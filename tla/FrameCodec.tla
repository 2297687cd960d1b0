----------------------------- MODULE FrameCodec -----------------------------
(***************************************************************************)
(* The framing of a KV connection: FrameCodec (Encoder and Decoder of      *)
(* codec.rs), the LEB128 prefix that carries a collection id in front of a *)
(* document key, the flexible framing extras, and the decompression that   *)
(* KvConnection applies to what it reads.  Bytes are scaled down: one byte *)
(* holds 0..ByteMax, a nibble 0..NibbleMax, and every limit of the code    *)
(* (255, 15, 270, 0x80, u32::MAX, five bytes) is the same expression of    *)
(* those.  The header keeps every field that decides how the body is cut;  *)
(* the CAS travels like the opaque and is left out.                        *)
(***************************************************************************)
EXTENDS Integers, SequencesExt

CONSTANTS ByteMax,          \* u8::MAX
          NibbleMax,        \* 15, with (NibbleMax + 1)^2 = ByteMax + 1
          IdMax,            \* u32::MAX of a collection id
          UlebBytes,        \* the five bytes a LEB128 u32 may take
          max_frame_size,   \* of the codec
          MaxValue,         \* MAX_DECOMPRESSED_VALUE_SIZE
          Frames,           \* the frames a peer may hand to its encoder
          MaxFrames,        \* bound: frames sent on the connection
          None

VARIABLES collections_enabled, snappy_enabled,  \* negotiated by HELLO
          sent,       \* frames handed to the encoder and accepted by it
          wire,       \* bytes written and not yet read from the socket
          source,     \* BytesMut of the reading side
          received,   \* frames KvConnection returned, with their wire size
          consumed,   \* ghost: bytes the decoder took out of source
          failed      \* the decoder or the decompression reported an error

vars == <<collections_enabled, snappy_enabled, sent, wire, source, received,
          consumed, failed>>

Base == ByteMax + 1
Word(n) == <<n \div Base, n % Base>>
Value(bytes) == bytes[1] * Base + bytes[2]
WordMax == Base * Base - 1

as_u8 == [Request |-> Base \div 2, Response |-> Base \div 2 + 1,
          ServerRequest |-> Base \div 2 + 2, AltRequest |-> 0,
          AltResponse |-> 1]
is_alt(magic) == magic \in {"AltRequest", "AltResponse"}
is_response(magic) == magic \in {"Response", "AltResponse"}
is_collection_encoded(opcode) == opcode = "document"

\* encode_uleb128_u32 and decode_uleb128_u32: the high bit of a byte says that
\* another one follows.
Continue == Base \div 2
RECURSIVE encode_uleb128(_)
encode_uleb128(value) ==
  IF value < Continue
    THEN <<value>>
    ELSE <<Continue + (value % Continue)>> \o encode_uleb128(value \div Continue)

Decoded(bytes, n) ==
  FoldLeft(+, 0, [i \in 1..n |-> (bytes[i] % Continue) * Continue^(i - 1)])

decode_uleb128(bytes) ==
  LET ends == {i \in 1..Len(bytes) : i <= UlebBytes /\ bytes[i] < Continue}
      n == IF ends = {} THEN 0 ELSE Min(ends)
      id == Decoded(bytes, n)
  IN [ok |-> n > 0 /\ id <= IdMax, id |-> id, length |-> n]

Lesser(a, b) == IF a < b THEN a ELSE b

\* encode_framing_extras: id and length share a byte; the larger ones spill
\* into an extension byte each.
EncodeExtra(extra) ==
  LET length == Len(extra.data)
  IN <<Lesser(extra.id, NibbleMax) * (NibbleMax + 1) + Lesser(length, NibbleMax)>>
     \o (IF extra.id >= NibbleMax THEN <<extra.id - NibbleMax>> ELSE <<>>)
     \o (IF length >= NibbleMax THEN <<length - NibbleMax>> ELSE <<>>)
     \o extra.data

encode_framing_extras(extras) == FlattenSeq([i \in DOMAIN extras |-> EncodeExtra(extras[i])])

Drop(bytes, n) == SubSeq(bytes, n + 1, Len(bytes))

Malformed == [ok |-> FALSE, extras |-> <<>>]

RECURSIVE decode_framing_extras(_)
decode_framing_extras(bytes) ==
  IF bytes = <<>> THEN [ok |-> TRUE, extras |-> <<>>] ELSE
  LET id == bytes[1] \div (NibbleMax + 1)
      length == bytes[1] % (NibbleMax + 1)
      wide == id = NibbleMax
      long == length = NibbleMax
      start == 1 + (IF wide THEN 1 ELSE 0) + (IF long THEN 1 ELSE 0)
  IN IF Len(bytes) < start THEN Malformed ELSE
     LET tag == IF wide THEN id + bytes[2] ELSE id
         n == IF long THEN length + bytes[start] ELSE length
         rest == decode_framing_extras(Drop(bytes, start + n))
     IN IF Len(bytes) < start + n \/ ~rest.ok THEN Malformed
        ELSE [ok |-> TRUE,
              extras |-> <<[id |-> tag, data |-> SubSeq(bytes, start + 1, start + n)]>>
                         \o rest.extras]

encoded_magic(magic, has_framing) ==
  CASE ~has_framing -> magic
    [] has_framing /\ magic \in {"Request", "AltRequest"} -> "AltRequest"
    [] has_framing /\ is_response(magic) -> "AltResponse"
    [] OTHER -> None

\* The key with its collection prefix, as both the checks and the body use it.
Prefixed(frame) ==
  collections_enabled /\ is_collection_encoded(frame.opcode)

KeyOf(frame) ==
  (IF Prefixed(frame)
     THEN encode_uleb128(IF frame.collection_id = None THEN 0 ELSE frame.collection_id)
     ELSE <<>>) \o frame.key

HEADER_LEN == 10

Body(frame) ==
  encode_framing_extras(frame.framing_extras) \o frame.extras \o KeyOf(frame) \o frame.value

\* The checks of encode, in whatever order they fail.
Encodable(frame) ==
  LET framing == encode_framing_extras(frame.framing_extras)
      magic == encoded_magic(frame.magic, framing # <<>>)
      key == KeyOf(frame)
  IN /\ \A i \in DOMAIN frame.framing_extras :
          /\ frame.framing_extras[i].id <= NibbleMax + ByteMax
          /\ Len(frame.framing_extras[i].data) <= NibbleMax + ByteMax
     /\ magic # None
     /\ Len(frame.extras) <= ByteMax
     /\ Prefixed(frame) \/ frame.collection_id \in {None, 0}
     /\ IF is_alt(magic) THEN Len(key) <= ByteMax /\ Len(framing) <= ByteMax
                         ELSE Len(key) <= WordMax
     /\ is_response(frame.magic) \/ frame.status = 0
     /\ ~is_response(frame.magic) \/ frame.vbucket = 0
     /\ HEADER_LEN + Len(Body(frame)) <= max_frame_size
     /\ Len(Body(frame)) <= WordMax

encode(frame) ==
  LET framing == encode_framing_extras(frame.framing_extras)
      magic == encoded_magic(frame.magic, framing # <<>>)
      lengths == IF is_alt(magic) THEN <<Len(framing), Len(KeyOf(frame))>>
                                  ELSE Word(Len(KeyOf(frame)))
  IN <<as_u8[magic], IF is_collection_encoded(frame.opcode) THEN 1 ELSE 0>>
     \o lengths
     \o <<Len(frame.extras), frame.datatype,
          IF is_response(frame.magic) THEN frame.status ELSE frame.vbucket>>
     \o Word(Len(Body(frame))) \o <<frame.opaque>> \o Body(frame)

Nothing == [kind |-> "none"]
Failure == [kind |-> "error"]
TotalLen(bytes) == HEADER_LEN + Value(<<bytes[8], bytes[9]>>)

\* The packet split off the buffer, cut into its fields.
Cut(packet) ==
  LET magic == CHOOSE m \in DOMAIN as_u8 : as_u8[m] = packet[1]
      opcode == IF packet[2] = 1 THEN "document" ELSE "other"
      framing_len == IF is_alt(magic) THEN packet[3] ELSE 0
      key_len == IF is_alt(magic) THEN packet[4] ELSE Value(<<packet[3], packet[4]>>)
      extras_len == packet[5]
      body == Drop(packet, HEADER_LEN)
      framing == decode_framing_extras(SubSeq(body, 1, framing_len))
      key == SubSeq(body, framing_len + extras_len + 1, framing_len + extras_len + key_len)
      prefixed == collections_enabled /\ is_collection_encoded(opcode) /\ key # <<>>
      prefix == IF prefixed THEN decode_uleb128(key) ELSE [ok |-> TRUE, id |-> None, length |-> 0]
  IN IF framing_len + extras_len + key_len > Len(body) \/ ~framing.ok \/ ~prefix.ok
       THEN Failure
       ELSE [kind |-> "frame",
             wire_size |-> Len(packet),
             frame |-> [magic |-> magic, opcode |-> opcode, datatype |-> packet[6],
                        vbucket |-> IF is_response(magic) THEN 0 ELSE packet[7],
                        status |-> IF is_response(magic) THEN packet[7] ELSE 0,
                        opaque |-> packet[10],
                        framing_extras |-> framing.extras,
                        extras |-> SubSeq(body, framing_len + 1, framing_len + extras_len),
                        key |-> Drop(key, prefix.length),
                        value |-> Drop(body, framing_len + extras_len + key_len),
                        collection_id |-> prefix.id]]

\* Mutant of decode: cuts everything that has been read as one packet.
decode_all(bytes) ==
  IF Len(bytes) < HEADER_LEN THEN Nothing
  ELSE IF bytes[1] \notin Range(as_u8) \/ TotalLen(bytes) > max_frame_size THEN Failure
  ELSE IF Len(bytes) < TotalLen(bytes) THEN Nothing
  ELSE Cut(bytes)

decode(bytes) ==
  IF Len(bytes) < HEADER_LEN THEN Nothing
  ELSE IF bytes[1] \notin Range(as_u8) \/ TotalLen(bytes) > max_frame_size THEN Failure
  ELSE IF Len(bytes) < TotalLen(bytes) THEN Nothing
  ELSE Cut(SubSeq(bytes, 1, TotalLen(bytes)))

\* The compression library: a length header and the data.  A peer compresses a
\* value only after HELLO and only up to the size the reader allows.
Snappy == 2
Compressed(value) == <<Len(value)>> \o value

\* decode_inbound_frame.
decode_inbound_frame(decoded) ==
  IF decoded.frame.datatype # Snappy THEN decoded
  ELSE IF ~snappy_enabled \/ decoded.frame.value[1] > MaxValue THEN Failure
  ELSE [decoded EXCEPT !.frame.value = Drop(decoded.frame.value, 1),
                       !.frame.datatype = 0]

OnWire(frame) ==
  IF frame.datatype = Snappy THEN [frame EXCEPT !.value = Compressed(frame.value)] ELSE frame

\* A peer encodes a frame; one the encoder refuses leaves the wire as it was.
Send(frame) ==
  /\ Len(sent) < MaxFrames
  /\ frame.datatype = Snappy => snappy_enabled /\ Len(frame.value) <= MaxValue
  /\ Encodable(OnWire(frame))
  /\ sent' = Append(sent, [frame |-> frame, prefixed |-> Prefixed(frame)])
  /\ wire' = wire \o encode(OnWire(frame))
  /\ UNCHANGED <<collections_enabled, snappy_enabled, source, received, consumed, failed>>

\* A read of the socket returns any number of the bytes in flight.
ReadSocket(n) ==
  /\ ~failed
  /\ source' = source \o SubSeq(wire, 1, n)
  /\ wire' = Drop(wire, n)
  /\ UNCHANGED <<collections_enabled, snappy_enabled, sent, received, consumed, failed>>

\* wire_size of a received frame: what mark_received stored.
Accounted(decoded) == decoded.wire_size

\* read_raw: the framed reader decodes what it has buffered; after an error it
\* is not read again.
ReadRaw ==
  LET result == decode(source)
      inbound == IF result.kind = "frame" THEN decode_inbound_frame(result) ELSE result
  IN /\ ~failed
     /\ result.kind # "none"
     /\ source' = IF result.kind = "frame" THEN Drop(source, result.wire_size) ELSE source
     /\ consumed' = consumed + (Len(source) - Len(source'))
     /\ failed' = (inbound.kind = "error")
     /\ received' = IF inbound.kind = "frame"
                      THEN Append(received, [frame |-> inbound.frame,
                                             wire_size |-> Accounted(inbound)])
                      ELSE received
     /\ UNCHANGED <<collections_enabled, snappy_enabled, sent, wire>>

\* set_collections_enabled and set_snappy_enabled after the HELLO exchange,
\* when nothing else is in flight.
Negotiate ==
  /\ ~collections_enabled
  /\ wire = <<>> /\ source = <<>>
  /\ collections_enabled' = TRUE
  /\ snappy_enabled' = TRUE
  /\ UNCHANGED <<sent, wire, source, received, consumed, failed>>

Init ==
  /\ collections_enabled = FALSE /\ snappy_enabled = FALSE
  /\ sent = <<>> /\ wire = <<>> /\ source = <<>> /\ received = <<>>
  /\ consumed = 0 /\ failed = FALSE

Next ==
  \/ \E frame \in Frames : Send(frame)
  \/ \E n \in 1..Len(wire) : ReadSocket(n)
  \/ ReadRaw
  \/ Negotiate

Spec == Init /\ [][Next]_vars

-----------------------------------------------------------------------------

\* What the reader should hold for a frame its peer sent: framing extras turn
\* the header into its flexible form, a key with a prefix always names a
\* collection and one without never does, the value is the uncompressed one.
Expected(entry) ==
  [entry.frame EXCEPT
     !.magic = encoded_magic(entry.frame.magic, entry.frame.framing_extras # <<>>),
     !.datatype = IF entry.frame.datatype = Snappy THEN 0 ELSE entry.frame.datatype,
     !.collection_id = IF ~entry.prefixed THEN None
                       ELSE IF entry.frame.collection_id = None THEN 0
                       ELSE entry.frame.collection_id]

\* However the bytes are cut into reads, KvConnection returns the frames its
\* peer encoded, field by field and in order, and never an error
\* (FrameCodec::decode, FrameCodec::encode, decode_inbound_frame).
FramesSurvive ==
  /\ ~failed
  /\ Len(received) <= Len(sent)
  /\ \A i \in DOMAIN received : received[i].frame = Expected(sent[i])

\* A frame whose last byte has been read is handed out without waiting for the
\* next one: what decode leaves in the buffer is shorter than one frame.
NothingIsHeldBack ==
  (wire = <<>> /\ decode(source) = Nothing) => source = <<>> /\ Len(received) = Len(sent)

\* The wire sizes from which the worker returns flow-control credit add up to
\* the bytes that were read off the connection, compressed values and
\* collection prefixes included (Frame::wire_size, mark_received).
CreditMatchesTraffic ==
  consumed = FoldLeft(+, 0, [i \in DOMAIN received |-> received[i].wire_size])
=============================================================================
