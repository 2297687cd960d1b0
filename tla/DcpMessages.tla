---------------------------- MODULE DcpMessages ----------------------------
(***************************************************************************)
(* What a connection reads out of a frame: the producer messages of dcp.rs *)
(* and their conversion to public events (stream.rs), and the responses    *)
(* parsed by command.rs.  The contents of a field do not matter here, only *)
(* which bytes it is read from, so a field is its name and its span of the *)
(* extras or of the value, and a frame is the lengths of the two with the  *)
(* few bytes that choose a layout.                                         *)
(***************************************************************************)
EXTENDS Integers

CONSTANTS Frames,    \* the frames a peer sends, well formed or truncated
          None

VARIABLES frame, message, event

vars == <<frame, message, event>>

Field(name, part, offset, length) ==
  {[name |-> name, part |-> part, from |-> offset, to |-> offset + length]}
U32(name, part, offset) == Field(name, part, offset, 4)
U64(name, part, offset) == Field(name, part, offset, 8)
When(condition, fields) == IF condition THEN fields ELSE {}

\* The result of a parser that insists on its conditions.
Parsed(kind, conditions, fields) ==
  IF conditions THEN [ok |-> TRUE, kind |-> kind, fields |-> fields]
                ELSE [ok |-> FALSE]

parse_mutation(f) ==
  Parsed("Mutation", f.extras >= 28,
    U64("seqno", "extras", 0) \union U64("rev_seqno", "extras", 8)
    \union U32("flags", "extras", 16) \union U32("expiry", "extras", 20)
    \union U32("lock_time", "extras", 24))

\* parse_deletion and parse_expiration have one layout.
parse_deletion(f, kind) ==
  Parsed(kind, f.extras >= 16,
    U64("seqno", "extras", 0) \union U64("rev_seqno", "extras", 8)
    \union When(f.extras >= 20, U32("delete_time", "extras", 16)))

Marker(part, newer) ==
  U64("start_seqno", part, 0) \union U64("end_seqno", part, 8)
  \union U32("flags", part, 16) \union newer

\* Mutant of parse_snapshot_marker: a newer version needs no more bytes.
parse_snapshot_marker_short(f) ==
  IF f.extras = 20
    THEN Parsed("SnapshotMarker", ~f.inverted, Marker("extras", {}))
    ELSE Parsed("SnapshotMarker", f.extras = 1 /\ f.value >= 36 /\ ~f.inverted,
           Marker("value",
             U64("max_visible_seqno", "value", 20) \union U64("high_completed_seqno", "value", 28)
             \union When(f.version >= 1, U64("timestamp", "value", 36))
             \union When(f.version >= 2, U64("purge_seqno", "value", 44))))

\* The first version of a marker is all extras; the later ones put a version
\* byte there and the fields in the value.
parse_snapshot_marker(f) ==
  IF f.extras = 20
    THEN Parsed("SnapshotMarker", ~f.inverted, Marker("extras", {}))
    ELSE Parsed("SnapshotMarker",
           /\ f.extras = 1
           /\ f.value >= 36
           /\ f.version >= 1 => f.value >= 44
           /\ f.version >= 2 => f.value >= 52
           /\ ~f.inverted,
           Marker("value",
             U64("max_visible_seqno", "value", 20) \union U64("high_completed_seqno", "value", 28)
             \union When(f.version >= 1, U64("timestamp", "value", 36))
             \union When(f.version >= 2, U64("purge_seqno", "value", 44))))

\* The bytes one kind of system event needs, and what it reads from them.
SystemEventLength(f) ==
  CASE f.code = 0 -> IF f.version >= 1 THEN 20 ELSE 16
    [] f.code \in {1, 5} -> 16
    [] f.code \in {2, 3, 4} -> 12
    [] OTHER -> 8

SystemEventFields(f) ==
  CASE f.code = 0 -> U32("scope_id", "value", 8) \union U32("collection_id", "value", 12)
                     \union When(f.version >= 1, U32("max_ttl", "value", 16))
    [] f.code = 1 -> U32("scope_id", "value", 8) \union U32("collection_id", "value", 12)
    [] f.code = 2 -> U32("collection_id", "value", 8)
    [] f.code \in {3, 4} -> U32("scope_id", "value", 8)
    [] f.code = 5 -> U32("collection_id", "value", 8) \union U32("max_ttl", "value", 12)
    [] OTHER -> {}

parse_system_event(f) ==
  Parsed("SystemEvent", f.extras >= 13 /\ f.value >= 8 /\ f.value >= SystemEventLength(f),
    U64("seqno", "extras", 0) \union U32("code", "extras", 8)
    \union Field("version", "extras", 12, 1) \union U64("manifest_uid", "value", 0)
    \union SystemEventFields(f))

parse_dcp_message(f) ==
  CASE f.opcode = "DCP_MUTATION" -> parse_mutation(f)
    [] f.opcode = "DCP_DELETION" -> parse_deletion(f, "Deletion")
    [] f.opcode = "DCP_EXPIRATION" -> parse_deletion(f, "Expiration")
    [] f.opcode = "DCP_SNAPSHOT_MARKER" -> parse_snapshot_marker(f)
    [] f.opcode = "DCP_STREAM_END" ->
         Parsed("StreamEnd", f.extras >= 4, U32("reason", "extras", 0))
    [] f.opcode = "DCP_SEQNO_ADVANCED" ->
         Parsed("SeqNoAdvanced", f.extras >= 8, U64("seqno", "extras", 0))
    [] f.opcode = "DCP_SYSTEM_EVENT" -> parse_system_event(f)
    [] f.opcode = "DCP_OSO_SNAPSHOT" ->
         Parsed("OsoSnapshot", f.extras >= 4, U32("state", "extras", 0))
    [] f.opcode = "DCP_NOOP" -> Parsed("Noop", TRUE, {})
    [] OTHER -> Parsed("Unknown", TRUE, {})

-----------------------------------------------------------------------------
(* Responses.  Entries of a log are fields named by their index. *)

Entries(count, first, second) ==
  UNION {Field(<<i, 1>>, "value", (i - 1) * (first + second), first)
         \union Field(<<i, 2>>, "value", (i - 1) * (first + second) + first, second) :
           i \in 1..count}

parse_failover_entries(f) ==
  Parsed("FailoverLog", f.value % 16 = 0, Entries(f.value \div 16, 8, 8))

parse_failover_log(f) ==
  IF f.status = "success" THEN parse_failover_entries(f) ELSE [ok |-> FALSE]

parse_stream_request_response(f) ==
  CASE f.status = "rollback" ->
         Parsed("Rollback", f.value = 8, U64("rollback_seqno", "value", 0))
    [] f.status = "success" -> parse_failover_entries(f)
    [] OTHER -> [ok |-> FALSE]

parse_vbucket_seqnos(f) ==
  Parsed("SeqNos", f.status = "success" /\ f.value % 10 = 0, Entries(f.value \div 10, 2, 8))

\* The format byte is 0, or 1 after a hard failover, and decides the length.
parse_observe_seqno(f) ==
  Parsed("ObserveSeqNo",
    /\ f.status = "success"
    /\ f.value > 0
    /\ f.version \in {0, 1}
    /\ f.value >= IF f.version = 0 THEN 27 ELSE 43,
    Field("format", "value", 0, 1) \union Field("vbucket", "value", 1, 2)
    \union U64("vbucket_uuid", "value", 3) \union U64("persisted_seqno", "value", 11)
    \union U64("current_seqno", "value", 19)
    \union When(f.version = 1, U64("old_vbucket_uuid", "value", 27)
                               \union U64("last_seqno", "value", 35)))

parse_collection_id(f) ==
  Parsed("CollectionId", f.status = "success" /\ f.extras = 12,
    U64("manifest_uid", "extras", 0) \union U32("collection_id", "extras", 8))

\* One lookup result: a status, a declared length and the attribute.  An absent
\* document or attribute is a result without fields.
parse_subdoc_get_xattr(f) ==
  IF f.status = "not_found" THEN Parsed("Absent", TRUE, {})
  ELSE IF f.version = 0
    THEN Parsed("Xattr",
           /\ f.status \in {"success", "path_failure"}
           /\ f.value >= 6 /\ f.value = 6 + f.declared,
           Field("status", "value", 0, 2) \union U32("length", "value", 2)
           \union Field("xattr", "value", 6, f.declared))
    ELSE Parsed("Absent",
           /\ f.status \in {"success", "path_failure"}
           /\ f.value >= 6 /\ f.value = 6 + f.declared
           /\ f.version = 1,
           {})

\* ensure_response_opcode: a request opcode never parses as a response.
ParseResponse(f) ==
  CASE f.opcode = "DCP_GET_FAILOVER_LOG" -> parse_failover_log(f)
    [] f.opcode = "DCP_STREAM_REQUEST" -> parse_stream_request_response(f)
    [] f.opcode = "GET_ALL_VB_SEQNOS" -> parse_vbucket_seqnos(f)
    [] f.opcode = "OBSERVE_SEQNO" -> parse_observe_seqno(f)
    [] f.opcode = "COLLECTIONS_GET_ID" -> parse_collection_id(f)
    [] f.opcode = "SUBDOC_MULTI_LOOKUP" -> parse_subdoc_get_xattr(f)

-----------------------------------------------------------------------------
(* From a message to the event the application sees. *)

Named(fields, name) == {x \in fields : x.name = name}

\* message_seqno: where the worker reads the progress of a partition from.
message_seqno(m) ==
  IF m.kind \in {"Mutation", "Deletion", "Expiration", "SeqNoAdvanced", "SystemEvent"}
    THEN Named(m.fields, "seqno") ELSE {}

\* message_vbucket: the messages that belong to a partition.
Routed(m) == m.kind \notin {"Noop", "Unknown"}

\* convert_mutation to convert_oso_snapshot: all but the timestamp of a marker is kept.
Kept(m) == m.fields \ Named(m.fields, "timestamp")

convert_event(m) ==
  IF Routed(m) THEN [ok |-> TRUE, kind |-> m.kind, fields |-> Kept(m)] ELSE [ok |-> FALSE]

\* DcpEvent::seqno: where the checkpoint coordinator reads it from.
seqno(e) ==
  IF e.kind \in {"SnapshotMarker", "StreamEnd", "OsoSnapshot"} THEN {} ELSE Named(e.fields, "seqno")

-----------------------------------------------------------------------------

Parse ==
  /\ message = None
  /\ message' = IF frame.request THEN parse_dcp_message(frame) ELSE ParseResponse(frame)
  /\ UNCHANGED <<frame, event>>

Convert ==
  /\ message # None /\ message.ok
  /\ frame.request
  /\ event = None
  /\ event' = convert_event(message)
  /\ UNCHANGED <<frame, message>>

Init == frame \in Frames /\ message = None /\ event = None

Next == Parse \/ Convert

Spec == Init /\ [][Next]_vars

Read == IF message = None \/ ~message.ok THEN {} ELSE message.fields
PartLength(part) == IF part = "extras" THEN frame.extras ELSE frame.value

\* read_u32 and read_u64 slice without checking ("caller validated message
\* length"): whatever lengths, version and format byte a frame has, a parser
\* that accepts it has validated every byte it reads.
ReadsAreValidated == \A x \in Read : x.to <= PartLength(x.part)

\* Two fields of a message never come from the same byte, so no offset of a
\* layout repeats or cuts into its neighbour.
FieldsAreDisjoint ==
  \A x, y \in Read :
    x # y => (x.part # y.part \/ x.to <= y.from \/ y.to <= x.from)

\* The worker moves a partition's progress by message_seqno and the coordinator
\* registers the event by DcpEvent::seqno: for every message that becomes an
\* event both read the same field, and only messages that carry a sequence
\* number have one.
ProgressAgrees ==
  (event # None /\ event.ok) =>
    /\ message_seqno(message) = seqno(event)
    /\ message_seqno(message) = Named(message.fields, "seqno")
    /\ event.kind = message.kind
=============================================================================
