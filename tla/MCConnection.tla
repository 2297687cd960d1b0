---------------------------- MODULE MCConnection ----------------------------
(***************************************************************************)
(* Small instances of one KV or DCP connection and of the formats it       *)
(* reads, for TLC, beside those of MCOpening.  A behaviour belongs to one  *)
(* scenario, in which the variables of the other components rest:          *)
(*   "requests", "batches"  KvConnection: requests that time out, and      *)
(*                          batches with opaques the caller has set;       *)
(*   "dcp", "tls"           Bootstrap: a DCP connection over two seeds,    *)
(*                          and a KV connection over TLS and three;        *)
(*   "frames", "stream"     FrameCodec: every small frame alone, and       *)
(*                          several frames cut into reads;                 *)
(*   "messages"             DcpMessages: every frame around the limits;    *)
(*   "topology"             TopologyConfig, over all small configurations. *)
(***************************************************************************)
EXTENDS MCOpening

CONSTANTS Error, h1, h2, origin, u1

VARIABLES
  \* KvConnection, whose `received' is `returned' here
  next_opaque, pending, exchange, unanswered, wire, sent, requested, returned,
  \* Bootstrap, whose `failures' is `refusals' here
  tls, native, seed, stage, client, server, refusals, outcome,
  \* FrameCodec: its `sent', `wire', `received' and `failed' are `encoded', `bytes',
  \* `decoded' and `broken'
  collections_enabled, snappy_enabled, encoded, bytes, source, decoded, consumed, broken,
  \* DcpMessages
  frame, message, event,
  \* TopologyConfig
  raw, request, result

kvVars == <<next_opaque, pending, exchange, unanswered, wire, sent, requested, returned>>
bootstrapVars == <<tls, native, seed, stage, client, server, refusals, outcome>>
codecVars == <<collections_enabled, snappy_enabled, encoded, bytes, source, decoded,
               consumed, broken>>
messageVars == <<frame, message, event>>
topologyVars == <<raw, request, result>>

-----------------------------------------------------------------------------
(* The instances.                                                          *)

Requests == INSTANCE KvConnection
              WITH MaxOpaque <- 4, Explicit <- {}, MaxRequests <- 3, MaxBatch <- 2,
                   MaxFrames <- 2, MayTimeOut <- TRUE, received <- returned

Batches == INSTANCE KvConnection
             WITH MaxOpaque <- 5, Explicit <- {2, 3}, MaxRequests <- 3, MaxBatch <- 3,
                  MaxFrames <- 1, MayTimeOut <- FALSE, received <- returned

HelloFeatures == {"Xattr", "Collections", "Snappy", "SnappyEverywhere"}
Offers == {{"PLAIN"}, {"PLAIN", "SCRAM-SHA1"}, {"PLAIN", "SCRAM-SHA1", "SCRAM-SHA512"},
           {"OTHER"}}

Producer == INSTANCE Bootstrap
              WITH SeedCount <- 2, Dcp <- TRUE, disable_change_streams <- FALSE,
                   TlsConfigs <- {[enabled |-> FALSE, root_ca |-> None]}, MaxIterations <- 5,
                   Features <- HelloFeatures, MechanismLists <- Offers, failures <- refusals

Secured == INSTANCE Bootstrap
             WITH SeedCount <- 3, Dcp <- FALSE, disable_change_streams <- FALSE,
                  TlsConfigs <- [enabled : {TRUE},
                                 root_ca : {None, "valid", "invalid", "empty", "missing"}],
                  MaxIterations <- 5, Features <- HelloFeatures, MechanismLists <- Offers, failures <- refusals

PlainFrame == [magic |-> "Request", opcode |-> "document", datatype |-> 0,
               vbucket |-> 1, status |-> 0, opaque |-> 1, framing_extras |-> <<>>,
               extras |-> <<>>, key |-> <<1>>, value |-> <<>>, collection_id |-> None]

Times(n, byte) == [i \in 1..n |-> byte]

\* Framing extras around the spill of id and length into extension bytes.
Framings == {<<>>,
             <<[id |-> 2, data |-> <<0, 5>>]>>,
             <<[id |-> 5, data |-> Times(4, 4)]>>,
             <<[id |-> 2, data |-> <<>>], [id |-> 7, data |-> <<7, 7>>]>>,
             <<[id |-> 19, data |-> <<>>]>>}

WithMagic(magic) ==
  LET response == magic \in {"Response", "AltResponse"} IN
  [PlainFrame EXCEPT !.magic = magic, !.vbucket = IF response THEN 0 ELSE 1,
                     !.status = IF response THEN 2 ELSE 0]

\* Every combination of header form, framing and collection prefix, on keys around the
\* limits of a flexible header.
OneFrame ==
  {[WithMagic(magic) EXCEPT !.opcode = opcode, !.framing_extras = framing,
                            !.key = key, !.collection_id = id] :
     magic \in {"Request", "Response", "ServerRequest", "AltRequest", "AltResponse"},
     opcode \in {"document", "other"}, framing \in Framings,
     key \in {<<>>, <<9>>, Times(15, 9), Times(16, 9)}, id \in {None, 0, 7, 8, 15}}

\* A few frames, for every way of cutting several of them into reads.
SomeFrames ==
  {PlainFrame,
   [PlainFrame EXCEPT !.extras = <<3>>, !.value = <<4, 4, 4>>, !.datatype = 2,
                      !.collection_id = 8],
   [WithMagic("Response") EXCEPT !.opcode = "other", !.key = <<>>, !.value = <<5>>],
   [PlainFrame EXCEPT !.opcode = "other",
                      !.framing_extras = <<[id |-> 2, data |-> <<0, 5>>]>>]}

Single == INSTANCE FrameCodec
            WITH ByteMax <- 15, NibbleMax <- 3, IdMax <- 15, UlebBytes <- 2,
                 max_frame_size <- 60, MaxValue <- 3, MaxFrames <- 1, Frames <- OneFrame,
                 sent <- encoded, wire <- bytes, received <- decoded, failed <- broken

Stream == INSTANCE FrameCodec
            WITH ByteMax <- 15, NibbleMax <- 3, IdMax <- 15, UlebBytes <- 2,
                 max_frame_size <- 60, MaxValue <- 3, MaxFrames <- 3, Frames <- SomeFrames,
                 sent <- encoded, wire <- bytes, received <- decoded, failed <- broken

BlankMessage == [request |-> TRUE, opcode |-> "DCP_NOOP", extras |-> 0, value |-> 0,
                 version |-> 0, code |-> 0, inverted |-> FALSE, status |-> "success",
                 declared |-> 0]

Events ==
  {[BlankMessage EXCEPT !.opcode = opcode, !.extras = extras] :
     opcode \in {"DCP_MUTATION", "DCP_DELETION", "DCP_EXPIRATION", "DCP_STREAM_END",
                 "DCP_SEQNO_ADVANCED", "DCP_OSO_SNAPSHOT", "DCP_NOOP", "OTHER"},
     extras \in 0..30}

Markers ==
  {[BlankMessage EXCEPT !.opcode = "DCP_SNAPSHOT_MARKER", !.extras = extras,
                        !.value = value, !.version = version, !.inverted = inverted] :
     extras \in {0, 1, 2, 19, 20, 21}, value \in 34..54, version \in 0..3,
     inverted \in BOOLEAN}

SystemEvents ==
  {[BlankMessage EXCEPT !.opcode = "DCP_SYSTEM_EVENT", !.extras = extras,
                        !.value = value, !.version = version, !.code = code] :
     extras \in 12..14, value \in 6..22, version \in 0..2, code \in 0..6}

Responses ==
  {[BlankMessage EXCEPT !.request = FALSE, !.opcode = opcode, !.extras = extras,
                        !.value = value, !.version = version, !.status = status,
                        !.declared = declared] :
     opcode \in {"DCP_GET_FAILOVER_LOG", "DCP_STREAM_REQUEST", "GET_ALL_VB_SEQNOS",
                 "OBSERVE_SEQNO", "COLLECTIONS_GET_ID", "SUBDOC_MULTI_LOOKUP"},
     extras \in {11, 12, 13}, value \in 0..50, version \in 0..2,
     status \in {"success", "rollback", "not_found", "path_failure"}, declared \in {0, 3}}

Messages == INSTANCE DcpMessages
              WITH Frames <- Events \cup Markers \cup SystemEvents \cup Responses

Services == {[kv |-> 1, kv_ssl |-> 2], [kv |-> 1, kv_ssl |-> 0], [kv |-> 0, kv_ssl |-> 0]}

Alternates ==
  {<<>>} \cup [{"external"} -> [hostname : {None, h2},
                                services : {None, [kv |-> 3, kv_ssl |-> 4]}]]

ClusterNodes ==
  [hostname : {None, h1}, services : Services, alternate : Alternates, uuid : {None, u1}]

VBucketMaps ==
  [num_replicas : {0, 1}, server_list : {<<>>, <<<<h1, 1>>>>, <<<<h1, 1>>, <<h2, 1>>>>},
   v_bucket_map : {<<>>, <<<<0>>>>, <<<<1>>, <<0>>>>, <<<<0, 1>>, <<1, -1>>>>,
                   <<<<-1, 0>>>>, <<<<2, 0>>>>}]

\* Node lists of up to two nodes, the second one with the KV service on both ports.
Configurations ==
  [supported : BOOLEAN, map : VBucketMaps,
   nodes_ext : {<<>>} \cup {<<n>> : n \in ClusterNodes} \cup
     {<<n, [hostname |-> h2, services |-> [kv |-> 1, kv_ssl |-> 2],
            alternate |-> alternate, uuid |-> id]>> :
        n \in ClusterNodes, alternate \in Alternates, id \in {None, u1}}]

Topology == INSTANCE TopologyConfig
              WITH RawConfigs <- Configurations, Source <- <<origin, 1>>,
                   Networks <- {"auto", "default", "external"}

-----------------------------------------------------------------------------
(* What rests in a scenario, and its steps.                                *)

KvRests ==
  /\ next_opaque = None /\ pending = None /\ exchange = None /\ unanswered = None
  /\ wire = None /\ sent = None /\ requested = None /\ returned = None
BootstrapRests ==
  /\ tls = None /\ native = None /\ seed = None /\ stage = None
  /\ client = None /\ server = None /\ refusals = None /\ outcome = None
CodecRests ==
  /\ collections_enabled = None /\ snappy_enabled = None /\ encoded = None /\ bytes = None
  /\ source = None /\ decoded = None /\ consumed = None /\ broken = None
MessagesRest == frame = None /\ message = None /\ event = None
TopologyRests == raw = None /\ request = None /\ result = None

ConnectionInit ==
  \/ /\ OpeningInit
     /\ KvRests /\ BootstrapRests /\ CodecRests /\ MessagesRest /\ TopologyRests
  \/ /\ \/ scenario = "requests" /\ Requests!Init
        \/ scenario = "batches" /\ Batches!Init
     /\ OpeningRests /\ BootstrapRests /\ CodecRests /\ MessagesRest /\ TopologyRests
  \/ /\ \/ scenario = "dcp" /\ Producer!Init
        \/ scenario = "tls" /\ Secured!Init
     /\ OpeningRests /\ KvRests /\ CodecRests /\ MessagesRest /\ TopologyRests
  \/ /\ \/ scenario = "frames" /\ Single!Init
        \/ scenario = "stream" /\ Stream!Init
     /\ OpeningRests /\ KvRests /\ BootstrapRests /\ MessagesRest /\ TopologyRests
  \/ /\ scenario = "messages" /\ Messages!Init
     /\ OpeningRests /\ KvRests /\ BootstrapRests /\ CodecRests /\ TopologyRests
  \/ /\ scenario = "topology" /\ Topology!Init
     /\ OpeningRests /\ KvRests /\ BootstrapRests /\ CodecRests /\ MessagesRest

ConnectionNext ==
  \/ /\ OpeningNext
     /\ UNCHANGED <<kvVars, bootstrapVars, codecVars, messageVars, topologyVars>>
  \/ /\ \/ scenario = "requests" /\ Requests!Next
        \/ scenario = "batches" /\ Batches!Next
     /\ UNCHANGED <<scenario, openingVars, bootstrapVars, codecVars, messageVars, topologyVars>>
  \/ /\ \/ scenario = "dcp" /\ Producer!Next
        \/ scenario = "tls" /\ Secured!Next
     /\ UNCHANGED <<scenario, openingVars, kvVars, codecVars, messageVars, topologyVars>>
  \/ /\ \/ scenario = "frames" /\ Single!Next
        \/ scenario = "stream" /\ Stream!Next
     /\ UNCHANGED <<scenario, openingVars, kvVars, bootstrapVars, messageVars, topologyVars>>
  \/ /\ scenario = "messages" /\ Messages!Next
     /\ UNCHANGED <<scenario, openingVars, kvVars, bootstrapVars, codecVars, topologyVars>>
  \/ /\ scenario = "topology" /\ Topology!Next
     /\ UNCHANGED <<scenario, openingVars, kvVars, bootstrapVars, codecVars, messageVars>>

ConnectionSpec ==
  /\ ConnectionInit
  /\ [][ConnectionNext]_<<scenario, openingVars, kvVars, bootstrapVars, codecVars,
                          messageVars, topologyVars>>

-----------------------------------------------------------------------------

\* A call returns the responses to its own requests, in their order: not the late response
\* to one that timed out, and not a frame of the server's own.  Those are returned in order,
\* once each, whatever requests, batches and timeouts come in between.
AnswersMatch ==
  /\ scenario = "requests" => Requests!AnswersMatch /\ Requests!OwnFramesInOrder
  /\ scenario = "batches" => Batches!AnswersMatch

\* What bootstrap returns is the connection that was asked for: the first usable seed, over
\* TLS with the configured certificates; a server that authenticated the client with the strongest
\* mechanism it offered, and that agrees with it on how frames are read and on the DCP
\* controls that are set; an open producer with NOOPs, a priority and flow control for DCP,
\* and none for KV.
ConnectionIsReady ==
  /\ scenario = "dcp" => /\ Producer!Authenticated
                          /\ Producer!CapabilitiesAgree
                          /\ Producer!ProducerIsConfigured
                          /\ Producer!SeedsInOrder
  /\ scenario = "tls" => /\ Secured!ProducerIsConfigured
                          /\ Secured!SeedsInOrder
                          /\ Secured!TrustIsConfigured

\* However the bytes are cut into reads, the frames that were encoded come out of decode,
\* field by field, in order and without waiting for the next one, and the wire sizes from
\* which credit is returned add up to the bytes that were read.
FramesSurvive ==
  /\ scenario = "frames" => Single!FramesSurvive /\ Single!CreditMatchesTraffic
  /\ scenario = "stream" => /\ Stream!FramesSurvive
                             /\ Stream!CreditMatchesTraffic
                             /\ Stream!NothingIsHeldBack

\* A parser that accepts a frame has validated every byte it reads, takes no two fields from
\* the same byte, and reads the sequence number that the worker and the coordinator read.
MessagesAreRead ==
  scenario = "messages" => /\ Messages!ReadsAreValidated
                           /\ Messages!FieldsAreDisjoint
                           /\ Messages!ProgressAgrees

\* An accepted configuration routes every vBucket to the nodes the map names; a client dials
\* the ports of its transport in the resolved network; node identities and routes depend on
\* neither.
ConfigIsFollowed ==
  scenario = "topology" => /\ Topology!RoutesFollowMap
                           /\ Topology!AddressesAreSelected
                           /\ Topology!IdentityIsStable

=============================================================================
