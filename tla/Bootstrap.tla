----------------------------- MODULE Bootstrap ------------------------------
(***************************************************************************)
(* bootstrap_connection and bootstrap_kv_connection (bootstrap.rs): the    *)
(* seeds are tried in order, and on each connection the client negotiates  *)
(* features, authenticates (auth.rs), selects the bucket and, for DCP,     *)
(* opens the producer and sets its controls.                               *)
(*                                                                         *)
(* One action is one exchange: the server handles the request, or not, and *)
(* the client gets its answer, or not.  The connection is the client's     *)
(* alone, so nothing comes in between.                                     *)
(***************************************************************************)
EXTENDS Integers, Sequences, FiniteSets, SequencesExt

CONSTANTS
  SeedCount,            \* configured seeds
  Dcp,                  \* TRUE for bootstrap_connection
  disable_change_streams,
  TlsConfigs,           \* TlsConfig: [enabled, root_ca], root_ca being None, or a file
                        \* that is "valid", "invalid", "empty" or "missing"
  MaxIterations,        \* MAX_SCRAM_ITERATIONS
  Features,             \* the HELLO features a server may know
  MechanismLists,       \* the SASL mechanisms that servers offer
  None

VARIABLES
  tls, native,          \* the TLS settings, and whether the platform has root certificates
  seed, stage,          \* where the client is
  client,               \* KvConnection and BootstrapCapabilities, as far as they are filled
  server,               \* the server's side of the connection (external)
  failures,             \* seeds that failed
  outcome               \* None, "connected" or "failed"

vars == <<tls, native, seed, stage, client, server, failures, outcome>>

Scram == <<"SCRAM-SHA512", "SCRAM-SHA256", "SCRAM-SHA1">>
Mechanisms == Scram \o <<"PLAIN">>

NewClient ==
  [roots |-> {}, hello_features |-> {}, snappy |-> FALSE, collections |-> FALSE,
   mechanism |-> None, xattrs |-> FALSE, dcp_controls |-> {}]

NewServer(genuine) ==
  [genuine |-> genuine, encrypted |-> FALSE, features |-> {}, offered |-> {}, authenticated |-> FALSE,
   bucket |-> FALSE, producer |-> FALSE, include_xattrs |-> FALSE, controls |-> {}]

\* The controls of a DCP connection, in order.
RequiredControls == {"enable_noop", "set_noop_interval", "set_priority", "connection_buffer_size"}
Controls ==
  <<"enable_noop", "set_noop_interval", "set_priority", "change_streams",
    "enable_expiry_opcode", "enable_stream_id", "connection_buffer_size",
    "send_stream_end_on_client_close_stream">>

\* Controls that are not sent on this connection.
Skipped(control) ==
  \/ control = "change_streams" /\ disable_change_streams
  \/ control = "enable_stream_id" /\ "Collections" \notin client.hello_features

----------------------------------------------------------------------------
(* Moving on, and giving a seed up.                                        *)

\* The stages after a stage; the last one is the end of the bootstrap.
After(s) ==
  LET sent == SelectSeq(Controls, LAMBDA c : ~Skipped(c))
      stages == <<"select_bucket">> \o (IF Dcp THEN <<"dcp_open">> \o sent ELSE <<>>)
                  \o <<"connected">>
  IN stages[1 + CHOOSE i \in DOMAIN stages : stages[i] = s]

Advance(next, c, s) ==
  /\ client' = c /\ server' = s /\ stage' = next
  /\ outcome' = IF next = "connected" THEN "connected" ELSE outcome
  /\ UNCHANGED <<tls, native, seed, failures>>

\* The connection is dropped, and the next seed is tried.
SeedFails ==
  /\ failures' = failures \cup {seed}
  /\ IF seed = SeedCount
     THEN outcome' = "failed" /\ stage' = "failed" /\ UNCHANGED seed
     ELSE seed' = seed + 1 /\ stage' = "connect" /\ UNCHANGED outcome
  /\ client' = NewClient
  /\ \E genuine \in BOOLEAN : server' = NewServer(genuine)
  /\ UNCHANGED <<tls, native>>

\* An I/O error, an end of file, a timeout, or a response that is not one to this request;
\* the server may have handled the request.
ExchangeFails == stage \notin {"connect", "connected", "failed"} /\ SeedFails

----------------------------------------------------------------------------
(* KvConnection::connect.                                                  *)

\* The trust roots, or none when they cannot be built.
Roots ==
  IF tls.root_ca \in {"invalid", "empty", "missing"} THEN {}
  ELSE (IF native THEN {"native"} ELSE {}) \cup (IF tls.root_ca = "valid" THEN {"file"} ELSE {})

Connect ==
  /\ stage = "connect"
  /\ IF tls.enabled
     THEN Roots # {} /\ Advance("hello", [client EXCEPT !.roots = Roots],
                                [server EXCEPT !.encrypted = TRUE])
     ELSE Advance("hello", client, server)

ConnectFails == stage = "connect" /\ SeedFails

----------------------------------------------------------------------------
(* HELLO and SASL.                                                         *)

Hello ==
  /\ stage = "hello"
  /\ \E features \in SUBSET Features :
       Advance("list_mechanisms",
               [client EXCEPT !.hello_features = features,
                              !.collections = "Collections" \in features,
                              !.snappy = {"Snappy", "SnappyEverywhere"} \cap features # {}],
               [server EXCEPT !.features = features])

select_mechanism(offered) ==
  Mechanisms[CHOOSE i \in DOMAIN Mechanisms :
               /\ Mechanisms[i] \in offered
               /\ \A j \in 1..(i - 1) : Mechanisms[j] \notin offered]

ListMechanisms ==
  /\ stage = "list_mechanisms"
  /\ \E offered \in MechanismLists :
       /\ offered \cap ToSet(Mechanisms) # {}
       /\ Advance("sasl_auth", [client EXCEPT !.mechanism = select_mechanism(offered)],
                  [server EXCEPT !.offered = offered])

NoMechanism ==
  /\ stage = "list_mechanisms"
  /\ \E offered \in MechanismLists : offered \cap ToSet(Mechanisms) = {}
  /\ SeedFails

PlainAuth ==
  /\ stage = "sasl_auth" /\ client.mechanism = "PLAIN"
  /\ Advance("select_bucket", client, [server EXCEPT !.authenticated = TRUE])

\* What handle_server_first accepts of a server-first message.
ServerFirst ==
  [extension : BOOLEAN, nonce : {"extends", "same", "other", None}, salt : {"valid", "invalid", None},
   iterations : {None, 0, 1, MaxIterations, MaxIterations + 1}]

FirstAccepted(m) ==
  /\ ~m.extension /\ m.nonce = "extends" /\ m.salt = "valid"
  /\ m.iterations \in Nat \ {0} /\ m.iterations <= MaxIterations

\* AUTH_CONTINUE with a server-first message.
ScramStart ==
  /\ stage = "sasl_auth" /\ client.mechanism # "PLAIN"
  /\ \E message \in ServerFirst :
       IF FirstAccepted(message) THEN Advance("sasl_step", client, server) ELSE SeedFails

\* verify_server_final: the verifier is the signature that only a server that knows the
\* password can have made.
FinalAccepted(message) == message = "signature"

ServerFinal == IF server.genuine THEN {"signature", "error"} ELSE {"other", "error", None}

ScramFinish ==
  /\ stage = "sasl_step"
  /\ \E message \in ServerFinal :
       IF FinalAccepted(message)
       THEN Advance("select_bucket", client, [server EXCEPT !.authenticated = TRUE])
       ELSE SeedFails

----------------------------------------------------------------------------
(* Bucket, producer and controls.                                          *)

SelectBucket ==
  /\ stage = "select_bucket"
  /\ Advance(After(stage), client, [server EXCEPT !.bucket = TRUE])

\* Mutant of OpenFlags: XATTRs are always asked for.
OpenFlags_always == TRUE

OpenFlags == "Xattr" \in client.hello_features

DcpOpen ==
  /\ stage = "dcp_open"
  /\ Advance(After(stage), [client EXCEPT !.xattrs = OpenFlags],
             [server EXCEPT !.producer = TRUE, !.include_xattrs = OpenFlags])

ControlAccepted ==
  /\ stage \in ToSet(Controls)
  /\ Advance(After(stage),
             IF stage \in RequiredControls THEN client
             ELSE [client EXCEPT !.dcp_controls = @ \cup {stage}],
             [server EXCEPT !.controls = @ \cup {stage}])

Optional(control) == control \notin RequiredControls

\* INVALID_ARGUMENTS, UNKNOWN_COMMAND or NOT_SUPPORTED.
ControlUnsupported ==
  /\ stage \in ToSet(Controls)
  /\ IF Optional(stage) THEN Advance(After(stage), client, server) ELSE SeedFails

----------------------------------------------------------------------------
Init ==
  /\ tls \in TlsConfigs /\ native \in BOOLEAN
  /\ seed = 1 /\ stage = "connect" /\ client = NewClient
  /\ \E genuine \in BOOLEAN : server = NewServer(genuine)
  /\ failures = {} /\ outcome = None

Next ==
  \/ Connect \/ ConnectFails \/ ExchangeFails
  \/ Hello \/ ListMechanisms \/ NoMechanism \/ PlainAuth \/ ScramStart \/ ScramFinish
  \/ SelectBucket \/ DcpOpen \/ ControlAccepted \/ ControlUnsupported

Spec == Init /\ [][Next]_vars

----------------------------------------------------------------------------
(* Properties.                                                             *)

Connected == outcome = "connected"

\* The connection that bootstrap returns is one whose server has authenticated the client
\* with the strongest mechanism it offered, has shown with a SCRAM signature that it knows
\* the password, and has selected the bucket (authenticate, bootstrap_kv_on_connection).
Authenticated ==
  Connected =>
    /\ server.authenticated /\ server.bucket
    /\ client.mechanism \in server.offered
    /\ \A i, j \in DOMAIN Mechanisms :
         Mechanisms[j] = client.mechanism /\ i < j => Mechanisms[i] \notin server.offered
    /\ client.mechanism \in ToSet(Scram) => server.genuine

\* Both sides agree on how frames are read: key prefixes, compression and XATTRs, and the
\* recorded DCP controls are those the server has set (BootstrapCapabilities).
CapabilitiesAgree ==
  Connected =>
    /\ client.hello_features = server.features
    /\ client.collections = ("Collections" \in server.features)
    /\ client.snappy = ({"Snappy", "SnappyEverywhere"} \cap server.features # {})
    /\ server.include_xattrs => "Xattr" \in server.features
    /\ client.dcp_controls = server.controls \ RequiredControls

\* A DCP connection has an open producer with NOOPs, a priority and flow control; a normal
\* one has no producer (bootstrap_on_connection, control_required).
ProducerIsConfigured ==
  Connected =>
    IF Dcp THEN server.producer /\ RequiredControls \subseteq server.controls
    ELSE ~server.producer /\ server.controls = {}

\* With TLS the connection is encrypted and trusts the configured certificate file, which
\* is never passed over (build_tls_config_sync).
TrustIsConfigured ==
  Connected /\ tls.enabled =>
    /\ server.encrypted /\ client.roots # {}
    /\ tls.root_ca # None => "file" \in client.roots

\* An error is returned only after every seed was tried, and a connection is one to the
\* first usable seed (bootstrap_connection).
SeedsInOrder ==
  /\ outcome = "failed" => failures = 1..SeedCount
  /\ Connected => failures = 1..(seed - 1)

=============================================================================
