----------------------------- MODULE MCOpening ------------------------------
(***************************************************************************)
(* Small instances of what a connection generation is opened with, for     *)
(* TLC.  A behaviour belongs to one scenario, in which the variables of    *)
(* the other components rest:                                              *)
(*   "mitigation"           RollbackMitigation, with the constants of the  *)
(*                          configuration;                                 *)
(*   "rewind", "report"     StreamOpen for one vBucket that may move, with *)
(*                          a handler and with StopAndReport;              *)
(*   "chosen"               the same with a handler, for explicit          *)
(*                          collections that leave some seqnos out;        *)
(*   "nodes"                a finite StreamOpen of two vBuckets on two     *)
(*                          nodes;                                         *)
(*   "scope", "collections" CollectionRegistry for a whole scope and for   *)
(*                          one named collection.                          *)
(* MCConnection adds scenarios for the connections themselves.             *)
(***************************************************************************)
EXTENDS RollbackMitigation, TLC

CONSTANTS n1, k1, k2, k3, k4

VARIABLES
  scenario,
  \* StreamOpen, whose `active' is `serving' here
  branch, fork, high, serving, starts, frozen, pc, route, todo, node, left,
  high_seqnos, requests, attempts, observed, opened, streams, error, moves, opens,
  \* CollectionRegistry, whose `opens' is `registry_opens' here
  changes, known, log, position, hidden, collection_ids, collection_names,
  observed_manifest_uid, stale, state, document, registry_opens

openVars == <<branch, fork, high, serving, starts, frozen, pc, route, todo, node, left,
              high_seqnos, requests, attempts, observed, opened, streams, error, moves,
              opens>>
registryVars == <<changes, known, log, position, hidden, collection_ids,
                  collection_names, observed_manifest_uid, stale, state, document,
                  registry_opens>>

Rewind == INSTANCE StreamOpen
            WITH VBuckets <- {1}, Nodes <- {1, 2}, Policy <- "DelegateToHandler",
                 Finite <- FALSE, Selected <- {1, 2}, MaxRollbackAttempts <- 2,
                 MaxSeqno <- 2, MaxBranches <- 3, MaxMoves <- 3, MaxOpens <- 2,
                 active <- serving

Chosen == INSTANCE StreamOpen
            WITH VBuckets <- {1}, Nodes <- {1, 2}, Policy <- "DelegateToHandler",
                 Finite <- FALSE, Selected <- {1}, MaxRollbackAttempts <- 2,
                 MaxSeqno <- 2, MaxBranches <- 2, MaxMoves <- 1, MaxOpens <- 2,
                 active <- serving

Report == INSTANCE StreamOpen
            WITH VBuckets <- {1}, Nodes <- {1, 2}, Policy <- "StopAndReport",
                 Finite <- FALSE, Selected <- {1, 2, 3}, MaxRollbackAttempts <- 2,
                 MaxSeqno <- 3, MaxBranches <- 3, MaxMoves <- 1, MaxOpens <- 2,
                 active <- serving

TwoNodes == INSTANCE StreamOpen
              WITH VBuckets <- {1, 2}, Nodes <- {1, 2}, Policy <- "RewindAndReplay",
                   Finite <- TRUE, Selected <- {1}, MaxRollbackAttempts <- 2,
                   MaxSeqno <- 1, MaxBranches <- 2, MaxMoves <- 1, MaxOpens <- 2,
                   active <- serving

Scope == INSTANCE CollectionRegistry
           WITH VBuckets <- {1, 2}, Names <- {k1, k2}, Configured <- {}, Skew <- FALSE,
                MaxChanges <- 3, MaxDocuments <- 1, MaxOpens <- 1, opens <- registry_opens

Collections == INSTANCE CollectionRegistry
                 WITH VBuckets <- {1, 2}, Names <- {k3, k4}, Configured <- {k3}, Skew <- FALSE,
                      MaxChanges <- 2, MaxDocuments <- 1, MaxOpens <- 2,
                      opens <- registry_opens

MitigationRests == Init /\ active = n1

OpenRests ==
  /\ branch = None /\ fork = None /\ high = None /\ serving = None /\ starts = None
  /\ frozen = None /\ pc = None /\ route = None /\ todo = None /\ node = None
  /\ left = None /\ high_seqnos = None /\ requests = None /\ attempts = None
  /\ observed = None /\ opened = None /\ streams = None /\ error = None
  /\ moves = None /\ opens = None

RegistryRests ==
  /\ changes = None /\ known = None /\ log = None /\ position = None /\ hidden = None
  /\ collection_ids = None /\ collection_names = None /\ observed_manifest_uid = None
  /\ stale = None /\ state = None /\ document = None /\ registry_opens = None

OpeningInit ==
  \/ scenario = "mitigation" /\ Init /\ OpenRests /\ RegistryRests
  \/ scenario = "rewind" /\ Rewind!Init /\ MitigationRests /\ RegistryRests
  \/ scenario = "chosen" /\ Chosen!Init /\ MitigationRests /\ RegistryRests
  \/ scenario = "report" /\ Report!Init /\ MitigationRests /\ RegistryRests
  \/ scenario = "nodes" /\ TwoNodes!Init /\ MitigationRests /\ RegistryRests
  \/ scenario = "scope" /\ Scope!Init /\ MitigationRests /\ OpenRests
  \/ scenario = "collections" /\ Collections!Init /\ MitigationRests /\ OpenRests

\* An observation fails, or a copy restarts.
FailsOrRestarts == failures' + restarts' <= 1

OpeningNext ==
  \/ /\ scenario = "mitigation" /\ Next /\ FailsOrRestarts
     /\ UNCHANGED <<scenario, openVars, registryVars>>
  \/ /\ \/ scenario = "rewind" /\ Rewind!Next
        \/ scenario = "chosen" /\ Chosen!Next
        \/ scenario = "report" /\ Report!Next
        \/ scenario = "nodes" /\ TwoNodes!Next
     /\ UNCHANGED <<scenario, vars, registryVars>>
  \/ /\ \/ scenario = "scope" /\ Scope!Next
        \/ scenario = "collections" /\ Collections!Next
     /\ UNCHANGED <<scenario, vars, openVars>>

openingVars == <<vars, openVars, registryVars>>
OpeningRests == MitigationRests /\ OpenRests /\ RegistryRests

\* The streams of explicit collections alone.
ChosenSpec ==
  /\ OpeningInit /\ scenario = "chosen"
  /\ [][OpeningNext]_<<scenario, openingVars>>

\* Copies, and collection names of a whole scope, are interchangeable.
Symmetry == Permutations(Copies) \cup Permutations({k1, k2})

-----------------------------------------------------------------------------

\* A rewind that the server asked for (follow_rollback) replays everything its new
\* history has and the start position had not, and StopAndReport reports only rollbacks
\* the server would ask for.
RewindLosesNothing ==
  /\ scenario = "rewind" => Rewind!RewindLosesNothing
  /\ scenario = "chosen" => Chosen!RewindLosesNothing
  /\ scenario = "report" => Report!RollbackIsReal

\* "The server requires the partition to roll back to an earlier history": what is
\* reported of a stream of explicit collections is a rollback the server would ask for.
ChosenRollbackIsReal == Chosen!RollbackIsReal

\* An opening over several nodes that fails leaves no worker behind; one that succeeds has
\* every vBucket open on the node it was routed to, as it was asked for and with the end
\* captured at first.
AllOrNothing == scenario = "nodes" => TwoNodes!AllOrNothing /\ TwoNodes!OpenedAsRequested

\* However the vBuckets' system events interleave, the registry is the manifest it says
\* it has observed, no system event of a server that keeps to its manifest is refused, and
\* no document but those of collections that another vBucket has reported dropped.
RegistryIsManifest ==
  /\ scenario = "scope" => /\ Scope!RegistryIsManifest
                           /\ Scope!SystemEventsAgree
                           /\ Scope!OnlyDroppedIsRefused
  /\ scenario = "collections" => /\ Collections!RegistryIsManifest
                                 /\ Collections!OnlyDroppedIsRefused

=============================================================================
