------------------------- MODULE CollectionRegistry -------------------------
(***************************************************************************)
(* The names of collections (collections.rs): resolved from one manifest   *)
(* when a generation is opened, then kept up to date by the system events  *)
(* of all its vBucket streams, each of which has every change of the       *)
(* manifest once, in order, and at its own time.                           *)
(*                                                                         *)
(* A change of the manifest has a uid, a kind and a collection.  The       *)
(* vBuckets learn of it one after the other; a document is written to a    *)
(* collection that its vBucket knows.                                      *)
(***************************************************************************)
EXTENDS Integers, Sequences, FiniteSetsExt

CONSTANTS
  VBuckets, Names,
  None,
  Configured,   \* the configured collection names, {} for the whole scope
  Skew,         \* whether the node asked for the manifest may be behind others
  MaxChanges, MaxDocuments, MaxOpens

VARIABLES
  \* the server: the changes of the manifest, and the history of every vBucket
  changes, known, log,
  \* the streams: their positions, and the collections they leave out
  position, hidden,
  \* the registry
  collection_ids, collection_names, observed_manifest_uid, stale,
  \* the subscription, and the last document it delivered
  state, document, opens

server == <<changes, known, log>>
streams == <<position, hidden>>
registry == <<collection_ids, collection_names, observed_manifest_uid, stale>>
vars == <<server, streams, registry, state, document, opens>>

----------------------------------------------------------------------------
(* The server.                                                             *)

Of(kind, n) == {i \in 1..n : changes[i].kind = kind}

\* The collections of the scope after the first n changes; an id is never reused.
AliveAfter(n) ==
  IF Of("ScopeDropped", n) # {} THEN {}
  ELSE {changes[i].id : i \in Of("CollectionCreated", n)} \
       {changes[i].id : i \in Of("CollectionDropped", n)}

NameOf(id) == changes[CHOOSE i \in Of("CollectionCreated", Len(changes)) : changes[i].id = id].name

NamesAfter(n) == [id \in AliveAfter(n) |-> NameOf(id)]

\* Every change makes a manifest of its own, numbered in order.
Change(kind, id, name) ==
  [uid |-> Len(changes) + 1, kind |-> kind, id |-> id, name |-> name]

\* A collection is created or dropped, the scope is dropped, a property changes, or
\* something happens that the client does not know.
ManifestChanges ==
  LET n == Len(changes)
      free == Names \ {NameOf(id) : id \in AliveAfter(n)}
  IN
  /\ n < MaxChanges
  /\ Of("ScopeDropped", n) = {}
  /\ \E new \in
       {Change("CollectionCreated", n + 1, name) : name \in free}
       \cup {Change("CollectionDropped", id, None) : id \in AliveAfter(n)}
       \cup {Change(kind, None, None) :
               kind \in {"ScopeDropped", "CollectionChanged", "Unknown"}} :
       changes' = Append(changes, new)
  /\ UNCHANGED <<known, log, streams, registry, state, document, opens>>

\* A vBucket learns of the next change: a system event of its history.
VBucketLearns(vb) ==
  /\ known[vb] < Len(changes)
  /\ known' = [known EXCEPT ![vb] = @ + 1]
  /\ log' = [log EXCEPT ![vb] = Append(@, [system |-> known[vb] + 1, id |-> None])]
  /\ UNCHANGED <<changes, streams, registry, state, document, opens>>

WriteDocument(vb) ==
  /\ \E id \in AliveAfter(known[vb]) :
       log' = [log EXCEPT ![vb] = Append(@, [system |-> None, id |-> id])]
  /\ Cardinality({i \in DOMAIN log[vb] : log[vb][i].system = None}) < MaxDocuments
  /\ UNCHANGED <<changes, known, streams, registry, state, document, opens>>

\* The filter of a stream: the whole scope, or the selected collections and what
\* becomes of them.
Sent(vb, item) ==
  IF item.system = None
  THEN item.id \notin hidden[vb] /\ (collection_ids = {} \/ item.id \in collection_ids)
  ELSE LET c == changes[item.system] IN
       \/ collection_ids = {}
       \/ c.kind \in {"ScopeDropped", "Unknown"}
       \/ c.id \in collection_ids

----------------------------------------------------------------------------
(* Opening: resolve_collection_selection and CollectionRegistry::new, and  *)
(* replace_registry on every further generation.                           *)

\* CollectionManifest::resolve, on the manifest after n changes.
Resolvable(n) == Configured \subseteq {NameOf(id) : id \in AliveAfter(n)}
ResolvedIds(n) == {id \in AliveAfter(n) : NameOf(id) \in Configured}

ResolvedNames(n) ==
  IF Configured = {} THEN NamesAfter(n) ELSE [id \in ResolvedIds(n) |-> NameOf(id)]

\* The manifest that the first node has; it is not behind the node's own vBuckets.
Manifests ==
  IF Skew THEN known[Min(VBuckets)]..Len(changes) ELSE {Len(changes)}

\* The streams start anywhere at first, and later at or before their position.
Open ==
  /\ state \in {"idle", "open"}
  /\ opens < MaxOpens
  /\ opens' = opens + 1
  /\ \E n \in Manifests :
       /\ Resolvable(n)
       /\ Of("ScopeDropped", n) = {}
       /\ collection_ids' = ResolvedIds(n)
       /\ collection_names' = ResolvedNames(n)
       /\ observed_manifest_uid' = n
  /\ stale' = FALSE
  /\ \E p \in [VBuckets -> 0..(MaxChanges + MaxDocuments)] :
       /\ \A vb \in VBuckets : p[vb] <= IF state = "idle" THEN Len(log[vb]) ELSE position[vb]
       /\ position' = p
  /\ hidden' = [vb \in VBuckets |-> {changes[i].id : i \in Of("CollectionDropped", known[vb])}]
  /\ state' = "open"
  /\ document' = None
  /\ UNCHANGED server

----------------------------------------------------------------------------
(* CollectionRegistry::decorate.                                           *)

Fatal(kind) ==
  /\ state' = kind
  /\ UNCHANGED registry

Observed(uid) ==
  /\ observed_manifest_uid' = uid
  /\ UNCHANGED <<collection_ids, state>>

\* Mutant of Understood: the events of every vBucket are applied.
Understood_never(event) == FALSE

\* Another vBucket had the event, or the resolved manifest has it.
Understood(event) == event.uid <= observed_manifest_uid

Forget(id) == [i \in DOMAIN collection_names \ {id} |-> collection_names[i]]

\* RegistryState::apply_system_event.
ApplySystemEvent(event) ==
  LET names == collection_names
      selected == collection_ids = {} \/ event.id \in collection_ids
      taken == \E id \in DOMAIN names : id # event.id /\ names[id] = event.name
      renamed == event.id \in DOMAIN names /\ names[event.id] # event.name
  IN
  CASE Understood(event) ->
         UNCHANGED <<registry, state>>
    [] event.kind = "CollectionCreated" /\ collection_ids = {} ->
         IF taken \/ renamed THEN Fatal("system")
         ELSE /\ collection_names' = [id \in DOMAIN names \cup {event.id} |->
                                        IF id = event.id THEN event.name ELSE names[id]]
              /\ UNCHANGED stale
              /\ Observed(event.uid)
    [] event.kind = "CollectionDropped" ->
         IF event.id \notin DOMAIN names /\ selected THEN Fatal("system")
         ELSE /\ collection_names' = Forget(event.id)
              /\ UNCHANGED stale
              /\ Observed(event.uid)
    [] event.kind = "ScopeDropped" ->
         /\ collection_names' = [id \in {} |-> None]
         /\ UNCHANGED stale
         /\ Observed(event.uid)
    [] event.kind = "Unknown" ->
         /\ stale' = TRUE
         /\ UNCHANGED collection_names
         /\ Observed(event.uid)
    [] OTHER ->
         /\ UNCHANGED <<collection_names, stale>>
         /\ Observed(event.uid)

\* required_collection_name.
DecorateDocument(id) ==
  IF id \notin DOMAIN collection_names THEN Fatal("document") /\ document' = None
  ELSE /\ document' = [id |-> id, name |-> collection_names[id]]
       /\ UNCHANGED <<registry, state>>

\* The next item of a stream; what the server's filter leaves out does not come.
Decorate(vb) ==
  LET item == log[vb][position[vb] + 1] IN
  /\ state = "open"
  /\ position[vb] < Len(log[vb])
  /\ position' = [position EXCEPT ![vb] = @ + 1]
  /\ IF ~Sent(vb, item) THEN UNCHANGED <<registry, state, document>>
     ELSE IF item.system = None THEN DecorateDocument(item.id)
     ELSE ApplySystemEvent(changes[item.system]) /\ document' = None
  /\ UNCHANGED <<server, hidden, opens>>

----------------------------------------------------------------------------

Init ==
  /\ changes = <<>>
  /\ known = [vb \in VBuckets |-> 0]
  /\ log = [vb \in VBuckets |-> <<>>]
  /\ position = [vb \in VBuckets |-> 0]
  /\ hidden = [vb \in VBuckets |-> {}]
  /\ collection_ids = {} /\ collection_names = [id \in {} |-> None]
  /\ observed_manifest_uid = 0 /\ stale = FALSE
  /\ state = "idle" /\ document = None /\ opens = 0

Next ==
  \/ ManifestChanges
  \/ \E vb \in VBuckets : VBucketLearns(vb) \/ WriteDocument(vb) \/ Decorate(vb)
  \/ Open

Spec == Init /\ [][Next]_vars

----------------------------------------------------------------------------

\* However the streams interleave, the registry is the manifest of the uid it has
\* observed, unless it says that it is stale: no change is skipped or made twice.
RegistryIsManifest ==
  state = "open" /\ ~stale =>
    LET now == NamesAfter(observed_manifest_uid)
        selected == IF collection_ids = {} THEN DOMAIN now ELSE DOMAIN now \cap collection_ids
    IN collection_names = [id \in selected |-> now[id]]

\* Events of a server that keeps to its manifest never contradict the registry.
SystemEventsAgree == state # "system"

\* A document that ends the subscription is of a collection that was dropped in the
\* manifest observed so far, which another vBucket's stream has told (required_collection_name).
OnlyDroppedIsRefused ==
  state = "document" =>
    \E vb \in VBuckets :
      /\ position[vb] > 0
      /\ log[vb][position[vb]].system = None
      /\ \/ Of("ScopeDropped", observed_manifest_uid) # {}
         \/ \E i \in Of("CollectionDropped", observed_manifest_uid) :
              changes[i].id = log[vb][position[vb]].id

=============================================================================
