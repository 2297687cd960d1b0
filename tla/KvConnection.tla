---------------------------- MODULE KvConnection ----------------------------
(***************************************************************************)
(* One framed connection to a KV node (transport.rs): requests that wait   *)
(* for the response with their opaque, pipelined batches, and the frames   *)
(* that arrive in between, which receive_frame returns later.              *)
(*                                                                         *)
(* A request is a number.  What a server sends is a response to a request  *)
(* or a frame of its own (a DCP message, a cluster map), numbered as sent; *)
(* its own frames may carry any opaque.                                    *)
(***************************************************************************)
EXTENDS Integers, Sequences, FiniteSets, SequencesExt

CONSTANTS
  MaxOpaque,            \* u32::MAX
  Explicit,             \* the opaques a caller may set itself
  MaxRequests,          \* requests in a behaviour
  MaxBatch,             \* requests in a batch
  MaxFrames,            \* frames of the server's own
  MayTimeOut            \* whether the request timeout may expire

VARIABLES
  next_opaque, pending, \* of KvConnection
  exchange,             \* the call in progress: the requests it still waits for, by
                        \* opaque, and its responses so far; or the outcome of the last one
  unanswered,           \* requests that are at the server, with their opaques
  wire,                 \* frames on their way to the client
  sent,                 \* frames the server has sent of its own
  requested,            \* requests so far
  received              \* what receive_frame has returned of the server's own frames

vars == <<next_opaque, pending, exchange, unanswered, wire, sent, requested, received>>

Frame(kind, opaque, number) == [kind |-> kind, opaque |-> opaque, number |-> number]

----------------------------------------------------------------------------
\* wrapping_add(1).max(1).
AfterOpaque(opaque) == IF opaque = MaxOpaque THEN 1 ELSE opaque + 1

\* The first value from this one on that the batch does not use.
Allocated(opaque, taken) ==
  CHOOSE o \in (1..MaxOpaque) \ taken :
    \A p \in (1..MaxOpaque) \ taken : (o - opaque) % MaxOpaque <= (p - opaque) % MaxOpaque

\* The opaques of a batch whose callers gave these, and the counter after it: those that
\* are 0 are allocated in order.
AllocateAll(given) ==
  FoldLeft(LAMBDA acc, opaque :
             IF opaque # 0 THEN [acc EXCEPT !.opaques = Append(@, opaque)]
             ELSE LET o == Allocated(acc.next, acc.taken) IN
                  [next |-> AfterOpaque(o), taken |-> acc.taken \cup {o},
                   opaques |-> Append(acc.opaques, o)],
           [next |-> next_opaque, taken |-> ToSet(given) \ {0}, opaques |-> <<>>], given)

Duplicates(given) ==
  \E i, j \in DOMAIN given : i # j /\ given[i] # 0 /\ given[i] = given[j]

Waiting == exchange.status = "waiting"

Send(opaques) ==
  LET numbers == [i \in DOMAIN opaques |-> requested + i] IN
  /\ exchange' = [status |-> "waiting", opaques |-> opaques, numbers |-> numbers,
                  responses |-> [i \in DOMAIN opaques |-> 0]]
  /\ unanswered' = unanswered \cup {Frame("response", opaques[i], numbers[i]) : i \in DOMAIN opaques}
  /\ requested' = requested + Len(opaques)

\* request: an opaque of 0 is replaced.
Request(given) ==
  /\ ~Waiting /\ requested < MaxRequests
  /\ IF given = 0
     THEN Send(<<next_opaque>>) /\ next_opaque' = AfterOpaque(next_opaque)
     ELSE Send(<<given>>) /\ UNCHANGED next_opaque
  /\ UNCHANGED <<pending, wire, sent, received>>

RequestBatch(given) ==
  /\ ~Waiting /\ requested + Len(given) <= MaxRequests
  /\ IF Duplicates(given)
     THEN /\ exchange' = [exchange EXCEPT !.status = "refused"]
          /\ UNCHANGED <<next_opaque, unanswered, requested>>
     ELSE LET all == AllocateAll(given) IN Send(all.opaques) /\ next_opaque' = all.next
  /\ UNCHANGED <<pending, wire, sent, received>>

\* Frames that are not waited for are retained.
Keep(frame) == Append(pending, frame)

\* Mutant of Awaited: responses are taken in the order of the requests.
Awaited_any(frame) == {i \in DOMAIN exchange.opaques : exchange.responses[i] = 0}

Awaited(frame) ==
  {i \in DOMAIN exchange.opaques :
     exchange.responses[i] = 0 /\ exchange.opaques[i] = frame.opaque}

\* read_raw, in the loop of a request or a batch.
ReadResponse ==
  LET frame == Head(wire) IN
  /\ Waiting /\ wire # <<>>
  /\ wire' = Tail(wire)
  /\ IF frame.kind = "response" /\ Awaited(frame) # {}
     THEN /\ \E i \in Awaited(frame) :
               LET responses == [exchange.responses EXCEPT ![i] = frame.number] IN
               exchange' = [exchange EXCEPT !.responses = responses,
                              !.status = IF 0 \in ToSet(responses) THEN "waiting" ELSE "done"]
          /\ UNCHANGED pending
     ELSE pending' = Keep(frame) /\ UNCHANGED exchange
  /\ UNCHANGED <<next_opaque, unanswered, sent, requested, received>>

\* The exchange is given up; what it has read stays in pending.
TimesOut ==
  /\ MayTimeOut /\ Waiting
  /\ exchange' = [exchange EXCEPT !.status = "timeout"]
  /\ UNCHANGED <<next_opaque, pending, unanswered, wire, sent, requested, received>>

Returned(frame) == IF frame.kind = "own" THEN Append(received, frame.number) ELSE received

ReceiveFrame ==
  /\ ~Waiting
  /\ IF pending # <<>>
     THEN received' = Returned(Head(pending)) /\ pending' = Tail(pending) /\ UNCHANGED wire
     ELSE /\ wire # <<>>
          /\ received' = Returned(Head(wire)) /\ wire' = Tail(wire) /\ UNCHANGED pending
  /\ UNCHANGED <<next_opaque, exchange, unanswered, sent, requested>>

----------------------------------------------------------------------------
(* The server (external): it may answer in any order.                      *)

Answer ==
  /\ \E frame \in unanswered :
       wire' = Append(wire, frame) /\ unanswered' = unanswered \ {frame}
  /\ UNCHANGED <<next_opaque, pending, exchange, sent, requested, received>>

SendOwn ==
  /\ sent < MaxFrames
  /\ sent' = sent + 1
  /\ \E opaque \in 0..MaxOpaque : wire' = Append(wire, Frame("own", opaque, sent + 1))
  /\ UNCHANGED <<next_opaque, pending, exchange, unanswered, requested, received>>

----------------------------------------------------------------------------
Init ==
  /\ next_opaque \in 1..MaxOpaque
  /\ pending = <<>> /\ wire = <<>> /\ received = <<>>
  /\ exchange = [status |-> "none", opaques |-> <<>>, numbers |-> <<>>, responses |-> <<>>]
  /\ unanswered = {} /\ sent = 0 /\ requested = 0

Next ==
  \/ \E given \in {0} \cup Explicit : Request(given)
  \/ \E n \in 1..MaxBatch : \E given \in [1..n -> {0} \cup Explicit] : RequestBatch(given)
  \/ ReadResponse \/ TimesOut \/ ReceiveFrame \/ Answer \/ SendOwn

Spec == Init /\ [][Next]_vars

----------------------------------------------------------------------------
(* Properties.                                                             *)

\* A call returns, for each of its requests and in their order, the response to that very
\* request: not the late response to one that timed out, and not a frame of the server's
\* own that happens to have the opaque (request, request_batch).
AnswersMatch ==
  /\ \A i \in DOMAIN exchange.responses : exchange.responses[i] \in {0, exchange.numbers[i]}
  /\ exchange.status = "done" => exchange.responses = exchange.numbers

\* The server's own frames are returned in the order they were sent, and none is lost or
\* returned twice, whatever requests, batches and timeouts come in between (receive_frame).
OwnFramesInOrder ==
  LET own(frames) == SelectSeq(frames, LAMBDA f : f.kind = "own")
      numbers(frames) == [i \in DOMAIN own(frames) |-> own(frames)[i].number] IN
  received \o numbers(pending) \o numbers(wire) = [i \in 1..sent |-> i]

=============================================================================
