--------------------------- MODULE CausalDelivery ---------------------------
(***************************************************************************)
(* The causal delivery buffer of raisin-replication                        *)
(* (src/causal_delivery): one buffer of one (tenant, repo) pair on one     *)
(* receiving server, fed by a network that delays, reorders, loses and     *)
(* repeats operations, and by senders whose clocks are skewed.             *)
(*                                                                         *)
(* `deliver` runs under the write lock of the buffer map, so one call is   *)
(* in progress at a time.  It is modelled by the steps the code takes:     *)
(* the dependency check, the rounds of check_buffered_ops, the insertion   *)
(* sort of what the rounds released, and the return.  A call can thus be   *)
(* cut short by a restart at any of these points.                          *)
(*                                                                         *)
(* What the caller does with the result, and what of it is in the log and  *)
(* in the clock snapshot when the server stops, is in module Replication.  *)
(* The snapshot may trail the log, server by server, and a push may have   *)
(* moved it past operations that never came; so the next buffer starts     *)
(* from any clock that counts captured operations, and the properties are  *)
(* those of one buffer relative to the clock it was created with.          *)
(***************************************************************************)
EXTENDS VectorClock, Sequences, FiniteSets

CONSTANTS
    Timestamp,      \* wall-clock readings an operation can carry
    MaxSeq,         \* bound: operations captured by each sender
    MaxRestarts     \* bound: restarts of the receiving server

ASSUME CausalDeliveryAssumption ==
    /\ Timestamp \subseteq Nat
    /\ MaxSeq \in Nat
    /\ MaxRestarts \in Nat

VARIABLES
    clock,          \* sender -> the repo clock its next operation starts from
    sent,           \* operations captured so far (any may arrive, repeatedly)
    buffered_ops,   \* held operations; the key of the map is the op id
    local_vc,       \* what the buffer has delivered
    pc,             \* where the current `deliver` call is
    ready,          \* ready_ops still to be delivered in the current round
    deliverable,    \* released by the rounds, not yet sorted in
    delivered,      \* what this buffer has handed out; the entries above
                    \*   `returned` are the Vec the current call still builds
    sortBase,       \* the sort of the current call only touches entries above
    returned,       \* entries of `delivered` the caller has received
    seed,           \* initial_vc, the clock this buffer was created with
    restarts

bufferVars == <<buffered_ops, local_vc, pc, ready, deliverable, delivered,
                sortBase, returned, seed>>
vars == <<clock, sent, bufferVars, restarts>>

Op == [node : Node, vc : Clock, ts : Timestamp]

TypeOK ==
    /\ clock \in [Node -> Clock]
    /\ sent \subseteq Op
    /\ buffered_ops \subseteq sent
    /\ local_vc \in Clock
    /\ pc \in {"idle", "scan", "round", "sort"}
    /\ ready \subseteq buffered_ops
    /\ deliverable \in Seq(sent)
    /\ delivered \in Seq(sent)
    /\ sortBase \in 0 .. Len(delivered)
    /\ returned \in 0 .. Len(delivered)
    /\ seed \in Clock
    /\ restarts \in 0 .. MaxRestarts

Init ==
    /\ clock = [n \in Node |-> EmptyClock]
    /\ sent = {}
    /\ buffered_ops = {}
    /\ local_vc = EmptyClock
    /\ pc = "idle"
    /\ ready = {}
    /\ deliverable = << >>
    /\ delivered = << >>
    /\ sortBase = 0
    /\ returned = 0
    /\ seed = EmptyClock
    /\ restarts = 0

-----------------------------------------------------------------------------
(* The senders. *)

\* advance_repo_clock and the operation it stamps; `ts` is the wall clock.
Capture(n, ts) ==
    /\ clock[n][n] < MaxSeq
    /\ clock' = [clock EXCEPT ![n] = increment(@, n)]
    /\ sent' = sent \cup {[node |-> n, vc |-> increment(clock[n], n), ts |-> ts]}
    /\ UNCHANGED <<bufferVars, restarts>>

\* A sender learns of an operation it has stored: restore_from_oplog starts
\* the repo clock from the persisted snapshot, which covers stored operations
\* of other senders and what these depend on.
LearnRemote(n, op) ==
    /\ AnyLess(clock[n], op.vc)
    /\ clock' = [clock EXCEPT ![n] = merge(@, op.vc)]
    /\ UNCHANGED <<sent, bufferVars, restarts>>

-----------------------------------------------------------------------------
(* The buffer. *)

\* Mutant: only the gap in the sender's own sequence is looked at.
OwnGapOnly(local, op) == local[op.node] = Counter(op) - 1

\* The own entry must be exactly the next one, every other entry covered.
dependencies_satisfied(local, op) ==
    \A n \in Node :
        IF op.vc[n] = 0 THEN TRUE       \* no entry in the operation's clock
        ELSE IF n = op.node THEN local[n] = op.vc[n] - 1
        ELSE local[n] >= op.vc[n]

\* deliver, first branch: hand the operation out and look at the buffer.
DeliverDirect(op) ==
    /\ pc = "idle"
    /\ dependencies_satisfied(local_vc, op)
    /\ local_vc' = merge(local_vc, op.vc)
    /\ delivered' = Append(delivered, op)
    /\ sortBase' = Len(delivered) + 1
    /\ pc' = "scan"
    /\ UNCHANGED <<clock, sent, buffered_ops, ready, deliverable, returned,
                   seed, restarts>>

\* deliver, second branch: buffer_operation inserts under the op id (a copy
\* replaces itself); a full buffer is logged and does not stop the insert.
DeliverBuffered(op) ==
    /\ pc = "idle"
    /\ ~dependencies_satisfied(local_vc, op)
    /\ buffered_ops' = buffered_ops \cup {op}
    /\ sortBase' = Len(delivered)
    /\ pc' = "scan"
    /\ UNCHANGED <<clock, sent, local_vc, ready, deliverable, delivered,
                   returned, seed, restarts>>

\* One pass over the buffer: the ids of the operations that are ready now.
\* No ready operation ends the loop.
ScanBuffer ==
    /\ pc = "scan"
    /\ ready' = {op \in buffered_ops : dependencies_satisfied(local_vc, op)}
    /\ pc' = IF ready' = {} THEN "sort" ELSE "round"
    /\ UNCHANGED <<clock, sent, buffered_ops, local_vc, deliverable, delivered,
                   sortBase, returned, seed, restarts>>

\* Mutant: one round only, what it makes ready stays in the buffer.
OneRound(op) ==
    /\ pc = "round"
    /\ ready' = ready \ {op}
    /\ buffered_ops' = buffered_ops \ {op}
    /\ local_vc' = merge(local_vc, op.vc)
    /\ deliverable' = Append(deliverable, op)
    /\ pc' = IF ready' = {} THEN "sort" ELSE "round"
    /\ UNCHANGED <<clock, sent, delivered, sortBase, returned, seed, restarts>>

\* Mutant: what a round releases is not counted.
ReadyUncounted(op) ==
    /\ pc = "round"
    /\ ready' = ready \ {op}
    /\ buffered_ops' = buffered_ops \ {op}
    /\ deliverable' = Append(deliverable, op)
    /\ pc' = IF ready' = {} THEN "scan" ELSE "round"
    /\ UNCHANGED <<clock, sent, local_vc, delivered, sortBase, returned, seed, restarts>>

\* One ready operation of the round, in the order of the hash map: any order.
DeliverReady(op) ==
    /\ pc = "round"
    /\ ready' = ready \ {op}
    /\ buffered_ops' = buffered_ops \ {op}
    /\ local_vc' = merge(local_vc, op.vc)
    /\ deliverable' = Append(deliverable, op)
    /\ pc' = IF ready' = {} THEN "scan" ELSE "round"
    /\ UNCHANGED <<clock, sent, delivered, sortBase, returned, seed, restarts>>

\* Mutant: the wall clock alone decides.
LessByTimestamp(a, b) == a.ts < b.ts

\* The comparator of the final sort: causality, then the wall clock.  It is
\* not a total order when sender clocks are skewed.
Less(a, b) ==
    IF happens_before(a.vc, b.vc) THEN TRUE
    ELSE IF happens_after(a.vc, b.vc) THEN FALSE
    ELSE a.ts < b.ts

\* slice::sort_by of up to 20 elements is an insertion sort: an element moves
\* left past each neighbour it is Less than and stops at the first other one.
InsertionPoint(s, base, op) ==
    CHOOSE i \in base + 1 .. Len(s) + 1 :
        /\ \A j \in i .. Len(s) : Less(op, s[j])
        /\ i > base + 1 => ~Less(op, s[i - 1])

InsertAt(s, i, op) ==
    [j \in 1 .. Len(s) + 1 |->
        IF j < i THEN s[j] ELSE IF j = i THEN op ELSE s[j - 1]]

SortStep ==
    /\ pc = "sort"
    /\ deliverable # << >>
    /\ LET op == Head(deliverable)
       IN  delivered' = InsertAt(delivered, InsertionPoint(delivered, sortBase, op), op)
    /\ deliverable' = Tail(deliverable)
    /\ UNCHANGED <<clock, sent, buffered_ops, local_vc, pc, ready, sortBase,
                   returned, seed, restarts>>

\* The call returns its Vec to deliver_through_causal_buffers.
Return ==
    /\ pc = "sort"
    /\ deliverable = << >>
    /\ returned' = Len(delivered)
    /\ pc' = "idle"
    /\ UNCHANGED <<clock, sent, buffered_ops, local_vc, ready, deliverable,
                   delivered, sortBase, seed, restarts>>

-----------------------------------------------------------------------------
(* The restart that creates a new buffer. *)

\* The seeds a restart may find: each entry is the number of a captured
\* operation, or 0, and no entry says anything about another.
Seeds == {vc \in [Node -> 0 .. MaxSeq] : \A n \in Node : vc[n] <= clock[n][n]}

\* Mutant: the new buffer ignores initial_vc.
RestartUnseeded(vc) ==
    /\ restarts < MaxRestarts
    /\ restarts' = restarts + 1
    /\ buffered_ops' = {} /\ ready' = {} /\ deliverable' = << >> /\ delivered' = << >>
    /\ local_vc' = EmptyClock
    /\ pc' = "idle"
    /\ sortBase' = 0
    /\ returned' = 0
    /\ seed' = vc
    /\ UNCHANGED <<clock, sent>>

\* The process dies: held operations and the call in progress are gone, and
\* the next buffer is created with the persisted snapshot.
Restart(vc) ==
    /\ restarts < MaxRestarts
    /\ restarts' = restarts + 1
    /\ seed' = vc
    /\ buffered_ops' = {}
    /\ local_vc' = vc
    /\ pc' = "idle"
    /\ ready' = {}
    /\ deliverable' = << >>
    /\ delivered' = << >>
    /\ sortBase' = 0
    /\ returned' = 0
    /\ UNCHANGED <<clock, sent>>

-----------------------------------------------------------------------------

SenderStep ==
    \/ \E n \in Node, ts \in Timestamp : Capture(n, ts)
    \/ \E n \in Node, op \in sent : LearnRemote(n, op)

BufferStep ==
    \/ ScanBuffer
    \/ \E op \in ready : DeliverReady(op)
    \/ SortStep
    \/ Return

Deliver(op) == DeliverDirect(op) \/ DeliverBuffered(op)

Next ==
    \/ SenderStep
    \/ \E op \in sent : Deliver(op)
    \/ BufferStep
    \/ \E vc \in Seeds : Restart(vc)

Spec == Init /\ [][Next]_vars

-----------------------------------------------------------------------------
(* Properties. *)

\* The operation was counted by the seed or handed out since.
Accounted(op) ==
    \/ Counter(op) <= seed[op.node]
    \/ \E i \in 1 .. Len(delivered) : delivered[i] = op

\* No operation is handed out after one it causally precedes, although ready
\* operations leave the hash map in any order and the final sort compares
\* concurrent operations by skewed wall clocks
\* ("Returns operations in causal order", check_buffered_ops).
CausalOrder ==
    \A i, j \in 1 .. Len(delivered) :
        i < j => ~happens_before(delivered[j].vc, delivered[i].vc)

\* One buffer hands every operation out at most once, and none that its seed
\* counts, however often the network repeats it ("so redelivered history is
\* recognized after a restart", deliver_through_causal_buffers).  What the seed
\* does not count is handed out again after a restart, stored or not.
AtMostOnce ==
    \A i \in 1 .. Len(delivered) :
        /\ Counter(delivered[i]) > seed[delivered[i].node]
        /\ \A j \in 1 .. Len(delivered) : i # j => delivered[i] # delivered[j]

\* An operation is handed out only after every operation its clock counts, but
\* for those the seed counts, right or wrong.
DependenciesFirst ==
    \A i \in 1 .. Len(delivered) : \A dep \in sent :
        /\ dep # delivered[i]
        /\ Counter(dep) <= delivered[i].vc[dep.node]
        => \/ Counter(dep) <= seed[dep.node]
           \/ \E j \in 1 .. i - 1 : delivered[j] = dep

\* Between two calls nothing deliverable is left in the buffer: the rounds
\* of check_buffered_ops stop only when no held operation is ready.
NothingReadyIsHeld ==
    pc = "idle" =>
        \A op \in buffered_ops : ~dependencies_satisfied(local_vc, op)

\* Between two calls the buffer's clock counts exactly what the seed counted
\* and what has been handed out since, whatever gaps the seed had.
ClockCountsDelivered ==
    pc = "idle" =>
        \A op \in sent : Counter(op) <= local_vc[op.node] <=> Accounted(op)

\* An operation that is still to be handed out is held only while one it
\* depends on has not arrived: a chain of held operations never waits for
\* itself, whichever order its members came in and whatever the seed left out.
HeldForMissing ==
    pc = "idle" =>
        \A op \in buffered_ops :
            Accounted(op)
              \/ \E dep \in sent \ buffered_ops :
                     Counter(dep) <= op.vc[dep.node] /\ ~Accounted(dep)

\* The buffer, with its calls, rounds, sort and restarts, keeps the promise of
\* CausalBroadcast: the Vecs its calls return form one log that only grows and
\* is causally closed above the clock the buffer was created with.
Broadcast == INSTANCE CausalBroadcast WITH
    log <- SubSeq(delivered, 1, returned),
    base <- seed

ImplementsBroadcast == Broadcast!Spec

=============================================================================
