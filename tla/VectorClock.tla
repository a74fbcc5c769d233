---------------------------- MODULE VectorClock ----------------------------
(***************************************************************************)
(* Vector clocks of raisin-replication (src/vector_clock.rs).              *)
(*                                                                         *)
(* The code keeps a HashMap from cluster node id to a u64 counter in which *)
(* a missing entry reads as 0 (`get`), and no operation of the type tells  *)
(* a missing entry from a zero one.  A clock is therefore a total function *)
(* from Node to Nat.  Counters count captured operations, one at a time    *)
(* from 0, so the u64 width is never reached.                              *)
(***************************************************************************)
EXTENDS Naturals

CONSTANT Node           \* the cluster node ids

Clock == [Node -> Nat]

EmptyClock == [n \in Node |-> 0]

increment(vc, n) == [vc EXCEPT ![n] = @ + 1]

\* `set` removes the entry when the counter is 0, which `get` reads as 0.
set(vc, n, counter) == [vc EXCEPT ![n] = counter]

merge(vc, other) ==
    [n \in Node |-> IF other[n] > vc[n] THEN other[n] ELSE vc[n]]

AnyLess(vc, other) == \E n \in Node : vc[n] < other[n]

\* The ordering the two flags of the loop over both key sets select.
compare(vc, other) ==
    LET any_less    == AnyLess(vc, other)
        any_greater == AnyLess(other, vc)
    IN  IF any_less
        THEN IF any_greater THEN "Concurrent" ELSE "Before"
        ELSE IF any_greater THEN "After" ELSE "Equal"

happens_before(vc, other) == compare(vc, other) = "Before"

happens_after(vc, other) == compare(vc, other) = "After"

\* The operation's counter at its own origin: its place in that node's log.
Counter(op) == op.vc[op.node]

=============================================================================
