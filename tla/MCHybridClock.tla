--------------------------- MODULE MCHybridClock ---------------------------
(***************************************************************************)
(* Model checking of HybridClock.                                          *)
(***************************************************************************)
EXTENDS HybridClock, TLC

CONSTANTS t1, t2

Symmetry == Permutations(Thread)

\* The state as `new` creates it at wall clock 0.
Fresh == {[ts |-> 0, cnt |-> 0]}

\* Or as with_initial creates it on a server that is ahead of its wall clock.
FreshOrAhead == Fresh \cup {[ts |-> 5, cnt |-> 3]}

TickOnly == {}

\* Remote HLCs behind and ahead of the wall clock.
RemoteHLCs == {[ts |-> 0, cnt |-> 3], [ts |-> 2, cnt |-> 1]}

=============================================================================
