--------------------------- MODULE ReplicatedLog ---------------------------
(***************************************************************************)
(* What the cluster's operation logs are for, without captures, snapshots, *)
(* pulls, pushes, buffers and batches ("Durable log of all mutations",     *)
(* raisin-replication, src/lib.rs): logs only grow, an author's number     *)
(* names one operation for ever, every other log holds copies of what its  *)
(* author has logged, and an operation takes effect where it was written   *)
(* or after it was logged.                                                 *)
(***************************************************************************)
EXTENDS VectorClock

VARIABLES
    log,            \* the operations each server has logged
    seen            \* the operations that have taken effect there

vars == <<log, seen>>

Logged == UNION {log[n] : n \in Node}

Init ==
    /\ log = [n \in Node |-> {}]
    /\ seen = [n \in Node |-> {}]

\* A write takes effect, under a number past all that is logged of its author.
Write(n) ==
    /\ \E op \in seen'[n] :
           /\ op.node = n
           /\ \A o \in Logged : o.node = n => Counter(o) < Counter(op)
           /\ seen' = [seen EXCEPT ![n] = @ \cup {op}]
    /\ UNCHANGED log

\* The author logs it, unless it never does: its number is still free.
Append(n) ==
    /\ \E op \in seen[n] :
           /\ op.node = n
           /\ \A o \in Logged : o.node = n /\ Counter(o) = Counter(op) => o = op
           /\ log' = [log EXCEPT ![n] = @ \cup {op}]
    /\ UNCHANGED seen

\* Another server logs copies of what the authors have logged.
Receive(n) ==
    /\ log' = [log EXCEPT ![n] = log'[n]]
    /\ log[n] \subseteq log'[n]
    /\ \A op \in log'[n] : op \in log[op.node]
    /\ UNCHANGED seen

\* A logged operation takes effect.
Apply(n) ==
    /\ \E op \in log[n] : seen' = [seen EXCEPT ![n] = @ \cup {op}]
    /\ UNCHANGED log

Next == \E n \in Node : Write(n) \/ Append(n) \/ Receive(n) \/ Apply(n)

Spec == Init /\ [][Next]_vars

=============================================================================
