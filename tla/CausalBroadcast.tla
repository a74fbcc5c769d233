-------------------------- MODULE CausalBroadcast --------------------------
(***************************************************************************)
(* What the causal delivery buffer promises its caller, without buffers,   *)
(* rounds, sorting or calls ("an operation's dependencies are always       *)
(* satisfied before it's delivered", raisin-replication,                   *)
(* src/causal_delivery/mod.rs): the receiver has a log that only grows at  *)
(* its end, repeats nothing and is causally closed above the clock it      *)
(* started from.  A crash takes the log away, and the receiver starts      *)
(* again from another clock: what that one counts is not handed out,       *)
(* what it does not count is, even if it had been before.                  *)
(***************************************************************************)
EXTENDS VectorClock, Sequences

VARIABLES
    sent,           \* operations some server has captured
    log,            \* operations handed to the receiver since it started
    base            \* the clock it started from

vars == <<sent, log, base>>

\* Nothing repeats or was counted at the start, and every operation follows
\* all that its clock counts and the start did not.
CausallyClosed(s) ==
    \A i \in 1 .. Len(s) :
        /\ Counter(s[i]) > base[s[i].node]
        /\ \A j \in 1 .. i - 1 : s[j] # s[i]
        /\ \A dep \in sent :
               /\ dep # s[i]
               /\ base[dep.node] < Counter(dep)
               /\ Counter(dep) <= s[i].vc[dep.node]
               => \E j \in 1 .. i - 1 : s[j] = dep

\* Operations may have been captured before the receiver exists.
Init == log = << >> /\ base \in Clock

\* A new operation, which no operation so far depends on.
Broadcast ==
    /\ \E op \in sent' :
           /\ sent' = sent \cup {op}
           /\ \A o \in sent : o.vc[op.node] < Counter(op)
    /\ UNCHANGED <<log, base>>

\* One call hands out any number of operations.
HandOut ==
    /\ log' \in Seq(sent)
    /\ Len(log) <= Len(log')
    /\ \A i \in 1 .. Len(log) : log'[i] = log[i]
    /\ CausallyClosed(log')
    /\ UNCHANGED <<sent, base>>

Crash ==
    /\ log' = << >>
    /\ base' \in Clock
    /\ UNCHANGED sent

Next == Broadcast \/ HandOut \/ Crash

Spec == Init /\ [][Next]_vars

=============================================================================
