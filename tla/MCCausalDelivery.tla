-------------------------- MODULE MCCausalDelivery --------------------------
(***************************************************************************)
(* Model checking of CausalDelivery.  A behaviour starts with nothing      *)
(* captured, and the senders capture while the buffer delivers; or, after  *)
(* the restart, with a backlog in which one operation releases three       *)
(* others at once, under every assignment of skewed wall-clock readings,   *)
(* to exercise the rounds and the final sort.                              *)
(***************************************************************************)
EXTENDS CausalDelivery, TLC

CONSTANTS n1, n2

VC(a, b) == (n1 :> a) @@ (n2 :> b)

\* n1 had stored the first operation of n2 when it captured its own two; n2
\* captured a second one concurrently.  Only how the readings compare with
\* that of n2 matters; with t1 above and t2 below it, each of the three is
\* Less than the next, in a circle.  Since then both servers have stored
\* everything, so that nothing is left for the senders to do.
Backlog(t1, t2) ==
    {[node |-> n2, vc |-> VC(0, 1), ts |-> 1],
     [node |-> n1, vc |-> VC(1, 1), ts |-> t1],
     [node |-> n1, vc |-> VC(2, 1), ts |-> t2],
     [node |-> n2, vc |-> VC(0, 2), ts |-> 2]}

CascadeInit ==
    /\ clock = [n \in Node |-> VC(2, 2)]
    /\ \E t1, t2 \in Timestamp : sent = Backlog(t1, t2)
    /\ buffered_ops = {}
    /\ local_vc = EmptyClock
    /\ pc = "idle"
    /\ ready = {}
    /\ deliverable = << >>
    /\ delivered = << >>
    /\ sortBase = 0
    /\ returned = 0
    /\ seed = EmptyClock
    /\ restarts = MaxRestarts

\* The captures of the run itself carry one reading.
MCNext ==
    \/ \E n \in Node : Capture(n, 1)
    \/ \E n \in Node, op \in sent : LearnRemote(n, op)
    \/ \E op \in sent : Deliver(op)
    \/ BufferStep
    \/ \E vc \in Seeds : Restart(vc)

MCSpec == (Init \/ CascadeInit) /\ [][MCNext]_vars

=============================================================================
