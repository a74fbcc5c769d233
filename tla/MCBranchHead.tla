---------------------------- MODULE MCBranchHead ----------------------------
(***************************************************************************)
(* Model checking of BranchHead.                                           *)
(***************************************************************************)
EXTENDS BranchHead, TLC

CONSTANTS w1, w2, w3

Symmetry == Permutations(Writer)

\* A peer knows revision 1, its own or one it has from here, and may have
\* protected the branch or have the settings of this server.
PeerRecords ==
    {[head |-> 1, settings |-> s] :
        s \in {[version |-> 0, protected |-> TRUE], [version |-> 1, protected |-> FALSE]}}
    \cup {[head |-> 2, settings |-> Plain]}

=============================================================================
