--------------------------- MODULE MCReplication ---------------------------
(***************************************************************************)
(* Model checking of Replication: the clusters of the configurations.      *)
(* Two servers, which replicate from each other or the second from the     *)
(* first.                                                                  *)
(***************************************************************************)
EXTENDS Replication

CONSTANTS user, head, node

BothWays == 1 :> {2} @@ 2 :> {1}
OneWay == 1 :> {} @@ 2 :> {1}

\* Operations captured by the first and by the second server.
Writes(a, b) == 1 :> a @@ 2 :> b

\* Pull only, both servers write the same node.
Mutual ==
    [peers |-> BothWays, realtime_push |-> FALSE, stats |-> FALSE, synchronised |-> TRUE,
     registers |-> {node}, maxSeq |-> Writes(1, 1), slots |-> {1},
     faulty |-> {}, maxFaults |-> 0]

\* Pull only, skewed clocks, nodes and users.
Pulling ==
    [Mutual EXCEPT !.peers = OneWay, !.synchronised = FALSE,
                   !.registers = {node, user}, !.maxSeq = Writes(3, 0)]

\* The pull of a new connection beside that of the ticker.
TwoPulls ==
    [Pulling EXCEPT !.synchronised = TRUE, !.slots = {1, 2},
                    !.maxSeq = Writes(2, 0)]

\* A status query beside a pull and the captures.
Queried ==
    [TwoPulls EXCEPT !.stats = TRUE, !.registers = {node}, !.maxSeq = Writes(1, 0)]

\* Push and pull of one branch, with a restart, a failed read or a failed write.
Faulty ==
    [Mutual EXCEPT !.realtime_push = TRUE, !.registers = {head}, !.maxSeq = Writes(2, 0),
                   !.faulty = {"stop", "read", "write"}, !.maxFaults = 1]

\* Pull only, with a restart.
Restarting ==
    [Faulty EXCEPT !.peers = OneWay, !.realtime_push = FALSE,
                   !.registers = {head, user}, !.faulty = {"stop"}]

\* Push and pull of one branch; only messages are lost.
Pushing == [Faulty EXCEPT !.maxFaults = 0]

MutualOnly == {Mutual}
PullingAndFaulty == {Mutual, Pulling, TwoPulls, Queried, Faulty}
PushingOnly == {Pushing}
RestartingOnly == {Restarting}

=============================================================================
