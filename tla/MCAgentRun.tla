----------------------------- MODULE MCAgentRun -----------------------------
(***************************************************************************)
(* Model checking of AgentRun: the bounds of the behaviours.               *)
(***************************************************************************)
EXTENDS AgentRun

ModelTurn == [replay_safe |-> TRUE, interruptible |-> TRUE]
Mutation == [replay_safe |-> FALSE, interruptible |-> FALSE]
ToolCall == [replay_safe |-> FALSE, interruptible |-> TRUE]

\* Two operations, a stop and two faults.
Stopped ==
    [kinds |-> {ModelTurn, Mutation}, ops |-> 2, requests |-> 0, steers |-> 0,
     pauses |-> 0, stops |-> TRUE, faults |-> 2]

\* Steers beside a request or a waiting tool, with a queue of one.
Steered ==
    [kinds |-> {ModelTurn}, ops |-> 1, requests |-> 1, steers |-> 2,
     pauses |-> 0, stops |-> FALSE, faults |-> 1]

\* Pauses of users, budgets and unavailable reducers.
Held ==
    [kinds |-> {ToolCall}, ops |-> 1, requests |-> 1, steers |-> 0,
     pauses |-> 1, stops |-> TRUE, faults |-> 1]

All == {Stopped, Steered, Held}
=============================================================================
