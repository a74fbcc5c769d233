---------------------------- MODULE MCJobSystem ----------------------------
(***************************************************************************)
(* Model checking of JobSystem: the set-ups of the configuration.          *)
(***************************************************************************)
EXTENDS JobSystem

CONSTANTS j1, j2

\* One immediate job; it may be cancelled, and the server crash.
Immediate ==
    [jobs |-> {j1}, delayed |-> {}, keyed |-> FALSE, cap |-> 1, max_retries |-> 0,
     queueLimit |-> 2, maxParks |-> 0, maxFaults |-> 1, cancels |-> {j1},
     forces |-> {}, heartbeatOnly |-> FALSE, permits |-> 2]

\* A delayed job that is also parked.
Delayed == [Immediate EXCEPT !.delayed = {j1}, !.maxParks = 1]

\* A job that is retried, after a failure or a timeout.
Retried == [Immediate EXCEPT !.max_retries = 1, !.cancels = {}]

\* Two calls for the same key and a queue with room for one id.
Keyed ==
    [Retried EXCEPT !.jobs = {j1, j2}, !.keyed = TRUE, !.cap = 2, !.max_retries = 0,
                    !.queueLimit = 1, !.maxFaults = 0]

\* A job that an administrator fails.
Forced == [Immediate EXCEPT !.cancels = {}, !.forces = {j1}]

\* Two jobs and one permit.
Scarce == [Keyed EXCEPT !.keyed = FALSE, !.queueLimit = 2, !.permits = 1]

\* The same without runtime cap; an administrator may fail one of the jobs.
Uncapped == [Scarce EXCEPT !.forces = {j1}, !.heartbeatOnly = TRUE]

AllSetups == {Immediate, Delayed, Retried, Keyed, Forced, Scarce, Uncapped}

============================================================================
