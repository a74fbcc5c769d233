------------------------------ MODULE AgentRun ------------------------------
(***************************************************************************)
(* One durable agent run bound to a domain reducer                         *)
(* (crates/raisin-agent-runtime), the drivers that take turns executing it,*)
(* the sweeper that takes over from a driver whose lease expired, and the  *)
(* users who stop, pause, resume, steer and answer it meanwhile.           *)
(*                                                                         *)
(* The stored record is the only thing the actors share.  A commit checks, *)
(* inside the store's critical section, the lease its author claims (the   *)
(* fence) and the version its author read: service.rs:apply reads and      *)
(* commits as one step and retries a conflict, a domain step commits what  *)
(* it computed from a record read before the reducer was called.           *)
(*                                                                         *)
(* The log is also the inbox of the reducer: `log' counts the events the   *)
(* reducer is to see (domain.rs:map_event), `delivered' those it has seen. *)
(* Versions are not counted: two records of one run differ whenever their  *)
(* versions do, in the log, the epoch or the queued steers.                *)
(***************************************************************************)
EXTENDS Naturals, Sequences, FiniteSets

CONSTANTS
    Driver,           \* nodes, each with room for one drive of the run
    None,
    SteerQueueLimit,  \* STEER_QUEUE_LIMIT
    Setups            \* the bounds of one behaviour: see Setup

\* What an operation promises: whether it may be run again after a takeover,
\* and whether a stop may interrupt it.
Kind == [replay_safe : BOOLEAN, interruptible : BOOLEAN]

\* Bounds: the kinds of operations, how many of them, how many requests,
\* accepted steers and pauses, whether users stop the run, and how many times
\* a driver dies, outlives its lease or a wake is lost.
Setup ==
    [kinds : SUBSET Kind, ops : Nat, requests : Nat, steers : Nat, pauses : Nat,
     stops : BOOLEAN, faults : Nat]

ASSUME SetupsAssumption == Setups \subseteq Setup
ASSUME NoneAssumption == None \notin Driver /\ None \notin Kind
ASSUME LimitAssumption == SteerQueueLimit \in Nat \ {0}

VARIABLES
    setup,      \* the bounds of this behaviour; never changes
    run,        \* the stored record
    lapsed,     \* the lease of the record is past its expiry
    wake,       \* a step job of the run is queued
    drv,        \* per node, the drive in progress
    cancels,    \* <<node, operation>> marked cancelled in a registry
    cancelAt,   \* node that committed the stop and has yet to mark it
    faults,     \* faults so far
    ran,        \* history: how often each operation was started
    steered     \* history: steers accepted, and consumed or discarded

vars == <<setup, run, lapsed, wake, drv, cancels, cancelAt, faults, ran, steered>>

Leased == {"Idle", "Operating", "Cancelling"}
Status == Leased \union {"Queued", "Waiting", "Paused", "Terminal"}

Run ==
    [status : Status, epoch : Nat, owner : Driver \union {None}, ops : Seq(Kind),
     pausing : BOOLEAN, steers : 0 .. SteerQueueLimit, open : Nat, requests : Nat,
     checkpoints : Nat, outbox : Kind \union {None}, log : Nat, delivered : Nat,
     finalized : BOOLEAN,
     quit : Nat]  \* history: the log when the reducer last left nothing to do

Pc == {"none", "loop", "boundary", "step", "reduce", "stalled", "register", "start",
       "run", "finish", "finalize", "finalizing"}
Drive ==
    [pc : Pc, fence : Nat, op : Nat, seen : Run \union {None},
     outcome : {None, "done", "waiting", "cancelled"}]
Away == [pc |-> "none", fence |-> 0, op |-> 0, seen |-> None, outcome |-> None]

Init ==
    /\ setup \in Setups
    /\ run = [status |-> "Queued", epoch |-> 0, owner |-> None, ops |-> <<>>,
              pausing |-> FALSE, steers |-> 0, open |-> 0, requests |-> 0,
              checkpoints |-> 0, outbox |-> None, log |-> 1, delivered |-> 0,
              finalized |-> FALSE, quit |-> 0]
    /\ wake = TRUE
    /\ lapsed = FALSE
    /\ drv = [d \in Driver |-> Away]
    /\ cancels = {}
    /\ cancelAt = None
    /\ faults = 0
    /\ ran = [o \in 1 .. setup.ops |-> 0]
    /\ steered = [accepted |-> 0, settled |-> 0]

-----------------------------------------------------------------------------
(* Transitions of the record.                                              *)

InFlight(r) == Len(r.ops)

\* Tx::set_state to a state without a lease: leaving a lease ends its epoch.
Leave(r, status) ==
    [r EXCEPT !.status = status, !.owner = None, !.pausing = FALSE,
              !.epoch = IF r.status \in Leased THEN @ + 1 ELSE @]

Pausing(r) == [Leave(r, "Paused") EXCEPT !.checkpoints = @ + 1]

\* Tx::terminate: requests are closed, steers discarded; the reducer is to
\* see each closed request and that the run was stopped.
Terminate(r, stopped) ==
    [Leave(r, "Terminal") EXCEPT
        !.steers = 0, !.open = 0, !.outbox = None,
        !.log = @ + r.open + (IF stopped THEN 1 ELSE 0)]

\* Tx::remove_request, after the event that resolved the request or closed it
\* because it expired, which the reducer is to see.
RemoveRequest(r) ==
    LET rest == [r EXCEPT !.open = @ - 1, !.log = @ + 1]
    IN IF r.status = "Waiting" /\ rest.open = 0 THEN Leave(rest, "Queued") ELSE rest

\* begin_in, for an operation of kind k.
Begin(r, k) ==
    [r EXCEPT !.status = "Operating", !.pausing = FALSE, !.outbox = None,
              !.ops = Append(@, k)]

\* begin_in refused by a budget, under the policy Pause: the operation is kept
\* in the outbox.
OverBudget(r, k) == Pausing([r EXCEPT !.outbox = k, !.log = @ + 1])

Operate(r, k) ==
    {Begin(r, k)} \union
    (IF r.checkpoints < setup.pauses THEN {OverBudget(r, k)} ELSE {})

\* The reducer neither acts nor waits.
DoesNothing(r) == [r EXCEPT !.quit = IF r.delivered = r.log THEN r.log ELSE @]

\* The effects of a response on record r, which counts the event as delivered:
\* the end of the run, an operation, a request, or none.
Effects(r) ==
    {Terminate(r, FALSE)}
    \union (IF r.open = 0 /\ Len(r.ops) < setup.ops
            THEN UNION {Operate(r, k) : k \in setup.kinds} ELSE {})
    \union (IF r.requests < setup.requests
            THEN {Leave([r EXCEPT !.open = @ + 1, !.requests = @ + 1], "Waiting")}
            ELSE {})
    \union (IF r.open > 0 THEN {Leave(r, "Waiting")} ELSE {DoesNothing(r)})

\* What apply_domain_response may make of record r.  Before its other effects
\* the response may withdraw open requests, of which the reducer is told
\* nothing (domain.rs:map_event).
Answers(r) ==
    UNION {Effects([r EXCEPT !.delivered = @ + 1, !.open = @ - withdrawn]) :
             withdrawn \in 0 .. r.open}

\* domain_step from record r: the parked operation first; else the response
\* of the reducer, the end of the run when it refuses the event or its
\* response is refused, or a pause when it cannot be called.
DomainStep(r) ==
    IF r.outbox # None THEN Operate(r, r.outbox)
    ELSE Answers(r) \union {Terminate(r, FALSE)} \union
         (IF r.checkpoints < setup.pauses THEN {Pausing(r)} ELSE {})

\* apply_finish of the operation in flight.  A waiting or cancelled operation
\* tells the reducer nothing by itself.
Finished(r, outcome) ==
    LET told == IF outcome = "done" THEN 1 ELSE 0
        opens == IF outcome = "waiting" THEN 1 ELSE 0
        completed == [r EXCEPT !.log = @ + told, !.open = opens, !.requests = @ + opens]
    IN  CASE r.status = "Cancelling" ->
                Terminate([r EXCEPT !.log = @ + told + 1], TRUE)
          [] r.status = "Operating" /\ r.pausing -> Pausing(completed)
          [] r.status = "Operating" /\ ~r.pausing /\ opens = 1 -> Leave(completed, "Waiting")
          [] OTHER -> [completed EXCEPT !.status = "Idle"]

\* Mutant: any operation is dispatched again.
TakenOverAlways(r, d) ==
    CASE r.status = "Cancelling" ->
            Terminate([r EXCEPT !.epoch = @ + 1, !.log = @ + 1], TRUE)
      [] r.status = "Operating" -> [r EXCEPT !.epoch = @ + 1, !.owner = d]
      [] OTHER -> Leave(r, "Queued")

\* Mutant: the reducer is not told that the operation was abandoned.
TakenOverSilently(r, d) ==
    CASE r.status = "Cancelling" ->
            Terminate([r EXCEPT !.epoch = @ + 1, !.log = @ + 1], TRUE)
      [] r.status = "Operating" /\ r.ops[InFlight(r)].replay_safe ->
            [r EXCEPT !.epoch = @ + 1, !.owner = d]
      [] OTHER -> Leave(r, "Queued")

\* Mutant: a stopping run is taken over like a running one.
TakenOverStop(r, d) ==
    CASE r.status \in {"Operating", "Cancelling"} /\ r.ops[InFlight(r)].replay_safe ->
            [r EXCEPT !.status = "Operating", !.epoch = @ + 1, !.owner = d]
      [] r.status \in {"Operating", "Cancelling"} /\ ~r.ops[InFlight(r)].replay_safe ->
            Leave([r EXCEPT !.epoch = @ + 1, !.log = @ + 1], "Queued")
      [] OTHER -> Leave(r, "Queued")

\* apply_takeover by node d of a lease that expired.
TakenOver(r, d) ==
    CASE r.status = "Cancelling" ->
            Terminate([r EXCEPT !.epoch = @ + 1, !.log = @ + 1], TRUE)
      [] r.status = "Operating" /\ r.ops[InFlight(r)].replay_safe ->
            [r EXCEPT !.epoch = @ + 1, !.owner = d]
      [] r.status = "Operating" /\ ~r.ops[InFlight(r)].replay_safe ->
            Leave([r EXCEPT !.epoch = @ + 1, !.log = @ + 1], "Queued")
      [] OTHER -> Leave(r, "Queued")

\* service.rs:commit of record r, computed from record base: a run that was
\* queued or ended is woken.
Commit(base, r) ==
    /\ run' = r
    /\ wake' = (wake \/ (r.status # run.status /\ r.status \in {"Queued", "Terminal"}))
    /\ lapsed' = (lapsed /\ r.epoch = run.epoch)
    /\ steered' =
        IF r.steers >= base.steers
        THEN [steered EXCEPT !.accepted = @ + (r.steers - base.steers)]
        ELSE [steered EXCEPT !.settled = @ + (base.steers - r.steers)]

Uncommitted == UNCHANGED <<run, wake, lapsed, steered>>
-----------------------------------------------------------------------------
(* Drivers.                                                                *)

Mine(d) == run.owner = d /\ run.epoch = drv[d].fence

\* check_fence: the stored record has this lease, unexpired.
Fenced(d) == run.status \in Leased /\ Mine(d) /\ ~lapsed

\* Mutant: a commit does not compare versions.
VersionIgnored(d) == TRUE

\* verify_commit: the stored record is the one the transition started from.
Unchanged(d) == drv[d].seen = run

Goto(d, pc) == drv' = [drv EXCEPT ![d].pc = pc]
End(d) == drv' = [drv EXCEPT ![d] = Away]
FinishWith(d, op, outcome) ==
    drv' = [drv EXCEPT ![d].pc = "finish", ![d].op = op, ![d].outcome = outcome]

\* host.rs:step for a queued wake: acquire a queued run, or finalize one that
\* has ended.
StepJob(d) ==
    /\ drv[d].pc = "none"
    /\ wake
    /\ wake' = FALSE
    /\ \/ /\ run.status = "Queued"
          /\ run' = [run EXCEPT !.status = "Idle", !.owner = d, !.epoch = @ + 1]
          /\ drv' = [drv EXCEPT ![d] = [Away EXCEPT !.pc = "loop", !.fence = run'.epoch]]
       \/ /\ run.status = "Terminal" /\ ~run.finalized
          /\ Goto(d, "finalize")
          /\ UNCHANGED run
       \/ /\ run.status # "Queued"
          /\ run.status = "Terminal" => run.finalized
          /\ UNCHANGED <<run, drv>>
    /\ UNCHANGED <<setup, lapsed, cancels, cancelAt, faults, ran, steered>>

\* drive_loop: reload the record.
Reload(d) ==
    /\ drv[d].pc = "loop"
    /\ CASE Mine(d) /\ run.status = "Operating" ->
                drv' = [drv EXCEPT ![d].pc = "register", ![d].op = InFlight(run)]
         [] Mine(d) /\ run.status = "Idle" -> Goto(d, "boundary")
         [] Mine(d) /\ run.status = "Cancelling" ->
                FinishWith(d, InFlight(run), "cancelled")
         [] run.status = "Terminal" -> Goto(d, "finalize")
         [] OTHER -> End(d)
    /\ Uncommitted
    /\ UNCHANGED <<setup, cancels, cancelAt, faults, ran>>

\* boundary: consume_steers.
ConsumeSteers(d) ==
    /\ drv[d].pc = "boundary"
    /\ IF Fenced(d)
       THEN /\ Commit(run, [run EXCEPT !.log = @ + run.steers, !.steers = 0])
            /\ Goto(d, "step")
       ELSE Uncommitted /\ End(d)
    /\ UNCHANGED <<setup, cancels, cancelAt, faults, ran>>

\* domain_step reads the record, and the reducer is called if there is
\* something for it.  A lease that is gone never comes back, so whatever this
\* drive computes then is refused.
Deliverable(r) == r.outbox # None \/ r.delivered < r.log

ReadForStep(d) ==
    /\ drv[d].pc = "step"
    /\ IF Mine(d)
       THEN drv' = [drv EXCEPT ![d].seen = run,
                               ![d].pc = IF Deliverable(run) THEN "reduce" ELSE "stalled"]
       ELSE End(d)
    /\ Uncommitted
    /\ UNCHANGED <<setup, cancels, cancelAt, faults, ran>>

\* boundary: there was nothing, and the run is failed as reducer_stalled, from
\* its record as it is by now.
Stall(d) ==
    /\ drv[d].pc = "stalled"
    /\ IF Fenced(d) /\ run.status = "Idle"
       THEN /\ Commit(run, Terminate(run, FALSE))
            /\ drv' = [drv EXCEPT ![d].pc = "loop", ![d].seen = None]
       ELSE Uncommitted /\ End(d)
    /\ UNCHANGED <<setup, cancels, cancelAt, faults, ran>>

\* commit_step: fence, then version.
CommitStep(d) ==
    /\ drv[d].pc = "reduce"
    /\ IF Fenced(d) THEN drv' = [drv EXCEPT ![d].pc = "loop", ![d].seen = None]
                    ELSE End(d)
    /\ IF Fenced(d) /\ Unchanged(d)
       THEN \E r \in DomainStep(drv[d].seen) : Commit(drv[d].seen, r)
       ELSE Uncommitted
    /\ UNCHANGED <<setup, cancels, cancelAt, faults, ran>>

\* execute: with its cancellation token registered, the driver reads the
\* record again.
StillOperating(d) == run.status = "Operating" /\ InFlight(run) = drv[d].op
Recheck(d) ==
    /\ drv[d].pc = "register"
    /\ IF StillOperating(d) THEN Goto(d, "start")
                            ELSE FinishWith(d, drv[d].op, "cancelled")
    /\ Uncommitted
    /\ UNCHANGED <<setup, cancels, cancelAt, faults, ran>>

\* execute: the operation starts unless its token is cancelled.
Cancelled(d) == <<d, drv[d].op>> \in cancels
Start(d) ==
    /\ drv[d].pc = "start"
    /\ IF Cancelled(d)
       THEN FinishWith(d, drv[d].op, "cancelled") /\ UNCHANGED ran
       ELSE Goto(d, "run") /\ ran' = [ran EXCEPT ![drv[d].op] = @ + 1]
    /\ Uncommitted
    /\ UNCHANGED <<setup, cancels, cancelAt, faults>>

\* The operation returns a result, or asks to wait for an external one.
Return(d) ==
    /\ drv[d].pc = "run"
    /\ \/ FinishWith(d, drv[d].op, "done")
       \/ run.requests < setup.requests /\ FinishWith(d, drv[d].op, "waiting")
    /\ Uncommitted
    /\ UNCHANGED <<setup, cancels, cancelAt, faults, ran>>

\* The select loop of execute: a cancelled token drops an interruptible
\* operation.
Interruptible(d) == run.ops[drv[d].op].interruptible
Interrupt(d) ==
    /\ drv[d].pc = "run"
    /\ Cancelled(d) /\ Interruptible(d)
    /\ FinishWith(d, drv[d].op, "cancelled")
    /\ Uncommitted
    /\ UNCHANGED <<setup, cancels, cancelAt, faults, ran>>

\* The renew tick of that loop: a lost lease drops the operation, a stop
\* committed on another node cancels the token.
SeesNoStop == FALSE  \* Mutant: the renew tick does not look at the status.
SeesStop == run.status = "Cancelling"
RenewTick(d) ==
    /\ drv[d].pc = "run"
    /\ \/ ~Fenced(d) /\ End(d) /\ UNCHANGED cancels
       \/ Fenced(d) /\ SeesStop /\ ~Cancelled(d)
          /\ cancels' = cancels \union {<<d, drv[d].op>>} /\ UNCHANGED drv
    /\ Uncommitted
    /\ UNCHANGED <<setup, cancelAt, faults, ran>>

\* finish_operation.
Finish(d) ==
    /\ drv[d].pc = "finish"
    /\ IF Fenced(d) /\ run.status \in {"Operating", "Cancelling"} /\ InFlight(run) = drv[d].op
       THEN /\ Commit(run, Finished(run, drv[d].outcome))
            /\ cancels' = cancels \ {<<d, drv[d].op>>}
            /\ drv' = [drv EXCEPT ![d] = [Away EXCEPT !.pc = "loop", !.fence = drv[d].fence]]
       ELSE Uncommitted /\ End(d) /\ UNCHANGED cancels
    /\ UNCHANGED <<setup, cancelAt, faults, ran>>

\* finalize_domain reads the record; the reducer sees what is left of the log.
ReadForFinalize(d) ==
    /\ drv[d].pc = "finalize"
    /\ IF run.finalized THEN End(d)
       ELSE drv' = [drv EXCEPT ![d].pc = "finalizing", ![d].seen = run]
    /\ Uncommitted
    /\ UNCHANGED <<setup, cancels, cancelAt, faults, ran>>

\* Mutant: the first delivery finalizes the run.
DeliveredOnce(r) ==
    [r EXCEPT !.delivered = IF @ < r.log THEN @ + 1 ELSE @, !.finalized = TRUE]

\* Mutant: off by one.
DeliveredPast(r) ==
    IF r.delivered <= r.log
    THEN [r EXCEPT !.delivered = @ + 1, !.finalized = r.delivered = r.log]
    ELSE [r EXCEPT !.finalized = TRUE]

\* One delivery of finalize_domain: the last one finalizes the run.
Delivered(r) ==
    IF r.delivered < r.log
    THEN [r EXCEPT !.delivered = @ + 1, !.finalized = r.delivered + 1 = r.log]
    ELSE [r EXCEPT !.finalized = TRUE]
CommitFinalize(d) ==
    /\ drv[d].pc = "finalizing"
    /\ IF Unchanged(d)
       THEN /\ Commit(drv[d].seen, Delivered(drv[d].seen))
            /\ drv' = [drv EXCEPT ![d].pc = "finalize", ![d].seen = None]
       ELSE Uncommitted /\ End(d)
    /\ UNCHANGED <<setup, cancels, cancelAt, faults, ran>>
-----------------------------------------------------------------------------
(* The sweeper of node d: service_exec.rs:recover and host.rs:sweep.       *)

Takeover(d) ==
    /\ drv[d].pc = "none"
    /\ run.status \in Leased /\ lapsed
    /\ Commit(run, TakenOver(run, d))
    /\ IF run'.owner = d
       THEN drv' = [drv EXCEPT ![d] = [Away EXCEPT !.pc = "loop", !.fence = run'.epoch]]
       ELSE UNCHANGED drv
    /\ UNCHANGED <<setup, cancels, cancelAt, faults, ran>>

Rewake ==
    /\ run.status = "Queued" /\ ~wake
    /\ wake' = TRUE
    /\ UNCHANGED <<setup, run, lapsed, drv, cancels, cancelAt, faults, ran, steered>>

SweepFinalize(d) ==
    /\ drv[d].pc = "none"
    /\ run.status = "Terminal" /\ ~run.finalized
    /\ Goto(d, "finalize")
    /\ UNCHANGED <<setup, run, lapsed, wake, cancels, cancelAt, faults, ran, steered>>
-----------------------------------------------------------------------------
(* Controls of users (control_apply.rs), and external results.             *)

\* stop, handled by a node that may also be driving the run.
Stop(n) ==
    /\ setup.stops
    /\ run.status \notin {"Cancelling", "Terminal"}
    /\ IF run.status = "Operating"
       THEN /\ Commit(run, [run EXCEPT !.status = "Cancelling", !.pausing = FALSE])
            /\ cancelAt' = n
       ELSE /\ Commit(run, Terminate(run, TRUE))
            /\ UNCHANGED cancelAt
    /\ UNCHANGED <<setup, drv, cancels, faults, ran>>

\* cancel.rs:cancel, after the commit of the stop.
MarkCancelled ==
    /\ cancelAt # None
    /\ cancels' = cancels \union {<<cancelAt, InFlight(run)>>}
    /\ cancelAt' = None
    /\ UNCHANGED <<setup, run, lapsed, wake, drv, faults, ran, steered>>

Pause ==
    /\ run.checkpoints < setup.pauses
    /\ \/ /\ run.status = "Operating" /\ ~run.pausing
          /\ Commit(run, [run EXCEPT !.pausing = TRUE])
       \/ /\ run.status \in {"Idle", "Waiting"}
          /\ Commit(run, Pausing(run))
    /\ UNCHANGED <<setup, drv, cancels, cancelAt, faults, ran>>

Resume ==
    /\ run.status = "Paused"
    /\ Commit(run, [Leave(run, "Queued") EXCEPT !.log = @ + 1])
    /\ UNCHANGED <<setup, drv, cancels, cancelAt, faults, ran>>

\* A steer is queued for the next boundary, and wakes a waiting run.
Steer ==
    /\ steered.accepted < setup.steers
    /\ run.status \notin {"Cancelling", "Terminal"}
    /\ run.steers < SteerQueueLimit
    /\ LET queued == [run EXCEPT !.steers = @ + 1]
       IN Commit(run, IF run.status = "Waiting" THEN Leave(queued, "Queued") ELSE queued)
    /\ UNCHANGED <<setup, drv, cancels, cancelAt, faults, ran>>

\* An open request is answered (approve, provide_input, an external result)
\* or expires.
Resolve ==
    /\ run.open > 0
    /\ Commit(run, RemoveRequest(run))
    /\ UNCHANGED <<setup, drv, cancels, cancelAt, faults, ran>>
-----------------------------------------------------------------------------
(* Faults and time.                                                        *)

Faulty ==
    /\ faults < setup.faults
    /\ faults' = faults + 1

HolderAlive == \E d \in Driver : drv[d].pc # "none" /\ Mine(d)

\* The lease expires: nobody renews it any more, or its holder is slow.
Lapse ==
    /\ run.status \in Leased /\ ~lapsed
    /\ IF HolderAlive THEN Faulty ELSE UNCHANGED faults
    /\ lapsed' = TRUE
    /\ UNCHANGED <<setup, run, wake, drv, cancels, cancelAt, ran, steered>>

\* A drive ends with an error or its node restarts.
Crash(d) ==
    /\ drv[d].pc # "none"
    /\ Faulty
    /\ End(d)
    /\ cancels' = {c \in cancels : c[1] # d}
    /\ cancelAt' = IF cancelAt = d THEN None ELSE cancelAt
    /\ Uncommitted
    /\ UNCHANGED <<setup, ran>>

\* The job of a wake cannot be enqueued (waker.rs), or ends in an error.
LoseWake ==
    /\ wake
    /\ Faulty
    /\ wake' = FALSE
    /\ UNCHANGED <<setup, run, lapsed, drv, cancels, cancelAt, ran, steered>>
-----------------------------------------------------------------------------
DriverStep(d) ==
    \/ Reload(d) \/ ConsumeSteers(d) \/ ReadForStep(d) \/ Stall(d) \/ CommitStep(d)
    \/ Recheck(d) \/ Start(d) \/ Interrupt(d) \/ RenewTick(d) \/ Finish(d)
    \/ ReadForFinalize(d) \/ CommitFinalize(d)

Sweep == \/ Rewake \/ \E d \in Driver : Takeover(d) \/ SweepFinalize(d)

Controls ==
    \/ \E n \in Driver \union {None} : Stop(n)
    \/ MarkCancelled \/ Pause \/ Resume \/ Steer \/ Resolve

Next ==
    \/ \E d \in Driver : StepJob(d) \/ DriverStep(d) \/ Return(d) \/ Crash(d)
    \/ Sweep \/ Controls \/ Lapse \/ LoseWake

Spec == Init /\ [][Next]_vars

Fairness ==
    /\ \A d \in Driver : WF_vars(DriverStep(d)) /\ WF_vars(Return(d) /\ ~Interruptible(d))
    /\ WF_vars(\E d \in Driver : StepJob(d))
    /\ WF_vars(Rewake)
    /\ WF_vars(\E d \in Driver : Takeover(d))
    /\ WF_vars(\E d \in Driver : SweepFinalize(d))
    /\ WF_vars(Lapse /\ ~HolderAlive)

FairSpec == Spec /\ Fairness
-----------------------------------------------------------------------------
TypeOK ==
    /\ setup \in Setups
    /\ run \in Run
    /\ run.delivered <= run.log
    /\ run.status \in Leased <=> run.owner # None
    /\ lapsed \in BOOLEAN /\ wake \in BOOLEAN
    /\ drv \in [Driver -> Drive]
    /\ cancels \subseteq Driver \X (1 .. setup.ops)
    /\ cancelAt \in Driver \union {None}
    /\ faults \in 0 .. setup.faults
    /\ ran \in [1 .. setup.ops -> Nat]
    /\ steered \in [accepted : Nat, settled : Nat]

\* An operation that may not be repeated is started at most once, whoever
\* drives the run when: the driver that began it, one that found it in the
\* record, or one that took over (driver.rs:execute, apply_takeover).
RepeatedOnlyIfSafe ==
    \A o \in 1 .. Len(run.ops) : ~run.ops[o].replay_safe => ran[o] <= 1

\* A driver finds nothing to do, and fails the run as reducer_stalled
\* (driver.rs), only if the reducer answered the last event of the log without
\* leaving anything to do, as by withdrawing the last open request.  However
\* else the run got to a boundary (a takeover, a resume, a steer, an answer, a
\* cancelled operation), there is a parked operation or an event for it.
NeverStalls ==
    \A d \in Driver : drv[d].pc = "stalled" => drv[d].seen.quit = drv[d].seen.log

\* No accepted steer disappears: it is queued, or was handed to the reducer or
\* discarded at the end, once (control_apply.rs:steer against the commit of a
\* domain step computed before the steer).
SteersKept == steered.accepted = run.steers + steered.settled

\* A finalized run's reducer has seen the whole log, the last events of a stop
\* included, whoever finalized it (finalize_domain on several nodes).
ReducerSawTheEnd ==
    run.finalized => run.status = "Terminal" /\ run.delivered = run.log

\* A stopped run never works again, whoever takes over the operation that was
\* in flight.
StopIsFinal ==
    [][run.status \in {"Cancelling", "Terminal"} =>
            run'.status \in {"Cancelling", "Terminal"} /\ run'.ops = run.ops]_run

\* The run ends up waiting, paused, finalized, or executing an operation that
\* does not return: no lost wake, dead driver or stop on another node leaves it
\* queued, held by nobody, stopping for ever or unfinalized.
Executing ==
    run.status = "Operating" /\ \E d \in Driver : drv[d].pc = "run" /\ Mine(d)
EventuallyRests ==
    <>[](run.status \in {"Waiting", "Paused"} \/ run.finalized \/ Executing)
=============================================================================
