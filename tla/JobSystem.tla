----------------------------- MODULE JobSystem -----------------------------
(***************************************************************************)
(* The background job system of one server and one tenant: the in-memory   *)
(* registry, its writes to RocksDB, the dispatcher's queue and timers, the *)
(* workers and the handler tasks they spawn, the timeout watchdog, the     *)
(* overdue sweeper, cancellation, and what a restart restores.             *)
(*                                                                         *)
(* The registry is changed under short locks, and every change is then     *)
(* written to RocksDB on the blocking pool while its author waits.  An     *)
(* author that is aborted stops waiting; its write lands all the same.     *)
(***************************************************************************)
EXTENDS Integers, FiniteSets, FiniteSetsExt, Sequences, SequencesExt

CONSTANTS
    Job,            \* calls that register a job; a job is known by its call
    None,           \* an absent entry, handle or holder of the key
    MaxAttempts,    \* bound: claims of one job between restarts
    Setups          \* the set-ups of a run, one of which is in force

\* jobs: the calls made; delayed: those with a due time (register_job_at);
\* keyed: all under one deduplication key; cap: active jobs the tenant may
\* have; max_retries; queueLimit: queued ids the tenant may have; maxParks,
\* maxFaults: bounds on parks and on crashes and failed writes or reads;
\* cancels, forces: jobs that may be cancelled or force-failed; heartbeatOnly:
\* the jobs have no runtime cap; permits: handlers that may run at a time.
Setup ==
    [jobs : SUBSET Job, delayed : SUBSET Job, keyed : BOOLEAN, cap : Nat,
     max_retries : Nat, queueLimit : Nat, maxParks : Nat, maxFaults : Nat,
     cancels : SUBSET Job, forces : SUBSET Job, heartbeatOnly : BOOLEAN, permits : Nat]

ASSUME SetupsAssumption ==
    /\ Setups \subseteq Setup
    /\ MaxAttempts \in Nat \ {0}
    /\ None \notin Job /\ IsFiniteSet(Job)

VARIABLES
    setup,          \* which of Setups is in force (never changes)
    jobs,           \* JobRegistry.jobs
    dedup_keys,     \* JobRegistry.dedup_keys of the one key
    active,         \* JobRegistry.tenant_active_counts of the tenant
    handles,        \* JobRegistry.handles: which attempt's task
    stored,         \* column family JOB_METADATA
    context,        \* column family JOB_DATA: jobs whose context is there
    writes,         \* persist_job calls on the blocking pool
    queue,          \* the tenant's queued ids
    timers,         \* sleeping dispatch_when_due tasks, by due time
    client,         \* where each registration call is
    attempt,        \* the worker and the handler task of each claim
    dog,            \* the watchdog and the job snapshot it acts on
    canceller,      \* where each cancel_job or force_fail_stuck_jobs call is
    parks, faults,  \* how often a job was parked, a fault happened
    givenUp,        \* history: jobs given up by watchdog, cancel or force-fail
    finished,       \* history: jobs whose own attempt ended them durably
    refused         \* history: jobs without due time refused by the queue

registryVars == <<jobs, dedup_keys, active, handles>>
dispatchVars == <<queue, timers, refused>>
storeVars    == <<stored, context, writes>>
boundVars    == <<parks, faults>>
vars == <<setup, registryVars, storeVars, dispatchVars, client, attempt, dog,
          canceller, boundVars, givenUp, finished>>

----------------------------------------------------------------------------
ActiveStatus   == {"Scheduled", "Running", "Executing"}
TerminalStatus == {"Completed", "Failed", "Cancelled"}

\* next_retry_at: none, still to come, or past.
Due == {"none", "later", "past"}

Entry == [status : ActiveStatus \cup TerminalStatus, retry_count : Nat, due : Due]

ASSUME NoneAssumption == None \notin Entry

Active(e)   == e # None /\ e.status \in ActiveStatus
Terminal(e) == e # None /\ e.status \in TerminalStatus
Holding(e)  == e # None /\ e.status \in {"Running", "Executing"}

Attempt == 1 .. MaxAttempts

\* Where a claim is: in the worker (claiming, loading, failing), in the
\* spawned task (starting .. deleting), or over.
WorkerPc == {"claiming", "loading", "failing"}
TaskPc   == {"starting", "beating", "waiting", "marking", "running",
             "completing", "requeueing", "deleting"}
Unused   == [pc |-> "unused", retry_count |-> 0, heartbeat |-> "off",
             handing |-> FALSE, clearing |-> FALSE]
AttemptState ==
    [pc : {"unused", "done"} \cup WorkerPc \cup TaskPc, retry_count : Nat,
     heartbeat : {"off", "on", "writing"},   \* the heartbeat sub-task
     handing : BOOLEAN,                      \* the worker is to set_handle
     clearing : BOOLEAN]                     \* a spawned clear_handle is due

\* A write waits on the blocking pool with the entry as its author saw it;
\* old is the status its change replaced.
Author == {"client", "worker", "task", "heartbeat", "dog", "canceller"}
Write  == [job : Job, by : Author, n : 0 .. MaxAttempts, entry : Entry,
           old : ActiveStatus \cup TerminalStatus]

Init ==
    /\ setup \in Setups
    /\ jobs = [j \in Job |-> None]
    /\ dedup_keys = None
    /\ active = 0
    /\ handles = [j \in Job |-> None]
    /\ stored = [j \in Job |-> None]
    /\ context = {}
    /\ writes = {}
    /\ queue = <<>>
    /\ timers = {}
    /\ client = [j \in Job |-> "idle"]
    /\ attempt = [j \in Job |-> [n \in Attempt |-> Unused]]
    /\ dog = [pc |-> "idle", job |-> None, retry_count |-> 0]
    /\ canceller = [j \in Job |-> "idle"]
    /\ parks = 0 /\ faults = 0
    /\ givenUp = {} /\ finished = {} /\ refused = {}

----------------------------------------------------------------------------
(* The registry's changes and their writes.                                *)

persist_job(j, by, n, e, old) ==
    writes' = writes \cup {[job |-> j, by |-> by, n |-> n, entry |-> e, old |-> old]}

\* Mutant: a terminal status can be left.
Found(e) == e # None

\* What update_status, schedule_retry and park_job refuse: an unknown job, and
\* one that has ended.
MayChange(e) == e # None /\ e.status \notin TerminalStatus

\* A job changes its status.  Ending frees its key and its place under the cap.
update_status(j, status, by, n) ==
    LET e == [jobs[j] EXCEPT !.status = status]
        ends == status \in TerminalStatus
    IN  /\ jobs' = [jobs EXCEPT ![j] = e]
        /\ dedup_keys' = IF ends /\ dedup_keys = j THEN None ELSE dedup_keys
        /\ active' = IF ends THEN Max({active - 1, 0}) ELSE active
        /\ persist_job(j, by, n, e, jobs[j].status)
        /\ UNCHANGED handles

\* schedule_retry (spent = 1) and park_job (spent = 0).
requeue(j, spent, by, n) ==
    LET e == [status |-> "Scheduled", retry_count |-> jobs[j].retry_count + spent,
              due |-> "later"]
    IN  /\ jobs' = [jobs EXCEPT ![j] = e]
        /\ persist_job(j, by, n, e, jobs[j].status)
        /\ UNCHANGED <<dedup_keys, active, handles>>

\* The blocking pool performs a write, or RocksDB refuses it.
Lands(w, ok) ==
    /\ ok \/ faults < setup.maxFaults
    /\ writes' = writes \ {w}
    /\ stored' = IF ok THEN [stored EXCEPT ![w.job] = w.entry] ELSE stored
    /\ faults' = IF ok THEN faults ELSE faults + 1
    /\ UNCHANGED <<context, parks>>

----------------------------------------------------------------------------
(* The dispatcher.                                                         *)

\* Mutant: one id too many.
HasRoomAtLimit == Len(queue) <= setup.queueLimit

\* FairScheduler::push: a tenant at its limit is refused, and nobody retries.
HasRoom == Len(queue) < setup.queueLimit

push(j) ==
    IF HasRoom
    THEN queue' = Append(queue, j) /\ UNCHANGED refused
    ELSE /\ refused' = IF jobs[j] # None /\ jobs[j].due = "none"
                       THEN refused \cup {j} ELSE refused
         /\ UNCHANGED queue

dispatch_when_due(j, due) ==
    IF due = "later"
    THEN timers' = timers \cup {<<j, "later">>} /\ UNCHANGED <<queue, refused>>
    ELSE push(j) /\ UNCHANGED timers

\* DispatchingMonitor::on_job_update, for the event of a write.
on_job_update(w) ==
    IF w.entry.status = "Scheduled" /\ w.old \in {"Running", "Executing"}
    THEN dispatch_when_due(w.job, w.entry.due)
    ELSE UNCHANGED dispatchVars

\* A due time passes: of a retry after ten seconds or more, by when the write
\* that recorded it, the short tasks that set and clear the handle and the
\* round of the watchdog are assumed to have ended.
Settled(j) ==
    /\ client[j] \notin {"inserted", "persisting"}
    /\ \A w \in writes : w.job = j => w.entry.due # "later"
    /\ \A n \in Attempt : ~attempt[j][n].handing /\ ~attempt[j][n].clearing
    /\ dog.job # j

Ripe(e) == IF e # None /\ e.due = "later" THEN [e EXCEPT !.due = "past"] ELSE e

TimePasses(j) ==
    /\ Settled(j)
    /\ jobs' = [jobs EXCEPT ![j] = Ripe(@)]
    /\ stored' = [stored EXCEPT ![j] = Ripe(@)]
    /\ timers' = {IF t[1] = j THEN <<j, "past">> ELSE t : t \in timers}
    /\ <<jobs, stored, timers>>' # <<jobs, stored, timers>>
    /\ UNCHANGED <<setup, dedup_keys, active, handles, context, writes, queue, refused,
                   client, attempt, dog, canceller, boundVars, givenUp, finished>>

TimerFires(j) ==
    /\ <<j, "past">> \in timers
    /\ timers' = timers \ {<<j, "past">>}
    /\ push(j)
    /\ UNCHANGED <<setup, registryVars, storeVars, client, attempt, dog, canceller,
                   boundVars, givenUp, finished>>

\* Mutant: only retries are looked for, not parked jobs.
OverdueRetry(j) ==
    /\ jobs[j] # None /\ jobs[j].status = "Scheduled" /\ jobs[j].due = "past"
    /\ jobs[j].retry_count > 0

\* overdue_scheduled, the OverdueDispatchSweeper's question.
Overdue(j) ==
    jobs[j] # None /\ jobs[j].status = "Scheduled" /\ jobs[j].due = "past"

Sweep(j) ==
    /\ Overdue(j)
    /\ push(j)
    /\ UNCHANGED <<setup, registryVars, storeVars, timers, client, attempt, dog,
                   canceller, boundVars, givenUp, finished>>

----------------------------------------------------------------------------
(* Registration, then the context, by the call of job j.                   *)

clientOnly == <<setup, attempt, dog, canceller, boundVars, givenUp, finished>>

HasActiveHolder == dedup_keys # None /\ Active(jobs[dedup_keys])

\* The checks before anything is inserted: the key's holder and the cap.
CheckRegistration(j) ==
    /\ j \in setup.jobs /\ client[j] = "idle"
    /\ client' = [client EXCEPT ![j] =
           IF (setup.keyed /\ HasActiveHolder) \/ active >= setup.cap
           THEN "done" ELSE "checked"]
    /\ UNCHANGED <<registryVars, storeVars, dispatchVars, clientOnly>>

\* Mutant: the key's holder is not looked at again.
NoRace == FALSE

\* The key's holder as the insertion finds it, under both locks.
RaceLost == setup.keyed /\ HasActiveHolder

Insert(j) ==
    /\ client[j] = "checked"
    /\ IF RaceLost
       THEN client' = [client EXCEPT ![j] = "done"] /\ UNCHANGED registryVars
       ELSE /\ client' = [client EXCEPT ![j] = "inserted"]
            /\ jobs' = [jobs EXCEPT ![j] =
                   [status |-> "Scheduled", retry_count |-> 0,
                    due |-> IF j \in setup.delayed THEN "later" ELSE "none"]]
            /\ dedup_keys' = IF setup.keyed THEN j ELSE dedup_keys
            /\ UNCHANGED <<active, handles>>
    /\ UNCHANGED <<storeVars, dispatchVars, clientOnly>>

\* record_tenant_job; a delayed job is written before it is announced, with
\* the entry as it was inserted.
Count(j) ==
    /\ client[j] = "inserted"
    /\ active' = active + 1
    /\ IF j \in setup.delayed
       THEN /\ client' = [client EXCEPT ![j] = "persisting"]
            /\ persist_job(j, "client", 0,
                   [status |-> "Scheduled", retry_count |-> 0, due |-> "later"],
                   "Scheduled")
       ELSE client' = [client EXCEPT ![j] = "announcing"] /\ UNCHANGED writes
    /\ UNCHANGED <<jobs, dedup_keys, handles, stored, context, dispatchVars, clientOnly>>

RegistrationStored(j) ==
    /\ client[j] = "persisting"
    /\ \E w \in writes, ok \in BOOLEAN : w.job = j /\ w.by = "client" /\ Lands(w, ok)
    /\ client' = [client EXCEPT ![j] = "announcing"]
    /\ UNCHANGED <<registryVars, dispatchVars, setup, attempt, dog, canceller,
                   givenUp, finished>>

\* DispatchingMonitor::on_job_created.
Announce(j) ==
    /\ client[j] = "announcing"
    /\ client' = [client EXCEPT ![j] = "putting"]
    /\ dispatch_when_due(j, IF jobs[j] # None THEN jobs[j].due ELSE "none")
    /\ UNCHANGED <<registryVars, storeVars, clientOnly>>

PutContext(j) ==
    /\ client[j] = "putting"
    /\ client' = [client EXCEPT ![j] = "done"]
    /\ context' = context \cup {j}
    /\ UNCHANGED <<registryVars, stored, writes, dispatchVars, clientOnly>>

\* JobDataStore::put fails: the call returns the error and leaves the job, by
\* now registered and announced, without a context.
PutContextFails(j) ==
    /\ client[j] = "putting"
    /\ faults < setup.maxFaults
    /\ faults' = faults + 1
    /\ client' = [client EXCEPT ![j] = "failed"]
    /\ UNCHANGED <<registryVars, storeVars, dispatchVars, setup, attempt, dog,
                   canceller, parks, givenUp, finished>>

----------------------------------------------------------------------------
(* A worker: claim, load the context, spawn the handler task.              *)

taskOnly == <<setup, client, dog, canceller>>

Step(j, n, pc) == attempt' = [attempt EXCEPT ![j][n].pc = pc]

\* The task is over, by itself or aborted: HandlerCleanupGuard cancels the
\* heartbeat, though not its write in progress, and spawns a clear_handle.
Dropped(a) == [a EXCEPT !.pc = "done", !.clearing = TRUE,
                        !.heartbeat = IF @ = "writing" THEN @ ELSE "off"]

\* Mutant: a job that is worked on already can be claimed.
ClaimableAgain(j) == Active(jobs[j]) /\ jobs[j].due # "later"

\* try_claim_job; a refused id is consumed all the same.  Priorities order the
\* queue: any id may be the next.
Claimable(j) ==
    jobs[j] # None /\ jobs[j].status = "Scheduled" /\ jobs[j].due # "later"

Claim(j) ==
    /\ \E i \in 1 .. Len(queue) : queue[i] = j /\ queue' = RemoveAt(queue, i)
    /\ IF Claimable(j)
       THEN \E n \in Attempt :
              LET e == [jobs[j] EXCEPT !.status = "Running"] IN
              /\ {k \in Attempt : attempt[j][k] = Unused} = n .. MaxAttempts
              /\ jobs' = [jobs EXCEPT ![j] = e]
              /\ persist_job(j, "worker", n, e, jobs[j].status)
              /\ Step(j, n, "claiming")
       ELSE UNCHANGED <<jobs, writes, attempt>>
    /\ UNCHANGED <<dedup_keys, active, handles, stored, context, timers, refused,
                   taskOnly, boundVars, givenUp, finished>>

\* The context is there: the task is spawned, with the job as it is now.
Spawn(j, n) ==
    /\ attempt[j][n].pc = "loading" /\ jobs[j] # None /\ j \in context
    /\ attempt' = [attempt EXCEPT ![j][n] =
           [pc |-> "starting", retry_count |-> jobs[j].retry_count,
            heartbeat |-> "on", handing |-> TRUE, clearing |-> FALSE]]
    /\ UNCHANGED <<registryVars, storeVars, dispatchVars, taskOnly, boundVars,
                   givenUp, finished>>

\* The context did not arrive in time: mark_failed.
ContextMissing(j, n) ==
    /\ attempt[j][n].pc = "loading" /\ j \notin context
    /\ IF MayChange(jobs[j])
       THEN update_status(j, "Failed", "worker", n) /\ Step(j, n, "failing")
       ELSE UNCHANGED <<registryVars, writes>> /\ Step(j, n, "done")
    /\ UNCHANGED <<stored, context, dispatchVars, taskOnly, boundVars, givenUp, finished>>

\* The job is gone, or the context cannot be read: the job is left as it is.
LoadFails(j, n) ==
    /\ attempt[j][n].pc = "loading"
    /\ \/ jobs[j] = None /\ UNCHANGED faults
       \/ faults < setup.maxFaults /\ faults' = faults + 1
    /\ Step(j, n, "done")
    /\ UNCHANGED <<registryVars, storeVars, dispatchVars, taskOnly, parks, givenUp,
                   finished>>

\* The worker goes on while the task already runs.
SetHandle(j, n) ==
    /\ attempt[j][n].handing
    /\ attempt' = [attempt EXCEPT ![j][n].handing = FALSE]
    /\ handles' = IF jobs[j] # None THEN [handles EXCEPT ![j] = n] ELSE handles
    /\ UNCHANGED <<jobs, dedup_keys, active, storeVars, dispatchVars, taskOnly,
                   boundVars, givenUp, finished>>

----------------------------------------------------------------------------
(* The handler task.                                                       *)

\* The first heartbeat, before the permit.
InitialHeartbeat(j, n) ==
    /\ attempt[j][n].pc = "starting"
    /\ IF Active(jobs[j])
       THEN persist_job(j, "task", n, jobs[j], jobs[j].status) /\ Step(j, n, "beating")
       ELSE UNCHANGED writes /\ Step(j, n, "waiting")
    /\ UNCHANGED <<registryVars, stored, context, dispatchVars, taskOnly, boundVars,
                   givenUp, finished>>

\* The tasks that hold a permit of the pool's handler semaphore.
Handlers ==
    {k \in Job \X Attempt : attempt[k[1]][k[2]].pc \in
        {"marking", "running", "completing", "requeueing", "deleting"}}

PermitFree == Cardinality(Handlers) < setup.permits

\* A permit is there; a job that ended meanwhile is not started.
MarkExecuting(j, n) ==
    /\ attempt[j][n].pc = "waiting"
    /\ PermitFree
    /\ IF MayChange(jobs[j])
       THEN update_status(j, "Executing", "task", n) /\ Step(j, n, "marking")
       ELSE /\ attempt' = [attempt EXCEPT ![j][n] = Dropped(@)]
            /\ UNCHANGED <<registryVars, writes>>
    /\ UNCHANGED <<stored, context, dispatchVars, taskOnly, boundVars, givenUp, finished>>

\* The heartbeat sub-task, which stops when the job is not being worked on.
Heartbeat(j, n) ==
    /\ attempt[j][n].heartbeat = "on"
    /\ IF Holding(jobs[j])
       THEN /\ attempt' = [attempt EXCEPT ![j][n].heartbeat = "writing"]
            /\ persist_job(j, "heartbeat", n, jobs[j], jobs[j].status)
       ELSE attempt' = [attempt EXCEPT ![j][n].heartbeat = "off"] /\ UNCHANGED writes
    /\ UNCHANGED <<registryVars, stored, context, dispatchVars, taskOnly, boundVars,
                   givenUp, finished>>

HeartbeatStored(j, n) ==
    /\ \E w \in writes, ok \in BOOLEAN :
           w.job = j /\ w.by = "heartbeat" /\ w.n = n /\ Lands(w, ok)
    /\ attempt' = [attempt EXCEPT ![j][n].heartbeat =
           IF attempt[j][n].pc = "done" THEN "off" ELSE "on"]
    /\ UNCHANGED <<registryVars, dispatchVars, taskOnly, givenUp, finished>>

\* Mutant: the heartbeat is cancelled and not awaited.
HeartbeatCancelled(j, n) == TRUE

\* The handler has returned and the heartbeat is stopped and awaited.
HeartbeatStopped(j, n) == attempt[j][n].heartbeat # "writing"

Conclude(j, n, update, pc, otherwise) ==
    /\ attempt[j][n].pc = "running"
    /\ HeartbeatStopped(j, n)
    /\ LET a == [attempt[j][n] EXCEPT !.heartbeat = "off"] IN
       IF MayChange(jobs[j])
       THEN update /\ attempt' = [attempt EXCEPT ![j][n] = [a EXCEPT !.pc = pc]]
       ELSE /\ attempt' = [attempt EXCEPT ![j][n] = IF otherwise = "done" THEN Dropped(a)
                                               ELSE [a EXCEPT !.pc = otherwise]]
            /\ UNCHANGED <<registryVars, writes>>
    /\ UNCHANGED <<stored, context, dispatchVars, taskOnly, faults, givenUp, finished>>

HandlerSucceeds(j, n) ==
    /\ Conclude(j, n, update_status(j, "Completed", "task", n), "completing", "deleting")
    /\ UNCHANGED parks

\* The retries left are those of the job as it was spawned.
RetriesLeft(retry_count) == retry_count < setup.max_retries

HandlerFails(j, n) ==
    /\ IF RetriesLeft(attempt[j][n].retry_count)
       THEN Conclude(j, n, requeue(j, 1, "task", n), "requeueing", "done")
       ELSE Conclude(j, n, update_status(j, "Failed", "task", n), "completing", "deleting")
    /\ UNCHANGED parks

\* The code sets no limit to how often a job is parked.
UpstreamUnavailable(j, n) ==
    /\ parks < setup.maxParks
    /\ Conclude(j, n, requeue(j, 0, "task", n), "requeueing", "done")
    /\ parks' = parks + 1

\* A write of the worker or the task has ended, well or not, and it goes on.
Onward == [claiming |-> "loading", failing |-> "done", beating |-> "waiting",
           marking |-> "running", completing |-> "deleting"]

WriteEnds(j, n) ==
    /\ attempt[j][n].pc \in DOMAIN Onward
    /\ \E w \in writes, ok \in BOOLEAN :
           /\ w.job = j /\ w.n = n /\ w.by \in {"worker", "task"}
           /\ Lands(w, ok)
           /\ finished' = IF ok /\ attempt[j][n].pc = "completing"
                          THEN finished \cup {j} ELSE finished
    /\ Step(j, n, Onward[attempt[j][n].pc])
    /\ UNCHANGED <<registryVars, dispatchVars, taskOnly, givenUp>>

\* A retry or park that could not be written is not announced.
RequeueStored(j, n) ==
    /\ attempt[j][n].pc = "requeueing"
    /\ \E w \in writes, ok \in BOOLEAN :
           /\ w.job = j /\ w.n = n /\ w.by = "task"
           /\ Lands(w, ok)
           /\ IF ok THEN on_job_update(w) ELSE UNCHANGED dispatchVars
    /\ attempt' = [attempt EXCEPT ![j][n] = Dropped(@)]
    /\ UNCHANGED <<registryVars, taskOnly, givenUp, finished>>

DeleteContext(j, n) ==
    /\ attempt[j][n].pc = "deleting"
    /\ context' = context \ {j}
    /\ attempt' = [attempt EXCEPT ![j][n] = Dropped(@)]
    /\ UNCHANGED <<registryVars, stored, writes, dispatchVars, taskOnly, boundVars,
                   givenUp, finished>>

\* The write of a task that was aborted while it waited.
OrphanLands(j, n) ==
    /\ attempt[j][n].pc = "done"
    /\ \E w \in writes, ok \in BOOLEAN :
           w.job = j /\ w.n = n /\ w.by = "task" /\ Lands(w, ok)
    /\ UNCHANGED <<registryVars, dispatchVars, taskOnly, attempt, givenUp, finished>>

\* The spawned clear_handle removes whatever handle the job has by then.
ClearHandle(j, n) ==
    /\ attempt[j][n].clearing
    /\ attempt' = [attempt EXCEPT ![j][n].clearing = FALSE]
    /\ handles' = [handles EXCEPT ![j] = None]
    /\ UNCHANGED <<jobs, dedup_keys, active, storeVars, dispatchVars, taskOnly,
                   boundVars, givenUp, finished>>

----------------------------------------------------------------------------
(* The watchdog, cancellation, forgetting.                                 *)

\* abort_handle: the task of the stored handle, if it still runs, is dropped
\* where it waits.
abort_handle(j) ==
    /\ handles' = [handles EXCEPT ![j] = None]
    /\ IF handles[j] # None /\ attempt[j][handles[j]].pc \in TaskPc
       THEN /\ attempt' = [attempt EXCEPT ![j][handles[j]] = Dropped(@)]
            /\ givenUp' = givenUp \cup {j}
       ELSE UNCHANGED <<attempt, givenUp>>

\* The worker or a heartbeat keeps last_heartbeat of the job fresh.
Beating(j) ==
    \E n \in Attempt : \/ attempt[j][n].pc \in WorkerPc
                       \/ attempt[j][n].heartbeat # "off"

\* check_timeouts reads the jobs; one that executes for too long, unless it
\* has no runtime cap, or that gives no sign of life, is acted on by what was
\* read.  A job that waits for a permit with a live heartbeat is left alone.
\* The worker is assumed to have set the handle in the minutes that takes.
TimesOut(j) ==
    /\ dog.pc = "idle" /\ Holding(jobs[j])
    /\ \A n \in Attempt : ~attempt[j][n].handing
    /\ (jobs[j].status = "Executing" /\ ~setup.heartbeatOnly) \/ ~Beating(j)
    /\ dog' = [pc |-> "aborting", job |-> j, retry_count |-> jobs[j].retry_count]
    /\ UNCHANGED <<setup, registryVars, storeVars, dispatchVars, client, attempt,
                   canceller, boundVars, givenUp, finished>>

WatchdogAborts ==
    /\ dog.pc = "aborting"
    /\ abort_handle(dog.job)
    /\ dog' = [dog EXCEPT !.pc = "aborted"]
    /\ UNCHANGED <<setup, jobs, dedup_keys, active, storeVars, dispatchVars, client,
                   canceller, boundVars, finished>>

WatchdogIdle == [pc |-> "idle", job |-> None, retry_count |-> 0]

WatchdogDecides ==
    /\ dog.pc = "aborted"
    /\ IF MayChange(jobs[dog.job])
       THEN /\ IF RetriesLeft(dog.retry_count)
               THEN requeue(dog.job, 1, "dog", 0)
               ELSE update_status(dog.job, "Failed", "dog", 0)
            /\ dog' = [dog EXCEPT !.pc = "storing"]
            /\ givenUp' = givenUp \cup {dog.job}
       ELSE dog' = WatchdogIdle /\ UNCHANGED <<registryVars, writes, givenUp>>
    /\ UNCHANGED <<setup, stored, context, dispatchVars, client, attempt, canceller,
                   boundVars, finished>>

WatchdogStored ==
    /\ dog.pc = "storing"
    /\ \E w \in writes, ok \in BOOLEAN :
           /\ w.by = "dog"
           /\ Lands(w, ok)
           /\ IF ok THEN on_job_update(w) ELSE UNCHANGED dispatchVars
    /\ dog' = WatchdogIdle
    /\ UNCHANGED <<setup, registryVars, client, attempt, canceller, givenUp, finished>>

\* cancel_job: abort, then the status, then its write.
CancelAborts(j) ==
    /\ j \in setup.cancels /\ canceller[j] = "idle" /\ jobs[j] # None
    /\ canceller' = [canceller EXCEPT ![j] = "aborted"]
    /\ abort_handle(j)
    /\ UNCHANGED <<setup, jobs, dedup_keys, active, storeVars, dispatchVars, client,
                   dog, boundVars, finished>>

CancelMarks(j) ==
    /\ canceller[j] = "aborted"
    /\ IF MayChange(jobs[j])
       THEN /\ update_status(j, "Cancelled", "canceller", 0)
            /\ canceller' = [canceller EXCEPT ![j] = "storing"]
            /\ givenUp' = givenUp \cup {j}
       ELSE /\ canceller' = [canceller EXCEPT ![j] = "done"]
            /\ UNCHANGED <<registryVars, writes, givenUp>>
    /\ UNCHANGED <<setup, stored, context, dispatchVars, client, attempt, dog,
                   boundVars, finished>>

CancelStored(j) ==
    /\ canceller[j] = "storing"
    /\ \E w \in writes, ok \in BOOLEAN : w.job = j /\ w.by = "canceller" /\ Lands(w, ok)
    /\ canceller' = [canceller EXCEPT ![j] = "done"]
    /\ UNCHANGED <<setup, registryVars, dispatchVars, client, attempt, dog, givenUp,
                   finished>>

\* force_fail_stuck_jobs: the stored records are listed, the record of one
\* that is being worked on is overwritten, then the registry is told.  The
\* handler is not aborted; it keeps running and keeps its permit.
ForceList(j) ==
    /\ j \in setup.forces /\ canceller[j] = "idle" /\ Holding(stored[j])
    /\ canceller' = [canceller EXCEPT ![j] = "listed"]
    /\ UNCHANGED <<setup, registryVars, storeVars, dispatchVars, client, attempt, dog,
                   boundVars, givenUp, finished>>

\* Of a failed job's record nothing but its status is read again.
ForceStored(j) ==
    /\ canceller[j] = "listed"
    /\ \/ /\ canceller' = [canceller EXCEPT ![j] = "failing"]
          /\ stored' = [stored EXCEPT ![j] =
                 [status |-> "Failed", retry_count |-> 0, due |-> "none"]]
          /\ UNCHANGED faults
       \/ /\ faults < setup.maxFaults
          /\ canceller' = [canceller EXCEPT ![j] = "done"]
          /\ faults' = faults + 1
          /\ UNCHANGED stored
    /\ UNCHANGED <<setup, registryVars, context, writes, dispatchVars, client, attempt,
                   dog, parks, givenUp, finished>>

ForceMarks(j) ==
    /\ canceller[j] = "failing"
    /\ IF MayChange(jobs[j])
       THEN /\ update_status(j, "Failed", "canceller", 0)
            /\ canceller' = [canceller EXCEPT ![j] = "storing"]
            /\ givenUp' = givenUp \cup {j}
       ELSE /\ canceller' = [canceller EXCEPT ![j] = "done"]
            /\ UNCHANGED <<registryVars, writes, givenUp>>
    /\ UNCHANGED <<setup, stored, context, dispatchVars, client, attempt, dog,
                   boundVars, finished>>

\* cleanup_old_jobs and the capacity limit: ended jobs leave the memory.
Forget(j) ==
    /\ Terminal(jobs[j])
    /\ jobs' = [jobs EXCEPT ![j] = None]
    /\ handles' = [handles EXCEPT ![j] = None]
    /\ UNCHANGED <<setup, dedup_keys, active, storeVars, dispatchVars, client, attempt,
                   dog, canceller, boundVars, givenUp, finished>>

----------------------------------------------------------------------------
(* A crash and the restart.  What was in memory and the writes that had    *)
(* not landed are gone.  Jobs stored as pending are restored from their    *)
(* record, those too old or over the cap are abandoned, those without      *)
(* context are deleted.  The restored ones are queued twice, once by       *)
(* restore_and_dispatch_jobs, which respects the due time, and once by     *)
(* recover_pending_jobs, before the workers start.                         *)

Pending == {j \in Job : Active(stored[j])}

Restored(j) == [stored[j] EXCEPT !.status = "Scheduled"]

\* Mutant: the context is not looked for.
WithoutContextToo(kept) == kept

HasContext(kept) == kept \cap context

\* Mutant: restored jobs are not counted against the cap.
Uncounted(restored) == 0

Counted(restored) == Cardinality(restored)

Dispatches(some, room, all) == \* as many as there is room for
    some \subseteq all /\ Cardinality(some) = Min({Cardinality(all), room})

Orders(ids) == {q \in [1 .. Cardinality(ids) -> ids] : IsInjective(q)}

Restart ==
    /\ faults < setup.maxFaults
    /\ faults' = faults + 1
    /\ \E stale \in SUBSET {j \in Pending : stored[j].due # "later"} :
       \E kept \in SUBSET (Pending \ stale) :
          LET restored == HasContext(kept) IN
          /\ Dispatches(kept, setup.cap, Pending \ stale)
          /\ stored' = [j \in Job |->
                 CASE j \in restored -> Restored(j)
                   [] j \in kept \ restored -> None
                   [] j \in Pending \ kept -> [stored[j] EXCEPT !.status = "Failed"]
                   [] OTHER -> stored[j]]
          /\ jobs' = [j \in Job |-> IF j \in restored THEN Restored(j) ELSE None]
          /\ active' = Counted(restored)
          /\ LET later == {j \in restored : stored[j].due = "later"} IN
             /\ timers' = {<<j, "later">> : j \in later}
             /\ \E first, second \in SUBSET restored :
                  /\ Dispatches(first, setup.queueLimit, restored \ later)
                  /\ Dispatches(second, setup.queueLimit - Cardinality(first), restored)
                  /\ \E f \in Orders(first), s \in Orders(second) : queue' = f \o s
                  /\ refused' = refused \cup {j \in restored \ (first \cup second) :
                                                 stored[j].due = "none"}
    /\ dedup_keys' = None
    /\ handles' = [j \in Job |-> None]
    /\ writes' = {}
    /\ client' = [j \in Job |-> IF client[j] = "idle" THEN "idle" ELSE "done"]
    /\ attempt' = [j \in Job |-> [n \in Attempt |-> Unused]]
    /\ dog' = WatchdogIdle
    /\ canceller' = [j \in Job |-> IF canceller[j] = "idle" THEN "idle" ELSE "done"]
    /\ UNCHANGED <<setup, context, parks, givenUp, finished>>

----------------------------------------------------------------------------
ClientSteps(j) ==
    \/ Insert(j) \/ Count(j) \/ RegistrationStored(j) \/ Announce(j)
    \/ PutContext(j) \/ PutContextFails(j)

AttemptSteps(j, n) ==
    \/ Spawn(j, n) \/ ContextMissing(j, n) \/ LoadFails(j, n) \/ InitialHeartbeat(j, n)
    \/ MarkExecuting(j, n) \/ WriteEnds(j, n) \/ RequeueStored(j, n)
    \/ DeleteContext(j, n) \/ OrphanLands(j, n)

HandlerReturns(j, n) ==
    HandlerSucceeds(j, n) \/ HandlerFails(j, n) \/ UpstreamUnavailable(j, n)

Watchdog == WatchdogAborts \/ WatchdogDecides \/ WatchdogStored

Next ==
    \/ \E j \in Job :
          \/ CheckRegistration(j) \/ ClientSteps(j)
          \/ TimePasses(j) \/ TimerFires(j) \/ Sweep(j) \/ Claim(j) \/ TimesOut(j)
          \/ CancelAborts(j) \/ CancelMarks(j) \/ CancelStored(j) \/ Forget(j)
          \/ ForceList(j) \/ ForceStored(j) \/ ForceMarks(j)
          \/ \E n \in Attempt :
                \/ AttemptSteps(j, n) \/ HandlerReturns(j, n)
                \/ Heartbeat(j, n) \/ HeartbeatStored(j, n)
                \/ SetHandle(j, n) \/ ClearHandle(j, n)
    \/ Watchdog
    \/ Restart

\* Tokio polls every task that can go on, clocks move, and the watchdog and
\* the sweeper keep making their rounds.  Nothing is assumed of handlers: one
\* may never return.
Fairness ==
    /\ WF_vars(\E j \in Job : ClientSteps(j))
    /\ WF_vars(\E j \in Job : TimePasses(j))
    /\ WF_vars(\E j \in Job : TimerFires(j))
    /\ WF_vars(\E j \in Job : Sweep(j))
    /\ WF_vars(\E j \in Job : Claim(j))
    /\ WF_vars(\E j \in Job : TimesOut(j))
    /\ WF_vars(Watchdog)
    /\ WF_vars(\E j \in Job, n \in Attempt : AttemptSteps(j, n))
    /\ WF_vars(\E j \in Job, n \in Attempt : SetHandle(j, n) \/ ClearHandle(j, n))
    /\ \A j \in Job, n \in Attempt : WF_vars(HeartbeatStored(j, n))

Spec == Init /\ [][Next]_vars /\ Fairness

----------------------------------------------------------------------------
TypeOK ==
    /\ setup \in Setups
    /\ jobs \in [Job -> Entry \cup {None}]
    /\ dedup_keys \in Job \cup {None}
    /\ active \in Nat
    /\ handles \in [Job -> Attempt \cup {None}]
    /\ stored \in [Job -> Entry \cup {None}]
    /\ context \subseteq Job
    /\ writes \subseteq Write
    /\ queue \in Seq(Job) /\ Len(queue) <= setup.queueLimit
    /\ timers \subseteq Job \X {"later", "past"}
    /\ client \in [Job -> {"idle", "checked", "inserted", "persisting", "announcing",
                           "putting", "failed", "done"}]
    /\ attempt \in [Job -> [Attempt -> AttemptState]]
    /\ dog \in [pc : {"idle", "aborting", "aborted", "storing"}, job : Job \cup {None},
                retry_count : Nat]
    /\ canceller \in [Job -> {"idle", "aborted", "listed", "failing", "storing", "done"}]
    /\ parks \in 0 .. setup.maxParks /\ faults \in 0 .. setup.maxFaults
    /\ givenUp \subseteq Job /\ finished \subseteq Job /\ refused \subseteq Job

\* A job that neither the watchdog, a cancel nor a force-fail gave up on is
\* worked on by at most one attempt at a time, and only while the registry says
\* so: however often its id is queued, by its timer, the sweeper and a restart.
OneAttempt ==
    \A j \in setup.jobs \ givenUp :
        LET working == {n \in Attempt : attempt[j][n].pc \in
                {"claiming", "loading", "starting", "beating", "waiting", "marking",
                 "running"}}
        IN  Cardinality(working) <= 1 /\ (working # {} => Holding(jobs[j]))

\* A job that an attempt of its own ended, with the end written, never runs
\* again, whatever crashes and whatever else was being written; nor has it an
\* entry that could be run.
NeverRunsAgain ==
    \A j \in finished \ givenUp :
        ~Active(jobs[j]) /\ \A n \in Attempt : attempt[j][n].pc # "running"

\* Two jobs of one key are never active together (until a restart, which
\* forgets the keys).
OneActivePerKey ==
    setup.keyed /\ faults = 0 => Cardinality({j \in Job : Active(jobs[j])}) <= 1

\* The tenant's count never falls below its active jobs, but for those a
\* registration is about to count: the cap cannot erode.
CapNeverUndercounts ==
    Cardinality({j \in Job : Active(jobs[j])}) <=
        active + Cardinality({j \in Job : client[j] = "inserted"})

\* A job that may still run has its context, from the moment its call has
\* returned well, through retries, parks and restarts; and a job whose context
\* could not be written does not come back from a restart.
ContextKept == \A j \in Job : Active(jobs[j]) /\ client[j] = "done" => j \in context

\* While the server is up, a job that has ended keeps its status until it is
\* forgotten: no late attempt, retry, timeout or cancel revives it.
TerminalStays ==
    [][\A j \in Job : Terminal(jobs[j]) /\ faults' = faults =>
           jobs'[j] = None \/ jobs'[j].status = jobs[j].status]_vars

\* What the watchdog leaves alone: a handler without runtime cap, one whose
\* job was ended under it, and a job that waits while such handlers hold all
\* the permits.
Unwatched(k) == setup.heartbeatOnly \/ k[1] \in givenUp

HeldUp(j) ==
    \E n \in Attempt :
        \/ attempt[j][n].pc = "running" /\ setup.heartbeatOnly
        \/ attempt[j][n].pc = "waiting" /\ ~PermitFree /\ \A k \in Handlers : Unwatched(k)

\* Every job ends, though its handler may hang, its writes fail, its timer be
\* refused and the server crash, if its upstream comes back (maxParks);
\* except one that stays held up, and an immediate job that the tenant's full
\* queue refused.
EventuallyEnds ==
    \A j \in Job :
        \/ <>[]HeldUp(j)
        \/ Active(jobs[j]) ~> (~Active(jobs[j]) \/ j \in refused)

============================================================================
