# Formal verification of RaisinDB

TLA+ specifications of the parts of RaisinDB in which steps of several actors
meet: masterless replication of the operation log, the revision clock, the lease
locks, the branch record every commit writes, the background job system, and the
durable agent runs. TLC checks them on small
instances; TLAPS proves the central results for every value of the constants.
Paths are relative to `src/crates/` unless they start with `src/` or `docs/`.
The repository has specifications of its own in `src/formal/tla`, of the design and of
the CRDTs it intends; the ones here are written from the Rust code.

## 1. The system

RaisinDB is a multi-tenant, multi-model database with Git-like branches. Nodes
are stored with a revision (MVCC) in RocksDB; a branch record names the HEAD
revision readers see. Servers form a masterless cluster: each accepts writes,
captures them as operations in a log per (tenant, repository) pair, and exchanges
operations with its peers by push and by periodic pull.

### Inventory

| component | state | operations | hard behaviour | correct when |
|---|---|---|---|---|
| vector clocks (`raisin-replication/src/vector_clock.rs`) | counter per server | increment, set, merge, compare | a missing entry reads as 0 | comparison is the causal order |
| causal delivery buffer (`causal_delivery/`) | held operations, clock of what was delivered | `deliver`, rounds of `check_buffered_ops`, final sort | reordered, repeated, lost operations; restart; skewed clocks in a comparator that is no total order | what one buffer hands out is in causal order, closed above its seed and without repetition; nothing is held for what has arrived |
| operation capture (`raisin-rocksdb/src/replication/operation_capture/`) | repo clock, `op_seq` | stamp, put, count, push; restore at start | clock advances before the put; crash anywhere | no sequence number is used twice |
| operation log and snapshot (`repositories/oplog/`) | operations by (server, `op_seq`); one vector clock | append, read-modify-write of the snapshot, missing operations, rebuild | the read-modify-write takes no lock | what the snapshot counts is in the log |
| coordinator (`coordinator/`, `tcp_server/`) | buffers, replay engine, tasks in progress | pull per peer and tick, two more on connect, push | concurrent pulls; pushes lost; push and pull take different routes | every operation reaches every server |
| replay engine, merge rules (`replay/`, `crdt.rs`) | persistent set of applied ids | filter, group, pick the winner, mark | mark and append are two steps; the comparison is not transitive | one winner, the same everywhere |
| put and applicator (`replication/integration/oplog_storage.rs`, `replication/application/`) | the data | append, count, apply in `op_seq` order, count again | one of several fails; read and write are two steps | data converges, never goes back |
| hybrid logical clock (`raisin-hlc`) | two atomics | `tick`, `update` | two compare-and-swaps that are not one | HLCs are unique and grow |
| lease locks, election (`raisin-locks`) | entry per key, fencing counter | `try_acquire`, `renew`, `release`, reaper; `LeaseElection` | pauses, lost answers, late renewals | a live lease is taken from nobody; one worker |
| branch records, commit (`repositories/branches`, `transaction/commit`) | HEAD and settings in one record | commit, `update_head` after a tree operation, `set_head`, edits, replicated record | whole-record read-modify-write by concurrent requests, dropped futures, nodes and HEAD in two steps | HEAD goes back by a reset only and covers what ended well; no edit is undone |
| job system (`raisin-storage/src/jobs`, `raisin-rocksdb/src/jobs`) | registry, keys and counts in memory; job and context records; tenant queue, timers; handler tasks | register, dispatch, claim, run, retry, park, time out, sweep, cancel, force-fail, restore | every change is written afterwards, by an author that may be aborted; snapshots that age; full queues; scarce permits; crash | one attempt at a time, an end stays an end, the cap holds, a job that nothing holds up ends |
| agent runs (`raisin-agent-runtime`) | run record with lease, epoch, log and outbox; per node, the drive and its cancellation registry | drive, commit a domain step, execute, stop, pause, resume, steer, answer, take over, finalize | leases that expire during work, stops and steers beside a step computed earlier, lost wakes, dead nodes | nothing unsafe runs twice, nothing accepted is lost, a stop is final, the run comes to rest |
| catch-up, checkpoints; log GC; operation queue; flow runtime | | | crash half-way, retries, bounded queues | not modelled yet, see the plan |
| SQL, Cypher, REL; indexes; transports; authentication; clients | | | sequential or third-party code | not modelled |

How they meet. A transaction writes nodes and HEAD in one RocksDB batch under the lock
of the branch record, at a revision the hybrid clock gave out earlier; tree operations
(move, copy, reorder, rebalance), translations and type definitions store their nodes
first and call `update_head` afterwards. Then operations are captured. A capture advances the repo clock, appends to the log, counts
the operation in the snapshot and fires the push callback. A peer that receives a
push puts it straight into its log and data. A peer that pulls sends its snapshot,
gets the operations above it, delivers them through the causal buffer, lets the
replay engine choose, and puts the winners. Both puts end in the applicator, which
writes the same branch records as local commits do.

Background work goes through the job system: a call registers a job, a worker claims
it and spawns its handler; watchdog, sweeper and restore see to the ones that got
stuck. The step of an agent run is such a job. Its handler acquires the run's lease
and drives the run until it rests; whoever makes the run ready again enqueues another
step, and the sweeper does it for wakes that were lost and leases whose holder died.

`PROJECT.json` lists the components with their status and, under `hazards`, each
place where this can go wrong, at its line, with the property that would show it.

## 2. The modules

```
VectorClock <- CausalBroadcast
            <- CausalDelivery <- MCCausalDelivery, CausalDelivery_proofs
            <- ReplicatedLog
            <- Replication    <- MCReplication,    Replication_proofs
HybridClock                   <- MCHybridClock,    HybridClock_proofs
LeaseLock                     <- MCLeaseLock,      LeaseLock_proofs
BranchHead                    <- MCBranchHead,     BranchHead_proofs
JobSystem                     <- MCJobSystem,      JobSystem_proofs
AgentRun                      <- MCAgentRun,       AgentRun_proofs
```

`CausalDelivery` implements `CausalBroadcast`: it has an instance of it under a
refinement mapping, and `ImplementsBroadcast` states the instance's specification.
`Replication` implements `ReplicatedLog` in the same way (`ImplementsLog`).

Operators whose comment begins with "Mutant" are the definition they follow with a
plausible mistake in it. They are used by no specification; `PROJECT.json` names,
for each property, the one that breaks it.

**VectorClock** - clocks as total functions from servers to naturals; `Counter(op)`
is the operation's own entry, its `op_seq`.

**CausalBroadcast** - what a buffer promises, with no buffer in it: a log that grows at
its end (`HandOut`), repeats nothing and is causally closed above the clock it started
from, `base`; a `Crash` takes it away and begins another above any clock.

**CausalDelivery** - one buffer of one pair. `Capture` and `LearnRemote` are the
senders; any operation that was ever sent may arrive at any time, again and again,
or never, which is loss, delay, repetition and reordering at once. One `deliver`
call is the steps `DeliverDirect`/`DeliverBuffered`, `ScanBuffer`, `DeliverReady`,
`SortStep`, `Return`. `Restart(vc)` ends the buffer anywhere and creates the next one from
`vc`. What the caller stores of a hand-out, and in which steps, is modelled in
Replication: the batch is appended, then the snapshot is raised server by server, and
a push may raise it past what never came. So here the seed is any clock that counts captured
operations (`Seeds`), and every property is one of a buffer relative to its seed: what
the seed does not count is handed out again, stored or not. A server's own captures do not
advance the clock of its buffer, so an operation of a peer that depends on one captured
after the buffer was created is held until a restart. The final
sort is modelled as the insertion sort the standard library uses for up to 20
elements, because with a comparator that is not an order the result depends on the
algorithm; longer releases are outside the model.

**ReplicatedLog** - what the logs of a cluster are for, with no replication protocol in it:
a write takes effect under a number that is past all its author has logged (`Write`), the author
logs it or never does (`Append`), others log copies (`Receive`), and a logged operation takes
effect (`Apply`). Nothing is ever removed or overwritten, and a server stops and starts again
without a step of its own.

**Replication** - a cluster. `capture`, `task` and `pushes` are the concurrent
activities; each step of each is one access to shared state, in the order of the
code: `Stamp`, `Put`, `ReadSnapshot`, `WriteSnapshot` for a capture; `Request`,
`Serve`, `ReadSeed`, `DeliverNext`, `Replay` for a pull; `LogBatch`,
`ReadBatchSnapshot`, `WriteBatchSnapshot`, `ReadStored`, `WriteStored` and the
second snapshot pass for the put that pulls and pushes share; `ReceivePush`,
`LosePush`; `StatsBegin`, `StatsScan`, `StatsWrite` for a status query
(`get_cluster_stats`), which rebuilds an empty snapshot from the log and writes it back.
`cluster`, chosen at the start, is the configuration: who pulls from whom,
whether pushes are on, what is written, how many tasks a server runs at a time, whether the
status is queried, how many faults happen and of which kind. Failures are `Fail` (request or
answer lost), `SeedFails` (the snapshot cannot be read and the buffer starts empty),
`CaptureFails`, `PutFails`, `ApplyFails`, `RecountFails` and `Restart`. What an operation writes is
a register, of one of three kinds the applicator tells apart: compared (branch
heads, workspaces, tenants), overwritten (`Blind`: users) and
versioned (`Versioned`: nodes). Abstractions: a `deliver` call, which holds its
lock throughout, is one step (the detailed module shows what it does); the list
order of a batch is dropped because the replay engine's hash map and the sort by
`op_seq` drop it too; the commit of the local write and the stamp of its operation
are one step, so a crash between them is not seen; `ts` stands for the operation's
timestamp and its revision alike; every server has the operations it acknowledged,
so acknowledgements, which only garbage collection reads, are left out.

**HybridClock** - `tick` and `update` of any number of threads. A call reads the
wall clock (`Begin`), loads the two atomics (`LoadTimestamp`, `LoadCounter`), and
swaps them (`SwapTimestamp`, `SwapCounter`); a failed swap is `Retry`, which reads the wall
clock again. The system clock advances, and may be set back (`SetWallBack`); `NeverBehind`
is therefore relative to the earliest reading during the call, and a state counts as ahead
when it is past all the wall clock has ever shown. Atomics are
sequentially consistent here, more than the code asks for, so a violation found is
one of the code under every memory model; u64 overflow is out of reach.

**LeaseLock** - servers in `LeaseElection::run` over one key and either backend. The
backend decides a request in one step; the answer is another. `Tick` lets time pass
between any two steps, so any pause is possible unless `prompt`. `redis` and `prompt`
are chosen at the start and never change. An acquire whose
answer is lost, a lost release, a dead process (`Stop`) and the reaper (`Sweep`) are
included. The counting pools of the same crate are not.

**BranchHead** - requests on one branch record. `BeginCommit` allocates the revision of a
commit, which writes nodes and HEAD in one batch, or of a tree operation, which stores its
nodes first (`StoreNodes`) and advances HEAD through `update_head`; a merge, which stores its
revision before `update_head` and copies index entries after it, has the second
form. `BeginEdit` changes a setting, `BeginReset` is `set_head`, called by the branch
handlers of both transports (`raisin-transport-http/src/handlers/branches.rs:198`,
`raisin-transport-ws/src/handlers/branches.rs:245`), `BeginApply` a peer's record. Then
`Lock`, `Read`, `Write`, or `Abort` (error or dropped future) and `Restart` anywhere.
`update_head` and `set_head` refuse a protected branch; commits do not look. `nodes` is the
set of revisions at which something is stored, `loose` those that HEAD need not cover: the
request has not ended well, or a reset went below them. `replicated`, chosen at the
start, says whether records of peers arrive through `apply_update_branch`; replicated
revisions (`crdt_ops.rs`) go through `update_head` as the tree operations do. Creation and
deletion of branches are left out.

**JobSystem** - one server and one tenant. The registry's fields are changed in one step
each; every change starts a write on the blocking pool (`writes`), which lands in a later
step, with the entry its author saw, even when the author has been aborted. The actors are
the registration call (`CheckRegistration` .. `ClientSteps`), the timer of a due time, the
overdue sweeper, the worker's claim, the handler task with its heartbeat (`AttemptSteps`,
`HandlerReturns`, `Heartbeat`) and its permit, the watchdog (which works on a snapshot),
`cancel_job`, `force_fail_stuck_jobs` (which lists jobs, then writes and marks them one by
one, aborting nothing), and `Restart`, after which memory is what the records say. A context
write may fail (`PutContextFails`), which leaves the announced job without one. Some
callers put the context before they register, a simpler order that is not modelled. A handler ends as it likes:
completed, failed, parked, or never. The tenant's queue is a sequence of ids; which of them a
worker takes next is left open. `permits` handlers run at a time; a job whose handlers are
`heartbeatOnly` has no runtime cap. Parks are unbounded in the code
(`raisin-storage/src/jobs/registry/status.rs:318`); the bound `maxParks` says that the
upstream comes back. Assumed, and said at the definitions: a due time, ten seconds or more ahead, passes
only after the write that recorded it, the hand-over of the task's handle and the watchdog's
current round have ended; an abort takes effect where the task awaits, so a handler that is
stuck in a blocking call, which would keep its permit, is not modelled; an entry's status,
key and count change together. Left out: shutdown (the closed semaphore), deletion of
stored records, progress and result data, the order in which tenants are served, the
registration variants that choose their own id.

**AgentRun** - one run bound to a domain reducer, and the nodes that drive it. The record
is changed only by commits; `apply` reads and commits in one step (it holds the store's
critical section and retries a conflict), a domain step reads the record (`ReadForStep`),
calls the reducer, and commits if the record is still the one it read (`CommitStep`). The
reducer is abstract: it acts on any event by asking for an operation, opening or withdrawing
requests, waiting, finishing, or doing nothing; it may be unavailable, which pauses the run, or
refuse the event, which ends it with the event not delivered. It is told of requests that were
answered or expired, not of those it withdrew. A driver that finds neither an event nor
a parked operation fails the run (`Stall`); the history field `quit` remembers that the last
response left nothing to do. An operation is known by what it promises, `replay_safe`
and `interruptible`, as the code's dispatch does. `Crash`, `Lapse` (a lease past its expiry while
its holder still works) and `LoseWake` are the faults. Left out: child runs and what they
hand back, planner-made and external runs, budget arithmetic and the policy that fails a
run, tool denial, the content of checkpoints, idempotency markers, who may control a run and
repeated control requests, two drives of one run on one node, creation of runs.

## 3. What the runs check

All bounds are constants of the models; no run cuts the search with a constraint.
Deadlock checking is on except where a system may come to rest when its bounds are
used up (`CHECK_DEADLOCK FALSE` in those configurations).

| run | instance | shows |
|---|---|---|
| `causal_delivery` | 2 senders x 2 operations, 1 restart from any seed; and a backlog of 4 operations, one of which releases the other three, under all wall-clock readings from 1..3 | order, rounds and clock of a buffer; an operation is held only for one that has not arrived; the buffer implements causal broadcast |
| `replication` | 1 writer x 3 operations pulled under any clock readings; 2 operations under two pulls at a time; a status query beside two pulls; 2 servers that write one node and pull from each other; push and pull with 1 restart, failed read or failed write anywhere | sequence numbers unique; snapshot within the log; pulls skip nothing; effects in causal order, one batch at a time; the logs implement `ReplicatedLog` |
| `replication_converges` | 2 servers writing one node, fair pulls, no fault | same state, same logs |
| `hybrid_clock` | 2 threads x 2 calls, wall clock 0..1 in both directions, remote HLCs, a state that starts level with the wall clock or ahead of it | never behind; the timestamp never goes back; unique, growing HLCs while ahead |
| `lease_lock` | 3 servers, lease of 2 in 4 units of time, 3 leases, both backends, with and without overlong pauses | tokens; a live lease is kept; one worker when nobody is paused |
| `branch_head` | 2 requests at a time, 2 revisions, an edit, resets to 0 and 1, with and without peers, fair | without peers: HEAD goes back by a reset only, covers what ended well, and no edit is undone; every request ends |
| `job_system` | an immediate job; one with a due time that is parked; one that is retried; two calls under one key with room for one queued id; one that is force-failed; two for one permit; two without runtime cap, one of them force-failed; up to 3 claims of a job; 1 crash or failed write, cancels; fair | one attempt at a time; an end is an end, also after a crash; keys, cap and contexts; a job that nothing holds up ends |
| `agent_run` | 2 nodes; 2 operations, each replay-safe and interruptible or neither, with a stop and 2 faults; 2 steers beside a request, with a queue of 1; pauses; fair | nothing unsafe twice; no steer or event lost; stalled by the reducer only; a stop is final; the run comes to rest |

Why these bounds are enough: each violation listed below needs two actors and at
most two operations, and the passing runs allow at least as much. Two senders with
two operations have every causal relation a pair can have; the backlog adds the
three-operation release that a non-transitive comparator needs. Three lock servers
are a holder, a late former holder and a candidate. Two requests are two commits in
either order, a commit and an edit, or either beside a reset; what a third adds the proof
covers. The batch limit of a pull is never reached (three operations against 100), and with
one operation of each server in `replication_converges` no batch has two operations for one
register; `PullsSkipNothing` is proved for every limit. Two
pulls of one peer are what a connection and the ticker can start at a time; with a third
operation one that lost its register in the first pull's batch may be counted while its winner
is still about to be appended, which `NothingSkipped` allows for, the proof covers, and the
run, with two operations under two pulls, does not reach. A job needs a
second claim to be claimed wrongly, and a third to be retried after it; the set-ups differ in
what they combine, because a queue limit, parks, cancels and crashes in one behaviour go
through the same few steps. An agent run needs two nodes (a holder and one that takes
over), a first operation whose end the second one's beginning depends on, and a second
fault to hit the recovery from the first; a steer queue of one is full after one steer.

**Where code and documentation disagree.** Four runs are expected to be violated;
each checks one sentence of the repository against what the code does (`findings` in
`PROJECT.json` quotes it).

| run | what happens |
|---|---|
| `replication_marked_not_logged` | crash between the persistent mark and the append: the operation is skipped for good |
| `replication_push_lost` | an operation is pulled early and held for the one before it, which its push puts past the buffer; its own push is lost, and the buffer holds every copy a pull brings |
| `hybrid_clock_repeats` | two ticks return one HLC at a new millisecond |
| `branch_head_replicated` | a replicated record hides a committed node above HEAD |

Read off the same models, without a run of their own so far:

- `buffer_operation` warns that the buffer is full and inserts all the same, although
  `max_buffer_size` "prevents memory exhaustion from network issues"
  (`causal_delivery/mod.rs:62`).
- After a restart a copy of an operation the seed already counts is held for ever,
  although the seed is there "so redelivered history is recognized"
  (`coordinator/mod.rs:150`).
- `apply_update_user` compares nothing, so two servers that write a user record
  concurrently exchange their values and stay different (`raisin-replication/src/lib.rs:25`,
  "All nodes converge to identical state"); `Converges` is checked for nodes.
- A batch is applied in the order of `op_seq`, not in that of the causal buffer
  (`lib.rs:24`, "Operations applied in happens-before order"). While every server runs,
  that is harmless, for a captured operation counts nothing of other servers: the repo
  clock is merged with theirs only when a restart takes it from the snapshot. From then on
  the numbers of cause and effect are of different servers and the effect may come first. Two
  pulls at a time put one server's operations out of order too. `AppliedInCausalOrder` is
  stated for one batch at a time and before the first fault; `PullsSkipNothing` for
  any number of pulls.
- An operation whose application failed "can be retried" (`oplog_storage.rs:88`);
  nothing retries it.
- With operations on different registers, a push that overtakes a lost one moves the
  snapshot past it, and no pull asks for it again. A batch whose put fails is dropped
  although the buffer counts it. A pull asks for the first `batch_size` operations above its
  snapshot and does not loop, so if all of these are held for one that sorts after them, it is
  never fetched.
- A status query that found the snapshot empty writes what it rebuilt over what pulls have
  counted since; the snapshot trails until the next operation. A buffer whose seed could not
  be read starts from nothing and holds all that depends on what is already stored.
- `update` of the hybrid clock takes the remote counter when timestamps tie, even if the
  local one is larger (`state.rs:178`, "while maintaining monotonicity"); no production
  code calls it.
- A leader that is paused past its lease works on beside the next one until its renewal
  is answered (`election.rs:13`); `OneWorker` is stated for servers in time.
- The in-process `renew` extends a lease that is over and not yet swept
  (`raisin-locks/src/lib.rs:84`).
- A tree operation that `update_head` refuses, the branch being protected, or whose future is
  dropped before it, leaves its nodes stored above HEAD. The next commit that advances
  HEAD makes them visible. Commits never look at `protected`, although the error of
  `update_head` says the branch is "protected from commits".
- An attempt that was aborted leaves its write behind; if it lands after that of the
  cancel, a crash brings the cancelled job back. `NeverRunsAgain` is stated for jobs that
  ended by themselves. A job without due time is not written before its first claim; the
  code says so. Keys of restored jobs are not restored.
- A full tenant queue refuses an immediate job, which stays registered until it is
  cancelled or the server restarts; `EventuallyEnds` excepts it.
- A call whose context write fails returns an error and leaves its job registered and
  announced; the worker that claims it waits for the context in vain and fails the job.
- `force_fail_stuck_jobs` overwrites the record of a job that completed after it was
  listed. It aborts no handler: a job it has failed runs on and keeps its permit. Once
  such handlers, or heartbeat-only ones that never return, hold all permits, jobs that
  wait for one keep a live heartbeat and are not timed out. `EventuallyEnds` excepts the jobs
  they hold up.
- A takeover of an operation that may not be repeated drops a pause that had been accepted
  for the next boundary (`lifecycle_ops.rs:442` against `control.rs:70`, "Pause at
  the next boundary.").
- A driver whose lease was taken over in the moment between begin and start may still
  run the operation beside the new holder (`driver.rs:407`, "Nothing executes");
  only operations that are safe to repeat can be in that state, and `RepeatedOnlyIfSafe`
  says so.
- A response that only withdraws the last open request, when the reducer has seen every
  event, leaves nothing to do, and the next boundary fails the run as `reducer_stalled`. The
  contract does not forbid such a response; the bundled reducer does not give it. A steer
  accepted between the scan of the log and that failure is discarded with the run.
- A steer accepted while the run is going to `Waiting` stays queued until the request is
  answered; an external result that arrives before its request is recorded is refused and
  its delivery id used up.

Seen together with the passing runs these say how far each guarantee reaches: a causal buffer
is right relative to its seed, and after a crash the seed may repeat what is stored;
pull-only replication without crashes skips nothing, pushes and crashes break it;
nodes converge, users do not; as long as no peer's record is applied, HEAD covers what
requests that ended well have stored, and only a reset takes it back; the election is exclusive as long as
nobody is paused past the lease; jobs end whatever crashes if their handlers return or may be
timed out, though a job that was given up on may leave traces that a crash revives; agent
runs come to rest whatever crashes.

**Fairness.** `Replication`: captures and tasks go on; every peer is asked again and
again and answers infinitely often; nothing is assumed of pushes, which are never
repeated, nor of faults. `BranchHead`: a request that has begun goes on, and the
lock is tokio's mutex, a FIFO queue, hence strong fairness of `Lock`; nothing makes
a request abort. `JobSystem`: tokio polls tasks that can go on, clocks move, watchdog and
sweeper keep making their rounds; nothing is assumed of handlers, which may hang. `AgentRun`:
drivers go on, operations that cannot be interrupted return (the others may hang), step
jobs run, the sweeper makes its rounds and the lease of a dead holder expires; nothing is
assumed of users.

## 4. What is proved

For all values of the constants that satisfy the named assumptions, hence without the bounds
of the runs. The assumptions say what the constants are (`Ttl > 0`, `BatchSize > 0`, a finite
set of servers, numbered; a finite set of job calls; a server is not its own peer) and that
`None` is none of the values it stands beside. Every safety invariant and every action property
of the passing runs is stated by a theorem.

**CausalDelivery_proofs.** `TypeOK`, `CausalOrder`, `AtMostOnce`, `DependenciesFirst`,
`NothingReadyIsHeld`, `ClockCountsDelivered`, `HeldForMissing`, all for one buffer relative
to its seed, whatever that seed is. None of
them is inductive. The invariant adds: what has been sent is determined by server
and number and is causally closed under clocks; the buffer's clock counts exactly
what the seed counted and what was handed out or released since, in every step of a call and
not only between calls; the released operations not yet sorted in form, with the hand-out, a
sequence in which every dependency comes first. The step that needs an idea is the sort: an
operation that moves left stops
at the first neighbour it is not `Less` than. Every dependency of it is to its left
already, `Less` never holds from an operation to its cause, so it stops before it
passes one, whatever the wall clocks say. `HeldForMissing` takes, of the operations that
would be held for each other only, one with the fewest dependencies: what it waits for is
neither held nor handed out, so it has not arrived.
`BufferImplementsBroadcast`: every behaviour of the buffer is one of `CausalBroadcast`, with
`log` the part of the hand-out that calls have returned and `base` the seed.
`Return` is the hand-out, `Restart` the crash; the steps inside a call are stutters, since
what they put together is not seen before the call returns. It needs the invariant above,
for what a call returns is closed only because the sort kept it so. `AtMostOnce` and
`DependenciesFirst` have no run of their own: they are proved, also inside a call, and what a
caller can see of them is part of `ImplementsBroadcast`. The type invariants of the four
smaller modules are likewise left to the proofs.

**HybridClock_proofs.** `TypeOK`, `NeverBehind`, `TimestampNeverBack`, `OrderedAhead`. The
invariant says of a call in progress that what it is going to store is not behind the
earliest wall clock it was shown, the remote, or the timestamp it loaded. Uniqueness fails in general,
as a run shows. It holds while the state is ahead of the wall clock, and the second invariant
says why: the highest reading of the wall clock only grows and nothing else lowers the lead,
so a state that is ahead of it now always was, no tick has changed the timestamp, and the counter alone orders the
ticks; the swap of the counter succeeds only for a thread since whose load no other has
returned.

**LeaseLock_proofs.** `TypeOK`, `LeaseIsNewest`, `LiveLeaseKept` on both backends;
`OneWorker` on Redis for servers in time. The invariant
relates every token in use to the fencing counter, and for Redis and servers in time says
that a server on its lease holds the entry, which lasts as long as the lease counted
from `granted`.

**BranchHead_proofs.** `TypeOK`; and on a server to which no peer replicates
(`~replicated`) `NothingAboveHead`, `HeadNeverRegresses`, `EditsKept`. The invariant
is the lock's: who is past it holds it, and what it has read is still the record; besides,
nodes that a tree operation has stored are `loose` until it has advanced HEAD. The
assumption is needed: `branch_head_replicated` is the counterexample without it.

**Replication_proofs.** Three invariants, each for more of what the cluster must not do.

- `IInv`, in every cluster, with pushes and faults anywhere: every copy of an operation, in a
  buffer, a task, a message or another log, is also in the log of its author; a server's own
  operations, logged or being captured, carry different numbers that its repo clock has
  counted; whatever clock is about to be written back over the snapshot counts only
  operations in the log, as the snapshot does. `SequenceNeverReused` and `SnapshotWithinLog`
  follow. The restart needs the first part: the highest logged number is at least that of every
  copy anywhere, so the clock it is raised to is past them all.
- `PInv`, in a cluster that only pulls, before the first fault: the clock of the causal
  buffer is the measure of everything. It rises one number at a time, each that of an
  operation in its author's log; snapshots, clocks about to be written, logs and batches are
  below it, and all it has passed is released to a pull, about to be appended, logged, or
  lost to one of the latter in a batch of the replay engine. `PullsSkipNothing` is that statement
  below the snapshot. `check_buffered_ops` is a loop of as many rounds as there are held
  operations: what every round keeps, all of them keep (`RoundsKeep`, by a least round that
  would not).
- `SInv`, if besides at most one batch is under way at a time: a server has seen its own
  operations and, of others, only what the buffer's clock counts; what a batch has yet to apply
  comes after all that was seen of its authors; and operations count nothing of other servers.
  `AppliedInCausalOrder` follows, since then one operation precedes another only if both
  are of one server.

`ClusterImplementsLog`, in every cluster: the logs and effects of the servers, with everything
else forgotten, are a behaviour of `ReplicatedLog`. `Stamp` is its `Write`, `Put` its `Append`,
`LogBatch` its `Receive`, the end of an application its `Apply`; all other steps, the
restart among them, are stutters. It needs of `IInv` that numbers are not reused and that a put
applies only what it has appended, and that what a server has captured has taken effect there.

The first statement of `NothingSkipped` ("in the log, or lost to one in the log") is false for
two pulls and three operations: the winner may still be about to be appended when the
snapshot passes the loser. The proof did not go through and showed it.

**JobSystem_proofs.** `TypeOK` (with the limit of the queue), `OneAttempt`, `NeverRunsAgain`,
`OneActivePerKey`, `CapNeverUndercounts`, `ContextKept`, `TerminalStays`. Each write on the
blocking pool is tied to the author that waits for it: an attempt that claims, beats, marks, fails,
completes or requeues has at most one write of its own under way, with an entry of
the status it is about. Hence when a job ends by itself no other write of it is left, and what
lands afterwards is its end (`NeverRunsAgain`); one attempt works and the registry says so
(`OneAttempt`). None of this is true of a job the watchdog or a cancel gave up on, whose
aborted attempt leaves its write behind, nor of one that was force-failed, whose attempt runs
on; the invariant excepts them, as the properties do. A force-fail writes over the record of a job that
was registered when it was listed (`ListedOK`). An
active job holds the key, until a restart, which does not restore keys.

**AgentRun_proofs.** `TypeOK`, `RepeatedOnlyIfSafe`, `NeverStalls`, `SteersKept`,
`ReducerSawTheEnd`, `StopIsFinal`. The invariant is about the fencing epoch: no two drives were
given the same one, so at most one has the lease, and what that one knows of the record (idle
at a boundary, its operation the last one while it executes) users cannot change under
it. An operation that may not be repeated is started by the drive that had the lease when it
began; one that is in flight when the lease is taken over is abandoned, so no other drive gets to it.
Every record ever committed that is to be driven has something for its reducer, also
after an abandoned operation, or was left with nothing by the reducer's own last response
(`quit`), which is why a driver finds nothing in that case only (`NeverStalls`).

Only model-checked: liveness (`Converges`, `EventuallyReplicated`,
`RequestsEnd`, `EventuallyEnds`, `EventuallyRests`), which is beyond the prover, and the four violations.

## 5. Plan

Done in the order of importance: CausalDelivery and the broadcast it implements,
Replication, HybridClock, LeaseLock, BranchHead, JobSystem, AgentRun, and the proofs of
their safety properties and of the two refinements. To come, in this order:

1. **Commit and capture**: the order in which one commit captures its branch update
   and its nodes (`transaction/commit/mod.rs`), a crash between the durable batch and
   the capture, and what a replica shows at HEAD in between. Composes BranchHead and
   Replication.
2. **Applicator versions**: node versions and deletes that arrive out of revision
   order and the index entries they must tombstone (`newer_version.rs`,
   `delete_ops.rs`), against a reference that applies them in order; equal revisions of
   two servers.
3. **Catch-up and garbage collection**: checkpoint ingestion, log verification,
   watermarks, and the sequence number a server restarts with after collection.
4. **Counting pools** (`claim`, `release_claim`), the **operation queue**, the **flow
   runtime**, whose instances wait on jobs and events as agent runs do.

### Not modelled

The query languages (SQL, Cypher, REL), the full-text and vector indexes, the transports,
authentication and rate limits, the clients, the admin console and the packages, which are
most of the repository's lines, are sequential transformations, third-party
engines or input and output: what could be wrong with them is in their data, and a model of
their control would say nothing. The specifications here are of the part in which several
actors share state; of it, what the list above names is still open.
