--------------------------- MODULE AgentRun_proofs ---------------------------
(***************************************************************************)
(* Proofs about AgentRun: the safety properties of its run hold for every  *)
(* number of nodes, operations, requests, steers, pauses and faults.       *)
(***************************************************************************)
EXTENDS AgentRun, TLAPS, SequenceTheorems

-----------------------------------------------------------------------------
(* The inductive invariant.                                                *)

\* There is something for the reducer, or its last response left nothing to do.
HasWork(r) == Deliverable(r) \/ r.quit = r.log

\* What is true of every record, while a transition is applied to it too.
Draft(r) ==
    /\ r \in Run
    /\ r.delivered <= r.log
    /\ r.status \in Leased <=> r.owner # None
    /\ Len(r.ops) <= setup.ops
    /\ r.outbox # None => Len(r.ops) < setup.ops
    /\ r.status \in {"Operating", "Cancelling"} => Len(r.ops) > 0
    /\ r.status = "Terminal" => r.open = 0
    /\ r.finalized => r.status = "Terminal" /\ r.delivered = r.log

\* What is true of every record that was ever committed: a run that is to be
\* driven has something to do.
RecordOK(r) ==
    /\ Draft(r)
    /\ r.status \in {"Queued", "Idle"} => HasWork(r) \/ r.steers > 0

Boundary == {"boundary", "step", "reduce", "stalled"}
Executes == {"register", "start", "run", "finish"}
Drives == {"loop"} \union Boundary \union Executes

\* A drive that still has the lease knows the state of the run, up to what
\* users may do to it meanwhile.
DriveOK(d) ==
    /\ drv[d].fence <= run.epoch
    /\ drv[d].pc \in Boundary /\ Mine(d) => run.status = "Idle"
    /\ drv[d].pc = "step" /\ Mine(d) => HasWork(run)
    /\ drv[d].pc = "reduce" => drv[d].seen \in Run /\ Deliverable(drv[d].seen)
    /\ drv[d].pc = "stalled" => drv[d].seen.quit = drv[d].seen.log
    /\ drv[d].pc \in Executes => drv[d].op \in 1 .. Len(run.ops)
    /\ drv[d].pc \in Executes /\ Mine(d) =>
           run.status \in {"Operating", "Cancelling"} /\ drv[d].op = Len(run.ops)
    /\ drv[d].pc = "finish" /\ drv[d].outcome \notin {"done", "waiting"} /\ Mine(d) =>
           run.status = "Cancelling"
    /\ drv[d].pc \in {"finalize", "finalizing"} => run.status = "Terminal"
    /\ drv[d].pc = "finalizing" => drv[d].seen \in Run

\* No two drives have been given one epoch.
FencesDiffer ==
    \A d, e \in Driver :
        drv[d].pc \in Drives /\ drv[e].pc \in Drives /\ drv[d].fence = drv[e].fence
          => d = e

\* A drive is about to start operation o.
Starting(d, o) == drv[d].pc \in {"register", "start"} /\ drv[d].op = o

\* An operation that may not be repeated is started by the one drive that had
\* the lease when it began.
StartsOK ==
    /\ \A o \in 1 .. setup.ops : o > Len(run.ops) => ran[o] = 0
    /\ \A o \in 1 .. Len(run.ops) : ~run.ops[o].replay_safe =>
           /\ ran[o] <= 1
           /\ \A d \in Driver : Starting(d, o) => ran[o] = 0
           /\ \A d, e \in Driver : Starting(d, o) /\ Starting(e, o) => d = e
           /\ run.status = "Operating" /\ o = Len(run.ops) =>
                \A d \in Driver :
                    /\ Starting(d, o) => drv[d].fence = run.epoch
                    /\ drv[d].pc = "loop" /\ Mine(d) => ran[o] = 0

\* Tokens are cancelled after a stop only.
CancelsOK ==
    cancels # {} \/ cancelAt # None =>
        run.status \in {"Cancelling", "Terminal"} /\ Len(run.ops) > 0

IInv ==
    /\ TypeOK
    /\ RecordOK(run)
    /\ \A d \in Driver : DriveOK(d)
    /\ FencesDiffer
    /\ StartsOK
    /\ CancelsOK
    /\ SteersKept

-----------------------------------------------------------------------------
(* Changes of the record.                                                  *)

\* Every commit: epochs and operations only grow, a lease keeps its owner, and
\* a stop is final.
Follows(r, s) ==
    /\ r.epoch <= s.epoch
    /\ r.epoch = s.epoch => r.owner = s.owner
    /\ Len(r.ops) <= Len(s.ops)
    /\ \A o \in 1 .. Len(r.ops) : s.ops[o] = r.ops[o]
    /\ r.status = "Terminal" => s.status = "Terminal"
    /\ r.status \in {"Cancelling", "Terminal"} =>
           s.status \in {"Cancelling", "Terminal"} /\ s.ops = r.ops

\* What others than the holder do to a run that is leased: a stop, or an event.
Aside(r, s) ==
    r.status \in Leased /\ s.epoch = r.epoch =>
        /\ s.status = r.status \/ (r.status = "Operating" /\ s.status = "Cancelling")
        /\ s.ops = r.ops
        /\ HasWork(r) => HasWork(s)

\* An operation in flight was in flight before, under the same lease unless it
\* may be repeated.
NothingBegun(r, s) ==
    /\ s.ops = r.ops
    /\ s.status = "Operating" =>
        /\ r.status = "Operating"
        /\ s.epoch = r.epoch \/ r.ops[Len(r.ops)].replay_safe

\* A commit that begins no operation, by whoever may commit at any time.
Moves(r, s) == RecordOK(s) /\ Follows(r, s) /\ Aside(r, s) /\ NothingBegun(r, s)

LEMMA LeaveFields ==
    ASSUME NEW r \in Run, NEW st \in Status
    PROVE  LET s == Leave(r, st)
           IN  /\ s \in Run
               /\ s.status = st /\ s.owner = None
               /\ s.epoch = IF r.status \in Leased THEN r.epoch + 1 ELSE r.epoch
               /\ s.ops = r.ops /\ s.pausing = FALSE /\ s.steers = r.steers
               /\ s.open = r.open /\ s.requests = r.requests
               /\ s.checkpoints = r.checkpoints /\ s.outbox = r.outbox
               /\ s.log = r.log /\ s.delivered = r.delivered
               /\ s.quit = r.quit
               /\ s.finalized = r.finalized
<1>1. (IF r.status \in Leased THEN r.epoch + 1 ELSE r.epoch) \in Nat
    BY DEF Run
<1>2. Leave(r, st) \in Run
    BY <1>1 DEF Leave, Run
<1>3. QED
    BY <1>2 DEF Leave, Run

LEMMA Statuses ==
    /\ "Idle" \in Status /\ "Operating" \in Status /\ "Cancelling" \in Status
    /\ "Queued" \in Status /\ "Waiting" \in Status /\ "Paused" \in Status
    /\ "Terminal" \in Status
    BY DEF Status, Leased

LEMMA PausingFields ==
    ASSUME NEW r \in Run
    PROVE  LET s == Pausing(r)
           IN  /\ s \in Run
               /\ s.status = "Paused" /\ s.owner = None
               /\ s.epoch = IF r.status \in Leased THEN r.epoch + 1 ELSE r.epoch
               /\ s.ops = r.ops /\ s.steers = r.steers
               /\ s.open = r.open /\ s.outbox = r.outbox
               /\ s.log = r.log /\ s.delivered = r.delivered
               /\ s.quit = r.quit
               /\ s.finalized = r.finalized
<1>1. ASSUME NEW l \in Run
      PROVE  [l EXCEPT !.checkpoints = @ + 1] \in Run
  <2>1. l.checkpoints + 1 \in Nat
    BY DEF Run
  <2>2. QED
    BY <2>1 DEF Run
<1>2. Leave(r, "Paused") \in Run
    BY LeaveFields, Statuses
<1>3. Pausing(r) \in Run
    BY <1>1, <1>2, Zenon DEF Pausing
<1>4. QED
    BY <1>3 DEF Pausing, Leave, Run

LEMMA TerminateFields ==
    ASSUME NEW r \in Run, NEW stopped \in BOOLEAN
    PROVE  LET s == Terminate(r, stopped)
           IN  /\ s \in Run
               /\ s.status = "Terminal" /\ s.owner = None
               /\ s.epoch = IF r.status \in Leased THEN r.epoch + 1 ELSE r.epoch
               /\ s.ops = r.ops /\ s.steers = 0 /\ s.open = 0 /\ s.outbox = None
               /\ s.log >= r.log /\ s.delivered = r.delivered
               /\ s.quit = r.quit
               /\ s.finalized = r.finalized
<1> DEFINE l == Leave(r, "Terminal")
           n == l.log + r.open + (IF stopped THEN 1 ELSE 0)
           s == [l EXCEPT !.steers = 0, !.open = 0, !.outbox = None, !.log = n]
<1>1. /\ l \in Run /\ l.status = "Terminal" /\ l.owner = None
      /\ l.epoch = IF r.status \in Leased THEN r.epoch + 1 ELSE r.epoch
      /\ l.ops = r.ops /\ l.log = r.log /\ l.delivered = r.delivered
      /\ l.quit = r.quit /\ l.finalized = r.finalized
    BY LeaveFields, Statuses, Zenon
<1>2. Terminate(r, stopped) = s
    BY Zenon DEF Terminate
<1> HIDE DEF l
<1>3. n \in Nat /\ n >= r.log
  <2>1. l.log \in Nat /\ r.open \in Nat
    BY <1>1 DEF Run
  <2>2. (IF stopped THEN 1 ELSE 0) \in Nat
    OBVIOUS
  <2>3. QED
    BY <1>1, <2>1, <2>2
<1> HIDE DEF n
<1>4. s \in Run
  <2>1. 0 \in 0 .. SteerQueueLimit /\ None \in Kind \union {None}
    BY LimitAssumption
  <2>2. QED
    BY <1>1, <1>3, <2>1 DEF Run
<1>5. /\ s.status = l.status /\ s.owner = l.owner /\ s.epoch = l.epoch
      /\ s.ops = l.ops /\ s.steers = 0 /\ s.open = 0 /\ s.outbox = None
      /\ s.log = n /\ s.delivered = l.delivered /\ s.quit = l.quit
      /\ s.finalized = l.finalized
    BY <1>1 DEF Run
<1> HIDE DEF s
<1>6. QED
    BY <1>1, <1>2, <1>3, <1>4, <1>5, Zenon

LEMMA RemoveRequestFields ==
    ASSUME NEW r \in Run, r.open > 0
    PROVE  LET s == RemoveRequest(r)
           IN  /\ s \in Run
               /\ \/ s.status = r.status /\ s.owner = r.owner
                  \/ r.status = "Waiting" /\ s.status = "Queued" /\ s.owner = None
               /\ s.epoch = r.epoch
               /\ s.ops = r.ops /\ s.steers = r.steers /\ s.outbox = r.outbox
               /\ s.log = r.log + 1 /\ s.delivered = r.delivered
               /\ s.quit = r.quit
               /\ s.finalized = r.finalized
<1> DEFINE l == [r EXCEPT !.open = @ - 1, !.log = @ + 1]
<1>1. l \in Run
  <2>1. r.open - 1 \in Nat /\ r.log + 1 \in Nat
    BY DEF Run
  <2>2. QED
    BY <2>1 DEF Run
<1>2. RemoveRequest(r) \in Run
    BY <1>1, LeaveFields, Statuses, Zenon DEF RemoveRequest
<1>3. /\ l.status = r.status /\ l.owner = r.owner /\ l.epoch = r.epoch
      /\ l.ops = r.ops /\ l.steers = r.steers /\ l.outbox = r.outbox
      /\ l.log = r.log + 1 /\ l.delivered = r.delivered /\ l.finalized = r.finalized
      /\ l.quit = r.quit
    BY DEF Run
<1>4. CASE r.status = "Waiting" /\ l.open = 0
  <2>1. RemoveRequest(r) = Leave(l, "Queued")
    BY <1>4 DEF RemoveRequest
  <2>2. l.status \notin Leased
    BY <1>3, <1>4 DEF Leased
  <2> HIDE DEF l
  <2> DEFINE q == Leave(l, "Queued")
  <2>3. /\ q.status = "Queued" /\ q.owner = None
        /\ q.epoch = IF l.status \in Leased THEN l.epoch + 1 ELSE l.epoch
        /\ q.ops = l.ops /\ q.steers = l.steers /\ q.outbox = l.outbox
        /\ q.log = l.log /\ q.delivered = l.delivered /\ q.finalized = l.finalized
        /\ q.quit = l.quit
    BY <1>1, LeaveFields, Statuses, Zenon
  <2> HIDE DEF q
  <2>4. q.epoch = l.epoch
    BY <2>2, <2>3, Zenon
  <2>5. QED
    BY <1>2, <1>3, <1>4, <2>1, <2>3, <2>4, Zenon DEF q
<1>5. CASE ~(r.status = "Waiting" /\ l.open = 0)
  <2>1. RemoveRequest(r) = l
    BY <1>5 DEF RemoveRequest
  <2> HIDE DEF l
  <2>2. QED
    BY <1>1, <1>2, <1>3, <2>1, Zenon
<1>6. QED
    BY <1>4, <1>5

LEMMA RunFields ==
    ASSUME NEW r \in Run
    PROVE  /\ r.status \in Status /\ r.epoch \in Nat /\ r.owner \in Driver \union {None}
           /\ r.ops \in Seq(Kind) /\ r.pausing \in BOOLEAN /\ r.steers \in Nat
           /\ r.steers <= SteerQueueLimit /\ r.open \in Nat /\ r.requests \in Nat
           /\ r.checkpoints \in Nat /\ r.outbox \in Kind \union {None}
           /\ r.log \in Nat /\ r.delivered \in Nat /\ r.finalized \in BOOLEAN
           /\ r.quit \in Nat /\ Len(r.ops) \in Nat
    BY LimitAssumption DEF Run

LEMMA DraftFields ==
    ASSUME NEW r, Draft(r)
    PROVE  /\ r \in Run /\ r.delivered <= r.log
           /\ r.owner = None <=> r.status \notin Leased
           /\ Len(r.ops) <= setup.ops
           /\ r.outbox # None => Len(r.ops) < setup.ops
           /\ r.status \in {"Operating", "Cancelling"} => Len(r.ops) > 0
           /\ r.finalized => r.status = "Terminal" /\ r.delivered = r.log
    BY DEF Draft

\* A record that leaves its lease, with the operations it had.
LEMMA LeavesOK ==
    ASSUME NEW r, Draft(r), NEW s \in Run,
           s.owner = None, s.status \in Status \ Leased,
           r.epoch <= s.epoch, r.status \in Leased => r.epoch < s.epoch,
           s.ops = r.ops, s.delivered <= s.log,
           s.outbox # None => Len(r.ops) < setup.ops,
           s.finalized = r.finalized, r.status # "Terminal",
           s.status = "Queued" => HasWork(s) \/ s.steers > 0,
           s.status = "Terminal" => s.open = 0,
           r.status = "Cancelling" => s.status = "Terminal"
    PROVE  Moves(r, s)
<1>1. r \in Run
    BY DEF Draft
<1>2. /\ r.epoch \in Nat /\ s.epoch \in Nat /\ Len(r.ops) \in Nat
      /\ r.status \in Status /\ r.owner \in Driver \union {None}
    BY <1>1, RunFields
<1>3. /\ r.owner = None <=> r.status \notin Leased
      /\ Len(r.ops) <= setup.ops
      /\ ~r.finalized
    BY DEF Draft
<1>4. s.status \notin {"Idle", "Operating", "Cancelling"}
    BY DEF Leased
<1>5. RecordOK(s)
    BY <1>3, <1>4 DEF RecordOK, Draft, Leased
<1>6. Follows(r, s)
    BY <1>2, <1>3, <1>4 DEF Follows, Leased
<1>7. Aside(r, s) /\ NothingBegun(r, s)
    BY <1>2, <1>4 DEF Aside, NothingBegun
<1>8. QED
    BY <1>5, <1>6, <1>7 DEF Moves

\* Tx::set_state to a state without a lease.
LEMMA LeaveMoves ==
    ASSUME NEW r, Draft(r), NEW st \in {"Queued", "Waiting"},
           r.status \notin {"Cancelling", "Terminal"},
           st = "Queued" => HasWork(r) \/ r.steers > 0
    PROVE  Moves(r, Leave(r, st))
<1> DEFINE s == Leave(r, st)
<1>1. r \in Run /\ r.delivered <= r.log /\ (r.outbox # None => Len(r.ops) < setup.ops)
    BY DEF Draft
<1>2. st \in Status \ Leased /\ st # "Terminal"
    BY DEF Status, Leased
<1>3. /\ s \in Run /\ s.status = st /\ s.owner = None
      /\ s.epoch = IF r.status \in Leased THEN r.epoch + 1 ELSE r.epoch
      /\ s.ops = r.ops /\ s.steers = r.steers /\ s.outbox = r.outbox
      /\ s.log = r.log /\ s.delivered = r.delivered /\ s.finalized = r.finalized
      /\ s.quit = r.quit
    BY <1>1, <1>2, LeaveFields, Zenon
<1> HIDE DEF s
<1>4. r.epoch <= s.epoch /\ (r.status \in Leased => r.epoch < s.epoch)
    BY <1>1, <1>3, RunFields
<1>5. s.status = "Queued" => HasWork(s) \/ s.steers > 0
    BY <1>3 DEF HasWork, Deliverable
<1>6. Moves(r, s)
    BY <1>1, <1>2, <1>3, <1>4, <1>5, LeavesOK
<1>7. QED
    BY <1>6 DEF s

LEMMA PausingMoves ==
    ASSUME NEW r, Draft(r), r.status \notin {"Cancelling", "Terminal"}
    PROVE  Moves(r, Pausing(r))
<1> DEFINE s == Pausing(r)
<1>1. r \in Run /\ r.delivered <= r.log /\ (r.outbox # None => Len(r.ops) < setup.ops)
    BY DEF Draft
<1>2. /\ s \in Run /\ s.status = "Paused" /\ s.owner = None
      /\ s.epoch = IF r.status \in Leased THEN r.epoch + 1 ELSE r.epoch
      /\ s.ops = r.ops /\ s.outbox = r.outbox
      /\ s.log = r.log /\ s.delivered = r.delivered /\ s.finalized = r.finalized
      /\ s.quit = r.quit
    BY <1>1, PausingFields, Zenon
<1> HIDE DEF s
<1>3. r.epoch <= s.epoch /\ (r.status \in Leased => r.epoch < s.epoch)
    BY <1>1, <1>2, RunFields
<1>4. s.status \in Status \ Leased /\ s.status # "Queued" /\ s.status # "Terminal"
    BY <1>2 DEF Status, Leased
<1>5. Moves(r, s)
    BY <1>1, <1>2, <1>3, <1>4, LeavesOK
<1>6. QED
    BY <1>5 DEF s

LEMMA TerminateMoves ==
    ASSUME NEW r, Draft(r), r.status # "Terminal", NEW stopped \in BOOLEAN
    PROVE  Moves(r, Terminate(r, stopped))
<1> DEFINE s == Terminate(r, stopped)
<1>1. r \in Run /\ r.delivered <= r.log
    BY DEF Draft
<1>2. /\ s \in Run /\ s.status = "Terminal" /\ s.owner = None
      /\ s.epoch = IF r.status \in Leased THEN r.epoch + 1 ELSE r.epoch
      /\ s.ops = r.ops /\ s.outbox = None /\ s.open = 0
      /\ s.log >= r.log /\ s.delivered = r.delivered /\ s.finalized = r.finalized
      /\ s.quit = r.quit
    BY <1>1, TerminateFields, Zenon
<1> HIDE DEF s
<1>3. r.epoch <= s.epoch /\ (r.status \in Leased => r.epoch < s.epoch)
    BY <1>1, <1>2, RunFields
<1>4. s.status \in Status \ Leased /\ s.status # "Queued"
    BY <1>2 DEF Status, Leased
<1>5. s.delivered <= s.log
    BY <1>1, <1>2, RunFields
<1>6. Moves(r, s)
    BY <1>1, <1>2, <1>3, <1>4, <1>5, LeavesOK
<1>7. QED
    BY <1>6 DEF s

\* A record that stays where it is, under its lease if it has one.
LEMMA StaysOK ==
    ASSUME NEW r, Draft(r), NEW s \in Run,
           s.status = r.status, s.owner = r.owner, s.epoch = r.epoch,
           s.ops = r.ops, s.outbox = r.outbox, s.delivered <= s.log,
           s.finalized => s.status = "Terminal" /\ s.delivered = s.log,
           s.status = "Terminal" => s.open = 0,
           s.status \in {"Queued", "Idle"} => HasWork(s) \/ s.steers > 0,
           r.status \in Leased /\ HasWork(r) => HasWork(s)
    PROVE  Moves(r, s)
<1>1. r \in Run
    BY DEF Draft
<1>2. r.epoch \in Nat /\ Len(r.ops) \in Nat
    BY <1>1, RunFields
<1>3. RecordOK(s)
    BY DEF RecordOK, Draft
<1>4. Follows(r, s) /\ NothingBegun(r, s) /\ Aside(r, s)
    BY <1>2 DEF Follows, NothingBegun, Aside
<1>5. QED
    BY <1>3, <1>4 DEF Moves

LEMMA RemoveRequestMoves ==
    ASSUME NEW r, Draft(r), r.open > 0
    PROVE  Moves(r, RemoveRequest(r)) /\ HasWork(RemoveRequest(r))
<1> DEFINE s == RemoveRequest(r)
<1>1. /\ r \in Run /\ r.delivered <= r.log /\ (r.outbox # None => Len(r.ops) < setup.ops)
      /\ r.status # "Terminal" /\ (r.finalized => r.status = "Terminal")
    BY DEF Draft
<1>2. /\ s \in Run
      /\ \/ s.status = r.status /\ s.owner = r.owner
         \/ r.status = "Waiting" /\ s.status = "Queued" /\ s.owner = None
      /\ s.epoch = r.epoch
      /\ s.ops = r.ops /\ s.outbox = r.outbox
      /\ s.log = r.log + 1 /\ s.delivered = r.delivered /\ s.finalized = r.finalized
      /\ s.quit = r.quit
    BY <1>1, RemoveRequestFields, Zenon
<1> HIDE DEF s
<1>3. s.delivered < s.log /\ r.epoch \in Nat
    BY <1>1, <1>2, RunFields
<1>4. HasWork(s) /\ s.delivered <= s.log
    BY <1>1, <1>2, <1>3, RunFields DEF HasWork, Deliverable
<1>5. CASE s.status = r.status /\ s.owner = r.owner
    BY <1>1, <1>2, <1>4, <1>5, StaysOK DEF s
<1>6. CASE r.status = "Waiting" /\ s.status = "Queued" /\ s.owner = None
  <2>1. s.status \in Status \ Leased /\ r.status \notin Leased
    BY <1>6 DEF Status, Leased
  <2>2. Moves(r, s)
    BY <1>1, <1>2, <1>3, <1>4, <1>6, <2>1, LeavesOK
  <2>3. QED
    BY <1>4, <2>2 DEF s
<1>7. QED
    BY <1>2, <1>5, <1>6

\* A steer, and a waiting run that it wakes (control_apply.rs:steer).
LEMMA SteerMoves ==
    ASSUME NEW r, RecordOK(r), r.status \notin {"Cancelling", "Terminal"},
           r.steers < SteerQueueLimit
    PROVE  LET queued == [r EXCEPT !.steers = @ + 1]
           IN  Moves(r, IF r.status = "Waiting" THEN Leave(queued, "Queued") ELSE queued)
<1> DEFINE q == [r EXCEPT !.steers = @ + 1]
<1>1. r \in Run /\ Draft(r)
    BY DEF RecordOK, Draft
<1>2. r.steers + 1 \in 0 .. SteerQueueLimit /\ r.steers + 1 > 0
    BY <1>1, RunFields, LimitAssumption
<1>3. q \in Run
    BY <1>1, <1>2 DEF Run
<1>4. /\ q.status = r.status /\ q.owner = r.owner /\ q.epoch = r.epoch
      /\ q.ops = r.ops /\ q.outbox = r.outbox /\ q.delivered = r.delivered
      /\ q.quit = r.quit
      /\ q.log = r.log /\ q.open = r.open /\ q.finalized = r.finalized
      /\ q.steers = r.steers + 1
    BY <1>1 DEF Run
<1> HIDE DEF q
<1>5. /\ q.delivered <= q.log /\ (r.finalized => r.status = "Terminal")
      /\ q.steers > 0 /\ (HasWork(r) => HasWork(q))
    BY <1>1, <1>2, <1>4 DEF Draft, HasWork, Deliverable
<1>6. Moves(r, q)
    BY <1>1, <1>3, <1>4, <1>5, StaysOK
<1>7. CASE r.status = "Waiting"
  <2>1. Draft(q)
    BY <1>6 DEF Moves, RecordOK
  <2>2. Moves(q, Leave(q, "Queued"))
    BY <1>4, <1>5, <1>7, <2>1, LeaveMoves
  <2> DEFINE s == Leave(q, "Queued")
  <2> HIDE DEF s
  <2>3. Moves(q, s)
    BY <2>2 DEF s
  <2>4. Moves(r, s)
    BY <1>4, <1>7, <2>3 DEF Moves, Follows, Aside, NothingBegun, Leased
  <2>5. QED
    BY <1>7, <2>4 DEF q, s
<1>8. CASE r.status # "Waiting"
    BY <1>6, <1>8 DEF q
<1>9. QED
    BY <1>7, <1>8

\* The first half of a stop, while an operation is in flight.
LEMMA StopMoves ==
    ASSUME NEW r, RecordOK(r), r.status = "Operating"
    PROVE  Moves(r, [r EXCEPT !.status = "Cancelling", !.pausing = FALSE])
<1> DEFINE s == [r EXCEPT !.status = "Cancelling", !.pausing = FALSE]
<1>1. r \in Run /\ Draft(r)
    BY DEF RecordOK, Draft
<1>2. s \in Run
    BY <1>1, Statuses DEF Run
<1>3. /\ s.status = "Cancelling" /\ s.owner = r.owner /\ s.epoch = r.epoch
      /\ s.ops = r.ops /\ s.outbox = r.outbox /\ s.delivered = r.delivered
      /\ s.quit = r.quit
      /\ s.log = r.log /\ s.open = r.open /\ s.finalized = r.finalized
    BY <1>1 DEF Run
<1>4. r.epoch \in Nat /\ Len(r.ops) \in Nat
    BY <1>1, RunFields
<1> HIDE DEF s
<1>5. RecordOK(s)
    BY <1>1, <1>2, <1>3 DEF RecordOK, Draft, Leased
<1>6. Follows(r, s) /\ NothingBegun(r, s) /\ Aside(r, s)
    BY <1>3, <1>4 DEF Follows, NothingBegun, Aside, HasWork, Deliverable
<1>7. Moves(r, s)
    BY <1>5, <1>6 DEF Moves
<1>8. QED
    BY <1>7 DEF s

\* A pause that is accepted for the next boundary.
LEMMA PauseSetMoves ==
    ASSUME NEW r, RecordOK(r), r.status = "Operating"
    PROVE  Moves(r, [r EXCEPT !.pausing = TRUE])
<1> DEFINE s == [r EXCEPT !.pausing = TRUE]
<1>1. r \in Run /\ Draft(r)
    BY DEF RecordOK, Draft
<1>2. s \in Run
    BY <1>1 DEF Run
<1>3. /\ s.status = r.status /\ s.owner = r.owner /\ s.epoch = r.epoch
      /\ s.ops = r.ops /\ s.outbox = r.outbox /\ s.delivered = r.delivered
      /\ s.quit = r.quit
      /\ s.log = r.log /\ s.open = r.open /\ s.finalized = r.finalized
    BY <1>1 DEF Run
<1> HIDE DEF s
<1>4. s.delivered <= s.log /\ ~s.finalized /\ (HasWork(r) => HasWork(s))
    BY <1>1, <1>3 DEF Draft, HasWork, Deliverable
<1>5. Moves(r, s)
    BY <1>1, <1>2, <1>3, <1>4, StaysOK
<1>6. QED
    BY <1>5 DEF s

LEMMA ResumeMoves ==
    ASSUME NEW r, RecordOK(r), r.status = "Paused"
    PROVE  Moves(r, [Leave(r, "Queued") EXCEPT !.log = @ + 1])
<1> DEFINE l == Leave(r, "Queued")
           s == [l EXCEPT !.log = @ + 1]
<1>1. r \in Run /\ Draft(r) /\ r.delivered <= r.log
    BY DEF RecordOK, Draft
<1>2. r.status \notin Leased
    BY DEF Leased
<1>3. /\ l \in Run /\ l.status = "Queued" /\ l.owner = None
      /\ l.epoch = IF r.status \in Leased THEN r.epoch + 1 ELSE r.epoch
      /\ l.ops = r.ops /\ l.outbox = r.outbox
      /\ l.log = r.log /\ l.delivered = r.delivered /\ l.finalized = r.finalized
      /\ l.quit = r.quit
    BY <1>1, LeaveFields, Statuses, Zenon
<1> HIDE DEF l
<1>4. s \in Run
  <2>1. l.log + 1 \in Nat
    BY <1>3, RunFields
  <2>2. QED
    BY <1>3, <2>1 DEF Run
<1>5. /\ s.status = l.status /\ s.owner = l.owner /\ s.epoch = l.epoch
      /\ s.ops = l.ops /\ s.outbox = l.outbox /\ s.delivered = l.delivered
      /\ s.quit = l.quit
      /\ s.log = l.log + 1 /\ s.finalized = l.finalized
    BY <1>3 DEF Run
<1> HIDE DEF s
<1>6. r.epoch <= s.epoch /\ s.delivered < s.log /\ s.delivered <= s.log
    BY <1>1, <1>2, <1>3, <1>5, RunFields
<1>7. s.status \in Status \ Leased /\ HasWork(s)
    BY <1>3, <1>5, <1>6 DEF Status, Leased, HasWork, Deliverable
<1>8. Moves(r, s)
    BY <1>1, <1>2, <1>3, <1>4, <1>5, <1>6, <1>7, LeavesOK DEF Draft
<1>9. QED
    BY <1>8 DEF s, l

\* consume_steers: the reducer is to see each of them.
LEMMA ConsumeMoves ==
    ASSUME NEW r, RecordOK(r), r.status = "Idle"
    PROVE  LET s == [r EXCEPT !.log = @ + r.steers, !.steers = 0]
           IN  Moves(r, s) /\ HasWork(s)
<1> DEFINE s == [r EXCEPT !.log = @ + r.steers, !.steers = 0]
<1>1. r \in Run /\ Draft(r) /\ r.delivered <= r.log
    BY DEF RecordOK, Draft
<1>2. r.log + r.steers \in Nat /\ 0 \in 0 .. SteerQueueLimit
    BY <1>1, RunFields, LimitAssumption
<1>3. s \in Run
    BY <1>1, <1>2 DEF Run
<1>4. /\ s.status = r.status /\ s.owner = r.owner /\ s.epoch = r.epoch
      /\ s.ops = r.ops /\ s.outbox = r.outbox /\ s.delivered = r.delivered
      /\ s.quit = r.quit
      /\ s.log = r.log + r.steers /\ s.finalized = r.finalized
    BY <1>1 DEF Run
<1> HIDE DEF s
<1>5. r.log \in Nat /\ r.delivered \in Nat /\ r.steers \in Nat
    BY <1>1, RunFields
<1>6. HasWork(s)
    BY <1>1, <1>4, <1>5 DEF RecordOK, HasWork, Deliverable
<1>7. s.delivered <= s.log /\ ~s.finalized
    BY <1>1, <1>4, <1>5 DEF Draft
<1>8. Moves(r, s)
    BY <1>1, <1>3, <1>4, <1>6, <1>7, StaysOK
<1>9. QED
    BY <1>6, <1>8 DEF s

\* acquire, by node d.
LEMMA AcquireMoves ==
    ASSUME NEW r, RecordOK(r), r.status = "Queued", NEW d \in Driver
    PROVE  LET s == [r EXCEPT !.status = "Idle", !.owner = d, !.epoch = @ + 1]
           IN  Moves(r, s) /\ s.epoch = r.epoch + 1 /\ s.status = "Idle"
               /\ s.steers = r.steers
<1> DEFINE s == [r EXCEPT !.status = "Idle", !.owner = d, !.epoch = @ + 1]
<1>1. r \in Run /\ Draft(r)
    BY DEF RecordOK, Draft
<1>2. r.epoch \in Nat /\ r.epoch + 1 \in Nat /\ Len(r.ops) \in Nat
      /\ d \in Driver \union {None} /\ d # None
    BY <1>1, RunFields, NoneAssumption
<1>3. s \in Run
    BY <1>1, <1>2, Statuses DEF Run
<1>4. /\ s.status = "Idle" /\ s.owner = d /\ s.epoch = r.epoch + 1
      /\ s.ops = r.ops /\ s.outbox = r.outbox /\ s.delivered = r.delivered
      /\ s.quit = r.quit
      /\ s.log = r.log /\ s.finalized = r.finalized /\ s.steers = r.steers
    BY <1>1 DEF Run
<1> HIDE DEF s
<1>5. RecordOK(s)
    BY <1>1, <1>2, <1>3, <1>4 DEF RecordOK, Draft, HasWork, Deliverable, Leased
<1>6. Follows(r, s) /\ NothingBegun(r, s) /\ Aside(r, s)
    BY <1>2, <1>4 DEF Follows, NothingBegun, Aside, Leased
<1>7. QED
    BY <1>4, <1>5, <1>6 DEF Moves, s

\* A transition from a record that was changed first, in its log and requests.
LEMMA MovesFrom ==
    ASSUME NEW r, NEW l, NEW s, Moves(l, s),
           l.status = r.status, l.owner = r.owner, l.epoch = r.epoch, l.ops = r.ops
    PROVE  RecordOK(s) /\ Follows(r, s) /\ NothingBegun(r, s)
    BY DEF Moves, Follows, NothingBegun

\* One delivery of finalize_domain.
LEMMA DeliveredMoves ==
    ASSUME NEW r, RecordOK(r), r.status = "Terminal"
    PROVE  Moves(r, Delivered(r))
<1> DEFINE s == Delivered(r)
<1>1. r \in Run /\ Draft(r) /\ r.delivered <= r.log
    BY DEF RecordOK, Draft
<1>2. r.log \in Nat /\ r.delivered \in Nat /\ r.delivered + 1 \in Nat
    BY <1>1, RunFields
<1>3. s \in Run
  <2>1. [r EXCEPT !.delivered = @ + 1, !.finalized = r.delivered + 1 = r.log] \in Run
    <3>1. (r.delivered + 1 = r.log) \in BOOLEAN
      OBVIOUS
    <3>2. QED
      BY <1>1, <1>2, <3>1 DEF Run
  <2>2. [r EXCEPT !.finalized = TRUE] \in Run
    BY <1>1 DEF Run
  <2>3. QED
    BY <2>1, <2>2, Zenon DEF Delivered
<1>4. /\ s.status = r.status /\ s.owner = r.owner /\ s.epoch = r.epoch
      /\ s.ops = r.ops /\ s.outbox = r.outbox /\ s.log = r.log /\ s.open = r.open
    BY <1>1 DEF Run, Delivered
<1>5. s.delivered <= s.log /\ (s.finalized => s.delivered = s.log)
  <2>1. CASE r.delivered < r.log
    <3>1. s = [r EXCEPT !.delivered = @ + 1, !.finalized = r.delivered + 1 = r.log]
      BY <2>1 DEF Delivered
    <3>2. /\ s.delivered = r.delivered + 1 /\ s.log = r.log
          /\ s.finalized = (r.delivered + 1 = r.log)
      BY <1>1, <3>1 DEF Run
    <3> HIDE DEF s
    <3>3. s.finalized => s.delivered = s.log
      BY <3>2, Zenon
    <3>4. s.delivered <= s.log
      BY <1>2, <2>1, <3>2
    <3>5. QED
      BY <3>3, <3>4
  <2>2. CASE ~(r.delivered < r.log)
    <3>1. s.delivered = r.delivered /\ s.log = r.log
      BY <1>1, <2>2 DEF Delivered, Run
    <3>2. QED
      BY <1>1, <1>2, <2>2, <3>1
  <2>3. QED
    BY <2>1, <2>2
<1> HIDE DEF s
<1>6. s.open = 0 /\ r.status \notin Leased
    BY <1>1, <1>4 DEF Draft, Leased
<1>7. Moves(r, s)
    BY <1>1, <1>3, <1>4, <1>5, <1>6, StaysOK
<1>8. QED
    BY <1>7 DEF s

\* apply_finish leaves work for the next boundary, unless the run stops.
LEMMA FinishedOK ==
    ASSUME NEW r, RecordOK(r), r.status \in {"Operating", "Cancelling"}, NEW outcome,
           outcome \notin {"done", "waiting"} => r.status = "Cancelling"
    PROVE  LET s == Finished(r, outcome)
           IN  RecordOK(s) /\ Follows(r, s) /\ NothingBegun(r, s) /\ s.status # "Operating"
<1> DEFINE told == IF outcome = "done" THEN 1 ELSE 0
           opens == IF outcome = "waiting" THEN 1 ELSE 0
           c == [r EXCEPT !.log = @ + told, !.open = opens, !.requests = @ + opens]
           l == [r EXCEPT !.log = @ + told + 1]
<1>1. /\ r \in Run /\ Draft(r) /\ r.delivered <= r.log /\ r.finalized = FALSE
      /\ Len(r.ops) > 0
    BY RunFields DEF RecordOK, Draft
<1>2. /\ r.log + told \in Nat /\ r.log + told + 1 \in Nat /\ opens \in Nat
      /\ r.requests + opens \in Nat /\ r.delivered \in Nat /\ r.log \in Nat
      /\ r.delivered <= r.log + told /\ r.delivered <= r.log + told + 1
    BY <1>1, RunFields
<1>3. l \in Run /\ c \in Run
    BY <1>1, <1>2 DEF Run
<1>4. /\ l.status = r.status /\ l.owner = r.owner /\ l.epoch = r.epoch
      /\ l.ops = r.ops /\ l.outbox = r.outbox /\ l.delivered = r.delivered
      /\ l.quit = r.quit
      /\ l.log = r.log + told + 1 /\ l.finalized = r.finalized
      /\ c.status = r.status /\ c.owner = r.owner /\ c.epoch = r.epoch
      /\ c.ops = r.ops /\ c.outbox = r.outbox /\ c.delivered = r.delivered
      /\ c.quit = r.quit
      /\ c.log = r.log + told /\ c.finalized = r.finalized
    BY <1>1 DEF Run
<1>5. (outcome = "done" => c.delivered < c.log) /\ (outcome # "done" => told = 0)
    BY <1>1, <1>2, <1>4
<1>6. CASE r.status = "Cancelling"
  <2>1. Finished(r, outcome) = Terminate(l, TRUE)
    BY <1>6 DEF Finished
  <2> HIDE DEF l, told, opens
  <2>2. Draft(l)
    BY <1>1, <1>2, <1>3, <1>4, <1>6 DEF Draft
  <2>3. Moves(l, Terminate(l, TRUE))
    BY <1>4, <1>6, <2>2, TerminateMoves
  <2> DEFINE s == Terminate(l, TRUE)
  <2>4. s.status = "Terminal"
    BY <1>3, TerminateFields, Zenon
  <2> HIDE DEF s
  <2>5. Moves(l, s)
    BY <2>3 DEF s
  <2>6. QED
    BY <1>4, <2>1, <2>4, <2>5, MovesFrom DEF s
<1>7. CASE r.status = "Operating"
  <2> HIDE DEF l
  <2>1. Draft(c)
    <3> HIDE DEF c, told, opens
    <3>1. QED
      BY <1>1, <1>2, <1>3, <1>4, <1>7 DEF Draft
  <2>2. CASE r.pausing
    <3>1. Finished(r, outcome) = Pausing(c)
      BY <1>7, <2>2 DEF Finished
    <3> HIDE DEF c, told, opens
    <3>2. Moves(c, Pausing(c))
      BY <1>4, <1>7, <2>1, PausingMoves
    <3> DEFINE s == Pausing(c)
    <3>3. s.status = "Paused"
      BY <1>3, PausingFields, Zenon
    <3> HIDE DEF s
    <3>4. Moves(c, s)
      BY <3>2 DEF s
    <3>5. QED
      BY <1>4, <3>1, <3>3, <3>4, MovesFrom DEF s
  <2>3. CASE ~r.pausing /\ outcome = "waiting"
    <3>1. Finished(r, outcome) = Leave(c, "Waiting")
      BY <1>7, <2>3 DEF Finished
    <3> HIDE DEF c, told, opens
    <3>2. Moves(c, Leave(c, "Waiting"))
      BY <1>4, <1>7, <2>1, LeaveMoves
    <3> DEFINE s == Leave(c, "Waiting")
    <3>3. s.status = "Waiting"
      BY <1>3, LeaveFields, Statuses, Zenon
    <3> HIDE DEF s
    <3>4. Moves(c, s)
      BY <3>2 DEF s
    <3>5. QED
      BY <1>4, <3>1, <3>3, <3>4, MovesFrom DEF s
  <2>4. CASE ~r.pausing /\ outcome # "waiting"
    <3> DEFINE s == [c EXCEPT !.status = "Idle"]
    <3>1. Finished(r, outcome) = s
      BY <1>7, <2>4 DEF Finished
    <3> HIDE DEF c, told, opens
    <3>2. s \in Run
      BY <1>3, Statuses DEF Run
    <3>3. /\ s.status = "Idle" /\ s.owner = c.owner /\ s.epoch = c.epoch
          /\ s.ops = c.ops /\ s.outbox = c.outbox /\ s.delivered = c.delivered
          /\ s.quit = c.quit
          /\ s.log = c.log /\ s.finalized = c.finalized
      BY <1>3 DEF Run
    <3> HIDE DEF s
    <3>4. HasWork(s)
      BY <1>5, <1>7, <2>4, <3>3 DEF HasWork, Deliverable
    <3>5. RecordOK(s)
      BY <1>4, <1>7, <2>1, <3>2, <3>3, <3>4 DEF RecordOK, Draft, Leased
    <3>6. r.epoch \in Nat /\ Len(r.ops) \in Nat
      BY <1>1, RunFields
    <3>7. Follows(r, s) /\ NothingBegun(r, s)
      BY <1>4, <1>7, <3>3, <3>6 DEF Follows, NothingBegun
    <3>8. QED
      BY <3>1, <3>3, <3>5, <3>7
  <2>5. QED
    BY <2>2, <2>3, <2>4
<1>8. QED
    BY <1>6, <1>7

\* apply_takeover: only an operation that may be repeated goes on.
LEMMA TakenOverMoves ==
    ASSUME NEW r, RecordOK(r), r.status \in Leased, NEW d \in Driver
    PROVE  LET s == TakenOver(r, d)
           IN  /\ Moves(r, s)
               /\ s.owner = d =>
                    /\ s.epoch = r.epoch + 1
                    /\ s.ops[Len(s.ops)].replay_safe
<1> DEFINE t == [r EXCEPT !.epoch = @ + 1, !.log = @ + 1]
           u == [r EXCEPT !.epoch = @ + 1, !.owner = d]
<1>1. r \in Run /\ Draft(r) /\ r.delivered <= r.log /\ r.finalized = FALSE
    BY RunFields DEF RecordOK, Draft, Leased
<1>2. /\ r.epoch \in Nat /\ r.epoch + 1 \in Nat /\ r.log + 1 \in Nat
      /\ r.log \in Nat /\ r.delivered \in Nat /\ Len(r.ops) \in Nat
      /\ d \in Driver \union {None} /\ d # None
    BY <1>1, RunFields, NoneAssumption
<1>3. t \in Run /\ u \in Run
    BY <1>1, <1>2 DEF Run
<1>4. /\ t.status = r.status /\ t.owner = r.owner /\ t.epoch = r.epoch + 1
      /\ t.ops = r.ops /\ t.outbox = r.outbox /\ t.delivered = r.delivered
      /\ t.quit = r.quit
      /\ t.log = r.log + 1 /\ t.finalized = r.finalized
      /\ u.status = r.status /\ u.owner = d /\ u.epoch = r.epoch + 1
      /\ u.ops = r.ops /\ u.outbox = r.outbox /\ u.delivered = r.delivered
      /\ u.quit = r.quit
      /\ u.log = r.log /\ u.finalized = r.finalized
    BY <1>1 DEF Run
<1>5. t.delivered < t.log /\ t.delivered <= t.log /\ r.epoch < t.epoch
    BY <1>1, <1>2, <1>4
<1>6. ASSUME NEW s, Moves(t, s), s.owner = None
      PROVE  Moves(r, s)
  <2>1. t.epoch <= s.epoch /\ s.epoch \in Nat /\ RecordOK(s) /\ NothingBegun(t, s)
        /\ s.ops = r.ops
    BY <1>4, <1>6, RunFields DEF Moves, Follows, RecordOK, Draft, NothingBegun
  <2>2. s.status \notin Leased /\ s.status # "Operating"
    BY <1>6, <2>1 DEF RecordOK, Draft, Leased
  <2>3. Follows(r, s)
    BY <1>2, <1>4, <1>6, <2>1 DEF Moves, Follows
  <2>4. Aside(r, s) /\ NothingBegun(r, s)
    BY <1>2, <1>4, <2>1, <2>2 DEF Aside, NothingBegun
  <2>5. QED
    BY <2>1, <2>3, <2>4 DEF Moves
<1>7. CASE r.status = "Cancelling"
  <2>1. TakenOver(r, d) = Terminate(t, TRUE)
    BY <1>7 DEF TakenOver
  <2> HIDE DEF t, u
  <2>2. Draft(t)
    BY <1>1, <1>3, <1>4, <1>5, <1>7 DEF Draft
  <2> DEFINE s == Terminate(t, TRUE)
  <2>3. Moves(t, s)
    BY <1>4, <1>7, <2>2, TerminateMoves
  <2>4. s.owner = None
    BY <1>3, TerminateFields, Zenon
  <2> HIDE DEF s
  <2>5. QED
    BY <1>2, <1>6, <2>1, <2>3, <2>4 DEF s
<1>8. CASE r.status = "Operating" /\ r.ops[Len(r.ops)].replay_safe
  <2>1. TakenOver(r, d) = u
    BY <1>8 DEF TakenOver, InFlight
  <2> HIDE DEF t, u
  <2>2. RecordOK(u)
    BY <1>1, <1>2, <1>3, <1>4, <1>8 DEF RecordOK, Draft, Leased
  <2>3. Follows(r, u) /\ NothingBegun(r, u) /\ Aside(r, u)
    BY <1>2, <1>4, <1>8 DEF Follows, NothingBegun, Aside
  <2>4. QED
    BY <1>4, <1>8, <2>1, <2>2, <2>3 DEF Moves
<1>9. CASE r.status = "Operating" /\ ~r.ops[Len(r.ops)].replay_safe
  <2>1. TakenOver(r, d) = Leave(t, "Queued")
    BY <1>9 DEF TakenOver, InFlight
  <2> HIDE DEF t, u
  <2>2. Draft(t) /\ HasWork(t)
    BY <1>1, <1>3, <1>4, <1>5, <1>9 DEF Draft, HasWork, Deliverable
  <2> DEFINE s == Leave(t, "Queued")
  <2>3. Moves(t, s)
    BY <1>4, <1>9, <2>2, LeaveMoves
  <2>4. s.owner = None
    BY <1>3, LeaveFields, Statuses, Zenon
  <2> HIDE DEF s
  <2>5. QED
    BY <1>2, <1>6, <2>1, <2>3, <2>4 DEF s
<1>10. CASE r.status = "Idle"
  <2>1. TakenOver(r, d) = Leave(r, "Queued")
    BY <1>10 DEF TakenOver
  <2>2. HasWork(r) \/ r.steers > 0
    BY <1>10 DEF RecordOK
  <2> DEFINE s == Leave(r, "Queued")
  <2>3. Moves(r, s)
    BY <1>1, <1>10, <2>2, LeaveMoves
  <2>4. s.owner = None
    BY <1>1, LeaveFields, Statuses, Zenon
  <2> HIDE DEF s
  <2>5. QED
    BY <1>2, <2>1, <2>3, <2>4 DEF s
<1>11. QED
    BY <1>7, <1>8, <1>9, <1>10 DEF Leased

\* A commit of the holder that begins an operation.
Begins(r, s) ==
    /\ r.status = "Idle" /\ s.status = "Operating"
    /\ s.epoch = r.epoch /\ s.owner = r.owner
    /\ Len(s.ops) = Len(r.ops) + 1 /\ Len(s.ops) <= setup.ops
    /\ \A o \in 1 .. Len(r.ops) : s.ops[o] = r.ops[o]

\* A commit of the holder at a boundary.
BoundaryMoves(r, s) ==
    /\ RecordOK(s)
    /\ Follows(r, s)
    /\ NothingBegun(r, s) \/ Begins(r, s)

LEMMA OperateMoves ==
    ASSUME NEW r, Draft(r), r.status = "Idle", Len(r.ops) < setup.ops,
           NEW k \in Kind, NEW s \in Operate(r, k), setup.ops \in Nat
    PROVE  BoundaryMoves(r, s)
<1>1. r \in Run /\ r.delivered <= r.log /\ r.finalized = FALSE /\ r.owner # None
    BY RunFields DEF Draft, Leased
<1>2. /\ r.ops \in Seq(Kind) /\ Append(r.ops, k) \in Seq(Kind)
      /\ Len(Append(r.ops, k)) = Len(r.ops) + 1
      /\ \A o \in 1 .. Len(r.ops) : Append(r.ops, k)[o] = r.ops[o]
      /\ Len(r.ops) \in Nat /\ r.epoch \in Nat
      /\ r.delivered \in Nat /\ r.log \in Nat /\ r.log + 1 \in Nat
    BY <1>1, RunFields
<1>3. CASE s = Begin(r, k)
  <2>1. s \in Run
    <3>1. None \in Kind \union {None}
      OBVIOUS
    <3>2. QED
      BY <1>1, <1>2, <1>3, <3>1, Statuses DEF Begin, Run
  <2>2. /\ s.status = "Operating" /\ s.owner = r.owner /\ s.epoch = r.epoch
        /\ s.ops = Append(r.ops, k) /\ s.outbox = None /\ s.delivered = r.delivered
        /\ s.quit = r.quit
        /\ s.log = r.log /\ s.finalized = r.finalized
    BY <1>1, <1>3 DEF Begin, Run
  <2>3. Len(s.ops) = Len(r.ops) + 1 /\ Len(s.ops) <= setup.ops /\ Len(s.ops) > 0
        /\ \A o \in 1 .. Len(r.ops) : s.ops[o] = r.ops[o]
    BY <1>2, <2>2
  <2>4. RecordOK(s)
    BY <1>1, <2>1, <2>2, <2>3 DEF RecordOK, Draft, Leased
  <2>5. Follows(r, s)
    BY <1>2, <2>2, <2>3 DEF Follows
  <2>6. Begins(r, s)
    BY <2>2, <2>3 DEF Begins
  <2>7. QED
    BY <2>4, <2>5, <2>6 DEF BoundaryMoves
<1>4. CASE s = OverBudget(r, k)
  <2> DEFINE l == [r EXCEPT !.outbox = k, !.log = @ + 1]
  <2>1. l \in Run
    <3>1. k \in Kind \union {None}
      OBVIOUS
    <3>2. QED
      BY <1>1, <1>2, <3>1 DEF Run
  <2>2. /\ l.status = r.status /\ l.owner = r.owner /\ l.epoch = r.epoch
        /\ l.ops = r.ops /\ l.outbox = k /\ l.delivered = r.delivered
        /\ l.quit = r.quit
        /\ l.log = r.log + 1 /\ l.finalized = r.finalized
    BY <1>1 DEF Run
  <2> HIDE DEF l
  <2>3. Draft(l)
    BY <1>1, <1>2, <2>1, <2>2 DEF Draft, Leased
  <2>4. Moves(l, Pausing(l))
    BY <2>2, <2>3, PausingMoves
  <2>5. s = Pausing(l)
    BY <1>4 DEF OverBudget, l
  <2>6. QED
    BY <2>2, <2>4, <2>5, MovesFrom DEF BoundaryMoves
<1>5. QED
    BY <1>3, <1>4 DEF Operate

LEMMA EffectsMove ==
    ASSUME NEW r, Draft(r), r.status = "Idle", NEW s \in Effects(r), setup \in Setup
    PROVE  BoundaryMoves(r, s)
<1>1. r \in Run /\ r.delivered <= r.log /\ r.finalized = FALSE /\ r.owner # None
    BY RunFields DEF Draft, Leased
<1>2. setup.kinds \subseteq Kind /\ setup.ops \in Nat
    BY DEF Setup
<1>3. CASE s = Terminate(r, FALSE)
    BY <1>3, TerminateMoves DEF Moves, BoundaryMoves
<1>4. ASSUME NEW k \in setup.kinds, Len(r.ops) < setup.ops, s \in Operate(r, k)
      PROVE  BoundaryMoves(r, s)
    BY <1>2, <1>4, OperateMoves
<1>5. CASE s = Leave([r EXCEPT !.open = @ + 1, !.requests = @ + 1], "Waiting")
  <2> DEFINE l == [r EXCEPT !.open = @ + 1, !.requests = @ + 1]
  <2>1. l \in Run
    <3>1. r.open + 1 \in Nat /\ r.requests + 1 \in Nat
      BY <1>1, RunFields
    <3>2. QED
      BY <1>1, <3>1 DEF Run
  <2>2. /\ l.status = r.status /\ l.owner = r.owner /\ l.epoch = r.epoch
        /\ l.ops = r.ops /\ l.outbox = r.outbox /\ l.delivered = r.delivered
        /\ l.quit = r.quit
        /\ l.log = r.log /\ l.finalized = r.finalized
    BY <1>1 DEF Run
  <2> HIDE DEF l
  <2>3. Draft(l)
    BY <1>1, <2>1, <2>2 DEF Draft, Leased
  <2>4. Moves(l, Leave(l, "Waiting"))
    BY <2>2, <2>3, LeaveMoves
  <2>5. s = Leave(l, "Waiting")
    BY <1>5 DEF l
  <2>6. QED
    BY <2>2, <2>4, <2>5, MovesFrom DEF BoundaryMoves
<1>6. CASE s = Leave(r, "Waiting")
    BY <1>6, LeaveMoves DEF Moves, BoundaryMoves
<1>7. CASE s = DoesNothing(r)
  <2>1. r.log \in Nat /\ r.quit \in Nat /\ r.delivered \in Nat /\ Len(r.ops) \in Nat
        /\ r.epoch \in Nat
    BY <1>1, RunFields
  <2>2. s \in Run
    BY <1>1, <1>7, <2>1 DEF DoesNothing, Run
  <2>3. /\ s.status = r.status /\ s.owner = r.owner /\ s.epoch = r.epoch
        /\ s.ops = r.ops /\ s.outbox = r.outbox /\ s.delivered = r.delivered
        /\ s.log = r.log /\ s.finalized = r.finalized
        /\ s.quit = IF r.delivered = r.log THEN r.log ELSE r.quit
    BY <1>1, <1>7 DEF DoesNothing, Run
  <2>4. HasWork(s)
    BY <1>1, <2>1, <2>3 DEF HasWork, Deliverable
  <2>5. RecordOK(s)
    BY <1>1, <2>2, <2>3, <2>4 DEF RecordOK, Draft, Leased
  <2>6. Follows(r, s) /\ NothingBegun(r, s)
    BY <2>1, <2>3 DEF Follows, NothingBegun
  <2>7. QED
    BY <2>5, <2>6 DEF BoundaryMoves
<1>8. QED
    BY <1>3, <1>4, <1>5, <1>6, <1>7 DEF Effects

\* domain_step, from a record that gives the reducer something to do.
LEMMA DomainStepMoves ==
    ASSUME NEW r, RecordOK(r), r.status = "Idle", Deliverable(r),
           NEW s \in DomainStep(r), setup \in Setup
    PROVE  BoundaryMoves(r, s)
<1>1. /\ r \in Run /\ Draft(r) /\ r.delivered <= r.log /\ r.finalized = FALSE
      /\ r.owner # None
    BY RunFields DEF RecordOK, Draft, Leased
<1>2. CASE r.outbox # None
  <2>1. r.outbox \in Kind /\ Len(r.ops) < setup.ops /\ setup.ops \in Nat
    BY <1>1, <1>2, RunFields DEF Draft, Setup
  <2>2. s \in Operate(r, r.outbox)
    BY <1>2 DEF DomainStep
  <2>3. QED
    BY <1>1, <2>1, <2>2, OperateMoves
<1>3. CASE r.outbox = None
  <2>1. r.delivered < r.log
    BY <1>3 DEF Deliverable
  <2>2. ASSUME NEW n \in 0 .. r.open,
               s \in Effects([r EXCEPT !.delivered = @ + 1, !.open = @ - n])
        PROVE  BoundaryMoves(r, s)
    <3> DEFINE v == [r EXCEPT !.delivered = @ + 1, !.open = @ - n]
    <3>1. r.delivered + 1 \in Nat /\ r.open - n \in Nat /\ r.delivered + 1 <= r.log
      BY <1>1, <2>1, RunFields
    <3>2. v \in Run
      BY <1>1, <3>1 DEF Run
    <3>3. /\ v.status = r.status /\ v.owner = r.owner /\ v.epoch = r.epoch
          /\ v.ops = r.ops /\ v.outbox = r.outbox /\ v.delivered = r.delivered + 1
          /\ v.log = r.log /\ v.finalized = r.finalized
      BY <1>1 DEF Run
    <3>4. s \in Effects(v)
      BY <2>2
    <3> HIDE DEF v
    <3>5. Draft(v)
      BY <1>1, <3>1, <3>2, <3>3 DEF Draft, Leased
    <3>6. BoundaryMoves(v, s)
      BY <3>3, <3>4, <3>5, EffectsMove
    <3>7. QED
      BY <3>3, <3>6 DEF BoundaryMoves, Follows, NothingBegun, Begins
  <2>3. CASE s \in Answers(r)
    BY <2>2, <2>3 DEF Answers
  <2>4. CASE s = Terminate(r, FALSE)
    BY <1>1, <2>4, TerminateMoves DEF Moves, BoundaryMoves
  <2>5. CASE s = Pausing(r)
    BY <1>1, <2>5, PausingMoves DEF Moves, BoundaryMoves
  <2>6. QED
    BY <1>3, <2>3, <2>4, <2>5 DEF DomainStep
<1>4. QED
    BY <1>2, <1>3

-----------------------------------------------------------------------------
(* What a step leaves alone.                                               *)

LEMMA DriveFields ==
    ASSUME NEW x \in Drive
    PROVE  /\ x.pc \in Pc /\ x.fence \in Nat /\ x.op \in Nat
           /\ x.seen \in Run \union {None}
           /\ x.outcome \in {None, "done", "waiting", "cancelled"}
    BY DEF Drive

\* A lease that is gone does not come back.
LEMMA MineBefore ==
    ASSUME RecordOK(run), RecordOK(run'), Follows(run, run'),
           NEW e \in Driver, drv[e] \in Drive, drv[e].fence <= run.epoch,
           drv'[e].fence = drv[e].fence, Mine(e)'
    PROVE  /\ Mine(e) /\ run'.epoch = run.epoch
           /\ run.status \in Leased /\ run'.status \in Leased
<1>1. run \in Run /\ run' \in Run
    BY DEF RecordOK, Draft
<1>2. run.epoch \in Nat /\ run'.epoch \in Nat /\ drv[e].fence \in Nat
    BY <1>1, RunFields, DriveFields
<1>3. run'.owner = e /\ run'.epoch = drv[e].fence
    BY DEF Mine
<1>4. run'.epoch = run.epoch /\ run.owner = e
    BY <1>2, <1>3 DEF Follows
<1>5. run.status \in Leased /\ run'.status \in Leased
    BY <1>3, <1>4, NoneAssumption DEF RecordOK, Draft
<1>6. QED
    BY <1>3, <1>4, <1>5 DEF Mine

\* The drives of other nodes.
LEMMA OthersKeep ==
    ASSUME RecordOK(run), RecordOK(run'), Follows(run, run'),
           NEW e \in Driver, drv[e] \in Drive, DriveOK(e), drv'[e] = drv[e],
           Aside(run, run') \/ ~Mine(e)
    PROVE  DriveOK(e)'
<1>1. run \in Run /\ run' \in Run
    BY DEF RecordOK, Draft
<1>2. /\ run.epoch \in Nat /\ run'.epoch \in Nat /\ drv[e].fence \in Nat
      /\ Len(run.ops) \in Nat /\ Len(run'.ops) \in Nat /\ drv[e].op \in Nat
    BY <1>1, RunFields, DriveFields
<1>3. drv'[e].fence <= run'.epoch
    BY <1>2 DEF DriveOK, Follows
<1>4. Mine(e)' => /\ Mine(e)
                  /\ run'.status = run.status
                       \/ (run.status = "Operating" /\ run'.status = "Cancelling")
                  /\ run'.ops = run.ops
                  /\ HasWork(run) => HasWork(run')
    BY MineBefore DEF Aside, DriveOK
<1>5. /\ drv'[e].pc \in Executes => drv'[e].op \in 1 .. Len(run'.ops)
      /\ drv'[e].pc \in {"finalize", "finalizing"} => run'.status = "Terminal"
      /\ drv'[e].pc = "reduce" => drv'[e].seen \in Run /\ Deliverable(drv'[e].seen)
      /\ drv'[e].pc = "stalled" => drv'[e].seen.quit = drv'[e].seen.log
      /\ drv'[e].pc = "finalizing" => drv'[e].seen \in Run
    BY <1>2 DEF DriveOK, Follows
<1>6. /\ drv'[e].pc \in Boundary /\ Mine(e)' => run'.status = "Idle"
      /\ drv'[e].pc = "step" /\ Mine(e)' => HasWork(run')
      /\ drv'[e].pc \in Executes /\ Mine(e)' =>
             run'.status \in {"Operating", "Cancelling"} /\ drv'[e].op = Len(run'.ops)
      /\ drv'[e].pc = "finish" /\ drv'[e].outcome \notin {"done", "waiting"} /\ Mine(e)' =>
             run'.status = "Cancelling"
    BY <1>4 DEF DriveOK
<1>7. QED
    BY <1>3, <1>5, <1>6 DEF DriveOK

\* A drive keeps its fence, or is given one that is new.
LEMMA FencesKeep ==
    ASSUME FencesDiffer, run.epoch \in Nat, run'.epoch \in Nat,
           \A e \in Driver : drv[e].fence \in Nat /\ drv[e].fence <= run.epoch,
           NEW d, \A e \in Driver : e # d => drv'[e] = drv[e],
           d \in Driver /\ drv'[d].pc \in Drives =>
               \/ drv[d].pc \in Drives /\ drv'[d].fence = drv[d].fence
               \/ drv'[d].fence = run'.epoch /\ run.epoch < run'.epoch
    PROVE  FencesDiffer'
<1> SUFFICES ASSUME NEW a \in Driver, NEW b \in Driver,
                    drv'[a].pc \in Drives, drv'[b].pc \in Drives,
                    drv'[a].fence = drv'[b].fence, a # b
             PROVE  FALSE
    BY DEF FencesDiffer
<1>1. (a # d => drv'[a] = drv[a]) /\ (b # d => drv'[b] = drv[b])
    OBVIOUS
<1>2. CASE a # d /\ b # d
    BY <1>1, <1>2 DEF FencesDiffer
<1>3. CASE a = d
    BY <1>1, <1>3 DEF FencesDiffer
<1>4. CASE b = d
    BY <1>1, <1>4 DEF FencesDiffer
<1>5. QED
    BY <1>2, <1>3, <1>4

\* No operation begins and no drive reaches one.
LEMMA StartsKeep ==
    ASSUME IInv, setup' = setup, ran' = ran, RecordOK(run'),
           Follows(run, run'), NothingBegun(run, run'),
           \A e \in Driver :
               /\ drv'[e].pc \in {"register", "start"} =>
                      /\ drv[e].pc \in {"register", "start"}
                      /\ drv'[e].op = drv[e].op /\ drv'[e].fence = drv[e].fence
               /\ drv'[e].pc = "loop" =>
                      \/ drv'[e] = drv[e]
                      \/ run'.status # "Operating"
                      \/ run'.ops[Len(run'.ops)].replay_safe
    PROVE  StartsOK'
<1>1. /\ run'.ops = run.ops
      /\ run'.status = "Operating" =>
             /\ run.status = "Operating"
             /\ run'.epoch = run.epoch \/ run.ops[Len(run.ops)].replay_safe
    BY DEF NothingBegun
<1>2. StartsOK /\ RecordOK(run) /\ drv \in [Driver -> Drive]
      /\ \A e \in Driver : drv[e] \in Drive /\ drv[e].fence <= run.epoch
    BY DEF IInv, TypeOK, DriveOK
<1>3. \A e \in Driver : \A o : Starting(e, o)' => Starting(e, o) /\ drv'[e].fence = drv[e].fence
    BY DEF Starting
<1>4. \A e \in Driver : drv'[e] = drv[e] /\ Mine(e)' => Mine(e)
    BY <1>2, MineBefore
<1>5. \A o \in 1 .. setup'.ops : o > Len(run'.ops) => ran'[o] = 0
    BY <1>1, <1>2 DEF StartsOK
<1>6. ASSUME NEW o \in 1 .. Len(run'.ops), ~run'.ops[o].replay_safe
      PROVE  /\ ran'[o] <= 1
             /\ \A d \in Driver : Starting(d, o)' => ran'[o] = 0
             /\ \A d, e \in Driver : Starting(d, o)' /\ Starting(e, o)' => d = e
             /\ run'.status = "Operating" /\ o = Len(run'.ops) =>
                  \A d \in Driver :
                      /\ Starting(d, o)' => drv'[d].fence = run'.epoch
                      /\ drv'[d].pc = "loop" /\ Mine(d)' => ran'[o] = 0
  <2>1. /\ ran[o] <= 1
        /\ \A d \in Driver : Starting(d, o) => ran[o] = 0
        /\ \A d, e \in Driver : Starting(d, o) /\ Starting(e, o) => d = e
        /\ run.status = "Operating" /\ o = Len(run.ops) =>
             \A d \in Driver :
                 /\ Starting(d, o) => drv[d].fence = run.epoch
                 /\ drv[d].pc = "loop" /\ Mine(d) => ran[o] = 0
    BY <1>1, <1>2, <1>6 DEF StartsOK
  <2>2. ran'[o] <= 1 /\ \A d \in Driver : Starting(d, o)' => ran'[o] = 0
    BY <1>3, <2>1
  <2>3. \A d, e \in Driver : Starting(d, o)' /\ Starting(e, o)' => d = e
    BY <1>3, <2>1
  <2>4. ASSUME run'.status = "Operating", o = Len(run'.ops), NEW d \in Driver
        PROVE  /\ Starting(d, o)' => drv'[d].fence = run'.epoch
               /\ drv'[d].pc = "loop" /\ Mine(d)' => ran'[o] = 0
    <3>1. run.status = "Operating" /\ run'.epoch = run.epoch /\ o = Len(run.ops)
      BY <1>1, <1>6, <2>4
    <3>2. Starting(d, o)' => drv'[d].fence = run'.epoch
      BY <1>3, <2>1, <3>1
    <3>3. drv'[d].pc = "loop" /\ Mine(d)' => ran'[o] = 0
      BY <1>4, <1>6, <2>1, <2>4, <3>1
    <3>4. QED
      BY <3>2, <3>3
  <2>5. QED
    BY <2>2, <2>3, <2>4
<1>7. QED
    BY <1>5, <1>6 DEF StartsOK

\* The variables that are typed on their own.
RestTyped ==
    /\ lapsed \in BOOLEAN /\ wake \in BOOLEAN
    /\ faults \in 0 .. setup.faults
    /\ steered \in [accepted : Nat, settled : Nat]
    /\ SteersKept

\* A commit counts the steers it takes from the record it was computed from:
\* none is lost when that is the stored one.
LEMMA CommitKeeps ==
    ASSUME IInv, NEW s \in Run, Commit(run, s), setup' = setup, faults' = faults
    PROVE  run' = s /\ RestTyped'
<1>1. /\ steered \in [accepted : Nat, settled : Nat] /\ run \in Run
      /\ steered.accepted = run.steers + steered.settled
      /\ faults \in 0 .. setup.faults /\ lapsed \in BOOLEAN /\ wake \in BOOLEAN
    BY DEF IInv, TypeOK, SteersKept
<1>2. run.steers \in Nat /\ s.steers \in Nat /\ steered.accepted \in Nat /\ steered.settled \in Nat
    BY <1>1, RunFields
<1>3. run' = s /\ lapsed' \in BOOLEAN /\ wake' \in BOOLEAN
    BY <1>1 DEF Commit
<1>4. CASE s.steers >= run.steers
  <2>1. steered' = [steered EXCEPT !.accepted = @ + (s.steers - run.steers)]
    BY <1>4 DEF Commit
  <2>2. steered.accepted + (s.steers - run.steers) \in Nat
    BY <1>2, <1>4
  <2>3. /\ steered' \in [accepted : Nat, settled : Nat]
        /\ steered'.accepted = steered.accepted + (s.steers - run.steers)
        /\ steered'.settled = steered.settled
    BY <1>1, <2>1, <2>2
  <2>4. steered'.accepted = run'.steers + steered'.settled
    BY <1>1, <1>2, <1>3, <2>3
  <2>5. QED
    BY <1>1, <1>3, <2>3, <2>4 DEF RestTyped, SteersKept
<1>5. CASE ~(s.steers >= run.steers)
  <2>1. steered' = [steered EXCEPT !.settled = @ + (run.steers - s.steers)]
    BY <1>5 DEF Commit
  <2>2. steered.settled + (run.steers - s.steers) \in Nat
    BY <1>2, <1>5
  <2>3. /\ steered' \in [accepted : Nat, settled : Nat]
        /\ steered'.accepted = steered.accepted
        /\ steered'.settled = steered.settled + (run.steers - s.steers)
    BY <1>1, <2>1, <2>2
  <2>4. steered'.accepted = run'.steers + steered'.settled
    BY <1>1, <1>2, <1>3, <2>3
  <2>5. QED
    BY <1>1, <1>3, <2>3, <2>4 DEF RestTyped, SteersKept
<1>6. QED
    BY <1>4, <1>5

LEMMA UncommittedKeeps ==
    ASSUME IInv, Uncommitted, setup' = setup, faults' \in 0 .. setup.faults
    PROVE  run' = run /\ RestTyped'
    BY DEF IInv, TypeOK, SteersKept, Uncommitted, RestTyped

LEMMA StaysSame ==
    ASSUME RecordOK(run)
    PROVE  Moves(run, run)
<1>1. run.epoch \in Nat /\ Len(run.ops) \in Nat
    BY RunFields DEF RecordOK, Draft
<1>2. QED
    BY <1>1 DEF Moves, Follows, Aside, NothingBegun

CancelsTyped ==
    /\ cancels \subseteq Driver \X (1 .. setup.ops)
    /\ cancelAt \in Driver \union {None}
    /\ CancelsOK

\* A token that was cancelled stays of use to nobody but a stopped run.
LEMMA CancelsKeep ==
    ASSUME IInv, setup' = setup, Follows(run, run'), cancels' \subseteq cancels,
           cancelAt' \in {cancelAt, None}
    PROVE  CancelsTyped'
<1>1. /\ cancels \subseteq Driver \X (1 .. setup.ops) /\ cancelAt \in Driver \union {None}
      /\ CancelsOK
    BY DEF IInv, TypeOK
<1>2. CancelsOK'
    BY <1>1 DEF CancelsOK, Follows
<1>3. QED
    BY <1>1, <1>2 DEF CancelsTyped

\* The parts of the invariant make it up again.
LEMMA Assembles ==
    ASSUME IInv, setup' = setup, RecordOK(run'), drv' \in [Driver -> Drive],
           ran' \in [1 .. setup.ops -> Nat],
           \A d \in Driver : DriveOK(d)', FencesDiffer', StartsOK',
           RestTyped', CancelsTyped'
    PROVE  IInv'
<1>1. RecordOK(run)'
    BY DEF RecordOK, Draft
<1>2. setup \in Setups
    BY DEF IInv, TypeOK
<1>3. TypeOK'
    BY <1>2 DEF TypeOK, RestTyped, CancelsTyped, RecordOK, Draft
<1>4. QED
    BY <1>1, <1>3 DEF IInv, RestTyped, CancelsTyped

\* A step of one drive, or of none, that begins and reaches no operation.
LEMMA StepKeeps ==
    ASSUME IInv, setup' = setup, ran' = ran, RecordOK(run'), Follows(run, run'),
           NothingBegun(run, run'), RestTyped', CancelsTyped',
           drv' \in [Driver -> Drive], NEW d,
           \A e \in Driver : e # d => drv'[e] = drv[e],
           Aside(run, run') \/ (d \in Driver /\ Mine(d)),
           d \in Driver =>
               /\ DriveOK(d)'
               /\ drv'[d].pc \in Drives =>
                      \/ drv[d].pc \in Drives /\ drv'[d].fence = drv[d].fence
                      \/ drv'[d].fence = run'.epoch /\ run.epoch < run'.epoch
               /\ drv'[d].pc \in {"register", "start"} =>
                      /\ drv[d].pc \in {"register", "start"}
                      /\ drv'[d].op = drv[d].op /\ drv'[d].fence = drv[d].fence
               /\ drv'[d].pc = "loop" =>
                      \/ run'.status # "Operating"
                      \/ run'.ops[Len(run'.ops)].replay_safe
    PROVE  IInv'
<1>1. /\ RecordOK(run) /\ FencesDiffer /\ drv \in [Driver -> Drive]
      /\ \A e \in Driver : DriveOK(e) /\ drv[e] \in Drive
      /\ ran \in [1 .. setup.ops -> Nat]
    BY DEF IInv, TypeOK
<1>2. \A e \in Driver : DriveOK(e)'
  <2> SUFFICES ASSUME NEW e \in Driver, e # d
               PROVE  DriveOK(e)'
    OBVIOUS
  <2>1. Aside(run, run') \/ ~Mine(e)
    BY DEF Mine
  <2>2. QED
    BY <1>1, <2>1, OthersKeep
<1>3. /\ run.epoch \in Nat /\ run'.epoch \in Nat
      /\ \A e \in Driver : drv[e].fence \in Nat /\ drv[e].fence <= run.epoch
    BY <1>1, RunFields, DriveFields DEF RecordOK, Draft, DriveOK
<1>4. FencesDiffer'
    BY <1>1, <1>3, FencesKeep
<1>5. StartsOK'
  <2>1. \A e \in Driver :
               /\ drv'[e].pc \in {"register", "start"} =>
                      /\ drv[e].pc \in {"register", "start"}
                      /\ drv'[e].op = drv[e].op /\ drv'[e].fence = drv[e].fence
               /\ drv'[e].pc = "loop" =>
                      \/ drv'[e] = drv[e]
                      \/ run'.status # "Operating"
                      \/ run'.ops[Len(run'.ops)].replay_safe
    OBVIOUS
  <2>2. QED
    BY <2>1, StartsKeep
<1>6. QED
    BY <1>1, <1>2, <1>4, <1>5, Assembles

-----------------------------------------------------------------------------
(* Every action preserves the invariant.                                   *)

LEMMA Known ==
    ASSUME IInv
    PROVE  /\ RecordOK(run) /\ Draft(run) /\ run \in Run
           /\ setup \in Setups /\ setup \in Setup
           /\ drv \in [Driver -> Drive]
           /\ \A d \in Driver : drv[d] \in Drive /\ DriveOK(d)
           /\ faults \in 0 .. setup.faults /\ setup.faults \in Nat /\ setup.ops \in Nat
           /\ Len(run.ops) \in Nat /\ run.epoch \in Nat
<1>1. /\ RecordOK(run) /\ Draft(run) /\ run \in Run /\ setup \in Setups
      /\ drv \in [Driver -> Drive]
      /\ \A d \in Driver : drv[d] \in Drive /\ DriveOK(d)
      /\ faults \in 0 .. setup.faults
    BY DEF IInv, TypeOK, RecordOK
<1>2. setup \in Setup
    BY <1>1, SetupsAssumption
<1>3. setup.faults \in Nat /\ setup.ops \in Nat
    BY <1>2 DEF Setup
<1>4. QED
    BY <1>1, <1>2, <1>3, RunFields

\* A control: the record moves, no drive does.
LEMMA ControlKeeps ==
    ASSUME IInv, NEW s, Moves(run, s), Commit(run, s),
           UNCHANGED <<setup, drv, faults, ran>>, CancelsTyped'
    PROVE  IInv'
<1>1. s \in Run
    BY DEF Moves, RecordOK, Draft
<1>2. run' = s /\ RestTyped'
    BY <1>1, CommitKeeps
<1>3. RecordOK(run') /\ Follows(run, run') /\ NothingBegun(run, run') /\ Aside(run, run')
    BY <1>2 DEF Moves
<1>4. None \notin Driver /\ drv' \in [Driver -> Drive] /\ \A e \in Driver : drv'[e] = drv[e]
    BY NoneAssumption, Known
<1>5. QED
    BY <1>2, <1>3, <1>4, StepKeeps

LEMMA StopKeeps ==
    ASSUME IInv, NEW n \in Driver \union {None}, Stop(n)
    PROVE  IInv'
<1>1. RecordOK(run) /\ Draft(run) /\ run \in Run
    BY Known
<1>2. CASE run.status = "Operating"
  <2> DEFINE s == [run EXCEPT !.status = "Cancelling", !.pausing = FALSE]
  <2>1. Moves(run, s)
    BY <1>1, <1>2, StopMoves
  <2>2. s.status = "Cancelling" /\ s.ops = run.ops
    BY <1>1 DEF Run
  <2>3. Commit(run, s) /\ cancelAt' = n /\ UNCHANGED <<setup, drv, cancels, faults, ran>>
    BY <1>2 DEF Stop
  <2> HIDE DEF s
  <2>4. run' = s
    BY <2>3 DEF Commit
  <2>5. CancelsTyped'
    BY <1>1, <1>2, <2>2, <2>3, <2>4 DEF CancelsTyped, CancelsOK, IInv, TypeOK, Draft
  <2>6. QED
    BY <2>1, <2>3, <2>5, ControlKeeps
<1>3. CASE run.status # "Operating"
  <2> DEFINE s == Terminate(run, TRUE)
  <2>1. Moves(run, s)
    BY <1>1, TerminateMoves DEF Stop
  <2>2. Commit(run, s) /\ UNCHANGED <<setup, drv, cancels, cancelAt, faults, ran>>
    BY <1>3 DEF Stop
  <2> HIDE DEF s
  <2>3. run' = s
    BY <2>2 DEF Commit
  <2>4. CancelsTyped'
    BY <2>1, <2>2, <2>3, CancelsKeep DEF Moves
  <2>5. QED
    BY <2>1, <2>2, <2>4, ControlKeeps
<1>4. QED
    BY <1>2, <1>3

LEMMA MarkCancelledKeeps ==
    ASSUME IInv, MarkCancelled
    PROVE  IInv'
<1>1. RecordOK(run) /\ Draft(run) /\ run \in Run
    BY Known
<1>2. /\ run' = run /\ UNCHANGED <<setup, lapsed, wake, drv, faults, ran, steered>>
      /\ cancels' = cancels \union {<<cancelAt, Len(run.ops)>>} /\ cancelAt' = None
    BY DEF MarkCancelled, InFlight
<1>3. /\ cancelAt \in Driver /\ Len(run.ops) > 0
      /\ run.status \in {"Cancelling", "Terminal"}
    BY DEF MarkCancelled, IInv, TypeOK, CancelsOK
<1>4. Len(run.ops) \in 1 .. setup.ops
    BY <1>1, <1>3, Known DEF Draft
<1>5. CancelsTyped'
    BY <1>2, <1>3, <1>4 DEF CancelsTyped, CancelsOK, IInv, TypeOK
<1>6. RestTyped' /\ Moves(run, run)
    BY <1>1, <1>2, UncommittedKeeps, StaysSame, Known DEF Uncommitted
<1>7. RecordOK(run') /\ Follows(run, run') /\ NothingBegun(run, run') /\ Aside(run, run')
    BY <1>2, <1>6 DEF Moves
<1>8. None \notin Driver /\ drv' \in [Driver -> Drive] /\ \A e \in Driver : drv'[e] = drv[e]
    BY <1>2, NoneAssumption, Known
<1>9. QED
    BY <1>2, <1>5, <1>6, <1>7, <1>8, StepKeeps

LEMMA PauseKeeps ==
    ASSUME IInv, Pause
    PROVE  IInv'
<1>1. RecordOK(run) /\ Draft(run)
    BY Known
<1>2. PICK s : Moves(run, s) /\ Commit(run, s)
    BY <1>1, PausingMoves, PauseSetMoves DEF Pause
<1>3. run' = s /\ UNCHANGED <<setup, drv, cancels, cancelAt, faults, ran>>
    BY <1>2 DEF Commit, Pause
<1>4. CancelsTyped'
    BY <1>2, <1>3, CancelsKeep DEF Moves
<1>5. QED
    BY <1>2, <1>3, <1>4, ControlKeeps

LEMMA ResumeKeeps ==
    ASSUME IInv, Resume
    PROVE  IInv'
<1>1. RecordOK(run)
    BY Known
<1>2. PICK s : Moves(run, s) /\ Commit(run, s)
    BY <1>1, ResumeMoves DEF Resume
<1>3. run' = s /\ UNCHANGED <<setup, drv, cancels, cancelAt, faults, ran>>
    BY <1>2 DEF Commit, Resume
<1>4. CancelsTyped'
    BY <1>2, <1>3, CancelsKeep DEF Moves
<1>5. QED
    BY <1>2, <1>3, <1>4, ControlKeeps

LEMMA SteerKeeps ==
    ASSUME IInv, Steer
    PROVE  IInv'
<1>1. RecordOK(run)
    BY Known
<1>2. PICK s : Moves(run, s) /\ Commit(run, s)
    BY <1>1, SteerMoves, Zenon DEF Steer
<1>3. run' = s /\ UNCHANGED <<setup, drv, cancels, cancelAt, faults, ran>>
    BY <1>2 DEF Commit, Steer
<1>4. CancelsTyped'
    BY <1>2, <1>3, CancelsKeep DEF Moves
<1>5. QED
    BY <1>2, <1>3, <1>4, ControlKeeps

LEMMA ResolveKeeps ==
    ASSUME IInv, Resolve
    PROVE  IInv'
<1>1. Draft(run)
    BY Known
<1>2. PICK s : Moves(run, s) /\ Commit(run, s)
    BY <1>1, RemoveRequestMoves DEF Resolve
<1>3. run' = s /\ UNCHANGED <<setup, drv, cancels, cancelAt, faults, ran>>
    BY <1>2 DEF Commit, Resolve
<1>4. CancelsTyped'
    BY <1>2, <1>3, CancelsKeep DEF Moves
<1>5. QED
    BY <1>2, <1>3, <1>4, ControlKeeps

LEMMA DriveTyped ==
    ASSUME drv \in [Driver -> Drive], NEW d \in Driver, NEW x \in Drive,
           drv' = [drv EXCEPT ![d] = x]
    PROVE  /\ drv' \in [Driver -> Drive] /\ drv'[d] = x
           /\ \A e \in Driver : e # d => drv'[e] = drv[e]
    OBVIOUS

LEMMA AwayTyped ==
    /\ Away \in Drive
    /\ Away.pc = "none" /\ Away.fence = 0
    BY DEF Away, Drive, Pc

LEMMA GotoFields ==
    ASSUME drv \in [Driver -> Drive], NEW d \in Driver, NEW p \in Pc, Goto(d, p)
    PROVE  /\ drv' \in [Driver -> Drive]
           /\ drv'[d].pc = p /\ drv'[d].fence = drv[d].fence /\ drv'[d].op = drv[d].op
           /\ drv'[d].seen = drv[d].seen /\ drv'[d].outcome = drv[d].outcome
           /\ \A e \in Driver : e # d => drv'[e] = drv[e]
<1> DEFINE x == [drv[d] EXCEPT !.pc = p]
<1>1. drv[d] \in Drive
    OBVIOUS
<1>2. x \in Drive
    BY <1>1 DEF Drive
<1>3. drv' = [drv EXCEPT ![d] = x]
    BY DEF Goto
<1>4. /\ x.pc = p /\ x.fence = drv[d].fence /\ x.op = drv[d].op
      /\ x.seen = drv[d].seen /\ x.outcome = drv[d].outcome
    BY <1>1 DEF Drive
<1> HIDE DEF x
<1>5. QED
    BY <1>2, <1>3, <1>4

LEMMA FinishWithFields ==
    ASSUME drv \in [Driver -> Drive], NEW d \in Driver, NEW op \in Nat,
           NEW outcome \in {"done", "waiting", "cancelled"}, FinishWith(d, op, outcome)
    PROVE  /\ drv' \in [Driver -> Drive]
           /\ drv'[d].pc = "finish" /\ drv'[d].fence = drv[d].fence /\ drv'[d].op = op
           /\ drv'[d].seen = drv[d].seen /\ drv'[d].outcome = outcome
           /\ \A e \in Driver : e # d => drv'[e] = drv[e]
<1> DEFINE x == [drv[d] EXCEPT !.pc = "finish", !.op = op, !.outcome = outcome]
<1>1. drv[d] \in Drive /\ "finish" \in Pc /\ outcome \in {None, "done", "waiting", "cancelled"}
    BY DEF Pc
<1>2. x \in Drive
    BY <1>1 DEF Drive
<1>3. drv' = [drv EXCEPT ![d] = x]
    BY DEF FinishWith
<1>4. /\ x.pc = "finish" /\ x.fence = drv[d].fence /\ x.op = op
      /\ x.seen = drv[d].seen /\ x.outcome = outcome
    BY <1>1 DEF Drive
<1> HIDE DEF x
<1>5. QED
    BY <1>2, <1>3, <1>4

\* A drive moves, the record does not.
LEMMA QuietKeeps ==
    ASSUME IInv, run' = run, setup' = setup, ran' = ran, RestTyped', CancelsTyped',
           drv' \in [Driver -> Drive], NEW d,
           \A e \in Driver : e # d => drv'[e] = drv[e],
           d \in Driver =>
               /\ DriveOK(d)'
               /\ drv'[d].pc \in Drives =>
                      drv[d].pc \in Drives /\ drv'[d].fence = drv[d].fence
               /\ drv'[d].pc \in {"register", "start"} =>
                      /\ drv[d].pc \in {"register", "start"}
                      /\ drv'[d].op = drv[d].op
               /\ drv'[d].pc = "loop" => run.status # "Operating"
    PROVE  IInv'
<1>1. RecordOK(run') /\ Follows(run, run') /\ NothingBegun(run, run') /\ Aside(run, run')
    BY Known, StaysSame DEF Moves
<1>2. d \in Driver /\ drv'[d].pc \in {"register", "start"} => drv'[d].fence = drv[d].fence
    BY DEF Drives, Executes
<1>3. QED
    BY <1>1, <1>2, StepKeeps

LEMMA IdleKeeps ==
    ASSUME IInv, UNCHANGED <<setup, run, drv, ran>>, RestTyped', CancelsTyped'
    PROVE  IInv'
<1>1. None \notin Driver /\ drv' \in [Driver -> Drive] /\ \A e \in Driver : drv'[e] = drv[e]
    BY NoneAssumption, Known
<1>2. QED
    BY <1>1, QuietKeeps

LEMMA EndKeeps ==
    ASSUME IInv, NEW d \in Driver, End(d), run' = run, setup' = setup, ran' = ran,
           RestTyped', CancelsTyped'
    PROVE  IInv'
<1>1. /\ drv' \in [Driver -> Drive] /\ drv'[d] = Away
      /\ \A e \in Driver : e # d => drv'[e] = drv[e]
    BY Known, AwayTyped, DriveTyped DEF End
<1>2. drv'[d].pc = "none" /\ drv'[d].fence = 0
    BY <1>1, AwayTyped
<1>3. DriveOK(d)'
    BY <1>2, Known DEF DriveOK, Boundary, Executes
<1>4. drv'[d].pc \notin Drives
    BY <1>2 DEF Drives, Boundary, Executes
<1>5. QED
    BY <1>1, <1>2, <1>3, <1>4, QuietKeeps

LEMMA QuietTyped ==
    ASSUME IInv, Uncommitted, setup' = setup, faults' = faults, cancels' \subseteq cancels,
           cancelAt' \in {cancelAt, None}
    PROVE  run' = run /\ RestTyped' /\ CancelsTyped'
<1>1. run' = run /\ RestTyped'
    BY Known, UncommittedKeeps
<1>2. Follows(run, run')
    BY <1>1, Known, StaysSame DEF Moves
<1>3. QED
    BY <1>1, <1>2, CancelsKeep

LEMMA CrashKeeps ==
    ASSUME IInv, NEW d \in Driver, Crash(d)
    PROVE  IInv'
<1>1. /\ Uncommitted /\ End(d) /\ setup' = setup /\ ran' = ran
      /\ cancels' \subseteq cancels /\ cancelAt' \in {cancelAt, None}
      /\ faults' \in 0 .. setup.faults
    BY Known DEF Crash, Faulty
<1>2. run' = run /\ RestTyped'
    BY <1>1, UncommittedKeeps
<1>3. CancelsTyped'
    BY <1>1, <1>2, Known, StaysSame, CancelsKeep DEF Moves
<1>4. QED
    BY <1>1, <1>2, <1>3, EndKeeps

LEMMA TimeKeeps ==
    ASSUME IInv, Rewake \/ Lapse \/ LoseWake
    PROVE  IInv'
<1>1. /\ UNCHANGED <<setup, run, drv, cancels, cancelAt, ran, steered>>
      /\ wake' \in BOOLEAN /\ lapsed' \in BOOLEAN /\ faults' \in 0 .. setup.faults
  <2>1. /\ wake \in BOOLEAN /\ lapsed \in BOOLEAN /\ faults \in 0 .. setup.faults
        /\ setup.faults \in Nat
    BY Known DEF IInv, TypeOK
  <2>2. CASE Rewake
    BY <2>1, <2>2 DEF Rewake
  <2>3. CASE Lapse
    BY <2>1, <2>3 DEF Lapse, Faulty
  <2>4. CASE LoseWake
    <3>1. /\ UNCHANGED <<setup, run, lapsed, drv, cancels, cancelAt, ran, steered>>
          /\ wake' = FALSE /\ faults < setup.faults /\ faults' = faults + 1
      BY <2>4 DEF LoseWake, Faulty
    <3>2. faults' \in 0 .. setup.faults
      BY <2>1, <3>1
    <3>3. QED
      BY <2>1, <3>1, <3>2, Zenon
  <2>5. QED
    BY <2>2, <2>3, <2>4
<1>2. RestTyped'
    BY <1>1 DEF RestTyped, IInv, TypeOK, SteersKept
<1>3. CancelsTyped'
    BY <1>1, Known, StaysSame, CancelsKeep DEF Moves
<1>4. QED
    BY <1>1, <1>2, <1>3, IdleKeeps

\* A drive that finds the run ended.
LEMMA ToFinalizeKeeps ==
    ASSUME IInv, NEW d \in Driver, Goto(d, "finalize"), run.status = "Terminal",
           run' = run, setup' = setup, ran' = ran, RestTyped', CancelsTyped'
    PROVE  IInv'
<1>1. "finalize" \in Pc /\ "finalize" \notin Drives
    BY DEF Pc, Drives, Boundary, Executes
<1>2. /\ drv' \in [Driver -> Drive] /\ drv'[d].pc = "finalize"
      /\ drv'[d].fence = drv[d].fence
      /\ \A e \in Driver : e # d => drv'[e] = drv[e]
    BY <1>1, Known, GotoFields
<1>3. drv[d].fence <= run.epoch
    BY Known DEF DriveOK
<1>4. DriveOK(d)'
    BY <1>2, <1>3 DEF DriveOK, Boundary, Executes
<1>5. QED
    BY <1>1, <1>2, <1>4, QuietKeeps

LEMMA SweepFinalizeKeeps ==
    ASSUME IInv, NEW d \in Driver, SweepFinalize(d)
    PROVE  IInv'
<1>1. /\ Goto(d, "finalize") /\ run.status = "Terminal" /\ ran' = ran
      /\ UNCHANGED <<setup, run, lapsed, wake, cancels, cancelAt, faults, steered>>
    BY DEF SweepFinalize
<1>2. run' = run /\ RestTyped' /\ CancelsTyped'
    BY <1>1, QuietTyped DEF Uncommitted
<1>3. QED
    BY <1>1, <1>2, ToFinalizeKeeps

\* A drive that was given the lease: nothing is known of it but its fence.
LEMMA LoopOK ==
    ASSUME NEW d \in Driver, drv'[d].pc = "loop", drv'[d].fence <= run'.epoch
    PROVE  DriveOK(d)'
    BY DEF DriveOK, Boundary, Executes

LEMMA NewDrive ==
    ASSUME NEW n \in Nat
    PROVE  LET x == [Away EXCEPT !.pc = "loop", !.fence = n]
           IN  x \in Drive /\ x.pc = "loop" /\ x.fence = n
    BY DEF Away, Drive, Pc

LEMMA StepJobKeeps ==
    ASSUME IInv, NEW d \in Driver, StepJob(d)
    PROVE  IInv'
<1>1. /\ wake' = FALSE /\ UNCHANGED <<setup, lapsed, cancels, cancelAt, faults, ran, steered>>
    BY DEF StepJob
<1>2. RecordOK(run) /\ drv \in [Driver -> Drive] /\ run \in Run
    BY Known
<1>3. ASSUME run'.steers = run.steers, Follows(run, run')
      PROVE  RestTyped' /\ CancelsTyped'
  <2>1. RestTyped'
    BY <1>1, <1>3 DEF RestTyped, IInv, TypeOK, SteersKept
  <2>2. CancelsTyped'
    BY <1>1, <1>3, CancelsKeep
  <2>3. QED
    BY <2>1, <2>2
<1>4. CASE run' = run
  <2>1. RestTyped' /\ CancelsTyped'
    BY <1>2, <1>3, <1>4, StaysSame DEF Moves
  <2>2. CASE drv' = drv
    BY <1>1, <1>4, <2>1, <2>2, IdleKeeps
  <2>3. CASE run.status = "Terminal" /\ Goto(d, "finalize")
    BY <1>1, <1>4, <2>1, <2>3, ToFinalizeKeeps
  <2>4. CASE run.status = "Queued"
    <3>1. run' = [run EXCEPT !.status = "Idle", !.owner = d, !.epoch = @ + 1]
      BY <2>4 DEF StepJob
    <3>2. QED
      BY <1>2, <1>4, <2>4, <3>1 DEF Run
  <2>5. QED
    BY <2>2, <2>3, <2>4 DEF StepJob
<1>5. CASE /\ run.status = "Queued"
           /\ run' = [run EXCEPT !.status = "Idle", !.owner = d, !.epoch = @ + 1]
           /\ drv' = [drv EXCEPT ![d] = [Away EXCEPT !.pc = "loop", !.fence = run'.epoch]]
  <2>1. /\ Moves(run, run') /\ run'.epoch = run.epoch + 1 /\ run'.status = "Idle"
        /\ run'.steers = run.steers
    BY <1>2, <1>5, AcquireMoves, Zenon
  <2>2. RecordOK(run') /\ Follows(run, run') /\ NothingBegun(run, run') /\ Aside(run, run')
    BY <2>1 DEF Moves
  <2>3. RestTyped' /\ CancelsTyped'
    BY <1>3, <2>1, <2>2
  <2>4. run'.epoch \in Nat /\ run.epoch < run'.epoch
    BY <2>1, Known
  <2> DEFINE x == [Away EXCEPT !.pc = "loop", !.fence = run'.epoch]
  <2>5. x \in Drive /\ x.pc = "loop" /\ x.fence = run'.epoch
    BY <2>4, NewDrive, Zenon
  <2>6. drv' = [drv EXCEPT ![d] = x]
    BY <1>5, Zenon
  <2> HIDE DEF x
  <2>7. /\ drv' \in [Driver -> Drive] /\ drv'[d] = x
        /\ \A e \in Driver : e # d => drv'[e] = drv[e]
    BY <1>2, <2>5, <2>6, DriveTyped
  <2>8. DriveOK(d)'
    BY <2>4, <2>5, <2>7, LoopOK
  <2>9. QED
    BY <1>1, <2>1, <2>2, <2>3, <2>4, <2>5, <2>7, <2>8, StepKeeps
<1>6. QED
    BY <1>4, <1>5 DEF StepJob

LEMMA TakeoverKeeps ==
    ASSUME IInv, NEW d \in Driver, Takeover(d)
    PROVE  IInv'
<1> DEFINE s == TakenOver(run, d)
<1>1. RecordOK(run) /\ drv \in [Driver -> Drive]
    BY Known
<1>2. /\ Moves(run, s)
      /\ s.owner = d => s.epoch = run.epoch + 1 /\ s.ops[Len(s.ops)].replay_safe
    BY <1>1, TakenOverMoves, Zenon DEF Takeover
<1>3. /\ Commit(run, s) /\ UNCHANGED <<setup, cancels, cancelAt, faults, ran>>
      /\ IF run'.owner = d
         THEN drv' = [drv EXCEPT ![d] = [Away EXCEPT !.pc = "loop", !.fence = run'.epoch]]
         ELSE UNCHANGED drv
    BY DEF Takeover
<1> HIDE DEF s
<1>4. s \in Run /\ run' = s /\ RestTyped'
    BY <1>2, <1>3, CommitKeeps DEF Moves, RecordOK, Draft
<1>5. RecordOK(run') /\ Follows(run, run') /\ NothingBegun(run, run') /\ Aside(run, run')
    BY <1>2, <1>4 DEF Moves
<1>6. CancelsTyped'
    BY <1>3, <1>5, CancelsKeep
<1>7. CASE run'.owner # d
    BY <1>2, <1>3, <1>6, <1>7, ControlKeeps
<1>8. CASE run'.owner = d
  <2>1. run'.epoch \in Nat /\ run.epoch < run'.epoch
    BY <1>2, <1>4, <1>8, Known
  <2> DEFINE x == [Away EXCEPT !.pc = "loop", !.fence = run'.epoch]
  <2>2. x \in Drive /\ x.pc = "loop" /\ x.fence = run'.epoch
    BY <2>1, NewDrive, Zenon
  <2>3. drv' = [drv EXCEPT ![d] = x]
    BY <1>3, <1>8, Zenon
  <2> HIDE DEF x
  <2>4. /\ drv' \in [Driver -> Drive] /\ drv'[d] = x
        /\ \A e \in Driver : e # d => drv'[e] = drv[e]
    BY <1>1, <2>2, <2>3, DriveTyped
  <2>5. DriveOK(d)'
    BY <2>1, <2>2, <2>4, LoopOK
  <2>6. run'.ops[Len(run'.ops)].replay_safe
    BY <1>2, <1>4, <1>8
  <2>7. QED
    BY <1>3, <1>4, <1>5, <1>6, <2>1, <2>2, <2>4, <2>5, <2>6, StepKeeps
<1>9. QED
    BY <1>7, <1>8

LEMMA ConsumeSteersKeeps ==
    ASSUME IInv, NEW d \in Driver, ConsumeSteers(d)
    PROVE  IInv'
<1>1. /\ drv[d].pc = "boundary" /\ UNCHANGED <<setup, cancels, cancelAt, faults, ran>>
      /\ RecordOK(run) /\ drv \in [Driver -> Drive] /\ DriveOK(d)
    BY Known DEF ConsumeSteers
<1>2. CASE Fenced(d)
  <2> DEFINE s == [run EXCEPT !.log = @ + run.steers, !.steers = 0]
  <2>1. run.status = "Idle" /\ Mine(d)
    BY <1>1, <1>2 DEF Fenced, DriveOK, Boundary
  <2>2. Moves(run, s) /\ HasWork(s)
    BY <1>1, <2>1, ConsumeMoves, Zenon
  <2>3. Commit(run, s) /\ Goto(d, "step")
    BY <1>2 DEF ConsumeSteers
  <2> HIDE DEF s
  <2>4. s \in Run /\ run' = s /\ RestTyped'
    BY <1>1, <2>2, <2>3, CommitKeeps DEF Moves, RecordOK, Draft
  <2>5. RecordOK(run') /\ Follows(run, run') /\ NothingBegun(run, run') /\ Aside(run, run')
    BY <2>2, <2>4 DEF Moves
  <2>6. CancelsTyped'
    BY <1>1, <2>5, CancelsKeep
  <2>7. "step" \in Pc /\ "step" \in Drives /\ drv[d].pc \in Drives
    BY <1>1 DEF Pc, Drives, Boundary
  <2>8. /\ drv' \in [Driver -> Drive] /\ drv'[d].pc = "step"
        /\ drv'[d].fence = drv[d].fence
        /\ \A e \in Driver : e # d => drv'[e] = drv[e]
    BY <1>1, <2>3, <2>7, GotoFields
  <2>9. Mine(d)' => run'.status = "Idle"
    BY <1>1, <2>1, <2>4, <2>5, <2>8, MineBefore, Known DEF Aside, DriveOK
  <2>10. drv'[d].fence <= run'.epoch
    <3>1. drv[d].fence <= run.epoch /\ run.epoch <= run'.epoch
      BY <1>1, <2>5 DEF DriveOK, Follows
    <3>2. drv[d].fence \in Nat /\ run.epoch \in Nat /\ run'.epoch \in Nat
      BY <2>4, Known, DriveFields, RunFields
    <3>3. QED
      BY <2>8, <3>1, <3>2
  <2>11. DriveOK(d)'
    BY <2>2, <2>4, <2>8, <2>9, <2>10 DEF DriveOK, Executes
  <2>12. QED
    BY <1>1, <2>4, <2>5, <2>6, <2>7, <2>8, <2>11, StepKeeps
<1>3. CASE ~Fenced(d)
  <2>1. Uncommitted /\ End(d)
    BY <1>3 DEF ConsumeSteers
  <2>2. QED
    BY <1>1, <2>1, QuietTyped, EndKeeps
<1>4. QED
    BY <1>2, <1>3

LEMMA ReadForStepKeeps ==
    ASSUME IInv, NEW d \in Driver, ReadForStep(d)
    PROVE  IInv'
<1>1. /\ drv[d].pc = "step" /\ UNCHANGED <<setup, cancels, cancelAt, faults, ran>>
      /\ Uncommitted /\ drv \in [Driver -> Drive] /\ DriveOK(d) /\ run \in Run
      /\ drv[d] \in Drive
    BY Known DEF ReadForStep
<1>2. run' = run /\ RestTyped' /\ CancelsTyped'
    BY <1>1, QuietTyped
<1>3. CASE Mine(d)
  <2> DEFINE pc == IF Deliverable(run) THEN "reduce" ELSE "stalled"
             x == [drv[d] EXCEPT !.pc = pc, !.seen = run]
  <2>1. drv' = [drv EXCEPT ![d] = x]
    BY <1>3 DEF ReadForStep
  <2>2. x \in Drive
    <3>1. run \in Run \union {None} /\ pc \in Pc
      BY <1>1 DEF Pc
    <3>2. QED
      BY <1>1, <3>1 DEF Drive
  <2>3. x.pc = pc /\ x.seen = run /\ x.fence = drv[d].fence
    BY <1>1 DEF Drive
  <2> HIDE DEF x
  <2>4. /\ drv' \in [Driver -> Drive] /\ drv'[d] = x
        /\ \A e \in Driver : e # d => drv'[e] = drv[e]
    BY <1>1, <2>1, <2>2, DriveTyped
  <2>5. drv[d].pc \in Drives
    BY <1>1 DEF Drives, Boundary
  <2>6. run.status = "Idle" /\ HasWork(run) /\ drv[d].fence <= run.epoch
    BY <1>1, <1>3 DEF DriveOK, Boundary
  <2>7. DriveOK(d)'
    BY <1>1, <1>2, <2>3, <2>4, <2>6 DEF DriveOK, Executes, HasWork
  <2>8. x.pc \in {"reduce", "stalled"}
    BY <2>3
  <2>9. QED
    BY <1>1, <1>2, <2>3, <2>4, <2>5, <2>7, <2>8, QuietKeeps
<1>4. CASE ~Mine(d)
    BY <1>1, <1>2, <1>4, EndKeeps DEF ReadForStep
<1>5. QED
    BY <1>3, <1>4

LEMMA RecheckKeeps ==
    ASSUME IInv, NEW d \in Driver, Recheck(d)
    PROVE  IInv'
<1>1. /\ drv[d].pc = "register" /\ UNCHANGED <<setup, cancels, cancelAt, faults, ran>>
      /\ Uncommitted /\ drv \in [Driver -> Drive] /\ DriveOK(d) /\ drv[d] \in Drive
    BY Known DEF Recheck
<1>2. run' = run /\ RestTyped' /\ CancelsTyped'
    BY <1>1, QuietTyped
<1>3. /\ drv[d].pc \in Drives /\ drv[d].fence <= run.epoch
      /\ drv[d].op \in 1 .. Len(run.ops) /\ drv[d].op \in Nat
      /\ Mine(d) => run.status \in {"Operating", "Cancelling"} /\ drv[d].op = Len(run.ops)
    BY <1>1, DriveFields DEF Drives, Executes, DriveOK
<1>4. CASE StillOperating(d)
  <2>1. "start" \in Pc /\ Goto(d, "start")
    BY <1>4 DEF Pc, Recheck
  <2>2. /\ drv' \in [Driver -> Drive]
        /\ drv'[d].pc = "start" /\ drv'[d].fence = drv[d].fence /\ drv'[d].op = drv[d].op
        /\ \A e \in Driver : e # d => drv'[e] = drv[e]
    BY <1>1, <2>1, GotoFields
  <2>3. Mine(d)' => Mine(d)
    BY <1>2, <2>2 DEF Mine
  <2>4. DriveOK(d)'
    BY <1>2, <1>3, <2>2, <2>3 DEF DriveOK, Boundary
  <2>5. QED
    BY <1>1, <1>2, <1>3, <2>2, <2>4, QuietKeeps
<1>5. CASE ~StillOperating(d)
  <2>1. FinishWith(d, drv[d].op, "cancelled")
    BY <1>5 DEF Recheck
  <2>2. /\ drv' \in [Driver -> Drive]
        /\ drv'[d].pc = "finish" /\ drv'[d].fence = drv[d].fence /\ drv'[d].op = drv[d].op
        /\ \A e \in Driver : e # d => drv'[e] = drv[e]
    BY <1>1, <1>3, <2>1, FinishWithFields
  <2>3. Mine(d)' => Mine(d)
    BY <1>2, <2>2 DEF Mine
  <2>4. Mine(d) => run.status = "Cancelling"
    BY <1>3, <1>5 DEF StillOperating, InFlight
  <2>5. DriveOK(d)'
    BY <1>2, <1>3, <2>2, <2>3, <2>4 DEF DriveOK, Boundary
  <2>6. QED
    BY <1>1, <1>2, <1>3, <2>2, <2>5, QuietKeeps
<1>6. QED
    BY <1>4, <1>5

\* The operation is over, or was not started: the drive has a result to commit.
LEMMA OverKeeps ==
    ASSUME IInv, NEW d \in Driver, drv[d].pc \in {"start", "run"},
           NEW outcome \in {"done", "waiting", "cancelled"},
           FinishWith(d, drv[d].op, outcome),
           outcome = "cancelled" => cancels # {},
           Uncommitted, UNCHANGED <<setup, cancels, cancelAt, faults, ran>>
    PROVE  IInv'
<1>1. drv \in [Driver -> Drive] /\ DriveOK(d) /\ drv[d] \in Drive
    BY Known
<1>2. run' = run /\ RestTyped' /\ CancelsTyped'
    BY QuietTyped
<1>3. /\ drv[d].pc \in Drives /\ drv[d].fence <= run.epoch
      /\ drv[d].op \in 1 .. Len(run.ops) /\ drv[d].op \in Nat
      /\ Mine(d) => run.status \in {"Operating", "Cancelling"} /\ drv[d].op = Len(run.ops)
    BY <1>1, DriveFields DEF Drives, Executes, DriveOK
<1>4. /\ drv' \in [Driver -> Drive]
      /\ drv'[d].pc = "finish" /\ drv'[d].fence = drv[d].fence /\ drv'[d].op = drv[d].op
      /\ drv'[d].outcome = outcome
      /\ \A e \in Driver : e # d => drv'[e] = drv[e]
    BY <1>1, <1>3, FinishWithFields
<1>5. Mine(d)' => Mine(d)
    BY <1>2, <1>4 DEF Mine
<1>6. outcome = "cancelled" /\ Mine(d) => run.status = "Cancelling"
    BY <1>3 DEF IInv, CancelsOK
<1>7. DriveOK(d)'
    BY <1>2, <1>3, <1>4, <1>5, <1>6 DEF DriveOK, Boundary
<1>8. QED
    BY <1>2, <1>3, <1>4, <1>7, QuietKeeps

LEMMA ReturnKeeps ==
    ASSUME IInv, NEW d \in Driver, Return(d) \/ Interrupt(d)
    PROVE  IInv'
<1>1. Cancelled(d) => cancels # {}
    BY DEF Cancelled
<1>2. QED
    BY <1>1, OverKeeps DEF Return, Interrupt

LEMMA RenewTickKeeps ==
    ASSUME IInv, NEW d \in Driver, RenewTick(d)
    PROVE  IInv'
<1>1. /\ drv[d].pc = "run" /\ UNCHANGED <<setup, cancelAt, faults, ran>>
      /\ Uncommitted /\ DriveOK(d)
    BY Known DEF RenewTick
<1>2. CASE End(d) /\ UNCHANGED cancels
    BY <1>1, <1>2, QuietTyped, EndKeeps
<1>3. CASE /\ Fenced(d) /\ SeesStop
           /\ cancels' = cancels \union {<<d, drv[d].op>>} /\ UNCHANGED drv
  <2>1. run' = run /\ RestTyped'
    BY <1>1, Known, UncommittedKeeps
  <2>2. drv[d].op \in 1 .. Len(run.ops) /\ Len(run.ops) <= setup.ops
    BY <1>1, Known DEF DriveOK, Executes, Draft
  <2>3. drv[d].op \in 1 .. setup.ops /\ Len(run.ops) > 0
    BY <2>2, Known
  <2>4. CancelsTyped'
    BY <1>1, <1>3, <2>1, <2>3 DEF CancelsTyped, CancelsOK, IInv, TypeOK, SeesStop
  <2>5. QED
    BY <1>1, <1>3, <2>1, <2>4, IdleKeeps
<1>4. QED
    BY <1>2, <1>3 DEF RenewTick

LEMMA FinishKeeps ==
    ASSUME IInv, NEW d \in Driver, Finish(d)
    PROVE  IInv'
<1>1. /\ drv[d].pc = "finish" /\ UNCHANGED <<setup, cancelAt, faults, ran>>
      /\ RecordOK(run) /\ drv \in [Driver -> Drive] /\ DriveOK(d) /\ drv[d] \in Drive
    BY Known DEF Finish
<1>2. CASE Fenced(d) /\ run.status \in {"Operating", "Cancelling"} /\ InFlight(run) = drv[d].op
  <2> DEFINE s == Finished(run, drv[d].outcome)
             x == [Away EXCEPT !.pc = "loop", !.fence = drv[d].fence]
  <2>1. /\ Commit(run, s) /\ cancels' = cancels \ {<<d, drv[d].op>>}
        /\ drv' = [drv EXCEPT ![d] = x]
    BY <1>2 DEF Finish
  <2>2. Mine(d) /\ (drv[d].outcome \notin {"done", "waiting"} => run.status = "Cancelling")
    BY <1>1, <1>2 DEF Fenced, DriveOK
  <2>3. RecordOK(s) /\ Follows(run, s) /\ NothingBegun(run, s) /\ s.status # "Operating"
    BY <1>1, <1>2, <2>2, FinishedOK, Zenon
  <2>4. x \in Drive /\ x.pc = "loop" /\ x.fence = drv[d].fence
    BY <1>1, DriveFields, NewDrive, Zenon
  <2> HIDE DEF s, x
  <2>5. s \in Run /\ run' = s /\ RestTyped'
    BY <1>1, <2>1, <2>3, CommitKeeps DEF RecordOK, Draft
  <2>6. CancelsTyped'
    BY <1>1, <2>1, <2>3, <2>5, CancelsKeep
  <2>7. /\ drv' \in [Driver -> Drive] /\ drv'[d] = x
        /\ \A e \in Driver : e # d => drv'[e] = drv[e]
    BY <1>1, <2>1, <2>4, DriveTyped
  <2>8. drv[d].pc \in Drives
    BY <1>1 DEF Drives, Executes
  <2>9. drv'[d].fence <= run'.epoch
    <3>1. drv[d].fence <= run.epoch /\ run.epoch <= run'.epoch
      BY <1>1, <2>3, <2>5 DEF DriveOK, Follows
    <3>2. drv[d].fence \in Nat /\ run.epoch \in Nat /\ run'.epoch \in Nat
      BY <2>5, Known, DriveFields, RunFields
    <3>3. QED
      BY <2>4, <2>7, <3>1, <3>2
  <2>10. DriveOK(d)'
    BY <2>4, <2>7, <2>9, LoopOK
  <2>11. RecordOK(run') /\ Follows(run, run') /\ NothingBegun(run, run')
         /\ run'.status # "Operating"
    BY <2>3, <2>5
  <2>12. QED
    BY <1>1, <2>2, <2>4, <2>5, <2>6, <2>7, <2>8, <2>10, <2>11, StepKeeps
<1>3. CASE ~(Fenced(d) /\ run.status \in {"Operating", "Cancelling"} /\ InFlight(run) = drv[d].op)
  <2>1. Uncommitted /\ End(d) /\ UNCHANGED cancels
    BY <1>3 DEF Finish
  <2>2. QED
    BY <1>1, <2>1, QuietTyped, EndKeeps
<1>4. QED
    BY <1>2, <1>3

LEMMA ReadForFinalizeKeeps ==
    ASSUME IInv, NEW d \in Driver, ReadForFinalize(d)
    PROVE  IInv'
<1>1. /\ drv[d].pc = "finalize" /\ UNCHANGED <<setup, cancels, cancelAt, faults, ran>>
      /\ Uncommitted /\ drv \in [Driver -> Drive] /\ DriveOK(d) /\ run \in Run
      /\ drv[d] \in Drive
    BY Known DEF ReadForFinalize
<1>2. run' = run /\ RestTyped' /\ CancelsTyped'
    BY <1>1, QuietTyped
<1>3. CASE ~run.finalized
  <2> DEFINE x == [drv[d] EXCEPT !.pc = "finalizing", !.seen = run]
  <2>1. drv' = [drv EXCEPT ![d] = x]
    BY <1>3 DEF ReadForFinalize
  <2>2. x \in Drive
    <3>1. run \in Run \union {None} /\ "finalizing" \in Pc
      BY <1>1 DEF Pc
    <3>2. QED
      BY <1>1, <3>1 DEF Drive
  <2>3. x.pc = "finalizing" /\ x.seen = run /\ x.fence = drv[d].fence
    BY <1>1 DEF Drive
  <2> HIDE DEF x
  <2>4. /\ drv' \in [Driver -> Drive] /\ drv'[d] = x
        /\ \A e \in Driver : e # d => drv'[e] = drv[e]
    BY <1>1, <2>1, <2>2, DriveTyped
  <2>5. x.pc \notin Drives
    BY <2>3 DEF Drives, Boundary, Executes
  <2>6. DriveOK(d)'
    BY <1>1, <1>2, <2>3, <2>4 DEF DriveOK, Executes, Boundary
  <2>7. QED
    BY <1>1, <1>2, <2>3, <2>4, <2>5, <2>6, QuietKeeps
<1>4. CASE run.finalized
    BY <1>1, <1>2, <1>4, EndKeeps DEF ReadForFinalize
<1>5. QED
    BY <1>3, <1>4

LEMMA CommitFinalizeKeeps ==
    ASSUME IInv, NEW d \in Driver, CommitFinalize(d)
    PROVE  IInv'
<1>1. /\ drv[d].pc = "finalizing" /\ UNCHANGED <<setup, cancels, cancelAt, faults, ran>>
      /\ RecordOK(run) /\ drv \in [Driver -> Drive] /\ DriveOK(d) /\ drv[d] \in Drive
    BY Known DEF CommitFinalize
<1>2. CASE Unchanged(d)
  <2> DEFINE s == Delivered(run)
             x == [drv[d] EXCEPT !.pc = "finalize", !.seen = None]
  <2>1. Commit(run, s) /\ drv' = [drv EXCEPT ![d] = x]
    BY <1>2 DEF CommitFinalize, Unchanged
  <2>2. run.status = "Terminal"
    BY <1>1 DEF DriveOK
  <2>3. Moves(run, s)
    BY <1>1, <2>2, DeliveredMoves
  <2>4. x \in Drive
    <3>1. None \in Run \union {None} /\ "finalize" \in Pc
      BY DEF Pc
    <3>2. QED
      BY <1>1, <3>1 DEF Drive
  <2>5. x.pc = "finalize" /\ x.fence = drv[d].fence
    BY <1>1 DEF Drive
  <2> HIDE DEF s, x
  <2>6. s \in Run /\ run' = s /\ RestTyped'
    BY <1>1, <2>1, <2>3, CommitKeeps DEF Moves, RecordOK, Draft
  <2>7. RecordOK(run') /\ Follows(run, run') /\ NothingBegun(run, run') /\ Aside(run, run')
    BY <2>3, <2>6 DEF Moves
  <2>8. CancelsTyped'
    BY <1>1, <2>7, CancelsKeep
  <2>9. /\ drv' \in [Driver -> Drive] /\ drv'[d] = x
        /\ \A e \in Driver : e # d => drv'[e] = drv[e]
    BY <1>1, <2>1, <2>4, DriveTyped
  <2>10. x.pc \notin Drives
    BY <2>5 DEF Drives, Boundary, Executes
  <2>11. drv'[d].fence <= run'.epoch /\ run'.status = "Terminal"
    <3>1. drv[d].fence <= run.epoch /\ run.epoch <= run'.epoch /\ run'.status = "Terminal"
      BY <1>1, <2>2, <2>7 DEF DriveOK, Follows
    <3>2. drv[d].fence \in Nat /\ run.epoch \in Nat /\ run'.epoch \in Nat
      BY <2>6, Known, DriveFields, RunFields
    <3>3. QED
      BY <2>5, <2>9, <3>1, <3>2
  <2>12. DriveOK(d)'
    BY <2>5, <2>9, <2>11 DEF DriveOK, Executes, Boundary
  <2>13. QED
    BY <1>1, <2>5, <2>6, <2>7, <2>8, <2>9, <2>10, <2>12, StepKeeps
<1>3. CASE ~Unchanged(d)
  <2>1. Uncommitted /\ End(d)
    BY <1>3 DEF CommitFinalize
  <2>2. QED
    BY <1>1, <2>1, QuietTyped, EndKeeps
<1>4. QED
    BY <1>2, <1>3

\* The drives and their fences, when an operation may begin or be reached.
LEMMA DrivesKeep ==
    ASSUME IInv, setup' = setup, RecordOK(run'), Follows(run, run'), NEW d \in Driver,
           \A e \in Driver : e # d => drv'[e] = drv[e],
           Aside(run, run') \/ Mine(d),
           DriveOK(d)', drv[d].pc \in Drives, drv'[d].fence = drv[d].fence
    PROVE  (\A e \in Driver : DriveOK(e)') /\ FencesDiffer'
<1>1. /\ RecordOK(run) /\ FencesDiffer /\ drv \in [Driver -> Drive]
      /\ \A e \in Driver : DriveOK(e) /\ drv[e] \in Drive
    BY DEF IInv, TypeOK
<1>2. \A e \in Driver : DriveOK(e)'
  <2> SUFFICES ASSUME NEW e \in Driver, e # d
               PROVE  DriveOK(e)'
    OBVIOUS
  <2>1. Aside(run, run') \/ ~Mine(e)
    BY DEF Mine
  <2>2. QED
    BY <1>1, <2>1, OthersKeep
<1>3. /\ run.epoch \in Nat /\ run'.epoch \in Nat
      /\ \A e \in Driver : drv[e].fence \in Nat /\ drv[e].fence <= run.epoch
    BY <1>1, RunFields, DriveFields DEF RecordOK, Draft, DriveOK
<1>4. FencesDiffer'
    BY <1>1, <1>3, FencesKeep
<1>5. QED
    BY <1>2, <1>4

\* begin_in: nobody has started, or is about to start, an operation that is new.
LEMMA BeginStarts ==
    ASSUME IInv, setup' = setup, ran' = ran, RecordOK(run'), Begins(run, run'),
           NEW d \in Driver, \A e \in Driver : e # d => drv'[e] = drv[e],
           drv'[d].pc = "loop"
    PROVE  StartsOK'
<1>1. /\ Len(run.ops) \in Nat /\ Len(run'.ops) = Len(run.ops) + 1
      /\ \A o \in 1 .. Len(run.ops) : run'.ops[o] = run.ops[o]
      /\ Len(run'.ops) <= setup.ops /\ setup.ops \in Nat
    BY Known DEF Begins
<1>2. StartsOK /\ \A e \in Driver : DriveOK(e)
    BY DEF IInv
<1>3. \A e \in Driver : \A o : Starting(e, o)' => Starting(e, o)
    BY DEF Starting
<1>4. \A e \in Driver : \A o : Starting(e, o)' => o \in 1 .. Len(run.ops)
    BY <1>2, <1>3 DEF Starting, DriveOK, Executes
<1>5. ran[Len(run'.ops)] = 0
  <2>1. Len(run'.ops) \in 1 .. setup.ops /\ Len(run'.ops) > Len(run.ops)
    BY <1>1
  <2>2. QED
    BY <1>2, <2>1 DEF StartsOK
<1>6. \A o \in 1 .. setup'.ops : o > Len(run'.ops) => ran'[o] = 0
    BY <1>1, <1>2 DEF StartsOK
<1>7. ASSUME NEW o \in 1 .. Len(run'.ops), ~run'.ops[o].replay_safe
      PROVE  /\ ran'[o] <= 1
             /\ \A e \in Driver : Starting(e, o)' => ran'[o] = 0
             /\ \A a, e \in Driver : Starting(a, o)' /\ Starting(e, o)' => a = e
             /\ run'.status = "Operating" /\ o = Len(run'.ops) =>
                  \A e \in Driver :
                      /\ Starting(e, o)' => drv'[e].fence = run'.epoch
                      /\ drv'[e].pc = "loop" /\ Mine(e)' => ran'[o] = 0
  <2>1. CASE o = Len(run'.ops)
    <3>1. \A e \in Driver : ~Starting(e, o)'
      BY <1>1, <1>4, <2>1
    <3>2. QED
      BY <1>5, <2>1, <3>1
  <2>2. CASE o # Len(run'.ops)
    <3>1. o \in 1 .. Len(run.ops) /\ ~run.ops[o].replay_safe
      BY <1>1, <1>7, <2>2
    <3>2. /\ ran[o] <= 1
          /\ \A e \in Driver : Starting(e, o) => ran[o] = 0
          /\ \A a, e \in Driver : Starting(a, o) /\ Starting(e, o) => a = e
      BY <1>2, <3>1 DEF StartsOK
    <3>3. QED
      BY <1>3, <2>2, <3>2
  <2>3. QED
    BY <2>1, <2>2
<1>8. QED
    BY <1>6, <1>7 DEF StartsOK

LEMMA StallKeeps ==
    ASSUME IInv, NEW d \in Driver, Stall(d)
    PROVE  IInv'
<1>1. /\ drv[d].pc = "stalled" /\ UNCHANGED <<setup, cancels, cancelAt, faults, ran>>
      /\ RecordOK(run) /\ drv \in [Driver -> Drive] /\ DriveOK(d) /\ drv[d] \in Drive
      /\ drv[d].pc \in Drives
    BY Known DEF Stall, Drives, Boundary
<1>2. CASE ~(Fenced(d) /\ run.status = "Idle")
  <2>1. Uncommitted /\ End(d)
    BY <1>2 DEF Stall
  <2>2. QED
    BY <1>1, <2>1, QuietTyped, EndKeeps
<1>3. CASE Fenced(d) /\ run.status = "Idle"
  <2> DEFINE x == [drv[d] EXCEPT !.pc = "loop", !.seen = None]
             s == Terminate(run, FALSE)
  <2>1. x \in Drive
    <3>1. None \in Run \union {None} /\ "loop" \in Pc
      BY DEF Pc
    <3>2. QED
      BY <1>1, <3>1 DEF Drive
  <2>2. x.pc = "loop" /\ x.fence = drv[d].fence
    BY <1>1 DEF Drive
  <2>3. drv' = [drv EXCEPT ![d] = x] /\ Commit(run, s)
    BY <1>3 DEF Stall
  <2> HIDE DEF x
  <2>4. /\ drv' \in [Driver -> Drive] /\ drv'[d] = x
        /\ \A e \in Driver : e # d => drv'[e] = drv[e]
    BY <1>1, <2>1, <2>3, DriveTyped
  <2>5. Moves(run, s)
    BY <1>1, <1>3, TerminateMoves DEF RecordOK
  <2> HIDE DEF s
  <2>6. Mine(d) /\ drv[d].fence <= run.epoch
    BY <1>1, <1>3 DEF Fenced, DriveOK
  <2>7. s \in Run /\ run' = s /\ RestTyped'
    BY <1>1, <2>3, <2>5, CommitKeeps DEF Moves, RecordOK, Draft
  <2>8. RecordOK(run') /\ Follows(run, run') /\ NothingBegun(run, run')
    BY <2>5, <2>7 DEF Moves
  <2>9. CancelsTyped'
    BY <1>1, <2>8, CancelsKeep
  <2>10. drv'[d].fence <= run'.epoch
    <3>1. run.epoch <= run'.epoch
      BY <2>8 DEF Follows
    <3>2. drv[d].fence \in Nat /\ run.epoch \in Nat /\ run'.epoch \in Nat
      BY <2>7, Known, DriveFields, RunFields
    <3>3. QED
      BY <2>2, <2>4, <2>6, <3>1, <3>2
  <2>11. DriveOK(d)'
    BY <2>2, <2>4, <2>10, LoopOK
  <2>12. run'.status # "Operating"
    BY <1>3, <2>8 DEF NothingBegun
  <2>13. QED
    BY <1>1, <2>2, <2>4, <2>6, <2>7, <2>8, <2>9, <2>11, <2>12, StepKeeps
<1>4. QED
    BY <1>2, <1>3

LEMMA CommitStepKeeps ==
    ASSUME IInv, NEW d \in Driver, CommitStep(d)
    PROVE  IInv'
<1>1. /\ drv[d].pc = "reduce" /\ UNCHANGED <<setup, cancels, cancelAt, faults, ran>>
      /\ RecordOK(run) /\ drv \in [Driver -> Drive] /\ DriveOK(d) /\ drv[d] \in Drive
      /\ drv[d].pc \in Drives
    BY Known DEF CommitStep, Drives, Boundary
<1>2. CASE ~Fenced(d)
  <2>1. Uncommitted /\ End(d)
    BY <1>2 DEF CommitStep
  <2>2. QED
    BY <1>1, <2>1, QuietTyped, EndKeeps
<1>3. CASE Fenced(d)
  <2> DEFINE x == [drv[d] EXCEPT !.pc = "loop", !.seen = None]
  <2>1. x \in Drive
    <3>1. None \in Run \union {None} /\ "loop" \in Pc
      BY DEF Pc
    <3>2. QED
      BY <1>1, <3>1 DEF Drive
  <2>2. x.pc = "loop" /\ x.fence = drv[d].fence
    BY <1>1 DEF Drive
  <2>3. drv' = [drv EXCEPT ![d] = x]
    BY <1>3 DEF CommitStep
  <2> HIDE DEF x
  <2>4. /\ drv' \in [Driver -> Drive] /\ drv'[d] = x
        /\ \A e \in Driver : e # d => drv'[e] = drv[e]
    BY <1>1, <2>1, <2>3, DriveTyped
  <2>5. Mine(d) /\ run.status = "Idle" /\ drv[d].fence <= run.epoch
        /\ Deliverable(drv[d].seen)
    BY <1>1, <1>3 DEF Fenced, DriveOK, Boundary
  <2>6. CASE ~Unchanged(d)
    <3>1. Uncommitted
      BY <2>6 DEF CommitStep
    <3>2. run' = run /\ RestTyped' /\ CancelsTyped'
      BY <1>1, <3>1, QuietTyped
    <3>3. DriveOK(d)'
      BY <2>2, <2>4, <2>5, <3>2, LoopOK
    <3>4. QED
      BY <1>1, <2>2, <2>4, <2>5, <3>2, <3>3, QuietKeeps
  <2>7. CASE Unchanged(d)
    <3>1. Deliverable(run)
      BY <2>5, <2>7 DEF Unchanged
    <3>2. PICK s \in DomainStep(run) : Commit(run, s)
      BY <1>3, <2>7 DEF CommitStep, Unchanged
    <3>3. BoundaryMoves(run, s)
      BY <1>1, <2>5, <3>1, Known, DomainStepMoves
    <3>4. s \in Run /\ run' = s /\ RestTyped'
      BY <1>1, <3>2, <3>3, CommitKeeps DEF BoundaryMoves, RecordOK, Draft
    <3>5. /\ RecordOK(run') /\ Follows(run, run')
          /\ NothingBegun(run, run') \/ Begins(run, run')
      BY <3>3, <3>4 DEF BoundaryMoves
    <3>6. CancelsTyped'
      BY <1>1, <3>5, CancelsKeep
    <3>7. drv'[d].fence <= run'.epoch
      <4>1. run.epoch <= run'.epoch
        BY <3>5 DEF Follows
      <4>2. drv[d].fence \in Nat /\ run.epoch \in Nat /\ run'.epoch \in Nat
        BY <3>4, Known, DriveFields, RunFields
      <4>3. QED
        BY <2>2, <2>4, <2>5, <4>1, <4>2
    <3>8. DriveOK(d)'
      BY <2>2, <2>4, <3>7, LoopOK
    <3>9. CASE NothingBegun(run, run')
      <4>1. run'.status # "Operating"
        BY <2>5, <3>9 DEF NothingBegun
      <4>2. QED
        BY <1>1, <2>2, <2>4, <2>5, <3>4, <3>5, <3>6, <3>8, <3>9, <4>1, StepKeeps
    <3>10. CASE Begins(run, run')
      <4>1. StartsOK'
        BY <1>1, <2>2, <2>4, <3>5, <3>10, BeginStarts
      <4>2. (\A e \in Driver : DriveOK(e)') /\ FencesDiffer'
        BY <1>1, <2>2, <2>4, <2>5, <3>5, <3>8, DrivesKeep
      <4>3. ran' \in [1 .. setup.ops -> Nat]
        BY <1>1 DEF IInv, TypeOK
      <4>4. QED
        BY <1>1, <2>4, <3>4, <3>5, <3>6, <4>1, <4>2, <4>3, Assembles
    <3>11. QED
      BY <3>5, <3>9, <3>10
  <2>8. QED
    BY <2>6, <2>7
<1>4. QED
    BY <1>2, <1>3

\* drive_loop finds an operation in flight: no other drive is about to start it.
LEMMA ReachStarts ==
    ASSUME IInv, setup' = setup, ran' = ran, run' = run, NEW d \in Driver,
           drv[d].pc = "loop", Mine(d), run.status = "Operating",
           \A e \in Driver : e # d => drv'[e] = drv[e],
           drv'[d].pc = "register", drv'[d].op = Len(run.ops), drv'[d].fence = drv[d].fence
    PROVE  StartsOK'
<1>1. StartsOK /\ FencesDiffer /\ Len(run.ops) \in Nat
    BY Known DEF IInv
<1>2. \A e \in Driver : \A o : Starting(e, o)' => Starting(e, o) \/ (e = d /\ o = Len(run.ops))
    BY DEF Starting
<1>3. \A e \in Driver : \A o : e # d /\ Starting(e, o)' => Starting(e, o) /\ drv'[e].fence = drv[e].fence
    BY DEF Starting
<1>4. \A e \in Driver : e # d /\ drv[e].pc \in Drives => drv[e].fence # run.epoch
    BY <1>1 DEF FencesDiffer, Mine, Drives
<1>5. \A e \in Driver : drv'[e].pc = "loop" /\ Mine(e)' => drv[e].pc = "loop" /\ Mine(e)
    BY DEF Mine
<1>6. drv'[d].fence = run'.epoch
    BY DEF Mine
<1>7. \A o : Starting(d, o)' => o = Len(run.ops)
    BY DEF Starting
<1>8. \A o \in 1 .. setup'.ops : o > Len(run'.ops) => ran'[o] = 0
    BY <1>1 DEF StartsOK
<1>9. ASSUME NEW o \in 1 .. Len(run'.ops), ~run'.ops[o].replay_safe
      PROVE  /\ ran'[o] <= 1
             /\ \A e \in Driver : Starting(e, o)' => ran'[o] = 0
             /\ \A a, e \in Driver : Starting(a, o)' /\ Starting(e, o)' => a = e
             /\ run'.status = "Operating" /\ o = Len(run'.ops) =>
                  \A e \in Driver :
                      /\ Starting(e, o)' => drv'[e].fence = run'.epoch
                      /\ drv'[e].pc = "loop" /\ Mine(e)' => ran'[o] = 0
  <2>1. /\ ran[o] <= 1
        /\ \A e \in Driver : Starting(e, o) => ran[o] = 0
        /\ \A a, e \in Driver : Starting(a, o) /\ Starting(e, o) => a = e
        /\ o = Len(run.ops) =>
             \A e \in Driver :
                 /\ Starting(e, o) => drv[e].fence = run.epoch
                 /\ drv[e].pc = "loop" /\ Mine(e) => ran[o] = 0
    BY <1>1, <1>9 DEF StartsOK
  <2>2. CASE o # Len(run.ops)
    BY <1>2, <2>1, <2>2
  <2>3. CASE o = Len(run.ops)
    <3>1. ran[o] = 0
      BY <2>1, <2>3
    <3>2. \A e \in Driver : e # d => ~Starting(e, o)'
      BY <1>3, <1>4, <2>1, <2>3 DEF Starting, Drives, Executes
    <3>3. QED
      BY <1>6, <3>1, <3>2
  <2>4. QED
    BY <2>2, <2>3
<1>10. QED
    BY <1>8, <1>9 DEF StartsOK

LEMMA ReloadKeeps ==
    ASSUME IInv, NEW d \in Driver, Reload(d)
    PROVE  IInv'
<1>1. /\ drv[d].pc = "loop" /\ UNCHANGED <<setup, cancels, cancelAt, faults, ran>>
      /\ Uncommitted /\ drv \in [Driver -> Drive] /\ DriveOK(d) /\ drv[d] \in Drive
      /\ drv[d].pc \in Drives /\ Draft(run) /\ Len(run.ops) \in Nat
    BY Known DEF Reload, Drives
<1>2. run' = run /\ RestTyped' /\ CancelsTyped'
    BY <1>1, QuietTyped
<1>3. drv[d].fence <= run.epoch
    BY <1>1 DEF DriveOK
<1>4. CASE Mine(d) /\ run.status = "Operating"
  <2> DEFINE x == [drv[d] EXCEPT !.pc = "register", !.op = Len(run.ops)]
  <2>1. drv' = [drv EXCEPT ![d] = x]
    BY <1>4 DEF Reload, InFlight
  <2>2. x \in Drive
    <3>1. "register" \in Pc
      BY DEF Pc
    <3>2. QED
      BY <1>1, <3>1 DEF Drive
  <2>3. x.pc = "register" /\ x.op = Len(run.ops) /\ x.fence = drv[d].fence
    BY <1>1 DEF Drive
  <2> HIDE DEF x
  <2>4. /\ drv' \in [Driver -> Drive] /\ drv'[d] = x
        /\ \A e \in Driver : e # d => drv'[e] = drv[e]
    BY <1>1, <2>1, <2>2, DriveTyped
  <2>5. Len(run.ops) \in 1 .. Len(run.ops)
    BY <1>1, <1>4 DEF Draft
  <2>6. DriveOK(d)'
    BY <1>2, <1>3, <1>4, <2>3, <2>4, <2>5 DEF DriveOK, Boundary
  <2>7. RecordOK(run') /\ Follows(run, run') /\ Aside(run, run')
    BY <1>2, Known, StaysSame DEF Moves
  <2>8. StartsOK'
    BY <1>1, <1>2, <1>4, <2>3, <2>4, ReachStarts
  <2>9. (\A e \in Driver : DriveOK(e)') /\ FencesDiffer'
    BY <1>1, <2>3, <2>4, <2>6, <2>7, DrivesKeep
  <2>10. ran' \in [1 .. setup.ops -> Nat]
    BY <1>1 DEF IInv, TypeOK
  <2>11. QED
    BY <1>1, <1>2, <2>4, <2>7, <2>8, <2>9, <2>10, Assembles
<1>5. CASE Mine(d) /\ run.status = "Idle"
  <2>1. "boundary" \in Pc /\ Goto(d, "boundary")
    BY <1>5 DEF Pc, Reload
  <2>2. /\ drv' \in [Driver -> Drive]
        /\ drv'[d].pc = "boundary" /\ drv'[d].fence = drv[d].fence
        /\ \A e \in Driver : e # d => drv'[e] = drv[e]
    BY <1>1, <2>1, GotoFields
  <2>3. DriveOK(d)'
    BY <1>2, <1>3, <1>5, <2>2 DEF DriveOK, Executes
  <2>4. QED
    BY <1>1, <1>2, <2>2, <2>3, QuietKeeps
<1>6. CASE Mine(d) /\ run.status = "Cancelling"
  <2>1. FinishWith(d, Len(run.ops), "cancelled")
    BY <1>6 DEF Reload, InFlight
  <2>2. /\ drv' \in [Driver -> Drive]
        /\ drv'[d].pc = "finish" /\ drv'[d].fence = drv[d].fence /\ drv'[d].op = Len(run.ops)
        /\ \A e \in Driver : e # d => drv'[e] = drv[e]
    BY <1>1, <2>1, FinishWithFields
  <2>3. Len(run.ops) \in 1 .. Len(run.ops)
    BY <1>1, <1>6 DEF Draft
  <2>4. DriveOK(d)'
    BY <1>2, <1>3, <1>6, <2>2, <2>3 DEF DriveOK, Boundary
  <2>5. QED
    BY <1>1, <1>2, <2>2, <2>4, QuietKeeps
<1>7. CASE run.status = "Terminal" /\ Goto(d, "finalize")
    BY <1>1, <1>2, <1>7, ToFinalizeKeeps
<1>8. CASE End(d)
    BY <1>1, <1>2, <1>8, EndKeeps
<1>9. QED
    BY <1>4, <1>5, <1>6, <1>7, <1>8 DEF Reload

LEMMA StartKeeps ==
    ASSUME IInv, NEW d \in Driver, Start(d)
    PROVE  IInv'
<1>1. /\ drv[d].pc = "start" /\ UNCHANGED <<setup, cancels, cancelAt, faults>>
      /\ Uncommitted /\ drv \in [Driver -> Drive] /\ DriveOK(d) /\ drv[d] \in Drive
      /\ drv[d].pc \in Drives /\ Draft(run) /\ Len(run.ops) \in Nat /\ setup.ops \in Nat
    BY Known DEF Start, Drives, Executes
<1>2. run' = run /\ RestTyped' /\ CancelsTyped'
    BY <1>1, QuietTyped
<1>3. CASE Cancelled(d)
  <2>1. FinishWith(d, drv[d].op, "cancelled") /\ UNCHANGED ran /\ cancels # {}
    BY <1>3 DEF Start, Cancelled
  <2>2. QED
    BY <1>1, <2>1, OverKeeps
<1>4. CASE ~Cancelled(d)
  <2> DEFINE p == drv[d].op
  <2>1. "run" \in Pc /\ Goto(d, "run") /\ ran' = [ran EXCEPT ![p] = @ + 1]
    BY <1>4 DEF Pc, Start
  <2>2. /\ drv' \in [Driver -> Drive]
        /\ drv'[d].pc = "run" /\ drv'[d].fence = drv[d].fence /\ drv'[d].op = p
        /\ \A e \in Driver : e # d => drv'[e] = drv[e]
    BY <1>1, <2>1, GotoFields
  <2>3. /\ p \in 1 .. Len(run.ops) /\ drv[d].fence <= run.epoch
        /\ Mine(d) => run.status \in {"Operating", "Cancelling"} /\ p = Len(run.ops)
    BY <1>1 DEF DriveOK, Executes
  <2>4. Mine(d)' => Mine(d)
    BY <1>2, <2>2 DEF Mine
  <2>5. DriveOK(d)'
    BY <1>2, <2>2, <2>3, <2>4 DEF DriveOK, Boundary
  <2>6. RecordOK(run') /\ Follows(run, run') /\ Aside(run, run')
    BY <1>2, Known, StaysSame DEF Moves
  <2>7. (\A e \in Driver : DriveOK(e)') /\ FencesDiffer'
    BY <1>1, <2>2, <2>5, <2>6, DrivesKeep
  <2>8. ran \in [1 .. setup.ops -> Nat] /\ p \in 1 .. setup.ops
    BY <1>1, <2>3 DEF IInv, TypeOK, Draft
  <2> HIDE DEF p
  <2>9. /\ ran' \in [1 .. setup.ops -> Nat] /\ ran'[p] = ran[p] + 1
        /\ \A o \in 1 .. setup.ops : o # p => ran'[o] = ran[o]
    BY <2>1, <2>8
  <2>10. StartsOK'
    <3>1. StartsOK /\ FencesDiffer
      BY DEF IInv
    <3>2. \A e \in Driver : \A o : Starting(e, o)' => Starting(e, o) /\ e # d
                                                      /\ drv'[e].fence = drv[e].fence
      BY <2>2 DEF Starting
    <3>3. \A e \in Driver : drv'[e].pc = "loop" /\ Mine(e)' => drv[e].pc = "loop" /\ Mine(e)
      BY <1>2, <2>2 DEF Mine
    <3>4. \A o \in 1 .. setup'.ops : o > Len(run'.ops) => ran'[o] = 0
      BY <1>1, <1>2, <2>3, <2>9, <3>1 DEF StartsOK
    <3>5. Starting(d, p)
      BY <1>1 DEF Starting, p
    <3>6. ASSUME NEW o \in 1 .. Len(run'.ops), ~run'.ops[o].replay_safe
          PROVE  /\ ran'[o] <= 1
                 /\ \A e \in Driver : Starting(e, o)' => ran'[o] = 0
                 /\ \A a, e \in Driver : Starting(a, o)' /\ Starting(e, o)' => a = e
                 /\ run'.status = "Operating" /\ o = Len(run'.ops) =>
                      \A e \in Driver :
                          /\ Starting(e, o)' => drv'[e].fence = run'.epoch
                          /\ drv'[e].pc = "loop" /\ Mine(e)' => ran'[o] = 0
      <4>1. /\ ran[o] <= 1
            /\ \A e \in Driver : Starting(e, o) => ran[o] = 0
            /\ \A a, e \in Driver : Starting(a, o) /\ Starting(e, o) => a = e
            /\ run.status = "Operating" /\ o = Len(run.ops) =>
                 \A e \in Driver :
                     /\ Starting(e, o) => drv[e].fence = run.epoch
                     /\ drv[e].pc = "loop" /\ Mine(e) => ran[o] = 0
        BY <1>2, <3>1, <3>6 DEF StartsOK
      <4>2. o \in 1 .. setup.ops
        BY <1>1, <1>2 DEF Draft
      <4>3. CASE o # p
        <5>1. ran'[o] = ran[o]
          BY <2>9, <4>2, <4>3
        <5>2. QED
          BY <1>2, <3>2, <3>3, <4>1, <5>1
      <4>4. CASE o = p
        <5>1. ran'[o] = 1 /\ \A e \in Driver : ~Starting(e, o)'
          BY <2>9, <3>2, <3>5, <4>1, <4>4
        <5>2. ASSUME run'.status = "Operating", o = Len(run'.ops), NEW e \in Driver,
                     drv'[e].pc = "loop", Mine(e)'
              PROVE  FALSE
          <6>1. drv[d].fence = run.epoch /\ drv[e].pc = "loop" /\ drv[e].fence = run.epoch
            BY <1>2, <3>3, <3>5, <4>1, <4>4, <5>2 DEF Mine
          <6>2. d = e
            BY <1>1, <3>1, <6>1 DEF FencesDiffer, Drives
          <6>3. QED
            BY <1>1, <6>1, <6>2
        <5>3. QED
          BY <5>1, <5>2
      <4>5. QED
        BY <4>3, <4>4
    <3>7. QED
      BY <3>4, <3>6 DEF StartsOK
  <2>11. QED
    BY <1>1, <1>2, <2>2, <2>6, <2>7, <2>9, <2>10, Assembles
<1>5. QED
    BY <1>3, <1>4

-----------------------------------------------------------------------------
(* The theorems.                                                           *)

LEMMA InitOK ==
    ASSUME Init
    PROVE  IInv
<1>1. setup \in Setups /\ setup \in Setup
    BY SetupsAssumption DEF Init
<1>2. setup.ops \in Nat /\ setup.faults \in Nat
    BY <1>1 DEF Setup
<1>3. /\ run.status = "Queued" /\ run.epoch = 0 /\ run.owner = None /\ run.ops = <<>>
      /\ run.steers = 0 /\ run.open = 0 /\ run.outbox = None /\ run.log = 1
      /\ run.delivered = 0 /\ run.finalized = FALSE
    BY DEF Init
<1>4. run \in Run
  <2>1. /\ "Queued" \in Status /\ None \in Driver \union {None} /\ <<>> \in Seq(Kind)
        /\ 0 \in 0 .. SteerQueueLimit /\ None \in Kind \union {None}
    BY Statuses, LimitAssumption
  <2>2. QED
    BY <2>1 DEF Init, Run
<1>5. RecordOK(run) /\ Len(run.ops) = 0
    BY <1>2, <1>3, <1>4 DEF RecordOK, Draft, HasWork, Deliverable, Leased
<1>6. /\ drv \in [Driver -> Drive]
      /\ \A d \in Driver : drv[d] = Away /\ drv[d].pc = "none" /\ drv[d].fence = 0
    BY AwayTyped DEF Init
<1>7. \A d \in Driver : DriveOK(d)
    BY <1>3, <1>6 DEF DriveOK, Boundary, Executes
<1>8. FencesDiffer
    BY <1>6 DEF FencesDiffer, Drives, Boundary, Executes
<1>9. ran \in [1 .. setup.ops -> Nat] /\ \A o \in 1 .. setup.ops : ran[o] = 0
    BY <1>2 DEF Init
<1>10. StartsOK
    BY <1>5, <1>9 DEF StartsOK
<1>11. CancelsOK /\ SteersKept /\ steered \in [accepted : Nat, settled : Nat]
    BY <1>3 DEF Init, CancelsOK, SteersKept
<1>12. TypeOK
  <2>1. /\ lapsed \in BOOLEAN /\ wake \in BOOLEAN /\ cancelAt \in Driver \union {None}
        /\ cancels \subseteq Driver \X (1 .. setup.ops) /\ faults = 0
    BY Zenon DEF Init
  <2>2. faults \in 0 .. setup.faults
    BY <1>2, <2>1
  <2>3. /\ run \in Run /\ run.delivered <= run.log
        /\ run.status \in Leased <=> run.owner # None
    BY <1>5 DEF RecordOK, Draft
  <2>4. QED
    BY <1>1, <1>6, <1>9, <1>11, <2>1, <2>3, <2>2, Zenon DEF TypeOK
<1>13. QED
    BY <1>5, <1>7, <1>8, <1>10, <1>11, <1>12 DEF IInv

LEMMA NextOK ==
    ASSUME IInv, [Next]_vars
    PROVE  IInv'
<1>1. ASSUME NEW d \in Driver, StepJob(d) \/ Return(d) \/ Crash(d)
      PROVE  IInv'
    BY <1>1, StepJobKeeps, ReturnKeeps, CrashKeeps
<1>2. ASSUME NEW d \in Driver, DriverStep(d)
      PROVE  IInv'
    BY <1>2, ReloadKeeps, ConsumeSteersKeeps, ReadForStepKeeps, StallKeeps,
       CommitStepKeeps, RecheckKeeps, StartKeeps, ReturnKeeps, RenewTickKeeps, FinishKeeps,
       ReadForFinalizeKeeps, CommitFinalizeKeeps DEF DriverStep
<1>3. CASE Sweep
    BY <1>3, TimeKeeps, TakeoverKeeps, SweepFinalizeKeeps DEF Sweep
<1>4. CASE Controls
    BY <1>4, StopKeeps, MarkCancelledKeeps, PauseKeeps, ResumeKeeps, SteerKeeps,
       ResolveKeeps DEF Controls
<1>5. CASE Lapse \/ LoseWake
    BY <1>5, TimeKeeps
<1>6. CASE UNCHANGED vars
  <2>1. UNCHANGED <<setup, run, lapsed, wake, drv, cancels, cancelAt, faults, ran, steered>>
    BY <1>6 DEF vars
  <2>2. RestTyped' /\ CancelsTyped'
    BY <2>1, QuietTyped DEF Uncommitted
  <2>3. QED
    BY <2>1, <2>2, IdleKeeps
<1>7. QED
    BY <1>1, <1>2, <1>3, <1>4, <1>5, <1>6 DEF Next

LEMMA Inductive == Spec => []IInv
<1>1. Init => IInv
    BY InitOK
<1>2. IInv /\ [Next]_vars => IInv'
    BY NextOK
<1>3. QED
    BY <1>1, <1>2, PTL DEF Spec

\* Every record that any actor commits is well formed: a lease has exactly one
\* owner, the reducer is never ahead of the log, no token is cancelled for an
\* operation that was never begun.
THEOREM TypeCorrect == Spec => []TypeOK
<1>1. IInv => TypeOK
    BY DEF IInv
<1>2. QED
    BY <1>1, Inductive, PTL

\* An operation that may not be repeated is started at most once, however many
\* drivers crash, outlive their leases and are taken over (driver.rs:execute,
\* apply_takeover).
THEOREM RepeatedOnlyIfSafeHolds == Spec => []RepeatedOnlyIfSafe
<1>1. IInv => RepeatedOnlyIfSafe
    BY DEF IInv, StartsOK, RepeatedOnlyIfSafe
<1>2. QED
    BY <1>1, Inductive, PTL

\* A driver finds nothing to do at a boundary only if the reducer left nothing
\* to do when it saw the last event of the log: whatever else brought the run
\* there, something waits for it (driver.rs, reducer_stalled).
THEOREM NeverStallsHolds == Spec => []NeverStalls
<1>1. IInv => NeverStalls
    BY DEF IInv, DriveOK, NeverStalls
<1>2. QED
    BY <1>1, Inductive, PTL

\* Every accepted steer is queued, handed to the reducer or discarded at the
\* end, once: no commit computed before it overwrites it (control_apply.rs:steer,
\* verify_commit).
THEOREM SteersKeptHolds == Spec => []SteersKept
<1>1. IInv => SteersKept
    BY DEF IInv
<1>2. QED
    BY <1>1, Inductive, PTL

\* A finalized run has ended and its reducer has seen the whole log, whichever
\* nodes took turns in finalize_domain.
THEOREM ReducerSawTheEndHolds == Spec => []ReducerSawTheEnd
<1>1. IInv => ReducerSawTheEnd
    BY DEF IInv, RecordOK, Draft, ReducerSawTheEnd
<1>2. QED
    BY <1>1, Inductive, PTL

\* Whoever commits, the record keeps its history.
LEMMA RunFollows ==
    ASSUME IInv, Next
    PROVE  run' = run \/ Follows(run, run')
<1> DEFINE Goal == run' = run \/ Follows(run, run')
<1>1. RecordOK(run) /\ Draft(run) /\ setup \in Setup /\ \A d \in Driver : DriveOK(d)
    BY Known
<1>2. ASSUME NEW s, Moves(run, s), run' = s
      PROVE  Follows(run, run')
    BY <1>2 DEF Moves
<1>3. ASSUME Stop(None) \/ \E n \in Driver : Stop(n)
      PROVE  Goal
    BY <1>1, <1>2, <1>3, StopMoves, TerminateMoves DEF Stop, Commit
<1>4. ASSUME Pause \/ Resume
      PROVE  Goal
    BY <1>1, <1>2, <1>4, PausingMoves, PauseSetMoves, ResumeMoves DEF Pause, Resume, Commit
<1>5. ASSUME Steer
      PROVE  Goal
  <2>1. PICK s : Moves(run, s) /\ Commit(run, s)
    BY <1>1, <1>5, SteerMoves, Zenon DEF Steer
  <2>2. QED
    BY <1>2, <2>1 DEF Commit
<1>6. ASSUME Resolve
      PROVE  Goal
    BY <1>1, <1>2, <1>6, RemoveRequestMoves DEF Resolve, Commit
<1>7. ASSUME NEW d \in Driver, Takeover(d)
      PROVE  Goal
  <2>1. Moves(run, TakenOver(run, d)) /\ Commit(run, TakenOver(run, d))
    BY <1>1, <1>7, TakenOverMoves, Zenon DEF Takeover
  <2>2. QED
    BY <1>2, <2>1 DEF Commit
<1>8. ASSUME NEW d \in Driver, StepJob(d)
      PROVE  Goal
  <2>1. CASE run.status = "Queued"
    <3>1. run' = [run EXCEPT !.status = "Idle", !.owner = d, !.epoch = @ + 1]
      BY <1>8, <2>1 DEF StepJob
    <3>2. Moves(run, run')
      BY <1>1, <2>1, <3>1, AcquireMoves, Zenon
    <3>3. QED
      BY <1>2, <3>2
  <2>2. CASE run.status # "Queued"
    BY <1>8, <2>2 DEF StepJob
  <2>3. QED
    BY <2>1, <2>2
<1>9. ASSUME NEW d \in Driver, ConsumeSteers(d)
      PROVE  Goal
  <2>1. CASE Fenced(d)
    <3>1. run.status = "Idle"
      BY <1>1, <1>9, <2>1 DEF ConsumeSteers, Fenced, DriveOK, Boundary
    <3>2. PICK s : Moves(run, s) /\ Commit(run, s)
      BY <1>1, <1>9, <2>1, <3>1, ConsumeMoves, Zenon DEF ConsumeSteers
    <3>3. QED
      BY <1>2, <3>2 DEF Commit
  <2>2. CASE ~Fenced(d)
    BY <1>9, <2>2 DEF ConsumeSteers, Uncommitted
  <2>3. QED
    BY <2>1, <2>2
<1>10. ASSUME NEW d \in Driver, CommitStep(d)
       PROVE  Goal
  <2>1. CASE Fenced(d) /\ Unchanged(d)
    <3>1. run.status = "Idle" /\ Deliverable(run)
      BY <1>1, <1>10, <2>1 DEF CommitStep, Fenced, Unchanged, DriveOK, Boundary
    <3>2. PICK s \in DomainStep(run) : Commit(run, s)
      BY <1>10, <2>1 DEF CommitStep, Unchanged
    <3>3. BoundaryMoves(run, s)
      BY <1>1, <3>1, DomainStepMoves
    <3>4. QED
      BY <3>2, <3>3 DEF BoundaryMoves, Commit
  <2>2. CASE ~(Fenced(d) /\ Unchanged(d))
    BY <1>10, <2>2 DEF CommitStep, Uncommitted
  <2>3. QED
    BY <2>1, <2>2
<1>11. ASSUME NEW d \in Driver, Finish(d)
       PROVE  Goal
  <2>1. CASE Fenced(d) /\ run.status \in {"Operating", "Cancelling"} /\ InFlight(run) = drv[d].op
    <3>1. drv[d].outcome \notin {"done", "waiting"} => run.status = "Cancelling"
      BY <1>1, <1>11, <2>1 DEF Finish, Fenced, DriveOK
    <3>2. Follows(run, Finished(run, drv[d].outcome))
      BY <1>1, <2>1, <3>1, FinishedOK, Zenon
    <3>3. QED
      BY <1>11, <2>1, <3>2 DEF Finish, Commit
  <2>2. CASE ~(Fenced(d) /\ run.status \in {"Operating", "Cancelling"} /\ InFlight(run) = drv[d].op)
    BY <1>11, <2>2 DEF Finish, Uncommitted
  <2>3. QED
    BY <2>1, <2>2
<1>12. ASSUME NEW d \in Driver, CommitFinalize(d)
       PROVE  Goal
  <2>1. CASE Unchanged(d)
    <3>1. Moves(run, Delivered(run))
      BY <1>1, <1>12, DeliveredMoves DEF CommitFinalize, DriveOK
    <3>2. QED
      BY <1>2, <1>12, <2>1, <3>1 DEF CommitFinalize, Unchanged, Commit
  <2>2. CASE ~Unchanged(d)
    BY <1>12, <2>2 DEF CommitFinalize, Uncommitted
  <2>3. QED
    BY <2>1, <2>2
<1>13. ASSUME NEW d \in Driver,
              \/ Reload(d) \/ ReadForStep(d) \/ Recheck(d) \/ Start(d) \/ Interrupt(d)
              \/ RenewTick(d) \/ ReadForFinalize(d) \/ Return(d) \/ Crash(d)
              \/ SweepFinalize(d)
       PROVE  Goal
    BY <1>13 DEF Reload, ReadForStep, Recheck, Start, Interrupt, RenewTick,
       ReadForFinalize, Return, Crash, SweepFinalize, Uncommitted
<1>14. ASSUME Rewake \/ MarkCancelled \/ Lapse \/ LoseWake
       PROVE  Goal
    BY <1>14 DEF Rewake, MarkCancelled, Lapse, LoseWake
<1>15. ASSUME NEW d \in Driver, Stall(d)
       PROVE  Goal
    BY <1>1, <1>2, <1>15, TerminateMoves DEF Stall, Commit, Uncommitted
<1> HIDE DEF Goal
<1>16. Goal
    BY <1>3, <1>4, <1>5, <1>6, <1>7, <1>8, <1>9, <1>10, <1>11, <1>12, <1>13, <1>14,
       <1>15 DEF Next, DriverStep, Sweep, Controls
<1>17. QED
    BY <1>16 DEF Goal

\* A run that is stopping or has ended stays so and begins no operation,
\* whoever takes over the one that was in flight (apply_takeover, apply_finish).
THEOREM StopIsFinalHolds == Spec => StopIsFinal
<1> DEFINE Final ==
        run.status \in {"Cancelling", "Terminal"} =>
            run'.status \in {"Cancelling", "Terminal"} /\ run'.ops = run.ops
<1>1. IInv /\ [Next]_vars => [Final]_run
  <2>1. ASSUME IInv, Next
        PROVE  [Final]_run
    BY <2>1, RunFollows DEF Follows
  <2>2. QED
    BY <2>1 DEF vars
<1>2. QED
    BY <1>1, Inductive, PTL DEF Spec, StopIsFinal

=============================================================================
