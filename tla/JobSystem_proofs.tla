-------------------------- MODULE JobSystem_proofs --------------------------
(***************************************************************************)
(* Proofs about JobSystem: what its run checks on a few jobs holds for any *)
(* finite set of calls, any cap, queue and number of retries, parks,       *)
(* faults, cancels and force-fails.                                        *)
(***************************************************************************)
EXTENDS JobSystem, TLAPS, FiniteSetTheorems, SequenceTheorems

-----------------------------------------------------------------------------
(* The inductive invariant.  A job given up by the watchdog, a cancel or a *)
(* force-fail may still have a task that nobody aborts, so most of it is   *)
(* about the others.                                                       *)

\* The watchdog acts on a job.
DogOK == dog.pc # "idle" => dog.job \in Job

\* An active job holds the key.
KeyOK ==
    setup.keyed /\ faults = 0 => \A j \in Job : Active(jobs[j]) => dedup_keys = j

\* Nothing exists of a job before its registration is inserted.
FreshOK(j) ==
    client[j] \in {"idle", "checked"} =>
        /\ jobs[j] = None /\ stored[j] = None
        /\ \A w \in writes : w.job # j
        /\ \A n \in Attempt : attempt[j][n].pc = "unused"

\* An attempt deletes the context of a job that has ended only.
EndedOK(j) ==
    \A n \in Attempt :
        attempt[j][n].pc \in {"completing", "deleting"} => ~Active(jobs[j])

HasItsContext(j) == Active(jobs[j]) /\ client[j] = "done" => j \in context

\* The job waits for its due time, and so does the entry to be written.
Waits(e) == e # None /\ e.status = "Scheduled" /\ e.due = "later"

\* A delayed job is not touched before it is counted and written.
InsertedOK(j) == client[j] = "inserted" /\ j \in setup.delayed => Waits(jobs[j])

Beats == {"starting", "beating", "waiting", "marking", "running"}
Works == {"claiming", "loading"} \cup Beats

\* One attempt works on the job, and the registry says so.
WorkOK(j) ==
    /\ \A n \in Attempt : attempt[j][n].pc \in Works => Holding(jobs[j])
    /\ \A n, m \in Attempt :
           attempt[j][n].pc \in Works /\ attempt[j][m].pc \in Works => n = m

\* The heartbeat lives no longer than the work.
BeatOK(j) ==
    \A n \in Attempt : attempt[j][n].heartbeat # "off" => attempt[j][n].pc \in Beats

ByAttempt == {"worker", "task"}

\* A write has an author that waits for it: the entry is what that author is
\* about.
WriteOK(j, w) ==
    LET a == attempt[j][w.n] IN
    /\ w.by \in {"client", "heartbeat"} \cup ByAttempt
    /\ w.by = "client" => Waits(w.entry) /\ Waits(jobs[j])
    /\ w.by = "heartbeat" =>
           w.n \in Attempt /\ a.heartbeat = "writing" /\ Holding(w.entry)
    /\ w.by \in ByAttempt =>
           /\ w.n \in Attempt
           /\ \/ a.pc \in {"claiming", "beating", "marking"} /\ Holding(w.entry)
              \/ a.pc \in {"failing", "completing"} /\ Terminal(w.entry)
              \/ a.pc = "requeueing" /\ Waits(w.entry) /\ Waits(jobs[j])

WritesOK(j) == \A w \in writes : w.job = j => WriteOK(j, w)

\* Two writes of one author.
SameAuthor(w, v) ==
    /\ w.job = v.job /\ w.n = v.n
    /\ \/ w.by = "heartbeat" /\ v.by = "heartbeat"
       \/ w.by \in ByAttempt /\ v.by \in ByAttempt

OneWrite(j) == \A w, v \in writes : w.job = j /\ SameAuthor(w, v) => w = v

\* The end of the job is stored, and no write can replace it by something else.
FinishedOK(j) ==
    j \in finished =>
        /\ ~Active(jobs[j])
        /\ Terminal(stored[j])
        /\ \A w \in writes : w.job = j => Terminal(w.entry)

OwnOK(j) ==
    InsertedOK(j) /\ WorkOK(j) /\ BeatOK(j) /\ WritesOK(j) /\ OneWrite(j) /\ FinishedOK(j)

JobOK(j) ==
    /\ FreshOK(j)
    /\ EndedOK(j)
    /\ HasItsContext(j)
    /\ j \notin givenUp => OwnOK(j)

IInv ==
    /\ TypeOK
    /\ DogOK
    /\ KeyOK
    /\ CapNeverUndercounts
    /\ \A j \in Job : JobOK(j)

\* A record that was listed to be failed is that of a registered job.
ListedOK ==
    \A j \in Job : canceller[j] = "listed" => client[j] \notin {"idle", "checked"}

-----------------------------------------------------------------------------
(* Operators of the model.                                                 *)

LEMMA MaxWithZero ==
    ASSUME NEW a \in Nat
    PROVE  LET m == Max({a - 1, 0}) IN m \in Nat /\ m >= a - 1
<1> DEFINE m == Max({a - 1, 0})
<1>1. \E x \in {a - 1, 0} : \A y \in {a - 1, 0} : x >= y
    <2>1. CASE a = 0
        BY <2>1
    <2>2. CASE a # 0
        BY <2>2
    <2>3. QED
        BY <2>1, <2>2
<1>2. m \in {a - 1, 0} /\ \A y \in {a - 1, 0} : m >= y
    BY <1>1 DEF Max
<1>3. QED
    BY <1>2

LEMMA MinOfTwo ==
    ASSUME NEW a \in Nat, NEW b \in Nat
    PROVE  Min({a, b}) \in Nat /\ Min({a, b}) <= a /\ Min({a, b}) <= b
<1>1. \E x \in {a, b} : \A y \in {a, b} : x <= y
    <2>1. CASE a <= b
        BY <2>1
    <2>2. CASE b <= a
        BY <2>2
    <2>3. QED
        BY <2>1, <2>2
<1>2. Min({a, b}) \in {a, b} /\ \A y \in {a, b} : Min({a, b}) <= y
    BY <1>1 DEF Min
<1>3. QED
    BY <1>2

LEMMA RemovedAt ==
    ASSUME NEW q \in Seq(Job), NEW i \in 1 .. Len(q)
    PROVE  RemoveAt(q, i) \in Seq(Job) /\ Len(RemoveAt(q, i)) <= Len(q)
<1>1. Len(q) \in Nat /\ \A k \in 1 .. Len(q) : q[k] \in Job
    BY LenProperties, ElementOfSeq
<1>2. SubSeq(q, 1, i - 1) \in Seq(Job) /\ Len(SubSeq(q, 1, i - 1)) = i - 1
    <2>1. 1 \in Int /\ i - 1 \in Int /\ \A k \in 1 .. i - 1 : q[k] \in Job
        BY <1>1
    <2>2. SubSeq(q, 1, i - 1) \in Seq(Job)
        BY <2>1, <1>1, SMT
    <2>3. Len(SubSeq(q, 1, i - 1)) = i - 1
        BY <1>1, SMT
    <2>4. QED
        BY <2>2, <2>3
<1>3. SubSeq(q, i + 1, Len(q)) \in Seq(Job) /\ Len(SubSeq(q, i + 1, Len(q))) = Len(q) - i
    <2>1. i + 1 \in Int /\ Len(q) \in Int /\ \A k \in i + 1 .. Len(q) : q[k] \in Job
        BY <1>1
    <2>2. SubSeq(q, i + 1, Len(q)) \in Seq(Job)
          /\ Len(SubSeq(q, i + 1, Len(q))) = IF i + 1 <= Len(q) THEN Len(q) - (i + 1) + 1 ELSE 0
        BY <2>1, SubSeqProperties, Zenon
    <2>3. QED
        BY <2>2, <1>1
<1>4. RemoveAt(q, i) \in Seq(Job)
      /\ Len(RemoveAt(q, i)) = Len(SubSeq(q, 1, i - 1)) + Len(SubSeq(q, i + 1, Len(q)))
    BY <1>2, <1>3, ConcatProperties DEF RemoveAt
<1> DEFINE left == SubSeq(q, 1, i - 1)
           right == SubSeq(q, i + 1, Len(q))
           kept == RemoveAt(q, i)
<1>5. Len(kept) = Len(left) + Len(right) /\ Len(left) = i - 1 /\ Len(right) = Len(q) - i
    BY <1>2, <1>3, <1>4
<1> HIDE DEF left, right, kept
<1>6. Len(kept) <= Len(q)
    BY <1>1, <1>5
<1>7. QED
    BY <1>4, <1>6 DEF kept

LEMMA OrderTyped ==
    ASSUME NEW S \in SUBSET Job, IsFiniteSet(S), NEW q \in Orders(S)
    PROVE  q \in Seq(Job) /\ Len(q) = Cardinality(S)
<1>1. Cardinality(S) \in Nat
    BY FS_CardinalityType
<1>2. q \in [1 .. Cardinality(S) -> Job]
    BY DEF Orders
<1>3. QED
    BY <1>1, <1>2

LEMMA StatusChange ==
    ASSUME NEW e \in Entry, NEW st \in ActiveStatus \cup TerminalStatus
    PROVE  LET f == [e EXCEPT !.status = st]
           IN  f \in Entry /\ f.status = st /\ f.retry_count = e.retry_count /\ f.due = e.due
    BY DEF Entry

-----------------------------------------------------------------------------
(* What the parts of an action do.                                         *)

LEMMA MayChangeActive ==
    ASSUME NEW e \in Entry \cup {None}
    PROVE  MayChange(e) <=> Active(e)
    BY DEF MayChange, Active, Entry, ActiveStatus, TerminalStatus

\* A write of job j is added.
Adds(j, by, n, e) ==
    /\ writes' \subseteq Write
    /\ \E w \in Write : /\ writes' = writes \cup {w}
                        /\ w.job = j /\ w.by = by /\ w.n = n /\ w.entry = e

LEMMA Persists ==
    ASSUME NEW j \in Job, NEW n \in 0 .. MaxAttempts, NEW e \in Entry,
           NEW by \in Author,
           NEW old \in ActiveStatus \cup TerminalStatus,
           writes \subseteq Write, persist_job(j, by, n, e, old)
    PROVE  Adds(j, by, n, e)
<1> DEFINE w == [job |-> j, by |-> by, n |-> n, entry |-> e, old |-> old]
<1>1. w \in Write
    BY DEF Write
<1>2. writes' = writes \cup {w}
    BY DEF persist_job
<1>3. w.job = j /\ w.by = by /\ w.n = n /\ w.entry = e
    OBVIOUS
<1>4. QED
    <2>1. writes' \subseteq Write
        BY <1>1, <1>2
    <2>2. QED
        BY <2>1, <1>1, <1>2, <1>3, Zenon DEF Adds

\* The change of a job's entry, and the write that goes with it.
Changes(j, status, due, by, n) ==
    /\ jobs' \in [Job -> Entry \cup {None}]
    /\ \A k \in Job \ {j} : jobs'[k] = jobs[k]
    /\ jobs'[j] \in Entry
    /\ jobs'[j].status = status /\ jobs'[j].due = due
    /\ Adds(j, by, n, jobs'[j])

LEMMA Updates ==
    ASSUME TypeOK, NEW j \in Job, NEW n \in 0 .. MaxAttempts, jobs[j] # None,
           NEW status \in ActiveStatus \cup TerminalStatus,
           NEW by \in Author,
           update_status(j, status, by, n)
    PROVE  /\ Changes(j, status, jobs[j].due, by, n)
           /\ handles' = handles
           /\ dedup_keys' \in Job \cup {None} /\ active' \in Nat
<1> DEFINE e == [jobs[j] EXCEPT !.status = status]
<1>1. jobs[j] \in Entry
    BY DEF TypeOK
<1>2. e \in Entry /\ e.status = status /\ e.due = jobs[j].due
    BY <1>1, StatusChange, Zenon
<1>3. /\ jobs' = [jobs EXCEPT ![j] = e] /\ persist_job(j, by, n, e, jobs[j].status)
      /\ handles' = handles
      /\ dedup_keys' = dedup_keys \/ dedup_keys' = None
      /\ active' = active \/ active' = Max({active - 1, 0})
    BY DEF update_status
<1> HIDE DEF e
<1>4. /\ jobs' \in [Job -> Entry \cup {None}] /\ jobs'[j] = e
      /\ \A k \in Job \ {j} : jobs'[k] = jobs[k]
    BY <1>2, <1>3 DEF TypeOK
<1>5. jobs[j].status \in ActiveStatus \cup TerminalStatus /\ writes \subseteq Write
    BY <1>1 DEF Entry, TypeOK
<1>6. Adds(j, by, n, e)
    BY <1>2, <1>3, <1>5, Persists, Zenon
<1>7. Changes(j, status, jobs[j].due, by, n)
    BY <1>2, <1>4, <1>6, Zenon DEF Changes
<1>8. dedup_keys' \in Job \cup {None} /\ active' \in Nat
    BY <1>3, MaxWithZero DEF TypeOK
<1>9. QED
    BY <1>3, <1>7, <1>8

LEMMA Requeues ==
    ASSUME TypeOK, NEW j \in Job, NEW n \in 0 .. MaxAttempts, jobs[j] # None,
           NEW spent \in Nat,
           NEW by \in Author,
           requeue(j, spent, by, n)
    PROVE  /\ Changes(j, "Scheduled", "later", by, n)
           /\ UNCHANGED <<dedup_keys, active, handles>>
<1> DEFINE e == [status |-> "Scheduled", retry_count |-> jobs[j].retry_count + spent,
                 due |-> "later"]
<1>1. jobs[j] \in Entry
    BY DEF TypeOK
<1>2. e \in Entry /\ e.status = "Scheduled" /\ e.due = "later"
    <2>1. jobs[j].retry_count + spent \in Nat
        BY <1>1 DEF Entry
    <2>2. QED
        BY <2>1 DEF Entry, ActiveStatus, Due
<1>3. /\ jobs' = [jobs EXCEPT ![j] = e] /\ persist_job(j, by, n, e, jobs[j].status)
      /\ UNCHANGED <<dedup_keys, active, handles>>
    BY DEF requeue
<1> HIDE DEF e
<1>4. /\ jobs' \in [Job -> Entry \cup {None}] /\ jobs'[j] = e
      /\ \A k \in Job \ {j} : jobs'[k] = jobs[k]
    BY <1>2, <1>3 DEF TypeOK
<1>5. jobs[j].status \in ActiveStatus \cup TerminalStatus /\ writes \subseteq Write
    BY <1>1 DEF Entry, TypeOK
<1>6. Adds(j, by, n, e)
    BY <1>2, <1>3, <1>5, Persists, Zenon
<1>7. Changes(j, "Scheduled", "later", by, n)
    BY <1>2, <1>4, <1>6, Zenon DEF Changes
<1>8. QED
    BY <1>3, <1>7

\* A write of job j lands or is refused.
LEMMA Landing ==
    ASSUME TypeOK, NEW w \in writes, NEW ok \in BOOLEAN, Lands(w, ok), setup' = setup
    PROVE  /\ w \in Write /\ w.job \in Job /\ w.entry \in Entry
           /\ w.n \in 0 .. MaxAttempts
           /\ writes' = writes \ {w} /\ writes' \subseteq Write
           /\ stored' \in [Job -> Entry \cup {None}]
           /\ \A k \in Job : k # w.job => stored'[k] = stored[k]
           /\ stored'[w.job] = IF ok THEN w.entry ELSE stored[w.job]
           /\ context' = context /\ parks' = parks
           /\ faults' \in 0 .. setup.maxFaults /\ faults' >= faults
<1>1. w \in Write /\ w.job \in Job /\ w.entry \in Entry /\ w.n \in 0 .. MaxAttempts
    BY DEF TypeOK, Write
<1>2. setup.maxFaults \in Nat
    BY SetupsAssumption DEF TypeOK, Setup
<1>3. faults' \in 0 .. setup.maxFaults /\ faults' >= faults
    BY <1>2 DEF Lands, TypeOK
<1>4. writes' = writes \ {w} /\ writes' \subseteq Write /\ context' = context /\ parks' = parks
    BY DEF Lands, TypeOK
<1>5. /\ stored' \in [Job -> Entry \cup {None}]
      /\ \A k \in Job : k # w.job => stored'[k] = stored[k]
      /\ stored'[w.job] = IF ok THEN w.entry ELSE stored[w.job]
    BY <1>1 DEF Lands, TypeOK
<1>6. QED
    BY <1>1, <1>3, <1>4, <1>5

DispatchTyped ==
    /\ queue' \in Seq(Job) /\ Len(queue') <= setup.queueLimit
    /\ timers' \subseteq Job \X {"later", "past"}
    /\ refused' \subseteq Job

LEMMA DispatchUnchanged ==
    ASSUME TypeOK, UNCHANGED dispatchVars
    PROVE  DispatchTyped
    BY DEF TypeOK, DispatchTyped, dispatchVars

LEMMA Pushes ==
    ASSUME TypeOK, NEW j \in Job, push(j)
    PROVE  /\ queue' \in Seq(Job) /\ Len(queue') <= setup.queueLimit
           /\ refused' \subseteq Job
<1>1. setup.queueLimit \in Nat
    BY SetupsAssumption DEF TypeOK, Setup
<1>2. CASE HasRoom
    <2>1. queue' = Append(queue, j) /\ refused' = refused
        BY <1>2 DEF push
    <2>2. queue \in Seq(Job) /\ Len(queue) < setup.queueLimit /\ Len(queue) \in Nat
        BY <1>2 DEF TypeOK, HasRoom
    <2>3. queue' \in Seq(Job) /\ Len(queue') = Len(queue) + 1
        BY <2>1, <2>2
    <2>4. QED
        BY <1>1, <2>1, <2>2, <2>3 DEF TypeOK
<1>3. CASE ~HasRoom
    <2>1. queue' = queue /\ refused' \in {refused, refused \cup {j}}
        BY <1>3 DEF push
    <2>2. QED
        BY <2>1 DEF TypeOK
<1>4. QED
    BY <1>2, <1>3

LEMMA DispatchesWhenDue ==
    ASSUME TypeOK, NEW j \in Job, NEW due \in Due, dispatch_when_due(j, due)
    PROVE  DispatchTyped
<1>1. CASE due = "later"
    BY <1>1 DEF dispatch_when_due, TypeOK, DispatchTyped
<1>2. CASE due # "later"
    <2>1. push(j) /\ timers' = timers
        BY <1>2 DEF dispatch_when_due
    <2>2. QED
        BY <2>1, Pushes DEF TypeOK, DispatchTyped
<1>3. QED
    BY <1>1, <1>2

LEMMA UpdateSeen ==
    ASSUME TypeOK, NEW w \in Write, on_job_update(w)
    PROVE  DispatchTyped
<1>1. w.job \in Job /\ w.entry.due \in Due
    BY DEF Write, Entry
<1>2. CASE dispatch_when_due(w.job, w.entry.due)
    BY <1>1, <1>2, DispatchesWhenDue
<1>3. CASE UNCHANGED dispatchVars
    BY <1>3, DispatchUnchanged
<1>4. QED
    BY <1>2, <1>3 DEF on_job_update

\* Attempt n of job j becomes a; nothing else changes in the attempts.
Becomes(j, n, a) ==
    /\ attempt' \in [Job -> [Attempt -> AttemptState]]
    /\ attempt'[j][n] = a
    /\ \A m \in Attempt \ {n} : attempt'[j][m] = attempt[j][m]
    /\ \A k \in Job \ {j} : attempt'[k] = attempt[k]

LEMMA AttemptSet ==
    ASSUME NEW j \in Job, NEW n \in Attempt, NEW a \in AttemptState,
           attempt \in [Job -> [Attempt -> AttemptState]],
           attempt' = [attempt EXCEPT ![j][n] = a]
    PROVE  Becomes(j, n, a)
    BY DEF Becomes

LEMMA AttemptPc ==
    ASSUME NEW b \in AttemptState, NEW pc \in {"unused", "done"} \cup WorkerPc \cup TaskPc
    PROVE  LET a == [b EXCEPT !.pc = pc]
           IN  a \in AttemptState /\ a.pc = pc /\ a.heartbeat = b.heartbeat
               /\ a.handing = b.handing
    BY DEF AttemptState

LEMMA StepSet ==
    ASSUME NEW j \in Job, NEW n \in Attempt,
           NEW pc \in {"unused", "done"} \cup WorkerPc \cup TaskPc,
           attempt \in [Job -> [Attempt -> AttemptState]],
           Step(j, n, pc)
    PROVE  /\ \E a \in AttemptState :
                  a.pc = pc /\ a.heartbeat = attempt[j][n].heartbeat /\ Becomes(j, n, a)
<1> DEFINE a == [attempt[j][n] EXCEPT !.pc = pc]
<1>1. attempt[j][n] \in AttemptState
    OBVIOUS
<1>2. a \in AttemptState /\ a.pc = pc /\ a.heartbeat = attempt[j][n].heartbeat
    BY <1>1, AttemptPc, Zenon
<1>3. attempt' = [attempt EXCEPT ![j][n] = a]
    BY DEF Step
<1> HIDE DEF a
<1>4. Becomes(j, n, a)
    BY <1>2, <1>3, AttemptSet
<1>5. QED
    BY <1>2, <1>4

LEMMA DroppedSet ==
    ASSUME NEW b \in AttemptState
    PROVE  LET a == Dropped(b)
           IN  /\ a \in AttemptState /\ a.pc = "done"
               /\ a.heartbeat = IF b.heartbeat = "writing" THEN "writing" ELSE "off"
<1>1. (IF b.heartbeat = "writing" THEN b.heartbeat ELSE "off") \in {"off", "on", "writing"}
    BY DEF AttemptState
<1>2. QED
    BY <1>1 DEF Dropped, AttemptState

LEMMA HeartbeatSet ==
    ASSUME NEW b \in AttemptState, NEW h \in {"off", "on", "writing"}
    PROVE  LET a == [b EXCEPT !.heartbeat = h]
           IN  a \in AttemptState /\ a.pc = b.pc /\ a.heartbeat = h
    BY DEF AttemptState

-----------------------------------------------------------------------------
(* The key and the cap.                                                    *)

ActiveJobs == {j \in Job : Active(jobs[j])}
Uncounting == {j \in Job : client[j] = "inserted"}

CountsOK == KeyOK /\ CapNeverUndercounts

LEMMA JobSets ==
    ASSUME NEW S \in SUBSET Job
    PROVE  IsFiniteSet(S) /\ Cardinality(S) \in Nat
    BY SetupsAssumption, FS_Subset, FS_CardinalityType

LEMMA MoreJobs ==
    ASSUME NEW T \in SUBSET Job, NEW S \in SUBSET T
    PROVE  Cardinality(S) <= Cardinality(T)
    BY JobSets, FS_Subset

LEMMA OneMoreJob ==
    ASSUME NEW S \in SUBSET Job, NEW j \in Job, j \notin S
    PROVE  Cardinality(S \cup {j}) = Cardinality(S) + 1
    BY JobSets, FS_AddElement

LEMMA OneJobLess ==
    ASSUME NEW S \in SUBSET Job, NEW j \in S
    PROVE  Cardinality(S \ {j}) = Cardinality(S) - 1
    BY JobSets, FS_RemoveElement

\* The cap counts, in terms of the two sets.
LEMMA CapAsSets ==
    CapNeverUndercounts <=> Cardinality(ActiveJobs) <= active + Cardinality(Uncounting)
    BY DEF CapNeverUndercounts, ActiveJobs, Uncounting

LEMMA CapAsSetsNext ==
    CapNeverUndercounts' <=> Cardinality(ActiveJobs') <= active' + Cardinality(Uncounting')
    BY DEF CapNeverUndercounts, ActiveJobs, Uncounting

\* No job becomes active and none is counted away.
LEMMA SameCounts ==
    ASSUME TypeOK, CountsOK, setup' = setup, faults' \in Nat, faults' >= faults,
           dedup_keys' = dedup_keys, active' = active,
           \A k \in Job : Active(jobs'[k]) => Active(jobs[k]),
           \A k \in Job : client[k] = "inserted" => client'[k] = "inserted"
    PROVE  CountsOK'
<1>1. KeyOK'
    <2>1. setup'.keyed /\ faults' = 0 => setup.keyed /\ faults = 0
        BY DEF TypeOK
    <2>2. QED
        BY <2>1 DEF KeyOK, CountsOK
<1>2. CapNeverUndercounts'
    <2>1. ActiveJobs' \subseteq ActiveJobs /\ Uncounting \subseteq Uncounting'
        BY DEF ActiveJobs, Uncounting
    <2>2. ActiveJobs \subseteq Job /\ Uncounting' \subseteq Job
          /\ ActiveJobs' \subseteq Job /\ Uncounting \subseteq Job
        BY DEF ActiveJobs, Uncounting
    <2>3. Cardinality(ActiveJobs') <= Cardinality(ActiveJobs)
          /\ Cardinality(Uncounting) <= Cardinality(Uncounting')
        BY <2>1, <2>2, MoreJobs
    <2>4. Cardinality(ActiveJobs') \in Nat /\ Cardinality(ActiveJobs) \in Nat
          /\ Cardinality(Uncounting) \in Nat /\ Cardinality(Uncounting') \in Nat
        BY <2>2, JobSets
    <2>5. Cardinality(ActiveJobs) <= active + Cardinality(Uncounting)
        BY CapAsSets DEF CountsOK
    <2>6. Cardinality(ActiveJobs') <= active' + Cardinality(Uncounting')
        BY <2>3, <2>4, <2>5 DEF TypeOK
    <2>7. QED
        BY <2>6, CapAsSetsNext
<1>3. QED
    BY <1>1, <1>2 DEF CountsOK

\* A job changes its status: if it ends, it frees its key and its place.
LEMMA UpdateCounts ==
    ASSUME TypeOK, CountsOK, setup' = setup, faults' = faults, client' = client,
           NEW j \in Job, NEW n \in 0 .. MaxAttempts, Active(jobs[j]),
           NEW status \in ActiveStatus \cup TerminalStatus, NEW by \in Author,
           update_status(j, status, by, n)
    PROVE  CountsOK'
<1>1. jobs[j] # None
    BY DEF Active
<1>2. Changes(j, status, jobs[j].due, by, n)
    BY <1>1, Updates
<1>3. /\ \A k \in Job \ {j} : jobs'[k] = jobs[k]
      /\ jobs'[j] \in Entry /\ jobs'[j].status = status
    BY <1>2, Zenon DEF Changes
<1>4. CASE status \in ActiveStatus
    <2>1. status \notin TerminalStatus
        BY <1>4 DEF ActiveStatus, TerminalStatus
    <2>2. dedup_keys' = dedup_keys /\ active' = active
        BY <2>1 DEF update_status
    <2>3. \A k \in Job : Active(jobs'[k]) => Active(jobs[k])
        BY <1>3
    <2>4. faults' \in Nat /\ faults' >= faults
        BY SetupsAssumption DEF TypeOK, Setup
    <2>5. QED
        BY <2>2, <2>3, <2>4, SameCounts
<1>5. CASE status \in TerminalStatus
    <2>1. /\ dedup_keys' = IF dedup_keys = j THEN None ELSE dedup_keys
          /\ active' = Max({active - 1, 0})
        BY <1>5 DEF update_status
    <2>2. ~Active(jobs'[j])
        BY <1>3, <1>5 DEF Active, ActiveStatus, TerminalStatus
    <2>3. KeyOK'
        BY <1>3, <2>1, <2>2 DEF KeyOK, CountsOK
    <2>4. ActiveJobs' = ActiveJobs \ {j} /\ Uncounting' = Uncounting /\ j \in ActiveJobs
        BY <1>3, <2>2 DEF ActiveJobs, Uncounting
    <2>5. ActiveJobs \subseteq Job /\ Uncounting \subseteq Job
        BY DEF ActiveJobs, Uncounting
    <2>6. Cardinality(ActiveJobs') = Cardinality(ActiveJobs) - 1
        BY <2>4, <2>5, OneJobLess
    <2>7. Cardinality(ActiveJobs) \in Nat /\ Cardinality(Uncounting) \in Nat
        BY <2>5, JobSets
    <2>8. active' \in Nat /\ active' >= active - 1
        BY <2>1, MaxWithZero DEF TypeOK
    <2>9. Cardinality(ActiveJobs) <= active + Cardinality(Uncounting)
        BY CapAsSets DEF CountsOK
    <2>10. Cardinality(ActiveJobs') <= active' + Cardinality(Uncounting')
        BY <2>4, <2>6, <2>7, <2>8, <2>9 DEF TypeOK
    <2>11. QED
        BY <2>3, <2>10, CapAsSetsNext DEF CountsOK
<1>6. QED
    BY <1>4, <1>5

-----------------------------------------------------------------------------
(* A step is about one job: the others keep what is true of them.          *)

SameJob(k) ==
    /\ client'[k] = client[k] /\ jobs'[k] = jobs[k] /\ stored'[k] = stored[k]
    /\ \A n \in Attempt : /\ attempt'[k][n].pc = attempt[k][n].pc
                           /\ attempt'[k][n].heartbeat = attempt[k][n].heartbeat
    /\ k \in context => k \in context'
    /\ k \in givenUp => k \in givenUp'
    /\ k \in finished' => k \in finished
    /\ \A w \in writes' : w.job = k => w \in writes

LEMMA Frame ==
    ASSUME NEW k \in Job, JobOK(k), SameJob(k), setup' = setup
    PROVE  JobOK(k)'
<1>1. FreshOK(k)'
    BY DEF JobOK, FreshOK, SameJob
<1>2. EndedOK(k)'
    BY DEF JobOK, EndedOK, SameJob
<1>3. HasItsContext(k)'
    BY DEF JobOK, HasItsContext, SameJob
<1>4. ASSUME k \notin givenUp'
      PROVE  OwnOK(k)'
    <2>1. OwnOK(k)
        BY <1>4 DEF JobOK, SameJob
    <2>2. InsertedOK(k)' /\ WorkOK(k)' /\ BeatOK(k)'
        BY <2>1 DEF OwnOK, InsertedOK, WorkOK, BeatOK, SameJob
    <2>3. WritesOK(k)'
        BY <2>1 DEF OwnOK, WritesOK, WriteOK, SameJob
    <2>4. OneWrite(k)'
        BY <2>1 DEF OwnOK, OneWrite, SameAuthor, SameJob
    <2>5. FinishedOK(k)'
        BY <2>1 DEF OwnOK, FinishedOK, SameJob
    <2>6. QED
        BY <2>2, <2>3, <2>4, <2>5 DEF OwnOK
<1>5. QED
    BY <1>1, <1>2, <1>3, <1>4, Zenon DEF JobOK

LEMMA Assembles ==
    ASSUME IInv, NEW j \in Job, TypeOK', DogOK', CountsOK', JobOK(j)', setup' = setup,
           \A k \in Job \ {j} : SameJob(k)
    PROVE  IInv'
<1>1. \A k \in Job : JobOK(k)'
    BY Frame DEF IInv
<1>2. QED
    BY <1>1 DEF IInv, CountsOK

\* The dog of a step that is not its own.
LEMMA SameDog ==
    ASSUME IInv, dog' = dog
    PROVE  DogOK'
    BY DEF IInv, DogOK

\* What the invariant says of a job.
LEMMA AboutJob ==
    ASSUME IInv, NEW j \in Job
    PROVE  /\ TypeOK /\ DogOK /\ CountsOK /\ JobOK(j)
           /\ jobs[j] \in Entry \cup {None} /\ stored[j] \in Entry \cup {None}
           /\ \A n \in Attempt : attempt[j][n] \in AttemptState
           /\ writes \subseteq Write
    BY DEF IInv, CountsOK, TypeOK

LEMMA SameFaults ==
    ASSUME TypeOK, faults' = faults
    PROVE  faults' \in Nat /\ faults' >= faults
    BY SetupsAssumption DEF TypeOK, Setup

\* A step that no job notices.
LEMMA Quiet ==
    ASSUME IInv, TypeOK', DogOK', setup' = setup, dedup_keys' = dedup_keys,
           active' = active, client' = client, jobs' = jobs, faults' >= faults,
           \A k \in Job : SameJob(k)
    PROVE  IInv'
<1>1. faults' \in Nat
    BY SetupsAssumption DEF TypeOK, Setup
<1>2. CountsOK'
    BY <1>1, SameCounts DEF IInv, CountsOK
<1>3. \A k \in Job : JobOK(k)'
    BY Frame DEF IInv
<1>4. QED
    BY <1>2, <1>3 DEF IInv, CountsOK

-----------------------------------------------------------------------------
(* The dispatcher.                                                         *)

LEMMA TimerFiresOK ==
    ASSUME IInv, NEW j \in Job, TimerFires(j)
    PROVE  IInv'
<1> USE DEF registryVars, storeVars, boundVars
<1>1. TypeOK
    BY DEF IInv
<1>2. /\ queue' \in Seq(Job) /\ Len(queue') <= setup.queueLimit
      /\ refused' \subseteq Job /\ timers' \subseteq timers
    BY <1>1, Pushes DEF TimerFires
<1>3. TypeOK'
    BY <1>1, <1>2 DEF TimerFires, TypeOK
<1>4. \A k \in Job : SameJob(k)
    BY DEF TimerFires, SameJob
<1>5. QED
    BY <1>1, <1>3, <1>4, Quiet, SameDog DEF TimerFires, TypeOK

LEMMA SweepOK ==
    ASSUME IInv, NEW j \in Job, Sweep(j)
    PROVE  IInv'
<1> USE DEF registryVars, storeVars, boundVars
<1>1. TypeOK
    BY DEF IInv
<1>2. /\ queue' \in Seq(Job) /\ Len(queue') <= setup.queueLimit
      /\ refused' \subseteq Job
    BY <1>1, Pushes DEF Sweep
<1>3. TypeOK'
    BY <1>1, <1>2 DEF Sweep, TypeOK
<1>4. \A k \in Job : SameJob(k)
    BY DEF Sweep, SameJob
<1>5. QED
    BY <1>1, <1>3, <1>4, Quiet, SameDog DEF Sweep, TypeOK

LEMMA TimesOutOK ==
    ASSUME IInv, NEW j \in Job, TimesOut(j)
    PROVE  IInv'
<1> USE DEF registryVars, storeVars, boundVars, dispatchVars
<1>1. TypeOK
    BY DEF IInv
<1>2. jobs[j] \in Entry
    BY <1>1 DEF TimesOut, Holding, TypeOK
<1>3. jobs[j].retry_count \in Nat
    BY <1>2 DEF Entry
<1>4. TypeOK'
    BY <1>1, <1>3 DEF TimesOut, TypeOK
<1>5. DogOK'
    BY DEF TimesOut, DogOK
<1>6. \A k \in Job : SameJob(k)
    BY DEF TimesOut, SameJob
<1>7. QED
    BY <1>1, <1>4, <1>5, <1>6, Quiet DEF TimesOut, TypeOK

LEMMA SetHandleOK ==
    ASSUME IInv, NEW j \in Job, NEW n \in Attempt, SetHandle(j, n)
    PROVE  IInv'
<1> USE DEF registryVars, storeVars, boundVars, dispatchVars, taskOnly
<1>1. TypeOK
    BY DEF IInv
<1> DEFINE a == [attempt[j][n] EXCEPT !.handing = FALSE]
<1>2. /\ a \in AttemptState /\ a.pc = attempt[j][n].pc
      /\ a.heartbeat = attempt[j][n].heartbeat
    <2>1. attempt[j][n] \in AttemptState
        BY <1>1 DEF TypeOK
    <2>2. QED
        BY <2>1 DEF AttemptState
<1>3. attempt' = [attempt EXCEPT ![j][n] = a]
    BY DEF SetHandle
<1> HIDE DEF a
<1>4. Becomes(j, n, a)
    BY <1>1, <1>2, <1>3, AttemptSet DEF TypeOK
<1>5. handles' \in [Job -> Attempt \cup {None}]
    BY <1>1 DEF SetHandle, TypeOK
<1>6. TypeOK'
    BY <1>1, <1>4, <1>5 DEF SetHandle, TypeOK, Becomes
<1>7. \A k \in Job : SameJob(k)
    BY <1>2, <1>4 DEF SetHandle, SameJob, Becomes
<1>8. QED
    BY <1>1, <1>6, <1>7, Quiet, SameDog DEF SetHandle, TypeOK

LEMMA ClearHandleOK ==
    ASSUME IInv, NEW j \in Job, NEW n \in Attempt, ClearHandle(j, n)
    PROVE  IInv'
<1> USE DEF registryVars, storeVars, boundVars, dispatchVars, taskOnly
<1>1. TypeOK
    BY DEF IInv
<1> DEFINE a == [attempt[j][n] EXCEPT !.clearing = FALSE]
<1>2. /\ a \in AttemptState /\ a.pc = attempt[j][n].pc
      /\ a.heartbeat = attempt[j][n].heartbeat
    <2>1. attempt[j][n] \in AttemptState
        BY <1>1 DEF TypeOK
    <2>2. QED
        BY <2>1 DEF AttemptState
<1>3. attempt' = [attempt EXCEPT ![j][n] = a]
    BY DEF ClearHandle
<1> HIDE DEF a
<1>4. Becomes(j, n, a)
    BY <1>1, <1>2, <1>3, AttemptSet DEF TypeOK
<1>5. handles' \in [Job -> Attempt \cup {None}]
    BY <1>1 DEF ClearHandle, TypeOK
<1>6. TypeOK'
    BY <1>1, <1>4, <1>5 DEF ClearHandle, TypeOK, Becomes
<1>7. \A k \in Job : SameJob(k)
    BY <1>2, <1>4 DEF ClearHandle, SameJob, Becomes
<1>8. QED
    BY <1>1, <1>6, <1>7, Quiet, SameDog DEF ClearHandle, TypeOK

LEMMA Ripens ==
    ASSUME NEW e \in Entry \cup {None}
    PROVE  /\ Ripe(e) \in Entry \cup {None}
           /\ Ripe(e) = None <=> e = None
           /\ e # None => Ripe(e).status = e.status
<1>1. CASE e # None /\ e.due = "later"
    <2>1. e \in Entry
        BY <1>1
    <2>2. Ripe(e) \in Entry /\ Ripe(e).status = e.status
        BY <1>1, <2>1 DEF Ripe, Entry, Due
    <2>3. QED
        BY <1>1, <2>2, NoneAssumption
<1>2. CASE ~(e # None /\ e.due = "later")
    BY <1>2 DEF Ripe
<1>3. QED
    BY <1>1, <1>2

LEMMA TimePassesOK ==
    ASSUME IInv, NEW j \in Job, TimePasses(j)
    PROVE  IInv'
<1> USE DEF boundVars
<1>1. TypeOK /\ CountsOK /\ JobOK(j)
    BY DEF IInv, CountsOK
<1>2. /\ jobs[j] \in Entry \cup {None} /\ stored[j] \in Entry \cup {None}
      /\ jobs'[j] = Ripe(jobs[j]) /\ stored'[j] = Ripe(stored[j])
      /\ jobs' = [jobs EXCEPT ![j] = Ripe(jobs[j])]
      /\ stored' = [stored EXCEPT ![j] = Ripe(stored[j])]
    BY <1>1 DEF TypeOK, TimePasses
<1>3. /\ jobs'[j] \in Entry \cup {None} /\ stored'[j] \in Entry \cup {None}
      /\ jobs'[j] = None <=> jobs[j] = None
      /\ stored'[j] = None <=> stored[j] = None
      /\ jobs[j] # None => jobs'[j].status = jobs[j].status
      /\ stored[j] # None => stored'[j].status = stored[j].status
    BY <1>2, Ripens
<1>4. timers' \subseteq Job \X {"later", "past"}
    <2>1. timers' = {IF t[1] = j THEN <<j, "past">> ELSE t : t \in timers}
        BY DEF TimePasses
    <2>2. timers \subseteq Job \X {"later", "past"}
        BY <1>1 DEF TypeOK
    <2>3. QED
        BY <2>1, <2>2
<1>5. TypeOK'
    <2>1. jobs' \in [Job -> Entry \cup {None}] /\ stored' \in [Job -> Entry \cup {None}]
        BY <1>1, <1>2, <1>3 DEF TypeOK
    <2>2. QED
        BY <1>1, <1>4, <2>1 DEF TypeOK, TimePasses
<1>6. \A k \in Job \ {j} : SameJob(k)
    BY <1>1, <1>2 DEF SameJob, TimePasses, TypeOK
<1>7. Active(jobs'[j]) <=> Active(jobs[j])
    BY <1>3 DEF Active
<1>8. CountsOK'
    <2>1. \A k \in Job : Active(jobs'[k]) => Active(jobs[k])
        BY <1>6, <1>7 DEF SameJob
    <2>2. faults' \in Nat /\ faults' >= faults
        BY <1>1, SetupsAssumption DEF TypeOK, Setup, TimePasses
    <2>3. QED
        BY <1>1, <2>1, <2>2, SameCounts DEF TimePasses
<1>9. JobOK(j)'
    <2>1. FreshOK(j)'
        BY <1>1, <1>3 DEF JobOK, FreshOK, TimePasses
    <2>2. EndedOK(j)'
        BY <1>1, <1>7 DEF JobOK, EndedOK, TimePasses
    <2>3. HasItsContext(j)'
        BY <1>1, <1>7 DEF JobOK, HasItsContext, TimePasses
    <2>4. ASSUME j \notin givenUp'
          PROVE  OwnOK(j)'
        <3>1. OwnOK(j) /\ Settled(j)
            BY <1>1, <2>4 DEF JobOK, TimePasses
        <3>2. InsertedOK(j)'
            BY <3>1 DEF InsertedOK, Settled, TimePasses
        <3>3. WorkOK(j)' /\ BeatOK(j)'
            BY <1>3, <3>1 DEF OwnOK, WorkOK, BeatOK, Holding, TimePasses
        <3>4. \A w \in writes : w.job = j => ~Waits(w.entry)
            BY <3>1 DEF Settled, Waits
        <3>5. WritesOK(j)'
            BY <3>1, <3>4 DEF OwnOK, WritesOK, WriteOK, TimePasses
        <3>6. OneWrite(j)'
            BY <3>1 DEF OwnOK, OneWrite, TimePasses
        <3>7. FinishedOK(j)'
            BY <1>3, <1>7, <3>1 DEF OwnOK, FinishedOK, Terminal, TimePasses
        <3>8. QED
            BY <3>2, <3>3, <3>5, <3>6, <3>7 DEF OwnOK
    <2>5. QED
        BY <2>1, <2>2, <2>3, <2>4, Zenon DEF JobOK
<1>10. QED
    BY <1>5, <1>6, <1>8, <1>9, Assembles, SameDog DEF TimePasses

-----------------------------------------------------------------------------
(* Registration.                                                           *)

LEMMA CheckRegistrationOK ==
    ASSUME IInv, NEW j \in Job, CheckRegistration(j)
    PROVE  IInv'
<1> USE DEF registryVars, storeVars, dispatchVars, clientOnly, boundVars
<1>1. TypeOK /\ CountsOK /\ JobOK(j)
    BY DEF IInv, CountsOK
<1>2. /\ client[j] = "idle" /\ client'[j] \in {"checked", "done"}
      /\ \A k \in Job \ {j} : client'[k] = client[k]
    BY <1>1 DEF CheckRegistration, TypeOK
<1>3. TypeOK'
    BY <1>1 DEF CheckRegistration, TypeOK
<1>4. \A k \in Job \ {j} : SameJob(k)
    BY <1>2 DEF CheckRegistration, SameJob
<1>5. CountsOK'
    <2>1. \A k \in Job : client[k] = "inserted" => client'[k] = "inserted"
        BY <1>2
    <2>2. faults' \in Nat /\ faults' >= faults
        BY <1>1, SetupsAssumption DEF TypeOK, Setup, CheckRegistration
    <2>3. QED
        BY <1>1, <2>1, <2>2, SameCounts DEF CheckRegistration
<1>6. JobOK(j)'
    <2>1. FreshOK(j)' /\ EndedOK(j)' /\ HasItsContext(j)'
        BY <1>1, <1>2 DEF JobOK, FreshOK, EndedOK, HasItsContext, Active, CheckRegistration
    <2>2. ASSUME j \notin givenUp'
          PROVE  OwnOK(j)'
        <3>1. OwnOK(j)
            BY <1>1, <2>2 DEF JobOK, CheckRegistration
        <3>2. QED
            BY <1>2, <3>1 DEF OwnOK, InsertedOK, WorkOK, BeatOK, WritesOK, WriteOK,
                              OneWrite, FinishedOK, CheckRegistration
    <2>3. QED
        BY <2>1, <2>2, Zenon DEF JobOK
<1>7. QED
    BY <1>3, <1>4, <1>5, <1>6, Assembles, SameDog DEF CheckRegistration

LEMMA InsertOK ==
    ASSUME IInv, NEW j \in Job, Insert(j)
    PROVE  IInv'
<1> USE DEF storeVars, dispatchVars, clientOnly, boundVars
<1> DEFINE e == [status |-> "Scheduled", retry_count |-> 0,
                 due |-> IF j \in setup.delayed THEN "later" ELSE "none"]
<1>1. TypeOK /\ KeyOK /\ CountsOK /\ JobOK(j)
    BY DEF IInv, CountsOK
<1>2. client[j] = "checked" /\ setup' = setup /\ faults' = faults /\ faults' \in Nat
    BY <1>1, SetupsAssumption DEF TypeOK, Setup, Insert
<1>3. /\ jobs[j] = None /\ stored[j] = None
      /\ \A w \in writes : w.job # j
      /\ \A n \in Attempt : attempt[j][n].pc = "unused"
    BY <1>1, <1>2 DEF JobOK, FreshOK
<1>4. CASE RaceLost
    <2>1. /\ client' = [client EXCEPT ![j] = "done"] /\ UNCHANGED registryVars
          /\ client'[j] = "done" /\ \A k \in Job \ {j} : client'[k] = client[k]
        BY <1>1, <1>4 DEF Insert, TypeOK
    <2>2. TypeOK'
        BY <1>1, <2>1 DEF Insert, TypeOK, registryVars
    <2>3. \A k \in Job \ {j} : SameJob(k)
        BY <2>1 DEF Insert, SameJob, registryVars
    <2>4. CountsOK'
        <3>1. \A k \in Job : client[k] = "inserted" => client'[k] = "inserted"
            BY <1>2, <2>1
        <3>2. QED
            BY <1>1, <1>2, <2>1, <3>1, SameCounts DEF registryVars, TypeOK
    <2>5. JobOK(j)'
        <3>1. FreshOK(j)' /\ EndedOK(j)' /\ HasItsContext(j)'
            BY <1>1, <1>3, <2>1 DEF JobOK, FreshOK, EndedOK, HasItsContext, Active, Insert,
                                    registryVars
        <3>2. ASSUME j \notin givenUp'
              PROVE  OwnOK(j)'
            <4>1. OwnOK(j)
                BY <1>1, <3>2 DEF JobOK, Insert
            <4>2. QED
                BY <2>1, <4>1 DEF OwnOK, InsertedOK, WorkOK, BeatOK, WritesOK, WriteOK,
                                  OneWrite, FinishedOK, Insert, registryVars
        <3>3. QED
            BY <3>1, <3>2, Zenon DEF JobOK
    <2>6. QED
        BY <1>2, <2>2, <2>3, <2>4, <2>5, Assembles, SameDog DEF Insert
<1>5. CASE ~RaceLost
    <2>1. /\ client' = [client EXCEPT ![j] = "inserted"]
          /\ jobs' = [jobs EXCEPT ![j] = e]
          /\ dedup_keys' = IF setup.keyed THEN j ELSE dedup_keys
          /\ active' = active /\ handles' = handles
        BY <1>5 DEF Insert
    <2>2. /\ e \in Entry /\ e # None /\ e.status = "Scheduled"
          /\ j \in setup.delayed => e.due = "later"
        <3>1. e \in Entry
            BY DEF Entry, ActiveStatus, Due
        <3>2. QED
            BY <3>1, NoneAssumption
    <2> HIDE DEF e
    <2>3. /\ jobs' \in [Job -> Entry \cup {None}] /\ jobs'[j] = e
          /\ \A k \in Job \ {j} : jobs'[k] = jobs[k]
          /\ client'[j] = "inserted" /\ \A k \in Job \ {j} : client'[k] = client[k]
        BY <1>1, <2>1, <2>2 DEF TypeOK
    <2>4. TypeOK'
        <3>1. dedup_keys' \in Job \cup {None}
            BY <1>1, <2>1 DEF TypeOK
        <3>2. client' \in [Job -> {"idle", "checked", "inserted", "persisting",
                                   "announcing", "putting", "failed", "done"}]
            BY <1>1, <2>1 DEF TypeOK
        <3>3. QED
            BY <1>1, <2>1, <2>3, <3>1, <3>2 DEF Insert, TypeOK
    <2>5. \A k \in Job \ {j} : SameJob(k)
        BY <2>3 DEF Insert, SameJob
    <2>6. Active(jobs'[j])
        BY <2>2, <2>3 DEF Active, ActiveStatus
    <2>7. KeyOK'
        <3>1. SUFFICES ASSUME setup.keyed, faults = 0, NEW k \in Job, Active(jobs'[k])
                       PROVE  dedup_keys' = k
            BY <1>2 DEF KeyOK
        <3>2. ASSUME k # j
              PROVE  FALSE
            <4>1. Active(jobs[k]) /\ dedup_keys = k
                BY <1>1, <2>3, <3>1, <3>2 DEF KeyOK
            <4>2. QED
                BY <1>5, <3>1, <4>1, SetupsAssumption DEF RaceLost, HasActiveHolder
        <3>3. QED
            BY <2>1, <3>1, <3>2
    <2>8. CapNeverUndercounts'
        <3>1. /\ ActiveJobs' = ActiveJobs \cup {j} /\ j \notin ActiveJobs
              /\ Uncounting' = Uncounting \cup {j} /\ j \notin Uncounting
            BY <1>2, <1>3, <2>3, <2>6 DEF ActiveJobs, Uncounting, Active
        <3>2. ActiveJobs \subseteq Job /\ Uncounting \subseteq Job
            BY DEF ActiveJobs, Uncounting
        <3>3. /\ Cardinality(ActiveJobs') = Cardinality(ActiveJobs) + 1
              /\ Cardinality(Uncounting') = Cardinality(Uncounting) + 1
            BY <3>1, <3>2, OneMoreJob
        <3>4. Cardinality(ActiveJobs) \in Nat /\ Cardinality(Uncounting) \in Nat
            BY <3>2, JobSets
        <3>5. Cardinality(ActiveJobs) <= active + Cardinality(Uncounting)
            BY <1>1, CapAsSets DEF CountsOK
        <3>6. Cardinality(ActiveJobs') <= active' + Cardinality(Uncounting')
            BY <1>1, <2>1, <3>3, <3>4, <3>5 DEF TypeOK
        <3>7. QED
            BY <3>6, CapAsSetsNext
    <2>9. JobOK(j)'
        <3>1. FreshOK(j)' /\ EndedOK(j)' /\ HasItsContext(j)'
            BY <1>3, <2>3 DEF FreshOK, EndedOK, HasItsContext, Insert
        <3>2. ASSUME j \notin givenUp'
              PROVE  OwnOK(j)'
            <4>1. OwnOK(j)
                BY <1>1, <3>2 DEF JobOK, Insert
            <4>2. InsertedOK(j)'
                BY <1>2, <2>2, <2>3 DEF InsertedOK, Waits
            <4>3. WorkOK(j)' /\ BeatOK(j)'
                BY <1>3, <4>1 DEF OwnOK, WorkOK, BeatOK, Works, Beats, Insert
            <4>4. WritesOK(j)' /\ OneWrite(j)'
                BY <1>3 DEF WritesOK, OneWrite, Insert
            <4>5. FinishedOK(j)'
                BY <1>3, <4>1 DEF OwnOK, FinishedOK, Terminal, Insert
            <4>6. QED
                BY <4>2, <4>3, <4>4, <4>5 DEF OwnOK
        <3>3. QED
            BY <3>1, <3>2, Zenon DEF JobOK
    <2>10. QED
        BY <1>2, <2>4, <2>5, <2>7, <2>8, <2>9, Assembles, SameDog DEF Insert, CountsOK
<1>6. QED
    BY <1>4, <1>5

LEMMA CountOK ==
    ASSUME IInv, NEW j \in Job, Count(j)
    PROVE  IInv'
<1> USE DEF dispatchVars, clientOnly, boundVars
<1> DEFINE e == [status |-> "Scheduled", retry_count |-> 0, due |-> "later"]
<1>1. TypeOK /\ KeyOK /\ CountsOK /\ JobOK(j)
    BY DEF IInv, CountsOK
<1>2. /\ client[j] = "inserted" /\ client'[j] \in {"persisting", "announcing"}
      /\ \A k \in Job \ {j} : client'[k] = client[k]
      /\ client' \in [Job -> {"idle", "checked", "inserted", "persisting", "announcing",
                              "putting", "failed", "done"}]
    BY <1>1 DEF Count, TypeOK
<1>3. e \in Entry /\ Waits(e)
    <2>1. e \in Entry
        BY DEF Entry, ActiveStatus, Due
    <2>2. QED
        BY <2>1, NoneAssumption DEF Waits
<1>4. \/ writes' = writes
      \/ j \in setup.delayed /\ persist_job(j, "client", 0, e, "Scheduled")
    BY DEF Count
<1> HIDE DEF e
<1>5. \/ writes' = writes
      \/ j \in setup.delayed /\ Adds(j, "client", 0, e)
    <2>1. ASSUME persist_job(j, "client", 0, e, "Scheduled")
          PROVE  Adds(j, "client", 0, e)
        <3>1. /\ 0 \in 0 .. MaxAttempts /\ "client" \in Author
              /\ "Scheduled" \in ActiveStatus \cup TerminalStatus /\ writes \subseteq Write
            BY <1>1, SetupsAssumption DEF TypeOK, Author, ActiveStatus
        <3>2. QED
            BY <1>3, <2>1, <3>1, Persists, Zenon
    <2>2. QED
        BY <1>4, <2>1
<1>6. TypeOK'
    <2>1. writes' \subseteq Write
        BY <1>1, <1>5 DEF TypeOK, Adds
    <2>2. active' \in Nat
        BY <1>1 DEF TypeOK, Count
    <2>3. QED
        BY <1>1, <1>2, <2>1, <2>2 DEF TypeOK, Count
<1>7. \A k \in Job \ {j} : SameJob(k)
    BY <1>2, <1>5 DEF Count, SameJob, Adds
<1>8. CountsOK'
    <2>1. KeyOK'
        BY <1>1 DEF KeyOK, Count
    <2>2. ActiveJobs' = ActiveJobs /\ Uncounting' = Uncounting \ {j} /\ j \in Uncounting
        BY <1>2 DEF ActiveJobs, Uncounting, Count
    <2>3. ActiveJobs \subseteq Job /\ Uncounting \subseteq Job
        BY DEF ActiveJobs, Uncounting
    <2>4. Cardinality(Uncounting') = Cardinality(Uncounting) - 1
        BY <2>2, <2>3, OneJobLess
    <2>5. Cardinality(ActiveJobs) \in Nat /\ Cardinality(Uncounting) \in Nat
        BY <2>3, JobSets
    <2>6. Cardinality(ActiveJobs) <= active + Cardinality(Uncounting)
        BY <1>1, CapAsSets DEF CountsOK
    <2>7. active' = active + 1
        BY DEF Count
    <2>8. Cardinality(ActiveJobs') <= active' + Cardinality(Uncounting')
        BY <1>1, <2>2, <2>4, <2>5, <2>6, <2>7 DEF TypeOK
    <2>9. QED
        BY <2>1, <2>8, CapAsSetsNext DEF CountsOK
<1>9. JobOK(j)'
    <2>1. FreshOK(j)' /\ EndedOK(j)' /\ HasItsContext(j)'
        BY <1>1, <1>2 DEF JobOK, FreshOK, EndedOK, HasItsContext, Count
    <2>2. ASSUME j \notin givenUp'
          PROVE  OwnOK(j)'
        <3>1. OwnOK(j)
            BY <1>1, <2>2 DEF JobOK, Count
        <3>2. j \in setup.delayed => Waits(jobs[j])
            BY <1>2, <3>1 DEF OwnOK, InsertedOK
        <3>3. InsertedOK(j)' /\ WorkOK(j)' /\ BeatOK(j)'
            BY <1>2, <3>1 DEF OwnOK, InsertedOK, WorkOK, BeatOK, Count
        <3>4. WritesOK(j)'
            BY <1>3, <1>5, <3>1, <3>2 DEF OwnOK, WritesOK, WriteOK, ByAttempt, Adds, Count
        <3>5. OneWrite(j)'
            BY <1>5, <3>1 DEF OwnOK, OneWrite, SameAuthor, ByAttempt, Adds, Count
        <3>6. j \in finished => j \notin setup.delayed
            BY <3>1, <3>2 DEF OwnOK, FinishedOK, Waits, Active, ActiveStatus
        <3>7. FinishedOK(j)'
            BY <1>5, <3>1, <3>6 DEF OwnOK, FinishedOK, Count
        <3>8. QED
            BY <3>3, <3>4, <3>5, <3>7 DEF OwnOK
    <2>3. QED
        BY <2>1, <2>2, Zenon DEF JobOK
<1>10. QED
    BY <1>6, <1>7, <1>8, <1>9, Assembles, SameDog DEF Count

LEMMA RegistrationStoredOK ==
    ASSUME IInv, NEW j \in Job, RegistrationStored(j)
    PROVE  IInv'
<1> USE DEF registryVars, dispatchVars
<1>1. TypeOK /\ CountsOK /\ JobOK(j)
    BY DEF IInv, CountsOK
<1>2. PICK w \in writes, ok \in BOOLEAN : w.job = j /\ w.by = "client" /\ Lands(w, ok)
    BY DEF RegistrationStored
<1>3. /\ w.entry \in Entry
      /\ writes' = writes \ {w} /\ writes' \subseteq Write
      /\ stored' \in [Job -> Entry \cup {None}]
      /\ \A k \in Job : k # w.job => stored'[k] = stored[k]
      /\ stored'[w.job] = IF ok THEN w.entry ELSE stored[w.job]
      /\ context' = context /\ parks' = parks
      /\ faults' \in 0 .. setup.maxFaults /\ faults' >= faults
    BY <1>1, <1>2, Landing DEF RegistrationStored
<1>4. /\ client[j] = "persisting" /\ client'[j] = "announcing"
      /\ \A k \in Job \ {j} : client'[k] = client[k]
      /\ client' \in [Job -> {"idle", "checked", "inserted", "persisting", "announcing",
                              "putting", "failed", "done"}]
    BY <1>1 DEF RegistrationStored, TypeOK
<1>5. TypeOK'
    BY <1>1, <1>3, <1>4 DEF RegistrationStored, TypeOK
<1>6. \A k \in Job \ {j} : SameJob(k)
    BY <1>2, <1>3, <1>4 DEF RegistrationStored, SameJob
<1>7. CountsOK'
    <2>1. \A k \in Job : client[k] = "inserted" => client'[k] = "inserted"
        BY <1>4
    <2>2. faults' \in Nat
        BY <1>3
    <2>3. QED
        BY <1>1, <1>3, <2>1, <2>2, SameCounts DEF RegistrationStored
<1>8. JobOK(j)'
    <2>1. FreshOK(j)' /\ EndedOK(j)' /\ HasItsContext(j)'
        BY <1>1, <1>4 DEF JobOK, FreshOK, EndedOK, HasItsContext, RegistrationStored
    <2>2. ASSUME j \notin givenUp'
          PROVE  OwnOK(j)'
        <3>1. OwnOK(j)
            BY <1>1, <2>2 DEF JobOK, RegistrationStored
        <3>2. InsertedOK(j)' /\ WorkOK(j)' /\ BeatOK(j)'
            BY <1>4, <3>1 DEF OwnOK, InsertedOK, WorkOK, BeatOK, RegistrationStored
        <3>3. WritesOK(j)' /\ OneWrite(j)'
            BY <1>3, <3>1 DEF OwnOK, WritesOK, WriteOK, OneWrite, RegistrationStored
        <3>4. FinishedOK(j)'
            BY <1>2, <1>3, <3>1 DEF OwnOK, FinishedOK, RegistrationStored
        <3>5. QED
            BY <3>2, <3>3, <3>4 DEF OwnOK
    <2>3. QED
        BY <2>1, <2>2, Zenon DEF JobOK
<1>9. QED
    BY <1>5, <1>6, <1>7, <1>8, Assembles, SameDog DEF RegistrationStored

LEMMA AnnounceOK ==
    ASSUME IInv, NEW j \in Job, Announce(j)
    PROVE  IInv'
<1> USE DEF registryVars, storeVars, clientOnly, boundVars
<1>1. TypeOK /\ CountsOK /\ JobOK(j)
    BY DEF IInv, CountsOK
<1>2. DispatchTyped
    <2>1. (IF jobs[j] # None THEN jobs[j].due ELSE "none") \in Due
        BY <1>1 DEF TypeOK, Entry, Due
    <2>2. QED
        BY <1>1, <2>1, DispatchesWhenDue DEF Announce
<1>3. /\ client[j] = "announcing" /\ client'[j] = "putting"
      /\ \A k \in Job \ {j} : client'[k] = client[k]
      /\ client' \in [Job -> {"idle", "checked", "inserted", "persisting", "announcing",
                              "putting", "failed", "done"}]
    BY <1>1 DEF Announce, TypeOK
<1>4. TypeOK'
    BY <1>1, <1>2, <1>3 DEF Announce, TypeOK, DispatchTyped
<1>5. \A k \in Job \ {j} : SameJob(k)
    BY <1>3 DEF Announce, SameJob
<1>6. CountsOK'
    <2>1. \A k \in Job : client[k] = "inserted" => client'[k] = "inserted"
        BY <1>3
    <2>2. faults' \in Nat /\ faults' >= faults
        BY <1>1, SetupsAssumption DEF TypeOK, Setup, Announce
    <2>3. QED
        BY <1>1, <2>1, <2>2, SameCounts DEF Announce
<1>7. JobOK(j)'
    <2>1. FreshOK(j)' /\ EndedOK(j)' /\ HasItsContext(j)'
        BY <1>1, <1>3 DEF JobOK, FreshOK, EndedOK, HasItsContext, Announce
    <2>2. ASSUME j \notin givenUp'
          PROVE  OwnOK(j)'
        <3>1. OwnOK(j)
            BY <1>1, <2>2 DEF JobOK, Announce
        <3>2. QED
            BY <1>3, <3>1 DEF OwnOK, InsertedOK, WorkOK, BeatOK, WritesOK, WriteOK,
                              OneWrite, FinishedOK, Announce
    <2>3. QED
        BY <2>1, <2>2, Zenon DEF JobOK
<1>8. QED
    BY <1>4, <1>5, <1>6, <1>7, Assembles, SameDog DEF Announce

LEMMA PutContextOK ==
    ASSUME IInv, NEW j \in Job, PutContext(j)
    PROVE  IInv'
<1> USE DEF registryVars, dispatchVars, clientOnly, boundVars
<1>1. TypeOK /\ CountsOK /\ JobOK(j)
    BY DEF IInv, CountsOK
<1>2. /\ client[j] = "putting" /\ client'[j] = "done"
      /\ \A k \in Job \ {j} : client'[k] = client[k]
      /\ client' \in [Job -> {"idle", "checked", "inserted", "persisting", "announcing",
                              "putting", "failed", "done"}]
    BY <1>1 DEF PutContext, TypeOK
<1>3. TypeOK'
    BY <1>1, <1>2 DEF PutContext, TypeOK
<1>4. \A k \in Job \ {j} : SameJob(k)
    BY <1>2 DEF PutContext, SameJob
<1>5. CountsOK'
    <2>1. \A k \in Job : client[k] = "inserted" => client'[k] = "inserted"
        BY <1>2
    <2>2. faults' \in Nat /\ faults' >= faults
        BY <1>1, SetupsAssumption DEF TypeOK, Setup, PutContext
    <2>3. QED
        BY <1>1, <2>1, <2>2, SameCounts DEF PutContext
<1>6. JobOK(j)'
    <2>1. FreshOK(j)' /\ EndedOK(j)' /\ HasItsContext(j)'
        BY <1>1, <1>2 DEF JobOK, FreshOK, EndedOK, HasItsContext, PutContext
    <2>2. ASSUME j \notin givenUp'
          PROVE  OwnOK(j)'
        <3>1. OwnOK(j)
            BY <1>1, <2>2 DEF JobOK, PutContext
        <3>2. QED
            BY <1>2, <3>1 DEF OwnOK, InsertedOK, WorkOK, BeatOK, WritesOK, WriteOK,
                              OneWrite, FinishedOK, PutContext
    <2>3. QED
        BY <2>1, <2>2, Zenon DEF JobOK
<1>7. QED
    BY <1>3, <1>4, <1>5, <1>6, Assembles, SameDog DEF PutContext

\* The call fails: the job has no context, and its call has not returned well.
LEMMA PutContextFailsOK ==
    ASSUME IInv, NEW j \in Job, PutContextFails(j)
    PROVE  IInv'
<1> USE DEF registryVars, storeVars, dispatchVars
<1>1. TypeOK /\ CountsOK /\ JobOK(j)
    BY DEF IInv, CountsOK
<1>2. /\ client[j] = "putting" /\ client'[j] = "failed"
      /\ \A k \in Job \ {j} : client'[k] = client[k]
      /\ client' \in [Job -> {"idle", "checked", "inserted", "persisting", "announcing",
                              "putting", "failed", "done"}]
    BY <1>1 DEF PutContextFails, TypeOK
<1>3. faults' \in Nat /\ faults' >= faults /\ faults' \in 0 .. setup.maxFaults
    BY <1>1, SetupsAssumption DEF TypeOK, Setup, PutContextFails
<1>4. TypeOK'
    BY <1>1, <1>2, <1>3 DEF PutContextFails, TypeOK
<1>5. \A k \in Job \ {j} : SameJob(k)
    BY <1>2 DEF PutContextFails, SameJob
<1>6. CountsOK'
    <2>1. \A k \in Job : client[k] = "inserted" => client'[k] = "inserted"
        BY <1>2
    <2>2. QED
        BY <1>1, <1>3, <2>1, SameCounts DEF PutContextFails
<1>7. JobOK(j)'
    <2>1. FreshOK(j)' /\ EndedOK(j)' /\ HasItsContext(j)'
        BY <1>1, <1>2 DEF JobOK, FreshOK, EndedOK, HasItsContext, PutContextFails
    <2>2. ASSUME j \notin givenUp'
          PROVE  OwnOK(j)'
        <3>1. OwnOK(j)
            BY <1>1, <2>2 DEF JobOK, PutContextFails
        <3>2. QED
            BY <1>2, <3>1 DEF OwnOK, InsertedOK, WorkOK, BeatOK, WritesOK, WriteOK,
                              OneWrite, FinishedOK, PutContextFails
    <2>3. QED
        BY <2>1, <2>2, Zenon DEF JobOK
<1>8. QED
    BY <1>4, <1>5, <1>6, <1>7, Assembles, SameDog DEF PutContextFails

-----------------------------------------------------------------------------
(* The worker and the handler task.                                        *)

LEMMA ClaimOK ==
    ASSUME IInv, NEW j \in Job, Claim(j)
    PROVE  IInv'
<1> USE DEF taskOnly, boundVars
<1>1. TypeOK /\ CountsOK /\ JobOK(j) /\ jobs[j] \in Entry \cup {None} /\ DogOK'
    BY SameDog DEF IInv, CountsOK, TypeOK, Claim
<1>2. queue' \in Seq(Job) /\ Len(queue') <= setup.queueLimit
    <2>1. PICK i \in 1 .. Len(queue) : queue' = RemoveAt(queue, i)
        BY DEF Claim
    <2>2. queue' \in Seq(Job) /\ Len(queue') <= Len(queue)
        BY <1>1, <2>1, RemovedAt DEF TypeOK
    <2>3. Len(queue') \in Nat /\ Len(queue) \in Nat /\ setup.queueLimit \in Nat
        BY <1>1, <2>2, LenProperties, SetupsAssumption DEF TypeOK, Setup
    <2>4. QED
        BY <1>1, <2>2, <2>3 DEF TypeOK
<1>3. CASE ~Claimable(j)
    <2>1. UNCHANGED <<jobs, writes, attempt>>
        BY <1>3 DEF Claim
    <2>2. TypeOK'
        BY <1>1, <1>2, <2>1 DEF Claim, TypeOK
    <2>3. \A k \in Job : SameJob(k)
        BY <2>1 DEF Claim, SameJob
    <2>4. QED
        BY <1>1, <2>1, <2>2, <2>3, Quiet DEF Claim, TypeOK
<1>4. CASE Claimable(j)
    <2> DEFINE e == [jobs[j] EXCEPT !.status = "Running"]
    <2>1. PICK n \in Attempt :
              /\ {k \in Attempt : attempt[j][k] = Unused} = n .. MaxAttempts
              /\ jobs' = [jobs EXCEPT ![j] = e]
              /\ persist_job(j, "worker", n, e, jobs[j].status)
              /\ Step(j, n, "claiming")
        BY <1>4 DEF Claim
    <2>2. /\ jobs[j] \in Entry /\ jobs[j].status = "Scheduled" /\ jobs[j].due # "later"
        BY <1>1, <1>4 DEF Claimable
    <2>3. e \in Entry /\ e.status = "Running"
        <3>1. "Running" \in ActiveStatus \cup TerminalStatus
            BY DEF ActiveStatus
        <3>2. QED
            BY <2>2, <3>1, StatusChange, Zenon
    <2> HIDE DEF e
    <2>4. n \in n .. MaxAttempts /\ n \in 0 .. MaxAttempts
        BY SetupsAssumption DEF Attempt
    <2>5. attempt[j][n] = Unused
        BY <2>1, <2>4
    <2>6. PICK a \in AttemptState : a.pc = "claiming" /\ a.heartbeat = "off" /\ Becomes(j, n, a)
        <3>1. "claiming" \in {"unused", "done"} \cup WorkerPc \cup TaskPc
            BY DEF WorkerPc
        <3>2. attempt \in [Job -> [Attempt -> AttemptState]]
            BY <1>1 DEF TypeOK
        <3>3. attempt[j][n].heartbeat = "off"
            BY <2>5 DEF Unused
        <3>4. QED
            BY <2>1, <3>1, <3>2, <3>3, StepSet
    <2>7. Adds(j, "worker", n, e)
        <3>1. /\ "worker" \in Author /\ jobs[j].status \in ActiveStatus \cup TerminalStatus
              /\ writes \subseteq Write
            BY <1>1, <2>2 DEF TypeOK, Author, ActiveStatus
        <3>2. QED
            BY <2>1, <2>3, <2>4, <3>1, Persists, Zenon
    <2>8. PICK w \in Write : /\ writes' = writes \cup {w}
                             /\ w.job = j /\ w.by = "worker" /\ w.n = n /\ w.entry = e
        BY <2>7 DEF Adds
    <2>9. /\ jobs' \in [Job -> Entry \cup {None}] /\ jobs'[j] = e
          /\ \A k \in Job \ {j} : jobs'[k] = jobs[k]
        BY <1>1, <2>1, <2>3 DEF TypeOK
    <2>10. TypeOK'
        BY <1>1, <1>2, <2>6, <2>7, <2>9 DEF Claim, TypeOK, Becomes, Adds
    <2>11. \A k \in Job \ {j} : SameJob(k)
        BY <2>6, <2>8, <2>9 DEF Claim, SameJob, Becomes
    <2>12. Holding(jobs'[j]) /\ Active(jobs[j]) /\ Active(jobs'[j])
        BY <2>2, <2>3, <2>9, NoneAssumption DEF Holding, Active, ActiveStatus
    <2>13. CountsOK'
        <3>1. \A k \in Job : Active(jobs'[k]) => Active(jobs[k])
            BY <2>9, <2>12
        <3>2. faults' \in Nat /\ faults' >= faults
            BY <1>1, SetupsAssumption DEF TypeOK, Setup, Claim
        <3>3. QED
            BY <1>1, <3>1, <3>2, SameCounts DEF Claim
    <2>14. JobOK(j)'
        <3>1. FreshOK(j)'
            BY <1>1, <2>2, NoneAssumption DEF JobOK, FreshOK, Claim
        <3>2. EndedOK(j)'
            BY <1>1, <2>6, <2>12 DEF JobOK, EndedOK, Becomes
        <3>3. HasItsContext(j)'
            BY <1>1, <2>12 DEF JobOK, HasItsContext, Claim
        <3>4. ASSUME j \notin givenUp'
              PROVE  OwnOK(j)'
            <4>1. OwnOK(j)
                BY <1>1, <3>4 DEF JobOK, Claim
            <4>2. /\ \A m \in Attempt : attempt[j][m].pc \notin Works
                  /\ \A m \in Attempt : attempt[j][m].heartbeat = "off"
                BY <2>2, <4>1 DEF OwnOK, WorkOK, BeatOK, Holding, Works
            <4>3. ~Waits(jobs[j]) /\ j \notin finished
                BY <2>2, <2>12, <4>1 DEF Waits, OwnOK, FinishedOK
            <4>4. InsertedOK(j)'
                BY <4>1, <4>3 DEF OwnOK, InsertedOK, Claim
            <4>5. WorkOK(j)' /\ BeatOK(j)'
                BY <2>6, <2>12, <4>2 DEF WorkOK, BeatOK, Becomes
            <4>6. \A v \in writes : v.job = j =>
                      /\ v.by \in ByAttempt /\ v.n \in Attempt
                      /\ attempt[j][v.n].pc \in {"failing", "completing"} /\ Terminal(v.entry)
                      /\ v.n # n
                <5>1. "claiming" \in Works /\ "beating" \in Works /\ "marking" \in Works
                    BY DEF Works, Beats
                <5>2. attempt[j][n].pc = "unused"
                    BY <2>5 DEF Unused
                <5>3. QED
                    BY <4>1, <4>2, <4>3, <5>1, <5>2 DEF OwnOK, WritesOK, WriteOK
            <4>7. WritesOK(j)'
                <5>1. w.by \in ByAttempt /\ Holding(w.entry)
                    BY <2>8, <2>9, <2>12 DEF ByAttempt
                <5>2. QED
                    BY <2>6, <2>8, <4>6, <5>1 DEF WritesOK, WriteOK, Becomes, ByAttempt
            <4>8. OneWrite(j)'
                BY <2>8, <4>1, <4>6 DEF OwnOK, OneWrite, SameAuthor
            <4>9. FinishedOK(j)'
                BY <4>3 DEF FinishedOK, Claim
            <4>10. QED
                BY <4>4, <4>5, <4>7, <4>8, <4>9 DEF OwnOK
        <3>5. QED
            BY <3>1, <3>2, <3>3, <3>4, Zenon DEF JobOK
    <2>15. QED
        BY <1>1, <2>10, <2>11, <2>13, <2>14, Assembles DEF Claim
<1>5. QED
    BY <1>3, <1>4

\* Attempt n of job j goes on, alone.
LEMMA QuietMove ==
    ASSUME IInv, TypeOK', DogOK', setup' = setup, faults' >= faults,
           NEW j \in Job, NEW n \in Attempt, NEW a \in AttemptState, Becomes(j, n, a),
           UNCHANGED <<jobs, dedup_keys, active, stored, writes, client, givenUp, finished>>,
           \A k \in Job \ {j} : k \in context => k \in context',
           j \in context => j \in context' \/ ~Active(jobs[j]),
           attempt[j][n].pc # "unused" \/ a.pc = "unused",
           a.pc \in {"completing", "deleting"} => ~Active(jobs[j]),
           j \notin givenUp =>
               /\ a.pc \in Works => attempt[j][n].pc \in Works
               /\ a.heartbeat # "off" => a.pc \in Beats
               /\ attempt[j][n].heartbeat = "writing" => a.heartbeat = "writing"
               /\ \/ a.pc = attempt[j][n].pc
                  \/ attempt[j][n].pc \in {"loading", "starting", "waiting", "running", "deleting"}
    PROVE  IInv'
<1>1. TypeOK /\ CountsOK /\ JobOK(j)
    BY DEF IInv, CountsOK
<1>2. \A k \in Job \ {j} : SameJob(k)
    BY DEF SameJob, Becomes
<1>3. CountsOK'
    <2>1. faults' \in Nat
        BY SetupsAssumption DEF TypeOK, Setup
    <2>2. QED
        BY <1>1, <2>1, SameCounts
<1>4. JobOK(j)'
    <2>1. FreshOK(j)'
        BY <1>1 DEF JobOK, FreshOK, Becomes
    <2>2. EndedOK(j)'
        BY <1>1 DEF JobOK, EndedOK, Becomes
    <2>3. HasItsContext(j)'
        BY <1>1 DEF JobOK, HasItsContext
    <2>4. ASSUME j \notin givenUp'
          PROVE  OwnOK(j)'
        <3>1. OwnOK(j) /\ j \notin givenUp
            BY <1>1, <2>4 DEF JobOK
        <3>2. InsertedOK(j)' /\ OneWrite(j)' /\ FinishedOK(j)'
            BY <3>1 DEF OwnOK, InsertedOK, OneWrite, SameAuthor, FinishedOK
        <3>3. WorkOK(j)'
            BY <3>1 DEF OwnOK, WorkOK, Becomes
        <3>4. BeatOK(j)'
            BY <3>1 DEF OwnOK, BeatOK, Becomes
        <3>5. WritesOK(j)'
            BY <3>1 DEF OwnOK, WritesOK, WriteOK, Becomes
        <3>6. QED
            BY <3>2, <3>3, <3>4, <3>5 DEF OwnOK
    <2>5. QED
        BY <2>1, <2>2, <2>3, <2>4, Zenon DEF JobOK
<1>5. QED
    BY <1>2, <1>3, <1>4, Assembles

\* Attempt n of job j changes the job and waits for its write.
LEMMA WritingMove ==
    ASSUME IInv, TypeOK', DogOK', CountsOK', setup' = setup,
           NEW j \in Job, NEW n \in Attempt, NEW a \in AttemptState, Becomes(j, n, a),
           NEW by \in ByAttempt, Adds(j, by, n, jobs'[j]),
           \A k \in Job \ {j} : jobs'[k] = jobs[k],
           UNCHANGED <<stored, client, context, givenUp, finished>>,
           Active(jobs[j]),
           attempt[j][n].pc \in {"loading", "starting", "waiting", "running"},
           \/ a.pc \in {"beating", "marking"} /\ Holding(jobs'[j])
           \/ a.pc \in {"failing", "completing"} /\ Terminal(jobs'[j])
           \/ a.pc = "requeueing" /\ Waits(jobs'[j]),
           j \notin givenUp =>
               /\ a.heartbeat # "off" => a.pc \in Beats
               /\ attempt[j][n].heartbeat = "writing" => a.heartbeat = "writing"
    PROVE  IInv'
<1>1. TypeOK /\ CountsOK /\ JobOK(j)
    BY DEF IInv, CountsOK
<1>2. PICK w \in Write : /\ writes' = writes \cup {w}
                         /\ w.job = j /\ w.by = by /\ w.n = n /\ w.entry = jobs'[j]
    BY DEF Adds
<1>3. \A k \in Job \ {j} : SameJob(k)
    BY <1>2 DEF SameJob, Becomes
<1>4. JobOK(j)'
    <2>1. FreshOK(j)'
        BY <1>1 DEF JobOK, FreshOK, Active
    <2>2. EndedOK(j)'
        <3>1. ASSUME NEW m \in Attempt, attempt'[j][m].pc \in {"completing", "deleting"}
              PROVE  ~Active(jobs'[j])
            <4>1. CASE m = n
                <5>1. Terminal(jobs'[j])
                    BY <3>1, <4>1 DEF Becomes
                <5>2. QED
                    BY <5>1 DEF Terminal, Active, ActiveStatus, TerminalStatus
            <4>2. CASE m # n
                BY <1>1, <3>1, <4>2 DEF JobOK, EndedOK, Becomes
            <4>3. QED
                BY <4>1, <4>2
        <3>2. QED
            BY <3>1 DEF EndedOK
    <2>3. HasItsContext(j)'
        BY <1>1 DEF JobOK, HasItsContext
    <2>4. ASSUME j \notin givenUp'
          PROVE  OwnOK(j)'
        <3>1. OwnOK(j) /\ j \notin givenUp
            BY <1>1, <2>4 DEF JobOK
        <3>2. attempt[j][n].pc \in Works
            BY DEF Works, Beats
        <3>3. /\ Holding(jobs[j]) /\ ~Waits(jobs[j]) /\ j \notin finished
              /\ \A m \in Attempt \ {n} : attempt[j][m].pc \notin Works
              /\ \A m \in Attempt \ {n} : attempt[j][m].heartbeat = "off"
            BY <3>1, <3>2 DEF OwnOK, WorkOK, BeatOK, FinishedOK, Holding, Waits, Works
        <3>4. \A v \in writes : v.job = j =>
                  /\ v.n \in Attempt
                  /\ \/ v.by = "heartbeat" /\ v.n = n /\ attempt[j][n].heartbeat = "writing"
                        /\ Holding(v.entry)
                     \/ /\ v.by \in ByAttempt /\ v.n # n /\ Terminal(v.entry)
                        /\ attempt[j][v.n].pc \in {"failing", "completing"}
            BY <3>1, <3>3 DEF OwnOK, WritesOK, WriteOK, Works, Beats
        <3>5. InsertedOK(j)' /\ FinishedOK(j)'
            BY <3>1, <3>3 DEF OwnOK, InsertedOK, FinishedOK
        <3>6. WorkOK(j)'
            <4>1. a.pc \in Works => Holding(jobs'[j])
                BY DEF Works, Beats
            <4>2. QED
                BY <3>3, <4>1 DEF WorkOK, Becomes
        <3>7. BeatOK(j)'
            BY <3>1, <3>3 DEF BeatOK, Becomes
        <3>8. WritesOK(j)'
            <4>1. ASSUME NEW v \in writes, v.job = j
                  PROVE  WriteOK(j, v)'
                BY <3>1, <3>4, <4>1 DEF WriteOK, Becomes, ByAttempt
            <4>2. WriteOK(j, w)'
                BY <1>2 DEF WriteOK, Becomes, ByAttempt
            <4>3. QED
                BY <1>2, <4>1, <4>2 DEF WritesOK
        <3>9. OneWrite(j)'
            BY <1>2, <3>1, <3>4 DEF OwnOK, OneWrite, SameAuthor, ByAttempt
        <3>10. QED
            BY <3>5, <3>6, <3>7, <3>8, <3>9 DEF OwnOK
    <2>5. QED
        BY <2>1, <2>2, <2>3, <2>4, Zenon DEF JobOK
<1>5. QED
    BY <1>3, <1>4, Assembles

LEMMA SpawnOK ==
    ASSUME IInv, NEW j \in Job, NEW n \in Attempt, Spawn(j, n)
    PROVE  IInv'
<1> USE DEF registryVars, storeVars, dispatchVars, taskOnly, boundVars
<1> DEFINE a == [pc |-> "starting", retry_count |-> jobs[j].retry_count,
                 heartbeat |-> "on", handing |-> TRUE, clearing |-> FALSE]
<1>1. TypeOK /\ DogOK'
    BY SameDog DEF IInv, Spawn
<1>2. a \in AttemptState /\ a.pc = "starting" /\ a.heartbeat = "on"
    <2>1. jobs[j] \in Entry
        BY <1>1 DEF TypeOK, Spawn
    <2>2. jobs[j].retry_count \in Nat
        BY <2>1 DEF Entry
    <2>3. QED
        BY <2>2 DEF AttemptState, TaskPc
<1>3. attempt' = [attempt EXCEPT ![j][n] = a]
    BY DEF Spawn
<1> HIDE DEF a
<1>4. Becomes(j, n, a)
    BY <1>1, <1>2, <1>3, AttemptSet DEF TypeOK
<1>5. TypeOK'
    BY <1>1, <1>4 DEF Spawn, TypeOK, Becomes
<1>6. attempt[j][n].pc = "loading" /\ a.pc \in Works /\ a.pc \in Beats /\ "loading" \in Works
    BY <1>2 DEF Works, Beats, Spawn
<1>7. j \notin givenUp => attempt[j][n].heartbeat = "off"
    BY <1>6 DEF IInv, JobOK, OwnOK, BeatOK, Beats
<1>8. QED
    BY <1>1, <1>2, <1>4, <1>5, <1>6, <1>7, QuietMove, SameFaults DEF Spawn

LEMMA LoadFailsOK ==
    ASSUME IInv, NEW j \in Job, NEW n \in Attempt, LoadFails(j, n)
    PROVE  IInv'
<1> USE DEF registryVars, storeVars, dispatchVars, taskOnly
<1>1. TypeOK /\ DogOK' /\ attempt[j][n].pc = "loading"
    BY SameDog DEF IInv, LoadFails
<1>2. PICK a \in AttemptState :
          a.pc = "done" /\ a.heartbeat = attempt[j][n].heartbeat /\ Becomes(j, n, a)
    BY <1>1, StepSet DEF LoadFails, TypeOK
<1>3. faults' >= faults /\ faults' \in 0 .. setup.maxFaults
    BY <1>1, SetupsAssumption DEF LoadFails, TypeOK, Setup
<1>4. TypeOK'
    BY <1>1, <1>2, <1>3 DEF LoadFails, TypeOK, Becomes
<1>5. j \notin givenUp => attempt[j][n].heartbeat = "off"
    BY <1>1 DEF IInv, JobOK, OwnOK, BeatOK, Beats
<1>6. "done" \notin Works
    BY DEF Works, Beats
<1>7. QED
    BY <1>1, <1>2, <1>3, <1>4, <1>5, <1>6, QuietMove DEF LoadFails

LEMMA ContextMissingOK ==
    ASSUME IInv, NEW j \in Job, NEW n \in Attempt, ContextMissing(j, n)
    PROVE  IInv'
<1> USE DEF registryVars, dispatchVars, taskOnly, boundVars
<1>1. /\ TypeOK /\ CountsOK /\ DogOK' /\ attempt[j][n].pc = "loading" /\ n \in 0 .. MaxAttempts
      /\ jobs[j] \in Entry \cup {None}
    BY SameDog, SetupsAssumption DEF IInv, CountsOK, ContextMissing, Attempt, TypeOK
<1>2. j \notin givenUp => attempt[j][n].heartbeat = "off"
    BY <1>1 DEF IInv, JobOK, OwnOK, BeatOK, Beats
<1>3. CASE MayChange(jobs[j])
    <2>1. update_status(j, "Failed", "worker", n) /\ Step(j, n, "failing")
        BY <1>3 DEF ContextMissing
    <2>2. PICK a \in AttemptState :
              a.pc = "failing" /\ a.heartbeat = attempt[j][n].heartbeat /\ Becomes(j, n, a)
        BY <1>1, <2>1, StepSet DEF TypeOK, WorkerPc
    <2>3. /\ "Failed" \in ActiveStatus \cup TerminalStatus /\ "worker" \in Author
          /\ "worker" \in ByAttempt
        BY DEF TerminalStatus, Author, ByAttempt
    <2>4. Active(jobs[j]) /\ jobs[j] # None
        BY <1>1, <1>3, MayChangeActive DEF Active
    <2>5. /\ Changes(j, "Failed", jobs[j].due, "worker", n) /\ handles' = handles
          /\ dedup_keys' \in Job \cup {None} /\ active' \in Nat
        BY <1>1, <2>1, <2>3, <2>4, Updates
    <2>6. CountsOK'
        BY <1>1, <2>1, <2>3, <2>4, UpdateCounts DEF ContextMissing
    <2>7. TypeOK'
        BY <1>1, <2>2, <2>5 DEF ContextMissing, TypeOK, Becomes, Changes, Adds
    <2>8. Terminal(jobs'[j])
        BY <2>5, NoneAssumption DEF Changes, Terminal, TerminalStatus
    <2>9. Adds(j, "worker", n, jobs'[j]) /\ \A k \in Job \ {j} : jobs'[k] = jobs[k]
        BY <2>5, Zenon DEF Changes
    <2>10. QED
        BY <1>1, <1>2, <2>2, <2>3, <2>4, <2>6, <2>7, <2>8, <2>9, WritingMove
        DEF ContextMissing
<1>4. CASE ~MayChange(jobs[j])
    <2>1. UNCHANGED <<registryVars, writes>> /\ Step(j, n, "done")
        BY <1>4 DEF ContextMissing
    <2>2. PICK a \in AttemptState :
              a.pc = "done" /\ a.heartbeat = attempt[j][n].heartbeat /\ Becomes(j, n, a)
        BY <1>1, <2>1, StepSet DEF TypeOK
    <2>3. TypeOK'
        BY <1>1, <2>1, <2>2 DEF ContextMissing, TypeOK, Becomes
    <2>4. "done" \notin Works
        BY DEF Works, Beats
    <2>5. QED
        BY <1>1, <1>2, <2>1, <2>2, <2>3, <2>4, QuietMove, SameFaults DEF ContextMissing
<1>5. QED
    BY <1>3, <1>4

LEMMA InitialHeartbeatOK ==
    ASSUME IInv, NEW j \in Job, NEW n \in Attempt, InitialHeartbeat(j, n)
    PROVE  IInv'
<1> USE DEF registryVars, dispatchVars, taskOnly, boundVars
<1>1. /\ TypeOK /\ CountsOK /\ DogOK' /\ attempt[j][n].pc = "starting" /\ n \in 0 .. MaxAttempts
      /\ jobs[j] \in Entry \cup {None}
    BY SameDog, SetupsAssumption DEF IInv, CountsOK, InitialHeartbeat, Attempt, TypeOK
<1>2. CountsOK'
    <2>1. faults' \in Nat /\ faults' >= faults
        BY <1>1, SetupsAssumption DEF TypeOK, Setup, InitialHeartbeat
    <2>2. QED
        BY <1>1, <2>1, SameCounts DEF InitialHeartbeat
<1>3. {"starting", "beating", "waiting"} \subseteq Works \cap Beats
    BY DEF Works, Beats
<1>4. CASE Active(jobs[j])
    <2>1. persist_job(j, "task", n, jobs[j], jobs[j].status) /\ Step(j, n, "beating")
        BY <1>4 DEF InitialHeartbeat
    <2>2. PICK a \in AttemptState :
              a.pc = "beating" /\ a.heartbeat = attempt[j][n].heartbeat /\ Becomes(j, n, a)
        BY <1>1, <2>1, StepSet DEF TypeOK, TaskPc
    <2>3. Adds(j, "task", n, jobs'[j])
        <3>1. /\ jobs[j] \in Entry /\ jobs'[j] = jobs[j] /\ "task" \in Author
              /\ writes \subseteq Write
            BY <1>1, <1>4 DEF Active, InitialHeartbeat, Author, TypeOK
        <3>2. jobs[j].status \in ActiveStatus \cup TerminalStatus
            BY <3>1 DEF Entry
        <3>3. QED
            BY <1>1, <2>1, <3>1, <3>2, Persists, Zenon
    <2>4. TypeOK'
        BY <1>1, <2>2, <2>3 DEF InitialHeartbeat, TypeOK, Becomes, Adds
    <2>5. CASE j \notin givenUp
        <3>1. Holding(jobs'[j])
            BY <1>1, <1>3, <2>5 DEF IInv, JobOK, OwnOK, WorkOK, InitialHeartbeat
        <3>2. "task" \in ByAttempt
            BY DEF ByAttempt
        <3>3. QED
            BY <1>1, <1>2, <1>3, <1>4, <2>2, <2>3, <2>4, <3>1, <3>2, WritingMove
            DEF InitialHeartbeat
    <2>6. CASE j \in givenUp
        <3>1. PICK w \in Write : writes' = writes \cup {w} /\ w.job = j
            BY <2>3 DEF Adds
        <3>2. \A k \in Job \ {j} : SameJob(k)
            BY <2>2, <3>1 DEF InitialHeartbeat, SameJob, Becomes
        <3>3. FreshOK(j)' /\ EndedOK(j)' /\ HasItsContext(j)'
            BY <1>4, <2>2 DEF IInv, JobOK, FreshOK, EndedOK, HasItsContext, Active,
                              Becomes, InitialHeartbeat
        <3>4. JobOK(j)'
            BY <2>6, <3>3 DEF JobOK, InitialHeartbeat
        <3>5. QED
            BY <1>1, <1>2, <2>4, <3>2, <3>4, Assembles DEF InitialHeartbeat
    <2>7. QED
        BY <2>5, <2>6
<1>5. CASE ~Active(jobs[j])
    <2>1. writes' = writes /\ Step(j, n, "waiting")
        BY <1>5 DEF InitialHeartbeat
    <2>2. PICK a \in AttemptState :
              a.pc = "waiting" /\ a.heartbeat = attempt[j][n].heartbeat /\ Becomes(j, n, a)
        BY <1>1, <2>1, StepSet DEF TypeOK, TaskPc
    <2>3. TypeOK'
        BY <1>1, <2>1, <2>2 DEF InitialHeartbeat, TypeOK, Becomes
    <2>4. QED
        BY <1>1, <1>3, <2>1, <2>2, <2>3, QuietMove, SameFaults DEF InitialHeartbeat
<1>6. QED
    BY <1>4, <1>5

LEMMA MarkExecutingOK ==
    ASSUME IInv, NEW j \in Job, NEW n \in Attempt, MarkExecuting(j, n)
    PROVE  IInv'
<1> USE DEF registryVars, dispatchVars, taskOnly, boundVars
<1>1. /\ TypeOK /\ CountsOK /\ DogOK' /\ attempt[j][n].pc = "waiting" /\ n \in 0 .. MaxAttempts
      /\ jobs[j] \in Entry \cup {None} /\ attempt[j][n] \in AttemptState
    BY SameDog, SetupsAssumption DEF IInv, CountsOK, MarkExecuting, Attempt, TypeOK
<1>2. CASE MayChange(jobs[j])
    <2>1. update_status(j, "Executing", "task", n) /\ Step(j, n, "marking")
        BY <1>2 DEF MarkExecuting
    <2>2. PICK a \in AttemptState :
              a.pc = "marking" /\ a.heartbeat = attempt[j][n].heartbeat /\ Becomes(j, n, a)
        BY <1>1, <2>1, StepSet DEF TypeOK, TaskPc
    <2>3. /\ "Executing" \in ActiveStatus \cup TerminalStatus /\ "task" \in Author
          /\ "task" \in ByAttempt /\ "marking" \in Beats
        BY DEF ActiveStatus, Author, ByAttempt, Beats
    <2>4. Active(jobs[j]) /\ jobs[j] # None
        BY <1>1, <1>2, MayChangeActive DEF Active
    <2>5. /\ Changes(j, "Executing", jobs[j].due, "task", n) /\ handles' = handles
          /\ dedup_keys' \in Job \cup {None} /\ active' \in Nat
        BY <1>1, <2>1, <2>3, <2>4, Updates
    <2>6. CountsOK'
        BY <1>1, <2>1, <2>3, <2>4, UpdateCounts DEF MarkExecuting
    <2>7. TypeOK'
        BY <1>1, <2>2, <2>5 DEF MarkExecuting, TypeOK, Becomes, Changes, Adds
    <2>8. Holding(jobs'[j])
        BY <2>5, NoneAssumption DEF Changes, Holding
    <2>9. Adds(j, "task", n, jobs'[j]) /\ \A k \in Job \ {j} : jobs'[k] = jobs[k]
        BY <2>5, Zenon DEF Changes
    <2>10. QED
        BY <1>1, <2>2, <2>3, <2>4, <2>6, <2>7, <2>8, <2>9, WritingMove DEF MarkExecuting
<1>3. CASE ~MayChange(jobs[j])
    <2> DEFINE a == Dropped(attempt[j][n])
    <2>1. UNCHANGED <<jobs, dedup_keys, active, handles, writes>>
          /\ attempt' = [attempt EXCEPT ![j][n] = a]
        BY <1>3 DEF MarkExecuting
    <2>2. a \in AttemptState /\ a.pc = "done"
        BY <1>1, DroppedSet, Zenon
    <2> HIDE DEF a
    <2>3. Becomes(j, n, a)
        BY <1>1, <2>1, <2>2, AttemptSet DEF TypeOK
    <2>4. TypeOK'
        BY <1>1, <2>1, <2>3 DEF MarkExecuting, TypeOK, Becomes
    <2>5. j \in givenUp
        <3>1. "waiting" \in Works /\ ~Active(jobs[j])
            BY <1>1, <1>3, MayChangeActive DEF Works, Beats
        <3>2. ~Holding(jobs[j])
            BY <3>1 DEF Holding, Active, ActiveStatus
        <3>3. QED
            BY <1>1, <3>1, <3>2 DEF IInv, JobOK, OwnOK, WorkOK
    <2>6. QED
        BY <1>1, <2>1, <2>2, <2>3, <2>4, <2>5, QuietMove, SameFaults DEF MarkExecuting
<1>4. QED
    BY <1>2, <1>3

LEMMA HeartbeatOK ==
    ASSUME IInv, NEW j \in Job, NEW n \in Attempt, Heartbeat(j, n)
    PROVE  IInv'
<1> USE DEF registryVars, dispatchVars, taskOnly, boundVars
<1>1. /\ TypeOK /\ CountsOK /\ JobOK(j) /\ DogOK' /\ n \in 0 .. MaxAttempts
      /\ attempt[j][n].heartbeat = "on"
      /\ jobs[j] \in Entry \cup {None} /\ attempt[j][n] \in AttemptState
    BY SameDog, SetupsAssumption DEF IInv, CountsOK, Heartbeat, Attempt, TypeOK
<1>2. CASE Holding(jobs[j])
    <2> DEFINE a == [attempt[j][n] EXCEPT !.heartbeat = "writing"]
    <2>1. /\ attempt' = [attempt EXCEPT ![j][n] = a]
          /\ persist_job(j, "heartbeat", n, jobs[j], jobs[j].status)
        BY <1>2 DEF Heartbeat
    <2>2. a \in AttemptState /\ a.pc = attempt[j][n].pc /\ a.heartbeat = "writing"
        BY <1>1, HeartbeatSet, Zenon
    <2> HIDE DEF a
    <2>3. Becomes(j, n, a)
        BY <1>1, <2>1, <2>2, AttemptSet DEF TypeOK
    <2>4. Adds(j, "heartbeat", n, jobs[j])
        <3>1. jobs[j] \in Entry /\ "heartbeat" \in Author /\ writes \subseteq Write
            BY <1>1, <1>2 DEF Holding, Author, TypeOK
        <3>2. jobs[j].status \in ActiveStatus \cup TerminalStatus
            BY <3>1 DEF Entry
        <3>3. QED
            BY <1>1, <2>1, <3>1, <3>2, Persists, Zenon
    <2>5. PICK w \in Write : /\ writes' = writes \cup {w} /\ w.job = j
                             /\ w.by = "heartbeat" /\ w.n = n /\ w.entry = jobs[j]
        BY <2>4 DEF Adds
    <2>6. TypeOK'
        BY <1>1, <2>3, <2>4 DEF Heartbeat, TypeOK, Becomes, Adds
    <2>7. \A k \in Job \ {j} : SameJob(k)
        BY <2>3, <2>5 DEF Heartbeat, SameJob, Becomes
    <2>8. CountsOK'
        BY <1>1, SameCounts, SameFaults DEF Heartbeat
    <2>9. JobOK(j)'
        <3>1. FreshOK(j)' /\ EndedOK(j)' /\ HasItsContext(j)'
            BY <1>1, <1>2, <2>2, <2>3 DEF JobOK, FreshOK, EndedOK, HasItsContext, Holding,
                                          Becomes, Heartbeat
        <3>2. ASSUME j \notin givenUp'
              PROVE  OwnOK(j)'
            <4>1. OwnOK(j)
                BY <1>1, <3>2 DEF JobOK, Heartbeat
            <4>2. InsertedOK(j)' /\ WorkOK(j)' /\ BeatOK(j)'
                BY <1>1, <2>2, <2>3, <4>1 DEF OwnOK, InsertedOK, WorkOK, BeatOK, Becomes,
                                              Heartbeat
            <4>3. j \notin finished
                BY <1>2, <4>1 DEF OwnOK, FinishedOK, Holding, Active, ActiveStatus
            <4>4. FinishedOK(j)'
                BY <4>3 DEF FinishedOK, Heartbeat
            <4>5. \A v \in writes : v.job = j /\ v.by = "heartbeat" => v.n # n
                BY <1>1, <4>1 DEF OwnOK, WritesOK, WriteOK
            <4>6. OneWrite(j)'
                BY <2>5, <4>1, <4>5 DEF OwnOK, OneWrite, SameAuthor, ByAttempt
            <4>7. WritesOK(j)'
                <5>1. ASSUME NEW v \in writes, v.job = j
                      PROVE  WriteOK(j, v)'
                    BY <2>2, <2>3, <4>1, <4>5, <5>1 DEF OwnOK, WritesOK, WriteOK, Becomes,
                                                        Heartbeat
                <5>2. WriteOK(j, w)'
                    BY <1>2, <2>2, <2>3, <2>5 DEF WriteOK, Becomes, ByAttempt
                <5>3. QED
                    BY <2>5, <5>1, <5>2 DEF WritesOK
            <4>8. QED
                BY <4>2, <4>4, <4>6, <4>7 DEF OwnOK
        <3>3. QED
            BY <3>1, <3>2, Zenon DEF JobOK
    <2>10. QED
        BY <1>1, <2>6, <2>7, <2>8, <2>9, Assembles DEF Heartbeat
<1>3. CASE ~Holding(jobs[j])
    <2> DEFINE a == [attempt[j][n] EXCEPT !.heartbeat = "off"]
    <2>1. attempt' = [attempt EXCEPT ![j][n] = a] /\ writes' = writes
        BY <1>3 DEF Heartbeat
    <2>2. a \in AttemptState /\ a.pc = attempt[j][n].pc /\ a.heartbeat = "off"
        BY <1>1, HeartbeatSet, Zenon
    <2> HIDE DEF a
    <2>3. Becomes(j, n, a)
        BY <1>1, <2>1, <2>2, AttemptSet DEF TypeOK
    <2>4. TypeOK'
        BY <1>1, <2>1, <2>3 DEF Heartbeat, TypeOK, Becomes
    <2>5. a.pc \in {"completing", "deleting"} => ~Active(jobs[j])
        BY <1>1, <2>2 DEF JobOK, EndedOK
    <2>6. attempt[j][n].pc # "unused" \/ a.pc = "unused"
        BY <2>2
    <2>7. QED
        BY <1>1, <2>1, <2>2, <2>3, <2>4, <2>5, <2>6, QuietMove, SameFaults DEF Heartbeat
<1>4. QED
    BY <1>2, <1>3

\* A write of job j is over; attempt n of it may have gone on.
LEMMA LandingMove ==
    ASSUME IInv, TypeOK', DogOK', setup' = setup,
           NEW j \in Job, NEW w \in writes, NEW ok \in BOOLEAN, w.job = j, Lands(w, ok),
           NEW n \in Attempt, NEW a \in AttemptState, Becomes(j, n, a),
           UNCHANGED <<jobs, dedup_keys, active, client, givenUp>>,
           finished' \subseteq finished \cup {j},
           attempt[j][n].pc # "unused" \/ a.pc = "unused",
           a.pc \in {"completing", "deleting"} => ~Active(jobs[j]),
           j \notin givenUp =>
               /\ a.pc \in Works => attempt[j][n].pc \in Works
               /\ a.heartbeat # "off" => a.pc \in Beats
               /\ \A v \in writes \ {w} : v.job = j => WriteOK(j, v)'
               /\ j \in finished' => 
                      /\ ~Active(jobs[j]) /\ Terminal(stored'[j])
                      /\ \A v \in writes \ {w} : v.job = j => Terminal(v.entry)
    PROVE  IInv'
<1>1. TypeOK /\ CountsOK /\ JobOK(j)
    BY DEF IInv, CountsOK
<1>2. /\ writes' = writes \ {w}
      /\ \A k \in Job : k # j => stored'[k] = stored[k]
      /\ context' = context /\ faults' >= faults
    BY <1>1, Landing
<1>3. \A k \in Job \ {j} : SameJob(k)
    BY <1>2 DEF SameJob, Becomes
<1>4. CountsOK'
    <2>1. faults' \in Nat
        BY SetupsAssumption DEF TypeOK, Setup
    <2>2. QED
        BY <1>1, <1>2, <2>1, SameCounts
<1>5. JobOK(j)'
    <2>1. FreshOK(j)'
        BY <1>1 DEF JobOK, FreshOK
    <2>2. EndedOK(j)'
        BY <1>1 DEF JobOK, EndedOK, Becomes
    <2>3. HasItsContext(j)'
        BY <1>1, <1>2 DEF JobOK, HasItsContext
    <2>4. ASSUME j \notin givenUp'
          PROVE  OwnOK(j)'
        <3>1. OwnOK(j) /\ j \notin givenUp
            BY <1>1, <2>4 DEF JobOK
        <3>2. InsertedOK(j)' /\ OneWrite(j)'
            BY <1>2, <3>1 DEF OwnOK, InsertedOK, OneWrite, SameAuthor
        <3>3. WorkOK(j)' /\ BeatOK(j)'
            BY <3>1 DEF OwnOK, WorkOK, BeatOK, Becomes
        <3>4. WritesOK(j)'
            BY <1>2, <3>1 DEF WritesOK
        <3>5. FinishedOK(j)'
            BY <1>2, <3>1 DEF FinishedOK
        <3>6. QED
            BY <3>2, <3>3, <3>4, <3>5 DEF OwnOK
    <2>5. QED
        BY <2>1, <2>2, <2>3, <2>4, Zenon DEF JobOK
<1>6. QED
    BY <1>3, <1>4, <1>5, Assembles

LEMMA HeartbeatStoredOK ==
    ASSUME IInv, NEW j \in Job, NEW n \in Attempt, HeartbeatStored(j, n)
    PROVE  IInv'
<1> USE DEF registryVars, dispatchVars, taskOnly
<1> DEFINE h == IF attempt[j][n].pc = "done" THEN "off" ELSE "on"
           a == [attempt[j][n] EXCEPT !.heartbeat = h]
<1>1. /\ TypeOK /\ JobOK(j) /\ DogOK' /\ setup' = setup
      /\ attempt[j][n] \in AttemptState
    BY SameDog DEF IInv, HeartbeatStored, TypeOK
<1>2. PICK w \in writes, ok \in BOOLEAN :
          w.job = j /\ w.by = "heartbeat" /\ w.n = n /\ Lands(w, ok)
    BY DEF HeartbeatStored
<1>3. /\ writes' = writes \ {w} /\ writes' \subseteq Write
      /\ stored' \in [Job -> Entry \cup {None}]
      /\ stored'[j] = stored[j] \/ stored'[j] = w.entry
      /\ context' = context /\ parks' = parks
      /\ faults' \in 0 .. setup.maxFaults
    BY <1>1, <1>2, Landing
<1>4. a \in AttemptState /\ a.pc = attempt[j][n].pc /\ a.heartbeat = h
    <2>1. h \in {"off", "on", "writing"}
        OBVIOUS
    <2>2. QED
        BY <1>1, <2>1, HeartbeatSet, Zenon
<1>5. attempt' = [attempt EXCEPT ![j][n] = a]
    BY DEF HeartbeatStored
<1> HIDE DEF a
<1>6. Becomes(j, n, a)
    BY <1>1, <1>4, <1>5, AttemptSet DEF TypeOK
<1>7. TypeOK'
    BY <1>1, <1>3, <1>6 DEF HeartbeatStored, TypeOK, Becomes
<1>8. a.pc \in {"completing", "deleting"} => ~Active(jobs[j])
    BY <1>1, <1>4 DEF JobOK, EndedOK
<1>9. ASSUME j \notin givenUp
      PROVE  /\ a.pc \in Works => attempt[j][n].pc \in Works
             /\ a.heartbeat # "off" => a.pc \in Beats
             /\ \A v \in writes \ {w} : v.job = j => WriteOK(j, v)'
             /\ j \in finished' =>
                    /\ ~Active(jobs[j]) /\ Terminal(stored'[j])
                    /\ \A v \in writes \ {w} : v.job = j => Terminal(v.entry)
    <2>1. OwnOK(j)
        BY <1>1, <1>9 DEF JobOK
    <2>2. attempt[j][n].heartbeat = "writing" /\ attempt[j][n].pc \in Beats
          /\ Holding(w.entry)
        BY <1>2, <2>1 DEF OwnOK, WritesOK, WriteOK, BeatOK
    <2>3. \A v \in writes \ {w} : v.job = j => WriteOK(j, v)'
        <3>1. ASSUME NEW v \in writes \ {w}, v.job = j
              PROVE  WriteOK(j, v)'
            <4>1. v.by = "heartbeat" => v.n # n
                BY <1>2, <2>1, <3>1 DEF OwnOK, OneWrite, SameAuthor
            <4>2. QED
                BY <1>4, <1>6, <2>1, <3>1, <4>1 DEF OwnOK, WritesOK, WriteOK, Becomes,
                                                    HeartbeatStored
        <3>2. QED
            BY <3>1
    <2>4. j \notin finished'
        <3>1. ~Terminal(w.entry)
            BY <2>2 DEF Holding, Terminal, TerminalStatus
        <3>2. QED
            BY <1>2, <2>1, <3>1 DEF OwnOK, FinishedOK, HeartbeatStored
    <2>5. QED
        BY <1>4, <2>2, <2>3, <2>4
<1>10. attempt[j][n].pc # "unused" \/ a.pc = "unused"
    BY <1>4
<1>11. finished' \subseteq finished \cup {j}
    BY DEF HeartbeatStored
<1>12. QED
    BY <1>1, <1>2, <1>4, <1>6, <1>7, <1>8, <1>9, <1>10, <1>11, LandingMove DEF HeartbeatStored

LEMMA WriteEndsOK ==
    ASSUME IInv, NEW j \in Job, NEW n \in Attempt, WriteEnds(j, n)
    PROVE  IInv'
<1> USE DEF registryVars, dispatchVars, taskOnly
<1> DEFINE pc == attempt[j][n].pc
           next == Onward[pc]
<1>1. /\ TypeOK /\ JobOK(j) /\ DogOK' /\ setup' = setup
      /\ attempt[j][n] \in AttemptState
    BY SameDog DEF IInv, WriteEnds, TypeOK
<1>2. PICK w \in writes, ok \in BOOLEAN :
          /\ w.job = j /\ w.n = n /\ w.by \in ByAttempt /\ Lands(w, ok)
          /\ finished' = IF ok /\ pc = "completing" THEN finished \cup {j} ELSE finished
    BY DEF WriteEnds, ByAttempt
<1>3. /\ writes' = writes \ {w} /\ writes' \subseteq Write
      /\ stored' \in [Job -> Entry \cup {None}]
      /\ stored'[j] = IF ok THEN w.entry ELSE stored[j]
      /\ context' = context /\ parks' = parks
      /\ faults' \in 0 .. setup.maxFaults
    BY <1>1, <1>2, Landing
<1>4. \/ pc = "claiming" /\ next = "loading"
      \/ pc = "failing" /\ next = "done"
      \/ pc = "beating" /\ next = "waiting"
      \/ pc = "marking" /\ next = "running"
      \/ pc = "completing" /\ next = "deleting"
    BY DEF WriteEnds, Onward
<1>5. next \in {"unused", "done"} \cup WorkerPc \cup TaskPc
    BY <1>4 DEF WorkerPc, TaskPc
<1>6. PICK a \in AttemptState :
          a.pc = next /\ a.heartbeat = attempt[j][n].heartbeat /\ Becomes(j, n, a)
    BY <1>1, <1>5, StepSet DEF TypeOK, WriteEnds
<1> HIDE DEF next
<1>7. TypeOK'
    <2>1. finished' \subseteq Job
        BY <1>1, <1>2 DEF TypeOK
    <2>2. QED
        BY <1>1, <1>3, <1>6, <2>1 DEF WriteEnds, TypeOK, Becomes
<1>8. a.pc \in {"completing", "deleting"} => ~Active(jobs[j])
    BY <1>1, <1>4, <1>6 DEF JobOK, EndedOK
<1>9. ASSUME j \notin givenUp
      PROVE  /\ a.pc \in Works => pc \in Works
             /\ a.heartbeat # "off" => a.pc \in Beats
             /\ \A v \in writes \ {w} : v.job = j => WriteOK(j, v)'
             /\ j \in finished' =>
                    /\ ~Active(jobs[j]) /\ Terminal(stored'[j])
                    /\ \A v \in writes \ {w} : v.job = j => Terminal(v.entry)
    <2>1. OwnOK(j)
        BY <1>1, <1>9 DEF JobOK
    <2>2. a.pc \in Works => pc \in Works
        BY <1>4, <1>6 DEF Works, Beats
    <2>3. a.heartbeat # "off" => a.pc \in Beats
        BY <1>4, <1>6, <2>1 DEF OwnOK, BeatOK, Beats
    <2>4. \A v \in writes \ {w} : v.job = j => WriteOK(j, v)'
        <3>1. ASSUME NEW v \in writes \ {w}, v.job = j
              PROVE  WriteOK(j, v)'
            <4>1. v.by \in ByAttempt => v.n # n
                BY <1>2, <2>1, <3>1 DEF OwnOK, OneWrite, SameAuthor
            <4>2. QED
                BY <1>6, <2>1, <3>1, <4>1 DEF OwnOK, WritesOK, WriteOK, Becomes, WriteEnds
        <3>2. QED
            BY <3>1
    <2>5. ASSUME j \in finished'
          PROVE  /\ ~Active(jobs[j]) /\ Terminal(stored'[j])
                 /\ \A v \in writes \ {w} : v.job = j => Terminal(v.entry)
        <3>1. CASE j \in finished
            BY <1>2, <1>3, <2>1, <3>1 DEF OwnOK, FinishedOK
        <3>2. CASE j \notin finished
            <4>1. ok /\ pc = "completing"
                BY <1>2, <2>5, <3>2
            <4>2. ~Active(jobs[j])
                BY <1>1, <4>1 DEF JobOK, EndedOK
            <4>3. ~Waits(jobs[j]) /\ ~Holding(jobs[j])
                BY <4>2 DEF Waits, Holding, Active, ActiveStatus
            <4>4. \A m \in Attempt : /\ attempt[j][m].pc \notin Works
                                     /\ attempt[j][m].heartbeat = "off"
                BY <2>1, <4>3 DEF OwnOK, WorkOK, BeatOK, Works
            <4>5. \A v \in writes : v.job = j => Terminal(v.entry)
                BY <2>1, <4>3, <4>4 DEF OwnOK, WritesOK, WriteOK, Works, Beats
            <4>6. QED
                BY <1>2, <1>3, <4>1, <4>2, <4>5
        <3>3. QED
            BY <3>1, <3>2
    <2>6. QED
        BY <2>2, <2>3, <2>4, <2>5
<1>10. pc # "unused"
    BY <1>4
<1>11. finished' \subseteq finished \cup {j}
    BY <1>2
<1>12. QED
    BY <1>1, <1>2, <1>6, <1>7, <1>8, <1>9, <1>10, <1>11, LandingMove DEF WriteEnds

LEMMA RequeueStoredOK ==
    ASSUME IInv, NEW j \in Job, NEW n \in Attempt, RequeueStored(j, n)
    PROVE  IInv'
<1> USE DEF registryVars, taskOnly
<1> DEFINE a == Dropped(attempt[j][n])
<1>1. /\ TypeOK /\ JobOK(j) /\ DogOK' /\ setup' = setup
      /\ attempt[j][n] \in AttemptState /\ attempt[j][n].pc = "requeueing"
    BY SameDog DEF IInv, RequeueStored, TypeOK
<1>2. PICK w \in writes, ok \in BOOLEAN :
          /\ w.job = j /\ w.n = n /\ w.by = "task" /\ Lands(w, ok)
          /\ IF ok THEN on_job_update(w) ELSE UNCHANGED dispatchVars
    BY DEF RequeueStored
<1>3. /\ w \in Write /\ writes' = writes \ {w} /\ writes' \subseteq Write
      /\ stored' \in [Job -> Entry \cup {None}]
      /\ context' = context /\ parks' = parks
      /\ faults' \in 0 .. setup.maxFaults
    BY <1>1, <1>2, Landing
<1>4. DispatchTyped
    BY <1>1, <1>2, <1>3, UpdateSeen, DispatchUnchanged
<1>5. /\ a \in AttemptState /\ a.pc = "done"
      /\ a.heartbeat = IF attempt[j][n].heartbeat = "writing" THEN "writing" ELSE "off"
    BY <1>1, DroppedSet, Zenon
<1>6. attempt' = [attempt EXCEPT ![j][n] = a]
    BY DEF RequeueStored
<1> HIDE DEF a
<1>7. Becomes(j, n, a)
    BY <1>1, <1>5, <1>6, AttemptSet DEF TypeOK
<1>8. TypeOK'
    BY <1>1, <1>3, <1>4, <1>7 DEF RequeueStored, TypeOK, Becomes, DispatchTyped
<1>9. ASSUME j \notin givenUp
      PROVE  /\ a.pc \in Works => attempt[j][n].pc \in Works
             /\ a.heartbeat # "off" => a.pc \in Beats
             /\ \A v \in writes \ {w} : v.job = j => WriteOK(j, v)'
             /\ j \notin finished'
    <2>1. OwnOK(j)
        BY <1>1, <1>9 DEF JobOK
    <2>2. attempt[j][n].heartbeat = "off" /\ "done" \notin Works
        BY <1>1, <2>1 DEF OwnOK, BeatOK, Beats, Works
    <2>3. \A v \in writes \ {w} : v.job = j => WriteOK(j, v)'
        <3>1. ASSUME NEW v \in writes \ {w}, v.job = j
              PROVE  WriteOK(j, v)'
            <4>1. v.by \in ByAttempt => v.n # n
                BY <1>2, <2>1, <3>1 DEF OwnOK, OneWrite, SameAuthor, ByAttempt
            <4>2. v.by = "heartbeat" => v.n # n
                BY <2>1, <2>2, <3>1 DEF OwnOK, WritesOK, WriteOK
            <4>3. QED
                BY <1>7, <2>1, <3>1, <4>1, <4>2 DEF OwnOK, WritesOK, WriteOK, Becomes,
                                                    RequeueStored
        <3>2. QED
            BY <3>1
    <2>4. Waits(w.entry)
        BY <1>1, <1>2, <2>1 DEF OwnOK, WritesOK, WriteOK, ByAttempt
    <2>5. j \notin finished'
        BY <1>2, <2>1, <2>4 DEF OwnOK, FinishedOK, Waits, Terminal, TerminalStatus,
                                RequeueStored
    <2>6. QED
        BY <1>5, <2>2, <2>3, <2>5
<1>10. finished' \subseteq finished \cup {j}
    BY DEF RequeueStored
<1>11. QED
    BY <1>1, <1>2, <1>5, <1>7, <1>8, <1>9, <1>10, LandingMove DEF RequeueStored

LEMMA DeleteContextOK ==
    ASSUME IInv, NEW j \in Job, NEW n \in Attempt, DeleteContext(j, n)
    PROVE  IInv'
<1> USE DEF registryVars, dispatchVars, taskOnly, boundVars
<1> DEFINE a == Dropped(attempt[j][n])
<1>1. /\ TypeOK /\ JobOK(j) /\ DogOK' /\ attempt[j][n] \in AttemptState
      /\ attempt[j][n].pc = "deleting"
    BY SameDog DEF IInv, DeleteContext, TypeOK
<1>2. /\ a \in AttemptState /\ a.pc = "done"
      /\ a.heartbeat = IF attempt[j][n].heartbeat = "writing" THEN "writing" ELSE "off"
    BY <1>1, DroppedSet, Zenon
<1>3. attempt' = [attempt EXCEPT ![j][n] = a]
    BY DEF DeleteContext
<1> HIDE DEF a
<1>4. Becomes(j, n, a)
    BY <1>1, <1>2, <1>3, AttemptSet DEF TypeOK
<1>5. TypeOK'
    BY <1>1, <1>4 DEF DeleteContext, TypeOK, Becomes
<1>6. ~Active(jobs[j])
    BY <1>1 DEF JobOK, EndedOK
<1>7. j \notin givenUp => attempt[j][n].heartbeat = "off"
    BY <1>1 DEF JobOK, OwnOK, BeatOK, Beats
<1>8. "done" \notin Works
    BY DEF Works, Beats
<1>9. \A k \in Job \ {j} : k \in context => k \in context'
    BY DEF DeleteContext
<1>10. QED
    BY <1>1, <1>2, <1>4, <1>5, <1>6, <1>7, <1>8, <1>9, QuietMove, SameFaults
    DEF DeleteContext

\* A write that nobody waits for, of a job that was given up.
LEMMA LateLanding ==
    ASSUME IInv, TypeOK', DogOK', setup' = setup, NEW j \in givenUp,
           NEW w \in writes, NEW ok \in BOOLEAN, w.job = j, Lands(w, ok),
           UNCHANGED <<jobs, dedup_keys, active, client, attempt, givenUp, finished>>
    PROVE  IInv'
<1>1. TypeOK /\ JobOK(j) /\ j \in Job /\ 1 \in Attempt
    BY SetupsAssumption DEF IInv, TypeOK, Attempt
<1> DEFINE a == attempt[j][1]
<1>2. a \in AttemptState /\ Becomes(j, 1, a)
    BY <1>1 DEF TypeOK, Becomes
<1>3. a.pc \in {"completing", "deleting"} => ~Active(jobs[j])
    BY <1>1 DEF JobOK, EndedOK
<1> HIDE DEF a
<1>4. attempt[j][1].pc # "unused" \/ a.pc = "unused"
    BY DEF a
<1>5. finished' \subseteq finished \cup {j}
    OBVIOUS
<1>6. QED
    BY <1>1, <1>2, <1>3, <1>4, <1>5, LandingMove

LEMMA OrphanLandsOK ==
    ASSUME IInv, NEW j \in Job, NEW n \in Attempt, OrphanLands(j, n)
    PROVE  IInv'
<1> USE DEF registryVars, dispatchVars, taskOnly
<1>1. TypeOK /\ JobOK(j) /\ DogOK' /\ setup' = setup /\ attempt[j][n].pc = "done"
    BY SameDog DEF IInv, OrphanLands
<1>2. PICK w \in writes, ok \in BOOLEAN :
          w.job = j /\ w.n = n /\ w.by = "task" /\ Lands(w, ok)
    BY DEF OrphanLands
<1>3. /\ writes' \subseteq Write /\ stored' \in [Job -> Entry \cup {None}]
      /\ context' = context /\ parks' = parks
      /\ faults' \in 0 .. setup.maxFaults
    BY <1>1, <1>2, Landing
<1>4. TypeOK'
    BY <1>1, <1>3 DEF OrphanLands, TypeOK
<1>5. j \in givenUp
    BY <1>1, <1>2 DEF JobOK, OwnOK, WritesOK, WriteOK, ByAttempt
<1>6. QED
    BY <1>1, <1>2, <1>4, <1>5, LateLanding DEF OrphanLands

\* What the three outcomes of a handler leave alone.
handlerOnly == <<stored, context, dispatchVars, taskOnly, faults, givenUp, finished>>

\* The attempt with its heartbeat stopped, at pc.
Concluded(j, n, pc) == [[attempt[j][n] EXCEPT !.heartbeat = "off"] EXCEPT !.pc = pc]

LEMMA ConcludedSet ==
    ASSUME TypeOK, NEW j \in Job, NEW n \in Attempt,
           NEW pc \in {"unused", "done"} \cup WorkerPc \cup TaskPc
    PROVE  LET a == Concluded(j, n, pc)
           IN  a \in AttemptState /\ a.pc = pc /\ a.heartbeat = "off"
<1> DEFINE b == [attempt[j][n] EXCEPT !.heartbeat = "off"]
<1>1. attempt[j][n] \in AttemptState /\ "off" \in {"off", "on", "writing"}
    BY DEF TypeOK
<1>2. b \in AttemptState /\ b.heartbeat = "off"
    BY <1>1, HeartbeatSet, Zenon
<1> HIDE DEF b
<1>3. LET a == [b EXCEPT !.pc = pc] IN a \in AttemptState /\ a.pc = pc /\ a.heartbeat = "off"
    BY <1>2, AttemptPc, Zenon
<1>4. QED
    BY <1>3 DEF Concluded, b

\* The attempt ends the job.
LEMMA Ending ==
    ASSUME IInv, NEW j \in Job, NEW n \in Attempt, NEW status \in TerminalStatus,
           attempt[j][n].pc = "running", HeartbeatStopped(j, n), MayChange(jobs[j]),
           update_status(j, status, "task", n),
           attempt' = [attempt EXCEPT ![j][n] = Concluded(j, n, "completing")],
           UNCHANGED handlerOnly, parks' = parks
    PROVE  IInv'
<1> USE DEF dispatchVars, taskOnly, handlerOnly
<1> DEFINE a == Concluded(j, n, "completing")
<1>1. /\ TypeOK /\ CountsOK /\ DogOK' /\ n \in 0 .. MaxAttempts
      /\ jobs[j] \in Entry \cup {None}
    BY SameDog, SetupsAssumption DEF IInv, CountsOK, Attempt, TypeOK
<1>2. a \in AttemptState /\ a.pc = "completing" /\ a.heartbeat = "off"
    <2>1. "completing" \in {"unused", "done"} \cup WorkerPc \cup TaskPc
        BY DEF TaskPc
    <2>2. QED
        BY <1>1, <2>1, ConcludedSet, Zenon
<1> HIDE DEF a
<1>3. Becomes(j, n, a)
    BY <1>1, <1>2, AttemptSet DEF TypeOK, a
<1>4. /\ status \in ActiveStatus \cup TerminalStatus /\ "task" \in Author
      /\ "task" \in ByAttempt
    BY DEF Author, ByAttempt
<1>5. Active(jobs[j]) /\ jobs[j] # None
    BY <1>1, MayChangeActive DEF Active
<1>6. /\ Changes(j, status, jobs[j].due, "task", n) /\ handles' = handles
      /\ dedup_keys' \in Job \cup {None} /\ active' \in Nat
    BY <1>1, <1>4, <1>5, Updates
<1>7. CountsOK'
    BY <1>1, <1>4, <1>5, UpdateCounts
<1>8. TypeOK'
    BY <1>1, <1>3, <1>6 DEF TypeOK, Becomes, Changes, Adds
<1>9. Terminal(jobs'[j])
    BY <1>6, NoneAssumption DEF Changes, Terminal
<1>10. Adds(j, "task", n, jobs'[j]) /\ \A k \in Job \ {j} : jobs'[k] = jobs[k]
    BY <1>6, Zenon DEF Changes
<1>11. attempt[j][n].heartbeat # "writing"
    BY DEF HeartbeatStopped
<1>12. QED
    BY <1>1, <1>2, <1>3, <1>4, <1>5, <1>7, <1>8, <1>9, <1>10, <1>11, WritingMove

\* The attempt has the job retried or parked.
LEMMA Requeueing ==
    ASSUME IInv, NEW j \in Job, NEW n \in Attempt, NEW spent \in Nat,
           attempt[j][n].pc = "running", HeartbeatStopped(j, n), MayChange(jobs[j]),
           requeue(j, spent, "task", n),
           attempt' = [attempt EXCEPT ![j][n] = Concluded(j, n, "requeueing")],
           UNCHANGED handlerOnly, parks' \in 0 .. setup.maxParks
    PROVE  IInv'
<1> USE DEF dispatchVars, taskOnly, handlerOnly
<1> DEFINE a == Concluded(j, n, "requeueing")
<1>1. /\ TypeOK /\ CountsOK /\ DogOK' /\ n \in 0 .. MaxAttempts
      /\ jobs[j] \in Entry \cup {None}
    BY SameDog, SetupsAssumption DEF IInv, CountsOK, Attempt, TypeOK
<1>2. a \in AttemptState /\ a.pc = "requeueing" /\ a.heartbeat = "off"
    <2>1. "requeueing" \in {"unused", "done"} \cup WorkerPc \cup TaskPc
        BY DEF TaskPc
    <2>2. QED
        BY <1>1, <2>1, ConcludedSet, Zenon
<1> HIDE DEF a
<1>3. Becomes(j, n, a)
    BY <1>1, <1>2, AttemptSet DEF TypeOK, a
<1>4. "task" \in Author /\ "task" \in ByAttempt
    BY DEF Author, ByAttempt
<1>5. Active(jobs[j]) /\ jobs[j] # None
    BY <1>1, MayChangeActive DEF Active
<1>6. /\ Changes(j, "Scheduled", "later", "task", n)
      /\ dedup_keys' = dedup_keys /\ active' = active /\ handles' = handles
    BY <1>1, <1>4, <1>5, Requeues
<1>7. CountsOK'
    <2>1. \A k \in Job : Active(jobs'[k]) => Active(jobs[k])
        BY <1>5, <1>6 DEF Changes
    <2>2. QED
        BY <1>1, <1>6, <2>1, SameCounts, SameFaults
<1>8. TypeOK'
    BY <1>1, <1>3, <1>6 DEF TypeOK, Becomes, Changes, Adds
<1>9. Waits(jobs'[j])
    BY <1>6, NoneAssumption DEF Changes, Waits
<1>10. Adds(j, "task", n, jobs'[j]) /\ \A k \in Job \ {j} : jobs'[k] = jobs[k]
    BY <1>6, Zenon DEF Changes
<1>11. attempt[j][n].heartbeat # "writing"
    BY DEF HeartbeatStopped
<1>12. QED
    BY <1>1, <1>2, <1>3, <1>4, <1>5, <1>7, <1>8, <1>9, <1>10, <1>11, WritingMove

\* The job has ended meanwhile: the attempt leaves it alone.
LEMMA TooLate ==
    ASSUME IInv, NEW j \in Job, NEW n \in Attempt,
           attempt[j][n].pc = "running", ~MayChange(jobs[j]),
           \/ attempt' = [attempt EXCEPT ![j][n] = Concluded(j, n, "deleting")]
           \/ attempt' = [attempt EXCEPT ![j][n] =
                              Dropped([attempt[j][n] EXCEPT !.heartbeat = "off"])],
           UNCHANGED handlerOnly, UNCHANGED registryVars, writes' = writes,
           parks' \in 0 .. setup.maxParks
    PROVE  IInv'
<1> USE DEF dispatchVars, taskOnly, handlerOnly, registryVars
<1>1. TypeOK /\ DogOK' /\ jobs[j] \in Entry \cup {None}
    BY SameDog DEF IInv, TypeOK
<1>2. PICK a \in AttemptState : a.pc \in {"deleting", "done"} /\ Becomes(j, n, a)
    <2>1. CASE attempt' = [attempt EXCEPT ![j][n] = Concluded(j, n, "deleting")]
        <3> DEFINE a == Concluded(j, n, "deleting")
        <3>1. "deleting" \in {"unused", "done"} \cup WorkerPc \cup TaskPc
            BY DEF TaskPc
        <3>2. a \in AttemptState /\ a.pc = "deleting"
            BY <1>1, <3>1, ConcludedSet, Zenon
        <3> HIDE DEF a
        <3>3. Becomes(j, n, a)
            BY <1>1, <2>1, <3>2, AttemptSet DEF TypeOK, a
        <3>4. QED
            BY <3>2, <3>3
    <2>2. CASE attempt' = [attempt EXCEPT ![j][n] =
                               Dropped([attempt[j][n] EXCEPT !.heartbeat = "off"])]
        <3> DEFINE b == [attempt[j][n] EXCEPT !.heartbeat = "off"]
                   a == Dropped(b)
        <3>1. attempt[j][n] \in AttemptState /\ "off" \in {"off", "on", "writing"}
            BY <1>1 DEF TypeOK
        <3>2. b \in AttemptState
            BY <3>1, HeartbeatSet, Zenon
        <3>3. attempt' = [attempt EXCEPT ![j][n] = a]
            BY <2>2
        <3> HIDE DEF b
        <3>4. a \in AttemptState /\ a.pc = "done"
            BY <3>2, DroppedSet, Zenon
        <3> HIDE DEF a
        <3>5. Becomes(j, n, a)
            BY <1>1, <3>3, <3>4, AttemptSet DEF TypeOK
        <3>6. QED
            BY <3>4, <3>5
    <2>3. QED
        BY <2>1, <2>2
<1>3. TypeOK'
    BY <1>1, <1>2 DEF TypeOK, Becomes
<1>4. ~Active(jobs[j])
    BY <1>1, MayChangeActive
<1>5. j \in givenUp
    <2>1. "running" \in Works /\ ~Holding(jobs[j])
        BY <1>4 DEF Works, Beats, Holding, Active, ActiveStatus
    <2>2. QED
        BY <2>1 DEF IInv, JobOK, OwnOK, WorkOK
<1>6. QED
    BY <1>1, <1>2, <1>3, <1>4, <1>5, QuietMove, SameFaults

LEMMA HandlerSucceedsOK ==
    ASSUME IInv, NEW j \in Job, NEW n \in Attempt, HandlerSucceeds(j, n)
    PROVE  IInv'
<1>1. /\ attempt[j][n].pc = "running" /\ HeartbeatStopped(j, n)
      /\ UNCHANGED handlerOnly /\ parks' = parks /\ parks' \in 0 .. setup.maxParks
    BY DEF HandlerSucceeds, Conclude, handlerOnly, IInv, TypeOK
<1>2. "Completed" \in TerminalStatus
    BY DEF TerminalStatus
<1>3. CASE MayChange(jobs[j])
    <2>1. /\ update_status(j, "Completed", "task", n)
          /\ attempt' = [attempt EXCEPT ![j][n] = Concluded(j, n, "completing")]
        BY <1>3 DEF HandlerSucceeds, Conclude, Concluded
    <2>2. QED
        BY <1>1, <1>2, <1>3, <2>1, Ending
<1>4. CASE ~MayChange(jobs[j])
    <2>1. /\ attempt' = [attempt EXCEPT ![j][n] = Concluded(j, n, "deleting")]
          /\ UNCHANGED registryVars /\ writes' = writes
        BY <1>4 DEF HandlerSucceeds, Conclude, Concluded
    <2>2. QED
        BY <1>1, <1>4, <2>1, TooLate
<1>5. QED
    BY <1>3, <1>4

LEMMA HandlerFailsOK ==
    ASSUME IInv, NEW j \in Job, NEW n \in Attempt, HandlerFails(j, n)
    PROVE  IInv'
<1>1. /\ attempt[j][n].pc = "running" /\ HeartbeatStopped(j, n)
      /\ UNCHANGED handlerOnly /\ parks' = parks /\ parks' \in 0 .. setup.maxParks
    BY DEF HandlerFails, Conclude, handlerOnly, IInv, TypeOK
<1>2. "Failed" \in TerminalStatus /\ 1 \in Nat
    BY DEF TerminalStatus
<1>3. CASE RetriesLeft(attempt[j][n].retry_count) /\ MayChange(jobs[j])
    <2>1. /\ requeue(j, 1, "task", n)
          /\ attempt' = [attempt EXCEPT ![j][n] = Concluded(j, n, "requeueing")]
        BY <1>3 DEF HandlerFails, Conclude, Concluded
    <2>2. QED
        BY <1>1, <1>2, <1>3, <2>1, Requeueing
<1>4. CASE ~RetriesLeft(attempt[j][n].retry_count) /\ MayChange(jobs[j])
    <2>1. /\ update_status(j, "Failed", "task", n)
          /\ attempt' = [attempt EXCEPT ![j][n] = Concluded(j, n, "completing")]
        BY <1>4 DEF HandlerFails, Conclude, Concluded
    <2>2. QED
        BY <1>1, <1>2, <1>4, <2>1, Ending
<1>5. CASE RetriesLeft(attempt[j][n].retry_count) /\ ~MayChange(jobs[j])
    <2>1. /\ attempt' = [attempt EXCEPT ![j][n] =
                             Dropped([attempt[j][n] EXCEPT !.heartbeat = "off"])]
          /\ UNCHANGED registryVars /\ writes' = writes
        BY <1>5 DEF HandlerFails, Conclude
    <2>2. QED
        BY <1>1, <1>5, <2>1, TooLate
<1>6. CASE ~RetriesLeft(attempt[j][n].retry_count) /\ ~MayChange(jobs[j])
    <2>1. /\ attempt' = [attempt EXCEPT ![j][n] = Concluded(j, n, "deleting")]
          /\ UNCHANGED registryVars /\ writes' = writes
        BY <1>6 DEF HandlerFails, Conclude, Concluded
    <2>2. QED
        BY <1>1, <1>6, <2>1, TooLate
<1>7. QED
    BY <1>3, <1>4, <1>5, <1>6

LEMMA UpstreamUnavailableOK ==
    ASSUME IInv, NEW j \in Job, NEW n \in Attempt, UpstreamUnavailable(j, n)
    PROVE  IInv'
<1>1. /\ attempt[j][n].pc = "running" /\ HeartbeatStopped(j, n) /\ UNCHANGED handlerOnly
    BY DEF UpstreamUnavailable, Conclude, handlerOnly
<1>2. parks' \in 0 .. setup.maxParks
    BY SetupsAssumption DEF UpstreamUnavailable, IInv, TypeOK, Setup
<1>3. CASE MayChange(jobs[j])
    <2>1. /\ requeue(j, 0, "task", n) /\ 0 \in Nat
          /\ attempt' = [attempt EXCEPT ![j][n] = Concluded(j, n, "requeueing")]
        BY <1>3 DEF UpstreamUnavailable, Conclude, Concluded
    <2>2. QED
        BY <1>1, <1>2, <1>3, <2>1, Requeueing
<1>4. CASE ~MayChange(jobs[j])
    <2>1. /\ attempt' = [attempt EXCEPT ![j][n] =
                             Dropped([attempt[j][n] EXCEPT !.heartbeat = "off"])]
          /\ UNCHANGED registryVars /\ writes' = writes
        BY <1>4 DEF UpstreamUnavailable, Conclude
    <2>2. QED
        BY <1>1, <1>2, <1>4, <2>1, TooLate
<1>5. QED
    BY <1>3, <1>4

-----------------------------------------------------------------------------
(* The watchdog, cancellation, forgetting.                                 *)

DogType == [pc : {"idle", "aborting", "aborted", "storing"}, job : Job \cup {None},
            retry_count : Nat]
CancellerType == [Job -> {"idle", "aborted", "listed", "failing", "storing", "done"}]

LEMMA Aborting ==
    ASSUME IInv, NEW j \in Job, abort_handle(j), DogOK',
           dog' \in DogType, canceller' \in CancellerType,
           UNCHANGED <<setup, jobs, dedup_keys, active, storeVars, dispatchVars, client,
                       boundVars, finished>>
    PROVE  IInv'
<1> USE DEF storeVars, dispatchVars, boundVars
<1>1. TypeOK /\ CountsOK /\ JobOK(j)
    BY DEF IInv, CountsOK
<1>2. handles' \in [Job -> Attempt \cup {None}]
    BY <1>1 DEF TypeOK, abort_handle
<1>3. CASE handles[j] # None /\ attempt[j][handles[j]].pc \in TaskPc
    <2> DEFINE n == handles[j]
               a == Dropped(attempt[j][n])
    <2>1. n \in Attempt /\ attempt[j][n] \in AttemptState
        BY <1>1, <1>3 DEF TypeOK
    <2>2. /\ attempt' = [attempt EXCEPT ![j][n] = a] /\ givenUp' = givenUp \cup {j}
          /\ attempt[j][n].pc # "unused"
        BY <1>3 DEF abort_handle, TaskPc
    <2>3. a \in AttemptState /\ a.pc = "done"
        BY <2>1, DroppedSet, Zenon
    <2> HIDE DEF n, a
    <2>4. Becomes(j, n, a)
        BY <1>1, <2>1, <2>2, <2>3, AttemptSet DEF TypeOK
    <2>5. TypeOK'
        <3>1. givenUp' \subseteq Job /\ attempt' \in [Job -> [Attempt -> AttemptState]]
            BY <1>1, <2>2, <2>4 DEF TypeOK, Becomes
        <3>2. QED
            BY <1>1, <1>2, <3>1 DEF TypeOK, DogType, CancellerType
    <2>6. \A k \in Job \ {j} : SameJob(k)
        BY <2>2, <2>4 DEF SameJob, Becomes
    <2>7. CountsOK'
        BY <1>1, SameCounts, SameFaults
    <2>8. JobOK(j)'
        BY <1>1, <2>1, <2>2, <2>3, <2>4 DEF JobOK, FreshOK, EndedOK, HasItsContext, Becomes
    <2>9. QED
        BY <2>5, <2>6, <2>7, <2>8, Assembles
<1>4. CASE ~(handles[j] # None /\ attempt[j][handles[j]].pc \in TaskPc)
    <2>1. attempt' = attempt /\ givenUp' = givenUp
        BY <1>4 DEF abort_handle
    <2>2. TypeOK'
        BY <1>1, <1>2, <2>1 DEF TypeOK, DogType, CancellerType
    <2>3. \A k \in Job : SameJob(k)
        BY <2>1 DEF SameJob
    <2>4. QED
        BY <1>1, <2>2, <2>3, Quiet, SameFaults
<1>5. QED
    BY <1>3, <1>4

\* A job is given up: retried or ended over the head of its attempts.
LEMMA GivingUp ==
    ASSUME IInv, NEW j \in Job, NEW by, NEW status, NEW due, DogOK', CountsOK',
           Active(jobs[j]), Changes(j, status, due, by, 0), givenUp' = givenUp \cup {j},
           dedup_keys' \in Job \cup {None}, active' \in Nat, handles' = handles,
           dog' \in DogType, canceller' \in CancellerType,
           UNCHANGED <<setup, stored, context, dispatchVars, client, attempt, boundVars,
                       finished>>
    PROVE  IInv'
<1> USE DEF dispatchVars, boundVars
<1>1. TypeOK /\ JobOK(j)
    BY DEF IInv
<1>2. /\ jobs' \in [Job -> Entry \cup {None}] /\ writes' \subseteq Write
      /\ \A k \in Job \ {j} : jobs'[k] = jobs[k]
    BY DEF Changes, Adds
<1>3. PICK w \in Write : writes' = writes \cup {w} /\ w.job = j
    BY DEF Changes, Adds
<1>4. TypeOK'
    <2>1. givenUp' \subseteq Job
        BY <1>1 DEF TypeOK
    <2>2. QED
        BY <1>1, <1>2, <2>1 DEF TypeOK, DogType, CancellerType
<1>5. \A k \in Job \ {j} : SameJob(k)
    BY <1>2, <1>3 DEF SameJob
<1>6. JobOK(j)'
    BY <1>1 DEF JobOK, FreshOK, EndedOK, HasItsContext, Active
<1>7. QED
    BY <1>4, <1>5, <1>6, Assembles

LEMMA WatchdogAbortsOK ==
    ASSUME IInv, WatchdogAborts
    PROVE  IInv'
<1>1. /\ dog.job \in Job /\ abort_handle(dog.job)
      /\ dog \in DogType /\ canceller \in CancellerType
    BY DEF IInv, DogOK, WatchdogAborts, TypeOK, DogType, CancellerType
<1>2. dog' \in DogType /\ dog'.job = dog.job
    BY <1>1 DEF WatchdogAborts, DogType
<1>3. QED
    BY <1>1, <1>2, Aborting DEF WatchdogAborts, DogOK

LEMMA IdleDog == WatchdogIdle \in DogType /\ (dog' = WatchdogIdle => DogOK')
    BY DEF WatchdogIdle, DogType, DogOK

LEMMA WatchdogDecidesOK ==
    ASSUME IInv, WatchdogDecides
    PROVE  IInv'
<1>1. /\ TypeOK /\ CountsOK /\ dog.job \in Job /\ jobs[dog.job] \in Entry \cup {None}
      /\ dog \in DogType /\ canceller \in CancellerType
      /\ 0 \in 0 .. MaxAttempts /\ "dog" \in Author
    BY SetupsAssumption DEF IInv, CountsOK, DogOK, WatchdogDecides, TypeOK, DogType,
                            CancellerType, Author
<1>2. PICK j \in Job : j = dog.job
    BY <1>1
<1>3. CASE MayChange(jobs[j])
    <2>1. /\ dog' = [dog EXCEPT !.pc = "storing"] /\ givenUp' = givenUp \cup {j}
          /\ requeue(j, 1, "dog", 0) \/ update_status(j, "Failed", "dog", 0)
          /\ UNCHANGED <<setup, stored, context, dispatchVars, client, attempt, canceller,
                         boundVars, finished>>
        BY <1>2, <1>3 DEF WatchdogDecides
    <2>2. dog' \in DogType /\ dog'.job = j /\ DogOK'
        BY <1>1, <1>2, <2>1 DEF DogType, DogOK
    <2>3. Active(jobs[j]) /\ jobs[j] # None
        BY <1>1, <1>2, <1>3, MayChangeActive DEF Active
    <2>4. CASE requeue(j, 1, "dog", 0)
        <3>1. /\ Changes(j, "Scheduled", "later", "dog", 0)
              /\ dedup_keys' = dedup_keys /\ active' = active /\ handles' = handles
            BY <1>1, <2>3, <2>4, Requeues
        <3>2. CountsOK'
            <4>1. \A k \in Job : Active(jobs'[k]) => Active(jobs[k])
                BY <2>3, <3>1 DEF Changes
            <4>2. QED
                BY <1>1, <2>1, <3>1, <4>1, SameCounts, SameFaults DEF boundVars
        <3>3. dedup_keys' \in Job \cup {None} /\ active' \in Nat
            BY <1>1, <3>1 DEF TypeOK
        <3>4. QED
            BY <1>1, <2>1, <2>2, <2>3, <3>1, <3>2, <3>3, GivingUp
    <2>5. CASE update_status(j, "Failed", "dog", 0)
        <3>1. "Failed" \in ActiveStatus \cup TerminalStatus
            BY DEF TerminalStatus
        <3>2. /\ Changes(j, "Failed", jobs[j].due, "dog", 0) /\ handles' = handles
              /\ dedup_keys' \in Job \cup {None} /\ active' \in Nat
            BY <1>1, <2>3, <2>5, <3>1, Updates
        <3>3. CountsOK'
            BY <1>1, <2>1, <2>3, <2>5, <3>1, UpdateCounts DEF boundVars
        <3>4. QED
            BY <1>1, <2>1, <2>2, <2>3, <3>2, <3>3, GivingUp
    <2>6. QED
        BY <2>1, <2>4, <2>5
<1>4. CASE ~MayChange(jobs[j])
    <2>1. /\ dog' = WatchdogIdle
          /\ UNCHANGED <<setup, registryVars, storeVars, dispatchVars, client, attempt,
                         canceller, boundVars, givenUp, finished>>
        BY <1>2, <1>4 DEF WatchdogDecides, storeVars
    <2>2. dog' \in DogType /\ DogOK'
        BY <2>1, IdleDog
    <2>3. TypeOK'
        BY <1>1, <2>1, <2>2 DEF TypeOK, DogType, registryVars, storeVars, dispatchVars,
                                boundVars
    <2>4. \A k \in Job : SameJob(k)
        BY <2>1 DEF SameJob, registryVars, storeVars
    <2>5. QED
        BY <1>1, <2>1, <2>2, <2>3, <2>4, Quiet, SameFaults DEF registryVars, boundVars
<1>5. QED
    BY <1>3, <1>4

LEMMA WatchdogStoredOK ==
    ASSUME IInv, WatchdogStored
    PROVE  IInv'
<1> USE DEF registryVars
<1>1. TypeOK /\ DogOK' /\ dog' \in DogType
    BY IdleDog DEF IInv, WatchdogStored
<1>2. PICK w \in writes, ok \in BOOLEAN :
          /\ w.by = "dog" /\ Lands(w, ok)
          /\ IF ok THEN on_job_update(w) ELSE UNCHANGED dispatchVars
    BY DEF WatchdogStored
<1>3. /\ w \in Write /\ w.job \in Job /\ writes' \subseteq Write
      /\ stored' \in [Job -> Entry \cup {None}]
      /\ context' = context /\ parks' = parks
      /\ faults' \in 0 .. setup.maxFaults
    BY <1>1, <1>2, Landing DEF WatchdogStored
<1>4. DispatchTyped
    BY <1>1, <1>2, <1>3, UpdateSeen, DispatchUnchanged
<1>5. TypeOK'
    BY <1>1, <1>3, <1>4 DEF WatchdogStored, TypeOK, DispatchTyped, DogType
<1>6. w.job \in givenUp
    BY <1>2, <1>3 DEF IInv, JobOK, OwnOK, WritesOK, WriteOK, ByAttempt
<1>7. QED
    BY <1>1, <1>2, <1>5, <1>6, LateLanding DEF WatchdogStored

LEMMA CancelAbortsOK ==
    ASSUME IInv, NEW j \in Job, CancelAborts(j)
    PROVE  IInv'
<1>1. dog \in DogType /\ canceller' \in CancellerType /\ dog' = dog
    BY DEF IInv, CancelAborts, TypeOK, DogType, CancellerType
<1>2. QED
    BY <1>1, Aborting, SameDog DEF CancelAborts

LEMMA CancelMarksOK ==
    ASSUME IInv, NEW j \in Job, CancelMarks(j)
    PROVE  IInv'
<1>1. /\ TypeOK /\ CountsOK /\ jobs[j] \in Entry \cup {None} /\ DogOK'
      /\ dog' \in DogType /\ canceller' \in CancellerType
      /\ 0 \in 0 .. MaxAttempts /\ "canceller" \in Author
    <2>1. TypeOK /\ CountsOK /\ dog' = dog
        BY DEF IInv, CountsOK, CancelMarks
    <2>2. jobs[j] \in Entry \cup {None} /\ dog' \in DogType /\ canceller' \in CancellerType
        BY <2>1 DEF CancelMarks, TypeOK, DogType, CancellerType
    <2>3. 0 \in 0 .. MaxAttempts /\ "canceller" \in Author
        BY SetupsAssumption DEF Author
    <2>4. QED
        BY <2>1, <2>2, <2>3, SameDog
<1>2. CASE MayChange(jobs[j])
    <2>1. /\ update_status(j, "Cancelled", "canceller", 0) /\ givenUp' = givenUp \cup {j}
          /\ UNCHANGED <<setup, stored, context, dispatchVars, client, attempt, dog,
                         boundVars, finished>>
        BY <1>2 DEF CancelMarks
    <2>2. Active(jobs[j]) /\ jobs[j] # None
        BY <1>1, <1>2, MayChangeActive DEF Active
    <2>3. "Cancelled" \in ActiveStatus \cup TerminalStatus
        BY DEF TerminalStatus
    <2>4. /\ Changes(j, "Cancelled", jobs[j].due, "canceller", 0) /\ handles' = handles
          /\ dedup_keys' \in Job \cup {None} /\ active' \in Nat
        BY <1>1, <2>1, <2>2, <2>3, Updates
    <2>5. CountsOK'
        BY <1>1, <2>1, <2>2, <2>3, UpdateCounts DEF boundVars
    <2>6. QED
        BY <1>1, <2>1, <2>2, <2>4, <2>5, GivingUp
<1>3. CASE ~MayChange(jobs[j])
    <2>1. /\ UNCHANGED <<setup, registryVars, storeVars, dispatchVars, client, attempt,
                         dog, boundVars, givenUp, finished>>
        BY <1>3 DEF CancelMarks, storeVars
    <2>2. TypeOK'
        BY <1>1, <2>1 DEF TypeOK, CancellerType, registryVars, storeVars, dispatchVars,
                          boundVars
    <2>3. \A k \in Job : SameJob(k)
        BY <2>1 DEF SameJob, registryVars, storeVars
    <2>4. QED
        BY <1>1, <2>1, <2>2, <2>3, Quiet, SameFaults DEF registryVars, boundVars
<1>4. QED
    BY <1>2, <1>3

LEMMA CancelStoredOK ==
    ASSUME IInv, NEW j \in Job, CancelStored(j)
    PROVE  IInv'
<1> USE DEF registryVars, dispatchVars
<1>1. TypeOK /\ DogOK' /\ canceller' \in CancellerType
    BY SameDog DEF IInv, CancelStored, TypeOK, CancellerType
<1>2. PICK w \in writes, ok \in BOOLEAN : w.job = j /\ w.by = "canceller" /\ Lands(w, ok)
    BY DEF CancelStored
<1>3. /\ writes' \subseteq Write /\ stored' \in [Job -> Entry \cup {None}]
      /\ context' = context /\ parks' = parks
      /\ faults' \in 0 .. setup.maxFaults
    BY <1>1, <1>2, Landing DEF CancelStored
<1>4. TypeOK'
    BY <1>1, <1>3 DEF CancelStored, TypeOK, CancellerType
<1>5. j \in givenUp
    BY <1>2 DEF IInv, JobOK, OwnOK, WritesOK, WriteOK, ByAttempt
<1>6. QED
    BY <1>1, <1>2, <1>4, <1>5, LateLanding DEF CancelStored

LEMMA ForceListOK ==
    ASSUME IInv, NEW j \in Job, ForceList(j)
    PROVE  IInv'
<1> USE DEF registryVars, storeVars, dispatchVars, boundVars
<1>1. TypeOK /\ DogOK'
    BY SameDog DEF IInv, ForceList
<1>2. TypeOK'
    BY <1>1 DEF ForceList, TypeOK
<1>3. \A k \in Job : SameJob(k)
    BY DEF ForceList, SameJob
<1>4. QED
    BY <1>1, <1>2, <1>3, Quiet, SameFaults DEF ForceList

\* The record of a registered job is overwritten by an end of the job.
LEMMA ForceStoredOK ==
    ASSUME IInv, ListedOK, NEW j \in Job, ForceStored(j)
    PROVE  IInv'
<1> USE DEF registryVars, dispatchVars
<1> DEFINE e == [status |-> "Failed", retry_count |-> 0, due |-> "none"]
<1>1. TypeOK /\ CountsOK /\ JobOK(j) /\ DogOK' /\ client[j] \notin {"idle", "checked"}
    BY SameDog DEF IInv, CountsOK, ForceStored, ListedOK
<1>2. e \in Entry /\ Terminal(e)
    BY NoneAssumption DEF Entry, Terminal, TerminalStatus, Due
<1>3. stored' = stored \/ stored' = [stored EXCEPT ![j] = e]
    BY DEF ForceStored
<1> HIDE DEF e
<1>4. /\ stored' \in [Job -> Entry \cup {None}]
      /\ \A k \in Job \ {j} : stored'[k] = stored[k]
      /\ stored'[j] = stored[j] \/ Terminal(stored'[j])
    BY <1>1, <1>2, <1>3 DEF TypeOK
<1>5. faults' \in Nat /\ faults' >= faults /\ faults' \in 0 .. setup.maxFaults
    BY <1>1, SetupsAssumption DEF TypeOK, Setup, ForceStored
<1>6. TypeOK'
    <2>1. canceller' \in CancellerType
        BY <1>1 DEF ForceStored, TypeOK, CancellerType
    <2>2. QED
        BY <1>1, <1>4, <1>5, <2>1 DEF ForceStored, TypeOK, CancellerType
<1>7. \A k \in Job \ {j} : SameJob(k)
    BY <1>4 DEF ForceStored, SameJob
<1>8. CountsOK'
    BY <1>1, <1>5, SameCounts DEF ForceStored
<1>9. JobOK(j)'
    <2>1. FreshOK(j)' /\ EndedOK(j)' /\ HasItsContext(j)'
        BY <1>1 DEF JobOK, FreshOK, EndedOK, HasItsContext, ForceStored
    <2>2. ASSUME j \notin givenUp'
          PROVE  OwnOK(j)'
        <3>1. OwnOK(j)
            BY <1>1, <2>2 DEF JobOK, ForceStored
        <3>2. InsertedOK(j)' /\ WorkOK(j)' /\ BeatOK(j)' /\ WritesOK(j)' /\ OneWrite(j)'
            BY <3>1 DEF OwnOK, InsertedOK, WorkOK, BeatOK, WritesOK, WriteOK, OneWrite,
                        ForceStored
        <3>3. FinishedOK(j)'
            BY <1>4, <3>1 DEF OwnOK, FinishedOK, ForceStored
        <3>4. QED
            BY <3>2, <3>3 DEF OwnOK
    <2>3. QED
        BY <2>1, <2>2, Zenon DEF JobOK
<1>10. QED
    BY <1>1, <1>6, <1>7, <1>8, <1>9, Assembles DEF ForceStored

LEMMA ForceMarksOK ==
    ASSUME IInv, NEW j \in Job, ForceMarks(j)
    PROVE  IInv'
<1>1. /\ TypeOK /\ CountsOK /\ jobs[j] \in Entry \cup {None} /\ DogOK'
      /\ dog' \in DogType /\ canceller' \in CancellerType
      /\ 0 \in 0 .. MaxAttempts /\ "canceller" \in Author
    <2>1. TypeOK /\ CountsOK /\ dog' = dog
        BY DEF IInv, CountsOK, ForceMarks
    <2>2. jobs[j] \in Entry \cup {None} /\ dog' \in DogType /\ canceller' \in CancellerType
        BY <2>1 DEF ForceMarks, TypeOK, DogType, CancellerType
    <2>3. 0 \in 0 .. MaxAttempts /\ "canceller" \in Author
        BY SetupsAssumption DEF Author
    <2>4. QED
        BY <2>1, <2>2, <2>3, SameDog
<1>2. CASE MayChange(jobs[j])
    <2>1. /\ update_status(j, "Failed", "canceller", 0) /\ givenUp' = givenUp \cup {j}
          /\ UNCHANGED <<setup, stored, context, dispatchVars, client, attempt, dog,
                         boundVars, finished>>
        BY <1>2 DEF ForceMarks
    <2>2. Active(jobs[j]) /\ jobs[j] # None
        BY <1>1, <1>2, MayChangeActive DEF Active
    <2>3. "Failed" \in ActiveStatus \cup TerminalStatus
        BY DEF TerminalStatus
    <2>4. /\ Changes(j, "Failed", jobs[j].due, "canceller", 0) /\ handles' = handles
          /\ dedup_keys' \in Job \cup {None} /\ active' \in Nat
        BY <1>1, <2>1, <2>2, <2>3, Updates
    <2>5. CountsOK'
        BY <1>1, <2>1, <2>2, <2>3, UpdateCounts DEF boundVars
    <2>6. QED
        BY <1>1, <2>1, <2>2, <2>4, <2>5, GivingUp
<1>3. CASE ~MayChange(jobs[j])
    <2>1. /\ UNCHANGED <<setup, registryVars, storeVars, dispatchVars, client, attempt,
                         dog, boundVars, givenUp, finished>>
        BY <1>3 DEF ForceMarks, storeVars
    <2>2. TypeOK'
        BY <1>1, <2>1 DEF TypeOK, CancellerType, registryVars, storeVars, dispatchVars,
                          boundVars
    <2>3. \A k \in Job : SameJob(k)
        BY <2>1 DEF SameJob, registryVars, storeVars
    <2>4. QED
        BY <1>1, <2>1, <2>2, <2>3, Quiet, SameFaults DEF registryVars, boundVars
<1>4. QED
    BY <1>2, <1>3

LEMMA ForgetOK ==
    ASSUME IInv, NEW j \in Job, Forget(j)
    PROVE  IInv'
<1> USE DEF storeVars, dispatchVars, boundVars
<1>1. TypeOK /\ CountsOK /\ JobOK(j) /\ DogOK'
    BY SameDog DEF IInv, CountsOK, Forget
<1>2. /\ jobs' \in [Job -> Entry \cup {None}] /\ jobs'[j] = None
      /\ \A k \in Job \ {j} : jobs'[k] = jobs[k]
      /\ handles' \in [Job -> Attempt \cup {None}]
    BY <1>1 DEF Forget, TypeOK
<1>3. TypeOK'
    BY <1>1, <1>2 DEF Forget, TypeOK
<1>4. \A k \in Job \ {j} : SameJob(k)
    BY <1>2 DEF Forget, SameJob
<1>5. ~Active(jobs'[j])
    BY <1>2 DEF Active
<1>6. CountsOK'
    <2>1. \A k \in Job : Active(jobs'[k]) => Active(jobs[k])
        BY <1>2, <1>5
    <2>2. QED
        BY <1>1, <2>1, SameCounts, SameFaults DEF Forget
<1>7. JobOK(j)'
    <2>1. FreshOK(j)' /\ EndedOK(j)' /\ HasItsContext(j)'
        BY <1>1, <1>2, <1>5 DEF JobOK, FreshOK, EndedOK, HasItsContext, Forget
    <2>2. ASSUME j \notin givenUp'
          PROVE  OwnOK(j)'
        <3>1. OwnOK(j)
            BY <1>1, <2>2 DEF JobOK, Forget
        <3>2. ~Holding(jobs[j]) /\ ~Waits(jobs[j])
            BY DEF Forget, Terminal, TerminalStatus, Holding, Waits
        <3>3. InsertedOK(j)' /\ OneWrite(j)'
            BY <3>1, <3>2 DEF OwnOK, InsertedOK, OneWrite, Forget
        <3>4. WorkOK(j)' /\ BeatOK(j)'
            BY <3>1, <3>2 DEF OwnOK, WorkOK, BeatOK, Forget
        <3>5. WritesOK(j)'
            BY <3>1, <3>2 DEF OwnOK, WritesOK, WriteOK, Forget
        <3>6. FinishedOK(j)'
            BY <1>5, <3>1 DEF OwnOK, FinishedOK, Forget
        <3>7. QED
            BY <3>3, <3>4, <3>5, <3>6 DEF OwnOK
    <2>3. QED
        BY <2>1, <2>2, Zenon DEF JobOK
<1>8. QED
    BY <1>1, <1>3, <1>4, <1>6, <1>7, Assembles DEF Forget

-----------------------------------------------------------------------------
(* The restart.                                                            *)

LEMMA DispatchesNoMore ==
    ASSUME NEW all \in SUBSET Job, NEW some \in SUBSET Job, NEW room \in Nat,
           Dispatches(some, room, all)
    PROVE  Cardinality(some) \in Nat /\ Cardinality(some) <= room
    BY JobSets, MinOfTwo DEF Dispatches

LEMMA RestartOK ==
    ASSUME IInv, Restart
    PROVE  IInv'
<1>1. TypeOK /\ \A j \in Job : JobOK(j)
    BY DEF IInv
<1>2. setup' = setup /\ setup.queueLimit \in Nat /\ setup.maxFaults \in Nat
    BY <1>1, SetupsAssumption DEF TypeOK, Setup, Restart
<1>3. faults' = faults + 1 /\ faults' \in 1 .. setup.maxFaults
    BY <1>1, <1>2 DEF TypeOK, Restart
<1>4. PICK kept \in SUBSET Pending :
          LET restored == HasContext(kept)
              later == {j \in restored : stored[j].due = "later"}
          IN
          /\ stored' = [j \in Job |->
                 CASE j \in restored -> Restored(j)
                   [] j \in kept \ restored -> None
                   [] j \in Pending \ kept -> [stored[j] EXCEPT !.status = "Failed"]
                   [] OTHER -> stored[j]]
          /\ jobs' = [j \in Job |-> IF j \in restored THEN Restored(j) ELSE None]
          /\ active' = Counted(restored)
          /\ timers' = {<<j, "later">> : j \in later}
          /\ \E first, second \in SUBSET restored :
                  /\ Dispatches(first, setup.queueLimit, restored \ later)
                  /\ Dispatches(second, setup.queueLimit - Cardinality(first), restored)
                  /\ \E f \in Orders(first), s \in Orders(second) : queue' = f \o s
                  /\ refused' = refused \cup {j \in restored \ (first \cup second) :
                                                 stored[j].due = "none"}
    BY DEF Restart
<1> DEFINE restored == HasContext(kept)
           later == {j \in restored : stored[j].due = "later"}
<1>5. /\ restored \subseteq kept /\ restored \subseteq context
      /\ kept \subseteq Pending /\ Pending \subseteq Job
      /\ \A j \in Pending : stored[j] \in Entry /\ Active(stored[j])
    BY <1>1 DEF HasContext, Pending, Active, TypeOK
<1>6. /\ \A j \in restored : /\ stored'[j] = Restored(j) /\ jobs'[j] = Restored(j)
      /\ \A j \in Job \ restored : jobs'[j] = None
      /\ \A j \in Job \ Pending : stored'[j] = stored[j]
      /\ \A j \in Pending \ restored :
             stored'[j] = None \/ stored'[j] = [stored[j] EXCEPT !.status = "Failed"]
      /\ DOMAIN stored' = Job /\ DOMAIN jobs' = Job
      /\ stored' = [j \in Job |-> stored'[j]] /\ jobs' = [j \in Job |-> jobs'[j]]
    <2> HIDE DEF restored
    <2>1. /\ stored' = [j \in Job |->
                 CASE j \in restored -> Restored(j)
                   [] j \in kept \ restored -> None
                   [] j \in Pending \ kept -> [stored[j] EXCEPT !.status = "Failed"]
                   [] OTHER -> stored[j]]
          /\ jobs' = [j \in Job |-> IF j \in restored THEN Restored(j) ELSE None]
        BY <1>4 DEF restored
    <2>2. QED
        BY <1>5, <2>1
<1>7. active' = Cardinality(restored) /\ active' \in Nat
    BY <1>4, <1>5, JobSets DEF Counted
<1>8. timers' \subseteq Job \X {"later", "past"}
    <2>1. timers' = {<<j, "later">> : j \in later}
        BY <1>4
    <2>2. later \subseteq Job
        BY <1>5
    <2>3. QED
        BY <2>1, <2>2
<1>9. queue' \in Seq(Job) /\ Len(queue') <= setup.queueLimit /\ refused' \subseteq Job
    <2>1. PICK first \in SUBSET restored, second \in SUBSET restored :
                  /\ Dispatches(first, setup.queueLimit, restored \ later)
                  /\ Dispatches(second, setup.queueLimit - Cardinality(first), restored)
                  /\ \E f \in Orders(first), s \in Orders(second) : queue' = f \o s
                  /\ refused' = refused \cup {j \in restored \ (first \cup second) :
                                                 stored[j].due = "none"}
        BY <1>4
    <2>2. PICK f \in Orders(first), s \in Orders(second) : queue' = f \o s
        BY <2>1
    <2>3. /\ first \in SUBSET Job /\ second \in SUBSET Job
          /\ restored \in SUBSET Job /\ restored \ later \in SUBSET Job
        BY <1>5
    <2> HIDE DEF restored, later
    <2>4. IsFiniteSet(first) /\ IsFiniteSet(second)
        BY <2>3, JobSets
    <2>5. /\ Cardinality(first) \in Nat /\ Cardinality(first) <= setup.queueLimit
        BY <1>2, <2>1, <2>3, DispatchesNoMore
    <2>6. setup.queueLimit - Cardinality(first) \in Nat
        BY <1>2, <2>5
    <2>7. /\ Cardinality(second) \in Nat
          /\ Cardinality(second) <= setup.queueLimit - Cardinality(first)
        BY <2>1, <2>3, <2>6, DispatchesNoMore
    <2>8. /\ f \in Seq(Job) /\ Len(f) = Cardinality(first)
          /\ s \in Seq(Job) /\ Len(s) = Cardinality(second)
        BY <2>2, <2>3, <2>4, OrderTyped
    <2>9. queue' \in Seq(Job) /\ Len(queue') = Len(f) + Len(s)
        BY <2>2, <2>8, ConcatProperties
    <2>10. Len(queue') <= setup.queueLimit
        BY <1>2, <2>5, <2>7, <2>8, <2>9
    <2>11. refused' \subseteq Job
        BY <1>1, <2>1, <2>3 DEF TypeOK
    <2>12. QED
        BY <2>9, <2>10, <2>11
<1> HIDE DEF restored, later
<1>10. /\ \A j \in restored : /\ Restored(j) \in Entry /\ Active(Restored(j))
      /\ \A j \in Pending : [stored[j] EXCEPT !.status = "Failed"] \in Entry
    <2>1. "Scheduled" \in ActiveStatus /\ "Failed" \in TerminalStatus
        BY DEF ActiveStatus, TerminalStatus
    <2>2. ASSUME NEW j \in Pending, NEW st \in ActiveStatus \cup TerminalStatus
          PROVE  /\ [stored[j] EXCEPT !.status = st] \in Entry
                 /\ [stored[j] EXCEPT !.status = st].status = st
        BY <1>5, StatusChange, Zenon
    <2>3. \A j \in Pending : [stored[j] EXCEPT !.status = "Failed"] \in Entry
        BY <2>1, <2>2
    <2>4. \A j \in restored : Restored(j) \in Entry /\ Restored(j).status = "Scheduled"
        BY <1>5, <2>1, <2>2 DEF Restored
    <2>5. QED
        BY <2>1, <2>3, <2>4, NoneAssumption DEF Active
<1>11. stored' \in [Job -> Entry \cup {None}] /\ jobs' \in [Job -> Entry \cup {None}]
    <2>1. ASSUME NEW j \in Job
          PROVE  stored'[j] \in Entry \cup {None} /\ jobs'[j] \in Entry \cup {None}
        <3>1. stored[j] \in Entry \cup {None}
            BY <1>1 DEF TypeOK
        <3>2. CASE j \in restored
            BY <1>6, <1>10, <3>2
        <3>3. CASE j \in Pending \ restored
            <4>1. [stored[j] EXCEPT !.status = "Failed"] \in Entry
                BY <1>10, <3>3, Zenon
            <4>2. /\ stored'[j] = None \/ stored'[j] = [stored[j] EXCEPT !.status = "Failed"]
                  /\ jobs'[j] = None
                BY <1>6, <3>3, Zenon
            <4>3. QED
                BY <4>1, <4>2, Zenon
        <3>4. CASE j \notin Pending /\ j \notin restored
            BY <1>6, <3>1, <3>4
        <3>5. QED
            BY <3>2, <3>3, <3>4
    <2>2. QED
        BY <1>6, <2>1
<1>12. TypeOK'
    <2>1. /\ dedup_keys' = None /\ handles' \in [Job -> Attempt \cup {None}]
          /\ writes' = {}
        BY DEF Restart
    <2>2. client' \in [Job -> {"idle", "checked", "inserted", "persisting", "announcing",
                               "putting", "failed", "done"}]
        BY <1>1 DEF Restart, TypeOK
    <2>3. attempt' \in [Job -> [Attempt -> AttemptState]]
        <3>1. Unused \in AttemptState
            BY DEF Unused, AttemptState
        <3>2. QED
            BY <3>1 DEF Restart
    <2>4. canceller' \in [Job -> {"idle", "aborted", "storing", "done"}]
        BY <1>1 DEF Restart, TypeOK
    <2>5. dog' \in [pc : {"idle", "aborting", "aborted", "storing"}, job : Job \cup {None},
                    retry_count : Nat]
        BY IdleDog DEF Restart, DogType
    <2>6. UNCHANGED <<setup, context, parks, givenUp, finished>>
        BY DEF Restart
    <2>7. QED
        BY <1>1, <1>2, <1>3, <1>7, <1>8, <1>9, <1>11, <2>1, <2>2, <2>3, <2>4, <2>5, <2>6
        DEF TypeOK
<1>13. DogOK'
    BY IdleDog DEF Restart
<1>14. KeyOK'
    BY <1>3 DEF KeyOK
<1>15. CapNeverUndercounts'
    <2>1. ActiveJobs' = restored
        <3>1. \A j \in Job : Active(jobs'[j]) <=> j \in restored
            BY <1>6, <1>10 DEF Active
        <3>2. QED
            BY <1>5, <3>1 DEF ActiveJobs
    <2>2. Uncounting' \subseteq Job
        BY DEF Uncounting
    <2>3. Cardinality(Uncounting') \in Nat
        BY <2>2, JobSets
    <2>4. Cardinality(ActiveJobs') <= active' + Cardinality(Uncounting')
        BY <1>7, <2>1, <2>3
    <2>5. QED
        BY <2>4, CapAsSetsNext
<1>16. ASSUME NEW j \in Job
       PROVE  JobOK(j)'
    <2>1. /\ \A n \in Attempt : attempt'[j][n].pc = "unused" /\ attempt'[j][n].heartbeat = "off"
          /\ writes' = {} /\ client'[j] \in {"idle", "done"}
          /\ client'[j] = "idle" => client[j] = "idle"
          /\ context' = context /\ givenUp' = givenUp /\ finished' = finished
        BY <1>1 DEF Restart, Unused, TypeOK
    <2>2. FreshOK(j)'
        <3>1. ASSUME client[j] = "idle"
              PROVE  jobs'[j] = None /\ stored'[j] = None
            <4>1. stored[j] = None
                BY <1>1, <3>1 DEF JobOK, FreshOK
            <4>2. j \notin Pending
                BY <4>1 DEF Pending, Active
            <4>3. QED
                BY <1>5, <1>6, <4>1, <4>2
        <3>2. QED
            BY <2>1, <3>1 DEF FreshOK
    <2>3. EndedOK(j)'
        BY <2>1 DEF EndedOK
    <2>4. HasItsContext(j)'
        BY <1>5, <1>6, <2>1 DEF HasItsContext, Active
    <2>5. ASSUME j \notin givenUp'
          PROVE  OwnOK(j)'
        <3>1. OwnOK(j)
            BY <1>1, <2>1, <2>5 DEF JobOK
        <3>2. /\ InsertedOK(j)' /\ WorkOK(j)' /\ BeatOK(j)' /\ WritesOK(j)' /\ OneWrite(j)'
            BY <2>1 DEF InsertedOK, WorkOK, BeatOK, WritesOK, OneWrite, Works, Beats
        <3>3. FinishedOK(j)'
            <4>1. SUFFICES ASSUME j \in finished
                           PROVE  ~Active(jobs'[j]) /\ Terminal(stored'[j])
                BY <2>1 DEF FinishedOK
            <4>2. Terminal(stored[j])
                BY <3>1, <4>1 DEF OwnOK, FinishedOK
            <4>3. j \notin Pending
                BY <4>2 DEF Pending, Terminal, Active, ActiveStatus, TerminalStatus
            <4>4. QED
                BY <1>5, <1>6, <4>2, <4>3 DEF Active
        <3>4. QED
            BY <3>2, <3>3 DEF OwnOK
    <2>6. QED
        BY <2>2, <2>3, <2>4, <2>5, Zenon DEF JobOK
<1>17. QED
    BY <1>12, <1>13, <1>14, <1>15, <1>16 DEF IInv

-----------------------------------------------------------------------------
(* The invariant is inductive.                                             *)

LEMMA InitOK == Init => IInv
<1> SUFFICES ASSUME Init PROVE IInv
    OBVIOUS
<1>1. TypeOK
    <2>1. Unused \in AttemptState
        BY DEF Unused, AttemptState
    <2>2. /\ attempt \in [Job -> [Attempt -> AttemptState]]
          /\ dog \in [pc : {"idle", "aborting", "aborted", "storing"},
                      job : Job \cup {None}, retry_count : Nat]
        BY <2>1 DEF Init
    <2>3. setup \in Setups /\ setup.queueLimit \in Nat
          /\ setup.maxParks \in Nat /\ setup.maxFaults \in Nat
        BY SetupsAssumption DEF Init, Setup
    <2>4. queue \in Seq(Job) /\ Len(queue) <= setup.queueLimit
        BY <2>3 DEF Init
    <2>5. parks \in 0 .. setup.maxParks /\ faults \in 0 .. setup.maxFaults
        BY <2>3 DEF Init
    <2>6. QED
        BY <2>2, <2>3, <2>4, <2>5 DEF Init, TypeOK
<1>2. DogOK
    BY DEF Init, DogOK
<1>3. \A j \in Job : jobs[j] = None /\ ~Active(jobs[j])
    BY DEF Init, Active
<1>4. KeyOK
    BY <1>3 DEF KeyOK
<1>5. CapNeverUndercounts
    <2>1. ActiveJobs = {} /\ Uncounting = {}
        BY <1>3 DEF ActiveJobs, Uncounting, Init
    <2>2. Cardinality(ActiveJobs) = 0 /\ Cardinality(Uncounting) = 0
        BY <2>1, FS_EmptySet
    <2>3. Cardinality(ActiveJobs) <= active + Cardinality(Uncounting)
        BY <2>2 DEF Init
    <2>4. QED
        BY <2>3, CapAsSets
<1>6. ASSUME NEW j \in Job
      PROVE  JobOK(j)
    <2>1. /\ \A n \in Attempt : attempt[j][n].pc = "unused" /\ attempt[j][n].heartbeat = "off"
          /\ writes = {} /\ finished = {} /\ client[j] = "idle" /\ stored[j] = None
        BY DEF Init, Unused
    <2>2. FreshOK(j) /\ EndedOK(j) /\ HasItsContext(j)
        BY <1>3, <2>1 DEF FreshOK, EndedOK, HasItsContext
    <2>3. OwnOK(j)
        BY <2>1 DEF OwnOK, InsertedOK, WorkOK, BeatOK, WritesOK, OneWrite, FinishedOK,
                    Works, Beats
    <2>4. QED
        BY <2>2, <2>3 DEF JobOK
<1>7. QED
    BY <1>1, <1>2, <1>4, <1>5, <1>6 DEF IInv

LEMMA StutterOK ==
    ASSUME IInv, UNCHANGED vars
    PROVE  IInv'
<1> USE DEF vars, registryVars, storeVars, dispatchVars, boundVars
<1>1. TypeOK
    BY DEF IInv
<1>2. TypeOK'
    BY <1>1 DEF TypeOK
<1>3. \A k \in Job : SameJob(k)
    BY DEF SameJob
<1>4. faults' >= faults /\ DogOK'
    BY <1>1, SameFaults, SameDog
<1>5. QED
    BY <1>2, <1>3, <1>4, Quiet

LEMMA AttemptOK ==
    ASSUME IInv, NEW j \in Job, NEW n \in Attempt,
           \/ AttemptSteps(j, n) \/ HandlerReturns(j, n)
           \/ Heartbeat(j, n) \/ HeartbeatStored(j, n)
           \/ SetHandle(j, n) \/ ClearHandle(j, n)
    PROVE  IInv'
    BY SpawnOK, ContextMissingOK, LoadFailsOK, InitialHeartbeatOK, MarkExecutingOK,
       WriteEndsOK, RequeueStoredOK, DeleteContextOK, OrphanLandsOK, HandlerSucceedsOK,
       HandlerFailsOK, UpstreamUnavailableOK, HeartbeatOK, HeartbeatStoredOK, SetHandleOK,
       ClearHandleOK
    DEF AttemptSteps, HandlerReturns

LEMMA NextOK == IInv /\ ListedOK /\ [Next]_vars => IInv'
<1> SUFFICES ASSUME IInv, ListedOK, [Next]_vars PROVE IInv'
    OBVIOUS
<1>1. ASSUME NEW j \in Job, CheckRegistration(j) \/ ClientSteps(j)
      PROVE  IInv'
    BY <1>1, CheckRegistrationOK, InsertOK, CountOK, RegistrationStoredOK, AnnounceOK,
       PutContextOK, PutContextFailsOK DEF ClientSteps
<1>2. ASSUME NEW j \in Job,
             TimePasses(j) \/ TimerFires(j) \/ Sweep(j) \/ Claim(j) \/ TimesOut(j)
      PROVE  IInv'
    BY <1>2, TimePassesOK, TimerFiresOK, SweepOK, ClaimOK, TimesOutOK
<1>3. ASSUME NEW j \in Job,
             \/ CancelAborts(j) \/ CancelMarks(j) \/ CancelStored(j) \/ Forget(j)
             \/ ForceList(j) \/ ForceStored(j) \/ ForceMarks(j)
      PROVE  IInv'
    BY <1>3, CancelAbortsOK, CancelMarksOK, CancelStoredOK, ForgetOK, ForceListOK,
       ForceStoredOK, ForceMarksOK
<1>4. CASE Watchdog
    BY <1>4, WatchdogAbortsOK, WatchdogDecidesOK, WatchdogStoredOK DEF Watchdog
<1>5. CASE Restart
    BY <1>5, RestartOK
<1>6. CASE UNCHANGED vars
    BY <1>6, StutterOK
<1>7. QED
    BY <1>1, <1>2, <1>3, <1>4, <1>5, <1>6, AttemptOK DEF Next

\* A call that has inserted its job has done so for good, and only what is
\* stored is listed.
LEMMA ListedNext == IInv /\ ListedOK /\ [Next]_vars => ListedOK'
<1> SUFFICES ASSUME IInv, ListedOK, [Next]_vars, NEW j \in Job,
                    canceller'[j] = "listed"
             PROVE  client'[j] \notin {"idle", "checked"}
    BY DEF ListedOK
<1> USE DEF clientOnly, taskOnly
<1>1. TypeOK /\ JobOK(j)
    BY DEF IInv
<1>2. ASSUME NEW k \in Job, CheckRegistration(k) \/ ClientSteps(k)
      PROVE  client'[j] \notin {"idle", "checked"}
    <2>1. canceller' = canceller
        BY <1>2 DEF ClientSteps, CheckRegistration, Insert, Count, RegistrationStored,
                    Announce, PutContext, PutContextFails
    <2>2. client[j] \notin {"idle", "checked"}
        BY <2>1 DEF ListedOK
    <2>3. CASE j = k
        BY <1>1, <1>2, <2>2, <2>3 DEF ClientSteps, CheckRegistration, Insert, Count,
              RegistrationStored, Announce, PutContext, PutContextFails, TypeOK
    <2>4. CASE j # k
        <3>1. client'[j] = client[j]
            BY <1>1, <1>2, <2>4 DEF ClientSteps, CheckRegistration, Insert, Count,
                  RegistrationStored, Announce, PutContext, PutContextFails, TypeOK
        <3>2. QED
            BY <2>2, <3>1
    <2>5. QED
        BY <2>3, <2>4
<1>3. ASSUME NEW k \in Job,
             TimePasses(k) \/ TimerFires(k) \/ Sweep(k) \/ Claim(k) \/ TimesOut(k)
             \/ Forget(k)
      PROVE  client' = client /\ canceller' = canceller
    BY <1>3 DEF TimePasses, TimerFires, Sweep, Claim, TimesOut, Forget
<1>4. ASSUME NEW k \in Job,
             \/ CancelAborts(k) \/ CancelMarks(k) \/ CancelStored(k)
             \/ ForceStored(k) \/ ForceMarks(k)
      PROVE  client' = client /\ canceller[j] = "listed"
    <2>1. client' = client
        BY <1>4 DEF CancelAborts, CancelMarks, CancelStored, ForceStored, ForceMarks
    <2>2. canceller[j] = "listed"
        BY <1>1, <1>4 DEF TypeOK, CancelAborts, CancelMarks, CancelStored, ForceStored,
              ForceMarks
    <2>3. QED
        BY <2>1, <2>2
<1>5. ASSUME NEW k \in Job, ForceList(k)
      PROVE  client'[j] \notin {"idle", "checked"}
    <2>1. client' = client /\ (canceller[j] = "listed" \/ Holding(stored[j]))
        BY <1>1, <1>5 DEF ForceList, TypeOK
    <2>2. QED
        BY <1>1, <2>1 DEF ListedOK, JobOK, FreshOK, Holding
<1>6. ASSUME NEW k \in Job, NEW n \in Attempt,
             \/ AttemptSteps(k, n) \/ HandlerReturns(k, n)
             \/ Heartbeat(k, n) \/ HeartbeatStored(k, n)
             \/ SetHandle(k, n) \/ ClearHandle(k, n)
      PROVE  client' = client /\ canceller' = canceller
    <2>1. CASE AttemptSteps(k, n)
        BY <2>1 DEF AttemptSteps, Spawn, ContextMissing, LoadFails, InitialHeartbeat,
              MarkExecuting, WriteEnds, RequeueStored, DeleteContext, OrphanLands
    <2>2. CASE HandlerReturns(k, n)
        BY <2>2 DEF HandlerReturns, HandlerSucceeds, HandlerFails, UpstreamUnavailable,
              Conclude
    <2>3. CASE Heartbeat(k, n) \/ HeartbeatStored(k, n) \/ SetHandle(k, n) \/ ClearHandle(k, n)
        BY <2>3 DEF Heartbeat, HeartbeatStored, SetHandle, ClearHandle
    <2>4. QED
        BY <1>6, <2>1, <2>2, <2>3
<1>7. CASE Watchdog
    BY <1>7 DEF Watchdog, WatchdogAborts, WatchdogDecides, WatchdogStored, ListedOK
<1>8. CASE Restart
    BY <1>8 DEF Restart
<1>9. CASE UNCHANGED vars
    BY <1>9 DEF vars, ListedOK
<1>10. QED
    BY <1>2, <1>3, <1>4, <1>5, <1>6, <1>7, <1>8, <1>9 DEF Next, ListedOK

LEMMA Inductive == Spec => []IInv
<1>1. Init => ListedOK
    BY DEF Init, ListedOK
<1>2. QED
    BY <1>1, InitOK, NextOK, ListedNext, PTL DEF Spec

-----------------------------------------------------------------------------
(* The properties.                                                         *)

\* The state of the job system is always well formed; above all, the queue
\* never exceeds the tenant's limit, after a restart either.
THEOREM TypeCorrect == Spec => []TypeOK
<1>1. IInv => TypeOK
    BY DEF IInv
<1>2. QED
    BY <1>1, Inductive, PTL

\* At most one attempt works on a job that nobody gave up, and only while the
\* registry says so: try_claim_job, the due times and the restart exclude a
\* second claim, however often the id is queued.
THEOREM OneAttemptHolds == Spec => []OneAttempt
<1>1. ASSUME IInv
      PROVE  OneAttempt
    <2>1. SUFFICES ASSUME NEW j \in setup.jobs \ givenUp
                   PROVE  LET working == {n \in Attempt : attempt[j][n].pc \in Works}
                          IN  Cardinality(working) <= 1
                              /\ (working # {} => Holding(jobs[j]))
        BY DEF OneAttempt, Works, Beats
    <2> DEFINE working == {n \in Attempt : attempt[j][n].pc \in Works}
    <2>2. j \in Job
        BY <1>1, SetupsAssumption DEF IInv, TypeOK, Setup
    <2>3. WorkOK(j)
        BY <1>1, <2>2 DEF IInv, JobOK, OwnOK
    <2>4. working # {} => Holding(jobs[j])
        BY <2>3 DEF WorkOK
    <2>5. Cardinality(working) <= 1
        <3>1. CASE working = {}
            BY <3>1, FS_EmptySet
        <3>2. CASE working # {}
            <4>1. PICK n \in working : TRUE
                BY <3>2
            <4>2. working = {n}
                BY <2>3, <4>1 DEF WorkOK
            <4>3. Cardinality(working) = 1
                BY <4>2, FS_Singleton, Zenon
            <4>4. QED
                BY <4>3
        <3>3. QED
            BY <3>1, <3>2
    <2>6. QED
        BY <2>4, <2>5
<1>2. QED
    BY <1>1, Inductive, PTL

\* A job that its own attempt ended durably never runs again: whatever write is
\* still on the blocking pool then is another end, so that no crash brings the
\* job back.
THEOREM NeverRunsAgainHolds == Spec => []NeverRunsAgain
<1>1. ASSUME IInv
      PROVE  NeverRunsAgain
    <2>1. SUFFICES ASSUME NEW j \in finished \ givenUp
                   PROVE  ~Active(jobs[j]) /\ \A n \in Attempt : attempt[j][n].pc # "running"
        BY DEF NeverRunsAgain
    <2>2. j \in Job
        BY <1>1 DEF IInv, TypeOK
    <2>3. WorkOK(j) /\ FinishedOK(j)
        BY <1>1, <2>2 DEF IInv, JobOK, OwnOK
    <2>4. ~Active(jobs[j]) /\ ~Holding(jobs[j])
        BY <2>3 DEF FinishedOK, Active, ActiveStatus, Holding
    <2>5. QED
        BY <2>3, <2>4 DEF WorkOK, Works, Beats
<1>2. QED
    BY <1>1, Inductive, PTL

\* Two jobs of one key are never active together before a restart: the holder
\* of the key is looked at again under the locks of the insertion.
THEOREM OneActivePerKeyHolds == Spec => []OneActivePerKey
<1>1. ASSUME IInv
      PROVE  OneActivePerKey
    <2>1. SUFFICES ASSUME setup.keyed, faults = 0
                   PROVE  Cardinality(ActiveJobs) <= 1
        BY DEF OneActivePerKey, ActiveJobs
    <2>2. \A j \in ActiveJobs : dedup_keys = j
        BY <1>1, <2>1 DEF IInv, KeyOK, ActiveJobs
    <2>3. CASE ActiveJobs = {}
        BY <2>3, FS_EmptySet
    <2>4. CASE ActiveJobs # {}
        <3>1. ActiveJobs = {dedup_keys}
            BY <2>2, <2>4
        <3>2. QED
            BY <3>1, FS_Singleton
    <2>5. QED
        BY <2>3, <2>4
<1>2. QED
    BY <1>1, Inductive, PTL

\* The tenant's count never falls below its active jobs: no interleaving of
\* registrations, ends, cancels and restarts erodes the cap.
THEOREM CapNeverUndercountsHolds == Spec => []CapNeverUndercounts
<1>1. IInv => CapNeverUndercounts
    BY DEF IInv
<1>2. QED
    BY <1>1, Inductive, PTL

\* A job that may still run has its context once its registration has ended
\* well: an attempt deletes it only when the job has ended, and a restart
\* restores no job without, also where the call failed to write it.
THEOREM ContextKeptHolds == Spec => []ContextKept
<1>1. IInv => ContextKept
    BY DEF IInv, JobOK, HasItsContext, ContextKept
<1>2. QED
    BY <1>1, Inductive, PTL

\* Job j, which has ended, is as it was, or forgotten.
Stays(j) == jobs'[j] = None \/ jobs'[j].status = jobs[j].status

LEMMA UnchangedStays ==
    ASSUME NEW j \in Job, jobs' = jobs
    PROVE  Stays(j)
    BY DEF Stays

\* Only a job that may change is changed.
LEMMA OthersStay ==
    ASSUME TypeOK, NEW j \in Job, Terminal(jobs[j]), NEW k \in Job, NEW e,
           MayChange(jobs[k]), jobs' = [jobs EXCEPT ![k] = e]
    PROVE  Stays(j)
<1>1. j # k
    BY DEF Terminal, MayChange
<1>2. QED
    BY <1>1 DEF TypeOK, Stays

LEMMA UpdateStays ==
    ASSUME TypeOK, NEW j \in Job, Terminal(jobs[j]), NEW k \in Job, MayChange(jobs[k]),
           NEW status, NEW by, NEW n, update_status(k, status, by, n)
    PROVE  Stays(j)
    BY OthersStay DEF update_status

LEMMA RequeueStays ==
    ASSUME TypeOK, NEW j \in Job, Terminal(jobs[j]), NEW k \in Job, MayChange(jobs[k]),
           NEW spent, NEW by, NEW n, requeue(k, spent, by, n)
    PROVE  Stays(j)
    BY OthersStay DEF requeue

LEMMA AttemptStays ==
    ASSUME TypeOK, NEW j \in Job, Terminal(jobs[j]), NEW k \in Job, NEW n \in Attempt,
           \/ AttemptSteps(k, n) \/ HandlerReturns(k, n)
           \/ Heartbeat(k, n) \/ HeartbeatStored(k, n)
           \/ SetHandle(k, n) \/ ClearHandle(k, n)
    PROVE  Stays(j)
<1> USE DEF registryVars
<1>1. ASSUME Spawn(k, n) \/ LoadFails(k, n) \/ InitialHeartbeat(k, n) \/ WriteEnds(k, n)
             \/ RequeueStored(k, n) \/ DeleteContext(k, n) \/ OrphanLands(k, n)
      PROVE  Stays(j)
    <2>1. jobs' = jobs
        BY <1>1 DEF Spawn, LoadFails, InitialHeartbeat, WriteEnds, RequeueStored,
                    DeleteContext, OrphanLands
    <2>2. QED
        BY <2>1, UnchangedStays
<1>2. ASSUME Heartbeat(k, n) \/ HeartbeatStored(k, n) \/ SetHandle(k, n) \/ ClearHandle(k, n)
      PROVE  Stays(j)
    <2>1. jobs' = jobs
        BY <1>2 DEF Heartbeat, HeartbeatStored, SetHandle, ClearHandle
    <2>2. QED
        BY <2>1, UnchangedStays
<1>3. CASE ContextMissing(k, n)
    <2>1. CASE MayChange(jobs[k])
        BY <1>3, <2>1, UpdateStays DEF ContextMissing
    <2>2. CASE ~MayChange(jobs[k])
        BY <1>3, <2>2, UnchangedStays DEF ContextMissing
    <2>3. QED
        BY <2>1, <2>2
<1>4. CASE MarkExecuting(k, n)
    <2>1. CASE MayChange(jobs[k])
        BY <1>4, <2>1, UpdateStays DEF MarkExecuting
    <2>2. CASE ~MayChange(jobs[k])
        BY <1>4, <2>2, UnchangedStays DEF MarkExecuting
    <2>3. QED
        BY <2>1, <2>2
<1>5. CASE HandlerReturns(k, n)
    <2>1. CASE MayChange(jobs[k])
        <3>1. \/ update_status(k, "Completed", "task", n)
              \/ update_status(k, "Failed", "task", n)
              \/ requeue(k, 1, "task", n)
              \/ requeue(k, 0, "task", n)
            BY <1>5, <2>1 DEF HandlerReturns, HandlerSucceeds, HandlerFails,
                              UpstreamUnavailable, Conclude
        <3>2. QED
            BY <2>1, <3>1, UpdateStays, RequeueStays
    <2>2. CASE ~MayChange(jobs[k])
        <3>1. jobs' = jobs
            BY <1>5, <2>2 DEF HandlerReturns, HandlerSucceeds, HandlerFails,
                              UpstreamUnavailable, Conclude
        <3>2. QED
            BY <3>1, UnchangedStays
    <2>3. QED
        BY <2>1, <2>2
<1>6. QED
    BY <1>1, <1>2, <1>3, <1>4, <1>5 DEF AttemptSteps

LEMMA NextStays ==
    ASSUME IInv, [Next]_vars, NEW j \in Job, Terminal(jobs[j]), faults' = faults
    PROVE  Stays(j)
<1> USE DEF registryVars
<1>1. TypeOK /\ JobOK(j)
    BY DEF IInv
<1>2. ASSUME NEW k \in Job,
             CheckRegistration(k) \/ Count(k) \/ RegistrationStored(k) \/ Announce(k)
             \/ PutContext(k) \/ PutContextFails(k) \/ TimerFires(k) \/ Sweep(k)
             \/ TimesOut(k) \/ CancelAborts(k) \/ CancelStored(k) \/ ForceList(k)
             \/ ForceStored(k)
      PROVE  Stays(j)
    <2>1. jobs' = jobs
        BY <1>2 DEF CheckRegistration, Count, RegistrationStored, Announce, PutContext,
                    PutContextFails, TimerFires, Sweep, TimesOut, CancelAborts,
                    CancelStored, ForceList, ForceStored
    <2>2. QED
        BY <2>1, UnchangedStays
<1>3. ASSUME NEW k \in Job, Insert(k)
      PROVE  Stays(j)
    <2>1. k # j
        BY <1>1, <1>3 DEF JobOK, FreshOK, Insert, Terminal
    <2>2. QED
        BY <1>1, <1>3, <2>1 DEF Insert, TypeOK, Stays
<1>4. ASSUME NEW k \in Job, TimePasses(k)
      PROVE  Stays(j)
    <2>1. jobs[j] \in Entry \cup {None} /\ jobs[j] # None
        BY <1>1 DEF TypeOK, Terminal
    <2>2. jobs'[j] = Ripe(jobs[j]) \/ jobs'[j] = jobs[j]
        BY <1>1, <1>4 DEF TimePasses, TypeOK
    <2>3. QED
        BY <2>1, <2>2, Ripens DEF Stays
<1>5. ASSUME NEW k \in Job, Claim(k)
      PROVE  Stays(j)
    <2>1. CASE Claimable(k)
        <3>1. MayChange(jobs[k])
            BY <2>1 DEF Claimable, MayChange, TerminalStatus
        <3>2. jobs' = [jobs EXCEPT ![k] = [jobs[k] EXCEPT !.status = "Running"]]
            BY <1>5, <2>1 DEF Claim
        <3>3. QED
            BY <1>1, <3>1, <3>2, OthersStay
    <2>2. CASE ~Claimable(k)
        BY <1>5, <2>2, UnchangedStays DEF Claim
    <2>3. QED
        BY <2>1, <2>2
<1>6. ASSUME NEW k \in Job, CancelMarks(k) \/ ForceMarks(k)
      PROVE  Stays(j)
    <2>1. CASE MayChange(jobs[k])
        BY <1>1, <1>6, <2>1, UpdateStays DEF CancelMarks, ForceMarks
    <2>2. CASE ~MayChange(jobs[k])
        BY <1>6, <2>2, UnchangedStays DEF CancelMarks, ForceMarks
    <2>3. QED
        BY <2>1, <2>2
<1>7. ASSUME NEW k \in Job, Forget(k)
      PROVE  Stays(j)
    BY <1>1, <1>7 DEF Forget, TypeOK, Stays
<1>8. CASE Watchdog
    <2>1. CASE WatchdogAborts \/ WatchdogStored
        BY <2>1, UnchangedStays DEF WatchdogAborts, WatchdogStored
    <2>2. CASE WatchdogDecides
        <3>1. dog.job \in Job
            BY <2>2 DEF IInv, DogOK, WatchdogDecides
        <3>2. CASE MayChange(jobs[dog.job])
            <4>1. requeue(dog.job, 1, "dog", 0) \/ update_status(dog.job, "Failed", "dog", 0)
                BY <2>2, <3>2 DEF WatchdogDecides
            <4>2. QED
                BY <1>1, <3>1, <3>2, <4>1, UpdateStays, RequeueStays
        <3>3. CASE ~MayChange(jobs[dog.job])
            BY <2>2, <3>3, UnchangedStays DEF WatchdogDecides
        <3>4. QED
            BY <3>2, <3>3
    <2>3. QED
        BY <1>8, <2>1, <2>2 DEF Watchdog
<1>9. ~Restart
    BY <1>1, SameFaults DEF Restart
<1>10. CASE UNCHANGED vars
    BY <1>10, UnchangedStays DEF vars
<1>11. QED
    BY <1>1, <1>2, <1>3, <1>4, <1>5, <1>6, <1>7, <1>8, <1>9, <1>10, AttemptStays
    DEF Next, ClientSteps

\* While the server is up, no late attempt, retry, timeout or cancel revives a
\* job that has ended: update_status, schedule_retry and park_job refuse it, a
\* worker claims scheduled jobs only, and an id is inserted once.
THEOREM TerminalStaysHolds == Spec => TerminalStays
<1>1. IInv /\ [Next]_vars =>
        [\A j \in Job : Terminal(jobs[j]) /\ faults' = faults =>
             jobs'[j] = None \/ jobs'[j].status = jobs[j].status]_vars
    BY NextStays DEF Stays
<1>2. QED
    BY <1>1, Inductive, PTL DEF Spec, TerminalStays

=============================================================================
