---------------------------- MODULE Replication ----------------------------
(***************************************************************************)
(* A cluster that replicates the operation log of one (tenant, repo) pair: *)
(* the capture of local writes (operation_capture/core.rs), the log and    *)
(* its clock snapshot (repositories/oplog), pull synchronisation           *)
(* (coordinator/sync.rs), the replay engine (replay/engine.rs), the put    *)
(* that logs and applies (integration/oplog_storage.rs), real-time push    *)
(* (coordinator/push.rs, tcp_server/message_handler.rs) and the restart.   *)
(*                                                                         *)
(* A server runs many of these at once: a periodic pull per peer, two more *)
(* pulls when a peer connects, a handler per incoming push, status queries *)
(* and captures from concurrent requests.  Each is a sequence of small     *)
(* steps over the shared state, interleaved with all the others; a Slot is *)
(* a place for one pull, push handler or status query.                     *)
(*                                                                         *)
(* The list order of the operations a pull obtained does not outlive it:   *)
(* the replay engine groups them in a hash map and the put sorts by        *)
(* op_seq.  Lists are therefore sets here, and one call of the causal      *)
(* buffer, which holds its lock throughout, is one step; module            *)
(* CausalDelivery has the buffer in detail.                                *)
(***************************************************************************)
EXTENDS VectorClock, FiniteSets, SequencesExt

CONSTANTS
    Slot,           \* places for the pulls and handlers of one server
    Register,       \* what operations write: users, branch heads, ...
    Versioned,      \* registers that keep every version: nodes
    Blind,          \* registers the applicator overwrites without comparing
    Timestamp,      \* clock readings
    BatchSize,      \* sync_config.batch_size
    Clusters        \* the clusters considered, see Cluster

ASSUME ReplicationAssumption ==
    /\ Node \subseteq Nat /\ IsFiniteSet(Node)
    /\ Blind \subseteq Register /\ Versioned \subseteq Register \ Blind
    /\ Timestamp \subseteq Nat
    /\ BatchSize \in Nat \ {0}

\* A cluster: who pulls from and pushes to whom, sync_config.realtime_push,
\* whether the storage statistics are asked for, whether clock readings follow
\* the order of the writes (no skew), and the bounds: what is written, the
\* sequence numbers of each server, the tasks of one server at a time, the
\* faults by kind and number.
Cluster ==
    [peers : [Node -> SUBSET Node], realtime_push : BOOLEAN, stats : BOOLEAN,
     synchronised : BOOLEAN, registers : SUBSET Register, maxSeq : [Node -> Nat],
     slots : SUBSET Slot, faulty : SUBSET {"stop", "read", "write"}, maxFaults : Nat]

ASSUME ClustersAssumption ==
    /\ Clusters \subseteq Cluster
    /\ \A c \in Clusters : \A n \in Node : n \notin c.peers[n]

VARIABLES
    cluster,        \* the cluster at hand; it never changes
    clock,          \* RepoClockState: vector_clock, its own entry is op_seq
    capture,        \* captures in progress, each with what it does next
    oplog,          \* the operation log, keyed by (node, op_seq)
    snapshot,       \* the persisted vector clock snapshot of the log
    marked,         \* APPLIED_OPS, the persistent idempotency tracker
    data,           \* register -> the operation whose value it holds
    applied,        \* history: operations whose effect `data` has seen
    buffer,         \* the causal delivery buffer, created by its first use
    task,           \* pulls, push handlers and status queries in progress
    pushes,         \* PushOperations messages in flight, with their receiver
    faults

valueVars == <<data, applied>>
netVars == <<cluster, pushes, faults>>
vars == <<clock, capture, oplog, snapshot, marked, valueVars, buffer, task, netVars>>

Op == [node : Node, vc : Clock, ts : Timestamp, reg : Register]

NoOp == [node |-> 0]        \* an unwritten register

NoBuffer == [live |-> FALSE, local |-> EmptyClock, held |-> {}]
NoTask == [at |-> "idle", peer |-> 0, vc |-> EmptyClock, ops |-> {}, out |-> {},
           doing |-> NoOp]

\* A capture and what it does next, a task and what it does next.
Capture == [at : {"put", "count", "write", "current"}, op : Op, vc : Clock]
Task ==
    [at : {"idle", "asked", "seed", "deliver", "replay", "log", "count", "write",
           "apply", "store", "recount", "rewrite", "scan", "rebuild"},
     peer : Node \cup {0}, vc : Clock, ops : SUBSET Op, out : SUBSET Op,
     doing : Op \cup {NoOp}]

TypeOK ==
    /\ cluster \in Clusters
    /\ clock \in [Node -> Clock]
    /\ capture \in [Node -> SUBSET Capture]
    /\ oplog \in [Node -> SUBSET Op]
    /\ snapshot \in [Node -> Clock]
    /\ marked \in [Node -> SUBSET Op]
    /\ data \in [Node -> [Register -> Op \cup {NoOp}]]
    /\ applied \in [Node -> SUBSET Op]
    /\ buffer \in [Node -> [live : BOOLEAN, local : Clock, held : SUBSET Op]]
    /\ task \in [Node \X Slot -> Task]
    /\ \A t \in Node \X Slot :
           task[t].at \in {"seed", "deliver", "log", "apply"} => task[t].ops # {}
    /\ pushes \subseteq (Op \X Node)
    /\ faults \in 0 .. cluster.maxFaults

Init ==
    /\ cluster \in Clusters
    /\ clock = [n \in Node |-> EmptyClock]
    /\ capture = [n \in Node |-> {}]
    /\ oplog = [n \in Node |-> {}]
    /\ snapshot = [n \in Node |-> EmptyClock]
    /\ marked = [n \in Node |-> {}]
    /\ data = [n \in Node |-> [r \in Register |-> NoOp]]
    /\ applied = [n \in Node |-> {}]
    /\ buffer = [n \in Node |-> NoBuffer]
    /\ task = [t \in Node \X Slot |-> NoTask]
    /\ pushes = {}
    /\ faults = 0

Fault(kind) ==
    kind \in cluster.faulty /\ faults < cluster.maxFaults /\ faults' = faults + 1

-----------------------------------------------------------------------------
(* The store. *)

\* What increment_vector_clock_for_node writes back, if it writes.
Raised(vc, op) == IF Counter(op) > vc[op.node] THEN set(vc, op.node, Counter(op)) ELSE vc

\* rebuild_vector_clock_snapshot, and with one entry get_highest_seq.
Rebuilt(log) ==
    [n \in Node |-> Max({0} \cup {Counter(op) : op \in {o \in log : o.node = n}})]

\* The handler apply_operation chooses: that of a branch or a workspace
\* compares with what is stored; that of a user does not, nor does that of a
\* node, which adds a version.
Compared(op) == op.reg \notin Blind \cup Versioned

\* A record that is compared is written unless the stored one is newer (ties
\* write).
Newer(stored, op) ==
    /\ Compared(op)
    /\ stored # NoOp
    /\ op.ts < stored.ts

\* Mutant of Settled: what is written last is what is read.
LastWritten(stored, op) == op

\* What readers see after the write.  A node is written at its revision, and
\* they see the newest one.
Settled(stored, op) ==
    IF op.reg \in Versioned /\ stored # NoOp /\ op.ts < stored.ts THEN stored ELSE op

-----------------------------------------------------------------------------
(* Capture of local writes. *)

\* chrono::Utc::now(): the readings of one server do not decrease; those of two
\* servers that are not synchronised are unrelated.
Reading(n, ts) ==
    IF cluster.synchronised
    THEN ts = 1 + Cardinality(UNION Range(applied))
    ELSE \A o \in applied[n] : o.node = n => o.ts <= ts

\* The write is committed; advance_repo_clock stamps its operation.
Stamp(n, r, ts) ==
    LET op == [node |-> n, vc |-> increment(clock[n], n), ts |-> ts, reg |-> r]
    IN  /\ r \in cluster.registers
        /\ clock[n][n] < cluster.maxSeq[n]
        /\ Reading(n, ts)
        /\ clock' = [clock EXCEPT ![n] = op.vc]
        /\ capture' = [capture EXCEPT ![n] = @ \cup
                           {[at |-> "put", op |-> op, vc |-> EmptyClock]}]
        /\ data' = [data EXCEPT ![n][r] = Settled(@, op)]
        /\ applied' = [applied EXCEPT ![n] = @ \cup {op}]
        /\ UNCHANGED <<oplog, snapshot, marked, buffer, task, netVars>>

\* put_operation.
Put(n, c) ==
    /\ c.at = "put"
    /\ oplog' = [oplog EXCEPT ![n] = @ \cup {c.op}]
    /\ capture' = [capture EXCEPT ![n] = (@ \ {c}) \cup {[c EXCEPT !.at = "count"]}]
    /\ UNCHANGED <<clock, snapshot, marked, valueVars, buffer, task, netVars>>

\* increment_vector_clock_for_node reads the snapshot ...
ReadSnapshot(n, c) ==
    LET new == Raised(snapshot[n], c.op)
        at  == IF new = snapshot[n] THEN "current" ELSE "write"
    IN  /\ c.at = "count"
        /\ capture' = [capture EXCEPT ![n] =
               (@ \ {c}) \cup {[c EXCEPT !.at = at, !.vc = new]}]
        /\ UNCHANGED <<clock, oplog, snapshot, marked, valueVars, buffer, task, netVars>>

\* ... and writes it back if its entry was behind; then the push callback
\* sends to every peer (push_to_all_peers).
WriteSnapshot(n, c) ==
    /\ c.at \in {"write", "current"}
    /\ snapshot' = IF c.at = "write" THEN [snapshot EXCEPT ![n] = c.vc] ELSE snapshot
    /\ capture' = [capture EXCEPT ![n] = @ \ {c}]
    /\ pushes' = IF cluster.realtime_push
               THEN pushes \cup ({c.op} \X cluster.peers[n])
               ELSE pushes
    /\ UNCHANGED <<clock, oplog, marked, valueVars, buffer, task, cluster, faults>>

\* A write of the capture fails: the error is returned, the clock stays
\* advanced and nothing is pushed.
CaptureFails(n, c) ==
    /\ Fault("write")
    /\ capture' = [capture EXCEPT ![n] = @ \ {c}]
    /\ UNCHANGED <<clock, oplog, snapshot, marked, valueVars, buffer, task, cluster, pushes>>

-----------------------------------------------------------------------------
(* Pull: sync_tenant_repo_with_peer. *)

\* get_vector_clock, and the request leaves.
Request(n, k, p) ==
    /\ k \in cluster.slots
    /\ task[<<n, k>>] = NoTask
    /\ p \in cluster.peers[n]
    /\ task' = [task EXCEPT ![<<n, k>>] =
           [@ EXCEPT !.at = "asked", !.peer = p, !.vc = snapshot[n]]]
    /\ UNCHANGED <<clock, capture, oplog, snapshot, marked, valueVars, buffer, netVars>>

\* The order of the log's keys.
KeyLess(a, b) ==
    \/ a.node < b.node
    \/ a.node = b.node /\ Counter(a) < Counter(b)

\* Mutant of get_missing_operations: off by one.
MissingOffByOne(log, vc) == {op \in log : Counter(op) > vc[op.node] + 1}

\* The first BatchSize operations above the requester's clock.
get_missing_operations(log, vc) ==
    LET missing == {op \in log : Counter(op) > vc[op.node]}
    IN  {op \in missing : Cardinality({o \in missing : KeyLess(o, op)}) < BatchSize}

\* Mutant of Serve: an empty batch goes on like any other.
ServeEmpty(n, k, p) ==
    /\ task[<<n, k>>].at = "asked"
    /\ task[<<n, k>>].peer = p
    /\ task' = [task EXCEPT ![<<n, k>>] =
           [@ EXCEPT !.at = "deliver", !.ops = get_missing_operations(oplog[p], task[<<n, k>>].vc)]]
    /\ UNCHANGED <<clock, capture, oplog, snapshot, marked, valueVars, buffer, netVars>>

\* The peer answers; an empty batch ends the pull.  The first operation finds
\* the buffer or has to create it.
Serve(n, k, p) ==
    /\ task[<<n, k>>].at = "asked"
    /\ task[<<n, k>>].peer = p
    /\ LET ops == get_missing_operations(oplog[p], task[<<n, k>>].vc)
       IN  task' = [task EXCEPT ![<<n, k>>] =
               IF ops = {} THEN NoTask
               ELSE [@ EXCEPT !.at = IF buffer[n].live THEN "deliver" ELSE "seed",
                              !.ops = ops]]
    /\ UNCHANGED <<clock, capture, oplog, snapshot, marked, valueVars, buffer, netVars>>

\* The request or its answer is lost.
Fail(n, k) ==
    /\ task[<<n, k>>].at = "asked"
    /\ task' = [task EXCEPT ![<<n, k>>] = NoTask]
    /\ UNCHANGED <<clock, capture, oplog, snapshot, marked, valueVars, buffer, netVars>>

\* deliver_through_causal_buffers reads the seed of a buffer that does not
\* exist yet before it takes the lock of the map.
ReadSeed(n, k) ==
    /\ task[<<n, k>>].at = "seed"
    /\ task' = [task EXCEPT ![<<n, k>>] = [@ EXCEPT !.at = "deliver", !.vc = snapshot[n]]]
    /\ UNCHANGED <<clock, capture, oplog, snapshot, marked, valueVars, buffer, netVars>>

\* The snapshot cannot be read: the buffer starts from an empty clock.
SeedFails(n, k) ==
    /\ Fault("read")
    /\ task[<<n, k>>].at = "seed"
    /\ task' = [task EXCEPT ![<<n, k>>] = [@ EXCEPT !.at = "deliver", !.vc = EmptyClock]]
    /\ UNCHANGED <<clock, capture, oplog, snapshot, marked, valueVars, buffer, cluster, pushes>>

\* Mutant of dependencies_satisfied: the sender's own sequence may have gaps.
GapsAllowed(local, op) ==
    /\ local[op.node] < op.vc[op.node]
    /\ \A n \in Node \ {op.node} : local[n] >= op.vc[n]

dependencies_satisfied(local, op) ==
    \A n \in Node :
        IF op.vc[n] = 0 THEN TRUE
        ELSE IF n = op.node THEN local[n] = op.vc[n] - 1
        ELSE local[n] >= op.vc[n]

\* One round of check_buffered_ops over [local, held, out].
Round(b) ==
    LET ready == {op \in b.held : dependencies_satisfied(b.local, op)}
    IN  [local |-> [n \in Node |-> Max({b.local[n]} \cup {op.vc[n] : op \in ready})],
         held  |-> b.held \ ready,
         out   |-> b.out \cup ready]

\* check_buffered_ops: a round that releases nothing changes nothing, so as
\* many rounds as there are held operations are enough.
check_buffered_ops(b) ==
    LET rounds[i \in 0 .. Cardinality(b.held)] ==
            IF i = 0 THEN b ELSE Round(rounds[i - 1])
    IN  rounds[Cardinality(b.held)]

\* CausalDeliveryBuffer::deliver.
deliver(local, held, op) ==
    check_buffered_ops(
        IF dependencies_satisfied(local, op)
        THEN [local |-> merge(local, op.vc), held |-> held, out |-> {op}]
        ELSE [local |-> local, held |-> held \cup {op}, out |-> {}])

\* The next operation of the batch, in key order, under the lock of the map.
DeliverNext(n, k) ==
    LET t  == task[<<n, k>>]
        op == CHOOSE o \in t.ops : \A x \in t.ops \ {o} : KeyLess(o, x)
        local == IF buffer[n].live THEN buffer[n].local ELSE t.vc
        res == deliver(local, buffer[n].held, op)
    IN  /\ t.at = "deliver"
        /\ buffer' = [buffer EXCEPT ![n] =
               [live |-> TRUE, local |-> res.local, held |-> res.held]]
        /\ task' = [task EXCEPT ![<<n, k>>] =
               [t EXCEPT !.ops = @ \ {op}, !.out = @ \cup res.out,
                         !.at = IF t.ops = {op} THEN "replay" ELSE @]]
        /\ UNCHANGED <<clock, capture, oplog, snapshot, marked, valueVars, netVars>>

\* compare_operations_lww and compare_causal: causality, clock, node id.
LwwLess(a, b) ==
    IF happens_before(a.vc, b.vc) THEN TRUE
    ELSE IF happens_after(a.vc, b.vc) THEN FALSE
    ELSE a.ts < b.ts \/ (a.ts = b.ts /\ a.node < b.node)

\* The last of a causally sorted list wins.  The comparison is not transitive,
\* so a group of three can have several sorted lists and several winners.
Winners(group) ==
    {w \in group : \E s \in SetToSeqs(group) :
        /\ Last(s) = w
        /\ \A i \in 1 .. Len(s) - 1 : LwwLess(s[i], s[i + 1])}

filter_applied(n, ops) == ops \ marked[n]

\* Operations on one register, as conflict_group_key tells them apart.
Group(ops, r) == {op \in ops : op.reg = r}

mark_applied(n, ops) == marked' = [marked EXCEPT ![n] = @ \cup ops]

\* Mutant of Replayed: the operations are applied before they are appended.
AppliedFirst(ops) ==
    IF ops = {} THEN NoTask ELSE [NoTask EXCEPT !.at = "apply", !.ops = ops, !.out = ops]

\* The pull puts what the replay engine applied, or ends.
Replayed(ops) == IF ops = {} THEN NoTask ELSE [NoTask EXCEPT !.at = "log", !.ops = ops]

\* ReplayEngine::replay: drop what is marked, keep one winner per register,
\* mark the winners.
Replay(n, k) ==
    LET new_ops == filter_applied(n, task[<<n, k>>].out)
    IN  /\ task[<<n, k>>].at = "replay"
        /\ \E winner \in [{op.reg : op \in new_ops} -> new_ops] :
               /\ \A r \in DOMAIN winner : winner[r] \in Winners(Group(new_ops, r))
               /\ mark_applied(n, Range(winner))
               /\ task' = [task EXCEPT ![<<n, k>>] = Replayed(Range(winner))]
        /\ UNCHANGED <<clock, capture, oplog, snapshot, valueVars, buffer, netVars>>

-----------------------------------------------------------------------------
(* put_operations_batch, of a pull or of a push handler. *)

\* Mutant of LogBatch: the error of the append is swallowed.
LogUnchecked(n, k) ==
    /\ task[<<n, k>>].at = "log"
    /\ oplog' \in {oplog, [oplog EXCEPT ![n] = @ \cup task[<<n, k>>].ops]}
    /\ task' = [task EXCEPT ![<<n, k>>] = [@ EXCEPT !.at = "count", !.out = task[<<n, k>>].ops]]
    /\ UNCHANGED <<clock, capture, snapshot, marked, valueVars, buffer, netVars>>

\* The operations are appended; then the snapshot is advanced once per server,
\* to the highest of its operations.
LogBatch(n, k) ==
    LET ops == task[<<n, k>>].ops
        highest == {op \in ops : \A o \in ops : o.node = op.node => Counter(o) <= Counter(op)}
    IN  /\ task[<<n, k>>].at = "log"
        /\ oplog' = [oplog EXCEPT ![n] = @ \cup ops]
        /\ task' = [task EXCEPT ![<<n, k>>] = [@ EXCEPT !.at = "count", !.out = highest]]
        /\ UNCHANGED <<clock, capture, snapshot, marked, valueVars, buffer, netVars>>

\* A task whose snapshot updates are done: `out` becomes what is to apply, and
\* after the second pass the task has ended.
Counted(t) ==
    IF t.out # {} THEN t
    ELSE IF t.at = "count" THEN [t EXCEPT !.at = "apply", !.out = t.ops]
    ELSE NoTask

\* increment_vector_clock_for_node reads the snapshot: nothing to write, or ...
ReadBatchSnapshot(n, k, op) ==
    LET t   == task[<<n, k>>]
        new == Raised(snapshot[n], op)
        rest == [t EXCEPT !.out = @ \ {op}]
    IN  /\ t.at \in {"count", "recount"}
        /\ op \in t.out
        /\ task' = [task EXCEPT ![<<n, k>>] =
               IF new = snapshot[n] THEN Counted(rest)
               ELSE [rest EXCEPT !.at = IF @ = "count" THEN "write" ELSE "rewrite",
                                 !.vc = new]]
        /\ UNCHANGED <<clock, capture, oplog, snapshot, marked, valueVars, buffer, netVars>>

\* ... the write-back.
WriteBatchSnapshot(n, k) ==
    LET t == task[<<n, k>>]
    IN  /\ t.at \in {"write", "rewrite"}
        /\ snapshot' = [snapshot EXCEPT ![n] = t.vc]
        /\ task' = [task EXCEPT ![<<n, k>>] =
               Counted([t EXCEPT !.at = IF @ = "write" THEN "count" ELSE "recount"])]
        /\ UNCHANGED <<clock, capture, oplog, marked, valueVars, buffer, netVars>>

\* Mutant of Chosen: the operations are not sorted.
AnyOperation(t, op) == op \in t.out

\* The operations are applied in the order of op_seq.
Chosen(t, op) == op \in t.out /\ \A o \in t.out : Counter(op) <= Counter(o)

\* The operation is done with.  After the last one the snapshot is advanced a
\* second time, now once per operation.
Done(t, op) ==
    IF t.out = {op} THEN [t EXCEPT !.at = "recount", !.out = t.ops, !.doing = NoOp]
    ELSE [t EXCEPT !.at = "apply", !.out = @ \ {op}, !.doing = NoOp]

\* apply_operation reads the stored record: it is newer, or ...
ReadStored(n, k, op) ==
    LET t == task[<<n, k>>]
    IN  /\ t.at = "apply"
        /\ Chosen(t, op)
        /\ IF Newer(data[n][op.reg], op)
           THEN /\ task' = [task EXCEPT ![<<n, k>>] = Done(t, op)]
                /\ applied' = [applied EXCEPT ![n] = @ \cup {op}]
           ELSE /\ task' = [task EXCEPT ![<<n, k>>] = [t EXCEPT !.at = "store", !.doing = op]]
                /\ UNCHANGED applied
        /\ UNCHANGED <<clock, capture, oplog, snapshot, marked, data, buffer, netVars>>

\* ... the operation's own is written, with no lock held since the read.  (The
\* nodes of an operation are locked throughout, but they keep all versions.)
WriteStored(n, k) ==
    LET t  == task[<<n, k>>]
        op == t.doing
    IN  /\ t.at = "store"
        /\ data' = [data EXCEPT ![n][op.reg] = Settled(@, op)]
        /\ applied' = [applied EXCEPT ![n] = @ \cup {op}]
        /\ task' = [task EXCEPT ![<<n, k>>] = Done(t, op)]
        /\ UNCHANGED <<clock, capture, oplog, snapshot, marked, buffer, netVars>>

\* An operation that cannot be applied is reported and passed over.
ApplyFails(n, k) ==
    LET t == task[<<n, k>>]
    IN  /\ Fault("write")
        /\ t.at = "store"
        /\ task' = [task EXCEPT ![<<n, k>>] = Done(t, t.doing)]
        /\ UNCHANGED <<clock, capture, oplog, snapshot, marked, valueVars, buffer, cluster, pushes>>

\* The append, or the snapshot update that belongs to it, fails: the error ends
\* the task before anything is applied.  So does that of a rebuilt snapshot.
PutFails(n, k) ==
    /\ Fault("write")
    /\ task[<<n, k>>].at \in {"log", "count", "write", "rebuild"}
    /\ task' = [task EXCEPT ![<<n, k>>] = NoTask]
    /\ UNCHANGED <<clock, capture, oplog, snapshot, marked, valueVars, buffer, cluster, pushes>>

\* A snapshot update of the second pass that fails is reported and passed over.
RecountFails(n, k, op) ==
    LET t == task[<<n, k>>]
    IN  /\ Fault("write")
        /\ t.at = "recount"
        /\ op \in t.out
        /\ task' = [task EXCEPT ![<<n, k>>] = Counted([t EXCEPT !.out = @ \ {op}])]
        /\ UNCHANGED <<clock, capture, oplog, snapshot, marked, valueVars, buffer, cluster, pushes>>

-----------------------------------------------------------------------------
(* Push. *)

\* handle_push_operations: straight to put_operations_batch.
ReceivePush(n, k, op) ==
    /\ k \in cluster.slots
    /\ task[<<n, k>>] = NoTask
    /\ <<op, n>> \in pushes
    /\ pushes' = pushes \ {<<op, n>>}
    /\ task' = [task EXCEPT ![<<n, k>>] = [@ EXCEPT !.at = "log", !.ops = {op}]]
    /\ UNCHANGED <<clock, capture, oplog, snapshot, marked, valueVars, buffer, cluster, faults>>

\* The peer is not connected or the message is lost; nothing sends it again.
LosePush(op, n) ==
    /\ <<op, n>> \in pushes
    /\ pushes' = pushes \ {<<op, n>>}
    /\ UNCHANGED <<clock, capture, oplog, snapshot, marked, valueVars, buffer, task, cluster, faults>>

-----------------------------------------------------------------------------
(* get_cluster_stats, which lists the repositories of a sync, answers a peer *)
(* and serves catch-up.                                                    *)

\* The snapshot is read; only an empty one is not the answer.
StatsBegin(n, k) ==
    /\ cluster.stats
    /\ k \in cluster.slots
    /\ task[<<n, k>>] = NoTask
    /\ snapshot[n] = EmptyClock
    /\ task' = [task EXCEPT ![<<n, k>>] = [@ EXCEPT !.at = "scan"]]
    /\ UNCHANGED <<clock, capture, oplog, snapshot, marked, valueVars, buffer, netVars>>

\* rebuild_vector_clock_snapshot scans the keys of the log ...
StatsScan(n, k) ==
    /\ task[<<n, k>>].at = "scan"
    /\ task' = [task EXCEPT ![<<n, k>>] =
           [@ EXCEPT !.at = "rebuild", !.vc = Rebuilt(oplog[n])]]
    /\ UNCHANGED <<clock, capture, oplog, snapshot, marked, valueVars, buffer, netVars>>

\* ... and writes what it found, whatever the snapshot is by now.
StatsWrite(n, k) ==
    /\ task[<<n, k>>].at = "rebuild"
    /\ snapshot' = [snapshot EXCEPT ![n] = task[<<n, k>>].vc]
    /\ task' = [task EXCEPT ![<<n, k>>] = NoTask]
    /\ UNCHANGED <<clock, capture, oplog, marked, valueVars, buffer, netVars>>

-----------------------------------------------------------------------------
(* Restart. *)

\* Mutant of Restart: the own sequence number is taken from the snapshot.
RestartFromSnapshot(n) ==
    /\ Fault("stop")
    /\ clock' = [clock EXCEPT ![n] = snapshot[n]]
    /\ capture' = [capture EXCEPT ![n] = {}]
    /\ buffer' = [buffer EXCEPT ![n] = NoBuffer]
    /\ task' = [t \in Node \X Slot |-> IF t[1] = n THEN NoTask ELSE task[t]]
    /\ UNCHANGED <<oplog, snapshot, marked, valueVars, cluster, pushes>>

\* The process stops at any point and restore_replication_state runs: an empty
\* snapshot is rebuilt from the log, the repo clock starts from the snapshot
\* with its own entry raised to the highest logged sequence number.
Restart(n) ==
    LET snap == IF snapshot[n] = EmptyClock THEN Rebuilt(oplog[n]) ELSE snapshot[n]
        highest_seq == Rebuilt(oplog[n])[n]
    IN  /\ Fault("stop")
        /\ snapshot' = [snapshot EXCEPT ![n] = snap]
        /\ clock' = [clock EXCEPT ![n] =
               IF highest_seq > snap[n] THEN set(snap, n, highest_seq) ELSE snap]
        /\ capture' = [capture EXCEPT ![n] = {}]
        /\ buffer' = [buffer EXCEPT ![n] = NoBuffer]
        /\ task' = [t \in Node \X Slot |-> IF t[1] = n THEN NoTask ELSE task[t]]
        /\ UNCHANGED <<oplog, marked, valueVars, cluster, pushes>>

-----------------------------------------------------------------------------

TaskStep(n, k) ==
    \/ ReadSeed(n, k)
    \/ DeliverNext(n, k)
    \/ Replay(n, k)
    \/ LogBatch(n, k)
    \/ \E op \in task[<<n, k>>].out : ReadBatchSnapshot(n, k, op)
    \/ WriteBatchSnapshot(n, k)
    \/ \E op \in task[<<n, k>>].out : ReadStored(n, k, op)
    \/ WriteStored(n, k)
    \/ StatsScan(n, k)
    \/ StatsWrite(n, k)

CaptureStep(n) ==
    \E c \in capture[n] : Put(n, c) \/ ReadSnapshot(n, c) \/ WriteSnapshot(n, c)

FaultStep(n) ==
    \/ \E c \in capture[n] : CaptureFails(n, c)
    \/ \E k \in Slot : SeedFails(n, k) \/ PutFails(n, k) \/ ApplyFails(n, k)
    \/ \E k \in Slot : \E op \in task[<<n, k>>].out : RecountFails(n, k, op)
    \/ Restart(n)

Next ==
    \/ \E n \in Node, r \in Register, ts \in Timestamp : Stamp(n, r, ts)
    \/ \E n \in Node : CaptureStep(n)
    \/ \E n \in Node, k \in Slot, p \in Node : Request(n, k, p) \/ Serve(n, k, p)
    \/ \E n \in Node, k \in Slot : Fail(n, k) \/ StatsBegin(n, k) \/ TaskStep(n, k)
    \/ \E n \in Node, k \in Slot, m \in pushes : ReceivePush(n, k, m[1])
    \/ \E m \in pushes : LosePush(m[1], m[2])
    \/ \E n \in Node : FaultStep(n)

Spec == Init /\ [][Next]_vars

\* A task that was started and a capture in progress go on; the periodic
\* ticker asks every connected peer for ever, and a peer that is asked for
\* ever answers infinitely often.  No push need arrive.
Fairness ==
    /\ \A n \in Node : WF_vars(CaptureStep(n))
    /\ \A n \in Node, k \in Slot : WF_vars(TaskStep(n, k))
    /\ \A n \in Node : \A p \in Node \ {n} :
           /\ SF_vars(\E k \in Slot : Request(n, k, p))
           /\ SF_vars(\E k \in Slot : Serve(n, k, p))

FairSpec == Spec /\ Fairness

-----------------------------------------------------------------------------
(* Properties. *)

\* Operations that reached a log.
Logged == UNION Range(oplog)

\* What the tasks of a server still carry.
InProgress(n) == UNION {task[<<n, k>>].ops \cup task[<<n, k>>].out : k \in Slot}

\* An operation lost its register, in a batch of the replay engine, to one of
\* `ops`.
Superseded(op, ops) ==
    \E w \in ops \ {op}, group \in SUBSET Group(Logged, op.reg) :
        op \in group /\ w \in Winners(group)

\* No sequence number names two operations, whichever copies are in the logs,
\* the buffers, the tasks and on the wire, and wherever a server stopped: "a
\* reused sequence number would overwrite oplog entries" (restore_from_oplog).
SequenceNeverReused ==
    LET visible == Logged \cup {m[1] : m \in pushes}
                     \cup (UNION {{c.op : c \in capture[n]} : n \in Node})
                     \cup (UNION {buffer[n].held \cup InProgress(n) : n \in Node})
    IN  \A a, b \in visible :
            a.node = b.node /\ Counter(a) = Counter(b) => a = b

\* The snapshot trails the log and never leads it: every entry is the number
\* of an operation in the log, so the next pull asks for all that follows it.
SnapshotWithinLog ==
    \A n, m \in Node :
        snapshot[n][m] > 0 =>
            \E op \in oplog[n] : op.node = m /\ Counter(op) = snapshot[n][m]

\* What the snapshot of a server counts, it has: every operation of another
\* server at or below the entry is in the log or about to be, or lost to one
\* that is.  An operation that is not will never be asked for again.
NothingSkipped ==
    \A n \in Node :
        LET has == oplog[n] \cup InProgress(n)
        IN  \A op \in Logged :
                op.node # n /\ Counter(op) <= snapshot[n][op.node]
                  => op \in has \/ Superseded(op, has)

\* So it is in a cluster that only pulls, as long as no server stops and no
\* write fails, even with two pulls of one peer at a time.
PullsSkipNothing ==
    ~cluster.realtime_push /\ faults = 0 => NothingSkipped

\* "Operations applied in happens-before order" (raisin-replication, lib.rs):
\* an operation that takes effect does not causally precede one that already
\* has, in a cluster that only pulls, one batch at a time, as long as no server
\* stops and no write fails.  (From its first restart on, a server's operations
\* count those of others, and a batch is applied by op_seq.)
AppliedInCausalOrder ==
    [][~cluster.realtime_push /\ (\E k \in Slot : cluster.slots = {k}) /\ faults = 0 =>
         \A n \in Node : \A op \in applied'[n] \ applied[n], x \in applied[n] :
             ~happens_before(op.vc, x.vc)]_vars

\* With pushes, restarts and failed writes anywhere the logs are those of
\* ReplicatedLog: append-only, one operation per number, copies of what the
\* author has logged, and nothing of another server takes effect before it is
\* logged (put_operations_batch appends first).
Log == INSTANCE ReplicatedLog WITH log <- oplog, seen <- applied

ImplementsLog == Log!Spec

\* "All nodes converge to identical state" (raisin-replication, lib.rs): once
\* the captures are over, every register ends up the same everywhere.
Converges ==
    <>[](\A n, m \in Node : \A r \in Register : data[n][r] = data[m][r])

\* Every captured operation reaches every log, or loses to a later write.
EventuallyReplicated ==
    <>[](\A n \in Node : \A op \in Logged :
             op \in oplog[n] \/ Superseded(op, oplog[n]))

=============================================================================
