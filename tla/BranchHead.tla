----------------------------- MODULE BranchHead -----------------------------
(***************************************************************************)
(* The record of one branch on one server (raisin-rocksdb,                 *)
(* repositories/branches, transaction/commit): its HEAD, which decides     *)
(* what readers see, and its settings.  Every writer reads the whole       *)
(* record, changes a field and writes the whole record back:               *)
(*                                                                         *)
(*   - commits allocate a revision first, and then, under the lock of the  *)
(*     record, write nodes and HEAD in one batch (commit_impl,             *)
(*     write_batch_with_head_as);                                          *)
(*   - tree operations, reorderings, translations and type definitions     *)
(*     store their nodes first and then call update_head, which takes the  *)
(*     lock and may refuse;                                                *)
(*   - edits change a setting under the lock (set_protected, ...);         *)
(*   - resets move HEAD to any revision under the lock (set_head);         *)
(*   - the records of peers arrive through apply_update_branch, which      *)
(*     compares with what it read and takes no lock.                       *)
(*                                                                         *)
(* A future that is dropped, and a server that stops, end a writer between *)
(* any two of its steps; the batch itself is atomic.                       *)
(***************************************************************************)
EXTENDS Integers

CONSTANTS
    Writer,         \* requests in progress at a time
    NoWriter,
    MaxRevision,    \* bound: revisions, of local commits and of peers
    MaxEdits,       \* bound: edits of settings
    Received,       \* the records that may arrive from peers
    ResetTo         \* the revisions set_head is called with

VARIABLES
    replicated,     \* whether records of peers arrive; never changes
    record,         \* the branch record
    locked,         \* who holds lock_branch_record
    writer,         \* the requests in progress
    revision,       \* the last revision that was allocated
    edits,          \* how many edits have begun
    nodes,          \* revisions at which nodes are stored
    loose           \* history: of these, the ones HEAD need not cover: their
                    \*   request has not ended well, or a reset went below them

stored == <<nodes, loose>>

vars == <<replicated, record, locked, writer, revision, edits, stored>>

\* The settings: how often they were edited, and the one that matters to HEAD.
Settings == [version : 0 .. MaxEdits, protected : BOOLEAN]

Branch == [head : 0 .. MaxRevision, settings : Settings]

ASSUME BranchHeadAssumption ==
    /\ NoWriter \notin Writer
    /\ MaxRevision \in Nat
    /\ MaxEdits \in Nat
    /\ Received \subseteq Branch
    /\ ResetTo \subseteq 0 .. MaxRevision

Plain == [version |-> 0, protected |-> FALSE]

Blank == [head |-> 0, settings |-> Plain]

Idle == [at |-> "idle", kind |-> "none", new |-> Blank, read |-> Blank]

Kind == {"commit", "tree", "edit", "reset", "apply"}

TypeOK ==
    /\ replicated \in BOOLEAN
    /\ record \in Branch
    /\ locked \in Writer \cup {NoWriter}
    /\ writer \in [Writer -> [at : {"idle", "begun", "stored", "locked", "checked"},
                              kind : Kind \cup {"none"},
                              new : Branch, read : Branch]]
    /\ revision \in 0 .. MaxRevision
    /\ edits \in 0 .. MaxEdits
    /\ nodes \subseteq 0 .. MaxRevision
    /\ loose \subseteq 0 .. MaxRevision

Init ==
    /\ replicated \in BOOLEAN
    /\ \E p \in BOOLEAN : record = [Blank EXCEPT !.settings.protected = p]
    /\ locked = NoWriter
    /\ writer = [w \in Writer |-> Idle]
    /\ revision = 0
    /\ edits = 0
    /\ nodes = {}
    /\ loose = {}

-----------------------------------------------------------------------------

Begun(kind, new) == [Idle EXCEPT !.at = "begun", !.kind = kind, !.new = new]

\* allocate_revision: the revision is taken long before the lock.
BeginCommit(w, kind) ==
    /\ kind \in {"commit", "tree"}
    /\ writer[w] = Idle
    /\ revision < MaxRevision
    /\ revision' = revision + 1
    /\ writer' = [writer EXCEPT ![w] =
           Begun(kind, [Blank EXCEPT !.head = revision + 1])]
    /\ UNCHANGED <<replicated, record, locked, edits, stored>>

BeginEdit(w, protected) ==
    /\ writer[w] = Idle
    /\ edits < MaxEdits
    /\ edits' = edits + 1
    /\ writer' = [writer EXCEPT ![w] =
           Begun("edit", [Blank EXCEPT
               !.settings = [version |-> edits + 1, protected |-> protected]])]
    /\ UNCHANGED <<replicated, record, locked, revision, stored>>

\* set_head is called, with a revision of the client's choice.
BeginReset(w, head) ==
    /\ writer[w] = Idle
    /\ writer' = [writer EXCEPT ![w] = Begun("reset", [Blank EXCEPT !.head = head])]
    /\ UNCHANGED <<replicated, record, locked, revision, edits, stored>>

\* The record of a peer arrives: its HEAD is a revision of its own, or one it
\* has from here; its settings are those of an earlier moment.
BeginApply(w, new) ==
    /\ replicated
    /\ writer[w] = Idle
    /\ new.head \in 1 .. revision + 1
    /\ new.settings.version <= edits
    /\ revision' = IF new.head > revision THEN new.head ELSE revision
    /\ writer' = [writer EXCEPT ![w] = Begun("apply", new)]
    /\ UNCHANGED <<replicated, record, locked, edits, stored>>

\* The nodes of a tree operation are written, in a batch of their own.
StoreNodes(w) ==
    /\ writer[w].at = "begun"
    /\ writer[w].kind = "tree"
    /\ nodes' = nodes \cup {writer[w].new.head}
    /\ loose' = loose \cup {writer[w].new.head}
    /\ writer' = [writer EXCEPT ![w].at = "stored"]
    /\ UNCHANGED <<replicated, record, locked, revision, edits>>

\* The request has come to where it takes the lock.
BeforeLock(c) ==
    \/ c.at = "begun" /\ c.kind \in {"commit", "edit", "reset"}
    \/ c.at = "stored"

\* Mutant of Lock: the guard is dropped as soon as it is taken.
LockUnheld(w) ==
    /\ BeforeLock(writer[w])
    /\ writer' = [writer EXCEPT ![w].at = "locked"]
    /\ UNCHANGED <<replicated, record, locked, revision, edits, stored>>

\* lock_branch_record, which the records of peers do not take.
Lock(w) ==
    /\ BeforeLock(writer[w])
    /\ locked = NoWriter
    /\ locked' = w
    /\ writer' = [writer EXCEPT ![w].at = "locked"]
    /\ UNCHANGED <<replicated, record, revision, edits, stored>>

\* The stored record is read.
Read(w) ==
    /\ \/ writer[w].at = "locked"
       \/ writer[w].at = "begun" /\ writer[w].kind = "apply"
    /\ writer' = [writer EXCEPT ![w].at = "checked", ![w].read = record]
    /\ UNCHANGED <<replicated, record, locked, revision, edits, stored>>

\* Mutant of Skips: an unconditional assignment.
NeverSkips(c) == FALSE

\* A commit that does not advance HEAD leaves the record alone, and so does the
\* record of a peer whose HEAD is older.
Skips(c) ==
    \/ c.kind \in {"commit", "tree"} /\ c.new.head <= c.read.head
    \/ c.kind = "apply" /\ c.new.head < c.read.head

\* update_head and set_head refuse a protected branch; commits do not look.
Refused(c) == c.kind \in {"tree", "reset"} /\ c.read.settings.protected

\* Otherwise the whole record is written: the one that was read with one field
\* changed, or the peer's.
Written(c) ==
    CASE c.kind \in {"commit", "tree", "reset"} -> [c.read EXCEPT !.head = c.new.head]
      [] c.kind = "edit"  -> [c.read EXCEPT !.settings = c.new.settings]
      [] c.kind = "apply" -> c.new

Store(c) == IF Refused(c) \/ Skips(c) THEN record ELSE Written(c)

\* What HEAD need not cover after the request: less the nodes of a tree operation
\* that ends well, and with those a reset goes below.
Loose(c) ==
    CASE c.kind = "tree" /\ ~Refused(c)  -> loose \ {c.new.head}
      [] c.kind = "reset" /\ ~Refused(c) -> loose \cup {r \in nodes : r > c.new.head}
      [] OTHER -> loose

\* The batch is written, and then the lock is dropped.  The nodes of a commit
\* are in the batch; those of a peer come in operations of their own.  A request
\* that is refused ends with an error.
Write(w) ==
    LET c == writer[w]
    IN  /\ c.at = "checked"
        /\ record' = Store(c)
        /\ nodes' = IF c.kind = "commit" THEN nodes \cup {c.new.head} ELSE nodes
        /\ loose' = Loose(c)
        /\ locked' = IF locked = w THEN NoWriter ELSE locked
        /\ writer' = [writer EXCEPT ![w] = Idle]
        /\ UNCHANGED <<replicated, revision, edits>>

\* Mutant of Abort: the guard is not dropped.
AbortLocked(w) ==
    /\ writer[w] # Idle
    /\ writer' = [writer EXCEPT ![w] = Idle]
    /\ UNCHANGED <<replicated, record, locked, revision, edits, stored>>

\* The request fails, or its future is dropped: the guard goes with it.
Abort(w) ==
    /\ writer[w] # Idle
    /\ writer' = [writer EXCEPT ![w] = Idle]
    /\ locked' = IF locked = w THEN NoWriter ELSE locked
    /\ UNCHANGED <<replicated, record, revision, edits, stored>>

\* The server stops and starts again.
Restart ==
    /\ writer' = [w \in Writer |-> Idle]
    /\ locked' = NoWriter
    /\ UNCHANGED <<replicated, record, revision, edits, stored>>

Step(w) == StoreNodes(w) \/ Lock(w) \/ Read(w) \/ Write(w)

Next ==
    \/ \E w \in Writer, kind \in Kind : BeginCommit(w, kind)
    \/ \E w \in Writer, protected \in BOOLEAN : BeginEdit(w, protected)
    \/ \E w \in Writer, head \in ResetTo : BeginReset(w, head)
    \/ \E w \in Writer, new \in Received : BeginApply(w, new)
    \/ \E w \in Writer : Step(w) \/ Abort(w)
    \/ Restart

Spec == Init /\ [][Next]_vars

\* A request that has begun goes on; the lock is a fair queue.
Fairness ==
    \A w \in Writer :
        WF_vars(StoreNodes(w)) /\ WF_vars(Read(w)) /\ WF_vars(Write(w)) /\ SF_vars(Lock(w))

FairSpec == Spec /\ Fairness

-----------------------------------------------------------------------------
(* Properties. *)

\* "A racing earlier commit must never move the head back below an
\* already-visible later revision" (write_batch_with_head_as), "deliberate
\* rollbacks use set_head()" (update_head): HEAD goes back by a reset only, to
\* the revision it was given and with the settings of the moment, however the
\* requests that read the same HEAD interleave.
HeadNeverRegresses ==
    [][~replicated /\ record'.head < record.head =>
           \E w \in Writer :
               /\ writer[w].kind = "reset" /\ writer'[w] = Idle
               /\ record' = [record EXCEPT !.head = writer[w].new.head]]_vars

\* No node of a request that ended well is hidden "ABOVE HEAD"
\* (branches/head.rs): it can be read at HEAD at every later moment, crashes
\* included, until a reset goes below it.
NothingAboveHead == \A r \in nodes \ loose : r <= record.head

\* On a server no peer replicates to, that is so: the lock is taken by every
\* writer of the record.
LocalNothingAboveHead == ~replicated => NothingAboveHead

\* "The whole record is written back, HEAD included" (set_protected): still a
\* setting changes by the edit of that setting only, and the edit changes
\* nothing else; no commit brings back the settings it had read.
EditsKept ==
    [][~replicated /\ record'.settings # record.settings =>
           \E w \in Writer :
               /\ writer[w].kind = "edit" /\ writer'[w] = Idle
               /\ record' = [record EXCEPT !.settings = writer[w].new.settings]]_vars

\* Every request ends and frees the lock: one that is dropped anywhere leaves
\* nobody waiting.
RequestsEnd == \A w \in Writer : writer[w] # Idle ~> writer[w] = Idle

=============================================================================
