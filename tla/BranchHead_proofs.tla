------------------------- MODULE BranchHead_proofs -------------------------
(***************************************************************************)
(* Proofs about BranchHead, for any number of concurrent requests,         *)
(* revisions and edits, on a server no peer replicates to: HEAD goes back  *)
(* by a reset only, no node of a request that ended well is above it, and  *)
(* no request undoes an edit.                                              *)
(* The argument is the lock's: what a request has read under it is still   *)
(* the record when the request writes.  With replication it fails, as a    *)
(* run shows, because apply_update_branch takes no lock.                   *)
(***************************************************************************)
EXTENDS BranchHead, TLAPS

\* The requests that take the lock.
LocalKind == {"commit", "tree", "edit", "reset"}

\* Who has passed the lock holds it, and has read the record of the moment.
LockInv ==
    \A w \in Writer :
        /\ writer[w].at # "idle" => writer[w].kind \in LocalKind
        /\ writer[w].at \in {"locked", "checked"} => locked = w
        /\ writer[w].at = "checked" => writer[w].read = record

\* A request in progress is of one of the kinds.
KindInv == \A w \in Writer : writer[w].at # "idle" => writer[w].kind # "none"

IInv == TypeOK /\ KindInv /\ (~replicated => LockInv /\ NothingAboveHead)

Request == [at : {"idle", "begun", "stored", "locked", "checked"},
            kind : Kind \cup {"none"},
            new : Branch, read : Branch]

\* The initial states satisfy the invariant.
LEMMA InitInv == Init => IInv
<1> SUFFICES ASSUME Init PROVE IInv
  OBVIOUS
<1>1. TypeOK
  BY BranchHeadAssumption DEF Init, TypeOK, Branch, Settings, Idle, Blank, Plain
<1>2. KindInv /\ LockInv /\ NothingAboveHead
  BY DEF Init, KindInv, LockInv, NothingAboveHead, Idle
<1> QED BY <1>1, <1>2 DEF IInv

\* The invariant survives a change of one request that leaves the store alone
\* and takes the lock only when it is free.
LEMMA RequestInv ==
    ASSUME IInv, NEW w \in Writer, NEW c \in Request,
           replicated' = replicated,
           writer' = [writer EXCEPT ![w] = c],
           revision' \in 0 .. MaxRevision, edits' \in 0 .. MaxEdits,
           record' = record, nodes' \subseteq 0 .. MaxRevision, loose' \subseteq 0 .. MaxRevision,
           nodes' \ loose' \subseteq nodes \ loose,
           c.at # "idle" => c.kind # "none",
           \/ locked' = locked
           \/ locked = NoWriter /\ locked' = w
           \/ locked = w /\ locked' = NoWriter,
           ~replicated =>
               /\ c.at # "idle" => c.kind \in LocalKind
               /\ c.at \in {"locked", "checked"} => locked' = w
               /\ c.at = "checked" => c.read = record
    PROVE  IInv'
<1>1. TypeOK'
  BY DEF IInv, TypeOK, Request
<1>2. ASSUME ~replicated PROVE LockInv'
  <2> SUFFICES ASSUME NEW u \in Writer
               PROVE  /\ writer'[u].at # "idle" => writer'[u].kind \in LocalKind
                      /\ writer'[u].at \in {"locked", "checked"} => locked' = u
                      /\ writer'[u].at = "checked" => writer'[u].read = record'
    BY DEF LockInv
  <2>1. CASE u = w
    BY <1>2, <2>1 DEF IInv, TypeOK
  <2>2. CASE u # w
    BY <1>2, <2>2, BranchHeadAssumption DEF IInv, TypeOK, LockInv
  <2> QED BY <2>1, <2>2
<1>3. ASSUME ~replicated PROVE NothingAboveHead'
  BY <1>3 DEF IInv, NothingAboveHead
<1>4. KindInv'
  BY DEF IInv, TypeOK, KindInv
<1> QED BY <1>1, <1>2, <1>3, <1>4 DEF IInv

\* The idle request is a request.
LEMMA IdleRequest == Idle \in Request /\ Idle.at = "idle"
BY BranchHeadAssumption DEF Idle, Request, Branch, Settings, Blank, Plain

\* So is one that begins.
LEMMA BegunRequest ==
    ASSUME NEW kind \in Kind, NEW new \in Branch
    PROVE  /\ Begun(kind, new) \in Request
           /\ Begun(kind, new).at = "begun" /\ Begun(kind, new).kind = kind
BY IdleRequest DEF Begun, Request, Idle, Kind

\* A request begins.
LEMMA BeginInv ==
    ASSUME IInv, NEW w \in Writer, NEW kind \in Kind, NEW new \in Branch,
           replicated \/ kind \in LocalKind,
           writer' = [writer EXCEPT ![w] = Begun(kind, new)],
           revision' \in 0 .. MaxRevision, edits' \in 0 .. MaxEdits,
           UNCHANGED <<replicated, record, locked, nodes, loose>>
    PROVE  IInv'
<1> DEFINE c == Begun(kind, new)
<1>1. c \in Request /\ c.at = "begun" /\ c.kind = kind /\ kind # "none"
  BY BegunRequest DEF Kind
<1>2. nodes' \subseteq 0 .. MaxRevision /\ loose' \subseteq 0 .. MaxRevision
  BY DEF IInv, TypeOK
<1> HIDE DEF c
<1> QED BY <1>1, <1>2, RequestInv DEF c

\* What a request that has read the record of the moment stores: a record that
\* differs in the field of the request, and with a smaller HEAD only if the
\* request is a reset.
LEMMA StoreFacts ==
    ASSUME TypeOK, NEW c \in Request, c.kind \in LocalKind, c.read = record
    PROVE  /\ Store(c) \in Branch
           /\ c.kind = "edit" => Store(c) = [record EXCEPT !.settings = c.new.settings]
           /\ c.kind # "edit" => Store(c) \in {record, [record EXCEPT !.head = c.new.head]}
           /\ c.kind # "reset" => Store(c).head >= record.head
           /\ c.kind = "commit" => Store(c).head >= c.new.head
           /\ c.kind = "tree" /\ ~Refused(c) => Store(c).head >= c.new.head
           /\ c.kind = "reset" /\ Refused(c) => Store(c) = record
           /\ c.kind = "reset" /\ ~Refused(c) => Store(c).head = c.new.head
<1> USE DEF Request, Branch, LocalKind
<1>0. /\ record \in Branch /\ record.head \in Nat /\ c.new \in Branch /\ c.new.head \in Nat
  BY BranchHeadAssumption DEF TypeOK
<1>1. CASE c.kind \in {"commit", "tree"}
  <2>1. Written(c) = [record EXCEPT !.head = c.new.head]
    BY <1>1 DEF Written
  <2>2. Skips(c) <=> c.new.head <= record.head
    BY <1>1 DEF Skips
  <2>3. c.kind = "commit" => ~Refused(c)
    BY DEF Refused
  <2>4. Store(c) = IF Refused(c) \/ c.new.head <= record.head THEN record
                   ELSE [record EXCEPT !.head = c.new.head]
    BY <2>1, <2>2 DEF Store
  <2> QED BY <1>0, <1>1, <2>3, <2>4
<1>2. CASE c.kind = "edit"
  <2>1. Store(c) = [record EXCEPT !.settings = c.new.settings]
    BY <1>2 DEF Store, Skips, Refused, Written
  <2> QED BY <1>0, <1>2, <2>1
<1>3. CASE c.kind = "reset"
  <2>1. Store(c) = IF Refused(c) THEN record ELSE [record EXCEPT !.head = c.new.head]
    BY <1>3 DEF Store, Skips, Written
  <2> QED BY <1>0, <1>3, <2>1
<1> QED BY <1>1, <1>2, <1>3

\* The type of what any request writes.
LEMMA StoreType ==
    ASSUME TypeOK, NEW c \in Request, c.at = "checked",
           c.kind \in Kind
    PROVE  Store(c) \in Branch
<1>1. Written(c) \in Branch
  <2>1. CASE c.kind \in {"commit", "tree", "reset"}
    <3>1. Written(c) = [c.read EXCEPT !.head = c.new.head]
      BY <2>1 DEF Written
    <3> QED BY <3>1 DEF Request, Branch
  <2>2. CASE c.kind = "edit"
    <3>1. Written(c) = [c.read EXCEPT !.settings = c.new.settings]
      BY <2>2 DEF Written
    <3> QED BY <3>1 DEF Request, Branch
  <2>3. CASE c.kind = "apply"
    BY <2>3 DEF Written, Request
  <2> QED BY <2>1, <2>2, <2>3 DEF Kind
<1> QED BY <1>1 DEF Store, TypeOK

\* The write: what was read under the lock is still the record.
LEMMA WriteInv ==
    ASSUME IInv, NEW w \in Writer, Write(w)
    PROVE  /\ IInv'
           /\ ~replicated /\ record'.head < record.head =>
                  /\ writer[w].kind = "reset" /\ writer'[w] = Idle
                  /\ record' = [record EXCEPT !.head = writer[w].new.head]
           /\ ~replicated /\ record'.settings # record.settings =>
                  /\ writer[w].kind = "edit" /\ writer'[w] = Idle
                  /\ record' = [record EXCEPT !.settings = writer[w].new.settings]
<1> DEFINE c == writer[w]
<1>1. /\ c \in Request /\ c.at = "checked"
      /\ c.kind \in Kind
  BY DEF IInv, TypeOK, Write, KindInv, Request
<1>2. /\ record' = Store(c)
      /\ nodes' = IF c.kind = "commit" THEN nodes \cup {c.new.head} ELSE nodes
      /\ loose' = Loose(c)
      /\ locked' = IF locked = w THEN NoWriter ELSE locked
      /\ writer' = [writer EXCEPT ![w] = Idle]
      /\ revision' = revision /\ edits' = edits /\ replicated' = replicated
  BY DEF Write
<1>3. TypeOK'
  <2>1. Store(c) \in Branch
    BY <1>1, StoreType DEF IInv
  <2>2. c.new.head \in 0 .. MaxRevision
    BY <1>1 DEF Request, Branch
  <2>3. writer' \in [Writer -> Request]
    BY <1>2, IdleRequest DEF IInv, TypeOK, Request
  <2>4. loose' \subseteq 0 .. MaxRevision
    BY <1>2 DEF Loose, IInv, TypeOK
  <2> QED BY <1>2, <2>1, <2>2, <2>3, <2>4 DEF IInv, TypeOK, Request
<1>4. KindInv'
  BY <1>2, IdleRequest DEF IInv, TypeOK, KindInv
<1>5. ASSUME ~replicated PROVE /\ c.read = record /\ locked = w
                               /\ c.kind \in LocalKind
                               /\ record' = Store(c)
  BY <1>1, <1>2, <1>5 DEF IInv, LockInv
<1>6. ASSUME ~replicated PROVE LockInv'
  <2>1. ASSUME NEW u \in Writer, u # w PROVE writer'[u].at \notin {"locked", "checked"}
    BY <1>2, <1>5, <1>6, <2>1 DEF IInv, TypeOK, LockInv
  <2>2. ASSUME NEW u \in Writer, u # w, writer'[u].at # "idle"
        PROVE  writer'[u].kind \in LocalKind
    BY <1>2, <1>6, <2>2 DEF IInv, TypeOK, LockInv
  <2>3. writer'[w].at = "idle"
    BY <1>2, IdleRequest DEF IInv, TypeOK
  <2> QED BY <2>1, <2>2, <2>3 DEF LockInv
<1>7. ASSUME ~replicated PROVE NothingAboveHead'
  <2> SUFFICES ASSUME NEW r \in nodes', r \notin loose'
               PROVE  r <= record'.head
    BY DEF NothingAboveHead
  <2>1. /\ c.kind # "reset" => record'.head >= record.head
        /\ c.kind = "commit" => record'.head >= c.new.head
        /\ c.kind = "tree" /\ ~Refused(c) => record'.head >= c.new.head
        /\ c.kind = "reset" /\ Refused(c) => record' = record
        /\ c.kind = "reset" /\ ~Refused(c) => record'.head = c.new.head
    BY <1>1, <1>5, <1>7, StoreFacts DEF IInv
  <2>2. /\ record.head \in Int /\ record'.head \in Int /\ c.new.head \in Int /\ r \in Int
    BY <1>1, <1>3 DEF IInv, TypeOK, Request, Branch
  <2>3. \A q \in nodes \ loose : q <= record.head
    BY <1>7 DEF IInv, NothingAboveHead
  <2>4. CASE c.kind = "commit"
    <3>1. loose' = loose /\ nodes' = nodes \cup {c.new.head}
      BY <1>2, <2>4 DEF Loose
    <3> QED BY <2>1, <2>2, <2>3, <2>4, <3>1
  <2>5. CASE c.kind = "tree" /\ ~Refused(c)
    <3>1. loose' = loose \ {c.new.head} /\ nodes' = nodes
      BY <1>2, <2>5 DEF Loose
    <3> QED BY <2>1, <2>2, <2>3, <2>5, <3>1
  <2>6. CASE c.kind = "reset" /\ ~Refused(c)
    <3>1. loose' = loose \cup {q \in nodes : q > c.new.head} /\ nodes' = nodes
      BY <1>2, <2>6 DEF Loose
    <3> QED BY <2>1, <2>2, <2>6, <3>1
  <2>7. CASE c.kind = "edit" \/ (c.kind \in {"tree", "reset"} /\ Refused(c))
    <3>1. loose' = loose /\ nodes' = nodes
      BY <1>2, <2>7 DEF Loose
    <3> QED BY <2>1, <2>2, <2>3, <2>7, <3>1
  <2>8. c.kind \in {"commit", "tree", "edit", "reset"}
    BY <1>5, <1>7 DEF LocalKind
  <2> QED BY <2>4, <2>5, <2>6, <2>7, <2>8 DEF Refused
<1>8. ASSUME ~replicated, record'.settings # record.settings
      PROVE  /\ writer[w].kind = "edit" /\ writer'[w] = Idle
             /\ record' = [record EXCEPT !.settings = writer[w].new.settings]
  <2>1. /\ record \in Branch
        /\ c.kind = "edit" => record' = [record EXCEPT !.settings = c.new.settings]
        /\ c.kind # "edit" => record' \in {record, [record EXCEPT !.head = c.new.head]}
    BY <1>1, <1>5, <1>8, StoreFacts DEF IInv, TypeOK
  <2>2. c.kind = "edit"
    BY <1>8, <2>1 DEF Branch
  <2> QED BY <1>2, <2>1, <2>2 DEF IInv, TypeOK
<1>9. ASSUME ~replicated, record'.head < record.head
      PROVE  /\ writer[w].kind = "reset" /\ writer'[w] = Idle
             /\ record' = [record EXCEPT !.head = writer[w].new.head]
  <2>1. /\ c.kind # "reset" => record'.head >= record.head
        /\ c.kind # "edit" => record' \in {record, [record EXCEPT !.head = c.new.head]}
    BY <1>1, <1>5, <1>9, StoreFacts DEF IInv
  <2>2. record.head \in Int /\ record'.head \in Int
    BY <1>3 DEF IInv, TypeOK, Branch
  <2>3. c.kind = "reset" /\ record' # record
    BY <1>9, <2>1, <2>2
  <2> QED BY <1>2, <2>1, <2>3 DEF IInv, TypeOK
<1> QED BY <1>2, <1>3, <1>4, <1>6, <1>7, <1>8, <1>9 DEF IInv

\* Requests begin, wait, read and are given up.
LEMMA OtherInv ==
    ASSUME IInv, NEW w \in Writer,
           \/ \E kind \in Kind : BeginCommit(w, kind)
           \/ \E protected \in BOOLEAN : BeginEdit(w, protected)
           \/ \E head \in ResetTo : BeginReset(w, head)
           \/ \E new \in Received : BeginApply(w, new)
           \/ StoreNodes(w) \/ Lock(w) \/ Read(w) \/ Abort(w)
    PROVE  IInv'
<1>0. Blank \in Branch /\ Received \subseteq Branch /\ ResetTo \subseteq 0 .. MaxRevision
  BY BranchHeadAssumption DEF Blank, Plain, Branch, Settings
<1>1. ASSUME NEW kind \in Kind, BeginCommit(w, kind) PROVE IInv'
  <2> DEFINE new == [Blank EXCEPT !.head = revision + 1]
  <2>1. new \in Branch /\ revision' \in 0 .. MaxRevision
    BY <1>0, <1>1, BranchHeadAssumption DEF BeginCommit, IInv, TypeOK, Branch
  <2>2. writer' = [writer EXCEPT ![w] = Begun(kind, new)] /\ kind \in LocalKind /\ kind # "none"
    BY <1>1 DEF BeginCommit, LocalKind
  <2> HIDE DEF new
  <2> QED BY <1>1, <2>1, <2>2, BeginInv DEF BeginCommit, IInv, TypeOK, stored
<1>2. ASSUME NEW protected \in BOOLEAN, BeginEdit(w, protected) PROVE IInv'
  <2> DEFINE new == [Blank EXCEPT !.settings = [version |-> edits + 1, protected |-> protected]]
  <2>1. new \in Branch /\ edits' \in 0 .. MaxEdits
    BY <1>0, <1>2, BranchHeadAssumption DEF BeginEdit, IInv, TypeOK, Branch, Settings
  <2>2. writer' = [writer EXCEPT ![w] = Begun("edit", new)]
    BY <1>2 DEF BeginEdit
  <2> HIDE DEF new
  <2> QED BY <1>2, <2>1, <2>2, BeginInv DEF BeginEdit, IInv, TypeOK, stored, Kind, LocalKind
<1>7. ASSUME NEW head \in ResetTo, BeginReset(w, head) PROVE IInv'
  <2> DEFINE new == [Blank EXCEPT !.head = head]
  <2>1. new \in Branch
    BY <1>0 DEF Branch
  <2>2. writer' = [writer EXCEPT ![w] = Begun("reset", new)]
    BY <1>7 DEF BeginReset
  <2> HIDE DEF new
  <2> QED BY <1>7, <2>1, <2>2, BeginInv DEF BeginReset, IInv, TypeOK, stored, Kind, LocalKind
<1>8. CASE StoreNodes(w)
  <2> DEFINE c == [writer[w] EXCEPT !.at = "stored"]
  <2>1. /\ c \in Request /\ c.at = "stored" /\ c.kind = "tree" /\ c.kind # "none"
        /\ writer[w].new.head \in 0 .. MaxRevision
    BY <1>8 DEF StoreNodes, IInv, TypeOK, Request, Branch
  <2>2. writer' = [writer EXCEPT ![w] = c]
    BY <1>8 DEF StoreNodes, IInv, TypeOK
  <2>3. /\ nodes' \subseteq 0 .. MaxRevision /\ loose' \subseteq 0 .. MaxRevision
        /\ nodes' \ loose' \subseteq nodes \ loose
    BY <1>8, <2>1 DEF StoreNodes, IInv, TypeOK
  <2> HIDE DEF c
  <2> QED BY <1>8, <2>1, <2>2, <2>3, RequestInv DEF StoreNodes, IInv, TypeOK, LocalKind
<1>3. CASE Lock(w)
  <2> DEFINE c == [writer[w] EXCEPT !.at = "locked"]
  <2>1. /\ c \in Request /\ c.at = "locked"
        /\ c.kind = writer[w].kind /\ c.kind # "none"
        /\ ~replicated => c.kind \in LocalKind
    BY <1>3 DEF Lock, BeforeLock, IInv, TypeOK, Request, KindInv, LockInv
  <2>2. writer' = [writer EXCEPT ![w] = c]
    BY <1>3 DEF Lock, IInv, TypeOK
  <2> HIDE DEF c
  <2> QED BY <1>3, <2>1, <2>2, RequestInv DEF Lock, IInv, TypeOK, stored
<1>4. CASE Read(w)
  <2> DEFINE c == [writer[w] EXCEPT !.at = "checked", !.read = record]
  <2>1. /\ c \in Request /\ c.at = "checked" /\ c.read = record
        /\ c.kind = writer[w].kind /\ c.kind # "none"
    BY <1>4 DEF Read, IInv, TypeOK, Request, KindInv
  <2>2. ~replicated => c.kind \in LocalKind /\ locked = w
    BY <1>4, <2>1 DEF Read, IInv, LockInv, LocalKind
  <2>3. writer' = [writer EXCEPT ![w] = c]
    BY <1>4 DEF Read, IInv, TypeOK
  <2> HIDE DEF c
  <2> QED BY <1>4, <2>1, <2>2, <2>3, RequestInv DEF Read, IInv, TypeOK, stored
<1>5. CASE Abort(w)
  BY <1>5, IdleRequest, RequestInv DEF Abort, IInv, TypeOK, stored
<1>6. ASSUME NEW new \in Received, BeginApply(w, new) PROVE IInv'
  <2>1. revision' \in 0 .. MaxRevision /\ new \in Branch
    BY <1>0, <1>6, BranchHeadAssumption DEF BeginApply, IInv, TypeOK, Branch
  <2> QED BY <1>6, <2>1, BeginInv DEF BeginApply, IInv, TypeOK, stored, Kind
<1> QED BY <1>1, <1>2, <1>3, <1>4, <1>5, <1>6, <1>7, <1>8

\* A restart leaves the store alone.
LEMMA RestartInv ==
    ASSUME IInv, Restart
    PROVE  IInv'
<1>1. TypeOK'
  BY IdleRequest DEF Restart, IInv, TypeOK, Request, stored
<1>2. KindInv' /\ LockInv'
  BY IdleRequest DEF Restart, KindInv, LockInv
<1>3. ~replicated => NothingAboveHead'
  BY DEF Restart, IInv, NothingAboveHead, stored
<1> QED BY <1>1, <1>2, <1>3 DEF IInv, Restart

\* Every step preserves the invariant.
LEMMA StepInv == IInv /\ [Next]_vars => IInv'
<1> SUFFICES ASSUME IInv, [Next]_vars PROVE IInv'
  OBVIOUS
<1>1. CASE UNCHANGED vars
  BY <1>1 DEF vars, stored, IInv, TypeOK, KindInv, LockInv, NothingAboveHead
<1>2. CASE Restart
  BY <1>2, RestartInv
<1>3. ASSUME NEW w \in Writer,
             \/ \E kind \in Kind : BeginCommit(w, kind)
             \/ \E protected \in BOOLEAN : BeginEdit(w, protected)
             \/ \E head \in ResetTo : BeginReset(w, head)
             \/ \E new \in Received : BeginApply(w, new)
             \/ Step(w) \/ Abort(w)
      PROVE  IInv'
  BY <1>3, WriteInv, OtherInv DEF Step
<1> QED BY <1>1, <1>2, <1>3 DEF Next

\* The invariant holds in every reachable state.
THEOREM Invariance == Spec => []IInv
BY InitInv, StepInv, PTL DEF Spec

\* Every variable keeps its type, with or without replication.
THEOREM TypeCorrect == Spec => []TypeOK
<1>1. IInv => TypeOK
  BY DEF IInv
<1> QED BY <1>1, Invariance, PTL

\* Without replication no node of a request that ended well is above HEAD, unless
\* a reset went below it.
THEOREM LocalNothingAboveHeadHolds == Spec => []LocalNothingAboveHead
<1>1. IInv => LocalNothingAboveHead
  BY DEF IInv, LocalNothingAboveHead
<1> QED BY <1>1, Invariance, PTL

\* A step that is not a write leaves the record alone.
LEMMA RecordKept ==
    ASSUME [Next]_vars, ~\E w \in Writer : Write(w)
    PROVE  record' = record
BY DEF Next, Step, BeginCommit, BeginEdit, BeginReset, BeginApply, StoreNodes, Lock, Read,
       Abort, Restart, vars

\* Without replication HEAD goes back by a reset only.
THEOREM HeadNeverRegressesHolds == Spec => HeadNeverRegresses
<1>1. ASSUME IInv, [Next]_vars
      PROVE  [~replicated /\ record'.head < record.head =>
                  \E w \in Writer :
                      /\ writer[w].kind = "reset" /\ writer'[w] = Idle
                      /\ record' = [record EXCEPT !.head = writer[w].new.head]]_vars
  <2>1. CASE \E w \in Writer : Write(w)
    BY <1>1, <2>1, WriteInv
  <2>2. CASE ~\E w \in Writer : Write(w)
    BY <1>1, <2>2, RecordKept DEF IInv, TypeOK, Branch
  <2> QED BY <2>1, <2>2
<1> QED BY <1>1, Invariance, PTL DEF Spec, HeadNeverRegresses

\* Without replication a setting is changed by its edit only.
THEOREM EditsKeptHolds == Spec => EditsKept
<1>1. ASSUME IInv, [Next]_vars
      PROVE  [~replicated /\ record'.settings # record.settings =>
                  \E w \in Writer :
                      /\ writer[w].kind = "edit" /\ writer'[w] = Idle
                      /\ record' = [record EXCEPT !.settings = writer[w].new.settings]]_vars
  <2>1. CASE \E w \in Writer : Write(w)
    BY <1>1, <2>1, WriteInv
  <2>2. CASE ~\E w \in Writer : Write(w)
    BY <1>1, <2>2, RecordKept
  <2> QED BY <2>1, <2>2
<1> QED BY <1>1, Invariance, PTL DEF Spec, EditsKept

=============================================================================
