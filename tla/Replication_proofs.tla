------------------------- MODULE Replication_proofs -------------------------
(***************************************************************************)
(* Proofs about Replication: what its run checks on two servers holds for  *)
(* any finite set of servers, any number of operations, tasks and faults,  *)
(* any batch size and any clock readings; and its logs implement           *)
(* ReplicatedLog.                                                          *)
(***************************************************************************)
EXTENDS Replication, TLAPS, FiniteSetTheorems, WellFoundedInduction

-----------------------------------------------------------------------------
(* The inductive invariant.  `log` stands for the logs of all servers, `mine` *)
(* for that of the server at hand.                                         *)

\* Finitely many operations, each in the log of the server that captured it.
Kept(log, ops) == IsFiniteSet(ops) /\ \A op \in ops : op \in log[op.node]

\* Every entry of the clock is the number of an operation in the log.
Counts(mine, vc) ==
    \A m \in Node :
        vc[m] > 0 => \E op \in mine : op.node = m /\ Counter(op) = vc[m]

\* What server n captured and still knows: the repo clock, at `top`, has counted
\* it, and no number is used twice.
Own(n, mine, captures) == {op \in mine : op.node = n} \cup {c.op : c \in captures}

NumbersOK(n, mine, captures, top) ==
    /\ \A op \in Own(n, mine, captures) : Counter(op) \in 1 .. top
    /\ \A a, b \in Own(n, mine, captures) : Counter(a) = Counter(b) => a = b

\* A capture counts an operation of its server that is in the log.
CaptureOK(n, mine, c) ==
    /\ c.op.node = n
    /\ c.at # "put" => c.op \in mine
    /\ c.at = "write" => Counts(mine, c.vc)

\* A put counts and applies what it has appended.
Appended == {"count", "write", "apply", "store", "recount", "rewrite"}

TaskOK(log, mine, t) ==
    /\ Kept(log, t.ops) /\ Kept(log, t.out)
    /\ t.at \in {"seed", "deliver", "log", "count", "write", "apply", "store"} => t.ops # {}
    /\ t.at \in Appended => t.ops \subseteq mine /\ t.out \subseteq mine
    /\ t.at \in {"write", "rewrite", "rebuild"} => Counts(mine, t.vc)
    /\ t.at = "store" => t.doing \in mine

ServerOK(n) ==
    /\ NumbersOK(n, oplog[n], capture[n], clock[n][n])
    /\ Kept(oplog, oplog[n])
    /\ Counts(oplog[n], snapshot[n])
    /\ Kept(oplog, buffer[n].held)
    /\ \A c \in capture[n] : CaptureOK(n, oplog[n], c)
    /\ \A k \in Slot : TaskOK(oplog, oplog[n], task[<<n, k>>])

PushesOK == \A m \in pushes : m[1] \in oplog[m[1].node]

IInv == TypeOK /\ PushesOK /\ \A n \in Node : ServerOK(n)

-----------------------------------------------------------------------------
(* Naturals, finite sets and maxima. *)

\* A nonempty set of naturals has a least element.
LEMMA NatLeast ==
    ASSUME NEW T \in SUBSET Nat, T # {}
    PROVE  \E x \in T : \A y \in T : x <= y
<1> DEFINE R == {ss \in Nat \X Nat : ss[1] < ss[2]}
<1>1. IsWellFoundedOn(R, Nat)
    BY NatLessThanWellFounded DEF OpToRel
<1>2. \E x \in T : \A y \in T : ~(<<y, x>> \in R)
    <2> HIDE DEF R
    <2> QED BY <1>1, WFMin
<1>3. PICK x \in T : \A y \in T : ~(<<y, x>> \in R)
    BY <1>2
<1>4. \A y \in T : x <= y
    <2> SUFFICES ASSUME NEW y \in T, ~(x <= y)
                 PROVE  FALSE
        OBVIOUS
    <2>1. y \in Nat /\ x \in Nat /\ y < x
        OBVIOUS
    <2>2. <<y, x>> \in R
        BY <2>1
    <2> QED BY <1>3, <2>2
<1> QED BY <1>4

\* A set that holds 0 and the successor of each of its members holds every
\* natural.
LEMMA Induct ==
    ASSUME NEW S, 0 \in S, \A i \in Nat : i \in S => i + 1 \in S
    PROVE  \A i \in Nat : i \in S
<1> DEFINE T == {i \in Nat : i \notin S}
<1>1. SUFFICES ASSUME T # {}
               PROVE  FALSE
    OBVIOUS
<1>2. T \in SUBSET Nat
    OBVIOUS
<1>3. PICK x \in T : \A y \in T : x <= y
    <2> HIDE DEF T
    <2> QED BY <1>1, <1>2, NatLeast
<1>4. x \in Nat /\ x \notin S /\ x # 0
    OBVIOUS
<1>5. x - 1 \in Nat /\ x - 1 \notin T
    BY <1>3, <1>4
<1>6. (x - 1) + 1 \in S
    BY <1>5
<1> QED BY <1>4, <1>6

\* A nonempty finite set of naturals has a greatest element.
LEMMA Greatest ==
    ASSUME NEW S \in SUBSET Nat, IsFiniteSet(S), S # {}
    PROVE  \E x \in S : \A y \in S : x >= y
<1> DEFINE P(T) == T \in SUBSET Nat /\ IsFiniteSet(T) /\ T # {} =>
                       \E x \in T : \A y \in T : x >= y
           I == {i \in Nat : \A T \in SUBSET S : IsFiniteSet(T) /\ Cardinality(T) = i => P(T)}
<1>1. 0 \in I
    BY FS_EmptySet
<1>2. ASSUME NEW i \in Nat, i \in I
      PROVE  i + 1 \in I
    <2> SUFFICES ASSUME NEW T \in SUBSET S, IsFiniteSet(T), Cardinality(T) = i + 1, T # {}
                 PROVE  \E x \in T : \A y \in T : x >= y
        OBVIOUS
    <2>1. PICK z \in T : TRUE
        OBVIOUS
    <2>2. /\ IsFiniteSet(T \ {z}) /\ Cardinality(T \ {z}) = i
          /\ T \ {z} \in SUBSET S /\ T \ {z} \in SUBSET Nat
        <3>1. IsFiniteSet(T \ {z}) /\ Cardinality(T \ {z}) = Cardinality(T) - 1
            BY <2>1, FS_RemoveElement
        <3> QED BY <3>1
    <2>3. P(T \ {z})
        BY <1>2, <2>2
    <2>4. CASE T \ {z} = {}
        BY <2>1, <2>4
    <2>5. CASE T \ {z} # {}
        <3>1. PICK x \in T \ {z} : \A y \in T \ {z} : x >= y
            BY <2>2, <2>3, <2>5
        <3>2. x \in Nat /\ z \in Nat
            OBVIOUS
        <3>3. CASE x >= z
            BY <3>1, <3>3
        <3>4. CASE z > x
            <4>1. \A y \in T : z >= y
                BY <3>1, <3>2, <3>4
            <4> QED BY <2>1, <4>1
        <3> QED BY <3>2, <3>3, <3>4
    <2> QED BY <2>4, <2>5
<1>3. \A i \in Nat : i \in I
    <2> HIDE DEF I
    <2> QED BY <1>1, <1>2, Induct
<1>4. Cardinality(S) \in Nat /\ Cardinality(S) \in I
    BY <1>3, FS_CardinalityType
<1> QED BY <1>4

LEMMA MaxOf ==
    ASSUME NEW S \in SUBSET Nat, IsFiniteSet(S), S # {}
    PROVE  Max(S) \in S /\ Max(S) \in Nat /\ \A y \in S : y <= Max(S)
<1>1. \E x \in S : \A y \in S : x >= y
    BY Greatest
<1>2. Max(S) \in S /\ \A y \in S : Max(S) >= y
    BY <1>1 DEF Max
<1> QED BY <1>2

\* The image of a finite set is finite.
LEMMA FiniteImage ==
    ASSUME NEW S, IsFiniteSet(S), NEW f, f = [x \in S |-> f[x]]
    PROVE  IsFiniteSet({f[x] : x \in S})
<1> DEFINE T == {f[x] : x \in S}
<1>1. f \in [S -> T]
    OBVIOUS
<1>2. \A y \in T : \E x \in S : f[x] = y
    OBVIOUS
<1>3. f \in Surjection(S, T)
    BY <1>1, <1>2 DEF Surjection
<1> QED BY <1>3, FS_Surjection

-----------------------------------------------------------------------------
(* The rounds of check_buffered_ops. *)

\* f is the sequence of the first N rounds from b.
IsRounds(f, b, N) == f = [i \in 0 .. N |-> IF i = 0 THEN b ELSE Round(f[i - 1])]

\* The rounds are defined by recursion ...
LEMMA RoundsExist ==
    ASSUME NEW b, NEW N \in Nat
    PROVE  \E f : IsRounds(f, b, N)
<1> DEFINE I == {j \in Nat : \E f : IsRounds(f, b, j)}
<1>1. 0 \in I
    <2>1. IsRounds([i \in 0 .. 0 |-> b], b, 0)
        BY DEF IsRounds
    <2> QED BY <2>1
<1>2. ASSUME NEW j \in Nat, j \in I
      PROVE  j + 1 \in I
    <2>1. PICK f : IsRounds(f, b, j)
        BY <1>2
    <2> DEFINE g == [i \in 0 .. j + 1 |-> IF i = j + 1 THEN Round(f[j]) ELSE f[i]]
    <2>2. \A i \in 0 .. j : f[i] = IF i = 0 THEN b ELSE Round(f[i - 1])
        BY <2>1 DEF IsRounds
    <2>3. ASSUME NEW i \in 0 .. j + 1
          PROVE  g[i] = IF i = 0 THEN b ELSE Round(g[i - 1])
        <3>1. CASE i = j + 1
            <4>1. g[i] = Round(f[j]) /\ i # 0
                BY <3>1
            <4>2. g[i - 1] = f[j]
                BY <3>1
            <4> QED BY <4>1, <4>2
        <3>2. CASE i = 0
            BY <2>2, <3>2
        <3>3. CASE i # j + 1 /\ i # 0
            <4>1. i \in 0 .. j /\ i - 1 \in 0 .. j
                BY <3>3
            <4>2. g[i] = f[i] /\ g[i - 1] = f[i - 1]
                BY <4>1
            <4> QED BY <2>2, <3>3, <4>1, <4>2
        <3> QED BY <3>1, <3>2, <3>3
    <2>4. IsRounds(g, b, j + 1)
        <3>1. g = [i \in 0 .. j + 1 |-> g[i]]
            OBVIOUS
        <3> HIDE DEF g
        <3> QED BY <2>3, <3>1 DEF IsRounds
    <2> HIDE DEF g
    <2>5. \E h : IsRounds(h, b, j + 1)
        BY <2>4
    <2> QED BY <2>5
<1>3. \A j \in Nat : j \in I
    <2> HIDE DEF I
    <2> QED BY <1>1, <1>2, Induct
<1> QED BY <1>3

\* ... and what a round keeps, check_buffered_ops keeps.
LEMMA RoundsKeep ==
    ASSUME NEW b, IsFiniteSet(b.held), NEW S, b \in S, \A x \in S : Round(x) \in S
    PROVE  check_buffered_ops(b) \in S
<1> DEFINE N == Cardinality(b.held)
           f == CHOOSE g : IsRounds(g, b, N)
           I == {j \in Nat : j <= N => f[j] \in S}
<1>1. N \in Nat
    BY FS_CardinalityType
<1>2. check_buffered_ops(b) = f[N]
    BY DEF check_buffered_ops, IsRounds
<1>3. IsRounds(f, b, N)
    <2> HIDE DEF N
    <2> QED BY <1>1, RoundsExist, Zenon
<1>4. \A i \in 0 .. N : f[i] = IF i = 0 THEN b ELSE Round(f[i - 1])
    <2> HIDE DEF f, N
    <2> QED BY <1>3 DEF IsRounds
<1> HIDE DEF f, N
<1>5. 0 \in I
    BY <1>1, <1>4
<1>6. ASSUME NEW j \in Nat, j \in I
      PROVE  j + 1 \in I
    <2>1. SUFFICES ASSUME j + 1 <= N
                   PROVE  f[j + 1] \in S
        OBVIOUS
    <2>2. j \in 0 .. N /\ j + 1 \in 0 .. N /\ (j + 1) - 1 = j
        BY <1>1, <2>1
    <2>3. f[j] \in S
        BY <1>6, <2>2
    <2>4. f[j + 1] = Round(f[j])
        BY <1>4, <2>2
    <2> QED BY <2>3, <2>4
<1>7. \A j \in Nat : j \in I
    <2> HIDE DEF I
    <2> QED BY <1>5, <1>6, Induct
<1>8. f[N] \in S
    BY <1>1, <1>7
<1> QED BY <1>2, <1>8

-----------------------------------------------------------------------------
(* Clocks, records and the buffer. *)

LEMMA EmptyClockOK == EmptyClock \in Clock /\ \A n \in Node : EmptyClock[n] = 0
BY DEF EmptyClock, Clock

LEMMA NoTaskOK == NoTask \in Task
BY EmptyClockOK DEF NoTask, Task

LEMMA OpFields ==
    ASSUME NEW op \in Op
    PROVE  /\ op.node \in Node /\ op.vc \in Clock /\ op.reg \in Register
           /\ Counter(op) \in Nat /\ \A m \in Node : op.vc[m] \in Nat
BY DEF Op, Clock, Counter

\* What the numbers of the operations of a finite set are bounded by.
LEMMA VectorMax ==
    ASSUME NEW ops \in SUBSET Op, IsFiniteSet(ops), NEW f \in [ops -> Nat], NEW a \in Nat
    PROVE  LET S == {a} \cup {f[op] : op \in ops}
           IN  /\ Max(S) \in Nat
               /\ Max(S) = a \/ \E op \in ops : Max(S) = f[op]
               /\ Max(S) >= a /\ \A op \in ops : Max(S) >= f[op]
<1> DEFINE S == {a} \cup {f[op] : op \in ops}
<1>1. IsFiniteSet({f[op] : op \in ops})
    BY FiniteImage
<1>2. IsFiniteSet({a})
    BY FS_Singleton
<1>3. IsFiniteSet(S)
    BY <1>1, <1>2, FS_Union
<1>4. S \in SUBSET Nat /\ S # {} /\ a \in S /\ \A op \in ops : f[op] \in S
    OBVIOUS
<1>5. Max(S) \in S /\ Max(S) \in Nat /\ \A y \in S : y <= Max(S)
    <2> HIDE DEF S
    <2> QED BY <1>3, <1>4, MaxOf
<1>6. Max(S) = a \/ \E op \in ops : Max(S) = f[op]
    <2> DEFINE m == Max(S)
    <2>1. m \in S
        BY <1>5
    <2> HIDE DEF m
    <2>2. m = a \/ \E op \in ops : m = f[op]
        BY <2>1
    <2> QED BY <2>2 DEF m
<1>7. \A op \in ops : Max(S) >= f[op]
    <2> HIDE DEF S
    <2> QED BY <1>4, <1>5
<1>8. Max(S) >= a
    <2> HIDE DEF S
    <2> QED BY <1>4, <1>5
<1> QED BY <1>5, <1>6, <1>7, <1>8

\* A rebuilt snapshot: every entry is the highest number in the log.
LEMMA RebuiltOK ==
    ASSUME NEW log \in SUBSET Op, IsFiniteSet(log)
    PROVE  /\ Rebuilt(log) \in Clock
           /\ Counts(log, Rebuilt(log))
           /\ \A op \in log : Counter(op) <= Rebuilt(log)[op.node]
<1>1. ASSUME NEW n \in Node
      PROVE  /\ Rebuilt(log)[n] \in Nat
             /\ Rebuilt(log)[n] = 0 \/ \E op \in log : op.node = n /\ Rebuilt(log)[n] = Counter(op)
             /\ \A op \in log : op.node = n => Rebuilt(log)[n] >= Counter(op)
    <2> DEFINE ops == {o \in log : o.node = n}
               f == [o \in ops |-> Counter(o)]
    <2>1. ops \in SUBSET Op /\ IsFiniteSet(ops)
        BY FS_Subset
    <2>2. f \in [ops -> Nat]
        BY OpFields
    <2>3. {f[op] : op \in ops} = {Counter(op) : op \in ops}
        OBVIOUS
    <2>4. Rebuilt(log)[n] = Max({0} \cup {f[op] : op \in ops})
        BY <2>3 DEF Rebuilt
    <2>5. \A op \in ops : f[op] = Counter(op)
        OBVIOUS
    <2> HIDE DEF f
    <2>6. /\ Rebuilt(log)[n] \in Nat
          /\ Rebuilt(log)[n] = 0 \/ \E op \in ops : Rebuilt(log)[n] = f[op]
          /\ \A op \in ops : Rebuilt(log)[n] >= f[op]
        <3> DEFINE m == Max({0} \cup {f[op] : op \in ops})
        <3> HIDE DEF ops
        <3>1. m \in Nat /\ (m = 0 \/ \E op \in ops : m = f[op]) /\ \A op \in ops : m >= f[op]
            BY <2>1, <2>2, VectorMax
        <3> QED BY <2>4, <3>1
    <2> QED BY <2>5, <2>6
<1>2. Rebuilt(log) \in Clock
    <2>1. Rebuilt(log) = [n \in Node |-> Rebuilt(log)[n]]
        BY DEF Rebuilt
    <2> QED BY <1>1, <2>1 DEF Clock
<1>3. Counts(log, Rebuilt(log))
    BY <1>1 DEF Counts
<1>4. \A op \in log : Counter(op) <= Rebuilt(log)[op.node]
    BY <1>1, OpFields
<1> QED BY <1>2, <1>3, <1>4

\* A round: its clock is reached entry by entry, by operations it releases.
LEMMA RoundLocal ==
    ASSUME NEW b, b.local \in Clock, b.held \in SUBSET Op, IsFiniteSet(b.held), NEW n \in Node
    PROVE  LET new == Round(b).local[n]
               ready == {op \in b.held : dependencies_satisfied(b.local, op)}
           IN  /\ new \in Nat /\ new >= b.local[n] /\ \A op \in ready : new >= op.vc[n]
               /\ new = b.local[n] \/ \E op \in ready : new = op.vc[n]
<1> DEFINE ready == {op \in b.held : dependencies_satisfied(b.local, op)}
           f == [op \in ready |-> op.vc[n]]
<1>1. ready \in SUBSET Op /\ IsFiniteSet(ready)
    BY FS_Subset
<1>2. f \in [ready -> Nat] /\ b.local[n] \in Nat
    BY <1>1, OpFields DEF Clock
<1>3. {f[op] : op \in ready} = {op.vc[n] : op \in ready} /\ \A op \in ready : f[op] = op.vc[n]
    OBVIOUS
<1>4. Round(b).local[n] = Max({b.local[n]} \cup {f[op] : op \in ready})
    BY <1>3 DEF Round
<1> HIDE DEF f
<1>5. /\ Round(b).local[n] \in Nat /\ Round(b).local[n] >= b.local[n]
      /\ \A op \in ready : Round(b).local[n] >= f[op]
      /\ Round(b).local[n] = b.local[n] \/ \E op \in ready : Round(b).local[n] = f[op]
    <2> HIDE DEF ready
    <2> QED BY <1>1, <1>2, <1>4, VectorMax
<1> QED BY <1>3, <1>5

LEMMA RoundLocalType ==
    ASSUME NEW b, b.local \in Clock, b.held \in SUBSET Op, IsFiniteSet(b.held)
    PROVE  Round(b).local \in Clock
<1>1. Round(b).local = [n \in Node |-> Round(b).local[n]]
    BY DEF Round
<1>2. \A n \in Node : Round(b).local[n] \in Nat
    BY RoundLocal
<1> QED BY <1>1, <1>2 DEF Clock

\* A call of the buffer hands out and holds what it held and was given.
LEMMA DeliverOK ==
    ASSUME NEW local \in Clock, NEW held \in SUBSET Op, IsFiniteSet(held), NEW op \in Op
    PROVE  LET res == deliver(local, held, op)
           IN  /\ res.local \in Clock
               /\ res.held \in SUBSET (held \cup {op})
               /\ res.out \in SUBSET (held \cup {op})
<1> DEFINE H == held \cup {op}
           S == [local : Clock, held : SUBSET H, out : SUBSET H]
           b == IF dependencies_satisfied(local, op)
                THEN [local |-> merge(local, op.vc), held |-> held, out |-> {op}]
                ELSE [local |-> local, held |-> held \cup {op}, out |-> {}]
<1>1. H \in SUBSET Op /\ IsFiniteSet(H)
    BY FS_AddElement
<1>2. merge(local, op.vc) \in Clock
    BY OpFields DEF merge, Clock
<1>3. b \in S /\ b.held \in SUBSET H
    BY <1>2
<1>4. ASSUME NEW x \in S
      PROVE  Round(x) \in S
    <2>1. x.local \in Clock /\ x.held \in SUBSET Op /\ x.held \in SUBSET H /\ x.out \in SUBSET H
        BY <1>1
    <2>2. IsFiniteSet(x.held)
        BY <1>1, <2>1, FS_Subset
    <2>3. Round(x).local \in Clock
        BY <2>1, <2>2, RoundLocalType
    <2>4. /\ Round(x).held \in SUBSET H /\ Round(x).out \in SUBSET H
          /\ Round(x) = [local |-> Round(x).local, held |-> Round(x).held, out |-> Round(x).out]
        BY <2>1 DEF Round
    <2> QED BY <2>3, <2>4
<1>5. IsFiniteSet(b.held)
    BY <1>1, <1>3, FS_Subset
<1>6. deliver(local, held, op) = check_buffered_ops(b)
    BY DEF deliver
<1>7. check_buffered_ops(b) \in S
    <2> HIDE DEF b, S
    <2> QED BY <1>3, <1>4, <1>5, RoundsKeep
<1> QED BY <1>6, <1>7

-----------------------------------------------------------------------------
(* A step changes the state of one server, and logs only grow. *)

LEMMA Grown ==
    ASSUME NEW log \in [Node -> SUBSET Op], NEW new \in [Node -> SUBSET Op],
           \A m \in Node : log[m] \subseteq new[m], NEW n \in Node
    PROVE  /\ \A ops \in SUBSET Op : Kept(log, ops) => Kept(new, ops)
           /\ \A vc : Counts(log[n], vc) => Counts(new[n], vc)
           /\ \A c : CaptureOK(n, log[n], c) => CaptureOK(n, new[n], c)
           /\ \A t \in Task : TaskOK(log, log[n], t) => TaskOK(new, new[n], t)
<1>1. \A ops \in SUBSET Op : Kept(log, ops) => Kept(new, ops)
    BY OpFields DEF Kept
<1>2. \A vc : Counts(log[n], vc) => Counts(new[n], vc)
    BY DEF Counts
<1>3. \A c : CaptureOK(n, log[n], c) => CaptureOK(n, new[n], c)
    BY <1>2 DEF CaptureOK
<1>4. ASSUME NEW t \in Task, TaskOK(log, log[n], t)
      PROVE  TaskOK(new, new[n], t)
    <2>1. t.ops \in SUBSET Op /\ t.out \in SUBSET Op
        BY DEF Task
    <2>2. Kept(new, t.ops) /\ Kept(new, t.out)
        BY <1>1, <1>4, <2>1 DEF TaskOK
    <2> QED BY <1>2, <1>4, <2>2 DEF TaskOK
<1> QED BY <1>1, <1>2, <1>3, <1>4

\* Nothing but the state of server n changes, and its log only grows.
OnlyAt(n) ==
    /\ oplog[n] \subseteq oplog'[n]
    /\ \A m \in Node \ {n} :
           /\ clock'[m] = clock[m] /\ capture'[m] = capture[m] /\ oplog'[m] = oplog[m]
           /\ snapshot'[m] = snapshot[m] /\ buffer'[m] = buffer[m]
           /\ \A k \in Slot : task'[<<m, k>>] = task[<<m, k>>]

LEMMA OneServer ==
    ASSUME IInv, TypeOK', NEW n \in Node, OnlyAt(n), ServerOK(n)',
           \A m \in pushes' : m \in pushes \/ m[1] \in oplog'[m[1].node]
    PROVE  IInv'
<1> DEFINE log == oplog
           new == oplog'
<1>1. log \in [Node -> SUBSET Op] /\ new \in [Node -> SUBSET Op]
    BY DEF IInv, TypeOK
<1>2. \A m \in Node : log[m] \subseteq new[m]
    BY <1>1 DEF OnlyAt
<1>3. ASSUME NEW m \in Node \ {n}
      PROVE  ServerOK(m)'
    <2>1. ServerOK(m)
        BY DEF IInv
    <2>2. /\ clock'[m] = clock[m] /\ capture'[m] = capture[m] /\ new[m] = log[m]
          /\ snapshot'[m] = snapshot[m] /\ buffer'[m] = buffer[m]
          /\ \A k \in Slot : task'[<<m, k>>] = task[<<m, k>>]
        BY DEF OnlyAt
    <2>3. /\ log[m] \in SUBSET Op /\ buffer[m].held \in SUBSET Op
          /\ \A k \in Slot : task[<<m, k>>] \in Task
        BY DEF IInv, TypeOK
    <2>4. \A ops \in SUBSET Op : Kept(log, ops) => Kept(new, ops)
        <3> HIDE DEF log, new
        <3> QED BY <1>1, <1>2, Grown
    <2>5. \A k \in Slot : TaskOK(new, new[m], task'[<<m, k>>])
        <3>1. \A t \in Task : TaskOK(log, log[m], t) => TaskOK(new, new[m], t)
            <4> HIDE DEF log, new
            <4> QED BY <1>1, <1>2, Grown
        <3> QED BY <2>1, <2>2, <2>3, <3>1 DEF ServerOK
    <2>6. Kept(new, new[m]) /\ Kept(new, buffer'[m].held)
        BY <2>1, <2>2, <2>3, <2>4 DEF ServerOK
    <2>7. /\ NumbersOK(m, new[m], capture'[m], clock'[m][m])
          /\ Counts(new[m], snapshot'[m])
          /\ \A c \in capture'[m] : CaptureOK(m, new[m], c)
        BY <2>1, <2>2 DEF ServerOK
    <2> QED BY <2>5, <2>6, <2>7 DEF ServerOK
<1>4. PushesOK'
    <2> SUFFICES ASSUME NEW m \in pushes'
                 PROVE  m[1] \in oplog'[m[1].node]
        BY DEF PushesOK
    <2>1. CASE m \in pushes
        <3>1. m[1] \in Op /\ m[1] \in oplog[m[1].node]
            BY <2>1 DEF IInv, PushesOK, TypeOK
        <3> QED BY <1>2, <3>1, OpFields
    <2> QED BY <2>1
<1> QED BY <1>3, <1>4 DEF IInv

AnyFault == faults < cluster.maxFaults /\ faults' = faults + 1

\* Neither the cluster nor the bound on faults is broken.
LEMMA FaultsType ==
    ASSUME TypeOK, cluster' = cluster, faults' = faults \/ AnyFault
    PROVE  cluster' \in Clusters /\ faults' \in 0 .. cluster'.maxFaults
<1>1. cluster.maxFaults \in Nat
    BY ClustersAssumption DEF TypeOK, Cluster
<1> QED BY <1>1 DEF TypeOK, AnyFault

\* A task of server n goes on; logs, clocks, captures and buffers stay.
LEMMA TaskMoves ==
    ASSUME IInv, NEW n \in Node, NEW k \in Slot,
           NEW t \in Task, TaskOK(oplog, oplog[n], t),
           task' = [task EXCEPT ![<<n, k>>] = t],
           UNCHANGED <<clock, capture, oplog, snapshot, buffer, cluster>>,
           pushes' \subseteq pushes, faults' = faults \/ AnyFault,
           marked' \in [Node -> SUBSET Op], applied' \in [Node -> SUBSET Op],
           data' \in [Node -> [Register -> Op \cup {NoOp}]]
    PROVE  IInv'
<1>1. /\ task' \in [Node \X Slot -> Task] /\ task'[<<n, k>>] = t
      /\ \A m \in Node, j \in Slot : <<m, j>> # <<n, k>> => task'[<<m, j>>] = task[<<m, j>>]
    BY DEF IInv, TypeOK
<1>2. \A j \in Slot : TaskOK(oplog, oplog[n], task'[<<n, j>>])
    BY <1>1 DEF IInv, ServerOK
<1>3. TypeOK'
    <2>1. cluster' \in Clusters /\ faults' \in 0 .. cluster'.maxFaults
        BY FaultsType DEF IInv
    <2>2. \A x \in Node \X Slot :
              task'[x].at \in {"seed", "deliver", "log", "apply"} => task'[x].ops # {}
        BY <1>1 DEF IInv, TypeOK, TaskOK
    <2> QED BY <1>1, <2>1, <2>2 DEF IInv, TypeOK
<1>4. ServerOK(n)'
    BY <1>2 DEF IInv, ServerOK
<1>5. OnlyAt(n)
    BY <1>1 DEF OnlyAt
<1> QED BY <1>3, <1>4, <1>5, OneServer

-----------------------------------------------------------------------------
(* The steps of a task that leave logs, snapshots and buffers alone. *)

LEMMA KeptSubset ==
    ASSUME NEW log, NEW ops, Kept(log, ops), NEW sub \in SUBSET ops
    PROVE  Kept(log, sub)
BY FS_Subset DEF Kept

LEMMA IdleOK ==
    ASSUME NEW log, NEW mine
    PROVE  TaskOK(log, mine, NoTask)
<1>1. Kept(log, {})
    BY FS_EmptySet DEF Kept
<1> QED BY <1>1 DEF TaskOK, NoTask, Appended

LEMMA Here ==
    ASSUME IInv, NEW n \in Node, NEW k \in Slot
    PROVE  /\ task[<<n, k>>] \in Task /\ TaskOK(oplog, oplog[n], task[<<n, k>>])
           /\ oplog[n] \in SUBSET Op /\ Kept(oplog, oplog[n])
           /\ snapshot[n] \in Clock /\ Counts(oplog[n], snapshot[n])
           /\ marked \in [Node -> SUBSET Op] /\ applied \in [Node -> SUBSET Op]
           /\ data \in [Node -> [Register -> Op \cup {NoOp}]]
BY DEF IInv, TypeOK, ServerOK

LEMMA RequestOK ==
    ASSUME IInv, NEW n \in Node, NEW k \in Slot, NEW p \in Node, Request(n, k, p)
    PROVE  IInv'
<1> DEFINE t == [task[<<n, k>>] EXCEPT !.at = "asked", !.peer = p, !.vc = snapshot[n]]
<1>1. t \in Task
    BY Here DEF Task
<1>2. TaskOK(oplog, oplog[n], t)
    BY Here DEF TaskOK, Task, Appended
<1>3. task' = [task EXCEPT ![<<n, k>>] = t]
    BY DEF Request
<1> HIDE DEF t
<1> QED BY <1>1, <1>2, <1>3, Here, TaskMoves DEF Request, valueVars, netVars

LEMMA ServeOK ==
    ASSUME IInv, NEW n \in Node, NEW k \in Slot, NEW p \in Node, Serve(n, k, p)
    PROVE  IInv'
<1> DEFINE ops == get_missing_operations(oplog[p], task[<<n, k>>].vc)
           t == IF ops = {} THEN NoTask
                ELSE [task[<<n, k>>] EXCEPT !.at = IF buffer[n].live THEN "deliver" ELSE "seed",
                                            !.ops = ops]
<1>1. ops \in SUBSET oplog[p]
    BY DEF get_missing_operations
<1>2. ops \in SUBSET Op /\ Kept(oplog, ops)
    <2>1. oplog[p] \in SUBSET Op /\ Kept(oplog, oplog[p])
        BY DEF IInv, TypeOK, ServerOK
    <2> HIDE DEF ops
    <2> QED BY <1>1, <2>1, KeptSubset
<1>3. task' = [task EXCEPT ![<<n, k>>] = t]
    BY DEF Serve
<1> HIDE DEF ops
<1>4. t \in Task
    BY <1>2, Here, NoTaskOK DEF Task
<1>5. TaskOK(oplog, oplog[n], t)
    <2>1. CASE ops = {}
        BY <2>1, IdleOK
    <2>2. CASE ops # {}
        BY <1>2, <2>2, Here DEF TaskOK, Task, Appended
    <2> QED BY <2>1, <2>2
<1> HIDE DEF t
<1> QED BY <1>3, <1>4, <1>5, Here, TaskMoves DEF Serve, valueVars, netVars

LEMMA EndOK ==
    ASSUME IInv, NEW n \in Node, NEW k \in Slot, Fail(n, k) \/ PutFails(n, k)
    PROVE  IInv'
BY Here, NoTaskOK, IdleOK, TaskMoves DEF Fail, PutFails, Fault, AnyFault, valueVars, netVars

LEMMA ReadSeedOK ==
    ASSUME IInv, NEW n \in Node, NEW k \in Slot, ReadSeed(n, k)
    PROVE  IInv'
<1> DEFINE t == [task[<<n, k>>] EXCEPT !.at = "deliver", !.vc = snapshot[n]]
<1>1. t \in Task
    BY Here DEF Task
<1>2. TaskOK(oplog, oplog[n], t)
    BY Here DEF TaskOK, Task, Appended, ReadSeed
<1>3. task' = [task EXCEPT ![<<n, k>>] = t]
    BY DEF ReadSeed
<1> HIDE DEF t
<1> QED BY <1>1, <1>2, <1>3, Here, TaskMoves DEF ReadSeed, valueVars, netVars

LEMMA SeedFailsOK ==
    ASSUME IInv, NEW n \in Node, NEW k \in Slot, SeedFails(n, k)
    PROVE  IInv'
<1> DEFINE t == [task[<<n, k>>] EXCEPT !.at = "deliver", !.vc = EmptyClock]
<1>1. t \in Task
    BY Here, EmptyClockOK DEF Task
<1>2. TaskOK(oplog, oplog[n], t)
    BY Here DEF TaskOK, Task, Appended, SeedFails
<1>3. task' = [task EXCEPT ![<<n, k>>] = t]
    BY DEF SeedFails
<1> HIDE DEF t
<1> QED BY <1>1, <1>2, <1>3, Here, TaskMoves DEF SeedFails, Fault, AnyFault, valueVars

LEMMA StatsBeginOK ==
    ASSUME IInv, NEW n \in Node, NEW k \in Slot, StatsBegin(n, k)
    PROVE  IInv'
<1> DEFINE t == [task[<<n, k>>] EXCEPT !.at = "scan"]
<1>1. t \in Task
    BY Here DEF Task
<1>2. TaskOK(oplog, oplog[n], t)
    BY Here DEF TaskOK, Task, Appended
<1>3. task' = [task EXCEPT ![<<n, k>>] = t]
    BY DEF StatsBegin
<1> HIDE DEF t
<1> QED BY <1>1, <1>2, <1>3, Here, TaskMoves DEF StatsBegin, valueVars, netVars

\* What is rebuilt counts operations in the log.
LEMMA StatsScanOK ==
    ASSUME IInv, NEW n \in Node, NEW k \in Slot, StatsScan(n, k)
    PROVE  IInv'
<1> DEFINE built == Rebuilt(oplog[n])
           t == [task[<<n, k>>] EXCEPT !.at = "rebuild", !.vc = built]
<1>1. built \in Clock /\ Counts(oplog[n], built)
    BY Here, RebuiltOK DEF Kept
<1>2. task' = [task EXCEPT ![<<n, k>>] = t]
    BY DEF StatsScan
<1> HIDE DEF built
<1>3. t \in Task
    BY <1>1, Here DEF Task
<1>4. TaskOK(oplog, oplog[n], t)
    BY <1>1, Here DEF TaskOK, Task, Appended
<1> HIDE DEF t
<1> QED BY <1>2, <1>3, <1>4, Here, TaskMoves DEF StatsScan, valueVars, netVars

LEMMA ReplayOK ==
    ASSUME IInv, NEW n \in Node, NEW k \in Slot, Replay(n, k)
    PROVE  IInv'
<1> DEFINE new_ops == filter_applied(n, task[<<n, k>>].out)
<1>1. new_ops \in SUBSET task[<<n, k>>].out
    BY DEF filter_applied
<1>2. PICK winner \in [{op.reg : op \in new_ops} -> new_ops] :
          /\ mark_applied(n, Range(winner))
          /\ task' = [task EXCEPT ![<<n, k>>] = Replayed(Range(winner))]
    BY DEF Replay
<1> DEFINE ops == Range(winner)
<1>3. ops \in SUBSET task[<<n, k>>].out
    BY <1>1 DEF Range
<1>4. ops \in SUBSET Op /\ Kept(oplog, ops)
    <2>1. task[<<n, k>>].out \in SUBSET Op /\ Kept(oplog, task[<<n, k>>].out)
        BY Here DEF TaskOK, Task
    <2> HIDE DEF ops
    <2> QED BY <1>3, <2>1, KeptSubset
<1> HIDE DEF ops
<1>5. Replayed(ops) \in Task
    BY <1>4, NoTaskOK DEF Replayed, Task
<1>6. TaskOK(oplog, oplog[n], Replayed(ops))
    <2>1. CASE ops = {}
        BY <2>1, IdleOK DEF Replayed
    <2>2. CASE ops # {}
        BY <1>4, <2>2, IdleOK DEF Replayed, NoTask, TaskOK, Appended
    <2> QED BY <2>1, <2>2
<1>7. marked' \in [Node -> SUBSET Op]
    BY <1>2, <1>4, Here DEF mark_applied, ops
<1>8. task' = [task EXCEPT ![<<n, k>>] = Replayed(ops)]
    BY <1>2 DEF ops
<1> QED BY <1>5, <1>6, <1>7, <1>8, Here, TaskMoves DEF Replay, valueVars, netVars

\* The counting of a task is done: it applies, or has ended.
LEMMA CountedOK ==
    ASSUME NEW log, NEW mine, NEW t \in Task, TaskOK(log, mine, t), t.at \in {"count", "recount"}
    PROVE  Counted(t) \in Task /\ TaskOK(log, mine, Counted(t))
<1>1. CASE t.out # {}
    BY <1>1 DEF Counted
<1>2. CASE t.out = {} /\ t.at = "count"
    <2>1. Counted(t) = [t EXCEPT !.at = "apply", !.out = t.ops]
        BY <1>2 DEF Counted
    <2>2. Counted(t) \in Task
        BY <2>1 DEF Task
    <2>3. TaskOK(log, mine, [t EXCEPT !.at = "apply", !.out = t.ops])
        BY <1>2 DEF TaskOK, Task, Appended
    <2> QED BY <2>1, <2>2, <2>3
<1>3. CASE t.out = {} /\ t.at # "count"
    BY <1>3, NoTaskOK, IdleOK DEF Counted
<1> QED BY <1>1, <1>2, <1>3

\* The snapshot is raised to the number of an operation in the log.
LEMMA RaisedOK ==
    ASSUME NEW mine \in SUBSET Op, NEW op \in mine, NEW vc \in Clock, Counts(mine, vc)
    PROVE  Raised(vc, op) \in Clock /\ Counts(mine, Raised(vc, op))
<1>1. op.node \in Node /\ Counter(op) \in Nat
    BY OpFields
<1>2. CASE Counter(op) > vc[op.node]
    <2>1. Raised(vc, op) = [vc EXCEPT ![op.node] = Counter(op)]
        BY <1>2 DEF Raised, set
    <2>2. Raised(vc, op) \in Clock
        BY <1>1, <2>1 DEF Clock
    <2>3. Counts(mine, Raised(vc, op))
        BY <1>1, <2>1 DEF Counts, Clock
    <2> QED BY <2>2, <2>3
<1>3. CASE ~(Counter(op) > vc[op.node])
    BY <1>3 DEF Raised
<1> QED BY <1>2, <1>3

LEMMA ReadBatchSnapshotOK ==
    ASSUME IInv, NEW n \in Node, NEW k \in Slot, NEW op \in task[<<n, k>>].out,
           ReadBatchSnapshot(n, k, op)
    PROVE  IInv'
<1> DEFINE t == task[<<n, k>>]
           new == Raised(snapshot[n], op)
           rest == [t EXCEPT !.out = @ \ {op}]
           r == [rest EXCEPT !.at = IF @ = "count" THEN "write" ELSE "rewrite", !.vc = new]
           u == IF new = snapshot[n] THEN Counted(rest) ELSE r
<1>1. /\ t \in Task /\ TaskOK(oplog, oplog[n], t) /\ t.at \in {"count", "recount"}
      /\ task' = [task EXCEPT ![<<n, k>>] = u]
    BY Here DEF ReadBatchSnapshot
<1>2. op \in oplog[n]
    BY <1>1 DEF TaskOK, Appended
<1>3. new \in Clock /\ Counts(oplog[n], new)
    BY <1>2, Here, RaisedOK
<1> HIDE DEF new
<1>4. Kept(oplog, t.out \ {op}) /\ t.out \in SUBSET Op
    BY <1>1, KeptSubset DEF TaskOK, Task
<1>5. rest \in Task /\ rest.at = t.at
    BY <1>1, <1>4 DEF Task
<1>6. TaskOK(oplog, oplog[n], rest)
    BY <1>1, <1>4 DEF TaskOK, Task, Appended
<1>7. Counted(rest) \in Task /\ TaskOK(oplog, oplog[n], Counted(rest))
    <2> HIDE DEF rest
    <2> QED BY <1>1, <1>5, <1>6, CountedOK
<1>8. r \in Task /\ TaskOK(oplog, oplog[n], r)
    <2>1. r \in Task
        <3> HIDE DEF rest
        <3> QED BY <1>3, <1>5 DEF Task
    <2>2. TaskOK(oplog, oplog[n], r)
        <3> HIDE DEF rest
        <3> QED BY <1>1, <1>3, <1>5, <1>6 DEF TaskOK, Task, Appended
    <2> QED BY <2>1, <2>2
<1>9. u \in Task /\ TaskOK(oplog, oplog[n], u)
    <2> HIDE DEF r, rest
    <2> QED BY <1>7, <1>8
<1> HIDE DEF u
<1> QED BY <1>1, <1>9, Here, TaskMoves DEF ReadBatchSnapshot, valueVars, netVars

\* An operation of the batch is done with.
LEMMA DoneOK ==
    ASSUME NEW log, NEW mine, NEW t \in Task, TaskOK(log, mine, t), t.at \in {"apply", "store"},
           NEW op
    PROVE  Done(t, op) \in Task /\ TaskOK(log, mine, Done(t, op))
<1>1. CASE t.out = {op}
    <2> DEFINE u == [t EXCEPT !.at = "recount", !.out = t.ops, !.doing = NoOp]
    <2>1. Done(t, op) = u
        BY <1>1 DEF Done
    <2>2. u \in Task
        BY DEF Task
    <2>3. TaskOK(log, mine, u)
        BY DEF TaskOK, Task, Appended
    <2> QED BY <2>1, <2>2, <2>3
<1>2. CASE t.out # {op}
    <2> DEFINE u == [t EXCEPT !.at = "apply", !.out = @ \ {op}, !.doing = NoOp]
    <2>1. Done(t, op) = u
        BY <1>2 DEF Done
    <2>2. Kept(log, t.out \ {op}) /\ t.out \in SUBSET Op
        BY KeptSubset DEF TaskOK, Task
    <2>3. u \in Task
        BY <2>2 DEF Task
    <2>4. TaskOK(log, mine, u)
        BY <2>2 DEF TaskOK, Task, Appended
    <2> QED BY <2>1, <2>3, <2>4
<1> QED BY <1>1, <1>2

LEMMA ReadStoredOK ==
    ASSUME IInv, NEW n \in Node, NEW k \in Slot, NEW op \in task[<<n, k>>].out,
           ReadStored(n, k, op)
    PROVE  IInv'
<1> DEFINE t == task[<<n, k>>]
           s == [t EXCEPT !.at = "store", !.doing = op]
<1>1. t \in Task /\ TaskOK(oplog, oplog[n], t) /\ t.at = "apply" /\ op \in Op
    BY Here DEF ReadStored, Task
<1>2. Done(t, op) \in Task /\ TaskOK(oplog, oplog[n], Done(t, op))
    BY <1>1, DoneOK
<1>3. s \in Task
    BY <1>1 DEF Task
<1>4. TaskOK(oplog, oplog[n], s)
    BY <1>1 DEF TaskOK, Task, Appended
<1>5. [applied EXCEPT ![n] = @ \cup {op}] \in [Node -> SUBSET Op]
    BY <1>1, Here
<1>6. CASE Newer(data[n][op.reg], op)
    <2>1. task' = [task EXCEPT ![<<n, k>>] = Done(t, op)] /\ applied' \in [Node -> SUBSET Op]
        BY <1>5, <1>6 DEF ReadStored
    <2> QED BY <1>2, <2>1, Here, TaskMoves DEF ReadStored, netVars
<1>7. CASE ~Newer(data[n][op.reg], op)
    <2>1. task' = [task EXCEPT ![<<n, k>>] = s] /\ applied' \in [Node -> SUBSET Op]
        BY <1>7, Here DEF ReadStored
    <2> HIDE DEF s
    <2> QED BY <1>3, <1>4, <2>1, Here, TaskMoves DEF ReadStored, netVars
<1> QED BY <1>6, <1>7

LEMMA SettledType ==
    ASSUME NEW stored \in Op \cup {NoOp}, NEW op \in Op
    PROVE  Settled(stored, op) \in Op \cup {NoOp}
BY DEF Settled

LEMMA WriteStoredOK ==
    ASSUME IInv, NEW n \in Node, NEW k \in Slot, WriteStored(n, k)
    PROVE  IInv'
<1> DEFINE t == task[<<n, k>>]
           op == t.doing
<1>1. t \in Task /\ TaskOK(oplog, oplog[n], t) /\ t.at = "store" /\ op \in Op
    BY Here DEF WriteStored, TaskOK
<1>2. Done(t, op) \in Task /\ TaskOK(oplog, oplog[n], Done(t, op))
    BY <1>1, DoneOK
<1>3. op.reg \in Register
    BY <1>1, OpFields
<1>4. data' \in [Node -> [Register -> Op \cup {NoOp}]]
    <2>1. data[n][op.reg] \in Op \cup {NoOp} /\ data[n] \in [Register -> Op \cup {NoOp}]
        BY <1>3, Here
    <2>2. Settled(data[n][op.reg], op) \in Op \cup {NoOp}
        BY <1>1, <2>1, SettledType
    <2>3. data' = [data EXCEPT ![n] = [data[n] EXCEPT ![op.reg] = Settled(data[n][op.reg], op)]]
        BY DEF WriteStored
    <2> HIDE DEF op
    <2> QED BY <2>1, <2>2, <2>3, Here
<1>5. applied' \in [Node -> SUBSET Op]
    BY <1>1, Here DEF WriteStored
<1>6. task' = [task EXCEPT ![<<n, k>>] = Done(t, op)]
    BY DEF WriteStored
<1> HIDE DEF t, op
<1> QED BY <1>2, <1>4, <1>5, <1>6, Here, TaskMoves DEF WriteStored, netVars

LEMMA ApplyFailsOK ==
    ASSUME IInv, NEW n \in Node, NEW k \in Slot, ApplyFails(n, k)
    PROVE  IInv'
<1> DEFINE t == task[<<n, k>>]
<1>1. t \in Task /\ TaskOK(oplog, oplog[n], t) /\ t.at = "store"
    BY Here DEF ApplyFails
<1>2. Done(t, t.doing) \in Task /\ TaskOK(oplog, oplog[n], Done(t, t.doing))
    BY <1>1, DoneOK
<1> QED BY <1>2, Here, TaskMoves DEF ApplyFails, Fault, AnyFault, valueVars

LEMMA RecountFailsOK ==
    ASSUME IInv, NEW n \in Node, NEW k \in Slot, NEW op \in task[<<n, k>>].out,
           RecountFails(n, k, op)
    PROVE  IInv'
<1> DEFINE t == task[<<n, k>>]
           rest == [t EXCEPT !.out = @ \ {op}]
<1>1. /\ t \in Task /\ TaskOK(oplog, oplog[n], t) /\ t.at = "recount"
      /\ task' = [task EXCEPT ![<<n, k>>] = Counted(rest)]
    BY Here DEF RecountFails
<1>2. Kept(oplog, t.out \ {op}) /\ t.out \in SUBSET Op
    BY <1>1, KeptSubset DEF TaskOK, Task
<1>3. rest \in Task /\ rest.at = t.at
    BY <1>1, <1>2 DEF Task
<1>4. TaskOK(oplog, oplog[n], rest)
    BY <1>1, <1>2 DEF TaskOK, Task, Appended
<1>5. Counted(rest) \in Task /\ TaskOK(oplog, oplog[n], Counted(rest))
    <2> HIDE DEF rest
    <2> QED BY <1>1, <1>3, <1>4, CountedOK
<1> HIDE DEF rest
<1> QED BY <1>1, <1>5, Here, TaskMoves DEF RecountFails, Fault, AnyFault, valueVars

-----------------------------------------------------------------------------
(* The steps of a task that change the log, the snapshot or the buffer. *)

\* The types, when a task of server n goes on.
LEMMA TaskTypes ==
    ASSUME IInv, NEW n \in Node, NEW k \in Slot, NEW t \in Task,
           t.at \in {"seed", "deliver", "log", "apply"} => t.ops # {},
           task' = [task EXCEPT ![<<n, k>>] = t],
           UNCHANGED <<clock, capture, marked, valueVars, cluster, faults>>,
           oplog' \in [Node -> SUBSET Op], snapshot' \in [Node -> Clock],
           buffer' \in [Node -> [live : BOOLEAN, local : Clock, held : SUBSET Op]],
           pushes' \subseteq pushes
    PROVE  /\ TypeOK' /\ task'[<<n, k>>] = t
           /\ \A m \in Node, j \in Slot : <<m, j>> # <<n, k>> => task'[<<m, j>>] = task[<<m, j>>]
<1>1. /\ task' \in [Node \X Slot -> Task] /\ task'[<<n, k>>] = t
      /\ \A m \in Node, j \in Slot : <<m, j>> # <<n, k>> => task'[<<m, j>>] = task[<<m, j>>]
    BY DEF IInv, TypeOK
<1>2. \A x \in Node \X Slot :
          task'[x].at \in {"seed", "deliver", "log", "apply"} => task'[x].ops # {}
    BY <1>1 DEF IInv, TypeOK
<1> QED BY <1>1, <1>2 DEF IInv, TypeOK, valueVars

LEMMA WriteBatchSnapshotOK ==
    ASSUME IInv, NEW n \in Node, NEW k \in Slot, WriteBatchSnapshot(n, k)
    PROVE  IInv'
<1> DEFINE t == task[<<n, k>>]
           r == [t EXCEPT !.at = IF @ = "write" THEN "count" ELSE "recount"]
           u == Counted(r)
<1>1. /\ t \in Task /\ TaskOK(oplog, oplog[n], t) /\ t.at \in {"write", "rewrite"}
      /\ task' = [task EXCEPT ![<<n, k>>] = u]
      /\ snapshot' = [snapshot EXCEPT ![n] = t.vc]
    BY Here DEF WriteBatchSnapshot
<1>2. r \in Task /\ r.at \in {"count", "recount"}
    BY <1>1 DEF Task
<1>3. TaskOK(oplog, oplog[n], r)
    BY <1>1 DEF TaskOK, Task, Appended
<1>4. u \in Task /\ TaskOK(oplog, oplog[n], u)
    <2> HIDE DEF r
    <2> QED BY <1>2, <1>3, CountedOK
<1>5. t.vc \in Clock /\ Counts(oplog[n], t.vc)
    BY <1>1 DEF TaskOK, Task
<1> HIDE DEF u
<1>6. u.at \in {"seed", "deliver", "log", "apply"} => u.ops # {}
    BY <1>4 DEF TaskOK
<1>7. /\ snapshot' \in [Node -> Clock] /\ snapshot'[n] = t.vc
      /\ \A m \in Node \ {n} : snapshot'[m] = snapshot[m]
    BY <1>1, <1>5 DEF IInv, TypeOK
<1>8. /\ TypeOK' /\ task'[<<n, k>>] = u
      /\ \A m \in Node, j \in Slot : <<m, j>> # <<n, k>> => task'[<<m, j>>] = task[<<m, j>>]
    <2>1. /\ UNCHANGED <<clock, capture, oplog, marked, valueVars, buffer, cluster, faults>>
          /\ pushes' = pushes
        BY DEF WriteBatchSnapshot, netVars
    <2>2. /\ oplog' \in [Node -> SUBSET Op]
          /\ buffer' \in [Node -> [live : BOOLEAN, local : Clock, held : SUBSET Op]]
        BY <2>1 DEF IInv, TypeOK
    <2> QED BY <1>1, <1>4, <1>6, <1>7, <2>1, <2>2, TaskTypes
<1>9. ServerOK(n)'
    <2>1. \A j \in Slot : TaskOK(oplog, oplog[n], task'[<<n, j>>])
        BY <1>4, <1>8 DEF IInv, ServerOK
    <2> QED BY <1>5, <1>7, <2>1 DEF IInv, ServerOK, WriteBatchSnapshot
<1>10. OnlyAt(n)
    BY <1>7, <1>8 DEF OnlyAt, WriteBatchSnapshot
<1>11. pushes' = pushes
    BY DEF WriteBatchSnapshot, netVars
<1> QED BY <1>8, <1>9, <1>10, <1>11, OneServer

LEMMA StatsWriteOK ==
    ASSUME IInv, NEW n \in Node, NEW k \in Slot, StatsWrite(n, k)
    PROVE  IInv'
<1> DEFINE t == task[<<n, k>>]
<1>1. /\ t \in Task /\ TaskOK(oplog, oplog[n], t) /\ t.at = "rebuild"
      /\ task' = [task EXCEPT ![<<n, k>>] = NoTask]
      /\ snapshot' = [snapshot EXCEPT ![n] = t.vc]
      /\ UNCHANGED <<clock, capture, oplog, marked, valueVars, buffer, cluster, faults, pushes>>
    BY Here DEF StatsWrite, netVars
<1>2. t.vc \in Clock /\ Counts(oplog[n], t.vc)
    BY <1>1 DEF TaskOK, Task
<1>3. /\ snapshot' \in [Node -> Clock] /\ snapshot'[n] = t.vc
      /\ \A m \in Node \ {n} : snapshot'[m] = snapshot[m]
    BY <1>1, <1>2 DEF IInv, TypeOK
<1>4. /\ TypeOK' /\ task'[<<n, k>>] = NoTask
      /\ \A m \in Node, j \in Slot : <<m, j>> # <<n, k>> => task'[<<m, j>>] = task[<<m, j>>]
    <2>1. /\ oplog' \in [Node -> SUBSET Op]
          /\ buffer' \in [Node -> [live : BOOLEAN, local : Clock, held : SUBSET Op]]
        BY <1>1 DEF IInv, TypeOK
    <2>2. NoTask.at = "idle"
        BY DEF NoTask
    <2> QED BY <1>1, <1>3, <2>1, <2>2, NoTaskOK, TaskTypes
<1>5. ServerOK(n)'
    <2>1. \A j \in Slot : TaskOK(oplog, oplog[n], task'[<<n, j>>])
        BY <1>4, IdleOK DEF IInv, ServerOK
    <2> QED BY <1>1, <1>2, <1>3, <2>1 DEF IInv, ServerOK
<1>6. OnlyAt(n)
    BY <1>1, <1>3, <1>4 DEF OnlyAt
<1> QED BY <1>1, <1>4, <1>5, <1>6, OneServer

LEMMA LogBatchOK ==
    ASSUME IInv, NEW n \in Node, NEW k \in Slot, LogBatch(n, k)
    PROVE  IInv'
<1> DEFINE t == task[<<n, k>>]
           ops == t.ops
           highest == {op \in ops : \A o \in ops : o.node = op.node => Counter(o) <= Counter(op)}
           u == [t EXCEPT !.at = "count", !.out = highest]
           mine == oplog[n] \cup ops
           new == [oplog EXCEPT ![n] = mine]
<1>1. /\ t \in Task /\ TaskOK(oplog, oplog[n], t) /\ t.at = "log"
      /\ task' = [task EXCEPT ![<<n, k>>] = u]
      /\ oplog' = new
    BY Here DEF LogBatch
<1>2. ops \in SUBSET Op /\ Kept(oplog, ops) /\ ops # {}
    BY <1>1 DEF TaskOK, Task
<1>3. /\ new \in [Node -> SUBSET Op] /\ new[n] = mine
      /\ \A m \in Node : oplog[m] \subseteq new[m]
      /\ \A m \in Node \ {n} : new[m] = oplog[m]
      /\ oplog \in [Node -> SUBSET Op]
    BY <1>2 DEF IInv, TypeOK
<1>4. highest \in SUBSET ops
    OBVIOUS
<1> HIDE DEF highest, new
<1>5. u \in Task
    BY <1>1, <1>2, <1>4 DEF Task
<1>6. \A s \in SUBSET Op : Kept(oplog, s) => Kept(new, s)
    BY <1>3, Grown
<1>7. Kept(new, ops) /\ Kept(new, highest)
    BY <1>2, <1>4, <1>6, KeptSubset
<1>8. TaskOK(new, mine, u)
    BY <1>1, <1>2, <1>4, <1>7 DEF TaskOK, Task, Appended
<1>9. u.at \in {"seed", "deliver", "log", "apply"} => u.ops # {}
    BY <1>8 DEF TaskOK
<1> HIDE DEF u, mine
<1>10. /\ TypeOK' /\ task'[<<n, k>>] = u
       /\ \A m \in Node, j \in Slot : <<m, j>> # <<n, k>> => task'[<<m, j>>] = task[<<m, j>>]
    <2>1. /\ UNCHANGED <<clock, capture, snapshot, marked, valueVars, buffer, cluster, faults>>
          /\ pushes' = pushes
        BY DEF LogBatch, netVars
    <2>2. /\ oplog' \in [Node -> SUBSET Op] /\ snapshot' \in [Node -> Clock]
          /\ buffer' \in [Node -> [live : BOOLEAN, local : Clock, held : SUBSET Op]]
        BY <1>1, <1>3, <2>1 DEF IInv, TypeOK
    <2> QED BY <1>1, <1>5, <1>9, <2>1, <2>2, TaskTypes
<1>11. ServerOK(n)'
    <2>1. ServerOK(n) /\ buffer[n].held \in SUBSET Op /\ oplog[n] \in SUBSET Op
        BY DEF IInv, TypeOK
    <2>2. /\ \A vc : Counts(oplog[n], vc) => Counts(mine, vc)
          /\ \A c : CaptureOK(n, oplog[n], c) => CaptureOK(n, mine, c)
          /\ \A x \in Task : TaskOK(oplog, oplog[n], x) => TaskOK(new, mine, x)
        BY <1>3, Grown
    <2>3. \A j \in Slot : TaskOK(new, mine, task'[<<n, j>>])
        <3> SUFFICES ASSUME NEW j \in Slot
                     PROVE  TaskOK(new, mine, task'[<<n, j>>])
            OBVIOUS
        <3>1. CASE j = k
            BY <1>8, <1>10, <3>1
        <3>2. CASE j # k
            BY <1>10, <2>2, <3>2, Here
        <3> QED BY <3>1, <3>2
    <2>4. Own(n, mine, capture[n]) = Own(n, oplog[n], capture[n])
        BY <1>2 DEF Own, Kept, mine
    <2>5. NumbersOK(n, mine, capture[n], clock[n][n])
        BY <2>1, <2>4 DEF ServerOK, NumbersOK
    <2>6. Kept(new, mine) /\ Kept(new, buffer[n].held)
        <3>1. Kept(new, oplog[n]) /\ Kept(new, buffer[n].held)
            BY <1>6, <2>1 DEF ServerOK
        <3>2. IsFiniteSet(mine)
            BY <1>7, <3>1, FS_Union DEF Kept, mine
        <3> QED BY <1>7, <3>1, <3>2 DEF Kept, mine
    <2>7. /\ oplog'[n] = mine /\ oplog' = new
          /\ capture' = capture /\ clock' = clock /\ buffer' = buffer /\ snapshot' = snapshot
        BY <1>1, <1>3 DEF LogBatch
    <2> QED BY <2>1, <2>2, <2>3, <2>5, <2>6, <2>7 DEF ServerOK
<1>12. OnlyAt(n)
    BY <1>1, <1>3, <1>10 DEF OnlyAt, LogBatch
<1>13. pushes' = pushes
    BY DEF LogBatch, netVars
<1> QED BY <1>10, <1>11, <1>12, <1>13, OneServer

\* Operations in the logs of their authors are told apart by their keys, so a
\* batch has a first one.
LEMMA SameKey ==
    ASSUME IInv, NEW a \in Op, NEW b \in Op, a \in oplog[a.node], b \in oplog[b.node],
           a.node = b.node, Counter(a) = Counter(b)
    PROVE  a = b
<1>1. a.node \in Node /\ ServerOK(a.node)
    BY OpFields DEF IInv
<1>2. a \in Own(a.node, oplog[a.node], capture[a.node]) /\ b \in Own(a.node, oplog[a.node], capture[a.node])
    BY DEF Own
<1> QED BY <1>1, <1>2 DEF ServerOK, NumbersOK

LEMMA FirstExists ==
    ASSUME IInv, NEW ops \in SUBSET Op, Kept(oplog, ops), ops # {}
    PROVE  \E o \in ops : \A x \in ops \ {o} : KeyLess(o, x)
<1> DEFINE nodes == {o.node : o \in ops}
<1>1. nodes \in SUBSET Nat /\ nodes # {}
    BY OpFields, ReplicationAssumption
<1>2. PICK m \in nodes : \A y \in nodes : m <= y
    <2> HIDE DEF nodes
    <2> QED BY <1>1, NatLeast
<1> DEFINE numbers == {Counter(o) : o \in {x \in ops : x.node = m}}
<1>3. numbers \in SUBSET Nat /\ numbers # {}
    BY OpFields
<1>4. PICK i \in numbers : \A y \in numbers : i <= y
    <2> HIDE DEF numbers
    <2> QED BY <1>3, NatLeast
<1>5. PICK o \in ops : o.node = m /\ Counter(o) = i
    OBVIOUS
<1>6. ASSUME NEW x \in ops \ {o}
      PROVE  KeyLess(o, x)
    <2>1. /\ m \in Nat /\ x.node \in Nat /\ m <= x.node
          /\ i \in Nat /\ Counter(x) \in Nat
        BY <1>1, <1>2, <1>3, OpFields
    <2>2. CASE x.node = m
        <3>1. i <= Counter(x)
            BY <1>4, <2>2
        <3>2. Counter(x) # i
            <4>1. o \in oplog[o.node] /\ x \in oplog[x.node]
                BY DEF Kept
            <4> QED BY <1>5, <2>2, <4>1, SameKey
        <3> QED BY <1>5, <2>1, <2>2, <3>1, <3>2 DEF KeyLess
    <2>3. CASE x.node # m
        BY <1>5, <2>1, <2>3 DEF KeyLess
    <2> QED BY <2>2, <2>3
<1> QED BY <1>6

LEMMA DeliverNextOK ==
    ASSUME IInv, NEW n \in Node, NEW k \in Slot, DeliverNext(n, k)
    PROVE  IInv'
<1> DEFINE t == task[<<n, k>>]
           op == CHOOSE o \in t.ops : \A x \in t.ops \ {o} : KeyLess(o, x)
           local == IF buffer[n].live THEN buffer[n].local ELSE t.vc
           held == buffer[n].held
           res == deliver(local, held, op)
           b == [live |-> TRUE, local |-> res.local, held |-> res.held]
           u == [t EXCEPT !.ops = @ \ {op}, !.out = @ \cup res.out,
                          !.at = IF t.ops = {op} THEN "replay" ELSE @]
<1>1. /\ t \in Task /\ TaskOK(oplog, oplog[n], t) /\ t.at = "deliver"
      /\ task' = [task EXCEPT ![<<n, k>>] = u]
      /\ buffer' = [buffer EXCEPT ![n] = b]
    BY Here DEF DeliverNext
<1>2. /\ t.ops \in SUBSET Op /\ Kept(oplog, t.ops) /\ t.ops # {}
      /\ t.out \in SUBSET Op /\ Kept(oplog, t.out) /\ t.vc \in Clock
    BY <1>1 DEF TaskOK, Task
<1>3. op \in t.ops
    BY <1>2, FirstExists
<1> HIDE DEF op
<1>4. /\ buffer[n] \in [live : BOOLEAN, local : Clock, held : SUBSET Op]
      /\ Kept(oplog, held)
    BY DEF IInv, TypeOK, ServerOK
<1>5. local \in Clock /\ held \in SUBSET Op /\ op \in Op
    BY <1>2, <1>3, <1>4
<1>6. Kept(oplog, held \cup {op}) /\ held \cup {op} \in SUBSET Op
    <2>1. IsFiniteSet(held) /\ IsFiniteSet(held \cup {op})
        BY <1>4, FS_AddElement DEF Kept
    <2> QED BY <1>2, <1>3, <1>4, <1>5, <2>1 DEF Kept
<1> HIDE DEF local, held
<1>7. /\ res.local \in Clock
      /\ res.held \in SUBSET (held \cup {op}) /\ res.out \in SUBSET (held \cup {op})
    BY <1>4, <1>5, DeliverOK DEF Kept
<1> HIDE DEF res
<1>8. Kept(oplog, res.held) /\ Kept(oplog, res.out)
    BY <1>6, <1>7, KeptSubset
<1>9. res.held \in SUBSET Op /\ res.out \in SUBSET Op
    BY <1>6, <1>7
<1>10. Kept(oplog, t.ops \ {op}) /\ Kept(oplog, t.out \cup res.out)
    <2>1. Kept(oplog, t.ops \ {op})
        BY <1>2, KeptSubset
    <2>2. IsFiniteSet(t.out \cup res.out)
        BY <1>2, <1>8, FS_Union DEF Kept
    <2> QED BY <1>2, <1>8, <2>1, <2>2 DEF Kept
<1>11. u \in Task
    BY <1>1, <1>2, <1>9 DEF Task
<1>12. TaskOK(oplog, oplog[n], u)
    <2>1. /\ u.ops = t.ops \ {op} /\ u.out = t.out \cup res.out
          /\ u.at = IF t.ops = {op} THEN "replay" ELSE "deliver"
        BY <1>1 DEF Task
    <2>2. u.at # "replay" => u.ops # {}
        BY <1>3, <2>1
    <2> HIDE DEF u
    <2> QED BY <1>10, <2>1, <2>2 DEF TaskOK, Appended
<1>13. u.at \in {"seed", "deliver", "log", "apply"} => u.ops # {}
    BY <1>12 DEF TaskOK
<1> HIDE DEF u
<1>14. /\ buffer' \in [Node -> [live : BOOLEAN, local : Clock, held : SUBSET Op]]
       /\ buffer'[n].held = res.held
       /\ \A m \in Node \ {n} : buffer'[m] = buffer[m]
    BY <1>1, <1>7, <1>9 DEF IInv, TypeOK
<1>15. /\ TypeOK' /\ task'[<<n, k>>] = u
       /\ \A m \in Node, j \in Slot : <<m, j>> # <<n, k>> => task'[<<m, j>>] = task[<<m, j>>]
    <2>1. /\ UNCHANGED <<clock, capture, oplog, snapshot, marked, valueVars, cluster, faults>>
          /\ pushes' = pushes
        BY DEF DeliverNext, netVars
    <2>2. oplog' \in [Node -> SUBSET Op] /\ snapshot' \in [Node -> Clock]
        BY <2>1 DEF IInv, TypeOK
    <2>3. task' = [task EXCEPT ![<<n, k>>] = u] /\ pushes' \subseteq pushes
        BY <1>1, <2>1
    <2>4. buffer' \in [Node -> [live : BOOLEAN, local : Clock, held : SUBSET Op]]
        BY <1>14
    <2> QED BY <1>11, <1>13, <2>1, <2>2, <2>3, <2>4, TaskTypes
<1>16. ServerOK(n)'
    <2>1. \A j \in Slot : TaskOK(oplog, oplog[n], task'[<<n, j>>])
        BY <1>12, <1>15 DEF IInv, ServerOK
    <2> QED BY <1>8, <1>14, <2>1 DEF IInv, ServerOK, DeliverNext
<1>17. OnlyAt(n)
    BY <1>14, <1>15 DEF OnlyAt, DeliverNext
<1>18. pushes' = pushes
    BY DEF DeliverNext, netVars
<1> QED BY <1>15, <1>16, <1>17, <1>18, OneServer

LEMMA ReceivePushOK ==
    ASSUME IInv, NEW n \in Node, NEW k \in Slot, NEW m \in pushes, ReceivePush(n, k, m[1])
    PROVE  IInv'
<1> DEFINE op == m[1]
           t == [task[<<n, k>>] EXCEPT !.at = "log", !.ops = {op}]
<1>1. op \in Op /\ op \in oplog[op.node]
    BY DEF IInv, TypeOK, PushesOK
<1> HIDE DEF op
<1>2. Kept(oplog, {op})
    BY <1>1, FS_Singleton DEF Kept
<1>3. t \in Task
    BY <1>1, Here DEF Task
<1>4. TaskOK(oplog, oplog[n], t)
    BY <1>2, Here DEF TaskOK, Task, Appended
<1>5. task' = [task EXCEPT ![<<n, k>>] = t]
    BY DEF ReceivePush, op
<1> HIDE DEF t
<1> QED BY <1>3, <1>4, <1>5, Here, TaskMoves DEF ReceivePush, valueVars

LEMMA LosePushOK ==
    ASSUME IInv, NEW m \in pushes, LosePush(m[1], m[2])
    PROVE  IInv'
<1>1. UNCHANGED <<clock, capture, oplog, snapshot, buffer, task>>
    BY DEF LosePush
<1>2. TypeOK'
    BY DEF IInv, TypeOK, LosePush, valueVars
<1>3. PushesOK'
    BY DEF IInv, PushesOK, LosePush
<1>4. \A n \in Node : ServerOK(n)'
    BY <1>1 DEF IInv, ServerOK
<1> QED BY <1>2, <1>3, <1>4 DEF IInv

-----------------------------------------------------------------------------
(* Captures and restarts. *)

LEMMA At ==
    ASSUME IInv, NEW n \in Node
    PROVE  /\ ServerOK(n) /\ clock[n] \in Clock /\ clock[n][n] \in Nat
           /\ capture[n] \in SUBSET Capture
           /\ oplog[n] \in SUBSET Op /\ snapshot[n] \in Clock
           /\ buffer[n] \in [live : BOOLEAN, local : Clock, held : SUBSET Op]
           /\ \A k \in Slot : task[<<n, k>>] \in Task
BY DEF IInv, TypeOK, Clock

\* The types, when the captures of server n change.
LEMMA CaptureTypes ==
    ASSUME IInv, NEW n \in Node, NEW caps \in SUBSET Capture,
           capture' = [capture EXCEPT ![n] = caps],
           UNCHANGED <<marked, buffer, task, cluster>>, faults' = faults \/ AnyFault,
           clock' \in [Node -> Clock], oplog' \in [Node -> SUBSET Op],
           snapshot' \in [Node -> Clock], pushes' \subseteq (Op \X Node),
           data' \in [Node -> [Register -> Op \cup {NoOp}]], applied' \in [Node -> SUBSET Op]
    PROVE  /\ TypeOK' /\ capture'[n] = caps
           /\ \A m \in Node \ {n} : capture'[m] = capture[m]
<1>1. cluster' \in Clusters /\ faults' \in 0 .. cluster'.maxFaults
    BY FaultsType DEF IInv
<1>2. /\ capture' \in [Node -> SUBSET Capture] /\ capture'[n] = caps
      /\ \A m \in Node \ {n} : capture'[m] = capture[m]
    BY DEF IInv, TypeOK
<1>3. TypeOK'
    BY <1>1, <1>2 DEF IInv, TypeOK
<1> QED BY <1>2, <1>3

LEMMA StampOK ==
    ASSUME IInv, NEW n \in Node, NEW r \in Register, NEW ts \in Timestamp, Stamp(n, r, ts)
    PROVE  IInv'
<1> DEFINE vc == increment(clock[n], n)
           op == [node |-> n, vc |-> vc, ts |-> ts, reg |-> r]
           c == [at |-> "put", op |-> op, vc |-> EmptyClock]
           caps == capture[n] \cup {c}
<1>1. vc \in Clock /\ vc[n] = clock[n][n] + 1
    BY At DEF increment, Clock
<1>2. op \in Op /\ op.node = n /\ Counter(op) = clock[n][n] + 1
    BY <1>1 DEF Op, Counter
<1>3. /\ clock' = [clock EXCEPT ![n] = vc] /\ capture' = [capture EXCEPT ![n] = caps]
      /\ data' = [data EXCEPT ![n] = [data[n] EXCEPT ![r] = Settled(data[n][r], op)]]
      /\ applied' = [applied EXCEPT ![n] = @ \cup {op}]
      /\ UNCHANGED <<oplog, snapshot, marked, buffer, task, cluster, pushes, faults>>
    BY DEF Stamp, netVars
<1> HIDE DEF op, vc
<1>4. c \in Capture /\ c.op = op /\ c.at = "put"
    BY <1>2, EmptyClockOK DEF Capture
<1> HIDE DEF c
<1>5. caps \in SUBSET Capture
    BY <1>4, At
<1>6. /\ clock' \in [Node -> Clock] /\ clock'[n] = vc
      /\ \A m \in Node \ {n} : clock'[m] = clock[m]
    BY <1>1, <1>3 DEF IInv, TypeOK
<1>7. data' \in [Node -> [Register -> Op \cup {NoOp}]] /\ applied' \in [Node -> SUBSET Op]
    <2>1. /\ data \in [Node -> [Register -> Op \cup {NoOp}]]
          /\ applied \in [Node -> SUBSET Op]
        BY DEF IInv, TypeOK
    <2>2. Settled(data[n][r], op) \in Op \cup {NoOp}
        BY <1>2, <2>1, SettledType
    <2> QED BY <1>2, <1>3, <2>1, <2>2
<1>8. /\ TypeOK' /\ capture'[n] = caps
      /\ \A m \in Node \ {n} : capture'[m] = capture[m]
    <2>1. /\ oplog' \in [Node -> SUBSET Op] /\ snapshot' \in [Node -> Clock]
          /\ pushes' \subseteq (Op \X Node)
        BY <1>3 DEF IInv, TypeOK
    <2> HIDE DEF caps
    <2> QED BY <1>3, <1>5, <1>6, <1>7, <2>1, CaptureTypes
<1>9. NumbersOK(n, oplog[n], caps, clock'[n][n])
    <2>1. Own(n, oplog[n], caps) = Own(n, oplog[n], capture[n]) \cup {op}
        BY <1>4 DEF Own
    <2>2. /\ \A a \in Own(n, oplog[n], capture[n]) : Counter(a) \in 1 .. clock[n][n]
          /\ \A a, b \in Own(n, oplog[n], capture[n]) : Counter(a) = Counter(b) => a = b
        BY At DEF ServerOK, NumbersOK
    <2>3. clock'[n][n] = clock[n][n] + 1 /\ clock[n][n] \in Nat
        BY <1>1, <1>6, At
    <2> HIDE DEF caps
    <2>4. \A a \in Own(n, oplog[n], caps) : Counter(a) \in 1 .. clock'[n][n]
        BY <1>2, <2>1, <2>2, <2>3
    <2>5. \A a, b \in Own(n, oplog[n], caps) : Counter(a) = Counter(b) => a = b
        BY <1>2, <2>1, <2>2, <2>3
    <2> QED BY <2>4, <2>5 DEF NumbersOK
<1>10. \A x \in caps : CaptureOK(n, oplog[n], x)
    BY <1>2, <1>4, At DEF ServerOK, CaptureOK
<1>11. ServerOK(n)'
    BY <1>3, <1>8, <1>9, <1>10, At DEF ServerOK
<1>12. OnlyAt(n)
    BY <1>3, <1>6, <1>8 DEF OnlyAt
<1> QED BY <1>3, <1>8, <1>11, <1>12, OneServer

\* The set of captures after a step of one of them.
LEMMA Swapped ==
    ASSUME IInv, NEW n \in Node, NEW c \in capture[n], NEW d \in Capture, d.op = c.op,
           NEW mine, CaptureOK(n, mine, d), \A x \in capture[n] : CaptureOK(n, mine, x)
    PROVE  LET caps == (capture[n] \ {c}) \cup {d}
           IN  /\ caps \in SUBSET Capture
               /\ Own(n, mine, caps) \subseteq Own(n, mine, capture[n])
               /\ \A x \in caps : CaptureOK(n, mine, x)
BY At DEF Own

\* Fewer operations to tell apart.
LEMMA FewerNumbers ==
    ASSUME NEW n, NEW mine, NEW caps, NEW top, NumbersOK(n, mine, caps, top),
           NEW mine2, NEW caps2, Own(n, mine2, caps2) \subseteq Own(n, mine, caps)
    PROVE  NumbersOK(n, mine2, caps2, top)
BY DEF NumbersOK

LEMMA PutOK ==
    ASSUME IInv, NEW n \in Node, NEW c \in capture[n], Put(n, c)
    PROVE  IInv'
<1> DEFINE d == [c EXCEPT !.at = "count"]
           caps == (capture[n] \ {c}) \cup {d}
           mine == oplog[n] \cup {c.op}
           new == [oplog EXCEPT ![n] = mine]
<1>1. c \in Capture /\ CaptureOK(n, oplog[n], c)
    BY At DEF ServerOK
<1>2. c.op \in Op /\ c.op.node = n
    BY <1>1 DEF Capture, CaptureOK
<1>3. d \in Capture /\ d.op = c.op /\ d.at = "count"
    BY <1>1 DEF Capture
<1>4. /\ oplog' = new /\ capture' = [capture EXCEPT ![n] = caps]
      /\ UNCHANGED <<clock, snapshot, marked, valueVars, buffer, task, cluster, pushes, faults>>
    BY DEF Put, netVars
<1>5. /\ new \in [Node -> SUBSET Op] /\ new[n] = mine
      /\ \A m \in Node : oplog[m] \subseteq new[m]
      /\ \A m \in Node \ {n} : new[m] = oplog[m]
      /\ oplog \in [Node -> SUBSET Op]
    BY <1>2 DEF IInv, TypeOK
<1> HIDE DEF d, new
<1>6. /\ \A s \in SUBSET Op : Kept(oplog, s) => Kept(new, s)
      /\ \A vc : Counts(oplog[n], vc) => Counts(mine, vc)
      /\ \A x : CaptureOK(n, oplog[n], x) => CaptureOK(n, mine, x)
      /\ \A x \in Task : TaskOK(oplog, oplog[n], x) => TaskOK(new, mine, x)
    <2> HIDE DEF mine
    <2> QED BY <1>5, Grown
<1>7. CaptureOK(n, mine, d)
    BY <1>2, <1>3 DEF CaptureOK
<1>8. /\ caps \in SUBSET Capture
      /\ Own(n, mine, caps) \subseteq Own(n, mine, capture[n])
      /\ \A x \in caps : CaptureOK(n, mine, x)
    <2>1. \A x \in capture[n] : CaptureOK(n, mine, x)
        BY <1>6, At DEF ServerOK
    <2> HIDE DEF mine
    <2> QED BY <1>3, <1>7, <2>1, Swapped
<1>9. Own(n, mine, capture[n]) = Own(n, oplog[n], capture[n])
    BY <1>2 DEF Own
<1>10. NumbersOK(n, mine, caps, clock[n][n])
    <2>1. Own(n, mine, caps) \subseteq Own(n, oplog[n], capture[n])
        BY <1>8, <1>9
    <2> HIDE DEF mine, caps
    <2> QED BY <2>1, At, FewerNumbers DEF ServerOK
<1>11. Kept(new, mine) /\ Kept(new, buffer[n].held)
    <2>1. Kept(new, oplog[n]) /\ Kept(new, buffer[n].held)
        BY <1>6, At DEF ServerOK
    <2>2. IsFiniteSet(mine)
        BY <2>1, FS_AddElement DEF Kept
    <2> QED BY <1>2, <1>5, <2>1, <2>2 DEF Kept
<1>12. /\ TypeOK' /\ capture'[n] = caps
       /\ \A m \in Node \ {n} : capture'[m] = capture[m]
    <2>1. /\ clock' \in [Node -> Clock] /\ snapshot' \in [Node -> Clock]
          /\ pushes' \subseteq (Op \X Node)
          /\ data' \in [Node -> [Register -> Op \cup {NoOp}]] /\ applied' \in [Node -> SUBSET Op]
        BY <1>4 DEF IInv, TypeOK, valueVars
    <2>2. oplog' \in [Node -> SUBSET Op]
        BY <1>4, <1>5
    <2>3. /\ capture' = [capture EXCEPT ![n] = caps]
          /\ UNCHANGED <<marked, buffer, task, cluster>> /\ faults' = faults
        BY <1>4
    <2> HIDE DEF caps
    <2> QED BY <1>8, <2>1, <2>2, <2>3, CaptureTypes
<1>13. ServerOK(n)'
    <2>1. \A k \in Slot : TaskOK(new, mine, task[<<n, k>>])
        BY <1>6, At DEF ServerOK
    <2>2. Counts(mine, snapshot[n])
        BY <1>6, At DEF ServerOK
    <2> HIDE DEF mine, caps
    <2> QED BY <1>4, <1>5, <1>8, <1>10, <1>11, <1>12, <2>1, <2>2 DEF ServerOK
<1>14. OnlyAt(n)
    BY <1>4, <1>5, <1>12 DEF OnlyAt
<1> QED BY <1>4, <1>12, <1>13, <1>14, OneServer

\* A capture of server n goes on or ends; its log stays.
LEMMA CaptureMoves ==
    ASSUME IInv, NEW n \in Node, NEW caps \in SUBSET Capture,
           capture' = [capture EXCEPT ![n] = caps],
           Own(n, oplog[n], caps) \subseteq Own(n, oplog[n], capture[n]),
           \A x \in caps : CaptureOK(n, oplog[n], x),
           UNCHANGED <<clock, oplog, marked, valueVars, buffer, task, cluster>>,
           faults' = faults \/ AnyFault,
           NEW vc \in Clock, Counts(oplog[n], vc), snapshot' = [snapshot EXCEPT ![n] = vc],
           \A m \in pushes' : m \in pushes \/ (m \in Op \X Node /\ m[1] \in oplog[m[1].node])
    PROVE  IInv'
<1>1. /\ snapshot' \in [Node -> Clock] /\ snapshot'[n] = vc
      /\ \A m \in Node \ {n} : snapshot'[m] = snapshot[m]
    BY DEF IInv, TypeOK
<1>2. /\ TypeOK' /\ capture'[n] = caps
      /\ \A m \in Node \ {n} : capture'[m] = capture[m]
    <2>1. /\ clock' \in [Node -> Clock] /\ oplog' \in [Node -> SUBSET Op]
          /\ pushes' \subseteq (Op \X Node)
          /\ data' \in [Node -> [Register -> Op \cup {NoOp}]] /\ applied' \in [Node -> SUBSET Op]
        BY DEF IInv, TypeOK, valueVars
    <2> QED BY <1>1, <2>1, CaptureTypes
<1>3. NumbersOK(n, oplog[n], caps, clock[n][n])
    BY At, FewerNumbers DEF ServerOK
<1>4. ServerOK(n)'
    BY <1>1, <1>2, <1>3, At DEF ServerOK
<1>5. OnlyAt(n)
    BY <1>1, <1>2 DEF OnlyAt
<1> QED BY <1>2, <1>4, <1>5, OneServer

LEMMA ReadSnapshotOK ==
    ASSUME IInv, NEW n \in Node, NEW c \in capture[n], ReadSnapshot(n, c)
    PROVE  IInv'
<1> DEFINE new == Raised(snapshot[n], c.op)
           at == IF new = snapshot[n] THEN "current" ELSE "write"
           d == [c EXCEPT !.at = at, !.vc = new]
           caps == (capture[n] \ {c}) \cup {d}
<1>1. c \in Capture /\ CaptureOK(n, oplog[n], c) /\ c.at = "count"
    BY At DEF ServerOK, ReadSnapshot
<1>2. c.op \in oplog[n] /\ c.op.node = n
    BY <1>1 DEF CaptureOK
<1>3. new \in Clock /\ Counts(oplog[n], new)
    BY <1>2, At, RaisedOK DEF ServerOK
<1> HIDE DEF new
<1>4. d \in Capture /\ d.op = c.op /\ d.vc = new
    BY <1>1, <1>3 DEF Capture
<1>5. capture' = [capture EXCEPT ![n] = caps]
    BY DEF ReadSnapshot, new
<1> HIDE DEF d
<1>6. CaptureOK(n, oplog[n], d)
    BY <1>2, <1>3, <1>4 DEF CaptureOK
<1>7. /\ caps \in SUBSET Capture
      /\ Own(n, oplog[n], caps) \subseteq Own(n, oplog[n], capture[n])
      /\ \A x \in caps : CaptureOK(n, oplog[n], x)
    BY <1>4, <1>6, At, Swapped DEF ServerOK
<1>8. snapshot' = [snapshot EXCEPT ![n] = snapshot[n]] /\ Counts(oplog[n], snapshot[n])
    BY At DEF IInv, TypeOK, ServerOK, ReadSnapshot
<1> HIDE DEF caps
<1> QED BY <1>5, <1>7, <1>8, At, CaptureMoves DEF ReadSnapshot, netVars

\* The set of captures after the end of one of them.
LEMMA Removed ==
    ASSUME IInv, NEW n \in Node, NEW c \in capture[n]
    PROVE  LET caps == capture[n] \ {c}
           IN  /\ caps \in SUBSET Capture
               /\ Own(n, oplog[n], caps) \subseteq Own(n, oplog[n], capture[n])
               /\ \A x \in caps : CaptureOK(n, oplog[n], x)
BY At DEF ServerOK, Own

LEMMA WriteSnapshotOK ==
    ASSUME IInv, NEW n \in Node, NEW c \in capture[n], WriteSnapshot(n, c)
    PROVE  IInv'
<1> DEFINE vc == IF c.at = "write" THEN c.vc ELSE snapshot[n]
           caps == capture[n] \ {c}
<1>1. c \in Capture /\ CaptureOK(n, oplog[n], c) /\ c.at \in {"write", "current"}
    BY At DEF ServerOK, WriteSnapshot
<1>2. c.op \in Op /\ c.op \in oplog[n] /\ c.op.node = n
    BY <1>1 DEF CaptureOK, Capture
<1>3. vc \in Clock /\ Counts(oplog[n], vc)
    BY <1>1, At DEF ServerOK, CaptureOK, Capture
<1>4. snapshot' = [snapshot EXCEPT ![n] = vc]
    BY DEF WriteSnapshot, IInv, TypeOK
<1>5. cluster.peers[n] \subseteq Node
    BY ClustersAssumption DEF IInv, TypeOK, Cluster
<1>6. \A m \in pushes' : m \in pushes \/ (m \in Op \X Node /\ m[1] \in oplog[m[1].node])
    <2> SUFFICES ASSUME NEW m \in pushes', m \notin pushes
                 PROVE  m \in Op \X Node /\ m[1] \in oplog[m[1].node]
        OBVIOUS
    <2>1. m \in {c.op} \X cluster.peers[n]
        BY DEF WriteSnapshot
    <2> QED BY <1>2, <1>5, <2>1
<1>7. /\ caps \in SUBSET Capture
      /\ Own(n, oplog[n], caps) \subseteq Own(n, oplog[n], capture[n])
      /\ \A x \in caps : CaptureOK(n, oplog[n], x)
    BY Removed
<1>8. /\ capture' = [capture EXCEPT ![n] = caps]
      /\ UNCHANGED <<clock, oplog, marked, valueVars, buffer, task, cluster>> /\ faults' = faults
    BY DEF WriteSnapshot
<1> HIDE DEF caps, vc
<1> QED BY <1>3, <1>4, <1>6, <1>7, <1>8, CaptureMoves

LEMMA CaptureFailsOK ==
    ASSUME IInv, NEW n \in Node, NEW c \in capture[n], CaptureFails(n, c)
    PROVE  IInv'
<1> DEFINE caps == capture[n] \ {c}
<1>1. /\ caps \in SUBSET Capture
      /\ Own(n, oplog[n], caps) \subseteq Own(n, oplog[n], capture[n])
      /\ \A x \in caps : CaptureOK(n, oplog[n], x)
    BY Removed
<1>2. snapshot' = [snapshot EXCEPT ![n] = snapshot[n]] /\ Counts(oplog[n], snapshot[n])
    BY At DEF IInv, TypeOK, ServerOK, CaptureFails
<1>3. /\ capture' = [capture EXCEPT ![n] = caps]
      /\ UNCHANGED <<clock, oplog, marked, valueVars, buffer, task, cluster, pushes>> /\ AnyFault
    BY DEF CaptureFails, Fault, AnyFault
<1> HIDE DEF caps
<1> QED BY <1>1, <1>2, <1>3, At, CaptureMoves

LEMMA RestartOK ==
    ASSUME IInv, NEW n \in Node, Restart(n)
    PROVE  IInv'
<1> DEFINE built == Rebuilt(oplog[n])
           snap == IF snapshot[n] = EmptyClock THEN built ELSE snapshot[n]
           new == IF built[n] > snap[n] THEN set(snap, n, built[n]) ELSE snap
<1>1. IsFiniteSet(oplog[n]) /\ oplog[n] \in SUBSET Op
    BY At DEF ServerOK, Kept
<1>2. /\ built \in Clock /\ Counts(oplog[n], built)
      /\ \A op \in oplog[n] : Counter(op) <= built[op.node]
    BY <1>1, RebuiltOK
<1> HIDE DEF built
<1>3. snap \in Clock /\ Counts(oplog[n], snap)
    BY <1>2, At DEF ServerOK
<1> HIDE DEF snap
<1>4. new \in Clock /\ new[n] >= built[n] /\ new[n] \in Nat /\ built[n] \in Nat
    BY <1>2, <1>3 DEF set, Clock
<1>5. /\ clock' = [clock EXCEPT ![n] = new] /\ snapshot' = [snapshot EXCEPT ![n] = snap]
      /\ capture' = [capture EXCEPT ![n] = {}] /\ buffer' = [buffer EXCEPT ![n] = NoBuffer]
      /\ task' = [t \in Node \X Slot |-> IF t[1] = n THEN NoTask ELSE task[t]]
      /\ UNCHANGED <<oplog, marked, valueVars, cluster, pushes>> /\ AnyFault
    BY DEF Restart, Fault, AnyFault, snap, built
<1> HIDE DEF new
<1>6. /\ clock' \in [Node -> Clock] /\ clock'[n] = new
      /\ snapshot' \in [Node -> Clock] /\ snapshot'[n] = snap
      /\ capture' \in [Node -> SUBSET Capture] /\ capture'[n] = {}
      /\ \A m \in Node \ {n} :
             clock'[m] = clock[m] /\ snapshot'[m] = snapshot[m] /\ capture'[m] = capture[m]
    BY <1>3, <1>4, <1>5 DEF IInv, TypeOK
<1>7. /\ buffer' \in [Node -> [live : BOOLEAN, local : Clock, held : SUBSET Op]]
      /\ buffer'[n].held = {} /\ \A m \in Node \ {n} : buffer'[m] = buffer[m]
    BY <1>5, EmptyClockOK DEF IInv, TypeOK, NoBuffer
<1>8. /\ task' \in [Node \X Slot -> Task] /\ \A k \in Slot : task'[<<n, k>>] = NoTask
      /\ \A m \in Node \ {n}, k \in Slot : task'[<<m, k>>] = task[<<m, k>>]
    BY <1>5, NoTaskOK DEF IInv, TypeOK
<1>9. TypeOK'
    <2>1. cluster' \in Clusters /\ faults' \in 0 .. cluster'.maxFaults
        BY <1>5, FaultsType DEF IInv
    <2>2. \A x \in Node \X Slot :
              task'[x].at \in {"seed", "deliver", "log", "apply"} => task'[x].ops # {}
        BY <1>5 DEF IInv, TypeOK, NoTask
    <2> QED BY <1>5, <1>6, <1>7, <1>8, <2>1, <2>2 DEF IInv, TypeOK, valueVars
<1>10. NumbersOK(n, oplog[n], {}, new[n])
    <2>1. \A op \in Own(n, oplog[n], {}) : Counter(op) \in 1 .. new[n]
        <3> SUFFICES ASSUME NEW op \in Own(n, oplog[n], {})
                     PROVE  Counter(op) \in 1 .. new[n]
            OBVIOUS
        <3>1. op \in oplog[n] /\ op.node = n /\ op \in Own(n, oplog[n], capture[n])
            BY DEF Own
        <3>2. Counter(op) \in 1 .. clock[n][n]
            BY <3>1, At DEF ServerOK, NumbersOK
        <3>3. Counter(op) <= built[n] /\ clock[n][n] \in Nat
            BY <1>2, <3>1, At
        <3> QED BY <1>4, <3>2, <3>3
    <2>2. Own(n, oplog[n], {}) \subseteq Own(n, oplog[n], capture[n])
        BY DEF Own
    <2> QED BY <2>1, <2>2, At DEF ServerOK, NumbersOK
<1>11. ServerOK(n)'
    <2>1. Kept(oplog, {})
        BY FS_EmptySet DEF Kept
    <2>2. \A k \in Slot : TaskOK(oplog, oplog[n], task'[<<n, k>>])
        BY <1>8, IdleOK
    <2> QED BY <1>3, <1>5, <1>6, <1>7, <1>10, <2>1, <2>2, At DEF ServerOK
<1>12. OnlyAt(n)
    BY <1>5, <1>6, <1>7, <1>8 DEF OnlyAt
<1> QED BY <1>5, <1>9, <1>11, <1>12, OneServer

-----------------------------------------------------------------------------
(* The invariant holds. *)

LEMMA InitOK ==
    ASSUME Init
    PROVE  IInv
<1>1. EmptyClock \in Clock /\ \A n \in Node : EmptyClock[n] = 0
    BY EmptyClockOK
<1>2. TypeOK
    <2>1. faults \in 0 .. cluster.maxFaults
        BY ClustersAssumption DEF Init, Cluster
    <2>2. /\ task \in [Node \X Slot -> Task]
          /\ \A t \in Node \X Slot : task[t].at = "idle"
        BY NoTaskOK DEF Init, NoTask
    <2>3. /\ buffer \in [Node -> [live : BOOLEAN, local : Clock, held : SUBSET Op]]
          /\ data \in [Node -> [Register -> Op \cup {NoOp}]]
        BY <1>1 DEF Init, NoBuffer
    <2> QED BY <1>1, <2>1, <2>2, <2>3 DEF Init, TypeOK
<1>3. PushesOK
    BY DEF Init, PushesOK
<1>4. ASSUME NEW n \in Node
      PROVE  ServerOK(n)
    <2>1. Kept(oplog, {})
        BY FS_EmptySet DEF Kept
    <2>2. Counts({}, EmptyClock)
        BY <1>1 DEF Counts
    <2>3. NumbersOK(n, {}, {}, 0)
        BY DEF NumbersOK, Own
    <2>4. /\ oplog[n] = {} /\ capture[n] = {} /\ snapshot[n] = EmptyClock /\ clock[n][n] = 0
          /\ buffer[n].held = {} /\ \A k \in Slot : task[<<n, k>>] = NoTask
        BY <1>1 DEF Init, NoBuffer
    <2> QED BY <2>1, <2>2, <2>3, <2>4, IdleOK DEF ServerOK
<1> QED BY <1>2, <1>3, <1>4 DEF IInv

LEMMA NextOK ==
    ASSUME IInv, [Next]_vars
    PROVE  IInv'
<1>1. ASSUME NEW n \in Node, CaptureStep(n)
      PROVE  IInv'
    BY <1>1, PutOK, ReadSnapshotOK, WriteSnapshotOK DEF CaptureStep
<1>2. ASSUME NEW n \in Node, NEW k \in Slot, TaskStep(n, k)
      PROVE  IInv'
    BY <1>2, ReadSeedOK, DeliverNextOK, ReplayOK, LogBatchOK, ReadBatchSnapshotOK,
       WriteBatchSnapshotOK, ReadStoredOK, WriteStoredOK, StatsScanOK, StatsWriteOK DEF TaskStep
<1>3. ASSUME NEW n \in Node, FaultStep(n)
      PROVE  IInv'
    BY <1>3, CaptureFailsOK, SeedFailsOK, EndOK, ApplyFailsOK, RecountFailsOK, RestartOK DEF FaultStep
<1>4. CASE UNCHANGED vars
    <2>1. UNCHANGED <<clock, capture, oplog, snapshot, marked, data, applied, buffer, task,
                      cluster, pushes, faults>>
        BY <1>4 DEF vars, valueVars, netVars
    <2>2. TypeOK'
        BY <2>1 DEF IInv, TypeOK
    <2>3. PushesOK' /\ \A n \in Node : ServerOK(n)'
        BY <2>1 DEF IInv, PushesOK, ServerOK
    <2> QED BY <2>2, <2>3 DEF IInv
<1> QED BY <1>1, <1>2, <1>3, <1>4, StampOK, RequestOK, ServeOK, EndOK, StatsBeginOK, ReceivePushOK,
        LosePushOK
        DEF Next

\* Logs, snapshots, captures and tasks agree, whatever stops, fails or is lost.
THEOREM Inductive == Spec => []IInv
<1>1. Init => IInv
    BY InitOK
<1>2. IInv /\ [Next]_vars => IInv'
    BY NextOK
<1> QED BY <1>1, <1>2, PTL DEF Spec

-----------------------------------------------------------------------------
(* The theorems. *)

\* Logs, clocks, buffers and tasks keep their types, and a task that delivers,
\* appends or applies has something to do, for every cluster.
THEOREM TypeCorrect == Spec => []TypeOK
<1>1. IInv => TypeOK
    BY DEF IInv
<1> QED BY <1>1, Inductive, PTL

\* Every operation that is anywhere is in the log of its author, except those a
\* capture has not put yet.
LEMMA Visible ==
    ASSUME IInv, NEW op,
           \/ op \in Logged \/ op \in {m[1] : m \in pushes}
           \/ op \in UNION {{c.op : c \in capture[n]} : n \in Node}
           \/ op \in UNION {buffer[n].held \cup InProgress(n) : n \in Node}
    PROVE  op.node \in Node /\ op \in Own(op.node, oplog[op.node], capture[op.node])
<1>1. ASSUME op \in Op, op \in oplog[op.node]
      PROVE  op.node \in Node /\ op \in Own(op.node, oplog[op.node], capture[op.node])
    BY <1>1, OpFields DEF Own
<1>2. ASSUME NEW ops \in SUBSET Op, Kept(oplog, ops), op \in ops
      PROVE  op.node \in Node /\ op \in Own(op.node, oplog[op.node], capture[op.node])
    BY <1>1, <1>2 DEF Kept
<1>3. CASE op \in Logged
    <2>1. PICK n \in Node : op \in oplog[n]
        BY <1>3 DEF Logged, Range, IInv, TypeOK
    <2> QED BY <1>2, <2>1, At DEF ServerOK
<1>4. CASE op \in {m[1] : m \in pushes}
    <2>1. op \in Op /\ op \in oplog[op.node]
        BY <1>4 DEF IInv, PushesOK, TypeOK
    <2> QED BY <1>1, <2>1
<1>5. CASE op \in UNION {{c.op : c \in capture[n]} : n \in Node}
    <2>1. PICK n \in Node : \E c \in capture[n] : c.op = op
        BY <1>5
    <2>2. op.node = n
        BY <2>1, At DEF ServerOK, CaptureOK
    <2> QED BY <2>1, <2>2 DEF Own
<1>6. CASE op \in UNION {buffer[n].held \cup InProgress(n) : n \in Node}
    <2>1. PICK n \in Node : op \in buffer[n].held \/ op \in InProgress(n)
        BY <1>6
    <2>2. CASE op \in buffer[n].held
        <3>1. buffer[n].held \in SUBSET Op /\ Kept(oplog, buffer[n].held)
            BY At DEF ServerOK
        <3> QED BY <1>2, <2>2, <3>1
    <2>3. CASE op \in InProgress(n)
        <3>1. PICK k \in Slot : op \in task[<<n, k>>].ops \/ op \in task[<<n, k>>].out
            BY <2>3 DEF InProgress
        <3>2. /\ task[<<n, k>>].ops \in SUBSET Op /\ Kept(oplog, task[<<n, k>>].ops)
              /\ task[<<n, k>>].out \in SUBSET Op /\ Kept(oplog, task[<<n, k>>].out)
            BY Here DEF Task, TaskOK
        <3> QED BY <1>2, <3>1, <3>2
    <2> QED BY <2>1, <2>2, <2>3
<1> QED BY <1>3, <1>4, <1>5, <1>6

\* No sequence number names two operations, wherever a server stops: the number
\* a server starts again with is above all that have left it.
THEOREM SequenceNeverReusedHolds == Spec => []SequenceNeverReused
<1>1. IInv => SequenceNeverReused
    <2> DEFINE visible == Logged \cup {m[1] : m \in pushes}
                     \cup (UNION {{c.op : c \in capture[n]} : n \in Node})
                     \cup (UNION {buffer[n].held \cup InProgress(n) : n \in Node})
    <2>1. SUFFICES ASSUME IInv, NEW a \in visible, NEW b \in visible,
                          a.node = b.node, Counter(a) = Counter(b)
                   PROVE  a = b
        BY DEF SequenceNeverReused
    <2>2. /\ a.node \in Node /\ a \in Own(a.node, oplog[a.node], capture[a.node])
          /\ b \in Own(b.node, oplog[b.node], capture[b.node])
        BY <2>1, Visible
    <2>3. NumbersOK(a.node, oplog[a.node], capture[a.node], clock[a.node][a.node])
        BY <2>1, <2>2, At DEF ServerOK
    <2> HIDE DEF visible
    <2> QED BY <2>1, <2>2, <2>3 DEF NumbersOK
<1> QED BY <1>1, Inductive, PTL

\* Every entry of a snapshot is the number of an operation in the log, although
\* its read and its write are two steps.
THEOREM SnapshotWithinLogHolds == Spec => []SnapshotWithinLog
<1>1. IInv => SnapshotWithinLog
    BY DEF IInv, ServerOK, Counts, SnapshotWithinLog
<1> QED BY <1>1, Inductive, PTL

-----------------------------------------------------------------------------
(* Pulls alone: a second invariant, of a cluster that does not push, until  *)
(* the first fault.                                                        *)

\* The clock of the causal buffer, which no operation passes unseen.
Reached(b) == IF b.live THEN b.local ELSE EmptyClock

\* What a task is about to append; what the buffer has released to a pull that
\* has not replayed it yet.
Lands(t) == IF t.at = "log" THEN t.ops ELSE {}

Frees(t) == IF t.at \in {"deliver", "replay"} THEN t.out ELSE {}

\* The same of all tasks of a server; what it has logged is added to the first.
Landing(mine, tasks) == mine \cup (UNION {Lands(tasks[k]) : k \in Slot})

Released(tasks) == UNION {Frees(tasks[k]) : k \in Slot}

\* The clock counts nothing of another server that is not in r.
Below(n, vc, r) == \A m \in Node \ {n} : vc[m] <= r[m]

CarriedOK(n, ops, r) == \A op \in ops : op.node # n => Counter(op) <= r[op.node]

\* Numbers are counted one by one, each when its operation is in the log of
\* its author.
OneByOne(n, log, r) ==
    \A m \in Node \ {n} : \A i \in 1 .. r[m] : \E op \in log[m] : op.node = m /\ Counter(op) = i

\* An operation lost its register in a batch to one of `ops`.
Lost(logged, op, ops) ==
    \E w \in ops \ {op}, group \in SUBSET Group(logged, op.reg) :
        op \in group /\ w \in Winners(group)

\* What r counts is there, or lost to something that is.
Accounted(n, logged, r, land, released) ==
    \A op \in logged :
        op.node # n /\ Counter(op) <= r[op.node] =>
            op \in land \cup released \/ Lost(logged, op, land)

\* Nothing is released before the buffer exists, and its seed is empty.
PullTaskOK(n, b, t) ==
    /\ t.at \in {"idle", "asked", "seed", "scan", "rebuild"} => t.out = {}
    /\ ~b.live => /\ t.at \in {"idle", "asked", "seed", "deliver", "scan", "rebuild"}
                  /\ t.out = {}
                  /\ t.at = "deliver" => Below(n, t.vc, EmptyClock)
    /\ t.at \in {"write", "rewrite", "rebuild"} => Below(n, t.vc, Reached(b))

\* Server n, its snapshot, captures, buffer, tasks and marks.
PullOK(n, log, snap, captures, b, tasks, marks) ==
    /\ Below(n, snap, Reached(b))
    /\ \A c \in captures : c.at = "write" => Below(n, c.vc, Reached(b))
    /\ \A k \in Slot : PullTaskOK(n, b, tasks[k])
    /\ CarriedOK(n, Landing(log[n], tasks) \cup Released(tasks), Reached(b))
    /\ marks \subseteq Landing(log[n], tasks)
    /\ OneByOne(n, log, Reached(b))
    /\ Accounted(n, UNION Range(log), Reached(b), Landing(log[n], tasks), Released(tasks))

Tasks(n) == [k \in Slot |-> task[<<n, k>>]]

PullsOK(n) == PullOK(n, oplog, snapshot[n], capture[n], buffer[n], Tasks(n), marked[n])

PInv ==
    ~cluster.realtime_push /\ faults = 0 => pushes = {} /\ \A n \in Node : PullsOK(n)

-----------------------------------------------------------------------------
(* Steps that change one server. *)

\* Every operation that is logged is in the log of its author.
LEMMA LoggedOK ==
    ASSUME IInv
    PROVE  /\ UNION Range(oplog) \in SUBSET Op
           /\ \A n \in Node : oplog[n] \subseteq UNION Range(oplog)
           /\ \A op \in UNION Range(oplog) : op.node \in Node /\ op \in oplog[op.node]
<1>1. oplog \in [Node -> SUBSET Op]
    BY DEF IInv, TypeOK
<1>2. /\ UNION Range(oplog) \in SUBSET Op
      /\ \A n \in Node : oplog[n] \subseteq UNION Range(oplog)
    BY <1>1 DEF Range
<1>3. ASSUME NEW op \in UNION Range(oplog)
      PROVE  op.node \in Node /\ op \in oplog[op.node]
    <2>1. PICK n \in Node : op \in oplog[n]
        BY <1>1 DEF Range
    <2>2. Kept(oplog, oplog[n]) /\ op \in Op
        BY <1>1, <2>1, At DEF ServerOK
    <2> QED BY <2>1, <2>2, OpFields DEF Kept
<1> QED BY <1>2, <1>3

LEMMA InLanding ==
    ASSUME NEW mine, NEW tasks, NEW op
    PROVE  /\ op \in Landing(mine, tasks) <=>
                  op \in mine \/ \E k \in Slot : op \in Lands(tasks[k])
           /\ op \in Released(tasks) <=> \E k \in Slot : op \in Frees(tasks[k])
BY DEF Landing, Released

\* A task goes on that carries the same.
LEMMA SameCarried ==
    ASSUME NEW n, NEW log, NEW snap, NEW captures, NEW b, NEW tasks, NEW marks,
           PullOK(n, log, snap, captures, b, tasks, marks),
           DOMAIN tasks = Slot, NEW k \in Slot, NEW t, PullTaskOK(n, b, t),
           Lands(t) = Lands(tasks[k]), Frees(t) = Frees(tasks[k])
    PROVE  PullOK(n, log, snap, captures, b, [tasks EXCEPT ![k] = t], marks)
<1> DEFINE new == [tasks EXCEPT ![k] = t]
<1>1. new[k] = t /\ \A j \in Slot \ {k} : new[j] = tasks[j]
    OBVIOUS
<1> HIDE DEF new
<1>2. Landing(log[n], new) = Landing(log[n], tasks) /\ Released(new) = Released(tasks)
    <2>1. \A j \in Slot : Lands(new[j]) = Lands(tasks[j]) /\ Frees(new[j]) = Frees(tasks[j])
        BY <1>1
    <2> QED BY <2>1 DEF Landing, Released
<1>3. \A j \in Slot : PullTaskOK(n, b, new[j])
    BY <1>1 DEF PullOK
<1>4. PullOK(n, log, snap, captures, b, new, marks)
    BY <1>2, <1>3 DEF PullOK
<1> QED BY <1>4 DEF new

LEMMA TasksSet ==
    ASSUME IInv, NEW n \in Node, NEW k \in Slot, NEW t, task' = [task EXCEPT ![<<n, k>>] = t]
    PROVE  /\ Tasks(n)' = [Tasks(n) EXCEPT ![k] = t]
           /\ \A m \in Node \ {n} : Tasks(m)' = Tasks(m)
           /\ DOMAIN Tasks(n) = Slot /\ Tasks(n)[k] = task[<<n, k>>]
           /\ \A j \in Slot : Tasks(n)[j] = task[<<n, j>>]
BY DEF IInv, TypeOK, Tasks

\* A step of server n that leaves the logs alone.
LEMMA PullMoves ==
    ASSUME IInv, PInv, ~cluster.realtime_push, faults = 0, NEW n \in Node,
           oplog' = oplog, pushes' = pushes,
           \A m \in Node \ {n} :
               /\ snapshot'[m] = snapshot[m] /\ capture'[m] = capture[m]
               /\ buffer'[m] = buffer[m] /\ Tasks(m)' = Tasks(m) /\ marked'[m] = marked[m],
           PullOK(n, oplog, snapshot'[n], capture'[n], buffer'[n], Tasks(n)', marked'[n])
    PROVE  PInv'
<1>1. pushes' = {} /\ \A m \in Node : PullsOK(m)
    BY DEF PInv
<1>2. \A m \in Node \ {n} : PullsOK(m)'
    BY <1>1 DEF PullsOK
<1>3. PullsOK(n)'
    BY DEF PullsOK
<1> QED BY <1>1, <1>2, <1>3 DEF PInv

\* A task of server n goes on; it carries the same, and nothing else of what
\* pulls depend on changes.
LEMMA PullTaskMoves ==
    ASSUME IInv, PInv, ~cluster.realtime_push, faults = 0, NEW n \in Node, NEW k \in Slot, NEW t,
           task' = [task EXCEPT ![<<n, k>>] = t],
           UNCHANGED <<oplog, snapshot, capture, buffer, marked, pushes>>,
           PullTaskOK(n, buffer[n], t),
           Lands(t) = Lands(task[<<n, k>>]), Frees(t) = Frees(task[<<n, k>>])
    PROVE  PInv'
<1>1. PullsOK(n)
    BY DEF PInv
<1>2. PullOK(n, oplog, snapshot[n], capture[n], buffer[n], [Tasks(n) EXCEPT ![k] = t], marked[n])
    BY <1>1, TasksSet, SameCarried DEF PullsOK
<1>3. Tasks(n)' = [Tasks(n) EXCEPT ![k] = t] /\ \A m \in Node \ {n} : Tasks(m)' = Tasks(m)
    BY TasksSet
<1>4. PullOK(n, oplog, snapshot'[n], capture'[n], buffer'[n], Tasks(n)', marked'[n])
    BY <1>2, <1>3
<1>5. \A m \in Node \ {n} :
          /\ snapshot'[m] = snapshot[m] /\ capture'[m] = capture[m]
          /\ buffer'[m] = buffer[m] /\ Tasks(m)' = Tasks(m) /\ marked'[m] = marked[m]
    BY <1>3
<1> QED BY <1>4, <1>5, PullMoves

-----------------------------------------------------------------------------
(* The steps of tasks, captures and the buffer, one by one. *)

LEMMA PullsHere ==
    ASSUME PInv, ~cluster.realtime_push, faults = 0, NEW n \in Node, NEW k \in Slot
    PROVE  /\ PullsOK(n) /\ PullTaskOK(n, buffer[n], task[<<n, k>>])
           /\ Below(n, snapshot[n], Reached(buffer[n]))
<1>1. PullsOK(n)
    BY DEF PInv
<1>2. Tasks(n)[k] = task[<<n, k>>]
    BY DEF Tasks
<1> QED BY <1>1, <1>2 DEF PullsOK, PullOK

LEMMA IdlePull ==
    ASSUME NEW n, NEW b
    PROVE  PullTaskOK(n, b, NoTask) /\ Lands(NoTask) = {} /\ Frees(NoTask) = {}
BY DEF PullTaskOK, NoTask, Lands, Frees

LEMMA PullRequest ==
    ASSUME IInv, PInv, ~cluster.realtime_push, faults = 0,
           NEW n \in Node, NEW k \in Slot, NEW p \in Node, Request(n, k, p)
    PROVE  PInv'
<1> DEFINE old == task[<<n, k>>]
           t == [old EXCEPT !.at = "asked", !.peer = p, !.vc = snapshot[n]]
<1>1. old = NoTask /\ old \in Task
    BY Here DEF Request
<1>2. t.at = "asked" /\ t.out = {}
    BY <1>1 DEF NoTask
<1>3. task' = [task EXCEPT ![<<n, k>>] = t]
    BY DEF Request
<1> HIDE DEF t
<1>4. PullTaskOK(n, buffer[n], t) /\ Lands(t) = {} /\ Frees(t) = {}
    BY <1>2 DEF PullTaskOK, Lands, Frees
<1> QED BY <1>1, <1>3, <1>4, IdlePull, PullTaskMoves DEF Request, netVars

LEMMA PullServe ==
    ASSUME IInv, PInv, ~cluster.realtime_push, faults = 0,
           NEW n \in Node, NEW k \in Slot, NEW p \in Node, Serve(n, k, p)
    PROVE  PInv'
<1> DEFINE old == task[<<n, k>>]
           ops == get_missing_operations(oplog[p], old.vc)
           s == [old EXCEPT !.at = IF buffer[n].live THEN "deliver" ELSE "seed", !.ops = ops]
           t == IF ops = {} THEN NoTask ELSE s
<1>1. old \in Task /\ old.at = "asked" /\ old.out = {}
    BY Here, PullsHere DEF Serve, PullTaskOK
<1>2. task' = [task EXCEPT ![<<n, k>>] = t]
    BY DEF Serve
<1> HIDE DEF ops
<1>3. /\ s.at = (IF buffer[n].live THEN "deliver" ELSE "seed") /\ s.out = {}
    BY <1>1 DEF Task
<1> HIDE DEF s
<1>4. PullTaskOK(n, buffer[n], s) /\ Lands(s) = {} /\ Frees(s) = {}
    BY <1>3 DEF PullTaskOK, Lands, Frees
<1>5. PullTaskOK(n, buffer[n], t) /\ Lands(t) = {} /\ Frees(t) = {}
    BY <1>4, IdlePull
<1>6. Lands(old) = {} /\ Frees(old) = {}
    BY <1>1 DEF Lands, Frees
<1> HIDE DEF t
<1> QED BY <1>2, <1>5, <1>6, PullTaskMoves DEF Serve, netVars

LEMMA PullFail ==
    ASSUME IInv, PInv, ~cluster.realtime_push, faults = 0,
           NEW n \in Node, NEW k \in Slot, Fail(n, k)
    PROVE  PInv'
<1>1. Lands(task[<<n, k>>]) = {} /\ Frees(task[<<n, k>>]) = {}
    BY DEF Fail, Lands, Frees
<1> QED BY <1>1, IdlePull, PullTaskMoves DEF Fail, netVars

LEMMA PullReadSeed ==
    ASSUME IInv, PInv, ~cluster.realtime_push, faults = 0,
           NEW n \in Node, NEW k \in Slot, ReadSeed(n, k)
    PROVE  PInv'
<1> DEFINE old == task[<<n, k>>]
           t == [old EXCEPT !.at = "deliver", !.vc = snapshot[n]]
<1>1. old \in Task /\ old.at = "seed" /\ old.out = {}
    BY Here, PullsHere DEF ReadSeed, PullTaskOK
<1>2. task' = [task EXCEPT ![<<n, k>>] = t]
    BY DEF ReadSeed
<1>3. t.at = "deliver" /\ t.out = {} /\ t.vc = snapshot[n]
    BY <1>1 DEF Task
<1> HIDE DEF t
<1>4. ~buffer[n].live => Below(n, t.vc, EmptyClock)
    BY <1>3, PullsHere DEF Reached
<1>5. PullTaskOK(n, buffer[n], t) /\ Lands(t) = {} /\ Frees(t) = {}
    BY <1>3, <1>4 DEF PullTaskOK, Lands, Frees
<1>6. Lands(old) = {} /\ Frees(old) = {}
    BY <1>1 DEF Lands, Frees
<1> QED BY <1>2, <1>5, <1>6, PullTaskMoves DEF ReadSeed, netVars

LEMMA PullStatsBegin ==
    ASSUME IInv, PInv, ~cluster.realtime_push, faults = 0,
           NEW n \in Node, NEW k \in Slot, StatsBegin(n, k)
    PROVE  PInv'
<1> DEFINE t == [task[<<n, k>>] EXCEPT !.at = "scan"]
<1>1. task[<<n, k>>] = NoTask /\ task' = [task EXCEPT ![<<n, k>>] = t]
    BY DEF StatsBegin
<1>2. t.at = "scan" /\ t.out = {}
    BY <1>1 DEF NoTask
<1> HIDE DEF t
<1>3. PullTaskOK(n, buffer[n], t) /\ Lands(t) = {} /\ Frees(t) = {}
    BY <1>2 DEF PullTaskOK, Lands, Frees
<1> QED BY <1>1, <1>3, IdlePull, PullTaskMoves DEF StatsBegin, netVars

\* What a rebuilt snapshot counts, the buffer has released.
LEMMA PullStatsScan ==
    ASSUME IInv, PInv, ~cluster.realtime_push, faults = 0,
           NEW n \in Node, NEW k \in Slot, StatsScan(n, k)
    PROVE  PInv'
<1> DEFINE old == task[<<n, k>>]
           built == Rebuilt(oplog[n])
           t == [old EXCEPT !.at = "rebuild", !.vc = built]
<1>1. old \in Task /\ old.at = "scan" /\ old.out = {}
    BY Here, PullsHere DEF StatsScan, PullTaskOK
<1>2. task' = [task EXCEPT ![<<n, k>>] = t]
    BY DEF StatsScan
<1>3. built \in Clock /\ Counts(oplog[n], built)
    BY Here, RebuiltOK DEF Kept
<1> HIDE DEF built
<1>4. t.at = "rebuild" /\ t.out = {} /\ t.vc = built
    BY <1>1 DEF Task
<1> HIDE DEF t
<1>5. Below(n, built, Reached(buffer[n]))
    <2> SUFFICES ASSUME NEW m \in Node \ {n}
                 PROVE  built[m] <= Reached(buffer[n])[m]
        BY DEF Below
    <2>1. built[m] \in Nat /\ Reached(buffer[n])[m] \in Nat
        BY <1>3, EmptyClockOK DEF Clock, Reached, IInv, TypeOK
    <2>2. CASE built[m] > 0
        <3>1. PICK op \in oplog[n] : op.node = m /\ Counter(op) = built[m]
            BY <1>3, <2>2 DEF Counts
        <3>2. op \in Landing(oplog[n], Tasks(n))
            BY DEF Landing
        <3> QED BY <3>1, <3>2, PullsHere DEF PullsOK, PullOK, CarriedOK
    <2> QED BY <2>1, <2>2
<1>6. PullTaskOK(n, buffer[n], t) /\ Lands(t) = {} /\ Frees(t) = {}
    BY <1>4, <1>5 DEF PullTaskOK, Lands, Frees
<1>7. Lands(old) = {} /\ Frees(old) = {}
    BY <1>1 DEF Lands, Frees
<1> QED BY <1>2, <1>6, <1>7, PullTaskMoves DEF StatsScan, netVars

LEMMA PullStatsWrite ==
    ASSUME IInv, PInv, ~cluster.realtime_push, faults = 0,
           NEW n \in Node, NEW k \in Slot, StatsWrite(n, k)
    PROVE  PInv'
<1> DEFINE old == task[<<n, k>>]
<1>1. /\ old \in Task /\ old.at = "rebuild"
      /\ task' = [task EXCEPT ![<<n, k>>] = NoTask]
      /\ snapshot' = [snapshot EXCEPT ![n] = old.vc]
      /\ UNCHANGED <<oplog, capture, buffer, marked, pushes>>
    BY Here DEF StatsWrite, netVars
<1>2. Below(n, old.vc, Reached(buffer[n]))
    BY <1>1, PullsHere DEF PullTaskOK
<1>3. Lands(old) = {} /\ Frees(old) = {}
    BY <1>1 DEF Lands, Frees
<1>4. PullOK(n, oplog, snapshot[n], capture[n], buffer[n], [Tasks(n) EXCEPT ![k] = NoTask], marked[n])
    BY <1>1, <1>3, IdlePull, PullsHere, TasksSet, SameCarried DEF PullsOK
<1>5. Tasks(n)' = [Tasks(n) EXCEPT ![k] = NoTask] /\ \A m \in Node \ {n} : Tasks(m)' = Tasks(m)
    BY <1>1, TasksSet
<1>6. snapshot'[n] = old.vc /\ \A m \in Node \ {n} : snapshot'[m] = snapshot[m]
    BY <1>1 DEF IInv, TypeOK
<1>7. PullOK(n, oplog, snapshot'[n], capture'[n], buffer'[n], Tasks(n)', marked'[n])
    <2>1. PullOK(n, oplog, old.vc, capture[n], buffer[n], [Tasks(n) EXCEPT ![k] = NoTask], marked[n])
        BY <1>2, <1>4 DEF PullOK
    <2> QED BY <1>1, <1>5, <1>6, <2>1
<1>8. \A m \in Node \ {n} :
          /\ snapshot'[m] = snapshot[m] /\ capture'[m] = capture[m]
          /\ buffer'[m] = buffer[m] /\ Tasks(m)' = Tasks(m) /\ marked'[m] = marked[m]
    BY <1>1, <1>5, <1>6
<1> QED BY <1>1, <1>7, <1>8, PullMoves

\* A task that has appended carries nothing that is not logged.
LEMMA PastLog ==
    ASSUME NEW n, NEW b, NEW t, b.live, t.at \in Appended \/ t = NoTask,
           t.at \in {"write", "rewrite"} => Below(n, t.vc, Reached(b))
    PROVE  PullTaskOK(n, b, t) /\ Lands(t) = {} /\ Frees(t) = {}
<1>1. CASE t = NoTask
    BY <1>1, IdlePull
<1>2. CASE t.at \in Appended
    BY <1>2 DEF Appended, PullTaskOK, Lands, Frees
<1> QED BY <1>1, <1>2

\* A put only goes on when the buffer exists.
LEMMA PutIsLive ==
    ASSUME NEW n, NEW b, NEW t, PullTaskOK(n, b, t), t.at \in Appended \cup {"log", "replay"}
    PROVE  b.live
BY DEF PullTaskOK, Appended

\* What the snapshot is raised to, the buffer has released.
LEMMA RaisedBelow ==
    ASSUME IInv, PInv, ~cluster.realtime_push, faults = 0, NEW n \in Node, NEW k \in Slot,
           NEW op \in oplog[n]
    PROVE  Below(n, Raised(snapshot[n], op), Reached(buffer[n]))
<1>1. op \in Op /\ op.node \in Node /\ snapshot[n] \in Clock
    BY At, OpFields
<1>2. op.node # n => Counter(op) <= Reached(buffer[n])[op.node]
    <2>1. op \in Landing(oplog[n], Tasks(n))
        BY DEF Landing
    <2> QED BY <2>1, PullsHere DEF PullsOK, PullOK, CarriedOK
<1>3. CASE Counter(op) > snapshot[n][op.node]
    <2>1. Raised(snapshot[n], op) = [snapshot[n] EXCEPT ![op.node] = Counter(op)]
        BY <1>3 DEF Raised, set
    <2> QED BY <1>1, <1>2, <2>1, PullsHere DEF Below, Clock
<1>4. CASE ~(Counter(op) > snapshot[n][op.node])
    BY <1>4, PullsHere DEF Raised
<1> QED BY <1>3, <1>4

\* A task in the midst of a put goes on or ends.
LEMMA PullPut ==
    ASSUME IInv, PInv, ~cluster.realtime_push, faults = 0, NEW n \in Node, NEW k \in Slot, NEW t,
           task[<<n, k>>].at \in Appended, task' = [task EXCEPT ![<<n, k>>] = t],
           UNCHANGED <<oplog, snapshot, capture, buffer, marked, pushes>>,
           t.at \in Appended \/ t = NoTask,
           t.at \in {"write", "rewrite"} => Below(n, t.vc, Reached(buffer[n]))
    PROVE  PInv'
<1>1. buffer[n].live
    BY PullsHere, PutIsLive
<1>2. PullTaskOK(n, buffer[n], t) /\ Lands(t) = {} /\ Frees(t) = {}
    BY <1>1, PastLog
<1>3. Lands(task[<<n, k>>]) = {} /\ Frees(task[<<n, k>>]) = {}
    BY DEF Lands, Frees, Appended
<1> QED BY <1>2, <1>3, PullTaskMoves

LEMMA CountedAt ==
    ASSUME NEW t \in Task, t.at \in {"count", "recount"}
    PROVE  LET u == Counted(t) IN (u.at \in Appended \/ u = NoTask) /\ u.at \notin {"write", "rewrite"}
BY DEF Counted, Task, Appended, NoTask

LEMMA DoneAt ==
    ASSUME NEW t \in Task, NEW op
    PROVE  Done(t, op).at \in Appended /\ Done(t, op).at \notin {"write", "rewrite"}
BY DEF Done, Task, Appended

LEMMA PullReadBatchSnapshot ==
    ASSUME IInv, PInv, ~cluster.realtime_push, faults = 0,
           NEW n \in Node, NEW k \in Slot, NEW op \in task[<<n, k>>].out,
           ReadBatchSnapshot(n, k, op)
    PROVE  PInv'
<1> DEFINE old == task[<<n, k>>]
           new == Raised(snapshot[n], op)
           rest == [old EXCEPT !.out = @ \ {op}]
           r == [rest EXCEPT !.at = IF @ = "count" THEN "write" ELSE "rewrite", !.vc = new]
           t == IF new = snapshot[n] THEN Counted(rest) ELSE r
<1>1. /\ old \in Task /\ TaskOK(oplog, oplog[n], old) /\ old.at \in {"count", "recount"}
      /\ task' = [task EXCEPT ![<<n, k>>] = t]
    BY Here DEF ReadBatchSnapshot
<1>2. op \in oplog[n]
    BY <1>1 DEF TaskOK, Appended
<1>3. Below(n, new, Reached(buffer[n]))
    BY <1>2, RaisedBelow
<1> HIDE DEF new
<1>4. rest \in Task /\ rest.at = old.at
    BY <1>1 DEF Task
<1>5. (Counted(rest).at \in Appended \/ Counted(rest) = NoTask)
      /\ Counted(rest).at \notin {"write", "rewrite"}
    <2> HIDE DEF rest
    <2> QED BY <1>1, <1>4, CountedAt
<1>6. r.at \in {"write", "rewrite"} /\ r.vc = new
    <2> HIDE DEF rest
    <2> QED BY <1>4 DEF Task
<1>7. /\ t.at \in Appended \/ t = NoTask
      /\ t.at \in {"write", "rewrite"} => Below(n, t.vc, Reached(buffer[n]))
    <2> HIDE DEF r, rest
    <2> QED BY <1>3, <1>5, <1>6 DEF Appended
<1> HIDE DEF t
<1>8. old.at \in Appended
    BY <1>1 DEF Appended
<1> QED BY <1>1, <1>7, <1>8, PullPut DEF ReadBatchSnapshot, netVars

LEMMA PullStored ==
    ASSUME IInv, PInv, ~cluster.realtime_push, faults = 0, NEW n \in Node, NEW k \in Slot,
           WriteStored(n, k) \/ \E op \in task[<<n, k>>].out : ReadStored(n, k, op)
    PROVE  PInv'
<1> DEFINE old == task[<<n, k>>]
<1>1. old \in Task /\ old.at \in {"apply", "store"}
    BY Here DEF WriteStored, ReadStored
<1>2. UNCHANGED <<oplog, snapshot, capture, buffer, marked, pushes>>
    BY DEF WriteStored, ReadStored, netVars
<1>3. \E t : /\ task' = [task EXCEPT ![<<n, k>>] = t]
             /\ t.at \in Appended /\ t.at \notin {"write", "rewrite"}
    <2>1. CASE WriteStored(n, k)
        BY <1>1, <2>1, DoneAt DEF WriteStored
    <2>2. ASSUME NEW op \in old.out, ReadStored(n, k, op)
          PROVE  \E t : /\ task' = [task EXCEPT ![<<n, k>>] = t]
                        /\ t.at \in Appended /\ t.at \notin {"write", "rewrite"}
        <3> DEFINE s == [old EXCEPT !.at = "store", !.doing = op]
        <3>1. s.at \in Appended /\ s.at \notin {"write", "rewrite"}
            BY <1>1 DEF Task, Appended
        <3>2. task' = [task EXCEPT ![<<n, k>>] = Done(old, op)] \/ task' = [task EXCEPT ![<<n, k>>] = s]
            BY <2>2 DEF ReadStored
        <3> HIDE DEF s
        <3> QED BY <1>1, <3>1, <3>2, DoneAt
    <2> QED BY <2>1, <2>2
<1>4. old.at \in Appended
    BY <1>1 DEF Appended
<1>5. PICK t : /\ task' = [task EXCEPT ![<<n, k>>] = t]
               /\ t.at \in Appended /\ t.at \notin {"write", "rewrite"}
    BY <1>3
<1> QED BY <1>2, <1>4, <1>5, PullPut

LEMMA PullWriteBatchSnapshot ==
    ASSUME IInv, PInv, ~cluster.realtime_push, faults = 0,
           NEW n \in Node, NEW k \in Slot, WriteBatchSnapshot(n, k)
    PROVE  PInv'
<1> DEFINE old == task[<<n, k>>]
           r == [old EXCEPT !.at = IF @ = "write" THEN "count" ELSE "recount"]
           t == Counted(r)
<1>1. /\ old \in Task /\ old.at \in {"write", "rewrite"}
      /\ task' = [task EXCEPT ![<<n, k>>] = t]
      /\ snapshot' = [snapshot EXCEPT ![n] = old.vc]
      /\ UNCHANGED <<oplog, capture, buffer, marked, pushes>>
    BY Here DEF WriteBatchSnapshot, netVars
<1>2. r \in Task /\ r.at \in {"count", "recount"}
    BY <1>1 DEF Task
<1>3. (t.at \in Appended \/ t = NoTask) /\ t.at \notin {"write", "rewrite"}
    <2> HIDE DEF r
    <2> QED BY <1>2, CountedAt
<1> HIDE DEF t
<1>4. buffer[n].live /\ Below(n, old.vc, Reached(buffer[n]))
    BY <1>1, PullsHere, PutIsLive DEF PullTaskOK, Appended
<1>5. PullTaskOK(n, buffer[n], t) /\ Lands(t) = {} /\ Frees(t) = {}
    BY <1>3, <1>4, PastLog
<1>6. Lands(old) = {} /\ Frees(old) = {}
    BY <1>1 DEF Lands, Frees
<1>7. PullOK(n, oplog, snapshot[n], capture[n], buffer[n], [Tasks(n) EXCEPT ![k] = t], marked[n])
    BY <1>1, <1>5, <1>6, PullsHere, TasksSet, SameCarried DEF PullsOK
<1>8. Tasks(n)' = [Tasks(n) EXCEPT ![k] = t] /\ \A m \in Node \ {n} : Tasks(m)' = Tasks(m)
    BY <1>1, TasksSet
<1>9. snapshot'[n] = old.vc /\ \A m \in Node \ {n} : snapshot'[m] = snapshot[m]
    BY <1>1 DEF IInv, TypeOK
<1>10. PullOK(n, oplog, snapshot'[n], capture'[n], buffer'[n], Tasks(n)', marked'[n])
    <2>1. PullOK(n, oplog, old.vc, capture[n], buffer[n], [Tasks(n) EXCEPT ![k] = t], marked[n])
        BY <1>4, <1>7 DEF PullOK
    <2> QED BY <1>1, <1>8, <1>9, <2>1
<1>11. \A m \in Node \ {n} :
          /\ snapshot'[m] = snapshot[m] /\ capture'[m] = capture[m]
          /\ buffer'[m] = buffer[m] /\ Tasks(m)' = Tasks(m) /\ marked'[m] = marked[m]
    BY <1>1, <1>8, <1>9
<1> QED BY <1>1, <1>10, <1>11, PullMoves

\* An operation that lost has still lost when there is more to lose to.
LEMMA LostGrows ==
    ASSUME NEW logged, NEW logged2, logged \subseteq logged2, NEW op, NEW ops, NEW ops2,
           ops \subseteq ops2, Lost(logged, op, ops)
    PROVE  Lost(logged2, op, ops2)
<1>1. PICK w \in ops \ {op}, group \in SUBSET Group(logged, op.reg) :
          op \in group /\ w \in Winners(group)
    BY DEF Lost
<1>2. w \in ops2 \ {op} /\ group \in SUBSET Group(logged2, op.reg)
    BY DEF Group
<1> QED BY <1>1, <1>2 DEF Lost

\* The replay engine keeps, of what was released to a pull, what is not marked
\* and has not lost.
LEMMA OneReplayed ==
    ASSUME NEW n, NEW log, NEW snap, NEW captures, NEW b, NEW tasks, NEW marks, NEW marks2,
           PullOK(n, log, snap, captures, b, tasks, marks),
           DOMAIN tasks = Slot, NEW k \in Slot, NEW t, PullTaskOK(n, b, t),
           Lands(tasks[k]) = {}, Frees(t) = {}, Lands(t) \subseteq Frees(tasks[k]),
           marks2 \subseteq marks \cup Lands(t),
           \A op \in Frees(tasks[k]) :
               op \in marks \/ op \in Lands(t) \/ Lost(UNION Range(log), op, Lands(t))
    PROVE  PullOK(n, log, snap, captures, b, [tasks EXCEPT ![k] = t], marks2)
<1> DEFINE new == [tasks EXCEPT ![k] = t]
           logged == UNION Range(log)
           land == Landing(log[n], tasks)
           land2 == Landing(log[n], new)
<1>1. new[k] = t /\ \A j \in Slot \ {k} : new[j] = tasks[j]
    OBVIOUS
<1>2. /\ \A op : op \in land2 <=>
             op \in log[n] \/ op \in Lands(t) \/ \E j \in Slot \ {k} : op \in Lands(tasks[j])
      /\ \A op : op \in Released(new) <=>
             op \in Frees(t) \/ \E j \in Slot \ {k} : op \in Frees(tasks[j])
    <2> HIDE DEF new
    <2>1. /\ \A op : op \in land2 <=> op \in log[n] \/ \E j \in Slot : op \in Lands(new[j])
          /\ \A op : op \in Released(new) <=> \E j \in Slot : op \in Frees(new[j])
        BY InLanding
    <2> HIDE DEF land2
    <2> QED BY <1>1, <2>1
<1>3. /\ \A op : op \in land <=> op \in log[n] \/ \E j \in Slot : op \in Lands(tasks[j])
      /\ \A op : op \in Released(tasks) <=> \E j \in Slot : op \in Frees(tasks[j])
    BY InLanding
<1> HIDE DEF new, land, land2, logged
<1>4. land \subseteq land2 /\ Lands(t) \subseteq land2
    BY <1>2, <1>3
<1>5. land2 \cup Released(new) \subseteq land \cup Released(tasks)
    BY <1>2, <1>3
<1>6. marks2 \subseteq land2
    BY <1>4 DEF PullOK, land
<1>7. \A j \in Slot : PullTaskOK(n, b, new[j])
    BY <1>1 DEF PullOK
<1>8. CarriedOK(n, land2 \cup Released(new), Reached(b))
    BY <1>5 DEF PullOK, CarriedOK, land
<1>9. Accounted(n, logged, Reached(b), land2, Released(new))
    <2> SUFFICES ASSUME NEW op \in logged, op.node # n, Counter(op) <= Reached(b)[op.node]
                 PROVE  op \in land2 \cup Released(new) \/ Lost(logged, op, land2)
        BY DEF Accounted
    <2>1. op \in land \cup Released(tasks) \/ Lost(logged, op, land)
        BY DEF PullOK, Accounted, land, logged
    <2>2. CASE op \in land
        BY <1>4, <2>2
    <2>3. CASE Lost(logged, op, land)
        BY <1>4, <2>3, LostGrows
    <2>4. CASE op \in Released(tasks)
        <3>1. PICK j \in Slot : op \in Frees(tasks[j])
            BY <1>3, <2>4
        <3>2. CASE j # k
            BY <1>2, <3>1, <3>2
        <3>3. CASE j = k
            <4>1. op \in marks \/ op \in Lands(t) \/ Lost(logged, op, Lands(t))
                BY <3>1, <3>3 DEF logged
            <4>2. marks \subseteq land
                BY DEF PullOK, land
            <4> QED BY <1>4, <4>1, <4>2, LostGrows
        <3> QED BY <3>2, <3>3
    <2> QED BY <2>1, <2>2, <2>3, <2>4
<1>10. PullOK(n, log, snap, captures, b, new, marks2)
    BY <1>6, <1>7, <1>8, <1>9 DEF PullOK, land2, logged
<1> QED BY <1>10 DEF new

LEMMA PullReplay ==
    ASSUME IInv, PInv, ~cluster.realtime_push, faults = 0,
           NEW n \in Node, NEW k \in Slot, Replay(n, k)
    PROVE  PInv'
<1> DEFINE old == task[<<n, k>>]
           new_ops == filter_applied(n, old.out)
<1>1. /\ old \in Task /\ TaskOK(oplog, oplog[n], old) /\ old.at = "replay"
      /\ UNCHANGED <<oplog, snapshot, capture, buffer, pushes>>
    BY Here DEF Replay, netVars
<1>2. PICK winner \in [{op.reg : op \in new_ops} -> new_ops] :
          /\ \A r \in DOMAIN winner : winner[r] \in Winners(Group(new_ops, r))
          /\ mark_applied(n, Range(winner))
          /\ task' = [task EXCEPT ![<<n, k>>] = Replayed(Range(winner))]
    BY DEF Replay
<1> DEFINE ops == Range(winner)
           t == Replayed(ops)
<1>3. \A op \in new_ops : winner[op.reg] \in Winners(Group(new_ops, op.reg)) /\ winner[op.reg] \in ops
    BY <1>2 DEF Range
<1>4. ops \subseteq new_ops /\ new_ops \subseteq old.out /\ \A op \in old.out : op \in new_ops \/ op \in marked[n]
    BY <1>2 DEF Range, filter_applied
<1>5. new_ops \subseteq UNION Range(oplog)
    <2>1. old.out \in SUBSET Op /\ Kept(oplog, old.out)
        BY <1>1 DEF TaskOK, Task
    <2>2. \A op \in old.out : op.node \in Node /\ op \in oplog[op.node]
        BY <2>1, OpFields DEF Kept
    <2> HIDE DEF new_ops
    <2> QED BY <1>4, <2>2, LoggedOK
<1>6. marked' = [marked EXCEPT ![n] = @ \cup ops]
    BY <1>2 DEF mark_applied
<1> HIDE DEF new_ops, ops
<1>7. /\ marked'[n] = marked[n] \cup ops
      /\ \A m \in Node \ {n} : marked'[m] = marked[m]
    BY <1>6 DEF IInv, TypeOK
<1>8. /\ t.at = (IF ops = {} THEN "idle" ELSE "log")
      /\ t.out = {} /\ Lands(t) = ops /\ Frees(t) = {}
    BY DEF Replayed, NoTask, Lands, Frees
<1>9. Lands(old) = {} /\ Frees(old) = old.out
    BY <1>1 DEF Lands, Frees
<1>10. PullTaskOK(n, buffer[n], t)
    <2>1. buffer[n].live
        BY <1>1, PullsHere, PutIsLive
    <2> HIDE DEF t
    <2> QED BY <1>8, <2>1 DEF PullTaskOK
<1>11. task' = [task EXCEPT ![<<n, k>>] = t]
    BY <1>2 DEF ops
<1> HIDE DEF t
<1>12. ASSUME NEW op \in old.out
       PROVE  op \in marked[n] \/ op \in ops \/ Lost(UNION Range(oplog), op, ops)
    <2>1. CASE op \in new_ops /\ winner[op.reg] # op
        <3> DEFINE group == Group(new_ops, op.reg)
        <3>1. group \in SUBSET Group(UNION Range(oplog), op.reg) /\ op \in group
            BY <1>5, <2>1 DEF Group
        <3>2. winner[op.reg] \in ops \ {op} /\ winner[op.reg] \in Winners(group)
            BY <1>3, <2>1
        <3> HIDE DEF group
        <3> QED BY <3>1, <3>2 DEF Lost
    <2> QED BY <1>3, <1>4, <2>1
<1>13. PullOK(n, oplog, snapshot[n], capture[n], buffer[n], [Tasks(n) EXCEPT ![k] = t], marked'[n])
    <2>1. PullOK(n, oplog, snapshot[n], capture[n], buffer[n], Tasks(n), marked[n])
        BY PullsHere DEF PullsOK
    <2>2. DOMAIN Tasks(n) = Slot /\ Tasks(n)[k] = old
        BY DEF Tasks
    <2>3. Lands(t) \subseteq Frees(old) /\ marked'[n] \subseteq marked[n] \cup Lands(t)
        BY <1>4, <1>7, <1>8, <1>9
    <2>4. \A op \in Frees(old) :
              op \in marked[n] \/ op \in Lands(t) \/ Lost(UNION Range(oplog), op, Lands(t))
        BY <1>8, <1>9, <1>12
    <2> HIDE DEF old
    <2> QED BY <1>8, <1>9, <1>10, <2>1, <2>2, <2>3, <2>4, OneReplayed
<1>14. Tasks(n)' = [Tasks(n) EXCEPT ![k] = t] /\ \A m \in Node \ {n} : Tasks(m)' = Tasks(m)
    BY <1>11, TasksSet
<1>15. PullOK(n, oplog, snapshot'[n], capture'[n], buffer'[n], Tasks(n)', marked'[n])
    BY <1>1, <1>13, <1>14
<1>16. \A m \in Node \ {n} :
          /\ snapshot'[m] = snapshot[m] /\ capture'[m] = capture[m]
          /\ buffer'[m] = buffer[m] /\ Tasks(m)' = Tasks(m) /\ marked'[m] = marked[m]
    BY <1>1, <1>7, <1>14
<1> QED BY <1>1, <1>15, <1>16, PullMoves

\* Logs grow: what is new on server m is its own, and what is new anywhere is
\* not counted by m yet.
LEMMA LogsGrow ==
    ASSUME NEW m \in Node, NEW log \in [Node -> SUBSET Op], NEW new \in [Node -> SUBSET Op],
           \A x \in Node : log[x] \subseteq new[x],
           NEW snap, NEW captures, NEW b, NEW tasks, NEW marks,
           PullOK(m, log, snap, captures, b, tasks, marks),
           NEW captures2, \A c \in captures2 : c.at = "write" => c \in captures,
           NEW tasks2, \A k \in Slot : PullTaskOK(m, b, tasks2[k]),
           Released(tasks2) = Released(tasks),
           Landing(log[m], tasks) \subseteq Landing(new[m], tasks2),
           \A op \in Landing(new[m], tasks2) : op \in Landing(log[m], tasks) \/ op.node = m,
           \A op \in UNION Range(new) :
               \/ op \in UNION Range(log)
               \/ op.node = m
               \/ ~(Counter(op) <= Reached(b)[op.node])
    PROVE  PullOK(m, new, snap, captures2, b, tasks2, marks)
<1> DEFINE logged == UNION Range(log)
           logged2 == UNION Range(new)
           land == Landing(log[m], tasks)
           land2 == Landing(new[m], tasks2)
<1>1. logged \subseteq logged2
    BY DEF Range
<1> HIDE DEF logged, logged2, land, land2
<1>2. CarriedOK(m, land2 \cup Released(tasks2), Reached(b))
    BY DEF PullOK, CarriedOK, land, land2
<1>3. OneByOne(m, new, Reached(b))
    <2>1. OneByOne(m, log, Reached(b))
        BY DEF PullOK
    <2> QED BY <2>1 DEF OneByOne
<1>4. Accounted(m, logged2, Reached(b), land2, Released(tasks2))
    <2> SUFFICES ASSUME NEW op \in logged2, op.node # m, Counter(op) <= Reached(b)[op.node]
                 PROVE  op \in land2 \cup Released(tasks2) \/ Lost(logged2, op, land2)
        BY DEF Accounted
    <2>1. op \in logged
        BY DEF logged, logged2
    <2>2. op \in land \cup Released(tasks) \/ Lost(logged, op, land)
        BY <2>1 DEF PullOK, Accounted, land, logged
    <2>3. land \subseteq land2
        BY DEF land, land2
    <2> QED BY <1>1, <2>2, <2>3, LostGrows
<1>5. marks \subseteq land2
    BY DEF PullOK, land2
<1>6. Below(m, snap, Reached(b)) /\ \A c \in captures2 : c.at = "write" => Below(m, c.vc, Reached(b))
    BY DEF PullOK
<1> QED BY <1>2, <1>3, <1>4, <1>5, <1>6 DEF PullOK, land2, logged2

LEMMA PullLogBatch ==
    ASSUME IInv, PInv, ~cluster.realtime_push, faults = 0,
           NEW n \in Node, NEW k \in Slot, LogBatch(n, k)
    PROVE  PInv'
<1> DEFINE old == task[<<n, k>>]
           ops == old.ops
           highest == {op \in ops : \A o \in ops : o.node = op.node => Counter(o) <= Counter(op)}
           t == [old EXCEPT !.at = "count", !.out = highest]
<1>1. /\ old \in Task /\ TaskOK(oplog, oplog[n], old) /\ old.at = "log"
      /\ task' = [task EXCEPT ![<<n, k>>] = t]
      /\ oplog' = [oplog EXCEPT ![n] = @ \cup ops]
      /\ UNCHANGED <<capture, snapshot, marked, buffer, pushes>>
    BY Here DEF LogBatch, netVars
<1>2. ops \in SUBSET Op /\ Kept(oplog, ops)
    BY <1>1 DEF TaskOK, Task
<1> HIDE DEF highest
<1>3. t.at = "count"
    BY <1>1 DEF Task
<1> HIDE DEF t, ops
<1>4. /\ oplog \in [Node -> SUBSET Op] /\ oplog' \in [Node -> SUBSET Op]
      /\ oplog'[n] = oplog[n] \cup ops
      /\ \A m \in Node \ {n} : oplog'[m] = oplog[m]
      /\ \A m \in Node : oplog[m] \subseteq oplog'[m]
    BY <1>1, <1>2 DEF IInv, TypeOK
<1>5. \A op \in UNION Range(oplog') : op \in UNION Range(oplog)
    <2> SUFFICES ASSUME NEW m \in Node, NEW op \in oplog'[m]
                 PROVE  op \in UNION Range(oplog)
        BY <1>4 DEF Range
    <2>1. \E x \in Node : op \in oplog[x]
        BY <1>2, <1>4, OpFields DEF Kept
    <2> QED BY <2>1, LoggedOK
<1>6. buffer[n].live
    BY <1>1, PullsHere, PutIsLive
<1>7. PullTaskOK(n, buffer[n], t) /\ Lands(t) = {} /\ Frees(t) = {}
    BY <1>3, <1>6, PastLog DEF Appended
<1>8. Lands(old) = ops /\ Frees(old) = {}
    BY <1>1 DEF Lands, Frees, ops
<1>9. /\ Tasks(n)' = [Tasks(n) EXCEPT ![k] = t] /\ \A m \in Node \ {n} : Tasks(m)' = Tasks(m)
      /\ DOMAIN Tasks(n) = Slot /\ Tasks(n)[k] = old
    BY <1>1, TasksSet
<1> DEFINE tasks == Tasks(n)
           new == Tasks(n)'
<1>10. new[k] = t /\ \A j \in Slot \ {k} : new[j] = tasks[j]
    BY <1>9
<1>11. \A m \in Node : PullOK(m, oplog, snapshot[m], capture[m], buffer[m], Tasks(m), marked[m])
    BY DEF PInv, PullsOK
<1> HIDE DEF old
<1>12. PullsOK(n)'
    <2> HIDE DEF new, tasks
    <2>1. tasks[k] = old
        BY <1>9 DEF tasks
    <2>2. /\ \A op : op \in Landing(oplog[n], tasks) <=>
                 op \in oplog[n] \/ \E j \in Slot : op \in Lands(tasks[j])
          /\ \A op : op \in Released(tasks) <=> \E j \in Slot : op \in Frees(tasks[j])
        BY InLanding
    <2>3. /\ \A op : op \in Landing(oplog'[n], new) <=>
                 op \in oplog'[n] \/ \E j \in Slot : op \in Lands(new[j])
          /\ \A op : op \in Released(new) <=> \E j \in Slot : op \in Frees(new[j])
        BY InLanding
    <2>4. \A op : op \in Landing(oplog'[n], new) <=> op \in Landing(oplog[n], tasks)
        BY <1>4, <1>7, <1>8, <1>10, <2>1, <2>2, <2>3
    <2>5. Released(new) = Released(tasks)
        BY <1>7, <1>8, <1>10, <2>1, <2>2, <2>3
    <2>6. \A j \in Slot : PullTaskOK(n, buffer[n], new[j])
        BY <1>7, <1>10, <1>11 DEF PullOK, tasks
    <2>7. PullOK(n, oplog, snapshot[n], capture[n], buffer[n], tasks, marked[n])
        BY <1>11 DEF tasks
    <2>8. PullOK(n, oplog', snapshot[n], capture[n], buffer[n], new, marked[n])
        BY <1>4, <1>5, <2>4, <2>5, <2>6, <2>7, LogsGrow
    <2> QED BY <1>1, <2>8 DEF PullsOK, new
<1>13. ASSUME NEW m \in Node \ {n}
       PROVE  PullsOK(m)'
    <2> DEFINE theirs == Tasks(m)
    <2>1. PullOK(m, oplog, snapshot[m], capture[m], buffer[m], theirs, marked[m])
        BY <1>11
    <2>2. \A j \in Slot : PullTaskOK(m, buffer[m], theirs[j])
        BY <2>1 DEF PullOK
    <2>3. oplog'[m] = oplog[m]
        BY <1>4
    <2> HIDE DEF theirs
    <2>4. PullOK(m, oplog', snapshot[m], capture[m], buffer[m], theirs, marked[m])
        BY <1>4, <1>5, <2>1, <2>2, <2>3, LogsGrow
    <2> QED BY <1>1, <1>9, <2>4 DEF PullsOK, theirs
<1>14. pushes' = {}
    BY <1>1 DEF PInv
<1> QED BY <1>12, <1>13, <1>14 DEF PInv

\* The captures of server n change, and perhaps its snapshot; its tasks, its
\* buffer and the logs stay.
LEMMA PullCaptures ==
    ASSUME IInv, PInv, ~cluster.realtime_push, faults = 0, NEW n \in Node, NEW caps,
           capture' = [capture EXCEPT ![n] = caps],
           \A c \in caps : c.at = "write" => c \in capture[n] \/ Below(n, c.vc, Reached(buffer[n])),
           snapshot' = snapshot \/ \E c \in capture[n] :
               c.at = "write" /\ snapshot' = [snapshot EXCEPT ![n] = c.vc],
           UNCHANGED <<oplog, marked, buffer, task, pushes>>
    PROVE  PInv'
<1>1. PullOK(n, oplog, snapshot[n], capture[n], buffer[n], Tasks(n), marked[n])
    BY DEF PInv, PullsOK
<1>2. capture'[n] = caps /\ \A m \in Node \ {n} : capture'[m] = capture[m]
    BY DEF IInv, TypeOK
<1>3. /\ Below(n, snapshot'[n], Reached(buffer[n]))
      /\ \A m \in Node \ {n} : snapshot'[m] = snapshot[m]
    <2>1. CASE snapshot' = snapshot
        BY <1>1, <2>1 DEF PullOK
    <2>2. ASSUME NEW c \in capture[n], c.at = "write", snapshot' = [snapshot EXCEPT ![n] = c.vc]
          PROVE  /\ Below(n, snapshot'[n], Reached(buffer[n]))
                 /\ \A m \in Node \ {n} : snapshot'[m] = snapshot[m]
        BY <1>1, <2>2 DEF PullOK, IInv, TypeOK
    <2> QED BY <2>1, <2>2
<1>4. \A c \in caps : c.at = "write" => Below(n, c.vc, Reached(buffer[n]))
    BY <1>1 DEF PullOK
<1>5. Tasks(n)' = Tasks(n) /\ \A m \in Node : Tasks(m)' = Tasks(m)
    BY DEF Tasks
<1>6. PullOK(n, oplog, snapshot'[n], caps, buffer[n], Tasks(n), marked[n])
    BY <1>1, <1>3, <1>4 DEF PullOK
<1>7. PullOK(n, oplog, snapshot'[n], capture'[n], buffer'[n], Tasks(n)', marked'[n])
    BY <1>2, <1>5, <1>6
<1>8. \A m \in Node \ {n} :
          /\ snapshot'[m] = snapshot[m] /\ capture'[m] = capture[m]
          /\ buffer'[m] = buffer[m] /\ Tasks(m)' = Tasks(m) /\ marked'[m] = marked[m]
    BY <1>2, <1>3, <1>5
<1> QED BY <1>7, <1>8, PullMoves

LEMMA PullStamp ==
    ASSUME IInv, PInv, ~cluster.realtime_push, faults = 0,
           NEW n \in Node, NEW r \in Register, NEW ts \in Timestamp, Stamp(n, r, ts)
    PROVE  PInv'
<1> DEFINE op == [node |-> n, vc |-> increment(clock[n], n), ts |-> ts, reg |-> r]
           c == [at |-> "put", op |-> op, vc |-> EmptyClock]
           caps == capture[n] \cup {c}
<1>1. /\ capture' = [capture EXCEPT ![n] = caps]
      /\ UNCHANGED <<oplog, marked, buffer, task, pushes>> /\ snapshot' = snapshot
    BY DEF Stamp, netVars
<1>2. c.at # "write"
    OBVIOUS
<1> HIDE DEF c
<1>3. \A x \in caps : x.at = "write" => x \in capture[n]
    BY <1>2
<1> HIDE DEF caps
<1> QED BY <1>1, <1>3, PullCaptures

LEMMA PullReadSnapshot ==
    ASSUME IInv, PInv, ~cluster.realtime_push, faults = 0,
           NEW n \in Node, NEW c \in capture[n], ReadSnapshot(n, c)
    PROVE  PInv'
<1> DEFINE new == Raised(snapshot[n], c.op)
           at == IF new = snapshot[n] THEN "current" ELSE "write"
           d == [c EXCEPT !.at = at, !.vc = new]
           caps == (capture[n] \ {c}) \cup {d}
<1>1. /\ c \in Capture /\ CaptureOK(n, oplog[n], c) /\ c.at = "count"
      /\ UNCHANGED <<oplog, marked, buffer, task, pushes>> /\ snapshot' = snapshot
    BY At DEF ServerOK, ReadSnapshot, netVars
<1>2. Below(n, new, Reached(buffer[n]))
    <2>1. Below(n, snapshot[n], Reached(buffer[n]))
        BY DEF PInv, PullsOK, PullOK
    <2>2. c.op.node = n /\ snapshot[n] \in Clock
        BY <1>1, At DEF CaptureOK
    <2>3. \A m \in Node \ {n} : new[m] = snapshot[n][m]
        BY <2>2 DEF Raised, set, Clock
    <2> HIDE DEF new
    <2> QED BY <2>1, <2>3 DEF Below
<1>3. capture' = [capture EXCEPT ![n] = caps]
    BY DEF ReadSnapshot
<1> HIDE DEF new
<1>4. d.vc = new
    BY <1>1 DEF Capture
<1> HIDE DEF d
<1>5. \A x \in caps : x.at = "write" => x \in capture[n] \/ Below(n, x.vc, Reached(buffer[n]))
    BY <1>2, <1>4
<1> HIDE DEF caps
<1> QED BY <1>1, <1>3, <1>5, PullCaptures

LEMMA PullWriteSnapshot ==
    ASSUME IInv, PInv, ~cluster.realtime_push, faults = 0,
           NEW n \in Node, NEW c \in capture[n], WriteSnapshot(n, c)
    PROVE  PInv'
<1> DEFINE caps == capture[n] \ {c}
<1>1. /\ capture' = [capture EXCEPT ![n] = caps]
      /\ UNCHANGED <<oplog, marked, buffer, task, pushes>>
      /\ snapshot' = snapshot \/ (c.at = "write" /\ snapshot' = [snapshot EXCEPT ![n] = c.vc])
    BY DEF WriteSnapshot
<1>2. \A x \in caps : x \in capture[n]
    OBVIOUS
<1> HIDE DEF caps
<1> QED BY <1>1, <1>2, PullCaptures

\* A number that a server counts is in the log of its author already: an
\* operation that is still being captured has a number no other server counts.
LEMMA NotCounted ==
    ASSUME IInv, PInv, ~cluster.realtime_push, faults = 0,
           NEW n \in Node, NEW c \in capture[n], NEW m \in Node \ {n},
           Counter(c.op) <= Reached(buffer[m])[n]
    PROVE  c.op \in oplog[n]
<1>1. c.op \in Own(n, oplog[n], capture[n])
    BY DEF Own
<1>2. /\ Counter(c.op) \in 1 .. clock[n][n] /\ clock[n][n] \in Nat
      /\ \A a, b \in Own(n, oplog[n], capture[n]) : Counter(a) = Counter(b) => a = b
    BY <1>1, At DEF ServerOK, NumbersOK
<1>3. OneByOne(m, oplog, Reached(buffer[m]))
    BY DEF PInv, PullsOK, PullOK
<1>4. Reached(buffer[m])[n] \in Nat
    BY At, EmptyClockOK DEF Reached, Clock
<1>5. PICK op \in oplog[n] : op.node = n /\ Counter(op) = Counter(c.op)
    BY <1>2, <1>3, <1>4 DEF OneByOne
<1>6. op \in Own(n, oplog[n], capture[n])
    BY <1>5 DEF Own
<1> QED BY <1>1, <1>2, <1>5, <1>6

LEMMA PullCapturePut ==
    ASSUME IInv, PInv, ~cluster.realtime_push, faults = 0,
           NEW n \in Node, NEW c \in capture[n], Put(n, c)
    PROVE  PInv'
<1> DEFINE d == [c EXCEPT !.at = "count"]
           caps == (capture[n] \ {c}) \cup {d}
<1>1. /\ c \in Capture /\ c.op \in Op /\ c.op.node = n
      /\ capture' = [capture EXCEPT ![n] = caps]
      /\ oplog' = [oplog EXCEPT ![n] = @ \cup {c.op}]
      /\ UNCHANGED <<snapshot, marked, buffer, task, pushes>>
    BY At DEF ServerOK, CaptureOK, Capture, Put, netVars
<1>2. d.at = "count"
    BY <1>1 DEF Capture
<1> HIDE DEF d
<1>3. \A x \in caps : x.at = "write" => x \in capture[n]
    BY <1>2
<1> HIDE DEF caps
<1>4. /\ oplog \in [Node -> SUBSET Op] /\ oplog' \in [Node -> SUBSET Op]
      /\ oplog'[n] = oplog[n] \cup {c.op}
      /\ \A m \in Node \ {n} : oplog'[m] = oplog[m]
      /\ \A m \in Node : oplog[m] \subseteq oplog'[m]
    BY <1>1 DEF IInv, TypeOK
<1>5. \A op \in UNION Range(oplog') : op \in UNION Range(oplog) \/ op = c.op
    BY <1>4, LoggedOK DEF Range
<1>6. capture'[n] = caps /\ \A m \in Node \ {n} : capture'[m] = capture[m]
    BY <1>1 DEF IInv, TypeOK
<1>7. \A m \in Node : Tasks(m)' = Tasks(m)
    BY <1>1 DEF Tasks
<1>8. ASSUME NEW m \in Node
      PROVE  PullsOK(m)'
    <2> DEFINE tasks == Tasks(m)
    <2>1. PullOK(m, oplog, snapshot[m], capture[m], buffer[m], tasks, marked[m])
        BY DEF PInv, PullsOK
    <2>2. \A j \in Slot : PullTaskOK(m, buffer[m], tasks[j])
        BY <2>1 DEF PullOK
    <2> HIDE DEF tasks
    <2>3. \A x \in capture'[m] : x.at = "write" => x \in capture[m]
        BY <1>3, <1>6
    <2>4. \A op \in UNION Range(oplog') :
              \/ op \in UNION Range(oplog)
              \/ op.node = m
              \/ ~(Counter(op) <= Reached(buffer[m])[op.node])
        BY <1>1, <1>5, NotCounted, LoggedOK
    <2>5. /\ \A op : op \in Landing(oplog[m], tasks) <=>
                 op \in oplog[m] \/ \E j \in Slot : op \in Lands(tasks[j])
          /\ \A op : op \in Landing(oplog'[m], tasks) <=>
                 op \in oplog'[m] \/ \E j \in Slot : op \in Lands(tasks[j])
        BY InLanding
    <2>6. /\ Landing(oplog[m], tasks) \subseteq Landing(oplog'[m], tasks)
          /\ \A op \in Landing(oplog'[m], tasks) : op \in Landing(oplog[m], tasks) \/ op.node = m
        BY <1>1, <1>4, <2>5
    <2>7. PullOK(m, oplog', snapshot[m], capture'[m], buffer[m], tasks, marked[m])
        BY <1>4, <2>1, <2>2, <2>3, <2>4, <2>6, LogsGrow
    <2> QED BY <1>1, <1>7, <2>7 DEF PullsOK, tasks
<1>9. pushes' = {}
    BY <1>1 DEF PInv
<1> QED BY <1>8, <1>9 DEF PInv

-----------------------------------------------------------------------------
(* A call of the causal buffer: its clock rises one number at a time, and   *)
(* what it passes is released.                                             *)

\* A round of the buffer, seen from the clock `base` of before the call.
Rising(n, log, base, x) ==
    /\ Below(n, base, x.local)
    /\ CarriedOK(n, x.out, x.local)
    /\ OneByOne(n, log, x.local)
    /\ \A op \in UNION Range(log) :
           op.node # n /\ Counter(op) <= x.local[op.node] =>
               op \in x.out \/ Counter(op) <= base[op.node]
    /\ \A op \in x.out : op.node # n => Counter(op) > base[op.node]

\* The clock `new` is `local` merged with the clocks of `ready`.
Merged(local, ready, new) ==
    \A m \in Node : /\ new[m] >= local[m] /\ \A op \in ready : new[m] >= op.vc[m]
                    /\ new[m] = local[m] \/ \E op \in ready : new[m] = op.vc[m]

\* An entry rises only by the next operation of its server.
LEMMA NextNumber ==
    ASSUME NEW local \in Clock, NEW new \in Clock, NEW ready \in SUBSET Op,
           \A op \in ready : dependencies_satisfied(local, op), Merged(local, ready, new),
           NEW m \in Node, new[m] # local[m]
    PROVE  new[m] = local[m] + 1 /\ \E op \in ready : op.node = m /\ Counter(op) = new[m]
<1>1. /\ new[m] \in Nat /\ local[m] \in Nat /\ new[m] >= local[m]
      /\ \E op \in ready : new[m] = op.vc[m]
    BY DEF Merged, Clock
<1>2. PICK op \in ready : new[m] = op.vc[m]
    BY <1>1
<1>3. op.vc[m] # 0 /\ op.vc[m] > local[m]
    BY <1>1, <1>2
<1>4. m = op.node /\ local[m] = op.vc[m] - 1
    BY <1>1, <1>2, <1>3 DEF dependencies_satisfied
<1> QED BY <1>1, <1>2, <1>4 DEF Counter

\* An operation in the log of its author has a number, and the author's clock
\* has counted it.
LEMMA Numbered ==
    ASSUME IInv, NEW op \in Op, op \in oplog[op.node]
    PROVE  op.node \in Node /\ Counter(op) \in 1 .. clock[op.node][op.node]
<1>1. op.node \in Node /\ ServerOK(op.node)
    BY OpFields DEF IInv
<1>2. op \in Own(op.node, oplog[op.node], capture[op.node])
    BY DEF Own
<1> QED BY <1>1, <1>2 DEF ServerOK, NumbersOK

LEMMA Rises ==
    ASSUME IInv, NEW n \in Node, NEW base \in Clock, NEW x, x.local \in Clock,
           Rising(n, oplog, base, x), NEW ready \in SUBSET Op, Kept(oplog, ready),
           \A op \in ready : dependencies_satisfied(x.local, op),
           NEW y, y.local \in Clock, Merged(x.local, ready, y.local), y.out = x.out \cup ready,
           x.out \in SUBSET Op
    PROVE  Rising(n, oplog, base, y)
<1> DEFINE local == x.local
           new == y.local
<1>1. \A m \in Node : local[m] \in Nat /\ new[m] \in Nat /\ base[m] \in Nat /\ new[m] >= local[m]
    BY DEF Clock, Merged
<1>2. \A m \in Node : new[m] = local[m] \/
          (new[m] = local[m] + 1 /\ \E op \in ready : op.node = m /\ Counter(op) = new[m])
    <2> HIDE DEF local, new
    <2>1. local \in Clock /\ new \in Clock /\ Merged(local, ready, new)
          /\ \A op \in ready : dependencies_satisfied(local, op)
        BY DEF local, new
    <2> QED BY <2>1, NextNumber
<1>3. Below(n, base, new)
    <2>1. \A m \in Node \ {n} : base[m] <= local[m]
        BY DEF Rising, Below
    <2> HIDE DEF local, new
    <2>2. ASSUME NEW m \in Node \ {n}
          PROVE  base[m] <= new[m]
        <3>1. local[m] \in Nat /\ new[m] \in Nat /\ base[m] \in Nat /\ new[m] >= local[m]
            BY <1>1
        <3>2. base[m] <= local[m]
            BY <2>1
        <3> QED BY <3>1, <3>2
    <2> QED BY <2>2 DEF Below
<1>4. CarriedOK(n, y.out, new)
    <2>1. ASSUME NEW op \in x.out, op.node # n
          PROVE  Counter(op) <= new[op.node]
        <3>1. Counter(op) <= local[op.node] /\ op.node \in Node /\ Counter(op) \in Nat
            BY <2>1, OpFields DEF Rising, CarriedOK
        <3> QED BY <1>1, <3>1
    <2>2. ASSUME NEW op \in ready
          PROVE  Counter(op) <= new[op.node]
        <3>1. new[op.node] >= op.vc[op.node] /\ op.node \in Node /\ Counter(op) \in Nat
            BY OpFields DEF Merged
        <3> QED BY <1>1, <3>1 DEF Counter
    <2> HIDE DEF new
    <2> QED BY <2>1, <2>2 DEF CarriedOK
<1>5. OneByOne(n, oplog, new)
    <2> SUFFICES ASSUME NEW m \in Node \ {n}, NEW i \in 1 .. new[m]
                 PROVE  \E op \in oplog[m] : op.node = m /\ Counter(op) = i
        BY DEF OneByOne
    <2>1. CASE i \in 1 .. local[m]
        BY <2>1 DEF Rising, OneByOne
    <2>2. CASE i \notin 1 .. local[m]
        <3>1. i = new[m] /\ \E op \in ready : op.node = m /\ Counter(op) = new[m]
            BY <1>1, <1>2, <2>2
        <3> QED BY <3>1 DEF Kept
    <2> QED BY <2>1, <2>2
<1>6. ASSUME NEW op \in UNION Range(oplog), op.node # n, Counter(op) <= new[op.node]
      PROVE  op \in y.out \/ Counter(op) <= base[op.node]
    <2>1. op \in Op /\ op.node \in Node /\ op \in oplog[op.node] /\ Counter(op) \in Nat
        BY LoggedOK, OpFields
    <2>2. CASE Counter(op) <= local[op.node]
        BY <1>6, <2>2 DEF Rising
    <2>3. CASE ~(Counter(op) <= local[op.node])
        <3>1. PICK o \in ready : o.node = op.node /\ Counter(o) = new[op.node]
            BY <1>1, <1>2, <1>6, <2>1, <2>3
        <3>2. Counter(op) = new[op.node]
            BY <1>1, <1>2, <1>6, <2>1, <2>3
        <3>3. o = op
            <4>1. o \in Op /\ o \in oplog[o.node]
                BY DEF Kept
            <4> QED BY <2>1, <3>1, <3>2, <4>1, SameKey
        <3> QED BY <3>3
    <2> QED BY <2>2, <2>3
<1>7. ASSUME NEW op \in y.out, op.node # n
      PROVE  Counter(op) > base[op.node]
    <2>1. CASE op \in x.out
        BY <1>7, <2>1 DEF Rising
    <2>2. CASE op \in ready
        <3>1. op \in Op /\ op.node \in Node /\ Counter(op) >= 1 /\ Counter(op) \in Nat
            BY <2>2, OpFields, Numbered DEF Kept
        <3>2. local[op.node] = Counter(op) - 1
            BY <2>2, <3>1 DEF dependencies_satisfied, Counter
        <3>3. base[op.node] <= local[op.node] /\ base[op.node] \in Nat
            BY <1>1, <1>7, <3>1 DEF Rising, Below
        <3> HIDE DEF local
        <3> QED BY <3>1, <3>2, <3>3
    <2> QED BY <2>1, <2>2
<1> QED BY <1>3, <1>4, <1>5, <1>6, <1>7 DEF Rising

\* A call of `deliver`, from a clock that agrees with `base` on the other
\* servers.
LEMMA DeliverRises ==
    ASSUME IInv, NEW n \in Node, NEW base \in Clock, OneByOne(n, oplog, base),
           NEW local \in Clock, \A m \in Node \ {n} : local[m] = base[m],
           NEW held \in SUBSET Op, Kept(oplog, held), NEW op \in Op, op \in oplog[op.node]
    PROVE  Rising(n, oplog, base, deliver(local, held, op))
<1> DEFINE H == held \cup {op}
           S == {x \in [local : Clock, held : SUBSET H, out : SUBSET H] : Rising(n, oplog, base, x)}
           start == [local |-> local, held |-> held \cup {op}, out |-> {}]
           passed == [local |-> merge(local, op.vc), held |-> held, out |-> {op}]
           b == IF dependencies_satisfied(local, op) THEN passed ELSE start
<1>1. IsFiniteSet(H) /\ H \in SUBSET Op /\ Kept(oplog, H)
    <2>1. IsFiniteSet(H)
        BY FS_AddElement DEF Kept
    <2> QED BY <2>1 DEF Kept
<1>2. Rising(n, oplog, base, start)
    <2>1. start.local = local /\ start.out = {}
        OBVIOUS
    <2> HIDE DEF start
    <2>2. \A m \in Node : base[m] \in Nat /\ local[m] \in Nat
        BY DEF Clock
    <2>3. Below(n, base, local) /\ OneByOne(n, oplog, local)
        BY <2>2 DEF Below, OneByOne
    <2>4. \A o \in UNION Range(oplog) :
              o.node # n /\ Counter(o) <= local[o.node] => Counter(o) <= base[o.node]
        BY LoggedOK
    <2> QED BY <2>1, <2>3, <2>4 DEF Rising, CarriedOK
<1>3. merge(local, op.vc) \in Clock /\ Merged(local, {op}, merge(local, op.vc))
    <2>1. op.vc \in Clock
        BY OpFields
    <2> QED BY <2>1 DEF merge, Clock, Merged
<1>4. ASSUME dependencies_satisfied(local, op)
      PROVE  Rising(n, oplog, base, passed)
    <2>1. /\ start.local = local /\ start.out = {}
          /\ passed.local = merge(local, op.vc) /\ passed.out = {op}
        OBVIOUS
    <2> HIDE DEF start, passed
    <2>2. Kept(oplog, {op}) /\ {op} \in SUBSET Op
        BY FS_Singleton DEF Kept
    <2>3. start.local \in Clock /\ passed.local \in Clock
          /\ Merged(start.local, {op}, passed.local) /\ passed.out = start.out \cup {op}
        BY <1>3, <2>1
    <2>4. \A o \in {op} : dependencies_satisfied(start.local, o)
        BY <1>4, <2>1
    <2>5. start.out \in SUBSET Op
        BY <2>1
    <2> QED BY <1>2, <2>2, <2>3, <2>4, <2>5, Rises
<1>5. b \in S
    <2>1. start \in [local : Clock, held : SUBSET H, out : SUBSET H]
        OBVIOUS
    <2>2. passed \in [local : Clock, held : SUBSET H, out : SUBSET H]
        BY <1>3
    <2> HIDE DEF start, passed
    <2> QED BY <1>2, <1>4, <2>1, <2>2
<1>6. ASSUME NEW x \in S
      PROVE  Round(x) \in S
    <2> DEFINE ready == {o \in x.held : dependencies_satisfied(x.local, o)}
               y == Round(x)
    <2>1. /\ x.local \in Clock /\ x.held \in SUBSET H /\ x.out \in SUBSET H
          /\ Rising(n, oplog, base, x)
        OBVIOUS
    <2>2. x.held \in SUBSET Op /\ x.out \in SUBSET Op /\ ready \in SUBSET H /\ ready \in SUBSET Op
        BY <1>1, <2>1
    <2>3. IsFiniteSet(x.held)
        BY <1>1, <2>1, FS_Subset
    <2>4. y.local \in Clock
        BY <2>1, <2>2, <2>3, RoundLocalType
    <2>5. Merged(x.local, ready, y.local)
        BY <2>1, <2>2, <2>3, RoundLocal DEF Merged
    <2>6. Kept(oplog, ready)
        BY <1>1, <2>2, KeptSubset
    <2>7. /\ y.held = x.held \ ready /\ y.out = x.out \cup ready
          /\ y = [local |-> y.local, held |-> y.held, out |-> y.out]
        BY DEF Round
    <2>8. \A o \in ready : dependencies_satisfied(x.local, o)
        OBVIOUS
    <2> HIDE DEF ready, y
    <2>9. Rising(n, oplog, base, y)
        BY <2>1, <2>2, <2>4, <2>5, <2>6, <2>7, <2>8, Rises
    <2>10. y.held \in SUBSET H /\ y.out \in SUBSET H
        BY <2>1, <2>2, <2>7
    <2>11. y \in [local : Clock, held : SUBSET H, out : SUBSET H]
        BY <2>4, <2>7, <2>10
    <2> QED BY <2>9, <2>11 DEF y
<1>7. IsFiniteSet(b.held)
    <2>1. b.held \in SUBSET H
        BY <1>5
    <2> QED BY <1>1, <2>1, FS_Subset
<1>8. deliver(local, held, op) = check_buffered_ops(b)
    BY DEF deliver
<1>9. check_buffered_ops(b) \in S
    <2> HIDE DEF b, S
    <2> QED BY <1>5, <1>6, <1>7, RoundsKeep
<1> QED BY <1>8, <1>9

\* The buffer of server n has risen and released `out` to task k.
LEMMA BufferRises ==
    ASSUME IInv, NEW n \in Node, PullsOK(n), NEW k \in Slot, task[<<n, k>>].at = "deliver",
           NEW b2 \in [live : BOOLEAN, local : Clock, held : SUBSET Op], b2.live,
           NEW res, Rising(n, oplog, Reached(buffer[n]), res), res.local = b2.local,
           NEW t, t.at \in {"deliver", "replay"}, t.out = task[<<n, k>>].out \cup res.out
    PROVE  PullOK(n, oplog, snapshot[n], capture[n], b2, [Tasks(n) EXCEPT ![k] = t], marked[n])
<1> DEFINE tasks == Tasks(n)
           snap == snapshot[n]
           captures == capture[n]
           b == buffer[n]
           marks == marked[n]
<1>0. /\ tasks \in [Slot -> Task] /\ tasks[k].at = "deliver" /\ t.out = tasks[k].out \cup res.out
      /\ snap \in Clock /\ captures \in SUBSET Capture
      /\ b \in [live : BOOLEAN, local : Clock, held : SUBSET Op]
      /\ PullOK(n, oplog, snap, captures, b, tasks, marks) /\ Rising(n, oplog, Reached(b), res)
    BY At DEF Tasks, PullsOK
<1> HIDE DEF tasks, snap, captures, b, marks
<1> USE <1>0
<1> DEFINE new == [tasks EXCEPT ![k] = t]
           logged == UNION Range(oplog)
           land == Landing(oplog[n], tasks)
           r == Reached(b)
           r2 == Reached(b2)
<1>1. new[k] = t /\ \A j \in Slot \ {k} : new[j] = tasks[j]
    OBVIOUS
<1>2. r \in Clock /\ r2 \in Clock /\ r2 = res.local
    BY EmptyClockOK DEF Reached
<1> HIDE DEF new, land, logged, r, r2
<1>3. /\ Below(n, r, r2) /\ CarriedOK(n, res.out, r2) /\ OneByOne(n, oplog, r2)
      /\ \A op \in logged : op.node # n /\ Counter(op) <= r2[op.node] =>
             op \in res.out \/ Counter(op) <= r[op.node]
    BY <1>2 DEF Rising, r, logged
<1>4. \A vc \in Clock : Below(n, vc, r) => Below(n, vc, r2)
    <2> SUFFICES ASSUME NEW vc \in Clock, Below(n, vc, r), NEW m \in Node \ {n}
                 PROVE  vc[m] <= r2[m]
        BY DEF Below
    <2>1. vc[m] \in Nat /\ r[m] \in Nat /\ r2[m] \in Nat
        BY <1>2 DEF Clock
    <2>2. vc[m] <= r[m] /\ r[m] <= r2[m]
        BY <1>3 DEF Below
    <2> QED BY <2>1, <2>2
<1>5. Landing(oplog[n], new) = land
    <2>1. Lands(new[k]) = {} /\ Lands(tasks[k]) = {}
        BY <1>1 DEF Lands
    <2>2. \A j \in Slot : Lands(new[j]) = Lands(tasks[j])
        BY <1>1, <2>1
    <2> QED BY <2>2 DEF Landing, land
<1>6. \A op : op \in Released(new) <=> op \in Released(tasks) \/ op \in res.out
    <2>1. Frees(new[k]) = tasks[k].out \cup res.out /\ Frees(tasks[k]) = tasks[k].out
        BY <1>1 DEF Frees
    <2>2. /\ \A op : op \in Released(new) <=> \E j \in Slot : op \in Frees(new[j])
          /\ \A op : op \in Released(tasks) <=> \E j \in Slot : op \in Frees(tasks[j])
        BY InLanding
    <2> QED BY <1>1, <2>1, <2>2
<1>7. \A j \in Slot : PullTaskOK(n, b2, new[j])
    <2>1. PullTaskOK(n, b2, t)
        BY DEF PullTaskOK
    <2>2. ASSUME NEW j \in Slot \ {k}
          PROVE  PullTaskOK(n, b2, tasks[j])
        <3>1. PullTaskOK(n, b, tasks[j]) /\ tasks[j].vc \in Clock
            BY DEF PullOK, Task
        <3>2. tasks[j].at \in {"write", "rewrite", "rebuild"} => Below(n, tasks[j].vc, r2)
            BY <1>4, <3>1 DEF PullTaskOK, r
        <3> QED BY <3>1, <3>2 DEF PullTaskOK, r2
    <2> QED BY <1>1, <2>1, <2>2
<1>8. Below(n, snap, r2) /\ \A c \in captures : c.at = "write" => Below(n, c.vc, r2)
    <2>1. Below(n, snap, r) /\ \A c \in captures : c.at = "write" => Below(n, c.vc, r)
        BY DEF PullOK, r
    <2>2. \A c \in captures : c.vc \in Clock
        BY DEF Capture
    <2> QED BY <1>4, <2>1, <2>2
<1>9. CarriedOK(n, land \cup Released(new), r2)
    <2> SUFFICES ASSUME NEW op \in land \cup Released(new), op.node # n
                 PROVE  Counter(op) <= r2[op.node]
        BY DEF CarriedOK
    <2>1. CASE op \in res.out
        BY <1>3, <2>1 DEF CarriedOK
    <2>2. CASE op \in land \cup Released(tasks)
        <3>1. Counter(op) <= r[op.node]
            BY <2>2 DEF PullOK, CarriedOK, land, r
        <3>2. op \in Op
            <4>1. \A j \in Slot : Lands(tasks[j]) \subseteq Op /\ Frees(tasks[j]) \subseteq Op
                BY DEF Lands, Frees, Task
            <4>2. \/ op \in oplog[n]
                  \/ \E j \in Slot : op \in Lands(tasks[j])
                  \/ \E j \in Slot : op \in Frees(tasks[j])
                BY <2>2, InLanding DEF land
            <4> QED BY <4>1, <4>2, At
        <3>3. op.node \in Node /\ Counter(op) \in Nat
            BY <3>2, OpFields
        <3>4. r[op.node] \in Nat /\ r2[op.node] \in Nat /\ r[op.node] <= r2[op.node]
            BY <1>2, <1>3, <3>3 DEF Below, Clock
        <3> QED BY <3>1, <3>3, <3>4
    <2> QED BY <1>6, <2>1, <2>2
<1>10. Accounted(n, logged, r2, land, Released(new))
    <2> SUFFICES ASSUME NEW op \in logged, op.node # n, Counter(op) <= r2[op.node]
                 PROVE  op \in land \cup Released(new) \/ Lost(logged, op, land)
        BY DEF Accounted
    <2>1. CASE op \in res.out
        BY <1>6, <2>1
    <2>2. CASE Counter(op) <= r[op.node]
        <3>1. op \in land \cup Released(tasks) \/ Lost(logged, op, land)
            BY <2>2 DEF PullOK, Accounted, land, logged, r
        <3> QED BY <1>6, <3>1
    <2> QED BY <1>3, <2>1, <2>2
<1>11. marks \subseteq land
    BY DEF PullOK, land
<1>12. PullOK(n, oplog, snap, captures, b2, new, marks)
    BY <1>3, <1>5, <1>7, <1>8, <1>9, <1>10, <1>11 DEF PullOK, logged, r2
<1> QED BY <1>12 DEF new, tasks, snap, captures, marks

\* A step of a delivery is such a rise.
LEMMA DeliverNextRises ==
    ASSUME IInv, PInv, ~cluster.realtime_push, faults = 0,
           NEW n \in Node, NEW k \in Slot, DeliverNext(n, k)
    PROVE  \E res, t :
               /\ Rising(n, oplog, Reached(buffer[n]), res)
               /\ res.local \in Clock /\ res.held \in SUBSET Op /\ res.out \in SUBSET Op
               /\ buffer' = [buffer EXCEPT ![n] =
                      [live |-> TRUE, local |-> res.local, held |-> res.held]]
               /\ task' = [task EXCEPT ![<<n, k>>] = t]
               /\ t.at \in {"deliver", "replay"} /\ t.out = task[<<n, k>>].out \cup res.out
<1> DEFINE old == task[<<n, k>>]
           op == CHOOSE o \in old.ops : \A x \in old.ops \ {o} : KeyLess(o, x)
           local == IF buffer[n].live THEN buffer[n].local ELSE old.vc
           held == buffer[n].held
           res == deliver(local, held, op)
           b == [live |-> TRUE, local |-> res.local, held |-> res.held]
           t == [old EXCEPT !.ops = @ \ {op}, !.out = @ \cup res.out,
                            !.at = IF old.ops = {op} THEN "replay" ELSE @]
           base == Reached(buffer[n])
<1>1. /\ old \in Task /\ TaskOK(oplog, oplog[n], old) /\ old.at = "deliver"
      /\ task' = [task EXCEPT ![<<n, k>>] = t]
      /\ buffer' = [buffer EXCEPT ![n] = b]
    BY Here DEF DeliverNext
<1>2. /\ old.ops \in SUBSET Op /\ Kept(oplog, old.ops) /\ old.ops # {} /\ old.vc \in Clock
    BY <1>1 DEF TaskOK, Task
<1>3. op \in old.ops
    BY <1>2, FirstExists
<1> HIDE DEF op
<1>4. op \in Op /\ op \in oplog[op.node]
    BY <1>2, <1>3 DEF Kept
<1>5. /\ buffer[n] \in [live : BOOLEAN, local : Clock, held : SUBSET Op]
      /\ held \in SUBSET Op /\ Kept(oplog, held) /\ IsFiniteSet(held)
    BY At DEF ServerOK, Kept
<1>6. base \in Clock /\ local \in Clock /\ OneByOne(n, oplog, base)
    BY <1>2, <1>5, EmptyClockOK, PullsHere DEF Reached, PullsOK, PullOK
<1>7. ASSUME NEW m \in Node \ {n}
      PROVE  local[m] = base[m]
    <2>1. CASE buffer[n].live
        BY <2>1 DEF Reached
    <2>2. CASE ~buffer[n].live
        <3>1. Below(n, old.vc, EmptyClock)
            BY <1>1, <2>2, PullsHere DEF PullTaskOK
        <3>2. old.vc[m] <= 0 /\ old.vc[m] \in Nat
            BY <1>2, <3>1, EmptyClockOK DEF Below, Clock
        <3>3. old.vc[m] = 0
            BY <3>2
        <3> QED BY <2>2, <3>3, EmptyClockOK DEF Reached
    <2> QED BY <2>1, <2>2
<1> HIDE DEF local, held, base
<1>8. Rising(n, oplog, base, res)
    BY <1>4, <1>5, <1>6, <1>7, DeliverRises
<1>9. /\ res.local \in Clock /\ res.held \in SUBSET Op /\ res.out \in SUBSET Op
    <2>1. /\ res.local \in Clock /\ res.held \in SUBSET (held \cup {op})
          /\ res.out \in SUBSET (held \cup {op})
        BY <1>4, <1>5, <1>6, DeliverOK
    <2> QED BY <1>4, <1>5, <2>1
<1> HIDE DEF res
<1>10. t.at \in {"deliver", "replay"} /\ t.out = old.out \cup res.out
    BY <1>1 DEF Task
<1> HIDE DEF t
<1> QED BY <1>1, <1>8, <1>9, <1>10 DEF base

LEMMA PullDeliverNext ==
    ASSUME IInv, PInv, ~cluster.realtime_push, faults = 0,
           NEW n \in Node, NEW k \in Slot, DeliverNext(n, k)
    PROVE  PInv'
<1>1. PICK res, t :
          /\ Rising(n, oplog, Reached(buffer[n]), res)
          /\ res.local \in Clock /\ res.held \in SUBSET Op
          /\ buffer' = [buffer EXCEPT ![n] =
                 [live |-> TRUE, local |-> res.local, held |-> res.held]]
          /\ task' = [task EXCEPT ![<<n, k>>] = t]
          /\ t.at \in {"deliver", "replay"} /\ t.out = task[<<n, k>>].out \cup res.out
    BY DeliverNextRises
<1>2. task[<<n, k>>].at = "deliver" /\ UNCHANGED <<capture, oplog, snapshot, marked, pushes>>
    BY DEF DeliverNext, netVars
<1> DEFINE b == [live |-> TRUE, local |-> res.local, held |-> res.held]
<1>3. b \in [live : BOOLEAN, local : Clock, held : SUBSET Op] /\ b.live /\ b.local = res.local
    BY <1>1
<1>4. buffer'[n] = b /\ \A m \in Node \ {n} : buffer'[m] = buffer[m]
    BY <1>1 DEF IInv, TypeOK
<1> HIDE DEF b
<1>5. Tasks(n)' = [Tasks(n) EXCEPT ![k] = t] /\ \A m \in Node \ {n} : Tasks(m)' = Tasks(m)
    BY <1>1, TasksSet
<1>6. PullOK(n, oplog, snapshot[n], capture[n], b, [Tasks(n) EXCEPT ![k] = t], marked[n])
    BY <1>1, <1>2, <1>3, PullsHere, BufferRises
<1>7. PullOK(n, oplog, snapshot'[n], capture'[n], buffer'[n], Tasks(n)', marked'[n])
    BY <1>2, <1>4, <1>5, <1>6
<1>8. \A m \in Node \ {n} :
          /\ snapshot'[m] = snapshot[m] /\ capture'[m] = capture[m]
          /\ buffer'[m] = buffer[m] /\ Tasks(m)' = Tasks(m) /\ marked'[m] = marked[m]
    BY <1>2, <1>4, <1>5
<1> QED BY <1>2, <1>7, <1>8, PullMoves

-----------------------------------------------------------------------------
(* The second invariant holds. *)

LEMMA PullInit ==
    ASSUME Init
    PROVE  PInv
<1>1. pushes = {}
    BY DEF Init
<1>2. ASSUME NEW n \in Node
      PROVE  PullsOK(n)
    <2>1. /\ oplog[n] = {} /\ snapshot[n] = EmptyClock /\ capture[n] = {} /\ marked[n] = {}
          /\ buffer[n] = NoBuffer /\ \A k \in Slot : Tasks(n)[k] = NoTask
        BY DEF Init, Tasks
    <2>2. Reached(NoBuffer) = EmptyClock
        BY DEF Reached, NoBuffer
    <2>3. Below(n, EmptyClock, EmptyClock) /\ OneByOne(n, oplog, EmptyClock)
        BY EmptyClockOK DEF Below, OneByOne
    <2>4. UNION Range(oplog) = {}
        BY DEF Init, Range
    <2>5. Landing({}, Tasks(n)) = {} /\ Released(Tasks(n)) = {}
        BY <2>1, IdlePull DEF Landing, Released
    <2>6. /\ CarriedOK(n, {}, EmptyClock)
          /\ Accounted(n, {}, EmptyClock, {}, {})
        BY DEF CarriedOK, Accounted
    <2>7. \A k \in Slot : PullTaskOK(n, NoBuffer, Tasks(n)[k])
        BY <2>1, IdlePull
    <2> QED BY <2>1, <2>2, <2>3, <2>4, <2>5, <2>6, <2>7 DEF PullsOK, PullOK
<1> QED BY <1>1, <1>2 DEF PInv

LEMMA Bystanders ==
    ASSUME [Next]_vars
    PROVE  cluster' = cluster /\ (faults' = faults \/ \E n \in Node : FaultStep(n))
<1>1. ASSUME NEW n \in Node, CaptureStep(n)
      PROVE  cluster' = cluster /\ faults' = faults
    BY <1>1 DEF CaptureStep, Put, ReadSnapshot, WriteSnapshot, netVars
<1>2. ASSUME NEW n \in Node, NEW k \in Slot, TaskStep(n, k)
      PROVE  cluster' = cluster /\ faults' = faults
    BY <1>2 DEF TaskStep, ReadSeed, DeliverNext, Replay, LogBatch, ReadBatchSnapshot,
       WriteBatchSnapshot, ReadStored, WriteStored, StatsScan, StatsWrite, netVars
<1>3. ASSUME NEW n \in Node, FaultStep(n)
      PROVE  cluster' = cluster
    BY <1>3 DEF FaultStep, CaptureFails, SeedFails, PutFails, ApplyFails, RecountFails, Restart
<1>4. ASSUME NEW n \in Node, NEW k \in Slot, NEW p \in Node, Request(n, k, p) \/ Serve(n, k, p)
      PROVE  cluster' = cluster /\ faults' = faults
    BY <1>4 DEF Request, Serve, netVars
<1>5. ASSUME NEW n \in Node, NEW k \in Slot, Fail(n, k) \/ StatsBegin(n, k)
      PROVE  cluster' = cluster /\ faults' = faults
    BY <1>5 DEF Fail, StatsBegin, netVars
<1>6. ASSUME NEW n \in Node, NEW r \in Register, NEW ts \in Timestamp, Stamp(n, r, ts)
      PROVE  cluster' = cluster /\ faults' = faults
    BY <1>6 DEF Stamp, netVars
<1>7. ASSUME NEW m \in pushes,
             LosePush(m[1], m[2]) \/ \E n \in Node, k \in Slot : ReceivePush(n, k, m[1])
      PROVE  cluster' = cluster /\ faults' = faults
    BY <1>7 DEF LosePush, ReceivePush
<1>8. CASE UNCHANGED vars
    BY <1>8 DEF vars, netVars
<1> QED BY <1>1, <1>2, <1>3, <1>4, <1>5, <1>6, <1>7, <1>8 DEF Next

LEMMA PullNext ==
    ASSUME IInv, PInv, [Next]_vars
    PROVE  PInv'
<1>1. cluster' = cluster /\ (faults' = faults \/ \E n \in Node : FaultStep(n))
    BY Bystanders
<1>2. ASSUME NEW n \in Node, FaultStep(n)
      PROVE  faults' # 0
    <2>1. AnyFault
        BY <1>2 DEF FaultStep, CaptureFails, SeedFails, PutFails, ApplyFails, RecountFails,
           Restart, Fault, AnyFault
    <2>2. faults \in Nat
        BY ClustersAssumption DEF IInv, TypeOK, Cluster
    <2> QED BY <2>1, <2>2 DEF AnyFault
<1>3. SUFFICES ASSUME ~cluster.realtime_push, faults' = 0
               PROVE  PInv'
    BY <1>1 DEF PInv
<1>4. ~(\E n \in Node : FaultStep(n)) /\ faults = 0
    BY <1>1, <1>2, <1>3
<1>5. pushes = {}
    BY <1>3, <1>4 DEF PInv
<1>6. ASSUME NEW n \in Node, CaptureStep(n)
      PROVE  PInv'
    BY <1>3, <1>4, <1>6, PullCapturePut, PullReadSnapshot, PullWriteSnapshot DEF CaptureStep
<1>7. ASSUME NEW n \in Node, NEW k \in Slot, TaskStep(n, k)
      PROVE  PInv'
    BY <1>3, <1>4, <1>7, PullReadSeed, PullDeliverNext, PullReplay, PullLogBatch,
       PullReadBatchSnapshot, PullWriteBatchSnapshot, PullStored, PullStatsScan, PullStatsWrite
       DEF TaskStep
<1>8. CASE UNCHANGED vars
    <2>1. UNCHANGED <<capture, oplog, snapshot, marked, buffer, task, pushes>>
        BY <1>8 DEF vars, netVars
    <2>2. \A n \in Node : Tasks(n)' = Tasks(n)
        BY <2>1 DEF Tasks
    <2>3. \A n \in Node : PullsOK(n)'
        BY <1>3, <1>4, <2>1, <2>2 DEF PInv, PullsOK
    <2> QED BY <1>5, <2>1, <2>3 DEF PInv
<1>9. CASE Next
    BY <1>3, <1>4, <1>5, <1>6, <1>7, <1>9, PullStamp, PullRequest, PullServe, PullFail,
       PullStatsBegin DEF Next
<1> QED BY <1>8, <1>9

\* In a cluster that only pulls, as long as no server stops and no write fails,
\* a server has every operation its snapshot counts, or one that operation lost
\* to: for any number of servers, operations and pulls at a time.
THEOREM PullsSkipNothingHolds == Spec => []PullsSkipNothing
<1>1. IInv /\ PInv => PullsSkipNothing
    <2> SUFFICES ASSUME IInv, PInv, ~cluster.realtime_push, faults = 0, NEW n \in Node,
                        NEW op \in Logged, op.node # n, Counter(op) <= snapshot[n][op.node]
                 PROVE  LET has == oplog[n] \cup InProgress(n)
                        IN  op \in has \/ Superseded(op, has)
        BY DEF PullsSkipNothing, NothingSkipped
    <2> DEFINE has == oplog[n] \cup InProgress(n)
               land == Landing(oplog[n], Tasks(n))
               r == Reached(buffer[n])
    <2>1. PullsOK(n) /\ Logged = UNION Range(oplog)
        BY DEF PInv, Logged
    <2>2. op.node \in Node /\ Counter(op) \in Nat
        BY <2>1, LoggedOK, OpFields
    <2>3. r \in Clock /\ snapshot[n] \in Clock
        BY At, EmptyClockOK DEF Reached
    <2>4. Counter(op) <= r[op.node]
        <3>1. snapshot[n][op.node] <= r[op.node]
            BY <2>1, <2>2 DEF PullsOK, PullOK, Below
        <3>2. snapshot[n][op.node] \in Nat /\ r[op.node] \in Nat
            BY <2>2, <2>3 DEF Clock
        <3> HIDE DEF r
        <3> QED BY <2>2, <3>1, <3>2
    <2>5. op \in land \cup Released(Tasks(n)) \/ Lost(Logged, op, land)
        BY <2>1, <2>4 DEF PullsOK, PullOK, Accounted
    <2>6. land \subseteq has /\ Released(Tasks(n)) \subseteq has
        <3>1. \A k \in Slot : Tasks(n)[k] = task[<<n, k>>]
            BY DEF Tasks
        <3>2. \A k \in Slot : /\ Lands(task[<<n, k>>]) \subseteq task[<<n, k>>].ops
                              /\ Frees(task[<<n, k>>]) \subseteq task[<<n, k>>].out
            BY DEF Lands, Frees
        <3>3. \A k \in Slot : Lands(Tasks(n)[k]) \subseteq InProgress(n) /\ Frees(Tasks(n)[k]) \subseteq InProgress(n)
            BY <3>1, <3>2 DEF InProgress
        <3> QED BY <3>3 DEF Landing, Released
    <2> HIDE DEF has, land
    <2>7. CASE Lost(Logged, op, land)
        <3>1. Lost(Logged, op, has)
            BY <2>6, <2>7, LostGrows
        <3> QED BY <3>1 DEF Lost, Superseded, has
    <2> QED BY <2>5, <2>6, <2>7 DEF has
<1>2. Init => PInv
    BY PullInit
<1>3. IInv /\ PInv /\ [Next]_vars => PInv'
    BY PullNext
<1> QED BY <1>1, <1>2, <1>3, Inductive, PTL DEF Spec

-----------------------------------------------------------------------------
(* One batch at a time: a third invariant, of a cluster in which effects    *)
(* follow their causes.                                                    *)

Solo == ~cluster.realtime_push /\ (\E k \in Slot : cluster.slots = {k}) /\ faults = 0

\* The operation counts nothing of another server: its author has not restarted.
CountsOwn(op) == \A m \in Node \ {op.node} : op.vc[m] = 0

\* What a task has still to apply.
Pending(t) ==
    IF t.at \in {"deliver", "replay", "apply", "store"} THEN t.out
    ELSE IF t.at \in {"log", "count", "write"} THEN t.ops
    ELSE {}

\* The operations come after all that has been seen of their authors.
Fresh(seen, ops) ==
    \A op \in ops : op \in seen \/ \A x \in seen : x.node = op.node => Counter(x) < Counter(op)

SoloTaskOK(seen, t) ==
    /\ Fresh(seen, Pending(t))
    /\ t.at = "store" => Chosen(t, t.doing)

\* Server n, whose clock is vc, has seen its own operations, and of others what
\* its buffer, at r, has released.
SeenOK(n, vc, own, seen, r) ==
    /\ \A m \in Node \ {n} : vc[m] = 0
    /\ own \subseteq seen
    /\ \A op \in seen : /\ CountsOwn(op)
                        /\ op.node = n => Counter(op) <= vc[n]
                        /\ op.node # n => Counter(op) <= r[op.node]

SoloOK(n) ==
    /\ SeenOK(n, clock[n], Own(n, oplog[n], capture[n]), applied[n], Reached(buffer[n]))
    /\ \A k \in Slot : /\ SoloTaskOK(applied[n], task[<<n, k>>])
                       /\ k \notin cluster.slots => task[<<n, k>>] = NoTask

SInv == Solo => \A n \in Node : SoloOK(n)

\* A step of server n.
LEMMA SoloMoves ==
    ASSUME IInv, SInv, Solo, NEW n \in Node, cluster' = cluster, faults' = faults,
           \A m \in Node \ {n} :
               /\ clock'[m] = clock[m] /\ capture'[m] = capture[m] /\ oplog'[m] = oplog[m]
               /\ applied'[m] = applied[m] /\ buffer'[m] = buffer[m]
               /\ \A k \in Slot : task'[<<m, k>>] = task[<<m, k>>],
           SoloOK(n)'
    PROVE  SInv'
<1>1. \A m \in Node : SoloOK(m)
    BY DEF SInv
<1>2. ASSUME NEW m \in Node \ {n}
      PROVE  SoloOK(m)'
    BY <1>1 DEF SoloOK
<1> QED BY <1>2 DEF SInv

LEMMA IdleSolo == \A seen : SoloTaskOK(seen, NoTask)
BY DEF SoloTaskOK, Fresh, Pending, NoTask

\* A task that goes on is the only one.
LEMMA OnlyTask ==
    ASSUME SInv, Solo, NEW n \in Node, NEW k \in Slot, task[<<n, k>>].at # "idle"
    PROVE  k \in cluster.slots /\ \A j \in Slot \ {k} : task[<<n, j>>] = NoTask
<1>1. k \in cluster.slots
    BY DEF SInv, SoloOK, NoTask
<1>2. PICK s \in Slot : cluster.slots = {s}
    BY DEF Solo
<1> QED BY <1>1, <1>2 DEF SInv, SoloOK

\* The clocks of the servers and what was applied stay.
LEMMA SeenGrows ==
    ASSUME NEW n \in Node, NEW vc, NEW own, NEW seen \in SUBSET Op, NEW r \in Clock,
           SeenOK(n, vc, own, seen, r), NEW own2, own2 \subseteq own,
           NEW r2 \in Clock, Below(n, r, r2)
    PROVE  SeenOK(n, vc, own2, seen, r2)
<1>1. ASSUME NEW op \in seen, op.node # n
      PROVE  Counter(op) <= r2[op.node]
    <2>1. op.node \in Node /\ Counter(op) \in Nat
        BY OpFields
    <2>2. r[op.node] \in Nat /\ r2[op.node] \in Nat /\ r[op.node] <= r2[op.node]
        BY <1>1, <2>1 DEF Below, Clock
    <2>3. Counter(op) <= r[op.node]
        BY <1>1 DEF SeenOK
    <2> QED BY <2>1, <2>2, <2>3
<1> QED BY <1>1 DEF SeenOK

LEMMA SameBelow ==
    ASSUME NEW n, NEW r \in Clock
    PROVE  Below(n, r, r)
BY DEF Below, Clock

\* A task of server n goes on; nothing is applied.
LEMMA SoloTaskMoves ==
    ASSUME IInv, IInv', SInv, Solo, NEW n \in Node, NEW k \in Slot, NEW t,
           task' = [task EXCEPT ![<<n, k>>] = t], k \in cluster.slots \/ t = NoTask,
           UNCHANGED <<clock, capture, applied, cluster, faults>>,
           Own(n, oplog'[n], capture[n]) \subseteq Own(n, oplog[n], capture[n]),
           \A m \in Node \ {n} : oplog'[m] = oplog[m] /\ buffer'[m] = buffer[m],
           Below(n, Reached(buffer[n]), Reached(buffer'[n])),
           SoloTaskOK(applied[n], t)
    PROVE  SInv'
<1>1. SoloOK(n) /\ applied[n] \in SUBSET Op
    BY DEF SInv, IInv, TypeOK
<1>2. /\ task'[<<n, k>>] = t /\ \A j \in Slot \ {k} : task'[<<n, j>>] = task[<<n, j>>]
      /\ \A m \in Node \ {n} : \A j \in Slot : task'[<<m, j>>] = task[<<m, j>>]
    BY DEF IInv, TypeOK
<1>3. Reached(buffer[n]) \in Clock /\ Reached(buffer'[n]) \in Clock
    BY EmptyClockOK DEF IInv, TypeOK, Reached
<1>4. SeenOK(n, clock[n], Own(n, oplog'[n], capture[n]), applied[n], Reached(buffer'[n]))
    BY <1>1, <1>3, SeenGrows DEF SoloOK
<1>5. SoloOK(n)'
    BY <1>1, <1>2, <1>4 DEF SoloOK
<1> QED BY <1>2, <1>5, SoloMoves

\* The same, when log and buffer stay too.
LEMMA SoloTaskStays ==
    ASSUME IInv, IInv', SInv, Solo, NEW n \in Node, NEW k \in Slot, NEW t,
           task' = [task EXCEPT ![<<n, k>>] = t], k \in cluster.slots \/ t = NoTask,
           UNCHANGED <<clock, capture, oplog, applied, buffer, cluster, faults>>,
           SoloTaskOK(applied[n], t)
    PROVE  SInv'
<1>1. Reached(buffer[n]) \in Clock
    BY EmptyClockOK DEF IInv, TypeOK, Reached
<1>2. Below(n, Reached(buffer[n]), Reached(buffer'[n]))
    BY <1>1, SameBelow
<1> QED BY <1>2, SoloTaskMoves

\* Fewer operations are pending, or none.
LEMMA FewerPending ==
    ASSUME SInv, Solo, NEW n \in Node, NEW k \in Slot, NEW t,
           Pending(t) \subseteq Pending(task[<<n, k>>]), t.at # "store"
    PROVE  SoloTaskOK(applied[n], t)
BY DEF SInv, SoloOK, SoloTaskOK, Fresh

\* An operation in the log of its author counts that server alone, and the
\* author has seen it.
LEMMA AuthorSaw ==
    ASSUME IInv, SInv, Solo, NEW op \in Op, op \in oplog[op.node]
    PROVE  CountsOwn(op) /\ op \in applied[op.node]
<1>1. op.node \in Node /\ SoloOK(op.node)
    BY OpFields DEF SInv
<1>2. op \in Own(op.node, oplog[op.node], capture[op.node])
    BY DEF Own
<1> QED BY <1>1, <1>2 DEF SoloOK, SeenOK

LEMMA SoloRequest ==
    ASSUME IInv, IInv', SInv, Solo, NEW n \in Node, NEW k \in Slot, NEW p \in Node,
           Request(n, k, p)
    PROVE  SInv'
<1> DEFINE t == [task[<<n, k>>] EXCEPT !.at = "asked", !.peer = p, !.vc = snapshot[n]]
<1>1. task[<<n, k>>] = NoTask /\ task' = [task EXCEPT ![<<n, k>>] = t] /\ k \in cluster.slots
    BY DEF Request
<1>2. t.at = "asked"
    BY <1>1 DEF NoTask
<1> HIDE DEF t
<1>3. SoloTaskOK(applied[n], t)
    BY <1>2 DEF SoloTaskOK, Fresh, Pending
<1> QED BY <1>1, <1>3, SoloTaskStays DEF Request, valueVars, netVars

LEMMA SoloServe ==
    ASSUME IInv, IInv', PInv, SInv, Solo, NEW n \in Node, NEW k \in Slot, NEW p \in Node,
           Serve(n, k, p)
    PROVE  SInv'
<1> DEFINE old == task[<<n, k>>]
           ops == get_missing_operations(oplog[p], old.vc)
           s == [old EXCEPT !.at = IF buffer[n].live THEN "deliver" ELSE "seed", !.ops = ops]
           t == IF ops = {} THEN NoTask ELSE s
<1>1. old \in Task /\ old.at = "asked" /\ old.out = {}
    BY Here, PullsHere DEF Serve, PullTaskOK, Solo
<1>2. task' = [task EXCEPT ![<<n, k>>] = t]
    BY DEF Serve
<1> HIDE DEF ops
<1>3. s.at \in {"deliver", "seed"} /\ s.out = {}
    BY <1>1 DEF Task
<1> HIDE DEF s
<1>4. SoloTaskOK(applied[n], t)
    BY <1>3, IdleSolo DEF SoloTaskOK, Fresh, Pending
<1>5. k \in cluster.slots
    BY <1>1, OnlyTask
<1> HIDE DEF t
<1> QED BY <1>2, <1>4, <1>5, SoloTaskStays DEF Serve, valueVars, netVars

LEMMA SoloFail ==
    ASSUME IInv, IInv', SInv, Solo, NEW n \in Node, NEW k \in Slot, Fail(n, k)
    PROVE  SInv'
BY IdleSolo, SoloTaskStays DEF Fail, valueVars, netVars

LEMMA SoloReadSeed ==
    ASSUME IInv, IInv', PInv, SInv, Solo, NEW n \in Node, NEW k \in Slot, ReadSeed(n, k)
    PROVE  SInv'
<1> DEFINE old == task[<<n, k>>]
           t == [old EXCEPT !.at = "deliver", !.vc = snapshot[n]]
<1>1. old \in Task /\ old.at = "seed" /\ old.out = {}
    BY Here, PullsHere DEF ReadSeed, PullTaskOK, Solo
<1>2. task' = [task EXCEPT ![<<n, k>>] = t] /\ k \in cluster.slots
    BY <1>1, OnlyTask DEF ReadSeed
<1>3. t.at = "deliver" /\ t.out = {}
    BY <1>1 DEF Task
<1> HIDE DEF t
<1>4. SoloTaskOK(applied[n], t)
    BY <1>3 DEF SoloTaskOK, Fresh, Pending
<1> QED BY <1>2, <1>4, SoloTaskStays DEF ReadSeed, valueVars, netVars

LEMMA SoloStats ==
    ASSUME IInv, IInv', SInv, Solo, NEW n \in Node, NEW k \in Slot,
           StatsBegin(n, k) \/ StatsScan(n, k) \/ StatsWrite(n, k)
    PROVE  SInv'
<1> DEFINE old == task[<<n, k>>]
           scan == [old EXCEPT !.at = "scan"]
           built == [old EXCEPT !.at = "rebuild", !.vc = Rebuilt(oplog[n])]
<1>1. PICK t \in {scan, built, NoTask} : task' = [task EXCEPT ![<<n, k>>] = t]
    BY DEF StatsBegin, StatsScan, StatsWrite
<1>2. k \in cluster.slots
    BY OnlyTask DEF StatsBegin, StatsScan, StatsWrite
<1>3. t.at \in {"scan", "rebuild"} \/ t = NoTask
    <2>1. scan.at = "scan" /\ built.at = "rebuild"
        BY Here DEF Task
    <2> QED BY <2>1
<1> HIDE DEF scan, built
<1>4. SoloTaskOK(applied[n], t)
    BY <1>3, IdleSolo DEF SoloTaskOK, Fresh, Pending
<1> QED BY <1>1, <1>2, <1>4, SoloTaskStays
        DEF StatsBegin, StatsScan, StatsWrite, valueVars, netVars

LEMMA SoloReplay ==
    ASSUME IInv, IInv', SInv, Solo, NEW n \in Node, NEW k \in Slot, Replay(n, k)
    PROVE  SInv'
<1> DEFINE old == task[<<n, k>>]
           new_ops == filter_applied(n, old.out)
<1>1. PICK winner \in [{op.reg : op \in new_ops} -> new_ops] :
          task' = [task EXCEPT ![<<n, k>>] = Replayed(Range(winner))]
    BY DEF Replay
<1> DEFINE ops == Range(winner)
           t == Replayed(ops)
<1>2. ops \subseteq old.out /\ old.at = "replay"
    BY DEF Range, filter_applied, Replay
<1>3. task' = [task EXCEPT ![<<n, k>>] = t] /\ k \in cluster.slots
    BY <1>1, <1>2, OnlyTask
<1> HIDE DEF ops
<1>4. Pending(t) \subseteq ops /\ t.at # "store"
    BY DEF Replayed, NoTask, Pending
<1> HIDE DEF t
<1>5. Pending(t) \subseteq Pending(old)
    BY <1>2, <1>4 DEF Pending
<1>6. SoloTaskOK(applied[n], t)
    BY <1>4, <1>5, FewerPending
<1> QED BY <1>3, <1>6, SoloTaskStays DEF Replay, valueVars, netVars

LEMMA SoloLogBatch ==
    ASSUME IInv, IInv', SInv, Solo, NEW n \in Node, NEW k \in Slot, LogBatch(n, k)
    PROVE  SInv'
<1> DEFINE old == task[<<n, k>>]
           ops == old.ops
           highest == {op \in ops : \A o \in ops : o.node = op.node => Counter(o) <= Counter(op)}
           t == [old EXCEPT !.at = "count", !.out = highest]
<1>1. /\ old \in Task /\ TaskOK(oplog, oplog[n], old) /\ old.at = "log"
      /\ task' = [task EXCEPT ![<<n, k>>] = t]
      /\ oplog' = [oplog EXCEPT ![n] = oplog[n] \cup ops]
      /\ UNCHANGED <<clock, capture, applied, buffer, cluster, faults>>
    BY Here DEF LogBatch, valueVars, netVars
<1> HIDE DEF highest
<1>2. t.at = "count" /\ t.ops = ops
    BY <1>1 DEF Task
<1>3. k \in cluster.slots
    BY <1>1, OnlyTask
<1> HIDE DEF t
<1>4. SoloTaskOK(applied[n], t)
    <2>1. Pending(t) = ops /\ Pending(old) = ops
        BY <1>1, <1>2 DEF Pending
    <2> QED BY <1>2, <2>1, FewerPending
<1>5. oplog'[n] = oplog[n] \cup ops /\ \A m \in Node \ {n} : oplog'[m] = oplog[m]
    BY <1>1 DEF IInv, TypeOK
<1>6. Own(n, oplog'[n], capture[n]) \subseteq Own(n, oplog[n], capture[n])
    BY <1>1, <1>5 DEF Own, TaskOK, Kept
<1>7. Reached(buffer[n]) \in Clock
    BY EmptyClockOK DEF IInv, TypeOK, Reached
<1>8. Below(n, Reached(buffer[n]), Reached(buffer'[n]))
    BY <1>1, <1>7, SameBelow
<1> QED BY <1>1, <1>3, <1>4, <1>5, <1>6, <1>8, SoloTaskMoves

\* The counting of a task leaves it with what it had to apply.
LEMMA CountedPending ==
    ASSUME NEW t \in Task, t.at \in {"count", "recount"}
    PROVE  Counted(t).at # "store" /\ Pending(Counted(t)) \subseteq (IF t.at = "count" THEN t.ops ELSE {})
<1>1. CASE t.out # {}
    BY <1>1 DEF Counted, Pending
<1>2. CASE t.out = {} /\ t.at = "count"
    <2>1. Counted(t).at = "apply" /\ Counted(t).out = t.ops
        BY <1>2 DEF Counted, Task
    <2> QED BY <1>2, <2>1 DEF Pending
<1>3. CASE t.out = {} /\ t.at # "count"
    BY <1>3 DEF Counted, NoTask, Pending
<1> QED BY <1>1, <1>2, <1>3

LEMMA SoloReadBatchSnapshot ==
    ASSUME IInv, IInv', SInv, Solo, NEW n \in Node, NEW k \in Slot, NEW op \in task[<<n, k>>].out,
           ReadBatchSnapshot(n, k, op)
    PROVE  SInv'
<1> DEFINE old == task[<<n, k>>]
           new == Raised(snapshot[n], op)
           rest == [old EXCEPT !.out = @ \ {op}]
           w == [rest EXCEPT !.at = IF @ = "count" THEN "write" ELSE "rewrite", !.vc = new]
           t == IF new = snapshot[n] THEN Counted(rest) ELSE w
<1>1. old \in Task /\ old.at \in {"count", "recount"}
      /\ task' = [task EXCEPT ![<<n, k>>] = t]
    BY Here DEF ReadBatchSnapshot
<1>2. k \in cluster.slots
    BY <1>1, OnlyTask
<1> HIDE DEF new
<1>3. rest \in Task /\ rest.at = old.at /\ rest.ops = old.ops
    BY <1>1 DEF Task
<1>4. w.at = (IF old.at = "count" THEN "write" ELSE "rewrite") /\ w.ops = old.ops
    BY <1>1 DEF Task
<1> HIDE DEF rest, w
<1>5. Pending(Counted(rest)) \subseteq Pending(old) /\ Counted(rest).at # "store"
    BY <1>1, <1>3, CountedPending DEF Pending
<1>6. Pending(w) \subseteq Pending(old) /\ w.at # "store"
    BY <1>1, <1>4 DEF Pending
<1>7. Pending(t) \subseteq Pending(old) /\ t.at # "store"
    BY <1>5, <1>6
<1> HIDE DEF t
<1>8. SoloTaskOK(applied[n], t)
    BY <1>7, FewerPending
<1> QED BY <1>1, <1>2, <1>8, SoloTaskStays DEF ReadBatchSnapshot, valueVars, netVars

LEMMA SoloWriteBatchSnapshot ==
    ASSUME IInv, IInv', SInv, Solo, NEW n \in Node, NEW k \in Slot, WriteBatchSnapshot(n, k)
    PROVE  SInv'
<1> DEFINE old == task[<<n, k>>]
           s == [old EXCEPT !.at = IF @ = "write" THEN "count" ELSE "recount"]
           t == Counted(s)
<1>1. old \in Task /\ old.at \in {"write", "rewrite"} /\ task' = [task EXCEPT ![<<n, k>>] = t]
    BY Here DEF WriteBatchSnapshot
<1>2. k \in cluster.slots
    BY <1>1, OnlyTask
<1>3. s \in Task /\ s.at = (IF old.at = "write" THEN "count" ELSE "recount") /\ s.ops = old.ops
    BY <1>1 DEF Task
<1> HIDE DEF s
<1>4. Pending(t) \subseteq Pending(old) /\ t.at # "store"
    BY <1>1, <1>3, CountedPending DEF Pending
<1> HIDE DEF t
<1>5. SoloTaskOK(applied[n], t)
    BY <1>4, FewerPending
<1> QED BY <1>1, <1>2, <1>5, SoloTaskStays DEF WriteBatchSnapshot, valueVars, netVars

\* What the buffer releases is new, or the server's own.
LEMMA SoloDeliverNext ==
    ASSUME IInv, IInv', PInv, SInv, Solo, NEW n \in Node, NEW k \in Slot, DeliverNext(n, k)
    PROVE  SInv'
<1> DEFINE old == task[<<n, k>>]
           r == Reached(buffer[n])
<1>1. PICK res, t :
          /\ Rising(n, oplog, r, res)
          /\ res.local \in Clock /\ res.held \in SUBSET Op /\ res.out \in SUBSET Op
          /\ buffer' = [buffer EXCEPT ![n] =
                 [live |-> TRUE, local |-> res.local, held |-> res.held]]
          /\ task' = [task EXCEPT ![<<n, k>>] = t]
          /\ t.at \in {"deliver", "replay"} /\ t.out = old.out \cup res.out
    BY DeliverNextRises DEF Solo
<1>2. /\ old.at = "deliver"
      /\ UNCHANGED <<clock, capture, oplog, applied, cluster, faults>>
    BY DEF DeliverNext, valueVars, netVars
<1>3. k \in cluster.slots /\ SoloOK(n) /\ applied[n] \in SUBSET Op /\ r \in Clock
    BY <1>2, OnlyTask, EmptyClockOK DEF SInv, IInv, TypeOK, Reached
<1>4. buffer'[n].live /\ buffer'[n].local = res.local /\ \A m \in Node \ {n} : buffer'[m] = buffer[m]
    BY <1>1 DEF IInv, TypeOK
<1>5. Below(n, r, Reached(buffer'[n]))
    BY <1>1, <1>4 DEF Rising, Reached
<1>6. \A op \in t.out : op \in oplog[op.node]
    <2>1. task'[<<n, k>>] = t
        BY <1>1 DEF IInv, TypeOK
    <2>2. TaskOK(oplog', oplog'[n], task'[<<n, k>>])
        BY DEF IInv, ServerOK
    <2> QED BY <1>2, <2>1, <2>2 DEF TaskOK, Kept
<1>7. ASSUME NEW op \in res.out
      PROVE  op \in applied[n] \/ \A x \in applied[n] : x.node = op.node => Counter(x) < Counter(op)
    <2>1. op \in Op /\ op \in oplog[op.node] /\ op.node \in Node /\ Counter(op) \in Nat
        BY <1>1, <1>6, OpFields
    <2>2. CASE op.node = n
        BY <2>1, <2>2, AuthorSaw
    <2>3. ASSUME op.node # n, NEW x \in applied[n], x.node = op.node
          PROVE  Counter(x) < Counter(op)
        <3>1. Counter(x) <= r[op.node]
            BY <1>3, <2>3 DEF SoloOK, SeenOK
        <3>2. Counter(op) > r[op.node]
            BY <1>1, <2>3 DEF Rising
        <3>3. r[op.node] \in Nat /\ Counter(x) \in Nat
            BY <1>3, <2>1, OpFields DEF Clock
        <3> HIDE DEF r
        <3> QED BY <2>1, <3>1, <3>2, <3>3
    <2> QED BY <2>2, <2>3
<1>8. SoloTaskOK(applied[n], t)
    <2>1. Pending(t) = old.out \cup res.out /\ Pending(old) = old.out
        BY <1>1, <1>2 DEF Pending
    <2>2. Fresh(applied[n], old.out)
        BY <1>3, <2>1 DEF SoloOK, SoloTaskOK
    <2> QED BY <1>1, <1>7, <2>1, <2>2 DEF SoloTaskOK, Fresh
<1> QED BY <1>1, <1>2, <1>3, <1>4, <1>5, <1>8, SoloTaskMoves

\* An operation of the batch takes effect: the first of those left, so the
\* rest comes after it.
LEMMA SoloApplies ==
    ASSUME IInv, PInv, SInv, Solo, NEW n \in Node, NEW k \in Slot, NEW op \in task[<<n, k>>].out,
           task[<<n, k>>].at \in {"apply", "store"}, Chosen(task[<<n, k>>], op),
           task' = [task EXCEPT ![<<n, k>>] = Done(task[<<n, k>>], op)],
           applied' = [applied EXCEPT ![n] = @ \cup {op}],
           UNCHANGED <<clock, capture, oplog, buffer, cluster, faults>>
    PROVE  SInv'
<1> DEFINE old == task[<<n, k>>]
           t == Done(old, op)
           seen == applied[n]
<1>1. /\ old \in Task /\ TaskOK(oplog, oplog[n], old) /\ op \in old.out
      /\ \A o \in old.out : Counter(op) <= Counter(o)
    BY Here DEF Chosen
<1>2. old.out \in SUBSET Op /\ old.out \subseteq oplog[n] /\ \A o \in old.out : o \in oplog[o.node]
    BY <1>1 DEF TaskOK, Task, Appended, Kept
<1>3. op \in Op /\ op \in oplog[n] /\ op \in oplog[op.node] /\ Counter(op) \in Nat
    BY <1>1, <1>2, OpFields
<1>4. /\ applied'[n] = seen \cup {op} /\ \A m \in Node \ {n} : applied'[m] = applied[m]
      /\ task'[<<n, k>>] = t /\ \A j \in Slot \ {k} : task'[<<n, j>>] = task[<<n, j>>]
      /\ \A m \in Node \ {n} : \A j \in Slot : task'[<<m, j>>] = task[<<m, j>>]
    BY DEF IInv, TypeOK
<1>5. SoloOK(n) /\ k \in cluster.slots /\ \A j \in Slot \ {k} : task[<<n, j>>] = NoTask
    BY OnlyTask DEF SInv
<1>6. SeenOK(n, clock[n], Own(n, oplog[n], capture[n]), seen \cup {op}, Reached(buffer[n]))
    <2>1. CountsOwn(op)
        BY <1>3, AuthorSaw
    <2>2. op.node = n => Counter(op) <= clock[n][n]
        BY <1>3, Numbered
    <2>3. op.node # n => Counter(op) <= Reached(buffer[n])[op.node]
        <3>1. op \in Landing(oplog[n], Tasks(n))
            BY <1>3 DEF Landing
        <3> QED BY <3>1, PullsHere DEF PullsOK, PullOK, CarriedOK, Solo
    <2> QED BY <1>5, <2>1, <2>2, <2>3 DEF SoloOK, SeenOK
<1>7. t.at # "store" /\ Pending(t) \subseteq old.out \ {op}
    <2>1. CASE old.out = {op}
        <3>1. t.at = "recount"
            BY <1>1, <2>1 DEF Done, Task
        <3> QED BY <3>1 DEF Pending
    <2>2. CASE old.out # {op}
        <3>1. t.at = "apply" /\ t.out = old.out \ {op}
            BY <1>1, <2>2 DEF Done, Task
        <3> QED BY <3>1 DEF Pending
    <2> QED BY <2>1, <2>2
<1> HIDE DEF t
<1>8. Fresh(seen \cup {op}, old.out \ {op})
    <2> SUFFICES ASSUME NEW o \in old.out \ {op}, o \notin seen, NEW x \in seen \cup {op},
                        x.node = o.node
                 PROVE  Counter(x) < Counter(o)
        BY DEF Fresh
    <2>1. CASE x \in seen
        <3>1. Pending(old) = old.out
            BY DEF Pending
        <3> QED BY <1>5, <2>1, <3>1 DEF SoloOK, SoloTaskOK, Fresh
    <2>2. CASE x = op
        <3>1. o \in Op /\ o \in oplog[o.node] /\ Counter(o) \in Nat /\ Counter(op) <= Counter(o)
            BY <1>1, <1>2, OpFields
        <3>2. Counter(op) # Counter(o)
            BY <1>3, <2>2, <3>1, SameKey
        <3> QED BY <1>3, <2>2, <3>1, <3>2
    <2> QED BY <2>1, <2>2
<1>9. SoloTaskOK(seen \cup {op}, t)
    BY <1>7, <1>8 DEF SoloTaskOK, Fresh
<1>10. SoloOK(n)'
    <2>1. ASSUME NEW j \in Slot
          PROVE  /\ SoloTaskOK(seen \cup {op}, task'[<<n, j>>])
                 /\ j \notin cluster.slots => task'[<<n, j>>] = NoTask
        BY <1>4, <1>5, <1>9, IdleSolo
    <2> QED BY <1>4, <1>6, <2>1 DEF SoloOK
<1> QED BY <1>4, <1>10, SoloMoves

LEMMA SoloReadStored ==
    ASSUME IInv, IInv', PInv, SInv, Solo, NEW n \in Node, NEW k \in Slot, NEW op,
           ReadStored(n, k, op)
    PROVE  SInv'
<1> DEFINE old == task[<<n, k>>]
           t == [old EXCEPT !.at = "store", !.doing = op]
<1>1. /\ old \in Task /\ old.at = "apply" /\ Chosen(old, op)
      /\ UNCHANGED <<clock, capture, oplog, buffer, cluster, faults>>
    BY Here DEF ReadStored, netVars
<1>2. CASE Newer(data[n][op.reg], op)
    BY <1>1, <1>2, SoloApplies DEF ReadStored, Chosen
<1>3. CASE ~Newer(data[n][op.reg], op)
    <2>1. task' = [task EXCEPT ![<<n, k>>] = t] /\ applied' = applied
        BY <1>3 DEF ReadStored
    <2>2. t.at = "store" /\ t.out = old.out /\ t.doing = op
        BY <1>1 DEF Task
    <2>3. k \in cluster.slots /\ SoloTaskOK(applied[n], old)
        BY <1>1, OnlyTask DEF SInv, SoloOK
    <2> HIDE DEF t
    <2>4. SoloTaskOK(applied[n], t)
        BY <1>1, <2>2, <2>3 DEF SoloTaskOK, Pending, Chosen
    <2> QED BY <1>1, <2>1, <2>3, <2>4, SoloTaskStays
<1> QED BY <1>2, <1>3

LEMMA SoloWriteStored ==
    ASSUME IInv, PInv, SInv, Solo, NEW n \in Node, NEW k \in Slot, WriteStored(n, k)
    PROVE  SInv'
<1>1. task[<<n, k>>].at = "store"
    BY DEF WriteStored
<1>2. PICK op : op = task[<<n, k>>].doing
    OBVIOUS
<1>3. /\ task[<<n, k>>].at \in {"apply", "store"} /\ Chosen(task[<<n, k>>], op)
      /\ op \in task[<<n, k>>].out
    BY <1>1, <1>2 DEF SInv, SoloOK, SoloTaskOK, Chosen
<1>4. /\ task' = [task EXCEPT ![<<n, k>>] = Done(task[<<n, k>>], op)]
      /\ applied' = [applied EXCEPT ![n] = @ \cup {op}]
    BY <1>2 DEF WriteStored
<1>5. UNCHANGED <<clock, capture, oplog, buffer, cluster, faults>>
    BY DEF WriteStored, netVars
<1> QED BY <1>3, <1>4, <1>5, SoloApplies

\* A capture goes on; the server knows no more operations of its own.
LEMMA SoloCaptures ==
    ASSUME IInv, IInv', SInv, Solo, NEW n \in Node,
           UNCHANGED <<clock, applied, buffer, task, cluster, faults>>,
           Own(n, oplog'[n], capture'[n]) \subseteq Own(n, oplog[n], capture[n]),
           \A m \in Node \ {n} : oplog'[m] = oplog[m] /\ capture'[m] = capture[m]
    PROVE  SInv'
<1>1. SoloOK(n)
    BY DEF SInv
<1>2. SoloOK(n)'
    BY <1>1 DEF SoloOK, SeenOK
<1> QED BY <1>2, SoloMoves

\* A step of a capture, and what the server knows of its own operations.
LEMMA CaptureKeeps ==
    ASSUME IInv, NEW n \in Node, CaptureStep(n)
    PROVE  /\ UNCHANGED <<clock, applied, buffer, task, cluster, faults>>
           /\ \A m \in Node \ {n} : oplog'[m] = oplog[m] /\ capture'[m] = capture[m]
           /\ Own(n, oplog'[n], capture'[n]) \subseteq Own(n, oplog[n], capture[n])
           /\ oplog' = oplog
              \/ \E c \in capture[n] : c.op.node = n /\ oplog' = [oplog EXCEPT ![n] = @ \cup {c.op}]
<1>1. PICK c \in capture[n] : Put(n, c) \/ ReadSnapshot(n, c) \/ WriteSnapshot(n, c)
    BY DEF CaptureStep
<1>2. c \in Capture /\ CaptureOK(n, oplog[n], c) /\ c.op.node = n
    BY At DEF ServerOK, CaptureOK
<1>3. UNCHANGED <<clock, applied, buffer, task, cluster, faults>>
    BY <1>1 DEF Put, ReadSnapshot, WriteSnapshot, valueVars, netVars
<1>4. \A m \in Node \ {n} : oplog'[m] = oplog[m] /\ capture'[m] = capture[m]
    BY <1>1 DEF Put, ReadSnapshot, WriteSnapshot, IInv, TypeOK
<1>5. oplog'[n] \subseteq oplog[n] \cup {c.op}
    BY <1>1 DEF Put, ReadSnapshot, WriteSnapshot, IInv, TypeOK
<1>6. \A d \in capture'[n] : d \in capture[n] \/ d.op = c.op
    <2>1. CASE Put(n, c)
        <3>1. capture'[n] = (capture[n] \ {c}) \cup {[c EXCEPT !.at = "count"]}
            BY <2>1 DEF Put, IInv, TypeOK
        <3> QED BY <1>2, <3>1 DEF Capture
    <2>2. CASE ReadSnapshot(n, c)
        <3> DEFINE new == Raised(snapshot[n], c.op)
                   at == IF new = snapshot[n] THEN "current" ELSE "write"
        <3>1. capture'[n] = (capture[n] \ {c}) \cup {[c EXCEPT !.at = at, !.vc = new]}
            BY <2>2 DEF ReadSnapshot, IInv, TypeOK
        <3> HIDE DEF at, new
        <3> QED BY <1>2, <3>1 DEF Capture
    <2>3. CASE WriteSnapshot(n, c)
        BY <2>3 DEF WriteSnapshot, IInv, TypeOK
    <2> QED BY <1>1, <2>1, <2>2, <2>3
<1>7. Own(n, oplog'[n], capture'[n]) \subseteq Own(n, oplog[n], capture[n])
    BY <1>5, <1>6 DEF Own
<1>8. \/ oplog' = oplog
      \/ oplog' = [oplog EXCEPT ![n] = @ \cup {c.op}]
    BY <1>1 DEF Put, ReadSnapshot, WriteSnapshot
<1> QED BY <1>2, <1>3, <1>4, <1>7, <1>8

LEMMA SoloCaptureStep ==
    ASSUME IInv, IInv', SInv, Solo, NEW n \in Node, CaptureStep(n)
    PROVE  SInv'
BY CaptureKeeps, SoloCaptures

\* A write takes effect where it is captured: its number is the next, and what
\* tasks carry of the server itself has taken effect before.
LEMMA SoloStamp ==
    ASSUME IInv, IInv', SInv, Solo, NEW n \in Node, NEW r \in Register, NEW ts \in Timestamp,
           Stamp(n, r, ts)
    PROVE  SInv'
<1> DEFINE vc == increment(clock[n], n)
           op == [node |-> n, vc |-> vc, ts |-> ts, reg |-> r]
           c == [at |-> "put", op |-> op, vc |-> EmptyClock]
           seen == applied[n]
<1>1. vc \in Clock /\ vc[n] = clock[n][n] + 1 /\ \A m \in Node \ {n} : vc[m] = clock[n][m]
    BY At DEF increment, Clock
<1>2. op.node = n /\ op.vc = vc /\ Counter(op) = clock[n][n] + 1 /\ clock[n][n] \in Nat
    BY <1>1, At DEF Counter
<1>3. /\ clock' = [clock EXCEPT ![n] = vc] /\ capture' = [capture EXCEPT ![n] = @ \cup {c}]
      /\ applied' = [applied EXCEPT ![n] = @ \cup {op}]
      /\ UNCHANGED <<oplog, buffer, task, cluster, faults>>
    BY DEF Stamp, netVars
<1>4. c.op = op
    OBVIOUS
<1> HIDE DEF op, vc, c
<1>5. /\ clock'[n] = vc /\ \A m \in Node \ {n} : clock'[m] = clock[m]
      /\ capture'[n] = capture[n] \cup {c} /\ \A m \in Node \ {n} : capture'[m] = capture[m]
      /\ applied'[n] = seen \cup {op} /\ \A m \in Node \ {n} : applied'[m] = applied[m]
    BY <1>3 DEF IInv, TypeOK
<1>6. SoloOK(n) /\ seen \in SUBSET Op
    BY DEF SInv, IInv, TypeOK
<1>7. SeenOK(n, vc, Own(n, oplog[n], capture[n] \cup {c}), seen \cup {op}, Reached(buffer[n]))
    <2>1. \A m \in Node \ {n} : vc[m] = 0
        BY <1>1, <1>6 DEF SoloOK, SeenOK
    <2>2. Own(n, oplog[n], capture[n] \cup {c}) \subseteq seen \cup {op}
        BY <1>4, <1>6 DEF Own, SoloOK, SeenOK
    <2>3. CountsOwn(op)
        BY <1>2, <2>1 DEF CountsOwn
    <2>4. ASSUME NEW x \in seen, x.node = n
          PROVE  Counter(x) <= vc[n]
        <3>1. Counter(x) <= clock[n][n] /\ Counter(x) \in Nat
            BY <1>6, <2>4, OpFields DEF SoloOK, SeenOK
        <3> QED BY <1>1, <1>2, <3>1
    <2>5. Counter(op) <= vc[n]
        BY <1>1, <1>2
    <2>6. \A x \in seen : CountsOwn(x) /\ (x.node # n => Counter(x) <= Reached(buffer[n])[x.node])
        BY <1>6 DEF SoloOK, SeenOK
    <2> QED BY <1>2, <2>1, <2>2, <2>3, <2>4, <2>5, <2>6 DEF SeenOK
<1>8. ASSUME NEW k \in Slot
      PROVE  SoloTaskOK(seen \cup {op}, task[<<n, k>>])
    <2> DEFINE t == task[<<n, k>>]
    <2>1. SoloTaskOK(seen, t) /\ t \in Task /\ TaskOK(oplog, oplog[n], t)
        BY <1>6, Here DEF SoloOK
    <2>2. \A o \in Pending(t) : o \in Op /\ o \in oplog[o.node]
        BY <2>1 DEF Pending, TaskOK, Kept, Task
    <2>3. \A o \in Pending(t) : o.node = n => o \in seen
        BY <2>2, AuthorSaw
    <2>4. Fresh(seen \cup {op}, Pending(t))
        BY <1>2, <2>1, <2>3 DEF SoloTaskOK, Fresh
    <2> QED BY <2>1, <2>4 DEF SoloTaskOK
<1>9. SoloOK(n)'
    BY <1>3, <1>5, <1>6, <1>7, <1>8 DEF SoloOK
<1> QED BY <1>3, <1>5, <1>9, SoloMoves

LEMMA SoloInit ==
    ASSUME Init
    PROVE  SInv
<1> SUFFICES ASSUME NEW n \in Node
             PROVE  SoloOK(n)
    BY DEF SInv
<1>1. /\ clock[n] = EmptyClock /\ oplog[n] = {} /\ capture[n] = {} /\ applied[n] = {}
      /\ \A k \in Slot : task[<<n, k>>] = NoTask
    BY DEF Init
<1>2. Own(n, {}, {}) = {}
    BY DEF Own
<1>3. SeenOK(n, clock[n], {}, {}, Reached(buffer[n]))
    BY <1>1, EmptyClockOK DEF SeenOK
<1> QED BY <1>1, <1>2, <1>3, IdleSolo DEF SoloOK

LEMMA SoloNext ==
    ASSUME IInv, IInv', PInv, SInv, [Next]_vars
    PROVE  SInv'
<1>1. cluster' = cluster /\ (faults' = faults \/ \E n \in Node : FaultStep(n))
    BY Bystanders
<1>2. ASSUME NEW n \in Node, FaultStep(n)
      PROVE  faults' # 0
    <2>1. AnyFault
        BY <1>2 DEF FaultStep, CaptureFails, SeedFails, PutFails, ApplyFails, RecountFails,
           Restart, Fault, AnyFault
    <2>2. faults \in Nat
        BY ClustersAssumption DEF IInv, TypeOK, Cluster
    <2> QED BY <2>1, <2>2 DEF AnyFault
<1>3. SUFFICES ASSUME Solo'
               PROVE  SInv'
    BY DEF SInv
<1>4. ~(\E n \in Node : FaultStep(n)) /\ Solo
    BY <1>1, <1>2, <1>3 DEF Solo
<1>5. pushes = {}
    BY <1>4 DEF PInv, Solo
<1>6. ASSUME NEW n \in Node, NEW k \in Slot, TaskStep(n, k)
      PROVE  SInv'
    BY <1>4, <1>6, SoloReadSeed, SoloDeliverNext, SoloReplay, SoloLogBatch,
       SoloReadBatchSnapshot, SoloWriteBatchSnapshot, SoloReadStored, SoloWriteStored,
       SoloStats DEF TaskStep
<1>7. CASE UNCHANGED vars
    <2>1. UNCHANGED <<clock, capture, oplog, applied, buffer, task, cluster>>
        BY <1>7 DEF vars, valueVars, netVars
    <2>2. \A n \in Node : SoloOK(n)'
        BY <1>4, <2>1 DEF SInv, SoloOK
    <2> QED BY <2>2 DEF SInv
<1>8. CASE Next
    BY <1>4, <1>5, <1>6, <1>8, SoloStamp, SoloCaptureStep, SoloRequest, SoloServe, SoloFail,
       SoloStats DEF Next
<1> QED BY <1>7, <1>8

\* An operation that counts only its author precedes none of another server,
\* and of its own only later ones.
LEMMA PrecedesOwn ==
    ASSUME NEW op \in Op, NEW x \in Op, CountsOwn(x), Counter(op) >= 1,
           happens_before(op.vc, x.vc)
    PROVE  x.node = op.node /\ Counter(op) <= Counter(x)
<1>1. /\ op.node \in Node /\ op.vc \in Clock /\ Counter(op) \in Nat
      /\ x.node \in Node /\ x.vc \in Clock /\ Counter(x) \in Nat
    BY OpFields
<1>2. ~AnyLess(x.vc, op.vc)
    BY DEF happens_before, compare
<1>3. ~(x.vc[op.node] < Counter(op))
    BY <1>1, <1>2 DEF AnyLess, Counter
<1>4. x.vc[op.node] \in Nat
    BY <1>1 DEF Clock
<1>5. x.vc[op.node] # 0
    BY <1>1, <1>3, <1>4
<1>6. x.node = op.node
    BY <1>1, <1>5 DEF CountsOwn
<1> QED BY <1>1, <1>3, <1>6 DEF Counter

\* What takes effect is a new write, or an operation of a batch that comes
\* after all that has been seen of its author.
LEMMA EffectIsNew ==
    ASSUME IInv, SInv, Solo, [Next]_vars, NEW n \in Node, NEW op \in applied'[n] \ applied[n]
    PROVE  /\ op \in Op /\ Counter(op) >= 1
           /\ \A x \in applied[n] : x.node = op.node => Counter(x) < Counter(op)
<1>1. SoloOK(n) /\ applied \in [Node -> SUBSET Op]
    BY DEF SInv, IInv, TypeOK
<1>2. ASSUME NEW m \in Node, NEW r \in Register, NEW ts \in Timestamp, Stamp(m, r, ts)
      PROVE  /\ op \in Op /\ Counter(op) >= 1
             /\ \A x \in applied[n] : x.node = op.node => Counter(x) < Counter(op)
    <2> DEFINE vc == increment(clock[m], m)
    <2>1. op = [node |-> m, vc |-> vc, ts |-> ts, reg |-> r] /\ m = n
        BY <1>1, <1>2 DEF Stamp
    <2>2. vc \in Clock /\ vc[m] = clock[m][m] + 1 /\ clock[m][m] \in Nat
        BY At DEF increment, Clock
    <2> HIDE DEF vc
    <2>3. op \in Op /\ op.node = n /\ Counter(op) = clock[n][n] + 1
        BY <2>1, <2>2 DEF Op, Counter
    <2>4. \A x \in applied[n] : x.node = n => Counter(x) <= clock[n][n] /\ Counter(x) \in Nat
        BY <1>1, OpFields DEF SoloOK, SeenOK
    <2> QED BY <2>1, <2>2, <2>3, <2>4
<1>3. ASSUME NEW m \in Node, NEW k \in Slot, TaskStep(m, k)
      PROVE  /\ op \in Op /\ Counter(op) >= 1
             /\ \A x \in applied[n] : x.node = op.node => Counter(x) < Counter(op)
    <2> DEFINE old == task[<<m, k>>]
    <2>1. CASE applied' = applied
        BY <2>1
    <2>2. CASE applied' # applied
        <3>1. WriteStored(m, k) \/ \E o \in old.out : ReadStored(m, k, o)
            BY <1>3, <2>2 DEF TaskStep, ReadSeed, DeliverNext, Replay, LogBatch,
               ReadBatchSnapshot, WriteBatchSnapshot, StatsScan, StatsWrite, valueVars
        <3>2. PICK o : /\ old.at \in {"apply", "store"} /\ o \in old.out
                       /\ applied' = [applied EXCEPT ![m] = @ \cup {o}]
            <4>1. CASE WriteStored(m, k)
                <5>1. old.at = "store" /\ Chosen(old, old.doing)
                    BY <4>1 DEF WriteStored, SInv, SoloOK, SoloTaskOK
                <5> QED BY <4>1, <5>1 DEF WriteStored, Chosen
            <4>2. CASE \E o \in old.out : ReadStored(m, k, o)
                BY <2>2, <4>2 DEF ReadStored
            <4> QED BY <3>1, <4>1, <4>2
        <3>3. op = o /\ m = n
            BY <1>1, <3>2
        <3>4. op \in Op /\ op \in oplog[op.node]
            BY <3>2, <3>3, Here DEF TaskOK, Kept, Task
        <3>5. Counter(op) >= 1
            BY <3>4, Numbered
        <3>6. Fresh(applied[n], old.out)
            BY <1>1, <3>2, <3>3 DEF SoloOK, SoloTaskOK, Pending
        <3> QED BY <3>2, <3>3, <3>4, <3>5, <3>6 DEF Fresh
    <2> QED BY <2>1, <2>2
<1>4. ASSUME NEW m \in Node, CaptureStep(m) \/ FaultStep(m)
      PROVE  applied' = applied
    BY <1>4 DEF CaptureStep, Put, ReadSnapshot, WriteSnapshot, FaultStep, CaptureFails,
       SeedFails, PutFails, ApplyFails, RecountFails, Restart, valueVars
<1>5. ASSUME NEW m \in Node, NEW k \in Slot, Fail(m, k) \/ StatsBegin(m, k)
             \/ \E p \in Node : Request(m, k, p) \/ Serve(m, k, p)
      PROVE  applied' = applied
    BY <1>5 DEF Fail, StatsBegin, Request, Serve, valueVars
<1>6. ASSUME NEW m \in pushes,
             LosePush(m[1], m[2]) \/ \E s \in Node, k \in Slot : ReceivePush(s, k, m[1])
      PROVE  applied' = applied
    BY <1>6 DEF LosePush, ReceivePush, valueVars
<1>7. CASE UNCHANGED vars
    BY <1>7 DEF vars, valueVars
<1> QED BY <1>2, <1>3, <1>4, <1>5, <1>6, <1>7 DEF Next

\* In a cluster that only pulls, one batch at a time, as long as no server stops
\* and no write fails, no operation takes effect after one it causally
\* precedes: for any number of servers and operations.
THEOREM AppliedInCausalOrderHolds == Spec => AppliedInCausalOrder
<1> DEFINE InOrder ==
        ~cluster.realtime_push /\ (\E k \in Slot : cluster.slots = {k}) /\ faults = 0 =>
            \A n \in Node : \A op \in applied'[n] \ applied[n], x \in applied[n] :
                ~happens_before(op.vc, x.vc)
<1>1. IInv /\ SInv /\ [Next]_vars => InOrder
    <2> SUFFICES ASSUME IInv, SInv, [Next]_vars, Solo, NEW n \in Node,
                        NEW op \in applied'[n] \ applied[n], NEW x \in applied[n],
                        happens_before(op.vc, x.vc)
                 PROVE  FALSE
        BY DEF Solo
    <2>1. op \in Op /\ Counter(op) >= 1 /\ (x.node = op.node => Counter(x) < Counter(op))
        BY EffectIsNew
    <2>2. x \in Op /\ CountsOwn(x)
        BY DEF SInv, SoloOK, SeenOK, IInv, TypeOK
    <2>3. x.node = op.node /\ Counter(op) <= Counter(x)
        BY <2>1, <2>2, PrecedesOwn
    <2>4. Counter(op) \in Nat /\ Counter(x) \in Nat
        BY <2>1, <2>2, OpFields
    <2> QED BY <2>1, <2>3, <2>4
<1>2. Init => PInv /\ SInv
    BY PullInit, SoloInit
<1>3. IInv /\ IInv' /\ PInv /\ SInv /\ [Next]_vars => PInv' /\ SInv'
    BY PullNext, SoloNext
<1>4. IInv /\ SInv /\ [Next]_vars => [InOrder]_vars
    BY <1>1
<1> QED BY <1>2, <1>3, <1>4, Inductive, PTL DEF Spec, AppliedInCausalOrder

-----------------------------------------------------------------------------
(* The logs of the cluster are a replicated log. *)

\* What a server has captured and still knows has taken effect there.
WInv == \A n \in Node : Own(n, oplog[n], capture[n]) \subseteq applied[n]

\* Effects are never taken back, and no step but a write adds to what a server
\* knows of its own operations.
LEMMA WrittenKeeps ==
    ASSUME WInv,
           \A n \in Node : /\ applied[n] \subseteq applied'[n]
                           /\ Own(n, oplog'[n], capture'[n]) \subseteq Own(n, oplog[n], capture[n])
    PROVE  WInv'
BY DEF WInv

LEMMA WrittenStays ==
    ASSUME WInv, UNCHANGED <<oplog, capture>>, \A n \in Node : applied[n] \subseteq applied'[n]
    PROVE  WInv'
BY DEF WInv

\* The steps of the replicated log, as the cluster takes them.
LogStep == UNCHANGED <<oplog, applied>> \/ Log!Next

LEMMA LogStamp ==
    ASSUME IInv, WInv, NEW n \in Node, NEW r \in Register, NEW ts \in Timestamp, Stamp(n, r, ts)
    PROVE  LogStep /\ WInv'
<1> DEFINE vc == increment(clock[n], n)
           op == [node |-> n, vc |-> vc, ts |-> ts, reg |-> r]
           c == [at |-> "put", op |-> op, vc |-> EmptyClock]
<1>1. vc \in Clock /\ vc[n] = clock[n][n] + 1 /\ clock[n][n] \in Nat
    BY At DEF increment, Clock
<1>2. op.node = n /\ Counter(op) = clock[n][n] + 1 /\ c.op = op
    BY <1>1 DEF Counter
<1>3. /\ capture' = [capture EXCEPT ![n] = @ \cup {c}]
      /\ applied' = [applied EXCEPT ![n] = @ \cup {op}] /\ oplog' = oplog
    BY DEF Stamp
<1> HIDE DEF op, vc, c
<1>4. op \in applied'[n] /\ \A m \in Node : applied[m] \subseteq applied'[m]
    BY <1>3 DEF IInv, TypeOK
<1>5. ASSUME NEW o \in Log!Logged, o.node = n
      PROVE  Counter(o) < Counter(op)
    <2>1. PICK m \in Node : o \in oplog[m]
        BY DEF Log!Logged
    <2>2. o \in Op /\ o \in oplog[o.node]
        BY <2>1, At DEF ServerOK, Kept
    <2>3. Counter(o) \in 1 .. clock[n][n]
        BY <1>5, <2>2, Numbered
    <2> QED BY <1>1, <1>2, <2>3
<1>6. Log!Write(n)
    BY <1>2, <1>3, <1>4, <1>5 DEF Log!Write, Log!Counter, Counter
<1>7. WInv'
    <2>1. \A m \in Node : \A d \in capture'[m] : d \in capture[m] \/ (m = n /\ d = c)
        BY <1>3 DEF IInv, TypeOK
    <2>2. \A m \in Node : Own(m, oplog'[m], capture'[m]) \subseteq applied'[m]
        BY <1>2, <1>3, <1>4, <2>1 DEF WInv, Own
    <2> QED BY <2>2 DEF WInv
<1> QED BY <1>6, <1>7 DEF LogStep, Log!Next

LEMMA LogCapture ==
    ASSUME IInv, WInv, NEW n \in Node, CaptureStep(n)
    PROVE  LogStep /\ WInv'
<1>1. /\ applied' = applied
      /\ \A m \in Node \ {n} : oplog'[m] = oplog[m] /\ capture'[m] = capture[m]
      /\ Own(n, oplog'[n], capture'[n]) \subseteq Own(n, oplog[n], capture[n])
      /\ oplog' = oplog
         \/ \E c \in capture[n] : c.op.node = n /\ oplog' = [oplog EXCEPT ![n] = @ \cup {c.op}]
    BY CaptureKeeps
<1>2. WInv'
    BY <1>1, WrittenKeeps
<1>3. ASSUME NEW c \in capture[n], c.op.node = n, oplog' = [oplog EXCEPT ![n] = @ \cup {c.op}]
      PROVE  Log!Append(n)
    <2>1. c.op \in Own(n, oplog[n], capture[n])
        BY DEF Own
    <2>2. c.op \in applied[n]
        BY <2>1 DEF WInv
    <2>3. ASSUME NEW o \in Log!Logged, o.node = n, Counter(o) = Counter(c.op)
          PROVE  o = c.op
        <3>1. PICK m \in Node : o \in oplog[m]
            BY DEF Log!Logged
        <3>2. o \in oplog[n]
            BY <2>3, <3>1, At DEF ServerOK, Kept
        <3>3. o \in Own(n, oplog[n], capture[n])
            BY <2>3, <3>2 DEF Own
        <3> QED BY <2>1, <2>3, <3>3, At DEF ServerOK, NumbersOK
    <2>4. \E op \in applied[n] :
              /\ op.node = n
              /\ \A o \in Log!Logged : o.node = n /\ Counter(o) = Counter(op) => o = op
              /\ oplog' = [oplog EXCEPT ![n] = @ \cup {op}]
        BY <1>3, <2>2, <2>3
    <2> QED BY <1>1, <2>4 DEF Log!Append, Log!Counter, Counter
<1> QED BY <1>1, <1>2, <1>3 DEF LogStep, Log!Next

LEMMA LogPut ==
    ASSUME IInv, WInv, NEW n \in Node, NEW k \in Slot, LogBatch(n, k)
    PROVE  LogStep /\ WInv'
<1> DEFINE ops == task[<<n, k>>].ops
<1>1. /\ oplog' = [oplog EXCEPT ![n] = oplog[n] \cup ops]
      /\ applied' = applied /\ capture' = capture
    BY DEF LogBatch, valueVars
<1>2. TaskOK(oplog, oplog[n], task[<<n, k>>])
    BY Here
<1>3. \A op \in ops : op \in oplog[op.node]
    BY <1>2 DEF TaskOK, Kept
<1>4. oplog'[n] = oplog[n] \cup ops /\ \A m \in Node \ {n} : oplog'[m] = oplog[m]
    BY <1>1 DEF IInv, TypeOK
<1> HIDE DEF ops
<1>5. \A op \in oplog'[n] : op \in oplog[op.node]
    BY <1>3, <1>4, At DEF ServerOK, Kept
<1>6. Log!Receive(n)
    BY <1>1, <1>4, <1>5 DEF Log!Receive
<1>7. Own(n, oplog'[n], capture'[n]) \subseteq Own(n, oplog[n], capture[n])
    BY <1>1, <1>3, <1>4 DEF Own
<1>8. WInv'
    BY <1>1, <1>4, <1>7, WrittenKeeps
<1> QED BY <1>6, <1>8 DEF LogStep, Log!Next

LEMMA LogApply ==
    ASSUME IInv, WInv, NEW n \in Node, NEW k \in Slot,
           WriteStored(n, k) \/ \E op \in task[<<n, k>>].out : ReadStored(n, k, op)
    PROVE  LogStep /\ WInv'
<1> DEFINE t == task[<<n, k>>]
<1>1. TaskOK(oplog, oplog[n], t) /\ UNCHANGED <<oplog, capture>>
    BY Here DEF WriteStored, ReadStored
<1>2. \/ applied' = applied
      \/ \E op \in oplog[n] : applied' = [applied EXCEPT ![n] = @ \cup {op}]
    <2>1. CASE WriteStored(n, k)
        BY <1>1, <2>1 DEF WriteStored, TaskOK
    <2>2. ASSUME NEW op \in t.out, ReadStored(n, k, op)
          PROVE  \/ applied' = applied
                 \/ \E o \in oplog[n] : applied' = [applied EXCEPT ![n] = @ \cup {o}]
        <3>1. op \in oplog[n]
            BY <1>1, <2>2 DEF ReadStored, TaskOK, Appended
        <3> QED BY <2>2, <3>1 DEF ReadStored
    <2> QED BY <2>1, <2>2
<1>3. LogStep
    BY <1>1, <1>2 DEF LogStep, Log!Next, Log!Apply
<1>4. \A m \in Node : applied[m] \subseteq applied'[m]
    BY <1>2 DEF IInv, TypeOK
<1> QED BY <1>1, <1>3, <1>4, WrittenStays

\* A restart forgets captures; nothing else that fails changes logs or effects.
LEMMA LogFault ==
    ASSUME IInv, WInv, NEW n \in Node, FaultStep(n)
    PROVE  LogStep /\ WInv'
<1>1. UNCHANGED <<oplog, applied>>
    BY DEF FaultStep, CaptureFails, SeedFails, PutFails, ApplyFails, RecountFails, Restart,
       valueVars
<1>2. \A m \in Node : capture'[m] \subseteq capture[m]
    BY DEF FaultStep, CaptureFails, SeedFails, PutFails, ApplyFails, RecountFails, Restart,
       IInv, TypeOK
<1>3. \A m \in Node : Own(m, oplog'[m], capture'[m]) \subseteq Own(m, oplog[m], capture[m])
    BY <1>1, <1>2 DEF Own
<1> QED BY <1>1, <1>3, WrittenKeeps DEF LogStep

LEMMA LogNext ==
    ASSUME IInv, WInv, [Next]_vars
    PROVE  LogStep /\ WInv'
<1>1. ASSUME UNCHANGED <<oplog, applied, capture>>
      PROVE  LogStep /\ WInv'
    BY <1>1, WrittenStays DEF LogStep
<1>2. ASSUME NEW n \in Node, NEW k \in Slot, TaskStep(n, k)
      PROVE  LogStep /\ WInv'
    <2>1. CASE LogBatch(n, k)
        BY <2>1, LogPut
    <2>2. CASE WriteStored(n, k) \/ \E op \in task[<<n, k>>].out : ReadStored(n, k, op)
        BY <2>2, LogApply
    <2>3. CASE ReadSeed(n, k) \/ DeliverNext(n, k) \/ Replay(n, k) \/ WriteBatchSnapshot(n, k)
               \/ StatsScan(n, k) \/ StatsWrite(n, k)
               \/ \E op \in task[<<n, k>>].out : ReadBatchSnapshot(n, k, op)
        BY <1>1, <2>3 DEF ReadSeed, DeliverNext, Replay, WriteBatchSnapshot, ReadBatchSnapshot,
           StatsScan, StatsWrite, valueVars
    <2> QED BY <1>2, <2>1, <2>2, <2>3 DEF TaskStep
<1>3. ASSUME NEW n \in Node, NEW k \in Slot,
             Fail(n, k) \/ StatsBegin(n, k) \/ \E p \in Node : Request(n, k, p) \/ Serve(n, k, p)
      PROVE  LogStep /\ WInv'
    BY <1>1, <1>3 DEF Fail, StatsBegin, Request, Serve, valueVars
<1>4. ASSUME NEW m \in pushes,
             LosePush(m[1], m[2]) \/ \E n \in Node, k \in Slot : ReceivePush(n, k, m[1])
      PROVE  LogStep /\ WInv'
    BY <1>1, <1>4 DEF LosePush, ReceivePush, valueVars
<1>5. CASE UNCHANGED vars
    BY <1>1, <1>5 DEF vars, valueVars
<1>6. CASE Next
    BY <1>2, <1>3, <1>4, <1>6, LogStamp, LogCapture, LogFault DEF Next
<1> QED BY <1>5, <1>6

\* The cluster implements ReplicatedLog, in every configuration and with pushes,
\* restarts and failed writes anywhere: a write and its capture, a put and the
\* application of an operation are its steps, all others leave it alone.
THEOREM ClusterImplementsLog == Spec => ImplementsLog
<1>1. Init => WInv /\ Log!Init
    BY DEF Init, WInv, Own, Log!Init
<1>2. IInv /\ WInv /\ [Next]_vars => WInv' /\ [Log!Next]_(Log!vars)
    BY LogNext DEF LogStep, Log!vars
<1> QED BY <1>1, <1>2, Inductive, PTL DEF Spec, ImplementsLog, Log!Spec

=============================================================================
