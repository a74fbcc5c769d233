------------------------ MODULE CausalDelivery_proofs ------------------------
(***************************************************************************)
(* Proofs that the causal delivery buffer hands operations out in causal   *)
(* order, at most once and never before a dependency, for any number of    *)
(* senders, operations, clock readings and restarts, and from any seed.    *)
(*                                                                         *)
(* The inductive invariant IInv adds to the properties:                    *)
(*   - what the senders guarantee (SendersOK): an operation is identified  *)
(*     by its origin and counter, and a clock that counts an operation     *)
(*     also counts everything that operation depends on;                   *)
(*   - what the buffer's clock means (Counts): beyond its seed it counts   *)
(*     exactly the operations handed out or released, and it covers        *)
(*     their clocks (those of what the seed counts it need not cover);     *)
(*   - how the pieces of a call fit together (CallOK).                     *)
(***************************************************************************)
EXTENDS CausalDelivery, WellFoundedInduction, SequenceTheorems, FiniteSetTheorems, TLAPS

Covers(a, b) == \A n \in Node : b[n] <= a[n]

SendersOK ==
    /\ \A op \in sent : Counter(op) >= 1
    /\ \A n, m \in Node : clock[n][m] <= clock[m][m]
    /\ \A op \in sent : \A m \in Node : op.vc[m] <= clock[m][m]
    /\ \A m \in Node : \A c \in 1 .. clock[m][m] :
           \E op \in sent : op.node = m /\ Counter(op) = c
    /\ \A a, b \in sent :
           a.node = b.node /\ Counter(a) = Counter(b) => a = b
    /\ \A a, b \in sent :
           a # b /\ Counter(a) <= b.vc[a.node]
             => Covers(b.vc, a.vc) /\ a.vc[b.node] < b.vc[b.node]
    /\ \A n \in Node, a \in sent :
           Counter(a) <= clock[n][a.node] => Covers(clock[n], a.vc)

Out(op) == \E i \in 1 .. Len(delivered) : delivered[i] = op
Released(op) == \E i \in 1 .. Len(deliverable) : deliverable[i] = op
Seeded(op) == Counter(op) <= seed[op.node]

Counts ==
    /\ \A m \in Node : seed[m] <= local_vc[m] /\ local_vc[m] <= clock[m][m]
    /\ \A op \in sent :
           Counter(op) <= local_vc[op.node] <=> Seeded(op) \/ Out(op) \/ Released(op)
    /\ \A op \in sent :
           Out(op) \/ Released(op) => ~Seeded(op) /\ Covers(local_vc, op.vc)

CallOK ==
    /\ pc = "idle" => deliverable = << >> /\ returned = Len(delivered)
    /\ pc # "round" => ready = {}
    /\ pc # "idle" => returned <= sortBase
    /\ \A op \in ready : dependencies_satisfied(local_vc, op)
    /\ pc \in {"idle", "sort"} =>
           \A op \in buffered_ops : ~dependencies_satisfied(local_vc, op)

Before(a, b) == happens_before(a.vc, b.vc)

OrderOK ==
    /\ \A i, j \in 1 .. Len(delivered) : i < j => ~Before(delivered[j], delivered[i])
    /\ \A i \in 1 .. Len(deliverable), j \in 1 .. Len(delivered) :
           ~Before(deliverable[i], delivered[j]) /\ deliverable[i] # delivered[j]
    /\ \A i, j \in 1 .. Len(deliverable) :
           i < j => ~Before(deliverable[j], deliverable[i])
    /\ \A i, j \in 1 .. Len(delivered) : i # j => delivered[i] # delivered[j]
    /\ \A i, j \in 1 .. Len(deliverable) : i # j => deliverable[i] # deliverable[j]

IInv == TypeOK /\ SendersOK /\ Counts /\ CallOK /\ OrderOK
-----------------------------------------------------------------------------
(* Lemmas about clocks. *)

\* Every non-empty set of naturals has a least element.
LEMMA LeastNatural ==
    ASSUME NEW T \in SUBSET Nat, T # {}
    PROVE  \E x \in T : \A y \in T : x <= y
<1> DEFINE R == OpToRel(<, Nat)
<1>1. IsWellFoundedOn(R, Nat)
    BY NatLessThanWellFounded, Zenon
<1>2. \A x, y \in Nat : x < y => <<x, y>> \in R
    BY Zenon DEF OpToRel
<1> HIDE DEF R
<1>3. \E x \in T : \A y \in T : ~ (<<y, x>> \in R)
    BY <1>1, WFMin, Zenon
<1>4. \A x, y \in Nat : x <= y \/ y < x
    OBVIOUS
<1> QED
    BY <1>2, <1>3, <1>4, Zenon

\* happens_before is the strict pointwise order (VectorClock::compare).
LEMMA HappensBefore ==
    ASSUME NEW a, NEW b
    PROVE  happens_before(a, b) <=> AnyLess(a, b) /\ ~AnyLess(b, a)
BY DEF happens_before, compare

\* An element the sort moves left past another does not come after it causally.
LEMMA LessNotAfter ==
    ASSUME NEW a, NEW b, Less(a, b)
    PROVE  ~Before(b, a)
<1>1. happens_after(a.vc, b.vc) <=> AnyLess(b.vc, a.vc) /\ ~AnyLess(a.vc, b.vc)
    BY DEF happens_after, compare
<1>2. happens_before(b.vc, a.vc) <=> AnyLess(b.vc, a.vc) /\ ~AnyLess(a.vc, b.vc)
    BY HappensBefore
<1>3. happens_before(a.vc, b.vc) <=> AnyLess(a.vc, b.vc) /\ ~AnyLess(b.vc, a.vc)
    BY HappensBefore
<1> QED
    BY <1>1, <1>2, <1>3 DEF Less, Before

\* Merging the clock of a deliverable operation counts that one operation more
\* and nothing else (update_local_clock after dependencies_satisfied).
LEMMA MergeNext ==
    ASSUME NEW local \in Clock, NEW op \in Op,
           Counter(op) >= 1, dependencies_satisfied(local, op)
    PROVE  /\ Counter(op) = local[op.node] + 1
           /\ merge(local, op.vc) \in Clock
           /\ merge(local, op.vc)[op.node] = Counter(op)
           /\ \A n \in Node : n # op.node => merge(local, op.vc)[n] = local[n]
           /\ \A n \in Node : local[n] <= merge(local, op.vc)[n]
           /\ Covers(merge(local, op.vc), op.vc)
BY DEF Clock, Op, Counter, dependencies_satisfied, merge, Covers

\* Covering is transitive.
LEMMA CoversTransitive ==
    ASSUME NEW a \in Clock, NEW b \in Clock, NEW c \in Clock,
           Covers(a, b), Covers(b, c)
    PROVE  Covers(a, c)
<1> SUFFICES ASSUME NEW n \in Node
             PROVE  c[n] <= a[n]
    BY DEF Covers
<1>1. a[n] \in Nat /\ b[n] \in Nat /\ c[n] \in Nat
    BY DEF Clock
<1>2. b[n] <= a[n] /\ c[n] <= b[n]
    BY DEF Covers
<1> QED
    BY <1>1, <1>2

\* Delivering one operation leaves every other deliverable one deliverable.
LEMMA StaysSatisfied ==
    ASSUME NEW a \in Clock, NEW b \in Clock, NEW op \in Op, Covers(b, a),
           a[op.node] = b[op.node], dependencies_satisfied(a, op)
    PROVE  dependencies_satisfied(b, op)
<1> SUFFICES ASSUME NEW n \in Node, op.vc[n] # 0
             PROVE  IF n = op.node THEN b[n] = op.vc[n] - 1 ELSE b[n] >= op.vc[n]
    BY DEF dependencies_satisfied
<1>1. a[n] \in Nat /\ b[n] \in Nat /\ op.vc[n] \in Nat
    BY DEF Clock, Op
<1>2. a[n] <= b[n]
    BY DEF Covers
<1>3. IF n = op.node THEN a[n] = op.vc[n] - 1 ELSE a[n] >= op.vc[n]
    BY DEF dependencies_satisfied
<1> QED
    BY <1>1, <1>2, <1>3

\* A deliverable operation causally precedes nothing the clock covers.
LEMMA NextIsNotBefore ==
    ASSUME NEW local \in Clock, NEW op \in Op, NEW old \in Op,
           Counter(op) >= 1, dependencies_satisfied(local, op),
           Covers(local, old.vc)
    PROVE  ~Before(op, old)
<1>1. op.node \in Node /\ old.vc[op.node] <= local[op.node]
    BY DEF Covers, Op
<1>2. old.vc[op.node] < op.vc[op.node]
    BY <1>1, MergeNext DEF Clock, Op, Counter
<1>3. AnyLess(old.vc, op.vc)
    BY <1>1, <1>2 DEF AnyLess
<1> QED
    BY <1>3, HappensBefore DEF Before
-----------------------------------------------------------------------------
(* Lemmas about the sort. *)

\* The insertion point exists: above it the inserted element is Less.
LEMMA InsertionPointIsOne ==
    ASSUME NEW S, NEW s \in Seq(S), NEW base \in 0 .. Len(s), NEW op
    PROVE  /\ InsertionPoint(s, base, op) \in base + 1 .. Len(s) + 1
           /\ \A j \in InsertionPoint(s, base, op) .. Len(s) : Less(op, s[j])
<1> DEFINE P(i) == (\A j \in i .. Len(s) : Less(op, s[j]))
                     /\ (i > base + 1 => ~Less(op, s[i - 1]))
           T == {i \in base + 1 .. Len(s) + 1 :
                    \A j \in i .. Len(s) : Less(op, s[j])}
<1>1. Len(s) \in Nat
    BY LenProperties
<1>2. Len(s) + 1 \in T
    BY <1>1
<1>3. T \in SUBSET Nat /\ T # {}
  <2>1. T \subseteq base + 1 .. Len(s) + 1
    OBVIOUS
  <2>2. base + 1 .. Len(s) + 1 \subseteq Nat
    BY <1>1
  <2> HIDE DEF T
  <2> QED
    BY <1>2, <2>1, <2>2
<1>4. PICK i \in T : \A y \in T : i <= y
  <2> HIDE DEF T
  <2> QED
    BY <1>3, LeastNatural
<1>5. i > base + 1 => ~Less(op, s[i - 1])
  <2> SUFFICES ASSUME i > base + 1, Less(op, s[i - 1])
               PROVE  i - 1 \in T
    BY <1>1, <1>4
  <2>1. \A j \in i - 1 .. Len(s) : j = i - 1 \/ j \in i .. Len(s)
    BY <1>1
  <2> QED
    BY <1>1, <2>1
<1>6. i \in base + 1 .. Len(s) + 1 /\ P(i)
    BY <1>5
<1>7. InsertionPoint(s, base, op) = CHOOSE k \in base + 1 .. Len(s) + 1 : P(k)
    BY DEF InsertionPoint
<1> HIDE DEF P
<1>8. /\ InsertionPoint(s, base, op) \in base + 1 .. Len(s) + 1
      /\ P(InsertionPoint(s, base, op))
    BY <1>6, <1>7
<1> QED
    BY <1>8 DEF P

\* Inserting keeps the other elements in their order.
LEMMA InsertAtProperties ==
    ASSUME NEW S, NEW s \in Seq(S), NEW i \in 1 .. Len(s) + 1, NEW op \in S
    PROVE  /\ InsertAt(s, i, op) \in Seq(S)
           /\ Len(InsertAt(s, i, op)) = Len(s) + 1
           /\ \A j \in 1 .. Len(s) + 1 : InsertAt(s, i, op)[j] =
                  IF j < i THEN s[j] ELSE IF j = i THEN op ELSE s[j - 1]
<1>1. Len(s) \in Nat /\ \A j \in 1 .. Len(s) : s[j] \in S
    BY LenProperties, ElementOfSeq
<1>2. \A j \in 1 .. Len(s) + 1 :
          (IF j < i THEN s[j] ELSE IF j = i THEN op ELSE s[j - 1]) \in S
    BY <1>1
<1> QED
    BY <1>1, <1>2 DEF InsertAt

-----------------------------------------------------------------------------
(* What the invariant implies. *)

\* Everything handed out or released has its dependencies counted, and the
\* order of the hand-out puts them first.
LEMMA InvImpliesDependenciesFirst ==
    ASSUME IInv
    PROVE  DependenciesFirst
<1> SUFFICES ASSUME NEW i \in 1 .. Len(delivered), NEW dep \in sent,
                    dep # delivered[i],
                    Counter(dep) <= delivered[i].vc[dep.node]
             PROVE  Counter(dep) <= seed[dep.node] \/ \E j \in 1 .. i - 1 : delivered[j] = dep
    BY DEF DependenciesFirst
<1> SUFFICES ASSUME ~Seeded(dep)
             PROVE  \E j \in 1 .. i - 1 : delivered[j] = dep
    BY DEF Seeded
<1> DEFINE x == delivered[i]
<1>1. /\ sent \subseteq Op /\ x \in sent /\ x \in Op /\ dep \in Op
      /\ local_vc \in Clock /\ Len(delivered) \in Nat
    BY ElementOfSeq, LenProperties DEF IInv, TypeOK
<1>2. dep.node \in Node /\ x.node \in Node
    BY <1>1 DEF Op
<1>3. Covers(x.vc, dep.vc) /\ dep.vc[x.node] < x.vc[x.node]
    BY <1>1 DEF IInv, SendersOK
<1>4. Before(dep, x)
  <2>1. AnyLess(dep.vc, x.vc)
    BY <1>2, <1>3 DEF AnyLess
  <2>2. ~AnyLess(x.vc, dep.vc)
    BY <1>1, <1>3 DEF AnyLess, Covers, Op, Clock
  <2> QED
    BY <2>1, <2>2, HappensBefore DEF Before
<1>6. Covers(local_vc, x.vc)
    BY <1>1 DEF IInv, Counts, Out
<1>7. Counter(dep) <= local_vc[dep.node]
  <2>1. Counter(dep) \in Nat /\ x.vc[dep.node] \in Nat /\ local_vc[dep.node] \in Nat
    BY <1>1, <1>2 DEF Op, Clock, Counter
  <2> QED
    BY <1>2, <1>6, <2>1 DEF Covers
<1>8. Out(dep) \/ Released(dep)
    BY <1>7 DEF IInv, Counts
<1>9. ~Released(dep)
    BY <1>4 DEF Released, IInv, OrderOK
<1>10. PICK j \in 1 .. Len(delivered) : delivered[j] = dep
    BY <1>8, <1>9 DEF Out
<1>11. ~(i < j)
    BY <1>4, <1>10 DEF IInv, OrderOK
<1> QED
    BY <1>1, <1>10, <1>11

\* Nothing is handed out twice, and nothing the seed counts.
LEMMA InvImpliesAtMostOnce ==
    ASSUME IInv
    PROVE  AtMostOnce
<1> SUFFICES ASSUME NEW i \in 1 .. Len(delivered)
             PROVE  Counter(delivered[i]) > seed[delivered[i].node]
  BY DEF IInv, OrderOK, AtMostOnce
<1>1. delivered[i] \in sent /\ sent \subseteq Op /\ seed \in Clock
  BY ElementOfSeq, LenProperties DEF IInv, TypeOK
<1>2. ~Seeded(delivered[i])
  BY <1>1 DEF IInv, Counts, Out
<1>3. Counter(delivered[i]) \in Nat /\ seed[delivered[i].node] \in Nat
  BY <1>1 DEF Op, Clock, Counter
<1> QED
  BY <1>2, <1>3 DEF Seeded
-----------------------------------------------------------------------------
(* One lemma per action: the inductive invariant is preserved. *)

LEMMA CaptureInv ==
    ASSUME IInv, NEW n \in Node, NEW ts \in Timestamp, Capture(n, ts)
    PROVE  IInv'
<1> DEFINE op == [node |-> n, vc |-> increment(clock[n], n), ts |-> ts]
<1>1. /\ clock \in [Node -> Clock] /\ sent \subseteq Op
      /\ clock' = [clock EXCEPT ![n] = increment(@, n)]
      /\ sent' = sent \cup {op}
      /\ UNCHANGED <<bufferVars, restarts>>
    BY DEF IInv, TypeOK, Capture
<1>2. /\ clock[n] \in Clock /\ op \in Op /\ op.node = n
      /\ op.vc = increment(clock[n], n)
      /\ \A m \in Node : op.vc[m] = IF m = n THEN clock[n][n] + 1 ELSE clock[n][m]
      /\ Counter(op) = clock[n][n] + 1
      /\ \A a, b \in Node : clock[a][b] \in Nat
    BY <1>1 DEF Clock, increment, Op, Counter
<1> HIDE DEF op
<1>3. \A a, b \in Node : clock'[a][b] = IF a = n /\ b = n THEN clock[n][n] + 1
                                                       ELSE clock[a][b]
    BY <1>1, <1>2 DEF increment, Clock
<1>4. \A a \in sent : /\ a \in Op /\ a.node \in Node /\ a.vc \in Clock
                      /\ a.vc[n] <= clock[n][n] /\ Counter(a) <= clock[a.node][a.node]
                      /\ Counter(a) \in Nat
    BY <1>1 DEF IInv, SendersOK, Op, Clock, Counter
<1>5. TypeOK'
  <2>1. clock' \in [Node -> Clock]
    BY <1>1, <1>2 DEF Clock, increment
  <2>2. deliverable \in Seq(sent') /\ delivered \in Seq(sent')
    BY <1>1, SeqMonotonic DEF IInv, TypeOK
  <2> QED
    BY <1>1, <1>2, <2>1, <2>2 DEF IInv, TypeOK, bufferVars
<1>6. SendersOK'
  <2>1. \A x \in sent' : Counter(x) >= 1
    BY <1>1, <1>2 DEF IInv, SendersOK
  <2>2. \A k, m \in Node : clock'[k][m] <= clock'[m][m]
    BY <1>2, <1>3 DEF IInv, SendersOK
  <2>3. \A x \in sent' : \A m \in Node : x.vc[m] <= clock'[m][m]
    <3>1. \A x \in sent : \A m \in Node : x.vc[m] <= clock[m][m] /\ x.vc[m] \in Nat
      BY <1>4 DEF IInv, SendersOK, Clock
    <3>2. \A m \in Node : op.vc[m] <= clock'[m][m]
      BY <1>2, <1>3 DEF IInv, SendersOK
    <3> QED
      BY <1>1, <1>2, <1>3, <3>1, <3>2
  <2>4. \A m \in Node : \A c \in 1 .. clock'[m][m] :
            \E x \in sent' : x.node = m /\ Counter(x) = c
    <3> SUFFICES ASSUME NEW m \in Node, NEW c \in 1 .. clock'[m][m]
                 PROVE  \E x \in sent' : x.node = m /\ Counter(x) = c
      OBVIOUS
    <3>1. c \in 1 .. clock[m][m] \/ (m = n /\ c = Counter(op))
      BY <1>2, <1>3
    <3> QED
      BY <1>1, <1>2, <3>1 DEF IInv, SendersOK
  <2>5. \A a, b \in sent' : a.node = b.node /\ Counter(a) = Counter(b) => a = b
    BY <1>1, <1>2, <1>4 DEF IInv, SendersOK
  <2>6. \A a, b \in sent' :
            a # b /\ Counter(a) <= b.vc[a.node]
              => Covers(b.vc, a.vc) /\ a.vc[b.node] < b.vc[b.node]
    <3> SUFFICES ASSUME NEW a \in sent', NEW b \in sent',
                        a # b, Counter(a) <= b.vc[a.node]
                 PROVE  Covers(b.vc, a.vc) /\ a.vc[b.node] < b.vc[b.node]
      OBVIOUS
    <3>1. CASE a \in sent /\ b \in sent
      BY <3>1 DEF IInv, SendersOK
    <3>2. CASE a \in sent /\ b = op
      <4>1. Counter(a) <= clock[n][a.node]
        BY <3>2, <1>2, <1>4 DEF Counter
      <4>2. Covers(clock[n], a.vc)
        BY <3>2, <4>1 DEF IInv, SendersOK
      <4>3. Covers(op.vc, a.vc)
        BY <1>2, <1>4, <3>2, <4>2 DEF Covers, Clock
      <4> QED
        BY <3>2, <4>3, <1>2, <1>4 DEF Clock
    <3>3. CASE a = op /\ b \in sent
      BY <3>3, <1>2, <1>4 DEF Clock
    <3> QED
      BY <1>1, <3>1, <3>2, <3>3
  <2>7. \A m \in Node, a \in sent' :
            Counter(a) <= clock'[m][a.node] => Covers(clock'[m], a.vc)
    <3> SUFFICES ASSUME NEW m \in Node, NEW a \in sent',
                        Counter(a) <= clock'[m][a.node]
                 PROVE  Covers(clock'[m], a.vc)
      OBVIOUS
    <3>1. CASE a \in sent
      <4>1. Counter(a) <= clock[m][a.node]
        BY <3>1, <1>2, <1>3, <1>4
      <4>2. Covers(clock[m], a.vc)
        BY <3>1, <4>1 DEF IInv, SendersOK
      <4> QED
        BY <4>2, <1>2, <1>3, <1>4, <3>1 DEF Covers, Clock
    <3>2. CASE a = op
      <4>1. m = n
        BY <3>2, <1>2, <1>3 DEF IInv, SendersOK
      <4> QED
        BY <3>2, <4>1, <1>2, <1>3 DEF Covers
    <3> QED
      BY <1>1, <3>1, <3>2
  <2> QED
    BY <2>1, <2>2, <2>3, <2>4, <2>5, <2>6, <2>7 DEF SendersOK
<1>7. Counts'
  <2>1. local_vc \in Clock /\ seed \in Clock
    BY DEF IInv, TypeOK
  <2>2. local_vc[n] < Counter(op) /\ seed[n] < Counter(op)
    BY <1>2, <2>1 DEF IInv, Counts, Clock
  <2>3. op \notin sent
    BY <1>2, <1>4
  <2>4. ~Out(op) /\ ~Released(op)
    BY <2>3, ElementOfSeq, LenProperties DEF Out, Released, IInv, TypeOK
  <2>5. \A x \in sent' : /\ Out(x)' <=> Out(x)
                         /\ Released(x)' <=> Released(x)
                         /\ Seeded(x)' <=> Seeded(x)
    BY <1>1 DEF Out, Released, Seeded, bufferVars
  <2>6. \A m \in Node : seed[m] <= local_vc[m] /\ local_vc[m] <= clock'[m][m]
    BY <1>2, <1>3, <2>1 DEF IInv, Counts, Clock
  <2>7. ASSUME NEW x \in sent'
        PROVE  /\ Counter(x) <= local_vc[x.node] <=> Seeded(x) \/ Out(x) \/ Released(x)
               /\ Out(x) \/ Released(x) => ~Seeded(x) /\ Covers(local_vc, x.vc)
    <3>1. CASE x \in sent
      BY <3>1 DEF IInv, Counts
    <3>2. CASE x = op
      <4>1. ~(Counter(op) <= local_vc[n]) /\ ~(Counter(op) <= seed[n])
        BY <1>2, <2>1, <2>2 DEF Clock
      <4> QED
        BY <1>2, <2>4, <3>2, <4>1 DEF Seeded
    <3> QED
      BY <1>1, <3>1, <3>2
  <2> QED
    BY <1>1, <2>5, <2>6, <2>7 DEF Counts, bufferVars
<1>8. CallOK' /\ OrderOK'
    BY <1>1 DEF IInv, CallOK, OrderOK, bufferVars
<1> QED
    BY <1>5, <1>6, <1>7, <1>8 DEF IInv

LEMMA LearnRemoteInv ==
    ASSUME IInv, NEW n \in Node, NEW op \in sent, LearnRemote(n, op)
    PROVE  IInv'
<1>1. /\ clock \in [Node -> Clock] /\ sent \subseteq Op /\ op \in Op
      /\ clock' = [clock EXCEPT ![n] = merge(@, op.vc)]
      /\ UNCHANGED <<sent, bufferVars, restarts>>
    BY DEF IInv, TypeOK, LearnRemote
<1>2. /\ \A a, b \in Node : clock[a][b] \in Nat
      /\ \A b \in Node : op.vc[b] \in Nat /\ op.vc[b] <= clock[b][b]
      /\ \A a, b \in Node : clock[a][b] <= clock[b][b]
    BY <1>1 DEF Clock, Op, IInv, SendersOK
<1>3. \A a, b \in Node : clock'[a][b] = IF a = n /\ op.vc[b] > clock[n][b]
                                       THEN op.vc[b] ELSE clock[a][b]
    BY <1>1, <1>2 DEF merge, Clock
<1>4. \A b \in Node : clock'[b][b] = clock[b][b]
    BY <1>2, <1>3
<1>5. TypeOK'
  <2>1. clock' \in [Node -> Clock]
    BY <1>1, <1>2 DEF merge, Clock
  <2> QED
    BY <1>1, <2>1 DEF IInv, TypeOK, bufferVars
<1>6. SendersOK'
  <2>1. \A k, m \in Node : clock'[k][m] <= clock'[m][m]
    BY <1>2, <1>3, <1>4
  <2>2. \A m \in Node, a \in sent :
            Counter(a) <= clock'[m][a.node] => Covers(clock'[m], a.vc)
    <3> SUFFICES ASSUME NEW m \in Node, NEW a \in sent,
                        Counter(a) <= clock'[m][a.node]
                 PROVE  Covers(clock'[m], a.vc)
      OBVIOUS
    <3>1. a \in Op /\ a.node \in Node /\ \A b \in Node : a.vc[b] \in Nat
      BY <1>1 DEF Op, Clock
    <3>2. Covers(clock[m], a.vc) \/ (m = n /\ Covers(op.vc, a.vc))
      <4>1. CASE Counter(a) <= clock[m][a.node]
        BY <4>1 DEF IInv, SendersOK
      <4>2. CASE m = n /\ Counter(a) <= op.vc[a.node]
        <5>1. CASE a = op
          BY <5>1, <4>2, <1>2 DEF Covers
        <5>2. CASE a # op
          BY <5>2, <4>2 DEF IInv, SendersOK
        <5> QED
          BY <5>1, <5>2
      <4> QED
        BY <1>2, <1>3, <3>1, <4>1, <4>2
    <3> QED
      BY <1>2, <1>3, <3>1, <3>2 DEF Covers
  <2> QED
    BY <1>1, <1>4, <2>1, <2>2 DEF IInv, SendersOK
<1>7. Counts'
    BY <1>1, <1>4 DEF IInv, Counts, Out, Released, Seeded, bufferVars
<1>8. CallOK' /\ OrderOK'
    BY <1>1 DEF IInv, CallOK, OrderOK, bufferVars
<1> QED
    BY <1>5, <1>6, <1>7, <1>8 DEF IInv

\* Counting one deliverable operation more: the facts both delivery actions
\* need.
LEMMA CountNext ==
    ASSUME IInv, NEW op \in sent, dependencies_satisfied(local_vc, op)
    PROVE  /\ merge(local_vc, op.vc) \in Clock
           /\ \A m \in Node : merge(local_vc, op.vc)[m] <= clock[m][m]
           /\ \A x \in sent : Counter(x) <= merge(local_vc, op.vc)[x.node]
                                <=> Counter(x) <= local_vc[x.node] \/ x = op
           /\ \A m \in Node : seed[m] <= merge(local_vc, op.vc)[m]
           /\ ~Seeded(op)
           /\ \A x \in sent : Out(x) \/ Released(x) \/ x = op
                                => Covers(merge(local_vc, op.vc), x.vc)
           /\ \A x \in sent : Out(x) \/ Released(x) => ~Before(op, x) /\ op # x
           /\ \A x \in sent : x # op /\ dependencies_satisfied(local_vc, x)
                                => dependencies_satisfied(merge(local_vc, op.vc), x)
<1> DEFINE local == merge(local_vc, op.vc)
<1>1. /\ sent \subseteq Op /\ op \in Op /\ local_vc \in Clock /\ op.node \in Node
      /\ Counter(op) >= 1
    BY DEF IInv, TypeOK, SendersOK, Op
<1>2. /\ Counter(op) = local_vc[op.node] + 1 /\ local \in Clock
      /\ local[op.node] = Counter(op)
      /\ \A m \in Node : m # op.node => local[m] = local_vc[m]
      /\ \A m \in Node : local_vc[m] <= local[m]
      /\ Covers(local, op.vc)
    BY <1>1, MergeNext
<1> HIDE DEF local
<1>3. \A x \in sent : /\ x \in Op /\ x.node \in Node /\ Counter(x) \in Nat
                      /\ \A m \in Node : x.vc[m] \in Nat
    BY <1>1 DEF Op, Clock, Counter
<1>9. Covers(local, local_vc)
    BY <1>2 DEF Covers
<1>4. \A m \in Node : local[m] <= clock[m][m]
  <2>1. Counter(op) <= clock[op.node][op.node]
    BY <1>1 DEF IInv, SendersOK, Counter
  <2> QED
    BY <1>1, <1>2, <2>1 DEF IInv, Counts
<1>5. \A x \in sent : Counter(x) <= local[x.node]
                         <=> Counter(x) <= local_vc[x.node] \/ x = op
  <2> SUFFICES ASSUME NEW x \in sent
               PROVE  Counter(x) <= local[x.node]
                        <=> Counter(x) <= local_vc[x.node] \/ x = op
    OBVIOUS
  <2>1. CASE x.node # op.node
    BY <1>2, <1>3, <2>1
  <2>2. CASE x.node = op.node
    <3>1. x = op <=> Counter(x) = Counter(op)
      BY <2>2 DEF IInv, SendersOK
    <3>2. local_vc[op.node] \in Nat /\ Counter(x) \in Nat
      BY <1>1, <1>3 DEF Clock
    <3> QED
      BY <1>2, <2>2, <3>1, <3>2
  <2> QED
    BY <2>1, <2>2
<1>6. ASSUME NEW x \in sent, Out(x) \/ Released(x) \/ x = op
      PROVE  Covers(local, x.vc)
  <2>1. CASE x = op
    BY <1>2, <2>1
  <2>2. CASE Out(x) \/ Released(x)
    <3>1. Covers(local_vc, x.vc)
      BY <2>2 DEF IInv, Counts
    <3> QED
      BY <1>1, <1>2, <1>3, <1>9, <3>1, CoversTransitive DEF Op
  <2> QED
    BY <1>6, <2>1, <2>2
<1>7. ASSUME NEW x \in sent, Out(x) \/ Released(x)
      PROVE  ~Before(op, x) /\ op # x
  <2>1. Covers(local_vc, x.vc) /\ Counter(x) <= local_vc[x.node]
    BY <1>7 DEF IInv, Counts
  <2>2. op # x
    BY <1>1, <1>2, <2>1 DEF Clock
  <2> QED
    BY <1>1, <1>3, <2>1, <2>2, NextIsNotBefore
<1>10. (\A m \in Node : seed[m] <= local[m]) /\ ~Seeded(op)
  <2>1. \A m \in Node : seed[m] \in Nat /\ local_vc[m] \in Nat /\ local[m] \in Nat
    BY <1>1, <1>2 DEF IInv, TypeOK, Clock
  <2>2. \A m \in Node : seed[m] <= local_vc[m]
    BY DEF IInv, Counts
  <2> QED
    BY <1>1, <1>2, <2>1, <2>2 DEF Seeded
<1>8. ASSUME NEW x \in sent, x # op, dependencies_satisfied(local_vc, x)
      PROVE  dependencies_satisfied(local, x)
  <2>1. Counter(x) >= 1 /\ Counter(x) = local_vc[x.node] + 1
    BY <1>1, <1>3, <1>8, MergeNext DEF IInv, SendersOK
  <2>2. x.node # op.node
    BY <1>2, <1>8, <2>1 DEF IInv, SendersOK
  <2>3. local[x.node] = local_vc[x.node]
    BY <1>2, <1>3, <2>2
  <2> QED
    BY <1>1, <1>2, <1>3, <1>8, <1>9, <2>3, StaysSatisfied
<1> QED
    BY <1>2, <1>4, <1>5, <1>6, <1>7, <1>8, <1>10 DEF local

LEMMA DeliverDirectInv ==
    ASSUME IInv, NEW op \in sent, DeliverDirect(op)
    PROVE  IInv'
<1>1. /\ delivered \in Seq(sent) /\ Len(delivered) \in Nat
      /\ deliverable = << >> /\ returned = Len(delivered) /\ pc = "idle"
      /\ ready = {}
    BY LenProperties DEF IInv, TypeOK, CallOK, DeliverDirect
<1>2. /\ dependencies_satisfied(local_vc, op)
      /\ local_vc' = merge(local_vc, op.vc) /\ delivered' = Append(delivered, op)
      /\ sortBase' = Len(delivered) + 1 /\ pc' = "scan"
      /\ UNCHANGED <<clock, sent, buffered_ops, ready, deliverable, returned,
                     seed, restarts>>
    BY DEF DeliverDirect
<1>3. /\ delivered' \in Seq(sent) /\ Len(delivered') = Len(delivered) + 1
      /\ delivered'[Len(delivered) + 1] = op
      /\ \A i \in 1 .. Len(delivered) : delivered'[i] = delivered[i]
    BY <1>1, <1>2
<1>4. /\ local_vc' \in Clock
      /\ \A m \in Node : local_vc'[m] <= clock[m][m]
      /\ \A x \in sent : Counter(x) <= local_vc'[x.node]
                           <=> Counter(x) <= local_vc[x.node] \/ x = op
      /\ \A m \in Node : seed[m] <= local_vc'[m]
      /\ ~Seeded(op)
      /\ \A x \in sent : Out(x) \/ Released(x) \/ x = op => Covers(local_vc', x.vc)
      /\ \A x \in sent : Out(x) \/ Released(x) => ~Before(op, x) /\ op # x
    BY <1>2, CountNext
<1>5. TypeOK'
    BY <1>1, <1>2, <1>3, <1>4 DEF IInv, TypeOK
<1>6. SendersOK'
    BY <1>2 DEF IInv, SendersOK
<1>7. Counts'
  <2>1. \A x \in sent : Out(x)' <=> Out(x) \/ x = op
    BY <1>1, <1>3 DEF Out
  <2>2. \A x \in sent : /\ Released(x)' <=> Released(x)
                        /\ Seeded(x)' <=> Seeded(x)
    BY <1>1, <1>2, <1>3 DEF Released, Seeded
  <2> QED
    BY <1>2, <1>4, <2>1, <2>2 DEF IInv, Counts
<1>8. CallOK'
    BY <1>1, <1>2 DEF IInv, CallOK
<1>9. OrderOK'
  <2>1. \A i \in 1 .. Len(delivered) : ~Before(op, delivered[i]) /\ op # delivered[i]
    <3>1. \A i \in 1 .. Len(delivered) : delivered[i] \in sent /\ Out(delivered[i])
      BY <1>1, ElementOfSeq DEF Out
    <3> QED
      BY <1>4, <3>1 DEF IInv, Counts
  <2> QED
    BY <1>1, <1>2, <1>3, <2>1 DEF IInv, OrderOK
<1> QED
    BY <1>5, <1>6, <1>7, <1>8, <1>9 DEF IInv

LEMMA DeliverBufferedInv ==
    ASSUME IInv, NEW op \in sent, DeliverBuffered(op)
    PROVE  IInv'
<1>1. /\ pc = "idle" /\ pc' = "scan" /\ sortBase' = Len(delivered)
      /\ buffered_ops' = buffered_ops \cup {op}
      /\ UNCHANGED <<clock, sent, local_vc, ready, deliverable, delivered,
                     returned, seed, restarts>>
    BY DEF DeliverBuffered
<1>2. TypeOK'
    BY <1>1, LenProperties DEF IInv, TypeOK
<1>3. SendersOK' /\ Counts' /\ OrderOK'
    BY <1>1 DEF IInv, SendersOK, Counts, OrderOK, Out, Released, Seeded
<1>4. CallOK'
    BY <1>1, LenProperties DEF IInv, TypeOK, CallOK
<1> QED
    BY <1>2, <1>3, <1>4 DEF IInv

LEMMA ScanBufferInv ==
    ASSUME IInv, ScanBuffer
    PROVE  IInv'
<1>1. /\ pc = "scan" /\ pc' = (IF ready' = {} THEN "sort" ELSE "round")
      /\ ready' = {op \in buffered_ops : dependencies_satisfied(local_vc, op)}
      /\ UNCHANGED <<clock, sent, buffered_ops, local_vc, deliverable, delivered,
                     sortBase, returned, seed, restarts>>
    BY DEF ScanBuffer
<1>2. TypeOK'
    BY <1>1 DEF IInv, TypeOK
<1>3. SendersOK' /\ Counts' /\ OrderOK'
    BY <1>1 DEF IInv, SendersOK, Counts, OrderOK, Out, Released, Seeded
<1>4. CallOK'
    BY <1>1 DEF IInv, CallOK
<1> QED
    BY <1>2, <1>3, <1>4 DEF IInv

LEMMA DeliverReadyInv ==
    ASSUME IInv, NEW op \in ready, DeliverReady(op)
    PROVE  IInv'
<1>1. /\ deliverable \in Seq(sent) /\ Len(deliverable) \in Nat /\ pc = "round"
      /\ op \in sent /\ ready \subseteq buffered_ops /\ buffered_ops \subseteq sent
      /\ delivered \in Seq(sent)
    BY LenProperties DEF IInv, TypeOK, DeliverReady
<1>2. /\ dependencies_satisfied(local_vc, op) /\ ready' = ready \ {op}
      /\ buffered_ops' = buffered_ops \ {op}
      /\ local_vc' = merge(local_vc, op.vc) /\ deliverable' = Append(deliverable, op)
      /\ pc' = (IF ready' = {} THEN "scan" ELSE "round")
      /\ UNCHANGED <<clock, sent, delivered, sortBase, returned, seed, restarts>>
    BY DEF DeliverReady, IInv, CallOK
<1>3. /\ deliverable' \in Seq(sent) /\ Len(deliverable') = Len(deliverable) + 1
      /\ deliverable'[Len(deliverable) + 1] = op
      /\ \A i \in 1 .. Len(deliverable) : deliverable'[i] = deliverable[i]
    BY <1>1, <1>2
<1>4. /\ local_vc' \in Clock
      /\ \A m \in Node : local_vc'[m] <= clock[m][m]
      /\ \A x \in sent : Counter(x) <= local_vc'[x.node]
                           <=> Counter(x) <= local_vc[x.node] \/ x = op
      /\ \A m \in Node : seed[m] <= local_vc'[m]
      /\ ~Seeded(op)
      /\ \A x \in sent : Out(x) \/ Released(x) \/ x = op => Covers(local_vc', x.vc)
      /\ \A x \in sent : Out(x) \/ Released(x) => ~Before(op, x) /\ op # x
      /\ \A x \in sent : x # op /\ dependencies_satisfied(local_vc, x)
                           => dependencies_satisfied(local_vc', x)
    BY <1>1, <1>2, CountNext
<1>5. TypeOK'
    BY <1>1, <1>2, <1>3, <1>4 DEF IInv, TypeOK
<1>6. SendersOK'
    BY <1>2 DEF IInv, SendersOK
<1>7. Counts'
  <2>1. \A x \in sent : Released(x)' <=> Released(x) \/ x = op
    BY <1>1, <1>3 DEF Released
  <2>2. \A x \in sent : /\ Out(x)' <=> Out(x)
                        /\ Seeded(x)' <=> Seeded(x)
    BY <1>2 DEF Out, Seeded
  <2> QED
    BY <1>2, <1>4, <2>1, <2>2 DEF IInv, Counts
<1>8. CallOK'
    BY <1>1, <1>2, <1>4 DEF IInv, CallOK
<1>9. OrderOK'
  <2>1. /\ \A i \in 1 .. Len(delivered) : ~Before(op, delivered[i]) /\ op # delivered[i]
        /\ \A i \in 1 .. Len(deliverable) :
               ~Before(op, deliverable[i]) /\ op # deliverable[i]
    <3>1. /\ \A i \in 1 .. Len(delivered) : delivered[i] \in sent /\ Out(delivered[i])
          /\ \A i \in 1 .. Len(deliverable) :
                 deliverable[i] \in sent /\ Released(deliverable[i])
      BY <1>1, ElementOfSeq DEF Out, Released
    <3> QED
      BY <1>4, <3>1 DEF IInv, Counts
  <2> QED
    BY <1>1, <1>2, <1>3, <2>1 DEF IInv, OrderOK
<1> QED
    BY <1>5, <1>6, <1>7, <1>8, <1>9 DEF IInv

LEMMA SortStepInv ==
    ASSUME IInv, SortStep
    PROVE  IInv'
<1> DEFINE op == Head(deliverable)
           k == InsertionPoint(delivered, sortBase, op)
<1>1. /\ deliverable \in Seq(sent) /\ deliverable # << >> /\ pc = "sort"
      /\ delivered \in Seq(sent) /\ Len(delivered) \in Nat
      /\ Len(deliverable) \in Nat /\ Len(deliverable) >= 1
      /\ sortBase \in 0 .. Len(delivered) /\ returned <= sortBase
      /\ returned \in 0 .. Len(delivered)
    BY LenProperties, EmptySeq DEF IInv, TypeOK, CallOK, SortStep
<1>2. /\ delivered' = InsertAt(delivered, k, op) /\ deliverable' = Tail(deliverable)
      /\ UNCHANGED <<clock, sent, buffered_ops, local_vc, pc, ready, sortBase,
                     returned, seed, restarts>>
    BY DEF SortStep
<1>3. /\ op \in sent /\ op = deliverable[1] /\ deliverable' \in Seq(sent)
      /\ Len(deliverable') = Len(deliverable) - 1
      /\ \A i \in 1 .. Len(deliverable) - 1 : deliverable'[i] = deliverable[i + 1]
  <2>1. op = deliverable[1]
    BY <1>1
  <2>2. /\ op \in sent /\ Tail(deliverable) \in Seq(sent)
        /\ Len(Tail(deliverable)) = Len(deliverable) - 1
        /\ \A i \in 1 .. Len(Tail(deliverable)) :
               Tail(deliverable)[i] = deliverable[i + 1]
    BY <1>1, HeadTailProperties
  <2> QED
    BY <1>2, <2>1, <2>2
<1>4. /\ k \in sortBase + 1 .. Len(delivered) + 1
      /\ \A j \in k .. Len(delivered) : Less(op, delivered[j])
    BY <1>1, InsertionPointIsOne
<1> HIDE DEF op, k
<1>5. /\ delivered' \in Seq(sent) /\ Len(delivered') = Len(delivered) + 1
      /\ \A j \in 1 .. Len(delivered) + 1 : delivered'[j] =
             IF j < k THEN delivered[j] ELSE IF j = k THEN op ELSE delivered[j - 1]
  <2>1. k \in 1 .. Len(delivered) + 1
    BY <1>1, <1>4
  <2>2. delivered \in Seq(sent) /\ op \in sent
    BY <1>1, <1>3
  <2>3. /\ InsertAt(delivered, k, op) \in Seq(sent)
        /\ Len(InsertAt(delivered, k, op)) = Len(delivered) + 1
        /\ \A j \in 1 .. Len(delivered) + 1 : InsertAt(delivered, k, op)[j] =
               IF j < k THEN delivered[j] ELSE IF j = k THEN op ELSE delivered[j - 1]
    BY <2>1, <2>2, InsertAtProperties
  <2> QED
    BY <1>2, <2>3
<1>11. Len(delivered) \in Nat /\ k \in 1 .. Len(delivered) + 1
    BY <1>1, <1>4
<1>6. TypeOK'
    BY <1>1, <1>2, <1>3, <1>5 DEF IInv, TypeOK
<1>7. SendersOK'
    BY <1>2 DEF IInv, SendersOK
<1>8. Counts'
  <2>1. \A x \in sent : Out(x)' <=> Out(x) \/ x = op
    <3> SUFFICES ASSUME NEW x \in sent
                 PROVE  Out(x)' <=> Out(x) \/ x = op
      OBVIOUS
    <3>1. ASSUME Out(x)' PROVE Out(x) \/ x = op
      <4>1. PICK i \in 1 .. Len(delivered') : delivered'[i] = x
        BY <3>1 DEF Out
      <4>2. CASE i = k
        BY <1>5, <1>11, <4>1, <4>2
      <4>3. CASE i # k
        <5> DEFINE m == IF i < k THEN i ELSE i - 1
        <5>1. m \in 1 .. Len(delivered) /\ delivered[m] = x
          BY <1>5, <1>11, <4>1, <4>3
        <5> HIDE DEF m
        <5> QED
          BY <5>1 DEF Out
      <4> QED
        BY <4>2, <4>3
    <3>2. ASSUME NEW i \in 1 .. Len(delivered), delivered[i] = x PROVE Out(x)'
      <4>1. CASE i < k
        BY <1>5, <1>11, <3>2, <4>1 DEF Out
      <4>2. CASE i >= k
        <5>1. i + 1 \in 1 .. Len(delivered) + 1 /\ ~(i + 1 < k) /\ i + 1 # k
              /\ (i + 1) - 1 = i
          BY <1>11, <3>2, <4>2
        <5>2. i + 1 \in 1 .. Len(delivered') /\ delivered'[i + 1] = x
          BY <1>5, <3>2, <5>1
        <5> QED
          BY <5>2 DEF Out
      <4> QED
        BY <1>11, <4>1, <4>2
    <3>3. k \in 1 .. Len(delivered') /\ delivered'[k] = op
      BY <1>5, <1>11
    <3> QED
      BY <3>1, <3>2, <3>3 DEF Out
  <2>2. \A x \in sent : Released(x) <=> Released(x)' \/ x = op
    <3> SUFFICES ASSUME NEW x \in sent
                 PROVE  Released(x) <=> Released(x)' \/ x = op
      OBVIOUS
    <3>1. ASSUME Released(x) PROVE Released(x)' \/ x = op
      <4>1. PICK i \in 1 .. Len(deliverable) : deliverable[i] = x
        BY <3>1 DEF Released
      <4>2. CASE i = 1
        BY <1>3, <4>1, <4>2
      <4>3. CASE i # 1
        <5>1. i - 1 \in 1 .. Len(deliverable') /\ deliverable'[i - 1] = x
          BY <1>1, <1>3, <4>1, <4>3
        <5> QED
          BY <5>1 DEF Released
      <4> QED
        BY <4>2, <4>3
    <3>2. ASSUME Released(x)' PROVE Released(x)
      BY <1>1, <1>3, <3>2 DEF Released
    <3>3. Released(op)
      BY <1>1, <1>3 DEF Released
    <3> QED
      BY <3>1, <3>2, <3>3
  <2>3. \A x \in sent : Seeded(x)' <=> Seeded(x)
    BY <1>2 DEF Seeded
  <2> QED
    BY <1>2, <2>1, <2>2, <2>3 DEF IInv, Counts
<1>9. CallOK'
    BY <1>1, <1>2 DEF IInv, CallOK
<1>10. OrderOK'
  <2>1. \A i \in 1 .. Len(delivered) :
            /\ ~Before(op, delivered[i]) /\ op # delivered[i]
            /\ i >= k => ~Before(delivered[i], op)
    BY <1>1, <1>3, <1>4, LessNotAfter DEF IInv, OrderOK
  <2>2. \A i, j \in 1 .. Len(delivered') :
            i < j => ~Before(delivered'[j], delivered'[i])
    <3> SUFFICES ASSUME NEW i \in 1 .. Len(delivered'), NEW j \in 1 .. Len(delivered'),
                        i < j
                 PROVE  ~Before(delivered'[j], delivered'[i])
      OBVIOUS
    <3>1. CASE i # k /\ j # k
      <4> DEFINE old(m) == IF m < k THEN m ELSE m - 1
      <4>1. /\ old(i) \in 1 .. Len(delivered) /\ old(j) \in 1 .. Len(delivered)
            /\ old(i) < old(j)
            /\ delivered'[i] = delivered[old(i)] /\ delivered'[j] = delivered[old(j)]
        BY <1>5, <1>11, <3>1
      <4> HIDE DEF old
      <4> QED
        BY <4>1 DEF IInv, OrderOK
    <3>2. CASE j = k
      BY <1>5, <1>11, <2>1, <3>2
    <3>3. CASE i = k
      BY <1>5, <1>11, <2>1, <3>3
    <3> QED
      BY <3>1, <3>2, <3>3
  <2>3. \A i, j \in 1 .. Len(delivered') : i # j => delivered'[i] # delivered'[j]
    <3> SUFFICES ASSUME NEW i \in 1 .. Len(delivered'), NEW j \in 1 .. Len(delivered'),
                        i # j
                 PROVE  delivered'[i] # delivered'[j]
      OBVIOUS
    <3>1. CASE i # k /\ j # k
      <4> DEFINE old(m) == IF m < k THEN m ELSE m - 1
      <4>1. /\ old(i) \in 1 .. Len(delivered) /\ old(j) \in 1 .. Len(delivered)
            /\ old(i) # old(j)
            /\ delivered'[i] = delivered[old(i)] /\ delivered'[j] = delivered[old(j)]
        BY <1>5, <1>11, <3>1
      <4> HIDE DEF old
      <4> QED
        BY <4>1 DEF IInv, OrderOK
    <3>2. \A m \in 1 .. Len(delivered') : m # k => delivered'[m] # op
      <4> SUFFICES ASSUME NEW m \in 1 .. Len(delivered'), m # k
                   PROVE  delivered'[m] # op
        OBVIOUS
      <4>1. CASE m < k
        BY <1>5, <1>11, <2>1, <4>1
      <4>2. CASE m > k
        <5>1. m - 1 \in 1 .. Len(delivered) /\ delivered'[m] = delivered[m - 1]
          BY <1>5, <1>11, <4>2
        <5> QED
          BY <2>1, <5>1
      <4> QED
        BY <1>5, <1>11, <4>1, <4>2
    <3>3. k \in 1 .. Len(delivered') /\ delivered'[k] = op
      BY <1>5, <1>11
    <3> QED
      BY <3>1, <3>2, <3>3
  <2>4. \A i \in 1 .. Len(deliverable'), j \in 1 .. Len(delivered') :
            ~Before(deliverable'[i], delivered'[j]) /\ deliverable'[i] # delivered'[j]
    <3> SUFFICES ASSUME NEW i \in 1 .. Len(deliverable'), NEW j \in 1 .. Len(delivered')
                 PROVE  /\ ~Before(deliverable'[i], delivered'[j])
                        /\ deliverable'[i] # delivered'[j]
      OBVIOUS
    <3>1. i + 1 \in 1 .. Len(deliverable) /\ deliverable'[i] = deliverable[i + 1]
      BY <1>1, <1>3
    <3>2. CASE j = k
      <4>1. 1 \in 1 .. Len(deliverable) /\ 1 < i + 1 /\ delivered'[j] = deliverable[1]
        BY <1>1, <1>3, <1>4, <1>5, <3>2
      <4> QED
        BY <3>1, <4>1 DEF IInv, OrderOK
    <3>3. CASE j # k
      <4> DEFINE m == IF j < k THEN j ELSE j - 1
      <4>1. m \in 1 .. Len(delivered) /\ delivered'[j] = delivered[m]
        BY <1>5, <1>11, <3>3
      <4> HIDE DEF m
      <4> QED
        BY <3>1, <4>1 DEF IInv, OrderOK
    <3> QED
      BY <3>2, <3>3
  <2>5. \A i, j \in 1 .. Len(deliverable') :
            /\ i < j => ~Before(deliverable'[j], deliverable'[i])
            /\ i # j => deliverable'[i] # deliverable'[j]
    <3> SUFFICES ASSUME NEW i \in 1 .. Len(deliverable'), NEW j \in 1 .. Len(deliverable')
                 PROVE  /\ i < j => ~Before(deliverable'[j], deliverable'[i])
                        /\ i # j => deliverable'[i] # deliverable'[j]
      OBVIOUS
    <3>1. /\ i + 1 \in 1 .. Len(deliverable) /\ j + 1 \in 1 .. Len(deliverable)
          /\ deliverable'[i] = deliverable[i + 1] /\ deliverable'[j] = deliverable[j + 1]
          /\ i < j => i + 1 < j + 1
          /\ i # j => i + 1 # j + 1
      BY <1>1, <1>3
    <3> QED
      BY <3>1 DEF IInv, OrderOK
  <2> QED
    BY <2>2, <2>3, <2>4, <2>5 DEF OrderOK
<1> QED
    BY <1>6, <1>7, <1>8, <1>9, <1>10 DEF IInv

LEMMA ReturnInv ==
    ASSUME IInv, Return
    PROVE  IInv'
<1>1. /\ pc = "sort" /\ pc' = "idle" /\ deliverable = << >>
      /\ returned' = Len(delivered)
      /\ UNCHANGED <<clock, sent, buffered_ops, local_vc, ready, deliverable,
                     delivered, sortBase, seed, restarts>>
    BY DEF Return
<1>2. TypeOK'
    BY <1>1, LenProperties DEF IInv, TypeOK
<1>3. SendersOK' /\ Counts' /\ OrderOK'
    BY <1>1 DEF IInv, SendersOK, Counts, OrderOK, Out, Released, Seeded
<1>4. CallOK'
    BY <1>1 DEF IInv, CallOK
<1> QED
    BY <1>2, <1>3, <1>4 DEF IInv

LEMMA RestartInv ==
    ASSUME IInv, NEW vc \in Seeds, Restart(vc)
    PROVE  IInv'
<1>1. /\ restarts < MaxRestarts /\ restarts' = restarts + 1
      /\ buffered_ops' = {} /\ local_vc' = vc /\ seed' = vc /\ pc' = "idle"
      /\ ready' = {} /\ deliverable' = << >> /\ delivered' = << >>
      /\ sortBase' = 0 /\ returned' = 0
      /\ UNCHANGED <<clock, sent>>
    BY DEF Restart
<1>2. vc \in Clock /\ \A m \in Node : vc[m] <= clock[m][m] /\ vc[m] <= vc[m]
    BY CausalDeliveryAssumption DEF Seeds, Clock
<1>3. << >> \in Seq(sent) /\ Len(<< >>) = 0
    OBVIOUS
<1>4. TypeOK'
    BY <1>1, <1>2, <1>3, CausalDeliveryAssumption DEF IInv, TypeOK
<1>5. SendersOK'
    BY <1>1 DEF IInv, SendersOK
<1>6. Counts'
  <2>1. \A x \in sent : ~Out(x)' /\ ~Released(x)'
    BY <1>1, <1>3 DEF Out, Released
  <2>2. \A x \in sent : Seeded(x)' <=> Counter(x) <= vc[x.node]
    BY <1>1 DEF Seeded
  <2> QED
    BY <1>1, <1>2, <2>1, <2>2 DEF Counts
<1>7. CallOK' /\ OrderOK'
    BY <1>1, <1>3 DEF CallOK, OrderOK
<1> QED
    BY <1>4, <1>5, <1>6, <1>7 DEF IInv

-----------------------------------------------------------------------------
(* The inductive argument and the theorems. *)

LEMMA InitInv == Init => IInv
<1> SUFFICES ASSUME Init PROVE IInv
    OBVIOUS
<1>1. EmptyClock \in Clock /\ \A m \in Node : EmptyClock[m] = 0
    BY DEF EmptyClock, Clock
<1>2. << >> \in Seq(sent) /\ Len(<< >>) = 0
    OBVIOUS
<1>3. TypeOK
    BY <1>1, <1>2, CausalDeliveryAssumption DEF Init, TypeOK
<1>4. SendersOK
    BY <1>1 DEF Init, SendersOK
<1>5. Counts
    BY <1>1 DEF Init, Counts, Seeded, Out, Released
<1>6. CallOK /\ OrderOK
    BY <1>2 DEF Init, CallOK, OrderOK
<1> QED
    BY <1>3, <1>4, <1>5, <1>6 DEF IInv

LEMMA StepInv == IInv /\ [Next]_vars => IInv'
<1> SUFFICES ASSUME IInv, [Next]_vars PROVE IInv'
    OBVIOUS
<1>1. CASE \E n \in Node, ts \in Timestamp : Capture(n, ts)
    BY <1>1, CaptureInv
<1>2. CASE \E n \in Node, op \in sent : LearnRemote(n, op)
    BY <1>2, LearnRemoteInv
<1>3. CASE \E op \in sent : DeliverDirect(op)
    BY <1>3, DeliverDirectInv
<1>4. CASE \E op \in sent : DeliverBuffered(op)
    BY <1>4, DeliverBufferedInv
<1>5. CASE ScanBuffer
    BY <1>5, ScanBufferInv
<1>6. CASE \E op \in ready : DeliverReady(op)
    BY <1>6, DeliverReadyInv
<1>7. CASE SortStep
    BY <1>7, SortStepInv
<1>8. CASE Return
    BY <1>8, ReturnInv
<1>9. CASE \E vc \in Seeds : Restart(vc)
    BY <1>9, RestartInv
<1>11. CASE UNCHANGED vars
  <2>1. TypeOK'
    BY <1>11 DEF vars, bufferVars, IInv, TypeOK
  <2>2. SendersOK'
    BY <1>11 DEF vars, bufferVars, IInv, SendersOK
  <2>3. Counts'
    BY <1>11 DEF vars, bufferVars, IInv, Counts, Out, Released, Seeded
  <2>4. CallOK' /\ OrderOK'
    BY <1>11 DEF vars, bufferVars, IInv, CallOK, OrderOK
  <2> QED
    BY <2>1, <2>2, <2>3, <2>4 DEF IInv
<1> QED
    BY <1>1, <1>2, <1>3, <1>4, <1>5, <1>6, <1>7, <1>8, <1>9, <1>11
    DEF Next, SenderStep, BufferStep, Deliver

\* The inductive invariant holds in every reachable state of the buffer.
THEOREM Invariance == Spec => []IInv
BY InitInv, StepInv, PTL DEF Spec

\* Every variable keeps its type: held and handed-out operations are
\* operations some sender captured, and what was returned is part of what the
\* buffer handed out.
THEOREM TypeCorrect == Spec => []TypeOK
<1>1. IInv => TypeOK
    BY DEF IInv
<1> QED
    BY <1>1, Invariance, PTL

\* check_buffered_ops "returns operations in causal order", and so does every
\* sequence of calls of one buffer, whatever clock it was created with.
THEOREM CausalOrderHolds == Spec => []CausalOrder
<1>1. IInv => CausalOrder
    BY DEF IInv, OrderOK, CausalOrder, Before
<1> QED
    BY <1>1, Invariance, PTL

\* One buffer hands out no operation twice, and none its seed counts.
THEOREM AtMostOnceHolds == Spec => []AtMostOnce
<1>1. IInv => AtMostOnce
    BY InvImpliesAtMostOnce
<1> QED
    BY <1>1, Invariance, PTL

\* No operation is handed out before an operation its clock counts, unless the
\* seed counted that one.
THEOREM DependenciesFirstHolds == Spec => []DependenciesFirst
<1>1. IInv => DependenciesFirst
    BY InvImpliesDependenciesFirst
<1> QED
    BY <1>1, Invariance, PTL

\* The rounds of check_buffered_ops leave nothing deliverable behind.
THEOREM NothingReadyIsHeldHolds == Spec => []NothingReadyIsHeld
<1>1. IInv => NothingReadyIsHeld
    BY DEF IInv, CallOK, NothingReadyIsHeld
<1> QED
    BY <1>1, Invariance, PTL

\* Between calls local_vc counts exactly what the seed counted and what was
\* handed out since.
THEOREM ClockCountsDeliveredHolds == Spec => []ClockCountsDelivered
<1>1. IInv => ClockCountsDelivered
  <2> SUFFICES ASSUME IInv, pc = "idle", NEW op \in sent
               PROVE  Counter(op) <= local_vc[op.node] <=> Seeded(op) \/ Out(op)
    BY DEF ClockCountsDelivered, Accounted, Seeded, Out
  <2>1. ~Released(op)
    BY DEF IInv, CallOK, Released
  <2> QED
    BY <2>1 DEF IInv, Counts
<1> QED
    BY <1>1, Invariance, PTL

\* What an operation depends on.
Deps(x) == {y \in sent : y # x /\ Counter(y) <= x.vc[y.node]}

\* An operation depends on more than any of its dependencies does.
LEMMA FewerDeps ==
    ASSUME IInv, IsFiniteSet(sent), NEW x \in sent, NEW y \in Deps(x)
    PROVE  /\ Cardinality(Deps(x)) \in Nat /\ Cardinality(Deps(y)) \in Nat
           /\ Cardinality(Deps(y)) < Cardinality(Deps(x))
           /\ \A z \in Deps(y) : z \in Deps(x)
<1>1. /\ sent \subseteq Op /\ y \in sent /\ y # x /\ x.node \in Node
      /\ Covers(x.vc, y.vc) /\ y.vc[x.node] < x.vc[x.node]
    BY DEF Deps, IInv, TypeOK, SendersOK, Op
<1>2. ASSUME NEW z \in Deps(y)
      PROVE  z \in Deps(x)
  <2>1. /\ z \in sent /\ z # y /\ Counter(z) <= y.vc[z.node] /\ z.node \in Node
        /\ Counter(z) \in Nat /\ y.vc[z.node] \in Nat /\ x.vc[z.node] \in Nat
    BY <1>1, <1>2 DEF Deps, Op, Clock, Counter
  <2>2. Counter(z) <= x.vc[z.node]
    BY <1>1, <2>1 DEF Covers
  <2>3. z # x
    BY <1>1, <2>1 DEF Counter
  <2> QED
    BY <2>1, <2>2, <2>3 DEF Deps
<1>3. IsFiniteSet(Deps(x)) /\ Deps(x) \subseteq sent
    BY FS_Subset DEF Deps
<1>4. /\ IsFiniteSet(Deps(y)) /\ Cardinality(Deps(y)) <= Cardinality(Deps(x))
      /\ Cardinality(Deps(y)) = Cardinality(Deps(x)) => Deps(y) = Deps(x)
  <2>1. Deps(y) \subseteq Deps(x)
    BY <1>2
  <2> QED
    BY <1>3, <2>1, FS_Subset
<1>5. y \in Deps(x) /\ y \notin Deps(y)
    BY DEF Deps
<1>6. Cardinality(Deps(x)) \in Nat /\ Cardinality(Deps(y)) \in Nat
    BY <1>3, <1>4, FS_CardinalityType
<1> QED
    BY <1>2, <1>4, <1>5, <1>6

\* A held operation that is not counted depends on an operation that is not
\* counted either, and that is the next of its server.
LEMMA HeldHasUncounted ==
    ASSUME IInv, pc = "idle", NEW x \in buffered_ops, ~Accounted(x)
    PROVE  \E y \in Deps(x) : ~Accounted(y)
<1>1. /\ buffered_ops \subseteq sent /\ sent \subseteq Op /\ x \in Op /\ x \in sent
      /\ local_vc \in Clock /\ ~dependencies_satisfied(local_vc, x)
      /\ x.node \in Node /\ \A n \in Node : x.vc[n] \in Nat /\ local_vc[n] \in Nat
    BY DEF IInv, TypeOK, CallOK, Op, Clock
<1>2. \A z \in sent : Accounted(z) <=> Counter(z) <= local_vc[z.node]
  <2>1. \A z \in sent : ~Released(z)
    BY DEF IInv, CallOK, Released
  <2> QED
    BY <2>1 DEF IInv, Counts, Accounted, Seeded, Out
<1>3. local_vc[x.node] < x.vc[x.node]
    BY <1>1, <1>2 DEF Counter
<1>4. PICK n \in Node : /\ x.vc[n] # 0 /\ local_vc[n] < x.vc[n]
                        /\ n = x.node => local_vc[n] + 1 < x.vc[n]
    BY <1>1, <1>3 DEF dependencies_satisfied
<1>5. local_vc[n] + 1 \in 1 .. clock[n][n]
  <2>1. x.vc[n] <= clock[n][n] /\ clock[n][n] \in Nat
    BY <1>1 DEF IInv, TypeOK, SendersOK, Clock
  <2> QED
    BY <1>1, <1>4, <2>1
<1>6. PICK y \in sent : y.node = n /\ Counter(y) = local_vc[n] + 1
    BY <1>5 DEF IInv, SendersOK
<1>7. y # x
    BY <1>1, <1>4, <1>6 DEF Counter
<1>8. Counter(y) <= x.vc[y.node] /\ ~(Counter(y) <= local_vc[y.node])
    BY <1>1, <1>4, <1>6
<1> QED
    BY <1>2, <1>6, <1>7, <1>8 DEF Deps

\* If all an operation waits for were held, one of them would wait for nothing.
LEMMA InvImpliesHeldForMissing ==
    ASSUME IInv, IsFiniteSet(sent)
    PROVE  HeldForMissing
<1> SUFFICES ASSUME pc = "idle", NEW op \in buffered_ops, ~Accounted(op),
                    \A dep \in sent \ buffered_ops :
                        Counter(dep) <= op.vc[dep.node] => Accounted(dep)
             PROVE  FALSE
    BY DEF HeldForMissing
<1> DEFINE U == {x \in buffered_ops : ~Accounted(x) /\ (x = op \/ x \in Deps(op))}
           T == {Cardinality(Deps(x)) : x \in U}
<1>1. buffered_ops \subseteq sent /\ op \in U
    BY DEF IInv, TypeOK
<1>2. \A x \in U : \E y \in U : y \in Deps(x)
  <2> SUFFICES ASSUME NEW x \in U PROVE \E y \in U : y \in Deps(x)
    OBVIOUS
  <2>1. PICK y \in Deps(x) : ~Accounted(y)
    BY HeldHasUncounted
  <2>2. y \in sent /\ x \in sent /\ op \in sent
    BY <1>1 DEF Deps
  <2>3. y \in Deps(op)
    BY <2>1, <2>2, FewerDeps
  <2>4. Counter(y) <= op.vc[y.node]
    BY <2>3 DEF Deps
  <2>5. y \in buffered_ops
    BY <2>1, <2>2, <2>4
  <2> QED
    BY <2>1, <2>3, <2>5
<1>3. \A x \in U : x \in sent
    BY <1>1
<1> HIDE DEF U
<1>4. \A x \in U : Cardinality(Deps(x)) \in Nat
    BY <1>2, <1>3, FewerDeps
<1>5. T \in SUBSET Nat /\ T # {}
    BY <1>1, <1>4
<1>6. PICK c \in T : \A d \in T : c <= d
  <2> HIDE DEF T
  <2> QED
    BY <1>5, LeastNatural
<1>7. PICK x \in U : c = Cardinality(Deps(x))
    BY <1>6
<1>8. PICK y \in U : y \in Deps(x)
    BY <1>2
<1>9. Cardinality(Deps(y)) < c /\ Cardinality(Deps(y)) \in T /\ c \in Nat
    BY <1>3, <1>4, <1>7, <1>8, FewerDeps
<1> QED
    BY <1>4, <1>6, <1>8, <1>9

\* Only finitely many operations have been captured.
LEMMA FinitelyManySent == Spec => []IsFiniteSet(sent)
<1>1. Init => IsFiniteSet(sent)
    BY FS_EmptySet DEF Init
<1>2. IsFiniteSet(sent) /\ [Next]_vars => IsFiniteSet(sent)'
  <2> SUFFICES ASSUME IsFiniteSet(sent), [Next]_vars PROVE IsFiniteSet(sent')
    OBVIOUS
  <2>1. CASE \E n \in Node, ts \in Timestamp : Capture(n, ts)
    BY <2>1, FS_AddElement DEF Capture
  <2>2. CASE sent' = sent
    BY <2>2
  <2> QED
    BY <2>1, <2>2
    DEF Next, SenderStep, BufferStep, Deliver, LearnRemote, DeliverDirect,
        DeliverBuffered, ScanBuffer, DeliverReady, SortStep, Return, Restart, vars
<1> QED
    BY <1>1, <1>2, PTL DEF Spec

\* Between calls an operation is held only while one it depends on has not
\* arrived (check_buffered_ops goes on until a round releases nothing).
THEOREM HeldForMissingHolds == Spec => []HeldForMissing
<1>1. IInv /\ IsFiniteSet(sent) => HeldForMissing
    BY InvImpliesHeldForMissing
<1> QED
    BY <1>1, Invariance, FinitelyManySent, PTL

-----------------------------------------------------------------------------
(* The buffer implements CausalBroadcast. *)

\* The part of the hand-out a caller has received is a sequence of captured
\* operations, element by element that of `delivered`.
LEMMA ReceivedIsPrefix ==
    ASSUME NEW S, NEW s \in Seq(S), NEW r \in 0 .. Len(s)
    PROVE  /\ SubSeq(s, 1, r) \in Seq(S)
           /\ Len(SubSeq(s, 1, r)) = r
           /\ \A i \in 1 .. r : SubSeq(s, 1, r)[i] = s[i]
<1>1. /\ SubSeq(s, 1, r) = [i \in 1 .. r |-> s[i]]
      /\ r \in Nat /\ \A i \in 1 .. r : s[i] \in S
    BY LenProperties, ElementOfSeq, SMT
<1> QED
    BY <1>1, IsASeq, LenProperties

\* Two sequences that agree up to r have the same prefix of length r.
LEMMA SamePrefix ==
    ASSUME NEW S, NEW s \in Seq(S), NEW T, NEW t \in Seq(T), NEW r \in Nat,
           r <= Len(s), r <= Len(t), \A i \in 1 .. r : s[i] = t[i]
    PROVE  SubSeq(s, 1, r) = SubSeq(t, 1, r)
BY LenProperties, SMT

\* The initial states of the buffer are initial states of the broadcast.
LEMMA InitRefines == Init => Broadcast!Init
<1> SUFFICES ASSUME Init PROVE Broadcast!Init
    OBVIOUS
<1>1. seed \in Broadcast!Clock
    BY DEF Init, EmptyClock, Broadcast!Clock
<1>2. SubSeq(delivered, 1, returned) = << >>
    BY SMT DEF Init
<1> QED
    BY <1>1, <1>2 DEF Broadcast!Init

\* A call that returns hands out a causally closed extension of the log.
LEMMA ReturnRefines ==
    ASSUME IInv, IInv', Return
    PROVE  Broadcast!HandOut
<1>1. /\ delivered \in Seq(sent) /\ returned \in 0 .. Len(delivered)
      /\ returned' = Len(delivered) /\ Len(delivered) \in Nat
      /\ UNCHANGED <<sent, delivered, seed>>
    BY LenProperties DEF IInv, TypeOK, Return
<1>2. /\ SubSeq(delivered, 1, returned)' = SubSeq(delivered, 1, Len(delivered))
      /\ SubSeq(delivered, 1, Len(delivered)) = delivered
    BY <1>1, ReceivedIsPrefix, SMT
<1>3. \A i \in 1 .. Len(delivered) :
        /\ Counter(delivered[i]) > seed[delivered[i].node]
        /\ \A j \in 1 .. i - 1 : delivered[j] # delivered[i]
        /\ \A dep \in sent :
               /\ dep # delivered[i]
               /\ seed[dep.node] < Counter(dep)
               /\ Counter(dep) <= delivered[i].vc[dep.node]
               => \E j \in 1 .. i - 1 : delivered[j] = dep
  <2>1. DependenciesFirst
    BY InvImpliesDependenciesFirst
  <2>2. AtMostOnce
    BY InvImpliesAtMostOnce
  <2>3. \A dep \in sent : Counter(dep) \in Nat /\ seed[dep.node] \in Nat
    BY DEF IInv, TypeOK, Op, Clock, Counter
  <2> SUFFICES ASSUME NEW i \in 1 .. Len(delivered)
               PROVE  /\ Counter(delivered[i]) > seed[delivered[i].node]
                      /\ \A j \in 1 .. i - 1 : delivered[j] # delivered[i]
                      /\ \A dep \in sent :
                             /\ dep # delivered[i]
                             /\ seed[dep.node] < Counter(dep)
                             /\ Counter(dep) <= delivered[i].vc[dep.node]
                             => \E j \in 1 .. i - 1 : delivered[j] = dep
    OBVIOUS
  <2>4. /\ Counter(delivered[i]) > seed[delivered[i].node]
        /\ \A j \in 1 .. i - 1 : delivered[j] # delivered[i]
    <3>1. \A j \in 1 .. i - 1 : j \in 1 .. Len(delivered) /\ j # i
      BY <1>1
    <3> QED
      BY <3>1, <2>2 DEF AtMostOnce
  <2>5. ASSUME NEW dep \in sent, dep # delivered[i],
               seed[dep.node] < Counter(dep),
               Counter(dep) <= delivered[i].vc[dep.node]
        PROVE  \E j \in 1 .. i - 1 : delivered[j] = dep
    <3>1. ~(Counter(dep) <= seed[dep.node])
      BY <2>3, <2>5
    <3> QED
      BY <3>1, <2>1, <2>5, Zenon DEF DependenciesFirst
  <2> QED
    BY <2>4, <2>5, Zenon
<1>4. /\ Len(SubSeq(delivered, 1, returned)) = returned
      /\ \A i \in 1 .. returned : SubSeq(delivered, 1, returned)[i] = delivered[i]
    BY <1>1, ReceivedIsPrefix
<1> QED
    BY <1>1, <1>2, <1>3, <1>4
    DEF Broadcast!HandOut, Broadcast!CausallyClosed, Broadcast!Counter, Counter

\* A step that leaves the received part alone is invisible.
LEMMA StepRefines ==
    ASSUME IInv, IInv', [Next]_vars
    PROVE  [Broadcast!Next]_(Broadcast!vars)
<1>1. /\ delivered \in Seq(sent) /\ delivered' \in Seq(sent')
      /\ Len(delivered) \in Nat /\ Len(delivered') \in Nat
      /\ returned \in 0 .. Len(delivered) /\ returned' \in 0 .. Len(delivered')
      /\ sortBase \in 0 .. Len(delivered)
    BY LenProperties DEF IInv, TypeOK
<1>2. ASSUME NEW n \in Node, NEW ts \in Timestamp, Capture(n, ts)
      PROVE  Broadcast!Broadcast
  <2> DEFINE op == [node |-> n, vc |-> increment(clock[n], n), ts |-> ts]
  <2>1. /\ sent' = sent \cup {op} /\ op \in sent'
        /\ UNCHANGED <<delivered, returned, seed>>
    BY <1>2 DEF Capture, bufferVars
  <2>2. Counter(op) = clock[n][n] + 1 /\ clock[n][n] \in Nat
    BY DEF IInv, TypeOK, Clock, Counter, increment
  <2>3. \A o \in sent : o.vc[op.node] \in Nat /\ o.vc[op.node] <= clock[n][n]
    BY DEF IInv, TypeOK, SendersOK, Op, Clock
  <2> HIDE DEF op
  <2>4. \A o \in sent : o.vc[op.node] < Counter(op)
    BY <2>2, <2>3
  <2> QED
    BY <2>1, <2>4 DEF Broadcast!Broadcast, Broadcast!Counter, Counter
<1>3. ASSUME NEW op \in sent, DeliverDirect(op)
      PROVE  UNCHANGED Broadcast!vars
  <2>1. /\ UNCHANGED <<sent, seed, returned>>
        /\ returned <= Len(delivered) /\ returned <= Len(delivered')
        /\ \A i \in 1 .. returned : delivered'[i] = delivered[i]
    BY <1>1, <1>3 DEF DeliverDirect
  <2>2. SubSeq(delivered', 1, returned) = SubSeq(delivered, 1, returned)
    BY <1>1, <2>1, SamePrefix
  <2> QED
    BY <2>1, <2>2 DEF Broadcast!vars
<1>4. CASE SortStep
  <2> DEFINE op == Head(deliverable)
             k == InsertionPoint(delivered, sortBase, op)
  <2>1. /\ delivered' = InsertAt(delivered, k, op) /\ returned <= sortBase
        /\ UNCHANGED <<sent, seed, returned>>
    BY <1>4 DEF SortStep, IInv, CallOK
  <2>2. k \in sortBase + 1 .. Len(delivered) + 1
    BY <1>1, InsertionPointIsOne
  <2> HIDE DEF op, k
  <2>3. /\ \A i \in 1 .. returned : delivered'[i] = delivered[i]
        /\ returned <= Len(delivered) /\ returned <= Len(delivered')
    BY <1>1, <2>1, <2>2 DEF InsertAt
  <2>4. SubSeq(delivered', 1, returned) = SubSeq(delivered, 1, returned)
    BY <1>1, <2>3, SamePrefix
  <2> QED
    BY <2>1, <2>4 DEF Broadcast!vars
<1>5. CASE Return
    BY <1>5, ReturnRefines DEF Broadcast!Next
<1>7. ASSUME NEW vc \in Seeds, Restart(vc)
      PROVE  Broadcast!Crash
  <2>1. delivered' = << >> /\ returned' = 0 /\ seed' = vc /\ sent' = sent
    BY <1>7 DEF Restart
  <2>2. SubSeq(delivered', 1, returned') = << >>
    BY <2>1, SMT
  <2>3. vc \in Broadcast!Clock
    BY CausalDeliveryAssumption DEF Seeds, Broadcast!Clock
  <2> QED
    BY <2>1, <2>2, <2>3 DEF Broadcast!Crash
<1>8. CASE UNCHANGED <<sent, delivered, returned, seed>>
    BY <1>8 DEF Broadcast!vars
<1>9. \/ \E n \in Node, ts \in Timestamp : Capture(n, ts)
      \/ \E op \in sent : DeliverDirect(op)
      \/ SortStep \/ Return \/ (\E vc \in Seeds : Restart(vc))
      \/ UNCHANGED <<sent, delivered, returned, seed>>
    BY DEF Next, SenderStep, BufferStep, Deliver, LearnRemote,
           DeliverBuffered, ScanBuffer, DeliverReady, vars, bufferVars
<1> QED
    BY <1>2, <1>3, <1>4, <1>5, <1>7, <1>8, <1>9 DEF Broadcast!Next

\* The causal delivery buffer implements causal broadcast: what its callers
\* receive over all calls is one causally closed log above the clock the buffer
\* was created with, which a restart replaces.
THEOREM BufferImplementsBroadcast == Spec => ImplementsBroadcast
<1>1. Init => Broadcast!Init
    BY InitRefines
<1>2. IInv /\ IInv' /\ [Next]_vars => [Broadcast!Next]_(Broadcast!vars)
    BY StepRefines
<1> QED
    BY <1>1, <1>2, Invariance, PTL DEF Spec, ImplementsBroadcast, Broadcast!Spec

=============================================================================
