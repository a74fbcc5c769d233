------------------------- MODULE HybridClock_proofs -------------------------
(***************************************************************************)
(* Proofs about HybridClock, for any number of threads and calls: a call   *)
(* never returns a time behind all the wall clock showed meanwhile or      *)
(* behind the remote clock it was given, the shared timestamp never goes   *)
(* back, and while the state is ahead of the wall clock the ticks are      *)
(* unique and ordered.  Otherwise they are not: a run shows where.         *)
(***************************************************************************)
EXTENDS HybridClock, TLAPS

\* What a call in progress is sure of whatever the other threads do: the wall
\* clock it read is neither older than the earliest since its beginning nor
\* later than the latest ever, and the pair it is going to
\* store is behind neither that reading, nor what it loaded, nor the remote
\* clock.
Bound(c) ==
    /\ c.low <= c.wall
    /\ c.low <= wall
    /\ c.wall <= peak
    /\ c.at \in {"stamp", "count"} =>
           /\ c.to.ts >= c.wall
           /\ c.to.ts >= c.from.ts
           /\ c.remote # NoRemote => Less(c.remote, c.to)

CallsBound == \A t \in Thread : call[t] # NoCall => Bound(call[t])

IInv == TypeOK /\ CallsBound /\ NeverBehind

\* The initial states satisfy the invariant.
LEMMA InitInv == Init => IInv
<1> SUFFICES ASSUME Init PROVE IInv
  OBVIOUS
<1>1. last_timestamp \in Nat /\ last_counter \in Nat
  BY HybridClockAssumption DEF Init, HLC
<1>2. TypeOK
  BY <1>1, HybridClockAssumption DEF Init, TypeOK
<1> QED BY <1>2 DEF IInv, Init, CallsBound, NeverBehind

\* What tick stores is behind neither the wall clock nor what was loaded.
LEMMA NewTickBound ==
    ASSUME NEW w \in Nat, NEW last \in HLC
    PROVE  /\ NewTick(w, last) \in HLC
           /\ NewTick(w, last).ts >= w
           /\ NewTick(w, last).ts >= last.ts
BY DEF NewTick, HLC

\* What update stores is moreover above the remote clock.
LEMMA NewUpdateBound ==
    ASSUME NEW w \in Nat, NEW last \in HLC, NEW remote \in HLC
    PROVE  /\ NewUpdate(w, last, remote) \in HLC
           /\ NewUpdate(w, last, remote).ts >= w
           /\ NewUpdate(w, last, remote).ts >= last.ts
           /\ Less(remote, NewUpdate(w, last, remote))
BY DEF NewUpdate, Max2, HLC, Less

\* The invariant survives a step that changes one call to another the
\* invariant allows and returns nothing.
LEMMA OneCallInv ==
    ASSUME IInv, NEW t \in Thread, NEW c \in Call,
           call' = [call EXCEPT ![t] = c], Bound(c),
           last_timestamp' \in Nat, last_counter' \in Nat,
           calls' \in [Thread -> 0 .. MaxCalls],
           UNCHANGED <<wall, peak, done>>
    PROVE  IInv'
<1>1. TypeOK'
  BY DEF IInv, TypeOK
<1>2. CallsBound'
  <2> SUFFICES ASSUME NEW u \in Thread, call'[u] # NoCall PROVE Bound(call[u])'
    BY DEF CallsBound
  <2>1. CASE u = t
    BY <2>1 DEF IInv, TypeOK, Bound
  <2>2. CASE u # t
    BY <2>2 DEF IInv, TypeOK, CallsBound, Bound
  <2> QED BY <2>1, <2>2
<1>3. NeverBehind'
  BY DEF IInv, NeverBehind
<1> QED BY <1>1, <1>2, <1>3 DEF IInv

\* A call begins with the wall clock of the moment.
LEMMA BeginInv ==
    ASSUME IInv, NEW t \in Thread, NEW remote \in Remote \cup {NoRemote}, Begin(t, remote)
    PROVE  IInv'
<1> DEFINE c == [at |-> "load", remote |-> remote, wall |-> wall, from |-> Zero, to |-> Zero,
                 low |-> wall, before |-> {d.id : d \in done}]
<1>1. {d.id : d \in done} \in SUBSET (Thread \X Nat)
  BY DEF IInv, TypeOK, Done
<1>2. c \in Call /\ Bound(c)
  BY <1>1, HybridClockAssumption DEF IInv, TypeOK, Call, Bound, HLC, Zero
<1>3. calls' \in [Thread -> 0 .. MaxCalls]
  BY HybridClockAssumption DEF Begin, IInv, TypeOK
<1>4. call' = [call EXCEPT ![t] = c]
  BY DEF Begin
<1> HIDE DEF c
<1> QED BY <1>2, <1>3, <1>4, OneCallInv DEF Begin, IInv, TypeOK

\* A call whose swap failed starts again with the wall clock of the moment.
LEMMA RetryInv ==
    ASSUME IInv, NEW t \in Thread, call[t] \in Call, Retry(t),
           UNCHANGED <<last_timestamp, last_counter, wall, peak, calls, done>>
    PROVE  IInv'
<1> DEFINE c == [call[t] EXCEPT !.at = "load", !.wall = wall, !.from = Zero, !.to = Zero]
<1>1. call' = [call EXCEPT ![t] = c]
  BY DEF Retry, IInv, TypeOK
<1>2. call[t] # NoCall
  BY DEF Call, NoCall
<1>3. c \in Call
  BY DEF Call, HLC, Zero, IInv, TypeOK
<1>4. call[t].low <= wall
  BY <1>2, HybridClockAssumption DEF IInv, TypeOK, CallsBound, Bound, Call
<1>5. Bound(c)
  BY <1>4, HybridClockAssumption DEF Bound, Call, IInv, TypeOK
<1> HIDE DEF c
<1> QED BY <1>1, <1>3, <1>5, OneCallInv DEF IInv, TypeOK

\* A call that is at one of the four steps is a call.
LEMMA AtCall ==
    ASSUME TypeOK, NEW t \in Thread, call[t].at \in {"load", "counter", "stamp", "count"}
    PROVE  call[t] \in Call /\ call[t] # NoCall
BY DEF TypeOK, NoCall

\* The first load.
LEMMA LoadTimestampInv ==
    ASSUME IInv, NEW t \in Thread, LoadTimestamp(t)
    PROVE  IInv'
<1> DEFINE c == [call[t] EXCEPT !.at = "counter", !.from.ts = last_timestamp]
<1>1. call[t] \in Call /\ call[t] # NoCall
  BY AtCall DEF LoadTimestamp, IInv
<1>2. call' = [call EXCEPT ![t] = c]
  BY DEF LoadTimestamp, IInv, TypeOK
<1>3. c \in Call
  BY <1>1 DEF Call, HLC, IInv, TypeOK
<1>4. Bound(c)
  BY <1>1 DEF Bound, Call, IInv, CallsBound
<1> HIDE DEF c
<1> QED BY <1>2, <1>3, <1>4, OneCallInv DEF LoadTimestamp, IInv, TypeOK

\* The second load, after which the call knows what it is going to store.
LEMMA LoadCounterInv ==
    ASSUME IInv, NEW t \in Thread, LoadCounter(t)
    PROVE  IInv'
<1> DEFINE last == [call[t].from EXCEPT !.cnt = last_counter]
           to == IF call[t].remote = NoRemote THEN NewTick(call[t].wall, last)
                 ELSE NewUpdate(call[t].wall, last, call[t].remote)
           c == [call[t] EXCEPT !.at = "stamp", !.from = last, !.to = to]
<1>1. call[t] \in Call /\ call[t] # NoCall
  BY AtCall DEF LoadCounter, IInv
<1>2. call' = [call EXCEPT ![t] = c]
  BY DEF LoadCounter, IInv, TypeOK
<1>3. last \in HLC /\ call[t].wall \in Nat
  BY <1>1, HybridClockAssumption DEF Call, HLC, IInv, TypeOK
<1>4. call[t].remote # NoRemote => call[t].remote \in HLC
  BY <1>1, HybridClockAssumption DEF Call
<1> HIDE DEF last
<1>5. /\ to \in HLC /\ to.ts >= call[t].wall /\ to.ts >= last.ts
      /\ call[t].remote # NoRemote => Less(call[t].remote, to)
  BY <1>3, <1>4, NewTickBound, NewUpdateBound
<1> HIDE DEF to
<1>6. c \in Call
  BY <1>1, <1>3, <1>5 DEF Call
<1>7. Bound(c)
  <2>1. call[t].low <= call[t].wall /\ call[t].low <= wall /\ call[t].wall <= peak
    BY <1>1 DEF IInv, CallsBound, Bound
  <2>2. /\ c.low = call[t].low /\ c.wall = call[t].wall /\ c.remote = call[t].remote
        /\ c.from = last /\ c.to = to
    BY <1>1 DEF Call
  <2> HIDE DEF c
  <2> QED BY <1>5, <2>1, <2>2 DEF Bound
<1> HIDE DEF c
<1> QED BY <1>2, <1>6, <1>7, OneCallInv DEF LoadCounter, IInv, TypeOK

\* The swap of the timestamp.
LEMMA SwapTimestampInv ==
    ASSUME IInv, NEW t \in Thread, SwapTimestamp(t)
    PROVE  IInv' /\ last_timestamp' >= last_timestamp
<1>1. call[t] \in Call /\ call[t] # NoCall /\ call[t].at = "stamp"
  BY AtCall DEF SwapTimestamp, IInv
<1>2. CASE last_timestamp # call[t].from.ts
  <2>1. Retry(t) /\ UNCHANGED <<last_timestamp, last_counter, wall, peak, calls, done>>
    BY <1>2 DEF SwapTimestamp
  <2> QED BY <1>1, <2>1, RetryInv DEF IInv, TypeOK
<1>3. CASE last_timestamp = call[t].from.ts
  <2> DEFINE c == [call[t] EXCEPT !.at = "count"]
  <2>1. /\ last_timestamp' = call[t].to.ts
        /\ call' = [call EXCEPT ![t] = c]
        /\ UNCHANGED <<last_counter, wall, peak, calls, done>>
    BY <1>3 DEF SwapTimestamp, IInv, TypeOK
  <2>2. /\ call[t].to.ts >= call[t].from.ts
        /\ call[t].to.ts \in Nat
    BY <1>1 DEF IInv, CallsBound, Bound, Call, HLC
  <2>3. c \in Call
    BY <1>1 DEF Call
  <2>4. Bound(c)
    BY <1>1 DEF Bound, Call, IInv, CallsBound
  <2> HIDE DEF c
  <2>5. IInv'
    BY <2>1, <2>2, <2>3, <2>4, OneCallInv DEF IInv, TypeOK
  <2> QED BY <1>3, <2>1, <2>2, <2>5
<1> QED BY <1>2, <1>3

\* The swap of the counter, with which the call returns.
LEMMA SwapCounterInv ==
    ASSUME IInv, NEW t \in Thread, SwapCounter(t)
    PROVE  IInv'
<1>1. call[t] \in Call /\ call[t] # NoCall /\ call[t].at = "count"
  BY AtCall DEF SwapCounter, IInv
<1>2. CASE last_counter # call[t].from.cnt
  <2>1. Retry(t) /\ UNCHANGED <<last_timestamp, last_counter, wall, peak, calls, done>>
    BY <1>2 DEF SwapCounter
  <2> QED BY <1>1, <2>1, RetryInv DEF IInv, TypeOK
<1>3. CASE last_counter = call[t].from.cnt
  <2> DEFINE d == [id |-> <<t, calls[t]>>, remote |-> call[t].remote, hlc |-> call[t].to,
                   low |-> call[t].low, before |-> call[t].before]
  <2>1. /\ last_counter' = call[t].to.cnt
        /\ call' = [call EXCEPT ![t] = NoCall]
        /\ done' = done \cup {d}
        /\ UNCHANGED <<last_timestamp, wall, peak, calls>>
    BY <1>3 DEF SwapCounter
  <2>2. d \in Done
    BY <1>1, HybridClockAssumption DEF Done, Call, IInv, TypeOK
  <2>3. d.hlc.ts >= d.low /\ (d.remote # NoRemote => Less(d.remote, d.hlc))
    BY <1>1, HybridClockAssumption DEF IInv, CallsBound, Bound, Call, HLC
  <2> HIDE DEF d
  <2>4. TypeOK'
    BY <1>1, <2>1, <2>2 DEF IInv, TypeOK, Call, HLC
  <2>5. CallsBound'
    BY <2>1 DEF IInv, TypeOK, CallsBound, Bound
  <2>6. NeverBehind'
    BY <2>1, <2>3 DEF IInv, NeverBehind
  <2> QED BY <2>4, <2>5, <2>6 DEF IInv
<1> QED BY <1>2, <1>3

\* Time passes under the calls in progress.
LEMMA AdvanceWallInv ==
    ASSUME IInv, AdvanceWall
    PROVE  IInv'
<1>1. TypeOK'
  BY HybridClockAssumption DEF IInv, TypeOK, AdvanceWall, Max2
<1>2. CallsBound'
  <2> SUFFICES ASSUME NEW t \in Thread, call[t] # NoCall PROVE Bound(call[t])'
    BY DEF CallsBound, AdvanceWall
  <2>1. Bound(call[t]) /\ call[t] \in Call
    BY DEF IInv, CallsBound, TypeOK
  <2>2. call[t].low <= wall + 1 /\ call[t].wall <= peak'
    BY <2>1, HybridClockAssumption DEF Bound, IInv, TypeOK, Call, AdvanceWall, Max2
  <2> QED BY <2>1, <2>2 DEF Bound, AdvanceWall
<1>3. NeverBehind'
  BY DEF IInv, NeverBehind, AdvanceWall
<1> QED BY <1>1, <1>2, <1>3 DEF IInv

\* What is left of a call when the clock is set back to w under it: its earliest
\* reading.
LEMMA LowerCall ==
    ASSUME TypeOK, SetWallBack
    PROVE  /\ wall' \in 0 .. MaxWall /\ wall' < wall
           /\ \A t \in Thread : call[t] = NoCall <=> call'[t] = NoCall
           /\ \A t \in Thread : call[t] # NoCall =>
                  /\ call[t] \in Call /\ call'[t] \in Call
                  /\ call'[t].low <= wall' /\ call'[t].low <= call[t].low
                  /\ call'[t].at = call[t].at /\ call'[t].remote = call[t].remote
                  /\ call'[t].wall = call[t].wall /\ call'[t].from = call[t].from
                  /\ call'[t].to = call[t].to /\ call'[t].before = call[t].before
<1>1. PICK w \in 0 .. MaxWall :
          /\ w < wall /\ wall' = w
          /\ call' = [t \in Thread |->
                 IF call[t] # NoCall /\ w < call[t].low THEN [call[t] EXCEPT !.low = w]
                 ELSE call[t]]
  BY DEF SetWallBack
<1>2. ASSUME NEW t \in Thread, call[t] # NoCall
      PROVE  /\ call[t] \in Call /\ call'[t] \in Call
             /\ call'[t].low <= wall' /\ call'[t].low <= call[t].low
             /\ call'[t].at = call[t].at /\ call'[t].remote = call[t].remote
             /\ call'[t].wall = call[t].wall /\ call'[t].from = call[t].from
             /\ call'[t].to = call[t].to /\ call'[t].before = call[t].before
  <2>1. call[t] \in Call /\ call[t].low \in Nat /\ w \in Nat
    BY <1>2, HybridClockAssumption DEF TypeOK, Call
  <2>2. CASE w < call[t].low
    <3>1. call'[t] = [call[t] EXCEPT !.low = w]
      BY <1>1, <1>2, <2>2
    <3> QED BY <1>1, <2>1, <2>2, <3>1 DEF Call
  <2>3. CASE ~(w < call[t].low)
    <3>1. call'[t] = call[t]
      BY <1>1, <1>2, <2>3
    <3> QED BY <1>1, <2>1, <2>3, <3>1
  <2> QED BY <2>2, <2>3
<1>3. \A t \in Thread : call[t] = NoCall <=> call'[t] = NoCall
  <2> TAKE t \in Thread
  <2>1. CASE call[t] = NoCall
    BY <1>1, <2>1
  <2>2. CASE call[t] # NoCall
    <3>1. call'[t] \in Call
      BY <1>2, <2>2
    <3> QED BY <2>2, <3>1 DEF Call, NoCall
  <2> QED BY <2>1, <2>2
<1> QED BY <1>1, <1>2, <1>3

\* The clock is set back under the calls in progress.
LEMMA SetWallBackInv ==
    ASSUME IInv, SetWallBack
    PROVE  IInv'
<1> USE DEF IInv
<1>1. TypeOK'
  <2>1. call' \in [Thread -> Call \cup {NoCall}]
    <3>1. \A t \in Thread : call'[t] \in Call \cup {NoCall}
      BY LowerCall
    <3>2. call' = [t \in Thread |-> call'[t]]
      BY DEF SetWallBack
    <3> QED BY <3>1, <3>2
  <2>2. wall' \in 0 .. MaxWall /\ peak' \in wall' .. MaxWall
    BY LowerCall, HybridClockAssumption DEF SetWallBack, TypeOK
  <2> QED BY <2>1, <2>2 DEF TypeOK, SetWallBack
<1>2. CallsBound'
  <2> SUFFICES ASSUME NEW t \in Thread, call'[t] # NoCall PROVE Bound(call[t])'
    BY DEF CallsBound
  <2>1. Bound(call[t]) /\ call[t] \in Call /\ call'[t] \in Call /\ call[t] # NoCall
    BY LowerCall DEF CallsBound
  <2>2. call'[t].low <= call[t].wall
    <3>1. call'[t].low <= call[t].low /\ call[t].low <= call[t].wall
      BY <2>1, LowerCall DEF Bound
    <3>2. call'[t].low \in Int /\ call[t].low \in Int /\ call[t].wall \in Int
      BY <2>1 DEF Call
    <3> QED BY <3>1, <3>2
  <2>3. /\ call'[t].low <= wall' /\ call'[t].at = call[t].at /\ call'[t].remote = call[t].remote
        /\ call'[t].wall = call[t].wall /\ call'[t].from = call[t].from
        /\ call'[t].to = call[t].to /\ peak' = peak
    BY <2>1, LowerCall DEF SetWallBack
  <2> QED BY <2>1, <2>2, <2>3 DEF Bound
<1>3. NeverBehind'
  BY DEF NeverBehind, SetWallBack
<1> QED BY <1>1, <1>2, <1>3

\* Every step preserves the invariant.
LEMMA StepInv == IInv /\ [Next]_vars => IInv'
<1> SUFFICES ASSUME IInv, [Next]_vars PROVE IInv'
  OBVIOUS
<1>1. CASE \E t \in Thread, remote \in Remote \cup {NoRemote} : Begin(t, remote)
  BY <1>1, BeginInv
<1>2. CASE \E t \in Thread : CallStep(t)
  BY <1>2, LoadTimestampInv, LoadCounterInv, SwapTimestampInv, SwapCounterInv DEF CallStep
<1>3. CASE AdvanceWall
  BY <1>3, AdvanceWallInv
<1>4. CASE UNCHANGED vars
  BY <1>4 DEF vars, IInv, TypeOK, CallsBound, Bound, NeverBehind
<1>5. CASE SetWallBack
  BY <1>5, SetWallBackInv
<1> QED BY <1>1, <1>2, <1>3, <1>4, <1>5 DEF Next

\* The invariant holds in every reachable state.
THEOREM Invariance == Spec => []IInv
BY InitInv, StepInv, PTL DEF Spec

\* Every variable keeps its type.
THEOREM TypeCorrect == Spec => []TypeOK
<1>1. IInv => TypeOK
  BY DEF IInv
<1> QED BY <1>1, Invariance, PTL

\* No call returns a time behind all the wall clock showed while it ran, or
\* behind its remote clock.
THEOREM NeverBehindHolds == Spec => []NeverBehind
<1>1. IInv => NeverBehind
  BY DEF IInv
<1> QED BY <1>1, Invariance, PTL

\* The shared timestamp never goes back.
THEOREM TimestampNeverBackHolds == Spec => TimestampNeverBack
<1>1. ASSUME IInv, [Next]_vars PROVE [last_timestamp' >= last_timestamp]_vars
  <2>1. CASE \E t \in Thread : SwapTimestamp(t)
    BY <1>1, <2>1, SwapTimestampInv
  <2>2. CASE ~\E t \in Thread : SwapTimestamp(t)
    <3>1. last_timestamp' = last_timestamp
      BY <1>1, <2>2 DEF Next, CallStep, Begin, LoadTimestamp, LoadCounter, SwapCounter,
                        AdvanceWall, SetWallBack, vars
    <3> QED BY <1>1, <3>1 DEF IInv, TypeOK
  <2> QED BY <2>1, <2>2
<1> QED BY <1>1, Invariance, PTL DEF Spec, TimestampNeverBack

-----------------------------------------------------------------------------
(* A second invariant: the ticks of a state that is ahead of the wall clock. *)

Ids(ds) == {d.id : d \in ds}

\* What a tick is going to store follows from what it loaded; a call began after
\* the calls it knows had returned.
TickOK(c) ==
    c.at \in {"stamp", "count"} /\ c.remote = NoRemote => c.to = NewTick(c.wall, c.from)

\* The number of a call is used once.
NumberedOK ==
    \A t \in Thread, i \in Nat :
        <<t, i>> \in Ids(done) => i <= calls[t] /\ (call[t] # NoCall => i < calls[t])

\* What a call loaded while the state was ahead: the timestamp has not changed
\* since, and the counter had passed what the calls before it returned.
AheadCall(c, ts, cnt) ==
    /\ c.at \in {"counter", "stamp", "count"} => c.from.ts = ts
    /\ c.at \in {"stamp", "count"} =>
           c.from.cnt <= cnt /\ \A e \in done : e.id \in c.before => e.hlc.cnt <= c.from.cnt

AheadOK ==
    /\ \A d \in done : d.hlc.ts = last_timestamp /\ d.hlc.cnt <= last_counter
    /\ \A t \in Thread : call[t] # NoCall => AheadCall(call[t], last_timestamp, last_counter)
    /\ StrictlyGreater /\ Unique

OInv ==
    /\ \A t \in Thread : call[t] # NoCall => TickOK(call[t]) /\ call[t].before \subseteq Ids(done)
    /\ \A d \in done : d.before \subseteq Ids(done)
    /\ NumberedOK
    /\ AheadOfWall => AheadOK

\* A call goes on, begins or starts again: no call returns and the counter
\* stays.  If the state is ahead afterwards it was ahead before, with the same
\* timestamp.
LEMMA CallMoves ==
    ASSUME IInv, OInv, NEW t \in Thread, NEW c \in Call, call' = [call EXCEPT ![t] = c],
           UNCHANGED <<last_counter, wall, peak, done>>, TickOK(c), c.before \subseteq Ids(done),
           IF call[t] = NoCall THEN calls' = [calls EXCEPT ![t] = @ + 1]
           ELSE call[t].remote = c.remote /\ calls' = calls,
           AheadOfWall' => last_timestamp > peak,
           AheadOfWall => last_timestamp' = last_timestamp
                          /\ AheadCall(c, last_timestamp, last_counter)
    PROVE  OInv'
<1>1. /\ call'[t] = c /\ c # NoCall
      /\ \A u \in Thread \ {t} : call'[u] = call[u]
  <2>1. c # NoCall
    BY DEF Call, NoCall
  <2> QED BY <2>1 DEF IInv, TypeOK
<1>2. \A u \in Thread : call'[u] # NoCall => TickOK(call'[u]) /\ call'[u].before \subseteq Ids(done)
  BY <1>1 DEF OInv
<1>3. NumberedOK'
  <2> SUFFICES ASSUME NEW u \in Thread, NEW i \in Nat, <<u, i>> \in Ids(done)
               PROVE  i <= calls'[u] /\ (call'[u] # NoCall => i < calls'[u])
    BY DEF NumberedOK, Ids
  <2>1. i <= calls[u] /\ (call[u] # NoCall => i < calls[u]) /\ calls[u] \in Nat
    BY HybridClockAssumption DEF OInv, NumberedOK, IInv, TypeOK
  <2>2. CASE u = t /\ call[t] = NoCall
    <3>1. calls' = [calls EXCEPT ![t] = @ + 1]
      BY <2>2
    <3> QED BY <2>1, <2>2, <3>1 DEF IInv, TypeOK
  <2>3. CASE ~(u = t /\ call[t] = NoCall)
    BY <1>1, <2>1, <2>3 DEF IInv, TypeOK
  <2> QED BY <2>2, <2>3
<1>4. ASSUME AheadOfWall'
      PROVE  AheadOK'
  <2>1. AheadOfWall
    <3>1. \A u \in Thread : call[u] # NoCall => call[u].remote = NoRemote
      BY <1>1, <1>4 DEF AheadOfWall
    <3> QED BY <1>4, <3>1 DEF AheadOfWall
  <2>2. AheadOK /\ last_timestamp' = last_timestamp /\ AheadCall(c, last_timestamp, last_counter)
    BY <2>1 DEF OInv
  <2>3. \A u \in Thread : call'[u] # NoCall => AheadCall(call'[u], last_timestamp, last_counter)
    BY <1>1, <2>2 DEF AheadOK
  <2>4. \A u \in Thread : call'[u] # NoCall => AheadCall(call[u], last_timestamp, last_counter)'
    BY <2>2, <2>3 DEF AheadCall
  <2> QED BY <2>2, <2>4 DEF AheadOK, StrictlyGreater, Unique
<1> QED BY <1>2, <1>3, <1>4 DEF OInv, TickOK, Ids

LEMMA InitOrdered ==
    ASSUME Init
    PROVE  OInv
BY DEF Init, OInv, NumberedOK, Ids, AheadOfWall, AheadOK, StrictlyGreater, Unique

LEMMA BeginOrdered ==
    ASSUME IInv, OInv, NEW t \in Thread, NEW remote \in Remote \cup {NoRemote}, Begin(t, remote)
    PROVE  OInv'
<1> DEFINE c == [at |-> "load", remote |-> remote, wall |-> wall, from |-> Zero, to |-> Zero,
                 low |-> wall, before |-> {d.id : d \in done}]
<1>1. Ids(done) \in SUBSET (Thread \X Nat)
  BY DEF IInv, TypeOK, Done, Ids
<1>2. c \in Call /\ c.at = "load" /\ c.before = Ids(done)
  BY <1>1, HybridClockAssumption DEF IInv, TypeOK, Call, HLC, Zero, Ids
<1>3. /\ call' = [call EXCEPT ![t] = c] /\ call[t] = NoCall
      /\ calls' = [calls EXCEPT ![t] = @ + 1]
      /\ UNCHANGED <<last_timestamp, last_counter, wall, peak, done>>
  BY DEF Begin
<1> HIDE DEF c
<1>4. TickOK(c) /\ AheadCall(c, last_timestamp, last_counter)
  BY <1>2 DEF TickOK, AheadCall
<1>5. AheadOfWall' => last_timestamp > peak
  BY <1>3 DEF AheadOfWall
<1> QED BY <1>2, <1>3, <1>4, <1>5, CallMoves

\* A call at one of its steps.
LEMMA InCall ==
    ASSUME IInv, OInv, NEW t \in Thread, call[t].at \in {"load", "counter", "stamp", "count"}
    PROVE  /\ call[t] \in Call /\ call[t] # NoCall
           /\ TickOK(call[t]) /\ call[t].before \subseteq Ids(done)
           /\ call[t].wall \in Nat /\ peak \in Nat /\ call[t].wall <= peak
           /\ last_timestamp \in Nat /\ last_counter \in Nat
           /\ AheadOfWall => /\ AheadOK /\ call[t].remote = NoRemote
                             /\ AheadCall(call[t], last_timestamp, last_counter)
                             /\ last_timestamp > peak
<1>1. call[t] \in Call /\ call[t] # NoCall
  BY AtCall DEF IInv
<1>2. TickOK(call[t]) /\ call[t].before \subseteq Ids(done)
  BY <1>1 DEF OInv
<1>3. /\ call[t].wall \in Nat /\ peak \in Nat /\ call[t].wall <= peak
      /\ last_timestamp \in Nat /\ last_counter \in Nat
  BY <1>1, HybridClockAssumption DEF IInv, TypeOK, CallsBound, Bound, Call
<1>4. AheadOfWall => /\ AheadOK /\ call[t].remote = NoRemote
                     /\ AheadCall(call[t], last_timestamp, last_counter)
                     /\ last_timestamp > peak
  BY <1>1 DEF OInv, AheadOfWall, AheadOK
<1> QED BY <1>1, <1>2, <1>3, <1>4

LEMMA RetryOrdered ==
    ASSUME IInv, OInv, NEW t \in Thread, call[t].at \in {"stamp", "count"}, Retry(t),
           UNCHANGED <<last_timestamp, last_counter, wall, peak, calls, done>>
    PROVE  OInv'
<1> DEFINE c == [call[t] EXCEPT !.at = "load", !.wall = wall, !.from = Zero, !.to = Zero]
<1>1. call[t] \in Call /\ call[t] # NoCall /\ call[t].before \subseteq Ids(done)
  BY InCall
<1>2. call' = [call EXCEPT ![t] = c]
  BY DEF Retry, IInv, TypeOK
<1>3. c \in Call /\ c.at = "load" /\ c.remote = call[t].remote /\ c.before = call[t].before
  BY <1>1 DEF Call, HLC, Zero, IInv, TypeOK
<1> HIDE DEF c
<1>4. TickOK(c) /\ AheadCall(c, last_timestamp, last_counter)
  BY <1>3 DEF TickOK, AheadCall
<1>5. AheadOfWall' => last_timestamp > peak
  BY DEF AheadOfWall
<1> QED BY <1>1, <1>2, <1>3, <1>4, <1>5, CallMoves

LEMMA LoadTimestampOrdered ==
    ASSUME IInv, OInv, NEW t \in Thread, LoadTimestamp(t)
    PROVE  OInv'
<1> DEFINE c == [call[t] EXCEPT !.at = "counter", !.from.ts = last_timestamp]
<1>1. /\ call[t] \in Call /\ call[t] # NoCall /\ call[t].before \subseteq Ids(done)
      /\ UNCHANGED <<last_timestamp, last_counter, wall, peak, calls, done>>
  BY InCall DEF LoadTimestamp
<1>2. call' = [call EXCEPT ![t] = c]
  BY DEF LoadTimestamp, IInv, TypeOK
<1>3. c \in Call
  BY <1>1 DEF Call, HLC, IInv, TypeOK
<1>4. /\ c.at = "counter" /\ c.remote = call[t].remote /\ c.before = call[t].before
      /\ c.from.ts = last_timestamp
  BY <1>1 DEF Call, HLC
<1> HIDE DEF c
<1>5. TickOK(c) /\ AheadCall(c, last_timestamp, last_counter)
  BY <1>4 DEF TickOK, AheadCall
<1>6. AheadOfWall' => last_timestamp > peak
  BY <1>1 DEF AheadOfWall
<1> QED BY <1>1, <1>2, <1>3, <1>4, <1>5, <1>6, CallMoves

\* The counter a tick loads has passed what every call before it returned.
LEMMA LoadCounterOrdered ==
    ASSUME IInv, OInv, NEW t \in Thread, LoadCounter(t)
    PROVE  OInv'
<1> DEFINE last == [call[t].from EXCEPT !.cnt = last_counter]
           to == IF call[t].remote = NoRemote THEN NewTick(call[t].wall, last)
                 ELSE NewUpdate(call[t].wall, last, call[t].remote)
           c == [call[t] EXCEPT !.at = "stamp", !.from = last, !.to = to]
<1>1. /\ call[t] \in Call /\ call[t] # NoCall /\ call[t].before \subseteq Ids(done)
      /\ call[t].at = "counter" /\ call[t].wall \in Nat /\ last_counter \in Nat
      /\ UNCHANGED <<last_timestamp, last_counter, wall, peak, calls, done>>
  BY InCall DEF LoadCounter
<1>2. call' = [call EXCEPT ![t] = c]
  BY DEF LoadCounter, IInv, TypeOK
<1>3. last \in HLC /\ last.ts = call[t].from.ts /\ last.cnt = last_counter
  BY <1>1 DEF Call, HLC
<1>4. call[t].remote # NoRemote => call[t].remote \in HLC
  BY <1>1, HybridClockAssumption DEF Call
<1> HIDE DEF last
<1>5. to \in HLC /\ (call[t].remote = NoRemote => to = NewTick(call[t].wall, last))
  BY <1>1, <1>3, <1>4, NewTickBound, NewUpdateBound
<1> HIDE DEF to
<1>6. c \in Call
  BY <1>1, <1>3, <1>5 DEF Call
<1>7. /\ c.at = "stamp" /\ c.remote = call[t].remote /\ c.before = call[t].before
      /\ c.from = last /\ c.to = to /\ c.wall = call[t].wall
  BY <1>1 DEF Call
<1> HIDE DEF c
<1>8. TickOK(c)
  BY <1>5, <1>7 DEF TickOK
<1>9. AheadOfWall => AheadCall(c, last_timestamp, last_counter)
  <2> SUFFICES ASSUME AheadOfWall
               PROVE  AheadCall(c, last_timestamp, last_counter)
    OBVIOUS
  <2>1. AheadOK /\ call[t].from.ts = last_timestamp
    BY <1>1, InCall DEF AheadCall
  <2> QED BY <1>1, <1>3, <1>7, <2>1 DEF AheadCall, AheadOK
<1>10. AheadOfWall' => last_timestamp > peak
  BY <1>1 DEF AheadOfWall
<1> QED BY <1>1, <1>2, <1>6, <1>7, <1>8, <1>9, <1>10, CallMoves

\* A tick does not bring the state ahead of the wall clock, and one that finds
\* it ahead leaves the timestamp.
LEMMA SwapTimestampOrdered ==
    ASSUME IInv, OInv, NEW t \in Thread, SwapTimestamp(t)
    PROVE  OInv'
<1>1. /\ call[t] \in Call /\ call[t] # NoCall /\ call[t].before \subseteq Ids(done)
      /\ call[t].at = "stamp" /\ TickOK(call[t])
      /\ call[t].wall \in Nat /\ peak \in Nat /\ call[t].wall <= peak /\ last_timestamp \in Nat
  BY InCall DEF SwapTimestamp
<1>2. CASE last_timestamp # call[t].from.ts
  <2>1. Retry(t) /\ UNCHANGED <<last_timestamp, last_counter, wall, peak, calls, done>>
    BY <1>2 DEF SwapTimestamp
  <2> QED BY <1>1, <2>1, RetryOrdered
<1>3. CASE last_timestamp = call[t].from.ts
  <2> DEFINE c == [call[t] EXCEPT !.at = "count"]
  <2>1. /\ last_timestamp' = call[t].to.ts
        /\ call' = [call EXCEPT ![t] = c]
        /\ UNCHANGED <<last_counter, wall, peak, calls, done>>
    BY <1>3 DEF SwapTimestamp, IInv, TypeOK
  <2>2. c \in Call
    BY <1>1 DEF Call
  <2>3. /\ c.at = "count" /\ c.remote = call[t].remote /\ c.before = call[t].before
        /\ c.from = call[t].from /\ c.to = call[t].to /\ c.wall = call[t].wall
    BY <1>1 DEF Call
  <2> HIDE DEF c
  <2>4. TickOK(c)
    BY <1>1, <2>3 DEF TickOK
  <2>5. call[t].remote = NoRemote =>
            call[t].to.ts = IF call[t].wall > last_timestamp THEN call[t].wall ELSE last_timestamp
    BY <1>1, <1>3 DEF TickOK, NewTick
  <2>6. AheadOfWall' => last_timestamp > peak
    <3> SUFFICES ASSUME AheadOfWall'
                 PROVE  last_timestamp > peak
      OBVIOUS
    <3>1. call'[t] = c /\ c # NoCall
      BY <2>1, <2>2 DEF IInv, TypeOK, Call, NoCall
    <3>2. call[t].remote = NoRemote /\ last_timestamp' > peak
      BY <2>1, <2>3, <3>1 DEF AheadOfWall
    <3> QED BY <1>1, <2>1, <2>5, <3>2
  <2>7. AheadOfWall => last_timestamp' = last_timestamp
                       /\ AheadCall(c, last_timestamp, last_counter)
    <3> SUFFICES ASSUME AheadOfWall
                 PROVE  last_timestamp' = last_timestamp
                        /\ AheadCall(c, last_timestamp, last_counter)
      OBVIOUS
    <3>1. /\ call[t].remote = NoRemote /\ last_timestamp > peak
          /\ AheadCall(call[t], last_timestamp, last_counter)
      BY <1>1, InCall
    <3>2. last_timestamp' = last_timestamp
      BY <1>1, <2>1, <2>5, <3>1
    <3>3. AheadCall(c, last_timestamp, last_counter)
      BY <1>1, <2>3, <3>1 DEF AheadCall
    <3> QED BY <3>2, <3>3
  <2> QED BY <1>1, <2>1, <2>2, <2>3, <2>4, <2>6, <2>7, CallMoves
<1> QED BY <1>2, <1>3

\* The counter's swap succeeds only if no tick has returned since it was loaded:
\* the tick returns one more than all of them.
LEMMA SwapCounterOrdered ==
    ASSUME IInv, OInv, NEW t \in Thread, SwapCounter(t)
    PROVE  OInv'
<1>1. /\ call[t] \in Call /\ call[t] # NoCall /\ call[t].before \subseteq Ids(done)
      /\ call[t].at = "count" /\ TickOK(call[t])
      /\ call[t].wall \in Nat /\ peak \in Nat /\ call[t].wall <= peak
      /\ last_timestamp \in Nat /\ last_counter \in Nat
  BY InCall DEF SwapCounter
<1>2. CASE last_counter # call[t].from.cnt
  <2>1. Retry(t) /\ UNCHANGED <<last_timestamp, last_counter, wall, peak, calls, done>>
    BY <1>2 DEF SwapCounter
  <2> QED BY <1>1, <2>1, RetryOrdered
<1>3. CASE last_counter = call[t].from.cnt
  <2> DEFINE c == call[t]
             d == [id |-> <<t, calls[t]>>, remote |-> c.remote, hlc |-> c.to,
                   low |-> c.low, before |-> c.before]
  <2>1. /\ last_counter' = c.to.cnt
        /\ call' = [call EXCEPT ![t] = NoCall]
        /\ done' = done \cup {d}
        /\ UNCHANGED <<last_timestamp, wall, peak, calls>>
    BY <1>3 DEF SwapCounter
  <2>2. d.id = <<t, calls[t]>> /\ d.remote = c.remote /\ d.hlc = c.to /\ d.before = c.before
    OBVIOUS
  <2> HIDE DEF d
  <2>3. /\ call'[t] = NoCall /\ \A u \in Thread \ {t} : call'[u] = call[u]
        /\ calls \in [Thread -> Nat] /\ done \subseteq Done
    BY <2>1, HybridClockAssumption DEF IInv, TypeOK
  <2>4. Ids(done') = Ids(done) \cup {<<t, calls[t]>>}
    BY <2>1, <2>2 DEF Ids
  <2>5. <<t, calls[t]>> \notin Ids(done)
    <3> SUFFICES ASSUME <<t, calls[t]>> \in Ids(done)
                 PROVE  FALSE
      OBVIOUS
    <3>1. calls[t] \in Nat
      BY <2>3
    <3>2. calls[t] < calls[t]
      BY <1>1, <3>1 DEF OInv, NumberedOK
    <3> QED BY <3>1, <3>2
  <2>6. \A e \in done : e.id \in Ids(done) /\ e.before \subseteq Ids(done) /\ e.id # d.id
    BY <2>2, <2>5 DEF Ids, OInv
  <2>7. \A u \in Thread : call'[u] # NoCall =>
            TickOK(call'[u]) /\ call'[u].before \subseteq Ids(done)
    BY <2>3 DEF OInv
  <2>8. NumberedOK'
    <3> SUFFICES ASSUME NEW u \in Thread, NEW i \in Nat, <<u, i>> \in Ids(done')
                 PROVE  i <= calls[u] /\ (call'[u] # NoCall => i < calls[u])
      BY <2>1 DEF NumberedOK, Ids
    <3>1. CASE <<u, i>> = <<t, calls[t]>>
      BY <2>3, <3>1
    <3>2. CASE <<u, i>> \in Ids(done)
      BY <2>3, <3>2 DEF OInv, NumberedOK
    <3> QED BY <2>4, <3>1, <3>2
  <2>9. ASSUME AheadOfWall'
        PROVE  AheadOK'
    <3>1. AheadOfWall
      BY <2>1, <2>2, <2>3, <2>9 DEF AheadOfWall
    <3>2. /\ AheadOK /\ c.remote = NoRemote /\ last_timestamp > peak
          /\ AheadCall(c, last_timestamp, last_counter)
      BY <1>1, <3>1, InCall
    <3>3. d.hlc.ts = last_timestamp /\ d.hlc.cnt = last_counter + 1
          /\ \A e \in done : e.id \in d.before => e.hlc.cnt <= last_counter
      <4>1. c.from.ts = last_timestamp /\ c.to = NewTick(c.wall, c.from)
        BY <1>1, <3>2 DEF AheadCall, TickOK
      <4>2. ~(c.wall > c.from.ts)
        BY <1>1, <3>2, <4>1
      <4>3. c.to = [ts |-> last_timestamp, cnt |-> last_counter + 1]
        BY <1>3, <4>1, <4>2 DEF NewTick
      <4> QED BY <1>1, <1>3, <2>2, <3>2, <4>3 DEF AheadCall
    <3>4. \A e \in done : /\ e.hlc.ts = last_timestamp /\ e.hlc.cnt \in Nat
                          /\ e.hlc.cnt <= last_counter
      BY <2>3, <3>2 DEF AheadOK, Done, HLC
    <3>5. last_counter' = last_counter + 1 /\ last_timestamp' = last_timestamp
      BY <2>1, <2>2, <3>3
    <3>6. \A e \in done' : e.hlc.ts = last_timestamp /\ e.hlc.cnt <= last_counter + 1
      BY <1>1, <2>1, <3>3, <3>4
    <3>7. ASSUME NEW u \in Thread, call'[u] # NoCall
          PROVE  AheadCall(call[u], last_timestamp, last_counter)'
      <4>1. u # t /\ call'[u] = call[u] /\ call[u] # NoCall /\ call[u] \in Call
        BY <2>3, <3>7 DEF IInv, TypeOK
      <4>2. AheadCall(call[u], last_timestamp, last_counter) /\ call[u].before \subseteq Ids(done)
        BY <3>2, <4>1 DEF AheadOK, OInv
      <4>3. d.id \notin call[u].before
        BY <2>2, <2>5, <4>2
      <4>4. call[u].from.cnt \in Nat
        BY <4>1 DEF Call, HLC
      <4>5. call[u].from.cnt <= last_counter => call[u].from.cnt <= last_counter + 1
        BY <1>1, <4>4
      <4>6. \A e \in done' : e.id \in call[u].before => e \in done
        BY <2>1, <4>3
      <4> QED BY <3>5, <4>1, <4>2, <4>5, <4>6 DEF AheadCall
    <3>8. StrictlyGreater'
      <4> SUFFICES ASSUME NEW x \in done', NEW y \in done', y.id \in x.before
                   PROVE  Less(y.hlc, x.hlc)
        BY DEF StrictlyGreater
      <4>1. y.id \in Ids(done) /\ y # d /\ y \in done
        BY <1>1, <2>1, <2>2, <2>5, <2>6
      <4>2. CASE x = d
        <5>1. y.hlc.cnt < d.hlc.cnt /\ y.hlc.ts = d.hlc.ts
          BY <1>1, <3>3, <3>4, <4>1, <4>2
        <5> QED BY <4>2, <5>1 DEF Less
      <4>3. CASE x \in done
        BY <3>2, <4>1, <4>3 DEF AheadOK, StrictlyGreater
      <4> QED BY <2>1, <4>2, <4>3
    <3>9. Unique'
      <4> SUFFICES ASSUME NEW x \in done', NEW y \in done', x.hlc = y.hlc
                   PROVE  x.id = y.id
        BY DEF Unique
      <4>1. \A e \in done : e.hlc # d.hlc
        <5> SUFFICES ASSUME NEW e \in done, e.hlc = d.hlc
                     PROVE  FALSE
          OBVIOUS
        <5>1. e.hlc.cnt = last_counter + 1 /\ e.hlc.cnt <= last_counter
          BY <3>3, <3>4
        <5> QED BY <1>1, <5>1
      <4>2. CASE x \in done /\ y \in done
        BY <3>2, <4>2 DEF AheadOK, Unique
      <4> QED BY <2>1, <4>1, <4>2
    <3> QED BY <3>5, <3>6, <3>7, <3>8, <3>9 DEF AheadOK
  <2>10. \A e \in done' : e.before \subseteq Ids(done')
    BY <1>1, <2>1, <2>2, <2>4, <2>6
  <2>11. \A u \in Thread : call'[u] # NoCall =>
             TickOK(call'[u]) /\ call'[u].before \subseteq Ids(done')
    BY <2>4, <2>7
  <2> QED BY <2>8, <2>9, <2>10, <2>11 DEF OInv, TickOK, Ids
<1> QED BY <1>2, <1>3

LEMMA AdvanceWallOrdered ==
    ASSUME IInv, OInv, AdvanceWall
    PROVE  OInv'
<1>1. AheadOfWall' => AheadOfWall
  BY HybridClockAssumption DEF AheadOfWall, AdvanceWall, IInv, TypeOK, Max2
<1>2. AheadOK => AheadOK'
  BY DEF AheadOK, AheadCall, StrictlyGreater, Unique, AdvanceWall
<1> QED BY <1>1, <1>2 DEF OInv, NumberedOK, TickOK, Ids, AdvanceWall

LEMMA SetWallBackOrdered ==
    ASSUME IInv, OInv, SetWallBack
    PROVE  OInv'
<1>1. /\ UNCHANGED <<last_timestamp, last_counter, peak, calls, done>>
      /\ \A t \in Thread : call'[t] = NoCall <=> call[t] = NoCall
      /\ \A t \in Thread : call[t] # NoCall =>
             /\ call'[t].at = call[t].at /\ call'[t].remote = call[t].remote
             /\ call'[t].wall = call[t].wall /\ call'[t].from = call[t].from
             /\ call'[t].to = call[t].to /\ call'[t].before = call[t].before
  BY LowerCall DEF IInv, SetWallBack
<1>2. AheadOfWall' => AheadOfWall
  BY <1>1 DEF AheadOfWall
<1>3. AheadOK => AheadOK'
  BY <1>1 DEF AheadOK, AheadCall, StrictlyGreater, Unique
<1>4. NumberedOK'
  BY <1>1 DEF OInv, NumberedOK, Ids
<1>5. \A t \in Thread : call'[t] # NoCall =>
          TickOK(call'[t]) /\ call'[t].before \subseteq Ids(done')
  BY <1>1 DEF OInv, TickOK
<1>6. \A d \in done' : d.before \subseteq Ids(done')
  BY <1>1 DEF OInv
<1> QED BY <1>2, <1>3, <1>4, <1>5, <1>6 DEF OInv, TickOK, Ids

LEMMA StepOrdered ==
    ASSUME IInv, OInv, [Next]_vars
    PROVE  OInv'
<1>1. CASE \E t \in Thread, remote \in Remote \cup {NoRemote} : Begin(t, remote)
  BY <1>1, BeginOrdered
<1>2. CASE \E t \in Thread : CallStep(t)
  BY <1>2, LoadTimestampOrdered, LoadCounterOrdered, SwapTimestampOrdered, SwapCounterOrdered
     DEF CallStep
<1>3. CASE AdvanceWall
  BY <1>3, AdvanceWallOrdered
<1>4. CASE UNCHANGED vars
  <2>1. AheadOfWall' => AheadOfWall
    BY <1>4 DEF AheadOfWall, vars
  <2>2. AheadOK => AheadOK'
    BY <1>4 DEF AheadOK, AheadCall, StrictlyGreater, Unique, vars
  <2> QED BY <1>4, <2>1, <2>2 DEF OInv, NumberedOK, TickOK, Ids, vars
<1>5. CASE SetWallBack
  BY <1>5, SetWallBackOrdered
<1> QED BY <1>1, <1>2, <1>3, <1>4, <1>5 DEF Next

\* While the state is, and has been, ahead of the wall clock and only ticked, no two ticks
\* return the same HLC and each returns more than those that had returned
\* before it began, for any number of threads.
THEOREM OrderedAheadHolds == Spec => []OrderedAhead
<1>1. Init => OInv
  BY InitOrdered
<1>2. IInv /\ OInv /\ [Next]_vars => OInv'
  BY StepOrdered
<1>3. OInv => OrderedAhead
  BY DEF OInv, OrderedAhead, AheadOK
<1> QED BY <1>1, <1>2, <1>3, Invariance, PTL DEF Spec

=============================================================================
