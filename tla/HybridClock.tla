---------------------------- MODULE HybridClock ----------------------------
(***************************************************************************)
(* The hybrid logical clock of a server (raisin-hlc, NodeHLCState), which  *)
(* allocates the revision of every commit.  Threads call tick and update   *)
(* at the same time.  The state is two atomics; a call loads the one, then *)
(* the other, and swaps them in one after the other, each with its own     *)
(* compare-and-swap, so each of these is a step.  Every atomic access is   *)
(* sequentially consistent here, which is more than the Acquire and AcqRel *)
(* orderings of the code promise.                                          *)
(***************************************************************************)
EXTENDS Integers, FiniteSets

CONSTANTS
    Thread,
    Remote,         \* HLCs that `update` is called with
    Start,          \* HLCs the state starts from (new, with_initial)
    MaxWall,        \* bound: the wall clock runs from 0 to MaxWall
    MaxCalls        \* bound: calls of each thread

HLC == [ts : Nat, cnt : Nat]

ASSUME HybridClockAssumption ==
    /\ Remote \subseteq HLC
    /\ Start \subseteq HLC
    /\ MaxWall \in Nat
    /\ MaxCalls \in Nat

VARIABLES
    last_timestamp,
    last_counter,
    wall,           \* the wall clock
    peak,           \* history: the latest the wall clock has been
    call,           \* thread -> its call in progress
    calls,          \* thread -> how many calls it has made
    done            \* history: the calls that have returned

vars == <<last_timestamp, last_counter, wall, peak, call, calls, done>>

\* The order of HLC: the timestamp, then the counter.
Less(a, b) == a.ts < b.ts \/ (a.ts = b.ts /\ a.cnt < b.cnt)

NoRemote == [ts |-> -1, cnt |-> -1]     \* the call is a tick

\* `from` is what the call loaded, `to` what it is going to store, `low` the
\* earliest the wall clock has been since its first step and `before` the calls
\* that had returned then.
Call == [at : {"load", "counter", "stamp", "count"},
         remote : Remote \cup {NoRemote},
         wall : 0 .. MaxWall, from : HLC, to : HLC,
         low : 0 .. MaxWall, before : SUBSET (Thread \X Nat)]

NoCall == [at |-> "idle"]

Done == [id : Thread \X Nat, remote : Remote \cup {NoRemote}, hlc : HLC,
         low : 0 .. MaxWall, before : SUBSET (Thread \X Nat)]

TypeOK ==
    /\ last_timestamp \in Nat
    /\ last_counter \in Nat
    /\ wall \in 0 .. MaxWall
    /\ peak \in wall .. MaxWall
    /\ call \in [Thread -> Call \cup {NoCall}]
    /\ calls \in [Thread -> 0 .. MaxCalls]
    /\ done \subseteq Done

Init ==
    /\ \E hlc \in Start : last_timestamp = hlc.ts /\ last_counter = hlc.cnt
    /\ wall = 0
    /\ peak = 0
    /\ call = [t \in Thread |-> NoCall]
    /\ calls = [t \in Thread |-> 0]
    /\ done = {}

-----------------------------------------------------------------------------

Zero == [ts |-> 0, cnt |-> 0]

\* tick or update is entered: the wall clock is read.
Begin(t, remote) ==
    /\ call[t] = NoCall
    /\ calls[t] < MaxCalls
    /\ calls' = [calls EXCEPT ![t] = @ + 1]
    /\ call' = [call EXCEPT ![t] =
           [at |-> "load", remote |-> remote, wall |-> wall, from |-> Zero, to |-> Zero,
            low |-> wall, before |-> {d.id : d \in done}]]
    /\ UNCHANGED <<last_timestamp, last_counter, wall, peak, done>>

LoadTimestamp(t) ==
    /\ call[t].at = "load"
    /\ call' = [call EXCEPT ![t].at = "counter", ![t].from.ts = last_timestamp]
    /\ UNCHANGED <<last_timestamp, last_counter, wall, peak, calls, done>>

Max2(a, b) == IF a >= b THEN a ELSE b

\* Mutant of NewTick: the wall clock is taken as it is.
WallOnly(w, last) ==
    IF w = last.ts THEN [ts |-> last.ts, cnt |-> last.cnt + 1] ELSE [ts |-> w, cnt |-> 0]

\* Mutant of NewTick: time stands still once the state has a timestamp.
KeepLast(w, last) == [ts |-> last.ts, cnt |-> last.cnt + 1]

\* What tick stores.
NewTick(w, last) ==
    IF w > last.ts THEN [ts |-> w, cnt |-> 0] ELSE [ts |-> last.ts, cnt |-> last.cnt + 1]

\* What update stores: the remote counter goes first when the timestamps tie.
NewUpdate(w, last, remote) ==
    LET max_ts == Max2(Max2(w, last.ts), remote.ts)
    IN  [ts  |-> max_ts,
         cnt |-> IF max_ts = remote.ts THEN remote.cnt + 1
                 ELSE IF max_ts = last.ts THEN last.cnt + 1
                 ELSE 0]

LoadCounter(t) ==
    LET c == call[t]
        last == [c.from EXCEPT !.cnt = last_counter]
    IN  /\ c.at = "counter"
        /\ call' = [call EXCEPT ![t].at = "stamp", ![t].from = last,
               ![t].to = IF c.remote = NoRemote THEN NewTick(c.wall, last)
                         ELSE NewUpdate(c.wall, last, c.remote)]
        /\ UNCHANGED <<last_timestamp, last_counter, wall, peak, calls, done>>

\* A failed swap starts the loop again, with the wall clock of now.
Retry(t) ==
    call' = [call EXCEPT ![t].at = "load", ![t].wall = wall, ![t].from = Zero, ![t].to = Zero]

\* The compare-and-swap of the timestamp; one that keeps it still succeeds.
SwapTimestamp(t) ==
    LET c == call[t]
    IN  /\ c.at = "stamp"
        /\ IF last_timestamp = c.from.ts
           THEN /\ last_timestamp' = c.to.ts
                /\ call' = [call EXCEPT ![t].at = "count"]
           ELSE Retry(t) /\ UNCHANGED last_timestamp
        /\ UNCHANGED <<last_counter, wall, peak, calls, done>>

\* Mutant of SwapCounter: a plain store.
StoreCounter(t) ==
    LET c == call[t]
    IN  /\ c.at = "count"
        /\ last_counter' = c.to.cnt
        /\ call' = [call EXCEPT ![t] = NoCall]
        /\ done' = done \cup {[id |-> <<t, calls[t]>>, remote |-> c.remote, hlc |-> c.to,
                               low |-> c.low, before |-> c.before]}
        /\ UNCHANGED <<last_timestamp, wall, peak, calls>>

\* The compare-and-swap of the counter, and the return.
SwapCounter(t) ==
    LET c == call[t]
    IN  /\ c.at = "count"
        /\ IF last_counter = c.from.cnt
           THEN /\ last_counter' = c.to.cnt
                /\ call' = [call EXCEPT ![t] = NoCall]
                /\ done' = done \cup
                       {[id |-> <<t, calls[t]>>, remote |-> c.remote, hlc |-> c.to,
                         low |-> c.low, before |-> c.before]}
           ELSE Retry(t) /\ UNCHANGED <<last_counter, done>>
        /\ UNCHANGED <<last_timestamp, wall, peak, calls>>

\* Time passes.
AdvanceWall ==
    /\ wall < MaxWall
    /\ wall' = wall + 1
    /\ peak' = Max2(peak, wall')
    /\ UNCHANGED <<last_timestamp, last_counter, call, calls, done>>

\* The system clock is set back: current_time_ms is SystemTime, which is not
\* monotonic.
SetWallBack ==
    \E w \in 0 .. MaxWall :
        /\ w < wall
        /\ wall' = w
        /\ call' = [t \in Thread |->
               IF call[t] # NoCall /\ w < call[t].low THEN [call[t] EXCEPT !.low = w]
               ELSE call[t]]
        /\ UNCHANGED <<last_timestamp, last_counter, peak, calls, done>>

CallStep(t) ==
    \/ LoadTimestamp(t)
    \/ LoadCounter(t)
    \/ SwapTimestamp(t)
    \/ SwapCounter(t)

Next ==
    \/ \E t \in Thread, remote \in Remote \cup {NoRemote} : Begin(t, remote)
    \/ \E t \in Thread : CallStep(t)
    \/ AdvanceWall
    \/ SetWallBack

Spec == Init /\ [][Next]_vars

-----------------------------------------------------------------------------
(* Properties. *)

\* "Monotonicity: each call returns a strictly greater HLC" (tick), "while
\* maintaining monotonicity" (update): a call returns more than every call
\* that had returned before it began.
StrictlyGreater ==
    \A d, e \in done : e.id \in d.before => Less(e.hlc, d.hlc)

\* No two calls, concurrent ones included, return the same HLC: a revision
\* names one commit.
Unique == \A d, e \in done : d.hlc = e.hlc => d.id = e.id

\* No update has been called, and the state is ahead of the wall clock and has
\* been all along, as after a restart from a revision of another server or with
\* a system clock that was set back: every tick so far has left the timestamp
\* alone.
AheadOfWall ==
    /\ last_timestamp > peak
    /\ \A d \in done : d.remote = NoRemote
    /\ \A t \in Thread : call[t] # NoCall => call[t].remote = NoRemote

\* While the state is ahead of the wall clock, what tick promises holds: the
\* counter, with its retries, orders the ticks of all threads.
OrderedAhead == AheadOfWall => StrictlyGreater /\ Unique

\* "Causality: the HLC advances with wall clock time" (tick): no call returns
\* a timestamp older than all the wall clock showed while it ran, or an HLC that
\* is not above the remote one it was given ("assert!(updated >= remote)", update).
NeverBehind ==
    \A d \in done :
        /\ d.hlc.ts >= d.low
        /\ d.remote # NoRemote => Less(d.remote, d.hlc)

\* The timestamp half of the state never goes back, whatever the two swaps of
\* concurrent calls interleave to.
TimestampNeverBack == [][last_timestamp' >= last_timestamp]_vars

=============================================================================
