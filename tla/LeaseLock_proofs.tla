-------------------------- MODULE LeaseLock_proofs --------------------------
(***************************************************************************)
(* Proofs about LeaseLock, for any number of servers, any lease and either *)
(* backend: the lease of the moment has the newest token, a live lease is  *)
(* taken from nobody, and servers that keep their renewals in time never   *)
(* work two at a time.                                                     *)
(***************************************************************************)
EXTENDS LeaseLock, TLAPS

\* Requests carry a time that has been; tokens are granted once.
TokenInv ==
    /\ \A s \in Server : asked[s] <= now
    /\ \A s \in Server : server[s].token <= fence
    /\ \A s \in Server : OnLease(s) => server[s].token # 0

\* With Redis and renewals in time, a server that works holds the lock, and
\* the lock lasts at least as long as the server believes.
ExclusionInv ==
    redis /\ prompt =>
        \A s \in Server : OnLease(s) =>
            /\ lock.token = server[s].token
            /\ lock.expires > now
            /\ lock.expires >= granted[s] + Ttl

IInv == TypeOK /\ TokenInv /\ LeaseIsNewest /\ ExclusionInv

\* The initial states satisfy the invariant.
LEMMA InitInv == Init => IInv
BY LeaseLockAssumption
   DEF Init, IInv, TypeOK, TokenInv, LeaseIsNewest, ExclusionInv, OnLease, Free, State

\* What a change of place leaves alone.
LEMMA GotoFacts ==
    ASSUME TypeOK, NEW s \in Server, NEW at \in State, Goto(s, at)
    PROVE  /\ server' \in [Server -> [at : State, token : 0 .. MaxToken]]
           /\ \A t \in Server : server'[t].token = server[t].token
           /\ \A t \in Server : t # s => server'[t] = server[t]
           /\ server'[s].at = at
BY DEF Goto, TypeOK

\* The invariant survives steps after which no server is on a lease that was
\* not on it before, and which leave the backend alone.
LEMMA QuietInv ==
    ASSUME IInv,
           UNCHANGED <<setting, now, lock, fence, granted>>,
           asked' \in [Server -> 0 .. MaxTime],
           \A t \in Server : asked'[t] <= now,
           server' \in [Server -> [at : State, token : 0 .. MaxToken]],
           \A t \in Server : server'[t].token \in {0, server[t].token},
           \A t \in Server : OnLease(t)' => OnLease(t) /\ server'[t].token = server[t].token
    PROVE  IInv'
<1> USE LeaseLockAssumption DEF IInv, TypeOK, setting
<1>1. TypeOK' /\ TokenInv' /\ LeaseIsNewest'
  BY DEF TokenInv, LeaseIsNewest
<1>2. ExclusionInv'
  BY DEF ExclusionInv
<1> QED BY <1>1, <1>2

\* A server that leaves its place for one where it does not work.
LEMMA LeaveInv ==
    ASSUME IInv, NEW s \in Server, NEW at \in State, Goto(s, at),
           at \in {"elected", "working", "renewed"} => OnLease(s),
           UNCHANGED <<setting, now, lock, fence, granted>>,
           asked' = asked \/ asked' = [asked EXCEPT ![s] = now]
    PROVE  IInv'
<1>1. /\ server' \in [Server -> [at : State, token : 0 .. MaxToken]]
      /\ \A t \in Server : server'[t].token = server[t].token
      /\ \A t \in Server : t # s => server'[t] = server[t]
      /\ server'[s].at = at
  BY GotoFacts DEF IInv
<1>2. \A t \in Server : OnLease(t)' => OnLease(t) /\ server'[t].token = server[t].token
  BY <1>1 DEF OnLease
<1>3. asked' \in [Server -> 0 .. MaxTime] /\ \A t \in Server : asked'[t] <= now
  BY LeaseLockAssumption DEF IInv, TypeOK, TokenInv
<1>4. \A t \in Server : server'[t].token \in {0, server[t].token}
  BY <1>1
<1> QED BY <1>1, <1>2, <1>3, <1>4, QuietInv

\* An acquire that finds no live lease grants the next token.
LEMMA TryAcquireInv ==
    ASSUME IInv, NEW s \in Server, TryAcquire(s)
    PROVE  IInv'
<1> USE LeaseLockAssumption DEF IInv, TypeOK, setting, State
<1>1. CASE ~Available(s)
  <2>1. Goto(s, "standby") /\ UNCHANGED <<setting, now, lock, fence, granted, asked>>
    BY <1>1 DEF TryAcquire
  <2> QED BY <2>1, LeaveInv
<1>2. CASE Available(s)
  <2>1. /\ fence < MaxToken /\ fence' = fence + 1
        /\ lock' = [token |-> fence + 1, expires |-> Time(s) + Ttl]
        /\ server' = [server EXCEPT ![s] = [at |-> "elected", token |-> fence + 1]]
        /\ granted' = [granted EXCEPT ![s] = asked[s]]
        /\ now' = now /\ asked' = asked /\ setting' = setting
    BY <1>2 DEF TryAcquire
  <2>2. Time(s) \in 0 .. MaxTime /\ Time(s) <= now /\ (redis => Time(s) = now)
    BY DEF Time, TokenInv
  <2>3. TypeOK'
    BY <2>1, <2>2
  <2>4. TokenInv' /\ LeaseIsNewest'
    BY <2>1 DEF TokenInv, LeaseIsNewest, OnLease
  <2>5. ASSUME redis, prompt, NEW t \in Server, t # s PROVE ~OnLease(t)
    BY <1>2, <2>5 DEF Available, Entry, Time, ExclusionInv, TokenInv
  <2>6. ExclusionInv'
    <3> SUFFICES ASSUME redis, prompt, NEW t \in Server, OnLease(t)'
                 PROVE  /\ lock'.token = server'[t].token
                        /\ lock'.expires > now'
                        /\ lock'.expires >= granted'[t] + Ttl
      BY <2>1 DEF ExclusionInv
    <3>1. t = s
      BY <2>1, <2>5 DEF OnLease
    <3> QED BY <3>1, <2>1, <2>2 DEF TokenInv
  <2> QED BY <2>3, <2>4, <2>6
<1> QED BY <1>1, <1>2

\* A renewal extends the caller's own lease, and no other server is on it.
LEMMA RenewInv ==
    ASSUME IInv, NEW s \in Server, Renew(s)
    PROVE  IInv'
<1> USE LeaseLockAssumption DEF IInv, TypeOK, setting, State
<1>1. CASE ~Matches(s)
  <2>1. Goto(s, "fenced") /\ UNCHANGED <<setting, now, lock, fence, granted, asked>>
    BY <1>1 DEF Renew
  <2> QED BY <2>1, LeaveInv
<1>2. CASE Matches(s)
  <2>1. /\ server[s].at = "renewing"
        /\ lock' = [lock EXCEPT !.expires = Time(s) + Ttl]
        /\ granted' = [granted EXCEPT ![s] = asked[s]]
        /\ server' = [server EXCEPT ![s].at = "renewed"]
        /\ now' = now /\ fence' = fence /\ asked' = asked /\ setting' = setting
    BY <1>2 DEF Renew, Goto, Extended
  <2>2. Time(s) \in 0 .. MaxTime /\ Time(s) <= now /\ (redis => Time(s) = now)
    BY DEF Time, TokenInv
  <2>3. lock.token = server[s].token /\ lock.token # 0
    BY <1>2 DEF Matches, Entry, Free
  <2>4. TypeOK'
    BY <2>1, <2>2
  <2>5. TokenInv' /\ LeaseIsNewest'
    BY <2>1, <2>3 DEF TokenInv, LeaseIsNewest, OnLease
  <2>6. ASSUME redis, prompt, NEW t \in Server, t # s PROVE ~OnLease(t)
    BY <2>3, <2>6 DEF LeaseIsNewest, ExclusionInv
  <2>7. ExclusionInv'
    <3> SUFFICES ASSUME redis, prompt, NEW t \in Server, OnLease(t)'
                 PROVE  /\ lock'.token = server'[t].token
                        /\ lock'.expires > now'
                        /\ lock'.expires >= granted'[t] + Ttl
      BY <2>1 DEF ExclusionInv
    <3>1. t = s
      BY <2>1, <2>6 DEF OnLease
    <3> QED BY <3>1, <2>1, <2>2, <2>3 DEF TokenInv
  <2> QED BY <2>4, <2>5, <2>7
<1> QED BY <1>1, <1>2

\* A release removes the caller's own lease or nothing.
LEMMA ReleaseInv ==
    ASSUME IInv, NEW s \in Server, Release(s)
    PROVE  IInv'
<1> USE LeaseLockAssumption DEF IInv, TypeOK, setting, State
<1>1. /\ server[s].at \in {"ending", "stopping"}
      /\ lock' = lock \/ (Matches(s) /\ lock' = Free)
      /\ server' = [server EXCEPT ![s] =
             [at |-> IF server[s].at = "ending" THEN "standby" ELSE "stopped", token |-> 0]]
      /\ UNCHANGED <<setting, now, fence, asked, granted>>
  BY DEF Release, Freed
<1>2. TypeOK' /\ TokenInv' /\ LeaseIsNewest'
  BY <1>1 DEF TokenInv, LeaseIsNewest, OnLease, Free
<1>3. ExclusionInv'
  <2> SUFFICES ASSUME redis, prompt, NEW t \in Server, OnLease(t)'
               PROVE  /\ lock'.token = server'[t].token
                      /\ lock'.expires > now'
                      /\ lock'.expires >= granted'[t] + Ttl
    BY <1>1 DEF ExclusionInv
  <2>1. t # s /\ OnLease(t) /\ server'[t] = server[t]
    BY <1>1 DEF OnLease
  <2>2. lock.token = server[t].token /\ server[t].token # 0
    BY <2>1 DEF ExclusionInv, TokenInv
  <2>3. ~Matches(s)
    BY <2>1, <2>2 DEF Matches, Entry, Free, LeaseIsNewest
  <2> QED BY <1>1, <2>1, <2>3 DEF ExclusionInv
<1> QED BY <1>2, <1>3

\* Time passes only while every lease that is worked under lasts.
LEMMA TickInv ==
    ASSUME IInv, Tick
    PROVE  IInv'
<1> USE LeaseLockAssumption DEF IInv, TypeOK, setting, State
<1>1. /\ now' = now + 1 /\ now < MaxTime
      /\ UNCHANGED <<setting, lock, fence, server, asked, granted>>
      /\ prompt => \A s \in Server : OnLease(s) => now + 1 < granted[s] + Ttl
  BY DEF Tick
<1>2. TypeOK' /\ TokenInv' /\ LeaseIsNewest'
  BY <1>1 DEF TokenInv, LeaseIsNewest, OnLease
<1>3. ExclusionInv'
  BY <1>1 DEF ExclusionInv, OnLease
<1> QED BY <1>2, <1>3

\* The reaper removes a lease nobody works under.
LEMMA SweepInv ==
    ASSUME IInv, Sweep
    PROVE  IInv'
BY LeaseLockAssumption
   DEF setting, Sweep, IInv, TypeOK, State, TokenInv, LeaseIsNewest, ExclusionInv, OnLease, Free

\* The remaining steps of a server leave the backend alone.
LEMMA LocalInv ==
    ASSUME IInv, NEW s \in Server,
           \/ AskAcquire(s) \/ Elect(s) \/ AskRenew(s) \/ Renewed(s)
           \/ EndTerm(s) \/ Stop(s)
    PROVE  IInv'
<1>1. CASE AskAcquire(s)
  BY <1>1, LeaveInv DEF AskAcquire, State
<1>2. CASE Elect(s)
  BY <1>2, LeaveInv DEF Elect, State, OnLease
<1>3. CASE AskRenew(s)
  BY <1>3, LeaveInv DEF AskRenew, State
<1>4. CASE Renewed(s)
  BY <1>4, LeaveInv DEF Renewed, State, OnLease
<1>5. CASE EndTerm(s)
  <2>1. PICK at \in {"ending", "stopping"} : Goto(s, at)
    BY <1>5 DEF EndTerm
  <2>2. at \in State /\ at \notin {"elected", "working", "renewed"}
    BY DEF State
  <2> QED BY <1>5, <2>1, <2>2, LeaveInv DEF EndTerm
<1>6. CASE Stop(s)
  <2>1. /\ server' = [server EXCEPT ![s] = [at |-> "stopped", token |-> 0]]
        /\ UNCHANGED <<setting, now, lock, fence, asked, granted>>
    BY <1>6 DEF Stop
  <2>2. /\ server' \in [Server -> [at : State, token : 0 .. MaxToken]]
        /\ \A t \in Server : server'[t].token \in {0, server[t].token}
    BY <2>1, LeaseLockAssumption DEF IInv, TypeOK, State
  <2>3. \A t \in Server : OnLease(t)' => OnLease(t) /\ server'[t].token = server[t].token
    BY <2>1 DEF IInv, TypeOK, OnLease
  <2>4. asked' \in [Server -> 0 .. MaxTime] /\ \A t \in Server : asked'[t] <= now
    BY <2>1 DEF IInv, TypeOK, TokenInv
  <2> QED BY <2>1, <2>2, <2>3, <2>4, QuietInv
<1> QED BY <1>1, <1>2, <1>3, <1>4, <1>5, <1>6

\* Every step preserves the invariant.
LEMMA StepInv == IInv /\ [Next]_vars => IInv'
<1> SUFFICES ASSUME IInv, [Next]_vars PROVE IInv'
  OBVIOUS
<1>1. ASSUME NEW s \in Server, ServerStep(s) \/ Stop(s) PROVE IInv'
  BY <1>1, TryAcquireInv, RenewInv, ReleaseInv, LocalInv DEF ServerStep
<1>2. CASE UNCHANGED vars
  BY <1>2 DEF vars, setting, IInv, TypeOK, TokenInv, LeaseIsNewest, ExclusionInv, OnLease
<1> QED BY <1>1, <1>2, TickInv, SweepInv DEF Next

\* The invariant holds in every reachable state.
THEOREM Invariance == Spec => []IInv
BY InitInv, StepInv, PTL DEF Spec

\* Every variable keeps its type.
THEOREM TypeCorrect == Spec => []TypeOK
<1>1. IInv => TypeOK
  BY DEF IInv
<1> QED BY <1>1, Invariance, PTL

\* Fencing tokens tell holders apart and the lease has the newest one.
THEOREM LeaseIsNewestHolds == Spec => []LeaseIsNewest
<1>1. IInv => LeaseIsNewest
  BY DEF IInv
<1> QED BY <1>1, Invariance, PTL

\* With Redis, servers whose renewals are in time never work two at a time.
THEOREM OneWorkerHolds == Spec => []OneWorker
<1>1. IInv => OneWorker
  BY DEF IInv, ExclusionInv, LeaseIsNewest, TokenInv, OneWorker, OnLease
<1> QED BY <1>1, Invariance, PTL

\* A lease that is not over is replaced or removed by its own holder only.
THEOREM LiveLeaseKeptHolds == Spec => LiveLeaseKept
<1>1. ASSUME IInv, [Next]_vars
      PROVE  [lock.token # 0 /\ lock.expires > now /\ lock' # lock
                => \E s \in Server : server[s].token = lock.token /\ server'[s] # server[s]]_vars
  <2> SUFFICES ASSUME Next, lock.token # 0, lock.expires > now, lock' # lock
               PROVE  \E s \in Server : server[s].token = lock.token /\ server'[s] # server[s]
    BY <1>1
  <2> USE <1>1 DEF IInv, TypeOK
  <2>1. Entry = lock
    BY DEF Entry
  <2>2. ASSUME NEW s \in Server, TryAcquire(s) PROVE FALSE
    <3>1. Time(s) <= now
      BY DEF Time, TokenInv
    <3>2. ~Available(s)
      BY <2>1, <3>1 DEF Available, Time
    <3> QED BY <2>2, <3>2 DEF TryAcquire
  <2>3. ASSUME NEW s \in Server, Renew(s) \/ Release(s)
        PROVE  server[s].token = lock.token /\ server'[s] # server[s]
    <3>1. Matches(s)
      BY <2>3 DEF Renew, Release, Freed
    <3>2. server[s].token = lock.token
      BY <2>1, <3>1 DEF Matches
    <3>3. CASE Renew(s)
      <4>1. server[s].at = "renewing" /\ Goto(s, "renewed")
        BY <3>1, <3>3 DEF Renew
      <4>2. server'[s].at = "renewed"
        BY <4>1, GotoFacts DEF State
      <4> QED BY <3>2, <4>1, <4>2
    <3>4. CASE Release(s)
      <4>1. server[s].at \in {"ending", "stopping"} /\ server'[s].at \in {"standby", "stopped"}
        BY <3>4 DEF Release
      <4> QED BY <3>2, <4>1
    <3> QED BY <2>3, <3>3, <3>4
  <2>4. \E s \in Server : TryAcquire(s) \/ Renew(s) \/ Release(s)
    BY DEF Next, ServerStep, AskAcquire, Elect, AskRenew, Renewed, EndTerm, Stop, Sweep, Tick
  <2> QED BY <2>2, <2>3, <2>4
<1> QED BY <1>1, Invariance, PTL DEF Spec, LiveLeaseKept

=============================================================================
