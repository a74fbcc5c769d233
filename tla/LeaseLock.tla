----------------------------- MODULE LeaseLock -----------------------------
(***************************************************************************)
(* The lease lock of raisin-locks under LeaseElection: servers stand for   *)
(* one key, the elected one runs its work and renews, and the backend is   *)
(* either the in-process map (inprocess.rs) or Redis (redis_backend.rs).   *)
(*                                                                         *)
(* A request is decided by the backend in one step (a map entry lock, a    *)
(* Lua script); its reply is another step of the caller, and may be lost.  *)
(* The in-process backend reads the time before it takes the entry lock.   *)
(* Time passes in units between any two steps: a server may be paused for  *)
(* longer than its lease, unless prompt says that renewals are in time.    *)
(***************************************************************************)
EXTENDS Integers, FiniteSets

CONSTANTS
    Server,
    Ttl,            \* the lease, in units of time
    MaxTime,        \* bound: units of time
    MaxToken        \* bound: leases granted

ASSUME LeaseLockAssumption ==
    /\ Ttl \in Nat \ {0}
    /\ MaxTime \in Nat
    /\ MaxToken \in Nat

VARIABLES
    redis,          \* the backend: Redis, or the in-process map; never changes
    prompt,         \* whether no server works past the lease it was last granted
                    \*   and no answer takes that long; never changes
    now,
    lock,           \* the entry of the key; token 0: no entry
    fence,          \* the counter of fencing tokens
    server,         \* where each server is in LeaseElection::run
    asked,          \* the time an in-process request read
    granted         \* when the last acquire or renew of the server began

setting == <<redis, prompt>>

vars == <<setting, now, lock, fence, server, asked, granted>>

Free == [token |-> 0, expires |-> 0]

State == {"standby", "acquiring", "elected", "working", "renewing", "renewed",
          "fenced", "ending", "stopping", "stopped"}

TypeOK ==
    /\ redis \in BOOLEAN /\ prompt \in BOOLEAN
    /\ now \in 0 .. MaxTime
    /\ lock \in [token : 0 .. MaxToken, expires : 0 .. MaxTime + Ttl]
    /\ fence \in 0 .. MaxToken
    /\ server \in [Server -> [at : State, token : 0 .. MaxToken]]
    /\ asked \in [Server -> 0 .. MaxTime]
    /\ granted \in [Server -> 0 .. MaxTime]

Init ==
    /\ redis \in BOOLEAN /\ prompt \in BOOLEAN
    /\ now = 0
    /\ lock = Free
    /\ fence = 0
    /\ server = [s \in Server |-> [at |-> "standby", token |-> 0]]
    /\ asked = [s \in Server |-> 0]
    /\ granted = [s \in Server |-> 0]

Goto(s, at) == server' = [server EXCEPT ![s].at = at]

-----------------------------------------------------------------------------
(* The backend. *)

\* An expired entry no longer exists for Redis; in process it stays until an
\* acquire or the reaper removes it.
Entry == IF redis /\ lock.expires <= now THEN Free ELSE lock

\* The time a request of `s` decides by.
Time(s) == IF redis THEN now ELSE asked[s]

\* Mutant of Available: the lease of the holder is not looked at.
AlwaysAvailable(s) == TRUE

\* try_acquire: no entry, or one whose lease is over.
Available(s) == Entry.token = 0 \/ Entry.expires <= Time(s)

\* release and renew act on the holder's own lease only.
Matches(s) == Entry.token # 0 /\ Entry.token = server[s].token

\* What a renewal and a release that match leave of the entry.
Extended(s) == [lock EXCEPT !.expires = Time(s) + Ttl]
Freed(s) == IF Matches(s) THEN Free ELSE lock

-----------------------------------------------------------------------------
(* LeaseElection::run and hold. *)

AskAcquire(s) ==
    /\ server[s].at = "standby"
    /\ Goto(s, "acquiring")
    /\ asked' = [asked EXCEPT ![s] = now]
    /\ UNCHANGED <<setting, now, lock, fence, granted>>

\* Mutant of TryAcquire: the token counter is not advanced.
AcquireSameToken(s) ==
    /\ server[s].at = "acquiring"
    /\ Available(s)
    /\ fence' = 1 /\ MaxToken > 0
    /\ lock' = [token |-> 1, expires |-> Time(s) + Ttl]
    /\ server' = [server EXCEPT ![s] = [at |-> "elected", token |-> 1]]
    /\ granted' = [granted EXCEPT ![s] = asked[s]]
    /\ UNCHANGED <<setting, now, asked>>

TryAcquire(s) ==
    /\ server[s].at = "acquiring"
    /\ \/ /\ Available(s)
          /\ fence < MaxToken
          /\ fence' = fence + 1
          /\ lock' = [token |-> fence + 1, expires |-> Time(s) + Ttl]
          /\ server' = [server EXCEPT ![s] = [at |-> "elected", token |-> fence + 1]]
          /\ granted' = [granted EXCEPT ![s] = asked[s]]
       \/ /\ ~Available(s)
          /\ Goto(s, "standby")
          /\ UNCHANGED <<lock, fence, granted>>
    /\ UNCHANGED <<setting, now, asked>>

\* The guard arrives and the work starts.
Elect(s) ==
    /\ server[s].at = "elected"
    /\ Goto(s, "working")
    /\ UNCHANGED <<setting, now, lock, fence, asked, granted>>

\* The ticker fires; the work is not polled until the renewal is answered.
AskRenew(s) ==
    /\ server[s].at = "working"
    /\ Goto(s, "renewing")
    /\ asked' = [asked EXCEPT ![s] = now]
    /\ UNCHANGED <<setting, now, lock, fence, granted>>

\* renew: an in-process lease that is over and not yet taken is extended.
Renew(s) ==
    /\ server[s].at = "renewing"
    /\ \/ /\ Matches(s)
          /\ lock' = Extended(s)
          /\ granted' = [granted EXCEPT ![s] = asked[s]]
          /\ Goto(s, "renewed")
       \/ /\ ~Matches(s)
          /\ Goto(s, "fenced")
          /\ UNCHANGED <<lock, granted>>
    /\ UNCHANGED <<setting, now, fence, asked>>

\* The answer true arrives: the work is polled again.
Renewed(s) ==
    /\ server[s].at = "renewed"
    /\ Goto(s, "working")
    /\ UNCHANGED <<setting, now, lock, fence, asked, granted>>

\* The term ends: fenced, the work is done, the renewal or its answer is lost,
\* or the caller cancels.
EndTerm(s) ==
    /\ \/ server[s].at \in {"fenced", "working", "renewing", "renewed"} /\ Goto(s, "ending")
       \/ server[s].at = "working" /\ Goto(s, "stopping")
    /\ UNCHANGED <<setting, now, lock, fence, asked, granted>>

\* Mutant of Release: the token is not compared.
ReleaseAnyToken(s) ==
    /\ server[s].at \in {"ending", "stopping"}
    /\ lock' = Free
    /\ server' = [server EXCEPT ![s] =
           [at |-> IF @.at = "ending" THEN "standby" ELSE "stopped", token |-> 0]]
    /\ UNCHANGED <<setting, now, fence, asked, granted>>

\* release, whose result is ignored: it may also be lost.
Release(s) ==
    /\ server[s].at \in {"ending", "stopping"}
    /\ lock' \in {lock, Freed(s)}
    /\ server' = [server EXCEPT ![s] =
           [at |-> IF @.at = "ending" THEN "standby" ELSE "stopped", token |-> 0]]
    /\ UNCHANGED <<setting, now, fence, asked, granted>>

\* Cancelled while standing by; an acquire that fails, also one whose answer
\* is lost, ends the run with the error; and the process may die anywhere.
Stop(s) ==
    /\ server[s].at # "stopped"
    /\ server' = [server EXCEPT ![s] = [at |-> "stopped", token |-> 0]]
    /\ UNCHANGED <<setting, now, lock, fence, asked, granted>>

\* sweep_expired, of the in-process backend.
Sweep ==
    /\ ~redis
    /\ lock.token # 0
    /\ lock.expires <= now
    /\ lock' = Free
    /\ UNCHANGED <<setting, now, fence, server, asked, granted>>

\* The server works, or the answer that lets it work is under way.
OnLease(s) == server[s].at \in {"elected", "working", "renewed"}

Tick ==
    /\ now < MaxTime
    /\ prompt => \A s \in Server : OnLease(s) => now + 1 < granted[s] + Ttl
    /\ now' = now + 1
    /\ UNCHANGED <<setting, lock, fence, server, asked, granted>>

ServerStep(s) ==
    \/ AskAcquire(s) \/ TryAcquire(s) \/ Elect(s)
    \/ AskRenew(s) \/ Renew(s) \/ Renewed(s)
    \/ EndTerm(s) \/ Release(s)

Next ==
    \/ \E s \in Server : ServerStep(s) \/ Stop(s)
    \/ Sweep
    \/ Tick

Spec == Init /\ [][Next]_vars

-----------------------------------------------------------------------------
(* Properties. *)

\* Fencing tokens are "strictly increasing per manager" (LockGuard): the lease
\* of the moment carries the highest one, every other server a smaller one, so
\* that a server which lost its lease can be told by its token.
LeaseIsNewest ==
    /\ lock.token # 0 => lock.token = fence
    /\ \A s, t \in Server : s # t /\ server[s].token # 0 => server[s].token # server[t].token

\* A lease that is not over is taken from nobody: only its own holder, by its
\* token, replaces or removes it, however late the renewals and releases of
\* earlier holders arrive.
LiveLeaseKept ==
    [][lock.token # 0 /\ lock.expires > now /\ lock' # lock
         => \E s \in Server : server[s].token = lock.token /\ server'[s] # server[s]]_vars

\* "Running something on exactly one node of a cluster" (election.rs): on
\* Redis no two servers run their work at the same time, as long as none of
\* them is paused past its lease.
OneWorker ==
    redis /\ prompt =>
        \A s, t \in Server :
            server[s].at = "working" /\ server[t].at = "working" => s = t

=============================================================================
