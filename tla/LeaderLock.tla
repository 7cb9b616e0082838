----------------------------- MODULE LeaderLock -----------------------------
(***************************************************************************)
(* The Redis lease that elects one market poller among the API replicas    *)
(* (platform/leader_lock.ts).                                              *)
(*                                                                         *)
(* Time is discrete and relative: the lease carries the time it has left,  *)
(* as Redis keeps it, and each replica's timer the time until it is due,   *)
(* so the state space is finite without a bound on the clock.  A call to   *)
(* Redis takes three steps: it is sent, Redis executes it, the promise     *)
(* settles.  Other replicas, the clock and stop() run in between.          *)
(*                                                                         *)
(* A replica is one process with one token.  A restarted process has a new *)
(* token: it is another member of Replicas, not started yet.               *)
(***************************************************************************)
EXTENDS Integers

CONSTANTS
  Replicas,        \* the processes, each identified by its token
  NoHolder,        \* "no key in Redis"
  Ttl,             \* ttl_ms
  RenewInterval,   \* renew_interval_ms
  RetryInterval,   \* retry_interval_ms
  MaxDelay,        \* longest wait of a due step while nothing stalls
  MaxFailures,     \* bound: Redis calls that fail
  MaxFence         \* bound: fencing tokens handed out

\* The constructor refuses RenewInterval >= Ttl.  MaxDelay is no parameter of
\* the code: it is what "comfortably below" must leave room for.
ASSUME LockAssumption ==
  /\ NoHolder \notin Replicas
  /\ Ttl \in Nat /\ RenewInterval \in Nat /\ RetryInterval \in Nat
  /\ MaxDelay \in Nat /\ MaxFailures \in Nat /\ MaxFence \in Nat
  /\ 0 < RenewInterval /\ RenewInterval < Ttl /\ 0 < RetryInterval
  /\ RenewInterval + 6 * MaxDelay < Ttl

VARIABLES
  lease,          \* the lease key in Redis: its value and the time it has left
  fence,          \* the counter <key>:fence in Redis
  running,        \* #running of each replica
  is_leader,      \* #is_leader
  fencing_token,  \* #fencing_token, 0 for null
  phase,          \* where the campaign loop of the replica stands
  reply,          \* what Redis answered to the loop's outstanding command
  granted,        \* the value INCR answered, until the loop reads it
  timer,          \* time until the armed timer is due
  delay,          \* how long the loop's due step has been waiting
  release,        \* the RELEASE_SCRIPT call of stop()
  failures,       \* Redis calls that have failed so far
  late            \* history: some due step has waited longer than MaxDelay

redis == <<lease, fence>>
loop  == <<phase, reply, granted, timer, delay>>
vars  == <<lease, fence, running, is_leader, fencing_token, phase, reply,
           granted, timer, delay, release, failures, late>>

Commands == {"SET", "INCR", "RENEW"}

TypeOK ==
  /\ lease \in [holder : Replicas \cup {NoHolder}, ttl : 0..Ttl]
  /\ lease.holder = NoHolder <=> lease.ttl = 0
  /\ fence \in 0..MaxFence
  /\ running \in [Replicas -> BOOLEAN]
  /\ is_leader \in [Replicas -> BOOLEAN]
  /\ fencing_token \in [Replicas -> Nat]
  /\ phase \in [Replicas -> Commands \cup {"new", "sleep", "ended"}]
  /\ reply \in [Replicas -> {"none", "ok", "no", "error"}]
  /\ granted \in [Replicas -> Nat]
  /\ timer \in [Replicas -> Nat]
  /\ delay \in [Replicas -> 0..MaxDelay]
  /\ release \in [Replicas -> {"none", "sent", "answered", "done"}]
  /\ failures \in 0..MaxFailures
  /\ late \in BOOLEAN

Free == [holder |-> NoHolder, ttl |-> 0]

Init ==
  /\ lease = Free
  /\ fence = 0
  /\ running = [r \in Replicas |-> FALSE]
  /\ is_leader = [r \in Replicas |-> FALSE]
  /\ fencing_token = [r \in Replicas |-> 0]
  /\ phase = [r \in Replicas |-> "new"]
  /\ reply = [r \in Replicas |-> "none"]
  /\ granted = [r \in Replicas |-> 0]
  /\ timer = [r \in Replicas |-> 0]
  /\ delay = [r \in Replicas |-> 0]
  /\ release = [r \in Replicas |-> "none"]
  /\ failures = 0
  /\ late = FALSE

-----------------------------------------------------------------------------
(* Redis: the commands on the lease key and on the fencing counter.        *)
(* Operators named X_... are faulty variants of X: the bugs that the       *)
(* properties are known to exclude.                                        *)

Holds(r) == lease.holder = r

\* SET key token NX PX ttl.
RedisSet(r) ==
  IF lease = Free
  THEN /\ lease' = [holder |-> r, ttl |-> Ttl]
       /\ reply' = [reply EXCEPT ![r] = "ok"]
  ELSE /\ reply' = [reply EXCEPT ![r] = "no"]
       /\ UNCHANGED lease

\* RENEW_SCRIPT: PEXPIRE only when the key still holds our token.
RedisRenew(r) ==
  IF Holds(r)
  THEN /\ lease' = [lease EXCEPT !.ttl = Ttl]
       /\ reply' = [reply EXCEPT ![r] = "ok"]
  ELSE /\ reply' = [reply EXCEPT ![r] = "no"]
       /\ UNCHANGED lease

RedisRelease_BareDel(r) == lease' = Free
RedisRelease_Blank(r) ==
  lease' = IF Holds(r) THEN [lease EXCEPT !.holder = NoHolder] ELSE lease

\* RELEASE_SCRIPT: DEL only when the key still holds our token.
RedisRelease(r) == lease' = IF Holds(r) THEN Free ELSE lease

RedisIncr_NotStored(r) ==
  /\ fence < MaxFence
  /\ fence' = fence
  /\ granted' = [granted EXCEPT ![r] = fence + 1]

\* INCR <key>:fence.
RedisIncr(r) ==
  /\ fence < MaxFence
  /\ fence' = fence + 1
  /\ granted' = [granted EXCEPT ![r] = fence + 1]

\* Redis executes the command the loop of r is waiting for.
Execute(r) ==
  /\ phase[r] \in Commands /\ reply[r] = "none"
  /\ delay' = [delay EXCEPT ![r] = 0]
  /\ \/ /\ phase[r] = "SET"
        /\ RedisSet(r)
        /\ UNCHANGED <<fence, granted>>
     \/ /\ phase[r] = "RENEW"
        /\ RedisRenew(r)
        /\ UNCHANGED <<fence, granted>>
     \/ /\ phase[r] = "INCR"
        /\ RedisIncr(r)
        /\ reply' = [reply EXCEPT ![r] = "ok"]
        /\ UNCHANGED lease
  /\ UNCHANGED <<running, is_leader, fencing_token, phase, timer, release,
                 failures, late>>

\* The call rejects: it never reached Redis, or it was executed and the
\* connection broke before the answer.
FailCall(r) ==
  /\ phase[r] \in Commands /\ reply[r] = "none"
  /\ failures < MaxFailures
  /\ failures' = failures + 1
  /\ reply' = [reply EXCEPT ![r] = "error"]
  /\ delay' = [delay EXCEPT ![r] = 0]
  /\ UNCHANGED <<redis, running, is_leader, fencing_token, phase, granted,
                 timer, release, late>>

LoseAnswer(r) ==
  /\ phase[r] \in Commands /\ reply[r] \in {"ok", "no"}
  /\ failures < MaxFailures
  /\ failures' = failures + 1
  /\ reply' = [reply EXCEPT ![r] = "error"]
  /\ granted' = [granted EXCEPT ![r] = 0]
  /\ UNCHANGED <<redis, running, is_leader, fencing_token, phase, timer,
                 delay, release, late>>

-----------------------------------------------------------------------------
(* The campaign loop: #tick.                                               *)

next_delay_AlwaysRetry(won) == RetryInterval

\* A tick that won or kept the lease comes back to renew it, any other to
\* try for it.
next_delay(won) == IF won THEN RenewInterval ELSE RetryInterval

\* A tick sends RENEW as leader, SET otherwise, and waits.
Send(r) ==
  /\ phase' = [phase EXCEPT ![r] = IF is_leader[r] THEN "RENEW" ELSE "SET"]
  /\ reply' = [reply EXCEPT ![r] = "none"]
  /\ timer' = [timer EXCEPT ![r] = 0]
  /\ delay' = [delay EXCEPT ![r] = 0]

\* The end of a tick: re-arm the timer, unless stop() came in the meantime.
Reschedule(r, won) ==
  /\ phase' = [phase EXCEPT ![r] = IF running[r] THEN "sleep" ELSE "ended"]
  /\ timer' = [timer EXCEPT ![r] = IF running[r] THEN next_delay(won) ELSE 0]
  /\ reply' = [reply EXCEPT ![r] = "none"]
  /\ delay' = [delay EXCEPT ![r] = 0]

set_leadership(r, leads, token) ==
  /\ is_leader' = [is_leader EXCEPT ![r] = leads]
  /\ fencing_token' = [fencing_token EXCEPT ![r] = token]

Start(r) ==
  /\ phase[r] = "new"
  /\ running' = [running EXCEPT ![r] = TRUE]
  /\ Send(r)
  /\ UNCHANGED <<redis, is_leader, fencing_token, granted, release, failures, late>>

TimerFires(r) ==
  /\ phase[r] = "sleep" /\ timer[r] = 0
  /\ Send(r)
  /\ UNCHANGED <<redis, running, is_leader, fencing_token, granted, release,
                 failures, late>>

\* SET answered OK: the tick goes on to INCR without looking at #running.
Acquired(r) ==
  /\ phase[r] = "SET" /\ reply[r] = "ok"
  /\ phase' = [phase EXCEPT ![r] = "INCR"]
  /\ reply' = [reply EXCEPT ![r] = "none"]
  /\ delay' = [delay EXCEPT ![r] = 0]
  /\ UNCHANGED <<redis, running, is_leader, fencing_token, granted, timer,
                 release, failures, late>>

NotAcquired_GivesUp(r) ==
  /\ phase[r] = "SET" /\ reply[r] = "no"
  /\ phase' = [phase EXCEPT ![r] = "ended"]
  /\ UNCHANGED <<redis, running, is_leader, fencing_token, reply, granted,
                 timer, delay, release, failures, late>>

NotAcquired(r) ==
  /\ phase[r] = "SET" /\ reply[r] = "no"
  /\ Reschedule(r, FALSE)
  /\ UNCHANGED <<redis, running, is_leader, fencing_token, granted, release,
                 failures, late>>

Elected(r) ==
  /\ phase[r] = "INCR" /\ reply[r] = "ok"
  /\ set_leadership(r, TRUE, granted[r])
  /\ granted' = [granted EXCEPT ![r] = 0]
  /\ Reschedule(r, TRUE)
  /\ UNCHANGED <<redis, running, release, failures, late>>

Renewed(r) ==
  /\ phase[r] = "RENEW" /\ reply[r] = "ok"
  /\ Reschedule(r, TRUE)
  /\ UNCHANGED <<redis, running, is_leader, fencing_token, granted, release,
                 failures, late>>

\* The lease is someone else's, or the call rejected: a leader steps down.
LostLease(r) ==
  /\ \/ phase[r] = "RENEW" /\ reply[r] = "no"
     \/ phase[r] \in Commands /\ reply[r] = "error"
  /\ set_leadership(r, FALSE, 0)
  /\ Reschedule(r, FALSE)
  /\ UNCHANGED <<redis, running, granted, release, failures, late>>

-----------------------------------------------------------------------------
(* stop(), process death and time.                                         *)

\* stop() clears the timer.  It sends RELEASE only as leader, and it does not
\* wait for a tick that is waiting for Redis.
Stop(r) ==
  /\ running[r]
  /\ running' = [running EXCEPT ![r] = FALSE]
  /\ phase' = [phase EXCEPT ![r] = IF @ = "sleep" THEN "ended" ELSE @]
  /\ timer' = [timer EXCEPT ![r] = 0]
  /\ release' = [release EXCEPT ![r] = IF is_leader[r] THEN "sent" ELSE "done"]
  /\ UNCHANGED <<redis, is_leader, fencing_token, reply, granted, delay,
                 failures, late>>

\* One connection executes its commands in order: RELEASE comes after the
\* command an unfinished tick has sent before it.
ExecuteRelease(r) ==
  /\ release[r] = "sent"
  /\ ~(phase[r] \in Commands /\ reply[r] = "none")
  /\ RedisRelease(r)
  /\ release' = [release EXCEPT ![r] = "answered"]
  /\ UNCHANGED <<fence, running, is_leader, fencing_token, loop, failures, late>>

FailRelease(r) ==
  /\ release[r] = "sent"
  /\ failures < MaxFailures
  /\ failures' = failures + 1
  /\ release' = [release EXCEPT ![r] = "answered"]
  /\ UNCHANGED <<redis, running, is_leader, fencing_token, loop, late>>

Stopped(r) ==
  /\ release[r] = "answered"
  /\ release' = [release EXCEPT ![r] = "done"]
  /\ set_leadership(r, FALSE, 0)
  /\ UNCHANGED <<redis, running, loop, failures, late>>

Crash(r) ==
  /\ phase[r] # "new"
  /\ running' = [running EXCEPT ![r] = FALSE]
  /\ set_leadership(r, FALSE, 0)
  /\ phase' = [phase EXCEPT ![r] = "ended"]
  /\ reply' = [reply EXCEPT ![r] = "none"]
  /\ granted' = [granted EXCEPT ![r] = 0]
  /\ timer' = [timer EXCEPT ![r] = 0]
  /\ delay' = [delay EXCEPT ![r] = 0]
  /\ release' = [release EXCEPT ![r] = "none"]
  /\ UNCHANGED <<redis, failures, late>>

\* The loop of r could take its next step now.
Due(r) ==
  \/ phase[r] \in Commands
  \/ phase[r] = "sleep" /\ timer[r] = 0

\* Nothing bounds how long a due step waits: the event loop or the network may
\* stall.  The delay is counted up to MaxDelay, and late remembers that it went
\* on after that.
TimePasses ==
  /\ lease' = IF lease.ttl > 1 THEN [lease EXCEPT !.ttl = @ - 1] ELSE Free
  /\ timer' = [r \in Replicas |-> IF timer[r] > 0 THEN timer[r] - 1 ELSE 0]
  /\ delay' = [r \in Replicas |-> IF Due(r) /\ delay[r] < MaxDelay
                                  THEN delay[r] + 1 ELSE delay[r]]
  /\ late' = (late \/ \E r \in Replicas : Due(r) /\ delay[r] = MaxDelay)
  /\ UNCHANGED <<fence, running, is_leader, fencing_token, phase, reply,
                 granted, release, failures>>

Step(r) ==
  \/ Start(r) \/ TimerFires(r)
  \/ Execute(r) \/ FailCall(r) \/ LoseAnswer(r)
  \/ Acquired(r) \/ NotAcquired(r) \/ Elected(r) \/ Renewed(r) \/ LostLease(r)
  \/ Stop(r) \/ ExecuteRelease(r) \/ FailRelease(r) \/ Stopped(r) \/ Crash(r)

Next == TimePasses \/ \E r \in Replicas : Step(r)

Spec == Init /\ [][Next]_vars

\* Time advances, armed timers fire, Redis answers and promises settle: what
\* the event loop and a reachable Redis give.  Nothing forces a start, a stop,
\* a crash or a failure.
Fairness ==
  /\ WF_vars(TimePasses)
  /\ \A r \in Replicas :
       /\ WF_vars(TimerFires(r)) /\ WF_vars(Execute(r))
       /\ WF_vars(Acquired(r) \/ NotAcquired(r) \/ Elected(r)
                  \/ Renewed(r) \/ LostLease(r))
       /\ WF_vars(ExecuteRelease(r)) /\ WF_vars(Stopped(r))

FairSpec == Spec /\ Fairness

-----------------------------------------------------------------------------
(* What the election promises.                                             *)

\* "A single leader-elected worker": until some step has waited longer than
\* MaxDelay, a campaigning replica that believes it leads is the one the lease
\* names, so two replicas never believe it at once, whatever fails, crashes or
\* stops.
LeaderHoldsLease ==
  ~late => \A r \in Replicas : running[r] /\ is_leader[r] => Holds(r)

\* The lease of r has been running for at most t.
Covered(r, t) == Holds(r) /\ lease.ttl + t >= Ttl

\* Why that is so: from the moment SET or RENEW ran, every step of the loop
\* has used at most MaxDelay of the lease, and the timer RenewInterval.
ReplicaInv(r) ==
  /\ phase[r] = "new" =>
       ~running[r] /\ ~is_leader[r] /\ release[r] = "none"
  /\ release[r] \in {"sent", "answered"} => ~running[r]
  /\ running[r] =>
       /\ phase[r] \in Commands \cup {"sleep"}
       /\ phase[r] = "SET" /\ reply[r] = "ok" => Covered(r, delay[r])
       /\ phase[r] = "INCR" /\ reply[r] = "none" =>
            Covered(r, MaxDelay + delay[r])
       /\ phase[r] = "INCR" /\ reply[r] = "ok" =>
            Covered(r, 2 * MaxDelay + delay[r])
       /\ is_leader[r] =>
            /\ phase[r] \in {"sleep", "RENEW"}
            /\ phase[r] = "sleep" =>
                 /\ timer[r] <= RenewInterval
                 /\ timer[r] > 0 => delay[r] = 0
                 /\ Covered(r, 3 * MaxDelay + (RenewInterval - timer[r])
                                 + delay[r])
            /\ phase[r] = "RENEW" =>
                 /\ reply[r] # "no"
                 /\ reply[r] = "none" =>
                      Covered(r, 4 * MaxDelay + RenewInterval + delay[r])
                 /\ reply[r] = "ok" => Covered(r, delay[r])
                 /\ reply[r] = "error" =>
                      Covered(r, 5 * MaxDelay + RenewInterval + delay[r])

LeaseInv == ~late => \A r \in Replicas : ReplicaInv(r)

\* "A replica can never renew or release a lease that has already been taken
\* from it": an unexpired lease leaves its holder only by running out or by
\* that holder's own release, and only its holder prolongs it.
SuccessorUndisturbed ==
  [][\A r, s \in Replicas :
       Holds(r) /\ s # r /\ Step(s) => UNCHANGED lease]_vars

\* Two replicas that hold a fencing token never hold the same one.
FencingTokensDiffer ==
  \A r, s \in Replicas :
    r # s /\ fencing_token[r] # 0 => fencing_token[r] # fencing_token[s]

\* A leader that dies, stops, stalls or loses Redis is replaced: while some
\* replica keeps campaigning, a campaigning replica leads in the end.  Runs
\* that use up the fencing tokens of the bound are left out.
SomeoneLeads ==
  [](fence < MaxFence) =>
    \A r \in Replicas :
      running[r] ~> (~running[r] \/ \E s \in Replicas : running[s] /\ is_leader[s])

\* The comment of stop(): it stops campaigning and releases the lease, so no
\* replacement "waits for a lock nobody holds".
StopReleasesLease ==
  failures = 0 => \A r \in Replicas : release[r] = "done" => ~Holds(r)

=============================================================================
