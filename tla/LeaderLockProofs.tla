-------------------------- MODULE LeaderLockProofs --------------------------
(***************************************************************************)
(* What LeaderLock guarantees for every set of replicas and every choice   *)
(* of intervals that satisfies LockAssumption.                             *)
(***************************************************************************)
EXTENDS LeaderLock, TLAPS

\* The state of the election stays well typed: in particular the lease key
\* names a holder exactly while it has time left.
THEOREM TypeCorrect == Spec => []TypeOK
<1> USE LockAssumption
<1>1. Init => TypeOK
  <2>1. Init => late \in BOOLEAN
    BY Zenon DEF Init
  <2>2. QED
    BY <2>1, SMT DEF Init, TypeOK, Free, Commands
<1>2. TypeOK /\ [Next]_vars => TypeOK'
  <2> SUFFICES ASSUME TypeOK, [Next]_vars PROVE TypeOK'
    OBVIOUS
  <2> USE DEF TypeOK, Commands, redis, loop
  <2>1. CASE TimePasses
    <3>1. lease' \in [holder : Replicas \cup {NoHolder}, ttl : 0..Ttl]
          /\ (lease'.holder = NoHolder <=> lease'.ttl = 0)
      BY <2>1 DEF TimePasses, Free
    <3>2. timer' \in [Replicas -> Nat]
      BY <2>1 DEF TimePasses
    <3>3. delay' \in [Replicas -> 0..MaxDelay]
      BY <2>1 DEF TimePasses
    <3>4. late' \in BOOLEAN
      BY <2>1 DEF TimePasses
    <3>5. QED
      BY <2>1, <3>1, <3>2, <3>3, <3>4 DEF TimePasses
  <2>2. ASSUME NEW r \in Replicas, Step(r) PROVE TypeOK'
    <3>1. CASE Start(r)
      BY <3>1 DEF Start, Send
    <3>2. CASE TimerFires(r)
      BY <3>2 DEF TimerFires, Send
    <3>3. CASE Execute(r)
      <4>1. CASE phase[r] = "SET" /\ RedisSet(r) /\ UNCHANGED <<fence, granted>>
        BY <3>3, <4>1 DEF Execute, RedisSet, Free
      <4>2. CASE phase[r] = "RENEW" /\ RedisRenew(r) /\ UNCHANGED <<fence, granted>>
        BY <3>3, <4>2 DEF Execute, RedisRenew, Holds
      <4>3. CASE /\ phase[r] = "INCR" /\ RedisIncr(r)
                 /\ reply' = [reply EXCEPT ![r] = "ok"] /\ UNCHANGED lease
        BY <3>3, <4>3 DEF Execute, RedisIncr
      <4>4. QED
        BY <3>3, <4>1, <4>2, <4>3 DEF Execute
    <3>4. CASE FailCall(r) \/ LoseAnswer(r) \/ FailRelease(r)
      BY <3>4 DEF FailCall, LoseAnswer, FailRelease
    <3>5. CASE Acquired(r)
      BY <3>5 DEF Acquired
    <3>6. CASE NotAcquired(r) \/ Renewed(r)
      BY <3>6 DEF NotAcquired, Renewed, Reschedule, next_delay
    <3>7. CASE Elected(r)
      BY <3>7 DEF Elected, Reschedule, next_delay, set_leadership
    <3>8. CASE LostLease(r)
      BY <3>8 DEF LostLease, Reschedule, next_delay, set_leadership
    <3>9. CASE Stop(r)
      BY <3>9 DEF Stop
    <3>10. CASE ExecuteRelease(r)
      BY <3>10 DEF ExecuteRelease, RedisRelease, Holds, Free
    <3>11. CASE Stopped(r)
      BY <3>11 DEF Stopped, set_leadership
    <3>12. CASE Crash(r)
      BY <3>12 DEF Crash, set_leadership
    <3>13. QED
      BY <2>2, <3>1, <3>2, <3>3, <3>4, <3>5, <3>6, <3>7, <3>8, <3>9, <3>10,
         <3>11, <3>12 DEF Step
  <2>3. CASE UNCHANGED vars
    BY <2>3 DEF vars
  <2>4. QED
    BY <2>1, <2>2, <2>3 DEF Next
<1>3. QED
  BY <1>1, <1>2, PTL DEF Spec

-----------------------------------------------------------------------------

\* A replica never renews, shortens or deletes the lease of another one,
\* however long it has stalled and whatever Redis answered it.
THEOREM NeverDisturbsSuccessor == Spec => SuccessorUndisturbed
<1> USE LockAssumption
<1>1. TypeOK /\ [Next]_vars
        => [\A r, s \in Replicas :
              Holds(r) /\ s # r /\ Step(s) => UNCHANGED lease]_vars
  <2> SUFFICES ASSUME TypeOK, NEW r \in Replicas, NEW s \in Replicas,
                      Holds(r), s # r, Step(s)
               PROVE UNCHANGED lease
    OBVIOUS
  <2> USE DEF Holds, redis
  <2>1. ~Holds(s) /\ lease # Free
    BY DEF TypeOK, Free
  <2>2. CASE Execute(s)
    BY <2>1, <2>2 DEF Execute, RedisSet, RedisRenew
  <2>3. CASE ExecuteRelease(s)
    BY <2>1, <2>3 DEF ExecuteRelease, RedisRelease
  <2>4. CASE Start(s) \/ TimerFires(s) \/ FailCall(s) \/ LoseAnswer(s)
             \/ Acquired(s) \/ NotAcquired(s) \/ Elected(s) \/ Renewed(s)
    BY <2>4 DEF Start, TimerFires, FailCall, LoseAnswer, Acquired,
                NotAcquired, Elected, Renewed
  <2>5. CASE LostLease(s) \/ Stop(s) \/ FailRelease(s) \/ Stopped(s) \/ Crash(s)
    BY <2>5 DEF LostLease, Stop, FailRelease, Stopped, Crash
  <2>6. QED
    BY <2>2, <2>3, <2>4, <2>5 DEF Step
<1>2. QED
  BY <1>1, TypeCorrect, PTL DEF Spec, SuccessorUndisturbed

-----------------------------------------------------------------------------

\* The variables of r that ReplicaInv(r) reads.
mine(r) == <<running[r], is_leader[r], phase[r], reply[r], timer[r], delay[r],
             release[r]>>

\* A step of another replica changes nothing of r, and not the lease while it
\* is the lease of r.
LEMMA OtherReplica ==
  ASSUME TypeOK, NEW r \in Replicas, NEW s \in Replicas, r # s, Step(s)
  PROVE  /\ mine(r)' = mine(r)
         /\ Holds(r) => lease' = lease
<1> USE LockAssumption DEF TypeOK, mine, redis, loop
<1>1. Holds(r) => ~Holds(s) /\ lease # Free
  BY DEF Holds, Free
<1>2. CASE Start(s) \/ TimerFires(s)
  BY <1>2 DEF Start, TimerFires, Send
<1>3. CASE Execute(s)
  <2>1. mine(r)' = mine(r)
    BY <1>3 DEF Execute, RedisSet, RedisRenew
  <2>2. Holds(r) => lease' = lease
    BY <1>1, <1>3 DEF Execute, RedisSet, RedisRenew
  <2>3. QED
    BY <2>1, <2>2
<1>4. CASE FailCall(s) \/ LoseAnswer(s) \/ FailRelease(s) \/ Acquired(s)
  BY <1>4 DEF FailCall, LoseAnswer, FailRelease, Acquired
<1>5. CASE NotAcquired(s) \/ Elected(s) \/ Renewed(s) \/ LostLease(s)
  BY <1>5 DEF NotAcquired, Elected, Renewed, LostLease, Reschedule,
              set_leadership
<1>6. CASE Stop(s) \/ Stopped(s) \/ Crash(s)
  BY <1>6 DEF Stop, Stopped, Crash, set_leadership
<1>7. CASE ExecuteRelease(s)
  BY <1>1, <1>7 DEF ExecuteRelease, RedisRelease
<1>8. QED
  BY <1>2, <1>3, <1>4, <1>5, <1>6, <1>7 DEF Step

\* Only the clock can be late.
LEMMA LateIsKept == ASSUME NEW r \in Replicas, Step(r) PROVE late' = late
BY DEF Step, Start, TimerFires, Execute, FailCall, LoseAnswer, Acquired,
       NotAcquired, Elected, Renewed, LostLease, Stop, ExecuteRelease,
       FailRelease, Stopped, Crash

\* The budget of the lease survives the steps of its own replica.
LEMMA OwnStep ==
  ASSUME TypeOK, NEW r \in Replicas, ReplicaInv(r), Step(r)
  PROVE  ReplicaInv(r)'
<1> USE LockAssumption
        DEF TypeOK, ReplicaInv, Covered, Holds, Commands, redis, loop
<1>1. CASE Start(r)
  BY <1>1 DEF Start, Send
<1>2. CASE TimerFires(r)
  BY <1>2 DEF TimerFires, Send
<1>3. CASE Execute(r)
  <2>1. CASE phase[r] = "SET" /\ RedisSet(r) /\ UNCHANGED <<fence, granted>>
    BY <1>3, <2>1 DEF Execute, RedisSet
  <2>2. CASE phase[r] = "RENEW" /\ RedisRenew(r) /\ UNCHANGED <<fence, granted>>
    BY <1>3, <2>2 DEF Execute, RedisRenew
  <2>3. CASE /\ phase[r] = "INCR" /\ RedisIncr(r)
             /\ reply' = [reply EXCEPT ![r] = "ok"] /\ UNCHANGED lease
    BY <1>3, <2>3 DEF Execute
  <2>4. QED
    BY <1>3, <2>1, <2>2, <2>3 DEF Execute
<1>4. CASE FailCall(r)
  BY <1>4 DEF FailCall
<1>5. CASE LoseAnswer(r)
  BY <1>5 DEF LoseAnswer
<1>6. CASE Acquired(r)
  BY <1>6 DEF Acquired
<1>7. CASE NotAcquired(r)
  BY <1>7 DEF NotAcquired, Reschedule, next_delay
<1>8. CASE Elected(r)
  BY <1>8 DEF Elected, Reschedule, next_delay, set_leadership
<1>9. CASE Renewed(r)
  BY <1>9 DEF Renewed, Reschedule, next_delay
<1>10. CASE LostLease(r)
  BY <1>10 DEF LostLease, Reschedule, next_delay, set_leadership
<1>11. CASE Stop(r)
  BY <1>11 DEF Stop
<1>12. CASE ExecuteRelease(r) \/ FailRelease(r)
  BY <1>12 DEF ExecuteRelease, FailRelease
<1>13. CASE Stopped(r)
  BY <1>13 DEF Stopped, set_leadership
<1>14. CASE Crash(r)
  BY <1>14 DEF Crash, set_leadership
<1>15. QED
  BY <1>1, <1>2, <1>3, <1>4, <1>5, <1>6, <1>7, <1>8, <1>9, <1>10, <1>11,
     <1>12, <1>13, <1>14 DEF Step

\* When time passes, the lease loses no more than the budget allows for.
LEMMA TimeStep ==
  ASSUME TypeOK, NEW r \in Replicas, ReplicaInv(r), TimePasses, ~late'
  PROVE  ReplicaInv(r)'
<1> USE LockAssumption DEF TypeOK, Commands
<1>1. UNCHANGED <<running, is_leader, phase, reply, release>>
  BY DEF TimePasses
<1>2. Due(r) => delay[r] # MaxDelay
  BY Zenon DEF TimePasses
<1>3. /\ Due(r) => delay[r] < MaxDelay /\ delay'[r] = delay[r] + 1
      /\ ~Due(r) => delay'[r] = delay[r]
      /\ timer'[r] = IF timer[r] > 0 THEN timer[r] - 1 ELSE 0
  BY <1>2, SMT DEF TimePasses
<1>4. ASSUME NEW t \in Nat, t + 1 < Ttl, Covered(r, t)
      PROVE  Covered(r, t + 1)'
  BY <1>4 DEF TimePasses, Covered, Holds, Free
<1>5. CASE ~running[r]
  BY <1>1, <1>5 DEF ReplicaInv
<1>6. CASE running[r] /\ phase[r] = "SET"
  BY <1>1, <1>3, <1>4, <1>6 DEF ReplicaInv, Due
<1>7. CASE running[r] /\ phase[r] = "INCR" /\ reply[r] = "none"
  BY <1>1, <1>3, <1>4, <1>7 DEF ReplicaInv, Due
<1>8. CASE running[r] /\ phase[r] = "INCR" /\ reply[r] # "none"
  BY <1>1, <1>3, <1>4, <1>8 DEF ReplicaInv, Due
<1>9. CASE running[r] /\ phase[r] = "RENEW"
  BY <1>1, <1>3, <1>4, <1>9 DEF ReplicaInv, Due
<1>10. CASE running[r] /\ phase[r] = "sleep"
  BY <1>1, <1>3, <1>4, <1>10 DEF ReplicaInv, Due
<1>11. QED
  BY <1>5, <1>6, <1>7, <1>8, <1>9, <1>10 DEF ReplicaInv

\* Until some step has waited longer than MaxDelay, every stage of a leader's
\* cycle has used a bounded part of its lease.
THEOREM LeaseBudget == Spec => []LeaseInv
<1>1. Init => LeaseInv
  BY DEF Init, LeaseInv, ReplicaInv
<1>2. TypeOK /\ LeaseInv /\ [Next]_vars => LeaseInv'
  <2> SUFFICES ASSUME TypeOK, LeaseInv, [Next]_vars, ~late', NEW r \in Replicas
               PROVE  ReplicaInv(r)'
    BY DEF LeaseInv
  <2>1. late' = late \/ TimePasses
    BY LateIsKept DEF vars, Next
  <2>2. ReplicaInv(r)
    BY <2>1 DEF LeaseInv, TimePasses
  <2>3. CASE TimePasses
    BY <2>2, <2>3, TimeStep
  <2>4. CASE Step(r)
    BY <2>2, <2>4, OwnStep
  <2>5. ASSUME NEW s \in Replicas, s # r, Step(s) PROVE ReplicaInv(r)'
    BY <2>2, <2>5, OtherReplica DEF ReplicaInv, Covered, Holds, mine
  <2>6. CASE UNCHANGED vars
    BY <2>2, <2>6 DEF vars, ReplicaInv, Covered, Holds
  <2>7. QED
    BY <2>3, <2>4, <2>5, <2>6 DEF Next
<1>3. QED
  BY <1>1, <1>2, TypeCorrect, PTL DEF Spec

\* Until some step has waited longer than MaxDelay, a campaigning replica leads
\* only with the lease in its name.
THEOREM LeaderIsHolder == Spec => []LeaderHoldsLease
<1>1. TypeOK /\ LeaseInv => LeaderHoldsLease
  BY DEF TypeOK, LeaseInv, ReplicaInv, LeaderHoldsLease, Covered
<1>2. QED
  BY <1>1, TypeCorrect, LeaseBudget, PTL

\* Hence the market is polled by one campaigning replica at a time.
THEOREM OnePoller ==
  Spec => [](~late => \A r, s \in Replicas :
    running[r] /\ is_leader[r] /\ running[s] /\ is_leader[s] => r = s)
<1>1. LeaderHoldsLease => (~late => \A r, s \in Replicas :
        running[r] /\ is_leader[r] /\ running[s] /\ is_leader[s] => r = s)
  BY DEF LeaderHoldsLease, Holds
<1>2. QED
  BY <1>1, LeaderIsHolder, PTL

-----------------------------------------------------------------------------

\* The tokens that INCR answered, read by their loops or not yet: none is
\* beyond the counter, and no two replicas have the same one.
TokensInv ==
  /\ \A r \in Replicas : granted[r] <= fence /\ fencing_token[r] <= fence
  /\ \A r, s \in Replicas : r # s =>
       /\ granted[r] # 0 =>
            granted[r] # granted[s] /\ granted[r] # fencing_token[s]
       /\ fencing_token[r] # 0 => fencing_token[r] # fencing_token[s]

\* A step that hands out no token, and at most forgets some.
LEMMA ForgettingKeepsTokens ==
  ASSUME TypeOK, TokensInv, fence' = fence,
         \A r \in Replicas : /\ granted'[r] \in {0, granted[r]}
                             /\ fencing_token'[r] \in {0, fencing_token[r]}
  PROVE  TokensInv'
BY LockAssumption DEF TypeOK, TokensInv

\* INCR: the new value is beyond every token there is.
LEMMA IncrKeepsTokens ==
  ASSUME TypeOK, TokensInv, NEW r \in Replicas, RedisIncr(r),
         fencing_token' = fencing_token
  PROVE  TokensInv'
<1>1. /\ fence \in Nat /\ fence' = fence + 1
      /\ granted'[r] = fence + 1
      /\ \A s \in Replicas \ {r} : granted'[s] = granted[s]
  BY LockAssumption DEF RedisIncr, TypeOK
<1>2. \A s \in Replicas : /\ granted[s] \in Nat /\ fencing_token[s] \in Nat
                          /\ granted[s] # fence + 1 /\ fencing_token[s] # fence + 1
  BY <1>1 DEF TokensInv, TypeOK
<1> QED BY <1>1, <1>2 DEF TokensInv

\* The loop of r takes the token that it was granted.
LEMMA ElectionKeepsTokens ==
  ASSUME TypeOK, TokensInv, NEW r \in Replicas, Elected(r)
  PROVE  TokensInv'
<1>1. /\ fence' = fence /\ granted'[r] = 0 /\ fencing_token'[r] = granted[r]
      /\ \A s \in Replicas \ {r} : /\ granted'[s] = granted[s]
                                   /\ fencing_token'[s] = fencing_token[s]
  BY DEF Elected, set_leadership, TypeOK, redis
<1> QED BY <1>1, LockAssumption DEF TokensInv, TypeOK

\* Two replicas that hold a fencing token never hold the same one, whatever
\* stalls, fails, crashes or overlaps.
THEOREM TokensDiffer == Spec => []FencingTokensDiffer
<1>1. Init => TokensInv
  BY DEF Init, TokensInv
<1>2. TypeOK /\ TokensInv /\ [Next]_vars => TokensInv'
  <2> SUFFICES ASSUME TypeOK, TokensInv, [Next]_vars PROVE TokensInv'
    OBVIOUS
  <2> USE DEF redis, loop, TypeOK
  <2>1. CASE TimePasses \/ UNCHANGED vars
    BY <2>1, ForgettingKeepsTokens DEF TimePasses, vars
  <2>2. ASSUME NEW r \in Replicas, Step(r) PROVE TokensInv'
    <3>1. CASE Execute(r) /\ phase[r] = "INCR"
      <4>1. RedisIncr(r) /\ fencing_token' = fencing_token
        BY <3>1 DEF Execute
      <4> QED BY <4>1, IncrKeepsTokens
    <3>2. CASE Execute(r) /\ phase[r] # "INCR"
      BY <3>2, ForgettingKeepsTokens DEF Execute, RedisSet, RedisRenew
    <3>3. CASE Elected(r)
      BY <3>3, ElectionKeepsTokens
    <3>4. CASE Start(r) \/ TimerFires(r) \/ FailCall(r) \/ LoseAnswer(r)
               \/ Acquired(r) \/ NotAcquired(r) \/ Renewed(r)
      BY <3>4, ForgettingKeepsTokens
      DEF Start, TimerFires, FailCall, LoseAnswer, Acquired, NotAcquired, Renewed
    <3>5. CASE LostLease(r) \/ Stop(r) \/ ExecuteRelease(r) \/ FailRelease(r)
               \/ Stopped(r) \/ Crash(r)
      BY <3>5, ForgettingKeepsTokens
      DEF LostLease, Stop, ExecuteRelease, FailRelease, Stopped, Crash, set_leadership
    <3> QED BY <2>2, <3>1, <3>2, <3>3, <3>4, <3>5 DEF Step
  <2> QED BY <2>1, <2>2 DEF Next
<1>3. TokensInv => FencingTokensDiffer
  BY DEF TokensInv, FencingTokensDiffer
<1> QED BY <1>1, <1>2, <1>3, TypeCorrect, PTL DEF Spec

=============================================================================
