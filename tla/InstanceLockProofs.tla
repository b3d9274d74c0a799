-------------------------- MODULE InstanceLockProofs --------------------------
(***************************************************************************)
(* The lock excludes a second copy for every number of launches, every     *)
(* staleness limit and every timing, as long as there is no fault and no   *)
(* launch was let in past another one that was between its check and its   *)
(* write or had been silent for the limit.                                 *)
(***************************************************************************)
EXTENDS InstanceLock, TLAPS

(* Not only the run loops exclude each other: whole launches do, from      *)
(* their check of the lock to their end.                                   *)
OneLaunch == \A i, j \in Instance : pc[i] # "off" /\ pc[j] # "off" => i = j

(* The lock is no older than the owner's last write of it.                 *)
Heartbeat == \A i \in Instance :
               pc[i] = "loading" \/ Running(i) => 0 <= lock /\ lock <= waited[i]

LockInv == LockTypeOK /\ (faults = 0 /\ ~lapsed => OneLaunch /\ Heartbeat)

-------------------------------------------------------------------------------
(* Types *)

(* A second, the clock and every step of a launch keep ages, places and    *)
(* the count of faults in their ranges.                                    *)
LEMMA NextPreservesLockTypes ==
  ASSUME LockTypeOK, [LockNext]_lockVars
  PROVE  LockTypeOK'
<1>. USE LockAssumption DEF LockTypeOK, NoLock, Future
<1>. STALE \in Nat \ {0}
  OBVIOUS
<1>1. CASE Second
  <2>1. /\ \A a \in {NoLock, Future} \cup 0..STALE : Older(a) \in {NoLock, Future} \cup 0..STALE
        /\ \A a \in 0..STALE : Older(a) \in 0..STALE
    BY DEF Older
  <2>2. lock' \in {NoLock, Future} \cup 0..STALE
    BY <1>1, <2>1 DEF Second
  <2>3. waited' \in [Instance -> 0..STALE]
    BY <1>1, <2>1 DEF Second
  <2>. QED
    BY <1>1, <2>2, <2>3 DEF Second
<1>2. CASE ClockSetBack
  BY <1>2 DEF ClockSetBack, Fault
<1>3. ASSUME NEW i \in Instance, Step(i) PROVE LockTypeOK'
  <2>. USE DEF Go, Restart, Touch, Fault
  <2>1. CASE CheckLock(i)
    <3>1. /\ UNCHANGED <<lock, waited>> /\ pc' = [pc EXCEPT ![i] = "starting"]
          /\ faults' \in {faults, faults + 1} /\ (faults' = faults \/ faults < MaxFaults)
      BY <2>1 DEF CheckLock
    <3>2. lapsed' \in {TRUE, lapsed}
      BY <2>1, Zenon DEF CheckLock
    <3>3. lapsed' \in BOOLEAN
      BY <3>2, Zenon
    <3>. QED
      BY <3>1, <3>3
  <2>0. CASE Created(i) \/ NotCreated(i)
    BY <2>0 DEF Created, NotCreated
  <2>2. CASE TakeLock(i)
    BY <2>2 DEF TakeLock
  <2>3. CASE Tick(i)
    BY <2>3 DEF Tick
  <2>4. CASE NothingFound(i) \/ JobFound(i) \/ JobDone(i)
    BY <2>4 DEF NothingFound, JobFound, JobDone
  <2>5. CASE Progress(i)
    BY <2>5 DEF Progress
  <2>6. CASE Destroy(i)
    BY <2>6 DEF Destroy
  <2>7. CASE Crash(i)
    BY <2>7 DEF Crash
  <2>. QED
    BY <1>3, <2>0, <2>1, <2>2, <2>3, <2>4, <2>5, <2>6, <2>7 DEF Step
<1>4. CASE UNCHANGED lockVars
  BY <1>4 DEF lockVars
<1>. QED
  BY <1>1, <1>2, <1>3, <1>4 DEF LockNext

(* The initial state: nobody runs and there is no lock. *)
LEMMA InitEstablishesLockInv == LockInit => LockInv
<1>. SUFFICES ASSUME LockInit PROVE LockInv
  OBVIOUS
<1>1. lapsed \in BOOLEAN
  BY Zenon DEF LockInit
<1>2. /\ lock \in {NoLock, Future} \cup 0..STALE
      /\ pc \in [Instance -> {"off", "starting", "loading", "ready", "scan", "job", "sleep"}]
      /\ waited \in [Instance -> 0..STALE] /\ faults \in 0..MaxFaults
      /\ OneLaunch /\ Heartbeat
  BY LockAssumption DEF LockInit, OneLaunch, Heartbeat, Running
<1>. QED
  BY <1>1, <1>2 DEF LockInv, LockTypeOK

(* The type invariant holds whatever the timing, the overlaps and the      *)
(* faults: the age of the lock stays in the range that HeldByOther tests.  *)
THEOREM LockTypes == LockSpec => []LockTypeOK
<1>1. LockInit => LockTypeOK
  BY InitEstablishesLockInv DEF LockInv
<1>. QED
  BY <1>1, NextPreservesLockTypes, PTL DEF LockSpec

-------------------------------------------------------------------------------
(* Exclusion, as long as there is no fault. *)

(* One second: the lock and the owner's wait grow together.  *)
LEMMA SecondPreservesExclusion ==
  ASSUME LockTypeOK, OneLaunch, Heartbeat, Second
  PROVE  OneLaunch' /\ Heartbeat'
<1>. USE LockAssumption DEF LockTypeOK, NoLock, Future
<1>1. STALE \in Nat \ {0} /\ lock \in Int
  OBVIOUS
<1>2. OneLaunch'
  BY DEF OneLaunch, Second
<1>3. Heartbeat'
  <2>. SUFFICES ASSUME NEW i \in Instance, pc[i] = "loading" \/ Running(i)
                PROVE  0 <= lock' /\ lock' <= waited'[i]
    BY DEF Heartbeat, Second, Running
  <2>1. 0 <= lock /\ lock <= waited[i] /\ waited[i] \in 0..STALE
    BY DEF Heartbeat
  <2>2. waited'[i] = Older(waited[i]) /\ lock' = Older(lock)
    BY <1>1, <2>1 DEF Second, Running
  <2>. QED
    BY <1>1, <2>1, <2>2 DEF Older
<1>. QED
  BY <1>2, <1>3

(* A launch or a run loop: only the owner can step, because a launch that  *)
(* is let in past no other one finds the lock stale or absent, which it is *)
(* not while there is an owner that has written it within the limit.       *)
LEMMA StepPreservesExclusion ==
  ASSUME LockTypeOK, OneLaunch, Heartbeat, NEW i \in Instance, Step(i),
         faults = 0, faults' = 0, ~lapsed'
  PROVE  OneLaunch' /\ Heartbeat'
<1>. USE LockAssumption DEF LockTypeOK, NoLock, Future, Go
<1>. STALE \in Nat \ {0} /\ lock \in Int
  BY DEF STALE
<1>. DEFINE Owner(j) == pc[j] = "loading" \/ Running(j)
<1>0. ~Fault
  BY DEF Fault
<1>1. CASE CheckLock(i)
  <2>1. \A j \in Instance : pc[j] = "off"
    <3>1. \A j \in Instance : ~Owner(j)
      BY <1>0, <1>1 DEF CheckLock, Unnoticed, HeldByOther, Heartbeat, Running
    <3>2. \A j \in Instance : pc[j] # "starting"
      BY <1>1 DEF CheckLock, Unnoticed
    <3>. QED
      BY <3>1, <3>2 DEF Running
  <2>. QED
    BY <1>1, <2>1 DEF CheckLock, OneLaunch, Heartbeat, Running
<1>2. CASE TakeLock(i)
  <2>1. lock' = 0
    BY <1>2, <1>0 DEF TakeLock, Touch
  <2>. QED
    BY <1>2, <2>1 DEF TakeLock, Restart, OneLaunch, Heartbeat, Running
<1>3. CASE Tick(i)
  <2>1. lock' = 0
    BY <1>3, <1>0 DEF Tick, Touch
  <2>. QED
    BY <1>3, <2>1 DEF Tick, Restart, OneLaunch, Heartbeat, Running
<1>4. CASE Progress(i)
  <2>1. lock' = 0
    BY <1>4, <1>0 DEF Progress, Touch
  <2>. QED
    BY <1>4, <2>1 DEF Progress, Restart, OneLaunch, Heartbeat, Running
<1>5. CASE Created(i) \/ NothingFound(i) \/ JobFound(i) \/ JobDone(i)
  BY <1>5 DEF Created, NothingFound, JobFound, JobDone, OneLaunch, Heartbeat, Running
<1>6. CASE NotCreated(i) \/ Crash(i)
  BY <1>6 DEF NotCreated, Crash, OneLaunch, Heartbeat, Running
<1>7. CASE Destroy(i)
  <2>1. pc[i] # "off" /\ pc' = [pc EXCEPT ![i] = "off"]
    BY <1>7 DEF Destroy
  <2>2. \A j \in Instance : pc'[j] = "off"
    BY <2>1 DEF OneLaunch
  <2>. QED
    BY <2>2 DEF OneLaunch, Heartbeat, Running
<1>. QED
  BY <1>1, <1>2, <1>3, <1>4, <1>5, <1>6, <1>7 DEF Step

(* The invariant holds of every reachable state. *)
THEOREM LockInvariant == LockSpec => []LockInv
<1>1. LockInv /\ [LockNext]_lockVars => LockInv'
  <2>. SUFFICES ASSUME LockInv, [LockNext]_lockVars PROVE LockInv'
    OBVIOUS
  <2>1. LockTypeOK /\ LockTypeOK'
    BY NextPreservesLockTypes DEF LockInv
  <2>2. faults \in Nat /\ faults' \in Nat
    BY <2>1, LockAssumption DEF LockTypeOK
  <2>3. ASSUME faults' = 0, ~lapsed' PROVE OneLaunch' /\ Heartbeat'
    <3>0. ~lapsed
      BY <2>3
         DEF LockNext, Second, ClockSetBack, lockVars, Step, CheckLock, TakeLock, Created,
             NotCreated, Tick, NothingFound, JobFound, JobDone, Progress, Destroy, Crash
    <3>1. faults = 0 /\ ~Fault
      <4>1. ~Fault
        BY <2>2, <2>3 DEF Fault
      <4>. QED
        BY <4>1, <2>3
           DEF LockNext, Second, ClockSetBack, lockVars, Step, CheckLock, TakeLock, Created,
               NotCreated, Tick, NothingFound, JobFound, JobDone, Progress, Destroy, Crash,
               Touch
    <3>2. OneLaunch /\ Heartbeat
      BY <3>0, <3>1 DEF LockInv
    <3>3. CASE Second
      BY <2>1, <3>2, <3>3, SecondPreservesExclusion
    <3>4. CASE ClockSetBack
      BY <3>1, <3>4 DEF ClockSetBack
    <3>5. CASE \E i \in Instance : Step(i)
      BY <2>1, <2>3, <3>1, <3>2, <3>5, StepPreservesExclusion
    <3>6. CASE UNCHANGED lockVars
      BY <3>2, <3>6 DEF lockVars, OneLaunch, Heartbeat, Running
    <3>. QED
      BY <3>3, <3>4, <3>5, <3>6 DEF LockNext
  <2>. QED
    BY <2>1, <2>3 DEF LockInv
<1>. QED
  BY <1>1, InitEstablishesLockInv, PTL DEF LockSpec

(* What the lock does for the single-instance claim of the README: without *)
(* a fault, two copies run together only after one was let in past another *)
(* that was between check and write or had been silent for the limit.      *)
THEOREM LockExcludes == LockSpec => []MutualExclusion
<1>1. LockInv => MutualExclusion
  BY DEF LockInv, OneLaunch, MutualExclusion, Running
<1>. QED
  BY <1>1, LockInvariant, PTL

(* A driver that has written its lock within the limit is seen by every    *)
(* launch, whatever the others did in the meantime.                        *)
THEOREM LockStaysFresh == LockSpec => []OwnerIsFresh
<1>1. LockInv => OwnerIsFresh
  <2>. SUFFICES ASSUME LockInv, faults = 0, ~lapsed, NEW i \in Instance, Running(i),
                       waited[i] < STALE
                PROVE  HeldByOther
    BY DEF OwnerIsFresh
  <2>1. 0 <= lock /\ lock <= waited[i]
    BY DEF LockInv, Heartbeat
  <2>. QED
    BY <2>1, LockAssumption DEF HeldByOther, LockInv, LockTypeOK, NoLock, Future
<1>. QED
  BY <1>1, LockInvariant, PTL
===============================================================================
