----------------------------- MODULE InstanceLock -----------------------------
(***************************************************************************)
(* The single-instance lock of the watch driver (src/core/ua_driver.c): a  *)
(* file whose mtime is a heartbeat.  ua_driver_create refuses to start     *)
(* while the file is younger than UA_LOCK_STALE_SECONDS, and otherwise     *)
(* writes it; ua_driver_tick and every progress callback write it again;   *)
(* ua_driver_destroy removes it; a crash leaves it behind.                 *)
(*                                                                         *)
(* The check and the write are two system calls, and launches may overlap  *)
(* in between.  Nothing refreshes the lock between two ticks or between    *)
(* two progress callbacks, and any time may pass there: the poll interval  *)
(* goes up to an hour, and a job may never report.  A call that fails and  *)
(* a clock that is set back are faults, counted.                           *)
(***************************************************************************)
EXTENDS Integers

CONSTANTS
  Instance,               \* launches of the program
  UA_LOCK_STALE_SECONDS,
  MaxFaults               \* bound on faults

STALE == UA_LOCK_STALE_SECONDS

ASSUME LockAssumption == STALE \in Nat \ {0} /\ MaxFaults \in Nat

NoLock == -2
Future == -1    \* an mtime later than the clock

VARIABLES
  lock,       \* the age of the lock file up to STALE, Future, or NoLock
  pc,         \* where each launch is
  waited,     \* seconds since each one's last tick or callback, up to STALE
  faults,     \* how many calls failed, and how often the clock was set back
  lapsed      \* history: a launch was let in although another one was between
              \* its check and its write, or had been silent for STALE seconds

lockVars == <<lock, pc, waited, faults, lapsed>>

LockInit == /\ lock = NoLock
            /\ pc = [i \in Instance |-> "off"]
            /\ waited = [i \in Instance |-> 0]
            /\ faults = 0
            /\ lapsed = FALSE

Go(i, from, to) == pc[i] = from /\ pc' = [pc EXCEPT ![i] = to]

(* Mutant of Touch: the mtime is written in another time zone. *)
TouchLocalTime == lock' = STALE + 1 /\ UNCHANGED faults

Fault == faults < MaxFaults /\ faults' = faults + 1

(* lock_touch: a failure to open the file is ignored. *)
Touch == \/ lock' = 0 /\ UNCHANGED faults
         \/ Fault /\ UNCHANGED lock

Restart(i) == waited' = [waited EXCEPT ![i] = 0]

-------------------------------------------------------------------------------
(* ua_driver_create *)

(* Mutants of HeldByOther: stale a second early, and never stale. *)
HeldForLess      == 0 <= lock /\ lock + 1 < STALE
HeldWhileItExists == lock # NoLock

HeldByOther == 0 <= lock /\ lock < STALE

Unnoticed(j) == \/ pc[j] = "starting"
                \/ pc[j] # "off" /\ waited[j] >= STALE

(* An lstat that fails for whatever reason is taken for no lock at all. *)
CheckLock(i) == /\ Go(i, "off", "starting")
                /\ \/ ~HeldByOther /\ UNCHANGED faults
                   \/ Fault
                /\ lapsed' = IF \E j \in Instance \ {i} : Unnoticed(j) THEN TRUE ELSE lapsed
                /\ UNCHANGED <<lock, waited>>

TakeLock(i) == /\ Go(i, "starting", "loading")
               /\ Touch
               /\ Restart(i)
               /\ UNCHANGED lapsed

Created(i) == Go(i, "loading", "ready") /\ UNCHANGED <<lock, waited, faults, lapsed>>

(* ua_status_open fails: the lock is left as it is. *)
NotCreated(i) == Go(i, "loading", "off") /\ UNCHANGED <<lock, waited, faults, lapsed>>

-------------------------------------------------------------------------------
(* ua_driver_run: a tick, a job when one is found, a sleep when none is. *)

(* Mutant of Tick: only progress refreshes the lock. *)
TickWithoutTouch(i) == /\ Go(i, "ready", "scan") \/ Go(i, "sleep", "scan")
                       /\ Restart(i)
                       /\ UNCHANGED <<lock, faults, lapsed>>

Tick(i) == /\ Go(i, "ready", "scan") \/ Go(i, "sleep", "scan")
           /\ Touch
           /\ Restart(i)
           /\ UNCHANGED lapsed

NothingFound(i) == Go(i, "scan", "sleep") /\ UNCHANGED <<lock, waited, faults, lapsed>>
JobFound(i)     == Go(i, "scan", "job") /\ UNCHANGED <<lock, waited, faults, lapsed>>
JobDone(i)      == Go(i, "job", "ready") /\ UNCHANGED <<lock, waited, faults, lapsed>>

(* on_progress.  It is only called when progress_percent_step is not 0,    *)
(* and then when the percentage has grown by that much.                    *)
Progress(i) == /\ pc[i] = "job"
               /\ Touch
               /\ Restart(i)
               /\ UNCHANGED <<pc, lapsed>>

(* The stop flag is seen between two ticks; ua_driver_destroy unlinks the  *)
(* lock, whoever wrote it last.                                            *)
Destroy(i) == /\ Go(i, "ready", "off") \/ Go(i, "sleep", "off")
              /\ \/ lock' = NoLock /\ UNCHANGED faults
                 \/ Fault /\ UNCHANGED lock
              /\ UNCHANGED <<waited, lapsed>>

Crash(i) == /\ pc[i] # "off"
            /\ pc' = [pc EXCEPT ![i] = "off"]
            /\ UNCHANGED <<lock, waited, faults, lapsed>>

-------------------------------------------------------------------------------
(* The clock, and how it is read. *)

Running(i) == pc[i] \in {"ready", "scan", "job", "sleep"}
Older(age) == IF 0 <= age /\ age < STALE THEN age + 1 ELSE age

Second == /\ lock' \in IF lock = Future THEN {Future, 0} ELSE {Older(lock)}
          /\ waited' = [i \in Instance |->
                          IF pc[i] = "off" THEN 0 ELSE Older(waited[i])]
          /\ UNCHANGED <<pc, faults, lapsed>>

ClockSetBack == /\ Fault
                /\ lock # NoLock
                /\ lock' = Future
                /\ UNCHANGED <<pc, waited, lapsed>>

Step(i) == \/ CheckLock(i) \/ TakeLock(i) \/ Created(i) \/ NotCreated(i)
           \/ Tick(i) \/ NothingFound(i) \/ JobFound(i) \/ Progress(i) \/ JobDone(i)
           \/ Destroy(i) \/ Crash(i)

LockNext == Second \/ ClockSetBack \/ \E i \in Instance : Step(i)

LockSpec == LockInit /\ [][LockNext]_lockVars

FairLockSpec == LockSpec /\ WF_lockVars(Second)

-------------------------------------------------------------------------------
LockTypeOK == /\ lock \in {NoLock, Future} \cup 0..STALE
              /\ pc \in [Instance -> {"off", "starting", "loading", "ready",
                                      "scan", "job", "sleep"}]
              /\ waited \in [Instance -> 0..STALE]
              /\ faults \in 0..MaxFaults
              /\ lapsed \in BOOLEAN

(* README: "Only one copy runs at a time."  What the lock does for that:   *)
(* whatever the crashes, restarts, overlaps and pauses, two launches are   *)
(* in their run loops together only if one was let in between the check    *)
(* and the write of another, or after another had not written the lock for *)
(* UA_LOCK_STALE_SECONDS, or after a fault (ua_driver_create,              *)
(* ua_driver_tick, on_progress, ua_driver_destroy).                        *)
MutualExclusion ==
  faults = 0 /\ ~lapsed => \A i, j \in Instance : Running(i) /\ Running(j) => i = j

(* README:98, "Only one copy runs at a time ... the second copy exits      *)
(* instead of racing the first": without a condition.                      *)
(* It fails (README.md, disagreement 5).                                   *)
OnlyOneCopyRuns == \A i, j \in Instance : Running(i) /\ Running(j) => i = j

(* ua_driver.c:57-60: from its first tick to its last, through jobs and    *)
(* sleeps, a running driver that has come to a tick or a callback within   *)
(* the limit is seen by every launch: no other one has removed or outdated *)
(* its lock, unless two were let in together.                              *)
OwnerIsFresh ==
  faults = 0 /\ ~lapsed =>
    \A i \in Instance : Running(i) /\ waited[i] < STALE => HeldByOther

(* ua_driver.c:58-59: "a stale one is left by a crash or a reboot and gets *)
(* taken over".  Once nobody runs any more the lock cannot keep everybody  *)
(* out for good, not even when it could not be removed or was written      *)
(* before the clock was set back (lock_held_by_other).                     *)
AbandonedLockExpires ==
  <>[](\A i \in Instance : pc[i] = "off") => <>[]~HeldByOther
===============================================================================
