------------------------------ MODULE WatchClaims -----------------------------
(***************************************************************************)
(* What ua_driver.h says of a batch of archives, put beside what the watch *)
(* driver does by history variables that change nothing of its behaviour.  *)
(***************************************************************************)
EXTENDS WatchDriver

VARIABLES
  watched,   \* how long the driver has had the current version in view,
             \* at most Wait; Unseen when it has not looked at it yet
  missed     \* paths this tick passed over although they had been in view
             \* for the whole stability wait

claimVars == <<driverVars, watched, missed>>

Unseen == Wait + 1

ClaimInit == /\ DriverInit
             /\ watched = [p \in Path |-> Unseen]
             /\ missed = {}

LookedAt == {Ask(i) : i \in unread \ unread'} \cup (todo \ todo')

ClaimScan ==
  /\ Scan
  /\ watched' = [p \in Path |->
                   IF fs'[p] # fs[p] THEN Unseen
                   ELSE IF p \in LookedAt /\ fs[p] # Absent /\ watched[p] = Unseen
                   THEN 0 ELSE watched[p]]
  /\ missed' = missed \cup
                 {p \in LookedAt : /\ job' = NoJob
                                   /\ fs[p] # Absent /\ fs'[p] = fs[p]
                                   /\ watched[p] = Wait
                                   /\ KeyOf(p, fs[p]) \in Archive
                                   /\ ~Seen(KeyOf(p, fs[p]))}

(* A changed file is out of view until the driver looks at it again. *)
ClaimUser == /\ User
             /\ watched' = [p \in Path |-> IF fs'[p] = fs[p] THEN watched[p] ELSE Unseen]
             /\ UNCHANGED missed

ClaimSecond == /\ Second
               /\ watched' = [p \in Path |->
                                IF watched[p] = Unseen THEN Unseen ELSE Older(watched[p])]
               /\ UNCHANGED missed

ClaimDelete == /\ Delete
               /\ watched' = [watched EXCEPT ![job.path] = Unseen]
               /\ UNCHANGED missed

ClaimNewTick == /\ WakeUp \/ FlushStep
                /\ missed' = IF pc' = "queue" THEN {} ELSE missed
                /\ UNCHANGED watched

ClaimCrash == /\ Crash
              /\ watched' = [p \in Path |-> Unseen]
              /\ missed' = {}

ClaimNext == \/ ClaimScan \/ ClaimUser \/ ClaimSecond \/ ClaimDelete
             \/ ClaimNewTick \/ ClaimCrash
             \/ /\ Launch \/ OpenArchive \/ EndExtraction \/ KeepArchive \/ RecordJob
                /\ UNCHANGED <<watched, missed>>

ClaimSpec == ClaimInit /\ [][ClaimNext]_claimVars

-------------------------------------------------------------------------------
(* ua_driver.h:43-45: "When a job runs, the next tick happens immediately  *)
(* rather than after the interval, so a batch of archives drains at full   *)
(* speed."  The driver goes to sleep only when no archive is left that it  *)
(* has had in view, unchanged, for the whole stability wait.               *)
BatchDrainsAtFullSpeed == pc = "sleep" => missed = {}
===============================================================================
