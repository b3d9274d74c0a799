-------------------------- MODULE ParallelDecodeProofs -------------------------
(***************************************************************************)
(* Proofs about decoding one entry with several threads, for every length  *)
(* of the folder, every damaged stream, every number of workers and every  *)
(* way they interleave with one another and with the coordinator.          *)
(***************************************************************************)
EXTENDS ParallelDecode, FiniteSetTheorems, TLAPS

Data == 0..(StreamEnd - 1)

(* What worker i has written of its run, and what of that it has added to  *)
(* shared.written: all but the unit it is about to count.                  *)
Done(i)    == {u \in Data : From(i) <= u /\ u < From(i) + produced[i]}
CountOf(i) == IF wpc[i] = "count" THEN produced[i] - 1 ELSE produced[i]
Tallied(i) == {u \in Data : From(i) <= u /\ u < From(i) + CountOf(i)}

AllDone    == UNION {Done(i) : i \in Started}
AllTallied == UNION {Tallied(i) : i \in Started}
Gone       == {i \in Worker : wpc[i] \in {"return", "exited"}}

-------------------------------------------------------------------------------
(* The inductive invariant. *)

(* Types, with the counters still unbounded: that they stay below the size *)
(* of the data is a consequence.                                           *)
Typed ==
  /\ splits \in SplitLists
  /\ pc \in {"begin", "decide", "start", "poll", "join", "close", "fallback",
             "sequential", "done"}
  /\ threads \in Nat /\ next \in Nat /\ used \in Nat
  /\ wpc \in [Worker -> {"none", "open", "decode", "count", "leave", "return", "exited"}]
  /\ produced \in [Worker -> Nat]
  /\ failed \subseteq Worker
  /\ written \in Nat /\ bytes_done \in Nat /\ finished \in Nat
  /\ disk \subseteq Data
  /\ outcome \in {"none", "ok", "failed"} /\ faults \subseteq {"job", "archive"}

(* A plan has at least two workers and as many resets as workers. *)
PlanOK ==
  /\ threads # 0 => threads \in 2..MaxThreads /\ threads <= Len(splits)
  /\ next <= threads /\ used <= next
  /\ pc \in {"begin", "decide"} => threads = 0
  /\ pc \in {"start", "poll", "join", "close"} => threads # 0

(* A worker stays in its run and in the stream; the one that is through    *)
(* and did not fail has written all of its run; the one that was skipped   *)
(* had nothing to write.                                                   *)
RunsOK ==
  \A i \in Worker :
    /\ wpc[i] = "none" => i \notin failed /\ produced[i] = 0
    /\ wpc[i] = "none" /\ i < next => From(i) = To(i)
    /\ wpc[i] # "none" => /\ i < next
                          /\ From(i) + produced[i] <= To(i)
                          /\ From(i) + produced[i] <= StreamEnd
    /\ wpc[i] = "count" => produced[i] > 0
    /\ wpc[i] \in {"leave", "return", "exited"} /\ i \notin failed
         => From(i) + produced[i] = To(i)

(* The shared counters count: no unit twice, no worker twice. *)
TallyOK ==
  /\ used = Cardinality(Started)
  /\ finished <= Cardinality(Gone)
  /\ written = Cardinality(AllTallied)

(* What is in the file, in each phase. *)
FileOK ==
  /\ pc \notin {"sequential", "done"} => disk = AllDone /\ bytes_done <= written
  /\ pc = "sequential" => disk = 0..(bytes_done - 1) /\ bytes_done <= Size
  /\ pc = "done" => bytes_done <= Cardinality(disk)

VerdictOK ==
  /\ pc = "done" <=> outcome # "none"
  /\ pc = "close" => failed = {} /\ written = Size
  /\ OkMeansComplete

IInv == Typed /\ PlanOK /\ RunsOK /\ TallyOK /\ FileOK /\ VerdictOK /\ WorkersGoneFirst

-------------------------------------------------------------------------------
(* Runs of the plan. *)

(* Resets are offsets in the stream and ascend (scan_splits). *)
LEMMA SplitFacts ==
  ASSUME splits \in SplitLists
  PROVE  /\ Len(splits) \in Nat
         /\ \A k \in 1..Len(splits) : splits[k] \in 0..StreamEnd
         /\ \A j, k \in 1..Len(splits) : j < k => splits[j] < splits[k]
<1>1. PICK n \in 0..(StreamEnd + 1) :
        splits \in {s \in [1..n -> 0..StreamEnd] : \A i, j \in 1..n : i < j => s[i] < s[j]}
  BY DEF SplitLists
<1>2. n \in Nat
  BY DecodeAssumption DEF StreamEnd
<1>3. Len(splits) = n
  BY <1>1, <1>2
<1>. QED
  BY <1>1, <1>2, <1>3

(* Cutting L resets into t runs, each run gets at least one of them. *)
LEMMA RunStartFacts ==
  ASSUME NEW L \in Nat, NEW t \in Nat \ {0}, t <= L,
         NEW i \in Nat, NEW j \in Nat, i < j, j <= t
  PROVE  /\ (L * i) \div t \in Nat
         /\ (L * j) \div t \in Nat
         /\ (L * i) \div t < (L * j) \div t
         /\ (L * j) \div t <= L
         /\ j < t => (L * j) \div t < L
         /\ j = t => (L * j) \div t = L
<1>1. t * i + t <= t * j
  OBVIOUS
<1>2. L * i \in Nat /\ L * j \in Nat /\ L * t \in Nat
  OBVIOUS
<1>3. L * i + L <= L * j
  OBVIOUS
<1>4. L * j <= L * t
  OBVIOUS
<1>. QED
  BY <1>1, <1>2, <1>3, <1>4

(* The runs of a plan follow one another without overlapping, within the   *)
(* stream; only the last one can have an end beyond it.                    *)
LEMMA RunFacts ==
  ASSUME Typed, PlanOK, NEW i \in 0..(threads - 1)
  PROVE  /\ From(i) \in 0..StreamEnd
         /\ To(i) \in Nat
         /\ \A j \in 0..(threads - 1) : i < j => To(i) = From(i + 1) /\ From(i + 1) <= From(j)
         /\ i = threads - 1 => To(i) = IF From(i) <= Size THEN Size ELSE Never
         /\ From(i) <= To(i)
<1>1. /\ threads \in Nat \ {0} /\ threads <= Len(splits) /\ i \in Nat /\ i < threads
      /\ Len(splits) \in Nat /\ Size \in Nat /\ StreamEnd \in Nat /\ Size <= StreamEnd
  BY SplitFacts, DecodeAssumption DEF Typed, PlanOK, StreamEnd
<1>2. \A j \in 0..(threads - 1) : /\ RunStart(j) \in Nat /\ RunStart(j) < Len(splits)
                                  /\ RunStart(j) < RunStart(j + 1)
                                  /\ RunStart(j + 1) \in Nat
                                  /\ j + 1 < threads => RunStart(j + 1) < Len(splits)
                                  /\ j + 1 = threads => RunStart(j + 1) = Len(splits)
  <2>. SUFFICES ASSUME NEW j \in 0..(threads - 1)
                PROVE  /\ RunStart(j) \in Nat /\ RunStart(j) < Len(splits)
                       /\ RunStart(j) < RunStart(j + 1)
                       /\ RunStart(j + 1) \in Nat
                       /\ j + 1 < threads => RunStart(j + 1) < Len(splits)
                       /\ j + 1 = threads => RunStart(j + 1) = Len(splits)
    OBVIOUS
  <2>1. j \in Nat /\ j + 1 \in Nat /\ j < j + 1 /\ j + 1 <= threads
    BY <1>1
  <2>. QED
    BY <1>1, <2>1, RunStartFacts DEF RunStart
<1>3. \A j \in 0..(threads - 1) : From(j) \in 0..StreamEnd
  BY <1>1, <1>2, SplitFacts DEF From, Typed
<1>4. \A j, k \in 0..(threads - 1) : j < k => From(j) < From(k)
  <2>. SUFFICES ASSUME NEW j \in 0..(threads - 1), NEW k \in 0..(threads - 1), j < k
                PROVE  From(j) < From(k)
    OBVIOUS
  <2>1. j \in Nat /\ k \in Nat /\ k <= threads
    BY <1>1
  <2>2. RunStart(j) < RunStart(k)
    BY <1>1, <2>1, RunStartFacts DEF RunStart
  <2>3. RunStart(j) + 1 \in 1..Len(splits) /\ RunStart(k) + 1 \in 1..Len(splits)
    BY <1>1, <1>2
  <2>4. RunStart(j) + 1 < RunStart(k) + 1
    BY <1>1, <1>2, <2>2
  <2>. QED
    BY <2>3, <2>4, SplitFacts DEF From, Typed
<1>5. To(i) = IF i + 1 < threads THEN From(i + 1)
              ELSE IF From(i) <= Size THEN Size ELSE Never
  BY <1>1, <1>2 DEF To, From
<1>6. From(i) \in 0..StreamEnd /\ To(i) \in Nat /\ From(i) <= To(i)
  <2>1. CASE i + 1 < threads
    BY <1>1, <1>3, <1>4, <1>5, <2>1
  <2>2. CASE ~(i + 1 < threads)
    BY <1>1, <1>3, <1>5, <2>2 DEF Never
  <2>. QED
    BY <2>1, <2>2
<1>7. ASSUME NEW j \in 0..(threads - 1), i < j
      PROVE  To(i) = From(i + 1) /\ From(i + 1) <= From(j)
  <2>1. i + 1 \in 0..(threads - 1) /\ i + 1 < threads /\ (i + 1 = j \/ i + 1 < j)
    BY <1>1, <1>7
  <2>2. From(i + 1) \in Int /\ From(j) \in Int
    BY <1>1, <1>3, <2>1
  <2>. QED
    BY <1>4, <1>5, <2>1, <2>2
<1>. QED
  BY <1>1, <1>5, <1>6, <1>7

(* Equal plans have equal runs. *)
LEMMA RunsStay ==
  ASSUME UNCHANGED <<splits, threads>>
  PROVE  \A i : From(i)' = From(i) /\ To(i)' = To(i)
BY DEF From, To, RunStart

(* The sets that are counted are finite. *)
LEMMA FiniteCounts ==
  /\ IsFiniteSet(Worker) /\ Cardinality(Worker) \in Nat
  /\ \A S \in SUBSET Worker : IsFiniteSet(S) /\ Cardinality(S) \in Nat
  /\ IsFiniteSet(Data) /\ Cardinality(Data) = StreamEnd
  /\ \A S \in SUBSET Data : /\ IsFiniteSet(S) /\ Cardinality(S) \in Nat
                            /\ Cardinality(S) <= StreamEnd
  /\ IsFiniteSet(Unit) /\ Cardinality(Unit) = Size
<1>1. StreamEnd \in Nat /\ Size \in Nat /\ MaxThreads \in Nat
  BY DecodeAssumption DEF StreamEnd
<1>2. IsFiniteSet(Data) /\ Cardinality(Data) = StreamEnd
  BY <1>1, FS_Interval DEF Data
<1>3. IsFiniteSet(Worker)
  BY <1>1, FS_Interval DEF Worker
<1>4. IsFiniteSet(Unit) /\ Cardinality(Unit) = Size
  BY <1>1, FS_Interval DEF Unit
<1>. QED
  BY <1>2, <1>3, <1>4, FS_Subset, FS_CardinalityType

-------------------------------------------------------------------------------
(* A step of a worker. *)

(* A worker that takes a step is a started one, of which the coordinator   *)
(* still waits; it stays a started one and leaves the plan alone.          *)
LEMMA WorkerFrame ==
  ASSUME IInv, NEW i \in Worker, WorkerStep(i)
  PROVE  /\ wpc[i] \in {"open", "decode", "count", "leave", "return"}
         /\ wpc'[i] \in {"decode", "count", "leave", "return", "exited"}
         /\ wpc' = [wpc EXCEPT ![i] = wpc'[i]]
         /\ i \in Started /\ i < next /\ i \in 0..(threads - 1)
         /\ pc \in {"start", "poll", "join"} /\ threads # 0
         /\ Started' = Started
         /\ \A j : From(j)' = From(j) /\ To(j)' = To(j)
         /\ UNCHANGED <<planVars, pc, bytes_done, outcome>>
<1>1. /\ wpc[i] \in {"open", "decode", "count", "leave", "return"}
      /\ wpc'[i] \in {"decode", "count", "leave", "return", "exited"}
      /\ wpc' = [wpc EXCEPT ![i] = wpc'[i]]
      /\ UNCHANGED <<planVars, pc, bytes_done, outcome>>
  <2>1. wpc \in [Worker -> {"none", "open", "decode", "count", "leave", "return", "exited"}]
    BY DEF IInv, Typed
  <2>. QED
    BY <2>1 DEF WorkerStep, WorkerGo, OpenArchive, NoArchive, GiveUp, WriteAt, Count,
                RangeDone, Leave, Return
<1>2. i \in Started /\ i < next /\ i \in Nat
  BY <1>1, DecodeAssumption DEF Started, IInv, RunsOK, Worker
<1>3. pc \in {"start", "poll", "join"}
  BY <1>1 DEF IInv, WorkersGoneFirst
<1>4. threads # 0 /\ i \in 0..(threads - 1)
  BY <1>2, <1>3 DEF IInv, PlanOK, Typed
<1>5. Started' = Started
  BY <1>1 DEF Started, IInv, Typed
<1>. QED
  BY <1>1, <1>2, <1>3, <1>4, <1>5, RunsStay DEF planVars

(* Only WriteAt writes, and it always advances the worker. *)
LEMMA WorkerWrites ==
  ASSUME NEW i \in Worker, WorkerStep(i)
  PROVE  WriteAt(i) \/ (produced' = produced /\ disk' = disk)
BY DEF WorkerStep, OpenArchive, NoArchive, GiveUp, Count, RangeDone, Leave, Return

(* Whatever a worker does, the shared state keeps its types (sevenz_worker). *)
LEMMA WorkerKeepsTyped ==
  ASSUME IInv, NEW i \in Worker, WorkerStep(i)
  PROVE  Typed'
<1>1. /\ wpc' \in [Worker -> {"none", "open", "decode", "count", "leave", "return", "exited"}]
      /\ UNCHANGED <<planVars, pc, bytes_done, outcome>>
  BY WorkerFrame DEF IInv, Typed
<1>2. From(i) \in Nat
  BY WorkerFrame, RunFacts, DecodeAssumption DEF IInv, StreamEnd
<1>3. produced' \in [Worker -> Nat] /\ disk' \subseteq Data
  <2>1. produced \in [Worker -> Nat] /\ disk \subseteq Data /\ StreamEnd \in Nat
    BY DecodeAssumption DEF IInv, Typed, StreamEnd
  <2>2. CASE produced' = produced /\ disk' = disk
    BY <2>1, <2>2
  <2>3. CASE WriteAt(i)
    <3>1. From(i) + produced[i] \in Data /\ produced[i] + 1 \in Nat
      BY <1>2, <2>1, <2>3 DEF WriteAt, Data
    <3>. QED
      BY <2>1, <2>3, <3>1 DEF WriteAt
  <2>. QED
    BY <2>2, <2>3, WorkerWrites
<1>4. failed' \subseteq Worker /\ written' \in Nat /\ finished' \in Nat
  BY DEF WorkerStep, WorkerFails, OpenArchive, NoArchive, GiveUp, WriteAt, Count,
         RangeDone, Leave, Return, IInv, Typed
<1>5. faults' \subseteq {"job", "archive"}
  BY DEF WorkerStep, NoArchive, IInv, Typed
<1>. QED
  BY <1>1, <1>3, <1>4, <1>5 DEF IInv, Typed, planVars

(* No worker leaves its run, and one that leaves has finished it or failed. *)
LEMMA WorkerKeepsRuns ==
  ASSUME IInv, NEW i \in Worker, WorkerStep(i)
  PROVE  RunsOK'
<1>1. /\ wpc \in [Worker -> {"none", "open", "decode", "count", "leave", "return", "exited"}]
      /\ produced \in [Worker -> Nat]
  BY DEF IInv, Typed
<1>2. From(i) \in Nat /\ To(i) \in Nat /\ StreamEnd \in Nat /\ next' = next
  BY WorkerFrame, RunFacts, DecodeAssumption DEF IInv, StreamEnd, planVars
<1>. SUFFICES ASSUME NEW j \in Worker
     PROVE  /\ wpc'[j] = "none" => j \notin failed' /\ produced'[j] = 0
            /\ wpc'[j] = "none" /\ j < next => From(j) = To(j)
            /\ wpc'[j] # "none" => /\ j < next
                                   /\ From(j) + produced'[j] <= To(j)
                                   /\ From(j) + produced'[j] <= StreamEnd
            /\ wpc'[j] = "count" => produced'[j] > 0
            /\ wpc'[j] \in {"leave", "return", "exited"} /\ j \notin failed'
                 => From(j) + produced'[j] = To(j)
  BY <1>2, WorkerFrame DEF RunsOK
<1>3. CASE j # i
  <2>1. /\ wpc'[j] = wpc[j] /\ produced'[j] = produced[j]
        /\ j \in failed' <=> j \in failed
    BY <1>1, <1>3 DEF WorkerStep, WorkerFails, WorkerGo, OpenArchive, NoArchive, GiveUp, WriteAt,
                      Count, RangeDone, Leave, Return
  <2>. QED
    BY <2>1 DEF IInv, RunsOK
<1>4. CASE j = i
  <2>1. wpc'[i] # "none" /\ wpc[i] # "none" /\ i < next
    BY WorkerFrame
  <2>2. From(i) + produced[i] <= To(i) /\ From(i) + produced[i] <= StreamEnd /\ produced[i] \in Nat
    BY <1>1, <2>1 DEF IInv, RunsOK
  <2>3. From(i) + produced'[i] <= To(i) /\ From(i) + produced'[i] <= StreamEnd
    BY <1>1, <1>2, <2>2
    DEF WorkerStep, OpenArchive, NoArchive, GiveUp, WriteAt, Count, RangeDone, Leave, Return
  <2>4. wpc'[i] = "count" => produced'[i] > 0
    BY <1>1, <2>2 DEF WorkerStep, WorkerGo, OpenArchive, NoArchive, GiveUp, WriteAt, Count,
                      RangeDone, Leave, Return
  <2>5. wpc'[i] \in {"leave", "return", "exited"} /\ i \notin failed'
          => From(i) + produced'[i] = To(i)
    <3>. SUFFICES ASSUME wpc'[i] \in {"leave", "return", "exited"}, i \notin failed'
                  PROVE  From(i) + produced'[i] = To(i)
      OBVIOUS
    <3>1. CASE RangeDone(i)
      BY <3>1 DEF RangeDone
    <3>2. CASE Leave(i) \/ Return(i)
      <4>1. wpc[i] \in {"leave", "return"} /\ produced' = produced /\ failed' = failed
        BY <3>2 DEF Leave, Return, WorkerGo
      <4>. QED
        BY <4>1 DEF IInv, RunsOK
    <3>. QED
      BY <1>1, <3>1, <3>2 DEF WorkerStep, WorkerGo, WorkerFails, OpenArchive, NoArchive, GiveUp,
                              WriteAt, Count
  <2>. QED
    BY <1>4, <2>1, <2>3, <2>4, <2>5
<1>. QED
  BY <1>3, <1>4

(* Writing a unit adds that unit to what is done, counting it adds it to   *)
(* what is counted; both are new, because runs do not overlap.             *)
LEMMA WorkerDone ==
  ASSUME IInv, NEW i \in Worker, WorkerStep(i)
  PROVE  /\ UNCHANGED disk => AllDone' = AllDone
         /\ WriteAt(i) => AllDone' = AllDone \cup {From(i) + produced[i]}
<1>1. /\ produced \in [Worker -> Nat] /\ StreamEnd \in Nat
      /\ From(i) \in Nat /\ Started' = Started /\ i \in Started
      /\ \A j : From(j)' = From(j)
  BY WorkerFrame, RunFacts, DecodeAssumption DEF IInv, Typed, StreamEnd
<1>2. \A j \in Worker : j # i => produced'[j] = produced[j]
  BY <1>1 DEF WorkerStep, OpenArchive, NoArchive, GiveUp, WriteAt, Count, RangeDone, Leave, Return
<1>3. \A j \in Started : j # i => Done(j)' = Done(j)
  BY <1>1, <1>2 DEF Done, Started
<1>4. CASE produced' = produced /\ disk' = disk /\ ~WriteAt(i)
  BY <1>1, <1>4 DEF AllDone, Done
<1>5. CASE WriteAt(i)
  <2>1. Done(i)' = Done(i) \cup {From(i) + produced[i]}
    <3>1. produced'[i] = produced[i] + 1 /\ From(i) + produced[i] \in Data
      BY <1>1, <1>5 DEF WriteAt, Data
    <3>2. \A u \in Data : /\ u \in Int
                          /\ u < From(i) + produced[i] + 1 <=>
                               u < From(i) + produced[i] \/ u = From(i) + produced[i]
      BY <1>1 DEF Data
    <3>. QED
      BY <1>1, <3>1, <3>2 DEF Done
  <2>2. AllDone' = AllDone \cup {From(i) + produced[i]}
    BY <1>1, <1>3, <2>1 DEF AllDone
  <2>3. disk' # disk \/ From(i) + produced[i] \in disk
    BY <1>5 DEF WriteAt
  <2>4. pc \notin {"sequential", "done"} /\ disk = AllDone
    BY WorkerFrame DEF IInv, FileOK
  <2>. QED
    BY <2>2, <2>3, <2>4
<1>. QED
  BY <1>4, <1>5, WorkerWrites

(* The same for what is counted: no unit is counted twice (the mutex in  *)
(* sevenz_worker makes the count one step).                                *)
LEMMA WorkerTallied ==
  ASSUME IInv, NEW i \in Worker, WorkerStep(i)
  PROVE  /\ UNCHANGED written => AllTallied' = AllTallied
         /\ Count(i) => \E u \in Data \ AllTallied : AllTallied' = AllTallied \cup {u}
<1>1. /\ produced \in [Worker -> Nat] /\ StreamEnd \in Nat
      /\ From(i) \in Nat /\ Started' = Started /\ i \in Started /\ written \in Nat
      /\ \A j : From(j)' = From(j)
  BY WorkerFrame, RunFacts, DecodeAssumption DEF IInv, Typed, StreamEnd
<1>2. /\ \A j \in Worker : j # i => produced'[j] = produced[j]
      /\ \A j \in Worker : j # i => wpc'[j] = wpc[j]
  BY <1>1, WorkerFrame DEF WorkerStep, OpenArchive, NoArchive, GiveUp, WriteAt, Count, RangeDone,
     Leave, Return, IInv, Typed
<1>3. \A j \in Started : j # i => Tallied(j)' = Tallied(j)
  BY <1>1, <1>2 DEF Tallied, CountOf, Started
<1>4. CASE UNCHANGED written
  <2>1. CountOf(i)' = CountOf(i)
    BY <1>1, <1>4, WorkerFrame DEF CountOf, WorkerStep, WorkerGo, OpenArchive, NoArchive, GiveUp,
       WriteAt, Count, RangeDone, Leave, Return, IInv, Typed
  <2>. QED
    BY <1>1, <1>3, <1>4, <2>1 DEF AllTallied, Tallied, Count
<1>5. CASE Count(i)
  <2>. DEFINE u == From(i) + produced[i] - 1
  <2>1. /\ wpc[i] = "count" /\ wpc'[i] = "decode" /\ produced'[i] = produced[i]
        /\ written' # written
    BY <1>1, <1>5, WorkerFrame DEF Count, WorkerGo, IInv, Typed
  <2>2. /\ produced[i] \in Nat /\ produced[i] > 0
        /\ From(i) + produced[i] <= To(i) /\ From(i) + produced[i] <= StreamEnd
    BY <1>1, <2>1 DEF IInv, RunsOK
  <2>3. u \in Data
    BY <1>1, <2>2 DEF Data
  <2>4. Tallied(i)' = Tallied(i) \cup {u}
    <3>1. CountOf(i) = produced[i] - 1 /\ CountOf(i)' = produced[i]
      BY <2>1 DEF CountOf
    <3>2. \A v \in Data : /\ v < From(i) + produced[i] <=>
                               v < From(i) + (produced[i] - 1) \/ v = u
                          /\ v = u => From(i) <= v
      BY <1>1, <2>2 DEF Data
    <3>. QED
      BY <1>1, <2>3, <3>1, <3>2 DEF Tallied
  <2>5. AllTallied' = AllTallied \cup {u}
    BY <1>1, <1>3, <2>4 DEF AllTallied
  <2>6. u \notin Tallied(i)
    BY <1>1, <2>1, <2>2 DEF Tallied, CountOf
  <2>7. ASSUME NEW j \in Started, j # i PROVE u \notin Tallied(j)
    <3>1. /\ j \in Worker /\ wpc[j] # "none" /\ produced[j] \in Nat
          /\ j \in 0..(threads - 1) /\ i \in 0..(threads - 1) /\ threads \in Nat
      <4>1. j \in Worker /\ wpc[j] # "none"
        BY <2>7 DEF Started
      <4>2. j < next
        BY <4>1 DEF IInv, RunsOK
      <4>. QED
        BY <1>1, <4>1, <4>2, WorkerFrame, DecodeAssumption DEF IInv, Typed, PlanOK, Worker
    <3>2. From(j) \in Nat /\ To(j) \in Nat /\ To(i) \in Nat
      BY <1>1, <3>1, RunFacts DEF IInv
    <3>3. j < i => To(j) <= From(i)
      BY <1>1, <3>1, <3>2, RunFacts DEF IInv
    <3>4. i < j => To(i) <= From(j)
      BY <1>1, <3>1, <3>2, RunFacts DEF IInv
    <3>5. From(j) + produced[j] <= To(j)
      BY <3>1 DEF IInv, RunsOK
    <3>6. CountOf(j) \in Int /\ CountOf(j) <= produced[j]
      BY <3>1 DEF CountOf
    <3>7. ~(From(j) <= u /\ u < From(j) + CountOf(j))
      <4>1. CASE j < i
        BY <1>1, <2>2, <3>1, <3>2, <3>3, <3>5, <3>6, <4>1
      <4>2. CASE i < j
        BY <1>1, <2>2, <3>1, <3>2, <3>4, <3>5, <3>6, <4>2
      <4>. QED
        BY <2>7, <3>1, <4>1, <4>2
    <3>. QED
      BY <3>7 DEF Tallied
  <2>8. u \notin AllTallied
    BY <2>6, <2>7 DEF AllTallied
  <2>. QED
    BY <2>1, <2>3, <2>5, <2>8
<1>. QED
  BY <1>4, <1>5 DEF WorkerStep, OpenArchive, NoArchive, GiveUp, WriteAt, RangeDone, Leave, Return

(* shared.written and shared.finished are never ahead of what they count.  *)
LEMMA WorkerKeepsTally ==
  ASSUME IInv, NEW i \in Worker, WorkerStep(i)
  PROVE  TallyOK'
<1>1. /\ Started' = Started /\ used' = used /\ i \in Started
      /\ wpc \in [Worker -> {"none", "open", "decode", "count", "leave", "return", "exited"}]
      /\ finished \in Nat /\ written \in Nat
  BY WorkerFrame DEF IInv, Typed, planVars
<1>2. finished' <= Cardinality(Gone')
  <2>1. /\ Gone \in SUBSET Worker /\ Gone' \in SUBSET Worker /\ Gone \subseteq Gone'
    BY <1>1, WorkerFrame DEF Gone, WorkerStep, WorkerGo, OpenArchive, NoArchive, GiveUp, WriteAt,
       Count, RangeDone, Leave, Return
  <2>2. Cardinality(Gone) <= Cardinality(Gone')
    BY <2>1, FiniteCounts, FS_Subset
  <2>3. CASE Leave(i)
    <3>1. i \notin Gone /\ Gone' = Gone \cup {i} /\ finished' = finished + 1
      BY <1>1, <2>3 DEF Gone, Leave, WorkerGo
    <3>. QED
      BY <1>1, <2>1, <3>1, FiniteCounts, FS_AddElement DEF IInv, TallyOK
  <2>4. CASE finished' = finished
    BY <1>1, <2>1, <2>2, <2>4, FiniteCounts DEF IInv, TallyOK
  <2>. QED
    BY <2>3, <2>4 DEF WorkerStep, OpenArchive, NoArchive, GiveUp, WriteAt, Count, RangeDone, Return
<1>3. written' = Cardinality(AllTallied')
  <2>1. CASE Count(i)
    <3>1. PICK u \in Data \ AllTallied : AllTallied' = AllTallied \cup {u}
      BY <2>1, WorkerTallied
    <3>2. AllTallied \in SUBSET Data
      BY DEF AllTallied, Tallied
    <3>3. IsFiniteSet(AllTallied) /\ written' = written + 1
      BY <2>1, <3>2, FiniteCounts DEF Count
    <3>. QED
      BY <3>1, <3>3, FS_AddElement DEF IInv, TallyOK
  <2>2. CASE written' = written
    BY <2>2, WorkerTallied DEF IInv, TallyOK
  <2>. QED
    BY <2>1, <2>2 DEF WorkerStep, OpenArchive, NoArchive, GiveUp, WriteAt, RangeDone, Leave, Return
<1>. QED
  BY <1>1, <1>2, <1>3 DEF IInv, TallyOK

(* The file has what the workers have done, and no verdict is made.        *)
LEMMA WorkerKeepsFile ==
  ASSUME IInv, NEW i \in Worker, WorkerStep(i)
  PROVE  FileOK' /\ VerdictOK' /\ PlanOK' /\ WorkersGoneFirst'
<1>1. /\ pc \in {"start", "poll", "join"} /\ outcome = "none"
      /\ UNCHANGED <<splits, threads, next, used, pc, bytes_done, outcome>>
  BY WorkerFrame DEF IInv, VerdictOK, planVars
<1>2. disk = AllDone /\ bytes_done <= written /\ written \in Nat /\ bytes_done \in Nat
  BY <1>1 DEF IInv, FileOK, Typed
<1>3. disk' = AllDone'
  BY <1>2, WorkerDone, WorkerWrites DEF WriteAt
<1>4. written' = written \/ written' = written + 1
  BY DEF WorkerStep, OpenArchive, NoArchive, GiveUp, WriteAt, Count, RangeDone, Leave, Return
<1>5. FileOK'
  BY <1>1, <1>2, <1>3, <1>4 DEF FileOK
<1>6. VerdictOK'
  BY <1>1 DEF IInv, VerdictOK, OkMeansComplete
<1>7. PlanOK'
  BY <1>1 DEF IInv, PlanOK
<1>8. WorkersGoneFirst'
  BY <1>1 DEF WorkersGoneFirst
<1>. QED
  BY <1>5, <1>6, <1>7, <1>8

(* All together: a step of a worker keeps the invariant.                   *)
LEMMA WorkerKeepsInvariant ==
  ASSUME IInv, NEW i \in Worker, WorkerStep(i)
  PROVE  IInv'
BY WorkerKeepsTyped, WorkerKeepsRuns, WorkerKeepsTally, WorkerKeepsFile DEF IInv

-------------------------------------------------------------------------------
(* A step of the coordinator. *)

(* What follows from the phase alone: with all workers gone, every unit    *)
(* done is counted; before a plan there is no worker.                      *)
LEMMA PhaseFacts ==
  ASSUME IInv
  PROVE  /\ threads = 0 => Started = {}
         /\ Started = {} => AllDone = {} /\ AllTallied = {} /\ written = 0
         /\ AllTallied \subseteq AllDone
         /\ AllDone \subseteq Data
         /\ written <= Cardinality(AllDone)
         /\ (\A i \in Started : wpc[i] = "exited") => AllTallied = AllDone
<1>1. threads = 0 => Started = {}
  BY DecodeAssumption DEF IInv, Typed, PlanOK, RunsOK, Started, Worker
<1>2. Started = {} => AllDone = {} /\ AllTallied = {}
  BY DEF AllDone, AllTallied
<1>3. AllTallied \subseteq AllDone /\ AllDone \subseteq Data
  <2>1. \A i \in Started : Tallied(i) \subseteq Done(i)
    <3>. SUFFICES ASSUME NEW i \in Started, NEW u \in Tallied(i)
                  PROVE  u \in Done(i)
      OBVIOUS
    <3>1. /\ produced[i] \in Nat /\ From(i) \in Nat /\ u \in Int
      <4>1. i \in Worker /\ i < next
        BY DEF IInv, RunsOK, Started
      <4>2. i \in 0..(threads - 1)
        BY <4>1, DecodeAssumption DEF IInv, PlanOK, Typed, Worker
      <4>. QED
        BY <4>1, <4>2, RunFacts, DecodeAssumption DEF IInv, Typed, Tallied, Data, StreamEnd
    <3>. QED
      BY <3>1 DEF Tallied, Done, CountOf
  <2>. QED
    BY <2>1 DEF AllTallied, AllDone, Done
<1>4. written = Cardinality(AllTallied) /\ Cardinality(AllTallied) <= Cardinality(AllDone)
  BY <1>3, FiniteCounts, FS_Subset DEF IInv, TallyOK
<1>5. (\A i \in Started : wpc[i] = "exited") => AllTallied = AllDone
  BY DEF AllTallied, AllDone, Tallied, Done, CountOf
<1>. QED
  BY <1>1, <1>2, <1>3, <1>4, <1>5, FS_EmptySet

(* What the verdict of sevenz_extract_parallel is worth: when all workers  *)
(* are through, none failed and the byte count is that of the folder, then *)
(* the folder is in the file, unless this is an Overrun.                   *)
LEMMA JoinedIsComplete ==
  ASSUME IInv, threads # 0, \A i \in Started : wpc[i] = "exited",
         failed = {}, written = Size, ~Overrun
  PROVE  AllDone = Unit
<1>1. /\ AllDone \subseteq Data /\ Cardinality(AllDone) = Size
      /\ Size \in Nat \ {0} /\ StreamEnd \in Nat /\ Size <= StreamEnd
  <2>1. AllTallied = AllDone /\ AllDone \subseteq Data
    BY PhaseFacts
  <2>2. written = Cardinality(AllTallied)
    BY DEF IInv, TallyOK
  <2>. QED
    BY <2>1, <2>2, DecodeAssumption DEF StreamEnd
<1>2. \A i \in Started : /\ i \in 0..(threads - 1) /\ i < next
                         /\ From(i) + produced[i] = To(i)
                         /\ To(i) <= StreamEnd
                         /\ To(i) \in Nat
  <2>. SUFFICES ASSUME NEW i \in Started
                PROVE  /\ i \in 0..(threads - 1) /\ i < next
                       /\ From(i) + produced[i] = To(i) /\ To(i) <= StreamEnd /\ To(i) \in Nat
    OBVIOUS
  <2>1. i \in Worker /\ wpc[i] = "exited" /\ i < next
    BY DEF Started, IInv, RunsOK
  <2>2. i \in 0..(threads - 1)
    BY <2>1, DecodeAssumption DEF IInv, PlanOK, Typed, Worker
  <2>3. From(i) + produced[i] = To(i) /\ From(i) + produced[i] <= StreamEnd
    BY <2>1 DEF IInv, RunsOK
  <2>. QED
    BY <2>1, <2>2, <2>3, RunFacts DEF IInv
<1>3. \A i \in Started : To(i) <= Size
  <2>. SUFFICES ASSUME NEW i \in Started PROVE To(i) <= Size
    OBVIOUS
  <2>1. /\ threads \in Nat /\ next \in Nat /\ i \in Nat /\ i < next /\ next <= threads
        /\ To(i) \in Nat /\ To(i) <= StreamEnd
    BY <1>2 DEF IInv, PlanOK, Typed
  <2>2. CASE i = threads - 1
    <3>1. To(i) = IF From(i) <= Size THEN Size ELSE Never
      BY <1>2, <2>2, RunFacts DEF IInv
    <3>. QED
      BY <1>1, <2>1, <3>1 DEF Never
  <2>3. CASE i < threads - 1 /\ next < threads
    <3>1. next \in 0..(threads - 1) /\ From(next) \in 0..StreamEnd
      BY <2>1, <2>3, RunFacts DEF IInv
    <3>2. From(next) <= Size
      BY <1>1, <2>3, <3>1 DEF Overrun
    <3>3. To(i) = From(i + 1) /\ From(i + 1) <= From(next)
      BY <1>2, <2>1, <3>1, RunFacts DEF IInv
    <3>. QED
      BY <1>1, <2>1, <3>1, <3>2, <3>3
  <2>4. CASE i < threads - 1 /\ next = threads
    <3>. DEFINE last == threads - 1
    <3>1. last \in 0..(threads - 1) /\ last \in Worker
      BY <2>1, DecodeAssumption DEF IInv, Typed, PlanOK, Worker
    <3>2. /\ From(last) \in 0..StreamEnd
          /\ To(last) = IF From(last) <= Size THEN Size ELSE Never
      BY <3>1, RunFacts DEF IInv
    <3>3. From(last) <= Size
      <4>. SUFFICES ASSUME From(last) > Size PROVE FALSE
        BY <1>1, <3>2
      <4>1. To(last) = StreamEnd + 1 /\ From(last) < To(last)
        BY <1>1, <3>2 DEF Never
      <4>2. last \notin Started
        BY <1>1, <1>2, <4>1
      <4>3. wpc[last] = "none" /\ last < next
        BY <2>1, <2>4, <3>1, <4>2 DEF Started
      <4>4. From(last) = To(last)
        BY <3>1, <4>3 DEF IInv, RunsOK
      <4>. QED
        BY <1>1, <3>2, <4>1, <4>4
    <3>4. To(i) = From(i + 1) /\ From(i + 1) <= From(last)
      BY <1>2, <2>1, <2>4, <3>1, RunFacts DEF IInv
    <3>. QED
      BY <1>1, <2>1, <3>2, <3>3, <3>4
  <2>. QED
    BY <2>1, <2>2, <2>3, <2>4
<1>4. AllDone \subseteq Unit
  BY <1>1, <1>2, <1>3 DEF AllDone, Done, Data, Unit
<1>. QED
  BY <1>1, <1>4, FiniteCounts, FS_Subset

(* The steps that leave workers and plan alone: all of the coordinator's   *)
(* but Plan and the two that go through the planned workers.               *)
LEMMA CallerFrame ==
  ASSUME IInv, UNCHANGED <<workVars, planVars>>
  PROVE  /\ RunsOK' /\ TallyOK'
         /\ Started' = Started /\ AllDone' = AllDone /\ Overrun' = Overrun
         /\ (\A i \in Worker : wpc[i] \in {"none", "exited"})
              => WorkersGoneFirst'
<1>1. /\ wpc' = wpc /\ produced' = produced /\ failed' = failed /\ written' = written
      /\ finished' = finished /\ splits' = splits /\ threads' = threads /\ next' = next
      /\ used' = used
  BY DEF workVars, planVars
<1>2. \A i : From(i)' = From(i) /\ To(i)' = To(i)
  BY <1>1, RunsStay
<1>3. Started' = Started /\ Gone' = Gone
  BY <1>1 DEF Started, Gone
<1>4. AllDone' = AllDone /\ AllTallied' = AllTallied
  BY <1>1, <1>2, <1>3 DEF AllDone, AllTallied, Done, Tallied, CountOf
<1>5. Overrun' = Overrun
  <2>1. From(next)' = From(next)
    BY <1>1 DEF From, RunStart
  <2>. QED
    BY <1>1, <2>1 DEF Overrun
<1>6. RunsOK'
  BY <1>1, <1>2 DEF IInv, RunsOK
<1>7. TallyOK'
  BY <1>1, <1>3, <1>4 DEF IInv, TallyOK
<1>. QED
  BY <1>1, <1>3, <1>4, <1>5, <1>6, <1>7 DEF WorkersGoneFirst

(* Up to the plan: no worker, no data. *)
LEMMA CallerBeginsInvariant ==
  ASSUME IInv,
         OpenOutput \/ CannotOpenOutput \/ Sequential \/ Decline
  PROVE  IInv'
<1>1. /\ UNCHANGED <<workVars, planVars>> /\ disk' = disk /\ bytes_done' = bytes_done
      /\ pc \in {"begin", "decide"}
  BY DEF OpenOutput, CannotOpenOutput, Sequential, Decline
<1>2. \/ pc' \in {"decide", "fallback", "sequential"} /\ outcome' = outcome /\ faults' = faults
      \/ pc' = "done" /\ outcome' = "failed" /\ faults' = faults \cup {"job"}
  BY DEF OpenOutput, CannotOpenOutput, Sequential, Decline, JobFailed, endVars
<1>3. pc' = "decide" => pc = "begin"
  BY DEF OpenOutput, CannotOpenOutput, Sequential, Decline, JobFailed
<1>4. threads = 0 /\ outcome = "none"
  BY <1>1 DEF IInv, PlanOK, VerdictOK
<1>5. /\ disk = {} /\ bytes_done = 0 /\ AllDone = {} /\ written = 0
      /\ \A i \in Worker : wpc[i] = "none"
  BY <1>1, <1>4, PhaseFacts DEF IInv, FileOK, Typed, Started
<1>6. Typed' /\ PlanOK'
  <2>1. /\ wpc' = wpc /\ produced' = produced /\ failed' = failed /\ written' = written
        /\ finished' = finished /\ splits' = splits /\ threads' = threads /\ next' = next
        /\ used' = used
    BY <1>1 DEF workVars, planVars
  <2>2. Typed'
    BY <1>1, <1>2, <2>1 DEF IInv, Typed
  <2>3. PlanOK'
    BY <1>2, <1>4, <2>1 DEF IInv, PlanOK
  <2>. QED
    BY <2>2, <2>3
<1>7. FileOK'
  <2>1. Size \in Nat /\ 0..(0 - 1) = {} /\ 0 <= Cardinality(disk)
    BY <1>5, DecodeAssumption, FS_EmptySet
  <2>2. disk' = {} /\ bytes_done' = 0 /\ AllDone' = {} /\ written' = 0 /\ disk' = disk
    BY <1>1, <1>5, CallerFrame DEF workVars
  <2>. QED
    BY <2>1, <2>2 DEF FileOK
<1>8. VerdictOK'
  BY <1>2, <1>4 DEF VerdictOK, OkMeansComplete
<1>. QED
  BY <1>1, <1>5, <1>6, <1>7, <1>8, CallerFrame DEF IInv

(* Planning cuts the stream before there is a worker (sevenz_extract_parallel). *)
LEMMA PlanKeepsInvariant ==
  ASSUME IInv, Plan
  PROVE  IInv'
<1>1. /\ wpc' = wpc /\ produced' = produced /\ failed' = failed /\ written' = written
      /\ finished' = finished /\ splits' = splits /\ next' = next /\ used' = used
      /\ disk' = disk /\ bytes_done' = bytes_done /\ outcome' = outcome /\ faults' = faults
  BY DEF Plan, workVars, endVars
<1>0. /\ pc = "decide" /\ pc' = "start" /\ threads = 0 /\ next = 0
      /\ threads' \in 2..MaxThreads /\ threads' <= Len(splits)
  BY DEF Plan, IInv, PlanOK, Typed
<1>2. /\ \A i \in Worker : wpc[i] = "none"
      /\ Started = {} /\ AllDone = {} /\ AllTallied = {} /\ written = 0
  BY <1>0, PhaseFacts DEF Started
<1>3. Started' = {} /\ AllDone' = {} /\ AllTallied' = {} /\ Gone' = Gone
  BY <1>1, <1>2 DEF Started, AllDone, AllTallied, Gone
<1>4. Typed' /\ PlanOK'
  BY <1>0, <1>1, DecodeAssumption DEF IInv, Typed, PlanOK
<1>5. RunsOK'
  <2>1. \A i \in Worker : i \in Nat
    BY DecodeAssumption DEF Worker
  <2>. QED
    BY <1>0, <1>1, <1>2, <2>1 DEF IInv, RunsOK
<1>6. TallyOK'
  <2>1. used = Cardinality({}) /\ finished <= Cardinality(Gone) /\ written = Cardinality({})
    BY <1>2 DEF IInv, TallyOK
  <2>. QED
    BY <1>1, <1>3, <2>1 DEF TallyOK
<1>7. FileOK'
  BY <1>0, <1>1, <1>2, <1>3 DEF IInv, FileOK
<1>8. VerdictOK' /\ WorkersGoneFirst'
  BY <1>0, <1>1 DEF IInv, VerdictOK, OkMeansComplete, WorkersGoneFirst
<1>. QED
  BY <1>4, <1>5, <1>6, <1>7, <1>8 DEF IInv

(* A new worker begins with nothing done of its run; the workers started   *)
(* before it may be anywhere.                                              *)
LEMMA StartWorkerKeepsInvariant ==
  ASSUME IInv, StartWorker
  PROVE  IInv'
<1>1. /\ splits' = splits /\ threads' = threads /\ produced' = produced /\ failed' = failed
      /\ written' = written /\ finished' = finished /\ disk' = disk /\ pc' = pc
      /\ bytes_done' = bytes_done /\ outcome' = outcome /\ faults' = faults
      /\ next' = next + 1 /\ used' = used + 1 /\ wpc' = [wpc EXCEPT ![next] = "open"]
      /\ pc = "start" /\ next < threads /\ From(next) < To(next)
  BY DEF StartWorker, endVars
<1>2. /\ next \in Worker /\ next \in 0..(threads - 1) /\ next \in Nat /\ threads \in Nat
      /\ threads # 0 /\ used \in Nat /\ outcome = "none"
  BY <1>1, DecodeAssumption DEF IInv, Typed, PlanOK, VerdictOK, Worker
<1>3. wpc[next] = "none" /\ next \notin failed /\ produced[next] = 0
  BY <1>2 DEF IInv, RunsOK
<1>4. From(next) \in 0..StreamEnd /\ To(next) \in Nat /\ \A i : From(i)' = From(i) /\ To(i)' = To(i)
  BY <1>1, <1>2, RunFacts, RunsStay DEF IInv
<1>5. PICK w \in Worker : w = next
  BY <1>2
<1>6. /\ wpc'[w] = "open" /\ \A i \in Worker \ {w} : wpc'[i] = wpc[i]
      /\ Started' = Started \cup {w} /\ w \notin Started /\ Gone' = Gone
  BY <1>1, <1>3, <1>5 DEF IInv, Typed, Started, Gone
<1>7. Done(w)' = {} /\ Tallied(w)' = {}
  <2>1. produced'[w] = 0 /\ CountOf(w)' = 0 /\ From(w)' = From(w) /\ From(w) \in Nat
    BY <1>1, <1>3, <1>4, <1>5, <1>6, DecodeAssumption DEF CountOf, StreamEnd
  <2>2. \A u \in Data : ~(From(w) <= u /\ u < From(w) + 0)
    BY <2>1 DEF Data
  <2>. QED
    BY <2>1, <2>2 DEF Done, Tallied
<1>8. AllDone' = AllDone /\ AllTallied' = AllTallied
  <2>1. \A i \in Started : Done(i)' = Done(i) /\ Tallied(i)' = Tallied(i)
    BY <1>1, <1>4, <1>6 DEF Done, Tallied, CountOf, Started
  <2>2. AllDone' = UNION {Done(i)' : i \in Started \cup {w}}
    BY <1>6 DEF AllDone
  <2>3. AllTallied' = UNION {Tallied(i)' : i \in Started \cup {w}}
    BY <1>6 DEF AllTallied
  <2>4. AllDone' = AllDone
    BY <1>7, <2>1, <2>2 DEF AllDone
  <2>5. AllTallied' = AllTallied
    BY <1>7, <2>1, <2>3 DEF AllTallied
  <2>. QED
    BY <2>4, <2>5
<1>9. Typed' /\ PlanOK'
  BY <1>1, <1>2 DEF IInv, Typed, PlanOK
<1>10. RunsOK'
  <2>. SUFFICES ASSUME NEW i \in Worker
       PROVE  /\ wpc'[i] = "none" => i \notin failed /\ produced[i] = 0
              /\ wpc'[i] = "none" /\ i < next + 1 => From(i) = To(i)
              /\ wpc'[i] # "none" => /\ i < next + 1
                                     /\ From(i) + produced[i] <= To(i)
                                     /\ From(i) + produced[i] <= StreamEnd
              /\ wpc'[i] = "count" => produced[i] > 0
              /\ wpc'[i] \in {"leave", "return", "exited"} /\ i \notin failed
                   => From(i) + produced[i] = To(i)
    BY <1>1, <1>4 DEF RunsOK
  <2>1. CASE i = w
    BY <1>1, <1>2, <1>3, <1>4, <1>5, <1>6, <2>1
  <2>2. CASE i # w
    <3>1. i \in Int /\ (i < next + 1 => i < next) /\ (i < next => i < next + 1)
      BY <1>2, <1>5, <2>2, DecodeAssumption DEF Worker
    <3>. QED
      BY <1>6, <2>2, <3>1 DEF IInv, RunsOK
  <2>. QED
    BY <2>1, <2>2
<1>11. TallyOK'
  <2>1. IsFiniteSet(Started)
    BY FiniteCounts DEF Started
  <2>. QED
    BY <1>1, <1>2, <1>6, <1>8, <2>1, FS_AddElement DEF IInv, TallyOK
<1>12. FileOK' /\ VerdictOK' /\ WorkersGoneFirst'
  BY <1>1, <1>2, <1>8 DEF IInv, FileOK, VerdictOK, OkMeansComplete, WorkersGoneFirst
<1>. QED
  BY <1>9, <1>10, <1>11, <1>12 DEF IInv

(* A run without data is passed over; it has nothing to write. *)
LEMMA SkipWorkerKeepsInvariant ==
  ASSUME IInv, SkipWorker
  PROVE  IInv'
<1>1. /\ splits' = splits /\ threads' = threads /\ produced' = produced /\ failed' = failed
      /\ written' = written /\ finished' = finished /\ disk' = disk /\ pc' = pc
      /\ bytes_done' = bytes_done /\ outcome' = outcome /\ faults' = faults
      /\ next' = next + 1 /\ used' = used /\ wpc' = wpc
      /\ pc = "start" /\ next < threads /\ From(next) = To(next)
  BY DEF SkipWorker, workVars, endVars
<1>2. /\ next \in Nat /\ threads \in Nat /\ used \in Nat /\ used <= next
      /\ threads # 0 /\ outcome = "none"
  BY <1>1 DEF IInv, Typed, PlanOK, VerdictOK
<1>3. \A i : From(i)' = From(i) /\ To(i)' = To(i)
  BY <1>1, RunsStay
<1>4. Started' = Started /\ Gone' = Gone /\ AllDone' = AllDone /\ AllTallied' = AllTallied
  BY <1>1, <1>3 DEF Started, Gone, AllDone, AllTallied, Done, Tallied, CountOf
<1>5. Typed' /\ PlanOK'
  BY <1>1, <1>2 DEF IInv, Typed, PlanOK
<1>6. RunsOK'
  <2>1. \A i \in Worker : /\ i \in Int
                          /\ i < next + 1 <=> i < next \/ i = next
    BY <1>2, DecodeAssumption DEF Worker
  <2>. QED
    BY <1>1, <1>3, <2>1 DEF IInv, RunsOK
<1>7. TallyOK'
  BY <1>1, <1>4 DEF IInv, TallyOK
<1>8. FileOK' /\ VerdictOK' /\ WorkersGoneFirst'
  BY <1>1, <1>2, <1>4 DEF IInv, FileOK, VerdictOK, OkMeansComplete, WorkersGoneFirst
<1>. QED
  BY <1>5, <1>6, <1>7, <1>8 DEF IInv

(* The coordinator gets past the join only when every worker has exited,   *)
(* and past StartedAll without a join only when there is none.             *)
LEMMA WaitKeepsInvariant ==
  ASSUME IInv, StartedAll \/ Poll \/ Join
  PROVE  IInv'
<1>1. /\ UNCHANGED <<workVars, planVars>>
      /\ wpc' = wpc /\ produced' = produced /\ failed' = failed /\ written' = written
      /\ finished' = finished /\ splits' = splits /\ threads' = threads /\ next' = next
      /\ used' = used /\ disk' = disk /\ outcome' = outcome /\ faults' = faults
      /\ bytes_done' = bytes_done \/ bytes_done' = written
      /\ pc \in {"start", "poll", "join"} /\ pc' \in {"poll", "join", "close", "fallback"}
  BY DEF StartedAll, Poll, Join, workVars, planVars, endVars
<1>2. threads # 0 /\ outcome = "none" /\ disk = AllDone /\ bytes_done <= written
      /\ written \in Nat /\ bytes_done \in Nat
  BY <1>1 DEF IInv, PlanOK, VerdictOK, FileOK, Typed
<1>3. /\ RunsOK' /\ TallyOK' /\ AllDone' = AllDone
      /\ (\A i \in Worker : wpc[i] \in {"none", "exited"}) => WorkersGoneFirst'
  BY <1>1, CallerFrame
<1>4. Typed' /\ PlanOK'
  BY <1>1, <1>2 DEF IInv, Typed, PlanOK
<1>5. FileOK'
  BY <1>1, <1>2, <1>3 DEF FileOK
<1>6. VerdictOK'
  BY <1>1, <1>2 DEF VerdictOK, OkMeansComplete, StartedAll, Poll, Join
<1>7. WorkersGoneFirst'
  <2>1. CASE StartedAll /\ used = 0
    <3>1. Started = {}
      BY <2>1, FiniteCounts, FS_EmptySet DEF IInv, TallyOK, Started
    <3>. QED
      BY <1>3, <3>1 DEF Started
  <2>2. CASE Join
    BY <1>3, <2>2 DEF Join, Started
  <2>3. CASE pc' \in {"poll", "join"}
    BY <2>3 DEF WorkersGoneFirst
  <2>. QED
    BY <2>1, <2>2, <2>3 DEF StartedAll, Poll
<1>. QED
  BY <1>3, <1>4, <1>5, <1>6, <1>7 DEF IInv

(* The parallel path's success (extract_one_file, after the join). *)
LEMMA CloseParallelKeepsInvariant ==
  ASSUME IInv, CloseParallel
  PROVE  IInv'
<1>1. /\ UNCHANGED <<workVars, planVars>>
      /\ wpc' = wpc /\ produced' = produced /\ failed' = failed /\ written' = written
      /\ finished' = finished /\ splits' = splits /\ threads' = threads /\ next' = next
      /\ used' = used /\ disk' = disk /\ bytes_done' = written
      /\ faults' \subseteq faults \cup {"job"}
      /\ pc = "close" /\ pc' = "done" /\ outcome' \in {"ok", "failed"}
  BY DEF CloseParallel, JobOk, JobFailed, workVars, planVars
<1>2. /\ threads # 0 /\ disk = AllDone /\ failed = {} /\ written = Size
      /\ \A i \in Worker : wpc[i] \in {"none", "exited"}
  BY <1>1 DEF IInv, PlanOK, VerdictOK, FileOK, WorkersGoneFirst
<1>3. RunsOK' /\ TallyOK' /\ WorkersGoneFirst' /\ (Overrun' <=> Overrun)
  BY <1>1, <1>2, CallerFrame
<1>4. Typed' /\ PlanOK'
  BY <1>1 DEF IInv, Typed, PlanOK
<1>5. FileOK'
  BY <1>1, <1>2, PhaseFacts DEF FileOK
<1>6. VerdictOK'
  <2>1. ~Overrun => disk = Unit
    BY <1>2, JoinedIsComplete DEF Started
  <2>2. OkMeansComplete'
    BY <1>1, <1>2, <1>3, <2>1 DEF OkMeansComplete
  <2>. QED
    BY <1>1, <2>2 DEF VerdictOK
<1>. QED
  BY <1>3, <1>4, <1>5, <1>6 DEF IInv

(* The sequential decoder, and the way to it after a decline or a failure. *)
LEMMA SequentialKeepsInvariant ==
  ASSUME IInv, Fallback \/ CannotReopen \/ SequentialWrite \/ SequentialEnd
  PROVE  IInv'
<1>1. /\ UNCHANGED <<workVars, planVars>>
      /\ wpc' = wpc /\ produced' = produced /\ failed' = failed /\ written' = written
      /\ finished' = finished /\ splits' = splits /\ threads' = threads /\ next' = next
      /\ used' = used /\ pc \in {"fallback", "sequential"} /\ pc' \in {"sequential", "done"}
      /\ faults' \subseteq faults \cup {"job"}
  BY DEF Fallback, CannotReopen, SequentialWrite, SequentialEnd, JobOk, JobFailed,
         workVars, planVars, endVars
<1>2. /\ RunsOK' /\ TallyOK'  /\ WorkersGoneFirst'
  BY <1>1, CallerFrame DEF IInv, WorkersGoneFirst
<1>3. /\ outcome = "none" /\ Size \in Nat /\ StreamEnd \in Nat /\ Size <= StreamEnd
      /\ bytes_done \in Nat /\ disk \subseteq Data
      /\ PlanOK'
  BY <1>1, DecodeAssumption DEF IInv, VerdictOK, StreamEnd, Typed, PlanOK
<1>4. CASE Fallback
  <2>1. /\ disk' = {} /\ bytes_done' = 0 /\ pc' = "sequential" /\ outcome' = outcome
        /\ 0..(0 - 1) = {}
    BY <1>4 DEF Fallback, endVars
  <2>2. Typed'
    BY <1>1, <2>1 DEF IInv, Typed
  <2>. QED
    BY <1>2, <1>3, <2>1, <2>2 DEF IInv, FileOK, VerdictOK, OkMeansComplete
<1>5. CASE CannotReopen
  <2>1. disk' = disk /\ bytes_done' = bytes_done /\ pc = "fallback" /\ pc' = "done"
        /\ outcome' = "failed"
    BY <1>5 DEF CannotReopen, JobFailed
  <2>2. Typed'
    BY <1>1, <2>1 DEF IInv, Typed
  <2>3. bytes_done <= Cardinality(disk)
    <3>1. disk = AllDone /\ bytes_done <= written /\ written \in Nat
      BY <2>1 DEF IInv, FileOK, Typed
    <3>2. Cardinality(disk) \in Nat /\ written <= Cardinality(disk)
      BY <1>3, <3>1, FiniteCounts, PhaseFacts
    <3>. QED
      BY <1>3, <3>1, <3>2
  <2>. QED
    BY <1>2, <1>3, <2>1, <2>2, <2>3 DEF IInv, FileOK, VerdictOK, OkMeansComplete
<1>6. CASE SequentialWrite
  <2>1. /\ disk' = disk \cup {bytes_done} /\ bytes_done' = bytes_done + 1 /\ outcome' = outcome
        /\ pc = "sequential" /\ pc' = "sequential" /\ bytes_done < Size
    BY <1>6 DEF SequentialWrite, endVars
  <2>2. disk' = 0..(bytes_done' - 1) /\ bytes_done' <= Size
    BY <1>3, <2>1 DEF IInv, FileOK
  <2>3. Typed'
    <3>1. bytes_done \in Data
      BY <1>3, <2>1 DEF Data
    <3>. QED
      BY <1>1, <1>3, <2>1, <3>1 DEF IInv, Typed
  <2>. QED
    BY <1>2, <1>3, <2>1, <2>2, <2>3 DEF IInv, FileOK, VerdictOK, OkMeansComplete
<1>7. CASE SequentialEnd
  <2>1. /\ disk' = disk /\ bytes_done' = bytes_done /\ pc = "sequential" /\ pc' = "done"
        /\ outcome' = "failed" \/ (outcome' = "ok" /\ bytes_done = Size)
    BY <1>7 DEF SequentialEnd, JobOk, JobFailed
  <2>2. Typed'
    BY <1>1, <2>1 DEF IInv, Typed
  <2>3. disk = 0..(bytes_done - 1)
    BY <2>1 DEF IInv, FileOK
  <2>4. bytes_done <= Cardinality(disk)
    BY <1>3, <2>3, FS_Interval
  <2>5. FileOK' /\ VerdictOK'
    BY <1>3, <2>1, <2>3, <2>4 DEF FileOK, VerdictOK, OkMeansComplete, Unit
  <2>. QED
    BY <1>2, <1>3, <2>2, <2>5 DEF IInv
<1>. QED
  BY <1>4, <1>5, <1>6, <1>7

-------------------------------------------------------------------------------
(* The invariant, and what it is for. *)

(* The invariant holds when extract_one_file begins. *)
LEMMA InitInvariant == DecodeInit => IInv
<1>. SUFFICES ASSUME DecodeInit PROVE IInv
  OBVIOUS
<1>1. Started = {} /\ Gone = {}
  BY DEF DecodeInit, Started, Gone
<1>2. AllDone = {} /\ AllTallied = {} /\ Cardinality({}) = 0
  BY <1>1, FS_EmptySet DEF AllDone, AllTallied
<1>3. Typed /\ PlanOK
  BY DecodeAssumption DEF DecodeInit, Typed, PlanOK
<1>4. RunsOK
  BY DecodeAssumption DEF DecodeInit, RunsOK, Worker
<1>. QED
  BY <1>1, <1>2, <1>3, <1>4
  DEF DecodeInit, IInv, TallyOK, FileOK, VerdictOK, OkMeansComplete, WorkersGoneFirst

(* The invariant is inductive: one lemma above for each action, or for the*)
(* actions that preserve it for the same reason.                           *)
LEMMA NextInvariant == IInv /\ [DecodeNext]_decodeVars => IInv'
<1>. SUFFICES ASSUME IInv, [DecodeNext]_decodeVars PROVE IInv'
  OBVIOUS
<1>1. CASE OpenOutput \/ CannotOpenOutput \/ Sequential \/ Decline
  BY <1>1, CallerBeginsInvariant
<1>2. CASE Plan
  BY <1>2, PlanKeepsInvariant
<1>3. CASE StartWorker
  BY <1>3, StartWorkerKeepsInvariant
<1>4. CASE SkipWorker
  BY <1>4, SkipWorkerKeepsInvariant
<1>5. CASE StartedAll \/ Poll \/ Join
  BY <1>5, WaitKeepsInvariant
<1>6. CASE CloseParallel
  BY <1>6, CloseParallelKeepsInvariant
<1>7. CASE Fallback \/ CannotReopen \/ SequentialWrite \/ SequentialEnd
  BY <1>7, SequentialKeepsInvariant
<1>8. ASSUME NEW i \in Worker, WorkerStep(i) PROVE IInv'
  BY <1>8, WorkerKeepsInvariant
<1>9. CASE UNCHANGED decodeVars
  <2>1. /\ UNCHANGED <<workVars, planVars>> /\ disk' = disk /\ pc' = pc /\ faults' = faults
        /\ bytes_done' = bytes_done /\ outcome' = outcome /\ written' = written
        /\ failed' = failed
    BY <1>9 DEF decodeVars, endVars, workVars
  <2>2. Typed' /\ PlanOK'
    BY <2>1 DEF IInv, Typed, PlanOK, workVars, planVars
  <2>3. FileOK' /\ VerdictOK' /\ WorkersGoneFirst'
    BY <2>1, CallerFrame DEF IInv, FileOK, VerdictOK, OkMeansComplete, WorkersGoneFirst, workVars
  <2>. QED
    BY <2>1, <2>2, <2>3, CallerFrame DEF IInv
<1>. QED
  BY <1>1, <1>2, <1>3, <1>4, <1>5, <1>6, <1>7, <1>8, <1>9 DEF DecodeNext, CallerStep

(* What the invariant says of the numbers: they stay in their ranges.      *)
LEMMA InvariantImplies == IInv => DecodeTypeOK /\ ProgressIsWritten
<1>. SUFFICES ASSUME IInv PROVE DecodeTypeOK /\ ProgressIsWritten
  OBVIOUS
<1>1. /\ StreamEnd \in Nat /\ Size \in Nat /\ MaxThreads \in Nat /\ Size <= StreamEnd
      /\ disk \subseteq Data /\ written \in Nat /\ bytes_done \in Nat
      /\ Cardinality(disk) \in Nat /\ Cardinality(disk) <= StreamEnd
  BY FiniteCounts, DecodeAssumption DEF IInv, Typed, StreamEnd
<1>2. ProgressIsWritten
  <2>1. CASE pc \notin {"sequential", "done"}
    BY <1>1, <2>1, PhaseFacts DEF IInv, FileOK, ProgressIsWritten
  <2>2. CASE pc = "sequential"
    <3>1. Cardinality(0..(bytes_done - 1)) = bytes_done
      BY <1>1, FS_Interval
    <3>. QED
      BY <1>1, <2>2, <3>1 DEF IInv, FileOK, ProgressIsWritten
  <2>3. CASE pc = "done"
    BY <2>3 DEF IInv, FileOK, ProgressIsWritten
  <2>. QED
    BY <2>1, <2>2, <2>3
<1>3. {written, bytes_done} \subseteq 0..StreamEnd
  <2>1. AllDone \subseteq Data /\ written <= Cardinality(AllDone)
    BY PhaseFacts
  <2>2. Cardinality(AllDone) \in Nat /\ Cardinality(AllDone) <= StreamEnd
    BY <2>1, FiniteCounts
  <2>. QED
    BY <1>1, <1>2, <2>1, <2>2 DEF ProgressIsWritten
<1>4. finished \in 0..used
  <2>1. Gone \subseteq Started /\ Started \in SUBSET Worker /\ Gone \in SUBSET Worker
    BY DEF Gone, Started
  <2>2. Cardinality(Gone) <= Cardinality(Started) /\ Cardinality(Gone) \in Nat
    BY <2>1, FiniteCounts, FS_Subset
  <2>. QED
    BY <2>2 DEF IInv, TallyOK, Typed
<1>5. produced \in [Worker -> 0..StreamEnd]
  <2>. SUFFICES ASSUME NEW i \in Worker PROVE produced[i] \in 0..StreamEnd
    BY DEF IInv, Typed
  <2>1. CASE wpc[i] = "none"
    BY <1>1, <2>1 DEF IInv, RunsOK
  <2>2. CASE wpc[i] # "none"
    <3>1. From(i) + produced[i] <= StreamEnd /\ i < next
      BY <2>2 DEF IInv, RunsOK
    <3>2. i \in 0..(threads - 1)
      BY <3>1, DecodeAssumption DEF IInv, PlanOK, Typed, Worker
    <3>3. From(i) \in 0..StreamEnd /\ produced[i] \in Nat
      BY <3>2, RunFacts DEF IInv, Typed
    <3>. QED
      BY <1>1, <3>1, <3>3
  <2>. QED
    BY <2>1, <2>2
<1>6. {threads, next} \subseteq 0..MaxThreads /\ used \in 0..next
  BY <1>1 DEF IInv, Typed, PlanOK
<1>7. disk \subseteq Unit \cup Stray
  BY <1>1 DEF Data, Unit, Stray
<1>. QED
  BY <1>2, <1>3, <1>4, <1>5, <1>6, <1>7 DEF IInv, Typed, DecodeTypeOK

(* The counters and offsets stay within the data and the workers, however  *)
(* long the poll loop runs and whatever the workers do (sevenz_worker,     *)
(* sevenz_extract_parallel).                                               *)
THEOREM DecodeTypes == DecodeSpec => []DecodeTypeOK
<1>1. IInv => DecodeTypeOK
  BY InvariantImplies
<1>. QED
  BY <1>1, InitInvariant, NextInvariant, PTL DEF DecodeSpec

(* An entry that counts as extracted is complete and has nothing else in   *)
(* it, except after an Overrun (sevenz_extract_parallel's verdict).        *)
THEOREM OkIsComplete == DecodeSpec => []OkMeansComplete
<1>1. IInv => OkMeansComplete
  BY DEF IInv, VerdictOK
<1>. QED
  BY <1>1, InitInvariant, NextInvariant, PTL DEF DecodeSpec

(* No worker is left when descriptor, file and mutex go (ua_be_7z.c:965).  *)
THEOREM WorkersAreGone == DecodeSpec => []WorkersGoneFirst
<1>1. IInv => WorkersGoneFirst
  BY DEF IInv
<1>. QED
  BY <1>1, InitInvariant, NextInvariant, PTL DEF DecodeSpec

(* The progress shown is never ahead of the file (on_parallel_bytes).      *)
THEOREM ProgressIsBehind == DecodeSpec => []ProgressIsWritten
<1>1. IInv => ProgressIsWritten
  BY InvariantImplies
<1>. QED
  BY <1>1, InitInvariant, NextInvariant, PTL DEF DecodeSpec

-------------------------------------------------------------------------------
(* Refinement. *)

(* A step of the code is a step of the abstract entry, or shows nothing:   *)
(* what is shown turns to "ok" only in CloseParallel and SequentialEnd,    *)
(* with the whole entry in the file, and nothing moves after that.         *)
LEMMA StepRefines ==
  ASSUME IInv, IInv', [DecodeNext]_decodeVars
  PROVE  [Entry!EntryNext]_(Entry!entryVars)
<1>. USE DEF Entry!entryVars
<1>1. disk' \in SUBSET (Unit \cup Stray)
  <2>1. DecodeTypeOK'
    BY InvariantImplies, PTL
  <2>. QED
    BY <2>1 DEF DecodeTypeOK
<1>2. outcome = "none" => Shown = "none"
  BY DEF Shown
<1>3. CASE outcome = "none" /\ outcome' = "none"
  BY <1>1, <1>2, <1>3 DEF Shown, Entry!EntryNext, Entry!Work
<1>4. CASE outcome = "none" /\ outcome' = "failed" /\ disk' = disk
  BY <1>2, <1>4 DEF Shown, Entry!EntryNext, Entry!Fail
<1>5. CASE outcome = "none" /\ outcome' = "ok" /\ disk' = disk
  <2>1. CASE Overrun'
    BY <1>2, <1>5, <2>1 DEF Shown, Entry!EntryNext, Entry!Fail
  <2>2. CASE ~Overrun'
    <3>1. disk' = Unit
      BY <1>5, <2>2 DEF IInv, VerdictOK, OkMeansComplete
    <3>. QED
      BY <1>2, <1>5, <2>2, <3>1 DEF Shown, Entry!EntryNext, Entry!Succeed
  <2>. QED
    BY <2>1, <2>2
<1>6. CASE UNCHANGED decodeVars
  <2>1. /\ disk' = disk /\ outcome' = outcome /\ failed' = failed /\ written' = written
        /\ UNCHANGED <<workVars, planVars>>
    BY <1>6 DEF decodeVars, endVars, workVars
  <2>. QED
    BY <2>1, CallerFrame DEF Shown
<1>7. CASE DecodeNext /\ outcome # "none"
  <2>1. pc = "done"
    BY <1>7 DEF IInv, VerdictOK
  <2>2. \A i \in Worker : ~WorkerStep(i)
    BY <2>1, WorkerFrame
  <2>. QED
    BY <1>7, <2>1, <2>2
    DEF DecodeNext, CallerStep, OpenOutput, CannotOpenOutput, Sequential, Decline, Plan,
        StartWorker, SkipWorker, StartedAll, Poll, Join, CloseParallel, Fallback, CannotReopen,
        SequentialWrite, SequentialEnd
<1>8. CASE DecodeNext /\ outcome = "none" /\ outcome' # "none"
  <2>1. CallerStep
    BY <1>8 DEF DecodeNext, WorkerStep
  <2>2. outcome' \in {"ok", "failed"} /\ disk' = disk
    BY <1>8, <2>1
    DEF CallerStep, OpenOutput, CannotOpenOutput, Sequential, Decline, Plan, StartWorker,
        SkipWorker, StartedAll, Poll, Join, CloseParallel, Fallback, CannotReopen,
        SequentialWrite, SequentialEnd, JobOk, JobFailed, endVars
  <2>. QED
    BY <1>4, <1>5, <1>8, <2>2
<1>. QED
  BY <1>3, <1>6, <1>7, <1>8

(* The parallel decoder implements the extraction of an entry that the     *)
(* rest of the job relies on (EntryExtract): however many threads decode,  *)
(* however often it starts over, and except for an Overrun.                *)
THEOREM DecodeImplementsEntry == DecodeSpec => ImplementsEntry
<1>1. DecodeInit => Entry!EntryInit
  BY DEF DecodeInit, Entry!EntryInit, Shown
<1>2. IInv /\ IInv' /\ [DecodeNext]_decodeVars => [Entry!EntryNext]_(Entry!entryVars)
  BY StepRefines
<1>. QED
  BY <1>1, <1>2, InitInvariant, NextInvariant, PTL DEF DecodeSpec, ImplementsEntry, Entry!EntrySpec
===============================================================================
