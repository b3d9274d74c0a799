--------------------------- MODULE StatusRingProofs ---------------------------
(***************************************************************************)
(* Proofs about queue.status for every ring size, every set of archives    *)
(* and every way a path may fail to survive being written and parsed.      *)
(***************************************************************************)
EXTENDS StatusRing, SequenceTheorems, TLAPS

Ring == {s \in Seq(Rec) : Len(s) <= UA_STATUS_MAX}

-------------------------------------------------------------------------------
(* The operators on rings. *)

(* A record stays a record when its key or its result is replaced, and     *)
(* then has the new value in that field (the assignments in record).       *)
LEMMA RecordFields ==
  ASSUME NEW x \in Rec
  PROVE  /\ x.key \in Key
         /\ \A r \in Result : /\ [x EXCEPT !.result = r] \in Rec
                              /\ [x EXCEPT !.result = r].key = x.key
         /\ \A k \in Key : /\ [x EXCEPT !.key = k] \in Rec
                           /\ [x EXCEPT !.key = k].key = k
BY DEF Rec

(* A function on 1..n is a sequence of length n. *)
LEMMA FunctionIsSequence ==
  ASSUME NEW S, NEW n \in Nat, NEW f \in [1..n -> S]
  PROVE  f \in Seq(S) /\ Len(f) = n /\ DOMAIN f = 1..n
OBVIOUS

(* Parsing a line twice changes nothing more (parse_line). *)
LEMMA RereadProperties ==
  ASSUME NEW k \in Key
  PROVE  Reread(k) \in Key /\ Reread(Reread(k)) = Reread(k)
BY ReadBackAssumption DEF Key, Reread

(* What ua_status_open reads from a file that flush wrote. *)
LEMMA LoadedProperties ==
  ASSUME NEW s \in Ring
  PROVE  /\ Loaded(s) \in Ring
         /\ KeysOf(Loaded(s)) = {Reread(k) : k \in KeysOf(s)}
<1>1. Len(s) \in Nat /\ DOMAIN s = 1..Len(s) /\ Capped(Len(s)) = Len(s)
  BY StatusMaxAssumption DEF Ring, Capped
<1>2. Loaded(s) = [i \in 1..Len(s) |-> [s[i] EXCEPT !.key = Reread(s[i].key)]]
  BY <1>1 DEF Loaded
<1>. DEFINE Line(i) == [s[i] EXCEPT !.key = Reread(s[i].key)]
<1>3. \A i \in 1..Len(s) : Line(i) \in Rec /\ Line(i).key = Reread(s[i].key)
  <2>. SUFFICES ASSUME NEW i \in 1..Len(s)
                PROVE  Line(i) \in Rec /\ Line(i).key = Reread(s[i].key)
    OBVIOUS
  <2>1. s[i] \in Rec
    BY <1>1 DEF Ring
  <2>2. Reread(s[i].key) \in Key
    BY <2>1, RecordFields, RereadProperties
  <2>. QED
    BY <2>1, <2>2, RecordFields
<1>4. Loaded(s) = [i \in 1..Len(s) |-> Line(i)]
  BY <1>2
<1>. HIDE DEF Line
<1>5. Loaded(s) \in [1..Len(s) -> Rec]
  BY <1>3, <1>4
<1>6. Loaded(s) \in Seq(Rec) /\ Len(Loaded(s)) = Len(s) /\ DOMAIN Loaded(s) = 1..Len(s)
  BY <1>1, <1>5, FunctionIsSequence
<1>7. \A i \in 1..Len(s) : Loaded(s)[i].key = Reread(s[i].key)
  BY <1>3, <1>4
<1>. QED
  BY <1>1, <1>6, <1>7 DEF Ring, KeysOf

(* Dropping the oldest record of a full ring makes room for one more and   *)
(* gives up one key at most (ua_status_record).                            *)
LEMMA RoomProperties ==
  ASSUME NEW s \in Ring
  PROVE  /\ Room(s) \in Seq(Rec)
         /\ Len(Room(s)) < UA_STATUS_MAX
         /\ Len(s) <= Len(Room(s)) + 1
         /\ KeysOf(Room(s)) \subseteq KeysOf(s)
         /\ KeysOf(s) \ KeysOf(Room(s)) \subseteq {s[1].key}
         /\ Room(s) # s => Len(s) = UA_STATUS_MAX
<1>1. s \in Seq(Rec) /\ Len(s) \in Nat /\ Len(s) <= UA_STATUS_MAX /\ UA_STATUS_MAX \in Nat \ {0}
  BY StatusMaxAssumption DEF Ring
<1>2. CASE Len(s) # UA_STATUS_MAX
  BY <1>1, <1>2 DEF Room, KeysOf
<1>3. CASE Len(s) = UA_STATUS_MAX
  <2>1. /\ Room(s) = Tail(s) /\ s # <<>>
    BY <1>1, <1>3 DEF Room
  <2>2. /\ Tail(s) \in Seq(Rec) /\ Len(Tail(s)) = Len(s) - 1
        /\ \A i \in 1..Len(Tail(s)) : Tail(s)[i] = s[i + 1]
    BY <1>1, <2>1
  <2>3. DOMAIN s = 1..Len(s) /\ DOMAIN Tail(s) = 1..(Len(s) - 1)
    BY <1>1, <2>2
  <2>4. KeysOf(Tail(s)) \subseteq KeysOf(s)
    BY <1>1, <2>2, <2>3 DEF KeysOf
  <2>5. KeysOf(s) \ KeysOf(Tail(s)) \subseteq {s[1].key}
    <3>. SUFFICES ASSUME NEW i \in 1..Len(s), i # 1 PROVE s[i].key \in KeysOf(Tail(s))
      BY <2>3 DEF KeysOf
    <3>1. i - 1 \in 1..(Len(s) - 1) /\ (i - 1) + 1 = i
      BY <1>1
    <3>. QED
      BY <2>2, <2>3, <3>1 DEF KeysOf
  <2>. QED
    BY <1>1, <1>3, <2>1, <2>2, <2>4, <2>5
<1>. QED
  BY <1>2, <1>3

(* ua_status_record turns a ring into a ring that has the key; it gives up *)
(* another one only when it was full, and then one at most.                *)
LEMMA RecordedProperties ==
  ASSUME NEW s \in Ring, NEW k \in Key, NEW r \in Result
  PROVE  /\ Recorded(s, k, r) \in Ring
         /\ Len(Recorded(s, k, r)) >= Len(s)
         /\ \E dropped \in SUBSET (KeysOf(s) \ {k}) :
              /\ KeysOf(Recorded(s, k, r)) = (KeysOf(s) \ dropped) \cup {k}
              /\ \A a, b \in dropped : a = b
              /\ dropped # {} => Len(s) = UA_STATUS_MAX
<1>. DEFINE t == Recorded(s, k, r)
<1>0. /\ s \in Seq(Rec) /\ Len(s) \in Nat /\ Len(s) <= UA_STATUS_MAX
      /\ DOMAIN s = 1..Len(s) /\ \A i \in 1..Len(s) : s[i] \in Rec
  BY DEF Ring
<1>1. CASE k \in KeysOf(s)
  <2>. DEFINE New(i) == IF IsFirst(s, i, k) THEN r ELSE s[i].result
              Upd(i) == [s[i] EXCEPT !.result = New(i)]
  <2>1. t = [i \in 1..Len(s) |-> Upd(i)]
    BY <1>0, <1>1 DEF Recorded
  <2>2. \A i \in 1..Len(s) : Upd(i) \in Rec /\ Upd(i).key = s[i].key
    <3>. SUFFICES ASSUME NEW i \in 1..Len(s) PROVE Upd(i) \in Rec /\ Upd(i).key = s[i].key
      OBVIOUS
    <3>1. New(i) \in Result
      BY <1>0 DEF Rec
    <3>. HIDE DEF New
    <3>. QED
      BY <1>0, <3>1, RecordFields
  <2>. HIDE DEF Upd, t
  <2>3. t \in Seq(Rec) /\ Len(t) = Len(s) /\ DOMAIN t = 1..Len(s)
    <3>1. t \in [1..Len(s) -> Rec]
      BY <2>1, <2>2
    <3>. QED
      BY <1>0, <3>1, FunctionIsSequence
  <2>4. KeysOf(t) = (KeysOf(s) \ {}) \cup {k}
    BY <1>0, <1>1, <2>1, <2>2, <2>3 DEF KeysOf
  <2>5. \E dropped \in SUBSET (KeysOf(s) \ {k}) :
          /\ KeysOf(t) = (KeysOf(s) \ dropped) \cup {k}
          /\ \A a, b \in dropped : a = b
          /\ dropped # {} => Len(s) = UA_STATUS_MAX
    BY <2>4
  <2>6. t \in Ring /\ Len(t) >= Len(s)
    BY <1>0, <2>3 DEF Ring
  <2>. QED
    BY <2>5, <2>6 DEF t
<1>2. CASE k \notin KeysOf(s)
  <2>. DEFINE new == [key |-> k, result |-> r]
              dropped == KeysOf(s) \ KeysOf(Room(s))
  <2>1. t = Append(Room(s), new) /\ new \in Rec /\ new.key = k
    BY <1>2 DEF Recorded, Rec
  <2>2. /\ Room(s) \in Seq(Rec) /\ Len(Room(s)) \in Nat /\ Len(Room(s)) < UA_STATUS_MAX
        /\ DOMAIN Room(s) = 1..Len(Room(s))
    BY RoomProperties
  <2>. HIDE DEF new
  <2>3. /\ t \in Seq(Rec) /\ Len(t) = Len(Room(s)) + 1 /\ DOMAIN t = 1..(Len(Room(s)) + 1)
        /\ \A i \in 1..Len(Room(s)) : t[i] = Room(s)[i]
        /\ t[Len(Room(s)) + 1] = new
    BY <2>1, <2>2
  <2>. HIDE DEF t
  <2>4. KeysOf(t) = KeysOf(Room(s)) \cup {k}
    <3>1. \A i \in DOMAIN t : i \in 1..Len(Room(s)) \/ i = Len(Room(s)) + 1
      BY <2>2, <2>3
    <3>2. 1..Len(Room(s)) \subseteq DOMAIN t /\ Len(Room(s)) + 1 \in DOMAIN t
      BY <2>2, <2>3
    <3>. QED
      BY <2>1, <2>2, <2>3, <3>1, <3>2 DEF KeysOf
  <2>5. /\ dropped \in SUBSET (KeysOf(s) \ {k})
        /\ KeysOf(t) = (KeysOf(s) \ dropped) \cup {k}
        /\ \A a, b \in dropped : a = b
        /\ dropped # {} => Len(s) = UA_STATUS_MAX
    BY <1>2, <2>4, RoomProperties
  <2>6. Len(t) <= UA_STATUS_MAX /\ Len(t) >= Len(s)
    BY <1>0, <2>2, <2>3, StatusMaxAssumption, RoomProperties
  <2>7. t \in Ring
    BY <2>3, <2>6 DEF Ring
  <2>. QED
    BY <2>5, <2>6, <2>7 DEF t
<1>. QED
  BY <1>1, <1>2
-------------------------------------------------------------------------------
(* The invariant: the pending temporary file holds all of memory, which is *)
(* what makes the rename a complete save.                                  *)
TempIsMemory == phase = "rename" => tmp = rec

RingInv == /\ {rec, file, tmp} \subseteq Ring
           /\ phase \in {"down", "idle", "write", "rename"}
           /\ saved \in BOOLEAN
           /\ TempIsMemory
           /\ SavedIsDurable

(* The ring of a program that has just started, before the file is read. *)
LEMMA EmptyRing == <<>> \in Ring /\ KeysOf(<<>>) = {}
BY StatusMaxAssumption DEF Ring, KeysOf

(* What a rewrite leaves in the file is what a restart will know. *)
LEMMA RewriteIsComplete ==
  ASSUME NEW s \in Ring
  PROVE  KeysOf(Loaded(s)) = {Reread(k) : k \in KeysOf(s)}
BY LoadedProperties

(* ua_status_open finds the same keys in the file it has just read as in   *)
(* memory, because a path that survived one reading survives all.          *)
LEMMA ReloadIsStable ==
  ASSUME NEW s \in Ring
  PROVE  KeysOf(Loaded(s)) = {Reread(k) : k \in KeysOf(Loaded(s))}
<1>1. \A k \in KeysOf(s) : k \in Key
  <2>. SUFFICES ASSUME NEW i \in DOMAIN s PROVE s[i].key \in Key
    BY DEF KeysOf
  <2>1. s[i] \in Rec
    BY DEF Ring
  <2>. QED
    BY <2>1, RecordFields
<1>2. \A k \in KeysOf(s) : Reread(Reread(k)) = Reread(k)
  BY <1>1, RereadProperties
<1>. QED
  BY <1>2, LoadedProperties

(* The first records of a ring are a ring of some of its records. *)
LEMMA PrefixProperties ==
  ASSUME NEW s \in Ring, NEW n \in 0..Len(s)
  PROVE  /\ SubSeq(s, 1, n) \in Ring
         /\ KeysOf(SubSeq(s, 1, n)) \subseteq KeysOf(s)
         /\ Len(SubSeq(s, 1, n)) = n
         /\ \A i \in 1..n : SubSeq(s, 1, n)[i] = s[i]
<1>1. s \in Seq(Rec) /\ Len(s) \in Nat /\ Len(s) <= UA_STATUS_MAX /\ DOMAIN s = 1..Len(s)
  BY DEF Ring
<1>. DEFINE t == SubSeq(s, 1, n)
<1>2. /\ t \in Seq(Rec) /\ Len(t) = n /\ DOMAIN t = 1..n
      /\ \A i \in 1..n : t[i] = s[i]
  BY <1>1
<1>. HIDE DEF t
<1>3. t \in Ring
  BY <1>1, <1>2, StatusMaxAssumption DEF Ring
<1>4. KeysOf(t) \subseteq KeysOf(s)
  BY <1>1, <1>2 DEF KeysOf
<1>. QED
  BY <1>2, <1>3, <1>4 DEF t

(* ua_status_open, whether it reads all of the file or stops early: the    *)
(* ring is the first of the records that the file holds.                   *)
LEMMA OpenProperties ==
  ASSUME NEW f \in Ring, f = file, Open
  PROVE  /\ rec' \in Ring
         /\ KeysOf(rec') \subseteq KeysOf(Loaded(file))
         /\ saved' \in BOOLEAN
         /\ saved' = TRUE => rec' = Loaded(file)
<1>1. Loaded(f) \in Ring
  BY LoadedProperties
<1>2. PICK n \in 0..Len(Loaded(f)) : rec' = SubSeq(Loaded(f), 1, n)
  BY DEF Open
<1>3. saved' = IF rec' = Loaded(f) THEN TRUE ELSE FALSE
  BY DEF Open
<1>. QED
  BY <1>1, <1>2, <1>3, PrefixProperties

(* ua_status_forget: what is left is a ring of some of the same records. *)
LEMMA ForgetProperties ==
  ASSUME NEW p \in Path, Forget(p), rec \in Ring
  PROVE  rec' \in Ring /\ Len(rec') <= Len(rec) /\ KeysOf(rec') \subseteq KeysOf(rec)
<1>. DEFINE kept == {i \in DOMAIN rec : rec[i].key.path # p}
<1>0. PICK n \in 0..Len(rec) :
        \E at \in [1..n -> kept] : rec' = [i \in 1..n |-> rec[at[i]]]
  BY DEF Forget
<1>1. PICK at \in [1..n -> kept] : rec' = [i \in 1..n |-> rec[at[i]]]
  BY <1>0
<1>2. rec \in Seq(Rec) /\ Len(rec) \in Nat /\ Len(rec) <= UA_STATUS_MAX /\ n \in Nat /\ n <= Len(rec)
  BY DEF Ring
<1>3. \A i \in 1..n : at[i] \in DOMAIN rec /\ rec[at[i]] \in Rec
  BY <1>1, <1>2
<1>4. rec' \in [1..n -> Rec]
  BY <1>1, <1>3
<1>5. rec' \in Seq(Rec) /\ Len(rec') = n /\ DOMAIN rec' = 1..n
  BY <1>2, <1>4, FunctionIsSequence
<1>6. KeysOf(rec') \subseteq KeysOf(rec)
  BY <1>1, <1>3, <1>5 DEF KeysOf
<1>. QED
  BY <1>2, <1>5, <1>6, StatusMaxAssumption DEF Ring

(* The invariant holds when the program starts. *)
LEMMA InitEstablishesRingInv == StatusInit => RingInv
BY EmptyRing DEF StatusInit, RingInv, TempIsMemory, SavedIsDurable

(* Every call, every system call of a rewrite and every crash preserves    *)
(* the invariant; a rename needs TempIsMemory, that what it moves over the *)
(* file is still the ring of the call that wrote it.                       *)
LEMMA NextPreservesRingInv ==
  ASSUME RingInv, [StatusNext]_statusVars
  PROVE  RingInv'
<1>. USE DEF RingInv
<1>1. CASE Open
  <2>1. rec' \in Ring /\ saved' \in BOOLEAN /\ (saved' = TRUE => rec' = Loaded(file))
    BY <1>1, OpenProperties
  <2>2. saved' => KeysOf(Loaded(file)) = {Reread(k) : k \in KeysOf(rec')}
    BY <2>1, ReloadIsStable
  <2>. QED
    BY <1>1, <2>1, <2>2 DEF Open, TempIsMemory, SavedIsDurable
<1>2. ASSUME NEW k \in Key, NEW r \in Result, Record(k, r)
      PROVE  RingInv'
  <2>1. rec' \in Ring
    BY <1>2, RecordedProperties DEF Record
  <2>. QED
    BY <1>2, <2>1 DEF Record, TempIsMemory, SavedIsDurable
<1>3. ASSUME NEW p \in Path, Forget(p)
      PROVE  RingInv'
  <2>1. rec' \in Ring
    BY <1>3, ForgetProperties
  <2>. QED
    BY <1>3, <2>1 DEF Forget, TempIsMemory, SavedIsDurable
<1>4. CASE WriteTemp
  BY <1>4 DEF WriteTemp, TempIsMemory, SavedIsDurable
<1>5. CASE WriteTempFails
  BY <1>5 DEF WriteTempFails, TempIsMemory, SavedIsDurable
<1>6. CASE Rename
  <2>1. file' = rec /\ rec' = rec
    BY <1>6 DEF Rename, TempIsMemory
  <2>2. KeysOf(Loaded(file')) = {Reread(k) : k \in KeysOf(rec')}
    BY <2>1, RewriteIsComplete
  <2>. QED
    BY <1>6, <2>1, <2>2, EmptyRing DEF Rename, TempIsMemory, SavedIsDurable
<1>7. CASE RenameFails
  BY <1>7, EmptyRing DEF RenameFails, TempIsMemory, SavedIsDurable
<1>8. CASE Down
  BY <1>8, EmptyRing DEF Down, TempIsMemory, SavedIsDurable
<1>9. CASE UNCHANGED statusVars
  BY <1>9 DEF statusVars, TempIsMemory, SavedIsDurable
<1>. QED
  BY <1>1, <1>2, <1>3, <1>4, <1>5, <1>6, <1>7, <1>8, <1>9 DEF StatusNext, Flush

(* The invariant holds of every reachable state. *)
THEOREM RingInvariant == StatusSpec => []RingInv
BY InitEstablishesRingInv, NextPreservesRingInv, PTL DEF StatusSpec

(* The type invariant: in particular neither memory nor the file ever      *)
(* holds more than UA_STATUS_MAX records.                                  *)
THEOREM StatusTypes == StatusSpec => []StatusTypeOK
<1>1. RingInv => StatusTypeOK
  BY DEF RingInv, Ring, StatusTypeOK
<1>. QED
  BY <1>1, RingInvariant, PTL

(* A successful save is complete: whatever calls failed before it, the     *)
(* file holds every record that memory does (ua_status_record, flush).     *)
THEOREM SavedRecordsSurvive == StatusSpec => []SavedIsDurable
BY RingInvariant, PTL DEF RingInv

-------------------------------------------------------------------------------
(* The refinement, one lemma per kind of step. *)

(* ua_status_open starts with what the file holds, or with some of it. *)
LEMMA OpenIsStart ==
  ASSUME RingInv, Open
  PROVE  Ledger!Start
<1>1. /\ KeysOf(rec') \subseteq {Reread(k) : k \in KeysOf(file)}
      /\ saved' = TRUE => KeysOf(rec') = {Reread(k) : k \in KeysOf(file)}
      /\ Len(rec') \in 0..UA_STATUS_MAX
  <2>1. Loaded(file) \in Ring /\ KeysOf(Loaded(file)) = {Reread(k) : k \in KeysOf(file)}
    BY LoadedProperties DEF RingInv
  <2>2. /\ rec' \in Ring /\ KeysOf(rec') \subseteq KeysOf(Loaded(file))
        /\ saved' = TRUE => rec' = Loaded(file)
    BY OpenProperties DEF RingInv
  <2>3. Len(rec') \in 0..UA_STATUS_MAX
    BY <2>2, StatusMaxAssumption DEF Ring
  <2>. QED
    BY <2>1, <2>2, <2>3
<1>2. KeysOf(file) \subseteq Key
  <2>. SUFFICES ASSUME NEW i \in DOMAIN file PROVE file[i].key \in Key
    BY DEF KeysOf
  <2>1. file[i] \in Rec
    BY DEF RingInv, Ring
  <2>. QED
    BY <2>1, RecordFields
<1>3. {[k \in Key |-> Reread(k)][j] : j \in KeysOf(file)} = {Reread(k) : k \in KeysOf(file)}
  BY <1>2
<1>. QED
  BY <1>1, <1>3 DEF Open, Ledger!Start

(* ua_status_record learns a key and gives up one at most, of a full ring. *)
LEMMA RecordIsLearn ==
  ASSUME RingInv, NEW k \in Key, NEW r \in Result, Record(k, r)
  PROVE  Ledger!Learn
<1>1. rec \in Ring /\ rec' = Recorded(rec, k, r)
  BY DEF RingInv, Record
<1>2. PICK dropped \in SUBSET (KeysOf(rec) \ {k}) :
        /\ KeysOf(rec') = (KeysOf(rec) \ dropped) \cup {k}
        /\ \A a, b \in dropped : a = b
        /\ dropped # {} => Len(rec) = UA_STATUS_MAX
  BY <1>1, RecordedProperties
<1>4. Len(rec') \in Len(rec)..UA_STATUS_MAX
  <2>1. rec' \in Ring /\ Len(rec') >= Len(rec)
    BY <1>1, RecordedProperties
  <2>. QED
    BY <1>1, <2>1, StatusMaxAssumption DEF Ring
<1>5. \E d \in SUBSET KeysOf(rec) :
         /\ k \notin d
         /\ \A a, b \in d : a = b
         /\ d # {} => Len(rec) = UA_STATUS_MAX
         /\ KeysOf(rec') = (KeysOf(rec) \ d) \cup {k}
  <2>1. dropped \in SUBSET KeysOf(rec) /\ k \notin dropped
    OBVIOUS
  <2>. QED
    BY <1>2, <2>1
<1>. QED
  BY <1>4, <1>5 DEF Record, Ledger!Learn

(* ua_status_forget gives up a key and learns none. *)
LEMMA ForgetIsDrop ==
  ASSUME RingInv, NEW p \in Path, Forget(p)
  PROVE  Ledger!Drop
<1>1. rec \in Ring
  BY DEF RingInv
<1>2. Len(rec') \in 0..Len(rec) /\ KeysOf(rec') \in SUBSET KeysOf(rec)
  BY <1>1, ForgetProperties DEF Ring
<1>3. phase = "idle" /\ phase' = "write" /\ UNCHANGED <<file, saved>>
  BY DEF Forget
<1>. QED
  BY <1>2, <1>3 DEF Ledger!Drop

(* The rest: a rename stores, closing or crashing stops, and the calls     *)
(* that lead up to a rename, or fail, change nothing that is promised.     *)
LEMMA OtherSteps ==
  ASSUME RingInv
  PROVE  /\ Rename => Ledger!Store
         /\ Down => Ledger!Stop
         /\ WriteTempFails \/ RenameFails => Ledger!StoreFails
         /\ WriteTemp \/ UNCHANGED statusVars => UNCHANGED Ledger!ledgerVars
<1>1. Rename => Ledger!Store
  BY DEF RingInv, TempIsMemory, Rename, Ledger!Store
<1>2. Down => Ledger!Stop
  BY EmptyRing DEF Down, Ledger!Stop
<1>3. WriteTemp \/ UNCHANGED statusVars => UNCHANGED Ledger!ledgerVars
  BY DEF WriteTemp, statusVars, Ledger!ledgerVars
<1>4. WriteTempFails \/ RenameFails => Ledger!StoreFails
  BY DEF WriteTempFails, RenameFails, Ledger!StoreFails
<1>. QED
  BY <1>1, <1>2, <1>3, <1>4

(* queue.status implements the ledger: saves are atomic, memory gives up a *)
(* record only for another one when the ring is full, and a restart at any *)
(* moment knows exactly what the last completed rename stored, unless it   *)
(* cannot read it, and then a part of that and nothing else.               *)
THEOREM RingImplementsLedger == StatusSpec => ImplementsLedger
<1>1. StatusInit => Ledger!LedgerInit
  BY EmptyRing DEF StatusInit, Ledger!LedgerInit
<1>2. RingInv /\ [StatusNext]_statusVars => [Ledger!LedgerNext]_(Ledger!ledgerVars)
  BY OpenIsStart, RecordIsLearn, ForgetIsDrop, OtherSteps
     DEF StatusNext, Flush, Ledger!LedgerNext
<1>. QED
  BY <1>1, <1>2, RingInvariant, PTL DEF StatusSpec, ImplementsLedger, Ledger!LedgerSpec
===============================================================================
