-------------------------- MODULE DetectMainProofs --------------------------
(***************************************************************************)
(* Proofs about module DetectMain, for every pair of well-formed files: the*)
(* merge hands offline_detection a log in the order module Detector takes  *)
(* for granted, and loses no new record.                                   *)
(***************************************************************************)
EXTENDS DetectMain, DetectorProofs, LeastElement

\* The last record detected is older than everything still to be read.
BehindFiles ==
  \A i \in DOMAIN files.raw :
    i > raw_read /\ files.raw[i].no # 0 => log.no < files.raw[i].no

\* Or it is a new record with the number of the current raw record, and so are
\* all those seen under that number.
AmongNew ==
  /\ RawLeft
  /\ raw_record.type = "MEMORY_OP"
  /\ log.no = raw_record.no /\ log.tid = raw_record.op.tid
  /\ \A p \in log.pips : \E r \in files.new \ index_ip_set : r.no = log.no /\ r.pip = p

MainTyped ==
  /\ files \in Logs
  /\ raw_read \in Nat
  /\ index_ip_set \subseteq files.new
  /\ merging = (files.new # {})

MInv ==
  /\ MainTyped
  /\ NewBeforeRaw
  /\ log \in [no : Nat, tid : Thread, pips : SUBSET Pip]
  /\ BehindFiles \/ AmongNew
  /\ AllNewDetected

-----------------------------------------------------------------------------
(* The files *)

\* The key operator< compares, record_no_ and pip, is a pair of naturals.
LEMMA RecordNumbers ==
  \A r \in Record : r.no \in Nat \ {0} /\ r.pip \in Nat
  BY NaturalsAssumption, Zenon DEF Record

\* The first of a non-empty set of new records in the order of operator<, where
\* index_ip_set_iter points (detect.cc:610), has the lowest number.
LEMMA FirstOfSet ==
  ASSUME NEW S \in SUBSET Record, S # {},
         \A r, s \in S : r.no = s.no /\ r.pip = s.pip => r = s
  PROVE  First(S) \in S /\ \A s \in S : First(S).no <= s.no
<1> DEFINE Numbers == {r.no : r \in S}
<1>1. \A r \in S : r.no \in Nat /\ r.pip \in Nat
  BY RecordNumbers, Zenon
<1>2. PICK r1 \in S : \A s \in S : r1.no <= s.no
  <2>1. Numbers \in SUBSET Nat /\ Numbers # {}
    BY <1>1, Zenon
  <2>2. PICK n \in Numbers : \A m \in Numbers : n <= m
    BY <2>1, LeastNatural, Zenon
  <2>3. PICK r \in S : r.no = n
    BY <2>2, Zenon
  <2>4. \A s \in S : s.no \in Numbers
    BY Zenon
  <2> QED BY <2>2, <2>3, <2>4, Zenon
<1> DEFINE Pips == {r.pip : r \in {s \in S : s.no = r1.no}}
<1>3. PICK r2 \in S : r2.no = r1.no /\ \A s \in S : s.no = r1.no => r2.pip <= s.pip
  <2>1. r1.pip \in Pips /\ Pips \in SUBSET Nat
    BY <1>1
  <2>2. PICK n \in Pips : \A m \in Pips : n <= m
    BY <2>1, LeastNatural, Zenon
  <2>3. PICK r \in S : r.no = r1.no /\ r.pip = n
    BY <2>2, Zenon
  <2>4. \A s \in S : s.no = r1.no => s.pip \in Pips
    BY Zenon
  <2> QED BY <2>2, <2>3, <2>4, Zenon
<1>4. ASSUME NEW s \in S \ {r2}
      PROVE  Less(r2, s)
  <2>1. r1.no <= s.no /\ (s.no = r1.no => r2.pip <= s.pip)
    BY <1>2, <1>3
  <2>2. ~(r2.no = s.no /\ r2.pip = s.pip)
    BY <1>4, Zenon
  <2> QED BY <1>1, <1>3, <2>1, <2>2 DEF Less
<1>5. First(S) \in S /\ \A s \in S \ {First(S)} : Less(First(S), s)
  BY <1>4, Zenon DEF First
<1>6. ASSUME NEW s \in S
      PROVE  First(S).no <= s.no
  <2>1. CASE s = First(S)
    <3>1. First(S).no \in Nat
      BY <1>1, <1>5, Zenon
    <3> QED BY <2>1, <3>1
  <2>2. CASE s # First(S)
    <3>1. Less(First(S), s)
      BY <1>5, <2>2, Zenon
    <3>2. First(S).no \in Nat /\ s.no \in Nat
      BY <1>1, <1>5, Zenon
    <3> QED BY <3>1, <3>2 DEF Less
  <2> QED BY <2>1, <2>2, Zenon
<1> QED BY <1>5, <1>6, Zenon

\* A pair of files in the state main reads it in.
LEMMA LogFiles ==
  ASSUME files \in Logs
  PROVE  /\ files.raw \in Seq(RawEntry)
         /\ files.new \in SUBSET Record
         /\ WellFormed(files.raw, files.new)
  BY LogsAssumption, Zenon

\* The two kinds of record offline_detection acts on.
LEMMA RawEntries ==
  ASSUME NEW e \in RawEntry
  PROVE  /\ e.no \in Nat
         /\ e.type \in {"MEMORY_OP", "MEMORY_ALLOC", "none"}
         /\ e.type = "MEMORY_OP" => e.no \in RecordNo /\ e.op \in Record
         /\ e.type = "MEMORY_ALLOC" =>
              e.no \in RecordNo /\ e.start \in Address /\ e.size \in Size
<1>1. CASE e \in [type : {"MEMORY_OP"}, no : RecordNo, op : Record]
  BY <1>1, NaturalsAssumption, Zenon
<1>2. CASE e \in [type : {"MEMORY_ALLOC"}, no : RecordNo, start : Address,
                  size : Size, is_alloc : BOOLEAN]
  BY <1>2, NaturalsAssumption, Zenon
<1>3. CASE e \in [type : {"none"}, no : RecordNo \cup {0}]
  <2>1. 0 \in Nat
    OBVIOUS
  <2>2. e.type = "none" /\ e.no \in RecordNo \cup {0}
    BY <1>3, Zenon
  <2>3. e.type # "MEMORY_OP" /\ e.type # "MEMORY_ALLOC"
    BY <2>2, Zenon
  <2> QED BY <2>1, <2>2, <2>3, NaturalsAssumption, Zenon
<1> QED BY <1>1, <1>2, <1>3, Zenon DEF RawEntry

\* The record number an entry of the raw file shares with no other (detect.cc:606-608).
LEMMA NumbersDiffer ==
  ASSUME files \in Logs,
         NEW i \in DOMAIN files.raw, NEW j \in DOMAIN files.raw,
         files.raw[i].no # 0, files.raw[i].no <= files.raw[j].no
  PROVE  i <= j
<1> USE LogFiles
<1>1. i \in Nat /\ j \in Nat
  OBVIOUS
<1>2. files.raw[i].no \in Nat /\ files.raw[j].no \in Nat
  <2>1. files.raw[i] \in RawEntry /\ files.raw[j] \in RawEntry
    OBVIOUS
  <2> QED BY <2>1, RawEntries, Zenon
<1>3. files.raw[j].no # 0
  BY <1>2
<1>4. j < i => files.raw[j].no < files.raw[i].no
  BY <1>3, Zenon DEF WellFormed
<1> QED BY <1>1, <1>2, <1>4

\* A new record repeats the number of one raw memory record, of the same thread and
\* at another instruction.
LEMMA RawOfNew ==
  ASSUME files \in Logs, NEW r \in files.new
  PROVE  \E i \in DOMAIN files.raw :
           /\ files.raw[i].type = "MEMORY_OP"
           /\ files.raw[i].no = r.no /\ files.raw[i].op.tid = r.tid
           /\ files.raw[i].op.pip # r.pip
  BY LogFiles, Zenon DEF WellFormed

\* The entry raw_record points to.
LEMMA RawRecord ==
  ASSUME MainTyped, RawLeft
  PROVE  /\ raw_read + 1 \in DOMAIN files.raw
         /\ raw_record \in RawEntry
         /\ raw_record.type = "MEMORY_OP" => raw_record.op.no = raw_record.no
<1>1. raw_read + 1 \in DOMAIN files.raw
  BY LogFiles DEF MainTyped, RawLeft
<1>2. raw_record \in RawEntry
  BY LogFiles, <1>1 DEF MainTyped, raw_record
<1>3. raw_record.type = "MEMORY_OP" => raw_record.op.no = raw_record.no
  BY LogFiles, <1>1, Zenon DEF MainTyped, raw_record, WellFormed
<1> QED BY <1>1, <1>2, <1>3, Zenon

\* index_ip_set_iter points to a new record, the oldest that is waiting.
LEMMA FirstWaiting ==
  ASSUME MainTyped, index_ip_set # {}
  PROVE  /\ First(index_ip_set) \in index_ip_set
         /\ First(index_ip_set) \in files.new
         /\ First(index_ip_set) \in Record
         /\ \A s \in index_ip_set : First(index_ip_set).no <= s.no
<1>1. index_ip_set \in SUBSET Record /\ index_ip_set \subseteq files.new
  BY LogFiles, Zenon DEF MainTyped
<1>2. \A r, s \in index_ip_set : r.no = s.no /\ r.pip = s.pip => r = s
  BY LogFiles, Zenon DEF MainTyped, WellFormed
<1> QED BY <1>1, <1>2, FirstOfSet, Zenon

\* A new record with the number of raw_record is of its thread, at another instruction.
LEMMA NewOfCurrent ==
  ASSUME MainTyped, RawLeft, NEW r \in files.new, r.no = raw_record.no
  PROVE  /\ raw_record.type = "MEMORY_OP" /\ raw_record.op.tid = r.tid
         /\ raw_record.op.pip # r.pip
<1>1. PICK i \in DOMAIN files.raw :
           /\ files.raw[i].type = "MEMORY_OP"
           /\ files.raw[i].no = r.no /\ files.raw[i].op.tid = r.tid
           /\ files.raw[i].op.pip # r.pip
  BY RawOfNew, Zenon DEF MainTyped
<1>2. raw_read + 1 \in DOMAIN files.raw /\ r.no \in Nat /\ r.no # 0
  BY RawRecord, RecordNumbers, LogFiles, Zenon DEF MainTyped
<1>3. files.raw[i].no <= raw_record.no /\ raw_record.no <= files.raw[i].no
  BY <1>1, <1>2
<1>4. i <= raw_read + 1 /\ raw_read + 1 <= i
  BY <1>1, <1>2, <1>3, NumbersDiffer, Zenon DEF MainTyped, raw_record
<1>5. i = raw_read + 1
  BY <1>4, LogFiles DEF MainTyped
<1> QED BY <1>1, <1>5, Zenon DEF raw_record

-----------------------------------------------------------------------------
(* Steps *)

\* When the loop leaves a number behind, no new record with it is waiting: an older
\* one would have kept index_ip_set_iter back (detect.cc:618-628).
LEMMA NoneWaiting ==
  ASSUME MainTyped, NewBeforeRaw, RawLeft, NEW r \in index_ip_set,
         First(index_ip_set).no # raw_record.no
  PROVE  r.no # raw_record.no
<1> DEFINE f == First(index_ip_set)
<1>1. f \in index_ip_set /\ f \in files.new /\ f \in Record /\ f.no <= r.no
  BY FirstWaiting, Zenon
<1>2. r \in Record /\ files \in Logs
  BY LogFiles, Zenon DEF MainTyped
<1>3. f.no \in Nat \ {0} /\ r.no \in Nat \ {0}
  BY <1>1, <1>2, RecordNumbers, Zenon
<1>4. PICK i \in DOMAIN files.raw : files.raw[i].no = f.no
  BY <1>1, <1>2, RawOfNew, Zenon
<1>5. ~(i \in 1..raw_read)
  BY <1>1, <1>4, Zenon DEF NewBeforeRaw
<1> HIDE DEF f
<1>6. SUFFICES ASSUME r.no = raw_record.no PROVE FALSE
  OBVIOUS
<1>7. files.raw[i].no # 0 /\ files.raw[i].no <= files.raw[raw_read + 1].no
  BY <1>1, <1>3, <1>4, <1>6 DEF raw_record
<1>8. raw_read + 1 \in DOMAIN files.raw
  BY RawRecord, Zenon
<1>9. i <= raw_read + 1
  BY <1>2, <1>7, <1>8, NumbersDiffer, Zenon
<1>10. i \in Nat \ {0} /\ raw_read \in Nat
  BY <1>2, LogFiles DEF MainTyped
<1>11. i = raw_read + 1
  BY <1>5, <1>9, <1>10
<1> QED BY <1>4, <1>6, <1>11, Zenon DEF raw_record, f

\* Where Advance leaves the log.
LEMMA AdvanceTo ==
  ASSUME NEW r \in Record, Advance(r)
  PROVE  /\ log'.no = r.no /\ log'.tid = r.tid
         /\ log'.pips = IF r.no = log.no THEN log.pips \cup {r.pip} ELSE {r.pip}
  BY DEF Advance

\* The raw entries after raw_record have larger numbers.
LEMMA Beyond ==
  ASSUME MainTyped, RawLeft, NEW n, n = raw_record.no, n # 0,
         NEW j \in DOMAIN files.raw, j > raw_read + 1, files.raw[j].no # 0
  PROVE  n < files.raw[j].no
<1>1. raw_read + 1 \in DOMAIN files.raw /\ raw_read + 1 \in Nat /\ j \in Nat
  BY RawRecord, LogFiles DEF MainTyped
<1>2. raw_read + 1 < j
  BY <1>1
<1> QED BY <1>1, <1>2, LogFiles, Zenon DEF MainTyped, raw_record, WellFormed

\* A new record is in log order: it belongs to raw_record, and was not seen before
\* (detect.cc:618-623).
LEMMA NewInOrder ==
  ASSUME MInv, RawLeft, index_ip_set # {}, First(index_ip_set).no = raw_record.no
  PROVE  InLogOrder(First(index_ip_set))
<1> DEFINE f == First(index_ip_set)
<1>1. MainTyped /\ f \in index_ip_set /\ f \in files.new /\ f \in Record
  BY FirstWaiting, Zenon DEF MInv
<1>2. f.no \in Nat \ {0} /\ log.no \in Nat
  BY <1>1, RecordNumbers, Zenon DEF MInv
<1>3. raw_read + 1 \in DOMAIN files.raw
  BY <1>1, RawRecord, Zenon
<1>4. raw_record.op.tid = f.tid
  BY <1>1, NewOfCurrent, Zenon
<1> HIDE DEF f
<1>5. f.no = raw_record.no
  BY DEF f
<1>6. CASE BehindFiles
  <2>1. raw_read + 1 > raw_read
    BY <1>1 DEF MainTyped
  <2>2. files.raw[raw_read + 1].no # 0
    BY <1>2, <1>5 DEF raw_record
  <2>3. log.no < files.raw[raw_read + 1].no
    BY <1>3, <1>6, <2>1, <2>2, Zenon DEF BehindFiles
  <2>4. f.no > log.no
    BY <1>2, <1>5, <2>3 DEF raw_record
  <2> QED BY <2>4, Zenon DEF InLogOrder, f
<1>7. CASE AmongNew
  <2>1. f.no = log.no /\ f.tid = log.tid
    BY <1>4, <1>5, <1>7, Zenon DEF AmongNew
  <2>2. ASSUME f.pip \in log.pips PROVE FALSE
    <3>1. PICK r \in files.new \ index_ip_set : r.no = log.no /\ r.pip = f.pip
      BY <1>7, <2>2, Zenon DEF AmongNew
    <3>2. r = f
      BY <1>1, <2>1, <3>1, LogFiles, Zenon DEF WellFormed, MainTyped
    <3> QED BY <1>1, <3>1, <3>2, Zenon
  <2> QED BY <2>1, <2>2, Zenon DEF InLogOrder, f
<1> QED BY <1>6, <1>7, Zenon DEF MInv

\* A raw record is in log order: its new records came before and are at other
\* instructions (detect.cc:624-628).
LEMMA RawInOrder ==
  ASSUME MInv, RawLeft, raw_record.type # "none"
  PROVE  /\ raw_record.type = "MEMORY_OP" => InLogOrder(raw_record.op)
         /\ raw_record.type = "MEMORY_ALLOC" => raw_record.no > log.no
<1>1. MainTyped /\ raw_read + 1 \in DOMAIN files.raw /\ raw_record \in RawEntry
      /\ (raw_record.type = "MEMORY_OP" => raw_record.op.no = raw_record.no)
  BY RawRecord, Zenon DEF MInv
<1>2. raw_record.type \in {"MEMORY_OP", "MEMORY_ALLOC"} /\ raw_record.no \in RecordNo
  BY <1>1, RawEntries, Zenon
<1>3. raw_record.no \in Nat \ {0} /\ log.no \in Nat
  BY <1>2, NaturalsAssumption, Zenon DEF MInv
<1>4. CASE BehindFiles
  <2>1. raw_read + 1 > raw_read
    BY <1>1 DEF MainTyped
  <2>2. files.raw[raw_read + 1].no # 0
    BY <1>3 DEF raw_record
  <2>3. log.no < raw_record.no
    BY <1>1, <1>4, <2>1, <2>2, Zenon DEF BehindFiles, raw_record
  <2>4. raw_record.no > log.no
    BY <1>3, <2>3
  <2> QED BY <1>1, <2>4, Zenon DEF InLogOrder
<1>5. CASE AmongNew
  <2>1. raw_record.type = "MEMORY_OP" /\ raw_record.op.no = log.no
        /\ raw_record.op.tid = log.tid
    BY <1>1, <1>5, Zenon DEF AmongNew
  <2>2. ASSUME raw_record.op.pip \in log.pips PROVE FALSE
    <3>1. PICK r \in files.new \ index_ip_set : r.no = log.no /\ r.pip = raw_record.op.pip
      BY <1>5, <2>2, Zenon DEF AmongNew
    <3>2. r.no = raw_record.no
      BY <1>5, <3>1, Zenon DEF AmongNew
    <3> QED BY <1>1, <3>1, <3>2, NewOfCurrent, Zenon
  <2>3. "MEMORY_OP" # "MEMORY_ALLOC"
    BY Zenon
  <2> QED BY <2>1, <2>2, <2>3, Zenon DEF InLogOrder
<1> QED BY <1>4, <1>5, Zenon DEF MInv

\* offline_detection of a raw record is a step of the detector, or nothing for the
\* kinds it ignores, and leaves the log at or before the record.
LEMMA RecordFeeds ==
  ASSUME MInv, RawLeft, DetectRecord(raw_record)
  PROVE  /\ [Next]_vars
         /\ \/ raw_record.type # "none" /\ raw_record.no # 0 /\ log'.no = raw_record.no
            \/ raw_record.type = "none" /\ log' = log
<1>1. raw_record \in RawEntry
      /\ (raw_record.type = "MEMORY_OP" => raw_record.op.no = raw_record.no)
  BY RawRecord, Zenon DEF MInv
<1>2. CASE raw_record.type = "MEMORY_OP"
  <2>1. raw_record.type # "none" /\ raw_record.op \in Record /\ raw_record.no \in RecordNo
    BY <1>1, <1>2, RawEntries, Zenon
  <2>2. InLogOrder(raw_record.op)
    BY <1>2, <2>1, RawInOrder, Zenon
  <2>3. DetectOp(raw_record.op)
    BY <1>2 DEF DetectRecord
  <2>4. log'.no = raw_record.op.no
    BY <2>1, <2>3, AdvanceTo, Zenon DEF DetectOp
  <2>5. Next
    BY <2>1, <2>2, <2>3, Zenon DEF Next
  <2>6. raw_record.no # 0
    BY <2>1, NaturalsAssumption, Zenon
  <2> QED BY <1>1, <1>2, <2>1, <2>4, <2>5, <2>6, Zenon
<1>3. CASE raw_record.type = "MEMORY_ALLOC"
  <2> DEFINE e == raw_record
  <2>1. e.type # "none" /\ e.no \in RecordNo /\ e.start \in Address /\ e.size \in Size
    BY <1>1, <1>3, RawEntries, Zenon
  <2>2. e.no > log.no
    BY <1>3, <2>1, RawInOrder, Zenon
  <2>3. DetectAlloc(e.no, e.start, e.size) \/ DetectFree(e.no, e.start, e.size)
    BY <1>3 DEF DetectRecord
  <2>4. AdvancePast(e.no)
    BY <2>3, Zenon DEF DetectAlloc, DetectFree
  <2>5. log'.no = e.no
    BY <2>4 DEF AdvancePast, MInv
  <2>6. Next
    BY <2>1, <2>2, <2>3, Zenon DEF Next
  <2>7. e.no # 0
    BY <2>1, NaturalsAssumption, Zenon
  <2> QED BY <2>1, <2>5, <2>6, <2>7, Zenon
<1>4. CASE raw_record.type = "none"
  <2>1. UNCHANGED vars
    BY <1>4 DEF DetectRecord
  <2>2. log' = log
    BY <2>1, Zenon DEF vars
  <2> QED BY <1>4, <2>1, <2>2, Zenon
<1> QED BY <1>1, <1>2, <1>3, <1>4, RawEntries, Zenon

\* The place in the log stays one.
LEMMA LogTyped ==
  ASSUME log \in [no : Nat, tid : Thread, pips : SUBSET Pip], [Next]_vars
  PROVE  log' \in [no : Nat, tid : Thread, pips : SUBSET Pip]
<1>1. ASSUME NEW r \in Record, DetectOp(r)
      PROVE  log' \in [no : Nat, tid : Thread, pips : SUBSET Pip]
  <2>1. r.no \in Nat /\ r.tid \in Thread /\ r.pip \in Pip
    BY NaturalsAssumption, Zenon DEF Record
  <2>2. log' = [no |-> r.no, tid |-> r.tid,
                pips |-> IF r.no = log.no THEN log.pips \cup {r.pip} ELSE {r.pip}]
    BY <1>1, Zenon DEF DetectOp, Advance
  <2> QED BY <2>1, <2>2
<1>2. ASSUME NEW no \in RecordNo, AdvancePast(no)
      PROVE  log' \in [no : Nat, tid : Thread, pips : SUBSET Pip]
  <2>1. no \in Nat
    BY NaturalsAssumption, Zenon
  <2> QED BY <1>2, <2>1, Zenon DEF AdvancePast
<1>3. CASE UNCHANGED vars
  BY <1>3, Zenon DEF vars
<1> QED BY <1>1, <1>2, <1>3, Zenon DEF Next, DetectAlloc, DetectFree

\* A new record goes to the detector and leaves index_ip_set.
LEMMA MergeNewStep ==
  ASSUME MInv, MergeNew
  PROVE  MInv' /\ [Next]_vars
<1> DEFINE f == First(index_ip_set)
<1>1. /\ ~finished /\ RawLeft /\ index_ip_set # {} /\ f.no = raw_record.no
      /\ DetectOp(f) /\ index_ip_set' = index_ip_set \ {f}
      /\ files' = files /\ raw_read' = raw_read /\ UNCHANGED <<merging, finished>>
  BY DEF MergeNew, LoopGoesOn, SameNumber
<1>2. MainTyped /\ f \in index_ip_set /\ f \in files.new /\ f \in Record
  BY <1>1, FirstWaiting, Zenon DEF MInv
<1>3. InLogOrder(f)
  BY <1>1, NewInOrder, Zenon
<1>4. raw_record.type = "MEMORY_OP" /\ raw_record.op.tid = f.tid
  BY <1>1, <1>2, NewOfCurrent, Zenon
<1> HIDE DEF f
<1>5. Next
  BY <1>1, <1>2, <1>3, Zenon DEF Next
<1>6. MainTyped'
  <2>1. index_ip_set' \subseteq files'.new
    BY <1>1, <1>2, Zenon DEF MainTyped
  <2>2. merging' = (files'.new # {})
    BY <1>1, <1>2 DEF MainTyped
  <2> QED BY <1>1, <1>2, <2>1, <2>2, Zenon DEF MainTyped
<1>7. NewBeforeRaw'
  BY <1>1, Zenon DEF MInv, NewBeforeRaw
<1>8. (log \in [no : Nat, tid : Thread, pips : SUBSET Pip])'
  BY <1>5, LogTyped, Zenon DEF MInv
<1>9. AmongNew'
  <2>1. /\ log'.no = f.no /\ log'.tid = f.tid
        /\ log'.pips = IF f.no = log.no THEN log.pips \cup {f.pip} ELSE {f.pip}
    BY <1>1, <1>2, AdvanceTo, Zenon DEF DetectOp
  <2>2. RawLeft' /\ raw_record' = raw_record
    BY <1>1 DEF RawLeft, raw_record
  <2>3. f \in files'.new \ index_ip_set'
    BY <1>1, <1>2, Zenon
  <2>4. ASSUME NEW p \in log'.pips, p # f.pip
        PROVE  \E r \in files'.new \ index_ip_set' : r.no = log'.no /\ r.pip = p
    <3>1. f.no = log.no /\ p \in log.pips
      BY <2>1, <2>4, Zenon
    <3>2. CASE AmongNew
      <4>1. PICK r \in files.new \ index_ip_set : r.no = log.no /\ r.pip = p
        BY <3>1, <3>2, Zenon DEF AmongNew
      <4> QED BY <1>1, <2>1, <3>1, <4>1, Zenon
    <3>3. CASE BehindFiles
      <4>1. raw_read + 1 \in DOMAIN files.raw /\ raw_read + 1 > raw_read
        BY <1>1, <1>2, RawRecord DEF MainTyped
      <4>2. f.no \in Nat \ {0}
        BY <1>2, RecordNumbers, Zenon
      <4>3. log.no < files.raw[raw_read + 1].no
        BY <1>1, <3>3, <4>1, <4>2, Zenon DEF BehindFiles, raw_record
      <4> QED BY <1>1, <3>1, <4>2, <4>3 DEF raw_record
    <3> QED BY <3>2, <3>3, Zenon DEF MInv
  <2>5. \A p \in log'.pips : \E r \in files'.new \ index_ip_set' :
            r.no = log'.no /\ r.pip = p
    BY <2>1, <2>3, <2>4, Zenon
  <2> QED BY <1>1, <1>4, <2>1, <2>2, <2>5, Zenon DEF AmongNew
<1>10. AllNewDetected'
  BY <1>1 DEF AllNewDetected
<1> QED BY <1>5, <1>6, <1>7, <1>8, <1>9, <1>10, Zenon DEF MInv

\* The raw record goes to the detector and the next one is read, in either loop.
LEMMA RawStep ==
  ASSUME MInv, RawLeft, DetectRecord(raw_record), ReadNext, ~finished,
         files' = files, index_ip_set' = index_ip_set, UNCHANGED <<merging, finished>>,
         \A r \in index_ip_set : r.no # raw_record.no
  PROVE  MInv' /\ [Next]_vars
<1>1. /\ [Next]_vars
      /\ \/ raw_record.type # "none" /\ raw_record.no # 0 /\ log'.no = raw_record.no
         \/ raw_record.type = "none" /\ log' = log
  BY RecordFeeds, Zenon
<1>2. MainTyped /\ raw_read \in Nat /\ raw_read' = raw_read + 1
  BY Zenon DEF MInv, MainTyped, ReadNext
<1>3. MainTyped'
  <2>1. raw_read' \in Nat
    BY <1>2
  <2>2. merging' = (files'.new # {})
    BY <1>2 DEF MainTyped
  <2> QED BY <1>2, <2>1, <2>2, Zenon DEF MainTyped
<1>4. NewBeforeRaw'
  <2> SUFFICES ASSUME NEW r \in index_ip_set, NEW i \in 1..raw_read'
               PROVE  files.raw[i].no # r.no
    BY Zenon DEF NewBeforeRaw
  <2>1. i \in 1..raw_read \/ i = raw_read + 1
    BY <1>2
  <2> QED BY <2>1, Zenon DEF MInv, NewBeforeRaw, raw_record
<1>5. BehindFiles'
  <2> SUFFICES ASSUME NEW j \in DOMAIN files.raw, j > raw_read', files.raw[j].no # 0
               PROVE  log'.no < files.raw[j].no
    BY Zenon DEF BehindFiles
  <2>1. CASE raw_record.type # "none"
    <3>1. log'.no = raw_record.no /\ raw_record.no # 0
      BY <1>1, <2>1, Zenon
    <3> QED BY <1>2, <3>1, Beyond, Zenon
  <2>2. CASE raw_record.type = "none"
    <3>1. BehindFiles
      BY <2>2, Zenon DEF MInv, AmongNew
    <3>2. j > raw_read
      <4>1. j \in Nat
        BY <1>2, LogFiles DEF MainTyped
      <4> QED BY <1>2, <4>1
    <3> QED BY <1>1, <2>2, <3>1, <3>2, Zenon DEF BehindFiles
  <2> QED BY <2>1, <2>2, Zenon
<1>6. (log \in [no : Nat, tid : Thread, pips : SUBSET Pip])'
  BY <1>1, LogTyped, Zenon DEF MInv
<1>7. AllNewDetected'
  BY DEF AllNewDetected
<1> QED BY <1>1, <1>3, <1>4, <1>5, <1>6, <1>7, Zenon DEF MInv

\* main returns: when the raw file is at its end, every new record has been met on the
\* way (detect.cc:614-635).
LEMMA ReturnStep ==
  ASSUME MInv, Return
  PROVE  MInv' /\ [Next]_vars
<1>1. UNCHANGED <<vars, files, raw_read, index_ip_set, merging>>
  BY Zenon DEF Return
<1>2. UNCHANGED vars /\ log' = log /\ files' = files /\ raw_read' = raw_read
      /\ index_ip_set' = index_ip_set /\ UNCHANGED merging
  BY <1>1 DEF vars
<1>3. MainTyped' /\ NewBeforeRaw'
  <2>1. merging' = (files'.new # {})
    BY <1>2 DEF MInv, MainTyped
  <2> QED BY <1>2, <2>1, Zenon DEF MInv, MainTyped, NewBeforeRaw
<1>4. (BehindFiles \/ AmongNew)'
  <2>1. RawLeft' = RawLeft /\ raw_record' = raw_record
    BY <1>2 DEF RawLeft, raw_record
  <2>2. CASE BehindFiles
    BY <1>2, <2>2, Zenon DEF BehindFiles
  <2>3. CASE AmongNew
    <3>1. RawLeft'
      BY <2>1, <2>3 DEF AmongNew
    <3> QED BY <1>2, <2>1, <2>3, <3>1, Zenon DEF AmongNew
  <2> QED BY <2>2, <2>3, Zenon DEF MInv
<1>5. index_ip_set = {} /\ (~merging => ~RawLeft)
  <2>1. MainTyped /\ NewBeforeRaw
    BY Zenon DEF MInv
  <2>2. ASSUME ~RawLeft PROVE index_ip_set = {}
    <3> SUFFICES ASSUME NEW r \in index_ip_set PROVE FALSE
      BY Zenon
    <3>1. PICK i \in DOMAIN files.raw : files.raw[i].no = r.no
      BY <2>1, RawOfNew, Zenon DEF MainTyped
    <3>2. i \in 1..raw_read
      BY <2>1, <2>2, LogFiles DEF MainTyped, RawLeft
    <3> QED BY <2>1, <3>1, <3>2, Zenon DEF NewBeforeRaw
  <2>3. CASE merging
    BY <2>2, <2>3 DEF Return, LoopGoesOn
  <2>4. CASE ~merging
    BY <2>2, <2>4 DEF Return
  <2> QED BY <2>3, <2>4
<1>6. AllNewDetected'
  <2>1. RawLeft' = RawLeft
    BY <1>2 DEF RawLeft
  <2> QED BY <1>2, <1>5, <2>1 DEF AllNewDetected
<1> QED BY <1>2, <1>3, <1>4, <1>6, Zenon DEF MInv

\* Every step of main keeps the invariant, and is a step of the detector or none.
LEMMA StepMInv ==
  ASSUME MInv, [MainNext]_<<vars, mainVars>>
  PROVE  MInv' /\ [Next]_vars
<1>1. CASE MergeNew
  BY <1>1, MergeNewStep, Zenon
<1>2. CASE MergeRaw
  <2>1. /\ ~finished /\ RawLeft /\ DetectRecord(raw_record) /\ ReadNext
        /\ First(index_ip_set).no # raw_record.no
        /\ files' = files /\ index_ip_set' = index_ip_set /\ UNCHANGED <<merging, finished>>
    BY <1>2 DEF MergeRaw, LoopGoesOn, SameNumber
  <2>2. \A r \in index_ip_set : r.no # raw_record.no
    BY <2>1, NoneWaiting, Zenon DEF MInv
  <2> QED BY <2>1, <2>2, RawStep, Zenon
<1>3. CASE DetectRaw
  <2>1. /\ ~finished /\ ~merging /\ RawLeft /\ DetectRecord(raw_record) /\ ReadNext
        /\ files' = files /\ index_ip_set' = index_ip_set /\ UNCHANGED <<merging, finished>>
    BY <1>3 DEF DetectRaw
  <2>2. index_ip_set = {}
    BY <2>1, Zenon DEF MInv, MainTyped
  <2> QED BY <2>1, <2>2, RawStep, Zenon
<1>4. CASE Return
  BY <1>4, ReturnStep, Zenon
<1>5. CASE UNCHANGED <<vars, mainVars>>
  <2>1. UNCHANGED vars /\ log' = log /\ files' = files /\ raw_read' = raw_read
        /\ index_ip_set' = index_ip_set /\ UNCHANGED <<merging, finished>>
    BY <1>5 DEF vars, mainVars
  <2>2. RawLeft' = RawLeft /\ raw_record' = raw_record
    BY <2>1 DEF RawLeft, raw_record
  <2>3. MainTyped' /\ AllNewDetected'
    BY <2>1, <2>2 DEF MInv, MainTyped, AllNewDetected
  <2>4. NewBeforeRaw'
    BY <2>1, Zenon DEF MInv, NewBeforeRaw
  <2>5. (BehindFiles \/ AmongNew)'
    <3>1. CASE BehindFiles
      BY <2>1, <3>1, Zenon DEF BehindFiles
    <3>2. CASE AmongNew
      <4>1. RawLeft'
        BY <2>2, <3>2 DEF AmongNew
      <4> QED BY <2>1, <2>2, <3>2, <4>1, Zenon DEF AmongNew
    <3> QED BY <3>1, <3>2, Zenon DEF MInv
  <2> QED BY <2>1, <2>3, <2>4, <2>5, Zenon DEF MInv
<1> QED BY <1>1, <1>2, <1>3, <1>4, <1>5, Zenon DEF MainNext

\* The files are open and nothing has been detected.
LEMMA InitMInv == MainInit => MInv
<1> SUFFICES ASSUME MainInit PROVE MInv
  OBVIOUS
<1>1. MainTyped
  BY DEF MainInit, MainTyped
<1>2. NewBeforeRaw /\ AllNewDetected
  BY DEF MainInit, NewBeforeRaw, AllNewDetected
<1>3. log \in [no : Nat, tid : Thread, pips : SUBSET Pip] /\ log.no = 0
  BY DEF MainInit, Init
<1>4. BehindFiles
  <2> SUFFICES ASSUME NEW i \in DOMAIN files.raw, files.raw[i].no # 0
               PROVE  log.no < files.raw[i].no
    BY Zenon DEF BehindFiles
  <2>1. files.raw[i] \in RawEntry
    BY <1>1, LogFiles DEF MainTyped
  <2>2. files.raw[i].no \in Nat
    BY <2>1, RawEntries, Zenon
  <2> QED BY <1>3, <2>2
<1> QED BY <1>1, <1>2, <1>3, <1>4, Zenon DEF MInv

-----------------------------------------------------------------------------
(* Theorems *)

\* The cursor in the two files and the place reached in the merged log always fit
\* together, for all files the runtime and the simulator can write (detect.cc:614-635).
THEOREM MainInvariant == MainSpec => []MInv
  BY InitMInv, StepMInv, PTL DEF MainSpec

\* No raw record goes to the detector while a new record derived from it waits: the
\* test of detect.cc:618 compares with the oldest new record only, and that is enough.
THEOREM NewGoFirst == MainSpec => []NewBeforeRaw
<1>1. MInv => NewBeforeRaw
  BY Zenon DEF MInv
<1> QED BY MainInvariant, <1>1, PTL

\* When main returns every new record went through the detector, although the loop of
\* detect.cc:614 stops at the end of either file.
THEOREM NoNewRecordLost == MainSpec => []AllNewDetected
<1>1. MInv => AllNewDetected
  BY Zenon DEF MInv
<1> QED BY MainInvariant, <1>1, PTL

\* The merge of detect.cc:614-635 delivers the log module Detector assumes: growing
\* numbers, and under one number one thread and distinct instructions.
THEOREM MergeFeedsDetector == MainSpec => FeedsDetector
<1>1. MainInit => Init
  BY Zenon DEF MainInit
<1> QED BY <1>1, MainInvariant, StepMInv, PTL DEF MainSpec, FeedsDetector, Spec

\* So main warns of exactly the accesses that the history of an address convicts, and
\* no assertion of core_detection fires, whatever the two files are.
THEOREM MainReportsRaces == MainSpec => ImplementsRaceReport /\ []AssertsHold
<1>1. MainSpec => Spec
  BY MergeFeedsDetector DEF FeedsDetector
<1> QED BY <1>1, Refinement, NoAssertFires, PTL
=============================================================================
