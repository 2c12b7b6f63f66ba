----------------------------- MODULE DetectMain -----------------------------
(***************************************************************************)
(* The main function of tools/detect.cc: it merges the raw log written by  *)
(* the runtime with the new records derived from it by the instruction     *)
(* simulator, and feeds each record to offline_detection (module Detector).*)
(***************************************************************************)
EXTENDS Detector, Sequences, FiniteSets

CONSTANT Logs  \* the pairs of input files (-i and -n) considered

\* An entry of the raw log.  A slot that was never filled, and the kinds of
\* record the detector ignores, are "none".
RawEntry == [type : {"MEMORY_OP"}, no : RecordNo, op : Record]
            \cup [type : {"MEMORY_ALLOC"}, no : RecordNo, start : Address,
                  size : Size, is_alloc : BOOLEAN]
            \cup [type : {"none"}, no : RecordNo \cup {0}]

\* "The raw record do not have same record_no_, while the new records may have
\* same record_no_.  It's a 1->{n} mapping" (detect.cc:606-608): the raw file is
\* in slot order, and a new record repeats the number and the thread of a raw
\* memory record at another instruction.
WellFormed(raw, new) ==
  /\ \A i, j \in DOMAIN raw :
       i < j /\ raw[i].no # 0 /\ raw[j].no # 0 => raw[i].no < raw[j].no
  /\ \A i \in DOMAIN raw : raw[i].type = "MEMORY_OP" => raw[i].op.no = raw[i].no
  /\ \A r \in new : \E i \in DOMAIN raw :
       /\ raw[i].type = "MEMORY_OP"
       /\ raw[i].no = r.no /\ raw[i].op.tid = r.tid /\ raw[i].op.pip # r.pip
  /\ \A r, s \in new : r.no = s.no /\ r.pip = s.pip => r = s

ASSUME LogsAssumption ==
  \A l \in Logs : /\ l.raw \in Seq(RawEntry) /\ l.raw # <<>>
                  /\ l.new \subseteq Record
                  /\ WellFormed(l.raw, l.new)

VARIABLES files,          \* the two input files
          raw_read,       \* entries of the raw file behind raw_record
          index_ip_set,   \* new records at and after index_ip_set_iter
          merging,        \* new_input_fp # NULL: the merge loop is running
          finished        \* main has returned

mainVars == <<files, raw_read, index_ip_set, merging, finished>>

\* The files are open, the first raw record and all new records are read.  A new
\* file without records is dropped.
MainInit ==
  /\ Init
  /\ files \in Logs
  /\ raw_read = 0
  /\ index_ip_set = files.new
  /\ merging = (files.new # {})
  /\ finished = FALSE

RawLeft == raw_read < Len(files.raw)
raw_record == files.raw[raw_read + 1]

First(S) == CHOOSE r \in S : \A s \in S \ {r} : Less(r, s)

\* offline_detection of a raw record.
DetectRecord(e) ==
  CASE e.type = "MEMORY_OP" -> DetectOp(e.op)
    [] e.type = "MEMORY_ALLOC" ->
         IF e.is_alloc THEN DetectAlloc(e.no, e.start, e.size)
                       ELSE DetectFree(e.no, e.start, e.size)
    [] e.type = "none" -> UNCHANGED vars

\* Mutants: the raw record goes first; new records go one sample early.
MatchesNever(r, e) == FALSE
MatchesNext(r, e) == r.no = e.no + 1
SameNumber(r, e) == r.no = e.no

\* Mutant: the loop is not entered.
LoopsNever(left, todo) == FALSE
LoopGoesOn(left, todo) == left /\ todo

\* The new records with the number of the current raw record go first.
MergeNew ==
  /\ ~finished /\ merging
  /\ LoopGoesOn(RawLeft, index_ip_set # {})
  /\ SameNumber(First(index_ip_set), raw_record)
  /\ DetectOp(First(index_ip_set))
  /\ index_ip_set' = index_ip_set \ {First(index_ip_set)}
  /\ UNCHANGED <<files, raw_read, merging, finished>>

\* Mutant: the next raw record is not read.
ReadNothing == UNCHANGED raw_read
ReadNext == raw_read' = raw_read + 1

\* Then the raw record itself, and the next one is read.
MergeRaw ==
  /\ ~finished /\ merging
  /\ LoopGoesOn(RawLeft, index_ip_set # {})
  /\ ~SameNumber(First(index_ip_set), raw_record)
  /\ DetectRecord(raw_record)
  /\ ReadNext
  /\ UNCHANGED <<files, index_ip_set, merging, finished>>

\* The loop without new records.
DetectRaw ==
  /\ ~finished /\ ~merging
  /\ RawLeft
  /\ DetectRecord(raw_record)
  /\ ReadNext
  /\ UNCHANGED <<files, index_ip_set, merging, finished>>

Return ==
  /\ ~finished
  /\ IF merging THEN ~LoopGoesOn(RawLeft, index_ip_set # {}) ELSE ~RawLeft
  /\ finished' = TRUE
  /\ UNCHANGED <<vars, files, raw_read, index_ip_set, merging>>

MainNext == MergeNew \/ MergeRaw \/ DetectRaw \/ Return

\* main is one sequential thread that keeps running.
MainSpec ==
  /\ MainInit
  /\ [][MainNext]_<<vars, mainVars>>
  /\ WF_<<vars, mainVars>>(MainNext)

-----------------------------------------------------------------------------
(* Properties *)

\* What module Detector assumes of the log, that numbers grow and that records
\* sharing a number share the thread and differ in the instruction, is what the
\* merge of detect.cc:614-629 delivers.
FeedsDetector == Spec

\* No new record is lost: when main returns each went through the detector
\* before the raw record it was derived from, and without new records every raw
\* record did (detect.cc:614-635).
AllNewDetected ==
  finished => /\ index_ip_set = {}
              /\ ~merging => ~RawLeft

\* A new record is looked at before its raw record: no raw record behind the
\* cursor still has new records waiting (detect.cc:616-617).
NewBeforeRaw ==
  \A r \in index_ip_set, i \in 1..raw_read : files.raw[i].no # r.no

\* main comes to its end on every pair of files.
MainTerminates == <>finished

\* "Then we detect the current raw record and then advance to the next raw
\* record" (detect.cc:625-626): when main returns, all raw records went through
\* the detector.
AllRawDetected == finished => ~RawLeft
=============================================================================
