---------------------------- MODULE HarnessProofs ----------------------------
(***************************************************************************)
(* What holds of the test campaign for every set of programs, number of    *)
(* levels, records and descriptors.                                        *)
(***************************************************************************)
EXTENDS Harness, SequenceTheorems, TLAPS

\* Writing over a file leaves a file.
LEMMA OverwriteContents ==
  ASSUME NEW old \in Contents \cup {NoFile}, NEW new \in Contents
  PROVE  Overwrite(old, new) \in Contents
<1>1. CASE old = NoFile
  BY <1>1 DEF Overwrite
<1>2. CASE old # NoFile
  <2>1. old \in Contents /\ Len(new) + 1 \in Nat \ {0}
    BY <1>2 DEF Contents
  <2>2. SubSeq(old, Len(new) + 1, Len(old)) \in Contents
    BY <2>1 DEF Contents
  <2> QED BY <1>2, <2>2 DEF Overwrite, Contents
<1> QED BY <1>1, <1>2

\* A program is a file.
LEMMA TextContents == \A p \in Programs : Text(p) \in Contents
<1> SUFFICES ASSUME NEW p \in Programs PROVE Text(p) \in Contents
  OBVIOUS
<1>1. Size[p] \in Nat
  BY HarnessAssumption
<1> QED BY <1>1 DEF Text, Contents

\* A copy of 0.c into a case file, and its report, keep their types.
LEMMA CopyTypes ==
  ASSUME TypeOK, NEW k \in CaseKinds
  PROVE  /\ CopyTo(CaseName(k)) => cases' \in [CaseNames -> Contents \cup {NoFile}]
         /\ \A g, st \in BOOLEAN :
              Report(CaseName(k), g, st) => announced' \in SUBSET Announcements
<1>1. CaseName(k) \in CaseNames
  BY DEF CaseName, CaseNames, TypeOK, CountTypeOK
<1>2. Copied \in Contents
  BY DEF Copied, SourceOpens, TypeOK, FilesTypeOK, Contents
<1>3. cases \in [CaseNames -> Contents \cup {NoFile}]
  BY DEF TypeOK, FilesTypeOK
<1>4. Overwrite(cases[CaseName(k)], Copied) \in Contents
  BY <1>1, <1>2, <1>3, OverwriteContents
<1>5. CopyTo(CaseName(k)) => cases' \in [CaseNames -> Contents \cup {NoFile}]
  BY <1>1, <1>3, <1>4 DEF CopyTo
<1>6. ASSUME NEW g \in BOOLEAN, NEW st \in BOOLEAN, Report(CaseName(k), g, st)
      PROVE  announced' \in SUBSET Announcements
  <2>1. [name |-> CaseName(k), prog |-> zeroC, genuine |-> g, stored |-> st]
          \in Announcements
    BY <1>1 DEF TypeOK, FilesTypeOK, Announcements
  <2> QED BY <1>6, <2>1 DEF Report, TypeOK, ReportTypeOK
<1> QED BY <1>5, <1>6

LEMMA InitTypes == Init => TypeOK
<1> SUFFICES ASSUME Init PROVE TypeOK
  OBVIOUS
<1>1. NLevels \in Nat \ {0}
  BY HarnessAssumption DEF NLevels
<1>2. PlaceTypeOK
  BY <1>1 DEF Init, PlaceTypeOK, Where
<1>3. ProcsTypeOK
  <2>1. NoChildren \in [Pids -> {"none", "running", "zombie"}] /\ <<>> \in Seq(Pids)
    BY DEF NoChildren
  <2> QED BY <2>1 DEF Init, ProcsTypeOK
<1>4. GenTypeOK
  <2>1. <<>> \in Seq(Record)
    OBVIOUS
  <2> QED BY <2>1 DEF Init, GenTypeOK, NoGen
<1>5. FilesTypeOK
  BY DEF Init, FilesTypeOK
<1>6. CountTypeOK
  BY HarnessAssumption DEF Init, CountTypeOK, UInt
<1>7. ReportTypeOK
  BY DEF Init, ReportTypeOK
<1> QED BY <1>2, <1>3, <1>4, <1>5, <1>6, <1>7 DEF TypeOK

\* A part of the types holds on while its variables do not change.
LEMMA Frames ==
  ASSUME TypeOK
  PROVE  /\ UNCHANGED <<pc, lvl>> => PlaceTypeOK'
         /\ UNCHANGED procs => ProcsTypeOK'
         /\ UNCHANGED genVars => GenTypeOK'
         /\ UNCHANGED <<files, logFile>> => FilesTypeOK'
         /\ UNCHANGED <<fds, leaked, session, pool, counts>> => CountTypeOK'
         /\ UNCHANGED <<emitted, announced>> => ReportTypeOK'
<1>1. UNCHANGED <<pc, lvl>> => PlaceTypeOK'
  BY DEF TypeOK, PlaceTypeOK
<1>2. UNCHANGED procs => ProcsTypeOK'
  BY DEF TypeOK, ProcsTypeOK, procs
<1>3. UNCHANGED genVars => GenTypeOK'
  BY DEF TypeOK, GenTypeOK, genVars
<1>4. UNCHANGED <<files, logFile>> => FilesTypeOK'
  BY DEF TypeOK, FilesTypeOK, files, logFile
<1>5. UNCHANGED <<fds, leaked, session, pool, counts>> => CountTypeOK'
  BY DEF TypeOK, CountTypeOK, pool, counts
<1>6. UNCHANGED <<emitted, announced>> => ReportTypeOK'
  BY DEF TypeOK, ReportTypeOK
<1> QED BY <1>1, <1>2, <1>3, <1>4, <1>5, <1>6

\* Every step keeps the types, action by action: the parts whose variables it
\* leaves alone by Frames, the others one by one.
LEMMA StepTypes == TypeOK /\ [Next]_vars => TypeOK'
<1> SUFFICES ASSUME TypeOK, [Next]_vars PROVE TypeOK'
  OBVIOUS
<1> USE DEF procs, genVars, files, logFile, pool, counts
<1>0. /\ NLevels \in Nat \ {0} /\ UIntMod \in Nat \ {0} /\ Mutants \in Nat
      /\ NoFile \notin Programs
  BY HarnessAssumption DEF NLevels
<1>a. <<>> \in Seq(Pids) /\ <<>> \in Seq(Record)
  OBVIOUS
<1>1. CASE SelectSeed
  <2>1. PlaceTypeOK'
    BY <1>0, <1>1 DEF SelectSeed, TypeOK, PlaceTypeOK, Where, Ended
  <2>0. s \in Nat /\ pq \in Seq(Nat)
    BY DEF TypeOK, CountTypeOK
  <2>4. <<s>> \in Seq(Nat)
    BY <2>0
  <2>5. /\ pq' = <<s>> \/ pq' = pq
        /\ s' = s + 100 \/ s' = s
    BY <1>1 DEF SelectSeed
  <2>6. pq' \in Seq(Nat)
    BY <2>0, <2>4, <2>5, Zenon
  <2>7. s' \in Nat
    BY <2>0, <2>5
  <2>2. CountTypeOK'
    BY <1>1, <2>6, <2>7 DEF SelectSeed, TypeOK, CountTypeOK, UInt
  <2>3. ReportTypeOK'
    BY <1>0, <1>1 DEF SelectSeed, TypeOK, ReportTypeOK
  <2> QED BY Frames, <1>1, <2>1, <2>2, <2>3 DEF SelectSeed, TypeOK
<1>2. CASE OpenPipes
  <2>1. PlaceTypeOK'
    BY <1>0, <1>2 DEF OpenPipes, TypeOK, PlaceTypeOK, Where, Ended
  <2>2. GenTypeOK'
    BY <1>a, <1>2 DEF OpenPipes, TypeOK, GenTypeOK
  <2>3. CountTypeOK'
    BY <1>0, <1>2 DEF OpenPipes, TypeOK, CountTypeOK
  <2> QED BY Frames, <1>2, <2>1, <2>2, <2>3 DEF OpenPipes, TypeOK
<1>3. CASE ForkGenerator
  <2>1. PlaceTypeOK'
    BY <1>0, <1>3 DEF ForkGenerator, TypeOK, PlaceTypeOK, Where, Ended
  <2>2. ProcsTypeOK'
    BY <1>0, <1>3 DEF ForkGenerator, TypeOK, ProcsTypeOK, GenPid, Pids
  <2>3. GenTypeOK'
    <3>1. PICK r \in BOOLEAN : r = (fds < MaxFds)
      <4>1. CASE fds < MaxFds
        <5>1. TRUE = (fds < MaxFds)
          BY <4>1
        <5> QED BY <5>1
      <4>2. CASE ~(fds < MaxFds)
        <5>1. FALSE = (fds < MaxFds)
          BY <4>2
        <5> QED BY <5>1
      <4> QED BY <4>1, <4>2
    <3>2. gen' = gen \/ gen' = [NoGen EXCEPT !.at = "begin", !.room = r]
      BY <1>3, <3>1 DEF ForkGenerator
    <3>3. UNCHANGED <<chan, recv, writeEnd>>
      BY <1>3 DEF ForkGenerator
    <3> QED BY <3>2, <3>3 DEF TypeOK, GenTypeOK, NoGen
  <2> QED BY Frames, <1>3, <2>1, <2>2, <2>3 DEF ForkGenerator, TypeOK
<1>4. CASE CloseWriteEnd
  <2>1. PlaceTypeOK'
    BY <1>0, <1>4 DEF CloseWriteEnd, TypeOK, PlaceTypeOK, Where
  <2>2. GenTypeOK'
    BY <1>0, <1>4 DEF CloseWriteEnd, TypeOK, GenTypeOK
  <2>3. CountTypeOK'
    BY <1>0, <1>4 DEF CloseWriteEnd, TypeOK, CountTypeOK
  <2> QED BY Frames, <1>4, <2>1, <2>2, <2>3 DEF CloseWriteEnd, TypeOK
<1>5. CASE ReadRecord
  <2>0. chan \in Seq(Record) /\ recv \in Seq(Record) /\ <<NoFile, 0>> \in Record
    BY DEF TypeOK, GenTypeOK, Record
  <2>3. ASSUME chan # <<>> PROVE recv' \in Seq(Record) /\ chan' \in Seq(Record)
    <3>1. Head(chan) \in Record /\ Tail(chan) \in Seq(Record)
      BY <2>0, <2>3, HeadTailProperties
    <3>2. Append(recv, Head(chan)) \in Seq(Record)
      BY <2>0, <3>1, AppendProperties
    <3> QED BY <1>5, <2>3, <3>1, <3>2 DEF ReadRecord
  <2>4. ASSUME chan = <<>> PROVE recv' \in Seq(Record) /\ chan' \in Seq(Record)
    <3>1. Append(recv, <<NoFile, 0>>) \in Seq(Record)
      BY <2>0, AppendProperties
    <3> QED BY <1>5, <2>0, <2>4, <3>1 DEF ReadRecord
  <2>2. recv' \in Seq(Record) /\ chan' \in Seq(Record)
    BY <2>3, <2>4
  <2>1. GenTypeOK'
    BY <1>5, <2>2 DEF ReadRecord, TypeOK, GenTypeOK, Record
  <2> QED BY Frames, <1>5, <2>1 DEF ReadRecord, TypeOK
<1>6. CASE CloseReadEnd
  <2>1. PlaceTypeOK'
    BY <1>0, <1>6 DEF CloseReadEnd, TypeOK, PlaceTypeOK, Where
  <2>2. CountTypeOK'
    BY <1>0, <1>6 DEF CloseReadEnd, TypeOK, CountTypeOK
  <2> QED BY Frames, <1>6, <2>1, <2>2 DEF CloseReadEnd, TypeOK
<1>7. CASE ReapGenerator
  <2>1. PlaceTypeOK'
    BY <1>0, <1>7 DEF ReapGenerator, TypeOK, PlaceTypeOK, Where
  <2>2. ProcsTypeOK'
    BY <1>a, <1>7 DEF ReapGenerator, TypeOK, ProcsTypeOK
  <2> QED BY Frames, <1>7, <2>1, <2>2 DEF ReapGenerator, TypeOK
<1>8. CASE ForkTimer
  <2>1. PlaceTypeOK'
    BY <1>0, <1>8 DEF ForkTimer, TypeOK, PlaceTypeOK, Where, Ended
  <2>2. ProcsTypeOK'
    BY <1>0, <1>8 DEF ForkTimer, TypeOK, ProcsTypeOK
  <2> QED BY Frames, <1>8, <2>1, <2>2 DEF ForkTimer, TypeOK
<1>9. CASE ForkCompiler
  <2>1. PlaceTypeOK'
    BY <1>0, <1>9 DEF ForkCompiler, TypeOK, PlaceTypeOK, Where
  <2>2. ProcsTypeOK'
    BY <1>0, <1>9 DEF ForkCompiler, TypeOK, ProcsTypeOK
  <2> QED BY Frames, <1>9, <2>1, <2>2 DEF ForkCompiler, TypeOK
<1>10. CASE WaitFirst
  <2>1. PlaceTypeOK'
    BY <1>0, <1>10 DEF WaitFirst, TypeOK, PlaceTypeOK, Where, Ended
  <2>2. ProcsTypeOK'
    BY <1>0, <1>10 DEF WaitFirst, TypeOK, ProcsTypeOK, Reap
  <2> QED BY Frames, <1>10, <2>1, <2>2 DEF WaitFirst, TypeOK
<1>11. CASE WaitSecond
  <2>1. PlaceTypeOK'
    BY <1>0, <1>11 DEF WaitSecond, TypeOK, PlaceTypeOK, NextLevel, Where, Ended
  <2>2. ProcsTypeOK'
    BY <1>0, <1>11 DEF WaitSecond, TypeOK, ProcsTypeOK, Reap
  <2> QED BY Frames, <1>11, <2>1, <2>2 DEF WaitSecond, TypeOK
<1>12. CASE Collect
  <2>1. PlaceTypeOK'
    BY <1>0, <1>12 DEF Collect, TypeOK, PlaceTypeOK, Where
  <2>2. CountTypeOK'
    BY <1>0, <1>12 DEF Collect, TypeOK, CountTypeOK, EndsClosed, UInt
  <2> QED BY Frames, <1>12, <2>1, <2>2 DEF Collect, TypeOK
<1>13. CASE NoLog
  <2>1. PlaceTypeOK'
    BY <1>0, <1>13 DEF NoLog, TypeOK, PlaceTypeOK, Where, Ended
  <2> QED BY Frames, <1>13, <2>1 DEF NoLog, TypeOK
<1>14. CASE GenMutate
  <2>1. GenTypeOK'
    <3>1. PICK m \in [1 .. Mutants -> Programs], d \in 0 .. Mutants - 1 :
            gen' = [gen EXCEPT !.at = "truncate", !.copy = m[d + 1], !.vec = m[d + 1],
                               !.source = d # 0 \/ oneC]
      BY <1>14 DEF GenMutate, CopiedMutant, SentMutant
    <3>2. PICK b \in BOOLEAN : b = (d # 0 \/ oneC)
      OBVIOUS
    <3>3. gen' = [gen EXCEPT !.at = "truncate", !.copy = m[d + 1], !.vec = m[d + 1],
                             !.source = b]
      BY <3>1, <3>2
    <3>4. m[d + 1] \in Programs /\ UNCHANGED <<chan, recv, writeEnd>>
      BY <1>0, <1>14 DEF GenMutate
    <3> QED BY <1>0, <3>3, <3>4 DEF TypeOK, GenTypeOK
  <2> QED BY Frames, <1>14, <2>1 DEF GenMutate, TypeOK
<1>15. CASE GenTruncate
  <2>0. ZeroOpens \in BOOLEAN
    BY DEF ZeroOpens, TypeOK, GenTypeOK
  <2>1. GenTypeOK'
    BY <1>0, <1>15, <2>0 DEF GenTruncate, GenAt, TypeOK, GenTypeOK
  <2>2. FilesTypeOK'
    BY <1>0, <1>15 DEF GenTruncate, TypeOK, FilesTypeOK, Contents
  <2> QED BY Frames, <1>15, <2>1, <2>2 DEF GenTruncate, TypeOK
<1>16. CASE GenCopy
  <2>1. GenTypeOK'
    BY <1>16 DEF GenCopy, GenAt, TypeOK, GenTypeOK
  <2>2. gen.copy \in Programs
    BY <1>16 DEF GenCopy, GenAt, TypeOK, GenTypeOK
  <2>3. Overwrite(zeroC, Text(gen.copy)) \in Contents
    BY <2>2, TextContents, OverwriteContents DEF TypeOK, FilesTypeOK
  <2>4. FilesTypeOK'
    BY <2>3, <1>16 DEF GenCopy, TypeOK, FilesTypeOK
  <2> QED BY Frames, <1>16, <2>1, <2>4 DEF GenCopy, TypeOK
<1>17. CASE GenRedirect
  <2>1. GenTypeOK'
    BY <1>0, <1>17 DEF GenRedirect, GenAt, TypeOK, GenTypeOK
  <2>2. FilesTypeOK'
    BY <1>0, <1>17 DEF GenRedirect, TypeOK, FilesTypeOK
  <2> QED BY Frames, <1>17, <2>1, <2>2 DEF GenRedirect, TypeOK
<1>18. CASE GenSend
  <2>0. /\ chan \in Seq(Record) /\ Sent + 1 \in Nat
        /\ gen.vec \in Programs \cup {NoFile}
    BY DEF TypeOK, GenTypeOK, Sent
  <2>4. <<gen.vec, Sent + 1>> \in Record
    BY <2>0 DEF Record
  <2>5. Append(chan, <<gen.vec, Sent + 1>>) \in Seq(Record)
    BY <2>0, <2>4, AppendProperties
  <2>3. chan' \in Seq(Record)
    BY <1>18, <2>0, <2>5 DEF GenSend
  <2>1. GenTypeOK'
    <3>1. /\ gen' = gen \/ gen' = [gen EXCEPT !.at = "ok"]
          /\ gen.at = "send" /\ UNCHANGED <<recv, writeEnd>>
      BY <1>18 DEF GenSend, GenAt
    <3>2. GenTypeOK
      BY DEF TypeOK
    <3> QED BY <2>3, <3>1, <3>2 DEF GenTypeOK
  <2>2. ProcsTypeOK'
    BY <1>0, <1>18 DEF GenSend, TypeOK, ProcsTypeOK
  <2> QED BY Frames, <1>18, <2>1, <2>2 DEF GenSend, TypeOK
<1>19. CASE GenDie
  <2>1. GenTypeOK'
    BY <1>0, <1>19 DEF GenDie, TypeOK, GenTypeOK
  <2>2. ProcsTypeOK'
    BY <1>0, <1>19 DEF GenDie, TypeOK, ProcsTypeOK
  <2> QED BY Frames, <1>19, <2>1, <2>2 DEF GenDie, TypeOK
<1>20. ASSUME NEW l \in 1 .. NLevels, TimerExpires(l) PROVE TypeOK'
  <2>1. ProcsTypeOK'
    BY <1>20 DEF TimerExpires, TypeOK, ProcsTypeOK
  <2> QED BY Frames, <1>20, <2>1 DEF TimerExpires, TypeOK
<1>21. ASSUME NEW l \in 1 .. NLevels, CompilerOpensLog(l) PROVE TypeOK'
  <2>1. FilesTypeOK'
    BY <1>21 DEF CompilerOpensLog, TypeOK, FilesTypeOK
  <2> QED BY Frames, <1>21, <2>1 DEF CompilerOpensLog, TypeOK
<1>22. ASSUME NEW l \in 1 .. NLevels, CompilerWrites(l) PROVE TypeOK'
  <2>1. FilesTypeOK' /\ ReportTypeOK'
    BY <1>22 DEF CompilerWrites, TypeOK, FilesTypeOK, ReportTypeOK
  <2> QED BY Frames, <1>22, <2>1 DEF CompilerWrites, TypeOK
<1>23. ASSUME NEW l \in 1 .. NLevels, CompilerExits(l) PROVE TypeOK'
  <2>1. ProcsTypeOK'
    BY <1>23 DEF CompilerExits, TypeOK, ProcsTypeOK
  <2> QED BY Frames, <1>23, <2>1 DEF CompilerExits, TypeOK
<1>24. CASE Interrupt
  <2>1. PlaceTypeOK'
    BY <1>24 DEF Interrupt, TypeOK, PlaceTypeOK, Where, Ended
  <2>2. ProcsTypeOK'
    BY <1>24 DEF Interrupt, NoChildren, TypeOK, ProcsTypeOK
  <2>3. GenTypeOK'
    BY <1>24 DEF Interrupt, NoGen, TypeOK, GenTypeOK
  <2> QED BY Frames, <1>24, <2>1, <2>2, <2>3 DEF Interrupt, TypeOK
<1>25. CASE Rerun
  <2>1. PlaceTypeOK'
    BY <1>0, <1>25 DEF Rerun, PlaceTypeOK, Where
  <2>2. ProcsTypeOK'
    BY <1>a, <1>25 DEF Rerun, NoChildren, TypeOK, ProcsTypeOK
  <2>3. GenTypeOK'
    BY <1>a, <1>25 DEF Rerun, NoGen, TypeOK, GenTypeOK, Record
  <2>4. FilesTypeOK'
    BY <1>25 DEF Rerun, TypeOK, FilesTypeOK
  <2>5. CountTypeOK'
    BY <1>0, <1>25, HarnessAssumption DEF Rerun, TypeOK, CountTypeOK, UInt
  <2>6. ReportTypeOK'
    BY <1>25 DEF Rerun, TypeOK, ReportTypeOK
  <2> QED BY <2>1, <2>2, <2>3, <2>4, <2>5, <2>6 DEF TypeOK
<1>26. CASE UNCHANGED vars
  BY Frames, <1>26 DEF vars, TypeOK
<1>27. CASE JudgeLevel
  <2>0. Levels[lvl] \in CaseKinds
    BY DEF TypeOK, PlaceTypeOK, CaseKinds
  <2>1. PlaceTypeOK'
    BY <1>27 DEF JudgeLevel, TypeOK, PlaceTypeOK, Where
  <2>2. ProcsTypeOK'
    BY <1>27 DEF JudgeLevel, Kill, KillAll, TypeOK, ProcsTypeOK
  <2>3. FilesTypeOK'
    BY <1>27, <2>0, CopyTypes DEF JudgeLevel, SaveTimeoutCase, TypeOK, FilesTypeOK
  <2>4. CountTypeOK'
    BY <1>27 DEF JudgeLevel, SaveTimeoutCase, TypeOK, CountTypeOK, UInt
  <2>5. DestOpens \in BOOLEAN /\ forked \in BOOLEAN
    BY DEF DestOpens, TypeOK, ProcsTypeOK
  <2>6. ReportTypeOK'
    BY <1>27, <2>0, <2>5, CopyTypes DEF JudgeLevel, SaveTimeoutCase, TypeOK, ReportTypeOK
  <2> QED BY Frames, <1>27, <2>1, <2>2, <2>3, <2>4, <2>6 DEF JudgeLevel, TypeOK
<1>28. CASE ScanLog
  <2>0. "crash" \in CaseKinds
    BY DEF CaseKinds
  <2>1. PlaceTypeOK'
    BY <1>28 DEF ScanLog, TypeOK, PlaceTypeOK, Where
  <2>3. FilesTypeOK'
    BY <1>28, <2>0, CopyTypes DEF ScanLog, Cleared, TypeOK, FilesTypeOK
  <2>4. CountTypeOK'
    BY <1>0, <1>28 DEF ScanLog, TypeOK, CountTypeOK, UInt
  <2>5. ("ice" \in emitted) \in BOOLEAN /\ (Target = "gcc" /\ DestOpens) \in BOOLEAN
    OBVIOUS
  <2>6. ReportTypeOK'
    BY <1>28, <2>0, <2>5, CopyTypes DEF ScanLog, TypeOK, ReportTypeOK
  <2> QED BY Frames, <1>28, <2>1, <2>3, <2>4, <2>6 DEF ScanLog, TypeOK
<1>29. CASE GenBegin
  <2>1. GenTypeOK'
    BY <1>29 DEF GenBegin, TypeOK, GenTypeOK
  <2>2. FilesTypeOK'
    BY <1>29 DEF GenBegin, TypeOK, FilesTypeOK
  <2> QED BY Frames, <1>29, <2>1, <2>2 DEF GenBegin, TypeOK
<1> QED
  BY <1>1, <1>2, <1>3, <1>4, <1>5, <1>6, <1>7, <1>8, <1>9, <1>10, <1>11, <1>12,
     <1>13, <1>14, <1>15, <1>16, <1>17, <1>18, <1>19, <1>20, <1>21, <1>22,
     <1>23, <1>24, <1>25, <1>26, <1>27, <1>28, <1>29
  DEF Next, DriverStep, RoundStep, LevelStep, GenStep, Environment, Stopped

\* For all constants, every variable of the driver, of its children and of the
\* files keeps its type, through crashes, failing forks, interrupts and reruns.
THEOREM TypeCorrect == Spec => []TypeOK
<1>1. Init => TypeOK
  BY InitTypes
<1>2. TypeOK /\ [Next]_vars => TypeOK'
  BY StepTypes
<1> QED BY <1>1, <1>2, PTL DEF Spec

-----------------------------------------------------------------------------
\* StageIsolation is not inductive as it stands: which child is left after the
\* first wait depends on the verdicts collected so far.
VerdictShape ==
  /\ pc \in {"timer", "compile", "wait1"} => Len(first) = lvl - 1
  /\ pc \in {"judge", "wait2"} => Len(first) = lvl /\ first[lvl] \in Racers

Isolation == TypeOK /\ StageIsolation /\ LoserIsDead /\ VerdictShape

LEMMA InitIsolation == Init => Isolation
<1> SUFFICES ASSUME Init PROVE Isolation
  OBVIOUS
<1>1. TypeOK
  BY InitTypes
<1>2. StageIsolation
  BY DEF Init, StageIsolation, Expected, NoChildren, Ended
<1>3. LoserIsDead /\ VerdictShape
  BY DEF Init, LoserIsDead, VerdictShape
<1> QED BY <1>1, <1>2, <1>3 DEF Isolation

\* The pids of a round are different pids.
LEMMA DistinctPids ==
  \A l, m \in 1 .. NLevels :
    /\ GenPid \in Pids /\ Timer(l) \in Pids /\ Cc(l) \in Pids
    /\ Timer(l) # Cc(m) /\ Timer(l) # GenPid /\ Cc(l) # GenPid
    /\ l # m => Timer(l) # Timer(m) /\ Cc(l) # Cc(m)
BY DEF GenPid, Timer, Cc, Pids

LEMMA StepIsolation == Isolation /\ [Next]_vars => Isolation'
<1> SUFFICES ASSUME Isolation, [Next]_vars
             PROVE  StageIsolation' /\ LoserIsDead' /\ VerdictShape'
  BY StepTypes DEF Isolation
<1> USE DEF procs, genVars
<1>0. /\ status \in [Pids -> {"none", "running", "zombie"}] /\ first \in Seq(Pids)
      /\ lvl \in 1 .. NLevels /\ NLevels \in Nat
  BY HarnessAssumption DEF Isolation, TypeOK, ProcsTypeOK, PlaceTypeOK, NLevels
\* Steps at places where no child of a level is about.
<1>1. CASE SelectSeed \/ OpenPipes \/ CloseWriteEnd \/ ReadRecord \/ CloseReadEnd
           \/ Collect \/ NoLog \/ ScanLog
  BY <1>1 DEF SelectSeed, OpenPipes, CloseWriteEnd, ReadRecord, CloseReadEnd, Collect,
     NoLog, ScanLog, Isolation, StageIsolation, Expected, LoserIsDead, VerdictShape, Ended
<1>2. CASE ForkGenerator
  BY <1>0, <1>2, DistinctPids DEF ForkGenerator, Isolation, StageIsolation, Expected,
     LoserIsDead, VerdictShape, Ended
<1>3. CASE ReapGenerator
  BY <1>0, <1>3, DistinctPids DEF ReapGenerator, Isolation, StageIsolation, Expected,
     LoserIsDead, VerdictShape, Ended
<1>4. CASE ForkTimer
  BY <1>0, <1>4, DistinctPids DEF ForkTimer, Isolation, StageIsolation, Expected,
     LoserIsDead, VerdictShape, Ended
<1>5. CASE ForkCompiler
  BY <1>0, <1>5, DistinctPids DEF ForkCompiler, Isolation, StageIsolation, Expected,
     Racers, LoserIsDead, VerdictShape, Ended
<1>6. CASE WaitFirst
  BY <1>0, <1>6, DistinctPids DEF WaitFirst, Reap, Childless, Isolation, StageIsolation,
     Expected, Racers, LoserIsDead, VerdictShape, Ended
<1>7. CASE JudgeLevel
  BY <1>0, <1>7, DistinctPids DEF JudgeLevel, TimedOut, Kill, KillAll, Isolation,
     StageIsolation, Expected, Racers, LoserIsDead, VerdictShape, Ended
<1>8. CASE WaitSecond
  BY <1>0, <1>8, DistinctPids DEF WaitSecond, NextLevel, Reap, Childless, Isolation,
     StageIsolation, Expected, Racers, LoserIsDead, VerdictShape, Ended
\* Steps of the children: none comes or goes, and none is left to run in wait2.
<1>9. CASE GenStep \/ GenDie
  BY <1>0, <1>9, DistinctPids DEF GenStep, GenBegin, GenMutate, GenTruncate, GenCopy, GenRedirect,
     GenSend, GenDie, GenAt, Isolation, StageIsolation, Expected, Racers, LoserIsDead,
     VerdictShape, Ended
<1>10. ASSUME NEW l \in 1 .. NLevels,
              TimerExpires(l) \/ CompilerOpensLog(l) \/ CompilerWrites(l) \/ CompilerExits(l)
       PROVE  StageIsolation' /\ LoserIsDead' /\ VerdictShape'
  BY <1>0, <1>10, DistinctPids DEF TimerExpires, CompilerOpensLog, CompilerWrites,
     CompilerExits, Isolation, StageIsolation, Expected, Racers, LoserIsDead,
     VerdictShape, Ended
<1>11. CASE Interrupt \/ Rerun
  BY <1>11 DEF Interrupt, Rerun, NoChildren, StageIsolation, Expected, LoserIsDead,
     VerdictShape, Ended
<1>12. CASE UNCHANGED vars
  BY <1>12 DEF vars, Isolation, StageIsolation, Expected, Racers, LoserIsDead,
     VerdictShape, Ended
<1> QED
  BY <1>1, <1>2, <1>3, <1>4, <1>5, <1>6, <1>7, <1>8, <1>9, <1>10, <1>11, <1>12
  DEF Next, DriverStep, RoundStep, LevelStep, Environment, Stopped

\* Whatever the number of levels and however processes interleave, the children
\* that a wait-for-any can meet are those of the level at hand.
THEOREM ChildrenIsolated == Spec => []StageIsolation
<1>1. Isolation => StageIsolation
  BY DEF Isolation
<1> QED BY <1>1, InitIsolation, StepIsolation, PTL DEF Spec

\* Whatever the number of levels, the wait after a kill is not for a live process.
THEOREM SecondWaitIsShort == Spec => []LoserIsDead
<1>1. Isolation => LoserIsDead
  BY DEF Isolation
<1> QED BY <1>1, InitIsolation, StepIsolation, PTL DEF Spec
-----------------------------------------------------------------------------
\* What the descriptors need besides their ledger: the driver never holds more
\* than it may, closes two before it reads the log, and has lost the file of a
\* timeout only when too few are left for the pipes of another round.
FdMargins ==
  /\ pc \notin Ended => fds <= MaxFds
  /\ pc = "scan" => fds + 2 <= MaxFds
  /\ \A a \in announced : a.name[1] # "crash" /\ ~a.stored /\ pc \notin Ended =>
       fds - Held + 4 > MaxFds

Ledger == TypeOK /\ FdLedger /\ FdMargins /\ CrashReproducersStored

LEMMA InitLedger == Init => Ledger
<1> SUFFICES ASSUME Init PROVE Ledger
  OBVIOUS
<1>1. TypeOK
  BY InitTypes
<1>2. FdLedger
  BY HarnessAssumption DEF Init, FdLedger, Held
<1>3. FdMargins /\ CrashReproducersStored
  BY HarnessAssumption DEF Init, FdMargins, CrashReproducersStored
<1> QED BY <1>1, <1>2, <1>3 DEF Ledger

\* A level's name is never that of a crash case.
LEMMA LevelIsNoCrash == TypeOK => CaseName(Levels[lvl])[1] # "crash"
BY HarnessAssumption DEF TypeOK, PlaceTypeOK, NLevels, CaseName

LEMMA StepLedger == Ledger /\ [Next]_vars => Ledger'
<1> SUFFICES ASSUME Ledger, [Next]_vars
             PROVE  FdLedger' /\ FdMargins' /\ CrashReproducersStored'
  BY StepTypes DEF Ledger
<1> USE DEF procs, genVars, files, logFile, pool, counts
<1>0. fds \in Int /\ leaked \in Nat /\ BaseFds \in Nat /\ MaxFds \in Nat /\ BaseFds <= MaxFds
  BY HarnessAssumption DEF Ledger, TypeOK, CountTypeOK
\* Steps that open or close pipes, or none, and report nothing.
<1>1. CASE SelectSeed \/ ForkGenerator \/ ReadRecord
  <2>1. CASE SelectSeed
    BY <1>0, <2>1 DEF SelectSeed, Ledger, FdLedger, FdMargins,
       CrashReproducersStored, Held, Ended
  <2>2. CASE ForkGenerator
    BY <1>0, <2>2 DEF ForkGenerator, Ledger, FdLedger, FdMargins,
       CrashReproducersStored, Held, Ended
  <2>3. CASE ReadRecord
    BY <1>0, <2>3 DEF ReadRecord, Ledger, FdLedger, FdMargins,
       CrashReproducersStored, Held, Ended
  <2> QED BY <1>1, <2>1, <2>2, <2>3
<1>10. CASE OpenPipes
  BY <1>0, <1>10 DEF OpenPipes, PipesOpen, Ledger, FdLedger, FdMargins,
     CrashReproducersStored, Held, Ended
<1>11. CASE CloseWriteEnd
  BY <1>0, <1>11 DEF CloseWriteEnd, Ledger, FdLedger, FdMargins,
     CrashReproducersStored, Held, Ended
<1>12. CASE CloseReadEnd
  BY <1>0, <1>12 DEF CloseReadEnd, Ledger, FdLedger, FdMargins,
     CrashReproducersStored, Held, Ended
<1>13. CASE ReapGenerator
  BY <1>0, <1>13 DEF ReapGenerator, Ledger, FdLedger, FdMargins,
     CrashReproducersStored, Held, Ended
<1>2. CASE ForkTimer \/ ForkCompiler \/ WaitFirst \/ WaitSecond \/ Collect \/ NoLog
  <2>1. CASE ForkTimer
    BY <1>0, <2>1 DEF ForkTimer, Ledger, FdLedger, FdMargins,
       CrashReproducersStored, Held, Ended
  <2>2. CASE ForkCompiler
    BY <1>0, <2>2 DEF ForkCompiler, Ledger, FdLedger, FdMargins,
       CrashReproducersStored, Held, Ended
  <2>3. CASE WaitFirst
    BY <1>0, <2>3 DEF WaitFirst, Ledger, FdLedger, FdMargins,
       CrashReproducersStored, Held, Ended
  <2>4. CASE WaitSecond
    BY <1>0, <2>4 DEF WaitSecond, NextLevel, EndsClosed, Ledger, FdLedger, FdMargins,
       CrashReproducersStored, Held, Ended
  <2>5. CASE Collect
    BY <1>0, <2>5 DEF Collect, EndsClosed, Ledger, FdLedger, FdMargins,
       CrashReproducersStored, Held, Ended
  <2>6. CASE NoLog
    BY <1>0, <2>6 DEF NoLog, Ledger, FdLedger, FdMargins,
       CrashReproducersStored, Held, Ended
  <2> QED BY <1>2, <2>1, <2>2, <2>3, <2>4, <2>5, <2>6
<1>3. CASE JudgeLevel
  <2>1. CASE TimedOut
    <3>1. /\ fds' = IF DestOpens THEN fds + 1 ELSE fds
          /\ leaked' = IF DestOpens THEN leaked + 1 ELSE leaked
          /\ pc = "judge" /\ pc' = "wait2"
      BY <1>3, <2>1 DEF JudgeLevel, SaveTimeoutCase
    <3>2. FdLedger'
      BY <1>0, <3>1 DEF Ledger, FdLedger, Held, Ended
    <3>3. DestOpens => fds + 1 <= MaxFds
      BY <1>0 DEF DestOpens
    <3>4. ~DestOpens => fds + 2 > MaxFds
      BY <1>0 DEF DestOpens
    <3>5. PICK b : /\ b.name[1] # "crash" /\ b.stored = DestOpens
                   /\ announced' = announced \cup {b}
      BY <1>3, <2>1, LevelIsNoCrash DEF JudgeLevel, SaveTimeoutCase, Report, Ledger
    <3>6. FdMargins'
      BY <1>0, <3>1, <3>3, <3>4, <3>5 DEF Ledger, FdMargins, Held, Ended
    <3>7. CrashReproducersStored'
      BY <3>5 DEF Ledger, CrashReproducersStored
    <3> QED BY <3>2, <3>6, <3>7
  <2>2. CASE ~TimedOut
    BY <1>0, <1>3, <2>2 DEF JudgeLevel, Ledger, FdLedger, FdMargins,
       CrashReproducersStored, Held, Ended
  <2> QED BY <2>1, <2>2
<1>4. CASE ScanLog
  <2>1. DestOpens
    BY <1>0, <1>4 DEF ScanLog, DestOpens, Ledger, FdMargins
  <2>2. /\ fds' = fds /\ leaked' = leaked /\ pc = "scan" /\ pc' = "head"
    BY <1>4 DEF ScanLog
  <2>3. FdLedger'
    BY <1>0, <2>2 DEF Ledger, FdLedger, Held, Ended
  <2>4. \A a \in announced' :
          a \in announced \/ (a.name[1] = "crash" /\ (Target = "gcc" => a.stored))
    <3>1. CASE LooksLikeCrash
      <4>1. PICK b : /\ b.name[1] = "crash" /\ b.stored = (Target = "gcc" /\ DestOpens)
                     /\ announced' = announced \cup {b}
        BY <1>4, <3>1 DEF ScanLog, Report, CaseName
      <4> QED BY <2>1, <4>1
    <3>2. CASE ~LooksLikeCrash
      BY <1>4, <3>2 DEF ScanLog
    <3> QED BY <3>1, <3>2
  <2>5. FdMargins'
    BY <1>0, <2>2, <2>4 DEF Ledger, FdMargins, Held, Ended
  <2>6. CrashReproducersStored'
    BY <2>4 DEF Ledger, CrashReproducersStored
  <2> QED BY <2>3, <2>5, <2>6
<1>5. CASE GenStep \/ GenDie
  BY <1>0, <1>5 DEF GenStep, GenBegin, GenMutate, GenTruncate, GenCopy, GenRedirect, GenSend, GenDie,
     Ledger, FdLedger, FdMargins, CrashReproducersStored, Held, Ended
<1>6. ASSUME NEW l \in 1 .. NLevels,
             TimerExpires(l) \/ CompilerOpensLog(l) \/ CompilerWrites(l) \/ CompilerExits(l)
      PROVE  FdLedger' /\ FdMargins' /\ CrashReproducersStored'
  BY <1>0, <1>6 DEF TimerExpires, CompilerOpensLog, CompilerWrites, CompilerExits,
     Ledger, FdLedger, FdMargins, CrashReproducersStored, Held, Ended
<1>7. CASE Interrupt
  BY <1>0, <1>7 DEF Interrupt, Ledger, FdLedger, FdMargins, CrashReproducersStored, Ended
<1>8. CASE Rerun
  BY <1>0, <1>8 DEF Rerun, FdLedger, FdMargins, CrashReproducersStored, Held
<1>9. CASE UNCHANGED vars
  BY <1>9 DEF vars, Ledger, FdLedger, FdMargins, CrashReproducersStored, Held, Ended
<1> QED
  BY <1>1, <1>2, <1>3, <1>4, <1>5, <1>6, <1>7, <1>8, <1>9, <1>10, <1>11, <1>12,
     <1>13
  DEF Next, DriverStep, RoundStep, LevelStep, Environment, Stopped

\* For every limit on descriptors: what the driver holds is what its pipes take
\* and one more for every timeout whose file it wrote.
THEOREM DescriptorsAccounted == Spec => []FdLedger
<1>1. Ledger => FdLedger
  BY DEF Ledger
<1> QED BY <1>1, InitLedger, StepLedger, PTL DEF Spec

\* For every limit: no round starts after the file of a timeout was lost.
THEOREM LossIsTheEnd == Spec => []LossStopsCampaign
<1>1. Ledger => LossStopsCampaign
  <2> SUFFICES ASSUME Ledger, pc = "fork", NEW a \in announced,
                      a.name[1] # "crash", ~a.stored
               PROVE  FALSE
    BY DEF LossStopsCampaign
  <2>1. pc \notin Ended /\ Held = 4
    BY DEF Held, Ended
  <2>2. fds \in Int /\ MaxFds \in Int
    BY HarnessAssumption DEF Ledger, TypeOK, CountTypeOK
  <2>3. fds <= MaxFds /\ fds - Held + 4 > MaxFds
    BY <2>1 DEF Ledger, FdMargins
  <2> QED BY <2>1, <2>2, <2>3
<1> QED BY <1>1, InitLedger, StepLedger, PTL DEF Spec

\* For every limit: the leaked descriptors never cost a crash its file.
THEOREM CrashFilesWritten == Spec => []CrashReproducersStored
<1>1. Ledger => CrashReproducersStored
  BY DEF Ledger
<1> QED BY <1>1, InitLedger, StepLedger, PTL DEF Spec

=============================================================================
