----------------------------- MODULE RoundProofs -----------------------------
(***************************************************************************)
(* What a round of the test campaign does with its log, its program, its   *)
(* vector and its case files, for every set of programs, number of levels, *)
(* records and descriptors.                                                *)
(***************************************************************************)
EXTENDS HarnessProofs

Testing    == {"timer", "compile", "wait1", "judge", "wait2", "collect"}
Generating == {"close", "read", "reap"}

\* Whoever lives outside the places where the driver expects it is an orphan
\* of a stopped campaign: compilers live between two forks of a level, the
\* generator between its fork and its waitpid.
LEMMA WhoLives ==
  ASSUME Isolation, pc \notin Ended
  PROVE  /\ \A l \in 1 .. NLevels : status[Cc(l)] = "running" =>
              pc \in {"wait1", "judge"}
         /\ status[GenPid] # "none" <=> pc \in Generating
<1>1. /\ lvl \in 1 .. NLevels /\ NLevels \in Nat /\ first \in Seq(Pids)
  BY HarnessAssumption DEF Isolation, TypeOK, ProcsTypeOK, PlaceTypeOK, NLevels
<1>2. /\ \A p \in Pids : status[p] # "none" <=> p \in Expected
      /\ pc = "wait2" => \A p \in Pids : status[p] # "running"
  BY DEF Isolation, StageIsolation, LoserIsDead
<1>3. ASSUME NEW l \in 1 .. NLevels, status[Cc(l)] = "running"
      PROVE  pc \in {"wait1", "judge"}
  BY <1>1, <1>2, <1>3, DistinctPids DEF Expected, Racers
<1>4. GenPid \in Expected <=> pc \in Generating
  BY <1>1, DistinctPids DEF Expected, Racers, Generating
<1> QED BY <1>1, <1>2, <1>3, <1>4, DistinctPids

-----------------------------------------------------------------------------
(***************************************************************************)
(* The log.                                                                *)
(***************************************************************************)
\* LogFresh needs an empty log between two rounds, NoCrashMissed a fresh log
\* when it is scanned.
LogFollowed ==
  /\ LogFresh
  /\ pc = "head" => log = {}
  /\ NoCrashMissed

LEMMA InitLog == Init => LogFollowed
BY DEF Init, LogFollowed, LogFresh, NoCrashMissed

\* Only compilers write, and they write to the log what they write; the driver
\* truncates the log when it has read it, and not before.
LEMMA StepLog == Isolation /\ LogFollowed /\ [Next]_vars => LogFollowed'
<1> SUFFICES ASSUME Isolation, LogFollowed, [Next]_vars PROVE LogFollowed'
  OBVIOUS
<1> USE DEF procs, genVars, files, logFile, pool, counts
<1>1. CASE SelectSeed
  BY <1>1 DEF SelectSeed, LogFollowed, LogFresh, NoCrashMissed
<1>2. CASE ScanLog
  <2>1. pc = "scan" /\ pc' = "head" /\ log' = {} /\ UNCHANGED <<emitted, nu_execs>>
    BY <1>2 DEF ScanLog, Cleared
  <2>2. ASSUME "ice" \in emitted
        PROVE  \E a \in announced' : a.name = <<"crash", nu_execs>>
    <3>1. log = emitted
      BY <2>1 DEF LogFollowed, LogFresh, Ended
    <3>2. LooksLikeCrash
      BY <2>2, <3>1 DEF LooksLikeCrash
    <3>3. PICK b : b.name = <<"crash", nu_execs>> /\ announced' = announced \cup {b}
      BY <1>2, <3>2 DEF ScanLog, CaseName, Report
    <3> QED BY <3>3
  <2> QED BY <2>1, <2>2 DEF LogFollowed, LogFresh, NoCrashMissed
<1>3. ASSUME NEW l \in 1 .. NLevels, CompilerWrites(l)
      PROVE  LogFollowed'
  <2>1. pc \in Ended \cup {"wait1", "judge"}
    BY <1>3, WhoLives DEF CompilerWrites
  <2> QED BY <1>3, <2>1 DEF CompilerWrites, LogFollowed, LogFresh, NoCrashMissed, Ended
<1>4. CASE OpenPipes \/ ForkGenerator \/ CloseWriteEnd \/ ReadRecord \/ CloseReadEnd
           \/ ReapGenerator \/ ForkTimer \/ ForkCompiler
  BY <1>4 DEF OpenPipes, ForkGenerator, CloseWriteEnd, ReadRecord, CloseReadEnd,
     ReapGenerator, ForkTimer, ForkCompiler, LogFollowed, LogFresh, NoCrashMissed, Ended
<1>5. CASE WaitFirst \/ JudgeLevel \/ WaitSecond \/ Collect \/ NoLog
  BY <1>5 DEF WaitFirst, JudgeLevel, WaitSecond, NextLevel, Collect, NoLog,
     LogFollowed, LogFresh, NoCrashMissed, Ended
<1>6. CASE GenStep \/ GenDie
  BY <1>6 DEF GenStep, GenBegin, GenMutate, GenTruncate, GenCopy, GenRedirect, GenSend, GenDie,
     LogFollowed, LogFresh, NoCrashMissed, Ended
<1>7. ASSUME NEW l \in 1 .. NLevels,
             TimerExpires(l) \/ CompilerOpensLog(l) \/ CompilerExits(l)
      PROVE  LogFollowed'
  BY <1>7 DEF TimerExpires, CompilerOpensLog, CompilerExits, LogFollowed, LogFresh,
     NoCrashMissed, Ended
<1>8. CASE Interrupt \/ Rerun
  BY <1>8 DEF Interrupt, Rerun, LogFollowed, LogFresh, NoCrashMissed, Ended
<1>9. CASE UNCHANGED vars
  BY <1>9 DEF vars, LogFollowed, LogFresh, NoCrashMissed, Ended
<1> QED
  BY <1>1, <1>2, <1>3, <1>4, <1>5, <1>6, <1>7, <1>8, <1>9
  DEF Next, DriverStep, RoundStep, LevelStep, Environment, Stopped

\* However compilers, timers, interrupts and reruns interleave: the log a round
\* scans is what the compilers of that round wrote.
THEOREM LogCorrect == Spec => []LogFresh
<1>1. LogFollowed => LogFresh
  BY DEF LogFollowed
<1> QED BY <1>1, InitIsolation, StepIsolation, InitLog, StepLog, PTL DEF Spec

\* However they interleave: a crash message of a round is reported in it.
THEOREM CrashesReported == Spec => []NoCrashMissed
<1>1. LogFollowed => NoCrashMissed
  BY DEF LogFollowed
<1> QED BY <1>1, InitIsolation, StepIsolation, InitLog, StepLog, PTL DEF Spec

-----------------------------------------------------------------------------
(***************************************************************************)
(* The program and its vector.                                             *)
(***************************************************************************)
\* 0.c is a whole mutant, or nothing, before and after its copy: a generator
\* that opens it truncates it.
ZeroWhole ==
  /\ zeroC \in {NoFile, <<>>} \cup {Text(p) : p \in Programs}
  /\ gen.at = "copy" /\ gen.dest => zeroC = <<>>

\* A generator that was forked with a descriptor to spare creates 1.c, opens the
\* source and 0.c, and from the copy on 0.c is the mutant.
RoomUsed ==
  gen.room =>
    /\ gen.at = "mutate" => oneC
    /\ gen.at \in {"truncate", "copy"} => gen.source
    /\ gen.at = "copy" => gen.dest
    /\ gen.at \in {"redirect", "send", "ok"} => zeroC = Text(gen.copy)

\* The vector sent is that of the mutant.
SameMutant ==
  gen.at \notin {"none", "begin", "mutate", "dead"} => gen.vec = gen.copy

CopyWhole == ZeroWhole /\ RoomUsed /\ SameMutant

\* While the ledger of the descriptors shows one to spare, the generator of the
\* round had it when it was forked.
RoomKept == pc \in Generating \cup Testing /\ ~NoSpareFd => gen.room

\* What was read and what is still in the pipe is the vector, entry by entry.
PipeOrdered ==
  /\ \A i \in 1 .. Len(recv) : recv[i] = <<gen.vec, i>>
  /\ \A i \in 1 .. Len(chan) : chan[i] = <<gen.vec, Len(recv) + i>>
  /\ Sent <= Records
  /\ gen.at \in {"begin", "mutate", "truncate", "copy", "redirect"} => Sent = 0
  /\ gen.at = "ok" => Sent = Records

PipeInv ==
  /\ pc = "fork" => Sent = 0
  /\ pc \in {"reap"} \cup Testing => Len(recv) = Records
  /\ pc \in Generating \cup Testing /\ gen.at # "dead" => PipeOrdered
  /\ pc \in Generating =>
       (status[GenPid] = "running" <=> gen.at \notin {"ok", "dead"})

Round == Isolation /\ Ledger /\ CopyWhole /\ RoomKept /\ PipeInv

LEMMA InitRound == Init => Round
<1> SUFFICES ASSUME Init PROVE Round
  OBVIOUS
<1>1. Isolation
  BY InitIsolation
<1>2. CopyWhole
  BY DEF Init, CopyWhole, ZeroWhole, RoomUsed, SameMutant, NoGen
<1>3. PipeInv /\ RoomKept
  BY DEF Init, PipeInv, RoomKept, Testing, Generating
<1> QED BY <1>1, <1>2, <1>3, InitLedger DEF Round

\* Writing a program into an empty file makes the file that program.
LEMMA OverwriteEmpty == \A p \in Programs : Overwrite(<<>>, Text(p)) = Text(p)
<1> SUFFICES ASSUME NEW p \in Programs PROVE Overwrite(<<>>, Text(p)) = Text(p)
  OBVIOUS
<1>0. <<>> \in Seq(Programs \X Nat)
  OBVIOUS
<1>1. Text(p) \in Seq(Programs \X Nat) /\ <<>> # NoFile
  BY <1>0, TextContents, HarnessAssumption DEF Contents
<1>2. SubSeq(<<>>, Len(Text(p)) + 1, Len(<<>>)) = <<>>
  BY <1>1
<1> QED BY <1>1, <1>2 DEF Overwrite

\* Only the generator writes 0.c, it truncates the file before it copies, and
\* it never writes at all unless both files are open.
LEMMA StepCopy == TypeOK /\ CopyWhole /\ [Next]_vars => CopyWhole'
<1> SUFFICES ASSUME TypeOK, CopyWhole, [Next]_vars PROVE CopyWhole'
  OBVIOUS
<1> USE DEF procs, genVars, files, logFile, pool, counts
<1>0. ZeroWhole /\ RoomUsed /\ SameMutant /\ GenTypeOK
  BY DEF CopyWhole, TypeOK
<1>1. CASE ForkGenerator
  <2>1. UNCHANGED <<zeroC, oneC>> /\ (gen' = gen \/ gen'.at = "begin")
    BY <1>1 DEF ForkGenerator, NoGen
  <2> QED BY <1>0, <2>1 DEF CopyWhole, ZeroWhole, RoomUsed, SameMutant
<1>a. CASE GenBegin
  <2>1. /\ gen.at = "begin" /\ gen' = [gen EXCEPT !.at = "mutate"] /\ zeroC' = zeroC
        /\ gen.room => oneC'
    BY <1>a DEF GenBegin, GenAt
  <2> QED BY <1>0, <2>1 DEF CopyWhole, ZeroWhole, RoomUsed, SameMutant, GenTypeOK
<1>2. CASE GenMutate
  <2>1. /\ gen.at = "mutate" /\ gen'.at = "truncate" /\ gen'.vec = gen'.copy
        /\ gen'.room = gen.room /\ (oneC => gen'.source) /\ zeroC' = zeroC
    BY <1>0, <1>2 DEF GenMutate, GenAt, CopiedMutant, SentMutant, GenTypeOK
  <2> QED BY <1>0, <2>1 DEF CopyWhole, ZeroWhole, RoomUsed, SameMutant
<1>3. CASE GenTruncate
  <2>1. /\ gen.at = "truncate" /\ gen'.at = "copy"
        /\ gen'.vec = gen.vec /\ gen'.copy = gen.copy
        /\ gen'.room = gen.room /\ gen'.source = gen.source /\ gen'.dest = ZeroOpens
        /\ zeroC' = IF ZeroOpens THEN <<>> ELSE zeroC
    BY <1>0, <1>3 DEF GenTruncate, GenAt, GenTypeOK
  <2>2. gen.room => ZeroOpens
    BY DEF ZeroOpens
  <2> QED BY <1>0, <2>1, <2>2 DEF CopyWhole, ZeroWhole, RoomUsed, SameMutant
<1>4. CASE GenCopy
  <2>1. /\ gen.at = "copy" /\ gen'.at = "redirect"
        /\ gen'.vec = gen.vec /\ gen'.copy = gen.copy /\ gen'.room = gen.room
        /\ zeroC' = IF gen.source /\ gen.dest THEN Overwrite(zeroC, Text(gen.copy))
                                              ELSE zeroC
    BY <1>0, <1>4 DEF GenCopy, GenAt, GenTypeOK
  <2>2. gen.copy \in Programs
    BY <1>0, <2>1 DEF GenTypeOK
  <2>3. gen.source /\ gen.dest => zeroC' = Text(gen.copy)
    BY <1>0, <2>1, <2>2, OverwriteEmpty DEF ZeroWhole
  <2>4. gen.room => zeroC' = Text(gen.copy)
    BY <1>0, <2>1, <2>3 DEF RoomUsed
  <2>5. zeroC' \in {NoFile, <<>>} \cup {Text(p) : p \in Programs}
    BY <1>0, <2>1, <2>2, <2>3 DEF ZeroWhole
  <2> QED BY <1>0, <2>1, <2>4, <2>5 DEF CopyWhole, ZeroWhole, RoomUsed, SameMutant
<1>5. CASE GenRedirect \/ GenSend
  <2>1. /\ gen.at \in {"redirect", "send"} /\ gen'.at \in {"send", "ok"}
        /\ gen'.vec = gen.vec /\ gen'.copy = gen.copy /\ gen'.room = gen.room
        /\ zeroC' = zeroC
    BY <1>0, <1>5 DEF GenRedirect, GenSend, GenAt, GenTypeOK
  <2> QED BY <1>0, <2>1 DEF CopyWhole, ZeroWhole, RoomUsed, SameMutant
<1>7. CASE GenDie
  <2>1. gen'.at = "dead" /\ zeroC' = zeroC
    BY <1>0, <1>7 DEF GenDie, GenTypeOK
  <2> QED BY <1>0, <2>1 DEF CopyWhole, ZeroWhole, RoomUsed, SameMutant
<1>8. CASE Interrupt \/ Rerun
  BY <1>0, <1>8 DEF Interrupt, Rerun, CopyWhole, ZeroWhole, RoomUsed, SameMutant, NoGen
<1>9. CASE UNCHANGED <<gen, zeroC, oneC>>
  BY <1>0, <1>9 DEF CopyWhole, ZeroWhole, RoomUsed, SameMutant
<1> QED
  BY <1>1, <1>a, <1>2, <1>3, <1>4, <1>5, <1>7, <1>8, <1>9
  DEF Next, DriverStep, RoundStep, LevelStep, GenStep, Environment, Stopped, vars,
     SelectSeed, OpenPipes, CloseWriteEnd, ReadRecord, CloseReadEnd, ReapGenerator,
     ForkTimer, ForkCompiler, WaitFirst, JudgeLevel, WaitSecond, Collect, NoLog, ScanLog,
     TimerExpires, CompilerOpensLog, CompilerWrites, CompilerExits

\* The generator is forked with what the ledger says is there, and timeouts only
\* take from it.
LEMMA StepRoom == Ledger /\ RoomKept /\ [Next]_vars => RoomKept'
<1> SUFFICES ASSUME Ledger, RoomKept, [Next]_vars PROVE RoomKept'
  OBVIOUS
<1> USE DEF procs, genVars, files, logFile, pool, counts
<1>0. /\ GenTypeOK /\ fds \in Int /\ leaked \in Nat /\ BaseFds \in Nat /\ MaxFds \in Nat
  BY HarnessAssumption DEF Ledger, TypeOK, CountTypeOK
<1>1. CASE ForkGenerator
  <2>1. pc = "fork" /\ fds = BaseFds + 4 + leaked /\ leaked' = leaked
    BY <1>0, <1>1 DEF ForkGenerator, Ledger, FdLedger, Held, Ended
  <2>2. CASE pc' = "exited"
    BY <2>2 DEF RoomKept, Generating, Testing
  <2>3. CASE pc' # "exited"
    <3>1. fds < MaxFds => gen'.room
      BY <1>1, <2>3 DEF ForkGenerator, NoGen
    <3> QED BY <1>0, <2>1, <3>1 DEF RoomKept, NoSpareFd
  <2> QED BY <2>2, <2>3
<1>2. CASE GenStep \/ GenDie
  <2>1. /\ gen'.room = gen.room /\ UNCHANGED <<pc, leaked>>
    BY <1>0, <1>2 DEF GenStep, GenBegin, GenMutate, GenTruncate, GenCopy, GenRedirect, GenSend,
       GenDie, GenTypeOK
  <2> QED BY <2>1 DEF RoomKept, NoSpareFd
<1>3. CASE JudgeLevel
  <2>1. /\ pc = "judge" /\ UNCHANGED gen
        /\ leaked' = leaked \/ leaked' = leaked + 1
    BY <1>3 DEF JudgeLevel, SaveTimeoutCase
  <2>2. ~NoSpareFd' => ~NoSpareFd
    BY <1>0, <2>1 DEF NoSpareFd
  <2> QED BY <2>1, <2>2 DEF RoomKept, Testing
<1>4. ASSUME UNCHANGED <<gen, leaked>>,
             pc' \in Generating \cup Testing => pc \in Generating \cup Testing
      PROVE  RoomKept'
  BY <1>4 DEF RoomKept, NoSpareFd
<1>5. CASE SelectSeed \/ OpenPipes \/ NoLog \/ ScanLog \/ Interrupt \/ Rerun
  <2>1. pc' \notin Generating \cup Testing
    BY <1>5 DEF SelectSeed, OpenPipes, NoLog, ScanLog, Interrupt, Rerun, Generating, Testing
  <2> QED BY <2>1 DEF RoomKept
<1>6. CASE CloseWriteEnd \/ ReadRecord \/ CloseReadEnd \/ ReapGenerator \/ ForkTimer
           \/ ForkCompiler \/ WaitFirst \/ WaitSecond \/ Collect
  <2>1. pc \in Generating \cup Testing /\ UNCHANGED <<gen, leaked>>
    BY <1>6 DEF CloseWriteEnd, ReadRecord, CloseReadEnd, ReapGenerator, ForkTimer,
       ForkCompiler, WaitFirst, WaitSecond, Collect, Generating, Testing
  <2> QED BY <1>4, <2>1
<1>7. ASSUME NEW l \in 1 .. NLevels,
             TimerExpires(l) \/ CompilerOpensLog(l) \/ CompilerWrites(l) \/ CompilerExits(l)
      PROVE  RoomKept'
  BY <1>4, <1>7 DEF TimerExpires, CompilerOpensLog, CompilerWrites, CompilerExits
<1>8. CASE UNCHANGED vars
  BY <1>4, <1>8 DEF vars
<1> QED
  BY <1>1, <1>2, <1>3, <1>5, <1>6, <1>7, <1>8
  DEF Next, DriverStep, RoundStep, LevelStep, Environment, Stopped

\* The reader takes from the front what the generator appends at the end, and
\* cannot meet the end of the file before all of the vector is read.
LEMMA StepPipe == Round /\ [Next]_vars => PipeInv'
<1> SUFFICES ASSUME Round, [Next]_vars PROVE PipeInv'
  OBVIOUS
<1> USE DEF procs, genVars, files, logFile, pool, counts
<1>0. /\ chan \in Seq(Record) /\ recv \in Seq(Record) /\ Records \in Nat
      /\ TypeOK /\ Isolation /\ CopyWhole /\ PipeInv
      /\ status \in [Pids -> {"none", "running", "zombie"}] /\ GenPid \in Pids
  BY HarnessAssumption DEF Round, Isolation, TypeOK, GenTypeOK, ProcsTypeOK, Pids
<1>a. Len(chan) \in Nat /\ Len(recv) \in Nat
  BY <1>0
<1>1. CASE OpenPipes
  BY <1>1 DEF OpenPipes, PipeInv, Testing, Generating, Sent
<1>2. CASE ForkGenerator
  <2>1. pc = "fork" /\ Sent = 0 /\ Sent' = 0 /\ UNCHANGED <<chan, recv>>
    BY <1>0, <1>2 DEF ForkGenerator, PipeInv, Sent
  <2>2. CASE pc' = "exited"
    BY <2>2 DEF PipeInv, Testing, Generating
  <2>3. CASE pc' # "exited"
    <3>1. pc' = "close" /\ gen'.at = "begin" /\ status'[GenPid] = "running"
      BY <1>0, <1>2, <2>3 DEF ForkGenerator, NoGen
    <3>2. PipeOrdered'
      BY <1>0, <1>a, <2>1, <3>1 DEF PipeOrdered, Sent
    <3> QED BY <3>1, <3>2 DEF PipeInv, Testing, Generating
  <2> QED BY <2>2, <2>3
<1>3. CASE CloseWriteEnd
  BY <1>0, <1>3 DEF CloseWriteEnd, PipeInv, PipeOrdered, Testing, Generating, Sent
<1>4. CASE ReadRecord
  <2>1. /\ pc = "read" /\ pc' = "read" /\ Len(recv) < Records /\ UNCHANGED <<gen, status>>
        /\ status[GenPid] # "none"
    BY <1>0, <1>4, WhoLives DEF ReadRecord, Ended, Generating
  <2>2. ASSUME gen.at # "dead" PROVE PipeOrdered'
    <3>1. PipeOrdered
      BY <1>0, <2>1, <2>2 DEF PipeInv, Generating
    <3>2. chan # <<>>
      BY <1>0, <1>4, <2>1, <2>2, <3>1 DEF ReadRecord, PipeInv, PipeOrdered, Generating, Sent
    <3>3. recv' = Append(recv, Head(chan)) /\ chan' = Tail(chan)
      BY <1>4, <3>2 DEF ReadRecord
    <3>4. /\ Len(recv') = Len(recv) + 1 /\ Len(chan') = Len(chan) - 1 /\ Len(chan) > 0
          /\ \A i \in 1 .. Len(recv) : recv'[i] = recv[i]
          /\ recv'[Len(recv) + 1] = chan[1]
          /\ \A i \in 1 .. Len(chan) - 1 : chan'[i] = chan[i + 1]
      BY <1>0, <3>2, <3>3
    <3>5. Sent' = Sent
      BY <1>a, <3>4 DEF Sent
    <3>a. /\ \A i \in 1 .. Len(recv) : recv[i] = <<gen.vec, i>>
          /\ \A i \in 1 .. Len(chan) : chan[i] = <<gen.vec, Len(recv) + i>>
      BY <3>1 DEF PipeOrdered
    <3>6. ASSUME NEW i \in 1 .. Len(recv') PROVE recv'[i] = <<gen.vec, i>>
      <4>1. CASE i \in 1 .. Len(recv)
        BY <3>4, <3>a, <4>1
      <4>2. CASE i \notin 1 .. Len(recv)
        <5>1. i = Len(recv) + 1 /\ 1 \in 1 .. Len(chan)
          BY <1>a, <3>4, <4>2
        <5> QED BY <3>4, <3>a, <5>1
      <4> QED BY <4>1, <4>2
    <3>7. ASSUME NEW i \in 1 .. Len(chan') PROVE chan'[i] = <<gen.vec, Len(recv') + i>>
      <4>1. i \in 1 .. Len(chan) - 1 /\ i + 1 \in 1 .. Len(chan)
        BY <1>a, <3>4
      <4>2. chan[i + 1] = <<gen.vec, Len(recv) + (i + 1)>>
        BY <3>a, <4>1
      <4>3. Len(recv) + (i + 1) = Len(recv') + i
        BY <1>a, <3>4, <4>1
      <4> QED BY <3>4, <4>1, <4>2, <4>3
    <3> QED BY <2>1, <3>1, <3>5, <3>6, <3>7 DEF PipeOrdered
  <2> QED BY <1>0, <2>1, <2>2 DEF PipeInv, Testing, Generating
<1>5. CASE CloseReadEnd
  BY <1>0, <1>5 DEF CloseReadEnd, PipeInv, PipeOrdered, Testing, Generating, Sent
<1>6. CASE ReapGenerator
  BY <1>0, <1>6 DEF ReapGenerator, PipeInv, PipeOrdered, Testing, Generating, Sent
<1>7. CASE GenStep \/ GenDie
  <2>0. pc' = pc /\ UNCHANGED recv
    BY <1>7 DEF GenStep, GenBegin, GenMutate, GenTruncate, GenCopy, GenRedirect, GenSend, GenDie
  <2>1. CASE pc \in Ended
    BY <1>0, <2>0, <2>1 DEF PipeInv, Testing, Generating, Ended
  <2>2. CASE pc \notin Ended
    <3>1. pc \in Generating /\ status[GenPid] = "running"
      BY <1>0, <1>7, <2>2, WhoLives DEF GenStep, GenBegin, GenMutate, GenTruncate, GenCopy,
         GenRedirect, GenSend, GenDie, GenAt
    <3>2. CASE GenDie
      <4>1. gen'.at = "dead" /\ status'[GenPid] = "zombie"
        BY <1>0, <3>2 DEF GenDie, TypeOK, GenTypeOK
      <4> QED BY <1>0, <2>0, <3>1, <4>1 DEF PipeInv, Testing, Generating
    <3>3. CASE GenBegin \/ GenMutate \/ GenTruncate \/ GenCopy \/ GenRedirect
      <4>1. /\ gen.at \in {"begin", "mutate", "truncate", "copy", "redirect"}
            /\ gen'.at \in {"mutate", "truncate", "copy", "redirect", "send"}
            /\ UNCHANGED <<chan, status>>
        BY <1>0, <3>3 DEF GenBegin, GenMutate, GenTruncate, GenCopy, GenRedirect, GenAt, TypeOK,
           GenTypeOK
      <4>2. PipeOrdered
        BY <1>0, <3>1, <4>1 DEF PipeInv
      <4>3. PipeOrdered'
        BY <1>a, <2>0, <4>1, <4>2 DEF PipeOrdered, Sent
      <4> QED BY <1>0, <2>0, <3>1, <4>1, <4>3 DEF PipeInv, Testing, Generating
    <3>4. CASE GenSend
      <4>1. gen.at = "send" /\ gen'.vec = gen.vec
        BY <1>0, <3>4 DEF GenSend, GenAt, TypeOK, GenTypeOK
      <4>2. PipeOrdered
        BY <1>0, <3>1, <4>1 DEF PipeInv
      <4>3. CASE Sent < Records
        <5>1. /\ chan' = Append(chan, <<gen.vec, Sent + 1>>) /\ UNCHANGED <<gen, status>>
          BY <3>4, <4>3 DEF GenSend
        <5>2. /\ Len(chan') = Len(chan) + 1
              /\ \A i \in 1 .. Len(chan) : chan'[i] = chan[i]
              /\ chan'[Len(chan) + 1] = <<gen.vec, Sent + 1>>
          BY <1>0, <5>1
        <5>3. Sent' = Sent + 1
          BY <1>a, <2>0, <5>2 DEF Sent
        <5>4. \A i \in 1 .. Len(chan') : chan'[i] = <<gen.vec, Len(recv) + i>>
          <6> SUFFICES ASSUME NEW i \in 1 .. Len(chan')
                       PROVE  chan'[i] = <<gen.vec, Len(recv) + i>>
            OBVIOUS
          <6>1. CASE i \in 1 .. Len(chan)
            BY <4>2, <5>2, <6>1 DEF PipeOrdered
          <6>2. CASE i \notin 1 .. Len(chan)
            <7>1. i = Len(chan) + 1 /\ Sent + 1 = Len(recv) + i
              BY <1>a, <5>2, <6>2 DEF Sent
            <7> QED BY <5>2, <7>1
          <6> QED BY <6>1, <6>2
        <5>5. PipeOrdered'
          BY <1>0, <1>a, <2>0, <4>1, <4>2, <4>3, <5>1, <5>3, <5>4 DEF PipeOrdered, Sent
        <5> QED BY <1>0, <2>0, <3>1, <4>1, <5>1, <5>5 DEF PipeInv, Testing, Generating
      <4>4. CASE ~(Sent < Records)
        <5>1. gen'.at = "ok" /\ status'[GenPid] = "zombie" /\ UNCHANGED chan
          BY <1>0, <3>4, <4>4 DEF GenSend, GenAt, TypeOK, GenTypeOK
        <5>2. PipeOrdered'
          <6>1. Sent' = Sent /\ UNCHANGED <<recv, chan>>
            BY <2>0, <5>1 DEF Sent
          <6>2. Sent <= Records /\ Sent \in Nat
            BY <1>a, <4>2 DEF PipeOrdered, Sent
          <6>3. Sent = Records
            BY <1>0, <4>4, <6>2
          <6> QED BY <1>0, <4>1, <4>2, <5>1, <6>1, <6>2, <6>3 DEF PipeOrdered
        <5> QED BY <1>0, <2>0, <3>1, <5>1, <5>2 DEF PipeInv, Testing, Generating
      <4> QED BY <4>3, <4>4
    <3> QED BY <1>7, <3>2, <3>3, <3>4 DEF GenStep
  <2> QED BY <2>1, <2>2
<1>8. CASE SelectSeed \/ NoLog \/ ScanLog \/ Interrupt \/ Rerun
  BY <1>8 DEF SelectSeed, NoLog, ScanLog, Interrupt, Rerun, PipeInv, Testing, Generating,
     Ended
<1>9. CASE ForkTimer \/ ForkCompiler \/ WaitFirst \/ JudgeLevel \/ WaitSecond \/ Collect
  <2>1. /\ pc \in Testing /\ UNCHANGED <<gen, chan, recv>>
        /\ pc' \in Testing \cup {"scan"} \cup Ended
    BY <1>9 DEF ForkTimer, ForkCompiler, WaitFirst, JudgeLevel, WaitSecond, NextLevel,
       Collect, Testing, Ended
  <2> QED BY <1>0, <2>1 DEF PipeInv, PipeOrdered, Testing, Generating, Ended, Sent
<1>10. ASSUME NEW l \in 1 .. NLevels,
              TimerExpires(l) \/ CompilerOpensLog(l) \/ CompilerWrites(l) \/ CompilerExits(l)
       PROVE  PipeInv'
  <2>1. UNCHANGED <<pc, gen, chan, recv>> /\ status'[GenPid] = status[GenPid]
    BY <1>0, <1>10, DistinctPids DEF TimerExpires, CompilerOpensLog, CompilerWrites,
       CompilerExits
  <2> QED BY <1>0, <2>1 DEF PipeInv, PipeOrdered, Testing, Generating, Sent
<1>11. CASE UNCHANGED vars
  BY <1>0, <1>11 DEF vars, PipeInv, PipeOrdered, Testing, Generating, Sent
<1> QED
  BY <1>1, <1>2, <1>3, <1>4, <1>5, <1>6, <1>7, <1>8, <1>9, <1>10, <1>11
  DEF Next, DriverStep, RoundStep, LevelStep, Environment, Stopped

LEMMA StepRound == Round /\ [Next]_vars => Round'
BY StepIsolation, StepLedger, StepCopy, StepRoom, StepPipe DEF Round, Isolation

\* A generator that ended well has left its mutant in 0.c, if it had room.
LEMMA MutantCopied ==
  Round /\ pc = "timer" /\ gen.at = "ok" => zeroC = Text(gen.copy) \/ NoSpareFd
BY DEF Round, CopyWhole, RoomUsed, RoomKept, Testing

\* For every number of mutants, records and descriptors, whatever the generator
\* is interrupted at and whichever of its files it cannot open: a round compiles
\* a whole mutant of its own when the generator ended well and the ledger of the
\* descriptors shows one to spare, and in every other case a whole program or an
\* empty file or none.
THEOREM ProgramWhole == Spec => []RoundTestsMutant
<1>1. Round => RoundTestsMutant
  BY MutantCopied DEF Round, CopyWhole, ZeroWhole, RoundTestsMutant
<1> QED BY <1>1, InitRound, StepRound, PTL DEF Spec

\* For every number of records and descriptors and however reads and writes
\* interleave: the vector the driver read from a generator that ended well is
\* its mutant's, entry by entry, and that mutant is the program in 0.c while
\* the ledger of the descriptors shows one to spare.
THEOREM VectorDelivered == Spec => []VectorMatchesProgram
<1>1. ASSUME Round, pc = "timer", gen.at = "ok"
      PROVE  /\ zeroC = Text(gen.copy) \/ NoSpareFd
             /\ chan = <<>>
             /\ recv = [i \in 1 .. Records |-> <<gen.copy, i>>]
  <2>1. chan \in Seq(Record) /\ recv \in Seq(Record)
    BY <1>1 DEF Round, Isolation, TypeOK, GenTypeOK
  <2>2. (zeroC = Text(gen.copy) \/ NoSpareFd) /\ gen.vec = gen.copy
    BY <1>1, MutantCopied DEF Round, CopyWhole, SameMutant
  <2>3. PipeOrdered /\ Len(recv) = Records /\ Sent = Records
    BY <1>1 DEF Round, PipeInv, PipeOrdered, Testing
  <2>4. Len(chan) = 0
    BY <2>1, <2>3 DEF Sent
  <2>5. recv = [i \in 1 .. Records |-> <<gen.vec, i>>]
    <3>1. /\ DOMAIN recv = 1 .. Records
          /\ \A i \in 1 .. Records : recv[i] = <<gen.vec, i>>
      BY <2>1, <2>3 DEF PipeOrdered
    <3>2. recv = [i \in DOMAIN recv |-> recv[i]]
      BY <2>1
    <3> QED BY <3>1, <3>2, Zenon
  <2> QED BY <2>1, <2>2, <2>4, <2>5
<1>2. Round => VectorMatchesProgram
  BY <1>1 DEF VectorMatchesProgram
<1> QED BY <1>2, InitRound, StepRound, PTL DEF Spec

-----------------------------------------------------------------------------
(***************************************************************************)
(* The reproducers of the first session, while nu_execs does not wrap.     *)
(***************************************************************************)
\* What a copy makes of 0.c, be it there or not.
Whole(z) == IF z = NoFile THEN <<>> ELSE z

\* A case file bears the number of its round: crashes are numbered after the
\* round is counted, timeouts before, and two timeouts of one round that had
\* one name would hold one program.
CasesNumbered ==
  \A n \in CaseNames : cases[n] # NoFile =>
    /\ n[2] <= nu_execs
    /\ n[1] = "crash" /\ pc = "scan" => n[2] < nu_execs
    /\ n[1] # "crash" /\ pc \notin Testing \cup Ended => n[2] < nu_execs
    /\ n[1] # "crash" /\ pc \in Testing /\ n[2] = nu_execs => cases[n] = Whole(zeroC)

RoundsCounted ==
  /\ session >= 1
  /\ nu_execs <= MaxRounds
  /\ pc \notin {"head", "scan"} \cup Ended => nu_execs < MaxRounds

CasesInv == RoundsCounted /\ (session = 1 => CasesNumbered /\ ReproducersFaithful)

LEMMA InitCases == Init => CasesInv
<1> SUFFICES ASSUME Init PROVE CasesInv
  OBVIOUS
<1>1. RoundsCounted
  BY HarnessAssumption DEF Init, RoundsCounted
<1>2. \A n \in CaseNames : cases[n] = NoFile
  BY DEF Init
<1>3. CasesNumbered /\ ReproducersFaithful
  BY <1>2 DEF Init, CasesNumbered, ReproducersFaithful
<1> QED BY <1>1, <1>3 DEF CasesInv

\* A program written over itself is that program.
LEMMA OverwriteSame == \A f \in Contents : Overwrite(f, f) = f
<1> SUFFICES ASSUME NEW f \in Contents PROVE Overwrite(f, f) = f
  OBVIOUS
<1>1. f \in Seq(Programs \X Nat) /\ f # NoFile
  BY HarnessAssumption DEF Contents
<1>2. SubSeq(f, Len(f) + 1, Len(f)) = <<>>
  BY <1>1
<1> QED BY <1>1, <1>2 DEF Overwrite

\* A copy that finds its descriptors makes the file what 0.c is, if the file
\* was not there or was that already; one that does not makes nothing.
LEMMA CopyMakes ==
  ASSUME TypeOK, NEW n \in CaseNames, CopyTo(n), cases[n] \in {NoFile, Whole(zeroC)}
  PROVE  /\ DestOpens => cases' = [cases EXCEPT ![n] = Whole(zeroC)]
         /\ ~DestOpens => cases' = cases
<1>1. fds \in Int /\ MaxFds \in Nat /\ zeroC \in Contents \cup {NoFile}
  BY HarnessAssumption DEF TypeOK, CountTypeOK, FilesTypeOK
<1>2. <<>> \in Contents
  BY DEF Contents
<1>3. Whole(zeroC) \in Contents
  BY <1>1, <1>2 DEF Whole
<1>4. ASSUME DestOpens PROVE cases' = [cases EXCEPT ![n] = Whole(zeroC)]
  <2>1. Copied = Whole(zeroC)
    BY <1>1, <1>4 DEF DestOpens, Copied, SourceOpens, Whole
  <2>2. Overwrite(cases[n], Copied) = Whole(zeroC)
    <3>1. CASE cases[n] = NoFile
      BY <2>1, <3>1 DEF Overwrite
    <3>2. CASE cases[n] = Whole(zeroC)
      BY <1>3, <2>1, <3>2, OverwriteSame
    <3> QED BY <3>1, <3>2
  <2> QED BY <1>4, <2>2 DEF CopyTo
<1> QED BY <1>4 DEF CopyTo

\* Such a copy, reported, leaves every report of a written file true.
LEMMA CopyFaithful ==
  ASSUME TypeOK, session = 1, ReproducersFaithful, NEW n \in CaseNames, CopyTo(n),
         cases[n] \in {NoFile, Whole(zeroC)},
         \A a \in announced' :
           a \in announced \/ (a.name = n /\ a.prog = zeroC /\ (a.stored => DestOpens))
  PROVE  /\ ReproducersFaithful'
         /\ cases'[n] \in {NoFile, Whole(zeroC)}
         /\ \A m \in CaseNames : m # n => cases'[m] = cases[m]
<1>1. /\ cases \in [CaseNames -> Contents \cup {NoFile}] /\ NoFile \notin Contents
      /\ announced \subseteq Announcements
  BY HarnessAssumption DEF TypeOK, FilesTypeOK, ReportTypeOK, Contents
<1>2. /\ DestOpens => cases' = [cases EXCEPT ![n] = Whole(zeroC)]
      /\ ~DestOpens => cases' = cases
  BY CopyMakes
<1>3. /\ cases'[n] \in {NoFile, Whole(zeroC)}
      /\ \A m \in CaseNames : m # n => cases'[m] = cases[m]
      /\ cases[n] = Whole(zeroC) => cases'[n] = Whole(zeroC)
  BY <1>1, <1>2
<1>4. ASSUME NEW a \in announced', a.stored PROVE cases'[a.name] = Whole(a.prog)
  <2>1. CASE a \in announced
    <3>1. cases[a.name] = Whole(a.prog) /\ a.name \in CaseNames
      BY <1>1, <1>4, <2>1 DEF ReproducersFaithful, Whole, Announcements
    <3>2. Whole(a.prog) # NoFile
      <4>1. <<>> \in Contents /\ a.prog \in Contents \cup {NoFile}
        BY <1>1, <2>1 DEF Announcements, Contents
      <4> QED BY <1>1, <4>1 DEF Whole
    <3> QED BY <1>3, <3>1, <3>2
  <2>2. CASE a \notin announced
    BY <1>1, <1>2, <1>4, <2>2
  <2> QED BY <2>1, <2>2
<1>5. ReproducersFaithful'
  BY <1>4 DEF ReproducersFaithful, Whole
<1> QED BY <1>3, <1>5

LEMMA StepCounted ==
  ASSUME MaxRounds < UIntMod, TypeOK, RoundsCounted, [Next]_vars
  PROVE  RoundsCounted'
<1> USE DEF procs, genVars, files, logFile, pool, counts
<1>0. /\ session \in Nat /\ nu_execs \in Nat /\ MaxRounds \in Nat /\ UIntMod \in Nat \ {0}
  BY HarnessAssumption DEF TypeOK, CountTypeOK, UInt
<1>1. CASE Collect
  <2>1. pc = "collect" /\ pc' = "scan" /\ nu_execs' = (nu_execs + 1) % UIntMod
        /\ session' = session
    BY <1>1 DEF Collect
  <2>2. nu_execs < MaxRounds
    BY <2>1 DEF RoundsCounted, Ended
  <2>3. (nu_execs + 1) % UIntMod = nu_execs + 1
    BY <1>0, <2>2
  <2> QED BY <1>0, <2>1, <2>2, <2>3 DEF RoundsCounted
<1>2. CASE Rerun
  BY <1>0, <1>2 DEF Rerun, RoundsCounted
<1>3. CASE SelectSeed
  BY <1>0, <1>3 DEF SelectSeed, RoundsCounted, Ended
<1>4. ASSUME UNCHANGED <<session, nu_execs>>,
             pc \in {"head", "scan"} \cup Ended => pc' \in {"head", "scan"} \cup Ended
      PROVE  RoundsCounted'
  BY <1>4 DEF RoundsCounted
<1>5. CASE OpenPipes \/ ForkGenerator \/ CloseWriteEnd \/ ReadRecord \/ CloseReadEnd
           \/ ReapGenerator \/ ForkTimer \/ ForkCompiler
  BY <1>4, <1>5 DEF OpenPipes, ForkGenerator, CloseWriteEnd, ReadRecord, CloseReadEnd,
     ReapGenerator, ForkTimer, ForkCompiler, Ended
<1>6. CASE WaitFirst \/ JudgeLevel \/ WaitSecond
  BY <1>4, <1>6 DEF WaitFirst, JudgeLevel, WaitSecond, Ended
<1>7. CASE NoLog \/ ScanLog \/ Interrupt
  BY <1>4, <1>7 DEF NoLog, ScanLog, Interrupt, Ended
<1>8. CASE GenStep \/ GenDie
  BY <1>4, <1>8 DEF GenStep, GenBegin, GenMutate, GenTruncate, GenCopy, GenRedirect, GenSend, GenDie
<1>9. ASSUME NEW l \in 1 .. NLevels,
             TimerExpires(l) \/ CompilerOpensLog(l) \/ CompilerWrites(l) \/ CompilerExits(l)
      PROVE  RoundsCounted'
  BY <1>4, <1>9 DEF TimerExpires, CompilerOpensLog, CompilerWrites, CompilerExits
<1>10. CASE UNCHANGED vars
  BY <1>4, <1>10 DEF vars
<1> QED
  BY <1>1, <1>2, <1>3, <1>5, <1>6, <1>7, <1>8, <1>9, <1>10
  DEF Next, DriverStep, RoundStep, LevelStep, Environment, Stopped

\* Steps that write no case file and report nothing.
LEMMA CasesKept ==
  ASSUME TypeOK, session = 1, CasesNumbered, ReproducersFaithful,
         UNCHANGED <<cases, announced, nu_execs>>, pc' = "scan" => pc = "scan",
         pc' \in Testing => pc \notin Testing \cup Ended \/ (pc \in Testing /\ zeroC' = zeroC),
         pc' \notin Testing \cup Ended => pc \notin Testing \cup Ended
  PROVE  CasesNumbered' /\ (session' = 1 => ReproducersFaithful')
<1>1. ReproducersFaithful'
  BY DEF ReproducersFaithful
<1>2. ASSUME NEW n \in CaseNames PROVE n[2] \in Nat /\ nu_execs \in Nat
  BY HarnessAssumption DEF CaseNames, UInt, TypeOK, CountTypeOK
<1>3. CasesNumbered'
  BY <1>2 DEF CasesNumbered
<1> QED BY <1>1, <1>3

LEMMA StepCases ==
  ASSUME MaxRounds < UIntMod, Isolation, CasesInv, [Next]_vars
  PROVE  CasesInv'
<1> USE DEF procs, genVars, files, logFile, pool, counts
<1>0. /\ TypeOK /\ RoundsCounted /\ RoundsCounted'
      /\ session \in Nat /\ nu_execs \in Nat /\ MaxRounds \in Nat /\ UIntMod \in Nat \ {0}
      /\ cases \in [CaseNames -> Contents \cup {NoFile}]
  BY StepCounted, HarnessAssumption
  DEF Isolation, CasesInv, TypeOK, CountTypeOK, UInt, FilesTypeOK
<1>a. ASSUME NEW n \in CaseNames PROVE n[1] \in CaseKinds /\ n[2] \in Nat
  BY HarnessAssumption DEF CaseNames, UInt
<1> SUFFICES ASSUME session' = 1 PROVE CasesNumbered' /\ ReproducersFaithful'
  BY <1>0 DEF CasesInv
<1>1. CASE Rerun
  BY <1>0, <1>1 DEF Rerun, RoundsCounted
<1>2. CASE ~Rerun
  <2>1. session = 1
    BY <1>2 DEF Next, DriverStep, RoundStep, LevelStep, GenStep, Environment, Stopped, vars,
       SelectSeed, OpenPipes, ForkGenerator, CloseWriteEnd, ReadRecord, CloseReadEnd,
       ReapGenerator, ForkTimer, ForkCompiler, WaitFirst, JudgeLevel, WaitSecond, Collect,
       NoLog, ScanLog, GenBegin, GenMutate, GenTruncate, GenCopy, GenRedirect, GenSend, GenDie,
       TimerExpires, CompilerOpensLog, CompilerWrites, CompilerExits, Interrupt
  <2>2. CasesNumbered /\ ReproducersFaithful
    BY <2>1 DEF CasesInv
  <2>3. CASE SelectSeed \/ OpenPipes \/ ForkGenerator \/ CloseWriteEnd \/ ReadRecord
             \/ CloseReadEnd \/ ReapGenerator \/ NoLog \/ Interrupt
    <3>1. /\ UNCHANGED <<cases, announced, nu_execs>>
          /\ pc' # "scan" /\ (pc' \in Testing => pc = "reap")
          /\ pc' \notin Testing \cup Ended => pc \notin Testing \cup Ended
      BY <2>3 DEF SelectSeed, OpenPipes, ForkGenerator, CloseWriteEnd, ReadRecord,
         CloseReadEnd, ReapGenerator, NoLog, Interrupt, Testing, Ended
    <3>2. pc = "reap" => pc \notin Testing \cup Ended
      BY DEF Testing, Ended
    <3> QED BY <1>0, <2>1, <2>2, <3>1, <3>2, CasesKept
  <2>4. CASE ForkTimer \/ ForkCompiler \/ WaitFirst \/ WaitSecond
    <3>1. /\ UNCHANGED <<cases, announced, nu_execs, zeroC>>
          /\ pc \in Testing /\ pc' \in Testing \cup Ended
      BY <2>4 DEF ForkTimer, ForkCompiler, WaitFirst, WaitSecond, NextLevel, Testing, Ended
    <3>2. pc' # "scan"
      BY <3>1 DEF Testing, Ended
    <3> QED BY <1>0, <2>1, <2>2, <3>1, <3>2, CasesKept
  <2>5. CASE GenStep \/ GenDie
    <3>1. UNCHANGED <<pc, cases, announced, nu_execs>>
      BY <2>5 DEF GenStep, GenBegin, GenMutate, GenTruncate, GenCopy, GenRedirect, GenSend, GenDie
    <3>2. pc \in Ended \cup Generating
      BY <2>5, WhoLives DEF GenStep, GenBegin, GenMutate, GenTruncate, GenCopy, GenRedirect, GenSend,
         GenDie, GenAt
    <3>3. pc \notin Testing
      BY <3>2 DEF Testing, Generating, Ended
    <3> QED BY <1>0, <2>1, <2>2, <3>1, <3>3, CasesKept
  <2>6. ASSUME NEW l \in 1 .. NLevels,
               TimerExpires(l) \/ CompilerOpensLog(l) \/ CompilerWrites(l) \/ CompilerExits(l)
        PROVE  CasesNumbered' /\ ReproducersFaithful'
    <3>1. UNCHANGED <<pc, zeroC, cases, announced, nu_execs>>
      BY <2>6 DEF TimerExpires, CompilerOpensLog, CompilerWrites, CompilerExits
    <3>2. pc \in Testing => pc \notin Ended
      BY DEF Testing, Ended
    <3> QED BY <1>0, <2>1, <2>2, <3>1, <3>2, CasesKept
  <2>7. CASE UNCHANGED vars
    <3>1. UNCHANGED <<pc, zeroC, cases, announced, nu_execs>>
      BY <2>7 DEF vars
    <3>2. pc \in Testing => pc \notin Ended
      BY DEF Testing, Ended
    <3> QED BY <1>0, <2>1, <2>2, <3>1, <3>2, CasesKept
  <2>8. CASE Collect
    <3>1. /\ pc = "collect" /\ pc' = "scan" /\ nu_execs' = (nu_execs + 1) % UIntMod
          /\ UNCHANGED <<cases, announced, zeroC>>
      BY <2>8 DEF Collect
    <3>2. nu_execs < MaxRounds
      BY <1>0, <3>1 DEF RoundsCounted, Ended
    <3>3. nu_execs' = nu_execs + 1
      BY <1>0, <3>1, <3>2
    <3>4. \A n \in CaseNames : cases[n] # NoFile => n[2] <= nu_execs
      BY <2>2 DEF CasesNumbered
    <3>5. \A n \in CaseNames : cases'[n] # NoFile => n[2] < nu_execs' /\ n[2] <= nu_execs'
      BY <1>0, <1>a, <3>1, <3>3, <3>4
    <3>6. CasesNumbered'
      BY <3>1, <3>5 DEF CasesNumbered, Testing
    <3> QED BY <2>1, <2>2, <3>1, <3>6 DEF ReproducersFaithful
  <2>9. CASE JudgeLevel
    <3>0. pc = "judge" /\ pc' = "wait2" /\ UNCHANGED <<zeroC, nu_execs>>
      BY <2>9 DEF JudgeLevel
    <3>1. CASE ~TimedOut
      <4>1. UNCHANGED <<cases, announced>> /\ pc \in Testing /\ pc' \in Testing
        BY <2>9, <3>0, <3>1 DEF JudgeLevel, Testing
      <4> QED BY <1>0, <2>1, <2>2, <3>0, <4>1, CasesKept
    <3>2. CASE TimedOut
      <4> DEFINE k == CaseName(Levels[lvl])
      <4>1. k \in CaseNames /\ k[1] # "crash" /\ k[2] = nu_execs
        BY <1>0, LevelIsNoCrash DEF CaseName, CaseNames, CaseKinds, TypeOK, CountTypeOK,
           PlaceTypeOK
      <4>2. CopyTo(k)
        BY <2>9, <3>2 DEF JudgeLevel, SaveTimeoutCase
      <4>3. \A a \in announced' :
              a \in announced \/ (a.name = k /\ a.prog = zeroC /\ a.stored = DestOpens)
        BY <2>9, <3>2 DEF JudgeLevel, SaveTimeoutCase, Report
      <4> HIDE DEF k
      <4>4. cases[k] \in {NoFile, Whole(zeroC)}
        BY <2>2, <3>0, <4>1 DEF CasesNumbered, Testing
      <4>5. /\ ReproducersFaithful'
            /\ cases'[k] \in {NoFile, Whole(zeroC)}
            /\ \A m \in CaseNames : m # k => cases'[m] = cases[m]
        BY <1>0, <2>1, <2>2, <4>1, <4>2, <4>3, <4>4, CopyFaithful
      <4>6. CasesNumbered'
        BY <1>0, <1>a, <2>2, <3>0, <4>1, <4>5 DEF CasesNumbered, Testing, Ended
      <4> QED BY <4>5, <4>6
    <3> QED BY <3>1, <3>2
  <2>10. CASE ScanLog
    <3>0. pc = "scan" /\ pc' = "head" /\ UNCHANGED <<zeroC, nu_execs>>
      BY <2>10 DEF ScanLog
    <3> DEFINE k == CaseName("crash")
    <3>1. k \in CaseNames /\ k[1] = "crash" /\ k[2] = nu_execs
      BY <1>0 DEF CaseName, CaseNames, CaseKinds, TypeOK, CountTypeOK
    <3>2. \/ UNCHANGED <<cases, announced>>
          \/ UNCHANGED cases /\ \A a \in announced' : a \in announced \/ ~a.stored
          \/ /\ CopyTo(k)
             /\ \A a \in announced' :
                  a \in announced \/ (a.name = k /\ a.prog = zeroC /\ (a.stored => DestOpens))
      <4>1. CASE ~LooksLikeCrash
        BY <2>10, <4>1 DEF ScanLog
      <4>2. CASE LooksLikeCrash
        <5>1. /\ IF Target = "gcc" THEN CopyTo(k) ELSE UNCHANGED cases
              /\ Report(k, "ice" \in emitted, Target = "gcc" /\ DestOpens)
          BY <2>10, <4>2 DEF ScanLog
        <5>2. \A a \in announced' :
                a \in announced \/ (a.name = k /\ a.prog = zeroC
                                   /\ a.stored = (Target = "gcc" /\ DestOpens))
          BY <5>1 DEF Report
        <5> QED BY <5>1, <5>2
      <4> QED BY <4>1, <4>2
    <3> HIDE DEF k
    <3>3. cases[k] = NoFile
      <4>1. nu_execs \in Nat /\ ~(k[2] < nu_execs)
        BY <1>0, <3>1
      <4> QED BY <2>2, <3>0, <3>1, <4>1 DEF CasesNumbered
    <3>4. CASE UNCHANGED cases /\ \A a \in announced' : a \in announced \/ ~a.stored
      <4>1. ReproducersFaithful'
        BY <2>1, <2>2, <3>4 DEF ReproducersFaithful
      <4>2. CasesNumbered'
        BY <2>2, <3>0, <3>4 DEF CasesNumbered, Testing, Ended
      <4> QED BY <4>1, <4>2
    <3>5. CASE /\ CopyTo(k)
               /\ \A a \in announced' :
                    a \in announced \/ (a.name = k /\ a.prog = zeroC /\ (a.stored => DestOpens))
      <4>1. /\ ReproducersFaithful'
            /\ \A m \in CaseNames : m # k => cases'[m] = cases[m]
        BY <1>0, <2>1, <2>2, <3>1, <3>3, <3>5, CopyFaithful
      <4>2. CasesNumbered'
        BY <1>0, <1>a, <2>2, <3>0, <3>1, <4>1 DEF CasesNumbered, Testing, Ended
      <4> QED BY <4>1, <4>2
    <3> QED BY <3>2, <3>4, <3>5
  <2> QED
    BY <1>2, <2>3, <2>4, <2>5, <2>6, <2>7, <2>8, <2>9, <2>10
    DEF Next, DriverStep, RoundStep, LevelStep, Environment, Stopped
<1> QED BY <1>1, <1>2

\* For every number of levels, mutants and descriptors, as long as nu_execs does
\* not come round to the numbers of older files: a file the first session said
\* it wrote holds the program that was reported, at every later time too.
THEOREM ReproducersCorrect ==
  ASSUME MaxRounds < UIntMod
  PROVE  Spec => []ReproducersFaithful
<1>1. Isolation /\ CasesInv /\ [Next]_vars => CasesInv'
  BY StepCases
<1>2. CasesInv => ReproducersFaithful
  BY DEF CasesInv, ReproducersFaithful
<1> QED BY <1>1, <1>2, InitIsolation, StepIsolation, InitCases, PTL DEF Spec

=============================================================================
