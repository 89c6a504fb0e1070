---------------------------- MODULE CampaignProofs ----------------------------
(***************************************************************************)
(* The processes and descriptors of remccg carry out the campaign that the *)
(* module Campaign describes, for every number of levels.                  *)
(***************************************************************************)
EXTENDS HarnessProofs

\* The verdicts so far: one per level that is over, by that level's children.
VerdictsSoFar ==
  /\ pc \in {"timer", "compile", "wait1"} => Len(first) = lvl - 1
  /\ pc \in {"judge", "wait2"} => Len(first) = lvl
  /\ pc \in {"collect", "scan"} => Len(first) = NLevels
  /\ Phase \in {"testing", "tested"} =>
       \A i \in 1 .. Len(first) : first[i] \in {Timer(i), Cc(i)}

Conduct == Isolation /\ VerdictsSoFar

LEMMA InitConduct == Init => Conduct
BY InitIsolation DEF Init, Conduct, VerdictsSoFar, Phase, Ended

LEMMA StepConduct == Conduct /\ [Next]_vars => Conduct'
<1> SUFFICES ASSUME Conduct, [Next]_vars PROVE VerdictsSoFar'
  BY StepIsolation DEF Conduct
<1> USE DEF procs, genVars
<1>0. first \in Seq(Pids) /\ lvl \in 1 .. NLevels /\ NLevels \in Nat
  BY HarnessAssumption DEF Conduct, Isolation, TypeOK, ProcsTypeOK, PlaceTypeOK, NLevels
<1>1. CASE SelectSeed \/ OpenPipes \/ ForkGenerator \/ CloseWriteEnd \/ ReadRecord
           \/ CloseReadEnd
  BY <1>1 DEF SelectSeed, OpenPipes, ForkGenerator, CloseWriteEnd, ReadRecord,
     CloseReadEnd, VerdictsSoFar, Phase, Ended
<1>2. CASE ReapGenerator
  BY <1>2 DEF ReapGenerator, VerdictsSoFar, Phase
<1>3. CASE ForkTimer \/ ForkCompiler \/ JudgeLevel
  BY <1>3 DEF ForkTimer, ForkCompiler, JudgeLevel, Conduct, VerdictsSoFar, Phase, Ended
<1>4. CASE WaitFirst
  <2>1. CASE Childless
    BY <1>4, <2>1 DEF WaitFirst, VerdictsSoFar, Phase, Ended
  <2>2. CASE ~Childless
    <3>1. PICK p \in Pids : Reap(p) /\ first' = Append(first, p) /\ pc' = "judge"
      BY <1>4, <2>2 DEF WaitFirst
    <3>2. pc = "wait1" /\ lvl' = lvl /\ Len(first) = lvl - 1
      BY <1>4 DEF WaitFirst, Conduct, VerdictsSoFar
    <3>3. p \in {Timer(lvl), Cc(lvl)}
      BY <3>1, <3>2 DEF Reap, Conduct, Isolation, StageIsolation, Expected, Racers, Ended
    <3>4. \A i \in 1 .. Len(first) : first[i] \in {Timer(i), Cc(i)}
      BY <3>2 DEF Conduct, VerdictsSoFar, Phase, Ended
    <3>5. /\ Len(first') = lvl
          /\ \A i \in 1 .. Len(first') : first'[i] \in {Timer(i), Cc(i)}
      BY <1>0, <3>1, <3>2, <3>3, <3>4
    <3> QED BY <3>1, <3>2, <3>5 DEF VerdictsSoFar, Timer, Cc
  <2> QED BY <2>1, <2>2
<1>5. CASE WaitSecond
  BY <1>0, <1>5 DEF WaitSecond, NextLevel, Conduct, VerdictsSoFar, Phase, Ended
<1>6. CASE Collect \/ NoLog \/ ScanLog
  BY <1>6 DEF Collect, NoLog, ScanLog, Conduct, VerdictsSoFar, Phase, Ended
<1>7. CASE GenStep \/ GenDie
  BY <1>7 DEF GenStep, GenBegin, GenMutate, GenTruncate, GenCopy, GenRedirect, GenSend, GenDie,
     Conduct, VerdictsSoFar, Phase, Ended
<1>8. ASSUME NEW l \in 1 .. NLevels,
             TimerExpires(l) \/ CompilerOpensLog(l) \/ CompilerWrites(l) \/ CompilerExits(l)
      PROVE  VerdictsSoFar'
  BY <1>8 DEF TimerExpires, CompilerOpensLog, CompilerWrites, CompilerExits, Conduct,
     VerdictsSoFar, Phase, Ended
<1>9. CASE Interrupt \/ Rerun
  BY <1>9 DEF Interrupt, Rerun, VerdictsSoFar, Phase, Ended
<1>10. CASE UNCHANGED vars
  BY <1>10 DEF vars, Conduct, VerdictsSoFar, Phase, Ended
<1> QED
  BY <1>1, <1>2, <1>3, <1>4, <1>5, <1>6, <1>7, <1>8, <1>9, <1>10
  DEF Next, DriverStep, RoundStep, LevelStep, Environment, Stopped

\* A step that changes neither the place in the campaign, the verdicts nor the
\* counters is a stutter of the campaign.
LEMMA Stutter ==
  ASSUME Phase' = Phase, UNCHANGED <<first, nu_execs, nu_crashes>>
  PROVE  UNCHANGED Abstract!vars
<1>1. Verdicts' = Verdicts
  BY DEF Verdicts, VerdictOf, Timer, Cc
<1> QED BY <1>1 DEF Abstract!vars

\* A step to the end, from a place that is not the end, is a Stop.
LEMMA StopsCampaign ==
  ASSUME Phase # "stopped", Phase' = "stopped", UNCHANGED <<nu_execs, nu_crashes>>
  PROVE  Abstract!Stop
BY DEF Abstract!Stop, Verdicts

LEMMA StepImplements == Conduct /\ [Next]_vars => [Abstract!Next]_(Abstract!vars)
<1> SUFFICES ASSUME Conduct, [Next]_vars
             PROVE  Abstract!Next \/ UNCHANGED Abstract!vars
  OBVIOUS
<1> USE DEF procs, counts, Ended
<1>0. first \in Seq(Pids) /\ lvl \in 1 .. NLevels /\ NLevels \in Nat
  BY HarnessAssumption DEF Conduct, Isolation, TypeOK, ProcsTypeOK, PlaceTypeOK, NLevels
\* Before a program is there, and while its levels go on.
<1>1. CASE SelectSeed \/ OpenPipes \/ ForkGenerator \/ ForkTimer
  <2>1. UNCHANGED <<first, nu_execs, nu_crashes>> /\ Phase # "stopped"
    BY <1>1 DEF SelectSeed, OpenPipes, ForkGenerator, ForkTimer, Phase
  <2>2. Phase' \in {Phase, "stopped"}
    BY <1>1 DEF SelectSeed, OpenPipes, ForkGenerator, ForkTimer, Phase
  <2> QED BY <2>1, <2>2, Stutter, StopsCampaign DEF Abstract!Next
<1>2. CASE CloseWriteEnd \/ ReadRecord \/ CloseReadEnd \/ ForkCompiler \/ JudgeLevel
  <2>1. UNCHANGED <<first, nu_execs, nu_crashes>> /\ Phase' = Phase
    BY <1>2 DEF CloseWriteEnd, ReadRecord, CloseReadEnd, ForkCompiler, JudgeLevel, Phase
  <2> QED BY <2>1, Stutter
<1>3. CASE ReapGenerator
  <2>1. /\ Phase = "choosing" /\ Phase' = "testing" /\ first' = <<>>
        /\ UNCHANGED <<nu_execs, nu_crashes>>
    BY <1>3 DEF ReapGenerator, Phase
  <2>2. Verdicts' = <<>>
    BY <2>1 DEF Verdicts
  <2> QED BY <2>1, <2>2 DEF Abstract!Next, Abstract!Begin
\* The first of a level's two processes is over: a verdict.
<1>4. CASE WaitFirst
  <2>1. CASE Childless
    <3>1. Phase # "stopped" /\ Phase' = "stopped" /\ UNCHANGED <<nu_execs, nu_crashes>>
      BY <1>4, <2>1 DEF WaitFirst, Phase
    <3> QED BY <3>1, StopsCampaign DEF Abstract!Next
  <2>2. CASE ~Childless
    <3>1. PICK p \in Pids : Reap(p) /\ first' = Append(first, p) /\ pc' = "judge"
      BY <1>4, <2>2 DEF WaitFirst
    <3>2. /\ pc = "wait1" /\ Len(first) = lvl - 1
          /\ Phase = "testing" /\ Phase' = "testing" /\ UNCHANGED <<nu_execs, nu_crashes>>
      BY <1>4, <3>1 DEF WaitFirst, Conduct, VerdictsSoFar, Phase
    <3>3. p \in {Timer(lvl), Cc(lvl)}
      BY <3>1, <3>2 DEF Reap, Conduct, Isolation, StageIsolation, Expected, Racers
    <3> DEFINE v == VerdictOf(p, lvl)
    <3>4. v \in Abstract!Verdict
      BY <3>3 DEF VerdictOf, Abstract!Verdict, Timer, Cc
    <3>5. Len(first') = lvl /\ first'[lvl] = p
          /\ \A i \in 1 .. lvl - 1 : first'[i] = first[i]
      BY <1>0, <3>1, <3>2
    <3>6. Verdicts = [l \in 1 .. lvl - 1 |-> VerdictOf(first[l], l)]
      BY <3>2 DEF Verdicts
    <3>7. Verdicts' = [l \in 1 .. lvl |-> VerdictOf(first'[l], l)]
      BY <3>2, <3>5 DEF Verdicts, VerdictOf, Timer, Cc
    <3>8. Verdicts' = Append(Verdicts, v) /\ Len(Verdicts) = lvl - 1
      BY <1>0, <3>5, <3>6, <3>7
    <3> QED BY <1>0, <3>2, <3>4, <3>8 DEF Abstract!Next, Abstract!Judge
  <2> QED BY <2>1, <2>2
<1>5. CASE WaitSecond
  <2>1. UNCHANGED <<first, nu_execs, nu_crashes>> /\ Phase # "stopped"
    BY <1>5 DEF WaitSecond, Phase
  <2>2. Phase' \in {Phase, "stopped"}
    BY <1>5 DEF WaitSecond, NextLevel, Phase
  <2> QED BY <2>1, <2>2, Stutter, StopsCampaign DEF Abstract!Next
\* All levels are over: the program is counted, then its log is read.
<1>6. CASE Collect
  <2>1. /\ Phase = "testing" /\ Phase' = "tested" /\ Len(first) = NLevels
        /\ first' = first /\ nu_execs' = (nu_execs + 1) % UIntMod
        /\ nu_crashes' = nu_crashes
    BY <1>6 DEF Collect, Conduct, VerdictsSoFar, Phase
  <2>2. Verdicts' = Verdicts /\ Len(Verdicts) = NLevels
    BY <1>0, <2>1 DEF Verdicts, VerdictOf, Timer, Cc
  <2> QED BY <2>1, <2>2 DEF Abstract!Next, Abstract!Count
<1>7. CASE ScanLog
  <2>1. /\ Phase = "tested" /\ Phase' = "choosing" /\ nu_execs' = nu_execs
        /\ nu_crashes' \in {nu_crashes, (nu_crashes + 1) % UIntMod}
    BY <1>7 DEF ScanLog, Phase
  <2>2. Verdicts' = <<>>
    BY <2>1 DEF Verdicts
  <2> QED BY <2>1, <2>2 DEF Abstract!Next, Abstract!Look
<1>8. CASE NoLog \/ Interrupt
  <2>1. Phase # "stopped" /\ Phase' = "stopped" /\ UNCHANGED <<nu_execs, nu_crashes>>
    BY <1>8 DEF NoLog, Interrupt, Phase
  <2> QED BY <2>1, StopsCampaign DEF Abstract!Next
<1>9. CASE Rerun
  <2>1. /\ Phase = "stopped" /\ Phase' = "choosing" /\ nu_execs' = 0 /\ nu_crashes' = 0
    BY <1>9 DEF Rerun, Phase
  <2>2. Verdicts' = Verdicts
    BY <2>1 DEF Verdicts
  <2> QED BY <2>1, <2>2 DEF Abstract!Next, Abstract!Restart
<1>10. CASE GenStep \/ GenDie
  <2>1. UNCHANGED <<pc, first, nu_execs, nu_crashes>>
    BY <1>10 DEF GenStep, GenBegin, GenMutate, GenTruncate, GenCopy, GenRedirect, GenSend, GenDie
  <2> QED BY <2>1, Stutter DEF Phase
<1>11. ASSUME NEW l \in 1 .. NLevels,
              TimerExpires(l) \/ CompilerOpensLog(l) \/ CompilerWrites(l) \/ CompilerExits(l)
       PROVE  UNCHANGED Abstract!vars
  <2>1. UNCHANGED <<pc, first, nu_execs, nu_crashes>>
    BY <1>11 DEF TimerExpires, CompilerOpensLog, CompilerWrites, CompilerExits
  <2> QED BY <2>1, Stutter DEF Phase
<1>12. CASE UNCHANGED vars
  BY <1>12, Stutter DEF vars, Phase
<1> QED
  BY <1>1, <1>2, <1>3, <1>4, <1>5, <1>6, <1>7, <1>8, <1>9, <1>10, <1>11, <1>12
  DEF Next, DriverStep, RoundStep, LevelStep, Environment, Stopped

\* For every number of levels: each program gets one verdict per level, from
\* that level's own processes and in the order of the levels, whatever the
\* interleaving, the deaths, the failing forks and the interrupts.
THEOREM CampaignConducted == Spec => ImplementsCampaign
<1>1. Init => Abstract!Init
  BY DEF Init, Abstract!Init, Phase, Verdicts, Ended
<1> QED
  BY <1>1, InitConduct, StepConduct, StepImplements, PTL
  DEF Spec, ImplementsCampaign, Abstract!Spec

=============================================================================
