------------------------------ MODULE Harness ------------------------------
(***************************************************************************)
(* The test campaign of remccg: src/src/remccg.cc, main().                 *)
(*                                                                         *)
(* One driver process repeats a round for ever: it forks a generator that  *)
(* leaves the most distant of its mutants in 0.c, then compiles 0.c once   *)
(* per optimisation level, each compiler racing a timer process, and last  *)
(* scans what the compilers wrote to the error log.  Generator, timers and *)
(* compilers are processes of their own and move at any time; a compiler   *)
(* may run for ever, the generator may die, a fork may fail, descriptors   *)
(* may run out for the driver and for the generator, which inherits the    *)
(* driver's, the user may interrupt the campaign and run it again over the *)
(* files of the run before.                                                *)
(***************************************************************************)
EXTENDS Integers, Sequences, FiniteSets

CONSTANTS
  Programs,     \* the generated programs the instance tells apart
  Size,         \* their length in blocks
  Dist,         \* the distance of their grammar vector from the seed's
  NoFile,       \* "the file does not exist"
  Levels,       \* -O0, -O1, -O2, -O3, -Os in the code
  Mutants,      \* phase1: programs generated per round (10 in the code)
  Records,      \* integers of a grammar vector, one pipe record each (10)
  BaseFds,      \* descriptors of an idle driver: 0, 1, 2 and /dev/null
  MaxFds,       \* RLIMIT_NOFILE
  UIntMod,      \* 2^32: nu_execs and nu_crashes are unsigned int
  MaxRounds,    \* bound of the instance: rounds started in one session
  MaxSessions,  \* bound of the instance: times remccg is started
  Target        \* smu_gcc or smu_clang, the compiled-in flag that is true

ASSUME HarnessAssumption ==
  /\ Programs # {} /\ NoFile \notin Programs
  /\ Size \in [Programs -> Nat]
  /\ Dist \in [Programs -> Nat]
  /\ NoFile \notin Seq(Programs \X Nat)
  /\ Levels \in Seq(STRING) /\ Levels # <<>>
  /\ \A i \in 1 .. Len(Levels) : Levels[i] # "crash"
  /\ Mutants \in Nat \ {0} /\ Records \in Nat
  /\ BaseFds \in Nat /\ MaxFds \in Nat /\ BaseFds <= MaxFds
  /\ UIntMod \in Nat \ {0}
  /\ MaxRounds \in Nat /\ MaxSessions \in Nat
  /\ Target \in {"gcc", "clang"}

VARIABLES
  pc,         \* where the driver is in main()
  lvl,        \* the optimisation level it is at
  status,     \* of every child: not there, running, or dead and not reaped
  forked,     \* the last fork of a compiler succeeded: p1 .. p5 is a pid
  first,      \* finished_first1 .. finished_first5 of this round
  gen,        \* the generator: its place, the mutant it copies, the one it
              \* sends, a descriptor was free when it was forked, the files it
              \* copies from and to are open
  chan,       \* records in the pipe fd[] of this round
  writeEnd,   \* the driver still holds fd[1]
  recv,       \* tempVecPP: the records the driver has read
  zeroC,      \* the content of 0.c
  oneC,       \* 1.c exists
  log,        \* the kinds of text in the error log
  logThere,   \* the error log exists
  cases,      \* the case-*.c files
  fds,        \* descriptors the driver holds
  pq,         \* the seed pool
  s,          \* the next seed
  nu_execs,
  nu_crashes,
  nu_timeouts,
  session,    \* how often remccg was started in this directory
  emitted,    \* history: the kinds of text this round's compilers wrote
  leaked,     \* history: descriptors save_timeout_cases left open
  announced   \* history: the bugs this session reported on the terminal

procs   == <<status, forked, first>>
genVars == <<gen, chan, recv, writeEnd>>
files   == <<zeroC, oneC, cases>>
logFile == <<log, logThere>>
pool    == <<pq, s>>
counts  == <<nu_execs, nu_crashes, nu_timeouts>>
vars    == <<pc, lvl, procs, genVars, files, logFile, fds, pool, counts, session,
             emitted, leaked, announced>>
-----------------------------------------------------------------------------
NLevels  == Len(Levels)
GenPid   == <<"gen", 0>>
Timer(l) == <<"timer", l>>
Cc(l)    == <<"cc", l>>
Pids     == {GenPid} \cup ({"timer", "cc"} \X (1 .. NLevels))
UInt     == 0 .. UIntMod - 1

CaseKinds == {"crash"} \cup {Levels[i] : i \in 1 .. NLevels}
CaseNames == CaseKinds \X UInt
Contents  == Seq(Programs \X Nat)

Ended == {"done", "exited", "aborted", "interrupted"}
Where == {"head", "pipes", "fork", "close", "read", "reap", "timer", "compile",
          "wait1", "judge", "wait2", "collect", "scan"} \cup Ended

\* The bytes of a program, block by block.
Text(p) == [k \in 1 .. Size[p] |-> <<p, k>>]

\* sendfile() into a file opened without O_TRUNC: the old tail stays.
Overwrite(old, new) ==
  IF old = NoFile THEN new ELSE new \o SubSeq(old, Len(new) + 1, Len(old))

\* std::max_element over allVec: d is the offset of the first largest distance.
Biggest(m, d) ==
  /\ \A e \in 0 .. Mutants - 1 : Dist[m[e + 1]] <= Dist[m[d + 1]]
  /\ \A e \in 0 .. d - 1 : Dist[m[e + 1]] < Dist[m[d + 1]]

\* The mutant copied to 0.c: programs are in files 1.c, 2.c, ...
CopiedMutant(m, d) == m[d + 1]
\* Fault: the element after it, as if the vector counted from 1.
SentTheNext(m, d) == m[IF d + 2 <= Mutants THEN d + 2 ELSE d + 1]
\* The mutant whose vector is sent: allGrammar.at(d) counts from 0.
SentMutant(m, d) == m[d + 1]

NoGen == [at |-> "none", copy |-> NoFile, vec |-> NoFile, room |-> FALSE,
          source |-> FALSE, dest |-> FALSE]
NoChildren == [p \in Pids |-> "none"]
-----------------------------------------------------------------------------
Init ==
  /\ pc = "head" /\ lvl = 1
  /\ status = NoChildren /\ forked = FALSE /\ first = <<>>
  /\ gen = NoGen /\ chan = <<>> /\ recv = <<>> /\ writeEnd = FALSE
  /\ zeroC = NoFile /\ oneC = FALSE /\ cases = [n \in CaseNames |-> NoFile]
  /\ log = {} /\ logThere = FALSE /\ fds = BaseFds
  /\ pq = <<>> /\ s = 100
  /\ nu_execs = 0 /\ nu_crashes = 0 /\ nu_timeouts = 0
  /\ session = 1
  /\ emitted = {} /\ leaked = 0 /\ announced = {}

\* The driver takes a seed from the pool, which it fills when it is empty.
SelectSeed ==
  /\ pc = "head" /\ nu_execs < MaxRounds
  /\ IF pq = <<>>
       THEN /\ pq' = <<s>> /\ s' = s + 100
            /\ pc' = IF s = 100 * 100 THEN "done" ELSE "pipes"
       ELSE /\ UNCHANGED pool
            /\ pc' = "pipes"
  /\ emitted' = {}
  /\ UNCHANGED <<lvl, procs, genVars, files, logFile, fds, counts, session,
                 leaked, announced>>

\* Fault: the results of pipe2() and pipe() are not looked at.
PipesUnchecked == TRUE
\* pipe2() and pipe(): two descriptors each, or the driver gives up.
PipesOpen == fds + 4 <= MaxFds

OpenPipes ==
  /\ pc = "pipes"
  /\ IF PipesOpen
       THEN /\ pc' = "fork" /\ fds' = fds + 4 /\ writeEnd' = TRUE
            /\ chan' = <<>> /\ recv' = <<>>
       ELSE /\ pc' = "exited"
            /\ UNCHANGED <<fds, writeEnd, chan, recv>>
  /\ UNCHANGED <<lvl, procs, gen, files, logFile, pool, counts, session, emitted,
                 leaked, announced>>

\* The generator has the driver's descriptors, the leaked ones too.
ForkGenerator ==
  /\ pc = "fork"
  /\ \/ /\ pc' = "close"
        /\ status' = [status EXCEPT ![GenPid] = "running"]
        /\ gen' = [NoGen EXCEPT !.at = "begin", !.room = fds < MaxFds]
     \/ /\ pc' = "exited"                       \* fork() failed
        /\ UNCHANGED <<status, gen>>
  /\ UNCHANGED <<lvl, forked, first, chan, recv, writeEnd, files, logFile, fds,
                 pool, counts, session, emitted, leaked, announced>>

\* Fault: the driver keeps its own write end.
KeepWriteEnd ==
  /\ pc = "close"
  /\ pc' = "read" /\ fds' = fds - 1 /\ UNCHANGED writeEnd
  /\ UNCHANGED <<lvl, procs, gen, chan, recv, files, logFile, pool, counts,
                 session, emitted, leaked, announced>>

\* close(fd[1]): from here on only the generator can write.
CloseWriteEnd ==
  /\ pc = "close"
  /\ pc' = "read" /\ writeEnd' = FALSE /\ fds' = fds - 1
  /\ UNCHANGED <<lvl, procs, gen, chan, recv, files, logFile, pool, counts,
                 session, emitted, leaked, announced>>

\* One read(): a record, or at end of file whatever tmp_f held.  It blocks
\* while the pipe is empty and somebody holds its write end.
ReadRecord ==
  /\ pc = "read" /\ Len(recv) < Records
  /\ \/ /\ chan # <<>>
        /\ recv' = Append(recv, Head(chan)) /\ chan' = Tail(chan)
     \/ /\ chan = <<>> /\ ~writeEnd /\ status[GenPid] # "running"
        /\ recv' = Append(recv, <<NoFile, 0>>) /\ UNCHANGED chan
  /\ UNCHANGED <<pc, lvl, procs, gen, writeEnd, files, logFile, fds, pool, counts,
                 session, emitted, leaked, announced>>

\* close(fd[0])
CloseReadEnd ==
  /\ pc = "read" /\ Len(recv) = Records
  /\ pc' = "reap" /\ fds' = fds - 1
  /\ UNCHANGED <<lvl, procs, genVars, files, logFile, pool, counts, session,
                 emitted, leaked, announced>>

\* waitpid(child_no): how the generator ended is not looked at.
ReapGenerator ==
  /\ pc = "reap" /\ status[GenPid] = "zombie"
  /\ pc' = "timer" /\ lvl' = 1 /\ first' = <<>>
  /\ status' = [status EXCEPT ![GenPid] = "none"]
  /\ UNCHANGED <<forked, genVars, files, logFile, fds, pool, counts, session,
                 emitted, leaked, announced>>
-----------------------------------------------------------------------------
\* The five levels run the same code.

ForkTimer ==
  /\ pc = "timer"
  /\ \/ /\ pc' = "compile"
        /\ status' = [status EXCEPT ![Timer(lvl)] = "running"]
     \/ /\ pc' = "exited"                       \* fork() failed
        /\ UNCHANGED status
  /\ UNCHANGED <<lvl, forked, first, genVars, files, logFile, fds, pool, counts,
                 session, emitted, leaked, announced>>

\* The return value of this fork() is compared with 0 only.
ForkCompiler ==
  /\ pc = "compile" /\ pc' = "wait1"
  /\ \/ /\ forked' = TRUE
        /\ status' = [status EXCEPT ![Cc(lvl)] = "running"]
     \/ /\ forked' = FALSE
        /\ UNCHANGED status
  /\ UNCHANGED <<lvl, first, genVars, files, logFile, fds, pool, counts, session,
                 emitted, leaked, announced>>

\* waitpid_eintr: waitpid(WAIT_ANY) reaps some dead child and aborts when
\* there is no child at all.
Reap(p)   == status[p] = "zombie" /\ status' = [status EXCEPT ![p] = "none"]
Childless == \A p \in Pids : status[p] = "none"

WaitFirst ==
  /\ pc = "wait1"
  /\ IF Childless
       THEN pc' = "aborted" /\ UNCHANGED <<status, first>>
       ELSE \E p \in Pids : /\ Reap(p)
                           /\ first' = Append(first, p) /\ pc' = "judge"
  /\ UNCHANGED <<lvl, forked, genVars, files, logFile, fds, pool, counts, session,
                 emitted, leaked, announced>>

\* Does a copy of 0.c find descriptors for its source and its destination?
SourceOpens == zeroC # NoFile /\ fds + 1 <= MaxFds
DestOpens   == fds + (IF SourceOpens THEN 2 ELSE 1) <= MaxFds
Copied      == IF SourceOpens THEN zeroC ELSE <<>>
CopyTo(n)   ==
  cases' = IF DestOpens THEN [cases EXCEPT ![n] = Overwrite(@, Copied)]
                        ELSE cases

\* Fault: the number of the round is left out of the name.
UnnumberedCase(k) == <<k, 0>>
\* case-crash-%lu.c and case-timeout-%s-%lu.c
CaseName(k) == <<k, nu_execs>>

\* What the driver prints, and whether it is so.
Report(n, genuine, stored) ==
  announced' = announced \cup
    {[name |-> n, prog |-> zeroC, genuine |-> genuine, stored |-> stored]}

\* Fault: the branches are swapped.
TimedOutSwapped == first[Len(first)] # Timer(lvl)
\* finished_first == timer_pid
TimedOut == first[Len(first)] = Timer(lvl)

\* save_timeout_cases: the destination is never closed.
SaveTimeoutCase ==
  LET n == CaseName(Levels[lvl]) IN
  /\ CopyTo(n)
  /\ Report(n, forked, DestOpens)
  /\ fds' = IF DestOpens THEN fds + 1 ELSE fds
  /\ leaked' = IF DestOpens THEN leaked + 1 ELSE leaked

\* kill(pid, SIGKILL): a dead child stays as it is; kill(-1) hits every
\* process of the user but the caller.
Kill(p) ==
  status' = [status EXCEPT ![p] = IF @ = "running" THEN "zombie" ELSE @]
KillAll ==
  status' = [p \in Pids |-> IF status[p] = "running" THEN "zombie" ELSE status[p]]

\* The compiler's process when the timer came first, else the timer's.
JudgeLevel ==
  /\ pc = "judge" /\ pc' = "wait2"
  /\ IF TimedOut
       THEN /\ SaveTimeoutCase
            /\ IF forked THEN Kill(Cc(lvl)) ELSE KillAll
       ELSE /\ Kill(Timer(lvl))
            /\ UNCHANGED <<cases, announced, fds, leaked>>
  /\ UNCHANGED <<lvl, forked, first, genVars, zeroC, oneC, logFile, pool, counts,
                 session, emitted>>

NextLevel ==
  IF lvl < NLevels THEN pc' = "timer" /\ lvl' = lvl + 1
                   ELSE pc' = "collect" /\ UNCHANGED lvl

\* Fault: the killed process is not waited for.
NoSecondWait ==
  /\ pc = "wait2" /\ NextLevel
  /\ UNCHANGED <<status, forked, first, genVars, files, logFile, fds, pool,
                 counts, session, emitted, leaked, announced>>

\* Fault: one level too many.
WaitSecondOffByOne ==
  /\ pc = "wait2" /\ ~Childless
  /\ \E p \in Pids : Reap(p)
  /\ lvl' = lvl + 1 /\ pc' = IF lvl <= NLevels THEN "timer" ELSE "collect"
  /\ UNCHANGED <<forked, first, genVars, files, logFile, fds, pool, counts,
                 session, emitted, leaked, announced>>

WaitSecond ==
  /\ pc = "wait2"
  /\ IF Childless
       THEN pc' = "aborted" /\ UNCHANGED <<status, lvl>>
       ELSE (\E p \in Pids : Reap(p)) /\ NextLevel
  /\ UNCHANGED <<forked, first, genVars, files, logFile, fds, pool, counts,
                 session, emitted, leaked, announced>>

\* Fault: pipefd[1] is left open.
OneEndClosed == 1
\* Fault: the pipe is not closed at all.
NoEndClosed == 0
\* close(pipefd[0]); fclose(fdopen(pipefd[1], "w"))
EndsClosed == 2

\* Close both ends of pipefd[], count the round.
Collect ==
  /\ pc = "collect" /\ pc' = "scan"
  /\ fds' = fds - EndsClosed
  /\ nu_execs' = (nu_execs + 1) % UIntMod
  /\ UNCHANGED <<lvl, procs, genVars, files, logFile, pool, nu_crashes,
                 nu_timeouts, session, emitted, leaked, announced>>

\* fopen(stderr_filename, "r")
LogOpens == logThere /\ fds + 1 <= MaxFds

\* There is no log when no child of the session lived to open it.
NoLog ==
  /\ pc = "scan" /\ ~LogOpens /\ pc' = "exited"
  /\ UNCHANGED <<lvl, procs, genVars, files, logFile, fds, pool, counts,
                 session, emitted, leaked, announced>>

\* "internal", " fault" or "fatal" for gcc, "Assertion" or "Please" for clang.
LooksLikeCrash == log \cap (IF Target = "gcc" THEN {"ice", "fatal"} ELSE {"ice"}) # {}

\* Fault: the log is truncated only where a crash was found in it.
ClearedOnCrash == IF LooksLikeCrash THEN {} ELSE log
\* fclose(fopen(stderr_filename, "w"))
Cleared == {}

\* Read the log, report a crash, and truncate the log.  Only the branch for
\* gcc copies 0.c.
ScanLog ==
  LET n == CaseName("crash") IN
  /\ pc = "scan" /\ LogOpens /\ pc' = "head"
  /\ IF LooksLikeCrash
       THEN /\ nu_crashes' = (nu_crashes + 1) % UIntMod
            /\ IF Target = "gcc" THEN CopyTo(n) ELSE UNCHANGED cases
            /\ Report(n, "ice" \in emitted, Target = "gcc" /\ DestOpens)
       ELSE UNCHANGED <<nu_crashes, cases, announced>>
  /\ log' = Cleared /\ UNCHANGED logThere
  /\ UNCHANGED <<lvl, procs, genVars, zeroC, oneC, fds, pool, nu_execs,
                 nu_timeouts, session, emitted, leaked>>
-----------------------------------------------------------------------------
\* The generator, a fork of the driver.  It writes phase1 programs, copies the
\* most distant one over 0.c, sends its vector and exits.

GenAt(a) == status[GenPid] = "running" /\ gen.at = a

\* freopen("1.c", "w", stdout), unchecked.  It creates 1.c, if need be.  Without
\* a free descriptor it fails where the library opens the new file before it
\* closes the old one.  The later programs find descriptor 1 closed, and free.
GenBegin ==
  /\ GenAt("begin")
  /\ gen' = [gen EXCEPT !.at = "mutate"]
  /\ \/ oneC' = TRUE
     \/ ~gen.room /\ UNCHANGED oneC
  /\ UNCHANGED <<pc, lvl, procs, chan, recv, writeEnd, zeroC, cases, logFile, fds,
                 pool, counts, session, emitted, leaked, announced>>

\* The programs, and open() of the most distant one: it is there unless it is a
\* 1.c that never was.  Its file holds all of it when there was room; when there
\* was not, no byte of it is ever copied.
GenMutate ==
  /\ GenAt("mutate")
  /\ \E m \in [1 .. Mutants -> Programs], d \in 0 .. Mutants - 1 :
       /\ Biggest(m, d)
       /\ gen' = [gen EXCEPT !.at = "truncate", !.copy = CopiedMutant(m, d),
                  !.vec = SentMutant(m, d), !.source = d # 0 \/ oneC]
  /\ UNCHANGED <<pc, lvl, procs, chan, recv, writeEnd, files, logFile, fds, pool,
                 counts, session, emitted, leaked, announced>>

\* fclose(stdout) has left one descriptor free in any case; the source takes it.
ZeroOpens == gen.room \/ ~gen.source

\* Fault: 0.c is opened without O_TRUNC.
NoTruncate ==
  /\ GenAt("truncate")
  /\ gen' = [gen EXCEPT !.at = "copy", !.dest = ZeroOpens]
  /\ zeroC' = IF ZeroOpens /\ zeroC = NoFile THEN <<>> ELSE zeroC
  /\ UNCHANGED <<pc, lvl, procs, chan, recv, writeEnd, oneC, cases, logFile, fds,
                 pool, counts, session, emitted, leaked, announced>>

\* open("0.c", O_WRONLY | O_CREAT | O_TRUNC), unchecked.
GenTruncate ==
  /\ GenAt("truncate")
  /\ gen' = [gen EXCEPT !.at = "copy", !.dest = ZeroOpens]
  /\ zeroC' = IF ZeroOpens THEN <<>> ELSE zeroC
  /\ UNCHANGED <<pc, lvl, procs, chan, recv, writeEnd, oneC, cases, logFile, fds,
                 pool, counts, session, emitted, leaked, announced>>

\* sendfile(), unchecked: nothing is copied unless both files are open.  Then
\* both are closed.
GenCopy ==
  /\ GenAt("copy")
  /\ gen' = [gen EXCEPT !.at = "redirect", !.source = FALSE, !.dest = FALSE]
  /\ zeroC' = IF gen.source /\ gen.dest THEN Overwrite(zeroC, Text(gen.copy))
                                        ELSE zeroC
  /\ UNCHANGED <<pc, lvl, procs, chan, recv, writeEnd, oneC, cases, logFile, fds,
                 pool, counts, session, emitted, leaked, announced>>

\* open(stderr_filename): the ends of pipefd[] closed before leave it room.
GenRedirect ==
  /\ GenAt("redirect")
  /\ gen' = [gen EXCEPT !.at = "send"] /\ logThere' = TRUE
  /\ UNCHANGED <<pc, lvl, procs, chan, recv, writeEnd, files, log, fds, pool,
                 counts, session, emitted, leaked, announced>>

\* Records are shorter than PIPE_BUF: each write() is whole.
Sent == Len(recv) + Len(chan)

GenSend ==
  /\ GenAt("send")
  /\ IF Sent < Records
       THEN /\ chan' = Append(chan, <<gen.vec, Sent + 1>>)
            /\ UNCHANGED <<gen, status>>
       ELSE /\ gen' = [gen EXCEPT !.at = "ok"]               \* exit(0)
            /\ status' = [status EXCEPT ![GenPid] = "zombie"]
            /\ UNCHANGED chan
  /\ UNCHANGED <<pc, lvl, forked, first, recv, writeEnd, files, logFile, fds,
                 pool, counts, session, emitted, leaked, announced>>

\* die(), a stack overflow or the system's memory killer.
GenDie ==
  /\ status[GenPid] = "running"
  /\ gen' = [gen EXCEPT !.at = "dead"]
  /\ status' = [status EXCEPT ![GenPid] = "zombie"]
  /\ UNCHANGED <<pc, lvl, forked, first, chan, recv, writeEnd, files, logFile, fds,
                 pool, counts, session, emitted, leaked, announced>>

GenStep == GenBegin \/ GenMutate \/ GenTruncate \/ GenCopy \/ GenRedirect \/ GenSend
-----------------------------------------------------------------------------
\* sleep(timeout); exit(0)
TimerExpires(l) ==
  /\ status[Timer(l)] = "running"
  /\ status' = [status EXCEPT ![Timer(l)] = "zombie"]
  /\ UNCHANGED <<pc, lvl, forked, first, genVars, files, logFile, fds, pool, counts,
                 session, emitted, leaked, announced>>

\* A compiler's process begins with open(stderr_filename, O_CREAT | O_APPEND).
CompilerOpensLog(l) ==
  /\ status[Cc(l)] = "running" /\ ~logThere
  /\ logThere' = TRUE
  /\ UNCHANGED <<pc, lvl, procs, genVars, files, log, fds, pool, counts,
                 session, emitted, leaked, announced>>

\* What a compiler writes: "fatal" when its input is missing, else "ice" (what
\* the scan takes for a crash) or "note" (anything else, a failed execlp too).
CompilerWrites(l) ==
  /\ status[Cc(l)] = "running" /\ logThere
  /\ \E k \in (IF zeroC = NoFile THEN {"fatal"} ELSE {"note", "ice"}) :
       log' = log \cup {k} /\ emitted' = emitted \cup {k}
  /\ UNCHANGED <<pc, lvl, procs, genVars, files, logThere, fds, pool, counts,
                 session, leaked, announced>>

CompilerExits(l) ==
  /\ status[Cc(l)] = "running" /\ logThere
  /\ status' = [status EXCEPT ![Cc(l)] = "zombie"]
  /\ UNCHANGED <<pc, lvl, forked, first, genVars, files, logFile, fds, pool, counts,
                 session, emitted, leaked, announced>>
-----------------------------------------------------------------------------
\* Ctrl-C reaches the whole process group, the children too.
Interrupt ==
  /\ pc \notin Ended /\ pc' = "interrupted"
  /\ status' = NoChildren /\ gen' = NoGen
  /\ UNCHANGED <<lvl, forked, first, chan, recv, writeEnd, files, logFile, fds,
                 pool, counts, session, emitted, leaked, announced>>

\* remccg started again in the same directory: every variable anew, an error
\* log of its own, the other files as they are.
Rerun ==
  /\ pc \in Ended /\ session < MaxSessions
  /\ pc' = "head" /\ lvl' = 1
  /\ forked' = FALSE /\ first' = <<>>
  /\ status' = NoChildren
  /\ gen' = NoGen /\ chan' = <<>> /\ recv' = <<>> /\ writeEnd' = FALSE
  /\ log' = {} /\ logThere' = FALSE /\ fds' = BaseFds
  /\ pq' = <<>> /\ s' = 100
  /\ nu_execs' = 0 /\ nu_crashes' = 0 /\ nu_timeouts' = 0
  /\ session' = session + 1
  /\ emitted' = {} /\ leaked' = 0 /\ announced' = {}
  /\ UNCHANGED files

Stopped == pc \in Ended /\ UNCHANGED vars
-----------------------------------------------------------------------------
RoundStep ==
  \/ SelectSeed \/ OpenPipes \/ ForkGenerator \/ CloseWriteEnd
  \/ ReadRecord \/ CloseReadEnd \/ ReapGenerator
LevelStep ==
  ForkTimer \/ ForkCompiler \/ WaitFirst \/ JudgeLevel \/ WaitSecond
DriverStep == RoundStep \/ LevelStep \/ Collect \/ NoLog \/ ScanLog

Environment ==
  \/ GenDie
  \/ \E l \in 1 .. NLevels :
       CompilerOpensLog(l) \/ CompilerWrites(l) \/ CompilerExits(l)
  \/ Interrupt \/ Rerun \/ Stopped

Next ==
  \/ DriverStep \/ GenStep
  \/ \E l \in 1 .. NLevels : TimerExpires(l)
  \/ Environment

Spec == Init /\ [][Next]_vars

\* The system schedules the driver and the generator, and sleep() ends.  A
\* compiler owes nothing: it may run for ever.
Fairness ==
  /\ WF_vars(DriverStep) /\ WF_vars(GenStep)
  /\ \A l \in 1 .. NLevels : WF_vars(TimerExpires(l))

FairSpec == Spec /\ Fairness
-----------------------------------------------------------------------------
(***************************************************************************)
(* Properties                                                              *)
(***************************************************************************)
Record == (Programs \cup {NoFile}) \X Nat

GenTypeOK ==
  /\ gen \in [at : {"none", "begin", "mutate", "truncate", "copy", "redirect",
                     "send", "ok", "dead"},
              copy : Programs \cup {NoFile}, vec : Programs \cup {NoFile},
              room : BOOLEAN, source : BOOLEAN, dest : BOOLEAN]
  /\ gen.at \notin {"none", "begin", "mutate", "dead"} => NoFile \notin {gen.copy, gen.vec}
  /\ chan \in Seq(Record) /\ recv \in Seq(Record)
  /\ writeEnd \in BOOLEAN

ProcsTypeOK ==
  /\ status \in [Pids -> {"none", "running", "zombie"}]
  /\ forked \in BOOLEAN
  /\ first \in Seq(Pids)

FilesTypeOK ==
  /\ zeroC \in Contents \cup {NoFile} /\ oneC \in BOOLEAN
  /\ cases \in [CaseNames -> Contents \cup {NoFile}]
  /\ log \in SUBSET {"note", "ice", "fatal"} /\ logThere \in BOOLEAN

PlaceTypeOK == pc \in Where /\ lvl \in 1 .. NLevels

CountTypeOK ==
  /\ fds \in Int /\ leaked \in Nat /\ session \in Nat
  /\ pq \in Seq(Nat) /\ s \in Nat
  /\ nu_execs \in UInt /\ nu_crashes \in UInt /\ nu_timeouts \in UInt

Announcements == [name : CaseNames, prog : Contents \cup {NoFile},
                  genuine : BOOLEAN, stored : BOOLEAN]

ReportTypeOK ==
  emitted \in SUBSET {"note", "ice", "fatal"} /\ announced \in SUBSET Announcements

\* Every variable keeps the kind of value that main() declares for it.
TypeOK ==
  /\ PlaceTypeOK /\ ProcsTypeOK /\ GenTypeOK /\ FilesTypeOK /\ CountTypeOK
  /\ ReportTypeOK

\* The two children of the present level, or the one.
Racers == {Timer(lvl)} \cup (IF forked THEN {Cc(lvl)} ELSE {})

\* The children that exist while the driver is at its present place.
Expected ==
  CASE pc \in {"close", "read", "reap"} -> {GenPid}
    [] pc = "compile" -> {Timer(lvl)}
    [] pc = "wait1" -> Racers
    [] pc \in {"judge", "wait2"} -> Racers \ {first[lvl]}
    [] OTHER -> {}

\* waitpid(WAIT_ANY) takes whatever child is dead, so the verdict of a level
\* is right only if no child of the generator or of another level is left
\* when the level's two are forked, and both are gone when it is over: in the
\* waiting states the children are exactly the ones of this level.
StageIsolation ==
  pc \notin Ended => \A p \in Pids : status[p] # "none" <=> p \in Expected

\* The second waitpid of a level never waits for a live process: the branch
\* taken after the first one has killed the right child.
LoserIsDead == pc = "wait2" => \A p \in Pids : status[p] # "running"

\* What ScanLog reads was written by this round's compilers, all of it and
\* nothing else: the log of the round before is gone and no compiler of it
\* lives on to append to it.
LogFresh == pc \notin Ended \cup {"head"} => log = emitted

\* No crash is overlooked: a round in which a compiler printed a crash message
\* ends with a crash reported under this round's number.
NoCrashMissed ==
  pc = "head" /\ "ice" \in emitted =>
    \E a \in announced : a.name = <<"crash", nu_execs>>

\* Descriptors of the two pipes that the driver holds.
Held ==
  CASE pc \in {"fork", "close"} -> 4
    [] pc = "read" -> 3
    [] pc \in {"reap", "timer", "compile", "wait1", "judge", "wait2", "collect"} -> 2
    [] OTHER -> 0

\* Every round gives back the descriptors it took; what is missing is one
\* descriptor for each timeout reported, the one save_timeout_cases leaves open.
FdLedger == pc \notin Ended => fds = BaseFds + Held + leaked

\* The reproducer of a timeout that could not be written for want of descriptors is the last
\* thing that goes wrong: the next round cannot open its pipes and the campaign
\* stops with an error, it never goes on losing reproducers.
LossStopsCampaign ==
  pc = "fork" => \A a \in announced : a.name[1] # "crash" => a.stored

\* The descriptors lost to timeouts never cost a crash its reproducer: the pipes
\* closed before the log is read leave room for the two files of the copy.
CrashReproducersStored ==
  Target = "gcc" => \A a \in announced : a.name[1] = "crash" => a.stored

\* In a directory that holds no older cases, a file the driver said it wrote
\* holds the program that was reported.
ReproducersFaithful ==
  \A a \in announced : session = 1 /\ a.stored =>
    cases[a.name] = (IF a.prog = NoFile THEN <<>> ELSE a.prog)

\* The pipes of a round take the last descriptors: the generator, which inherits
\* them, has none left for 0.c.
NoSpareFd == BaseFds + leaked + 4 >= MaxFds

\* Unless the generator died, the vector received is that of the most distant
\* mutant, entry by entry, and 0.c is the whole of that mutant when the levels
\* begin.  The one exception is a generator without a spare descriptor: it
\* cannot open 0.c, does not notice, and the vector is not that of the program
\* compiled.
VectorMatchesProgram ==
  pc = "timer" /\ gen.at = "ok" =>
    /\ zeroC = Text(gen.copy) \/ NoSpareFd
    /\ chan = <<>>
    /\ recv = [i \in 1 .. Records |-> <<gen.copy, i>>]

\* A round whose generator ended well compiles one whole mutant of this round,
\* whatever 0.c held before, as long as the timeouts so far have left a
\* descriptor beside those of the pipes.  Any other round compiles what 0.c was,
\* or an empty file, or finds none: never a mixture of two programs.
RoundTestsMutant ==
  pc = "timer" =>
    /\ gen.at = "ok" => zeroC = Text(gen.copy) \/ NoSpareFd
    /\ zeroC \in {NoFile, <<>>} \cup {Text(p) : p \in Programs}

\* The campaign the user sees.
Phase ==
  CASE pc \in Ended -> "stopped"
    [] pc \in {"timer", "compile", "wait1", "judge", "wait2", "collect"} -> "testing"
    [] pc = "scan" -> "tested"
    [] OTHER -> "choosing"

VerdictOf(p, l) ==
  CASE p = Timer(l) -> "timeout" [] p = Cc(l) -> "finished" [] OTHER -> "stray"

Verdicts ==
  IF Phase \in {"testing", "tested"}
    THEN [l \in 1 .. Len(first) |-> VerdictOf(first[l], l)] ELSE <<>>

Abstract == INSTANCE Campaign WITH
  phase <- Phase, verdicts <- Verdicts, tested <- nu_execs,
  crashes <- nu_crashes, Modulus <- UIntMod

\* However the processes interleave, the driver conducts such a campaign: each
\* program gets one verdict per level, by that level's own compiler or timer
\* and in the order of the levels, is counted once, and its log is read once.
ImplementsCampaign == Abstract!Spec

\* A round that was begun ends or ends the campaign: the pipe from a generator
\* that died comes to its end, every level is over at the latest when its
\* timer is, and no wait is for a child that does not exist.
RoundCompletes == pc = "pipes" ~> pc \in Ended \cup {"head"}
-----------------------------------------------------------------------------
(***************************************************************************)
(* What the program's own messages and comments promise, and the code does *)
(* not do.                                                                 *)
(***************************************************************************)
\* "Found a Timeout Bug here!!!!": a compiler was running when time was up.
TimeoutsGenuine == \A a \in announced : a.name[1] # "crash" => a.genuine

\* "Find a Crash Bug here!!!!": a compiler has crashed.
CrashesGenuine == \A a \in announced : a.name[1] = "crash" => a.genuine

\* "Writing reproducer to %s": the reproducer is written.
ReproducersWritten == \A a \in announced : a.stored

\* "Writing reproducer to %s", "copy file": and the reproducer is the program
\* that was compiled, whatever the directory held before.
ReproducersAreCopies ==
  \A a \in announced : a.stored =>
    cases[a.name] = (IF a.prog = NoFile THEN <<>> ELSE a.prog)

=============================================================================
