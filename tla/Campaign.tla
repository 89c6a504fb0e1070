------------------------------ MODULE Campaign ------------------------------
(***************************************************************************)
(* What a test campaign promises its user: programs are tested one after   *)
(* another; every program that is tested gets exactly one verdict per      *)
(* optimisation level, in the order of the levels; only a program with all *)
(* its verdicts is counted, and its error log is looked at once.           *)
(***************************************************************************)
EXTENDS Integers, Sequences

CONSTANTS
  NLevels,  \* optimisation levels, 5 in the code
  Modulus   \* of the counters the user is shown

VARIABLES
  phase,    \* what the campaign is doing
  verdicts, \* of the program being tested, level by level
  tested,   \* programs tested
  crashes   \* crashes found

vars == <<phase, verdicts, tested, crashes>>

Verdict == {"finished", "timeout"}

Init == phase = "choosing" /\ verdicts = <<>> /\ tested = 0 /\ crashes = 0

\* A program is there to be tested.
Begin ==
  /\ phase = "choosing" /\ phase' = "testing" /\ verdicts' = <<>>
  /\ UNCHANGED <<tested, crashes>>

\* A compiler is through with it, or has had its time.
Judge ==
  /\ phase = "testing" /\ Len(verdicts) < NLevels
  /\ \E v \in Verdict : verdicts' = Append(verdicts, v)
  /\ UNCHANGED <<phase, tested, crashes>>

\* All levels are through.
Count ==
  /\ phase = "testing" /\ Len(verdicts) = NLevels
  /\ phase' = "tested" /\ tested' = (tested + 1) % Modulus
  /\ UNCHANGED <<verdicts, crashes>>

\* The log shows a crash or it does not.
Look ==
  /\ phase = "tested" /\ phase' = "choosing"
  /\ crashes' \in {crashes, (crashes + 1) % Modulus}
  /\ verdicts' = <<>> /\ UNCHANGED tested

Stop ==
  /\ phase # "stopped" /\ phase' = "stopped" /\ verdicts' = <<>>
  /\ UNCHANGED <<tested, crashes>>

Restart ==
  /\ phase = "stopped" /\ phase' = "choosing"
  /\ tested' = 0 /\ crashes' = 0 /\ UNCHANGED verdicts

Next == Begin \/ Judge \/ Count \/ Look \/ Stop \/ Restart

Spec == Init /\ [][Next]_vars
=============================================================================
