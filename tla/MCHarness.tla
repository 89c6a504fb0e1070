------------------------------ MODULE MCHarness ------------------------------
EXTENDS Harness
CONSTANTS short, long
MCSize == [p \in Programs |-> IF p = long THEN 2 ELSE 1]
MCDist == [p \in Programs |-> IF p = long THEN 2 ELSE 1]
OneLevel == <<"O0">>
TwoLevels == <<"O0", "O1">>
FiveLevels == <<"O0", "O1", "O2", "O3", "Os">>
==============================================================================
