# Verification of RemCCG

RemCCG tests C compilers with random programs. This directory holds TLA+ models of it, the TLC
configurations that check them on small instances, and proofs, checked by TLAPS, of what the
driver, the program generator, its printers, the assembly of a program and the distances of a
round's programs guarantee for every size of the system.

Run `tlc -config X.cfg M` on a pair of the table "What the runs check", and `tlapm M.tla` on the
modules whose names end in `Proofs`.

## The system

| Component | Source | State it keeps | Operations |
|---|---|---|---|
| driver | `src/src/remccg.cc` | seed pool, counters, two pipes, child processes, `0.c`, the error log, the reproducers `case-*.c` | a round: choose a seed, fork the generator, read its vector, race a compiler with a timer at each of five levels, scan the log |
| program generator (CCG) | `src/lib/ccg/{func,block,statement,expression,variable,pointer,label,operand,constant,integer,utils}.c`, `types.h` | `program` (globals, list of functions, counters), a `Context` per call (scope, `nvars`, `nintegers`, `currfunc`), labels per function | `makeFunction`, `makeBlock`, `makeStatement`, `makeExpression` and the builders and printers they dispatch to |
| program assembly | `src/src/proto_to_c.cc` | the global `cc`, the budget `depth`, `funcName`, what has been printed | `MainFunctionToString`: prototypes, definitions, inserted statements of the C grammar, `main` |
| numeric helpers | `src/src/util.cc` | none | `random_generate`, distance of two grammar vectors |
| command line | `src/lib/ccg/commandline.c`, `ccg.c` | `cmdline` | options; `remccg` passes none |
| grammar and schema | `src/src/C.g4`, `c_proto.proto` | none | declarative data |
| samples | `src/lib/ccg/test.c`, `map-test.c` | none | not part of `remccg` |

How they interact. The driver forks a generator process per round. That process calls
`MainFunctionToString` once per mutant, which fills the global `program` through CCG's builders and
prints it through CCG's printers to `1.c`, `2.c`, ...; the generator copies the program whose
vector is farthest from the seed's to `0.c`, and sends that vector through a pipe. The driver then
forks, per level, a timer and a compiler of `0.c`; all compilers append to one log file. Processes
share files, pipes and the parent's `waitpid(WAIT_ANY)`; within the generator, builders and
printers share the globals `program`, `cc` and `depth`, and builders print too (`makeFunction` ends
with an `extern` declaration), so that generation and printing interleave.

What is hard, and what makes each component right:

* **Driver.** Timer and compiler race; `waitpid(WAIT_ANY)` takes any child; forks, `open` and
  `pipe` can fail; the generator can die between any two of its system calls; the user can stop
  the campaign and start it in the same directory. It is right when each verdict belongs to its
  level, no crash is overlooked, descriptors and files are accounted for, what is compiled is a
  program of this round, and every round ends.
* **Generator.** Everything is drawn at random from lists through counters kept beside them, draws
  are repeated until one fits, and functions are made in the middle of others. It is right when no
  draw is without a candidate, names do not collide, pointers have the depth they are printed with,
  jumps have labels, callees come before callers, and the recursion ends.
* **Assembly.** The list of functions grows while it is printed, in the scope of a shared `cc`, and
  declarations are printed by whoever makes a function. It is right when the text is a translation
  unit: each call declared where it stands, each callee defined once, each jump with its label,
  each variable declared where its name is printed; and when the loops it prints end, so that a
  timeout says something about the compiler's output.
* **Numeric helpers.** Bounds are converted to an unsigned type and back, distances are floats. They
  are right when a draw keeps to the interval its caller wrote, and when the farthest program by
  float is the farthest.

## Modules

| Module | What it is |
|---|---|
| `Harness` | the driver, the generator as a process, timers, compilers, the user |
| `Campaign` | abstract: a campaign gives every program one verdict per level, counts it, reads its log once |
| `Scope` | variables, the scope of a `Context` with its counters, what may be drawn from it |
| `Generator` | extends `Scope` with CCG's builders: the recursive construction of a program |
| `Translation` | extends `Generator` with `MainFunctionToString` and the grammar's printers |
| `CUnit` | abstract: a C translation unit, declarations, nested blocks, definitions and calls |
| `Printers` | extends `Scope` with CCG's printers and those of the grammar: declarations, braces, names |
| `CBlock` | abstract: C's rules for the variables of nested blocks |
| `Loops` | the loop heads that are printed, what the draws for them may return, how such a loop runs |
| `Mutation` | extends `Loops` with the generator's child: the programs of a round, their vectors, the farthest |
| `MCHarness`, `MCGenerator`, `MCTranslation`, `MCPrinters`, `MCMutation` | instances for TLC |
| `HarnessProofs`, `CampaignProofs` | theorems about `Harness`: children and descriptors; that it implements `Campaign` |
| `RoundProofs` | extends `HarnessProofs`: the log, the program, the vector and the case files of a round |
| `GeneratorProofs` | theorems about `Generator`: contexts, draws, limits |
| `GeneratorTextProofs` | extends `GeneratorProofs`: labels, returns, pointer assignments, the order of functions |
| `PrintersProofs` | theorems about `Printers`, and that it implements `CBlock` |
| `TranslationProofs` | extends `GeneratorTextProofs`: theorems about `Translation`, and that it implements `CUnit` |
| `MutationProofs` | theorems about `Mutation` and `Loops` |

Operators with the comment "Fault:" are plausible bugs. No specification uses them: each is the
mutated form of the definition below it, kept to show that a property would notice the bug.

### Harness

`pc` is the driver's place in `main()`, one value per system call whose outcome or timing matters;
`lvl` is which of the five textual copies of the level code it is in (the copies differ in names
and in the flag passed to the compiler, so the model has one with an index). `status` holds every
child: not there, running, or dead and not reaped. One action is one system call of one process
with the code up to the next one. `WaitFirst` and `WaitSecond` are `waitpid_eintr`, which may reap
any dead child and aborts when there is none. `JudgeLevel` is the branch after the first wait:
`save_timeout_cases` and the `kill` of the compiler, or the `kill` of the timer; when the fork of
the compiler failed, its pid is -1, and `kill(-1)` reaches every process. `ScanLog` is the block
that reads, reports and truncates the log. The generator's actions are its system calls; `GenDie`
can strike before each of them. The generator works with the descriptors it inherits, leaked ones
included; `gen.room` records whether one was free when it was forked, and nothing it opens is looked
at. Without room `freopen` of `1.c` (`GenBegin`) fails where the library opens the new file before it
closes the old one, as glibc does; from then on descriptor 1 is closed, which is the one descriptor
the source of the copy takes (`GenMutate`), so that the `open` of `0.c` fails (`ZeroOpens`) and
`sendfile` copies nothing (`GenCopy`). When the source is missing (a `1.c` that never was, `oneC`),
`0.c` takes that descriptor, and is emptied. The vector is sent all the same. What a failed `freopen`
leaves in the numbered files is not modelled: without room no byte of them is ever copied. The log
can be opened by every child, which has closed the two ends of `pipefd[]` by then. Environment: a compiler writes any mixture of diagnostics and crash
messages and may run for ever; `Interrupt` and `Rerun` are the user.

Data: a program is a model value with a length in blocks (so that a tail left by a missing
`O_TRUNC` is seen) and a distance (a natural number; only its order is used). The log is a set of
kinds of text: a diagnostic; a crash message, that is, any text the driver takes for one from a
compiler that has its input, other fatal errors included; and the "fatal" error about a missing
input. A compiler that itself runs out of descriptors or memory is not told apart from these. `sendfile`
is one step: nothing else writes the source, and of a copy that was cut short the model has the
copy from an empty file. clang's `cc1` as a grandchild is not modelled; the compiled-in target is
gcc, whose `cc1` the driver starts itself.

### Generator

The functions of CCG call each other; `todo` is the stack of calls still to be made, each with its
context, its nesting and a count. A step makes the call on top and puts the calls it makes in its
place. Every `rand()` is a choice. Of the syntax trees the model keeps `text`, the labels, jumps
and calls of a function in the order of construction; `scope` is the list of variables with the
counters beside it. A pointer carries its depth and the width of the integer it ends at, which
`pointerDepth()` and `ultimateType()` recompute by walking. Where one draw among many could fail (a
remainder by zero, `die("unreachable")`, a loop without candidates) the model takes the failure:
`dead` is set when it is possible at all. The values of constants, operators and the types of
return values are not kept: nothing depends on them.

### Translation

The printers' calls are on a stack of their own, `frames`, under the builders': a printer that has
called CCG goes on when `todo` is empty again. `Prototypes` sets `cc`, makes the block
that nobody prints and declares every function; `DefineFunction` copies the context of a body
into `cc`; `PrintBody` prints it and perhaps inserts one of the eleven kinds of statement (the
three loops are one: they differ in their heads). `insert` is `insertStatement`: a block is made
in `cc`'s context (`functionBlock`) and printed (`printBlock`). `Deeper` is
`if (++depth > max_depth) return`, where `depth` counts calls and is given back only by `GivesBack`
at the top. `declared` and `blocks` are the names whose declarations are visible where the text
ends. A frame keeps the position in `program.functions`, so the list may grow while it is walked.

`labelName` is never filled, so a jump statement of the grammar always prints a `return`;
`LoopFunction`, `insertStruct`, `makeStatementForFunction` and the `root` trees are unused.

### Printers

The builders copy a `Context`, with its scope, from block to block; the printers have no scopes,
only braces and the order in which they call each other. `Printers` holds both side by side:
`todo` is the stack of calls of the printers, each with the context its node was made in, and
`blocks` the variables declared in each block that is open where the text ends. A tree is not kept
from building to printing: a node is chosen when it is printed, among those its builder makes in
its context, so the same choices are made one after the other. `line` is what was printed last, and
the only state `CBlock` shares besides `blocks`. `PrintLocal` is `printVariableDecl` (a pointer is
initialised with the address of what it points to), `UsableId` the macro that prefixes a pointer
with all its stars, `PrintPtrAssignment` the stars of `genStars`. The statements of the grammar
(`PrintKind`) are made of `Pieces`: a name out of `normalVariableName`, an expression or a block of
CCG made in `cc`, a brace, a sequence. A `foreach` over declarations or over `globalvars` is a call
that keeps a count. `EndProgram` ends `MainFunctionToString`, and the next program begins in the
same process with whatever the statics still hold.

`CBlock` knows nothing of CCG: blocks open and close, a declaration must be new in its block and be
initialised with the address of an object one level below, a value must be an integer once its stars
are taken, and both sides of a pointer assignment must be of one level.

### Loops and Mutation

`Heads` are the heads the three printers of loops write, `CcgHeads` those of `buildFor`: what is
assigned to the variable, what the condition is, what a turn adds. Their numbers come from
`RandomGenerate`, `random_generate()` with its conversions: the bounds to `unsigned long long`,
the library's addition of the lower bound modulo the width, the result back to `int`. The library
is external and modelled by what its loop computes; a lower bound above the upper one is outside
what the standard allows for the distribution, and libstdc++, without assertions, wraps. `Ends` and
`StaysInRange` run a loop whose body leaves its variable alone, over a variable of `VarBits` bits,
which is signed or not; the values come back after as many turns as there are values.

`Mutation` is the detailed form of the step `GenMutate` of `Harness`. `BeginProgram` and
`EndProgram` are the two ends of `MainFunctionToString`, `VisitStatement` and `PrintLoop` the
printers of the grammar's statements as far as counters and loop heads are concerned (a statement is
counted before its budget is looked at), `CopyFarthest` is `std::max_element` and what is done with
it. Distances are taken as floats, `Root` to `Mantissa` bits; the sum of the squares is
an integer below 2^`Mantissa` (`MutationAssumption`), which floats hold exactly.

## What the runs check

| Run | Module, cfg | Shows |
|---|---|---|
| harness_rounds | MCHarness, HarnessRounds | type invariant; children of different stages never meet; the second wait of a level is short; the log read is this round's; descriptors are accounted for; a lost timeout file ends the campaign; crash files are never lost; stored reproducers are the reported program; `0.c` is never a mixture; the vector is whole and in order, and, while a descriptor is to spare, that of the program compiled |
| harness_rerun | MCHarness, HarnessRerun | no crash is overlooked, the driver implements `Campaign`, and, under `FairSpec`, every round ends, over two sessions in one directory |
| generator_jumps | MCGenerator, GeneratorJumps | no draw fails, every jump has one label, nothing follows a `return` in its block, generation ends (under `FairSpec`) |
| generator_scopes | MCGenerator, GeneratorScopes | counters agree with scopes, names differ, pointers and pointer assignments are well-formed, the limit on functions holds, callees first, each function called from one place, no draw fails with two widths of integers |
| translation_unit | MCTranslation, TranslationUnit | the text implements `CUnit`; declarations never land inside an expression; insertions are made in the scope of the body they are printed in |
| translation_jumps | MCTranslation, TranslationJumps | every printed jump has its label printed in the same definition; no draw fails in the context of an inserted block |
| printers_text | MCPrinters, PrintersText | the text of program after program implements `CBlock`; where something is printed, what is declared in the open blocks is the scope it was built in; stars fit their buffers and never wrap |
| mutation_farthest | MCMutation, MutationFarthest | a vector counts its own program; the farthest program is taken; draws keep to their interval; every loop ends but those of one head, and no signed variable overflows |
| harness_fork_fails, harness_no_input, harness_fd_leak, harness_old_cases | MCHarness | the findings below |

### Bounds

*Harness.* Two programs of different length and distance show every confusion of programs and every
left-over tail. Two levels show a first, a last and a next level; the theorems hold for any number.
`MaxFds = 9` over `BaseFds = 4` leaves one descriptor beyond a round's four: the leak of the first
timeout is absorbed by the driver and leaves the next round's generator without room for `0.c`; the
next ones reach the limit at each `open` and `pipe`. HarnessFdLeak has five levels: the third timeout
of a round finds no descriptor. `UIntMod = 4` exceeds
the rounds, so counters do not wrap in the runs (the theorems do not assume this). `MaxRounds = 3`
gives a round before and after a failing one; `MaxSessions = 2` the files of an earlier session.

*Generator.* Two functions give a caller and a callee, and the limit is reached in the middle of a
body. In GeneratorJumps blocks nest twice with up to two statements, so jumps cross blocks and
labels precede and follow them. GeneratorScopes has two widths, one parameter, a second local
variable in the body (pointers of depth two) and expressions with one level of parts (calls inside
calls). Jumps are off there: they are the other run's subject, and texts multiply states.

*Translation.* `MaxInserting = 1`: statements are inserted into the first definition printed, and
all functions made there, up to the limit, are appended and printed later. The depth is one, with
every left-over budget at the start; a switch has one case. `MaxPending` bounds how long a
sequence of statements grows; the code bounds it only by chance. TranslationJumps allows blocks in
which the unprinted block, if it were less deep, could hold a label.

Deadlock is checked in the driver's runs, whose end states stutter explicitly. Generation stops when
the program is complete, so its runs do not check it.

*Printers.* Two numbers of global variables, so that a later program may have fewer than an earlier
one. Two local variables in a function give a pointer to a pointer (`MaxPointerDepth = 2`, as in the
code) and one in each block below; blocks nest twice under the body, which hold one inserted
statement of the grammar or two in sequence. `genStars` and `maxDerefdPointer` copy a depth into
buffers of their own: `MaxPointerDepth` up to 15 is the assumption, the code has 2. There is one
width, since GeneratorScopes has two and the printers only copy it. `Cases = 1` of a switch's eleven,
which are alike. The run goes round without end, and deadlock is checked.

*Mutation.* Widths are small and keep their order: an `int` of six bits holds -10 .. 10 with room for
a wrong sign to show, and draws are made in eight. A loop variable of eight bits is the one the code
has that wraps soonest; an unsigned variable of any width misses 0, 1 and 2 in steps of 4 just the
same, since 4 divides every power of two above 2. Two programs of up to three statements make ties
and roots that differ only in the fraction (of 2 and 3). With the float's 24 bits, roots of
neighbouring integers are told apart up to sums of squares near 2^22, that is, vectors with counts
of more than a thousand; the run, with 7 bits, goes as far in proportion as its sums allow.

### Fairness

`Harness!FairSpec` assumes that the system schedules the driver and the generator (weak fairness
of their steps, each of which is a system call that returns once enabled) and that `sleep` ends. A
compiler owes nothing, and neither do the user and the generator's death. `Generator!FairSpec`
assumes that a sequential program runs on. Printing inserted statements ends with probability one
(a sequence draws its own length), not surely, so nothing is claimed of its termination.

### Findings

Each is a run that TLC ends with a counterexample.

1. `TimeoutsGenuine`: when the fork of a compiler fails, a timeout of it is reported, and the kill
   that follows is `kill(-1)`.
2. `CrashesGenuine`: when the generator dies before `0.c` exists, the compiler's complaint about its
   missing input is reported as a crash.
3. `ReproducersWritten`: `save_timeout_cases` leaks a descriptor per call; when they run out, it
   says that it writes a file and does not.
4. `ReproducersAreCopies`: a later session numbers cases from 0 again and opens them without
   `O_TRUNC`, so a shorter program keeps the tail of the longer case it replaces.

Three more need no run. A generator without a spare descriptor does not "store the intesting one as
0.c" (the comment above the unchecked `open`, `remccg.cc:237`): `0.c` stays the program of an earlier
round, or is emptied, or does not exist, while the vector of the new program is sent and the exit
status is 0. After a leaked descriptor has brought the driver that close to the limit this happens in
every round until the next timeout leaks another one and the next `pipe` ends the campaign.
`VectorMatchesProgram` and `RoundTestsMutant` name it as their exception, `NoSpareFd`, and
harness_rounds reaches it: without the exception TLC finds both violated there. The summary's number of timeouts stays 0, for nothing adds to `nu_timeouts`
(`remccg.cc`). And `LoopsEnd` of mutation_farthest holds with an exception that it names: a loop
over an unsigned variable that is taken down by 4 from a value that leaves 3 when divided by 4 passes
0 by and never ends; such a program is legal, and the driver only compiles it.

## What is proved

Every invariant and every refinement the passing runs check is a theorem, for all constants that
satisfy the module's assumption. Where a theorem assumes more, its row says so.

### The driver (`HarnessProofs`, `CampaignProofs`, `RoundProofs`)

| Theorem | Says |
|---|---|
| `TypeCorrect` | `Spec => []TypeOK` |
| `ChildrenIsolated` | `Spec => []StageIsolation`: the children are exactly those of the present stage |
| `SecondWaitIsShort` | `Spec => []LoserIsDead` |
| `DescriptorsAccounted` | `Spec => []FdLedger` |
| `LossIsTheEnd` | `Spec => []LossStopsCampaign` |
| `CrashFilesWritten` | `Spec => []CrashReproducersStored` |
| `CampaignConducted` | `Spec => ImplementsCampaign` |
| `LogCorrect` | `Spec => []LogFresh`: the log that is scanned is this round's |
| `CrashesReported` | `Spec => []NoCrashMissed` |
| `ProgramWhole` | `Spec => []RoundTestsMutant`: `0.c` is never a mixture, and it is this round's mutant if the generator ended well and `~NoSpareFd` |
| `VectorDelivered` | `Spec => []VectorMatchesProgram`: the vector read is the mutant's, which is the program compiled if `~NoSpareFd` |
| `ReproducersCorrect` | `MaxRounds < UIntMod` gives `Spec => []ReproducersFaithful` |

The arguments. `StageIsolation` is not inductive by itself: which child is left after the first wait
depends on which came first, and the second wait empties the stage only because that child is dead.
`Isolation` joins it with `LoserIsDead` and `VerdictShape` (how many verdicts there are at each
place, and that the latest is of one of the two racers). `Ledger` joins `FdLedger` with
`FdMargins`: the driver is never above the limit, and at the scan two descriptors are free
because the round's second pipe has just been closed; from these, a crash's file is always written,
and a timeout's file can only be lost when no later pipe can be opened. `Conduct` adds to
`Isolation` the count of verdicts outside the levels; then each step is a step of `Campaign` or a
stutter, `StepImplements`, one case per action.

The theorems about a round rest on `WhoLives`, a consequence of `Isolation`: while the driver is
running, a compiler lives only between the forks and the verdict of its level, and the generator
only between its fork and its `waitpid`. So nobody writes to the log when it is scanned
(`LogFollowed`: the log is what this round's compilers wrote, and empty between rounds), and nobody
but the generator of the round touches `0.c` and the pipe. `Round` follows that generator:
`CopyWhole` says what `0.c` is at each of its places: `ZeroWhole`, that it is empty if it is open for
the copy; `RoomUsed`, that a generator with room has both files open and from the copy on `0.c` is
its mutant; `SameMutant`, that the vector is of that mutant. `gen.room` is an observation made at the fork;
`RoomKept` ties it to the descriptors lost, through `Ledger` and because timeouts only
add to `leaked`, so that the theorems speak of `BaseFds`, `leaked` and `MaxFds` (`NoSpareFd`).
`PipeOrdered` says that what was read and what is still in the pipe are the entries of one
vector in order, as many as were sent. `CasesInv` is about names: crashes are numbered after the
round has been counted and timeouts before, so a file of the present number is one of this round,
and two timeouts of one round, which share a name, hold the same program. `nu_execs` is an
`unsigned int`, and once it has wrapped a case may replace an older one; that is what the
hypothesis of `ReproducersCorrect` excludes, and without it the property is false.

### The builders (`GeneratorProofs`, `GeneratorTextProofs`)

| Theorem | Says |
|---|---|
| `TypeCorrect` | `Spec => []TypeOK` |
| `DrawsCorrect` | `Spec => []NeverDies`: no draw is without a candidate |
| `CountersCorrect` | `Spec => []ContextsAgree` |
| `NamesCorrect` | `Spec => []NoShadowing` |
| `PointersCorrect` | `Spec => []PointersWellFormed` |
| `LimitCorrect` | `Spec => []FunctionsLimited` |
| `PtrAssignmentsCorrect` | `MaxPointerDepth <= 16` gives `Spec => []PtrAssignmentsTyped` |
| `JumpsCorrect` | `Spec => []JumpsLand`: each jump has its label, once |
| `ReturnsCorrect` | `Spec => []ReturnEndsBlock` |
| `CalleesCorrect` | `Spec => []CalleesFirst` |
| `CallTreeCorrect` | `Spec => []CallTree`: each function is called from one place |

The argument. The properties are about the contexts in use, but a context that is in use came
through a stack of calls, so the invariant `GoodProgram` says what each call on the stack may be.
`GoodCall`: its context is good, and, but for the very first call, belongs to a function that exists
and starts with a variable that is no pointer (a global), which is what every draw of a pointee falls
back on. `PlacesOK`: the program, a call statement, a pointer assignment and a goto are only ever the
next call, never one left for later; so what made `makeStatement()` choose one (room for a function, a
pointer in scope, a label in the function) is still true when it is built, which `LimitCorrect` and
`DrawsCorrect` need. `NamesAreIndices` strengthens `NoShadowing`: a variable is named by its place
in the scope. A step replaces the next call by calls that `CanFollow` it (`DoGood`), so each action
only has to show that the calls it leaves are good. `DrawsCorrect` then follows step by step from
`DrawsSucceed` (cardinalities of the scope's parts against the counters) and `AssignmentExists` (a
pointer is wide enough for itself).

What is written needs `TextInv` beside `GoodProgram`, four statements about the text and the stack
together. `NothingAfter`: on the stack, what may end its block (a `return`, or a statement that may
become one) is never followed by more statements of a block. `LabelsOK`: the labels of a function
are numbered as they come and each is in its text once, so a jump, which draws among those that
exist, has its own. `Ordered`: a function is begun after its caller and listed once nothing is left
to be made in it (`Nested`, `ListedClosed`); the call that waits for it becomes text only when the
function has been listed (`ArgumentsDue`), and the caller, in which that call is still to be made,
only after. `CallsOnce`: a call that waits and a call that has been written are of different
functions, and each function but the first has one of them. The hypothesis of
`PtrAssignmentsCorrect` is the size of `genStars`' buffer, 16 bytes; the code sets the depth to 2.

### The printers (`PrintersProofs`)

| Theorem | Says |
|---|---|
| `PrintersTyped` | `Spec => []PrintersTypeOK` |
| `ScopeCorrect` | `Spec => []ScopeAtPlace` |
| `TextCorrect` | `Spec => ImplementsCBlock` |

`ScopeAtPlace` speaks of the next call only. Why it holds of the one after it is that the calls
before that one close what they open and declare what its context has more, in the order it has it.
`Follows` says so: there is a *plan*, which for each call of the stack has the blocks that will be
open when its turn comes, beginning with those open now, ending with none at the end of the file,
and led from one call to the next by `After` (an "open" adds a block, a call that prints a block's
contents and its brace removes one, any other call leaves the blocks as they were). Each
call is good where its plan puts it: what is visible there is its context, a declaration is of the
next variable of it and in the innermost block, and `normalVariableName` has integers only. A step
replaces the next call by calls with a plan from the same blocks to the same blocks (`DoFollows`),
so each printer is shown by itself; `LevelsLead` and `CasesLead` are the printers that open as many
braces as a count says. That names mean what CBlock takes them to mean, the innermost declaration,
is `Meant`: by `Greatest`, and because no name is declared twice among the open blocks, the
declaration found is the variable of the context. `TextCorrect` follows action by action, the
initial value of a pointer through `DeclareGood`: `makeVariable` takes the address of a variable that
is in the context, one level below.

### The assembly (`TranslationProofs`)

| Theorem | Says |
|---|---|
| `TranslationHolds` | `TSpec => []TInv`, the inductive invariant |
| `TranslationTyped` | `TSpec => []TranslationTypeOK` |
| `InsertedDrawsCorrect` | `TSpec => []NeverDies`: no draw fails, in inserted blocks either |
| `InsertionsInScope` | `TSpec => []InsertedInScope` |
| `UnitCorrect` | `TSpec => ImplementsUnit` |
| `ExternsCorrect` | `MaxExpressionNesting <= InsertedNesting` gives `TSpec => []ExternAtLineStart` |
| `JumpsPrintedCorrect` | with `MaxBlockNesting <= ThrowawayNesting` as well, `TSpec => []JumpsPrinted` |

Here CCG is called by printers that hold positions in a list CCG adds to, and in a `cc` that none of
its builders has made. `TInv` says what each side keeps for the other:

* `Built`: what the proofs about the builders keep (`GoodProgram`, `NothingAfter`, and the parts of
  `Ordered`), and that a function in the list is `Finished`: it is made, keeps its context and the
  text of its body, and all its body calls is listed before it (`BodyBefore`). What is inserted later
  is text after the body, and may call what is listed after.
* `Placed`: the shape of the printers' stack. Between the loop over the list and the frame on top,
  everything belongs to one function, the loop's present one (`NowOK`); those before it have been
  printed (`LoopOK`); `cc` is the context of its body; and CCG has been called by a frame that waits
  for it (`CalledOK`).
* `Inserted`: a call of the builders in a listed function is in the one being printed, and its
  context extends that of the body. This gives `InsertedInScope`, and the contexts from which
  `NeverDies` follows as for `Generator`.
* `Declared`: a function that waits to be called is visible once it is made (`DueVisible`), for
  `makeFunction` ends by declaring it; what an inserted block is about to call is visible where it is
  printed (`PrintVisible`; what a body calls has been declared with the prototypes or defined, by
  `BodyBefore` and `LoopOK`); and the blocks that are open are as many as the frames will close
  (`Levels`).

`GenerateKeeps` is a step of CCG seen by the printers, `KeptInside` what a step of a printer inside a
definition has to show; frames are replaced by frames that end at the same level of braces (`Leads`),
as in `PrintersProofs`. `UnitCorrect` then goes through the actions (`UnitStep`). The names
defined, for `CUnit`, are those of the functions the loop has reached.

The last two theorems rest on numbers that agree only because of limits set elsewhere:
`insertExpression` asks for an expression at nesting 15, and the block that is thrown away is made at
8. `makeExpression` then makes an operand only, and the block has no statements, because
`MainFunctionToString` sets the limits to 8 and 7; the hypotheses say just that. Were the first to
fail, a call in an inserted expression would have its function declared in the middle of a line.
Under them `OperandOnly` and `BlockOnly` are invariants: beside the blocks whose text is printed at
once, CCG makes nothing for a listed function that could leave text unprinted. `AllPrinted` says then
where text is: of a function reached by the loop all is printed but what CCG is writing now, of a
later one nothing is. With `LabelsOK`, every jump has its label in the same definition.

### The programs of a round (`MutationProofs`)

| Theorem | Says |
|---|---|
| `MutationTyped` | `Spec => []MutationTypeOK` |
| `VectorsCorrect` | `Spec => []VectorsFaithful` |
| `FarthestCorrect` | `Spec => []FarthestChosen` |
| `DrawsBounded` | `Spec => []DrawsInRange` |
| `LoopsCorrect` | `Spec => []LoopsEnd` |

The invariant is `MutationInv`: what has been counted is what was visited, in the present program
and in each before, and nothing is in those to come, whose statics are reset (`Counting`); the
distances are those of the vectors, and the choice is made of all of them (`Measured`).

`FarthestCorrect` is then arithmetic. `Total` is a recursive function over sets, so induction is
over the subsets of its domain, by the library's well-founded minimum (`Least`, `Induction`; the
library's own induction theorems take an operator as a parameter, which no prover here can
instantiate). The sum of squares is at most the square of the number of statements, so it is below
the bound at which the float's root could make two different sums equal: `RootGrows` says that the
root of a larger sum is larger, which is why comparing floats compares sums. `MaxElementIs` says
that `std::max_element` takes the first of the largest. `DrawsBounded` is that adding the lower
bound modulo the width and converting back gives the number the caller meant (`DrawsExact`), for all widths that
`LoopsAssumption` admits. `LoopsCorrect` goes through the heads: `SignedEnds` and `UnsignedEnds` say where the
values of a loop variable arrive, the latter modulo the width, of which 4 is a divisor; the exception
in `LoopsEnd` is exactly the case in which they return to where they began.

### Only model-checked

* `RoundCompletes` and `GenerationEnds`: liveness under fairness, which the provers do not reach.
* The four runs of "Findings" are counterexamples and have nothing to prove.

## What is not modelled, and why

* Values of constants, operators, return types, the layout of the text: no property depends on them.
* Labels are distinct in the model; the code draws eight random digits, and equal ones are not
  excluded, only improbable.
* `malloc` failing ends the generator, as `GenDie` does.
* `commandline.c`, `ccg.c`: `MainFunctionToString` calls `processCommandline` with `argc == 1`, for
  which it does nothing; it sets `cmdline` itself.
* `C.g4` and `c_proto.proto` are data; the messages printed are always empty, and what is printed
  follows from the choices of the printers alone.
* `SquareSum`, `random_float`, `random_double`, `LoopFunction`, `insertStruct`,
  `makeStatementForFunction` and the printers of types: nothing calls them, or only code that is
  commented out.
* `rand()` is seeded with the same number for each program of a round; the models let every
  draw return anything it may, which has more behaviours than the code.
* In `Printers`, labels, jumps and which function is called (they are in `Generator` and
  `Translation`); in `Loops`, bodies that assign to the loop's variable, which may keep it from ending.
* What a generated program does when it runs, but for its loop heads: dangling pointers, divisions
  by zero, overflow in expressions. The driver compiles programs and does not run them.
* clang's `cc1`, a process of its own that a kill does not reach: the target compiled in is gcc.

## Plan

Done: `Harness` with `Campaign`, `Scope`, `Generator`, `Translation` with `CUnit`, `Printers` with
`CBlock`, `Loops` and `Mutation`, each with the proofs of what its runs check. What is left is to show
that `Mutation` implements the step `GenMutate`, with distances in place of constants.
