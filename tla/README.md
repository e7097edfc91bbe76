# A TLA+ model of cdbg

cdbg is an interactive debugger for C programs on macOS. It is one
single-threaded process that drives a traced process (the *debuggee*) with
`ptrace` and Mach calls. This directory holds a TLA+ model of it, the TLC runs
that check the model on small debuggees, and TLAPS proofs about the model for
debuggees of any size. Paths below are relative to the repository (`src/`,
`include/`, `docs/`).

## 1. Inventory

| part | code | state it keeps | operations |
|---|---|---|---|
| session, REPL | `src/debugger.c`, `src/main.c`, `src/process.c` | `cdbg_t`: `state`, `pid`, `current_tid`, `wait_status` | `run`, `continue`, `kill`, `quit`, end of input, Ctrl-C |
| breakpoints | `src/breakpoint.c`, `src/debugger.c` | `breakpoints[]`: address, saved byte, enabled, the text given to `break`; trap bytes in the debuggee | `break`, `del`, hit, re-enable, re-plant after `run`, temporary breakpoints |
| step engine | `src/debugger.c:523-651, 1080-1345` | locals: start line, iteration, guard | `step`, `next`, `si` |
| threads | `src/debugger.c:3577-3770`, `src/regs.c` | `thread_lock_active`, `suspended_tids`, `current_tid`; Mach suspend counts | `thread`, `lock`, `unlock`, guard begin / catch up / end |
| watchpoints | `src/watchpoint.c`, `src/debugger.c:1412-1566, 4959-5216` | `watchpoints[]`, debug registers of every thread | `watch`, `unwatch`, report, resync |
| registers, unwinding | `src/regs.c`, `src/debugger.c:3470-3575` | `regs` | `regs`, `up`, `tb`, `set $reg` |
| target memory | `src/memory.c` | none | read, write |
| line table | `src/lineno.c` | entries, slide; while loading the directories and files of a unit | load from dwarfdump's text, or by decoding `.debug_line`; line at pc, address of a line, next line, file of a listing |
| symbols | `src/syms.c` | entries, link base, slide | load from `nm` or from Mach-O, of the executable or its dSYM; slide at spawn and at the first stop; lookup by name and pc |
| expressions | `src/ast*.c`, `src/ast_expr.*`, `src/expr.c` | none | value, place |
| variables, `print`, `set` | `src/debugger.c:1568-3500` | parsed DWARF text | `print`, `set`, `show` |
| command grammar | `src/cmd_lexer.l`, `src/cmd_grammar.y` | lexer state within one line | dispatch |
| printing commands | `src/debugger.c` | none | `dis`, `x`, `list`, `help`, `leaks` |

How they interact. A command is a chain of calls that ends in a resume
(`PT_CONTINUE` or `PT_STEP`) and a blocking `waitpid`. Nothing else runs in
the debugger; the debuggee's threads run only while the debugger waits. The
parts share `cdbg_t` and, more dangerously, the debuggee itself: its text (trap
bytes of users' breakpoints and of the two kinds of temporary ones), its
threads' pcs, their suspend counts and their debug registers. The only callback
is the SIGINT handler, which reads `state` and signals the debuggee.

What is hard: the stop a wait reports need not be the one it waits for; `PT_STEP`
steps the primary thread whatever `current_tid` is, and resumes every other
thread; a breakpoint is lifted at one stop and set again at a later one, in
between the user may switch threads, move the pc, delete or duplicate it; the
process may end in every wait; suspensions are counted by the kernel and
remembered by two different parts of the debugger; debug registers exist per
thread, new threads have none, and entries are renumbered on deletion.

What makes each part correct:

- *breakpoints*: a trap byte is in the text iff a breakpoint that is enabled put
  it there; every breakpoint is set while the task is continued; no pc stays
  inside an instruction.
- *step engine*: `si` executes one instruction, `step` and `next` none of another
  line, `next` does not end inside a callee; they run alone and come back.
- *threads*: suspend counts are what the debugger believes, a step is armed on
  a thread that can run.
- *watchpoints*: every thread's register *n* watches entry *n*; reports name
  the thread that wrote.
- *session*: no ordinary stop or exit ends the debugger; every wait comes back.
- *registers, unwinding*: `tb` tells the calls and ends on any stack, `up` puts
  the thread where its caller goes on.
- *target memory*: what is written is what was asked, and no more.
- *line table*: every row has the file its unit means, the line at a pc is that
  of the row that covers it, a line and a function resolve to their own code, and
  breakpoints follow the program to a new load address.
- *symbols*: symbols, lines and image have one slide, whichever source was read.
- *expressions, variables*: a name means the variable C sees at the pc, one object
  has one place however it is written, `set` changes that object only and `print`
  shows it converted to its type.

## 2. Modules

```
Breakpoint  <-  Debuggee  <-  Session  <-  SessionProperties  <-  MCSession   (TLC)
                                              ^         |
                                              |         +-- DebugService (abstract)
                        SessionProofs  <-  TrapProofs  <-  ServiceProofs      (TLAPS)

Watchpoint  <-  MCWatch (TLC),  WatchpointProofs (TLAPS)

LineTable  LineProgram  Symbols  Frames  Scopes  Values  DebugRegisters
    \___________\__________\________\______/_______/____________/
                              MCInspect                                       (TLC)
LineTableProofs,  FramesProofs,  ScopesProofs                                 (TLAPS)
InspectProofs: Symbols, LineProgram, DebugRegisters                           (TLAPS)
```

**Breakpoint** has no variables: it defines, on a text `code` (instruction
address -> its own byte or the trap byte) and a table `bps`, what
`cdbg_bp_enable`, `cdbg_bp_disable`, `cdbg_bp_matches_pc`,
`reenable_breakpoints_after_step`, `delete_breakpoint_at`, `del all`,
`report_process_exit` and the re-planting in `cdbg_run` compute. `saved` is the
byte found when the trap was written, which is itself a trap when two
breakpoints share an address. Loops over the table are given as what they
compute; the order of the loop is kept where it matters (the second of two
breakpoints at one address saves the first one's trap).

**Debuggee** is the traced process as the code uses it (external). A thread
executes an instruction, ends, runs into a trap (`pc` one byte further, its
trap unreported) or, off every instruction, faults. A thread runs if the task is
resumed, its suspend count is 0 and its own trap is not pending. `mode = "step"`
arms a trap on the primary thread only. The program is a constant: successors,
calls, thread creation and joining. What the repository has observed of the kernel is
part of it: a trap of another thread while `PT_STEP` is waited for is reported in its
stead, or leaves `waitpid` blocked for good (src/debugger.c:1073-1082, docs/02:366,
docs/03:617, TC-02-09b), and so may a `PT_STEP` given with another thread current
(docs/02:370, TC-02-09c). Either is `mode = "wedged"`, which nothing leaves; nothing in
the repository says that Ctrl-C does.

**Session** is the debugger. `loc` names the wait it is in, or the prompt. An
action is everything the code does from one wait to the next:

| `loc` | the wait in the code | actions that leave it |
|---|---|---|
| `exec` | `cdbg_run` after the spawn (:392) | `ExecStop`, `ExecFailed` |
| `entry` | `run_to_entry_stop` (:279) | `EntryStop`, `EntryExit` |
| `overcont` | the step of `step_over_disabled_breakpoint` below `continue` (:541) | `OverContStop`, `OverContExit` |
| `cont` | `cdbg_repl_cmd_continue` (:5257) | `ReportedStop`, `ProcessExit` |
| `si` | `cdbg_repl_cmd_si` (:5308) | `SiStop`, `ProcessExit` |
| `step1` | `step`/`next` without line information (:1184, :1267) | `ReportedStop`, `ProcessExit` |
| `step`, `next` | an iteration of the loops (:1204, :1297) | `StepStop`, `NextStop`, `ProcessExit` |
| `overcall` | the step of `cdbg_continue` below `step_over_call` | `OverCallStop`, `ProcessExit` |
| `call` | `step_over_call` (:641) | `CallStop`, `ProcessExit` |

Handlers are composed as in the code: a record (`code`, `bps`, `pc`, `cur`) is
passed through `Waited` (`cdbg_wait`), `Reported` (`report_stop`), `Handled`
(`handle_breakpoint_hit`), `Returned` (`finish_temp_breakpoint`), and then the
action either resumes or goes to the prompt. `CatchUp` and `ReleaseGuard` are
the step guard. `Abort` is `CDBG_REPL_FATAL`: the debugger ends, the debuggee
is left. `ExecStop` sets again what of the saved specs `cmd_break` accepts: all of them,
or, with `BreakFails`, any (`SomeOf`), since `cdbg_run` ignores the result.

**SessionProperties** states the properties, **MCSession** two debuggees: one
thread with a call of a function that has code without lines, and two threads
where the worker loops, may end, and is joined.

**DebugService** is what a debugger of one thread promises, without traps,
`ptrace` or tables: the program executes one instruction after the other, does
not pass a breakpoint it has not told of, and `continue` ends only at a
breakpoint or with the program. Session refines it: TLC checks it (`OneThread`),
`ServiceProofs` proves it for every program. The mapping is in SessionProperties
(`Proc`, `Goal`, `Standing`, `Points`, `LastTold`):

| DebugService | Session |
|---|---|
| `proc` | `state` |
| `goal` (main, cont, step) | the wait `loc` it is in |
| `where` | `Standing`: the primary thread's pc, rewound behind a trap |
| `points` | the addresses in the table; below exec the saved ones |
| `told` | `Standing`, where the breakpoint there is lifted |

`told` is where the debugger's trick shows: a breakpoint is lifted exactly while
the program may pass it. The hidden step of `continue`, the temporary traps, the
rewinding, the guard and the re-planting are stutters or parts of a step of the
service.

**Watchpoint** is the watch table and the debug registers of every thread, with
a debuggee that may stop at any time for any reason. It does not import
Session: which stop is a breakpoint and which threads a step holds are left
open, so every behaviour Session allows of the watch table is one of
Watchpoint's, and its results do not depend on what Session leaves out.

**LineTable** is `lineno.c` as `lineno_load_from_dwarfdump` fills it and as
`debugger.c` asks it. The text is external: a printer chooses compile units of
DWARF 4 (numbers from 1) or 5 (from 0), directories, files and rows, and emits
them one line at a time; a line is an action (`UnitHeader`, `IncludeDirectory`,
`FileNames`, `NameLine`, `DirIndexLine`, `Row`, `LoadEnds`) that does to the
loader's growing tables what the loop body does. `rows` keeps what DWARF said,
`entries` what the loader made of it. The lookups are set definitions: the loops
keep the first entry with the best address, so `Lowest` and `Greatest` order by
address, then by place. `Break` and `Run` are `cmd_break` and the end of
`cdbg_run`: `Resolved` follows the three forms of the argument, a number that is
no line being an address. Slides are differences to the link address, one for
table and symbols, because both come from the first executable region. It
shares no state with Session, whose `LineAt` is the function `LineAtPc` computes.

**LineProgram** is `parse_line_program`, the decoder the debugger falls back on,
over the bytes of the section. An assembler (external) writes each row in any of the
encodings DWARF has for it, with LEB128 numbers of any length, and puts opcodes without
interest between them; `Decode` is one turn of the loop: a special, standard or extended
opcode with its operands, which `Operand`, `Unsigned`, `Signed` and `Word` read as the
readers of `parse_cursor_t` do. An opcode of no interest is stepped over by `std_lengths`
*bytes* as in the code (src/lineno.c:678-681). It starts where the program starts, with
the file table the header means.

**Symbols** is the way addresses of symbols come from the linker to run time:
`LoadSymbols` is `cdbg_load_symbols` with its four sources of symbols (`nm` and
the Mach-O reader, each on the dSYM and on the executable) and with what a source
that fails leaves behind; `Spawn` and `FirstStop` set the slides of symbols and
lines, the first perhaps from the debugger's own image because the child has not
yet called exec, the second when the program is loaded; `Build` links the program again between runs.

**Frames** is the stack of one stopped thread and both walks over it. The program
is external (prologue, locals, calls, epilogue) and so is a stray write; `tb` is
one action per line printed (`TbBegin`, `TbNext`, `TbEnd`), `up` one action
(`CdbgFrameUp`) that writes the thread. `calls` remembers for the properties what
each caller goes on with.

**Scopes** is the three readers of dwarfdump's variables. A printer (external)
writes functions, nested and following blocks, parameters and variables, entry by
entry; the readers are folds over the entries with the flags the code keeps
(in a function, in its range, in a block, its depth), one for `find_local_var`, one for
`find_global_var`, one for `collect_show_vars`, whose order of tests differs from
the first's and is kept.

**Values** is expressions on memory: `ValueOf` is `cdbg_ast_eval`, `PlaceOf` is
`cdbg_ast_resolve_lvalue`, two recursions that call each other and that disagree in the
code on what a type is, so both are kept.
`Printed` and `SetCommand` are `print` without a format and `set`; memory that ends
lets reads fail and writes fail half way.

**DebugRegisters** is the bits: `Tried` and `Chosen` are the sizes `cmd_watch` tries,
`Install` and `Uninstall` the builds for x86_64 and arm64. What the processor makes
of the bits is external. Watchpoint has the threads, this module what one thread's
registers cover.

**MCInspect** composes the last seven and LineTable for TLC: they share no state in
the code either (each works on what a stopped program is, and a command uses one after
the other), so `subject` picks the one a behaviour is about.

Where the model abstracts on purpose:

- Breakpoints and frames are x86_64. On arm64 `cdbg_bp_enable` writes one byte of a
  four-byte instruction and both handlers still rewind by one. DebugRegisters has
  both architectures.
- What the debugger does between two waits is one action; `state` changes
  together with the resume. The Ctrl-C handler therefore never runs in the few
  instructions around `waitpid` and `ptrace`. It acts in every wait except that
  for exec.
- A resume discards a signal (`PT_CONTINUE` with data 0), traps other threads
  have pending survive a stop and are reported by a later wait.
- A file and a line are one number; 0 is "no line information".
- In Session an address is one relative to the image, so that a `break` spec that can
  be set again after `run` resolves to the address it had; that slides and new addresses
  follow the image is the part of LineTable and Symbols. An address is broken
  twice only in the run that asks for it (`Dup`).
- A wait that the kernel has wedged stays so, Ctrl-C or not.
- `del n m` is one deletion after the other; both sort descending.
- Errors of ptrace, Mach and memory calls on a live process do not happen; the
  register read of a thread that has ended fails, as it does in the code.
- Session sees a watchpoint as "a watched value has changed" (`Watching`).
- In Watchpoint a place is an address and a size the registers can represent.
- In LineTable a path is a directory and a name without '/', a file part of
  `file:line` is the set of paths it matches (`strstr`), rows of a sequence go up,
  sequences do not overlap, and the text has them, in one unit and from unit to unit, in the
  order of the code, as a linker lays units out. `dwarfdump` succeeds; if it
  failed behind its rows, they would be freed and the section be read instead
  (src/lineno.c:1004, 1025-1061), whose decoder is LineProgram. `mtime`, `length` and column headings change
  nothing the next line reads. The program file does not change between runs, so
  the table `run` loads again is the same. A text without rows stands for a
  program without line information.
- Of the section's second reader the headers and the skipping of forms are left out:
  on what compilers write they go wrong (section 3), so the decoder behind them is
  modelled from a start that is right.
- In Symbols a symbol is an offset from `__TEXT`; a universal file is one whose
  link base cannot be read, as in the code. The property speaks of thin ones.
- In Frames an address is the number of a word. In Scopes every scope has one
  range, and automatic variables are the `fbreg` ones, statics the `addr` ones.
- In Values a type is what the code reads off its name, a byte has `ByteBits` bits, a
  word `WordSize` bytes. A shift by a word's width or more, undefined in C, is what
  the processors do: the count modulo that width. Floating point is left out.

## 3. Runs

| run | states | question |
|---|---|---|
| `OneThread` | 8 192 | breakpoints, steps, calls, exit and restart of one thread |
| `TwoThreads` | 2 007 044 | guard, lock, creation and end of a worker, Ctrl-C, thread switches, wedged waits, failing exec and re-planting |
| `Returns` | 5 974 | do `si`, `step`, `next`, `run` come back |
| `Watch` | 276 806 | registers and table on two threads |
| `Inspect` | 826 639 | line tables and their lookups, symbols, stacks, scopes, expressions, debug registers |

`OneThread`: `ImplementsService` (Session implements DebugService),
`OwnedTraps` (a trap has an owner, an owner its trap, whenever a
process exists), `ArmedWhileRunning` (every breakpoint is set while the task is
continued), `NoDerail` (nothing that runs is inside an instruction),
`SiAdvances`, `NextStaysOut` (TC-02-06), `StepsByLine` (`step` and `next` execute no
instruction of another line, and end on one or at a reported breakpoint),
`WaitNeverFatal`. Two breakpoints, four places: before, at and after a
call and in the callee, so that the temporary trap of `next` meets a user's
breakpoint at the return address, a trap lies on the call itself, and a
breakpoint is reached while another is lifted. No breakpoint is put on the last
instruction: there the code does end the debugger, which `ExitUnderStep` shows.
`MaxIter = 5` lets the loop's bound be reached only by a loop that does not
advance: no source line here needs five steps, so `WaitNeverFatal` does not meet
"Step limit exceeded".

`TwoThreads`: `SuspendBalance` (the kernel's counts are the debugger's),
`StepCanTrap`, `SteppedAlone` (TC-02-09), `Guarding` (the invariant the proof
needs), `WedgedOnlyByAHold` (a wait that nothing can end has a thread locked out, or is
of a step over an instruction that waits for a thread the guard holds, or is a `PT_STEP`
that another thread has spoilt), `TypeOK`.
The third is the hang of TC-02-09b. The kernel may wedge wherever another thread
runs into its breakpoint under a step; the property says where the code leaves room for
it: where the guard is not taken (a lock, the hidden step of `continue`, `step` and `next`
without a line, another current thread: `Unguarded`), and below the guard only between
the stepped instruction that creates the thread and the report of that same step, the
window the comment at src/debugger.c:1080-1082 calls "at most one single-step wide". In
every other state of a guarded step all other threads are held (`Guarding`), which fails
with the mutant `StepHeadUnguarded`, an iteration that does not catch up. So the hang is
narrowed, not gone, and where `continue` steps off a breakpoint (src/debugger.c:538) it
is as likely as before.
Everything the model has is switched on: `lock`, Ctrl-C, `up`,
`set $rip`, watch stops, failing exec, breakpoints that `run` fails to set. The worker has
a breakpoint of its own, is created by an instruction
that is stepped, continued over or stepped over, ends at any time, and one
instruction of main waits for it.

`Returns`: under `FairSpec`. Weak fairness of the handlers (a single-threaded
program that does nothing else but wait) and of each thread (the kernel runs
what can run). Nothing is assumed of the user, who need not type anything. The
program has an infinite loop on one line and may end before main; in the loop `step`
and `next` come back because of `CDBG_MAX_STEP_ITERATIONS` (4 here), a bound without which the mutant
`LoopTailEndless` violates the property. `continue` is not claimed to come back.

`Watch`: `NoWrongSlot`, `CoverageKept`, `ReportCovers`, `WatchTypeOK` (with the
table bound). Three registers, because a shift that leaves a hole or a wrong
entry in the middle needs three entries. Write watches only; `WatchThread` and
`WatchStale` have both modes.

`Inspect` checks seven modules that share no state, one subject a behaviour:

- LineTable: `FilesOfUnit` (every row keeps the file of its own unit),
  `CoveringLineShown` (the line at a pc is that of the row that covers it, up to
  `Reach` bytes; the code's 128), `BreakShowsItsLine` (a breakpoint on a line
  stands on code of that line and the stop shows it), `FunctionEntered` (`break f`
  and the stop of `run` are behind the first line of the function and inside it),
  `BreakListAgree` (`list` and `break` mean the same file), `BreakIsListed` (the
  address `break` takes for a line is one `lists` shows), `BreakFollowsSlide`
  (docs/04:99 and docs/02:176: `run` resolves again). Two units, because one unit's
  tables must be stale for the next; two files of which one lies in a directory;
  four rows, so that a unit has two code rows and an end after another unit, or
  three; five addresses with `Reach = 2`, so that a range ends at the next row, at
  the limit and before it. The properties are evaluated for every pc, filter and
  line, so `MaxBreaks = 1` is enough: breakpoints do not influence each other. Names
  are symmetric.
- LineProgram: `RowsDecoded` (the reader has the rows that were meant, however they
  were encoded, as long as no operand of `set_isa` is longer than the byte the reader
  skips). Two headers: one as clang's, one without DWARF 3's opcodes and with
  instructions of four bytes. A byte is 0 to 23 instead of 255, which leaves every
  special opcode of a smaller range and numbers of one byte below 12; an address has two
  bytes, a LEB128 number one or two, so that every operand is also met in its longer
  form. Two rows or ends of a sequence, advances of up to three instructions, lines that
  go up and down.
- Symbols: `SymbolsFollowImage` (from the first stop on symbols and lines are where
  the image is, whichever source was read, also of a program linked elsewhere since
  the last run). Two link addresses, two load addresses, a function, a variable and
  an undefined symbol; executable and dSYM each thin or universal, stripped or not,
  `nm` working, failing, or failing after a part.
- Frames: `CallsShown`, `NoFrameTwice`, `UpFollowsCalls`. Eleven words hold three
  calls, the last without a local; `MaxFrames = 3` is below and above the depth; a stray
  write can put any word to a value that looks like code or does not.
- Scopes: `LocalIsVisible` (print finds a local variable exactly where C sees one),
  `PrintShowAgree`. Two functions, two blocks nested or one after the other, two
  variables of two names: a name in two scopes, in a block only, and in a function
  behind.
- Values: `SetShown` (`set`, then `print`: the value converted to its type, in the
  whole too, and nothing else changed), `SamePlace`, `OperandSeesPlace`. Bytes of one
  bit and words of three bytes keep every value of memory of seven bytes; sizes 1, 2
  and 3 stand for 1, 4 and 8, and variables overlap and lie at the memory's end.
- DebugRegisters: `WatchedBytes` (each entry's registers cover the entry's bytes in
  its mode, whatever was in the slot before). Three slots for a shift through the
  middle, addresses aligned to 8 and to 2 only, sizes that are no power of two.

`InspectTypeOK` is the types of all seven. `BreakShowsItsLine` and the others about
lookups hold for rows whose address no other row has (see below for the rest).

The bounds are small because every operation treats threads, entries and
instructions alike: two entries are needed for order and duplicates, three for
the middle of a shift, two threads for everything about threads, and all
interleavings of up to a whole program run, restarted any number of times, are
explored. No state constraint is used; `CHECK_DEADLOCK` is on everywhere.

Runs that TLC finds violated state what a document, comment or help text of the
repository says:

| run | what happens |
|---|---|
| `DuplicateBreak` | `break x`, `break x`, `del 0`, `del 1`: a trap stays without a breakpoint |
| `ExitUnderStep` | the program ends under the step `continue` makes off a breakpoint: the debugger ends too |
| `LostHit` | a worker's trap is taken for the end of that step: hit lost, its pc inside an instruction (the wait may also never return, see `TwoThreads`) |
| `WrongThreadStepped` | `continue` at a worker's breakpoint steps main; the breakpoint stays lifted while the task runs |
| `LockWedge` | `lock 1`, `thread 0`, `si`: a wait for a trap of a suspended thread |
| `WatchStale` | `watch a`, `watch b`, `unwatch 0`, `unwatch 0`: the second register still watches `b` |
| `WatchThread` | a worker's write is reported on the thread that was current |

Other disagreements met while modelling, without a run of their own; all but those of
code that section 6 lists are visible in the model:

- a `next` that meets a breakpoint inside the call reports it and goes on to the
  next line (docs/03:603 expects a stop);
- a worker that ends while it is the current thread makes `regs`, `continue` and
  the next wait end the REPL (`include/repl_cmds.h:11`);
- "Step limit exceeded" is a fatal outcome, not a message;
- `up` writes the caller's pc into the thread, so `continue` resumes there
  (docs/04:743);
- a failed `run` loses all breakpoints, and one that cannot be set again in the new
  process is lost without a word but `cmd_break`'s own (help of `run`, src/debugger.c:409);
- `continue` off a breakpoint steps without the guard, and `step1` too, so the hang the
  guard is there for remains possible in them (src/debugger.c:538, 1184, 1267);
- `lock` does not hold threads that are created later;
- `set` on a watched variable makes the next stop a watchpoint hit;
- a write of the same value stops with "Stopped" (docs/04:544 says it does not
  stop);
- a watched write under the hidden step of `continue` is not reported then;
- `step` and `next` that end at a new line or at a changed value do not update
  the registers of new threads (comment at src/debugger.c:1494-1500);
- `next`, `step` and `si` over an instruction that waits for another thread wait for
  ever, because the guard holds that thread (Ctrl-C ends it);
- a Ctrl-C sent to a task that has already stopped stays pending and ends the next
  `continue` at once (src/debugger.c:5389);
- the rows that end a sequence are kept as code: where two sequences meet the
  first row of the table wins, so the line of the earlier file is shown and
  `break f` looks for the body in that file; up to 128 bytes after the last
  function a line is shown;
- `list f` refuses a function whose file's name another directory has too, because
  the whole path is used as a filter (src/debugger.c:4781);
- `break f` and `run` may choose a row of line 0, code without a source, and the
  stop then shows no line (src/lineno.c:1335);
- `break f` for a function on one line takes the first line of the next one;
- `break 0x...` keeps its address when `run` has another slide, `break N` for a
  line that does not exist tries address N (src/debugger.c:4921);
- the reader used without `dwarfdump` cannot read what compilers write: for
  DWARF 5 it starts the line program one byte early (src/lineno.c:801), shifts file
  numbers and reads an offset of four bytes as a LEB128 number, for DWARF 4 it skips
  16 bytes after each name where there are two LEB128 numbers
  (src/lineno.c:584-601). It drops rows of line 0, which the other reader keeps;
- that reader skips an opcode it does not know by `std_lengths` bytes where DWARF counts
  LEB128 operands (src/lineno.c:680). Of DWARF 5's opcodes this is `set_isa` alone; an
  operand of two bytes puts every later opcode out of step. With `Isas` of such an operand
  TLC finds `RowsDecoded` violated; `RowsDecoded` and its theorem are for operands of one byte;
- of a universal file no link base is read when `nm` works, so the slide is the load
  address; a Mach-O data symbol counts as code (`T`), one of `nm` does not;
- `tb` at the first instruction of a function, or behind its `leave`, does not show the
  direct caller, where `up` at the first instruction does; `up` between push and mov, or
  behind `leave`, skips the caller; `up` beyond the last record takes the top of the
  stack for a return address;
- the value of `x` in an expression is not sign-extended: `print x` and `print x+0`
  differ for a negative int, comparisons and division are of unsigned words;
- `p+1` does not scale, `*e` reads a whole word unless `e` is the name of a pointer (so
  `print *(p+0)` may fail where `print *p` works), `**pp` has the type of `*pp`, a
  member that is an array cannot be indexed, and a structure whose name contains
  `char`, `short`, `int`, `long` or `bool` counts as a number;
- an array's name is not its address in an expression: `*a` and `a+1` take its first bytes
  for a number, so `*a` is not `a[0]` (`SamePlace` speaks of `*` on pointers);
- a name declared in an inner block and in the function means the outer one in both
  `print` and `show locals` (docs/04:756), static locals are not found, and of two
  statics with one name the first unit's is taken;
- `next` may put its temporary trap where a user's breakpoint is lifted (after `set $rip`,
  or on another thread's); setting that one again saves the temporary trap, and it is lost
  when the temporary one is taken out (src/debugger.c:626-650);
- of two symbols at one address `break` and the backtrace may name different ones;
- `watch` of a value whose address is not aligned watches a part of it only.

## 4. Proofs

TLAPS checks everything below for every set of threads, every program, every
table size and step bound, from the ASSUMEs of the modules only (`Insn` and
`Thread` are sets of naturals, 0 is the primary thread, the program maps
instructions to instructions).

`SessionProofs` begins with the operators of Breakpoint: the types of every table
operation as lemmas, `DisableUndoesEnable` (enable, then disable, is the identity on
the text) and `ReenableArmsTheRest` (after `reenable_breakpoints_after_step` what was
armed still is and only breakpoints at the pc remain lifted). Then the inductive
invariant of Session,

    Inv == TypeOK /\ SuspendBalance /\ Guarding

`SuspendBalance` alone is not inductive: a handler that releases the guard must
know that the guard is empty wherever it is not released (`exec`, `entry`,
`cont`, `overcont`, `step1`), and `NoProcess` must know nothing is held.
`Guarding` adds: the debugger is in a wait exactly while `state` is RUNNING; the
guard is non-empty only below `si` and the loops; it never contains the primary
thread; below `si` and `step` the current thread is the primary one; and in every step
that is not `Unguarded`, until the primary thread has trapped, each other thread alive
is in the guard and the wait is not wedged.
There is one lemma per action (`StepStopInv`, `LockInv`, ...) over lemmas for
the shared pieces (`CatchUpBalanced`, `ReleaseBalanced`, `PromptInv`,
`LoopTailInv`, `NoProcessInv`). From `Invariance` follow `TypeCorrect`,
`GuardStays`, `SuspendsBalance`, `StepsCanTrap` and `StepsAlone`.

`WedgesAreHolds` needs one invariant more, `WaitInv`: in a wait other than that for
exec the task is resumed or the kernel has wedged it, and while there is a process its
primary thread is alive. What the kernel may wedge is bounded by `Guarding`; whether it does
is left open, so the theorem says where the code leaves it the chance. Any other
endless wait has a thread that could go on and is not
held by `lock`; by `SuspendBalance` the guard holds it, and the primary thread, which
the guard never holds, is not suspended, so it waits itself. Every handler and command
either ends the process or the wait, resumes the task, or leaves both alone
(`Handles`), which is why one short step lemma is enough.

`TrapProofs` is about the byte in the text. For any number of threads,

    TrapInv == no process, or Trapped(code, bps, temp) and the saved specs distinct
    Trapped == Owned /\ Distinct /\ Bytes

`Owned` is the property (`OwnedTraps`); it is kept only because every breakpoint
that is set has saved the program's own byte (`Bytes`) and because no address is in the
table twice (`Distinct`). Two hypotheses are needed, and what the code does without
them is known: `Dup = FALSE` (a second breakpoint at one address saves the first one's trap,
run `DuplicateBreak`) and `ReturnsFree`, no breakpoint where a call returns to (after
`set $rip` or a thread switch `next` may put its temporary trap where a user's breakpoint
is lifted: setting that one again saves the temporary trap, and its removal leaves the
breakpoint "set" without a trap).
With one thread the second hypothesis is not needed (`PlainTrapsAreOwned`), because of what
follows.

For a session of one thread (`PlainSession`) the invariant is

    SoleInv == Inv /\ WaitInv /\ TrapInv /\ PlaceInv

`WaitInv` is the one above. `PlaceInv` says where the thread is and what is lifted: until
a stop the thread is on an instruction and only the breakpoint there may be lifted; what a wait
reports is an instruction done, which has left every lifted breakpoint behind, or a trap; while
the task is continued none is lifted, and the hidden step of `continue` starts on the one that is. `BreakpointsAreArmed` (`ArmedWhileRunning`) and `StandsOnInstructions` (`NoDerail`)
follow. `PlainSession` excludes exactly what breaks them:

| excluded | what the code does there |
|---|---|
| signals (Ctrl-C, watch stops) | a stop that is no trap leaves the trap of a step pending, so `si` may return without having executed anything |
| `set $rip`, `up` | the pc is put where nothing has stopped it: a breakpoint left behind stays lifted under `next` |
| an instruction that jumps to itself | under `continue` the step off it ends on it, and it stays lifted while the task runs |
| breakpoints on adjacent addresses | a pc one past the first trap is also the second's address |
| a breakpoint before `main` is reached (`Before`) | its trap ends the wait for `main`, and the pc stays one past it |

`ServiceProofs` has `SiMovesOn` (`SiAdvances`), which needs that a trapped pc is not also an
instruction of its own (`BreaksWide`), `NextStepsOver`, and the refinement `ServiceImplemented`. Its
invariant

    ServiceInv == SoleInv /\ DeadPlace /\ TrapPlace /\ CallPlace

says how the process ended, that what stops a continued task is a trap, and that below
a call of `next` the thread is on the call, inside it (`Inner[c]`) or at its return, where the
temporary trap is. One lemma per action shows a step of DebugService or a stutter:
`DisableUndoesEnable` and the lemmas of TrapProofs give `Points` and `LastTold`, `PlaceInv` gives
`Standing`. Its hypothesis `CallsTold` (a breakpoint inside a call has a line, other than that of the
call) is where the code keeps less than the service promises: a breakpoint in the callee
on the call's own line or on none is lifted and reported, and `next` goes on past it.

`StepsKeepToLine` (`StepsByLine`) rests on the same invariant and on `LinesPlace`: in the waits
of an instruction of `step` or `next`, until it is done, the thread is not on another line,
because the head of an iteration is reached only there. `HaltsAt` and `GoesRound` are the two
ways out of an iteration, and one that goes back to the prompt has found a new line or a
breakpoint. Watchpoints are left out (`Watching = FALSE`): a changed value ends the loop anywhere.

`WaitsAreNotFatal` (`WaitNeverFatal`) adds two hypotheses, for the two ways in which a command of
such a session can end the debugger. `ShortLines(left)`: from each instruction of a line at most
`left` iterations lead off it, fewer than `MaxIter`, whichever way the program branches, a call
counting as one; the loop of `step` and `next` then never meets its bound. And no breakpoint is
on an instruction that ends the program, since the step off that one ends the process inside
`cdbg_continue`. `LinePlace` is the invariant: the iterations done and those still `left` stay below the bound, at the
head of an iteration from where the thread stands, below a call from the call. The debuggee of
`OneThread` satisfies both; that of `ExitUnderStep`, with a breakpoint on its last instruction,
ends the debugger.

`ServiceSession` with `EnteredByCalls` is satisfied by the debuggee of run `OneThread`
(breakpoints, calls and line table there are as assumed with `Before = {10}` and the callee's
two instructions as `Inner`), so the theorems speak of the session that run checks, and
the invariants hold in each of its 8 192 states.

`WatchpointProofs`: the inductive invariant

    Inv == WatchTypeOK /\ NoWrongSlot /\ Live

where `Live` says that entries are enabled while there is a process and that
threads exist only then: without it a resync could leave out an entry and a
`watch` could write a register of a thread that is gone. `TableFits`,
`SlotsAgree`, and the action properties `ReportsCover` and `CoverageIsKept`
follow.

`LineTableProofs`: `FilesOfUnit` needs the loader's tables, so the inductive
invariant is

    LoaderInv == TableTypes /\ DirsMirrored /\ FilesMirrored /\ FilesOfUnit

`DirsMirrored` and `FilesMirrored` say that slot by slot the tables hold what the
current unit has printed, that slots the unit does not use are blank, and that
inside a file block the last slot is the one being filled: this is why
`files.count - 1` is the right target (src/lineno.c:944-952). One lemma per line
of the text, `SamePath` for what a row then resolves to. `RightLine` derives
`CoveringLineShown` from it: the covering row is the only one with the greatest
address at or below the pc, whatever the table's order. `BreaksMove` rests on
`BreaksTracked` (a breakpoint's address is what its argument resolves to at the
present slide; there is none before the table is complete) and `ResolutionSlides`
(every lookup commutes with the slide). The proofs are for all tables, symbols,
filters and slides; the first index of a set exists by well-founded induction
(`FirstExists`). The bounds of the model are guards and no proof uses them.

The lookups need a second invariant, `RowsInv == RowsRise /\ EndsRepeat`: addresses
never fall from row to row, and a row that ends a sequence repeats line and file of one at a lower
address. The table does not mark such rows, and this is why a lookup for a line, which wants
the lowest address, never takes one. From it `LineBreaksShow`, `LineBreaksListed`, `ListsAgree` and `FunctionsEntered`: the entry
`Lowest` picks exists (`LowestExists`), lies in a sequence of its file, and
`NextLineSameFile` keeps the body in the function's file. `FunctionEntered` holds for functions
whose address no other symbol has: of two names for one address the backtrace shows the one that
comes first in the table.

`FramesProofs`: `BacktraceEnds` needs only that the next record of a walk lies above
the last line's (`WalkInv`), for a stack that may hold anything. The two others need
to know what an undamaged stack is:

    StackInv == intact => (no call left, at the return address of main)
                          \/ ChainOK /\ Base /\ TopOK

`ChainOK` says that every call's return address is on the stack, that the record of its
frame links to the caller's (`LinkOK`), and that deeper calls lie lower; `Base` fixes the
outermost; `TopOK` says by the pc how much of the innermost record is in place and where.
From it `UpReturnsToCaller`;
`BacktraceTellsTheCalls` adds `TellInv`: the lines shown so far are the pc and the
calls from the innermost on, and the walk stands at the record of the next. Both hold
for any depth of calls, any functions and any `MaxFrames`.

`ScopesProofs`: every text a printer of DWARF may write, with any functions, blocks, parameters
and variables, and at every address. The inductive invariant of the printer is

    ScopesInv == ScopesTypeOK /\ CodeLeft /\ TextOK /\ BlocksWithin /\ ParamsFirst /\ OpenOK /\ LastOK

`TextOK` says what may follow on what: an entry is indented only behind a function or another
indented one, a parameter stands before all else of its function, a variable follows on its
scope's entry or on another variable of that scope. `BlocksWithin` and `ParamsFirst` relate
entries further apart, and `OpenOK` and `LastOK` say of the scopes still open what the next entry
needs. The readers are recursive functions over the entries: that they exist (`ReadingExists`) and what they know
behind each entry is shown by taking the least entry at which it would fail (`FirstExists`,
`GoesOn`). `LocalKnows` says that at a variable the flag of `find_local_var` means the variable's own scope contains the
pc, though ranges of blocks overwrite that of the function and no range is ever restored: behind
a block's end no variable of an outer scope follows. From it `LocalsAreVisible` (`LocalIsVisible`).
`PrintAndShowAgree` (`PrintShowAgree`) needs `ShowKnows`: `collect_show_vars`
follows blocks by other rules, but functions' ranges are disjoint, a block lies in its function's, and
the NULL at a function's end resets it, so both accept the same variables.

`InspectProofs` holds three. Symbols: `SymbolsAreFollowed` rests on

    SymInv == SymbolsTypeOK /\ OneLink /\ TableGood /\ ImageOfExe /\ SlidesGood

executable and dSYM are of one link; once loaded, a table has the addresses and the base of
that link and misses no symbol (`TableGood`, which speaks about a load long before the
first stop); the image is that of the executable the tables were read from. The work is
in `LoadedGood`: each of the four sources, after whatever the ones before have left, gives a
good table, also where an `nm` has failed after printing a part.

LineProgram: `ProgramIsDecoded`. The invariant `DecodeInv` says what is left of the code of
a row at every point of it: `RowLeft` is a disjunction of places (before the opcodes
that make no row, in front of the file, of the advance, of the line, of the copy), each with what the
registers must still become. A round of the decoder leads from one place to the next or emits the row;
the special opcode's division undoes the assembler's sum (`Division`), and
`const_add_pc` with a special opcode advances as one would (`Distributes`). A number is what the
assembler meant because the reader takes exactly the bytes of one LEB128 number
(`Operand`), whatever follows. The theorem assumes `OneByteIsas`, that no operand of `set_isa` is
longer than a byte, without which it is false. The standard opcodes
are 9 or 12 (`opcode_base` in 10..13, the assumption on headers), which is what the assembler
writes; line range, line base, instruction length, lines and files are any.

DebugRegisters: `RegistersWatch`. The invariant `TableInv` says that the registers of slot
*i* hold entry *i* (`Held`: address, size bits, mode bits, of DR7 or of DBGWCR); that a write of one slot's fields leaves those
of the others in the shared register alone is `X86Fields`. Deleting an entry moves the others down in a loop that may stop early
and is a recursive function in the model; its existence and its result are both shown by
taking the least slot at which they would fail (`FirstExists`, `WFMin`), so no induction principle
with an operator as parameter is needed.

Only model-checked:

- `LineTypeOK` and the types of the other parts (`InspectTypeOK`): MCInspect reaches the recursive
  operators of Values, and a module that does has no arithmetic in its proofs;
- `SetShown`, `SamePlace`, `OperandSeesPlace`: the two recursive operators of Values, and the powers
  of `Radix` a word is put together from, of which the provers know nothing;
- the session's properties for two threads beyond those of `SessionProofs`, which the violated
  runs show not to hold;
- `NextStaysOut` is TLC's instance of `NextStepsOver`;
- the three liveness properties (fairness is out of the prover's reach).

## 5. Plan

Done: all modules of section 2, and the proofs of section 4. What is left, in this
order:

1. `Interrupts`: the Ctrl-C handler against `state` at the grain of single
   statements of `continue` and `cdbg_wait`.
2. `thread_set_state` that fails on one of several threads, in Watchpoint.

## 6. Not modelled

- *Formats*: the format letters of `print` and `x`, floating point, strings, help texts,
  disassembly, `leaks`: they change nothing, and a property about them would restate the
  format string.
- *Text parsers* that keep no state from line to line: `nm`, `otool`, `atos`, the
  structure reader (`dwarf_lookup_struct`), the command lexer and grammar, the expression
  grammar. What they deliver is a constant or an input of a module.
- *Binary headers* of `.debug_line` and the skipping of forms (`lineno.c`), and Mach-O load
  commands: a byte at a time against a format outside the repository. Where they differ
  from it is listed in section 3.
- *arm64* for breakpoints and frames: what a four-byte word with one byte replaced does is
  in the processor's encoding; a leaf's return address is in `lr`.
- *More than 64 threads* (src/regs.c:85): such thread sets are beyond TLC, and what is
  proved is proved without the truncation.
- *Errors of ptrace, Mach and memory on a live process*, other than a read or write beyond
  what is mapped, a failing exec and the registers of a thread that has ended: nothing in
  the code says when they happen.
- *Ctrl-C between two system calls*: see 1 of the plan.
