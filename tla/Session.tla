-------------------------------- MODULE Session --------------------------------
(***************************************************************************)
(* A debugging session on x86_64: the prompt of src/src/debugger.c, the    *)
(* commands that resume, step, stop and restart the debuggee, the          *)
(* breakpoints they plant and lift, and the threads they suspend.          *)
(*                                                                         *)
(* The debugger is one thread that blocks in waitpid.  An action is what   *)
(* it does between two such waits: a command up to the resume it ends in,  *)
(* or the code behind a wait up to the next resume or to the prompt.  "loc"*)
(* names the wait it is in.  The debuggee runs in between (module          *)
(* Debuggee), so its steps interleave with the waits of every command.     *)
(*                                                                         *)
(* Watchpoints are seen here only as a stop a step loop may make; a pair   *)
(* of file and line is one number, and 0 stands for "no line information". *)
(***************************************************************************)
EXTENDS Debuggee

CONSTANTS Line,        (* Insn -> its line, 0 where there is no information   *)
          CallRet,     (* Insn -> return address of a direct call, 0 if none  *)
          Entry,       (* first body line of main, 0 if main is not found     *)
          BreakAt,     (* addresses given to "break"                          *)
          Dup,         (* whether one address is ever given twice             *)
          UpTargets,   (* return addresses "up" may find                      *)
          JumpTargets, (* addresses written with "set $rip"                   *)
          Locks,       (* whether "lock" is used                              *)
          Signals,     (* whether Ctrl-C is used                              *)
          Watching,    (* whether a watched value may change                  *)
          ExecFails,   (* whether execv may fail                              *)
          BreakFails,  (* whether "break" may fail on a saved spec in run     *)
          MaxBps,      (* CDBG_MAX_BREAKPOINTS                                *)
          MaxIter      (* CDBG_MAX_STEP_ITERATIONS                            *)

ASSUME SessionAssumption ==
    /\ Line \in [Insn -> Nat]
    /\ CallRet \in [Insn -> Insn \cup {0}]
    /\ Entry \in Insn \cup {0}
    /\ BreakAt \subseteq Insn /\ UpTargets \subseteq Insn /\ JumpTargets \subseteq Insn
    /\ {Dup, Locks, Signals, Watching, ExecFails, BreakFails} \subseteq BOOLEAN
    /\ MaxBps \in Nat
    /\ MaxIter \in Nat \ {0}

VARIABLES state,   (* cdbg_t.state                                            *)
          loc,     (* the wait the debugger is in, the prompt, or its end     *)
          repl,    (* main has entered cdbg_repl                              *)
          bps,     (* cdbg_t.breakpoints                                      *)
          temp,    (* the local temp_bp of run_to_entry_stop, step_over_call  *)
          cur,     (* cdbg_t.current_tid                                      *)
          lock,    (* cdbg_t.thread_lock_active                               *)
          lsusp,   (* cdbg_t.suspended_tids                                   *)
          gsusp,   (* tids of the local step guard                            *)
          origin,  (* the pc at which si, step or next was given              *)
          iter,    (* iterations the step loop has done                       *)
          saved    (* saved_bp_specs of cdbg_run                              *)

vars == <<debuggee, state, loc, repl, bps, temp, cur, lock, lsusp, gsusp,
          origin, iter, saved>>

Breakpoints == <<bps, temp, saved>>
Guarded     == <<lock, lsusp, gsusp>>
Stepping    == <<origin, iter>>

NoTemp == [addr |-> 0, saved |-> "orig", enabled |-> FALSE]

(* The waits: for exec; of run_to_entry_stop; of step_over_disabled_        *)
(* breakpoint below continue and below step_over_call; of continue; of si;  *)
(* of step or next with no line; of the step loop; of the next loop, on an  *)
(* instruction and on a call.                                               *)
LoopWaits == {"step", "next", "overcall", "call"}
Waits == LoopWaits \cup {"exec", "entry", "overcont", "cont", "si", "step1"}

TypeOK ==
    /\ DebuggeeTypeOK
    /\ state \in {"IDLE", "RUNNING", "STOPPED"}
    /\ loc \in Waits \cup {"prompt", "aborted", "exited"}
    /\ repl \in BOOLEAN
    /\ bps \in Seq(Bp)
    /\ temp \in [addr : Insn \cup {0}, saved : Byte, enabled : BOOLEAN]
    /\ cur \in Thread
    /\ lock \in BOOLEAN
    /\ lsusp \subseteq Thread
    /\ gsusp \subseteq Thread
    /\ origin \in Nat
    /\ iter \in Nat
    /\ saved \in Seq(Insn)
-------------------------------------------------------------------------------
(* What a command changes of the debuggee and of its own view of it.  The  *)
(* steps of a handler are functions on such records.                       *)
Now == [code |-> code, bps |-> bps, pc |-> pc, cur |-> cur]
Become(m) == code' = m.code /\ bps' = m.bps /\ pc' = m.pc /\ cur' = m.cur

(* cdbg_refresh_regs finds the thread m.cur. *)
Readable(m) == life[m.cur] = "alive"

(* cdbg_wait after a stop: it fails on a thread that has ended. *)
WaitFails == bps # <<>> /\ ~Readable(Now)
Waited == [code |-> ReenabledCode(code, bps, pc[cur]),
           bps  |-> ReenabledBps(code, bps, pc[cur]),
           pc   |-> pc, cur |-> cur]

(* cdbg_bp_disable(temp_bp). *)
Disarmed(m) == [m EXCEPT !.code = Restored(m.code, temp)]

(* Mutant: the pc stays behind the trap. *)
RewoundNot(m) == m

Rewound(m) == [m EXCEPT !.pc = [m.pc EXCEPT ![m.cur] = IF @ > 0 THEN @ - 1 ELSE @]]

(* switch_current_tid_to_breakpoint_hit: the first thread on a trap. *)
Hitters(m) == {t \in Alive : IsTrap(m.pc[t], m.bps)}
Focused(m) == IF Hitters(m) = {} THEN m ELSE [m EXCEPT !.cur = Least(Hitters(m))]

(* handle_breakpoint_hit. *)
Handled(m) ==
    LET i == FirstMatch(m.pc[m.cur], m.bps)
    IN  Rewound([m EXCEPT !.code = Restored(m.code, m.bps[i]),
                          !.bps  = Lifted(m.bps, i)])

(* report_stop; it fails, and reports nothing, if m.cur has ended. *)
Reported(m) ==
    LET f == Focused(m)
    IN  IF Readable(f) /\ IsTrap(f.pc[f.cur], f.bps) THEN Handled(f) ELSE f

(* The line of the last instruction that starts at or below p. *)
LineAt(p) ==
    LET below == {a \in Insn : a <= p}
    IN  IF below = {} THEN 0
        ELSE Line[CHOOSE a \in below : \A b \in below : b <= a]

(* Mutant: a jump back is no new line. *)
NewLineLater(p) == LineAt(p) > LineAt(origin)

NewLine(p) == LineAt(p) # 0 /\ LineAt(p) # LineAt(origin)
-------------------------------------------------------------------------------
(* ptrace: the task runs again. *)
Resume(how, wait) == mode' = how /\ state' = "RUNNING" /\ loc' = wait

(* PT_STEP steps the primary thread, or wedges where another one, c, is the *)
(* thread looked at: either was observed.                                   *)
ResumeStep(c, wait) ==
    \/ Resume("step", wait)
    \/ c # Primary /\ Resume("wedged", wait)

(* waitpid has reported a stop or the end of the process. *)
TakeStop ==
    /\ ~dead /\ mode # "wedged"
    /\ \/ \E t \in pend : pend' = pend \ {t} /\ sig' = sig
       \/ sig /\ sig' = FALSE /\ pend' = pend
    /\ UNCHANGED <<life, dead>>
TakeExit(waits) == loc \in waits /\ dead

(* step_thread_guard_catch_up: every thread but the primary and the        *)
(* current one is suspended once, unless "lock" has done so.               *)
(* Mutant: no thread is spared. *)
NotGuardedAny(c) == IF lock THEN {} ELSE Alive \ gsusp

NotGuarded(c) == IF lock THEN {} ELSE Alive \ ({Primary, c} \cup gsusp)
CatchUp(c) ==
    /\ gsusp' = gsusp \cup NotGuarded(c)
    /\ susp' = [t \in Thread |-> IF t \in NotGuarded(c) THEN susp[t] + 1 ELSE susp[t]]

(* step_thread_guard_end. *)
(* Mutant: the guard is forgotten, the threads stay suspended. *)
ReleaseGuardLeaks == gsusp' = {} /\ susp' = susp

ReleaseGuard ==
    /\ gsusp' = {}
    /\ susp' = [t \in Thread |-> IF t \in gsusp THEN susp[t] - 1 ELSE susp[t]]

(* Back to the prompt with the task stopped. *)
Prompt(m) ==
    /\ Become(m)
    /\ state' = "STOPPED" /\ mode' = "stopped" /\ loc' = "prompt"
    /\ temp' = NoTemp

(* CDBG_REPL_FATAL: the debugger ends without touching the debuggee. *)
Abort == loc' = "aborted" /\ state' = "STOPPED" /\ mode' = "stopped"

(* Every breakpoint stays in the table, disabled, and the process is gone. *)
NoProcess ==
    /\ Reaped
    /\ state' = "IDLE"
    /\ bps' = AllDisabled(bps)
    /\ temp' = NoTemp
    /\ gsusp' = {}
-------------------------------------------------------------------------------
(* cdbg_run up to the wait for exec. *)
Launch ==
    /\ Spawned
    /\ state' = "RUNNING" /\ loc' = "exec"
    /\ saved' = [i \in DOMAIN bps |-> bps[i].addr]
    /\ bps' = <<>> /\ temp' = NoTemp
    /\ cur' = Primary
    /\ lock' = FALSE /\ lsusp' = {} /\ gsusp' = {}

Run ==
    /\ loc = "prompt"
    /\ Launch
    /\ UNCHANGED <<repl, Stepping>>

(* cdbg_run returns: at first to main, which gives up if it has failed.    *)
RunReturns(ok) == loc' = (IF ok \/ repl THEN "prompt" ELSE "aborted") /\ repl' = (ok \/ repl)

(* execv fails, or the process ends before main: report_process_exit.      *)
ExecFailed ==
    /\ loc = "exec" /\ ExecFails
    /\ NoProcess
    /\ RunReturns(FALSE)
    /\ saved' = <<>>
    /\ UNCHANGED <<cur, lock, lsusp, Stepping>>

(* The stop after exec: cmd_break is called for each saved spec, and that   *)
(* it may fail is ignored; then run_to_entry_stop plants its own trap and   *)
(* continues.                                                               *)
Surviving == IF BreakFails THEN SomeOf(saved) ELSE {saved}

Replant(specs) ==
    LET planted == ReplantedCode(specs)
    IN  /\ bps' = ReplantedBps(specs)
        /\ IF Entry = 0
           THEN /\ code' = planted /\ temp' = NoTemp
                /\ state' = "STOPPED" /\ mode' = "stopped"
                /\ RunReturns(TRUE)
           ELSE /\ code' = Planted(planted, Entry)
                /\ temp' = BpAt(planted, Entry)
                /\ Resume("cont", "entry")
                /\ repl' = repl

ExecStop ==
    /\ loc = "exec"
    /\ \E specs \in Surviving : Replant(specs)
    /\ saved' = <<>>
    /\ UNCHANGED <<pc, life, susp, pend, sig, dead, cur, Guarded, Stepping>>

(* The stop of run_to_entry_stop.  Only its own trap is rewound; any other *)
(* stop is left as it is, and either way the prompt follows.               *)
EntryStop ==
    /\ loc = "entry" /\ TakeStop
    /\ LET m == Waited
       IN  Prompt(IF Matches(m.pc[cur], temp) THEN Rewound(Disarmed(m)) ELSE Disarmed(m))
    /\ repl' = TRUE
    /\ UNCHANGED <<susp, Guarded, Stepping, saved>>

EntryExit ==
    /\ TakeExit({"entry"})
    /\ NoProcess
    /\ RunReturns(FALSE)
    /\ UNCHANGED <<cur, lock, lsusp, Stepping, saved>>
-------------------------------------------------------------------------------
(* cdbg_continue: PT_CONTINUE, or first PT_STEP off a lifted breakpoint;    *)
(* the step is armed on the primary thread and no guard holds the others.   *)
(* Mutant: no step off a lifted breakpoint. *)
ResumeFromAtOnce(m, over, wait) == Resume("cont", wait)

ResumeFrom(m, over, wait) ==
    IF DisabledAt(m.pc[m.cur], m.bps) THEN ResumeStep(m.cur, over) ELSE Resume("cont", wait)

Continue ==
    /\ loc = "prompt" /\ state = "STOPPED"
    /\ IF WaitFails
       THEN Abort
       ELSE ResumeFrom(Now, "overcont", "cont")
    /\ UNCHANGED <<code, pc, life, susp, pend, sig, dead, repl, Breakpoints, cur,
                   Guarded, Stepping>>

(* The wait inside cdbg_continue: what has stopped the task is not looked   *)
(* at, breakpoints are set again and the task continues.                    *)
OverContStop ==
    /\ loc = "overcont" /\ TakeStop
    /\ IF WaitFails
       THEN Abort /\ UNCHANGED <<code, bps, pc, cur>>
       ELSE Become(Waited) /\ Resume("cont", "cont")
    /\ UNCHANGED <<susp, repl, temp, Guarded, Stepping, saved>>

(* There cdbg_wait's 1 for an exit is taken for a failure.                  *)
OverContExit ==
    /\ TakeExit({"overcont"})
    /\ loc' = "aborted" /\ state' = "IDLE" /\ mode' = "stopped"
    /\ UNCHANGED <<code, pc, life, susp, pend, sig, dead, repl, Breakpoints, cur,
                   Guarded, Stepping>>

(* The waits of continue and of a step that has no line to leave.           *)
ReportedStop ==
    /\ loc \in {"cont", "step1"} /\ TakeStop
    /\ IF WaitFails
       THEN Abort /\ UNCHANGED <<code, bps, pc, cur, temp>>
       ELSE Prompt(Reported(Waited))
    /\ UNCHANGED <<susp, repl, Guarded, Stepping, saved>>

(* The process ends in any wait but those of run and of the step in         *)
(* continue: cdbg_repl_cmd_* calls report_process_exit.                     *)
ProcessExit ==
    /\ TakeExit(LoopWaits \cup {"cont", "si", "step1"})
    /\ NoProcess
    /\ loc' = "prompt"
    /\ UNCHANGED <<repl, cur, lock, lsusp, Stepping, saved>>
-------------------------------------------------------------------------------
(* require_primary_thread_for_step. *)
MayStep == loc = "prompt" /\ state = "STOPPED" /\ cur = Primary

(* Mutant: PT_CONTINUE instead of PT_STEP. *)
SiContinues ==
    /\ MayStep
    /\ CatchUp(cur)
    /\ Resume("cont", "si")
    /\ origin' = pc[cur]
    /\ UNCHANGED <<code, pc, life, pend, sig, dead, repl, Breakpoints, cur, lock,
                   lsusp, iter>>

Si ==
    /\ MayStep
    /\ CatchUp(cur)
    /\ Resume("step", "si")
    /\ origin' = pc[cur]
    /\ UNCHANGED <<code, pc, life, pend, sig, dead, repl, Breakpoints, cur, lock,
                   lsusp, iter>>

SiStop ==
    /\ loc = "si" /\ TakeStop
    /\ ReleaseGuard
    /\ IF WaitFails
       THEN Abort /\ UNCHANGED <<code, bps, pc, cur, temp>>
       ELSE Prompt(Reported(Waited))
    /\ UNCHANGED <<repl, lock, lsusp, Stepping, saved>>

(* step and next where the pc has no line: one instruction, no guard.       *)
StepNoLine ==
    /\ MayStep
    /\ LineAt(pc[cur]) = 0
    /\ Resume("step", "step1")
    /\ origin' = pc[cur]
    /\ UNCHANGED <<code, pc, life, susp, pend, sig, dead, repl, Breakpoints, cur,
                   Guarded, iter>>

(* The head of an iteration of cdbg_step_next_line.                         *)
(* Mutant: an iteration of step without the guard. *)
StepHeadUnguarded(m) ==
    /\ UNCHANGED <<gsusp, susp>>
    /\ Become(m)
    /\ temp' = NoTemp
    /\ Resume("step", "step")

StepHead(m) ==
    /\ CatchUp(m.cur)
    /\ Become(m)
    /\ temp' = NoTemp
    /\ Resume("step", "step")

(* call_return_address: a direct call is seen only if its byte is there.    *)
(* Mutant: no call is recognised. *)
AtCallNever(m) == FALSE

AtCall(m) ==
    LET p == m.pc[m.cur]
    IN  p \in Insn /\ m.code[p] = "orig" /\ CallRet[p] # 0

(* The head of an iteration of cdbg_next_source_line: a call runs to a trap *)
(* at its return address (step_over_call), anything else is stepped.        *)
NextHead(m) ==
    /\ CatchUp(m.cur)
    /\ IF AtCall(m)
       THEN LET ret == CallRet[m.pc[m.cur]]
            IN  /\ Become([m EXCEPT !.code = Planted(m.code, ret)])
                /\ temp' = BpAt(m.code, ret)
                /\ ResumeFrom(m, "overcall", "call")
       ELSE /\ Become(m)
            /\ temp' = NoTemp
            /\ ResumeStep(m.cur, "next")

LoopHead(kind, m) == IF kind = "step" THEN StepHead(m) ELSE NextHead(m)

(* Mutant: the count of iterations is not reset. *)
LoopStartsCounting(kind) ==
    /\ MayStep
    /\ LineAt(pc[cur]) # 0
    /\ LoopHead(kind, Now)
    /\ origin' = pc[cur] /\ iter' = iter
    /\ UNCHANGED <<life, pend, sig, dead, repl, lock, lsusp, saved>>

LoopStarts(kind) ==
    /\ MayStep
    /\ LineAt(pc[cur]) # 0
    /\ LoopHead(kind, Now)
    /\ origin' = pc[cur] /\ iter' = 0
    /\ UNCHANGED <<life, pend, sig, dead, repl, lock, lsusp, saved>>

Step == LoopStarts("step")
NextLine == LoopStarts("next")

(* The rest of an iteration, from the pc on: a breakpoint or a watched      *)
(* value is reported, a new line ends the command, the last iteration is a  *)
(* fatal error, and otherwise the loop goes round.                          *)
Unbroken(m) == Readable(m) /\ ~IsTrap(m.pc[m.cur], m.bps)

LoopEnds(m) ==
    \/ Readable(m) /\ ~Unbroken(m) /\ Prompt(Reported(m))
    \/ Unbroken(m) /\ Watching /\ Prompt(m)
    \/ Unbroken(m) /\ NewLine(m.pc[m.cur]) /\ Prompt(m)

LoopFails(m) ==
    \/ ~Readable(m)
    \/ Unbroken(m) /\ ~NewLine(m.pc[m.cur]) /\ iter + 1 = MaxIter

(* Mutant: the loop has no bound. *)
LoopTailEndless(m, kind) ==
    /\ \/ LoopEnds(m) /\ ReleaseGuard
       \/ Unbroken(m) /\ ~NewLine(m.pc[m.cur]) /\ LoopHead(kind, m)
    /\ UNCHANGED <<repl, lock, lsusp, Stepping, saved>>

LoopTail(m, kind) ==
    /\ \/ LoopEnds(m) /\ ReleaseGuard /\ iter' = iter
       \/ LoopFails(m) /\ Abort /\ Become(m) /\ temp' = NoTemp /\ ReleaseGuard /\ iter' = iter
       \/ /\ Unbroken(m) /\ ~NewLine(m.pc[m.cur]) /\ iter + 1 < MaxIter
          /\ LoopHead(kind, m)
          /\ iter' = iter + 1
    /\ UNCHANGED <<repl, lock, lsusp, origin, saved>>

(* A wait of the loop that fails: rc is -1, the guard is released and the   *)
(* REPL gives up.                                                           *)
LoopAborts ==
    /\ Abort /\ Become(Disarmed(Now)) /\ temp' = NoTemp
    /\ ReleaseGuard
    /\ UNCHANGED <<repl, lock, lsusp, Stepping, saved>>

StepStop ==
    /\ loc = "step" /\ TakeStop
    /\ IF WaitFails THEN LoopAborts ELSE LoopTail(Waited, "step")

NextStop ==
    /\ loc = "next" /\ TakeStop
    /\ IF WaitFails THEN LoopAborts ELSE LoopTail(Waited, "next")

(* The wait inside cdbg_continue below step_over_call.                      *)
OverCallStop ==
    /\ loc = "overcall" /\ TakeStop
    /\ IF WaitFails
       THEN LoopAborts
       ELSE /\ Become(Waited)
            /\ Resume("cont", "call")
            /\ UNCHANGED <<susp, repl, temp, Guarded, Stepping, saved>>

(* finish_temp_breakpoint: on its own trap the pc goes back to the return   *)
(* address; any other stop is reported, and the loop goes on either way.    *)
Returned(m) ==
    IF Matches(m.pc[m.cur], temp)
    THEN [Disarmed(m) EXCEPT !.pc = [m.pc EXCEPT ![m.cur] = temp.addr]]
    ELSE Reported(Disarmed(m))

CallStop ==
    /\ loc = "call" /\ TakeStop
    /\ IF WaitFails \/ ~Readable(Now)
       THEN LoopAborts
       ELSE LoopTail(Returned(Waited), "next")
-------------------------------------------------------------------------------
(* Commands that leave the task stopped. *)
StillStopped == UNCHANGED <<life, mode, pend, sig, dead, state, loc, repl, temp,
                            gsusp, Stepping, saved>>

(* cmd_break, which reads the byte first and so fails without a process.    *)
Break(a) ==
    /\ loc = "prompt" /\ state = "STOPPED"
    /\ Len(bps) < MaxBps
    /\ Dup \/ \A i \in DOMAIN bps : bps[i].addr # a
    /\ bps' = Append(bps, BpAt(code, a))
    /\ code' = Planted(code, a)
    /\ UNCHANGED <<pc, susp, cur, lock, lsusp>>
    /\ StillStopped

(* "del n"; "del n m" deletes one after the other.  Without a process the   *)
(* entry is only dropped.                                                   *)
Del(i) ==
    /\ loc = "prompt"
    /\ bps' = Deleted(bps, i)
    /\ code' = Restored(code, bps[i])
    /\ UNCHANGED <<pc, susp, cur, lock, lsusp>>
    /\ StillStopped

DelAll ==
    /\ loc = "prompt" /\ bps # <<>>
    /\ bps' = <<>>
    /\ code' = AllRestored(code, bps)
    /\ UNCHANGED <<pc, susp, cur, lock, lsusp>>
    /\ StillStopped

(* cmd_thread with a number. *)
SelectThread(t) ==
    /\ loc = "prompt" /\ state = "STOPPED"
    /\ t \in Alive
    /\ cur' = t
    /\ UNCHANGED <<code, bps, pc, susp, lock, lsusp>>
    /\ StillStopped

(* cmd_lock. *)
LockTo(t) ==
    /\ Locks
    /\ loc = "prompt" /\ state = "STOPPED"
    /\ ~lock
    /\ t \in Alive
    /\ lock' = TRUE
    /\ lsusp' = Alive \ {t}
    /\ susp' = [u \in Thread |-> IF u \in Alive \ {t} THEN susp[u] + 1 ELSE susp[u]]
    /\ cur' = t
    /\ UNCHANGED <<code, bps, pc>>
    /\ StillStopped

(* cmd_unlock. *)
Unlock ==
    /\ loc = "prompt" /\ state = "STOPPED"
    /\ lock
    /\ lock' = FALSE
    /\ lsusp' = {}
    /\ susp' = [u \in Thread |-> IF u \in lsusp THEN susp[u] - 1 ELSE susp[u]]
    /\ UNCHANGED <<code, bps, pc, cur>>
    /\ StillStopped

(* cdbg_frame_up writes the caller's pc into the thread; so does "set $rip". *)
MovePc(a) ==
    /\ loc = "prompt" /\ state = "STOPPED"
    /\ Readable(Now)
    /\ pc' = [pc EXCEPT ![cur] = a]
    /\ UNCHANGED <<code, bps, susp, cur, lock, lsusp>>
    /\ StillStopped

FrameUp == \E a \in UpTargets : MovePc(a)
SetPc == \E a \in JumpTargets : MovePc(a)

(* cdbg_repl_cmd_regs fails without a thread to read. *)
Regs ==
    /\ loc = "prompt"
    /\ ~Readable(Now)
    /\ loc' = "aborted"
    /\ UNCHANGED <<debuggee, state, repl, Breakpoints, cur, Guarded, Stepping>>

(* stop_debuggee. *)
Stopped(end) ==
    /\ loc = "prompt"
    /\ NoProcess
    /\ loc' = end
    /\ cur' = Primary /\ lock' = FALSE /\ lsusp' = {}
    /\ UNCHANGED <<repl, Stepping, saved>>

Kill == state = "STOPPED" /\ Stopped("prompt")
Quit == Stopped("exited")

(* End of input: cdbg_repl returns and nothing is stopped. *)
Eof ==
    /\ loc = "prompt"
    /\ loc' = "exited"
    /\ UNCHANGED <<debuggee, state, repl, Breakpoints, cur, Guarded, Stepping>>

(* sigint_handler, installed by cdbg_repl, forwards Ctrl-C to a task that   *)
(* runs; at the prompt it only prints a new prompt.                         *)
Interrupt ==
    /\ Signals /\ repl
    /\ state = "RUNNING" /\ loc # "exec"
    /\ ~sig /\ ~dead
    /\ sig' = TRUE
    /\ UNCHANGED <<code, pc, life, susp, mode, pend, dead, state, loc, repl,
                   Breakpoints, cur, Guarded, Stepping>>

(* Nothing follows the end of the debugger or a wedged wait. *)
Ended == (loc \in {"aborted", "exited"} \/ mode = "wedged") /\ UNCHANGED vars
-------------------------------------------------------------------------------
(* main: cdbg_init, then cdbg_run with no breakpoint yet. *)
Init ==
    /\ code = [a \in Insn |-> "orig"]
    /\ pc = [t \in Thread |-> Start]
    /\ life = [t \in Thread |-> IF t = Primary THEN "alive" ELSE "unborn"]
    /\ susp = [t \in Thread |-> 0]
    /\ mode = "exec" /\ pend = {} /\ sig = FALSE /\ dead = FALSE
    /\ state = "RUNNING" /\ loc = "exec" /\ repl = FALSE
    /\ bps = <<>> /\ temp = NoTemp /\ saved = <<>>
    /\ cur = Primary /\ lock = FALSE /\ lsusp = {} /\ gsusp = {}
    /\ origin = Start /\ iter = 0

debugger == <<state, loc, repl, Breakpoints, cur, Guarded, Stepping>>

Program(t) == DebuggeeStep(t) /\ UNCHANGED debugger

(* The code behind a wait. *)
Handler ==
    \/ ExecFailed \/ ExecStop \/ EntryStop \/ EntryExit
    \/ OverContStop \/ OverContExit \/ ReportedStop \/ ProcessExit
    \/ SiStop \/ StepStop \/ NextStop \/ OverCallStop \/ CallStop

(* What the user types. *)
Command ==
    \/ Run \/ Continue \/ Si \/ StepNoLine \/ Step \/ NextLine
    \/ \E a \in BreakAt : Break(a)
    \/ \E i \in DOMAIN bps : Del(i)
    \/ DelAll
    \/ \E t \in Thread : SelectThread(t) \/ LockTo(t)
    \/ Unlock \/ FrameUp \/ SetPc \/ Regs \/ Kill \/ Quit \/ Eof

Next ==
    \/ \E t \in Thread : Program(t)
    \/ Handler
    \/ Command
    \/ Interrupt
    \/ Ended

(* The kernel runs a thread that can run, and the debugger, which does      *)
(* nothing but wait, takes what waitpid reports.  Nothing is assumed of the *)
(* user.                                                                    *)
Fairness == WF_vars(Handler) /\ \A t \in Thread : WF_vars(Program(t))

Spec == Init /\ [][Next]_vars
FairSpec == Spec /\ Fairness
===============================================================================
