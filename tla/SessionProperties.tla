--------------------------- MODULE SessionProperties ---------------------------
(***************************************************************************)
(* What a session promises its user, and what keeps the promise.           *)
(***************************************************************************)
EXTENDS Session

Running == mode \in {"cont", "step"}
-------------------------------------------------------------------------------
(* A trap byte is in the text exactly where an enabled breakpoint or the    *)
(* temporary one of run and next put it.  delete, stop_debuggee, the wait   *)
(* that sets breakpoints again and the two temporary traps, which may share *)
(* an address with a user's breakpoint, all have to agree for this to hold. *)
OwnedTraps ==
    state # "IDLE" =>
        \A a \in Insn :
            code[a] = "trap" <=> \/ \E i \in DOMAIN bps : bps[i].enabled /\ bps[i].addr = a
                                 \/ temp.enabled /\ temp.addr = a

(* While PT_CONTINUE runs the task every breakpoint of the table is set and *)
(* its trap is in the text: cdbg_continue has stepped off the one that was  *)
(* lifted and cdbg_wait has set it again.                                   *)
ArmedWhileRunning ==
    mode = "cont" =>
        \A i \in DOMAIN bps : bps[i].enabled /\ code[bps[i].addr] = "trap"

(* A task that runs never has a thread in the middle of an instruction:     *)
(* whichever wait learns of a trap, the pc is moved back over it before the *)
(* task is resumed.                                                         *)
NoDerail ==
    Running => \A t \in Alive : t \notin pend => pc[t] \in Insn

(* si from an instruction that is in the text executes that instruction and  *)
(* no more: whatever was set again behind it, and whatever the stop is       *)
(* taken for, the primary thread is left where the instruction led.          *)
SiAdvances ==
    [][/\ loc = "si" /\ origin \in Insn /\ code[origin] = "orig"
       /\ loc' = "prompt" /\ state' = "STOPPED"
       => pc'[Primary] \in Succ[origin]]_vars

(* next given outside Callee ends outside it, or at a breakpoint reported   *)
(* there: a call is run to its return address, or stepped all the way       *)
(* through, whatever traps are in its way.                                  *)
EndsOutside(Callee) ==
    /\ loc \in {"next", "overcall", "call"} /\ origin \notin Callee
    /\ loc' = "prompt" /\ state' = "STOPPED"
    => pc'[cur'] \notin Callee \/ DisabledAt(pc'[cur'], bps')

(* step and next go by lines.  What they step is of the line they were given *)
(* on, or of none, whatever is lifted, set again or run over in between: the *)
(* first instruction of another line is not run any more.  And they end only *)
(* there, or at a breakpoint that was reported.                              *)
StepsByLine ==
    [][/\ loc \in {"step", "next", "overcall"} /\ Execute(Primary)
          => Line[pc[Primary]] \in {0, LineAt(origin)}
       /\ loc \in LoopWaits /\ loc' = "prompt" /\ state' = "STOPPED"
          => \/ LineAt(pc'[Primary]) \notin {0, LineAt(origin)}
             \/ DisabledAt(pc'[Primary], bps')]_vars

(* No command that waits for the debuggee ends the debugger.                *)
WaitNeverFatal == [][(loc \in Waits /\ repl) => loc' # "aborted"]_vars

(* A trap that no breakpoint accounts for is not in the text of a stopped    *)
(* task: what was deleted cannot be hit.                                     *)
NoOrphanTrap ==
    loc = "prompt" /\ state = "STOPPED" =>
        \A a \in Insn :
            code[a] = "trap" => \E i \in DOMAIN bps : bps[i].enabled /\ bps[i].addr = a
-------------------------------------------------------------------------------
Count(b) == IF b THEN 1 ELSE 0

(* The kernel's suspend counts are those the debugger believes in: one for  *)
(* a thread that "lock" holds, one for a thread the step guard holds, never *)
(* both; at the prompt the guard is gone.  So no command leaves a thread    *)
(* frozen, and none thaws a thread that is locked out.                      *)
SuspendBalance ==
    /\ state # "IDLE" =>
         \A t \in Thread : susp[t] = Count(t \in lsusp) + Count(t \in gsusp)
    /\ lock => gsusp = {}
    /\ ~lock => lsusp = {}
    /\ loc = "prompt" => gsusp = {}

(* The thread PT_STEP is armed on is one that can run: the guard never      *)
(* holds the primary thread.                                                *)
StepCanTrap == mode = "step" /\ ~lock => susp[Primary] = 0

Held(t) == ~Runnable(t)

(* During si and step nothing but the primary thread runs until its trap;   *)
(* only a thread that the stepped instruction itself creates can move       *)
(* before the debugger regains control.                                     *)
SteppedAlone ==
    loc \in {"si", "step"} /\ ~lock /\ Primary \notin pend =>
        \A t \in Thread \ {Primary} : Held(t)

(* PT_STEP is never armed on a thread that is suspended. *)
StepNeverWedged == mode = "step" => susp[Primary] = 0

(* The steps during which other threads run: below lock the guard is not     *)
(* taken at all, it is not taken for the step off a breakpoint in continue   *)
(* or for one instruction without a line, and with another thread looked at  *)
(* it does not hold that one.                                                *)
Unguarded == lock \/ loc \in {"overcont", "step1"} \/ cur # Primary

(* What makes TypeOK and the three above inductive: the debugger waits      *)
(* exactly while the task runs, a guard is held only below si and a loop,   *)
(* never on the primary thread, si and the loop of step stay on the primary *)
(* thread, and any step below the guard has every other thread that is      *)
(* alive held until its instruction has been executed.                      *)
Guarding ==
    /\ loc \in Waits => state = "RUNNING"
    /\ loc = "prompt" => state # "RUNNING"
    /\ loc \notin Waits => mode = "stopped"
    /\ gsusp # {} => loc \in LoopWaits \cup {"si"}
    /\ Primary \notin gsusp
    /\ loc \in {"si", "step"} => cur = Primary /\ mode \in {"step", "wedged"}
    /\ mode \in {"step", "wedged"} /\ ~Unguarded /\ Primary \notin pend =>
         mode = "step" /\ Alive \subseteq gsusp \cup {Primary}
-------------------------------------------------------------------------------
(* si and the loops of step and next come back, run comes back.             *)
AtPrompt == loc \notin Waits
SiReturns   == loc = "si" ~> AtPrompt
StepReturns == loc \in LoopWaits ~> AtPrompt
RunComesBack == loc \in {"exec", "entry"} ~> AtPrompt
-------------------------------------------------------------------------------
(* The session as a DebugService: a process exists unless the state is IDLE; *)
(* it stands on the trapped instruction when the pc is one past its trap;    *)
(* the table, or the saved specs during run, holds the points; and the user  *)
(* was told of a lifted breakpoint the primary thread stands on.             *)
Standing ==
    IF state = "IDLE" THEN Start
    ELSE IF pc[Primary] \in Insn THEN pc[Primary] ELSE pc[Primary] - 1

Proc == CASE state = "IDLE" -> "none" [] state = "RUNNING" -> "running"
          [] state = "STOPPED" -> "stopped"

Goal ==
    IF state # "RUNNING" THEN "none"
    ELSE IF loc \in {"exec", "entry"} THEN "main"
    ELSE IF loc \in {"cont", "overcont"} THEN "cont" ELSE "step"

Points == IF loc = "exec" THEN {saved[i] : i \in DOMAIN saved}
          ELSE {bps[i].addr : i \in DOMAIN bps}

LastTold == IF state # "IDLE" /\ DisabledAt(Standing, bps) THEN Standing ELSE 0

Service == INSTANCE DebugService WITH
    proc <- Proc, goal <- Goal, where <- Standing, points <- Points, told <- LastTold

(* With one thread and no address given twice, the traps, the lifting, the   *)
(* stepping off and the setting again are nothing but a DebugService: no     *)
(* instruction is skipped or run twice, no breakpoint is passed untold, and  *)
(* continue stops nowhere else.                                              *)
ImplementsService == Service!Spec
-------------------------------------------------------------------------------
(* A wait nothing can end: the kernel has wedged it; or there is no trap or  *)
(* signal to report, and every thread is held or waits for the others, of    *)
(* which one would run if it were not held.                                  *)
Stuck(t) == Runnable(t) => pc[t] \in Blocker /\ code[pc[t]] = "orig" /\ Alive # {t}
Wedged ==
    \/ mode = "wedged"
    \/ /\ loc \in Waits \ {"exec"} /\ pend = {} /\ ~sig /\ ~dead
       /\ \A t \in Alive : Stuck(t)
       /\ \E t \in Alive : pc[t] \notin Blocker

(* A resumed task is stuck only if the user has locked a thread out, or si,  *)
(* step or next runs an instruction that waits for a thread the step guard   *)
(* holds, or another thread has spoilt a PT_STEP.  That takes a step during  *)
(* which others run; below the guard there is no more than the moment the    *)
(* comment on step_thread_guard_catch_up leaves open, from the instruction   *)
(* that creates a thread to the report of the same step.                     *)
WedgedOnlyByAHold ==
    Wedged => \/ lsusp # {}
              \/ gsusp # {} /\ pc[Primary] \in Blocker
              \/ mode = "wedged" /\ (Unguarded \/ Primary \in pend)
===============================================================================
