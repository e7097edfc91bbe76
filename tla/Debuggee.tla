------------------------------- MODULE Debuggee -------------------------------
(***************************************************************************)
(* The traced process as ptrace and Mach show it to the debugger: threads  *)
(* that execute instructions while the task is resumed, the traps and      *)
(* signals waitpid is told about, and per-thread suspend counts.           *)
(*                                                                         *)
(* The process is not code of the repository.  What it may do is read off  *)
(* how src/src uses it: PT_STEP makes the primary thread trap after one    *)
(* instruction and leaves every other thread running, thread_suspend keeps *)
(* a thread from running however the task is resumed, and a trap of any    *)
(* thread stops the whole task.  What the comments of debugger.c record of *)
(* the kernel is part of it: another thread's trap may wedge a PT_STEP.    *)
(***************************************************************************)
EXTENDS Breakpoint

CONSTANTS Thread,       (* thread numbers; 0 is the primary thread           *)
          Succ,         (* Insn -> the addresses that may run next; at {}    *)
                        (* the thread ends, and the process if it is primary *)
          Spawner,      (* instructions that create a thread                 *)
          Blocker,      (* instructions that wait for every other thread     *)
          Start,        (* the pc at the stop that follows exec              *)
          WorkerEntry   (* where a created thread starts                     *)

Primary == 0

ASSUME DebuggeeAssumption ==
    /\ Thread \subseteq Nat /\ Primary \in Thread
    /\ Succ \in [Insn -> SUBSET Insn]
    /\ Spawner \subseteq Insn /\ Blocker \subseteq Insn
    /\ Start \in Insn /\ WorkerEntry \in Insn

VARIABLES code,   (* the byte at each instruction address                     *)
          pc,     (* the program counter of each thread                       *)
          life,   (* each thread is unborn, alive or gone                     *)
          susp,   (* the kernel's suspend count of each thread                *)
          mode,   (* how the task is resumed: cont, step; exec: in execv;     *)
                  (* wedged: a PT_STEP that waitpid will never return from    *)
          pend,   (* threads whose trap waitpid has not reported yet          *)
          sig,    (* a signal stop waitpid has not reported yet               *)
          dead    (* the process has ended and waitpid has not reported it    *)

debuggee == <<code, pc, life, susp, mode, pend, sig, dead>>

DebuggeeTypeOK ==
    /\ code \in [Insn -> Byte]
    /\ pc \in [Thread -> Nat]
    /\ life \in [Thread -> {"unborn", "alive", "gone"}]
    /\ susp \in [Thread -> Nat]
    /\ mode \in {"stopped", "exec", "cont", "step", "wedged"}
    /\ pend \subseteq Thread
    /\ sig \in BOOLEAN
    /\ dead \in BOOLEAN
-------------------------------------------------------------------------------
(* A process image that has executed nothing yet. *)
Fresh(primary) ==
    /\ code' = [a \in Insn |-> "orig"]
    /\ pc' = [t \in Thread |-> Start]
    /\ life' = [t \in Thread |-> IF t = Primary THEN primary ELSE "unborn"]
    /\ susp' = [t \in Thread |-> 0]
    /\ pend' = {}
    /\ sig' = FALSE
    /\ dead' = FALSE

(* fork and execv under PT_TRACE_ME; the process was reaped: there is none. *)
Spawned == Fresh("alive") /\ mode' = "exec"
Reaped  == Fresh("unborn") /\ mode' = "stopped"

Alive == {t \in Thread : life[t] = "alive"}
Least(S) == CHOOSE t \in S : \A u \in S : t <= u
-------------------------------------------------------------------------------
Runnable(t) ==
    /\ mode \in {"cont", "step"}
    /\ ~dead
    /\ life[t] = "alive"
    /\ susp[t] = 0
    /\ t \notin pend

(* The trap PT_STEP arms: on the primary thread, whoever is looked at. *)
Stepped(t) == IF mode = "step" /\ t = Primary THEN {t} ELSE {}

Unborn == {u \in Thread : life[u] = "unborn"}

(* The instruction of the program itself, which may create a thread. *)
Execute(t) ==
    /\ Runnable(t)
    /\ pc[t] \in Insn
    /\ code[pc[t]] = "orig"
    /\ pc[t] \in Blocker => Alive = {t}
    /\ \E q \in Succ[pc[t]] :
         IF pc[t] \in Spawner /\ Unborn # {}
         THEN /\ life' = [life EXCEPT ![Least(Unborn)] = "alive"]
              /\ pc' = [pc EXCEPT ![t] = q, ![Least(Unborn)] = WorkerEntry]
         ELSE /\ life' = life
              /\ pc' = [pc EXCEPT ![t] = q]
    /\ pend' = pend \cup Stepped(t)
    /\ UNCHANGED <<code, susp, mode, sig, dead>>

(* The thread's last instruction. *)
Finish(t) ==
    /\ Runnable(t)
    /\ pc[t] \in Insn
    /\ code[pc[t]] = "orig"
    /\ Succ[pc[t]] = {}
    /\ IF t = Primary
       THEN dead' = TRUE /\ life' = life
       ELSE dead' = dead /\ life' = [life EXCEPT ![t] = "gone"]
    /\ UNCHANGED <<code, pc, susp, mode, pend, sig>>

(* INT3: one byte further, with SIGTRAP for the debugger.  While PT_STEP's  *)
(* own trap is waited for, that of another thread is reported in its stead  *)
(* or wedges waitpid for good (seen about one time in ten).                 *)
HitTrap(t) ==
    /\ Runnable(t)
    /\ pc[t] \in Insn
    /\ code[pc[t]] = "trap"
    /\ pc' = [pc EXCEPT ![t] = @ + 1]
    /\ \/ pend' = pend \cup {t} /\ mode' = mode
       \/ mode = "step" /\ t # Primary /\ mode' = "wedged" /\ pend' = pend
    /\ UNCHANGED <<code, life, susp, sig, dead>>

(* Bytes that are not an instruction of the program: taken to fault, which *)
(* is a signal stop.                                                       *)
Fault(t) ==
    /\ Runnable(t)
    /\ pc[t] \notin Insn
    /\ ~sig
    /\ sig' = TRUE
    /\ UNCHANGED <<code, pc, life, susp, mode, pend, dead>>

DebuggeeStep(t) == Execute(t) \/ Finish(t) \/ HitTrap(t) \/ Fault(t)
===============================================================================
