------------------------------ MODULE Watchpoint ------------------------------
(***************************************************************************)
(* Hardware watchpoints: src/src/watchpoint.c and the table, the commands  *)
(* and the stops of src/src/debugger.c that use it.                        *)
(*                                                                         *)
(* The index of an entry in cdbg_t.watchpoints is the number of a debug    *)
(* register that every thread has of its own; here it counts from 1.  A    *)
(* thread starts with empty registers.  The debugger never reads which     *)
(* register has trapped: it compares values.                               *)
(*                                                                         *)
(* The debuggee may stop at any time and for any reason, and breakpoints   *)
(* are a choice of the stop; module Session says when they hit and which   *)
(* threads a step holds.  Here every thread may run in every wait.         *)
(***************************************************************************)
EXTENDS Naturals, Sequences

CONSTANTS Thread,   (* thread numbers; 0 is the primary thread                *)
          Place,    (* watched places: an address and a size the registers    *)
                    (* can represent                                          *)
          Value,    (* what a place may hold; 0 in a new process              *)
          Mode,     (* cdbg_wp_mode_t                                         *)
          MaxHw     (* CDBG_WP_MAX_HW                                         *)

Primary == 0

ASSUME WatchpointAssumption ==
    /\ Thread \subseteq Nat /\ Primary \in Thread
    /\ 0 \in Value
    /\ Mode \subseteq {"write", "access"}
    /\ MaxHw \in Nat

Slot == 1 .. MaxHw
Empty == [place |-> "none", mode |-> "none"]
Register == [place : Place, mode : Mode] \cup {Empty}
Wp == [place : Place, mode : Mode, old : Value, enabled : BOOLEAN]

VARIABLES state,     (* cdbg_t.state                                          *)
          loc,       (* the prompt, or the wait of run, of the step in        *)
                     (* continue, of continue, si, and of step and next       *)
          cur,       (* cdbg_t.current_tid                                    *)
          watches,   (* cdbg_t.watchpoints                                    *)
          life,      (* each thread is unborn, alive or gone                  *)
          mem,       (* the value at each place                               *)
          regs,      (* the debug registers of each thread                    *)
          pend       (* threads whose trap waitpid has not reported yet       *)

vars == <<state, loc, cur, watches, life, mem, regs, pend>>

Waits == {"run", "overcont", "cont", "si", "line"}

WatchTypeOK ==
    /\ state \in {"IDLE", "RUNNING", "STOPPED"}
    /\ loc \in Waits \cup {"prompt"}
    /\ cur \in Thread
    /\ watches \in Seq(Wp) /\ Len(watches) <= MaxHw
    /\ life \in [Thread -> {"unborn", "alive", "gone"}]
    /\ mem \in [Place -> Value]
    /\ regs \in [Thread -> [Slot -> Register]]
    /\ pend \subseteq Thread

Alive == {t \in Thread : life[t] = "alive"}
-------------------------------------------------------------------------------
Hw(wp) == [place |-> wp.place, mode |-> wp.mode]

(* for_each_thread: the registers of the threads there are.  The task is    *)
(* stopped, so none is missed and none fails.                               *)
OnAlive(r, new) == [t \in Thread |-> IF t \in Alive THEN new[t] ELSE r[t]]

(* cdbg_wp_hw_install. *)
(* Mutant: the primary thread alone, as before for_each_thread. *)
InstalledPrimary(r, slot, wp) == [r EXCEPT ![Primary] = [@ EXCEPT ![slot] = Hw(wp)]]

Installed(r, slot, wp) ==
    OnAlive(r, [t \in Thread |-> [s \in Slot |-> IF s = slot THEN Hw(wp) ELSE r[t][s]]])

(* resync_watchpoints_to_all_threads. *)
(* Mutant: nothing is pushed. *)
ResyncedNot(r, w) == r

Resynced(r, w) ==
    OnAlive(r, [t \in Thread |->
        [s \in Slot |-> IF s \in DOMAIN w /\ w[s].enabled THEN Hw(w[s]) ELSE r[t][s]]])

(* delete_watchpoint_at: register i is cleared, then every later entry goes *)
(* down by one, in the table and in the registers.  The register the last   *)
(* entry leaves is not cleared.                                             *)
Dropped(w, i) == [j \in 1 .. (Len(w) - 1) |-> IF j < i THEN w[j] ELSE w[j + 1]]

(* Mutant: the entries move, their registers stay. *)
ShiftedNot(r, w, i) ==
    OnAlive(r, [t \in Thread |-> [s \in Slot |-> IF s = i THEN Empty ELSE r[t][s]]])

Shifted(r, w, i) ==
    OnAlive(r, [t \in Thread |->
        [s \in Slot |-> IF i <= s /\ s < Len(w) THEN Hw(w[s + 1])
                        ELSE IF s = i THEN Empty
                        ELSE r[t][s]]])

(* "unwatch all" deletes from the last entry to the first. *)
Cleared(r, w) ==
    OnAlive(r, [t \in Thread |-> [s \in Slot |-> IF s \in DOMAIN w THEN Empty ELSE r[t][s]]])

Disabled(w) == [i \in DOMAIN w |-> [w[i] EXCEPT !.enabled = FALSE]]

NoRegisters == [t \in Thread |-> [s \in Slot |-> Empty]]
-------------------------------------------------------------------------------
(* The debuggee. *)
Runnable(t) == state = "RUNNING" /\ t \in Alive \ pend

(* The registers trap after an access that one of them covers. *)
Traps(t, p, write) ==
    \E s \in Slot : regs[t][s].place = p /\ (write \/ regs[t][s].mode = "access")

Access(t, p, write, v) ==
    /\ Runnable(t)
    /\ mem' = IF write THEN [mem EXCEPT ![p] = v] ELSE mem
    /\ pend' = IF Traps(t, p, write) THEN pend \cup {t} ELSE pend
    /\ UNCHANGED <<state, loc, cur, watches, life, regs>>

(* pthread_create gives a thread empty registers. *)
CreateThread(t, u) ==
    /\ Runnable(t)
    /\ life[u] = "unborn"
    /\ life' = [life EXCEPT ![u] = "alive"]
    /\ regs' = [regs EXCEPT ![u] = [s \in Slot |-> Empty]]
    /\ UNCHANGED <<state, loc, cur, watches, mem, pend>>

EndThread(t) ==
    /\ Runnable(t) /\ t # Primary
    /\ life' = [life EXCEPT ![t] = "gone"]
    /\ UNCHANGED <<state, loc, cur, watches, mem, regs, pend>>
-------------------------------------------------------------------------------
(* What a stop changes of the registers and of the debugger's own view. *)
View(r, w, c) == [regs |-> r, watches |-> w, cur |-> c]
Now == View(regs, watches, cur)
Become(m) == regs' = m.regs /\ watches' = m.watches /\ cur' = m.cur

(* find_watchpoint_hit: the first enabled entry whose value has changed. *)
Changed(w, i) == w[i].enabled /\ mem[w[i].place] # w[i].old
Hit(w, i) == Changed(w, i) /\ \A j \in DOMAIN w : Changed(w, j) => i <= j

(* report_watchpoint_hit, and "Stopped" where no value has changed. *)
Told(w) ==
    [i \in DOMAIN w |->
        IF Hit(w, i) THEN [w[i] EXCEPT !.old = mem[w[i].place]] ELSE w[i]]

(* report_stop: the registers of every thread are written again; then a     *)
(* breakpoint is reported on the thread that stands on it, or else a        *)
(* changed value on the current thread.  If that has ended nothing is.      *)
Reported ==
    LET r == Resynced(regs, watches)
    IN  {View(r, watches, t) : t \in Alive}
        \cup {View(r, IF life[cur] = "alive" THEN Told(watches) ELSE watches, cur)}

TakeStop == (pend' = pend \/ \E t \in pend : pend' = pend \ {t}) /\ UNCHANGED <<life, mem>>

Resume(wait) == state' = "RUNNING" /\ loc' = wait
Prompt == state' = "STOPPED" /\ loc' = "prompt"

(* No process: its threads and registers are gone, the entries disabled. *)
NoProcess ==
    /\ state' = "IDLE" /\ loc' = "prompt"
    /\ watches' = Disabled(watches)
    /\ life' = [t \in Thread |-> "unborn"]
    /\ mem' = [p \in Place |-> 0]
    /\ regs' = NoRegisters
    /\ pend' = {}
-------------------------------------------------------------------------------
(* cdbg_run: stop_debuggee, empty tables, a new process. *)
Run ==
    /\ loc = "prompt"
    /\ Resume("run")
    /\ cur' = Primary
    /\ watches' = <<>>
    /\ life' = [t \in Thread |-> IF t = Primary THEN "alive" ELSE "unborn"]
    /\ mem' = [p \in Place |-> 0]
    /\ regs' = NoRegisters
    /\ pend' = {}

RunStop ==
    /\ loc = "run" /\ TakeStop
    /\ Prompt
    /\ UNCHANGED <<cur, watches, regs>>

(* cdbg_continue, with or without a step off a lifted breakpoint.  The stop *)
(* of that step is looked at by nobody.                                     *)
Continue ==
    /\ loc = "prompt" /\ state = "STOPPED"
    /\ \E wait \in {"overcont", "cont"} : Resume(wait)
    /\ UNCHANGED <<cur, watches, life, mem, regs, pend>>

OverContStop ==
    /\ loc = "overcont" /\ TakeStop
    /\ Resume("cont")
    /\ UNCHANGED <<cur, watches, regs>>

Step ==
    /\ loc = "prompt" /\ state = "STOPPED" /\ cur = Primary
    /\ \E wait \in {"si", "line"} : Resume(wait)
    /\ UNCHANGED <<cur, watches, life, mem, regs, pend>>

ReportedStop ==
    /\ loc \in {"cont", "si"} /\ TakeStop
    /\ \E m \in Reported : Become(m)
    /\ Prompt

(* An iteration of step or next ends.  A breakpoint goes to report_stop, a  *)
(* changed value is reported, and else a new line ends the command or the   *)
(* loop goes on; the registers of new threads are written in report_stop    *)
(* only.  next reports a stop inside a call and goes on from there.         *)
LineStop ==
    /\ loc = "line" /\ TakeStop
    /\ \/ \E m \in Reported : Become(m) /\ Prompt
       \/ \E m \in {Now} \cup Reported :
            /\ Become(View(m.regs, Told(m.watches), m.cur))
            /\ \/ Prompt
               \/ Resume("line") /\ \A i \in DOMAIN m.watches : ~Changed(m.watches, i)

ProcessExit ==
    /\ loc \in Waits
    /\ NoProcess
    /\ cur' = cur

(* kill: stop_debuggee. *)
Kill ==
    /\ loc = "prompt" /\ state = "STOPPED"
    /\ NoProcess
    /\ cur' = Primary
-------------------------------------------------------------------------------
StillStopped == UNCHANGED <<state, loc, life, pend>>

(* Mutant: one entry more than there are registers. *)
TableFullLate == Len(watches) > MaxHw

TableFull == Len(watches) >= MaxHw

(* cmd_watch; the size has been settled, or the command has failed. *)
Watch(p, m) ==
    /\ loc = "prompt" /\ state = "STOPPED" /\ life[cur] = "alive"
    /\ ~TableFull
    /\ LET wp == [place |-> p, mode |-> m, old |-> mem[p], enabled |-> TRUE]
       IN  /\ regs' = Installed(regs, Len(watches) + 1, wp)
           /\ watches' = Append(watches, wp)
    /\ UNCHANGED <<mem, cur>>
    /\ StillStopped

(* cmd_unwatch with a number; several numbers are deleted from the highest  *)
(* on.  Without a process no thread is alive and only the table changes.    *)
Unwatch(i) ==
    /\ loc = "prompt"
    /\ regs' = Shifted(regs, watches, i)
    /\ watches' = Dropped(watches, i)
    /\ UNCHANGED <<mem, cur>>
    /\ StillStopped

UnwatchAll ==
    /\ loc = "prompt" /\ watches # <<>>
    /\ regs' = Cleared(regs, watches)
    /\ watches' = <<>>
    /\ UNCHANGED <<mem, cur>>
    /\ StillStopped

(* "set x = v" writes the debuggee's memory and leaves old_value alone. *)
SetVar(p, v) ==
    /\ loc = "prompt" /\ state = "STOPPED"
    /\ mem' = [mem EXCEPT ![p] = v]
    /\ UNCHANGED <<regs, watches, cur>>
    /\ StillStopped

SelectThread(t) ==
    /\ loc = "prompt" /\ state = "STOPPED"
    /\ t \in Alive
    /\ cur' = t
    /\ UNCHANGED <<mem, regs, watches>>
    /\ StillStopped
-------------------------------------------------------------------------------
(* main has started the debuggee. *)
Init ==
    /\ state = "STOPPED" /\ loc = "prompt" /\ cur = Primary
    /\ watches = <<>>
    /\ life = [t \in Thread |-> IF t = Primary THEN "alive" ELSE "unborn"]
    /\ mem = [p \in Place |-> 0]
    /\ regs = NoRegisters
    /\ pend = {}

Debuggee ==
    \E t \in Thread :
        \/ \E p \in Place : \/ Access(t, p, FALSE, mem[p])
                            \/ \E v \in Value : Access(t, p, TRUE, v)
        \/ \E u \in Thread : CreateThread(t, u)
        \/ EndThread(t)

Next ==
    \/ Debuggee
    \/ Run \/ RunStop \/ Continue \/ OverContStop \/ Step
    \/ ReportedStop \/ LineStop \/ ProcessExit \/ Kill
    \/ \E p \in Place, m \in Mode : Watch(p, m)
    \/ \E i \in DOMAIN watches : Unwatch(i)
    \/ UnwatchAll
    \/ \E p \in Place, v \in Value : SetVar(p, v)
    \/ \E t \in Thread : SelectThread(t)

Spec == Init /\ [][Next]_vars
-------------------------------------------------------------------------------
(* A register that has the number of an entry of the table watches what the *)
(* entry says, or nothing yet: no thread traps for what another entry of    *)
(* the same number was.  unwatch renumbers entries on every thread, also on *)
(* one that has not been given them all, and watch may reuse a register     *)
(* that was left set.                                                       *)
NoWrongSlot ==
    \A t \in Alive, i \in DOMAIN watches :
        regs[t][i] \in {Empty, Hw(watches[i])}

Covered(t) == \A i \in DOMAIN watches : regs[t][i] = Hw(watches[i])

(* A thread that watches every entry of the table goes on doing so, through *)
(* watch, unwatch, run and every stop: unwatch never leaves a hole.         *)
CoverageKept ==
    [][(\A t \in Alive : Covered(t) => Covered(t)' \/ life'[t] # "alive")]_vars

(* After a stop of continue or si every thread there is watches every entry,*)
(* whenever it was created.                                                 *)
ReportCovers ==
    [][(loc \in {"cont", "si"} /\ loc' = "prompt" /\ state' = "STOPPED" =>
         \A t \in Alive : Covered(t)')]_vars

(* When everything has been unwatched nothing traps any more. *)
NothingLeft ==
    watches = <<>> => \A t \in Alive, s \in Slot : regs[t][s] = Empty

(* The stop of a changed value is reported on the thread whose access has    *)
(* trapped.                                                                 *)
HitNamesWriter ==
    [][(\A t \in pend :
           loc = "cont" /\ loc' = "prompt" /\ state' = "STOPPED"
           /\ pend' = pend \ {t} /\ watches' # watches
           => cur' = t)]_vars
===============================================================================
