------------------------------ MODULE Breakpoint ------------------------------
(***************************************************************************)
(* Software breakpoints: src/src/breakpoint.c and the scans of the         *)
(* breakpoint table in src/src/debugger.c.                                 *)
(*                                                                         *)
(* The text segment is a function "code" from instruction addresses to the *)
(* byte found there: the program's own byte or the trap byte.  A           *)
(* breakpoint remembers the byte it replaced, which is the trap byte when  *)
(* another breakpoint was already planted at the same address.             *)
(***************************************************************************)
EXTENDS Naturals, Sequences

CONSTANT Insn     (* addresses at which an instruction of the debuggee starts *)

ASSUME InsnAssumption == Insn \subseteq Nat \ {0}

Byte == {"orig", "trap"}
Bp == [addr : Insn, saved : Byte, enabled : BOOLEAN]
-------------------------------------------------------------------------------
(* One byte of the text is written. *)
Put(code, a, byte) == [b \in Insn |-> IF b = a THEN byte ELSE code[b]]

(* cdbg_bp_enable: read the byte, remember it, write the trap. *)
BpAt(code, a) == [addr |-> a, saved |-> code[a], enabled |-> TRUE]
(* Mutant: the byte is saved, the trap is not written. *)
PlantedNot(code, a) == code

Planted(code, a) == Put(code, a, "trap")

(* cdbg_bp_disable: write the saved byte back; nothing if it is disabled. *)
Restored(code, bp) ==
    IF bp.enabled THEN Put(code, bp.addr, bp.saved) ELSE code

(* Mutant: the whole entry is cleared. *)
LiftedCleared(bps, i) ==
    [j \in DOMAIN bps |-> IF j = i THEN [bps[j] EXCEPT !.enabled = FALSE, !.addr = 0]
                          ELSE bps[j]]

Lifted(bps, i) ==
    [j \in DOMAIN bps |-> IF j = i THEN [bps[j] EXCEPT !.enabled = FALSE] ELSE bps[j]]

(* cdbg_bp_matches_pc on x86_64: INT3 leaves the pc one byte past the trap, *)
(* where the next instruction starts if the trapped one is one byte long.   *)
(* Mutant: two bytes past the trap is a hit as well. *)
MatchesTwo(pc, bp) == bp.enabled /\ pc \in {bp.addr + 1, bp.addr + 2}

Matches(pc, bp) == bp.enabled /\ pc = bp.addr + 1

(* cdbg_bp_is_trap *)
IsTrap(pc, bps) == \E i \in DOMAIN bps : Matches(pc, bps[i])

(* The entry report_stop picks: the first one of the table that matches. *)
FirstMatch(pc, bps) ==
    CHOOSE i \in DOMAIN bps :
        /\ Matches(pc, bps[i])
        /\ \A j \in DOMAIN bps : Matches(pc, bps[j]) => i <= j

(* disabled_breakpoint_at_pc *)
DisabledAt(pc, bps) == \E i \in DOMAIN bps : ~bps[i].enabled /\ bps[i].addr = pc
-------------------------------------------------------------------------------
(* reenable_breakpoints_after_step: every disabled breakpoint that the     *)
(* current thread is not standing on is enabled again, in table order, so  *)
(* of two at one address the second saves the trap the first has planted.  *)
Revived(bps, pc, i) == ~bps[i].enabled /\ bps[i].addr # pc

ReenabledCode(code, bps, pc) ==
    [a \in Insn |->
        IF \E i \in DOMAIN bps : Revived(bps, pc, i) /\ bps[i].addr = a
        THEN "trap" ELSE code[a]]

ReenabledBps(code, bps, pc) ==
    [i \in DOMAIN bps |->
        IF ~Revived(bps, pc, i) THEN bps[i]
        ELSE [addr |-> bps[i].addr, enabled |-> TRUE,
              saved |-> IF \E j \in DOMAIN bps :
                               j < i /\ Revived(bps, pc, j) /\ bps[j].addr = bps[i].addr
                        THEN "trap" ELSE code[bps[i].addr]]]

(* delete_breakpoint_at: the later entries move down by one. *)
Deleted(bps, i) ==
    [j \in 1 .. (Len(bps) - 1) |-> IF j < i THEN bps[j] ELSE bps[j + 1]]

(* "del all" deletes from the last entry to the first, so at each address  *)
(* the byte that remains is the one the lowest enabled entry had saved.    *)
(* Mutant: the entries go and their traps stay. *)
AllRestoredNot(code, bps) == code

AllRestored(code, bps) ==
    [a \in Insn |->
        LET here == {i \in DOMAIN bps : bps[i].enabled /\ bps[i].addr = a}
        IN  IF here = {} THEN code[a]
            ELSE bps[CHOOSE i \in here : \A j \in here : i <= j].saved]

(* stop_debuggee, report_process_exit: the process and its traps are gone. *)
AllDisabled(bps) == [i \in DOMAIN bps |-> [bps[i] EXCEPT !.enabled = FALSE]]

(* cdbg_run: those of the saved specs that cmd_break can set again in the   *)
(* new process, in the order of the table.  An address is one of the image: *)
(* where the image lies, and that a spec resolves to the same place in it,  *)
(* is the part of LineTable.                                                *)
SomeOf(specs) ==
    {s \in UNION {[1 .. n -> {specs[i] : i \in DOMAIN specs}] : n \in 0 .. Len(specs)} :
        \E f \in [DOMAIN s -> DOMAIN specs] :
            \A i \in DOMAIN s : /\ s[i] = specs[f[i]]
                               /\ \A j \in DOMAIN s : i < j => f[i] < f[j]}

ReplantedCode(specs) ==
    [a \in Insn |-> IF \E i \in DOMAIN specs : specs[i] = a THEN "trap" ELSE "orig"]

ReplantedBps(specs) ==
    [i \in DOMAIN specs |->
        [addr |-> specs[i], enabled |-> TRUE,
         saved |-> IF \E j \in DOMAIN specs : j < i /\ specs[j] = specs[i]
                   THEN "trap" ELSE "orig"]]
===============================================================================
