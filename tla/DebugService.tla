------------------------------ MODULE DebugService ------------------------------
(***************************************************************************)
(* What a debugger of a single-threaded program promises, with no trap     *)
(* byte, no ptrace and no table in it.  The program executes one           *)
(* instruction after the other, from the one it stands on; a breakpoint is *)
(* a point it does not pass untold; and what stops a program that was told *)
(* to continue is a breakpoint or its end.                                 *)
(*                                                                         *)
(* "told" is the address of the breakpoint the user has been told of and   *)
(* the program still stands on: from there, and from there only, it may    *)
(* pass a point.                                                           *)
(***************************************************************************)
EXTENDS Naturals

CONSTANTS Insn,    (* instruction addresses                                  *)
          Succ,    (* Insn -> the addresses that may run next                *)
          Start    (* where a new process stands                             *)

VARIABLES proc,    (* the process: none, running or stopped                  *)
          goal,    (* what it runs for: main, cont or step                   *)
          where,   (* the instruction it stands on                           *)
          points,  (* addresses with a breakpoint                            *)
          told     (* the breakpoint the user was told of, 0 if none         *)

service == <<proc, goal, where, points, told>>

Init ==
    /\ proc = "running" /\ goal = "main"
    /\ where = Start /\ points = {} /\ told = 0

(* One instruction of the program; a point is passed only if it was told. *)
Exec ==
    /\ proc = "running"
    /\ where \in points => told = where
    /\ where' \in Succ[where]
    /\ told' = 0
    /\ UNCHANGED <<proc, goal, points>>

(* The program ran its last instruction. *)
End ==
    /\ proc = "running" /\ Succ[where] = {}
    /\ where \in points => told = where
    /\ proc' = "none" /\ goal' = "none" /\ where' = Start /\ told' = 0
    /\ points' = points

(* A stop is told if it is at a point; continue ends in no other.  run ends *)
(* where main's body starts, and does not tell of a point there.            *)
Tell == where \in points /\ told' = where

Stop ==
    /\ proc = "running"
    /\ Tell \/ (goal # "cont" /\ told' = told)
    /\ proc' = "stopped" /\ goal' = "none"
    /\ UNCHANGED <<where, points>>

(* The user's commands. *)
Resume ==
    /\ proc = "stopped"
    /\ proc' = "running" /\ goal' \in {"cont", "step"}
    /\ UNCHANGED <<where, points, told>>

Break ==
    /\ proc = "stopped"
    /\ \E a \in Insn \ points : points' = points \cup {a}
    /\ UNCHANGED <<proc, goal, where, told>>

Delete ==
    /\ proc # "running"
    /\ points' \in SUBSET points
    /\ told' = IF told \in points' THEN told ELSE 0
    /\ UNCHANGED <<proc, goal, where>>

Launch ==
    /\ proc # "running"
    /\ proc' = "running" /\ goal' = "main" /\ where' = Start /\ told' = 0
    /\ points' = points

Kill ==
    /\ proc = "stopped"
    /\ proc' = "none" /\ where' = Start /\ told' = 0
    /\ UNCHANGED <<goal, points>>

Next == Exec \/ End \/ Stop \/ Resume \/ Break \/ Delete \/ Launch \/ Kill

Spec == Init /\ [][Next]_service
===============================================================================
