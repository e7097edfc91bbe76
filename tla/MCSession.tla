------------------------------- MODULE MCSession -------------------------------
(***************************************************************************)
(* Two small debuggees for TLC.                                            *)
(***************************************************************************)
EXTENDS SessionProperties

(* One thread.  main: 10 prologue, 20 a statement, 22 a call of f, which    *)
(* returns to 27, which may go back to 20; 30 the end.  f: 40, and 43,      *)
(* which has no line.                                                       *)
Insn1 == {10, 20, 22, 27, 30, 40, 43}
Succ1 == [a \in Insn1 |->
    CASE a = 10 -> {20} [] a = 20 -> {22} [] a = 22 -> {40} [] a = 27 -> {20, 30}
      [] a = 30 -> {} [] a = 40 -> {43} [] a = 43 -> {27}]
Line1 == [a \in Insn1 |->
    CASE a = 10 -> 1 [] a = 20 -> 2 [] a = 22 -> 3 [] a = 27 -> 3
      [] a = 30 -> 4 [] a = 40 -> 5 [] a = 43 -> 0]
CallRet1 == [a \in Insn1 |-> IF a = 22 THEN 27 ELSE 0]
OneThread == {0}
Callee1 == {40, 43}
BreakAt1 == {20, 22, 27, 40}
Nowhere == {}

(* The same with a loop at 27 on its line; a constructor at 10 may end the  *)
(* process before main.                                                     *)
Succ1Loop == [Succ1 EXCEPT ![10] = {20, 30}, ![27] = {20, 27, 30}]
BreakAtCallee1 == {40}
BreakAtExit1 == {30}

(* TC-02-06 of the test specification, for f.                               *)
NextStaysOut == [][EndsOutside(Callee1)]_vars

(* Two threads.  main: 10 prologue, 20 creates the worker, 30 calls 80,     *)
(* which returns to 40; 50 waits for the worker, 60 ends.  The worker       *)
(* loops at 70 and may end at 75.                                           *)
Insn2 == {10, 20, 30, 40, 50, 60, 70, 75, 80}
Succ2 == [a \in Insn2 |->
    CASE a = 10 -> {20} [] a = 20 -> {30} [] a = 30 -> {80} [] a = 80 -> {40}
      [] a = 40 -> {50} [] a = 50 -> {60} [] a = 60 -> {}
      [] a = 70 -> {70, 75} [] a = 75 -> {}]
Line2 == [a \in Insn2 |->
    CASE a = 10 -> 1 [] a = 20 -> 2 [] a = 30 -> 3 [] a = 40 -> 3 [] a = 50 -> 4
      [] a = 60 -> 5 [] a = 70 -> 6 [] a = 75 -> 6 [] a = 80 -> 0]
CallRet2 == [a \in Insn2 |-> IF a = 30 THEN 40 ELSE 0]
TwoThreads == {0, 1}
Creates2 == {20}
Joins2 == {50}
BreakAt2 == {40, 70}
BreakAtWorker2 == {70}
UpTargets2 == {40}
JumpTargets2 == {60}
===============================================================================
