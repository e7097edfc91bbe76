----------------------------- MODULE SessionProofs -----------------------------
(***************************************************************************)
(* Proofs about the breakpoint table's operators, for every text and every *)
(* table, and about module Session for every program, thread set,          *)
(* breakpoint table and bound: its types, the balance of the suspend       *)
(* counts, and that a step is armed on a thread that runs, alone.          *)
(***************************************************************************)
EXTENDS SessionProperties, SequenceTheorems, WellFoundedInduction, TLAPS

(***************************************************************************)
(* Breakpoint.                                                             *)
(***************************************************************************)
Text == [Insn -> Byte]
Table == Seq(Bp)
-------------------------------------------------------------------------------
(* Smaller on the natural numbers, as a relation. *)
Below == {p \in Nat \X Nat : p[1] < p[2]}

(* A set of numbers has a least one: a scan from the front finds the entry   *)
(* or the thread it looks for.                                               *)
LEMMA NatMin ==
    ASSUME NEW S, S \subseteq Nat, S # {}
    PROVE  \E x \in S : \A y \in S : x <= y
<1>1. IsWellFoundedOn(Below, Nat)
  BY NatLessThanWellFounded DEF OpToRel, Below
<1>2. \E x \in S : \A y \in S : <<y, x>> \notin Below
  BY <1>1, WFMin
<1>3. PICK x \in S : \A y \in S : <<y, x>> \notin Below
  BY <1>2
<1>4. \A y \in S : ~(y < x)
  BY <1>3 DEF Below
<1>5. QED
  BY <1>4

(* A table rebuilt entry by entry is a table. *)
LEMMA TableType ==
    ASSUME NEW S, NEW n \in Nat, NEW f \in [1 .. n -> S]
    PROVE  f \in Seq(S)
BY SeqDef

(* The domain of a table, and what is found in it. *)
LEMMA TableEntries ==
    ASSUME NEW table \in Table
    PROVE  /\ Len(table) \in Nat
           /\ DOMAIN table = 1 .. Len(table)
           /\ \A i \in DOMAIN table : /\ table[i] \in Bp
                                      /\ table[i].addr \in Insn
                                      /\ table[i].saved \in Byte
                                      /\ table[i].enabled \in BOOLEAN
<1>1. table \in Seq(Bp)
  BY DEF Table
<1>2. Len(table) \in Nat /\ DOMAIN table = 1 .. Len(table)
  BY <1>1, LenProperties
<1>3. \A i \in DOMAIN table : table[i] \in Bp
  BY <1>1, <1>2, ElementOfSeq
<1>4. QED
  BY <1>2, <1>3 DEF Bp

(* report_stop's scan finds an entry of the table if one matches. *)
LEMMA FirstMatchIn ==
    ASSUME NEW p, NEW table \in Table, IsTrap(p, table)
    PROVE  /\ FirstMatch(p, table) \in DOMAIN table
           /\ Matches(p, table[FirstMatch(p, table)])
<1> DEFINE M == {i \in DOMAIN table : Matches(p, table[i])}
<1>1. M # {} /\ M \subseteq Nat
  BY TableEntries DEF IsTrap
<1>2. \E i \in M : \A j \in M : i <= j
  BY <1>1, NatMin
<1>3. \E i \in DOMAIN table :
         /\ Matches(p, table[i])
         /\ \A j \in DOMAIN table : Matches(p, table[j]) => i <= j
  BY <1>2
<1>4. QED
  BY <1>3 DEF FirstMatch
-------------------------------------------------------------------------------
(* One byte written. *)
LEMMA PutType ==
    ASSUME NEW text \in Text, NEW a, NEW byte \in Byte
    PROVE  Put(text, a, byte) \in Text
BY DEF Put, Text

LEMMA PlantedType ==
    ASSUME NEW text \in Text, NEW a
    PROVE  Planted(text, a) \in Text
BY PutType DEF Planted, Byte

LEMMA RestoredType ==
    ASSUME NEW text \in Text, NEW bp, bp.saved \in Byte
    PROVE  Restored(text, bp) \in Text
BY PutType DEF Restored

LEMMA LiftedType ==
    ASSUME NEW table \in Table, NEW i
    PROVE  Lifted(table, i) \in Table
<1>1. \A j \in DOMAIN table : [table[j] EXCEPT !.enabled = FALSE] \in Bp
  BY TableEntries DEF Bp
<1>2. Lifted(table, i) \in [1 .. Len(table) -> Bp]
  BY <1>1, TableEntries DEF Lifted
<1>3. QED
  BY <1>2, TableEntries, TableType DEF Table

(* reenable_breakpoints_after_step. *)
LEMMA ReenabledType ==
    ASSUME NEW text \in Text, NEW table \in Table, NEW p
    PROVE  /\ ReenabledCode(text, table, p) \in Text
           /\ ReenabledBps(text, table, p) \in Table
<1>1. ReenabledCode(text, table, p) \in Text
  BY DEF ReenabledCode, Text, Byte
<1>2. \A i \in DOMAIN table : text[table[i].addr] \in Byte
  BY TableEntries DEF Text
<1>3. ReenabledBps(text, table, p) \in [1 .. Len(table) -> Bp]
  BY <1>2, TableEntries DEF ReenabledBps, Bp, Byte
<1>4. QED
  BY <1>1, <1>3, TableEntries, TableType DEF Table

(* delete_breakpoint_at and "del all". *)
LEMMA DeletedType ==
    ASSUME NEW table \in Table, NEW i \in DOMAIN table
    PROVE  Deleted(table, i) \in Table
<1>1. Len(table) - 1 \in Nat
  BY TableEntries
<1>2. \A j \in 1 .. (Len(table) - 1) : j \in DOMAIN table /\ j + 1 \in DOMAIN table
  BY TableEntries
<1>3. Deleted(table, i) \in [1 .. (Len(table) - 1) -> Bp]
  BY <1>2, TableEntries DEF Deleted
<1>4. QED
  BY <1>1, <1>3, TableType DEF Table

LEMMA AllRestoredType ==
    ASSUME NEW text \in Text, NEW table \in Table
    PROVE  AllRestored(text, table) \in Text
<1> DEFINE Here(a) == {i \in DOMAIN table : table[i].enabled /\ table[i].addr = a}
<1> DEFINE First(a) == CHOOSE i \in Here(a) : \A j \in Here(a) : i <= j
<1>1. ASSUME NEW a \in Insn, Here(a) # {}
      PROVE  First(a) \in DOMAIN table
  <2>1. Here(a) \subseteq Nat
    BY TableEntries
  <2>2. \E i \in Here(a) : \A j \in Here(a) : i <= j
    BY <1>1, <2>1, NatMin
  <2>3. First(a) \in Here(a)
    BY <2>2
  <2>4. QED
    BY <2>3
<1>2. ASSUME NEW a \in Insn
      PROVE  (IF Here(a) = {} THEN text[a] ELSE table[First(a)].saved) \in Byte
  BY <1>1, TableEntries DEF Text
<1> HIDE DEF First
<1>3. [a \in Insn |-> IF Here(a) = {} THEN text[a] ELSE table[First(a)].saved] \in Text
  BY <1>2 DEF Text
<1>4. QED
  BY <1>3 DEF AllRestored, First

LEMMA AllDisabledType ==
    ASSUME NEW table \in Table
    PROVE  AllDisabled(table) \in Table
<1>1. \A j \in DOMAIN table : [table[j] EXCEPT !.enabled = FALSE] \in Bp
  BY TableEntries DEF Bp
<1>2. AllDisabled(table) \in [1 .. Len(table) -> Bp]
  BY <1>1, TableEntries DEF AllDisabled
<1>3. QED
  BY <1>2, TableEntries, TableType DEF Table

(* cdbg_run's second pass through cmd_break. *)
LEMMA ReplantedType ==
    ASSUME NEW specs \in Seq(Insn)
    PROVE  ReplantedCode(specs) \in Text /\ ReplantedBps(specs) \in Table
<1>1. Len(specs) \in Nat /\ DOMAIN specs = 1 .. Len(specs)
      /\ \A i \in DOMAIN specs : specs[i] \in Insn
  BY LenProperties, ElementOfSeq
<1>2. ReplantedCode(specs) \in Text
  BY DEF ReplantedCode, Text, Byte
<1>3. ReplantedBps(specs) \in [1 .. Len(specs) -> Bp]
  BY <1>1 DEF ReplantedBps, Bp, Byte
<1>4. QED
  BY <1>1, <1>2, <1>3, TableType DEF Table
-------------------------------------------------------------------------------
(* cdbg_bp_enable and cdbg_bp_disable are inverse: a breakpoint that is set  *)
(* and taken away leaves the text as it was.                                 *)
THEOREM DisableUndoesEnable ==
    ASSUME NEW text \in Text, NEW a \in Insn
    PROVE  Restored(Planted(text, a), BpAt(text, a)) = text
<1>1. Restored(Planted(text, a), BpAt(text, a)) = Put(Put(text, a, "trap"), a, text[a])
  BY DEF Restored, Planted, BpAt
<1>2. QED
  BY <1>1 DEF Put, Text

(* Every enabled breakpoint of the table has its trap in the text. *)
Armed(text, table) ==
    \A i \in DOMAIN table : table[i].enabled => text[table[i].addr] = "trap"

(* reenable_breakpoints_after_step arms the table but for what the thread    *)
(* stands on: whatever was lifted before, an entry that is still disabled    *)
(* afterwards is one at the pc, so a pc off every breakpoint leaves none     *)
(* unarmed.                                                                  *)
THEOREM ReenableArmsTheRest ==
    ASSUME NEW text \in Text, NEW table \in Table, NEW p, Armed(text, table)
    PROVE  /\ Armed(ReenabledCode(text, table, p), ReenabledBps(text, table, p))
           /\ \A i \in DOMAIN table :
                 ReenabledBps(text, table, p)[i].enabled \/ table[i].addr = p
<1> DEFINE new == ReenabledBps(text, table, p)
<1>1. DOMAIN new = DOMAIN table
  BY DEF ReenabledBps
<1>2. \A i \in DOMAIN table :
         /\ Revived(table, p, i) => new[i].enabled /\ new[i].addr = table[i].addr
         /\ ~Revived(table, p, i) => new[i] = table[i]
  BY DEF ReenabledBps
<1>3. \A i \in DOMAIN table :
         ReenabledCode(text, table, p)[table[i].addr] =
             IF \E j \in DOMAIN table :
                    Revived(table, p, j) /\ table[j].addr = table[i].addr
             THEN "trap" ELSE text[table[i].addr]
  BY TableEntries DEF ReenabledCode
<1> HIDE DEF new
<1>4. Armed(ReenabledCode(text, table, p), new)
  BY <1>1, <1>2, <1>3 DEF Armed
<1>5. \A i \in DOMAIN table : new[i].enabled \/ table[i].addr = p
  BY <1>2, TableEntries DEF Revived
<1>6. QED
  BY <1>4, <1>5 DEF new

(***************************************************************************)
(* Session.                                                                *)
(***************************************************************************)
Inv == TypeOK /\ SuspendBalance /\ Guarding
-------------------------------------------------------------------------------
(* What a handler passes on from one of its steps to the next. *)
View == [code : Text, bps : Table, pc : [Thread -> Nat], cur : Thread]

(* The state is such a record. *)
LEMMA NowType ==
    ASSUME TypeOK
    PROVE  Now \in View /\ Now.cur = cur /\ Now.pc = pc /\ Now.code = code /\ Now.bps = bps
BY DEF TypeOK, DebuggeeTypeOK, Now, View, Text, Table

(* cdbg_wait sets breakpoints again and moves no thread. *)
LEMMA WaitedType ==
    ASSUME TypeOK
    PROVE  Waited \in View /\ Waited.cur = cur
<1>1. code \in Text /\ bps \in Table /\ pc \in [Thread -> Nat] /\ cur \in Thread
  BY DEF TypeOK, DebuggeeTypeOK, Text, Table
<1>2. QED
  BY <1>1, ReenabledType DEF Waited, View

LEMMA DisarmedType ==
    ASSUME TypeOK, NEW m \in View
    PROVE  Disarmed(m) \in View /\ Disarmed(m).cur = m.cur
<1>1. m.code \in Text /\ temp.saved \in Byte
  BY DEF View, TypeOK
<1>2. Restored(m.code, temp) \in Text
  BY <1>1, RestoredType
<1>3. QED
  BY <1>2 DEF Disarmed, View

LEMMA RewoundType ==
    ASSUME NEW m \in View
    PROVE  Rewound(m) \in View
BY DEF Rewound, View

(* The scan over the threads ends on a thread. *)
LEMMA FocusedType ==
    ASSUME NEW m \in View
    PROVE  Focused(m) \in View
<1>1. Hitters(m) \subseteq Thread /\ Thread \subseteq Nat
  BY DebuggeeAssumption DEF Hitters, Alive
<1>2. ASSUME Hitters(m) # {}
      PROVE  Least(Hitters(m)) \in Thread
  <2>1. \E t \in Hitters(m) : \A u \in Hitters(m) : t <= u
    BY <1>1, <1>2, NatMin
  <2>2. QED
    BY <1>1, <2>1 DEF Least
<1>3. QED
  BY <1>2 DEF Focused, View

LEMMA HandledType ==
    ASSUME NEW m \in View, IsTrap(m.pc[m.cur], m.bps)
    PROVE  Handled(m) \in View
<1> DEFINE i == FirstMatch(m.pc[m.cur], m.bps)
<1>1. m.bps \in Table /\ m.code \in Text
  BY DEF View
<1>2. m.bps[i].saved \in Byte
  BY <1>1, FirstMatchIn, TableEntries
<1>3. Restored(m.code, m.bps[i]) \in Text
  BY <1>1, <1>2, RestoredType
<1>4. Lifted(m.bps, i) \in Table
  BY <1>1, LiftedType
<1> HIDE DEF i
<1>5. [m EXCEPT !.code = Restored(m.code, m.bps[i]), !.bps = Lifted(m.bps, i)] \in View
  BY <1>3, <1>4 DEF View
<1>6. QED
  BY <1>5, RewoundType DEF Handled, i

LEMMA ReportedType ==
    ASSUME NEW m \in View
    PROVE  Reported(m) \in View
BY FocusedType, HandledType DEF Reported

LEMMA AddressType ==
    ASSUME NEW a \in Insn \cup {0}
    PROVE  a \in Nat
BY InsnAssumption

LEMMA ReturnedType ==
    ASSUME TypeOK, NEW m \in View
    PROVE  Returned(m) \in View
<1>1. Disarmed(m) \in View
  BY DisarmedType
<1>2. temp.addr \in Insn \cup {0}
  BY DEF TypeOK
<1>3. temp.addr \in Nat
  BY <1>2, AddressType
<1>4. [m.pc EXCEPT ![m.cur] = temp.addr] \in [Thread -> Nat]
  BY <1>3 DEF View
<1>5. ASSUME NEW d \in View, NEW q \in [Thread -> Nat]
      PROVE  [d EXCEPT !.pc = q] \in View
  BY DEF View
<1>6. QED
  BY <1>1, <1>4, <1>5, ReportedType DEF Returned
-------------------------------------------------------------------------------
(* The four variables every command handles as a unit keep their types. *)
ViewTypeOK == code \in Text /\ bps \in Table /\ pc \in [Thread -> Nat] /\ cur \in Thread

LEMMA BecomeType ==
    ASSUME NEW m \in View, Become(m)
    PROVE  ViewTypeOK' /\ cur' = m.cur
BY DEF View, Become, ViewTypeOK

(* The suspend counts, where there is a process, and the guard's bounds. *)
Balanced ==
    /\ susp \in [Thread -> Nat] /\ lsusp \subseteq Thread /\ gsusp \subseteq Thread
    /\ lock \in BOOLEAN
    /\ \A t \in Thread : susp[t] = Count(t \in lsusp) + Count(t \in gsusp)
    /\ lock => gsusp = {}
    /\ ~lock => lsusp = {}
    /\ Primary \notin gsusp

LEMMA InvBalanced == Inv /\ state # "IDLE" => Balanced
BY DEF Inv, TypeOK, DebuggeeTypeOK, SuspendBalance, Guarding, Balanced

(* step_thread_guard_catch_up suspends only threads nobody holds, never the  *)
(* primary one; from the primary thread it leaves no other thread running.   *)
LEMMA CatchUpBalanced ==
    ASSUME Balanced, NEW c, CatchUp(c), UNCHANGED <<lock, lsusp>>
    PROVE  /\ Balanced'
           /\ c = Primary /\ ~lock => Alive \subseteq gsusp' \cup {Primary}
<1>1. NotGuarded(c) \subseteq Thread /\ Primary \notin NotGuarded(c)
      /\ NotGuarded(c) \cap gsusp = {} /\ (lock => NotGuarded(c) = {})
  BY DEF NotGuarded, Alive
<1>2. ~lock => NotGuarded(c) = Alive \ ({Primary, c} \cup gsusp)
  BY DEF NotGuarded
<1>3. susp' \in [Thread -> Nat] /\ gsusp' \subseteq Thread
  BY <1>1 DEF Balanced, CatchUp
<1>4. \A t \in Thread : susp'[t] = Count(t \in lsusp') + Count(t \in gsusp')
  BY <1>1, <1>2 DEF Balanced, CatchUp, Count
<1>5. QED
  BY <1>1, <1>2, <1>3, <1>4 DEF Balanced, CatchUp

(* step_thread_guard_end gives back what the guard took. *)
LEMMA ReleaseBalanced ==
    ASSUME Balanced, ReleaseGuard, UNCHANGED <<lock, lsusp>>
    PROVE  Balanced' /\ gsusp' = {}
BY DEF Balanced, ReleaseGuard, Count
-------------------------------------------------------------------------------
(* The types of the variables that are not in a View or in Balanced. *)
RestTypeOK ==
    /\ life \in [Thread -> {"unborn", "alive", "gone"}]
    /\ mode \in {"stopped", "exec", "cont", "step", "wedged"}
    /\ pend \subseteq Thread /\ sig \in BOOLEAN /\ dead \in BOOLEAN
    /\ state \in {"IDLE", "RUNNING", "STOPPED"}
    /\ loc \in Waits \cup {"prompt", "aborted", "exited"}
    /\ repl \in BOOLEAN
    /\ temp \in [addr : Insn \cup {0}, saved : Byte, enabled : BOOLEAN]
    /\ origin \in Nat /\ iter \in Nat
    /\ saved \in Seq(Insn)

LEMMA InvParts ==
    /\ Inv => ViewTypeOK /\ RestTypeOK /\ Guarding
    /\ ViewTypeOK /\ RestTypeOK /\ Balanced /\ Guarding => Inv
<1>1. Inv => ViewTypeOK /\ RestTypeOK /\ Guarding
  BY DEF Inv, TypeOK, DebuggeeTypeOK, ViewTypeOK, RestTypeOK, Text, Table
<1>2. ViewTypeOK /\ RestTypeOK /\ Balanced => TypeOK
  BY DEF TypeOK, DebuggeeTypeOK, ViewTypeOK, RestTypeOK, Balanced, Text, Table
<1>3. Balanced /\ Guarding => SuspendBalance
  BY DEF Balanced, SuspendBalance, Guarding, LoopWaits
<1>4. QED
  BY <1>1, <1>2, <1>3 DEF Inv

LEMMA InvPartsNext ==
    ViewTypeOK' /\ RestTypeOK' /\ Balanced' /\ Guarding' => Inv'
BY InvParts, PTL

(* What a handler leaves alone of the debuggee when it has taken a stop. *)
Taken == /\ pend' \subseteq pend /\ sig' \in BOOLEAN
         /\ UNCHANGED <<life, dead>>

LEMMA TakeStopTaken == Inv /\ TakeStop => Taken
BY DEF Inv, TypeOK, DebuggeeTypeOK, TakeStop, Taken

LEMMA NoTempType == NoTemp \in [addr : Insn \cup {0}, saved : Byte, enabled : BOOLEAN]
BY DEF NoTemp, Byte

(* The head of an iteration of step, of next, and of a call below next. *)
LEMMA StepHeadInv ==
    ASSUME Inv, state # "IDLE", Taken, UNCHANGED <<repl, lock, lsusp, saved>>,
           origin' \in Nat, iter' \in Nat,
           NEW m \in View, m.cur = Primary, StepHead(m)
    PROVE  Inv'
<1>1. Balanced
  BY InvBalanced
<1>2. Balanced' /\ (~lock => Alive \subseteq gsusp' \cup {Primary})
  BY <1>1, CatchUpBalanced DEF StepHead
<1>3. ViewTypeOK' /\ cur' = Primary
  BY BecomeType DEF StepHead
<1>4. RestTypeOK'
  BY InvParts, NoTempType DEF StepHead, Resume, RestTypeOK, Taken, Waits, LoopWaits
<1>5. Guarding'
  BY <1>2, <1>3
  DEF StepHead, Resume, Guarding, Balanced, Waits, LoopWaits, Taken, Alive, Unguarded
<1>6. QED
  BY <1>2, <1>3, <1>4, <1>5, InvPartsNext

LEMMA ResumeFromHow ==
    ASSUME NEW m, NEW over, NEW wait, ResumeFrom(m, over, wait)
    PROVE  /\ mode' \in {"cont", "step", "wedged"} /\ state' = "RUNNING"
           /\ loc' \in {over, wait} /\ (mode' = "cont" \/ loc' = over)
           /\ m.cur = Primary => mode' # "wedged"
BY DEF ResumeFrom, Resume, ResumeStep

(* call_return_address returns an address of the text, or none. *)
LEMMA CallType ==
    ASSUME NEW m \in View, AtCall(m)
    PROVE  CallRet[m.pc[m.cur]] \in Insn
BY SessionAssumption DEF AtCall

LEMMA NextHeadInv ==
    ASSUME Inv, state # "IDLE", Taken, UNCHANGED <<repl, lock, lsusp, saved>>,
           origin' \in Nat, iter' \in Nat,
           NEW m \in View, NextHead(m)
    PROVE  Inv'
<1>1. Balanced
  BY InvBalanced
<1>2. Balanced' /\ (m.cur = Primary /\ ~lock => Alive \subseteq gsusp' \cup {Primary})
  BY <1>1, CatchUpBalanced DEF NextHead
<1>3. CASE AtCall(m)
  <2> DEFINE ret == CallRet[m.pc[m.cur]]
  <2>1. ret \in Insn /\ m.code \in Text
    BY <1>3, CallType DEF View
  <2>2. Planted(m.code, ret) \in Text
    BY <2>1, PlantedType
  <2> HIDE DEF ret
  <2>3. [m EXCEPT !.code = Planted(m.code, ret)] \in View
    BY <2>2 DEF View
  <2>4. Become([m EXCEPT !.code = Planted(m.code, ret)])
        /\ temp' = BpAt(m.code, ret) /\ ResumeFrom(m, "overcall", "call")
    BY <1>3 DEF NextHead, ret
  <2>5. ViewTypeOK'
    BY <2>3, <2>4, BecomeType
  <2>6. /\ mode' \in {"cont", "step", "wedged"} /\ state' = "RUNNING"
        /\ loc' \in {"overcall", "call"}
        /\ m.cur = Primary => mode' # "wedged"
    BY <2>4, ResumeFromHow
  <2>7. cur' = m.cur
    BY <2>4 DEF Become
  <2>8. temp' \in [addr : Insn \cup {0}, saved : Byte, enabled : BOOLEAN]
    BY <2>1, <2>4 DEF BpAt, Text
  <2>9. RestTypeOK'
    BY <2>6, <2>8, InvParts DEF RestTypeOK, Taken, Waits, LoopWaits
  <2>10. Guarding'
    BY <1>2, <2>6, <2>7 DEF Guarding, Balanced, Waits, LoopWaits, Unguarded, Alive, Taken
  <2>11. QED
    BY <1>2, <2>5, <2>9, <2>10, InvPartsNext
<1>4. CASE ~AtCall(m)
  <2>1. Become(m) /\ temp' = NoTemp /\ ResumeStep(m.cur, "next")
    BY <1>4 DEF NextHead
  <2>2. ViewTypeOK' /\ cur' = m.cur
    BY <2>1, BecomeType
  <2>3. RestTypeOK'
    BY <2>1, InvParts, NoTempType DEF ResumeStep, Resume, RestTypeOK, Taken, Waits, LoopWaits
  <2>4. Guarding'
    BY <1>2, <2>1, <2>2
    DEF ResumeStep, Resume, Guarding, Balanced, Waits, LoopWaits, Unguarded, Alive, Taken
  <2>5. QED
    BY <1>2, <2>2, <2>3, <2>4, InvPartsNext
<1>5. QED
  BY <1>3, <1>4

LEMMA LoopHeadInv ==
    ASSUME Inv, state # "IDLE", Taken, UNCHANGED <<repl, lock, lsusp, saved>>,
           origin' \in Nat, iter' \in Nat,
           NEW m \in View, NEW kind, kind = "step" => m.cur = Primary, LoopHead(kind, m)
    PROVE  Inv'
BY StepHeadInv, NextHeadInv DEF LoopHead

(* Back at the prompt, or giving up, with no guard held. *)
LEMMA RestInv ==
    ASSUME Inv, Balanced', gsusp' = {}, ViewTypeOK', Taken,
           UNCHANGED <<repl, saved>>, origin' \in Nat, iter' \in Nat,
           temp' \in {temp, NoTemp},
           state' = "STOPPED", mode' = "stopped", loc' \in {"prompt", "aborted"}
    PROVE  Inv'
<1>1. RestTypeOK'
  BY InvParts, NoTempType DEF RestTypeOK, Taken
<1>2. Guarding'
  BY DEF Guarding, Waits, LoopWaits
<1>3. QED
  BY <1>1, <1>2, InvPartsNext

LEMMA PromptInv ==
    ASSUME Inv, Balanced', gsusp' = {}, Taken, UNCHANGED <<repl, saved>>,
           origin' \in Nat, iter' \in Nat, NEW m \in View, Prompt(m)
    PROVE  Inv'
<1>1. ViewTypeOK'
  BY BecomeType DEF Prompt
<1>2. QED
  BY <1>1, RestInv DEF Prompt

(* The rest of an iteration. *)
LEMMA LoopTailInv ==
    ASSUME Inv, state # "IDLE", Taken, NEW m \in View, NEW kind,
           kind = "step" => m.cur = Primary, LoopTail(m, kind)
    PROVE  Inv'
<1>1. Balanced /\ origin \in Nat /\ iter \in Nat
  BY InvBalanced, InvParts DEF RestTypeOK
<1>2. UNCHANGED <<repl, lock, lsusp, origin, saved>>
  BY DEF LoopTail
<1>3. CASE LoopEnds(m) /\ ReleaseGuard /\ iter' = iter
  <2>1. Balanced' /\ gsusp' = {}
    BY <1>1, <1>2, <1>3, ReleaseBalanced
  <2>2. PICK n \in {m, Reported(m)} : Prompt(n)
    BY <1>3 DEF LoopEnds
  <2>3. n \in View
    BY ReportedType
  <2>4. QED
    BY <1>1, <1>2, <1>3, <2>1, <2>2, <2>3, PromptInv
<1>4. CASE Abort /\ Become(m) /\ temp' = NoTemp /\ ReleaseGuard /\ iter' = iter
  <2>1. Balanced' /\ gsusp' = {}
    BY <1>1, <1>2, <1>4, ReleaseBalanced
  <2>2. ViewTypeOK'
    BY <1>4, BecomeType
  <2>3. QED
    BY <1>1, <1>2, <1>4, <2>1, <2>2, RestInv DEF Abort
<1>5. CASE LoopHead(kind, m) /\ iter' = iter + 1
  <2>1. origin' \in Nat /\ iter' \in Nat
    BY <1>1, <1>2, <1>5
  <2>2. QED
    BY <1>2, <1>5, <2>1, LoopHeadInv
<1>6. QED
  BY <1>3, <1>4, <1>5 DEF LoopTail
-------------------------------------------------------------------------------
(* The process is gone: every suspend count is zero whatever "lock" says.    *)
LEMMA NoProcessInv ==
    ASSUME Inv, NoProcess, loc' \in {"prompt", "aborted", "exited"},
           cur' \in Thread, lock' \in BOOLEAN, lsusp' \subseteq Thread,
           ~lock' => lsusp' = {}, repl' \in BOOLEAN, saved' \in Seq(Insn),
           UNCHANGED Stepping
    PROVE  Inv'
<1>1. code' \in Text /\ pc' \in [Thread -> Nat] /\ susp' \in [Thread -> Nat]
  BY InsnAssumption, DebuggeeAssumption DEF NoProcess, Reaped, Fresh, Text, Byte
<1>2. bps' \in Table
  BY InvParts, AllDisabledType DEF NoProcess, ViewTypeOK
<1>3. /\ life' \in [Thread -> {"unborn", "alive", "gone"}]
      /\ mode' = "stopped" /\ pend' = {} /\ sig' = FALSE /\ dead' = FALSE
      /\ state' = "IDLE" /\ gsusp' = {} /\ temp' = NoTemp
  BY DEF NoProcess, Reaped, Fresh
<1>4. origin' \in Nat /\ iter' \in Nat
  BY InvParts DEF RestTypeOK, Stepping
<1>5. TypeOK'
  <2>1. DebuggeeTypeOK'
    BY <1>1, <1>3 DEF DebuggeeTypeOK, Text
  <2>2. QED
    BY <1>2, <1>3, <1>4, <2>1, NoTempType DEF TypeOK, Table
<1>6. SuspendBalance' /\ Guarding'
  BY <1>3 DEF SuspendBalance, Guarding, Waits, LoopWaits
<1>7. QED
  BY <1>5, <1>6 DEF Inv

(* cdbg_run forgets the old process, its locks and its guards. *)
LEMMA RunInv == Inv /\ Run => Inv'
<1> SUFFICES ASSUME Inv, Run PROVE Inv'
  OBVIOUS
<1>1. code' \in Text /\ pc' \in [Thread -> Nat] /\ cur' \in Thread
  BY InsnAssumption, DebuggeeAssumption DEF Run, Launch, Spawned, Fresh, Text, Byte
<1>2. bps' \in Table
  BY EmptySeq DEF Run, Launch, Table
<1>3. saved' \in Seq(Insn)
  <2>1. Len(bps) \in Nat /\ [i \in DOMAIN bps |-> bps[i].addr] \in [1 .. Len(bps) -> Insn]
    BY InvParts, TableEntries DEF ViewTypeOK
  <2>2. QED
    BY <2>1, TableType DEF Run, Launch
<1>4. ViewTypeOK'
  BY <1>1, <1>2 DEF ViewTypeOK
<1>5. RestTypeOK'
  BY <1>3, InvParts, NoTempType
  DEF Run, Launch, Spawned, Fresh, RestTypeOK, Stepping, Waits
<1>6. Balanced'
  <2>1. susp' = [t \in Thread |-> 0] /\ lsusp' = {} /\ gsusp' = {} /\ lock' = FALSE
    BY DEF Run, Launch, Spawned, Fresh
  <2>2. \A t \in Thread : susp'[t] = Count(t \in lsusp') + Count(t \in gsusp')
    BY <2>1 DEF Count
  <2>3. susp' \in [Thread -> Nat]
    BY <2>1
  <2>4. QED
    BY <2>1, <2>2, <2>3 DEF Balanced
<1>7. Guarding'
  BY DEF Run, Launch, Spawned, Guarding, Waits, LoopWaits
<1>8. QED
  BY <1>4, <1>5, <1>6, <1>7, InvPartsNext

(* execv fails, or the process ends in the wait for main. *)
LEMMA RunFailsInv == Inv /\ (ExecFailed \/ EntryExit) => Inv'
<1> SUFFICES ASSUME Inv, ExecFailed \/ EntryExit PROVE Inv'
  OBVIOUS
<1>1. /\ NoProcess /\ UNCHANGED <<cur, lock, lsusp, Stepping>>
      /\ saved' \in {saved, <<>>} /\ RunReturns(FALSE)
  BY DEF ExecFailed, EntryExit
<1>2. loc' \in {"prompt", "aborted"} /\ repl' \in BOOLEAN
  BY <1>1, InvParts DEF RunReturns, RestTypeOK
<1>3. saved' \in Seq(Insn)
  BY <1>1, InvParts, EmptySeq DEF RestTypeOK
<1>4. cur' \in Thread /\ lock' \in BOOLEAN /\ lsusp' \subseteq Thread
      /\ (~lock' => lsusp' = {})
  BY <1>1 DEF Inv, TypeOK, SuspendBalance
<1>5. QED
  BY <1>1, <1>2, <1>3, <1>4, NoProcessInv

(* What cmd_break sets again is a table of addresses, whichever it fails on. *)
LEMMA SurvivingType ==
    ASSUME saved \in Seq(Insn), NEW specs \in Surviving
    PROVE  specs \in Seq(Insn)
<1>1. CASE specs = saved
  BY <1>1
<1>2. CASE specs \in SomeOf(saved)
  <2>1. Len(saved) \in Nat /\ DOMAIN saved = 1 .. Len(saved)
    BY LenProperties
  <2>2. \A i \in DOMAIN saved : saved[i] \in Insn
    BY <2>1, ElementOfSeq
  <2>3. PICK n \in 0 .. Len(saved) : specs \in [1 .. n -> {saved[i] : i \in DOMAIN saved}]
    BY <1>2 DEF SomeOf
  <2>4. n \in Nat /\ specs \in [1 .. n -> Insn]
    BY <2>1, <2>2, <2>3
  <2>5. QED
    BY <2>4, TableType
<1>3. QED
  BY <1>1, <1>2 DEF Surviving

(* The stop after exec. *)
LEMMA ExecStopInv == Inv /\ ExecStop => Inv'
<1> SUFFICES ASSUME Inv, ExecStop PROVE Inv'
  OBVIOUS
<1> PICK specs \in Surviving : Replant(specs)
  BY DEF ExecStop
<1> DEFINE planted == ReplantedCode(specs)
<1>1. state # "IDLE" /\ gsusp = {} /\ Balanced
  BY InvBalanced DEF Inv, ExecStop, Guarding, Waits, LoopWaits
<1>2. planted \in Text /\ bps' \in Table
  BY InvParts, SurvivingType, ReplantedType DEF RestTypeOK, Replant
<1>3. Balanced' /\ pc' \in [Thread -> Nat] /\ cur' \in Thread
  BY <1>1, InvParts DEF ExecStop, Balanced, Guarded, ViewTypeOK
<1>4. saved' \in Seq(Insn)
  BY EmptySeq DEF ExecStop
<1>5. CASE Entry = 0
  <2>1. /\ code' = planted /\ temp' = NoTemp /\ state' = "STOPPED" /\ mode' = "stopped"
        /\ loc' = "prompt" /\ repl' = TRUE
    BY <1>5 DEF Replant, RunReturns
  <2>2. ViewTypeOK'
    BY <1>2, <1>3, <2>1 DEF ViewTypeOK
  <2>3. RestTypeOK'
    BY <1>4, <2>1, InvParts, NoTempType DEF ExecStop, RestTypeOK, Stepping
  <2>4. Guarding'
    BY <1>1, <2>1 DEF ExecStop, Guarded, Guarding, Waits, LoopWaits
  <2>5. QED
    BY <1>3, <2>2, <2>3, <2>4, InvPartsNext
<1>6. CASE Entry # 0
  <2>1. Entry \in Insn
    BY <1>6, SessionAssumption
  <2>2. /\ code' = Planted(planted, Entry) /\ temp' = BpAt(planted, Entry)
        /\ state' = "RUNNING" /\ mode' = "cont" /\ loc' = "entry" /\ repl' = repl
    BY <1>6 DEF Replant, Resume
  <2>3. ViewTypeOK'
    BY <1>2, <1>3, <2>2, PlantedType DEF ViewTypeOK
  <2>4. temp' \in [addr : Insn \cup {0}, saved : Byte, enabled : BOOLEAN]
    BY <1>2, <2>1, <2>2 DEF BpAt, Text
  <2>5. RestTypeOK'
    BY <1>4, <2>2, <2>4, InvParts DEF ExecStop, RestTypeOK, Stepping, Waits
  <2>6. Guarding'
    BY <1>1, <2>2 DEF ExecStop, Guarded, Guarding, Waits, LoopWaits
  <2>7. QED
    BY <1>3, <2>3, <2>5, <2>6, InvPartsNext
<1>7. QED
  BY <1>5, <1>6
-------------------------------------------------------------------------------
(* A wait that is not of a loop or of si holds no guard, and the debugger    *)
(* waits with a process.                                                     *)
LEMMA WaitFacts ==
    ASSUME Inv, loc \in Waits
    PROVE  /\ state # "IDLE" /\ Balanced
           /\ loc \notin LoopWaits \cup {"si"} => gsusp = {}
           /\ origin \in Nat /\ iter \in Nat
<1>1. state = "RUNNING"
  BY DEF Inv, Guarding
<1>2. QED
  BY <1>1, InvBalanced, InvParts DEF Guarding, RestTypeOK

(* A stop that leads to the prompt, or to the end of the debugger, out of a   *)
(* wait without a guard.                                                     *)
LEMMA UnguardedStopInv ==
    ASSUME Inv, loc \in Waits \ (LoopWaits \cup {"si"}), TakeStop,
           UNCHANGED <<susp, repl, Guarded, Stepping, saved>>,
           \/ \E m \in View : Prompt(m)
           \/ Abort /\ UNCHANGED <<code, bps, pc, cur, temp>>
    PROVE  Inv'
<1>1. Balanced /\ gsusp = {} /\ Taken
  BY WaitFacts, TakeStopTaken
<1>2. Balanced' /\ gsusp' = {} /\ UNCHANGED <<repl, saved>>
  BY <1>1 DEF Balanced, Guarded
<1>3. origin' \in Nat /\ iter' \in Nat
  BY WaitFacts DEF Stepping
<1>4. CASE \E m \in View : Prompt(m)
  BY <1>1, <1>2, <1>3, <1>4, PromptInv
<1>5. CASE Abort /\ UNCHANGED <<code, bps, pc, cur, temp>>
  <2>1. ViewTypeOK'
    BY <1>5, InvParts DEF ViewTypeOK
  <2>2. QED
    BY <1>1, <1>2, <1>3, <1>5, <2>1, RestInv DEF Abort
<1>6. QED
  BY <1>4, <1>5

LEMMA ReportedStopInv == Inv /\ ReportedStop => Inv'
<1> SUFFICES ASSUME Inv, ReportedStop PROVE Inv'
  OBVIOUS
<1>1. Reported(Waited) \in View
  BY WaitedType, ReportedType DEF Inv
<1>2. loc \in Waits \ (LoopWaits \cup {"si"})
  BY DEF ReportedStop, Waits, LoopWaits
<1>3. QED
  BY <1>1, <1>2, UnguardedStopInv DEF ReportedStop

(* The stop of run_to_entry_stop, where the main loop of the REPL begins.    *)
LEMMA EntryStopInv == Inv /\ EntryStop => Inv'
<1> SUFFICES ASSUME Inv, EntryStop PROVE Inv'
  OBVIOUS
<1>1. loc \in Waits /\ loc \notin LoopWaits \cup {"si"} /\ TakeStop
  BY DEF EntryStop, Waits, LoopWaits
<1>2. Balanced /\ gsusp = {} /\ Taken
  BY <1>1, WaitFacts, TakeStopTaken
<1>3. Disarmed(Waited) \in View
  BY WaitedType, DisarmedType DEF Inv
<1>4. PICK m \in View : Prompt(m)
  BY <1>3, RewoundType DEF EntryStop
<1>5. ViewTypeOK'
  BY <1>4, BecomeType DEF Prompt
<1>6. Balanced' /\ gsusp' = {}
  BY <1>2 DEF EntryStop, Balanced, Guarded
<1>7. RestTypeOK'
  BY <1>2, <1>4, InvParts, NoTempType
  DEF EntryStop, Prompt, RestTypeOK, Taken, Stepping
<1>8. Guarding'
  BY <1>4, <1>6 DEF Prompt, Guarding, Waits, LoopWaits
<1>9. QED
  BY <1>5, <1>6, <1>7, <1>8, InvPartsNext

(* The task goes on from the wait of the step off a breakpoint.              *)
LEMMA GoOnInv ==
    ASSUME Inv, loc \in {"overcont", "overcall"}, TakeStop, Become(Waited),
           NEW wait, wait = (IF loc = "overcont" THEN "cont" ELSE "call"),
           Resume("cont", wait), UNCHANGED <<susp, repl, temp, Guarded, Stepping, saved>>
    PROVE  Inv'
<1>1. Balanced /\ Taken /\ (loc = "overcont" => gsusp = {})
  BY WaitFacts, TakeStopTaken DEF Waits, LoopWaits
<1>2. Balanced'
  BY <1>1 DEF Balanced, Guarded
<1>3. ViewTypeOK'
  BY WaitedType, BecomeType DEF Inv
<1>4. RestTypeOK'
  BY <1>1, InvParts DEF Resume, RestTypeOK, Taken, Stepping, Waits, LoopWaits
<1>5. Guarding'
  BY <1>1, <1>2 DEF Resume, Balanced, Guarded, Guarding, Waits, LoopWaits
<1>6. QED
  BY <1>2, <1>3, <1>4, <1>5, InvPartsNext

(* A wait of a loop that fails gives the guard back before giving up.        *)
LEMMA LoopAbortsInv ==
    ASSUME Inv, loc \in LoopWaits, TakeStop, LoopAborts
    PROVE  Inv'
<1>1. Balanced /\ Taken
  BY WaitFacts, TakeStopTaken DEF Waits
<1>2. Balanced' /\ gsusp' = {}
  BY <1>1, ReleaseBalanced DEF LoopAborts
<1>3. ViewTypeOK'
  BY NowType, DisarmedType, BecomeType DEF Inv, LoopAborts
<1>4. origin' \in Nat /\ iter' \in Nat
  BY WaitFacts DEF LoopAborts, Stepping, Waits
<1>5. QED
  BY <1>1, <1>2, <1>3, <1>4, RestInv DEF LoopAborts, Abort

LEMMA OverContStopInv == Inv /\ OverContStop => Inv'
<1> SUFFICES ASSUME Inv, OverContStop PROVE Inv'
  OBVIOUS
<1>1. CASE WaitFails
  <2>1. loc \in Waits \ (LoopWaits \cup {"si"})
    BY DEF OverContStop, Waits, LoopWaits
  <2>2. QED
    BY <1>1, <2>1, UnguardedStopInv DEF OverContStop
<1>2. CASE ~WaitFails
  BY <1>2, GoOnInv DEF OverContStop
<1>3. QED
  BY <1>1, <1>2

LEMMA OverCallStopInv == Inv /\ OverCallStop => Inv'
BY GoOnInv, LoopAbortsInv DEF OverCallStop, LoopWaits

LEMMA StepStopInv == Inv /\ StepStop => Inv'
<1> SUFFICES ASSUME Inv, StepStop PROVE Inv'
  OBVIOUS
<1>1. loc \in LoopWaits /\ loc \in Waits /\ Waited \in View
  BY WaitedType DEF Inv, StepStop, LoopWaits, Waits
<1>2. state # "IDLE" /\ Waited.cur = Primary /\ Taken
  BY <1>1, WaitFacts, WaitedType, TakeStopTaken DEF Inv, Guarding, StepStop
<1>3. QED
  BY <1>1, <1>2, LoopTailInv, LoopAbortsInv DEF StepStop

LEMMA NextStopInv == Inv /\ (NextStop \/ CallStop) => Inv'
<1> SUFFICES ASSUME Inv, NextStop \/ CallStop PROVE Inv'
  OBVIOUS
<1>1. loc \in LoopWaits /\ loc \in Waits /\ TakeStop
  BY DEF NextStop, CallStop, LoopWaits, Waits
<1>2. state # "IDLE" /\ Taken
  BY <1>1, WaitFacts, TakeStopTaken
<1>3. Waited \in View /\ Returned(Waited) \in View
  BY WaitedType, ReturnedType DEF Inv
<1>4. QED
  BY <1>1, <1>2, <1>3, LoopTailInv, LoopAbortsInv DEF NextStop, CallStop

LEMMA SiStopInv == Inv /\ SiStop => Inv'
<1> SUFFICES ASSUME Inv, SiStop PROVE Inv'
  OBVIOUS
<1>1. Balanced /\ Taken /\ origin \in Nat /\ iter \in Nat
  BY WaitFacts, TakeStopTaken DEF SiStop, Waits
<1>2. Balanced' /\ gsusp' = {}
  BY <1>1, ReleaseBalanced DEF SiStop
<1>3. CASE WaitFails
  <2>1. ViewTypeOK'
    BY <1>3, InvParts DEF SiStop, ViewTypeOK
  <2>2. QED
    BY <1>1, <1>2, <1>3, <2>1, RestInv DEF SiStop, Abort, Stepping
<1>4. CASE ~WaitFails
  <2>1. Reported(Waited) \in View
    BY WaitedType, ReportedType DEF Inv
  <2>2. QED
    BY <1>1, <1>2, <1>4, <2>1, PromptInv DEF SiStop, Stepping
<1>5. QED
  BY <1>3, <1>4

(* The process ends below a command that is not run. *)
LEMMA ProcessExitInv == Inv /\ ProcessExit => Inv'
<1> SUFFICES ASSUME Inv, ProcessExit PROVE Inv'
  OBVIOUS
<1>1. cur' \in Thread /\ lock' \in BOOLEAN /\ lsusp' \subseteq Thread
      /\ (~lock' => lsusp' = {}) /\ repl' \in BOOLEAN /\ saved' \in Seq(Insn)
  BY DEF ProcessExit, Inv, TypeOK, SuspendBalance
<1>2. QED
  BY <1>1, NoProcessInv DEF ProcessExit

LEMMA OverContExitInv == Inv /\ OverContExit => Inv'
<1> SUFFICES ASSUME Inv, OverContExit PROVE Inv'
  OBVIOUS
<1>1. /\ loc' = "aborted" /\ state' = "IDLE" /\ mode' = "stopped" /\ gsusp = {}
      /\ UNCHANGED <<code, pc, life, susp, pend, sig, dead, repl, Breakpoints, cur,
                     Guarded, Stepping>>
  BY DEF OverContExit, TakeExit, Inv, Guarding, LoopWaits
<1>2. TypeOK'
  BY <1>1 DEF Inv, TypeOK, DebuggeeTypeOK, Breakpoints, Guarded, Stepping
<1>3. SuspendBalance' /\ Guarding'
  BY <1>1 DEF Inv, SuspendBalance, Guarding, Guarded, Waits, LoopWaits
<1>4. QED
  BY <1>2, <1>3 DEF Inv
-------------------------------------------------------------------------------
(* A command that resumes the task from the prompt finds no guard. *)
LEMMA ContinueInv == Inv /\ Continue => Inv'
<1> SUFFICES ASSUME Inv, Continue PROVE Inv'
  OBVIOUS
<1>1. Balanced /\ gsusp = {}
  BY InvBalanced DEF Inv, SuspendBalance, Continue
<1>2. Balanced' /\ gsusp' = {} /\ ViewTypeOK'
  BY <1>1, InvParts DEF Continue, Balanced, Guarded, ViewTypeOK, Breakpoints
<1>3. \/ loc' = "aborted" /\ mode' = "stopped" /\ state' = "STOPPED"
      \/ /\ loc' \in {"overcont", "cont"} /\ (mode' = "cont" \/ loc' = "overcont")
         /\ mode' \in {"cont", "step", "wedged"} /\ state' = "RUNNING"
  BY ResumeFromHow DEF Continue, Abort
<1>4. RestTypeOK'
  BY <1>3, InvParts DEF Continue, RestTypeOK, Breakpoints, Stepping, Waits
<1>5. Guarding'
  BY <1>2, <1>3 DEF Guarding, Unguarded, Waits, LoopWaits
<1>6. QED
  BY <1>2, <1>4, <1>5, InvPartsNext

LEMMA SiInv == Inv /\ Si => Inv'
<1> SUFFICES ASSUME Inv, Si PROVE Inv'
  OBVIOUS
<1>1. Balanced /\ cur = Primary /\ UNCHANGED <<lock, lsusp>>
  BY InvBalanced DEF Si, MayStep
<1>2. Balanced' /\ (~lock => Alive \subseteq gsusp' \cup {Primary})
  BY <1>1, CatchUpBalanced DEF Si
<1>3. ViewTypeOK'
  BY InvParts DEF Si, ViewTypeOK, Breakpoints
<1>4. origin' \in Nat
  BY InvParts DEF Si, ViewTypeOK
<1>5. RestTypeOK'
  BY <1>4, InvParts DEF Si, Resume, RestTypeOK, Breakpoints, Waits
<1>6. Guarding'
  BY <1>1, <1>2 DEF Si, Resume, Guarding, Balanced, Waits, LoopWaits, Alive, Unguarded
<1>7. QED
  BY <1>2, <1>3, <1>5, <1>6, InvPartsNext

LEMMA StepNoLineInv == Inv /\ StepNoLine => Inv'
<1> SUFFICES ASSUME Inv, StepNoLine PROVE Inv'
  OBVIOUS
<1>1. Balanced /\ gsusp = {}
  BY InvBalanced DEF Inv, SuspendBalance, StepNoLine, MayStep
<1>2. Balanced' /\ gsusp' = {} /\ ViewTypeOK'
  BY <1>1, InvParts DEF StepNoLine, Balanced, Guarded, ViewTypeOK, Breakpoints
<1>3. origin' \in Nat
  BY InvParts DEF StepNoLine, ViewTypeOK
<1>4. RestTypeOK'
  BY <1>3, InvParts DEF StepNoLine, Resume, RestTypeOK, Breakpoints, Waits
<1>5. Guarding'
  BY <1>2 DEF StepNoLine, Resume, Guarding, Waits, LoopWaits, Unguarded
<1>6. QED
  BY <1>2, <1>4, <1>5, InvPartsNext

LEMMA LoopStartsInv ==
    ASSUME Inv, NEW kind, LoopStarts(kind)
    PROVE  Inv'
<1>1. state # "IDLE" /\ cur = Primary
  BY DEF LoopStarts, MayStep
<1>2. Taken
  BY InvParts DEF LoopStarts, Taken, RestTypeOK
<1>3. Now \in View /\ Now.cur = Primary
  BY <1>1, NowType DEF Inv
<1>4. origin' \in Nat /\ iter' \in Nat
  BY InvParts DEF LoopStarts, ViewTypeOK
<1>5. LoopHead(kind, Now) /\ UNCHANGED <<repl, lock, lsusp, saved>>
  BY DEF LoopStarts
<1>6. QED
  BY <1>1, <1>2, <1>3, <1>4, <1>5, LoopHeadInv
-------------------------------------------------------------------------------
(* A command that leaves the task stopped. *)
LEMMA StillStoppedInv ==
    ASSUME Inv, loc = "prompt", StillStopped, ViewTypeOK',
           susp' \in [Thread -> Nat], lsusp' \subseteq Thread, lock' \in BOOLEAN,
           state # "IDLE" => \A t \in Thread : susp'[t] = Count(t \in lsusp'),
           ~lock' => lsusp' = {}
    PROVE  Inv'
<1>1. gsusp' = {} /\ loc' = "prompt" /\ state' = state
      /\ UNCHANGED <<life, mode, pend, sig, dead, repl, temp, origin, iter, saved>>
  BY DEF Inv, SuspendBalance, StillStopped, Stepping
<1>2. RestTypeOK'
  BY <1>1, InvParts DEF RestTypeOK
<1>3. TypeOK'
  <2>1. DebuggeeTypeOK'
    BY <1>2 DEF DebuggeeTypeOK, RestTypeOK, ViewTypeOK, Text
  <2>2. QED
    BY <1>1, <1>2, <2>1 DEF TypeOK, RestTypeOK, ViewTypeOK, Table
<1>4. SuspendBalance'
  <2>1. ASSUME state # "IDLE", NEW t \in Thread
        PROVE  susp'[t] = Count(t \in lsusp') + Count(t \in gsusp')
    <3>1. susp'[t] = Count(t \in lsusp') /\ Count(t \in lsusp') \in Nat
      BY <2>1 DEF Count
    <3>2. Count(t \in gsusp') = 0
      BY <1>1 DEF Count
    <3>3. QED
      BY <3>1, <3>2
  <2>2. QED
    BY <1>1, <2>1 DEF SuspendBalance
<1>5. Guarding'
  BY <1>1 DEF Inv, Guarding, Waits, LoopWaits
<1>6. QED
  BY <1>3, <1>4, <1>5 DEF Inv

(* What "lock" holds at the prompt, where no guard is. *)
LEMMA PromptFacts ==
    ASSUME Inv, loc = "prompt"
    PROVE  /\ susp \in [Thread -> Nat] /\ lsusp \subseteq Thread /\ lock \in BOOLEAN
           /\ state # "IDLE" => \A t \in Thread : susp[t] = Count(t \in lsusp)
           /\ ~lock => lsusp = {}
           /\ ViewTypeOK
<1>1. gsusp = {} /\ (~lock => lsusp = {})
  BY DEF Inv, SuspendBalance
<1>2. ASSUME state # "IDLE", NEW t \in Thread
      PROVE  susp[t] = Count(t \in lsusp)
  <2>1. susp[t] = Count(t \in lsusp) + Count(t \in gsusp)
    BY <1>2 DEF Inv, SuspendBalance
  <2>2. Count(t \in gsusp) = 0 /\ Count(t \in lsusp) \in Nat
    BY <1>1 DEF Count
  <2>3. QED
    BY <2>1, <2>2
<1>3. QED
  BY <1>1, <1>2, InvParts DEF Inv, TypeOK, DebuggeeTypeOK

(* break and del move bytes and table entries only. *)
LEMMA TableCommandInv ==
    ASSUME Inv,
           \/ \E a \in BreakAt : Break(a)
           \/ \E i \in DOMAIN bps : Del(i)
           \/ DelAll
    PROVE  Inv'
<1>1. /\ loc = "prompt" /\ StillStopped
      /\ UNCHANGED <<pc, susp, cur, lock, lsusp>>
  BY DEF Break, Del, DelAll
<1>2. code \in Text /\ bps \in Table
  BY InvParts DEF ViewTypeOK
<1>3. code' \in Text /\ bps' \in Table
  <2>1. ASSUME NEW a \in BreakAt, Break(a) PROVE code' \in Text /\ bps' \in Table
    <3>1. a \in Insn
      BY SessionAssumption
    <3>2. BpAt(code, a) \in Bp
      BY <1>2, <3>1 DEF BpAt, Bp, Text
    <3>3. bps' \in Table
      BY <1>2, <2>1, <3>2, AppendProperties DEF Break, Table
    <3>4. QED
      BY <1>2, <2>1, <3>3, PlantedType DEF Break
  <2>2. ASSUME NEW i \in DOMAIN bps, Del(i) PROVE code' \in Text /\ bps' \in Table
    <3>1. bps[i].saved \in Byte
      BY <1>2, TableEntries
    <3>2. QED
      BY <1>2, <2>2, <3>1, DeletedType, RestoredType DEF Del
  <2>3. ASSUME DelAll PROVE code' \in Text /\ bps' \in Table
    BY <1>2, <2>3, AllRestoredType, EmptySeq DEF DelAll, Table
  <2>4. QED
    BY <2>1, <2>2, <2>3
<1>4. ViewTypeOK'
  BY <1>1, <1>3, InvParts DEF ViewTypeOK
<1>5. QED
  BY <1>1, <1>4, PromptFacts, StillStoppedInv

(* thread, up and set move the view only. *)
LEMMA ViewCommandInv ==
    ASSUME Inv,
           \/ \E t \in Thread : SelectThread(t)
           \/ FrameUp \/ SetPc
    PROVE  Inv'
<1>1. /\ loc = "prompt" /\ StillStopped
      /\ UNCHANGED <<code, bps, susp, lock, lsusp>>
  BY DEF SelectThread, FrameUp, SetPc, MovePc
<1>2. cur' \in Thread /\ pc' \in [Thread -> Nat]
  <2>1. pc \in [Thread -> Nat] /\ cur \in Thread
    BY InvParts DEF ViewTypeOK
  <2>2. ASSUME NEW a \in UpTargets \cup JumpTargets, MovePc(a)
        PROVE  cur' \in Thread /\ pc' \in [Thread -> Nat]
    <3>1. a \in Nat
      BY AddressType, SessionAssumption
    <3>2. QED
      BY <2>1, <2>2, <3>1 DEF MovePc
  <2>3. QED
    BY <2>1, <2>2 DEF SelectThread, FrameUp, SetPc
<1>3. ViewTypeOK'
  BY <1>1, <1>2, InvParts DEF ViewTypeOK
<1>4. QED
  BY <1>1, <1>3, PromptFacts, StillStoppedInv

LEMMA LockInv == ASSUME Inv, NEW t \in Thread, LockTo(t) PROVE Inv'
<1>1. loc = "prompt" /\ StillStopped /\ state # "IDLE" /\ UNCHANGED <<code, bps, pc>>
      /\ cur' = t /\ lock' = TRUE /\ lsusp' = Alive \ {t} /\ lsusp = {}
  BY PromptFacts DEF LockTo
<1>2. ViewTypeOK'
  BY <1>1, InvParts DEF ViewTypeOK
<1>3. susp \in [Thread -> Nat]
  BY <1>1, PromptFacts
<1>4. \A u \in Thread : susp[u] = 0
  BY <1>1, PromptFacts DEF Count
<1>5. susp' = [u \in Thread |-> IF u \in Alive \ {t} THEN susp[u] + 1 ELSE susp[u]]
  BY DEF LockTo
<1>6. susp' \in [Thread -> Nat] /\ \A u \in Thread : susp'[u] = Count(u \in lsusp')
  BY <1>1, <1>3, <1>4, <1>5 DEF Count
<1>7. QED
  BY <1>1, <1>2, <1>6, StillStoppedInv DEF Alive

LEMMA UnlockInv == Inv /\ Unlock => Inv'
<1> SUFFICES ASSUME Inv, Unlock PROVE Inv'
  OBVIOUS
<1>1. loc = "prompt" /\ StillStopped /\ state # "IDLE" /\ UNCHANGED <<code, bps, pc, cur>>
      /\ lock' = FALSE /\ lsusp' = {}
  BY DEF Unlock
<1>2. ViewTypeOK'
  BY <1>1, InvParts DEF ViewTypeOK
<1>3. susp \in [Thread -> Nat] /\ \A u \in Thread : susp[u] = Count(u \in lsusp)
  BY <1>1, PromptFacts
<1>4. susp' = [u \in Thread |-> IF u \in lsusp THEN susp[u] - 1 ELSE susp[u]]
  BY DEF Unlock
<1>5. \A u \in Thread : susp'[u] = 0
  BY <1>3, <1>4 DEF Count
<1>6. susp' \in [Thread -> Nat] /\ \A u \in Thread : susp'[u] = Count(u \in lsusp')
  BY <1>1, <1>4, <1>5 DEF Count
<1>7. QED
  BY <1>1, <1>2, <1>6, StillStoppedInv

(* kill and quit. *)
LEMMA StoppedInv == ASSUME Inv, NEW end \in {"prompt", "exited"}, Stopped(end) PROVE Inv'
<1>1. cur' \in Thread /\ lock' = FALSE /\ lsusp' = {} /\ UNCHANGED <<repl, Stepping, saved>>
  BY DebuggeeAssumption DEF Stopped
<1>2. repl' \in BOOLEAN /\ saved' \in Seq(Insn)
  BY <1>1, InvParts DEF RestTypeOK
<1>3. QED
  BY <1>1, <1>2, NoProcessInv DEF Stopped

(* regs without a thread, end of input. *)
LEMMA LeaveInv == Inv /\ (Regs \/ Eof) => Inv'
<1> SUFFICES ASSUME Inv, Regs \/ Eof PROVE Inv'
  OBVIOUS
<1>1. /\ loc = "prompt" /\ loc' \in {"aborted", "exited"}
      /\ UNCHANGED <<debuggee, state, repl, Breakpoints, cur, Guarded, Stepping>>
  BY DEF Regs, Eof
<1>2. TypeOK'
  BY <1>1 DEF Inv, TypeOK, DebuggeeTypeOK, debuggee, Breakpoints, Guarded, Stepping
<1>3. SuspendBalance' /\ Guarding'
  BY <1>1 DEF Inv, SuspendBalance, Guarding, debuggee, Guarded, Waits, LoopWaits
<1>4. QED
  BY <1>2, <1>3 DEF Inv

LEMMA InterruptInv == Inv /\ Interrupt => Inv'
<1> SUFFICES ASSUME Inv, Interrupt PROVE Inv'
  OBVIOUS
<1>1. sig' = TRUE
      /\ UNCHANGED <<code, pc, life, susp, mode, pend, dead, state, loc, repl,
                     Breakpoints, cur, Guarded, Stepping>>
  BY DEF Interrupt
<1>2. TypeOK'
  BY <1>1 DEF Inv, TypeOK, DebuggeeTypeOK, Breakpoints, Guarded, Stepping
<1>3. SuspendBalance' /\ Guarding'
  BY <1>1 DEF Inv, SuspendBalance, Guarding, Unguarded, Guarded, Alive
<1>4. QED
  BY <1>2, <1>3 DEF Inv
-------------------------------------------------------------------------------
(* A step of the debuggee suspends nobody; below si and step it is the       *)
(* primary thread's, which then has a trap to report, or ends the process.   *)
LEMMA ProgramInv ==
    ASSUME Inv, NEW t \in Thread, Program(t)
    PROVE  Inv'
<1>1. /\ Runnable(t) /\ UNCHANGED <<code, susp, debugger>>
      /\ \/ mode' = mode
         \/ mode = "step" /\ t # Primary /\ mode' = "wedged"
  BY DEF Program, DebuggeeStep, Execute, Finish, HitTrap, Fault
<1>2. pc \in [Thread -> Nat] /\ life \in [Thread -> {"unborn", "alive", "gone"}]
      /\ pend \subseteq Thread /\ sig \in BOOLEAN /\ dead \in BOOLEAN
  BY InvParts DEF ViewTypeOK, RestTypeOK
<1>3. pc' \in [Thread -> Nat]
  <2>1. ASSUME NEW q \in Nat, NEW u
        PROVE  /\ [pc EXCEPT ![t] = q] \in [Thread -> Nat]
               /\ [pc EXCEPT ![t] = q, ![u] = WorkerEntry] \in [Thread -> Nat]
    BY <1>2, InsnAssumption, DebuggeeAssumption
  <2>2. CASE Execute(t)
    <3>1. PICK q \in Succ[pc[t]] :
             \/ pc' = [pc EXCEPT ![t] = q, ![Least(Unborn)] = WorkerEntry]
             \/ pc' = [pc EXCEPT ![t] = q]
      BY <2>2 DEF Execute
    <3>2. pc[t] \in Insn
      BY <2>2 DEF Execute
    <3>3. Succ[pc[t]] \subseteq Insn
      BY <3>2, DebuggeeAssumption
    <3>4. q \in Succ[pc[t]]
      BY <3>1
    <3>5. q \in Nat
      BY <3>3, <3>4, AddressType
    <3>6. /\ [pc EXCEPT ![t] = q, ![Least(Unborn)] = WorkerEntry] \in [Thread -> Nat]
          /\ [pc EXCEPT ![t] = q] \in [Thread -> Nat]
      BY <2>1, <3>5
    <3>7. QED
      BY <3>1, <3>6
  <2>3. CASE HitTrap(t)
    BY <1>2, <2>3 DEF HitTrap
  <2>4. CASE Finish(t) \/ Fault(t)
    BY <1>2, <2>4 DEF Finish, Fault
  <2>5. QED
    BY <2>2, <2>3, <2>4 DEF Program, DebuggeeStep
<1>4. life' \in [Thread -> {"unborn", "alive", "gone"}]
  <2>1. CASE Execute(t)
    <3>1. \/ life' = [life EXCEPT ![Least(Unborn)] = "alive"]
          \/ life' = life
      BY <2>1 DEF Execute
    <3>2. QED
      BY <1>2, <3>1
  <2>2. CASE Finish(t)
    BY <1>2, <2>2 DEF Finish
  <2>3. CASE HitTrap(t) \/ Fault(t)
    BY <1>2, <2>3 DEF HitTrap, Fault
  <2>4. QED
    BY <2>1, <2>2, <2>3 DEF Program, DebuggeeStep
<1>5. pend' \subseteq Thread /\ sig' \in BOOLEAN /\ dead' \in BOOLEAN /\ pend \subseteq pend'
  BY <1>2 DEF Program, DebuggeeStep, Execute, Finish, HitTrap, Fault, Stepped
<1>6. TypeOK'
  BY <1>1, <1>3, <1>4, <1>5
  DEF Inv, TypeOK, DebuggeeTypeOK, debugger, Breakpoints, Guarded, Stepping
<1>7. SuspendBalance'
  BY <1>1 DEF Inv, SuspendBalance, debugger, Guarded
<1>8. ASSUME mode \in {"step", "wedged"}, ~Unguarded, Primary \notin pend'
      PROVE  mode' = "step" /\ Alive' \subseteq gsusp \cup {Primary}
  <2>1. mode = "step" /\ Alive \subseteq gsusp \cup {Primary}
    BY <1>5, <1>8 DEF Inv, Guarding
  <2>2. Balanced /\ Primary \in Thread
    BY <2>1, WaitFacts, DebuggeeAssumption DEF Inv, Guarding
  <2>3. t = Primary
    <3>1. t \in Alive /\ susp[t] = 0
      BY <1>1 DEF Runnable, Alive
    <3>2. susp[t] = Count(t \in lsusp) + Count(t \in gsusp)
      BY <2>2 DEF Balanced
    <3>3. Count(t \in lsusp) \in Nat /\ (t \in gsusp => Count(t \in gsusp) = 1)
      BY DEF Count
    <3>4. t \notin gsusp
      BY <3>1, <3>2, <3>3
    <3>5. QED
      BY <2>1, <3>1, <3>4
  <2>4. ~Execute(t) /\ ~HitTrap(t)
    BY <1>8, <2>1, <2>3 DEF Execute, HitTrap, Stepped
  <2>5. life' = life
    BY <2>3, <2>4 DEF Program, DebuggeeStep, Finish, Fault
  <2>6. QED
    BY <1>1, <2>1, <2>3, <2>5 DEF Alive
<1>9. Guarding'
  <2>1. UNCHANGED <<loc, state, gsusp, cur, lock>>
    BY <1>1 DEF debugger, Guarded
  <2>2. (mode' \in {"step", "wedged"} /\ ~Unguarded' /\ Primary \notin pend')
        => mode' = "step" /\ Alive' \subseteq gsusp' \cup {Primary}
    BY <1>1, <1>8, <2>1 DEF Unguarded
  <2>3. /\ loc' \notin Waits => mode' = "stopped"
        /\ loc' \in {"si", "step"} => mode' \in {"step", "wedged"}
    BY <1>1, <2>1 DEF Inv, Guarding
  <2>4. QED
    BY <2>1, <2>2, <2>3 DEF Inv, Guarding
<1>10. QED
  BY <1>6, <1>7, <1>9 DEF Inv

LEMMA HandlerInv == Inv /\ Handler => Inv'
BY RunFailsInv, ExecStopInv, EntryStopInv, OverContStopInv, OverContExitInv,
   ReportedStopInv, ProcessExitInv, SiStopInv, StepStopInv, NextStopInv, OverCallStopInv
DEF Handler

LEMMA CommandInv == Inv /\ Command => Inv'
BY RunInv, ContinueInv, SiInv, StepNoLineInv, LoopStartsInv, TableCommandInv,
   ViewCommandInv, LockInv, UnlockInv, LeaveInv, StoppedInv
DEF Command, Step, NextLine, Kill, Quit

(* main starts from a process that waits in exec, with nothing planted. *)
LEMMA InitInv == Init => Inv
<1> SUFFICES ASSUME Init PROVE Inv
  OBVIOUS
<1>1. /\ code \in Text /\ bps = <<>> /\ bps \in Table /\ saved \in Seq(Insn)
      /\ Start \in Nat
  BY EmptySeq, InsnAssumption, DebuggeeAssumption DEF Init, Text, Table, Byte
<1>2. ViewTypeOK
  BY <1>1, DebuggeeAssumption DEF Init, ViewTypeOK
<1>3. RestTypeOK
  BY <1>1, NoTempType DEF Init, RestTypeOK, Waits
<1>4. susp = [t \in Thread |-> 0] /\ lsusp = {} /\ gsusp = {} /\ lock = FALSE
  BY DEF Init
<1>5. \A t \in Thread : susp[t] = Count(t \in lsusp) + Count(t \in gsusp)
  BY <1>4 DEF Count
<1>6. susp \in [Thread -> Nat]
  BY <1>4
<1>7. Balanced
  BY <1>4, <1>5, <1>6 DEF Balanced
<1>8. Guarding
  BY DEF Init, Guarding, Waits, LoopWaits
<1>9. QED
  BY <1>2, <1>3, <1>7, <1>8, InvParts

LEMMA NextInv == Inv /\ [Next]_vars => Inv'
<1> SUFFICES ASSUME Inv, [Next]_vars PROVE Inv'
  OBVIOUS
<1>1. CASE \E t \in Thread : Program(t)
  BY <1>1, ProgramInv
<1>2. CASE Handler
  BY <1>2, HandlerInv
<1>3. CASE Command
  BY <1>3, CommandInv
<1>4. CASE Interrupt
  BY <1>4, InterruptInv
<1>5. CASE UNCHANGED vars
  <2>1. TypeOK'
    BY <1>5 DEF Inv, TypeOK, DebuggeeTypeOK, vars, debuggee
  <2>2. SuspendBalance' /\ Guarding'
    BY <1>5 DEF Inv, SuspendBalance, Guarding, Unguarded, Alive, vars, debuggee
  <2>3. QED
    BY <2>1, <2>2 DEF Inv
<1>6. QED
  BY <1>1, <1>2, <1>3, <1>4, <1>5 DEF Next, Ended

(* Inv holds in every reachable state. *)
THEOREM Invariance == Spec => []Inv
BY InitInv, NextInv, PTL DEF Spec

(* Types: for every program, table size and step bound, no command leaves    *)
(* a pc, a table entry or a suspend count that is not one.                   *)
THEOREM TypeCorrect == Spec => []TypeOK
<1>1. Inv => TypeOK
  BY DEF Inv
<1>2. QED
  BY <1>1, Invariance, PTL

(* The step guard is held only below si and the loops of step and next, and  *)
(* never on the primary thread: what makes the results below inductive.      *)
THEOREM GuardStays == Spec => []Guarding
<1>1. Inv => Guarding
  BY DEF Inv
<1>2. QED
  BY <1>1, Invariance, PTL

(* No command leaves a thread suspended that the debugger does not believe   *)
(* suspended, or the other way round, however "lock", the step guard, the    *)
(* threads created under it, failures and restarts interleave.               *)
THEOREM SuspendsBalance == Spec => []SuspendBalance
<1>1. Inv => SuspendBalance
  BY DEF Inv
<1>2. QED
  BY <1>1, Invariance, PTL

(* Without "lock", a step is never armed on a thread that cannot run: the    *)
(* wait behind it is one the debuggee can answer.                            *)
THEOREM StepsCanTrap == Spec => []StepCanTrap
<1>1. ASSUME Inv PROVE StepCanTrap
  <2>1. SUFFICES ASSUME mode = "step", ~lock PROVE susp[Primary] = 0
    BY DEF StepCanTrap
  <2>2. state # "IDLE"
    BY <1>1, <2>1 DEF Inv, Guarding
  <2>3. Balanced
    BY <1>1, <2>2, InvBalanced
  <2>4. Primary \notin lsusp /\ Primary \notin gsusp
        /\ susp[Primary] = Count(Primary \in lsusp) + Count(Primary \in gsusp)
    BY <2>1, <2>3, DebuggeeAssumption DEF Balanced
  <2>5. QED
    BY <2>4 DEF Count
<1>2. QED
  BY <1>1, Invariance, PTL

(* During si and step no thread but the primary one runs until its trap, for *)
(* any number of threads that exist or are created meanwhile.                *)
THEOREM StepsAlone == Spec => []SteppedAlone
<1>1. ASSUME Inv PROVE SteppedAlone
  <2>1. SUFFICES ASSUME loc \in {"si", "step"}, ~lock, Primary \notin pend,
                        NEW t \in Thread \ {Primary}
                 PROVE  ~Runnable(t)
    BY DEF SteppedAlone, Held
  <2>2. Alive \subseteq gsusp \cup {Primary} /\ Balanced
    BY <1>1, <2>1, WaitFacts DEF Inv, Guarding, Waits, Unguarded
  <2>3. CASE t \in gsusp
    <3>1. susp[t] = Count(t \in lsusp) + Count(t \in gsusp)
      BY <2>2 DEF Balanced
    <3>2. Count(t \in lsusp) \in Nat /\ Count(t \in gsusp) = 1
      BY <2>3 DEF Count
    <3>3. susp[t] # 0
      BY <3>1, <3>2
    <3>4. QED
      BY <3>3 DEF Runnable
  <2>4. CASE t \notin gsusp
    BY <2>2, <2>4 DEF Runnable, Alive
  <2>5. QED
    BY <2>3, <2>4
<1>2. QED
  BY <1>1, Invariance, PTL
-------------------------------------------------------------------------------
(* While the debugger waits the task runs, and a process has its primary     *)
(* thread until it ends.                                                     *)
WaitInv ==
    /\ loc \in Waits \ {"exec"} => mode \in {"cont", "step", "wedged"}
    /\ state # "IDLE" => life[Primary] = "alive"

(* What every handler and command does: it resumes the task, leaves all as   *)
(* it was, or does not wait; and it ends the process, starts one, or lets    *)
(* its threads be.                                                           *)
Handles ==
    /\ \/ loc' \notin Waits \ {"exec"}
       \/ mode' \in {"cont", "step", "wedged"}
       \/ UNCHANGED <<loc, mode>>
    /\ \/ state' = "IDLE"
       \/ life'[Primary] = "alive"
       \/ (life' = life /\ state # "IDLE")
       \/ UNCHANGED <<life, state>>

LEMMA HandlesKeeps == WaitInv /\ Handles => WaitInv'
BY DEF WaitInv, Handles

LEMMA ResumeHandles ==
    ASSUME NEW m, NEW over, NEW wait, ResumeFrom(m, over, wait)
    PROVE  mode' \in {"cont", "step", "wedged"}
BY DEF ResumeFrom, Resume, ResumeStep

LEMMA LoopHeadHandles ==
    ASSUME NEW m, NEW kind, LoopHead(kind, m)
    PROVE  mode' \in {"cont", "step", "wedged"}
BY ResumeHandles DEF LoopHead, StepHead, NextHead, Resume, ResumeStep

LEMMA LoopTailHandles ==
    ASSUME NEW m, NEW kind, LoopTail(m, kind)
    PROVE  loc' \notin Waits \/ mode' \in {"cont", "step", "wedged"}
<1>1. CASE LoopEnds(m)
  BY <1>1 DEF LoopEnds, Prompt, Waits, LoopWaits
<1>2. CASE Abort
  BY <1>2 DEF Abort, Waits, LoopWaits
<1>3. CASE LoopHead(kind, m)
  BY <1>3, LoopHeadHandles
<1>4. QED
  BY <1>1, <1>2, <1>3 DEF LoopTail

(* The wait and the mode: after a handler.                                   *)
LEMMA HandlerWaits ==
    ASSUME Handler
    PROVE  loc' \notin Waits \ {"exec"} \/ mode' \in {"cont", "step", "wedged"}
<1> USE DEF Waits, LoopWaits
<1>1. CASE ExecFailed \/ EntryExit
  BY <1>1 DEF ExecFailed, EntryExit, RunReturns
<1>2. CASE ExecStop
  BY <1>2 DEF ExecStop, Replant, Resume, RunReturns
<1>3. CASE EntryStop
  BY <1>3 DEF EntryStop, Prompt
<1>4. CASE OverContStop
  BY <1>4 DEF OverContStop, Abort, Resume
<1>5. CASE OverContExit \/ ProcessExit
  BY <1>5 DEF OverContExit, ProcessExit
<1>6. CASE ReportedStop
  BY <1>6 DEF ReportedStop, Prompt, Abort
<1>7. CASE SiStop
  BY <1>7 DEF SiStop, Prompt, Abort
<1>8. CASE StepStop
  BY <1>8, LoopTailHandles DEF StepStop, LoopAborts, Abort
<1>9. CASE NextStop
  BY <1>9, LoopTailHandles DEF NextStop, LoopAborts, Abort
<1>10. CASE OverCallStop
  BY <1>10 DEF OverCallStop, LoopAborts, Abort, Resume
<1>11. CASE CallStop
  BY <1>11, LoopTailHandles DEF CallStop, LoopAborts, Abort
<1>12. QED
  BY <1>1, <1>2, <1>3, <1>4, <1>5, <1>6, <1>7, <1>8, <1>9, <1>10, <1>11 DEF Handler

(* The threads: after a handler.                                             *)
LEMMA HandlerLives ==
    ASSUME Inv, Handler
    PROVE  state' = "IDLE" \/ (life' = life /\ state # "IDLE")
<1>1. loc \in Waits
  BY DEF Handler, ExecFailed, ExecStop, EntryStop, EntryExit, OverContStop, OverContExit,
         ReportedStop, ProcessExit, SiStop, StepStop, NextStop, OverCallStop, CallStop,
         TakeExit, Waits, LoopWaits
<1>2. state # "IDLE"
  BY <1>1, WaitFacts
<1>3. CASE ExecFailed \/ EntryExit \/ ProcessExit \/ OverContExit
  BY <1>3 DEF ExecFailed, EntryExit, ProcessExit, OverContExit, NoProcess
<1>4. CASE ExecStop
  BY <1>2, <1>4 DEF ExecStop
<1>5. CASE TakeStop
  BY <1>2, <1>5 DEF TakeStop
<1>6. QED
  BY <1>3, <1>4, <1>5
  DEF Handler, EntryStop, OverContStop, ReportedStop, SiStop, StepStop, NextStop,
      OverCallStop, CallStop

LEMMA CommandHandles == Command => Handles
<1> SUFFICES ASSUME Command PROVE Handles
  OBVIOUS
<1> USE DEF Handles, Waits, LoopWaits
<1>1. CASE Run
  BY <1>1, DebuggeeAssumption DEF Run, Launch, Spawned, Fresh
<1>2. CASE Continue
  BY <1>2, ResumeHandles DEF Continue, Abort
<1>3. CASE Si
  BY <1>3 DEF Si, MayStep, Resume
<1>4. CASE StepNoLine
  BY <1>4 DEF StepNoLine, MayStep, Resume
<1>5. CASE Step \/ NextLine
  BY <1>5, LoopHeadHandles DEF Step, NextLine, LoopStarts, MayStep
<1>6. CASE StillStopped
  BY <1>6 DEF StillStopped
<1>7. CASE Regs \/ Eof
  BY <1>7 DEF Regs, Eof, debuggee
<1>8. CASE Kill \/ Quit
  BY <1>8 DEF Kill, Quit, Stopped, NoProcess
<1>9. QED
  BY <1>1, <1>2, <1>3, <1>4, <1>5, <1>6, <1>7, <1>8
  DEF Command, Break, Del, DelAll, SelectThread, LockTo, Unlock, FrameUp, SetPc, MovePc

LEMMA ProgramHandles ==
    ASSUME Inv, WaitInv, NEW t \in Thread, Program(t)
    PROVE  Handles
<1>1. UNCHANGED <<loc, state>> /\ (mode' = mode \/ mode' = "wedged")
  BY DEF Program, debugger, DebuggeeStep, Execute, Finish, HitTrap, Fault
<1>2. life \in [Thread -> {"unborn", "alive", "gone"}] /\ Primary \in Thread
  BY InvParts, DebuggeeAssumption DEF RestTypeOK
<1>3. life[Primary] = "alive" => life'[Primary] = "alive"
  <2>1. CASE Execute(t)
    <3>1. life' = [life EXCEPT ![Least(Unborn)] = "alive"] \/ life' = life
      BY <2>1 DEF Execute
    <3>2. QED
      BY <1>2, <3>1
  <2>2. CASE Finish(t)
    BY <1>2, <2>2 DEF Finish
  <2>3. CASE HitTrap(t) \/ Fault(t)
    BY <2>3 DEF HitTrap, Fault
  <2>4. QED
    BY <2>1, <2>2, <2>3 DEF Program, DebuggeeStep
<1>4. QED
  BY <1>1, <1>3 DEF Handles, WaitInv

LEMMA WaitStep == Inv /\ WaitInv /\ [Next]_vars => WaitInv'
<1> SUFFICES ASSUME Inv, WaitInv, [Next]_vars PROVE Handles
  BY HandlesKeeps
<1>1. CASE \E t \in Thread : Program(t)
  BY <1>1, ProgramHandles
<1>2. CASE Handler
  BY <1>2, HandlerWaits, HandlerLives DEF Handles
<1>3. CASE Command
  BY <1>3, CommandHandles
<1>4. CASE Interrupt
  BY <1>4 DEF Interrupt, Handles
<1>5. CASE UNCHANGED vars
  BY <1>5 DEF vars, debuggee, Handles
<1>6. QED
  BY <1>1, <1>2, <1>3, <1>4, <1>5 DEF Next, Ended

LEMMA WaitInit == Init => WaitInv
BY DebuggeeAssumption DEF Init, WaitInv, Waits, LoopWaits

(* A wait that nothing can end is one the user has asked for, with a thread  *)
(* locked out or an instruction that waits for a thread the step guard       *)
(* holds, or one a trap of another thread has spoilt.  The latter never      *)
(* happens below the guard while the stepped instruction has not run, for    *)
(* any program and any number of threads.                                    *)
THEOREM WedgesAreHolds == Spec => []WedgedOnlyByAHold
<1>1. ASSUME Inv, WaitInv PROVE WedgedOnlyByAHold
  <2>1. CASE mode = "wedged"
    BY <1>1, <2>1 DEF Inv, Guarding, WedgedOnlyByAHold
  <2>2. CASE mode # "wedged"
    <3>1. SUFFICES ASSUME Wedged, lsusp = {}
                   PROVE  gsusp # {} /\ pc[Primary] \in Blocker
      BY DEF WedgedOnlyByAHold
    <3>2. /\ loc \in Waits /\ mode \in {"cont", "step"} /\ pend = {} /\ ~dead
          /\ \A t \in Alive : Stuck(t)
      BY <1>1, <2>2, <3>1 DEF Wedged, WaitInv
    <3>3. state # "IDLE" /\ Balanced
      BY <1>1, <3>2, WaitFacts
    <3>4. Primary \in Alive
      BY <1>1, <3>3, DebuggeeAssumption DEF WaitInv, Alive
    <3>5. ASSUME NEW t \in Alive \ gsusp
          PROVE  pc[t] \in Blocker
      <4>1. t \in Thread /\ life[t] = "alive"
        BY DEF Alive
      <4>2. susp[t] = Count(t \in lsusp) + Count(t \in gsusp)
        BY <3>3, <4>1 DEF Balanced
      <4>3. susp[t] = 0
        BY <3>1, <3>5, <4>2 DEF Count
      <4>4. Runnable(t)
        BY <3>2, <4>1, <4>3 DEF Runnable
      <4>5. QED
        BY <3>2, <4>4 DEF Stuck
    <3>6. PICK t \in Alive : pc[t] \notin Blocker
      BY <2>2, <3>1 DEF Wedged
    <3>7. QED
      BY <3>3, <3>4, <3>5, <3>6 DEF Balanced
  <2>3. QED
    BY <2>1, <2>2
<1>2. QED
  BY <1>1, InitInv, NextInv, WaitInit, WaitStep, PTL DEF Spec
===============================================================================
