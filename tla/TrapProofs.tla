------------------------------- MODULE TrapProofs -------------------------------
(***************************************************************************)
(* Proofs about the traps of a session: who owns a trap byte, for any      *)
(* number of threads, and, for a debuggee of one thread, that a running    *)
(* task has its breakpoints set and its thread on an instruction.          *)
(***************************************************************************)
EXTENDS SessionProofs

Temp == [addr : Insn \cup {0}, saved : Byte, enabled : BOOLEAN]

SetAt(a, table) == \E i \in DOMAIN table : table[i].enabled /\ table[i].addr = a

(* What the text, the table and the temporary trap have to agree on.  Owned  *)
(* is OwnedTraps for any three of them.                                      *)
Owned(text, table, tmp) ==
    \A a \in Insn : text[a] = "trap" <=> SetAt(a, table) \/ (tmp.enabled /\ tmp.addr = a)

(* No two entries of the table, or of the specifications run has saved, are  *)
(* for one address.                                                          *)
Distinct(table) ==
    \A i, j \in DOMAIN table : table[i].addr = table[j].addr => i = j

DistinctSpecs(specs) == \A i, j \in DOMAIN specs : specs[i] = specs[j] => i = j

(* A breakpoint that is set has saved the program's byte; the temporary trap *)
(* lies on no lifted breakpoint, and on one that is set it has saved a trap. *)
Bytes(table, tmp) ==
    /\ \A i \in DOMAIN table : table[i].enabled => table[i].saved = "orig"
    /\ tmp.enabled => /\ tmp.addr \in Insn
                      /\ ~DisabledAt(tmp.addr, table)
                      /\ tmp.saved = IF SetAt(tmp.addr, table) THEN "trap" ELSE "orig"

Trapped(text, table, tmp) ==
    Owned(text, table, tmp) /\ Distinct(table) /\ Bytes(table, tmp)
-------------------------------------------------------------------------------
(* One table is another with some entries set or lifted: the same addresses. *)
SameAddresses(new, table) ==
    /\ DOMAIN new = DOMAIN table
    /\ \A i \in DOMAIN table : new[i].addr = table[i].addr

LEMMA SameDistinct ==
    ASSUME NEW new, NEW table, SameAddresses(new, table), Distinct(table)
    PROVE  Distinct(new)
BY DEF SameAddresses, Distinct

(* A breakpoint is set or lifted, not both, where no address is given twice. *)
LEMMA SetOrLifted ==
    ASSUME NEW table \in Table, Distinct(table), NEW a
    PROVE  ~(SetAt(a, table) /\ DisabledAt(a, table))
BY TableEntries DEF SetAt, DisabledAt, Distinct

(* What reenable_breakpoints_after_step makes of a table. *)
LEMMA ReenabledEntries ==
    ASSUME NEW text \in Text, NEW table \in Table, NEW p
    PROVE  /\ SameAddresses(ReenabledBps(text, table, p), table)
           /\ \A i \in DOMAIN table :
                 ReenabledBps(text, table, p)[i].enabled <=> table[i].enabled \/ Revived(table, p, i)
           /\ \A i \in DOMAIN table :
                 ~Revived(table, p, i) =>
                     ReenabledBps(text, table, p)[i].saved = table[i].saved
BY TableEntries DEF ReenabledBps, SameAddresses, Revived

(* Breakpoints are set again over the program's own bytes. *)
LEMMA ReenabledTrapped ==
    ASSUME NEW text \in Text, NEW table \in Table, NEW tmp \in Temp, NEW p,
           Trapped(text, table, tmp)
    PROVE  Trapped(ReenabledCode(text, table, p), ReenabledBps(text, table, p), tmp)
<1> DEFINE new == ReenabledBps(text, table, p)
           ntext == ReenabledCode(text, table, p)
<1>1. /\ SameAddresses(new, table)
      /\ \A i \in DOMAIN table : new[i].enabled <=> table[i].enabled \/ Revived(table, p, i)
      /\ \A i \in DOMAIN table : ~Revived(table, p, i) => new[i].saved = table[i].saved
  BY ReenabledEntries
<1>2. ASSUME NEW i \in DOMAIN table, Revived(table, p, i)
      PROVE  new[i].saved = "orig" /\ (tmp.enabled => tmp.addr # table[i].addr)
  <2>1. DisabledAt(table[i].addr, table)
    BY <1>2 DEF Revived, DisabledAt
  <2>2. ~SetAt(table[i].addr, table)
    BY <2>1, SetOrLifted DEF Trapped
  <2>3. tmp.enabled => tmp.addr # table[i].addr
    BY <2>1 DEF Trapped, Bytes
  <2>4. table[i].addr \in Insn /\ DOMAIN table \subseteq Nat
    BY TableEntries
  <2>5. text[table[i].addr] = "orig"
    BY <2>2, <2>3, <2>4 DEF Trapped, Owned, Text, Byte
  <2>6. ~ \E j \in DOMAIN table :
             j < i /\ Revived(table, p, j) /\ table[j].addr = table[i].addr
    BY <2>4 DEF Trapped, Distinct
  <2>7. QED
    BY <1>2, <2>3, <2>5, <2>6 DEF ReenabledBps
<1>3. \A a \in Insn :
         ntext[a] = IF \E i \in DOMAIN table : Revived(table, p, i) /\ table[i].addr = a
                    THEN "trap" ELSE text[a]
  BY DEF ReenabledCode
<1> HIDE DEF new, ntext
<1>4. \A a : SetAt(a, new) <=> \/ SetAt(a, table)
                               \/ \E i \in DOMAIN table : Revived(table, p, i) /\ table[i].addr = a
  BY <1>1 DEF SetAt, SameAddresses
<1>5. Owned(ntext, new, tmp)
  BY <1>3, <1>4 DEF Owned, Trapped
<1>6. \A i \in DOMAIN new : new[i].enabled => new[i].saved = "orig"
  BY <1>1, <1>2 DEF SameAddresses, Trapped, Bytes
<1>7. ASSUME tmp.enabled
      PROVE  /\ tmp.addr \in Insn
             /\ ~DisabledAt(tmp.addr, new)
             /\ tmp.saved = IF SetAt(tmp.addr, new) THEN "trap" ELSE "orig"
  <2>1. ~DisabledAt(tmp.addr, new)
    BY <1>1, <1>7 DEF DisabledAt, SameAddresses, Trapped, Bytes
  <2>2. SetAt(tmp.addr, new) <=> SetAt(tmp.addr, table)
    BY <1>2, <1>4, <1>7
  <2>3. QED
    BY <1>7, <2>1, <2>2 DEF Trapped, Bytes
<1>8. Distinct(new)
  BY <1>1, SameDistinct DEF Trapped
<1>9. QED
  BY <1>5, <1>6, <1>7, <1>8 DEF Trapped, Bytes, new, ntext

(* cdbg_bp_disable(temp_bp) leaves the traps of the table and no other.      *)
LEMMA DisarmedTrapped ==
    ASSUME NEW text \in Text, NEW table \in Table, NEW tmp \in Temp,
           NEW none \in Temp, ~none.enabled,
           Trapped(text, table, tmp)
    PROVE  Trapped(Restored(text, tmp), table, none)
<1>1. CASE ~tmp.enabled
  BY <1>1 DEF Restored, Trapped, Owned, Bytes
<1>2. CASE tmp.enabled
  <2>1. \A a \in Insn : Restored(text, tmp)[a] = IF a = tmp.addr THEN tmp.saved ELSE text[a]
    BY <1>2 DEF Restored, Put
  <2>2. tmp.saved = IF SetAt(tmp.addr, table) THEN "trap" ELSE "orig"
    BY <1>2 DEF Trapped, Bytes
  <2>3. Owned(Restored(text, tmp), table, none)
    BY <1>2, <2>1, <2>2 DEF Trapped, Owned
  <2>4. QED
    BY <2>3 DEF Trapped, Bytes
<1>3. QED
  BY <1>1, <1>2

(* cdbg_bp_enable(temp_bp), where no breakpoint is lifted.                   *)
LEMMA PlantedTrapped ==
    ASSUME NEW text \in Text, NEW table \in Table,
           NEW none \in Temp, ~none.enabled, Trapped(text, table, none),
           NEW a \in Insn, ~DisabledAt(a, table)
    PROVE  Trapped(Planted(text, a), table, BpAt(text, a))
<1>1. \A b \in Insn : Planted(text, a)[b] = IF b = a THEN "trap" ELSE text[b]
  BY DEF Planted, Put
<1>2. /\ BpAt(text, a).enabled /\ BpAt(text, a).addr = a /\ BpAt(text, a).saved = text[a]
  BY DEF BpAt
<1>3. text[a] = IF SetAt(a, table) THEN "trap" ELSE "orig"
  BY DEF Trapped, Owned, Text, Byte
<1>4. Owned(Planted(text, a), table, BpAt(text, a))
  BY <1>1, <1>2 DEF Trapped, Owned
<1>5. QED
  BY <1>2, <1>3, <1>4 DEF Trapped, Bytes

(* handle_breakpoint_hit lifts a breakpoint that is set: the program's byte  *)
(* is in the text again, and the other traps are as they were.               *)
LEMMA LiftedTrapped ==
    ASSUME NEW text \in Text, NEW table \in Table,
           NEW none \in Temp, ~none.enabled, Trapped(text, table, none),
           NEW i \in DOMAIN table, table[i].enabled
    PROVE  /\ Trapped(Restored(text, table[i]), Lifted(table, i), none)
           /\ SameAddresses(Lifted(table, i), table)
           /\ \A j \in DOMAIN table :
                 Lifted(table, i)[j].enabled <=> table[j].enabled /\ j # i
<1> DEFINE new == Lifted(table, i)
<1>1. /\ SameAddresses(new, table)
      /\ \A j \in DOMAIN table : /\ new[j].enabled <=> table[j].enabled /\ j # i
                                 /\ new[j].saved = table[j].saved
  BY TableEntries DEF Lifted, SameAddresses, Bp
<1>2. \A a \in Insn : Restored(text, table[i])[a] =
                          IF a = table[i].addr THEN "orig" ELSE text[a]
  BY DEF Restored, Put, Trapped, Bytes
<1> HIDE DEF new
<1>3. \A a : SetAt(a, new) <=> SetAt(a, table) /\ a # table[i].addr
  BY <1>1 DEF SetAt, SameAddresses, Trapped, Distinct
<1>4. Owned(Restored(text, table[i]), new, none)
  BY <1>2, <1>3 DEF Trapped, Owned
<1>5. Bytes(new, none)
  BY <1>1 DEF Trapped, Bytes, SameAddresses
<1>6. QED
  BY <1>1, <1>4, <1>5, SameDistinct DEF Trapped, new

(* cmd_break at an address that has no breakpoint yet.                       *)
LEMMA AppendedTrapped ==
    ASSUME NEW text \in Text, NEW table \in Table,
           NEW none \in Temp, ~none.enabled, Trapped(text, table, none),
           NEW a \in Insn, \A i \in DOMAIN table : table[i].addr # a
    PROVE  Trapped(Planted(text, a), Append(table, BpAt(text, a)), none)
<1> DEFINE new == Append(table, BpAt(text, a))
<1>1. /\ DOMAIN new = DOMAIN table \cup {Len(table) + 1}
      /\ Len(table) + 1 \notin DOMAIN table
      /\ \A i \in DOMAIN table : new[i] = table[i]
      /\ new[Len(table) + 1] = BpAt(text, a)
  <2>1. table \in Seq(Bp) /\ Len(table) \in Nat /\ DOMAIN table = 1 .. Len(table)
    BY TableEntries DEF Table
  <2>2. BpAt(text, a) \in Bp
    BY DEF BpAt, Bp, Text
  <2>3. QED
    BY <2>1, <2>2, AppendProperties
<1>2. /\ BpAt(text, a).enabled /\ BpAt(text, a).addr = a /\ BpAt(text, a).saved = text[a]
  BY DEF BpAt
<1> HIDE DEF new
<1>3. \A b : SetAt(b, new) <=> SetAt(b, table) \/ b = a
  BY <1>1, <1>2 DEF SetAt
<1>4. \A b \in Insn : Planted(text, a)[b] = IF b = a THEN "trap" ELSE text[b]
  BY DEF Planted, Put
<1>5. Owned(Planted(text, a), new, none)
  BY <1>3, <1>4 DEF Trapped, Owned
<1>6. Distinct(new)
  BY <1>1, <1>2 DEF Trapped, Distinct
<1>7. text[a] = "orig"
  BY DEF Trapped, Owned, SetAt, Text, Byte
<1>8. Bytes(new, none)
  BY <1>1, <1>2, <1>7 DEF Trapped, Bytes
<1>9. QED
  BY <1>5, <1>6, <1>8 DEF Trapped, new

(* delete_breakpoint_at: the entry goes and its trap with it, the later ones *)
(* move down.                                                                *)
LEMMA DeletedEntries ==
    ASSUME NEW table \in Table, NEW i \in DOMAIN table
    PROVE  /\ \A j \in DOMAIN Deleted(table, i) :
                 \E k \in DOMAIN table \ {i} : /\ Deleted(table, i)[j] = table[k]
                                               /\ k = IF j < i THEN j ELSE j + 1
           /\ \A k \in DOMAIN table \ {i} :
                 \E j \in DOMAIN Deleted(table, i) : Deleted(table, i)[j] = table[k]
<1>1. Len(table) \in Nat /\ DOMAIN table = 1 .. Len(table)
  BY TableEntries
<1>2. /\ DOMAIN Deleted(table, i) = 1 .. (Len(table) - 1)
      /\ \A j \in 1 .. (Len(table) - 1) :
            Deleted(table, i)[j] = IF j < i THEN table[j] ELSE table[j + 1]
  BY DEF Deleted
<1>3. ASSUME NEW k \in DOMAIN table \ {i}
      PROVE  \E j \in DOMAIN Deleted(table, i) : Deleted(table, i)[j] = table[k]
  <2>1. CASE k < i
    <3>1. k \in 1 .. (Len(table) - 1)
      BY <1>1, <2>1
    <3>2. QED
      BY <1>2, <2>1, <3>1
  <2>2. CASE k > i
    <3>1. k - 1 \in 1 .. (Len(table) - 1) /\ ~(k - 1 < i) /\ k - 1 + 1 = k
      BY <1>1, <2>2
    <3>2. QED
      BY <1>2, <3>1
  <2>3. QED
    BY <1>1, <2>1, <2>2
<1>4. ASSUME NEW j \in DOMAIN Deleted(table, i)
      PROVE  \E k \in DOMAIN table \ {i} : /\ Deleted(table, i)[j] = table[k]
                                           /\ k = IF j < i THEN j ELSE j + 1
  <2>1. j \in 1 .. (Len(table) - 1)
    BY <1>2
  <2>2. CASE j < i
    BY <1>1, <1>2, <2>1, <2>2
  <2>3. CASE ~(j < i)
    <3>1. j + 1 \in DOMAIN table \ {i}
      BY <1>1, <2>1, <2>3
    <3>2. QED
      BY <1>2, <2>1, <2>3, <3>1
  <2>4. QED
    BY <2>2, <2>3
<1>5. QED
  BY <1>3, <1>4

LEMMA DeletedDistinct ==
    ASSUME NEW table \in Table, Distinct(table), NEW i \in DOMAIN table
    PROVE  Distinct(Deleted(table, i))
<1> DEFINE new == Deleted(table, i)
<1>1. \A j \in DOMAIN new : \E k \in DOMAIN table : /\ new[j] = table[k]
                                                    /\ k = IF j < i THEN j ELSE j + 1
  BY DeletedEntries
<1>2. DOMAIN new \subseteq Nat /\ i \in Nat
  BY TableEntries DEF Deleted
<1> HIDE DEF new
<1>3. \A j, l \in DOMAIN new : new[j].addr = new[l].addr => j = l
  BY <1>1, <1>2 DEF Distinct
<1>4. QED
  BY <1>3 DEF Distinct, new

LEMMA DeletedTrapped ==
    ASSUME NEW text \in Text, NEW table \in Table,
           NEW none \in Temp, ~none.enabled, Trapped(text, table, none),
           NEW i \in DOMAIN table
    PROVE  Trapped(Restored(text, table[i]), Deleted(table, i), none)
<1> DEFINE new == Deleted(table, i)
<1>1. /\ \A j \in DOMAIN new : \E k \in DOMAIN table \ {i} : new[j] = table[k]
      /\ \A k \in DOMAIN table \ {i} : \E j \in DOMAIN new : new[j] = table[k]
  BY DeletedEntries
<1>2. Distinct(new)
  BY DeletedDistinct DEF Trapped
<1> HIDE DEF new
<1>3. \A a : SetAt(a, new) <=> SetAt(a, table) /\ ~(table[i].enabled /\ a = table[i].addr)
  BY <1>1 DEF SetAt, Trapped, Distinct
<1>4. \A a \in Insn : Restored(text, table[i])[a] =
                          IF table[i].enabled /\ a = table[i].addr THEN "orig" ELSE text[a]
  BY DEF Restored, Put, Trapped, Bytes
<1>5. Owned(Restored(text, table[i]), new, none)
  BY <1>3, <1>4 DEF Trapped, Owned
<1>6. Bytes(new, none)
  BY <1>1 DEF Trapped, Bytes
<1>7. QED
  BY <1>2, <1>5, <1>6 DEF Trapped, new

LEMMA EmptyTable ==
    /\ <<>> \in Table /\ DOMAIN <<>> = {} /\ Distinct(<<>>)
    /\ \A none \in Temp : ~none.enabled => Bytes(<<>>, none)
    /\ \A a : ~SetAt(a, <<>>)
<1>1. <<>> \in Table /\ DOMAIN <<>> = {}
  BY EmptySeq DEF Table
<1>2. QED
  BY <1>1 DEF Distinct, Bytes, SetAt

(* "del all": the program's own bytes are in the text again. *)
LEMMA AllRestoredTrapped ==
    ASSUME NEW text \in Text, NEW table \in Table,
           NEW none \in Temp, ~none.enabled, Trapped(text, table, none)
    PROVE  Trapped(AllRestored(text, table), <<>>, none)
<1> DEFINE AtAddr(a) == {i \in DOMAIN table : table[i].enabled /\ table[i].addr = a}
           First(a) == CHOOSE i \in AtAddr(a) : \A j \in AtAddr(a) : i <= j
<1>1. ASSUME NEW a \in Insn
      PROVE  AllRestored(text, table)[a] = "orig"
  <2>1. CASE AtAddr(a) = {}
    <3>1. ~SetAt(a, table)
      BY <2>1 DEF SetAt
    <3>2. text[a] = "orig"
      BY <3>1 DEF Trapped, Owned, Text, Byte
    <3>3. QED
      BY <2>1, <3>2 DEF AllRestored
  <2>2. CASE AtAddr(a) # {}
    <3>1. AtAddr(a) \subseteq Nat
      BY TableEntries
    <3>2. \E i \in AtAddr(a) : \A j \in AtAddr(a) : i <= j
      BY <2>2, <3>1, NatMin
    <3>3. First(a) \in AtAddr(a)
      BY <3>2
    <3> HIDE DEF First
    <3>4. table[First(a)].saved = "orig"
      BY <3>3 DEF Trapped, Bytes
    <3>5. QED
      BY <2>2, <3>4 DEF AllRestored, First
  <2>3. QED
    BY <2>1, <2>2
<1>2. Owned(AllRestored(text, table), <<>>, none)
  BY <1>1, EmptyTable DEF Owned
<1>3. QED
  BY <1>2, EmptyTable DEF Trapped

(* cdbg_run's second pass through cmd_break, in the new process.             *)
LEMMA ReplantedTrapped ==
    ASSUME NEW specs \in Seq(Insn), DistinctSpecs(specs), NEW none \in Temp, ~none.enabled
    PROVE  /\ Trapped(ReplantedCode(specs), ReplantedBps(specs), none)
           /\ DOMAIN ReplantedBps(specs) = DOMAIN specs
           /\ \A i \in DOMAIN specs : /\ ReplantedBps(specs)[i].addr = specs[i]
                                      /\ ReplantedBps(specs)[i].enabled
<1> DEFINE new == ReplantedBps(specs)
<1>1. DOMAIN specs \subseteq Nat
  BY LenProperties
<1>2. DOMAIN new = DOMAIN specs /\ \A i \in DOMAIN specs : new[i].addr = specs[i] /\ new[i].enabled
  BY DEF ReplantedBps
<1>3. \A i \in DOMAIN specs : new[i].saved = "orig"
  BY <1>1 DEF ReplantedBps, DistinctSpecs
<1> HIDE DEF new
<1>4. \A a : SetAt(a, new) <=> \E i \in DOMAIN specs : specs[i] = a
  BY <1>2 DEF SetAt
<1>5. Owned(ReplantedCode(specs), new, none)
  BY <1>4 DEF Owned, ReplantedCode
<1>6. Distinct(new) /\ Bytes(new, none)
  BY <1>2, <1>3 DEF Distinct, DistinctSpecs, Bytes
<1>7. QED
  BY <1>2, <1>5, <1>6 DEF Trapped, new

LEMMA AllDisabledEntries ==
    ASSUME NEW table \in Table
    PROVE  SameAddresses(AllDisabled(table), table)
BY TableEntries DEF AllDisabled, SameAddresses, Bp
-------------------------------------------------------------------------------
(* Only addresses the user gives are in the table. *)
Given(table) == \A i \in DOMAIN table : table[i].addr \in BreakAt

LEMMA SameGiven ==
    ASSUME NEW new, NEW table, SameAddresses(new, table), Given(table)
    PROVE  Given(new)
BY DEF SameAddresses, Given

(* What makes OwnedTraps inductive. *)
TrapInv ==
    /\ Distinct(bps) /\ Given(bps)
    /\ DistinctSpecs(saved) /\ \A i \in DOMAIN saved : saved[i] \in BreakAt
    /\ temp.enabled => loc \in {"entry", "overcall", "call"}
    /\ state # "IDLE" => Trapped(code, bps, temp)

(* The same of what a handler passes on from one of its steps to the next. *)
TrapView(m, tmp) == Trapped(m.code, m.bps, tmp) /\ Given(m.bps)

LEMMA NoTempIs == NoTemp \in Temp /\ ~NoTemp.enabled
BY NoTempType DEF NoTemp, Temp

LEMMA AnyNoTemp ==
    ASSUME NEW m, NEW tmp, NEW none, ~tmp.enabled, ~none.enabled, TrapView(m, tmp)
    PROVE  TrapView(m, none)
BY DEF TrapView, Trapped, Owned, Bytes

LEMMA NowTrap ==
    ASSUME TypeOK, TrapInv, state # "IDLE"
    PROVE  TrapView(Now, temp) /\ temp \in Temp /\ Now \in View
BY NowType DEF TrapInv, TrapView, TypeOK, Temp

LEMMA WaitedTrap ==
    ASSUME TypeOK, TrapInv, state # "IDLE"
    PROVE  TrapView(Waited, temp) /\ temp \in Temp /\ Waited \in View
<1>1. code \in Text /\ bps \in Table /\ temp \in Temp
  BY DEF TypeOK, DebuggeeTypeOK, Text, Table, Temp
<1>2. Trapped(ReenabledCode(code, bps, pc[cur]), ReenabledBps(code, bps, pc[cur]), temp)
  BY <1>1, ReenabledTrapped DEF TrapInv
<1>3. Given(ReenabledBps(code, bps, pc[cur]))
  BY <1>1, ReenabledEntries, SameGiven DEF TrapInv
<1>4. QED
  BY <1>1, <1>2, <1>3, WaitedType DEF TrapView, Waited

LEMMA DisarmedTrap ==
    ASSUME TypeOK, NEW m \in View, TrapView(m, temp)
    PROVE  TrapView(Disarmed(m), NoTemp) /\ Disarmed(m) \in View
<1>1. m.code \in Text /\ m.bps \in Table /\ temp \in Temp
  BY DEF View, TypeOK, Temp
<1>2. Trapped(Restored(m.code, temp), m.bps, NoTemp)
  BY <1>1, NoTempIs, DisarmedTrapped DEF TrapView
<1>3. Disarmed(m).code = Restored(m.code, temp) /\ Disarmed(m).bps = m.bps
  BY DEF Disarmed, View
<1>4. QED
  BY <1>2, <1>3, DisarmedType DEF TrapView

LEMMA RewoundTrap ==
    ASSUME NEW m \in View, NEW tmp, TrapView(m, tmp)
    PROVE  TrapView(Rewound(m), tmp) /\ Rewound(m) \in View
<1>1. Rewound(m).code = m.code /\ Rewound(m).bps = m.bps
  BY DEF Rewound, View
<1>2. QED
  BY <1>1, RewoundType DEF TrapView

LEMMA FocusedTrap ==
    ASSUME NEW m \in View, NEW tmp, TrapView(m, tmp)
    PROVE  TrapView(Focused(m), tmp) /\ Focused(m) \in View
<1>1. Focused(m).code = m.code /\ Focused(m).bps = m.bps
  BY DEF Focused, View
<1>2. QED
  BY <1>1, FocusedType DEF TrapView

LEMMA HandledTrap ==
    ASSUME NEW m \in View, TrapView(m, NoTemp), IsTrap(m.pc[m.cur], m.bps)
    PROVE  TrapView(Handled(m), NoTemp) /\ Handled(m) \in View
<1> DEFINE i == FirstMatch(m.pc[m.cur], m.bps)
           l == [m EXCEPT !.code = Restored(m.code, m.bps[i]), !.bps = Lifted(m.bps, i)]
<1>1. m.bps \in Table /\ m.code \in Text
  BY DEF View
<1>2. i \in DOMAIN m.bps /\ m.bps[i].enabled
  BY <1>1, FirstMatchIn DEF Matches
<1>3. m.bps[i].saved \in Byte
  BY <1>1, <1>2, TableEntries
<1>4. Restored(m.code, m.bps[i]) \in Text /\ Lifted(m.bps, i) \in Table
  BY <1>1, <1>3, RestoredType, LiftedType
<1> HIDE DEF i
<1>5. l \in View /\ l.code = Restored(m.code, m.bps[i]) /\ l.bps = Lifted(m.bps, i)
  BY <1>4 DEF View
<1>6. /\ Trapped(Restored(m.code, m.bps[i]), Lifted(m.bps, i), NoTemp)
      /\ SameAddresses(Lifted(m.bps, i), m.bps)
  BY <1>1, <1>2, NoTempIs, LiftedTrapped DEF TrapView
<1>7. TrapView(l, NoTemp)
  BY <1>5, <1>6, SameGiven DEF TrapView
<1>8. Handled(m) = Rewound(l)
  BY DEF Handled, i
<1> HIDE DEF l
<1>9. QED
  BY <1>5, <1>7, <1>8, RewoundTrap

LEMMA ReportedTrap ==
    ASSUME NEW m \in View, TrapView(m, NoTemp)
    PROVE  TrapView(Reported(m), NoTemp) /\ Reported(m) \in View
BY FocusedTrap, HandledTrap DEF Reported

LEMMA ReturnedTrap ==
    ASSUME TypeOK, NEW m \in View, TrapView(m, temp)
    PROVE  TrapView(Returned(m), NoTemp) /\ Returned(m) \in View
<1>1. Disarmed(m) \in View /\ TrapView(Disarmed(m), NoTemp)
  BY DisarmedTrap
<1>2. \A q : LET d == [Disarmed(m) EXCEPT !.pc = q]
             IN  d.code = Disarmed(m).code /\ d.bps = Disarmed(m).bps
  BY <1>1 DEF View
<1>3. QED
  BY <1>1, <1>2, ReportedTrap, ReturnedType DEF Returned, TrapView
-------------------------------------------------------------------------------
(* After a handler: what it has made of the text and the table stays right.  *)
LEMMA BecomeTrap ==
    ASSUME TrapInv, NEW m, NEW tmp, Become(m), TrapView(m, tmp),
           temp' = tmp, tmp.enabled => loc' \in {"entry", "overcall", "call"},
           saved' = saved
    PROVE  TrapInv'
BY DEF TrapInv, TrapView, Become, Trapped

(* Or it has touched neither, and goes on only if it has a temporary trap.   *)
LEMMA SameTrap ==
    ASSUME TrapInv, UNCHANGED <<code, bps, temp, saved>>,
           state' = "IDLE" \/ state # "IDLE" \/ state' = state,
           ~temp.enabled \/ loc' \in {"entry", "overcall", "call"}
    PROVE  TrapInv'
BY DEF TrapInv

(* Or the process is gone. *)
LEMMA NoProcessTrap ==
    ASSUME Inv, TrapInv, NoProcess, saved' = saved \/ saved' = <<>>
    PROVE  TrapInv'
<1>1. bps' = AllDisabled(bps) /\ state' = "IDLE" /\ temp' = NoTemp
  BY DEF NoProcess
<1>2. bps \in Table
  BY DEF Inv, TypeOK, Table
<1>3. SameAddresses(bps', bps)
  BY <1>1, <1>2, AllDisabledEntries
<1>4. Distinct(bps') /\ Given(bps')
  BY <1>3, SameDistinct, SameGiven DEF TrapInv
<1>5. DistinctSpecs(saved') /\ \A i \in DOMAIN saved' : saved'[i] \in BreakAt
  BY EmptyTable DEF TrapInv, DistinctSpecs
<1>6. QED
  BY <1>1, <1>4, <1>5, NoTempIs DEF TrapInv

LEMMA RunTrap == Inv /\ TrapInv /\ Run => TrapInv'
<1> SUFFICES ASSUME Inv, TrapInv, Run PROVE TrapInv'
  OBVIOUS
<1>1. /\ saved' = [i \in DOMAIN bps |-> bps[i].addr]
      /\ bps' = <<>> /\ temp' = NoTemp /\ code' = [a \in Insn |-> "orig"]
  BY DEF Run, Launch, Spawned, Fresh
<1>2. DistinctSpecs(saved') /\ \A i \in DOMAIN saved' : saved'[i] \in BreakAt
  BY <1>1 DEF TrapInv, Distinct, DistinctSpecs, Given
<1>3. Trapped(code', bps', temp')
  BY <1>1, EmptyTable, NoTempIs DEF Trapped, Owned
<1>4. Given(bps')
  BY <1>1, EmptyTable DEF Given
<1>5. QED
  BY <1>1, <1>2, <1>3, <1>4, NoTempIs DEF TrapInv, Trapped

(* What cmd_break sets again are some of the saved specifications.           *)
LEMMA SurvivingSpecs ==
    ASSUME saved \in Seq(Insn), DistinctSpecs(saved), NEW specs \in Surviving,
           \A i \in DOMAIN saved : saved[i] \in BreakAt
    PROVE  /\ specs \in Seq(Insn) /\ DistinctSpecs(specs)
           /\ \A i \in DOMAIN specs : specs[i] \in BreakAt
<1>1. specs \in Seq(Insn)
  BY SurvivingType
<1>2. CASE specs = saved
  BY <1>2
<1>3. CASE specs \in SomeOf(saved)
  <2>1. PICK f \in [DOMAIN specs -> DOMAIN saved] :
           \A i \in DOMAIN specs : /\ specs[i] = saved[f[i]]
                                  /\ \A j \in DOMAIN specs : i < j => f[i] < f[j]
    BY <1>3 DEF SomeOf
  <2>2. DOMAIN specs = 1 .. Len(specs) /\ DOMAIN saved = 1 .. Len(saved)
        /\ Len(specs) \in Nat /\ Len(saved) \in Nat
    BY <1>1, LenProperties
  <2>3. ASSUME NEW i \in DOMAIN specs, NEW j \in DOMAIN specs, specs[i] = specs[j]
        PROVE  i = j
    <3>1. f[i] \in DOMAIN saved /\ f[j] \in DOMAIN saved /\ saved[f[i]] = saved[f[j]]
      BY <2>1, <2>3
    <3>2. f[i] = f[j]
      BY <3>1 DEF DistinctSpecs
    <3>3. ~(i < j) /\ ~(j < i)
      BY <2>1, <2>2, <3>1, <3>2
    <3>4. QED
      BY <2>2, <3>3
  <2>4. QED
    BY <1>1, <2>1, <2>3 DEF DistinctSpecs
<1>4. QED
  BY <1>2, <1>3 DEF Surviving

(* The saved specifications are planted again, then run's own trap.          *)
LEMMA ExecStopTrap == Inv /\ TrapInv /\ ExecStop => TrapInv'
<1> SUFFICES ASSUME Inv, TrapInv, ExecStop PROVE TrapInv'
  OBVIOUS
<1> PICK specs \in Surviving : Replant(specs)
  BY DEF ExecStop
<1>1. specs \in Seq(Insn) /\ DistinctSpecs(specs)
      /\ \A i \in DOMAIN specs : specs[i] \in BreakAt
  BY SurvivingSpecs DEF Inv, TypeOK, TrapInv
<1>2. /\ Trapped(ReplantedCode(specs), ReplantedBps(specs), NoTemp)
      /\ DOMAIN ReplantedBps(specs) = DOMAIN specs
      /\ \A i \in DOMAIN specs : /\ ReplantedBps(specs)[i].addr = specs[i]
                                 /\ ReplantedBps(specs)[i].enabled
  BY <1>1, NoTempIs, ReplantedTrapped
<1>3. bps' = ReplantedBps(specs) /\ saved' = <<>>
  BY DEF ExecStop, Replant
<1>4. Given(bps') /\ Distinct(bps')
  BY <1>1, <1>2, <1>3 DEF Given, Trapped
<1>5. DistinctSpecs(saved') /\ \A i \in DOMAIN saved' : saved'[i] \in BreakAt
  BY <1>3, EmptyTable DEF DistinctSpecs
<1>6. CASE Entry = 0
  <2>1. code' = ReplantedCode(specs) /\ temp' = NoTemp
    BY <1>6 DEF Replant
  <2>2. QED
    BY <1>2, <1>3, <1>4, <1>5, <2>1, NoTempIs DEF TrapInv
<1>7. CASE Entry # 0
  <2>1. /\ code' = Planted(ReplantedCode(specs), Entry)
        /\ temp' = BpAt(ReplantedCode(specs), Entry)
        /\ loc' = "entry"
    BY <1>7 DEF Replant, Resume
  <2>2. Entry \in Insn
    BY <1>7, SessionAssumption
  <2>3. ~DisabledAt(Entry, bps')
    BY <1>2, <1>3 DEF DisabledAt
  <2>4. ReplantedCode(specs) \in Text /\ ReplantedBps(specs) \in Table
    BY <1>1, ReplantedType
  <2>5. Trapped(code', bps', temp')
    BY <1>2, <1>3, <2>1, <2>2, <2>3, <2>4, NoTempIs, PlantedTrapped
  <2>6. QED
    BY <1>4, <1>5, <2>1, <2>5 DEF TrapInv
<1>8. QED
  BY <1>6, <1>7

LEMMA EntryStopTrap == Inv /\ TrapInv /\ EntryStop => TrapInv'
<1> SUFFICES ASSUME Inv, TrapInv, EntryStop PROVE TrapInv'
  OBVIOUS
<1>1. loc = "entry" /\ saved' = saved
  BY DEF EntryStop
<1>2. TrapView(Waited, temp) /\ Waited \in View
  BY <1>1, WaitFacts, WaitedTrap DEF Waits, Inv
<1>3. TrapView(Disarmed(Waited), NoTemp) /\ Disarmed(Waited) \in View
  BY <1>2, DisarmedTrap DEF Inv
<1>4. TrapView(Rewound(Disarmed(Waited)), NoTemp)
  BY <1>3, RewoundTrap
<1>5. PICK m : Prompt(m) /\ TrapView(m, NoTemp)
  BY <1>3, <1>4 DEF EntryStop
<1>6. QED
  BY <1>1, <1>5, BecomeTrap, NoTempIs DEF Prompt

(* Commands and handlers that touch no byte of the text.                     *)
LEMMA ContinueTrap == Inv /\ TrapInv /\ (Continue \/ Si \/ StepNoLine) => TrapInv'
<1> SUFFICES ASSUME Inv, TrapInv, Continue \/ Si \/ StepNoLine PROVE TrapInv'
  OBVIOUS
<1>1. UNCHANGED <<code, bps, temp, saved>> /\ loc = "prompt" /\ state # "IDLE"
  BY DEF Continue, Si, StepNoLine, MayStep, Breakpoints
<1>2. ~temp.enabled
  BY <1>1 DEF TrapInv
<1>3. QED
  BY <1>1, <1>2, SameTrap

LEMMA StillTrap ==
    ASSUME TrapInv, UNCHANGED <<code, bps, temp, saved, state>>, ~temp.enabled \/ loc' = loc
    PROVE  TrapInv'
BY DEF TrapInv

LEMMA OverContStopTrap == Inv /\ TrapInv /\ OverContStop => TrapInv'
<1> SUFFICES ASSUME Inv, TrapInv, OverContStop PROVE TrapInv'
  OBVIOUS
<1>1. loc = "overcont" /\ temp' = temp /\ saved' = saved
  BY DEF OverContStop
<1>2. state # "IDLE" /\ ~temp.enabled
  BY <1>1, WaitFacts DEF TrapInv, Waits
<1>3. CASE WaitFails
  BY <1>1, <1>2, <1>3, SameTrap DEF OverContStop
<1>4. CASE ~WaitFails
  <2>1. Become(Waited)
    BY <1>4 DEF OverContStop
  <2>2. TrapView(Waited, temp)
    BY <1>2, WaitedTrap DEF Inv
  <2>3. QED
    BY <1>1, <1>2, <2>1, <2>2, BecomeTrap
<1>5. QED
  BY <1>3, <1>4

LEMMA OverContExitTrap == TrapInv /\ OverContExit => TrapInv'
BY SameTrap DEF OverContExit, TakeExit, TrapInv, Breakpoints

(* The waits of continue, si and a step without a line.                      *)
LEMMA ReportedStopTrap == Inv /\ TrapInv /\ (ReportedStop \/ SiStop) => TrapInv'
<1> SUFFICES ASSUME Inv, TrapInv, ReportedStop \/ SiStop PROVE TrapInv'
  OBVIOUS
<1>1. loc \in {"cont", "step1", "si"} /\ saved' = saved
  BY DEF ReportedStop, SiStop
<1>2. state # "IDLE" /\ ~temp.enabled
  BY <1>1, WaitFacts DEF TrapInv, Waits
<1>3. CASE UNCHANGED <<code, bps, pc, cur, temp>>
  BY <1>1, <1>2, <1>3, SameTrap
<1>4. CASE Prompt(Reported(Waited))
  <2>1. TrapView(Waited, NoTemp) /\ Waited \in View
    BY <1>2, WaitedTrap, AnyNoTemp, NoTempIs DEF Inv
  <2>2. TrapView(Reported(Waited), NoTemp)
    BY <2>1, ReportedTrap
  <2>3. QED
    BY <1>1, <1>4, <2>2, BecomeTrap, NoTempIs DEF Prompt
<1>5. QED
  BY <1>3, <1>4 DEF ReportedStop, SiStop

(* A call is run to a trap that lies on no lifted breakpoint.                *)
Clear(m) == AtCall(m) => ~DisabledAt(CallRet[m.pc[m.cur]], m.bps)

LEMMA LoopHeadTrap ==
    ASSUME TrapInv, saved' = saved,
           NEW m \in View, TrapView(m, NoTemp),
           NEW kind \in {"step", "next"}, LoopHead(kind, m),
           kind = "next" => Clear(m)
    PROVE  TrapInv'
<1>1. CASE Become(m) /\ temp' = NoTemp
  BY <1>1, BecomeTrap, NoTempIs
<1>2. CASE kind = "next" /\ AtCall(m)
  <2> DEFINE ret == CallRet[m.pc[m.cur]]
             r == [m EXCEPT !.code = Planted(m.code, ret)]
  <2>1. ret \in Insn /\ m.code \in Text /\ m.bps \in Table
    BY <1>2, CallType DEF View
  <2>2. ~DisabledAt(ret, m.bps)
    BY <1>2 DEF Clear
  <2>3. /\ Become(r) /\ temp' = BpAt(m.code, ret) /\ ResumeFrom(m, "overcall", "call")
    BY <1>2 DEF LoopHead, NextHead
  <2>4. r.code = Planted(m.code, ret) /\ r.bps = m.bps
    BY DEF View
  <2>5. loc' \in {"overcall", "call"}
    BY <2>3, ResumeFromHow
  <2> HIDE DEF ret, r
  <2>6. TrapView(r, BpAt(m.code, ret))
    BY <2>1, <2>2, <2>4, NoTempIs, PlantedTrapped DEF TrapView
  <2>7. QED
    BY <2>3, <2>5, <2>6, BecomeTrap
<1>3. QED
  BY <1>1, <1>2 DEF LoopHead, StepHead, NextHead

LEMMA LoopStartsTrap ==
    ASSUME Inv, TrapInv, NEW kind \in {"step", "next"}, LoopStarts(kind),
           kind = "next" => Clear(Now)
    PROVE  TrapInv'
<1>1. loc = "prompt" /\ state # "IDLE" /\ saved' = saved /\ LoopHead(kind, Now)
  BY DEF LoopStarts, MayStep
<1>2. ~temp.enabled
  BY <1>1 DEF TrapInv
<1>3. TrapView(Now, NoTemp) /\ Now \in View
  BY <1>1, <1>2, NowTrap, AnyNoTemp, NoTempIs DEF Inv
<1>4. QED
  BY <1>1, <1>3, LoopHeadTrap

LEMMA LoopAbortsTrap ==
    ASSUME Inv, TrapInv, state # "IDLE", LoopAborts
    PROVE  TrapInv'
<1>1. Become(Disarmed(Now)) /\ temp' = NoTemp /\ saved' = saved
  BY DEF LoopAborts
<1>2. TrapView(Disarmed(Now), NoTemp)
  BY NowTrap, DisarmedTrap DEF Inv
<1>3. QED
  BY <1>1, <1>2, BecomeTrap, NoTempIs

LEMMA LoopTailTrap ==
    ASSUME Inv, TrapInv, NEW m \in View, TrapView(m, NoTemp),
           NEW kind \in {"step", "next"}, LoopTail(m, kind),
           kind = "next" => Clear(m)
    PROVE  TrapInv'
<1>1. saved' = saved
  BY DEF LoopTail
<1>2. CASE LoopEnds(m)
  <2>1. TrapView(Reported(m), NoTemp)
    BY ReportedTrap
  <2>2. PICK q : Prompt(q) /\ TrapView(q, NoTemp)
    BY <1>2, <2>1 DEF LoopEnds
  <2>3. QED
    BY <1>1, <2>2, BecomeTrap, NoTempIs DEF Prompt
<1>3. CASE Become(m) /\ temp' = NoTemp
  BY <1>1, <1>3, BecomeTrap, NoTempIs
<1>4. CASE LoopHead(kind, m)
  BY <1>1, <1>4, LoopHeadTrap
<1>5. QED
  BY <1>2, <1>3, <1>4 DEF LoopTail

LEMMA LoopStopTrap ==
    ASSUME Inv, TrapInv, StepStop \/ NextStop, NextStop => Clear(Waited)
    PROVE  TrapInv'
<1>1. loc \in {"step", "next"} /\ state # "IDLE" /\ ~temp.enabled
  BY WaitFacts DEF StepStop, NextStop, TrapInv, Waits, LoopWaits
<1>2. TrapView(Waited, NoTemp) /\ Waited \in View
  BY <1>1, WaitedTrap, AnyNoTemp, NoTempIs DEF Inv
<1>3. CASE LoopAborts
  BY <1>1, <1>3, LoopAbortsTrap
<1>4. CASE StepStop /\ LoopTail(Waited, "step")
  BY <1>2, <1>4, LoopTailTrap
<1>5. CASE NextStop /\ LoopTail(Waited, "next")
  BY <1>2, <1>5, LoopTailTrap
<1>6. QED
  BY <1>3, <1>4, <1>5 DEF StepStop, NextStop

LEMMA OverCallStopTrap == Inv /\ TrapInv /\ OverCallStop => TrapInv'
<1> SUFFICES ASSUME Inv, TrapInv, OverCallStop PROVE TrapInv'
  OBVIOUS
<1>1. loc = "overcall" /\ state # "IDLE"
  BY WaitFacts DEF OverCallStop, Waits, LoopWaits
<1>2. CASE WaitFails
  BY <1>1, <1>2, LoopAbortsTrap DEF OverCallStop
<1>3. CASE ~WaitFails
  <2>1. Become(Waited) /\ loc' = "call" /\ temp' = temp /\ saved' = saved
    BY <1>3 DEF OverCallStop, Resume
  <2>2. TrapView(Waited, temp)
    BY <1>1, WaitedTrap DEF Inv
  <2>3. QED
    BY <2>1, <2>2, BecomeTrap
<1>4. QED
  BY <1>2, <1>3

LEMMA CallStopTrap ==
    ASSUME Inv, TrapInv, CallStop, Clear(Returned(Waited))
    PROVE  TrapInv'
<1>1. loc = "call" /\ state # "IDLE"
  BY WaitFacts DEF CallStop, Waits, LoopWaits
<1>2. TrapView(Waited, temp) /\ Waited \in View
  BY <1>1, WaitedTrap DEF Inv
<1>3. TrapView(Returned(Waited), NoTemp) /\ Returned(Waited) \in View
  BY <1>2, ReturnedTrap DEF Inv
<1>4. CASE LoopAborts
  BY <1>1, <1>4, LoopAbortsTrap
<1>5. CASE LoopTail(Returned(Waited), "next")
  BY <1>3, <1>5, LoopTailTrap
<1>6. QED
  BY <1>4, <1>5 DEF CallStop

(* break, where no address is ever given twice.                              *)
LEMMA BreakTrap ==
    ASSUME Inv, TrapInv, Dup = FALSE, NEW a \in BreakAt, Break(a)
    PROVE  TrapInv'
<1>1. /\ loc = "prompt" /\ state # "IDLE" /\ state' = state /\ loc' = loc
      /\ temp' = temp /\ saved' = saved
      /\ \A i \in DOMAIN bps : bps[i].addr # a
      /\ bps' = Append(bps, BpAt(code, a)) /\ code' = Planted(code, a)
  BY DEF Break, StillStopped
<1>2. code \in Text /\ bps \in Table /\ temp \in Temp /\ ~temp.enabled /\ a \in Insn
  BY <1>1, SessionAssumption
  DEF Inv, TypeOK, DebuggeeTypeOK, Text, Table, Temp, TrapInv
<1>3. Trapped(code', bps', temp')
  BY <1>1, <1>2, AppendedTrapped DEF TrapInv
<1>4. Given(bps')
  <2>1. \A i \in DOMAIN bps' : bps'[i] = BpAt(code, a) \/ \E j \in DOMAIN bps : bps'[i] = bps[j]
    <3>1. bps \in Seq(Bp) /\ BpAt(code, a) \in Bp
      BY <1>2 DEF Table, BpAt, Bp, Text
    <3>2. QED
      BY <1>1, <3>1, AppendProperties
  <2>2. BpAt(code, a).addr \in BreakAt
    BY DEF BpAt
  <2>3. QED
    BY <2>1, <2>2 DEF TrapInv, Given
<1>5. QED
  BY <1>1, <1>2, <1>3, <1>4 DEF TrapInv, Trapped

LEMMA DelTrap ==
    ASSUME Inv, TrapInv, NEW i \in DOMAIN bps, Del(i)
    PROVE  TrapInv'
<1>1. /\ loc = "prompt" /\ state' = state /\ temp' = temp /\ saved' = saved
      /\ bps' = Deleted(bps, i) /\ code' = Restored(code, bps[i])
  BY DEF Del, StillStopped
<1>2. code \in Text /\ bps \in Table /\ temp \in Temp /\ ~temp.enabled
  BY <1>1 DEF Inv, TypeOK, DebuggeeTypeOK, Text, Table, Temp, TrapInv
<1>3. Distinct(bps')
  BY <1>1, <1>2, DeletedDistinct DEF TrapInv
<1>4. Given(bps')
  BY <1>1, <1>2, DeletedEntries DEF TrapInv, Given
<1>5. state # "IDLE" => Trapped(code', bps', temp')
  BY <1>1, <1>2, DeletedTrapped DEF TrapInv
<1>6. QED
  BY <1>1, <1>2, <1>3, <1>4, <1>5 DEF TrapInv

LEMMA DelAllTrap ==
    ASSUME Inv, TrapInv, DelAll
    PROVE  TrapInv'
<1>1. /\ loc = "prompt" /\ state' = state /\ temp' = temp /\ saved' = saved
      /\ bps' = <<>> /\ code' = AllRestored(code, bps)
  BY DEF DelAll, StillStopped
<1>2. code \in Text /\ bps \in Table /\ temp \in Temp /\ ~temp.enabled
  BY <1>1 DEF Inv, TypeOK, DebuggeeTypeOK, Text, Table, Temp, TrapInv
<1>3. state # "IDLE" => Trapped(code', bps', temp')
  BY <1>1, <1>2, AllRestoredTrapped DEF TrapInv
<1>4. QED
  BY <1>1, <1>2, <1>3, EmptyTable DEF TrapInv, Given

(* Whatever step the session takes, the traps and their owners agree, if no  *)
(* address is given twice and next plants on no lifted breakpoint.           *)
HeadsClear ==
    /\ NextLine => Clear(Now)
    /\ NextStop => Clear(Waited)
    /\ CallStop => Clear(Returned(Waited))

LEMMA TrapStep ==
    ASSUME Inv, TrapInv, Dup = FALSE, [Next]_vars, HeadsClear
    PROVE  TrapInv'
<1>1. CASE \E t \in Thread : Program(t)
  BY <1>1, StillTrap
  DEF Program, DebuggeeStep, Execute, Finish, HitTrap, Fault, debugger, Breakpoints
<1>2. CASE Handler
  <2>1. CASE ExecFailed \/ EntryExit \/ ProcessExit
    BY <2>1, NoProcessTrap DEF ExecFailed, EntryExit, ProcessExit
  <2>2. QED
    BY <1>2, <2>1, ExecStopTrap, EntryStopTrap, OverContStopTrap, OverContExitTrap,
       ReportedStopTrap, LoopStopTrap, OverCallStopTrap, CallStopTrap
    DEF Handler, HeadsClear
<1>3. CASE Command
  <2>1. CASE Step \/ NextLine
    BY <2>1, LoopStartsTrap DEF Step, NextLine, HeadsClear
  <2>2. CASE Kill \/ Quit
    BY <2>2, NoProcessTrap DEF Kill, Quit, Stopped
  <2>3. CASE Regs \/ Eof \/ Unlock \/ FrameUp \/ SetPc
    BY <2>3, StillTrap
    DEF Regs, Eof, Unlock, FrameUp, SetPc, MovePc, StillStopped, debuggee, Breakpoints, TrapInv
  <2>4. CASE \E t \in Thread : SelectThread(t) \/ LockTo(t)
    BY <2>4, StillTrap DEF SelectThread, LockTo, StillStopped
  <2>5. QED
    BY <1>3, <2>1, <2>2, <2>3, <2>4, RunTrap, ContinueTrap, BreakTrap, DelTrap, DelAllTrap
    DEF Command
<1>4. CASE Interrupt
  BY <1>4, StillTrap DEF Interrupt, Breakpoints
<1>5. CASE UNCHANGED vars
  BY <1>5, StillTrap DEF vars, debuggee, Breakpoints
<1>6. QED
  BY <1>1, <1>2, <1>3, <1>4, <1>5 DEF Next, Ended

LEMMA TrapInit == Init => TrapInv
<1> SUFFICES ASSUME Init PROVE TrapInv
  OBVIOUS
<1>1. Owned(code, bps, temp)
  BY EmptyTable, NoTempIs DEF Init, Owned
<1>2. QED
  BY <1>1, EmptyTable, NoTempIs DEF Init, TrapInv, Trapped, Given, DistinctSpecs

LEMMA TrapOwned == TrapInv => OwnedTraps
BY DEF TrapInv, Trapped, Owned, OwnedTraps, SetAt
-------------------------------------------------------------------------------
(* No breakpoint is given at the return address of a call.                   *)
ReturnsFree == \A a \in Insn : CallRet[a] \notin BreakAt

LEMMA GivenClear ==
    ASSUME ReturnsFree, Inv, TrapInv, [Next]_vars
    PROVE  HeadsClear
<1>1. ASSUME NEW m \in View, Given(m.bps)
      PROVE  Clear(m)
  BY <1>1, CallType DEF Clear, Given, DisabledAt, ReturnsFree, AtCall
<1>2. NextLine => Clear(Now)
  BY <1>1, NowTrap DEF NextLine, LoopStarts, MayStep, Inv, TrapView
<1>3. NextStop => Clear(Waited)
  BY <1>1, WaitedTrap, WaitFacts DEF NextStop, Waits, LoopWaits, Inv, TrapView
<1>4. CallStop => Clear(Returned(Waited))
  BY <1>1, WaitedTrap, ReturnedTrap, WaitFacts
  DEF CallStop, Waits, LoopWaits, Inv, TrapView
<1>5. QED
  BY <1>2, <1>3, <1>4 DEF HeadsClear

(* With any number of threads, whatever the user suspends, selects, moves,   *)
(* interrupts or steps, a trap byte is in the text exactly where the table   *)
(* or the temporary trap of run and next has put one, as long as no address  *)
(* is given twice and no breakpoint lies where next plants its own trap      *)
(* (cdbg_bp_enable, cdbg_bp_disable, reenable_breakpoints_after_step,        *)
(* delete, stop_debuggee).                                                   *)
THEOREM TrapsAreOwned ==
    ASSUME Dup = FALSE, ReturnsFree
    PROVE  Spec => []OwnedTraps
<1>1. Inv /\ TrapInv /\ [Next]_vars => TrapInv'
  BY GivenClear, TrapStep
<1>2. QED
  BY <1>1, TrapInit, TrapOwned, InitInv, NextInv, PTL DEF Spec

(* Under the same conditions no trap of a deleted breakpoint is in the text  *)
(* of a stopped task (cmd_delete, finish_temp_breakpoint).                   *)
THEOREM DeletedIsGone ==
    ASSUME Dup = FALSE, ReturnsFree
    PROVE  Spec => []NoOrphanTrap
<1>1. TrapInv => NoOrphanTrap
  BY DEF TrapInv, Trapped, Owned, NoOrphanTrap, SetAt
<1>2. Inv /\ TrapInv /\ [Next]_vars => TrapInv'
  BY GivenClear, TrapStep
<1>3. QED
  BY <1>1, <1>2, TrapInit, InitInv, NextInv, PTL DEF Spec
-------------------------------------------------------------------------------
(* A debuggee of one thread that no signal stops, no address given twice, no *)
(* up and no "set $rip"; an instruction is not its own successor and a call  *)
(* does not return to itself; no two breakpoints are one byte apart, and     *)
(* none lies in Before, the code that runs between exec and main.            *)
PlainSession(Before) ==
    /\ Thread = {Primary} /\ Dup = FALSE /\ Signals = FALSE
    /\ UpTargets = {} /\ JumpTargets = {}
    /\ \A a \in Insn : a \notin Succ[a] /\ CallRet[a] # a
    /\ \A a \in BreakAt : a + 1 \notin BreakAt
    /\ Entry # 0 => /\ Before \subseteq Insn \ BreakAt
                    /\ Start \in Before \cup {Entry}
                    /\ \A a \in Before : Succ[a] \subseteq Before \cup {Entry}

AllSet(table) == \A i \in DOMAIN table : table[i].enabled
LiftedOnlyAt(p, table) == \A i \in DOMAIN table : table[i].enabled \/ table[i].addr = p

(* The thread, and where it stands. *)
Spot == pc[Primary]
USE DEF Spot

OverWaits == {"overcont", "overcall"}

(* Before its stop is reported the thread stands on an instruction, and only *)
(* there a breakpoint may be lifted; what waitpid reports is an instruction  *)
(* done, which has left every lifted breakpoint behind, or a trap.  A task   *)
(* that continues has every breakpoint set; the step off a lifted breakpoint *)
(* starts on it and meets no trap; before main only run's own trap is met.   *)
PlaceInv(Before) ==
    /\ sig = FALSE
    /\ loc = "prompt" \/ dead => pend = {}
    /\ loc = "exec" => mode = "exec" /\ pend = {} /\ Spot = Start
    /\ loc \in {"entry", "cont", "call"} => mode = "cont"
    /\ loc \in OverWaits \cup {"si", "step1", "step", "next"} => mode = "step"
    /\ mode = "cont" => AllSet(bps)
    /\ state # "IDLE" =>
         IF pend = {}
         THEN Spot \in Insn /\ LiftedOnlyAt(Spot, bps)
         ELSE /\ Spot \in Insn \/ \E a \in Insn : Spot = a + 1 /\ code[a] = "trap"
              /\ ~DisabledAt(Spot, bps)
    /\ loc \in OverWaits => IF pend = {} THEN DisabledAt(Spot, bps) ELSE Spot \in Insn
    /\ loc = "entry" => /\ temp.enabled /\ temp.addr = Entry /\ Entry # 0
                        /\ IF pend = {} THEN Spot \in Before \cup {Entry} ELSE Spot = Entry + 1

SoleInv(Before) == Inv /\ WaitInv /\ TrapInv /\ PlaceInv(Before)
-------------------------------------------------------------------------------
(* What a handler passes on: the thread on an instruction, with no breakpoint *)
(* lifted but there.                                                         *)
OnInsn(m) == m.pc[Primary] \in Insn /\ LiftedOnlyAt(m.pc[Primary], m.bps)

(* The same, or the thread is behind a trap that is still to be handled.     *)
Stopping(m) ==
    /\ LiftedOnlyAt(m.pc[Primary], m.bps)
    /\ m.pc[Primary] \in Insn \/ IsTrap(m.pc[Primary], m.bps)

LEMMA LoneThread ==
    ASSUME NEW Before, PlainSession(Before), NEW m \in View
    PROVE  /\ m.cur = Primary /\ m.pc[Primary] \in Nat /\ m.bps \in Table
           /\ m.pc \in [Thread -> Nat] /\ Primary \in Thread
BY DEF PlainSession, View

(* report_stop looks at the only thread there is.                            *)
LEMMA ReportedIs ==
    ASSUME NEW Before, PlainSession(Before), life[Primary] = "alive", NEW m \in View
    PROVE  Reported(m) = IF IsTrap(m.pc[Primary], m.bps) THEN Handled(m) ELSE m
<1>1. Focused(m) = m
  <2>1. Hitters(m) \subseteq {Primary} /\ m.cur = Primary
    BY LoneThread DEF Hitters, Alive, PlainSession
  <2>2. Hitters(m) # {} => Least(Hitters(m)) = Primary
    <3>1. SUFFICES ASSUME Hitters(m) # {} PROVE Least(Hitters(m)) = Primary
      OBVIOUS
    <3>2. Hitters(m) = {Primary}
      BY <2>1, <3>1
    <3>3. \E t \in Hitters(m) : \A u \in Hitters(m) : t <= u
      BY <3>2 DEF Primary
    <3>4. Least(Hitters(m)) \in Hitters(m)
      BY <3>3 DEF Least
    <3>5. QED
      BY <3>2, <3>4
  <2>3. [m EXCEPT !.cur = Primary] = m
    BY <2>1 DEF View
  <2>4. QED
    BY <2>2, <2>3 DEF Focused
<1>2. QED
  BY <1>1, LoneThread DEF Reported, Readable

(* handle_breakpoint_hit lifts the one breakpoint that was hit and moves the *)
(* thread back onto it.                                                      *)
LEMMA HandledIs ==
    ASSUME NEW Before, PlainSession(Before),
           NEW m \in View, IsTrap(m.pc[Primary], m.bps)
    PROVE  \E i \in DOMAIN m.bps :
              /\ m.bps[i].enabled /\ m.pc[Primary] = m.bps[i].addr + 1
              /\ Handled(m).bps = Lifted(m.bps, i)
              /\ Handled(m).pc[Primary] = m.bps[i].addr
<1> DEFINE p == m.pc[Primary]
           i == FirstMatch(p, m.bps)
           l == [m EXCEPT !.code = Restored(m.code, m.bps[i]), !.bps = Lifted(m.bps, i)]
<1>1. m.bps \in Table /\ m.cur = Primary /\ p \in Nat
  BY LoneThread
<1>2. i \in DOMAIN m.bps /\ m.bps[i].enabled /\ p = m.bps[i].addr + 1
  BY <1>1, FirstMatchIn DEF Matches
<1>3. m.bps[i].addr \in Nat
  BY <1>1, <1>2, TableEntries, InsnAssumption
<1> HIDE DEF i
<1>4. l.bps = Lifted(m.bps, i) /\ l.pc = m.pc /\ l.cur = Primary
  BY <1>1 DEF View
<1>5. Handled(m) = Rewound(l)
  BY <1>1 DEF Handled, i
<1>6. Rewound(l).bps = Lifted(m.bps, i)
      /\ Rewound(l).pc = [m.pc EXCEPT ![Primary] = IF p > 0 THEN p - 1 ELSE p]
  BY <1>4 DEF Rewound
<1>7. Rewound(l).pc[Primary] = m.bps[i].addr
  BY <1>2, <1>3, <1>6, LoneThread
<1>8. QED
  BY <1>2, <1>5, <1>6, <1>7

(* report_stop moves the thread back onto the trapped instruction, and lifts *)
(* no second breakpoint.                                                     *)
LEMMA ReportedOnInsn ==
    ASSUME NEW Before, PlainSession(Before), life[Primary] = "alive",
           NEW m \in View, TrapView(m, NoTemp), Stopping(m)
    PROVE  OnInsn(Reported(m)) /\ Reported(m) \in View
<1>1. Reported(m) = IF IsTrap(m.pc[Primary], m.bps) THEN Handled(m) ELSE m
  BY ReportedIs
<1>2. CASE ~IsTrap(m.pc[Primary], m.bps)
  BY <1>1, <1>2 DEF Stopping, OnInsn
<1>3. CASE IsTrap(m.pc[Primary], m.bps)
  <2>1. m.bps \in Table
    BY LoneThread
  <2>2. PICK i \in DOMAIN m.bps :
              /\ m.bps[i].enabled /\ m.pc[Primary] = m.bps[i].addr + 1
              /\ Handled(m).bps = Lifted(m.bps, i)
              /\ Handled(m).pc[Primary] = m.bps[i].addr
    BY <1>3, HandledIs
  <2>3. m.bps[i].addr \in Insn
    BY <2>1, TableEntries
  <2>4. \A j \in DOMAIN m.bps : m.bps[j].enabled
    BY <2>2 DEF Stopping, LiftedOnlyAt, TrapView, Given, PlainSession
  <2>5. \A j \in DOMAIN m.bps :
           Lifted(m.bps, i)[j] = IF j = i THEN [m.bps[j] EXCEPT !.enabled = FALSE] ELSE m.bps[j]
    BY DEF Lifted
  <2>6. LiftedOnlyAt(m.bps[i].addr, Lifted(m.bps, i))
    BY <2>1, <2>4, <2>5, TableEntries DEF LiftedOnlyAt, Lifted, Bp
  <2>7. QED
    BY <1>1, <1>3, <2>2, <2>3, <2>6, ReportedType DEF OnInsn
<1>4. QED
  BY <1>2, <1>3

(* Without signals a stop is the trap of the only thread, and the thread     *)
(* stands behind a trap of the table or of temp_bp, or on an instruction;    *)
(* by then cdbg_wait has set every breakpoint again.                         *)
LEMMA WaitedPlace ==
    ASSUME NEW Before, PlainSession(Before), SoleInv(Before),
           loc \in Waits \ {"exec"}, TakeStop
    PROVE  /\ ~WaitFails /\ Readable(Now) /\ life[Primary] = "alive" /\ state # "IDLE"
           /\ pend # {} /\ pend' = {} /\ sig' = FALSE
           /\ Waited \in View /\ TrapView(Waited, temp) /\ Waited.pc = pc
           /\ Waited.cur = Primary /\ Spot \in Nat
           /\ AllSet(Waited.bps)
           /\ Spot \in Insn \/ IsTrap(Spot, Waited.bps) \/ Matches(Spot, temp)
<1>1. state # "IDLE" /\ TypeOK /\ TrapInv
  BY WaitFacts DEF SoleInv, Inv
<1>2. life[Primary] = "alive"
  BY <1>1 DEF SoleInv, WaitInv
<1>3. /\ Thread = {Primary} /\ cur = Primary /\ pc \in [Thread -> Nat] /\ pend \subseteq Thread
      /\ code \in Text /\ bps \in Table
  BY <1>1 DEF PlainSession, TypeOK, DebuggeeTypeOK, Text, Table
<1>4. sig = FALSE
  BY DEF SoleInv, PlaceInv
<1>5. pend = {Primary} /\ pend' = {} /\ sig' = FALSE
  BY <1>3, <1>4 DEF TakeStop
<1>6. Readable(Now) /\ ~WaitFails
  BY <1>1, <1>2, <1>3, NowType DEF Readable, WaitFails
<1>7. Waited \in View /\ TrapView(Waited, temp) /\ temp \in Temp
  BY <1>1, WaitedTrap
<1>8. /\ Waited.pc = pc /\ Waited.cur = Primary
      /\ Waited.bps = ReenabledBps(code, bps, Spot)
      /\ Waited.code = ReenabledCode(code, bps, Spot)
  BY <1>3 DEF Waited
<1>9. /\ ~DisabledAt(Spot, bps)
      /\ Spot \in Insn \/ \E a \in Insn : Spot = a + 1 /\ code[a] = "trap"
  BY <1>1, <1>5 DEF SoleInv, PlaceInv
<1>10. AllSet(Waited.bps)
  BY <1>3, <1>8, <1>9, ReenabledEntries DEF AllSet, DisabledAt, Revived, SameAddresses
<1>11. ASSUME NEW a \in Insn, Spot = a + 1, code[a] = "trap"
       PROVE  IsTrap(Spot, Waited.bps) \/ Matches(Spot, temp)
  <2>1. Waited.code[a] = "trap"
    BY <1>8, <1>11 DEF ReenabledCode
  <2>2. SetAt(a, Waited.bps) \/ (temp.enabled /\ temp.addr = a)
    BY <1>7, <2>1 DEF TrapView, Trapped, Owned
  <2>3. QED
    BY <1>11, <2>2 DEF SetAt, IsTrap, Matches
<1>12. QED
  BY <1>1, <1>2, <1>3, <1>5, <1>6, <1>7, <1>8, <1>9, <1>10, <1>11

LEMMA WaitedStopping ==
    ASSUME NEW Before, PlainSession(Before), SoleInv(Before),
           loc \in Waits \ {"exec"}, TakeStop, ~temp.enabled
    PROVE  Stopping(Waited) /\ TrapView(Waited, NoTemp)
<1>1. /\ AllSet(Waited.bps) /\ Waited.pc = pc /\ TrapView(Waited, temp)
      /\ Spot \in Insn \/ IsTrap(Spot, Waited.bps)
  BY WaitedPlace DEF Matches
<1>2. TrapView(Waited, NoTemp)
  BY <1>1, AnyNoTemp, NoTempIs
<1>3. QED
  BY <1>1, <1>2 DEF Stopping, LiftedOnlyAt, AllSet

(* finish_temp_breakpoint leaves the thread on the return address, or where  *)
(* report_stop has put it.                                                   *)
LEMMA ReturnedOnInsn ==
    ASSUME NEW Before, PlainSession(Before), SoleInv(Before), loc = "call", TakeStop
    PROVE  /\ OnInsn(Returned(Waited)) /\ Returned(Waited) \in View
           /\ TrapView(Returned(Waited), NoTemp)
<1>1. /\ life[Primary] = "alive"
      /\ Waited \in View /\ TrapView(Waited, temp) /\ Waited.pc = pc /\ Waited.cur = Primary
      /\ AllSet(Waited.bps)
      /\ Spot \in Insn \/ IsTrap(Spot, Waited.bps) \/ Matches(Spot, temp)
  BY WaitedPlace DEF Waits, LoopWaits
<1>2. TypeOK /\ temp \in Temp
  BY DEF SoleInv, Inv, TypeOK, Temp
<1>3. TrapView(Returned(Waited), NoTemp) /\ Returned(Waited) \in View
  BY <1>1, <1>2, ReturnedTrap
<1>4. TrapView(Disarmed(Waited), NoTemp) /\ Disarmed(Waited) \in View
  BY <1>1, <1>2, DisarmedTrap
<1>5. Disarmed(Waited).pc = pc /\ Disarmed(Waited).bps = Waited.bps
  BY <1>1 DEF Disarmed, View
<1>6. CASE Matches(Spot, temp)
  <2>1. temp.addr \in Insn
    BY <1>1, <1>6 DEF TrapView, Trapped, Bytes, Matches
  <2>2. Returned(Waited) = [Disarmed(Waited) EXCEPT !.pc = [pc EXCEPT ![Primary] = temp.addr]]
    BY <1>1, <1>6 DEF Returned
  <2>3. /\ Returned(Waited).pc = [pc EXCEPT ![Primary] = temp.addr]
        /\ Returned(Waited).bps = Waited.bps
    BY <1>4, <1>5, <2>2 DEF View
  <2>4. pc \in [Thread -> Nat] /\ Primary \in Thread
    BY <1>1, LoneThread
  <2>5. Returned(Waited).pc[Primary] \in Insn
    BY <2>1, <2>3, <2>4
  <2>6. QED
    BY <1>1, <1>3, <2>3, <2>5 DEF OnInsn, LiftedOnlyAt, AllSet
<1>7. CASE ~Matches(Spot, temp)
  <2>1. Returned(Waited) = Reported(Disarmed(Waited))
    BY <1>1, <1>7 DEF Returned
  <2>2. Stopping(Disarmed(Waited))
    BY <1>1, <1>5, <1>7 DEF Stopping, LiftedOnlyAt, AllSet
  <2>3. QED
    BY <1>1, <1>3, <1>4, <2>1, <2>2, ReportedOnInsn
<1>8. QED
  BY <1>6, <1>7
-------------------------------------------------------------------------------
(* After a handler or a command: the thread has been put on an instruction,  *)
(* and the task is stopped.                                                  *)
LEMMA HaltPlace ==
    ASSUME NEW Before, NEW m, OnInsn(m), pc' = m.pc, bps' = m.bps,
           pend' = {}, sig' = FALSE, mode' = "stopped",
           loc' \in {"prompt", "aborted", "exited"}
    PROVE  PlaceInv(Before)'
BY DEF PlaceInv, OnInsn, OverWaits

LEMMA PromptPlace ==
    ASSUME NEW Before, NEW m, OnInsn(m), Prompt(m), pend' = {}, sig' = FALSE
    PROVE  PlaceInv(Before)'
BY HaltPlace DEF Prompt, Become

(* Or it runs again: with every breakpoint set, or for one instruction.      *)
LEMMA RunPlace ==
    ASSUME NEW Before, NEW m, OnInsn(m), pc' = m.pc, bps' = m.bps,
           pend' = {}, sig' = FALSE,
           \/ mode' = "cont" /\ loc' \in {"cont", "call"} /\ AllSet(m.bps)
           \/ mode' = "step" /\ loc' \in {"si", "step1", "step", "next"}
           \/ /\ mode' = "step" /\ loc' \in OverWaits
              /\ DisabledAt(m.pc[Primary], m.bps)
    PROVE  PlaceInv(Before)'
BY DEF PlaceInv, OnInsn, OverWaits

(* cdbg_continue steps off exactly the breakpoint that is lifted.            *)
LEMMA ResumePlace ==
    ASSUME NEW Before, NEW m, OnInsn(m), m.cur = Primary, pc' = m.pc, bps' = m.bps,
           pend' = {}, sig' = FALSE,
           NEW over \in OverWaits, NEW wait \in {"cont", "call"}, ResumeFrom(m, over, wait)
    PROVE  PlaceInv(Before)'
<1>1. CASE DisabledAt(m.pc[Primary], m.bps)
  <2>1. mode' = "step" /\ loc' \in OverWaits
    BY <1>1 DEF ResumeFrom, ResumeStep, Resume
  <2>2. QED
    BY <1>1, <2>1, RunPlace
<1>2. CASE ~DisabledAt(m.pc[Primary], m.bps)
  <2>1. mode' = "cont" /\ loc' \in {"cont", "call"}
    BY <1>2 DEF ResumeFrom, Resume
  <2>2. AllSet(m.bps)
    BY <1>2 DEF OnInsn, LiftedOnlyAt, DisabledAt, AllSet
  <2>3. QED
    BY <2>1, <2>2, RunPlace
<1>3. QED
  BY <1>1, <1>2

(* Or there is no process any more.                                          *)
LEMMA NoProcessPlace ==
    ASSUME NEW Before, pend' = {}, sig' = FALSE, mode' = "stopped", state' = "IDLE",
           loc' \in {"prompt", "aborted", "exited"}
    PROVE  PlaceInv(Before)'
BY DEF PlaceInv, OverWaits

(* Or the task is as it was, at the prompt.                                  *)
LEMMA StillPlace ==
    ASSUME NEW Before, SoleInv(Before), loc = "prompt",
           loc' \in {"prompt", "aborted", "exited"},
           UNCHANGED <<pc, state, mode, pend, sig>>,
           LiftedOnlyAt(Spot, bps) => LiftedOnlyAt(Spot, bps')
    PROVE  PlaceInv(Before)'
<1>1. mode = "stopped" /\ pend = {} /\ sig = FALSE
  BY DEF SoleInv, PlaceInv, Inv, Guarding, Waits, LoopWaits
<1>2. state # "IDLE" => Spot \in Insn /\ LiftedOnlyAt(Spot, bps)
  BY <1>1 DEF SoleInv, PlaceInv
<1>3. QED
  BY <1>1, <1>2 DEF PlaceInv, OverWaits

LEMMA PromptFactsPlace ==
    ASSUME NEW Before, PlainSession(Before), SoleInv(Before), loc = "prompt", state # "IDLE"
    PROVE  /\ Now \in View /\ OnInsn(Now) /\ Now.pc = pc /\ Now.bps = bps /\ Now.cur = Primary
           /\ pend = {} /\ sig = FALSE /\ ~WaitFails
           /\ TrapView(Now, NoTemp)
<1>1. TypeOK /\ TrapInv /\ cur = Primary /\ life[Primary] = "alive" /\ ~temp.enabled
  BY DEF SoleInv, Inv, WaitInv, PlainSession, TypeOK, TrapInv
<1>2. Now \in View /\ Now.cur = cur /\ Now.pc = pc /\ Now.bps = bps
  BY <1>1, NowType
<1>3. pend = {} /\ sig = FALSE /\ Spot \in Insn /\ LiftedOnlyAt(Spot, bps)
  BY DEF SoleInv, PlaceInv
<1>4. ~WaitFails
  BY <1>1, <1>2 DEF WaitFails, Readable
<1>5. TrapView(Now, NoTemp)
  BY <1>1, NowTrap, AnyNoTemp, NoTempIs
<1>6. QED
  BY <1>1, <1>2, <1>3, <1>4, <1>5 DEF OnInsn

(* The head of an iteration leaves the thread where it is.                   *)
LEMMA LoopHeadPlace ==
    ASSUME NEW Before, NEW m \in View, OnInsn(m), m.cur = Primary,
           NEW kind \in {"step", "next"}, LoopHead(kind, m), pend' = {}, sig' = FALSE
    PROVE  PlaceInv(Before)'
<1>1. CASE Become(m) /\ Resume("step", kind)
  BY <1>1, RunPlace DEF Become, Resume
<1>2. CASE kind = "next" /\ AtCall(m)
  <2> DEFINE r == [m EXCEPT !.code = Planted(m.code, CallRet[m.pc[m.cur]])]
  <2>1. Become(r) /\ ResumeFrom(m, "overcall", "call")
    BY <1>2 DEF LoopHead, NextHead
  <2>2. r.pc = m.pc /\ r.bps = m.bps
    BY DEF View
  <2> HIDE DEF r
  <2>3. pc' = m.pc /\ bps' = m.bps
    BY <2>1, <2>2 DEF Become
  <2>4. QED
    BY <2>1, <2>3, ResumePlace DEF OverWaits
<1>3. QED
  BY <1>1, <1>2 DEF LoopHead, StepHead, NextHead, ResumeStep

(* The rest of an iteration, after a trap or an instruction done.            *)
LEMMA LoopTailPlace ==
    ASSUME NEW Before, PlainSession(Before), life[Primary] = "alive",
           NEW m \in View, TrapView(m, NoTemp), Stopping(m),
           NEW kind \in {"step", "next"}, LoopTail(m, kind), pend' = {}, sig' = FALSE
    PROVE  PlaceInv(Before)'
<1>1. m.cur = Primary /\ Readable(m)
  BY LoneThread DEF Readable
<1>2. Unbroken(m) => OnInsn(m)
  BY <1>1 DEF Unbroken, Stopping, OnInsn
<1>3. CASE LoopEnds(m)
  <2>1. OnInsn(Reported(m))
    BY ReportedOnInsn
  <2>2. PICK q : OnInsn(q) /\ Prompt(q)
    BY <1>2, <1>3, <2>1 DEF LoopEnds
  <2>3. QED
    BY <2>2, PromptPlace
<1>4. CASE LoopFails(m) /\ Abort /\ Become(m)
  <2>1. OnInsn(m)
    BY <1>1, <1>2, <1>4 DEF LoopFails
  <2>2. QED
    BY <1>4, <2>1, HaltPlace DEF Abort, Become
<1>5. CASE Unbroken(m) /\ LoopHead(kind, m)
  BY <1>1, <1>2, <1>5, LoopHeadPlace
<1>6. QED
  BY <1>3, <1>4, <1>5 DEF LoopTail
-------------------------------------------------------------------------------
LEMMA RunKeepsPlace ==
    ASSUME NEW Before, Run
    PROVE  PlaceInv(Before)'
<1>1. /\ pc' = [t \in Thread |-> Start] /\ bps' = <<>> /\ loc' = "exec" /\ mode' = "exec"
      /\ pend' = {} /\ sig' = FALSE
  BY DEF Run, Launch, Spawned, Fresh
<1>2. Spot' = Start /\ Start \in Insn
  BY <1>1, DebuggeeAssumption
<1>3. QED
  BY <1>1, <1>2, EmptyTable DEF PlaceInv, OverWaits, LiftedOnlyAt

LEMMA ExecStopPlace ==
    ASSUME NEW Before, PlainSession(Before), SoleInv(Before), ExecStop
    PROVE  PlaceInv(Before)'
<1> PICK specs \in Surviving : Replant(specs)
  BY DEF ExecStop
<1>1. /\ loc = "exec" /\ bps' = ReplantedBps(specs) /\ pc' = pc /\ pend' = pend /\ sig' = sig
  BY DEF ExecStop, Replant
<1>2. pend = {} /\ sig = FALSE /\ Spot = Start /\ Start \in Insn
  BY <1>1, DebuggeeAssumption DEF SoleInv, PlaceInv
<1>3. AllSet(bps')
  BY <1>1 DEF ReplantedBps, AllSet
<1>4. CASE Entry = 0
  <2>1. mode' = "stopped" /\ loc' \in {"prompt", "aborted"}
    BY <1>4 DEF Replant, RunReturns
  <2>2. QED
    BY <1>1, <1>2, <1>3, <2>1 DEF PlaceInv, OverWaits, AllSet, LiftedOnlyAt
<1>5. CASE Entry # 0
  <2>1. mode' = "cont" /\ loc' = "entry" /\ temp'.enabled /\ temp'.addr = Entry
    BY <1>5 DEF Replant, Resume, BpAt
  <2>2. Start \in Before \cup {Entry}
    BY <1>5 DEF PlainSession
  <2>3. QED
    BY <1>1, <1>2, <1>3, <1>5, <2>1, <2>2 DEF PlaceInv, OverWaits, AllSet, LiftedOnlyAt
<1>6. QED
  BY <1>4, <1>5

(* The stop of run_to_entry_stop is its own trap, and the thread is moved    *)
(* back over it.                                                             *)
LEMMA EntryStopPlace ==
    ASSUME NEW Before, PlainSession(Before), SoleInv(Before), EntryStop
    PROVE  PlaceInv(Before)'
<1>1. loc = "entry" /\ TakeStop
  BY DEF EntryStop
<1>2. /\ pend # {} /\ pend' = {} /\ sig' = FALSE
      /\ Waited \in View /\ TrapView(Waited, temp) /\ Waited.pc = pc /\ Waited.cur = Primary
      /\ AllSet(Waited.bps)
  BY <1>1, WaitedPlace DEF Waits
<1>3. /\ TypeOK /\ cur = Primary /\ temp.enabled /\ temp.addr = Entry /\ Entry # 0
      /\ Spot = Entry + 1
  BY <1>1, <1>2 DEF SoleInv, Inv, PlainSession, TypeOK, PlaceInv
<1>4. Entry \in Insn /\ Entry \in Nat /\ pc \in [Thread -> Nat] /\ Primary \in Thread
  BY <1>2, <1>3, SessionAssumption, InsnAssumption, LoneThread
<1>5. Matches(Waited.pc[cur], temp)
  BY <1>2, <1>3 DEF Matches
<1>6. Prompt(Rewound(Disarmed(Waited)))
  BY <1>5 DEF EntryStop
<1> DEFINE d == Disarmed(Waited)
<1>7. d \in View /\ d.pc = pc /\ d.bps = Waited.bps /\ d.cur = Primary
  BY <1>2, <1>3, DisarmedType DEF Disarmed, View
<1> HIDE DEF d
<1>8. /\ Rewound(d).bps = Waited.bps
      /\ Rewound(d).pc = [pc EXCEPT ![Primary] = IF @ > 0 THEN @ - 1 ELSE @]
  BY <1>7 DEF Rewound, View
<1>9. Rewound(d).pc[Primary] = Entry
  BY <1>3, <1>4, <1>8
<1>10. OnInsn(Rewound(d))
  BY <1>2, <1>4, <1>8, <1>9 DEF OnInsn, AllSet, LiftedOnlyAt
<1>11. QED
  BY <1>2, <1>6, <1>10, PromptPlace DEF d

(* The step off a lifted breakpoint has met no trap: the thread is on the    *)
(* next instruction when the task continues.                                 *)
LEMMA OverStopPlace ==
    ASSUME NEW Before, PlainSession(Before), SoleInv(Before), OverContStop \/ OverCallStop
    PROVE  PlaceInv(Before)'
<1>1. loc \in OverWaits /\ TakeStop /\ loc \in Waits \ {"exec"}
  BY DEF OverContStop, OverCallStop, OverWaits, Waits, LoopWaits
<1>2. /\ ~WaitFails /\ pend # {} /\ pend' = {} /\ sig' = FALSE
      /\ Waited.pc = pc /\ AllSet(Waited.bps)
  BY <1>1, WaitedPlace
<1>3. Spot \in Insn
  BY <1>1, <1>2 DEF SoleInv, PlaceInv
<1>4. OnInsn(Waited)
  BY <1>2, <1>3 DEF OnInsn, AllSet, LiftedOnlyAt
<1>5. Become(Waited) /\ mode' = "cont" /\ loc' \in {"cont", "call"}
  BY <1>2 DEF OverContStop, OverCallStop, Resume
<1>6. QED
  BY <1>2, <1>4, <1>5, RunPlace DEF Become

LEMMA ReportedStopPlace ==
    ASSUME NEW Before, PlainSession(Before), SoleInv(Before), ReportedStop \/ SiStop
    PROVE  PlaceInv(Before)'
<1>1. loc \in {"cont", "step1", "si"} /\ TakeStop /\ loc \in Waits \ {"exec"}
  BY DEF ReportedStop, SiStop, Waits
<1>2. ~temp.enabled
  BY <1>1 DEF SoleInv, TrapInv
<1>3. /\ ~WaitFails /\ pend' = {} /\ sig' = FALSE /\ life[Primary] = "alive"
      /\ Waited \in View
  BY <1>1, WaitedPlace
<1>4. Stopping(Waited) /\ TrapView(Waited, NoTemp)
  BY <1>1, <1>2, WaitedStopping
<1>5. OnInsn(Reported(Waited))
  BY <1>3, <1>4, ReportedOnInsn
<1>6. Prompt(Reported(Waited))
  BY <1>3 DEF ReportedStop, SiStop
<1>7. QED
  BY <1>3, <1>5, <1>6, PromptPlace

LEMMA LoopStopPlace ==
    ASSUME NEW Before, PlainSession(Before), SoleInv(Before), StepStop \/ NextStop
    PROVE  PlaceInv(Before)'
<1>1. loc \in {"step", "next"} /\ TakeStop /\ loc \in Waits \ {"exec"}
  BY DEF StepStop, NextStop, Waits, LoopWaits
<1>2. ~temp.enabled
  BY <1>1 DEF SoleInv, TrapInv
<1>3. /\ ~WaitFails /\ pend' = {} /\ sig' = FALSE /\ life[Primary] = "alive"
      /\ Waited \in View
  BY <1>1, WaitedPlace
<1>4. Stopping(Waited) /\ TrapView(Waited, NoTemp)
  BY <1>1, <1>2, WaitedStopping
<1>5. PICK kind \in {"step", "next"} : LoopTail(Waited, kind)
  BY <1>3 DEF StepStop, NextStop
<1>6. QED
  BY <1>3, <1>4, <1>5, LoopTailPlace

LEMMA CallStopPlace ==
    ASSUME NEW Before, PlainSession(Before), SoleInv(Before), CallStop
    PROVE  PlaceInv(Before)'
<1>1. loc = "call" /\ TakeStop /\ loc \in Waits \ {"exec"}
  BY DEF CallStop, Waits, LoopWaits
<1>2. /\ ~WaitFails /\ Readable(Now) /\ pend' = {} /\ sig' = FALSE
      /\ life[Primary] = "alive"
  BY <1>1, WaitedPlace
<1>3. /\ OnInsn(Returned(Waited)) /\ Returned(Waited) \in View
      /\ TrapView(Returned(Waited), NoTemp)
  BY <1>1, ReturnedOnInsn
<1>4. Stopping(Returned(Waited)) /\ LoopTail(Returned(Waited), "next")
  BY <1>2, <1>3 DEF CallStop, Stopping, OnInsn
<1>5. QED
  BY <1>2, <1>3, <1>4, LoopTailPlace

LEMMA ExitPlace ==
    ASSUME NEW Before, PlainSession(Before), SoleInv(Before),
           ExecFailed \/ EntryExit \/ ProcessExit \/ OverContExit
    PROVE  PlaceInv(Before)'
<1>1. CASE ExecFailed \/ EntryExit \/ ProcessExit
  <2>1. NoProcess /\ loc' \in {"prompt", "aborted"}
    BY <1>1 DEF ExecFailed, EntryExit, ProcessExit, RunReturns
  <2>2. QED
    BY <2>1, NoProcessPlace DEF NoProcess, Reaped, Fresh
<1>2. CASE OverContExit
  <2>1. pend = {} /\ sig = FALSE
    BY <1>2 DEF OverContExit, TakeExit, SoleInv, PlaceInv
  <2>2. QED
    BY <1>2, <2>1, NoProcessPlace DEF OverContExit
<1>3. QED
  BY <1>1, <1>2
-------------------------------------------------------------------------------
LEMMA ContinuePlace ==
    ASSUME NEW Before, PlainSession(Before), SoleInv(Before), Continue
    PROVE  PlaceInv(Before)'
<1>1. loc = "prompt" /\ state # "IDLE" /\ UNCHANGED <<pc, bps, pend, sig>>
  BY DEF Continue, Breakpoints
<1>2. /\ OnInsn(Now) /\ Now.pc = pc /\ Now.bps = bps /\ Now.cur = Primary
      /\ pend = {} /\ sig = FALSE /\ ~WaitFails
  BY <1>1, PromptFactsPlace
<1>3. ResumeFrom(Now, "overcont", "cont")
  BY <1>2 DEF Continue
<1>4. QED
  BY <1>1, <1>2, <1>3, ResumePlace DEF OverWaits

LEMMA OneStepPlace ==
    ASSUME NEW Before, PlainSession(Before), SoleInv(Before), Si \/ StepNoLine
    PROVE  PlaceInv(Before)'
<1>1. /\ loc = "prompt" /\ state # "IDLE" /\ UNCHANGED <<pc, bps, pend, sig>>
      /\ mode' = "step" /\ loc' \in {"si", "step1"}
  BY DEF Si, StepNoLine, MayStep, Resume, Breakpoints
<1>2. OnInsn(Now) /\ Now.pc = pc /\ Now.bps = bps /\ pend = {} /\ sig = FALSE
  BY <1>1, PromptFactsPlace
<1>3. QED
  BY <1>1, <1>2, RunPlace

LEMMA LoopStartsPlace ==
    ASSUME NEW Before, PlainSession(Before), SoleInv(Before), Step \/ NextLine
    PROVE  PlaceInv(Before)'
<1>1. PICK kind \in {"step", "next"} : LoopStarts(kind)
  BY DEF Step, NextLine
<1>2. /\ loc = "prompt" /\ state # "IDLE" /\ UNCHANGED <<pend, sig>> /\ LoopHead(kind, Now)
  BY <1>1 DEF LoopStarts, MayStep
<1>3. Now \in View /\ OnInsn(Now) /\ Now.cur = Primary /\ pend = {} /\ sig = FALSE
  BY <1>2, PromptFactsPlace
<1>4. QED
  BY <1>2, <1>3, LoopHeadPlace

(* break, del and the commands that look or lock.                            *)
LEMMA StillCommandPlace ==
    ASSUME NEW Before, PlainSession(Before), SoleInv(Before), Command,
           ~Run, ~Continue, ~Si, ~StepNoLine, ~Step, ~NextLine
    PROVE  PlaceInv(Before)'
<1>1. bps \in Table /\ code \in Text
  BY DEF SoleInv, Inv, TypeOK, DebuggeeTypeOK, Table, Text
<1>2. ASSUME NEW a \in BreakAt, Break(a)
      PROVE  PlaceInv(Before)'
  <2>1. bps \in Seq(Bp) /\ BpAt(code, a) \in Bp
    BY <1>1, SessionAssumption DEF Table, BpAt, Bp, Text
  <2>2. bps' = Append(bps, BpAt(code, a)) /\ BpAt(code, a).enabled
    BY <1>2 DEF Break, BpAt
  <2>3. LiftedOnlyAt(Spot, bps) => LiftedOnlyAt(Spot, bps')
    BY <2>1, <2>2, AppendProperties DEF LiftedOnlyAt
  <2>4. QED
    BY <1>2, <2>3, StillPlace DEF Break, StillStopped
<1>3. ASSUME NEW i \in DOMAIN bps, Del(i)
      PROVE  PlaceInv(Before)'
  <2>1. LiftedOnlyAt(Spot, bps) => LiftedOnlyAt(Spot, bps')
    BY <1>1, <1>3, DeletedEntries DEF Del, LiftedOnlyAt
  <2>2. QED
    BY <1>3, <2>1, StillPlace DEF Del, StillStopped
<1>4. CASE DelAll
  <2>1. LiftedOnlyAt(Spot, bps')
    BY <1>4, EmptyTable DEF DelAll, LiftedOnlyAt
  <2>2. QED
    BY <1>4, <2>1, StillPlace DEF DelAll, StillStopped
<1>5. CASE (\E t \in Thread : SelectThread(t) \/ LockTo(t)) \/ Unlock
  BY <1>5, StillPlace DEF SelectThread, LockTo, Unlock, StillStopped
<1>6. CASE FrameUp \/ SetPc
  BY <1>6 DEF FrameUp, SetPc, PlainSession
<1>7. CASE Regs \/ Eof
  BY <1>7, StillPlace DEF Regs, Eof, debuggee, Breakpoints
<1>8. CASE Kill \/ Quit
  <2>1. NoProcess /\ loc' \in {"prompt", "exited"}
    BY <1>8 DEF Kill, Quit, Stopped
  <2>2. QED
    BY <2>1, NoProcessPlace DEF NoProcess, Reaped, Fresh
<1>9. QED
  BY <1>2, <1>3, <1>4, <1>5, <1>6, <1>7, <1>8 DEF Command

LEMMA CommandPlace ==
    ASSUME NEW Before, PlainSession(Before), SoleInv(Before), Command
    PROVE  PlaceInv(Before)'
BY RunKeepsPlace, ContinuePlace, OneStepPlace, LoopStartsPlace, StillCommandPlace
-------------------------------------------------------------------------------
(* The only thread runs.                                                     *)
LEMMA RunsFacts ==
    ASSUME NEW Before, PlainSession(Before), SoleInv(Before), NEW t \in Thread, Runnable(t)
    PROVE  /\ t = Primary /\ pend = {} /\ ~dead /\ state # "IDLE" /\ life[Primary] = "alive"
           /\ mode \in {"cont", "step"} /\ loc # "prompt" /\ loc # "exec"
           /\ Spot \in Insn /\ Spot \in Nat /\ LiftedOnlyAt(Spot, bps)
           /\ pc \in [Thread -> Nat] /\ Trapped(code, bps, temp) /\ Given(bps)
           /\ code \in Text /\ bps \in Table
<1>1. TypeOK /\ Guarding /\ WaitInv /\ TrapInv
  BY DEF SoleInv, Inv
<1>2. t = Primary /\ mode \in {"cont", "step"} /\ ~dead /\ life[Primary] = "alive"
  BY DEF Runnable, PlainSession
<1>3. loc \in Waits /\ state # "IDLE" /\ loc # "prompt"
  BY <1>1, <1>2 DEF Guarding, Waits, LoopWaits
<1>4. pend = {} /\ pc \in [Thread -> Nat] /\ code \in Text /\ bps \in Table
  BY <1>1, <1>2 DEF Runnable, PlainSession, TypeOK, DebuggeeTypeOK, Text, Table
<1>5. loc # "exec"
  BY <1>2 DEF SoleInv, PlaceInv
<1>6. Spot \in Insn /\ LiftedOnlyAt(Spot, bps)
  BY <1>3, <1>4 DEF SoleInv, PlaceInv
<1>7. Trapped(code, bps, temp) /\ Given(bps)
  BY <1>1, <1>3 DEF TrapInv
<1>8. QED
  BY <1>2, <1>3, <1>4, <1>5, <1>6, <1>7, InsnAssumption

(* It executes an instruction: a step has left the lifted breakpoint behind, *)
(* and before main the thread stays before main.                             *)
LEMMA ExecutePlace ==
    ASSUME NEW Before, PlainSession(Before), SoleInv(Before),
           NEW t \in Thread, Program(t), Execute(t)
    PROVE  PlaceInv(Before)'
<1>1. Runnable(t) /\ code[pc[t]] = "orig" /\ UNCHANGED <<code, mode, sig, dead>>
      /\ UNCHANGED <<state, loc, bps, temp>> /\ pend' = pend \cup Stepped(t)
  BY DEF Execute, Program, debugger, Breakpoints
<1>2. /\ t = Primary /\ pend = {} /\ ~dead /\ state # "IDLE" /\ life[Primary] = "alive"
      /\ mode \in {"cont", "step"} /\ loc # "prompt" /\ loc # "exec"
      /\ Spot \in Insn /\ LiftedOnlyAt(Spot, bps)
      /\ pc \in [Thread -> Nat] /\ Trapped(code, bps, temp) /\ Given(bps)
  BY <1>1, RunsFacts
<1>3. Unborn = {}
  BY <1>2 DEF Unborn, PlainSession
<1>4. PICK q \in Succ[Spot] : pc' = [pc EXCEPT ![Primary] = q]
  BY <1>2, <1>3 DEF Execute
<1>5. Spot' = q /\ q \in Insn /\ q # Spot
  BY <1>2, <1>4, DebuggeeAssumption DEF PlainSession
<1>6. sig = FALSE
  BY DEF SoleInv, PlaceInv
<1>7. pend' = IF mode = "step" THEN {Primary} ELSE {}
  BY <1>1, <1>2 DEF Stepped
<1>8. /\ loc \in {"entry", "cont", "call"} => mode = "cont"
      /\ loc \in OverWaits \cup {"si", "step1", "step", "next"} => mode = "step"
      /\ mode = "cont" => AllSet(bps)
  BY DEF SoleInv, PlaceInv
<1>9. mode = "step" => ~DisabledAt(q, bps)
  BY <1>2, <1>5 DEF LiftedOnlyAt, DisabledAt
<1>10. ASSUME loc = "entry"
       PROVE  q \in Before \cup {Entry}
  <2>1. /\ temp.enabled /\ temp.addr = Entry /\ Entry # 0 /\ Spot \in Before \cup {Entry}
    BY <1>2, <1>10 DEF SoleInv, PlaceInv
  <2>2. Spot # Entry
    BY <1>1, <1>2, <2>1 DEF Trapped, Owned
  <2>3. QED
    BY <1>4, <2>1, <2>2 DEF PlainSession
<1>11. /\ loc = "entry" => temp.enabled /\ temp.addr = Entry /\ Entry # 0
  BY DEF SoleInv, PlaceInv
<1>12. CASE mode = "step"
  <2>1. loc # "entry" /\ pend' # {}
    BY <1>7, <1>8, <1>12
  <2>2. QED
    BY <1>1, <1>2, <1>5, <1>6, <1>8, <1>9, <1>12, <2>1 DEF PlaceInv
<1>13. CASE mode = "cont"
  <2>1. loc \notin OverWaits /\ pend' = {}
    BY <1>7, <1>8, <1>13
  <2>2. QED
    BY <1>1, <1>2, <1>5, <1>6, <1>8, <1>10, <1>11, <1>13, <2>1
    DEF PlaceInv, AllSet, LiftedOnlyAt
<1>14. QED
  BY <1>2, <1>12, <1>13

(* It meets a trap, which is not one of a lifted breakpoint.                 *)
LEMMA HitTrapPlace ==
    ASSUME NEW Before, PlainSession(Before), SoleInv(Before),
           NEW t \in Thread, Program(t), HitTrap(t)
    PROVE  PlaceInv(Before)'
<1>1. Runnable(t) /\ code[pc[t]] = "trap" /\ UNCHANGED <<code, mode, sig, dead>>
      /\ UNCHANGED <<state, loc, bps, temp>>
      /\ pend' = pend \cup {t} /\ pc' = [pc EXCEPT ![t] = @ + 1]
  BY DEF HitTrap, Program, debugger, Breakpoints, PlainSession
<1>2. /\ t = Primary /\ pend = {} /\ ~dead /\ state # "IDLE"
      /\ mode \in {"cont", "step"} /\ loc # "prompt" /\ loc # "exec"
      /\ Spot \in Insn /\ Spot \in Nat /\ LiftedOnlyAt(Spot, bps)
      /\ pc \in [Thread -> Nat] /\ Trapped(code, bps, temp) /\ Given(bps)
      /\ code \in Text /\ bps \in Table
  BY <1>1, RunsFacts
<1>3. Spot' = Spot + 1 /\ pend' = {Primary} /\ code'[Spot] = "trap"
  BY <1>1, <1>2
<1>4. SetAt(Spot, bps) \/ (temp.enabled /\ temp.addr = Spot)
  BY <1>1, <1>2 DEF Trapped, Owned
<1>5. ~DisabledAt(Spot, bps)
  BY <1>2, <1>4, SetOrLifted DEF Trapped, Bytes
<1>6. AllSet(bps)
  BY <1>2, <1>5 DEF LiftedOnlyAt, DisabledAt, AllSet
<1>7. ~DisabledAt(Spot', bps')
  BY <1>1, <1>6 DEF AllSet, DisabledAt
<1>8. /\ sig = FALSE
      /\ loc \in {"entry", "cont", "call"} => mode = "cont"
      /\ loc \in OverWaits \cup {"si", "step1", "step", "next"} => mode = "step"
      /\ loc \notin OverWaits
  BY <1>2, <1>5 DEF SoleInv, PlaceInv
<1>9. ASSUME loc = "entry"
      PROVE  temp.enabled /\ temp.addr = Entry /\ Entry # 0 /\ Spot = Entry
  <2>1. /\ temp.enabled /\ temp.addr = Entry /\ Entry # 0 /\ Spot \in Before \cup {Entry}
    BY <1>2, <1>9 DEF SoleInv, PlaceInv
  <2>2. Spot \in Before => ~SetAt(Spot, bps)
    BY <1>2, <2>1 DEF Given, SetAt, PlainSession
  <2>3. QED
    BY <1>4, <2>1, <2>2
<1>10. QED
  BY <1>1, <1>2, <1>3, <1>6, <1>7, <1>8, <1>9 DEF PlaceInv

LEMMA ProgramPlace ==
    ASSUME NEW Before, PlainSession(Before), SoleInv(Before), NEW t \in Thread, Program(t)
    PROVE  PlaceInv(Before)'
<1>1. CASE Execute(t)
  BY <1>1, ExecutePlace
<1>2. CASE HitTrap(t)
  BY <1>2, HitTrapPlace
<1>3. CASE Finish(t)
  <2>1. /\ UNCHANGED <<code, pc, mode, pend, sig, state, loc, bps, temp>>
        /\ pend = {}
    BY <1>3, RunsFacts DEF Finish, Program, debugger, Breakpoints
  <2>2. QED
    BY <2>1 DEF SoleInv, PlaceInv
<1>4. CASE Fault(t)
  BY <1>4, RunsFacts DEF Fault
<1>5. QED
  BY <1>1, <1>2, <1>3, <1>4 DEF Program, DebuggeeStep

LEMMA PlaceStep ==
    ASSUME NEW Before, PlainSession(Before), SoleInv(Before), [Next]_vars
    PROVE  PlaceInv(Before)'
<1>1. CASE \E t \in Thread : Program(t)
  BY <1>1, ProgramPlace
<1>2. CASE Handler
  BY <1>2, ExecStopPlace, EntryStopPlace, OverStopPlace, ReportedStopPlace, LoopStopPlace,
     CallStopPlace, ExitPlace DEF Handler
<1>3. CASE Command
  BY <1>3, CommandPlace
<1>4. CASE Interrupt
  BY <1>4 DEF Interrupt, PlainSession
<1>5. CASE UNCHANGED vars
  BY <1>5 DEF vars, debuggee, Breakpoints, SoleInv, PlaceInv
<1>6. QED
  BY <1>1, <1>2, <1>3, <1>4, <1>5 DEF Next, Ended

LEMMA PlaceInit == ASSUME NEW Before, Init PROVE PlaceInv(Before)
<1>1. Spot = Start /\ Start \in Insn
  BY DebuggeeAssumption DEF Init
<1>2. QED
  BY <1>1, EmptyTable DEF Init, PlaceInv, OverWaits, LiftedOnlyAt

(* A breakpoint is lifted only where the thread stands, so next plants on    *)
(* none.                                                                     *)
LEMMA PlainClear ==
    ASSUME NEW Before, PlainSession(Before), SoleInv(Before), [Next]_vars
    PROVE  HeadsClear
<1>1. ASSUME NEW m, m.cur = Primary, LiftedOnlyAt(m.pc[Primary], m.bps)
      PROVE  Clear(m)
  BY <1>1 DEF Clear, AtCall, LiftedOnlyAt, DisabledAt, PlainSession
<1>2. NextLine => Clear(Now)
  BY <1>1, PromptFactsPlace DEF NextLine, LoopStarts, MayStep, OnInsn
<1>3. NextStop => Clear(Waited)
  BY <1>1, WaitedPlace DEF NextStop, Waits, LoopWaits, AllSet, LiftedOnlyAt
<1>4. ASSUME CallStop PROVE Clear(Returned(Waited))
  <2>1. OnInsn(Returned(Waited)) /\ Returned(Waited) \in View
    BY <1>4, ReturnedOnInsn DEF CallStop
  <2>2. Returned(Waited).cur = Primary
    BY <2>1, LoneThread
  <2>3. QED
    BY <1>1, <2>1, <2>2 DEF OnInsn
<1>5. QED
  BY <1>2, <1>3, <1>4 DEF HeadsClear

LEMMA SoleStep ==
    ASSUME NEW Before, PlainSession(Before)
    PROVE  SoleInv(Before) /\ [Next]_vars => SoleInv(Before)'
<1> SUFFICES ASSUME SoleInv(Before), [Next]_vars PROVE SoleInv(Before)'
  OBVIOUS
<1>1. Inv /\ WaitInv /\ TrapInv
  BY DEF SoleInv
<1>2. Inv' /\ WaitInv'
  BY <1>1, NextInv, WaitStep
<1>3. TrapInv'
  BY <1>1, PlainClear, TrapStep DEF PlainSession
<1>4. PlaceInv(Before)'
  BY PlaceStep
<1>5. QED
  BY <1>2, <1>3, <1>4 DEF SoleInv

LEMMA SoleInit ==
    ASSUME NEW Before
    PROVE  Init => SoleInv(Before)
BY InitInv, WaitInit, TrapInit, PlaceInit DEF SoleInv

(* While continue, run or a call below next runs a one-threaded task, every  *)
(* breakpoint of the table is set and its trap is in the text: whatever was  *)
(* hit, stepped off, deleted or given before (cdbg_continue,                 *)
(* reenable_breakpoints_after_step, step_over_call).                         *)
THEOREM BreakpointsAreArmed ==
    ASSUME NEW Before, PlainSession(Before)
    PROVE  Spec => []ArmedWhileRunning
<1>1. SoleInv(Before) => ArmedWhileRunning
  <2>1. SUFFICES ASSUME SoleInv(Before), mode = "cont", NEW i \in DOMAIN bps
                 PROVE  bps[i].enabled /\ code[bps[i].addr] = "trap"
    BY DEF ArmedWhileRunning
  <2>2. bps[i].enabled
    BY <2>1 DEF SoleInv, PlaceInv, AllSet
  <2>3. bps \in Table /\ state # "IDLE"
    BY <2>1 DEF SoleInv, Inv, TypeOK, Table, Guarding
  <2>4. bps[i].addr \in Insn
    BY <2>1, <2>3, TableEntries
  <2>5. QED
    BY <2>1, <2>2, <2>3, <2>4 DEF SoleInv, TrapInv, Trapped, Owned, SetAt
<1>2. Init => SoleInv(Before)
  BY SoleInit
<1>3. SoleInv(Before) /\ [Next]_vars => SoleInv(Before)'
  BY SoleStep
<1>4. QED
  BY <1>1, <1>2, <1>3, PTL DEF Spec

(* No command resumes a one-threaded task in the middle of an instruction:   *)
(* whichever wait learns of a trap has moved the thread back over it         *)
(* (report_stop, finish_temp_breakpoint, run_to_entry_stop).                 *)
THEOREM StandsOnInstructions ==
    ASSUME NEW Before, PlainSession(Before)
    PROVE  Spec => []NoDerail
<1>1. SoleInv(Before) => NoDerail
  <2>1. SUFFICES ASSUME SoleInv(Before), Running, NEW t \in Alive, t \notin pend
                 PROVE  pc[t] \in Insn
    BY DEF NoDerail
  <2>2. t = Primary /\ pend = {} /\ state # "IDLE"
    BY <2>1 DEF PlainSession, Alive, Running, SoleInv, Inv, TypeOK, DebuggeeTypeOK, Guarding
  <2>3. QED
    BY <2>1, <2>2 DEF SoleInv, PlaceInv
<1>2. Init => SoleInv(Before)
  BY SoleInit
<1>3. SoleInv(Before) /\ [Next]_vars => SoleInv(Before)'
  BY SoleStep
<1>4. QED
  BY <1>1, <1>2, <1>3, PTL DEF Spec

(* With one thread the traps are owned wherever a call returns to: next's    *)
(* own trap may lie on a breakpoint of the user, but on none that is lifted. *)
THEOREM PlainTrapsAreOwned ==
    ASSUME NEW Before, PlainSession(Before)
    PROVE  Spec => []OwnedTraps
<1>1. SoleInv(Before) => OwnedTraps
  BY TrapOwned DEF SoleInv
<1>2. Init => SoleInv(Before)
  BY SoleInit
<1>3. SoleInv(Before) /\ [Next]_vars => SoleInv(Before)'
  BY SoleStep
<1>4. QED
  BY <1>1, <1>2, <1>3, PTL DEF Spec
===============================================================================
