---------------------------- MODULE WatchpointProofs ----------------------------
(***************************************************************************)
(* Proofs about module Watchpoint for any threads, places, values and      *)
(* number of registers: a register never watches for another entry, unwatch*)
(* leaves no hole, and a reported stop brings every thread up to date.     *)
(***************************************************************************)
EXTENDS Watchpoint, SequenceTheorems, TLAPS

Table == {w \in Seq(Wp) : Len(w) <= MaxHw}
Files == [Thread -> [Slot -> Register]]

(* What the registers r and the table w have to do with each other. *)
Agree(w, r) ==
    \A t \in Alive, i \in DOMAIN w : r[t][i] \in {Empty, Hw(w[i])}
Full(w, r, t) == \A i \in DOMAIN w : r[t][i] = Hw(w[i])
AllEnabled(w) == \A i \in DOMAIN w : w[i].enabled

(* The strengthening: the debugger waits exactly while the task runs, only a *)
(* process has threads, and while there is one every entry is enabled.      *)
Live ==
    /\ loc \in Waits => state = "RUNNING"
    /\ loc = "prompt" => state # "RUNNING"
    /\ state = "IDLE" => Alive = {}
    /\ state # "IDLE" => AllEnabled(watches)

Inv == WatchTypeOK /\ NoWrongSlot /\ Live
-------------------------------------------------------------------------------
LEMMA TableEntries ==
    ASSUME NEW w \in Table
    PROVE  /\ Len(w) \in Nat /\ Len(w) <= MaxHw
           /\ DOMAIN w = 1 .. Len(w) /\ DOMAIN w \subseteq Slot
           /\ \A i \in DOMAIN w :
                /\ w[i] \in Wp /\ w[i].place \in Place /\ w[i].mode \in Mode
                /\ w[i].old \in Value /\ w[i].enabled \in BOOLEAN
                /\ Hw(w[i]) \in Register
<1>1. w \in Seq(Wp) /\ Len(w) <= MaxHw
  BY DEF Table
<1>2. Len(w) \in Nat /\ DOMAIN w = 1 .. Len(w)
  BY <1>1, LenProperties
<1>3. DOMAIN w \subseteq Slot
  BY <1>1, <1>2, WatchpointAssumption DEF Slot
<1>4. \A i \in DOMAIN w : w[i] \in Wp
  BY <1>1, <1>2, ElementOfSeq
<1>5. QED
  BY <1>1, <1>2, <1>3, <1>4 DEF Wp, Hw, Register

(* A table rebuilt entry by entry is a table. *)
LEMMA TableType ==
    ASSUME NEW n \in Nat, n <= MaxHw, NEW f \in [1 .. n -> Wp]
    PROVE  f \in Table /\ Len(f) = n
<1>1. f \in Seq(Wp)
  BY SeqDef
<1>2. Len(f) = n
  BY <1>1, LenProperties
<1>3. QED
  BY <1>1, <1>2 DEF Table

(* Reporting a changed value alters neither the place nor the state of any   *)
(* entry.                                                                   *)
LEMMA ToldType ==
    ASSUME NEW w \in Table, mem \in [Place -> Value]
    PROVE  /\ Told(w) \in Table /\ DOMAIN Told(w) = DOMAIN w
           /\ \A i \in DOMAIN w : /\ Hw(Told(w)[i]) = Hw(w[i])
                                  /\ Told(w)[i].enabled = w[i].enabled
<1>1. ASSUME NEW i \in DOMAIN w
      PROVE  /\ Told(w)[i] \in Wp
             /\ Hw(Told(w)[i]) = Hw(w[i]) /\ Told(w)[i].enabled = w[i].enabled
  <2>1. w[i] \in Wp /\ mem[w[i].place] \in Value
    BY <1>1, TableEntries
  <2>2. Told(w)[i] = IF Hit(w, i) THEN [w[i] EXCEPT !.old = mem[w[i].place]] ELSE w[i]
    BY <1>1 DEF Told
  <2>3. QED
    BY <2>1, <2>2 DEF Wp, Hw
<1>2. Told(w) \in [1 .. Len(w) -> Wp] /\ DOMAIN Told(w) = DOMAIN w
  BY <1>1, TableEntries DEF Told
<1>3. Told(w) \in Table
  BY <1>2, TableEntries, TableType
<1>4. QED
  BY <1>1, <1>2, <1>3

(* delete_watchpoint_at leaves the entries before i and moves the others. *)
LEMMA DroppedType ==
    ASSUME NEW w \in Table, NEW i \in DOMAIN w
    PROVE  /\ Dropped(w, i) \in Table /\ DOMAIN Dropped(w, i) = 1 .. (Len(w) - 1)
           /\ \A j \in DOMAIN Dropped(w, i) :
                Dropped(w, i)[j] = IF j < i THEN w[j] ELSE w[j + 1]
<1>1. Len(w) \in Nat /\ Len(w) - 1 \in Nat /\ Len(w) - 1 <= MaxHw
  BY TableEntries, WatchpointAssumption
<1>2. \A j \in 1 .. (Len(w) - 1) : j \in DOMAIN w /\ j + 1 \in DOMAIN w
  BY <1>1, TableEntries
<1>3. Dropped(w, i) \in [1 .. (Len(w) - 1) -> Wp]
  BY <1>2, TableEntries DEF Dropped
<1>4. QED
  BY <1>1, <1>3, TableType DEF Dropped

LEMMA AppendedType ==
    ASSUME NEW w \in Table, NEW wp \in Wp, Len(w) < MaxHw
    PROVE  /\ Append(w, wp) \in Table /\ DOMAIN Append(w, wp) = 1 .. (Len(w) + 1)
           /\ Len(w) + 1 \in Slot
           /\ Append(w, wp)[Len(w) + 1] = wp
           /\ \A j \in DOMAIN w : Append(w, wp)[j] = w[j]
<1>1. w \in Seq(Wp) /\ Len(w) \in Nat
  BY TableEntries DEF Table
<1>2. QED
  BY <1>1, AppendProperties, TableEntries, WatchpointAssumption DEF Table, Slot

LEMMA DisabledType ==
    ASSUME NEW w \in Table
    PROVE  Disabled(w) \in Table
<1>1. Disabled(w) \in [1 .. Len(w) -> Wp]
  BY TableEntries DEF Disabled, Wp
<1>2. QED
  BY <1>1, TableEntries, TableType
-------------------------------------------------------------------------------
(* for_each_thread writes the registers of the threads that are alive. *)
LEMMA OnAliveType ==
    ASSUME NEW r \in Files, NEW new \in Files
    PROVE  /\ OnAlive(r, new) \in Files
           /\ \A t \in Alive : OnAlive(r, new)[t] = new[t]
BY DEF OnAlive, Files, Alive

LEMMA InstalledType ==
    ASSUME NEW r \in Files, NEW slot \in Slot, NEW wp \in Wp
    PROVE  /\ Installed(r, slot, wp) \in Files
           /\ \A t \in Alive, s \in Slot :
                Installed(r, slot, wp)[t][s] = IF s = slot THEN Hw(wp) ELSE r[t][s]
<1> DEFINE new == [t \in Thread |-> [s \in Slot |-> IF s = slot THEN Hw(wp) ELSE r[t][s]]]
<1>1. Hw(wp) \in Register
  BY DEF Hw, Wp, Register
<1>2. new \in Files
  BY <1>1 DEF Files
<1>3. Alive \subseteq Thread
  BY DEF Alive
<1>4. Installed(r, slot, wp) = OnAlive(r, new)
  BY DEF Installed
<1>5. \A t \in Alive, s \in Slot : new[t][s] = IF s = slot THEN Hw(wp) ELSE r[t][s]
  BY <1>3
<1> HIDE DEF new
<1>6. QED
  BY <1>2, <1>4, <1>5, OnAliveType

LEMMA ResyncedType ==
    ASSUME NEW r \in Files, NEW w \in Table
    PROVE  /\ Resynced(r, w) \in Files
           /\ \A t \in Alive, s \in Slot :
                Resynced(r, w)[t][s] =
                  IF s \in DOMAIN w /\ w[s].enabled THEN Hw(w[s]) ELSE r[t][s]
<1> DEFINE new == [t \in Thread |->
        [s \in Slot |-> IF s \in DOMAIN w /\ w[s].enabled THEN Hw(w[s]) ELSE r[t][s]]]
<1>1. new \in Files
  BY TableEntries DEF Files
<1>2. Alive \subseteq Thread
  BY DEF Alive
<1>3. Resynced(r, w) = OnAlive(r, new)
  BY DEF Resynced
<1>4. \A t \in Alive, s \in Slot :
         new[t][s] = IF s \in DOMAIN w /\ w[s].enabled THEN Hw(w[s]) ELSE r[t][s]
  BY <1>2
<1> HIDE DEF new
<1>5. QED
  BY <1>1, <1>3, <1>4, OnAliveType

LEMMA ShiftedType ==
    ASSUME NEW r \in Files, NEW w \in Table, NEW i \in DOMAIN w
    PROVE  /\ Shifted(r, w, i) \in Files
           /\ \A t \in Alive, s \in Slot :
                Shifted(r, w, i)[t][s] =
                  IF i <= s /\ s < Len(w) THEN Hw(w[s + 1])
                  ELSE IF s = i THEN Empty ELSE r[t][s]
<1> DEFINE new == [t \in Thread |->
        [s \in Slot |-> IF i <= s /\ s < Len(w) THEN Hw(w[s + 1])
                        ELSE IF s = i THEN Empty ELSE r[t][s]]]
<1>1. \A s \in Slot : i <= s /\ s < Len(w) => s + 1 \in DOMAIN w
  BY TableEntries DEF Slot
<1>2. Empty \in Register
  BY DEF Register
<1>3. new \in Files
  BY <1>1, <1>2, TableEntries DEF Files
<1>4. Alive \subseteq Thread
  BY DEF Alive
<1>5. Shifted(r, w, i) = OnAlive(r, new)
  BY DEF Shifted
<1>6. \A t \in Alive, s \in Slot :
         new[t][s] = IF i <= s /\ s < Len(w) THEN Hw(w[s + 1])
                     ELSE IF s = i THEN Empty ELSE r[t][s]
  BY <1>4
<1> HIDE DEF new
<1>7. QED
  BY <1>3, <1>5, <1>6, OnAliveType

LEMMA ClearedType ==
    ASSUME NEW r \in Files, NEW w \in Table
    PROVE  Cleared(r, w) \in Files
<1> DEFINE new == [t \in Thread |->
        [s \in Slot |-> IF s \in DOMAIN w THEN Empty ELSE r[t][s]]]
<1>1. Empty \in Register
  BY DEF Register
<1>2. new \in Files
  BY <1>1 DEF Files
<1>3. Cleared(r, w) = OnAlive(r, new)
  BY DEF Cleared
<1> HIDE DEF new
<1>4. QED
  BY <1>2, <1>3, OnAliveType

LEMMA NoRegistersType == NoRegisters \in Files
BY DEF NoRegisters, Files, Register
-------------------------------------------------------------------------------
LEMMA InvFacts ==
    ASSUME Inv
    PROVE  /\ watches \in Table /\ regs \in Files /\ Agree(watches, regs)
           /\ mem \in [Place -> Value] /\ cur \in Thread /\ pend \subseteq Thread
           /\ life \in [Thread -> {"unborn", "alive", "gone"}]
           /\ Alive \subseteq Thread
BY DEF Inv, WatchTypeOK, NoWrongSlot, Agree, Table, Files, Alive

(* A step after which the tables and the rest of the state are well formed.  *)
LEMMA InvNext ==
    ASSUME watches' \in Table, regs' \in Files,
           \A t \in Alive', i \in DOMAIN watches' :
               regs'[t][i] \in {Empty, Hw(watches'[i])},
           mem' \in [Place -> Value], cur' \in Thread, pend' \subseteq Thread,
           life' \in [Thread -> {"unborn", "alive", "gone"}],
           state' \in {"IDLE", "RUNNING", "STOPPED"},
           loc' \in Waits \cup {"prompt"}, Live'
    PROVE  Inv'
<1>1. Hw(watches)' = Hw(watches')
  BY DEF Hw
<1>2. WatchTypeOK'
  BY DEF WatchTypeOK, Table, Files
<1>3. NoWrongSlot'
  BY DEF NoWrongSlot, Hw
<1>4. QED
  BY <1>2, <1>3 DEF Inv

(* A stop leaves the threads and the memory alone. *)
LEMMA StopKeeps ==
    ASSUME Inv, TakeStop
    PROVE  /\ life' = life /\ mem' = mem /\ pend' \subseteq Thread /\ Alive' = Alive
BY InvFacts DEF TakeStop, Alive

(* What report_stop hands back. *)
LEMMA ReportedType ==
    ASSUME Inv, state # "IDLE", NEW m \in Reported
    PROVE  /\ m.regs = Resynced(regs, watches) /\ m.regs \in Files
           /\ m.watches \in Table /\ m.cur \in Thread
           /\ m.watches \in {watches, Told(watches)}
           /\ AllEnabled(m.watches)
           /\ \A t \in Alive : Full(m.watches, m.regs, t)
<1> DEFINE r == Resynced(regs, watches)
<1>1. /\ watches \in Table /\ regs \in Files /\ mem \in [Place -> Value]
      /\ cur \in Thread /\ Alive \subseteq Thread /\ AllEnabled(watches)
  BY InvFacts DEF Inv, Live
<1>2. \E w \in {watches, Told(watches)}, c \in Thread : m = View(r, w, c)
  BY <1>1 DEF Reported
<1>3. PICK w \in {watches, Told(watches)}, c \in Thread : m = View(r, w, c)
  BY <1>2
<1>4. m.regs = r /\ m.watches = w /\ m.cur = c
  BY <1>3 DEF View
<1>5. /\ w \in Table /\ DOMAIN w = DOMAIN watches
      /\ \A i \in DOMAIN w : Hw(w[i]) = Hw(watches[i]) /\ w[i].enabled = watches[i].enabled
  BY <1>1, <1>3, ToldType
<1>6. r \in Files /\ \A t \in Alive, i \in DOMAIN watches : r[t][i] = Hw(watches[i])
  BY <1>1, ResyncedType, TableEntries DEF AllEnabled
<1>7. AllEnabled(w)
  BY <1>1, <1>5 DEF AllEnabled
<1> HIDE DEF r
<1>8. \A t \in Alive : Full(w, r, t)
  BY <1>5, <1>6 DEF Full
<1>9. QED
  BY <1>3, <1>4, <1>5, <1>6, <1>7, <1>8 DEF r

(* Reporting a value on top of what a stop has left. *)
LEMMA ToldKeeps ==
    ASSUME NEW w \in Table, NEW r \in Files, mem \in [Place -> Value],
           Agree(w, r), AllEnabled(w)
    PROVE  /\ Told(w) \in Table /\ Agree(Told(w), r) /\ AllEnabled(Told(w))
           /\ \A t \in Alive : Full(w, r, t) => Full(Told(w), r, t)
BY ToldType DEF Agree, AllEnabled, Full

(* A wait ends at the prompt, or the loop goes on, with m. *)
LEMMA ViewInv ==
    ASSUME Inv, TakeStop, loc' \in Waits => state' = "RUNNING",
           loc' \in Waits \cup {"prompt"}, state' \in {"RUNNING", "STOPPED"},
           loc' = "prompt" => state' = "STOPPED",
           watches' \in Table, regs' \in Files, cur' \in Thread,
           Agree(watches', regs'), AllEnabled(watches')
    PROVE  Inv'
<1>1. /\ life' = life /\ mem' = mem /\ pend' \subseteq Thread /\ Alive' = Alive
  BY StopKeeps
<1>2. \A t \in Alive', i \in DOMAIN watches' : regs'[t][i] \in {Empty, Hw(watches'[i])}
  BY <1>1 DEF Agree
<1>3. Live'
  BY DEF Live, AllEnabled
<1>4. QED
  BY <1>1, <1>2, <1>3, InvFacts, InvNext

(* The end of the process, found by any wait or brought about by kill. *)
LEMMA NoProcessInv ==
    ASSUME Inv, NoProcess, cur' \in Thread
    PROVE  Inv'
<1>1. watches' \in Table
  BY InvFacts, DisabledType DEF NoProcess
<1>2. regs' \in Files
  BY NoRegistersType DEF NoProcess
<1>3. Alive' = {}
  BY DEF NoProcess, Alive
<1>4. Live'
  BY <1>3 DEF NoProcess, Live, Waits
<1>5. QED
  BY <1>1, <1>2, <1>3, <1>4, InvNext, WatchpointAssumption DEF NoProcess

LEMMA RunInv ==
    ASSUME Inv, Run
    PROVE  Inv'
<1>1. watches' = <<>> /\ <<>> \in Table /\ DOMAIN <<>> = {}
  BY WatchpointAssumption DEF Run, Table
<1>2. regs' \in Files
  BY NoRegistersType DEF Run
<1>3. Live'
  BY <1>1 DEF Run, Resume, Live, Waits, AllEnabled
<1>4. QED
  BY <1>1, <1>2, <1>3, InvNext, WatchpointAssumption DEF Run, Resume, Waits

(* Steps that change neither the table, nor a register, nor who is alive. *)
LEMMA QuietInv ==
    ASSUME Inv, UNCHANGED <<watches, regs, life>>,
           mem' \in [Place -> Value], cur' \in Thread, pend' \subseteq Thread,
           state' \in {"RUNNING", "STOPPED"}, state # "IDLE",
           loc' \in Waits \cup {"prompt"},
           loc' \in Waits => state' = "RUNNING", loc' = "prompt" => state' = "STOPPED"
    PROVE  Inv'
<1>1. Alive' = Alive
  BY DEF Alive
<1>2. Live'
  BY DEF Inv, Live, AllEnabled
<1>3. \A t \in Alive', i \in DOMAIN watches' : regs'[t][i] \in {Empty, Hw(watches'[i])}
  BY <1>1, InvFacts DEF Agree
<1>4. QED
  BY <1>2, <1>3, InvFacts, InvNext

(* An instruction of the debuggee. *)
LEMMA DebuggeeInv ==
    ASSUME Inv, Debuggee
    PROVE  Inv'
<1>1. state = "RUNNING" /\ loc \in Waits /\ AllEnabled(watches)
  BY DEF Inv, Live, WatchTypeOK, Debuggee, Access, CreateThread, EndThread, Runnable, Waits
<1>2. PICK t \in Thread :
        \/ \E p \in Place : \/ Access(t, p, FALSE, mem[p])
                            \/ \E v \in Value : Access(t, p, TRUE, v)
        \/ \E u \in Thread : CreateThread(t, u)
        \/ EndThread(t)
  BY DEF Debuggee
<1>3. CASE \E p \in Place : \/ Access(t, p, FALSE, mem[p])
                            \/ \E v \in Value : Access(t, p, TRUE, v)
  <2>1. PICK p \in Place, w \in BOOLEAN, v \in Value : Access(t, p, w, v)
    BY <1>3, InvFacts
  <2>2. mem' \in [Place -> Value] /\ pend' \subseteq Thread
    BY <2>1, InvFacts DEF Access, Runnable
  <2>3. UNCHANGED <<watches, regs, life, state, loc, cur>>
    BY <2>1 DEF Access
  <2>4. QED
    BY <1>1, <2>2, <2>3, InvFacts, QuietInv DEF Waits
<1>4. CASE \E u \in Thread : CreateThread(t, u)
  <2>1. PICK u \in Thread : CreateThread(t, u)
    BY <1>4
  <2>2. /\ life' \in [Thread -> {"unborn", "alive", "gone"}]
        /\ regs' \in Files /\ \A s \in Slot : regs'[u][s] = Empty
        /\ \A x \in Thread \ {u} : regs'[x] = regs[x] /\ life'[x] = life[x]
    BY <2>1, InvFacts DEF CreateThread, Files, Register
  <2>3. DOMAIN watches \subseteq Slot /\ watches' = watches
    BY <2>1, InvFacts, TableEntries DEF CreateThread
  <2>4. \A x \in Alive', i \in DOMAIN watches' : regs'[x][i] \in {Empty, Hw(watches'[i])}
    BY <2>2, <2>3, InvFacts DEF Agree, Alive
  <2>5. Live'
    BY <1>1, <2>1 DEF CreateThread, Live, AllEnabled, Waits
  <2>6. QED
    BY <1>1, <2>1, <2>2, <2>3, <2>4, <2>5, InvFacts, InvNext DEF CreateThread
<1>5. CASE EndThread(t)
  <2>1. life' \in [Thread -> {"unborn", "alive", "gone"}] /\ Alive' \subseteq Alive
    BY <1>5, InvFacts DEF EndThread, Alive
  <2>2. \A x \in Alive', i \in DOMAIN watches' : regs'[x][i] \in {Empty, Hw(watches'[i])}
    BY <1>5, <2>1, InvFacts DEF Agree, EndThread
  <2>3. Live'
    BY <1>1, <1>5 DEF EndThread, Live, AllEnabled, Waits
  <2>4. QED
    BY <1>1, <1>5, <2>1, <2>2, <2>3, InvFacts, InvNext DEF EndThread
<1>6. QED
  BY <1>2, <1>3, <1>4, <1>5

(* The handlers of the waits that report. *)
LEMMA ReportedStopInv ==
    ASSUME Inv, ReportedStop
    PROVE  Inv'
<1>1. state # "IDLE"
  BY DEF ReportedStop, Inv, Live, Waits
<1>2. PICK m \in Reported : Become(m)
  BY DEF ReportedStop
<1>3. /\ m.watches \in Table /\ m.regs \in Files /\ m.cur \in Thread
      /\ AllEnabled(m.watches) /\ Agree(m.watches, m.regs)
  BY <1>1, <1>2, ReportedType DEF Full, Agree
<1>4. QED
  BY <1>2, <1>3, ViewInv DEF ReportedStop, Become, Prompt, Waits

LEMMA LineStopInv ==
    ASSUME Inv, LineStop
    PROVE  Inv'
<1>1. state # "IDLE" /\ AllEnabled(watches)
  BY DEF LineStop, Inv, Live, Waits
<1>2. ASSUME NEW m \in {Now} \cup Reported
      PROVE  /\ m.watches \in Table /\ m.regs \in Files /\ m.cur \in Thread
             /\ AllEnabled(m.watches) /\ Agree(m.watches, m.regs)
  <2>1. CASE m = Now
    BY <1>1, <2>1, InvFacts DEF Now, View
  <2>2. CASE m \in Reported
    BY <1>1, <2>2, ReportedType DEF Full, Agree
  <2>3. QED
    BY <1>2, <2>1, <2>2
<1>3. CASE \E m \in Reported : Become(m) /\ Prompt
  BY <1>2, <1>3, ViewInv DEF LineStop, Become, Prompt, Waits
<1>4. CASE \E m \in {Now} \cup Reported :
             /\ Become(View(m.regs, Told(m.watches), m.cur))
             /\ \/ Prompt
                \/ Resume("line") /\ \A i \in DOMAIN m.watches : ~Changed(m.watches, i)
  <2>1. PICK m \in {Now} \cup Reported :
             /\ Become(View(m.regs, Told(m.watches), m.cur))
             /\ Prompt \/ Resume("line")
    BY <1>4
  <2>2. /\ watches' = Told(m.watches) /\ regs' = m.regs /\ cur' = m.cur
    BY <2>1 DEF Become, View
  <2>3. Told(m.watches) \in Table /\ Agree(Told(m.watches), m.regs) /\ AllEnabled(Told(m.watches))
    BY <1>2, InvFacts, ToldKeeps
  <2>4. QED
    BY <1>2, <2>1, <2>2, <2>3, ViewInv DEF LineStop, Prompt, Resume, Waits
<1>5. QED
  BY <1>3, <1>4 DEF LineStop

LEMMA RestStopInv ==
    ASSUME Inv, RunStop \/ OverContStop
    PROVE  Inv'
<1>1. state # "IDLE" /\ TakeStop /\ UNCHANGED <<cur, watches, regs>>
  BY DEF RunStop, OverContStop, Inv, Live, Waits
<1>2. UNCHANGED <<life, mem>> /\ pend' \subseteq Thread
  BY <1>1, StopKeeps
<1>3. QED
  BY <1>1, <1>2, InvFacts, QuietInv DEF RunStop, OverContStop, Prompt, Resume, Waits
-------------------------------------------------------------------------------
(* The commands on the table: every register below the number of entries     *)
(* stays empty or follows its entry, on threads that watch all, some or none.*)
LEMMA WatchInv ==
    ASSUME Inv, NEW p \in Place, NEW mode \in Mode, Watch(p, mode)
    PROVE  Inv'
<1> DEFINE wp == [place |-> p, mode |-> mode, old |-> mem[p], enabled |-> TRUE]
<1>1. wp \in Wp /\ wp.enabled
  BY InvFacts DEF Wp
<1>2. watches \in Table /\ Len(watches) < MaxHw
  BY InvFacts, TableEntries, WatchpointAssumption DEF Watch, TableFull
<1>3. watches' = Append(watches, wp) /\ regs' = Installed(regs, Len(watches) + 1, wp)
  BY DEF Watch
<1> HIDE DEF wp
<1>4. /\ Append(watches, wp) \in Table /\ DOMAIN Append(watches, wp) = 1 .. (Len(watches) + 1)
      /\ Len(watches) + 1 \in Slot
      /\ Append(watches, wp)[Len(watches) + 1] = wp
      /\ \A j \in DOMAIN watches : Append(watches, wp)[j] = watches[j]
  BY <1>1, <1>2, AppendedType
<1>5. DOMAIN watches = 1 .. Len(watches) /\ Len(watches) \in Nat
  BY <1>2, TableEntries
<1>6. /\ regs' \in Files
      /\ \A t \in Alive, s \in Slot :
           regs'[t][s] = IF s = Len(watches) + 1 THEN Hw(wp) ELSE regs[t][s]
  BY <1>1, <1>3, <1>4, InvFacts, InstalledType
<1>7. UNCHANGED <<state, loc, life, pend, mem, cur>> /\ Alive' = Alive
      /\ loc = "prompt" /\ state = "STOPPED"
  BY DEF Watch, StillStopped, Alive
<1>8. \A i \in DOMAIN watches' : i \in Slot /\ (i = Len(watches) + 1 \/ i \in DOMAIN watches)
  BY <1>2, <1>3, <1>4, <1>5, TableEntries
<1>9. \A t \in Alive', i \in DOMAIN watches' : regs'[t][i] \in {Empty, Hw(watches'[i])}
  BY <1>3, <1>4, <1>6, <1>7, <1>8, InvFacts DEF Agree
<1>10. AllEnabled(watches')
  BY <1>1, <1>3, <1>4, <1>7, <1>8 DEF AllEnabled, Inv, Live
<1>11. Live'
  BY <1>7, <1>10 DEF Live, AllEnabled, Waits
<1>12. QED
  BY <1>3, <1>4, <1>6, <1>7, <1>9, <1>11, InvFacts, InvNext

LEMMA UnwatchInv ==
    ASSUME Inv, NEW i \in DOMAIN watches, Unwatch(i)
    PROVE  Inv'
<1>1. watches \in Table /\ regs \in Files /\ Agree(watches, regs)
  BY InvFacts
<1>2. watches' = Dropped(watches, i) /\ regs' = Shifted(regs, watches, i)
  BY DEF Unwatch
<1>3. /\ watches' \in Table /\ DOMAIN watches' = 1 .. (Len(watches) - 1)
      /\ \A j \in DOMAIN watches' :
           watches'[j] = IF j < i THEN watches[j] ELSE watches[j + 1]
  BY <1>1, <1>2, DroppedType
<1>4. /\ regs' \in Files
      /\ \A t \in Alive, s \in Slot :
           regs'[t][s] = IF i <= s /\ s < Len(watches) THEN Hw(watches[s + 1])
                         ELSE IF s = i THEN Empty ELSE regs[t][s]
  BY <1>1, <1>2, ShiftedType
<1>5. UNCHANGED <<state, loc, life, pend, mem, cur>> /\ Alive' = Alive /\ loc = "prompt"
  BY DEF Unwatch, StillStopped, Alive
<1>6. Len(watches) \in Nat /\ DOMAIN watches = 1 .. Len(watches) /\ DOMAIN watches \subseteq Slot
  BY <1>1, TableEntries
<1>7. \A j \in DOMAIN watches' :
         /\ j \in Slot /\ j \in DOMAIN watches /\ j + 1 \in DOMAIN watches
         /\ j < Len(watches) /\ j \in Nat
  BY <1>3, <1>6
<1>8. ASSUME NEW t \in Alive, NEW j \in DOMAIN watches'
      PROVE  regs'[t][j] \in {Empty, Hw(watches'[j])}
  <2>1. CASE j < i
    BY <1>1, <1>3, <1>4, <1>6, <1>7, <2>1 DEF Agree
  <2>2. CASE ~(j < i)
    BY <1>3, <1>4, <1>6, <1>7, <2>2
  <2>3. QED
    BY <2>1, <2>2
<1>9. Live'
  BY <1>3, <1>5, <1>7 DEF Inv, Live, AllEnabled, Waits
<1>10. QED
  BY <1>3, <1>4, <1>5, <1>8, <1>9, InvFacts, InvNext DEF Inv, WatchTypeOK

LEMMA UnwatchAllInv ==
    ASSUME Inv, UnwatchAll
    PROVE  Inv'
<1>1. watches' = <<>> /\ <<>> \in Table /\ DOMAIN <<>> = {}
  BY WatchpointAssumption DEF UnwatchAll, Table
<1>2. regs' \in Files
  BY InvFacts, ClearedType DEF UnwatchAll
<1>3. UNCHANGED <<state, loc, life, pend, mem, cur>> /\ Alive' = Alive /\ loc = "prompt"
  BY DEF UnwatchAll, StillStopped, Alive
<1>4. Live'
  BY <1>1, <1>3 DEF Inv, Live, AllEnabled, Waits
<1>5. QED
  BY <1>1, <1>2, <1>3, <1>4, InvFacts, InvNext DEF Inv, WatchTypeOK

(* Commands that touch neither. *)
LEMMA RestCommandInv ==
    ASSUME Inv,
           \/ Continue \/ Step
           \/ \E p \in Place, v \in Value : SetVar(p, v)
           \/ \E t \in Thread : SelectThread(t)
    PROVE  Inv'
<1>1. UNCHANGED <<watches, regs, life, pend>> /\ state = "STOPPED" /\ loc = "prompt"
  BY DEF Continue, Step, SetVar, SelectThread, StillStopped
<1>2. mem' \in [Place -> Value] /\ cur' \in Thread
  BY InvFacts DEF Continue, Step, SetVar, SelectThread, StillStopped
<1>3. /\ state' \in {"RUNNING", "STOPPED"} /\ loc' \in Waits \cup {"prompt"}
      /\ loc' \in Waits => state' = "RUNNING"
      /\ loc' = "prompt" => state' = "STOPPED"
  BY <1>1 DEF Continue, Step, SetVar, SelectThread, StillStopped, Resume, Waits
<1>4. QED
  BY <1>1, <1>2, <1>3, InvFacts, QuietInv

LEMMA StutterInv ==
    ASSUME Inv, UNCHANGED vars
    PROVE  Inv'
BY DEF vars, Inv, WatchTypeOK, NoWrongSlot, Live, Alive, AllEnabled, Hw

(* Init and every step establish the invariant. *)
THEOREM WatchInvariance == Spec => []Inv
<1>1. Init => Inv
  <2>1. SUFFICES ASSUME Init PROVE Inv
    OBVIOUS
  <2>2. <<>> \in Seq(Wp) /\ Len(<<>>) <= MaxHw /\ DOMAIN <<>> = {}
    BY WatchpointAssumption
  <2>3. NoRegisters \in [Thread -> [Slot -> Register]]
    BY NoRegistersType DEF Files
  <2>4. WatchTypeOK
    BY <2>1, <2>2, <2>3, WatchpointAssumption DEF Init, WatchTypeOK
  <2>5. NoWrongSlot /\ Live
    BY <2>1, <2>2 DEF Init, NoWrongSlot, Live, AllEnabled, Waits
  <2>6. QED
    BY <2>4, <2>5 DEF Inv
<1>2. Inv /\ [Next]_vars => Inv'
  <2>1. SUFFICES ASSUME Inv, [Next]_vars PROVE Inv'
    OBVIOUS
  <2>2. CASE Debuggee
    BY <2>1, <2>2, DebuggeeInv
  <2>3. CASE Run
    BY <2>1, <2>3, RunInv
  <2>4. CASE RunStop \/ OverContStop
    BY <2>1, <2>4, RestStopInv
  <2>5. CASE ReportedStop
    BY <2>1, <2>5, ReportedStopInv
  <2>6. CASE LineStop
    BY <2>1, <2>6, LineStopInv
  <2>7. CASE ProcessExit \/ Kill
    BY <2>1, <2>7, InvFacts, NoProcessInv, WatchpointAssumption DEF ProcessExit, Kill
  <2>8. CASE \E p \in Place, m \in Mode : Watch(p, m)
    BY <2>1, <2>8, WatchInv
  <2>9. CASE \E i \in DOMAIN watches : Unwatch(i)
    BY <2>1, <2>9, UnwatchInv
  <2>10. CASE UnwatchAll
    BY <2>1, <2>10, UnwatchAllInv
  <2>11. CASE \/ Continue \/ Step
              \/ \E p \in Place, v \in Value : SetVar(p, v)
              \/ \E t \in Thread : SelectThread(t)
    BY <2>1, <2>11, RestCommandInv
  <2>12. CASE UNCHANGED vars
    BY <2>1, <2>12, StutterInv
  <2>13. QED
    BY <2>1, <2>2, <2>3, <2>4, <2>5, <2>6, <2>7, <2>8, <2>9, <2>10, <2>11, <2>12 DEF Next
<1>3. QED
  BY <1>1, <1>2, PTL DEF Spec

(* Types, and that no entry of the table is without a debug register.        *)
THEOREM TableFits == Spec => []WatchTypeOK
<1>1. Inv => WatchTypeOK
  BY DEF Inv
<1>2. QED
  BY <1>1, WatchInvariance, PTL

(* No register ever watches for an entry other than the one of its number.   *)
THEOREM SlotsAgree == Spec => []NoWrongSlot
<1>1. Inv => NoWrongSlot
  BY DEF Inv
<1>2. QED
  BY <1>1, WatchInvariance, PTL
-------------------------------------------------------------------------------
LEMMA CoveredFull ==
    ASSUME NEW t
    PROVE  /\ Covered(t) <=> Full(watches, regs, t)
           /\ Covered(t)' <=> Full(watches', regs', t)
BY DEF Covered, Full, Hw

(* The first stop of continue or si covers every thread that has been        *)
(* created by then, however many there are and whatever the stop is.         *)
THEOREM ReportsCover == Spec => ReportCovers
<1>1. ASSUME Inv, Next, loc \in {"cont", "si"}, loc' = "prompt", state' = "STOPPED"
      PROVE  \A t \in Alive : Covered(t)'
  <2>1. ReportedStop
    BY <1>1 DEF Next, Debuggee, Access, CreateThread, EndThread, Run, RunStop, Continue,
                OverContStop, Step, LineStop, ProcessExit, NoProcess, Kill, Watch, Unwatch,
                UnwatchAll, SetVar, SelectThread, Resume
  <2>2. PICK m \in Reported : Become(m)
    BY <2>1 DEF ReportedStop
  <2>3. state # "IDLE"
    BY <1>1 DEF Inv, Live, Waits
  <2>4. \A t \in Alive : Full(m.watches, m.regs, t)
    BY <1>1, <2>2, <2>3, ReportedType
  <2>5. QED
    BY <2>2, <2>4, CoveredFull DEF Become
<1>2. Inv /\ [Next]_vars =>
        [(loc \in {"cont", "si"} /\ loc' = "prompt" /\ state' = "STOPPED" =>
             \A t \in Alive : Covered(t)')]_vars
  BY <1>1
<1>3. QED
  BY <1>2, WatchInvariance, PTL DEF Spec, ReportCovers

(* The renumbering of unwatch carries the registers along. *)
LEMMA UnwatchKeeps ==
    ASSUME Inv, NEW i \in DOMAIN watches, Unwatch(i), NEW t \in Alive, Covered(t)
    PROVE  Covered(t)'
<1>1. watches \in Table /\ regs \in Files
  BY InvFacts
<1>2. watches' = Dropped(watches, i) /\ regs' = Shifted(regs, watches, i)
  BY DEF Unwatch
<1>3. /\ DOMAIN watches' = 1 .. (Len(watches) - 1)
      /\ \A j \in DOMAIN watches' :
           watches'[j] = IF j < i THEN watches[j] ELSE watches[j + 1]
  BY <1>1, <1>2, DroppedType
<1>4. \A s \in Slot :
         regs'[t][s] = IF i <= s /\ s < Len(watches) THEN Hw(watches[s + 1])
                       ELSE IF s = i THEN Empty ELSE regs[t][s]
  BY <1>1, <1>2, ShiftedType
<1>5. Len(watches) \in Nat /\ DOMAIN watches = 1 .. Len(watches) /\ DOMAIN watches \subseteq Slot
  BY <1>1, TableEntries
<1>6. ASSUME NEW j \in DOMAIN watches'
      PROVE  regs'[t][j] = Hw(watches'[j])
  <2>1. j \in Slot /\ j \in DOMAIN watches /\ j < Len(watches) /\ j \in Nat
    BY <1>3, <1>5
  <2>2. CASE j < i
    <3>1. regs'[t][j] = regs[t][j] /\ watches'[j] = watches[j]
      BY <1>3, <1>4, <1>5, <2>1, <2>2
    <3>2. QED
      BY <2>1, <3>1 DEF Covered
  <2>3. CASE ~(j < i)
    <3>1. regs'[t][j] = Hw(watches[j + 1]) /\ watches'[j] = watches[j + 1]
      BY <1>3, <1>4, <1>5, <2>1, <2>3
    <3>2. QED
      BY <3>1
  <2>4. QED
    BY <2>2, <2>3
<1>7. QED
  BY <1>6, CoveredFull DEF Full

LEMMA WatchKeeps ==
    ASSUME Inv, NEW p \in Place, NEW mode \in Mode, Watch(p, mode),
           NEW t \in Alive, Covered(t)
    PROVE  Covered(t)'
<1> DEFINE wp == [place |-> p, mode |-> mode, old |-> mem[p], enabled |-> TRUE]
<1>1. wp \in Wp
  BY InvFacts DEF Wp
<1>2. watches \in Table /\ Len(watches) < MaxHw /\ Len(watches) \in Nat
      /\ DOMAIN watches = 1 .. Len(watches) /\ DOMAIN watches \subseteq Slot
  BY InvFacts, TableEntries, WatchpointAssumption DEF Watch, TableFull
<1>3. watches' = Append(watches, wp) /\ regs' = Installed(regs, Len(watches) + 1, wp)
  BY DEF Watch
<1> HIDE DEF wp
<1>4. /\ DOMAIN watches' = 1 .. (Len(watches) + 1)
      /\ Len(watches) + 1 \in Slot
      /\ watches'[Len(watches) + 1] = wp
      /\ \A j \in DOMAIN watches : watches'[j] = watches[j]
  BY <1>1, <1>2, <1>3, AppendedType
<1>5. \A s \in Slot : regs'[t][s] = IF s = Len(watches) + 1 THEN Hw(wp) ELSE regs[t][s]
  BY <1>1, <1>3, <1>4, InvFacts, InstalledType
<1>6. \A j \in DOMAIN watches : j # Len(watches) + 1 /\ regs[t][j] = Hw(watches[j])
  BY <1>2 DEF Covered
<1>7. \A j \in DOMAIN watches' : j = Len(watches) + 1 \/ j \in DOMAIN watches
  BY <1>2, <1>4
<1>8. \A j \in DOMAIN watches' : regs'[t][j] = Hw(watches'[j])
  BY <1>2, <1>4, <1>5, <1>6, <1>7
<1>9. QED
  BY <1>8, CoveredFull DEF Full

(* The stops of a loop, whether they write the registers or not. *)
LEMMA LineStopKeeps ==
    ASSUME Inv, LineStop, NEW t \in Alive, Covered(t)
    PROVE  Covered(t)'
<1>1. state # "IDLE" /\ AllEnabled(watches)
  BY DEF LineStop, Inv, Live, Waits
<1>2. ASSUME NEW m \in {Now} \cup Reported
      PROVE  /\ m.watches \in Table /\ m.regs \in Files
             /\ AllEnabled(m.watches) /\ Agree(m.watches, m.regs)
             /\ Full(m.watches, m.regs, t)
  <2>1. CASE m = Now
    BY <1>1, <2>1, InvFacts, CoveredFull DEF Now, View
  <2>2. CASE m \in Reported
    BY <1>1, <2>2, ReportedType DEF Full, Agree
  <2>3. QED
    BY <1>2, <2>1, <2>2
<1>3. CASE \E m \in Reported : Become(m) /\ Prompt
  BY <1>2, <1>3, CoveredFull DEF Become
<1>4. CASE \E m \in {Now} \cup Reported : Become(View(m.regs, Told(m.watches), m.cur))
  <2>1. PICK m \in {Now} \cup Reported : Become(View(m.regs, Told(m.watches), m.cur))
    BY <1>4
  <2>2. watches' = Told(m.watches) /\ regs' = m.regs
    BY <2>1 DEF Become, View
  <2>3. Full(Told(m.watches), m.regs, t)
    BY <1>2, InvFacts, ToldKeeps
  <2>4. QED
    BY <2>2, <2>3, CoveredFull
<1>5. QED
  BY <1>3, <1>4 DEF LineStop

(* A thread that watches every entry goes on doing so for as long as it      *)
(* lives, through every command and every stop.                              *)
THEOREM CoverageIsKept == Spec => CoverageKept
<1>1. ASSUME Inv, Next, NEW t \in Alive, Covered(t), life'[t] = "alive"
      PROVE  Covered(t)'
  <2>1. CASE UNCHANGED <<watches, regs>>
    BY <1>1, <2>1 DEF Covered, Hw
  <2>2. CASE \E x, u \in Thread : CreateThread(x, u)
    <3>1. PICK x \in Thread, u \in Thread : CreateThread(x, u)
      BY <2>2
    <3>2. t # u /\ watches' = watches /\ regs'[t] = regs[t]
      BY <1>1, <3>1, InvFacts DEF CreateThread, Alive, Files
    <3>3. QED
      BY <1>1, <3>2 DEF Covered, Hw
  <2>3. CASE Run \/ UnwatchAll
    BY <2>3, CoveredFull DEF Run, UnwatchAll, Full
  <2>4. CASE ReportedStop
    <3>1. PICK m \in Reported : Become(m)
      BY <2>4 DEF ReportedStop
    <3>2. Full(m.watches, m.regs, t)
      BY <1>1, <2>4, <3>1, ReportedType DEF ReportedStop, Inv, Live, Waits
    <3>3. QED
      BY <3>1, <3>2, CoveredFull DEF Become
  <2>5. CASE LineStop
    BY <1>1, <2>5, LineStopKeeps
  <2>6. CASE ProcessExit \/ Kill
    <3>1. t \in Thread
      BY <1>1, InvFacts
    <3>2. life'[t] = "unborn"
      BY <2>6, <3>1 DEF ProcessExit, Kill, NoProcess
    <3>3. QED
      BY <1>1, <3>2
  <2>7. CASE \E p \in Place, m \in Mode : Watch(p, m)
    BY <1>1, <2>7, WatchKeeps
  <2>8. CASE \E i \in DOMAIN watches : Unwatch(i)
    BY <1>1, <2>8, UnwatchKeeps
  <2>9. \/ UNCHANGED <<watches, regs>> \/ \E x, u \in Thread : CreateThread(x, u)
        \/ Run \/ UnwatchAll \/ ReportedStop \/ LineStop \/ ProcessExit \/ Kill
        \/ \E p \in Place, m \in Mode : Watch(p, m)
        \/ \E i \in DOMAIN watches : Unwatch(i)
    BY <1>1 DEF Next, Debuggee, Access, EndThread, RunStop, Continue, OverContStop, Step,
                SetVar, SelectThread
  <2>10. QED
    BY <2>1, <2>2, <2>3, <2>4, <2>5, <2>6, <2>7, <2>8, <2>9
<1>2. Inv /\ [Next]_vars =>
        [(\A t \in Alive : Covered(t) => Covered(t)' \/ life'[t] # "alive")]_vars
  BY <1>1
<1>3. QED
  BY <1>2, WatchInvariance, PTL DEF Spec, CoverageKept
===============================================================================
