------------------------------ MODULE ServiceProofs ------------------------------
(***************************************************************************)
(* A debuggee of one thread: where si and next leave it, and that the      *)
(* session is a DebugService.                                              *)
(***************************************************************************)
EXTENDS TrapProofs

USE DEF Spot

(* The byte behind a trap starts no other instruction: no breakpoint, return *)
(* address or start of main is a one-byte instruction.                       *)
BreaksWide == \A a \in BreakAt : a + 1 \notin Insn
Wide ==
    /\ BreaksWide
    /\ \A a \in Insn : a = Entry \/ (\E b \in Insn : CallRet[b] = a) => a + 1 \notin Insn

(* Inner[c] is what runs between the call at c and its return.  A breakpoint *)
(* there has a line, and it is not the line of the call.                     *)
CallsTold(Inner) ==
    \A c \in Insn : CallRet[c] # 0 =>
        /\ Inner[c] \subseteq Insn /\ CallRet[c] \notin Inner[c]
        /\ \A a \in Inner[c] \cup {c} : Succ[a] \subseteq Inner[c] \cup {CallRet[c]}
        /\ \A a \in Inner[c] \cap BreakAt : Line[c] # 0 /\ Line[a] \notin {0, Line[c]}

ServiceSession(Before, Inner) ==
    /\ PlainSession(Before) /\ ExecFails = FALSE /\ BreakFails = FALSE
    /\ Wide /\ CallsTold(Inner)
-------------------------------------------------------------------------------
(* A process that has ended did so on its last instruction, below a wait.    *)
DeadPlace ==
    dead /\ state # "IDLE" =>
        /\ loc \in Waits \ {"exec"} /\ pend = {}
        /\ Spot \in Insn /\ code[Spot] = "orig" /\ Succ[Spot] = {}

(* What stops a task that continues is a trap.                               *)
TrapPlace ==
    /\ loc = "exec" => bps = <<>>
    /\ mode = "cont" /\ pend # {} => \E a \in Insn : Spot = a + 1 /\ code[a] = "trap"

(* Below a call of next the thread is on the call, inside it or behind it;   *)
(* the call is on the line next was given on, or on none.                    *)
CallPlace(Inner) ==
    /\ loc \in LoopWaits => origin \in Insn
    /\ loc \in {"overcall", "call"} =>
         \E c \in Insn :
            /\ CallRet[c] # 0 /\ temp.enabled /\ temp.addr = CallRet[c]
            /\ Line[c] \in {0, Line[origin]}
            /\ \/ Standing \in Inner[c] \cup {CallRet[c]}
               \/ Standing = c /\ code[c] = "orig" /\ pend = {}

ServiceInv(Before, Inner) ==
    SoleInv(Before) /\ DeadPlace /\ TrapPlace /\ CallPlace(Inner)
-------------------------------------------------------------------------------
(* What line_at finds for the address of an instruction.                     *)
LEMMA LineOf ==
    ASSUME NEW p \in Insn
    PROVE  LineAt(p) = Line[p]
<1> DEFINE below == {a \in Insn : a <= p}
<1>1. Insn \subseteq Nat
  BY InsnAssumption
<1>2. p \in below /\ \A b \in below : b <= p
  BY <1>1
<1>3. \A a \in below : (\A b \in below : b <= a) => a = p
  BY <1>1, <1>2
<1>4. (CHOOSE a \in below : \A b \in below : b <= a) = p
  BY <1>2, <1>3
<1>5. QED
  BY <1>1, <1>2, <1>4, SessionAssumption DEF LineAt

LEMMA WideNoTrap ==
    ASSUME BreaksWide, NEW table, Given(table), NEW p \in Insn
    PROVE  ~IsTrap(p, table)
BY SessionAssumption DEF IsTrap, Matches, Given, BreaksWide

LEMMA LiftedAddresses ==
    ASSUME NEW table \in Table, NEW i \in DOMAIN table
    PROVE  /\ SameAddresses(Lifted(table, i), table)
           /\ DisabledAt(table[i].addr, Lifted(table, i))
BY TableEntries DEF Lifted, SameAddresses, DisabledAt, Bp

LEMMA NoneDisabled ==
    ASSUME NEW table, NEW p, AllSet(table)
    PROVE  ~DisabledAt(p, table)
BY DEF AllSet, DisabledAt

(* A trap in the text is at an address whose next byte starts nothing.       *)
LEMMA TrapIsWide ==
    ASSUME NEW Before, NEW Inner, ServiceSession(Before, Inner), ServiceInv(Before, Inner),
           state # "IDLE", NEW a \in Insn, code[a] = "trap"
    PROVE  /\ a + 1 \notin Insn /\ ~DisabledAt(a, bps)
           /\ SetAt(a, bps) \/ (temp.enabled /\ temp.addr = a)
<1>1. Trapped(code, bps, temp) /\ Given(bps) /\ bps \in Table
  BY DEF ServiceInv, SoleInv, TrapInv, Inv, TypeOK, Table
<1>2. SetAt(a, bps) \/ (temp.enabled /\ temp.addr = a)
  BY <1>1 DEF Trapped, Owned
<1>3. ~DisabledAt(a, bps)
  BY <1>1, <1>2, SetOrLifted DEF Trapped, Bytes
<1>4. CASE SetAt(a, bps)
  BY <1>1, <1>2, <1>3, <1>4 DEF Given, SetAt, ServiceSession, Wide, BreaksWide
<1>5. CASE temp.enabled /\ temp.addr = a
  <2>1. loc \in {"entry", "overcall", "call"}
    BY <1>5 DEF ServiceInv, SoleInv, TrapInv
  <2>2. loc = "entry" => a = Entry
    BY <1>5 DEF ServiceInv, SoleInv, PlaceInv
  <2>3. loc # "entry" => \E c \in Insn : CallRet[c] = a
    BY <1>5, <2>1 DEF ServiceInv, CallPlace
  <2>4. QED
    BY <1>2, <1>3, <2>2, <2>3 DEF ServiceSession, Wide
<1>6. QED
  BY <1>2, <1>4, <1>5

(* Where the thread is found: on an instruction, or one byte past a trap.    *)
LEMMA Found ==
    ASSUME NEW Before, NEW Inner, ServiceSession(Before, Inner), ServiceInv(Before, Inner),
           state # "IDLE"
    PROVE  /\ Standing \in Insn /\ Spot \in Nat
           /\ Spot \in Insn => Standing = Spot
           /\ Spot \notin Insn => /\ pend # {} /\ Spot = Standing + 1 /\ code[Standing] = "trap"
           /\ pend # {} => LastTold = 0
           /\ pend # {} /\ mode = "cont" => Spot \notin Insn
<1>1. Insn \subseteq Nat /\ Primary \in Thread
  BY InsnAssumption, DebuggeeAssumption
<1>2. Spot \in Nat
  BY <1>1 DEF ServiceInv, SoleInv, Inv, TypeOK, DebuggeeTypeOK
<1>3. /\ pend = {} => Spot \in Insn
      /\ pend # {} => /\ Spot \in Insn \/ \E a \in Insn : Spot = a + 1 /\ code[a] = "trap"
                      /\ ~DisabledAt(Spot, bps)
  BY DEF ServiceInv, SoleInv, PlaceInv
<1>4. Spot \in Insn => Standing = Spot
  BY DEF Standing
<1>5. ASSUME NEW a \in Insn, Spot = a + 1, code[a] = "trap"
      PROVE  Spot \notin Insn /\ Standing = a /\ ~DisabledAt(a, bps)
  <2>1. Spot \notin Insn /\ ~DisabledAt(a, bps)
    BY <1>5, TrapIsWide
  <2>2. Spot - 1 = a
    BY <1>1, <1>5
  <2>3. QED
    BY <2>1, <2>2 DEF Standing
<1>6. CASE Spot \in Insn
  <2>1. ~(pend # {} /\ mode = "cont")
    BY <1>5, <1>6 DEF ServiceInv, TrapPlace
  <2>2. QED
    BY <1>2, <1>3, <1>4, <1>6, <2>1 DEF LastTold
<1>7. CASE Spot \notin Insn
  <2>1. PICK a \in Insn : Spot = a + 1 /\ code[a] = "trap"
    BY <1>3, <1>7
  <2>2. Standing = a /\ ~DisabledAt(a, bps)
    BY <1>5, <2>1
  <2>3. QED
    BY <1>2, <1>3, <1>7, <2>1, <2>2 DEF LastTold
<1>8. QED
  BY <1>6, <1>7

(* A stop has been taken, and breakpoints are set again.                     *)
LEMMA WaitedFound ==
    ASSUME NEW Before, NEW Inner, ServiceSession(Before, Inner), ServiceInv(Before, Inner),
           loc \in Waits \ {"exec"}, TakeStop
    PROVE  /\ state = "RUNNING" /\ dead = FALSE /\ dead' = FALSE /\ life' = life
           /\ ~WaitFails /\ Readable(Now) /\ life[Primary] = "alive"
           /\ pend # {} /\ pend' = {} /\ sig' = FALSE
           /\ Waited \in View /\ TrapView(Waited, temp) /\ Waited.pc = pc
           /\ Waited.cur = Primary /\ AllSet(Waited.bps) /\ SameAddresses(Waited.bps, bps)
           /\ Standing \in Insn /\ LastTold = 0
           /\ Spot \in Insn => Standing = Spot /\ mode # "cont"
           /\ Spot \notin Insn => /\ Spot = Standing + 1 /\ code[Standing] = "trap"
                                  /\ SetAt(Standing, bps) \/ (temp.enabled /\ temp.addr = Standing)
<1>1. PlainSession(Before) /\ SoleInv(Before)
  BY DEF ServiceSession, ServiceInv
<1>2. state = "RUNNING" /\ dead = FALSE /\ dead' = FALSE /\ life' = life
  BY <1>1 DEF SoleInv, Inv, Guarding, TypeOK, DebuggeeTypeOK, TakeStop
<1>3. /\ ~WaitFails /\ Readable(Now) /\ life[Primary] = "alive"
      /\ pend # {} /\ pend' = {} /\ sig' = FALSE
      /\ Waited \in View /\ TrapView(Waited, temp) /\ Waited.pc = pc
      /\ Waited.cur = Primary /\ AllSet(Waited.bps)
  BY <1>1, WaitedPlace
<1>4. SameAddresses(Waited.bps, bps)
  <2>1. code \in Text /\ bps \in Table
    BY <1>1 DEF SoleInv, Inv, TypeOK, DebuggeeTypeOK, Text, Table
  <2>2. Waited.bps = ReenabledBps(code, bps, pc[cur])
    BY DEF Waited
  <2>3. QED
    BY <2>1, <2>2, ReenabledEntries
<1>5. /\ Standing \in Insn /\ LastTold = 0
      /\ Spot \in Insn => Standing = Spot /\ mode # "cont"
      /\ Spot \notin Insn => Spot = Standing + 1 /\ code[Standing] = "trap"
  BY <1>2, <1>3, Found
<1>6. code[Standing] = "trap" =>
         SetAt(Standing, bps) \/ (temp.enabled /\ temp.addr = Standing)
  BY <1>2, <1>5, TrapIsWide
<1>7. QED
  BY <1>2, <1>3, <1>4, <1>5, <1>6

(* A breakpoint that is hit is lifted where the thread then stands.          *)
LEMMA HandledFound ==
    ASSUME NEW Before, PlainSession(Before), life[Primary] = "alive",
           NEW m \in View, NEW s \in Nat, m.pc[Primary] = s + 1, IsTrap(s + 1, m.bps)
    PROVE  /\ Reported(m).pc[Primary] = s
           /\ DisabledAt(s, Reported(m).bps)
           /\ SameAddresses(Reported(m).bps, m.bps)
<1>1. Reported(m) = Handled(m) /\ m.bps \in Table
  BY ReportedIs, LoneThread
<1>2. PICK i \in DOMAIN m.bps :
            /\ m.bps[i].enabled /\ m.pc[Primary] = m.bps[i].addr + 1
            /\ Handled(m).bps = Lifted(m.bps, i)
            /\ Handled(m).pc[Primary] = m.bps[i].addr
  BY HandledIs
<1>3. m.bps[i].addr \in Nat
  BY <1>1, TableEntries, InsnAssumption
<1>4. m.bps[i].addr = s
  BY <1>2, <1>3
<1>5. QED
  BY <1>1, <1>2, <1>4, LiftedAddresses

(* report_stop, where next has no trap of its own.                           *)
LEMMA ReportedFound ==
    ASSUME NEW Before, NEW Inner, ServiceSession(Before, Inner), ServiceInv(Before, Inner),
           loc \in Waits \ {"exec"}, TakeStop, ~temp.enabled
    PROVE  /\ OnInsn(Reported(Waited)) /\ Reported(Waited).pc[Primary] = Standing
           /\ SameAddresses(Reported(Waited).bps, bps)
           /\ IF Spot \in Insn
              THEN ~IsTrap(Spot, Waited.bps) /\ Reported(Waited) = Waited /\ mode # "cont"
              ELSE IsTrap(Spot, Waited.bps) /\ DisabledAt(Standing, Reported(Waited).bps)
<1>1. /\ life[Primary] = "alive"
      /\ Waited \in View /\ TrapView(Waited, temp) /\ Waited.pc = pc
      /\ SameAddresses(Waited.bps, bps)
      /\ Standing \in Insn
      /\ Spot \in Insn => Standing = Spot /\ mode # "cont"
      /\ Spot \notin Insn => Spot = Standing + 1
  BY WaitedFound
<1>2. PlainSession(Before) /\ SoleInv(Before) /\ Wide
  BY DEF ServiceSession, ServiceInv
<1>3. Stopping(Waited) /\ TrapView(Waited, NoTemp)
  BY <1>2, WaitedStopping
<1>4. OnInsn(Reported(Waited))
  BY <1>1, <1>2, <1>3, ReportedOnInsn
<1>5. CASE Spot \in Insn
  <2>1. ~IsTrap(Spot, Waited.bps)
    BY <1>1, <1>2, <1>5, WideNoTrap DEF TrapView, Wide
  <2>2. Reported(Waited) = Waited
    BY <1>1, <1>2, <2>1, ReportedIs
  <2>3. QED
    BY <1>1, <1>4, <1>5, <2>1, <2>2
<1>6. CASE Spot \notin Insn
  <2>1. IsTrap(Spot, Waited.bps)
    BY <1>1, <1>3, <1>6 DEF Stopping
  <2>2. Standing \in Nat /\ Spot = Standing + 1
    BY <1>1, <1>6, InsnAssumption
  <2>3. /\ Reported(Waited).pc[Primary] = Standing
        /\ DisabledAt(Standing, Reported(Waited).bps)
        /\ SameAddresses(Reported(Waited).bps, Waited.bps)
    BY <1>1, <1>2, <2>1, <2>2, HandledFound
  <2>4. SameAddresses(Reported(Waited).bps, bps)
    BY <1>1, <2>3 DEF SameAddresses
  <2>5. QED
    BY <1>4, <1>6, <2>1, <2>3, <2>4
<1>7. QED
  BY <1>5, <1>6

(* finish_temp_breakpoint: behind the call, or at a breakpoint inside it,    *)
(* which ends next.                                                          *)
LEMMA ReturnedFound ==
    ASSUME NEW Before, NEW Inner, ServiceSession(Before, Inner), ServiceInv(Before, Inner),
           loc = "call", TakeStop
    PROVE  /\ Returned(Waited).pc[Primary] = Standing
           /\ SameAddresses(Returned(Waited).bps, bps)
           /\ \/ AllSet(Returned(Waited).bps) /\ Standing = temp.addr
              \/ DisabledAt(Standing, Returned(Waited).bps) /\ NewLine(Standing)
<1>1. /\ state = "RUNNING" /\ life[Primary] = "alive" /\ pend # {}
      /\ Waited \in View /\ TrapView(Waited, temp) /\ Waited.pc = pc /\ Waited.cur = Primary
      /\ AllSet(Waited.bps) /\ SameAddresses(Waited.bps, bps)
      /\ Standing \in Insn
      /\ Spot \in Insn => mode # "cont"
      /\ Spot \notin Insn => /\ Spot = Standing + 1 /\ code[Standing] = "trap"
                             /\ SetAt(Standing, bps) \/ (temp.enabled /\ temp.addr = Standing)
  BY WaitedFound DEF Waits, LoopWaits
<1>2. PlainSession(Before) /\ SoleInv(Before) /\ CallsTold(Inner) /\ TypeOK
  BY DEF ServiceSession, ServiceInv, SoleInv, Inv
<1>3. mode = "cont"
  BY <1>2 DEF SoleInv, PlaceInv
<1>4. /\ Spot = Standing + 1 /\ Standing \in Nat /\ code[Standing] = "trap"
      /\ SetAt(Standing, bps) \/ (temp.enabled /\ temp.addr = Standing)
  BY <1>1, <1>3, InsnAssumption
<1>5. Disarmed(Waited).pc = pc /\ Disarmed(Waited).bps = Waited.bps /\ Disarmed(Waited) \in View
  BY <1>1, <1>2, DisarmedType DEF Disarmed, View
<1>6. PICK c \in Insn :
            /\ CallRet[c] # 0 /\ temp.enabled /\ temp.addr = CallRet[c]
            /\ Line[c] \in {0, Line[origin]}
            /\ \/ Standing \in Inner[c] \cup {CallRet[c]}
               \/ Standing = c /\ code[c] = "orig" /\ pend = {}
  BY DEF ServiceInv, CallPlace
<1>7. temp.addr \in Nat /\ origin \in Insn
  BY <1>2, InsnAssumption DEF TypeOK, ServiceInv, CallPlace, LoopWaits
<1>8. CASE Standing = temp.addr
  <2>1. Matches(Waited.pc[Waited.cur], temp)
    BY <1>1, <1>4, <1>6, <1>8 DEF Matches
  <2>2. Returned(Waited) = [Disarmed(Waited) EXCEPT !.pc = [pc EXCEPT ![Primary] = temp.addr]]
    BY <1>1, <2>1 DEF Returned
  <2>3. /\ Returned(Waited).pc = [pc EXCEPT ![Primary] = temp.addr]
        /\ Returned(Waited).bps = Waited.bps
    BY <1>5, <2>2 DEF View
  <2>4. pc \in [Thread -> Nat] /\ Primary \in Thread
    BY <1>1, <1>2, LoneThread
  <2>5. QED
    BY <1>1, <1>8, <2>3, <2>4
<1>9. CASE Standing # temp.addr
  <2>1. ~Matches(Waited.pc[Waited.cur], temp)
    BY <1>1, <1>4, <1>7, <1>9 DEF Matches
  <2>2. Returned(Waited) = Reported(Disarmed(Waited))
    BY <2>1 DEF Returned
  <2>3. IsTrap(Spot, Waited.bps)
    BY <1>1, <1>2, <1>3, <2>1, WaitedPlace DEF Waits, LoopWaits
  <2>4. /\ Reported(Disarmed(Waited)).pc[Primary] = Standing
        /\ DisabledAt(Standing, Reported(Disarmed(Waited)).bps)
        /\ SameAddresses(Reported(Disarmed(Waited)).bps, Waited.bps)
    BY <1>1, <1>2, <1>4, <1>5, <2>3, HandledFound
  <2>5. Standing \in Inner[c] /\ Standing \in BreakAt
    BY <1>1, <1>2, <1>4, <1>6, <1>9 DEF SetAt, SoleInv, TrapInv, Given
  <2>6. Line[Standing] \notin {0, Line[c]} /\ Line[c] # 0
    BY <1>2, <1>6, <2>5 DEF CallsTold
  <2>7. NewLine(Standing)
    BY <1>1, <1>6, <1>7, <2>6, LineOf DEF NewLine
  <2>8. QED
    BY <1>1, <2>2, <2>4, <2>7 DEF SameAddresses
<1>10. QED
  BY <1>8, <1>9
-------------------------------------------------------------------------------
(* The loop of step and next either stops where the thread stands, or goes   *)
(* on from there with every breakpoint set and no line reached.              *)
HaltsAt(q) ==
    /\ Become(q) /\ OnInsn(q) /\ q.pc[Primary] = Standing /\ SameAddresses(q.bps, bps)
    /\ AllSet(q.bps) \/ DisabledAt(Standing, q.bps)
    /\ state' = "STOPPED" /\ loc' \in {"prompt", "aborted"}
    /\ loc' = "prompt" => Watching \/ NewLine(Standing) \/ DisabledAt(Standing, q.bps)

GoesRound(kind, m) ==
    /\ LoopHead(kind, m)
    /\ m \in View /\ m.cur = Primary /\ m.pc[Primary] = Standing
    /\ AllSet(m.bps) /\ SameAddresses(m.bps, bps)
    /\ ~NewLine(Standing)

LEMMA LoopTailFound ==
    ASSUME NEW m \in View, m.cur = Primary, SameAddresses(m.bps, bps), Standing \in Insn,
           life[Primary] = "alive",
           NEW kind \in {"step", "next"}, LoopTail(m, kind),
           IF IsTrap(m.pc[Primary], m.bps)
           THEN /\ OnInsn(Reported(m)) /\ Reported(m).pc[Primary] = Standing
                /\ SameAddresses(Reported(m).bps, bps)
                /\ DisabledAt(Standing, Reported(m).bps)
           ELSE /\ m.pc[Primary] = Standing /\ OnInsn(m)
                /\ AllSet(m.bps) \/ (DisabledAt(Standing, m.bps) /\ NewLine(Standing))
    PROVE  /\ origin' = origin
           /\ (\E q : HaltsAt(q)) \/ GoesRound(kind, m)
<1>1. Readable(m)
  BY DEF Readable
<1>2. origin' = origin
  BY DEF LoopTail
<1>3. CASE LoopEnds(m)
  <2>1. CASE IsTrap(m.pc[Primary], m.bps)
    <3>1. Prompt(Reported(m))
      BY <1>3, <2>1 DEF LoopEnds, Unbroken
    <3>2. HaltsAt(Reported(m))
      BY <2>1, <3>1 DEF HaltsAt, Prompt
    <3>3. QED
      BY <1>2, <3>2
  <2>2. CASE ~IsTrap(m.pc[Primary], m.bps)
    <3>1. Prompt(m) /\ (Watching \/ NewLine(Standing))
      BY <1>1, <1>3, <2>2 DEF LoopEnds, Unbroken
    <3>2. HaltsAt(m)
      BY <2>2, <3>1 DEF HaltsAt, Prompt
    <3>3. QED
      BY <1>2, <3>2
  <2>3. QED
    BY <2>1, <2>2
<1>4. CASE LoopFails(m) /\ Abort /\ Become(m)
  <2>1. ~IsTrap(m.pc[Primary], m.bps)
    BY <1>1, <1>4 DEF LoopFails, Unbroken
  <2>2. HaltsAt(m)
    BY <1>4, <2>1 DEF HaltsAt, Abort
  <2>3. QED
    BY <1>2, <2>2
<1>5. CASE Unbroken(m) /\ ~NewLine(m.pc[m.cur]) /\ LoopHead(kind, m)
  <2>1. ~IsTrap(m.pc[Primary], m.bps)
    BY <1>5 DEF Unbroken
  <2>2. GoesRound(kind, m)
    BY <1>5, <2>1 DEF GoesRound
  <2>3. QED
    BY <1>2, <2>2
<1>6. QED
  BY <1>3, <1>4, <1>5 DEF LoopTail

LEMMA LoopStopFound ==
    ASSUME NEW Before, NEW Inner, ServiceSession(Before, Inner), ServiceInv(Before, Inner),
           StepStop \/ NextStop
    PROVE  /\ TakeStop /\ loc \in {"step", "next"} /\ origin' = origin
           /\ (\E q : HaltsAt(q)) \/ GoesRound(loc, Waited)
<1>1. TakeStop /\ loc \in {"step", "next"} /\ loc \in Waits \ {"exec"}
  BY DEF StepStop, NextStop, Waits, LoopWaits
<1>2. ~temp.enabled
  BY <1>1 DEF ServiceInv, SoleInv, TrapInv
<1>3. /\ life[Primary] = "alive" /\ ~WaitFails
      /\ Waited \in View /\ Waited.cur = Primary /\ Waited.pc = pc
      /\ AllSet(Waited.bps) /\ SameAddresses(Waited.bps, bps) /\ Standing \in Insn
      /\ Spot \in Insn => Standing = Spot
  BY <1>1, WaitedFound
<1>4. /\ OnInsn(Reported(Waited)) /\ Reported(Waited).pc[Primary] = Standing
      /\ SameAddresses(Reported(Waited).bps, bps)
      /\ IF Spot \in Insn
         THEN ~IsTrap(Spot, Waited.bps) /\ Reported(Waited) = Waited
         ELSE IsTrap(Spot, Waited.bps) /\ DisabledAt(Standing, Reported(Waited).bps)
  BY <1>1, <1>2, ReportedFound
<1>5. LoopTail(Waited, loc)
  BY <1>3 DEF StepStop, NextStop
<1>6. QED
  BY <1>1, <1>3, <1>4, <1>5, LoopTailFound

LEMMA CallStopFound ==
    ASSUME NEW Before, NEW Inner, ServiceSession(Before, Inner), ServiceInv(Before, Inner),
           CallStop
    PROVE  /\ TakeStop /\ loc = "call" /\ origin' = origin
           /\ \/ \E q : HaltsAt(q)
              \/ GoesRound("next", Returned(Waited))
           /\ AllSet(Returned(Waited).bps) => Standing = temp.addr
           /\ ~AllSet(Returned(Waited).bps) => \E q : HaltsAt(q) /\ DisabledAt(Standing, q.bps)
<1>1. TakeStop /\ loc = "call" /\ loc \in Waits \ {"exec"}
  BY DEF CallStop, Waits, LoopWaits
<1> DEFINE m == Returned(Waited)
<1>2. /\ life[Primary] = "alive" /\ ~WaitFails /\ Readable(Now) /\ Standing \in Insn
  BY <1>1, WaitedFound
<1>3. PlainSession(Before) /\ SoleInv(Before) /\ Wide
  BY DEF ServiceSession, ServiceInv
<1>4. OnInsn(m) /\ m \in View /\ TrapView(m, NoTemp)
  BY <1>1, <1>3, ReturnedOnInsn
<1>5. /\ m.pc[Primary] = Standing /\ SameAddresses(m.bps, bps)
      /\ \/ AllSet(m.bps) /\ Standing = temp.addr
         \/ DisabledAt(Standing, m.bps) /\ NewLine(Standing)
  BY <1>1, ReturnedFound
<1>6. m.cur = Primary
  BY <1>3, <1>4, LoneThread
<1>7. ~IsTrap(m.pc[Primary], m.bps)
  BY <1>2, <1>3, <1>4, <1>5, WideNoTrap DEF TrapView, Wide
<1>8. LoopTail(m, "next")
  BY <1>2 DEF CallStop
<1> HIDE DEF m
<1>9. origin' = origin /\ ((\E q : HaltsAt(q)) \/ GoesRound("next", m))
  BY <1>2, <1>4, <1>5, <1>6, <1>7, <1>8, LoopTailFound
<1>10. ASSUME ~AllSet(m.bps) PROVE \E q : HaltsAt(q) /\ DisabledAt(Standing, q.bps)
  <2>1. DisabledAt(Standing, m.bps) /\ NewLine(Standing)
    BY <1>5, <1>10
  <2>2. Prompt(m)
    BY <1>2, <1>5, <1>6, <1>7, <1>8, <2>1 DEF LoopTail, LoopEnds, LoopFails, Unbroken, Readable
  <2>3. HaltsAt(m)
    BY <1>4, <1>5, <2>1, <2>2 DEF HaltsAt, Prompt
  <2>4. QED
    BY <2>1, <2>3
<1>11. AllSet(m.bps) => Standing = temp.addr
  BY <1>5, NoneDisabled
<1>12. QED
  BY <1>1, <1>9, <1>10, <1>11 DEF m
-------------------------------------------------------------------------------
(* No handler and no command leaves a stop unreported or an end unnoticed.   *)
LEMMA HandlerQuiet ==
    ASSUME NEW Before, NEW Inner, ServiceSession(Before, Inner), ServiceInv(Before, Inner),
           Handler
    PROVE  /\ pend' = {} /\ (dead' = FALSE \/ state' = "IDLE") /\ loc' # "exec"
<1>1. PlainSession(Before) /\ SoleInv(Before) /\ TypeOK
  BY DEF ServiceSession, ServiceInv, SoleInv, Inv
<1>2. CASE TakeStop /\ loc \in Waits \ {"exec"}
  <2>1. pend' = {} /\ dead' = FALSE
    BY <1>2, WaitedFound
  <2>2. loc' # "exec"
    <3>1. \A m, kind : LoopTail(m, kind) => loc' # "exec"
      BY DEF LoopTail, LoopEnds, Prompt, Abort, LoopHead, StepHead, NextHead, ResumeFrom,
             ResumeStep, Resume
    <3>2. QED
      BY <1>2, <3>1
      DEF Handler, ExecFailed, ExecStop, Replant, EntryStop, EntryExit, OverContStop, OverContExit,
          ReportedStop, ProcessExit, SiStop, StepStop, NextStop, OverCallStop, CallStop,
          Prompt, Abort, Resume, TakeExit, LoopAborts, RunReturns
  <2>3. QED
    BY <2>1, <2>2
<1>3. CASE ExecStop
  <2>1. loc = "exec" /\ pend' = pend /\ dead' = dead /\ loc' # "exec"
    BY <1>3 DEF ExecStop, Replant, RunReturns, Resume
  <2>2. state # "IDLE"
    BY <1>1, <2>1, WaitFacts DEF SoleInv, Waits
  <2>3. dead = FALSE
    BY <1>1, <2>1, <2>2 DEF ServiceInv, DeadPlace, TypeOK, DebuggeeTypeOK
  <2>4. QED
    BY <1>1, <2>1, <2>3 DEF SoleInv, PlaceInv
<1>4. CASE ExecFailed \/ EntryExit \/ ProcessExit
  BY <1>4 DEF ExecFailed, EntryExit, ProcessExit, NoProcess, Reaped, Fresh, RunReturns
<1>5. CASE OverContExit
  BY <1>1, <1>5 DEF OverContExit, TakeExit, SoleInv, PlaceInv
<1>6. QED
  BY <1>2, <1>3, <1>4, <1>5
  DEF Handler, EntryStop, OverContStop, ReportedStop, SiStop, StepStop, NextStop,
      OverCallStop, CallStop, Waits, LoopWaits

LEMMA CommandQuiet ==
    ASSUME NEW Before, NEW Inner, ServiceInv(Before, Inner), Command
    PROVE  /\ loc = "prompt" /\ pend' = {} /\ (dead' = FALSE \/ state' = "IDLE")
           /\ loc' = "exec" => Run
<1>1. loc = "prompt"
  BY DEF Command, Run, Continue, Si, StepNoLine, Step, NextLine, LoopStarts, MayStep, Break,
         Del, DelAll, SelectThread, LockTo, Unlock, FrameUp, SetPc, MovePc, Regs, Kill, Quit,
         Stopped, Eof
<1>2. pend = {} /\ (dead = FALSE \/ state = "IDLE")
  BY <1>1 DEF ServiceInv, SoleInv, PlaceInv, DeadPlace, Waits, LoopWaits, Inv, TypeOK,
              DebuggeeTypeOK
<1>3. CASE Run \/ Kill \/ Quit
  BY <1>3 DEF Run, Launch, Spawned, Fresh, Kill, Quit, Stopped, NoProcess, Reaped
<1>4. CASE Continue \/ Si \/ StepNoLine
  <2>1. state # "IDLE" /\ UNCHANGED <<pend, dead>> /\ loc' # "exec"
    BY <1>4 DEF Continue, Si, StepNoLine, MayStep, ResumeFrom, ResumeStep, Resume, Abort
  <2>2. QED
    BY <1>1, <1>2, <2>1
<1>5. CASE Step \/ NextLine
  <2>1. state # "IDLE" /\ UNCHANGED <<pend, dead>> /\ loc' # "exec"
    BY <1>5 DEF Step, NextLine, LoopStarts, MayStep, LoopHead, StepHead, NextHead,
                ResumeFrom, ResumeStep,
                Resume
  <2>2. QED
    BY <1>1, <1>2, <2>1
<1>6. CASE StillStopped \/ Regs \/ Eof
  BY <1>1, <1>2, <1>6 DEF StillStopped, Regs, Eof, debuggee
<1>7. QED
  BY <1>1, <1>3, <1>4, <1>5, <1>6
  DEF Command, Break, Del, DelAll, SelectThread, LockTo, Unlock, FrameUp, SetPc, MovePc

(* The thread runs: it stands on an instruction, and what it executes is the *)
(* program's own byte or a trap.                                             *)
LEMMA Runs ==
    ASSUME NEW Before, NEW Inner, ServiceSession(Before, Inner), ServiceInv(Before, Inner),
           NEW t \in Thread, Runnable(t)
    PROVE  /\ t = Primary /\ pend = {} /\ ~dead /\ state = "RUNNING"
           /\ loc \in Waits \ {"exec"} /\ mode \in {"cont", "step"}
           /\ Spot \in Insn /\ Spot \in Nat /\ Standing = Spot /\ LiftedOnlyAt(Spot, bps)
           /\ pc \in [Thread -> Nat] /\ code \in Text
<1>1. PlainSession(Before) /\ SoleInv(Before)
  BY DEF ServiceSession, ServiceInv
<1>2. /\ t = Primary /\ pend = {} /\ ~dead /\ state # "IDLE"
      /\ mode \in {"cont", "step"} /\ loc # "exec"
      /\ Spot \in Insn /\ Spot \in Nat /\ LiftedOnlyAt(Spot, bps)
      /\ pc \in [Thread -> Nat] /\ code \in Text
  BY <1>1, RunsFacts
<1>3. loc \in Waits /\ state = "RUNNING"
  BY <1>1, <1>2 DEF SoleInv, Inv, Guarding
<1>4. QED
  BY <1>2, <1>3 DEF Standing

(* What a step of the program does to the place of the thread.               *)
LEMMA ProgramMoves ==
    ASSUME NEW Before, NEW Inner, ServiceSession(Before, Inner), ServiceInv(Before, Inner),
           NEW t \in Thread, Program(t)
    PROVE  /\ Runnable(Primary) /\ UNCHANGED <<code, mode, sig, debugger>>
           /\ \/ /\ code[Spot] = "orig" /\ pc' \in [Thread -> Nat]
                 /\ Spot' \in Succ[Spot] /\ Spot' \in Insn /\ Standing' = Spot'
                 /\ Spot' # Spot /\ dead' = dead
                 /\ mode = "cont" => pend' = {}
                 /\ mode = "step" => pend' # {}
              \/ /\ code[Spot] = "trap" /\ Spot' = Spot + 1 /\ Spot' \notin Insn
                 /\ Standing' = Standing /\ dead' = dead /\ pend' # {}
              \/ /\ code[Spot] = "orig" /\ Succ[Spot] = {}
                 /\ UNCHANGED <<pc, pend>> /\ Standing' = Standing
<1>1. Runnable(t)
  BY DEF Program, DebuggeeStep, Execute, Finish, HitTrap, Fault
<1>2. /\ t = Primary /\ pend = {} /\ ~dead /\ state = "RUNNING"
      /\ mode \in {"cont", "step"}
      /\ Spot \in Insn /\ Spot \in Nat /\ Standing = Spot
      /\ pc \in [Thread -> Nat] /\ code \in Text
  BY <1>1, Runs
<1>3. PlainSession(Before) /\ Wide /\ UNCHANGED debugger
  BY DEF ServiceSession, Program
<1>4. state' = state
  BY <1>3 DEF debugger
<1>5. CASE Execute(t)
  <2>1. Unborn = {}
    BY <1>1, <1>2, <1>3 DEF Unborn, PlainSession, Runnable
  <2>2. PICK q \in Succ[Spot] : pc' = [pc EXCEPT ![Primary] = q]
    BY <1>2, <1>5, <2>1 DEF Execute
  <2>3. Spot' = q /\ q \in Insn /\ q # Spot /\ q \in Nat
    BY <1>2, <1>3, <2>2, DebuggeeAssumption, InsnAssumption DEF PlainSession
  <2>4. Standing' = q
    BY <1>2, <1>4, <2>3 DEF Standing
  <2>5. pend' = IF mode = "step" THEN {Primary} ELSE {}
    BY <1>2, <1>5 DEF Execute, Stepped
  <2>6. code[Spot] = "orig" /\ UNCHANGED <<code, mode, sig, dead>>
    BY <1>2, <1>5 DEF Execute
  <2>7. pc' \in [Thread -> Nat]
    BY <1>2, <2>2, <2>3
  <2>8. QED
    BY <1>1, <1>2, <1>3, <2>2, <2>3, <2>4, <2>5, <2>6, <2>7
<1>6. CASE HitTrap(t)
  <2>1. code[Spot] = "trap" /\ Spot' = Spot + 1 /\ pend' # {} /\ UNCHANGED <<code, mode, sig, dead>>
    BY <1>2, <1>6 DEF HitTrap
  <2>2. Spot + 1 \notin Insn
    BY <1>2, <2>1, TrapIsWide
  <2>3. Standing' = Spot
    BY <1>2, <1>4, <2>1, <2>2 DEF Standing
  <2>4. QED
    BY <1>1, <1>2, <1>3, <2>1, <2>2, <2>3
<1>7. CASE Finish(t)
  <2>1. code[Spot] = "orig" /\ Succ[Spot] = {} /\ UNCHANGED <<code, pc, pend, mode, sig>>
    BY <1>2, <1>7 DEF Finish
  <2>2. Standing' = Standing
    BY <1>4, <2>1 DEF Standing
  <2>3. QED
    BY <1>1, <1>2, <1>3, <2>1, <2>2
<1>8. CASE Fault(t)
  BY <1>2, <1>8 DEF Fault
<1>9. QED
  BY <1>5, <1>6, <1>7, <1>8 DEF Program, DebuggeeStep
-------------------------------------------------------------------------------
(* ServiceInv is inductive: the end of the process.                          *)
LEMMA DeadPlaceStep ==
    ASSUME NEW Before, NEW Inner, ServiceSession(Before, Inner), ServiceInv(Before, Inner),
           [Next]_vars
    PROVE  DeadPlace'
<1>1. ASSUME NEW t \in Thread, Program(t) PROVE DeadPlace'
  <2>1. Runnable(Primary) /\ UNCHANGED <<code, debugger>>
        /\ \/ dead' = dead
           \/ code[Spot] = "orig" /\ Succ[Spot] = {} /\ UNCHANGED <<pc, pend>>
    BY <1>1, ProgramMoves
  <2>2. ~dead /\ pend = {} /\ loc \in Waits \ {"exec"} /\ Spot \in Insn
    BY <2>1, Runs, DebuggeeAssumption
  <2>3. QED
    BY <2>1, <2>2 DEF DeadPlace, debugger
<1>2. CASE Handler
  BY <1>2, HandlerQuiet DEF DeadPlace
<1>3. CASE Command
  BY <1>3, CommandQuiet DEF DeadPlace
<1>4. CASE Interrupt
  BY <1>4 DEF Interrupt, ServiceSession, PlainSession
<1>5. CASE UNCHANGED vars
  BY <1>5 DEF vars, debuggee, ServiceInv, DeadPlace
<1>6. QED
  BY <1>1, <1>2, <1>3, <1>4, <1>5 DEF Next, Ended

(* What stops it.                                                            *)
LEMMA TrapPlaceStep ==
    ASSUME NEW Before, NEW Inner, ServiceSession(Before, Inner), ServiceInv(Before, Inner),
           [Next]_vars
    PROVE  TrapPlace'
<1>1. ASSUME NEW t \in Thread, Program(t) PROVE TrapPlace'
  <2>1. Runnable(Primary) /\ UNCHANGED <<code, mode, debugger>>
        /\ \/ mode = "cont" => pend' = {}
           \/ code[Spot] = "trap" /\ Spot' = Spot + 1
           \/ UNCHANGED <<pc, pend>>
    BY <1>1, ProgramMoves
  <2>2. pend = {} /\ loc # "exec" /\ Spot \in Insn
    BY <2>1, Runs, DebuggeeAssumption
  <2>3. QED
    BY <2>1, <2>2 DEF TrapPlace, debugger
<1>2. CASE Handler
  BY <1>2, HandlerQuiet DEF TrapPlace
<1>3. CASE Command
  <2>1. pend' = {} /\ (loc' = "exec" => Run)
    BY <1>3, CommandQuiet
  <2>2. QED
    BY <2>1 DEF TrapPlace, Run, Launch
<1>4. CASE Interrupt
  BY <1>4 DEF Interrupt, ServiceSession, PlainSession
<1>5. CASE UNCHANGED vars
  BY <1>5 DEF vars, debuggee, Breakpoints, ServiceInv, TrapPlace
<1>6. QED
  BY <1>1, <1>2, <1>3, <1>4, <1>5 DEF Next, Ended

(* The head of an iteration: a call is run to a trap behind it.              *)
LEMMA LoopHeadMoves ==
    ASSUME NEW m \in View, m.cur = Primary, m.pc[Primary] \in Insn,
           NEW kind \in {"step", "next"}, LoopHead(kind, m)
    PROVE  /\ pc' = m.pc /\ bps' = m.bps /\ state' = "RUNNING" /\ loc' \in LoopWaits
           /\ Standing' = m.pc[Primary]
           /\ loc' \in {"overcall", "call"} =>
                AtCall(m) /\ temp' = BpAt(m.code, CallRet[m.pc[Primary]])
                          /\ code' = Planted(m.code, CallRet[m.pc[Primary]])
<1>1. CASE Become(m) /\ Resume("step", kind)
  BY <1>1 DEF Become, Resume, Standing, LoopWaits
<1>2. CASE kind = "next" /\ AtCall(m)
  <2> DEFINE r == [m EXCEPT !.code = Planted(m.code, CallRet[m.pc[m.cur]])]
  <2>1. /\ Become(r) /\ ResumeFrom(m, "overcall", "call")
        /\ temp' = BpAt(m.code, CallRet[m.pc[Primary]])
    BY <1>2 DEF LoopHead, NextHead, ResumeStep
  <2>2. r.pc = m.pc /\ r.bps = m.bps /\ r.code = Planted(m.code, CallRet[m.pc[Primary]])
    BY DEF View
  <2> HIDE DEF r
  <2>3. pc' = m.pc /\ bps' = m.bps /\ code' = Planted(m.code, CallRet[m.pc[Primary]])
    BY <2>1, <2>2 DEF Become
  <2>4. state' = "RUNNING" /\ loc' \in {"overcall", "call"}
    BY <2>1 DEF ResumeFrom, ResumeStep, Resume
  <2>5. QED
    BY <1>2, <2>1, <2>3, <2>4 DEF Standing, LoopWaits
<1>3. QED
  BY <1>1, <1>2 DEF LoopHead, StepHead, NextHead, ResumeStep

LEMMA LoopHeadCall ==
    ASSUME NEW Before, PlainSession(Before), NEW Inner,
           NEW m \in View, m.cur = Primary, m.pc[Primary] \in Insn,
           NEW kind \in {"step", "next"}, LoopHead(kind, m), pend' = {},
           origin' \in Insn, Line[m.pc[Primary]] \in {0, Line[origin']}
    PROVE  CallPlace(Inner)'
<1> DEFINE c == m.pc[Primary]
<1>1. SUFFICES ASSUME loc' \in {"overcall", "call"}
               PROVE  /\ CallRet[c] # 0 /\ temp'.enabled /\ temp'.addr = CallRet[c]
                      /\ Line[c] \in {0, Line[origin']}
                      /\ Standing' = c /\ code'[c] = "orig" /\ pend' = {}
  BY DEF CallPlace
<1>2. /\ AtCall(m) /\ temp' = BpAt(m.code, CallRet[c])
      /\ code' = Planted(m.code, CallRet[c]) /\ Standing' = c
  BY <1>1, LoopHeadMoves
<1>3. CallRet[c] # 0 /\ m.code[c] = "orig" /\ CallRet[c] # c
  BY <1>2 DEF AtCall, PlainSession
<1>4. code'[c] = "orig"
  BY <1>2, <1>3 DEF Planted, Put
<1>5. temp'.enabled /\ temp'.addr = CallRet[c]
  BY <1>2 DEF BpAt
<1>6. QED
  BY <1>2, <1>3, <1>4, <1>5

LEMMA GoesRoundCall ==
    ASSUME NEW Before, NEW Inner, ServiceSession(Before, Inner), ServiceInv(Before, Inner),
           loc \in LoopWaits, Standing \in Insn, pend' = {}, origin' = origin,
           NEW kind \in {"step", "next"}, NEW m, GoesRound(kind, m)
    PROVE  CallPlace(Inner)'
<1>1. origin \in Insn /\ PlainSession(Before)
  BY DEF ServiceInv, CallPlace, ServiceSession
<1>2. Line[Standing] \in {0, Line[origin]}
  BY <1>1, LineOf DEF GoesRound, NewLine
<1>3. QED
  BY <1>1, <1>2, LoopHeadCall DEF GoesRound

(* Inside a call: each instruction stays inside or returns, and behind the   *)
(* call next's own trap is hit.                                              *)
LEMMA ProgramCall ==
    ASSUME NEW Before, NEW Inner, ServiceSession(Before, Inner), ServiceInv(Before, Inner),
           NEW t \in Thread, Program(t)
    PROVE  CallPlace(Inner)'
<1>1. /\ Runnable(Primary) /\ UNCHANGED <<code, debugger>>
      /\ \/ code[Spot] = "orig" /\ Spot' \in Succ[Spot] /\ Standing' = Spot'
         \/ code[Spot] = "trap" /\ Standing' = Standing
         \/ Standing' = Standing /\ pend' = pend
  BY ProgramMoves
<1>2. pend = {} /\ Standing = Spot /\ Spot \in Insn /\ state = "RUNNING"
  BY <1>1, Runs, DebuggeeAssumption
<1>3. UNCHANGED <<state, loc, temp, origin>>
  BY <1>1 DEF debugger, Breakpoints, Stepping
<1>4. CASE loc \in {"overcall", "call"}
  <2>1. PICK c \in Insn :
            /\ CallRet[c] # 0 /\ temp.enabled /\ temp.addr = CallRet[c]
            /\ Line[c] \in {0, Line[origin]}
            /\ \/ Standing \in Inner[c] \cup {CallRet[c]}
               \/ Standing = c /\ code[c] = "orig" /\ pend = {}
    BY <1>4 DEF ServiceInv, CallPlace
  <2>2. code[CallRet[c]] = "trap"
    <3>1. CallRet[c] \in Insn /\ Trapped(code, bps, temp)
      BY <1>2, <2>1, SessionAssumption DEF ServiceInv, SoleInv, TrapInv
    <3>2. QED
      BY <2>1, <3>1 DEF Trapped, Owned
  <2>3. \A a \in Inner[c] \cup {c} : Succ[a] \subseteq Inner[c] \cup {CallRet[c]}
    BY <2>1 DEF ServiceSession, CallsTold
  <2>4. \/ Standing' \in Inner[c] \cup {CallRet[c]}
        \/ Standing' = c /\ code'[c] = "orig" /\ pend' = {}
    <3>1. CASE code[Spot] = "orig" /\ Spot' \in Succ[Spot] /\ Standing' = Spot'
      BY <1>2, <2>1, <2>2, <2>3, <3>1
    <3>2. CASE code[Spot] = "trap" /\ Standing' = Standing
      BY <1>2, <2>1, <3>2
    <3>3. CASE Standing' = Standing /\ pend' = pend
      BY <1>1, <2>1, <3>3
    <3>4. QED
      BY <1>1, <3>1, <3>2, <3>3
  <2>5. QED
    BY <1>3, <1>4, <2>1, <2>4 DEF ServiceInv, CallPlace
<1>5. CASE loc \notin {"overcall", "call"}
  BY <1>3, <1>5 DEF ServiceInv, CallPlace
<1>6. QED
  BY <1>4, <1>5

LEMMA HandlerCall ==
    ASSUME NEW Before, NEW Inner, ServiceSession(Before, Inner), ServiceInv(Before, Inner),
           Handler
    PROVE  CallPlace(Inner)'
<1>1. pend' = {}
  BY HandlerQuiet
<1>2. ASSUME NEW kind \in {"step", "next"}, NEW m, loc \in LoopWaits, TakeStop, origin' = origin,
             (\E q : HaltsAt(q)) \/ GoesRound(kind, m)
      PROVE  CallPlace(Inner)'
  <2>1. Standing \in Insn
    BY <1>2, WaitedFound DEF Waits, LoopWaits
  <2>2. CASE \E q : HaltsAt(q)
    BY <2>2 DEF HaltsAt, CallPlace, LoopWaits
  <2>3. QED
    BY <1>1, <1>2, <2>1, <2>2, GoesRoundCall
<1>3. CASE StepStop \/ NextStop
  BY <1>2, <1>3, LoopStopFound DEF LoopWaits
<1>4. CASE CallStop
  BY <1>2, <1>4, CallStopFound DEF LoopWaits
<1>5. CASE OverCallStop
  <2>1. loc = "overcall" /\ TakeStop
    BY <1>5 DEF OverCallStop
  <2>2. ~WaitFails /\ Waited.pc = pc /\ pend # {} /\ state = "RUNNING"
    BY <2>1, WaitedFound DEF Waits, LoopWaits
  <2>3. pc' = pc /\ state' = "RUNNING" /\ temp' = temp /\ origin' = origin
    BY <1>5, <2>2 DEF OverCallStop, Become, Resume, Stepping
  <2>4. Standing' = Standing
    BY <2>2, <2>3 DEF Standing
  <2>5. QED
    BY <2>1, <2>2, <2>3, <2>4 DEF ServiceInv, CallPlace, LoopWaits
<1>6. CASE ExecFailed \/ ExecStop \/ EntryStop \/ EntryExit \/ OverContStop \/ OverContExit
           \/ ReportedStop \/ ProcessExit \/ SiStop
  <2>1. loc' \notin LoopWaits
    BY <1>6 DEF ExecFailed, ExecStop, Replant, EntryStop, EntryExit, OverContStop, OverContExit,
                ReportedStop, ProcessExit, SiStop, RunReturns, Resume, Prompt, Abort, LoopWaits
  <2>2. QED
    BY <2>1 DEF CallPlace, LoopWaits
<1>7. QED
  BY <1>3, <1>4, <1>5, <1>6 DEF Handler

LEMMA CommandCall ==
    ASSUME NEW Before, NEW Inner, ServiceSession(Before, Inner), ServiceInv(Before, Inner),
           Command
    PROVE  CallPlace(Inner)'
<1>1. CASE Step \/ NextLine
  <2>1. PICK kind \in {"step", "next"} : LoopStarts(kind)
    BY <1>1 DEF Step, NextLine
  <2>2. LoopHead(kind, Now) /\ origin' = pc[cur] /\ pend' = pend
        /\ loc = "prompt" /\ state = "STOPPED"
    BY <2>1 DEF LoopStarts, MayStep
  <2>3. PlainSession(Before) /\ SoleInv(Before)
    BY DEF ServiceSession, ServiceInv
  <2>4. Now \in View /\ Now.cur = Primary /\ Now.pc = pc /\ Spot \in Insn /\ pend = {}
    BY <2>2, <2>3, PromptFactsPlace DEF OnInsn
  <2>5. origin' = Spot
    BY <2>2, <2>4 DEF Now
  <2>6. QED
    BY <2>2, <2>3, <2>4, <2>5, LoopHeadCall
<1>2. CASE ~Step /\ ~NextLine
  <2>1. loc = "prompt"
    BY CommandQuiet
  <2>2. loc' \notin LoopWaits
    BY <1>2, <2>1
    DEF Command, Run, Launch, Continue, ResumeFrom, ResumeStep, Resume, Abort, Si,
        StepNoLine, Break, Del,
        DelAll, SelectThread, LockTo, Unlock, FrameUp, SetPc, MovePc, StillStopped, Regs, Kill,
        Quit, Stopped, Eof, LoopWaits
  <2>3. QED
    BY <2>2 DEF CallPlace, LoopWaits
<1>3. QED
  BY <1>1, <1>2

LEMMA CallPlaceStep ==
    ASSUME NEW Before, NEW Inner, ServiceSession(Before, Inner), ServiceInv(Before, Inner),
           [Next]_vars
    PROVE  CallPlace(Inner)'
<1>1. CASE Interrupt
  BY <1>1 DEF Interrupt, ServiceSession, PlainSession
<1>2. CASE UNCHANGED vars
  BY <1>2 DEF vars, debuggee, Breakpoints, Stepping, ServiceInv, CallPlace, Standing
<1>3. QED
  BY <1>1, <1>2, ProgramCall, HandlerCall, CommandCall DEF Next, Ended

LEMMA ServiceStep ==
    ASSUME NEW Before, NEW Inner, ServiceSession(Before, Inner)
    PROVE  ServiceInv(Before, Inner) /\ [Next]_vars => ServiceInv(Before, Inner)'
BY SoleStep, DeadPlaceStep, TrapPlaceStep, CallPlaceStep DEF ServiceInv, ServiceSession

LEMMA ServiceInit ==
    ASSUME NEW Before, NEW Inner
    PROVE  Init => ServiceInv(Before, Inner)
<1> SUFFICES ASSUME Init PROVE ServiceInv(Before, Inner)
  OBVIOUS
<1>1. SoleInv(Before)
  BY SoleInit
<1>2. DeadPlace /\ TrapPlace /\ CallPlace(Inner)
  BY DEF Init, DeadPlace, TrapPlace, CallPlace, LoopWaits
<1>3. QED
  BY <1>1, <1>2 DEF ServiceInv
-------------------------------------------------------------------------------
(* si: before its stop the thread is where si was given, after it where the  *)
(* instruction led.                                                          *)
SiPlace ==
    loc = "si" /\ code[origin] = "orig" =>
        IF pend = {} THEN Spot = origin ELSE Spot \in Succ[origin]

LEMMA SiPlaceStep ==
    ASSUME NEW Before, PlainSession(Before), SoleInv(Before), SiPlace, [Next]_vars
    PROVE  SiPlace'
<1>1. ASSUME NEW t \in Thread, Program(t), loc = "si", code[origin] = "orig"
      PROVE  IF pend' = {} THEN Spot' = origin ELSE Spot' \in Succ[origin]
  <2>1. Runnable(t)
    BY <1>1 DEF Program, DebuggeeStep, Execute, Finish, HitTrap, Fault
  <2>2. t = Primary /\ pend = {} /\ Spot \in Insn /\ pc \in [Thread -> Nat]
        /\ life[Primary] = "alive"
    BY <2>1, RunsFacts
  <2>3. Spot = origin /\ mode = "step"
    BY <1>1, <2>2 DEF SiPlace, SoleInv, PlaceInv
  <2>4. CASE Execute(t)
    <3>1. Unborn = {}
      BY <2>2 DEF Unborn, PlainSession
    <3>2. PICK q \in Succ[Spot] : pc' = [pc EXCEPT ![Primary] = q]
      BY <2>2, <2>4, <3>1 DEF Execute
    <3>3. pend' = {Primary}
      BY <2>2, <2>3, <2>4 DEF Execute, Stepped
    <3>4. QED
      BY <2>2, <2>3, <3>2, <3>3, DebuggeeAssumption
  <2>5. CASE Finish(t)
    BY <2>2, <2>3, <2>5 DEF Finish
  <2>6. CASE HitTrap(t) \/ Fault(t)
    BY <1>1, <2>2, <2>3, <2>6 DEF HitTrap, Fault
  <2>7. QED
    BY <1>1, <2>4, <2>5, <2>6 DEF Program, DebuggeeStep
<1>2. CASE \E t \in Thread : Program(t)
  <2>1. UNCHANGED <<loc, code, origin>>
    BY <1>2 DEF Program, DebuggeeStep, Execute, Finish, HitTrap, Fault, debugger, Stepping
  <2>2. QED
    BY <1>1, <1>2, <2>1 DEF SiPlace
<1>3. CASE Handler
  <2>1. loc' # "si"
    <3>1. \A m, kind : LoopTail(m, kind) => loc' # "si"
      BY DEF LoopTail, LoopEnds, Prompt, Abort, LoopHead, StepHead, NextHead, ResumeFrom,
             ResumeStep, Resume
    <3>2. QED
      BY <1>3, <3>1
      DEF Handler, ExecFailed, ExecStop, Replant, EntryStop, EntryExit, OverContStop, OverContExit,
          ReportedStop, ProcessExit, SiStop, StepStop, NextStop, OverCallStop, CallStop,
          Prompt, Abort, Resume, TakeExit, LoopAborts, RunReturns
  <2>2. QED
    BY <2>1 DEF SiPlace
<1>4. CASE Command
  <2>1. CASE Si
    <3>1. loc = "prompt" /\ state = "STOPPED" /\ cur = Primary /\ pend' = pend /\ pc' = pc
          /\ origin' = pc[cur]
      BY <2>1 DEF Si, MayStep
    <3>2. pend = {}
      BY <3>1, PromptFactsPlace
    <3>3. QED
      BY <3>1, <3>2 DEF SiPlace
  <2>2. CASE ~Si
    <3>1. loc' # "si"
      BY <1>4, <2>2
      DEF Command, Run, Launch, Continue, ResumeFrom, ResumeStep, Resume, Abort,
          StepNoLine, Break, Del,
          Step, NextLine, LoopStarts, LoopHead, StepHead, NextHead,
          DelAll, SelectThread, LockTo, Unlock, FrameUp, SetPc, MovePc, StillStopped, Regs, Kill,
          Quit, Stopped, Eof
    <3>2. QED
      BY <3>1 DEF SiPlace
  <2>3. QED
    BY <2>1, <2>2
<1>5. CASE Interrupt
  BY <1>5 DEF Interrupt, PlainSession
<1>6. CASE UNCHANGED vars
  BY <1>6 DEF vars, debuggee, Stepping, SiPlace
<1>7. QED
  BY <1>2, <1>3, <1>4, <1>5, <1>6 DEF Next, Ended

(* si from an instruction that is in the text executes that instruction and  *)
(* no more, and whatever breakpoints are set again behind it, report_stop    *)
(* does not move the thread back into it (cdbg_stepi, report_stop).          *)
THEOREM SiMovesOn ==
    ASSUME NEW Before, PlainSession(Before), BreaksWide
    PROVE  Spec => SiAdvances
<1>1. ASSUME SoleInv(Before), SiPlace, [Next]_vars, loc = "si", origin \in Insn,
             code[origin] = "orig", loc' = "prompt", state' = "STOPPED"
      PROVE  pc'[Primary] \in Succ[origin]
  <2>1. SiStop
    <3>1. CASE \E t \in Thread : Program(t)
      BY <1>1, <3>1 DEF Program, debugger
    <3>2. CASE Handler
      BY <1>1, <3>2
      DEF Handler, ExecFailed, ExecStop, Replant, EntryStop, EntryExit, OverContStop, OverContExit,
          ReportedStop, ProcessExit, NoProcess, StepStop, NextStop, OverCallStop, CallStop,
          TakeExit, LoopWaits
    <3>3. CASE Command
      BY <1>1, <3>3
      DEF Command, Run, Continue, Si, StepNoLine, Step, NextLine, LoopStarts, MayStep, Break,
          Del, DelAll, SelectThread, LockTo, Unlock, FrameUp, SetPc, MovePc, Regs, Kill, Quit,
          Stopped, Eof
    <3>4. CASE Interrupt \/ UNCHANGED vars
      BY <1>1, <3>4 DEF Interrupt, vars
    <3>5. QED
      BY <1>1, <3>1, <3>2, <3>3, <3>4 DEF Next, Ended
  <2>2. TakeStop /\ loc \in Waits \ {"exec"}
    BY <2>1 DEF SiStop, Waits
  <2>3. /\ ~WaitFails /\ life[Primary] = "alive" /\ pend # {}
        /\ Waited \in View /\ TrapView(Waited, temp) /\ Waited.pc = pc
    BY <1>1, <2>2, WaitedPlace
  <2>4. Spot \in Succ[origin] /\ Spot \in Insn
    BY <1>1, <2>3, DebuggeeAssumption DEF SiPlace
  <2>5. ~IsTrap(Spot, Waited.bps)
    BY <2>3, <2>4, WideNoTrap DEF TrapView
  <2>6. Reported(Waited) = Waited
    BY <2>3, <2>5, ReportedIs
  <2>7. pc' = pc
    BY <2>1, <2>3, <2>6 DEF SiStop, Prompt, Become
  <2>8. QED
    BY <2>4, <2>7
<1>2. Init => SiPlace
  BY DEF Init, SiPlace
<1>3. QED
  BY <1>1, <1>2, SoleInit, SoleStep, SiPlaceStep, PTL DEF Spec, SiAdvances
-------------------------------------------------------------------------------
(* What runs outside Callee enters it by calls, and calls return outside it. *)
EnteredByCalls(Callee) ==
    \A a \in Insn \ Callee :
        IF CallRet[a] = 0 THEN Succ[a] \cap Callee = {} ELSE CallRet[a] \notin Callee

(* next given outside Callee steps no instruction of Callee, and none that   *)
(* leads there; its trap for the return from a call lies outside.            *)
NextPlace(Callee) ==
    origin \notin Callee =>
        /\ loc = "next" =>
             /\ Standing \notin Callee
             /\ pend = {} => Spot = Standing /\ (code[Spot] = "orig" => Succ[Spot] \cap Callee = {})
        /\ loc \in {"overcall", "call"} => temp.addr \notin Callee

LEMMA NextHeadOutside ==
    ASSUME NEW Callee, EnteredByCalls(Callee),
           NEW m \in View, m.cur = Primary, m.pc[Primary] \in Insn,
           NEW kind \in {"step", "next"}, LoopHead(kind, m),
           origin' \notin Callee => m.pc[Primary] \notin Callee
    PROVE  NextPlace(Callee)'
<1>1. CASE kind = "step"
  <2>1. loc' = "step"
    BY <1>1 DEF LoopHead, StepHead, Resume
  <2>2. QED
    BY <2>1 DEF NextPlace
<1>2. CASE kind = "next" /\ AtCall(m)
  <2>1. temp' = BpAt(m.code, CallRet[m.pc[Primary]]) /\ loc' \in {"overcall", "call"}
    BY <1>2 DEF LoopHead, NextHead, ResumeFrom, ResumeStep, Resume
  <2>2. CallRet[m.pc[Primary]] # 0
    BY <1>2 DEF AtCall
  <2>3. QED
    BY <2>1, <2>2 DEF NextPlace, BpAt, EnteredByCalls
<1>3. CASE kind = "next" /\ ~AtCall(m)
  <2>1. loc' = "next" /\ code' = m.code /\ pc' = m.pc /\ state' = "RUNNING"
    BY <1>3 DEF LoopHead, NextHead, ResumeStep, Become, Resume
  <2>2. Standing' = m.pc[Primary] /\ Spot' = m.pc[Primary]
    BY <2>1 DEF Standing
  <2>3. code'[m.pc[Primary]] = "orig" => CallRet[m.pc[Primary]] = 0
    BY <1>3, <2>1 DEF AtCall
  <2>4. QED
    BY <2>1, <2>2, <2>3 DEF NextPlace, EnteredByCalls
<1>4. QED
  BY <1>1, <1>2, <1>3

(* Where the stop of an instruction or a call of next has left the thread.   *)
LEMMA NextStopOutside ==
    ASSUME NEW Before, NEW Inner, ServiceSession(Before, Inner), ServiceInv(Before, Inner),
           NEW Callee, NextPlace(Callee), origin \notin Callee, NextStop \/ CallStop
    PROVE  \/ \E q : HaltsAt(q) /\ (Standing \notin Callee \/ DisabledAt(Standing, q.bps))
           \/ \E m : GoesRound("next", m) /\ Standing \notin Callee
<1>1. CASE NextStop
  <2>1. loc = "next"
    BY <1>1 DEF NextStop
  <2>2. Standing \notin Callee
    BY <2>1 DEF NextPlace
  <2>3. QED
    BY <1>1, <2>1, <2>2, LoopStopFound
<1>2. CASE CallStop
  <2>1. loc = "call"
    BY <1>2 DEF CallStop
  <2>2. CASE AllSet(Returned(Waited).bps)
    <3>1. Standing = temp.addr
      BY <1>2, <2>2, CallStopFound
    <3>2. Standing \notin Callee
      BY <2>1, <3>1 DEF NextPlace
    <3>3. QED
      BY <1>2, <3>2, CallStopFound
  <2>3. CASE ~AllSet(Returned(Waited).bps)
    BY <1>2, <2>3, CallStopFound
  <2>4. QED
    BY <2>2, <2>3
<1>3. QED
  BY <1>1, <1>2

LEMMA NextPlaceStep ==
    ASSUME NEW Before, NEW Inner, ServiceSession(Before, Inner), ServiceInv(Before, Inner),
           NEW Callee, EnteredByCalls(Callee), NextPlace(Callee), [Next]_vars
    PROVE  NextPlace(Callee)'
<1>1. ASSUME NEW t \in Thread, Program(t)
      PROVE  NextPlace(Callee)'
  <2>1. /\ Runnable(Primary) /\ UNCHANGED <<code, mode, debugger>>
        /\ \/ /\ code[Spot] = "orig" /\ Spot' \in Succ[Spot] /\ Standing' = Spot'
              /\ mode = "step" => pend' # {}
           \/ Standing' = Standing /\ pend' # {}
           \/ Standing' = Standing /\ UNCHANGED <<pc, pend>>
    BY <1>1, ProgramMoves
  <2>2. pend = {} /\ Standing = Spot
    BY <2>1, Runs, DebuggeeAssumption
  <2>3. UNCHANGED <<loc, temp, origin>>
    BY <2>1 DEF debugger, Breakpoints, Stepping
  <2>4. loc = "next" => mode = "step"
    BY DEF ServiceInv, SoleInv, PlaceInv
  <2>5. QED
    BY <2>1, <2>2, <2>3, <2>4 DEF NextPlace
<1>2. CASE NextStop \/ CallStop
  <2>1. SUFFICES ASSUME origin' \notin Callee PROVE NextPlace(Callee)'
    BY DEF NextPlace
  <2>2. origin' = origin /\ TakeStop /\ loc \in {"next", "call"}
    BY <1>2, LoopStopFound, CallStopFound DEF NextStop, CallStop
  <2>3. CASE \E q : HaltsAt(q)
    BY <2>3 DEF HaltsAt, NextPlace
  <2>4. CASE \E m : GoesRound("next", m) /\ Standing \notin Callee
    <3>1. PICK m : GoesRound("next", m) /\ Standing \notin Callee
      BY <2>4
    <3>2. Standing \in Insn
      BY <2>2, WaitedFound DEF Waits, LoopWaits
    <3>3. QED
      BY <3>1, <3>2, NextHeadOutside DEF GoesRound
  <2>5. QED
    BY <1>2, <2>1, <2>2, <2>3, <2>4, NextStopOutside
<1>3. CASE StepStop
  <2>1. loc = "step"
    BY <1>3 DEF StepStop
  <2>2. (\E q : HaltsAt(q)) \/ GoesRound("step", Waited)
    BY <1>3, <2>1, LoopStopFound
  <2>3. loc' \in {"prompt", "aborted", "step"}
    BY <2>2 DEF HaltsAt, GoesRound, LoopHead, StepHead, Resume
  <2>4. QED
    BY <2>3 DEF NextPlace
<1>4. CASE OverCallStop
  <2>1. loc = "overcall" /\ origin' = origin
    BY <1>4 DEF OverCallStop, LoopAborts, Stepping
  <2>2. loc' = "aborted" \/ (loc' = "call" /\ temp' = temp)
    BY <1>4 DEF OverCallStop, LoopAborts, Abort, Resume
  <2>3. QED
    BY <2>1, <2>2 DEF NextPlace
<1>5. CASE ExecFailed \/ ExecStop \/ EntryStop \/ EntryExit \/ OverContStop \/ OverContExit
           \/ ReportedStop \/ ProcessExit \/ SiStop
  <2>1. loc' \notin {"next", "overcall", "call"}
    BY <1>5 DEF ExecFailed, ExecStop, Replant, EntryStop, EntryExit, OverContStop, OverContExit,
                ReportedStop, ProcessExit, SiStop, RunReturns, Resume, Prompt, Abort
  <2>2. QED
    BY <2>1 DEF NextPlace
<1>6. CASE Step \/ NextLine
  <2>1. PICK kind \in {"step", "next"} : LoopStarts(kind)
    BY <1>6 DEF Step, NextLine
  <2>2. LoopHead(kind, Now) /\ origin' = pc[cur] /\ loc = "prompt" /\ state = "STOPPED"
    BY <2>1 DEF LoopStarts, MayStep
  <2>3. PlainSession(Before) /\ SoleInv(Before)
    BY DEF ServiceSession, ServiceInv
  <2>4. Now \in View /\ Now.cur = Primary /\ Now.pc = pc /\ Spot \in Insn
    BY <2>2, <2>3, PromptFactsPlace DEF OnInsn
  <2>5. origin' = Spot
    BY <2>2, <2>4 DEF Now
  <2>6. QED
    BY <2>2, <2>4, <2>5, NextHeadOutside
<1>7. CASE Command /\ ~Step /\ ~NextLine
  <2>1. loc = "prompt"
    BY <1>7, CommandQuiet
  <2>2. loc' \notin {"next", "overcall", "call"}
    BY <1>7, <2>1
    DEF Command, Run, Launch, Continue, ResumeFrom, ResumeStep, Resume, Abort, Si,
        StepNoLine, Break, Del,
        DelAll, SelectThread, LockTo, Unlock, FrameUp, SetPc, MovePc, StillStopped, Regs, Kill,
        Quit, Stopped, Eof
  <2>3. QED
    BY <2>2 DEF NextPlace
<1>8. CASE Interrupt
  BY <1>8 DEF Interrupt, ServiceSession, PlainSession
<1>9. CASE UNCHANGED vars
  BY <1>9 DEF vars, debuggee, Breakpoints, Stepping, NextPlace, Standing
<1>10. QED
  BY <1>1, <1>2, <1>3, <1>4, <1>5, <1>6, <1>7, <1>8, <1>9 DEF Next, Handler, Ended

(* next given outside a function ends outside it, or is reported at a        *)
(* breakpoint in it: for every set of instructions that is entered by calls  *)
(* and left by their return (cdbg_next_source_line, step_over_call,          *)
(* finish_temp_breakpoint).                                                  *)
THEOREM NextStepsOver ==
    ASSUME NEW Before, NEW Inner, ServiceSession(Before, Inner),
           NEW Callee, EnteredByCalls(Callee)
    PROVE  Spec => [][EndsOutside(Callee)]_vars
<1>1. ASSUME ServiceInv(Before, Inner), NextPlace(Callee), [Next]_vars,
             loc \in {"next", "overcall", "call"}, origin \notin Callee,
             loc' = "prompt", state' = "STOPPED"
      PROVE  pc'[cur'] \notin Callee \/ DisabledAt(pc'[cur'], bps')
  <2>1. NextStop \/ CallStop
    <3>1. CASE \E t \in Thread : Program(t)
      BY <1>1, <3>1 DEF Program, debugger
    <3>2. CASE Handler
      BY <1>1, <3>2
      DEF Handler, ExecFailed, ExecStop, Replant, EntryStop, EntryExit, OverContStop, OverContExit,
          ReportedStop, ProcessExit, NoProcess, StepStop, SiStop, OverCallStop, LoopAborts,
          Abort, Resume, TakeExit, LoopWaits
    <3>3. CASE Command
      BY <1>1, <3>3, CommandQuiet
    <3>4. CASE Interrupt \/ UNCHANGED vars
      BY <1>1, <3>4 DEF Interrupt, vars
    <3>5. QED
      BY <1>1, <3>1, <3>2, <3>3, <3>4 DEF Next, Ended
  <2>2. PICK q : HaltsAt(q) /\ (Standing \notin Callee \/ DisabledAt(Standing, q.bps))
    <3>1. \A m : GoesRound("next", m) => state' = "RUNNING"
      BY DEF GoesRound, LoopHead, NextHead, ResumeFrom, ResumeStep, Resume
    <3>2. QED
      BY <1>1, <2>1, <3>1, NextStopOutside
  <2>3. pc'[Primary] = Standing /\ bps' = q.bps
    BY <2>2 DEF HaltsAt, Become
  <2>4. cur' = Primary
    <3>1. Inv'
      BY <1>1, NextInv DEF ServiceInv, SoleInv
    <3>2. QED
      BY <3>1 DEF Inv, TypeOK, ServiceSession, PlainSession
  <2>5. QED
    BY <2>2, <2>3, <2>4
<1>2. Init => NextPlace(Callee)
  BY DEF Init, NextPlace
<1>3. ServiceInv(Before, Inner) /\ [Next]_vars => ServiceInv(Before, Inner)'
  BY ServiceStep
<1>4. Init => ServiceInv(Before, Inner)
  BY ServiceInit
<1>5. ServiceInv(Before, Inner) /\ NextPlace(Callee) /\ [Next]_vars => NextPlace(Callee)'
  BY NextPlaceStep
<1>6. ServiceInv(Before, Inner) /\ NextPlace(Callee) /\ [Next]_vars => [EndsOutside(Callee)]_vars
  BY <1>1 DEF EndsOutside
<1>7. QED
  BY <1>2, <1>3, <1>4, <1>5, <1>6, PTL DEF Spec
-------------------------------------------------------------------------------
(* What the loops of step and next step is of no other line.                 *)
LinesPlace ==
    loc \in {"step", "next", "overcall"} /\ pend = {} => ~NewLine(Standing)

(* A loop begins on the line it is given on.                                 *)
LEMMA OwnLine ==
    ASSUME NEW Before, NEW Inner, ServiceSession(Before, Inner), ServiceInv(Before, Inner),
           NEW kind \in {"step", "next"}, LoopStarts(kind)
    PROVE  ~NewLine(Standing)'
<1>1. LoopHead(kind, Now) /\ origin' = pc[cur] /\ loc = "prompt" /\ state = "STOPPED"
  BY DEF LoopStarts, MayStep
<1>2. PlainSession(Before) /\ SoleInv(Before)
  BY DEF ServiceSession, ServiceInv
<1>3. Now \in View /\ Now.cur = Primary /\ Now.pc = pc /\ Spot \in Insn
  BY <1>1, <1>2, PromptFactsPlace DEF OnInsn
<1>4. Standing' = Spot
  BY <1>1, <1>3, LoopHeadMoves
<1>5. origin' = Spot
  BY <1>1, <1>3 DEF Now
<1>6. QED
  BY <1>4, <1>5 DEF NewLine, LineAt

LEMMA LinesPlaceStep ==
    ASSUME NEW Before, NEW Inner, ServiceSession(Before, Inner), ServiceInv(Before, Inner),
           LinesPlace, [Next]_vars
    PROVE  LinesPlace'
<1>1. ASSUME NEW t \in Thread, Program(t)
      PROVE  LinesPlace'
  <2>1. /\ Runnable(Primary) /\ UNCHANGED <<code, mode, debugger>>
        /\ \/ mode = "step" => pend' # {}
           \/ Standing' = Standing /\ UNCHANGED <<pc, pend>>
    BY <1>1, ProgramMoves
  <2>2. pend = {}
    BY <2>1, Runs, DebuggeeAssumption
  <2>3. UNCHANGED <<loc, origin>>
    BY <2>1 DEF debugger, Stepping
  <2>4. loc \in {"step", "next", "overcall"} => mode = "step"
    BY DEF ServiceInv, SoleInv, PlaceInv, OverWaits
  <2>5. CASE pend' # {}
    BY <2>5 DEF LinesPlace
  <2>6. CASE Standing' = Standing
    <3>1. NewLine(Standing)' <=> NewLine(Standing)
      BY <2>3, <2>6 DEF NewLine, LineAt
    <3>2. QED
      BY <2>2, <2>3, <3>1 DEF LinesPlace
  <2>7. QED
    BY <2>1, <2>3, <2>4, <2>5, <2>6 DEF LinesPlace
<1>2. CASE StepStop \/ NextStop \/ CallStop
  <2>1. /\ TakeStop /\ loc \in LoopWaits /\ origin' = origin
        /\ (\E q : HaltsAt(q)) \/ (\E m, kind : kind \in {"step", "next"} /\ GoesRound(kind, m))
    BY <1>2, LoopStopFound, CallStopFound DEF LoopWaits
  <2>2. CASE \E q : HaltsAt(q)
    BY <2>2 DEF HaltsAt, LinesPlace
  <2>3. CASE \E m, kind : kind \in {"step", "next"} /\ GoesRound(kind, m)
    <3>1. PICK m, kind : kind \in {"step", "next"} /\ GoesRound(kind, m)
      BY <2>3
    <3>2. Standing \in Insn
      BY <2>1, WaitedFound DEF Waits, LoopWaits
    <3>3. Standing' = Standing /\ ~NewLine(Standing)
      BY <3>1, <3>2, LoopHeadMoves DEF GoesRound
    <3>4. QED
      BY <2>1, <3>3 DEF LinesPlace, NewLine, LineAt
  <2>4. QED
    BY <2>1, <2>2, <2>3
<1>3. CASE Step \/ NextLine
  BY <1>3, OwnLine DEF LinesPlace, Step, NextLine
<1>4. CASE OverCallStop
  <2>1. loc' \notin {"step", "next", "overcall"}
    BY <1>4 DEF OverCallStop, LoopAborts, Abort, Resume
  <2>2. QED
    BY <2>1 DEF LinesPlace
<1>5. CASE ExecFailed \/ ExecStop \/ EntryStop \/ EntryExit \/ OverContStop \/ OverContExit
           \/ ReportedStop \/ ProcessExit \/ SiStop
  <2>1. loc' \notin {"step", "next", "overcall"}
    BY <1>5 DEF ExecFailed, ExecStop, Replant, EntryStop, EntryExit, OverContStop, OverContExit,
                ReportedStop, ProcessExit, SiStop, RunReturns, Resume, Prompt, Abort
  <2>2. QED
    BY <2>1 DEF LinesPlace
<1>6. CASE Command /\ ~Step /\ ~NextLine
  <2>1. loc = "prompt"
    BY <1>6, CommandQuiet
  <2>2. loc' \notin {"step", "next", "overcall"}
    BY <1>6, <2>1
    DEF Command, Run, Launch, Continue, ResumeFrom, ResumeStep, Resume, Abort, Si,
        StepNoLine, Break, Del,
        DelAll, SelectThread, LockTo, Unlock, FrameUp, SetPc, MovePc, StillStopped, Regs, Kill,
        Quit, Stopped, Eof
  <2>3. QED
    BY <2>2 DEF LinesPlace
<1>7. CASE Interrupt
  BY <1>7 DEF Interrupt, ServiceSession, PlainSession
<1>8. CASE UNCHANGED vars
  BY <1>8 DEF vars, debuggee, Breakpoints, Stepping, LinesPlace, Standing, NewLine, LineAt
<1>9. QED
  BY <1>1, <1>2, <1>3, <1>4, <1>5, <1>6, <1>7, <1>8 DEF Next, Handler, Ended

(* A loop that ends gives the thread back on another line, or at a           *)
(* breakpoint that was reported.                                             *)
LEMMA LoopGivesBack ==
    ASSUME NEW Before, NEW Inner, ServiceSession(Before, Inner), ServiceInv(Before, Inner),
           Watching = FALSE, [Next]_vars,
           loc \in LoopWaits, loc' = "prompt", state' = "STOPPED"
    PROVE  /\ origin' = origin
           /\ NewLine(pc'[Primary]) \/ DisabledAt(pc'[Primary], bps')
<1>1. StepStop \/ NextStop \/ CallStop
  <2>1. CASE \E t \in Thread : Program(t)
    BY <2>1 DEF Program, debugger, LoopWaits
  <2>2. CASE Handler
    BY <2>2
    DEF Handler, ExecFailed, ExecStop, Replant, EntryStop, EntryExit, OverContStop, OverContExit,
        ReportedStop, ProcessExit, NoProcess, SiStop, OverCallStop, LoopAborts,
        Abort, Resume, TakeExit, LoopWaits
  <2>3. CASE Command
    BY <2>3, CommandQuiet DEF LoopWaits
  <2>4. CASE Interrupt \/ UNCHANGED vars
    BY <2>4 DEF Interrupt, vars, LoopWaits
  <2>5. QED
    BY <2>1, <2>2, <2>3, <2>4 DEF Next, Ended
<1>2. /\ origin' = origin
      /\ (\E q : HaltsAt(q)) \/ (\E m, kind : kind \in {"step", "next"} /\ GoesRound(kind, m))
  BY <1>1, LoopStopFound, CallStopFound
<1>3. \A m, kind : kind \in {"step", "next"} /\ GoesRound(kind, m) => state' = "RUNNING"
  BY DEF GoesRound, LoopHead, StepHead, NextHead, ResumeFrom, ResumeStep, Resume
<1>4. PICK q : HaltsAt(q)
  BY <1>2, <1>3
<1>5. pc'[Primary] = Standing /\ bps' = q.bps
  BY <1>4 DEF HaltsAt, Become
<1>6. NewLine(Standing) \/ DisabledAt(Standing, q.bps)
  BY <1>4 DEF HaltsAt
<1>7. QED
  BY <1>2, <1>5, <1>6

(* step and next execute no instruction of another line, and give the thread *)
(* back on one, or where a breakpoint was reported: for every program, line  *)
(* table and set of breakpoints (cdbg_step_next_line, cdbg_next_source_line, *)
(* step_over_call, finish_temp_breakpoint).                                  *)
THEOREM StepsKeepToLine ==
    ASSUME NEW Before, NEW Inner, ServiceSession(Before, Inner), Watching = FALSE
    PROVE  Spec => StepsByLine
<1>1. ASSUME ServiceInv(Before, Inner), LinesPlace,
             loc \in {"step", "next", "overcall"}, Execute(Primary)
      PROVE  Line[pc[Primary]] \in {0, LineAt(origin)}
  <2>1. Runnable(Primary) /\ Primary \in Thread
    BY <1>1, DebuggeeAssumption DEF Execute
  <2>2. pend = {} /\ Spot \in Insn /\ Standing = Spot
    BY <1>1, <2>1, Runs
  <2>3. LineAt(Spot) = Line[Spot]
    BY <2>2, LineOf
  <2>4. QED
    BY <1>1, <2>2, <2>3 DEF LinesPlace, NewLine
<1>2. ASSUME ServiceInv(Before, Inner), [Next]_vars,
             loc \in LoopWaits, loc' = "prompt", state' = "STOPPED"
      PROVE  \/ LineAt(pc'[Primary]) \notin {0, LineAt(origin)}
             \/ DisabledAt(pc'[Primary], bps')
  BY <1>2, LoopGivesBack DEF NewLine
<1>3. Init => LinesPlace
  BY DEF Init, LinesPlace
<1>4. ServiceInv(Before, Inner) /\ [Next]_vars => ServiceInv(Before, Inner)'
  BY ServiceStep
<1>5. Init => ServiceInv(Before, Inner)
  BY ServiceInit
<1>6. ServiceInv(Before, Inner) /\ LinesPlace /\ [Next]_vars => LinesPlace'
  BY LinesPlaceStep
<1>7. QED
  BY <1>1, <1>2, <1>3, <1>4, <1>5, <1>6, PTL DEF Spec, StepsByLine
-------------------------------------------------------------------------------
(* What may follow a in the program, or in the loop of next.                 *)
Goes(a) == Succ[a] \cup (IF CallRet[a] = 0 THEN {} ELSE {CallRet[a]})

(* left[o][a] bounds the iterations step or next given at o makes from a     *)
(* until the line of o is left, and it is smaller than the loop's own bound. *)
ShortLines(left) ==
    \A o \in Insn : Line[o] # 0 =>
        /\ o \in DOMAIN left[o]
        /\ \A a \in DOMAIN left[o] : left[o][a] \in 0 .. MaxIter - 1
        /\ \A a \in DOMAIN left[o] \cap Insn : \A b \in Goes(a) :
              Line[b] \in {0, Line[o]} => b \in DOMAIN left[o] /\ left[o][b] < left[o][a]

(* After n iterations what is left from a fits in.                           *)
InTime(f, n, a) == a \in DOMAIN f /\ n + f[a] < MaxIter

(* The loop of step or next ends before its bound from where the thread is,  *)
(* and from the call that is run to its return.                              *)
LinePlace(left) ==
    /\ loc \in LoopWaits => Line[origin] # 0
    /\ loc \in {"step", "next"} =>
         IF pend = {}
         THEN InTime(left[origin], iter, Standing)
         ELSE Spot \notin Insn \/ NewLine(Standing) \/ InTime(left[origin], iter + 1, Standing)
    /\ loc \in {"overcall", "call"} =>
         \E c \in Insn : /\ CallRet[c] # 0 /\ temp.addr = CallRet[c]
                         /\ InTime(left[origin], iter, c)

(* An instruction done, on the same line, leaves fewer.                      *)
LEMMA LineShrinks ==
    ASSUME NEW left, ShortLines(left), origin \in Insn, Line[origin] # 0, iter \in Nat,
           NEW a \in Insn, InTime(left[origin], iter, a), NEW b \in Goes(a), b \in Insn
    PROVE  NewLine(b) \/ InTime(left[origin], iter + 1, b)
<1> DEFINE f == left[origin]
<1>1. /\ \A x \in DOMAIN f : f[x] \in 0 .. MaxIter - 1
      /\ Line[b] \in {0, Line[origin]} => b \in DOMAIN f /\ f[b] < f[a]
  BY DEF ShortLines, InTime
<1>2. a \in DOMAIN f /\ iter + f[a] < MaxIter /\ MaxIter \in Nat
  BY SessionAssumption DEF InTime
<1>3. LineAt(b) = Line[b] /\ LineAt(origin) = Line[origin]
  BY LineOf
<1> HIDE DEF f
<1>4. CASE Line[b] \in {0, Line[origin]}
  <2>1. b \in DOMAIN f /\ f[b] < f[a] /\ f[b] \in Nat /\ f[a] \in Nat
    BY <1>1, <1>2, <1>4
  <2>2. iter + 1 + f[b] < MaxIter
    BY <1>2, <2>1
  <2>3. QED
    BY <2>1, <2>2 DEF InTime, f
<1>5. CASE Line[b] \notin {0, Line[origin]}
  BY <1>3, <1>5 DEF NewLine
<1>6. QED
  BY <1>4, <1>5

LEMMA LoopHeadInTime ==
    ASSUME NEW left, NEW m \in View, m.cur = Primary, m.pc[Primary] \in Insn,
           NEW kind \in {"step", "next"}, LoopHead(kind, m), pend' = {},
           Line[origin'] # 0, InTime(left[origin'], iter', m.pc[Primary])
    PROVE  LinePlace(left)' /\ loc' # "aborted"
<1>1. /\ loc' \in LoopWaits /\ Standing' = m.pc[Primary]
      /\ loc' \in {"overcall", "call"} =>
            AtCall(m) /\ temp' = BpAt(m.code, CallRet[m.pc[Primary]])
  BY LoopHeadMoves
<1>2. loc' \in {"step", "next"} => InTime(left[origin'], iter', Standing')
  BY <1>1
<1>3. loc' \in {"overcall", "call"} =>
         CallRet[m.pc[Primary]] # 0 /\ temp'.addr = CallRet[m.pc[Primary]]
  BY <1>1 DEF AtCall, BpAt
<1>4. QED
  BY <1>1, <1>2, <1>3 DEF LinePlace, LoopWaits

(* The rest of an iteration ends the command or goes round in time.          *)
LEMMA LoopTailInTime ==
    ASSUME NEW left, ShortLines(left), NEW m \in View, m.cur = Primary, life[Primary] = "alive",
           Standing \in Insn, origin \in Insn, Line[origin] # 0, iter \in Nat, pend' = {},
           NEW kind \in {"step", "next"}, LoopTail(m, kind),
           \/ IsTrap(m.pc[Primary], m.bps)
           \/ /\ m.pc[Primary] = Standing
              /\ NewLine(Standing) \/ InTime(left[origin], iter + 1, Standing)
    PROVE  LinePlace(left)' /\ loc' # "aborted"
<1>1. Readable(m) /\ origin' = origin
  BY DEF Readable, LoopTail
<1>2. CASE LoopEnds(m)
  <2>1. loc' = "prompt"
    BY <1>2 DEF LoopEnds, Prompt
  <2>2. QED
    BY <2>1 DEF LinePlace, LoopWaits
<1>3. ASSUME Unbroken(m), ~NewLine(m.pc[m.cur])
      PROVE  m.pc[Primary] = Standing /\ InTime(left[origin], iter + 1, Standing)
  BY <1>3 DEF Unbroken
<1>4. CASE LoopFails(m)
  <2>1. Unbroken(m) /\ ~NewLine(m.pc[m.cur]) /\ iter + 1 = MaxIter
    BY <1>1, <1>4 DEF LoopFails
  <2>2. Standing \in DOMAIN left[origin] /\ iter + 1 + left[origin][Standing] < MaxIter
    BY <1>3, <2>1 DEF InTime
  <2>3. left[origin][Standing] \in 0 .. MaxIter - 1
    BY <2>2 DEF ShortLines
  <2>4. QED
    BY <2>1, <2>2, <2>3, SessionAssumption
<1>5. CASE Unbroken(m) /\ ~NewLine(m.pc[m.cur]) /\ LoopHead(kind, m) /\ iter' = iter + 1
  <2>1. m.pc[Primary] = Standing /\ InTime(left[origin], iter + 1, Standing)
    BY <1>3, <1>5
  <2>2. InTime(left[origin'], iter', m.pc[Primary]) /\ Line[origin'] # 0
    BY <1>1, <1>5, <2>1
  <2>3. QED
    BY <1>5, <2>1, <2>2, LoopHeadInTime
<1>6. QED
  BY <1>2, <1>4, <1>5 DEF LoopTail

(* Each stop of the loop.                                                    *)
LEMMA StopInTime ==
    ASSUME NEW Before, NEW Inner, ServiceSession(Before, Inner), ServiceInv(Before, Inner),
           NEW left, ShortLines(left), LinePlace(left),
           StepStop \/ NextStop \/ CallStop \/ OverCallStop
    PROVE  LinePlace(left)' /\ loc' # "aborted"
<1>1. /\ TakeStop /\ loc \in LoopWaits /\ loc \in Waits \ {"exec"}
  BY DEF StepStop, NextStop, CallStop, OverCallStop, LoopWaits, Waits
<1>2. /\ ~WaitFails /\ Readable(Now) /\ life[Primary] = "alive" /\ pend # {} /\ pend' = {}
      /\ Waited \in View /\ Waited.pc = pc /\ Waited.cur = Primary
      /\ Standing \in Insn /\ (Spot \in Insn => Standing = Spot)
  BY <1>1, WaitedFound
<1>3. origin \in Insn /\ Line[origin] # 0 /\ iter \in Nat
  BY <1>1 DEF ServiceInv, CallPlace, SoleInv, Inv, TypeOK, LinePlace
<1>4. CASE StepStop \/ NextStop
  <2>1. loc \in {"step", "next"} /\ LoopTail(Waited, loc)
    BY <1>2, <1>4 DEF StepStop, NextStop
  <2>2. ~temp.enabled
    BY <2>1 DEF ServiceInv, SoleInv, TrapInv
  <2>3. Spot \notin Insn => IsTrap(Spot, Waited.bps)
    BY <1>1, <2>2, ReportedFound
  <2>4. Spot \notin Insn \/ NewLine(Standing) \/ InTime(left[origin], iter + 1, Standing)
    BY <1>2, <2>1 DEF LinePlace
  <2>5. QED
    BY <1>2, <1>3, <2>1, <2>3, <2>4, LoopTailInTime
<1>5. CASE CallStop
  <2> DEFINE m == Returned(Waited)
  <2>1. loc = "call" /\ LoopTail(m, "next")
    BY <1>2, <1>5 DEF CallStop
  <2>2. PlainSession(Before) /\ SoleInv(Before)
    BY DEF ServiceSession, ServiceInv
  <2>3. m \in View
    BY <1>1, <2>1, <2>2, ReturnedOnInsn
  <2>4. m.cur = Primary
    BY <2>2, <2>3, LoneThread
  <2>5. m.pc[Primary] = Standing /\ (Standing = temp.addr \/ NewLine(Standing))
    BY <1>1, <2>1, ReturnedFound
  <2>6. ASSUME Standing = temp.addr
        PROVE  NewLine(Standing) \/ InTime(left[origin], iter + 1, Standing)
    <3>1. PICK c \in Insn : CallRet[c] # 0 /\ temp.addr = CallRet[c]
                            /\ InTime(left[origin], iter, c)
      BY <2>1 DEF LinePlace
    <3>2. Standing \in Goes(c)
      BY <2>6, <3>1 DEF Goes
    <3>3. QED
      BY <1>2, <1>3, <3>1, <3>2, LineShrinks
  <2> HIDE DEF m
  <2>7. QED
    BY <1>2, <1>3, <2>1, <2>3, <2>4, <2>5, <2>6, LoopTailInTime
<1>6. CASE OverCallStop
  <2>1. loc = "overcall" /\ loc' = "call" /\ UNCHANGED <<temp, origin, iter>>
    BY <1>2, <1>6 DEF OverCallStop, Resume, Stepping
  <2>2. QED
    BY <2>1 DEF LinePlace, LoopWaits
<1>7. QED
  BY <1>4, <1>5, <1>6

LEMMA LinePlaceStep ==
    ASSUME NEW Before, NEW Inner, ServiceSession(Before, Inner), ServiceInv(Before, Inner),
           NEW left, ShortLines(left), LinePlace(left), [Next]_vars
    PROVE  LinePlace(left)'
<1>1. ASSUME NEW t \in Thread, Program(t)
      PROVE  LinePlace(left)'
  <2>1. /\ Runnable(Primary) /\ UNCHANGED <<mode, debugger>>
        /\ \/ /\ Spot' \in Succ[Spot] /\ Spot' \in Insn /\ Standing' = Spot'
              /\ mode = "step" => pend' # {}
           \/ Spot' \notin Insn /\ pend' # {}
           \/ Standing' = Standing /\ UNCHANGED <<pc, pend>>
    BY <1>1, ProgramMoves
  <2>2. pend = {} /\ Standing = Spot /\ Spot \in Insn
    BY <2>1, Runs, DebuggeeAssumption
  <2>3. UNCHANGED <<loc, temp, origin, iter>>
    BY <2>1 DEF debugger, Breakpoints, Stepping
  <2>4. loc \in {"step", "next"} => mode = "step"
    BY DEF ServiceInv, SoleInv, PlaceInv
  <2>5. loc \in LoopWaits => origin \in Insn /\ Line[origin] # 0 /\ iter \in Nat
    BY DEF ServiceInv, CallPlace, SoleInv, Inv, TypeOK, LinePlace
  <2>6. CASE loc \in {"step", "next"}
    <3>1. InTime(left[origin], iter, Spot)
      BY <2>2, <2>6 DEF LinePlace
    <3>2. CASE Spot' \in Succ[Spot] /\ Spot' \in Insn /\ Standing' = Spot' /\ pend' # {}
      <4>1. PICK q \in Insn : q = Spot'
        BY <3>2
      <4>2. q \in Goes(Spot)
        BY <3>2, <4>1 DEF Goes
      <4>3. NewLine(q) \/ InTime(left[origin], iter + 1, q)
        BY <2>2, <2>5, <2>6, <3>1, <4>2, LineShrinks DEF LoopWaits
      <4>4. NewLine(q)' <=> NewLine(q)
        BY <2>3 DEF NewLine, LineAt
      <4>5. Standing' = q
        BY <3>2, <4>1
      <4>6. QED
        BY <2>3, <2>5, <2>6, <3>2, <4>3, <4>4, <4>5 DEF LinePlace, LoopWaits, NewLine, LineAt
    <3>3. CASE Spot' \notin Insn /\ pend' # {}
      BY <2>3, <2>5, <2>6, <3>3 DEF LinePlace, LoopWaits
    <3>4. CASE Standing' = Standing /\ UNCHANGED <<pc, pend>>
      BY <2>2, <2>3, <2>6, <3>4 DEF LinePlace, LoopWaits
    <3>5. QED
      BY <2>1, <2>4, <2>6, <3>2, <3>3, <3>4
  <2>7. CASE loc \notin {"step", "next"}
    BY <2>3, <2>7 DEF LinePlace
  <2>8. QED
    BY <2>6, <2>7
<1>2. CASE StepStop \/ NextStop \/ CallStop \/ OverCallStop
  BY <1>2, StopInTime
<1>3. CASE ExecFailed \/ ExecStop \/ EntryStop \/ EntryExit \/ OverContStop \/ OverContExit
           \/ ReportedStop \/ ProcessExit \/ SiStop
  <2>1. loc' \notin LoopWaits
    BY <1>3 DEF ExecFailed, ExecStop, Replant, EntryStop, EntryExit, OverContStop, OverContExit,
                ReportedStop, ProcessExit, SiStop, RunReturns, Resume, Prompt, Abort, LoopWaits
  <2>2. QED
    BY <2>1 DEF LinePlace, LoopWaits
<1>4. CASE Step \/ NextLine
  <2>1. PICK kind \in {"step", "next"} : LoopStarts(kind)
    BY <1>4 DEF Step, NextLine
  <2>2. /\ LoopHead(kind, Now) /\ origin' = pc[cur] /\ iter' = 0 /\ pend' = pend
        /\ loc = "prompt" /\ state = "STOPPED" /\ LineAt(pc[cur]) # 0
    BY <2>1 DEF LoopStarts, MayStep
  <2>3. PlainSession(Before) /\ SoleInv(Before)
    BY DEF ServiceSession, ServiceInv
  <2>4. /\ Now \in View /\ Now.cur = Primary /\ Now.pc = pc /\ Spot \in Insn /\ pend = {}
    BY <2>2, <2>3, PromptFactsPlace DEF OnInsn
  <2>5. origin' = Spot /\ Line[Spot] # 0
    BY <2>2, <2>4, LineOf DEF Now
  <2>6. Spot \in DOMAIN left[Spot] /\ left[Spot][Spot] \in 0 .. MaxIter - 1
    BY <2>4, <2>5 DEF ShortLines
  <2>7. InTime(left[origin'], iter', Spot)
    BY <2>2, <2>5, <2>6, SessionAssumption DEF InTime
  <2>8. QED
    BY <2>2, <2>4, <2>5, <2>7, LoopHeadInTime
<1>5. CASE Command /\ ~Step /\ ~NextLine
  <2>1. loc = "prompt"
    BY <1>5, CommandQuiet
  <2>2. loc' \notin LoopWaits
    BY <1>5, <2>1
    DEF Command, Run, Launch, Continue, ResumeFrom, ResumeStep, Resume, Abort, Si,
        StepNoLine, Break, Del,
        DelAll, SelectThread, LockTo, Unlock, FrameUp, SetPc, MovePc, StillStopped, Regs, Kill,
        Quit, Stopped, Eof, LoopWaits
  <2>3. QED
    BY <2>2 DEF LinePlace, LoopWaits
<1>6. CASE Interrupt
  BY <1>6 DEF Interrupt, ServiceSession, PlainSession
<1>7. CASE UNCHANGED vars
  BY <1>7 DEF vars, debuggee, Breakpoints, Stepping, LinePlace, Standing, NewLine, LineAt
<1>8. QED
  BY <1>1, <1>2, <1>3, <1>4, <1>5, <1>6, <1>7 DEF Next, Handler, Ended

(* No command that waits ends the debugger, if every line is left within the *)
(* bound of the loop and no breakpoint is on the program's last instruction: *)
(* the step off that one ends the process inside cdbg_continue, which takes  *)
(* the end for a failure (CDBG_MAX_STEP_ITERATIONS, cdbg_continue).          *)
THEOREM WaitsAreNotFatal ==
    ASSUME NEW Before, NEW Inner, ServiceSession(Before, Inner),
           NEW left, ShortLines(left), \A a \in BreakAt : Succ[a] # {}
    PROVE  Spec => WaitNeverFatal
<1>1. ASSUME ServiceInv(Before, Inner), LinePlace(left), [Next]_vars,
             loc \in Waits, repl
      PROVE  loc' # "aborted"
  <2>1. CASE StepStop \/ NextStop \/ CallStop \/ OverCallStop
    BY <1>1, <2>1, StopInTime
  <2>2. CASE OverContExit
    <3>1. loc = "overcont" /\ dead /\ loc \in OverWaits
      BY <2>2 DEF OverContExit, TakeExit, OverWaits
    <3>2. PlaceInv(Before) /\ TrapInv /\ Inv
      BY <1>1 DEF ServiceInv, SoleInv
    <3>3. state # "IDLE"
      BY <3>1, <3>2 DEF Inv, Guarding, Waits
    <3>4. Succ[Spot] = {} /\ pend = {}
      BY <1>1, <3>1, <3>3 DEF ServiceInv, DeadPlace
    <3>5. DisabledAt(Spot, bps)
      BY <3>1, <3>2, <3>4 DEF PlaceInv
    <3>6. Given(bps)
      BY <3>2, <3>3 DEF TrapInv
    <3>7. QED
      BY <3>4, <3>5, <3>6 DEF DisabledAt, Given
  <2>3. CASE OverContStop \/ ReportedStop \/ SiStop \/ EntryStop
    <3>1. TakeStop /\ loc \in Waits \ {"exec"}
      BY <2>3 DEF OverContStop, ReportedStop, SiStop, EntryStop, Waits
    <3>2. ~WaitFails
      BY <1>1, <3>1, WaitedFound
    <3>3. QED
      BY <2>3, <3>2 DEF OverContStop, ReportedStop, SiStop, EntryStop, Prompt, Resume
  <2>4. CASE ExecFailed \/ ExecStop \/ EntryExit \/ ProcessExit
    BY <1>1, <2>4 DEF ExecFailed, ExecStop, Replant, EntryExit, ProcessExit, RunReturns, Resume
  <2>5. CASE \E t \in Thread : Program(t)
    BY <1>1, <2>5 DEF Program, debugger, Waits, LoopWaits
  <2>6. CASE Command
    BY <1>1, <2>6, CommandQuiet DEF Waits, LoopWaits
  <2>7. CASE Interrupt \/ UNCHANGED vars
    BY <1>1, <2>7 DEF Interrupt, vars, Waits, LoopWaits
  <2>8. QED
    BY <1>1, <2>1, <2>2, <2>3, <2>4, <2>5, <2>6, <2>7 DEF Next, Handler, Ended
<1>2. Init => LinePlace(left)
  BY DEF Init, LinePlace, LoopWaits
<1>3. ServiceInv(Before, Inner) /\ [Next]_vars => ServiceInv(Before, Inner)'
  BY ServiceStep
<1>4. Init => ServiceInv(Before, Inner)
  BY ServiceInit
<1>5. ServiceInv(Before, Inner) /\ LinePlace(left) /\ [Next]_vars => LinePlace(left)'
  BY LinePlaceStep
<1>6. ServiceInv(Before, Inner) /\ LinePlace(left) /\ [Next]_vars =>
         [(loc \in Waits /\ repl) => loc' # "aborted"]_vars
  BY <1>1
<1>7. QED
  BY <1>2, <1>3, <1>4, <1>5, <1>6, PTL DEF Spec, WaitNeverFatal
-------------------------------------------------------------------------------
(* The session as a DebugService, step by step.  A stop at which the user is *)
(* told of the breakpoint the thread stands on, or that need not be at one.  *)
LEMMA StopsAt ==
    ASSUME NEW q, pc' = q.pc, bps' = q.bps, state = "RUNNING", state' = "STOPPED",
           loc # "exec", loc' # "exec", Standing \in Insn, q.pc[Primary] = Standing,
           SameAddresses(q.bps, bps), LastTold = 0,
           \/ DisabledAt(Standing, q.bps)
           \/ AllSet(q.bps) /\ Goal # "cont"
    PROVE  Service!Stop
<1>1. Standing' = Standing
  BY DEF Standing
<1>2. Points' = Points
  <2>1. bps' = q.bps /\ SameAddresses(q.bps, bps)
    OBVIOUS
  <2>2. QED
    BY <2>1 DEF Points, SameAddresses
<1>3. Proc = "running" /\ Proc' = "stopped" /\ Goal' = "none"
  BY DEF Proc, Goal
<1>4. LastTold' = IF DisabledAt(Standing, q.bps) THEN Standing ELSE 0
  BY <1>1 DEF LastTold
<1>5. CASE DisabledAt(Standing, q.bps)
  <2>1. Standing \in Points
    BY <1>5 DEF DisabledAt, SameAddresses, Points
  <2>2. QED
    BY <1>1, <1>2, <1>3, <1>4, <1>5, <2>1 DEF Service!Stop, Service!Tell
<1>6. CASE AllSet(q.bps) /\ Goal # "cont"
  <2>1. LastTold' = LastTold
    BY <1>4, <1>6, NoneDisabled
  <2>2. QED
    BY <1>1, <1>2, <1>3, <1>6, <2>1 DEF Service!Stop
<1>7. QED
  BY <1>5, <1>6

(* A stop after which the same command goes on.                              *)
LEMMA GoesOn ==
    ASSUME NEW table, pc' = pc \/ (Standing \in Insn /\ pc'[Primary] = Standing),
           bps' = table, state = "RUNNING", state' = "RUNNING",
           loc # "exec", loc' # "exec", Goal' = Goal,
           SameAddresses(table, bps), AllSet(table), LastTold = 0
    PROVE  UNCHANGED Service!service
<1>1. Standing' = Standing
  BY DEF Standing
<1>2. Points' = Points
  <2>1. bps' = table /\ SameAddresses(table, bps)
    OBVIOUS
  <2>2. QED
    BY <2>1 DEF Points, SameAddresses
<1>3. Proc' = Proc
  BY DEF Proc
<1>4. LastTold' = LastTold
  BY NoneDisabled DEF LastTold
<1>5. QED
  BY <1>1, <1>2, <1>3, <1>4 DEF Service!service

(* An instruction of the program is executed only where no breakpoint is, or *)
(* one the user was told of.                                                 *)
LEMMA Passes ==
    ASSUME NEW Before, NEW Inner, ServiceInv(Before, Inner),
           state # "IDLE", loc # "exec", Spot \in Insn, code[Spot] = "orig"
    PROVE  Standing = Spot /\ (Standing \in Points => LastTold = Standing)
<1>1. Standing = Spot
  BY DEF Standing
<1>2. ~SetAt(Spot, bps)
  BY DEF ServiceInv, SoleInv, TrapInv, Trapped, Owned
<1>3. Spot \in Points => DisabledAt(Spot, bps)
  BY <1>2 DEF Points, SetAt, DisabledAt
<1>4. QED
  BY <1>1, <1>3 DEF LastTold

LEMMA Exits ==
    ASSUME NEW Before, NEW Inner, ServiceSession(Before, Inner), ServiceInv(Before, Inner),
           dead, loc \in Waits \ {"exec"}, state' = "IDLE", loc' # "exec",
           SameAddresses(bps', bps)
    PROVE  Service!End
<1>1. state = "RUNNING"
  BY DEF ServiceInv, SoleInv, Inv, Guarding
<1>2. Spot \in Insn /\ code[Spot] = "orig" /\ Succ[Spot] = {}
  BY <1>1 DEF ServiceInv, DeadPlace
<1>3. Standing = Spot /\ (Standing \in Points => LastTold = Standing)
  BY <1>1, <1>2, Passes
<1>4. Points' = Points
  BY DEF SameAddresses, Points
<1>5. Proc = "running" /\ Proc' = "none" /\ Goal' = "none" /\ Standing' = Start /\ LastTold' = 0
  BY <1>1 DEF Proc, Goal, Standing, LastTold
<1>6. QED
  BY <1>2, <1>3, <1>4, <1>5 DEF Service!End

(* The program: an instruction is one of the service's, a trap is none.      *)
LEMMA ProgramServes ==
    ASSUME NEW Before, NEW Inner, ServiceSession(Before, Inner), ServiceInv(Before, Inner),
           NEW t \in Thread, Program(t)
    PROVE  Service!Exec \/ UNCHANGED Service!service
<1>1. /\ Runnable(Primary) /\ UNCHANGED debugger
      /\ \/ /\ code[Spot] = "orig" /\ Spot' \in Succ[Spot] /\ Standing' = Spot' /\ Spot' # Spot
         \/ Standing' = Standing
  BY ProgramMoves
<1>2. /\ state = "RUNNING" /\ loc # "exec" /\ Spot \in Insn /\ Standing = Spot
      /\ LiftedOnlyAt(Spot, bps)
  BY <1>1, Runs, DebuggeeAssumption
<1>3. UNCHANGED <<state, loc, bps, saved>>
  BY <1>1 DEF debugger, Breakpoints
<1>4. Proc' = Proc /\ Goal' = Goal /\ Points' = Points /\ Proc = "running"
  BY <1>2, <1>3 DEF Proc, Goal, Points
<1>5. CASE Standing' = Standing
  <2>1. LastTold' = LastTold
    BY <1>3, <1>5 DEF LastTold
  <2>2. QED
    BY <1>4, <1>5, <2>1 DEF Service!service
<1>6. CASE code[Spot] = "orig" /\ Spot' \in Succ[Spot] /\ Standing' = Spot' /\ Spot' # Spot
  <2>1. Standing \in Points => LastTold = Standing
    BY <1>2, <1>6, Passes
  <2>2. LastTold' = 0
    BY <1>2, <1>3, <1>6 DEF LastTold, LiftedOnlyAt, DisabledAt
  <2>3. QED
    BY <1>2, <1>4, <1>6, <2>1, <2>2 DEF Service!Exec
<1>7. QED
  BY <1>1, <1>5, <1>6

(* The handlers that go back to the prompt, or do so in the end.             *)
LEMMA ExecStopServes ==
    ASSUME NEW Before, NEW Inner, ServiceSession(Before, Inner), ServiceInv(Before, Inner),
           ExecStop
    PROVE  Service!Stop \/ UNCHANGED Service!service
<1>1. Replant(saved)
  BY DEF ExecStop, Replant, Surviving, ServiceSession
<1>2. loc = "exec" /\ bps' = ReplantedBps(saved) /\ pc' = pc
  BY <1>1 DEF ExecStop, Replant
<1>3. state = "RUNNING" /\ bps = <<>> /\ Spot = Start /\ Start \in Insn
  BY <1>2, DebuggeeAssumption
  DEF ServiceInv, SoleInv, Inv, Guarding, Waits, PlaceInv, TrapPlace
<1>4. DOMAIN bps' = DOMAIN saved /\ \A i \in DOMAIN saved : bps'[i].addr = saved[i]
  BY <1>2 DEF ReplantedBps
<1>5. AllSet(bps')
  BY <1>2 DEF ReplantedBps, AllSet
<1>6. /\ state' \in {"STOPPED", "RUNNING"} /\ loc' # "exec"
      /\ state' = "RUNNING" => loc' = "entry"
  BY <1>1 DEF Replant, RunReturns, Resume
<1>7. Standing' = Standing
  BY <1>2, <1>3, <1>6 DEF Standing
<1>8. Points' = Points
  BY <1>2, <1>4, <1>6 DEF Points
<1>9. LastTold = 0 /\ LastTold' = 0
  <2>1. \A p : ~DisabledAt(p, bps)
    BY <1>3, EmptyTable DEF DisabledAt
  <2>2. \A p : ~DisabledAt(p, bps')
    BY <1>5 DEF AllSet, DisabledAt
  <2>3. QED
    BY <2>1, <2>2 DEF LastTold
<1>10. Proc = "running" /\ Goal = "main"
  BY <1>2, <1>3 DEF Proc, Goal
<1>11. CASE state' = "STOPPED"
  <2>1. Proc' = "stopped" /\ Goal' = "none"
    BY <1>11 DEF Proc, Goal
  <2>2. QED
    BY <1>7, <1>8, <1>9, <1>10, <2>1 DEF Service!Stop
<1>12. CASE state' = "RUNNING"
  <2>1. Proc' = "running" /\ Goal' = "main"
    BY <1>6, <1>12 DEF Proc, Goal
  <2>2. QED
    BY <1>7, <1>8, <1>9, <1>10, <2>1 DEF Service!service
<1>13. QED
  BY <1>6, <1>11, <1>12

(* run ends on the instruction its own trap was on.                          *)
LEMMA EntryStopServes ==
    ASSUME NEW Before, NEW Inner, ServiceSession(Before, Inner), ServiceInv(Before, Inner),
           EntryStop
    PROVE  Service!Stop
<1>1. loc = "entry" /\ TakeStop
  BY DEF EntryStop
<1>2. /\ state = "RUNNING" /\ pend # {} /\ LastTold = 0 /\ Standing \in Insn
      /\ Waited \in View /\ TrapView(Waited, temp) /\ Waited.pc = pc /\ Waited.cur = Primary
      /\ AllSet(Waited.bps) /\ SameAddresses(Waited.bps, bps)
      /\ Spot \in Insn => mode # "cont"
      /\ Spot \notin Insn => Spot = Standing + 1
  BY <1>1, WaitedFound DEF Waits
<1>3. TypeOK /\ PlainSession(Before)
  BY DEF ServiceInv, SoleInv, Inv, ServiceSession
<1>4. mode = "cont" /\ Spot = Entry + 1 /\ temp.enabled /\ temp.addr = Entry
  BY <1>1, <1>2 DEF ServiceInv, SoleInv, PlaceInv
<1>5. Standing \in Nat /\ Entry \in Nat /\ Spot = Standing + 1
  BY <1>2, <1>4, SessionAssumption, InsnAssumption
<1>6. Standing = Entry
  BY <1>4, <1>5
<1> DEFINE d == Disarmed(Waited)
           q == Rewound(d)
<1>7. d.pc = pc /\ d.bps = Waited.bps /\ d.cur = Primary /\ d \in View
  <2>1. d \in View
    BY <1>2, <1>3, DisarmedType
  <2>2. d.pc = pc /\ d.bps = Waited.bps
    BY <1>2 DEF Disarmed, View
  <2>3. QED
    BY <1>3, <2>1, <2>2, LoneThread
<1>8. cur = Primary
  BY <1>3 DEF TypeOK, PlainSession
<1>9. Matches(Waited.pc[cur], temp)
  BY <1>2, <1>4, <1>8 DEF Matches
<1>10. Prompt(q)
  BY <1>9 DEF EntryStop
<1> HIDE DEF d
<1>11. q.pc = [pc EXCEPT ![Primary] = IF @ > 0 THEN @ - 1 ELSE @] /\ q.bps = d.bps
  BY <1>7 DEF Rewound, View
<1>12. q.pc[Primary] = Standing
  BY <1>3, <1>4, <1>5, <1>6, <1>7, <1>11, LoneThread DEF TypeOK, DebuggeeTypeOK
<1>13. /\ pc' = q.pc /\ bps' = q.bps /\ state' = "STOPPED" /\ loc' = "prompt"
  BY <1>10 DEF Prompt, Become
<1>14. Goal # "cont"
  BY <1>1 DEF Goal
<1> HIDE DEF q
<1>15. AllSet(q.bps) /\ SameAddresses(q.bps, bps)
  BY <1>2, <1>7, <1>11
<1>16. QED
  BY <1>1, <1>2, <1>12, <1>13, <1>14, <1>15, StopsAt

(* continue ends at a breakpoint, a single step wherever it has led.         *)
LEMMA ReportedServes ==
    ASSUME NEW Before, NEW Inner, ServiceSession(Before, Inner), ServiceInv(Before, Inner),
           ReportedStop \/ SiStop
    PROVE  Service!Stop
<1>1. loc \in {"cont", "step1", "si"} /\ TakeStop /\ loc \in Waits \ {"exec"}
  BY DEF ReportedStop, SiStop, Waits
<1>2. ~temp.enabled /\ (loc = "cont" => mode = "cont")
  BY <1>1 DEF ServiceInv, SoleInv, TrapInv, PlaceInv
<1>3. /\ state = "RUNNING" /\ ~WaitFails /\ LastTold = 0 /\ Standing \in Insn
      /\ AllSet(Waited.bps)
  BY <1>1, WaitedFound
<1> DEFINE q == Reported(Waited)
<1>4. /\ q.pc[Primary] = Standing /\ SameAddresses(q.bps, bps)
      /\ IF Spot \in Insn THEN q = Waited /\ mode # "cont" ELSE DisabledAt(Standing, q.bps)
  BY <1>1, <1>2, ReportedFound
<1>5. Prompt(q)
  BY <1>3 DEF ReportedStop, SiStop
<1> HIDE DEF q
<1>6. pc' = q.pc /\ bps' = q.bps /\ state' = "STOPPED" /\ loc' = "prompt"
  BY <1>5 DEF Prompt, Become
<1>7. \/ DisabledAt(Standing, q.bps)
      \/ AllSet(q.bps) /\ Goal # "cont"
  BY <1>1, <1>2, <1>3, <1>4 DEF Goal
<1>8. QED
  BY <1>1, <1>3, <1>4, <1>6, <1>7, StopsAt

(* An iteration of step or next ends it or goes round.                       *)
LEMMA LoopServes ==
    ASSUME NEW Before, NEW Inner, ServiceSession(Before, Inner), ServiceInv(Before, Inner),
           StepStop \/ NextStop \/ CallStop
    PROVE  Service!Stop \/ UNCHANGED Service!service
<1>1. /\ TakeStop /\ loc \in {"step", "next", "call"}
      /\ \/ \E q : HaltsAt(q)
         \/ \E kind \in {"step", "next"} : \E m : GoesRound(kind, m)
  BY LoopStopFound, CallStopFound
<1>2. state = "RUNNING" /\ LastTold = 0 /\ Standing \in Insn /\ Goal = "step"
  BY <1>1, WaitedFound DEF Waits, LoopWaits, Goal
<1>3. CASE \E q : HaltsAt(q)
  <2>1. PICK q : HaltsAt(q)
    BY <1>3
  <2>2. pc' = q.pc /\ bps' = q.bps /\ state' = "STOPPED" /\ loc' # "exec"
    BY <2>1 DEF HaltsAt, Become
  <2>3. /\ q.pc[Primary] = Standing /\ SameAddresses(q.bps, bps)
        /\ AllSet(q.bps) \/ DisabledAt(Standing, q.bps)
    BY <2>1 DEF HaltsAt
  <2>4. QED
    BY <1>1, <1>2, <2>2, <2>3, StopsAt
<1>4. CASE \E kind \in {"step", "next"} : \E m : GoesRound(kind, m)
  <2>1. PICK kind \in {"step", "next"} : \E m : GoesRound(kind, m)
    BY <1>4
  <2>2. PICK m : GoesRound(kind, m)
    BY <2>1
  <2>3. pc' = m.pc /\ bps' = m.bps /\ state' = "RUNNING" /\ loc' \in LoopWaits
    BY <1>2, <2>2, LoopHeadMoves DEF GoesRound
  <2>4. m.pc[Primary] = Standing /\ AllSet(m.bps) /\ SameAddresses(m.bps, bps)
    BY <2>2 DEF GoesRound
  <2>5. Goal' = Goal /\ loc' # "exec"
    BY <1>2, <2>3 DEF Goal, LoopWaits
  <2>6. UNCHANGED Service!service
    BY <1>1, <1>2, <2>3, <2>4, <2>5, GoesOn
  <2>7. QED
    BY <2>6
<1>5. QED
  BY <1>1, <1>3, <1>4

(* The step off a lifted breakpoint has been made, and the task continues.   *)
LEMMA OverServes ==
    ASSUME NEW Before, NEW Inner, ServiceSession(Before, Inner), ServiceInv(Before, Inner),
           OverContStop \/ OverCallStop
    PROVE  UNCHANGED Service!service
<1>1. loc \in OverWaits /\ TakeStop /\ loc \in Waits \ {"exec"}
  BY DEF OverContStop, OverCallStop, OverWaits, Waits, LoopWaits
<1>2. /\ state = "RUNNING" /\ ~WaitFails /\ LastTold = 0 /\ Waited.pc = pc
      /\ AllSet(Waited.bps) /\ SameAddresses(Waited.bps, bps)
  BY <1>1, WaitedFound
<1>3. pc' = pc /\ bps' = Waited.bps /\ state' = "RUNNING"
  BY <1>2 DEF OverContStop, OverCallStop, Become, Resume
<1>4. Goal' = Goal /\ loc' # "exec"
  BY <1>2, <1>3 DEF OverContStop, OverCallStop, Resume, Goal
<1> DEFINE table == Waited.bps
<1> HIDE DEF table
<1>5. AllSet(table) /\ SameAddresses(table, bps) /\ bps' = table
  BY <1>2, <1>3 DEF table
<1>6. QED
  BY <1>1, <1>2, <1>3, <1>4, <1>5, GoesOn

(* The end of the process, noticed by whichever wait.                        *)
LEMMA ExitServes ==
    ASSUME NEW Before, NEW Inner, ServiceSession(Before, Inner), ServiceInv(Before, Inner),
           EntryExit \/ ProcessExit \/ OverContExit
    PROVE  Service!End
<1>1. dead /\ loc \in Waits \ {"exec"} /\ state' = "IDLE" /\ loc' # "exec"
  BY DEF EntryExit, ProcessExit, OverContExit, TakeExit, NoProcess, RunReturns, Waits, LoopWaits
<1>2. SameAddresses(bps', bps)
  <2>1. bps \in Table
    BY DEF ServiceInv, SoleInv, Inv, TypeOK, Table
  <2>2. bps' = AllDisabled(bps) \/ bps' = bps
    BY DEF EntryExit, ProcessExit, OverContExit, NoProcess, Breakpoints
  <2>3. QED
    BY <2>1, <2>2, AllDisabledEntries DEF SameAddresses
<1>3. QED
  BY <1>1, <1>2, Exits

(* The commands that resume the task.                                        *)
LEMMA RunServes ==
    ASSUME NEW Before, NEW Inner, ServiceInv(Before, Inner), Run
    PROVE  Service!Launch
<1>1. /\ loc = "prompt" /\ loc' = "exec" /\ state' = "RUNNING"
      /\ pc' = [t \in Thread |-> Start] /\ bps' = <<>>
      /\ saved' = [i \in DOMAIN bps |-> bps[i].addr]
  BY DEF Run, Launch, Spawned, Fresh
<1>2. state # "RUNNING"
  BY <1>1 DEF ServiceInv, SoleInv, Inv, Guarding
<1>3. Standing' = Start
  BY <1>1, DebuggeeAssumption DEF Standing
<1>4. LastTold' = 0
  BY <1>1, EmptyTable DEF LastTold, DisabledAt
<1>5. Points' = Points
  BY <1>1 DEF Points
<1>6. Proc # "running" /\ Proc' = "running" /\ Goal' = "main"
  BY <1>1, <1>2 DEF Proc, Goal, ServiceInv, SoleInv, Inv, TypeOK
<1>7. QED
  BY <1>3, <1>4, <1>5, <1>6 DEF Service!Launch

LEMMA ResumeServes ==
    ASSUME NEW Before, NEW Inner, ServiceSession(Before, Inner), ServiceInv(Before, Inner),
           Continue \/ Si \/ StepNoLine \/ Step \/ NextLine
    PROVE  Service!Resume
<1>1. loc = "prompt" /\ state = "STOPPED"
  BY DEF Continue, Si, StepNoLine, Step, NextLine, LoopStarts, MayStep
<1>2. PlainSession(Before) /\ SoleInv(Before)
  BY DEF ServiceSession, ServiceInv
<1>3. /\ Now \in View /\ Now.cur = Primary /\ Now.pc = pc /\ Now.bps = bps
      /\ ~WaitFails /\ Spot \in Insn
  BY <1>1, <1>2, PromptFactsPlace DEF OnInsn
<1>4. pc' = pc /\ bps' = bps /\ state' = "RUNNING" /\ loc' \notin {"exec", "entry"}
  <2>1. CASE Continue \/ Si \/ StepNoLine
    BY <1>3, <2>1 DEF Continue, Si, StepNoLine, ResumeFrom, ResumeStep, Resume, Breakpoints
  <2>2. CASE Step \/ NextLine
    <3>1. PICK kind \in {"step", "next"} : LoopHead(kind, Now)
      BY <2>2 DEF Step, NextLine, LoopStarts
    <3>2. QED
      BY <1>3, <3>1, LoopHeadMoves DEF LoopWaits
  <2>3. QED
    BY <2>1, <2>2
<1>5. Standing' = Standing
  BY <1>1, <1>4 DEF Standing
<1>6. LastTold' = LastTold /\ Points' = Points
  BY <1>1, <1>4, <1>5 DEF LastTold, Points
<1>7. Proc = "stopped" /\ Proc' = "running" /\ Goal' \in {"cont", "step"}
  BY <1>1, <1>4 DEF Proc, Goal
<1>8. QED
  BY <1>5, <1>6, <1>7 DEF Service!Resume

(* The commands on the table.                                                *)
LEMMA BreakServes ==
    ASSUME NEW Before, NEW Inner, ServiceSession(Before, Inner), ServiceInv(Before, Inner),
           NEW a \in BreakAt, Break(a)
    PROVE  Service!Break
<1>1. /\ loc = "prompt" /\ state = "STOPPED" /\ bps' = Append(bps, BpAt(code, a))
      /\ UNCHANGED <<pc, loc, state>>
      /\ \A i \in DOMAIN bps : bps[i].addr # a
  BY DEF Break, StillStopped, ServiceSession, PlainSession
<1>2. bps \in Seq(Bp) /\ code \in Text /\ a \in Insn
  BY SessionAssumption DEF ServiceInv, SoleInv, Inv, TypeOK, DebuggeeTypeOK, Text
<1>3. BpAt(code, a) \in Bp /\ BpAt(code, a).addr = a /\ BpAt(code, a).enabled
  BY <1>2 DEF BpAt, Bp, Text
<1>4. /\ DOMAIN bps' = DOMAIN bps \cup {Len(bps) + 1}
      /\ \A i \in DOMAIN bps : bps'[i] = bps[i]
      /\ bps'[Len(bps) + 1] = BpAt(code, a)
  <2>1. Len(bps) \in Nat /\ DOMAIN bps = 1 .. Len(bps)
    BY <1>2
  <2>2. QED
    BY <1>1, <1>2, <1>3, <2>1, AppendProperties
<1>5. Points' = Points \cup {a}
  BY <1>1, <1>3, <1>4 DEF Points
<1>6. a \notin Points
  BY <1>1 DEF Points
<1>7. Standing' = Standing
  BY <1>1 DEF Standing
<1>8. DisabledAt(Standing, bps') <=> DisabledAt(Standing, bps)
  BY <1>3, <1>4 DEF DisabledAt
<1>9. LastTold' = LastTold
  BY <1>1, <1>7, <1>8 DEF LastTold
<1>10. Proc = "stopped" /\ Proc' = Proc /\ Goal' = Goal
  BY <1>1 DEF Proc, Goal
<1>11. QED
  BY <1>2, <1>5, <1>6, <1>7, <1>9, <1>10 DEF Service!Break

LEMMA DeleteServes ==
    ASSUME NEW Before, NEW Inner, ServiceInv(Before, Inner),
           DelAll \/ \E i \in DOMAIN bps : Del(i)
    PROVE  Service!Delete
<1>1. loc = "prompt" /\ UNCHANGED <<pc, loc, state>>
  BY DEF DelAll, Del, StillStopped
<1>2. state # "RUNNING" /\ state \in {"IDLE", "STOPPED"} /\ bps \in Table /\ Distinct(bps)
  BY <1>1 DEF ServiceInv, SoleInv, Inv, TypeOK, Guarding, TrapInv, Table
<1>3. \A j \in DOMAIN bps' : \E k \in DOMAIN bps : bps'[j] = bps[k]
  <2>1. CASE DelAll
    BY <2>1, EmptyTable DEF DelAll
  <2>2. ASSUME NEW i \in DOMAIN bps, Del(i)
        PROVE  \A j \in DOMAIN bps' : \E k \in DOMAIN bps : bps'[j] = bps[k]
    BY <1>2, <2>2, DeletedEntries DEF Del
  <2>3. QED
    BY <2>1, <2>2
<1>4. Standing' = Standing
  BY <1>1 DEF Standing
<1>5. Points' \subseteq Points
  BY <1>1, <1>3 DEF Points
<1>6. LastTold' = IF LastTold \in Points' THEN LastTold ELSE 0
  <2>1. CASE LastTold = 0
    <3>1. state # "IDLE" => Standing # 0 \/ LastTold' = 0
      BY <1>1, <1>4 DEF LastTold
    <3>2. state # "IDLE" /\ Standing # 0 => ~DisabledAt(Standing, bps)
      BY <2>1 DEF LastTold
    <3>3. ~DisabledAt(Standing, bps) => ~DisabledAt(Standing, bps')
      BY <1>3 DEF DisabledAt
    <3>4. QED
      BY <1>1, <1>4, <2>1, <3>1, <3>2, <3>3 DEF LastTold
  <2>2. CASE LastTold # 0
    <3>1. state # "IDLE" /\ DisabledAt(Standing, bps) /\ LastTold = Standing
      BY <2>2 DEF LastTold
    <3>2. Standing \in Points' <=> DisabledAt(Standing, bps')
      <4>1. DisabledAt(Standing, bps') => Standing \in Points'
        BY <1>1 DEF DisabledAt, Points
      <4>2. ASSUME Standing \in Points' PROVE DisabledAt(Standing, bps')
        <5>1. PICK j \in DOMAIN bps' : bps'[j].addr = Standing
          BY <1>1, <4>2 DEF Points
        <5>2. PICK k \in DOMAIN bps : bps'[j] = bps[k]
          BY <1>3
        <5>3. ~bps[k].enabled
          BY <1>2, <3>1, <5>1, <5>2 DEF Distinct, DisabledAt
        <5>4. QED
          BY <5>1, <5>2, <5>3 DEF DisabledAt
      <4>3. QED
        BY <4>1, <4>2
    <3>3. QED
      BY <1>1, <1>4, <3>1, <3>2 DEF LastTold
  <2>3. QED
    BY <2>1, <2>2
<1>7. Proc # "running" /\ Proc' = Proc /\ Goal' = Goal
  BY <1>1, <1>2 DEF Proc, Goal
<1>8. QED
  BY <1>4, <1>5, <1>6, <1>7 DEF Service!Delete

(* kill and quit.                                                            *)
LEMMA StoppedServes ==
    ASSUME NEW Before, NEW Inner, ServiceInv(Before, Inner), Kill \/ Quit
    PROVE  Service!Kill \/ UNCHANGED Service!service
<1>1. loc = "prompt" /\ NoProcess /\ loc' \in {"prompt", "exited"}
  BY DEF Kill, Quit, Stopped
<1>2. state \in {"IDLE", "STOPPED"} /\ bps \in Table
  BY <1>1 DEF ServiceInv, SoleInv, Inv, TypeOK, Guarding, Table
<1>3. state' = "IDLE" /\ bps' = AllDisabled(bps)
  BY <1>1 DEF NoProcess
<1>4. SameAddresses(bps', bps)
  BY <1>2, <1>3, AllDisabledEntries
<1>5. Points' = Points
  BY <1>1, <1>4 DEF Points, SameAddresses
<1>6. Proc' = "none" /\ Goal' = Goal /\ Standing' = Start /\ LastTold' = 0
  BY <1>2, <1>3 DEF Proc, Goal, Standing, LastTold
<1>7. CASE state = "STOPPED"
  <2>1. Proc = "stopped"
    BY <1>7 DEF Proc
  <2>2. QED
    BY <1>5, <1>6, <2>1 DEF Service!Kill
<1>8. CASE state = "IDLE"
  <2>1. Proc = "none" /\ Standing = Start /\ LastTold = 0
    BY <1>8 DEF Proc, Standing, LastTold
  <2>2. QED
    BY <1>5, <1>6, <2>1 DEF Service!service
<1>9. QED
  BY <1>2, <1>7, <1>8

(* The commands the service does not see.                                    *)
LEMMA StillServes ==
    ASSUME UNCHANGED <<pc, bps, state>>, loc' # "exec", loc # "exec", state # "RUNNING"
    PROVE  UNCHANGED Service!service
<1>1. Standing' = Standing /\ Proc' = Proc /\ Goal' = Goal /\ Points' = Points
  BY DEF Standing, Proc, Goal, Points
<1>2. LastTold' = LastTold
  BY <1>1 DEF LastTold
<1>3. QED
  BY <1>1, <1>2 DEF Service!service

LEMMA ServiceMoves ==
    ASSUME NEW Before, NEW Inner, ServiceSession(Before, Inner), ServiceInv(Before, Inner),
           [Next]_vars
    PROVE  [Service!Next]_(Service!service)
<1>1. CASE \E t \in Thread : Program(t)
  BY <1>1, ProgramServes DEF Service!Next
<1>2. CASE Handler
  <2>1. ~ExecFailed
    BY DEF ExecFailed, ServiceSession
  <2>2. QED
    BY <1>2, <2>1, ExecStopServes, EntryStopServes, ReportedServes, LoopServes, OverServes,
       ExitServes DEF Handler, Service!Next
<1>3. CASE Command
  <2>1. CASE Run
    BY <2>1, RunServes DEF Service!Next
  <2>2. CASE Continue \/ Si \/ StepNoLine \/ Step \/ NextLine
    BY <2>2, ResumeServes DEF Service!Next
  <2>3. CASE \E a \in BreakAt : Break(a)
    BY <2>3, BreakServes DEF Service!Next
  <2>4. CASE DelAll \/ \E i \in DOMAIN bps : Del(i)
    BY <2>4, DeleteServes DEF Service!Next
  <2>5. CASE Kill \/ Quit
    BY <2>5, StoppedServes DEF Service!Next
  <2>6. CASE (\E t \in Thread : SelectThread(t) \/ LockTo(t)) \/ Unlock \/ Regs \/ Eof
    <3>1. loc = "prompt" /\ loc' # "exec" /\ UNCHANGED <<pc, bps, state>>
      BY <2>6 DEF SelectThread, LockTo, Unlock, Regs, Eof, StillStopped, debuggee, Breakpoints
    <3>2. state # "RUNNING"
      BY <3>1 DEF ServiceInv, SoleInv, Inv, Guarding
    <3>3. QED
      BY <3>1, <3>2, StillServes
  <2>7. CASE FrameUp \/ SetPc
    BY <2>7 DEF FrameUp, SetPc, ServiceSession, PlainSession
  <2>8. QED
    BY <1>3, <2>1, <2>2, <2>3, <2>4, <2>5, <2>6, <2>7 DEF Command
<1>4. CASE Interrupt
  BY <1>4 DEF Interrupt, ServiceSession, PlainSession
<1>5. CASE UNCHANGED vars
  <2>1. UNCHANGED <<pc, bps, state, loc, saved>>
    BY <1>5 DEF vars, debuggee, Breakpoints
  <2>2. Standing' = Standing /\ Proc' = Proc /\ Goal' = Goal /\ Points' = Points
    BY <2>1 DEF Standing, Proc, Goal, Points
  <2>3. LastTold' = LastTold
    BY <2>1, <2>2 DEF LastTold
  <2>4. QED
    BY <2>2, <2>3 DEF Service!service
<1>6. QED
  BY <1>1, <1>2, <1>3, <1>4, <1>5 DEF Next, Ended

LEMMA ServiceStarts == Init => Service!Init
<1> SUFFICES ASSUME Init PROVE Service!Init
  OBVIOUS
<1>1. /\ state = "RUNNING" /\ loc = "exec" /\ Spot = Start /\ Start \in Insn
      /\ bps = <<>> /\ saved = <<>>
  BY DebuggeeAssumption DEF Init
<1>2. Proc = "running" /\ Goal = "main" /\ Standing = Start
  BY <1>1 DEF Proc, Goal, Standing
<1>3. Points = {} /\ LastTold = 0
  BY <1>1, EmptyTable DEF Points, LastTold, DisabledAt
<1>4. QED
  BY <1>2, <1>3 DEF Service!Init

(* The session of a one-threaded program is a DebugService: with its traps,  *)
(* its lifted breakpoints, the step off them and the setting again it        *)
(* executes every instruction once and in the program's order, passes no     *)
(* breakpoint the user was not told of, and continue ends at a breakpoint or *)
(* with the process, for every program, table, line table and bound          *)
(* (debugger.c with breakpoint.c).                                           *)
THEOREM ServiceImplemented ==
    ASSUME NEW Before, NEW Inner, ServiceSession(Before, Inner)
    PROVE  Spec => ImplementsService
<1>1. Init => ServiceInv(Before, Inner)
  BY ServiceInit
<1>2. ServiceInv(Before, Inner) /\ [Next]_vars => ServiceInv(Before, Inner)'
  BY ServiceStep
<1>3. ServiceInv(Before, Inner) /\ [Next]_vars => [Service!Next]_(Service!service)
  BY ServiceMoves
<1>4. QED
  BY <1>1, <1>2, <1>3, ServiceStarts, PTL DEF Spec, ImplementsService, Service!Spec
===============================================================================
