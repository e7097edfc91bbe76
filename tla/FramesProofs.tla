------------------------------ MODULE FramesProofs ------------------------------
(***************************************************************************)
(* Proofs about Frames: tb ends in any memory, and on an undamaged stack   *)
(* up puts the thread where the innermost call goes on.                    *)
(***************************************************************************)
EXTENDS Frames, SequenceTheorems, TLAPS

(* The walk: what makes NoFrameTwice inductive. *)
WalkInv ==
    /\ NoFrameTwice
    /\ shown # <<>> => shown[1].fp = 0
    /\ tb = "walking" => shown # <<>>

CallOK(i) ==
    /\ 1 < calls[i].sp /\ calls[i].sp <= calls[i].fp /\ calls[i].fp < Root
    /\ stack[calls[i].sp - 1] = calls[i].pc

(* The frame of the caller before is the one whose pointer is saved. *)
LinkOK(i) ==
    /\ calls[i].fp = calls[i - 1].sp - 2
    /\ stack[calls[i].fp] = calls[i - 1].fp
    /\ Behind(calls[i].pc)

Base == calls[1].fp = Root - 1 /\ calls[1].pc = StartRet /\ stack[Root - 1] = 0

Top == calls[Len(calls)]

(* The registers, by how far the innermost function has got. *)
TopOK ==
    \/ Entered(rip) /\ rsp = Top.sp - 1 /\ rbp = Top.fp
    \/ Pushed(rip) /\ rsp = Top.sp - 2 /\ rbp = Top.fp /\ rsp > 0 /\ stack[rsp] = Top.fp
    \/ Settled(rip) /\ rbp = Top.sp - 2 /\ stack[rbp] = Top.fp /\ 0 < rsp /\ rsp <= rbp
    \/ Left(rip) /\ rsp = Top.sp - 1 /\ rbp = Top.fp

ChainOK ==
    /\ \A i \in 1 .. Len(calls) : CallOK(i)
    /\ \A i \in 2 .. Len(calls) : LinkOK(i)
    /\ \A i, j \in 1 .. Len(calls) : i < j => calls[j].sp <= calls[i].sp - 2

StackInv ==
    intact => IF calls = <<>> THEN rip = StartRet ELSE ChainOK /\ Base /\ TopOK
-------------------------------------------------------------------------------
USE DEF framesVars, thread, walk

(* The registers, the stack and the walk start in the sets of FramesTypeOK.  *)
LEMMA FramesInitType == FramesInit => FramesTypeOK
<1> SUFFICES ASSUME FramesInit PROVE FramesTypeOK
  OBVIOUS
<1>1. {rip, rbp, rsp, tbfp} \subseteq Nat
  BY FramesAssumption DEF FramesInit
<1>2. stack \in [Words -> Nat]
  BY FramesAssumption DEF FramesInit, Words
<1>3. calls \in Seq([pc : Nat, fp : Nat, sp : Nat])
  <2>1. [pc |-> StartRet, fp |-> rbp, sp |-> rsp + 1] \in [pc : Nat, fp : Nat, sp : Nat]
    BY <1>1, FramesAssumption
  <2> QED BY <2>1 DEF FramesInit
<1>4. shown \in Seq([pc : Nat, fp : Nat]) /\ tb \in {"none", "walking", "done"} /\ intact \in BOOLEAN
  BY DEF FramesInit
<1> QED BY <1>1, <1>2, <1>3, <1>4 DEF FramesTypeOK

(* What Append and the loss of the last element do. *)
LEMMA Appended ==
    ASSUME NEW S, NEW s \in Seq(S), NEW e \in S
    PROVE  /\ Append(s, e) \in Seq(S) /\ Append(s, e) # <<>>
           /\ Len(Append(s, e)) = Len(s) + 1
           /\ Append(s, e)[Len(s) + 1] = e
           /\ \A i \in 1 .. Len(s) : Append(s, e)[i] = s[i]
OBVIOUS

LEMMA Popped ==
    ASSUME NEW S, NEW s \in Seq(S), s # <<>>
    PROVE  /\ SubSeq(s, 1, Len(s) - 1) \in Seq(S)
           /\ Len(SubSeq(s, 1, Len(s) - 1)) = Len(s) - 1
           /\ \A i \in 1 .. Len(s) - 1 : SubSeq(s, 1, Len(s) - 1)[i] = s[i]
<1>1. Len(s) \in Nat \ {0} /\ \A i \in 1 .. Len(s) - 1 : s[i] \in S
  OBVIOUS
<1>2. 1 \in Int /\ Len(s) - 1 \in Int
  BY <1>1
<1>3. /\ SubSeq(s, 1, Len(s) - 1) \in Seq(S)
      /\ Len(SubSeq(s, 1, Len(s) - 1)) = IF 1 <= Len(s) - 1 THEN Len(s) - 1 - 1 + 1 ELSE 0
      /\ \A i \in 1 .. Len(s) - 1 - 1 + 1 : SubSeq(s, 1, Len(s) - 1)[i] = s[1 + i - 1]
  BY <1>1, <1>2, SubSeqProperties
<1>4. Len(s) - 1 - 1 + 1 = Len(s) - 1 /\ \A i \in 1 .. Len(s) - 1 : 1 + i - 1 = i
  BY <1>1
<1>5. Len(SubSeq(s, 1, Len(s) - 1)) = Len(s) - 1
  BY <1>1, <1>3, <1>4
<1>6. ASSUME NEW i \in 1 .. Len(s) - 1 PROVE SubSeq(s, 1, Len(s) - 1)[i] = s[i]
  BY <1>3, <1>4
<1> QED BY <1>3, <1>5, <1>6

(* A word of the stack is a number, and stays one under a write. *)
LEMMA StackWithType ==
    ASSUME stack \in [Words -> Nat], NEW a, NEW v \in Nat
    PROVE  StackWith(a, v) \in [Words -> Nat]
BY DEF StackWith

(* The steps of the program keep the type of the registers and the stack.    *)
LEMMA ProgramType == FramesTypeOK /\ ProgramStep => FramesTypeOK'
<1> SUFFICES ASSUME FramesTypeOK, ProgramStep PROVE FramesTypeOK'
  OBVIOUS
<1> USE DEF FramesTypeOK
<1>0. tb' \in {"none", "walking", "done"} /\ tbfp' \in Nat /\ shown' \in Seq([pc : Nat, fp : Nat])
      /\ intact' \in BOOLEAN
  BY DEF ProgramStep, NoWalk
<1>1. CASE Prologue
  <2>1. rip' \in Nat /\ calls' = calls
    BY <1>1 DEF Prologue
  <2>2. CASE Entered(rip) /\ Push(rbp) /\ rip' = rip + 1 /\ rbp' = rbp /\ calls' = calls
    BY <1>0, <2>1, <2>2, StackWithType DEF Push
  <2>3. CASE Pushed(rip) /\ rbp' = rsp /\ rip' = rip + 1 /\ UNCHANGED <<rsp, stack, calls>>
    BY <1>0, <2>1, <2>3
  <2> QED BY <1>1, <2>2, <2>3 DEF Prologue
<1>2. CASE PushLocal
  <2>1. PICK v \in Junk : Push(v)
    BY <1>2 DEF PushLocal
  <2>2. v \in Nat
    BY FramesAssumption
  <2> QED BY <1>0, <1>2, <2>1, <2>2, StackWithType DEF PushLocal, Push
<1>3. CASE Call
  <2>1. rip' \in Nat /\ rip + 1 \in Nat
    BY <1>3, FramesAssumption DEF Call
  <2>2. rsp' \in Nat /\ stack' \in [Words -> Nat]
    BY <1>3, <2>1, StackWithType DEF Call, Push
  <2>3. calls' \in Seq([pc : Nat, fp : Nat, sp : Nat])
    <3>1. [pc |-> rip + 1, fp |-> rbp, sp |-> rsp] \in [pc : Nat, fp : Nat, sp : Nat]
      BY <2>1
    <3> QED BY <1>3, <3>1 DEF Call
  <2> QED BY <1>0, <1>3, <2>1, <2>2, <2>3 DEF Call
<1>4. CASE Leave
  <2>1. rip' \in Nat /\ rsp' \in Nat /\ rbp' \in Nat
    BY <1>4 DEF Leave, InStack
  <2> QED BY <1>0, <1>4, <2>1 DEF Leave
<1>5. CASE Ret
  <2>1. rip' \in Nat /\ rsp' \in Nat
    BY <1>5 DEF Ret, InStack
  <2>2. calls' \in Seq([pc : Nat, fp : Nat, sp : Nat])
    <3>1. calls \in Seq([pc : Nat, fp : Nat, sp : Nat]) /\ calls # <<>>
      BY <1>5 DEF Ret
    <3>2. SubSeq(calls, 1, Len(calls) - 1) \in Seq([pc : Nat, fp : Nat, sp : Nat])
      BY ONLY <3>1, Popped
    <3> QED BY <1>5, <3>2 DEF Ret
  <2> QED BY <1>0, <1>5, <2>1, <2>2 DEF Ret
<1> QED BY <1>1, <1>2, <1>3, <1>4, <1>5 DEF ProgramStep

(* So do a stray write, up and the walk of tb. *)
LEMMA FramesNextType == FramesTypeOK /\ [FramesNext]_framesVars => FramesTypeOK'
<1> SUFFICES ASSUME FramesTypeOK, [FramesNext]_framesVars PROVE FramesTypeOK'
  OBVIOUS
<1> USE DEF FramesTypeOK
<1>1. CASE ProgramStep
  BY <1>1, ProgramType
<1>2. CASE Smash
  <2>1. PICK a \in Words, v \in Junk : stack' = StackWith(a, v)
    BY <1>2 DEF Smash
  <2>2. stack' \in [Words -> Nat]
    BY <2>1, StackWithType, FramesAssumption
  <2>3. UNCHANGED <<rip, rbp, rsp, calls>> /\ intact' \in BOOLEAN
    BY <1>2 DEF Smash
  <2>4. tb' \in {"none", "walking", "done"} /\ tbfp' \in Nat
        /\ shown' \in Seq([pc : Nat, fp : Nat])
    BY <1>2 DEF Smash, NoWalk
  <2> QED BY <2>2, <2>3, <2>4
<1>3. CASE CdbgFrameUp
  <2>1. rip' \in Nat /\ rbp' \in Nat /\ rsp' \in Nat
    BY <1>3 DEF CdbgFrameUp, UpByRecord, UpByTop, ByRecord, InStack
  <2>2. calls' \in Seq([pc : Nat, fp : Nat, sp : Nat])
    BY <1>3, Popped DEF CdbgFrameUp
  <2>3. intact' \in BOOLEAN /\ stack' = stack
    BY <1>3 DEF CdbgFrameUp
  <2> QED BY <1>3, <2>1, <2>2, <2>3 DEF CdbgFrameUp, NoWalk
<1>4. CASE TbBegin
  <2>1. [pc |-> rip, fp |-> 0] \in [pc : Nat, fp : Nat]
    OBVIOUS
  <2>2. shown' \in Seq([pc : Nat, fp : Nat])
    BY <1>4, <2>1 DEF TbBegin
  <2> QED BY <1>4, <2>2 DEF TbBegin
<1>5. CASE TbNext
  <2>1. stack[tbfp] \in Nat /\ stack[tbfp + 1] \in Nat
    BY <1>5 DEF TbNext, TbMore, HasNext, InStack
  <2>2. [pc |-> stack[tbfp + 1], fp |-> tbfp] \in [pc : Nat, fp : Nat]
    BY <2>1
  <2>3. shown' \in Seq([pc : Nat, fp : Nat])
    BY <1>5, <2>2 DEF TbNext
  <2> QED BY <1>5, <2>1, <2>3 DEF TbNext
<1>6. CASE TbEnd
  BY <1>6 DEF TbEnd
<1>7. CASE UNCHANGED framesVars
  BY <1>7
<1> QED BY <1>1, <1>2, <1>3, <1>4, <1>5, <1>6, <1>7 DEF FramesNext
-------------------------------------------------------------------------------
(* A walk that is dropped leaves nothing to say. *)
LEMMA NoWalkInv == NoWalk => WalkInv'
BY FramesAssumption DEF NoWalk, WalkInv, NoFrameTwice

(* A longer walk, to which the line e of a record above the others is added. *)
WalkAppended(s, fp) ==
    /\ Len(s) <= MaxFrames /\ s # <<>> /\ s[1].fp = 0
    /\ \A k \in DOMAIN s : k > 1 => s[k - 1].fp < s[k].fp /\ s[k].fp < fp

LEMMA WalkAppend ==
    ASSUME NEW s \in Seq([pc : Nat, fp : Nat]), s # <<>>, NEW e \in [pc : Nat, fp : Nat],
           NEW fp \in Nat, NEW next \in Nat, 0 < fp, fp < next, e.fp = fp,
           Len(s) < MaxFrames, s[1].fp = 0,
           \A k \in DOMAIN s : k > 1 => s[k - 1].fp < s[k].fp /\ s[k].fp < fp
    PROVE  WalkAppended(Append(s, e), next)
<1> DEFINE t == Append(s, e)
<1>1. /\ Len(s) \in Nat \ {0} /\ DOMAIN s = 1 .. Len(s)
      /\ \A k \in 1 .. Len(s) : s[k].fp \in Nat
      /\ \A k \in 1 .. Len(s) : k > 1 => s[k - 1].fp < s[k].fp /\ s[k].fp < fp
  <2>1. Len(s) \in Nat \ {0} /\ DOMAIN s = 1 .. Len(s)
    OBVIOUS
  <2>2. ASSUME NEW k \in 1 .. Len(s) PROVE s[k].fp \in Nat
    <3>1. s[k] \in [pc : Nat, fp : Nat]
      BY ElementOfSeq
    <3> QED BY <3>1
  <2>3. \A k \in 1 .. Len(s) : k > 1 => s[k - 1].fp < s[k].fp /\ s[k].fp < fp
    BY <2>1
  <2> QED BY <2>1, <2>2, <2>3
<1>2. /\ t \in Seq([pc : Nat, fp : Nat]) /\ t # <<>> /\ Len(t) = Len(s) + 1
      /\ t[Len(s) + 1] = e /\ \A k \in 1 .. Len(s) : t[k] = s[k]
  BY Appended
<1>3. DOMAIN t = 1 .. Len(s) + 1
  BY <1>2
<1> HIDE DEF t
<1>4. Len(t) <= MaxFrames
  BY <1>1, <1>2, FramesAssumption
<1>5. t[1].fp = 0
  BY <1>1, <1>2
<1>6. s[Len(s)].fp < fp
  BY <1>1
<1>7. ASSUME NEW k \in 1 .. Len(s) + 1, k > 1
      PROVE  t[k - 1].fp < t[k].fp /\ t[k].fp < next
  <2>1. CASE k <= Len(s)
    <3>1. s[k - 1].fp < s[k].fp /\ s[k].fp < fp /\ s[k].fp \in Nat
      <4>1. k \in 1 .. Len(s) /\ k > 1
        BY <1>1, <1>7, <2>1
      <4> QED BY ONLY <1>1, <4>1
    <3>2. k - 1 \in 1 .. Len(s) /\ k \in 1 .. Len(s)
      BY <1>1, <1>7, <2>1
    <3>3. t[k - 1] = s[k - 1] /\ t[k] = s[k]
      BY <1>2, <3>2
    <3> QED BY <3>1, <3>3
  <2>2. CASE k = Len(s) + 1
    <3>1. k - 1 = Len(s) /\ Len(s) \in 1 .. Len(s)
      BY <1>1, <2>2
    <3>2. t[k - 1] = s[Len(s)] /\ t[k] = e
      BY <1>2, <2>2, <3>1
    <3> QED BY <1>6, <3>2
  <2> QED BY <1>1, <1>7, <2>1, <2>2
<1>8. WalkAppended(t, next)
  BY <1>2, <1>3, <1>4, <1>5, <1>7 DEF WalkAppended
<1> QED BY <1>8 DEF t

(* Each record tb takes lies above the one before. *)
LEMMA WalkStep == FramesTypeOK /\ WalkInv /\ [FramesNext]_framesVars => WalkInv'
<1> SUFFICES ASSUME FramesTypeOK, WalkInv, [FramesNext]_framesVars PROVE WalkInv'
  OBVIOUS
<1> USE DEF FramesTypeOK
<1>1. CASE ProgramStep \/ Smash \/ CdbgFrameUp
  BY <1>1, NoWalkInv DEF ProgramStep, Smash, CdbgFrameUp
<1>2. CASE TbBegin
  BY <1>2, FramesAssumption DEF TbBegin, WalkInv, NoFrameTwice
<1>3. CASE TbNext
  <2> DEFINE e == [pc |-> stack[tbfp + 1], fp |-> tbfp]
  <2>1. /\ tbfp \in Nat /\ tbfp' \in Nat /\ tbfp < tbfp' /\ 0 < tbfp
        /\ Len(shown) < MaxFrames /\ shown' = Append(shown, e)
    BY <1>3 DEF TbNext, TbMore, HasNext, InStack
  <2>2. e \in [pc : Nat, fp : Nat] /\ e.fp = tbfp
    BY <1>3 DEF TbNext, TbMore, HasNext, InStack
  <2>3. shown \in Seq([pc : Nat, fp : Nat]) /\ shown # <<>>
    BY <1>3 DEF TbNext, WalkInv
  <2>4. shown[1].fp = 0 /\ \A k \in DOMAIN shown :
          k > 1 => shown[k - 1].fp < shown[k].fp /\ shown[k].fp < tbfp
    BY <2>3 DEF WalkInv, NoFrameTwice
  <2> HIDE DEF e
  <2>5. WalkAppended(shown', tbfp')
    BY ONLY <2>1, <2>2, <2>3, <2>4, WalkAppend, FramesAssumption
  <2> QED BY <2>5 DEF WalkInv, NoFrameTwice, WalkAppended
<1>4. CASE TbEnd
  BY <1>4 DEF TbEnd, WalkInv, NoFrameTwice
<1>5. CASE UNCHANGED framesVars
  BY <1>5 DEF WalkInv, NoFrameTwice
<1> QED BY <1>1, <1>2, <1>3, <1>4, <1>5 DEF FramesNext

-------------------------------------------------------------------------------
(* The calls as numbers, and what the chain says of any two of them. *)
Numbers ==
    /\ Len(calls) \in Nat
    /\ \A i \in 1 .. Len(calls) :
         calls[i].pc \in Nat /\ calls[i].fp \in Nat /\ calls[i].sp \in Nat

LEMMA CallNumbers == FramesTypeOK => Numbers
<1> SUFFICES ASSUME calls \in Seq([pc : Nat, fp : Nat, sp : Nat]) PROVE Numbers
  BY DEF FramesTypeOK
<1>1. Len(calls) \in Nat
  OBVIOUS
<1>2. ASSUME NEW i \in 1 .. Len(calls)
      PROVE  calls[i].pc \in Nat /\ calls[i].fp \in Nat /\ calls[i].sp \in Nat
  <2>1. calls[i] \in [pc : Nat, fp : Nat, sp : Nat]
    BY ElementOfSeq
  <2> QED BY <2>1
<1> QED BY <1>1, <1>2 DEF Numbers

(* A pc is in one place of one function, and StartRet in none. *)
LEMMA OnePlace ==
    ASSUME NEW p \in Nat
    PROVE  /\ Entered(p) => ~Pushed(p) /\ ~InBody(p) /\ ~Behind(p) /\ ~Left(p)
           /\ Pushed(p) => ~InBody(p) /\ ~Behind(p) /\ ~Left(p)
           /\ InBody(p) => ~Behind(p) /\ ~Left(p)
           /\ Behind(p) => ~Left(p)
BY FramesAssumption, CodeAssumption DEF Entered, Pushed, InBody, Behind, Left

LEMMA StartIsOutside ==
    /\ ~Entered(StartRet) /\ ~Pushed(StartRet) /\ ~InBody(StartRet)
    /\ ~Behind(StartRet) /\ ~Left(StartRet)
BY FramesAssumption, CodeAssumption DEF Entered, Pushed, InBody, Behind, Left

(* What is known of the innermost call. *)
LEMMA TopFacts ==
    ASSUME Numbers, calls # <<>>, Len(calls) # 0, ChainOK, Base
    PROVE  /\ Len(calls) \in Nat \ {0}
           /\ Top.pc \in Nat /\ Top.fp \in Nat /\ Top.sp \in Nat
           /\ 1 < Top.sp /\ Top.sp <= Top.fp /\ Top.fp < Root
           /\ stack[Top.sp - 1] = Top.pc
           /\ \A i \in 1 .. Len(calls) : Top.sp <= calls[i].sp
           /\ IsReturn(Top.pc)
<1>1. Len(calls) \in Nat \ {0} /\ Len(calls) \in 1 .. Len(calls)
  BY DEF Numbers
<1>2. /\ Top.pc \in Nat /\ Top.fp \in Nat /\ Top.sp \in Nat
      /\ 1 < Top.sp /\ Top.sp <= Top.fp /\ Top.fp < Root
      /\ stack[Top.sp - 1] = Top.pc
  BY <1>1 DEF Numbers, ChainOK, CallOK, Top
<1>3. ASSUME NEW i \in 1 .. Len(calls) PROVE Top.sp <= calls[i].sp
  <2>1. CASE i < Len(calls)
    <3>1. Top.sp <= calls[i].sp - 2 /\ calls[i].sp \in Nat
      BY <1>1, <2>1 DEF ChainOK, Top, Numbers
    <3> QED BY <1>2, <3>1
  <2>2. CASE i = Len(calls)
    BY <1>2, <2>2 DEF Top
  <2> QED BY <1>1, <2>1, <2>2
<1>4. IsReturn(Top.pc)
  <2>1. CASE Len(calls) = 1
    BY <2>1, CodeAssumption DEF Base, Top, IsReturn
  <2>2. CASE Len(calls) > 1
    <3>1. Len(calls) \in 2 .. Len(calls)
      BY <1>1, <2>2
    <3>2. Behind(Top.pc)
      BY <3>1 DEF ChainOK, LinkOK, Top
    <3> QED BY <1>2, <3>2, CodeAssumption, FramesAssumption DEF Behind, IsReturn
  <2>3. Len(calls) = 1 \/ Len(calls) > 1
    <3>1. \A n \in Nat \ {0} : n = 1 \/ n > 1
      OBVIOUS
    <3> QED BY <1>1, <3>1, Zenon
  <2> QED BY <2>1, <2>2, <2>3
<1> QED BY <1>1, <1>2, <1>3, <1>4

(* A word below the return address of the innermost call is no part of what  *)
(* the chain rests on.                                                       *)
LEMMA ChainKept ==
    ASSUME Numbers, calls # <<>>, Len(calls) # 0, ChainOK, Base, FramesTypeOK,
           NEW a \in Nat, a < Top.sp - 1, NEW v, stack' = StackWith(a, v), calls' = calls
    PROVE  ChainOK' /\ Base'
<1>1. ASSUME NEW w \in Words, w >= Top.sp - 1 PROVE stack'[w] = stack[w]
  <2>1. w # a
    <3>1. Top.sp \in Nat
      BY TopFacts
    <3>2. w \in Nat
      BY FramesAssumption DEF Words
    <3> QED BY <1>1, <3>1, <3>2
  <2> QED BY <2>1 DEF StackWith
<1>2. ASSUME NEW i \in 1 .. Len(calls)
      PROVE  /\ calls[i].fp \in Words /\ calls[i].fp >= Top.sp - 1
             /\ calls[i].sp - 1 \in Words /\ calls[i].sp - 1 >= Top.sp - 1
  <2>1. calls[i].sp \in Nat /\ calls[i].fp \in Nat
    BY DEF Numbers
  <2>2. 1 < calls[i].sp /\ calls[i].sp <= calls[i].fp /\ calls[i].fp < Root
    BY DEF ChainOK, CallOK
  <2>3. Top.sp <= calls[i].sp /\ Top.sp \in Nat
    BY TopFacts
  <2> QED BY <2>1, <2>2, <2>3, FramesAssumption DEF Words
<1>3. \A i \in 1 .. Len(calls) : CallOK(i)'
  BY <1>1, <1>2 DEF ChainOK, CallOK
<1>4. \A i \in 2 .. Len(calls) : LinkOK(i)'
  <2> SUFFICES ASSUME NEW i \in 2 .. Len(calls) PROVE LinkOK(i)'
    OBVIOUS
  <2>1. i \in 1 .. Len(calls)
    BY DEF Numbers
  <2>2. stack'[calls[i].fp] = stack[calls[i].fp]
    BY <1>1, <1>2, <2>1
  <2> QED BY <2>2 DEF ChainOK, LinkOK
<1>5. Base'
  <2>1. 1 \in 1 .. Len(calls)
    BY DEF Numbers
  <2>2. stack'[calls[1].fp] = stack[calls[1].fp]
    BY <1>1, <1>2, <2>1
  <2> QED BY <2>2 DEF Base
<1> QED BY <1>3, <1>4, <1>5 DEF ChainOK

(* A thread in a function of the program on an undamaged stack. *)
Sound == Numbers /\ calls # <<>> /\ Len(calls) # 0 /\ FramesTypeOK /\ ChainOK /\ Base /\ TopOK

LEMMA SoundTop ==
    ASSUME Sound
    PROVE  /\ Len(calls) \in Nat \ {0}
           /\ Top.pc \in Nat /\ Top.fp \in Nat /\ Top.sp \in Nat
           /\ 1 < Top.sp /\ Top.sp <= Top.fp /\ Top.fp < Root
           /\ stack[Top.sp - 1] = Top.pc
           /\ \A i \in 1 .. Len(calls) : Top.sp <= calls[i].sp
           /\ IsReturn(Top.pc)
           /\ rip \in Nat /\ rbp \in Nat /\ rsp \in Nat
BY TopFacts DEF Sound, FramesTypeOK

(* The prologue saves the frame pointer of the caller and makes the record. *)
LEMMA PrologueSound == Sound /\ Prologue => (ChainOK /\ Base /\ TopOK)'
<1> SUFFICES ASSUME Sound, Prologue PROVE (ChainOK /\ Base /\ TopOK)'
  OBVIOUS
<1>1. CASE Entered(rip) /\ Push(rbp) /\ rip' = rip + 1 /\ rbp' = rbp /\ calls' = calls
  <2>1. rsp = Top.sp - 1 /\ rbp = Top.fp
    BY <1>1, SoundTop, OnePlace DEF Sound, TopOK, Settled
  <2>2. /\ rsp - 1 \in Nat /\ rsp - 1 < Top.sp - 1 /\ rsp - 1 \in Words
        /\ stack' = StackWith(rsp - 1, rbp) /\ rsp' = rsp - 1
    BY <1>1, <2>1, SoundTop, FramesAssumption DEF Push, Words
  <2>3. ChainOK' /\ Base'
    BY <1>1, <2>2, ChainKept DEF Sound
  <2>4. Top' = Top
    BY <1>1 DEF Top
  <2>5. stack'[rsp'] = Top.fp
    BY <2>1, <2>2 DEF StackWith
  <2>6. Pushed(rip')
    <3>1. rip \in Nat
      BY SoundTop
    <3>2. rip' >= 1 /\ rip' - 1 = rip
      BY <1>1, <3>1
    <3>3. QED
      BY <1>1, <3>2 DEF Entered, Pushed
  <2>7. rsp' = Top.sp - 2 /\ rbp' = Top.fp /\ rsp' > 0
    BY <1>1, <2>1, <2>2, SoundTop DEF Push
  <2> QED BY <2>3, <2>4, <2>5, <2>6, <2>7 DEF TopOK
<1>2. CASE Pushed(rip) /\ rbp' = rsp /\ rip' = rip + 1 /\ UNCHANGED <<rsp, stack, calls>>
  <2>1. rsp = Top.sp - 2 /\ rbp = Top.fp /\ rsp > 0 /\ stack[rsp] = Top.fp
    BY <1>2, SoundTop, OnePlace DEF Sound, TopOK, Settled
  <2>2. ChainOK' /\ Base' /\ Top' = Top
    BY <1>2 DEF Sound, ChainOK, CallOK, LinkOK, Base, Top
  <2>3. Settled(rip')
    <3>1. rip \in Nat
      BY SoundTop
    <3>2. rip' >= 2 /\ rip' - 2 = rip - 1
      BY <1>2, <3>1 DEF Pushed
    <3>3. QED
      BY <1>2, <3>2 DEF Pushed, Settled, InBody
  <2> QED BY <1>2, <2>1, <2>2, <2>3, SoundTop DEF TopOK
<1> QED BY <1>1, <1>2 DEF Prologue

(* In a body the record is in place, however many locals lie below it. *)
LEMMA SoundSettled ==
    ASSUME Sound, Settled(rip)
    PROVE  rbp = Top.sp - 2 /\ stack[rbp] = Top.fp /\ 0 < rsp /\ rsp <= rbp
BY SoundTop, OnePlace DEF Sound, TopOK, Settled

LEMMA PushLocalSound == Sound /\ PushLocal => (ChainOK /\ Base /\ TopOK)'
<1> SUFFICES ASSUME Sound, PushLocal PROVE (ChainOK /\ Base /\ TopOK)'
  OBVIOUS
<1>1. Settled(rip) /\ rsp = rbp /\ UNCHANGED <<rip, rbp, calls>>
  BY DEF PushLocal, Settled
<1>2. PICK v \in Junk : Push(v)
  BY DEF PushLocal
<1>3. rbp = Top.sp - 2 /\ stack[rbp] = Top.fp /\ 0 < rsp /\ rsp <= rbp
  BY <1>1, SoundSettled
<1>4. /\ rsp - 1 \in Nat /\ rsp - 1 < Top.sp - 1 /\ rbp \in Words /\ 0 < rsp'
      /\ stack' = StackWith(rsp - 1, v) /\ rsp' = rsp - 1 /\ rsp' <= rbp /\ rsp - 1 # rbp
  <2>1. /\ rbp \in Nat /\ rsp \in Nat /\ Root \in Nat
        /\ Top.sp \in Nat /\ Top.fp \in Nat /\ Top.sp <= Top.fp /\ Top.fp < Root
    BY SoundTop, FramesAssumption
  <2>2. rsp > 1 /\ rsp' = rsp - 1 /\ stack' = StackWith(rsp - 1, v)
    BY <1>2 DEF Push
  <2>3. rbp \in Words
    BY <1>3, <2>1 DEF Words
  <2>4. rsp - 1 \in Nat /\ rsp - 1 < Top.sp - 1 /\ 0 < rsp' /\ rsp' <= rbp /\ rsp - 1 # rbp
    BY <1>3, <2>1, <2>2
  <2> QED BY <2>2, <2>3, <2>4
<1>5. ChainOK' /\ Base'
  BY <1>1, <1>4, ChainKept DEF Sound
<1>6. Top' = Top
  BY <1>1 DEF Top
<1>7. stack'[rbp] = Top.fp
  BY <1>3, <1>4 DEF StackWith
<1>8. Settled(rip')
  BY <1>1
<1> QED BY <1>1, <1>3, <1>4, <1>5, <1>6, <1>7, <1>8 DEF TopOK

LEMMA LeaveSound == Sound /\ Leave => (ChainOK /\ Base /\ TopOK)'
<1> SUFFICES ASSUME Sound, Leave PROVE (ChainOK /\ Base /\ TopOK)'
  OBVIOUS
<1>1. Settled(rip) /\ rsp' = rbp + 1 /\ rbp' = stack[rbp] /\ UNCHANGED <<stack, calls>>
  BY DEF Leave, Settled
<1>2. rbp = Top.sp - 2 /\ stack[rbp] = Top.fp
  BY <1>1, SoundSettled
<1>3. ChainOK' /\ Base' /\ Top' = Top
  BY <1>1 DEF Sound, ChainOK, CallOK, LinkOK, Base, Top
<1>4. Left(rip')
  <2>1. rip \in Nat
    BY SoundTop
  <2>2. CASE InBody(rip)
    BY <2>1, <2>2 DEF Leave, InBody, Left
  <2>3. CASE ~InBody(rip) /\ Behind(rip)
    BY <2>1, <2>3 DEF Leave, Behind, Left
  <2> QED BY <2>2, <2>3 DEF Leave
<1>5. rsp' = Top.sp - 1 /\ rbp' = Top.fp
  BY <1>1, <1>2, SoundTop
<1> QED BY <1>3, <1>4, <1>5 DEF TopOK

(* A call: its record becomes the innermost of the chain. *)
LEMMA CallSound == Sound /\ Call => calls' # <<>> /\ (ChainOK /\ Base /\ TopOK)'
<1> SUFFICES ASSUME Sound, Call PROVE calls' # <<>> /\ (ChainOK /\ Base /\ TopOK)'
  OBVIOUS
<1> DEFINE c == [pc |-> rip + 1, fp |-> rbp, sp |-> rsp]
<1>0. PICK n \in Nat \ {0} : n = Len(calls)
  BY SoundTop
<1>a. /\ rip \in Nat /\ rbp \in Nat /\ rsp \in Nat /\ Top.sp \in Nat /\ Top.fp \in Nat
      /\ 1 < Top.sp /\ Top.sp <= Top.fp /\ Top.fp < Root
      /\ Root \in Nat
  BY SoundTop, FramesAssumption
<1>1. Settled(rip) /\ rip' \in Entries /\ rbp' = rbp /\ calls' = Append(calls, c)
  BY DEF Call, Settled
<1>2. rbp = Top.sp - 2 /\ stack[rbp] = Top.fp /\ 0 < rsp /\ rsp <= rbp
  BY <1>1, SoundSettled
<1>3. /\ rsp > 1 /\ rsp' = rsp - 1 /\ stack' = StackWith(rsp - 1, rip + 1)
  BY DEF Call, Push
<1>4. /\ rsp - 1 \in Nat /\ rsp - 1 < Top.sp - 1 /\ rsp - 1 \in Words
      /\ rbp \in Words /\ rbp # rsp - 1
  BY ONLY <1>a, <1>2, <1>3 DEF Words
<1>5. /\ calls' # <<>> /\ n \in Nat \ {0} /\ Len(calls') = n + 1
      /\ calls'[n + 1] = c /\ \A i \in 1 .. n : calls'[i] = calls[i]
  <2>1. c \in [pc : Nat, fp : Nat, sp : Nat] /\ calls \in Seq([pc : Nat, fp : Nat, sp : Nat])
    BY SoundTop DEF Sound, FramesTypeOK
  <2> HIDE DEF c
  <2> QED BY <1>0, <1>1, <2>1, Appended
<1>6. c.pc = rip + 1 /\ c.fp = rbp /\ c.sp = rsp
  OBVIOUS
<1> HIDE DEF c
<1>7. ASSUME NEW w \in Words, w # rsp - 1 PROVE stack'[w] = stack[w]
  BY <1>3, <1>7 DEF StackWith
<1>8. stack'[rsp - 1] = rip + 1
  BY <1>3, <1>4 DEF StackWith
<1>9. \A i \in 1 .. Len(calls') : CallOK(i)'
  <2>1. ASSUME NEW i \in 1 .. n PROVE CallOK(i)'
    <3>1. /\ calls[i].sp \in Nat /\ calls[i].fp \in Nat /\ Top.sp <= calls[i].sp
          /\ 1 < calls[i].sp /\ calls[i].sp <= calls[i].fp /\ calls[i].fp < Root
          /\ stack[calls[i].sp - 1] = calls[i].pc
      BY <1>0, SoundTop DEF Sound, Numbers, ChainOK, CallOK
    <3>2. calls[i].sp - 1 \in Words /\ calls[i].sp - 1 # rsp - 1
      BY ONLY <1>a, <1>2, <1>3, <3>1 DEF Words
    <3>3. stack'[calls[i].sp - 1] = calls[i].pc /\ calls'[i] = calls[i]
      BY <3>1, <3>2, <1>7, <1>5
    <3> QED BY <3>1, <3>3 DEF CallOK
  <2>2. CallOK(n + 1)'
    <3>1. 1 < rsp /\ rsp <= rbp /\ rbp < Root
      BY ONLY <1>a, <1>2, <1>3
    <3> QED BY <1>5, <1>6, <1>8, <3>1 DEF CallOK
  <2>3. ASSUME NEW i \in 1 .. Len(calls') PROVE i \in 1 .. n \/ i = n + 1
    BY <1>5
  <2> QED BY <2>1, <2>2, <2>3
<1>10. \A i \in 2 .. Len(calls') : LinkOK(i)'
  <2>1. ASSUME NEW i \in 2 .. n PROVE LinkOK(i)'
    <3>1. i \in 1 .. n /\ i - 1 \in 1 .. n
      BY <1>5
    <3>2. /\ calls[i].fp \in Nat /\ calls[i].sp \in Nat /\ Top.sp <= calls[i].sp
          /\ calls[i].sp <= calls[i].fp /\ calls[i].fp < Root
      BY <1>0, <3>1, SoundTop DEF Sound, Numbers, ChainOK, CallOK
    <3>3. calls[i].fp \in Words /\ calls[i].fp # rsp - 1
      BY ONLY <1>a, <1>2, <1>3, <3>2 DEF Words
    <3>4. stack'[calls[i].fp] = stack[calls[i].fp] /\ calls'[i] = calls[i]
          /\ calls'[i - 1] = calls[i - 1]
      BY <3>1, <3>3, <1>5, <1>7
    <3>5. LinkOK(i)
      BY <1>0 DEF Sound, ChainOK
    <3> QED BY <3>4, <3>5 DEF LinkOK
  <2>2. LinkOK(n + 1)'
    <3>1. calls'[n + 1 - 1] = Top /\ calls'[n + 1] = c
      BY <1>0, <1>5 DEF Top
    <3>2. stack'[rbp] = Top.fp
      BY <1>2, <1>4, <1>7
    <3>3. Behind(rip + 1)
      BY SoundTop DEF Call, InBody, Behind
    <3> QED BY <1>2, <1>6, <3>1, <3>2, <3>3 DEF LinkOK
  <2>3. ASSUME NEW i \in 2 .. Len(calls') PROVE i \in 2 .. n \/ i = n + 1
    BY <1>5
  <2> QED BY <2>1, <2>2, <2>3
<1>11. \A i, j \in 1 .. Len(calls') : i < j => calls'[j].sp <= calls'[i].sp - 2
  <2> SUFFICES ASSUME NEW i \in 1 .. Len(calls'), NEW j \in 1 .. Len(calls'), i < j
               PROVE  calls'[j].sp <= calls'[i].sp - 2
    OBVIOUS
  <2>1. i \in 1 .. n /\ (j \in 1 .. n \/ j = n + 1)
    BY <1>5
  <2>2. CASE j \in 1 .. n
    BY <1>0, <1>5, <2>1, <2>2 DEF Sound, ChainOK
  <2>3. CASE j = n + 1
    <3>1. Top.sp <= calls[i].sp /\ calls[i].sp \in Nat
      BY <1>0, <2>1, SoundTop DEF Sound, Numbers
    <3>2. calls'[i] = calls[i] /\ calls'[j].sp = rsp
      BY <1>5, <1>6, <2>1, <2>3
    <3> QED BY <1>2, <3>1, <3>2, SoundTop
  <2> QED BY <2>1, <2>2, <2>3
<1>12. Base'
  <2>1. calls'[1] = calls[1] /\ calls[1].fp = Root - 1 /\ calls[1].pc = StartRet
        /\ stack[Root - 1] = 0
    BY <1>5 DEF Sound, Base
  <2>2. Root - 1 \in Words /\ Root - 1 # rsp - 1
    BY ONLY <1>a, <1>2, <1>3 DEF Words
  <2> QED BY <1>7, <2>1, <2>2 DEF Base
<1>13. TopOK'
  <2>1. Top' = c
    BY <1>5 DEF Top
  <2>2. Entered(rip')
    BY <1>1 DEF Entered
  <2> QED BY <1>1, <1>3, <1>6, <2>1, <2>2 DEF TopOK
<1> QED BY <1>5, <1>9, <1>10, <1>11, <1>12, <1>13 DEF ChainOK

(* Where the innermost call goes on: what a return and up leave behind. *)
Returned ==
    /\ rip' = Top.pc /\ rbp' = Top.fp /\ rsp' = Top.sp /\ stack' = stack
    /\ calls' = SubSeq(calls, 1, Len(calls) - 1)

LEMMA ReturnedSound ==
    Sound /\ Returned =>
        IF Len(calls) = 1 THEN calls' = <<>> /\ rip' = StartRet
        ELSE calls' # <<>> /\ (ChainOK /\ Base /\ TopOK)'
<1> SUFFICES ASSUME Sound, Returned
             PROVE  IF Len(calls) = 1 THEN calls' = <<>> /\ rip' = StartRet
                    ELSE calls' # <<>> /\ (ChainOK /\ Base /\ TopOK)'
  OBVIOUS
<1>0. PICK n \in Nat \ {0} : n = Len(calls)
  BY SoundTop
<1>1. /\ calls' \in Seq([pc : Nat, fp : Nat, sp : Nat]) /\ Len(calls') = n - 1
      /\ \A i \in 1 .. n - 1 : calls'[i] = calls[i]
  <2>1. calls \in Seq([pc : Nat, fp : Nat, sp : Nat]) /\ calls # <<>>
    BY DEF Sound, FramesTypeOK
  <2> QED BY <1>0, <2>1, Popped DEF Returned
<1>2. stack' = stack
  BY DEF Returned
<1>3. CASE n = 1
  <2>1. calls' = <<>>
    BY <1>1, <1>3
  <2>2. Top.pc = StartRet
    BY <1>0, <1>3 DEF Sound, Base, Top
  <2> QED BY <1>0, <1>3, <2>1, <2>2 DEF Returned
<1>4. CASE n # 1
  <2>1. n - 1 \in Nat \ {0} /\ n - 1 \in 1 .. n - 1 /\ 1 \in 1 .. n - 1 /\ n \in 2 .. n
        /\ n - 1 \in 1 .. n
    BY <1>4
  <2>2. calls' # <<>>
    BY <1>1, <2>1
  <2>3. \A i \in 1 .. Len(calls') : CallOK(i)'
    <3>1. ASSUME NEW i \in 1 .. n - 1 PROVE CallOK(i)'
      <4>1. CallOK(i) /\ calls'[i] = calls[i]
        BY <1>0, <1>1 DEF Sound, ChainOK
      <4> QED BY <1>2, <4>1 DEF CallOK
    <3> QED BY <1>1, <3>1
  <2>4. \A i \in 2 .. Len(calls') : LinkOK(i)'
    <3>1. ASSUME NEW i \in 2 .. n - 1 PROVE LinkOK(i)'
      <4>1. LinkOK(i) /\ calls'[i] = calls[i] /\ calls'[i - 1] = calls[i - 1]
        BY <1>0, <1>1 DEF Sound, ChainOK
      <4> QED BY <1>2, <4>1 DEF LinkOK
    <3> QED BY <1>1, <3>1
  <2>5. \A i, j \in 1 .. Len(calls') : i < j => calls'[j].sp <= calls'[i].sp - 2
    <3> SUFFICES ASSUME NEW i \in 1 .. n - 1, NEW j \in 1 .. n - 1, i < j
                 PROVE  calls'[j].sp <= calls'[i].sp - 2
      BY <1>1
    <3>1. i \in 1 .. n /\ j \in 1 .. n
      BY <1>0
    <3>2. calls[j].sp <= calls[i].sp - 2
      BY <1>0, <3>1 DEF Sound, ChainOK
    <3> QED BY <1>1, <3>2
  <2>6. Base'
    BY <1>1, <1>2, <2>1 DEF Sound, Base
  <2>7. Top' = calls[n - 1]
    BY <1>1, <2>1 DEF Top
  <2>8. /\ Top.fp = calls[n - 1].sp - 2 /\ stack[Top.fp] = calls[n - 1].fp
        /\ Behind(Top.pc)
    BY <1>0, <2>1 DEF Sound, ChainOK, LinkOK, Top
  <2>9. 0 < Top.sp /\ Top.sp <= Top.fp
    <3>1. Top.sp \in Nat /\ 1 < Top.sp /\ Top.sp <= Top.fp
      BY SoundTop
    <3> QED BY ONLY <3>1
  <2>10. TopOK'
    BY <1>2, <2>7, <2>8, <2>9 DEF TopOK, Returned, Settled
  <2> QED BY <1>0, <1>4, <2>2, <2>3, <2>4, <2>5, <2>6, <2>10 DEF ChainOK
<1> QED BY <1>3, <1>4

LEMMA RetReturns == Sound /\ Ret => Returned
<1> SUFFICES ASSUME Sound, Ret PROVE Returned
  OBVIOUS
<1>1. rsp = Top.sp - 1 /\ rbp = Top.fp
  BY SoundTop, OnePlace DEF Ret, Sound, TopOK, Settled
<1>2. stack[Top.sp - 1] = Top.pc /\ Top.sp \in Nat
  BY SoundTop
<1> QED BY <1>1, <1>2 DEF Ret, Returned

(* From an entry the top of the stack says, from a body the frame record. *)
LEMMA UpReturns ==
    Sound /\ (Entered(rip) \/ Settled(rip)) /\ CdbgFrameUp => Returned
<1> SUFFICES ASSUME Sound, Entered(rip) \/ Settled(rip), CdbgFrameUp PROVE Returned
  OBVIOUS
<1>1. /\ Top.pc \in Nat /\ Top.fp \in Nat /\ Top.sp \in Nat
      /\ 1 < Top.sp /\ Top.sp <= Top.fp /\ Top.fp < Root
      /\ stack[Top.sp - 1] = Top.pc /\ rip \in Nat /\ rbp \in Nat /\ rsp \in Nat
  BY SoundTop
<1>2. calls' = SubSeq(calls, 1, Len(calls) - 1) /\ stack' = stack
  BY DEF CdbgFrameUp, Sound
<1>3. CASE Entered(rip)
  <2>1. rsp = Top.sp - 1 /\ rbp = Top.fp
    BY <1>1, <1>3, OnePlace DEF Sound, TopOK, Settled
  <2>2. rip' = stack[rsp] /\ rsp' = rsp + 1 /\ rbp' = rbp
    BY <1>3 DEF CdbgFrameUp, UpByRecord, UpByTop, ByRecord, AtEntry
  <2> QED BY <1>1, <1>2, <2>1, <2>2 DEF Returned
<1>4. CASE Settled(rip)
  <2>1. ~Entered(rip)
    BY <1>1, <1>4, OnePlace DEF Settled
  <2>2. rbp = Top.sp - 2 /\ stack[rbp] = Top.fp /\ 0 < rsp /\ rsp <= rbp
    BY <1>4, SoundSettled
  <2>3. rbp + 1 = Top.sp - 1 /\ rbp # 0 /\ Top.fp > rbp /\ rbp \in Words /\ rbp + 1 \in Words
    BY <1>1, <2>2, FramesAssumption DEF Words
  <2>4. stack[rbp + 1] = Top.pc /\ IsReturn(Top.pc)
    BY <1>1, <2>3, SoundTop
  <2>5. ByRecord
    BY <2>1, <2>2, <2>3, <2>4 DEF ByRecord, AtEntry, InStack
  <2>6. rip' = stack[rbp + 1] /\ rbp' = stack[rbp] /\ rsp' = rbp + 2
    BY <2>5 DEF CdbgFrameUp, UpByRecord, UpByTop
  <2> QED BY <1>1, <1>2, <2>2, <2>4, <2>6 DEF Returned
<1> QED BY <1>3, <1>4

(* What an undamaged stack holds: the chain of the calls, until main has     *)
(* been left.                                                                *)
LEMMA StackStep ==
    FramesTypeOK /\ StackInv /\ [FramesNext]_framesVars => StackInv'
<1> SUFFICES ASSUME FramesTypeOK, StackInv, [FramesNext]_framesVars, intact' PROVE StackInv'
  BY DEF StackInv
<1>1. CASE UNCHANGED <<thread, calls, intact>>
  BY <1>1 DEF StackInv, ChainOK, CallOK, LinkOK, Base, TopOK, Top
<1>2. CASE Smash
  BY <1>2 DEF Smash
<1>3. CASE (ProgramStep \/ CdbgFrameUp) /\ calls = <<>>
  <2>1. intact /\ rip = StartRet
    BY <1>3 DEF StackInv, ProgramStep, CdbgFrameUp
  <2>2. ~ProgramStep
    BY <2>1, StartIsOutside DEF ProgramStep, Prologue, PushLocal, Call, Leave, Ret
  <2>3. ~intact'
    BY <1>3, <2>1, <2>2, StartIsOutside DEF CdbgFrameUp, Settled
  <2> QED BY <2>3
<1>4. CASE (ProgramStep \/ CdbgFrameUp) /\ calls # <<>>
  <2>1. Sound
    <3>1. intact
      BY <1>4 DEF ProgramStep, CdbgFrameUp
    <3>2. Len(calls) # 0
      BY <1>4 DEF FramesTypeOK
    <3> QED BY <1>4, <3>1, <3>2, CallNumbers DEF Sound, StackInv
  <2>2. CASE ProgramStep /\ Prologue
    <3>1. calls' = calls
      BY <2>2 DEF Prologue
    <3> QED BY <1>4, <2>1, <2>2, <3>1, PrologueSound DEF StackInv
  <2>3. CASE ProgramStep /\ PushLocal
    <3>1. calls' = calls
      BY <2>3 DEF PushLocal
    <3> QED BY <1>4, <2>1, <2>3, <3>1, PushLocalSound DEF StackInv
  <2>4. CASE ProgramStep /\ Call
    BY <2>1, <2>4, CallSound DEF StackInv
  <2>5. CASE ProgramStep /\ Leave
    <3>1. calls' = calls
      BY <2>5 DEF Leave
    <3> QED BY <1>4, <2>1, <2>5, <3>1, LeaveSound DEF StackInv
  <2>6. CASE ProgramStep /\ Ret
    BY <2>1, <2>6, RetReturns, ReturnedSound DEF StackInv
  <2>7. CASE CdbgFrameUp
    <3>1. Entered(rip) \/ Settled(rip)
      BY <2>7 DEF CdbgFrameUp
    <3> QED BY <2>1, <2>7, <3>1, UpReturns, ReturnedSound DEF StackInv
  <2> QED BY <1>4, <2>2, <2>3, <2>4, <2>5, <2>6, <2>7 DEF ProgramStep
<1>5. CASE TbBegin \/ TbNext \/ TbEnd
  <2>1. UNCHANGED <<thread, calls, intact>>
    BY <1>5 DEF TbBegin, TbNext, TbEnd
  <2> QED BY <1>1, <2>1
<1>6. CASE UNCHANGED framesVars
  BY <1>1, <1>6
<1> QED BY <1>2, <1>3, <1>4, <1>5, <1>6 DEF FramesNext

LEMMA StackInit == FramesInit => StackInv
<1> SUFFICES ASSUME FramesInit PROVE ChainOK /\ Base /\ TopOK
  BY DEF FramesInit, StackInv
<1>1. /\ calls = <<[pc |-> StartRet, fp |-> Root - 1, sp |-> Root - 2]>>
      /\ rbp = Root - 1 /\ rsp = Root - 3 /\ rip \in Entries
  <2>1. Root - 3 + 1 = Root - 2
    BY FramesAssumption
  <2> QED BY <2>1 DEF FramesInit
<1>2. /\ Len(calls) = 1 /\ calls[1].pc = StartRet /\ calls[1].fp = Root - 1
      /\ calls[1].sp = Root - 2
  BY <1>1
<1>3. stack[Root - 3] = StartRet /\ stack[Root - 1] = 0
  BY FramesAssumption DEF FramesInit, Words
<1>4. \A i \in 1 .. Len(calls) : CallOK(i)
  <2>1. CallOK(1)
    <3>1. 1 < Root - 2 /\ Root - 2 <= Root - 1 /\ Root - 1 < Root /\ Root - 2 - 1 = Root - 3
      BY FramesAssumption
    <3> QED BY <1>2, <1>3, <3>1 DEF CallOK
  <2>2. \A i \in 1 .. Len(calls) : i = 1
    BY <1>2
  <2> QED BY <2>1, <2>2
<1>5. (2 .. Len(calls)) = {} /\ \A i, j \in 1 .. Len(calls) : ~(i < j)
  BY <1>2
<1>6. TopOK
  <2>1. Root - 3 = Root - 2 - 1
    BY FramesAssumption
  <2> QED BY <1>1, <1>2, <2>1 DEF TopOK, Top, Entered
<1> QED BY <1>2, <1>3, <1>4, <1>5, <1>6 DEF ChainOK, Base

(* The type invariant of Frames, for any program and any stack.              *)
THEOREM FramesTyping == FramesSpec => []FramesTypeOK
<1>1. FramesInit => FramesTypeOK
  BY FramesInitType
<1>2. FramesTypeOK /\ [FramesNext]_framesVars => FramesTypeOK'
  BY FramesNextType
<1> QED BY <1>1, <1>2, PTL DEF FramesSpec

(* tb ends whatever the memory of the debuggee holds: no record is printed   *)
(* twice, and no more than MaxFrames lines (cmd_backtrace,                   *)
(* frame_record_next).                                                       *)
THEOREM BacktraceEnds == FramesSpec => []NoFrameTwice
<1>1. FramesInit => WalkInv
  BY FramesAssumption DEF FramesInit, WalkInv, NoFrameTwice
<1>2. FramesTypeOK /\ WalkInv /\ [FramesNext]_framesVars => WalkInv'
  BY WalkStep
<1>3. WalkInv => NoFrameTwice
  BY DEF WalkInv
<1> QED BY <1>1, <1>2, <1>3, FramesTyping, PTL DEF FramesSpec
(* On an undamaged stack, from the first instruction of any function or its  *)
(* body, up puts the thread where the innermost call goes on, at any depth   *)
(* and under any locals (cdbg_regs_frame_up).                                *)
THEOREM UpReturnsToCaller == FramesSpec => UpFollowsCalls
<1>1. FramesInit => StackInv
  BY StackInit
<1>2. FramesTypeOK /\ StackInv /\ [FramesNext]_framesVars => StackInv'
  BY StackStep
<1>3. FramesTypeOK /\ StackInv /\ [FramesNext]_framesVars
      => [intact /\ calls # <<>> /\ (Entered(rip) \/ Settled(rip)) /\ CdbgFrameUp =>
            LET caller == calls[Len(calls)]
            IN  rip' = caller.pc /\ rbp' = caller.fp /\ rsp' = caller.sp]_framesVars
  <2> SUFFICES ASSUME FramesTypeOK, StackInv, intact, calls # <<>>,
                      Entered(rip) \/ Settled(rip), CdbgFrameUp
               PROVE  rip' = Top.pc /\ rbp' = Top.fp /\ rsp' = Top.sp
    BY DEF Top
  <2>1. Len(calls) # 0
    BY DEF FramesTypeOK
  <2>2. Sound
    BY <2>1, CallNumbers DEF Sound, StackInv
  <2> QED BY <2>2, UpReturns DEF Returned
<1> QED BY <1>1, <1>2, <1>3, FramesTyping, PTL DEF FramesSpec, UpFollowsCalls
(* What tb has printed of the calls, and where its walk stands. *)
Told ==
    /\ Len(shown) \in 1 .. Len(calls) + 1
    /\ shown[1].pc = rip
    /\ \A k \in 2 .. Len(shown) : shown[k].pc = calls[Len(calls) + 2 - k].pc
    /\ Len(shown) <= Len(calls) => tbfp = calls[Len(calls) + 1 - Len(shown)].sp - 2
    /\ Len(shown) = Len(calls) + 1 => tbfp = Root - 1
    /\ tb = "done" =>
         Len(shown) = IF Len(calls) < MaxFrames THEN Len(calls) + 1 ELSE MaxFrames

TellInv == intact /\ calls # <<>> /\ Settled(rip) /\ tb # "none" => Told

(* Every call has its record, and the walk takes it. *)
LEMMA RecordOf ==
    ASSUME Sound, Settled(rip), NEW i \in 1 .. Len(calls)
    PROVE  /\ calls[i].sp - 2 \in Words /\ calls[i].sp - 2 # 0
           /\ stack[calls[i].sp - 2] = calls[i].fp
           /\ stack[calls[i].sp - 2 + 1] = calls[i].pc
           /\ HasNext(calls[i].sp - 2)
<1>0. PICK n \in Nat \ {0} : n = Len(calls)
  BY SoundTop
<1>1. /\ calls[i].pc \in Nat /\ calls[i].fp \in Nat /\ calls[i].sp \in Nat
      /\ 1 < calls[i].sp /\ calls[i].sp <= calls[i].fp /\ calls[i].fp < Root
      /\ stack[calls[i].sp - 1] = calls[i].pc
  BY DEF Sound, Numbers, ChainOK, CallOK
<1>2. 2 < calls[i].sp
  <2>1. Top.sp \in Nat /\ Top.sp <= calls[i].sp /\ rsp \in Nat
    BY SoundTop
  <2>2. 0 < rsp /\ rsp <= Top.sp - 2
    BY SoundSettled
  <2> QED BY ONLY <1>1, <2>1, <2>2
<1>3. /\ calls[i].sp - 2 \in Words /\ calls[i].sp - 1 \in Words /\ calls[i].sp - 2 # 0
      /\ calls[i].sp - 2 + 1 = calls[i].sp - 1 /\ calls[i].fp > calls[i].sp - 2
      /\ calls[i].fp # 0
  <2>1. Root \in Nat
    BY FramesAssumption
  <2> QED BY ONLY <1>1, <1>2, <2>1 DEF Words
<1>4. stack[calls[i].sp - 2] = calls[i].fp
  <2>1. CASE i = n
    BY <1>0, <2>1, SoundSettled DEF Top
  <2>2. CASE i # n
    <3>1. i + 1 \in 2 .. n /\ i + 1 - 1 = i
      BY <1>0, <2>2
    <3>2. LinkOK(i + 1)
      BY <1>0, <3>1 DEF Sound, ChainOK
    <3> QED BY <3>1, <3>2 DEF LinkOK
  <2> QED BY <2>1, <2>2
<1>5. IsReturn(calls[i].pc)
  <2>1. CASE i = 1
    BY <2>1, CodeAssumption DEF Sound, Base, IsReturn
  <2>2. CASE i # 1
    <3>1. i \in 2 .. n
      BY <1>0, <2>2
    <3>2. Behind(calls[i].pc)
      BY <1>0, <3>1 DEF Sound, ChainOK, LinkOK
    <3> QED BY <1>1, <3>2, CodeAssumption, FramesAssumption DEF Behind, IsReturn
  <2> QED BY <2>1, <2>2
<1> QED BY <1>1, <1>3, <1>4, <1>5 DEF HasNext, InStack

LEMMA TellStep ==
    FramesTypeOK /\ WalkInv /\ StackInv /\ TellInv /\ [FramesNext]_framesVars => TellInv'
<1> SUFFICES ASSUME FramesTypeOK, WalkInv, StackInv, TellInv, [FramesNext]_framesVars,
                    (intact /\ calls # <<>> /\ Settled(rip) /\ tb # "none")'
             PROVE  Told'
  BY DEF TellInv
<1>1. ~(ProgramStep \/ Smash \/ CdbgFrameUp)
  BY DEF ProgramStep, Smash, CdbgFrameUp, NoWalk
<1>2. CASE UNCHANGED framesVars
  <2>1. Told
    BY <1>2 DEF TellInv
  <2> QED BY <1>2, <2>1 DEF Told
<1>3. CASE TbBegin \/ TbNext \/ TbEnd
  <2>1. UNCHANGED <<thread, calls, intact>>
    BY <1>3 DEF TbBegin, TbNext, TbEnd
  <2>2. Sound /\ Settled(rip)
    <3>1. intact /\ calls # <<>> /\ Settled(rip)
      BY <2>1
    <3>2. Len(calls) # 0
      BY <3>1 DEF FramesTypeOK
    <3> QED BY <3>1, <3>2, CallNumbers DEF Sound, StackInv
  <2>3. PICK n \in Nat \ {0} : n = Len(calls)
    BY <2>2, SoundTop
  <2>4. shown \in Seq([pc : Nat, fp : Nat]) /\ calls' = calls /\ rip' = rip /\ Len(shown) \in Nat
    BY <2>1 DEF FramesTypeOK
  <2>5. n \in 1 .. n /\ Top = calls[n]
    BY <2>3 DEF Top
  <2>6. CASE TbBegin
    <3>1. shown' = <<[pc |-> rip, fp |-> 0]>> /\ tbfp' = rbp /\ tb' = "walking"
      BY <2>6 DEF TbBegin
    <3>2. Len(shown') = 1 /\ shown'[1].pc = rip
      BY <3>1
    <3>3. n + 1 - 1 = n /\ 1 \in 1 .. n + 1 /\ (2 .. 1) = {} /\ 1 # n + 1
      OBVIOUS
    <3>4. rbp = calls[n].sp - 2
      BY <2>2, <2>5, SoundSettled
    <3> QED BY <2>3, <2>4, <3>1, <3>2, <3>3, <3>4 DEF Told
  <2>7. CASE TbNext \/ TbEnd
    <3>1. PICK m \in Nat : m = Len(shown)
      BY <2>4
    <3>2. Told
      BY <2>2, <2>7 DEF TellInv, TbNext, TbEnd, Sound, StackInv
    <3>3. m \in 1 .. n + 1 /\ m <= MaxFrames
      BY <2>3, <3>1, <3>2 DEF Told, WalkInv, NoFrameTwice
    <3>4. CASE m = n + 1
      <4>1. tbfp = Root - 1 /\ stack[Root - 1] = 0
        BY <2>2, <2>3, <3>1, <3>2, <3>4 DEF Told, Sound, Base
      <4>2. TbEnd /\ shown' = shown /\ tbfp' = tbfp
        BY <2>7, <4>1 DEF TbNext, TbMore, HasNext, TbEnd
      <4>3. Len(shown) = IF n < MaxFrames THEN n + 1 ELSE MaxFrames
        BY ONLY <3>1, <3>3, <3>4, FramesAssumption
      <4> QED BY <2>3, <2>4, <3>2, <4>2, <4>3 DEF Told
    <3>5. CASE m # n + 1
      <4>1. /\ m <= n /\ n + 1 - m \in 1 .. n /\ n + 2 - (m + 1) = n + 1 - m
        BY <3>3, <3>5
      <4>2. tbfp = calls[n + 1 - m].sp - 2
        BY <2>3, <3>1, <3>2, <4>1 DEF Told
      <4>3. /\ tbfp # 0 /\ stack[tbfp] = calls[n + 1 - m].fp
            /\ stack[tbfp + 1] = calls[n + 1 - m].pc /\ HasNext(tbfp)
        BY <2>2, <2>3, <4>1, <4>2, RecordOf
      <4>4. CASE TbNext
        <5> DEFINE e == [pc |-> stack[tbfp + 1], fp |-> tbfp]
        <5>1. /\ shown' = Append(shown, e) /\ tbfp' = calls[n + 1 - m].fp /\ tb' = "walking"
          BY <4>3, <4>4 DEF TbNext
        <5>2. e \in [pc : Nat, fp : Nat] /\ e.pc = calls[n + 1 - m].pc
          BY <4>3, <4>4 DEF TbNext, TbMore, HasNext, InStack, FramesTypeOK
        <5> HIDE DEF e
        <5>3. /\ Len(shown') = m + 1 /\ shown'[m + 1] = e
              /\ \A i \in 1 .. m : shown'[i] = shown[i]
          BY <2>4, <3>1, <5>1, <5>2, Appended
        <5>4. m + 1 \in 1 .. n + 1 /\ 1 \in 1 .. m
          BY <3>3, <4>1
        <5>5. shown'[1].pc = rip
          BY <3>2, <5>3, <5>4 DEF Told
        <5>6. ASSUME NEW k \in 2 .. m + 1 PROVE shown'[k].pc = calls[n + 2 - k].pc
          <6>1. CASE k = m + 1
            BY <4>1, <5>2, <5>3, <6>1
          <6>2. CASE k # m + 1
            <7>1. k \in 2 .. m /\ k \in 1 .. m
              BY <6>2
            <7> QED BY <2>3, <3>1, <3>2, <5>3, <7>1 DEF Told
          <6> QED BY <6>1, <6>2
        <5>7. m + 1 <= n => tbfp' = calls[n + 1 - (m + 1)].sp - 2
          <6> SUFFICES ASSUME m + 1 <= n PROVE tbfp' = calls[n + 1 - (m + 1)].sp - 2
            OBVIOUS
          <6>1. n + 1 - m \in 2 .. n /\ n + 1 - m - 1 = n + 1 - (m + 1)
            BY <3>3
          <6>2. LinkOK(n + 1 - m)
            BY <2>2, <2>3, <6>1 DEF Sound, ChainOK
          <6> QED BY <5>1, <6>1, <6>2 DEF LinkOK
        <5>8. m + 1 = n + 1 => tbfp' = Root - 1
          <6>1. m = n => n + 1 - m = 1
            OBVIOUS
          <6>2. m + 1 = n + 1 => m = n
            OBVIOUS
          <6> QED BY <2>2, <5>1, <6>1, <6>2 DEF Sound, Base
        <5> QED BY <2>3, <2>4, <5>1, <5>3, <5>4, <5>5, <5>6, <5>7, <5>8 DEF Told
      <4>5. CASE TbEnd
        <5>1. shown' = shown /\ tbfp' = tbfp
          BY <4>5 DEF TbEnd
        <5>2. ~(m < MaxFrames)
          BY <3>1, <4>3, <4>5 DEF TbEnd, TbMore
        <5>3. Len(shown) = IF n < MaxFrames THEN n + 1 ELSE MaxFrames
          BY ONLY <3>1, <3>3, <4>1, <5>2, FramesAssumption
        <5> QED BY <2>3, <2>4, <3>2, <5>1, <5>3 DEF Told
      <4> QED BY <2>7, <4>4, <4>5
    <3> QED BY <3>4, <3>5
  <2> QED BY <1>3, <2>6, <2>7
<1> QED BY <1>1, <1>2, <1>3 DEF FramesNext

(* In the body of any function of an undamaged stack tb tells the calls, all *)
(* of them and in their order, up to the most it prints (cmd_backtrace).     *)
THEOREM BacktraceTellsTheCalls == FramesSpec => []CallsShown
<1> DEFINE I == WalkInv /\ StackInv /\ TellInv
<1>1. FramesInit => I
  BY StackInit, FramesAssumption DEF FramesInit, WalkInv, NoFrameTwice, TellInv
<1>2. FramesTypeOK /\ I /\ [FramesNext]_framesVars => I'
  BY WalkStep, StackStep, TellStep
<1>3. I => CallsShown
  BY DEF TellInv, Told, CallsShown
<1> QED BY <1>1, <1>2, <1>3, FramesTyping, PTL DEF FramesSpec
===============================================================================
