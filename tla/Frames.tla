-------------------------------- MODULE Frames --------------------------------
(***************************************************************************)
(* The stack of a stopped x86_64 thread and the two walks over it: tb      *)
(* (cmd_backtrace, frame_record_next in src/src/debugger.c) and up         *)
(* (cdbg_frame_up there, cdbg_regs_frame_up in src/src/regs.c).            *)
(*                                                                         *)
(* An address of memory is the number of a word, so fp + 8 is fp + 1 here; *)
(* the stack grows down from Root, the frame record of the code that calls *)
(* main.  The program is external: every function is compiled to push      *)
(* %rbp, mov %rsp %rbp, a body that may push a local and call, leave and   *)
(* ret, five consecutive pcs from its entry on.  "calls" remembers, for    *)
(* nobody but the properties, what each caller goes on with.               *)
(***************************************************************************)
EXTENDS Naturals, Sequences

CONSTANTS Entries,     (* the pcs where functions begin; the first is main's *)
          StartRet,    (* where main returns to                              *)
          Root,        (* the highest word of the stack                      *)
          Junk,        (* values of locals and of stray writes               *)
          LowestPc,    (* 0x1000: what lies below is no return address       *)
          MaxFrames,   (* CDBG_MAX_BACKTRACE_FRAMES                          *)
          MaxCalls     (* bound of the model on the depth of calls           *)

ASSUME FramesAssumption ==
    /\ Entries \subseteq Nat /\ StartRet \in Nat /\ Root \in Nat /\ Root > 3
    /\ Junk \subseteq Nat /\ LowestPc \in Nat
    /\ MaxFrames \in Nat \ {0} /\ MaxCalls \in Nat

(* The five pcs of one function are no other's, and main does not return    *)
(* into one; code lies above the lowest page.                               *)
ASSUME CodeAssumption ==
    /\ \A p, q \in Entries : p < q => p + 4 < q
    /\ \A p \in Entries : LowestPc <= p /\ (StartRet < p \/ p + 4 < StartRet)
    /\ LowestPc <= StartRet

VARIABLES rip, rbp, rsp,   (* the thread's registers                          *)
          stack,           (* the words of the stack                          *)
          calls,           (* what the callers go on with, the innermost last *)
          intact,          (* no stray write, and no up from in between, has  *)
                           (* happened                                        *)
          tb,              (* "none", "walking" or "done"                     *)
          tbfp,            (* the local fp of cmd_backtrace                   *)
          shown            (* the lines printed: [pc, fp], fp 0 on the first  *)

walk == <<tb, tbfp, shown>>
thread == <<rip, rbp, rsp, stack>>
framesVars == <<thread, calls, intact, walk>>

Words == 1 .. Root
Entered(p) == p \in Entries
Pushed(p)  == p >= 1 /\ p - 1 \in Entries
InBody(p)  == p >= 2 /\ p - 2 \in Entries
Behind(p)  == p >= 3 /\ p - 3 \in Entries      (* a call returns here *)
Left(p)    == p >= 4 /\ p - 4 \in Entries

(* Where the record of the innermost function is in place. *)
Settled(p) == InBody(p) \/ Behind(p)

FramesTypeOK ==
    /\ {rip, rbp, rsp, tbfp} \subseteq Nat
    /\ stack \in [Words -> Nat]
    /\ calls \in Seq([pc : Nat, fp : Nat, sp : Nat])
    /\ intact \in BOOLEAN
    /\ tb \in {"none", "walking", "done"}
    /\ shown \in Seq([pc : Nat, fp : Nat])
-------------------------------------------------------------------------------
(* Nothing can be read outside of the stack (cdbg_mem_read_u64). *)
InStack(a) == a \in Words

(* The program. *)
NoWalk == tb' = "none" /\ tbfp' = 0 /\ shown' = <<>>
StackWith(a, v) == [w \in Words |-> IF w = a THEN v ELSE stack[w]]
Push(v) == rsp > 1 /\ rsp' = rsp - 1 /\ stack' = StackWith(rsp - 1, v)

Prologue ==
    \/ /\ Entered(rip) /\ Push(rbp)
       /\ rip' = rip + 1 /\ rbp' = rbp /\ calls' = calls
    \/ /\ Pushed(rip)
       /\ rbp' = rsp
       /\ rip' = rip + 1 /\ UNCHANGED <<rsp, stack, calls>>

PushLocal ==
    /\ InBody(rip) /\ rsp = rbp
    /\ \E v \in Junk : Push(v)
    /\ UNCHANGED <<rip, rbp, calls>>

Call ==
    /\ InBody(rip) /\ Len(calls) <= MaxCalls
    /\ rip' \in Entries
    /\ Push(rip + 1)
    /\ rbp' = rbp
    /\ calls' = Append(calls, [pc |-> rip + 1, fp |-> rbp, sp |-> rsp])

Leave ==
    /\ InBody(rip) \/ Behind(rip)
    /\ InStack(rbp)
    /\ rip' = IF InBody(rip) THEN rip + 2 ELSE rip + 1
    /\ rsp' = rbp + 1 /\ rbp' = stack[rbp]
    /\ UNCHANGED <<stack, calls>>

Ret ==
    /\ Left(rip) /\ Len(calls) > 1 /\ InStack(rsp)
    /\ rip' = stack[rsp] /\ rsp' = rsp + 1
    /\ calls' = SubSeq(calls, 1, Len(calls) - 1)
    /\ UNCHANGED <<rbp, stack>>

ProgramStep ==
    /\ intact
    /\ Prologue \/ PushLocal \/ Call \/ Leave \/ Ret
    /\ intact' = intact /\ NoWalk

(* A stray write; what runs after it is no concern here. *)
Smash ==
    /\ intact /\ intact' = FALSE
    /\ \E a \in Words, v \in Junk : stack' = StackWith(a, v)
    /\ UNCHANGED <<rip, rbp, rsp, calls>> /\ NoWalk
-------------------------------------------------------------------------------
IsReturn(w) == w >= LowestPc

(* frame_record_next *)
(* Mutant: the saved frame pointer may be any but 0. *)
HasNextAnywhere(fp) ==
    /\ InStack(fp) /\ InStack(fp + 1)
    /\ stack[fp] # 0 /\ IsReturn(stack[fp + 1])

HasNext(fp) ==
    /\ InStack(fp) /\ InStack(fp + 1)
    /\ stack[fp] # 0 /\ IsReturn(stack[fp + 1]) /\ stack[fp] > fp

(* cmd_backtrace: the pc, then a line for every record until one is refused *)
(* or as many lines are printed as there may be.                            *)
TbBegin ==
    /\ tb # "walking"
    /\ tb' = "walking" /\ tbfp' = rbp
    /\ shown' = <<[pc |-> rip, fp |-> 0]>>
    /\ UNCHANGED <<thread, calls, intact>>

(* Mutant: one line more than there may be. *)
TbMoreThanMax == Len(shown) <= MaxFrames /\ tbfp # 0 /\ HasNext(tbfp)

TbMore == Len(shown) < MaxFrames /\ tbfp # 0 /\ HasNext(tbfp)

TbNext ==
    /\ tb = "walking" /\ TbMore
    /\ shown' = Append(shown, [pc |-> stack[tbfp + 1], fp |-> tbfp])
    /\ tbfp' = stack[tbfp]
    /\ UNCHANGED <<tb, thread, calls, intact>>

TbEnd ==
    /\ tb = "walking" /\ ~TbMore
    /\ tb' = "done"
    /\ UNCHANGED <<tbfp, shown, thread, calls, intact>>
-------------------------------------------------------------------------------
(* cdbg_regs_frame_up: at a push %rbp the return address is on top of the   *)
(* stack; else the frame record says, and where it does not, the top again. *)
(* The registers are written into the thread (cdbg_frame_up).  Between the  *)
(* entry and the body, and behind leave, up takes the record of the caller. *)
(* Mutant: a function that has just been entered is not told from others. *)
AtEntryNever == FALSE

AtEntry == Entered(rip)

ByRecord ==
    /\ ~AtEntry /\ rbp # 0
    /\ InStack(rbp) /\ InStack(rbp + 1)
    /\ stack[rbp] > rbp /\ IsReturn(stack[rbp + 1])

UpByRecord ==
    /\ ByRecord
    /\ rip' = stack[rbp + 1] /\ rbp' = stack[rbp] /\ rsp' = rbp + 2

UpByTop ==
    /\ ~ByRecord
    /\ InStack(rsp) /\ IsReturn(stack[rsp])
    /\ rip' = stack[rsp] /\ rsp' = rsp + 1 /\ rbp' = rbp

CdbgFrameUp ==
    /\ UpByRecord \/ UpByTop
    /\ calls' = IF calls = <<>> THEN calls ELSE SubSeq(calls, 1, Len(calls) - 1)
    /\ intact' = (intact /\ (Entered(rip) \/ Settled(rip)))
    /\ stack' = stack /\ NoWalk
-------------------------------------------------------------------------------
(* main is about to be entered; below Root lies what its caller has pushed. *)
FramesInit ==
    /\ rip \in Entries /\ \A p \in Entries : rip <= p
    /\ rbp = Root - 1 /\ rsp = Root - 3
    /\ \E v \in Junk :
         stack = [w \in Words |-> IF w = rsp THEN StartRet
                                  ELSE IF w = rsp + 1 THEN v ELSE 0]
    /\ calls = <<[pc |-> StartRet, fp |-> rbp, sp |-> rsp + 1]>>
    /\ intact = TRUE
    /\ tb = "none" /\ tbfp = 0 /\ shown = <<>>

(* The thread does not move while tb reads its stack. *)
FramesNext ==
    \/ tb # "walking" /\ (ProgramStep \/ Smash \/ CdbgFrameUp)
    \/ TbBegin \/ TbNext \/ TbEnd

FramesSpec == FramesInit /\ [][FramesNext]_framesVars
-------------------------------------------------------------------------------
(* In a body of an undamaged stack tb is the pc and one line for every call  *)
(* that has not returned, the innermost first, up to the most it prints; of  *)
(* the code that called main no line follows (cmd_backtrace).                *)
CallsShown ==
    tb = "done" /\ intact /\ calls # <<>> /\ Settled(rip) =>
        /\ Len(shown) = IF Len(calls) < MaxFrames THEN Len(calls) + 1 ELSE MaxFrames
        /\ shown[1].pc = rip
        /\ \A k \in 2 .. Len(shown) : shown[k].pc = calls[Len(calls) + 2 - k].pc

(* Whatever the memory of the debuggee holds, tb ends: each record it takes  *)
(* lies above the one before, so none is printed twice, and at most          *)
(* MaxFrames lines are printed (frame_record_next).                          *)
NoFrameTwice ==
    /\ Len(shown) <= MaxFrames
    /\ \A k \in DOMAIN shown : k > 1 => shown[k - 1].fp < shown[k].fp /\ shown[k].fp < tbfp

(* From the first instruction of a function or its body, up puts the thread  *)
(* where the call that led there goes on: the pc, the frame pointer and the  *)
(* stack pointer are those the caller had, whatever locals lie in between    *)
(* (cdbg_regs_frame_up).                                                     *)
UpFollowsCalls ==
    [][intact /\ calls # <<>> /\ (Entered(rip) \/ Settled(rip)) /\ CdbgFrameUp =>
         LET caller == calls[Len(calls)]
         IN  rip' = caller.pc /\ rbp' = caller.fp /\ rsp' = caller.sp]_framesVars
===============================================================================
