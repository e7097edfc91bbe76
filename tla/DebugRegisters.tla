---------------------------- MODULE DebugRegisters ----------------------------
(***************************************************************************)
(* The bytes a hardware watchpoint covers: cmd_watch and                   *)
(* delete_watchpoint_at of src/src/debugger.c with the two builds of       *)
(* cdbg_wp_hw_install and cdbg_wp_hw_uninstall in src/src/watchpoint.c,    *)
(* for one thread.  Watchpoint.tla has the threads and the reports.        *)
(*                                                                         *)
(* DR7 and DBGWCR are sets of bit numbers.  What the processor makes of    *)
(* them (Enabled, CoveredBytes, Traps) is external: Intel SDM 17.2.4 and   *)
(* the Arm ARM D2.10, as far as the fields here reach.                     *)
(***************************************************************************)
EXTENDS Naturals, Sequences

CONSTANTS WatchAddrs,   (* addresses of values                                *)
          ValueSizes,   (* what the resolver says of their sizes              *)
          HwSlots       (* CDBG_WP_MAX_HW                                     *)

ASSUME DebugRegistersAssumption ==
    WatchAddrs \subseteq Nat /\ ValueSizes \subseteq Nat /\ HwSlots \in 1 .. 4

VARIABLES arch,      (* the build: "x86_64" or "arm64"                        *)
          watched,   (* dbg->watchpoints                                      *)
          dr,        (* DR0-DR3, or DBGWVR0-3                                 *)
          dr7,       (* x86_64: one for all slots                             *)
          wcr        (* arm64: one for each                                   *)

registersVars == <<arch, watched, dr, dr7, wcr>>

Slots == 0 .. HwSlots - 1
HwSizes == {1, 2, 4, 8}
WatchModes == {"write", "access"}

RegistersTypeOK ==
    /\ arch \in {"x86_64", "arm64"}
    /\ watched \in Seq([addr : Nat, size : HwSizes, mode : WatchModes])
    /\ Len(watched) <= HwSlots
    /\ dr \in [Slots -> Nat] /\ dr7 \subseteq Nat /\ wcr \in [Slots -> SUBSET Nat]
-------------------------------------------------------------------------------
Shifted(bits, shift) == {b + shift : b \in bits}
At(f, slot, v) == [s \in Slots |-> IF s = slot THEN v ELSE f[s]]
Registers == [dr |-> dr, dr7 |-> dr7, wcr |-> wcr]

(* install_x86_thread *)
LenBits == [size \in HwSizes |->
    CASE size = 1 -> {} [] size = 2 -> {0} [] size = 8 -> {1} [] size = 4 -> {0, 1}]
RwBits(mode) == IF mode = "access" THEN {0, 1} ELSE {0}

(* Mutant: the fields of the watchpoint before are not cleared. *)
InstallX86Over(r, slot, a, size, mode) ==
    [r EXCEPT !.dr = At(@, slot, a),
              !.dr7 = @ \cup Shifted(RwBits(mode), 16 + 4 * slot)
                        \cup Shifted(LenBits[size], 18 + 4 * slot) \cup {2 * slot}]

InstallX86(r, slot, a, size, mode) ==
    [r EXCEPT !.dr = At(@, slot, a),
              !.dr7 = (@ \ Shifted(0 .. 3, 16 + 4 * slot))
                        \cup Shifted(RwBits(mode), 16 + 4 * slot)
                        \cup Shifted(LenBits[size], 18 + 4 * slot) \cup {2 * slot}]

(* install_arm_thread: enable, both levels, LSC and the byte address select. *)
InstallArm(r, slot, a, size, mode) ==
    [r EXCEPT !.dr = At(@, slot, a - (a % 8)),
              !.wcr = At(@, slot, {0, 1, 2} \cup (IF mode = "access" THEN {3, 4} ELSE {4})
                                  \cup Shifted(0 .. size - 1, 5 + (a % 8)))]

(* cdbg_wp_hw_install *)
Installable(a, size) == IF arch = "arm64" THEN (a % 8) + size <= 8 ELSE a % size = 0
Install(r, slot, a, size, mode) ==
    IF arch = "arm64" THEN InstallArm(r, slot, a, size, mode)
    ELSE InstallX86(r, slot, a, size, mode)

(* cdbg_wp_hw_uninstall: on x86_64 RW and LEN stay. *)
Uninstall(r, slot) ==
    IF arch = "arm64" THEN [r EXCEPT !.dr = At(@, slot, 0), !.wcr = At(@, slot, {})]
    ELSE [r EXCEPT !.dr = At(@, slot, 0), !.dr7 = @ \ {2 * slot}]

(* watch_hw_size_for *)
HwSizeFor(requested) ==
    IF requested = 0 \/ requested > 8 THEN 8
    ELSE CHOOSE s \in HwSizes : requested <= s /\ \A t \in HwSizes : requested <= t => s <= t

(* The sizes cmd_watch tries: the one given, or down from the value's.      *)
Tried(explicit, value_size) ==
    IF explicit # 0 THEN {explicit} ELSE {s \in HwSizes : s <= HwSizeFor(value_size)}

(* The largest of them that can be installed. *)
Chosen(a, sizes) ==
    {s \in sizes : Installable(a, s) /\ \A t \in sizes : Installable(a, t) => t <= s}

SetRegisters(r) == dr' = r.dr /\ dr7' = r.dr7 /\ wcr' = r.wcr

WatchValue(a, explicit, value_size, mode) ==
    /\ Len(watched) < HwSlots
    /\ \E size \in Chosen(a, Tried(explicit, value_size)) :
         /\ SetRegisters(Install(Registers, Len(watched), a, size, mode))
         /\ watched' = Append(watched, [addr |-> a, size |-> size, mode |-> mode])
    /\ arch' = arch

(* delete_watchpoint_at: the ones behind move down, a register each.        *)
DeleteWatched(i) ==
    LET moved[k \in i .. Len(watched)] ==
            IF k = i THEN Uninstall(Registers, i - 1)
            ELSE Install(moved[k - 1], k - 2, watched[k].addr, watched[k].size, watched[k].mode)
    IN  /\ SetRegisters(moved[Len(watched)])
        /\ watched' = SubSeq(watched, 1, i - 1) \o SubSeq(watched, i + 1, Len(watched))
        /\ arch' = arch

RegistersInit ==
    /\ arch \in {"x86_64", "arm64"}
    /\ watched = <<>> /\ dr = [s \in Slots |-> 0]
    /\ dr7 = {} /\ wcr = [s \in Slots |-> {}]

RegistersNext ==
    \/ \E a \in WatchAddrs, m \in WatchModes :
         \/ \E explicit \in HwSizes : WatchValue(a, explicit, 0, m)
         \/ \E n \in ValueSizes : WatchValue(a, 0, n, m)
    \/ \E i \in DOMAIN watched : DeleteWatched(i)

RegistersSpec == RegistersInit /\ [][RegistersNext]_registersVars
-------------------------------------------------------------------------------
(* What the processor does with them. *)
Field(bits, low) == {b \in 0 .. 1 : b + low \in bits}
LenOf(slot) == CHOOSE size \in HwSizes : LenBits[size] = Field(dr7, 18 + 4 * slot)

Enabled(slot) == IF arch = "arm64" THEN 0 \in wcr[slot] ELSE 2 * slot \in dr7
CoveredBytes(slot) ==
    IF arch = "arm64" THEN {a \in dr[slot] .. dr[slot] + 7 : a - dr[slot] + 5 \in wcr[slot]}
    ELSE dr[slot] .. dr[slot] + LenOf(slot) - 1
Traps(slot) ==
    LET f == IF arch = "arm64" THEN Field(wcr[slot], 3) ELSE Field(dr7, 16 + 4 * slot)
    IN  IF f = {0, 1} THEN "access"
        ELSE IF f = (IF arch = "arm64" THEN {1} ELSE {0}) THEN "write" ELSE "other"

(* However watchpoints of different sizes and modes come, go and move down   *)
(* the slots: the registers of each one cover the bytes the table says, in   *)
(* the mode it says, whatever was in the shared register before              *)
(* (cdbg_wp_hw_install, delete_watchpoint_at).                               *)
WatchedBytes ==
    \A i \in DOMAIN watched :
        /\ Enabled(i - 1) /\ Traps(i - 1) = watched[i].mode
        /\ CoveredBytes(i - 1) = watched[i].addr .. watched[i].addr + watched[i].size - 1
===============================================================================
