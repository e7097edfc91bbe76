------------------------------ MODULE LineProgram ------------------------------
(***************************************************************************)
(* The second reader of the line table: parse_line_program of              *)
(* src/src/lineno.c, which decodes .debug_line itself where dwarfdump has  *)
(* failed.  "code" is the bytes between the reader's cursor and the end.   *)
(*                                                                         *)
(* The assembler is external: it has the rows of the program in mind, and  *)
(* writes each the way DWARF allows, with special opcodes, constant and    *)
(* fixed advances, or one standard opcode for each register, and numbers   *)
(* in as many bytes as it likes.                                           *)
(*                                                                         *)
(* An opcode the reader does not know it steps over by std_lengths BYTES   *)
(* where DWARF counts LEB128 operands (:678-681).  Of the opcodes of       *)
(* DWARF 5 this concerns set_isa alone, and an operand of it of two bytes  *)
(* throws the reader out of step; Isas says which are written.             *)
(***************************************************************************)
EXTENDS Integers, Sequences

CONSTANTS Headers,     (* what parse_line_table has read before the program   *)
          LastOpcode,  (* the largest byte: 255                               *)
          AddressSize, (* bytes of an address                                 *)
          FilePaths,   (* the files of the header, from number 1              *)
          RowLines,    (* lines; 0 is "no source"                             *)
          Isas,        (* operands of set_isa                                 *)
          MaxAdvance,  (* instructions between two rows                       *)
          MaxOperand,  (* bytes of the longest LEB128 number written          *)
          MaxWritten   (* bound of the model on the rows                      *)

(* A byte below More is the last one of a LEB128 number: 128. *)
More == (LastOpcode + 1) \div 2
ByteStrings(k) == [1 .. k -> 0 .. LastOpcode]
IsLeb(o) == o[Len(o)] < More /\ \A i \in 1 .. Len(o) - 1 : o[i] >= More
Lebs == {o \in UNION {ByteStrings(k) : k \in 1 .. MaxOperand} : IsLeb(o)}

ASSUME LineProgramAssumption ==
    /\ \A h \in Headers :
         /\ h \in [opcode_base : 10 .. 13, line_base : Int, line_range : Nat \ {0},
                   min_inst_length : Nat, std_lengths : Seq(Nat)]
         /\ h.std_lengths[6] = 0 /\ h.std_lengths[7] = 0
         /\ h.opcode_base > 12 => h.std_lengths[12] = 1
    /\ FilePaths \in Seq(STRING) /\ RowLines \subseteq Nat /\ Isas \subseteq Lebs
    /\ LastOpcode \in Nat /\ AddressSize \in Nat \ {0}
    /\ MaxAdvance \in Nat /\ MaxOperand \in 1 .. 10 /\ MaxWritten \in Nat

VARIABLES header,    (* of the unit                                           *)
          code,      (* what is left between the cursor and the end           *)
          state,     (* line_state_t                                          *)
          decoded,   (* ln->entries                                           *)
          now,       (* the row the assembler has written last                *)
          wanted,    (* the rows it has in mind that have a source            *)
          written    (* how many it has written                               *)

lineProgramVars == <<header, code, state, decoded, now, wanted, written>>

Begin == [address |-> 0, line |-> 1, file_index |-> 1]
RowsOf(s) == IF s.line > 0 /\ s.file_index \in DOMAIN FilePaths
             THEN <<[address |-> s.address, line |-> s.line, file |-> FilePaths[s.file_index]]>>
             ELSE <<>>

LineProgramTypeOK ==
    /\ header \in Headers /\ code \in Seq(0 .. LastOpcode)
    /\ {state, now} \subseteq [address : Nat, line : Int, file_index : Nat]
    /\ {decoded, wanted} \subseteq Seq([address : Nat, line : Nat, file : STRING])
    /\ written \in 0 .. MaxWritten
-------------------------------------------------------------------------------
(* The readers of parse_cursor_t.  The number whose digits to a base are o,  *)
(* the lowest first, with "top" for what is above them.                      *)
NumberOf(o, base, top) ==
    LET from[i \in 1 .. Len(o) + 1] ==
          IF i > Len(o) THEN top ELSE (o[i] % base) + base * from[i + 1]
    IN  from[1]

Negative(o) == o # <<>> /\ o[Len(o)] \in More \div 2 .. More - 1
Unsigned(o) == NumberOf(o, More, 0)
Signed(o)   == NumberOf(o, More, IF Negative(o) THEN -1 ELSE 0)
Word(b)     == NumberOf(b, LastOpcode + 1, 0)

(* The bytes read for a LEB128 number: to the end of it, ten at most.        *)
Ends(c) == {i \in 1 .. Len(c) : c[i] < More \/ i = 10}
Operand(c) == IF Ends(c) = {} THEN c
              ELSE SubSeq(c, 1, CHOOSE i \in Ends(c) : \A j \in Ends(c) : i <= j)

Skip(c, n) == SubSeq(c, n + 1, Len(c))
-------------------------------------------------------------------------------
(* The assembler: every encoding of a row behind the row before, in front of *)
(* the code c; its LEB128 numbers take w bytes.                              *)
Std(op, o, c) == <<op>> \o (o \o c)
Ext(u, e, c)  == <<0>> \o (u \o (e \o c))
Ulebs(n, w) == {o \in Lebs : Len(o) = w /\ Unsigned(o) = n}
Slebs(l, w) == {o \in Lebs : Len(o) = w /\ Signed(o) = l}
WordsOf(a, k) == {b \in ByteStrings(k) : Word(b) = a}

(* Special(n, l): the opcode that advances by n instructions and l lines.    *)
Special(n, l) == (l - header.line_base) + (header.line_range * n) + header.opcode_base
FitsSpecial(n, l) ==
    /\ l - header.line_base \in 0 .. header.line_range - 1
    /\ Special(n, l) <= LastOpcode

(* What an opcode of LastOpcode advances the address by. *)
ConstAdvance == (LastOpcode - header.opcode_base) \div header.line_range

Advancing(n, l, w) ==
    {Std(2, u, Std(3, s, <<1>>)) : u \in Ulebs(n, w), s \in Slebs(l, w)}
Fixed(n, l, w) ==
    {Std(9, b, Std(3, s, <<1>>)) :
        b \in WordsOf(n * header.min_inst_length, 2), s \in Slebs(l, w)}
Packed(n, l) == IF FitsSpecial(n, l) THEN {<<Special(n, l)>>} ELSE {}
PackedConst(n, l) ==
    IF n >= ConstAdvance /\ FitsSpecial(n - ConstAdvance, l)
    THEN {<<8, Special(n - ConstAdvance, l)>>} ELSE {}
Encodings(n, l, w) ==
    Advancing(n, l, w) \cup Fixed(n, l, w) \cup Packed(n, l) \cup PackedConst(n, l)

WithFile(row, c, w) == IF row.file_index = now.file_index THEN {c}
                       ELSE {Std(4, u, c) : u \in Ulebs(row.file_index, w)}

(* Opcodes that change none of the registers kept: an extended one, a        *)
(* column, negate_stmt, set_basic_block and set_isa; those from opcode_base  *)
(* on are not standard opcodes of this unit.                                 *)
IsStandard(op) == op < header.opcode_base
WithIsa(c) == IF IsStandard(12) THEN {Std(12, i, c) : i \in Isas} ELSE {c}
WithIdle(c, w) ==
    UNION {{Ext(x, <<4, 7>>, Std(5, k, Std(6, <<>>, Std(7, <<>>, d))))
              : x \in Ulebs(2, w), k \in Ulebs(3, w)} : d \in WithIsa(c)}

WriteRow ==
    /\ code = <<>> /\ written < MaxWritten /\ written' = written + 1
    /\ \E n \in 0 .. MaxAdvance, l \in RowLines, f \in DOMAIN FilePaths, w \in 1 .. MaxOperand :
         LET row == [address |-> now.address + n * header.min_inst_length,
                     line |-> l, file_index |-> f]
         IN  /\ \E c \in Encodings(n, l - now.line, w) : \E d \in WithFile(row, c, w) :
                  code' \in WithIdle(d, w)
             /\ now' = row
             /\ wanted' = wanted \o RowsOf(row)
    /\ UNCHANGED <<header, state, decoded>>

(* The end of a sequence and the address of the next one. *)
WriteEnd ==
    /\ code = <<>> /\ written < MaxWritten /\ written' = written + 1
    /\ \E a \in {0, header.min_inst_length}, w \in 1 .. MaxOperand :
         /\ \E x \in Ulebs(1, w), y \in Ulebs(1 + AddressSize, w), b \in WordsOf(a, AddressSize) :
              code' = Ext(x, <<1>>, Ext(y, <<2>> \o b, <<>>))
         /\ now' = [Begin EXCEPT !.address = a]
    /\ wanted' = wanted \o RowsOf(now)
    /\ UNCHANGED <<header, state, decoded>>
-------------------------------------------------------------------------------
(* One round of the loop: what it leaves of the code and of the registers,   *)
(* and whether a row is emitted.                                             *)
Decoded(left, s, emits) == [left |-> left, state |-> s, emits |-> emits]

(* A length beyond the end of the unit ends the reading. *)
ExtendedOpcode ==
    LET u == Operand(Tail(code))
        body == Skip(Tail(code), Len(u))
        sub == IF body = <<>> THEN 0 ELSE body[1]
        s == CASE sub = 1 -> Begin
               [] sub = 2 -> [state EXCEPT !.address = Word(SubSeq(body, 2, AddressSize + 1))]
               [] OTHER -> state
    IN  IF Unsigned(u) > Len(body) THEN Decoded(<<>>, state, FALSE)
        ELSE Decoded(Skip(body, Unsigned(u)), s, sub = 1)

(* Mutant: 255 counts from 0, not from opcode_base. *)
ConstAddPcWhole(s) ==
    [s EXCEPT !.address = @ + (LastOpcode \div header.line_range) * header.min_inst_length]

ConstAddPc(s) ==
    [s EXCEPT !.address = @ + ((LastOpcode - header.opcode_base) \div header.line_range)
                              * header.min_inst_length]

StandardOpcode ==
    LET op == code[1]
        after == Tail(code)
        o == Operand(after)
        half == SubSeq(after, 1, IF Len(after) < 2 THEN 0 ELSE 2)
        s == CASE op = 2 -> [state EXCEPT !.address = @ + Unsigned(o) * header.min_inst_length]
               [] op = 3 -> [state EXCEPT !.line = @ + Signed(o)]
               [] op = 4 -> [state EXCEPT !.file_index = Unsigned(o)]
               [] op = 8 -> ConstAddPc(state)
               [] op = 9 -> [state EXCEPT !.address = @ + Word(half)]
               [] OTHER  -> state
        read == CASE op \in {1, 8} -> 0
                  [] op \in 2 .. 5 -> Len(o)
                  [] op = 9 -> Len(half)
                  [] OTHER -> header.std_lengths[op]
    IN  Decoded(Skip(after, read), s, op = 1)

SpecialOpcode ==
    LET adjusted == code[1] - header.opcode_base
        s == [state EXCEPT !.line = @ + header.line_base + (adjusted % header.line_range),
                           !.address = @ + (adjusted \div header.line_range)
                                           * header.min_inst_length]
    IN  Decoded(Tail(code), s, TRUE)

(* emit_row and entries_push: of the registers as they were at the end of a  *)
(* sequence, else as the opcode leaves them; without a line or a file none.  *)
Decode ==
    /\ code # <<>>
    /\ LET d == IF code[1] = 0 THEN ExtendedOpcode
                ELSE IF code[1] < header.opcode_base THEN StandardOpcode
                ELSE SpecialOpcode
       IN  /\ code' = d.left /\ state' = d.state
           /\ decoded' = IF d.emits
                         THEN decoded \o RowsOf(IF code[1] = 0 THEN state ELSE d.state)
                         ELSE decoded
    /\ UNCHANGED <<header, now, wanted, written>>

LineProgramInit ==
    /\ header \in Headers
    /\ code = <<>> /\ state = Begin /\ decoded = <<>> /\ now = Begin
    /\ wanted = <<>> /\ written = 0

(* The end of the unit. *)
UnitEnds == code = <<>> /\ written = MaxWritten /\ UNCHANGED lineProgramVars

LineProgramNext == WriteRow \/ WriteEnd \/ Decode \/ UnitEnds

LineProgramSpec == LineProgramInit /\ [][LineProgramNext]_lineProgramVars
-------------------------------------------------------------------------------
(* Whatever encodings the assembler has chosen, in however many bytes, and   *)
(* whatever opcodes of no interest stand between them, the reader has the    *)
(* rows that were meant: their addresses, lines and files, in their order    *)
(* (parse_line_program).  It has where the operands of set_isa are one byte  *)
(* long, and loses its way where they are not (Isas).                        *)
RowsDecoded == code = <<>> => decoded = wanted
===============================================================================
