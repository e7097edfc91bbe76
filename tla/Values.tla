-------------------------------- MODULE Values --------------------------------
(***************************************************************************)
(* Expressions on a stopped debuggee: the evaluation and the resolution of *)
(* places in src/src/ast_eval.c, the types, print and set of               *)
(* src/src/debugger.c, over the memory src/src/memory.c reads and writes.  *)
(*                                                                         *)
(* A type is what the code reads off its name: the base, "unsigned", stars *)
(* and an array count.  A byte has ByteBits bits and a word WordSize bytes.*)
(* Parsing is src/src/ast_expr.y and leaves a tree: an expression here.    *)
(* Floating-point literals and the format letters of print are left out.   *)
(***************************************************************************)
EXTENDS Integers, Sequences

CONSTANTS Expr,        (* the expressions given, with all their parts        *)
          Variables,   (* name -> [type, addr]: what find_local_var and      *)
                       (* find_global_var know in the current frame          *)
          Members,     (* struct -> member -> [type, offset]                 *)
          StructSize,  (* struct -> DW_AT_byte_size                          *)
          ScalarWord,  (* base -> the word type_scalar_size finds in it:     *)
                       (* char, int or long; none in most structs' names     *)
          ScalarSize,  (* such a word -> bytes                               *)
          Memory,      (* addresses that can be read and written             *)
          ByteBits, WordSize

VARIABLES live,        (* there is a process whose memory can be read         *)
          cells        (* the byte at each address                            *)

valuesVars == <<live, cells>>

Radix == 2 ^ ByteBits
Bits == WordSize * ByteBits
Modulus == 2 ^ Bits
Bytes == 0 .. Radix - 1
Cells == [Memory -> Bytes]
-------------------------------------------------------------------------------
(* read_scalar_value and write_scalar_value: little-endian, at most a word. *)
Clamped(size) == IF size = 0 \/ size > WordSize THEN WordSize ELSE size
Span(a, size) == a .. a + Clamped(size) - 1
CanAccess(a, size) == Span(a, size) \subseteq Memory

(* Mutant: the bytes end up at the wrong end of the word. *)
LoadHigh(m, a, size) ==
    LET low[i \in 0 .. WordSize] ==
            IF i = 0 THEN 0 ELSE low[i - 1] * Radix + m[a + i - 1]
    IN  low[Clamped(size)]

Load(m, a, size) ==
    LET low[i \in 0 .. WordSize] ==
            IF i = 0 THEN 0 ELSE low[i - 1] + m[a + i - 1] * Radix ^ (i - 1)
    IN  low[Clamped(size)]

(* Mutant: a whole word is written whatever the size. *)
StoreWord(m, a, size, v) ==
    [b \in Memory |-> IF b \in Span(a, WordSize) THEN (v \div Radix ^ (b - a)) % Radix
                      ELSE m[b]]

Store(m, a, size, v) ==
    [b \in Memory |-> IF b \in Span(a, size) THEN (v \div Radix ^ (b - a)) % Radix
                      ELSE m[b]]

(* sign_extend_value, after mask_to_size. *)
SignExtended(v, size) ==
    LET range == Radix ^ Clamped(size) low == v % range
    IN  IF 2 * low >= range THEN low - range ELSE low
-------------------------------------------------------------------------------
(* Types, as the code reads them off their names. *)
Untyped == [base |-> "", unsigned |-> TRUE, stars |-> 0, count |-> 0]
IsPointer(t) == t.stars > 0
WordIn(t) == IF t.base = "" THEN "none" ELSE ScalarWord[t.base]

(* type_is_scalar *)
IsScalar(t) == IsPointer(t) \/ WordIn(t) # "none"

(* type_scalar_size *)
SizeByName(t) == IF IsPointer(t) \/ WordIn(t) = "none" THEN WordSize ELSE ScalarSize[WordIn(t)]

(* type_element_size *)
ElementSize(t) ==
    IF t = Untyped THEN 0 ELSE IF IsScalar(t) THEN SizeByName(t)
    ELSE IF StructSize[t.base] > 0 THEN StructSize[t.base] ELSE WordSize

(* pointer_pointee_type cuts at the first star. *)
Pointee(t) == [t EXCEPT !.stars = 0, !.count = 0]
Element(t) == [t EXCEPT !.count = 0]

(* cdbg_var_info_t.  Only a variable's own type is looked into for a count. *)
Info(t, size, array) == [type |-> t, size |-> size, array |-> array]

(* complete_var_type *)
VariableInfo(t) ==
    IF t.count > 0 THEN Info(t, ElementSize(Element(t)) * t.count, TRUE)
    ELSE Info(t, SizeByName(t), FALSE)

TargetInfo(t) == Info(t, ElementSize(t), FALSE)
-------------------------------------------------------------------------------
(* A place is an address with its info, a value is a word; either may fail. *)
NoPlace == [ok |-> FALSE, addr |-> 0, info |-> Info(Untyped, 0, FALSE)]
PlaceAt(a, info) == [ok |-> TRUE, addr |-> a % Modulus, info |-> info]
NoValue == [ok |-> FALSE, value |-> 0, address |-> FALSE]
Value(v) == [ok |-> TRUE, value |-> v % Modulus, address |-> FALSE]

Read(m, a, size) == IF CanAccess(a, size) THEN Value(Load(m, a, size)) ELSE NoValue
ReadPlace(m, p) == IF p.ok THEN Read(m, p.addr, p.info.size) ELSE NoValue

(* cdbg_ast_resolve_lvalue, kind by kind, from what its parts have given.   *)
IdentPlace(x) ==
    IF x \in DOMAIN Variables
    THEN PlaceAt(Variables[x].addr, VariableInfo(Variables[x].type)) ELSE NoPlace

MemberOf(a, t, n) ==
    IF ~IsPointer(t) /\ t.base \in DOMAIN Members /\ n \in DOMAIN Members[t.base]
    THEN LET member == Members[t.base][n]
         IN  PlaceAt(a + member.offset, Info(member.type, SizeByName(member.type), FALSE))
    ELSE NoPlace

MemberPlace(p, n) == IF p.ok THEN MemberOf(p.addr, p.info.type, n) ELSE NoPlace

ArrowPlace(m, p, n) ==
    LET ptr == Read(m, p.addr, WordSize)
    IN  IF p.ok /\ IsPointer(p.info.type) /\ ptr.ok
        THEN MemberOf(ptr.value, Pointee(p.info.type), n) ELSE NoPlace

(* Mutant: the pointer is not read. *)
IndexPlaceUnread(m, p, i) ==
    LET t == p.info.type
        element == IF p.info.array THEN Element(t) ELSE Pointee(t)
    IN  IF p.ok /\ i.ok /\ (p.info.array => i.value < t.count)
        THEN PlaceAt(p.addr + i.value * ElementSize(element), TargetInfo(element))
        ELSE NoPlace

IndexPlace(m, p, i) ==
    LET t == p.info.type
        ptr == Read(m, p.addr, WordSize)
        element == IF p.info.array THEN Element(t) ELSE Pointee(t)
        first == IF p.info.array THEN p.addr ELSE ptr.value
    IN  IF /\ p.ok /\ i.ok
           /\ \/ p.info.array /\ i.value < t.count
              \/ ~p.info.array /\ IsPointer(t) /\ ptr.ok
        THEN PlaceAt(first + i.value * ElementSize(element), TargetInfo(element))
        ELSE NoPlace

(* The type of *e is known only where e is the name of a pointer.           *)
DerefPlace(e, v) ==
    LET p == IF e.kind = "ident" THEN IdentPlace(e.name) ELSE NoPlace
    IN  IF ~v.ok THEN NoPlace
        ELSE IF p.ok /\ IsPointer(p.info.type)
             THEN PlaceAt(v.value, TargetInfo(Pointee(p.info.type)))
             ELSE PlaceAt(v.value, Info(Untyped, WordSize, FALSE))

(* combine_binary, on unsigned words.  A shift by more bits than a word has *)
(* is undefined in C; the instructions of both processors take the count    *)
(* modulo that number.                                                      *)
Bitwise2(l, r, bit) ==
    LET low[i \in 0 .. Bits] ==
            IF i = 0 THEN 0
            ELSE low[i - 1] + bit[(l \div 2 ^ (i - 1)) % 2, (r \div 2 ^ (i - 1)) % 2] * 2 ^ (i - 1)
    IN  low[Bits]
Truth(b) == IF b THEN 1 ELSE 0

Combined(l, r, op) ==
    CASE op = "+"  -> l + r
      [] op = "-"  -> l + Modulus - r
      [] op = "*"  -> l * r
      [] op = "/"  -> l \div r
      [] op = "%"  -> l % r
      [] op = "<<" -> l * 2 ^ (r % Bits)
      [] op = ">>" -> l \div 2 ^ (r % Bits)
      [] op = "<"  -> Truth(l < r)
      [] op = ">"  -> Truth(l > r)
      [] op = "<=" -> Truth(l <= r)
      [] op = ">=" -> Truth(l >= r)
      [] op = "==" -> Truth(l = r)
      [] op = "!=" -> Truth(l # r)
      [] op = "&"  -> Bitwise2(l, r, [a, b \in 0 .. 1 |-> a * b])
      [] op = "|"  -> Bitwise2(l, r, [a, b \in 0 .. 1 |-> Truth(a + b > 0)])
      [] op = "^"  -> Bitwise2(l, r, [a, b \in 0 .. 1 |-> Truth(a # b)])
      [] op = "&&" -> Truth(l # 0 /\ r # 0)
      [] op = "||" -> Truth(l # 0 \/ r # 0)

BinaryValue(l, r, op) ==
    IF ~l.ok \/ ~r.ok \/ (op \in {"/", "%"} /\ r.value = 0) THEN NoValue
    ELSE Value(Combined(l.value, r.value, op))

UnaryValue(v, op) ==
    IF ~v.ok THEN NoValue
    ELSE CASE op = "pos"  -> v
           [] op = "neg"  -> Value(Modulus - v.value)
           [] op = "not"  -> Value(Truth(v.value = 0))
           [] op = "bnot" -> Value(Modulus - 1 - v.value)

(* cdbg_ast_is_lvalue_shaped *)
LvalueShaped(e) == e.kind \in {"ident", "member", "arrow", "index", "deref"}

AddressValue(e, p) ==
    IF LvalueShaped(e) /\ p.ok THEN [Value(p.addr) EXCEPT !.address = TRUE] ELSE NoValue
Pointed(m, v) == IF v.ok THEN Read(m, v.value, WordSize) ELSE NoValue

(* cdbg_ast_resolve_lvalue and cdbg_ast_eval, which call each other.        *)
RECURSIVE PlaceOf(_, _), ValueOf(_, _)
PlaceOf(m, e) ==
    CASE e.kind = "ident"  -> IdentPlace(e.name)
      [] e.kind = "member" -> MemberPlace(PlaceOf(m, e.of), e.name)
      [] e.kind = "arrow"  -> ArrowPlace(m, PlaceOf(m, e.of), e.name)
      [] e.kind = "index"  -> IndexPlace(m, PlaceOf(m, e.of), ValueOf(m, e.at))
      [] e.kind = "deref"  -> DerefPlace(e.of, ValueOf(m, e.of))
      [] OTHER -> NoPlace

ValueOf(m, e) ==
    CASE e.kind = "num"    -> Value(e.num)
      [] e.kind = "binop"  -> BinaryValue(ValueOf(m, e.of), ValueOf(m, e.at), e.op)
      [] e.kind = "unary"  -> UnaryValue(ValueOf(m, e.of), e.op)
      [] e.kind = "addr"   -> AddressValue(e.of, PlaceOf(m, e.of))
      [] e.kind = "deref"  -> Pointed(m, ValueOf(m, e.of))
      [] OTHER -> ReadPlace(m, PlaceOf(m, e))
-------------------------------------------------------------------------------
(* print with no format: a number, by the size and the sign of the place; a *)
(* pointer, and any value with no place, by the whole word.                 *)
Shown(v, info) ==
    IF info.type.unsigned \/ IsPointer(info.type) THEN v ELSE SignExtended(v, info.size)

NothingPrinted == <<>>
Printed(m, e) ==
    LET p == PlaceOf(m, e)
        v == IF LvalueShaped(e) THEN ReadPlace(m, p) ELSE ValueOf(m, e)
    IN  IF ~v.ok THEN NothingPrinted
        ELSE <<IF LvalueShaped(e) THEN Shown(v.value, p.info)
               ELSE IF v.address THEN v.value ELSE SignExtended(v.value, WordSize)>>

(* print of an array of scalars and of a struct: print_array_variable and   *)
(* print_struct_element read every part, a pointer in a struct as a number. *)
PrintedArray(m, p) ==
    LET t == Element(p.info.type)
    IN  [i \in 0 .. p.info.type.count - 1 |->
            LET v == Read(m, p.addr + i * ElementSize(t), ElementSize(t))
            IN  IF v.ok THEN <<Shown(v.value, TargetInfo(t))>> ELSE NothingPrinted]

PrintedStruct(m, p) ==
    [n \in DOMAIN Members[p.info.type.base] |->
        LET t == Members[p.info.type.base][n].type
            v == Read(m, p.addr + Members[p.info.type.base][n].offset, SizeByName(t))
        IN  IF ~v.ok THEN NothingPrinted
            ELSE <<IF t.unsigned THEN v.value ELSE SignExtended(v.value, SizeByName(t))>>]

(* resolve_set_lhs: neither an address nor a struct is assigned to. *)
Assignable(p) == p.ok /\ (p.info.type = Untyped \/ IsScalar(p.info.type))

(* cmd_set: the right side first, then the place, then the write.  Where    *)
(* Mach refuses it the bytes go one by one, and those before the first that *)
(* cannot be written stay.  An empty set is a command that has failed.      *)
Written(m, a, size, v) ==
    IF CanAccess(a, size) THEN {Store(m, a, size, v)}
    ELSE {m} \cup {Store(m, a, n, v) :
                     n \in {k \in 1 .. WordSize : a .. a + k - 1 \subseteq Memory
                                                 /\ a + k \notin Memory}}

SetResults(m, l, v) ==
    LET p == PlaceOf(m, l)
    IN  IF v.ok /\ ~v.address /\ LvalueShaped(l) /\ Assignable(p)
        THEN Written(m, p.addr, p.info.size, v.value) ELSE {}

RightSides == {ValueOf(cells, r) : r \in Expr}

SetCommand(v, l) ==
    /\ live /\ live' = live
    /\ cells' \in SetResults(cells, l, v)

(* The program itself may leave anything in its memory. *)
ProgramStore(a, b) ==
    /\ live /\ live' = live
    /\ cells' = [c \in Memory |-> IF c = a THEN b ELSE cells[c]]

ProgramStarts == live' = TRUE /\ cells' = cells

ValuesInit == live = FALSE /\ cells = [a \in Memory |-> 0]
ValuesNext ==
    \/ ProgramStarts
    \/ \E v \in RightSides, l \in Expr : SetCommand(v, l)
    \/ \E a \in Memory, b \in Bytes : ProgramStore(a, b)
ValuesTypeOK == live \in BOOLEAN /\ cells \in Cells
-------------------------------------------------------------------------------
(* The scalars the program declares, by the layout of C. *)
Ident(x) == [kind |-> "ident", name |-> x]
Num(k) == [kind |-> "num", num |-> k]
Lvalue(e, a, t) == [expr |-> e, addr |-> a, type |-> t]

Objects ==
    LET Scalars == {x \in DOMAIN Variables : Variables[x].type.count = 0
                                             /\ IsScalar(Variables[x].type)}
        Arrays == {x \in DOMAIN Variables : Variables[x].type.count > 0}
        Structs == {x \in DOMAIN Variables : Variables[x].type.stars = 0
                                             /\ Variables[x].type.base \in DOMAIN Members}
    IN  {Lvalue(Ident(x), Variables[x].addr, Variables[x].type) : x \in Scalars}
        \cup UNION {{Lvalue([kind |-> "index", of |-> Ident(x), at |-> Num(k)],
                            Variables[x].addr + k * ElementSize(Element(Variables[x].type)),
                            Element(Variables[x].type))
                      : k \in 0 .. Variables[x].type.count - 1} : x \in Arrays}
        \cup UNION {{Lvalue([kind |-> "member", of |-> Ident(x), name |-> n],
                            Variables[x].addr + Members[Variables[x].type.base][n].offset,
                            Members[Variables[x].type.base][n].type)
                      : n \in DOMAIN Members[Variables[x].type.base]} : x \in Structs}

Extent(o) == o.addr .. o.addr + SizeByName(o.type) - 1

(* The value v as an object of type t holds it: C's conversion. *)
Converted(v, t) ==
    LET range == Radix ^ SizeByName(t)
    IN  CHOOSE w \in (0 - Modulus) .. Modulus :
            /\ (w - v) % range = 0
            /\ IF t.unsigned \/ IsPointer(t) THEN 0 <= w /\ w < range
               ELSE 0 - range <= 2 * w /\ 2 * w < range

(* The whole an object is a part of, as print of the whole shows it. *)
ShownInWhole(m, e) ==
    LET whole == PlaceOf(m, e.of)
    IN  IF e.kind = "index" THEN PrintedArray(m, whole)[e.at.num]
        ELSE PrintedStruct(m, whole)[e.name]

ObjectsShown(m) == [o \in Objects |-> Printed(m, o.expr)]

(* What set writes into a variable, a member or an element is what print    *)
(* shows of it afterwards, converted to its type, also in the struct or the *)
(* array it is a part of; and every object that shares no byte with it is   *)
(* shown as before (cmd_set, cmd_print, print_array_variable,               *)
(* print_struct_element).                                                   *)
SetShown ==
    live =>
      LET before == ObjectsShown(cells)
      IN  \A o \in Objects, v \in 0 .. Modulus - 1 :
            \A m \in SetResults(cells, o.expr, Value(v)) :
              LET after == ObjectsShown(m)
              IN  /\ after[o] = <<Converted(v, o.type)>>
                  /\ o.expr.kind \in {"index", "member"} => ShownInWhole(m, o.expr) = after[o]
                  /\ \A other \in Objects :
                       Extent(other) \cap Extent(o) = {} => after[other] = before[other]

(* Expressions C says are the same object resolve to the same place: e->n,  *)
(* ( *e ).n and e[0].n; and &, * undo each other (cdbg_ast_resolve_lvalue). *)
(* Not so *e and e[0] where e is an array: * takes its contents for a       *)
(* pointer.                                                                 *)
SamePlace ==
    live =>
      LET p == [e \in Expr |-> PlaceOf(cells, e)]
          Same(e, d) == e \in Expr /\ p[e].ok /\ p[d].ok => p[e].addr = p[d].addr
      IN  \A e \in Expr :
            /\ e.kind = "arrow" =>
                 \A pointed \in {[kind |-> "deref", of |-> e.of],
                                 [kind |-> "index", of |-> e.of, at |-> Num(0)]} :
                     Same([kind |-> "member", of |-> pointed, name |-> e.name], e)
            /\ e.kind = "deref" =>
                 /\ e.of.kind = "addr" => Same(e.of.of, e)
                 /\ ~p[e.of].info.array => Same([kind |-> "index", of |-> e.of, at |-> Num(0)], e)
            /\ e.kind = "arrow" /\ e.of.kind = "addr" =>
                 Same([kind |-> "member", of |-> e.of.of, name |-> e.name], e)

(* What cannot be resolved as a place cannot be evaluated either, so print   *)
(* need not try (02, chapter 14.2); and where both work the operand has the  *)
(* bytes of the place at its low end, even where * reads a whole word.       *)
OperandSeesPlace ==
    live => \A e \in Expr : LvalueShaped(e) =>
        LET p == PlaceOf(cells, e)
            v == ValueOf(cells, e)
            r == ReadPlace(cells, p)
        IN  v.ok => /\ p.ok /\ r.ok
                    /\ v.value % Radix ^ Clamped(p.info.size) = r.value
===============================================================================
