------------------------------- MODULE MCInspect -------------------------------
(***************************************************************************)
(* What the debugger shows of a program: the line table and its second     *)
(* reader, the symbols, the stack, scopes, values and the registers of     *)
(* watchpoints, one small instance of each.  They share no state.          *)
(* "subject" is the one a behaviour is about; the others stay as they      *)
(* begin.                                                                  *)
(***************************************************************************)
EXTENDS LineTable, LineProgram, Symbols, Frames, Scopes, Values, DebugRegisters, TLC

VARIABLE subject

InspectInit ==
    /\ subject \in {"lines", "program", "symbols", "frames", "scopes", "values", "registers"}
    /\ Init /\ LineProgramInit /\ SymbolsInit /\ FramesInit
    /\ ScopesInit /\ ValuesInit /\ RegistersInit
    /\ subject # "program" => header = CHOOSE h \in Headers : TRUE
    /\ subject # "frames" => stack[rsp + 1] = CHOOSE v \in Junk : TRUE
    /\ subject # "registers" => arch = "x86_64"

InspectNext ==
    /\ UNCHANGED subject
    /\ \/ /\ subject = "lines" /\ Next
          /\ UNCHANGED <<lineProgramVars, symbolsVars, framesVars, scopesVars, valuesVars,
                         registersVars>>
       \/ /\ subject = "program" /\ LineProgramNext
          /\ UNCHANGED <<vars, symbolsVars, framesVars, scopesVars, valuesVars, registersVars>>
       \/ /\ subject = "symbols" /\ SymbolsNext
          /\ UNCHANGED <<vars, lineProgramVars, framesVars, scopesVars, valuesVars,
                         registersVars>>
       \/ /\ subject = "frames" /\ FramesNext
          /\ UNCHANGED <<vars, lineProgramVars, symbolsVars, scopesVars, valuesVars,
                         registersVars>>
       \/ /\ subject = "scopes" /\ ScopesNext
          /\ UNCHANGED <<vars, lineProgramVars, symbolsVars, framesVars, valuesVars,
                         registersVars>>
       \/ /\ subject = "values" /\ ValuesNext
          /\ UNCHANGED <<vars, lineProgramVars, symbolsVars, framesVars, scopesVars,
                         registersVars>>
       \/ /\ subject = "registers" /\ RegistersNext
          /\ UNCHANGED <<vars, lineProgramVars, symbolsVars, framesVars, scopesVars, valuesVars>>

inspectVars == <<subject, vars, lineProgramVars, symbolsVars, framesVars, scopesVars,
                 valuesVars, registersVars>>

InspectSpec == InspectInit /\ [][InspectNext]_inspectVars

(* Every variable of every part keeps to the values the code's types and     *)
(* tables allow.                                                             *)
InspectTypeOK ==
    /\ LineTypeOK /\ LineProgramTypeOK /\ SymbolsTypeOK /\ FramesTypeOK
    /\ ScopesTypeOK /\ ValuesTypeOK /\ RegistersTypeOK
-------------------------------------------------------------------------------
(* LineTable: two functions and an undefined symbol, two source files of     *)
(* which one may lie in a directory, and two loads.                          *)
MCSyms == << [name |-> "printf", address |-> 0, type |-> "U"],
             [name |-> "main", address |-> 1, type |-> "T"],
             [name |-> "f", address |-> 3, type |-> "t"] >>
Named(n) == {p \in Path : p[2] = n}
MCFilters == {Path} \cup {Named(n) : n \in Names}
Alike == Permutations(Names)
MCSpecs == {[kind |-> "line", filter |-> Path, line |-> 5],
            [kind |-> "fn", name |-> "f"]}

(* LineProgram: a header as clang writes it, scaled down, and one without    *)
(* the opcodes of DWARF 3 for instructions of four bytes.                    *)
MCLengths == <<0, 1, 1, 1, 1, 0, 0, 0, 1, 0, 0, 1>>
MCHeaders == {[opcode_base |-> 13, line_base |-> -1, line_range |-> 4, min_inst_length |-> 1,
               std_lengths |-> MCLengths],
              [opcode_base |-> 10, line_base |-> -2, line_range |-> 3, min_inst_length |-> 4,
               std_lengths |-> SubSeq(MCLengths, 1, 9)]}
MCIsas == {<<1>>}
MCFilePaths == <<"a.c", "b.h">>

(* Symbols: a function, a variable and an undefined symbol. *)
MCNoOffset == -1
MCOffsets == [main |-> 1, data |-> 3, puts |-> MCNoOffset]

(* Frames: two functions; words are addresses of the stack or of code.   *)
MCEntries == {20, 30}
MCJunk == {7, 20}

(* Scopes: one function with room for blocks and a short one behind it.      *)
MCDataSyms == <<"y">>
MCFuncSizes == <<3, 1>>

(* Values: bits for bytes and words of three.  A pair is an int at 0 and a   *)
(* char at 2; i lies over s, and c over the end of a.                        *)
CType(b, u, s, k) == [base |-> b, unsigned |-> u, stars |-> s, count |-> k]
Var(t, a) == [type |-> t, addr |-> a]
MCVariables ==
    [p |-> Var(CType("pair", FALSE, 1, 0), 1), q |-> Var(CType("int", FALSE, 1, 0), 1),
     s |-> Var(CType("pair", FALSE, 0, 0), 4), a |-> Var(CType("char", FALSE, 0, 2), 6),
     i |-> Var(CType("int", FALSE, 0, 0), 4),  c |-> Var(CType("char", TRUE, 0, 0), 7)]
MCMembers == [pair |-> [m |-> [type |-> CType("int", FALSE, 0, 0), offset |-> 0],
                        n |-> [type |-> CType("char", FALSE, 0, 0), offset |-> 2]]]
MCStructSize == [pair |-> 3]
MCScalarWord == [char |-> "char", int |-> "int", long |-> "long", pair |-> "none"]
MCScalarSize == [char |-> 1, int |-> 2, long |-> 3]

Unary(op, e) == [kind |-> "unary", op |-> op, of |-> e]
Binop(op, e, d) == [kind |-> "binop", op |-> op, of |-> e, at |-> d]
AddrOf(e) == [kind |-> "addr", of |-> e]
Deref(e) == [kind |-> "deref", of |-> e]
Member(e, n) == [kind |-> "member", of |-> e, name |-> n]
Arrow(e, n) == [kind |-> "arrow", of |-> e, name |-> n]
Index(e, d) == [kind |-> "index", of |-> e, at |-> d]

MCIdents == {Ident(x) : x \in DOMAIN MCVariables} \cup {Ident("none")}
MCNums == {Num(k) : k \in {0, 1, 2, 7}}
MCPointers == {Ident("p"), Ident("q")}
MCOps == {"+", "-", "*", "/", "%", "<<", ">>", "<", ">", "<=", ">=", "==", "!=",
          "&", "|", "^", "&&", "||"}
MCExpr ==
    MCIdents \cup MCNums
    \cup {Unary(op, Ident("i")) : op \in {"pos", "neg", "not", "bnot"}}
    \cup {Binop(op, Ident("c"), Ident("i")) : op \in MCOps}
    \cup {AddrOf(e) : e \in MCIdents \cup {Num(1)}}
    \cup {Deref(e) : e \in MCPointers \cup {Ident("a"), Num(2), AddrOf(Ident("i"))}}
    \cup {Index(e, d) : e \in MCPointers, d \in {Num(0), Num(1)}}
    \cup {Index(Ident("a"), d) : d \in MCNums \cup {Ident("i")}}
    \cup {Member(e, n) : e \in {Ident("s"), Deref(Ident("p")), Index(Ident("p"), Num(0))},
                         n \in {"m", "n"}}
    \cup {Arrow(e, n) : e \in MCPointers, n \in {"m", "n"}}
    \cup {Binop("+", Ident("q"), Num(1)), Deref(Binop("+", Ident("q"), Num(1))),
          Arrow(AddrOf(Ident("s")), "n")}

(* The parts of an expression are expressions. *)
ASSUME MCExprAssumption ==
    \A e \in MCExpr : \A f \in {"of", "at"} \cap DOMAIN e : e[f] \in MCExpr
===============================================================================
