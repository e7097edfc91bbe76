-------------------------------- MODULE Scopes --------------------------------
(***************************************************************************)
(* Which variable a name means: the three readers of the debug information *)
(* in src/src/debugger.c, find_local_var and find_global_var for print,    *)
(* set and watch, and collect_show_vars for show args, locals and globals. *)
(*                                                                         *)
(* Each of them reads what dwarfdump prints, entry (DIE) by entry, and     *)
(* knows of the tree no more than the indentation and the NULL at the end  *)
(* of the children.  The printer is external: it writes one compile unit   *)
(* the way LLVM does without optimization, parameters, then variables,     *)
(* then nested blocks, with one range of addresses each.  "home", the      *)
(* range of the scope a variable is declared in, is for the properties.    *)
(***************************************************************************)
EXTENDS Naturals, Sequences, FiniteSets

CONSTANTS VarNames,    (* names of variables                                 *)
          DataSyms,    (* names of data symbols, in the order of the table   *)
          FuncSizes,   (* addresses of the code of each function             *)
          MaxVars, MaxBlocks   (* bounds of the model                        *)

ASSUME ScopesAssumption ==
    /\ VarNames \subseteq STRING /\ DataSyms \in Seq(STRING)
    /\ FuncSizes \in Seq(Nat \ {0}) /\ MaxVars \in Nat /\ MaxBlocks \in Nat

VARIABLES dies,      (* the entries printed so far                            *)
          open,      (* the scopes whose children are being printed           *)
          printing

scopesVars == <<dies, open, printing>>

(* Where the code of the k-th function begins; the last ends before CodeEnd. *)
CodeStart[k \in 1 .. Len(FuncSizes) + 1] ==
    IF k = 1 THEN 1 ELSE CodeStart[k - 1] + FuncSizes[k - 1]
Pcs == 1 .. CodeStart[Len(FuncSizes) + 1]

Die(tag, depth, name, loc, low, high, home) ==
    [tag |-> tag, depth |-> depth, name |-> name, loc |-> loc,
     low |-> low, high |-> high, home |-> home]

Ranges == [low : Nat, high : Nat]
Dies == [tag : {"sub", "block", "param", "var", "null"}, depth : Nat,
         name : VarNames \cup {""}, loc : {"fbreg", "addr", "none"},
         low : Nat, high : Nat, home : Ranges]

ScopesTypeOK ==
    /\ dies \in Seq(Dies)
    /\ open \in Seq([low : Nat, high : Nat, free : Nat, kids : {"no", "params", "vars", "blocks"}])
    /\ printing \in BOOLEAN
-------------------------------------------------------------------------------
(* The printer. *)
Tagged(tags) == {i \in DOMAIN dies : dies[i].tag \in tags}
Functions == {i \in Tagged({"sub"}) : dies[i].high # 0}
Depth == Len(open) + 1
Inner == open[Len(open)]
Outer == SubSeq(open, 1, Len(open) - 1)
Home == IF open = <<>> THEN [low |-> 0, high |-> 0] ELSE [low |-> Inner.low, high |-> Inner.high]

PrintDie(die) == dies' = Append(dies, die) /\ printing' = printing
NowPrinting(kids) == Append(Outer, [Inner EXCEPT !.kids = kids])

PrintFunction ==
    /\ open = <<>> /\ Cardinality(Functions) < Len(FuncSizes)
    /\ LET k == Cardinality(Functions) + 1
           low == CodeStart[k]
           high == CodeStart[k + 1]
       IN  /\ PrintDie(Die("sub", Depth, "", "none", low, high, Home))
           /\ open' = <<[low |-> low, high |-> high, free |-> low, kids |-> "no"]>>

(* A function that is only declared has no addresses. *)
PrintDeclaration ==
    /\ open = <<>> /\ Tagged({"sub"}) = {}
    /\ PrintDie(Die("sub", Depth, "", "none", 0, 0, Home)) /\ open' = open

PrintGlobal(n, loc) ==
    /\ open = <<>> /\ loc \in {"addr", "none"}
    /\ PrintDie(Die("var", Depth, n, loc, 0, 0, Home)) /\ open' = open

PrintParam(n) ==
    /\ Len(open) = 1 /\ Inner.kids \in {"no", "params"}
    /\ PrintDie(Die("param", Depth, n, "fbreg", 0, 0, Home)) /\ open' = NowPrinting("params")

(* A static variable has an address; C allows no name twice in one scope. *)
PrintLocal(n, loc) ==
    /\ open # <<>> /\ Inner.kids # "blocks" /\ loc \in {"fbreg", "addr"}
    /\ \A i \in DOMAIN dies : dies[i].name = n => dies[i].home # Home
    /\ PrintDie(Die("var", Depth, n, loc, 0, 0, Home)) /\ open' = NowPrinting("vars")

PrintBlock(low, high) ==
    /\ open # <<>> /\ Cardinality(Tagged({"block"})) < MaxBlocks
    /\ Inner.free <= low /\ low < high /\ high <= Inner.high
    /\ Inner.low < low \/ high < Inner.high
    /\ PrintDie(Die("block", Depth, "", "none", low, high, Home))
    /\ open' = Append(Append(Outer, [Inner EXCEPT !.kids = "blocks", !.free = high]),
                      [low |-> low, high |-> high, free |-> low, kids |-> "no"])

(* The NULL behind the children, if there are any. *)
Close ==
    /\ open # <<>>
    /\ IF Inner.kids = "no" THEN UNCHANGED <<dies, printing>>
       ELSE PrintDie(Die("null", Depth, "", "none", 0, 0, Home))
    /\ open' = Outer

PrintEnd ==
    /\ open = <<>> /\ Tagged({"sub"}) # {}
    /\ dies' = Append(dies, Die("null", Depth, "", "none", 0, 0, Home))
    /\ printing' = FALSE /\ open' = open

PrinterNext ==
    /\ printing
    /\ \/ PrintFunction \/ PrintDeclaration \/ Close \/ PrintEnd
       \/ \E n \in VarNames, loc \in {"fbreg", "addr", "none"} :
            /\ Cardinality(Tagged({"param", "var"})) < MaxVars
            /\ PrintGlobal(n, loc) \/ PrintLocal(n, loc) \/ (loc = "fbreg" /\ PrintParam(n))
       \/ \E low, high \in Pcs : PrintBlock(low, high)
-------------------------------------------------------------------------------
(* pc_in_range; 0 is an address the entry does not have. *)
InRange(pc, d) == d.low # 0 /\ d.high # 0 /\ d.low <= pc /\ pc < d.high

(* find_local_var.  Ranges of blocks replace that of the function, and a    *)
(* variable is read only while the last range contains the pc.              *)
(* Mutant: the ranges of blocks are not looked at. *)
EnterFunctionOnly(s, d, pc) ==
    CASE d.tag = "sub" -> [s EXCEPT !.in = TRUE, !.depth = d.depth, !.matches = InRange(pc, d)]
      [] d.tag # "sub" /\ s.in /\ d.depth <= s.depth -> [s EXCEPT !.in = FALSE, !.matches = FALSE]
      [] OTHER -> s

Enter(s, d, pc) ==
    CASE d.tag = "sub" -> [s EXCEPT !.in = TRUE, !.depth = d.depth, !.matches = InRange(pc, d)]
      [] d.tag # "sub" /\ s.in /\ d.depth <= s.depth -> [s EXCEPT !.in = FALSE, !.matches = FALSE]
      [] d.tag = "block" /\ s.in /\ d.depth > s.depth -> [s EXCEPT !.matches = InRange(pc, d)]
      [] OTHER -> s

Outside == [in |-> FALSE, depth |-> 0, matches |-> FALSE]

(* The reader's state behind each entry. *)
LocalStates(pc) ==
    LET after[i \in 0 .. Len(dies)] ==
            IF i = 0 THEN Outside ELSE Enter(after[i - 1], dies[i], pc)
    IN  after

NoDie == 0
First(S) == IF S = {} THEN NoDie ELSE CHOOSE i \in S : \A j \in S : i <= j

FindLocal(pc) ==
    LET after == LocalStates(pc)
        read == {i \in Tagged({"param", "var"}) :
                   dies[i].loc = "fbreg" /\ after[i].in /\ after[i].matches}
    IN  [n \in VarNames |-> First({i \in read : dies[i].name = n})]

(* find_global_var: outside of functions, with an address. *)
FindGlobal ==
    LET after == LocalStates(0)
        read == {i \in Tagged({"var"}) : dies[i].loc = "addr" /\ ~after[i].in}
    IN  [n \in VarNames |-> First({i \in read : dies[i].name = n})]

(* resolve_variable_address; a data symbol is taken for an unsigned long.   *)
Resolve(pc) ==
    LET local == FindLocal(pc)
        global == FindGlobal
    IN  [n \in VarNames |->
            IF local[n] # NoDie THEN <<"local", local[n]>>
            ELSE IF global[n] # NoDie THEN <<"global", global[n]>>
            ELSE IF \E k \in DOMAIN DataSyms : DataSyms[k] = n THEN <<"symbol", NoDie>>
            ELSE <<"unknown", NoDie>>]
-------------------------------------------------------------------------------
(* collect_show_vars keeps the block apart from the function, and forgets   *)
(* it at the first NULL; in a function that does not match it does not see  *)
(* blocks, and takes their ranges for the function's.                       *)
ShowOutside == [in |-> FALSE, depth |-> 0, matches |-> FALSE, block |-> FALSE, inblock |-> FALSE]

(* Mutant: the range of a block is not looked at. *)
EnterShownAnyBlock(s, d, pc) ==
    CASE d.tag = "sub" ->
           [s EXCEPT !.in = TRUE, !.depth = d.depth, !.matches = ~s.block /\ InRange(pc, d)]
      [] d.tag # "sub" /\ s.in /\ d.depth <= s.depth -> ShowOutside
      [] d.tag = "block" /\ s.in /\ s.matches /\ d.depth > s.depth ->
           [s EXCEPT !.block = TRUE, !.inblock = TRUE]
      [] OTHER -> s

EnterShown(s, d, pc) ==
    CASE d.tag = "sub" ->
           [s EXCEPT !.in = TRUE, !.depth = d.depth, !.matches = ~s.block /\ InRange(pc, d)]
      [] d.tag # "sub" /\ s.in /\ d.depth <= s.depth -> ShowOutside
      [] d.tag = "block" /\ s.in /\ d.depth > s.depth ->
           IF s.matches THEN [s EXCEPT !.block = TRUE, !.inblock = InRange(pc, d)]
           ELSE [s EXCEPT !.matches = InRange(pc, d)]
      [] d.tag = "null" /\ s.block /\ (s.in => d.depth > s.depth) ->
           [s EXCEPT !.block = FALSE, !.inblock = FALSE]
      [] OTHER -> s

ShownStates(pc) ==
    LET after[i \in 0 .. Len(dies)] ==
            IF i = 0 THEN ShowOutside ELSE EnterShown(after[i - 1], dies[i], pc)
    IN  after

Included(scope, pc) ==
    LET after == ShownStates(pc)
        Wanted(d, s) ==
            CASE scope = "args"    -> d.tag = "param" /\ d.loc = "fbreg" /\ s.in /\ s.matches
              [] scope = "locals"  -> /\ d.tag = "var" /\ d.loc = "fbreg" /\ s.in /\ s.matches
                                      /\ s.block => s.inblock
              [] scope = "globals" -> d.tag = "var" /\ d.loc = "addr" /\ ~s.in /\ ~s.block
    IN  {i \in Tagged({"param", "var"}) : Wanted(dies[i], after[i])}

(* show_var_push: a name is listed once. *)
Show(scope, pc) ==
    LET all == Included(scope, pc)
    IN  [n \in VarNames |-> First({i \in all : dies[i].name = n})]
-------------------------------------------------------------------------------
ScopesInit == dies = <<>> /\ open = <<>> /\ printing = TRUE
ScopesNext == PrinterNext \/ (~printing /\ UNCHANGED scopesVars)
ScopesSpec == ScopesInit /\ [][ScopesNext]_scopesVars

(* The automatic variables of C that can be named at pc. *)
Visible(n, pc) ==
    {i \in Tagged({"param", "var"}) :
        dies[i].name = n /\ dies[i].loc = "fbreg" /\ InRange(pc, dies[i].home)}

(* print finds a local variable of a name at exactly the addresses where C   *)
(* sees one, and finds one that is in scope there: none of another block or  *)
(* function, however blocks nest and follow each other (find_local_var).     *)
LocalIsVisible ==
    ~printing => \A pc \in Pcs :
        LET found == Resolve(pc)
        IN  \A n \in VarNames :
                IF Visible(n, pc) = {} THEN found[n][1] # "local"
                ELSE found[n][1] = "local" /\ found[n][2] \in Visible(n, pc)

(* print and show mean the same variable: what print resolves a name to is   *)
(* the argument show args lists under it, or else the local variable, or     *)
(* else the global one (find_local_var, find_global_var, collect_show_vars). *)
PrintShowAgree ==
    ~printing => \A pc \in Pcs :
        LET found == Resolve(pc)
            args == Show("args", pc)
            locals == Show("locals", pc)
            globals == Show("globals", pc)
        IN  \A n \in VarNames :
                found[n][2] = IF args[n] # NoDie THEN args[n]
                              ELSE IF locals[n] # NoDie THEN locals[n]
                              ELSE globals[n]
===============================================================================
