----------------------------- MODULE InspectProofs -----------------------------
(***************************************************************************)
(* Proofs about three parts that only read or only write memory and        *)
(* registers: Symbols (whichever source they came from, at the first stop  *)
(* they are where the image is), LineProgram (the second reader of the     *)
(* line table has the rows that were meant, whatever their encoding) and   *)
(* DebugRegisters (after any order of watch and unwatch the registers      *)
(* cover what the table says), for every value of the constants.           *)
(***************************************************************************)
EXTENDS Symbols, LineProgram, DebugRegisters, SequenceTheorems, WellFoundedInduction, TLAPS

(***************************************************************************)
(* Symbols.                                                                *)
(***************************************************************************)
(* The dSYM is of the link of the executable, and has its symbols.           *)
OneLink ==
    stage # "none" =>
        /\ exe.there
        /\ dsym.there => dsym.text = exe.text /\ ~dsym.stripped

(* What makes a table good for an executable: its base is where __TEXT was   *)
(* linked, its addresses are those of one link, and no symbol is missing.    *)
GoodEntries(entries) ==
    /\ \A e \in entries : e.name \in Symbol /\ e.address = Linked(exe, e.name)
    /\ ~exe.stripped => Symbol \subseteq {e.name : e \in entries}

TableGood ==
    stage \in {"loaded", "spawned", "stopped"} /\ exe.thin =>
        /\ GoodEntries(symtab)
        /\ symtab # {} => syms_base = exe.text
        /\ has_lines => lineno_base = exe.text

ImageOfExe == stage \in {"spawned", "stopped"} => image.text = exe.text

(* At the first stop both slides are the distance the image has moved.       *)
SlidesGood ==
    stage = "stopped" /\ exe.thin =>
        /\ symtab # {} => syms_slide = image.at - syms_base
        /\ has_lines => lineno_slide = image.at - lineno_base

SymInv == SymbolsTypeOK /\ OneLink /\ TableGood /\ ImageOfExe /\ SlidesGood
-------------------------------------------------------------------------------
(* The objects the linker has left.                                          *)
LEMMA ObjectTypes ==
    ASSUME SymbolsTypeOK
    PROVE  exe \in Object /\ dsym \in Object
BY DEF SymbolsTypeOK, exe, dsym

(* The symbol a failing nm may have printed is one of the program.           *)
LEMMA DefinedSymbol == (CHOOSE s \in Symbol : Offsets[s] # NoOffset) \in Symbol
BY SymbolsAssumption DEF Symbol

LEMMA EntriesTyped ==
    ASSUME NEW o \in Object, NEW names \in SUBSET Symbol
    PROVE  EntriesOf(o, names) \subseteq Entry
<1>1. ASSUME NEW s \in Symbol PROVE Linked(o, s) \in Nat
  <2>1. o.text \in Nat
    BY SymbolsAssumption DEF Object
  <2>2. Offsets[s] = NoOffset \/ Offsets[s] \in Nat
    BY SymbolsAssumption DEF Symbol
  <2>3. QED
    BY <2>1, <2>2 DEF Linked
<1>2. QED
  BY <1>1 DEF EntriesOf, Entry

(* What nm and the Mach-O reader take from an object are entries of it.      *)
LEMMA EntriesFrom ==
    ASSUME NEW o \in Object
    PROVE  \A S \in {NmEntries(o), MachoEntries(o)} :
               \E names \in SUBSET Symbol : S = EntriesOf(o, names)
<1>1. {} = EntriesOf(o, {})
  BY DEF EntriesOf
<1>2. \E names \in SUBSET Symbol : MachoEntries(o) = EntriesOf(o, names)
  BY <1>1 DEF MachoEntries, Listing
<1>3. \E names \in SUBSET Symbol : NmEntries(o) = EntriesOf(o, names)
  <2>1. CASE o.nm = "ok"
    BY <2>1 DEF NmEntries, Listing
  <2>2. CASE o.nm = "part"
    BY <2>2, DefinedSymbol DEF NmEntries
  <2>3. CASE o.nm = "fails"
    BY <1>1, <2>3 DEF NmEntries
  <2>4. QED
    BY <2>1, <2>2, <2>3 DEF Object
<1>4. QED
  BY <1>2, <1>3

LEMMA SourceTyped ==
    ASSUME NEW o \in Object
    PROVE  NmEntries(o) \subseteq Entry /\ MachoEntries(o) \subseteq Entry
           /\ TextOf(o) \in TextBases \cup {0}
BY EntriesFrom, EntriesTyped DEF TextOf, Object

LEMMA LoadedTyped ==
    ASSUME SymbolsTypeOK
    PROVE  SymsLoaded.entries \subseteq Entry /\ SymsLoaded.base \in TextBases \cup {0}
<1>1. exe \in Object /\ dsym \in Object
  BY ObjectTypes
<1>2. \A T \in {AfterNmExe, AfterNmDsym, AfterMacho, AfterMachoDsym} :
         T.entries \subseteq Entry /\ T.base \in TextBases \cup {0}
  BY <1>1, SourceTyped DEF AfterNmExe, AfterNmDsym, AfterMacho, AfterMachoDsym, Table
<1>3. QED
  BY <1>2 DEF SymsLoaded
-------------------------------------------------------------------------------
(* Entries of an object of the link have the executable's addresses.         *)
LEMMA SameLink ==
    ASSUME NEW o, o.text = exe.text, NEW names
    PROVE  /\ \A e \in EntriesOf(o, names) : e.name \in names /\ e.address = Linked(exe, e.name)
           /\ {e.name : e \in EntriesOf(o, names)} = names
<1>1. ASSUME NEW s \in names
      PROVE  /\ [name |-> s, address |-> Linked(o, s)] \in EntriesOf(o, names)
             /\ [name |-> s, address |-> Linked(o, s)].name = s
  BY DEF EntriesOf
<1>2. ASSUME NEW e \in EntriesOf(o, names)
      PROVE  e.name \in names /\ e.address = Linked(exe, e.name)
  BY DEF EntriesOf, Linked
<1>3. QED
  BY <1>1, <1>2

(* Each of the four sources cdbg_syms_load may end with leaves a good table  *)
(* of an executable that can be read: the entries are of one link, those of  *)
(* a source that failed included, and a base is read with the last of them.  *)
LEMMA LoadedGood ==
    ASSUME SymbolsTypeOK, OneLink, stage # "none", exe.thin
    PROVE  GoodEntries(SymsLoaded.entries) /\ SymsLoaded.base = exe.text
<1>1. /\ exe \in Object /\ dsym \in Object /\ exe.text \in Nat \ {0}
      /\ dsym.there => dsym.text = exe.text /\ ~dsym.stripped
  BY ObjectTypes, SymbolsAssumption DEF OneLink, Object
<1>2. ASSUME NEW o \in {exe, dsym}, o.text = exe.text, NEW e \in NmEntries(o) \cup MachoEntries(o)
      PROVE  e.name \in Symbol /\ e.address = Linked(exe, e.name)
  BY <1>1, <1>2, EntriesFrom, SameLink
<1>3. ASSUME NEW o \in {exe, dsym}, o.text = exe.text, o.nm = "ok", ~o.stripped
      PROVE  Symbol = {e.name : e \in NmEntries(o)}
  BY <1>3, SameLink DEF NmEntries, Listing
<1>4. ~exe.stripped => Symbol = {e.name : e \in MachoEntries(exe)}
  BY SameLink DEF MachoEntries, Listing
<1>5. CASE SymsLoaded = AfterNmExe /\ NmLoaded(AfterNmExe.entries, exe)
  BY <1>2, <1>3, <1>5 DEF AfterNmExe, Table, GoodEntries, TextOf, NmLoaded
<1>6. CASE SymsLoaded = AfterNmDsym /\ dsym.there /\ NmLoaded(AfterNmDsym.entries, dsym)
  <2>1. /\ SymsLoaded.entries = NmEntries(exe) \cup NmEntries(dsym)
        /\ SymsLoaded.base = exe.text
    BY <1>6 DEF AfterNmDsym, AfterNmExe, Table, TextOf
  <2>2. Symbol = {e.name : e \in NmEntries(dsym)}
    BY <1>1, <1>3, <1>6 DEF NmLoaded
  <2>3. QED
    BY <1>1, <1>2, <1>6, <2>1, <2>2 DEF GoodEntries
<1>7. CASE SymsLoaded = AfterMacho
  BY <1>2, <1>4, <1>7 DEF AfterMacho, Table, GoodEntries, TextOf
<1>8. CASE SymsLoaded = AfterMachoDsym /\ dsym.there /\ AfterMacho.entries = {}
  <2>1. AfterMacho.base = exe.text /\ MachoEntries(exe) = {}
    BY <1>8 DEF AfterMacho, Table, TextOf
  <2>2. SymsLoaded.entries = MachoEntries(dsym) /\ SymsLoaded.base = exe.text
    BY <1>1, <1>8, <2>1 DEF AfterMachoDsym, Table
  <2>3. ~exe.stripped => Symbol = {}
    BY <1>4, <2>1
  <2>4. QED
    BY <1>1, <1>2, <1>8, <2>2, <2>3 DEF GoodEntries
<1>9. QED
  BY <1>5, <1>6, <1>7, <1>8 DEF SymsLoaded
-------------------------------------------------------------------------------
(* cdbg_load_symbols *)
LEMMA LoadInv == ASSUME SymInv, NEW lines \in BOOLEAN, LoadSymbols(lines) PROVE SymInv'
<1>1. /\ stage # "none" /\ stage' = "loaded" /\ UNCHANGED <<objects, image>>
      /\ symtab' = SymsLoaded.entries /\ syms_base' = SymsLoaded.base
      /\ has_lines' = lines /\ lineno_base' = IF lines THEN TextOf(exe) ELSE 0
      /\ syms_slide' = 0 /\ lineno_slide' = 0
  BY DEF LoadSymbols
<1>2. exe' = exe /\ dsym' = dsym
  BY <1>1 DEF exe, dsym
<1>3. SymbolsTypeOK'
  <2>1. TextOf(exe) \in TextBases \cup {0}
    BY ObjectTypes, SourceTyped DEF SymInv
  <2>2. QED
    BY <1>1, <2>1, LoadedTyped DEF SymInv, SymbolsTypeOK
<1>4. OneLink'
  BY <1>1, <1>2 DEF SymInv, OneLink
<1>5. TableGood'
  <2>1. SUFFICES ASSUME exe.thin
                 PROVE  /\ GoodEntries(SymsLoaded.entries)
                        /\ SymsLoaded.base = exe.text /\ TextOf(exe) = exe.text
    BY <1>1, <1>2 DEF TableGood, GoodEntries, Linked
  <2>2. QED
    BY <1>1, <2>1, LoadedGood DEF SymInv, TextOf
<1>6. ImageOfExe' /\ SlidesGood'
  BY <1>1 DEF ImageOfExe, SlidesGood
<1>7. QED
  BY <1>3, <1>4, <1>5, <1>6 DEF SymInv

(* Both slides are differences of addresses.                                 *)
LEMMA SlidTyped ==
    ASSUME SymbolsTypeOK, NEW at \in LoadBases, Slid(at)
    PROVE  {syms_slide', lineno_slide'} \subseteq Int
<1>1. syms_base \in TextBases \cup {0} /\ lineno_base \in TextBases \cup {0}
      /\ syms_slide \in Int /\ lineno_slide \in Int
  BY DEF SymbolsTypeOK
<1>2. at \in Int /\ syms_base \in Int /\ lineno_base \in Int
  BY <1>1, SymbolsAssumption
<1>3. QED
  BY <1>1, <1>2 DEF Slid

(* cdbg_spawn and the end of cdbg_run *)
LEMMA SpawnInv ==
    ASSUME SymInv, NEW load \in LoadBases, NEW seen \in LoadBases, Spawn(load, seen)
    PROVE  SymInv'
<1>1. /\ stage = "loaded" /\ stage' = "spawned" /\ Slid(seen)
      /\ image' = [text |-> exe.text, at |-> load] /\ UNCHANGED <<objects, tables>>
  BY DEF Spawn
<1>2. exe' = exe /\ dsym' = dsym
  BY <1>1 DEF exe, dsym
<1>3. SymbolsTypeOK'
  BY <1>1, SlidTyped, ObjectTypes DEF SymInv, SymbolsTypeOK, tables, Object
<1>4. OneLink' /\ TableGood'
  BY <1>1, <1>2 DEF SymInv, OneLink, TableGood, GoodEntries, Linked, tables
<1>5. ImageOfExe' /\ SlidesGood'
  BY <1>1, <1>2 DEF ImageOfExe, SlidesGood
<1>6. QED
  BY <1>3, <1>4, <1>5 DEF SymInv

LEMMA FirstStopInv == SymInv /\ FirstStop => SymInv'
<1> SUFFICES ASSUME SymInv, FirstStop PROVE SymInv'
  OBVIOUS
<1>1. /\ stage = "spawned" /\ stage' = "stopped" /\ Slid(image.at)
      /\ UNCHANGED <<objects, tables, image>>
  BY DEF FirstStop
<1>2. exe' = exe /\ dsym' = dsym
  BY <1>1 DEF exe, dsym
<1>3. SymbolsTypeOK'
  BY <1>1, SlidTyped DEF SymInv, SymbolsTypeOK, tables
<1>4. OneLink' /\ TableGood' /\ ImageOfExe'
  BY <1>1, <1>2 DEF SymInv, OneLink, TableGood, GoodEntries, Linked, ImageOfExe, tables
<1>5. SlidesGood'
  BY <1>1 DEF SlidesGood, Slid, tables
<1>6. QED
  BY <1>3, <1>4, <1>5 DEF SymInv

(* make *)
LEMMA BuildInv ==
    ASSUME SymInv, NEW text \in TextBases, NEW dsym_too \in BOOLEAN, Build(text, dsym_too)
    PROVE  SymInv'
<1>1. PICK o \in Object, d \in Object :
         /\ o.there /\ o.text = text /\ d.there /\ d.text = text /\ ~d.stripped
         /\ objects' = [exe |-> o, dsym |-> IF dsym_too THEN d ELSE Missing(text)]
  BY DEF Build
<1>2. stage' = "built" /\ UNCHANGED <<tables, slides, image>>
  BY DEF Build
<1>3. Missing(text) \in Object
  BY DEF Missing, Object
<1>4. SymbolsTypeOK'
  BY <1>1, <1>2, <1>3 DEF SymInv, SymbolsTypeOK, tables, slides
<1>5. OneLink'
  BY <1>1, <1>2 DEF OneLink, exe, dsym, Missing
<1>6. TableGood' /\ ImageOfExe' /\ SlidesGood'
  BY <1>2 DEF TableGood, ImageOfExe, SlidesGood
<1>7. QED
  BY <1>4, <1>5, <1>6 DEF SymInv

LEMMA SymbolsInitInv == SymbolsInit => SymInv
<1> SUFFICES ASSUME SymbolsInit PROVE SymInv
  OBVIOUS
<1> DEFINE t == CHOOSE t \in TextBases : TRUE
           b == CHOOSE b \in LoadBases : TRUE
<1>1. t \in TextBases /\ b \in LoadBases
  BY SymbolsAssumption
<1>2. SymbolsTypeOK
  <2>1. Missing(t) \in Object
    BY <1>1 DEF Missing, Object
  <2>2. objects = [exe |-> Missing(t), dsym |-> Missing(t)] /\ image = [text |-> t, at |-> b]
    BY DEF SymbolsInit
  <2> HIDE DEF t, b
  <2>3. objects \in [{"exe", "dsym"} -> Object] /\ image \in [text : TextBases, at : LoadBases]
    BY <1>1, <2>1, <2>2
  <2>4. /\ symtab = {} /\ syms_base = 0 /\ has_lines = FALSE /\ lineno_base = 0
        /\ syms_slide = 0 /\ lineno_slide = 0 /\ stage = "none"
    BY DEF SymbolsInit
  <2>5. symtab \subseteq Entry /\ {syms_base, lineno_base} \subseteq TextBases \cup {0}
        /\ has_lines \in BOOLEAN /\ stage \in {"none", "built", "loaded", "spawned", "stopped"}
    BY <2>4
  <2>6. {syms_slide, lineno_slide} \subseteq Int
    BY <2>4
  <2>7. QED
    BY <2>3, <2>5, <2>6, Zenon DEF SymbolsTypeOK
<1>3. OneLink /\ TableGood /\ ImageOfExe /\ SlidesGood
  BY DEF SymbolsInit, OneLink, TableGood, ImageOfExe, SlidesGood
<1>4. QED
  BY <1>2, <1>3 DEF SymInv

LEMMA SymbolsNextInv == SymInv /\ [SymbolsNext]_symbolsVars => SymInv'
<1> SUFFICES ASSUME SymInv, [SymbolsNext]_symbolsVars PROVE SymInv'
  OBVIOUS
<1>1. CASE UNCHANGED symbolsVars
  BY <1>1 DEF SymInv, SymbolsTypeOK, OneLink, TableGood, GoodEntries, Linked, ImageOfExe, SlidesGood,
              exe, dsym, symbolsVars, tables, slides
<1>2. CASE SymbolsNext
  BY <1>2, BuildInv, LoadInv, SpawnInv, FirstStopInv DEF SymbolsNext
<1>3. QED
  BY <1>1, <1>2

LEMMA SymInvariance == SymbolsSpec => []SymInv
BY SymbolsInitInv, SymbolsNextInv, PTL DEF SymbolsSpec

(* Types: the table, the bases and the slides, whatever is built and loaded.   *)
THEOREM SymbolsTyping == SymbolsSpec => []SymbolsTypeOK
<1>1. SymInv => SymbolsTypeOK
  BY DEF SymInv
<1>2. QED
  BY <1>1, SymInvariance, PTL

(* From the first stop on every defined symbol and every line is where the    *)
(* image is, whichever source the symbols came from, whatever a source that   *)
(* failed has left, and whatever slide cdbg_spawn has seen too early.         *)
THEOREM SymbolsAreFollowed == SymbolsSpec => []SymbolsFollowImage
<1>1. ASSUME SymInv PROVE SymbolsFollowImage
  <2>1. SUFFICES ASSUME stage = "stopped", exe.thin
                 PROVE  /\ \A e \in symtab : e.address # 0 =>
                             e.address + syms_slide = image.at + Offsets[e.name]
                        /\ has_lines => lineno_slide = image.at - image.text
                        /\ ~exe.stripped => {e.name : e \in symtab} = Symbol
    BY DEF SymbolsFollowImage
  <2>2. /\ GoodEntries(symtab) /\ image.text = exe.text
        /\ symtab # {} => syms_slide = image.at - exe.text
        /\ has_lines => lineno_slide = image.at - exe.text
    BY <1>1, <2>1 DEF SymInv, TableGood, ImageOfExe, SlidesGood
  <2>3. exe.text \in Nat /\ image.at \in Nat
    BY <1>1, ObjectTypes, SymbolsAssumption DEF SymInv, SymbolsTypeOK, Object
  <2>4. ASSUME NEW e \in symtab, e.address # 0
        PROVE  e.address + syms_slide = image.at + Offsets[e.name]
    <3>1. e.name \in Symbol /\ e.address = Linked(exe, e.name)
      BY <2>2, <2>4 DEF GoodEntries
    <3>2. Offsets[e.name] \in Nat /\ e.address = exe.text + Offsets[e.name]
      BY <2>4, <3>1, SymbolsAssumption DEF Linked, Symbol
    <3>3. syms_slide = image.at - exe.text
      BY <2>2, <2>4
    <3>4. QED
      BY <2>3, <3>2, <3>3
  <2>5. ~exe.stripped => {e.name : e \in symtab} = Symbol
    BY <2>2 DEF GoodEntries
  <2>6. QED
    BY <2>2, <2>4, <2>5
<1>2. QED
  BY <1>1, SymInvariance, PTL
-------------------------------------------------------------------------------
(***************************************************************************)
(* LineProgram.                                                            *)
(***************************************************************************)
LEMMA Division ==
    ASSUME NEW m \in Nat \ {0}, NEW r \in 0 .. m - 1, NEW n \in Nat
    PROVE  (r + (m * n)) % m = r /\ (r + (m * n)) \div m = n
OBVIOUS

LEMMA Distributes ==
    ASSUME NEW n \in Int, NEW c \in Int, NEW m \in Int, NEW a \in Int
    PROVE  (a + (c * m)) + ((n - c) * m) = a + (n * m)
OBVIOUS

(* The operands of set_isa are of the length the reader steps over. *)
OneByteIsas == \A i \in Isas : Len(i) = 1

Header ==
    {h \in [opcode_base : 10 .. 13, line_base : Int, line_range : Nat \ {0},
            min_inst_length : Nat, std_lengths : Seq(Nat)] :
        /\ h.std_lengths[6] = 0 /\ h.std_lengths[7] = 0
        /\ h.opcode_base > 12 => h.std_lengths[12] = 1}
RegisterFile == [address : Int, line : Int, file_index : Int]

ProgramTypes ==
    /\ header \in Header /\ code \in Seq(Int)
    /\ state \in RegisterFile /\ now \in RegisterFile

-------------------------------------------------------------------------------
(* What is left of the code of a row: c is left, s the registers of the      *)
(* reader, row what is meant.                                                *)
Advanced(s, a) == [s EXCEPT !.address = @ + a]
Constant(h) == ((LastOpcode - h.opcode_base) \div h.line_range) * h.min_inst_length

AtCopy(row, c, s) == c = <<1>> /\ s = row
AtLine(row, c, s) ==
    \E l \in Int, o \in Lebs :
        Signed(o) = l /\ c = Std(3, o, <<1>>) /\ [s EXCEPT !.line = @ + l] = row
AtSpecial(h, row, c, s) ==
    \E n \in Nat, r \in 0 .. h.line_range - 1 :
        /\ c = <<(r + (h.line_range * n)) + h.opcode_base>>
        /\ [Advanced(s, n * h.min_inst_length) EXCEPT !.line = @ + (h.line_base + r)] = row
AtRow(h, row, c, s) ==
    \/ AtSpecial(h, row, c, s)
    \/ \E d \in Seq(Int) : c = Std(8, <<>>, d) /\ AtSpecial(h, row, d, Advanced(s, Constant(h)))
    \/ \E n \in Int, o \in Lebs, d \in Seq(Int) :
          /\ Unsigned(o) = n /\ c = Std(2, o, d)
          /\ AtLine(row, d, Advanced(s, n * h.min_inst_length))
    \/ \E n \in Int, b \in Seq(Int), d \in Seq(Int) :
          /\ Len(b) = 2 /\ Word(b) = n /\ c = Std(9, b, d)
          /\ AtLine(row, d, Advanced(s, n))
AtFile(h, row, c, s) ==
    \/ AtRow(h, row, c, s)
    \/ \E f \in Int, o \in Lebs, d \in Seq(Int) :
          /\ Unsigned(o) = f /\ c = Std(4, o, d)
          /\ AtRow(h, row, d, [s EXCEPT !.file_index = f])
AtIsa(h, row, c, s) ==
    \/ AtFile(h, row, c, s)
    \/ \E o \in Seq(Int), d \in Seq(Int) :
          /\ h.opcode_base = 13 /\ Len(o) = 1 /\ c = Std(12, o, d)
          /\ AtFile(h, row, d, s)
AtBlock(h, row, c, s) == \E d \in Seq(Int) : c = Std(7, <<>>, d) /\ AtIsa(h, row, d, s)
AtStmt(h, row, c, s) == \E d \in Seq(Int) : c = Std(6, <<>>, d) /\ AtBlock(h, row, d, s)
AtColumn(h, row, c, s) ==
    \E o \in Lebs, d \in Seq(Int) : c = Std(5, o, d) /\ AtStmt(h, row, d, s)
AtStart(h, row, c, s) ==
    \E u \in Lebs, d \in Seq(Int) :
        Unsigned(u) = 2 /\ c = Ext(u, <<4, 7>>, d) /\ AtColumn(h, row, d, s)

RowLeft(h, row, c, s) ==
    \/ AtStart(h, row, c, s) \/ AtColumn(h, row, c, s) \/ AtStmt(h, row, c, s)
    \/ AtBlock(h, row, c, s) \/ AtIsa(h, row, c, s)
    \/ AtLine(row, c, s) \/ AtCopy(row, c, s)

(* What is left of the end of a sequence: the address a of the next one.     *)
AtAddress(c, a) ==
    \E y \in Lebs, b \in Seq(Int) :
        /\ Unsigned(y) = 1 + AddressSize /\ Len(b) = AddressSize /\ Word(b) = a
        /\ c = Ext(y, <<2>> \o b, <<>>)
AtEnd(c, a) ==
    \E x \in Lebs, d \in Seq(Int) :
        Unsigned(x) = 1 /\ c = Ext(x, << 1 >>, d) /\ AtAddress(d, a)

(* Between rows reader and assembler agree; in a row the registers are on    *)
(* the way to it; at the end of a sequence its last row is emitted again.    *)
DecodeInv ==
    /\ ProgramTypes
    /\ \/ code = <<>> /\ state = now /\ decoded = wanted
       \/ RowLeft(header, now, code, state) /\ wanted = decoded \o RowsOf(now)
       \/ \E a \in Int : /\ AtEnd(code, a) /\ now = [Begin EXCEPT !.address = a]
                         /\ wanted = decoded \o RowsOf(state)
       \/ \E a \in Int : /\ AtAddress(code, a) /\ now = [Begin EXCEPT !.address = a]
                         /\ state = Begin /\ wanted = decoded
-------------------------------------------------------------------------------
(* Taking off what stands in front. *)
LEMMA ConcatType ==
    ASSUME NEW x \in Seq(Int), NEW y \in Seq(Int)
    PROVE  x \o y \in Seq(Int)
OBVIOUS

LEMMA Cut ==
    ASSUME NEW p \in Seq(Int), NEW d \in Seq(Int)
    PROVE  /\ Skip(p \o d, Len(p)) = d /\ SubSeq(p \o d, 1, Len(p)) = p
           /\ Len(p \o d) = Len(p) + Len(d)
           /\ \A i \in 1 .. Len(p) : (p \o d)[i] = p[i]
<1>1. /\ Len(p) \in Nat /\ Len(d) \in Nat
      /\ p \o d \in Seq(Int) /\ Len(p \o d) = Len(p) + Len(d)
      /\ \A i \in 1 .. Len(p) + Len(d) :
            (p \o d)[i] = IF i <= Len(p) THEN p[i] ELSE d[i - Len(p)]
  BY ConcatProperties, LenProperties
<1>2. \A i \in 1 .. Len(p) : (p \o d)[i] = p[i]
  BY <1>1
<1>3. SubSeq(p \o d, 1, Len(p)) = p
  <2>1. CASE Len(p) = 0
    <3>1. p = <<>> /\ SubSeq(p \o d, 1, Len(p)) = <<>>
      BY <2>1, EmptySeq, SubSeqEmpty
    <3>2. QED
      BY <3>1
  <2>2. CASE Len(p) > 0
    <3>1. 1 \in 1 .. Len(p) /\ Len(p) \in 1 .. Len(p)
      BY <1>1, <2>2
    <3>2. SubSeq(p \o d, 1, Len(p)) = SubSeq(p, 1, Len(p))
      BY <3>1, SubSeqOfConcat1
    <3>3. QED
      BY <3>2, SubSeqFull
  <2>3. QED
    BY <1>1, <2>1, <2>2
<1>4. Skip(p \o d, Len(p)) = d
  <2>1. CASE Len(d) = 0
    <3>1. d = <<>> /\ Len(p \o d) < Len(p) + 1 /\ Len(p) + 1 \in Int /\ Len(p \o d) \in Int
      BY <1>1, <2>1, EmptySeq
    <3>2. SubSeq(p \o d, Len(p) + 1, Len(p \o d)) = <<>>
      BY <3>1, SubSeqEmpty
    <3>3. QED
      BY <3>1, <3>2 DEF Skip
  <2>2. CASE Len(d) > 0
    <3>1. /\ Len(p) + 1 \in Len(p) + 1 .. Len(p) + Len(d)
          /\ Len(p \o d) \in Len(p) + 1 .. Len(p) + Len(d)
          /\ Len(p) + 1 - Len(p) = 1 /\ Len(p \o d) - Len(p) = Len(d)
      BY <1>1, <2>2
    <3>2. SubSeq(p \o d, Len(p) + 1, Len(p \o d)) = SubSeq(d, 1, Len(d))
      BY <3>1, SubSeqOfConcat2
    <3>3. QED
      BY <3>2, SubSeqFull DEF Skip
  <2>3. QED
    BY <1>1, <2>1, <2>2
<1>5. QED
  BY <1>1, <1>2, <1>3, <1>4

LEMMA Headed ==
    ASSUME NEW a \in Int, NEW d \in Seq(Int)
    PROVE  /\ <<a>> \o d \in Seq(Int) /\ <<a>> \o d # <<>>
           /\ (<<a>> \o d)[1] = a /\ Tail(<<a>> \o d) = d
<1> DEFINE p == <<a>>
           c == p \o d
<1>1. p \in Seq(Int) /\ Len(p) = 1 /\ p[1] = a
  OBVIOUS
<1> HIDE DEF p
<1>2. /\ c \in Seq(Int) /\ Len(c) = 1 + Len(d) /\ Len(d) \in Nat
      /\ \A i \in 1 .. Len(p) : c[i] = p[i]
      /\ Skip(c, Len(p)) = d
  BY <1>1, Cut, ConcatType, LenProperties
<1> HIDE DEF c
<1>3. c # <<>>
  BY <1>2, EmptySeq
<1>4. Tail(c) = SubSeq(c, 2, Len(c))
  BY <1>2, <1>3, TailIsSubSeq
<1>5. Skip(c, 1) = SubSeq(c, 2, Len(c))
  BY DEF Skip
<1>6. Tail(c) = d
  BY <1>1, <1>2, <1>4, <1>5
<1>7. c[1] = a
  <2>1. 1 \in 1 .. Len(p)
    BY <1>1
  <2>2. QED
    BY <1>1, <1>2, <2>1
<1>8. QED
  BY <1>2, <1>3, <1>6, <1>7 DEF c, p

LEMMA LebType ==
    ASSUME NEW o \in Lebs
    PROVE  o \in Seq(Int) /\ Len(o) \in 1 .. 10 /\ IsLeb(o)
<1>1. PICK k \in 1 .. MaxOperand : o \in [1 .. k -> 0 .. LastOpcode]
  BY DEF Lebs, ByteStrings
<1>2. k \in Nat /\ k \in 1 .. 10 /\ 0 .. LastOpcode \subseteq Int
  BY <1>1, LineProgramAssumption
<1>3. o \in [1 .. k -> Int]
  BY <1>1, <1>2
<1>4. o \in Seq(Int)
  BY <1>2, <1>3, SeqDef
<1>5. Len(o) = k
  BY <1>2, <1>3, <1>4, LenProperties
<1>6. QED
  BY <1>2, <1>4, <1>5 DEF Lebs

(* A LEB128 number is read to its end whatever follows. *)
LEMMA OperandIs ==
    ASSUME NEW o \in Lebs, NEW d \in Seq(Int)
    PROVE  Operand(o \o d) = o /\ o \in Seq(Int)
<1> DEFINE c == o \o d
           n == Len(o)
<1>1. o \in Seq(Int) /\ n \in 1 .. 10 /\ o[n] < More /\ \A i \in 1 .. n - 1 : o[i] >= More
  BY LebType DEF IsLeb
<1>2. /\ Len(c) = n + Len(d) /\ Len(d) \in Nat /\ SubSeq(c, 1, n) = o
      /\ \A i \in 1 .. n : c[i] = o[i]
  BY <1>1, Cut, LenProperties
<1> HIDE DEF c, n
<1>3. n \in Ends(c)
  <2>1. n \in 1 .. Len(c) /\ n \in 1 .. n
    BY <1>1, <1>2
  <2>2. QED
    BY <1>1, <1>2, <2>1 DEF Ends
<1>4. \A j \in Ends(c) : n <= j
  <2>1. SUFFICES ASSUME NEW j \in Ends(c), j < n PROVE FALSE
    BY <1>1, <1>2 DEF Ends
  <2>2. j \in Nat /\ j \in 1 .. n /\ j \in 1 .. n - 1 /\ j # 10
    BY <1>1, <1>2, <2>1 DEF Ends
  <2>3. o[j] >= More /\ c[j] = o[j] /\ c[j] < More
    BY <1>1, <1>2, <2>2 DEF Ends
  <2>4. o[j] \in Int /\ More \in Int
    BY <1>1, <2>2, ElementOfSeq, LineProgramAssumption DEF More, n
  <2>5. QED
    BY <2>3, <2>4
<1>5. \A k \in Ends(c) : (\A j \in Ends(c) : k <= j) => k = n
  BY <1>1, <1>2, <1>3, <1>4 DEF Ends
<1>6. (CHOOSE k \in Ends(c) : \A j \in Ends(c) : k <= j) = n
  BY <1>3, <1>4, <1>5
<1>7. Operand(c) = SubSeq(c, 1, n)
  BY <1>3, <1>6 DEF Operand
<1>8. QED
  BY <1>1, <1>2, <1>7 DEF c

LEMMA StdIs ==
    ASSUME NEW op \in Int, NEW o \in Seq(Int), NEW d \in Seq(Int)
    PROVE  /\ Std(op, o, d) \in Seq(Int) /\ Std(op, o, d) # <<>>
           /\ Std(op, o, d)[1] = op /\ Tail(Std(op, o, d)) = o \o d
BY ConcatType, Headed DEF Std

LEMMA ExtIs ==
    ASSUME NEW u \in Seq(Int), NEW e \in Seq(Int), NEW d \in Seq(Int)
    PROVE  /\ Ext(u, e, d) \in Seq(Int) /\ Ext(u, e, d) # <<>>
           /\ Ext(u, e, d)[1] = 0 /\ Tail(Ext(u, e, d)) = u \o (e \o d)
BY ConcatType, Headed DEF Ext

(* One round of the loop on a standard opcode. *)
LEMMA StandardRound ==
    ASSUME ProgramTypes, Decode, NEW op \in 1 .. 12, NEW o \in Seq(Int), NEW d \in Seq(Int),
           code = Std(op, o, d), op < header.opcode_base
    PROVE  /\ code' = StandardOpcode.left /\ state' = StandardOpcode.state
           /\ op # 1 => decoded' = decoded
           /\ op = 1 => decoded' = decoded \o RowsOf(state')
           /\ code[1] = op /\ Tail(code) = o \o d
<1>1. code[1] = op /\ Tail(code) = o \o d /\ op # 0
  <2>1. op \in Int /\ op # 0
    OBVIOUS
  <2>2. QED
    BY <2>1, StdIs
<1>2. StandardOpcode.emits <=> op = 1
  BY <1>1 DEF StandardOpcode, Decoded
<1>3. /\ code' = StandardOpcode.left /\ state' = StandardOpcode.state
      /\ decoded' = IF StandardOpcode.emits THEN decoded \o RowsOf(StandardOpcode.state)
                    ELSE decoded
  BY <1>1 DEF Decode
<1>4. QED
  BY <1>1, <1>2, <1>3

(* Of the opcodes with a LEB128 number it is taken off whole. *)
LEMMA NumberRound ==
    ASSUME ProgramTypes, Decode, NEW op \in 2 .. 5, NEW o \in Lebs, NEW d \in Seq(Int),
           code = Std(op, o, d)
    PROVE  /\ code' = d /\ decoded' = decoded
           /\ op = 2 => state' = Advanced(state, Unsigned(o) * header.min_inst_length)
           /\ op = 3 => state' = [state EXCEPT !.line = @ + Signed(o)]
           /\ op = 4 => state' = [state EXCEPT !.file_index = Unsigned(o)]
           /\ op = 5 => state' = state
<1>1. o \in Seq(Int) /\ Operand(o \o d) = o /\ op \in 1 .. 12 /\ op < header.opcode_base
  <2>1. header.opcode_base \in 10 .. 13
    BY DEF ProgramTypes, Header
  <2>2. QED
    BY <2>1, OperandIs
<1>2. /\ code' = StandardOpcode.left /\ state' = StandardOpcode.state /\ decoded' = decoded
      /\ code[1] = op /\ Tail(code) = o \o d
  <2>1. op # 1
    OBVIOUS
  <2>2. QED
    BY <1>1, <2>1, StandardRound
<1>3. Skip(o \o d, Len(o)) = d
  BY <1>1, Cut
<1>4. StandardOpcode.left = d
  <2>1. StandardOpcode.left = Skip(Tail(code), Len(Operand(Tail(code))))
    BY <1>2 DEF StandardOpcode, Decoded
  <2>2. QED
    BY <1>1, <1>2, <1>3, <2>1
<1>5. /\ op = 2 => StandardOpcode.state =
                     [state EXCEPT !.address = @ + Unsigned(o) * header.min_inst_length]
      /\ op = 3 => StandardOpcode.state = [state EXCEPT !.line = @ + Signed(o)]
      /\ op = 4 => StandardOpcode.state = [state EXCEPT !.file_index = Unsigned(o)]
      /\ op = 5 => StandardOpcode.state = state
  <2>1. code[1] = op /\ Operand(Tail(code)) = o
    BY <1>1, <1>2
  <2>2. code[1] = 2 => StandardOpcode.state =
          [state EXCEPT !.address = @ + Unsigned(Operand(Tail(code))) * header.min_inst_length]
    BY DEF StandardOpcode, Decoded
  <2>3. code[1] = 3 =>
          StandardOpcode.state = [state EXCEPT !.line = @ + Signed(Operand(Tail(code)))]
    BY DEF StandardOpcode, Decoded
  <2>4. code[1] = 4 =>
          StandardOpcode.state = [state EXCEPT !.file_index = Unsigned(Operand(Tail(code)))]
    BY DEF StandardOpcode, Decoded
  <2>5. code[1] = 5 => StandardOpcode.state = state
    BY DEF StandardOpcode, Decoded
  <2>6. op = 2 => StandardOpcode.state =
                    [state EXCEPT !.address = @ + Unsigned(o) * header.min_inst_length]
    BY <2>1, <2>2
  <2>7. op = 3 => StandardOpcode.state = [state EXCEPT !.line = @ + Signed(o)]
    BY <2>1, <2>3
  <2>8. op = 4 => StandardOpcode.state = [state EXCEPT !.file_index = Unsigned(o)]
    BY <2>1, <2>4
  <2>9. op = 5 => StandardOpcode.state = state
    BY <2>1, <2>5
  <2>10. QED
    BY <2>6, <2>7, <2>8, <2>9
<1>6. QED
  BY <1>2, <1>4, <1>5 DEF Advanced

LEMMA FixedRound ==
    ASSUME ProgramTypes, Decode, NEW b \in Seq(Int), NEW d \in Seq(Int), Len(b) = 2,
           code = Std(9, b, d)
    PROVE  code' = d /\ decoded' = decoded /\ state' = Advanced(state, Word(b))
<1>1. 9 \in 1 .. 12 /\ 9 < header.opcode_base /\ 9 # 1
  BY DEF ProgramTypes, Header
<1>2. /\ code' = StandardOpcode.left /\ state' = StandardOpcode.state /\ decoded' = decoded
      /\ code[1] = 9 /\ Tail(code) = b \o d
  BY <1>1, StandardRound
<1>3. /\ Skip(b \o d, 2) = d /\ SubSeq(b \o d, 1, 2) = b /\ ~ Len(b \o d) < 2
  <2>1. Len(b \o d) = 2 + Len(d) /\ Len(d) \in Nat
    BY Cut, LenProperties
  <2>2. Skip(b \o d, Len(b)) = d /\ SubSeq(b \o d, 1, Len(b)) = b
    BY Cut
  <2>3. QED
    BY <2>1, <2>2
<1>4. SubSeq(Tail(code), 1, IF Len(Tail(code)) < 2 THEN 0 ELSE 2) = b
  BY <1>2, <1>3
<1>5. StandardOpcode.left = Skip(Tail(code), Len(b))
  BY <1>2, <1>4 DEF StandardOpcode, Decoded
<1>6. StandardOpcode.state = [state EXCEPT !.address = @ + Word(b)]
  <2>1. code[1] = 9 => StandardOpcode.state = [state EXCEPT !.address = @ +
          Word(SubSeq(Tail(code), 1, IF Len(Tail(code)) < 2 THEN 0 ELSE 2))]
    BY DEF StandardOpcode, Decoded
  <2>2. QED
    BY <1>2, <1>4, <2>1
<1>7. QED
  BY <1>2, <1>3, <1>5, <1>6 DEF Advanced

LEMMA NoOperandRound ==
    ASSUME ProgramTypes, Decode, NEW op \in {1, 8}, NEW d \in Seq(Int), code = Std(op, <<>>, d)
    PROVE  /\ code' = d
           /\ op = 8 => state' = Advanced(state, Constant(header)) /\ decoded' = decoded
           /\ op = 1 => state' = state /\ decoded' = decoded \o RowsOf(state)
<1>1. op \in 1 .. 12 /\ op < header.opcode_base /\ <<>> \in Seq(Int) /\ <<>> \o d = d
      /\ Len(<<>>) = 0
  BY EmptySeq, ConcatEmptySeq DEF ProgramTypes, Header
<1>2. /\ code' = StandardOpcode.left /\ state' = StandardOpcode.state
      /\ op # 1 => decoded' = decoded
      /\ op = 1 => decoded' = decoded \o RowsOf(state')
      /\ code[1] = op /\ Tail(code) = d
  <2> DEFINE o == <<>>
  <2>1. o \in Seq(Int) /\ code = Std(op, o, d) /\ o \o d = d
    BY <1>1
  <2> HIDE DEF o
  <2>2. QED
    BY <1>1, <2>1, StandardRound
<1>3. Skip(d, 0) = d
  <2>1. Skip(<<>> \o d, Len(<<>>)) = d
    BY <1>1, Cut
  <2>2. QED
    BY <1>1, <2>1
<1>4. StandardOpcode.left = d
  <2>1. StandardOpcode.left = Skip(Tail(code), 0)
    BY <1>2 DEF StandardOpcode, Decoded
  <2>2. QED
    BY <1>2, <1>3, <2>1
<1>5. /\ op = 8 => StandardOpcode.state = Advanced(state, Constant(header))
      /\ op = 1 => StandardOpcode.state = state
  BY <1>2 DEF StandardOpcode, Decoded, Advanced, ConstAddPc, Constant
<1>6. CASE op = 8
  <2>1. op # 1
    BY <1>6
  <2>2. QED
    BY <1>2, <1>4, <1>5, <1>6, <2>1
<1>7. CASE op = 1
  <2>1. op # 8
    BY <1>7
  <2>2. state' = state
    BY <1>2, <1>5, <1>7
  <2>3. decoded' = decoded \o RowsOf(state)
    BY <1>2, <1>7, <2>2
  <2>4. QED
    BY <1>2, <1>4, <2>1, <2>2, <2>3
<1>8. QED
  BY <1>6, <1>7

(* Of the opcodes of no interest as many bytes as their length says. *)
LEMMA UnknownRound ==
    ASSUME ProgramTypes, Decode, NEW op \in {6, 7, 12}, NEW o \in Seq(Int), NEW d \in Seq(Int),
           code = Std(op, o, d), op < header.opcode_base, Len(o) = IF op = 12 THEN 1 ELSE 0
    PROVE  code' = d /\ decoded' = decoded /\ state' = state
<1>1. op \in 1 .. 12 /\ op # 1 /\ header.std_lengths[op] = Len(o)
  BY DEF ProgramTypes, Header
<1>2. /\ code' = StandardOpcode.left /\ state' = StandardOpcode.state /\ decoded' = decoded
      /\ code[1] = op /\ Tail(code) = o \o d
  BY <1>1, StandardRound
<1>3. StandardOpcode.left = Skip(Tail(code), header.std_lengths[op])
  BY <1>2 DEF StandardOpcode, Decoded
<1>4. Skip(o \o d, Len(o)) = d
  BY Cut
<1>5. StandardOpcode.state = state
  BY <1>2 DEF StandardOpcode, Decoded
<1>6. QED
  BY <1>1, <1>2, <1>3, <1>4, <1>5

LEMMA ExtendedRound ==
    ASSUME ProgramTypes, Decode, NEW u \in Lebs, NEW e \in Seq(Int), NEW d \in Seq(Int),
           code = Ext(u, e, d), Unsigned(u) = Len(e), e # <<>>
    PROVE  /\ code' = d
           /\ e[1] = 1 => state' = Begin /\ decoded' = decoded \o RowsOf(state)
           /\ e[1] # 1 => decoded' = decoded
           /\ e[1] = 2 => state' = [state EXCEPT !.address =
                                      Word(SubSeq(e \o d, 2, AddressSize + 1))]
           /\ e[1] \notin {1, 2} => state' = state
<1> DEFINE body == Skip(Tail(code), Len(Operand(Tail(code))))
           sub == IF body = <<>> THEN 0 ELSE body[1]
<1>1. u \in Seq(Int) /\ e \o d \in Seq(Int)
  BY LebType, ConcatType
<1>2. Operand(Tail(code)) = u /\ code[1] = 0 /\ Tail(code) = u \o (e \o d)
  <2>1. code[1] = 0 /\ Tail(code) = u \o (e \o d)
    BY <1>1, ExtIs
  <2>2. Operand(u \o (e \o d)) = u
    BY <1>1, OperandIs
  <2>3. QED
    BY <2>1, <2>2
<1>3. body = e \o d
  <2>1. Skip(u \o (e \o d), Len(u)) = e \o d
    BY <1>1, Cut
  <2>2. QED
    BY <1>2, <2>1
<1>4. /\ Skip(body, Unsigned(u)) = d /\ ~ Unsigned(u) > Len(body) /\ body # <<>>
      /\ body[1] = e[1]
  <2>1. Len(e) \in Nat \ {0} /\ Len(d) \in Nat /\ 1 \in 1 .. Len(e)
    BY EmptySeq, LenProperties
  <2>2. /\ Skip(e \o d, Len(e)) = d /\ Len(e \o d) = Len(e) + Len(d)
        /\ (e \o d)[1] = e[1]
    BY <2>1, Cut
  <2>3. Len(e \o d) > 0
    BY <2>1, <2>2
  <2>4. e \o d # <<>>
    BY <2>3, EmptySeq
  <2>5. ~ Len(e) > Len(e \o d)
    BY <2>1, <2>2
  <2>6. QED
    BY <1>3, <2>2, <2>4, <2>5
<1> HIDE DEF body
<1>5. ExtendedOpcode =
        Decoded(Skip(body, Unsigned(u)),
                CASE sub = 1 -> Begin
                  [] sub = 2 -> [state EXCEPT !.address = Word(SubSeq(body, 2, AddressSize + 1))]
                  [] OTHER -> state,
                sub = 1)
  BY <1>2, <1>4 DEF ExtendedOpcode, body
<1>6. sub = e[1]
  BY <1>4
<1> HIDE DEF sub
<1>7. ExtendedOpcode.left = d /\ (ExtendedOpcode.emits <=> e[1] = 1)
  BY <1>4, <1>5, <1>6 DEF Decoded
<1>8. ExtendedOpcode.state =
         CASE sub = 1 -> Begin
           [] sub = 2 -> [state EXCEPT !.address = Word(SubSeq(body, 2, AddressSize + 1))]
           [] OTHER -> state
  BY <1>5 DEF Decoded
<1>9. sub = 1 => ExtendedOpcode.state = Begin
  BY <1>8
<1>10. sub = 2 => ExtendedOpcode.state =
                    [state EXCEPT !.address = Word(SubSeq(body, 2, AddressSize + 1))]
  <2>1. sub = 2 => sub # 1
    OBVIOUS
  <2>2. QED
    BY <1>8, <2>1
<1>11. sub # 1 /\ sub # 2 => ExtendedOpcode.state = state
  BY <1>8
<1>12. code' = ExtendedOpcode.left /\ state' = ExtendedOpcode.state
       /\ decoded' = IF ExtendedOpcode.emits THEN decoded \o RowsOf(state) ELSE decoded
  BY <1>2 DEF Decode
<1>13. code' = d /\ (e[1] # 1 => decoded' = decoded)
  BY <1>7, <1>12
<1>14. e[1] = 1 => state' = Begin /\ decoded' = decoded \o RowsOf(state)
  BY <1>6, <1>7, <1>9, <1>12
<1>15. e[1] = 2 => state' = [state EXCEPT !.address = Word(SubSeq(e \o d, 2, AddressSize + 1))]
  BY <1>3, <1>6, <1>10, <1>12
<1>16. e[1] \notin {1, 2} => state' = state
  BY <1>6, <1>11, <1>12
<1>17. QED
  BY <1>13, <1>14, <1>15, <1>16

LEMMA SpecialRound ==
    ASSUME ProgramTypes, Decode, NEW n \in Nat, NEW r \in 0 .. header.line_range - 1,
           code = <<(r + (header.line_range * n)) + header.opcode_base>>
    PROVE  /\ code' = <<>>
           /\ state' = [Advanced(state, n * header.min_inst_length)
                          EXCEPT !.line = @ + (header.line_base + r)]
           /\ decoded' = decoded \o RowsOf(state')
<1> DEFINE m == header.line_range
           x == r + (m * n)
           v == x + header.opcode_base
           d == <<>>
<1>1. m \in Nat \ {0} /\ r \in Nat /\ n \in Nat /\ header.opcode_base \in 10 .. 13
      /\ header.line_base \in Int /\ header.min_inst_length \in Nat
  BY DEF ProgramTypes, Header
<1>2. m * n \in Nat
  BY <1>1
<1>3. x \in Nat /\ v \in Int /\ v >= header.opcode_base /\ v # 0 /\ v - header.opcode_base = x
  BY <1>1, <1>2
<1>4. x % m = r /\ x \div m = n
  BY <1>1, Division
<1> HIDE DEF x
<1>5. code = << v >>
  BY DEF x
<1> HIDE DEF v
<1>6. << v >> \in Seq(Int) /\ d \in Seq(Int) /\ << v >> \o d = << v >>
  BY <1>3, EmptySeq, ConcatEmptySeq
<1> HIDE DEF d
<1>7. Tail(code) = d /\ code[1] = v
  BY <1>3, <1>5, <1>6, Headed
<1>8. code' = SpecialOpcode.left /\ state' = SpecialOpcode.state
      /\ decoded' = IF SpecialOpcode.emits THEN decoded \o RowsOf(SpecialOpcode.state)
                    ELSE decoded
  <2>1. code[1] # 0 /\ ~ code[1] < header.opcode_base
    BY <1>1, <1>3, <1>7
  <2>2. QED
    BY <2>1 DEF Decode
<1>9. SpecialOpcode = Decoded(Tail(code),
           [state EXCEPT !.line = @ + header.line_base + (x % m),
                         !.address = @ + (x \div m) * header.min_inst_length], TRUE)
  BY <1>3, <1>7 DEF SpecialOpcode
<1>10. SpecialOpcode.left = d /\ SpecialOpcode.emits
       /\ SpecialOpcode.state =
            [state EXCEPT !.line = @ + header.line_base + r,
                          !.address = @ + n * header.min_inst_length]
  BY <1>4, <1>7, <1>9 DEF Decoded
<1>11. [state EXCEPT !.line = @ + header.line_base + r,
                     !.address = @ + n * header.min_inst_length]
       = [Advanced(state, n * header.min_inst_length) EXCEPT !.line = @ + (header.line_base + r)]
  <2>1. header.line_base \in Int /\ r \in Int /\ state.line \in Int
    BY <1>1 DEF ProgramTypes, RegisterFile
  <2>2. (state.line + header.line_base) + r = state.line + (header.line_base + r)
    BY <2>1
  <2>3. QED
    BY <2>2 DEF Advanced, ProgramTypes, RegisterFile
<1>12. code' = <<>>
  BY <1>8, <1>10 DEF d
<1>13. QED
  BY <1>8, <1>10, <1>11, <1>12

-------------------------------------------------------------------------------
(* A round that goes on in the same row. *)
Going ==
    /\ code' \in Seq(Int) /\ state' \in RegisterFile
    /\ decoded' = decoded /\ RowLeft(header, now, code', state')

(* The round that ends it. *)
Arriving == code' = <<>> /\ state' = now /\ decoded' = decoded \o RowsOf(now)

LEMMA OneIs ==
    ASSUME NEW a \in Int
    PROVE  /\ << a >> \in Seq(Int) /\ << a >> # <<>> /\ << a >>[1] = a
           /\ Std(8, <<>>, << a >>) = <<8, a>>
           /\ Std(a, <<>>, <<>>) = << a >>
<1>1. << 8 >> \o << a >> = <<8, a>>
  <2> DEFINE x == << 8 >>
             y == << a >>
             z == <<8, a>>
  <2>1. /\ x \in Seq(Int) /\ y \in Seq(Int) /\ Len(x) = 1 /\ Len(y) = 1
        /\ x[1] = 8 /\ y[1] = a
    OBVIOUS
  <2>2. z \in Seq(Int) /\ Len(z) = 2 /\ z[1] = 8 /\ z[2] = a
    OBVIOUS
  <2> HIDE DEF x, y, z
  <2>3. x \o y \in Seq(Int) /\ Len(x \o y) = 2 /\ (x \o y)[1] = 8 /\ (x \o y)[2] = a
    <3>1. /\ x \o y \in Seq(Int) /\ Len(x \o y) = Len(x) + Len(y)
          /\ \A i \in 1 .. Len(x) + Len(y) :
                (x \o y)[i] = IF i <= Len(x) THEN x[i] ELSE y[i - Len(x)]
      BY <2>1, ConcatProperties
    <3>2. /\ 1 \in 1 .. Len(x) + Len(y) /\ 2 \in 1 .. Len(x) + Len(y)
          /\ 1 <= Len(x) /\ ~ 2 <= Len(x) /\ 2 - Len(x) = 1 /\ Len(x) + Len(y) = 2
      BY <2>1
    <3>3. QED
      BY <2>1, <3>1, <3>2
  <2>4. \A i \in 1 .. Len(z) : z[i] = (x \o y)[i]
    BY <2>2, <2>3
  <2>5. z = x \o y
    BY <2>2, <2>3, <2>4, SeqEqual
  <2>6. QED
    BY <2>5 DEF x, y, z
<1> DEFINE e == <<>>
           p == << a >>
<1>2. p \in Seq(Int) /\ p # <<>> /\ p[1] = a /\ e \in Seq(Int)
  BY EmptySeq
<1>3. e \o p = p /\ e \o e = e /\ p \o e = p
  BY <1>2, ConcatEmptySeq
<1>4. Std(8, e, p) = <<8, a>>
  BY <1>3, <1>1 DEF Std
<1>5. Std(a, e, e) = p
  BY <1>3 DEF Std
<1>6. QED
  BY <1>2, <1>4, <1>5

LEMMA CopyRound ==
    ASSUME ProgramTypes, Decode, AtCopy(now, code, state)
    PROVE  Arriving
<1>1. code = Std(1, <<>>, <<>>) /\ state = now
  BY OneIs DEF AtCopy
<1> DEFINE d == <<>>
<1>2. d \in Seq(Int) /\ code = Std(1, <<>>, d)
  BY <1>1, EmptySeq
<1> HIDE DEF d
<1>3. code' = d /\ state' = state /\ decoded' = decoded \o RowsOf(state)
  BY <1>2, NoOperandRound
<1>4. QED
  BY <1>1, <1>3 DEF Arriving, d

LEMMA LineRound ==
    ASSUME ProgramTypes, Decode, AtLine(now, code, state)
    PROVE  Going
<1>1. PICK l \in Int, o \in Lebs :
        Signed(o) = l /\ code = Std(3, o, << 1 >>) /\ [state EXCEPT !.line = @ + l] = now
  BY DEF AtLine
<1> DEFINE d == << 1 >>
<1>2. d \in Seq(Int) /\ code = Std(3, o, d)
  BY <1>1, OneIs
<1> HIDE DEF d
<1>3. code' = d /\ decoded' = decoded /\ state' = [state EXCEPT !.line = @ + Signed(o)]
  BY <1>2, NumberRound
<1>4. AtCopy(now, code', state') /\ state' \in RegisterFile
  BY <1>1, <1>3 DEF AtCopy, ProgramTypes, d
<1>5. QED
  BY <1>2, <1>3, <1>4 DEF Going, RowLeft

LEMMA SpecialLast ==
    ASSUME ProgramTypes, Decode, AtSpecial(header, now, code, state)
    PROVE  Arriving
<1>1. PICK n \in Nat, r \in 0 .. header.line_range - 1 :
        /\ code = <<(r + (header.line_range * n)) + header.opcode_base>>
        /\ [Advanced(state, n * header.min_inst_length)
                EXCEPT !.line = @ + (header.line_base + r)] = now
  BY DEF AtSpecial
<1>2. QED
  BY <1>1, SpecialRound DEF Arriving

LEMMA AdvancedType ==
    ASSUME NEW s \in RegisterFile, NEW a \in Int
    PROVE  Advanced(s, a) \in RegisterFile
BY DEF Advanced, RegisterFile

LEMMA RowRound ==
    ASSUME ProgramTypes, Decode, AtRow(header, now, code, state)
    PROVE  Going \/ Arriving
<1>1. header.min_inst_length \in Nat /\ header.opcode_base \in 10 .. 13 /\ state \in RegisterFile
      /\ header.line_range \in Nat \ {0} /\ LastOpcode \in Nat
  BY LineProgramAssumption DEF ProgramTypes, Header
<1>2. Constant(header) \in Int
  <2>1. (LastOpcode - header.opcode_base) \div header.line_range \in Int
    BY <1>1
  <2>2. QED
    BY <1>1, <2>1 DEF Constant
<1>3. CASE AtSpecial(header, now, code, state)
  BY <1>3, SpecialLast
<1>4. ASSUME NEW d \in Seq(Int), code = Std(8, <<>>, d),
             AtSpecial(header, now, d, Advanced(state, Constant(header)))
      PROVE  Going
  <2>1. code' = d /\ state' = Advanced(state, Constant(header)) /\ decoded' = decoded
    BY <1>4, NoOperandRound
  <2>2. AtRow(header, now, code', state')
    BY <1>4, <2>1 DEF AtRow
  <2>3. QED
    BY <1>1, <1>2, <2>1, <2>2, AdvancedType DEF Going, RowLeft, AtIsa, AtFile
<1>5. ASSUME NEW n \in Int, NEW o \in Lebs, NEW d \in Seq(Int), Unsigned(o) = n,
             code = Std(2, o, d), AtLine(now, d, Advanced(state, n * header.min_inst_length))
      PROVE  Going
  <2>1. /\ code' = d /\ decoded' = decoded
        /\ state' = Advanced(state, n * header.min_inst_length)
    BY <1>5, NumberRound
  <2>2. n * header.min_inst_length \in Int
    BY <1>1
  <2>3. QED
    BY <1>1, <1>5, <2>1, <2>2, AdvancedType DEF Going, RowLeft
<1>6. ASSUME NEW n \in Int, NEW b \in Seq(Int), NEW d \in Seq(Int), Len(b) = 2, Word(b) = n,
             code = Std(9, b, d), AtLine(now, d, Advanced(state, n))
      PROVE  Going
  <2>1. code' = d /\ decoded' = decoded /\ state' = Advanced(state, n)
    BY <1>6, FixedRound
  <2>2. QED
    BY <1>1, <1>6, <2>1, AdvancedType DEF Going, RowLeft
<1>7. QED
  BY <1>3, <1>4, <1>5, <1>6 DEF AtRow

LEMMA FileRound ==
    ASSUME ProgramTypes, Decode, AtFile(header, now, code, state)
    PROVE  Going \/ Arriving
<1>1. CASE AtRow(header, now, code, state)
  BY <1>1, RowRound
<1>2. ASSUME NEW f \in Int, NEW o \in Lebs, NEW d \in Seq(Int), Unsigned(o) = f,
             code = Std(4, o, d), AtRow(header, now, d, [state EXCEPT !.file_index = f])
      PROVE  Going
  <2>1. code' = d /\ decoded' = decoded /\ state' = [state EXCEPT !.file_index = f]
    BY <1>2, NumberRound
  <2>2. state' \in RegisterFile
    BY <2>1 DEF ProgramTypes, RegisterFile
  <2>3. QED
    BY <1>2, <2>1, <2>2 DEF Going, RowLeft, AtIsa, AtFile
<1>3. QED
  BY <1>1, <1>2 DEF AtFile

LEMMA IsaRound ==
    ASSUME ProgramTypes, Decode, AtIsa(header, now, code, state)
    PROVE  Going \/ Arriving
<1>1. CASE AtFile(header, now, code, state)
  BY <1>1, FileRound
<1>2. ASSUME NEW o \in Seq(Int), NEW d \in Seq(Int), header.opcode_base = 13, Len(o) = 1,
             code = Std(12, o, d), AtFile(header, now, d, state)
      PROVE  Going
  <2>1. code' = d /\ decoded' = decoded /\ state' = state
    BY <1>2, UnknownRound
  <2>2. QED
    BY <1>2, <2>1 DEF Going, RowLeft, AtIsa, ProgramTypes
<1>3. QED
  BY <1>1, <1>2 DEF AtIsa

(* The opcodes that change nothing. *)
LEMMA IdleRound ==
    ASSUME ProgramTypes, Decode,
           \/ AtStart(header, now, code, state) \/ AtColumn(header, now, code, state)
           \/ AtStmt(header, now, code, state) \/ AtBlock(header, now, code, state)
    PROVE  Going
<1>1. <<>> \in Seq(Int) /\ Len(<<>>) = 0 /\ header.opcode_base \in 10 .. 13
  BY EmptySeq DEF ProgramTypes, Header
<1>2. ASSUME NEW u \in Lebs, NEW d \in Seq(Int), Unsigned(u) = 2, code = Ext(u, <<4, 7>>, d),
             AtColumn(header, now, d, state)
      PROVE  Going
  <2> DEFINE e == <<4, 7>>
  <2>1. /\ e \in Seq(Int) /\ Unsigned(u) = Len(e) /\ e # <<>> /\ code = Ext(u, e, d)
        /\ e[1] # 1 /\ e[1] \notin {1, 2}
    BY <1>2
  <2> HIDE DEF e
  <2>2. code' = d /\ decoded' = decoded /\ state' = state
    BY <2>1, ExtendedRound
  <2>3. QED
    BY <1>2, <2>2 DEF Going, RowLeft, ProgramTypes
<1>3. ASSUME NEW o \in Lebs, NEW d \in Seq(Int), code = Std(5, o, d),
             AtStmt(header, now, d, state)
      PROVE  Going
  <2>1. code' = d /\ decoded' = decoded /\ state' = state
    BY <1>3, NumberRound
  <2>2. QED
    BY <1>3, <2>1 DEF Going, RowLeft, ProgramTypes
<1>4. ASSUME NEW d \in Seq(Int), code = Std(6, <<>>, d), AtBlock(header, now, d, state)
      PROVE  Going
  <2> DEFINE o == <<>>
  <2>1. o \in Seq(Int) /\ Len(o) = 0 /\ code = Std(6, o, d) /\ 6 < header.opcode_base
        /\ 6 \in {6, 7, 12} /\ 6 # 12
    BY <1>1, <1>4
  <2> HIDE DEF o
  <2>2. Len(o) = IF 6 = 12 THEN 1 ELSE 0
    BY <2>1
  <2>3. code' = d /\ decoded' = decoded /\ state' = state
    BY <2>1, <2>2, UnknownRound
  <2>4. QED
    BY <1>4, <2>3 DEF Going, RowLeft, ProgramTypes
<1>5. ASSUME NEW d \in Seq(Int), code = Std(7, <<>>, d), AtIsa(header, now, d, state)
      PROVE  Going
  <2> DEFINE o == <<>>
  <2>1. o \in Seq(Int) /\ Len(o) = 0 /\ code = Std(7, o, d) /\ 7 < header.opcode_base
        /\ 7 \in {6, 7, 12} /\ 7 # 12
    BY <1>1, <1>5
  <2> HIDE DEF o
  <2>2. Len(o) = IF 7 = 12 THEN 1 ELSE 0
    BY <2>1
  <2>3. code' = d /\ decoded' = decoded /\ state' = state
    BY <2>1, <2>2, UnknownRound
  <2>4. QED
    BY <1>5, <2>3 DEF Going, RowLeft, ProgramTypes
<1>6. QED
  BY <1>2, <1>3, <1>4, <1>5 DEF AtStart, AtColumn, AtStmt, AtBlock

LEMMA RowGoesOn ==
    ASSUME ProgramTypes, Decode, RowLeft(header, now, code, state)
    PROVE  Going \/ Arriving
BY IdleRound, IsaRound, LineRound, CopyRound DEF RowLeft

LEMMA NotEmpty ==
    ASSUME ProgramTypes, RowLeft(header, now, code, state)
    PROVE  code # <<>>
<1>1. ASSUME NEW op \in Int, NEW o \in Seq(Int), NEW d \in Seq(Int), code = Std(op, o, d)
      PROVE  code # <<>>
  BY <1>1, StdIs
<1>2. ASSUME NEW op \in Int, NEW d \in Seq(Int), code = Std(op, <<>>, d)
      PROVE  code # <<>>
  <2> DEFINE o == <<>>
  <2>1. o \in Seq(Int) /\ code = Std(op, o, d)
    BY <1>2, EmptySeq
  <2> HIDE DEF o
  <2>2. QED
    BY <1>1, <2>1
<1>3. ASSUME NEW op \in Int, NEW o \in Lebs, NEW d \in Seq(Int), code = Std(op, o, d)
      PROVE  code # <<>>
  BY <1>1, <1>3, LebType
<1>4. CASE AtStart(header, now, code, state)
  <2>1. PICK u \in Lebs, d \in Seq(Int) : code = Ext(u, <<4, 7>>, d)
    BY <1>4 DEF AtStart
  <2>2. u \in Seq(Int) /\ <<4, 7>> \in Seq(Int)
    BY LebType
  <2>3. QED
    BY <2>1, <2>2, ExtIs
<1>5. CASE AtColumn(header, now, code, state)
  <2>1. PICK o \in Lebs, d \in Seq(Int) : code = Std(5, o, d)
    BY <1>5 DEF AtColumn
  <2>2. QED
    BY <1>3, <2>1
<1>6. CASE AtStmt(header, now, code, state)
  <2>1. PICK d \in Seq(Int) : code = Std(6, <<>>, d)
    BY <1>6 DEF AtStmt
  <2>2. QED
    BY <1>2, <2>1
<1>7. CASE AtBlock(header, now, code, state)
  <2>1. PICK d \in Seq(Int) : code = Std(7, <<>>, d)
    BY <1>7 DEF AtBlock
  <2>2. QED
    BY <1>2, <2>1
<1>8. CASE AtLine(now, code, state)
  <2>1. PICK l \in Int, o \in Lebs : code = Std(3, o, << 1 >>)
    BY <1>8 DEF AtLine
  <2> DEFINE d == << 1 >>
  <2>2. d \in Seq(Int) /\ code = Std(3, o, d)
    BY <2>1, OneIs
  <2> HIDE DEF d
  <2>3. QED
    BY <1>3, <2>2
<1>9. CASE AtCopy(now, code, state)
  BY <1>9, OneIs DEF AtCopy
<1>10. AtSpecial(header, now, code, state) => code # <<>>
  BY DEF AtSpecial
<1>11. CASE AtRow(header, now, code, state)
  BY <1>1, <1>2, <1>3, <1>10, <1>11 DEF AtRow
<1>12. CASE AtFile(header, now, code, state)
  <2>1. CASE AtRow(header, now, code, state)
    BY <1>11, <2>1
  <2>2. ASSUME NEW o \in Lebs, NEW d \in Seq(Int), code = Std(4, o, d)
        PROVE  code # <<>>
    BY <1>3, <2>2
  <2>3. QED
    BY <1>12, <2>1, <2>2 DEF AtFile
<1>13. CASE AtIsa(header, now, code, state)
  BY <1>1, <1>12, <1>13 DEF AtIsa
<1>14. QED
  BY <1>4, <1>5, <1>6, <1>7, <1>8, <1>9, <1>13 DEF RowLeft

LEMMA EndNotEmpty ==
    ASSUME NEW a \in Int, AtAddress(code, a) \/ AtEnd(code, a)
    PROVE  code # <<>>
<1>1. \A u \in Lebs : u \in Seq(Int)
  BY LebType
<1>2. <<>> \in Seq(Int) /\ << 1 >> \in Seq(Int)
  BY EmptySeq, OneIs
<1>3. \A b \in Seq(Int) : << 2 >> \o b \in Seq(Int)
  BY OneIs, ConcatType
<1>4. \A u \in Seq(Int), e \in Seq(Int), d \in Seq(Int) : Ext(u, e, d) # <<>>
  BY ExtIs
<1>5. AtAddress(code, a) => code # <<>>
  BY <1>1, <1>2, <1>3, <1>4 DEF AtAddress
<1>6. AtEnd(code, a) => code # <<>>
  BY <1>1, <1>2, <1>4 DEF AtEnd
<1>7. QED
  BY <1>5, <1>6

-------------------------------------------------------------------------------
(* What the assembler writes is the code of a row, whole. *)
LEMMA SpecialWritten ==
    ASSUME ProgramTypes, NEW row \in RegisterFile, NEW s \in RegisterFile,
           NEW n \in Nat, NEW l \in Int, FitsSpecial(n, l),
           row.address = s.address + n * header.min_inst_length,
           row.line = s.line + l, row.file_index = s.file_index
    PROVE  /\ Special(n, l) \in Int /\ <<Special(n, l)>> \in Seq(Int)
           /\ AtSpecial(header, row, <<Special(n, l)>>, s)
<1> DEFINE r == l - header.line_base
<1>1. /\ header.line_base \in Int /\ header.line_range \in Nat /\ header.opcode_base \in Int
      /\ header.min_inst_length \in Nat
  BY DEF ProgramTypes, Header
<1>2. r \in 0 .. header.line_range - 1 /\ r \in Int /\ header.line_base + r = l
  BY <1>1 DEF FitsSpecial
<1>3. header.line_range * n \in Int /\ n * header.min_inst_length \in Int
  BY <1>1
<1>4. Special(n, l) = (r + (header.line_range * n)) + header.opcode_base
      /\ Special(n, l) \in Int
  BY <1>1, <1>2, <1>3 DEF Special
<1>5. [Advanced(s, n * header.min_inst_length) EXCEPT !.line = @ + (header.line_base + r)] = row
  BY <1>2, <1>3 DEF Advanced, RegisterFile
<1> HIDE DEF r
<1>6. QED
  BY <1>2, <1>4, <1>5, OneIs DEF AtSpecial

LEMMA LineWritten ==
    ASSUME NEW row \in RegisterFile, NEW s \in RegisterFile, NEW a \in Int, NEW l \in Int,
           NEW o \in Lebs, Signed(o) = l,
           row.address = s.address + a, row.line = s.line + l, row.file_index = s.file_index
    PROVE  Std(3, o, << 1 >>) \in Seq(Int) /\ AtLine(row, Std(3, o, << 1 >>), Advanced(s, a))
<1>1. o \in Seq(Int)
  BY LebType
<1> DEFINE d == << 1 >>
<1>2. d \in Seq(Int)
  BY OneIs
<1> HIDE DEF d
<1>3. Std(3, o, d) \in Seq(Int)
  BY <1>1, <1>2, StdIs
<1>4. [Advanced(s, a) EXCEPT !.line = @ + l] = row
  BY DEF Advanced, RegisterFile
<1>5. AtLine(row, Std(3, o, << 1 >>), Advanced(s, a))
  BY <1>4 DEF AtLine
<1>6. QED
  BY <1>3, <1>5 DEF d

LEMMA EncodingWritten ==
    ASSUME ProgramTypes, NEW row \in RegisterFile, NEW s \in RegisterFile,
           NEW n \in Nat, NEW l \in Int, NEW w, NEW c \in Encodings(n, l, w),
           row.address = s.address + n * header.min_inst_length,
           row.line = s.line + l, row.file_index = s.file_index
    PROVE  c \in Seq(Int) /\ AtRow(header, row, c, s)
<1>1. /\ header.min_inst_length \in Nat /\ header.opcode_base \in 10 .. 13
      /\ header.line_range \in Nat \ {0} /\ LastOpcode \in Nat
  BY LineProgramAssumption DEF ProgramTypes, Header
<1>2. n * header.min_inst_length \in Int
  BY <1>1
<1> DEFINE Plain(o) == Std(3, o, << 1 >>)
           t == Advanced(s, n * header.min_inst_length)
<1>3. ASSUME NEW o \in Lebs, Signed(o) = l
      PROVE  Plain(o) \in Seq(Int) /\ AtLine(row, Plain(o), t)
  BY <1>2, <1>3, LineWritten
<1>4. ASSUME NEW u \in Ulebs(n, w), NEW o \in Slebs(l, w), c = Std(2, u, Plain(o))
      PROVE  c \in Seq(Int) /\ AtRow(header, row, c, s)
  <2>1. u \in Lebs /\ Unsigned(u) = n /\ o \in Lebs /\ Signed(o) = l /\ u \in Seq(Int) /\ n \in Int
    BY LebType DEF Ulebs, Slebs
  <2>2. Plain(o) \in Seq(Int) /\ AtLine(row, Plain(o), t)
    BY <1>3, <2>1
  <2> HIDE DEF Plain
  <2>3. c \in Seq(Int)
    BY <1>4, <2>1, <2>2, StdIs
  <2>4. AtRow(header, row, c, s)
    BY <1>4, <2>1, <2>2 DEF AtRow
  <2>5. QED
    BY <2>3, <2>4
<1>5. ASSUME NEW b \in WordsOf(n * header.min_inst_length, 2), NEW o \in Slebs(l, w),
             c = Std(9, b, Plain(o))
      PROVE  c \in Seq(Int) /\ AtRow(header, row, c, s)
  <2>1. b \in [1 .. 2 -> 0 .. LastOpcode] /\ Word(b) = n * header.min_inst_length
        /\ o \in Lebs /\ Signed(o) = l
    BY DEF WordsOf, Slebs, ByteStrings
  <2>2. b \in Seq(Int) /\ Len(b) = 2
    <3>1. b \in [1 .. 2 -> Int] /\ 2 \in Nat
      BY <1>1, <2>1
    <3>2. b \in Seq(Int)
      BY <3>1, SeqDef
    <3>3. QED
      BY <3>1, <3>2, LenProperties
  <2>3. Plain(o) \in Seq(Int) /\ AtLine(row, Plain(o), t)
    BY <1>3, <2>1
  <2> HIDE DEF Plain
  <2>4. c \in Seq(Int)
    BY <1>5, <2>2, <2>3, StdIs
  <2>5. AtRow(header, row, c, s)
    BY <1>2, <1>5, <2>1, <2>2, <2>3 DEF AtRow
  <2>6. QED
    BY <2>4, <2>5
<1>6. CASE FitsSpecial(n, l) /\ c = <<Special(n, l)>>
  BY <1>6, SpecialWritten DEF AtRow
<1>7. CASE /\ n >= ConstAdvance /\ FitsSpecial(n - ConstAdvance, l)
           /\ c = <<8, Special(n - ConstAdvance, l)>>
  <2> DEFINE k == ConstAdvance
             m == n - k
             r == Advanced(s, Constant(header))
             d == <<Special(m, l)>>
             a == header.min_inst_length
  <2>1. k \in Int /\ m \in Nat /\ Constant(header) = k * a
    BY <1>1, <1>7 DEF ConstAdvance, Constant
  <2> HIDE DEF k
  <2>2. a \in Int /\ k * a \in Int /\ s.address \in Int
    BY <1>1, <2>1 DEF RegisterFile
  <2>3. r \in RegisterFile /\ r.address = s.address + k * a
        /\ r.line = s.line /\ r.file_index = s.file_index
    BY <2>1, <2>2 DEF Advanced, RegisterFile
  <2>4. row.address = r.address + m * a
    BY <2>1, <2>2, <2>3, Distributes
  <2>5. FitsSpecial(m, l)
    BY <1>7 DEF k
  <2> HIDE DEF r, m, a
  <2>6. Special(m, l) \in Int /\ d \in Seq(Int) /\ AtSpecial(header, row, d, r)
    BY <2>1, <2>3, <2>4, <2>5, SpecialWritten DEF a
  <2>7. c = Std(8, <<>>, d)
    <3>1. c = <<8, Special(m, l)>>
      BY <1>7 DEF m, k
    <3>2. QED
      BY <3>1, <2>6, OneIs
  <2> HIDE DEF d
  <2>8. c \in Seq(Int)
    <3> DEFINE e == <<>>
    <3>1. e \in Seq(Int) /\ c = Std(8, e, d)
      BY <2>7, EmptySeq
    <3> HIDE DEF e
    <3>2. QED
      BY <2>6, <3>1, StdIs
  <2>9. QED
    BY <2>6, <2>7, <2>8 DEF AtRow, r
<1>8. \/ c \in Advancing(n, l, w) \/ c \in Fixed(n, l, w)
      \/ c \in Packed(n, l) \/ c \in PackedConst(n, l)
  BY DEF Encodings
<1>9. c \in Advancing(n, l, w) =>
        \E u \in Ulebs(n, w), o \in Slebs(l, w) : c = Std(2, u, Plain(o))
  BY DEF Advancing
<1>10. c \in Fixed(n, l, w) =>
        \E b \in WordsOf(n * header.min_inst_length, 2), o \in Slebs(l, w) :
            c = Std(9, b, Plain(o))
  BY DEF Fixed
<1>11. c \in Packed(n, l) => FitsSpecial(n, l) /\ c = <<Special(n, l)>>
  BY DEF Packed
<1>12. c \in PackedConst(n, l) => /\ n >= ConstAdvance /\ FitsSpecial(n - ConstAdvance, l)
                                 /\ c = <<8, Special(n - ConstAdvance, l)>>
  BY DEF PackedConst
<1>13. QED
  BY <1>4, <1>5, <1>6, <1>7, <1>8, <1>9, <1>10, <1>11, <1>12

LEMMA FileWritten ==
    ASSUME ProgramTypes, NEW row \in RegisterFile, NEW c \in Seq(Int), NEW w,
           AtRow(header, row, c, [now EXCEPT !.file_index = row.file_index]),
           NEW d \in WithFile(row, c, w)
    PROVE  d \in Seq(Int) /\ AtFile(header, row, d, now)
<1>1. CASE row.file_index = now.file_index
  <2>1. [now EXCEPT !.file_index = row.file_index] = now
    BY <1>1 DEF ProgramTypes, RegisterFile
  <2>2. d = c
    BY <1>1 DEF WithFile
  <2>3. QED
    BY <2>1, <2>2 DEF AtFile
<1>2. CASE row.file_index # now.file_index
  <2>1. PICK u \in Ulebs(row.file_index, w) : d = Std(4, u, c)
    BY <1>2 DEF WithFile
  <2>2. u \in Lebs /\ Unsigned(u) = row.file_index /\ row.file_index \in Int /\ u \in Seq(Int)
    BY LebType DEF Ulebs, RegisterFile
  <2>3. d \in Seq(Int)
    <3>1. u \in Seq(Int) /\ 4 \in Int
      BY <2>2
    <3>2. Std(4, u, c) \in Seq(Int)
      BY <3>1, StdIs
    <3>3. QED
      BY <2>1, <3>2
  <2>4. QED
    BY <2>1, <2>2, <2>3 DEF AtFile
<1>3. QED
  BY <1>1, <1>2

LEMMA IdleWritten ==
    ASSUME OneByteIsas, ProgramTypes, NEW row \in RegisterFile, NEW c \in Seq(Int), NEW w,
           AtFile(header, row, c, now), NEW d \in WithIdle(c, w)
    PROVE  d \in Seq(Int) /\ AtStart(header, row, d, now)
<1>1. PICK i \in WithIsa(c) : \E x \in Ulebs(2, w), k \in Ulebs(3, w) :
        d = Ext(x, <<4, 7>>, Std(5, k, Std(6, <<>>, Std(7, <<>>, i))))
  BY DEF WithIdle
<1>2. PICK x \in Ulebs(2, w), k \in Ulebs(3, w) :
        d = Ext(x, <<4, 7>>, Std(5, k, Std(6, <<>>, Std(7, <<>>, i))))
  BY <1>1
<1>3. /\ x \in Lebs /\ Unsigned(x) = 2 /\ k \in Lebs
      /\ x \in Seq(Int) /\ k \in Seq(Int) /\ <<4, 7>> \in Seq(Int)
  BY LebType DEF Ulebs
<1>4. i \in Seq(Int) /\ AtIsa(header, row, i, now)
  <2>1. CASE ~ IsStandard(12)
    BY <2>1 DEF WithIsa, AtIsa
  <2>2. CASE IsStandard(12)
    <3>1. PICK o \in Isas : i = Std(12, o, c)
      BY <2>2 DEF WithIsa
    <3>2. o \in Lebs /\ o \in Seq(Int) /\ Len(o) = 1
      BY LineProgramAssumption, LebType DEF OneByteIsas
    <3>3. header.opcode_base = 13
      BY <2>2 DEF IsStandard, ProgramTypes, Header
    <3>4. i \in Seq(Int)
      BY <3>1, <3>2, StdIs
    <3>5. QED
      BY <3>1, <3>2, <3>3, <3>4 DEF AtIsa
  <2>3. QED
    BY <2>1, <2>2
<1> DEFINE e == <<>>
           block == Std(7, e, i)
           stmt == Std(6, e, block)
           column == Std(5, k, stmt)
<1>5. e \in Seq(Int)
  BY EmptySeq
<1>6. d = Ext(x, <<4, 7>>, column)
  BY <1>2
<1>7. AtBlock(header, row, block, now)
  BY <1>4 DEF AtBlock
<1>8. block \in Seq(Int)
  <2> HIDE DEF e
  <2>1. QED
    BY <1>4, <1>5, StdIs
<1> HIDE DEF block
<1>9. AtStmt(header, row, stmt, now)
  BY <1>7, <1>8 DEF AtStmt
<1> HIDE DEF e
<1>10. stmt \in Seq(Int)
  BY <1>5, <1>8, StdIs
<1> HIDE DEF stmt
<1>11. column \in Seq(Int) /\ AtColumn(header, row, column, now)
  BY <1>3, <1>9, <1>10, StdIs DEF AtColumn
<1> HIDE DEF column
<1>12. d \in Seq(Int)
  BY <1>3, <1>6, <1>11, ExtIs
<1>13. QED
  BY <1>3, <1>6, <1>11, <1>12 DEF AtStart

-------------------------------------------------------------------------------
LEMMA DecodeInvInit ==
    LineProgramInit => DecodeInv
<1>1. SUFFICES ASSUME LineProgramInit PROVE DecodeInv
  OBVIOUS
<1>2. header \in Header
  BY <1>1, LineProgramAssumption DEF LineProgramInit, Header
<1>3. QED
  BY <1>1, <1>2, EmptySeq DEF LineProgramInit, DecodeInv, ProgramTypes, RegisterFile, Begin

(* Where nothing is left to decode reader and assembler agree. *)
LEMMA Settled ==
    ASSUME DecodeInv, code = <<>>
    PROVE  state = now /\ decoded = wanted
<1>1. ~ RowLeft(header, now, code, state)
  BY NotEmpty DEF DecodeInv
<1>2. \A a \in Int : ~ AtAddress(code, a) /\ ~ AtEnd(code, a)
  BY EndNotEmpty
<1>3. QED
  BY <1>1, <1>2 DEF DecodeInv

LEMMA WriteRowKeeps ==
    ASSUME OneByteIsas, DecodeInv, WriteRow
    PROVE  DecodeInv'
<1>1. /\ state = now /\ decoded = wanted /\ ProgramTypes
      /\ header.min_inst_length \in Nat /\ now \in RegisterFile
  BY Settled DEF WriteRow, DecodeInv, ProgramTypes, Header
<1>2. PICK n \in 0 .. MaxAdvance, l \in RowLines, f \in DOMAIN FilePaths, w \in 1 .. MaxOperand :
         LET row == [address |-> now.address + n * header.min_inst_length,
                     line |-> l, file_index |-> f]
         IN  /\ \E c \in Encodings(n, l - now.line, w) : \E d \in WithFile(row, c, w) :
                  code' \in WithIdle(d, w)
             /\ now' = row /\ wanted' = wanted \o RowsOf(row)
  BY DEF WriteRow
<1> DEFINE row == [address |-> now.address + n * header.min_inst_length,
                   line |-> l, file_index |-> f]
           s == [now EXCEPT !.file_index = row.file_index]
           k == l - now.line
<1>3. n \in Nat /\ l \in Int /\ f \in Int /\ n * header.min_inst_length \in Int
      /\ now.address \in Int /\ now.line \in Int
  BY <1>1, LineProgramAssumption, LenProperties DEF RegisterFile
<1>4. row \in RegisterFile /\ s \in RegisterFile /\ k \in Int
  BY <1>1, <1>3 DEF RegisterFile
<1>5. /\ row.address = s.address + n * header.min_inst_length
      /\ row.line = s.line + k /\ row.file_index = s.file_index
  BY <1>1, <1>3 DEF RegisterFile
<1>6. PICK c \in Encodings(n, k, w) : \E d \in WithFile(row, c, w) : code' \in WithIdle(d, w)
  BY <1>2
<1>7. PICK d \in WithFile(row, c, w) : code' \in WithIdle(d, w)
  BY <1>6
<1>8. now' = row /\ wanted' = decoded \o RowsOf(row)
  BY <1>1, <1>2
<1> HIDE DEF k
<1> HIDE DEF row
<1>9. c \in Seq(Int) /\ AtRow(header, row, c, s)
  BY <1>1, <1>3, <1>4, <1>5, EncodingWritten
<1>10. d \in Seq(Int) /\ AtFile(header, row, d, now)
  BY <1>1, <1>4, <1>9, FileWritten
<1>11. code' \in Seq(Int) /\ AtStart(header, row, code', now)
  BY <1>1, <1>4, <1>7, <1>10, IdleWritten
<1>12. header' = header /\ state' = state /\ decoded' = decoded
  BY DEF WriteRow
<1>13. RowLeft(header', now', code', state') /\ wanted' = decoded' \o RowsOf(now')
  BY <1>1, <1>8, <1>11, <1>12 DEF RowLeft, RowsOf
<1>14. ProgramTypes'
  BY <1>1, <1>4, <1>8, <1>11, <1>12 DEF ProgramTypes
<1>15. QED
  BY <1>13, <1>14 DEF DecodeInv

LEMMA WriteEndKeeps ==
    ASSUME DecodeInv, WriteEnd
    PROVE  DecodeInv'
<1>1. /\ state = now /\ decoded = wanted /\ ProgramTypes
      /\ header.min_inst_length \in Nat /\ LastOpcode \in Nat /\ AddressSize \in Nat
  BY Settled, LineProgramAssumption DEF WriteEnd, DecodeInv, ProgramTypes, Header
<1>2. PICK a \in {0, header.min_inst_length}, w \in 1 .. MaxOperand :
         /\ \E x \in Ulebs(1, w), y \in Ulebs(1 + AddressSize, w), b \in WordsOf(a, AddressSize) :
              code' = Ext(x, <<1>>, Ext(y, <<2>> \o b, <<>>))
         /\ now' = [Begin EXCEPT !.address = a]
  BY DEF WriteEnd
<1>3. PICK x \in Ulebs(1, w), y \in Ulebs(1 + AddressSize, w), b \in WordsOf(a, AddressSize) :
        code' = Ext(x, <<1>>, Ext(y, <<2>> \o b, <<>>))
  BY <1>2
<1>4. a \in Int /\ x \in Lebs /\ y \in Lebs /\ x \in Seq(Int) /\ y \in Seq(Int)
      /\ Unsigned(x) = 1 /\ Unsigned(y) = 1 + AddressSize
  BY <1>1, LebType DEF Ulebs
<1>5. b \in Seq(Int) /\ Len(b) = AddressSize /\ Word(b) = a
  <2>1. b \in [1 .. AddressSize -> 0 .. LastOpcode] /\ Word(b) = a
    BY DEF WordsOf, ByteStrings
  <2>2. b \in [1 .. AddressSize -> Int]
    BY <1>1, <2>1
  <2>3. b \in Seq(Int)
    BY <1>1, <2>2, SeqDef
  <2>4. QED
    BY <1>1, <2>1, <2>2, <2>3, LenProperties
<1> DEFINE e == <<>>
           one == << 1 >>
           body == << 2 >> \o b
           d == Ext(y, body, e)
<1>6. e \in Seq(Int) /\ one \in Seq(Int)
  BY EmptySeq, OneIs
<1>7. body \in Seq(Int)
  BY <1>5, OneIs, ConcatType
<1>8. AtAddress(d, a)
  BY <1>4, <1>5 DEF AtAddress
<1>9. code' = Ext(x, one, d)
  BY <1>3
<1> HIDE DEF e, body
<1>10. d \in Seq(Int)
  BY <1>4, <1>6, <1>7, ExtIs
<1> HIDE DEF d
<1>11. AtEnd(code', a)
  BY <1>4, <1>8, <1>9, <1>10 DEF AtEnd
<1> HIDE DEF one
<1>12. code' \in Seq(Int)
  BY <1>4, <1>6, <1>9, <1>10, ExtIs
<1>13. wanted' = decoded' \o RowsOf(state') /\ header' = header /\ state' = state
  BY <1>1 DEF WriteEnd, RowsOf
<1>14. now' \in RegisterFile
  BY <1>2, <1>4 DEF RegisterFile, Begin
<1>15. ProgramTypes'
  BY <1>1, <1>12, <1>13, <1>14 DEF ProgramTypes
<1>16. now' = [Begin EXCEPT !.address = a]
  BY <1>2
<1>17. QED
  BY <1>4, <1>11, <1>13, <1>15, <1>16 DEF DecodeInv

LEMMA DecodeKeeps ==
    ASSUME DecodeInv, Decode
    PROVE  DecodeInv'
<1>1. ProgramTypes /\ code # <<>>
  BY DEF DecodeInv, Decode
<1>2. header' = header /\ now' = now /\ wanted' = wanted
  BY DEF Decode
<1>3. Begin \in RegisterFile
  BY DEF Begin, RegisterFile
<1>4. CASE RowLeft(header, now, code, state) /\ wanted = decoded \o RowsOf(now)
  <2>1. CASE Going
    <3>1. ProgramTypes'
      BY <1>1, <1>2, <2>1 DEF ProgramTypes, Going
    <3>2. RowLeft(header', now', code', state') /\ wanted' = decoded' \o RowsOf(now')
      BY <1>2, <1>4, <2>1 DEF Going, RowsOf
    <3>3. QED
      BY <3>1, <3>2 DEF DecodeInv
  <2>2. CASE Arriving
    <3>1. ProgramTypes'
      BY <1>1, <1>2, <2>2, EmptySeq DEF ProgramTypes, Arriving
    <3>2. code' = <<>> /\ state' = now' /\ decoded' = wanted'
      BY <1>2, <1>4, <2>2 DEF Arriving
    <3>3. QED
      BY <3>1, <3>2 DEF DecodeInv
  <2>3. QED
    BY <1>1, <1>4, <2>1, <2>2, RowGoesOn
<1>5. ASSUME NEW a \in Int, AtEnd(code, a), now = [Begin EXCEPT !.address = a],
             wanted = decoded \o RowsOf(state)
      PROVE  DecodeInv'
  <2>1. PICK x \in Lebs, d \in Seq(Int) :
          Unsigned(x) = 1 /\ code = Ext(x, << 1 >>, d) /\ AtAddress(d, a)
    BY <1>5 DEF AtEnd
  <2> DEFINE e == << 1 >>
  <2>2. e \in Seq(Int) /\ Len(e) = 1 /\ e # <<>> /\ e[1] = 1 /\ code = Ext(x, e, d)
    BY <2>1
  <2> HIDE DEF e
  <2>3. code' = d /\ state' = Begin /\ decoded' = decoded \o RowsOf(state)
    BY <1>1, <2>1, <2>2, ExtendedRound
  <2>4. ProgramTypes'
    BY <1>1, <1>2, <1>3, <2>3 DEF ProgramTypes
  <2>5. AtAddress(code', a)
    BY <2>1, <2>3
  <2>6. QED
    BY <1>2, <1>5, <2>3, <2>4, <2>5 DEF DecodeInv
<1>6. ASSUME NEW a \in Int, AtAddress(code, a), state = Begin,
             now = [Begin EXCEPT !.address = a], wanted = decoded
      PROVE  DecodeInv'
  <2>1. PICK y \in Lebs, b \in Seq(Int) :
          /\ Unsigned(y) = 1 + AddressSize /\ Len(b) = AddressSize /\ Word(b) = a
          /\ code = Ext(y, << 2 >> \o b, <<>>)
    BY <1>6 DEF AtAddress
  <2> DEFINE two == << 2 >>
             e == two \o b
             d == <<>>
  <2>2. /\ two \in Seq(Int) /\ Len(two) = 1 /\ d \in Seq(Int) /\ code = Ext(y, e, d)
        /\ AddressSize \in Nat \ {0}
    BY <2>1, EmptySeq, LineProgramAssumption
  <2>3. e \in Seq(Int) /\ e # <<>> /\ e[1] = 2
    BY Headed
  <2> HIDE DEF two
  <2>4. Len(e) = 1 + AddressSize /\ SubSeq(e, 2, AddressSize + 1) = b
    <3>1. Skip(e, Len(two)) = b /\ Len(e) = Len(two) + Len(b)
      BY <2>2, Cut
    <3>2. Len(e) = AddressSize + 1 /\ Skip(e, 1) = b
      BY <2>1, <2>2, <3>1
    <3>3. QED
      BY <2>2, <3>2 DEF Skip
  <2>5. e \o d = e
    BY <2>3, ConcatEmptySeq
  <2> HIDE DEF e, d
  <2>6. code' = d /\ decoded' = decoded
        /\ state' = [state EXCEPT !.address = Word(SubSeq(e \o d, 2, AddressSize + 1))]
    <3>1. Unsigned(y) = Len(e) /\ e[1] # 1
      BY <2>1, <2>3, <2>4
    <3>2. QED
      BY <1>1, <2>2, <2>3, <3>1, ExtendedRound
  <2>7. state' = now
    BY <1>6, <2>1, <2>4, <2>5, <2>6
  <2>8. ProgramTypes'
    BY <1>1, <1>2, <2>2, <2>6, <2>7 DEF ProgramTypes
  <2>9. QED
    BY <1>2, <1>6, <2>6, <2>7, <2>8 DEF DecodeInv, d
<1>7. QED
  BY <1>1, <1>4, <1>5, <1>6 DEF DecodeInv

LEMMA DecodeInvStep ==
    OneByteIsas /\ DecodeInv /\ [LineProgramNext]_lineProgramVars => DecodeInv'
<1>1. SUFFICES ASSUME OneByteIsas, DecodeInv, [LineProgramNext]_lineProgramVars PROVE DecodeInv'
  OBVIOUS
<1>2. CASE WriteRow
  BY <1>1, <1>2, WriteRowKeeps
<1>3. CASE WriteEnd
  BY <1>1, <1>3, WriteEndKeeps
<1>4. CASE Decode
  BY <1>1, <1>4, DecodeKeeps
<1>5. CASE UNCHANGED lineProgramVars
  BY <1>1, <1>5 DEF lineProgramVars, DecodeInv, ProgramTypes, RowsOf
<1>6. CASE UnitEnds
  BY <1>5, <1>6 DEF UnitEnds
<1>7. QED
  BY <1>1, <1>2, <1>3, <1>4, <1>5, <1>6 DEF LineProgramNext

(* Where the operands of set_isa are one byte long, parse_line_program       *)
(* rebuilds the rows the assembler had in mind, whichever encodings it chose *)
(* for each and in however many bytes it wrote their numbers.                *)
THEOREM ProgramIsDecoded ==
    ASSUME OneByteIsas
    PROVE  LineProgramSpec => []RowsDecoded
<1>1. DecodeInv => RowsDecoded
  BY Settled DEF RowsDecoded
<1>2. DecodeInv /\ [LineProgramNext]_lineProgramVars => DecodeInv'
  BY DecodeInvStep
<1>3. QED
  BY <1>1, <1>2, DecodeInvInit, PTL DEF LineProgramSpec
-------------------------------------------------------------------------------
(***************************************************************************)
(* DebugRegisters.                                                         *)
(***************************************************************************)
RegisterSet == [dr : [Slots -> Nat], dr7 : SUBSET Nat, wcr : [Slots -> SUBSET Nat]]
Watch == [addr : Nat, size : HwSizes, mode : WatchModes]

ArmMode(mode) == IF mode = "access" THEN {3, 4} ELSE {4}

(* The registers of a slot say what the table's entry w says. *)
HeldX86(r, slot, w) ==
    /\ r.dr[slot] = w.addr /\ 2 * slot \in r.dr7
    /\ \A b \in 0 .. 1 : /\ b + (16 + 4 * slot) \in r.dr7 <=> b \in RwBits(w.mode)
                         /\ b + (18 + 4 * slot) \in r.dr7 <=> b \in LenBits[w.size]
HeldArm(r, slot, w) ==
    /\ r.dr[slot] = w.addr - (w.addr % 8)
    /\ r.wcr[slot] = {0, 1, 2} \cup ArmMode(w.mode) \cup Shifted(0 .. w.size - 1, 5 + (w.addr % 8))
    /\ (w.addr % 8) + w.size <= 8
Held(r, slot, w) == IF arch = "arm64" THEN HeldArm(r, slot, w) ELSE HeldX86(r, slot, w)

LEMMA SlotTypes ==
    /\ HwSlots \in 1 .. 4
    /\ \A s \in Slots : s \in 0 .. 3 /\ s \in Nat
BY DebugRegistersAssumption DEF Slots

LEMMA AtSlot ==
    ASSUME NEW f, NEW slot \in Slots, NEW v
    PROVE  /\ At(f, slot, v)[slot] = v
           /\ \A s \in Slots : s # slot => At(f, slot, v)[s] = f[s]
           /\ f \in [Slots -> Nat] /\ v \in Nat => At(f, slot, v) \in [Slots -> Nat]
           /\ f \in [Slots -> SUBSET Nat] /\ v \in SUBSET Nat =>
                  At(f, slot, v) \in [Slots -> SUBSET Nat]
BY DEF At

LEMMA ShiftedBy ==
    ASSUME NEW bits, NEW n, NEW m
    PROVE  m \in Shifted(bits, n) <=> \E b \in bits : m = b + n
BY DEF Shifted

LEMMA LenBitsAre ==
    /\ LenBits[1] = {} /\ LenBits[2] = {0} /\ LenBits[8] = {1} /\ LenBits[4] = {0, 1}
    /\ \A size \in HwSizes : LenBits[size] \subseteq 0 .. 1
BY DEF LenBits, HwSizes

(* The shared register, with the fields of a slot written over. *)
Fields(old, slot, size, mode) ==
    (old \ Shifted(0 .. 3, 16 + 4 * slot))
      \cup Shifted(RwBits(mode), 16 + 4 * slot)
      \cup Shifted(LenBits[size], 18 + 4 * slot) \cup {2 * slot}

LEMMA X86Fields ==
    ASSUME NEW slot \in Slots, NEW dr7x \in SUBSET Nat, NEW size \in HwSizes,
           NEW mode \in WatchModes
    PROVE  LET new == Fields(dr7x, slot, size, mode)
           IN  /\ new \in SUBSET Nat
               /\ 2 * slot \in new
               /\ \A b \in 0 .. 1 : /\ b + (16 + 4 * slot) \in new <=> b \in RwBits(mode)
                                    /\ b + (18 + 4 * slot) \in new <=> b \in LenBits[size]
               /\ \A s \in Slots : s # slot =>
                     /\ 2 * s \in new <=> 2 * s \in dr7x
                     /\ \A b \in 0 .. 3 : b + (16 + 4 * s) \in new <=> b + (16 + 4 * s) \in dr7x
<1> DEFINE new == Fields(dr7x, slot, size, mode)
<1> DEFINE rw == RwBits(mode)
           len == LenBits[size]
<1>1. rw \subseteq 0 .. 1 /\ len \subseteq 0 .. 1
  BY LenBitsAre DEF RwBits
<1>2. \A s \in Slots : s \in 0 .. 3
  BY SlotTypes
<1>3. \A m : m \in new <=>
        \/ m \in dr7x /\ ~ \E b \in 0 .. 3 : m = b + (16 + 4 * slot)
        \/ \E b \in rw : m = b + (16 + 4 * slot)
        \/ \E b \in len : m = b + (18 + 4 * slot)
        \/ m = 2 * slot
  BY ShiftedBy DEF Fields
<1> HIDE DEF rw, len, new
<1>4. new \in SUBSET Nat
  <2>1. ASSUME NEW m \in new PROVE m \in Nat
    <3>1. slot \in Nat /\ (\A c \in rw : c \in Nat) /\ (\A c \in len : c \in Nat)
      BY <1>1, <1>2
    <3>2. \A c \in Nat : c + (16 + 4 * slot) \in Nat /\ c + (18 + 4 * slot) \in Nat
      BY <3>1
    <3>3. 2 * slot \in Nat
      BY <3>1
    <3>4. m \in dr7x => m \in Nat
      OBVIOUS
    <3>5. QED
      BY <1>3, <3>1, <3>2, <3>3, <3>4
  <2>2. QED
    BY <2>1
<1>5. 2 * slot \in new
  BY <1>3
<1>6. ASSUME NEW b \in 0 .. 1
      PROVE  /\ b + (16 + 4 * slot) \in new <=> b \in rw
             /\ b + (18 + 4 * slot) \in new <=> b \in len
  <2>1. \A c \in rw : c \in Nat /\ c <= 1
    BY <1>1
  <2>2. \A c \in len : c \in Nat /\ c <= 1
    BY <1>1
  <2>3. slot \in Nat /\ slot <= 3
    BY <1>2
  <2>4. b + (16 + 4 * slot) \in new <=> b \in rw
    BY <1>3, <2>1, <2>2, <2>3
  <2>5. b + (18 + 4 * slot) \in new <=> b \in len
    <3>1. b + (18 + 4 * slot) = (b + 2) + (16 + 4 * slot) /\ b + 2 \in 0 .. 3
      BY <2>3
    <3>2. QED
      BY <1>3, <2>1, <2>2, <2>3, <3>1
  <2>6. QED
    BY <2>4, <2>5
<1>7. ASSUME NEW s \in Slots, s # slot
      PROVE  /\ 2 * s \in new <=> 2 * s \in dr7x
             /\ \A b \in 0 .. 3 : b + (16 + 4 * s) \in new <=> b + (16 + 4 * s) \in dr7x
  <2>1. \A c \in rw : c \in Nat /\ c <= 1
    BY <1>1
  <2>2. \A c \in len : c \in Nat /\ c <= 1
    BY <1>1
  <2>3. slot \in Nat /\ slot <= 3 /\ s \in Nat /\ s <= 3
    BY <1>2
  <2>4. 2 * s \in new <=> 2 * s \in dr7x
    BY <1>3, <1>7, <2>1, <2>2, <2>3
  <2>5. ASSUME NEW b \in 0 .. 3
        PROVE  b + (16 + 4 * s) \in new <=> b + (16 + 4 * s) \in dr7x
    <3>1. \A c \in 0 .. 3 : b + (16 + 4 * s) # c + (16 + 4 * slot)
      BY <1>7, <2>3
    <3>2. \A c \in rw : b + (16 + 4 * s) # c + (16 + 4 * slot)
      BY <1>1, <3>1
    <3>3. \A c \in len : b + (16 + 4 * s) # c + (18 + 4 * slot)
      BY <1>7, <2>2, <2>3
    <3>4. b + (16 + 4 * s) # 2 * slot
      BY <2>3
    <3>5. QED
      BY <1>3, <3>1, <3>2, <3>3, <3>4
  <2>6. QED
    BY <2>4, <2>5
<1>8. QED
  BY <1>4, <1>5, <1>6, <1>7 DEF rw, len, new

LEMMA InstallHolds ==
    ASSUME NEW r \in RegisterSet, NEW slot \in Slots, NEW w \in Watch,
           Installable(w.addr, w.size)
    PROVE  LET new == Install(r, slot, w.addr, w.size, w.mode)
           IN  /\ new \in RegisterSet /\ Held(new, slot, w)
               /\ \A s \in Slots, v \in Watch : s # slot /\ Held(r, s, v) => Held(new, s, v)
<1> DEFINE new == Install(r, slot, w.addr, w.size, w.mode)
<1>1. w.addr \in Nat /\ w.size \in HwSizes /\ w.mode \in WatchModes
  BY DEF Watch
<1>2. r.dr \in [Slots -> Nat] /\ r.dr7 \in SUBSET Nat /\ r.wcr \in [Slots -> SUBSET Nat]
  BY DEF RegisterSet
<1>3. CASE arch = "arm64"
  <2> DEFINE base == w.addr - (w.addr % 8)
             bits == {0, 1, 2} \cup ArmMode(w.mode)
                       \cup Shifted(0 .. w.size - 1, 5 + (w.addr % 8))
  <2>1. new = [r EXCEPT !.dr = At(@, slot, base), !.wcr = At(@, slot, bits)]
    BY <1>3 DEF Install, InstallArm, ArmMode
  <2>2. base \in Nat /\ w.addr % 8 \in 0 .. 7
    BY <1>1
  <2>3. bits \in SUBSET Nat
    <3>1. w.size \in Nat
      BY <1>1 DEF HwSizes
    <3>2. \A m \in Shifted(0 .. w.size - 1, 5 + (w.addr % 8)) : m \in Nat
      BY <2>2, <3>1, ShiftedBy
    <3>3. QED
      BY <3>2 DEF ArmMode
  <2> HIDE DEF base, bits
  <2>4. new.dr = At(r.dr, slot, base) /\ new.wcr = At(r.wcr, slot, bits) /\ new.dr7 = r.dr7
    BY <2>1 DEF RegisterSet
  <2>5. /\ new.dr \in [Slots -> Nat] /\ new.dr[slot] = base
        /\ \A s \in Slots : s # slot => new.dr[s] = r.dr[s]
    BY <1>2, <2>2, <2>4 DEF At
  <2>6. /\ new.wcr \in [Slots -> SUBSET Nat] /\ new.wcr[slot] = bits
        /\ \A s \in Slots : s # slot => new.wcr[s] = r.wcr[s]
    BY <1>2, <2>3, <2>4 DEF At
  <2>7. new \in RegisterSet
    BY <2>1, <2>4, <2>5, <2>6 DEF RegisterSet
  <2>8. (w.addr % 8) + w.size <= 8
    BY <1>3 DEF Installable
  <2> HIDE DEF new
  <2>9. Held(new, slot, w)
    BY <1>3, <2>5, <2>6, <2>8 DEF Held, HeldArm, base, bits
  <2>10. ASSUME NEW s \in Slots, NEW v \in Watch, s # slot, Held(r, s, v)
         PROVE  Held(new, s, v)
    BY <1>3, <2>5, <2>6, <2>10 DEF Held, HeldArm
  <2>11. QED
    BY <2>7, <2>9, <2>10 DEF new
<1>4. CASE arch # "arm64"
  <2> DEFINE bits == Fields(r.dr7, slot, w.size, w.mode)
  <2>1. new = [r EXCEPT !.dr = At(@, slot, w.addr), !.dr7 = bits]
    BY <1>4 DEF Install, InstallX86, Fields
  <2>2. /\ bits \in SUBSET Nat
        /\ 2 * slot \in bits
        /\ \A b \in 0 .. 1 : /\ b + (16 + 4 * slot) \in bits <=> b \in RwBits(w.mode)
                             /\ b + (18 + 4 * slot) \in bits <=> b \in LenBits[w.size]
        /\ \A s \in Slots : s # slot =>
             /\ 2 * s \in bits <=> 2 * s \in r.dr7
             /\ \A b \in 0 .. 3 : b + (16 + 4 * s) \in bits <=> b + (16 + 4 * s) \in r.dr7
    BY <1>1, <1>2, X86Fields, Zenon
  <2> HIDE DEF bits
  <2>3. new.dr = At(r.dr, slot, w.addr) /\ new.dr7 = bits /\ new.wcr = r.wcr
    BY <2>1 DEF RegisterSet
  <2>4. /\ new.dr \in [Slots -> Nat] /\ new.dr[slot] = w.addr
        /\ \A s \in Slots : s # slot => new.dr[s] = r.dr[s]
    BY <1>1, <1>2, <2>3 DEF At
  <2>5. new \in RegisterSet
    BY <1>2, <2>1, <2>2, <2>3, <2>4 DEF RegisterSet
  <2> HIDE DEF new
  <2>6. Held(new, slot, w)
    BY <1>4, <2>2, <2>3, <2>4 DEF Held, HeldX86
  <2>7. ASSUME NEW s \in Slots, NEW v \in Watch, s # slot, Held(r, s, v)
        PROVE  Held(new, s, v)
    <3>1. HeldX86(r, s, v)
      BY <1>4, <2>7 DEF Held
    <3>2. \A b \in 0 .. 3 : b + (16 + 4 * s) \in new.dr7 <=> b + (16 + 4 * s) \in r.dr7
      BY <2>2, <2>3, <2>7
    <3>3. ASSUME NEW b \in 0 .. 1
          PROVE  /\ b + (16 + 4 * s) \in new.dr7 <=> b \in RwBits(v.mode)
                 /\ b + (18 + 4 * s) \in new.dr7 <=> b \in LenBits[v.size]
      <4>1. b \in 0 .. 3 /\ b + 2 \in 0 .. 3 /\ (b + 2) + (16 + 4 * s) = b + (18 + 4 * s)
        BY SlotTypes
      <4>2. b + (16 + 4 * s) \in new.dr7 <=> b + (16 + 4 * s) \in r.dr7
        BY <3>2, <4>1
      <4>3. (b + 2) + (16 + 4 * s) \in new.dr7 <=> (b + 2) + (16 + 4 * s) \in r.dr7
        BY <3>2, <4>1
      <4>4. b + (18 + 4 * s) \in new.dr7 <=> b + (18 + 4 * s) \in r.dr7
        BY <4>1, <4>3
      <4>5. QED
        BY <3>1, <4>2, <4>4 DEF HeldX86
    <3>4. r.dr[s] = v.addr /\ 2 * s \in r.dr7
      BY <3>1 DEF HeldX86
    <3>5. new.dr[s] = v.addr /\ 2 * s \in new.dr7
      BY <2>2, <2>3, <2>4, <2>7, <3>4
    <3>6. HeldX86(new, s, v)
      BY <3>3, <3>5 DEF HeldX86
    <3>7. QED
      BY <1>4, <3>6 DEF Held
  <2>8. QED
    BY <2>5, <2>6, <2>7 DEF new
<1>5. QED
  BY <1>3, <1>4

LEMMA UninstallKeeps ==
    ASSUME NEW r \in RegisterSet, NEW slot \in Slots
    PROVE  LET new == Uninstall(r, slot)
           IN  /\ new \in RegisterSet
               /\ \A s \in Slots, v \in Watch : s # slot /\ Held(r, s, v) => Held(new, s, v)
<1> DEFINE new == Uninstall(r, slot)
<1>1. r.dr \in [Slots -> Nat] /\ r.dr7 \in SUBSET Nat /\ r.wcr \in [Slots -> SUBSET Nat]
  BY DEF RegisterSet
<1>2. CASE arch = "arm64"
  <2>1. new = [r EXCEPT !.dr = At(@, slot, 0), !.wcr = At(@, slot, {})]
    BY <1>2 DEF Uninstall
  <2>2. new.dr = At(r.dr, slot, 0) /\ new.wcr = At(r.wcr, slot, {}) /\ new.dr7 = r.dr7
    BY <2>1 DEF RegisterSet
  <2>3. /\ new.dr \in [Slots -> Nat]
        /\ \A s \in Slots : s # slot => new.dr[s] = r.dr[s]
    BY <1>1, <2>2 DEF At
  <2>4. /\ new.wcr \in [Slots -> SUBSET Nat]
        /\ \A s \in Slots : s # slot => new.wcr[s] = r.wcr[s]
    <3>1. {} \in SUBSET Nat
      OBVIOUS
    <3>2. QED
      BY <1>1, <2>2, <3>1 DEF At
  <2>5. new \in RegisterSet
    BY <2>1, <2>2, <2>3, <2>4 DEF RegisterSet
  <2> HIDE DEF new
  <2>6. ASSUME NEW s \in Slots, NEW v \in Watch, s # slot, Held(r, s, v)
         PROVE  Held(new, s, v)
    BY <1>2, <2>3, <2>4, <2>6 DEF Held, HeldArm
  <2>7. QED
    BY <2>5, <2>6 DEF new
<1>3. CASE arch # "arm64"
  <2>1. new = [r EXCEPT !.dr = At(@, slot, 0), !.dr7 = @ \ {2 * slot}]
    BY <1>3 DEF Uninstall
  <2>2. new.dr = At(r.dr, slot, 0) /\ new.dr7 = r.dr7 \ {2 * slot} /\ new.wcr = r.wcr
    BY <2>1 DEF RegisterSet
  <2>3. /\ new.dr \in [Slots -> Nat]
        /\ \A s \in Slots : s # slot => new.dr[s] = r.dr[s]
    BY <1>1, <2>2 DEF At
  <2>4. new \in RegisterSet
    BY <1>1, <2>1, <2>2, <2>3 DEF RegisterSet
  <2> HIDE DEF new
  <2>5. ASSUME NEW s \in Slots, NEW v \in Watch, s # slot, Held(r, s, v)
        PROVE  Held(new, s, v)
    <3>1. HeldX86(r, s, v)
      BY <1>3, <2>5 DEF Held
    <3>2. 2 * s # 2 * slot
      BY <2>5, SlotTypes
    <3>3. \A b \in 0 .. 1 : b + (16 + 4 * s) # 2 * slot /\ b + (18 + 4 * s) # 2 * slot
      BY SlotTypes
    <3>4. HeldX86(new, s, v)
      BY <2>2, <2>3, <2>5, <3>1, <3>2, <3>3 DEF HeldX86
    <3>5. QED
      BY <1>3, <3>4 DEF Held
  <2>6. QED
    BY <2>4, <2>5 DEF new
<1>4. QED
  BY <1>2, <1>3

LEMMA UninstallOf ==
    ASSUME NEW r \in RegisterSet, NEW slot \in Slots
    PROVE  Uninstall(r, slot) \in RegisterSet
BY UninstallKeeps

(* The entries of a table, the n-th in slot n - 1. *)
AllHeld(r, table) == \A i \in DOMAIN table : Held(r, i - 1, table[i])
AllFit(table) == \A i \in DOMAIN table : Installable(table[i].addr, table[i].size)

TableInv ==
    /\ RegistersTypeOK
    /\ AllHeld(Registers, watched) /\ AllFit(watched)

LEMMA TableTypes ==
    ASSUME RegistersTypeOK
    PROVE  /\ watched \in Seq(Watch) /\ Len(watched) \in Nat /\ Len(watched) <= HwSlots
           /\ DOMAIN watched = 1 .. Len(watched)
           /\ \A i \in DOMAIN watched : watched[i] \in Watch /\ i \in Nat /\ i - 1 \in Slots
           /\ Registers \in RegisterSet
<1>1. watched \in Seq(Watch) /\ Len(watched) <= HwSlots
  BY DEF RegistersTypeOK, Watch
<1>2. Len(watched) \in Nat /\ DOMAIN watched = 1 .. Len(watched)
  BY <1>1, LenProperties
<1>3. \A i \in DOMAIN watched : watched[i] \in Watch
  BY <1>1, <1>2, ElementOfSeq
<1>4. \A i \in DOMAIN watched : i \in Nat /\ i - 1 \in Slots
  BY <1>1, <1>2, SlotTypes DEF Slots
<1>5. Registers \in RegisterSet
  BY DEF RegistersTypeOK, Registers, RegisterSet
<1>6. QED
  BY <1>1, <1>2, <1>3, <1>4, <1>5

LEMMA ChosenFits ==
    ASSUME NEW a \in Nat, NEW explicit \in HwSizes \cup {0}, NEW n \in Nat,
           NEW size \in Chosen(a, Tried(explicit, n))
    PROVE  size \in HwSizes /\ Installable(a, size)
BY DEF Chosen, Tried, HwSizes

LEMMA WatchStep ==
    ASSUME TableInv, NEW a \in Nat, NEW explicit \in HwSizes \cup {0}, NEW n \in Nat,
           NEW mode \in WatchModes, WatchValue(a, explicit, n, mode)
    PROVE  TableInv'
<1> DEFINE m == Len(watched)
<1>1. PICK size \in Chosen(a, Tried(explicit, n)) :
         /\ SetRegisters(Install(Registers, m, a, size, mode))
         /\ watched' = Append(watched, [addr |-> a, size |-> size, mode |-> mode])
  BY DEF WatchValue
<1> DEFINE w == [addr |-> a, size |-> size, mode |-> mode]
           new == Install(Registers, m, w.addr, w.size, w.mode)
<1>2. size \in HwSizes /\ Installable(a, size)
  BY ChosenFits
<1>3. w \in Watch /\ Installable(w.addr, w.size) /\ watched' = Append(watched, w)
      /\ SetRegisters(new)
  BY <1>1, <1>2 DEF Watch
<1>4. /\ watched \in Seq(Watch) /\ m \in Nat /\ m < HwSlots
      /\ DOMAIN watched = 1 .. m
      /\ \A i \in DOMAIN watched : watched[i] \in Watch /\ i \in Nat /\ i - 1 \in Slots
      /\ Registers \in RegisterSet
  BY TableTypes DEF TableInv, WatchValue
<1>5. m \in Slots
  BY <1>4, SlotTypes DEF Slots
<1> HIDE DEF w
<1>6. /\ new \in RegisterSet /\ Held(new, m, w)
      /\ \A s \in Slots, v \in Watch : s # m /\ Held(Registers, s, v) => Held(new, s, v)
  BY <1>3, <1>4, <1>5, InstallHolds, Zenon
<1> HIDE DEF new
<1>7. arch' = arch /\ arch \in {"x86_64", "arm64"}
  BY DEF WatchValue, TableInv, RegistersTypeOK
<1>8. Registers' = new
  BY <1>3, <1>6 DEF SetRegisters, Registers, RegisterSet
<1>9. /\ watched' \in Seq(Watch) /\ Len(watched') = m + 1 /\ DOMAIN watched' = 1 .. m + 1
      /\ watched'[m + 1] = w /\ \A i \in 1 .. m : watched'[i] = watched[i]
  BY <1>3, <1>4, AppendProperties, LenProperties
<1>10. RegistersTypeOK'
  <2>1. Len(watched') <= HwSlots
    BY <1>4, <1>9, SlotTypes
  <2>2. dr' = new.dr /\ dr7' = new.dr7 /\ wcr' = new.wcr
    BY <1>3 DEF SetRegisters
  <2>3. QED
    BY <1>6, <1>7, <1>9, <2>1, <2>2 DEF RegistersTypeOK, RegisterSet, Watch
<1>11. ASSUME NEW i \in DOMAIN watched'
       PROVE  Held(Registers, i - 1, watched[i])' /\ Installable(watched[i].addr, watched[i].size)'
  <2>1. CASE i \in 1 .. m
    <3>1. i \in DOMAIN watched /\ i - 1 \in Slots /\ i - 1 # m /\ watched[i] \in Watch
      BY <1>4, <2>1
    <3>2. Held(Registers, i - 1, watched[i]) /\ Installable(watched[i].addr, watched[i].size)
      BY <3>1 DEF TableInv, AllHeld, AllFit
    <3>3. Held(new, i - 1, watched[i])
      BY <1>6, <3>1, <3>2
    <3>4. watched'[i] = watched[i]
      BY <1>9, <2>1
    <3>5. QED
      BY <1>7, <1>8, <3>2, <3>3, <3>4 DEF Held, HeldArm, HeldX86, Installable
  <2>2. CASE i = m + 1
    <3>1. watched'[i] = w /\ i - 1 = m
      BY <1>4, <1>9, <2>2
    <3>2. QED
      BY <1>3, <1>6, <1>7, <1>8, <3>1 DEF Held, HeldArm, HeldX86, Installable
  <2>3. QED
    BY <1>9, <1>4, <2>1, <2>2
<1>12. QED
  BY <1>10, <1>11 DEF TableInv, AllHeld, AllFit

LessThan == OpToRel(<, Nat)

(* A set of numbers that is not empty has a first one. *)
LEMMA FirstExists ==
    ASSUME NEW S, S \subseteq Nat, S # {}
    PROVE  \E i \in S : \A j \in S : i <= j
<1>1. IsWellFoundedOn(LessThan, Nat)
  BY NatLessThanWellFounded, Zenon DEF LessThan
<1>2. PICK i \in S : \A j \in S : ~ (<<j, i>> \in LessThan)
  BY <1>1, WFMin
<1>3. \A m, n \in Nat : m < n => <<m, n>> \in LessThan
  BY DEF LessThan, OpToRel
<1>4. ASSUME NEW j \in S PROVE i <= j
  <2>1. ~ (j < i)
    BY <1>2, <1>3
  <2>2. QED
    BY <2>1
<1>5. QED
  BY <1>4

(* What the loop of delete makes of the registers at entry k. *)
MoveDown(i, k, before) ==
    IF k = i THEN Uninstall(Registers, i - 1)
    ELSE Install(before, k - 2, watched[k].addr, watched[k].size, watched[k].mode)

LEMMA LoopExists ==
    ASSUME NEW i \in Nat, NEW n \in Nat, i <= n
    PROVE  \E f : f = [k \in i .. n |-> MoveDown(i, k, f[k - 1])]
<1> DEFINE Has(m) == \E f : f = [k \in i .. m |-> MoveDown(i, k, f[k - 1])]
           S == {m \in Nat : i <= m /\ ~ Has(m)}
<1>1. SUFFICES ASSUME S # {} PROVE FALSE
  OBVIOUS
<1>2. PICK m \in S : \A j \in S : m <= j
  <2>1. S \subseteq Nat
    OBVIOUS
  <2> HIDE DEF S
  <2>2. QED
    BY <1>1, <2>1, FirstExists
<1>3. m \in Nat /\ i <= m /\ ~ Has(m)
  BY <1>2
<1>4. CASE m = i
  <2> DEFINE f == [k \in i .. m |-> MoveDown(i, i, 0)]
  <2>1. \A k \in i .. m : k = i
    BY <1>4
  <2>2. \A k \in i .. m : \A x : MoveDown(i, k, x) = MoveDown(i, i, 0)
    BY <2>1 DEF MoveDown
  <2>3. f = [k \in i .. m |-> MoveDown(i, k, f[k - 1])]
    BY <2>2
  <2>4. QED
    BY <1>3, <2>3
<1>5. CASE m # i
  <2>1. m - 1 \in Nat /\ i <= m - 1 /\ m - 1 \notin S
    BY <1>2, <1>3, <1>5
  <2>2. PICK g : g = [k \in i .. m - 1 |-> MoveDown(i, k, g[k - 1])]
    BY <2>1
  <2> DEFINE f == [k \in i .. m |-> IF k = m THEN MoveDown(i, m, g[m - 1]) ELSE g[k]]
  <2>3. ASSUME NEW k \in i .. m PROVE f[k] = MoveDown(i, k, f[k - 1])
    <3>1. CASE k = m
      <4>1. m - 1 \in i .. m /\ m - 1 # m
        BY <1>3, <2>1
      <4>2. f[m - 1] = g[m - 1]
        BY <4>1
      <4>3. QED
        BY <3>1, <4>2
    <3>2. CASE k # m /\ k # i
      <4>1. k - 1 \in i .. m /\ k - 1 # m /\ k \in i .. m - 1
        BY <1>3, <2>1, <3>2
      <4>2. f[k - 1] = g[k - 1] /\ f[k] = g[k]
        BY <3>2, <4>1
      <4>3. g[k] = MoveDown(i, k, g[k - 1])
        BY <2>2, <4>1
      <4>4. QED
        BY <4>2, <4>3
    <3>3. CASE k # m /\ k = i
      <4>1. k \in i .. m - 1
        BY <1>3, <2>1, <3>3
      <4>2. f[k] = g[k] /\ g[k] = MoveDown(i, k, g[k - 1])
        BY <2>2, <3>3, <4>1
      <4>3. MoveDown(i, k, g[k - 1]) = MoveDown(i, k, f[k - 1])
        BY <3>3 DEF MoveDown
      <4>4. QED
        BY <4>2, <4>3
    <3>4. QED
      BY <3>1, <3>2, <3>3
  <2>4. f = [k \in i .. m |-> f[k]]
    OBVIOUS
  <2> HIDE DEF f
  <2>5. f = [k \in i .. m |-> MoveDown(i, k, f[k - 1])]
    BY <2>3, <2>4
  <2>6. QED
    BY <1>3, <2>5
<1>6. QED
  BY <1>4, <1>5

LEMMA LoopRuns ==
    ASSUME RegistersTypeOK, NEW i \in DOMAIN watched, DeleteWatched(i)
    PROVE  \E f : /\ f[i] = Uninstall(Registers, i - 1)
                  /\ \A k \in i + 1 .. Len(watched) :
                        f[k] = Install(f[k - 1], k - 2, watched[k].addr, watched[k].size,
                                       watched[k].mode)
                  /\ SetRegisters(f[Len(watched)])
<1> DEFINE n == Len(watched)
           F(f) == [k \in i .. n |->
                      IF k = i THEN Uninstall(Registers, i - 1)
                      ELSE Install(f[k - 1], k - 2, watched[k].addr, watched[k].size,
                                   watched[k].mode)]
           moved == CHOOSE f : f = F(f)
<1>1. n \in Nat /\ i \in 1 .. n /\ i \in Nat
  BY TableTypes
<1>2. \E f : f = F(f)
  <2>1. PICK f : f = [k \in i .. n |-> MoveDown(i, k, f[k - 1])]
    BY <1>1, LoopExists
  <2>2. f = F(f)
    BY <2>1 DEF MoveDown
  <2>3. QED
    BY <2>2
<1>3. moved = F(moved)
  BY <1>2
<1>4. SetRegisters(moved[n])
  BY DEF DeleteWatched
<1> HIDE DEF moved
<1>5. moved[i] = Uninstall(Registers, i - 1)
  BY <1>1, <1>3
<1>6. ASSUME NEW k \in i + 1 .. n
      PROVE  moved[k] = Install(moved[k - 1], k - 2, watched[k].addr, watched[k].size,
                                watched[k].mode)
  <2>1. k \in i .. n /\ k # i
    BY <1>1
  <2>2. QED
    BY <1>3, <2>1
<1>7. QED
  BY <1>4, <1>5, <1>6

(* An entry is taken out of a table. *)
Without(t, i) == SubSeq(t, 1, i - 1) \o SubSeq(t, i + 1, Len(t))

LEMMA TakenOut ==
    ASSUME NEW T, NEW t \in Seq(T), NEW i \in 1 .. Len(t)
    PROVE  LET u == Without(t, i)
           IN  /\ u \in Seq(T) /\ Len(u) = Len(t) - 1 /\ DOMAIN u = 1 .. Len(t) - 1
               /\ \A j \in 1 .. Len(t) - 1 : u[j] = IF j < i THEN t[j] ELSE t[j + 1]
<1> DEFINE n == Len(t)
           u == Without(t, i)
           a == SubSeq(t, 1, i - 1)
           b == SubSeq(t, i + 1, n)
<1>1. n \in Nat /\ i \in Nat /\ 1 <= i /\ i <= n
  BY LenProperties
<1>2. \A j \in 1 .. n : t[j] \in T
  BY LenProperties, ElementOfSeq
<1>3. a \in Seq(T) /\ Len(a) = i - 1 /\ \A j \in 1 .. i - 1 : a[j] = t[j]
  <2>1. 1 .. i - 1 \subseteq 1 .. n
    BY <1>1
  <2>2. QED
    BY <1>1, <1>2, <2>1, SubSeqProperties
<1>4. b \in Seq(T) /\ Len(b) = n - i /\ \A j \in 1 .. n - i : b[j] = t[i + j]
  <2>1. i + 1 .. n \subseteq 1 .. n
    BY <1>1
  <2>2. QED
    BY <1>1, <1>2, <2>1, SubSeqProperties
<1> HIDE DEF a, b
<1>5. u = a \o b
  BY DEF a, b, Without
<1> HIDE DEF u
<1>6. /\ a \o b \in Seq(T) /\ Len(a \o b) = Len(a) + Len(b)
      /\ \A j \in 1 .. Len(a) + Len(b) : (a \o b)[j] = IF j <= Len(a) THEN a[j] ELSE b[j - Len(a)]
  <2>1. a \in Seq(T) /\ b \in Seq(T)
    BY <1>3, <1>4
  <2>2. QED
    BY <2>1, ConcatProperties, Zenon
<1>7. Len(a) + Len(b) = n - 1
  BY <1>1, <1>3, <1>4
<1>8. u \in Seq(T) /\ Len(u) = n - 1 /\ DOMAIN u = 1 .. n - 1
  <2>1. u \in Seq(T) /\ Len(u) = n - 1
    BY <1>5, <1>6, <1>7
  <2>2. QED
    BY <2>1, LenProperties
<1>9. \A j \in 1 .. n - 1 : u[j] = IF j <= i - 1 THEN a[j] ELSE b[j - (i - 1)]
  BY <1>3, <1>5, <1>6, <1>7
<1>10. ASSUME NEW j \in 1 .. n - 1
      PROVE  u[j] = IF j < i THEN t[j] ELSE t[j + 1]
  <2>1. CASE j < i
    <3>1. j \in 1 .. i - 1 /\ j <= i - 1
      BY <1>1, <2>1
    <3>2. QED
      BY <1>3, <1>9, <2>1, <3>1
  <2>2. CASE ~ (j < i)
    <3>1. j - (i - 1) \in 1 .. n - i /\ i + (j - (i - 1)) = j + 1 /\ ~ (j <= i - 1)
      BY <1>1, <2>2
    <3>2. u[j] = b[j - (i - 1)]
      BY <1>9, <3>1
    <3>3. QED
      BY <1>4, <2>2, <3>1, <3>2
  <2>3. QED
    BY <2>1, <2>2
<1>11. QED
  BY <1>8, <1>10 DEF u

(* When the loop of delete is at k, the entries before the one deleted are
   held where they were, those behind it up to k one register lower. *)
LEMMA LoopHolds ==
    ASSUME TableInv, NEW i \in DOMAIN watched, NEW f,
           f[i] = Uninstall(Registers, i - 1),
           \A k \in i + 1 .. Len(watched) :
              f[k] = Install(f[k - 1], k - 2, watched[k].addr, watched[k].size, watched[k].mode),
           NEW k \in i .. Len(watched)
    PROVE  /\ f[k] \in RegisterSet
           /\ \A m \in 1 .. i - 1 : Held(f[k], m - 1, watched[m])
           /\ \A m \in i + 1 .. k : Held(f[k], m - 2, watched[m])
<1> DEFINE n == Len(watched)
           P(c) == /\ f[c] \in RegisterSet
                   /\ \A m \in 1 .. i - 1 : Held(f[c], m - 1, watched[m])
                   /\ \A m \in i + 1 .. c : Held(f[c], m - 2, watched[m])
           S == {c \in i .. n : ~ P(c)}
<1>1. /\ n \in Nat /\ DOMAIN watched = 1 .. n /\ i \in 1 .. n
      /\ \A m \in 1 .. n : watched[m] \in Watch /\ m \in Nat /\ m - 1 \in Slots
      /\ Registers \in RegisterSet
  BY TableTypes DEF TableInv
<1>2. SUFFICES ASSUME S # {} PROVE FALSE
  OBVIOUS
<1>3. PICK c \in S : \A d \in S : c <= d
  <2>1. S \subseteq Nat
    BY <1>1
  <2> HIDE DEF S
  <2>2. QED
    BY <1>2, <2>1, FirstExists
<1>4. c \in i .. n /\ ~ P(c)
  BY <1>3
<1>5. CASE c = i
  <2>1. /\ f[i] \in RegisterSet
        /\ \A s \in Slots, v \in Watch : s # i - 1 /\ Held(Registers, s, v) => Held(f[i], s, v)
    BY <1>1, UninstallKeeps, Zenon
  <2>2. ASSUME NEW m \in 1 .. i - 1 PROVE Held(f[i], m - 1, watched[m])
    <3>1. m \in 1 .. n /\ m - 1 # i - 1
      BY <1>1
    <3>2. Held(Registers, m - 1, watched[m])
      BY <1>1, <3>1 DEF TableInv, AllHeld
    <3>3. QED
      BY <1>1, <2>1, <3>1, <3>2
  <2>3. i + 1 .. i = {}
    BY <1>1
  <2>4. QED
    BY <1>4, <1>5, <2>1, <2>2, <2>3
<1>6. CASE c # i
  <2>1. c - 1 \in i .. n /\ c \in i + 1 .. n /\ c \in 1 .. n /\ ~ (c <= c - 1)
    BY <1>1, <1>4, <1>6
  <2>2. P(c - 1)
    BY <1>3, <2>1
  <2>3. /\ f[c] = Install(f[c - 1], c - 2, watched[c].addr, watched[c].size, watched[c].mode)
        /\ f[c - 1] \in RegisterSet
    BY <2>1, <2>2
  <2>4. c - 2 \in Slots
    BY <1>1, <2>1, SlotTypes DEF Slots
  <2>5. watched[c] \in Watch /\ Installable(watched[c].addr, watched[c].size)
    BY <1>1, <2>1 DEF TableInv, AllFit
  <2>6. /\ f[c] \in RegisterSet /\ Held(f[c], c - 2, watched[c])
        /\ \A s \in Slots, v \in Watch :
              s # c - 2 /\ Held(f[c - 1], s, v) => Held(f[c], s, v)
    BY <2>3, <2>4, <2>5, InstallHolds, Zenon
  <2>7. ASSUME NEW m \in 1 .. i - 1 PROVE Held(f[c], m - 1, watched[m])
    <3>1. m \in 1 .. n /\ m - 1 # c - 2
      BY <1>1, <2>1
    <3>2. Held(f[c - 1], m - 1, watched[m])
      BY <2>2
    <3>3. QED
      BY <1>1, <2>6, <3>1, <3>2
  <2>8. ASSUME NEW m \in i + 1 .. c PROVE Held(f[c], m - 2, watched[m])
    <3>1. CASE m = c
      BY <2>6, <3>1
    <3>2. CASE m # c
      <4>1. m \in i + 1 .. c - 1 /\ m \in 1 .. n /\ m - 2 # c - 2
        BY <1>1, <2>1, <3>2
      <4>2. m - 2 \in Slots
        BY <1>1, <4>1, SlotTypes DEF Slots
      <4>3. Held(f[c - 1], m - 2, watched[m])
        BY <2>2, <4>1
      <4>4. QED
        BY <1>1, <2>6, <4>1, <4>2, <4>3
    <3>3. QED
      BY <3>1, <3>2
  <2>9. QED
    BY <1>4, <2>6, <2>7, <2>8
<1>7. QED
  BY <1>5, <1>6

LEMMA DeleteStep ==
    ASSUME TableInv, NEW i \in DOMAIN watched, DeleteWatched(i)
    PROVE  TableInv'
<1> DEFINE n == Len(watched)
<1>1. /\ n \in Nat /\ n <= HwSlots /\ DOMAIN watched = 1 .. n /\ i \in 1 .. n
      /\ watched \in Seq(Watch)
      /\ \A m \in 1 .. n : watched[m] \in Watch /\ m \in Nat /\ m - 1 \in Slots
  BY TableTypes DEF TableInv
<1>2. PICK f : /\ f[i] = Uninstall(Registers, i - 1)
               /\ \A k \in i + 1 .. n :
                     f[k] = Install(f[k - 1], k - 2, watched[k].addr, watched[k].size,
                                    watched[k].mode)
               /\ SetRegisters(f[n])
  BY LoopRuns DEF TableInv
<1> DEFINE new == f[n]
<1>3. /\ new \in RegisterSet
      /\ \A m \in 1 .. i - 1 : Held(new, m - 1, watched[m])
      /\ \A m \in i + 1 .. n : Held(new, m - 2, watched[m])
  <2>1. n \in i .. n
    BY <1>1
  <2>2. QED
    BY <1>2, <2>1, LoopHolds
<1>4. SetRegisters(new)
  BY <1>2
<1> HIDE DEF new
<1>5. arch' = arch /\ arch \in {"x86_64", "arm64"}
      /\ watched' = Without(watched, i)
  BY DEF DeleteWatched, TableInv, RegistersTypeOK, Without
<1>6. /\ watched' \in Seq(Watch) /\ Len(watched') = n - 1 /\ DOMAIN watched' = 1 .. n - 1
      /\ \A j \in 1 .. n - 1 : watched'[j] = IF j < i THEN watched[j] ELSE watched[j + 1]
  BY <1>1, <1>5, TakenOut, Zenon
<1>7. Registers' = new
  BY <1>3, <1>4 DEF SetRegisters, Registers, RegisterSet
<1>8. RegistersTypeOK'
  <2>1. Len(watched') <= HwSlots
    BY <1>1, <1>6, SlotTypes
  <2>2. dr' = new.dr /\ dr7' = new.dr7 /\ wcr' = new.wcr
    BY <1>4 DEF SetRegisters
  <2>3. QED
    BY <1>3, <1>5, <1>6, <2>1, <2>2 DEF RegistersTypeOK, RegisterSet, Watch
<1>9. ASSUME NEW j \in DOMAIN watched'
      PROVE  Held(Registers, j - 1, watched[j])' /\ Installable(watched[j].addr, watched[j].size)'
  <2>1. PICK m \in 1 .. n : watched'[j] = watched[m] /\ Held(new, j - 1, watched[m])
    <3>1. CASE j < i
      <4>1. j \in 1 .. i - 1 /\ j \in 1 .. n /\ watched'[j] = watched[j]
        BY <1>1, <1>6, <3>1
      <4>2. QED
        BY <1>3, <4>1
    <3>2. CASE ~ (j < i)
      <4>1. j + 1 \in i + 1 .. n /\ j + 1 \in 1 .. n /\ watched'[j] = watched[j + 1]
            /\ (j + 1) - 2 = j - 1
        BY <1>1, <1>6, <3>2
      <4>2. Held(new, (j + 1) - 2, watched[j + 1])
        BY <1>3, <4>1
      <4>3. QED
        BY <4>1, <4>2
    <3>3. QED
      BY <3>1, <3>2
  <2>2. Installable(watched[m].addr, watched[m].size)
    BY <1>1, <2>1 DEF TableInv, AllFit
  <2>3. QED
    BY <1>5, <1>7, <2>1, <2>2 DEF Held, HeldArm, HeldX86, Installable
<1>10. QED
  BY <1>8, <1>9 DEF TableInv, AllHeld, AllFit

LEMMA LenDecoded ==
    ASSUME NEW slot \in Slots, NEW size \in HwSizes,
           \A b \in 0 .. 1 : b + (18 + 4 * slot) \in dr7 <=> b \in LenBits[size]
    PROVE  LenOf(slot) = size
<1>1. Field(dr7, 18 + 4 * slot) = LenBits[size]
  BY LenBitsAre DEF Field
<1>2. LenOf(slot) = CHOOSE s \in HwSizes : LenBits[s] = LenBits[size]
  BY <1>1 DEF LenOf
<1>3. \A s \in HwSizes : LenBits[s] = LenBits[size] => s = size
  <2>1. {} # {0} /\ {} # {1} /\ {} # {0, 1} /\ {0} # {1} /\ {0} # {0, 1} /\ {1} # {0, 1}
    OBVIOUS
  <2>2. QED
    BY <2>1, LenBitsAre DEF HwSizes
<1>4. QED
  BY <1>2, <1>3

LEMMA ModeDecoded ==
    ASSUME NEW slot \in Slots, NEW mode \in WatchModes, arch # "arm64",
           \A b \in 0 .. 1 : b + (16 + 4 * slot) \in dr7 <=> b \in RwBits(mode)
    PROVE  Traps(slot) = mode
<1>1. RwBits(mode) \subseteq 0 .. 1
  BY DEF RwBits
<1>2. Field(dr7, 16 + 4 * slot) = RwBits(mode)
  BY <1>1 DEF Field
<1>3. Traps(slot) = IF RwBits(mode) = {0, 1} THEN "access"
                    ELSE IF RwBits(mode) = {0} THEN "write" ELSE "other"
  BY <1>2 DEF Traps
<1>4. {0} # {0, 1}
  OBVIOUS
<1>5. QED
  BY <1>3, <1>4 DEF RwBits, WatchModes

LEMMA ArmDecoded ==
    ASSUME RegistersTypeOK, arch = "arm64", NEW slot \in Slots, NEW w \in Watch,
           HeldArm(Registers, slot, w)
    PROVE  /\ Enabled(slot) /\ Traps(slot) = w.mode
           /\ CoveredBytes(slot) = w.addr .. w.addr + w.size - 1
<1> DEFINE off == w.addr % 8
           base == w.addr - off
<1>1. w.addr \in Nat /\ w.size \in {1, 2, 4, 8} /\ w.mode \in WatchModes
  BY DEF Watch, HwSizes
<1>2. off \in 0 .. 7 /\ base \in Nat /\ w.addr = base + off
  BY <1>1
<1>3. /\ dr[slot] = base /\ off + w.size <= 8
      /\ wcr[slot] = {0, 1, 2} \cup ArmMode(w.mode) \cup Shifted(0 .. w.size - 1, 5 + off)
  BY DEF HeldArm, Registers
<1> HIDE DEF off, base
<1>4. \A b : b \in Shifted(0 .. w.size - 1, 5 + off) <=> \E c \in 0 .. w.size - 1 : b = c + (5 + off)
  BY DEF Shifted
<1>5. ASSUME NEW b \in Nat
      PROVE  b \in Shifted(0 .. w.size - 1, 5 + off) <=> 5 + off <= b /\ b <= 4 + off + w.size
  <2>1. ASSUME 5 + off <= b, b <= 4 + off + w.size
        PROVE  b - (5 + off) \in 0 .. w.size - 1 /\ b = (b - (5 + off)) + (5 + off)
    BY <1>1, <1>2, <2>1
  <2>2. ASSUME NEW c \in 0 .. w.size - 1, b = c + (5 + off)
        PROVE  5 + off <= b /\ b <= 4 + off + w.size
    BY <1>1, <1>2, <2>2
  <2>3. QED
    BY <1>4, <2>1, <2>2
<1>6. Enabled(slot)
  BY <1>3 DEF Enabled
<1>7. Traps(slot) = IF Field(wcr[slot], 3) = {0, 1} THEN "access"
                    ELSE IF Field(wcr[slot], 3) = {1} THEN "write" ELSE "other"
  BY DEF Traps
<1>8. Traps(slot) = w.mode
  <2>1. ASSUME NEW b \in 3 .. 4
        PROVE  b \in wcr[slot] <=> b \in ArmMode(w.mode)
    <3>1. b \notin Shifted(0 .. w.size - 1, 5 + off) /\ b \notin {0, 1, 2}
      BY <1>1, <1>2, <1>5
    <3>2. QED
      BY <1>3, <3>1
  <2>2. 0 + 3 \in wcr[slot] <=> 3 \in ArmMode(w.mode)
    BY <2>1
  <2>3. 1 + 3 \in wcr[slot] <=> 4 \in ArmMode(w.mode)
    BY <2>1
  <2>4. CASE w.mode = "access"
    <3>1. Field(wcr[slot], 3) = {0, 1}
      BY <2>2, <2>3, <2>4 DEF Field, ArmMode
    <3>2. QED
      BY <1>7, <2>4, <3>1
  <2>5. CASE w.mode = "write"
    <3>1. Field(wcr[slot], 3) = {1}
      BY <2>2, <2>3, <2>5 DEF Field, ArmMode
    <3>2. 0 \in {0, 1} /\ 0 \notin {1}
      OBVIOUS
    <3>3. Field(wcr[slot], 3) # {0, 1}
      BY <3>1, <3>2
    <3>4. QED
      BY <1>7, <2>5, <3>1, <3>3
  <2>6. QED
    BY <1>1, <2>4, <2>5 DEF WatchModes
<1>9. CoveredBytes(slot) = w.addr .. w.addr + w.size - 1
  <2>1. CoveredBytes(slot) = {a \in base .. base + 7 : a - base + 5 \in wcr[slot]}
    BY <1>3 DEF CoveredBytes
  <2>2. ASSUME NEW a \in base .. base + 7
        PROVE  a - base + 5 \in wcr[slot] <=> a \in w.addr .. w.addr + w.size - 1
    <3> DEFINE b == a - base + 5
    <3>1. b \in Nat /\ b \notin {0, 1, 2} /\ b \notin ArmMode(w.mode)
      BY <1>2 DEF ArmMode
    <3>2. b \in wcr[slot] <=> b \in Shifted(0 .. w.size - 1, 5 + off)
      BY <1>3, <3>1
    <3>3. b \in wcr[slot] <=> 5 + off <= b /\ b <= 4 + off + w.size
      BY <1>5, <3>1, <3>2
    <3>4. QED
      BY <1>1, <1>2, <3>3
  <2>3. w.addr .. w.addr + w.size - 1 \subseteq base .. base + 7
    BY <1>1, <1>2, <1>3
  <2>4. QED
    BY <2>1, <2>2, <2>3
<1>10. QED
  BY <1>6, <1>8, <1>9

LEMMA X86Decoded ==
    ASSUME RegistersTypeOK, arch # "arm64", NEW slot \in Slots, NEW w \in Watch,
           HeldX86(Registers, slot, w)
    PROVE  /\ Enabled(slot) /\ Traps(slot) = w.mode
           /\ CoveredBytes(slot) = w.addr .. w.addr + w.size - 1
<1>1. w.size \in HwSizes /\ w.mode \in WatchModes
  BY DEF Watch
<1>2. /\ dr[slot] = w.addr /\ 2 * slot \in dr7
      /\ \A b \in 0 .. 1 : b + (16 + 4 * slot) \in dr7 <=> b \in RwBits(w.mode)
      /\ \A b \in 0 .. 1 : b + (18 + 4 * slot) \in dr7 <=> b \in LenBits[w.size]
  BY DEF HeldX86, Registers
<1>3. LenOf(slot) = w.size
  BY <1>1, <1>2, LenDecoded
<1>4. Traps(slot) = w.mode
  BY <1>1, <1>2, ModeDecoded
<1>5. QED
  BY <1>2, <1>3, <1>4 DEF Enabled, CoveredBytes

LEMMA TableWatches == TableInv => WatchedBytes
<1> SUFFICES ASSUME TableInv, NEW i \in DOMAIN watched
             PROVE  /\ Enabled(i - 1) /\ Traps(i - 1) = watched[i].mode
                    /\ CoveredBytes(i - 1) =
                          watched[i].addr .. watched[i].addr + watched[i].size - 1
  BY DEF WatchedBytes
<1>1. /\ watched[i] \in Watch /\ i - 1 \in Slots /\ RegistersTypeOK
      /\ Held(Registers, i - 1, watched[i])
  BY TableTypes DEF TableInv, AllHeld
<1>2. QED
  BY <1>1, ArmDecoded, X86Decoded DEF Held

LEMMA TableInit == RegistersInit => TableInv
<1> SUFFICES ASSUME RegistersInit PROVE TableInv
  OBVIOUS
<1>1. watched = <<>> /\ Len(watched) = 0 /\ DOMAIN watched = {}
  BY EmptySeq DEF RegistersInit
<1>2. RegistersTypeOK
  <2>1. watched \in Seq([addr : Nat, size : HwSizes, mode : WatchModes])
    BY <1>1, EmptySeq
  <2>2. QED
    BY <1>1, <2>1, SlotTypes DEF RegistersInit, RegistersTypeOK
<1>3. QED
  BY <1>1, <1>2 DEF TableInv, AllHeld, AllFit

LEMMA TableStep == TableInv /\ [RegistersNext]_registersVars => TableInv'
<1> SUFFICES ASSUME TableInv, [RegistersNext]_registersVars PROVE TableInv'
  OBVIOUS
<1>1. ASSUME NEW a \in WatchAddrs, NEW m \in WatchModes, NEW explicit \in HwSizes,
             WatchValue(a, explicit, 0, m)
      PROVE  TableInv'
  BY <1>1, WatchStep, DebugRegistersAssumption
<1>2. ASSUME NEW a \in WatchAddrs, NEW m \in WatchModes, NEW n \in ValueSizes,
             WatchValue(a, 0, n, m)
      PROVE  TableInv'
  BY <1>2, WatchStep, DebugRegistersAssumption
<1>3. ASSUME NEW i \in DOMAIN watched, DeleteWatched(i) PROVE TableInv'
  BY <1>3, DeleteStep
<1>4. CASE UNCHANGED registersVars
  BY <1>4 DEF registersVars, TableInv, RegistersTypeOK, AllHeld, AllFit, Held, HeldArm, HeldX86,
              Registers, Installable
<1>5. QED
  BY <1>1, <1>2, <1>3, <1>4 DEF RegistersNext

(* The registers of every watchpoint cover the bytes of its entry, in its   *)
(* mode, however many came, went and moved down (cdbg_wp_hw_install,        *)
(* cdbg_wp_hw_uninstall, delete_watchpoint_at).                             *)
THEOREM RegistersWatch == RegistersSpec => []WatchedBytes
BY TableInit, TableStep, TableWatches, PTL DEF RegistersSpec
================================================================================
