-------------------------------- MODULE Symbols --------------------------------
(***************************************************************************)
(* Where the addresses of the symbols come from, and where they are at run *)
(* time: cdbg_syms_load and cdbg_syms_update_slide of src/src/syms.c, with *)
(* the parts of cdbg_lineno_load (src/src/lineno.c), cdbg_load_symbols,    *)
(* cdbg_spawn and cdbg_run (src/src/debugger.c) that call them or do the   *)
(* same for the line table.  LineTable.tla takes up from here: it has one  *)
(* table of symbols and one slide for both tables.                         *)
(*                                                                         *)
(* External: the linker, which leaves an executable and perhaps a dSYM;    *)
(* nm, which may fail, and then may have printed a part; the kernel, which *)
(* loads the image where it likes.                                         *)
(***************************************************************************)
EXTENDS Integers, FiniteSets

CONSTANTS Offsets,     (* symbol -> offset from __TEXT; NoOffset is undefined *)
          NoOffset,
          TextBases,   (* link addresses of __TEXT                            *)
          LoadBases    (* where the image may be loaded                       *)

ASSUME SymbolsAssumption ==
    /\ NoOffset \notin Nat
    /\ \A s \in DOMAIN Offsets : Offsets[s] \in Nat \cup {NoOffset}
    /\ \E s \in DOMAIN Offsets : Offsets[s] # NoOffset
    /\ TextBases \subseteq Nat \ {0} /\ LoadBases \subseteq Nat
    /\ TextBases # {} /\ LoadBases # {}

Symbol == DOMAIN Offsets
SymTypes == {"T", "t", "D", "U"}

VARIABLES objects,     (* what the linker has left                            *)
          symtab,      (* dbg->syms.entries                                   *)
          syms_base, syms_slide,       (* link_base and slide of dbg->syms    *)
          has_lines,                   (* dbg->lineno.count > 0               *)
          lineno_base, lineno_slide,   (* the same of dbg->lineno             *)
          image,       (* [text, at]: the image of the process                *)
          stage        (* "none", "built", "loaded", "spawned" or "stopped"   *)

tables == <<symtab, syms_base, has_lines, lineno_base>>
slides == <<syms_slide, lineno_slide>>
symbolsVars == <<objects, tables, slides, image, stage>>

(* thin: a 64-bit Mach-O file by its magic number; a universal file is none. *)
(* An object that is not there is stripped, not thin, and nm fails on it.    *)
Object == [there : BOOLEAN, thin : BOOLEAN, text : TextBases, stripped : BOOLEAN,
           nm : {"ok", "part", "fails"}]
Missing(text) == [there |-> FALSE, thin |-> FALSE, text |-> text, stripped |-> TRUE,
                  nm |-> "fails"]
Entry == [name : Symbol, address : Nat]

SymbolsTypeOK ==
    /\ objects \in [{"exe", "dsym"} -> Object]
    /\ symtab \subseteq Entry
    /\ {syms_base, lineno_base} \subseteq TextBases \cup {0}
    /\ {syms_slide, lineno_slide} \subseteq Int
    /\ image \in [text : TextBases, at : LoadBases]
    /\ has_lines \in BOOLEAN
    /\ stage \in {"none", "built", "loaded", "spawned", "stopped"}
-------------------------------------------------------------------------------
exe == objects["exe"]
dsym == objects["dsym"]

Linked(o, s) == IF Offsets[s] = NoOffset THEN 0 ELSE o.text + Offsets[s]
Listing(o) == IF o.stripped THEN {} ELSE Symbol
EntriesOf(o, names) == {[name |-> s, address |-> Linked(o, s)] : s \in names}

(* macho_text_vmaddr *)
TextOf(o) == IF o.thin THEN o.text ELSE 0

(* syms_load_from_nm: 0 only where nm has succeeded and a table is there,   *)
(* which may be what an nm before it has left.  A failing nm may have       *)
(* printed a part.                                                          *)
NmEntries(o) ==
    CASE o.nm = "ok"    -> EntriesOf(o, Listing(o))
      [] o.nm = "part"  -> EntriesOf(o, {CHOOSE s \in Symbol : Offsets[s] # NoOffset})
      [] o.nm = "fails" -> {}
NmLoaded(entries_left, o) == o.nm = "ok" /\ entries_left # {}

(* syms_load_macho *)
MachoEntries(o) == IF o.thin THEN EntriesOf(o, Listing(o)) ELSE {}

Table(entries_read, base_read) == [entries |-> entries_read, base |-> base_read]

(* cdbg_syms_load, source by source; a table is the one before and more.    *)
AfterNmExe == Table(NmEntries(exe), TextOf(exe))
AfterNmDsym == [AfterNmExe EXCEPT !.entries = @ \cup NmEntries(dsym)]

(* Mutant: the base is not read again after the table has been cleared. *)
AfterMachoCleared == Table(MachoEntries(exe), 0)

AfterMacho == Table(MachoEntries(exe), TextOf(exe))
AfterMachoDsym ==
    Table(MachoEntries(dsym), IF AfterMacho.base # 0 THEN AfterMacho.base ELSE TextOf(dsym))

SymsLoaded ==
    IF NmLoaded(AfterNmExe.entries, exe) THEN AfterNmExe
    ELSE IF dsym.there /\ NmLoaded(AfterNmDsym.entries, dsym) THEN AfterNmDsym
    ELSE IF AfterMacho.entries # {} \/ ~dsym.there THEN AfterMacho
    ELSE AfterMachoDsym

(* cdbg_syms_update_slide, cdbg_lineno_update_slide: the first region that  *)
(* can be executed; nothing where there is no table.                        *)
Slid(at) ==
    /\ syms_slide' = IF symtab # {} THEN at - syms_base ELSE syms_slide
    /\ lineno_slide' = IF has_lines THEN at - lineno_base ELSE lineno_slide

(* cdbg_load_symbols, in cdbg_run: the old process is gone.  The line table *)
(* is there or not (LineTable.tla); a table that is freed is all zero.      *)
LoadSymbols(lines) ==
    /\ stage \in {"built", "stopped"} /\ stage' = "loaded"
    /\ symtab' = SymsLoaded.entries /\ syms_base' = SymsLoaded.base
    /\ has_lines' = lines
    /\ lineno_base' = IF lines THEN TextOf(exe) ELSE 0
    /\ syms_slide' = 0 /\ lineno_slide' = 0
    /\ UNCHANGED <<objects, image>>

(* cdbg_spawn: the child may not have called execv yet, so the region found *)
(* may be one of the debugger's own image.                                  *)
Spawn(load, seen) ==
    /\ stage = "loaded" /\ stage' = "spawned"
    /\ image' = [text |-> exe.text, at |-> load]
    /\ seen \in LoadBases /\ Slid(seen)
    /\ UNCHANGED <<objects, tables>>

(* cdbg_run: once more when the image is loaded. *)
FirstStop ==
    /\ stage = "spawned" /\ stage' = "stopped"
    /\ Slid(image.at)
    /\ UNCHANGED <<objects, tables, image>>

(* The program is built, also again before the next run: an executable and  *)
(* perhaps a dSYM of one link, each a thin or a universal file.             *)
Build(text, dsym_too) ==
    /\ stage \in {"none", "stopped"} /\ stage' = "built"
    /\ \E o, d \in {o \in Object : o.there /\ o.text = text /\ (o.stripped => o.nm # "part")} :
         /\ ~d.stripped
         /\ objects' = [exe |-> o, dsym |-> IF dsym_too THEN d ELSE Missing(text)]
    /\ UNCHANGED <<tables, slides, image>>

SymbolsInit ==
    /\ objects = [exe |-> Missing(CHOOSE t \in TextBases : TRUE),
                  dsym |-> Missing(CHOOSE t \in TextBases : TRUE)]
    /\ symtab = {} /\ syms_base = 0 /\ has_lines = FALSE /\ lineno_base = 0
    /\ syms_slide = 0 /\ lineno_slide = 0
    /\ image = [text |-> CHOOSE t \in TextBases : TRUE, at |-> CHOOSE b \in LoadBases : TRUE]
    /\ stage = "none"

SymbolsNext ==
    \/ \E text \in TextBases, dsym_too \in BOOLEAN : Build(text, dsym_too)
    \/ \E lines \in BOOLEAN : LoadSymbols(lines)
    \/ \E load, seen \in LoadBases : Spawn(load, seen)
    \/ FirstStop

SymbolsSpec == SymbolsInit /\ [][SymbolsNext]_symbolsVars
-------------------------------------------------------------------------------
(* From the first stop of a thin executable on, every defined symbol is at   *)
(* the run-time address the loader gave it and every line is moved by as     *)
(* much, also where the program was built again since, whichever of the four *)
(* sources the symbols came from; and none is lost because a source failed   *)
(* (cdbg_syms_load, cdbg_syms_update_slide, cdbg_run).                       *)
SymbolsFollowImage ==
    stage = "stopped" /\ exe.thin =>
        /\ \A e \in symtab : e.address # 0 =>
             e.address + syms_slide = image.at + Offsets[e.name]
        /\ has_lines => lineno_slide = image.at - image.text
        /\ ~exe.stripped => {e.name : e \in symtab} = Symbol
===============================================================================
