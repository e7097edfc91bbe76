------------------------------- MODULE LineTable -------------------------------
(***************************************************************************)
(* The line table: src/src/lineno.c, with the lookups of src/src/syms.c    *)
(* and the commands of src/src/debugger.c that turn a line or a function   *)
(* into an address.                                                        *)
(*                                                                         *)
(* The table is read from the text dwarfdump prints, one line at a time.   *)
(* The printer is external: it writes, for every compile unit, the unit's  *)
(* directories and files, then the rows of its line program.  "udirs",     *)
(* "ufiles" and "rows" are what DWARF says; "dirs", "files" and "entries"  *)
(* are what the loader has made of the text.  A path is <<directory,       *)
(* name>>; the directory "" is that of the compilation.                    *)
(***************************************************************************)
EXTENDS Naturals, Sequences, FiniteSets

CONSTANTS
    Dirs, Names,  (* directories and names of source files *)
    Lines,        (* line numbers; a row of line 0 has no source *)
    Syms,         (* the symbol table, in the order of nm -n, without the "_" of
                     C names; "U" is undefined *)
    Filters,      (* file parts of a file:line: each is the set of paths it matches *)
    Specs,        (* arguments of break the user may give *)
    Slides,       (* load addresses less link addresses *)
    Reach,        (* how far a row reaches: 128 in lineno_entry_at_pc *)
    SymReach,     (* CDBG_MAX_SYMBOL_OFFSET *)
    MaxAddr, MaxFiles, MaxRows, MaxUnits, MaxBreaks  (* bounds of the model *)

Path == (Dirs \cup {""}) \X (Names \cup {""})

BreakSpec == [kind : {"line"}, filter : Filters, line : Lines]
             \cup [kind : {"fn"}, name : {Syms[i].name : i \in DOMAIN Syms}]
             \cup [kind : {"addr"}, addr : Nat \ {0}]

ASSUME LineTableAssumption ==
    /\ "" \notin Dirs \cup Names
    /\ Lines \subseteq Nat \ {0} /\ Slides \subseteq Nat
    /\ Reach \in Nat /\ SymReach \in Nat
    /\ MaxAddr \in Nat /\ MaxFiles \in Nat /\ MaxRows \in Nat
    /\ MaxUnits \in Nat /\ MaxBreaks \in Nat
    /\ Syms \in Seq([name : STRING, address : Nat, type : {"T", "t", "U"}])
    /\ Specs \subseteq BreakSpec

NoAddr == 0
None == 0

VARIABLES
    phase,    (* "dump" while dwarfdump is read, "loaded", then "run" *)
    out,      (* what the printer is printing *)
    units,    (* compile units begun *)
    base,     (* number of the first directory and file: 0 in DWARF 5, 1 before *)
    udirs, ufiles, rows,
    dirs, files, pending, pending_name, entries,
    slide, bps

printed == <<out, units, base, udirs, ufiles, rows>>
loader == <<dirs, files, pending, pending_name, entries>>
vars == <<phase, printed, loader, slide, bps>>
-------------------------------------------------------------------------------
(* A growing array: the slots up to i exist, the new ones blank. *)
Padded(t, i, blank) ==
    [k \in DOMAIN t \cup 0 .. i |-> IF k \in DOMAIN t THEN t[k] ELSE blank]
Stored(t, i, v) == [k \in DOMAIN t |-> IF k = i THEN v ELSE t[k]]
BlankFile == [name |-> "", dir |-> 0]
EmptyTable == [k \in {} |-> ""]

(* The unit's k-th directory or file has the number base + k - 1. *)
Number(k) == base + k - 1
DirNumbers == {Number(k) : k \in DOMAIN udirs}

(* The path of the unit's k-th file. *)
UnitPath(k) ==
    <<IF ufiles[k].dir \in DirNumbers THEN udirs[ufiles[k].dir + 1 - base] ELSE "",
      ufiles[k].name>>

(* dwarfdump_resolve_path *)
ResolvedPath(ds, fs, i) ==
    LET f == IF i \in DOMAIN fs THEN fs[i] ELSE BlankFile
    IN IF f.name = "" THEN <<"", "">>
       ELSE <<IF f.dir \in DOMAIN ds THEN ds[f.dir] ELSE "", f.name>>

(* Mutant: the tables of one unit are kept for the next. *)
Kept(t) == t
(* str_table_free, file_table_free at a unit's header *)
Freed(t) == EmptyTable

LastRow == rows[Len(rows)]
Closed == Len(rows) \in {0} \cup {i \in DOMAIN rows : rows[i].end}

Init ==
    /\ phase = "dump" /\ out = "unit" /\ units = 0 /\ base = 1
    /\ udirs = <<>> /\ ufiles = <<>> /\ rows = <<>>
    /\ dirs = EmptyTable /\ files = EmptyTable
    /\ pending = FALSE /\ pending_name = "" /\ entries = <<>>
    /\ slide = 0 /\ bps = {}

(* "debug_line[0x...]": a unit begins. *)
UnitHeader(b) ==
    /\ phase = "dump" /\ out \in {"unit", "rows"}
    /\ Closed /\ units < MaxUnits /\ Len(rows) + 2 <= MaxRows
    /\ \A i \in DOMAIN rows : rows[i].address < MaxAddr
    /\ out' = "tables" /\ units' = units + 1 /\ base' = b
    /\ udirs' = <<>> /\ ufiles' = <<>>
    /\ dirs' = Freed(dirs) /\ files' = Freed(files) /\ pending' = FALSE
    /\ UNCHANGED <<phase, rows, pending_name, entries, slide, bps>>

(* include_directories[ n ] = "d" *)
IncludeDirectory(d) ==
    LET n == Number(Len(udirs) + 1) IN
    /\ phase = "dump" /\ out = "tables" /\ ufiles = <<>>
    /\ \A k \in DOMAIN udirs : udirs[k] # d
    /\ udirs' = Append(udirs, d)
    /\ dirs' = Stored(Padded(dirs, n, ""), n, d)
    /\ UNCHANGED <<phase, out, units, base, ufiles, rows,
                   files, pending, pending_name, entries, slide, bps>>

(* file_names[ n ]: the block of a file begins; the slot is made. *)
FileNames ==
    /\ phase = "dump" /\ out = "tables" /\ Len(ufiles) < MaxFiles
    /\ base = 0 => udirs # <<>>
    /\ out' = "name"
    /\ files' = Padded(files, Number(Len(ufiles) + 1), BlankFile)
    /\ pending' = TRUE /\ pending_name' = ""
    /\ UNCHANGED <<phase, units, base, udirs, ufiles, rows,
                   dirs, entries, slide, bps>>

(* name: "f" *)
NameLine(f) ==
    /\ phase = "dump" /\ out = "name" /\ pending
    /\ \A k \in DOMAIN ufiles : ufiles[k].name # f
    /\ out' = "dir_index"
    /\ pending_name' = f
    /\ UNCHANGED <<phase, units, base, udirs, ufiles, rows,
                   dirs, files, pending, entries, slide, bps>>

(* dir_index: d.  The loader fills its last slot. *)
DirIndexLine(d) ==
    LET last == CHOOSE i \in DOMAIN files : \A j \in DOMAIN files : j <= i IN
    /\ phase = "dump" /\ out = "dir_index" /\ pending
    /\ d \in DirNumbers \/ (d = 0 /\ base = 1)
    /\ out' = "tables"
    /\ ufiles' = Append(ufiles, [name |-> pending_name, dir |-> d])
    /\ files' = Stored(files, last, [name |-> pending_name, dir |-> d])
    /\ UNCHANGED <<phase, units, base, udirs, rows,
                   dirs, pending, pending_name, entries, slide, bps>>

(* A row, "0x... line column file".  Rows of a sequence go up; a sequence
   ends after its last row, with that row's line, and starts no lower than
   the one before it ended, in its own unit or in the one before: the text
   comes in the order of the code.  The loader does not ask for any of this
   and keeps every row, the end as well. *)
Row(a, l, k, end) ==
    /\ phase = "dump" /\ out \in {"tables", "rows"}
    /\ IF end THEN Len(rows) < MaxRows ELSE Len(rows) < MaxRows - 1 /\ a < MaxAddr
    /\ \A i \in DOMAIN rows : rows[i].address <= a
    /\ end => /\ ~Closed /\ a > LastRow.address
              /\ l = LastRow.line /\ UnitPath(k) = LastRow.file
    /\ out' = "rows"
    /\ rows' = Append(rows, [address |-> a, line |-> l, file |-> UnitPath(k), end |-> end])
    /\ entries' = Append(entries, [address |-> a, line |-> l,
                                   file |-> ResolvedPath(dirs, files, Number(k))])
    /\ pending' = FALSE
    /\ UNCHANGED <<phase, units, base, udirs, ufiles,
                   dirs, files, pending_name, slide, bps>>

(* The end of the text, and dwarfdump's success.  A failure would free the
   rows read and turn to the section itself, which is module LineProgram's;
   where there is no row at all the section is taken to be missing too. *)
LoadEnds ==
    /\ phase = "dump" /\ out \in {"unit", "rows"} /\ Closed
    /\ phase' = "loaded"
    /\ UNCHANGED <<printed, loader, slide, bps>>
-------------------------------------------------------------------------------
(* Lookups.  An entry is known by its index, None is the null pointer; s is
   the slide.  The loops keep the first of several entries at one address. *)
(* Mutant: the slide is taken off the entry instead of the pc. *)
RuntimeBehind(i, s) == entries[i].address - s
(* cdbg_lineno_runtime_addr *)
Runtime(i, s) == entries[i].address + s

(* The first entry of S with the least, with the greatest address. *)
Least(i, S) == \A j \in S : \/ entries[i].address < entries[j].address
                            \/ entries[i].address = entries[j].address /\ i <= j
Greatest(i, S) == \A j \in S : \/ entries[j].address < entries[i].address
                               \/ entries[j].address = entries[i].address /\ i <= j

(* Mutant: the last entry that fits is kept. *)
LastOne(S) == IF S = {} THEN None ELSE CHOOSE i \in S : \A j \in S : j <= i
Lowest(S) == IF \E i \in S : Least(i, S) THEN CHOOSE i \in S : Least(i, S) ELSE None

(* Mutant: an entry that begins at the pc is not below it. *)
StrictlyBelow(pc, s) == {i \in DOMAIN entries : Runtime(i, s) < pc}
Below(pc, s) == {i \in DOMAIN entries : Runtime(i, s) <= pc}

(* cdbg_lineno_lookup_pc *)
LookupPc(pc, s) ==
    LET S == Below(pc, s)
    IN IF \E i \in S : Greatest(i, S) THEN CHOOSE i \in S : Greatest(i, S) ELSE None

(* lineno_entry_at_pc, cdbg_lineno_line_at_pc *)
LineAtPc(pc, s) ==
    LET i == LookupPc(pc, s)
        above == {j \in DOMAIN entries : /\ Runtime(i, s) < Runtime(j, s)
                                         /\ Runtime(j, s) < Runtime(i, s) + Reach}
        covered == IF above = {} THEN pc <= Runtime(i, s) + Reach
                   ELSE \A j \in above : pc < Runtime(j, s)
    IN IF i # None /\ entries[i].line # 0 /\ covered THEN i ELSE None

(* Mutant: entries at or below the pc are not skipped. *)
OtherLinesAnywhere(pc, s) ==
    LET c == LookupPc(pc, s)
    IN {i \in DOMAIN entries : /\ entries[i].file = entries[c].file
                               /\ entries[i].line # entries[c].line}
(* The entries cdbg_lineno_lookup_next_line_after_pc chooses from. *)
OtherLinesAfter(pc, s) ==
    LET c == LookupPc(pc, s)
    IN {i \in DOMAIN entries : /\ pc < Runtime(i, s)
                               /\ entries[i].file = entries[c].file
                               /\ entries[i].line # entries[c].line}

(* cdbg_lineno_lookup_next_line_after_pc *)
NextLineAfterPc(pc, s) ==
    IF LookupPc(pc, s) = None THEN None ELSE Lowest(OtherLinesAfter(pc, s))

(* cdbg_lineno_lookup_line *)
LookupLine(filter, l) ==
    Lowest({i \in DOMAIN entries : entries[i].line = l /\ entries[i].file \in filter})

(* cdbg_lineno_lookup_line_unique *)
LookupLineUnique(l) ==
    LET S == {i \in DOMAIN entries : entries[i].line = l}
    IN IF \E i, j \in S : entries[i].file # entries[j].file THEN None ELSE Lowest(S)

(* resolve_break_line: no file part is the filter of all paths. *)
LineEntry(filter, l) ==
    IF filter = Path THEN LookupLineUnique(l) ELSE LookupLine(filter, l)

(* Mutant: list shows the first file that matches. *)
ListFileFirst(filter) ==
    LET S == {i \in DOMAIN entries : entries[i].file \in filter}
    IN IF S = {} THEN {} ELSE {entries[CHOOSE i \in S : \A j \in S : i <= j].file}
(* cdbg_lineno_print_source_at_line: the file shown, if it is the only one. *)
ListFile(filter) ==
    LET S == {entries[i].file : i \in {i \in DOMAIN entries : entries[i].file \in filter}}
    IN IF \E f, g \in S : f # g THEN {} ELSE S

(* The entries of the files meant, and the one before i of them. *)
Matched(filter) == {i \in DOMAIN entries : entries[i].file \in filter}
Precedes(j, i, filter) ==
    j \in Matched(filter) /\ j < i /\ \A m \in Matched(filter) : m < i => m <= j

(* Mutant: of a line's rows the last one is shown. *)
ListedLast(filter) ==
    {i \in Matched(filter) : \A j \in DOMAIN entries :
        Precedes(i, j, filter) => \/ entries[j].file # entries[i].file
                                  \/ entries[j].line # entries[i].line}
(* lists: print_line_table leaves out a row that repeats the line above it. *)
Listed(filter) ==
    {i \in Matched(filter) : \A j \in DOMAIN entries :
        Precedes(j, i, filter) => \/ entries[j].file # entries[i].file
                                  \/ entries[j].line # entries[i].line}

(* cdbg_syms_lookup_name *)
SymNamed(name) ==
    LET S == {i \in DOMAIN Syms : Syms[i].name = name}
    IN IF S = {} THEN None ELSE CHOOSE i \in S : \A j \in S : i <= j

(* lookup_symbol_for_pc *)
SymAtPc(pc, s) ==
    LET S == {i \in DOMAIN Syms : /\ Syms[i].address # 0 /\ Syms[i].type \in {"T", "t"}
                                  /\ Syms[i].address + s <= pc}
        best == CHOOSE i \in S : \A j \in S :
                  \/ Syms[j].address < Syms[i].address
                  \/ Syms[j].address = Syms[i].address /\ i <= j
    IN IF S = {} THEN None
       ELSE IF pc > Syms[best].address + s + SymReach THEN None ELSE best

(* print_backtrace_frame: the function and the line shown for a pc. *)
FrameShown(pc, s) == <<SymAtPc(pc, s), LineAtPc(pc, s)>>

(* A symbol break, list and dis accept. *)
Defined(k) == k # None /\ Syms[k].address # 0 /\ Syms[k].type # "U"

(* The paths a whole path matches as a filter: a name matches in every directory. *)
Matching(path) == {p \in Path : p[2] = path[2] /\ path[1] \in {"", p[1]}}

(* cmd_list with a function: its file is the filter. *)
ListFunction(name, s) ==
    LET k == SymNamed(name)
        i == LineAtPc(Syms[k].address + s, s)
    IN IF Defined(k) /\ i # None THEN ListFile(Matching(entries[i].file)) ELSE {}

(* cmd_break: where each form of its argument puts the breakpoint.  A number
   that is no line of the table is taken for an address. *)
BodyAddr(k, s) ==
    LET i == NextLineAfterPc(Syms[k].address + s, s)
    IN IF i # None THEN Runtime(i, s) ELSE Syms[k].address + s

Resolved(spec, s) ==
    CASE spec.kind = "line" ->
           LET i == LineEntry(spec.filter, spec.line)
           IN CASE i # None -> Runtime(i, s)
                [] i = None /\ spec.filter = Path -> spec.line
                [] OTHER -> NoAddr
      [] spec.kind = "fn" ->
           LET k == SymNamed(spec.name)
           IN IF Defined(k) THEN BodyAddr(k, s) ELSE NoAddr
      [] spec.kind = "addr" -> spec.addr

(* resolve_dis_target: dis does not skip the first line of a function, and does
   not take a number for an address. *)
DisAddr(spec, s) ==
    CASE spec.kind = "line" ->
           LET i == LineEntry(spec.filter, spec.line)
           IN IF i # None THEN Runtime(i, s) ELSE NoAddr
      [] spec.kind = "fn" ->
           LET k == SymNamed(spec.name)
           IN IF Defined(k) THEN Syms[k].address + s ELSE NoAddr
      [] spec.kind = "addr" -> NoAddr

(* resolve_entry_stop_addr: where run stops first. *)
EntryStopAddr(s) ==
    LET k == SymNamed("main")
        start == Syms[k].address + s
        i == NextLineAfterPc(start, s)
        first == Lowest({j \in DOMAIN entries : start <= Runtime(j, s)})
    IN CASE ~Defined(k) -> NoAddr
         [] Defined(k) /\ i # None -> Runtime(i, s)
         [] Defined(k) /\ i = None /\ first # None -> Runtime(first, s)
         [] OTHER -> start
-------------------------------------------------------------------------------
(* break: without a process cdbg_bp_enable fails. *)
Break(spec) ==
    /\ phase = "run" /\ \A b \in bps : b.spec # spec
    /\ Cardinality(bps) < MaxBreaks
    /\ Resolved(spec, slide) # NoAddr
    /\ bps' = bps \cup {[spec |-> spec, addr |-> Resolved(spec, slide)]}
    /\ UNCHANGED <<phase, printed, loader, slide>>

(* Mutant: the breakpoints are resolved before the slide is known. *)
ReplantedEarly(s) ==
    {[spec |-> b.spec, addr |-> Resolved(b.spec, slide)] : b \in bps}
(* cdbg_run gives every breakpoint's argument to cmd_break again. *)
Replanted(s) ==
    {[spec |-> b.spec, addr |-> Resolved(b.spec, s)] :
        b \in {b \in bps : Resolved(b.spec, s) # NoAddr}}

(* run: the tables are read again, from the same program; cdbg_lineno_update_slide
   and cdbg_syms_update_slide, then the breakpoints. *)
Run(s) ==
    /\ phase # "dump"
    /\ phase' = "run" /\ slide' = s
    /\ bps' = Replanted(s)
    /\ UNCHANGED <<printed, loader>>

Next ==
    \/ \E b \in {0, 1} : UnitHeader(b)
    \/ \E d \in Dirs : IncludeDirectory(d)
    \/ FileNames
    \/ \E f \in Names : NameLine(f)
    \/ \E d \in DirNumbers \cup {0} : DirIndexLine(d)
    \/ \E a \in 1 .. MaxAddr, l \in Lines \cup {0}, k \in DOMAIN ufiles, end \in BOOLEAN :
         Row(a, l, k, end)
    \/ LoadEnds
    \/ \E spec \in Specs : Break(spec)
    \/ \E s \in Slides : Run(s)

Spec == Init /\ [][Next]_vars
-------------------------------------------------------------------------------
Files == [name : Names \cup {""}, dir : Nat]

(* Type invariant: the state stays in the sets the code's types give it. *)
LineTypeOK ==
    /\ phase \in {"dump", "loaded", "run"}
    /\ out \in {"unit", "tables", "name", "dir_index", "rows"}
    /\ units \in 0 .. MaxUnits /\ base \in {0, 1}
    /\ udirs \in Seq(Dirs) /\ ufiles \in Seq(Files)
    /\ rows \in Seq([address : Nat, line : Lines \cup {0}, file : Path, end : BOOLEAN])
    /\ entries \in Seq([address : Nat, line : Lines \cup {0}, file : Path])
    /\ \A i \in DOMAIN dirs : i \in Nat /\ dirs[i] \in Dirs \cup {""}
    /\ \A i \in DOMAIN files : i \in Nat /\ files[i] \in Files
    /\ pending \in BOOLEAN /\ pending_name \in Names \cup {""}
    /\ slide \in Slides \cup {0}
    /\ \A b \in bps : b.spec \in BreakSpec /\ b.addr \in Nat

(* Every entry is the row that was printed, with the path its own unit gives
   to the row's file number: no unit's tables are mixed with another's
   (lineno_load_from_dwarfdump, the reset at each header). *)
FilesOfUnit ==
    /\ Len(entries) = Len(rows)
    /\ \A i \in DOMAIN rows : /\ entries[i].address = rows[i].address
                              /\ entries[i].line = rows[i].line
                              /\ entries[i].file = rows[i].file

(* No other row has the address of row k. *)
Alone(k) == \A j \in DOMAIN rows : j # k => rows[j].address # rows[k].address

(* The pc is in the instructions row k describes. *)
Covers(k, pc) ==
    /\ rows[k].address + slide <= pc
    /\ \A j \in DOMAIN rows : rows[j].address > rows[k].address => pc < rows[j].address + slide

(* At a pc the line shown is that of the row which covers it, up to Reach
   bytes, at every slide (cdbg_lineno_line_at_pc). *)
CoveringLineShown ==
    phase # "dump" =>
        \A k \in DOMAIN rows, pc \in slide .. slide + MaxAddr :
            /\ ~rows[k].end /\ rows[k].line # 0 /\ Alone(k) /\ Covers(k, pc)
            => LineAtPc(pc, slide) = IF pc <= rows[k].address + slide + Reach
                                     THEN k ELSE None

(* A breakpoint on a line stands on code of that line and of a file that was
   meant, never where a sequence has ended, and the stop there shows the line
   the breakpoint was set on (resolve_break_line, then report_stop). *)
BreakShowsItsLine ==
    phase # "dump" =>
        \A filter \in Filters, l \in Lines :
            LET k == LineEntry(filter, l)
            IN k # None => /\ rows[k].line = l /\ rows[k].file \in filter /\ ~rows[k].end
                           /\ Alone(k) => LineAtPc(Runtime(k, slide), slide) = k

(* Function k has code of two lines of one file before the next symbol, and
   no other symbol has its address. *)
TwoLines(k) ==
    \E i, j \in DOMAIN rows :
        /\ rows[i].address = Syms[k].address /\ Alone(i) /\ ~rows[i].end
        /\ rows[j].address > Syms[k].address /\ ~rows[j].end
        /\ rows[j].file = rows[i].file /\ rows[j].line # rows[i].line
        /\ rows[j].address <= Syms[k].address + SymReach
        /\ \A m \in DOMAIN Syms : \/ m = k \/ Syms[m].address < Syms[k].address
                                  \/ rows[j].address < Syms[m].address

(* break f, and the stop of run in main, are inside the function, behind its
   first line, and the backtrace there names it and another line than where dis f
   begins (cmd_break, resolve_entry_stop_addr, print_backtrace_frame,
   resolve_dis_target). *)
FunctionEntered ==
    phase # "dump" =>
        \A k \in DOMAIN Syms :
            Defined(k) /\ SymNamed(Syms[k].name) = k /\ TwoLines(k) =>
                LET a == BodyAddr(k, slide)
                    there == FrameShown(a, slide)
                    first == FrameShown(DisAddr([kind |-> "fn", name |-> Syms[k].name], slide), slide)
                IN /\ a > Syms[k].address + slide
                   /\ there[1] = k /\ first[1] = k
                   /\ there[2] # None /\ first[2] # None /\ Alone(there[2]) =>
                          entries[there[2]].line # entries[first[2]].line
                   /\ Syms[k].name = "main" => EntryStopAddr(slide) = a

(* list and break never take one file part, or one function, for two different
   files (cdbg_lineno_print_source_at_line, resolve_break_line, cmd_list).  Lines
   are asked of the loaded table only: a run changes nothing they depend on. *)
BreakListAgree ==
    /\ phase = "loaded" =>
         \A filter \in Filters, l \in Lines :
             LET i == LineEntry(filter, l)
                 shown == ListFile(filter)
             IN i # None /\ shown # {} => shown = {entries[i].file}
    /\ phase # "dump" =>
         \A k \in DOMAIN Syms :
             LET i == NextLineAfterPc(Syms[k].address + slide, slide)
                 shown == ListFunction(Syms[k].name, slide)
             IN SymNamed(Syms[k].name) = k /\ shown # {} /\ i # None =>
                    shown = {entries[i].file}

(* The address where break puts a line is one lists shows for the line: the
   rows it folds away are never the first (print_line_table). *)
BreakIsListed ==
    phase = "loaded" =>
        \A filter \in Filters, l \in Lines :
            LET i == LineEntry(filter, l) IN i # None => i \in Listed(filter)

(* However often the program is run, a breakpoint on a line or a function is
   where the first resolution, before any slide, put it in the program
   (cdbg_run gives the argument to cmd_break again). *)
BreakFollowsSlide ==
    \A b \in bps :
        \/ b.spec.kind = "fn"
        \/ b.spec.kind = "line" /\ LineEntry(b.spec.filter, b.spec.line) # None
        => b.addr = Resolved(b.spec, 0) + slide
===============================================================================
