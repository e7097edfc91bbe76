---------------------------- MODULE LineTableProofs ----------------------------
(***************************************************************************)
(* Proofs about module LineTable for any paths, lines, symbols, slides and *)
(* length of a table: the loader attributes every row to the right file,   *)
(* the line at a pc is that of the covering row, and breakpoints move with *)
(* the slide.                                                              *)
(***************************************************************************)
EXTENDS LineTable, SequenceTheorems, WellFoundedInduction, TLAPS

Entry == [address : Nat, line : Lines \cup {0}, file : Path]
PrintedRow == [address : Nat, line : Lines \cup {0}, file : Path, end : BOOLEAN]

(* Types of what the two tables are built from. *)
TableTypes ==
    /\ phase \in {"dump", "loaded", "run"}
    /\ out \in {"unit", "tables", "name", "dir_index", "rows"}
    /\ base \in {0, 1}
    /\ udirs \in Seq(Dirs) /\ ufiles \in Seq(Files)
    /\ pending_name \in Names \cup {""}
    /\ entries \in Seq(Entry) /\ rows \in Seq(PrintedRow)

(* A file block is open: its slot exists, its contents do not. *)
InBlock == out \in {"name", "dir_index"}

(* The loader's directories are those of the unit, by number.  Slot 0 of a *)
(* unit that counts from 1 is blank.                                       *)
DirsMirrored ==
    /\ DOMAIN dirs = IF udirs = <<>> THEN {} ELSE 0 .. Number(Len(udirs))
    /\ \A k \in DOMAIN udirs : dirs[Number(k)] = udirs[k]
    /\ \A d \in DOMAIN dirs : d \notin DirNumbers => dirs[d] = ""

FileSlots ==
    DOMAIN files =
        IF InBlock THEN 0 .. Number(Len(ufiles) + 1)
        ELSE IF ufiles = <<>> THEN {} ELSE 0 .. Number(Len(ufiles))

FilesMirrored ==
    /\ FileSlots
    /\ \A k \in DOMAIN ufiles : files[Number(k)] = ufiles[k] /\ ufiles[k].name # ""
    /\ out = "dir_index" => pending_name # ""

(* The directory of a number, as the loader and as the unit have it. *)
LoaderDir(d) == IF d \in DOMAIN dirs THEN dirs[d] ELSE ""
UnitDir(d) == IF d \in DirNumbers THEN udirs[d + 1 - base] ELSE ""

LoaderInv == TableTypes /\ DirsMirrored /\ FilesMirrored /\ FilesOfUnit
-------------------------------------------------------------------------------
LEMMA Numbers ==
    ASSUME base \in {0, 1}, NEW k \in Nat, NEW m \in Nat
    PROVE  /\ Number(k) = Number(m) <=> k = m
           /\ Number(k + 1) = Number(k) + 1
           /\ k > 0 => Number(k) \in Nat
           /\ Number(k) + 1 - base = k
           /\ k <= m <=> Number(k) <= Number(m)
BY DEF Number

LEMMA NamesNotBlank == "" \notin Names /\ "" \notin Dirs
BY LineTableAssumption

LEMMA Bounds == Slides \subseteq Nat /\ Reach \in Nat /\ MaxAddr \in Nat
BY LineTableAssumption, Zenon

LEMMA PairType ==
    ASSUME NEW A, NEW B, NEW a \in A, NEW b \in B
    PROVE  <<a, b>> \in A \X B
OBVIOUS

LEMMA ResolvedAs ==
    ASSUME NEW ds, NEW fs, NEW i \in DOMAIN fs, NEW f, fs[i] = f, f.name # ""
    PROVE  ResolvedPath(ds, fs, i) =
               <<IF f.dir \in DOMAIN ds THEN ds[f.dir] ELSE "", f.name>>
<1> DEFINE g == IF i \in DOMAIN fs THEN fs[i] ELSE BlankFile
<1>1. g = f
  OBVIOUS
<1>2. ResolvedPath(ds, fs, i) =
         IF g.name = "" THEN <<"", "">>
         ELSE <<IF g.dir \in DOMAIN ds THEN ds[g.dir] ELSE "", g.name>>
  BY DEF ResolvedPath
<1> HIDE DEF g
<1>3. QED
  BY <1>1, <1>2, Zenon

(* The directory of a number is the same in both. *)
LEMMA SameDirectory ==
    ASSUME TableTypes, DirsMirrored, NEW d \in Nat
    PROVE  LoaderDir(d) = UnitDir(d) /\ UnitDir(d) \in Dirs \cup {""}
<1>1. udirs \in Seq(Dirs) /\ base \in {0, 1}
  BY DEF TableTypes
<1>2. DOMAIN udirs = 1 .. Len(udirs) /\ Len(udirs) \in Nat
  BY <1>1, LenProperties
<1>3. CASE d \in DirNumbers
  <2>1. PICK m \in DOMAIN udirs : d = Number(m)
    BY <1>3 DEF DirNumbers
  <2>2. m \in Nat /\ 1 <= m /\ m <= Len(udirs)
    BY <1>2, <2>1
  <2>3. udirs # <<>>
    BY <1>1, <1>2, <2>2
  <2>4. DOMAIN dirs = 0 .. Number(Len(udirs))
    BY <2>3 DEF DirsMirrored
  <2>5. d + 1 - base = m /\ Number(m) <= Number(Len(udirs)) /\ Number(Len(udirs)) \in Nat
    BY <1>1, <1>2, <2>1, <2>2 DEF Number
  <2>6. d \in DOMAIN dirs
    BY <2>1, <2>4, <2>5
  <2>7. dirs[d] = udirs[m]
    BY <2>1 DEF DirsMirrored
  <2>8. udirs[m] \in Dirs
    BY <1>1, <2>1, <1>2, ElementOfSeq
  <2>9. QED
    BY <1>3, <2>5, <2>6, <2>7, <2>8 DEF LoaderDir, UnitDir
<1>4. CASE d \notin DirNumbers
  <2>1. d \in DOMAIN dirs => dirs[d] = ""
    BY <1>4 DEF DirsMirrored
  <2>2. QED
    BY <1>4, <2>1 DEF LoaderDir, UnitDir
<1>5. QED
  BY <1>3, <1>4

(* The path of a file, in the loader's tables and in the unit's. *)
LEMMA SamePath ==
    ASSUME TableTypes, DirsMirrored, FilesMirrored, ~InBlock, NEW k \in DOMAIN ufiles
    PROVE  ResolvedPath(dirs, files, Number(k)) = UnitPath(k) /\ UnitPath(k) \in Path
<1>1. ufiles \in Seq(Files) /\ base \in {0, 1}
  BY DEF TableTypes
<1>2. k \in 1 .. Len(ufiles) /\ k \in Nat /\ Len(ufiles) \in Nat /\ ufiles # <<>>
  BY <1>1, LenProperties
<1>3. ufiles[k] \in Files /\ ufiles[k].name # "" /\ files[Number(k)] = ufiles[k]
  BY <1>1, <1>2, ElementOfSeq DEF FilesMirrored
<1>4. ufiles[k].dir \in Nat /\ ufiles[k].name \in Names \cup {""}
  BY <1>3 DEF Files
<1>5. DOMAIN files = 0 .. Number(Len(ufiles))
  BY <1>2 DEF FilesMirrored, FileSlots
<1>6. Number(k) \in DOMAIN files
  BY <1>1, <1>2, <1>5 DEF Number
<1>7. ResolvedPath(dirs, files, Number(k)) =
         <<IF ufiles[k].dir \in DOMAIN dirs THEN dirs[ufiles[k].dir] ELSE "", ufiles[k].name>>
  BY <1>3, <1>6, ResolvedAs
<1> DEFINE x == LoaderDir(ufiles[k].dir)
           y == UnitDir(ufiles[k].dir)
<1>8. x = y /\ y \in Dirs \cup {""}
  BY <1>4, SameDirectory
<1>9. ResolvedPath(dirs, files, Number(k)) = <<x, ufiles[k].name>>
  BY <1>7 DEF LoaderDir
<1>10. UnitPath(k) = <<y, ufiles[k].name>>
  BY DEF UnitPath, UnitDir
<1> HIDE DEF x, y
<1>11. <<y, ufiles[k].name>> \in Path
  BY <1>4, <1>8, PairType DEF Path
<1>12. QED
  BY <1>8, <1>9, <1>10, <1>11

(* One more row and its entry. *)
LEMMA AppendEntry ==
    ASSUME NEW S, NEW s \in Seq(S), NEW e \in S
    PROVE  /\ Append(s, e) \in Seq(S) /\ Len(Append(s, e)) = Len(s) + 1
           /\ DOMAIN s = 1 .. Len(s) /\ Len(s) \in Nat
           /\ DOMAIN Append(s, e) = 1 .. Len(s) + 1
           /\ \A i \in 1 .. Len(s) : Append(s, e)[i] = s[i]
           /\ Append(s, e)[Len(s) + 1] = e
BY AppendProperties, LenProperties
-------------------------------------------------------------------------------
LEMMA EmptyTableDomain == DOMAIN EmptyTable = {}
BY DEF EmptyTable

LEMMA LoaderInit == Init => LoaderInv
<1> SUFFICES ASSUME Init PROVE LoaderInv
  OBVIOUS
<1>1. TableTypes
  BY EmptySeq DEF Init, TableTypes
<1>2. udirs = <<>> /\ ufiles = <<>> /\ dirs = EmptyTable /\ files = EmptyTable
      /\ out = "unit"
  BY DEF Init
<1>5. DirsMirrored
  BY <1>2, EmptyTableDomain, EmptySeq DEF DirsMirrored
<1>6. FilesMirrored
  BY <1>2, EmptyTableDomain, EmptySeq DEF FilesMirrored, FileSlots, InBlock
<1>3. FilesOfUnit
  BY DEF Init, FilesOfUnit
<1>4. QED
  BY <1>1, <1>3, <1>5, <1>6 DEF LoaderInv

(* The header of a unit: nothing of the unit before is left in the tables. *)
LEMMA HeaderStep ==
    ASSUME LoaderInv, NEW b \in {0, 1}, UnitHeader(b)
    PROVE  LoaderInv'
<1>1. TableTypes'
  BY EmptySeq DEF LoaderInv, TableTypes, UnitHeader
<1>2. udirs' = <<>> /\ ufiles' = <<>> /\ dirs' = EmptyTable /\ files' = EmptyTable
      /\ out' = "tables"
  BY DEF UnitHeader, Freed
<1>5. DirsMirrored'
  BY <1>2, EmptyTableDomain, EmptySeq DEF DirsMirrored
<1>6. FilesMirrored'
  BY <1>2, EmptyTableDomain, EmptySeq DEF FilesMirrored, FileSlots, InBlock
<1>3. FilesOfUnit'
  BY DEF LoaderInv, FilesOfUnit, UnitHeader
<1>4. QED
  BY <1>1, <1>3, <1>5, <1>6 DEF LoaderInv

LEMMA DirectoryStep ==
    ASSUME LoaderInv, NEW d \in Dirs, IncludeDirectory(d)
    PROVE  LoaderInv'
<1> DEFINE n == Number(Len(udirs) + 1)
<1>1. base \in {0, 1} /\ udirs \in Seq(Dirs) /\ udirs' = Append(udirs, d) /\ base' = base
  BY DEF LoaderInv, TableTypes, IncludeDirectory
<1>2. /\ DOMAIN udirs = 1 .. Len(udirs) /\ Len(udirs) \in Nat
      /\ udirs' \in Seq(Dirs) /\ Len(udirs') = Len(udirs) + 1
      /\ DOMAIN udirs' = 1 .. Len(udirs) + 1 /\ udirs' # <<>>
      /\ \A k \in 1 .. Len(udirs) : udirs'[k] = udirs[k]
      /\ udirs'[Len(udirs) + 1] = d
  BY <1>1, AppendEntry
<1>3. n \in Nat /\ n = Number(Len(udirs)) + 1 /\ (udirs = <<>> => n \in {0, 1})
  BY <1>1, <1>2 DEF Number
<1>4. DOMAIN dirs = IF udirs = <<>> THEN {} ELSE 0 .. Number(Len(udirs))
  BY DEF LoaderInv, DirsMirrored
<1>5. \A k \in DOMAIN dirs : k \in 0 .. n
  BY <1>1, <1>2, <1>3, <1>4 DEF Number
<1>6. /\ DOMAIN dirs' = 0 .. n /\ dirs'[n] = d
      /\ \A k \in DOMAIN dirs : k # n => dirs'[k] = dirs[k]
      /\ \A k \in 0 .. n : k # n /\ k \notin DOMAIN dirs => dirs'[k] = ""
  <2>1. dirs' = Stored(Padded(dirs, n, ""), n, d)
    BY DEF IncludeDirectory
  <2> DEFINE p == Padded(dirs, n, "")
  <2>2. DOMAIN dirs \cup 0 .. n = 0 .. n
    BY <1>5
  <2>3. p = [k \in 0 .. n |-> IF k \in DOMAIN dirs THEN dirs[k] ELSE ""]
    BY <2>2 DEF Padded
  <2>4. DOMAIN p = 0 .. n
    BY <2>3
  <2>5. \A k \in DOMAIN dirs : p[k] = dirs[k]
    BY <1>5, <2>3
  <2>6. \A k \in 0 .. n : k \notin DOMAIN dirs => p[k] = ""
    BY <2>3
  <2>7. dirs' = Stored(p, n, d)
    BY <2>1
  <2> HIDE DEF p
  <2>8. dirs' = [k \in 0 .. n |-> IF k = n THEN d ELSE p[k]]
    BY <2>4, <2>7 DEF Stored
  <2> HIDE DEF n
  <2>9. DOMAIN dirs' = 0 .. n
    BY <2>8
  <2>10. dirs'[n] = d
    BY <1>3, <2>8
  <2>11. \A k \in 0 .. n : k # n => dirs'[k] = p[k]
    BY <2>8
  <2>12. QED
    BY <1>5, <2>5, <2>6, <2>9, <2>10, <2>11
<1>7. \A k \in Nat : Number(k)' = Number(k)
  BY <1>1 DEF Number
<1>8. n \notin DOMAIN dirs
  BY <1>1, <1>2, <1>3, <1>4 DEF Number
<1>9. DirsMirrored'
  <2>1. DOMAIN dirs' = 0 .. n /\ Number(Len(udirs))' = n
    BY <1>1, <1>2, <1>6 DEF Number
  <2>2. ASSUME NEW k \in DOMAIN udirs' PROVE dirs'[Number(k)'] = udirs'[k]
    <3>1. CASE k = Len(udirs) + 1
      <4>1. Number(k)' = n
        BY <1>2, <1>7, <3>1
      <4>2. dirs'[n] = d
        BY <1>6
      <4>3. udirs'[k] = d
        BY <1>2, <3>1
      <4>4. QED
        BY <4>1, <4>2, <4>3
    <3>2. CASE k \in 1 .. Len(udirs)
      <4>1. Number(k)' = Number(k) /\ Number(k) \in 0 .. n /\ Number(k) # n
        BY <1>1, <1>2, <1>3, <3>2 DEF Number
      <4>2. Number(k) \in DOMAIN dirs
        BY <1>1, <1>2, <1>4, <3>2 DEF Number
      <4>3. dirs[Number(k)] = udirs[k]
        BY <1>2, <3>2 DEF LoaderInv, DirsMirrored
      <4>4. QED
        <5>1. dirs'[Number(k)] = dirs[Number(k)]
          BY <1>6, <4>1, <4>2
        <5>2. QED
          BY <1>2, <3>2, <4>1, <4>3, <5>1
    <3>3. QED
      BY <1>2, <3>1, <3>2
  <2>3. ASSUME NEW c \in DOMAIN dirs', c \notin DirNumbers' PROVE dirs'[c] = ""
    <3>1. c \in 0 .. n
      BY <1>6
    <3>2. c # n
      BY <1>2, <1>7, <2>3 DEF DirNumbers
    <3>3. c \notin DirNumbers
      BY <1>2, <1>7, <2>3 DEF DirNumbers
    <3>4. c \in DOMAIN dirs => dirs[c] = ""
      BY <3>3 DEF LoaderInv, DirsMirrored
    <3>5. QED
      BY <1>6, <3>1, <3>2, <3>4
  <2>4. QED
    BY <1>2, <2>1, <2>2, <2>3 DEF DirsMirrored
<1>10. TableTypes'
  BY <1>1, <1>2 DEF LoaderInv, TableTypes, IncludeDirectory
<1>11. FilesMirrored'
  <2>1. ufiles = <<>> /\ ufiles' = ufiles /\ files' = files /\ out = "tables" /\ out' = out
    BY DEF IncludeDirectory
  <2>2. DOMAIN files = {} /\ DOMAIN ufiles = {}
    BY <2>1, EmptySeq DEF LoaderInv, FilesMirrored, FileSlots, InBlock
  <2>3. QED
    BY <2>1, <2>2 DEF FilesMirrored, FileSlots, InBlock
<1>12. FilesOfUnit'
  BY DEF LoaderInv, FilesOfUnit, IncludeDirectory
<1>13. QED
  BY <1>9, <1>10, <1>11, <1>12 DEF LoaderInv

(* A file block begins: the loader makes a blank slot for its number. *)
LEMMA BlockStep ==
    ASSUME LoaderInv, FileNames
    PROVE  LoaderInv'
<1> DEFINE n == Number(Len(ufiles) + 1)
<1>1. base \in {0, 1} /\ ufiles \in Seq(Files) /\ ufiles' = ufiles /\ base' = base
      /\ udirs' = udirs /\ dirs' = dirs /\ out = "tables" /\ out' = "name"
      /\ files' = Padded(files, n, BlankFile)
  BY DEF LoaderInv, TableTypes, FileNames
<1>2. Len(ufiles) \in Nat /\ DOMAIN ufiles = 1 .. Len(ufiles)
      /\ (ufiles # <<>> => Len(ufiles) > 0)
  BY <1>1, LenProperties, EmptySeq
<1>3. DOMAIN files = IF ufiles = <<>> THEN {} ELSE 0 .. Number(Len(ufiles))
  BY <1>1 DEF LoaderInv, FilesMirrored, FileSlots, InBlock
<1>4. n \in Nat /\ DOMAIN files \cup 0 .. n = 0 .. n
  BY <1>1, <1>2, <1>3 DEF Number
<1>5. files' = [k \in 0 .. n |-> IF k \in DOMAIN files THEN files[k] ELSE BlankFile]
  BY <1>1, <1>4 DEF Padded
<1>6. FilesMirrored'
  <2>1. DOMAIN files' = 0 .. n /\ Number(Len(ufiles) + 1)' = n
    BY <1>1, <1>5 DEF Number
  <2>2. ASSUME NEW k \in DOMAIN ufiles
        PROVE  files'[Number(k)] = ufiles[k] /\ ufiles[k].name # ""
    <3>1. ufiles # <<>> /\ k \in 1 .. Len(ufiles)
      BY <1>1, <1>2, EmptySeq
    <3>2. Number(k) \in DOMAIN files /\ Number(k) \in 0 .. n
      BY <1>1, <1>2, <1>3, <3>1 DEF Number
    <3>3. QED
      BY <1>5, <3>2 DEF LoaderInv, FilesMirrored
  <2>3. \A k : Number(k)' = Number(k)
    BY <1>1 DEF Number
  <2>4. FileSlots'
    BY <1>1, <2>1 DEF FileSlots, InBlock
  <2>5. QED
    BY <1>1, <2>2, <2>3, <2>4 DEF FilesMirrored
<1>7. TableTypes'
  BY DEF LoaderInv, TableTypes, FileNames
<1>8. DirsMirrored'
  BY <1>1 DEF LoaderInv, DirsMirrored, DirNumbers, Number
<1>9. FilesOfUnit'
  BY DEF LoaderInv, FilesOfUnit, FileNames
<1>10. QED
  BY <1>6, <1>7, <1>8, <1>9 DEF LoaderInv

LEMMA NameStep ==
    ASSUME LoaderInv, NEW f \in Names, NameLine(f)
    PROVE  LoaderInv'
<1>1. ufiles' = ufiles /\ base' = base /\ udirs' = udirs /\ dirs' = dirs /\ files' = files
      /\ out = "name" /\ out' = "dir_index" /\ pending_name' = f
  BY DEF NameLine
<1>2. TableTypes'
  BY DEF LoaderInv, TableTypes, NameLine
<1>3. DirsMirrored'
  BY <1>1 DEF LoaderInv, DirsMirrored, DirNumbers, Number
<1>4. FilesMirrored'
  BY <1>1, NamesNotBlank DEF LoaderInv, FilesMirrored, FileSlots, InBlock, Number
<1>5. FilesOfUnit'
  BY DEF LoaderInv, FilesOfUnit, NameLine
<1>6. QED
  BY <1>2, <1>3, <1>4, <1>5 DEF LoaderInv

(* The block is complete: the loader's last slot is the one of its number. *)
LEMMA FileStep ==
    ASSUME LoaderInv, NEW d, DirIndexLine(d)
    PROVE  LoaderInv'
<1> DEFINE n == Number(Len(ufiles) + 1)
           e == [name |-> pending_name, dir |-> d]
<1>1. base \in {0, 1} /\ ufiles \in Seq(Files) /\ udirs \in Seq(Dirs) /\ base' = base
      /\ udirs' = udirs /\ dirs' = dirs /\ out = "dir_index" /\ out' = "tables"
  BY DEF LoaderInv, TableTypes, FilesMirrored, DirIndexLine
<1>20. ufiles' = Append(ufiles, e)
  BY DEF DirIndexLine
<1>21. pending_name \in Names \cup {""} /\ pending_name # ""
  BY <1>1 DEF LoaderInv, TableTypes, FilesMirrored
<1>2. d \in Nat
  <2>1. d \in DirNumbers \/ d = 0
    BY DEF DirIndexLine
  <2>2. CASE d \in DirNumbers
    <3>1. PICK m \in DOMAIN udirs : d = Number(m)
      BY <2>2 DEF DirNumbers
    <3>2. DOMAIN udirs = 1 .. Len(udirs) /\ Len(udirs) \in Nat
      BY <1>1, LenProperties
    <3>4. m \in Nat /\ m > 0
      BY <3>1, <3>2
    <3>3. QED
      BY <1>1, <3>1, <3>4 DEF Number
  <2>3. QED
    BY <2>1, <2>2
<1>3. e \in Files /\ e.name # ""
  BY <1>2, <1>21 DEF Files
<1>22. files' = Stored(files, CHOOSE i \in DOMAIN files : \A j \in DOMAIN files : j <= i, e)
  BY DEF DirIndexLine
<1> HIDE DEF e
<1>23. ufiles \in Seq(Files) /\ e \in Files
  BY <1>1, <1>3
<1>4. /\ DOMAIN ufiles = 1 .. Len(ufiles) /\ Len(ufiles) \in Nat
      /\ ufiles' \in Seq(Files) /\ Len(ufiles') = Len(ufiles) + 1
      /\ DOMAIN ufiles' = 1 .. Len(ufiles) + 1 /\ ufiles' # <<>>
      /\ \A k \in 1 .. Len(ufiles) : ufiles'[k] = ufiles[k]
      /\ ufiles'[Len(ufiles) + 1] = e
  BY <1>20, <1>23, AppendEntry
<1>5. n \in Nat /\ DOMAIN files = 0 .. n
  <2>1. DOMAIN files = 0 .. Number(Len(ufiles) + 1)
    BY <1>1 DEF LoaderInv, FilesMirrored, FileSlots, InBlock
  <2>2. QED
    BY <1>1, <1>4, <2>1 DEF Number
<1>6. (CHOOSE i \in DOMAIN files : \A j \in DOMAIN files : j <= i) = n
  BY <1>5
<1>7. files' = [k \in 0 .. n |-> IF k = n THEN e ELSE files[k]]
  BY <1>5, <1>6, <1>22 DEF Stored
<1>8. FilesMirrored'
  <2>1. DOMAIN files' = 0 .. n /\ Number(Len(ufiles))' = n
    BY <1>1, <1>4, <1>7 DEF Number
  <2>2. FileSlots'
    BY <1>1, <1>4, <2>1 DEF FileSlots, InBlock
  <2>3. \A k : Number(k)' = Number(k)
    BY <1>1 DEF Number
  <2>4. ASSUME NEW k \in DOMAIN ufiles'
        PROVE  files'[Number(k)] = ufiles'[k] /\ ufiles'[k].name # ""
    <3>1. CASE k = Len(ufiles) + 1
      <4> HIDE DEF n
      <4>1. files'[n] = e
        BY <1>5, <1>7
      <4>2. QED
        BY <1>3, <1>4, <3>1, <4>1 DEF n
    <3>2. CASE k \in 1 .. Len(ufiles)
      <4>1. Number(k) \in 0 .. n /\ Number(k) # n
        <5>1. k \in Nat /\ 1 <= k /\ k <= Len(ufiles)
          BY <1>4, <3>2
        <5>2. QED
          BY <1>1, <1>4, <5>1 DEF Number
      <4>2. files'[Number(k)] = files[Number(k)]
        BY <1>7, <4>1
      <4>3. files[Number(k)] = ufiles[k] /\ ufiles[k].name # ""
        BY <1>4, <3>2 DEF LoaderInv, FilesMirrored
      <4>4. QED
        BY <1>4, <3>2, <4>2, <4>3
    <3>3. k = Len(ufiles) + 1 \/ k \in 1 .. Len(ufiles)
      BY <1>4
    <3>4. QED
      BY <3>1, <3>2, <3>3
  <2>5. QED
    BY <1>1, <2>2, <2>3, <2>4 DEF FilesMirrored
<1>9. TableTypes'
  BY <1>1, <1>4 DEF LoaderInv, TableTypes, DirIndexLine
<1>10. DirsMirrored'
  BY <1>1 DEF LoaderInv, DirsMirrored, DirNumbers, Number
<1>11. FilesOfUnit'
  BY DEF LoaderInv, FilesOfUnit, DirIndexLine
<1>12. QED
  BY <1>8, <1>9, <1>10, <1>11 DEF LoaderInv

(* A row: its file number means the same path in both tables. *)
LEMMA RowStep ==
    ASSUME LoaderInv, NEW a \in Nat, NEW l \in Lines \cup {0}, NEW k \in DOMAIN ufiles,
           NEW end \in BOOLEAN, Row(a, l, k, end)
    PROVE  LoaderInv'
<1> DEFINE path == UnitPath(k)
           row == [address |-> a, line |-> l, file |-> path, end |-> end]
           entry == [address |-> a, line |-> l, file |-> path]
<1>1. /\ base' = base /\ udirs' = udirs /\ dirs' = dirs /\ ufiles' = ufiles
      /\ files' = files /\ pending_name' = pending_name /\ phase' = phase
      /\ out \in {"tables", "rows"} /\ out' = "rows"
  BY DEF Row
<1>2. ~InBlock /\ ~InBlock'
  BY <1>1 DEF InBlock
<1>3. ResolvedPath(dirs, files, Number(k)) = path /\ path \in Path
  BY <1>2, SamePath DEF LoaderInv
<1>4. rows' = Append(rows, row)
  BY DEF Row
<1>5. entries' = Append(entries, entry)
  BY <1>3 DEF Row
<1> HIDE DEF path
<1>6. row \in PrintedRow /\ entry \in Entry
  BY <1>3 DEF PrintedRow, Entry
<1>7. row.address = entry.address /\ row.line = entry.line /\ row.file = entry.file
  OBVIOUS
<1> HIDE DEF row, entry
<1>8. rows \in Seq(PrintedRow) /\ entries \in Seq(Entry) /\ Len(entries) = Len(rows)
  BY DEF LoaderInv, TableTypes, FilesOfUnit
<1>9. /\ rows' \in Seq(PrintedRow) /\ Len(rows') = Len(rows) + 1
      /\ DOMAIN rows = 1 .. Len(rows) /\ Len(rows) \in Nat
      /\ DOMAIN rows' = 1 .. Len(rows) + 1
      /\ \A i \in 1 .. Len(rows) : rows'[i] = rows[i]
      /\ rows'[Len(rows) + 1] = row
  BY <1>4, <1>6, <1>8, AppendEntry
<1>10. /\ entries' \in Seq(Entry) /\ Len(entries') = Len(rows) + 1
       /\ \A i \in 1 .. Len(rows) : entries'[i] = entries[i]
       /\ entries'[Len(rows) + 1] = entry
  BY <1>5, <1>6, <1>8, AppendEntry
<1>11. FilesOfUnit'
  <2>1. ASSUME NEW i \in DOMAIN rows'
        PROVE  /\ entries'[i].address = rows'[i].address
               /\ entries'[i].line = rows'[i].line
               /\ entries'[i].file = rows'[i].file
    <3>1. CASE i \in 1 .. Len(rows)
      <4>1. entries'[i] = entries[i] /\ rows'[i] = rows[i] /\ i \in DOMAIN rows
        BY <1>9, <1>10, <3>1
      <4>2. QED
        BY <4>1 DEF LoaderInv, FilesOfUnit
    <3>2. CASE i = Len(rows) + 1
      BY <1>7, <1>9, <1>10, <3>2
    <3>3. QED
      BY <1>9, <3>1, <3>2
  <2>2. QED
    BY <1>9, <1>10, <2>1 DEF FilesOfUnit
<1>12. TableTypes'
  BY <1>1, <1>9, <1>10 DEF LoaderInv, TableTypes
<1>13. DirsMirrored'
  BY <1>1 DEF LoaderInv, DirsMirrored, DirNumbers, Number
<1>14. FilesMirrored'
  BY <1>1, <1>2 DEF LoaderInv, FilesMirrored, FileSlots, InBlock, Number
<1>15. QED
  BY <1>11, <1>12, <1>13, <1>14 DEF LoaderInv

(* The rest of the steps leave both tables alone. *)
LEMMA TablesKept ==
    ASSUME LoaderInv, phase' \in {"dump", "loaded", "run"}, UNCHANGED <<printed, loader>>
    PROVE  LoaderInv'
<1>1. TableTypes'
  BY DEF LoaderInv, TableTypes, printed, loader
<1>2. DirsMirrored'
  BY DEF LoaderInv, DirsMirrored, DirNumbers, Number, printed, loader
<1>3. FilesMirrored'
  BY DEF LoaderInv, FilesMirrored, FileSlots, InBlock, Number, printed, loader
<1>4. FilesOfUnit'
  BY DEF LoaderInv, FilesOfUnit, printed, loader
<1>5. QED
  BY <1>1, <1>2, <1>3, <1>4 DEF LoaderInv

LEMMA LoaderStep == LoaderInv /\ [Next]_vars => LoaderInv'
<1> SUFFICES ASSUME LoaderInv, [Next]_vars PROVE LoaderInv'
  OBVIOUS
<1>1. phase \in {"dump", "loaded", "run"}
  BY DEF LoaderInv, TableTypes
<1>2. ASSUME NEW b \in {0, 1}, UnitHeader(b) PROVE LoaderInv'
  BY <1>2, HeaderStep
<1>3. ASSUME NEW d \in Dirs, IncludeDirectory(d) PROVE LoaderInv'
  BY <1>3, DirectoryStep
<1>4. CASE FileNames
  BY <1>4, BlockStep
<1>5. ASSUME NEW f \in Names, NameLine(f) PROVE LoaderInv'
  BY <1>5, NameStep
<1>6. ASSUME NEW d \in DirNumbers \cup {0}, DirIndexLine(d) PROVE LoaderInv'
  BY <1>6, FileStep
<1>7. ASSUME NEW a \in 1 .. MaxAddr, NEW l \in Lines \cup {0}, NEW k \in DOMAIN ufiles,
             NEW end \in BOOLEAN, Row(a, l, k, end)
      PROVE  LoaderInv'
  <2>1. a \in Nat
    OBVIOUS
  <2>2. QED
    BY <1>7, <2>1, RowStep
<1>8. CASE LoadEnds
  BY <1>8, TablesKept DEF LoadEnds
<1>9. ASSUME NEW spec \in Specs, Break(spec) PROVE LoaderInv'
  BY <1>1, <1>9, TablesKept DEF Break
<1>10. ASSUME NEW s \in Slides, Run(s) PROVE LoaderInv'
  BY <1>10, TablesKept DEF Run
<1>11. CASE UNCHANGED vars
  BY <1>1, <1>11, TablesKept DEF vars
<1>12. QED
  BY <1>2, <1>3, <1>4, <1>5, <1>6, <1>7, <1>8, <1>9, <1>10, <1>11 DEF Next

(* The loader's tables are those of the unit it reads, at every step. *)
THEOREM TablesOfUnit == Spec => []LoaderInv
<1>1. LoaderInv /\ [Next]_vars => LoaderInv'
  BY LoaderStep
<1>2. QED
  BY <1>1, LoaderInit, PTL DEF Spec

(* Every entry has the path its own unit gives to its file number
   (lineno_load_from_dwarfdump). *)
THEOREM RightFiles == Spec => []FilesOfUnit
<1>1. LoaderInv => FilesOfUnit
  BY DEF LoaderInv
<1>2. QED
  BY <1>1, TablesOfUnit, PTL
-------------------------------------------------------------------------------
LEMMA EntriesTyped ==
    ASSUME TableTypes, FilesOfUnit
    PROVE  /\ DOMAIN entries = 1 .. Len(entries) /\ DOMAIN rows = 1 .. Len(entries)
           /\ Len(entries) \in Nat
           /\ \A i \in DOMAIN entries : entries[i].address \in Nat
           /\ \A i \in DOMAIN rows : i \in Nat /\ i # None
<1>1. entries \in Seq(Entry) /\ rows \in Seq(PrintedRow) /\ Len(rows) = Len(entries)
  BY DEF TableTypes, FilesOfUnit
<1>2. /\ DOMAIN entries = 1 .. Len(entries) /\ DOMAIN rows = 1 .. Len(entries)
      /\ Len(entries) \in Nat
  BY <1>1, LenProperties
<1>3. ASSUME NEW i \in DOMAIN entries PROVE entries[i].address \in Nat
  <2>1. entries[i] \in Entry
    BY <1>1, <1>2, ElementOfSeq
  <2>2. QED
    BY <2>1 DEF Entry
<1>4. QED
  BY <1>2, <1>3 DEF None

(* Of the entries at or below a pc in the code of row k, k is the highest. *)
LEMMA CoveringRowFound ==
    ASSUME TableTypes, FilesOfUnit, slide \in Nat, NEW k \in DOMAIN rows, NEW pc \in Nat,
           Alone(k), Covers(k, pc)
    PROVE  LookupPc(pc, slide) = k
<1> DEFINE S == Below(pc, slide)
<1>1. /\ DOMAIN entries = DOMAIN rows
      /\ \A i \in DOMAIN rows : entries[i].address \in Nat /\ rows[i].address = entries[i].address
  BY EntriesTyped DEF FilesOfUnit
<1>2. k \in S
  BY <1>1 DEF Below, Runtime, Covers
<1>3. \A j \in S : j # k => entries[j].address < entries[k].address
  BY <1>1 DEF Below, Runtime, Covers, Alone
<1>4. Greatest(k, S)
  <2>1. k \in Nat
    BY EntriesTyped
  <2>2. \A j \in S : j = k \/ entries[j].address < entries[k].address
    BY <1>3
  <2>3. entries[k].address = entries[k].address /\ k <= k
    BY <2>1
  <2> HIDE DEF S
  <2>4. QED
    BY <2>2, <2>3 DEF Greatest
<1>5. \A i \in S : Greatest(i, S) => i = k
  <2>1. SUFFICES ASSUME NEW i \in S, Greatest(i, S), i # k PROVE FALSE
    OBVIOUS
  <2>2. entries[i].address < entries[k].address
    BY <1>3, <2>1
  <2>3. i \in DOMAIN rows
    BY <1>1 DEF Below
  <2>4. entries[k].address <= entries[i].address
    BY <1>1, <1>2, <2>1, <2>3 DEF Greatest
  <2>5. QED
    BY <1>1, <2>2, <2>3, <2>4
<1> HIDE DEF S
<1>6. (CHOOSE i \in S : Greatest(i, S)) = k
  BY <1>2, <1>4, <1>5
<1>7. QED
  BY <1>2, <1>4, <1>6 DEF LookupPc, S

LEMMA CoveredLine ==
    ASSUME TableTypes, FilesOfUnit, slide \in Nat, NEW k \in DOMAIN rows, NEW pc \in Nat,
           rows[k].line # 0, Alone(k), Covers(k, pc)
    PROVE  LineAtPc(pc, slide) = IF pc <= rows[k].address + slide + Reach THEN k ELSE None
<1> DEFINE above == {j \in DOMAIN entries : /\ Runtime(k, slide) < Runtime(j, slide)
                                            /\ Runtime(j, slide) < Runtime(k, slide) + Reach}
           near == pc <= Runtime(k, slide) + Reach
           covered == IF above = {} THEN near ELSE \A j \in above : pc < Runtime(j, slide)
<1>1. LookupPc(pc, slide) = k
  BY CoveringRowFound
<1>2. /\ DOMAIN entries = DOMAIN rows /\ k # None
      /\ \A i \in DOMAIN rows : /\ entries[i].address \in Nat
                                /\ rows[i].address = entries[i].address
                                /\ rows[i].line = entries[i].line
  BY EntriesTyped DEF FilesOfUnit
<1>3. LineAtPc(pc, slide) = IF covered THEN k ELSE None
  BY <1>1, <1>2 DEF LineAtPc
<1>4. \A j \in above : pc < Runtime(j, slide) /\ Runtime(j, slide) < Runtime(k, slide) + Reach
  BY <1>2 DEF Covers, Runtime
<1>5. \A j \in DOMAIN entries : Runtime(j, slide) \in Nat
  BY <1>2 DEF Runtime
<1>6. Runtime(k, slide) + Reach \in Nat
  BY <1>2, <1>5, Bounds
<1>7. above # {} => near
  <2>1. SUFFICES ASSUME NEW j \in above PROVE near
    OBVIOUS
  <2>2. Runtime(j, slide) \in Nat
    BY <1>5
  <2>3. QED
    BY <1>4, <1>6, <2>2
<1>8. covered <=> near
  <2> HIDE DEF above, near
  <2>1. CASE above = {}
    BY <2>1
  <2>2. CASE above # {}
    BY <1>4, <1>7, <2>2
  <2>3. QED
    BY <2>1, <2>2
<1>9. near <=> pc <= rows[k].address + slide + Reach
  BY <1>2 DEF Runtime
<1> HIDE DEF covered, near
<1>10. QED
  BY <1>3, <1>8, <1>9

SlideType == slide \in Nat

LEMMA SlideKept == SlideType /\ [Next]_vars => SlideType'
BY Bounds DEF SlideType, Next, vars, printed, loader, UnitHeader, IncludeDirectory,
   FileNames, NameLine, DirIndexLine, Row, LoadEnds, Break, Run

THEOREM SlideTyped == Spec => []SlideType
<1>1. Init => SlideType
  <2>1. Init => slide = 0
    BY DEF Init
  <2>2. QED
    BY <2>1 DEF SlideType
<1>2. QED
  BY <1>1, SlideKept, PTL DEF Spec

(* At a pc the line shown is that of the row which covers it, whatever the
   slide (cdbg_lineno_line_at_pc). *)
THEOREM RightLine == Spec => []CoveringLineShown
<1>1. LoaderInv /\ SlideType => CoveringLineShown
  <2>1. SUFFICES ASSUME LoaderInv, SlideType, NEW k \in DOMAIN rows,
                        NEW pc \in slide .. slide + MaxAddr,
                        ~rows[k].end, rows[k].line # 0, Alone(k), Covers(k, pc)
                 PROVE  LineAtPc(pc, slide) =
                            IF pc <= rows[k].address + slide + Reach THEN k ELSE None
    BY DEF CoveringLineShown
  <2>2. pc \in Nat /\ slide \in Nat
    BY <2>1, Bounds DEF SlideType
  <2>3. QED
    BY <2>1, <2>2, CoveredLine DEF LoaderInv
<1>2. QED
  BY <1>1, TablesOfUnit, SlideTyped, PTL
-------------------------------------------------------------------------------
LessThan == OpToRel(<, Nat)

(* A set of indices that is not empty has a first one. *)
LEMMA FirstExists ==
    ASSUME NEW S, S \subseteq Nat, S # {}
    PROVE  \E i \in S : \A j \in S : i <= j
<1>1. IsWellFoundedOn(LessThan, Nat)
  BY NatLessThanWellFounded, Zenon DEF LessThan
<1>2. PICK i \in S : \A j \in S : ~ (<<j, i>> \in LessThan)
  BY <1>1, WFMin
<1>3. \A m, n \in Nat : m < n => <<m, n>> \in LessThan
  BY DEF LessThan, OpToRel
<1>4. ASSUME NEW j \in S PROVE i <= j
  <2>1. ~ (j < i)
    BY <1>2, <1>3
  <2>2. QED
    BY <2>1
<1>5. QED
  BY <1>4

Symbol == [name : STRING, address : Nat, type : {"T", "t", "U"}]

LEMMA SymbolType == Syms \in Seq(Symbol)
BY LineTableAssumption, Zenon DEF Symbol

LEMMA SymbolFound ==
    ASSUME NEW name, SymNamed(name) # None
    PROVE  SymNamed(name) \in DOMAIN Syms /\ Syms[SymNamed(name)].address \in Nat
<1> DEFINE S == {i \in DOMAIN Syms : Syms[i].name = name}
<1>2. DOMAIN Syms = 1 .. Len(Syms) /\ DOMAIN Syms \subseteq Nat
  BY SymbolType, LenProperties
<1>3. S # {}
  BY DEF SymNamed
<1>4. PICK k \in S : \A j \in S : k <= j
  BY <1>2, <1>3, FirstExists
<1>5. SymNamed(name) = CHOOSE i \in S : \A j \in S : i <= j
  BY <1>3 DEF SymNamed
<1> DEFINE c == CHOOSE i \in S : \A j \in S : i <= j
<1>6. c \in S
  BY <1>4
<1> HIDE DEF c
<1>7. c \in DOMAIN Syms
  BY <1>6
<1>8. Syms[c] \in Symbol
  BY <1>2, <1>7, SymbolType, ElementOfSeq
<1>9. Syms[c].address \in Nat
  BY <1>8 DEF Symbol
<1>10. QED
  BY <1>5, <1>7, <1>9 DEF c

(* The entry chosen of a set is in the set. *)
LEMMA LowestIn ==
    ASSUME NEW S, S \subseteq DOMAIN entries
    PROVE  Lowest(S) = None \/ Lowest(S) \in DOMAIN entries
BY DEF Lowest

LEMMA LineEntryIn ==
    ASSUME NEW filter, NEW l
    PROVE  LineEntry(filter, l) = None \/ LineEntry(filter, l) \in DOMAIN entries
<1>1. LookupLine(filter, l) = None \/ LookupLine(filter, l) \in DOMAIN entries
  BY LowestIn DEF LookupLine
<1>2. LookupLineUnique(l) = None \/ LookupLineUnique(l) \in DOMAIN entries
  BY LowestIn DEF LookupLineUnique
<1>3. QED
  BY <1>1, <1>2 DEF LineEntry

(* What is looked up for an address and a slide is what would be for the
   address before any slide. *)
LEMMA LookupsSlide ==
    ASSUME TableTypes, FilesOfUnit, NEW a \in Nat, NEW s \in Nat
    PROVE  /\ NextLineAfterPc(a + s, s) = NextLineAfterPc(a + 0, 0)
           /\ NextLineAfterPc(a + s, s) = None \/ NextLineAfterPc(a + s, s) \in DOMAIN entries
<1>1. \A i \in DOMAIN entries : entries[i].address \in Nat
  BY EntriesTyped
<1>2. Below(a + s, s) = Below(a + 0, 0)
  BY <1>1 DEF Below, Runtime
<1>3. LookupPc(a + s, s) = LookupPc(a + 0, 0)
  BY <1>2 DEF LookupPc
<1>4. OtherLinesAfter(a + s, s) = OtherLinesAfter(a + 0, 0)
  <2>1. \A i \in DOMAIN entries : a + s < Runtime(i, s) <=> a + 0 < Runtime(i, 0)
    BY <1>1 DEF Runtime
  <2>2. QED
    BY <1>3, <2>1 DEF OtherLinesAfter
<1>5. NextLineAfterPc(a + s, s) = NextLineAfterPc(a + 0, 0)
  BY <1>3, <1>4 DEF NextLineAfterPc
<1>6. OtherLinesAfter(a + s, s) \subseteq DOMAIN entries
  BY DEF OtherLinesAfter
<1>7. NextLineAfterPc(a + s, s) = None \/ NextLineAfterPc(a + s, s) \in DOMAIN entries
  BY <1>6, LowestIn DEF NextLineAfterPc
<1>8. QED
  BY <1>5, <1>7

LEMMA BodySlides ==
    ASSUME TableTypes, FilesOfUnit, NEW s \in Nat, NEW k, Syms[k].address \in Nat
    PROVE  BodyAddr(k, s) = BodyAddr(k, 0) + s
<1> DEFINE i == NextLineAfterPc(Syms[k].address + s, s)
<1>1. i = NextLineAfterPc(Syms[k].address + 0, 0) /\ (i = None \/ i \in DOMAIN entries)
  BY LookupsSlide
<1>2. BodyAddr(k, s) = IF i # None THEN Runtime(i, s) ELSE Syms[k].address + s
  BY DEF BodyAddr
<1>3. BodyAddr(k, 0) = IF i # None THEN Runtime(i, 0) ELSE Syms[k].address + 0
  BY <1>1 DEF BodyAddr
<1> HIDE DEF i
<1>4. i # None => entries[i].address \in Nat
  BY <1>1, EntriesTyped
<1>5. QED
  BY <1>2, <1>3, <1>4 DEF Runtime

LEMMA LineResolved ==
    ASSUME NEW spec, NEW s, spec.kind = "line", LineEntry(spec.filter, spec.line) # None
    PROVE  Resolved(spec, s) = Runtime(LineEntry(spec.filter, spec.line), s)
<1> DEFINE i == LineEntry(spec.filter, spec.line)
           A == CASE i # None -> Runtime(i, s)
                  [] i = None /\ spec.filter = Path -> spec.line
                  [] OTHER -> NoAddr
<1>1. A = Runtime(i, s)
  OBVIOUS
<1>2. Resolved(spec, s) = A
  BY DEF Resolved
<1>3. QED
  BY <1>1, <1>2

LEMMA FunctionResolved ==
    ASSUME NEW spec, NEW s, spec.kind = "fn"
    PROVE  Resolved(spec, s) = IF Defined(SymNamed(spec.name))
                               THEN BodyAddr(SymNamed(spec.name), s) ELSE NoAddr
BY DEF Resolved

(* The slide moves what a line or a function resolves to by itself. *)
LEMMA ResolutionSlides ==
    ASSUME TableTypes, FilesOfUnit, NEW s \in Nat, NEW spec, Resolved(spec, s) # NoAddr,
           \/ spec.kind = "fn"
           \/ spec.kind = "line" /\ LineEntry(spec.filter, spec.line) # None
    PROVE  Resolved(spec, s) = Resolved(spec, 0) + s
<1>1. CASE spec.kind = "fn"
  <2> DEFINE k == SymNamed(spec.name)
  <2>1. Resolved(spec, s) = (IF Defined(k) THEN BodyAddr(k, s) ELSE NoAddr)
    BY <1>1, FunctionResolved
  <2>2. Resolved(spec, 0) = (IF Defined(k) THEN BodyAddr(k, 0) ELSE NoAddr)
    BY <1>1, FunctionResolved
  <2> HIDE DEF k
  <2>3. Defined(k)
    BY <2>1
  <2>4. k # None
    BY <2>3 DEF Defined
  <2>5. Syms[k].address \in Nat
    BY <2>4, SymbolFound DEF k
  <2>6. BodyAddr(k, s) = BodyAddr(k, 0) + s
    BY <2>5, BodySlides
  <2>7. QED
    BY <2>1, <2>2, <2>3, <2>6
<1>2. CASE spec.kind = "line" /\ LineEntry(spec.filter, spec.line) # None
  <2> DEFINE i == LineEntry(spec.filter, spec.line)
  <2>1. Resolved(spec, s) = Runtime(i, s) /\ Resolved(spec, 0) = Runtime(i, 0)
    BY <1>2, LineResolved
  <2>2. i \in DOMAIN entries
    BY <1>2, LineEntryIn
  <2> HIDE DEF i
  <2>3. entries[i].address \in Nat
    BY <2>2, EntriesTyped
  <2>4. QED
    BY <2>1, <2>3 DEF Runtime
<1>3. QED
  BY <1>1, <1>2
(* What an argument resolves to depends on the table and the slide alone. *)
LEMMA ResolutionKept ==
    ASSUME entries' = entries, NEW spec, NEW s
    PROVE  Resolved(spec, s)' = Resolved(spec, s)
<1>1. \A S : Lowest(S)' = Lowest(S)
  BY DEF Lowest, Least
<1>2. \A i : Runtime(i, s)' = Runtime(i, s)
  BY DEF Runtime
<1>3. ASSUME NEW pc PROVE NextLineAfterPc(pc, s)' = NextLineAfterPc(pc, s)
  <2>1. LookupPc(pc, s)' = LookupPc(pc, s)
    BY DEF LookupPc, Below, Greatest, Runtime
  <2>2. OtherLinesAfter(pc, s)' = OtherLinesAfter(pc, s)
    BY <2>1, <1>2 DEF OtherLinesAfter
  <2>3. QED
    BY <1>1, <2>1, <2>2 DEF NextLineAfterPc
<1>4. ASSUME NEW filter, NEW l PROVE LineEntry(filter, l)' = LineEntry(filter, l)
  BY DEF LineEntry, LookupLine, LookupLineUnique, Lowest, Least
<1>5. ASSUME NEW k PROVE BodyAddr(k, s)' = BodyAddr(k, s)
  BY <1>2, <1>3 DEF BodyAddr
<1>6. QED
  BY <1>2, <1>4, <1>5, Zenon DEF Resolved

(* The addresses of the breakpoints are the ones a fresh resolution would
   give, and there is none before the table is complete. *)
BreaksTracked ==
    /\ phase = "dump" => bps = {}
    /\ \A b \in bps : b.addr # NoAddr /\ b.addr = Resolved(b.spec, slide)

LEMMA BreakStep ==
    ASSUME BreaksTracked, NEW spec, Break(spec)
    PROVE  BreaksTracked'
<1>1. entries' = entries /\ slide' = slide /\ phase' = "run"
      /\ Resolved(spec, slide) # NoAddr
  BY DEF Break, loader
<1>2. bps' = bps \cup {[spec |-> spec, addr |-> Resolved(spec, slide)]}
  BY DEF Break
<1>3. ASSUME NEW b \in bps' PROVE b.addr # NoAddr /\ b.addr = Resolved(b.spec, slide)
  BY <1>1, <1>2 DEF BreaksTracked
<1>4. ASSUME NEW c PROVE Resolved(c, slide)' = Resolved(c, slide)
  BY <1>1, ResolutionKept
<1>5. QED
  BY <1>1, <1>3, <1>4 DEF BreaksTracked

LEMMA RunStep ==
    ASSUME BreaksTracked, NEW s, Run(s)
    PROVE  BreaksTracked'
<1>1. entries' = entries /\ slide' = s /\ phase' = "run" /\ bps' = Replanted(s)
  BY DEF Run, loader
<1>2. ASSUME NEW b \in bps' PROVE b.addr # NoAddr /\ b.addr = Resolved(b.spec, s)
  BY <1>1 DEF Replanted
<1>3. ASSUME NEW c PROVE Resolved(c, s)' = Resolved(c, s)
  BY <1>1, ResolutionKept
<1>4. QED
  BY <1>1, <1>2, <1>3 DEF BreaksTracked

LEMMA TrackedStep == BreaksTracked /\ [Next]_vars => BreaksTracked'
<1> SUFFICES ASSUME BreaksTracked, [Next]_vars PROVE BreaksTracked'
  OBVIOUS
<1>1. ASSUME phase = "dump", bps' = bps PROVE BreaksTracked'
  BY <1>1 DEF BreaksTracked
<1>2. ASSUME NEW b \in {0, 1}, UnitHeader(b) PROVE BreaksTracked'
  BY <1>1, <1>2 DEF UnitHeader
<1>3. ASSUME NEW d \in Dirs, IncludeDirectory(d) PROVE BreaksTracked'
  BY <1>1, <1>3 DEF IncludeDirectory
<1>4. CASE FileNames
  BY <1>1, <1>4 DEF FileNames
<1>5. ASSUME NEW f \in Names, NameLine(f) PROVE BreaksTracked'
  BY <1>1, <1>5 DEF NameLine
<1>6. ASSUME NEW d \in DirNumbers \cup {0}, DirIndexLine(d) PROVE BreaksTracked'
  BY <1>1, <1>6 DEF DirIndexLine
<1>7. ASSUME NEW a \in 1 .. MaxAddr, NEW l \in Lines \cup {0}, NEW k \in DOMAIN ufiles,
             NEW end \in BOOLEAN, Row(a, l, k, end)
      PROVE  BreaksTracked'
  BY <1>1, <1>7 DEF Row
<1>8. CASE LoadEnds
  BY <1>1, <1>8 DEF LoadEnds
<1>9. ASSUME NEW spec \in Specs, Break(spec) PROVE BreaksTracked'
  BY <1>9, BreakStep
<1>10. ASSUME NEW s \in Slides, Run(s) PROVE BreaksTracked'
  BY <1>10, RunStep
<1>11. CASE UNCHANGED vars
  <2>1. entries' = entries /\ slide' = slide /\ phase' = phase /\ bps' = bps
    BY <1>11 DEF vars, loader
  <2>2. ASSUME NEW c PROVE Resolved(c, slide)' = Resolved(c, slide)
    BY <2>1, ResolutionKept
  <2>3. QED
    BY <2>1, <2>2 DEF BreaksTracked
<1>12. QED
  BY <1>2, <1>3, <1>4, <1>5, <1>6, <1>7, <1>8, <1>9, <1>10, <1>11 DEF Next

(* A breakpoint on a line or a function is, at every slide, where it was
   first put and the slide on top (cdbg_run, cmd_break). *)
THEOREM BreaksMove == Spec => []BreakFollowsSlide
<1>1. Init => BreaksTracked
  <2>1. Init => bps = {}
    BY DEF Init
  <2>2. QED
    BY <2>1 DEF BreaksTracked
<1>2. Spec => []BreaksTracked
  BY <1>1, TrackedStep, PTL DEF Spec
<1>3. LoaderInv /\ SlideType /\ BreaksTracked => BreakFollowsSlide
  <2>1. SUFFICES ASSUME LoaderInv, SlideType, BreaksTracked, NEW b \in bps,
                        \/ b.spec.kind = "fn"
                        \/ b.spec.kind = "line" /\ LineEntry(b.spec.filter, b.spec.line) # None
                 PROVE  b.addr = Resolved(b.spec, 0) + slide
    BY DEF BreakFollowsSlide
  <2>2. b.addr = Resolved(b.spec, slide) /\ Resolved(b.spec, slide) # NoAddr
    BY <2>1 DEF BreaksTracked
  <2>3. TableTypes /\ FilesOfUnit /\ slide \in Nat
    BY <2>1 DEF LoaderInv, SlideType
  <2>4. Resolved(b.spec, slide) = Resolved(b.spec, 0) + slide
    BY <2>1, <2>2, <2>3, ResolutionSlides
  <2>5. QED
    BY <2>2, <2>4
<1>4. QED
  BY <1>2, <1>3, TablesOfUnit, SlideTyped, PTL
-------------------------------------------------------------------------------
(* What the rows of the text are like: they rise, and the one that ends a
   sequence repeats the line and the file of the row before it, higher up. *)
RowsRise == \A i, j \in DOMAIN rows : i <= j => rows[i].address <= rows[j].address

EndsRepeat ==
    \A i \in DOMAIN rows : rows[i].end =>
        \E j \in DOMAIN rows : /\ ~rows[j].end /\ rows[j].address < rows[i].address
                               /\ rows[j].line = rows[i].line /\ rows[j].file = rows[i].file

RowsInv == RowsRise /\ EndsRepeat

LEMMA RowsKept ==
    ASSUME RowsInv, rows' = rows
    PROVE  RowsInv'
BY DEF RowsInv, RowsRise, EndsRepeat

LEMMA RowAdded ==
    ASSUME TableTypes, TableTypes', RowsInv, NEW a \in Nat, NEW l, NEW k, NEW end \in BOOLEAN,
           Row(a, l, k, end)
    PROVE  RowsInv'
<1> DEFINE row == [address |-> a, line |-> l, file |-> UnitPath(k), end |-> end]
           n == Len(rows)
<1>1. rows' = Append(rows, row) /\ rows \in Seq(PrintedRow) /\ rows' \in Seq(PrintedRow)
  BY DEF Row, TableTypes
<1>2. /\ n \in Nat /\ DOMAIN rows = 1 .. n /\ DOMAIN rows' = 1 .. n + 1
      /\ rows'[n + 1] = row
      /\ \A i \in 1 .. n : rows'[i] = rows[i]
  BY <1>1, LenProperties, AppendProperties
<1>3. \A i \in DOMAIN rows : rows[i].address <= a /\ rows[i].address \in Nat
  <2>1. \A i \in DOMAIN rows : rows[i] \in PrintedRow
    BY <1>1, <1>2, ElementOfSeq
  <2>2. \A i \in DOMAIN rows : rows[i].address <= a
    BY DEF Row
  <2>3. QED
    BY <2>1, <2>2 DEF PrintedRow
<1>4. row.address = a /\ row.line = l /\ row.file = UnitPath(k) /\ row.end = end
  OBVIOUS
<1> HIDE DEF row
<1>5. RowsRise'
  <2>1. SUFFICES ASSUME NEW i \in 1 .. n + 1, NEW j \in 1 .. n + 1, i <= j
                 PROVE  rows'[i].address <= rows'[j].address
    BY <1>2 DEF RowsRise
  <2>2. CASE j \in 1 .. n
    <3>1. i \in 1 .. n
      BY <1>2, <2>1, <2>2
    <3>2. rows[i].address <= rows[j].address
      BY <1>2, <2>1, <2>2, <3>1 DEF RowsInv, RowsRise
    <3>3. QED
      BY <1>2, <2>2, <3>1, <3>2
  <2>3. CASE j = n + 1 /\ i \in 1 .. n
    BY <1>2, <1>3, <1>4, <2>3
  <2>4. CASE j = n + 1 /\ i = n + 1
    BY <1>2, <1>4, <2>4
  <2>5. QED
    BY <1>2, <2>2, <2>3, <2>4
<1>6. EndsRepeat'
  <2>1. SUFFICES ASSUME NEW i \in 1 .. n + 1, rows'[i].end
                 PROVE  \E j \in 1 .. n + 1 :
                          /\ ~rows'[j].end /\ rows'[j].address < rows'[i].address
                          /\ rows'[j].line = rows'[i].line /\ rows'[j].file = rows'[i].file
    BY <1>2 DEF EndsRepeat
  <2>2. CASE i \in 1 .. n
    <3>1. rows[i].end
      BY <1>2, <2>1, <2>2
    <3>2. PICK j \in 1 .. n : /\ ~rows[j].end /\ rows[j].address < rows[i].address
                              /\ rows[j].line = rows[i].line /\ rows[j].file = rows[i].file
      BY <1>2, <2>2, <3>1 DEF RowsInv, EndsRepeat
    <3>3. j \in 1 .. n + 1 /\ rows'[j] = rows[j] /\ rows'[i] = rows[i]
      BY <1>2, <2>2, <3>2
    <3>4. QED
      BY <3>2, <3>3
  <2>3. CASE i = n + 1
    <3>1. end
      BY <1>2, <1>4, <2>1, <2>3
    <3>2. ~Closed /\ a > LastRow.address /\ l = LastRow.line /\ UnitPath(k) = LastRow.file
      BY <3>1 DEF Row
    <3>3. n # 0 /\ (n \in DOMAIN rows => ~rows[n].end)
      BY <3>2 DEF Closed
    <3>4. n \in 1 .. n + 1 /\ rows'[n] = rows[n] /\ LastRow = rows[n] /\ ~rows[n].end
      BY <1>2, <3>3 DEF LastRow
    <3>5. rows[n].address < a
      BY <1>2, <1>3, <3>2, <3>4
    <3>6. QED
      BY <1>2, <1>4, <2>3, <3>2, <3>4, <3>5
  <2>4. QED
    BY <1>2, <2>2, <2>3
<1>7. QED
  BY <1>5, <1>6 DEF RowsInv

LEMMA RowsStep == LoaderInv /\ RowsInv /\ [Next]_vars => RowsInv'
<1> SUFFICES ASSUME LoaderInv, RowsInv, [Next]_vars PROVE RowsInv'
  OBVIOUS
<1>1. ASSUME NEW b \in {0, 1}, UnitHeader(b) PROVE RowsInv'
  BY <1>1, RowsKept DEF UnitHeader
<1>2. ASSUME NEW d \in Dirs, IncludeDirectory(d) PROVE RowsInv'
  BY <1>2, RowsKept DEF IncludeDirectory
<1>3. CASE FileNames
  BY <1>3, RowsKept DEF FileNames
<1>4. ASSUME NEW f \in Names, NameLine(f) PROVE RowsInv'
  BY <1>4, RowsKept DEF NameLine
<1>5. ASSUME NEW d \in DirNumbers \cup {0}, DirIndexLine(d) PROVE RowsInv'
  BY <1>5, RowsKept DEF DirIndexLine
<1>6. ASSUME NEW a \in 1 .. MaxAddr, NEW l \in Lines \cup {0}, NEW k \in DOMAIN ufiles,
             NEW end \in BOOLEAN, Row(a, l, k, end)
      PROVE  RowsInv'
  <2>1. a \in Nat
    BY Bounds
  <2>2. TableTypes /\ TableTypes'
    BY LoaderStep DEF LoaderInv
  <2>3. QED
    BY <1>6, <2>1, <2>2, RowAdded
<1>7. CASE LoadEnds
  BY <1>7, RowsKept DEF LoadEnds, printed
<1>8. ASSUME NEW spec \in Specs, Break(spec) PROVE RowsInv'
  BY <1>8, RowsKept DEF Break, printed
<1>9. ASSUME NEW s \in Slides, Run(s) PROVE RowsInv'
  BY <1>9, RowsKept DEF Run, printed
<1>10. CASE UNCHANGED vars
  BY <1>10, RowsKept DEF vars, printed
<1>11. QED
  BY <1>1, <1>2, <1>3, <1>4, <1>5, <1>6, <1>7, <1>8, <1>9, <1>10 DEF Next

(* The table is in the order of its rows, and no sequence ends where it has *)
(* no code (the text lineno_load_from_dwarfdump reads).                     *)
THEOREM RowsInOrder == Spec => []RowsInv
<1>1. Init => RowsInv
  <2>1. SUFFICES ASSUME rows = <<>> PROVE RowsInv
    BY DEF Init
  <2>2. DOMAIN rows = {}
    BY <2>1, EmptySeq
  <2>3. QED
    BY <2>2 DEF RowsInv, RowsRise, EndsRepeat
<1>2. QED
  BY <1>1, RowsStep, TablesOfUnit, PTL DEF Spec
-------------------------------------------------------------------------------
(* The entry chosen of a set is the first of those with the least address. *)
LEMMA LowestLeast ==
    ASSUME NEW S, Lowest(S) # None
    PROVE  Lowest(S) \in S /\ Least(Lowest(S), S)
BY DEF Lowest

LEMMA LowestExists ==
    ASSUME TableTypes, FilesOfUnit, NEW S, S \subseteq DOMAIN entries, S # {}
    PROVE  Lowest(S) # None
<1>1. /\ \A i \in S : entries[i].address \in Nat /\ i \in Nat /\ i # None
  BY EntriesTyped DEF FilesOfUnit
<1> DEFINE A == {entries[i].address : i \in S}
<1>2. PICK a \in A : \A b \in A : a <= b
  <2>1. A \subseteq Nat /\ A # {}
    BY <1>1
  <2>2. QED
    BY <2>1, FirstExists
<1> DEFINE T == {i \in S : entries[i].address = a}
<1>3. PICK i \in T : \A j \in T : i <= j
  <2>1. T \subseteq Nat /\ T # {}
    BY <1>1, <1>2
  <2>2. QED
    BY <2>1, FirstExists
<1>4. ASSUME NEW j \in S
      PROVE  \/ entries[i].address < entries[j].address
             \/ entries[i].address = entries[j].address /\ i <= j
  <2>1. entries[i].address = a /\ a <= entries[j].address
    BY <1>2, <1>3
  <2>2. entries[j].address = a => i <= j
    BY <1>3
  <2>3. QED
    BY <1>1, <1>3, <2>1, <2>2
<1>5. i \in S /\ Least(i, S)
  BY <1>3, <1>4 DEF Least
<1> HIDE DEF A, T
<1>6. \A c \in S : c # None
  BY <1>1
<1>7. Lowest(S) \in S
  BY <1>5 DEF Lowest
<1>8. QED
  BY <1>6, <1>7

(* The entries a line of the files meant is looked for in. *)
OfLine(filter, l) ==
    {i \in DOMAIN entries : entries[i].line = l /\ (filter = Path \/ entries[i].file \in filter)}

LEMMA LineEntryLowest ==
    ASSUME NEW filter, NEW l, LineEntry(filter, l) # None
    PROVE  LineEntry(filter, l) = Lowest(OfLine(filter, l))
<1>1. CASE filter = Path
  <2>1. OfLine(filter, l) = {i \in DOMAIN entries : entries[i].line = l}
    BY <1>1 DEF OfLine
  <2>2. LineEntry(filter, l) = LookupLineUnique(l)
    BY <1>1 DEF LineEntry
  <2>3. QED
    BY <2>1, <2>2 DEF LookupLineUnique
<1>2. CASE filter # Path
  <2>1. OfLine(filter, l) =
           {i \in DOMAIN entries : entries[i].line = l /\ entries[i].file \in filter}
    BY <1>2 DEF OfLine
  <2>2. LineEntry(filter, l) = LookupLine(filter, l)
    BY <1>2 DEF LineEntry
  <2>3. QED
    BY <2>1, <2>2 DEF LookupLine
<1>3. QED
  BY <1>1, <1>2

(* What break finds for a line is an entry of that line, of the files meant,
   and no entry of them is lower. *)
LEMMA LineEntryFacts ==
    ASSUME TableTypes, FilesOfUnit, NEW filter, NEW l, LineEntry(filter, l) # None
    PROVE  /\ LineEntry(filter, l) \in DOMAIN entries
           /\ entries[LineEntry(filter, l)].line = l
           /\ entries[LineEntry(filter, l)].file \in filter
           /\ Least(LineEntry(filter, l), OfLine(filter, l))
<1> DEFINE k == LineEntry(filter, l)
<1>1. k \in OfLine(filter, l) /\ Least(k, OfLine(filter, l))
  BY LineEntryLowest, LowestLeast
<1> HIDE DEF k
<1>2. k \in DOMAIN entries /\ entries[k].line = l
      /\ (filter = Path \/ entries[k].file \in filter)
  BY <1>1 DEF OfLine
<1>3. entries[k].file \in Path
  <2>1. entries \in Seq(Entry)
    BY DEF TableTypes
  <2>2. entries[k] \in Entry
    BY <1>2, <2>1, EntriesTyped, ElementOfSeq
  <2>3. QED
    BY <2>2 DEF Entry
<1>4. QED
  BY <1>1, <1>2, <1>3 DEF k

LEMMA LineBreakShown ==
    ASSUME LoaderInv, RowsInv, SlideType, NEW filter, NEW l \in Lines,
           LineEntry(filter, l) # None
    PROVE  LET k == LineEntry(filter, l)
           IN  /\ rows[k].line = l /\ rows[k].file \in filter /\ ~rows[k].end
               /\ Alone(k) => LineAtPc(Runtime(k, slide), slide) = k
<1> DEFINE k == LineEntry(filter, l)
<1>1. TableTypes /\ FilesOfUnit /\ slide \in Nat
  BY DEF LoaderInv, SlideType
<1>2. /\ DOMAIN entries = DOMAIN rows
      /\ \A i \in DOMAIN rows : /\ entries[i].address \in Nat
                                /\ entries[i].address = rows[i].address
                                /\ entries[i].line = rows[i].line
                                /\ entries[i].file = rows[i].file
  BY <1>1, EntriesTyped DEF FilesOfUnit
<1>3. k \in DOMAIN rows /\ rows[k].line = l /\ rows[k].file \in filter
      /\ Least(k, OfLine(filter, l))
  BY <1>1, <1>2, LineEntryFacts
<1> HIDE DEF k
<1>4. ~rows[k].end
  <2>1. SUFFICES ASSUME rows[k].end PROVE FALSE
    OBVIOUS
  <2>2. PICK j \in DOMAIN rows : /\ rows[j].address < rows[k].address
                                 /\ rows[j].line = rows[k].line /\ rows[j].file = rows[k].file
    BY <1>3, <2>1 DEF RowsInv, EndsRepeat
  <2>3. j \in OfLine(filter, l)
    BY <1>2, <1>3, <2>2 DEF OfLine
  <2>4. entries[k].address <= entries[j].address
    BY <1>2, <1>3, <2>2, <2>3 DEF Least
  <2>5. QED
    BY <1>2, <1>3, <2>2, <2>4
<1>5. ASSUME Alone(k) PROVE LineAtPc(Runtime(k, slide), slide) = k
  <2> DEFINE pc == rows[k].address + slide
  <2>1. pc \in Nat /\ Runtime(k, slide) = pc
    BY <1>1, <1>2, <1>3 DEF Runtime
  <2>2. Covers(k, pc)
    <3>1. \A j \in DOMAIN rows : rows[j].address > rows[k].address => pc < rows[j].address + slide
      BY <1>1, <1>2, <1>3
    <3>2. QED
      BY <2>1, <3>1 DEF Covers
  <2>3. rows[k].line # 0
    BY <1>3, LineTableAssumption
  <2>4. pc <= rows[k].address + slide + Reach
    BY <2>1, Bounds
  <2> HIDE DEF pc
  <2>5. LineAtPc(pc, slide) = IF pc <= rows[k].address + slide + Reach THEN k ELSE None
    BY <1>1, <1>3, <1>5, <2>1, <2>2, <2>3, CoveredLine
  <2>6. QED
    BY <2>1, <2>4, <2>5
<1>6. QED
  BY <1>3, <1>4, <1>5 DEF k

(* A breakpoint on a line stands on code of that line, in a file that was   *)
(* meant, and the stop there shows that line (resolve_break_line).          *)
THEOREM LineBreaksShow == Spec => []BreakShowsItsLine
<1>1. LoaderInv /\ RowsInv /\ SlideType => BreakShowsItsLine
  BY LineBreakShown DEF BreakShowsItsLine
<1>2. QED
  BY <1>1, TablesOfUnit, RowsInOrder, SlideTyped, PTL

LEMMA LineBreakListed ==
    ASSUME LoaderInv, RowsInv, NEW filter, NEW l, LineEntry(filter, l) # None
    PROVE  LineEntry(filter, l) \in Listed(filter)
<1> DEFINE k == LineEntry(filter, l)
<1>1. TableTypes /\ FilesOfUnit
  BY DEF LoaderInv
<1>2. /\ DOMAIN entries = DOMAIN rows
      /\ \A i \in DOMAIN rows : i \in Nat /\ entries[i].address \in Nat
                                /\ entries[i].address = rows[i].address
  BY <1>1, EntriesTyped DEF FilesOfUnit
<1>3. k \in DOMAIN rows /\ entries[k].line = l /\ entries[k].file \in filter
      /\ Least(k, OfLine(filter, l))
  BY <1>1, <1>2, LineEntryFacts
<1> HIDE DEF k
<1>4. ASSUME NEW j \in DOMAIN entries, Precedes(j, k, filter),
             entries[j].file = entries[k].file, entries[j].line = entries[k].line
      PROVE  FALSE
  <2>1. j < k /\ j \in OfLine(filter, l)
    BY <1>3, <1>4 DEF Precedes, OfLine
  <2>2. entries[j].address <= entries[k].address
    BY <1>2, <1>3, <1>4, <2>1 DEF RowsInv, RowsRise
  <2>3. entries[k].address < entries[j].address \/ k <= j
    BY <1>3, <2>1 DEF Least
  <2>4. QED
    BY <1>2, <1>3, <1>4, <2>1, <2>2, <2>3
<1>5. QED
  BY <1>2, <1>3, <1>4 DEF Listed, Matched, k

(* The row lists shows for a line is the one break takes, whatever rows of  *)
(* other lines and files are folded or not (print_line_table).              *)
THEOREM LineBreaksListed == Spec => []BreakIsListed
<1>1. LoaderInv /\ RowsInv => BreakIsListed
  BY LineBreakListed DEF BreakIsListed
<1>2. QED
  BY <1>1, TablesOfUnit, RowsInOrder, PTL
-------------------------------------------------------------------------------
(* list shows the one file of a file part, that of any entry which matches. *)
LEMMA OneFileListed ==
    ASSUME NEW filter, ListFile(filter) # {}, NEW i \in DOMAIN entries,
           entries[i].file \in filter
    PROVE  ListFile(filter) = {entries[i].file}
<1> DEFINE S == {entries[j].file : j \in {j \in DOMAIN entries : entries[j].file \in filter}}
<1>1. ListFile(filter) = IF \E f, g \in S : f # g THEN {} ELSE S
  BY DEF ListFile
<1>2. entries[i].file \in S
  OBVIOUS
<1> HIDE DEF S
<1>3. \A f, g \in S : f = g
  BY <1>1
<1>4. ListFile(filter) = S
  BY <1>1, <1>3
<1>5. QED
  BY <1>2, <1>3, <1>4

(* Behind a pc break looks in the file of the line shown at the pc. *)
LEMMA NextLineSameFile ==
    ASSUME NEW pc, NEW s, NextLineAfterPc(pc, s) # None, LineAtPc(pc, s) # None
    PROVE  /\ NextLineAfterPc(pc, s) \in DOMAIN entries
           /\ LineAtPc(pc, s) \in DOMAIN entries
           /\ entries[NextLineAfterPc(pc, s)].file = entries[LineAtPc(pc, s)].file
<1>1. LineAtPc(pc, s) = LookupPc(pc, s)
  BY DEF LineAtPc
<1>2. NextLineAfterPc(pc, s) \in OtherLinesAfter(pc, s)
  <2>1. NextLineAfterPc(pc, s) = Lowest(OtherLinesAfter(pc, s))
    BY DEF NextLineAfterPc
  <2>2. QED
    BY <2>1, LowestLeast
<1>3. LookupPc(pc, s) \in DOMAIN entries
  <2>1. LookupPc(pc, s) # None
    BY <1>1
  <2>2. LookupPc(pc, s) \in Below(pc, s)
    BY <2>1 DEF LookupPc
  <2>3. QED
    BY <2>2 DEF Below
<1>4. QED
  BY <1>1, <1>2, <1>3 DEF OtherLinesAfter

LEMMA FileType ==
    ASSUME TableTypes, NEW i \in DOMAIN entries
    PROVE  entries[i].file \in Path
<1>1. entries \in Seq(Entry) /\ DOMAIN entries = 1 .. Len(entries)
  BY LenProperties DEF TableTypes
<1>2. entries[i] \in Entry
  BY <1>1, ElementOfSeq
<1>3. QED
  BY <1>2 DEF Entry

LEMMA MatchesItself ==
    ASSUME NEW path \in Path
    PROVE  path \in Matching(path)
BY DEF Matching

LEMMA FunctionListed ==
    ASSUME TableTypes, NEW k, NEW s, SymNamed(Syms[k].name) = k,
           ListFunction(Syms[k].name, s) # {},
           NextLineAfterPc(Syms[k].address + s, s) # None
    PROVE  ListFunction(Syms[k].name, s) =
               {entries[NextLineAfterPc(Syms[k].address + s, s)].file}
<1> DEFINE pc == Syms[k].address + s
           i == LineAtPc(pc, s)
           j == NextLineAfterPc(pc, s)
<1>1. /\ i # None
      /\ ListFunction(Syms[k].name, s) = ListFile(Matching(entries[i].file))
  BY DEF ListFunction
<1>2. i \in DOMAIN entries /\ j \in DOMAIN entries /\ entries[j].file = entries[i].file
  BY <1>1, NextLineSameFile
<1> HIDE DEF i, j
<1>3. entries[i].file \in Path
  BY <1>2, FileType
<1>4. entries[i].file \in Matching(entries[i].file)
  BY <1>3, MatchesItself
<1>5. ListFile(Matching(entries[i].file)) # {}
  BY <1>1
<1>6. ListFile(Matching(entries[i].file)) = {entries[i].file}
  BY <1>2, <1>4, <1>5, OneFileListed
<1>7. QED
  BY <1>1, <1>2, <1>6 DEF i, j

(* list and break take a file part, or a function, for the same file        *)
(* (cdbg_lineno_print_source_at_line, resolve_break_line, cmd_list).        *)
THEOREM ListsAgree == Spec => []BreakListAgree
<1>1. LoaderInv => BreakListAgree
  <2>1. SUFFICES ASSUME LoaderInv PROVE BreakListAgree
    OBVIOUS
  <2>2. TableTypes /\ FilesOfUnit
    BY <2>1 DEF LoaderInv
  <2>3. ASSUME NEW filter \in Filters, NEW l \in Lines,
               LineEntry(filter, l) # None, ListFile(filter) # {}
        PROVE  ListFile(filter) = {entries[LineEntry(filter, l)].file}
    <3>1. LineEntry(filter, l) \in DOMAIN entries /\ entries[LineEntry(filter, l)].file \in filter
      BY <2>2, <2>3, LineEntryFacts
    <3>2. QED
      BY <2>3, <3>1, OneFileListed
  <2>4. QED
    BY <2>2, <2>3, FunctionListed DEF BreakListAgree
<1>2. QED
  BY <1>1, TablesOfUnit, PTL
-------------------------------------------------------------------------------
(* The function a pc is in: the symbol below it, if nothing is between. *)
LEMMA SymbolShown ==
    ASSUME NEW k \in DOMAIN Syms, Defined(k), NEW s \in Nat, NEW pc \in Nat,
           Syms[k].address + s <= pc, pc <= Syms[k].address + s + SymReach,
           \A m \in DOMAIN Syms : \/ m = k \/ Syms[m].address < Syms[k].address
                                  \/ pc < Syms[m].address + s
    PROVE  SymAtPc(pc, s) = k
<1> DEFINE S == {i \in DOMAIN Syms : /\ Syms[i].address # 0 /\ Syms[i].type \in {"T", "t"}
                                     /\ Syms[i].address + s <= pc}
           P(i) == \A j \in S : \/ Syms[j].address < Syms[i].address
                                \/ Syms[j].address = Syms[i].address /\ i <= j
           best == CHOOSE i \in S : P(i)
<1>1. \A i \in DOMAIN Syms : i \in Nat /\ Syms[i].address \in Nat /\ Syms[i].type \in {"T", "t", "U"}
  <2>1. DOMAIN Syms = 1 .. Len(Syms)
    BY SymbolType, LenProperties
  <2>2. \A i \in DOMAIN Syms : Syms[i] \in Symbol
    BY <2>1, SymbolType, ElementOfSeq
  <2>3. QED
    BY <2>1, <2>2 DEF Symbol
<1>2. k \in S
  BY <1>1 DEF Defined
<1>3. \A j \in S : j = k \/ Syms[j].address < Syms[k].address
  BY <1>1
<1>4. P(k)
  BY <1>1, <1>3
<1>5. \A i \in S : P(i) => i = k
  <2>1. SUFFICES ASSUME NEW i \in S, P(i), i # k PROVE FALSE
    OBVIOUS
  <2>2. Syms[i].address < Syms[k].address
    BY <1>3, <2>1
  <2>3. Syms[k].address <= Syms[i].address
    BY <1>1, <1>2, <2>1
  <2>4. Syms[i].address \in Nat /\ Syms[k].address \in Nat
    BY <1>1
  <2>5. QED
    BY <2>2, <2>3, <2>4
<1>6. SymAtPc(pc, s) = IF S = {} THEN None
                       ELSE IF pc > Syms[best].address + s + SymReach THEN None ELSE best
  BY DEF SymAtPc
<1> HIDE DEF S, P
<1>7. best = k
  BY <1>2, <1>4, <1>5
<1> HIDE DEF best
<1>8. S # {} /\ ~ (pc > Syms[k].address + s + SymReach)
  <2>1. SymReach \in Nat
    BY LineTableAssumption, Zenon
  <2>2. Syms[k].address \in Nat
    BY <1>1
  <2>3. QED
    BY <1>2, <2>1, <2>2
<1>9. QED
  BY <1>6, <1>7, <1>8
(* The entry shown for the address of an entry is one at that address. *)
LEMMA ShownThere ==
    ASSUME TableTypes, FilesOfUnit, NEW s \in Nat, NEW n \in DOMAIN entries,
           LineAtPc(Runtime(n, s), s) # None
    PROVE  /\ LineAtPc(Runtime(n, s), s) \in DOMAIN entries
           /\ entries[LineAtPc(Runtime(n, s), s)].address = entries[n].address
<1> DEFINE pc == Runtime(n, s)
           t == LookupPc(pc, s)
<1>1. \A i \in DOMAIN entries : entries[i].address \in Nat
  BY EntriesTyped
<1>2. LineAtPc(pc, s) = t /\ t # None
  BY DEF LineAtPc
<1>3. t \in Below(pc, s) /\ Greatest(t, Below(pc, s))
  BY <1>2 DEF LookupPc
<1>4. n \in Below(pc, s)
  BY <1>1 DEF Below, Runtime
<1> HIDE DEF t
<1>5. entries[n].address <= entries[t].address /\ t \in DOMAIN entries
  BY <1>1, <1>3, <1>4 DEF Greatest, Below
<1>6. entries[t].address + s <= entries[n].address + s
  BY <1>3 DEF Below, Runtime
<1>7. entries[t].address = entries[n].address
  BY <1>1, <1>5, <1>6
<1>8. QED
  BY <1>2, <1>5, <1>7

(* The body of a function of two lines: an entry behind its first address,
   before the next symbol, of another line than the function begins with. *)
LEMMA BodyEntry ==
    ASSUME TableTypes, FilesOfUnit, SlideType, NEW k \in DOMAIN Syms,
           Syms[k].address \in Nat, NEW i \in DOMAIN rows, NEW j \in DOMAIN rows,
           rows[i].address = Syms[k].address, Alone(i),
           rows[j].address > Syms[k].address,
           rows[j].file = rows[i].file, rows[j].line # rows[i].line
    PROVE  LET start == Syms[k].address + slide
               n == NextLineAfterPc(start, slide)
           IN  /\ LookupPc(start, slide) = i
               /\ n # None /\ n \in DOMAIN rows
               /\ Syms[k].address < rows[n].address /\ rows[n].address <= rows[j].address
               /\ entries[n].line # entries[i].line
               /\ BodyAddr(k, slide) = Runtime(n, slide)
<1> DEFINE start == Syms[k].address + slide
           n == NextLineAfterPc(start, slide)
           S == OtherLinesAfter(start, slide)
<1>1. slide \in Nat /\ start \in Nat
  BY DEF SlideType
<1>2. /\ DOMAIN entries = DOMAIN rows /\ i # None
      /\ \A m \in DOMAIN rows : /\ entries[m].address \in Nat
                                /\ entries[m].address = rows[m].address
                                /\ entries[m].line = rows[m].line
                                /\ entries[m].file = rows[m].file
  BY EntriesTyped DEF FilesOfUnit
<1>3. LookupPc(start, slide) = i
  <2>1. Covers(i, start)
    BY <1>1, <1>2 DEF Covers
  <2> HIDE DEF start
  <2>2. QED
    BY <1>1, <2>1, CoveringRowFound
<1>4. n = Lowest(S)
  BY <1>2, <1>3 DEF NextLineAfterPc
<1>5. S = {m \in DOMAIN entries : /\ start < Runtime(m, slide)
                                  /\ entries[m].file = entries[i].file
                                  /\ entries[m].line # entries[i].line}
  BY <1>3 DEF OtherLinesAfter
<1>6. j \in S
  BY <1>1, <1>2, <1>5 DEF Runtime
<1>7. S \subseteq DOMAIN entries
  BY <1>5
<1> HIDE DEF S
<1>8. n # None
  BY <1>4, <1>6, <1>7, LowestExists
<1>9. n \in S /\ Least(n, S)
  BY <1>4, <1>8, LowestLeast
<1> HIDE DEF n
<1>10. entries[n].address <= entries[j].address
  BY <1>2, <1>6, <1>7, <1>9 DEF Least
<1>11. n \in DOMAIN entries /\ start < Runtime(n, slide) /\ entries[n].line # entries[i].line
  BY <1>5, <1>9
<1>12. Syms[k].address < entries[n].address
  BY <1>1, <1>2, <1>11 DEF Runtime
<1>13. BodyAddr(k, slide) = Runtime(n, slide)
  BY <1>8 DEF BodyAddr, n
<1>14. QED
  BY <1>2, <1>3, <1>8, <1>10, <1>11, <1>12, <1>13 DEF n

LEMMA BodyShown ==
    ASSUME LoaderInv, SlideType, NEW k \in DOMAIN Syms, Defined(k),
           SymNamed(Syms[k].name) = k, TwoLines(k)
    PROVE  LET a == BodyAddr(k, slide)
               there == FrameShown(a, slide)
               first == FrameShown(Syms[k].address + slide, slide)
           IN  /\ a > Syms[k].address + slide
               /\ there[1] = k /\ first[1] = k
               /\ there[2] # None /\ first[2] # None /\ Alone(there[2]) =>
                      entries[there[2]].line # entries[first[2]].line
               /\ Syms[k].name = "main" => EntryStopAddr(slide) = a
<1> DEFINE start == Syms[k].address + slide
           a == BodyAddr(k, slide)
           n == NextLineAfterPc(start, slide)
<1>1. TableTypes /\ FilesOfUnit /\ slide \in Nat
  BY DEF LoaderInv, SlideType
<1>2. /\ DOMAIN entries = DOMAIN rows
      /\ \A m \in DOMAIN rows : /\ entries[m].address \in Nat
                                /\ entries[m].address = rows[m].address
  BY <1>1, EntriesTyped DEF FilesOfUnit
<1>3. Syms[k].address \in Nat /\ k # None
  BY SymbolFound DEF Defined
<1>4. PICK i \in DOMAIN rows, j \in DOMAIN rows :
          /\ rows[i].address = Syms[k].address /\ Alone(i)
          /\ rows[j].address > Syms[k].address
          /\ rows[j].file = rows[i].file /\ rows[j].line # rows[i].line
          /\ rows[j].address <= Syms[k].address + SymReach
          /\ \A m \in DOMAIN Syms : \/ m = k \/ Syms[m].address < Syms[k].address
                                    \/ rows[j].address < Syms[m].address
  BY DEF TwoLines
<1>5. /\ LookupPc(start, slide) = i
      /\ n # None /\ n \in DOMAIN rows
      /\ Syms[k].address < rows[n].address /\ rows[n].address <= rows[j].address
      /\ entries[n].line # entries[i].line
      /\ a = Runtime(n, slide)
  BY <1>1, <1>3, <1>4, BodyEntry
<1>6. start \in Nat /\ a = rows[n].address + slide /\ a \in Nat
  BY <1>1, <1>2, <1>3, <1>5 DEF Runtime
<1>7. \A m \in DOMAIN Syms : Syms[m].address \in Nat
  <2>1. DOMAIN Syms = 1 .. Len(Syms)
    BY SymbolType, LenProperties
  <2>2. \A m \in DOMAIN Syms : Syms[m] \in Symbol
    BY <2>1, SymbolType, ElementOfSeq
  <2>3. QED
    BY <2>2 DEF Symbol
<1>8. SymReach \in Nat
  BY LineTableAssumption, Zenon
<1>9. start < a /\ a <= start + SymReach
  BY <1>1, <1>2, <1>3, <1>4, <1>5, <1>6, <1>8
<1>10. \A m \in DOMAIN Syms : \/ m = k \/ Syms[m].address < Syms[k].address
                              \/ start < Syms[m].address + slide /\ a < Syms[m].address + slide
  <2>1. SUFFICES ASSUME NEW m \in DOMAIN Syms, rows[j].address < Syms[m].address
                 PROVE  start < Syms[m].address + slide /\ a < Syms[m].address + slide
    BY <1>4
  <2>2. rows[n].address < Syms[m].address /\ Syms[k].address < Syms[m].address
    BY <1>2, <1>3, <1>4, <1>5, <1>7, <2>1
  <2>3. QED
    BY <1>1, <1>2, <1>3, <1>5, <1>6, <1>7, <2>2
<1>11. SymAtPc(start, slide) = k
  <2>1. start <= start + SymReach /\ start <= start
    BY <1>6, <1>8
  <2>2. QED
    BY <1>1, <1>6, <1>10, <2>1, SymbolShown
<1>12. SymAtPc(a, slide) = k
  <2>1. start <= a
    BY <1>6, <1>9
  <2>2. QED
    BY <1>1, <1>6, <1>9, <1>10, <2>1, SymbolShown
<1>13. ASSUME LineAtPc(a, slide) # None, LineAtPc(start, slide) # None,
              Alone(LineAtPc(a, slide))
       PROVE  entries[LineAtPc(a, slide)].line # entries[LineAtPc(start, slide)].line
  <2>1. LineAtPc(start, slide) = i
    BY <1>5, <1>13 DEF LineAtPc
  <2>2. LineAtPc(a, slide) \in DOMAIN entries
        /\ entries[LineAtPc(a, slide)].address = entries[n].address
    BY <1>1, <1>2, <1>5, <1>13, ShownThere
  <2>3. LineAtPc(a, slide) = n
    BY <1>2, <1>5, <1>13, <2>2 DEF Alone
  <2>4. QED
    BY <1>5, <2>1, <2>3
<1>14. Syms[k].name = "main" => EntryStopAddr(slide) = a
  BY <1>5 DEF EntryStopAddr
<1> HIDE DEF a, start
<1>15. /\ FrameShown(a, slide)[1] = k /\ FrameShown(start, slide)[1] = k
       /\ FrameShown(a, slide)[2] = LineAtPc(a, slide)
       /\ FrameShown(start, slide)[2] = LineAtPc(start, slide)
  BY <1>11, <1>12 DEF FrameShown
<1>16. a > start
  BY <1>6, <1>9
<1>17. QED
  BY <1>13, <1>14, <1>15, <1>16 DEF a, start

(* break f, and the first stop in main, are in the function and behind its  *)
(* first line (cmd_break, resolve_entry_stop_addr, print_backtrace_frame).  *)
THEOREM FunctionsEntered == Spec => []FunctionEntered
<1>1. LoaderInv /\ SlideType => FunctionEntered
  <2>1. SUFFICES ASSUME LoaderInv, SlideType, NEW k \in DOMAIN Syms,
                        Defined(k), SymNamed(Syms[k].name) = k, TwoLines(k)
                 PROVE  LET a == BodyAddr(k, slide)
                            there == FrameShown(a, slide)
                            first == FrameShown(DisAddr([kind |-> "fn", name |-> Syms[k].name],
                                                        slide), slide)
                        IN  /\ a > Syms[k].address + slide
                            /\ there[1] = k /\ first[1] = k
                            /\ there[2] # None /\ first[2] # None /\ Alone(there[2]) =>
                                   entries[there[2]].line # entries[first[2]].line
                            /\ Syms[k].name = "main" => EntryStopAddr(slide) = a
    BY DEF FunctionEntered
  <2>2. DisAddr([kind |-> "fn", name |-> Syms[k].name], slide) = Syms[k].address + slide
    BY <2>1 DEF DisAddr
  <2>3. QED
    BY <2>1, <2>2, BodyShown
<1>2. QED
  BY <1>1, TablesOfUnit, SlideTyped, PTL
===============================================================================
