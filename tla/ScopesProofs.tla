----------------------------- MODULE ScopesProofs -----------------------------
(***************************************************************************)
(* Proofs about Scopes: in every text a printer may write, whatever its    *)
(* functions, blocks, parameters and variables, print finds the variable C *)
(* sees at an address, and show means the same one.                        *)
(***************************************************************************)
EXTENDS Scopes, SequenceTheorems, FiniteSetTheorems, WellFoundedInduction, TLAPS

(* Where the next function begins. *)
Frontier == CodeStart[Cardinality(Functions) + 1]

(* A parameter or a variable.                                                *)
IsVariable(d) == d.tag \in {"param", "var"}

(* An entry follows on the one before it: it is indented only behind a       *)
(* function's entry or an indented one, back at the margin only behind a     *)
(* NULL or another at the margin, a parameter stands before all else, and a  *)
(* variable follows on its scope's entry or on another variable of the scope.*)
Follows(d, c) ==
    /\ c.depth >= 2 => d.depth >= 2 \/ d.tag = "sub"
    /\ c.depth = 1 => d.depth = 1 \/ d.tag = "null"
    /\ c.tag = "param" => d.tag \in {"sub", "param"}
    /\ IsVariable(c) /\ c.depth >= 2 =>
         \/ d.tag \in {"sub", "block"} /\ c.home = [low |-> d.low, high |-> d.high]
         \/ IsVariable(d) /\ d.depth >= 2 /\ c.home = d.home

(* Functions are not indented; blocks, parameters and variables on the stack *)
(* are.                                                                      *)
Shaped(d) ==
    /\ d.depth >= 1
    /\ d.tag = "sub" => d.depth = 1
    /\ d.tag \in {"param", "block"} \/ d.loc = "fbreg" => d.depth >= 2

(* The text: every entry has a shape and follows on the one before.          *)
TextOK ==
    /\ \A i \in DOMAIN dies : Shaped(dies[i]) /\ dies[i].home.high <= Frontier
    /\ dies # <<>> => dies[1].depth = 1
    /\ \A i \in 2 .. Len(dies) : Follows(dies[i - 1], dies[i])

(* Entry i is of the function whose entry f is. *)
FunctionOf(f, i) ==
    f \in 1 .. i /\ dies[f].tag = "sub" /\ \A j \in f + 1 .. i : dies[j].depth >= 2

(* Range b lies within range f.                                              *)
Within(b, f) == f.low >= 1 /\ f.low <= b.low /\ b.high <= f.high

(* A block lies within its function.                                         *)
BlocksWithin ==
    \A i \in DOMAIN dies : dies[i].tag = "block" =>
        \A f \in 1 .. i : FunctionOf(f, i) => Within(dies[i], dies[f])

(* The variables before a parameter are of code that ends where the          *)
(* parameter's function begins.                                              *)
ParamsFirst ==
    \A i, j \in DOMAIN dies :
        i < j /\ dies[i].tag = "var" /\ dies[i].loc = "fbreg" /\ dies[j].tag = "param"
            => dies[i].home.high <= dies[j].home.low

(* The scopes that are open: the outermost is the function the last entry is *)
(* of, all others lie within it and have children.                           *)
OpenOK ==
    /\ \A i \in DOMAIN open :
         /\ Within(open[i], open[1]) /\ open[i].low <= open[i].free /\ open[i].high <= Frontier
         /\ i < Len(open) => open[i].kids = "blocks"
    /\ open # <<>> =>
         \E f \in DOMAIN dies : FunctionOf(f, Len(dies)) /\ dies[f].low = open[1].low
                                                         /\ dies[f].high = open[1].high

(* The last entry, by what is printed of the innermost scope: what the next  *)
(* entry follows on.                                                         *)
LastOK ==
    LET last == dies[Len(dies)]
    IN  /\ open = <<>> /\ dies # <<>> => last.depth = 1 \/ last.tag = "null"
        /\ open # <<>> =>
             /\ Inner.kids = "no" => last.tag = IF Len(open) = 1 THEN "sub" ELSE "block"
             /\ Inner.kids # "blocks" =>
                  \/ last.tag \in {"sub", "block"} /\ Home = [low |-> last.low, high |-> last.high]
                  \/ IsVariable(last) /\ last.depth >= 2 /\ last.home = Home
             /\ Inner.kids \in {"no", "params"} /\ Len(open) = 1 =>
                  /\ last.tag \in {"sub", "param"}
                  /\ \A i \in DOMAIN dies : dies[i].tag = "var" /\ dies[i].loc = "fbreg" =>
                       dies[i].home.high <= Inner.low

(* No more functions than there is code for.                                 *)
CodeLeft == Cardinality(Functions) <= Len(FuncSizes)

(* The inductive invariant.                                                  *)
ScopesInv == ScopesTypeOK /\ CodeLeft /\ TextOK /\ BlocksWithin /\ ParamsFirst /\ OpenOK /\ LastOK
-------------------------------------------------------------------------------
(* Smaller on the natural numbers, as a relation.                            *)
LessThan == OpToRel(<, Nat)

(* A set of numbers that is not empty has a first one. *)
LEMMA FirstExists ==
    ASSUME NEW S, S \subseteq Nat, S # {}
    PROVE  \E i \in S : \A j \in S : i <= j
<1>1. IsWellFoundedOn(LessThan, Nat)
  BY NatLessThanWellFounded, Zenon DEF LessThan
<1>2. PICK i \in S : \A j \in S : ~ (<<j, i>> \in LessThan)
  BY <1>1, WFMin
<1>3. \A m, n \in Nat : m < n => <<m, n>> \in LessThan
  BY DEF LessThan, OpToRel
<1>4. ASSUME NEW j \in S PROVE i <= j
  <2>1. ~ (j < i)
    BY <1>2, <1>3
  <2>2. QED
    BY <2>1
<1>5. QED
  BY <1>4

(* What holds at a number and goes on from each to the next holds up to the  *)
(* end: the induction over the entries of a text.                            *)
LEMMA GoesOn ==
    ASSUME NEW a \in Nat, NEW n \in Nat, NEW S, a \in S,
           \A i \in a + 1 .. n : i - 1 \in S => i \in S
    PROVE  \A i \in a .. n : i \in S
<1> DEFINE Bad == {i \in a .. n : i \notin S}
<1>1. SUFFICES ASSUME Bad # {} PROVE FALSE
  OBVIOUS
<1>2. Bad \subseteq Nat
  OBVIOUS
<1> HIDE DEF Bad
<1>3. PICK m \in Bad : \A j \in Bad : m <= j
  BY <1>1, <1>2, FirstExists
<1> USE DEF Bad
<1>4. m \in a + 1 .. n /\ m - 1 \in a .. n /\ ~ (m <= m - 1)
  BY <1>3
<1>5. m - 1 \in S
  BY <1>3, <1>4
<1>6. QED
  BY <1>3, <1>4, <1>5

(* The states a reader goes through: "step" is what one entry does to one.   *)
Steps(step, n, S) == \A i \in 1 .. n : \A s \in S : step[<<i, s>>] \in S
Reading(f, n, S, first, step) ==
    f \in [0 .. n -> S] /\ f[0] = first /\ \A i \in 1 .. n : f[i] = step[<<i, f[i - 1]>>]

(* A reader that keeps to its states has read any number of entries: the     *)
(* recursive functions of the model exist.                                   *)
LEMMA ReadingExists ==
    ASSUME NEW n \in Nat, NEW S, NEW first \in S, NEW step, Steps(step, n, S)
    PROVE  \E f : Reading(f, n, S, first, step)
<1> USE DEF Steps, Reading
<1> DEFINE Runs(m, f) == f[0] = first /\ \A i \in 1 .. m : f[i] = step[<<i, f[i - 1]>>]
           Good == {m \in 0 .. n : \E f \in [0 .. m -> S] : Runs(m, f)}
<1>1. 0 \in Good
  <2> DEFINE f == [i \in 0 .. 0 |-> first]
  <2>1. f \in [0 .. 0 -> S] /\ f[0] = first /\ 0 \in 0 .. n /\ 1 .. 0 = {}
    OBVIOUS
  <2> HIDE DEF f
  <2>2. QED
    BY <2>1
<1>2. ASSUME NEW m \in 0 + 1 .. n, m - 1 \in Good PROVE m \in Good
  <2>1. PICK g \in [0 .. m - 1 -> S] : Runs(m - 1, g)
    BY <1>2
  <2>2. m \in 1 .. n /\ m - 1 \in 0 .. m - 1 /\ m \in 0 .. n
    OBVIOUS
  <2> DEFINE f == [i \in 0 .. m |-> IF i = m THEN step[<<m, g[m - 1]>>] ELSE g[i]]
  <2>3. step[<<m, g[m - 1]>>] \in S
    BY <2>2
  <2>4. f \in [0 .. m -> S] /\ f[m] = step[<<m, g[m - 1]>>] /\ \A i \in 0 .. m - 1 : f[i] = g[i]
    BY <2>3
  <2> HIDE DEF f
  <2>5. f[0] = first
    BY <2>1, <2>2, <2>4
  <2>6. ASSUME NEW i \in 1 .. m PROVE f[i] = step[<<i, f[i - 1]>>]
    <3>1. CASE i = m
      BY <2>2, <2>4, <3>1
    <3>2. CASE i # m
      <4>1. i - 1 \in 0 .. m - 1 /\ i \in 0 .. m - 1 /\ i \in 1 .. m - 1
        BY <3>2
      <4>2. QED
        BY <2>1, <2>4, <4>1
    <3>3. QED
      BY <3>1, <3>2
  <2>7. QED
    BY <2>2, <2>4, <2>5, <2>6
<1> HIDE DEF Good
<1>3. \A m \in 0 .. n : m \in Good
  BY <1>1, <1>2, GoesOn
<1>4. PICK f \in [0 .. n -> S] : Runs(n, f)
  BY <1>3 DEF Good
<1>5. QED
  BY <1>4
-------------------------------------------------------------------------------
(* Where the functions begin: each behind the one before, from 1 up.         *)
LEMMA StartsExist ==
    /\ CodeStart[1] = 1
    /\ \A k \in 2 .. Len(FuncSizes) + 1 : CodeStart[k] = CodeStart[k - 1] + FuncSizes[k - 1]
<1> DEFINE N == Len(FuncSizes)
           F(f) == [k \in 1 .. N + 1 |-> IF k = 1 THEN 1 ELSE f[k - 1] + FuncSizes[k - 1]]
           step == [p \in (1 .. N) \X Nat |-> p[2] + FuncSizes[p[1]]]
<1>1. N \in Nat /\ \A k \in 1 .. N : FuncSizes[k] \in Nat
  BY ScopesAssumption
<1>2. Steps(step, N, Nat)
  BY <1>1 DEF Steps
<1>3. PICK g : Reading(g, N, Nat, 1, step)
  <2> HIDE DEF step, N
  <2>1. QED
    BY <1>1, <1>2, ReadingExists
<1> USE DEF Reading
<1> DEFINE f == [k \in 1 .. N + 1 |-> g[k - 1]]
<1>4. ASSUME NEW k \in 1 .. N + 1
      PROVE  f[k] = IF k = 1 THEN 1 ELSE f[k - 1] + FuncSizes[k - 1]
  <2>1. CASE k = 1
    BY <1>1, <1>3, <2>1
  <2>2. CASE k # 1
    <3>1. k - 1 \in 1 .. N /\ k - 1 \in 0 .. N /\ k - 1 # 0 /\ k - 1 \in 1 .. N + 1
          /\ (k - 1) - 1 \in 0 .. N
      BY <1>1, <2>2
    <3>2. g[k - 1] = step[<<k - 1, g[(k - 1) - 1]>>]
      BY <1>3, <3>1
    <3>3. <<k - 1, g[(k - 1) - 1]>> \in (1 .. N) \X Nat
      BY <1>3, <3>1
    <3>4. step[<<k - 1, g[(k - 1) - 1]>>] = g[(k - 1) - 1] + FuncSizes[k - 1]
      BY <3>3
    <3>5. f[k] = g[k - 1] /\ f[k - 1] = g[(k - 1) - 1]
      BY <3>1
    <3>6. QED
      BY <2>2, <3>2, <3>4, <3>5
  <2>3. QED
    BY <2>1, <2>2
<1>5. f = [k \in 1 .. N + 1 |-> f[k]]
  OBVIOUS
<1> HIDE DEF f
<1>6. f = F(f)
  BY <1>4, <1>5
<1>7. CodeStart = CHOOSE h : h = F(h)
  BY DEF CodeStart
<1>8. CodeStart = F(CodeStart)
  BY <1>6, <1>7
<1>9. QED
  BY <1>1, <1>8

(* Every function has an address, and the next one lies behind it.           *)
LEMMA Starts ==
    /\ \A k \in 1 .. Len(FuncSizes) + 1 : CodeStart[k] \in Nat /\ CodeStart[k] >= 1
    /\ \A k \in 1 .. Len(FuncSizes) : CodeStart[k] < CodeStart[k + 1]
<1> DEFINE N == Len(FuncSizes)
           S == {k \in 1 .. N + 1 : CodeStart[k] \in Nat /\ CodeStart[k] >= 1}
<1>1. N \in Nat /\ \A k \in 1 .. N : FuncSizes[k] \in Nat /\ FuncSizes[k] >= 1
  BY ScopesAssumption
<1>2. 1 \in S
  BY <1>1, StartsExist
<1>3. ASSUME NEW k \in 1 + 1 .. N + 1, k - 1 \in S PROVE k \in S
  <2>1. k \in 2 .. N + 1 /\ k - 1 \in 1 .. N /\ k \in 1 .. N + 1
    BY <1>1
  <2>2. CodeStart[k] = CodeStart[k - 1] + FuncSizes[k - 1]
    BY <2>1, StartsExist
  <2>3. QED
    BY <1>1, <1>3, <2>1, <2>2
<1>4. \A k \in 1 .. N + 1 : k \in S
  <2> HIDE DEF S
  <2>1. N + 1 \in Nat /\ 1 \in Nat
    BY <1>1
  <2> HIDE DEF N
  <2>2. QED
    BY <1>2, <1>3, <2>1, GoesOn
<1>5. ASSUME NEW k \in 1 .. N PROVE CodeStart[k] < CodeStart[k + 1]
  <2>1. k + 1 \in 2 .. N + 1 /\ (k + 1) - 1 = k /\ k \in 1 .. N + 1
    BY <1>1
  <2>2. CodeStart[k + 1] = CodeStart[k] + FuncSizes[k]
    BY <2>1, StartsExist
  <2>3. QED
    BY <1>1, <1>4, <2>1, <2>2
<1>6. QED
  BY <1>4, <1>5
-------------------------------------------------------------------------------
(* The states of find_local_var and of collect_show_vars.                    *)
ReaderState == [in : BOOLEAN, depth : Nat, matches : BOOLEAN]
ShowState == [in : BOOLEAN, depth : Nat, matches : BOOLEAN, block : BOOLEAN, inblock : BOOLEAN]

(* The entries are a sequence of entries.                                    *)
LEMMA DieTypes ==
    ASSUME ScopesTypeOK
    PROVE  /\ Len(dies) \in Nat /\ DOMAIN dies = 1 .. Len(dies)
           /\ \A i \in 1 .. Len(dies) : dies[i] \in Dies
BY LenProperties, ElementOfSeq DEF ScopesTypeOK

(* One entry takes find_local_var from one of its states to another.         *)
LEMMA EnterTyped ==
    ASSUME NEW s \in ReaderState, NEW d \in Dies, NEW pc \in Nat
    PROVE  Enter(s, d, pc) \in ReaderState
<1>1. InRange(pc, d) \in BOOLEAN /\ d.depth \in Nat
  BY DEF InRange, Dies
<1>2. QED
  BY <1>1 DEF Enter, ReaderState

(* The same of collect_show_vars.                                            *)
LEMMA EnterShownTyped ==
    ASSUME NEW s \in ShowState, NEW d \in Dies, NEW pc \in Nat
    PROVE  EnterShown(s, d, pc) \in ShowState
<1>1. InRange(pc, d) \in BOOLEAN /\ d.depth \in Nat
  BY DEF InRange, Dies
<1>2. QED
  BY <1>1 DEF EnterShown, ShowState, ShowOutside

(* What find_local_var knows behind each entry follows from what it knew     *)
(* before it.                                                                *)
LEMMA LocalReading ==
    ASSUME ScopesTypeOK, NEW pc \in Nat
    PROVE  LET s == LocalStates(pc)
           IN  s[0] = Outside
               /\ \A i \in 1 .. Len(dies) : /\ s[i - 1] \in ReaderState /\ s[i] \in ReaderState
                                            /\ s[i] = Enter(s[i - 1], dies[i], pc)
<1> DEFINE n == Len(dies)
           step == [p \in (1 .. n) \X ReaderState |-> Enter(p[2], dies[p[1]], pc)]
           F(f) == [i \in 0 .. n |-> IF i = 0 THEN Outside ELSE Enter(f[i - 1], dies[i], pc)]
<1>1. n \in Nat /\ \A i \in 1 .. n : dies[i] \in Dies
  BY DieTypes
<1>2. ASSUME NEW i \in 1 .. n, NEW s \in ReaderState
      PROVE  step[<<i, s>>] = Enter(s, dies[i], pc) /\ Enter(s, dies[i], pc) \in ReaderState
  BY <1>1, EnterTyped
<1>3. Outside \in ReaderState
  BY DEF Outside, ReaderState
<1>4. PICK g : Reading(g, n, ReaderState, Outside, step)
  <2>1. Steps(step, n, ReaderState)
    BY <1>2 DEF Steps
  <2> HIDE DEF n, step
  <2>2. QED
    BY <1>1, <1>3, <2>1, ReadingExists
<1> HIDE DEF step
<1>5. ASSUME NEW i \in 1 .. n
      PROVE  g[i - 1] \in ReaderState /\ g[i] \in ReaderState /\ g[i] = Enter(g[i - 1], dies[i], pc)
  <2>1. i - 1 \in 0 .. n /\ i \in 0 .. n
    BY <1>1
  <2>2. g[i - 1] \in ReaderState /\ g[i] \in ReaderState /\ g[i] = step[<<i, g[i - 1]>>]
    BY <1>4, <2>1 DEF Reading
  <2>3. QED
    BY <1>2, <2>2
<1>6. g = F(g)
  <2>1. g = [i \in 0 .. n |-> g[i]] /\ g[0] = Outside
    BY <1>4 DEF Reading
  <2>2. \A i \in 0 .. n : g[i] = IF i = 0 THEN Outside ELSE Enter(g[i - 1], dies[i], pc)
    BY <1>1, <1>5, <2>1
  <2>3. QED
    BY <2>1, <2>2
<1>7. \E f : f = F(f)
  BY <1>6
<1> DEFINE s == CHOOSE f : f = F(f)
<1>8. s = F(s)
  BY <1>7
<1>9. LocalStates(pc) = s
  BY DEF LocalStates
<1> HIDE DEF s
<1>10. s[0] = Outside /\ \A i \in 1 .. n : s[i] = Enter(s[i - 1], dies[i], pc)
  BY <1>1, <1>8
<1> DEFINE Typed == {i \in 0 .. n : s[i] \in ReaderState}
<1>11. 0 \in Typed
  BY <1>1, <1>3, <1>10
<1>12. ASSUME NEW i \in 0 + 1 .. n, i - 1 \in Typed PROVE i \in Typed
  <2>1. i \in 1 .. n /\ i \in 0 .. n /\ s[i - 1] \in ReaderState
    BY <1>1, <1>12
  <2>2. s[i] = Enter(s[i - 1], dies[i], pc)
    BY <1>10, <2>1
  <2>3. Enter(s[i - 1], dies[i], pc) \in ReaderState
    BY <1>2, <2>1
  <2>4. QED
    BY <2>1, <2>2, <2>3
<1>13. \A i \in 0 .. n : i \in Typed
  <2> HIDE DEF n, Typed
  <2>1. QED
    BY <1>1, <1>11, <1>12, GoesOn
<1>14. QED
  BY <1>1, <1>9, <1>10, <1>13

(* The same of the states of collect_show_vars.                              *)
LEMMA ShownReading ==
    ASSUME ScopesTypeOK, NEW pc \in Nat
    PROVE  LET s == ShownStates(pc)
           IN  s[0] = ShowOutside
               /\ \A i \in 1 .. Len(dies) : /\ s[i - 1] \in ShowState /\ s[i] \in ShowState
                                            /\ s[i] = EnterShown(s[i - 1], dies[i], pc)
<1> DEFINE n == Len(dies)
           step == [p \in (1 .. n) \X ShowState |-> EnterShown(p[2], dies[p[1]], pc)]
           F(f) == [i \in 0 .. n |-> IF i = 0 THEN ShowOutside
                                     ELSE EnterShown(f[i - 1], dies[i], pc)]
<1>1. n \in Nat /\ \A i \in 1 .. n : dies[i] \in Dies
  BY DieTypes
<1>2. ASSUME NEW i \in 1 .. n, NEW s \in ShowState
      PROVE  /\ step[<<i, s>>] = EnterShown(s, dies[i], pc)
             /\ EnterShown(s, dies[i], pc) \in ShowState
  BY <1>1, EnterShownTyped
<1>3. ShowOutside \in ShowState
  BY DEF ShowOutside, ShowState
<1>4. PICK g : Reading(g, n, ShowState, ShowOutside, step)
  <2>1. Steps(step, n, ShowState)
    BY <1>2 DEF Steps
  <2> HIDE DEF n, step
  <2>2. QED
    BY <1>1, <1>3, <2>1, ReadingExists
<1> HIDE DEF step
<1>5. ASSUME NEW i \in 1 .. n
      PROVE  /\ g[i - 1] \in ShowState /\ g[i] \in ShowState
             /\ g[i] = EnterShown(g[i - 1], dies[i], pc)
  <2>1. i - 1 \in 0 .. n /\ i \in 0 .. n
    BY <1>1
  <2>2. g[i - 1] \in ShowState /\ g[i] \in ShowState /\ g[i] = step[<<i, g[i - 1]>>]
    BY <1>4, <2>1 DEF Reading
  <2>3. QED
    BY <1>2, <2>2
<1>6. g = F(g)
  <2>1. g = [i \in 0 .. n |-> g[i]] /\ g[0] = ShowOutside
    BY <1>4 DEF Reading
  <2>2. \A i \in 0 .. n : g[i] = IF i = 0 THEN ShowOutside ELSE EnterShown(g[i - 1], dies[i], pc)
    BY <1>1, <1>5, <2>1
  <2>3. QED
    BY <2>1, <2>2
<1>7. \E f : f = F(f)
  BY <1>6
<1> DEFINE s == CHOOSE f : f = F(f)
<1>8. s = F(s)
  BY <1>7
<1>9. ShownStates(pc) = s
  BY DEF ShownStates
<1> HIDE DEF s
<1>10. s[0] = ShowOutside /\ \A i \in 1 .. n : s[i] = EnterShown(s[i - 1], dies[i], pc)
  BY <1>1, <1>8
<1> DEFINE Typed == {i \in 0 .. n : s[i] \in ShowState}
<1>11. 0 \in Typed
  BY <1>1, <1>3, <1>10
<1>12. ASSUME NEW i \in 0 + 1 .. n, i - 1 \in Typed PROVE i \in Typed
  <2>1. i \in 1 .. n /\ i \in 0 .. n /\ s[i - 1] \in ShowState
    BY <1>1, <1>12
  <2>2. s[i] = EnterShown(s[i - 1], dies[i], pc)
    BY <1>10, <2>1
  <2>3. EnterShown(s[i - 1], dies[i], pc) \in ShowState
    BY <1>2, <2>1
  <2>4. QED
    BY <2>1, <2>2, <2>3
<1>13. \A i \in 0 .. n : i \in Typed
  <2> HIDE DEF n, Typed
  <2>1. QED
    BY <1>1, <1>11, <1>12, GoesOn
<1>14. QED
  BY <1>1, <1>9, <1>10, <1>13
-------------------------------------------------------------------------------
(* What find_local_var knows behind an entry: whether it is in a function,   *)
(* and whether the scope of a variable it reads next has the pc.             *)
LocalKnows(s, d, pc) ==
    /\ s.in <=> d.depth >= 2 \/ d.tag = "sub"
    /\ s.in => s.depth = 1
    /\ d.tag \in {"sub", "block"} => (s.matches <=> InRange(pc, d))
    /\ IsVariable(d) /\ d.depth >= 2 => (s.matches <=> InRange(pc, d.home))

(* find_local_var knows this behind the first entry, which is outside of     *)
(* functions.                                                                *)
LEMMA LocalKnowsFirst ==
    ASSUME NEW d \in Dies, Shaped(d), d.depth = 1, NEW pc \in Nat
    PROVE  LocalKnows(Enter(Outside, d, pc), d, pc)
<1> DEFINE e == Enter(Outside, d, pc)
<1>1. ~ (d.depth >= 2) /\ d.tag # "block"
  BY DEF Shaped
<1>2. CASE d.tag = "sub"
  <2>1. e.in /\ e.depth = 1 /\ (e.matches <=> InRange(pc, d))
    BY <1>2 DEF Enter, Outside
  <2> HIDE DEF e
  <2>2. QED
    BY <1>1, <1>2, <2>1 DEF LocalKnows, e
<1>3. CASE d.tag # "sub"
  <2>1. ~ e.in
    BY <1>1, <1>3 DEF Enter, Outside
  <2> HIDE DEF e
  <2>2. QED
    BY <1>1, <1>3, <2>1 DEF LocalKnows, e
<1>4. QED
  BY <1>2, <1>3

(* It knows it of an entry if it knew it of the one before.                  *)
LEMMA LocalKnowsNext ==
    ASSUME NEW s \in ReaderState, NEW c \in Dies, NEW d \in Dies, NEW pc \in Nat,
           Shaped(c), Shaped(d), Follows(c, d), LocalKnows(s, c, pc)
    PROVE  LocalKnows(Enter(s, d, pc), d, pc)
<1> DEFINE e == Enter(s, d, pc)
<1>1. d.depth \in Nat /\ c.depth \in Nat /\ s.depth \in Nat /\ d.depth >= 1 /\ c.depth >= 1
      /\ d.tag \in {"sub", "block", "param", "var", "null"}
  BY DEF Dies, ReaderState, Shaped
<1>2. CASE d.tag = "sub"
  <2>1. e.in /\ e.depth = d.depth /\ (e.matches <=> InRange(pc, d)) /\ d.depth = 1
    BY <1>2 DEF Enter, ReaderState, Shaped
  <2>2. ~ (d.depth >= 2)
    BY <2>1
  <2> HIDE DEF e
  <2>3. QED
    BY <1>2, <2>1, <2>2 DEF LocalKnows, e
<1>3. CASE d.tag # "sub" /\ d.depth = 1
  <2>1. ~ e.in
    <3>1. CASE s.in
      <4>1. d.depth <= s.depth
        BY <1>3, <3>1 DEF LocalKnows
      <4>2. QED
        BY <1>3, <3>1, <4>1 DEF Enter, ReaderState
    <3>2. CASE ~ s.in
      BY <1>3, <3>2 DEF Enter
    <3>3. QED
      BY <3>1, <3>2
  <2>2. d.tag # "block" /\ ~ (d.depth >= 2)
    BY <1>3 DEF Shaped
  <2> HIDE DEF e
  <2>3. QED
    BY <1>3, <2>1, <2>2 DEF LocalKnows, e
<1>4. CASE d.tag # "sub" /\ d.depth >= 2
  <2>1. s.in /\ s.depth = 1
    BY <1>4 DEF Follows, LocalKnows
  <2>2. ~ (d.depth <= s.depth) /\ d.depth > s.depth
    BY <1>1, <1>4, <2>1
  <2>3. e.in /\ e.depth = 1
    BY <1>4, <2>1, <2>2 DEF Enter, ReaderState
  <2>4. d.tag = "block" => (e.matches <=> InRange(pc, d))
    BY <1>4, <2>1, <2>2 DEF Enter, ReaderState
  <2>5. d.tag # "block" => e.matches = s.matches
    BY <1>4, <2>1, <2>2 DEF Enter
  <2>6. IsVariable(d) => (s.matches <=> InRange(pc, d.home))
    <3>1. SUFFICES ASSUME IsVariable(d) PROVE s.matches <=> InRange(pc, d.home)
      OBVIOUS
    <3>2. CASE c.tag \in {"sub", "block"} /\ d.home = [low |-> c.low, high |-> c.high]
      <4>1. InRange(pc, d.home) = InRange(pc, c)
        BY <3>2 DEF InRange
      <4>2. QED
        BY <3>2, <4>1 DEF LocalKnows
    <3>3. CASE IsVariable(c) /\ c.depth >= 2 /\ d.home = c.home
      BY <3>3 DEF LocalKnows
    <3>4. QED
      BY <1>4, <3>1, <3>2, <3>3 DEF Follows
  <2> HIDE DEF e
  <2>7. IsVariable(d) => d.tag # "block"
    BY DEF IsVariable
  <2>8. QED
    BY <1>4, <2>3, <2>4, <2>5, <2>6, <2>7 DEF LocalKnows, e
<1>5. QED
  BY <1>1, <1>2, <1>3, <1>4

(* So it knows it all along.                                                 *)
LEMMA LocalReadingKnows ==
    ASSUME ScopesTypeOK, TextOK, NEW pc \in Nat
    PROVE  \A i \in 1 .. Len(dies) : LocalKnows(LocalStates(pc)[i], dies[i], pc)
<1> DEFINE n == Len(dies)
           s == LocalStates(pc)
           Known == {i \in 1 .. n : LocalKnows(s[i], dies[i], pc)}
<1>1. n \in Nat /\ (\A i \in 1 .. n : dies[i] \in Dies /\ Shaped(dies[i]))
      /\ (n > 0 => dies # <<>>)
  BY DieTypes DEF TextOK
<1>2. s[0] = Outside /\ \A i \in 1 .. n : /\ s[i - 1] \in ReaderState /\ s[i] \in ReaderState
                                          /\ s[i] = Enter(s[i - 1], dies[i], pc)
  BY LocalReading
<1> HIDE DEF s
<1>3. ASSUME n > 0 PROVE 1 \in Known
  <2>1. 1 \in 1 .. n /\ dies[1].depth = 1 /\ s[1] = Enter(Outside, dies[1], pc)
    BY <1>1, <1>2, <1>3 DEF TextOK
  <2>2. LocalKnows(s[1], dies[1], pc)
    BY <1>1, <2>1, LocalKnowsFirst
  <2>3. QED
    BY <2>1, <2>2
<1>4. ASSUME NEW i \in 1 + 1 .. n, i - 1 \in Known PROVE i \in Known
  <2>1. i \in 1 .. n /\ i - 1 \in 1 .. n /\ i \in 2 .. n
    BY <1>1
  <2>2. Follows(dies[i - 1], dies[i])
    BY <2>1 DEF TextOK
  <2>3. LocalKnows(s[i - 1], dies[i - 1], pc)
    BY <1>4
  <2>4. s[i - 1] \in ReaderState /\ s[i] = Enter(s[i - 1], dies[i], pc)
    BY <1>2, <2>1
  <2>5. LocalKnows(Enter(s[i - 1], dies[i], pc), dies[i], pc)
    <3> DEFINE t == s[i - 1]
               c == dies[i - 1]
               d == dies[i]
    <3>1. t \in ReaderState /\ c \in Dies /\ d \in Dies /\ Shaped(c) /\ Shaped(d)
          /\ Follows(c, d) /\ LocalKnows(t, c, pc)
      BY <1>1, <2>1, <2>2, <2>3, <2>4
    <3> HIDE DEF t, c, d
    <3>2. LocalKnows(Enter(t, d, pc), d, pc)
      BY <3>1, LocalKnowsNext
    <3>3. QED
      BY <3>2 DEF t, d
  <2>6. QED
    BY <2>1, <2>4, <2>5
<1>5. CASE n > 0
  <2>1. \A i \in 1 .. n : i \in Known
    <3> HIDE DEF n, Known
    <3>1. QED
      BY <1>1, <1>3, <1>4, <1>5, GoesOn
  <2>2. QED
    BY <2>1 DEF s
<1>6. QED
  BY <1>1, <1>5
-------------------------------------------------------------------------------
(* What collect_show_vars knows behind an entry: whether it is in a function *)
(* and that it has forgotten the block at a NULL.                            *)
ShowKnows(s, d) ==
    /\ s.in <=> d.depth >= 2 \/ d.tag = "sub"
    /\ s.in => s.depth = 1
    /\ d.depth = 1 \/ d.tag = "null" => ~ s.block

(* collect_show_vars knows this behind the first entry.                      *)
LEMMA ShowKnowsFirst ==
    ASSUME NEW d \in Dies, Shaped(d), d.depth = 1, NEW pc \in Nat
    PROVE  ShowKnows(EnterShown(ShowOutside, d, pc), d)
<1> DEFINE e == EnterShown(ShowOutside, d, pc)
<1>1. ~ (d.depth >= 2) /\ d.tag # "block"
  BY DEF Shaped
<1>2. CASE d.tag = "sub"
  <2>1. e.in /\ e.depth = 1 /\ ~ e.block
    BY <1>2 DEF EnterShown, ShowOutside
  <2> HIDE DEF e
  <2>2. QED
    BY <1>1, <1>2, <2>1 DEF ShowKnows, e
<1>3. CASE d.tag # "sub"
  <2>1. ~ e.in /\ ~ e.block
    BY <1>1, <1>3 DEF EnterShown, ShowOutside
  <2> HIDE DEF e
  <2>2. QED
    BY <1>1, <1>3, <2>1 DEF ShowKnows, e
<1>4. QED
  BY <1>2, <1>3

(* It knows it of an entry if it knew it of the one before: the block it may *)
(* still be in is forgotten before the next function.                        *)
LEMMA ShowKnowsNext ==
    ASSUME NEW s \in ShowState, NEW c \in Dies, NEW d \in Dies, NEW pc \in Nat,
           Shaped(c), Shaped(d), Follows(c, d), ShowKnows(s, c)
    PROVE  ShowKnows(EnterShown(s, d, pc), d)
<1> DEFINE e == EnterShown(s, d, pc)
<1>1. d.depth \in Nat /\ c.depth \in Nat /\ s.depth \in Nat /\ d.depth >= 1 /\ c.depth >= 1
      /\ d.tag \in {"sub", "block", "param", "var", "null"}
  BY DEF Dies, ShowState, Shaped
<1>2. d.depth = 1 => ~ s.block
  BY DEF Follows, ShowKnows
<1>3. CASE d.tag = "sub"
  <2>1. e.in /\ e.depth = d.depth /\ e.block = s.block /\ d.depth = 1
    BY <1>3 DEF EnterShown, ShowState, Shaped
  <2>2. ~ (d.depth >= 2) /\ ~ e.block
    BY <1>2, <2>1
  <2> HIDE DEF e
  <2>3. QED
    BY <1>3, <2>1, <2>2 DEF ShowKnows, e
<1>4. CASE d.tag # "sub" /\ d.depth = 1
  <2>1. ~ e.in /\ ~ e.block
    <3>1. CASE s.in
      <4>1. d.depth <= s.depth /\ ~ (d.depth > s.depth)
        BY <1>1, <1>4, <3>1 DEF ShowKnows
      <4>2. e = ShowOutside
        BY <1>4, <3>1, <4>1 DEF EnterShown
      <4>3. QED
        BY <4>2 DEF ShowOutside
    <3>2. CASE ~ s.in
      <4>1. e = s
        BY <1>2, <1>4, <3>2 DEF EnterShown
      <4>2. QED
        BY <1>2, <1>4, <3>2, <4>1
    <3>3. QED
      BY <3>1, <3>2
  <2>2. ~ (d.depth >= 2)
    BY <1>4
  <2> HIDE DEF e
  <2>3. QED
    BY <1>4, <2>1, <2>2 DEF ShowKnows, e
<1>5. CASE d.tag # "sub" /\ d.depth >= 2
  <2>1. s.in /\ s.depth = 1
    BY <1>5 DEF Follows, ShowKnows
  <2>2. ~ (d.depth <= s.depth) /\ d.depth > s.depth /\ d.depth # 1
    BY <1>1, <1>5, <2>1
  <2>3. e.in /\ e.depth = 1
    BY <1>5, <2>1, <2>2 DEF EnterShown, ShowState
  <2>4. d.tag = "null" => ~ e.block
    <3>1. CASE s.block
      BY <1>5, <2>1, <2>2, <3>1 DEF EnterShown, ShowState
    <3>2. CASE ~ s.block
      BY <1>5, <2>1, <2>2, <3>2 DEF EnterShown, ShowState
    <3>3. QED
      BY <3>1, <3>2
  <2> HIDE DEF e
  <2>5. QED
    BY <1>5, <2>2, <2>3, <2>4 DEF ShowKnows, e
<1>6. QED
  BY <1>1, <1>3, <1>4, <1>5

(* So it knows it all along.                                                 *)
LEMMA ShownReadingKnows ==
    ASSUME ScopesTypeOK, TextOK, NEW pc \in Nat
    PROVE  \A i \in 1 .. Len(dies) : ShowKnows(ShownStates(pc)[i], dies[i])
<1> DEFINE n == Len(dies)
           s == ShownStates(pc)
           Known == {i \in 1 .. n : ShowKnows(s[i], dies[i])}
<1>1. n \in Nat /\ (\A i \in 1 .. n : dies[i] \in Dies /\ Shaped(dies[i]))
      /\ (n > 0 => dies # <<>>)
  BY DieTypes DEF TextOK
<1>2. s[0] = ShowOutside
      /\ \A i \in 1 .. n : /\ s[i - 1] \in ShowState /\ s[i] \in ShowState
                           /\ s[i] = EnterShown(s[i - 1], dies[i], pc)
  BY ShownReading
<1> HIDE DEF s
<1>3. ASSUME n > 0 PROVE 1 \in Known
  <2>1. 1 \in 1 .. n /\ dies[1].depth = 1 /\ s[1] = EnterShown(ShowOutside, dies[1], pc)
    BY <1>1, <1>2, <1>3 DEF TextOK
  <2>2. ShowKnows(s[1], dies[1])
    BY <1>1, <2>1, ShowKnowsFirst
  <2>3. QED
    BY <2>1, <2>2
<1>4. ASSUME NEW i \in 1 + 1 .. n, i - 1 \in Known PROVE i \in Known
  <2>1. i \in 1 .. n /\ i - 1 \in 1 .. n /\ i \in 2 .. n
    BY <1>1
  <2>2. Follows(dies[i - 1], dies[i])
    BY <2>1 DEF TextOK
  <2>3. ShowKnows(s[i - 1], dies[i - 1])
    BY <1>4
  <2>4. s[i - 1] \in ShowState /\ s[i] = EnterShown(s[i - 1], dies[i], pc)
    BY <1>2, <2>1
  <2>5. ShowKnows(EnterShown(s[i - 1], dies[i], pc), dies[i])
    <3> DEFINE t == s[i - 1]
               c == dies[i - 1]
               d == dies[i]
    <3>1. t \in ShowState /\ c \in Dies /\ d \in Dies /\ Shaped(c) /\ Shaped(d)
          /\ Follows(c, d) /\ ShowKnows(t, c)
      BY <1>1, <2>1, <2>2, <2>3, <2>4
    <3> HIDE DEF t, c, d
    <3>2. ShowKnows(EnterShown(t, d, pc), d)
      BY <3>1, ShowKnowsNext
    <3>3. QED
      BY <3>2 DEF t, d
  <2>6. QED
    BY <2>1, <2>4, <2>5
<1>5. CASE n > 0
  <2>1. \A i \in 1 .. n : i \in Known
    <3> HIDE DEF n, Known
    <3>1. QED
      BY <1>1, <1>3, <1>4, <1>5, GoesOn
  <2>2. QED
    BY <2>1 DEF s
<1>6. QED
  BY <1>1, <1>5

(* What it knows of a function f at an entry d of f: f has the pc, and the    *)
(* block it is in has the pc when the scope of a variable has.               *)
FunctionKnows(s, d, f, pc) ==
    /\ s.matches <=> InRange(pc, f)
    /\ d.tag = "sub" => d = f /\ ~ s.block
    /\ d.tag = "block" => /\ InRange(pc, d) => InRange(pc, f)
                          /\ InRange(pc, f) => s.block /\ (s.inblock <=> InRange(pc, d))
    /\ IsVariable(d) => (InRange(pc, d.home) <=> InRange(pc, f) /\ (s.block => s.inblock))
    /\ d.tag = "param" => (InRange(pc, d.home) <=> InRange(pc, f))

(* From entry to entry of one function it also keeps what it knows of the    *)
(* pc: in a function that does not match no block of it matches either.      *)
LEMMA FunctionKnowsNext ==
    ASSUME NEW s \in ShowState, NEW c \in Dies, NEW d \in Dies, NEW f \in Dies, NEW pc \in Nat,
           Shaped(c), Shaped(d), Follows(c, d), ShowKnows(s, c), d.depth >= 2,
           d.tag = "block" => Within(d, f), FunctionKnows(s, c, f, pc)
    PROVE  FunctionKnows(EnterShown(s, d, pc), d, f, pc)
<1> DEFINE e == EnterShown(s, d, pc)
<1>1. d.depth \in Nat /\ s.depth \in Nat /\ d.tag \in {"sub", "block", "param", "var", "null"}
  BY DEF Dies, ShowState
<1>2. d.tag # "sub" /\ s.in /\ s.depth = 1
  BY DEF Follows, ShowKnows, Shaped
<1>3. ~ (d.depth <= s.depth) /\ d.depth > s.depth
  BY <1>1, <1>2
<1>4. CASE d.tag = "block"
  <2>1. InRange(pc, d) => InRange(pc, f)
    <3>1. Within(d, f) /\ d.low \in Nat /\ d.high \in Nat /\ f.low \in Nat /\ f.high \in Nat
      BY <1>4 DEF Dies
    <3>2. QED
      BY <3>1 DEF Within, InRange
  <2>2. CASE s.matches
    <3>1. e.matches /\ e.block /\ (e.inblock <=> InRange(pc, d))
      BY <1>2, <1>3, <1>4, <2>2 DEF EnterShown, ShowState
    <3>2. InRange(pc, f)
      BY <2>2 DEF FunctionKnows
    <3> HIDE DEF e
    <3>3. QED
      BY <1>4, <2>1, <3>1, <3>2 DEF FunctionKnows, IsVariable, e
  <2>3. CASE ~ s.matches
    <3>1. e.matches <=> InRange(pc, d)
      BY <1>2, <1>3, <1>4, <2>3 DEF EnterShown, ShowState
    <3>2. ~ InRange(pc, f)
      BY <2>3 DEF FunctionKnows
    <3> HIDE DEF e
    <3>3. QED
      BY <1>4, <2>1, <3>1, <3>2 DEF FunctionKnows, IsVariable, e
  <2>4. QED
    BY <2>2, <2>3
<1>5. CASE d.tag = "null"
  <2>1. e.matches = s.matches
    BY <1>2, <1>3, <1>5 DEF EnterShown, ShowState
  <2>2. s.matches <=> InRange(pc, f)
    BY DEF FunctionKnows
  <2> HIDE DEF e
  <2>3. QED
    BY <1>5, <2>1, <2>2 DEF FunctionKnows, IsVariable, e
<1>6. CASE IsVariable(d)
  <2>1. e = s /\ d.tag \notin {"sub", "block"}
    BY <1>2, <1>3, <1>6 DEF EnterShown, IsVariable
  <2>2. s.matches <=> InRange(pc, f)
    BY DEF FunctionKnows
  <2>3. InRange(pc, d.home) <=> InRange(pc, f) /\ (s.block => s.inblock)
    <3>1. CASE c.tag \in {"sub", "block"} /\ d.home = [low |-> c.low, high |-> c.high]
      <4>1. InRange(pc, d.home) <=> InRange(pc, c)
        BY <3>1 DEF InRange
      <4>2. QED
        BY <3>1, <4>1 DEF FunctionKnows
    <3>2. CASE IsVariable(c) /\ c.depth >= 2 /\ d.home = c.home
      BY <3>2 DEF FunctionKnows
    <3>3. QED
      BY <1>6, <3>1, <3>2 DEF Follows
  <2>4. d.tag = "param" => (InRange(pc, d.home) <=> InRange(pc, f))
    <3>1. SUFFICES ASSUME d.tag = "param" PROVE InRange(pc, d.home) <=> InRange(pc, f)
      OBVIOUS
    <3>2. c.tag \in {"sub", "param"}
      BY <3>1 DEF Follows
    <3>3. CASE c.tag = "sub"
      <4>1. d.home = [low |-> c.low, high |-> c.high] /\ c = f
        BY <1>6, <3>3 DEF Follows, IsVariable, FunctionKnows
      <4>2. QED
        BY <4>1 DEF InRange
    <3>4. CASE c.tag = "param"
      <4>1. d.home = c.home
        BY <1>6, <3>4 DEF Follows, IsVariable
      <4>2. QED
        BY <3>4, <4>1 DEF FunctionKnows
    <3>5. QED
      BY <3>2, <3>3, <3>4
  <2> HIDE DEF e
  <2>5. QED
    BY <2>1, <2>2, <2>3, <2>4 DEF FunctionKnows, e
<1>7. QED
  BY <1>1, <1>2, <1>4, <1>5, <1>6 DEF IsVariable

(* So it knows it all along the entries of a function.                       *)
LEMMA ShownOfFunction ==
    ASSUME ScopesTypeOK, TextOK, BlocksWithin, NEW pc \in Nat,
           NEW f \in 1 .. Len(dies), NEW m \in 1 .. Len(dies), FunctionOf(f, m)
    PROVE  FunctionKnows(ShownStates(pc)[m], dies[m], dies[f], pc)
<1> DEFINE n == Len(dies)
           s == ShownStates(pc)
           Known == {i \in f .. m : FunctionKnows(s[i], dies[i], dies[f], pc)}
<1>1. n \in Nat /\ f \in Nat /\ m \in Nat /\ f <= m /\ m <= n
      /\ \A i \in 1 .. n : dies[i] \in Dies /\ Shaped(dies[i])
  BY DieTypes DEF TextOK, FunctionOf
<1>2. \A i \in 1 .. n : /\ s[i - 1] \in ShowState /\ s[i] \in ShowState
                        /\ s[i] = EnterShown(s[i - 1], dies[i], pc)
                        /\ ShowKnows(s[i], dies[i])
  BY ShownReading, ShownReadingKnows
<1> HIDE DEF s
<1>3. f \in Known
  <2>1. dies[f].tag = "sub" /\ dies[f].depth = 1
    BY <1>1 DEF FunctionOf, Shaped
  <2>2. ShowKnows(s[f], dies[f]) /\ s[f] = EnterShown(s[f - 1], dies[f], pc)
        /\ s[f - 1] \in ShowState
    BY <1>2
  <2>3. ~ s[f].block
    BY <2>1, <2>2 DEF ShowKnows
  <2>4. s[f].matches <=> ~ s[f - 1].block /\ InRange(pc, dies[f])
    BY <2>1, <2>2 DEF EnterShown, ShowState
  <2>5. s[f].block = s[f - 1].block
    BY <2>1, <2>2 DEF EnterShown, ShowState
  <2>6. FunctionKnows(s[f], dies[f], dies[f], pc)
    BY <2>1, <2>3, <2>4, <2>5 DEF FunctionKnows, IsVariable
  <2>7. QED
    BY <1>1, <2>6
<1>4. ASSUME NEW i \in f + 1 .. m, i - 1 \in Known PROVE i \in Known
  <2>1. i \in 1 .. n /\ i - 1 \in 1 .. n /\ i \in 2 .. n /\ i \in f .. m /\ f \in 1 .. i
    BY <1>1
  <2> DEFINE t == s[i - 1]
             c == dies[i - 1]
             d == dies[i]
             g == dies[f]
  <2>2. t \in ShowState /\ c \in Dies /\ d \in Dies /\ g \in Dies /\ Shaped(c) /\ Shaped(d)
        /\ s[i] = EnterShown(t, d, pc)
    BY <1>1, <1>2, <2>1
  <2>3. Follows(c, d)
    BY <2>1 DEF TextOK
  <2>4. ShowKnows(t, c)
    BY <1>2, <2>1
  <2>5. d.depth >= 2
    BY DEF FunctionOf
  <2>6. d.tag = "block" => Within(d, g)
    <3>1. FunctionOf(f, i)
      BY <1>1, <2>1 DEF FunctionOf
    <3>2. QED
      BY <1>1, <2>1, <3>1, DieTypes DEF BlocksWithin
  <2>7. FunctionKnows(t, c, g, pc)
    BY <1>4
  <2> HIDE DEF t, c, d, g
  <2>8. FunctionKnows(EnterShown(t, d, pc), d, g, pc)
    BY <2>2, <2>3, <2>4, <2>5, <2>6, <2>7, FunctionKnowsNext
  <2>9. FunctionKnows(s[i], dies[i], dies[f], pc)
    BY <2>2, <2>8 DEF d, g
  <2>10. QED
    BY <2>1, <2>9
<1>5. \A i \in f .. m : i \in Known
  <2> HIDE DEF n, Known
  <2>1. QED
    BY <1>1, <1>3, <1>4, GoesOn
<1>6. QED
  BY <1>1, <1>5 DEF s
-------------------------------------------------------------------------------
(* What the text makes the readers find.                                     *)
Readable == ScopesTypeOK /\ TextOK /\ BlocksWithin /\ ParamsFirst

(* First is the least number of a set that is not empty.                     *)
LEMMA FirstOf ==
    /\ First({}) = NoDie
    /\ \A S : S \in SUBSET (Nat \ {0}) /\ S # {} =>
          First(S) \in S /\ First(S) # NoDie /\ \A j \in S : First(S) <= j
<1>1. ASSUME NEW S, S \in SUBSET (Nat \ {0}), S # {}
      PROVE  \E i \in S : \A j \in S : i <= j
  <2>1. S \subseteq Nat
    BY <1>1
  <2>2. QED
    BY <1>1, <2>1, FirstExists
<1>2. QED
  BY <1>1 DEF First, NoDie

(* An entry that is indented is of some function.                            *)
LEMMA HasFunction ==
    ASSUME ScopesTypeOK, TextOK, NEW m \in 1 .. Len(dies), dies[m].depth >= 2
    PROVE  \E f \in 1 .. Len(dies) : FunctionOf(f, m)
<1> DEFINE n == Len(dies)
           S == {i \in 1 .. n : dies[i].depth >= 2 => \E f \in 1 .. n : FunctionOf(f, i)}
<1>1. n \in Nat /\ 1 \in 1 .. n /\ 1 \in Nat /\ dies # <<>>
  BY DieTypes
<1>2. 1 \in S
  <2>1. ~ (dies[1].depth >= 2)
    BY <1>1 DEF TextOK
  <2>2. QED
    BY <1>1, <2>1
<1>3. ASSUME NEW i \in 1 + 1 .. n, i - 1 \in S PROVE i \in S
  <2>1. i \in 1 .. n /\ i - 1 \in 1 .. n /\ i \in 2 .. n
    BY <1>1
  <2>2. SUFFICES ASSUME dies[i].depth >= 2 PROVE \E f \in 1 .. n : FunctionOf(f, i)
    BY <2>1
  <2>3. dies[i - 1].depth >= 2 \/ dies[i - 1].tag = "sub"
    BY <2>1, <2>2 DEF TextOK, Follows
  <2>4. CASE dies[i - 1].tag = "sub"
    <3>1. i - 1 \in 1 .. i /\ (i - 1) + 1 .. i = {i}
      BY <2>1
    <3>2. FunctionOf(i - 1, i)
      BY <2>2, <2>4, <3>1 DEF FunctionOf
    <3>3. QED
      BY <2>1, <3>2
  <2>5. CASE dies[i - 1].depth >= 2
    <3>1. PICK f \in 1 .. n : FunctionOf(f, i - 1)
      BY <1>3, <2>5
    <3>2. f \in 1 .. i /\ \A j \in f + 1 .. i : j = i \/ j \in f + 1 .. i - 1
      BY <1>1, <2>1, <3>1 DEF FunctionOf
    <3>3. FunctionOf(f, i)
      BY <2>2, <3>1, <3>2 DEF FunctionOf
    <3>4. QED
      BY <3>3
  <2>6. QED
    BY <2>3, <2>4, <2>5
<1>4. \A i \in 1 .. n : i \in S
  <2> HIDE DEF n, S
  <2>1. QED
    BY <1>1, <1>2, <1>3, GoesOn
<1>5. QED
  BY <1>4

(* print finds the automatic variables that are visible, and no others.      *)
LEMMA LocalsFound ==
    ASSUME Readable, NEW pc \in Nat, NEW x \in VarNames
    PROVE  FindLocal(pc)[x] = First(Visible(x, pc))
<1> DEFINE s == LocalStates(pc)
           read == {i \in Tagged({"param", "var"}) :
                      dies[i].loc = "fbreg" /\ s[i].in /\ s[i].matches}
<1>1. ScopesTypeOK /\ TextOK /\ DOMAIN dies = 1 .. Len(dies)
  BY DieTypes DEF Readable
<1>2. \A i \in 1 .. Len(dies) : LocalKnows(s[i], dies[i], pc)
  BY <1>1, LocalReadingKnows
<1> HIDE DEF s
<1>3. ASSUME NEW i \in Tagged({"param", "var"}), dies[i].loc = "fbreg"
      PROVE  s[i].in /\ s[i].matches <=> InRange(pc, dies[i].home)
  <2>1. i \in 1 .. Len(dies) /\ IsVariable(dies[i]) /\ dies[i].depth >= 2
    BY <1>1, <1>3 DEF Tagged, TextOK, Shaped, IsVariable
  <2>2. QED
    BY <1>2, <2>1 DEF LocalKnows
<1>4. {i \in read : dies[i].name = x} = Visible(x, pc)
  BY <1>3 DEF Visible
<1>5. FindLocal(pc) = [n \in VarNames |-> First({i \in read : dies[i].name = n})]
  BY DEF FindLocal, s
<1> HIDE DEF read
<1>6. QED
  BY <1>4, <1>5

(* What is visible are entries.                                              *)
LEMMA VisibleTyped ==
    ASSUME Readable, NEW x, NEW pc
    PROVE  Visible(x, pc) \in SUBSET (Nat \ {0})
<1>1. DOMAIN dies = 1 .. Len(dies) /\ Len(dies) \in Nat
  BY DieTypes DEF Readable
<1>2. QED
  BY <1>1 DEF Visible, Tagged

(* What resolve_variable_address answers.                                    *)
LEMMA Resolved ==
    ASSUME Readable, NEW pc \in Nat, NEW x \in VarNames
    PROVE  /\ Visible(x, pc) # {} => Resolve(pc)[x] = <<"local", First(Visible(x, pc))>>
           /\ Visible(x, pc) = {} => /\ Resolve(pc)[x][1] # "local"
                                     /\ Resolve(pc)[x][2] = FindGlobal[x]
<1>1. FindLocal(pc)[x] = First(Visible(x, pc))
  BY LocalsFound
<1> DEFINE v == Visible(x, pc)
           global == FindGlobal[x]
<1>2. v # {} => First(v) # NoDie
  BY FirstOf, VisibleTyped
<1>3. v = {} => First(v) = NoDie
  BY FirstOf
<1>4. Resolve(pc)[x] = IF First(v) # NoDie THEN <<"local", First(v)>>
                       ELSE IF global # NoDie THEN <<"global", global>>
                       ELSE IF \E k \in DOMAIN DataSyms : DataSyms[k] = x THEN <<"symbol", NoDie>>
                       ELSE <<"unknown", NoDie>>
  BY <1>1 DEF Resolve
<1> HIDE DEF v, global
<1>5. v # {} => Resolve(pc)[x] = <<"local", First(v)>>
  BY <1>2, <1>4
<1>6. v = {} => Resolve(pc)[x][1] # "local" /\ Resolve(pc)[x][2] = global
  BY <1>3, <1>4
<1>7. QED
  BY <1>5, <1>6 DEF v, global

(* Addresses are numbers.                                                    *)
LEMMA PcsTyped == Pcs \subseteq Nat
BY DEF Pcs

(* In a text of this kind a local variable is found where C sees one.        *)
LEMMA ReadableLocals == Readable => LocalIsVisible
<1> SUFFICES ASSUME Readable, NEW pc \in Pcs, NEW x \in VarNames
             PROVE  IF Visible(x, pc) = {} THEN Resolve(pc)[x][1] # "local"
                    ELSE Resolve(pc)[x][1] = "local" /\ Resolve(pc)[x][2] \in Visible(x, pc)
  BY DEF LocalIsVisible
<1>1. pc \in Nat
  BY PcsTyped
<1>2. CASE Visible(x, pc) = {}
  BY <1>1, <1>2, Resolved
<1>3. CASE Visible(x, pc) # {}
  <2>1. Resolve(pc)[x] = <<"local", First(Visible(x, pc))>>
    BY <1>1, <1>3, Resolved
  <2>2. First(Visible(x, pc)) \in Visible(x, pc)
    BY <1>3, FirstOf, VisibleTyped
  <2>3. QED
    BY <1>3, <2>1, <2>2
<1>4. QED
  BY <1>2, <1>3

(* show args and show locals list what is visible, by tag.                   *)
LEMMA ShownLocals ==
    ASSUME Readable, NEW pc \in Nat, NEW x \in VarNames
    PROVE  /\ Show("args", pc)[x] = First({i \in Visible(x, pc) : dies[i].tag = "param"})
           /\ Show("locals", pc)[x] = First({i \in Visible(x, pc) : dies[i].tag = "var"})
<1> DEFINE s == ShownStates(pc)
           vars2 == Tagged({"param", "var"})
<1>1. ScopesTypeOK /\ TextOK /\ BlocksWithin /\ DOMAIN dies = 1 .. Len(dies)
  BY DieTypes DEF Readable
<1>2. \A i \in 1 .. Len(dies) : ShowKnows(s[i], dies[i])
  BY <1>1, ShownReadingKnows
<1>3. ASSUME NEW i \in vars2, dies[i].loc = "fbreg"
      PROVE  /\ s[i].in
             /\ dies[i].tag = "param" => (s[i].matches <=> InRange(pc, dies[i].home))
             /\ (s[i].matches /\ (s[i].block => s[i].inblock)) <=> InRange(pc, dies[i].home)
  <2>1. i \in 1 .. Len(dies) /\ IsVariable(dies[i]) /\ dies[i].depth >= 2
    BY <1>1, <1>3 DEF Tagged, TextOK, Shaped, IsVariable
  <2>2. PICK f \in 1 .. Len(dies) : FunctionOf(f, i)
    BY <1>1, <2>1, HasFunction
  <2>3. FunctionKnows(s[i], dies[i], dies[f], pc)
    BY <1>1, <2>1, <2>2, ShownOfFunction
  <2>4. s[i].in
    BY <1>2, <2>1 DEF ShowKnows
  <2> HIDE DEF s
  <2>5. QED
    BY <2>1, <2>3, <2>4 DEF FunctionKnows
<1>4. Included("args", pc) = {i \in vars2 : dies[i].tag = "param" /\ dies[i].loc = "fbreg"
                                               /\ s[i].in /\ s[i].matches}
  BY DEF Included
<1>5. Included("locals", pc) = {i \in vars2 : dies[i].tag = "var" /\ dies[i].loc = "fbreg"
                                /\ s[i].in /\ s[i].matches /\ (s[i].block => s[i].inblock)}
  BY DEF Included
<1> HIDE DEF s
<1>6. {i \in Included("args", pc) : dies[i].name = x} = {i \in Visible(x, pc) : dies[i].tag = "param"}
  BY <1>3, <1>4 DEF Visible
<1>7. {i \in Included("locals", pc) : dies[i].name = x} = {i \in Visible(x, pc) : dies[i].tag = "var"}
  BY <1>3, <1>5 DEF Visible
<1>8. \A scope : Show(scope, pc)[x] = First({i \in Included(scope, pc) : dies[i].name = x})
  BY DEF Show
<1>9. QED
  BY <1>6, <1>7, <1>8

(* show globals lists what find_global_var finds.                            *)
LEMMA ShownGlobals ==
    ASSUME Readable, NEW pc \in Nat, NEW x \in VarNames
    PROVE  Show("globals", pc)[x] = FindGlobal[x]
<1> DEFINE s == ShownStates(pc)
           t == LocalStates(0)
           read == {i \in Tagged({"var"}) : dies[i].loc = "addr" /\ ~t[i].in}
<1>1. ScopesTypeOK /\ TextOK /\ DOMAIN dies = 1 .. Len(dies)
  BY DieTypes DEF Readable
<1>2. \A i \in 1 .. Len(dies) : ShowKnows(s[i], dies[i]) /\ LocalKnows(t[i], dies[i], 0)
  BY <1>1, ShownReadingKnows, LocalReadingKnows
<1>3. ASSUME NEW i \in Tagged({"var"})
      PROVE  ~s[i].in /\ ~s[i].block <=> ~t[i].in
  <2>1. i \in 1 .. Len(dies) /\ dies[i].tag = "var" /\ dies[i].depth >= 1 /\ dies[i].depth \in Nat
    BY <1>1, DieTypes DEF Tagged, TextOK, Shaped, Dies
  <2>2. s[i].in <=> t[i].in
    BY <1>2, <2>1 DEF ShowKnows, LocalKnows
  <2>3. ~s[i].in => dies[i].depth = 1
    BY <1>2, <2>1 DEF ShowKnows
  <2>4. dies[i].depth = 1 => ~s[i].block
    BY <1>2, <2>1 DEF ShowKnows
  <2>5. QED
    BY <2>2, <2>3, <2>4
<1>4. Included("globals", pc) = {i \in Tagged({"param", "var"}) :
                                   dies[i].tag = "var" /\ dies[i].loc = "addr" /\ ~s[i].in
                                   /\ ~s[i].block}
  BY DEF Included
<1>5. FindGlobal = [n \in VarNames |-> First({i \in read : dies[i].name = n})]
  BY DEF FindGlobal
<1> HIDE DEF s, t
<1>6. {i \in Included("globals", pc) : dies[i].name = x} = {i \in read : dies[i].name = x}
  BY <1>3, <1>4 DEF Tagged
<1>7. Show("globals", pc)[x] = First({i \in Included("globals", pc) : dies[i].name = x})
  BY DEF Show
<1> HIDE DEF read
<1>8. QED
  BY <1>5, <1>6, <1>7

(* In a text of this kind print and show mean the same: a parameter that is  *)
(* visible comes before every variable that is, in the order of entries.     *)
LEMMA ReadableAgree == Readable => PrintShowAgree
<1> SUFFICES ASSUME Readable, NEW pc \in Pcs, NEW x \in VarNames
             PROVE  Resolve(pc)[x][2] =
                       IF Show("args", pc)[x] # NoDie THEN Show("args", pc)[x]
                       ELSE IF Show("locals", pc)[x] # NoDie THEN Show("locals", pc)[x]
                       ELSE Show("globals", pc)[x]
  BY DEF PrintShowAgree
<1> DEFINE V == Visible(x, pc)
           P == {i \in V : dies[i].tag = "param"}
           L == {i \in V : dies[i].tag = "var"}
<1>1. pc \in Nat
  BY PcsTyped
<1>2. /\ Show("args", pc)[x] = First(P)
      /\ Show("locals", pc)[x] = First(L)
      /\ Show("globals", pc)[x] = FindGlobal[x]
  BY <1>1, ShownLocals, ShownGlobals
<1>3. /\ V # {} => Resolve(pc)[x] = <<"local", First(V)>>
      /\ V = {} => Resolve(pc)[x][2] = FindGlobal[x]
  BY <1>1, Resolved
<1>4. V \in SUBSET (Nat \ {0}) /\ P \subseteq V /\ L \subseteq V
  BY VisibleTyped
<1>5. ASSUME NEW i \in V PROVE dies[i].tag = "param" \/ dies[i].tag = "var"
  BY DEF Visible, Tagged
<1>6. ASSUME NEW i \in L, NEW j \in P PROVE ~ (i < j)
  <2>1. i \in DOMAIN dies /\ j \in DOMAIN dies /\ dies[i].loc = "fbreg"
        /\ InRange(pc, dies[i].home) /\ InRange(pc, dies[j].home)
    BY DEF Visible, Tagged
  <2>2. dies[i] \in Dies /\ dies[j] \in Dies
    BY <2>1, DieTypes DEF Readable
  <2>3. dies[i].home.high \in Nat /\ dies[j].home.low \in Nat
    BY <2>2 DEF Dies, Ranges
  <2>4. pc < dies[i].home.high /\ dies[j].home.low <= pc
    BY <2>1 DEF InRange
  <2>5. i < j => dies[i].home.high <= dies[j].home.low
    BY <2>1 DEF Readable, ParamsFirst
  <2>6. QED
    BY <1>1, <2>3, <2>4, <2>5
<1>7. CASE P # {}
  <2>1. /\ First(P) \in P /\ First(P) # NoDie /\ \A j \in P : First(P) <= j
        /\ V # {} /\ First(V) \in V /\ \A j \in V : First(V) <= j
    BY <1>4, <1>7, FirstOf
  <2>2. First(V) \in P
    <3>1. SUFFICES ASSUME First(V) \in L PROVE FALSE
      BY <1>5, <2>1
    <3>2. ~ (First(V) < First(P)) /\ First(V) <= First(P) /\ First(V) # First(P)
      BY <1>4, <1>6, <2>1, <3>1
    <3>3. First(V) \in Nat /\ First(P) \in Nat
      BY <1>4, <2>1
    <3>4. QED
      BY <3>2, <3>3
  <2>3. First(P) <= First(V) /\ First(V) <= First(P) /\ First(V) \in Nat /\ First(P) \in Nat
    BY <1>4, <2>1, <2>2
  <2>4. First(P) = First(V)
    BY <2>3
  <2> HIDE DEF V, P, L
  <2>5. QED
    BY <1>2, <1>3, <2>1, <2>4
<1>8. CASE P = {} /\ V # {}
  <2>1. L = V
    BY <1>5, <1>8
  <2>2. First(L) # NoDie /\ First(P) = NoDie
    BY <1>4, <1>8, <2>1, FirstOf
  <2> HIDE DEF V, P, L
  <2>3. QED
    BY <1>2, <1>3, <1>8, <2>1, <2>2
<1>9. CASE P = {} /\ V = {}
  <2>1. L = {}
    BY <1>9
  <2>2. First(L) = NoDie /\ First(P) = NoDie
    BY <1>9, <2>1, FirstOf
  <2> HIDE DEF V, P, L
  <2>3. QED
    BY <1>2, <1>3, <1>9, <2>2
<1>10. QED
  BY <1>7, <1>8, <1>9
-------------------------------------------------------------------------------
(* One step of the printer.                                                  *)
ScopeRecord == [low : Nat, high : Nat, free : Nat, kids : {"no", "params", "vars", "blocks"}]
IsFunction(d) == d.tag = "sub" /\ d.high # 0

(* The scopes that are open are scopes.                                      *)
LEMMA OpenTypes ==
    ASSUME ScopesTypeOK
    PROVE  /\ open \in Seq(ScopeRecord) /\ Len(open) \in Nat /\ DOMAIN open = 1 .. Len(open)
           /\ \A i \in 1 .. Len(open) : open[i] \in ScopeRecord
           /\ open = <<>> <=> Len(open) = 0
           /\ open # <<>> => Inner \in ScopeRecord
           /\ Home \in Ranges
<1>1. /\ open \in Seq(ScopeRecord) /\ Len(open) \in Nat /\ DOMAIN open = 1 .. Len(open)
      /\ \A i \in 1 .. Len(open) : open[i] \in ScopeRecord
      /\ open = <<>> <=> Len(open) = 0
  BY LenProperties, ElementOfSeq, EmptySeq DEF ScopesTypeOK, ScopeRecord
<1>2. open # <<>> => Inner \in ScopeRecord
  <2>1. open # <<>> => Len(open) \in 1 .. Len(open)
    BY <1>1
  <2>2. QED
    BY <1>1, <2>1 DEF Inner
<1>3. Home \in Ranges
  BY <1>2 DEF Home, Ranges, ScopeRecord
<1>4. QED
  BY <1>1, <1>2, <1>3

(* One entry more: the others stay as they are.                              *)
LEMMA Printed ==
    ASSUME ScopesTypeOK, NEW d \in Dies, dies' = Append(dies, d)
    PROVE  /\ dies' \in Seq(Dies) /\ Len(dies') = Len(dies) + 1
           /\ DOMAIN dies' = 1 .. Len(dies) + 1 /\ dies' # <<>>
           /\ dies'[Len(dies) + 1] = d
           /\ \A i \in 1 .. Len(dies) : dies'[i] = dies[i]
<1>1. dies \in Seq(Dies) /\ Len(dies) \in Nat
  BY DieTypes DEF ScopesTypeOK
<1>2. /\ dies' \in Seq(Dies) /\ Len(dies') = Len(dies) + 1 /\ dies'[Len(dies) + 1] = d
      /\ \A i \in 1 .. Len(dies) : dies'[i] = dies[i]
  BY <1>1, AppendProperties
<1>3. DOMAIN dies' = 1 .. Len(dies) + 1 /\ dies' # <<>>
  BY <1>1, <1>2, LenProperties, EmptySeq
<1>4. QED
  BY <1>2, <1>3

(* There are finitely many functions.                                        *)
LEMMA FunctionsTyped ==
    ASSUME ScopesTypeOK
    PROVE  IsFiniteSet(Functions) /\ Cardinality(Functions) \in Nat
<1>1. Functions \in SUBSET (1 .. Len(dies))
  BY DieTypes DEF Functions, Tagged
<1>2. IsFiniteSet(1 .. Len(dies))
  BY DieTypes, FS_Interval
<1>3. IsFiniteSet(Functions)
  BY <1>1, <1>2, FS_Subset
<1>4. QED
  BY <1>3, FS_CardinalityType

(* A function is an entry that is one, by its tag and its range.             *)
LEMMA FunctionsAre == Functions = {i \in DOMAIN dies : IsFunction(dies[i])}
BY DEF Functions, Tagged, IsFunction

(* The next function is counted, any other entry is not.                     *)
LEMMA FunctionPrinted ==
    ASSUME ScopesTypeOK, NEW d \in Dies, dies' = Append(dies, d)
    PROVE  /\ ~ IsFunction(d) => Functions' = Functions
           /\ IsFunction(d) => Cardinality(Functions') = Cardinality(Functions) + 1
<1>1. /\ DOMAIN dies = 1 .. Len(dies) /\ Len(dies) \in Nat
      /\ DOMAIN dies' = 1 .. Len(dies) + 1 /\ dies'[Len(dies) + 1] = d
      /\ \A i \in 1 .. Len(dies) : dies'[i] = dies[i]
  BY DieTypes, Printed
<1>2. Functions' = {i \in DOMAIN dies' : IsFunction(dies'[i])}
  BY FunctionsAre DEF Functions, Tagged, IsFunction
<1>3. 1 .. Len(dies) + 1 = (1 .. Len(dies)) \cup {Len(dies) + 1}
  BY <1>1
<1>4. ~ IsFunction(d) => Functions' = Functions
  BY <1>1, <1>2, <1>3, FunctionsAre
<1>5. IsFunction(d) => Functions' = Functions \cup {Len(dies) + 1}
  BY <1>1, <1>2, <1>3, FunctionsAre
<1>6. Len(dies) + 1 \notin Functions
  BY <1>1 DEF Functions, Tagged
<1>7. QED
  BY <1>4, <1>5, <1>6, FunctionsTyped, FS_AddElement

(* The frontier is an address.                                               *)
LEMMA FrontierTyped ==
    ASSUME ScopesTypeOK, CodeLeft
    PROVE  Frontier \in Nat /\ Frontier >= 1
<1>1. Cardinality(Functions) + 1 \in 1 .. Len(FuncSizes) + 1
  BY FunctionsTyped, ScopesAssumption DEF CodeLeft
<1>2. QED
  BY <1>1, Starts DEF Frontier

(* What is printed is a text again when it follows on the last entry.        *)
LEMMA TextStep ==
    ASSUME ScopesTypeOK, TextOK, NEW d \in Dies, dies' = Append(dies, d), Shaped(d),
           Frontier \in Nat, Frontier' \in Nat, Frontier <= Frontier', d.home.high <= Frontier,
           dies = <<>> => d.depth = 1, dies # <<>> => Follows(dies[Len(dies)], d)
    PROVE  TextOK'
<1> DEFINE n == Len(dies)
<1>1. /\ n \in Nat /\ Len(dies') = n + 1 /\ DOMAIN dies' = 1 .. n + 1 /\ dies'[n + 1] = d
      /\ \A i \in 1 .. n : dies'[i] = dies[i] /\ dies[i] \in Dies
      /\ dies = <<>> <=> n = 0
  BY DieTypes, Printed, EmptySeq DEF ScopesTypeOK
<1>2. ASSUME NEW i \in DOMAIN dies'
      PROVE  Shaped(dies'[i]) /\ dies'[i].home.high <= Frontier'
  <2>1. CASE i = n + 1
    <3>1. dies'[i] = d /\ d.home.high \in Nat
      BY <1>1, <2>1 DEF Dies, Ranges
    <3>2. QED
      BY <3>1
  <2>2. CASE i \in 1 .. n
    <3>1. dies'[i] = dies[i] /\ dies[i].home.high \in Nat
      BY <1>1, <2>2 DEF Dies, Ranges
    <3>2. Shaped(dies[i]) /\ dies[i].home.high <= Frontier
      BY <2>2, DieTypes DEF TextOK
    <3>3. QED
      BY <3>1, <3>2
  <2>3. QED
    BY <1>1, <2>1, <2>2
<1>3. dies'[1].depth = 1
  <2>1. CASE n = 0
    BY <1>1, <2>1
  <2>2. CASE n # 0
    BY <1>1, <2>2 DEF TextOK
  <2>3. QED
    BY <2>1, <2>2
<1>4. ASSUME NEW i \in 2 .. n + 1 PROVE Follows(dies'[i - 1], dies'[i])
  <2>1. CASE i = n + 1
    <3>1. n \in 1 .. n /\ i - 1 = n /\ dies # <<>>
      BY <1>1, <2>1
    <3>2. QED
      BY <1>1, <2>1, <3>1
  <2>2. CASE i # n + 1
    <3>1. i \in 2 .. n /\ i \in 1 .. n /\ i - 1 \in 1 .. n
      BY <1>1, <2>2
    <3>2. dies'[i] = dies[i] /\ dies'[i - 1] = dies[i - 1] /\ Follows(dies[i - 1], dies[i])
      BY <1>1, <3>1 DEF TextOK
    <3>3. QED
      BY <3>2
  <2>3. QED
    BY <2>1, <2>2
<1>5. QED
  BY <1>1, <1>2, <1>3, <1>4 DEF TextOK, Shaped, Follows, IsVariable

(* Of which function an entry is does not change, and the new one is of the  *)
(* last one's function if it is indented.                                    *)
LEMMA FunctionOfPrinted ==
    ASSUME ScopesTypeOK, NEW d \in Dies, dies' = Append(dies, d), NEW f \in 1 .. Len(dies)
    PROVE  /\ \A i \in 1 .. Len(dies) : FunctionOf(f, i)' <=> FunctionOf(f, i)
           /\ \A i : i = Len(dies) + 1 =>
                 (FunctionOf(f, i)' <=> FunctionOf(f, Len(dies)) /\ d.depth >= 2)
<1> DEFINE n == Len(dies)
<1>1. /\ n \in Nat /\ dies'[n + 1] = d /\ \A i \in 1 .. n : dies'[i] = dies[i]
  BY DieTypes, Printed
<1>2. ASSUME NEW i \in 1 .. n PROVE FunctionOf(f, i)' <=> FunctionOf(f, i)
  <2>1. \A j \in f + 1 .. i : j \in 1 .. n
    BY <1>1
  <2>2. QED
    BY <1>1, <2>1 DEF FunctionOf
<1>3. ASSUME NEW i, i = n + 1 PROVE FunctionOf(f, i)' <=> FunctionOf(f, n) /\ d.depth >= 2
  <2>1. /\ \A j \in f + 1 .. n : j \in 1 .. n /\ j \in f + 1 .. i
        /\ \A j \in f + 1 .. i : j = i \/ j \in f + 1 .. n
        /\ i \in f + 1 .. i /\ f \in 1 .. i
    BY <1>1, <1>3
  <2>2. (\A j \in f + 1 .. i : dies'[j].depth >= 2)
           <=> (\A j \in f + 1 .. n : dies[j].depth >= 2) /\ d.depth >= 2
    BY <1>1, <1>3, <2>1
  <2>3. dies'[f] = dies[f]
    BY <1>1
  <2>4. QED
    BY <2>1, <2>2, <2>3 DEF FunctionOf
<1>4. QED
  BY <1>2, <1>3

(* An entry is of one function only. *)
LEMMA OneFunction ==
    ASSUME ScopesTypeOK, TextOK, NEW f \in 1 .. Len(dies), NEW g \in 1 .. Len(dies),
           NEW m \in 1 .. Len(dies), FunctionOf(f, m), FunctionOf(g, m)
    PROVE  f = g
<1>1. Len(dies) \in Nat /\ f \in Nat /\ g \in Nat /\ f \in 1 .. m /\ g \in 1 .. m
  BY DieTypes DEF FunctionOf
<1>2. dies[f].depth = 1 /\ dies[g].depth = 1
  BY DieTypes DEF TextOK, Shaped, FunctionOf
<1>3. ~ (f < g)
  <2>1. SUFFICES ASSUME f < g PROVE FALSE
    OBVIOUS
  <2>2. g \in f + 1 .. m
    BY <1>1, <2>1
  <2>3. QED
    BY <1>2, <2>2 DEF FunctionOf
<1>4. ~ (g < f)
  <2>1. SUFFICES ASSUME g < f PROVE FALSE
    OBVIOUS
  <2>2. f \in g + 1 .. m
    BY <1>1, <2>1
  <2>3. QED
    BY <1>2, <2>2 DEF FunctionOf
<1>5. QED
  BY <1>1, <1>3, <1>4

(* Blocks stay in their functions when one more is printed inside of its     *)
(* own.                                                                      *)
LEMMA BlocksStep ==
    ASSUME ScopesTypeOK, TextOK, BlocksWithin, NEW d \in Dies, dies' = Append(dies, d),
           d.tag = "block" =>
              \E f \in 1 .. Len(dies) : FunctionOf(f, Len(dies)) /\ Within(d, dies[f])
    PROVE  BlocksWithin'
<1> DEFINE n == Len(dies)
<1>1. /\ n \in Nat /\ DOMAIN dies = 1 .. n /\ DOMAIN dies' = 1 .. n + 1 /\ dies'[n + 1] = d
      /\ \A i \in 1 .. n : dies'[i] = dies[i]
  BY DieTypes, Printed
<1>2. ASSUME NEW i \in 1 .. n + 1, dies'[i].tag = "block", NEW g \in 1 .. i, FunctionOf(g, i)'
      PROVE  Within(dies'[i], dies'[g])
  <2>1. CASE i = n + 1
    <3>1. PICK f \in 1 .. n : FunctionOf(f, n) /\ Within(d, dies[f])
      BY <1>1, <1>2, <2>1
    <3>2. g # n + 1
      BY <1>1, <1>2, <2>1 DEF FunctionOf
    <3>3. g \in 1 .. n /\ n \in 1 .. n
      BY <1>1, <2>1, <3>1, <3>2
    <3>4. FunctionOf(g, n)
      BY <1>2, <2>1, <3>3, FunctionOfPrinted
    <3>5. f = g
      BY <3>1, <3>3, <3>4, OneFunction
    <3>6. QED
      BY <1>1, <2>1, <3>1, <3>3, <3>5
  <2>2. CASE i \in 1 .. n
    <3>1. g \in 1 .. n
      BY <1>1, <2>2
    <3>2. FunctionOf(g, i)
      BY <1>2, <2>2, <3>1, FunctionOfPrinted
    <3>3. dies'[i] = dies[i] /\ dies'[g] = dies[g]
      BY <1>1, <2>2, <3>1
    <3>4. Within(dies[i], dies[g])
      BY <1>1, <1>2, <2>2, <3>2, <3>3 DEF BlocksWithin
    <3>5. QED
      BY <3>3, <3>4
  <2>3. QED
    BY <1>1, <2>1, <2>2
<1>3. QED
  BY <1>1, <1>2 DEF BlocksWithin, Within

(* A parameter that is printed lies behind the scopes of the variables       *)
(* before it.                                                                *)
LEMMA ParamsStep ==
    ASSUME ScopesTypeOK, ParamsFirst, NEW d \in Dies, dies' = Append(dies, d),
           d.tag = "param" => \A i \in DOMAIN dies :
               dies[i].tag = "var" /\ dies[i].loc = "fbreg" => dies[i].home.high <= d.home.low
    PROVE  ParamsFirst'
<1> DEFINE n == Len(dies)
<1>1. /\ n \in Nat /\ DOMAIN dies = 1 .. n /\ DOMAIN dies' = 1 .. n + 1 /\ dies'[n + 1] = d
      /\ \A i \in 1 .. n : dies'[i] = dies[i]
  BY DieTypes, Printed
<1>2. ASSUME NEW i \in 1 .. n + 1, NEW j \in 1 .. n + 1, i < j, dies'[i].tag = "var",
             dies'[i].loc = "fbreg", dies'[j].tag = "param"
      PROVE  dies'[i].home.high <= dies'[j].home.low
  <2>1. i \in 1 .. n /\ dies'[i] = dies[i]
    BY <1>1, <1>2
  <2>2. CASE j = n + 1
    BY <1>1, <1>2, <2>1, <2>2
  <2>3. CASE j \in 1 .. n
    BY <1>1, <1>2, <2>1, <2>3 DEF ParamsFirst
  <2>4. QED
    BY <1>1, <2>2, <2>3
<1>3. QED
  BY <1>1, <1>2 DEF ParamsFirst
-------------------------------------------------------------------------------
(* The scopes around the innermost one.                                      *)
LEMMA OuterIs ==
    ASSUME ScopesTypeOK, open # <<>>
    PROVE  /\ Outer \in Seq(ScopeRecord) /\ Len(Outer) = Len(open) - 1
           /\ \A i \in 1 .. Len(open) - 1 : Outer[i] = open[i]
<1>1. /\ open \in Seq(ScopeRecord) /\ Len(open) \in Nat /\ Len(open) # 0
      /\ \A i \in 1 .. Len(open) : open[i] \in ScopeRecord
  BY OpenTypes
<1> DEFINE m == Len(open)
<1>2. 1 .. m - 1 \subseteq 1 .. m /\ m - 1 \in Nat /\ m - 1 \in Int
  BY <1>1
<1> DEFINE k == m - 1
<1>3. k \in Nat /\ 1 \in Int /\ k \in Int /\ \A i \in 1 .. k : open[i] \in ScopeRecord
  BY <1>1, <1>2
<1> HIDE DEF k
<1>4. /\ SubSeq(open, 1, k) \in Seq(ScopeRecord)
      /\ Len(SubSeq(open, 1, k)) = IF 1 <= k THEN k - 1 + 1 ELSE 0
      /\ \A i \in 1 .. k - 1 + 1 : SubSeq(open, 1, k)[i] = open[1 + i - 1]
  BY <1>3, SubSeqProperties
<1>5. /\ SubSeq(open, 1, k) \in Seq(ScopeRecord) /\ Len(SubSeq(open, 1, k)) = k
      /\ \A i \in 1 .. k : SubSeq(open, 1, k)[i] = open[i]
  BY <1>3, <1>4
<1>6. QED
  BY <1>5 DEF Outer, k

(* The innermost scope is replaced. *)
LEMMA InnerStep ==
    ASSUME ScopesTypeOK, open # <<>>, NEW r \in ScopeRecord
    PROVE  LET o == Append(Outer, r)
           IN  /\ o \in Seq(ScopeRecord) /\ Len(o) = Len(open) /\ o[Len(open)] = r
               /\ \A i \in 1 .. Len(open) - 1 : o[i] = open[i]
<1>1. Outer \in Seq(ScopeRecord) /\ Len(Outer) = Len(open) - 1 /\ Len(open) \in Nat
      /\ \A i \in 1 .. Len(open) - 1 : Outer[i] = open[i]
  BY OuterIs, OpenTypes
<1> DEFINE o == Append(Outer, r)
<1>2. /\ o \in Seq(ScopeRecord) /\ Len(o) = Len(Outer) + 1 /\ o[Len(Outer) + 1] = r
      /\ \A i \in 1 .. Len(Outer) : o[i] = Outer[i]
  BY <1>1, AppendProperties
<1> HIDE DEF o
<1>3. QED
  BY <1>1, <1>2 DEF o

(* While a scope is open the last entry is of its function.                  *)
LEMMA LastOfFunction ==
    ASSUME ScopesTypeOK, OpenOK, open # <<>>
    PROVE  /\ dies # <<>> /\ Len(dies) \in 1 .. Len(dies)
           /\ dies[Len(dies)].depth >= 2 \/ dies[Len(dies)].tag = "sub"
<1>1. PICK f \in DOMAIN dies : FunctionOf(f, Len(dies))
  BY DEF OpenOK
<1>2. Len(dies) \in Nat /\ f \in 1 .. Len(dies) /\ dies \in Seq(Dies)
  BY DieTypes DEF ScopesTypeOK
<1>3. dies # <<>> /\ Len(dies) \in 1 .. Len(dies)
  BY <1>2, EmptySeq
<1>4. CASE f = Len(dies)
  BY <1>1, <1>3, <1>4 DEF FunctionOf
<1>5. CASE f # Len(dies)
  <2>1. Len(dies) \in f + 1 .. Len(dies)
    BY <1>2, <1>5
  <2>2. QED
    BY <1>1, <1>3, <2>1 DEF FunctionOf
<1>6. QED
  BY <1>3, <1>4, <1>5

(* Where a scope ends no function goes on behind the frontier. *)
LEMMA HomeLow ==
    ASSUME ScopesInv
    PROVE  Home.high <= Frontier
<1>1. Frontier \in Nat
  BY FrontierTyped DEF ScopesInv
<1>2. CASE open = <<>>
  BY <1>1, <1>2 DEF Home
<1>3. CASE open # <<>>
  <2>1. Len(open) \in DOMAIN open
    BY <1>3, OpenTypes DEF ScopesInv
  <2>2. Inner.high <= Frontier
    BY <2>1 DEF ScopesInv, OpenOK, Inner
  <2>3. QED
    BY <1>3, <2>2 DEF Home
<1>4. QED
  BY <1>2, <1>3

(* An entry other than that of a function is printed. *)
LEMMA LeafStep ==
    ASSUME ScopesInv, NEW d \in Dies, dies' = Append(dies, d), ~ IsFunction(d),
           Shaped(d), d.home = Home,
           dies = <<>> => d.depth = 1, dies # <<>> => Follows(dies[Len(dies)], d),
           d.tag = "block" =>
              \E f \in 1 .. Len(dies) : FunctionOf(f, Len(dies)) /\ Within(d, dies[f]),
           d.tag = "param" => \A i \in DOMAIN dies :
               dies[i].tag = "var" /\ dies[i].loc = "fbreg" => dies[i].home.high <= d.home.low
    PROVE  CodeLeft' /\ TextOK' /\ BlocksWithin' /\ ParamsFirst' /\ Frontier' = Frontier
<1> USE DEF ScopesInv
<1>1. Functions' = Functions
  BY FunctionPrinted
<1>2. CodeLeft' /\ Frontier' = Frontier
  BY <1>1 DEF CodeLeft, Frontier, CodeStart
<1>3. Frontier \in Nat /\ d.home.high <= Frontier
  BY FrontierTyped, HomeLow
<1>4. TextOK'
  BY <1>2, <1>3, TextStep
<1>5. BlocksWithin'
  BY BlocksStep
<1>6. ParamsFirst'
  BY ParamsStep
<1>7. QED
  BY <1>2, <1>4, <1>5, <1>6

(* The function goes on with an entry inside of it. *)
LEMMA FunctionGoesOn ==
    ASSUME ScopesTypeOK, OpenOK, open # <<>>, NEW d \in Dies, dies' = Append(dies, d),
           d.depth >= 2
    PROVE  \E f \in DOMAIN dies' : /\ FunctionOf(f, Len(dies))'
                                   /\ dies'[f].low = open[1].low /\ dies'[f].high = open[1].high
<1>1. PICK f \in DOMAIN dies : FunctionOf(f, Len(dies)) /\ dies[f].low = open[1].low
                                                        /\ dies[f].high = open[1].high
  BY DEF OpenOK
<1>2. f \in 1 .. Len(dies) /\ Len(dies) \in Nat
  BY DieTypes
<1>3. PICK m : m = Len(dies) + 1
  OBVIOUS
<1>4. FunctionOf(f, m)' /\ Len(dies') = m /\ f \in DOMAIN dies' /\ dies'[f] = dies[f]
  BY <1>1, <1>2, <1>3, FunctionOfPrinted, Printed
<1>5. FunctionOf(f, Len(dies))'
  BY <1>4 DEF FunctionOf
<1>6. QED
  BY <1>1, <1>4, <1>5

Kids == {"no", "params", "vars", "blocks"}

(* A variable is printed in the innermost scope. *)
LEMMA VariableStep ==
    ASSUME ScopesInv, open # <<>>, NEW d \in Dies, dies' = Append(dies, d), printing' = printing,
           IsVariable(d), d.depth = Len(open) + 1, d.home = Home, Inner.kids # "blocks",
           NEW kids \in {"params", "vars"}, open' = NowPrinting(kids),
           kids = "params" \/ d.tag = "param" =>
              /\ kids = "params" /\ d.tag = "param"
              /\ Inner.kids \in {"no", "params"} /\ Len(open) = 1
    PROVE  ScopesInv'
<1> DEFINE n == Len(dies)
           m == Len(open)
           r == [Inner EXCEPT !.kids = kids]
<1>1. /\ ScopesTypeOK /\ CodeLeft /\ TextOK /\ BlocksWithin /\ ParamsFirst /\ OpenOK /\ LastOK
  BY DEF ScopesInv
<1>2. /\ m \in Nat /\ m # 0 /\ m \in 1 .. m /\ Inner \in ScopeRecord /\ Home \in Ranges
      /\ DOMAIN open = 1 .. m /\ \A i \in 1 .. m : open[i] \in ScopeRecord
  BY <1>1, OpenTypes
<1>3. n \in 1 .. n /\ dies # <<>> /\ (dies[n].depth >= 2 \/ dies[n].tag = "sub") /\ n \in Nat
      /\ dies[n] \in Dies
  BY <1>1, LastOfFunction, DieTypes
<1>4. /\ r \in ScopeRecord /\ r.low = Inner.low /\ r.high = Inner.high /\ r.free = Inner.free
      /\ r.kids = kids
  BY <1>2 DEF ScopeRecord
<1>5. /\ open' \in Seq(ScopeRecord) /\ Len(open') = m /\ open'[m] = r
      /\ \A i \in 1 .. m - 1 : open'[i] = open[i]
  BY <1>1, <1>4, InnerStep DEF NowPrinting
<1>6. open' # <<>> /\ DOMAIN open' = 1 .. m
  BY <1>2, <1>5, LenProperties, EmptySeq
<1>7. /\ dies' \in Seq(Dies) /\ Len(dies') = n + 1 /\ dies'[n + 1] = d
      /\ \A i \in 1 .. n : dies'[i] = dies[i]
  BY <1>1, Printed
<1>8. ScopesTypeOK'
  BY <1>1, <1>5, <1>7 DEF ScopesTypeOK, ScopeRecord
<1>9. Inner' = r /\ Home' = Home
  BY <1>4, <1>5, <1>6 DEF Inner, Home
<1>10. d.depth >= 2 /\ d.tag \in {"param", "var"} /\ d.depth \in Nat
  BY <1>2 DEF IsVariable
<1> HIDE DEF r
<1>11. Follows(dies[n], d)
  <2>1. \/ dies[n].tag \in {"sub", "block"} /\ Home = [low |-> dies[n].low, high |-> dies[n].high]
        \/ IsVariable(dies[n]) /\ dies[n].depth >= 2 /\ dies[n].home = Home
    BY <1>1 DEF LastOK
  <2>2. d.tag = "param" => dies[n].tag \in {"sub", "param"}
    BY <1>1 DEF LastOK
  <2>3. d.depth # 1
    BY <1>10
  <2>4. QED
    BY <1>3, <2>1, <2>2, <2>3 DEF Follows
<1>12. d.tag = "param" => \A i \in DOMAIN dies :
           dies[i].tag = "var" /\ dies[i].loc = "fbreg" => dies[i].home.high <= d.home.low
  BY <1>1 DEF LastOK, Home
<1>13. CodeLeft' /\ TextOK' /\ BlocksWithin' /\ ParamsFirst' /\ Frontier' = Frontier
  <2>1. Shaped(d) /\ ~ IsFunction(d) /\ d.tag # "block"
    BY <1>10 DEF Shaped, IsFunction
  <2>2. QED
    BY <1>3, <1>11, <1>12, <2>1, LeafStep
<1>14. OpenOK'
  <2>1. \A i \in 1 .. m : /\ open'[i].low = open[i].low /\ open'[i].high = open[i].high
                          /\ open'[i].free = open[i].free /\ (i < m => open'[i].kids = open[i].kids)
    <3>1. \A i \in 1 .. m : i = m \/ i \in 1 .. m - 1
      <4>1. m \in Nat
        BY <1>2
      <4> HIDE DEF m
      <4>2. QED
        BY <4>1
    <3>2. open'[m].low = open[m].low /\ open'[m].high = open[m].high /\ open'[m].free = open[m].free
      BY <1>4, <1>5 DEF Inner
    <3>3. ~ (m < m)
      BY <1>2
    <3>4. QED
      BY <1>5, <3>1, <3>2, <3>3
  <2>2. 1 \in 1 .. m
    BY <1>2
  <2>3. \A i \in 1 .. m :
           /\ Within(open'[i], open'[1]) /\ open'[i].low <= open'[i].free
           /\ open'[i].high <= Frontier /\ (i < m => open'[i].kids = "blocks")
    BY <1>1, <1>2, <2>1, <2>2 DEF OpenOK, Within
  <2>4. \E f \in DOMAIN dies' : /\ FunctionOf(f, Len(dies))'
                                /\ dies'[f].low = open'[1].low /\ dies'[f].high = open'[1].high
    BY <1>1, <1>10, <2>1, <2>2, FunctionGoesOn
  <2>5. QED
    BY <1>5, <1>6, <1>13, <2>3, <2>4 DEF OpenOK, Within
<1>15. LastOK'
  <2>1. dies'[Len(dies')] = d
    BY <1>7
  <2>2. Inner'.kids = kids /\ kids # "no" /\ Inner'.low = Inner.low
    BY <1>4, <1>9
  <2>3. kids = "params" => \A i \in DOMAIN dies' : dies'[i].tag = "var" /\ dies'[i].loc = "fbreg" =>
                                                      dies'[i].home.high <= Inner.low
    <3>1. SUFFICES ASSUME kids = "params", NEW i \in DOMAIN dies', dies'[i].tag = "var",
                          dies'[i].loc = "fbreg"
                   PROVE  dies'[i].home.high <= Inner.low
      OBVIOUS
    <3>2. i \in 1 .. n /\ dies'[i] = dies[i]
      <4>1. i \in 1 .. n + 1 /\ i # n + 1
        BY <1>1, <1>7, <3>1, Printed
      <4>2. QED
        BY <1>3, <1>7, <4>1
    <3>3. QED
      BY <1>1, <3>1, <3>2, DieTypes DEF LastOK
  <2>4. kids \in {"no", "params"} /\ Len(open') = 1 => d.tag \in {"sub", "param"}
    BY <2>2
  <2>5. kids \in {"no", "params"} <=> kids = "params"
    BY <2>2
  <2>6. QED
    BY <1>6, <1>9, <1>10, <2>1, <2>2, <2>3, <2>4, <2>5 DEF LastOK, IsVariable
<1>16. QED
  BY <1>8, <1>13, <1>14, <1>15 DEF ScopesInv
-------------------------------------------------------------------------------
(* An entry of the unit itself is printed. *)
LEMMA OutsideStep ==
    ASSUME ScopesInv, open = <<>>, open' = open, NEW d \in Dies, dies' = Append(dies, d),
           printing' \in BOOLEAN, d.depth = 1, d.tag \in {"sub", "var", "null"},
           ~ IsFunction(d), d.loc # "fbreg", d.home = Home
    PROVE  ScopesInv'
<1> DEFINE n == Len(dies)
<1>1. /\ ScopesTypeOK /\ OpenOK /\ LastOK
  BY DEF ScopesInv
<1>2. /\ n \in Nat /\ dies' \in Seq(Dies) /\ Len(dies') = n + 1 /\ dies'[n + 1] = d
  BY <1>1, DieTypes, Printed
<1>3. ScopesTypeOK'
  BY <1>1, <1>2 DEF ScopesTypeOK
<1>4. dies # <<>> => Follows(dies[n], d)
  <2>1. ~ (d.depth >= 2) /\ d.tag # "param"
    OBVIOUS
  <2>2. dies # <<>> => dies[n].depth = 1 \/ dies[n].tag = "null"
    BY <1>1 DEF LastOK
  <2>3. QED
    BY <2>1, <2>2 DEF Follows
<1>5. CodeLeft' /\ TextOK' /\ BlocksWithin' /\ ParamsFirst'
  <2>1. Shaped(d) /\ d.tag # "block" /\ d.tag # "param"
    BY DEF Shaped
  <2>2. QED
    BY <1>4, <2>1, LeafStep
<1>6. open' = <<>> /\ DOMAIN open' = {}
  BY LenProperties, EmptySeq
<1>7. OpenOK'
  BY <1>6 DEF OpenOK
<1>8. LastOK'
  BY <1>2, <1>6 DEF LastOK
<1>9. QED
  BY <1>3, <1>5, <1>7, <1>8 DEF ScopesInv

(* A function begins: its code lies behind all before.                       *)
LEMMA FunctionStep == ScopesInv /\ PrintFunction => ScopesInv'
<1> SUFFICES ASSUME ScopesInv, PrintFunction PROVE ScopesInv'
  OBVIOUS
<1> DEFINE n == Len(dies)
           k == Cardinality(Functions) + 1
           low == CodeStart[k]
           high == CodeStart[k + 1]
           d == Die("sub", Depth, "", "none", low, high, Home)
           r == [low |-> low, high |-> high, free |-> low, kids |-> "no"]
<1>1. /\ ScopesTypeOK /\ CodeLeft /\ TextOK /\ BlocksWithin /\ ParamsFirst /\ OpenOK /\ LastOK
  BY DEF ScopesInv
<1>2. /\ open = <<>> /\ Cardinality(Functions) < Len(FuncSizes) /\ dies' = Append(dies, d)
      /\ printing' = printing /\ open' = <<r>>
  BY DEF PrintFunction, PrintDie
<1>3. Frontier = low
  BY DEF Frontier
<1>4. Cardinality(Functions) \in Nat /\ Len(FuncSizes) \in Nat
  BY <1>1, FunctionsTyped, ScopesAssumption
<1>5. k \in Nat /\ k \in 1 .. Len(FuncSizes)
  <2> DEFINE c == Cardinality(Functions)
             N == Len(FuncSizes)
  <2>1. c \in Nat /\ N \in Nat /\ c < N
    BY <1>2, <1>4
  <2> HIDE DEF c, N
  <2>2. c + 1 \in Nat /\ c + 1 \in 1 .. N
    BY <2>1
  <2>3. QED
    BY <2>2 DEF c, N
<1> HIDE DEF k
<1>6. low \in Nat /\ high \in Nat /\ low >= 1 /\ low < high
  <2>1. k \in 1 .. Len(FuncSizes) + 1 /\ k + 1 \in 1 .. Len(FuncSizes) + 1
    BY <1>4, <1>5
  <2>2. QED
    BY <1>5, <2>1, Starts
<1>7. Frontier = low
  BY <1>3
<1> HIDE DEF low, high
<1>8. Depth = 1 /\ Home \in Ranges /\ Home.high = 0
  <2>1. Len(open) = 0 /\ Home \in Ranges
    BY <1>1, <1>2, OpenTypes
  <2>2. Depth = 1
    BY <2>1 DEF Depth
  <2>3. Home.high = 0
    BY <1>2 DEF Home
  <2>4. QED
    BY <2>1, <2>2, <2>3
<1>9. /\ d.tag = "sub" /\ d.depth = 1 /\ d.loc = "none" /\ d.home = Home /\ d.home.high = 0
      /\ d.low = low /\ d.high = high
  BY <1>8 DEF Die
<1>10. d \in Dies
  BY <1>6, <1>8 DEF Die, Dies
<1>11. /\ r.low = low /\ r.high = high /\ r.free = low /\ r.kids = "no" /\ r \in ScopeRecord
  BY <1>6 DEF ScopeRecord
<1> HIDE DEF d, r
<1>12. IsFunction(d) /\ Shaped(d)
  BY <1>6, <1>9 DEF IsFunction, Shaped
<1>13. /\ n \in Nat /\ dies' \in Seq(Dies) /\ Len(dies') = n + 1 /\ dies'[n + 1] = d
      /\ DOMAIN dies' = 1 .. n + 1 /\ \A i \in 1 .. n : dies'[i] = dies[i]
  BY <1>1, <1>2, <1>10, DieTypes, Printed
<1>14. /\ open' \in Seq(ScopeRecord) /\ Len(open') = 1 /\ open'[1] = r /\ DOMAIN open' = {1}
       /\ open' # <<>>
  BY <1>2, <1>11
<1>15. ScopesTypeOK'
  BY <1>1, <1>2, <1>13, <1>14 DEF ScopesTypeOK, ScopeRecord
<1>16. Cardinality(Functions') = k
  BY <1>1, <1>2, <1>10, <1>12, FunctionPrinted DEF k
<1>17. Cardinality(Functions)' = k
  BY <1>16
<1>18. CodeLeft' /\ Frontier' = high
  BY <1>17, <1>4, <1>5 DEF CodeLeft, Frontier, high, CodeStart
<1>19. TextOK'
  <2>1. dies # <<>> => Follows(dies[n], d)
    <3>1. dies # <<>> => dies[n].depth = 1 \/ dies[n].tag = "null"
      BY <1>1, <1>2 DEF LastOK
    <3>2. QED
      BY <1>9, <3>1 DEF Follows, IsVariable
  <2>2. d.home.high <= Frontier /\ Frontier <= Frontier' /\ Frontier \in Nat /\ Frontier' \in Nat
    BY <1>6, <1>7, <1>9, <1>18
  <2>3. QED
    BY <1>1, <1>2, <1>9, <1>10, <1>12, <2>1, <2>2, TextStep
<1>20. BlocksWithin' /\ ParamsFirst'
  <2>1. d.tag # "block" /\ d.tag # "param"
    BY <1>9
  <2>2. QED
    BY <1>1, <1>2, <1>10, <2>1, BlocksStep, ParamsStep
<1>21. OpenOK'
  <2>1. FunctionOf(Len(dies), Len(dies))'
    <3>1. /\ n + 1 \in 1 .. n + 1
          /\ \A j \in (n + 1) + 1 .. n + 1 : FALSE
      BY <1>13
    <3>2. QED
      BY <1>9, <1>13, <3>1 DEF FunctionOf
  <2>2. n + 1 \in DOMAIN dies' /\ dies'[n + 1].low = open'[1].low
        /\ dies'[n + 1].high = open'[1].high
    BY <1>9, <1>11, <1>13, <1>14
  <2>3. \E f \in DOMAIN dies' : /\ FunctionOf(f, Len(dies))'
                                /\ dies'[f].low = open'[1].low /\ dies'[f].high = open'[1].high
    <3>1. PICK m : m = n + 1
      OBVIOUS
    <3>2. FunctionOf(m, Len(dies))'
      BY <1>13, <2>1, <3>1 DEF FunctionOf
    <3>3. QED
      BY <2>2, <3>1, <3>2
  <2>4. \A i \in DOMAIN open' :
           /\ Within(open'[i], open'[1]) /\ open'[i].low <= open'[i].free
           /\ open'[i].high <= Frontier' /\ (i < Len(open') => open'[i].kids = "blocks")
    BY <1>6, <1>11, <1>14, <1>18 DEF Within
  <2>5. QED
    BY <2>3, <2>4 DEF OpenOK, Within
<1>22. LastOK'
  <2>1. dies'[Len(dies')] = d /\ Inner' = r /\ Home' = [low |-> low, high |-> high]
    BY <1>11, <1>13, <1>14 DEF Inner, Home
  <2>2. \A i \in DOMAIN dies' : dies'[i].tag = "var" /\ dies'[i].loc = "fbreg" =>
           dies'[i].home.high <= low
    <3>1. SUFFICES ASSUME NEW i \in DOMAIN dies', dies'[i].tag = "var"
                   PROVE  dies'[i].home.high <= low
      OBVIOUS
    <3>2. i \in 1 .. n /\ dies'[i] = dies[i]
      BY <1>9, <1>13, <3>1
    <3>3. QED
      BY <1>1, <1>7, <3>2, DieTypes DEF TextOK
  <2>3. QED
    BY <1>9, <1>11, <1>14, <2>1, <2>2 DEF LastOK
<1>23. QED
  BY <1>15, <1>18, <1>19, <1>20, <1>21, <1>22 DEF ScopesInv

(* A block begins inside of the innermost scope, behind its last block.      *)
LEMMA BlockStep ==
    ASSUME ScopesInv, NEW low \in Pcs, NEW high \in Pcs, PrintBlock(low, high)
    PROVE  ScopesInv'
<1> DEFINE n == Len(dies)
           m == Len(open)
           d == Die("block", Depth, "", "none", low, high, Home)
           r == [Inner EXCEPT !.kids = "blocks", !.free = high]
           q == [low |-> low, high |-> high, free |-> low, kids |-> "no"]
           o == Append(Outer, r)
<1>1. /\ ScopesTypeOK /\ CodeLeft /\ TextOK /\ BlocksWithin /\ ParamsFirst /\ OpenOK /\ LastOK
  BY DEF ScopesInv
<1>2. /\ open # <<>> /\ Inner.free <= low /\ low < high /\ high <= Inner.high
      /\ dies' = Append(dies, d) /\ printing' = printing /\ open' = Append(o, q)
  BY DEF PrintBlock, PrintDie
<1>3. /\ m \in Nat /\ m # 0 /\ Inner \in ScopeRecord /\ Home \in Ranges
       /\ DOMAIN open = 1 .. m /\ \A i \in 1 .. m : open[i] \in ScopeRecord
  BY <1>1, <1>2, OpenTypes
<1>4. /\ m \in Nat /\ m # 0 /\ m \in 1 .. m /\ 1 \in 1 .. m /\ Inner \in ScopeRecord
      /\ Home \in Ranges /\ DOMAIN open = 1 .. m /\ \A i \in 1 .. m : open[i] \in ScopeRecord
  <2> HIDE DEF m
  <2>1. m \in 1 .. m /\ 1 \in 1 .. m
    BY <1>3
  <2>2. QED
    BY <1>3, <2>1
<1>5. low \in Nat /\ high \in Nat
  BY PcsTyped
<1>6. /\ Inner.low \in Nat /\ Inner.high \in Nat /\ Inner.free \in Nat
      /\ open[1].low \in Nat /\ open[1].high \in Nat
  BY <1>4 DEF ScopeRecord
<1>7. /\ Inner = open[m] /\ Within(Inner, open[1]) /\ Inner.low <= Inner.free
      /\ Inner.high <= Frontier
  BY <1>1, <1>4 DEF OpenOK, Inner
<1>8. Frontier \in Nat
  BY <1>1, FrontierTyped
<1>9. open[1].low >= 1 /\ open[1].low <= low /\ high <= open[1].high /\ high <= Frontier
  <2>1. open[1].low >= 1 /\ open[1].low <= Inner.low /\ Inner.high <= open[1].high
    BY <1>7 DEF Within
  <2>2. Inner.free <= low /\ high <= Inner.high
    BY <1>2
  <2>3. QED
    BY <1>5, <1>6, <1>7, <1>8, <2>1, <2>2
<1>10. /\ d.tag = "block" /\ d.depth = m + 1 /\ d.loc = "none" /\ d.home = Home
      /\ d.low = low /\ d.high = high
  BY DEF Die, Depth
<1>11. d \in Dies
  BY <1>4, <1>5 DEF Die, Dies, Depth
<1>12. /\ r \in ScopeRecord /\ r.low = Inner.low /\ r.high = Inner.high /\ r.free = high
       /\ r.kids = "blocks"
  BY <1>4, <1>5 DEF ScopeRecord
<1>13. q \in ScopeRecord /\ q.low = low /\ q.high = high /\ q.free = low /\ q.kids = "no"
  BY <1>5 DEF ScopeRecord
<1> HIDE DEF d, r, q
<1>14. o \in Seq(ScopeRecord) /\ Len(o) = m /\ o[m] = r /\ \A i \in 1 .. m - 1 : o[i] = open[i]
  BY <1>1, <1>2, <1>12, InnerStep
<1> HIDE DEF o
<1>15. /\ open' \in Seq(ScopeRecord) /\ Len(open') = m + 1 /\ open'[m + 1] = q
       /\ \A i \in 1 .. m : open'[i] = o[i]
  BY <1>2, <1>13, <1>14, AppendProperties
<1>16. open' # <<>> /\ DOMAIN open' = 1 .. m + 1
  BY <1>4, <1>15, LenProperties, EmptySeq
<1>17. /\ dies' \in Seq(Dies) /\ Len(dies') = n + 1 /\ dies'[n + 1] = d
  BY <1>1, <1>2, <1>11, Printed
<1>18. ScopesTypeOK'
  BY <1>1, <1>2, <1>15, <1>17 DEF ScopesTypeOK, ScopeRecord
<1>19. n \in 1 .. n /\ dies # <<>> /\ (dies[n].depth >= 2 \/ dies[n].tag = "sub")
  BY <1>1, <1>2, LastOfFunction
<1>20. d.depth >= 2 /\ d.depth # 1
  BY <1>4, <1>10
<1>21. CodeLeft' /\ TextOK' /\ BlocksWithin' /\ ParamsFirst' /\ Frontier' = Frontier
  <2>1. Shaped(d) /\ ~ IsFunction(d) /\ d.tag # "param"
    BY <1>10, <1>20 DEF Shaped, IsFunction
  <2>2. Follows(dies[n], d)
    BY <1>10, <1>19, <1>20 DEF Follows, IsVariable
  <2>3. \E f \in 1 .. n : FunctionOf(f, n) /\ Within(d, dies[f])
    <3>1. PICK f \in DOMAIN dies : FunctionOf(f, n) /\ dies[f].low = open[1].low
                                                    /\ dies[f].high = open[1].high
      BY <1>1, <1>2 DEF OpenOK
    <3>2. Within(d, dies[f])
      BY <1>9, <1>10, <3>1 DEF Within
    <3>3. QED
      BY <1>1, <3>1, <3>2, DieTypes
  <2>4. QED
    BY <1>2, <1>10, <1>11, <1>19, <2>1, <2>2, <2>3, LeafStep
<1>22. OpenOK'
  <2>1. open'[1].low = open[1].low /\ open'[1].high = open[1].high
    <3>1. CASE m = 1
      BY <1>4, <1>7, <1>12, <1>14, <1>15, <3>1
    <3>2. CASE m # 1
      <4>1. 1 \in 1 .. m - 1
        BY <1>4, <3>2
      <4>2. QED
        BY <1>4, <1>14, <1>15, <4>1
    <3>3. QED
      BY <3>1, <3>2
  <2>2. ASSUME NEW i \in 1 .. m + 1
        PROVE  /\ open'[i].low >= 1 /\ open[1].low <= open'[i].low
               /\ open'[i].high <= open[1].high /\ open'[i].low <= open'[i].free
               /\ open'[i].high <= Frontier /\ (i < m + 1 => open'[i].kids = "blocks")
    <3>1. CASE i = m + 1
      <4>1. open'[i] = q /\ ~ (i < m + 1)
        BY <1>4, <1>15, <3>1
      <4>2. QED
        BY <1>5, <1>6, <1>9, <1>13, <4>1
    <3>2. CASE i = m
      <4>1. open'[i] = r
        BY <1>4, <1>14, <1>15, <3>2
      <4>2. Inner.low <= high /\ Inner.low >= 1
        BY <1>2, <1>5, <1>6, <1>7, <1>9 DEF Within
      <4>3. QED
        BY <1>5, <1>6, <1>7, <1>12, <4>1, <4>2 DEF Within
    <3>3. CASE i # m + 1 /\ i # m
      <4>1. i \in 1 .. m - 1 /\ i \in 1 .. m /\ i < m
        <5>1. m \in Nat
          BY <1>4
        <5> HIDE DEF m
        <5>2. QED
          BY <3>3, <5>1
      <4>2. open'[i] = open[i]
        BY <1>14, <1>15, <4>1
      <4>3. /\ Within(open[i], open[1]) /\ open[i].low <= open[i].free
            /\ open[i].high <= Frontier /\ open[i].kids = "blocks"
        BY <1>1, <1>4, <4>1 DEF OpenOK
      <4>4. open[i].low \in Nat /\ open[i].low >= 1
        <5>1. open[i].low \in Nat
          BY <1>4, <4>1 DEF ScopeRecord
        <5>2. open[1].low <= open[i].low
          BY <4>3 DEF Within
        <5>3. QED
          BY <1>6, <1>9, <5>1, <5>2
      <4>5. QED
        BY <4>2, <4>3, <4>4 DEF Within
    <3>4. QED
      BY <3>1, <3>2, <3>3
  <2>3. \A i \in 1 .. m + 1 :
           /\ Within(open'[i], open'[1]) /\ open'[i].low <= open'[i].free
           /\ open'[i].high <= Frontier' /\ (i < Len(open') => open'[i].kids = "blocks")
    <3>1. open'[1].low >= 1
      BY <1>9, <2>1
    <3>2. QED
      BY <1>15, <1>21, <2>1, <2>2, <3>1 DEF Within
  <2>4. \E f \in DOMAIN dies' : /\ FunctionOf(f, Len(dies))'
                                /\ dies'[f].low = open'[1].low /\ dies'[f].high = open'[1].high
    BY <1>1, <1>2, <1>11, <1>20, <2>1, FunctionGoesOn
  <2>5. QED
    BY <1>16, <2>3, <2>4 DEF OpenOK, Within
<1>23. LastOK'
  <2>1. dies'[Len(dies')] = d /\ Inner' = q /\ Home' = [low |-> low, high |-> high]
    BY <1>13, <1>15, <1>16, <1>17 DEF Inner, Home
  <2>2. Len(open') # 1
    BY <1>4, <1>15
  <2>3. QED
    BY <1>10, <1>13, <1>16, <2>1, <2>2 DEF LastOK
<1>24. QED
  BY <1>18, <1>21, <1>22, <1>23 DEF ScopesInv
-------------------------------------------------------------------------------
(* A scope ends, with a NULL if anything was printed in it.                  *)
LEMMA CloseStep == ScopesInv /\ Close => ScopesInv'
<1> SUFFICES ASSUME ScopesInv, Close PROVE ScopesInv'
  OBVIOUS
<1> DEFINE n == Len(dies)
           m == Len(open)
           d == Die("null", Depth, "", "none", 0, 0, Home)
<1>1. /\ ScopesTypeOK /\ CodeLeft /\ TextOK /\ BlocksWithin /\ ParamsFirst /\ OpenOK /\ LastOK
  BY DEF ScopesInv
<1>2. open # <<>> /\ open' = Outer
  BY DEF Close
<1>3. Inner.kids = "no" => dies' = dies /\ printing' = printing
  BY DEF Close
<1>4. Inner.kids # "no" => dies' = Append(dies, d) /\ printing' = printing
  BY DEF Close, PrintDie
<1>5. /\ m \in Nat /\ m # 0 /\ Home \in Ranges /\ DOMAIN open = 1 .. m
      /\ \A i \in 1 .. m : open[i] \in ScopeRecord
  BY <1>1, <1>2, OpenTypes
<1>6. /\ open' \in Seq(ScopeRecord) /\ Len(open') = m - 1
      /\ \A i \in 1 .. m - 1 : open'[i] = open[i]
  BY <1>1, <1>2, OuterIs
<1>7. DOMAIN open' = 1 .. m - 1 /\ (open' = <<>> <=> m = 1)
  BY <1>5, <1>6, LenProperties, EmptySeq
<1>8. n \in 1 .. n /\ dies # <<>> /\ (dies[n].depth >= 2 \/ dies[n].tag = "sub") /\ n \in Nat
  BY <1>1, <1>2, LastOfFunction, DieTypes
<1>9. /\ d.tag = "null" /\ d.depth = m + 1 /\ d.loc = "none" /\ d.home = Home /\ d \in Dies
  BY <1>5 DEF Die, Depth, Dies
<1> HIDE DEF d
<1>10. d.depth >= 2 /\ d.depth # 1
  BY <1>5, <1>9
<1>11. ASSUME NEW i \in 1 .. m - 1
       PROVE  /\ Within(open'[i], open'[1]) /\ open'[i].low <= open'[i].free
              /\ open'[i].high <= Frontier /\ open'[i].kids = "blocks" /\ open'[1] = open[1]
  <2>1. 1 \in 1 .. m - 1 /\ i \in 1 .. m /\ i < m
    <3>1. m \in Nat
      BY <1>5
    <3> HIDE DEF m
    <3>2. QED
      BY <3>1
  <2>2. open'[i] = open[i] /\ open'[1] = open[1]
    BY <1>6, <2>1
  <2>3. QED
    BY <1>1, <1>5, <2>1, <2>2 DEF OpenOK
<1>12. open' # <<>> => 1 \in 1 .. m - 1 /\ m - 1 \in 1 .. m - 1
  <2>1. m \in Nat /\ m # 0 /\ (open' # <<>> => m # 1)
    BY <1>5, <1>7
  <2> HIDE DEF m
  <2>2. QED
    BY <2>1
<1>13. open' # <<>> => Inner'.kids = "blocks"
  BY <1>6, <1>11, <1>12 DEF Inner
<1>14. CASE Inner.kids = "no"
  <2>1. dies' = dies /\ printing' = printing
    BY <1>3, <1>14
  <2>2. ScopesTypeOK'
    BY <1>1, <1>6, <2>1 DEF ScopesTypeOK, ScopeRecord
  <2>3. Frontier' = Frontier
    BY <2>1 DEF Frontier, Functions, Tagged, CodeStart
  <2>4. CodeLeft' /\ TextOK' /\ BlocksWithin' /\ ParamsFirst'
    <3>1. CodeLeft'
      BY <1>1, <2>1 DEF CodeLeft, Functions, Tagged
    <3>2. TextOK'
      BY <1>1, <2>1, <2>3 DEF TextOK, Shaped, Follows, IsVariable
    <3>3. BlocksWithin'
      BY <1>1, <2>1 DEF BlocksWithin, FunctionOf, Within
    <3>4. ParamsFirst'
      BY <1>1, <2>1 DEF ParamsFirst
    <3>5. QED
      BY <3>1, <3>2, <3>3, <3>4
  <2>5. OpenOK'
    <3>1. \A i \in DOMAIN open' :
             /\ Within(open'[i], open'[1]) /\ open'[i].low <= open'[i].free
             /\ open'[i].high <= Frontier' /\ (i < Len(open') => open'[i].kids = "blocks")
      BY <1>7, <1>11, <2>3
    <3>2. open' # <<>> =>
             \E f \in DOMAIN dies' : /\ FunctionOf(f, Len(dies))'
                                     /\ dies'[f].low = open'[1].low /\ dies'[f].high = open'[1].high
      BY <1>1, <1>2, <1>11, <1>12, <2>1 DEF OpenOK, FunctionOf
    <3>3. QED
      BY <3>1, <3>2 DEF OpenOK, Within
  <2>6. LastOK'
    <3>1. open' = <<>> => dies'[Len(dies')].depth = 1
      <4>1. SUFFICES ASSUME open' = <<>> PROVE dies[n].depth = 1
        BY <2>1
      <4>2. dies[n].tag = "sub"
        BY <1>1, <1>2, <1>7, <1>14, <4>1 DEF LastOK
      <4>3. QED
        BY <1>1, <1>8, <4>2, DieTypes DEF TextOK, Shaped
    <3>2. QED
      BY <1>13, <3>1 DEF LastOK
  <2>7. QED
    BY <2>2, <2>4, <2>5, <2>6 DEF ScopesInv
<1>15. CASE Inner.kids # "no"
  <2>1. dies' = Append(dies, d) /\ printing' = printing
    BY <1>4, <1>15
  <2>2. dies' \in Seq(Dies) /\ Len(dies') = n + 1 /\ dies'[n + 1] = d
    BY <1>1, <1>9, <2>1, Printed
  <2>3. ScopesTypeOK'
    BY <1>1, <1>6, <2>1, <2>2 DEF ScopesTypeOK, ScopeRecord
  <2>4. CodeLeft' /\ TextOK' /\ BlocksWithin' /\ ParamsFirst' /\ Frontier' = Frontier
    <3>1. Shaped(d) /\ ~ IsFunction(d) /\ d.tag \notin {"param", "block"}
      BY <1>9, <1>10 DEF Shaped, IsFunction
    <3>2. Follows(dies[n], d)
      BY <1>8, <1>9, <1>10 DEF Follows, IsVariable
    <3>3. QED
      BY <1>8, <1>9, <2>1, <3>1, <3>2, LeafStep
  <2>5. OpenOK'
    <3>1. \A i \in DOMAIN open' :
             /\ Within(open'[i], open'[1]) /\ open'[i].low <= open'[i].free
             /\ open'[i].high <= Frontier' /\ (i < Len(open') => open'[i].kids = "blocks")
      BY <1>7, <1>11, <2>4
    <3>2. open' # <<>> =>
             \E f \in DOMAIN dies' : /\ FunctionOf(f, Len(dies))'
                                     /\ dies'[f].low = open'[1].low /\ dies'[f].high = open'[1].high
      <4>1. \E f \in DOMAIN dies' : /\ FunctionOf(f, Len(dies))'
                                    /\ dies'[f].low = open[1].low /\ dies'[f].high = open[1].high
        BY <1>1, <1>2, <1>9, <1>10, <2>1, FunctionGoesOn
      <4>2. open' # <<>> => open'[1] = open[1]
        BY <1>11, <1>12
      <4>3. QED
        BY <4>1, <4>2
    <3>3. QED
      BY <3>1, <3>2 DEF OpenOK, Within
  <2>6. LastOK'
    <3>1. dies'[Len(dies')] = d
      BY <2>2
    <3>2. QED
      BY <1>9, <1>13, <3>1 DEF LastOK
  <2>7. QED
    BY <2>3, <2>4, <2>5, <2>6 DEF ScopesInv
<1>16. QED
  BY <1>14, <1>15

(* Nothing is printed at first.                                              *)
LEMMA ScopesInitInv == ScopesInit => ScopesInv
<1> SUFFICES ASSUME ScopesInit PROVE ScopesInv
  OBVIOUS
<1>1. dies = <<>> /\ open = <<>> /\ printing = TRUE
  BY DEF ScopesInit
<1>2. ScopesTypeOK
  BY <1>1, EmptySeq DEF ScopesTypeOK
<1>3. Functions = {} /\ DOMAIN dies = {} /\ DOMAIN open = {} /\ Len(dies) = 0
  BY <1>1, EmptySeq DEF Functions, Tagged
<1>4. CodeLeft
  BY <1>3, FS_EmptySet, ScopesAssumption DEF CodeLeft
<1>5. TextOK /\ BlocksWithin /\ ParamsFirst /\ OpenOK /\ LastOK
  BY <1>1, <1>3 DEF TextOK, BlocksWithin, ParamsFirst, OpenOK, LastOK
<1>6. QED
  BY <1>2, <1>4, <1>5 DEF ScopesInv

(* The entries outside of functions: a global variable ...                   *)
LEMMA GlobalStep ==
    ASSUME ScopesInv, NEW x \in VarNames, NEW loc, PrintGlobal(x, loc)
    PROVE  ScopesInv'
<1> DEFINE d == Die("var", Depth, x, loc, 0, 0, Home)
<1>1. ScopesTypeOK /\ open = <<>> /\ open' = open /\ dies' = Append(dies, d)
      /\ printing' = printing /\ loc \in {"addr", "none"}
  BY DEF PrintGlobal, PrintDie, ScopesInv
<1>2. Depth = 1 /\ Home \in Ranges
  <2>1. Len(open) = 0 /\ Home \in Ranges
    BY <1>1, OpenTypes
  <2>2. Depth = 1
    BY <2>1 DEF Depth
  <2>3. QED
    BY <2>1, <2>2
<1>3. d \in Dies /\ d.depth = 1 /\ d.tag = "var" /\ d.loc = loc /\ d.home = Home
  BY <1>1, <1>2 DEF Die, Dies
<1> HIDE DEF d
<1>4. ~ IsFunction(d) /\ printing' \in BOOLEAN
  BY <1>1, <1>3 DEF IsFunction, ScopesTypeOK
<1>5. QED
  BY <1>1, <1>3, <1>4, OutsideStep

(* ... a function that is only declared ...                                  *)
LEMMA DeclarationStep == ScopesInv /\ PrintDeclaration => ScopesInv'
<1> SUFFICES ASSUME ScopesInv, PrintDeclaration PROVE ScopesInv'
  OBVIOUS
<1> DEFINE d == Die("sub", Depth, "", "none", 0, 0, Home)
<1>1. ScopesTypeOK /\ open = <<>> /\ open' = open /\ dies' = Append(dies, d)
      /\ printing' = printing
  BY DEF PrintDeclaration, PrintDie, ScopesInv
<1>2. Depth = 1 /\ Home \in Ranges
  <2>1. Len(open) = 0 /\ Home \in Ranges
    BY <1>1, OpenTypes
  <2>2. Depth = 1
    BY <2>1 DEF Depth
  <2>3. QED
    BY <2>1, <2>2
<1>3. d \in Dies /\ d.depth = 1 /\ d.tag = "sub" /\ d.loc = "none" /\ d.home = Home /\ d.high = 0
  BY <1>1, <1>2 DEF Die, Dies
<1> HIDE DEF d
<1>4. ~ IsFunction(d) /\ printing' \in BOOLEAN
  BY <1>1, <1>3 DEF IsFunction, ScopesTypeOK
<1>5. QED
  BY <1>1, <1>3, <1>4, OutsideStep

(* ... and the NULL behind the unit.                                         *)
LEMMA EndStep == ScopesInv /\ PrintEnd => ScopesInv'
<1> SUFFICES ASSUME ScopesInv, PrintEnd PROVE ScopesInv'
  OBVIOUS
<1> DEFINE d == Die("null", Depth, "", "none", 0, 0, Home)
<1>1. ScopesTypeOK /\ open = <<>> /\ open' = open /\ dies' = Append(dies, d)
      /\ printing' = FALSE
  BY DEF PrintEnd, ScopesInv
<1>2. Depth = 1 /\ Home \in Ranges
  <2>1. Len(open) = 0 /\ Home \in Ranges
    BY <1>1, OpenTypes
  <2>2. Depth = 1
    BY <2>1 DEF Depth
  <2>3. QED
    BY <2>1, <2>2
<1>3. d \in Dies /\ d.depth = 1 /\ d.tag = "null" /\ d.loc = "none" /\ d.home = Home
  BY <1>1, <1>2 DEF Die, Dies
<1> HIDE DEF d
<1>4. ~ IsFunction(d) /\ printing' \in BOOLEAN
  BY <1>1, <1>3 DEF IsFunction
<1>5. QED
  BY <1>1, <1>3, <1>4, OutsideStep

(* The entries inside of a function: a parameter, before any variable ...    *)
LEMMA ParamStep ==
    ASSUME ScopesInv, NEW x \in VarNames, PrintParam(x)
    PROVE  ScopesInv'
<1> DEFINE d == Die("param", Depth, x, "fbreg", 0, 0, Home)
<1>1. ScopesTypeOK /\ Len(open) = 1 /\ Inner.kids \in {"no", "params"}
      /\ dies' = Append(dies, d) /\ printing' = printing /\ open' = NowPrinting("params")
  BY DEF PrintParam, PrintDie, ScopesInv
<1>2. Depth \in Nat /\ Depth = Len(open) + 1 /\ Home \in Ranges /\ open # <<>>
  BY <1>1, OpenTypes DEF Depth
<1>3. d \in Dies /\ d.depth = Len(open) + 1 /\ d.tag = "param" /\ d.home = Home
  BY <1>2 DEF Die, Dies
<1> HIDE DEF d
<1>4. IsVariable(d) /\ Inner.kids # "blocks" /\ "params" \in {"params", "vars"}
  BY <1>1, <1>3 DEF IsVariable
<1>5. QED
  BY <1>1, <1>2, <1>3, <1>4, VariableStep

(* ... and a variable, before any block of its scope.                        *)
LEMMA LocalStep ==
    ASSUME ScopesInv, NEW x \in VarNames, NEW loc, PrintLocal(x, loc)
    PROVE  ScopesInv'
<1> DEFINE d == Die("var", Depth, x, loc, 0, 0, Home)
<1>1. ScopesTypeOK /\ open # <<>> /\ Inner.kids # "blocks" /\ loc \in {"fbreg", "addr"}
      /\ dies' = Append(dies, d) /\ printing' = printing /\ open' = NowPrinting("vars")
  BY DEF PrintLocal, PrintDie, ScopesInv
<1>2. Depth \in Nat /\ Depth = Len(open) + 1 /\ Home \in Ranges
  BY <1>1, OpenTypes DEF Depth
<1>3. d \in Dies /\ d.depth = Len(open) + 1 /\ d.tag = "var" /\ d.home = Home
  BY <1>1, <1>2 DEF Die, Dies
<1> HIDE DEF d
<1>4. IsVariable(d) /\ "vars" \in {"params", "vars"} /\ "vars" # "params"
  BY <1>3 DEF IsVariable
<1>5. QED
  BY <1>1, <1>3, <1>4, VariableStep

(* Every step of the printer keeps the invariant.                            *)
LEMMA ScopesStep == ScopesInv /\ [ScopesNext]_scopesVars => ScopesInv'
<1> SUFFICES ASSUME ScopesInv, [ScopesNext]_scopesVars PROVE ScopesInv'
  OBVIOUS
<1>1. CASE PrinterNext
  <2>1. CASE PrintFunction
    BY <2>1, FunctionStep
  <2>2. CASE PrintDeclaration
    BY <2>2, DeclarationStep
  <2>3. CASE Close
    BY <2>3, CloseStep
  <2>4. CASE PrintEnd
    BY <2>4, EndStep
  <2>5. ASSUME NEW x \in VarNames, NEW loc \in {"fbreg", "addr", "none"},
               PrintGlobal(x, loc) \/ PrintLocal(x, loc) \/ (loc = "fbreg" /\ PrintParam(x))
        PROVE  ScopesInv'
    BY <2>5, GlobalStep, LocalStep, ParamStep
  <2>6. ASSUME NEW low \in Pcs, NEW high \in Pcs, PrintBlock(low, high) PROVE ScopesInv'
    BY <2>6, BlockStep
  <2>7. QED
    BY <1>1, <2>1, <2>2, <2>3, <2>4, <2>5, <2>6 DEF PrinterNext
<1>2. CASE UNCHANGED scopesVars
  <2>1. dies' = dies /\ open' = open /\ printing' = printing
    BY <1>2 DEF scopesVars
  <2>2. Functions' = Functions /\ Inner' = Inner /\ Home' = Home /\ Frontier' = Frontier
    BY <2>1 DEF Functions, Tagged, Inner, Home, Frontier, CodeStart
  <2>3. ScopesTypeOK' /\ CodeLeft' /\ ParamsFirst'
    BY <2>1, <2>2 DEF ScopesInv, ScopesTypeOK, CodeLeft, ParamsFirst
  <2>4. TextOK'
    BY <2>1, <2>2 DEF ScopesInv, TextOK, Shaped, Follows, IsVariable
  <2>5. BlocksWithin' /\ OpenOK'
    BY <2>1, <2>2 DEF ScopesInv, BlocksWithin, OpenOK, FunctionOf, Within
  <2>6. LastOK'
    BY <2>1, <2>2 DEF ScopesInv, LastOK, IsVariable
  <2>7. QED
    BY <2>3, <2>4, <2>5, <2>6 DEF ScopesInv
<1>3. QED
  BY <1>1, <1>2 DEF ScopesNext

(* So it holds in every text.                                                *)
THEOREM ScopesInvariance == ScopesSpec => []ScopesInv
<1> QED BY ScopesInitInv, ScopesStep, PTL DEF ScopesSpec

(* The entries are what dwarfdump may print, each scope's range is one, and  *)
(* the scopes that are open are those whose children are being printed.      *)
THEOREM ScopesTyping == ScopesSpec => []ScopesTypeOK
<1>1. ScopesInv => ScopesTypeOK
  BY DEF ScopesInv
<1> QED BY <1>1, ScopesInvariance, PTL

(* However scopes nest and follow each other, and whatever of them is empty, *)
(* print finds a local variable of a name at exactly the addresses where C   *)
(* sees one, and one that is in scope there (find_local_var).                *)
THEOREM LocalsAreVisible == ScopesSpec => []LocalIsVisible
<1>1. ScopesInv => LocalIsVisible
  BY ReadableLocals DEF ScopesInv, Readable
<1> QED BY <1>1, ScopesInvariance, PTL

(* In every such text print and show mean the same variable by a name, though *)
(* collect_show_vars follows blocks by other rules than find_local_var does.  *)
THEOREM PrintAndShowAgree == ScopesSpec => []PrintShowAgree
<1>1. ScopesInv => PrintShowAgree
  BY ReadableAgree DEF ScopesInv, Readable
<1> QED BY <1>1, ScopesInvariance, PTL
===============================================================================
