-------------------------- MODULE GeojsonMap_proofs --------------------------
(***************************************************************************)
(* What holds of the map for any number of files, loads and features.      *)
(* While the popup is closed, nothing is selected in the layer whose       *)
(* selection its close button would clear; which layers are cleared plays  *)
(* no part in this.  The map shows each layer once, of loads that ended,   *)
(* and all of the last mapping: this rests on what the recursive function  *)
(* Resets is, for which the least number of a set takes the place of       *)
(* induction.                                                              *)
(***************************************************************************)
EXTENDS GeojsonMap, WellFoundedInduction, TLAPS

LoadsOK == loads \in Seq(Load) /\ closer \in {0} \cup DOMAIN loads

\* An interaction exists, and so anything is selected, only once the load has ended.
OnlyMappedSelects == \A i \in DOMAIN loads : loads[i].state # "mapped" => loads[i].selected = None

SelectionInv == LoadsOK /\ OnlyMappedSelects /\ ClosedIsUnselected
-----------------------------------------------------------------------------
LEMMA MapInit == Init => SelectionInv
<1> SUFFICES ASSUME Init PROVE SelectionInv
  OBVIOUS
<1>1. loads = <<>> /\ closer = 0
  BY DEF Init
<1> QED BY <1>1 DEF SelectionInv, LoadsOK, OnlyMappedSelects, ClosedIsUnselected

\* A load whose record changes leaves the others as they are.
LEMMA LoadReplaced ==
  ASSUME NEW q \in Seq(Load), NEW i \in DOMAIN q, NEW r \in Load, NEW p, p = [q EXCEPT ![i] = r]
  PROVE  /\ p \in Seq(Load) /\ DOMAIN p = DOMAIN q
         /\ p[i] = r
         /\ \A j \in DOMAIN q : j # i => p[j] = q[j]
OBVIOUS

LEMMA LoadEnded ==
  ASSUME NEW q \in Seq(Load), NEW i \in DOMAIN q, NEW s \in {"fetching", "failed", "empty", "mapped"},
         NEW p, p = [q EXCEPT ![i].state = s]
  PROVE  /\ p \in Seq(Load) /\ DOMAIN p = DOMAIN q
         /\ p[i].state = s /\ p[i].selected = q[i].selected
         /\ \A j \in DOMAIN q : j # i => p[j] = q[j]
<1>1. q[i] \in Load
  OBVIOUS
<1>2. PICK r : r = [q[i] EXCEPT !.state = s]
  OBVIOUS
<1>3. r \in Load /\ r.state = s /\ r.selected = q[i].selected
  BY <1>1, <1>2 DEF Load
<1>4. p = [q EXCEPT ![i] = r]
  BY <1>2
<1>5. /\ p \in Seq(Load) /\ DOMAIN p = DOMAIN q
      /\ p[i] = r
      /\ \A j \in DOMAIN q : j # i => p[j] = q[j]
  <2>1. r \in Load
    BY <1>3
  <2>2. p \in Seq(Load)
    BY <2>1, <1>4, LoadReplaced
  <2>3. DOMAIN p = DOMAIN q
    BY <2>1, <1>4, LoadReplaced
  <2>4. p[i] = r
    BY <2>1, <1>4, LoadReplaced
  <2>5. \A j \in DOMAIN q : j # i => p[j] = q[j]
    BY <2>1, <1>4, LoadReplaced
  <2> QED BY <2>2, <2>3, <2>4, <2>5
<1> QED BY <1>3, <1>5

LEMMA LoadUnselected ==
  ASSUME NEW q \in Seq(Load), NEW i \in DOMAIN q, NEW p, p = [q EXCEPT ![i].selected = None]
  PROVE  /\ p \in Seq(Load) /\ DOMAIN p = DOMAIN q
         /\ p[i].selected = None /\ p[i].state = q[i].state
         /\ \A j \in DOMAIN q : j # i => p[j] = q[j]
<1>1. q[i] \in Load
  OBVIOUS
<1>2. PICK r : r = [q[i] EXCEPT !.selected = None]
  OBVIOUS
<1>3. r \in Load /\ r.selected = None /\ r.state = q[i].state
  BY <1>1, <1>2 DEF Load
<1>4. p = [q EXCEPT ![i] = r]
  BY <1>2
<1>5. /\ p \in Seq(Load) /\ DOMAIN p = DOMAIN q
      /\ p[i] = r
      /\ \A j \in DOMAIN q : j # i => p[j] = q[j]
  <2>1. r \in Load
    BY <1>3
  <2>2. p \in Seq(Load)
    BY <2>1, <1>4, LoadReplaced
  <2>3. DOMAIN p = DOMAIN q
    BY <2>1, <1>4, LoadReplaced
  <2>4. p[i] = r
    BY <2>1, <1>4, LoadReplaced
  <2>5. \A j \in DOMAIN q : j # i => p[j] = q[j]
    BY <2>1, <1>4, LoadReplaced
  <2> QED BY <2>2, <2>3, <2>4, <2>5
<1> QED BY <1>3, <1>5

\* The map button adds loads behind the old ones.
LEMMA LoadsAdded ==
  ASSUME loads \in Seq(Load), NEW fs \in Seq(Files), mapButton(fs)
  PROVE  \E new \in Seq(Load) :
           /\ Len(new) = Len(fs)
           /\ \A i \in 1..Len(new) : new[i].selected = None /\ new[i].state = "fetching"
           /\ loads' \in Seq(Load) /\ Len(loads') = Len(loads) + Len(new)
           /\ \A i \in 1..Len(loads) : loads'[i] = loads[i]
           /\ \A i \in 1..Len(new) : loads'[Len(loads) + i] = new[i]
<1>1. PICK new : new = [i \in 1..Len(fs) |-> Started(fs[i])]
  OBVIOUS
<1>2. \A i \in 1..Len(fs) : /\ Started(fs[i]) \in Load
                           /\ Started(fs[i]).selected = None /\ Started(fs[i]).state = "fetching"
  BY DEF Started, Load
<1>3. new \in Seq(Load) /\ Len(new) = Len(fs)
      /\ \A i \in 1..Len(fs) : new[i].selected = None /\ new[i].state = "fetching"
  BY <1>1, <1>2
<1>4. loads' = loads \o new
  BY <1>1 DEF mapButton
<1>5. PICK old \in Seq(Load), more \in Seq(Load) : old = loads /\ more = new
  BY <1>3
<1>6. /\ old \o more \in Seq(Load) /\ Len(old \o more) = Len(old) + Len(more)
      /\ \A i \in 1..Len(old) : (old \o more)[i] = old[i]
      /\ \A i \in 1..Len(more) : (old \o more)[Len(old) + i] = more[i]
  OBVIOUS
<1> QED BY <1>3, <1>4, <1>5, <1>6

\* New loads start without a selection, behind the old ones.
LEMMA MapStarts ==
  ASSUME SelectionInv, NEW fs \in Seq(Files), mapButton(fs)
  PROVE  SelectionInv'
<1>1. loads \in Seq(Load) /\ closer \in {0} \cup DOMAIN loads
  BY DEF SelectionInv, LoadsOK
<1>2. PICK new \in Seq(Load) :
        /\ Len(new) = Len(fs)
        /\ \A i \in 1..Len(new) : new[i].selected = None /\ new[i].state = "fetching"
        /\ loads' \in Seq(Load) /\ Len(loads') = Len(loads) + Len(new)
        /\ \A i \in 1..Len(loads) : loads'[i] = loads[i]
        /\ \A i \in 1..Len(new) : loads'[Len(loads) + i] = new[i]
  BY <1>1, LoadsAdded
<1>4. new \in Seq(Load) /\ Len(new) = Len(fs)
      /\ \A i \in 1..Len(fs) : new[i].selected = None
  BY <1>2
<1>5. popup' = popup /\ closer' = closer
  BY DEF mapButton
<1>6. /\ loads' \in Seq(Load) /\ Len(loads') = Len(loads) + Len(new)
      /\ \A i \in 1..Len(loads) : loads'[i] = loads[i]
      /\ \A i \in 1..Len(new) : loads'[Len(loads) + i] = new[i]
  BY <1>2
<1>7. LoadsOK'
  BY <1>1, <1>4, <1>5, <1>6 DEF LoadsOK
<1>8. OnlyMappedSelects'
  <2> SUFFICES ASSUME NEW i \in DOMAIN loads', loads'[i].state # "mapped"
               PROVE  loads'[i].selected = None
    BY DEF OnlyMappedSelects
  <2>1. i \in 1..(Len(loads) + Len(new)) /\ Len(loads) \in Nat /\ Len(new) \in Nat
    BY <1>1, <1>4, <1>6
  <2>2. CASE i \in 1..Len(loads)
    BY <1>1, <1>6, <2>2 DEF SelectionInv, OnlyMappedSelects
  <2>3. CASE i \notin 1..Len(loads)
    <3>1. PICK k \in 1..Len(new) : i = Len(loads) + k
      <4>1. i - Len(loads) \in 1..Len(new) /\ i = Len(loads) + (i - Len(loads))
        BY <2>1, <2>3
      <4> QED BY <4>1
    <3> QED BY <1>4, <1>6, <3>1
  <2> QED BY <2>2, <2>3
<1>9. ClosedIsUnselected'
  BY <1>1, <1>5, <1>6, SMTT(20) DEF SelectionInv, ClosedIsUnselected
<1> QED BY <1>7, <1>8, <1>9 DEF SelectionInv

\* A load ends: its feature has not been selected, as nobody has clicked on it.
LEMMA MapEnds ==
  ASSUME SelectionInv, NEW i \in DOMAIN loads, Mapped(i) \/ MappedEmpty(i) \/ Failed(i)
  PROVE  SelectionInv'
<1>1. loads \in Seq(Load) /\ closer \in {0} \cup DOMAIN loads
  BY DEF SelectionInv, LoadsOK
<1>2. loads[i].state = "fetching" /\ loads[i].selected = None
  BY DEF SelectionInv, OnlyMappedSelects, Mapped, MappedEmpty, Failed
<1>3. PICK s \in {"fetching", "failed", "empty", "mapped"} : loads' = [loads EXCEPT ![i].state = s]
  BY DEF Mapped, MappedEmpty, Failed
<1>4. popup' = popup /\ closer' \in {closer, i}
  BY DEF Mapped, MappedEmpty, Failed
<1>5. /\ loads' \in Seq(Load) /\ DOMAIN loads' = DOMAIN loads
      /\ loads'[i].state = s /\ loads'[i].selected = None
      /\ \A j \in DOMAIN loads : j # i => loads'[j] = loads[j]
  BY <1>1, <1>2, <1>3, LoadEnded
<1>6. LoadsOK'
  BY <1>1, <1>4, <1>5 DEF LoadsOK
<1>7. OnlyMappedSelects'
  BY <1>5 DEF SelectionInv, OnlyMappedSelects
<1>8. ClosedIsUnselected'
  BY <1>1, <1>4, <1>5 DEF SelectionInv, ClosedIsUnselected
<1> QED BY <1>6, <1>7, <1>8 DEF SelectionInv

\* If the popup stays closed, the click has selected nothing new anywhere.
LEMMA MapClicked ==
  ASSUME SelectionInv, NEW hit \in [OnMap -> Feature \cup {None}], Click(hit)
  PROVE  SelectionInv'
<1> DEFINE selected(i) == IF i \in DOMAIN hit THEN hit[i] ELSE None
<1>1. loads \in Seq(Load) /\ closer \in {0} \cup DOMAIN loads
      /\ DOMAIN loads = 1..Len(loads) /\ Len(loads) \in Nat
  BY DEF SelectionInv, LoadsOK
<1>2. loads' = [i \in DOMAIN loads |-> [loads[i] EXCEPT !.selected = selected(i)]] /\ closer' = closer
  BY DEF Click
<1>3. \A i \in DOMAIN loads : selected(i) \in Feature \cup {None}
                              /\ (loads[i].state # "mapped" => selected(i) = None)
  BY DEF OnMap
<1>4. \A i \in DOMAIN loads : loads'[i] \in Load /\ loads'[i].selected = selected(i)
                              /\ loads'[i].state = loads[i].state
  <2> SUFFICES ASSUME NEW i \in DOMAIN loads
               PROVE  loads'[i] \in Load /\ loads'[i].selected = selected(i)
                      /\ loads'[i].state = loads[i].state
    OBVIOUS
  <2>1. loads[i] \in Load
    BY <1>1
  <2>2. PICK f \in Feature \cup {None} : f = selected(i)
    BY <1>3
  <2>3. loads'[i] = [loads[i] EXCEPT !.selected = f]
    BY <1>2, <2>2
  <2> HIDE DEF selected
  <2> QED BY <2>1, <2>2, <2>3 DEF Load
<1>5. LoadsOK'
  BY <1>1, <1>2, <1>4 DEF LoadsOK
<1>6. OnlyMappedSelects'
  BY <1>2, <1>3, <1>4 DEF OnlyMappedSelects
<1>7. ASSUME popup' = None, closer # 0 PROVE loads'[closer].selected = None
  <2>1. DOMAIN hit = OnMap /\ \A i \in DOMAIN hit : hit[i] \in {None, loads[i].selected}
    BY <1>7 DEF Click
  <2>2. popup = None
    BY <1>7, <2>1 DEF Click
  <2>3. loads[closer].selected = None
    BY <1>7, <2>2 DEF SelectionInv, ClosedIsUnselected
  <2>4. selected(closer) = None
    BY <2>1, <2>3
  <2> QED BY <1>1, <1>4, <1>7, <2>4
<1>8. ClosedIsUnselected'
  BY <1>2, <1>7 DEF ClosedIsUnselected
<1> QED BY <1>5, <1>6, <1>8 DEF SelectionInv

LEMMA MapClosed ==
  ASSUME SelectionInv, Close
  PROVE  SelectionInv'
<1>1. loads \in Seq(Load) /\ closer \in {0} \cup DOMAIN loads
  BY DEF SelectionInv, LoadsOK
<1>2. loads' = [loads EXCEPT ![closer].selected = None] /\ closer' = closer
  BY DEF Close
<1>3. CASE closer \in DOMAIN loads
  <2>1. /\ loads' \in Seq(Load) /\ DOMAIN loads' = DOMAIN loads
        /\ loads'[closer].selected = None /\ loads'[closer].state = loads[closer].state
        /\ \A j \in DOMAIN loads : j # closer => loads'[j] = loads[j]
    BY <1>1, <1>2, <1>3, LoadUnselected
  <2> QED BY <1>1, <1>2, <2>1 DEF SelectionInv, LoadsOK, OnlyMappedSelects, ClosedIsUnselected
<1>4. CASE closer \notin DOMAIN loads
  <2>1. loads' = loads /\ closer = 0
    BY <1>1, <1>2, <1>4
  <2> QED BY <1>1, <1>2, <2>1 DEF SelectionInv, LoadsOK, OnlyMappedSelects, ClosedIsUnselected
<1> QED BY <1>3, <1>4

\* Every step of the map keeps the invariant.
LEMMA MapStep == SelectionInv /\ [Next]_vars => SelectionInv'
<1> SUFFICES ASSUME SelectionInv, [Next]_vars PROVE SelectionInv'
  OBVIOUS
<1>1. CASE \E fs \in Checked : mapButton(fs)
  <2>1. PICK fs \in Checked : mapButton(fs)
    BY <1>1
  <2>2. fs \in Seq(Files)
    BY DEF Checked
  <2> QED BY <2>1, <2>2, MapStarts
<1>2. CASE \E i \in DOMAIN loads : Mapped(i) \/ MappedEmpty(i) \/ Failed(i)
  BY <1>2, MapEnds
<1>3. CASE \E hit \in [OnMap -> Feature \cup {None}] : Click(hit)
  BY <1>3, MapClicked
<1>4. CASE Close
  BY <1>4, MapClosed
<1>5. CASE UNCHANGED vars
  BY <1>5 DEF vars, SelectionInv, LoadsOK, OnlyMappedSelects, ClosedIsUnselected
<1> QED BY <1>1, <1>2, <1>3, <1>4, <1>5 DEF Next

\* The close button clears the selection of the layer that came last only, but no
\* feature of that layer ever stays selected behind a closed popup, where a click
\* on it would open nothing.
THEOREM ClosedCorrect == Spec => []ClosedIsUnselected
<1>1. Spec => []SelectionInv
  BY MapInit, MapStep, PTL DEF Spec
<1>2. SelectionInv => ClosedIsUnselected
  BY DEF SelectionInv
<1> QED BY <1>1, <1>2, PTL
-----------------------------------------------------------------------------
(* Least elements of sets of numbers, and functions that repeat a step.        *)

LEMMA NatMin ==
  ASSUME NEW T, T \subseteq Nat, T # {}
  PROVE  \E n \in T : \A m \in T : n <= m
<1> DEFINE R == OpToRel(<, Nat)
<1>1. IsWellFoundedOn(R, Nat)
  BY NatLessThanWellFounded
<1>2. \A x, y \in Nat : x < y => <<x, y>> \in R
  BY DEF OpToRel
<1> HIDE DEF R
<1>3. PICK n \in T : \A m \in T : ~ (<<m, n>> \in R)
  BY <1>1, WFMin
<1>4. \A m \in T : m \in Nat /\ n \in Nat /\ ~(m < n)
  BY <1>2, <1>3, Zenon
<1> QED BY <1>4

\* f iterates step up to n times.
Iterates(f, n, S, step) ==
  /\ f \in [0 .. n -> [S -> S]]
  /\ f[0] = [x \in S |-> x]
  /\ \A k \in 1 .. n : f[k] = [x \in S |-> step[f[k - 1][x]]]

LEMMA IterationLonger ==
  ASSUME NEW S, NEW step \in [S -> S], NEW n \in Nat, NEW f, Iterates(f, n, S, step)
  PROVE  \E g : Iterates(g, n + 1, S, step) /\ \A k \in 0 .. n : g[k] = f[k]
<1> DEFINE g == [k \in 0 .. n + 1 |-> IF k <= n THEN f[k] ELSE [x \in S |-> step[f[n][x]]]]
<1>1. f \in [0 .. n -> [S -> S]] /\ f[0] = [x \in S |-> x]
  BY DEF Iterates
<1>2. \A k \in 1 .. n : f[k] = [x \in S |-> step[f[k - 1][x]]]
  BY DEF Iterates
<1>3. [x \in S |-> step[f[n][x]]] \in [S -> S]
  BY <1>1
<1>4. g \in [0 .. n + 1 -> [S -> S]]
  BY <1>1, <1>3
<1>5. \A k \in 0 .. n : g[k] = f[k]
  BY <1>1
<1>6. g[n + 1] = [x \in S |-> step[f[n][x]]]
  BY <1>1
<1> HIDE DEF g
<1>7. \A k \in 1 .. n + 1 : g[k] = [x \in S |-> step[g[k - 1][x]]]
  <2> TAKE k \in 1 .. n + 1
  <2>1. CASE k \in 1 .. n
    <3>1. g[k] = f[k] /\ g[k - 1] = f[k - 1]
      BY <1>5, <2>1
    <3>2. f[k] = [x \in S |-> step[f[k - 1][x]]]
      BY <1>2, <2>1
    <3> QED BY <3>1, <3>2
  <2>2. CASE k = n + 1
    <3>1. g[k - 1] = f[n]
      BY <1>5, <2>2
    <3> QED BY <1>6, <2>2, <3>1
  <2> QED BY <2>1, <2>2
<1>8. g[0] = [x \in S |-> x]
  BY <1>1, <1>5
<1> QED BY <1>4, <1>5, <1>7, <1>8 DEF Iterates

LEMMA IterationExists ==
  ASSUME NEW S, NEW step \in [S -> S]
  PROVE  \A n \in Nat : \E f : Iterates(f, n, S, step)
<1> DEFINE Bad == {n \in Nat : ~ \E f : Iterates(f, n, S, step)}
<1> SUFFICES ASSUME Bad # {} PROVE FALSE
  OBVIOUS
<1>1. PICK n \in Bad : \A m \in Bad : n <= m
  <2>1. Bad \subseteq Nat
    OBVIOUS
  <2> HIDE DEF Bad
  <2> QED BY <2>1, NatMin
<1>2. CASE n = 0
  <2>1. Iterates([k \in 0 .. 0 |-> [x \in S |-> x]], 0, S, step)
    <3> DEFINE f == [k \in 0 .. 0 |-> [x \in S |-> x]]
    <3>1. f \in [0 .. 0 -> [S -> S]] /\ f[0] = [x \in S |-> x]
      OBVIOUS
    <3> HIDE DEF f
    <3>2. Iterates(f, 0, S, step)
      BY <3>1 DEF Iterates
    <3> QED BY <3>2 DEF f
  <2> QED BY <1>1, <1>2, <2>1
<1>3. CASE n # 0
  <2>1. n - 1 \in Nat /\ ~(n <= n - 1) /\ (n - 1) + 1 = n
    BY <1>1, <1>3
  <2>2. \E f : Iterates(f, n - 1, S, step)
    BY <1>1, <2>1
  <2>3. PICK f : Iterates(f, n - 1, S, step)
    BY <2>2
  <2>4. \E g : Iterates(g, (n - 1) + 1, S, step)
    BY <2>1, <2>3, IterationLonger
  <2> QED BY <1>1, <2>1, <2>4
<1> QED BY <1>2, <1>3

LEMMA IterationUnique ==
  ASSUME NEW S, NEW step \in [S -> S], NEW m \in Nat, NEW n \in Nat,
         NEW f, NEW g, Iterates(f, m, S, step), Iterates(g, n, S, step)
  PROVE  \A k \in 0 .. m : k <= n => f[k] = g[k]
<1> DEFINE Bad == {k \in 0 .. m : k <= n /\ f[k] # g[k]}
<1> SUFFICES ASSUME Bad # {} PROVE FALSE
  OBVIOUS
<1>1. PICK k \in Bad : \A j \in Bad : k <= j
  <2>1. Bad \subseteq Nat
    OBVIOUS
  <2> HIDE DEF Bad
  <2> QED BY <2>1, NatMin
<1>2. k # 0
  BY <1>1 DEF Iterates
<1>3. k - 1 \in 0 .. m /\ k - 1 <= n /\ ~(k <= k - 1) /\ k \in 1 .. m /\ k \in 1 .. n
  BY <1>1, <1>2
<1>4. f[k - 1] = g[k - 1]
  BY <1>1, <1>3
<1>5. f[k] = [x \in S |-> step[f[k - 1][x]]] /\ g[k] = [x \in S |-> step[g[k - 1][x]]]
  BY <1>3 DEF Iterates
<1> QED BY <1>1, <1>4, <1>5

Repeats(R, S, step) ==
  /\ R \in [Nat -> [S -> S]]
  /\ \A n \in Nat, x \in S : R[n][x] = IF n = 0 THEN x ELSE step[R[n - 1][x]]

\* A function that repeats step any number of times exists.
LEMMA RecursionExists ==
  ASSUME NEW S, NEW step \in [S -> S]
  PROVE  \E R : Repeats(R, S, step)
<1> DEFINE F(n) == CHOOSE f : Iterates(f, n, S, step)
           R == [n \in Nat |-> F(n)[n]]
<1>1. \A n \in Nat : Iterates(F(n), n, S, step)
  <2> TAKE n \in Nat
  <2>1. \E f : Iterates(f, n, S, step)
    BY IterationExists
  <2> QED BY <2>1, Zenon
<1>2. \A n \in Nat : R[n] = F(n)[n]
  OBVIOUS
<1> HIDE DEF F
<1>3. ASSUME NEW n \in Nat
      PROVE  R[n] = [x \in S |-> IF n = 0 THEN x ELSE step[R[n - 1][x]]]
  <2>1. CASE n = 0
    <3>1. F(0)[0] = [x \in S |-> x]
      BY <1>1 DEF Iterates
    <3> QED BY <1>2, <2>1, <3>1
  <2>2. CASE n # 0
    <3>1. n - 1 \in Nat /\ n \in 1 .. n /\ n - 1 \in 0 .. n /\ n - 1 \in 0 .. n - 1 /\ n - 1 <= n
      BY <2>2
    <3>2. F(n)[n] = [x \in S |-> step[F(n)[n - 1][x]]]
      BY <1>1, <3>1 DEF Iterates
    <3>3. F(n - 1)[n - 1] = F(n)[n - 1]
      <4>1. Iterates(F(n - 1), n - 1, S, step) /\ Iterates(F(n), n, S, step)
        BY <1>1, <3>1
      <4> QED BY <3>1, <4>1, IterationUnique
    <3>4. R[n - 1] = F(n)[n - 1]
      BY <1>2, <3>1, <3>3
    <3>5. \A x \in S : step[F(n)[n - 1][x]] = step[R[n - 1][x]]
      BY <3>4
    <3> QED BY <1>2, <2>2, <3>2, <3>5
  <2> QED BY <2>1, <2>2
<1>4. ASSUME NEW n \in Nat, NEW x \in S
      PROVE  R[n][x] = IF n = 0 THEN x ELSE step[R[n - 1][x]]
  <2>1. R[n] = [y \in S |-> IF n = 0 THEN y ELSE step[R[n - 1][y]]]
    BY <1>3
  <2> HIDE DEF R
  <2> QED BY <2>1
<1>5. R \in [Nat -> [S -> S]]
  <2> SUFFICES ASSUME NEW n \in Nat PROVE F(n)[n] \in [S -> S]
    OBVIOUS
  <2>1. PICK f : f = F(n) /\ Iterates(f, n, S, step)
    BY <1>1
  <2>2. f \in [0 .. n -> [S -> S]] /\ n \in 0 .. n
    BY <2>1 DEF Iterates
  <2> QED BY <2>1, <2>2
<1> HIDE DEF R
<1>6. Repeats(R, S, step)
  BY <1>4, <1>5 DEF Repeats
<1> QED BY <1>6

LayerLists == Seq(1..MaxLoads)

LEMMA ResetLayersType ==
  ASSUME NEW S, NEW ls \in Seq(S)
  PROVE  /\ resetLayers(ls) \in Seq(S) /\ Len(resetLayers(ls)) = Len(ls) \div 2
         /\ \A i \in 1 .. Len(resetLayers(ls)) :
              2 * i \in 1 .. Len(ls) /\ resetLayers(ls)[i] = ls[2 * i]
<1>1. Len(ls) \in Nat /\ Len(ls) \div 2 \in Nat /\ \A i \in 1 .. Len(ls) \div 2 : 2 * i \in 1 .. Len(ls)
  OBVIOUS
<1>2. \A i \in 1 .. Len(ls) : ls[i] \in S
  OBVIOUS
<1> QED BY <1>1, <1>2 DEF resetLayers

\* Clearing n times over: the recursive definition has what it says as its value.
LEMMA ResetsIs ==
  Resets = [n \in Nat |-> [ls \in LayerLists |->
              IF n = 0 THEN ls ELSE resetLayers(Resets[n - 1][ls])]]
<1> DEFINE step == [ls \in LayerLists |-> resetLayers(ls)]
<1>1. \A ls \in LayerLists : resetLayers(ls) \in LayerLists
  BY ResetLayersType DEF LayerLists
<1>2. step \in [LayerLists -> LayerLists] /\ \A ls \in LayerLists : step[ls] = resetLayers(ls)
  BY <1>1
<1> HIDE DEF step
<1>3. PICK R : Repeats(R, LayerLists, step)
  BY <1>2, RecursionExists
<1>4. /\ R \in [Nat -> [LayerLists -> LayerLists]]
      /\ \A n \in Nat, ls \in LayerLists : R[n][ls] = IF n = 0 THEN ls ELSE step[R[n - 1][ls]]
  BY <1>3 DEF Repeats
<1>5. ASSUME NEW n \in Nat, NEW ls \in LayerLists
      PROVE  R[n][ls] = IF n = 0 THEN ls ELSE resetLayers(R[n - 1][ls])
  <2>1. R[n][ls] = IF n = 0 THEN ls ELSE step[R[n - 1][ls]]
    BY <1>4
  <2>2. n # 0 => n - 1 \in Nat /\ R[n - 1][ls] \in LayerLists
    BY <1>4
  <2> QED BY <1>2, <2>1, <2>2
<1>6. R = [n \in Nat |-> [ls \in LayerLists |-> IF n = 0 THEN ls ELSE resetLayers(R[n - 1][ls])]]
  BY <1>4, <1>5
<1> QED BY <1>6 DEF Resets, LayerLists

\* What clearing once preserves, clearing any number of times preserves.
LEMMA ResetsKeep ==
  ASSUME NEW G, G \subseteq LayerLists, \A ls \in G : resetLayers(ls) \in G
  PROVE  \A n \in Nat : \A ls \in G : Resets[n][ls] \in G
<1> DEFINE Bad == {n \in Nat : \E ls \in G : Resets[n][ls] \notin G}
<1> SUFFICES ASSUME Bad # {} PROVE FALSE
  OBVIOUS
<1>1. PICK n \in Bad : \A m \in Bad : n <= m
  <2>1. Bad \subseteq Nat
    OBVIOUS
  <2> HIDE DEF Bad
  <2> QED BY <2>1, NatMin
<1>2. PICK ls \in G : Resets[n][ls] \notin G
  BY <1>1
<1>3. Resets[n][ls] = IF n = 0 THEN ls ELSE resetLayers(Resets[n - 1][ls])
  BY ResetsIs, <1>1
<1>4. n # 0
  BY <1>2, <1>3
<1>5. n - 1 \in Nat /\ ~(n <= n - 1)
  BY <1>1, <1>4
<1>6. Resets[n - 1][ls] \in G
  BY <1>1, <1>5
<1> QED BY <1>2, <1>3, <1>4, <1>6

-----------------------------------------------------------------------------
(* What is on the map. *)

Ended == {i \in DOMAIN loads : loads[i].state \in {"empty", "mapped"}}

Once(S) == {ls \in Seq(S) : \A i, j \in DOMAIN ls : ls[i] = ls[j] => i = j}

\* The map shows layers of ended loads, each once, and those of the last mapping's.
LayersInv ==
  /\ loads \in Seq(Load) /\ Len(loads) <= MaxLoads
  /\ layers \in Once(Ended)
  /\ popup \in Feature \cup {None}
  /\ closer \in {0} \cup DOMAIN loads
  /\ since \in 1..(Len(loads) + 1)
  /\ \A i \in Ended : i >= since => \E j \in DOMAIN layers : layers[j] = i

LEMMA LayersStart == Init => LayersInv
<1> SUFFICES ASSUME Init PROVE LayersInv
  OBVIOUS
<1>1. loads = <<>> /\ layers = <<>> /\ popup = None /\ closer = 0 /\ since = 1
  BY DEF Init
<1>2. DOMAIN loads = {} /\ Len(loads) = 0 /\ loads \in Seq(Load)
  BY <1>1
<1>3. \A S : layers \in Seq(S) /\ DOMAIN layers = {}
  BY <1>1
<1> QED BY <1>1, <1>2, <1>3, MapAssumption DEF LayersInv, Ended, Once

LEMMA WiderSeq ==
  ASSUME NEW S, NEW T, S \subseteq T, NEW q \in Seq(S)
  PROVE  q \in Seq(T)
OBVIOUS

\* Clearing leaves layers that were there, each once.
LEMMA OnceKept ==
  ASSUME NEW S, S \subseteq 1..MaxLoads, NEW ls \in Once(S), NEW n \in Nat
  PROVE  Resets[n][ls] \in Once(S)
<1>1. Once(S) \subseteq LayerLists
  <2> SUFFICES ASSUME NEW q \in Seq(S) PROVE q \in Seq(1..MaxLoads)
    BY DEF Once, LayerLists
  <2> QED BY WiderSeq
<1>2. ASSUME NEW q \in Once(S) PROVE resetLayers(q) \in Once(S)
  <2>1. q \in Seq(S) /\ \A i, j \in 1..Len(q) : q[i] = q[j] => i = j
    BY DEF Once
  <2>2. /\ resetLayers(q) \in Seq(S) /\ Len(resetLayers(q)) = Len(q) \div 2
        /\ \A i \in 1 .. Len(resetLayers(q)) :
             2 * i \in 1 .. Len(q) /\ resetLayers(q)[i] = q[2 * i]
    BY <2>1, ResetLayersType
  <2>3. \A i, j \in 1..Len(resetLayers(q)) : resetLayers(q)[i] = resetLayers(q)[j] => i = j
    <3> TAKE i, j \in 1..Len(resetLayers(q))
    <3>1. resetLayers(q)[i] = resetLayers(q)[j] => 2 * i = 2 * j
      BY <2>1, <2>2
    <3>2. i \in Int /\ j \in Int
      BY <2>2
    <3> QED BY <3>1, <3>2
  <2> QED BY <2>2, <2>3 DEF Once
<1> QED BY <1>1, <1>2, ResetsKeep

\* A new mapping: none of its files is on the map yet.
LEMMA LayersCleared ==
  ASSUME LayersInv, NEW fs \in Seq(Files), mapButton(fs)
  PROVE  LayersInv'
<1>1. /\ loads \in Seq(Load) /\ Len(loads) <= MaxLoads /\ Len(loads) \in Nat
      /\ DOMAIN loads = 1..Len(loads) /\ layers \in Once(Ended) /\ closer \in {0} \cup DOMAIN loads
      /\ popup \in Feature \cup {None}
  BY DEF LayersInv
<1>2. PICK new \in Seq(Load) :
        /\ Len(new) = Len(fs)
        /\ \A i \in 1..Len(new) : new[i].selected = None /\ new[i].state = "fetching"
        /\ loads' \in Seq(Load) /\ Len(loads') = Len(loads) + Len(new)
        /\ \A i \in 1..Len(loads) : loads'[i] = loads[i]
        /\ \A i \in 1..Len(new) : loads'[Len(loads) + i] = new[i]
  BY <1>1, LoadsAdded
<1>3. /\ layers' = Resets[Len(fs)][layers] /\ since' = Len(loads) + 1 /\ popup' = popup
      /\ closer' = closer /\ Len(loads) + Len(fs) <= MaxLoads
  BY DEF mapButton
<1>4. Len(loads') = Len(loads) + Len(fs) /\ Len(fs) \in Nat /\ DOMAIN loads' = 1..Len(loads')
  BY <1>2
<1>5. Ended \subseteq 1..MaxLoads
  BY <1>1, MapAssumption DEF Ended
<1>6. layers' \in Once(Ended)
  BY <1>1, <1>3, <1>4, <1>5, OnceKept
<1>7. Ended' = Ended
  <2>1. \A i \in 1..Len(loads) : i \in Ended <=> i \in Ended'
    BY <1>1, <1>2, <1>4 DEF Ended
  <2>2. ASSUME NEW i \in DOMAIN loads', i \notin 1..Len(loads)
        PROVE  i \notin Ended'
    <3>1. i - Len(loads) \in 1..Len(new) /\ Len(loads) + (i - Len(loads)) = i
      BY <1>1, <1>2, <1>4, <2>2
    <3>2. loads'[i].state = "fetching"
      BY <1>2, <3>1
    <3> QED BY <3>2 DEF Ended
  <2>3. Ended \subseteq 1..Len(loads) /\ Ended' \subseteq DOMAIN loads'
    BY <1>1 DEF Ended
  <2> QED BY <2>1, <2>2, <2>3
<1>8. \A i \in Ended' : ~(i >= since')
  BY <1>1, <1>3, <1>7 DEF Ended
<1>9. (layers \in Once(Ended))'
  BY <1>6, <1>7 DEF Once
<1>10. closer' \in {0} \cup DOMAIN loads' /\ since' \in 1..(Len(loads') + 1) /\ Len(loads') <= MaxLoads
  BY <1>1, <1>3, <1>4
<1>11. popup' \in Feature \cup {None}
  BY <1>1, <1>3
<1> QED BY <1>2, <1>8, <1>9, <1>10, <1>11 DEF LayersInv, Feature

\* A load ends, and its layer, if it has one, comes on top of the others.
LEMMA LayersEnd ==
  ASSUME LayersInv, NEW i \in DOMAIN loads, Mapped(i) \/ MappedEmpty(i) \/ Failed(i)
  PROVE  LayersInv'
<1>1. /\ loads \in Seq(Load) /\ Len(loads) <= MaxLoads /\ Len(loads) \in Nat
      /\ DOMAIN loads = 1..Len(loads) /\ closer \in {0} \cup DOMAIN loads
      /\ popup \in Feature \cup {None} /\ since \in 1..(Len(loads) + 1)
  BY DEF LayersInv
<1>2. /\ layers \in Seq(Ended) /\ DOMAIN layers = 1..Len(layers) /\ Len(layers) \in Nat
      /\ \A j, k \in 1..Len(layers) : layers[j] = layers[k] => j = k
      /\ \A j \in Ended : j >= since => \E k \in 1..Len(layers) : layers[k] = j
  BY DEF LayersInv, Once
<1>3. i \notin Ended /\ loads[i].state = "fetching"
  BY DEF Mapped, MappedEmpty, Failed, Ended
<1>4. /\ popup' = popup /\ since' = since /\ closer' \in {closer, i}
  BY DEF Mapped, MappedEmpty, Failed
<1>5. PICK s \in {"fetching", "failed", "empty", "mapped"} :
        /\ s # "fetching"
        /\ loads' = [loads EXCEPT ![i].state = s]
        /\ layers' = IF s = "failed" THEN layers ELSE Append(layers, i)
  BY DEF Mapped, MappedEmpty, Failed
<1>6. /\ loads' \in Seq(Load) /\ DOMAIN loads' = DOMAIN loads
      /\ loads'[i].state = s
      /\ \A j \in DOMAIN loads : j # i => loads'[j] = loads[j]
  <2>1. loads \in Seq(Load)
    BY <1>1
  <2>2. loads' = [loads EXCEPT ![i].state = s]
    BY <1>5
  <2> QED BY <2>1, <2>2, LoadEnded
<1>7. Len(loads') = Len(loads)
  BY <1>1, <1>6
<1>8. LoadsOK' /\ since' \in 1..(Len(loads') + 1) /\ Len(loads') <= MaxLoads
  BY <1>1, <1>4, <1>6, <1>7 DEF LoadsOK
<1>9. CASE s = "failed"
  <2>1. Ended' = Ended
    BY <1>3, <1>6, <1>9 DEF Ended
  <2> QED BY <1>1, <1>2, <1>4, <1>5, <1>8, <1>9, <2>1 DEF LayersInv, LoadsOK, Once, Feature
<1>10. CASE s # "failed"
  <2>1. Ended' = Ended \cup {i}
    <3>1. s \in {"empty", "mapped"} /\ DOMAIN loads' = DOMAIN loads /\ loads'[i].state = s
      BY <1>5, <1>6, <1>10
    <3>2. \A j \in DOMAIN loads : j # i => loads'[j].state = loads[j].state
      BY <1>6
    <3> QED BY <3>1, <3>2 DEF Ended
  <2>2. layers \in Seq(Ended \cup {i})
    BY <1>2
  <2>3. layers' = Append(layers, i)
    BY <1>5, <1>10
  <2>4. /\ layers' \in Seq(Ended \cup {i}) /\ Len(layers') = Len(layers) + 1
        /\ \A j \in 1..Len(layers) : layers'[j] = layers[j]
        /\ layers'[Len(layers) + 1] = i
    BY <2>2, <2>3
  <2>5. \A j \in 1..Len(layers) : layers[j] # i
    BY <1>2, <1>3
  <2>6. \A j \in 1..Len(layers') : j \in 1..Len(layers) \/ j = Len(layers) + 1
    BY <1>2, <2>4
  <2>7. \A j, k \in 1..Len(layers') : layers'[j] = layers'[k] => j = k
    BY <1>2, <2>4, <2>5, <2>6
  <2>8. \A j \in Ended' : j >= since' => \E k \in 1..Len(layers') : layers'[k] = j
    <3>1. 1..Len(layers) \subseteq 1..Len(layers') /\ Len(layers) + 1 \in 1..Len(layers')
      BY <1>2, <2>4
    <3> QED BY <1>2, <1>4, <2>1, <2>4, <3>1
  <2>9. DOMAIN layers' = 1..Len(layers')
    BY <2>4
  <2> QED BY <1>1, <1>4, <1>8, <2>1, <2>4, <2>7, <2>8, <2>9 DEF LayersInv, LoadsOK, Once, Feature
<1> QED BY <1>9, <1>10

\* Clicks and the close button change what is selected only.
LEMMA LayersStay ==
  ASSUME LayersInv, LoadsOK',
         DOMAIN loads' = DOMAIN loads, \A i \in DOMAIN loads : loads'[i].state = loads[i].state,
         popup' \in Feature \cup {None}, UNCHANGED <<layers, since>>
  PROVE  LayersInv'
<1>1. Ended' = Ended
  BY DEF Ended
<1>2. Len(loads') = Len(loads)
  BY DEF LayersInv, LoadsOK
<1> QED BY <1>1, <1>2 DEF LayersInv, LoadsOK, Once, Feature

LEMMA LayersStep == LayersInv /\ SelectionInv /\ SelectionInv' /\ [Next]_vars => LayersInv'
<1> SUFFICES ASSUME LayersInv, SelectionInv, SelectionInv', [Next]_vars PROVE LayersInv'
  OBVIOUS
<1>0. LoadsOK' /\ loads \in Seq(Load) /\ closer \in {0} \cup DOMAIN loads
      /\ popup \in Feature \cup {None}
  BY DEF SelectionInv, LayersInv
<1>1. CASE \E fs \in Checked : mapButton(fs)
  <2>1. PICK fs \in Checked : mapButton(fs)
    BY <1>1
  <2>2. fs \in Seq(Files)
    BY DEF Checked
  <2> QED BY <2>1, <2>2, LayersCleared
<1>2. CASE \E i \in DOMAIN loads : Mapped(i) \/ MappedEmpty(i) \/ Failed(i)
  BY <1>2, LayersEnd
<1>3. ASSUME NEW hit \in [OnMap -> Feature \cup {None}], Click(hit)
      PROVE  LayersInv'
  <2>1. PICK selected \in [DOMAIN loads -> Feature \cup {None}] :
          loads' = [i \in DOMAIN loads |-> [loads[i] EXCEPT !.selected = selected[i]]]
    <3> DEFINE selected == [i \in DOMAIN loads |-> IF i \in DOMAIN hit THEN hit[i] ELSE None]
    <3>1. selected \in [DOMAIN loads -> Feature \cup {None}]
      OBVIOUS
    <3>2. loads' = [i \in DOMAIN loads |-> [loads[i] EXCEPT !.selected = selected[i]]]
      BY <1>3 DEF Click
    <3> QED BY <3>1, <3>2
  <2>2. DOMAIN loads' = DOMAIN loads
    BY <2>1
  <2>3. \A i \in DOMAIN loads : loads'[i].state = loads[i].state
    <3> TAKE i \in DOMAIN loads
    <3>1. loads[i] \in Load /\ loads'[i] = [loads[i] EXCEPT !.selected = selected[i]]
      BY <1>0, <2>1
    <3> QED BY <3>1 DEF Load
  <2>4. popup' \in Feature \cup {None} /\ UNCHANGED <<layers, since>>
    BY <1>0, <1>3 DEF Click
  <2> QED BY <1>0, <2>2, <2>3, <2>4, LayersStay
<1>4. CASE Close
  <2>1. loads' = [loads EXCEPT ![closer].selected = None] /\ popup' = None
        /\ UNCHANGED <<layers, since>>
    BY <1>4 DEF Close
  <2>2. DOMAIN loads' = DOMAIN loads /\ \A i \in DOMAIN loads : loads'[i].state = loads[i].state
    <3>1. CASE closer \in DOMAIN loads
      BY <1>0, <2>1, <3>1, LoadUnselected
    <3>2. CASE closer \notin DOMAIN loads
      BY <1>0, <2>1, <3>2
    <3> QED BY <3>1, <3>2
  <2> QED BY <1>0, <2>1, <2>2, LayersStay
<1>5. CASE UNCHANGED vars
  BY <1>0, <1>5, LayersStay DEF vars
<1> QED BY <1>1, <1>2, <1>3, <1>4, <1>5 DEF Next

LEMMA LayersAlways == Spec => []LayersInv
BY MapInit, MapStep, LayersStart, LayersStep, PTL DEF Spec

\* Types are right in every state, and the map shows each layer once, of loads that
\* ended, however often it was cleared (MapTypeOK).
THEOREM MapTypeCorrect == Spec => []MapTypeOK
<1>1. LayersInv => MapTypeOK
  <2> SUFFICES ASSUME LayersInv PROVE MapTypeOK
    OBVIOUS
  <2>1. layers \in Seq(Ended) /\ Ended \subseteq DOMAIN loads
    BY DEF LayersInv, Once, Ended
  <2>2. layers \in Seq(DOMAIN loads) /\ \A i \in DOMAIN layers : layers[i] \in Ended
    BY <2>1
  <2> QED BY <2>2 DEF LayersInv, Once, Ended, MapTypeOK
<1> QED BY <1>1, LayersAlways, PTL

\* Every file of the last mapping is on the map as soon as it has been fetched, in
\* whatever order the fetches of all mappings end (LastMappedStays).
THEOREM LastMappedCorrect == Spec => []LastMappedStays
<1>1. LayersInv => LastMappedStays
  <2> SUFFICES ASSUME LayersInv, NEW i \in since..Len(loads), loads[i].state \in {"empty", "mapped"}
               PROVE  \E j \in DOMAIN layers : layers[j] = i
    BY DEF LastMappedStays
  <2>1. i \in DOMAIN loads /\ i >= since
    BY DEF LayersInv
  <2> QED BY <2>1 DEF LayersInv, Ended
<1> QED BY <1>1, LayersAlways, PTL
=============================================================================
