------------------------- MODULE LoggerSite_proofs -------------------------
(***************************************************************************)
(* Proofs about the logger's web site: what the texts of the status page   *)
(* say of the numbers in a report, and that the pages keep the logger      *)
(* running, its filter and what they show of it in order, and its settings *)
(* as the user left them, for every number of commands, timers and files   *)
(* under way and every order of the steps.                                 *)
(***************************************************************************)
EXTENDS LoggerSite, FiniteSetTheorems, WellFoundedInduction, TLAPS
-----------------------------------------------------------------------------
(* The texts of the status page. *)

\* Quotient and remainder, with any divisor.
LEMMA Division ==
    ASSUME NEW a \in Nat, NEW b \in Nat \ {0}
    PROVE  /\ a \div b \in Nat
           /\ a % b \in Nat
           /\ a = (a \div b) * b + (a % b)
BY SMT

LEMMA Units ==
    /\ one_minute \in Nat \ {0} /\ one_hour \in Nat \ {0} /\ one_day \in Nat \ {0}
BY SMT DEF one_minute, one_hour, one_day

\* A time in milliseconds reads back as it is, or as the millisecond before.
THEOREM ElapsedReadsBack ==
    ASSUME NEW e \in Nat, NEW t \in translateTime(e)
    PROVE  ReadBack(t) \in {e, e - 1}
<1> DEFINE days == e \div one_day
           afterDays == e % one_day
           hours == afterDays \div one_hour
           afterHours == afterDays % one_hour
           mins == afterHours \div one_minute
           rest == afterHours % one_minute
           units == {"s"} \cup (IF days > 0 THEN {"day"} ELSE {})
                          \cup (IF days > 0 \/ hours > 0 THEN {"hr"} ELSE {})
                          \cup (IF days > 0 \/ hours > 0 \/ mins > 0 THEN {"min"} ELSE {})
           text(s) == [u \in units |->
               IF u = "day" THEN days ELSE IF u = "hr" THEN hours ELSE IF u = "min" THEN mins ELSE s]
<1>1. days \in Nat /\ afterDays \in Nat /\ e = days * one_day + afterDays
  BY Division, Units, Zenon
<1>2. hours \in Nat /\ afterHours \in Nat /\ afterDays = hours * one_hour + afterHours
  BY <1>1, Division, Units, Zenon
<1>3. mins \in Nat /\ rest \in Nat /\ afterHours = mins * one_minute + rest
  BY <1>2, Division, Units, Zenon
<1>4. PICK s \in {rest, rest - 1} : t = text(s)
  BY DEF translateTime
<1> HIDE DEF days, afterDays, hours, afterHours, mins, rest
<1>5. s \in Int
  BY <1>3, <1>4
<1>6. Written(t, "day", one_day) = days * one_day
  <2>1. CASE days > 0
    BY <2>1, <1>4 DEF Written
  <2>2. CASE ~(days > 0)
    <3>1. days = 0
      BY <2>2, <1>1
    <3>2. "day" \notin DOMAIN t
      BY <2>2, <1>4
    <3> QED
      BY <3>1, <3>2, Units DEF Written
  <2> QED
    BY <2>1, <2>2
<1>7. Written(t, "hr", one_hour) = hours * one_hour
  <2>1. CASE days > 0 \/ hours > 0
    BY <2>1, <1>4 DEF Written
  <2>2. CASE ~(days > 0 \/ hours > 0)
    <3>1. hours = 0
      BY <2>2, <1>2
    <3>2. "hr" \notin DOMAIN t
      BY <2>2, <1>4
    <3> QED
      BY <3>1, <3>2, Units DEF Written
  <2> QED
    BY <2>1, <2>2
<1>8. Written(t, "min", one_minute) = mins * one_minute
  <2>1. CASE days > 0 \/ hours > 0 \/ mins > 0
    BY <2>1, <1>4 DEF Written
  <2>2. CASE ~(days > 0 \/ hours > 0 \/ mins > 0)
    <3>1. mins = 0
      BY <2>2, <1>3
    <3>2. "min" \notin DOMAIN t
      BY <2>2, <1>4
    <3> QED
      BY <3>1, <3>2, Units DEF Written
  <2> QED
    BY <2>1, <2>2
<1>9. Written(t, "s", 1) = s
  BY <1>4, <1>5 DEF Written
<1>10. ReadBack(t) = days * one_day + hours * one_hour + mins * one_minute + s
  BY <1>6, <1>7, <1>8, <1>9 DEF ReadBack
<1> DEFINE ds == days * one_day
           hs == hours * one_hour
           ms == mins * one_minute
<1>11. ds \in Int /\ hs \in Int /\ ms \in Int
  BY <1>1, <1>2, <1>3, Units
<1> HIDE DEF ds, hs, ms
<1>12. e = ds + afterDays /\ afterDays = hs + afterHours /\ afterHours = ms + rest /\ ReadBack(t) = ds + hs + ms + s
  BY <1>1, <1>2, <1>3, <1>10 DEF ds, hs, ms
<1> QED
  BY <1>1, <1>2, <1>3, <1>4, <1>5, <1>11, <1>12

\* The rounding of a size is off by at most half a hundredth of the unit.
LEMMA Rounding ==
    ASSUME NEW count \in Nat, NEW bytes \in Nat \ {0}
    PROVE  /\ roundSize(count, bytes) \in Nat
           /\ 2 * (roundSize(count, bytes) * bytes - 100 * count) \in -bytes..bytes
<1> DEFINE q == count \div bytes
           r == count % bytes
           half == bytes \div 2
           k == (100 * r + half) \div bytes
           rest == (100 * r + half) % bytes
<1>1. q \in Nat /\ r \in Nat /\ count = q * bytes + r
  BY Division, Zenon
<1>2. half \in Nat /\ bytes - 2 * half \in {0, 1}
  BY SMT
<1>3. 100 * r + half \in Nat
  <2> HIDE DEF half, r
  <2> QED BY <1>1, <1>2
<1>4. k \in Nat /\ rest \in Nat /\ 100 * r + half = k * bytes + rest
  <2>1. PICK n \in Nat : n = 100 * r + half
    BY <1>3, Zenon
  <2>2. PICK a \in Nat, b \in Nat : a = n \div bytes /\ b = n % bytes /\ n = a * bytes + b
    BY Division, Zenon
  <2>3. k = a /\ rest = b
    BY <2>1, <2>2, Zenon
  <2> HIDE DEF r, half, k, rest
  <2> QED BY <2>1, <2>2, <2>3
<1>5. rest < bytes
  <2> HIDE DEF half, r
  <2> QED BY <1>3, SMT
<1>6. roundSize(count, bytes) = 100 * q + k
  BY DEF roundSize
<1> HIDE DEF q, r, half, k, rest
<1>7. 100 * q + k \in Nat
  BY <1>1, <1>4
<1>8. (100 * q + k) * bytes = 100 * (q * bytes) + k * bytes
  BY <1>1, <1>4, SMT
<1> DEFINE qb == q * bytes
           kb == k * bytes
<1>9. qb \in Nat /\ kb \in Nat
  BY <1>1, <1>4
<1> HIDE DEF qb, kb
<1>10. /\ count = qb + r
       /\ 100 * r + half = kb + rest
       /\ roundSize(count, bytes) * bytes = 100 * qb + kb
  BY <1>1, <1>4, <1>6, <1>8 DEF qb, kb
<1>11. roundSize(count, bytes) * bytes - 100 * count = half - rest
  BY <1>1, <1>2, <1>4, <1>9, <1>10
<1> QED
  BY <1>2, <1>4, <1>5, <1>6, <1>7, <1>11

\* The size shown in bytes, kB, MB or GB is the size to half a hundredth of that.
THEOREM SizeReadsBack ==
    ASSUME NEW count \in Nat
    PROVE  LET s == translateSize(count)
           IN  2 * (s.hundredths * s.unit - 100 * count) \in -s.unit..s.unit
<1>1. kB \in Nat \ {0} /\ MB \in Nat \ {0} /\ GB \in Nat \ {0}
  BY SMT DEF kB, MB, GB
<1>2. 2 * ((100 * count) * 1 - 100 * count) \in -1..1
  OBVIOUS
<1>3. CASE count > GB
  BY <1>1, <1>3, Rounding, Zenon DEF translateSize
<1>4. CASE ~(count > GB) /\ count > MB
  BY <1>1, <1>4, Rounding, Zenon DEF translateSize
<1>5. CASE ~(count > GB) /\ ~(count > MB) /\ count > kB
  BY <1>1, <1>5, Rounding, Zenon DEF translateSize
<1>6. CASE ~(count > GB) /\ ~(count > MB) /\ ~(count > kB)
  BY <1>2, <1>6, Zenon DEF translateSize
<1> QED
  BY <1>3, <1>4, <1>5, <1>6
-----------------------------------------------------------------------------
(* Loops.  The model writes one that collects a result as a fold of the        *)
(* community modules, which is a function f of sets of indices:                *)
(* f[s] is the base if s is empty, and otherwise a step from f[s \ {c[s]}]     *)
(* for the index c[s] that comes last.                                         *)

LEMMA NatMin ==
  ASSUME NEW T, T \subseteq Nat, T # {}
  PROVE  \E n \in T : \A m \in T : n <= m
<1> DEFINE R == OpToRel(<, Nat)
<1>1. IsWellFoundedOn(R, Nat)
  BY NatLessThanWellFounded
<1>2. \A x, y \in Nat : x < y => <<x, y>> \in R
  BY DEF OpToRel
<1> HIDE DEF R
<1>3. PICK n \in T : \A m \in T : ~ (<<m, n>> \in R)
  BY <1>1, WFMin
<1>4. \A m \in T : m \in Nat /\ n \in Nat /\ ~(m < n)
  BY <1>2, <1>3, Zenon
<1> QED BY <1>4

\* The last index of a part of a sequence is one of it.
LEMMA MaxIn ==
  ASSUME NEW n \in Nat, NEW s \in SUBSET (1 .. n), s # {}
  PROVE  Max(s) \in s
<1> DEFINE T == {n - x : x \in s}
<1>1. T \subseteq Nat /\ T # {}
  <2>1. \A x \in s : n - x \in Nat
    OBVIOUS
  <2> QED BY <2>1
<1>2. PICK d \in T : \A m \in T : d <= m
  BY <1>1, NatMin
<1>3. PICK x \in s : d = n - x
  BY <1>2
<1>4. \A y \in s : x >= y
  <2> TAKE y \in s
  <2>1. n - x <= n - y
    BY <1>2, <1>3
  <2> QED BY <2>1
<1> HIDE DEF T
<1> QED BY <1>4 DEF Max

\* c chooses an element of every part of S that is not empty.
Chooses(c, S) == \A s \in (SUBSET S) \ {{}} : c[s] \in s

\* The sets of at most n of the elements of S.
UpTo(S, n) == {s \in SUBSET S : Cardinality(s) <= n}

\* f follows the step from part to part of S, as far as there are P of them.
FoldsOn(f, P, base, c, step) ==
  \A s \in P : f[s] = IF s = {} THEN base ELSE step[<<c[s], f[s \ {c[s]}]>>]

LEMMA PartCounted ==
  ASSUME NEW S, IsFiniteSet(S), NEW s \in SUBSET S
  PROVE  /\ IsFiniteSet(s) /\ Cardinality(s) \in Nat
         /\ Cardinality(s) = 0 <=> s = {}
         /\ \A x \in s : s \ {x} \in SUBSET S /\ Cardinality(s \ {x}) = Cardinality(s) - 1
<1>1. IsFiniteSet(s)
  BY FS_Subset
<1>2. Cardinality(s) \in Nat
  BY <1>1, FS_CardinalityType
<1>3. Cardinality(s) = 0 <=> s = {}
  BY <1>1, FS_EmptySet
<1>4. \A x \in s : Cardinality(s \ {x}) = Cardinality(s) - 1
  BY <1>1, FS_RemoveElement
<1> QED BY <1>1, <1>2, <1>3, <1>4

\* What holds of no element, and of a part if it holds of the part without its
\* last element, holds of every part.
LEMMA PartInduction ==
  ASSUME NEW S, IsFiniteSet(S), NEW c, Chooses(c, S), NEW B,
         {} \in B, \A s \in (SUBSET S) \ {{}} : s \ {c[s]} \in B => s \in B
  PROVE  S \in B
<1> DEFINE Bad == {Cardinality(s) : s \in {t \in SUBSET S : t \notin B}}
<1> SUFFICES ASSUME S \notin B PROVE FALSE
  OBVIOUS
<1>1. Bad \subseteq Nat
  BY PartCounted
<1>2. Bad # {}
  OBVIOUS
<1>3. PICK n \in Bad : \A m \in Bad : n <= m
  BY <1>1, <1>2, NatMin
<1>4. PICK s \in SUBSET S : s \notin B /\ n = Cardinality(s)
  BY <1>3
<1>5. s # {} /\ c[s] \in s
  BY <1>4 DEF Chooses
<1> DEFINE t == s \ {c[s]}
<1>6. t \in SUBSET S /\ Cardinality(t) = n - 1 /\ n \in Nat
  BY <1>4, <1>5, PartCounted
<1>7. t \notin B
  BY <1>4, <1>5
<1>8. Cardinality(t) \in Bad
  BY <1>6, <1>7
<1> HIDE DEF t, Bad
<1> QED BY <1>3, <1>6, <1>8

\* A fold exists: from the parts of at most n elements to those of one more.
LEMMA FoldLonger ==
  ASSUME NEW S, IsFiniteSet(S), NEW V, NEW base \in V, NEW c, Chooses(c, S),
         NEW step \in [S \X V -> V], NEW n \in Nat,
         NEW f \in [UpTo(S, n) -> V], FoldsOn(f, UpTo(S, n), base, c, step)
  PROVE  \E g \in [UpTo(S, n + 1) -> V] : FoldsOn(g, UpTo(S, n + 1), base, c, step)
<1> DEFINE g == [s \in UpTo(S, n + 1) |->
                   IF s = {} THEN base ELSE step[<<c[s], f[s \ {c[s]}]>>]]
<1>1. \A s \in UpTo(S, n + 1) : s # {} => c[s] \in s /\ c[s] \in S /\ s \ {c[s]} \in UpTo(S, n)
  <2> TAKE s \in UpTo(S, n + 1)
  <2> HAVE s # {}
  <2>1. s \in SUBSET S /\ Cardinality(s) <= n + 1
    BY DEF UpTo
  <2>2. c[s] \in s
    BY <2>1 DEF Chooses
  <2>3. s \ {c[s]} \in SUBSET S /\ Cardinality(s \ {c[s]}) = Cardinality(s) - 1 /\ Cardinality(s) \in Nat
    BY <2>1, <2>2, PartCounted
  <2>4. Cardinality(s \ {c[s]}) <= n
    BY <2>1, <2>3
  <2> QED BY <2>1, <2>2, <2>3, <2>4 DEF UpTo
<1>2. g \in [UpTo(S, n + 1) -> V]
  <2>1. \A s \in UpTo(S, n + 1) : s # {} => step[<<c[s], f[s \ {c[s]}]>>] \in V
    BY <1>1
  <2> QED BY <2>1
<1>3. \A s \in UpTo(S, n) : g[s] = f[s]
  <2> TAKE s \in UpTo(S, n)
  <2>1. s \in UpTo(S, n + 1)
    <3>1. s \in SUBSET S /\ Cardinality(s) <= n
      BY DEF UpTo
    <3>2. Cardinality(s) <= n + 1
      BY <3>1, PartCounted
    <3> QED BY <3>1, <3>2 DEF UpTo
  <2>2. f[s] = IF s = {} THEN base ELSE step[<<c[s], f[s \ {c[s]}]>>]
    BY DEF FoldsOn
  <2> QED BY <2>1, <2>2
<1>4. \A s \in UpTo(S, n + 1) : s # {} => g[s \ {c[s]}] = f[s \ {c[s]}]
  BY <1>1, <1>3
<1>5. FoldsOn(g, UpTo(S, n + 1), base, c, step)
  BY <1>4 DEF FoldsOn
<1> HIDE DEF g
<1> QED BY <1>2, <1>5

LEMMA FoldExists ==
  ASSUME NEW S, IsFiniteSet(S), NEW V, NEW base \in V, NEW c, Chooses(c, S),
         NEW step \in [S \X V -> V]
  PROVE  \E f \in [SUBSET S -> V] : FoldsOn(f, SUBSET S, base, c, step)
<1> DEFINE Bad == {n \in Nat : ~ \E f \in [UpTo(S, n) -> V] : FoldsOn(f, UpTo(S, n), base, c, step)}
<1>1. Bad = {}
  <2> SUFFICES ASSUME Bad # {} PROVE FALSE
    OBVIOUS
  <2>1. PICK n \in Bad : \A m \in Bad : n <= m
    BY NatMin
  <2>2. n \in Nat /\ ~ \E f \in [UpTo(S, n) -> V] : FoldsOn(f, UpTo(S, n), base, c, step)
    BY <2>1
  <2>3. CASE n = 0
    <3>1. UpTo(S, 0) = {{}}
      <4>1. \A s \in SUBSET S : Cardinality(s) <= 0 <=> s = {}
        BY PartCounted
      <4> QED BY <4>1 DEF UpTo
    <3> DEFINE f == [s \in UpTo(S, 0) |-> base]
    <3>2. f \in [UpTo(S, 0) -> V] /\ FoldsOn(f, UpTo(S, 0), base, c, step)
      BY <3>1 DEF FoldsOn
    <3> HIDE DEF f
    <3> QED BY <2>2, <2>3, <3>2
  <2>4. CASE n # 0
    <3>1. n - 1 \in Nat /\ n - 1 < n /\ (n - 1) + 1 = n
      BY <2>2, <2>4
    <3>2. n - 1 \notin Bad
      BY <2>1, <2>2, <3>1
    <3>3. PICK f \in [UpTo(S, n - 1) -> V] : FoldsOn(f, UpTo(S, n - 1), base, c, step)
      BY <3>1, <3>2
    <3>4. PICK m \in Nat : m = n - 1
      BY <3>1
    <3>5. f \in [UpTo(S, m) -> V] /\ FoldsOn(f, UpTo(S, m), base, c, step)
      BY <3>3, <3>4
    <3> HIDE DEF Bad
    <3>6. \E g \in [UpTo(S, m + 1) -> V] : FoldsOn(g, UpTo(S, m + 1), base, c, step)
      BY <3>5, FoldLonger
    <3>7. m + 1 = n
      BY <3>1, <3>4
    <3> QED BY <2>2, <3>6, <3>7
  <2> QED BY <2>3, <2>4
<1>2. PICK n \in Nat : n = Cardinality(S)
  BY FS_CardinalityType
<1>3. UpTo(S, n) = SUBSET S
  <2>1. \A s \in SUBSET S : Cardinality(s) <= n
    BY <1>2, FS_Subset
  <2> QED BY <2>1 DEF UpTo
<1>4. \E f \in [UpTo(S, n) -> V] : FoldsOn(f, UpTo(S, n), base, c, step)
  BY <1>1
<1> QED BY <1>3, <1>4

\* Of a sequence, the last index that is left comes last in a fold from the left.
LEMMA LastIndex ==
  ASSUME NEW n \in Nat, NEW c, c = [s \in SUBSET (1 .. n) |-> Max(s)]
  PROVE  Chooses(c, 1 .. n) /\ IsFiniteSet(1 .. n)
<1>1. \A s \in (SUBSET (1 .. n)) \ {{}} : c[s] \in s
  BY MaxIn
<1>2. IsFiniteSet(1 .. n)
  BY FS_Interval
<1> QED BY <1>1, <1>2 DEF Chooses

\* A function that follows the step as long as results are in V ends in V.
LEMMA FoldStays ==
  ASSUME NEW S, IsFiniteSet(S), NEW V, NEW c, Chooses(c, S), NEW f,
         f[{}] \in V, \A s \in (SUBSET S) \ {{}} : f[s \ {c[s]}] \in V => f[s] \in V
  PROVE  f[S] \in V
<1> DEFINE B == {s \in SUBSET S : f[s] \in V}
<1>1. {} \in B
  OBVIOUS
<1>2. \A s \in (SUBSET S) \ {{}} : s \ {c[s]} \in B => s \in B
  OBVIOUS
<1>3. S \in B
  <2> HIDE DEF B
  <2> QED BY <1>1, <1>2, PartInduction
<1> QED BY <1>3

\* Sequences over T that start like p.
StartLike(p, T) == {q \in Seq(T) : Len(p) <= Len(q) /\ \A i \in 1 .. Len(p) : q[i] = p[i]}

\* Words of three letters are put behind the filter, which stays as it was.
LEMMA IDsAdded ==
  ASSUME NEW filter \in Seq(ThreeLetters), NEW T, NEW words \in Seq(T)
  PROVE  AddIDs(filter, words) \in StartLike(filter, ThreeLetters)
<1> DEFINE n == Len(words)
           S == 1 .. n
           V == StartLike(filter, ThreeLetters)
           c == [s \in SUBSET S |-> Max(s)]
           step == [p \in S \X V |->
                      IF words[p[1]] \in ThreeLetters THEN Append(p[2], words[p[1]]) ELSE p[2]]
           From(f) == [s \in SUBSET S |->
                         IF s = {} THEN filter
                         ELSE LET x == Max(s) IN
                              IF words[x] \in ThreeLetters THEN Append(f[s \ {x}], words[x])
                              ELSE f[s \ {x}]]
           it == CHOOSE f : f = From(f)
<1>1. AddIDs(filter, words) = it[S]
  <2>1. S = DOMAIN words
    OBVIOUS
  <2> HIDE DEF S
  <2> QED BY <2>1 DEF AddIDs, FoldLeft, MapThenFoldSet
<1>2. n \in Nat
  OBVIOUS
<1>3. Chooses(c, S) /\ IsFiniteSet(S)
  BY <1>2, LastIndex
<1>4. filter \in V
  BY DEF StartLike
<1>5. \A q \in V : \A w \in ThreeLetters : Append(q, w) \in V
  <2> TAKE q \in V
  <2> TAKE w \in ThreeLetters
  <2>1. q \in Seq(ThreeLetters) /\ Len(filter) \in Nat /\ Len(filter) <= Len(q) /\ \A i \in 1 .. Len(filter) : q[i] = filter[i]
    BY DEF StartLike
  <2>2. Append(q, w) \in Seq(ThreeLetters) /\ Len(Append(q, w)) = Len(q) + 1 /\ Len(q) \in Nat
    BY <2>1
  <2>3. \A i \in 1 .. Len(filter) : Append(q, w)[i] = q[i]
    BY <2>1
  <2>4. Len(filter) <= Len(Append(q, w))
    BY <2>1, <2>2
  <2> QED BY <2>1, <2>2, <2>3, <2>4 DEF StartLike
<1>6. step \in [S \X V -> V]
  <2> HIDE DEF V, S
  <2>1. \A p \in S \X V : p[2] \in V
    OBVIOUS
  <2> QED BY <1>5, <2>1
<1>7. PICK f \in [SUBSET S -> V] : FoldsOn(f, SUBSET S, filter, c, step)
  <2> HIDE DEF n, S, V, c, step
  <2> QED BY <1>3, <1>4, <1>6, FoldExists
<1>8. \A s \in SUBSET S : s # {} => c[s] = Max(s) /\ Max(s) \in S /\ f[s \ {Max(s)}] \in V
  <2> TAKE s \in SUBSET S
  <2> HAVE s # {}
  <2>1. c[s] = Max(s) /\ c[s] \in s
    BY <1>3 DEF Chooses
  <2> QED BY <1>7, <2>1
<1>9. f = From(f)
  <2> HIDE DEF V
  <2>1. \A s \in SUBSET S : f[s] = From(f)[s]
    <3> TAKE s \in SUBSET S
    <3>1. f[s] = IF s = {} THEN filter ELSE step[<<c[s], f[s \ {c[s]}]>>]
      BY <1>7 DEF FoldsOn
    <3>2. CASE s = {}
      BY <3>1, <3>2
    <3>3. CASE s # {}
      <4> DEFINE x == Max(s)
      <4>1. c[s] = x /\ x \in S /\ f[s \ {x}] \in V
        BY <1>8, <3>3
      <4>2. step[<<x, f[s \ {x}]>>] = IF words[x] \in ThreeLetters THEN Append(f[s \ {x}], words[x]) ELSE f[s \ {x}]
        <5> HIDE DEF x, S, c
        <5> QED BY <4>1
      <4> HIDE DEF step, c
      <4> QED BY <3>1, <3>3, <4>1, <4>2
    <3> QED BY <3>2, <3>3
  <2> QED BY <1>7, <2>1
<1>10. it = From(it)
  <2> HIDE DEF From
  <2> QED BY <1>9
<1>11. it[{}] \in V
  <2> HIDE DEF V, it
  <2> QED BY <1>4, <1>10
<1>12. \A s \in (SUBSET S) \ {{}} : it[s \ {c[s]}] \in V => it[s] \in V
  <2> TAKE s \in (SUBSET S) \ {{}}
  <2> HAVE it[s \ {c[s]}] \in V
  <2> DEFINE x == Max(s)
  <2>1. c[s] = x
    BY <1>8
  <2>2. it[s \ {x}] \in V
    BY <2>1
  <2>3. it[s] = IF words[x] \in ThreeLetters THEN Append(it[s \ {x}], words[x]) ELSE it[s \ {x}]
    <3> HIDE DEF it
    <3> QED BY <1>10
  <2> HIDE DEF x, it, V
  <2> QED BY <1>5, <2>2, <2>3
<1> HIDE DEF n, S, c, it
<1>13. it[S] \in V
  <2> HIDE DEF V
  <2> QED BY <1>3, <1>11, <1>12, FoldStays
<1> QED BY <1>1, <1>13

\* The sizes of the files add up to a number, in whatever order they are added.
LEMMA SizesAdded ==
  ASSUME NEW files \in Seq([len : Nat, md5 : BOOLEAN])
  PROVE  totalFileSize(files) \in Nat /\ totalFileSize(files) = BytesIn(files)
<1> DEFINE n == Len(files)
           S == 1 .. n
           File == [len : Nat, md5 : BOOLEAN]
           lens == [i \in S |-> files[i].len]
           c == [s \in SUBSET S |-> CHOOSE x \in s : TRUE]
           step == [p \in S \X Nat |-> files[p[1]].len + p[2]]
           From(f) == [s \in SUBSET S |->
                         IF s = {} THEN 0
                         ELSE LET x == CHOOSE x \in s : TRUE IN files[x].len + f[s \ {x}]]
           From2(f) == [s \in SUBSET S |->
                         IF s = {} THEN 0
                         ELSE LET x == CHOOSE x \in s : TRUE IN lens[x] + f[s \ {x}]]
           it == CHOOSE f : f = From(f)
           it2 == CHOOSE f : f = From2(f)
<1>1. DOMAIN files = S /\ n \in Nat /\ files \in Seq(File)
  OBVIOUS
<1> HIDE DEF File
<1>2. totalFileSize(files) = it[S]
  <2> HIDE DEF S
  <2> QED BY <1>1 DEF totalFileSize, FoldSeq, FoldFunction, FoldFunctionOnSet, MapThenFoldSet
<1>3. BytesIn(files) = it2[S]
  <2>3. BytesIn(files) = FoldFunctionOnSet(+, 0, [i \in DOMAIN files |-> files[i].len], DOMAIN files)
    BY DEF BytesIn
  <2>1. [i \in DOMAIN files |-> files[i].len] = lens
    BY <1>1
  <2>2. FoldFunctionOnSet(+, 0, lens, S) = it2[S]
    <3> HIDE DEF S, lens
    <3> QED BY DEF FoldFunctionOnSet, MapThenFoldSet
  <2> HIDE DEF it2, S, lens
  <2> QED BY <1>1, <2>1, <2>2, <2>3
<1>4. Chooses(c, S) /\ IsFiniteSet(S)
  <2>1. IsFiniteSet(S)
    BY <1>1, FS_Interval
  <2> HIDE DEF S
  <2>2. \A s \in (SUBSET S) \ {{}} : c[s] \in s
    OBVIOUS
  <2> QED BY <2>1, <2>2 DEF Chooses
<1>5. \A x \in S : files[x].len \in Nat
  <2>1. \A x \in S : files[x] \in File
    BY <1>1
  <2> HIDE DEF S
  <2> QED BY <2>1 DEF File
<1>6. step \in [S \X Nat -> Nat]
  <2> HIDE DEF S
  <2>1. \A p \in S \X Nat : p[1] \in S /\ p[2] \in Nat
    OBVIOUS
  <2>2. \A p \in S \X Nat : files[p[1]].len + p[2] \in Nat
    BY <1>5, <2>1
  <2> QED BY <2>2
<1>7. PICK f \in [SUBSET S -> Nat] : FoldsOn(f, SUBSET S, 0, c, step)
  <2> HIDE DEF n, S, c, step
  <2> QED BY <1>4, <1>6, FoldExists
<1>8. \A s \in SUBSET S : s # {} =>
        c[s] = (CHOOSE x \in s : TRUE) /\ c[s] \in S /\ s \ {c[s]} \in SUBSET S /\ f[s \ {c[s]}] \in Nat
  <2> TAKE s \in SUBSET S
  <2> HAVE s # {}
  <2>1. c[s] = (CHOOSE x \in s : TRUE) /\ c[s] \in s
    BY <1>4 DEF Chooses
  <2> QED BY <1>7, <2>1
<1> HIDE DEF n
<1>9. f = From(f) /\ f = From2(f)
  <2>1. \A s \in SUBSET S : f[s] = From(f)[s] /\ f[s] = From2(f)[s]
    <3> TAKE s \in SUBSET S
    <3>1. f[s] = IF s = {} THEN 0 ELSE step[<<c[s], f[s \ {c[s]}]>>]
      BY <1>7 DEF FoldsOn
    <3>2. CASE s = {}
      BY <3>1, <3>2
    <3>3. CASE s # {}
      <4>1. step[<<c[s], f[s \ {c[s]}]>>] = files[c[s]].len + f[s \ {c[s]}]
        <5>1. c[s] \in S /\ f[s \ {c[s]}] \in Nat
          BY <1>8, <3>3
        <5> HIDE DEF S, c
        <5> QED BY <5>1
      <4>2. lens[c[s]] = files[c[s]].len
        <5>1. c[s] \in S
          BY <1>8, <3>3
        <5> HIDE DEF S, c
        <5> QED BY <5>1
      <4>3. c[s] = (CHOOSE x \in s : TRUE)
        BY <1>8, <3>3
      <4> HIDE DEF step, c, lens, S
      <4> QED BY <3>1, <3>3, <4>1, <4>2, <4>3
    <3> QED BY <3>2, <3>3
  <2> QED BY <1>7, <2>1
<1>10. it = From(it)
  <2> HIDE DEF From
  <2> QED BY <1>9
<1>11. it2 = From2(it2)
  <2> HIDE DEF From2
  <2> QED BY <1>9
<1> HIDE DEF it, it2
<1>12. \A s \in (SUBSET S) \ {{}} :
         it[s] = files[c[s]].len + it[s \ {c[s]}] /\ it2[s] = files[c[s]].len + it2[s \ {c[s]}]
  <2> TAKE s \in (SUBSET S) \ {{}}
  <2> DEFINE x == CHOOSE x \in s : TRUE
  <2>1. c[s] = x /\ x \in S
    BY <1>8
  <2>2. lens[x] = files[x].len
    <3> HIDE DEF x, S
    <3> QED BY <2>1
  <2>3. it[s] = files[x].len + it[s \ {x}]
    BY <1>10
  <2>4. it2[s] = lens[x] + it2[s \ {x}]
    <3> HIDE DEF lens
    <3> QED BY <1>11
  <2> HIDE DEF x, c, lens
  <2> QED BY <2>1, <2>2, <2>3, <2>4
<1>13. it[{}] = 0 /\ it2[{}] = 0
  <2>1. {} \in SUBSET S
    OBVIOUS
  <2> HIDE DEF S, lens
  <2> QED BY <1>10, <1>11, <2>1
<1> DEFINE B == {s \in SUBSET S : it[s] \in Nat /\ it[s] = it2[s]}
<1>14. {} \in B
  BY <1>13
<1>15. \A s \in (SUBSET S) \ {{}} : s \ {c[s]} \in B => s \in B
  <2> TAKE s \in (SUBSET S) \ {{}}
  <2> HAVE s \ {c[s]} \in B
  <2>1. c[s] \in S
    BY <1>8
  <2>2. files[c[s]].len \in Nat
    BY <1>5, <2>1
  <2>3. it[s \ {c[s]}] \in Nat /\ it[s \ {c[s]}] = it2[s \ {c[s]}]
    OBVIOUS
  <2>4. it[s] = files[c[s]].len + it[s \ {c[s]}] /\ it2[s] = files[c[s]].len + it2[s \ {c[s]}]
    BY <1>12
  <2>5. s \in SUBSET S
    OBVIOUS
  <2>6. it[s] \in Nat /\ it[s] = it2[s]
    <3> HIDE DEF c, B, S
    <3> QED BY <2>2, <2>3, <2>4
  <2> QED BY <2>5, <2>6
<1>16. S \in B
  <2> HIDE DEF S, B, c
  <2> QED BY <1>4, <1>14, <1>15, PartInduction
<1> QED BY <1>2, <1>3, <1>16

\* The rows are those of the files with a checksum.
LEMMA RowsSelected ==
  ASSUME NEW files \in Seq([len : Nat, md5 : BOOLEAN])
  PROVE  LET rows == detailRows(files)
         IN  {rows[i] : i \in DOMAIN rows} = {file \in {files[i] : i \in DOMAIN files} : file.md5}
<1> DEFINE n == Len(files)
           S == 1 .. n
           File == [len : Nat, md5 : BOOLEAN]
           V == Seq(File)
           c == [s \in SUBSET S |-> Max(s)]
           step == [p \in S \X V |-> IF files[p[1]].md5 THEN Append(p[2], files[p[1]]) ELSE p[2]]
           From(f) == [s \in SUBSET S |->
                         IF s = {} THEN <<>>
                         ELSE LET x == Max(s) IN
                              IF files[x].md5 THEN Append(f[s \ {x}], files[x]) ELSE f[s \ {x}]]
           it == CHOOSE f : f = From(f)
           Shows(rows, s) == \A file : (\E i \in 1 .. Len(rows) : rows[i] = file)
                                       <=> (\E i \in s : files[i] = file /\ file.md5)
<1>1. DOMAIN files = S /\ n \in Nat /\ files \in Seq(File)
  OBVIOUS
<1> HIDE DEF File
<1>2. detailRows(files) = it[S]
  <2> HIDE DEF S
  <2> QED BY <1>1 DEF detailRows, FoldLeft, MapThenFoldSet
<1>3. Chooses(c, S) /\ IsFiniteSet(S)
  BY <1>1, LastIndex
<1>4. <<>> \in V
  OBVIOUS
<1>5. \A x \in S : files[x] \in File
  BY <1>1
<1>6. step \in [S \X V -> V]
  <2> HIDE DEF S
  <2>1. \A p \in S \X V : p[1] \in S /\ p[2] \in V
    OBVIOUS
  <2>2. \A rows \in V : \A file \in File : Append(rows, file) \in V
    OBVIOUS
  <2> HIDE DEF V
  <2> QED BY <1>5, <2>1, <2>2
<1>7. PICK f \in [SUBSET S -> V] : FoldsOn(f, SUBSET S, <<>>, c, step)
  <2> HIDE DEF n, S, V, c, step
  <2> QED BY <1>3, <1>4, <1>6, FoldExists
<1>8. \A s \in SUBSET S : s # {} => c[s] = Max(s) /\ c[s] \in s /\ c[s] \in S /\ f[s \ {c[s]}] \in V
  <2> TAKE s \in SUBSET S
  <2> HAVE s # {}
  <2>1. c[s] = Max(s) /\ c[s] \in s
    BY <1>3 DEF Chooses
  <2> QED BY <1>7, <2>1
<1> HIDE DEF n
<1>9. f = From(f)
  <2> HIDE DEF V
  <2>1. \A s \in SUBSET S : f[s] = From(f)[s]
    <3> TAKE s \in SUBSET S
    <3>1. f[s] = IF s = {} THEN <<>> ELSE step[<<c[s], f[s \ {c[s]}]>>]
      BY <1>7 DEF FoldsOn
    <3>2. CASE s = {}
      BY <3>1, <3>2
    <3>3. CASE s # {}
      <4> DEFINE x == Max(s)
      <4>1. c[s] = x /\ x \in S /\ f[s \ {x}] \in V
        BY <1>8, <3>3
      <4>2. step[<<x, f[s \ {x}]>>] = IF files[x].md5 THEN Append(f[s \ {x}], files[x]) ELSE f[s \ {x}]
        <5> HIDE DEF x, S, c
        <5> QED BY <4>1
      <4> HIDE DEF step, c
      <4> QED BY <3>1, <3>3, <4>1, <4>2
    <3> QED BY <3>2, <3>3
  <2> QED BY <1>7, <2>1
<1>10. it = From(it)
  <2> HIDE DEF From
  <2> QED BY <1>9
<1> HIDE DEF it
<1> DEFINE B == {s \in SUBSET S : it[s] \in V /\ Shows(it[s], s)}
<1>11. {} \in B
  <2>1. it[{}] = <<>>
    BY <1>10
  <2>2. Shows(<<>>, {})
    OBVIOUS
  <2> HIDE DEF Shows, V
  <2> QED BY <1>4, <2>1, <2>2
<1>12. \A s \in (SUBSET S) \ {{}} : s \ {c[s]} \in B => s \in B
  <2> TAKE s \in (SUBSET S) \ {{}}
  <2> HAVE s \ {c[s]} \in B
  <2> DEFINE x == Max(s)
             t == s \ {x}
             rows == it[t]
  <2>1. c[s] = x /\ x \in s /\ x \in S
    BY <1>8
  <2>2. rows \in V /\ Shows(rows, t)
    <3> HIDE DEF V, Shows
    <3> QED BY <2>1
  <2>3. it[s] = IF files[x].md5 THEN Append(rows, files[x]) ELSE rows
    <3> HIDE DEF V, Shows, B, S
    <3>1. s \in SUBSET S /\ s # {}
      OBVIOUS
    <3> QED BY <1>10, <3>1
  <2>4. files[x] \in File
    BY <1>5, <2>1
  <2>5. \A i \in s : i = x \/ i \in t
    OBVIOUS
  <2>6. t \subseteq s
    OBVIOUS
  <2> HIDE DEF x, t, rows, c, S
  <2>7. CASE ~ files[x].md5
    <3>1. it[s] = rows
      BY <2>3, <2>7
    <3>2. Shows(rows, s)
      BY <2>2, <2>5, <2>6, <2>7
    <3> HIDE DEF Shows, V
    <3> QED BY <2>2, <3>1, <3>2
  <2>8. CASE files[x].md5
    <3> DEFINE more == Append(rows, files[x])
    <3>1. it[s] = more
      BY <2>3, <2>8
    <3>2. /\ more \in V /\ Len(rows) \in Nat /\ Len(more) = Len(rows) + 1
          /\ \A i \in 1 .. Len(rows) : more[i] = rows[i]
          /\ more[Len(rows) + 1] = files[x]
      BY <2>2, <2>4
    <3> HIDE DEF more, V
    <3>3. Shows(more, s)
      <4> SUFFICES ASSUME NEW file
                   PROVE  (\E i \in 1 .. Len(more) : more[i] = file) <=> (\E i \in s : files[i] = file /\ file.md5)
        OBVIOUS
      <4>1. (\E i \in 1 .. Len(rows) : rows[i] = file) <=> (\E i \in t : files[i] = file /\ file.md5)
        BY <2>2
      <4>2. (\E i \in 1 .. Len(more) : more[i] = file) <=> (\E i \in 1 .. Len(rows) : rows[i] = file) \/ file = files[x]
        <5>1. \A i : i \in 1 .. Len(more) <=> i \in 1 .. Len(rows) \/ i = Len(rows) + 1
          BY <3>2
        <5> QED BY <3>2, <5>1, Zenon
      <4>3. (\E i \in s : files[i] = file /\ file.md5) <=> (\E i \in t : files[i] = file /\ file.md5) \/ file = files[x]
        BY <2>1, <2>5, <2>6, <2>8
      <4> QED BY <4>1, <4>2, <4>3
    <3> HIDE DEF Shows
    <3> QED BY <3>1, <3>2, <3>3
  <2> QED BY <2>7, <2>8
<1>13. S \in B
  <2> HIDE DEF S, B, c, step, V, Shows
  <2>1. IsFiniteSet(S)
    BY <1>3
  <2>2. Chooses(c, S)
    BY <1>3
  <2>3. PICK D : D = B
    OBVIOUS
  <2>4. PICK d : d = c
    OBVIOUS
  <2>5. {} \in D
    BY <1>11, <2>3
  <2>6. \A s \in (SUBSET S) \ {{}} : s \ {d[s]} \in D => s \in D
    BY <1>12, <2>3, <2>4
  <2>7. Chooses(d, S)
    BY <2>2, <2>4
  <2>8. S \in D
    BY <2>1, <2>5, <2>6, <2>7, PartInduction, SMTT(20)
  <2> QED BY <2>3, <2>8
<1>14. it[S] \in V /\ Shows(it[S], S)
  <2> HIDE DEF V, Shows
  <2> QED BY <1>13
<1>15. DOMAIN it[S] = 1 .. Len(it[S])
  <2> HIDE DEF Shows
  <2> QED BY <1>14
<1> DEFINE rows == detailRows(files)
<1>16. DOMAIN rows = 1 .. Len(rows) /\ Shows(rows, DOMAIN files)
  <2> HIDE DEF S, Shows, V
  <2> QED BY <1>1, <1>2, <1>14, <1>15
<1>17. \A file : file \in {rows[i] : i \in DOMAIN rows}
                <=> file \in {g \in {files[i] : i \in DOMAIN files} : g.md5}
  <2> TAKE file
  <2>1. file \in {rows[i] : i \in DOMAIN rows} <=> \E i \in 1 .. Len(rows) : rows[i] = file
    <3> HIDE DEF rows
    <3> QED BY <1>16
  <2>2. file \in {g \in {files[i] : i \in DOMAIN files} : g.md5}
          <=> \E i \in DOMAIN files : files[i] = file /\ file.md5
    <3> HIDE DEF S
    <3> QED OBVIOUS
  <2> HIDE DEF rows
  <2> QED BY <1>16, <2>1, <2>2
<1> QED BY <1>17
-----------------------------------------------------------------------------
(* Queues of commands and answers, position by position.                       *)

IsSeq(q) == \E S : q \in Seq(S)

LEMMA SeqFacts ==
  ASSUME NEW q, IsSeq(q)
  PROVE  /\ Len(q) \in Nat /\ DOMAIN q = 1 .. Len(q)
         /\ q # <<>> => Len(q) > 0 /\ Head(q) = q[1] /\ 1 \in DOMAIN q
         /\ q = <<>> <=> Len(q) = 0
BY DEF IsSeq

LEMMA SeqAppended ==
  ASSUME NEW q, IsSeq(q), NEW c, NEW p, p = Append(q, c)
  PROVE  /\ IsSeq(p) /\ Len(p) = Len(q) + 1 /\ p # <<>>
         /\ p[Len(q) + 1] = c
         /\ \A i \in 1 .. Len(q) : p[i] = q[i]
<1>1. PICK S : q \in Seq(S)
  BY DEF IsSeq
<1>2. q \in Seq(S \cup {c})
  BY <1>1
<1>3. p \in Seq(S \cup {c}) /\ Len(p) = Len(q) + 1
  BY <1>2
<1>4. p[Len(q) + 1] = c /\ \A i \in 1 .. Len(q) : p[i] = q[i]
  BY <1>2
<1>5. p # <<>>
  BY <1>2, <1>3
<1> QED BY <1>3, <1>4, <1>5 DEF IsSeq

LEMMA SeqTaken ==
  ASSUME NEW q, IsSeq(q), q # <<>>, NEW p, p = Tail(q)
  PROVE  /\ IsSeq(p) /\ Len(p) = Len(q) - 1
         /\ \A i \in 1 .. Len(p) : p[i] = q[i + 1] /\ i + 1 \in 1 .. Len(q)
<1>1. PICK S : q \in Seq(S)
  BY DEF IsSeq
<1>2. p \in Seq(S) /\ Len(p) = Len(q) - 1
  BY <1>1
<1>3. \A i \in 1 .. Len(p) : p[i] = q[i + 1] /\ i + 1 \in 1 .. Len(q)
  BY <1>1, <1>2
<1> QED BY <1>2, <1>3 DEF IsSeq

LEMMA SeqJoined ==
  ASSUME NEW S, NEW a \in Seq(S), NEW b \in Seq(S), NEW i \in Nat, Len(a) < i, i <= Len(a) + Len(b)
  PROVE  (a \o b)[i] = b[i - Len(a)]
OBVIOUS

\* Where what is left of a queue without its k-th element was in the queue.
Was(i, k) == IF i < k THEN i ELSE i + 1

LEMMA SeqRemoved ==
  ASSUME NEW q, IsSeq(q), NEW k \in DOMAIN q, NEW p, p = RemoveAt(q, k)
  PROVE  /\ IsSeq(p) /\ Len(p) = Len(q) - 1
         /\ \A i \in 1 .. Len(p) : p[i] = q[Was(i, k)] /\ Was(i, k) \in 1 .. Len(q)
         /\ \A j \in 1 .. Len(q) : j # k => \E i \in 1 .. Len(p) : Was(i, k) = j
<1>1. PICK S : q \in Seq(S)
  BY DEF IsSeq
<1>2. k \in 1 .. Len(q) /\ Len(q) \in Nat
  BY <1>1
<1> DEFINE a == SubSeq(q, 1, k - 1)
           b == SubSeq(q, k + 1, Len(q))
<1>5. a \in Seq(S) /\ Len(a) = k - 1 /\ \A i \in 1 .. k - 1 : a[i] = q[i]
  BY <1>1, <1>2
<1>6. b \in Seq(S) /\ Len(b) = Len(q) - k /\ \A i \in 1 .. Len(q) - k : b[i] = q[k + i]
  BY <1>1, <1>2
<1>7. p = a \o b
  BY DEF RemoveAt
<1> HIDE DEF a, b
<1>3. p \in Seq(S) /\ Len(p) = Len(q) - 1
  BY <1>2, <1>5, <1>6, <1>7
<1>4. \A i \in 1 .. Len(p) : p[i] = q[Was(i, k)] /\ Was(i, k) \in 1 .. Len(q)
  <2> TAKE i \in 1 .. Len(p)
  <2>1. CASE i < k
    BY <1>2, <1>3, <1>5, <1>6, <1>7, <2>1 DEF Was
  <2>2. CASE ~(i < k)
    <3>1. i - (k - 1) \in 1 .. Len(q) - k /\ k + (i - (k - 1)) = i + 1
      BY <1>2, <1>3, <2>2
    <3>3. Len(a) \in Nat /\ Len(b) \in Nat /\ i \in 1 .. Len(a) + Len(b) /\ ~(i <= Len(a))
      BY <1>2, <1>3, <1>5, <1>6, <2>2
    <3>4. p[i] = b[i - Len(a)]
      <4>1. i \in Nat /\ Len(a) < i /\ i <= Len(a) + Len(b)
        BY <3>3
      <4>2. a \in Seq(S) /\ b \in Seq(S)
        BY <1>5, <1>6
      <4>3. (a \o b)[i] = b[i - Len(a)]
        BY <4>1, <4>2, SeqJoined
      <4> QED BY <1>7, <4>3
    <3>2. p[i] = q[i + 1]
      BY <1>5, <1>6, <3>1, <3>4
    <3> QED BY <1>2, <1>3, <2>2, <3>2 DEF Was
  <2> QED BY <2>1, <2>2
<1>8. \A j \in 1 .. Len(q) : j # k => \E i \in 1 .. Len(p) : Was(i, k) = j
  <2> TAKE j \in 1 .. Len(q)
  <2> HAVE j # k
  <2>1. CASE j < k
    <3>1. j \in 1 .. Len(p) /\ Was(j, k) = j
      BY <1>2, <1>3, <2>1 DEF Was
    <3> QED BY <3>1
  <2>2. CASE ~(j < k)
    <3>1. j - 1 \in 1 .. Len(p) /\ Was(j - 1, k) = j
      BY <1>2, <1>3, <2>2 DEF Was
    <3> QED BY <3>1
  <2> QED BY <2>1, <2>2
<1> QED BY <1>3, <1>4, <1>8 DEF IsSeq

LEMMA SeqForgotten ==
  ASSUME NEW q, IsSeq(q), NEW p, p = [i \in DOMAIN q |-> [q[i] EXCEPT !.gone = TRUE]]
  PROVE  /\ IsSeq(p) /\ Len(p) = Len(q)
         /\ \A i \in 1 .. Len(p) : p[i] = [q[i] EXCEPT !.gone = TRUE]
<1>1. PICK T : T = {p[i] : i \in DOMAIN q}
  OBVIOUS
<1>2. Len(q) \in Nat /\ DOMAIN q = 1 .. Len(q)
  BY SeqFacts
<1>3. p \in [1 .. Len(q) -> T]
  BY <1>1, <1>2
<1>4. p \in Seq(T) /\ Len(p) = Len(q)
  BY <1>2, <1>3
<1>5. \A i \in 1 .. Len(p) : p[i] = [q[i] EXCEPT !.gone = TRUE]
  BY <1>2, <1>4
<1> QED BY <1>4, <1>5 DEF IsSeq

LEMMA SeqEmpty == IsSeq(<<>>) /\ Len(<<>>) = 0
<1>1. PICK S : S = {}
  OBVIOUS
<1>2. <<>> \in Seq(S) /\ Len(<<>>) = 0
  OBVIOUS
<1> QED BY <1>2 DEF IsSeq

LEMMA SeqSingle == ASSUME NEW c, NEW p, p = <<c>> PROVE IsSeq(p) /\ Len(p) = 1 /\ p[1] = c
<1>1. <<c>> \in Seq({c}) /\ Len(<<c>>) = 1
  OBVIOUS
<1>2. p \in Seq({c}) /\ Len(p) = 1 /\ p[1] = c
  BY <1>1
<1> QED BY <1>2 DEF IsSeq
-----------------------------------------------------------------------------
(* What is sent, and the types.                                                *)

\* The pages that show something of the logger but the form.
Reporting == DOMAIN Report \ {"configure"}

\* A command that page p may have sent: it clears the filter only for the Clear
\* button or by hand, gives the logger no metadata but JSON except by hand, sets
\* nothing but the token or the certificate by name, and is the one that reports
\* what the page shows, unless it is for a download.
Fits(p, c) ==
  /\ DOMAIN c = {"by", "name", "args", "gone"}
  /\ c.name = "accept" => /\ IsSeq(c.args)
                          /\ c.args = <<"all">> => c.by \in {"clearFilterList", "runCommand"}
  /\ c.name = "metadata" /\ p # "commands" =>
       c.args = <<>> \/ (p = "metadata" /\ Head(c.args) \notin NotJSON)
  /\ c.name = "auth" => c.args = <<>> \/ c.args[1] \in {"token", "cert"}
  /\ c.name = "setup" /\ c.args # <<>> => p = "configure"
  /\ p \in Reporting => IF c.by = "redirect" THEN c.name = "snapshot" /\ p = "status"
                        ELSE c.name = Report[p]

LoggerFields == {"filter", "algorithms", "metadata", "token", "cert", "config", "defaults",
                 "report", "hung"}

\* Only by hand, or from the metadata page and then with JSON, is the logger given
\* metadata that it cannot render, and only these hang it.
Renders(p, hung, metadata) == p # "commands" =>
  /\ hung => metadata \in Unrenderable
  /\ metadata \in Unrenderable => p = "metadata" /\ metadata \notin NotJSON

LoggerOK(p, l) ==
  /\ DOMAIN l = LoggerFields
  /\ l.filter \in Seq(ThreeLetters)
  /\ IsSeq(l.algorithms)
  /\ \A i \in 1 .. Len(l.algorithms) : DOMAIN l.algorithms[i] = {"name", "parameters"}
  /\ DOMAIN l.config = Fields
  /\ l.report \in Reports
  /\ l.hung \in BOOLEAN
  /\ Renders(p, l.hung, l.metadata)

SendInv ==
  /\ IsSeq(requests) /\ \A i \in 1 .. Len(requests) : Fits(page, requests[i])
  /\ IsSeq(timers) /\ \A i \in 1 .. Len(timers) : Fits(page, timers[i]) /\ timers[i].gone = FALSE
  /\ IsSeq(replies)
  /\ LoggerOK(page, logger)

PageInv ==
  /\ page \in Pages
  /\ readers \subseteq IF page = "metadata" THEN Documents ELSE IF page = "auth" THEN Certs ELSE {}
  /\ DOMAIN form = Fields
  /\ page # "configure" => form = Blank
  /\ IF page = "commands" THEN input \in Commands \cup {<<>>} ELSE input = <<>>
  /\ fresh \in BOOLEAN
  /\ basis \in {"blank", "logger", "sent"}
  /\ touched \subseteq Fields

\* A command that is sent by a button or a reader of the page.
New(c) == Fits(page, c) /\ c.gone = FALSE /\ c.by # "bootstrap"

\* What a step of the user or of a reader does to the commands.
Sends(c) == requests' = Append(requests, c) /\ UNCHANGED <<page, timers, replies, logger, fresh, shown>>
Delays(c) == timers' = Append(timers, c) /\ UNCHANGED <<page, requests, replies, logger, fresh, shown>>
Idles == UNCHANGED <<page, timers, requests, replies, logger, fresh, shown>>

LEMMA NewCommand ==
  ASSUME NEW by, by # "bootstrap", NEW name, NEW args,
         name = "accept" => /\ IsSeq(args)
                            /\ args = <<"all">> => by \in {"clearFilterList", "runCommand"},
         name = "metadata" /\ page # "commands" =>
           args = <<>> \/ (page = "metadata" /\ Head(args) \notin NotJSON),
         name = "auth" => args = <<>> \/ args[1] \in {"token", "cert"},
         name = "setup" /\ args # <<>> => page = "configure",
         page \in Reporting => IF by = "redirect" THEN name = "snapshot" /\ page = "status"
                               ELSE name = Report[page]
  PROVE  New(Command(by, name, args))
BY DEF New, Fits, Command

LEMMA Reports1 ==
  /\ Reporting = {"filtering", "algorithms", "metadata", "auth", "index", "status"}
  /\ Report["filtering"] = "accept" /\ Report["algorithms"] = "algorithm"
  /\ Report["metadata"] = "metadata" /\ Report["auth"] = "auth"
  /\ Report["index"] = "status" /\ Report["status"] = "status"
  /\ Report["configure"] = "setup" /\ "configure" \in DOMAIN Report
BY DEF Reporting, Report

LEMMA BootstrapFits ==
  ASSUME NEW p
  PROVE  /\ IsSeq(Bootstrap(p)) /\ Len(Bootstrap(p)) <= 1
         /\ \A i \in 1 .. Len(Bootstrap(p)) :
              /\ Fits(p, Bootstrap(p)[i]) /\ Bootstrap(p)[i].gone = FALSE
              /\ p \in DOMAIN Report /\ Bootstrap(p)[i] = Command("bootstrap", Report[p], <<>>)
<1>1. CASE p \notin DOMAIN Report
  <2>1. Bootstrap(p) = <<>>
    BY <1>1 DEF Bootstrap
  <2> QED BY <2>1, SeqEmpty
<1>2. CASE p \in DOMAIN Report
  <2>1. PICK c : c = Command("bootstrap", Report[p], <<>>)
    OBVIOUS
  <2>2. Bootstrap(p) = <<c>>
    BY <1>2, <2>1 DEF Bootstrap
  <2>3. IsSeq(Bootstrap(p)) /\ Len(Bootstrap(p)) = 1 /\ Bootstrap(p)[1] = c
    BY <2>2, SeqSingle
  <2>4. <<>> # <<"all">>
    OBVIOUS
  <2>5. Fits(p, c) /\ c.gone = FALSE
    BY <2>1, <2>4, SeqEmpty DEF Fits, Command, Reporting
  <2> QED BY <1>2, <2>1, <2>3, <2>5
<1> QED BY <1>1, <1>2
-----------------------------------------------------------------------------
(* The steps.                                                                  *)

\* A user sends a command, or has one sent by a timer, or leaves the page and
\* opens it again, or does nothing that the logger gets to know.
LEMMA UserActsAre ==
  ASSUME SendInv, PageInv, UserActs
  PROVE  \/ \E c : New(c) /\ Sends(c)
         \/ \E c : New(c) /\ Delays(c) /\ page \in {"index", "status"}
         \/ Reopen
         \/ Idles
<1> DEFINE Result == \/ \E c : New(c) /\ Sends(c)
                     \/ \E c : New(c) /\ Delays(c) /\ page \in {"index", "status"}
                     \/ Reopen
                     \/ Idles
<1> SUFFICES Result
  OBVIOUS
<1>1. ASSUME NEW p, NEW by, NEW name, NEW args, Clicks(p, by, name, args), New(Command(by, name, args))
      PROVE  Result
  <2>1. Sends(Command(by, name, args))
    BY <1>1 DEF Clicks, sendCommand, Sends
  <2> QED BY <1>1, <2>1
<1>2. ASSUME NEW name, NEW args, sendConfig(name, args), name \in {"setup", "lab defaults"}
      PROVE  Result
  <2>1. page = "configure"
    BY <1>2 DEF sendConfig
  <2>2. New(Command("uploadConfig", name, args))
    BY <1>2, <2>1, NewCommand, Reports1
  <2>3. Sends(Command("uploadConfig", name, args))
    BY <1>2 DEF sendConfig, sendCommand, Sends
  <2> QED BY <2>2, <2>3
<1>3. ASSUME NEW ps, NEW by, NEW name, NEW args, Delayed(ps, by, name, args), ps \subseteq {"index", "status"},
             New(Command(by, name, args))
      PROVE  Result
  <2>1. Delays(Command(by, name, args)) /\ page \in {"index", "status"}
    BY <1>3 DEF Delayed, Delays
  <2> QED BY <1>3, <2>1
<1>4. ASSUME NEW words \in FilterTexts, addFilter(words) PROVE Result
  <2> DEFINE args == toUpperCase(words)
  <2>1. words \in Seq(DOMAIN Upper) /\ \A w \in DOMAIN Upper : Upper[w] # "all"
    BY SiteAssumption
  <2>2. Len(words) \in Nat /\ DOMAIN words = 1 .. Len(words)
    BY <2>1
  <2>3. args \in Seq({Upper[w] : w \in DOMAIN Upper})
    <3>1. args = [i \in 1 .. Len(words) |-> Upper[words[i]]]
      BY <2>2 DEF toUpperCase
    <3>2. \A i \in 1 .. Len(words) : Upper[words[i]] \in {Upper[w] : w \in DOMAIN Upper}
      BY <2>1, <2>2
    <3> QED BY <2>2, <3>1, <3>2
  <2>4. args # <<"all">>
    <3> SUFFICES ASSUME args = <<"all">> PROVE FALSE
      OBVIOUS
    <3>1. Len(args) = 1 /\ args[1] = "all"
      OBVIOUS
    <3>2. args[1] \in {Upper[w] : w \in DOMAIN Upper}
      <4> HIDE DEF args
      <4> QED BY <2>3, <3>1
    <3> HIDE DEF args
    <3> QED BY <2>1, <3>1, <3>2
  <2>5. IsSeq(args)
    BY <2>3 DEF IsSeq
  <2>6. page = "filtering" /\ Clicks("filtering", "addFilter", "accept", args)
    BY <1>4 DEF addFilter, Clicks
  <2> HIDE DEF args
  <2>7. New(Command("addFilter", "accept", args))
    BY <2>4, <2>5, <2>6, NewCommand, Reports1
  <2> QED BY <1>1, <2>6, <2>7
<1>5. CASE clearFilterList
  <2>1. page = "filtering"
    BY <1>5 DEF clearFilterList, Clicks
  <2>2. IsSeq(<<"all">>)
    BY SeqSingle
  <2>3. New(Command("clearFilterList", "accept", <<"all">>))
    BY <2>1, <2>2, NewCommand, Reports1
  <2> QED BY <1>1, <1>5, <2>3 DEF clearFilterList
<1>6. ASSUME NEW args, NEW by, Clicks("algorithms", by, "algorithm", args), by \in {"addAlgorithm", "clearAlgList"}
      PROVE  Result
  <2>1. page = "algorithms"
    BY <1>6 DEF Clicks
  <2>2. New(Command(by, "algorithm", args))
    BY <1>6, <2>1, NewCommand, Reports1
  <2> QED BY <1>1, <1>6, <2>2
<1>7. CASE (\E a \in Algorithms : addAlgorithm(a)) \/ clearAlgList
  BY <1>6, <1>7 DEF addAlgorithm, clearAlgList
<1>8. ASSUME NEW token, resetToken(token) PROVE Result
  <2>1. page = "auth"
    BY <1>8 DEF resetToken, Clicks
  <2>2. New(Command("resetToken", "auth", <<"token", token>>))
    BY <2>1, NewCommand, Reports1
  <2> QED BY <1>1, <1>8, <2>2 DEF resetToken
<1>9. CASE runCommand
  <2> DEFINE c == Command("runCommand", input[1], Tail(input))
  <2>1. page = "commands" /\ input # <<>> /\ Clicks("commands", "runCommand", input[1], Tail(input))
    BY <1>9 DEF runCommand, Clicks
  <2>2. input \in Commands /\ input \in Seq(STRING)
    BY <2>1, CommandsAssumption DEF PageInv
  <2>3. Tail(input) \in Seq(STRING)
    BY <2>1, <2>2
  <2>4. Tail(input) # <<>> => (input[1] = "auth" => Tail(input)[1] \in {"token", "cert"}) /\ input[1] # "setup"
    BY <2>2, CommandsAssumption
  <2>5. IsSeq(Tail(input))
    BY <2>3 DEF IsSeq
  <2>6. page \notin Reporting
    BY <2>1, Reports1
  <2>7. New(c)
    BY <2>1, <2>4, <2>5, <2>6, NewCommand
  <2> QED BY <1>1, <2>1, <2>7
<1>10. CASE rebootLogger
  <2>1. page = "reboot" /\ page \notin Reporting
    BY <1>10, Reports1 DEF rebootLogger, Clicks
  <2>2. New(Command("rebootLogger", "restart", <<>>))
    BY <2>1, NewCommand
  <2> QED BY <1>1, <1>10, <2>2 DEF rebootLogger
<1>11. ASSUME NEW resource, saveConfig(resource) PROVE Result
  <2>1. page = "configure" /\ page \notin Reporting
    BY <1>11, Reports1 DEF saveConfig, Clicks
  <2>2. New(Command("saveConfig", "snapshot", <<resource>>))
    BY <2>1, NewCommand
  <2> QED BY <1>1, <1>11, <2>2 DEF saveConfig
<1>12. CASE uploadCurrentConfig
  <2>1. PICK args : sendConfig("setup", args)
    BY <1>12 DEF uploadCurrentConfig
  <2> QED BY <1>2, <2>1
<1>13. CASE uploadDefaultConfig
  BY <1>2, <1>13 DEF uploadDefaultConfig
<1>14. CASE refreshStatus
  <2>1. page \in {"index", "status"}
    BY <1>14 DEF refreshStatus, Delayed
  <2>2. New(Command("updateStatus", "status", <<>>))
    BY <2>1, NewCommand, Reports1
  <2> QED BY <1>3, <1>14, <2>2 DEF refreshStatus
<1>15. ASSUME NEW resource, redirect(resource) PROVE Result
  <2>1. page = "status"
    BY <1>15 DEF redirect, Delayed
  <2>2. New(Command("redirect", "snapshot", <<resource>>))
    BY <2>1, NewCommand, Reports1
  <2> QED BY <1>3, <1>15, <2>2 DEF redirect
<1>16. ASSUME \/ \E file \in Documents : Upload("metadata", file)
              \/ \E file \in Certs : Upload("auth", file)
              \/ \E c \in Commands : Types(c)
              \/ \E f \in Fields : \E value \in Edits[f] : Edit(f, value)
              \/ generateUniqueID({"ship-1"})
              \/ \E config \in SavedConfigs : loadConfigLocally(config)
       PROVE  Idles
  BY <1>16 DEF Upload, Types, Edit, generateUniqueID, loadConfigLocally, Idles
<1> HIDE DEF Result
<1>17. Idles => Result
  BY DEF Result
<1>18. Reopen => Result
  BY DEF Result
<1> QED
  BY <1>4, <1>5, <1>7, <1>8, <1>9, <1>10, <1>11, <1>12, <1>13, <1>14, <1>15, <1>16, <1>17, <1>18, Zenon DEF UserActs

\* So does the reader of a file that is read.
LEMMA ReadersSend ==
  ASSUME onUpload \/ onCertUpload
  PROVE  (\E c : New(c) /\ Sends(c)) \/ Idles
<1>1. CASE onUpload
  <2>1. PICK file \in Documents :
          /\ Read("metadata", file)
          /\ \/ file \notin NotJSON /\ sendCommand("onUpload", "metadata", <<file>>)
             \/ file \in NotJSON /\ UNCHANGED <<page, timers, requests, replies, logger, fresh>>
    BY <1>1 DEF onUpload
  <2>2. page = "metadata" /\ UNCHANGED shown
    BY <2>1 DEF Read
  <2>3. CASE file \notin NotJSON /\ sendCommand("onUpload", "metadata", <<file>>)
    <3>1. Head(<<file>>) = file
      OBVIOUS
    <3>2. New(Command("onUpload", "metadata", <<file>>))
      BY <2>2, <2>3, <3>1, NewCommand, Reports1
    <3>3. Sends(Command("onUpload", "metadata", <<file>>))
      BY <2>2, <2>3 DEF sendCommand, Sends
    <3> QED BY <3>2, <3>3
  <2>4. CASE UNCHANGED <<page, timers, requests, replies, logger, fresh>>
    BY <2>2, <2>4 DEF Idles
  <2> QED BY <2>1, <2>3, <2>4
<1>2. CASE onCertUpload
  <2>1. PICK file \in Certs : Read("auth", file) /\ sendCommand("onCertUpload", "auth", <<"cert", file>>)
    BY <1>2 DEF onCertUpload
  <2>2. page = "auth" /\ UNCHANGED shown
    BY <2>1 DEF Read
  <2>3. New(Command("onCertUpload", "auth", <<"cert", file>>))
    BY <2>2, NewCommand, Reports1
  <2>4. Sends(Command("onCertUpload", "auth", <<"cert", file>>))
    BY <2>1, <2>2 DEF sendCommand, Sends
  <2> QED BY <2>3, <2>4
<1> QED BY <1>1, <1>2

\* The logger does not end executing a command.
Hangs == page \in {"commands", "metadata"} /\ fresh' = FALSE /\ UNCHANGED <<pageVars, requests, replies>>

\* What becomes of the logger when it executes a command.
LEMMA Served ==
  ASSUME SendInv, PageInv, Serves
  PROVE  /\ requests # <<>> /\ UNCHANGED pageVars
         /\ LoggerOK(page, logger') /\ fresh' \in BOOLEAN
         /\ \/ \E data : Answer(logger', data)
            \/ Restart
            \/ Hangs
<1> DEFINE r == Head(requests)
           Result == /\ requests # <<>> /\ UNCHANGED pageVars
                     /\ LoggerOK(page, logger') /\ fresh' \in BOOLEAN
                     /\ \/ \E data : Answer(logger', data)
                        \/ Restart
                        \/ Hangs
<1> SUFFICES Result
  OBVIOUS
<1>1. requests # <<>>
  BY DEF Serves, AddNMEAFilter, ConfigureAlgRequest, StoreMetadataElement, SetAuthorisation,
         ReportConfigurationJSON, SetupLogger, SetLabDefaults, SnapshotResource, CurrentStatus,
         ExecutesRestart, Executes
<1>2. Fits(page, r)
  BY <1>1, SeqFacts DEF SendInv
<1>3. /\ DOMAIN logger = LoggerFields /\ logger.filter \in Seq(ThreeLetters) /\ IsSeq(logger.algorithms)
      /\ \A i \in 1 .. Len(logger.algorithms) : DOMAIN logger.algorithms[i] = {"name", "parameters"}
      /\ DOMAIN logger.config = Fields /\ logger.report \in Reports /\ logger.hung \in BOOLEAN
      /\ Renders(page, logger.hung, logger.metadata)
  BY DEF SendInv, LoggerOK
<1>4. ASSUME NEW l, LoggerOK(page, l), NEW data, Answer(l, data)
      PROVE  Result
  <2>1. logger' = l /\ UNCHANGED pageVars
    BY <1>4 DEF Answer
  <2>2. fresh' = IF r.by = "redirect" THEN fresh ELSE ~r.gone
    BY <1>4 DEF Answer
  <2>3. fresh' \in BOOLEAN
    BY <2>2 DEF PageInv
  <2> QED BY <1>1, <1>4, <2>1, <2>3
<1> HIDE DEF Result
<1>5. CASE AddNMEAFilter
  <2> DEFINE ids == IF r.args = <<"all">> THEN <<>> ELSE AddIDs(logger.filter, r.args)
  <2>1. r.name = "accept" /\ Answer([logger EXCEPT !.filter = ids], ids)
    BY <1>5 DEF AddNMEAFilter, Executes
  <2>2. ids \in Seq(ThreeLetters)
    <3>1. PICK S : r.args \in Seq(S)
      BY <1>2, <2>1 DEF Fits, IsSeq
    <3>2. AddIDs(logger.filter, r.args) \in Seq(ThreeLetters)
      BY <1>3, <3>1, IDsAdded DEF StartLike
    <3> QED BY <3>2
  <2> HIDE DEF ids
  <2>3. LoggerOK(page, [logger EXCEPT !.filter = ids])
    BY <1>3, <2>2 DEF LoggerOK, LoggerFields
  <2> QED BY <1>4, <2>1, <2>3
<1>6. CASE ConfigureAlgRequest
  <2>1. PICK list : /\ \/ list = logger.algorithms
                       \/ list = <<>>
                       \/ \E a : list = Append(logger.algorithms, a) /\ DOMAIN a = {"name", "parameters"}
                    /\ Answer([logger EXCEPT !.algorithms = list], list)
    <3> DEFINE words == r.args
               a == [name |-> Head(words), parameters |-> Tail(words)]
               list == IF words = <<>> THEN logger.algorithms
                       ELSE IF Head(words) \in NoneLike THEN <<>> ELSE Append(logger.algorithms, a)
    <3>1. Answer([logger EXCEPT !.algorithms = list], list)
      BY <1>6 DEF ConfigureAlgRequest
    <3>2. DOMAIN a = {"name", "parameters"}
      OBVIOUS
    <3> HIDE DEF a
    <3>3. list = logger.algorithms \/ list = <<>> \/ list = Append(logger.algorithms, a)
      OBVIOUS
    <3> HIDE DEF list
    <3> QED BY <3>1, <3>2, <3>3
  <2>2. IsSeq(list) /\ \A i \in 1 .. Len(list) : DOMAIN list[i] = {"name", "parameters"}
    <3>1. CASE list = <<>>
      <4>1. IsSeq(list) /\ Len(list) = 0
        BY <3>1, SeqEmpty
      <4> QED BY <4>1
    <3>2. ASSUME NEW a, list = Append(logger.algorithms, a), DOMAIN a = {"name", "parameters"}
          PROVE  IsSeq(list) /\ \A i \in 1 .. Len(list) : DOMAIN list[i] = {"name", "parameters"}
      <4>1. PICK q : q = logger.algorithms
        OBVIOUS
      <4>2. IsSeq(q) /\ Len(q) \in Nat /\ \A i \in 1 .. Len(q) : DOMAIN q[i] = {"name", "parameters"}
        BY <1>3, <4>1, SeqFacts
      <4>3. list = Append(q, a)
        BY <3>2, <4>1
      <4>4. IsSeq(list) /\ Len(list) = Len(q) + 1 /\ list[Len(q) + 1] = a
        BY <4>2, <4>3, SeqAppended
      <4>5. \A i \in 1 .. Len(q) : list[i] = q[i]
        BY <4>2, <4>3, SeqAppended
      <4> QED BY <3>2, <4>2, <4>4, <4>5
    <3> QED BY <1>3, <2>1, <3>1, <3>2
  <2>3. LoggerOK(page, [logger EXCEPT !.algorithms = list])
    BY <1>3, <2>2 DEF LoggerOK, LoggerFields
  <2> QED BY <1>4, <2>1, <2>3
<1>7. CASE StoreMetadataElement
  <2> DEFINE text == IF r.args = <<>> THEN logger.metadata ELSE Head(r.args)
             l == [logger EXCEPT !.metadata = text]
  <2>1. \/ text \notin Unrenderable /\ Answer(l, text)
        \/ /\ text \in Unrenderable
           /\ logger' = [l EXCEPT !.hung = TRUE]
           /\ fresh' = FALSE
           /\ UNCHANGED <<pageVars, requests, replies>>
    BY <1>7 DEF StoreMetadataElement
  <2>2. page # "commands" /\ text \in Unrenderable => page = "metadata" /\ text \notin NotJSON
    <3>1. r.args = <<>> \/ page = "commands" \/ (page = "metadata" /\ text \notin NotJSON)
      BY <1>2, <1>7 DEF StoreMetadataElement, Executes, Fits
    <3>2. r.args = <<>> => text = logger.metadata
      OBVIOUS
    <3> HIDE DEF text
    <3> QED BY <1>3, <3>1, <3>2 DEF Renders
  <2>3. CASE text \notin Unrenderable /\ Answer(l, text)
    <3> HIDE DEF text
    <3>1. ~logger.hung
      BY <1>7 DEF StoreMetadataElement, Executes
    <3>2. LoggerOK(page, l)
      BY <1>3, <2>3, <3>1 DEF LoggerOK, LoggerFields, Renders
    <3> HIDE DEF l
    <3> QED BY <1>4, <2>3, <3>2
  <2>4. CASE /\ text \in Unrenderable
             /\ logger' = [l EXCEPT !.hung = TRUE]
             /\ fresh' = FALSE
             /\ UNCHANGED <<pageVars, requests, replies>>
    <3> HIDE DEF text
    <3>1. Renders(page, TRUE, text)
      BY <2>2, <2>4 DEF Renders
    <3>2. LoggerOK(page, logger')
      BY <1>3, <2>4, <3>1 DEF LoggerOK, LoggerFields
    <3>3. Hangs
      <4>1. page \in {"commands", "metadata"}
        BY <2>2, <2>4
      <4> QED BY <2>4, <4>1 DEF Hangs
    <3> QED BY <1>1, <2>4, <3>2, <3>3 DEF Result
  <2> QED BY <2>1, <2>3, <2>4
<1>8. CASE SetAuthorisation
  <2> DEFINE l == IF r.args = <<>> THEN logger ELSE [logger EXCEPT ![r.args[1]] = r.args[2]]
  <2>1. r.args = <<>> \/ r.args[1] \in {"token", "cert"}
    BY <1>2, <1>8 DEF SetAuthorisation, Executes, Fits
  <2>2. LoggerOK(page, l)
    <3>1. CASE r.args = <<>>
      BY <3>1 DEF SendInv
    <3>2. CASE r.args # <<>> /\ r.args[1] = "token"
      <4>1. l = [logger EXCEPT !.token = r.args[2]]
        BY <3>2
      <4> QED BY <1>3, <4>1 DEF LoggerOK, LoggerFields
    <3>3. CASE r.args # <<>> /\ r.args[1] = "cert"
      <4>1. l = [logger EXCEPT !.cert = r.args[2]]
        BY <3>3
      <4> QED BY <1>3, <4>1 DEF LoggerOK, LoggerFields
    <3> QED BY <2>1, <3>1, <3>2, <3>3
  <2> HIDE DEF l
  <2>3. \E data : Answer(l, data)
    BY <1>8 DEF SetAuthorisation, l
  <2> QED BY <1>4, <2>2, <2>3
<1>9. CASE ReportConfigurationJSON \/ SnapshotResource \/ CurrentStatus
  <2>1. LoggerOK(page, logger) /\ \E data : Answer(logger, data)
    BY <1>9 DEF SendInv, ReportConfigurationJSON, SnapshotResource, CurrentStatus
  <2> QED BY <1>4, <2>1
<1>10. CASE SetupLogger
  <2> DEFINE config == SetConfig(r.args[1], logger.config)
  <2>1. Answer([logger EXCEPT !.config = config], <<>>)
    <3>1. [logger EXCEPT !.config = SetConfig(r.args[1], @)] = [logger EXCEPT !.config = config]
      BY Zenon
    <3> QED BY <1>10, <3>1 DEF SetupLogger
  <2>2. DOMAIN config = Fields
    BY DEF SetConfig
  <2> HIDE DEF config
  <2>3. LoggerOK(page, [logger EXCEPT !.config = config])
    BY <1>3, <2>2 DEF LoggerOK, LoggerFields
  <2> QED BY <1>4, <2>1, <2>3
<1>11. CASE SetLabDefaults
  <2>1. LoggerOK(page, [logger EXCEPT !.defaults = TRUE])
    BY <1>3 DEF LoggerOK, LoggerFields
  <2> QED BY <1>4, <1>11, <2>1 DEF SetLabDefaults
<1>12. CASE ExecutesRestart
  <2>1. Restart
    BY <1>12 DEF ExecutesRestart
  <2>2. logger' = [logger EXCEPT !.hung = FALSE] /\ fresh' = fresh /\ UNCHANGED pageVars
    BY <2>1 DEF Restart
  <2>3. LoggerOK(page, logger')
    BY <1>3, <2>2 DEF LoggerOK, LoggerFields, Renders
  <2>4. fresh' \in BOOLEAN
    BY <2>2 DEF PageInv
  <2> QED BY <1>1, <2>1, <2>2, <2>3, <2>4 DEF Result
<1>13. Result
  BY <1>5, <1>6, <1>7, <1>8, <1>9, <1>10, <1>11, <1>12 DEF Serves
<1> QED BY <1>13

LEMMA SiteInit == Init => SendInv /\ PageInv
<1> SUFFICES ASSUME Init PROVE SendInv /\ PageInv
  OBVIOUS
<1>1. LoggerOK(page, logger)
  <2>1. FirstReport \in Reports /\ DOMAIN FirstConfig = Fields /\ "{}" \notin Unrenderable
    BY SiteAssumption, ReportsAssumption
  <2>2. <<>> \in Seq(ThreeLetters)
    OBVIOUS
  <2>3. IsSeq(<<>>) /\ \A i \in 1 .. Len(<<>>) : DOMAIN (<<>>)[i] = {"name", "parameters"}
    <3>1. IsSeq(<<>>) /\ Len(<<>>) = 0
      BY SeqEmpty
    <3> QED BY <3>1
  <2> QED BY <2>1, <2>2, <2>3 DEF Init, LoggerOK, LoggerFields, Renders
<1>2. IsSeq(timers) /\ \A i \in 1 .. Len(timers) : Fits(page, timers[i]) /\ timers[i].gone = FALSE
  <2>1. timers = Bootstrap(page)
    BY DEF Init
  <2> QED BY <2>1, BootstrapFits, Zenon
<1>3. requests = <<>> /\ replies = <<>>
  BY DEF Init
<1>4. SendInv
  BY <1>1, <1>2, <1>3, SeqEmpty DEF SendInv
<1>5. PageInv
  BY DEF Init, PageInv, Blank
<1> QED BY <1>4, <1>5

\* Commands that fit stay in the queues.
LEMMA SendStep ==
  ASSUME SendInv, PageInv, [Next]_vars
  PROVE  SendInv' /\ page' = page
<1>1. /\ IsSeq(requests) /\ Len(requests) \in Nat /\ \A i \in 1 .. Len(requests) : Fits(page, requests[i])
      /\ IsSeq(timers) /\ Len(timers) \in Nat
      /\ \A i \in 1 .. Len(timers) : Fits(page, timers[i]) /\ timers[i].gone = FALSE
      /\ IsSeq(replies) /\ LoggerOK(page, logger)
  BY SeqFacts DEF SendInv
<1>2. ASSUME NEW c, New(c), Sends(c) PROVE SendInv' /\ page' = page
  <2>1. requests' = Append(requests, c) /\ UNCHANGED <<page, timers, replies, logger>>
    BY <1>2 DEF Sends
  <2>2. /\ IsSeq(requests') /\ Len(requests') = Len(requests) + 1 /\ requests'[Len(requests) + 1] = c
        /\ \A i \in 1 .. Len(requests) : requests'[i] = requests[i]
    <3>1. requests' = Append(requests, c) /\ IsSeq(requests)
      BY <1>1, <2>1
    <3>2. IsSeq(requests')
      BY <3>1, SeqAppended
    <3>3. Len(requests') = Len(requests) + 1
      BY <3>1, SeqAppended
    <3>4. requests'[Len(requests) + 1] = c
      BY <3>1, SeqAppended
    <3>5. \A i \in 1 .. Len(requests) : requests'[i] = requests[i]
      BY <3>1, SeqAppended
    <3> QED BY <3>2, <3>3, <3>4, <3>5
  <2>3. \A i \in 1 .. Len(requests') : Fits(page, requests'[i])
    BY <1>1, <1>2, <2>2 DEF New
  <2> QED BY <1>1, <2>1, <2>2, <2>3 DEF SendInv
<1>3. ASSUME NEW c, New(c), Delays(c) PROVE SendInv' /\ page' = page
  <2>1. timers' = Append(timers, c) /\ UNCHANGED <<page, requests, replies, logger>>
    BY <1>3 DEF Delays
  <2>2. /\ IsSeq(timers') /\ Len(timers') = Len(timers) + 1 /\ timers'[Len(timers) + 1] = c
        /\ \A i \in 1 .. Len(timers) : timers'[i] = timers[i]
    <3>1. timers' = Append(timers, c) /\ IsSeq(timers)
      BY <1>1, <2>1
    <3>2. IsSeq(timers')
      BY <3>1, SeqAppended
    <3>3. Len(timers') = Len(timers) + 1
      BY <3>1, SeqAppended
    <3>4. timers'[Len(timers) + 1] = c
      BY <3>1, SeqAppended
    <3>5. \A i \in 1 .. Len(timers) : timers'[i] = timers[i]
      BY <3>1, SeqAppended
    <3> QED BY <3>2, <3>3, <3>4, <3>5
  <2>3. \A i \in 1 .. Len(timers') : Fits(page, timers'[i]) /\ timers'[i].gone = FALSE
    BY <1>1, <1>3, <2>2 DEF New
  <2> QED BY <1>1, <2>1, <2>2, <2>3 DEF SendInv
<1>4. CASE Reopen
  <2>1. /\ timers' = Bootstrap(page) /\ UNCHANGED <<page, logger>> /\ replies' = <<>>
        /\ requests' = [i \in DOMAIN requests |-> [requests[i] EXCEPT !.gone = TRUE]]
    BY <1>4 DEF Reopen
  <2>2. IsSeq(requests') /\ Len(requests') = Len(requests)
        /\ \A i \in 1 .. Len(requests') : requests'[i] = [requests[i] EXCEPT !.gone = TRUE]
    <3>1. /\ requests' = [i \in DOMAIN requests |-> [requests[i] EXCEPT !.gone = TRUE]]
          /\ IsSeq(requests)
      BY <1>1, <2>1
    <3>2. IsSeq(requests')
      BY <3>1, SeqForgotten
    <3>3. Len(requests') = Len(requests)
      BY <3>1, SeqForgotten
    <3>4. \A i \in 1 .. Len(requests') : requests'[i] = [requests[i] EXCEPT !.gone = TRUE]
      <4>1. DOMAIN requests = 1 .. Len(requests)
        BY <3>1, SeqFacts
      <4> QED BY <3>1, <3>3, <4>1
    <3> QED BY <3>2, <3>3, <3>4
  <2>3. \A c : Fits(page, c) => Fits(page, [c EXCEPT !.gone = TRUE])
    BY DEF Fits
  <2>4. \A i \in 1 .. Len(requests') : Fits(page, requests'[i])
    BY <1>1, <2>2, <2>3
  <2>5. IsSeq(timers') /\ \A i \in 1 .. Len(timers') : Fits(page, timers'[i]) /\ timers'[i].gone = FALSE
    BY <2>1, BootstrapFits, Zenon
  <2> QED BY <1>1, <2>1, <2>2, <2>4, <2>5, SeqEmpty DEF SendInv
<1>5. CASE Idles
  BY <1>1, <1>5 DEF Idles, SendInv
<1>6. CASE UserActs \/ onUpload \/ onCertUpload
  BY <1>2, <1>3, <1>4, <1>5, <1>6, UserActsAre, ReadersSend
<1>7. CASE TimerFires
  <2>1. PICK k \in DOMAIN timers :
          /\ requests' = Append(requests, timers[k]) /\ timers' = RemoveAt(timers, k)
          /\ UNCHANGED <<page, replies, logger>>
    BY <1>7 DEF TimerFires
  <2>2. Fits(page, timers[k])
    BY <1>1, SeqFacts
  <2>3. /\ IsSeq(requests') /\ Len(requests') = Len(requests) + 1 /\ requests'[Len(requests) + 1] = timers[k]
        /\ \A i \in 1 .. Len(requests) : requests'[i] = requests[i]
    <3>1. requests' = Append(requests, timers[k]) /\ IsSeq(requests)
      BY <1>1, <2>1
    <3>2. IsSeq(requests')
      BY <3>1, SeqAppended
    <3>3. Len(requests') = Len(requests) + 1
      BY <3>1, SeqAppended
    <3>4. requests'[Len(requests) + 1] = timers[k]
      BY <3>1, SeqAppended
    <3>5. \A i \in 1 .. Len(requests) : requests'[i] = requests[i]
      BY <3>1, SeqAppended
    <3> QED BY <3>2, <3>3, <3>4, <3>5
  <2>4. /\ IsSeq(timers')
        /\ \A i \in 1 .. Len(timers') : timers'[i] = timers[Was(i, k)] /\ Was(i, k) \in 1 .. Len(timers)
    <3>1. timers' = RemoveAt(timers, k) /\ k \in DOMAIN timers /\ IsSeq(timers)
      BY <1>1, <2>1
    <3>2. IsSeq(timers')
      BY <3>1, SeqRemoved
    <3>3. \A i \in 1 .. Len(timers') : timers'[i] = timers[Was(i, k)] /\ Was(i, k) \in 1 .. Len(timers)
      BY <3>1, SeqRemoved
    <3> QED BY <3>2, <3>3
  <2>5. \A i \in 1 .. Len(requests') : Fits(page, requests'[i])
    BY <1>1, <2>2, <2>3
  <2>6. \A i \in 1 .. Len(timers') : Fits(page, timers'[i]) /\ timers'[i].gone = FALSE
    BY <1>1, <2>4
  <2> QED BY <1>1, <2>1, <2>3, <2>4, <2>5, <2>6 DEF SendInv
<1>8. CASE PageHandles
  <2>1. replies # <<>> /\ replies' = Tail(replies) /\ UNCHANGED <<page, timers, requests, logger>>
    BY <1>8 DEF PageHandles, populateFilterTable, populateAlgTable, showMetadata, populateDisplay,
                updateStatus, showOutput, bootstrapConfig, AnswerIgnored, Handles
  <2>2. IsSeq(replies')
    BY <1>1, <2>1, SeqTaken
  <2> QED BY <1>1, <2>1, <2>2 DEF SendInv
<1>9. ASSUME requests' = Tail(requests) \/ requests' = <<>> \/ requests' = requests, requests # <<>>,
             UNCHANGED <<page, timers>>, IsSeq(replies'), LoggerOK(page, logger')
      PROVE  SendInv' /\ page' = page
  <2>1. IsSeq(requests') /\ \A i \in 1 .. Len(requests') : \E j \in 1 .. Len(requests) : requests'[i] = requests[j]
    <3>1. CASE requests' = Tail(requests)
      <4>1. requests # <<>> /\ IsSeq(requests)
        BY <1>1, <1>9
      <4>2. IsSeq(requests')
        BY <3>1, <4>1, SeqTaken
      <4>3. \A i \in 1 .. Len(requests') : requests'[i] = requests[i + 1] /\ i + 1 \in 1 .. Len(requests)
        BY <3>1, <4>1, SeqTaken
      <4> QED BY <4>2, <4>3
    <3>2. CASE requests' = <<>>
      <4>1. IsSeq(requests') /\ Len(requests') = 0
        BY <3>2, SeqEmpty
      <4> QED BY <4>1
    <3>3. CASE requests' = requests
      BY <1>1, <3>3
    <3> QED BY <1>9, <3>1, <3>2, <3>3
  <2>2. \A i \in 1 .. Len(requests') : Fits(page, requests'[i])
    BY <1>1, <2>1
  <2> QED BY <1>1, <1>9, <2>1, <2>2 DEF SendInv
<1>10. CASE Serves
  <2>1. /\ requests # <<>> /\ UNCHANGED <<page, timers>> /\ LoggerOK(page, logger')
        /\ \/ \E data : Answer(logger', data)
           \/ Restart
           \/ UNCHANGED <<requests, replies>>
    BY <1>10, Served DEF pageVars, Hangs
  <2>2. ASSUME NEW data, Answer(logger', data) PROVE IsSeq(replies') /\ requests' = Tail(requests)
    <3>1. /\ requests' = Tail(requests)
          /\ replies' = IF Head(requests).gone THEN replies
                        ELSE Append(replies, [by |-> Head(requests).by, data |-> data])
      BY <2>2 DEF Answer
    <3> QED BY <1>1, <3>1, SeqAppended
  <2>3. ASSUME Restart PROVE IsSeq(replies') /\ requests' = <<>>
    BY <1>1, <2>3 DEF Restart
  <2>4. IsSeq(replies') /\ (requests' = Tail(requests) \/ requests' = <<>> \/ requests' = requests)
    BY <1>1, <2>1, <2>2, <2>3
  <2> QED BY <1>9, <2>1, <2>4
<1>11. CASE PowerLoss
  <2>1. /\ logger' = [logger EXCEPT !.hung = FALSE] /\ requests' = <<>>
        /\ UNCHANGED <<page, timers, replies>>
    BY <1>11 DEF PowerLoss, Restart, pageVars
  <2>2. LoggerOK(page, logger')
    BY <1>1, <2>1 DEF LoggerOK, LoggerFields, Renders
  <2>3. IsSeq(requests') /\ \A i \in 1 .. Len(requests') : Fits(page, requests'[i])
    <3>1. IsSeq(requests') /\ Len(requests') = 0
      BY <2>1, SeqEmpty
    <3> QED BY <3>1
  <2> QED BY <1>1, <2>1, <2>2, <2>3 DEF SendInv
<1>12. CASE Records
  <2>1. PICK r \in Reports : logger' = [logger EXCEPT !.report = r]
    BY <1>12 DEF Records
  <2>2. LoggerOK(page, logger')
    BY <1>1, <2>1 DEF LoggerOK, LoggerFields
  <2>3. UNCHANGED <<page, timers, requests, replies>>
    BY <1>12 DEF Records, pageVars
  <2> QED BY <1>1, <2>2, <2>3 DEF SendInv
<1>13. CASE \E i \in DOMAIN requests : RequestLost(i)
  <2>1. PICK k \in DOMAIN requests : RequestLost(k)
    BY <1>13
  <2>2. requests' = RemoveAt(requests, k) /\ UNCHANGED <<page, timers, replies, logger>>
    BY <2>1 DEF RequestLost, pageVars
  <2>3. /\ IsSeq(requests')
        /\ \A i \in 1 .. Len(requests') : requests'[i] = requests[Was(i, k)] /\ Was(i, k) \in 1 .. Len(requests)
    <3>1. requests' = RemoveAt(requests, k) /\ k \in DOMAIN requests /\ IsSeq(requests)
      BY <1>1, <2>2
    <3>2. IsSeq(requests')
      BY <3>1, SeqRemoved
    <3>3. \A i \in 1 .. Len(requests') : requests'[i] = requests[Was(i, k)] /\ Was(i, k) \in 1 .. Len(requests)
      BY <3>1, SeqRemoved
    <3> QED BY <3>2, <3>3
  <2>4. \A i \in 1 .. Len(requests') : Fits(page, requests'[i])
    BY <1>1, <2>3
  <2> QED BY <1>1, <2>2, <2>3, <2>4 DEF SendInv
<1>14. CASE \E i \in DOMAIN replies : ReplyLost(i)
  <2>1. PICK k \in DOMAIN replies : replies' = RemoveAt(replies, k) /\ UNCHANGED <<page, timers, requests, logger>>
    BY <1>14 DEF ReplyLost, pageVars
  <2>2. IsSeq(replies')
    <3>1. replies' = RemoveAt(replies, k) /\ k \in DOMAIN replies /\ IsSeq(replies)
      BY <1>1, <2>1
    <3> QED BY <3>1, SeqRemoved
  <2> QED BY <1>1, <2>1, <2>2 DEF SendInv
<1>15. CASE UNCHANGED vars
  BY <1>1, <1>15 DEF vars, pageVars, SendInv
<1> QED
  BY <1>6, <1>7, <1>8, <1>10, <1>11, <1>12, <1>13, <1>14, <1>15 DEF Next
\* The page's variables but what it shows.
SamePage == UNCHANGED <<page, readers, input, form, basis, touched>>

LEMMA PageStep ==
  ASSUME SendInv, PageInv, [Next]_vars
  PROVE  PageInv'
<1>1. /\ page \in Pages /\ DOMAIN form = Fields /\ fresh \in BOOLEAN
      /\ readers \subseteq IF page = "metadata" THEN Documents ELSE IF page = "auth" THEN Certs ELSE {}
      /\ page # "configure" => form = Blank
      /\ IF page = "commands" THEN input \in Commands \cup {<<>>} ELSE input = <<>>
      /\ basis \in {"blank", "logger", "sent"} /\ touched \subseteq Fields
  BY DEF PageInv
<1>2. ASSUME SamePage, fresh' \in BOOLEAN PROVE PageInv'
  BY <1>1, <1>2 DEF SamePage, PageInv
<1>3. ASSUME NEW p, NEW by, NEW name, NEW args, Clicks(p, by, name, args) PROVE PageInv'
  BY <1>1, <1>2, <1>3 DEF Clicks, sendCommand, SamePage
<1>4. ASSUME NEW ps, NEW by, NEW name, NEW args, Delayed(ps, by, name, args) PROVE PageInv'
  BY <1>1, <1>2, <1>4 DEF Delayed, SamePage
<1>5. ASSUME NEW p, NEW files, NEW file, file \in files, Upload(p, file),
             <<p, files>> \in {<<"metadata", Documents>>, <<"auth", Certs>>}
      PROVE  PageInv'
  BY <1>1, <1>5 DEF Upload, PageInv
<1>6. ASSUME NEW p, NEW file, Read(p, file), page' = page, fresh' = fresh PROVE PageInv'
  BY <1>1, <1>6 DEF Read, PageInv
<1>7. ASSUME NEW f \in Fields, NEW value, Edit(f, value) PROVE PageInv'
  <2>1. page = "configure" /\ form' = [form EXCEPT ![f] = value] /\ touched' = touched \cup {f}
        /\ UNCHANGED <<page, readers, input, basis, fresh>>
    BY <1>7 DEF Edit
  <2>2. DOMAIN form' = Fields
    BY <1>1, <2>1
  <2> QED BY <1>1, <2>1, <2>2 DEF PageInv
<1>8. ASSUME NEW config, page = "configure", form' = parseConfigJSON(config, form),
             touched' = touched \cup Reached(config) \/ touched' = touched \cup Misheld(config),
             basis' \in {"blank", "logger", "sent"}, UNCHANGED <<page, readers, input, fresh>>
      PROVE  PageInv'
  <2>1. DOMAIN form' = Fields
    BY <1>8 DEF parseConfigJSON
  <2>2. touched' \subseteq Fields
    BY <1>1, <1>8 DEF Reached, Misheld
  <2> QED BY <1>1, <1>8, <2>1, <2>2 DEF PageInv
<1>9. CASE UserActs
  <2>1. CASE \E words \in FilterTexts : addFilter(words)
    BY <1>3, <2>1 DEF addFilter
  <2>2. CASE clearFilterList \/ clearAlgList \/ rebootLogger
    BY <1>3, <2>2 DEF clearFilterList, clearAlgList, rebootLogger
  <2>3. CASE \E a \in Algorithms : addAlgorithm(a)
    BY <1>3, <2>3 DEF addAlgorithm
  <2>4. CASE \E file \in Documents : Upload("metadata", file)
    <3>1. PICK file \in Documents : Upload("metadata", file)
      BY <2>4
    <3> QED BY <1>5, <3>1
  <2>5. CASE \E token \in Tokens : resetToken(token)
    BY <1>3, <2>5 DEF resetToken
  <2>6. CASE \E file \in Certs : Upload("auth", file)
    <3>1. PICK file \in Certs : Upload("auth", file)
      BY <2>6
    <3> QED BY <1>5, <3>1
  <2>7. CASE \E c \in Commands : Types(c)
    BY <1>1, <2>7 DEF Types, PageInv
  <2>8. CASE runCommand
    BY <1>3, <2>8 DEF runCommand
  <2>9. CASE \E f \in Fields : \E value \in Edits[f] : Edit(f, value)
    BY <1>7, <2>9
  <2>10. CASE generateUniqueID({"ship-1"})
    BY <1>7, <2>10 DEF generateUniqueID
  <2>11. CASE uploadCurrentConfig \/ uploadDefaultConfig
    <3>1. /\ UNCHANGED <<page, readers, input, form, fresh>>
          /\ touched' = touched \/ touched' = touched \cup Misread(form)
          /\ basis' = basis \/ basis' = IF basis = "blank" THEN "sent" ELSE basis
      BY <2>11 DEF uploadCurrentConfig, uploadDefaultConfig, sendConfig, sendCommand
    <3>2. touched' \subseteq Fields /\ basis' \in {"blank", "logger", "sent"}
      BY <1>1, <3>1 DEF Misread
    <3> QED BY <1>1, <3>1, <3>2 DEF PageInv
  <2>12. CASE \E resource \in {"config", "defaults"} : saveConfig(resource)
    BY <1>3, <2>12 DEF saveConfig
  <2>13. CASE \E config \in SavedConfigs : loadConfigLocally(config)
    BY <1>1, <1>8, <2>13 DEF loadConfigLocally
  <2>14. CASE refreshStatus
    BY <1>4, <2>14 DEF refreshStatus
  <2>15. CASE \E resource \in {"catalog", "archive"} : redirect(resource)
    BY <1>4, <2>15 DEF redirect
  <2>16. CASE Reopen
    BY <1>1, <2>16 DEF Reopen, PageInv, Blank
  <2> QED BY <1>9, <2>1, <2>2, <2>3, <2>4, <2>5, <2>6, <2>7, <2>8, <2>9, <2>10, <2>11, <2>12, <2>13,
             <2>14, <2>15, <2>16 DEF UserActs
<1>10. CASE TimerFires
  BY <1>1, <1>2, <1>10 DEF TimerFires, SamePage
<1>11. CASE onUpload \/ onCertUpload
  <2>1. CASE onUpload
    <3>1. PICK file \in Documents : Read("metadata", file) /\ page' = page /\ fresh' = fresh
      BY <2>1 DEF onUpload, sendCommand
    <3> QED BY <1>6, <3>1
  <2>2. CASE onCertUpload
    <3>1. PICK file \in Certs : Read("auth", file) /\ page' = page /\ fresh' = fresh
      BY <2>2 DEF onCertUpload, sendCommand
    <3> QED BY <1>6, <3>1
  <2> QED BY <1>11, <2>1, <2>2
<1>12. CASE PageHandles
  <2>1. CASE populateFilterTable \/ populateAlgTable \/ showMetadata \/ populateDisplay \/ updateStatus
             \/ AnswerIgnored
    <3>1. SamePage /\ fresh' = fresh
      BY <2>1 DEF populateFilterTable, populateAlgTable, showMetadata, populateDisplay, updateStatus,
                  AnswerIgnored, Handles, SamePage
    <3> QED BY <1>1, <1>2, <3>1
  <2>2. CASE showOutput
    BY <1>1, <2>2 DEF showOutput, Handles, PageInv
  <2>3. CASE bootstrapConfig
    <3>1. /\ page = "configure" /\ UNCHANGED <<page, readers, input, fresh>>
          /\ form' = parseConfigJSON(Head(replies).data, form)
          /\ touched' = touched \cup Misheld(Head(replies).data)
          /\ basis' \in {"blank", "logger", "sent"}
      BY <1>1, <2>3 DEF bootstrapConfig, Handles
    <3> QED BY <1>8, <3>1
  <2> QED BY <1>12, <2>1, <2>2, <2>3 DEF PageHandles
<1>13. CASE Serves
  <2>1. UNCHANGED pageVars /\ fresh' \in BOOLEAN
    BY <1>13, Served
  <2> QED BY <1>2, <2>1 DEF pageVars, SamePage
<1>14. CASE PowerLoss \/ Records \/ \E i \in DOMAIN requests : RequestLost(i)
  <2>1. UNCHANGED pageVars /\ fresh' \in BOOLEAN
    BY <1>1, <1>14 DEF PowerLoss, Restart, Records, RequestLost
  <2> QED BY <1>2, <2>1 DEF pageVars, SamePage
<1>15. CASE \E i \in DOMAIN replies : ReplyLost(i)
  <2>1. UNCHANGED pageVars /\ fresh' \in BOOLEAN
    BY <1>1, <1>15 DEF ReplyLost
  <2> QED BY <1>2, <2>1 DEF pageVars, SamePage
<1>16. CASE UNCHANGED vars
  BY <1>1, <1>2, <1>16 DEF vars, pageVars, SamePage
<1> QED BY <1>9, <1>10, <1>11, <1>12, <1>13, <1>14, <1>15, <1>16 DEF Next

LEMMA TypesHold == SendInv /\ PageInv => SiteTypeOK /\ HungByJSONOnly
<1> SUFFICES ASSUME SendInv, PageInv PROVE SiteTypeOK /\ HungByJSONOnly
  OBVIOUS
<1>1. \A i \in DOMAIN timers : timers[i].gone = FALSE
  BY SeqFacts DEF SendInv
<1>2. /\ \A i \in DOMAIN logger.filter : logger.filter[i] \in ThreeLetters
      /\ DOMAIN logger.config = Fields /\ logger.report \in Reports /\ logger.hung \in BOOLEAN
      /\ HungByJSONOnly
  BY DEF SendInv, LoggerOK, Renders, HungByJSONOnly
<1>3. page # "commands" => input = <<>>
  BY DEF PageInv
<1> QED BY <1>1, <1>2, <1>3 DEF PageInv, SiteTypeOK

LEMMA SendInvHolds == Spec => [](SendInv /\ PageInv)
<1>1. SendInv /\ PageInv /\ [Next]_vars => SendInv' /\ PageInv'
  BY SendStep, PageStep
<1> QED BY SiteInit, <1>1, PTL DEF Spec

\* SiteTypeOK: every variable stays in its range, and the command queues, the
\* readers and the form hold nothing that the open page does not have.
THEOREM SiteTypeCorrect == Spec => []SiteTypeOK
BY SendInvHolds, TypesHold, PTL

\* HungByJSONOnly: except by hand, the logger is made to store metadata on which
\* GenerateJSON() never ends only by the metadata page and only if JSON.parse()
\* takes them, whatever files are chosen and whatever else happens while they are
\* read; nothing else hangs it.
THEOREM HungCorrect == Spec => []HungByJSONOnly
BY SendInvHolds, TypesHold, PTL

\* OnlyClearClears: words are only put behind the filter, unless the Clear button
\* or somebody at the command page empties it.
LEMMA FilterGrows ==
  ASSUME SendInv, PageInv, [Next]_vars
  PROVE  IsPrefix(logger.filter, logger'.filter) \/ Head(requests).by \in {"clearFilterList", "runCommand"}
<1>1. logger.filter \in Seq(ThreeLetters) /\ DOMAIN logger = LoggerFields
  BY DEF SendInv, LoggerOK
<1>2. ASSUME logger'.filter = logger.filter PROVE IsPrefix(logger.filter, logger'.filter)
  BY <1>1, <1>2 DEF IsPrefix
<1>3. ASSUME logger' = logger PROVE IsPrefix(logger.filter, logger'.filter)
  BY <1>2, <1>3
<1>4. CASE AddNMEAFilter
  <2> DEFINE r == Head(requests)
             ids == IF r.args = <<"all">> THEN <<>> ELSE AddIDs(logger.filter, r.args)
  <2>1. requests # <<>> /\ r.name = "accept" /\ logger' = [logger EXCEPT !.filter = ids]
    BY <1>4 DEF AddNMEAFilter, Executes, Answer
  <2>2. Fits(page, r)
    BY <2>1, SeqFacts DEF SendInv
  <2>3. IsSeq(r.args) /\ (r.args = <<"all">> => r.by \in {"clearFilterList", "runCommand"})
    BY <2>1, <2>2 DEF Fits
  <2>4. logger'.filter = ids
    <3> HIDE DEF ids
    <3> QED BY <1>1, <2>1 DEF LoggerFields
  <2>5. CASE r.args # <<"all">>
    <3>1. PICK S : r.args \in Seq(S)
      BY <2>3 DEF IsSeq
    <3>2. PICK f : f = logger.filter
      OBVIOUS
    <3>3. PICK g : g = AddIDs(f, r.args)
      OBVIOUS
    <3>7. f \in Seq(ThreeLetters)
      BY <1>1, <3>2
    <3>4. g \in StartLike(f, ThreeLetters)
      BY <3>1, <3>3, <3>7, IDsAdded
    <3>5. IsPrefix(f, g)
      <4>1. /\ g \in Seq(ThreeLetters) /\ Len(f) \in Nat /\ Len(f) <= Len(g)
            /\ \A i \in 1 .. Len(f) : g[i] = f[i]
        BY <3>4, <3>7 DEF StartLike
      <4>2. SubSeq(f, 1, Len(f)) \in Seq(ThreeLetters) /\ SubSeq(g, 1, Len(f)) \in Seq(ThreeLetters)
        BY <3>7, <4>1
      <4>3. Len(SubSeq(f, 1, Len(f))) = Len(f) /\ Len(SubSeq(g, 1, Len(f))) = Len(f)
        BY <3>7, <4>1
      <4>4. \A i \in 1 .. Len(f) : SubSeq(f, 1, Len(f))[i] = SubSeq(g, 1, Len(f))[i]
        BY <3>7, <4>1
      <4>5. SubSeq(f, 1, Len(f)) = SubSeq(g, 1, Len(f))
        BY <4>2, <4>3, <4>4
      <4> QED BY <4>1, <4>5 DEF IsPrefix
    <3>6. logger'.filter = g
      BY <2>4, <2>5, <3>2, <3>3
    <3> QED BY <3>2, <3>5, <3>6
  <2> QED BY <2>3, <2>5
<1>5. CASE Serves
  <2>1. CASE ConfigureAlgRequest \/ StoreMetadataElement \/ SetupLogger \/ SetLabDefaults \/ ExecutesRestart
    <3>1. \/ \E x : logger' = [logger EXCEPT !.algorithms = x]
          \/ \E x : logger' = [logger EXCEPT !.metadata = x]
          \/ \E x : logger' = [[logger EXCEPT !.metadata = x] EXCEPT !.hung = TRUE]
          \/ \E x : logger' = [logger EXCEPT !.config = x]
          \/ logger' = [logger EXCEPT !.defaults = TRUE]
          \/ logger' = [logger EXCEPT !.hung = FALSE]
      BY <2>1 DEF ConfigureAlgRequest, StoreMetadataElement, SetupLogger, SetLabDefaults,
                  ExecutesRestart, Restart, Answer
    <3>2. logger'.filter = logger.filter
      BY <1>1, <3>1 DEF LoggerFields
    <3> QED BY <1>2, <3>2
  <2>2. CASE SetAuthorisation
    <3>1. requests # <<>> /\ Head(requests).name = "auth"
      BY <2>2 DEF SetAuthorisation, Executes
    <3>2. Head(requests).args = <<>> \/ Head(requests).args[1] \in {"token", "cert"}
      BY <3>1, SeqFacts DEF SendInv, Fits
    <3>3. \/ logger' = logger
          \/ \E f \in {"token", "cert"} : \E x : logger' = [logger EXCEPT ![f] = x]
      BY <2>2, <3>2 DEF SetAuthorisation, Answer
    <3>4. logger'.filter = logger.filter
      BY <1>1, <3>3 DEF LoggerFields
    <3> QED BY <1>2, <3>4
  <2>3. CASE ReportConfigurationJSON \/ SnapshotResource \/ CurrentStatus
    BY <1>3, <2>3 DEF ReportConfigurationJSON, SnapshotResource, CurrentStatus, Answer
  <2> QED BY <1>4, <1>5, <2>1, <2>2, <2>3 DEF Serves
<1>6. CASE UserActs \/ onUpload \/ onCertUpload
  <2>1. logger' = logger
    BY <1>6, UserActsAre, ReadersSend DEF Sends, Delays, Idles, Reopen
  <2> QED BY <1>3, <2>1
<1>7. CASE TimerFires \/ (\E i \in DOMAIN requests : RequestLost(i)) \/ \E i \in DOMAIN replies : ReplyLost(i)
  <2>1. logger' = logger
    BY <1>7 DEF TimerFires, RequestLost, ReplyLost
  <2> QED BY <1>3, <2>1
<1>8. CASE PageHandles
  <2>1. logger' = logger
    BY <1>8 DEF PageHandles, populateFilterTable, populateAlgTable, showMetadata, populateDisplay,
                updateStatus, showOutput, bootstrapConfig, AnswerIgnored, Handles
  <2> QED BY <1>3, <2>1
<1>9. CASE PowerLoss \/ Records
  <2>1. logger' = [logger EXCEPT !.hung = FALSE] \/ \E x : logger' = [logger EXCEPT !.report = x]
    BY <1>9 DEF PowerLoss, Restart, Records
  <2>2. logger'.filter = logger.filter
    BY <1>1, <2>1 DEF LoggerFields
  <2> QED BY <1>2, <2>2
<1>10. CASE UNCHANGED vars
  BY <1>3, <1>10 DEF vars
<1> QED BY <1>5, <1>6, <1>7, <1>8, <1>9, <1>10 DEF Next

\* OnlyClearClears, for words of every kind and every order of requests.
THEOREM ClearsCorrect == Spec => OnlyClearClears
<1>1. SendInv /\ PageInv /\ [Next]_vars =>
        [IsPrefix(logger.filter, logger'.filter) \/ Head(requests).by \in {"clearFilterList", "runCommand"}]_vars
  BY FilterGrows
<1> QED BY SendInvHolds, <1>1, PTL DEF Spec, OnlyClearClears
-----------------------------------------------------------------------------
(* What a page shows.                                                          *)

\* An answer that tells what a logger that keeps l keeps.
Current(l, data) ==
  /\ page = "filtering" => data = l.filter
  /\ page = "algorithms" => data = l.algorithms
  /\ page = "metadata" => data = l.metadata
  /\ page = "auth" => data = IF l.token = "" /\ l.cert = "" THEN <<"No upload authorisation">>
                             ELSE <<l.token, l.cert>>
  /\ page \in {"index", "status"} => data = l.report

\* The page shows s of a logger that keeps l.
Tells(s, l) ==
  /\ page = "filtering" => s = (IF l.filter = <<>> THEN <<"All">> ELSE l.filter)
  /\ page = "algorithms" => ListShown(s, l.algorithms)
  /\ page = "metadata" => s = l.metadata
  /\ page = "auth" => AuthShown(s.token, l.token) /\ AuthShown(s.cert, l.cert)
  /\ page \in {"index", "status"} => StatusShown(s, l.report)

Redirects(i) == replies[i].by = "redirect"

\* While what was reported still holds and the answer is not lost, that answer is
\* waiting, with nothing but addresses for downloads behind it, or it is shown.
ShownInv == page \in Reporting =>
  /\ \A i \in 1 .. Len(replies) : Redirects(i) => page = "status"
  /\ fresh => \/ \E k \in 1 .. Len(replies) :
                   /\ ~Redirects(k) /\ Current(logger, replies[k].data)
                   /\ \A j \in 1 .. Len(replies) : j > k => Redirects(j)
              \/ /\ \A j \in 1 .. Len(replies) : Redirects(j)
                 /\ Tells(shown, logger)

\* What is shown and reported does not depend on whether the logger hangs.
LEMMA HungHidden ==
  ASSUME DOMAIN logger = LoggerFields, logger' = [logger EXCEPT !.hung = FALSE] \/ logger' = logger
  PROVE  /\ \A data : Current(logger, data) => Current(logger', data)
         /\ \A s : Tells(s, logger) => Tells(s, logger')
<1>1. /\ logger'.filter = logger.filter /\ logger'.algorithms = logger.algorithms
      /\ logger'.metadata = logger.metadata /\ logger'.token = logger.token /\ logger'.cert = logger.cert
      /\ logger'.report = logger.report
  BY DEF LoggerFields
<1>2. ASSUME NEW data, Current(logger, data) PROVE Current(logger', data)
  BY <1>1, <1>2 DEF Current
<1>3. ASSUME NEW s, Tells(s, logger) PROVE Tells(s, logger')
  BY <1>1, <1>3 DEF Tells, StatusShown
<1> QED BY <1>2, <1>3

\* A command that reports is answered with what the logger keeps then.
LEMMA Answered ==
  ASSUME SendInv, PageInv, Serves, page \in Reporting
  PROVE  \/ Restart
         \/ Hangs
         \/ \E data : /\ Answer(logger', data)
                      /\ IF Head(requests).by = "redirect" THEN page = "status" /\ logger' = logger
                         ELSE Current(logger', data)
<1> DEFINE r == Head(requests)
           Fine(data) == IF r.by = "redirect" THEN page = "status" /\ logger' = logger
                         ELSE Current(logger', data)
           Result == Restart \/ Hangs \/ \E data : Answer(logger', data) /\ Fine(data)
<1> SUFFICES Result
  OBVIOUS
<1>1. requests # <<>>
  BY DEF Serves, AddNMEAFilter, ConfigureAlgRequest, StoreMetadataElement, SetAuthorisation,
         ReportConfigurationJSON, SetupLogger, SetLabDefaults, SnapshotResource, CurrentStatus,
         ExecutesRestart, Executes
<1>2. /\ IF r.by = "redirect" THEN r.name = "snapshot" /\ page = "status" ELSE r.name = Report[page]
      /\ r.name = "auth" => r.args = <<>> \/ r.args[1] \in {"token", "cert"}
  BY <1>1, SeqFacts DEF SendInv, Fits
<1>3. DOMAIN logger = LoggerFields
  BY DEF SendInv, LoggerOK
<1>4. ASSUME NEW l, NEW data, Answer(l, data), r.by # "redirect", l = logger' => Current(logger', data)
      PROVE  Result
  <2>1. logger' = l
    BY <1>4 DEF Answer
  <2> QED BY <1>4, <2>1
<1> HIDE DEF Result
<1>5. CASE AddNMEAFilter
  <2> DEFINE ids == IF r.args = <<"all">> THEN <<>> ELSE AddIDs(logger.filter, r.args)
  <2>1. r.name = "accept" /\ Answer([logger EXCEPT !.filter = ids], ids)
    BY <1>5 DEF AddNMEAFilter, Executes
  <2>2. r.by # "redirect" /\ page = "filtering"
    BY <1>2, <2>1, Reports1
  <2> HIDE DEF ids
  <2>3. [logger EXCEPT !.filter = ids].filter = ids
    BY <1>3 DEF LoggerFields
  <2>4. [logger EXCEPT !.filter = ids] = logger' => Current(logger', ids)
    BY <2>2, <2>3 DEF Current
  <2> QED BY <1>4, <2>1, <2>2, <2>4
<1>6. CASE ConfigureAlgRequest
  <2>1. PICK list : r.name = "algorithm" /\ Answer([logger EXCEPT !.algorithms = list], list)
    BY <1>6 DEF ConfigureAlgRequest, Executes
  <2>2. r.by # "redirect" /\ page = "algorithms"
    BY <1>2, <2>1, Reports1
  <2>3. [logger EXCEPT !.algorithms = list].algorithms = list
    BY <1>3 DEF LoggerFields
  <2>4. [logger EXCEPT !.algorithms = list] = logger' => Current(logger', list)
    BY <2>2, <2>3 DEF Current
  <2> QED BY <1>4, <2>1, <2>2, <2>4
<1>7. CASE StoreMetadataElement
  <2> DEFINE text == IF r.args = <<>> THEN logger.metadata ELSE Head(r.args)
  <2>1. /\ r.name = "metadata"
        /\ \/ Answer([logger EXCEPT !.metadata = text], text)
           \/ fresh' = FALSE /\ UNCHANGED <<pageVars, requests, replies>>
    BY <1>7 DEF StoreMetadataElement, Executes
  <2>2. r.by # "redirect" /\ page = "metadata"
    BY <1>2, <2>1, Reports1
  <2> HIDE DEF text
  <2>3. [logger EXCEPT !.metadata = text].metadata = text
    BY <1>3 DEF LoggerFields
  <2>4. [logger EXCEPT !.metadata = text] = logger' => Current(logger', text)
    BY <2>2, <2>3 DEF Current
  <2>5. CASE Answer([logger EXCEPT !.metadata = text], text)
    BY <1>4, <2>2, <2>4, <2>5
  <2>6. CASE fresh' = FALSE /\ UNCHANGED <<pageVars, requests, replies>>
    BY <2>2, <2>6 DEF Hangs, Result
  <2> QED BY <2>1, <2>5, <2>6
<1>8. CASE SetAuthorisation
  <2> DEFINE l1 == IF r.args = <<>> THEN logger ELSE [logger EXCEPT ![r.args[1]] = r.args[2]]
             told(l) == IF l.token = "" /\ l.cert = "" THEN <<"No upload authorisation">>
                        ELSE <<l.token, l.cert>>
  <2>6. r.name = "auth" /\ Answer(l1, told(l1))
    BY <1>8 DEF SetAuthorisation, Executes
  <2> HIDE DEF l1
  <2>1. PICK l : r.name = "auth" /\ Answer(l, told(l))
    BY <2>6
  <2>2. r.by # "redirect" /\ page = "auth"
    BY <1>2, <2>1, Reports1
  <2>3. PICK data : data = IF l.token = "" /\ l.cert = "" THEN <<"No upload authorisation">>
                           ELSE <<l.token, l.cert>>
    OBVIOUS
  <2>4. Answer(l, data)
    BY <2>1, <2>3
  <2>5. l = logger' => Current(logger', data)
    BY <2>2, <2>3 DEF Current
  <2> QED BY <1>4, <2>2, <2>4, <2>5
<1>9. CASE ReportConfigurationJSON \/ SetupLogger \/ SetLabDefaults
  <2>1. r.name \in {"setup", "lab defaults"}
    BY <1>9 DEF ReportConfigurationJSON, SetupLogger, SetLabDefaults, Executes
  <2> QED BY <1>2, <2>1, Reports1
<1>10. CASE SnapshotResource
  <2>1. PICK data : r.name = "snapshot" /\ Answer(logger, data)
    BY <1>10 DEF SnapshotResource, Executes
  <2>2. r.by = "redirect" /\ page = "status" /\ logger' = logger
    BY <1>2, <2>1, Reports1 DEF Answer
  <2> QED BY <2>1, <2>2 DEF Result
<1>11. CASE CurrentStatus
  <2>1. r.name = "status" /\ Answer(logger, logger.report)
    BY <1>11 DEF CurrentStatus, Executes
  <2>2. r.by # "redirect" /\ page \in {"index", "status"}
    BY <1>2, <2>1, Reports1
  <2>3. logger = logger' => Current(logger', logger.report)
    BY <2>2 DEF Current
  <2> QED BY <1>4, <2>1, <2>2, <2>3
<1>12. CASE ExecutesRestart
  BY <1>12 DEF ExecutesRestart, Result
<1> QED BY <1>5, <1>6, <1>7, <1>8, <1>9, <1>10, <1>11, <1>12 DEF Serves
\* A page that handles what the logger reported shows it.
LEMMA Handled ==
  ASSUME SendInv, ShownInv, page \in Reporting, PageHandles
  PROVE  /\ replies # <<>> /\ replies' = Tail(replies) /\ UNCHANGED <<page, logger, fresh>>
         /\ IF Redirects(1) THEN shown' = shown
            ELSE Current(logger, replies[1].data) => Tells(shown', logger)
<1> DEFINE data == replies[1].data
           Goal == IF Redirects(1) THEN shown' = shown ELSE Current(logger, data) => Tells(shown', logger)
<1>1. replies # <<>> /\ replies' = Tail(replies) /\ UNCHANGED <<page, logger, fresh>>
  BY DEF PageHandles, populateFilterTable, populateAlgTable, showMetadata, populateDisplay,
         updateStatus, showOutput, bootstrapConfig, AnswerIgnored, Handles
<1>2. Head(replies) = replies[1] /\ Len(replies) > 0 /\ Len(replies) \in Nat
  BY <1>1, SeqFacts DEF SendInv
<1>3. Redirects(1) => page = "status"
  BY <1>2 DEF ShownInv
<1>4. /\ IsSeq(logger.algorithms) /\ logger.report \in Reports
      /\ \A i \in 1 .. Len(logger.algorithms) : DOMAIN logger.algorithms[i] = {"name", "parameters"}
  BY DEF SendInv, LoggerOK
<1>5. CASE populateFilterTable
  <2>1. page = "filtering" /\ shown' = (IF data = <<>> THEN <<"All">> ELSE data)
    BY <1>2, <1>5 DEF populateFilterTable
  <2> HIDE DEF data
  <2>2. Goal
    BY <1>3, <2>1 DEF Current, Tells
  <2> QED BY <1>1, <2>2 DEF data
<1>6. CASE showMetadata
  <2>1. page = "metadata" /\ shown' = data
    BY <1>2, <1>6 DEF showMetadata
  <2> HIDE DEF data
  <2>2. Goal
    BY <1>3, <2>1 DEF Current, Tells
  <2> QED BY <1>1, <2>2 DEF data
<1>7. CASE populateAlgTable
  <2>1. page = "algorithms"
        /\ shown' = <<AlgHeader>> \o (IF data = <<>> THEN <<NoAlgorithms>>
                                      ELSE [i \in DOMAIN data |-> AlgTableRow(data[i])])
    BY <1>2, <1>7 DEF populateAlgTable
  <2>2. ASSUME data = logger.algorithms PROVE ListShown(shown', data)
    <3>1. PICK list : list = data
      OBVIOUS
    <3>2. /\ IsSeq(list) /\ DOMAIN list = 1 .. Len(list) /\ Len(list) \in Nat
          /\ \A i \in 1 .. Len(list) : DOMAIN list[i] = {"name", "parameters"}
      BY <1>4, <2>2, <3>1, SeqFacts
    <3>3. PICK rows : rows = IF list = <<>> THEN <<NoAlgorithms>>
                             ELSE [i \in DOMAIN list |-> AlgTableRow(list[i])]
      OBVIOUS
    <3>4. shown' = <<AlgHeader>> \o rows
      <4> HIDE DEF data
      <4> QED BY <2>1, <3>1, <3>3
    <3>5. CASE list = <<>>
      <4>1. shown' = <<AlgHeader, NoAlgorithms>>
        <5>1. PICK h, n : h = AlgHeader /\ n = NoAlgorithms
          OBVIOUS
        <5>2. <<h>> \o <<n>> = <<h, n>>
          <6>1. <<h>> \in Seq({h, n}) /\ <<n>> \in Seq({h, n}) /\ <<h, n>> \in Seq({h, n})
            OBVIOUS
          <6>2. PICK q : q = <<h>> \o <<n>>
            OBVIOUS
          <6>3. q \in Seq({h, n}) /\ Len(q) = 2 /\ q[1] = h /\ q[2] = n
            BY <6>1, <6>2
          <6>4. q = [i \in 1 .. 2 |-> IF i = 1 THEN h ELSE n]
            BY <6>3
          <6>5. <<h, n>> = [i \in 1 .. 2 |-> IF i = 1 THEN h ELSE n]
            OBVIOUS
          <6> QED BY <6>2, <6>4, <6>5
        <5> QED BY <3>3, <3>4, <3>5, <5>1, <5>2
      <4> QED BY <3>1, <3>5, <4>1 DEF ListShown
    <3>6. CASE list # <<>>
      <4>1. PICK T : T = {rows[i] : i \in DOMAIN list} \cup {AlgHeader}
        OBVIOUS
      <4>2. rows = [i \in 1 .. Len(list) |-> AlgTableRow(list[i])]
        BY <3>2, <3>3, <3>6
      <4>3. rows \in Seq(T) /\ Len(rows) = Len(list)
        BY <3>2, <4>1, <4>2
      <4>4. <<AlgHeader>> \in Seq(T) /\ Len(<<AlgHeader>>) = 1
        BY <4>1
      <4>5. Len(<<AlgHeader>> \o rows) = Len(list) + 1
        BY <3>2, <4>3, <4>4
      <4>6. \A i \in 1 .. Len(list) : (<<AlgHeader>> \o rows)[i + 1] = rows[i]
        BY <3>2, <4>3, <4>4
      <4>7. \A i \in 1 .. Len(list) : rows[i] = AlgTableRow(list[i])
        BY <4>2
      <4>8. ASSUME NEW a, DOMAIN a = {"name", "parameters"}
            PROVE  /\ AlgTableRow(a).name = a.name
                   /\ AlgTableRow(a).parameters = a.parameters \/ a.parameters = <<>>
        BY <4>8 DEF AlgTableRow
      <4>9. Len(shown') = Len(list) + 1 /\ \A i \in 1 .. Len(list) : shown'[i + 1] = AlgTableRow(list[i])
        BY <3>4, <4>5, <4>6, <4>7
      <4>10. \A i \in DOMAIN list : /\ shown'[i + 1].name = list[i].name
                                    /\ \/ shown'[i + 1].parameters = list[i].parameters
                                       \/ list[i].parameters = <<>>
        BY <3>2, <4>8, <4>9
      <4>11. ListShown(shown', list)
        BY <3>6, <4>9, <4>10 DEF ListShown
      <4> QED BY <3>1, <4>11
    <3> QED BY <3>5, <3>6
  <2> HIDE DEF data
  <2>3. Goal
    BY <1>3, <2>1, <2>2 DEF Current, Tells
  <2> QED BY <1>1, <2>3 DEF data
<1>8. CASE populateDisplay
  <2> DEFINE line(n) == IF n \notin DOMAIN data THEN "undefined"
                        ELSE IF data[n] = "" THEN "Not set" ELSE data[n]
  <2>1. page = "auth" /\ shown' = [token |-> line(1), cert |-> line(2)]
    BY <1>2, <1>8 DEF populateDisplay
  <2>2. shown'.token = line(1) /\ shown'.cert = line(2)
    BY <2>1
  <2>3. ASSUME Current(logger, data)
        PROVE  AuthShown(shown'.token, logger.token) /\ AuthShown(shown'.cert, logger.cert)
    <3>1. data = IF logger.token = "" /\ logger.cert = "" THEN <<"No upload authorisation">>
                 ELSE <<logger.token, logger.cert>>
      BY <2>1, <2>3 DEF Current
    <3> HIDE DEF data
    <3>2. CASE logger.token = "" /\ logger.cert = ""
      <4>1. line(1) = "No upload authorisation" /\ line(2) = "undefined"
        <5>1. data = <<"No upload authorisation">>
          BY <3>1, <3>2
        <5>3. IsSeq(data) /\ Len(data) = 1 /\ data[1] = "No upload authorisation"
          BY <5>1, SeqSingle
        <5>4. DOMAIN data = 1 .. 1
          BY <5>3, SeqFacts
        <5>5. 1 \in 1 .. 1 /\ 2 \notin 1 .. 1
          OBVIOUS
        <5>2. 1 \in DOMAIN data /\ 2 \notin DOMAIN data
          BY <5>4, <5>5, Zenon
        <5> QED BY <5>2, <5>3
      <4>2. "No upload authorisation" \notin Tokens \cup Certs /\ "undefined" \notin Tokens \cup Certs
        BY CredentialsAssumption
      <4> QED BY <2>2, <3>2, <4>1, <4>2 DEF AuthShown
    <3>3. CASE ~(logger.token = "" /\ logger.cert = "")
      <4>1. /\ line(1) = IF logger.token = "" THEN "Not set" ELSE logger.token
            /\ line(2) = IF logger.cert = "" THEN "Not set" ELSE logger.cert
        <5>1. data = <<logger.token, logger.cert>>
          BY <3>1, <3>3
        <5>2. 1 \in DOMAIN data /\ 2 \in DOMAIN data
              /\ data[1] = logger.token /\ data[2] = logger.cert
          BY <5>1
        <5> QED BY <5>2
      <4>2. "Not set" \notin Tokens \cup Certs
        BY CredentialsAssumption
      <4> QED BY <2>2, <4>1, <4>2 DEF AuthShown
    <3> QED BY <3>2, <3>3
  <2> HIDE DEF data
  <2>4. Goal
    BY <1>3, <2>1, <2>3 DEF Current, Tells
  <2> QED BY <1>1, <2>4 DEF data
<1>9. CASE updateStatus
  <2>1. page \in {"index", "status"} /\ ~Redirects(1)
    BY <1>2, <1>9 DEF updateStatus, Redirects
  <2>2. PICK elapsed \in translateTime(data.elapsed) :
          shown' = [elapsed |-> elapsed,
                    count |-> Len(data.files),
                    total |-> translateSize(totalFileSize(data.files)),
                    rows |-> IF page = "index" THEN <<>> ELSE detailRows(data.files)]
    BY <1>2, <1>9 DEF updateStatus
  <2>3. /\ shown'.elapsed = elapsed /\ shown'.total = translateSize(totalFileSize(data.files))
        /\ page = "status" => shown'.rows = detailRows(data.files)
    BY <2>2
  <2>4. ASSUME data = logger.report PROVE StatusShown(shown', data)
    <3>1. data.elapsed \in Int /\ data.files \in Seq([len : Nat, md5 : BOOLEAN])
      BY <1>4, <2>4, ReportsAssumption
    <3>2. data.elapsed >= 0 => ReadBack(shown'.elapsed) \in {data.elapsed, data.elapsed - 1}
      <4>1. ASSUME data.elapsed >= 0 PROVE ReadBack(elapsed) \in {data.elapsed, data.elapsed - 1}
        <5>1. PICK e : e = data.elapsed
          OBVIOUS
        <5>2. e \in Nat /\ elapsed \in translateTime(e)
          BY <2>2, <3>1, <4>1, <5>1
        <5>3. ReadBack(elapsed) \in {e, e - 1}
          BY <5>2, ElapsedReadsBack
        <5> QED BY <5>1, <5>3
      <4> QED BY <2>3, <4>1
    <3>3. PICK files : files = data.files
      OBVIOUS
    <3>4. PICK bytes : bytes = BytesIn(files)
      OBVIOUS
    <3>5. bytes \in Nat /\ totalFileSize(files) = bytes
      BY <3>1, <3>3, <3>4, SizesAdded
    <3>6. PICK s : s = translateSize(bytes)
      OBVIOUS
    <3>7. 2 * (s.hundredths * s.unit - 100 * bytes) \in -s.unit..s.unit
      BY <3>5, <3>6, SizeReadsBack
    <3>8. shown'.total = s
      BY <2>3, <3>3, <3>5, <3>6
    <3>9. 2 * (shown'.total.hundredths * shown'.total.unit - 100 * bytes)
            \in -shown'.total.unit..shown'.total.unit
      BY <3>7, <3>8
    <3>10. page = "status" => {shown'.rows[i] : i \in DOMAIN shown'.rows}
                                = {f \in {files[i] : i \in DOMAIN files} : f.md5}
      <4>1. PICK rows : rows = detailRows(files)
        OBVIOUS
      <4>2. {rows[i] : i \in DOMAIN rows} = {f \in {files[i] : i \in DOMAIN files} : f.md5}
        BY <3>1, <3>3, <4>1, RowsSelected
      <4>3. page = "status" => shown'.rows = rows
        BY <2>3, <3>3, <4>1
      <4> QED BY <4>2, <4>3
    <3> HIDE DEF data
    <3> QED BY <3>2, <3>3, <3>4, <3>9, <3>10 DEF StatusShown
  <2> HIDE DEF data
  <2>5. Goal
    BY <2>1, <2>4 DEF Current, Tells
  <2> QED BY <1>1, <2>5 DEF data
<1>10. CASE AnswerIgnored
  <2>1. Redirects(1) /\ shown' = shown
    BY <1>2, <1>10, Reports1 DEF AnswerIgnored, Redirects
  <2> QED BY <1>1, <2>1
<1>11. CASE showOutput \/ bootstrapConfig
  BY <1>11, Reports1 DEF showOutput, bootstrapConfig
<1> QED BY <1>5, <1>6, <1>7, <1>8, <1>9, <1>10, <1>11 DEF PageHandles
LEMMA ShownInit == Init => ShownInv
<1> SUFFICES ASSUME Init PROVE ShownInv
  OBVIOUS
<1>1. replies = <<>> /\ fresh = FALSE
  BY DEF Init
<1>2. Len(replies) = 0
  BY <1>1, SeqFacts, SeqEmpty
<1> QED BY <1>1, <1>2 DEF ShownInv

\* The page stays open: what it then shows and waits for is judged as before.
LEMMA ShownThen ==
  ASSUME page' = page,
         page \in Reporting =>
           /\ \A i \in 1 .. Len(replies') : Redirects(i)' => page = "status"
           /\ fresh' => \/ \E k \in 1 .. Len(replies') :
                            /\ ~Redirects(k)' /\ Current(logger', replies'[k].data)
                            /\ \A j \in 1 .. Len(replies') : j > k => Redirects(j)'
                        \/ /\ \A j \in 1 .. Len(replies') : Redirects(j)'
                           /\ Tells(shown', logger')
  PROVE  ShownInv'
<1>1. StatusShown(shown', logger'.report) => StatusShown(shown, logger.report)'
  BY DEF StatusShown
<1>2. Tells(shown', logger') => Tells(shown, logger)'
  BY <1>1 DEF Tells
<1>3. ASSUME NEW k \in 1 .. Len(replies'), Current(logger', replies'[k].data)
      PROVE  Current(logger, replies[k].data)'
  BY <1>3 DEF Current
<1> QED BY <1>2, <1>3 DEF ShownInv, Reporting

\* Nothing that the page shows or waits for has changed.
LEMMA ShownKept ==
  ASSUME ShownInv, SendInv, UNCHANGED <<page, replies, shown>>,
         logger' = [logger EXCEPT !.hung = FALSE] \/ logger' = logger,
         fresh' => fresh
  PROVE  ShownInv'
<1>1. DOMAIN logger = LoggerFields
  BY DEF SendInv, LoggerOK
<1>2. /\ \A data : Current(logger, data) => Current(logger', data)
      /\ \A s : Tells(s, logger) => Tells(s, logger')
  BY <1>1, HungHidden
<1>3. \A i : Redirects(i)' <=> Redirects(i)
  BY DEF Redirects
<1>4. ASSUME page \in Reporting
      PROVE  /\ \A i \in 1 .. Len(replies) : Redirects(i) => page = "status"
             /\ fresh => \/ \E k \in 1 .. Len(replies) :
                              /\ ~Redirects(k) /\ Current(logger', replies[k].data)
                              /\ \A j \in 1 .. Len(replies) : j > k => Redirects(j)
                         \/ /\ \A j \in 1 .. Len(replies) : Redirects(j)
                            /\ Tells(shown, logger')
  BY <1>2, <1>4 DEF ShownInv
<1> QED BY <1>3, <1>4, ShownThen

LEMMA ShownStep ==
  ASSUME SendInv, PageInv, ShownInv, [Next]_vars
  PROVE  ShownInv'
<1>1. page' = page
  BY SendStep
<1>2. IsSeq(replies) /\ Len(replies) \in Nat /\ DOMAIN replies = 1 .. Len(replies)
  BY SeqFacts DEF SendInv
<1>3. CASE UserActs \/ onUpload \/ onCertUpload
  <2>1. \/ UNCHANGED <<page, replies, logger, fresh, shown>>
        \/ replies' = <<>> /\ fresh' = FALSE
    BY <1>3, UserActsAre, ReadersSend DEF Sends, Delays, Idles, Reopen
  <2>2. CASE replies' = <<>> /\ fresh' = FALSE
    <3>1. Len(replies') = 0
      BY <2>2, SeqEmpty
    <3> QED BY <1>1, <2>2, <3>1, ShownThen
  <2>3. CASE UNCHANGED <<page, replies, logger, fresh, shown>>
    <3>1. UNCHANGED <<page, replies, shown>> /\ logger' = logger /\ (fresh' => fresh)
      BY <2>3
    <3> QED BY <3>1, ShownKept
  <2> QED BY <2>1, <2>2, <2>3
<1>4. CASE TimerFires \/ (\E i \in DOMAIN requests : RequestLost(i)) \/ UNCHANGED vars
  <2>1. UNCHANGED <<page, replies, logger, fresh, shown>>
    BY <1>4 DEF TimerFires, RequestLost, pageVars, vars
  <2> QED BY <2>1, ShownKept
<1>5. CASE PowerLoss
  BY <1>5, ShownKept DEF PowerLoss, Restart, pageVars
<1> SUFFICES ASSUME page \in Reporting PROVE ShownInv'
  BY <1>1, ShownThen
<1>6. /\ \A i \in 1 .. Len(replies) : Redirects(i) => page = "status"
      /\ fresh => \/ \E k \in 1 .. Len(replies) :
                       /\ ~Redirects(k) /\ Current(logger, replies[k].data)
                       /\ \A j \in 1 .. Len(replies) : j > k => Redirects(j)
                  \/ /\ \A j \in 1 .. Len(replies) : Redirects(j)
                     /\ Tells(shown, logger)
  BY DEF ShownInv
<1>7. CASE Records
  <2>1. replies' = replies /\ fresh' = FALSE
    BY <1>7 DEF Records
  <2>2. \A i : Redirects(i)' <=> Redirects(i)
    BY <2>1 DEF Redirects
  <2> QED BY <1>1, <1>6, <2>1, <2>2, ShownThen
<1>8. CASE PageHandles
  <2>1. /\ replies # <<>> /\ replies' = Tail(replies) /\ UNCHANGED <<page, logger, fresh>>
        /\ IF Redirects(1) THEN shown' = shown
           ELSE Current(logger, replies[1].data) => Tells(shown', logger)
    BY <1>8, Handled
  <2>2. Len(replies') = Len(replies) - 1
    BY <1>2, <2>1, SeqTaken
  <2>3. \A i \in 1 .. Len(replies') : replies'[i] = replies[i + 1] /\ i + 1 \in 1 .. Len(replies)
    BY <1>2, <2>1, SeqTaken
  <2>4. \A i \in 1 .. Len(replies') : Redirects(i)' <=> Redirects(i + 1)
    BY <2>3 DEF Redirects
  <2>5. Len(replies') \in Nat /\ Len(replies) > 0
    BY <1>2, <2>1, <2>2, SeqFacts
  <2>6. \A i \in 1 .. Len(replies') : Redirects(i)' => page = "status"
    BY <1>6, <2>3, <2>4
  <2>7. ASSUME NEW k \in 1 .. Len(replies), ~Redirects(k), Current(logger, replies[k].data),
               \A j \in 1 .. Len(replies) : j > k => Redirects(j)
        PROVE  \/ \E i \in 1 .. Len(replies') :
                     /\ ~Redirects(i)' /\ Current(logger', replies'[i].data)
                     /\ \A j \in 1 .. Len(replies') : j > i => Redirects(j)'
               \/ /\ \A j \in 1 .. Len(replies') : Redirects(j)'
                  /\ Tells(shown', logger')
    <3>1. CASE k = 1
      <4>1. \A j \in 1 .. Len(replies') : Redirects(j)'
        BY <2>3, <2>4, <2>7, <3>1
      <4>2. Tells(shown', logger')
        BY <2>1, <2>7, <3>1
      <4> QED BY <4>1, <4>2
    <3>2. CASE k # 1
      <4>1. k - 1 \in 1 .. Len(replies') /\ (k - 1) + 1 = k
        BY <1>2, <2>2, <3>2
      <4>2. replies'[k - 1] = replies[k] /\ ~Redirects(k - 1)'
        BY <2>3, <2>4, <2>7, <4>1
      <4>3. \A j \in 1 .. Len(replies') : j > k - 1 => Redirects(j)'
        BY <2>3, <2>4, <2>7, <1>2
      <4>4. Current(logger', replies'[k - 1].data)
        BY <2>1, <2>7, <4>2
      <4> QED BY <4>1, <4>2, <4>3, <4>4
    <3> QED BY <3>1, <3>2
  <2>8. ASSUME \A j \in 1 .. Len(replies) : Redirects(j), Tells(shown, logger)
        PROVE  (\A j \in 1 .. Len(replies') : Redirects(j)') /\ Tells(shown', logger')
    <3>1. Redirects(1)
      BY <1>2, <2>5, <2>8
    <3> QED BY <2>1, <2>3, <2>4, <2>8, <3>1
  <2> QED BY <1>1, <1>6, <2>1, <2>6, <2>7, <2>8, ShownThen
<1>9. CASE Serves
  <2>1. CASE Restart
    BY <2>1, ShownKept DEF Restart, pageVars
  <2>2. ASSUME NEW data, Answer(logger', data),
               IF Head(requests).by = "redirect" THEN page = "status" /\ logger' = logger
               ELSE Current(logger', data)
        PROVE  ShownInv'
    <3> DEFINE r == Head(requests)
    <3>5. PICK n : n = Len(replies) + 1
      OBVIOUS
    <3>1. /\ replies' = IF r.gone THEN replies ELSE Append(replies, [by |-> r.by, data |-> data])
          /\ fresh' = IF r.by = "redirect" THEN fresh ELSE ~r.gone
          /\ shown' = shown
      BY <2>2 DEF Answer, pageVars
    <3>2. CASE r.gone /\ r.by = "redirect"
      BY <1>1, <2>2, <3>1, <3>2, ShownKept
    <3>3. CASE r.gone /\ r.by # "redirect"
      <4>1. replies' = replies /\ ~fresh'
        BY <3>1, <3>3
      <4>2. \A i : Redirects(i)' <=> Redirects(i)
        BY <4>1 DEF Redirects
      <4> QED BY <1>1, <1>6, <4>1, <4>2, ShownThen
    <3>4. CASE ~r.gone
      <4>1. PICK a : a = [by |-> r.by, data |-> data]
        OBVIOUS
      <4>2. replies' = Append(replies, a) /\ IsSeq(replies)
        BY <1>2, <3>1, <3>4, <4>1
      <4>3. Len(replies') = n
        BY <3>5, <4>2, SeqAppended
      <4>4. replies'[n] = a
        BY <3>5, <4>2, SeqAppended
      <4>5. \A i \in 1 .. Len(replies) : replies'[i] = replies[i]
        BY <4>2, SeqAppended
      <4>6. \A i \in 1 .. Len(replies) : Redirects(i)' <=> Redirects(i)
        BY <4>5 DEF Redirects
      <4>7. Redirects(n)' <=> r.by = "redirect"
        BY <4>1, <4>4 DEF Redirects
      <4>8. n \in 1 .. n /\ \A i \in 1 .. n : i = n \/ i \in 1 .. Len(replies)
        BY <1>2, <3>5
      <4>9. \A i \in 1 .. Len(replies) : i \in 1 .. n
        BY <1>2, <3>5
      <4>10. \A i \in 1 .. Len(replies') : Redirects(i)' => page = "status"
        BY <1>6, <2>2, <4>3, <4>6, <4>7, <4>8
      <4>11. CASE r.by = "redirect"
        <5>1. logger' = logger /\ fresh' = fresh /\ Redirects(n)'
          BY <2>2, <3>1, <4>7, <4>11
        <5>2. ASSUME NEW k \in 1 .. Len(replies), ~Redirects(k), Current(logger, replies[k].data),
                     \A j \in 1 .. Len(replies) : j > k => Redirects(j)
              PROVE  \E i \in 1 .. Len(replies') :
                        /\ ~Redirects(i)' /\ Current(logger', replies'[i].data)
                        /\ \A j \in 1 .. Len(replies') : j > i => Redirects(j)'
          <6>1. k \in 1 .. Len(replies') /\ ~Redirects(k)'
            BY <4>3, <4>6, <4>9, <5>2
          <6>2. Current(logger', replies'[k].data)
            BY <4>5, <5>1, <5>2
          <6>3. \A j \in 1 .. Len(replies') : j > k => Redirects(j)'
            BY <4>3, <4>6, <4>8, <5>1, <5>2
          <6> QED BY <6>1, <6>2, <6>3
        <5>3. ASSUME \A j \in 1 .. Len(replies) : Redirects(j), Tells(shown, logger)
              PROVE  (\A j \in 1 .. Len(replies') : Redirects(j)') /\ Tells(shown', logger')
          BY <3>1, <4>3, <4>6, <4>8, <5>1, <5>3
        <5> QED BY <1>1, <1>6, <4>10, <5>1, <5>2, <5>3, ShownThen
      <4>12. CASE r.by # "redirect"
        <5>1. n \in 1 .. Len(replies') /\ ~Redirects(n)'
          BY <4>3, <4>7, <4>8, <4>12
        <5>2. Current(logger', replies'[n].data)
          BY <2>2, <4>1, <4>4, <4>12
        <5>3. \A j \in 1 .. Len(replies') : j > n => Redirects(j)'
          BY <1>2, <3>5, <4>3
        <5> QED BY <1>1, <4>10, <5>1, <5>2, <5>3, ShownThen
      <4> QED BY <4>11, <4>12
    <3> QED BY <3>2, <3>3, <3>4
  <2>3. CASE Hangs
    <3>1. replies' = replies /\ ~fresh'
      BY <2>3 DEF Hangs
    <3>2. \A i : Redirects(i)' <=> Redirects(i)
      BY <3>1 DEF Redirects
    <3> QED BY <1>1, <1>6, <3>1, <3>2, ShownThen
  <2> QED BY <1>9, <2>1, <2>2, <2>3, Answered
<1>10. CASE \E i \in DOMAIN replies : ReplyLost(i)
  <2>1. PICK m \in DOMAIN replies : ReplyLost(m)
    BY <1>10
  <2>2. /\ replies' = RemoveAt(replies, m) /\ IsSeq(replies) /\ UNCHANGED <<shown, logger>>
        /\ fresh' = (fresh /\ (Redirects(m) \/ \E j \in (m + 1)..Len(replies) : ~Redirects(j)))
    BY <1>2, <2>1 DEF ReplyLost, pageVars, Redirects
  <2>3. Len(replies') = Len(replies) - 1
    BY <2>2, SeqRemoved
  <2>4. \A i \in 1 .. Len(replies') : replies'[i] = replies[Was(i, m)] /\ Was(i, m) \in 1 .. Len(replies)
    BY <2>2, SeqRemoved
  <2>5. \A j \in 1 .. Len(replies) : j # m => \E i \in 1 .. Len(replies') : Was(i, m) = j
    BY <2>2, SeqRemoved
  <2>6. \A i \in 1 .. Len(replies') : Redirects(i)' <=> Redirects(Was(i, m))
    BY <2>4 DEF Redirects
  <2>7. \A i \in 1 .. Len(replies') : Redirects(i)' => page = "status"
    BY <1>6, <2>4, <2>6
  <2>8. ASSUME NEW k \in 1 .. Len(replies), ~Redirects(k), Current(logger, replies[k].data),
               \A j \in 1 .. Len(replies) : j > k => Redirects(j), fresh'
        PROVE  \E i \in 1 .. Len(replies') :
                  /\ ~Redirects(i)' /\ Current(logger', replies'[i].data)
                  /\ \A j \in 1 .. Len(replies') : j > i => Redirects(j)'
    <3>1. k # m
      <4> SUFFICES ASSUME k = m PROVE FALSE
        OBVIOUS
      <4>1. PICK j \in (m + 1)..Len(replies) : ~Redirects(j)
        BY <2>2, <2>8
      <4>2. j \in 1 .. Len(replies) /\ j > k
        BY <1>2
      <4> QED BY <2>8, <4>1, <4>2
    <3>2. PICK i \in 1 .. Len(replies') : Was(i, m) = k
      BY <2>5, <3>1
    <3>3. ~Redirects(i)' /\ Current(logger', replies'[i].data)
      BY <2>2, <2>4, <2>6, <2>8, <3>2
    <3>4. ASSUME NEW j \in 1 .. Len(replies'), j > i PROVE Redirects(j)'
      <4>1. Was(j, m) > k /\ Was(j, m) \in 1 .. Len(replies)
        BY <1>2, <2>4, <3>2, <3>4 DEF Was
      <4> QED BY <2>6, <2>8, <4>1
    <3> QED BY <3>3, <3>4
  <2>9. ASSUME \A j \in 1 .. Len(replies) : Redirects(j), Tells(shown, logger)
        PROVE  (\A j \in 1 .. Len(replies') : Redirects(j)') /\ Tells(shown', logger')
    BY <2>2, <2>4, <2>6, <2>9
  <2>10. fresh' => fresh
    BY <2>2
  <2> QED BY <1>1, <1>6, <2>7, <2>8, <2>9, <2>10, ShownThen
<1> QED BY <1>3, <1>4, <1>5, <1>7, <1>8, <1>9, <1>10 DEF Next

\* ShownIsStored: once nothing is under way, a page whose last report still holds
\* and was not lost shows what the logger keeps, with every time and every size
\* that a report may hold.
THEOREM ShownCorrect == Spec => []ShownIsStored
<1>1. SendInv /\ PageInv /\ ShownInv /\ [Next]_vars => ShownInv'
  BY ShownStep
<1>2. Spec => []ShownInv
  BY SendInvHolds, ShownInit, <1>1, PTL DEF Spec
<1>3. ShownInv => ShownIsStored
  <2> SUFFICES ASSUME ShownInv, Quiet, fresh, page \in Reporting PROVE Tells(shown, logger)
    BY Reports1 DEF ShownIsStored, Tells
  <2>1. Len(replies) = 0
    BY SeqFacts, SeqEmpty DEF Quiet
  <2> QED BY <2>1 DEF ShownInv
<1> QED BY <1>2, <1>3, PTL

-----------------------------------------------------------------------------
(* The configuration form.                                                     *)

\* A command that gives the logger a new configuration: the values, what the form
\* was based on, and what was touched.
Sets(c) == c.name = "setup" /\ c.args # <<>>
Boots(c) == c.name = "setup" /\ c.args = <<>>

\* Settings that a new configuration based on the logger's own leaves alone.
Settings == Fields \ {"autoupload"}

\* The configuration config leaves those not in tch as they are in conf.
Leaves(config, tch, conf) ==
  \A f \in Settings : f \notin tch => f \in DOMAIN config.values /\ config.values[f] = conf[f]

\* Commands q of the form's page, while the logger has the configuration conf:
\* without the logger's own to start from, every number was given by the user;
\* what starts from it leaves the rest as it is and has behind it only what was
\* touched at least as much; and commands of a page that is gone come first.
QueueInv(q, conf) ==
  /\ \A i \in 1 .. Len(q) : q[i].by = "bootstrap" => Boots(q[i])
  /\ \A i \in 1 .. Len(q) : Sets(q[i]) =>
       /\ q[i].args[2] # "logger" => Fields \cap Numbers \subseteq q[i].args[3]
       /\ q[i].args[2] = "logger" => Leaves(q[i].args[1], q[i].args[3], conf)
  /\ \A i, j \in 1 .. Len(q) : i < j /\ Sets(q[i]) /\ Sets(q[j]) /\ q[j].args[2] = "logger" =>
       q[i].args[2] = "logger" /\ q[i].args[3] \subseteq q[j].args[3]
  /\ \A i, j \in 1 .. Len(q) : i < j /\ q[j].gone => q[i].gone

NoneGone(q) == \A i \in 1 .. Len(q) : ~q[i].gone

\* What the open page has sent was based on no more than the form is now.
LiveInv(q, bas, tch) == \A i \in 1 .. Len(q) : Sets(q[i]) /\ ~q[i].gone =>
  bas # "blank" /\ q[i].args[3] \subseteq tch /\ (bas = "logger" => q[i].args[2] = "logger")

\* An answer with the logger's configuration: it is out of date only where the
\* user has touched the form.
FillInv(a, conf, bas, tch) == a.by = "bootstrap" /\ bas # "sent" =>
  /\ a.data.sections = SectionNames /\ DOMAIN a.data.values = Fields
  /\ \A f \in Settings : bas = "blank" \/ f \notin tch => a.data.values[f] = conf[f]

FormInv(q, conf, frm, bas, tch) ==
  /\ bas = "blank" => \A f \in Fields : f \notin tch => frm[f] = Blank[f]
  /\ bas = "sent" => Fields \cap Numbers \subseteq tch
  /\ bas = "logger" => NoneGone(q) /\ \A f \in Settings : f \notin tch => frm[f] = conf[f]

Edited(tms, q, rps, conf, frm, bas, tch) ==
  /\ \A i \in 1 .. Len(tms) : Boots(tms[i])
  /\ QueueInv(q, conf)
  /\ LiveInv(q, bas, tch)
  /\ rps # <<>> => NoneGone(q)
  /\ \A i \in 1 .. Len(rps) : FillInv(rps[i], conf, bas, tch)
  /\ FormInv(q, conf, frm, bas, tch)

EditedInv == page = "configure" => Edited(timers, requests, replies, logger.config, form, basis, touched)

\* What the commands p keep of the commands q, in order; what the answers s keep
\* of the answers r.
PartOf(p, q) == \E w : /\ \A i \in 1 .. Len(p) : w[i] \in 1 .. Len(q) /\ p[i] = q[w[i]]
                       /\ \A i, j \in 1 .. Len(p) : i < j => w[i] < w[j]
AmongAll(s, r) == /\ s # <<>> => r # <<>>
                  /\ \A i \in 1 .. Len(s) : \E j \in 1 .. Len(r) : s[i] = r[j]

\* Part of the commands, in the same order.
LEMMA QueuePart ==
  ASSUME NEW q, NEW conf, QueueInv(q, conf), NEW p, PartOf(p, q)
  PROVE  /\ QueueInv(p, conf)
         /\ NoneGone(q) => NoneGone(p)
         /\ \A bas, tch : LiveInv(q, bas, tch) => LiveInv(p, bas, tch)
<1> PICK w : /\ \A i \in 1 .. Len(p) : w[i] \in 1 .. Len(q) /\ p[i] = q[w[i]]
             /\ \A i, j \in 1 .. Len(p) : i < j => w[i] < w[j]
  BY DEF PartOf
<1>1. \A i \in 1 .. Len(p) : p[i].by = "bootstrap" => Boots(p[i])
  BY DEF QueueInv
<1>2. \A i \in 1 .. Len(p) : Sets(p[i]) =>
       /\ p[i].args[2] # "logger" => Fields \cap Numbers \subseteq p[i].args[3]
       /\ p[i].args[2] = "logger" => Leaves(p[i].args[1], p[i].args[3], conf)
  <2> TAKE i \in 1 .. Len(p)
  <2>1. PICK j \in 1 .. Len(q) : p[i] = q[j]
    OBVIOUS
  <2> QED BY <2>1 DEF QueueInv
<1>3. \A i, j \in 1 .. Len(p) : i < j /\ Sets(p[i]) /\ Sets(p[j]) /\ p[j].args[2] = "logger" =>
       p[i].args[2] = "logger" /\ p[i].args[3] \subseteq p[j].args[3]
  <2> SUFFICES ASSUME NEW i \in 1 .. Len(p), NEW j \in 1 .. Len(p), i < j, Sets(p[i]), Sets(p[j]),
                      p[j].args[2] = "logger"
               PROVE  p[i].args[2] = "logger" /\ p[i].args[3] \subseteq p[j].args[3]
    OBVIOUS
  <2>1. PICK k, m : k = w[i] /\ m = w[j]
    OBVIOUS
  <2>2. k \in 1 .. Len(q) /\ m \in 1 .. Len(q) /\ k < m /\ p[i] = q[k] /\ p[j] = q[m]
    BY <2>1
  <2> QED BY <2>2 DEF QueueInv
<1>4. \A i, j \in 1 .. Len(p) : i < j /\ p[j].gone => p[i].gone
  BY DEF QueueInv
<1>5. NoneGone(q) => NoneGone(p)
  BY DEF NoneGone
<1>6. ASSUME NEW bas, NEW tch, LiveInv(q, bas, tch), NEW i \in 1 .. Len(p), Sets(p[i]), ~p[i].gone
      PROVE  bas # "blank" /\ p[i].args[3] \subseteq tch /\ (bas = "logger" => p[i].args[2] = "logger")
  <2>1. PICK j \in 1 .. Len(q) : p[i] = q[j]
    OBVIOUS
  <2> QED BY <1>6, <2>1 DEF LiveInv
<1>7. \A bas, tch : LiveInv(q, bas, tch) => LiveInv(p, bas, tch)
  BY <1>6 DEF LiveInv
<1> QED BY <1>1, <1>2, <1>3, <1>4, <1>5, <1>7 DEF QueueInv

\* A new configuration of a form that is based on bas, with tch touched.
SetsRightly(c, conf, bas, tch) ==
  /\ c.args[2] = bas
  /\ c.args[3] = tch
  /\ bas # "logger" => Fields \cap Numbers \subseteq tch
  /\ bas = "logger" => Leaves(c.args[1], tch, conf)

\* A command of the open page is put behind the others.
LEMMA QueueGrows ==
  ASSUME NEW q, IsSeq(q), NEW conf, QueueInv(q, conf), NEW c, ~c.gone, c.by = "bootstrap" => Boots(c),
         NEW bas, NEW tch, LiveInv(q, bas, tch), bas = "logger" => NoneGone(q),
         Sets(c) => SetsRightly(c, conf, bas, tch),
         NEW p, p = Append(q, c)
  PROVE  /\ QueueInv(p, conf)
         /\ NoneGone(q) => NoneGone(p)
         /\ LiveInv(p, IF Sets(c) /\ bas = "blank" THEN "sent" ELSE bas, tch)
<1>1. Len(q) \in Nat /\ Len(p) = Len(q) + 1 /\ p[Len(q) + 1] = c
  BY SeqFacts, SeqAppended
<1>2. \A i \in 1 .. Len(q) : p[i] = q[i]
  BY SeqAppended
<1>3. PICK n : n = Len(p)
  OBVIOUS
<1>4. n \in 1 .. n /\ p[n] = c /\ \A i \in 1 .. n : i = n \/ (i \in 1 .. Len(q) /\ i < n /\ p[i] = q[i])
  BY <1>1, <1>2, <1>3
<1>5. \A i \in 1 .. n : p[i].by = "bootstrap" => Boots(p[i])
  BY <1>4 DEF QueueInv
<1>6. \A i \in 1 .. n : Sets(p[i]) =>
       /\ p[i].args[2] # "logger" => Fields \cap Numbers \subseteq p[i].args[3]
       /\ p[i].args[2] = "logger" => Leaves(p[i].args[1], p[i].args[3], conf)
  BY <1>4 DEF QueueInv, SetsRightly
<1>7. ASSUME NEW i \in 1 .. n, NEW j \in 1 .. n, i < j, Sets(p[i]), Sets(p[j]), p[j].args[2] = "logger"
      PROVE  p[i].args[2] = "logger" /\ p[i].args[3] \subseteq p[j].args[3]
  <2>1. i \in 1 .. Len(q) /\ p[i] = q[i]
    BY <1>4, <1>7, <1>1, <1>3
  <2>2. CASE j = n
    <3>1. bas = "logger" /\ p[j].args[3] = tch
      BY <1>4, <1>7, <2>2 DEF SetsRightly
    <3>2. ~q[i].gone
      BY <2>1, <3>1 DEF NoneGone
    <3> QED BY <1>7, <2>1, <3>1, <3>2 DEF LiveInv
  <2>3. CASE j # n
    BY <1>4, <1>7, <2>1, <2>3 DEF QueueInv
  <2> QED BY <2>2, <2>3
<1>8. \A i, j \in 1 .. n : i < j /\ p[j].gone => p[i].gone
  <2> SUFFICES ASSUME NEW i \in 1 .. n, NEW j \in 1 .. n, i < j, p[j].gone PROVE p[i].gone
    OBVIOUS
  <2>1. i \in 1 .. Len(q) /\ p[i] = q[i] /\ j \in 1 .. Len(q) /\ p[j] = q[j]
    BY <1>4, <1>1, <1>3
  <2> QED BY <2>1 DEF QueueInv
<1>9. NoneGone(q) => NoneGone(p)
  BY <1>3, <1>4 DEF NoneGone
<1>10. LiveInv(p, IF Sets(c) /\ bas = "blank" THEN "sent" ELSE bas, tch)
  <2>1. PICK b : b = IF Sets(c) /\ bas = "blank" THEN "sent" ELSE bas
    OBVIOUS
  <2>2. ASSUME NEW i \in 1 .. n, Sets(p[i]), ~p[i].gone
        PROVE  b # "blank" /\ p[i].args[3] \subseteq tch /\ (b = "logger" => p[i].args[2] = "logger")
    <3>1. CASE i = n
      BY <1>4, <2>1, <2>2, <3>1 DEF SetsRightly
    <3>2. CASE i # n
      BY <1>4, <2>1, <2>2, <3>2 DEF LiveInv
    <3> QED BY <3>1, <3>2
  <2> QED BY <1>3, <2>1, <2>2 DEF LiveInv
<1>11. QueueInv(p, conf)
  <2>1. Len(p) = n
    BY <1>3
  <2>2. \A i, j \in 1 .. n : i < j /\ Sets(p[i]) /\ Sets(p[j]) /\ p[j].args[2] = "logger" =>
          p[i].args[2] = "logger" /\ p[i].args[3] \subseteq p[j].args[3]
    BY <1>7
  <2> QED BY <1>5, <1>6, <1>8, <2>1, <2>2, SMTT(20) DEF QueueInv
<1> QED BY <1>9, <1>10, <1>11

\* The first command is taken, and if it sets the configuration, that is set.
LEMMA QueueServed ==
  ASSUME NEW q, IsSeq(q), q # <<>>, NEW conf, QueueInv(q, conf), NEW p, p = Tail(q),
         NEW new, new = IF Sets(q[1]) THEN SetConfig(q[1].args[1], conf) ELSE conf
  PROVE  /\ QueueInv(p, new)
         /\ NoneGone(q) => NoneGone(p)
         /\ \A bas, tch : LiveInv(q, bas, tch) => LiveInv(p, bas, tch)
<1>1. Len(q) \in Nat /\ Len(q) > 0 /\ 1 \in 1 .. Len(q)
  BY SeqFacts
<1>2. \A i \in 1 .. Len(p) : p[i] = q[i + 1] /\ i + 1 \in 1 .. Len(q)
  BY SeqTaken
<1>8. Len(p) = Len(q) - 1
  BY SeqTaken
<1>3. PICK w : w = [i \in 1 .. Len(p) |-> i + 1]
  OBVIOUS
<1>4. \A i \in 1 .. Len(p) : w[i] \in 1 .. Len(q) /\ p[i] = q[w[i]]
  BY <1>2, <1>3
<1>5. \A i, j \in 1 .. Len(p) : i < j => w[i] < w[j]
  BY <1>1, <1>3, <1>8
<1>6. /\ QueueInv(p, conf)
      /\ NoneGone(q) => NoneGone(p)
      /\ \A bas, tch : LiveInv(q, bas, tch) => LiveInv(p, bas, tch)
  <2>1. PartOf(p, q)
    BY <1>4, <1>5 DEF PartOf
  <2> QED BY <2>1, QueuePart
<1>7. ASSUME Sets(q[1]), NEW i \in 1 .. Len(p), Sets(p[i]), p[i].args[2] = "logger"
      PROVE  Leaves(p[i].args[1], p[i].args[3], new)
  <2>1. PICK k : k = i + 1
    OBVIOUS
  <2>2. k \in 1 .. Len(q) /\ 1 < k /\ p[i] = q[k]
    BY <1>1, <1>2, <2>1
  <2>3. q[1].args[2] = "logger" /\ q[1].args[3] \subseteq q[k].args[3]
    BY <1>1, <1>7, <2>2 DEF QueueInv
  <2>4. Leaves(q[1].args[1], q[1].args[3], conf)
    BY <1>1, <1>7, <2>3 DEF QueueInv
  <2>5. Leaves(p[i].args[1], p[i].args[3], conf)
    BY <1>6, <1>7 DEF QueueInv
  <2>6. ASSUME NEW f \in Settings, f \notin p[i].args[3]
        PROVE  f \in DOMAIN p[i].args[1].values /\ p[i].args[1].values[f] = new[f]
    <3>1. f \notin q[1].args[3] /\ f \in Fields
      BY <2>2, <2>3, <2>6 DEF Settings
    <3>2. f \in DOMAIN q[1].args[1].values /\ q[1].args[1].values[f] = conf[f]
      BY <2>4, <3>1 DEF Leaves
    <3>3. new[f] = q[1].args[1].values[f]
      BY <1>7, <3>1, <3>2 DEF SetConfig
    <3> QED BY <2>5, <2>6, <3>2, <3>3 DEF Leaves
  <2> QED BY <2>6 DEF Leaves
<1>9. CASE Sets(q[1])
  <2>1. QueueInv(p, new)
    BY <1>6, <1>7, <1>9, SMTT(20) DEF QueueInv
  <2> QED BY <1>6, <2>1
<1>10. CASE ~Sets(q[1])
  BY <1>6, <1>10
<1> QED BY <1>9, <1>10

\* The page is left: all that it has sent is gone.
LEMMA QueueGone ==
  ASSUME NEW q, NEW conf, QueueInv(q, conf), NEW p, Len(p) = Len(q),
         \A i \in 1 .. Len(p) : p[i] = [q[i] EXCEPT !.gone = TRUE] /\ DOMAIN q[i] = {"by", "name", "args", "gone"}
  PROVE  QueueInv(p, conf) /\ \A bas, tch : LiveInv(p, bas, tch)
<1>1. \A i \in 1 .. Len(q) : p[i].by = q[i].by /\ p[i].name = q[i].name /\ p[i].args = q[i].args /\ p[i].gone = TRUE
  OBVIOUS
<1>2. \A i \in 1 .. Len(q) : (Sets(p[i]) <=> Sets(q[i])) /\ (Boots(p[i]) <=> Boots(q[i]))
  BY <1>1 DEF Sets, Boots
<1>3. \A i \in 1 .. Len(p) : p[i].by = "bootstrap" => Boots(p[i])
  BY <1>1, <1>2 DEF QueueInv
<1>4. \A i \in 1 .. Len(p) : Sets(p[i]) =>
       /\ p[i].args[2] # "logger" => Fields \cap Numbers \subseteq p[i].args[3]
       /\ p[i].args[2] = "logger" => Leaves(p[i].args[1], p[i].args[3], conf)
  BY <1>1, <1>2 DEF QueueInv
<1>5. \A i, j \in 1 .. Len(p) : i < j /\ Sets(p[i]) /\ Sets(p[j]) /\ p[j].args[2] = "logger" =>
       p[i].args[2] = "logger" /\ p[i].args[3] \subseteq p[j].args[3]
  BY <1>1, <1>2 DEF QueueInv
<1>6. \A i, j \in 1 .. Len(p) : i < j /\ p[j].gone => p[i].gone
  BY <1>1
<1>7. \A bas, tch : LiveInv(p, bas, tch)
  BY <1>1 DEF LiveInv
<1> QED BY <1>3, <1>4, <1>5, <1>6, <1>7 DEF QueueInv

LEMMA WholeConfig ==
  /\ \A config : config.sections = SectionNames => Reached(config) = Settings
  /\ \A f \in Fields \cap Numbers : Blank[f] = ""
<1>1. DOMAIN Sections = 1 .. 8
  BY DEF Sections
<1>2. ASSUME NEW config, config.sections = SectionNames PROVE Reached(config) = Settings
  <2>1. \A j \in DOMAIN Sections : Sections[j].name \in config.sections
    BY <1>2 DEF SectionNames
  <2>2. \A i \in DOMAIN Sections : \A j \in 1 .. i : j \in DOMAIN Sections
    BY <1>1
  <2>3. ASSUME NEW f \in Settings PROVE f \in Reached(config)
    <3>1. PICK i \in DOMAIN Sections : f \in Sections[i].fields
      BY FieldsAssumption DEF Settings, AllFields
    <3> QED BY <2>1, <2>2, <3>1 DEF Reached, Settings
  <2> QED BY <2>3 DEF Reached, Settings
<1>3. \A f \in Numbers : f \notin Boxes /\ f # "wifimode"
  <2>1. Boxes = {"nmea0183", "nmea2000", "imu", "epower", "memcontroller", "nmeabridge", "webserveronboot",
                 "autoupload"}
    BY DEF Boxes, Sections
  <2> QED BY <2>1 DEF Numbers
<1>4. \A f \in Fields \cap Numbers : Blank[f] = ""
  BY <1>3 DEF Blank
<1> QED BY <1>2, <1>4

\* The user gives fields values, and has touched them.
LEMMA FormTouched ==
  ASSUME NEW t, NEW q, NEW r, NEW conf, NEW frm, NEW bas, NEW tch, Edited(t, q, r, conf, frm, bas, tch),
         NEW frm2, NEW tch2, tch \subseteq tch2, \A f \in Fields : f \notin tch2 => frm2[f] = frm[f]
  PROVE  Edited(t, q, r, conf, frm2, bas, tch2)
<1>1. LiveInv(q, bas, tch2)
  BY DEF Edited, LiveInv
<1>2. \A i \in 1 .. Len(r) : FillInv(r[i], conf, bas, tch2)
  BY DEF Edited, FillInv
<1>3. FormInv(q, conf, frm2, bas, tch2)
  BY DEF Edited, FormInv, Settings
<1> QED BY <1>1, <1>2, <1>3 DEF Edited

\* The page sends a command.
LEMMA FormSends ==
  ASSUME NEW t, NEW q, IsSeq(q), NEW r, NEW conf, NEW frm, NEW bas \in {"blank", "logger", "sent"}, NEW tch,
         Edited(t, q, r, conf, frm, bas, tch), NEW c, ~c.gone, c.by = "bootstrap" => Boots(c),
         Sets(c) => /\ \E config \in createJSONConfig(frm) : c.args = <<config, bas, tch>>
                    /\ Misread(frm) \subseteq tch /\ Parses(frm),
         NEW p, p = Append(q, c), NEW bas2, bas2 = IF Sets(c) /\ bas = "blank" THEN "sent" ELSE bas
  PROVE  Edited(t, p, r, conf, frm, bas2, tch)
<1>1. /\ QueueInv(q, conf) /\ LiveInv(q, bas, tch) /\ FormInv(q, conf, frm, bas, tch)
      /\ r # <<>> => NoneGone(q)
      /\ \A i \in 1 .. Len(t) : Boots(t[i])
      /\ \A i \in 1 .. Len(r) : FillInv(r[i], conf, bas, tch)
  BY DEF Edited
<1>2. ASSUME Sets(c) PROVE SetsRightly(c, conf, bas, tch)
  <2>1. PICK config \in createJSONConfig(frm) : c.args = <<config, bas, tch>>
    BY <1>2
  <2>3. c.args[1] = config /\ c.args[2] = bas /\ c.args[3] = tch
    BY <2>1
  <2>4. ASSUME bas # "logger" PROVE Fields \cap Numbers \subseteq tch
    <3>1. CASE bas = "blank"
      <4> SUFFICES ASSUME NEW f \in Fields \cap Numbers, f \notin tch PROVE FALSE
        OBVIOUS
      <4>1. frm[f] = ""
        BY <1>1, <3>1, WholeConfig DEF FormInv
      <4> QED BY <1>2, <4>1 DEF Parses
    <3>2. CASE bas = "sent"
      BY <1>1, <3>2 DEF FormInv
    <3> QED BY <2>4, <3>1, <3>2
  <2>5. ASSUME bas = "logger", NEW f \in Settings, f \notin tch
        PROVE  f \in DOMAIN config.values /\ config.values[f] = conf[f]
    <3>1. f \in Fields /\ frm[f] = conf[f]
      BY <1>1, <2>5 DEF FormInv, Settings
    <3>2. f \notin Misread(frm)
      BY <1>2, <2>5
    <3>3. ReadAs(frm[f]) = frm[f] /\ ~\E g \in Fields : frm[g] \in Closing
      BY <3>1, <3>2 DEF Misread
    <3>4. config.values = [g \in Fields |-> ReadAs(frm[g])]
      BY <2>1, <3>3 DEF createJSONConfig
    <3> QED BY <3>1, <3>3, <3>4
  <2>6. bas = "logger" => Leaves(config, tch, conf)
    BY <2>5 DEF Leaves
  <2> QED BY <2>3, <2>4, <2>6 DEF SetsRightly
<1>3. bas = "logger" => NoneGone(q)
  BY <1>1 DEF FormInv
<1>4. /\ QueueInv(p, conf)
      /\ NoneGone(q) => NoneGone(p)
      /\ LiveInv(p, bas2, tch)
  <2>1. QueueInv(q, conf) /\ LiveInv(q, bas, tch)
    BY <1>1
  <2> QED BY <1>2, <1>3, <2>1, QueueGrows
<1>5. \A i \in 1 .. Len(r) : FillInv(r[i], conf, bas2, tch)
  BY <1>1 DEF FillInv
<1>6. FormInv(p, conf, frm, bas2, tch)
  <2>1. bas2 = "sent" => Fields \cap Numbers \subseteq tch
    BY <1>1, <1>2 DEF FormInv, SetsRightly
  <2>2. bas2 # "sent" => bas2 = bas
    OBVIOUS
  <2> QED BY <1>1, <1>4, <2>1, <2>2 DEF FormInv
<1> QED BY <1>1, <1>4, <1>5, <1>6 DEF Edited

\* The logger's configuration fills the form, except for texts that it cannot hold.
LEMMA FormFills ==
  ASSUME NEW t, NEW q, NEW r, NEW conf, NEW frm, NEW bas \in {"blank", "logger", "sent"}, NEW tch,
         Edited(t, q, r, conf, frm, bas, tch), r # <<>>, IsSeq(r), r[1].by = "bootstrap",
         NEW frm2, frm2 = parseConfigJSON(r[1].data, frm), NEW s, s = Tail(r),
         NEW bas2, bas2 = IF bas = "blank" THEN "logger" ELSE bas,
         NEW tch2, tch2 = tch \cup Misheld(r[1].data)
  PROVE  Edited(t, q, s, conf, frm2, bas2, tch2)
<1>1. /\ QueueInv(q, conf) /\ LiveInv(q, bas, tch) /\ FormInv(q, conf, frm, bas, tch)
      /\ NoneGone(q)
      /\ \A i \in 1 .. Len(t) : Boots(t[i])
      /\ \A i \in 1 .. Len(r) : FillInv(r[i], conf, bas, tch)
  BY DEF Edited
<1>5. tch \subseteq tch2
  OBVIOUS
<1>2. LiveInv(q, bas2, tch2)
  BY <1>1, <1>5 DEF LiveInv, NoneGone
<1>3. \A i \in 1 .. Len(s) : FillInv(s[i], conf, bas2, tch2)
  <2>1. \A i \in 1 .. Len(s) : s[i] = r[i + 1] /\ i + 1 \in 1 .. Len(r)
    BY SeqTaken
  <2>2. \A i \in 1 .. Len(s) : FillInv(s[i], conf, bas, tch)
    BY <1>1, <2>1
  <2> QED BY <1>5, <2>2 DEF FillInv
<1>4. FormInv(q, conf, frm2, bas2, tch2)
  <2>1. CASE bas = "sent"
    BY <1>1, <1>5, <2>1 DEF FormInv
  <2>2. CASE bas # "sent"
    <3>1. bas2 = "logger"
      BY <2>2
    <3>2. PICK config : config = r[1].data
      OBVIOUS
    <3>3. 1 \in 1 .. Len(r)
      BY SeqFacts
    <3>4. /\ config.sections = SectionNames /\ DOMAIN config.values = Fields
          /\ \A f \in Settings : bas = "blank" \/ f \notin tch => config.values[f] = conf[f]
      BY <1>1, <2>2, <3>2, <3>3 DEF FillInv
    <3>5. Reached(config) = Settings /\ Settings \subseteq Fields
      BY <3>4, WholeConfig DEF Settings
    <3>6. ASSUME NEW f \in Settings, f \notin tch2 PROVE frm2[f] = conf[f]
      <4>1. frm2[f] = Held(config.values[f])
        BY <3>2, <3>4, <3>5 DEF parseConfigJSON
      <4>2. f \notin Misheld(config) /\ f \notin tch
        BY <3>2, <3>6
      <4>3. Held(config.values[f]) = config.values[f]
        BY <3>4, <3>5, <4>2 DEF Misheld
      <4> QED BY <3>4, <4>1, <4>2, <4>3
    <3> QED BY <1>1, <3>1, <3>6 DEF FormInv
  <2> QED BY <2>1, <2>2
<1> QED BY <1>1, <1>2, <1>3, <1>4 DEF Edited

\* The logger executes the first command, and answers it if the page is there.
LEMMA FormServed ==
  ASSUME NEW t, NEW q, IsSeq(q), q # <<>>, NEW r, IsSeq(r), NEW conf, DOMAIN conf = Fields, NEW frm,
         NEW bas \in {"blank", "logger", "sent"}, NEW tch, Edited(t, q, r, conf, frm, bas, tch),
         NEW p, p = Tail(q), NEW new, new = IF Sets(q[1]) THEN SetConfig(q[1].args[1], conf) ELSE conf,
         NEW data, q[1].by = "bootstrap" => data = ExtractConfig(conf),
         NEW s, s = IF q[1].gone THEN r ELSE Append(r, [by |-> q[1].by, data |-> data])
  PROVE  Edited(t, p, s, new, frm, bas, tch)
<1>1. /\ QueueInv(q, conf) /\ LiveInv(q, bas, tch) /\ FormInv(q, conf, frm, bas, tch)
      /\ r # <<>> => NoneGone(q)
      /\ \A i \in 1 .. Len(t) : Boots(t[i])
      /\ \A i \in 1 .. Len(r) : FillInv(r[i], conf, bas, tch)
  BY DEF Edited
<1>2. /\ QueueInv(p, new)
      /\ NoneGone(q) => NoneGone(p)
      /\ \A b, h : LiveInv(q, b, h) => LiveInv(p, b, h)
  BY <1>1, QueueServed
<1>3. 1 \in 1 .. Len(q) /\ Len(q) \in Nat /\ Len(r) \in Nat
  BY SeqFacts
<1>4. NoneGone(q) \/ q[1].gone
  <2> SUFFICES ASSUME NEW i \in 1 .. Len(q), q[i].gone, ~q[1].gone PROVE FALSE
    BY DEF NoneGone
  <2>1. i # 1
    OBVIOUS
  <2>2. 1 < i
    BY <1>3, <2>1
  <2> QED BY <1>1, <1>3, <2>2 DEF QueueInv
<1>5. s # <<>> => NoneGone(p)
  BY <1>1, <1>2, <1>4
\* What the page has touched is all that changes.
<1>6. NoneGone(q) /\ bas # "sent" =>
        \A f \in Settings : bas = "blank" \/ f \notin tch => new[f] = conf[f]
  <2> SUFFICES ASSUME NoneGone(q), bas # "sent", NEW f \in Settings, bas = "blank" \/ f \notin tch, Sets(q[1])
               PROVE  new[f] = conf[f]
    OBVIOUS
  <2>1. ~q[1].gone
    BY <1>3 DEF NoneGone
  <2>2. bas = "logger" /\ q[1].args[3] \subseteq tch /\ q[1].args[2] = "logger"
    BY <1>1, <1>3, <2>1 DEF LiveInv
  <2>3. Leaves(q[1].args[1], q[1].args[3], conf)
    BY <1>1, <1>3, <2>2 DEF QueueInv
  <2>6. f \in DOMAIN q[1].args[1].values /\ q[1].args[1].values[f] = conf[f]
    BY <2>2, <2>3 DEF Leaves
  <2>4. f \in Fields /\ f \in DOMAIN q[1].args[1].values
    BY <2>6 DEF Settings
  <2>5. new[f] = q[1].args[1].values[f]
    BY <2>4 DEF SetConfig
  <2> QED BY <2>5, <2>6
<1>7. \A i \in 1 .. Len(r) : FillInv(r[i], new, bas, tch)
  <2> SUFFICES ASSUME NEW i \in 1 .. Len(r) PROVE FillInv(r[i], new, bas, tch)
    OBVIOUS
  <2>1. NoneGone(q)
    <3>1. r # <<>>
      BY SeqFacts
    <3> QED BY <1>1, <3>1
  <2> QED BY <1>1, <1>6, <2>1 DEF FillInv
<1>8. \A i \in 1 .. Len(s) : FillInv(s[i], new, bas, tch)
  <2>1. CASE q[1].gone
    BY <1>7, <2>1
  <2>2. CASE ~q[1].gone
    <3>1. PICK a : a = [by |-> q[1].by, data |-> data]
      OBVIOUS
    <3>2. s = Append(r, a)
      BY <2>2, <3>1
    <3>3. Len(s) = Len(r) + 1 /\ s[Len(r) + 1] = a
      BY <3>2, SeqAppended
    <3>4. \A i \in 1 .. Len(r) : s[i] = r[i]
      BY <3>2, SeqAppended
    <3>5. FillInv(a, new, bas, tch)
      <4> SUFFICES ASSUME q[1].by = "bootstrap"
                   PROVE  /\ data.sections = SectionNames /\ DOMAIN data.values = Fields
                          /\ \A f \in Settings : bas = "blank" \/ f \notin tch => data.values[f] = new[f]
        BY <3>1 DEF FillInv
      <4>1. ~Sets(q[1])
        BY <1>1, <1>3 DEF QueueInv, Sets, Boots
      <4>2. data.sections = SectionNames /\ data.values = conf
        BY DEF ExtractConfig
      <4> QED BY <4>1, <4>2
    <3> QED BY <1>3, <1>7, <3>3, <3>4, <3>5
  <2> QED BY <2>1, <2>2
<1>9. FormInv(p, new, frm, bas, tch)
  BY <1>1, <1>2, <1>6 DEF FormInv
<1> QED BY <1>1, <1>2, <1>5, <1>8, <1>9 DEF Edited

\* Commands and answers are lost.
LEMMA FormLoses ==
  ASSUME NEW t, NEW q, NEW r, NEW conf, NEW frm, NEW bas, NEW tch, Edited(t, q, r, conf, frm, bas, tch),
         NEW p, PartOf(p, q), NEW s, AmongAll(s, r)
  PROVE  Edited(t, p, s, conf, frm, bas, tch)
<1>1. /\ QueueInv(q, conf) /\ LiveInv(q, bas, tch) /\ FormInv(q, conf, frm, bas, tch)
      /\ r # <<>> => NoneGone(q)
      /\ \A i \in 1 .. Len(t) : Boots(t[i])
      /\ \A i \in 1 .. Len(r) : FillInv(r[i], conf, bas, tch)
  BY DEF Edited
<1>3. /\ QueueInv(p, conf)
      /\ NoneGone(q) => NoneGone(p)
      /\ \A b, h : LiveInv(q, b, h) => LiveInv(p, b, h)
  BY <1>1, QueuePart
<1>4. \A i \in 1 .. Len(s) : FillInv(s[i], conf, bas, tch)
  BY <1>1 DEF AmongAll
<1>5. FormInv(p, conf, frm, bas, tch)
  BY <1>1, <1>3 DEF FormInv
<1>6. s # <<>> => NoneGone(p)
  BY <1>1, <1>3 DEF AmongAll
<1> QED BY <1>1, <1>3, <1>4, <1>5, <1>6 DEF Edited

LEMMA EditedInit == Init => EditedInv
<1> SUFFICES ASSUME Init, page = "configure" PROVE Edited(timers, requests, replies, logger.config, form, basis, touched)
  BY DEF EditedInv
<1>1. timers = Bootstrap(page) /\ requests = <<>> /\ replies = <<>> /\ form = Blank /\ basis = "blank" /\ touched = {}
  BY DEF Init
<1>2. Len(requests) = 0 /\ Len(replies) = 0
  BY <1>1, SeqEmpty
<1>3. \A i \in 1 .. Len(timers) : Boots(timers[i])
  <2>1. \A i \in 1 .. Len(timers) : timers[i] = Command("bootstrap", Report[page], <<>>)
    BY <1>1, BootstrapFits
  <2> QED BY <2>1, Reports1 DEF Boots, Command
<1>4. QueueInv(requests, logger.config) /\ LiveInv(requests, basis, touched) /\ NoneGone(requests)
  BY <1>2 DEF QueueInv, LiveInv, NoneGone
<1>5. \A i \in 1 .. Len(replies) : FillInv(replies[i], logger.config, basis, touched)
  BY <1>2
<1>6. FormInv(requests, logger.config, form, basis, touched)
  BY <1>1 DEF FormInv
<1> QED BY <1>3, <1>4, <1>5, <1>6 DEF Edited

\* The form's page: what its user may do.
LEMMA OnForm ==
  ASSUME page = "configure", UserActs \/ onUpload \/ onCertUpload
  PROVE  \/ \E f \in Fields : \E value : Edit(f, value)
         \/ \E config : loadConfigLocally(config)
         \/ uploadCurrentConfig
         \/ \E c : /\ requests' = Append(requests, c) /\ ~c.gone /\ c.by # "bootstrap" /\ ~Sets(c)
                   /\ UNCHANGED <<timers, replies, logger, form, basis, touched>>
         \/ Reopen
<1> DEFINE Result == \/ \E f \in Fields : \E value : Edit(f, value)
                     \/ \E config : loadConfigLocally(config)
                     \/ uploadCurrentConfig
                     \/ \E c : /\ requests' = Append(requests, c) /\ ~c.gone /\ c.by # "bootstrap" /\ ~Sets(c)
                               /\ UNCHANGED <<timers, replies, logger, form, basis, touched>>
                     \/ Reopen
<1> SUFFICES Result
  OBVIOUS
<1>1. ASSUME NEW p, p # "configure", NEW by, NEW name, NEW args, Clicks(p, by, name, args) PROVE FALSE
  BY <1>1 DEF Clicks
<1>2. ASSUME NEW c, ~c.gone, c.by # "bootstrap", ~Sets(c), requests' = Append(requests, c),
             UNCHANGED <<timers, replies, logger, form, basis, touched>>
      PROVE  Result
  BY <1>2
<1>3. ASSUME NEW f \in Fields, NEW value, Edit(f, value) PROVE Result
  BY <1>3
<1>4. CASE (\E config : loadConfigLocally(config)) \/ uploadCurrentConfig \/ Reopen
  BY <1>4
<1> HIDE DEF Result
<1>5. CASE (\E words \in FilterTexts : addFilter(words)) \/ clearFilterList \/ clearAlgList \/ rebootLogger
           \/ (\E a \in Algorithms : addAlgorithm(a)) \/ (\E token \in Tokens : resetToken(token)) \/ runCommand
  BY <1>1, <1>5 DEF addFilter, clearFilterList, clearAlgList, rebootLogger, addAlgorithm, resetToken, runCommand
<1>6. CASE \/ \E file \in Documents : Upload("metadata", file)
           \/ \E file \in Certs : Upload("auth", file)
           \/ \E c \in Commands : Types(c)
           \/ refreshStatus
           \/ \E resource \in {"catalog", "archive"} : redirect(resource)
           \/ onUpload \/ onCertUpload
  BY <1>6 DEF Upload, Types, refreshStatus, redirect, Delayed, onUpload, onCertUpload, Read
<1>7. CASE \E f \in Fields : \E value \in Edits[f] : Edit(f, value)
  BY <1>3, <1>7
<1>8. CASE generateUniqueID({"ship-1"})
  BY <1>3, <1>8 DEF generateUniqueID
<1>9. CASE uploadDefaultConfig
  <2>1. PICK c : c = Command("uploadConfig", "lab defaults", <<>>)
    OBVIOUS
  <2>2. requests' = Append(requests, c) /\ UNCHANGED <<timers, replies, logger, form, basis, touched>>
    BY <1>9, <2>1 DEF uploadDefaultConfig, sendConfig, sendCommand
  <2>3. ~c.gone /\ c.by # "bootstrap" /\ ~Sets(c)
    BY <2>1 DEF Command, Sets
  <2> QED BY <1>2, <2>2, <2>3
<1>10. CASE \E resource \in {"config", "defaults"} : saveConfig(resource)
  <2>1. PICK resource : saveConfig(resource)
    BY <1>10
  <2>2. PICK c : c = Command("saveConfig", "snapshot", <<resource>>)
    OBVIOUS
  <2>3. requests' = Append(requests, c) /\ UNCHANGED <<timers, replies, logger, form, basis, touched>>
    BY <2>1, <2>2 DEF saveConfig, Clicks, sendCommand
  <2>4. ~c.gone /\ c.by # "bootstrap" /\ ~Sets(c)
    BY <2>2 DEF Command, Sets
  <2> QED BY <1>2, <2>3, <2>4
<1>11. CASE \E config \in SavedConfigs : loadConfigLocally(config)
  BY <1>4, <1>11
<1> QED BY <1>4, <1>5, <1>6, <1>7, <1>8, <1>9, <1>10, <1>11 DEF UserActs

\* What the logger does with the first command of the form's page.
LEMMA ServedForm ==
  ASSUME SendInv, PageInv, page = "configure", Serves, Head(requests).by = "bootstrap" => Boots(Head(requests))
  PROVE  \/ Restart
         \/ \E data : /\ Answer(logger', data)
                      /\ logger'.config = IF Sets(Head(requests)) THEN SetConfig(Head(requests).args[1], logger.config)
                                          ELSE logger.config
                      /\ Head(requests).by = "bootstrap" => data = ExtractConfig(logger.config)
<1> DEFINE r == Head(requests)
           Keeps == IF Sets(r) THEN SetConfig(r.args[1], logger.config) ELSE logger.config
           Result == Restart \/ \E data : /\ Answer(logger', data)
                                          /\ logger'.config = Keeps
                                          /\ r.by = "bootstrap" => data = ExtractConfig(logger.config)
<1> SUFFICES Result
  OBVIOUS
<1>1. requests # <<>>
  BY DEF Serves, AddNMEAFilter, ConfigureAlgRequest, StoreMetadataElement, SetAuthorisation,
         ReportConfigurationJSON, SetupLogger, SetLabDefaults, SnapshotResource, CurrentStatus,
         ExecutesRestart, Executes
<1>2. /\ r.name = "metadata" => r.args = <<>>
      /\ r.name = "auth" => r.args = <<>> \/ r.args[1] \in {"token", "cert"}
  BY <1>1, SeqFacts DEF SendInv, Fits
<1>3. DOMAIN logger = LoggerFields /\ logger.metadata \notin Unrenderable
  BY DEF SendInv, LoggerOK, Renders
<1>4. ASSUME NEW data, Answer(logger', data), logger'.config = logger.config, ~Sets(r), ~Boots(r) PROVE Result
  BY <1>4
<1>5. ASSUME r.name # "setup" PROVE ~Sets(r) /\ ~Boots(r)
  BY <1>5 DEF Sets, Boots
<1> HIDE DEF Result
<1>6. CASE AddNMEAFilter
  <2>1. PICK ids : r.name = "accept" /\ Answer([logger EXCEPT !.filter = ids], ids)
    BY <1>6 DEF AddNMEAFilter, Executes
  <2>2. logger' = [logger EXCEPT !.filter = ids]
    BY <2>1 DEF Answer
  <2>3. logger'.config = logger.config
    BY <1>3, <2>2 DEF LoggerFields
  <2> QED BY <1>4, <1>5, <2>1, <2>2, <2>3
<1>7. CASE ConfigureAlgRequest
  <2>1. PICK list : r.name = "algorithm" /\ Answer([logger EXCEPT !.algorithms = list], list)
    BY <1>7 DEF ConfigureAlgRequest, Executes
  <2>2. logger' = [logger EXCEPT !.algorithms = list]
    BY <2>1 DEF Answer
  <2>3. logger'.config = logger.config
    BY <1>3, <2>2 DEF LoggerFields
  <2> QED BY <1>4, <1>5, <2>1, <2>2, <2>3
<1>8. CASE StoreMetadataElement
  <2>1. PICK text : /\ r.name = "metadata" /\ text = (IF r.args = <<>> THEN logger.metadata ELSE Head(r.args))
                    /\ text \notin Unrenderable => Answer([logger EXCEPT !.metadata = text], text)
    BY <1>8 DEF StoreMetadataElement, Executes
  <2>4. Answer([logger EXCEPT !.metadata = text], text)
    BY <1>2, <1>3, <2>1
  <2>2. logger' = [logger EXCEPT !.metadata = text]
    BY <2>4 DEF Answer
  <2>3. logger'.config = logger.config
    BY <1>3, <2>2 DEF LoggerFields
  <2> QED BY <1>4, <1>5, <2>1, <2>2, <2>3, <2>4
<1>9. CASE SetAuthorisation
  <2>1. PICK l, data : /\ r.name = "auth" /\ Answer(l, data)
                       /\ l = IF r.args = <<>> THEN logger ELSE [logger EXCEPT ![r.args[1]] = r.args[2]]
    <3> DEFINE l == IF r.args = <<>> THEN logger ELSE [logger EXCEPT ![r.args[1]] = r.args[2]]
    <3>1. r.name = "auth" /\ \E data : Answer(l, data)
      BY <1>9 DEF SetAuthorisation, Executes
    <3> HIDE DEF l
    <3> QED BY <3>1 DEF l
  <2>2. logger' = l
    BY <2>1 DEF Answer
  <2>3. logger'.config = logger.config
    BY <1>2, <1>3, <2>1, <2>2 DEF LoggerFields
  <2>4. ~Sets(r) /\ ~Boots(r)
    BY <1>5, <2>1
  <2> QED BY <1>4, <2>1, <2>2, <2>3, <2>4
<1>10. CASE ReportConfigurationJSON
  <2>1. r.args = <<>> /\ Answer(logger, ExtractConfig(logger.config))
    BY <1>10 DEF ReportConfigurationJSON
  <2>2. logger' = logger /\ ~Sets(r)
    BY <2>1 DEF Answer, Sets
  <2> QED BY <2>1, <2>2 DEF Result
<1>11. CASE SetupLogger
  <2> DEFINE new == SetConfig(r.args[1], logger.config)
  <2>1. r.name = "setup" /\ r.args # <<>> /\ Answer([logger EXCEPT !.config = new], <<>>)
    <3>1. [logger EXCEPT !.config = SetConfig(r.args[1], @)] = [logger EXCEPT !.config = new]
      BY Zenon
    <3> QED BY <1>11, <3>1 DEF SetupLogger, Executes
  <2>2. Sets(r) /\ ~Boots(r)
    BY <2>1 DEF Sets, Boots
  <2>6. Keeps = new
    BY <2>2
  <2> HIDE DEF new
  <2>3. logger' = [logger EXCEPT !.config = new]
    BY <2>1 DEF Answer
  <2>4. logger'.config = new
    BY <1>3, <2>3 DEF LoggerFields
  <2>5. Answer(logger', <<>>)
    BY <2>1, <2>3
  <2>7. r.by # "bootstrap"
    BY <2>2
  <2> HIDE DEF Keeps
  <2> QED BY <2>4, <2>5, <2>6, <2>7 DEF Result
<1>12. CASE SetLabDefaults
  <2>1. r.name = "lab defaults" /\ Answer([logger EXCEPT !.defaults = TRUE], <<>>)
    BY <1>12 DEF SetLabDefaults, Executes
  <2>2. logger' = [logger EXCEPT !.defaults = TRUE]
    BY <2>1 DEF Answer
  <2>3. logger'.config = logger.config
    BY <1>3, <2>2 DEF LoggerFields
  <2> QED BY <1>4, <1>5, <2>1, <2>2, <2>3
<1>13. CASE SnapshotResource \/ CurrentStatus
  <2>1. PICK data : r.name # "setup" /\ Answer(logger, data)
    BY <1>13 DEF SnapshotResource, CurrentStatus, Executes
  <2>2. logger' = logger
    BY <2>1 DEF Answer
  <2> QED BY <1>4, <1>5, <2>1, <2>2
<1>14. CASE ExecutesRestart
  BY <1>14 DEF ExecutesRestart, Result
<1> QED BY <1>6, <1>7, <1>8, <1>9, <1>10, <1>11, <1>12, <1>13, <1>14 DEF Serves

LEMMA EditedStep ==
  ASSUME SendInv, PageInv, EditedInv, [Next]_vars
  PROVE  EditedInv'
<1> DEFINE Result == Edited(timers', requests', replies', logger'.config, form', basis', touched')
<1>1. page' = page
  BY SendStep
<1> SUFFICES ASSUME page = "configure" PROVE Result
  BY <1>1 DEF EditedInv
<1>2. Edited(timers, requests, replies, logger.config, form, basis, touched)
  BY DEF EditedInv
<1>3. /\ IsSeq(requests) /\ Len(requests) \in Nat /\ DOMAIN requests = 1 .. Len(requests)
      /\ IsSeq(timers) /\ Len(timers) \in Nat /\ DOMAIN timers = 1 .. Len(timers)
      /\ IsSeq(replies) /\ Len(replies) \in Nat /\ DOMAIN replies = 1 .. Len(replies)
      /\ \A i \in 1 .. Len(requests) : Fits(page, requests[i])
      /\ \A i \in 1 .. Len(timers) : timers[i].gone = FALSE
  BY SeqFacts DEF SendInv
<1>4. /\ basis \in {"blank", "logger", "sent"} /\ DOMAIN form = Fields
      /\ DOMAIN logger = LoggerFields /\ DOMAIN logger.config = Fields
  BY DEF PageInv, SendInv, LoggerOK
<1>5. ASSUME UNCHANGED <<timers, requests, replies, form, basis, touched>>, logger'.config = logger.config
      PROVE  Result
  BY <1>2, <1>5
<1>6. ASSUME UNCHANGED <<timers, requests, replies, logger, basis>>, touched \subseteq touched',
             \A f \in Fields : f \notin touched' => form'[f] = form[f]
      PROVE  Result
  <2>1. PICK frm2, tch2 : frm2 = form' /\ tch2 = touched'
    OBVIOUS
  <2>2. Edited(timers, requests, replies, logger.config, frm2, basis, tch2)
    BY <1>2, <1>6, <2>1, FormTouched
  <2> QED BY <1>6, <2>1, <2>2
<1>7. ASSUME NEW c, ~c.gone, c.by = "bootstrap" => Boots(c),
             Sets(c) => /\ \E config \in createJSONConfig(form) : c.args = <<config, basis, touched'>>
                        /\ Misread(form) \subseteq touched' /\ Parses(form),
             requests' = Append(requests, c), basis' = (IF Sets(c) /\ basis = "blank" THEN "sent" ELSE basis),
             UNCHANGED <<replies, logger, form>>, touched \subseteq touched',
             \A i \in 1 .. Len(timers') : Boots(timers'[i])
      PROVE  Result
  <2>1. PICK p, bas2, tch2 : p = requests' /\ bas2 = basis' /\ tch2 = touched'
    OBVIOUS
  <2>2. Edited(timers, requests, replies, logger.config, form, basis, tch2)
    BY <1>2, <1>7, <2>1, FormTouched
  <2>3. /\ Sets(c) => /\ \E config \in createJSONConfig(form) : c.args = <<config, basis, tch2>>
                      /\ Misread(form) \subseteq tch2 /\ Parses(form)
        /\ p = Append(requests, c) /\ bas2 = IF Sets(c) /\ basis = "blank" THEN "sent" ELSE basis
    BY <1>7, <2>1
  <2>4. Edited(timers, p, replies, logger.config, form, bas2, tch2)
    BY <1>3, <1>4, <1>7, <2>2, <2>3, FormSends
  <2>5. Edited(timers', p, replies, logger.config, form, bas2, tch2)
    BY <1>7, <2>4 DEF Edited
  <2> QED BY <1>7, <2>1, <2>5
<1>8. ASSUME NEW p, p = requests', NEW s, s = replies',
             Edited(timers, p, s, logger.config, form, basis, touched),
             UNCHANGED <<timers, form, basis, touched>>, logger'.config = logger.config
      PROVE  Result
  BY <1>8
<1>9. ASSUME UNCHANGED <<timers, replies, form, basis, touched>>, logger'.config = logger.config, requests' = <<>>
      PROVE  Result
  <2>1. PICK p, w, s : p = requests' /\ w = <<>> /\ s = replies'
    OBVIOUS
  <2>2. Len(p) = 0
    BY <1>9, <2>1, SeqEmpty
  <2>3. \A i \in 1 .. Len(s) : \E j \in 1 .. Len(replies) : s[i] = replies[j]
    BY <1>9, <2>1
  <2>4. /\ \A i \in 1 .. Len(p) : w[i] \in 1 .. Len(requests) /\ p[i] = requests[w[i]]
        /\ \A i, j \in 1 .. Len(p) : i < j => w[i] < w[j]
    BY <2>2
  <2>5. s # <<>> => replies # <<>>
    BY <1>9, <2>1
  <2>6. Edited(timers, p, s, logger.config, form, basis, touched)
    <3>1. PartOf(p, requests)
      BY <2>4 DEF PartOf
    <3>2. AmongAll(s, replies)
      BY <2>3, <2>5 DEF AmongAll
    <3> QED BY <1>2, <3>1, <3>2, FormLoses
  <2>7. p = requests' /\ s = replies'
    BY <2>1
  <2> HIDE DEF Result
  <2> QED BY <1>8, <1>9, <2>6, <2>7
<1> HIDE DEF Result
<1>10. CASE UserActs \/ onUpload \/ onCertUpload
  <2>1. CASE \E f \in Fields : \E value : Edit(f, value)
    <3>1. PICK f \in Fields : \E value : Edit(f, value)
      BY <2>1
    <3>2. PICK value : Edit(f, value)
      BY <3>1
    <3>3. /\ UNCHANGED <<timers, requests, replies, logger, basis>>
          /\ form' = [form EXCEPT ![f] = value] /\ touched' = touched \cup {f}
      BY <3>2 DEF Edit
    <3>4. \A g \in Fields : g \notin touched' => form'[g] = form[g]
      BY <1>4, <3>3
    <3> QED BY <1>6, <3>3, <3>4
  <2>2. CASE \E config : loadConfigLocally(config)
    <3>1. PICK config : loadConfigLocally(config)
      BY <2>2
    <3>2. /\ UNCHANGED <<timers, requests, replies, logger, basis>>
          /\ form' = parseConfigJSON(config, form) /\ touched' = touched \cup Reached(config)
      BY <3>1 DEF loadConfigLocally
    <3>3. \A g \in Fields : g \notin touched' => form'[g] = form[g]
      BY <3>2 DEF parseConfigJSON
    <3> QED BY <1>6, <3>2, <3>3
  <2>3. CASE uploadCurrentConfig
    <3>1. PICK config \in createJSONConfig(form) :
            sendConfig("setup", <<config, basis, touched \cup Misread(form)>>)
      BY <2>3 DEF uploadCurrentConfig
    <3>2. /\ touched' = touched \cup Misread(form)
          /\ basis' = (IF basis = "blank" THEN "sent" ELSE basis)
      BY <2>3 DEF uploadCurrentConfig
    <3>3. PICK c : c = Command("uploadConfig", "setup", <<config, basis, touched'>>)
      OBVIOUS
    <3>4. /\ requests' = Append(requests, c) /\ Parses(form)
          /\ UNCHANGED <<timers, replies, logger, form>>
      BY <3>1, <3>2, <3>3 DEF sendConfig, sendCommand
    <3>5. c.args = <<config, basis, touched'>>
      BY <3>3 DEF Command
    <3>6. c.args # <<>>
      <4>1. PICK a, b, d : a = config /\ b = basis /\ d = touched'
        OBVIOUS
      <4>2. <<a, b, d>> # <<>>
        OBVIOUS
      <4> QED BY <3>5, <4>1, <4>2
    <3>7. ~c.gone /\ c.by # "bootstrap" /\ Sets(c)
      BY <3>3, <3>6 DEF Command, Sets
    <3>8. \A i \in 1 .. Len(timers') : Boots(timers'[i])
      BY <1>2, <3>4 DEF Edited
    <3>9. basis' = (IF Sets(c) /\ basis = "blank" THEN "sent" ELSE basis)
      BY <3>2, <3>7
    <3>10. touched \subseteq touched' /\ Misread(form) \subseteq touched'
      BY <3>2
    <3>11. \E w \in createJSONConfig(form) : c.args = <<w, basis, touched'>>
      BY <3>5
    <3>12. UNCHANGED <<replies, logger, form>> /\ requests' = Append(requests, c)
      BY <3>4
    <3> QED BY <1>7, <3>4, <3>7, <3>8, <3>9, <3>10, <3>11, <3>12
  <2>4. CASE \E c : /\ requests' = Append(requests, c) /\ ~c.gone /\ c.by # "bootstrap" /\ ~Sets(c)
                    /\ UNCHANGED <<timers, replies, logger, form, basis, touched>>
    <3>1. PICK c : /\ requests' = Append(requests, c) /\ ~c.gone /\ c.by # "bootstrap" /\ ~Sets(c)
                   /\ UNCHANGED <<timers, replies, logger, form, basis, touched>>
      BY <2>4
    <3>2. \A i \in 1 .. Len(timers') : Boots(timers'[i])
      BY <1>2, <3>1 DEF Edited
    <3>3. basis' = (IF Sets(c) /\ basis = "blank" THEN "sent" ELSE basis)
      BY <3>1
    <3>4. UNCHANGED <<replies, logger, form>> /\ touched \subseteq touched'
      BY <3>1
    <3> QED BY <1>7, <3>1, <3>2, <3>3, <3>4
  <2>5. CASE Reopen
    <3>1. /\ timers' = Bootstrap(page) /\ form' = Blank /\ replies' = <<>> /\ basis' = "blank" /\ touched' = {}
          /\ logger' = logger
          /\ requests' = [i \in DOMAIN requests |-> [requests[i] EXCEPT !.gone = TRUE]]
      BY <2>5 DEF Reopen
    <3>2. PICK p : p = requests'
      OBVIOUS
    <3>3. p = [i \in DOMAIN requests |-> [requests[i] EXCEPT !.gone = TRUE]]
      BY <3>1, <3>2
    <3>4. Len(p) = Len(requests) /\ \A i \in 1 .. Len(p) : p[i] = [requests[i] EXCEPT !.gone = TRUE]
      BY <1>3, <3>3, SeqForgotten
    <3>5. \A i \in 1 .. Len(p) : DOMAIN requests[i] = {"by", "name", "args", "gone"}
      BY <1>3, <3>4 DEF Fits
    <3>6. QueueInv(requests, logger.config)
      BY <1>2 DEF Edited
    <3>7. QueueInv(p, logger.config) /\ \A bas, tch : LiveInv(p, bas, tch)
      BY <3>4, <3>5, <3>6, QueueGone
    <3>8. \A i \in 1 .. Len(timers') : Boots(timers'[i])
      <4>1. \A i \in 1 .. Len(timers') : timers'[i] = Command("bootstrap", Report[page], <<>>)
        BY <3>1, BootstrapFits
      <4> QED BY <4>1, Reports1 DEF Boots, Command
    <3>9. Len(replies') = 0
      BY <3>1, SeqEmpty
    <3>10. FormInv(p, logger.config, form', basis', touched')
      BY <3>1 DEF FormInv
    <3>11. Edited(timers', p, replies', logger.config, form', basis', touched')
      BY <3>1, <3>7, <3>8, <3>9, <3>10 DEF Edited
    <3> QED BY <3>1, <3>2, <3>11 DEF Result
  <2> QED BY <1>10, <2>1, <2>2, <2>3, <2>4, <2>5, OnForm
<1>11. CASE TimerFires
  <2>1. PICK k \in DOMAIN timers :
          /\ requests' = Append(requests, timers[k]) /\ timers' = RemoveAt(timers, k)
          /\ UNCHANGED <<replies, logger, form, basis, touched>>
    BY <1>11 DEF TimerFires
  <2>2. PICK c : c = timers[k]
    OBVIOUS
  <2>3. Boots(c) /\ ~c.gone /\ ~Sets(c)
    BY <1>2, <1>3, <2>2 DEF Edited, Boots, Sets
  <2>4. timers' = RemoveAt(timers, k) /\ IsSeq(timers)
    BY <1>3, <2>1
  <2>5. \A i \in 1 .. Len(timers') : timers'[i] = timers[Was(i, k)] /\ Was(i, k) \in 1 .. Len(timers)
    BY <2>4, SeqRemoved
  <2>6. \A i \in 1 .. Len(timers') : Boots(timers'[i])
    BY <1>2, <2>5 DEF Edited
  <2>7. basis' = (IF Sets(c) /\ basis = "blank" THEN "sent" ELSE basis)
    BY <2>1, <2>3
  <2>8. UNCHANGED <<replies, logger, form>> /\ touched \subseteq touched' /\ requests' = Append(requests, c)
    BY <2>1, <2>2
  <2> QED BY <1>7, <2>3, <2>6, <2>7, <2>8
<1>12. CASE PageHandles
  <2>1. CASE bootstrapConfig
    <3>1. /\ replies # <<>> /\ replies' = Tail(replies) /\ Head(replies).by = "bootstrap"
          /\ form' = parseConfigJSON(Head(replies).data, form)
          /\ basis' = (IF basis = "blank" THEN "logger" ELSE basis)
          /\ touched' = touched \cup Misheld(Head(replies).data)
          /\ UNCHANGED <<timers, requests, logger>>
      BY <2>1 DEF bootstrapConfig, Handles
    <3>2. Head(replies) = replies[1]
      BY <1>3, <3>1, SeqFacts
    <3>3. PICK s, frm2, bas2, tch2 : s = replies' /\ frm2 = form' /\ bas2 = basis' /\ tch2 = touched'
      OBVIOUS
    <3>4. Edited(timers, requests, s, logger.config, frm2, bas2, tch2)
      BY <1>2, <1>3, <1>4, <3>1, <3>2, <3>3, FormFills
    <3> QED BY <3>1, <3>3, <3>4 DEF Result
  <2>2. CASE ~bootstrapConfig
    <3>1. /\ replies # <<>> /\ replies' = Tail(replies)
          /\ UNCHANGED <<timers, requests, logger, form, basis, touched>>
      BY <1>12, <2>2 DEF PageHandles, populateFilterTable, populateAlgTable, showMetadata, populateDisplay,
                         updateStatus, showOutput, AnswerIgnored, Handles
    <3>2. PICK p, s, w : p = requests' /\ s = replies' /\ w = [i \in 1 .. Len(requests) |-> i]
      OBVIOUS
    <3>3. s = Tail(replies)
      BY <3>1, <3>2
    <3>4. \A i \in 1 .. Len(s) : s[i] = replies[i + 1] /\ i + 1 \in 1 .. Len(replies)
      BY <1>3, <3>1, <3>3, SeqTaken
    <3>5. \A i \in 1 .. Len(s) : \E j \in 1 .. Len(replies) : s[i] = replies[j]
      BY <3>4
    <3>6. /\ \A i \in 1 .. Len(p) : w[i] \in 1 .. Len(requests) /\ p[i] = requests[w[i]]
          /\ \A i, j \in 1 .. Len(p) : i < j => w[i] < w[j]
      BY <3>1, <3>2
    <3>7. UNCHANGED <<timers, form, basis, touched>> /\ logger'.config = logger.config
      BY <3>1
    <3>8. s # <<>> => replies # <<>>
      BY <3>1
    <3>9. Edited(timers, p, s, logger.config, form, basis, touched)
      <4>1. PartOf(p, requests)
        BY <3>6 DEF PartOf
      <4>2. AmongAll(s, replies)
        BY <3>5, <3>8 DEF AmongAll
      <4> QED BY <1>2, <4>1, <4>2, FormLoses
    <3>10. p = requests' /\ s = replies'
      BY <3>2
    <3> QED BY <1>8, <3>7, <3>9, <3>10
  <2> QED BY <2>1, <2>2
<1>13. CASE Serves
  <2>1. requests # <<>>
    BY <1>13, Served
  <2>2. Head(requests) = requests[1] /\ 1 \in 1 .. Len(requests)
    BY <1>3, <2>1, SeqFacts
  <2>3. requests[1].by = "bootstrap" => Boots(requests[1])
    BY <1>2, <2>2 DEF Edited, QueueInv
  <2>4. CASE Restart
    <3>1. /\ logger' = [logger EXCEPT !.hung = FALSE] /\ requests' = <<>>
          /\ UNCHANGED <<timers, replies, form, basis, touched>>
      BY <2>4 DEF Restart, pageVars
    <3>2. logger'.config = logger.config
      BY <1>4, <3>1 DEF LoggerFields
    <3> QED BY <1>9, <3>1, <3>2
  <2>5. ASSUME NEW data, Answer(logger', data),
               logger'.config = IF Sets(Head(requests)) THEN SetConfig(Head(requests).args[1], logger.config)
                                ELSE logger.config,
               Head(requests).by = "bootstrap" => data = ExtractConfig(logger.config)
        PROVE  Result
    <3>1. PICK r : r = requests[1]
      OBVIOUS
    <3>2. /\ requests' = Tail(requests)
          /\ replies' = (IF r.gone THEN replies ELSE Append(replies, [by |-> r.by, data |-> data]))
          /\ UNCHANGED <<timers, form, basis, touched>>
      BY <2>2, <2>5, <3>1 DEF Answer, pageVars
    <3>3. PICK conf, new, p, s : conf = logger.config /\ new = logger'.config /\ p = requests' /\ s = replies'
      OBVIOUS
    <3>4. /\ new = IF Sets(requests[1]) THEN SetConfig(requests[1].args[1], conf) ELSE conf
          /\ requests[1].by = "bootstrap" => data = ExtractConfig(conf)
          /\ p = Tail(requests)
          /\ s = IF requests[1].gone THEN replies ELSE Append(replies, [by |-> requests[1].by, data |-> data])
          /\ DOMAIN conf = Fields
      BY <1>4, <2>2, <2>5, <3>1, <3>2, <3>3
    <3>5. Edited(timers, requests, replies, conf, form, basis, touched)
      BY <1>2, <3>3
    <3>6. Edited(timers, p, s, new, form, basis, touched)
      BY <1>3, <1>4, <2>1, <3>4, <3>5, FormServed
    <3> QED BY <3>2, <3>3, <3>6 DEF Result
  <2> QED BY <1>13, <2>2, <2>3, <2>4, <2>5, ServedForm
<1>14. CASE PowerLoss
  <2>1. /\ logger' = [logger EXCEPT !.hung = FALSE] /\ requests' = <<>>
        /\ UNCHANGED <<timers, replies, form, basis, touched>>
    BY <1>14 DEF PowerLoss, Restart, pageVars
  <2>2. logger'.config = logger.config
    BY <1>4, <2>1 DEF LoggerFields
  <2> QED BY <1>9, <2>1, <2>2
<1>15. CASE Records
  BY <1>15 DEF Records
<1>16. CASE \E i \in DOMAIN requests : RequestLost(i)
  <2>1. PICK k \in DOMAIN requests : RequestLost(k)
    BY <1>16
  <2>2. requests' = RemoveAt(requests, k) /\ UNCHANGED <<timers, replies, logger, form, basis, touched>>
    BY <2>1 DEF RequestLost, pageVars
  <2>3. PICK p, s, w : p = requests' /\ s = replies' /\ w = [i \in 1 .. Len(requests) |-> Was(i, k)]
    OBVIOUS
  <2>4. p = RemoveAt(requests, k)
    BY <2>2, <2>3
  <2>5. Len(p) = Len(requests) - 1
    BY <1>3, <2>4, SeqRemoved
  <2>6. \A i \in 1 .. Len(p) : p[i] = requests[Was(i, k)] /\ Was(i, k) \in 1 .. Len(requests)
    <3>1. IsSeq(requests)
      BY <1>3
    <3> QED BY <2>4, <3>1, SeqRemoved
  <2>7. \A i \in 1 .. Len(p) : i \in 1 .. Len(requests) /\ w[i] = Was(i, k)
    BY <1>3, <2>3, <2>5
  <2>8. \A i \in 1 .. Len(p) : w[i] \in 1 .. Len(requests) /\ p[i] = requests[w[i]]
    BY <2>6, <2>7
  <2>9. \A i, j \in 1 .. Len(p) : i < j => w[i] < w[j]
    BY <1>3, <2>5, <2>7 DEF Was
  <2>10. (s # <<>> => replies # <<>>) /\ \A i \in 1 .. Len(s) : \E j \in 1 .. Len(replies) : s[i] = replies[j]
    BY <2>2, <2>3
  <2>11. UNCHANGED <<timers, form, basis, touched>> /\ logger'.config = logger.config
    BY <2>2
  <2>12. Edited(timers, p, s, logger.config, form, basis, touched)
    <3>1. PartOf(p, requests)
      BY <2>8, <2>9 DEF PartOf
    <3>2. AmongAll(s, replies)
      BY <2>10 DEF AmongAll
    <3> QED BY <1>2, <3>1, <3>2, FormLoses
  <2>13. p = requests' /\ s = replies'
    BY <2>3
  <2> QED BY <1>8, <2>11, <2>12, <2>13
<1>17. CASE \E i \in DOMAIN replies : ReplyLost(i)
  <2>1. PICK k \in DOMAIN replies : ReplyLost(k)
    BY <1>17
  <2>2. replies' = RemoveAt(replies, k) /\ UNCHANGED <<timers, requests, logger, form, basis, touched>>
    BY <2>1 DEF ReplyLost, pageVars
  <2>3. PICK p, s, w : p = requests' /\ s = replies' /\ w = [i \in 1 .. Len(requests) |-> i]
    OBVIOUS
  <2>4. s = RemoveAt(replies, k)
    BY <2>2, <2>3
  <2>5. \A i \in 1 .. Len(s) : s[i] = replies[Was(i, k)] /\ Was(i, k) \in 1 .. Len(replies)
    BY <1>3, <2>4, SeqRemoved
  <2>6. \A i \in 1 .. Len(s) : \E j \in 1 .. Len(replies) : s[i] = replies[j]
    BY <2>5
  <2>7. replies # <<>>
    BY <1>3, SeqFacts
  <2>8. /\ \A i \in 1 .. Len(p) : w[i] \in 1 .. Len(requests) /\ p[i] = requests[w[i]]
        /\ \A i, j \in 1 .. Len(p) : i < j => w[i] < w[j]
    BY <2>2, <2>3
  <2>9. UNCHANGED <<timers, form, basis, touched>> /\ logger'.config = logger.config
    BY <2>2
  <2>10. Edited(timers, p, s, logger.config, form, basis, touched)
    <3>1. PartOf(p, requests)
      BY <2>8 DEF PartOf
    <3>2. AmongAll(s, replies)
      BY <2>6, <2>7 DEF AmongAll
    <3> QED BY <1>2, <3>1, <3>2, FormLoses
  <2>11. p = requests' /\ s = replies'
    BY <2>3
  <2> QED BY <1>8, <2>9, <2>10, <2>11
<1>18. CASE UNCHANGED vars
  BY <1>5, <1>18 DEF vars, pageVars
<1> QED BY <1>10, <1>11, <1>12, <1>13, <1>14, <1>15, <1>16, <1>17, <1>18 DEF Next

\* What a new configuration changes when the logger takes it over.
LEMMA ConfigChanges ==
  ASSUME SendInv, PageInv, EditedInv, [Next]_vars, NEW f \in Fields \ {"autoupload"},
         logger'.config[f] # logger.config[f]
  PROVE  IF Head(requests).args[2] = "logger" THEN f \in Head(requests).args[3]
         ELSE Fields \cap Numbers \subseteq Head(requests).args[3]
<1>1. DOMAIN logger = LoggerFields /\ DOMAIN logger.config = Fields
  BY DEF SendInv, LoggerOK
<1>2. ASSUME \/ logger' = logger
             \/ \E x : \/ logger' = [logger EXCEPT !.filter = x]
                      \/ logger' = [logger EXCEPT !.algorithms = x]
                      \/ logger' = [logger EXCEPT !.metadata = x]
                      \/ logger' = [[logger EXCEPT !.metadata = x] EXCEPT !.hung = TRUE]
                      \/ logger' = [logger EXCEPT !.report = x]
                      \/ logger' = [logger EXCEPT !.defaults = x]
                      \/ logger' = [logger EXCEPT !.hung = x]
                      \/ logger' = [logger EXCEPT !["token"] = x]
                      \/ logger' = [logger EXCEPT !["cert"] = x]
      PROVE  FALSE
  BY <1>1, <1>2 DEF LoggerFields
<1>3. Serves
  <2>1. CASE UserActs \/ onUpload \/ onCertUpload
    BY <1>2, <2>1, UserActsAre, ReadersSend DEF Sends, Delays, Idles, Reopen
  <2>2. CASE TimerFires \/ (\E i \in DOMAIN requests : RequestLost(i)) \/ \E i \in DOMAIN replies : ReplyLost(i)
    BY <1>2, <2>2 DEF TimerFires, RequestLost, ReplyLost
  <2>3. CASE PageHandles
    BY <1>2, <2>3 DEF PageHandles, populateFilterTable, populateAlgTable, showMetadata, populateDisplay,
                      updateStatus, showOutput, bootstrapConfig, AnswerIgnored, Handles
  <2>4. CASE PowerLoss \/ Records
    BY <1>2, <2>4 DEF PowerLoss, Restart, Records
  <2>5. CASE UNCHANGED vars
    BY <1>2, <2>5 DEF vars
  <2> QED BY <2>1, <2>2, <2>3, <2>4, <2>5 DEF Next
<1>4. CASE SetupLogger
  <2> DEFINE r == Head(requests)
             new == SetConfig(r.args[1], logger.config)
  <2>1. requests # <<>> /\ r.name = "setup" /\ r.args # <<>> /\ logger' = [logger EXCEPT !.config = new]
    <3>1. [logger EXCEPT !.config = SetConfig(r.args[1], @)] = [logger EXCEPT !.config = new]
      BY Zenon
    <3> QED BY <1>4, <3>1 DEF SetupLogger, Executes, Answer
  <2>2. r = requests[1] /\ 1 \in 1 .. Len(requests)
    BY <2>1, SeqFacts DEF SendInv
  <2>3. page = "configure"
    BY <2>1, <2>2 DEF SendInv, Fits
  <2>4. QueueInv(requests, logger.config) /\ Sets(r)
    BY <2>1, <2>3 DEF EditedInv, Edited, Sets
  <2>5. /\ r.args[2] # "logger" => Fields \cap Numbers \subseteq r.args[3]
        /\ r.args[2] = "logger" => Leaves(r.args[1], r.args[3], logger.config)
    BY <2>2, <2>4 DEF QueueInv
  <2>6. logger'.config = new
    <3> HIDE DEF new
    <3> QED BY <1>1, <2>1 DEF LoggerFields
  <2>7. f \in DOMAIN r.args[1].values => new[f] = r.args[1].values[f]
    BY DEF SetConfig
  <2> HIDE DEF r, new
  <2>8. ~(f \in DOMAIN r.args[1].values /\ r.args[1].values[f] = logger.config[f])
    BY <2>6, <2>7
  <2>9. IF r.args[2] = "logger" THEN f \in r.args[3] ELSE Fields \cap Numbers \subseteq r.args[3]
    BY <2>5, <2>8 DEF Settings, Leaves
  <2> QED BY <2>9 DEF r
<1>5. CASE SetAuthorisation
  <2>1. requests # <<>> /\ Head(requests).name = "auth"
    BY <1>5 DEF SetAuthorisation, Executes
  <2>2. Head(requests).args = <<>> \/ Head(requests).args[1] \in {"token", "cert"}
    BY <2>1, SeqFacts DEF SendInv, Fits
  <2>3. logger' = logger \/ \E x : logger' = [logger EXCEPT !["token"] = x] \/ logger' = [logger EXCEPT !["cert"] = x]
    BY <1>5, <2>2 DEF SetAuthorisation, Answer
  <2> QED BY <1>2, <2>3
<1>6. CASE AddNMEAFilter
  <2>1. \E x : logger' = [logger EXCEPT !.filter = x]
    BY <1>6 DEF AddNMEAFilter, Answer
  <2> QED BY <1>2, <2>1
<1>7. CASE ConfigureAlgRequest
  <2>1. \E x : logger' = [logger EXCEPT !.algorithms = x]
    BY <1>7 DEF ConfigureAlgRequest, Answer
  <2> QED BY <1>2, <2>1
<1>8. CASE StoreMetadataElement
  <2>1. \E x : logger' = [logger EXCEPT !.metadata = x] \/ logger' = [[logger EXCEPT !.metadata = x] EXCEPT !.hung = TRUE]
    BY <1>8 DEF StoreMetadataElement, Answer
  <2> QED BY <1>2, <2>1
<1>9. CASE SetLabDefaults
  <2>1. \E x : logger' = [logger EXCEPT !.defaults = x]
    BY <1>9 DEF SetLabDefaults, Answer
  <2> QED BY <1>2, <2>1
<1>10. CASE ExecutesRestart
  <2>1. \E x : logger' = [logger EXCEPT !.hung = x]
    BY <1>10 DEF ExecutesRestart, Restart
  <2> QED BY <1>2, <2>1
<1>11. CASE ReportConfigurationJSON \/ SnapshotResource \/ CurrentStatus
  BY <1>2, <1>11 DEF ReportConfigurationJSON, SnapshotResource, CurrentStatus, Answer
<1> QED BY <1>3, <1>4, <1>5, <1>6, <1>7, <1>8, <1>9, <1>10, <1>11 DEF Serves

\* UneditedKept: if the logger's own configuration filled the form before a new
\* one is sent, the new one leaves alone what the user has not touched and what the
\* page itself does not change, which it does to texts with line breaks or escapes,
\* and to any after a text that ends the quotes around it; also while other
\* configurations of this and of earlier visits to the page are on the way.  If
\* the logger's own filled none, the user has given every number.
THEOREM UneditedCorrect == Spec => UneditedKept
<1>1. SendInv /\ PageInv /\ EditedInv /\ [Next]_vars => EditedInv'
  BY EditedStep
<1>2. Spec => []EditedInv
  BY SendInvHolds, EditedInit, <1>1, PTL DEF Spec
<1> DEFINE Kept ==
      \A f \in Fields \ {"autoupload"} : logger'.config[f] # logger.config[f] =>
        LET wasBasis == Head(requests).args[2]
            wasTouched == Head(requests).args[3]
        IN IF wasBasis = "logger" THEN f \in wasTouched ELSE Fields \cap Numbers \subseteq wasTouched
<1>3. SendInv /\ PageInv /\ EditedInv /\ [Next]_vars => [Kept]_vars
  BY ConfigChanges
<1> QED BY <1>2, <1>3, SendInvHolds, PTL DEF Spec, UneditedKept
=============================================================================
