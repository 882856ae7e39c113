--------------------------- MODULE HubRangesProofs ---------------------------
(***************************************************************************)
(* Proofs about the interval arithmetic of pruned ranges and gap lists,    *)
(* for streams of any length and every sequence of batches.                *)
(***************************************************************************)
EXTENDS HubRanges, FiniteSetTheorems, WellFoundedInduction, TLAPS

(* A non-empty set of naturals has a least member. *)
LEMMA LeastNatural ==
  ASSUME NEW S, S \subseteq Nat, S # {}
  PROVE  \E m \in S : \A n \in S : m <= n
<1> DEFINE Less == {p \in Nat \X Nat : p[1] < p[2]}
<1>1. IsWellFoundedOn(Less, Nat)
  <2>1. OpToRel(<, Nat) = Less
    BY DEF OpToRel
  <2>2. QED
    BY <2>1, NatLessThanWellFounded, Zenon
<1> HIDE DEF Less
<1>2. PICK m \in S : \A n \in S : <<n, m>> \notin Less
  BY <1>1, WFMin
<1>3. ASSUME NEW n \in S  PROVE ~(n < m)
  <2>1. <<n, m>> \notin Less
    BY <1>2
  <2>2. n \in Nat /\ m \in Nat
    OBVIOUS
  <2>3. QED
    BY <2>1, <2>2 DEF Less
<1>4. QED
  <2>1. \A n \in S : n \in Int /\ m \in Int
    OBVIOUS
  <2>2. QED
    BY <1>3, <2>1

(* What holds of 0 and goes on holds up to n: how the folds are followed. *)
LEMMA Upto ==
  ASSUME NEW n \in Nat, NEW T, 0 \in T, \A k \in 0 .. n - 1 : k \in T => k + 1 \in T
  PROVE  \A k \in 0 .. n : k \in T
<1> DEFINE Bad == {k \in 0 .. n : k \notin T}
<1> SUFFICES ASSUME Bad # {} PROVE FALSE
  OBVIOUS
<1>1. PICK m \in Bad : \A k \in Bad : m <= k
  <2>1. Bad \subseteq Nat
    OBVIOUS
  <2> HIDE DEF Bad
  <2> QED BY <2>1, LeastNatural
<1>2. m # 0 /\ m - 1 \in 0 .. n - 1
  BY <1>1
<1>3. m - 1 \in T
  BY <1>1, <1>2
<1>4. (m - 1) + 1 = m
  BY <1>1
<1> QED BY <1>1, <1>2, <1>3, <1>4

LEMMA MaxIs ==
  ASSUME NEW S, S \subseteq Int, NEW m \in S, \A x \in S : x <= m
  PROVE  Max(S) = m
<1>1. \A x \in S : m >= x
  OBVIOUS
<1>2. Max(S) \in S /\ \A x \in S : Max(S) >= x
  BY <1>1, Zenon DEF Max
<1>3. Max(S) >= m /\ m >= Max(S) /\ Max(S) \in Int
  BY <1>1, <1>2
<1> QED BY <1>3

LEMMA MinIs ==
  ASSUME NEW S, S \subseteq Int, NEW m \in S, \A x \in S : m <= x
  PROVE  Min(S) = m
<1>1. Min(S) \in S /\ \A x \in S : Min(S) <= x
  BY Zenon DEF Min
<1>2. Min(S) <= m /\ m <= Min(S) /\ Min(S) \in Int
  BY <1>1
<1> QED BY <1>2

LEMMA MaxUpTo ==
  ASSUME NEW k \in Nat, NEW s \in SUBSET (1 .. k + 1), k + 1 \in s
  PROVE  Max(s) = k + 1 /\ s \ {k + 1} \in SUBSET (1 .. k)
<1>1. s \subseteq Int /\ \A x \in s : x <= k + 1
  OBVIOUS
<1>2. Max(s) = k + 1
  BY <1>1, MaxIs
<1>3. \A x \in s \ {k + 1} : x \in 1 .. k
  OBVIOUS
<1> QED BY <1>2, <1>3

-----------------------------------------------------------------------------
(* Folds.  Each is followed by the list of what it had after k steps. *)

(* The report of a prune, one deleted position after the other. *)
LEMMA ReportSteps ==
  ASSUME NEW gone, NEW n \in Nat, DOMAIN InOrder(gone) = 1 .. n
  PROVE  \E acc : /\ acc[0] = <<>>
                  /\ \A k \in 1 .. n :
                       acc[k] = AddGap(acc[k - 1], InOrder(gone)[k], InOrder(gone)[k], "pruned")
                  /\ ReportedGaps(gone) = acc[n]
<1> DEFINE Op(x, i) == AddGap(x, InOrder(gone)[i], InOrder(gone)[i], "pruned")
           base == <<>>
           Folds(h, m) == h = [s \in SUBSET (1 .. m) |->
                                 IF s = {} THEN base ELSE Op(h[s \ {Max(s)}], Max(s))]
<1>1. ReportedGaps(gone) = (CHOOSE h : Folds(h, n))[1 .. n]
  BY DEF ReportedGaps, FoldLeft, MapThenFoldSet
<1> HIDE DEF Op, base
<1>2. \E h : Folds(h, n)
  <2> DEFINE T == {m \in 0 .. n : \E h : Folds(h, m)}
  <2>1. 0 \in T
    <3>1. 1 .. 0 = {}
      OBVIOUS
    <3>2. \A s \in SUBSET (1 .. 0) : s = {}
      BY <3>1
    <3> DEFINE g == [s \in SUBSET (1 .. 0) |-> base]
    <3>3. g = [s \in SUBSET (1 .. 0) |->
                 IF s = {} THEN base ELSE Op(g[s \ {Max(s)}], Max(s))]
      BY <3>2
    <3> HIDE DEF g
    <3>4. \E h : Folds(h, 0)
      BY <3>3, Zenon
    <3>5. 0 \in 0 .. n
      OBVIOUS
    <3> QED BY <3>4, <3>5, Zenon
  <2>2. ASSUME NEW m \in 0 .. n - 1, m \in T PROVE m + 1 \in T
    <3>1. PICK h : Folds(h, m)
      BY <2>2
    <3> DEFINE g == [s \in SUBSET (1 .. m + 1) |->
                       IF m + 1 \in s THEN Op(h[s \ {m + 1}], m + 1) ELSE h[s]]
    <3>2. ASSUME NEW s \in SUBSET (1 .. m + 1)
          PROVE  g[s] = IF s = {} THEN base ELSE Op(g[s \ {Max(s)}], Max(s))
      <4>1. CASE m + 1 \in s
        <5>1. Max(s) = m + 1 /\ s \ {m + 1} \in SUBSET (1 .. m)
          BY <4>1, MaxUpTo
        <5>2. s \ {m + 1} \in SUBSET (1 .. m + 1) /\ m + 1 \notin s \ {m + 1}
          OBVIOUS
        <5>3. g[s \ {m + 1}] = h[s \ {m + 1}]
          BY <5>2
        <5>4. s # {}
          BY <4>1
        <5> QED BY <4>1, <5>1, <5>3, <5>4
      <4>2. CASE m + 1 \notin s
        <5>1. s \in SUBSET (1 .. m)
          BY <4>2
        <5>2. g[s] = h[s]
          BY <4>2
        <5>3. h[s] = IF s = {} THEN base ELSE Op(h[s \ {Max(s)}], Max(s))
          BY <3>1, <5>1
        <5>4. s \ {Max(s)} \in SUBSET (1 .. m + 1) /\ m + 1 \notin s \ {Max(s)}
          BY <4>2
        <5>5. g[s \ {Max(s)}] = h[s \ {Max(s)}]
          BY <5>4
        <5> QED BY <5>2, <5>3, <5>5
      <4> QED BY <4>1, <4>2
    <3> HIDE DEF g
    <3>3. g = [s \in SUBSET (1 .. m + 1) |->
                 IF s = {} THEN base ELSE Op(g[s \ {Max(s)}], Max(s))]
      <4>1. g = [s \in SUBSET (1 .. m + 1) |-> g[s]]
        BY DEF g
      <4> QED BY <4>1, <3>2
    <3>4. Folds(g, m + 1)
      BY <3>3, Zenon
    <3>5. m + 1 \in 0 .. n
      OBVIOUS
    <3>6. \E x : Folds(x, m + 1)
      BY <3>4, Zenon
    <3> QED BY <3>5, <3>6
  <2> HIDE DEF T
  <2>3. \A k \in 0 .. n : k \in T
    BY <2>1, <2>2, Upto, Zenon
  <2>4. n \in T
    BY <2>3
  <2> QED BY <2>4 DEF T
<1>3. PICK f : f = (CHOOSE h : Folds(h, n)) /\ Folds(f, n)
  <2>1. Folds((CHOOSE h : Folds(h, n)), n)
    BY <1>2
  <2> QED BY <2>1
<1> DEFINE acc == [k \in 0 .. n |-> f[1 .. k]]
<1>4. acc[0] = base
  <2>1. 1 .. 0 = {} /\ 1 .. 0 \in SUBSET (1 .. n) /\ acc[0] = f[1 .. 0]
    OBVIOUS
  <2>2. f[1 .. 0] = base
    BY <1>3, <2>1
  <2> QED BY <2>1, <2>2
<1>5. ASSUME NEW k \in 1 .. n PROVE acc[k] = Op(acc[k - 1], k)
  <2>1. 1 .. k \in SUBSET (1 .. n) /\ 1 .. k # {} /\ (1 .. k) \ {k} = 1 .. k - 1
    OBVIOUS
  <2>2. Max(1 .. k) = k
    <3>1. 1 .. k \subseteq Int /\ k \in 1 .. k /\ \A x \in 1 .. k : x <= k
      OBVIOUS
    <3> HIDE DEF acc
    <3> QED BY <3>1, MaxIs
  <2>3. acc[k - 1] = f[1 .. k - 1] /\ acc[k] = f[1 .. k]
    OBVIOUS
  <2>4. f[1 .. k] = Op(f[(1 .. k) \ {k}], k)
    <3> HIDE DEF acc
    <3>1. f[1 .. k] = IF 1 .. k = {} THEN base
                      ELSE Op(f[(1 .. k) \ {Max(1 .. k)}], Max(1 .. k))
      BY <1>3, <2>1
    <3> QED BY <2>1, <2>2, <3>1
  <2> QED BY <2>1, <2>3, <2>4
<1>6. acc[n] = ReportedGaps(gone)
  BY <1>1, <1>3
<1> HIDE DEF acc
<1> QED BY <1>4, <1>5, <1>6 DEF Op, base

(* The merges of a prune, one reported gap after the other. *)
LEMMA RecordSteps ==
  ASSUME NEW R, NEW gone, NEW n \in Nat, DOMAIN ReportedGaps(gone) = 1 .. n
  PROVE  \E acc : /\ acc[0] = R
                  /\ \A k \in 1 .. n :
                       acc[k] = MergePrunedRange(acc[k - 1], ReportedGaps(gone)[k].from,
                                                 ReportedGaps(gone)[k].to)
                  /\ RecordPruned(R, gone) = acc[n]
<1> DEFINE Op(x, i) == MergePrunedRange(x, ReportedGaps(gone)[i].from, ReportedGaps(gone)[i].to)
           base == R
           Folds(h, m) == h = [s \in SUBSET (1 .. m) |->
                                 IF s = {} THEN base ELSE Op(h[s \ {Max(s)}], Max(s))]
<1>1. RecordPruned(R, gone) = (CHOOSE h : Folds(h, n))[1 .. n]
  BY DEF RecordPruned, FoldLeft, MapThenFoldSet
<1> HIDE DEF Op, base
<1>2. \E h : Folds(h, n)
  <2> DEFINE T == {m \in 0 .. n : \E h : Folds(h, m)}
  <2>1. 0 \in T
    <3>1. 1 .. 0 = {}
      OBVIOUS
    <3>2. \A s \in SUBSET (1 .. 0) : s = {}
      BY <3>1
    <3> DEFINE g == [s \in SUBSET (1 .. 0) |-> base]
    <3>3. g = [s \in SUBSET (1 .. 0) |->
                 IF s = {} THEN base ELSE Op(g[s \ {Max(s)}], Max(s))]
      BY <3>2
    <3> HIDE DEF g
    <3>4. \E h : Folds(h, 0)
      BY <3>3, Zenon
    <3>5. 0 \in 0 .. n
      OBVIOUS
    <3> QED BY <3>4, <3>5, Zenon
  <2>2. ASSUME NEW m \in 0 .. n - 1, m \in T PROVE m + 1 \in T
    <3>1. PICK h : Folds(h, m)
      BY <2>2
    <3> DEFINE g == [s \in SUBSET (1 .. m + 1) |->
                       IF m + 1 \in s THEN Op(h[s \ {m + 1}], m + 1) ELSE h[s]]
    <3>2. ASSUME NEW s \in SUBSET (1 .. m + 1)
          PROVE  g[s] = IF s = {} THEN base ELSE Op(g[s \ {Max(s)}], Max(s))
      <4>1. CASE m + 1 \in s
        <5>1. Max(s) = m + 1 /\ s \ {m + 1} \in SUBSET (1 .. m)
          BY <4>1, MaxUpTo
        <5>2. s \ {m + 1} \in SUBSET (1 .. m + 1) /\ m + 1 \notin s \ {m + 1}
          OBVIOUS
        <5>3. g[s \ {m + 1}] = h[s \ {m + 1}]
          BY <5>2
        <5>4. s # {}
          BY <4>1
        <5> QED BY <4>1, <5>1, <5>3, <5>4
      <4>2. CASE m + 1 \notin s
        <5>1. s \in SUBSET (1 .. m)
          BY <4>2
        <5>2. g[s] = h[s]
          BY <4>2
        <5>3. h[s] = IF s = {} THEN base ELSE Op(h[s \ {Max(s)}], Max(s))
          BY <3>1, <5>1
        <5>4. s \ {Max(s)} \in SUBSET (1 .. m + 1) /\ m + 1 \notin s \ {Max(s)}
          BY <4>2
        <5>5. g[s \ {Max(s)}] = h[s \ {Max(s)}]
          BY <5>4
        <5> QED BY <5>2, <5>3, <5>5
      <4> QED BY <4>1, <4>2
    <3> HIDE DEF g
    <3>3. g = [s \in SUBSET (1 .. m + 1) |->
                 IF s = {} THEN base ELSE Op(g[s \ {Max(s)}], Max(s))]
      <4>1. g = [s \in SUBSET (1 .. m + 1) |-> g[s]]
        BY DEF g
      <4> QED BY <4>1, <3>2
    <3>4. Folds(g, m + 1)
      BY <3>3, Zenon
    <3>5. m + 1 \in 0 .. n
      OBVIOUS
    <3>6. \E x : Folds(x, m + 1)
      BY <3>4, Zenon
    <3> QED BY <3>5, <3>6
  <2> HIDE DEF T
  <2>3. \A k \in 0 .. n : k \in T
    BY <2>1, <2>2, Upto, Zenon
  <2>4. n \in T
    BY <2>3
  <2> QED BY <2>4 DEF T
<1>3. PICK f : f = (CHOOSE h : Folds(h, n)) /\ Folds(f, n)
  <2>1. Folds((CHOOSE h : Folds(h, n)), n)
    BY <1>2
  <2> QED BY <2>1
<1> DEFINE acc == [k \in 0 .. n |-> f[1 .. k]]
<1>4. acc[0] = base
  <2>1. 1 .. 0 = {} /\ 1 .. 0 \in SUBSET (1 .. n) /\ acc[0] = f[1 .. 0]
    OBVIOUS
  <2>2. f[1 .. 0] = base
    BY <1>3, <2>1
  <2> QED BY <2>1, <2>2
<1>5. ASSUME NEW k \in 1 .. n PROVE acc[k] = Op(acc[k - 1], k)
  <2>1. 1 .. k \in SUBSET (1 .. n) /\ 1 .. k # {} /\ (1 .. k) \ {k} = 1 .. k - 1
    OBVIOUS
  <2>2. Max(1 .. k) = k
    <3>1. 1 .. k \subseteq Int /\ k \in 1 .. k /\ \A x \in 1 .. k : x <= k
      OBVIOUS
    <3> HIDE DEF acc
    <3> QED BY <3>1, MaxIs
  <2>3. acc[k - 1] = f[1 .. k - 1] /\ acc[k] = f[1 .. k]
    OBVIOUS
  <2>4. f[1 .. k] = Op(f[(1 .. k) \ {k}], k)
    <3> HIDE DEF acc
    <3>1. f[1 .. k] = IF 1 .. k = {} THEN base
                      ELSE Op(f[(1 .. k) \ {Max(1 .. k)}], Max(1 .. k))
      BY <1>3, <2>1
    <3> QED BY <2>1, <2>2, <3>1
  <2> QED BY <2>1, <2>3, <2>4
<1>6. acc[n] = RecordPruned(R, gone)
  BY <1>1, <1>3
<1> HIDE DEF acc
<1> QED BY <1>4, <1>5, <1>6 DEF Op, base

(* The rows of a page, one after the other. *)
Walked(acc, q, hidden, joins) ==
  LET g == AddMissingGaps(acc.gaps, ranges, acc.at + 1, q - 1)
  IN  [gaps |-> IF q \in hidden THEN Report(g, q, joins) ELSE g, at |-> q]

LEMMA WalkSteps ==
  ASSUME NEW gaps, NEW start, NEW rows, NEW hidden, NEW joins,
         NEW n \in Nat, DOMAIN InOrder(rows) = 1 .. n
  PROVE  \E acc : /\ acc[0] = [gaps |-> gaps, at |-> start]
                  /\ \A k \in 1 .. n :
                       acc[k] = Walked(acc[k - 1], InOrder(rows)[k], hidden, joins)
                  /\ WalkRows(gaps, start, rows, hidden, joins) = acc[n]
<1> DEFINE Op(x, i) == Walked(x, InOrder(rows)[i], hidden, joins)
           base == [gaps |-> gaps, at |-> start]
           Folds(h, m) == h = [s \in SUBSET (1 .. m) |->
                                 IF s = {} THEN base ELSE Op(h[s \ {Max(s)}], Max(s))]
<1>1. WalkRows(gaps, start, rows, hidden, joins) = (CHOOSE h : Folds(h, n))[1 .. n]
  BY DEF WalkRows, FoldLeft, MapThenFoldSet, Walked
<1> HIDE DEF Op, base
<1>2. \E h : Folds(h, n)
  <2> DEFINE T == {m \in 0 .. n : \E h : Folds(h, m)}
  <2>1. 0 \in T
    <3>1. 1 .. 0 = {}
      OBVIOUS
    <3>2. \A s \in SUBSET (1 .. 0) : s = {}
      BY <3>1
    <3> DEFINE g == [s \in SUBSET (1 .. 0) |-> base]
    <3>3. g = [s \in SUBSET (1 .. 0) |->
                 IF s = {} THEN base ELSE Op(g[s \ {Max(s)}], Max(s))]
      BY <3>2
    <3> HIDE DEF g
    <3>4. \E h : Folds(h, 0)
      BY <3>3, Zenon
    <3>5. 0 \in 0 .. n
      OBVIOUS
    <3> QED BY <3>4, <3>5, Zenon
  <2>2. ASSUME NEW m \in 0 .. n - 1, m \in T PROVE m + 1 \in T
    <3>1. PICK h : Folds(h, m)
      BY <2>2
    <3> DEFINE g == [s \in SUBSET (1 .. m + 1) |->
                       IF m + 1 \in s THEN Op(h[s \ {m + 1}], m + 1) ELSE h[s]]
    <3>2. ASSUME NEW s \in SUBSET (1 .. m + 1)
          PROVE  g[s] = IF s = {} THEN base ELSE Op(g[s \ {Max(s)}], Max(s))
      <4>1. CASE m + 1 \in s
        <5>1. Max(s) = m + 1 /\ s \ {m + 1} \in SUBSET (1 .. m)
          BY <4>1, MaxUpTo
        <5>2. s \ {m + 1} \in SUBSET (1 .. m + 1) /\ m + 1 \notin s \ {m + 1}
          OBVIOUS
        <5>3. g[s \ {m + 1}] = h[s \ {m + 1}]
          BY <5>2
        <5>4. s # {}
          BY <4>1
        <5> QED BY <4>1, <5>1, <5>3, <5>4
      <4>2. CASE m + 1 \notin s
        <5>1. s \in SUBSET (1 .. m)
          BY <4>2
        <5>2. g[s] = h[s]
          BY <4>2
        <5>3. h[s] = IF s = {} THEN base ELSE Op(h[s \ {Max(s)}], Max(s))
          BY <3>1, <5>1
        <5>4. s \ {Max(s)} \in SUBSET (1 .. m + 1) /\ m + 1 \notin s \ {Max(s)}
          BY <4>2
        <5>5. g[s \ {Max(s)}] = h[s \ {Max(s)}]
          BY <5>4
        <5> QED BY <5>2, <5>3, <5>5
      <4> QED BY <4>1, <4>2
    <3> HIDE DEF g
    <3>3. g = [s \in SUBSET (1 .. m + 1) |->
                 IF s = {} THEN base ELSE Op(g[s \ {Max(s)}], Max(s))]
      <4>1. g = [s \in SUBSET (1 .. m + 1) |-> g[s]]
        BY DEF g
      <4> QED BY <4>1, <3>2
    <3>4. Folds(g, m + 1)
      BY <3>3, Zenon
    <3>5. m + 1 \in 0 .. n
      OBVIOUS
    <3>6. \E x : Folds(x, m + 1)
      BY <3>4, Zenon
    <3> QED BY <3>5, <3>6
  <2> HIDE DEF T
  <2>3. \A k \in 0 .. n : k \in T
    BY <2>1, <2>2, Upto, Zenon
  <2>4. n \in T
    BY <2>3
  <2> QED BY <2>4 DEF T
<1>3. PICK f : f = (CHOOSE h : Folds(h, n)) /\ Folds(f, n)
  <2>1. Folds((CHOOSE h : Folds(h, n)), n)
    BY <1>2
  <2> QED BY <2>1
<1> DEFINE acc == [k \in 0 .. n |-> f[1 .. k]]
<1>4. acc[0] = base
  <2>1. 1 .. 0 = {} /\ 1 .. 0 \in SUBSET (1 .. n) /\ acc[0] = f[1 .. 0]
    OBVIOUS
  <2>2. f[1 .. 0] = base
    BY <1>3, <2>1
  <2> QED BY <2>1, <2>2
<1>5. ASSUME NEW k \in 1 .. n PROVE acc[k] = Op(acc[k - 1], k)
  <2>1. 1 .. k \in SUBSET (1 .. n) /\ 1 .. k # {} /\ (1 .. k) \ {k} = 1 .. k - 1
    OBVIOUS
  <2>2. Max(1 .. k) = k
    <3>1. 1 .. k \subseteq Int /\ k \in 1 .. k /\ \A x \in 1 .. k : x <= k
      OBVIOUS
    <3> HIDE DEF acc
    <3> QED BY <3>1, MaxIs
  <2>3. acc[k - 1] = f[1 .. k - 1] /\ acc[k] = f[1 .. k]
    OBVIOUS
  <2>4. f[1 .. k] = Op(f[(1 .. k) \ {k}], k)
    <3> HIDE DEF acc
    <3>1. f[1 .. k] = IF 1 .. k = {} THEN base
                      ELSE Op(f[(1 .. k) \ {Max(1 .. k)}], Max(1 .. k))
      BY <1>3, <2>1
    <3> QED BY <2>1, <2>2, <3>1
  <2> QED BY <2>1, <2>3, <2>4
<1>6. acc[n] = WalkRows(gaps, start, rows, hidden, joins)
  BY <1>1, <1>3
<1> HIDE DEF acc
<1> QED BY <1>4, <1>5, <1>6 DEF Op, base

-----------------------------------------------------------------------------
(* Enumerations. *)

(* A set of positions in order has each of them once, from the least to     *)
(* the greatest.                                                            *)
LEMMA InOrderIs ==
  ASSUME NEW S, S \subseteq Nat, IsFiniteSet(S), NEW n, n = Cardinality(S)
  PROVE  /\ n \in Nat
         /\ InOrder(S) \in [1 .. n -> S]
         /\ \A q \in S : \E i \in 1 .. n : InOrder(S)[i] = q
         /\ \A i, j \in 1 .. n : i < j => InOrder(S)[i] < InOrder(S)[j]
<1> DEFINE Below(x) == {y \in S : y < x}
           rank == [x \in S |-> Cardinality(Below(x)) + 1]
<1>1. n \in Nat
  BY FS_CardinalityType
<1>2. ASSUME NEW x \in S
      PROVE  /\ IsFiniteSet(Below(x))
             /\ Cardinality(Below(x)) \in Nat
             /\ Cardinality(Below(x)) < n
  <2>1. IsFiniteSet(S \ {x}) /\ Cardinality(S \ {x}) = n - 1
    BY FS_RemoveElement
  <2>2. Below(x) \subseteq S \ {x}
    OBVIOUS
  <2> HIDE DEF Below
  <2>3. IsFiniteSet(Below(x)) /\ Cardinality(Below(x)) <= n - 1
    BY <2>1, <2>2, FS_Subset
  <2>4. Cardinality(Below(x)) \in Nat
    BY <2>3, FS_CardinalityType
  <2> QED BY <1>1, <2>3, <2>4
<1>3. ASSUME NEW x \in S, NEW y \in S, x < y
      PROVE  Cardinality(Below(x)) < Cardinality(Below(y))
  <2>1. Below(x) \subseteq Below(y) \ {x} /\ x \in Below(y)
    <3>1. x \in Nat /\ y \in Nat
      OBVIOUS
    <3>2. ASSUME NEW z \in S, z < x PROVE z < y /\ z # x
      <4>1. z \in Nat
        OBVIOUS
      <4> QED BY <1>3, <3>1, <3>2, <4>1
    <3> QED BY <1>3, <3>1, <3>2
  <2>2. IsFiniteSet(Below(y)) /\ Cardinality(Below(y)) \in Nat /\ Cardinality(Below(x)) \in Nat
    BY <1>2
  <2> HIDE DEF Below
  <2>3. IsFiniteSet(Below(y) \ {x}) /\ Cardinality(Below(y) \ {x}) = Cardinality(Below(y)) - 1
    BY <2>1, <2>2, FS_RemoveElement
  <2>4. Cardinality(Below(x)) <= Cardinality(Below(y) \ {x})
    BY <2>1, <2>3, FS_Subset
  <2> QED BY <2>2, <2>3, <2>4
<1> HIDE DEF Below
<1>4. rank \in [S -> 1 .. n]
  BY <1>1, <1>2
<1>5. \A x, y \in S : x < y => rank[x] < rank[y]
  BY <1>2, <1>3
<1>6. rank \in Injection(S, 1 .. n)
  <2>1. ASSUME NEW x \in S, NEW y \in S, rank[x] = rank[y] PROVE x = y
    <3>1. x \in Nat /\ y \in Nat /\ rank[x] \in Nat /\ rank[y] \in Nat
      BY <1>4
    <3> HIDE DEF rank
    <3>2. ~(x < y) /\ ~(y < x)
      BY <1>5, <2>1, <3>1
    <3> QED BY <3>1, <3>2
  <2> HIDE DEF rank
  <2> QED BY <1>4, <2>1 DEF Injection, IsInjective
<1>7. rank \in Surjection(S, 1 .. n)
  <2>1. IsFiniteSet(1 .. n) /\ Cardinality(1 .. n) = n
    BY <1>1, FS_Interval
  <2> HIDE DEF rank
  <2> QED BY <1>6, <2>1, FS_Injection
<1>8. DOMAIN InOrder(S) = 1 .. n
  BY DEF InOrder, OrderedBy
<1>9. ASSUME NEW i \in 1 .. n PROVE InOrder(S)[i] \in S /\ rank[InOrder(S)[i]] = i
  <2>1. PICK x \in S : rank[x] = i
    BY <1>7 DEF Surjection
  <2>2. Cardinality(Below(x)) = i - 1
    BY <1>2, <2>1
  <2>3. InOrder(S)[i] = CHOOSE q \in S : Cardinality(Below(q)) = i - 1
    BY DEF InOrder, OrderedBy, Below
  <2>4. InOrder(S)[i] \in S /\ Cardinality(Below(InOrder(S)[i])) = i - 1
    BY <2>2, <2>3, Zenon
  <2> QED BY <2>4
<1> HIDE DEF rank
<1>10. InOrder(S) \in [1 .. n -> S]
  <2> DEFINE E(i) == CHOOSE q \in S : Cardinality({y \in S : y < q}) = i - 1
  <2>1. InOrder(S) = [i \in 1 .. n |-> E(i)]
    BY DEF InOrder, OrderedBy
  <2> HIDE DEF E
  <2>2. InOrder(S) = [i \in 1 .. n |-> InOrder(S)[i]]
    BY <2>1
  <2> QED BY <1>9, <2>2
<1>11. ASSUME NEW q \in S PROVE \E i \in 1 .. n : InOrder(S)[i] = q
  <2>1. rank[q] \in 1 .. n
    BY <1>4
  <2>2. InOrder(S)[rank[q]] \in S /\ rank[InOrder(S)[rank[q]]] = rank[q]
    BY <1>9, <2>1
  <2>3. InOrder(S)[rank[q]] = q
    BY <1>6, <2>2 DEF Injection, IsInjective
  <2> QED BY <2>1, <2>3
<1>12. ASSUME NEW i \in 1 .. n, NEW j \in 1 .. n, i < j
       PROVE  InOrder(S)[i] < InOrder(S)[j]
  <2> DEFINE x == InOrder(S)[i]
             y == InOrder(S)[j]
  <2>1. x \in S /\ y \in S /\ rank[x] = i /\ rank[y] = j
    BY <1>9
  <2> HIDE DEF x, y
  <2>2. ~(y < x) /\ x # y
    BY <1>5, <1>12, <2>1
  <2>3. x < y
    BY <2>1, <2>2
  <2> QED BY <2>3 DEF x, y
<1> QED BY <1>1, <1>10, <1>11, <1>12

-----------------------------------------------------------------------------
(* Merging. *)

Positions(R) == UNION {Span(r) : r \in R}
Row == {r \in [from : Nat, to : Nat] : 1 <= r.from /\ r.from <= r.to}

(* No two rows of pruned_ranges overlap or touch. *)
Apart(R) ==
  /\ R \subseteq Row
  /\ \A r, s \in R : r # s => r.to + 1 < s.from \/ s.to + 1 < r.from

LEMMA RowIs ==
  ASSUME NEW r \in Row
  PROVE  /\ r \in [from : Nat, to : Nat] /\ r.from \in Nat /\ r.to \in Nat
         /\ 1 <= r.from /\ r.from <= r.to
         /\ r = [from |-> r.from, to |-> r.to]
         /\ \A p : p \in Span(r) <=> p \in Int /\ r.from <= p /\ p <= r.to
BY DEF Row, Span

LEMMA InPositions ==
  ASSUME NEW R, R \subseteq Row, NEW p
  PROVE  p \in Positions(R) <=> p \in Nat /\ \E r \in R : r.from <= p /\ p <= r.to
<1>1. \A r \in R : r \in Row
  OBVIOUS
<1> QED BY <1>1, RowIs DEF Positions

(* The rows near a new range stick out of it by at most one on each side.   *)
LEMMA NearEdges ==
  ASSUME NEW R, Apart(R), NEW first \in Nat, NEW last \in Nat, first <= last
  PROVE  \E a, b \in Nat :
           LET near == Overlapping(R, first - 1, last + 1)
           IN  /\ a <= first /\ last <= b
               /\ a = first \/ \E r \in near : r.from = a
               /\ b = last \/ \E r \in near : r.to = b
               /\ \A r \in near : a <= r.from /\ r.to <= b
<1> DEFINE near == Overlapping(R, first - 1, last + 1)
<1>1. \A r \in near : r \in R /\ r.from \in Nat /\ r.to \in Nat /\ r.from <= r.to
                      /\ r.to >= first - 1 /\ r.from <= last + 1
  BY RowIs DEF Apart, Overlapping
<1>2. \A r, s \in near : r # s => r.to + 1 < s.from \/ s.to + 1 < r.from
  BY <1>1 DEF Apart
<1> HIDE DEF near
<1>3. \E a \in Nat : /\ a <= first
                     /\ a = first \/ \E r \in near : r.from = a
                     /\ \A r \in near : a <= r.from
  <2>1. CASE \A r \in near : first <= r.from
    BY <2>1
  <2>2. CASE \E r \in near : r.from < first
    <3>1. PICK r \in near : r.from < first
      BY <2>2
    <3>2. \A s \in near : r.from <= s.from
      BY <1>1, <1>2, <3>1
    <3> QED BY <1>1, <3>1, <3>2
  <2> QED BY <1>1, <2>1, <2>2
<1>4. \E b \in Nat : /\ last <= b
                     /\ b = last \/ \E r \in near : r.to = b
                     /\ \A r \in near : r.to <= b
  <2>1. CASE \A r \in near : r.to <= last
    BY <2>1
  <2>2. CASE \E r \in near : r.to > last
    <3>1. PICK r \in near : r.to > last
      BY <2>2
    <3>2. \A s \in near : s.to <= r.to
      BY <1>1, <1>2, <3>1
    <3> QED BY <1>1, <3>1, <3>2
  <2> QED BY <1>1, <2>1, <2>2
<1>5. PICK a \in Nat : /\ a <= first
                       /\ a = first \/ \E r \in near : r.from = a
                       /\ \A r \in near : a <= r.from
  BY <1>3
<1>6. PICK b \in Nat : /\ last <= b
                       /\ b = last \/ \E r \in near : r.to = b
                       /\ \A r \in near : r.to <= b
  BY <1>4
<1> QED BY <1>5, <1>6 DEF near

(* Widening ends after the first round: what sticks out of the range so     *)
(* found touches none of the other rows.                                    *)
LEMMA WidenedIs ==
  ASSUME NEW R, Apart(R), NEW first \in Nat, NEW last \in Nat, 1 <= first, first <= last,
         NEW a \in Nat, NEW b \in Nat, a <= first, last <= b,
         a = first \/ \E r \in Overlapping(R, first - 1, last + 1) : r.from = a,
         b = last \/ \E r \in Overlapping(R, first - 1, last + 1) : r.to = b,
         \A r \in Overlapping(R, first - 1, last + 1) : a <= r.from /\ r.to <= b
  PROVE  /\ Widened(R, first, last) = [from |-> a, to |-> b]
         /\ \A r \in Overlapping(R, a - 1, b + 1) : a <= r.from /\ r.to <= b
<1> DEFINE near == Overlapping(R, first - 1, last + 1)
           froms == {first} \cup {r.from : r \in R}
           tos == {last} \cup {r.to : r \in R}
           wide == {i \in [from : froms, to : tos] :
                      /\ i.from <= first /\ last <= i.to
                      /\ \A r \in Overlapping(R, i.from - 1, i.to + 1) :
                            i.from <= r.from /\ r.to <= i.to}
           all == [from |-> a, to |-> b]
<1>0. \A r \in R : r.from \in Nat /\ r.to \in Nat /\ r.from <= r.to
  BY RowIs DEF Apart
<1>1. ASSUME NEW r \in Overlapping(R, a - 1, b + 1) PROVE a <= r.from /\ r.to <= b
  <2>1. r \in R /\ r.to >= a - 1 /\ r.from <= b + 1 /\ r.from \in Nat /\ r.to \in Nat
        /\ r.from <= r.to
    BY <1>0 DEF Overlapping
  <2>2. CASE r.to >= first - 1 /\ r.from <= last + 1
    BY <2>1, <2>2 DEF Overlapping
  <2>3. CASE ~(r.to >= first - 1)
    <3>1. a # first
      BY <2>1, <2>3
    <3>2. PICK x \in near : x.from = a
      BY <3>1
    <3>3. x \in R /\ x.to >= first - 1 /\ x.from \in Nat /\ x.to \in Nat /\ x # r
      BY <1>0, <2>3 DEF Overlapping
    <3>4. r.to + 1 < x.from \/ x.to + 1 < r.from
      BY <2>1, <3>3 DEF Apart
    <3> QED BY <2>1, <2>3, <3>2, <3>3, <3>4
  <2>4. CASE ~(r.from <= last + 1)
    <3>1. b # last
      BY <2>1, <2>4
    <3>2. PICK x \in near : x.to = b
      BY <3>1
    <3>3. x \in R /\ x.from <= last + 1 /\ x.from \in Nat /\ x.to \in Nat /\ x # r
      BY <1>0, <2>4 DEF Overlapping
    <3>4. r.to + 1 < x.from \/ x.to + 1 < r.from
      BY <2>1, <3>3 DEF Apart
    <3> QED BY <2>1, <2>4, <3>2, <3>3, <3>4
  <2> QED BY <2>2, <2>3, <2>4
<1>2. a \in froms /\ b \in tos
  BY DEF Overlapping
<1>3. all \in wide
  BY <1>1, <1>2
<1>4. froms \subseteq Nat /\ tos \subseteq Nat
  BY <1>0
<1>5. ASSUME NEW i \in wide PROVE i.from \in Nat /\ i.to \in Nat /\ i.from <= a /\ b <= i.to
  <2>1. i.from \in Nat /\ i.to \in Nat /\ i.from <= first /\ last <= i.to
    BY <1>4
  <2>2. \A r \in near : r \in Overlapping(R, i.from - 1, i.to + 1)
    BY <1>0, <2>1 DEF Overlapping
  <2>3. \A r \in near : i.from <= r.from /\ r.to <= i.to
    BY <2>2
  <2> QED BY <2>1, <2>3
<1> DEFINE lows == {i.from : i \in wide}
           highs == {i.to : i \in wide}
<1>6. Widened(R, first, last) = [from |-> Max(lows), to |-> Min(highs)]
  BY DEF Widened
<1>7. all.from = a /\ all.to = b
  OBVIOUS
<1> HIDE DEF wide, all
<1>8. lows \subseteq Int /\ a \in lows /\ \A x \in lows : x <= a
  BY <1>3, <1>5, <1>7
<1>9. highs \subseteq Int /\ b \in highs /\ \A x \in highs : b <= x
  BY <1>3, <1>5, <1>7
<1> HIDE DEF lows, highs
<1>10. Max(lows) = a
  BY <1>8, MaxIs
<1>11. Min(highs) = b
  BY <1>9, MinIs
<1> QED BY <1>1, <1>6, <1>10, <1>11

(* One range replaces every range it touches, and nothing is lost or        *)
(* invented.                                                                *)
LEMMA MergeIs ==
  ASSUME NEW R, Apart(R), NEW first \in Nat, NEW last \in Nat, 1 <= first, first <= last
  PROVE  /\ Apart(MergePrunedRange(R, first, last))
         /\ Positions(MergePrunedRange(R, first, last)) = Positions(R) \cup first .. last
<1> DEFINE near == Overlapping(R, first - 1, last + 1)
<1>1. PICK a \in Nat, b \in Nat :
        /\ a <= first /\ last <= b
        /\ a = first \/ \E r \in near : r.from = a
        /\ b = last \/ \E r \in near : r.to = b
        /\ \A r \in near : a <= r.from /\ r.to <= b
  BY NearEdges, Zenon
<1> DEFINE new == [from |-> a, to |-> b]
           kept == R \ Overlapping(R, a - 1, b + 1)
           S == kept \cup {new}
<1>2. /\ Widened(R, first, last) = new
      /\ \A r \in Overlapping(R, a - 1, b + 1) : a <= r.from /\ r.to <= b
  BY <1>1, WidenedIs
<1>3. new.from = a /\ new.to = b
  OBVIOUS
<1>4. MergePrunedRange(R, first, last) = S
  BY <1>2, <1>3 DEF MergePrunedRange
<1>5. \A r \in R : r \in Row /\ r.from \in Nat /\ r.to \in Nat /\ 1 <= r.from /\ r.from <= r.to
  BY RowIs DEF Apart
<1>6. 1 <= a
  BY <1>1, <1>5 DEF Overlapping
<1>7. new \in Row
  BY <1>1, <1>6 DEF Row
<1>8. \A r \in kept : r \in R /\ (r.to + 1 < a \/ b + 1 < r.from)
  BY <1>5 DEF Overlapping
<1> HIDE DEF new
<1>9. Apart(S)
  <2>1. S \subseteq Row
    BY <1>5, <1>7
  <2>2. ASSUME NEW r \in S, NEW s \in S, r # s
        PROVE  r.to + 1 < s.from \/ s.to + 1 < r.from
    <3>1. CASE r \in kept /\ s \in kept
      BY <1>8, <2>2, <3>1 DEF Apart
    <3>2. CASE r = new /\ s \in kept
      BY <1>3, <1>8, <3>2
    <3>3. CASE s = new /\ r \in kept
      BY <1>3, <1>8, <3>3
    <3> HIDE DEF kept
    <3> QED BY <2>2, <3>1, <3>2, <3>3
  <2> HIDE DEF S
  <2> QED BY <2>1, <2>2 DEF Apart
<1>10. ASSUME NEW p \in Positions(S) PROVE p \in Positions(R) \cup first .. last
  <2>1. PICK r \in S : p \in Nat /\ r.from <= p /\ p <= r.to
    BY <1>9, InPositions DEF Apart
  <2>2. CASE r \in kept
    BY <1>5, <2>1, <2>2, InPositions
  <2>3. CASE r = new
    <3>1. p \in Nat /\ a <= p /\ p <= b
      BY <1>3, <2>1, <2>3
    <3>2. CASE p < first
      <4>1. PICK x \in near : x.from = a
        BY <1>1, <3>1, <3>2
      <4>2. x \in R /\ x.to >= first - 1 /\ x.from \in Nat /\ x.to \in Nat
        BY <1>5 DEF Overlapping
      <4>3. x.from <= p /\ p <= x.to
        BY <3>1, <3>2, <4>1, <4>2
      <4> QED BY <1>5, <3>1, <4>2, <4>3, InPositions
    <3>3. CASE p > last
      <4>1. PICK x \in near : x.to = b
        BY <1>1, <3>1, <3>3
      <4>2. x \in R /\ x.from <= last + 1 /\ x.from \in Nat /\ x.to \in Nat
        BY <1>5 DEF Overlapping
      <4>3. x.from <= p /\ p <= x.to
        BY <3>1, <3>3, <4>1, <4>2
      <4> QED BY <1>5, <3>1, <4>2, <4>3, InPositions
    <3>4. CASE first <= p /\ p <= last
      BY <3>1, <3>4
    <3> QED BY <3>1, <3>2, <3>3, <3>4
  <2> QED BY <2>2, <2>3
<1>11. ASSUME NEW p \in Positions(R) \cup first .. last PROVE p \in Positions(S)
  <2>0. S \subseteq Row /\ new \in S
    BY <1>9 DEF Apart
  <2>1. ASSUME p \in Nat, a <= p, p <= b PROVE p \in Positions(S)
    BY <1>3, <2>0, <2>1, InPositions
  <2>2. CASE p \in first .. last
    <3>1. p \in Nat /\ a <= p /\ p <= b
      BY <1>1, <2>2
    <3> QED BY <2>1, <3>1
  <2>3. CASE p \in Positions(R)
    <3>1. PICK r \in R : p \in Nat /\ r.from <= p /\ p <= r.to
      BY <1>5, <2>3, InPositions
    <3>2. CASE r \in kept
      <4>1. r \in S
        BY <3>2
      <4> QED BY <2>0, <3>1, <4>1, InPositions
    <3>3. CASE r \in Overlapping(R, a - 1, b + 1)
      <4>1. a <= p /\ p <= b
        BY <1>2, <1>5, <3>1, <3>3
      <4> QED BY <2>1, <3>1, <4>1
    <3> QED BY <3>2, <3>3
  <2> QED BY <2>2, <2>3
<1> HIDE DEF S
<1>12. Positions(S) = Positions(R) \cup first .. last
  BY <1>10, <1>11
<1> QED BY <1>4, <1>9, <1>12

-----------------------------------------------------------------------------
(* Gap lists. *)

Reasons == {"pruned", "filtered", "unavailable"}
Gap == {g \in [from : Nat, to : Nat, reason : Reasons] : g.from <= g.to}

(* The positions a list reports for a reason. *)
Reported(g, reason) ==
  {p \in Nat : \E i \in 1 .. Len(g) : g[i].reason = reason /\ g[i].from <= p /\ p <= g[i].to}

(* The gaps come in order; and no two that follow each other could be one.  *)
Ascends(g) == \A i \in 1 .. Len(g) - 1 : g[i].to < g[i + 1].from
Tight(g) == \A i \in 1 .. Len(g) - 1 : g[i].to + 1 = g[i + 1].from => g[i].reason # g[i + 1].reason
EndsBy(g, at) == \A i \in 1 .. Len(g) : g[i].to <= at

LEMMA GapIs ==
  ASSUME NEW g \in Gap
  PROVE  /\ g \in [from : Nat, to : Nat, reason : Reasons]
         /\ g.from \in Nat /\ g.to \in Nat /\ g.reason \in Reasons /\ g.from <= g.to
BY DEF Gap

(* What a new gap at the end of a list adds. *)
LEMMA AppendedGap ==
  ASSUME NEW g \in Seq(Gap), NEW from \in Nat, NEW to \in Nat, from <= to,
         NEW reason \in Reasons, NEW h,
         h = Append(g, [from |-> from, to |-> to, reason |-> reason])
  PROVE  /\ h \in Seq(Gap)
         /\ \A o \in Reasons : Reported(h, o) = IF o = reason THEN Reported(g, o) \cup from .. to
                                               ELSE Reported(g, o)
         /\ Ascends(g) /\ EndsBy(g, from - 1) => Ascends(h) /\ EndsBy(h, to)
         /\ Tight(g) /\ (g = <<>> \/ g[Len(g)].to + 1 # from \/ g[Len(g)].reason # reason)
              => Tight(h)
<1> DEFINE x == [from |-> from, to |-> to, reason |-> reason]
           n == Len(g)
<1>1. x \in Gap /\ x.from = from /\ x.to = to /\ x.reason = reason
  BY DEF Gap
<1> HIDE DEF x
<1>2. h = Append(g, x)
  BY DEF x
<1>3. n \in Nat /\ Len(h) = n + 1 /\ h \in Seq(Gap)
      /\ (\A i \in 1 .. n : h[i] = g[i] /\ g[i] \in Gap) /\ h[n + 1] = x
  BY <1>1, <1>2
<1>4. \A i \in 1 .. n : g[i].from \in Nat /\ g[i].to \in Nat /\ g[i].reason \in Reasons
                       /\ g[i].from <= g[i].to
  BY <1>3, GapIs
<1>5. g # <<>> => n # 0
  BY <1>3
<1> HIDE DEF n
<1>6. ASSUME NEW o \in Reasons
      PROVE  Reported(h, o) = IF o = reason THEN Reported(g, o) \cup from .. to ELSE Reported(g, o)
  <2>1. ASSUME NEW p \in Nat
        PROVE  p \in Reported(h, o) <=> p \in Reported(g, o) \/ (o = reason /\ from <= p /\ p <= to)
    <3>1. (\E i \in 1 .. n + 1 : h[i].reason = o /\ h[i].from <= p /\ p <= h[i].to)
            <=> \/ \E i \in 1 .. n : g[i].reason = o /\ g[i].from <= p /\ p <= g[i].to
                \/ x.reason = o /\ x.from <= p /\ p <= x.to
      <4>1. \A i : i \in 1 .. n + 1 <=> i \in 1 .. n \/ i = n + 1
        BY <1>3
      <4> QED BY <1>3, <4>1
    <3> QED BY <1>1, <1>3, <3>1 DEF Reported, n
  <2>2. Reported(h, o) \subseteq Nat /\ Reported(g, o) \subseteq Nat
    BY DEF Reported
  <2>3. \A p : p \in from .. to <=> p \in Nat /\ from <= p /\ p <= to
    OBVIOUS
  <2> QED BY <2>1, <2>2, <2>3
<1>7. ASSUME Ascends(g), EndsBy(g, from - 1) PROVE Ascends(h) /\ EndsBy(h, to)
  <2>1. ASSUME NEW i \in 1 .. Len(h) - 1 PROVE h[i].to < h[i + 1].from
    <3>1. CASE i = n
      BY <1>1, <1>3, <1>4, <1>7, <2>1, <3>1 DEF EndsBy, n
    <3>2. CASE i # n
      <4>1. i \in 1 .. n - 1 /\ i + 1 \in 1 .. n /\ i \in 1 .. n
        BY <1>3, <2>1, <3>2
      <4> QED BY <1>3, <1>7, <4>1 DEF Ascends, n
    <3> QED BY <3>1, <3>2
  <2>2. ASSUME NEW i \in 1 .. Len(h) PROVE h[i].to <= to
    <3>1. CASE i = n + 1
      BY <1>1, <1>3, <3>1
    <3>2. CASE i # n + 1
      <4>1. i \in 1 .. n
        BY <1>3, <2>2, <3>2
      <4>2. g[i].to <= from - 1
        BY <1>7, <4>1 DEF EndsBy, n
      <4> QED BY <1>3, <1>4, <4>1, <4>2
    <3> QED BY <3>1, <3>2
  <2> QED BY <2>1, <2>2 DEF Ascends, EndsBy
<1>8. ASSUME Tight(g), g = <<>> \/ g[n].to + 1 # from \/ g[n].reason # reason PROVE Tight(h)
  <2> SUFFICES ASSUME NEW i \in 1 .. Len(h) - 1, h[i].to + 1 = h[i + 1].from
               PROVE  h[i].reason # h[i + 1].reason
    BY DEF Tight
  <2>1. CASE i = n
    <3>1. n # 0 /\ g # <<>> /\ h[i] = g[n] /\ h[i + 1] = x
      BY <1>3, <2>1 DEF n
    <3> QED BY <1>1, <1>8, <3>1
  <2>2. CASE i # n
    <3>1. i \in 1 .. n - 1 /\ i + 1 \in 1 .. n /\ i \in 1 .. n
      BY <1>3, <2>2
    <3> QED BY <1>3, <1>8, <3>1 DEF Tight, n
  <2> QED BY <2>1, <2>2
<1> QED BY <1>3, <1>6, <1>7, <1>8 DEF n

(* What a gap that is longer than before adds. *)
LEMMA LongerGap ==
  ASSUME NEW g \in Seq(Gap), g # <<>>, NEW to \in Nat, g[Len(g)].to < to,
         NEW h, h = [g EXCEPT ![Len(g)].to = to]
  PROVE  /\ h \in Seq(Gap)
         /\ \A o \in Reasons :
              Reported(h, o) = IF o = g[Len(g)].reason
                               THEN Reported(g, o) \cup g[Len(g)].to + 1 .. to
                               ELSE Reported(g, o)
         /\ Ascends(g) => Ascends(h)
         /\ EndsBy(g, to) => EndsBy(h, to)
         /\ Tight(g) => Tight(h)
<1> DEFINE n == Len(g)
           x == [g[n] EXCEPT !.to = to]
<1>1. n \in Nat /\ n # 0 /\ n \in 1 .. n /\ \A i \in 1 .. n : g[i] \in Gap
  OBVIOUS
<1>2. \A i \in 1 .. n : g[i].from \in Nat /\ g[i].to \in Nat /\ g[i].reason \in Reasons
                       /\ g[i].from <= g[i].to
  BY <1>1, GapIs
<1>3. g[n].to < to
  OBVIOUS
<1>4. x \in Gap /\ x.from = g[n].from /\ x.to = to /\ x.reason = g[n].reason
  <2>1. g[n] \in [from : Nat, to : Nat, reason : Reasons]
    BY <1>1, GapIs
  <2>2. g[n].from <= to /\ g[n].from \in Nat
    BY <1>1, <1>2, <1>3
  <2> QED BY <2>1, <2>2 DEF Gap
<1>5. h \in Seq(Gap) /\ Len(h) = n /\ h[n] = x /\ \A i \in 1 .. n : i # n => h[i] = g[i]
  <2>1. h = [g EXCEPT ![n] = x]
    OBVIOUS
  <2> HIDE DEF x
  <2>2. h = [i \in 1 .. n |-> IF i = n THEN x ELSE g[i]]
    <3>1. g \in [1 .. n -> Gap]
      OBVIOUS
    <3> QED BY ONLY <2>1, <3>1
  <2> HIDE DEF n
  <2>3. h \in [1 .. n -> Gap]
    BY <1>1, <1>4, <2>2
  <2>4. h \in Seq(Gap) /\ Len(h) = n
    BY <1>1, <2>3
  <2> QED BY <1>1, <2>2, <2>4
<1> HIDE DEF x
<1>6. ASSUME NEW o \in Reasons
      PROVE  Reported(h, o) = IF o = g[n].reason THEN Reported(g, o) \cup g[n].to + 1 .. to
                              ELSE Reported(g, o)
  <2> DEFINE r == g[n].reason
             f == g[n].from
             t == g[n].to
  <2>0. f \in Nat /\ t \in Nat /\ f <= t /\ t < to /\ x.from = f /\ x.to = to /\ x.reason = r
        /\ g[n].from = f /\ g[n].to = t /\ g[n].reason = r
    BY <1>1, <1>2, <1>3, <1>4
  <2> HIDE DEF r, f, t, n
  <2>1. ASSUME NEW p \in Nat
        PROVE  p \in Reported(h, o) <=> p \in Reported(g, o) \/ (o = r /\ t + 1 <= p /\ p <= to)
    <3>1. ASSUME p \in Reported(h, o)
          PROVE  p \in Reported(g, o) \/ (o = r /\ t + 1 <= p /\ p <= to)
      <4>1. PICK i \in 1 .. n : h[i].reason = o /\ h[i].from <= p /\ p <= h[i].to
        BY <1>5, <3>1 DEF Reported
      <4>2. CASE i = n
        <5>1. r = o /\ f <= p /\ p <= to
          BY <1>5, <2>0, <4>1, <4>2
        <5>2. CASE p <= t
          <6>1. g[n].reason = o /\ g[n].from <= p /\ p <= g[n].to /\ n \in 1 .. n
            BY <1>1, <2>0, <5>1, <5>2
          <6> QED BY <6>1 DEF Reported, n
        <5>3. CASE ~(p <= t)
          BY <2>0, <5>1, <5>3
        <5> QED BY <5>2, <5>3
      <4>3. CASE i # n
        BY <1>5, <4>1, <4>3 DEF Reported, n
      <4> QED BY <4>2, <4>3
    <3>2. ASSUME p \in Reported(g, o) PROVE p \in Reported(h, o)
      <4>1. PICK i \in 1 .. n : g[i].reason = o /\ g[i].from <= p /\ p <= g[i].to
        BY <3>2 DEF Reported, n
      <4>2. h[i].reason = o /\ h[i].from <= p /\ p <= h[i].to
        <5>1. CASE i = n
          BY <1>5, <2>0, <4>1, <5>1
        <5>2. CASE i # n
          BY <1>5, <4>1, <5>2
        <5> QED BY <5>1, <5>2
      <4> QED BY <1>5, <4>1, <4>2 DEF Reported
    <3>3. ASSUME o = r, t + 1 <= p, p <= to PROVE p \in Reported(h, o)
      <4>1. h[n].reason = o /\ h[n].from <= p /\ p <= h[n].to /\ n \in 1 .. n
        BY <1>1, <1>5, <2>0, <3>3
      <4> QED BY <1>5, <4>1 DEF Reported
    <3> QED BY <3>1, <3>2, <3>3
  <2>2. Reported(h, o) \subseteq Nat /\ Reported(g, o) \subseteq Nat
    BY DEF Reported
  <2>3. \A p : p \in t + 1 .. to <=> p \in Nat /\ t + 1 <= p /\ p <= to
    BY <2>0
  <2> QED BY <2>0, <2>1, <2>2, <2>3
<1> HIDE DEF n
<1>7. \A i \in 1 .. n : h[i].from = g[i].from /\ h[i].reason = g[i].reason
  BY <1>4, <1>5
<1>8. \A i \in 1 .. n - 1 : h[i].to = g[i].to /\ i \in 1 .. n /\ i + 1 \in 1 .. n
  BY <1>1, <1>5
<1>9. Ascends(g) => Ascends(h)
  BY <1>5, <1>7, <1>8 DEF Ascends, n
<1>10. Tight(g) => Tight(h)
  BY <1>5, <1>7, <1>8 DEF Tight, n
<1>11. EndsBy(g, to) => EndsBy(h, to)
  BY <1>4, <1>5 DEF EndsBy, n
<1> QED BY <1>5, <1>6, <1>9, <1>10, <1>11 DEF n

(* addGap reports exactly the new positions in addition, and keeps the list *)
(* in order and as short as it was.                                         *)
LEMMA AddGapIs ==
  ASSUME NEW g \in Seq(Gap), NEW from \in Nat, NEW to \in Nat, from <= to,
         NEW reason \in Reasons, EndsBy(g, from - 1),
         NEW h, h = AddGap(g, from, to, reason)
  PROVE  /\ h \in Seq(Gap)
         /\ \A o \in Reasons : Reported(h, o) = IF o = reason THEN Reported(g, o) \cup from .. to
                                               ELSE Reported(g, o)
         /\ EndsBy(h, to)
         /\ Ascends(g) => Ascends(h)
         /\ Tight(g) => Tight(h)
<1> DEFINE joins == g # <<>> /\ g[Len(g)].reason = reason /\ g[Len(g)].to + 1 = from
<1>0. EndsBy(g, to)
  <2>1. \A i \in 1 .. Len(g) : g[i] \in Gap
    OBVIOUS
  <2>2. \A i \in 1 .. Len(g) : g[i].to \in Nat /\ g[i].to <= from - 1
    BY <2>1, GapIs DEF EndsBy
  <2> QED BY <2>2 DEF EndsBy
<1>1. h = IF joins THEN [g EXCEPT ![Len(g)].to = to]
          ELSE Append(g, [from |-> from, to |-> to, reason |-> reason])
  BY DEF AddGap, Last
<1>2. CASE joins
  <2>1. h = [g EXCEPT ![Len(g)].to = to] /\ g # <<>> /\ g[Len(g)].reason = reason
        /\ g[Len(g)].to + 1 = from
    BY <1>1, <1>2
  <2>2. g[Len(g)].to \in Nat
    <3>1. g[Len(g)] \in Gap
      BY <2>1
    <3> QED BY <3>1, GapIs
  <2>3. g[Len(g)].to < to
    BY <2>1, <2>2
  <2> HIDE DEF joins
  <2>4. /\ h \in Seq(Gap)
        /\ \A o \in Reasons :
              Reported(h, o) = IF o = g[Len(g)].reason
                               THEN Reported(g, o) \cup g[Len(g)].to + 1 .. to
                               ELSE Reported(g, o)
        /\ Ascends(g) => Ascends(h)
        /\ EndsBy(g, to) => EndsBy(h, to)
        /\ Tight(g) => Tight(h)
    BY <2>1, <2>3, LongerGap, Zenon
  <2> QED BY <1>0, <2>1, <2>4
<1>3. CASE ~joins
  <2>1. h = Append(g, [from |-> from, to |-> to, reason |-> reason])
    BY <1>1, <1>3
  <2>2. g = <<>> \/ g[Len(g)].to + 1 # from \/ g[Len(g)].reason # reason
    BY <1>3
  <2> HIDE DEF joins
  <2>3. EndsBy(h, to)
    <3>1. Len(h) = Len(g) + 1 /\ Len(g) \in Nat /\ h[Len(g) + 1].to = to
          /\ \A i \in 1 .. Len(g) : h[i] = g[i]
      BY <2>1
    <3>2. ASSUME NEW i \in 1 .. Len(h) PROVE h[i].to <= to
      <4>1. CASE i \in 1 .. Len(g)
        BY <1>0, <3>1, <4>1 DEF EndsBy
      <4>2. CASE i \notin 1 .. Len(g)
        <5>1. i = Len(g) + 1
          BY <3>1, <3>2, <4>2
        <5> QED BY <3>1, <5>1
      <4> QED BY <4>1, <4>2
    <3> QED BY <3>2 DEF EndsBy
  <2>4. /\ h \in Seq(Gap)
        /\ \A o \in Reasons :
             Reported(h, o) = IF o = reason THEN Reported(g, o) \cup from .. to ELSE Reported(g, o)
        /\ Ascends(g) /\ EndsBy(g, from - 1) => Ascends(h) /\ EndsBy(h, to)
        /\ Tight(g) /\ (g = <<>> \/ g[Len(g)].to + 1 # from \/ g[Len(g)].reason # reason)
             => Tight(h)
    BY <2>1, AppendedGap, Zenon
  <2> QED BY <2>2, <2>3, <2>4
<1> QED BY <1>2, <1>3

(* The report of a prune names the deleted positions, all of them and no    *)
(* other.                                                                   *)
LEMMA ReportedGapsAre ==
  ASSUME NEW gone, gone \subseteq Nat, IsFiniteSet(gone)
  PROVE  /\ ReportedGaps(gone) \in Seq(Gap)
         /\ Reported(ReportedGaps(gone), "pruned") = gone
         /\ \A o \in Reasons \ {"pruned"} : Reported(ReportedGaps(gone), o) = {}
<1> DEFINE n == Cardinality(gone)
           s == InOrder(gone)
<1>1. n \in Nat /\ s \in [1 .. n -> gone] /\ (\A q \in gone : \E i \in 1 .. n : s[i] = q)
      /\ \A i, j \in 1 .. n : i < j => s[i] < s[j]
  <2> HIDE DEF n, s
  <2>1. n = Cardinality(gone) /\ s = InOrder(gone)
    BY DEF n, s
  <2> QED BY <2>1, InOrderIs
<1>2. DOMAIN InOrder(gone) = 1 .. n
  BY <1>1
<1> HIDE DEF n
<1>3. PICK acc : /\ acc[0] = <<>>
                 /\ \A k \in 1 .. n : acc[k] = AddGap(acc[k - 1], s[k], s[k], "pruned")
                 /\ ReportedGaps(gone) = acc[n]
  BY <1>1, <1>2, ReportSteps
<1> HIDE DEF s
<1> DEFINE Done(k) == /\ acc[k] \in Seq(Gap)
                      /\ \A q \in gone : (\A i \in 1 .. k : s[i] < q) => EndsBy(acc[k], q - 1)
                      /\ Reported(acc[k], "pruned") = {s[i] : i \in 1 .. k}
                      /\ \A o \in Reasons \ {"pruned"} : Reported(acc[k], o) = {}
           T == {k \in 0 .. n : Done(k)}
<1>4. 0 \in T
  <2>1. acc[0] \in Seq(Gap) /\ Len(acc[0]) = 0 /\ 1 .. 0 = {}
    BY <1>3
  <2>2. \A q \in gone : EndsBy(acc[0], q - 1)
    BY <2>1 DEF EndsBy
  <2>3. \A o : Reported(acc[0], o) = {}
    BY <2>1 DEF Reported
  <2>4. {s[i] : i \in 1 .. 0} = {}
    BY <2>1
  <2>5. Done(0)
    BY <2>1, <2>2, <2>3, <2>4
  <2> HIDE DEF Done
  <2> QED BY <1>1, <2>5
<1>5. ASSUME NEW k \in 0 .. n - 1, k \in T PROVE k + 1 \in T
  <2>1. k \in Nat /\ k + 1 \in 1 .. n /\ k + 1 \in 0 .. n /\ (k + 1) - 1 = k
    BY <1>1
  <2> DEFINE q == s[k + 1]
             g == acc[k]
             h == acc[k + 1]
  <2>2. q \in gone /\ q \in Nat /\ q <= q
    <3>1. q \in gone
      BY <1>1, <2>1
    <3>2. q \in Nat
      BY <3>1
    <3> QED BY <3>1, <3>2
  <2>3. h = AddGap(g, q, q, "pruned")
    BY <1>3, <2>1
  <2>4. \A i \in 1 .. k : i \in 1 .. n /\ s[i] < s[k + 1]
    BY <1>1, <2>1
  <2>5. Done(k)
    BY <1>5
  <2>6. g \in Seq(Gap) /\ EndsBy(g, q - 1) /\ Reported(g, "pruned") = {s[i] : i \in 1 .. k}
        /\ \A o \in Reasons \ {"pruned"} : Reported(g, o) = {}
    BY <2>2, <2>4, <2>5
  <2> HIDE DEF g, h, q, Done
  <2>7. /\ h \in Seq(Gap) /\ EndsBy(h, q)
        /\ \A o \in Reasons : Reported(h, o) = IF o = "pruned" THEN Reported(g, o) \cup q .. q
                                              ELSE Reported(g, o)
    <3>1. "pruned" \in Reasons
      BY DEF Reasons
    <3>2. /\ h \in Seq(Gap)
          /\ \A o \in Reasons : Reported(h, o) = IF o = "pruned" THEN Reported(g, o) \cup q .. q
                                                ELSE Reported(g, o)
          /\ EndsBy(h, q)
          /\ Ascends(g) => Ascends(h)
          /\ Tight(g) => Tight(h)
      BY <2>2, <2>3, <2>6, <3>1, AddGapIs
    <3> QED BY <3>2
  <2>8. Reported(h, "pruned") = {s[i] : i \in 1 .. k + 1}
    <3>1. Reported(h, "pruned") = {s[i] : i \in 1 .. k} \cup {q}
      <4>1. q .. q = {q} /\ "pruned" \in Reasons
        BY <2>2 DEF Reasons
      <4> QED BY <2>6, <2>7, <4>1
    <3>2. \A i : i \in 1 .. k + 1 <=> i \in 1 .. k \/ i = k + 1
      BY <2>1
    <3> QED BY <3>1, <3>2 DEF q
  <2>9. ASSUME NEW z \in gone, \A i \in 1 .. k + 1 : s[i] < z PROVE EndsBy(h, z - 1)
    <3>1. q < z /\ z \in Nat
      BY <2>1, <2>9 DEF q
    <3>2. \A i \in 1 .. Len(h) : h[i].to \in Nat /\ h[i].to <= q
      <4>1. \A i \in 1 .. Len(h) : h[i] \in Gap
        BY <2>7
      <4> QED BY <2>7, <4>1, GapIs DEF EndsBy
    <3> QED BY <2>2, <3>1, <3>2 DEF EndsBy
  <2>10. Done(k + 1)
    BY <2>6, <2>7, <2>8, <2>9 DEF Done, h
  <2> QED BY <2>1, <2>10
<1> HIDE DEF T
<1>6. \A k \in 0 .. n : k \in T
  BY <1>1, <1>4, <1>5, Upto, Zenon
<1>7. n \in T
  BY <1>1, <1>6
<1>8. Done(n)
  BY <1>7 DEF T
<1>9. {s[i] : i \in 1 .. n} = gone
  BY <1>1
<1> HIDE DEF Done
<1>10. acc[n] \in Seq(Gap) /\ Reported(acc[n], "pruned") = gone
       /\ \A o \in Reasons \ {"pruned"} : Reported(acc[n], o) = {}
  BY <1>8, <1>9 DEF Done
<1> QED BY <1>3, <1>10

(* What a batch leaves: the rows are apart, and cover what they did and the *)
(* batch.                                                                   *)
LEMMA RecordPrunedIs ==
  ASSUME NEW R, Apart(R), NEW gone, gone \subseteq Nat \ {0}, IsFiniteSet(gone)
  PROVE  Apart(RecordPruned(R, gone)) /\ Positions(RecordPruned(R, gone)) = Positions(R) \cup gone
<1> DEFINE g == ReportedGaps(gone)
           n == Len(g)
<1>1. g \in Seq(Gap) /\ Reported(g, "pruned") = gone
      /\ \A o \in Reasons \ {"pruned"} : Reported(g, o) = {}
  BY ReportedGapsAre
<1>2. n \in Nat /\ DOMAIN ReportedGaps(gone) = 1 .. n
  BY <1>1
<1> HIDE DEF g, n
<1>3. PICK acc : /\ acc[0] = R
                 /\ \A k \in 1 .. n : acc[k] = MergePrunedRange(acc[k - 1], g[k].from, g[k].to)
                 /\ RecordPruned(R, gone) = acc[n]
  <2>1. DOMAIN ReportedGaps(gone) = 1 .. n
    BY <1>2
  <2>2. \E acc : /\ acc[0] = R
                 /\ \A k \in 1 .. n :
                      acc[k] = MergePrunedRange(acc[k - 1], ReportedGaps(gone)[k].from,
                                                ReportedGaps(gone)[k].to)
                 /\ RecordPruned(R, gone) = acc[n]
    BY <1>2, <2>1, RecordSteps
  <2> QED BY <2>2 DEF g
<1>4. \A i \in 1 .. n : g[i].from \in Nat /\ g[i].to \in Nat /\ g[i].from <= g[i].to
                       /\ g[i].reason \in Reasons
  <2>1. \A i \in 1 .. n : g[i] \in Gap
    BY <1>1, <1>2 DEF n
  <2> QED BY <2>1, GapIs
<1>5. \A i \in 1 .. n : g[i].reason = "pruned" /\ 1 <= g[i].from
  <2> SUFFICES ASSUME NEW i \in 1 .. n PROVE g[i].reason = "pruned" /\ 1 <= g[i].from
    OBVIOUS
  <2>1. g[i].from \in Reported(g, g[i].reason)
    BY <1>4 DEF Reported, n
  <2>2. g[i].reason = "pruned"
    BY <1>1, <1>4, <2>1
  <2>3. g[i].from \in gone
    BY <1>1, <2>1, <2>2
  <2> QED BY <1>4, <2>2, <2>3
<1> DEFINE Upper(k) == {p \in Nat : \E i \in 1 .. k : g[i].from <= p /\ p <= g[i].to}
           Done(k) == Apart(acc[k]) /\ Positions(acc[k]) = Positions(R) \cup Upper(k)
           T == {k \in 0 .. n : Done(k)}
<1>6. 0 \in T
  <2>1. Upper(0) = {}
    OBVIOUS
  <2>2. Done(0)
    BY <1>3, <2>1
  <2> HIDE DEF Done
  <2> QED BY <1>2, <2>2
<1>7. ASSUME NEW k \in 0 .. n - 1, k \in T PROVE k + 1 \in T
  <2>1. k \in Nat /\ k + 1 \in 1 .. n /\ k + 1 \in 0 .. n /\ (k + 1) - 1 = k
    BY <1>2
  <2> DEFINE a == g[k + 1].from
             b == g[k + 1].to
             S == acc[k]
  <2>2. a \in Nat /\ b \in Nat /\ 1 <= a /\ a <= b
    BY <1>4, <1>5, <2>1
  <2>3. acc[k + 1] = MergePrunedRange(S, a, b)
    BY <1>3, <2>1
  <2>4. Apart(S) /\ Positions(S) = Positions(R) \cup Upper(k)
    BY <1>7
  <2>5. Upper(k + 1) = Upper(k) \cup a .. b
    <3>1. \A i : i \in 1 .. k + 1 <=> i \in 1 .. k \/ i = k + 1
      BY <2>1
    <3>2. \A p : p \in a .. b <=> p \in Nat /\ a <= p /\ p <= b
      BY <2>2
    <3> QED BY <3>1, <3>2
  <2> HIDE DEF a, b, S, Upper
  <2>6. Apart(MergePrunedRange(S, a, b))
        /\ Positions(MergePrunedRange(S, a, b)) = Positions(S) \cup a .. b
    BY <2>2, <2>4, MergeIs
  <2>7. Done(k + 1)
    BY <2>3, <2>4, <2>5, <2>6
  <2> HIDE DEF Done
  <2> QED BY <2>1, <2>7
<1> HIDE DEF T
<1>8. \A k \in 0 .. n : k \in T
  BY <1>2, <1>6, <1>7, Upto, Zenon
<1>9. n \in T
  BY <1>2, <1>8
<1>10. Apart(acc[n]) /\ Positions(acc[n]) = Positions(R) \cup Upper(n)
  BY <1>9 DEF T
<1>11. Upper(n) = gone
  <2>1. Upper(n) = Reported(g, "pruned")
    BY <1>5 DEF Reported, n
  <2> QED BY <1>1, <2>1
<1> QED BY <1>3, <1>10, <1>11

-----------------------------------------------------------------------------
(* The invariant. *)

(* Every position is held by an entry or covered by a row, never both; rows *)
(* do not touch; and no entry is left at or below the low-water mark.       *)
RangesInv ==
  /\ next \in 1 .. MaxPosition + 1
  /\ held \subseteq 1 .. HighWater
  /\ Apart(ranges)
  /\ PrunedPositions = (1 .. HighWater) \ held
  /\ low \in 0 .. HighWater
  /\ \A q \in held : low < q

LEMMA InvInit == Init => RangesInv
<1> SUFFICES ASSUME Init PROVE RangesInv
  OBVIOUS
<1>1. next = 1 /\ held = {} /\ ranges = {} /\ low = 0 /\ HighWater = 0
  BY DEF Init, HighWater
<1>2. next \in 1 .. MaxPosition + 1
  BY <1>1, PositionAssumption
<1>3. Apart(ranges) /\ PrunedPositions = {}
  BY <1>1 DEF Apart, PrunedPositions
<1>4. 1 .. HighWater = {}
  BY <1>1
<1> QED BY <1>1, <1>2, <1>3, <1>4 DEF RangesInv

LEMMA PublishInv == RangesInv /\ Publish => RangesInv' /\ HighWater' = HighWater + 1
<1> SUFFICES ASSUME RangesInv, Publish PROVE RangesInv' /\ HighWater' = HighWater + 1
  OBVIOUS
<1>1. /\ next \in Nat /\ 1 <= next /\ next <= MaxPosition
      /\ next' = next + 1 /\ held' = held \cup {next} /\ ranges' = ranges /\ low' = low
  BY PositionAssumption DEF RangesInv, Publish
<1>2. HighWater = next - 1 /\ HighWater' = next
  BY <1>1 DEF HighWater
<1>3. next' \in 1 .. MaxPosition + 1
  BY <1>1, PositionAssumption
<1>4. held \subseteq 1 .. next - 1
  BY <1>2 DEF RangesInv
<1>5. held' \subseteq 1 .. next
  <2>1. 1 .. next - 1 \subseteq 1 .. next /\ next \in 1 .. next
    BY <1>1
  <2> QED BY <1>1, <1>4, <2>1
<1>6. PrunedPositions' = PrunedPositions /\ PrunedPositions = (1 .. next - 1) \ held
  BY <1>1, <1>2 DEF RangesInv, PrunedPositions
<1>7. (1 .. next) \ (held \cup {next}) = (1 .. next - 1) \ held
  BY <1>1, <1>4
<1>8. Apart(ranges)'
  BY <1>1 DEF RangesInv, Apart
<1>9. low' \in 0 .. next /\ \A q \in held' : low' < q
  <2>1. low \in 0 .. next - 1 /\ \A q \in held : low < q
    BY <1>2 DEF RangesInv
  <2> QED BY <1>1, <2>1
<1> QED BY <1>1, <1>2, <1>3, <1>5, <1>6, <1>7, <1>8, <1>9 DEF RangesInv

LEMMA LowWaterIs ==
  ASSUME RangesInv, NEW left, left \subseteq held
  PROVE  LowWater(left) \in 0 .. HighWater /\ \A q \in left : LowWater(left) < q
<1>1. next \in Nat /\ 1 <= next /\ HighWater = next - 1 /\ HighWater \in Nat
  BY PositionAssumption DEF RangesInv, HighWater
<1>2. low \in 0 .. HighWater /\ left \subseteq 1 .. HighWater /\ \A q \in left : low < q
  BY DEF RangesInv
<1>3. ASSUME NEW top \in 0 .. HighWater, \A q \in left : top < q,
             LowWater(left) = Max({low, top})
      PROVE  LowWater(left) \in 0 .. HighWater /\ \A q \in left : LowWater(left) < q
  <2>1. low \in Int /\ top \in Int
    BY <1>1, <1>2
  <2>2. Max({low, top}) = IF low <= top THEN top ELSE low
    <3>1. {low, top} \subseteq Int /\ low \in {low, top} /\ top \in {low, top}
      BY <2>1
    <3>2. CASE low <= top
      <4>1. \A x \in {low, top} : x <= top
        BY <2>1, <3>2
      <4> QED BY <3>1, <3>2, <4>1, MaxIs
    <3>3. CASE ~(low <= top)
      <4>1. \A x \in {low, top} : x <= low
        BY <2>1, <3>3
      <4> QED BY <3>1, <3>3, <4>1, MaxIs
    <3> QED BY <3>2, <3>3
  <2> QED BY <1>2, <1>3, <2>2
<1>4. CASE left = {}
  <2>1. LowWater(left) = Max({low, HighWater}) /\ HighWater \in 0 .. HighWater
    BY <1>1, <1>4 DEF LowWater
  <2> QED BY <1>3, <1>4, <2>1
<1>5. CASE left # {}
  <2>1. left \subseteq Nat /\ left \subseteq Int
    BY <1>1, <1>2
  <2>2. PICK m \in left : \A q \in left : m <= q
    BY <1>5, <2>1, LeastNatural
  <2>3. Min(left) = m
    BY <2>1, <2>2, MinIs
  <2>4. m \in 1 .. HighWater /\ m - 1 \in 0 .. HighWater /\ \A q \in left : m - 1 < q
    <3>1. m \in 1 .. HighWater /\ m \in Nat
      BY <1>1, <1>2, <2>2
    <3>2. \A q \in left : q \in Nat /\ m <= q
      BY <2>1, <2>2
    <3> QED BY <1>1, <3>1, <3>2
  <2>5. LowWater(left) = Max({low, m - 1})
    BY <1>5, <2>3 DEF LowWater
  <2> QED BY <1>3, <2>4, <2>5
<1> QED BY <1>4, <1>5

LEMMA PruneInv ==
  ASSUME RangesInv, NEW gone \in SUBSET held, PruneBatch(gone)
  PROVE  RangesInv' /\ HighWater' = HighWater /\ PrunedPositions' = PrunedPositions \cup gone
<1>1. /\ held' = held \ gone /\ ranges' = RecordPruned(ranges, gone)
      /\ low' = LowWater(held \ gone) /\ next' = next
  BY DEF PruneBatch
<1>2. next \in Nat /\ HighWater' = HighWater /\ HighWater \in Nat
  BY <1>1, PositionAssumption DEF RangesInv, HighWater
<1>3. gone \subseteq 1 .. HighWater /\ held \subseteq 1 .. HighWater
  BY DEF RangesInv
<1>4. gone \subseteq Nat \ {0} /\ IsFiniteSet(gone)
  <2>1. IsFiniteSet(1 .. HighWater)
    BY <1>2, FS_Interval
  <2>2. IsFiniteSet(gone)
    BY <1>3, <2>1, FS_Subset
  <2>3. gone \subseteq Nat \ {0}
    BY <1>2, <1>3
  <2> QED BY <2>2, <2>3
<1>5. Apart(ranges)
  BY DEF RangesInv
<1>6. Apart(RecordPruned(ranges, gone))
      /\ Positions(RecordPruned(ranges, gone)) = Positions(ranges) \cup gone
  BY <1>4, <1>5, RecordPrunedIs
<1>7. Apart(ranges)' /\ PrunedPositions' = PrunedPositions \cup gone
  BY <1>1, <1>6 DEF Positions, PrunedPositions, Apart
<1>8. PrunedPositions' = (1 .. HighWater) \ (held \ gone)
  BY <1>3, <1>7 DEF RangesInv
<1>9. low' \in 0 .. HighWater /\ \A q \in held' : low' < q
  BY <1>1, LowWaterIs
<1>10. next' \in 1 .. MaxPosition + 1 /\ held' \subseteq 1 .. HighWater
  BY <1>1, <1>3 DEF RangesInv
<1> QED BY <1>1, <1>2, <1>7, <1>8, <1>9, <1>10 DEF RangesInv

LEMMA StepInv == RangesInv /\ [Next]_vars => RangesInv'
<1> SUFFICES ASSUME RangesInv, [Next]_vars PROVE RangesInv'
  OBVIOUS
<1>1. CASE Publish
  BY <1>1, PublishInv
<1>2. ASSUME NEW gone \in SUBSET held, PruneBatch(gone) PROVE RangesInv'
  BY <1>2, PruneInv
<1>3. CASE UNCHANGED vars
  BY <1>3 DEF vars, RangesInv, HighWater, PrunedPositions, Apart
<1> QED BY <1>1, <1>2, <1>3 DEF Next

LEMMA SpecInv == Spec => []RangesInv
BY InvInit, StepInv, PTL DEF Spec

(* Rows of pruned_ranges never overlap or touch (mergePrunedRange replaces  *)
(* every adjacent range), and together with the entries they make up the    *)
(* positions issued; the low-water mark is below every entry.               *)
RangesSound ==
  /\ \A r, s \in ranges : r # s => r.to + 1 < s.from \/ s.to + 1 < r.from
  /\ held \cup PrunedPositions = 1 .. HighWater /\ held \cap PrunedPositions = {}
  /\ \A q \in held : low < q

(* The rows stay sound through every sequence of publications and batches   *)
(* (PruneHub records each batch with mergePrunedRange).                     *)
THEOREM RangesStaySound == Spec => []RangesSound
<1>1. RangesInv => RangesSound
  BY DEF RangesInv, RangesSound, Apart
<1> QED BY <1>1, SpecInv, PTL

(* Merging loses no position and invents none (RecordPruned over any        *)
(* sequence of batches): with the pruned positions read off the ranges, the *)
(* stream is the one promised to readers.                                   *)
THEOREM RangesImplementFeed == Spec => RangesKeepTheFeed
<1>1. Init => Feed!Init
  <2> SUFFICES ASSUME Init PROVE Feed!Init
    OBVIOUS
  <2>1. HighWater = 0 /\ held = {} /\ PrunedPositions = {}
    BY DEF Init, HighWater, PrunedPositions
  <2> QED BY <2>1 DEF Feed!Init
<1>2. RangesInv /\ [Next]_vars => [Feed!Next]_(Feed!vars)
  <2> SUFFICES ASSUME RangesInv, [Next]_vars PROVE [Feed!Next]_(Feed!vars)
    OBVIOUS
  <2>1. CASE Publish
    <3>1. HighWater' = HighWater + 1 /\ HighWater' = next
      <4>1. next \in Int /\ next' = next + 1
        BY <2>1, PositionAssumption DEF RangesInv, Publish
      <4> QED BY <4>1 DEF HighWater
    <3>2. held' = held \cup {HighWater'} /\ PrunedPositions' = PrunedPositions
      BY <2>1, <3>1 DEF Publish, PrunedPositions
    <3>3. Feed!Publish(1)
      BY <3>1, <3>2 DEF Feed!Publish
    <3> QED BY <3>3 DEF Feed!Next
  <2>2. ASSUME NEW gone \in SUBSET held, PruneBatch(gone) PROVE Feed!Prune
    <3>1. HighWater' = HighWater /\ PrunedPositions' = PrunedPositions \cup gone
      BY <2>2, PruneInv
    <3>2. held' = held \cap held' /\ held \ held' = gone
      BY <2>2 DEF PruneBatch
    <3> QED BY <3>1, <3>2 DEF Feed!Prune
  <2>3. CASE UNCHANGED vars
    BY <2>3 DEF vars, HighWater, PrunedPositions, Feed!vars
  <2> QED BY <2>1, <2>2, <2>3 DEF Next, Feed!Next
<1> QED BY <1>1, <1>2, SpecInv, PTL DEF Spec, RangesKeepTheFeed, Feed!Spec

-----------------------------------------------------------------------------
(* Reading. *)

(* The rows do not touch, so a stretch without an entry lies in one row. *)
LEMMA OneRowCovers ==
  ASSUME RangesInv, NEW from \in Nat, NEW to \in Nat, from <= to,
         \A p \in from .. to : p \in PrunedPositions
  PROVE  \E r \in ranges : /\ r.from \in Nat /\ r.to \in Nat /\ r.from <= from /\ to <= r.to
                           /\ Overlapping(ranges, from, to) = {r}
<1>1. \A r \in ranges : r.from \in Nat /\ r.to \in Nat /\ r.from <= r.to
  BY RowIs DEF RangesInv, Apart
<1>2. \A p : p \in PrunedPositions <=> p \in Nat /\ \E r \in ranges : r.from <= p /\ p <= r.to
  BY InPositions DEF RangesInv, Apart, Positions, PrunedPositions
<1>3. \A r, s \in ranges : r # s => r.to + 1 < s.from \/ s.to + 1 < r.from
  BY DEF RangesInv, Apart
<1>4. PICK r \in ranges : r.from <= from /\ from <= r.to
  BY <1>2
<1>5. to <= r.to
  <2> SUFFICES ASSUME ~(to <= r.to) PROVE FALSE
    OBVIOUS
  <2>1. r.to + 1 \in from .. to
    BY <1>1, <1>4
  <2>2. PICK s \in ranges : s.from <= r.to + 1 /\ r.to + 1 <= s.to
    BY <1>2, <2>1
  <2>3. s # r
    BY <1>1, <2>2
  <2> QED BY <1>1, <1>3, <1>4, <2>2, <2>3
<1>6. ASSUME NEW s \in Overlapping(ranges, from, to) PROVE s = r
  <2>1. s \in ranges /\ s.to >= from /\ s.from <= to
    BY DEF Overlapping
  <2> QED BY <1>1, <1>3, <1>4, <1>5, <2>1
<1>7. r \in Overlapping(ranges, from, to)
  BY <1>1, <1>4, <1>5 DEF Overlapping
<1> QED BY <1>1, <1>4, <1>5, <1>6, <1>7

(* One row is its own enumeration. *)
LEMMA OneRowInOrder ==
  ASSUME NEW r, r.from \in Nat
  PROVE  DOMAIN RowsInOrder({r}) = {1} /\ RowsInOrder({r})[1] = r
<1>1. Cardinality({r}) = 1
  BY FS_Singleton
<1>2. {y \in {r} : y.from < r.from} = {}
  OBVIOUS
<1>3. Cardinality({y \in {r} : y.from < r.from}) = 0
  BY <1>2, FS_EmptySet
<1>4. 1 .. 1 = {1}
  OBVIOUS
<1>5. RowsInOrder({r}) = [i \in 1 .. Cardinality({r}) |->
        CHOOSE x \in {r} : Cardinality({y \in {r} : y.from < x.from}) = i - 1]
  BY DEF RowsInOrder, OrderedBy
<1>6. RowsInOrder({r})[1] = CHOOSE x \in {r} : Cardinality({y \in {r} : y.from < x.from}) = 1 - 1
  BY <1>1, <1>4, <1>5
<1>7. (CHOOSE x \in {r} : Cardinality({y \in {r} : y.from < x.from}) = 1 - 1) \in {r}
  <2>1. \E x \in {r} : Cardinality({y \in {r} : y.from < x.from}) = 1 - 1
    BY <1>3
  <2> QED BY <2>1, Zenon
<1> QED BY <1>1, <1>4, <1>5, <1>6, <1>7

LEMMA MissingNothing ==
  ASSUME NEW g, NEW from, NEW to, from > to
  PROVE  AddMissingGaps(g, ranges, from, to) = g
BY DEF AddMissingGaps, FoldLeft, MapThenFoldSet

(* Where there is no entry addMissingGaps reports one gap, as pruned. *)
LEMMA MissingIsPruned ==
  ASSUME RangesInv, NEW g, NEW from \in Nat, NEW to \in Nat, from <= to,
         \A p \in from .. to : p \in PrunedPositions
  PROVE  AddMissingGaps(g, ranges, from, to) = AddGap(g, from, to, "pruned")
<1>1. PICK r \in ranges : /\ r.from \in Nat /\ r.to \in Nat /\ r.from <= from /\ to <= r.to
                          /\ Overlapping(ranges, from, to) = {r}
  BY OneRowCovers
<1> DEFINE seq == RowsInOrder({r})
           base == [gaps |-> g, from |-> from]
           Step(acc, x) ==
             LET first == IF x.from < acc.from THEN acc.from ELSE x.from
                 last == IF x.to > to THEN to ELSE x.to
             IN  [gaps |-> AddGap(AddGap(acc.gaps, acc.from, x.from - 1, "unavailable"),
                                  first, last, "pruned"),
                  from |-> last + 1]
           Folds(h) == h = [s \in SUBSET (DOMAIN seq) |->
                              IF s = {} THEN base ELSE Step(h[s \ {Max(s)}], seq[Max(s)])]
           all == (CHOOSE h : Folds(h))[DOMAIN seq]
<1>2. AddMissingGaps(g, ranges, from, to) = AddGap(all.gaps, all.from, to, "unavailable")
  BY <1>1 DEF AddMissingGaps, FoldLeft, MapThenFoldSet
<1>3. DOMAIN seq = {1} /\ seq[1] = r
  BY <1>1, OneRowInOrder
<1>4. Step(base, r) = [gaps |-> AddGap(g, from, to, "pruned"), from |-> to + 1]
  <2>1. (IF r.from < from THEN from ELSE r.from) = from /\ (IF r.to > to THEN to ELSE r.to) = to
    BY <1>1
  <2>2. AddGap(g, from, r.from - 1, "unavailable") = g
    BY <1>1 DEF AddGap
  <2>3. base.gaps = g /\ base.from = from
    OBVIOUS
  <2> HIDE DEF base
  <2> QED BY <2>1, <2>2, <2>3
<1> HIDE DEF Step, base, seq
<1>5. Max({1}) = 1
  <2>1. {1} \subseteq Int /\ 1 \in {1} /\ \A x \in {1} : x <= 1
    OBVIOUS
  <2> QED BY <2>1, MaxIs
<1>6. \E h : Folds(h)
  <2> DEFINE h == [s \in SUBSET {1} |-> IF s = {} THEN base ELSE Step(base, r)]
  <2>1. \A s \in SUBSET {1} : s = {} \/ s = {1}
    OBVIOUS
  <2>2. h[{}] = base /\ h[{1}] = Step(base, r)
    OBVIOUS
  <2>3. \A s \in SUBSET {1} :
          h[s] = IF s = {} THEN base ELSE Step(h[s \ {Max(s)}], seq[Max(s)])
    <3>1. {1} \ {1} = {}
      OBVIOUS
    <3> HIDE DEF h
    <3> TAKE s \in SUBSET {1}
    <3>2. CASE s = {}
      BY <2>2, <3>2
    <3>3. CASE s = {1}
      <4>1. Max(s) = 1 /\ s \ {Max(s)} = {}
        BY <1>5, <3>1, <3>3
      <4>2. Step(h[s \ {Max(s)}], seq[Max(s)]) = Step(base, r)
        BY <1>3, <2>2, <4>1
      <4> QED BY <2>2, <3>3, <4>2
    <3> QED BY <2>1, <3>2, <3>3
  <2>4. h = [s \in SUBSET {1} |-> h[s]]
    OBVIOUS
  <2> HIDE DEF h
  <2>5. h = [s \in SUBSET {1} |->
               IF s = {} THEN base ELSE Step(h[s \ {Max(s)}], seq[Max(s)])]
    BY <2>3, <2>4
  <2>6. Folds(h)
    BY <1>3, <2>5
  <2> QED BY <2>6, Zenon
<1>7. PICK f : f = (CHOOSE h : Folds(h)) /\ Folds(f)
  <2>1. Folds((CHOOSE h : Folds(h)))
    BY <1>6, Zenon
  <2> QED BY <2>1
<1>8. f[{}] = base /\ f[{1}] = Step(base, r)
  <2>1. f[{}] = base
    BY <1>3, <1>7
  <2>2. f[{1}] = Step(f[{1} \ {Max({1})}], seq[Max({1})])
    BY <1>3, <1>7
  <2>3. {1} \ {1} = {}
    OBVIOUS
  <2> QED BY <1>3, <1>5, <2>1, <2>2, <2>3
<1>9. all = Step(base, r)
  BY <1>3, <1>7, <1>8
<1>10. all.gaps = AddGap(g, from, to, "pruned") /\ all.from = to + 1
  BY <1>4, <1>9
<1> HIDE DEF all
<1>11. AddGap(AddGap(g, from, to, "pruned"), to + 1, to, "unavailable")
         = AddGap(g, from, to, "pruned")
  BY DEF AddGap
<1> QED BY <1>2, <1>10, <1>11

(* What a gap list says of the positions after "after" up to "at": it is in *)
(* order, and reports exactly what is pruned and what is hidden there.      *)
Tells(g, after, at, hidden) ==
  /\ g \in Seq(Gap) /\ Ascends(g) /\ EndsBy(g, at)
  /\ Reported(g, "pruned") = (after + 1 .. at) \cap PrunedPositions
  /\ Reported(g, "filtered") = (after + 1 .. at) \cap held \cap hidden
  /\ Reported(g, "unavailable") = {}

LEMMA EveryReason == "pruned" \in Reasons /\ "filtered" \in Reasons /\ "unavailable" \in Reasons
BY DEF Reasons

LEMMA NothingHeldIsPruned ==
  ASSUME RangesInv, NEW p, p \in 1 .. HighWater, p \notin held
  PROVE  p \in PrunedPositions
BY DEF RangesInv

(* No entry is left after "at" up to "to". *)
NoneLeft(at, to) == \A q \in held : ~(at < q /\ q <= to)

LEMMA NoneLeftIs ==
  ASSUME NEW at \in Nat, NEW to \in Nat, NoneLeft(at, to)
  PROVE  (at + 1 .. to) \cap held = {}
BY DEF NoneLeft

(* A stretch without an entry, reported as pruned. *)
LEMMA TellsPruned ==
  ASSUME RangesInv, NEW g, NEW after \in Nat, NEW at \in Nat, NEW to \in Nat, NEW hidden,
         after <= at, at < to, to <= HighWater, NoneLeft(at, to),
         Tells(g, after, at, hidden), NEW h, h = AddGap(g, at + 1, to, "pruned")
  PROVE  Tells(h, after, to, hidden) /\ (Tight(g) => Tight(h))
<1>0. HighWater \in Int
  BY PositionAssumption DEF RangesInv, HighWater
<1>1. \A p \in at + 1 .. to : p \in PrunedPositions
  <2>1. \A p \in at + 1 .. to : p \in 1 .. HighWater /\ p \notin held
    BY <1>0, NoneLeftIs
  <2> QED BY <2>1, NothingHeldIsPruned
<1>2. g \in Seq(Gap) /\ Ascends(g) /\ EndsBy(g, at)
  BY DEF Tells
<1>3. at + 1 \in Nat /\ at + 1 <= to /\ (at + 1) - 1 = at
  OBVIOUS
<1>4. PICK from \in Nat : from = at + 1 /\ from <= to /\ EndsBy(g, from - 1)
  BY <1>2, <1>3
<1>5. /\ h \in Seq(Gap)
      /\ \A o \in Reasons : Reported(h, o) = IF o = "pruned" THEN Reported(g, o) \cup at + 1 .. to
                                            ELSE Reported(g, o)
      /\ EndsBy(h, to)
      /\ Ascends(g) => Ascends(h)
      /\ Tight(g) => Tight(h)
  <2>1. /\ g \in Seq(Gap) /\ from \in Nat /\ to \in Nat /\ from <= to /\ "pruned" \in Reasons
        /\ EndsBy(g, from - 1) /\ h = AddGap(g, from, to, "pruned")
    BY <1>2, <1>4, EveryReason
  <2>2. /\ h \in Seq(Gap)
        /\ \A o \in Reasons : Reported(h, o) = IF o = "pruned" THEN Reported(g, o) \cup from .. to
                                              ELSE Reported(g, o)
        /\ EndsBy(h, to)
        /\ Ascends(g) => Ascends(h)
        /\ Tight(g) => Tight(h)
    BY ONLY <2>1, AddGapIs
  <2> QED BY <1>4, <2>2
<1>6. Reported(h, "pruned") = Reported(g, "pruned") \cup at + 1 .. to
      /\ Reported(h, "filtered") = Reported(g, "filtered")
      /\ Reported(h, "unavailable") = Reported(g, "unavailable")
  BY <1>5, EveryReason
<1>7. after + 1 .. to = (after + 1 .. at) \cup (at + 1 .. to)
  OBVIOUS
<1>8. Reported(h, "pruned") = (after + 1 .. to) \cap PrunedPositions
  BY <1>1, <1>6, <1>7 DEF Tells
<1>9. Reported(h, "filtered") = (after + 1 .. to) \cap held \cap hidden
  BY <1>6, <1>7, NoneLeftIs DEF Tells
<1> QED BY <1>2, <1>5, <1>6, <1>8, <1>9 DEF Tells

LEMMA TellsMissing ==
  ASSUME RangesInv, NEW g, NEW after \in Nat, NEW at \in Nat, NEW to \in Nat, NEW hidden,
         after <= at, at <= to, to <= HighWater, NoneLeft(at, to),
         Tells(g, after, at, hidden), NEW from, from = at + 1,
         NEW h, h = AddMissingGaps(g, ranges, from, to)
  PROVE  Tells(h, after, to, hidden) /\ (Tight(g) => Tight(h))
<1>0. HighWater \in Int
  BY PositionAssumption DEF RangesInv, HighWater
<1>1. CASE at = to
  <2>1. h = g
    <3>1. at + 1 > to
      BY <1>1
    <3> QED BY <3>1, MissingNothing
  <2> QED BY <1>1, <2>1
<1>2. CASE at < to
  <2>1. \A p \in at + 1 .. to : p \in 1 .. HighWater /\ p \notin held
    BY <1>0, NoneLeftIs
  <2>2. \A p \in at + 1 .. to : p \in PrunedPositions
    BY <2>1, NothingHeldIsPruned
  <2>3. at + 1 \in Nat /\ at + 1 <= to
    BY <1>2
  <2>4. h = AddGap(g, at + 1, to, "pruned")
    BY <2>2, <2>3, MissingIsPruned
  <2> QED BY <1>2, <2>4, TellsPruned
<1> QED BY <1>1, <1>2

(* The next entry: reported when it is hidden, otherwise delivered. *)
LEMMA TellsRow ==
  ASSUME RangesInv, NEW g, NEW after \in Nat, NEW q \in held, NEW hidden, NEW joins \in BOOLEAN,
         after < q, Tells(g, after, q - 1, hidden),
         NEW h, h = IF q \in hidden THEN Report(g, q, joins) ELSE g
  PROVE  Tells(h, after, q, hidden) /\ (joins /\ Tight(g) => Tight(h))
<1>0. q \in Nat /\ q - 1 \in Nat /\ q <= q
  <2>1. HighWater \in Int /\ held \subseteq 1 .. HighWater
    BY PositionAssumption DEF RangesInv, HighWater
  <2> QED BY <2>1
<1>1. q \notin PrunedPositions
  BY DEF RangesInv
<1>2. g \in Seq(Gap) /\ Ascends(g) /\ EndsBy(g, q - 1)
  BY DEF Tells
<1>3. after + 1 .. q = (after + 1 .. q - 1) \cup {q} /\ q .. q = {q}
  BY <1>0
<1>4. Reported(g, "pruned") = (after + 1 .. q) \cap PrunedPositions
  BY <1>1, <1>3 DEF Tells
<1>5. CASE q \notin hidden
  <2>1. h = g
    BY <1>5
  <2>2. EndsBy(g, q)
    <3>1. \A i \in 1 .. Len(g) : g[i] \in Gap
      BY <1>2
    <3>2. \A i \in 1 .. Len(g) : g[i].to \in Nat /\ g[i].to <= q - 1
      BY <1>2, <3>1, GapIs DEF EndsBy
    <3> QED BY <1>0, <3>2 DEF EndsBy
  <2>3. Reported(g, "filtered") = (after + 1 .. q) \cap held \cap hidden
    BY <1>3, <1>5 DEF Tells
  <2> QED BY <1>2, <1>4, <2>1, <2>2, <2>3 DEF Tells
<1>6. CASE q \in hidden
  <2>0. h = Report(g, q, joins)
    BY <1>6
  <2>1. /\ h \in Seq(Gap) /\ Ascends(h) /\ EndsBy(h, q)
        /\ \A o \in Reasons : Reported(h, o) = IF o = "filtered" THEN Reported(g, o) \cup q .. q
                                              ELSE Reported(g, o)
        /\ joins /\ Tight(g) => Tight(h)
    <3>1. CASE joins
      <4>1. h = AddGap(g, q, q, "filtered")
        BY <2>0, <3>1 DEF Report
      <4>2. /\ h \in Seq(Gap)
            /\ \A o \in Reasons : Reported(h, o) = IF o = "filtered" THEN Reported(g, o) \cup q .. q
                                                  ELSE Reported(g, o)
            /\ EndsBy(h, q)
            /\ Ascends(g) => Ascends(h)
            /\ Tight(g) => Tight(h)
        BY <1>0, <1>2, <4>1, EveryReason, AddGapIs
      <4> QED BY <1>2, <4>2
    <3>2. CASE ~joins
      <4>1. h = Append(g, [from |-> q, to |-> q, reason |-> "filtered"])
        BY <2>0, <3>2 DEF Report
      <4>2. /\ h \in Seq(Gap)
            /\ \A o \in Reasons : Reported(h, o) = IF o = "filtered" THEN Reported(g, o) \cup q .. q
                                                  ELSE Reported(g, o)
            /\ Ascends(g) /\ EndsBy(g, q - 1) => Ascends(h) /\ EndsBy(h, q)
            /\ Tight(g) /\ (g = <<>> \/ g[Len(g)].to + 1 # q \/ g[Len(g)].reason # "filtered")
                 => Tight(h)
        BY <1>0, <1>2, <4>1, EveryReason, AppendedGap, Zenon
      <4> QED BY <1>2, <3>2, <4>2
    <3> QED BY <3>1, <3>2
  <2>2. Reported(h, "pruned") = Reported(g, "pruned")
        /\ Reported(h, "filtered") = Reported(g, "filtered") \cup {q}
        /\ Reported(h, "unavailable") = Reported(g, "unavailable")
    BY <1>3, <2>1, EveryReason
  <2>3. Reported(h, "filtered") = (after + 1 .. q) \cap held \cap hidden
    BY <1>3, <1>6, <2>2 DEF Tells
  <2> QED BY <1>4, <2>1, <2>2, <2>3 DEF Tells
<1> QED BY <1>5, <1>6

(* Where both readers begin. *)
LEMMA SkipIs ==
  ASSUME RangesInv, NEW after \in 0 .. HighWater, NEW hidden
  PROVE  LET start == Skip(after)
         IN  /\ start.at \in Nat /\ after <= start.at /\ start.at <= HighWater
             /\ NoneLeft(after, start.at)
             /\ start.at = after => \A q \in held : low < q /\ low <= after
             /\ Tells(start.gaps, after, start.at, hidden) /\ Tight(start.gaps)
<1>1. after \in Nat /\ HighWater \in Int /\ low \in Nat /\ low <= HighWater /\ after <= HighWater
      /\ \A q \in held : q \in Nat /\ low < q
  <2>1. HighWater \in Int /\ HighWater >= 0
    BY PositionAssumption DEF RangesInv, HighWater
  <2>2. held \subseteq 1 .. HighWater /\ low \in 0 .. HighWater /\ \A q \in held : low < q
    BY DEF RangesInv
  <2> QED BY <2>1, <2>2
<1>2. Tells(<<>>, after, after, hidden) /\ Tight(<<>>)
  <2>1. <<>> \in Seq(Gap) /\ Len(<<>>) = 0 /\ 1 .. 0 = {} /\ 1 .. 0 - 1 = {} /\ after + 1 .. after = {}
    BY <1>1
  <2>2. \A o : Reported(<<>>, o) = {}
    BY <2>1 DEF Reported
  <2> QED BY <2>1, <2>2 DEF Tells, Ascends, EndsBy, Tight
<1>3. CASE after < low
  <2>1. Skip(after).gaps = AddGap(<<>>, after + 1, low, "pruned") /\ Skip(after).at = low
    BY <1>3 DEF Skip
  <2>2. NoneLeft(after, low)
    BY <1>1 DEF NoneLeft
  <2>3. Tells(Skip(after).gaps, after, low, hidden) /\ Tight(Skip(after).gaps)
    <3>1. after <= after
      BY <1>1
    <3> QED BY <1>1, <1>2, <1>3, <2>1, <2>2, <3>1, TellsPruned
  <2> QED BY <1>1, <1>3, <2>1, <2>2, <2>3
<1>4. CASE ~(after < low)
  <2>1. Skip(after).gaps = <<>> /\ Skip(after).at = after
    BY <1>4 DEF Skip
  <2>2. NoneLeft(after, after)
    BY <1>1 DEF NoneLeft
  <2> QED BY <1>1, <1>2, <1>4, <2>1, <2>2
<1> QED BY <1>3, <1>4

(* The entries after one position, up to another. *)
RowsBetween(from, to) == held \cap (from + 1 .. to)

(* Walking all entries between two positions: the list tells of everything  *)
(* up to the last one of them.                                              *)
LEMMA WalkIs ==
  ASSUME RangesInv, NEW after \in Nat, NEW start \in Nat, NEW end \in Nat, NEW hidden,
         NEW joins \in BOOLEAN, after <= start, start <= end, start <= HighWater,
         NEW g, Tells(g, after, start, hidden),
         NEW rows, rows = RowsBetween(start, end),
         NEW page, page = WalkRows(g, start, rows, hidden, joins)
  PROVE  /\ page.at \in Nat /\ start <= page.at /\ page.at <= end
         /\ rows = RowsBetween(start, page.at)
         /\ rows # {} => page.at \in rows
         /\ rows = {} => page.at = start
         /\ Tells(page.gaps, after, page.at, hidden)
         /\ joins /\ Tight(g) => Tight(page.gaps)
<1> DEFINE n == Cardinality(rows)
           s == InOrder(rows)
<1>0. rows = held \cap (start + 1 .. end)
  BY DEF RowsBetween
<1>1. HighWater \in Int /\ rows \subseteq Nat /\ IsFiniteSet(rows) /\ rows \subseteq held
      /\ \A q \in held : q \in Nat /\ q <= HighWater
  <2>1. HighWater \in Int /\ held \subseteq 1 .. HighWater
    BY PositionAssumption DEF RangesInv, HighWater
  <2>2. IsFiniteSet(1 .. HighWater)
    BY <2>1, FS_Interval
  <2>3. rows \subseteq 1 .. HighWater
    BY <1>0, <2>1
  <2>4. IsFiniteSet(rows)
    BY <2>2, <2>3, FS_Subset
  <2> QED BY <1>0, <2>1, <2>4
<1>2. /\ n \in Nat /\ s \in [1 .. n -> rows]
      /\ \A q \in rows : \E i \in 1 .. n : s[i] = q
      /\ \A i, j \in 1 .. n : i < j => s[i] < s[j]
  <2> HIDE DEF n, s
  <2>1. n = Cardinality(rows) /\ s = InOrder(rows)
    BY DEF n, s
  <2> QED BY <1>1, <2>1, InOrderIs
<1>3. DOMAIN InOrder(rows) = 1 .. n
  BY <1>2
<1> HIDE DEF n
<1>4. PICK acc : /\ acc[0] = [gaps |-> g, at |-> start]
                 /\ \A k \in 1 .. n : acc[k] = Walked(acc[k - 1], s[k], hidden, joins)
                 /\ page = acc[n]
  <2>1. \E acc : /\ acc[0] = [gaps |-> g, at |-> start]
                 /\ \A k \in 1 .. n : acc[k] = Walked(acc[k - 1], InOrder(rows)[k], hidden, joins)
                 /\ WalkRows(g, start, rows, hidden, joins) = acc[n]
    <3> HIDE DEF s
    <3>1. n \in Nat
      BY <1>2
    <3> QED BY <1>3, <3>1, WalkSteps
  <2> QED BY <2>1
<1> HIDE DEF s
<1> DEFINE Place(k) == IF k = 0 THEN start ELSE s[k]
           Done(k) == /\ acc[k].at = Place(k)
                      /\ Tells(acc[k].gaps, after, Place(k), hidden)
                      /\ joins /\ Tight(g) => Tight(acc[k].gaps)
           T == {k \in 0 .. n : Done(k)}
<1>5. \A i \in 1 .. n : s[i] \in held /\ s[i] \in Nat /\ start < s[i] /\ s[i] <= end
                       /\ s[i] <= HighWater
  <2> SUFFICES ASSUME NEW i \in 1 .. n
               PROVE  s[i] \in held /\ s[i] \in Nat /\ start < s[i] /\ s[i] <= end
                      /\ s[i] <= HighWater
    OBVIOUS
  <2>1. s[i] \in rows
    BY <1>2
  <2> QED BY <1>0, <1>1, <2>1
<1>6. 0 \in T
  <2>1. Done(0)
    BY <1>4
  <2> HIDE DEF Done
  <2> QED BY <1>2, <2>1
<1>7. ASSUME NEW k \in 0 .. n - 1, k \in T PROVE k + 1 \in T
  <2>1. k \in Nat /\ k + 1 \in 1 .. n /\ k + 1 \in 0 .. n /\ (k + 1) - 1 = k /\ k + 1 # 0
    BY <1>2
  <2> DEFINE at == Place(k)
             q == s[k + 1]
             l == acc[k].gaps
             m == AddMissingGaps(l, ranges, at + 1, q - 1)
             h == IF q \in hidden THEN Report(m, q, joins) ELSE m
  <2>2. q \in held /\ q \in Nat /\ start < q /\ q <= HighWater
    BY <1>5, <2>1
  <2>3. at \in Nat /\ start <= at /\ at < q
    <3>1. CASE k = 0
      BY <2>2, <3>1
    <3>2. CASE k # 0
      <4>1. k \in 1 .. n /\ k < k + 1
        BY <1>2, <2>1, <3>2
      <4>2. s[k] < s[k + 1]
        BY <1>2, <2>1, <4>1
      <4> QED BY <1>5, <3>2, <4>1, <4>2
    <3> QED BY <3>1, <3>2
  <2>4. NoneLeft(at, q - 1)
    <3> SUFFICES ASSUME NEW x \in held, at < x, x < q PROVE FALSE
      BY <1>1, <2>2, <2>3 DEF NoneLeft
    <3>1. x \in rows
      <4>1. x \in Nat
        BY <1>1
      <4>2. q <= end
        BY <1>5, <2>1
      <4>3. start + 1 <= x /\ x <= end
        BY <2>2, <2>3, <4>1, <4>2
      <4> QED BY <1>0, <4>1, <4>3
    <3>2. PICK j \in 1 .. n : s[j] = x
      BY <1>2, <3>1
    <3>3. x \in Nat
      BY <1>1
    <3>4. ~(k + 1 < j) /\ j # k + 1
      <4>1. ~(s[k + 1] < s[j]) /\ s[j] # s[k + 1]
        BY <2>2, <3>2, <3>3
      <4> QED BY <1>2, <2>1, <4>1
    <3>5. j <= k /\ k # 0 /\ k \in 1 .. n
      BY <1>2, <2>1, <3>4
    <3>6. s[j] <= s[k]
      <4>1. CASE j = k
        BY <1>5, <3>5, <4>1
      <4>2. CASE j < k
        BY <1>2, <1>5, <3>5, <4>2
      <4> QED BY <3>5, <4>1, <4>2
    <3> QED BY <2>3, <3>2, <3>3, <3>5, <3>6
  <2>5. Done(k)
    BY <1>7
  <2>6. acc[k].at = at /\ Tells(l, after, at, hidden) /\ (joins /\ Tight(g) => Tight(l))
    BY <2>5
  <2>7. acc[k + 1] = Walked(acc[k], q, hidden, joins)
    BY <1>4, <2>1
  <2>8. acc[k + 1].gaps = h /\ acc[k + 1].at = q
    BY <2>6, <2>7 DEF Walked
  <2>9. Place(k + 1) = q
    BY <2>1
  <2> HIDE DEF Done, Place, at, q, l, m, h
  <2>10. q - 1 \in Nat /\ at <= q - 1 /\ q - 1 <= HighWater /\ after <= at /\ after < q
    BY <1>1, <2>2, <2>3
  <2>11. Tells(m, after, q - 1, hidden) /\ (Tight(l) => Tight(m))
    <3>1. m = AddMissingGaps(l, ranges, at + 1, q - 1)
      BY DEF m
    <3>2. PICK to \in Nat, from \in Nat : to = q - 1 /\ from = at + 1
      BY <2>3, <2>10
    <3>3. /\ RangesInv /\ after \in Nat /\ at \in Nat /\ to \in Nat /\ after <= at /\ at <= to
          /\ to <= HighWater /\ NoneLeft(at, to) /\ Tells(l, after, at, hidden)
          /\ from = at + 1 /\ m = AddMissingGaps(l, ranges, from, to)
      BY <2>3, <2>4, <2>6, <2>10, <3>1, <3>2
    <3>4. Tells(m, after, to, hidden) /\ (Tight(l) => Tight(m))
      BY ONLY <3>3, TellsMissing
    <3> QED BY <3>2, <3>4
  <2>12. Tells(h, after, q, hidden) /\ (joins /\ Tight(m) => Tight(h))
    <3>1. h = IF q \in hidden THEN Report(m, q, joins) ELSE m
      BY DEF h
    <3>2. /\ RangesInv /\ after \in Nat /\ q \in held /\ joins \in BOOLEAN
          /\ after < q /\ Tells(m, after, q - 1, hidden)
          /\ h = IF q \in hidden THEN Report(m, q, joins) ELSE m
      BY <2>2, <2>10, <2>11, <3>1
    <3> QED BY ONLY <3>2, TellsRow
  <2>13. Done(k + 1)
    BY <2>6, <2>8, <2>9, <2>11, <2>12 DEF Done
  <2> QED BY <2>1, <2>13
<1> HIDE DEF T
<1>8. \A k \in 0 .. n : k \in T
  BY <1>2, <1>6, <1>7, Upto, Zenon
<1>9. n \in T
  BY <1>2, <1>8
<1>10. Done(n)
  BY <1>9 DEF T
<1>11. page.at = Place(n) /\ Tells(page.gaps, after, page.at, hidden)
       /\ (joins /\ Tight(g) => Tight(page.gaps))
  BY <1>4, <1>10
<1> HIDE DEF Done
<1>12. CASE n = 0
  <2>1. page.at = start
    BY <1>11, <1>12
  <2>2. rows = {}
    <3>1. 1 .. 0 = {}
      OBVIOUS
    <3> QED BY <1>2, <1>12, <3>1
  <2>3. start + 1 .. start = {}
    OBVIOUS
  <2>4. rows = RowsBetween(start, page.at)
    BY <2>1, <2>2, <2>3 DEF RowsBetween
  <2> QED BY <1>11, <2>1, <2>2, <2>4
<1>13. CASE n # 0
  <2>1. n \in 1 .. n
    BY <1>2, <1>13
  <2>2. page.at = s[n] /\ s[n] \in rows
    BY <1>2, <1>11, <1>13, <2>1
  <2>3. page.at \in Nat /\ start <= page.at /\ page.at <= end
    BY <1>5, <2>1, <2>2
  <2>4. \A q \in rows : q <= page.at
    <3> SUFFICES ASSUME NEW q \in rows PROVE q <= page.at
      OBVIOUS
    <3>1. PICK i \in 1 .. n : s[i] = q
      BY <1>2
    <3>2. i = n \/ i < n
      BY <1>2
    <3>3. q = s[n] \/ q < s[n]
      BY <1>2, <2>1, <3>1, <3>2
    <3> QED BY <1>1, <2>2, <2>3, <3>3
  <2>5. rows = RowsBetween(start, page.at)
    <3>1. \A q : q \in start + 1 .. end <=> q \in Nat /\ start + 1 <= q /\ q <= end
      OBVIOUS
    <3>2. \A q : q \in start + 1 .. page.at <=> q \in Nat /\ start + 1 <= q /\ q <= page.at
      BY <2>3
    <3>3. \A q \in Nat : q <= page.at => q <= end
      BY <2>3
    <3> QED BY <1>0, <2>4, <3>1, <3>2, <3>3 DEF RowsBetween
  <2> QED BY <1>11, <2>2, <2>3, <2>5
<1> QED BY <1>12, <1>13

(* A list that tells of everything passed makes a page that accounts for it.*)
LEMMA TellsAccounts ==
  ASSUME NEW page, NEW after \in Nat, NEW hidden, page.at \in Nat,
         Tells(page.gaps, after, page.at, hidden),
         page.shown = ((after + 1 .. page.at) \cap held) \ hidden
  PROVE  PageAccountsFor(page, after, hidden)
<1> DEFINE g == page.gaps
           Said(reason) == UNION {Span(g[i]) : i \in {j \in DOMAIN g : g[j].reason = reason}}
<1>1. g \in Seq(Gap) /\ Ascends(g) /\ DOMAIN g = 1 .. Len(g)
  BY DEF Tells
<1>2. \A i \in DOMAIN g : g[i] \in Gap
  BY <1>1
<1>3. \A i \in DOMAIN g : g[i].from \in Nat /\ g[i].to \in Nat /\ g[i].from <= g[i].to
  BY <1>2, GapIs
<1>4. ASSUME NEW reason PROVE Said(reason) = Reported(g, reason)
  <2>1. \A i \in DOMAIN g : \A p : p \in Span(g[i]) <=> p \in Nat /\ g[i].from <= p /\ p <= g[i].to
    BY <1>3 DEF Span
  <2>2. \A p : p \in Said(reason) <=>
             \E i \in DOMAIN g : g[i].reason = reason /\ p \in Span(g[i])
    OBVIOUS
  <2>3. \A p : p \in Reported(g, reason) <=>
             \E i \in DOMAIN g : g[i].reason = reason /\ p \in Nat /\ g[i].from <= p /\ p <= g[i].to
    BY <1>1 DEF Reported
  <2> HIDE DEF Said
  <2>4. \A p : p \in Said(reason) <=> p \in Reported(g, reason)
    BY <2>1, <2>2, <2>3
  <2> QED BY <2>4
<1>5. /\ Said("pruned") = (after + 1 .. page.at) \cap PrunedPositions
      /\ Said("filtered") = (after + 1 .. page.at) \cap held \cap hidden
      /\ Said("unavailable") = {}
  <2> HIDE DEF Said
  <2> QED BY <1>4 DEF Tells
<1> QED BY <1>1, <1>3, <1>5 DEF PageAccountsFor, Ascends

(* A page of Pull, wherever the cursor is and whatever was pruned. *)
LEMMA PullIsSound ==
  ASSUME RangesInv, NEW after \in 0 .. HighWater, NEW limit \in 1 .. MaxPosition,
         NEW hidden \in SUBSET held, NEW page, page = Pull(after, limit, hidden)
  PROVE  PageAccountsFor(page, after, hidden) /\ Tight(page.gaps)
<1> DEFINE start == Skip(after)
           end == IF HighWater <= start.at THEN start.at
                  ELSE Min({HighWater, start.at + limit})
           rows == held \cap (start.at + 1 .. end)
           walked == WalkRows(start.gaps, start.at, rows, hidden, TRUE)
           last == AddMissingGaps(walked.gaps, ranges, walked.at + 1, end)
<1>1. page = [gaps |-> last, at |-> end, shown |-> rows \ hidden]
  BY DEF Pull
<1>2. /\ start.at \in Nat /\ after <= start.at /\ start.at <= HighWater
      /\ NoneLeft(after, start.at)
      /\ Tells(start.gaps, after, start.at, hidden) /\ Tight(start.gaps)
  BY SkipIs
<1>3. after \in Nat /\ HighWater \in Int /\ limit \in Nat /\ 1 <= limit
  <2>1. HighWater \in Int
    BY PositionAssumption DEF RangesInv, HighWater
  <2> QED BY <2>1, PositionAssumption
<1> HIDE DEF start
<1>4. end \in Nat /\ start.at <= end /\ end <= HighWater
  <2>1. CASE HighWater <= start.at
    BY <1>2, <1>3, <2>1
  <2>2. CASE ~(HighWater <= start.at)
    <3> DEFINE a == start.at + limit
    <3>1. a \in Nat /\ start.at <= a
      BY <1>2, <1>3
    <3>2. {HighWater, a} \subseteq Int /\ HighWater \in {HighWater, a} /\ a \in {HighWater, a}
      BY <1>3, <3>1
    <3>3. end = Min({HighWater, a})
      BY <2>2
    <3> HIDE DEF a
    <3>4. CASE HighWater <= a
      <4>1. \A x \in {HighWater, a} : HighWater <= x
        BY <1>3, <3>1, <3>4
      <4>2. Min({HighWater, a}) = HighWater
        BY <3>2, <4>1, MinIs
      <4> QED BY <1>2, <1>3, <2>2, <3>3, <4>2
    <3>5. CASE ~(HighWater <= a)
      <4>1. \A x \in {HighWater, a} : a <= x
        BY <1>3, <3>1, <3>5
      <4>2. Min({HighWater, a}) = a
        BY <3>2, <4>1, MinIs
      <4> QED BY <1>3, <3>1, <3>3, <3>5, <4>2
    <3> QED BY <3>4, <3>5
  <2> QED BY <2>1, <2>2
<1> HIDE DEF end, walked
<1>5. /\ walked.at \in Nat /\ start.at <= walked.at /\ walked.at <= end
      /\ rows = held \cap (start.at + 1 .. walked.at)
      /\ Tells(walked.gaps, after, walked.at, hidden)
      /\ Tight(walked.gaps)
  <2>1. PICK from, g : from \in Nat /\ from = start.at /\ g = start.gaps
    BY <1>2
  <2>2. PICK to, page2, rows2 :
          to \in Nat /\ to = end /\ rows2 = RowsBetween(from, to) /\ page2 = walked
    BY <1>4
  <2>3. PICK joins \in BOOLEAN : joins = TRUE
    OBVIOUS
  <2>4. walked = WalkRows(g, from, rows2, hidden, joins)
    BY <2>1, <2>2, <2>3 DEF walked, RowsBetween
  <2>5. /\ RangesInv /\ after \in Nat /\ from \in Nat /\ to \in Nat /\ joins \in BOOLEAN
        /\ after <= from /\ from <= to /\ from <= HighWater
        /\ Tells(g, after, from, hidden) /\ rows2 = RowsBetween(from, to)
        /\ page2 = WalkRows(g, from, rows2, hidden, joins)
    BY <1>2, <1>3, <1>4, <2>1, <2>2, <2>4
  <2>6. /\ page2.at \in Nat /\ from <= page2.at /\ page2.at <= to
        /\ rows2 = RowsBetween(from, page2.at)
        /\ rows2 # {} => page2.at \in rows2
        /\ rows2 = {} => page2.at = from
        /\ Tells(page2.gaps, after, page2.at, hidden)
        /\ joins /\ Tight(g) => Tight(page2.gaps)
    BY ONLY <2>5, WalkIs
  <2> QED BY <1>2, <2>1, <2>2, <2>6, <2>3 DEF RowsBetween
<1>6. NoneLeft(walked.at, end)
  <2>1. \A q \in held : walked.at < q /\ q <= end => q \in rows
    <3> SUFFICES ASSUME NEW q \in held, walked.at < q, q <= end PROVE q \in rows
      OBVIOUS
    <3>1. q \in Nat
      <4>1. held \subseteq 1 .. HighWater
        BY DEF RangesInv
      <4> QED BY <1>3, <4>1
    <3>2. start.at + 1 <= q
      BY <1>2, <1>5, <3>1
    <3>3. q \in start.at + 1 .. end
      BY <1>2, <1>4, <3>1, <3>2
    <3> QED BY <3>3
  <2>2. \A q \in rows : q <= walked.at /\ q \in Int
    <3>1. \A q \in start.at + 1 .. walked.at : q <= walked.at /\ q \in Int
      BY <1>2, <1>5
    <3> QED BY <1>5, <3>1
  <2> HIDE DEF rows
  <2> QED BY <1>5, <2>1, <2>2 DEF NoneLeft
<1>7. Tells(last, after, end, hidden) /\ Tight(last)
  <2>1. PICK at, to, from, g, h :
          at \in Nat /\ to \in Nat /\ from \in Nat /\ at = walked.at /\ to = end /\ from = at + 1
          /\ g = walked.gaps /\ h = last
    BY <1>4, <1>5
  <2>2. /\ RangesInv /\ after \in Nat /\ at \in Nat /\ to \in Nat /\ after <= at /\ at <= to
        /\ to <= HighWater /\ NoneLeft(at, to) /\ Tells(g, after, at, hidden)
        /\ from = at + 1 /\ h = AddMissingGaps(g, ranges, from, to)
    BY <1>2, <1>3, <1>4, <1>5, <1>6, <2>1
  <2>3. Tells(h, after, to, hidden) /\ (Tight(g) => Tight(h))
    BY ONLY <2>2, TellsMissing
  <2> QED BY <1>5, <2>1, <2>3
<1>8. rows = (after + 1 .. end) \cap held
  <2>1. \A q \in held : q \in Nat /\ (after < q => ~(q <= start.at))
    <3>1. held \subseteq 1 .. HighWater
      BY DEF RangesInv
    <3> QED BY <1>2, <1>3, <3>1 DEF NoneLeft
  <2>2. \A q \in held : q \in start.at + 1 .. end <=> q \in after + 1 .. end
    BY <1>2, <1>3, <1>4, <2>1
  <2> QED BY <2>2
<1> HIDE DEF rows, last
<1>9. page.gaps = last /\ page.at = end /\ page.shown = ((after + 1 .. page.at) \cap held) \ hidden
  BY <1>1, <1>8
<1>10. page.at \in Nat /\ Tells(page.gaps, after, page.at, hidden)
  BY <1>4, <1>7, <1>9
<1> QED BY <1>3, <1>7, <1>9, <1>10, TellsAccounts

(* A page of ScanPublications. *)
LEMMA ScanIsSound ==
  ASSUME RangesInv, NEW after \in 0 .. HighWater, NEW limit \in 1 .. MaxPosition,
         NEW hidden, NEW page, page = ScanPublications(after, limit, hidden)
  PROVE  PageAccountsFor(page, after, hidden) /\ (page.at = after => \A q \in held : q <= after)
<1> DEFINE start == Skip(after)
           rest == {q \in held : q > start.at}
           above == InOrder(rest)
           m == Min({limit, Len(above)})
           rows == ToSet(SubSeq(above, 1, m))
           walked == WalkRows(start.gaps, start.at, rows, hidden, FALSE)
<1>1. page = [gaps |-> walked.gaps, at |-> walked.at, shown |-> rows \ hidden]
  BY DEF ScanPublications
<1>2. /\ start.at \in Nat /\ after <= start.at /\ start.at <= HighWater
      /\ NoneLeft(after, start.at)
      /\ Tells(start.gaps, after, start.at, hidden)
  BY SkipIs
<1>3. after \in Nat /\ HighWater \in Int /\ limit \in Nat /\ 1 <= limit
      /\ \A q \in held : q \in Nat
  <2>1. HighWater \in Int /\ held \subseteq 1 .. HighWater
    BY PositionAssumption DEF RangesInv, HighWater
  <2> QED BY <2>1, PositionAssumption
<1> HIDE DEF start
<1> DEFINE n == Cardinality(rest)
<1>4. /\ n \in Nat /\ above \in [1 .. n -> rest]
      /\ \A q \in rest : \E i \in 1 .. n : above[i] = q
      /\ \A i, j \in 1 .. n : i < j => above[i] < above[j]
  <2>1. rest \subseteq Nat /\ rest \subseteq 1 .. HighWater /\ IsFiniteSet(1 .. HighWater)
    <3>1. held \subseteq 1 .. HighWater
      BY DEF RangesInv
    <3>2. IsFiniteSet(1 .. HighWater)
      BY <1>3, FS_Interval
    <3> QED BY <1>3, <3>1, <3>2
  <2> HIDE DEF n, above, rest
  <2>2. IsFiniteSet(rest)
    BY <2>1, FS_Subset
  <2>3. n = Cardinality(rest) /\ above = InOrder(rest)
    BY DEF n, above
  <2> QED BY <2>1, <2>2, <2>3, InOrderIs
<1> HIDE DEF above, n
<1>5. above \in Seq(rest) /\ Len(above) = n
  <2> HIDE DEF rest
  <2> QED BY <1>4
<1>6. m \in 0 .. n /\ (m = 0 => n = 0)
  <2>1. {limit, n} \subseteq Int /\ limit \in {limit, n} /\ n \in {limit, n}
    BY <1>3, <1>4
  <2>2. m = Min({limit, n})
    BY <1>5
  <2>3. CASE limit <= n
    <3>1. \A x \in {limit, n} : limit <= x
      BY <1>3, <1>4, <2>3
    <3>2. Min({limit, n}) = limit
      BY <2>1, <3>1, MinIs
    <3> QED BY <1>3, <1>4, <2>2, <2>3, <3>2
  <2>4. CASE ~(limit <= n)
    <3>1. \A x \in {limit, n} : n <= x
      BY <1>3, <1>4, <2>4
    <3>2. Min({limit, n}) = n
      BY <2>1, <3>1, MinIs
    <3> QED BY <1>4, <2>2, <3>2
  <2> QED BY <2>3, <2>4
<1> HIDE DEF m
<1>7. rows = {above[i] : i \in 1 .. m}
  <2> HIDE DEF rest
  <2>1. m \in Nat /\ m <= Len(above) /\ above \in Seq(rest)
    BY <1>4, <1>5, <1>6
  <2>2. /\ DOMAIN SubSeq(above, 1, m) = 1 .. m
        /\ \A i \in 1 .. m : SubSeq(above, 1, m)[i] = above[i]
    BY <2>1
  <2> QED BY <2>2 DEF ToSet
<1> HIDE DEF rows
<1>8. \A i \in 1 .. n : above[i] \in held /\ above[i] \in Nat /\ above[i] > start.at
  BY <1>3, <1>4
<1> DEFINE end == IF m = 0 THEN start.at ELSE above[m]
<1>9. end \in Nat /\ start.at <= end
  BY <1>2, <1>4, <1>6, <1>8
<1>10. rows = held \cap (start.at + 1 .. end)
  <2>1. CASE m = 0
    <3>1. start.at + 1 .. end = {} /\ 1 .. m = {}
      BY <1>2, <2>1
    <3> QED BY <1>7, <3>1
  <2>2. CASE m # 0
    <3>0. m \in 1 .. n /\ end = above[m]
      BY <1>4, <1>6, <2>2
    <3>1. ASSUME NEW q \in rows PROVE q \in held /\ q \in start.at + 1 .. end
      <4>1. PICK i \in 1 .. m : above[i] = q
        BY <1>7
      <4>2. i \in 1 .. n /\ (i = m \/ i < m)
        BY <1>4, <1>6
      <4>3. q = end \/ q < end
        BY <1>4, <3>0, <4>1, <4>2
      <4>4. q \in held /\ q \in Nat /\ q > start.at
        BY <1>8, <4>1, <4>2
      <4>5. q <= end /\ start.at + 1 <= q
        BY <1>2, <1>9, <4>3, <4>4
      <4> HIDE DEF end
      <4> QED BY <1>2, <1>9, <4>4, <4>5
    <3>2. ASSUME NEW q \in held, q \in start.at + 1 .. end PROVE q \in rows
      <4>1. q \in Nat /\ q > start.at /\ q <= end /\ q \in rest
        BY <1>2, <1>9, <3>2
      <4>2. PICK i \in 1 .. n : above[i] = q
        BY <1>4, <4>1
      <4>3. ~(above[m] < above[i])
        BY <1>8, <3>0, <4>1, <4>2
      <4>4. ~(m < i)
        BY <1>4, <3>0, <4>3
      <4>5. i \in 1 .. m
        BY <1>4, <3>0, <4>4
      <4> QED BY <1>7, <4>2, <4>5
    <3> QED BY <3>1, <3>2
  <2> QED BY <2>1, <2>2
<1> HIDE DEF walked, end, rest
<1>11. /\ walked.at \in Nat /\ start.at <= walked.at /\ walked.at <= end
       /\ rows = held \cap (start.at + 1 .. walked.at)
       /\ rows # {} => walked.at \in rows
       /\ Tells(walked.gaps, after, walked.at, hidden)
  <2>1. PICK from, g : from \in Nat /\ from = start.at /\ g = start.gaps
    BY <1>2
  <2>2. PICK to, page2, rows2 :
          to \in Nat /\ to = end /\ rows2 = rows /\ page2 = walked
    BY <1>9
  <2>3. PICK joins \in BOOLEAN : joins = FALSE
    OBVIOUS
  <2>4. walked = WalkRows(g, from, rows2, hidden, joins)
    BY <2>1, <2>2, <2>3 DEF walked, RowsBetween
  <2>5. /\ RangesInv /\ after \in Nat /\ from \in Nat /\ to \in Nat /\ joins \in BOOLEAN
        /\ after <= from /\ from <= to /\ from <= HighWater
        /\ Tells(g, after, from, hidden) /\ rows2 = RowsBetween(from, to)
        /\ page2 = WalkRows(g, from, rows2, hidden, joins)
    BY <1>2, <1>3, <1>9, <1>10, <2>1, <2>2, <2>4 DEF RowsBetween
  <2>6. /\ page2.at \in Nat /\ from <= page2.at /\ page2.at <= to
        /\ rows2 = RowsBetween(from, page2.at)
        /\ rows2 # {} => page2.at \in rows2
        /\ rows2 = {} => page2.at = from
        /\ Tells(page2.gaps, after, page2.at, hidden)
        /\ joins /\ Tight(g) => Tight(page2.gaps)
    BY ONLY <2>5, WalkIs
  <2> QED BY <2>1, <2>2, <2>6 DEF RowsBetween
<1>12. rows = (after + 1 .. walked.at) \cap held
  <2>1. \A q \in held : q \in Nat /\ (after < q => ~(q <= start.at))
    BY <1>2, <1>3 DEF NoneLeft
  <2>2. \A q \in held : q \in start.at + 1 .. walked.at <=> q \in after + 1 .. walked.at
    BY <1>2, <1>3, <1>11, <2>1
  <2> QED BY <1>11, <2>2
<1>13. page.gaps = walked.gaps /\ page.at = walked.at
       /\ page.shown = ((after + 1 .. page.at) \cap held) \ hidden
  BY <1>1, <1>12
<1>14. PageAccountsFor(page, after, hidden)
  BY <1>3, <1>11, <1>13, TellsAccounts
<1>15. ASSUME page.at = after PROVE \A q \in held : q <= after
  <2>1. walked.at = after /\ start.at = after
    BY <1>2, <1>3, <1>11, <1>13, <1>15
  <2>2. rows = {}
    <3>1. \A q \in rows : q > after
      BY <1>12, <1>3, <1>11
    <3> QED BY <1>3, <1>11, <2>1, <3>1
  <2>3. m = 0
    <3> SUFFICES ASSUME m # 0 PROVE FALSE
      OBVIOUS
    <3>1. 1 \in 1 .. m
      BY <1>4, <1>6
    <3> QED BY <1>7, <2>2, <3>1
  <2>4. rest = {}
    <3>1. n = 0 /\ 1 .. 0 = {}
      BY <1>6, <2>3
    <3> QED BY <1>4, <3>1
  <2> QED BY <1>3, <2>1, <2>4 DEF rest
<1> QED BY <1>14, <1>15

-----------------------------------------------------------------------------
(* Both readers account for every position they pass (Pull and              *)
(* ScanPublications with addMissingGaps and addGap): for any cursor, page   *)
(* size and set of hidden entries, after any sequence of batches, each      *)
(* position is delivered or in one gap of the right reason.                 *)
THEOREM ReadersAlwaysAccount == Spec => []ReadersAccount
<1>1. ASSUME RangesInv PROVE PullAccounts
  <2> SUFFICES ASSUME NEW after \in 0 .. HighWater, NEW limit \in 1 .. MaxPosition,
                      NEW hidden \in SUBSET held
               PROVE  LET page == Pull(after, limit, hidden)
                          g == page.gaps
                      IN  /\ PageAccountsFor(page, after, hidden)
                          /\ \A i \in 1 .. Len(g) - 1 :
                               g[i].to + 1 = g[i + 1].from => g[i].reason # g[i + 1].reason
    BY DEF PullAccounts
  <2>1. PageAccountsFor(Pull(after, limit, hidden), after, hidden)
        /\ Tight(Pull(after, limit, hidden).gaps)
    BY <1>1, PullIsSound
  <2> QED BY <2>1 DEF Tight
<1>2. ASSUME RangesInv PROVE ScanAccounts
  <2> SUFFICES ASSUME NEW after \in 0 .. HighWater, NEW limit \in 1 .. MaxPosition,
                      NEW hidden \in {{}, held, {q \in held : q % 2 = 0}}
               PROVE  LET page == ScanPublications(after, limit, hidden)
                      IN  /\ PageAccountsFor(page, after, hidden)
                          /\ page.at = after => \A q \in held : q <= after
    BY DEF ScanAccounts
  <2> QED BY <1>2, ScanIsSound
<1>3. RangesInv => ReadersAccount
  BY <1>1, <1>2 DEF ReadersAccount
<1> QED BY <1>3, SpecInv, PTL
=============================================================================
