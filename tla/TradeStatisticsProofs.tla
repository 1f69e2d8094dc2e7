---- MODULE TradeStatisticsProofs ----
(***************************************************************************)
(* Proofs about TradeStatistics, for every window, number of candlesticks, *)
(* clock difference and sequence of trades.  The containers never grow     *)
(* beyond the minutes they may hold: when nothing stored is too old, all   *)
(* of it lies in an interval no longer than the bound.  Each candlestick,  *)
(* and each total of the moving average, is exactly what the trades of its *)
(* minutes amount to; this rests on what a sum over a finite set is, which *)
(* is proved here first, by induction over sets of numbers.                *)
(***************************************************************************)
EXTENDS TradeStatistics, FiniteSetTheorems, WellFoundedInduction, TLAPS

(* Sums over finite sets *)

(* Induction over the natural numbers, for a set of them. *)
LEMMA NatSetInduction ==
    ASSUME NEW A, 0 \in A, \A n \in Nat : n \in A => n + 1 \in A
    PROVE  Nat \subseteq A
<1> SUFFICES ASSUME Nat \ A # {} PROVE FALSE
    OBVIOUS
<1>1. PICK b \in Nat \ A : \A c \in Nat \ A : ~(<<c, b>> \in OpToRel(<, Nat))
    BY NatLessThanWellFounded, WFMin
<1>2. b \in Nat /\ b \notin A
    OBVIOUS
<1>4. b # 0
    BY <1>2
<1>5. b - 1 \in Nat /\ b = (b - 1) + 1
    BY <1>2, <1>4
<1>3. <<b - 1, b>> \in OpToRel(<, Nat)
    BY <1>2, <1>5 DEF OpToRel
<1>6. b - 1 \in A
    BY <1>1, <1>3, <1>5
<1> QED BY <1>2, <1>5, <1>6

Pick(T) == CHOOSE x \in T : TRUE
(* What the fold computes at a set, from what it has at smaller ones. *)
SumAt(f, h, T) == IF T = {} THEN 0 ELSE f[Pick(T)] + h[T \ {Pick(T)}]

LEMMA PickOut ==
    ASSUME NEW S, IsFiniteSet(S), NEW T \in SUBSET S
    PROVE  /\ Cardinality(T) \in Nat
           /\ T # {} => /\ Pick(T) \in T /\ T \ {Pick(T)} \in SUBSET S
                        /\ Cardinality(T) = Cardinality(T \ {Pick(T)}) + 1
                        /\ Cardinality(T \ {Pick(T)}) \in Nat
<1>1. IsFiniteSet(T) /\ Cardinality(T) \in Nat
    BY FS_Subset, FS_CardinalityType
<1>2. ASSUME T # {} PROVE Pick(T) \in T
    BY <1>2 DEF Pick
<1>3. ASSUME NEW x \in T
      PROVE Cardinality(T) = Cardinality(T \ {x}) + 1 /\ Cardinality(T \ {x}) \in Nat
    <2>1. IsFiniteSet(T \ {x}) /\ Cardinality(T \ {x}) = Cardinality(T) - 1
        BY <1>1, FS_RemoveElement
    <2>2. Cardinality(T \ {x}) \in Nat
        BY <2>1, FS_CardinalityType
    <2> QED BY <1>1, <2>1, <2>2
<1> QED BY <1>1, <1>2, <1>3

LEMMA SumFunctionExists ==
    ASSUME NEW S, IsFiniteSet(S), NEW f, \A x \in S : f[x] \in Int
    PROVE  \E h \in [SUBSET S -> Int] : \A T \in SUBSET S : h[T] = SumAt(f, h, T)
<1> DEFINE Upto(n, h) == \A T \in SUBSET S : Cardinality(T) <= n => h[T] = SumAt(f, h, T)
           A == {n \in Nat : \E h \in [SUBSET S -> Int] : Upto(n, h)}
<1>1. 0 \in A
    <2> DEFINE h == [T \in SUBSET S |-> 0]
    <2>1. h \in [SUBSET S -> Int]
        OBVIOUS
    <2>2. ASSUME NEW T \in SUBSET S, Cardinality(T) <= 0 PROVE h[T] = SumAt(f, h, T)
        <3>1. T = {}
            <4>1. IsFiniteSet(T) /\ Cardinality(T) \in Nat
                BY FS_Subset, PickOut
            <4>2. Cardinality(T) = 0
                BY <2>2, <4>1
            <4> QED BY <4>1, <4>2, FS_EmptySet
        <3> QED BY <3>1 DEF SumAt
    <2> QED BY <2>1, <2>2
<1>2. ASSUME NEW n \in Nat, n \in A PROVE n + 1 \in A
    <2>1. PICK h \in [SUBSET S -> Int] : Upto(n, h)
        BY <1>2
    <2> DEFINE g == [T \in SUBSET S |-> IF Cardinality(T) = n + 1 THEN SumAt(f, h, T) ELSE h[T]]
    <2>2. \A T \in SUBSET S : SumAt(f, h, T) \in Int
        BY PickOut DEF SumAt
    <2>3. g \in [SUBSET S -> Int]
        BY <2>2
    <2>4. ASSUME NEW T \in SUBSET S, Cardinality(T) <= n + 1 PROVE g[T] = SumAt(f, g, T)
        <3>1. g[T] = SumAt(f, h, T)
            <4>1. CASE Cardinality(T) = n + 1
                BY <4>1
            <4>2. CASE Cardinality(T) # n + 1
                <5>1. Cardinality(T) <= n
                    <6>1. Cardinality(T) \in Nat
                        BY PickOut
                    <6> QED BY <2>4, <4>2, <6>1
                <5> QED BY <2>1, <4>2, <5>1
            <4> QED BY <4>1, <4>2
        <3>2. SumAt(f, h, T) = SumAt(f, g, T)
            <4>1. ASSUME T # {} PROVE h[T \ {Pick(T)}] = g[T \ {Pick(T)}]
                BY <2>4, <4>1, PickOut
            <4> HIDE DEF g
            <4> QED BY <4>1 DEF SumAt
        <3> QED BY <3>1, <3>2
    <2> HIDE DEF g
    <2> QED BY <2>3, <2>4
<1>3. Cardinality(S) \in A
    <2> HIDE DEF A
    <2> QED BY <1>1, <1>2, NatSetInduction, FS_CardinalityType
<1>4. PICK h \in [SUBSET S -> Int] : Upto(Cardinality(S), h)
    BY <1>3
<1>5. \A T \in SUBSET S : Cardinality(T) <= Cardinality(S)
    BY FS_Subset
<1> QED BY <1>4, <1>5

LEMMA SumFunctionUnique ==
    ASSUME NEW S, IsFiniteSet(S), NEW f, NEW g, NEW h,
           \A T \in SUBSET S : g[T] = SumAt(f, g, T) /\ h[T] = SumAt(f, h, T)
    PROVE  \A T \in SUBSET S : g[T] = h[T]
<1> DEFINE A == {n \in Nat : \A T \in SUBSET S : Cardinality(T) = n => g[T] = h[T]}
<1>1. 0 \in A
    <2>1. ASSUME NEW T \in SUBSET S, Cardinality(T) = 0 PROVE g[T] = h[T]
        <3>1. T = {}
            BY <2>1, FS_Subset, FS_EmptySet
        <3>2. g[T] = 0 /\ h[T] = 0
            BY <3>1 DEF SumAt
        <3> QED BY <3>2
    <2> QED BY <2>1
<1>2. ASSUME NEW n \in Nat, n \in A PROVE n + 1 \in A
    <2>1. ASSUME NEW T \in SUBSET S, Cardinality(T) = n + 1 PROVE g[T] = h[T]
        <3>1. T # {}
            BY <2>1, FS_EmptySet
        <3>2. T \ {Pick(T)} \in SUBSET S /\ Cardinality(T \ {Pick(T)}) = n
            BY <2>1, <3>1, PickOut
        <3>3. g[T \ {Pick(T)}] = h[T \ {Pick(T)}]
            BY <1>2, <3>2
        <3>4. g[T] = f[Pick(T)] + g[T \ {Pick(T)}] /\ h[T] = f[Pick(T)] + h[T \ {Pick(T)}]
            BY <3>1 DEF SumAt
        <3> QED BY <3>3, <3>4
    <2> QED BY <2>1
<1>3. Nat \subseteq A
    <2> HIDE DEF A
    <2> QED BY <1>1, <1>2, NatSetInduction
<1> QED BY <1>3, PickOut

(* The sum over a finite set, one element taken out. *)
LEMMA SumUnfolds ==
    ASSUME NEW S, IsFiniteSet(S), NEW f, \A x \in S : f[x] \in Int
    PROVE  \A T \in SUBSET S :
              /\ SumFunctionOnSet(f, T) \in Int
              /\ T = {} => SumFunctionOnSet(f, T) = 0
              /\ T # {} => SumFunctionOnSet(f, T) = f[Pick(T)] + SumFunctionOnSet(f, T \ {Pick(T)})
<1>1. PICK h \in [SUBSET S -> Int] : \A T \in SUBSET S : h[T] = SumAt(f, h, T)
    BY SumFunctionExists
<1>2. ASSUME NEW T \in SUBSET S PROVE SumFunctionOnSet(f, T) = h[T]
    <2> DEFINE iter == CHOOSE iter : iter = [s \in SUBSET T |->
                  IF s = {} THEN 0
                      ELSE f[CHOOSE x \in s : TRUE] + iter[s \ {CHOOSE x \in s : TRUE}]]
    <2>1. SumFunctionOnSet(f, T) = iter[T]
        BY DEF SumFunctionOnSet, FoldFunctionOnSet, MapThenFoldSet
    <2>2. iter = [s \in SUBSET T |-> SumAt(f, iter, s)]
        <3> DEFINE k == [s \in SUBSET T |-> h[s]]
        <3>1. k = [s \in SUBSET T |->
                  IF s = {} THEN 0 ELSE f[CHOOSE x \in s : TRUE] + k[s \ {CHOOSE x \in s : TRUE}]]
            BY <1>1 DEF SumAt, Pick
        <3>2. iter = [s \in SUBSET T |->
                  IF s = {} THEN 0
                      ELSE f[CHOOSE x \in s : TRUE] + iter[s \ {CHOOSE x \in s : TRUE}]]
            <4> HIDE DEF k
            <4> QED BY <3>1
        <3> HIDE DEF iter
        <3> QED BY <3>2 DEF SumAt, Pick
    <2> HIDE DEF iter
    <2>3. \A s \in SUBSET T : iter[s] = SumAt(f, iter, s)
        BY <2>2
    <2>4. IsFiniteSet(T)
        BY FS_Subset
    <2>5. iter[T] = h[T]
        <3>1. \A s \in SUBSET T : iter[s] = SumAt(f, iter, s) /\ h[s] = SumAt(f, h, s)
            BY <1>1, <2>3
        <3>2. \A s \in SUBSET T : iter[s] = h[s]
            BY <2>4, <3>1, SumFunctionUnique
        <3> QED BY <3>2
    <2> QED BY <2>1, <2>5
<1>3. ASSUME NEW T \in SUBSET S, T # {}
      PROVE  SumFunctionOnSet(f, T) = f[Pick(T)] + SumFunctionOnSet(f, T \ {Pick(T)})
    <2>1. h[T] = f[Pick(T)] + h[T \ {Pick(T)}]
        BY <1>1, <1>3 DEF SumAt
    <2>2. T \ {Pick(T)} \in SUBSET S
        OBVIOUS
    <2> QED BY <1>2, <2>1, <2>2
<1>4. ASSUME NEW T \in SUBSET S, T = {} PROVE SumFunctionOnSet(f, T) = 0
    BY <1>1, <1>2, <1>4 DEF SumAt
<1>5. \A T \in SUBSET S : SumFunctionOnSet(f, T) \in Int
    BY <1>2
<1> QED BY <1>3, <1>4, <1>5

(* Sums of integers over finite sets: any element may be taken out. *)
LEMMA SumTakesOut ==
    ASSUME NEW S, IsFiniteSet(S), NEW f, \A x \in S : f[x] \in Int
    PROVE  /\ SumFunctionOnSet(f, S) \in Int
           /\ SumFunctionOnSet(f, {}) = 0
           /\ \A x \in S : SumFunctionOnSet(f, S) = f[x] + SumFunctionOnSet(f, S \ {x})
<1> DEFINE h == [T \in SUBSET S |-> SumFunctionOnSet(f, T)]
<1>1. /\ h \in [SUBSET S -> Int]
      /\ \A T \in SUBSET S :
            h[T] = SumAt(f, h, T) /\ SumFunctionOnSet(f, T) = h[T]
    <2>1. \A T \in SUBSET S : SumFunctionOnSet(f, T) \in Int
        BY SumUnfolds
    <2>2. ASSUME NEW T \in SUBSET S, T # {} PROVE h[T] = SumAt(f, h, T)
        <3>1. SumFunctionOnSet(f, T) = f[Pick(T)] + SumFunctionOnSet(f, T \ {Pick(T)})
            BY <2>2, SumUnfolds
        <3>2. T \ {Pick(T)} \in SUBSET S
            OBVIOUS
        <3> QED BY <2>2, <3>1, <3>2 DEF SumAt
    <2>3. ASSUME NEW T \in SUBSET S, T = {} PROVE h[T] = SumAt(f, h, T)
        BY <2>3, SumUnfolds DEF SumAt
    <2> QED BY <2>1, <2>2, <2>3
<1> HIDE DEF h
<1> DEFINE A == {n \in Nat : \A T \in SUBSET S : Cardinality(T) = n =>
                              \A x \in T : h[T] = f[x] + h[T \ {x}]}
<1>2. 0 \in A
    <2>1. ASSUME NEW T \in SUBSET S, Cardinality(T) = 0 PROVE T = {}
        BY <2>1, FS_Subset, FS_EmptySet
    <2> QED BY <2>1
<1>3. ASSUME NEW n \in Nat, n \in A PROVE n + 1 \in A
    <2>1. ASSUME NEW T \in SUBSET S, Cardinality(T) = n + 1, NEW x \in T
          PROVE  h[T] = f[x] + h[T \ {x}]
        <3> DEFINE y == Pick(T)
                   U == T \ {y}
                   V == T \ {x}
                   W == U \ {x}
        <3>1. /\ y \in T /\ U \in SUBSET S /\ V \in SUBSET S /\ W \in SUBSET S
              /\ W = V \ {y} /\ Cardinality(U) = n
            <4>1. T # {}
                BY <2>1
            <4>2. y \in T /\ U \in SUBSET S /\ Cardinality(T) = Cardinality(U) + 1
                      /\ Cardinality(U) \in Nat
                BY <4>1, PickOut
            <4>3. Cardinality(U) = n
                <5> HIDE DEF U
                <5> QED BY <2>1, <4>2
            <4> HIDE DEF y
            <4> QED BY <4>2, <4>3
        <3>2. Cardinality(V) = n
            <4>1. IsFiniteSet(T)
                BY FS_Subset
            <4>2. Cardinality(T \ {x}) = Cardinality(T) - 1
                BY <2>1, <4>1, FS_RemoveElement
            <4> QED BY <2>1, <4>2
        <3>3. h[T] = f[y] + h[U]
            BY <1>1 DEF SumAt
        <3>4. f[x] \in Int /\ f[y] \in Int /\ h[W] \in Int
            BY <1>1, <3>1
        <3>5. CASE x = y
            BY <3>3, <3>5
        <3>6. CASE x # y
            <4>1. h[U] = f[x] + h[W]
                BY <1>3, <3>1, <3>6
            <4>2. h[V] = f[y] + h[W]
                <5> HIDE DEF y, U, W
                <5>1. y \in V
                    BY <3>1, <3>6
                <5> HIDE DEF V
                <5>2. h[V] = f[y] + h[V \ {y}]
                    BY <1>3, <3>1, <3>2, <5>1
                <5> QED BY <3>1, <5>2
            <4> HIDE DEF y, U, V, W
            <4>3. h[T] = f[y] + (f[x] + h[W]) /\ h[V] = f[y] + h[W]
                BY <3>3, <4>1, <4>2
            <4>4. h[T] = f[x] + h[V]
                BY <3>4, <4>3
            <4> QED BY <4>4 DEF V
        <3> QED BY <3>5, <3>6
    <2> QED BY <2>1
<1>4. Nat \subseteq A
    <2> HIDE DEF A
    <2> QED BY <1>2, <1>3, NatSetInduction
<1>5. \A x \in S : h[S] = f[x] + h[S \ {x}]
    BY <1>4, FS_CardinalityType
<1>6. h[{}] = 0
    BY <1>1 DEF SumAt
<1> QED BY <1>1, <1>5, <1>6

LEMMA SumAddsElement ==
    ASSUME NEW S, IsFiniteSet(S), NEW x, x \notin S, NEW f, \A y \in S \cup {x} : f[y] \in Int
    PROVE  SumFunctionOnSet(f, S \cup {x}) = SumFunctionOnSet(f, S) + f[x]
<1>1. IsFiniteSet(S \cup {x}) /\ (S \cup {x}) \ {x} = S
    BY FS_AddElement
<1>2. SumFunctionOnSet(f, S) \in Int /\ f[x] \in Int
    BY SumTakesOut
<1>3. SumFunctionOnSet(f, S \cup {x}) = f[x] + SumFunctionOnSet(f, (S \cup {x}) \ {x})
    BY <1>1, SumTakesOut
<1>4. SumFunctionOnSet(f, S \cup {x}) = f[x] + SumFunctionOnSet(f, S)
    BY <1>1, <1>3
<1> QED BY <1>2, <1>4

(* Finite sets, built one element after the other. *)
LEMMA FiniteSetInduction ==
    ASSUME NEW S, IsFiniteSet(S), NEW G, {} \in G,
           \A T \in SUBSET S : \A x \in S \ T : T \in G => T \cup {x} \in G
    PROVE  S \in G
<1> DEFINE A == {n \in Nat : \A T \in SUBSET S : Cardinality(T) = n => T \in G}
<1>1. 0 \in A
    <2>1. ASSUME NEW T \in SUBSET S, Cardinality(T) = 0 PROVE T = {}
        BY <2>1, FS_Subset, FS_EmptySet
    <2> QED BY <2>1
<1>2. ASSUME NEW n \in Nat, n \in A PROVE n + 1 \in A
    <2>1. ASSUME NEW T \in SUBSET S, Cardinality(T) = n + 1 PROVE T \in G
        <3>1. T # {}
            <4>1. Cardinality({}) = 0
                BY FS_EmptySet
            <4> QED BY <2>1, <4>1
        <3> DEFINE U == T \ {Pick(T)}
        <3>2. /\ U \in SUBSET S /\ Cardinality(U) = n
              /\ Pick(T) \in S \ U /\ U \cup {Pick(T)} = T
            BY <2>1, <3>1, PickOut
        <3>3. U \in G
            BY <1>2, <3>2
        <3> HIDE DEF U
        <3> QED BY <3>2, <3>3
    <2> QED BY <2>1
<1>3. Nat \subseteq A
    <2> HIDE DEF A
    <2> QED BY <1>1, <1>2, NatSetInduction
<1> QED BY <1>3, FS_CardinalityType

(* Sums of functions that agree; sums over a difference. *)
LEMMA SumAgrees ==
    ASSUME NEW S, IsFiniteSet(S), NEW f, NEW g, \A x \in S : f[x] \in Int /\ f[x] = g[x]
    PROVE  SumFunctionOnSet(f, S) = SumFunctionOnSet(g, S)
<1> DEFINE G == {T \in SUBSET S : SumFunctionOnSet(f, T) = SumFunctionOnSet(g, T)}
<1>1. {} \in G
    <2>1. SumFunctionOnSet(f, {}) = 0 /\ SumFunctionOnSet(g, {}) = 0
        BY FS_EmptySet, SumTakesOut
    <2> QED BY <2>1
<1>2. ASSUME NEW T \in SUBSET S, NEW x \in S \ T, T \in G PROVE T \cup {x} \in G
    <2>1. IsFiniteSet(T)
        BY FS_Subset
    <2>2. SumFunctionOnSet(f, T \cup {x}) = SumFunctionOnSet(f, T) + f[x]
        BY <2>1, SumAddsElement
    <2>3. SumFunctionOnSet(g, T \cup {x}) = SumFunctionOnSet(g, T) + g[x]
        BY <2>1, SumAddsElement
    <2> QED BY <1>2, <2>2, <2>3
<1> HIDE DEF G
<1>3. S \in G
    BY <1>1, <1>2, FiniteSetInduction
<1> QED BY <1>3 DEF G

LEMMA SumSplits ==
    ASSUME NEW S, IsFiniteSet(S), NEW T \in SUBSET S, NEW f, \A x \in S : f[x] \in Int
    PROVE  SumFunctionOnSet(f, S) = SumFunctionOnSet(f, S \ T) + SumFunctionOnSet(f, T)
<1> DEFINE G == {U \in SUBSET T :
                   SumFunctionOnSet(f, (S \ T) \cup U)
                       = SumFunctionOnSet(f, S \ T) + SumFunctionOnSet(f, U)}
<1>0. IsFiniteSet(T) /\ IsFiniteSet(S \ T) /\ SumFunctionOnSet(f, S \ T) \in Int
    <2>1. IsFiniteSet(T) /\ IsFiniteSet(S \ T)
        BY FS_Subset, FS_Difference
    <2> QED BY <2>1, SumTakesOut
<1>1. {} \in G
    <2>1. SumFunctionOnSet(f, {}) = 0 /\ (S \ T) \cup {} = S \ T
        BY SumTakesOut
    <2> QED BY <1>0, <2>1
<1>2. ASSUME NEW U \in SUBSET T, NEW x \in T \ U, U \in G PROVE U \cup {x} \in G
    <2>1. IsFiniteSet(U) /\ IsFiniteSet((S \ T) \cup U)
        BY <1>0, FS_Subset, FS_Union
    <2>2. SumFunctionOnSet(f, U \cup {x}) = SumFunctionOnSet(f, U) + f[x]
        BY <2>1, SumAddsElement
    <2>3. SumFunctionOnSet(f, ((S \ T) \cup U) \cup {x})
              = SumFunctionOnSet(f, (S \ T) \cup U) + f[x]
        BY <2>1, SumAddsElement
    <2>4. ((S \ T) \cup U) \cup {x} = (S \ T) \cup (U \cup {x})
        OBVIOUS
    <2>5. SumFunctionOnSet(f, U) \in Int /\ f[x] \in Int
        BY <2>1, SumTakesOut
    <2>6. SumFunctionOnSet(f, (S \ T) \cup U) = SumFunctionOnSet(f, S \ T) + SumFunctionOnSet(f, U)
        BY <1>2
    <2>7. SumFunctionOnSet(f, (S \ T) \cup (U \cup {x}))
              = SumFunctionOnSet(f, (S \ T) \cup U) + f[x]
        BY <2>3, <2>4
    <2>8. SumFunctionOnSet(f, (S \ T) \cup (U \cup {x}))
              = SumFunctionOnSet(f, S \ T) + SumFunctionOnSet(f, U \cup {x})
        BY <1>0, <2>2, <2>5, <2>6, <2>7
    <2>9. U \cup {x} \in SUBSET T
        OBVIOUS
    <2> QED BY <2>8, <2>9
<1> HIDE DEF G
<1>3. T \in G
    BY <1>0, <1>1, <1>2, FiniteSetInduction
<1>4. (S \ T) \cup T = S
    OBVIOUS
<1> QED BY <1>3, <1>4 DEF G
----------------------------------------------------------------------------
(* The sizes of the containers *)

(* A set of recent minutes is no larger than their number. *)
LEMMA RecentMinutes ==
    ASSUME NEW now \in Nat, NEW n \in Nat \ {0}, NEW ahead \in Nat, NEW S,
           S \subseteq (now - (n - 1)) .. (now + ahead)
    PROVE  IsFiniteSet(S) /\ Cardinality(S) <= n + ahead
<1>1. now - (n - 1) \in Int /\ now + ahead \in Int
    OBVIOUS
<1>2. IsFiniteSet((now - (n - 1)) .. (now + ahead))
    BY <1>1, FS_Interval
<1>3. Cardinality((now - (n - 1)) .. (now + ahead)) = n + ahead
    BY <1>1, FS_Interval
<1>4. S \in SUBSET ((now - (n - 1)) .. (now + ahead))
    OBVIOUS
<1>5. IsFiniteSet(S) /\ Cardinality(S) <= Cardinality((now - (n - 1)) .. (now + ahead))
    BY <1>2, <1>4, FS_Subset
<1> QED BY <1>3, <1>5

LEMMA MinutesFinite ==
    ASSUME NEW now \in Nat, NEW ahead \in Nat, NEW S, S \subseteq 0 .. (now + ahead)
    PROVE  IsFiniteSet(S) /\ Cardinality(S) \in Nat
<1>1. IsFiniteSet(0 .. (now + ahead))
    BY FS_Interval
<1>2. S \in SUBSET (0 .. (now + ahead))
    OBVIOUS
<1>3. IsFiniteSet(S)
    BY <1>1, <1>2, FS_Subset
<1> QED BY <1>3, FS_CardinalityType

(* One eviction undoes one insertion. *)
LEMMA EvictBound ==
    ASSUME NEW now \in Nat, NEW ahead \in Nat, NEW n \in Nat \ {0},
           NEW D, D \subseteq 0 .. (now + ahead), Cardinality(D) <= n + ahead,
           NEW m \in 0 .. (now + ahead), NEW x \in D \cup {m}
    PROVE  Cardinality((D \cup {m}) \ {x}) <= n + ahead
<1>1. IsFiniteSet(D) /\ Cardinality(D) \in Nat
    BY MinutesFinite
<1>2. IsFiniteSet(D \cup {m}) /\ Cardinality(D \cup {m}) <= Cardinality(D) + 1
    BY <1>1, FS_AddElement
<1>3. Cardinality(D \cup {m}) \in Nat
    BY <1>2, FS_CardinalityType
<1>4. Cardinality((D \cup {m}) \ {x}) = Cardinality(D \cup {m}) - 1
    BY <1>2, FS_RemoveElement
<1> QED BY <1>1, <1>2, <1>3, <1>4

(* CandlestickManager::addTrade keeps the bound. *)
LEMMA AddCandleBound ==
    ASSUME NEW t \in Trades, minute \in Nat, CandleAccepts(t, minute),
           t.minute <= minute + Ahead, AddCandle(t, minute),
           DOMAIN candles \subseteq 0 .. (minute + Ahead),
           Cardinality(DOMAIN candles) <= CandleMinutes + Ahead
    PROVE  /\ DOMAIN candles' \subseteq 0 .. (minute + Ahead)
           /\ Cardinality(DOMAIN candles') <= CandleMinutes + Ahead
<1> DEFINE D == DOMAIN candles \cup {t.minute}
           stale == {m \in D : m < OldestCandle(minute)}
<1>0. Ahead \in Nat /\ CandleMinutes \in Nat \ {0} /\ t.minute \in 0 .. (minute + Ahead)
    BY StatisticsAssumption, CandleMinutesAssumption DEF Trades
<1>1. D \subseteq 0 .. (minute + Ahead)
    BY <1>0
<1>2. CASE Cardinality(D) > CandleMinutes /\ stale # {}
    <2>1. PICK x \in stale : DOMAIN candles' = D \ {x}
        BY <1>2 DEF AddCandle, Evict, Restrict
    <2>2. x \in D
        OBVIOUS
    <2>3. Cardinality(D \ {x}) <= CandleMinutes + Ahead
        BY <1>0, <2>2, EvictBound
    <2> QED BY <1>1, <2>1, <2>3
<1>3. CASE ~(Cardinality(D) > CandleMinutes /\ stale # {})
    <2>1. DOMAIN candles' = D
        BY <1>3 DEF AddCandle, Evict
    <2>2. IsFiniteSet(D) /\ Cardinality(D) \in Nat
        BY <1>0, <1>1, MinutesFinite
    <2>3. CASE stale = {}
        <3>1. D \subseteq (minute - (CandleMinutes - 1)) .. (minute + Ahead)
            BY <1>0, <1>1, <2>3 DEF OldestCandle
        <3>2. Cardinality(D) <= CandleMinutes + Ahead
            BY <1>0, <3>1, RecentMinutes
        <3> QED BY <1>1, <2>1, <3>2
    <2>4. CASE ~(Cardinality(D) > CandleMinutes)
        <3>1. Cardinality(D) <= CandleMinutes + Ahead
            BY <1>0, <2>2, <2>4
        <3> QED BY <1>1, <2>1, <3>1
    <2> QED BY <1>3, <2>3, <2>4
<1> QED BY <1>2, <1>3

(* prune() keeps the bound, and is what both methods end with. *)
LEMMA StoreBound ==
    ASSUME NEW grown, NEW s, NEW c, minute \in Nat, Store(grown, s, c, minute),
           DOMAIN grown \subseteq 0 .. (minute + Ahead)
    PROVE  /\ DOMAIN averages' \subseteq 0 .. (minute + Ahead)
           /\ Cardinality(DOMAIN averages') <= MinutesStored + Ahead
<1> DEFINE D == DOMAIN grown
<1>0. Ahead \in Nat /\ MinutesStored \in Nat \ {0}
    BY StatisticsAssumption, WindowAssumption DEF MinutesStored
<1>1. IsFiniteSet(D) /\ Cardinality(D) \in Nat
    BY <1>0, MinutesFinite
<1>2. CASE Cardinality(D) > MinutesStored
    <2>1. DOMAIN averages' = D \ {m \in D : m < OldestAverage(minute)}
        BY <1>2 DEF Store, Restrict
    <2>2. DOMAIN averages' \subseteq (minute - (MinutesStored - 1)) .. (minute + Ahead)
        BY <1>0, <2>1 DEF OldestAverage
    <2>3. Cardinality(DOMAIN averages') <= MinutesStored + Ahead
        BY <1>0, <2>2, RecentMinutes
    <2> QED BY <2>1, <2>3
<1>3. CASE ~(Cardinality(D) > MinutesStored)
    <2>1. DOMAIN averages' = D
        BY <1>3 DEF Store, Restrict
    <2> QED BY <1>0, <1>1, <1>3, <2>1
<1> QED BY <1>2, <1>3

LEMMA InitIInv == Init => IInv
<1> SUFFICES ASSUME Init PROVE IInv
    OBVIOUS
<1>0. Ahead \in Nat /\ CandleMinutes \in Nat /\ MinutesStored \in Nat /\ FirstMinute \in Nat
    BY StatisticsAssumption, CandleMinutesAssumption, WindowAssumption DEF MinutesStored
<1>1. DOMAIN candles = {} /\ DOMAIN averages = {}
    BY DEF Init, CandlesInit, AverageInit
<1>2. Cardinality({}) = 0
    BY FS_EmptySet
<1>3. TypeOK
    <2>1. NoTrade \in Trades
        BY DEF Trades, NoTrade
    <2>2. minute = FirstMinute /\ updating = FALSE /\ trade = NoTrade /\ exporter = "idle"
        BY DEF Init
    <2>3. minute \in Nat /\ minute >= FirstMinute
        BY <1>0, <2>2
    <2>4. trade \in Trades /\ updating \in BOOLEAN
        BY <2>1, <2>2
    <2>5. candleLog = <<>> /\ averageLog = <<>>
        BY DEF Init
    <2> QED BY <2>2, <2>3, <2>4, <2>5 DEF TypeOK
<1>4. MinutesInv
    <2>1. trade.minute = 0 /\ minute \in Nat
        BY <1>0 DEF Init, NoTrade
    <2> QED BY <1>0, <1>1, <2>1 DEF MinutesInv
<1>5. SizeBound
    <2>1. Cardinality(DOMAIN candles) = 0 /\ Cardinality(DOMAIN averages) = 0
        BY <1>1, <1>2
    <2> QED BY <1>0, <2>1 DEF SizeBound
<1> QED BY <1>3, <1>4, <1>5 DEF IInv

LEMMA StepIInv == IInv /\ [Next]_vars => IInv'
<1> SUFFICES ASSUME IInv, [Next]_vars PROVE IInv'
    OBVIOUS
<1>0. Ahead \in Nat /\ FirstMinute \in Nat /\ minute \in Nat
    BY StatisticsAssumption DEF IInv, TypeOK
<1>1. CASE MinuteTurn
    <2>1. minute' = minute + 1
          /\ UNCHANGED <<candles, averages, trade, updating, exporter, candleLog, averageLog>>
        BY <1>1 DEF MinuteTurn, averageVars, threads, history
    <2>2. TypeOK'
        BY <1>0, <2>1 DEF IInv, TypeOK
    <2>3. 0 .. (minute + Ahead) \subseteq 0 .. (minute' + Ahead)
        BY <1>0, <2>1
    <2>4. MinutesInv'
        <3>1. trade.minute \in Nat
            BY DEF IInv, TypeOK, Trades
        <3> QED BY <1>0, <2>1, <2>3, <3>1 DEF IInv, MinutesInv
    <2>5. SizeBound'
        BY <2>1 DEF IInv, SizeBound
    <2> QED BY <2>2, <2>4, <2>5 DEF IInv
<1>2. CASE TradeArrives
    <2>1. PICK m \in (minute - MinutesStored) .. (minute + Ahead), s \in Samples :
              /\ m \in Nat
              /\ UpdateCandle([minute |-> m, second |-> s.second,
                               price |-> s.price, volume |-> s.volume])
        BY <1>2 DEF TradeArrives
    <2> DEFINE t == [minute |-> m, second |-> s.second, price |-> s.price, volume |-> s.volume]
    <2>2. t \in Trades /\ t.minute <= minute + Ahead
        <3>1. m <= minute + Ahead
            BY <1>0, WindowAssumption DEF MinutesStored
        <3> QED BY <2>1, <3>1, StatisticsAssumption DEF Trades
    <2>3. /\ updating' = TRUE /\ trade' = t
          /\ UNCHANGED <<averages, minute, exporter, averageLog>>
        BY <2>1 DEF UpdateCandle, averageVars
    <2>4. /\ DOMAIN candles' \subseteq 0 .. (minute + Ahead)
          /\ Cardinality(DOMAIN candles') <= CandleMinutes + Ahead
        <3> HIDE DEF t
        <3>1. CASE CandleAccepts(t, minute)
            <4>1. AddCandle(t, minute)
                BY <2>1, <3>1 DEF UpdateCandle, t
            <4> QED BY <1>0, <2>2, <3>1, <4>1, AddCandleBound DEF IInv, MinutesInv, SizeBound
        <3>2. CASE ~CandleAccepts(t, minute)
            <4>1. candles' = candles
                BY <2>1, <3>2 DEF UpdateCandle, t
            <4> QED BY <4>1 DEF IInv, MinutesInv, SizeBound
        <3> QED BY <3>1, <3>2
    <2>7. candleLog' = candleLog \/ candleLog' = Append(candleLog, t)
        BY <2>1 DEF UpdateCandle
    <2> HIDE DEF t
    <2>8. candleLog' \in Seq(Trades)
        BY <2>2, <2>7 DEF IInv, TypeOK
    <2>5. TypeOK'
        BY <2>2, <2>3, <2>8 DEF IInv, TypeOK
    <2>6. MinutesInv' /\ SizeBound'
        BY <2>2, <2>3, <2>4 DEF IInv, MinutesInv, SizeBound
    <2> QED BY <2>5, <2>6 DEF IInv
<1>3. CASE UpdateAverage
    <2>1. /\ updating' = FALSE /\ trade' = NoTrade
          /\ UNCHANGED <<candles, minute, exporter, candleLog>>
        BY <1>3 DEF UpdateAverage
    <2>2. /\ DOMAIN averages' \subseteq 0 .. (minute + Ahead)
          /\ Cardinality(DOMAIN averages') <= MinutesStored + Ahead
        <3>1. CASE AverageAccepts(trade, minute)
            <4>1. AddAverage(trade, minute)
                BY <1>3, <3>1 DEF UpdateAverage
            <4>2. trade.minute \in 0 .. (minute + Ahead)
                BY <1>0 DEF IInv, TypeOK, MinutesInv, Trades
            <4>3. DOMAIN WithMinute(trade.minute) \subseteq 0 .. (minute + Ahead)
                BY <4>2 DEF IInv, MinutesInv, WithMinute
            <4> DEFINE grown == [WithMinute(trade.minute) EXCEPT
                 ![trade.minute] = [sum |-> @.sum + trade.price * trade.volume,
                                    count |-> @.count + trade.volume]]
            <4>4. DOMAIN grown = DOMAIN WithMinute(trade.minute)
                OBVIOUS
            <4>5. Store(grown, sum + trade.price * trade.volume, count + trade.volume, minute)
                BY <4>1 DEF AddAverage
            <4> HIDE DEF grown
            <4> QED BY <1>0, <4>3, <4>4, <4>5, StoreBound
        <3>2. CASE ~AverageAccepts(trade, minute)
            <4>1. averages' = averages
                BY <1>3, <3>2 DEF UpdateAverage, averageVars
            <4> QED BY <4>1 DEF IInv, MinutesInv, SizeBound
        <3> QED BY <3>1, <3>2
    <2>5. averageLog' \in Seq(Trades)
        <3>1. averageLog' = averageLog \/ averageLog' = Append(averageLog, trade)
            BY <1>3 DEF UpdateAverage
        <3> QED BY <3>1 DEF IInv, TypeOK
    <2>6. NoTrade \in Trades
        BY DEF Trades, NoTrade
    <2>3. TypeOK'
        BY <2>1, <2>5, <2>6 DEF IInv, TypeOK
    <2>4. MinutesInv' /\ SizeBound'
        BY <1>0, <2>1, <2>2 DEF IInv, MinutesInv, SizeBound, NoTrade
    <2> QED BY <2>3, <2>4 DEF IInv
<1>4. CASE Wake \/ ExportCandle
    <2>1. UNCHANGED <<candles, averages, minute, updating, trade, candleLog, averageLog>>
          /\ exporter' \in {"candle", "average"}
        BY <1>4 DEF Wake, ExportCandle, averageVars, history
    <2> QED BY <2>1 DEF IInv, TypeOK, MinutesInv, SizeBound
<1>5. CASE ExportAverage
    <2>1. exporter' = "idle"
              /\ UNCHANGED <<candles, minute, updating, trade, candleLog, averageLog>>
        BY <1>5 DEF ExportAverage
    <2>2. Store(WithMinute(minute), sum, count, minute)
        BY <1>5 DEF ExportAverage, GetStatic
    <2>3. DOMAIN WithMinute(minute) \subseteq 0 .. (minute + Ahead)
        BY <1>0 DEF IInv, MinutesInv, WithMinute
    <2>4. /\ DOMAIN averages' \subseteq 0 .. (minute + Ahead)
          /\ Cardinality(DOMAIN averages') <= MinutesStored + Ahead
        BY <1>0, <2>2, <2>3, StoreBound
    <2> QED BY <2>1, <2>4 DEF IInv, TypeOK, MinutesInv, SizeBound
<1>6. CASE UNCHANGED vars
    BY <1>6 DEF vars, averageVars, threads, history, IInv, TypeOK, MinutesInv, SizeBound
<1> QED BY <1>1, <1>2, <1>3, <1>4, <1>5, <1>6 DEF Next

(* Every minute a container holds is one the clocks can show, and the      *)
(* sizes stay within their bounds.                                         *)
THEOREM InvariantHolds == Spec => []IInv
    BY InitIInv, StepIInv, PTL DEF Spec

(* The containers of a symbol never hold more than their minutes and those *)
(* the exchange's clock is ahead.                                          *)
THEOREM ContainersAreBounded == Spec => []SizeBound
<1>1. IInv => SizeBound
    BY DEF IInv
<1> QED BY <1>1, InvariantHolds, PTL
----------------------------------------------------------------------------
(* Totals over the trades of a log *)

LEMMA LoggedFinite ==
    ASSUME NEW log \in Seq(Trades), NEW M
    PROVE  /\ IsFiniteSet(LoggedIn(log, M)) /\ LoggedIn(log, M) \subseteq DOMAIN log
           /\ IsFiniteSet(DOMAIN log)
           /\ \A i \in DOMAIN log : Values(log)[i] \in Nat /\ Volumes(log)[i] \in Nat
<1>1. DOMAIN log = 1 .. Len(log) /\ Len(log) \in Nat
    OBVIOUS
<1>2. IsFiniteSet(DOMAIN log)
    BY <1>1, FS_Interval
<1>3. LoggedIn(log, M) \subseteq DOMAIN log
    BY DEF LoggedIn
<1>4. IsFiniteSet(LoggedIn(log, M))
    BY <1>2, <1>3, FS_Subset
<1>5. ASSUME NEW i \in DOMAIN log PROVE Values(log)[i] \in Nat /\ Volumes(log)[i] \in Nat
    <2>1. log[i] \in Trades
        OBVIOUS
    <2>2. log[i].price \in Nat /\ log[i].volume \in Nat
        BY <2>1 DEF Trades
    <2>3. log[i].price * log[i].volume \in Nat
        BY <2>2
    <2> QED BY <2>2, <2>3 DEF Values, Volumes
<1> QED BY <1>2, <1>3, <1>4, <1>5

(* Whole numbers for the trades of a log. *)
Weighs(f, log) == \A i \in DOMAIN log : f[i] \in Int
(* g says of each minute what f amounts to over its trades. *)
PerMinute(g, D, f, log) ==
    \A m \in D : g[m] = SumFunctionOnSet(f, LoggedIn(log, {m}))

LEMMA TotalSplits ==
    ASSUME NEW log \in Seq(Trades), NEW f, Weighs(f, log),
           NEW A, NEW B, B \subseteq A
    PROVE  /\ SumFunctionOnSet(f, LoggedIn(log, A)) \in Int
           /\ SumFunctionOnSet(f, LoggedIn(log, A))
                = SumFunctionOnSet(f, LoggedIn(log, A \ B)) + SumFunctionOnSet(f, LoggedIn(log, B))
<1> DEFINE S == LoggedIn(log, A)
           T == LoggedIn(log, B)
<1>1. IsFiniteSet(S) /\ S \subseteq DOMAIN log
    BY LoggedFinite
<1>2. T \in SUBSET S /\ S \ T = LoggedIn(log, A \ B)
    BY DEF LoggedIn
<1> HIDE DEF S, T
<1>3. \A i \in S : f[i] \in Int
    BY <1>1 DEF Weighs
<1>4. SumFunctionOnSet(f, S) = SumFunctionOnSet(f, S \ T) + SumFunctionOnSet(f, T)
    BY <1>1, <1>2, <1>3, SumSplits
<1>5. SumFunctionOnSet(f, S) \in Int
    BY <1>1, <1>3, SumTakesOut
<1>6. SumFunctionOnSet(f, S) = SumFunctionOnSet(f, LoggedIn(log, A \ B)) + SumFunctionOnSet(f, T)
    BY <1>2, <1>4
<1> QED BY <1>5, <1>6 DEF S, T

LEMMA TotalOfNone ==
    ASSUME NEW log \in Seq(Trades), NEW A, A \cap LoggedMinutes(log) = {}
    PROVE  SumOver(log, A) = 0 /\ CountOver(log, A) = 0
<1>1. LoggedIn(log, A) = {}
    BY DEF LoggedIn, LoggedMinutes
<1>2. IsFiniteSet({})
    BY FS_EmptySet
<1>3. SumFunctionOnSet(Values(log), {}) = 0
    BY <1>2, SumTakesOut
<1>4. SumFunctionOnSet(Volumes(log), {}) = 0
    BY <1>2, SumTakesOut
<1> QED BY <1>1, <1>3, <1>4 DEF SumOver, CountOver

LEMMA TotalByMinute ==
    ASSUME NEW log \in Seq(Trades), NEW f, Weighs(f, log),
           NEW D, IsFiniteSet(D), NEW g,
           PerMinute(g, D, f, log)
    PROVE  SumFunctionOnSet(g, D) = SumFunctionOnSet(f, LoggedIn(log, D))
<1> DEFINE G == {E \in SUBSET D : SumFunctionOnSet(g, E) = SumFunctionOnSet(f, LoggedIn(log, E))}
<1>0. ASSUME NEW m \in D PROVE g[m] \in Int
    <2>1. {m} \subseteq {m}
        OBVIOUS
    <2>2. SumFunctionOnSet(f, LoggedIn(log, {m})) \in Int
        BY <2>1, TotalSplits
    <2> QED BY <2>2 DEF PerMinute
<1>1. {} \in G
    <2>1. LoggedIn(log, {}) = {}
        BY DEF LoggedIn
    <2>2. IsFiniteSet({})
        BY FS_EmptySet
    <2>3. SumFunctionOnSet(g, {}) = 0 /\ SumFunctionOnSet(f, {}) = 0
        BY <2>2, SumTakesOut
    <2> QED BY <2>1, <2>3
<1>2. ASSUME NEW E \in SUBSET D, NEW m \in D \ E, E \in G PROVE E \cup {m} \in G
    <2>1. IsFiniteSet(E)
        BY FS_Subset
    <2>2. SumFunctionOnSet(g, E \cup {m}) = SumFunctionOnSet(g, E) + g[m]
        BY <1>0, <2>1, SumAddsElement
    <2>3. (E \cup {m}) \ {m} = E
        OBVIOUS
    <2>4. SumFunctionOnSet(f, LoggedIn(log, E \cup {m}))
              = SumFunctionOnSet(f, LoggedIn(log, (E \cup {m}) \ {m}))
                  + SumFunctionOnSet(f, LoggedIn(log, {m}))
        BY TotalSplits
    <2>5. SumFunctionOnSet(g, E \cup {m}) = SumFunctionOnSet(f, LoggedIn(log, E \cup {m}))
        BY <1>2, <2>2, <2>3, <2>4 DEF PerMinute
    <2> QED BY <2>5
<1> HIDE DEF G
<1>3. D \in G
    BY <1>1, <1>2, FiniteSetInduction
<1> QED BY <1>3 DEF G

LEMMA TotalAppends ==
    ASSUME NEW log \in Seq(Trades), NEW t \in Trades, NEW f, NEW g, NEW A,
           \A i \in DOMAIN log : f[i] \in Int /\ g[i] = f[i],
           g[Len(log) + 1] \in Int
    PROVE  SumFunctionOnSet(g, LoggedIn(Append(log, t), A))
             = SumFunctionOnSet(f, LoggedIn(log, A))
               + (IF t.minute \in A THEN g[Len(log) + 1] ELSE 0)
<1> DEFINE S == LoggedIn(log, A)
           n == Len(log) + 1
<1>1. IsFiniteSet(S) /\ S \subseteq DOMAIN log
    BY LoggedFinite
<1>2. n \notin DOMAIN log /\ n \notin S
    BY <1>1
<1>3. LoggedIn(Append(log, t), A) = IF t.minute \in A THEN S \cup {n} ELSE S
    <2>1. DOMAIN Append(log, t) = DOMAIN log \cup {n}
        OBVIOUS
    <2>2. Append(log, t)[n] = t /\ \A i \in DOMAIN log : Append(log, t)[i] = log[i]
        OBVIOUS
    <2> HIDE DEF n
    <2> QED BY <2>1, <2>2 DEF LoggedIn
<1> HIDE DEF S
<1>4. SumFunctionOnSet(g, S) = SumFunctionOnSet(f, S) /\ SumFunctionOnSet(f, S) \in Int
    <2>1. \A i \in S : f[i] \in Int /\ f[i] = g[i]
        BY <1>1
    <2> QED BY <1>1, <2>1, SumAgrees, SumTakesOut
<1>5. CASE t.minute \in A
    <2>1. \A i \in S \cup {n} : g[i] \in Int
        BY <1>1
    <2>2. SumFunctionOnSet(g, S \cup {n}) = SumFunctionOnSet(g, S) + g[n]
        BY <1>1, <1>2, <2>1, SumAddsElement
    <2> QED BY <1>3, <1>4, <1>5, <2>2 DEF S
<1>6. CASE t.minute \notin A
    BY <1>3, <1>4, <1>6 DEF S
<1> QED BY <1>5, <1>6

----------------------------------------------------------------------------
(* The moving average *)

Container(log, m) == [sum |-> SumOver(log, {m}), count |-> CountOver(log, {m})]

(* The moving average agrees with the trades logged. *)
Agrees(stored, s, c, log) ==
    /\ \A m \in DOMAIN stored : stored[m] = Container(log, m)
    /\ s = SumOver(log, DOMAIN stored)
    /\ c = CountOver(log, DOMAIN stored)

LEMMA TotalsOfMinutes ==
    ASSUME NEW log \in Seq(Trades), NEW D, NEW E, E \subseteq D
    PROVE  /\ SumOver(log, D) \in Int /\ CountOver(log, D) \in Int
           /\ SumOver(log, D \ E) = SumOver(log, D) - SumOver(log, E)
           /\ CountOver(log, D \ E) = CountOver(log, D) - CountOver(log, E)
<1>1. ASSUME NEW f, Weighs(f, log)
      PROVE  /\ SumFunctionOnSet(f, LoggedIn(log, D)) \in Int
             /\ SumFunctionOnSet(f, LoggedIn(log, D \ E))
                   = SumFunctionOnSet(f, LoggedIn(log, D)) - SumFunctionOnSet(f, LoggedIn(log, E))
    <2>1. /\ SumFunctionOnSet(f, LoggedIn(log, D)) \in Int
          /\ SumFunctionOnSet(f, LoggedIn(log, D))
                = SumFunctionOnSet(f, LoggedIn(log, D \ E)) + SumFunctionOnSet(f, LoggedIn(log, E))
        BY <1>1, TotalSplits
    <2>2. E \subseteq E
        OBVIOUS
    <2>3. SumFunctionOnSet(f, LoggedIn(log, E)) \in Int
        BY <1>1, <2>2, TotalSplits
    <2>4. D \ E \subseteq D \ E
        OBVIOUS
    <2>5. SumFunctionOnSet(f, LoggedIn(log, D \ E)) \in Int
        BY <1>1, <2>4, TotalSplits
    <2> QED BY <2>1, <2>3, <2>5
<1>2. Weighs(Values(log), log) /\ Weighs(Volumes(log), log)
    BY LoggedFinite DEF Weighs
<1>4. SumOver(log, D) \in Int /\ SumOver(log, D \ E) = SumOver(log, D) - SumOver(log, E)
    BY <1>1, <1>2 DEF SumOver
<1>5. CountOver(log, D) \in Int /\ CountOver(log, D \ E) = CountOver(log, D) - CountOver(log, E)
    BY <1>1, <1>2 DEF CountOver
<1> QED BY <1>4, <1>5

(* MovingAverage::prune takes from the totals what the containers it       *)
(* erases hold.                                                            *)
LEMMA StoreAgrees ==
    ASSUME NEW log \in Seq(Trades), NEW grown, NEW s, NEW c, NEW now \in Nat,
           IsFiniteSet(DOMAIN grown), DOMAIN grown \subseteq Int, Agrees(grown, s, c, log),
               Store(grown, s, c, now)
    PROVE  /\ Agrees(averages', sum', count', log)
           /\ DOMAIN averages' \subseteq DOMAIN grown
           /\ \A m \in DOMAIN grown : m >= OldestAverage(now) => m \in DOMAIN averages'
           /\ Cardinality(DOMAIN grown) > MinutesStored =>
                  \A m \in DOMAIN averages' : ~(m < OldestAverage(now))
           /\ ~(Cardinality(DOMAIN grown) > MinutesStored) => DOMAIN averages' = DOMAIN grown
<1> DEFINE D == DOMAIN grown
           stale == IF Cardinality(D) > MinutesStored
                    THEN {m \in D : m < OldestAverage(now)} ELSE {}
           sums == [m \in D |-> grown[m].sum]
           counts == [m \in D |-> grown[m].count]
<1>1. /\ DOMAIN averages' = D \ stale
      /\ \A m \in D \ stale : averages'[m] = grown[m]
      /\ sum' = s - SumFunctionOnSet(sums, stale)
      /\ count' = c - SumFunctionOnSet(counts, stale)
    BY DEF Store, Restrict
<1>2. stale \subseteq D /\ IsFiniteSet(stale)
    <2>1. stale \in SUBSET D
        OBVIOUS
    <2> QED BY <2>1, FS_Subset
<1>3. SumFunctionOnSet(sums, stale) = SumOver(log, stale)
    <2>1. PerMinute(sums, stale, Values(log), log)
        BY <1>2 DEF PerMinute, Agrees, Container, SumOver
    <2>2. Weighs(Values(log), log)
        BY LoggedFinite DEF Weighs
    <2> HIDE DEF stale, sums
    <2>3. SumFunctionOnSet(sums, stale) = SumFunctionOnSet(Values(log), LoggedIn(log, stale))
        BY <1>2, <2>1, <2>2, TotalByMinute
    <2> QED BY <2>3 DEF SumOver
<1>4. SumFunctionOnSet(counts, stale) = CountOver(log, stale)
    <2>1. PerMinute(counts, stale, Volumes(log), log)
        BY <1>2 DEF PerMinute, Agrees, Container, CountOver
    <2>2. Weighs(Volumes(log), log)
        BY LoggedFinite DEF Weighs
    <2> HIDE DEF stale, counts
    <2>3. SumFunctionOnSet(counts, stale) = SumFunctionOnSet(Volumes(log), LoggedIn(log, stale))
        BY <1>2, <2>1, <2>2, TotalByMinute
    <2> QED BY <2>3 DEF CountOver
<1>5. \A m \in D : m >= OldestAverage(now) => m \in D \ stale
    <2> SUFFICES ASSUME NEW m \in D, m >= OldestAverage(now), m < OldestAverage(now)
                 PROVE  FALSE
        OBVIOUS
    <2>1. m \in Int /\ OldestAverage(now) \in Int
        BY WindowAssumption DEF OldestAverage, MinutesStored
    <2> QED BY <2>1
<1>6. Cardinality(D) > MinutesStored => \A m \in D \ stale : ~(m < OldestAverage(now))
    OBVIOUS
<1>7. ~(Cardinality(D) > MinutesStored) => D \ stale = D
    OBVIOUS
<1> HIDE DEF stale, sums, counts
<1>8. Agrees(averages', sum', count', log)
    <2>1. sum' = SumOver(log, D \ stale) /\ count' = CountOver(log, D \ stale)
        <3>1. /\ SumOver(log, D \ stale) = SumOver(log, D) - SumOver(log, stale)
              /\ CountOver(log, D \ stale) = CountOver(log, D) - CountOver(log, stale)
            BY <1>2, TotalsOfMinutes
        <3> QED BY <1>1, <1>3, <1>4, <3>1 DEF Agrees
    <2> QED BY <1>1, <2>1 DEF Agrees
<1> QED BY <1>1, <1>5, <1>6, <1>7, <1>8

(* A new container is empty, and so are its trades. *)
LEMMA WithMinuteAgrees ==
    ASSUME NEW log \in Seq(Trades), NEW m, Agrees(averages, sum, count, log),
           m \in DOMAIN averages \/ m \notin LoggedMinutes(log)
    PROVE  Agrees(WithMinute(m), sum, count, log)
<1> DEFINE D == DOMAIN averages
           W == WithMinute(m)
<1>1. /\ DOMAIN W = D \cup {m}
      /\ \A k \in D : W[k] = averages[k]
      /\ m \notin D => W[m] = NoTrades
    BY DEF WithMinute
<1> HIDE DEF W
<1>2. CASE m \in D
    <2>1. D \cup {m} = D
        BY <1>2
    <2> QED BY <1>1, <2>1 DEF Agrees, W
<1>3. CASE m \notin D
    <2>1. SumOver(log, {m}) = 0 /\ CountOver(log, {m}) = 0
        BY <1>3, TotalOfNone
    <2>2. W[m] = Container(log, m)
        BY <1>1, <1>3, <2>1 DEF NoTrades, Container
    <2>3. (D \cup {m}) \ {m} = D
        BY <1>3
    <2>4. SumOver(log, D \cup {m}) \in Int /\ CountOver(log, D \cup {m}) \in Int
        BY TotalsOfMinutes
    <2>5. /\ SumOver(log, (D \cup {m}) \ {m}) = SumOver(log, D \cup {m}) - SumOver(log, {m})
          /\ CountOver(log, (D \cup {m}) \ {m}) = CountOver(log, D \cup {m}) - CountOver(log, {m})
        <3>1. {m} \subseteq D \cup {m}
            OBVIOUS
        <3> QED BY <3>1, TotalsOfMinutes
    <2>6. SumOver(log, D) = SumOver(log, D \cup {m})
              /\ CountOver(log, D) = CountOver(log, D \cup {m})
        BY <2>1, <2>3, <2>4, <2>5
    <2> QED BY <1>1, <2>2, <2>6 DEF Agrees, W
<1> QED BY <1>2, <1>3

(* One trade more in a log. *)
LEMMA OverAppends ==
    ASSUME NEW log \in Seq(Trades), NEW t \in Trades, NEW A
    PROVE  /\ SumOver(Append(log, t), A)
                = SumOver(log, A) + (IF t.minute \in A THEN t.price * t.volume ELSE 0)
           /\ CountOver(Append(log, t), A)
                = CountOver(log, A) + (IF t.minute \in A THEN t.volume ELSE 0)
           /\ SumOver(log, A) \in Int /\ CountOver(log, A) \in Int
<1> DEFINE v == t.price * t.volume
           next == Append(log, t)
<1>0. t.price \in Nat /\ t.volume \in Nat /\ v \in Nat
    BY DEF Trades
<1>1. next \in Seq(Trades) /\ Len(next) = Len(log) + 1
    OBVIOUS
<1>2. DOMAIN next = DOMAIN log \cup {Len(log) + 1} /\ next[Len(log) + 1] = t
    OBVIOUS
<1>3. \A i \in DOMAIN log : next[i] = log[i] /\ i \in DOMAIN next
    OBVIOUS
<1> HIDE DEF next
<1>4. Values(next)[Len(log) + 1] = v /\ Volumes(next)[Len(log) + 1] = t.volume
    BY <1>2 DEF Values, Volumes
<1>5. \A i \in DOMAIN log : /\ Values(next)[i] = Values(log)[i] /\ Values(log)[i] \in Int
                            /\ Volumes(next)[i] = Volumes(log)[i] /\ Volumes(log)[i] \in Int
    <2>1. \A i \in DOMAIN log : Values(log)[i] \in Int /\ Volumes(log)[i] \in Int
        BY LoggedFinite
    <2> QED BY <1>3, <2>1 DEF Values, Volumes
<1>6. /\ \A i \in DOMAIN log : Values(log)[i] \in Int /\ Values(next)[i] = Values(log)[i]
      /\ Values(next)[Len(log) + 1] \in Int
    BY <1>0, <1>4, <1>5
<1>7. /\ \A i \in DOMAIN log : Volumes(log)[i] \in Int /\ Volumes(next)[i] = Volumes(log)[i]
      /\ Volumes(next)[Len(log) + 1] \in Int
    BY <1>0, <1>4, <1>5
<1>8. SumFunctionOnSet(Values(next), LoggedIn(Append(log, t), A))
          = SumFunctionOnSet(Values(log), LoggedIn(log, A))
            + (IF t.minute \in A THEN Values(next)[Len(log) + 1] ELSE 0)
    BY <1>6, TotalAppends
<1>9. SumFunctionOnSet(Volumes(next), LoggedIn(Append(log, t), A))
          = SumFunctionOnSet(Volumes(log), LoggedIn(log, A))
            + (IF t.minute \in A THEN Volumes(next)[Len(log) + 1] ELSE 0)
    BY <1>7, TotalAppends
<1>10. SumOver(log, A) \in Int /\ CountOver(log, A) \in Int
    BY TotalsOfMinutes
<1> QED BY <1>4, <1>8, <1>9, <1>10 DEF SumOver, CountOver, next

(* A trade logged and added to its container and to the totals. *)
LEMMA LoggingAgrees ==
    ASSUME NEW log \in Seq(Trades), NEW t \in Trades, NEW stored, NEW s, NEW c,
           Agrees(stored, s, c, log), t.minute \in DOMAIN stored
    PROVE  Agrees([stored EXCEPT ![t.minute] = [sum |-> @.sum + t.price * t.volume,
                                                count |-> @.count + t.volume]],
                  s + t.price * t.volume, c + t.volume, Append(log, t))
<1> DEFINE v == t.price * t.volume
           next == Append(log, t)
           g == [stored EXCEPT ![t.minute] = [sum |-> @.sum + v, count |-> @.count + t.volume]]
           D == DOMAIN stored
<1>1. t.price \in Nat /\ t.volume \in Nat /\ v \in Nat
    BY DEF Trades
<1>2. ASSUME NEW A
      PROVE  /\ SumOver(next, A) = SumOver(log, A) + (IF t.minute \in A THEN v ELSE 0)
             /\ CountOver(next, A) = CountOver(log, A) + (IF t.minute \in A THEN t.volume ELSE 0)
             /\ SumOver(log, A) \in Int /\ CountOver(log, A) \in Int
    BY OverAppends
<1> HIDE DEF next, v
<1>3. DOMAIN g = D
    OBVIOUS
<1>4. ASSUME NEW m \in D PROVE g[m] = Container(next, m)
    <2>1. stored[m] = [sum |-> SumOver(log, {m}), count |-> CountOver(log, {m})]
        BY DEF Agrees, Container
    <2>2. CASE m = t.minute
        <3>1. g[m] = [sum |-> SumOver(log, {m}) + v, count |-> CountOver(log, {m}) + t.volume]
            <4>1. stored[m].sum = SumOver(log, {m}) /\ stored[m].count = CountOver(log, {m})
                BY <2>1
            <4> QED BY <2>2, <4>1
        <3> QED BY <1>2, <2>2, <3>1 DEF Container
    <2>3. CASE m # t.minute
        <3>1. g[m] = stored[m]
            BY <2>3
        <3>2. SumOver(next, {m}) = SumOver(log, {m}) /\ CountOver(next, {m}) = CountOver(log, {m})
            BY <1>2, <2>3
        <3> QED BY <2>1, <3>1, <3>2 DEF Container
    <2> QED BY <2>2, <2>3
<1>5. s + v = SumOver(next, D) /\ c + t.volume = CountOver(next, D)
    BY <1>2 DEF Agrees
<1> HIDE DEF g
<1>6. Agrees(g, s + v, c + t.volume, next)
    BY <1>3, <1>4, <1>5 DEF Agrees
<1> QED BY <1>6 DEF g, v, next

LEMMA LoggedTyped ==
    ASSUME NEW log \in Seq(Trades), NEW t \in Trades
    PROVE  /\ LoggedMinutes(log) \subseteq Nat
           /\ LoggedMinutes(Append(log, t)) = LoggedMinutes(log) \cup {t.minute}
<1>1. ASSUME NEW i \in DOMAIN log PROVE log[i].minute \in Nat
    <2>1. log[i] \in Trades
        OBVIOUS
    <2> QED BY <2>1 DEF Trades
<1>2. LoggedMinutes(log) \subseteq Nat
    BY <1>1 DEF LoggedMinutes
<1>3. LoggedMinutes(Append(log, t)) = LoggedMinutes(log) \cup {t.minute}
    <2> DEFINE n == Len(log) + 1
    <2>1. DOMAIN Append(log, t) = DOMAIN log \cup {n}
        OBVIOUS
    <2>2. Append(log, t)[n] = t /\ \A i \in DOMAIN log : Append(log, t)[i] = log[i]
        OBVIOUS
    <2> HIDE DEF n
    <2> QED BY <2>1, <2>2 DEF LoggedMinutes
<1> QED BY <1>2, <1>3

(* What both methods of MovingAverage do before they prune. *)
LEMMA StoredMinutes ==
    ASSUME IInv, NEW m \in 0 .. (minute + Ahead)
    PROVE  /\ DOMAIN WithMinute(m) = DOMAIN averages \cup {m}
           /\ IsFiniteSet(DOMAIN WithMinute(m))
           /\ DOMAIN WithMinute(m) \subseteq Int
           /\ minute \in Nat /\ OldestAverage(minute) \in Int
<1>1. minute \in Nat /\ Ahead \in Nat
    BY StatisticsAssumption DEF IInv, TypeOK
<1>2. DOMAIN WithMinute(m) = DOMAIN averages \cup {m}
    BY DEF WithMinute
<1>3. DOMAIN WithMinute(m) \subseteq 0 .. (minute + Ahead)
    BY <1>2 DEF IInv, MinutesInv
<1>4. IsFiniteSet(DOMAIN WithMinute(m))
    BY <1>1, <1>3, MinutesFinite
<1>5. OldestAverage(minute) \in Int
    BY <1>1, WindowAssumption DEF OldestAverage, MinutesStored
<1> QED BY <1>1, <1>2, <1>3, <1>4, <1>5

LEMMA InitAverage == Init => AverageFaithful
<1> SUFFICES ASSUME Init PROVE AverageFaithful
    OBVIOUS
<1>1. DOMAIN averages = {} /\ sum = 0 /\ count = 0 /\ averageLog = <<>>
    BY DEF Init, AverageInit
<1>2. LoggedMinutes(<<>>) = {} /\ <<>> \in Seq(Trades)
    BY DEF LoggedMinutes
<1>3. SumOver(<<>>, {}) = 0 /\ CountOver(<<>>, {}) = 0
    BY <1>2, TotalOfNone
<1> QED BY <1>1, <1>2, <1>3 DEF AverageFaithful

LEMMA StepAverage == IInv /\ AverageFaithful /\ [Next]_vars => AverageFaithful'
<1> SUFFICES ASSUME IInv, AverageFaithful, [Next]_vars PROVE AverageFaithful'
    OBVIOUS
<1> DEFINE Recent == \A m \in LoggedMinutes(averageLog) :
                        m >= OldestAverage(minute) => m \in DOMAIN averages
<1>0. /\ averageLog \in Seq(Trades) /\ minute \in Nat
      /\ Agrees(averages, sum, count, averageLog) /\ Recent
      /\ trade \in Trades /\ trade.minute \in 0 .. (minute + Ahead)
      /\ minute \in 0 .. (minute + Ahead)
    <2>1. averageLog \in Seq(Trades) /\ minute \in Nat /\ trade \in Trades /\ Ahead \in Nat
        BY StatisticsAssumption DEF IInv, TypeOK
    <2>2. trade.minute \in 0 .. (minute + Ahead) /\ minute \in 0 .. (minute + Ahead)
        BY <2>1 DEF IInv, MinutesInv, Trades
    <2>3. Agrees(averages, sum, count, averageLog) /\ Recent
        BY DEF AverageFaithful, Agrees, Container
    <2> QED BY <2>1, <2>2, <2>3
<1>1. CASE MinuteTurn
    <2>1. minute' = minute + 1 /\ UNCHANGED <<averages, sum, count, averageLog>>
        BY <1>1 DEF MinuteTurn, averageVars, history
    <2>2. ASSUME NEW m \in LoggedMinutes(averageLog), m >= OldestAverage(minute')
          PROVE  m \in DOMAIN averages
        <3>1. m \in Nat
            BY <1>0, LoggedTyped
        <3>2. m >= OldestAverage(minute)
            BY <1>0, <2>1, <2>2, <3>1, WindowAssumption DEF OldestAverage, MinutesStored
        <3> QED BY <1>0, <3>2
    <2> QED BY <2>1, <2>2 DEF AverageFaithful
<1>2. CASE TradeArrives
    <2>1. UNCHANGED <<averages, sum, count, averageLog, minute>>
        BY <1>2 DEF TradeArrives, UpdateCandle, averageVars
    <2> QED BY <2>1 DEF AverageFaithful
<1>3. CASE UpdateAverage
    <2>1. minute' = minute
        BY <1>3 DEF UpdateAverage
    <2>2. CASE AverageAccepts(trade, minute)
        <3> DEFINE W == WithMinute(trade.minute)
                   v == trade.price * trade.volume
                   grown == [W EXCEPT ![trade.minute]
                       = [sum |-> @.sum + v, count |-> @.count + trade.volume]]
        <3>1. /\ Store(grown, sum + v, count + trade.volume, minute)
              /\ averageLog' = Append(averageLog, trade)
            BY <1>3, <2>2 DEF UpdateAverage, AddAverage
        <3>2. /\ DOMAIN W = DOMAIN averages \cup {trade.minute} /\ IsFiniteSet(DOMAIN W)
              /\ DOMAIN W \subseteq Int /\ OldestAverage(minute) \in Int
            BY <1>0, StoredMinutes
        <3>3. Agrees(W, sum, count, averageLog)
            <4>1. trade.minute \in DOMAIN averages \/ trade.minute \notin LoggedMinutes(averageLog)
                BY <1>0, <2>2 DEF AverageAccepts
            <4> QED BY <1>0, <4>1, WithMinuteAgrees
        <3> HIDE DEF W
        <3>4. Agrees(grown, sum + v, count + trade.volume, averageLog')
            BY <1>0, <3>1, <3>2, <3>3, LoggingAgrees
        <3>5. DOMAIN grown = DOMAIN W
            OBVIOUS
        <3>6. averageLog' \in Seq(Trades)
            BY <1>0, <3>1
        <3> HIDE DEF grown, v
        <3>7. /\ Agrees(averages', sum', count', averageLog')
              /\ \A m \in DOMAIN grown : m >= OldestAverage(minute) => m \in DOMAIN averages'
            BY <1>0, <3>1, <3>2, <3>4, <3>5, <3>6, StoreAgrees
        <3>8. LoggedMinutes(averageLog') = LoggedMinutes(averageLog) \cup {trade.minute}
            BY <1>0, <3>1, LoggedTyped
        <3>9. \A m \in LoggedMinutes(averageLog') : m >= OldestAverage(minute)
                  => m \in DOMAIN averages'
            BY <1>0, <3>2, <3>5, <3>7, <3>8
        <3> QED BY <2>1, <3>7, <3>9 DEF AverageFaithful, Agrees, Container
    <2>3. CASE ~AverageAccepts(trade, minute)
        <3>1. UNCHANGED <<averages, sum, count, averageLog>>
            BY <1>3, <2>3 DEF UpdateAverage, averageVars
        <3> QED BY <2>1, <3>1 DEF AverageFaithful
    <2> QED BY <2>2, <2>3
<1>4. CASE Wake \/ ExportCandle
    <2>1. UNCHANGED <<averages, sum, count, averageLog, minute>>
        BY <1>4 DEF Wake, ExportCandle, averageVars, history
    <2> QED BY <2>1 DEF AverageFaithful
<1>5. CASE ExportAverage
    <2> DEFINE W == WithMinute(minute)
    <2>1. Store(W, sum, count, minute) /\ averageLog' = averageLog /\ minute' = minute
        BY <1>5 DEF ExportAverage, GetStatic
    <2>2. /\ DOMAIN W = DOMAIN averages \cup {minute} /\ IsFiniteSet(DOMAIN W)
          /\ DOMAIN W \subseteq Int /\ OldestAverage(minute) \in Int
        BY <1>0, StoredMinutes
    <2>3. Agrees(W, sum, count, averageLog)
        <3>1. minute >= OldestAverage(minute)
            BY <1>0, WindowAssumption DEF OldestAverage, MinutesStored
        <3>2. minute \in DOMAIN averages \/ minute \notin LoggedMinutes(averageLog)
            BY <1>0, <3>1
        <3> QED BY <1>0, <3>2, WithMinuteAgrees
    <2> HIDE DEF W
    <2>4. /\ Agrees(averages', sum', count', averageLog)
          /\ \A m \in DOMAIN W : m >= OldestAverage(minute) => m \in DOMAIN averages'
        BY <1>0, <2>1, <2>2, <2>3, StoreAgrees
    <2>5. \A m \in LoggedMinutes(averageLog) : m >= OldestAverage(minute) => m \in DOMAIN averages'
        BY <1>0, <2>2, <2>4
    <2> QED BY <2>1, <2>4, <2>5 DEF AverageFaithful, Agrees, Container
<1>6. CASE UNCHANGED vars
    BY <1>6 DEF vars, averageVars, history, AverageFaithful
<1> QED BY <1>1, <1>2, <1>3, <1>4, <1>5, <1>6 DEF Next

(* The moving average holds every logged trade of its minutes exactly      *)
(* once, and its totals are theirs, whatever order trades come in and      *)
(* whenever it prunes.                                                     *)
THEOREM AverageIsFaithful == Spec => []AverageFaithful
    BY InitIInv, StepIInv, InitAverage, StepAverage, PTL DEF Spec

(* The minutes an export leaves out of its window are only ones that were  *)
(* not pruned because containers were missing.                             *)
LEMMA WindowFull ==
    ASSUME NEW now \in Nat, NEW D, IsFiniteSet(D), (now - Window) .. now \subseteq D,
           NEW x \in D, x \notin (now - Window) .. now
    PROVE  Cardinality(D) > MinutesStored
<1> DEFINE R == (now - Window) .. now
<1>0. Window \in Nat /\ now - Window \in Int
    BY WindowAssumption
<1>1. IsFiniteSet(R) /\ Cardinality(R) = Window + 1
    BY <1>0, FS_Interval
<1>2. IsFiniteSet(R \cup {x}) /\ Cardinality(R \cup {x}) = Cardinality(R) + 1
    BY <1>1, FS_AddElement
<1>3. R \cup {x} \in SUBSET D
    OBVIOUS
<1>4. Cardinality(R \cup {x}) <= Cardinality(D) /\ Cardinality(D) \in Nat
    BY <1>3, FS_Subset, FS_CardinalityType
<1> QED BY <1>0, <1>1, <1>2, <1>4 DEF MinutesStored

LEMMA StepExport ==
    ASSUME IInv, AverageFaithful, ExportAverage
    PROVE  \E old \in SUBSET {m \in DOMAIN averages : m < minute - Window} :
              /\ old # {} => \E m \in (minute - Window) .. minute : m \notin DOMAIN averages'
              /\ line'.sum = SumOver(averageLog, WindowMinutes \cup old \cup EarlyMinutes)
              /\ line'.count = CountOver(averageLog, WindowMinutes \cup old \cup EarlyMinutes)
<1> DEFINE W == WithMinute(minute)
           D == DOMAIN averages'
           old == {m \in D : m < minute - Window}
           counted == WindowMinutes \cup old \cup EarlyMinutes
<1>0. /\ averageLog \in Seq(Trades) /\ minute \in Nat /\ Ahead \in Nat
      /\ Agrees(averages, sum, count, averageLog)
      /\ \A m \in LoggedMinutes(averageLog) : m >= OldestAverage(minute) => m \in DOMAIN averages
      /\ Window \in Nat \ {0}
    BY StatisticsAssumption, WindowAssumption
       DEF IInv, TypeOK, AverageFaithful, Agrees, Container
<1>1. /\ Store(W, sum, count, minute)
      /\ line' = [candle |-> line.candle, sum |-> sum' - averages'[minute].sum,
                  count |-> count' - averages'[minute].count]
    BY DEF ExportAverage, GetStatic, EffectiveSum, EffectiveCount
<1>2. OldestAverage(minute) = minute - Window
    BY <1>0 DEF OldestAverage, MinutesStored
<1>3. /\ DOMAIN W = DOMAIN averages \cup {minute} /\ IsFiniteSet(DOMAIN W) /\ DOMAIN W \subseteq Int
    <2>1. minute \in 0 .. (minute + Ahead)
        BY <1>0
    <2> QED BY <2>1, StoredMinutes
<1>4. Agrees(W, sum, count, averageLog)
    <2>1. minute \in DOMAIN averages \/ minute \notin LoggedMinutes(averageLog)
        BY <1>0, <1>2
    <2> QED BY <1>0, <2>1, WithMinuteAgrees
<1> HIDE DEF W
<1>5. /\ Agrees(averages', sum', count', averageLog)
      /\ D \subseteq DOMAIN W
      /\ \A m \in DOMAIN W : m >= OldestAverage(minute) => m \in D
      /\ Cardinality(DOMAIN W) > MinutesStored => \A m \in D : ~(m < OldestAverage(minute))
      /\ ~(Cardinality(DOMAIN W) > MinutesStored) => D = DOMAIN W
    BY <1>0, <1>1, <1>3, <1>4, StoreAgrees
<1>6. minute \in D
    BY <1>0, <1>2, <1>3, <1>5
<1>7. old \in SUBSET {m \in DOMAIN averages : m < minute - Window}
    <2>1. ~(minute < minute - Window)
        BY <1>0
    <2> QED BY <1>3, <1>5, <2>1
<1>8. ASSUME NEW x \in old
      PROVE  \E m \in (minute - Window) .. minute : m \notin D
    <2> SUFFICES ASSUME (minute - Window) .. minute \subseteq D PROVE FALSE
        OBVIOUS
    <2>1. x \in D /\ x \notin (minute - Window) .. minute
        BY <1>0, <1>8
    <2>2. IsFiniteSet(D)
        BY <1>3, <1>5, FS_Subset
    <2>3. Cardinality(D) > MinutesStored
        BY <1>0, <2>1, <2>2, WindowFull
    <2>4. ~(Cardinality(DOMAIN W) > MinutesStored)
        BY <1>2, <1>5, <1>8, <2>1
    <2> QED BY <1>5, <2>3, <2>4
<1>14. /\ D \ {minute} \subseteq counted
       /\ old \cup EarlyMinutes \subseteq D \ {minute}
    <2>1. ASSUME NEW m \in D, m # minute PROVE m \in counted
        <3>1. m \in Int /\ m \in DOMAIN averages
            BY <1>3, <1>5, <2>1
        <3> QED BY <1>0, <2>1, <3>1 DEF WindowMinutes, EarlyMinutes
    <2>2. ASSUME NEW m \in EarlyMinutes PROVE m \in D \ {minute}
        <3>1. m \in DOMAIN W /\ m \in Int /\ m > minute
            BY <1>3 DEF EarlyMinutes
        <3>2. m >= OldestAverage(minute) /\ m # minute
            BY <1>0, <1>2, <3>1
        <3> QED BY <1>5, <3>1, <3>2
    <2>3. ASSUME NEW m \in old PROVE m \in D \ {minute}
        BY <1>0
    <2> QED BY <2>1, <2>2, <2>3
<1>9. LoggedIn(averageLog, D \ {minute}) = LoggedIn(averageLog, counted)
    <2>1. ASSUME NEW i \in DOMAIN averageLog, averageLog[i].minute \in WindowMinutes
          PROVE  averageLog[i].minute \in D \ {minute}
        <3>1. averageLog[i].minute \in LoggedMinutes(averageLog)
            BY DEF LoggedMinutes
        <3>2. averageLog[i].minute >= OldestAverage(minute) /\ averageLog[i].minute # minute
            BY <1>0, <1>2, <2>1 DEF WindowMinutes
        <3> QED BY <1>0, <1>3, <1>5, <3>1, <3>2
    <2> QED BY <1>14, <2>1 DEF LoggedIn
<1>10. /\ SumOver(averageLog, D \ {minute}) = SumOver(averageLog, counted)
       /\ CountOver(averageLog, D \ {minute}) = CountOver(averageLog, counted)
    <2> HIDE DEF D, counted
    <2> QED BY <1>9 DEF SumOver, CountOver
<1>11. /\ averages'[minute].sum = SumOver(averageLog, {minute}) /\ sum' = SumOver(averageLog, D)
       /\ averages'[minute].count = CountOver(averageLog, {minute})
              /\ count' = CountOver(averageLog, D)
    BY <1>5, <1>6 DEF Agrees, Container
<1>12. /\ SumOver(averageLog, D \ {minute}) = SumOver(averageLog, D) - SumOver(averageLog, {minute})
       /\ CountOver(averageLog, D \ {minute})
              = CountOver(averageLog, D) - CountOver(averageLog, {minute})
    <2>1. {minute} \subseteq D
        BY <1>6
    <2> HIDE DEF D
    <2> QED BY <1>0, <2>1, TotalsOfMinutes
<1>13. line'.sum = SumOver(averageLog, counted) /\ line'.count = CountOver(averageLog, counted)
    BY <1>1, <1>10, <1>11, <1>12
<1> HIDE DEF old
<1> QED BY <1>7, <1>8, <1>13

(* An exported average counts every accepted trade of its window once, an  *)
(* older one only while a minute of the window has no container, and all   *)
(* that are dated ahead of the clock.                                      *)
THEOREM ExportsCountTheirWindow == Spec => ExportCountsWindow
<1>1. IInv /\ AverageFaithful /\ [Next]_vars
        => [ExportAverage =>
              \E old \in SUBSET {m \in DOMAIN averages : m < minute - Window} :
                /\ old # {} => \E m \in (minute - Window) .. minute : m \notin DOMAIN averages'
                /\ line'.sum = SumOver(averageLog, WindowMinutes \cup old \cup EarlyMinutes)
                /\ line'.count = CountOver(averageLog, WindowMinutes \cup old \cup EarlyMinutes)]_vars
    BY StepExport
<1> QED BY <1>1, InvariantHolds, AverageIsFaithful, PTL DEF Spec, ExportCountsWindow

----------------------------------------------------------------------------
(* The candlesticks *)

(* A finite set that is not empty has an element that comes before all. *)
LEMMA FirstElement ==
    ASSUME NEW S, IsFiniteSet(S), S # {}, NEW R,
           \A a \in S : \A b \in S : <<a, b>> \in R \/ <<b, a>> \in R,
           \A a \in S : \A b \in S : \A c \in S : <<a, b>> \in R /\ <<b, c>> \in R => <<a, c>> \in R
    PROVE  \E x \in S : \A y \in S : <<x, y>> \in R
<1> DEFINE G == {T \in SUBSET S : T = {} \/ \E x \in T : \A y \in T : <<x, y>> \in R}
<1>1. {} \in G
    OBVIOUS
<1>2. ASSUME NEW T \in SUBSET S, NEW n \in S \ T, T \in G PROVE T \cup {n} \in G
    <2>1. T \cup {n} \in SUBSET S /\ <<n, n>> \in R
        OBVIOUS
    <2>2. CASE T = {}
        <3>1. \A y \in T \cup {n} : <<n, y>> \in R
            BY <2>1, <2>2
        <3> QED BY <2>1, <3>1
    <2>3. CASE T # {}
        <3>1. PICK x \in T : \A y \in T : <<x, y>> \in R
            BY <1>2, <2>3
        <3>2. CASE <<x, n>> \in R
            <4>1. \A y \in T \cup {n} : <<x, y>> \in R
                BY <3>1, <3>2
            <4> QED BY <2>1, <4>1
        <3>3. CASE <<n, x>> \in R
            <4>1. \A y \in T \cup {n} : <<n, y>> \in R
                BY <2>1, <3>1, <3>3
            <4> QED BY <2>1, <4>1
        <3> QED BY <3>2, <3>3
    <2> QED BY <2>2, <2>3
<1> HIDE DEF G
<1>3. S \in G
    BY <1>1, <1>2, FiniteSetInduction
<1> QED BY <1>3 DEF G

LEMMA MinMax ==
    ASSUME NEW S, IsFiniteSet(S), S # {}, S \subseteq Int
    PROVE  /\ Min(S) \in S /\ \A y \in S : Min(S) <= y
           /\ Max(S) \in S /\ \A y \in S : Max(S) >= y
<1>1. \E x \in S : \A y \in S : x <= y
    <2> DEFINE R == {p \in S \X S : p[1] <= p[2]}
    <2>1. \A a \in S : \A b \in S : <<a, b>> \in R <=> a <= b
        OBVIOUS
    <2> HIDE DEF R
    <2>2. ASSUME NEW a \in S, NEW b \in S PROVE <<a, b>> \in R \/ <<b, a>> \in R
        <3>1. a <= b \/ b <= a
            OBVIOUS
        <3> QED BY <2>1, <3>1
    <2>3. \A a \in S : \A b \in S : \A c \in S : <<a, b>> \in R /\ <<b, c>> \in R => <<a, c>> \in R
        BY <2>1
    <2>4. \E x \in S : \A y \in S : <<x, y>> \in R
        BY <2>2, <2>3, FirstElement
    <2> QED BY <2>1, <2>4
<1>2. \E x \in S : \A y \in S : x >= y
    <2> DEFINE R == {p \in S \X S : p[1] >= p[2]}
    <2>1. \A a \in S : \A b \in S : <<a, b>> \in R <=> a >= b
        OBVIOUS
    <2> HIDE DEF R
    <2>2. ASSUME NEW a \in S, NEW b \in S PROVE <<a, b>> \in R \/ <<b, a>> \in R
        <3>1. a <= b \/ b <= a
            OBVIOUS
        <3> QED BY <2>1, <3>1
    <2>3. \A a \in S : \A b \in S : \A c \in S : <<a, b>> \in R /\ <<b, c>> \in R => <<a, c>> \in R
        BY <2>1
    <2>4. \E x \in S : \A y \in S : <<x, y>> \in R
        BY <2>2, <2>3, FirstElement
    <2> QED BY <2>1, <2>4
<1> QED BY <1>1, <1>2 DEF Min, Max

(* The order in which trades open a candlestick, and in which they close it. *)
OpensBefore(log, i, j) ==
    log[i].second < log[j].second \/ (log[i].second = log[j].second /\ i <= j)
ClosesAfter(log, i, j) ==
    log[j].second < log[i].second \/ (log[i].second = log[j].second /\ j <= i)

LEMMA OpensCloses ==
    ASSUME NEW log \in Seq(Trades), NEW I, I \subseteq DOMAIN log, I # {}
    PROVE  /\ Opens(log, I) \in I /\ \A j \in I : OpensBefore(log, Opens(log, I), j)
           /\ Closes(log, I) \in I /\ \A j \in I : ClosesAfter(log, Closes(log, I), j)
<1>0. /\ IsFiniteSet(I)
      /\ \A i \in I : i \in Int /\ log[i].second \in Int
    <2>1. IsFiniteSet(DOMAIN log)
        BY LoggedFinite
    <2>2. ASSUME NEW i \in I PROVE i \in Int /\ log[i].second \in Int
        <3>1. i \in DOMAIN log /\ log[i] \in Trades
            OBVIOUS
        <3> QED BY <3>1 DEF Trades
    <2> QED BY <2>1, <2>2, FS_Subset
<1>1. \E x \in I : \A y \in I : OpensBefore(log, x, y)
    <2> DEFINE R == {p \in I \X I : OpensBefore(log, p[1], p[2])}
    <2>1. \A a \in I : \A b \in I : <<a, b>> \in R <=> OpensBefore(log, a, b)
        OBVIOUS
    <2> HIDE DEF R
    <2>2. ASSUME NEW a \in I, NEW b \in I PROVE <<a, b>> \in R \/ <<b, a>> \in R
        <3>1. OpensBefore(log, a, b) \/ OpensBefore(log, b, a)
            <4>1. a \in Int /\ b \in Int /\ log[a].second \in Int /\ log[b].second \in Int
                BY <1>0
            <4> QED BY <4>1 DEF OpensBefore
        <3> QED BY <2>1, <3>1
    <2>3. ASSUME NEW a \in I, NEW b \in I, NEW c \in I, <<a, b>> \in R, <<b, c>> \in R
          PROVE  <<a, c>> \in R
        <3>1. OpensBefore(log, a, b) /\ OpensBefore(log, b, c)
            BY <2>1, <2>3
        <3>2. /\ a \in Int /\ b \in Int /\ c \in Int
              /\ log[a].second \in Int /\ log[b].second \in Int /\ log[c].second \in Int
            BY <1>0
        <3>3. OpensBefore(log, a, c)
            BY <3>1, <3>2 DEF OpensBefore
        <3> QED BY <2>1, <3>3
    <2>4. \E x \in I : \A y \in I : <<x, y>> \in R
        BY <1>0, <2>2, <2>3, FirstElement
    <2> QED BY <2>1, <2>4
<1>2. \E x \in I : \A y \in I : ClosesAfter(log, x, y)
    <2> DEFINE R == {p \in I \X I : ClosesAfter(log, p[1], p[2])}
    <2>1. \A a \in I : \A b \in I : <<a, b>> \in R <=> ClosesAfter(log, a, b)
        OBVIOUS
    <2> HIDE DEF R
    <2>2. ASSUME NEW a \in I, NEW b \in I PROVE <<a, b>> \in R \/ <<b, a>> \in R
        <3>1. ClosesAfter(log, a, b) \/ ClosesAfter(log, b, a)
            <4>1. a \in Int /\ b \in Int /\ log[a].second \in Int /\ log[b].second \in Int
                BY <1>0
            <4> QED BY <4>1 DEF ClosesAfter
        <3> QED BY <2>1, <3>1
    <2>3. ASSUME NEW a \in I, NEW b \in I, NEW c \in I, <<a, b>> \in R, <<b, c>> \in R
          PROVE  <<a, c>> \in R
        <3>1. ClosesAfter(log, a, b) /\ ClosesAfter(log, b, c)
            BY <2>1, <2>3
        <3>2. /\ a \in Int /\ b \in Int /\ c \in Int
              /\ log[a].second \in Int /\ log[b].second \in Int /\ log[c].second \in Int
            BY <1>0
        <3>3. ClosesAfter(log, a, c)
            BY <3>1, <3>2 DEF ClosesAfter
        <3> QED BY <2>1, <3>3
    <2>4. \E x \in I : \A y \in I : <<x, y>> \in R
        BY <1>0, <2>2, <2>3, FirstElement
    <2> QED BY <2>1, <2>4
<1>3. Opens(log, I) \in I /\ \A j \in I : OpensBefore(log, Opens(log, I), j)
    BY <1>1 DEF Opens, OpensBefore
<1>4. Closes(log, I) \in I /\ \A j \in I : ClosesAfter(log, Closes(log, I), j)
    BY <1>2 DEF Closes, ClosesAfter
<1> QED BY <1>3, <1>4

Prices(log, I) == {log[i].price : i \in I}

LEMMA PricesTyped ==
    ASSUME NEW log \in Seq(Trades), NEW I, I \subseteq DOMAIN log, I # {}
    PROVE  IsFiniteSet(Prices(log, I)) /\ Prices(log, I) # {} /\ Prices(log, I) \subseteq Int
<1>1. IsFiniteSet(I)
    <2>1. IsFiniteSet(DOMAIN log)
        BY LoggedFinite
    <2> QED BY <2>1, FS_Subset
<1>2. \A i \in I : log[i].price \in Int
    <2> SUFFICES ASSUME NEW i \in I PROVE log[i].price \in Int
        OBVIOUS
    <2>1. log[i] \in Trades
        OBVIOUS
    <2> QED BY <2>1 DEF Trades
<1>3. IsFiniteSet(Prices(log, I))
    <2> DEFINE price == [i \in I |-> log[i].price]
    <2>1. price \in Surjection(I, Prices(log, I))
        BY DEF Surjection, Prices
    <2> HIDE DEF price
    <2> QED BY <1>1, <2>1, FS_Surjection
<1> QED BY <1>2, <1>3 DEF Prices

(* Trades of a log stay what they were when it grows. *)
LEMMA LoggedKept ==
    ASSUME NEW log \in Seq(Trades), NEW t \in Trades, NEW M, NEW i \in LoggedIn(log, M)
    PROVE  /\ Append(log, t)[i] = log[i] /\ i \in Int /\ i < Len(log) + 1
           /\ log[i].second \in Int /\ log[i].price \in Int
<1>1. i \in DOMAIN log
    BY DEF LoggedIn
<1>2. log[i] \in Trades
    BY <1>1
<1>3. log[i].second \in Int /\ log[i].price \in Int
    <2>1. \A t0 \in Trades : t0.second \in Nat /\ t0.price \in Nat
        BY DEF Trades
    <2> QED BY <1>2, <2>1
<1>4. Append(log, t)[i] = log[i] /\ i \in Int /\ i < Len(log) + 1
    BY <1>1
<1> QED BY <1>3, <1>4

LEMMA LoggedInGrows ==
    ASSUME NEW log \in Seq(Trades), NEW t \in Trades, NEW M
    PROVE  /\ LoggedIn(Append(log, t), M)
                = LoggedIn(log, M) \cup (IF t.minute \in M THEN {Len(log) + 1} ELSE {})
           /\ LoggedIn(Append(log, t), M) \subseteq DOMAIN Append(log, t)
           /\ Append(log, t)[Len(log) + 1] = t /\ Append(log, t) \in Seq(Trades)
<1> DEFINE n == Len(log) + 1
<1>1. DOMAIN Append(log, t) = DOMAIN log \cup {n} /\ Append(log, t) \in Seq(Trades)
    OBVIOUS
<1>2. Append(log, t)[n] = t /\ \A i \in DOMAIN log : Append(log, t)[i] = log[i]
    OBVIOUS
<1> HIDE DEF n
<1>3. LoggedIn(Append(log, t), M)
          = LoggedIn(log, M) \cup (IF t.minute \in M THEN {n} ELSE {})
    BY <1>1, <1>2 DEF LoggedIn
<1>4. LoggedIn(Append(log, t), M) \subseteq DOMAIN Append(log, t)
    BY DEF LoggedIn
<1> QED BY <1>1, <1>2, <1>3, <1>4 DEF n

(* A trade of another minute changes no candlestick. *)
LEMMA OtherCandles ==
    ASSUME NEW log \in Seq(Trades), NEW t \in Trades, NEW m \in LoggedMinutes(log), m # t.minute
    PROVE  CandleOf(Append(log, t), m) = CandleOf(log, m)
<1> DEFINE next == Append(log, t)
           I == LoggedIn(log, {m})
<1>1. I # {} /\ I \subseteq DOMAIN log
    BY DEF LoggedIn, LoggedMinutes
<1>2. /\ \A i \in I : next[i] = log[i] /\ i \in Int /\ log[i].second \in Int
      /\ LoggedIn(next, {m}) = I /\ I \subseteq DOMAIN next /\ next \in Seq(Trades)
    <2>1. \A i \in I : next[i] = log[i] /\ i \in Int /\ log[i].second \in Int
        BY LoggedKept
    <2>2. LoggedIn(next, {m}) = I
        <3>1. LoggedIn(next, {m}) = I \cup (IF t.minute \in {m} THEN {Len(log) + 1} ELSE {})
            BY LoggedInGrows
        <3> QED BY <3>1
    <2>3. LoggedIn(next, {m}) \subseteq DOMAIN next /\ next \in Seq(Trades)
        BY LoggedInGrows
    <2> QED BY <2>1, <2>2, <2>3
<1>3. CountOver(next, {m}) = CountOver(log, {m})
    <2>1. CountOver(log, {m}) \in Int
        BY OverAppends
    <2> QED BY <2>1, OverAppends
<1> HIDE DEF next, I
<1>4. Opens(next, I) = Opens(log, I)
    <2>1. /\ Opens(log, I) \in I /\ \A j \in I : OpensBefore(log, Opens(log, I), j)
          /\ Opens(next, I) \in I /\ \A j \in I : OpensBefore(next, Opens(next, I), j)
        BY <1>1, <1>2, OpensCloses
    <2> QED BY <1>2, <2>1 DEF OpensBefore
<1>5. Closes(next, I) = Closes(log, I)
    <2>1. /\ Closes(log, I) \in I /\ \A j \in I : ClosesAfter(log, Closes(log, I), j)
          /\ Closes(next, I) \in I /\ \A j \in I : ClosesAfter(next, Closes(next, I), j)
        BY <1>1, <1>2, OpensCloses
    <2> QED BY <1>2, <2>1 DEF ClosesAfter
<1>6. Opens(log, I) \in I /\ Closes(log, I) \in I
    BY <1>1, OpensCloses
<1>7. Prices(next, I) = Prices(log, I)
    BY <1>2 DEF Prices
<1>8. /\ next[Opens(next, I)] = log[Opens(log, I)]
      /\ next[Closes(next, I)] = log[Closes(log, I)]
    BY <1>2, <1>4, <1>5, <1>6
<1> QED BY <1>2, <1>3, <1>7, <1>8 DEF CandleOf, Prices, next, I

(* The first trade of a minute is its candlestick. *)
LEMMA FirstCandle ==
    ASSUME NEW log \in Seq(Trades), NEW t \in Trades, t.minute \notin LoggedMinutes(log)
    PROVE  CandleOf(Append(log, t), t.minute) = FirstOf(t)
<1> DEFINE next == Append(log, t)
           n == Len(log) + 1
           m == t.minute
<1>1. LoggedIn(log, {m}) = {}
    BY DEF LoggedIn, LoggedMinutes
<1>2. /\ LoggedIn(next, {m}) = {n} /\ {n} \subseteq DOMAIN next
      /\ next \in Seq(Trades) /\ next[n] = t
    <2>1. LoggedIn(next, {m}) = LoggedIn(log, {m}) \cup {n}
        BY LoggedInGrows
    <2>2. LoggedIn(next, {m}) \subseteq DOMAIN next /\ next \in Seq(Trades) /\ next[n] = t
        BY LoggedInGrows
    <2> QED BY <1>1, <2>1, <2>2
<1>3. CountOver(next, {m}) = t.volume
    <2>1. {m} \cap LoggedMinutes(log) = {} /\ t.volume \in Nat
        BY DEF Trades
    <2>2. CountOver(log, {m}) = 0
        BY <2>1, TotalOfNone
    <2>3. CountOver(next, {m}) = CountOver(log, {m}) + t.volume
        BY OverAppends
    <2> QED BY <2>1, <2>2, <2>3
<1> HIDE DEF next, n
<1>4. Opens(next, {n}) = n /\ Closes(next, {n}) = n
    BY <1>2, OpensCloses
<1>5. Prices(next, {n}) = {t.price} /\ Min(Prices(next, {n})) = t.price
      /\ Max(Prices(next, {n})) = t.price
    <2>1. Prices(next, {n}) = {t.price}
        BY <1>2 DEF Prices
    <2>2. /\ IsFiniteSet(Prices(next, {n})) /\ Prices(next, {n}) # {}
          /\ Prices(next, {n}) \subseteq Int
        BY <1>2, PricesTyped
    <2>3. Min(Prices(next, {n})) \in Prices(next, {n})
              /\ Max(Prices(next, {n})) \in Prices(next, {n})
        BY <2>2, MinMax
    <2> QED BY <2>1, <2>3
<1> QED BY <1>2, <1>3, <1>4, <1>5 DEF CandleOf, Prices, FirstOf, next

(* A candlestick extended by one trade more of its minute. *)
LEMMA NextCandle ==
    ASSUME NEW log \in Seq(Trades), NEW t \in Trades, t.minute \in LoggedMinutes(log)
    PROVE  CandleOf(Append(log, t), t.minute) = Extend(CandleOf(log, t.minute), t)
<1> DEFINE next == Append(log, t)
           n == Len(log) + 1
           m == t.minute
           I == LoggedIn(log, {m})
           J == I \cup {n}
<1>1. I # {} /\ I \subseteq DOMAIN log
    BY DEF LoggedIn, LoggedMinutes
<1>2. /\ \A i \in I : next[i] = log[i] /\ i \in Int /\ i < n
      /\ \A i \in I : log[i].second \in Int /\ log[i].price \in Int
      /\ LoggedIn(next, {m}) = J /\ J \subseteq DOMAIN next /\ next \in Seq(Trades)
      /\ next[n] = t /\ n \in Int
    <2>1. \A i \in I : next[i] = log[i] /\ i \in Int /\ i < n
        BY LoggedKept
    <2>2. \A i \in I : log[i].second \in Int /\ log[i].price \in Int
        BY LoggedKept
    <2>3. LoggedIn(next, {m}) = J
        <3>1. t.minute \in {m}
            OBVIOUS
        <3> QED BY <3>1, LoggedInGrows
    <2>4. LoggedIn(next, {m}) \subseteq DOMAIN next /\ next \in Seq(Trades) /\ next[n] = t
        BY LoggedInGrows
    <2>5. n \in Int
        OBVIOUS
    <2> QED BY <2>1, <2>2, <2>3, <2>4, <2>5
<1>3. CountOver(next, {m}) = CountOver(log, {m}) + t.volume
    BY OverAppends
<1> HIDE DEF next, I, n
<1>4. \A i \in I : log[i].second \in Int /\ log[i].price \in Int
    BY <1>2
<1>5. t.second \in Int /\ t.price \in Int
    BY DEF Trades
<1> DEFINE o == Opens(log, I)
           p == Opens(next, J)
           c == Closes(log, I)
           d == Closes(next, J)
<1>6. /\ o \in I /\ \A j \in I : OpensBefore(log, o, j)
      /\ c \in I /\ \A j \in I : ClosesAfter(log, c, j)
    BY <1>1, OpensCloses
<1>7. /\ p \in J /\ \A j \in J : OpensBefore(next, p, j)
      /\ d \in J /\ \A j \in J : ClosesAfter(next, d, j)
    BY <1>2, OpensCloses
<1> HIDE DEF o, p, c, d
<1>8. next[p] = IF t.second < log[o].second THEN t ELSE log[o]
    <2>1. OpensBefore(next, p, n) /\ OpensBefore(next, p, o)
        BY <1>6, <1>7
    <2>2. CASE p = n
        <3>1. t.second < log[o].second
            BY <1>2, <1>4, <1>5, <1>6, <2>1, <2>2 DEF OpensBefore
        <3> QED BY <1>2, <2>2, <3>1
    <2>3. CASE p \in I
        <3>1. OpensBefore(log, o, p)
            BY <1>6, <2>3
        <3>2. next[p] = log[p] /\ next[o] = log[o] /\ p \in Int /\ o \in Int
            BY <1>2, <1>6, <2>3
        <3>3. p = o
            BY <1>4, <1>6, <2>1, <2>3, <3>1, <3>2 DEF OpensBefore
        <3>4. ~(t.second < log[o].second)
            BY <1>2, <1>4, <1>5, <1>6, <2>1, <3>2, <3>3 DEF OpensBefore
        <3> QED BY <3>2, <3>3, <3>4
    <2> QED BY <1>7, <2>2, <2>3
<1>9. next[d] = IF t.second >= log[c].second THEN t ELSE log[c]
    <2>1. ClosesAfter(next, d, n) /\ ClosesAfter(next, d, c)
        BY <1>6, <1>7
    <2>2. CASE d = n
        <3>1. t.second >= log[c].second
            BY <1>2, <1>4, <1>5, <1>6, <2>1, <2>2 DEF ClosesAfter
        <3> QED BY <1>2, <2>2, <3>1
    <2>3. CASE d \in I
        <3>1. ClosesAfter(log, c, d)
            BY <1>6, <2>3
        <3>2. next[d] = log[d] /\ next[c] = log[c] /\ d \in Int /\ c \in Int /\ d < n
            BY <1>2, <1>6, <2>3
        <3>3. d = c
            BY <1>4, <1>6, <2>1, <2>3, <3>1, <3>2 DEF ClosesAfter
        <3>4. ~(t.second >= log[c].second)
            BY <1>2, <1>4, <1>5, <1>6, <2>1, <3>2, <3>3 DEF ClosesAfter
        <3> QED BY <3>2, <3>3, <3>4
    <2> QED BY <1>7, <2>2, <2>3
<1> DEFINE P == Prices(log, I)
           Q == Prices(next, J)
<1>10. Q = P \cup {t.price}
    BY <1>2 DEF Prices
<1>11. /\ IsFiniteSet(P) /\ P # {} /\ P \subseteq Int
       /\ IsFiniteSet(Q) /\ Q # {} /\ Q \subseteq Int
    BY <1>1, <1>2, PricesTyped
<1> HIDE DEF P, Q
<1>12. /\ Min(P) \in P /\ \A y \in P : Min(P) <= y
       /\ Max(P) \in P /\ \A y \in P : Max(P) >= y
       /\ Min(Q) \in Q /\ \A y \in Q : Min(Q) <= y
       /\ Max(Q) \in Q /\ \A y \in Q : Max(Q) >= y
    BY <1>11, MinMax
<1>13. Min(Q) = IF t.price < Min(P) THEN t.price ELSE Min(P)
    <2> DEFINE a == Min(P)
               b == Min(Q)
    <2>1. a \in P /\ a \in Q /\ b \in Q /\ t.price \in Q /\ a \in Int /\ b \in Int
        BY <1>10, <1>11, <1>12
    <2>2. b <= a /\ b <= t.price /\ (b = t.price \/ b \in P)
        BY <1>10, <1>12, <2>1
    <2>3. b \in P => a <= b
        BY <1>12
    <2> HIDE DEF a, b
    <2>4. b = IF t.price < a THEN t.price ELSE a
        BY <1>5, <2>1, <2>2, <2>3
    <2> QED BY <2>4 DEF a, b
<1>14. Max(Q) = IF t.price > Max(P) THEN t.price ELSE Max(P)
    <2> DEFINE a == Max(P)
               b == Max(Q)
    <2>1. a \in P /\ a \in Q /\ b \in Q /\ t.price \in Q /\ a \in Int /\ b \in Int
        BY <1>10, <1>11, <1>12
    <2>2. b >= a /\ b >= t.price /\ (b = t.price \/ b \in P)
        BY <1>10, <1>12, <2>1
    <2>3. b \in P => a >= b
        BY <1>12
    <2> HIDE DEF a, b
    <2>4. b = IF t.price > a THEN t.price ELSE a
        BY <1>5, <2>1, <2>2, <2>3
    <2> QED BY <2>4 DEF a, b
<1> DEFINE old == CandleOf(log, m)
<1>15. old = [openAt |-> log[o].second, closeAt |-> log[c].second,
              open |-> log[o].price, close |-> log[c].price,
              min |-> Min(P), max |-> Max(P), volume |-> CountOver(log, {m})]
    BY DEF CandleOf, Prices, o, c, P, I
<1>16. CandleOf(next, m)
           = [openAt |-> next[p].second, closeAt |-> next[d].second,
              open |-> next[p].price, close |-> next[d].price,
              min |-> Min(Q), max |-> Max(Q), volume |-> CountOver(next, {m})]
    BY <1>2 DEF CandleOf, Prices, p, d, Q
<1> HIDE DEF old, m, J
<1>17. Extend(old, t) = [openAt |-> next[p].second, closeAt |-> next[d].second,
              open |-> next[p].price, close |-> next[d].price,
              min |-> Min(Q), max |-> Max(Q), volume |-> CountOver(next, {m})]
    <2>1. /\ old.openAt = log[o].second /\ old.closeAt = log[c].second
          /\ old.open = log[o].price /\ old.close = log[c].price
          /\ old.min = Min(P) /\ old.max = Max(P) /\ old.volume = CountOver(log, {m})
        BY <1>15
    <2>2. (IF t.second < old.openAt THEN t.second ELSE old.openAt) = next[p].second
        BY <1>8, <2>1
    <2>3. (IF t.second >= old.closeAt THEN t.second ELSE old.closeAt) = next[d].second
        BY <1>9, <2>1
    <2>4. (IF t.second < old.openAt THEN t.price ELSE old.open) = next[p].price
        BY <1>8, <2>1
    <2>5. (IF t.second >= old.closeAt THEN t.price ELSE old.close) = next[d].price
        BY <1>9, <2>1
    <2>6. (IF t.price < old.min THEN t.price ELSE old.min) = Min(Q)
        BY <1>13, <2>1
    <2>7. (IF t.price > old.max THEN t.price ELSE old.max) = Max(Q)
        BY <1>14, <2>1
    <2>8. old.volume + t.volume = CountOver(next, {m})
        BY <1>3, <2>1
    <2> QED BY <2>2, <2>3, <2>4, <2>5, <2>6, <2>7, <2>8 DEF Extend
<1> QED BY <1>16, <1>17 DEF old, next, m

(* CandlestickManager::addTrade keeps what the candlesticks say, whichever *)
(* of the old ones it erases.                                              *)
LEMMA AddCandleFaithful ==
    ASSUME IInv, CandlesFaithful, NEW t \in Trades, CandleAccepts(t, minute),
           AddCandle(t, minute), candleLog' = Append(candleLog, t), minute' = minute
    PROVE  CandlesFaithful'
<1> DEFINE D == DOMAIN candles \cup {t.minute}
           log == candleLog
           next == Append(log, t)
           grown == [m \in D |-> IF m # t.minute THEN candles[m]
                                 ELSE IF m \in DOMAIN candles THEN Extend(candles[m], t)
                                 ELSE FirstOf(t)]
<1>0. /\ log \in Seq(Trades) /\ minute \in Nat /\ t.minute >= OldestCandle(minute)
      /\ OldestCandle(minute) \in Int
      /\ DOMAIN candles \subseteq LoggedMinutes(log)
      /\ \A m \in DOMAIN candles : candles[m] = CandleOf(log, m)
      /\ \A m \in LoggedMinutes(log) : m >= OldestCandle(minute) => m \in DOMAIN candles
    BY CandleMinutesAssumption DEF IInv, TypeOK, CandlesFaithful, CandleAccepts, OldestCandle
<1>1. /\ LoggedMinutes(next) = LoggedMinutes(log) \cup {t.minute}
      /\ LoggedMinutes(next) \subseteq Int
    <2>1. LoggedMinutes(log) \subseteq Nat
              /\ LoggedMinutes(next) = LoggedMinutes(log) \cup {t.minute}
        BY <1>0, LoggedTyped
    <2> QED BY <2>1 DEF Trades
<1>2. ASSUME NEW m \in D PROVE grown[m] = CandleOf(next, m)
    <2>1. CASE m # t.minute
        <3>1. m \in DOMAIN candles /\ m \in LoggedMinutes(log) /\ grown[m] = candles[m]
            BY <1>0, <2>1
        <3>2. CandleOf(next, m) = CandleOf(log, m)
            BY <1>0, <2>1, <3>1, OtherCandles
        <3> QED BY <1>0, <3>1, <3>2
    <2>2. CASE m = t.minute /\ m \in DOMAIN candles
        <3>1. grown[m] = Extend(candles[m], t) /\ candles[m] = CandleOf(log, t.minute)
            BY <1>0, <2>2
        <3>2. CandleOf(next, t.minute) = Extend(CandleOf(log, t.minute), t)
            BY <1>0, <2>2, NextCandle
        <3> QED BY <2>2, <3>1, <3>2
    <2>3. CASE m = t.minute /\ m \notin DOMAIN candles
        <3>1. grown[m] = FirstOf(t)
            BY <2>3
        <3>2. t.minute \notin LoggedMinutes(log)
            BY <1>0, <2>3
        <3>3. CandleOf(next, t.minute) = FirstOf(t)
            BY <1>0, <3>2, FirstCandle
        <3> QED BY <2>3, <3>1, <3>3
    <2> QED BY <2>1, <2>2, <2>3
<1>3. DOMAIN grown = D /\ Evict(grown, minute)
    BY DEF AddCandle
<1> HIDE DEF grown, D
<1>4. /\ DOMAIN candles' \subseteq D
      /\ \A m \in DOMAIN candles' : candles'[m] = grown[m]
      /\ \A m \in D : m < OldestCandle(minute) \/ m \in DOMAIN candles'
    <2>1. CASE candles' = grown
        BY <1>3, <2>1
    <2>2. CASE candles' # grown
        <3>1. PICK x \in D : x < OldestCandle(minute) /\ candles' = Restrict(grown, D \ {x})
            BY <1>3, <2>2 DEF Evict
        <3>2. DOMAIN candles' = D \ {x} /\ \A m \in D \ {x} : candles'[m] = grown[m]
            BY <3>1 DEF Restrict
        <3> QED BY <3>1, <3>2
    <2> QED BY <2>1, <2>2
<1>5. D \subseteq LoggedMinutes(next)
    BY <1>0, <1>1 DEF D
<1>6. ASSUME NEW m \in LoggedMinutes(next), m >= OldestCandle(minute) PROVE m \in DOMAIN candles'
    <2>1. m \in D
        BY <1>0, <1>1, <1>6 DEF D
    <2>2. ~(m < OldestCandle(minute))
        <3>1. m \in Int
            BY <1>1
        <3> QED BY <1>0, <1>6, <3>1
    <2> QED BY <1>4, <2>1, <2>2
<1>7. \A m \in DOMAIN candles' : candles'[m] = CandleOf(next, m)
    BY <1>2, <1>4
<1> QED BY <1>4, <1>5, <1>6, <1>7 DEF CandlesFaithful, next, log

LEMMA InitCandles == Init => CandlesFaithful
<1> SUFFICES ASSUME Init PROVE CandlesFaithful
    OBVIOUS
<1>1. DOMAIN candles = {} /\ candleLog = <<>>
    BY DEF Init, CandlesInit
<1> QED BY <1>1 DEF CandlesFaithful, LoggedMinutes

LEMMA StepCandles == IInv /\ CandlesFaithful /\ [Next]_vars => CandlesFaithful'
<1> SUFFICES ASSUME IInv, CandlesFaithful, [Next]_vars PROVE CandlesFaithful'
    OBVIOUS
<1>0. minute \in Nat /\ candleLog \in Seq(Trades)
    BY DEF IInv, TypeOK
<1>1. CASE MinuteTurn
    <2>1. minute' = minute + 1 /\ UNCHANGED <<candles, candleLog>>
        BY <1>1 DEF MinuteTurn, history
    <2>2. ASSUME NEW m \in LoggedMinutes(candleLog), m >= OldestCandle(minute')
          PROVE  m \in DOMAIN candles
        <3>1. m \in Nat
            BY <1>0, LoggedTyped, StatisticsAssumption DEF IInv, TypeOK
        <3>2. m >= OldestCandle(minute)
            BY <1>0, <2>1, <2>2, <3>1, CandleMinutesAssumption DEF OldestCandle
        <3> QED BY <3>2 DEF CandlesFaithful
    <2> QED BY <2>1, <2>2 DEF CandlesFaithful
<1>2. CASE TradeArrives
    <2>1. PICK m \in Nat, s \in Samples :
              UpdateCandle([minute |-> m, second |-> s.second,
                            price |-> s.price, volume |-> s.volume])
        BY <1>2 DEF TradeArrives
    <2> DEFINE t == [minute |-> m, second |-> s.second, price |-> s.price, volume |-> s.volume]
    <2>2. t \in Trades
        BY StatisticsAssumption DEF Trades
    <2> HIDE DEF t
    <2>3. UpdateCandle(t)
        BY <2>1 DEF t
    <2>4. CASE CandleAccepts(t, minute)
        <3>1. AddCandle(t, minute) /\ candleLog' = Append(candleLog, t) /\ minute' = minute
            BY <2>3, <2>4 DEF UpdateCandle
        <3> QED BY <2>2, <2>4, <3>1, AddCandleFaithful
    <2>5. CASE ~CandleAccepts(t, minute)
        <3>1. UNCHANGED <<candles, candleLog, minute>>
            BY <2>3, <2>5 DEF UpdateCandle
        <3> QED BY <3>1 DEF CandlesFaithful
    <2> QED BY <2>4, <2>5
<1>3. CASE UpdateAverage \/ Wake \/ ExportCandle \/ ExportAverage
    <2>1. UNCHANGED <<candles, candleLog, minute>>
        BY <1>3 DEF UpdateAverage, Wake, ExportCandle, ExportAverage, history
    <2> QED BY <2>1 DEF CandlesFaithful
<1>4. CASE UNCHANGED vars
    BY <1>4 DEF vars, history, CandlesFaithful
<1> QED BY <1>1, <1>2, <1>3, <1>4 DEF Next

(* Each stored candlestick is exactly what the accepted trades of its      *)
(* minute amount to, in whatever order of their seconds they came, and no  *)
(* candlestick of the last minutes is missing.                             *)
THEOREM CandlesAreFaithful == Spec => []CandlesFaithful
    BY InitIInv, StepIInv, InitCandles, StepCandles, PTL DEF Spec

----------------------------------------------------------------------------
(* The rows *)

(* What an exported row rests on: of the minutes the moving average still  *)
(* accepts, it lacks no more than the trade on its way of what the         *)
(* candlesticks were given, and the candlestick of a row in the making     *)
(* counts no more than they were given.                                    *)
RowInv ==
    /\ wakeMinute \in Int /\ wakeMinute <= minute
    /\ \A m \in Int : m >= OldestAverage(minute) =>
           CountOver(candleLog, {m}) <= CountOver(averageLog, {m}) + InHand(m)
    /\ exporter = "average" /\ wakeMinute = minute =>
           /\ line.candle.volume \in Int
           /\ line.candle.volume <= CountOver(candleLog, {minute - 1})

LEMMA CountIsNat ==
    ASSUME NEW log \in Seq(Trades), NEW A
    PROVE  CountOver(log, A) \in Nat
<1> DEFINE f == Volumes(log)
           S == LoggedIn(log, A)
           G == {E \in SUBSET S : SumFunctionOnSet(f, E) \in Nat}
<1>1. IsFiniteSet(S) /\ \A i \in S : f[i] \in Nat
    BY LoggedFinite
<1> HIDE DEF f, S
<1>2. {} \in G
    <2>1. IsFiniteSet({})
        BY FS_EmptySet
    <2>2. SumFunctionOnSet(f, {}) = 0
        BY <2>1, SumTakesOut
    <2> QED BY <2>2
<1>3. ASSUME NEW E \in SUBSET S, NEW i \in S \ E, E \in G PROVE E \cup {i} \in G
    <2>1. IsFiniteSet(E) /\ \A j \in E \cup {i} : f[j] \in Int
        BY <1>1, FS_Subset
    <2>2. SumFunctionOnSet(f, E \cup {i}) = SumFunctionOnSet(f, E) + f[i]
        BY <2>1, SumAddsElement
    <2>3. SumFunctionOnSet(f, E) \in Nat /\ f[i] \in Nat
        BY <1>1, <1>3
    <2>4. SumFunctionOnSet(f, E \cup {i}) \in Nat
        BY <2>2, <2>3
    <2> QED BY <2>4
<1> HIDE DEF G
<1>4. S \in G
    BY <1>1, <1>2, <1>3, FiniteSetInduction
<1> QED BY <1>4 DEF CountOver, G, f, S

LEMMA InitRow == Init => RowInv
<1> SUFFICES ASSUME Init PROVE RowInv
    OBVIOUS
<1>1. /\ candleLog = <<>> /\ averageLog = <<>> /\ exporter = "idle" /\ ~updating
      /\ wakeMinute = minute /\ minute \in Nat
    BY StatisticsAssumption DEF Init
<1>2. <<>> \in Seq(Trades) /\ LoggedMinutes(<<>>) = {}
    BY DEF LoggedMinutes
<1>3. ASSUME NEW m \in Int
      PROVE  CountOver(candleLog, {m}) <= CountOver(averageLog, {m}) + InHand(m)
    <2>1. {m} \cap LoggedMinutes(<<>>) = {}
        BY <1>2
    <2>2. CountOver(<<>>, {m}) = 0
        BY <1>2, <2>1, TotalOfNone
    <2>3. InHand(m) = 0
        BY <1>1 DEF InHand
    <2> QED BY <1>1, <2>2, <2>3
<1> QED BY <1>1, <1>3 DEF RowInv

(* A trade the candlesticks were called with is in hand until the moving   *)
(* average is, which accepts it unless its minute no longer counts.        *)
LEMMA StepCounts ==
    ASSUME IInv, RowInv, [Next]_vars, NEW m \in Int, m >= OldestAverage(minute')
    PROVE  /\ CountOver(candleLog', {m}) <= CountOver(averageLog', {m}) + InHand(m)'
           /\ CountOver(candleLog, {m}) <= CountOver(candleLog', {m})
           /\ CountOver(candleLog, {m}) \in Int /\ CountOver(candleLog', {m}) \in Int
<1>0. /\ minute \in Nat /\ candleLog \in Seq(Trades) /\ averageLog \in Seq(Trades)
      /\ trade \in Trades /\ trade.volume \in Nat /\ updating \in BOOLEAN
      /\ Window \in Nat
    BY WindowAssumption DEF IInv, TypeOK, Trades
<1>1. CountOver(candleLog, {m}) \in Int /\ CountOver(averageLog, {m}) \in Int
    BY <1>0, TotalsOfMinutes
<1>2. m >= OldestAverage(minute)
    <2>1. minute' = minute \/ minute' = minute + 1
        BY DEF Next, MinuteTurn, TradeArrives, UpdateCandle, UpdateAverage, Wake, ExportCandle,
               ExportAverage, vars
    <2> QED BY <1>0, <2>1 DEF OldestAverage, MinutesStored
<1>3. CountOver(candleLog, {m}) <= CountOver(averageLog, {m}) + InHand(m)
    BY <1>2 DEF RowInv
<1>4. CASE TradeArrives
    <2>1. PICK k \in Nat, s \in Samples :
              UpdateCandle([minute |-> k, second |-> s.second,
                            price |-> s.price, volume |-> s.volume])
        BY <1>4 DEF TradeArrives
    <2> DEFINE t == [minute |-> k, second |-> s.second, price |-> s.price, volume |-> s.volume]
    <2>2. t \in Trades
        BY StatisticsAssumption DEF Trades
    <2> HIDE DEF t
    <2>3. UpdateCandle(t)
        BY <2>1 DEF t
    <2>4. ~updating /\ updating' /\ trade' = t /\ averageLog' = averageLog
        BY <2>3 DEF UpdateCandle
    <2>5. InHand(m)' = (IF t.minute = m THEN t.volume ELSE 0) /\ InHand(m) = 0
        BY <2>4 DEF InHand
    <2>6. t.volume \in Nat
        BY <2>2 DEF Trades
    <2>7. CASE CandleAccepts(t, minute)
        <3>1. candleLog' = Append(candleLog, t)
            BY <2>3, <2>7 DEF UpdateCandle
        <3>2. CountOver(Append(candleLog, t), {m})
                  = CountOver(candleLog, {m}) + (IF t.minute \in {m} THEN t.volume ELSE 0)
            BY <1>0, <2>2, OverAppends
        <3> QED BY <1>1, <1>3, <2>4, <2>5, <2>6, <3>1, <3>2
    <2>8. CASE ~CandleAccepts(t, minute)
        <3>1. candleLog' = candleLog
            BY <2>3, <2>8 DEF UpdateCandle
        <3> QED BY <1>1, <1>3, <2>4, <2>5, <2>6, <3>1
    <2> QED BY <2>7, <2>8
<1>5. CASE UpdateAverage
    <2>1. updating /\ ~updating' /\ candleLog' = candleLog /\ minute' = minute
        BY <1>5 DEF UpdateAverage
    <2>2. InHand(m)' = 0 /\ InHand(m) = (IF trade.minute = m THEN trade.volume ELSE 0)
        BY <2>1 DEF InHand
    <2>3. CASE AverageAccepts(trade, minute)
        <3>1. averageLog' = Append(averageLog, trade)
            BY <1>5, <2>3 DEF UpdateAverage
        <3>2. CountOver(Append(averageLog, trade), {m})
                  = CountOver(averageLog, {m}) + (IF trade.minute \in {m} THEN trade.volume ELSE 0)
            BY <1>0, OverAppends
        <3> QED BY <1>0, <1>1, <1>3, <2>1, <2>2, <3>1, <3>2
    <2>4. CASE ~AverageAccepts(trade, minute)
        <3>1. averageLog' = averageLog
            BY <1>5, <2>4 DEF UpdateAverage
        <3>2. trade.minute # m
            BY <1>2, <2>4 DEF AverageAccepts
        <3> QED BY <1>0, <1>1, <1>3, <2>1, <2>2, <3>1, <3>2
    <2> QED BY <2>3, <2>4
<1>6. CASE MinuteTurn \/ Wake \/ ExportCandle \/ ExportAverage \/ UNCHANGED vars
    <2>1. UNCHANGED <<candleLog, averageLog, updating, trade>>
        BY <1>6 DEF MinuteTurn, Wake, ExportCandle, ExportAverage, vars, threads, history
    <2> QED BY <1>1, <1>3, <2>1 DEF InHand
<1> QED BY <1>4, <1>5, <1>6 DEF Next

LEMMA StepRow == IInv /\ CandlesFaithful /\ RowInv /\ [Next]_vars => RowInv'
<1> SUFFICES ASSUME IInv, CandlesFaithful, RowInv, [Next]_vars PROVE RowInv'
    OBVIOUS
<1>0. /\ minute \in Nat /\ candleLog \in Seq(Trades) /\ wakeMinute \in Int
      /\ wakeMinute <= minute /\ Window \in Nat \ {0}
    BY WindowAssumption DEF IInv, TypeOK, RowInv
<1>1. \A m \in Int : m >= OldestAverage(minute') =>
          /\ CountOver(candleLog', {m}) <= CountOver(averageLog', {m}) + InHand(m)'
          /\ CountOver(candleLog, {m}) <= CountOver(candleLog', {m})
          /\ CountOver(candleLog, {m}) \in Int /\ CountOver(candleLog', {m}) \in Int
    BY StepCounts
<1>2. wakeMinute' \in Int /\ wakeMinute' <= minute'
    <2>1. CASE MinuteTurn
        BY <1>0, <2>1 DEF MinuteTurn, threads
    <2>2. CASE Wake
        BY <1>0, <2>2 DEF Wake
    <2>3. CASE ~MinuteTurn /\ ~Wake
        <3>1. UNCHANGED <<wakeMinute, minute>>
            BY <2>3 DEF Next, TradeArrives, UpdateCandle, UpdateAverage, ExportCandle,
               ExportAverage, vars, threads
        <3> QED BY <1>0, <3>1
    <2> QED BY <2>1, <2>2, <2>3
<1>3. ASSUME exporter' = "average", wakeMinute' = minute'
      PROVE  /\ line'.candle.volume \in Int
             /\ line'.candle.volume <= CountOver(candleLog', {minute' - 1})
    <2>1. CASE ExportCandle
        <3>1. /\ wakeMinute = minute /\ minute' = minute /\ candleLog' = candleLog
              /\ line' = [NoLine EXCEPT !.candle = GetCandle(wakeMinute - 1)]
            BY <1>3, <2>1 DEF ExportCandle, history
        <3>2. line'.candle = GetCandle(minute - 1)
            BY <3>1 DEF NoLine
        <3>3. CountOver(candleLog, {minute - 1}) \in Nat
            BY <1>0, CountIsNat
        <3>4. CASE minute - 1 \in DOMAIN candles
            <4>1. candles[minute - 1] = CandleOf(candleLog, minute - 1)
                BY <3>4 DEF CandlesFaithful
            <4>2. CandleOf(candleLog, minute - 1).volume = CountOver(candleLog, {minute - 1})
                BY DEF CandleOf
            <4> QED BY <3>1, <3>2, <3>3, <3>4, <4>1, <4>2 DEF GetCandle
        <3>5. CASE minute - 1 \notin DOMAIN candles
            BY <3>1, <3>2, <3>3, <3>5 DEF GetCandle, Zeros
        <3> QED BY <3>4, <3>5
    <2>2. CASE ~ExportCandle
        <3>1. /\ exporter = "average" /\ wakeMinute = minute /\ minute' = minute
              /\ line' = line
            <4>1. CASE MinuteTurn
                BY <1>0, <1>3, <4>1 DEF MinuteTurn, threads
            <4>2. ~Wake /\ ~ExportAverage
                BY <1>3 DEF Wake, ExportAverage
            <4>3. CASE TradeArrives \/ UpdateAverage \/ UNCHANGED vars
                BY <1>3, <4>3 DEF TradeArrives, UpdateCandle, UpdateAverage, vars, threads
            <4> QED BY <2>2, <4>1, <4>2, <4>3 DEF Next
        <3>2. /\ line.candle.volume \in Int
              /\ line.candle.volume <= CountOver(candleLog, {minute - 1})
            BY <3>1 DEF RowInv
        <3>3. minute - 1 \in Int /\ minute - 1 >= OldestAverage(minute)
            BY <1>0 DEF OldestAverage, MinutesStored
        <3> QED BY <1>1, <3>1, <3>2, <3>3
    <2> QED BY <2>1, <2>2
<1> QED BY <1>1, <1>2, <1>3 DEF RowInv

LEMMA StepRowLacks ==
    ASSUME IInv, RowInv, ExportAverage, wakeMinute = minute
    PROVE  line.candle.volume <= CountOver(averageLog, {minute - 1}) + InHand(minute - 1)
<1>1. /\ minute \in Nat /\ exporter = "average" /\ Window \in Nat \ {0}
      /\ candleLog \in Seq(Trades) /\ averageLog \in Seq(Trades)
      /\ trade.volume \in Nat
    BY WindowAssumption DEF IInv, TypeOK, ExportAverage, Trades
<1>2. minute - 1 \in Int /\ minute - 1 >= OldestAverage(minute)
    BY <1>1 DEF OldestAverage, MinutesStored
<1>3. /\ line.candle.volume \in Int
      /\ line.candle.volume <= CountOver(candleLog, {minute - 1})
      /\ CountOver(candleLog, {minute - 1})
            <= CountOver(averageLog, {minute - 1}) + InHand(minute - 1)
    BY <1>1, <1>2 DEF RowInv
<1>4. /\ CountOver(candleLog, {minute - 1}) \in Int
      /\ CountOver(averageLog, {minute - 1}) \in Int
    BY <1>1, TotalsOfMinutes
<1>5. InHand(minute - 1) \in Int
    BY <1>1 DEF InHand
<1> QED BY <1>3, <1>4, <1>5

(* Whatever runs between the reads of a row and between the two updates,   *)
(* what the row's candlestick counts its average counts, but for the one   *)
(* trade the updater is working on.                                        *)
THEOREM RowsLackOneTrade == Spec => RowLacksOneTrade
<1>1. IInv /\ RowInv /\ [Next]_vars
        => [ExportAverage /\ wakeMinute = minute =>
              line.candle.volume <= CountOver(averageLog, {minute - 1}) + InHand(minute - 1)]_vars
    BY StepRowLacks
<1>2. Spec => []RowInv
    BY InitRow, StepRow, InvariantHolds, CandlesAreFaithful, PTL DEF Spec
<1> QED BY <1>1, <1>2, InvariantHolds, PTL DEF Spec, RowLacksOneTrade
====
