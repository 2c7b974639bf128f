----------------------------- MODULE DataLemmas -----------------------------
(***************************************************************************)
(* What the community modules' operators on sequences and sets return, for *)
(* the proofs about Jobs.tla and Bank.tla: taking an element out of a      *)
(* sequence, the smallest of some numbers, sums.                           *)
(***************************************************************************)
EXTENDS Integers, Sequences, FiniteSets, SequencesExt, FiniteSetsExt,
        SequenceTheorems, FiniteSetTheorems, WellFoundedInduction, TLAPS

(* A sequence without its k-th element.                                    *)
LEMMA Removed ==
    ASSUME NEW S, NEW s \in Seq(S), NEW k \in 1 .. Len(s)
    PROVE  /\ RemoveAt(s, k) \in Seq(S)
           /\ Len(RemoveAt(s, k)) = Len(s) - 1
           /\ \A i \in 1 .. Len(s) - 1 : RemoveAt(s, k)[i] = IF i < k THEN s[i] ELSE s[i + 1]
<1>1. Len(s) \in Nat /\ \A i \in 1 .. Len(s) : s[i] \in S
  BY LenProperties, ElementOfSeq
<1> DEFINE a == SubSeq(s, 1, k - 1)
           b == SubSeq(s, k + 1, Len(s))
<1>2. /\ a \in Seq(S) /\ Len(a) = k - 1
      /\ \A i \in 1 .. k - 1 : a[i] = s[i]
  BY <1>1, SubSeqProperties
<1>3. /\ b \in Seq(S) /\ Len(b) = Len(s) - k
      /\ \A i \in 1 .. Len(s) - k : b[i] = s[k + i]
  <2>1. /\ b \in Seq(S) /\ Len(b) = IF k + 1 <= Len(s) THEN Len(s) - (k + 1) + 1 ELSE 0
        /\ \A i \in 1 .. Len(s) - (k + 1) + 1 : b[i] = s[(k + 1) + i - 1]
    BY <1>1, SubSeqProperties
  <2> HIDE DEF b
  <2> QED
    BY <1>1, <2>1
<1> HIDE DEF a, b
<1>4. /\ a \o b \in Seq(S) /\ Len(a \o b) = Len(a) + Len(b)
      /\ \A i \in 1 .. Len(a) + Len(b) : (a \o b)[i] = IF i <= Len(a) THEN a[i] ELSE b[i - Len(a)]
  BY <1>2, <1>3, ConcatProperties
<1> DEFINE c == a \o b
<1>5. c \in Seq(S) /\ Len(c) = Len(s) - 1
  BY <1>1, <1>2, <1>3, <1>4
<1>6. ASSUME NEW i \in 1 .. Len(s) - 1
      PROVE  c[i] = IF i < k THEN s[i] ELSE s[i + 1]
  <2>1. i \in 1 .. Len(a) + Len(b)
    BY <1>1, <1>2, <1>3
  <2>2. CASE i < k
    <3>1. i <= Len(a) /\ i \in 1 .. k - 1
      BY <1>1, <1>2, <2>2
    <3> QED
      BY <1>2, <1>4, <2>1, <2>2, <3>1
  <2>3. CASE ~(i < k)
    <3>1. ~(i <= Len(a)) /\ i - Len(a) \in 1 .. Len(s) - k /\ k + (i - Len(a)) = i + 1
      BY <1>1, <1>2, <2>3
    <3>2. c[i] = b[i - Len(a)]
      BY <1>4, <2>1, <3>1
    <3>3. b[i - Len(a)] = s[k + (i - Len(a))]
      BY <1>3, <3>1
    <3> QED
      BY <2>3, <3>1, <3>2, <3>3
  <2> QED
    BY <2>2, <2>3
<1>7. RemoveAt(s, k) = c
  BY DEF RemoveAt, a, b
<1> HIDE DEF c
<1> QED
  BY <1>5, <1>6, <1>7

(* Positions behind k are shifted by one, and keep their order.            *)
LEMMA ShiftPast ==
    ASSUME NEW n \in Nat, NEW k \in 1 .. n,
           NEW i \in 1 .. n - 1, NEW j \in 1 .. n - 1, i < j
    PROVE  /\ (IF i < k THEN i ELSE i + 1) \in 1 .. n
           /\ (IF j < k THEN j ELSE j + 1) \in 1 .. n
           /\ (IF i < k THEN i ELSE i + 1) < (IF j < k THEN j ELSE j + 1)
  OBVIOUS

(* Some numbers have a smallest one. *)
LEMMA SmallestIn ==
    ASSUME NEW S \in SUBSET Nat, S # {}
    PROVE  Min(S) \in S
<1>1. PICK x \in S : \A y \in S : ~(<<y, x>> \in OpToRel(<, Nat))
  BY NatLessThanWellFounded, WFMin
<1>2. \A y \in S : x <= y
  <2> SUFFICES ASSUME NEW y \in S, ~(x <= y) PROVE FALSE
    OBVIOUS
  <2>1. y < x /\ <<y, x>> \in Nat \X Nat
    OBVIOUS
  <2>2. <<y, x>> \in OpToRel(<, Nat)
    BY <2>1 DEF OpToRel
  <2> QED
    BY <1>1, <2>2
<1> QED
  BY <1>2 DEF Min

(* Among some subsets of a finite set there is a smallest one.             *)
LEMMA LeastSubset ==
    ASSUME NEW S, IsFiniteSet(S), NEW T \in SUBSET SUBSET S, T # {}
    PROVE  \E x \in T : \A y \in T : ~(y \subseteq x /\ y # x)
<1>1. FiniteSubsetsOf(S) = SUBSET S
  BY FS_FiniteSubsetsOfFinite
<1>2. IsWellFoundedOn(StrictSubsetOrdering(S), SUBSET S)
  BY <1>1, FS_StrictSubsetOrderingWellFounded
<1>3. PICK x \in T : \A y \in T : ~(<<y, x>> \in StrictSubsetOrdering(S))
  BY <1>2, WFMin
<1>4. ASSUME NEW y \in T, y \subseteq x, y # x PROVE FALSE
  <2>1. <<y, x>> \in StrictSubsetOrdering(S)
    BY <1>4 DEF StrictSubsetOrdering
  <2> QED
    BY <1>3, <2>1
<1>5. \A y \in T : ~(y \subseteq x /\ y # x)
  BY <1>4
<1> QED
  BY <1>5

-----------------------------------------------------------------------------
(* Sums of a function's values *)

Picked(s) == CHOOSE x \in s : TRUE

(* g[s] is the sum of f over s, for each part s of S.                      *)
Sums(g, f, S) ==
    /\ g \in [SUBSET S -> Int]
    /\ \A s \in SUBSET S :
         g[s] = IF s = {} THEN 0 ELSE f[Picked(s)] + g[s \ {Picked(s)}]

(* A set that has members has a picked one.                                *)
LEMMA PickedIn == \A s : s # {} => Picked(s) \in s
  BY DEF Picked

(* There is a function that gives every finite set its sum.                *)
LEMMA SumsExist ==
    ASSUME NEW S, IsFiniteSet(S), NEW f, \A x \in S : f[x] \in Int
    PROVE  \E g : Sums(g, f, S)
<1> DEFINE Right(g, s) == g[s] = IF s = {} THEN 0 ELSE f[Picked(s)] + g[s \ {Picked(s)}]
           UpTo(n) == \E g \in [SUBSET S -> Int] :
                        \A s \in SUBSET S : Cardinality(s) <= n => Right(g, s)
           Bad == {n \in Nat : ~UpTo(n)}
<1>1. \A s \in SUBSET S : /\ IsFiniteSet(s) /\ Cardinality(s) \in Nat
                          /\ Cardinality(s) <= Cardinality(S)
  BY FS_Subset, FS_CardinalityType
<1>2. UpTo(0)
  <2> DEFINE g == [s \in SUBSET S |-> 0]
  <2>1. \A s \in SUBSET S : Cardinality(s) <= 0 => s = {}
    BY <1>1, FS_EmptySet
  <2>2. \A s \in SUBSET S : Cardinality(s) <= 0 => Right(g, s)
    BY <2>1
  <2>3. g \in [SUBSET S -> Int]
    OBVIOUS
  <2> QED
    BY <2>2, <2>3
<1>3. ASSUME NEW n \in Nat, UpTo(n) PROVE UpTo(n + 1)
  <2>1. PICK g \in [SUBSET S -> Int] : \A s \in SUBSET S : Cardinality(s) <= n => Right(g, s)
    BY <1>3
  <2> DEFINE h == [s \in SUBSET S |->
                     IF s = {} THEN 0 ELSE f[Picked(s)] + g[s \ {Picked(s)}]]
  <2>2. h \in [SUBSET S -> Int]
    <3> SUFFICES ASSUME NEW s \in SUBSET S, s # {}
                 PROVE  f[Picked(s)] + g[s \ {Picked(s)}] \in Int
      OBVIOUS
    <3>1. f[Picked(s)] \in Int /\ s \ {Picked(s)} \in SUBSET S
      BY PickedIn
    <3> QED
      BY <2>1, <3>1
  <2>3. ASSUME NEW s \in SUBSET S, Cardinality(s) <= n + 1 PROVE Right(h, s)
    <3>1. CASE s = {}
      BY <3>1
    <3>2. CASE s # {}
      <4> DEFINE r == s \ {Picked(s)}
      <4>1. r \in SUBSET S /\ Cardinality(r) <= n
        <5>1. Picked(s) \in s
          BY <3>2, PickedIn
        <5>2. Cardinality(r) = Cardinality(s) - 1
          BY <1>1, <5>1, FS_RemoveElement
        <5> QED
          BY <1>1, <2>3, <5>2
      <4>2. h[r] = g[r]
        BY <2>1, <4>1
      <4>3. h[s] = f[Picked(s)] + g[r]
        BY <3>2
      <4> QED
        BY <3>2, <4>2, <4>3
    <3> QED
      BY <3>1, <3>2
  <2> HIDE DEF Right
  <2> QED
    BY <2>2, <2>3
<1> HIDE DEF UpTo
<1>4. Bad = {}
  <2> SUFFICES ASSUME Bad # {} PROVE FALSE
    OBVIOUS
  <2>1. PICK m \in Bad : \A y \in Bad : ~(<<y, m>> \in OpToRel(<, Nat))
    BY NatLessThanWellFounded, WFMin
  <2>2. m \in Nat /\ ~UpTo(m) /\ m # 0
    BY <1>2
  <2>3. m - 1 \in Nat /\ (m - 1) + 1 = m
    BY <2>2
  <2>4. <<m - 1, m>> \in OpToRel(<, Nat)
    BY <2>2, <2>3 DEF OpToRel
  <2>5. UpTo(m - 1)
    BY <2>1, <2>3, <2>4
  <2>6. UpTo(m)
    BY <1>3, <2>3, <2>5
  <2> QED
    BY <2>2, <2>6
<1>5. UpTo(Cardinality(S))
  BY <1>4, FS_CardinalityType
<1>6. PICK g \in [SUBSET S -> Int] :
         \A s \in SUBSET S : Cardinality(s) <= Cardinality(S) => Right(g, s)
  BY <1>5 DEF UpTo
<1>7. \A s \in SUBSET S : Right(g, s)
  BY <1>1, <1>6
<1> QED
  BY <1>6, <1>7 DEF Sums

(* SumFunctionOnSet computes such sums.                                    *)
LEMMA SumIs ==
    ASSUME NEW S, IsFiniteSet(S), NEW f, \A x \in S : f[x] \in Int
    PROVE  \E g : Sums(g, f, S) /\ SumFunctionOnSet(f, S) = g[S]
<1> DEFINE iter == CHOOSE g : g = [s \in SUBSET S |->
                     IF s = {} THEN 0 ELSE f[Picked(s)] + g[s \ {Picked(s)}]]
<1>1. SumFunctionOnSet(f, S) = iter[S]
  BY DEF SumFunctionOnSet, FoldFunctionOnSet, MapThenFoldSet, Picked
<1>2. PICK g : Sums(g, f, S)
  BY SumsExist
<1>3. g = [s \in SUBSET S |-> IF s = {} THEN 0 ELSE f[Picked(s)] + g[s \ {Picked(s)}]]
  BY <1>2 DEF Sums
<1>4. iter = [s \in SUBSET S |-> IF s = {} THEN 0 ELSE f[Picked(s)] + iter[s \ {Picked(s)}]]
  BY <1>3
<1> HIDE DEF iter
<1>5. {s \in SUBSET S : iter[s] # g[s]} = {}
  <2> DEFINE Bad == {s \in SUBSET S : iter[s] # g[s]}
  <2> SUFFICES ASSUME Bad # {} PROVE FALSE
    OBVIOUS
  <2>1. PICK s \in Bad : \A y \in Bad : ~(y \subseteq s /\ y # s)
    <3>1. Bad \in SUBSET SUBSET S
      OBVIOUS
    <3> HIDE DEF Bad
    <3> QED
      BY <3>1, LeastSubset
  <2>2. s # {}
    BY <1>3, <1>4, <2>1
  <2> DEFINE r == s \ {Picked(s)}
  <2>3. r \in SUBSET S /\ r \subseteq s /\ r # s
    BY <2>1, <2>2, PickedIn
  <2>4. iter[r] = g[r]
    BY <2>1, <2>3
  <2>5. iter[s] = f[Picked(s)] + iter[r] /\ g[s] = f[Picked(s)] + g[r]
    BY <1>3, <1>4, <2>1, <2>2
  <2> QED
    BY <2>1, <2>4, <2>5
<1> QED
  BY <1>1, <1>2, <1>5

(* Two such sums agree where the functions do.                             *)
LEMMA SumsAgree ==
    ASSUME NEW S, NEW T, NEW U \in SUBSET S, U \subseteq T, IsFiniteSet(U),
           NEW f, NEW k, \A x \in U : f[x] = k[x],
           NEW g, NEW h, Sums(g, f, S), Sums(h, k, T)
    PROVE  g[U] = h[U]
<1> DEFINE Bad == {s \in SUBSET U : g[s] # h[s]}
<1> SUFFICES ASSUME Bad # {} PROVE FALSE
  OBVIOUS
<1>1. PICK s \in Bad : \A y \in Bad : ~(y \subseteq s /\ y # s)
  <2>1. Bad \in SUBSET SUBSET U
    OBVIOUS
  <2> HIDE DEF Bad
  <2> QED
    BY <2>1, LeastSubset
<1>2. s \in SUBSET S /\ s \in SUBSET T
  BY <1>1
<1>3. s # {}
  BY <1>1, <1>2 DEF Sums
<1> DEFINE r == s \ {Picked(s)}
<1>4. Picked(s) \in U /\ r \in SUBSET U /\ r # s /\ r \subseteq s
  BY <1>1, <1>3, PickedIn
<1>5. g[r] = h[r]
  BY <1>1, <1>4
<1>6. g[s] = f[Picked(s)] + g[r] /\ h[s] = k[Picked(s)] + h[r]
  BY <1>2, <1>3 DEF Sums
<1> QED
  BY <1>1, <1>4, <1>5, <1>6

(* Any element may be taken out first.                                     *)
LEMMA SumsTake ==
    ASSUME NEW S, IsFiniteSet(S), NEW f, \A x \in S : f[x] \in Int, NEW g, Sums(g, f, S),
           NEW a \in S
    PROVE  g[S] = f[a] + g[S \ {a}]
<1> DEFINE Bad == {s \in SUBSET S : \E x \in s : g[s] # f[x] + g[s \ {x}]}
<1> SUFFICES ASSUME Bad # {} PROVE FALSE
  OBVIOUS
<1>1. PICK s \in Bad : \A y \in Bad : ~(y \subseteq s /\ y # s)
  <2>1. Bad \in SUBSET SUBSET S
    OBVIOUS
  <2> HIDE DEF Bad
  <2> QED
    BY <2>1, LeastSubset
<1>2. PICK x \in s : g[s] # f[x] + g[s \ {x}]
  BY <1>1
<1> DEFINE c == Picked(s)
           r == s \ {c}
           q == s \ {x}
<1>3. s \in SUBSET S /\ s # {} /\ c \in s
  BY <1>1, <1>2, PickedIn
<1>4. g[s] = f[c] + g[r]
  BY <1>3 DEF Sums
<1>5. c # x
  BY <1>2, <1>4
<1> HIDE DEF c
<1>6. /\ r \in SUBSET S /\ x \in r /\ r \subseteq s /\ r # s
      /\ q \in SUBSET S /\ c \in q /\ q \subseteq s /\ q # s
      /\ r \ {x} = q \ {c}
  BY <1>2, <1>3, <1>5
<1>7. g[r] = f[x] + g[r \ {x}] /\ g[q] = f[c] + g[r \ {x}]
  BY <1>1, <1>6
<1>8. f[x] \in Int /\ f[c] \in Int /\ g[r \ {x}] \in Int
  BY <1>2, <1>3 DEF Sums
<1> QED
  BY <1>2, <1>4, <1>7, <1>8

-----------------------------------------------------------------------------
(* The laws of sums *)

(* The laws of sums.                                                       *)
LEMMA SumOfNone == \A f : SumFunctionOnSet(f, {}) = 0
<1> SUFFICES ASSUME NEW f PROVE SumFunctionOnSet(f, {}) = 0
  OBVIOUS
<1>1. IsFiniteSet({})
  BY FS_EmptySet
<1>2. PICK g : Sums(g, f, {}) /\ SumFunctionOnSet(f, {}) = g[{}]
  BY <1>1, SumIs
<1> QED
  BY <1>2 DEF Sums

LEMMA SumIsInt ==
    ASSUME NEW S, IsFiniteSet(S), NEW f, \A x \in S : f[x] \in Int
    PROVE  SumFunctionOnSet(f, S) \in Int
<1>1. PICK g : Sums(g, f, S) /\ SumFunctionOnSet(f, S) = g[S]
  BY SumIs
<1> QED
  BY <1>1 DEF Sums

(* The sum without one element.                                            *)
LEMMA SumWithout ==
    ASSUME NEW S, IsFiniteSet(S), NEW f, \A x \in S : f[x] \in Int, NEW a \in S
    PROVE  SumFunctionOnSet(f, S) = f[a] + SumFunctionOnSet(f, S \ {a})
<1>1. PICK g : Sums(g, f, S) /\ SumFunctionOnSet(f, S) = g[S]
  BY SumIs
<1>2. IsFiniteSet(S \ {a})
  BY FS_RemoveElement
<1>3. PICK h : Sums(h, f, S \ {a}) /\ SumFunctionOnSet(f, S \ {a}) = h[S \ {a}]
  BY <1>2, SumIs
<1>4. h[S \ {a}] = g[S \ {a}]
  BY <1>1, <1>2, <1>3, SumsAgree
<1>5. g[S] = f[a] + g[S \ {a}]
  BY <1>1, SumsTake
<1> QED
  BY <1>1, <1>3, <1>4, <1>5

(* Functions that agree on S have the same sum over S.                     *)
LEMMA SumOfSame ==
    ASSUME NEW S, IsFiniteSet(S), NEW f, \A x \in S : f[x] \in Int,
           NEW k, \A x \in S : k[x] = f[x]
    PROVE  SumFunctionOnSet(k, S) = SumFunctionOnSet(f, S)
<1>1. PICK g : Sums(g, f, S) /\ SumFunctionOnSet(f, S) = g[S]
  BY SumIs
<1>2. PICK h : Sums(h, k, S) /\ SumFunctionOnSet(k, S) = h[S]
  BY SumIs
<1> QED
  BY <1>1, <1>2, SumsAgree

(* Under the names p gives to the elements of S, f over T is k over S.     *)
Renames(p, S, T, f, k) ==
    /\ IsFiniteSet(S) /\ IsFiniteSet(T)
    /\ p \in [S -> T] /\ \A x, y \in S : p[x] = p[y] => x = y
    /\ \A x \in T : f[x] \in Int
    /\ \A x \in S : k[x] = f[p[x]]

(* The sum does not depend on the names of the elements.                   *)
LEMMA SumRenamed ==
    ASSUME NEW S, NEW T, NEW f, NEW k, NEW p, Renames(p, S, T, f, k)
    PROVE  SumFunctionOnSet(k, S) = SumFunctionOnSet(f, {p[x] : x \in S})
<1> DEFINE Img(s) == {p[x] : x \in s}
           Bad == {s \in SUBSET S : SumFunctionOnSet(k, s) # SumFunctionOnSet(f, Img(s))}
<1>0. /\ IsFiniteSet(S) /\ IsFiniteSet(T)
      /\ p \in [S -> T] /\ \A x, y \in S : p[x] = p[y] => x = y
      /\ \A x \in T : f[x] \in Int
      /\ \A x \in S : k[x] = f[p[x]]
  BY DEF Renames
<1>1. \A s \in SUBSET S : IsFiniteSet(s) /\ IsFiniteSet(Img(s)) /\ Img(s) \in SUBSET T
  <2> SUFFICES ASSUME NEW s \in SUBSET S
               PROVE  IsFiniteSet(s) /\ IsFiniteSet(Img(s)) /\ Img(s) \in SUBSET T
    OBVIOUS
  <2>1. Img(s) \in SUBSET T
    BY <1>0
  <2> QED
    BY <1>0, <2>1, FS_Subset
<1> SUFFICES ASSUME Bad # {} PROVE FALSE
  OBVIOUS
<1>2. PICK s \in Bad : \A y \in Bad : ~(y \subseteq s /\ y # s)
  <2>1. Bad \in SUBSET SUBSET S
    OBVIOUS
  <2> HIDE DEF Bad
  <2> QED
    BY <1>0, <2>1, LeastSubset
<1>3. s # {}
  <2>1. SumFunctionOnSet(k, {}) = 0 /\ SumFunctionOnSet(f, {}) = 0 /\ Img({}) = {}
    BY SumOfNone
  <2> QED
    BY <1>2, <2>1
<1>4. PICK a \in s : TRUE
  BY <1>3
<1> DEFINE r == s \ {a}
<1>5. s \in SUBSET S /\ r \in SUBSET S /\ r \subseteq s /\ r # s /\ a \in S
  BY <1>2, <1>4
<1>6. SumFunctionOnSet(k, r) = SumFunctionOnSet(f, Img(r))
  BY <1>2, <1>5
<1>7. Img(r) = Img(s) \ {p[a]} /\ p[a] \in Img(s)
  BY <1>0, <1>4, <1>5
<1>8. SumFunctionOnSet(k, s) = k[a] + SumFunctionOnSet(k, r)
  <2>1. \A x \in s : k[x] \in Int
    BY <1>0, <1>5
  <2> QED
    BY <1>1, <1>4, <1>5, <2>1, SumWithout
<1>9. SumFunctionOnSet(f, Img(s)) = f[p[a]] + SumFunctionOnSet(f, Img(s) \ {p[a]})
  <2>1. IsFiniteSet(Img(s)) /\ \A x \in Img(s) : f[x] \in Int
    BY <1>0, <1>1, <1>5
  <2> HIDE DEF Img
  <2> QED
    BY <1>7, <2>1, SumWithout
<1>10. k[a] = f[p[a]]
  BY <1>0, <1>5
<1> QED
  BY <1>2, <1>6, <1>7, <1>8, <1>9, <1>10

(* The same laws for the sum of all values of a function: one value        *)
(* changes, one more comes, or one position of a sequence is taken out.    *)
LEMMA SumChanged ==
    ASSUME NEW S, IsFiniteSet(S), NEW f \in [S -> Int], NEW k \in [S -> Int],
           NEW a \in S, \A x \in S \ {a} : k[x] = f[x]
    PROVE  /\ SumFunction(f) \in Int
           /\ SumFunction(k) = SumFunction(f) - f[a] + k[a]
<1>1. /\ SumFunctionOnSet(f, S) = f[a] + SumFunctionOnSet(f, S \ {a})
      /\ SumFunctionOnSet(k, S) = k[a] + SumFunctionOnSet(k, S \ {a})
  BY SumWithout
<1>2. IsFiniteSet(S \ {a}) /\ \A x \in S \ {a} : f[x] \in Int
  BY FS_RemoveElement
<1>3. SumFunctionOnSet(k, S \ {a}) = SumFunctionOnSet(f, S \ {a})
  BY <1>2, SumOfSame
<1>4. SumFunctionOnSet(f, S \ {a}) \in Int
  BY <1>2, SumIsInt
<1>5. f[a] \in Int /\ k[a] \in Int /\ DOMAIN f = S /\ DOMAIN k = S
  OBVIOUS
<1> QED
  BY <1>1, <1>3, <1>4, <1>5 DEF SumFunction

(* A function with one argument more, and a sequence with one entry less.  *)
LEMMA SumGrown ==
    ASSUME NEW S, IsFiniteSet(S), NEW f \in [S -> Int], NEW a, a \notin S,
           NEW k \in [S \cup {a} -> Int], \A x \in S : k[x] = f[x]
    PROVE  /\ SumFunction(f) \in Int
           /\ SumFunction(k) = SumFunction(f) + k[a]
<1>1. IsFiniteSet(S \cup {a})
  BY FS_AddElement
<1>2. SumFunctionOnSet(k, S \cup {a}) = k[a] + SumFunctionOnSet(k, (S \cup {a}) \ {a})
  BY <1>1, SumWithout
<1>3. (S \cup {a}) \ {a} = S
  OBVIOUS
<1>4. \A x \in S : f[x] \in Int
  OBVIOUS
<1>5. SumFunctionOnSet(k, S) = SumFunctionOnSet(f, S)
  BY <1>4, SumOfSame
<1>6. SumFunctionOnSet(f, S) \in Int
  BY <1>4, SumIsInt
<1>7. /\ SumFunction(f) = SumFunctionOnSet(f, S)
      /\ SumFunction(k) = SumFunctionOnSet(k, S \cup {a})
  BY DEF SumFunction
<1>8. k[a] \in Int
  OBVIOUS
<1>9. SumFunctionOnSet(k, (S \cup {a}) \ {a}) = SumFunctionOnSet(k, S)
  BY <1>3, Zenon
<1> QED
  BY <1>2, <1>5, <1>6, <1>7, <1>8, <1>9

LEMMA SumRemoved ==
    ASSUME NEW n \in Nat, NEW k \in 1 .. n, NEW f \in [1 .. n -> Int],
           NEW h \in [1 .. n - 1 -> Int],
           \A i \in 1 .. n - 1 : h[i] = IF i < k THEN f[i] ELSE f[i + 1]
    PROVE  /\ SumFunction(h) \in Int
           /\ SumFunction(f) = SumFunction(h) + f[k]
<1> DEFINE p == [i \in 1 .. n - 1 |-> IF i < k THEN i ELSE i + 1]
<1>1. IsFiniteSet(1 .. n) /\ IsFiniteSet(1 .. n - 1)
  BY FS_Interval
<1>2. p \in [1 .. n - 1 -> 1 .. n]
  OBVIOUS
<1>3. \A i, j \in 1 .. n - 1 : p[i] = p[j] => i = j
  OBVIOUS
<1>4. {p[i] : i \in 1 .. n - 1} = (1 .. n) \ {k}
  <2>1. ASSUME NEW x \in (1 .. n) \ {k} PROVE \E i \in 1 .. n - 1 : p[i] = x
    <3>1. CASE x < k
      <4>1. x \in 1 .. n - 1 /\ p[x] = x
        BY <3>1
      <4> QED
        BY <4>1
    <3>2. CASE ~(x < k)
      <4>1. x - 1 \in 1 .. n - 1 /\ ~(x - 1 < k) /\ (x - 1) + 1 = x
        BY <3>2
      <4>2. p[x - 1] = x
        BY <4>1
      <4> QED
        BY <4>1, <4>2
    <3> QED
      BY <3>1, <3>2
  <2>2. \A i \in 1 .. n - 1 : p[i] \in (1 .. n) \ {k}
    OBVIOUS
  <2> DEFINE A == 1 .. n - 1
             B == (1 .. n) \ {k}
  <2>3. (\A x \in B : \E i \in A : p[i] = x) /\ \A i \in A : p[i] \in B
    BY <2>1, <2>2
  <2> HIDE DEF p, A, B
  <2>4. {p[i] : i \in A} = B
    BY <2>3
  <2> QED
    BY <2>4 DEF A, B
<1>5. \A i \in 1 .. n - 1 : h[i] = f[p[i]]
  OBVIOUS
<1>6. \A i \in 1 .. n : f[i] \in Int
  OBVIOUS
<1> HIDE DEF p
<1>7. SumFunctionOnSet(h, 1 .. n - 1) = SumFunctionOnSet(f, {p[i] : i \in 1 .. n - 1})
  <2>1. Renames(p, 1 .. n - 1, 1 .. n, f, h)
    BY <1>1, <1>2, <1>3, <1>5, <1>6 DEF Renames
  <2> QED
    BY <2>1, SumRenamed
<1>8. SumFunctionOnSet(f, 1 .. n) = f[k] + SumFunctionOnSet(f, (1 .. n) \ {k})
  BY <1>1, <1>6, SumWithout
<1>9. SumFunctionOnSet(h, 1 .. n - 1) \in Int
  BY <1>1, SumIsInt
<1>10. /\ SumFunction(f) = SumFunctionOnSet(f, 1 .. n)
       /\ SumFunction(h) = SumFunctionOnSet(h, 1 .. n - 1)
  BY DEF SumFunction
<1>11. f[k] \in Int
  OBVIOUS
<1>12. SumFunctionOnSet(h, 1 .. n - 1) = SumFunctionOnSet(f, (1 .. n) \ {k})
  BY <1>4, <1>7, Zenon
<1> QED
  BY <1>8, <1>9, <1>10, <1>11, <1>12
=============================================================================
