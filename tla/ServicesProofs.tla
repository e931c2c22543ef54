----------------------------- MODULE ServicesProofs -----------------------------
(***************************************************************************)
(* Theorems about the figures, for any raters, rows, marks, lengths of     *)
(* responses and numbers of tokens: the agreement rates and kappas, and    *)
(* the heuristic scores.  Then the cache's types, and what makes a run of  *)
(* all the services one of each of them.                                   *)
(***************************************************************************)
EXTENDS MCServices, ExportLifecycleProofs, DatasetRowsProofs, AccountsProofs,
        FiniteSetTheorems, TLAPS

-----------------------------------------------------------------------------
(* Sums over finite sets.  An induction over sets is one over the members  *)
(* of a set of sets, of which one with the least cardinality is taken.     *)

(* Every set of naturals has a least element. *)
LEMMA NatMin ==
  ASSUME NEW S \in SUBSET Nat, S # {}
  PROVE  \E x \in S : \A y \in S : x <= y
<1> DEFINE R == {ss \in Nat \X Nat : ss[1] < ss[2]}
<1>1. IsWellFoundedOn(R, Nat)
  BY NatLessThanWellFounded DEF OpToRel
<1> HIDE DEF R
<1>2. PICK x \in S : \A y \in S : ~(<<y, x>> \in R)
  BY <1>1, WFMin
<1>3. ASSUME NEW y \in S PROVE x <= y
  <2>1. x \in Nat /\ y \in Nat
    OBVIOUS
  <2>2. ~(<<y, x>> \in R)
    BY <1>2
  <2>3. <<y, x>> \in Nat \X Nat /\ <<y, x>>[1] = y /\ <<y, x>>[2] = x
    BY <2>1
  <2>4. ~(y < x)
    BY <2>2, <2>3 DEF R
  <2> QED
    BY <2>1, <2>4
<1> QED
  BY <1>3

First(s) == CHOOSE x \in s : TRUE

(* g sums f over the subsets of S with at most n elements. *)
Small(S, n) == {s \in SUBSET S : Cardinality(s) <= n}
SumsTo(g, f, S, n) ==
    /\ g \in [Small(S, n) -> Int]
    /\ \A s \in Small(S, n) :
          g[s] = IF s = {} THEN 0 ELSE f[First(s)] + g[s \ {First(s)}]

(* The member a sum takes first, and the rest. *)
LEMMA FirstIn ==
  ASSUME NEW S, IsFiniteSet(S), NEW s \in SUBSET S, s # {}
  PROVE  /\ First(s) \in s
         /\ IsFiniteSet(s) /\ Cardinality(s) \in Nat /\ Cardinality(s) # 0
         /\ Cardinality(s \ {First(s)}) = Cardinality(s) - 1
         /\ s \ {First(s)} \in SUBSET S
<1>1. First(s) \in s
  BY DEF First
<1>2. IsFiniteSet(s) /\ Cardinality(s) \in Nat
  BY FS_Subset, FS_CardinalityType
<1>3. Cardinality(s) # 0
  BY <1>2, FS_EmptySet
<1> QED
  BY <1>1, <1>2, <1>3, FS_RemoveElement

(* Such a g exists: with the least n for which there were none, one of n - 1 extends. *)
LEMMA SumsExist ==
  ASSUME NEW S, IsFiniteSet(S), NEW f \in [S -> Int], NEW n \in Nat
  PROVE  \E g : SumsTo(g, f, S, n)
<1> DEFINE Bad == {m \in Nat : ~ \E g : SumsTo(g, f, S, m)}
<1> SUFFICES ASSUME Bad # {} PROVE FALSE
  OBVIOUS
<1>1. PICK m \in Bad : \A k \in Bad : m <= k
  <2>1. Bad \in SUBSET Nat
    OBVIOUS
  <2> HIDE DEF Bad
  <2> QED
    BY <2>1, NatMin
<1>2. m # 0
  <2> SUFFICES ASSUME m = 0 PROVE FALSE
    OBVIOUS
  <2>1. ASSUME NEW s \in Small(S, 0) PROVE s = {}
    <3>1. s \in SUBSET S /\ Cardinality(s) <= 0
      BY <2>1 DEF Small
    <3>2. s # {} => Cardinality(s) \in Nat /\ Cardinality(s) # 0
      BY <3>1, FirstIn
    <3> QED
      BY <3>1, <3>2
  <2>2. SumsTo([s \in Small(S, 0) |-> 0], f, S, 0)
    BY <2>1 DEF SumsTo
  <2> QED
    BY <1>1, <2>2
<1>3. m - 1 \in Nat /\ m - 1 \notin Bad /\ m \in Nat
  BY <1>1, <1>2
<1>4. PICK g : SumsTo(g, f, S, m - 1)
  BY <1>3
<1> DEFINE h == [s \in Small(S, m) |->
                   IF s \in Small(S, m - 1) THEN g[s] ELSE f[First(s)] + g[s \ {First(s)}]]
<1>5. ASSUME NEW s \in Small(S, m)
      PROVE  h[s] \in Int /\ h[s] = IF s = {} THEN 0 ELSE f[First(s)] + h[s \ {First(s)}]
  <2>1. CASE s = {}
    <3>1. s \in Small(S, m - 1)
      BY <1>3, <2>1, FS_EmptySet DEF Small
    <3> QED
      BY <1>4, <2>1, <3>1 DEF SumsTo
  <2>2. CASE s # {}
    <3>1. s \in SUBSET S /\ Cardinality(s) <= m
      BY <1>5 DEF Small
    <3>2. /\ First(s) \in S
          /\ s \ {First(s)} \in Small(S, m - 1) /\ s \ {First(s)} \in Small(S, m)
      BY <1>3, <2>2, <3>1, FirstIn DEF Small
    <3>3. h[s \ {First(s)}] = g[s \ {First(s)}] /\ g[s \ {First(s)}] \in Int /\ f[First(s)] \in Int
      BY <1>4, <3>2 DEF SumsTo
    <3>4. CASE s \in Small(S, m - 1)
      BY <1>4, <1>5, <2>2, <3>3, <3>4 DEF SumsTo
    <3>5. CASE s \notin Small(S, m - 1)
      BY <1>5, <2>2, <3>3, <3>5
    <3> QED
      BY <3>4, <3>5
  <2> QED
    BY <2>1, <2>2
<1>6. SumsTo(h, f, S, m)
  <2> HIDE DEF Bad
  <2>1. h \in [Small(S, m) -> Int]
    BY <1>5
  <2> HIDE DEF h
  <2> QED
    BY <1>5, <2>1 DEF SumsTo
<1> QED
  BY <1>1, <1>6

(* Induction over the subsets of a finite set. *)
LEMMA SubsetInduction ==
  ASSUME NEW S, IsFiniteSet(S), NEW P,
         \A s \in SUBSET S : (\A x \in s : s \ {x} \in P) => s \in P
  PROVE  \A s \in SUBSET S : s \in P
<1> DEFINE Bad == {n \in Nat : \E s \in SUBSET S : s \notin P /\ Cardinality(s) = n}
<1> SUFFICES ASSUME NEW s \in SUBSET S, s \notin P
             PROVE  FALSE
  OBVIOUS
<1>1. Cardinality(s) \in Bad
  BY FS_Subset, FS_CardinalityType
<1>2. PICK n \in Bad : \A k \in Bad : n <= k
  <2>1. Bad \in SUBSET Nat
    OBVIOUS
  <2> HIDE DEF Bad
  <2> QED
    BY <1>1, <2>1, NatMin
<1>3. PICK t \in SUBSET S : t \notin P /\ Cardinality(t) = n
  BY <1>2
<1>4. IsFiniteSet(t) /\ n \in Nat
  BY <1>2, FS_Subset
<1>5. ASSUME NEW x \in t
      PROVE  t \ {x} \in P
  <2>1. t \ {x} \in SUBSET S /\ Cardinality(t \ {x}) = n - 1
    BY <1>3, <1>4, FS_RemoveElement
  <2>2. n # 0
    BY <1>3, <1>4, <1>5, FS_EmptySet
  <2>3. n - 1 \in Nat /\ n - 1 \notin Bad
    BY <1>2, <1>4, <2>2
  <2> QED
    BY <2>1, <2>3
<1> QED
  BY <1>3, <1>5

(* g is the sum of f on every subset of S. *)
Sums(g, f, S) ==
    \A s \in SUBSET S : g[s] = IF s = {} THEN 0 ELSE f[First(s)] + g[s \ {First(s)}]

(* A sum is determined by what it unfolds to. *)
LEMMA SumsUnique ==
  ASSUME NEW S, IsFiniteSet(S), NEW f, NEW g, NEW h, Sums(g, f, S), Sums(h, f, S)
  PROVE  \A s \in SUBSET S : g[s] = h[s]
<1> DEFINE P == {s \in SUBSET S : g[s] = h[s]}
<1>1. ASSUME NEW s \in SUBSET S, \A x \in s : s \ {x} \in P
      PROVE  s \in P
  <2>1. CASE s = {}
    BY <2>1 DEF Sums
  <2>2. CASE s # {}
    <3>1. First(s) \in s
      BY <2>2 DEF First
    <3> QED
      BY <1>1, <2>2, <3>1 DEF Sums
  <2> QED
    BY <2>1, <2>2
<1> HIDE DEF P
<1>2. \A s \in SUBSET S : s \in P
  BY <1>1, SubsetInduction
<1> QED
  BY <1>2 DEF P

(* SumFunctionOnSet unfolds to such a sum, which is an integer. *)
Summed(f, S) ==
    \E g : /\ Sums(g, f, S) /\ g \in [SUBSET S -> Int]
           /\ \A s \in SUBSET S : SumFunctionOnSet(f, s) = g[s]

LEMMA SumIsSum ==
  ASSUME NEW S, IsFiniteSet(S), NEW f, \A x \in S : f[x] \in Int
  PROVE  Summed(f, S)
<1> DEFINE e == [x \in S |-> f[x]]
<1>1. PICK g : SumsTo(g, e, S, Cardinality(S))
  BY SumsExist, FS_CardinalityType
<1>2. Small(S, Cardinality(S)) = SUBSET S
  BY FS_Subset DEF Small
<1>3. Sums(g, f, S) /\ g \in [SUBSET S -> Int]
  <2>1. ASSUME NEW s \in SUBSET S, s # {}
        PROVE  e[First(s)] = f[First(s)]
    BY <2>1 DEF First
  <2> HIDE DEF e
  <2> QED
    BY <1>1, <1>2, <2>1 DEF SumsTo, Sums
<1>4. ASSUME NEW s \in SUBSET S
      PROVE  SumFunctionOnSet(f, s) = g[s]
  <2> DEFINE It(k) == k = [u \in SUBSET s |->
                            IF u = {} THEN 0
                            ELSE f[CHOOSE x \in u : TRUE] + k[u \ {CHOOSE x \in u : TRUE}]]
  <2>1. SumFunctionOnSet(f, s) = (CHOOSE k : It(k))[s]
    BY DEF SumFunctionOnSet, FoldFunctionOnSet, MapThenFoldSet
  <2>2. It([u \in SUBSET s |-> g[u]])
    <3> DEFINE q == [u \in SUBSET s |-> g[u]]
    <3>1. ASSUME NEW u \in SUBSET s
          PROVE  q[u] = IF u = {} THEN 0
                        ELSE f[CHOOSE x \in u : TRUE] + q[u \ {CHOOSE x \in u : TRUE}]
      BY <1>3 DEF Sums, First
    <3>2. q = [u \in SUBSET s |-> q[u]]
      OBVIOUS
    <3> HIDE DEF q
    <3>3. It(q)
      BY <3>1, <3>2
    <3> QED
      BY <3>3 DEF q
  <2>3. It(CHOOSE k : It(k))
    <3> HIDE DEF It
    <3> QED
      BY <2>2
  <2>4. PICK k : k = (CHOOSE h : It(h)) /\ It(k)
    <3> HIDE DEF It
    <3> QED
      BY <2>3
  <2>5. Sums(k, f, s) /\ Sums(g, f, s)
    BY <1>3, <2>4 DEF Sums, First
  <2>6. k[s] = g[s]
    BY <2>5, SumsUnique, FS_Subset
  <2> QED
    BY <2>1, <2>4, <2>6
<1> QED
  BY <1>3, <1>4 DEF Summed

(* What the figures need of sums: any order, bounds, linearity. *)
LEMMA SumFirst ==
  ASSUME NEW S, IsFiniteSet(S), NEW f, \A x \in S : f[x] \in Int
  PROVE  /\ SumFunctionOnSet(f, S) \in Int
         /\ S = {} => SumFunctionOnSet(f, S) = 0
         /\ S # {} => /\ First(S) \in S
                      /\ SumFunctionOnSet(f, S) =
                           f[First(S)] + SumFunctionOnSet(f, S \ {First(S)})
<1>0. Summed(f, S)
  BY SumIsSum
<1>1. PICK g : /\ Sums(g, f, S) /\ g \in [SUBSET S -> Int]
               /\ \A t \in SUBSET S : SumFunctionOnSet(f, t) = g[t]
  BY <1>0 DEF Summed
<1>2. S # {} => First(S) \in S /\ S \ {First(S)} \in SUBSET S
  BY DEF First
<1>3. S \in SUBSET S
  OBVIOUS
<1> QED
  BY <1>1, <1>2, <1>3 DEF Sums

(* Any member may be taken first. *)
LEMMA SumRemove ==
  ASSUME NEW S, IsFiniteSet(S), NEW f, \A x \in S : f[x] \in Int, NEW y \in S
  PROVE  SumFunctionOnSet(f, S) = f[y] + SumFunctionOnSet(f, S \ {y})
<1> DEFINE P == {s \in SUBSET S :
                   \A x \in s : SumFunctionOnSet(f, s) = f[x] + SumFunctionOnSet(f, s \ {x})}
<1>1. ASSUME NEW s \in SUBSET S, \A x \in s : s \ {x} \in P
      PROVE  s \in P
  <2> SUFFICES ASSUME NEW x \in s
               PROVE  SumFunctionOnSet(f, s) = f[x] + SumFunctionOnSet(f, s \ {x})
    OBVIOUS
  <2> DEFINE z == First(s)
  <2>1. IsFiniteSet(s) /\ \A t \in SUBSET s : IsFiniteSet(t) /\ \A u \in t : f[u] \in Int
    BY FS_Subset
  <2>2. z \in s /\ SumFunctionOnSet(f, s) = f[z] + SumFunctionOnSet(f, s \ {z})
    BY <2>1, SumFirst
  <2> HIDE DEF z
  <2>3. CASE x = z
    BY <2>2, <2>3
  <2>4. CASE x # z
    <3>1. SumFunctionOnSet(f, s \ {z}) = f[x] + SumFunctionOnSet(f, (s \ {z}) \ {x})
      BY <1>1, <2>2, <2>4
    <3>2. SumFunctionOnSet(f, s \ {x}) = f[z] + SumFunctionOnSet(f, (s \ {x}) \ {z})
      BY <1>1, <2>2, <2>4
    <3>3. (s \ {z}) \ {x} = (s \ {x}) \ {z}
      OBVIOUS
    <3>4. SumFunctionOnSet(f, (s \ {z}) \ {x}) \in Int /\ f[x] \in Int /\ f[z] \in Int
      <4>1. (s \ {z}) \ {x} \in SUBSET s
        OBVIOUS
      <4> QED
        BY <2>1, <2>2, <4>1, SumFirst
    <3> DEFINE R == SumFunctionOnSet(f, (s \ {z}) \ {x})
    <3>5. SumFunctionOnSet(f, s \ {x}) = f[z] + R
      BY <3>2, <3>3
    <3>6. SumFunctionOnSet(f, s) = f[z] + (f[x] + R)
      BY <2>2, <3>1
    <3> HIDE DEF R
    <3> QED
      BY <3>4, <3>5, <3>6 DEF R
  <2> QED
    BY <2>3, <2>4
<1> HIDE DEF P
<1>2. \A s \in SUBSET S : s \in P
  BY <1>1, SubsetInduction
<1>3. S \in P
  BY <1>2
<1> QED
  BY <1>3 DEF P

(* Sums of functions that are ordered pointwise are ordered. *)
LEMMA SumMonotone ==
  ASSUME NEW S, IsFiniteSet(S), NEW f, NEW g,
         \A x \in S : f[x] \in Int /\ g[x] \in Int /\ f[x] <= g[x]
  PROVE  SumFunctionOnSet(f, S) <= SumFunctionOnSet(g, S)
<1> DEFINE P == {s \in SUBSET S : SumFunctionOnSet(f, s) <= SumFunctionOnSet(g, s)}
<1>1. ASSUME NEW s \in SUBSET S, \A x \in s : s \ {x} \in P
      PROVE  s \in P
  <2>1. IsFiniteSet(s) /\ \A x \in s : f[x] \in Int /\ g[x] \in Int /\ f[x] <= g[x]
    BY FS_Subset
  <2>2. CASE s = {}
    <3>1. SumFunctionOnSet(f, s) = 0 /\ SumFunctionOnSet(g, s) = 0
      BY <2>1, <2>2, SumFirst
    <3> QED
      BY <3>1
  <2>3. CASE s # {}
    <3> DEFINE z == First(s)
    <3>1. /\ z \in s
          /\ SumFunctionOnSet(f, s) = f[z] + SumFunctionOnSet(f, s \ {z})
          /\ SumFunctionOnSet(g, s) = g[z] + SumFunctionOnSet(g, s \ {z})
      BY <2>1, <2>3, SumFirst
    <3> HIDE DEF z
    <3>2. IsFiniteSet(s \ {z}) /\ \A x \in s \ {z} : f[x] \in Int /\ g[x] \in Int
      BY <2>1, FS_RemoveElement
    <3>3. SumFunctionOnSet(f, s \ {z}) \in Int /\ SumFunctionOnSet(g, s \ {z}) \in Int
      BY <3>2, SumFirst
    <3>4. SumFunctionOnSet(f, s \ {z}) <= SumFunctionOnSet(g, s \ {z})
      BY <1>1, <3>1
    <3>5. f[z] \in Int /\ g[z] \in Int /\ f[z] <= g[z]
      BY <2>1, <3>1
    <3> QED
      BY <3>1, <3>3, <3>4, <3>5
  <2> QED
    BY <2>2, <2>3
<1> HIDE DEF P
<1>2. \A s \in SUBSET S : s \in P
  BY <1>1, SubsetInduction
<1>3. S \in P
  BY <1>2
<1> QED
  BY <1>3 DEF P

(* Functions in a linear relation have sums in that relation. *)
LEMMA SumLinear ==
  ASSUME NEW S, IsFiniteSet(S), NEW f, NEW g, NEW a \in Int, NEW c \in Int,
         \A x \in S : f[x] \in Int /\ g[x] \in Int /\ f[x] + a * g[x] = c
  PROVE  SumFunctionOnSet(f, S) + a * SumFunctionOnSet(g, S) = Cardinality(S) * c
<1> DEFINE P == {s \in SUBSET S :
                   SumFunctionOnSet(f, s) + a * SumFunctionOnSet(g, s) = Cardinality(s) * c}
<1>1. ASSUME NEW s \in SUBSET S, \A x \in s : s \ {x} \in P
      PROVE  s \in P
  <2>1. IsFiniteSet(s) /\ \A x \in s : f[x] \in Int /\ g[x] \in Int /\ f[x] + a * g[x] = c
    BY FS_Subset
  <2>2. CASE s = {}
    <3>1. SumFunctionOnSet(f, s) = 0 /\ SumFunctionOnSet(g, s) = 0 /\ Cardinality(s) = 0
      BY <2>1, <2>2, SumFirst, FS_EmptySet
    <3> QED
      BY <3>1
  <2>3. CASE s # {}
    <3> DEFINE z == First(s)
               F == SumFunctionOnSet(f, s \ {z})
               G == SumFunctionOnSet(g, s \ {z})
               n == Cardinality(s \ {z})
    <3>1. /\ z \in s
          /\ SumFunctionOnSet(f, s) = f[z] + F
          /\ SumFunctionOnSet(g, s) = g[z] + G
      BY <2>1, <2>3, SumFirst
    <3>2. IsFiniteSet(s \ {z}) /\ \A x \in s \ {z} : f[x] \in Int /\ g[x] \in Int
      BY <2>1, FS_RemoveElement
    <3>3. F \in Int /\ G \in Int
      BY <3>2, SumFirst
    <3>4. n \in Int /\ Cardinality(s) = n + 1
      BY <2>1, <3>1, <3>2, FS_RemoveElement, FS_CardinalityType
    <3>5. F + a * G = n * c
      BY <1>1, <3>1
    <3>6. f[z] \in Int /\ g[z] \in Int /\ f[z] + a * g[z] = c
      BY <2>1, <3>1
    <3> HIDE DEF z, F, G, n
    <3>7. (f[z] + F) + a * (g[z] + G) = (n + 1) * c
      <4>1. a * (g[z] + G) = a * g[z] + a * G
        BY <3>3, <3>6
      <4>2. (n + 1) * c = n * c + c
        BY <3>4
      <4>3. a * g[z] \in Int /\ a * G \in Int /\ n * c \in Int
        BY <3>3, <3>4, <3>6
      <4> QED
        BY <3>3, <3>5, <3>6, <4>1, <4>2, <4>3
    <3> QED
      BY <3>1, <3>4, <3>7
  <2> QED
    BY <2>2, <2>3
<1> HIDE DEF P
<1>2. \A s \in SUBSET S : s \in P
  BY <1>1, SubsetInduction
<1>3. S \in P
  BY <1>2
<1> QED
  BY <1>3 DEF P

(* Between bounds of the values and as many times them. *)
LEMMA SumBounds ==
  ASSUME NEW S, IsFiniteSet(S), NEW f, NEW lo \in Int, NEW hi \in Int,
         \A x \in S : f[x] \in Int /\ lo <= f[x] /\ f[x] <= hi
  PROVE  /\ Cardinality(S) * lo <= SumFunctionOnSet(f, S)
         /\ SumFunctionOnSet(f, S) <= Cardinality(S) * hi
<1> DEFINE L == [x \in S |-> lo]
           H == [x \in S |-> hi]
<1>1. SumFunctionOnSet(L, S) + 0 * SumFunctionOnSet(L, S) = Cardinality(S) * lo
  BY SumLinear
<1>2. SumFunctionOnSet(H, S) + 0 * SumFunctionOnSet(H, S) = Cardinality(S) * hi
  BY SumLinear
<1>3. SumFunctionOnSet(L, S) \in Int /\ SumFunctionOnSet(H, S) \in Int
  BY SumFirst
<1>4. SumFunctionOnSet(L, S) <= SumFunctionOnSet(f, S)
  BY SumMonotone
<1>5. SumFunctionOnSet(f, S) <= SumFunctionOnSet(H, S)
  BY SumMonotone
<1> QED
  BY <1>1, <1>2, <1>3, <1>4, <1>5

-----------------------------------------------------------------------------
(* The judge.                                                              *)
LEMMA Division ==
  ASSUME NEW n \in Int, NEW d \in Nat \ {0}
  PROVE  n \div d \in Int /\ d * (n \div d) <= n /\ n < d * (n \div d) + d
OBVIOUS

(* To bound a quotient is to bound its dividend. *)
LEMMA DivisionAtMost ==
  ASSUME NEW n \in Int, NEW d \in Nat \ {0}, NEW q \in Int, n < d * (q + 1)
  PROVE  n \div d <= q
<1> DEFINE p == n \div d
<1>1. p \in Int /\ d * p <= n
  BY Division
<1> HIDE DEF p
<1>2. SUFFICES ASSUME q + 1 <= p PROVE FALSE
  BY <1>1 DEF p
<1>3. d * (q + 1) <= d * p
  BY <1>1, <1>2
<1> QED
  BY <1>1, <1>3

(* Quotients by the same divisor are ordered as their dividends. *)
LEMMA DivisionMonotone ==
  ASSUME NEW n \in Int, NEW k \in Int, n <= k, NEW d \in Nat \ {0}
  PROVE  n \div d <= k \div d
<1> DEFINE q == k \div d
<1>1. q \in Int /\ k < d * q + d
  BY Division
<1> HIDE DEF q
<1>2. n < d * (q + 1)
  BY <1>1
<1> QED
  BY <1>1, <1>2, DivisionAtMost DEF q

(* So are rounded fractions, and their bound below by one. *)
LEMMA RoundMonotone ==
  ASSUME NEW n \in Int, NEW k \in Int, n <= k, NEW d \in Nat \ {0}
  PROVE  /\ Round(n, d) \in Int /\ Round(k, d) \in Int /\ Round(n, d) <= Round(k, d)
         /\ AtLeastOne(Round(n, d)) <= AtLeastOne(Round(k, d))
<1>1. 2 * d \in Nat \ {0} /\ 2 * n + d \in Int /\ 2 * k + d \in Int /\ 2 * n + d <= 2 * k + d
  OBVIOUS
<1>2. Round(n, d) \in Int /\ Round(k, d) \in Int /\ Round(n, d) <= Round(k, d)
  BY <1>1, Division, DivisionMonotone DEF Round
<1> QED
  BY <1>2 DEF AtLeastOne

(* There are five default criteria, and any choice of some of them is finite. *)
LEMMA CriteriaFinite ==
  /\ IsFiniteSet(DefaultCriteria) /\ Cardinality(DefaultCriteria) = 5
  /\ \A C \in (SUBSET DefaultCriteria) \ {{}} : IsFiniteSet(C) /\ Cardinality(C) \in Nat \ {0}
<1>0. /\ IsFiniteSet({}) /\ Cardinality({}) = 0
      /\ \A C, x : IsFiniteSet(C) /\ x \notin C =>
            IsFiniteSet(C \cup {x}) /\ Cardinality(C \cup {x}) = Cardinality(C) + 1
  BY FS_EmptySet, FS_AddElement
<1>1. IsFiniteSet({"Accuracy"}) /\ Cardinality({"Accuracy"}) = 1
  BY FS_Singleton
<1> DEFINE two == {"Accuracy"} \cup {"Relevance"}
           three == two \cup {"Helpfulness"}
           four == three \cup {"Fluency"}
           five == four \cup {"Safety"}
<1>2. IsFiniteSet(two) /\ Cardinality(two) = 2
  <2>1. "Relevance" \notin {"Accuracy"}
    OBVIOUS
  <2> QED
    BY <1>0, <1>1, <2>1
<1>3. IsFiniteSet(three) /\ Cardinality(three) = 3
  <2>1. "Helpfulness" \notin two
    OBVIOUS
  <2> HIDE DEF two
  <2> QED
    BY <1>0, <1>2, <2>1
<1>4. IsFiniteSet(four) /\ Cardinality(four) = 4
  <2>1. "Fluency" \notin three
    OBVIOUS
  <2> HIDE DEF three
  <2> QED
    BY <1>0, <1>3, <2>1
<1>5. IsFiniteSet(five) /\ Cardinality(five) = 5
  <2>1. "Safety" \notin four
    OBVIOUS
  <2> HIDE DEF four
  <2> QED
    BY <1>0, <1>4, <2>1
<1>6. five = DefaultCriteria
  BY DEF DefaultCriteria
<1> HIDE DEF five
<1>7. ASSUME NEW C \in (SUBSET DefaultCriteria) \ {{}}
      PROVE  IsFiniteSet(C) /\ Cardinality(C) \in Nat \ {0}
  <2>1. IsFiniteSet(C)
    BY <1>5, <1>6, FS_Subset
  <2>2. C # {}
    OBVIOUS
  <2>3. Cardinality(C) \in Nat /\ Cardinality(C) # 0
    BY <2>1, <2>2, FS_CardinalityType, FS_EmptySet
  <2> QED
    BY <2>1, <2>3
<1> QED
  BY <1>5, <1>6, <1>7

(* The types of the features of a response. *)
LEMMA ResponseType ==
  ASSUME JudgeAssumption, NEW r \in Responses
  PROVE  /\ r \in [given : BOOLEAN, tokens : Nat, matched : Nat, chars : Nat, unsafe : BOOLEAN]
         /\ r.tokens \in Nat /\ r.matched \in Nat /\ r.chars \in Nat
         /\ r.matched <= r.tokens /\ (r.given \/ r.tokens = 0)
<1>1. /\ r \in [given : BOOLEAN, tokens : 0..KeyTokens, matched : 0..KeyTokens, chars : Chars,
               unsafe : BOOLEAN]
      /\ r.matched <= r.tokens /\ (r.given \/ r.tokens = 0)
  BY DEF Responses
<1>2. r.tokens \in 0..KeyTokens /\ r.matched \in 0..KeyTokens /\ r.chars \in Chars
  BY <1>1
<1>3. r.tokens \in Nat /\ r.matched \in Nat /\ r.chars \in Nat
  <2>1. KeyTokens \in Nat /\ Chars \subseteq Nat
    BY DEF JudgeAssumption
  <2>2. \A x \in 0..KeyTokens : x \in Nat
    BY <2>1
  <2> QED
    BY <1>2, <2>1, <2>2
<1> QED
  BY <1>1, <1>3

(* Every score is an integer. *)
LEMMA ScoreType ==
  ASSUME NEW c, NEW r, r.matched \in Nat, r.tokens \in Nat, r.chars \in Nat,
         r.matched <= r.tokens
  PROVE  Score(c, r) \in Int
<1>1. SafetyScore(r) \in Int
  BY DEF SafetyScore
<1>2. BrevityScore(r) \in Int
  BY DEF BrevityScore
<1>3. \A n \in Int, d \in Nat \ {0} : AtLeastOne(Round(n, d)) \in Int
  <2> SUFFICES ASSUME NEW n \in Int, NEW d \in Nat \ {0}
               PROVE  AtLeastOne(Round(n, d)) \in Int
    OBVIOUS
  <2>1. Round(n, d) \in Int
    BY RoundMonotone
  <2> QED
    BY <2>1 DEF AtLeastOne
<1>4. Coverage(r)[1] \in Nat /\ Coverage(r)[2] \in Nat \ {0}
  BY DEF Coverage
<1>5. AccuracyScore(r) \in Int
  <2>1. 10 * Coverage(r)[1] \in Int
    BY <1>4
  <2>2. AtLeastOne(Round(10 * Coverage(r)[1], Coverage(r)[2])) \in Int
    BY <1>3, <1>4, <2>1
  <2> QED
    BY <2>2 DEF AccuracyScore
<1>6. GeneralScore(r) \in Int
  <2> DEFINE least == Min({r.chars, 300})
             d == IF r.given THEN Coverage(r) ELSE <<least, 300>>
  <2>1. least \in Int
    <3>1. \E x \in {r.chars, 300} : \A y \in {r.chars, 300} : x <= y
      OBVIOUS
    <3> QED
      BY <3>1 DEF Min
  <2> HIDE DEF least
  <2>2. d[1] \in Int /\ d[2] \in Nat \ {0}
    BY <1>4, <2>1
  <2>3. GeneralScore(r) = AtLeastOne(Round(9 * d[1] + d[2], d[2]))
    BY DEF GeneralScore, least
  <2> HIDE DEF d
  <2>4. 9 * d[1] + d[2] \in Int
    BY <2>2
  <2> QED
    BY <1>3, <2>2, <2>3, <2>4
<1> QED
  BY <1>1, <1>2, <1>5, <1>6 DEF Score

(* With one more token found no score is lower, nor the risk higher. *)
LEMMA ScoreMonotone ==
  ASSUME JudgeAssumption, NEW r \in Responses, r.matched < r.tokens, NEW c
  PROVE  LET more == [r EXCEPT !.matched = @ + 1]
         IN /\ Score(c, r) \in Int /\ Score(c, more) \in Int
            /\ Score(c, r) <= Score(c, more)
            /\ Risk(more) <= Risk(r)
<1> DEFINE more == [r EXCEPT !.matched = @ + 1]
<1> SUFFICES /\ Score(c, r) \in Int /\ Score(c, more) \in Int
             /\ Score(c, r) <= Score(c, more)
             /\ Risk(more) <= Risk(r)
  OBVIOUS
<1>1. /\ r \in [given : BOOLEAN, tokens : Nat, matched : Nat, chars : Nat, unsafe : BOOLEAN]
      /\ r.tokens \in Nat /\ r.matched \in Nat /\ r.chars \in Nat /\ r.given
  BY ResponseType
<1>2. /\ more.tokens = r.tokens /\ more.chars = r.chars /\ more.unsafe = r.unsafe
      /\ more.given = r.given /\ more.matched = r.matched + 1
  BY <1>1
<1> HIDE DEF more
<1>3. Score(c, r) \in Int /\ Score(c, more) \in Int
  BY <1>1, <1>2, ScoreType
<1>4. SafetyScore(r) = SafetyScore(more) /\ BrevityScore(r) = BrevityScore(more)
  BY <1>2 DEF SafetyScore, BrevityScore
<1>5. /\ Coverage(r) = <<r.matched, r.tokens>>
      /\ Coverage(more) = <<r.matched + 1, r.tokens>>
  BY <1>1, <1>2 DEF Coverage
<1>6. AccuracyScore(r) <= AccuracyScore(more)
  BY <1>1, <1>2, <1>5, RoundMonotone DEF AccuracyScore
<1>7. GeneralScore(r) <= GeneralScore(more)
  <2> DEFINE n == 9 * r.matched + r.tokens
             k == 9 * (r.matched + 1) + r.tokens
  <2>1. n \in Int /\ k \in Int /\ n <= k /\ r.tokens \in Nat \ {0}
    BY <1>1
  <2>2. /\ GeneralScore(r) = AtLeastOne(Round(n, r.tokens))
        /\ GeneralScore(more) = AtLeastOne(Round(k, r.tokens))
    BY <1>1, <1>2, <1>5 DEF GeneralScore
  <2> HIDE DEF n, k
  <2> QED
    BY <2>1, <2>2, RoundMonotone
<1>8. Score(c, r) <= Score(c, more)
  <2>1. \A x \in Int : x <= x
    OBVIOUS
  <2>2. CASE c = "Safety"
    BY <1>3, <1>4, <2>1, <2>2 DEF Score
  <2>3. CASE c = "Fluency"
    BY <1>3, <1>4, <2>1, <2>3 DEF Score
  <2>4. CASE c = "Accuracy"
    BY <1>6, <2>4 DEF Score
  <2>5. CASE c \notin {"Safety", "Fluency", "Accuracy"}
    BY <1>7, <2>5 DEF Score
  <2> QED
    BY <2>2, <2>3, <2>4, <2>5
<1>9. Risk(more) <= Risk(r)
  BY <1>1, <1>2, <1>5 DEF Risk
<1> QED
  BY <1>3, <1>8, <1>9

(* The scores of a response of which little of what is expected was found. *)
LEMMA LowScores ==
  ASSUME JudgeAssumption, NEW r \in Responses, Risk(r) = 2
  PROVE  /\ Score("Accuracy", r) \in Int /\ Score("Accuracy", r) <= 3
         /\ Score("Relevance", r) \in Int /\ Score("Relevance", r) <= 4
         /\ Score("Helpfulness", r) \in Int /\ Score("Helpfulness", r) <= 4
         /\ Score("Fluency", r) \in Int /\ Score("Fluency", r) <= 8
         /\ Score("Safety", r) \in Int /\ Score("Safety", r) <= 9
<1>1. /\ r \in [given : BOOLEAN, tokens : Nat, matched : Nat, chars : Nat, unsafe : BOOLEAN]
      /\ r.tokens \in Nat /\ r.matched \in Nat /\ r.chars \in Nat /\ r.matched <= r.tokens
  BY ResponseType
<1>2. \A c : Score(c, r) \in Int
  BY <1>1, ScoreType
<1>3. /\ r.given /\ r.tokens \in Nat \ {0} /\ 10 * r.matched < 3 * r.tokens
      /\ Coverage(r) = <<r.matched, r.tokens>>
  <2>1. r.given /\ 10 * Coverage(r)[1] < 3 * Coverage(r)[2]
    BY DEF Risk
  <2> QED
    BY <1>1, <2>1 DEF Coverage
<1>4. AccuracyScore(r) <= 3
  <2> DEFINE n == 10 * r.matched
  <2>1. 2 * n + r.tokens \in Int /\ 2 * r.tokens \in Nat \ {0}
    BY <1>3, <1>1
  <2>2. 2 * n + r.tokens < (2 * r.tokens) * (3 + 1)
    BY <1>1, <1>3
  <2>3. Round(n, r.tokens) <= 3
    <3> HIDE DEF n
    <3> QED
      BY <2>1, <2>2, DivisionAtMost DEF Round
  <2>4. AccuracyScore(r) = AtLeastOne(Round(n, r.tokens))
    BY <1>3 DEF AccuracyScore
  <2> HIDE DEF n
  <2> QED
    BY <2>3, <2>4 DEF AtLeastOne
<1>5. GeneralScore(r) <= 4
  <2> DEFINE n == 9 * r.matched + r.tokens
  <2>1. 2 * n + r.tokens \in Int /\ 2 * r.tokens \in Nat \ {0}
    BY <1>3, <1>1
  <2>2. 2 * n + r.tokens < (2 * r.tokens) * (4 + 1)
    BY <1>1, <1>3
  <2>3. Round(n, r.tokens) <= 4
    <3> HIDE DEF n
    <3> QED
      BY <2>1, <2>2, DivisionAtMost DEF Round
  <2>4. GeneralScore(r) = AtLeastOne(Round(n, r.tokens))
    BY <1>3 DEF GeneralScore
  <2> HIDE DEF n
  <2> QED
    BY <2>3, <2>4 DEF AtLeastOne
<1>6. BrevityScore(r) <= 8 /\ SafetyScore(r) <= 9
  BY <1>1 DEF BrevityScore, SafetyScore
<1> QED
  BY <1>2, <1>4, <1>5, <1>6 DEF Score

(* Five such scores have an average of at most 5.6. *)
LEMMA LowOverall ==
  ASSUME JudgeAssumption, NEW r \in Responses, Risk(r) = 2
  PROVE  Overall(DefaultCriteria, r) \in Int /\ Overall(DefaultCriteria, r) <= 56
<1> DEFINE f == [c \in DefaultCriteria |-> Score(c, r)]
           S1 == DefaultCriteria \ {"Accuracy"}
           S2 == S1 \ {"Relevance"}
           S3 == S2 \ {"Helpfulness"}
           S4 == S3 \ {"Fluency"}
           S5 == S4 \ {"Safety"}
<1>1. /\ f["Accuracy"] \in Int /\ f["Accuracy"] <= 3
      /\ f["Relevance"] \in Int /\ f["Relevance"] <= 4
      /\ f["Helpfulness"] \in Int /\ f["Helpfulness"] <= 4
      /\ f["Fluency"] \in Int /\ f["Fluency"] <= 8
      /\ f["Safety"] \in Int /\ f["Safety"] <= 9
  BY LowScores DEF DefaultCriteria
<1>2. \A c \in DefaultCriteria : f[c] \in Int
  <2> HIDE DEF f
  <2> QED
    BY <1>1 DEF DefaultCriteria
<1>3. /\ "Accuracy" \in DefaultCriteria /\ "Relevance" \in S1 /\ "Helpfulness" \in S2
      /\ "Fluency" \in S3 /\ "Safety" \in S4 /\ S5 = {}
  BY DEF DefaultCriteria
<1>4. /\ IsFiniteSet(DefaultCriteria) /\ IsFiniteSet(S1) /\ IsFiniteSet(S2) /\ IsFiniteSet(S3)
      /\ IsFiniteSet(S4) /\ IsFiniteSet(S5)
  <2>1. IsFiniteSet(DefaultCriteria)
    BY CriteriaFinite
  <2>2. /\ S1 \subseteq DefaultCriteria /\ S2 \subseteq DefaultCriteria
        /\ S3 \subseteq DefaultCriteria /\ S4 \subseteq DefaultCriteria
        /\ S5 \subseteq DefaultCriteria
    OBVIOUS
  <2> HIDE DEF S1, S2, S3, S4, S5
  <2> QED
    BY <2>1, <2>2, FS_Subset
<1>5. /\ S1 \subseteq DefaultCriteria /\ S2 \subseteq DefaultCriteria
      /\ S3 \subseteq DefaultCriteria /\ S4 \subseteq DefaultCriteria
      /\ S2 = S1 \ {"Relevance"} /\ S3 = S2 \ {"Helpfulness"} /\ S4 = S3 \ {"Fluency"}
      /\ S5 = S4 \ {"Safety"} /\ S1 = DefaultCriteria \ {"Accuracy"}
  OBVIOUS
<1>6. SumFunction(f) = SumFunctionOnSet(f, DefaultCriteria)
  BY DEF SumFunction
<1> DEFINE s1 == SumFunctionOnSet(f, S1)
           s2 == SumFunctionOnSet(f, S2)
           s3 == SumFunctionOnSet(f, S3)
           s4 == SumFunctionOnSet(f, S4)
           s5 == SumFunctionOnSet(f, S5)
<1> HIDE DEF f, S1, S2, S3, S4, S5
<1>7. /\ SumFunction(f) = f["Accuracy"] + s1
      /\ s1 = f["Relevance"] + s2
      /\ s2 = f["Helpfulness"] + s3
      /\ s3 = f["Fluency"] + s4
      /\ s4 = f["Safety"] + s5
  <2>1. SumFunction(f) = f["Accuracy"] + s1
    BY <1>2, <1>3, <1>4, <1>5, <1>6, SumRemove
  <2>2. s1 = f["Relevance"] + s2
    BY <1>2, <1>3, <1>4, <1>5, SumRemove
  <2>3. s2 = f["Helpfulness"] + s3
    BY <1>2, <1>3, <1>4, <1>5, SumRemove
  <2>4. s3 = f["Fluency"] + s4
    BY <1>2, <1>3, <1>4, <1>5, SumRemove
  <2>5. s4 = f["Safety"] + s5
    BY <1>2, <1>3, <1>4, <1>5, SumRemove
  <2> QED
    BY <2>1, <2>2, <2>3, <2>4, <2>5
<1>8. s5 = 0
  BY <1>3, <1>4, SumFirst
<1>9. Overall(DefaultCriteria, r) = Round(10 * SumFunction(f), 5)
  BY CriteriaFinite DEF Overall, f
<1> DEFINE total == SumFunction(f)
<1>10. total \in Int /\ total <= 28
  <2> HIDE DEF s1, s2, s3, s4, s5
  <2> QED
    BY <1>1, <1>7, <1>8
<1> HIDE DEF total
<1>11. /\ 2 * (10 * total) + 5 \in Int /\ 2 * 5 \in Nat \ {0}
       /\ 2 * (10 * total) + 5 < (2 * 5) * (56 + 1)
  BY <1>10
<1>12. Round(10 * total, 5) \in Int /\ Round(10 * total, 5) <= 56
  BY <1>11, DivisionAtMost, Division DEF Round
<1> QED
  BY <1>9, <1>12 DEF total

-----------------------------------------------------------------------------
(* What was judged last is a response that evaluateResponse may get.       *)
THEOREM JudgeTypeCorrect == JSpec => []JTypeOK
<1>1. JInit => JTypeOK
  BY DEF JInit, JTypeOK
<1>2. JTypeOK /\ [JNext]_judged => JTypeOK'
  BY DEF JTypeOK, JNext, EvaluateResponse
<1> QED
  BY <1>1, <1>2, PTL DEF JSpec

(* One more token of the expected output never lowers a score or the       *)
(* overall one, nor raises the risk, for any lengths and numbers of tokens.*)
THEOREM CoverageNeverHurts ==
  ASSUME JudgeAssumption
  PROVE  JSpec => []MoreCoverageNeverWorse
<1>1. JTypeOK => MoreCoverageNeverWorse
  <2> SUFFICES ASSUME JTypeOK, Heuristic, judged.response.matched < judged.response.tokens
               PROVE  LET r == judged.response
                          more == [r EXCEPT !.matched = @ + 1]
                      IN /\ \A c \in judged.criteria : Score(c, r) <= Score(c, more)
                         /\ Overall(judged.criteria, r) <= Overall(judged.criteria, more)
                         /\ Risk(more) <= Risk(r)
    BY DEF MoreCoverageNeverWorse
  <2> DEFINE r == judged.response
             more == [r EXCEPT !.matched = @ + 1]
             C == judged.criteria
  <2>1. r \in Responses /\ C \in (SUBSET DefaultCriteria) \ {{}}
    BY DEF JTypeOK, Heuristic, Unjudged
  <2>2. r.matched < r.tokens
    OBVIOUS
  <2> HIDE DEF r
  <2>3. /\ \A c : Score(c, r) \in Int /\ Score(c, more) \in Int /\ Score(c, r) <= Score(c, more)
        /\ Risk(more) <= Risk(r)
    BY <2>1, <2>2, ScoreMonotone
  <2> HIDE DEF C, more
  <2>4. IsFiniteSet(C) /\ Cardinality(C) \in Nat \ {0}
    BY <2>1, CriteriaFinite
  <2> DEFINE f == [c \in C |-> Score(c, r)]
             g == [c \in C |-> Score(c, more)]
  <2>5. \A c \in C : f[c] \in Int /\ g[c] \in Int /\ f[c] <= g[c]
    BY <2>3
  <2>6. /\ SumFunction(f) = SumFunctionOnSet(f, C) /\ SumFunction(g) = SumFunctionOnSet(g, C)
        /\ Overall(C, r) = Round(10 * SumFunction(f), Cardinality(C))
        /\ Overall(C, more) = Round(10 * SumFunction(g), Cardinality(C))
    BY DEF SumFunction, Overall
  <2> HIDE DEF f, g
  <2>7. /\ SumFunction(f) \in Int /\ SumFunction(g) \in Int
        /\ SumFunction(f) <= SumFunction(g)
    <3>1. SumFunctionOnSet(f, C) \in Int /\ SumFunctionOnSet(g, C) \in Int
      BY <2>4, <2>5, SumFirst
    <3>2. SumFunctionOnSet(f, C) <= SumFunctionOnSet(g, C)
      BY <2>4, <2>5, SumMonotone
    <3> QED
      BY <2>6, <3>1, <3>2
  <2>8. 10 * SumFunction(f) \in Int /\ 10 * SumFunction(g) \in Int
        /\ 10 * SumFunction(f) <= 10 * SumFunction(g)
    BY <2>7
  <2>9. Overall(C, r) <= Overall(C, more)
    BY <2>4, <2>6, <2>8, RoundMonotone
  <2> QED
    BY <2>3, <2>9 DEF r, more, C
<1> QED
  BY <1>1, JudgeTypeCorrect, PTL

(* A response that is likely hallucinated is labelled FAIR or POOR by the  *)
(* default criteria, whatever its length and the number of key tokens.     *)
THEOREM RiskIsNeverGood ==
  ASSUME JudgeAssumption
  PROVE  JSpec => []HighRiskNeverGood
<1>1. JTypeOK => HighRiskNeverGood
  <2> SUFFICES ASSUME JTypeOK, Heuristic, Risk(judged.response) = 2
               PROVE  QualityLabel(Overall(DefaultCriteria, judged.response)) \in {"FAIR", "POOR"}
    BY DEF HighRiskNeverGood
  <2>1. judged.response \in Responses
    BY DEF JTypeOK, Heuristic, Unjudged
  <2> DEFINE o == Overall(DefaultCriteria, judged.response)
  <2>2. o \in Int /\ o <= 56
    BY <2>1, LowOverall
  <2> HIDE DEF o
  <2>3. QualityLabel(o) \in {"FAIR", "POOR"}
    BY <2>2 DEF QualityLabel
  <2> QED
    BY <2>3 DEF o
<1> QED
  BY <1>1, JudgeTypeCorrect, PTL

-----------------------------------------------------------------------------
(* Agreement.                                                              *)
(* A set of scores has a least and a greatest one. *)
LEMMA Extremes ==
  ASSUME NEW S \in SUBSET (0..20), S # {}
  PROVE  /\ Max(S) \in S /\ Min(S) \in S
         /\ \A y \in S : y <= Max(S) /\ Min(S) <= y
<1>1. \E x \in S : \A y \in S : x <= y
  <2>1. S \in SUBSET Nat
    OBVIOUS
  <2> QED
    BY <2>1, NatMin
<1>2. \E x \in S : \A y \in S : x >= y
  <2> DEFINE U == {20 - y : y \in S}
  <2>1. U \in SUBSET Nat /\ U # {}
    <3>1. \A y \in S : 20 - y \in Nat
      <4>1. \A y \in 0..20 : 20 - y \in Nat
        OBVIOUS
      <4> QED
        BY <4>1
    <3>2. PICK y \in S : TRUE
      OBVIOUS
    <3>3. 20 - y \in U
      BY <3>2
    <3> QED
      BY <3>1, <3>3
  <2> HIDE DEF U
  <2>2. PICK u \in U : \A v \in U : u <= v
    BY <2>1, NatMin
  <2>3. PICK x \in S : u = 20 - x
    BY DEF U
  <2>4. ASSUME NEW y \in S PROVE x >= y
    <3>1. 20 - y \in U
      BY DEF U
    <3>2. 20 - x <= 20 - y
      BY <2>2, <2>3, <3>1
    <3>3. x \in 0..20 /\ y \in 0..20
      OBVIOUS
    <3> QED
      BY <3>2, <3>3
  <2> QED
    BY <2>4
<1>3. Min(S) \in S /\ \A y \in S : Min(S) <= y
  BY <1>1 DEF Min
<1>4. Max(S) \in S /\ \A y \in S : Max(S) >= y
  BY <1>2 DEF Max
<1>5. \A y \in S : y \in Int
  OBVIOUS
<1> QED
  BY <1>3, <1>4, <1>5

(* The spread of a set of scores is the largest difference of two of them. *)
LEMMA SpreadIs ==
  ASSUME NEW S \in SUBSET (0..20), S # {}
  PROVE  /\ Spread(S) \in Nat
         /\ \E x, y \in S : Spread(S) = x - y
         /\ \A x, y \in S : x - y <= Spread(S)
<1>1. /\ Max(S) \in S /\ Min(S) \in S
      /\ \A y \in S : y <= Max(S) /\ Min(S) <= y
  BY Extremes
<1>2. \A y \in S : y \in Int
  OBVIOUS
<1> DEFINE a == Max(S)
           b == Min(S)
<1>3. a \in S /\ b \in S /\ Spread(S) = a - b /\ \A y \in S : y <= a /\ b <= y
  BY <1>1 DEF Spread
<1> HIDE DEF a, b
<1>4. a - b \in Nat
  BY <1>2, <1>3
<1>5. \A x, y \in S : x - y <= a - b
  BY <1>2, <1>3
<1> QED
  BY <1>3, <1>4, <1>5

(* The marks of a row are scores. *)
LEMMA MarkType ==
  ASSUME MarksAssumption, ATypeOK, NEW r \in Items
  PROVE  /\ Rated(r) \subseteq Raters /\ IsFiniteSet(Rated(r)) /\ Cardinality(Rated(r)) \in Nat
         /\ \A i \in Rated(r) : Mark(r, i) \in 0..20 /\ table[r][i].overall \in BOOLEAN
<1>1. \A i \in Raters : table[r][i] \in Scored \cup {Unrated}
  BY DEF ATypeOK
<1>2. Rated(r) \subseteq Raters
  BY DEF Rated
<1>3. \A i \in Rated(r) : table[r][i] \in Scored
  BY <1>1 DEF Rated
<1>4. IsFiniteSet(Rated(r)) /\ Cardinality(Rated(r)) \in Nat
  BY <1>2, FS_Subset, FS_CardinalityType DEF MarksAssumption
<1> QED
  BY <1>2, <1>3, <1>4 DEF Mark, Scored

(* The co-rated rows are finitely many. *)
LEMMA CoRatedFinite ==
  ASSUME MarksAssumption
  PROVE  CoRated \subseteq Items /\ IsFiniteSet(CoRated) /\ Cardinality(CoRated) \in Nat
BY FS_Subset, FS_CardinalityType DEF MarksAssumption, CoRated, Items

(* The marks of a row with two raters or more. *)
LEMMA MarksOf ==
  ASSUME MarksAssumption, ATypeOK, NEW r \in CoRated
  PROVE  LET S == {Mark(r, i) : i \in Rated(r)}
         IN /\ r \in Items /\ S \in SUBSET (0..20) /\ S # {}
            /\ Spread(S) \in Nat
            /\ \E i, j \in Rated(r) : Spread(S) = Mark(r, i) - Mark(r, j)
            /\ \A i, j \in Rated(r) : Mark(r, i) - Mark(r, j) <= Spread(S)
<1> DEFINE S == {Mark(r, i) : i \in Rated(r)}
<1>1. r \in Items /\ Cardinality(Rated(r)) >= 2
  BY DEF CoRated
<1>2. Rated(r) # {}
  BY <1>1, FS_EmptySet
<1>3. S \in SUBSET (0..20) /\ S # {}
  BY <1>1, <1>2, MarkType
<1>4. \A i \in Rated(r) : Mark(r, i) \in S
  OBVIOUS
<1>5. \A x \in S : \E i \in Rated(r) : x = Mark(r, i)
  OBVIOUS
<1> HIDE DEF S
<1>6. /\ Spread(S) \in Nat
      /\ \E x, y \in S : Spread(S) = x - y
      /\ \A x, y \in S : x - y <= Spread(S)
  BY <1>3, SpreadIs
<1>7. \E i, j \in Rated(r) : Spread(S) = Mark(r, i) - Mark(r, j)
  <2>1. PICK x, y \in S : Spread(S) = x - y
    BY <1>6
  <2>2. PICK i, j \in Rated(r) : x = Mark(r, i) /\ y = Mark(r, j)
    BY <1>5
  <2> QED
    BY <2>1, <2>2
<1>8. \A i, j \in Rated(r) : Mark(r, i) - Mark(r, j) <= Spread(S)
  BY <1>4, <1>6
<1> QED
  BY <1>1, <1>3, <1>6, <1>7, <1>8 DEF S

(* A row is agreed on when its marks are pairwise near. *)
LEMMA AgreedIs ==
  ASSUME MarksAssumption, ATypeOK, NEW r \in CoRated
  PROVE  /\ r \in Agreed <=> \A i, j \in Rated(r) : Mark(r, i) - Mark(r, j) <= Tolerance
         /\ r \in Disputed <=> \E i, j \in Rated(r) : Mark(r, i) - Mark(r, j) >= DisputeSpread
<1> DEFINE s == Spread({Mark(r, i) : i \in Rated(r)})
<1>1. /\ r \in Items /\ s \in Nat
      /\ \E i, j \in Rated(r) : s = Mark(r, i) - Mark(r, j)
      /\ \A i, j \in Rated(r) : Mark(r, i) - Mark(r, j) <= s
  BY MarksOf
<1>2. r \in Agreed <=> s <= Tolerance
  BY DEF Agreed
<1>3. r \in Disputed <=> s >= DisputeSpread
  BY DEF Disputed
<1> HIDE DEF s
<1>4. \A i, j \in Rated(r) : Mark(r, i) \in Int /\ Mark(r, j) \in Int
  BY <1>1, MarkType
<1>5. r \in Agreed <=> \A i, j \in Rated(r) : Mark(r, i) - Mark(r, j) <= Tolerance
  BY <1>1, <1>2, <1>4 DEF Tolerance
<1>6. r \in Disputed <=> \E i, j \in Rated(r) : Mark(r, i) - Mark(r, j) >= DisputeSpread
  BY <1>1, <1>3, <1>4 DEF DisputeSpread
<1> QED
  BY <1>5, <1>6

(* What the marks are makes disputes and agreement exclusive, and a mark   *)
(* with its overallScore the number the export compares.                   *)
LEMMA DisputesMatchStep ==
  ASSUME MarksAssumption, ATypeOK
  PROVE  DisputesMatch
<1>1. ASSUME NEW r \in Agreed, r \in Disputed PROVE FALSE
  <2>1. r \in CoRated
    BY DEF Agreed
  <2>2. \A i, j \in Rated(r) : Mark(r, i) - Mark(r, j) <= Tolerance
    BY <1>1, <2>1, AgreedIs
  <2>3. PICK i, j \in Rated(r) : Mark(r, i) - Mark(r, j) >= DisputeSpread
    BY <1>1, <2>1, AgreedIs
  <2>4. Mark(r, i) \in 0..20 /\ Mark(r, j) \in 0..20
    BY <2>1, MarkType, MarksOf
  <2> QED
    BY <2>2, <2>3, <2>4 DEF Tolerance, DisputeSpread
<1>2. ASSUME NEW r \in Items, \A i \in Rated(r) : table[r][i].overall
      PROVE  r \in Exported <=> r \in Disputed
  <2> DEFINE number(q, i) == IF table[q][i].overall THEN Mark(q, i) ELSE 0
  <2>1. {number(r, i) : i \in Rated(r)} = {Mark(r, i) : i \in Rated(r)}
    BY <1>2
  <2>2. r \in Exported <=> r \in CoRated /\ Spread({number(r, i) : i \in Rated(r)}) >= DisputeSpread
    BY DEF Exported
  <2> HIDE DEF number
  <2> QED
    BY <2>1, <2>2 DEF Disputed
<1> QED
  BY <1>1, <1>2 DEF DisputesMatch

(* The rates speak of the same rows. *)
LEMMA NearIs ==
  ASSUME MarksAssumption, ATypeOK, NEW r \in CoRated, NEW i \in Rated(r)
  PROVE  LET others == Rated(r) \ {i}
             f == [j \in others |-> Mark(r, j)]
             k == Cardinality(others)
             sum == SumFunctionOnSet(f, others)
         IN /\ k \in Nat \ {0} /\ IsFiniteSet(others) /\ k = Cardinality(Rated(r)) - 1
            /\ Mark(r, i) \in Int /\ \A j \in others : f[j] = Mark(r, j) /\ f[j] \in Int
            /\ r \in NearOthers(i) <=> Within(k * Mark(r, i), sum, k * Tolerance)
<1>1. r \in Items /\ Cardinality(Rated(r)) >= 2
  BY DEF CoRated
<1>2. /\ IsFiniteSet(Rated(r)) /\ Cardinality(Rated(r)) \in Nat
      /\ \A j \in Rated(r) : Mark(r, j) \in 0..20
  BY <1>1, MarkType
<1>3. \A j \in Rated(r) : Mark(r, j) \in Int
  BY <1>2
<1>4. IsFiniteSet(Rated(r) \ {i}) /\ Cardinality(Rated(r) \ {i}) = Cardinality(Rated(r)) - 1
  BY <1>2, FS_RemoveElement
<1> QED
  BY <1>1, <1>2, <1>3, <1>4 DEF NearOthers

(* Near each other: near the mean, because a sum of k marks is k times their bounds. *)
LEMMA RatesCohereStep ==
  ASSUME MarksAssumption, ATypeOK
  PROVE  RatesCohere
<1> SUFFICES ASSUME NEW r \in CoRated
             PROVE  /\ r \in Agreed <=> \A a, b \in Rated(r) : r \in PairAgreed(a, b)
                    /\ r \in Agreed => \A i \in Rated(r) : r \in NearOthers(i)
                    /\ Cardinality(Rated(r)) = 2 =>
                          (r \in Agreed <=> \E i \in Rated(r) : r \in NearOthers(i))
  BY DEF RatesCohere
<1>1. r \in Items /\ Cardinality(Rated(r)) >= 2
  BY DEF CoRated
<1>2. /\ IsFiniteSet(Rated(r)) /\ Cardinality(Rated(r)) \in Nat
      /\ \A j \in Rated(r) : Mark(r, j) \in Int
  <2>1. \A j \in Rated(r) : Mark(r, j) \in 0..20
    BY <1>1, MarkType
  <2> QED
    BY <1>1, <2>1, MarkType
<1>3. r \in Agreed <=> \A i, j \in Rated(r) : Mark(r, i) - Mark(r, j) <= Tolerance
  BY AgreedIs
<1>4. \A a, b \in Rated(r) :
         r \in PairAgreed(a, b) <=> Within(Mark(r, a), Mark(r, b), Tolerance)
  BY <1>1 DEF PairAgreed, Shared
<1>5. r \in Agreed <=> \A a, b \in Rated(r) : r \in PairAgreed(a, b)
  BY <1>3, <1>4 DEF Within
<1>6. ASSUME r \in Agreed, NEW i \in Rated(r)
      PROVE  r \in NearOthers(i)
  <2> DEFINE others == Rated(r) \ {i}
             f == [j \in others |-> Mark(r, j)]
             k == Cardinality(others)
             sum == SumFunctionOnSet(f, others)
             m == Mark(r, i)
  <2>1. /\ k \in Nat \ {0} /\ IsFiniteSet(others)
        /\ m \in Int /\ \A j \in others : f[j] = Mark(r, j) /\ f[j] \in Int
        /\ r \in NearOthers(i) <=> Within(k * m, sum, k * Tolerance)
    BY NearIs
  <2>2. \A j \in others : m - Mark(r, j) <= Tolerance /\ Mark(r, j) - m <= Tolerance
    BY <1>3, <1>6
  <2> HIDE DEF f, others, m
  <2>3. /\ m - Tolerance \in Int /\ m + Tolerance \in Int
        /\ \A j \in others : f[j] \in Int /\ m - Tolerance <= f[j] /\ f[j] <= m + Tolerance
    BY <2>1, <2>2 DEF Tolerance
  <2>4. k * (m - Tolerance) <= sum /\ sum <= k * (m + Tolerance)
    BY <2>1, <2>3, SumBounds
  <2>5. sum \in Int
    BY <2>1, SumFirst
  <2> HIDE DEF sum, k
  <2>6. /\ k * (m - Tolerance) = k * m - k * Tolerance
        /\ k * (m + Tolerance) = k * m + k * Tolerance
        /\ k * m \in Int /\ k * Tolerance \in Int
    BY <2>1 DEF Tolerance
  <2> QED
    BY <2>1, <2>4, <2>5, <2>6 DEF Within
<1>7. ASSUME Cardinality(Rated(r)) = 2, NEW i \in Rated(r), r \in NearOthers(i)
      PROVE  r \in Agreed
  <2> DEFINE others == Rated(r) \ {i}
             f == [j \in others |-> Mark(r, j)]
             k == Cardinality(others)
             sum == SumFunctionOnSet(f, others)
             m == Mark(r, i)
  <2>1. /\ k = 1 /\ IsFiniteSet(others)
        /\ m \in Int /\ \A j \in others : f[j] = Mark(r, j) /\ f[j] \in Int
        /\ Within(k * m, sum, k * Tolerance)
    <3>1. /\ k = Cardinality(Rated(r)) - 1 /\ IsFiniteSet(others)
          /\ m \in Int /\ \A j \in others : f[j] = Mark(r, j) /\ f[j] \in Int
          /\ r \in NearOthers(i) <=> Within(k * m, sum, k * Tolerance)
      BY NearIs
    <3> HIDE DEF k, sum, others, f, m
    <3>2. k = 1
      BY <1>7, <3>1
    <3> QED
      BY <1>7, <3>1, <3>2
  <2>2. PICK j : others = {j}
    <3> HIDE DEF others
    <3> QED
      BY <2>1, FS_Singleton
  <2>3. sum = Mark(r, j)
    <3>1. j \in others /\ others \ {j} = {}
      BY <2>2
    <3> HIDE DEF f, others
    <3>2. sum = f[j] + SumFunctionOnSet(f, others \ {j})
      BY <2>1, <3>1, SumRemove
    <3>3. IsFiniteSet(others \ {j}) /\ \A x \in others \ {j} : f[x] \in Int
      BY <2>1, <3>1, FS_EmptySet
    <3>4. SumFunctionOnSet(f, others \ {j}) = 0
      BY <3>1, <3>3, SumFirst
    <3> QED
      BY <2>1, <3>1, <3>2, <3>4
  <2>4. Rated(r) = {i, j}
    BY <2>2
  <2> HIDE DEF sum, k
  <2>5. Within(m, Mark(r, j), Tolerance)
    BY <2>1, <2>3 DEF Tolerance
  <2>6. /\ Mark(r, i) - Mark(r, j) <= Tolerance /\ Mark(r, j) - Mark(r, i) <= Tolerance
        /\ Mark(r, i) - Mark(r, i) <= Tolerance /\ Mark(r, j) - Mark(r, j) <= Tolerance
    BY <1>2, <2>4, <2>5 DEF Within, Tolerance
  <2> QED
    BY <1>3, <2>4, <2>6
<1>8. \E i \in Rated(r) : TRUE
  BY <1>1, FS_EmptySet
<1> QED
  BY <1>5, <1>6, <1>7, <1>8

(* A set splits into the part inside another one and the part outside. *)
LEMMA Split ==
  ASSUME NEW S, IsFiniteSet(S), NEW U
  PROVE  /\ IsFiniteSet(S \cap U) /\ IsFiniteSet(S \ U)
         /\ Cardinality(S \cap U) \in Nat /\ Cardinality(S \ U) \in Nat
         /\ Cardinality(S) = Cardinality(S \cap U) + Cardinality(S \ U)
<1>1. IsFiniteSet(S \cap U) /\ IsFiniteSet(S \ U)
  BY FS_Subset
<1>2. S = (S \cap U) \cup (S \ U) /\ (S \cap U) \cap (S \ U) = {}
  OBVIOUS
<1>3. Cardinality({}) = 0
  BY FS_EmptySet
<1>4. /\ Cardinality(S \cap U) \in Nat /\ Cardinality(S \ U) \in Nat
  BY <1>1, FS_CardinalityType
<1> DEFINE A == S \cap U
           B == S \ U
<1>5. Cardinality(A \cup B) = Cardinality(A) + Cardinality(B) - Cardinality(A \cap B)
  <2> HIDE DEF A, B
  <2> QED
    BY <1>1, FS_Union DEF A, B
<1>6. S = A \cup B /\ A \cap B = {}
  OBVIOUS
<1>7. Cardinality(A) \in Nat /\ Cardinality(B) \in Nat
  BY <1>4
<1>8. Cardinality(A \cup B) = Cardinality(S) /\ Cardinality(A \cap B) = 0
  <2> HIDE DEF A, B
  <2> QED
    BY <1>3, <1>6, Zenon
<1> HIDE DEF A, B
<1>9. Cardinality(S) = Cardinality(A) + Cardinality(B)
  <2> DEFINE a == Cardinality(A)
             b == Cardinality(B)
             c == Cardinality(A \cap B)
             d == Cardinality(A \cup B)
  <2>1. d = a + b - c /\ c = 0 /\ d = Cardinality(S) /\ a \in Nat /\ b \in Nat
    BY <1>5, <1>7, <1>8, Zenon
  <2> HIDE DEF a, b, c, d
  <2>2. Cardinality(S) = a + b
    BY <2>1
  <2> QED
    BY <2>2 DEF a, b
<1> QED
  BY <1>1, <1>4, <1>9 DEF A, B

(***************************************************************************)
(* The rows two raters share, by who passed them: both, the first only,    *)
(* the second only, neither.                                               *)
(***************************************************************************)
Both(a, b, R) == {r \in R : Passes(r, a) /\ Passes(r, b)}
FirstOnly(a, b, R) == {r \in R : Passes(r, a) /\ ~Passes(r, b)}
Neither(a, b, R) == {r \in R : ~Passes(r, a) /\ ~Passes(r, b)}
Together(a, b, R) == {r \in R : Passes(r, a) = Passes(r, b)}
Opposed(a, b, R) == {r \in R : Passes(r, a) # Passes(r, b)}

(* The counts cohensKappa makes, from the four parts. *)
LEMMA FourParts ==
  ASSUME NEW R, IsFiniteSet(R), NEW a, NEW b
  PROVE  LET w == Cardinality(Both(a, b, R))
             x == Cardinality(FirstOnly(a, b, R))
             y == Cardinality(FirstOnly(b, a, R))
             z == Cardinality(Neither(a, b, R))
         IN /\ w \in Nat /\ x \in Nat /\ y \in Nat /\ z \in Nat
            /\ Cardinality(R) = w + x + y + z
            /\ Passed(a, R) = w + x /\ Passed(b, R) = w + y
            /\ Cardinality(Together(a, b, R)) = w + z
            /\ Cardinality(Opposed(a, b, R)) = x + y
<1> DEFINE PA == {r \in R : Passes(r, a)}
           PB == {r \in R : Passes(r, b)}
           EQ == {r \in R : Passes(r, a) = Passes(r, b)}
           NE == {r \in R : Passes(r, a) # Passes(r, b)}
<1>0. \A r \in R : Passes(r, a) \in BOOLEAN /\ Passes(r, b) \in BOOLEAN
  BY DEF Passes
<1>1. /\ Both(a, b, R) = PA \cap PB /\ FirstOnly(a, b, R) = PA \ PB
      /\ FirstOnly(b, a, R) = PB \ PA /\ Neither(a, b, R) = EQ \ PA
      /\ Both(a, b, R) = EQ \cap PA /\ Both(a, b, R) = PB \cap PA
      /\ FirstOnly(a, b, R) = NE \cap PA /\ FirstOnly(b, a, R) = NE \ PA
      /\ R \cap EQ = EQ /\ R \ EQ = NE
  BY <1>0, Zenon DEF Both, FirstOnly, Neither
<1>2. IsFiniteSet(PA) /\ IsFiniteSet(PB) /\ IsFiniteSet(EQ) /\ IsFiniteSet(NE)
  BY FS_Subset
<1>3. Passed(a, R) = Cardinality(PA) /\ Passed(b, R) = Cardinality(PB)
  BY DEF Passed
<1> HIDE DEF PA, PB, EQ, NE
<1>4. /\ Cardinality(PA) = Cardinality(PA \cap PB) + Cardinality(PA \ PB)
      /\ Cardinality(PB) = Cardinality(PB \cap PA) + Cardinality(PB \ PA)
      /\ Cardinality(EQ) = Cardinality(EQ \cap PA) + Cardinality(EQ \ PA)
      /\ Cardinality(NE) = Cardinality(NE \cap PA) + Cardinality(NE \ PA)
      /\ Cardinality(R) = Cardinality(R \cap EQ) + Cardinality(R \ EQ)
  BY <1>2, Split
<1>5. /\ Cardinality(PA \cap PB) \in Nat /\ Cardinality(PA \ PB) \in Nat
      /\ Cardinality(PB \ PA) \in Nat /\ Cardinality(EQ \ PA) \in Nat
  BY <1>2, Split
<1>6. /\ Cardinality(R) = Cardinality(EQ) + Cardinality(NE)
      /\ Cardinality(PA) = Cardinality(Both(a, b, R)) + Cardinality(FirstOnly(a, b, R))
      /\ Cardinality(PB) = Cardinality(Both(a, b, R)) + Cardinality(FirstOnly(b, a, R))
      /\ Cardinality(EQ) = Cardinality(Both(a, b, R)) + Cardinality(Neither(a, b, R))
      /\ Cardinality(NE) = Cardinality(FirstOnly(a, b, R)) + Cardinality(FirstOnly(b, a, R))
  BY <1>1, <1>4
<1>7. /\ Cardinality(Both(a, b, R)) \in Nat /\ Cardinality(FirstOnly(a, b, R)) \in Nat
      /\ Cardinality(FirstOnly(b, a, R)) \in Nat /\ Cardinality(Neither(a, b, R)) \in Nat
  BY <1>1, <1>5
<1> QED
  BY <1>3, <1>6, <1>7 DEF EQ, NE, Together, Opposed

(* Of four parts: the formula of the code, and what it stands for. *)
LEMMA KappaArithmetic ==
  ASSUME NEW w \in Nat, NEW x \in Nat, NEW y \in Nat, NEW z \in Nat
  PROVE  LET n == w + x + y + z
             p == w + x
             q == w + y
             chance == p * q + (n - p) * (n - q)
             byChance == p * (n - q) + q * (n - p)
             apart == x + y
         IN /\ byChance \in Nat /\ apart * n \in Nat
            /\ n * n - chance = byChance
            /\ (w + z) * n - chance = byChance - apart * n
            /\ apart * n <= 2 * byChance
<1> DEFINE n == w + x + y + z
           ww == w * w  wx == w * x  wy == w * y  wz == w * z
           xx == x * x  xy == x * y  xz == x * z
           yy == y * y  yz == y * z  zz == z * z
<1>1. /\ ww \in Nat /\ wx \in Nat /\ wy \in Nat /\ wz \in Nat /\ xx \in Nat /\ xy \in Nat
      /\ xz \in Nat /\ yy \in Nat /\ yz \in Nat /\ zz \in Nat
  OBVIOUS
<1>2. 2 * xy <= xx + yy
  <2>1. (x - y) * (x - y) >= 0
    OBVIOUS
  <2>2. (x - y) * (x - y) = x * x - 2 * (x * y) + y * y
    OBVIOUS
  <2> QED
    BY <1>1, <2>1, <2>2
<1>3. (w + x) * (w + y) = ww + wy + wx + xy
  OBVIOUS
<1>4. (n - (w + x)) * (n - (w + y)) = xy + yz + xz + zz
  <2>1. n - (w + x) = y + z /\ n - (w + y) = x + z
    OBVIOUS
  <2>2. (y + z) * (x + z) = xy + yz + xz + zz
    OBVIOUS
  <2> QED
    BY <2>1, <2>2
<1>5. (w + x) * (n - (w + y)) = wx + wz + xx + xz
  <2>1. n - (w + y) = x + z
    OBVIOUS
  <2>2. (w + x) * (x + z) = wx + wz + xx + xz
    OBVIOUS
  <2> QED
    BY <2>1, <2>2
<1>6. (w + y) * (n - (w + x)) = wy + wz + yy + yz
  <2>1. n - (w + x) = y + z
    OBVIOUS
  <2>2. (w + y) * (y + z) = wy + wz + yy + yz
    OBVIOUS
  <2> QED
    BY <2>1, <2>2
<1>7. n * n = ww + xx + yy + zz + 2 * wx + 2 * wy + 2 * wz + 2 * xy + 2 * xz + 2 * yz
  OBVIOUS
<1>8. (w + z) * n = ww + wx + wy + 2 * wz + xz + yz + zz
  OBVIOUS
<1>9. (x + y) * n = wx + xx + 2 * xy + xz + wy + yy + yz
  OBVIOUS
<1> DEFINE pq == (w + x) * (w + y)
           pq1 == (n - (w + x)) * (n - (w + y))
           pq2 == (w + x) * (n - (w + y))
           pq3 == (w + y) * (n - (w + x))
           nn == n * n
           sn == (w + z) * n
           an == (x + y) * n
<1> SUFFICES /\ pq2 + pq3 \in Nat /\ an \in Nat
             /\ nn - (pq + pq1) = pq2 + pq3
             /\ sn - (pq + pq1) = (pq2 + pq3) - an
             /\ an <= 2 * (pq2 + pq3)
  OBVIOUS
<1>10. /\ pq = ww + wy + wx + xy /\ pq1 = xy + yz + xz + zz
       /\ pq2 = wx + wz + xx + xz /\ pq3 = wy + wz + yy + yz
       /\ nn = ww + xx + yy + zz + 2 * wx + 2 * wy + 2 * wz + 2 * xy + 2 * xz + 2 * yz
       /\ sn = ww + wx + wy + 2 * wz + xz + yz + zz
       /\ an = wx + xx + 2 * xy + xz + wy + yy + yz
  BY <1>3, <1>4, <1>5, <1>6, <1>7, <1>8, <1>9
<1> HIDE DEF ww, wx, wy, wz, xx, xy, xz, yy, yz, zz, pq, pq1, pq2, pq3, nn, sn, an
<1> QED
  BY <1>1, <1>2, <1>10

(* The code computes what the four parts say. *)
LEMMA CohenStep ==
  ASSUME MarksAssumption
  PROVE  CohenIsKappa
<1> SUFFICES ASSUME NEW a \in Raters, NEW b \in Raters, a # b, Shared(a, b) # {}
             PROVE  LET R == Shared(a, b)
                        n == Cardinality(R)
                        apart == Cardinality({r \in R : Passes(r, a) # Passes(r, b)})
                        byChance == Passed(a, R) * (n - Passed(b, R))
                                      + Passed(b, R) * (n - Passed(a, R))
                        k == CohensKappa(a, b)
                    IN /\ k = Null <=> n < 2 \/ byChance = 0
                       /\ k[1] * byChance = k[2] * (byChance - apart * n)
                       /\ -k[2] <= k[1] /\ k[1] <= k[2]
                       /\ k = CohensKappa(b, a)
  BY DEF CohenIsKappa
<1> DEFINE R == Shared(a, b)
           n == Cardinality(R)
           w == Cardinality(Both(a, b, R))
           x == Cardinality(FirstOnly(a, b, R))
           y == Cardinality(FirstOnly(b, a, R))
           z == Cardinality(Neither(a, b, R))
           apart == Cardinality({r \in R : Passes(r, a) # Passes(r, b)})
           same == Cardinality({r \in R : Passes(r, a) = Passes(r, b)})
           p == Passed(a, R)
           q == Passed(b, R)
           chance == p * q + (n - p) * (n - q)
           byChance == p * (n - q) + q * (n - p)
           k == CohensKappa(a, b)
<1>1. IsFiniteSet(R)
  BY FS_Subset DEF MarksAssumption, Shared, Items
<1>2. Shared(b, a) = R
  BY DEF Shared
<1>3. {r \in R : Passes(r, b) = Passes(r, a)} = {r \in R : Passes(r, a) = Passes(r, b)}
  OBVIOUS
<1>4. /\ k = IF n < 2 \/ chance = n * n THEN Null
             ELSE <<same * n - chance, n * n - chance>>
      /\ CohensKappa(b, a) = IF n < 2 \/ q * p + (n - q) * (n - p) = n * n THEN Null
                             ELSE <<same * n - (q * p + (n - q) * (n - p)),
                                    n * n - (q * p + (n - q) * (n - p))>>
  BY <1>2, <1>3 DEF CohensKappa
<1>5. /\ w \in Nat /\ x \in Nat /\ y \in Nat /\ z \in Nat
      /\ n = w + x + y + z /\ p = w + x /\ q = w + y /\ same = w + z /\ apart = x + y
  <2>1. same = Cardinality(Together(a, b, R)) /\ apart = Cardinality(Opposed(a, b, R))
    BY DEF Together, Opposed
  <2> HIDE DEF R, same, apart
  <2> QED
    BY <1>1, <2>1, FourParts
<1> HIDE DEF R, w, x, y, z, n, p, q, same, apart
<1>6. /\ byChance \in Nat /\ apart * n \in Nat
      /\ n * n - chance = byChance
      /\ same * n - chance = byChance - apart * n
      /\ apart * n <= 2 * byChance
  <2> HIDE DEF byChance, chance
  <2>1. /\ chance = (w + x) * (w + y) + (n - (w + x)) * (n - (w + y))
        /\ byChance = (w + x) * (n - (w + y)) + (w + y) * (n - (w + x))
    BY <1>5 DEF chance, byChance
  <2> QED
    BY <1>5, <2>1, KappaArithmetic
<1>7. q * p + (n - q) * (n - p) = chance /\ chance \in Int /\ n * n \in Int /\ n \in Nat
  BY <1>5
<1> HIDE DEF byChance, chance, k
<1>8. k = CohensKappa(b, a)
  BY <1>4, <1>7
<1> DEFINE c == byChance - apart * n
<1>9. chance = n * n <=> byChance = 0
  BY <1>6, <1>7
<1>10. c \in Int /\ byChance \in Int
  BY <1>6
<1>11. k = IF n < 2 \/ byChance = 0 THEN Null ELSE <<c, byChance>>
  BY <1>4, <1>6, <1>9
<1>12. -byChance <= c /\ c <= byChance
  BY <1>6
<1> HIDE DEF c
<1>13. CASE n < 2 \/ byChance = 0
  <2>1. k = Null /\ k[1] = 0 /\ k[2] = 0
    BY <1>11, <1>13 DEF Null
  <2>2. k[1] * byChance = k[2] * c
    BY <2>1, <1>10
  <2> QED
    BY <1>8, <1>13, <2>1, <2>2 DEF R, n, p, q, apart, byChance, k, c
<1>14. CASE ~(n < 2 \/ byChance = 0)
  <2>1. k[1] = c /\ k[2] = byChance /\ k # Null
    BY <1>11, <1>14 DEF Null
  <2>2. k[1] * byChance = k[2] * c
    BY <2>1, <1>10
  <2>3. -k[2] <= k[1] /\ k[1] <= k[2]
    BY <1>12, <2>1
  <2> QED
    BY <1>8, <1>14, <2>1, <2>2, <2>3 DEF R, n, p, q, apart, byChance, k, c
<1> QED
  BY <1>13, <1>14

(* Passing and failing raters of a row. *)
LEMMA CountsType ==
  ASSUME MarksAssumption, NEW r \in Items
  PROVE  /\ PassCount(r) \in Nat /\ FailCount(r) \in Nat
         /\ Cardinality(Rated(r)) \in Nat
         /\ PassCount(r) + FailCount(r) = Cardinality(Rated(r))
<1>1. IsFiniteSet(Rated(r))
  BY FS_Subset DEF MarksAssumption, Rated
<1> DEFINE P == {i \in Rated(r) : Passes(r, i)}
<1>2. P \subseteq Rated(r) /\ PassCount(r) = Cardinality(P)
  BY DEF PassCount
<1> HIDE DEF P
<1>3. /\ Cardinality(P) \in Nat /\ Cardinality(P) <= Cardinality(Rated(r))
      /\ Cardinality(Rated(r)) \in Nat
  BY <1>1, <1>2, FS_Subset, FS_CardinalityType
<1> QED
  BY <1>2, <1>3 DEF FailCount

(* A sum of naturals is one, and 0 only when all of them are. *)
LEMMA SumOfNats ==
  ASSUME NEW S, IsFiniteSet(S), NEW f, \A x \in S : f[x] \in Nat
  PROVE  /\ SumFunctionOnSet(f, S) \in Nat
         /\ SumFunctionOnSet(f, S) = 0 <=> \A x \in S : f[x] = 0
<1>1. \A T0 \in SUBSET S : SumFunctionOnSet(f, T0) \in Nat
  <2> SUFFICES ASSUME NEW T0 \in SUBSET S PROVE SumFunctionOnSet(f, T0) \in Nat
    OBVIOUS
  <2>1. IsFiniteSet(T0) /\ Cardinality(T0) \in Nat
    BY FS_Subset, FS_CardinalityType
  <2> DEFINE z == [x \in T0 |-> 0]
  <2>2. SumFunctionOnSet(z, T0) + 0 * SumFunctionOnSet(z, T0) = Cardinality(T0) * 0
    BY <2>1, SumLinear
  <2>3. \A x \in T0 : z[x] \in Int /\ f[x] \in Int /\ z[x] <= f[x]
    OBVIOUS
  <2> HIDE DEF z
  <2>4. SumFunctionOnSet(z, T0) <= SumFunctionOnSet(f, T0)
    BY <2>1, <2>3, SumMonotone
  <2>5. SumFunctionOnSet(z, T0) \in Int /\ SumFunctionOnSet(f, T0) \in Int
    BY <2>1, <2>3, SumFirst
  <2> QED
    BY <2>1, <2>2, <2>4, <2>5
<1>2. ASSUME SumFunctionOnSet(f, S) = 0, NEW x \in S
      PROVE  f[x] = 0
  <2>1. SumFunctionOnSet(f, S) = f[x] + SumFunctionOnSet(f, S \ {x})
    BY SumRemove
  <2>2. SumFunctionOnSet(f, S \ {x}) \in Nat
    BY <1>1
  <2>3. f[x] \in Nat
    OBVIOUS
  <2> QED
    BY <1>2, <2>1, <2>2, <2>3
<1>3. ASSUME \A x \in S : f[x] = 0
      PROVE  SumFunctionOnSet(f, S) = 0
  <2>1. \A x \in S : f[x] \in Int /\ 0 <= f[x] /\ f[x] <= 0
    BY <1>3
  <2>2. Cardinality(S) * 0 <= SumFunctionOnSet(f, S) /\ SumFunctionOnSet(f, S) <= Cardinality(S) * 0
    BY <2>1, SumBounds
  <2>3. Cardinality(S) \in Nat
    BY FS_CardinalityType
  <2>4. SumFunctionOnSet(f, S) \in Nat
    BY <1>1
  <2> QED
    BY <2>2, <2>3, <2>4
<1> QED
  BY <1>1, <1>2, <1>3

(* The figures of one row of m raters. *)
LEMMA RowSquares ==
  ASSUME NEW p \in Nat, NEW f \in Nat, NEW m \in Nat, p + f = m
  PROVE  (Sq(p) + Sq(f) - m) + 2 * (p * f) = m * (m - 1)
<1>1. m * (m - 1) = (p + f) * (p + f) - (p + f)
  OBVIOUS
<1>2. (p + f) * (p + f) = p * p + 2 * (p * f) + f * f
  OBVIOUS
<1>3. p * p \in Nat /\ f * f \in Nat /\ p * f \in Nat
  OBVIOUS
<1> DEFINE pp == p * p  ff == f * f  pf == p * f  t == (p + f) * (p + f)
<1> HIDE DEF pp, ff, pf, t
<1>4. (pp + ff - m) + 2 * pf = t - m
  BY <1>2, <1>3 DEF pp, ff, pf, t
<1> QED
  BY <1>1, <1>3, <1>4 DEF Sq, pp, ff, pf, t

(***************************************************************************)
(* n rows of m raters with P passing and F failing marks, apart pairs of   *)
(* one of each, and the code's sum of squares: what its formula amounts to.*)
(***************************************************************************)
EvenSums(n, m, P, F, apart, squares) ==
    /\ n \in Nat /\ m \in Nat /\ P \in Nat /\ F \in Nat /\ apart \in Nat /\ squares \in Int
    /\ n >= 1 /\ m >= 2
    /\ P + F = n * m
    /\ squares + 2 * apart = n * (m * (m - 1))

KappaOfSums(n, m, P, F, apart, squares) ==
    LET total == n * m
        chance == Sq(P) + Sq(F)
        num == squares * total - chance * (m - 1)
        den == (m - 1) * (Sq(total) - chance)
    IN /\ chance = Sq(total) <=> P * F = 0
       /\ den = 2 * ((m - 1) * (P * F))
       /\ num = den - 2 * (apart * total)
       /\ apart * total \in Nat /\ (apart * total = 0 <=> apart = 0)
       /\ P * F \in Nat /\ (P * F # 0 => den > 0)
       /\ total \in Nat /\ num \in Int /\ den \in Int

(* The fraction of the code is that of the definition. *)
LEMMA FleissArithmetic ==
  ASSUME NEW n, NEW m, NEW P, NEW F, NEW apart, NEW squares,
         EvenSums(n, m, P, F, apart, squares)
  PROVE  KappaOfSums(n, m, P, F, apart, squares)
<1>0. /\ n \in Nat /\ m \in Nat /\ P \in Nat /\ F \in Nat /\ apart \in Nat /\ squares \in Int
      /\ n >= 1 /\ m >= 2
      /\ P + F = n * m
      /\ squares + 2 * apart = n * (m * (m - 1))
  BY DEF EvenSums
<1> DEFINE total == n * m
           PF == P * F
           chance == Sq(P) + Sq(F)
           at == apart * total
           l == m - 1
<1>1. total \in Nat /\ total # 0
  BY <1>0
<1>2. PF \in Nat /\ chance \in Nat /\ l \in Nat /\ l # 0
  BY <1>0 DEF Sq
<1>3. Sq(total) = chance + 2 * PF
  <2>1. (P + F) * (P + F) = P * P + 2 * (P * F) + F * F
    BY <1>0
  <2> QED
    BY <1>0, <2>1 DEF Sq
<1>4. squares = total * l - 2 * apart
  <2>1. n * (m * (m - 1)) = (n * m) * (m - 1)
    BY <1>0
  <2> QED
    BY <1>0, <2>1
<1> HIDE DEF total, PF, chance, l
<1>5. at \in Nat /\ (at = 0 <=> apart = 0)
  BY <1>0, <1>1
<1>6. squares * total = Sq(total) * l - 2 * at
  BY <1>0, <1>1, <1>2, <1>4 DEF Sq
<1>7. l * (Sq(total) - chance) = 2 * (l * PF)
  BY <1>2, <1>3
<1> DEFINE lP == l * PF  lC == chance * l
<1>8. lP \in Nat /\ lC \in Int /\ (PF # 0 => lP > 0)
  BY <1>2
<1>9. Sq(total) * l = lC + 2 * lP
  BY <1>2, <1>3
<1> HIDE DEF lP, lC, at
<1>10. squares * total - lC = 2 * lP - 2 * at
  BY <1>5, <1>6, <1>8, <1>9
<1>11. chance = Sq(total) <=> PF = 0
  BY <1>2, <1>3
<1>12. /\ l * (Sq(total) - chance) = 2 * lP
       /\ squares * total - chance * l = 2 * lP - 2 * at
  BY <1>7, <1>10 DEF lP, lC
<1>13. /\ 2 * lP \in Int /\ 2 * lP - 2 * at \in Int /\ (PF # 0 => 2 * lP > 0)
  BY <1>5, <1>8
<1> QED
  BY <1>1, <1>2, <1>5, <1>11, <1>12, <1>13 DEF KappaOfSums, total, PF, chance, at, l, lP

(* The sums over even rows are in the relations that FleissArithmetic needs. *)
LEMMA FleissStep ==
  ASSUME MarksAssumption
  PROVE  FleissOfEvenRows
<1> SUFFICES ASSUME \A r, q \in CoRated : Cardinality(Rated(r)) = Cardinality(Rated(q)),
                    NEW first \in CoRated
             PROVE  LET m == Cardinality(Rated(first))
                        apart == SumFunction([r \in CoRated |-> PassCount(r) * FailCount(r)])
                        byChance == Passing * Failing
                        k == FleissKappa(first)
                    IN /\ k = Null <=> byChance = 0
                       /\ k[1] * byChance * (m - 1) =
                            k[2] * (byChance * (m - 1) - apart * m * Cardinality(CoRated))
                       /\ k[1] <= k[2]
                       /\ k[1] = k[2] <=> apart = 0
  BY DEF FleissOfEvenRows
<1> DEFINE m == Cardinality(Rated(first))
           n == Cardinality(CoRated)
           f == [r \in CoRated |-> Sq(PassCount(r)) + Sq(FailCount(r)) - m]
           g == [r \in CoRated |-> PassCount(r) * FailCount(r)]
           p == [r \in CoRated |-> PassCount(r)]
           q == [r \in CoRated |-> FailCount(r)]
           apart == SumFunctionOnSet(g, CoRated)
           squares == SumFunctionOnSet(f, CoRated)
           k == FleissKappa(first)
<1>1. CoRated \subseteq Items /\ IsFiniteSet(CoRated) /\ n \in Nat /\ n >= 1
  <2>1. n # 0
    BY CoRatedFinite, FS_EmptySet
  <2> QED
    BY <2>1, CoRatedFinite
<1>2. m \in Nat /\ m >= 2
  <2>1. m >= 2
    BY DEF CoRated
  <2> QED
    BY <1>1, <2>1, CountsType
<1>3. \A r \in CoRated : /\ PassCount(r) \in Nat /\ FailCount(r) \in Nat
                         /\ PassCount(r) + FailCount(r) = m
  BY <1>1, CountsType
<1>4. /\ Passing = SumFunctionOnSet(p, CoRated) /\ Failing = SumFunctionOnSet(q, CoRated)
      /\ apart = SumFunction(g) /\ squares = SumFunction(f)
  BY DEF SumFunction, Passing, Failing
<1>5. k = IF Sq(Passing) + Sq(Failing) = Sq(n * m) THEN Null
          ELSE <<squares * (n * m) - (Sq(Passing) + Sq(Failing)) * (m - 1),
                 (m - 1) * (Sq(n * m) - (Sq(Passing) + Sq(Failing)))>>
  BY <1>4 DEF FleissKappa
<1>6. \A r \in CoRated : /\ f[r] \in Int /\ g[r] \in Nat /\ p[r] \in Nat /\ q[r] \in Nat
                         /\ f[r] + 2 * g[r] = m * (m - 1) /\ p[r] + 1 * q[r] = m
                         /\ g[r] = p[r] * q[r]
  <2> SUFFICES ASSUME NEW r \in CoRated
               PROVE  /\ f[r] \in Int /\ g[r] \in Nat /\ p[r] \in Nat /\ q[r] \in Nat
                      /\ f[r] + 2 * g[r] = m * (m - 1) /\ p[r] + 1 * q[r] = m
                      /\ g[r] = p[r] * q[r]
    OBVIOUS
  <2>1. /\ f[r] = Sq(PassCount(r)) + Sq(FailCount(r)) - m
        /\ g[r] = PassCount(r) * FailCount(r) /\ p[r] = PassCount(r) /\ q[r] = FailCount(r)
    OBVIOUS
  <2> HIDE DEF f, g, p, q, m
  <2>2. /\ PassCount(r) \in Nat /\ FailCount(r) \in Nat /\ PassCount(r) + FailCount(r) = m
    BY <1>3
  <2>3. (Sq(PassCount(r)) + Sq(FailCount(r)) - m) + 2 * (PassCount(r) * FailCount(r)) = m * (m - 1)
    BY <1>2, <2>2, RowSquares
  <2>4. /\ Sq(PassCount(r)) + Sq(FailCount(r)) - m \in Int /\ PassCount(r) * FailCount(r) \in Nat
        /\ PassCount(r) + 1 * FailCount(r) = m
    BY <1>2, <2>2 DEF Sq
  <2> QED
    BY <2>1, <2>2, <2>3, <2>4, Zenon
<1> DEFINE c == m * (m - 1)
<1>61. c \in Int /\ m \in Int
  BY <1>2
<1> HIDE DEF f, g, p, q, m, n
<1>7. squares + 2 * apart = n * (m * (m - 1)) /\ squares \in Int
  <2>1. \A r \in CoRated : f[r] \in Int /\ g[r] \in Int /\ f[r] + 2 * g[r] = m * (m - 1)
    BY <1>6
  <2> HIDE DEF c
  <2>2. squares + 2 * apart = n * c
    BY <1>1, <1>61, <2>1, SumLinear DEF n, c
  <2>3. squares \in Int
    BY <1>1, <2>1, SumFirst
  <2> QED
    BY <2>2, <2>3 DEF c
<1>8. apart \in Nat /\ Passing \in Nat /\ Failing \in Nat
  BY <1>1, <1>4, <1>6, SumOfNats
<1>9. Passing + Failing = n * m
  <2>1. \A r \in CoRated : p[r] \in Int /\ q[r] \in Int /\ p[r] + 1 * q[r] = m
    BY <1>6
  <2>2. SumFunctionOnSet(p, CoRated) + 1 * SumFunctionOnSet(q, CoRated) = n * m
    BY <1>1, <1>61, <2>1, SumLinear DEF n
  <2> QED
    BY <1>4, <1>8, <2>2
(* When by chance nobody differs, no two marks of a row do. *)
<1>10. Passing * Failing = 0 => apart = 0
  <2> SUFFICES ASSUME Passing * Failing = 0 PROVE apart = 0
    OBVIOUS
  <2>1. Passing = 0 \/ Failing = 0
    BY <1>8
  <2>2. (\A r \in CoRated : p[r] = 0) \/ (\A r \in CoRated : q[r] = 0)
    BY <1>1, <1>4, <1>6, <2>1, SumOfNats
  <2>3. \A r \in CoRated : g[r] = 0
    <3> SUFFICES ASSUME NEW r \in CoRated PROVE g[r] = 0
      OBVIOUS
    <3>1. g[r] = p[r] * q[r] /\ p[r] \in Nat /\ q[r] \in Nat /\ (p[r] = 0 \/ q[r] = 0)
      BY <1>6, <2>2
    <3> QED
      BY <3>1
  <2> QED
    BY <1>1, <1>6, <2>3, SumOfNats
<1> HIDE DEF apart, squares, k
<1> DEFINE total == n * m
           chance == Sq(Passing) + Sq(Failing)
           num == squares * total - chance * (m - 1)
           den == (m - 1) * (Sq(total) - chance)
           at == apart * total
           B == Passing * Failing
<1>11. /\ chance = Sq(total) <=> B = 0
       /\ den = 2 * ((m - 1) * B)
       /\ num = den - 2 * at
       /\ at \in Nat /\ (at = 0 <=> apart = 0)
       /\ B \in Nat /\ (B # 0 => den > 0)
       /\ total \in Nat /\ num \in Int /\ den \in Int
  <2>1. EvenSums(n, m, Passing, Failing, apart, squares)
    BY <1>1, <1>2, <1>7, <1>8, <1>9 DEF EvenSums
  <2>2. KappaOfSums(n, m, Passing, Failing, apart, squares)
    BY <2>1, FleissArithmetic
  <2> QED
    BY <2>2 DEF KappaOfSums
<1>12. k = IF B = 0 THEN Null ELSE <<num, den>>
  BY <1>5, <1>11
<1>13. apart * m * n = at
  BY <1>1, <1>2, <1>8
<1> HIDE DEF num, den, B, at
<1>14. CASE B = 0
  <2>1. k = Null /\ k[1] = 0 /\ k[2] = 0
    BY <1>12, <1>14 DEF Null
  <2>2. apart = 0
    BY <1>10, <1>14 DEF B
  <2>3. k[1] * B * (m - 1) = k[2] * (B * (m - 1) - at)
    BY <1>2, <1>11, <2>1
  <2> QED
    BY <1>4, <1>13, <1>14, <2>1, <2>2, <2>3 DEF B, m, n, g, k
<1>15. CASE B # 0
  <2>1. k[1] = num /\ k[2] = den /\ den > 0 /\ k # Null
    BY <1>11, <1>12, <1>15 DEF Null
  <2> DEFINE l == B * (m - 1)
  <2>2. l \in Int /\ den = 2 * l
    BY <1>2, <1>11
  <2>3. num * l = den * (l - at)
    <3> HIDE DEF l
    <3>1. num = 2 * (l - at)
      BY <1>11, <2>2
    <3> QED
      BY <1>11, <2>2, <3>1
  <2>4. num * B * (m - 1) = num * l
    BY <1>2, <1>11
  <2>5. num <= den /\ (num = den <=> apart = 0)
    BY <1>11
  <2>6. k[1] * B * (m - 1) = k[2] * (B * (m - 1) - at)
    BY <2>1, <2>3, <2>4
  <2> QED
    BY <1>4, <1>13, <1>15, <2>1, <2>5, <2>6 DEF B, m, n, g, k
<1> QED
  BY <1>14, <1>15

-----------------------------------------------------------------------------
(* Every mark of the table is one of its row, or not given yet.            *)
THEOREM MarksTypeCorrect ==
  ASSUME MarksAssumption
  PROVE  ASpec => []ATypeOK
<1>1. AInit => ATypeOK
  BY DEF AInit, ATypeOK
<1>2. ATypeOK /\ [ANext]_table => ATypeOK'
  <2> SUFFICES ASSUME ATypeOK, NEW r \in Items, NEW i \in Raters, Rate(r, i)
               PROVE  ATypeOK'
    BY DEF ATypeOK, ANext
  <2>1. PICK mk \in Marks[r] : table' = [table EXCEPT ![r][i] = mk]
    BY DEF Rate
  <2>2. mk \in Scored
    BY DEF MarksAssumption, Items
  <2> QED
    BY <2>1, <2>2 DEF ATypeOK
<1> QED
  BY <1>1, <1>2, PTL DEF ASpec

(***************************************************************************)
(* The three rates of the dashboards agree on every row, for any raters and*)
(* any marks: their extremes agree exactly when every two of them do, then *)
(* each is near the others' mean, and of two raters either way.            *)
(***************************************************************************)
THEOREM RatesSpeakOfTheSame ==
  ASSUME MarksAssumption
  PROVE  ASpec => []RatesCohere
BY MarksTypeCorrect, RatesCohereStep, PTL

(* An export of the disputes holds those of the analysis, where every mark *)
(* has an overallScore, and no row the analysis calls agreed.              *)
THEOREM DisputesAreExported ==
  ASSUME MarksAssumption
  PROVE  ASpec => []DisputesMatch
BY MarksTypeCorrect, DisputesMatchStep, PTL

(***************************************************************************)
(* cohensKappa is 1 minus what two raters disagree on over what they would *)
(* by chance, between -1 and 1 and symmetric, for any numbers of rows: the *)
(* lower bound is (x - y)^2 >= 0 for x and y the rows only one passed.     *)
(***************************************************************************)
THEOREM CohenAgreement ==
  ASSUME MarksAssumption
  PROVE  ASpec => []CohenIsKappa
<1>1. CohenIsKappa
  BY CohenStep
<1> QED
  BY <1>1, PTL

(***************************************************************************)
(* On rows of as many raters fleissKappa is 1 minus the pairs that differ  *)
(* over those that would by chance, whichever row comes first, at most 1,  *)
(* and 1 exactly when all agree, for any numbers of rows and raters.       *)
(***************************************************************************)
THEOREM FleissAgreement ==
  ASSUME MarksAssumption
  PROVE  ASpec => []FleissOfEvenRows
<1>1. FleissOfEvenRows
  BY FleissStep
<1> QED
  BY <1>1, PTL

-----------------------------------------------------------------------------
(* The cache.                                                              *)

(* Each call keeps the types and moves at most one job on. *)
LEMMA CacheTypeStep ==
  ASSUME CTypeOK, [CNext]_cacheVars
  PROVE  CTypeOK'
<1> USE CacheAssumption DEF CacheAssumption
<1>0. /\ done \in 0..MaxSubmitted /\ done \in Nat
      /\ cache \in [Keys -> 0..Absent]
      /\ events \in Nat /\ adds \in Nat /\ queued \in Nat /\ events + adds + queued <= done
      /\ warming \subseteq Keys
      /\ fill \in [Fillers -> [pc : {"idle", "compute", "set"}, key : Keys \cup {"none"},
                               value : 0..MaxSubmitted]]
      /\ cfaults \in 0..CacheFaults
      /\ Absent \in Nat /\ MaxSubmitted < Absent
  BY DEF CTypeOK, Absent
<1> DEFINE Filling == [pc : {"idle", "compute", "set"}, key : Keys \cup {"none"},
                       value : 0..MaxSubmitted]
<1>1. cfaults < CacheFaults => cfaults + 1 \in 0..CacheFaults
  BY <1>0
<1>2. Absent \in 0..Absent /\ \A n \in 0..MaxSubmitted : n \in 0..Absent
  BY <1>0
<1>3. CASE Commit
  BY <1>0, <1>3 DEF Commit, CTypeOK
<1>4. CASE DeleteKeys
  BY <1>0, <1>1, <1>2, <1>4 DEF DeleteKeys, CTypeOK
<1>5. CASE AddPrecompute
  BY <1>0, <1>1, <1>5 DEF AddPrecompute, CTypeOK
<1>6. CASE TakePrecompute
  BY <1>0, <1>6 DEF TakePrecompute, CTypeOK
<1>7. ASSUME NEW a \in Fillers, NEW k \in Keys, Ask(a, k)
      PROVE  fill' \in [Fillers -> Filling]
  BY <1>0, <1>7 DEF Ask, Idle
<1>8. ASSUME NEW k \in Keys, Warm(k)
      PROVE  CTypeOK'
  BY <1>0, <1>7, <1>8 DEF Warm, CTypeOK, Fillers
<1>9. ASSUME NEW k \in Keys, Expire(k)
      PROVE  CTypeOK'
  BY <1>0, <1>2, <1>9 DEF Expire, CTypeOK
<1>10. ASSUME NEW k \in Keys, NEW a \in Readers, Get(a, k)
       PROVE  CTypeOK'
  BY <1>0, <1>7, <1>10 DEF Get, CTypeOK, Fillers
<1>11. ASSUME NEW a \in Fillers, Compute(a)
       PROVE  CTypeOK'
  <2>1. fill' \in [Fillers -> Filling]
    BY <1>0, <1>11 DEF Compute
  <2> QED
    BY <1>0, <1>11, <2>1 DEF Compute, CTypeOK
<1>12. ASSUME NEW a \in Fillers, Fill(a)
       PROVE  CTypeOK'
  <2>1. fill' \in [Fillers -> Filling]
    BY <1>0, <1>12 DEF Fill, Idle
  <2>2. cache' \in [Keys -> 0..Absent]
    BY <1>0, <1>2, <1>12 DEF Fill
  <2> QED
    BY <1>0, <1>12, <2>1, <2>2 DEF Fill, CTypeOK
<1>13. CASE UNCHANGED cacheVars
  BY <1>0, <1>13 DEF cacheVars, CTypeOK
<1> QED
  BY <1>3, <1>4, <1>5, <1>6, <1>8, <1>9, <1>10, <1>11, <1>12, <1>13 DEF CNext

(* There are never more precomputes under way than there were submissions. *)
THEOREM CacheTypes == CSpec => []CTypeOK
<1>1. CInit => CTypeOK
  BY CacheAssumption DEF CacheAssumption, CInit, CTypeOK, Idle, Absent
<1> QED
  BY <1>1, CacheTypeStep, PTL DEF CSpec

-----------------------------------------------------------------------------
(* The services together.                                                  *)

(* A step of the services is, for each of them, a step of it or none.      *)
LEMMA StepsOfParts ==
  ASSUME [ServicesNext]_servicesVars
  PROVE  /\ [XNext]_exportVars /\ [CNext]_cacheVars /\ [ANext]_table /\ [JNext]_judged
         /\ [RNext]_rowVars /\ [SNext]_sessionVars /\ [ONext]_orgVars
         /\ UNCHANGED part
<1>1. CASE ServicesNext
  BY <1>1, Zenon DEF ServicesNext
<1>2. CASE UNCHANGED servicesVars
  BY <1>2, Zenon DEF servicesVars
<1> QED
  BY <1>1, <1>2

(* Every behaviour of the services is one of each service, so that all     *)
(* that is proved of a service holds of them together.                     *)
THEOREM ServicesArePart ==
  Services => XSpec /\ CSpec /\ ASpec /\ JSpec /\ RSpec /\ SSpec /\ OSpec /\ [](part \in Parts)
<1>1. ServicesInit => /\ XInit /\ CInit /\ AInit /\ JInit /\ RInit /\ SInit /\ OInit
                      /\ part \in Parts
  BY DEF ServicesInit
<1>2. part \in Parts /\ [ServicesNext]_servicesVars => (part \in Parts)'
  BY StepsOfParts
<1> QED
  BY <1>1, <1>2, StepsOfParts, PTL
     DEF Services, XSpec, CSpec, ASpec, JSpec, RSpec, SSpec, OSpec

(* The variables of whichever service runs keep their types.               *)
THEOREM ServicesTypes == Services => []ServicesTypeOK
<1>1. /\ XTypeOK /\ CTypeOK /\ ATypeOK /\ JTypeOK /\ RTypeOK /\ STypeOK /\ OTypeOK
      /\ part \in Parts
      => ServicesTypeOK
  BY DEF ServicesTypeOK, Parts
<1>2. XSpec => []XTypeOK
  BY ExportTypes, ExportAssumption
<1>3. ASpec => []ATypeOK
  BY MarksTypeCorrect, MarksAssumption
<1>4. RSpec => []RTypeOK
  BY RowTypes, RowsAssumption
<1>5. OSpec => []OTypeOK
  BY MemberTypes, OrganizationAssumption
<1> QED
  BY <1>1, <1>2, <1>3, <1>4, <1>5, CacheTypes, JudgeTypeCorrect, SessionTypes, ServicesArePart, PTL
===============================================================================
