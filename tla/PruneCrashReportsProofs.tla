---------------------- MODULE PruneCrashReportsProofs ----------------------
(***************************************************************************)
(* Proofs about PruneCrashReports, for any finite set of reports, any      *)
(* sizes and limits and any number of passes.                              *)
(***************************************************************************)
EXTENDS PruneCrashReports, FiniteSetTheorems, WellFoundedInduction, TLAPS

USE PruneAssumption

----------------------------------------------------------------------------
(***************************************************************************)
(* Sums over finite sets.  SumFunctionOnSet() is a function that is        *)
(* defined by recursion on the subsets of its set; what it is for every    *)
(* set is shown by induction on their number of elements.                  *)
(***************************************************************************)

\* A set of naturals has a smallest one.
LEMMA SmallestOne ==
    ASSUME NEW T, T \subseteq Nat, T # {}
    PROVE  \E x \in T : \A y \in T : x <= y
<1>1. PICK x \in T : \A y \in T : ~(<<y, x>> \in OpToRel(<, Nat))
  BY NatLessThanWellFounded, WFMin, Zenon
<1>2. ASSUME NEW y \in T PROVE x <= y
  <2>1. x \in Nat /\ y \in Nat
    OBVIOUS
  <2>2. y < x => <<y, x>> \in OpToRel(<, Nat)
    BY <2>1 DEF OpToRel
  <2>3. ~(y < x)
    BY <1>1, <2>2, Zenon
  <2> QED
    BY <2>1, <2>3
<1> QED
  BY <1>2

\* Induction on the subsets of a finite set: all of them are in P if the empty one is, and
\* every other one that is in P whenever all those with one element less are.
LEMMA SubsetInduction ==
    ASSUME NEW R, IsFiniteSet(R), NEW P, {} \in P,
           \A s \in SUBSET R : s # {} /\ (\A x \in s : s \ {x} \in P) => s \in P
    PROVE  \A s \in SUBSET R : s \in P
<1> SUFFICES ASSUME NEW b \in SUBSET R, b \notin P PROVE FALSE
  OBVIOUS
<1> DEFINE T == {Cardinality(s) : s \in {t \in SUBSET R : t \notin P}}
<1>1. \A s \in SUBSET R : IsFiniteSet(s) /\ Cardinality(s) \in Nat
  BY FS_Subset, FS_CardinalityType
<1>2. T \subseteq Nat /\ T # {}
  BY <1>1
<1>3. PICK n \in T : \A m \in T : n <= m
  BY <1>2, SmallestOne
<1>4. PICK s \in SUBSET R : s \notin P /\ n = Cardinality(s)
  OBVIOUS
<1>5. ASSUME NEW x \in s PROVE s \ {x} \in P
  <2>1. Cardinality(s \ {x}) = n - 1 /\ n \in Nat
    BY <1>1, <1>4, FS_RemoveElement
  <2>2. s \ {x} \notin P => n - 1 \in T
    BY <2>1
  <2>3. n - 1 \notin T
    BY <1>3, <2>1
  <2> QED
    BY <2>2, <2>3
<1>6. s # {}
  BY <1>4
<1> QED
  BY <1>4, <1>5, <1>6

\* The element that a set is taken apart at.
First(s) == CHOOSE x \in s : TRUE

\* g is the sum of f on the sets of D.
Sums(g, f, D) == g = [s \in D |-> IF s = {} THEN 0 ELSE f[First(s)] + g[s \ {First(s)}]]

\* SumFunctionOnSet() is one that is chosen for the subsets of its set.
LEMMA SumIsChosen ==
    ASSUME NEW f, NEW S
    PROVE  SumFunctionOnSet(f, S) = (CHOOSE g : Sums(g, f, SUBSET S))[S]
BY DEF SumFunctionOnSet, FoldFunctionOnSet, MapThenFoldSet, Sums, First

\* Such a function exists for the subsets of a finite set: take those with up to n elements,
\* for every n.
LEMMA SumsExist ==
    ASSUME NEW R, IsFiniteSet(R), NEW f \in [R -> Nat]
    PROVE  \E g \in [SUBSET R -> Nat] : Sums(g, f, SUBSET R)
<1> DEFINE D(n) == {s \in SUBSET R : Cardinality(s) <= n}
           T == {n \in Nat : ~\E g \in [D(n) -> Nat] : Sums(g, f, D(n))}
<1>1. \A s \in SUBSET R : /\ IsFiniteSet(s) /\ Cardinality(s) \in Nat
                          /\ Cardinality(s) = 0 <=> s = {}
                          /\ Cardinality(s) <= Cardinality(R)
  BY FS_Subset, FS_CardinalityType, FS_EmptySet
<1>2. ASSUME NEW s \in SUBSET R, s # {}
      PROVE  First(s) \in s /\ s \ {First(s)} \in SUBSET R /\ f[First(s)] \in Nat
             /\ Cardinality(s \ {First(s)}) = Cardinality(s) - 1
  <2>1. First(s) \in s
    BY <1>2 DEF First
  <2> QED
    BY <1>1, <2>1, FS_RemoveElement
<1>3. T = {}
  <2> SUFFICES ASSUME T # {} PROVE FALSE
    OBVIOUS
  <2>1. PICK n \in T : \A m \in T : n <= m
    <3>1. T \subseteq Nat
      OBVIOUS
    <3> QED
      BY <3>1, SmallestOne
  <2>2. n # 0
    <3> SUFFICES ASSUME n = 0 PROVE FALSE
      OBVIOUS
    <3> DEFINE g == [s \in D(n) |-> 0]
    <3>1. \A s \in D(n) : s = {}
      BY <1>1
    <3>2. g \in [D(n) -> Nat] /\ Sums(g, f, D(n))
      BY <3>1 DEF Sums
    <3> QED
      BY <2>1, <3>2
  <2>3. PICK k \in Nat : n = k + 1 /\ k \notin T
    <3>1. n \in Nat
      OBVIOUS
    <3> HIDE DEF T
    <3>2. n - 1 \in Nat /\ n = (n - 1) + 1 /\ n - 1 \notin T
      BY <2>1, <2>2, <3>1
    <3> QED
      BY <3>2
  <2>4. PICK g \in [D(k) -> Nat] : Sums(g, f, D(k))
    BY <2>3
  <2> DEFINE h == [s \in D(n) |-> IF s = {} THEN 0 ELSE f[First(s)] + g[s \ {First(s)}]]
  <2>5. ASSUME NEW s \in D(n), s # {} PROVE s \ {First(s)} \in D(k) /\ f[First(s)] \in Nat
    BY <1>1, <1>2, <2>3, <2>5
  <2>6. \A s \in D(k) : s \in D(n) /\ h[s] = g[s]
    <3>1. \A s \in D(k) : s \in D(n)
      BY <1>1, <2>3
    <3>2. \A s \in D(k) : g[s] = IF s = {} THEN 0 ELSE f[First(s)] + g[s \ {First(s)}]
      BY <2>4 DEF Sums
    <3> QED
      BY <3>1, <3>2
  <2>7. h \in [D(n) -> Nat]
    BY <2>4, <2>5
  <2>8. Sums(h, f, D(n))
    <3> SUFFICES ASSUME NEW s \in D(n), s # {} PROVE g[s \ {First(s)}] = h[s \ {First(s)}]
      BY DEF Sums
    <3> QED
      BY <2>5, <2>6
  <2> QED
    BY <2>1, <2>7, <2>8
<1>4. Cardinality(R) \in Nat /\ D(Cardinality(R)) = SUBSET R
  BY <1>1
<1>5. \E g \in [D(Cardinality(R)) -> Nat] : Sums(g, f, D(Cardinality(R)))
  <2> HIDE DEF D
  <2> QED
    BY <1>3, <1>4
<1> QED
  BY <1>4, <1>5

\* There is one such function, and it does not depend on the set that the subsets are taken of.
LEMMA SumsAgree ==
    ASSUME NEW R, IsFiniteSet(R), NEW f, NEW g, Sums(g, f, SUBSET R),
           NEW Q, R \subseteq Q, NEW h, Sums(h, f, SUBSET Q)
    PROVE  \A s \in SUBSET R : g[s] = h[s]
<1> DEFINE P == {s \in SUBSET R : g[s] = h[s]}
<1>1. {} \in P
  BY DEF Sums
<1>2. ASSUME NEW s \in SUBSET R, s # {}, \A x \in s : s \ {x} \in P PROVE s \in P
  <2>1. First(s) \in s
    BY <1>2 DEF First
  <2>2. g[s \ {First(s)}] = h[s \ {First(s)}]
    BY <1>2, <2>1
  <2> QED
    BY <1>2, <2>2 DEF Sums
<1> HIDE DEF P
<1>3. \A s \in SUBSET R : s \in P
  BY <1>1, <1>2, SubsetInduction
<1> QED
  BY <1>3 DEF P

\* SumFunctionOnSet() is what such a function says.
LEMMA SumIs ==
    ASSUME NEW R, IsFiniteSet(R), NEW f \in [R -> Nat], NEW g, Sums(g, f, SUBSET R), NEW S \in SUBSET R
    PROVE  SumFunctionOnSet(f, S) = g[S]
<1> DEFINE c == CHOOSE h : Sums(h, f, SUBSET S)
           r == [s \in SUBSET S |-> g[s]]
<1>1. Sums(r, f, SUBSET S)
  <2>1. \A s \in SUBSET S : g[s] = IF s = {} THEN 0 ELSE f[First(s)] + g[s \ {First(s)}]
    BY DEF Sums
  <2>2. \A s \in SUBSET S : s \ {First(s)} \in SUBSET S
    OBVIOUS
  <2> QED
    BY <2>1, <2>2 DEF Sums
<1>2. Sums(c, f, SUBSET S)
  <2> HIDE DEF r
  <2> QED
    BY <1>1
<1>3. IsFiniteSet(S)
  BY FS_Subset
<1> HIDE DEF c
<1>4. \A s \in SUBSET S : c[s] = g[s]
  BY <1>2, <1>3, SumsAgree
<1>5. SumFunctionOnSet(f, S) = c[S]
  BY SumIsChosen DEF c
<1> QED
  BY <1>4, <1>5

\* The sum of no numbers is zero,
LEMMA SumOfNone ==
    ASSUME NEW f
    PROVE  SumFunctionOnSet(f, {}) = 0
<1> DEFINE c == CHOOSE h : Sums(h, f, SUBSET {})
           r == [s \in SUBSET {} |-> 0]
<1>1. Sums(r, f, SUBSET {})
  BY DEF Sums
<1>2. Sums(c, f, SUBSET {})
  <2> HIDE DEF r
  <2> QED
    BY <1>1
<1> HIDE DEF c
<1>3. c[{}] = 0
  BY <1>2 DEF Sums
<1> QED
  BY <1>3, SumIsChosen DEF c

\* a sum of numbers is a number, and it is the sum without any one of them, and that one.
LEMMA SumProperties ==
    ASSUME NEW R, IsFiniteSet(R), NEW f \in [R -> Nat]
    PROVE  /\ \A S \in SUBSET R : SumFunctionOnSet(f, S) \in Nat
           /\ \A S \in SUBSET R : \A x \in S :
                SumFunctionOnSet(f, S) = f[x] + SumFunctionOnSet(f, S \ {x})
<1>1. PICK g \in [SUBSET R -> Nat] : Sums(g, f, SUBSET R)
  BY SumsExist
<1>2. \A S \in SUBSET R : SumFunctionOnSet(f, S) = g[S]
  BY <1>1, SumIs
<1> DEFINE P == {s \in SUBSET R : \A x \in s : g[s] = f[x] + g[s \ {x}]}
<1>3. {} \in P
  OBVIOUS
<1>4. ASSUME NEW s \in SUBSET R, s # {}, \A x \in s : s \ {x} \in P PROVE s \in P
  <2>1. PICK y \in s : g[s] = f[y] + g[s \ {y}]
    <3>1. First(s) \in s
      BY <1>4 DEF First
    <3> QED
      BY <1>1, <1>4, <3>1 DEF Sums
  <2>2. ASSUME NEW x \in s, x # y PROVE g[s] = f[x] + g[s \ {x}]
    <3>1. PICK c \in Nat : c = g[(s \ {y}) \ {x}]
      BY <1>1
    <3>2. g[s \ {y}] = f[x] + c
      BY <1>4, <2>2, <3>1
    <3>3. (s \ {x}) \ {y} = (s \ {y}) \ {x}
      OBVIOUS
    <3>4. g[s \ {x}] = f[y] + g[(s \ {x}) \ {y}]
      BY <1>4, <2>2
    <3>5. g[s \ {x}] = f[y] + c
      BY <3>1, <3>3, <3>4
    <3>6. f[x] \in Nat /\ f[y] \in Nat
      OBVIOUS
    <3>7. g[s] = f[y] + (f[x] + c)
      BY <2>1, <3>2
    <3>8. f[y] + (f[x] + c) = f[x] + (f[y] + c)
      BY <3>6
    <3> QED
      BY <3>5, <3>7, <3>8
  <2> QED
    BY <2>1, <2>2
<1> HIDE DEF P
<1>5. \A s \in SUBSET R : s \in P
  BY <1>3, <1>4, SubsetInduction
<1>6. ASSUME NEW S \in SUBSET R, NEW x \in S
      PROVE  SumFunctionOnSet(f, S) = f[x] + SumFunctionOnSet(f, S \ {x})
  <2>1. g[S] = f[x] + g[S \ {x}]
    BY <1>5 DEF P
  <2> QED
    BY <1>2, <2>1
<1> QED
  BY <1>1, <1>2, <1>6

\* One element more,
LEMMA SumAdd ==
    ASSUME NEW R, IsFiniteSet(R), NEW f \in [R -> Nat], NEW S \in SUBSET R, NEW x \in R, x \notin S
    PROVE  SumFunctionOnSet(f, S \cup {x}) = SumFunctionOnSet(f, S) + f[x]
<1>1. (S \cup {x}) \ {x} = S /\ S \cup {x} \in SUBSET R
  OBVIOUS
<1>2. SumFunctionOnSet(f, S \cup {x}) = f[x] + SumFunctionOnSet(f, S)
  BY <1>1, SumProperties
<1>3. SumFunctionOnSet(f, S) \in Nat /\ f[x] \in Nat
  BY SumProperties
<1> QED
  BY <1>2, <1>3

\* any number of them,
LEMMA SumMore ==
    ASSUME NEW R, IsFiniteSet(R), NEW f \in [R -> Nat], NEW Q \in SUBSET R, NEW S \in SUBSET Q
    PROVE  SumFunctionOnSet(f, S) <= SumFunctionOnSet(f, Q)
<1> DEFINE P == {s \in SUBSET R : S \subseteq s => SumFunctionOnSet(f, S) <= SumFunctionOnSet(f, s)}
<1>1. \A s \in SUBSET R : SumFunctionOnSet(f, s) \in Nat
  BY SumProperties
<1>2. {} \in P
  <2>1. S \subseteq {} => S = {}
    OBVIOUS
  <2> QED
    BY <1>1, <2>1
<1>3. ASSUME NEW s \in SUBSET R, s # {}, \A x \in s : s \ {x} \in P PROVE s \in P
  <2> SUFFICES ASSUME S \subseteq s, S # s PROVE SumFunctionOnSet(f, S) <= SumFunctionOnSet(f, s)
    BY <1>1
  <2>1. PICK x \in s : x \notin S
    OBVIOUS
  <2>2. SumFunctionOnSet(f, S) <= SumFunctionOnSet(f, s \ {x})
    BY <1>3, <2>1
  <2>3. SumFunctionOnSet(f, s) = f[x] + SumFunctionOnSet(f, s \ {x})
    BY SumProperties
  <2>4. f[x] \in Nat /\ SumFunctionOnSet(f, s \ {x}) \in Nat /\ SumFunctionOnSet(f, S) \in Nat
    BY <1>1
  <2> QED
    BY <2>2, <2>3, <2>4
<1> HIDE DEF P
<1>4. \A s \in SUBSET R : s \in P
  BY <1>2, <1>3, SubsetInduction
<1> QED
  BY <1>4 DEF P

\* and elements that are at most k times as large.
LEMMA SumTimes ==
    ASSUME NEW R, IsFiniteSet(R), NEW f \in [R -> Nat], NEW h \in [R -> Nat], NEW k \in Nat,
           \A x \in R : f[x] <= h[x] * k, NEW S \in SUBSET R
    PROVE  SumFunctionOnSet(f, S) <= SumFunctionOnSet(h, S) * k
<1> DEFINE P == {s \in SUBSET R : SumFunctionOnSet(f, s) <= SumFunctionOnSet(h, s) * k}
<1>1. \A s \in SUBSET R : SumFunctionOnSet(f, s) \in Nat /\ SumFunctionOnSet(h, s) \in Nat
  BY SumProperties
<1>2. {} \in P
  <2>1. SumFunctionOnSet(f, {}) = 0 /\ SumFunctionOnSet(h, {}) = 0
    BY SumOfNone
  <2> QED
    BY <2>1
<1>3. ASSUME NEW s \in SUBSET R, s # {}, \A x \in s : s \ {x} \in P PROVE s \in P
  <2>1. PICK x \in s : TRUE
    BY <1>3
  <2>2. SumFunctionOnSet(f, s) = f[x] + SumFunctionOnSet(f, s \ {x})
    BY SumProperties
  <2>3. SumFunctionOnSet(h, s) = h[x] + SumFunctionOnSet(h, s \ {x})
    BY SumProperties
  <2>4. SumFunctionOnSet(f, s \ {x}) <= SumFunctionOnSet(h, s \ {x}) * k
    BY <1>3
  <2>5. \A a, b, c, d \in Nat : a <= c * k /\ b <= d * k => a + b <= (c + d) * k
    OBVIOUS
  <2>6. f[x] \in Nat /\ h[x] \in Nat /\ f[x] <= h[x] * k
    OBVIOUS
  <2>7. SumFunctionOnSet(f, s \ {x}) \in Nat /\ SumFunctionOnSet(h, s \ {x}) \in Nat
    BY <1>1
  <2> QED
    BY <2>2, <2>3, <2>4, <2>5, <2>6, <2>7
<1> HIDE DEF P
<1>4. \A s \in SUBSET R : s \in P
  BY <1>2, <1>3, SubsetInduction
<1> QED
  BY <1>4 DEF P

----------------------------------------------------------------------------
(***************************************************************************)
(* The invariant.  A report that is pruned for its size leaves measured    *)
(* above the limit, and one that is pruned for its age is followed by      *)
(* older ones only: whatever comes after it is pruned too.                 *)
(***************************************************************************)

\* The reports that the pass has done with, and those of them that it left.
Done == {u \in listed : copies[u] = 0}
Left == {u \in Done : place[u] # "gone"}

\* all_reports has the listed reports; none is lost between the two listings.
Listing ==
    /\ \A u \in Reports : copies[u] > 0 => u \in listed
    /\ \A u \in listed : place[u] # "unborn"
    /\ pc = "wait" => \A u \in Reports : copies[u] = 0
    /\ pc = "completed" => \A u \in listed : copies[u] = 1 /\ place[u] # "gone"

\* Whatever is still to come is no newer than what is done with.
NewestFirst == \A u \in Done, v \in listed : copies[v] > 0 => created[v] <= created[u]

\* What is left fits, and so far only the oldest ones have gone.
Enforced ==
    ~failed =>
      /\ \A u \in listed : place[u] = "gone" => measured > MaxSizeKB \/ created[u] < oldest
      /\ \A u \in Done, v \in listed :
           created[u] < created[v] /\ place[v] = "gone" => place[u] = "gone"
      /\ \A u \in Left : created[u] >= oldest
      /\ SumFunctionOnSet(sizesInKB, Left) <= MaxSizeKB
      /\ SumFunctionOnSet(sizesInKB, Left) <= measured

\* The first pass is made when the condition is constructed, and as long as nobody disturbs it
\* every report is counted once.
FirstPass ==
    /\ oldest = DayOf(StartTime - MaxAgeDays * Day)
    /\ passes = 0 => measured = 0 /\ pc = "wait" /\ (MaxPasses > 0 => clock = StartTime)
    /\ passes = 1 => began = StartTime /\ (pc = "completed" => measured = 0)
    /\ disturbances = 0 =>
         /\ pc = "completed" => \A u \in listed : place[u] = "pending"
         /\ \A u \in Reports : copies[u] <= 1
         /\ passes = 1 => measured = SumFunctionOnSet(sizesInKB, Done)

\* The inductive invariant.
PruneInv == PruneTypeOK /\ Listing /\ NewestFirst /\ Enforced /\ FirstPass

\* Rounding down.
LEMMA DivBounds ==
    ASSUME NEW a \in Int, NEW d \in Nat \ {0}
    PROVE  /\ a \div d \in Int /\ (a \div d) * d <= a /\ a < (a \div d) * d + d
           /\ a \in Nat => a \div d \in Nat
OBVIOUS

\* A report is no larger than its kilobytes.
LEMMA SizesInKB ==
    ASSUME PruneTypeOK
    PROVE  /\ sizesInKB \in [Reports -> Nat] /\ size \in [Reports -> Nat]
           /\ \A u \in Reports : /\ sizesInKB[u] = SizeInKB(u) /\ SizeInKB(u) \in Nat
                                 /\ size[u] <= sizesInKB[u] * Kilobyte
<1>1. size \in [Reports -> Nat]
  BY DEF PruneTypeOK
<1>2. ASSUME NEW u \in Reports PROVE SizeInKB(u) \in Nat /\ size[u] <= SizeInKB(u) * Kilobyte
  <2> DEFINE a == size[u] + Kilobyte - 1
             q == a \div Kilobyte
  <2>1. a \in Nat /\ size[u] \in Nat
    BY <1>1
  <2> HIDE DEF a
  <2>2. q \in Nat /\ a < q * Kilobyte + Kilobyte
    BY <2>1, DivBounds
  <2>3. q * Kilobyte \in Int
    BY <2>2
  <2> HIDE DEF q
  <2>4. size[u] <= q * Kilobyte
    BY <2>1, <2>2, <2>3 DEF a
  <2> QED
    BY <2>2, <2>4 DEF SizeInKB, a, q
<1> QED
  BY <1>1, <1>2 DEF sizesInKB

\* The sum of some reports' kilobytes.
LEMMA KilobytesSum ==
    ASSUME PruneTypeOK
    PROVE  /\ \A S \in SUBSET Reports : SumFunctionOnSet(sizesInKB, S) \in Nat
           /\ \A S \in SUBSET Reports, u \in Reports :
                u \notin S => SumFunctionOnSet(sizesInKB, S \cup {u})
                              = SumFunctionOnSet(sizesInKB, S) + SizeInKB(u)
           /\ \A S \in SUBSET Reports : \A Q \in SUBSET S :
                SumFunctionOnSet(sizesInKB, Q) <= SumFunctionOnSet(sizesInKB, S)
<1>1. /\ sizesInKB \in [Reports -> Nat] /\ IsFiniteSet(Reports)
      /\ \A u \in Reports : sizesInKB[u] = SizeInKB(u)
  BY SizesInKB
<1> HIDE DEF sizesInKB
<1>2. \A S \in SUBSET Reports, u \in Reports :
        u \notin S => SumFunctionOnSet(sizesInKB, S \cup {u})
                      = SumFunctionOnSet(sizesInKB, S) + sizesInKB[u]
  BY <1>1, SumAdd
<1>3. \A S \in SUBSET Reports : \A Q \in SUBSET S :
        SumFunctionOnSet(sizesInKB, Q) <= SumFunctionOnSet(sizesInKB, S)
  BY <1>1, SumMore
<1> QED
  BY <1>1, <1>2, <1>3, SumProperties

\* The handler starts.
LEMMA PruneStart == PruneInit => PruneInv
<1> SUFFICES ASSUME PruneInit PROVE PruneInv
  OBVIOUS
<1>1. DayOf(StartTime - MaxAgeDays * Day) \in Int
  <2>1. StartTime - MaxAgeDays * Day \in Int
    OBVIOUS
  <2>2. (StartTime - MaxAgeDays * Day) \div Day \in Int
    BY <2>1, DivBounds
  <2> QED
    BY <2>2 DEF DayOf
<1>2. PruneTypeOK
  <2>1. copies \in [Reports -> 0..2] /\ created \in [Reports -> 0..MaxClock]
    BY DEF PruneInit
  <2>2. oldest \in Int /\ clock \in 0..MaxClock
    BY <1>1 DEF PruneInit
  <2>3. /\ passes \in 0..MaxPasses /\ disturbances \in 0..MaxDisturbances /\ began \in 0..MaxClock
        /\ measured \in Nat
    BY DEF PruneInit
  <2>4. place \in [Reports -> {"unborn", "pending", "completed", "gone"}]
    BY DEF PruneInit
  <2>5. /\ pc \in {"wait", "completed", "evaluate"} /\ size \in [Reports -> Sizes]
        /\ listed \subseteq Reports /\ failed \in BOOLEAN
    BY DEF PruneInit
  <2> QED
    BY <2>1, <2>2, <2>3, <2>4, <2>5 DEF PruneTypeOK
<1>3. Done = {} /\ Left = {} /\ SumFunctionOnSet(sizesInKB, {}) = 0
  BY SumOfNone DEF PruneInit, Done, Left
<1>4. Listing /\ NewestFirst
  BY <1>3 DEF PruneInit, Listing, NewestFirst
<1>5. Enforced
  BY <1>3 DEF PruneInit, Enforced
<1>6. FirstPass
  BY <1>3 DEF PruneInit, FirstPass
<1> QED
  BY <1>2, <1>4, <1>5, <1>6 DEF PruneInv

\* Whatever does not evaluate a report leaves the pass alone.
LEMMA PassStays ==
    ASSUME PruneInv, UNCHANGED <<size, oldest, measured, copies, listed, failed>>,
           \A u \in listed : /\ place'[u] = "gone" <=> place[u] = "gone"
                             /\ place'[u] # "unborn" /\ created'[u] = created[u]
    PROVE  NewestFirst' /\ Enforced' /\ Done' = Done /\ sizesInKB' = sizesInKB
<1>1. Done' = Done /\ Done \subseteq listed
  BY DEF Done
<1>2. Left' = Left /\ Left \subseteq listed
  BY <1>1 DEF Left
<1>3. sizesInKB' = sizesInKB
  BY DEF sizesInKB, SizeInKB
<1>4. NewestFirst'
  BY <1>1 DEF PruneInv, NewestFirst
<1>5. Enforced'
  BY <1>1, <1>2, <1>3 DEF PruneInv, Enforced
<1> QED
  BY <1>1, <1>3, <1>4, <1>5

\* Time passes; it does not pass while the first pass is due.
LEMMA TickInv == ASSUME PruneInv, Tick PROVE PruneInv'
<1>1. NewestFirst' /\ Enforced' /\ Done' = Done /\ sizesInKB' = sizesInKB
  BY PassStays DEF Tick, PruneInv, Listing, reports, condition
<1>2. PruneTypeOK' /\ Listing'
  BY DEF Tick, PruneInv, PruneTypeOK, Listing, reports, condition
<1>3. FirstPass'
  <2>1. ~(passes = 0 /\ MaxPasses > 0)
    BY DEF Tick, PruneInv, PruneTypeOK, FirstPass, Due
  <2> QED
    BY <1>1, <2>1 DEF Tick, PruneInv, FirstPass, reports, condition
<1> QED
  BY <1>1, <1>2, <1>3 DEF PruneInv

\* A report is added: it is not one that was listed.
LEMMA AddReportInv == ASSUME PruneInv, NEW u \in Reports, AddReport(u) PROVE PruneInv'
<1>1. \A v \in listed : place'[v] = place[v] /\ created'[v] = created[v] /\ place[v] # "unborn"
  BY DEF AddReport, PruneInv, PruneTypeOK, Listing
<1>2. NewestFirst' /\ Enforced' /\ Done' = Done /\ sizesInKB' = sizesInKB
  BY <1>1, PassStays DEF AddReport, condition
<1>3. PruneTypeOK'
  BY DEF AddReport, PruneInv, PruneTypeOK, condition
<1>4. Listing'
  BY <1>1 DEF AddReport, PruneInv, Listing, condition
<1>5. FirstPass'
  BY <1>1, <1>2 DEF AddReport, PruneInv, FirstPass, condition
<1> QED
  BY <1>2, <1>3, <1>4, <1>5 DEF PruneInv

\* A report is moved: it is not gone.
LEMMA MoveInv == ASSUME PruneInv, NEW u \in Reports, Move(u) PROVE PruneInv'
<1>1. \A v \in listed : /\ place'[v] = "gone" <=> place[v] = "gone"
                        /\ place'[v] # "unborn" /\ created'[v] = created[v]
  BY DEF Move, PruneInv, PruneTypeOK, Listing
<1>2. NewestFirst' /\ Enforced' /\ Done' = Done /\ sizesInKB' = sizesInKB
  BY <1>1, PassStays DEF Move, condition
<1>3. PruneTypeOK'
  BY DEF Move, Disturb, PruneInv, PruneTypeOK, condition
<1>4. Listing'
  BY <1>1 DEF Move, PruneInv, Listing, condition
<1>5. disturbances' # 0
  BY DEF Move, Disturb, PruneInv, PruneTypeOK
<1>6. FirstPass'
  BY <1>2, <1>5 DEF Move, PruneInv, FirstPass, condition
<1> QED
  BY <1>2, <1>3, <1>4, <1>6 DEF PruneInv

\* The pass is over.
LEMMA EndPassInv == ASSUME PruneInv, EndPass PROVE PruneInv'
<1>1. NewestFirst' /\ Enforced' /\ Done' = Done /\ sizesInKB' = sizesInKB
  BY PassStays DEF EndPass, PruneInv, Listing, reports, condition
<1>2. PruneTypeOK' /\ Listing'
  BY DEF EndPass, PruneInv, PruneTypeOK, Listing, reports, condition
<1>3. FirstPass'
  BY <1>1 DEF EndPass, PruneInv, FirstPass, reports, condition
<1> QED
  BY <1>1, <1>2, <1>3 DEF PruneInv

\* What is listed is in its state, and only a disturbance hides a report.
LEMMA Found ==
    ASSUME PruneTypeOK, NEW state, NEW found \in SUBSET Reports, ReportsInState(state, found)
    PROVE  /\ \A u \in found : place[u] = state
           /\ disturbances' \in 0 .. MaxDisturbances
           /\ disturbances' = 0 => disturbances = 0
BY DEF ReportsInState, Disturb, PruneTypeOK

\* Nothing has been evaluated of what was just listed.
LEMMA NothingDone ==
    ASSUME PruneTypeOK', \A u \in listed' : copies'[u] > 0, \A u \in listed' : place'[u] # "gone"
    PROVE  NewestFirst' /\ Enforced' /\ Done' = {} /\ SumFunctionOnSet(sizesInKB, {})' = 0
<1>1. Done' = {} /\ Left' = {}
  BY DEF Done, Left
<1>2. SumFunctionOnSet(sizesInKB, {})' = 0
  BY SumOfNone
<1>3. NewestFirst'
  BY <1>1 DEF NewestFirst
<1>4. Enforced'
  BY <1>1, <1>2 DEF Enforced, PruneTypeOK
<1> QED
  BY <1>1, <1>2, <1>3, <1>4

\* A pass begins.
LEMMA GetPendingReportsInv == ASSUME PruneInv, GetPendingReports PROVE PruneInv'
<1>1. PICK found \in SUBSET Reports :
        /\ ReportsInState("pending", found) /\ listed' = found
        /\ copies' = [u \in Reports |-> IF u \in found THEN 1 ELSE 0]
  BY DEF GetPendingReports
<1>2. /\ \A u \in found : place[u] = "pending"
      /\ disturbances' \in 0 .. MaxDisturbances /\ (disturbances' = 0 => disturbances = 0)
  BY <1>1, Found DEF PruneInv
<1>3. PruneTypeOK'
  <2>1. copies' \in [Reports -> 0..2] /\ listed' \subseteq Reports
    BY <1>1
  <2>2. passes' \in 0..MaxPasses /\ began' \in 0..MaxClock
    BY DEF GetPendingReports, PruneInv, PruneTypeOK
  <2> QED
    BY <1>2, <2>1, <2>2 DEF GetPendingReports, PruneInv, PruneTypeOK, reports, condition
<1>4. Listing' /\ (\A u \in listed' : copies'[u] > 0 /\ place'[u] # "gone")
  BY <1>1, <1>2 DEF GetPendingReports, Listing, reports
<1>5. NewestFirst' /\ Enforced' /\ Done' = {} /\ SumFunctionOnSet(sizesInKB, {})' = 0
  BY <1>3, <1>4, NothingDone
<1>6. FirstPass'
  <2>1. passes' = passes + 1 /\ passes \in Nat /\ began' = clock /\ passes < MaxPasses /\ pc' = "completed"
        /\ UNCHANGED <<oldest, measured, place>>
    BY DEF GetPendingReports, PruneInv, PruneTypeOK, reports, condition
  <2>2. passes' = 1 => measured' = 0 /\ began' = StartTime
    BY <2>1 DEF PruneInv, FirstPass
  <2>3. SumFunctionOnSet(sizesInKB, Done)' = 0
    BY <1>5
  <2>4. \A u \in Reports : copies'[u] <= 1
    BY <1>1
  <2> QED
    BY <1>1, <1>2, <2>1, <2>2, <2>3, <2>4 DEF PruneInv, FirstPass
<1> QED
  BY <1>3, <1>4, <1>5, <1>6 DEF PruneInv

\* A listing fails, and the pass with it.
LEMMA ListingFailedInv == ASSUME PruneInv, ListingFailed PROVE PruneInv'
<1>1. disturbances' \in 0 .. MaxDisturbances /\ disturbances' # 0
  BY DEF ListingFailed, Disturb, PruneInv, PruneTypeOK
<1>2. PruneTypeOK'
  BY <1>1 DEF ListingFailed, PruneInv, PruneTypeOK, reports, condition
<1>3. Listing'
  BY DEF ListingFailed, Listing
<1>4. NewestFirst' /\ Enforced'
  <2>1. listed' = {}
    BY DEF ListingFailed
  <2> QED
    BY <1>2, <2>1, NothingDone
<1>5. FirstPass'
  BY <1>1 DEF ListingFailed, PruneInv, FirstPass, reports, condition
<1> QED
  BY <1>2, <1>3, <1>4, <1>5 DEF PruneInv

\* The second listing: a report that was moved meanwhile is there twice.
LEMMA GetCompletedReportsInv == ASSUME PruneInv, GetCompletedReports PROVE PruneInv'
<1>1. PICK found \in SUBSET Reports :
        /\ ReportsInState("completed", found) /\ listed' = listed \cup found
        /\ copies' = [u \in Reports |-> IF u \in found THEN copies[u] + 1 ELSE copies[u]]
  BY DEF GetCompletedReports
<1>2. /\ \A u \in found : place[u] = "completed"
      /\ disturbances' \in 0 .. MaxDisturbances /\ (disturbances' = 0 => disturbances = 0)
  BY <1>1, Found DEF PruneInv
<1>3. /\ pc = "completed" /\ pc' = "evaluate" /\ listed \subseteq Reports /\ copies \in [Reports -> 0..2]
      /\ UNCHANGED <<reports, clock, condition, passes, began, failed>>
      /\ \A u \in Reports : copies[u] > 0 => u \in listed
      /\ \A u \in listed : copies[u] = 1 /\ place[u] \notin {"unborn", "gone"}
  BY DEF GetCompletedReports, PruneInv, PruneTypeOK, Listing
<1>4. \A u \in Reports : /\ copies'[u] \in 0..2
                         /\ copies'[u] > 0 <=> u \in listed'
  BY <1>1, <1>3
<1>5. PruneTypeOK'
  <2>1. copies' \in [Reports -> 0..2]
    BY <1>1, <1>4
  <2> QED
    BY <1>1, <1>2, <1>3, <2>1 DEF PruneInv, PruneTypeOK, reports, condition
<1>6. Listing' /\ \A u \in listed' : copies'[u] > 0 /\ place'[u] # "gone"
  BY <1>1, <1>2, <1>3, <1>4 DEF Listing, reports
<1>7. NewestFirst' /\ Enforced' /\ Done' = {} /\ SumFunctionOnSet(sizesInKB, {})' = 0
  BY <1>5, <1>6, NothingDone
<1>8. FirstPass'
  <2>1. SumFunctionOnSet(sizesInKB, Done)' = 0
    BY <1>7
  <2>2. disturbances' = 0 => \A u \in Reports : copies'[u] <= 1
    BY <1>1, <1>2, <1>3 DEF PruneInv, FirstPass
  <2> QED
    BY <1>3, <2>1, <2>2 DEF PruneInv, FirstPass, condition
<1> QED
  BY <1>5, <1>6, <1>7, <1>8 DEF PruneInv
\* One report is evaluated.
LEMMA EvaluateReportInv == ASSUME PruneInv, NEW w \in Reports, EvaluateReport(w) PROVE PruneInv'
<1>1. /\ PruneTypeOK /\ Listing /\ NewestFirst /\ Enforced /\ FirstPass
      /\ pc = "evaluate" /\ copies[w] > 0 /\ w \in listed /\ w \notin Done
      /\ \A v \in Reports : copies[v] > 0 => created[v] <= created[w]
      /\ measured' = measured + SizeInKB(w)
      /\ copies' = [copies EXCEPT ![w] = @ - 1]
      /\ UNCHANGED <<created, size, clock, oldest, pc, passes, began, listed>>
  BY DEF PruneInv, Listing, EvaluateReport, IsNext, Done
<1>2. /\ measured \in Nat /\ SizeInKB(w) \in Nat /\ measured' \in Nat /\ measured <= measured'
      /\ copies[w] \in 1..2 /\ copies' \in [Reports -> 0..2] /\ copies'[w] = copies[w] - 1
      /\ \A v \in Reports \ {w} : copies'[v] = copies[v]
      /\ listed \subseteq Reports /\ created \in [Reports -> 0..MaxClock] /\ oldest \in Int
  <2>1. measured \in Nat /\ SizeInKB(w) \in Nat
    BY <1>1, SizesInKB DEF PruneTypeOK
  <2>2. copies \in [Reports -> 0..2] /\ copies[w] \in 1..2
    BY <1>1 DEF PruneTypeOK
  <2>3. copies[w] - 1 \in 0..2
    BY <2>2
  <2>4. copies' \in [Reports -> 0..2] /\ copies'[w] = copies[w] - 1
    BY <1>1, <2>2, <2>3
  <2> QED
    BY <1>1, <2>1, <2>2, <2>4 DEF PruneTypeOK
<1>3. /\ place' \in [Reports -> {"unborn", "pending", "completed", "gone"}]
      /\ \A v \in Reports \ {w} : place'[v] = place[v]
      /\ place'[w] \in {place[w], "gone"}
      /\ disturbances' \in 0..MaxDisturbances /\ (disturbances' = 0 => disturbances = 0)
      /\ failed' \in BOOLEAN
      /\ ~failed' => /\ ~failed
                     /\ IF ShouldPruneReport(w) THEN place'[w] = "gone" ELSE place' = place
      /\ ~ShouldPruneReport(w) => place' = place
  <2>1. CASE ~ShouldPruneReport(w)
    BY <1>1, <2>1 DEF EvaluateReport, PruneTypeOK
  <2>2. CASE ShouldPruneReport(w)
    <3>1. \/ place' = [place EXCEPT ![w] = "gone"] /\ UNCHANGED <<disturbances, failed>>
          \/ Disturb /\ failed' = TRUE /\ UNCHANGED place
      BY <2>2 DEF EvaluateReport, DeleteReport
    <3>2. /\ place \in [Reports -> {"unborn", "pending", "completed", "gone"}] /\ failed \in BOOLEAN
          /\ disturbances \in 0..MaxDisturbances
      BY <1>1 DEF PruneTypeOK
    <3>3. disturbances' \in 0..MaxDisturbances /\ (disturbances' = 0 => disturbances = 0)
      BY <3>1, <3>2 DEF Disturb
    <3>4. CASE place' = [place EXCEPT ![w] = "gone"] /\ UNCHANGED failed
      BY <2>2, <3>2, <3>3, <3>4
    <3>5. CASE failed' = TRUE /\ UNCHANGED place
      BY <2>2, <3>2, <3>3, <3>5
    <3> QED
      BY <3>1, <3>4, <3>5
  <2> QED
    BY <2>1, <2>2
<1>4. PruneTypeOK'
  BY <1>1, <1>2, <1>3 DEF PruneTypeOK
<1>5. Listing'
  <2>1. \A u \in Reports : copies'[u] > 0 => u \in listed'
    BY <1>1, <1>2 DEF Listing
  <2>2. \A u \in listed' : place'[u] # "unborn"
    BY <1>1, <1>2, <1>3 DEF Listing
  <2> QED
    BY <1>1, <2>1, <2>2 DEF Listing
<1>6. Done' = IF copies[w] = 1 THEN Done \cup {w} ELSE Done
  <2>1. \A u \in listed \ {w} : u \in Done' <=> u \in Done
    BY <1>1, <1>2 DEF Done
  <2>2. w \in Done' <=> copies[w] = 1
    BY <1>1, <1>2 DEF Done
  <2>3. Done \subseteq listed /\ Done' \subseteq listed
    BY <1>1 DEF Done
  <2> QED
    BY <1>1, <2>1, <2>2, <2>3
<1>7. NewestFirst'
  <2> SUFFICES ASSUME NEW u \in Done', NEW v \in listed, copies'[v] > 0
               PROVE  created[v] <= created[u]
    BY <1>1 DEF NewestFirst
  <2>1. copies[v] > 0
    BY <1>1, <1>2
  <2>2. CASE u = w
    BY <1>1, <1>2, <2>1, <2>2
  <2>3. CASE u # w
    BY <1>1, <1>6, <2>1, <2>3 DEF NewestFirst
  <2> QED
    BY <2>2, <2>3
<1>8. sizesInKB' = sizesInKB
  BY <1>1 DEF sizesInKB, SizeInKB
<1>9. Done \subseteq Reports /\ Left \subseteq Reports /\ w \notin Left
  BY <1>1, <1>2 DEF Done, Left
<1>10. Enforced'
  <2> SUFFICES ASSUME ~failed' PROVE Enforced'
    BY DEF Enforced
  <2>1. /\ \A u \in listed : place[u] = "gone" => measured > MaxSizeKB \/ created[u] < oldest
        /\ \A u \in Done, v \in listed :
             created[u] < created[v] /\ place[v] = "gone" => place[u] = "gone"
        /\ \A u \in Left : created[u] >= oldest
        /\ SumFunctionOnSet(sizesInKB, Left) <= MaxSizeKB
        /\ SumFunctionOnSet(sizesInKB, Left) <= measured
        /\ IF ShouldPruneReport(w) THEN place'[w] = "gone" ELSE place' = place
    BY <1>1, <1>3 DEF Enforced
  <2>2. ShouldPruneReport(w) <=> measured' > MaxSizeKB \/ created[w] < oldest
    BY <1>1 DEF ShouldPruneReport
  <2>3. ASSUME NEW u \in listed, place'[u] = "gone"
        PROVE  measured' > MaxSizeKB \/ created[u] < oldest
    <3>1. CASE place[u] = "gone"
      BY <1>2, <2>1, <3>1
    <3>2. CASE place[u] # "gone"
      BY <1>2, <1>3, <2>1, <2>2, <2>3, <3>2
    <3> QED
      BY <3>1, <3>2
  <2>4. ASSUME NEW u \in Done', NEW v \in listed, created[u] < created[v], place'[v] = "gone"
        PROVE  place'[u] = "gone"
    <3>1. CASE u = w
      <4>1. created[w] \in Int /\ created[v] \in Int /\ oldest \in Int
        BY <1>2
      <4>2. measured' > MaxSizeKB \/ created[w] < oldest
        BY <2>3, <2>4, <3>1, <4>1
      <4> QED
        BY <2>1, <2>2, <3>1, <4>2
    <3>2. CASE u # w
      <4>1. u \in Done /\ u \in Reports
        BY <1>6, <1>9, <3>2
      <4>2. v # w
        <5>1. created[w] <= created[u]
          BY <1>1, <4>1 DEF NewestFirst
        <5>2. created[w] \in Int /\ created[u] \in Int
          BY <1>2, <4>1
        <5> QED
          BY <2>4, <5>1, <5>2
      <4>3. place[v] = "gone"
        BY <1>2, <1>3, <2>4, <4>2
      <4>4. place[u] = "gone"
        BY <2>1, <2>4, <4>1, <4>3
      <4> QED
        BY <1>3, <3>2, <4>1, <4>4
    <3> QED
      BY <3>1, <3>2
  <2>5. CASE ShouldPruneReport(w) \/ copies[w] # 1 \/ place[w] = "gone"
    <3>1. Left' = Left
      <4>1. ASSUME NEW u \in Done' \cup Done PROVE u \in Left' <=> u \in Left
        <5>1. CASE u = w
          BY <1>1, <1>3, <1>6, <1>9, <2>1, <2>5, <5>1 DEF Left
        <5>2. CASE u # w
          BY <1>3, <1>6, <1>9, <4>1, <5>2 DEF Left
        <5> QED
          BY <5>1, <5>2
      <4>2. Left \subseteq Done /\ Left' \subseteq Done'
        BY DEF Left
      <4> QED
        BY <4>1, <4>2
    <3>2. SumFunctionOnSet(sizesInKB, Left) \in Nat
      BY <1>1, <1>9, KilobytesSum
    <3>3. SumFunctionOnSet(sizesInKB, Left) <= measured'
      BY <1>2, <2>1, <3>2
    <3> QED
      BY <1>1, <1>8, <2>1, <2>3, <2>4, <3>1, <3>3 DEF Enforced
  <2>6. CASE ~ShouldPruneReport(w) /\ copies[w] = 1 /\ place[w] # "gone"
    <3>1. Left' = Left \cup {w}
      BY <1>6, <2>1, <2>6 DEF Left
    <3>2. /\ SumFunctionOnSet(sizesInKB, Left) \in Nat
          /\ SumFunctionOnSet(sizesInKB, Left \cup {w})
             = SumFunctionOnSet(sizesInKB, Left) + SizeInKB(w)
      BY <1>1, <1>9, KilobytesSum
    <3>3. SumFunctionOnSet(sizesInKB, Left \cup {w}) <= measured'
      BY <1>1, <1>2, <2>1, <3>2
    <3>4. measured' <= MaxSizeKB /\ created[w] >= oldest
      <4>1. created[w] \in Int
        BY <1>2
      <4> QED
        BY <1>2, <2>2, <2>6, <4>1
    <3>5. SumFunctionOnSet(sizesInKB, Left \cup {w}) <= MaxSizeKB
      BY <1>2, <3>2, <3>3, <3>4
    <3>6. \A u \in Left' : created[u] >= oldest
      BY <2>1, <3>1, <3>4
    <3> QED
      BY <1>1, <1>8, <2>3, <2>4, <3>1, <3>3, <3>5, <3>6 DEF Enforced
  <2> QED
    BY <1>2, <2>5, <2>6
<1>11. FirstPass'
  <2>1. disturbances' = 0 => \A u \in Reports : copies'[u] <= 1
    BY <1>1, <1>2, <1>3 DEF FirstPass
  <2>2. ASSUME disturbances' = 0, passes = 1
        PROVE  measured' = SumFunctionOnSet(sizesInKB, Done)'
    <3>1. copies[w] = 1 /\ measured = SumFunctionOnSet(sizesInKB, Done)
      BY <1>1, <1>2, <1>3, <2>2 DEF FirstPass
    <3>2. SumFunctionOnSet(sizesInKB, Done \cup {w})
          = SumFunctionOnSet(sizesInKB, Done) + SizeInKB(w)
      BY <1>1, <1>9, KilobytesSum
    <3> QED
      BY <1>1, <1>6, <1>8, <3>1, <3>2
  <2>3. passes # 0
    BY <1>1 DEF FirstPass
  <2> QED
    BY <1>1, <2>1, <2>2, <2>3 DEF FirstPass
<1> QED
  BY <1>4, <1>5, <1>7, <1>10, <1>11 DEF PruneInv

\* Every step of the prune thread and of those who add and move reports keeps the invariant.
LEMMA PruneStep == PruneInv /\ [PruneNext]_pruneVars => PruneInv'
<1> SUFFICES ASSUME PruneInv, [PruneNext]_pruneVars PROVE PruneInv'
  OBVIOUS
<1>1. CASE UNCHANGED pruneVars
  <2>1. NewestFirst' /\ Enforced' /\ Done' = Done /\ sizesInKB' = sizesInKB
    BY <1>1, PassStays DEF PruneInv, Listing, pruneVars, reports, condition
  <2>2. PruneTypeOK' /\ Listing'
    BY <1>1 DEF PruneInv, PruneTypeOK, Listing, pruneVars, reports, condition
  <2>3. FirstPass'
    BY <1>1, <2>1 DEF PruneInv, FirstPass, pruneVars, reports, condition
  <2> QED
    BY <2>1, <2>2, <2>3 DEF PruneInv
<1> QED
  BY <1>1, TickInv, AddReportInv, MoveInv, EndPassInv, GetPendingReportsInv, GetCompletedReportsInv,
     ListingFailedInv, EvaluateReportInv DEF PruneNext

----------------------------------------------------------------------------
\* The reports, the condition and the thread stay well typed.
THEOREM PruneTypeCorrect == PruneSpec => []PruneTypeOK
<1>1. PruneInv => PruneTypeOK
  BY DEF PruneInv
<1> QED
  BY <1>1, PruneStart, PruneStep, PTL DEF PruneSpec

\* For any reports, sizes, ages and limits, however many passes are made and whatever is added,
\* moved or locked meanwhile: after a pass in which no deletion failed, what is left of the
\* reports it found fits in max_size_in_kb, to the byte, and nothing older than what it deleted
\* is left; after the first one nothing is left that is older than max_age_in_days, and a day.
THEOREM PassAlwaysEnforces == PruneSpec => []PassEnforcesLimits
<1>1. PruneInv => PassEnforcesLimits
  <2> SUFFICES ASSUME PruneInv, PassOver, ~failed PROVE OldestGoFirst /\ SizeKept /\ ExpiredPruned
    BY DEF PassEnforcesLimits
  <2>1. PruneTypeOK /\ Done = listed /\ listed \subseteq Reports
    BY DEF PruneInv, PassOver, Listing, Done, PruneTypeOK
  <2>2. OldestGoFirst
    BY <2>1 DEF PruneInv, Enforced, OldestGoFirst
  <2>3. SizeKept
    <3>1. Left = {u \in listed : place[u] # "gone"} /\ Left \subseteq Reports
      BY <2>1 DEF Left
    <3>2. SumFunctionOnSet(sizesInKB, Left) <= MaxSizeKB /\ SumFunctionOnSet(sizesInKB, Left) \in Nat
      BY <2>1, <3>1, KilobytesSum DEF PruneInv, Enforced
    <3>3. SumFunctionOnSet(size, Left) <= SumFunctionOnSet(sizesInKB, Left) * Kilobyte
      <4>1. /\ sizesInKB \in [Reports -> Nat] /\ size \in [Reports -> Nat] /\ IsFiniteSet(Reports)
            /\ Kilobyte \in Nat /\ \A u \in Reports : size[u] <= sizesInKB[u] * Kilobyte
        BY <2>1, SizesInKB
      <4> QED
        BY <3>1, <4>1, SumTimes
    <3>4. SumFunctionOnSet(size, Left) \in Nat
      <4>1. size \in [Reports -> Nat] /\ IsFiniteSet(Reports)
        BY <2>1, SizesInKB
      <4> QED
        BY <3>1, <4>1, SumProperties
    <3>5. \A a, b \in Nat : a <= b * Kilobyte /\ b <= MaxSizeKB => a <= MaxSizeKB * Kilobyte
      OBVIOUS
    <3>6. SumFunctionOnSet(size, Left) <= MaxSizeKB * Kilobyte
      BY <3>2, <3>3, <3>4, <3>5
    <3> QED
      BY <3>1, <3>6 DEF SizeKept
  <2>4. ExpiredPruned
    <3> SUFFICES ASSUME passes = 1, NEW u \in listed, place[u] # "gone"
                 PROVE  created[u] > began - (MaxAgeDays + 1) * Day
      BY DEF ExpiredPruned
    <3>1. u \in Left /\ created[u] \in Nat
      BY <2>1 DEF Left, PruneTypeOK
    <3>2. /\ created[u] >= oldest /\ oldest = DayOf(StartTime - MaxAgeDays * Day)
          /\ began = StartTime
      BY <3>1 DEF PruneInv, Enforced, FirstPass
    <3> DEFINE a == StartTime - MaxAgeDays * Day
    <3>3. a \in Int /\ StartTime - (MaxAgeDays + 1) * Day = a - Day
      OBVIOUS
    <3> HIDE DEF a
    <3>4. a - Day < DayOf(a) /\ DayOf(a) \in Int
      <4>1. a \div Day \in Int /\ a < (a \div Day) * Day + Day
        BY <3>3, DivBounds
      <4> QED
        BY <3>3, <4>1 DEF DayOf
    <3> QED
      BY <3>1, <3>2, <3>3, <3>4 DEF a
  <2> QED
    BY <2>2, <2>3, <2>4
<1> QED
  BY <1>1, PruneStart, PruneStep, PTL DEF PruneSpec

\* For any reports, sizes, ages and limits: the first pass of a handler, if nobody moves or locks
\* a report meanwhile, deletes no report that is young enough and fits together with all that
\* are no older.
THEOREM NewestAlwaysKept == PruneSpec => NewestKept
<1>1. PruneInv /\ [PruneNext]_pruneVars =>
        [passes = 1 /\ disturbances' = 0 => \A u \in Reports : Deleted(u) => MayGo(u)]_pruneVars
  <2> SUFFICES ASSUME PruneInv, PruneNext, passes = 1, disturbances' = 0, NEW u \in Reports, Deleted(u)
               PROVE  MayGo(u)
    OBVIOUS
  <2>1. PruneTypeOK /\ Listing /\ NewestFirst /\ FirstPass /\ place[u] # "gone" /\ place'[u] = "gone"
    BY DEF PruneInv, Deleted
  <2>2. EvaluateReport(u)
    <3>1. ~(UNCHANGED reports)
      BY <2>1 DEF reports
    <3>2. ~Tick /\ ~GetPendingReports /\ ~GetCompletedReports /\ ~ListingFailed /\ ~EndPass
      BY <3>1 DEF Tick, GetPendingReports, GetCompletedReports, ListingFailed, EndPass
    <3>3. \A v \in Reports : ~AddReport(v)
      BY <2>1 DEF AddReport, PruneTypeOK
    <3>4. \A v \in Reports : ~Move(v)
      BY <2>1 DEF Move, PruneTypeOK
    <3>5. \A v \in Reports : EvaluateReport(v) => v = u
      BY <2>1 DEF EvaluateReport, DeleteReport, PruneTypeOK
    <3> QED
      BY <3>2, <3>3, <3>4, <3>5 DEF PruneNext
  <2>3. ShouldPruneReport(u) /\ copies[u] > 0 /\ u \in listed
    BY <2>1, <2>2 DEF EvaluateReport, IsNext, Listing
  <2>4. disturbances = 0
    BY <2>1, <2>2 DEF EvaluateReport, DeleteReport, Disturb, PruneTypeOK
  <2>5. CASE created[u] < oldest
    BY <2>1, <2>5 DEF FirstPass, MayGo
  <2>6. CASE measured + SizeInKB(u) > MaxSizeKB
    <3> DEFINE S == {v \in listed : created[v] >= created[u]}
    <3>1. S \subseteq Reports /\ Done \subseteq Reports /\ u \notin Done
      BY <2>1, <2>3 DEF PruneTypeOK, Done
    <3>2. Done \cup {u} \subseteq S
      <4>1. \A v \in listed : created[v] \in Int
        BY <2>1 DEF PruneTypeOK
      <4>2. \A v \in Done : v \in listed /\ created[u] <= created[v]
        BY <2>1, <2>3 DEF Done, NewestFirst
      <4> QED
        BY <2>3, <4>1, <4>2
    <3>3. measured = SumFunctionOnSet(sizesInKB, Done)
      BY <2>1, <2>4 DEF FirstPass
    <3> HIDE DEF S
    <3>4. /\ SumFunctionOnSet(sizesInKB, Done \cup {u}) = measured + SizeInKB(u)
          /\ SumFunctionOnSet(sizesInKB, Done \cup {u}) <= SumFunctionOnSet(sizesInKB, S)
          /\ SumFunctionOnSet(sizesInKB, S) \in Nat
      BY <2>1, <3>1, <3>2, <3>3, KilobytesSum
    <3>5. SumFunctionOnSet(sizesInKB, S) > MaxSizeKB
      <4>1. measured \in Nat /\ SizeInKB(u) \in Nat
        BY <2>1, SizesInKB DEF PruneTypeOK
      <4> QED
        BY <2>6, <3>4, <4>1
    <3> QED
      BY <3>5 DEF MayGo, S
  <2> QED
    BY <2>3, <2>5, <2>6 DEF ShouldPruneReport
<1> QED
  BY <1>1, PruneStart, PruneStep, PTL DEF PruneSpec, NewestKept
=============================================================================
