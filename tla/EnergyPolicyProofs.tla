------------------------- MODULE EnergyPolicyProofs -------------------------
(***************************************************************************)
(* Proofs about EnergyPolicy, for any number of modules.                   *)
(*                                                                         *)
(* Totals.  Total is a fold of the library.  Its recursion is shown to be  *)
(* well founded, then that it adds up the accounts in any order; what the  *)
(* proofs use afterwards are the lemmas from TotalInt to TotalUpdated.     *)
(*                                                                         *)
(* The ledger.  NotOverdrawn speaks of the accounts outside the booking    *)
(* part of an update.  The invariant LedgerInv follows the energy through  *)
(* it and adds what the spill loop has still to hand out; both it and      *)
(* OverdraftNeverGrows rest on StepBooks: no step but a restart takes the  *)
(* accounts further ahead of the battery.                                  *)
(*                                                                         *)
(* Use since a reset.  UsedSinceReset does not hold: queries and resets    *)
(* disturb the update.  UndisturbedUse shows that nothing else does.       *)
(***************************************************************************)
EXTENDS EnergyPolicy, FiniteSetTheorems, WellFoundedInduction, TLAPS

-----------------------------------------------------------------------------
(* One step of the fold that Total is: the body of iter in MapThenFoldSet. *)
Body(f, i, s) == IF s = {} THEN 0 ELSE f[CHOOSE x \in s : TRUE] + i[s \ {CHOOSE x \in s : TRUE}]

(* Total, with the definitions of the library's folds expanded. *)
LEMMA TotalDef ==
  ASSUME NEW T, NEW f \in [T -> Int]
  PROVE Total(f) = (CHOOSE i : i = [s \in SUBSET T |-> Body(f, i, s)])[T]
<1>1. DOMAIN f = T OBVIOUS
<1> QED BY <1>1, Zenon DEF Total, MapThenSumSet, MapThenFoldSet, Body

(* Every nonempty set of numbers has a least one.  This and LeastSet stand *)
(* for induction: a proof looks at a least counterexample.                 *)
LEMMA LeastNumber ==
  ASSUME NEW B \in SUBSET Nat, B # {}
  PROVE \E n \in B : \A m \in B : ~(m < n)
<1>1. PICK n \in B : \A m \in B : ~(<<m, n>> \in OpToRel(<, Nat))
  BY NatLessThanWellFounded, WFMin, Zenon
<1>2. ASSUME NEW m \in B PROVE ~(m < n)
  <2>1. ~(<<m, n>> \in OpToRel(<, Nat)) BY <1>1
  <2> QED BY <2>1 DEF OpToRel
<1> QED BY <1>2

(* Among subsets of a finite set there is one of which no subset with one  *)
(* element less is in the same family.                                     *)
LEMMA LeastSet ==
  ASSUME NEW T, IsFiniteSet(T), NEW B \in SUBSET (SUBSET T), B # {}
  PROVE \E s \in B : \A x \in s : s \ {x} \notin B
<1>1. IsWellFoundedOn(StrictSubsetOrdering(T), SUBSET T)
  BY FS_StrictSubsetOrderingWellFounded, FS_FiniteSubsetsOfFinite
<1>2. PICK s \in B : \A u \in B : ~(<<u, s>> \in StrictSubsetOrdering(T))
  BY <1>1, WFMin, Zenon
<1>3. ASSUME NEW x \in s, s \ {x} \in B PROVE FALSE
  <2>1. ~(<<s \ {x}, s>> \in StrictSubsetOrdering(T)) BY <1>2, <1>3
  <2> QED BY <2>1 DEF StrictSubsetOrdering
<1> QED BY <1>3

(* i satisfies the recursive equation of the fold of f over T. *)
IsFold(i, f, T) == i \in [SUBSET T -> Int] /\ i = [s \in SUBSET T |-> Body(f, i, s)]

(* The recursion is well founded on a finite set, so that a function that  *)
(* satisfies it exists: the equation is solved for sets of at most n       *)
(* elements, for each n in turn.                                           *)
LEMMA FoldExists ==
  ASSUME NEW T, IsFiniteSet(T), NEW f \in [T -> Int]
  PROVE \E i : IsFold(i, f, T)
<1> DEFINE Good(n) == \E i \in [SUBSET T -> Int] :
                        \A s \in SUBSET T : Cardinality(s) <= n => i[s] = Body(f, i, s)
           Bad == {n \in Nat : ~Good(n)}
<1> HIDE DEF Good
<1>0. \A s \in SUBSET T : IsFiniteSet(s) /\ Cardinality(s) \in Nat
  BY FS_Subset, FS_CardinalityType
<1>a. ASSUME NEW s \in SUBSET T, NEW i \in [SUBSET T -> Int] PROVE Body(f, i, s) \in Int
  <2>1. CASE s = {} BY <2>1 DEF Body
  <2>2. CASE s # {}
    <3>1. (CHOOSE x \in s : TRUE) \in s BY <2>2
    <3> QED BY <2>2, <3>1 DEF Body
  <2> QED BY <2>1, <2>2
<1>1. Good(0)
  <2> DEFINE i == [s \in SUBSET T |-> 0]
  <2>1. \A s \in SUBSET T : Cardinality(s) <= 0 => s = {} BY <1>0, FS_EmptySet
  <2>2. \A s \in SUBSET T : Cardinality(s) <= 0 => i[s] = Body(f, i, s) BY <2>1 DEF Body
  <2>3. i \in [SUBSET T -> Int] OBVIOUS
  <2> QED BY <2>2, <2>3, Zenon DEF Good
<1>2. ASSUME NEW n \in Nat, Good(n) PROVE Good(n + 1)
  <2>1. PICK i \in [SUBSET T -> Int] :
          \A s \in SUBSET T : Cardinality(s) <= n => i[s] = Body(f, i, s)
    BY <1>2 DEF Good
  <2> DEFINE j == [s \in SUBSET T |-> Body(f, i, s)]
  <2>2. j \in [SUBSET T -> Int] BY <1>a
  <2>3. ASSUME NEW s \in SUBSET T, Cardinality(s) <= n + 1 PROVE j[s] = Body(f, j, s)
    <3>1. CASE s = {} BY <3>1 DEF Body
    <3>2. CASE s # {}
      <4> DEFINE x == CHOOSE x \in s : TRUE
      <4>1. x \in s BY <3>2
      <4> HIDE DEF x
      <4>2. Cardinality(s \ {x}) <= n BY <1>0, <2>3, <4>1, FS_RemoveElement
      <4>3. i[s \ {x}] = Body(f, i, s \ {x}) BY <2>1, <4>2
      <4>4. j[s \ {x}] = i[s \ {x}] BY <4>3
      <4> HIDE DEF j
      <4>5. Body(f, i, s) = f[x] + i[s \ {x}] BY <3>2 DEF Body, x
      <4>6. Body(f, j, s) = f[x] + j[s \ {x}] BY <3>2 DEF Body, x
      <4> QED BY <4>4, <4>5, <4>6 DEF j
    <3> QED BY <3>1, <3>2
  <2> QED BY <2>2, <2>3 DEF Good
<1>3. Bad = {}
  <2> SUFFICES ASSUME Bad # {} PROVE FALSE OBVIOUS
  <2>1. PICK n \in Bad : \A m \in Bad : ~(m < n) BY LeastNumber
  <2>2. n # 0 BY <1>1, <2>1
  <2>3. n - 1 \in Nat /\ n - 1 \notin Bad BY <2>1, <2>2
  <2>4. Good(n - 1) BY <2>3
  <2> QED BY <1>2, <2>3, <2>4, <2>1
<1>4. Good(Cardinality(T)) BY <1>3, FS_CardinalityType
<1>5. PICK i \in [SUBSET T -> Int] :
        \A s \in SUBSET T : Cardinality(s) <= Cardinality(T) => i[s] = Body(f, i, s)
  BY <1>4 DEF Good
<1>6. \A s \in SUBSET T : i[s] = Body(f, i, s) BY <1>5, FS_Subset
<1>7. i = [s \in SUBSET T |-> Body(f, i, s)] BY <1>6
<1> QED BY <1>7 DEF IsFold

(* A ledger of f over T: the sum of every part of T, with no order in which*)
(* the elements are taken.                                                 *)
IsSum(g, f, T) ==
  /\ g \in [SUBSET T -> Int] /\ g[{}] = 0
  /\ \A s \in SUBSET T : \A x \in s : g[s] = f[x] + g[s \ {x}]

(* Total adds up its accounts: the order in which CHOOSE takes them does   *)
(* not matter.                                                             *)
LEMMA TotalIsSum ==
  ASSUME NEW T, IsFiniteSet(T), NEW f \in [T -> Int]
  PROVE \E g : IsSum(g, f, T) /\ Total(f) = g[T]
<1> DEFINE g == CHOOSE i : i = [s \in SUBSET T |-> Body(f, i, s)]
<1>1. PICK i : IsFold(i, f, T)
  BY FoldExists, Zenon
<1>2. g = [s \in SUBSET T |-> Body(f, g, s)] BY <1>1, Zenon DEF IsFold
<1>3. Total(f) = g[T] BY TotalDef, Zenon
<1> HIDE DEF g
<1>4. \A s \in SUBSET T : g[s] = Body(f, g, s) BY <1>2, Zenon
<1>5. g[{}] = 0 BY <1>4 DEF Body
<1>6. ASSUME NEW s \in SUBSET T, s # {}
      PROVE \E x \in s : g[s] = f[x] + g[s \ {x}]
  <2>1. (CHOOSE x \in s : TRUE) \in s BY <1>6
  <2> QED BY <1>4, <1>6, <2>1 DEF Body
<1>7. \A s \in SUBSET T : g[s] \in Int
  <2> DEFINE Bad == {s \in SUBSET T : g[s] \notin Int}
  <2> SUFFICES ASSUME Bad # {} PROVE FALSE OBVIOUS
  <2>1. PICK s \in Bad : \A x \in s : s \ {x} \notin Bad BY LeastSet
  <2>2. s # {} BY <1>5
  <2>3. PICK x \in s : g[s] = f[x] + g[s \ {x}] BY <1>6, <2>2
  <2>4. g[s \ {x}] \in Int BY <2>1
  <2> QED BY <2>3, <2>4
<1>8. g \in [SUBSET T -> Int]
  <2>1. DOMAIN g = SUBSET T BY <1>2, Zenon
  <2>2. g = [s \in SUBSET T |-> g[s]] BY <1>2, <1>4, Zenon
  <2> QED BY <1>7, <2>2
<1>9. \A s \in SUBSET T : \A x \in s : g[s] = f[x] + g[s \ {x}]
  <2> DEFINE Bad == {s \in SUBSET T : \E x \in s : g[s] # f[x] + g[s \ {x}]}
  <2> SUFFICES ASSUME Bad # {} PROVE FALSE OBVIOUS
  <2>1. PICK s \in Bad : \A x \in s : s \ {x} \notin Bad BY LeastSet
  <2>2. PICK x \in s : g[s] # f[x] + g[s \ {x}] BY <2>1
  <2>3. PICK y \in s : g[s] = f[y] + g[s \ {y}] BY <1>6
  <2>4. x # y BY <2>2, <2>3
  <2>5. g[s \ {y}] = f[x] + g[(s \ {y}) \ {x}] BY <2>1, <2>4
  <2>6. g[s \ {x}] = f[y] + g[(s \ {x}) \ {y}] BY <2>1, <2>4
  <2>7. PICK u \in SUBSET T : u = (s \ {x}) \ {y} /\ u = (s \ {y}) \ {x} OBVIOUS
  <2>8. f[x] \in Int /\ f[y] \in Int /\ g[u] \in Int BY <1>7
  <2>9. g[s \ {y}] = f[x] + g[u] /\ g[s \ {x}] = f[y] + g[u] BY <2>5, <2>6, <2>7
  <2>10. f[y] + (f[x] + g[u]) = f[x] + (f[y] + g[u]) BY <2>8
  <2> QED BY <2>2, <2>3, <2>9, <2>10, Zenon
<1> QED BY <1>3, <1>5, <1>8, <1>9 DEF IsSum

(* A total of numbers is a number. *)
LEMMA TotalInt ==
  ASSUME NEW T, IsFiniteSet(T), NEW f \in [T -> Int]
  PROVE Total(f) \in Int
<1>1. PICK F : IsSum(F, f, T) /\ Total(f) = F[T] BY TotalIsSum
<1> QED BY <1>1 DEF IsSum

(* The total of pointwise sums is the sum of the totals. *)
LEMMA TotalAdd ==
  ASSUME NEW T, IsFiniteSet(T), NEW f \in [T -> Int], NEW g \in [T -> Int],
         NEW h \in [T -> Int], \A x \in T : h[x] = f[x] + g[x]
  PROVE Total(h) = Total(f) + Total(g)
<1>1. PICK F : IsSum(F, f, T) /\ Total(f) = F[T] BY TotalIsSum
<1>2. PICK G : IsSum(G, g, T) /\ Total(g) = G[T] BY TotalIsSum
<1>3. PICK H : IsSum(H, h, T) /\ Total(h) = H[T] BY TotalIsSum
<1> DEFINE Bad == {s \in SUBSET T : H[s] # F[s] + G[s]}
<1>4. Bad = {}
  <2> SUFFICES ASSUME Bad # {} PROVE FALSE OBVIOUS
  <2>1. PICK s \in Bad : \A x \in s : s \ {x} \notin Bad BY LeastSet
  <2>2. PICK x : x \in s
    <3>1. F[{}] = 0 /\ G[{}] = 0 /\ H[{}] = 0 BY <1>1, <1>2, <1>3 DEF IsSum
    <3>2. {} \notin Bad BY <3>1
    <3> QED BY <3>2
  <2>3. H[s \ {x}] = F[s \ {x}] + G[s \ {x}] BY <2>1, <2>2
  <2>4. PICK u \in SUBSET T : u = s \ {x} OBVIOUS
  <2>5. F[s] = f[x] + F[u] /\ G[s] = g[x] + G[u] /\ H[s] = h[x] + H[u]
    BY <1>1, <1>2, <1>3, <2>2, <2>4 DEF IsSum
  <2>6. F[u] \in Int /\ G[u] \in Int /\ f[x] \in Int /\ g[x] \in Int
    BY <1>1, <1>2, <2>2 DEF IsSum
  <2>7. H[s] = F[s] + G[s] BY <2>2, <2>3, <2>4, <2>5, <2>6
  <2> QED BY <2>7
<1> QED BY <1>1, <1>2, <1>3, <1>4

(* Larger accounts, larger total. *)
LEMMA TotalMonotone ==
  ASSUME NEW T, IsFiniteSet(T), NEW f \in [T -> Int], NEW g \in [T -> Int],
         \A x \in T : f[x] <= g[x]
  PROVE Total(f) <= Total(g)
<1>1. PICK F : IsSum(F, f, T) /\ Total(f) = F[T] BY TotalIsSum
<1>2. PICK G : IsSum(G, g, T) /\ Total(g) = G[T] BY TotalIsSum
<1> DEFINE Bad == {s \in SUBSET T : ~(F[s] <= G[s])}
<1>4. Bad = {}
  <2> SUFFICES ASSUME Bad # {} PROVE FALSE OBVIOUS
  <2>1. PICK s \in Bad : \A x \in s : s \ {x} \notin Bad BY LeastSet
  <2>2. PICK x : x \in s
    <3>1. F[{}] = 0 /\ G[{}] = 0 BY <1>1, <1>2 DEF IsSum
    <3>2. {} \notin Bad BY <3>1
    <3> QED BY <3>2
  <2>3. F[s \ {x}] <= G[s \ {x}] BY <2>1, <2>2
  <2>4. PICK u \in SUBSET T : u = s \ {x} OBVIOUS
  <2>5. F[s] = f[x] + F[u] /\ G[s] = g[x] + G[u]
    BY <1>1, <1>2, <2>2, <2>4 DEF IsSum
  <2>6. F[u] \in Int /\ G[u] \in Int /\ f[x] \in Int /\ g[x] \in Int
    BY <1>1, <1>2, <2>2 DEF IsSum
  <2>7. F[s] <= G[s] BY <2>2, <2>3, <2>4, <2>5, <2>6
  <2> QED BY <2>7
<1> QED BY <1>1, <1>2, <1>4

(* A total of equal accounts is a product. *)
LEMMA TotalConstant ==
  ASSUME NEW T, IsFiniteSet(T), NEW f \in [T -> Int], NEW c \in Int, \A x \in T : f[x] = c
  PROVE Total(f) = c * Cardinality(T)
<1>1. PICK F : IsSum(F, f, T) /\ Total(f) = F[T] BY TotalIsSum
<1> DEFINE Bad == {s \in SUBSET T : F[s] # c * Cardinality(s)}
<1>4. Bad = {}
  <2> SUFFICES ASSUME Bad # {} PROVE FALSE OBVIOUS
  <2>1. PICK s \in Bad : \A x \in s : s \ {x} \notin Bad BY LeastSet
  <2>2. PICK x : x \in s
    <3>1. F[{}] = 0 /\ Cardinality({}) = 0 BY <1>1, FS_EmptySet DEF IsSum
    <3>2. {} \notin Bad BY <3>1
    <3> QED BY <3>2
  <2>3. F[s \ {x}] = c * Cardinality(s \ {x}) BY <2>1, <2>2
  <2>4. F[s] = c + F[s \ {x}] BY <1>1, <2>2 DEF IsSum
  <2>5. Cardinality(s \ {x}) = Cardinality(s) - 1 /\ Cardinality(s) \in Nat
    BY <2>2, FS_Subset, FS_RemoveElement, FS_CardinalityType
  <2>6. \A n \in Nat : c + c * (n - 1) = c * n OBVIOUS
  <2>7. F[s] = c * Cardinality(s) BY <2>3, <2>4, <2>5, <2>6
  <2> QED BY <2>7
<1> QED BY <1>1, <1>4

(* Accounts that hold nothing do not matter. *)
LEMMA TotalExtended ==
  ASSUME NEW T, IsFiniteSet(T), NEW S \in SUBSET T, NEW f \in [S -> Int], NEW g \in [T -> Int],
         \A x \in S : g[x] = f[x], \A x \in T \ S : g[x] = 0
  PROVE Total(g) = Total(f)
<1>0. IsFiniteSet(S) BY FS_Subset
<1>1. PICK F : IsSum(F, f, S) /\ Total(f) = F[S] BY <1>0, TotalIsSum
<1>2. PICK G : IsSum(G, g, T) /\ Total(g) = G[T] BY TotalIsSum
<1> DEFINE Bad == {s \in SUBSET T : G[s] # F[s \cap S]}
<1>3. \A u \in SUBSET S : F[u] \in Int BY <1>1 DEF IsSum
<1>4. Bad = {}
  <2> SUFFICES ASSUME Bad # {} PROVE FALSE OBVIOUS
  <2>1. PICK s \in Bad : \A x \in s : s \ {x} \notin Bad BY LeastSet
  <2>2. PICK x : x \in s
    <3>1. s # {}
      <4> SUFFICES ASSUME s = {} PROVE FALSE OBVIOUS
      <4>1. s \cap S = {} OBVIOUS
      <4> QED BY <1>1, <1>2, <4>1 DEF IsSum
    <3> QED BY <3>1
  <2>3. G[s \ {x}] = F[(s \ {x}) \cap S] BY <2>1, <2>2
  <2>4. G[s] = g[x] + G[s \ {x}] BY <1>2, <2>2 DEF IsSum
  <2>5. CASE x \in S
    <3>1. F[s \cap S] = f[x] + F[(s \cap S) \ {x}] BY <1>1, <2>2, <2>5 DEF IsSum
    <3>2. (s \cap S) \ {x} = (s \ {x}) \cap S OBVIOUS
    <3>3. G[s] = F[s \cap S] BY <2>3, <2>4, <2>5, <3>1, <3>2
    <3> QED BY <3>3
  <2>6. CASE x \notin S
    <3>1. (s \ {x}) \cap S = s \cap S BY <2>6
    <3>2. F[s \cap S] \in Int BY <1>3
    <3>3. g[x] = 0 BY <2>2, <2>6
    <3>4. G[s] = 0 + F[s \cap S] BY <2>3, <2>4, <3>1, <3>3, Zenon
    <3>5. G[s] = F[s \cap S] BY <3>2, <3>4
    <3> QED BY <3>5
  <2> QED BY <2>5, <2>6
<1>5. T \cap S = S OBVIOUS
<1> QED BY <1>1, <1>2, <1>4, <1>5

(* The total when one account holds everything. *)
LEMMA TotalPoint ==
  ASSUME NEW T, IsFiniteSet(T), NEW f \in [T -> Int], NEW a \in T,
         \A x \in T : x # a => f[x] = 0
  PROVE Total(f) = f[a]
<1>1. PICK F : IsSum(F, f, T) /\ Total(f) = F[T] BY TotalIsSum
<1>2. F[T] = f[a] + F[T \ {a}] BY <1>1 DEF IsSum
<1> DEFINE z == [x \in T \ {a} |-> 0]
           Bad == {s \in SUBSET T : a \notin s /\ F[s] # 0}
<1>3. Bad = {}
  <2> SUFFICES ASSUME Bad # {} PROVE FALSE OBVIOUS
  <2>1. PICK s \in Bad : \A x \in s : s \ {x} \notin Bad BY LeastSet
  <2>2. PICK x : x \in s BY <1>1 DEF IsSum
  <2>3. F[s \ {x}] = 0 BY <2>1, <2>2
  <2>4. F[s] = f[x] + F[s \ {x}] BY <1>1, <2>2 DEF IsSum
  <2> QED BY <2>1, <2>2, <2>3, <2>4
<1>4. F[T \ {a}] = 0 BY <1>3
<1> QED BY <1>1, <1>2, <1>4

(* Changing one account changes the total by as much. *)
LEMMA TotalUpdated ==
  ASSUME NEW T, IsFiniteSet(T), NEW f \in [T -> Int], NEW g \in [T -> Int], NEW a \in T,
         \A x \in T : x # a => g[x] = f[x]
  PROVE Total(g) = Total(f) + g[a] - f[a]
<1>1. PICK d : d = [x \in T |-> IF x = a THEN g[a] - f[a] ELSE 0] OBVIOUS
<1>2. d \in [T -> Int] BY <1>1
<1>3. Total(d) = g[a] - f[a] BY <1>1, <1>2, TotalPoint
<1>4. \A x \in T : g[x] = f[x] + d[x] BY <1>1
<1>5. Total(g) = Total(f) + Total(d) BY <1>2, <1>4, TotalAdd
<1>6. Total(f) \in Int BY TotalInt
<1> QED BY <1>3, <1>5, <1>6

-----------------------------------------------------------------------------
(* Integer division rounds down. *)
LEMMA Division ==
  ASSUME NEW n \in Int, NEW d \in Nat \ {0}
  PROVE /\ n \div d \in Int
        /\ d * (n \div d) <= n
        /\ n < d * (n \div d) + d
        /\ n >= 0 => n \div d >= 0
OBVIOUS

(* The controller's and the modules' shares of an energy, each rounded     *)
(* down, do not exceed it.                                                 *)
LEMMA SharesFit ==
  ASSUME NEW e \in Nat
  PROVE LET x == (e * ControllerShare) \div Whole
            y == (e * ModuleShare) \div Whole IN
          x \in Nat /\ y \in Nat /\ x + y * Len(ModuleOrder) <= e
<1> DEFINE x == (e * ControllerShare) \div Whole
           y == (e * ModuleShare) \div Whole
<1>n. PICK n \in Nat : n = Len(ModuleOrder) BY ModulesAssumption
<1>1. /\ ControllerShare \in Nat /\ ModuleShare \in Nat /\ Whole \in Nat \ {0}
      /\ ControllerShare + n * ModuleShare <= Whole
  BY <1>n, SharesAssumption
<1>2. e * ControllerShare \in Nat /\ e * ModuleShare \in Nat BY <1>1
<1>3. x \in Nat /\ Whole * x <= e * ControllerShare BY <1>1, <1>2, Division
<1>4. y \in Nat /\ Whole * y <= e * ModuleShare BY <1>1, <1>2, Division
<1> HIDE DEF x, y
<1>5. n * (Whole * y) <= n * (e * ModuleShare) BY <1>1, <1>2, <1>4
<1>6. Whole * x + n * (Whole * y) <= e * ControllerShare + n * (e * ModuleShare)
  BY <1>1, <1>2, <1>3, <1>4, <1>5
<1>7. e * ControllerShare + n * (e * ModuleShare) = e * (ControllerShare + n * ModuleShare)
  BY <1>1
<1>8. e * (ControllerShare + n * ModuleShare) <= e * Whole BY <1>1
<1>9. Whole * x + n * (Whole * y) = Whole * (x + y * n) BY <1>1, <1>3, <1>4
<1>10. Whole * (x + y * n) <= Whole * e BY <1>1, <1>3, <1>4, <1>5, <1>6, <1>7, <1>8, <1>9
<1>11. x + y * n <= e BY <1>1, <1>3, <1>4, <1>10
<1> QED BY <1>3, <1>4, <1>11, <1>n DEF x, y

(* There are as many modules as slots in ModuleOrder. *)
LEMMA ModulesFinite ==
  /\ IsFiniteSet(Modules) /\ Cardinality(Modules) = Len(ModuleOrder)
  /\ Len(ModuleOrder) \in Nat \ {0}
<1>1. Len(ModuleOrder) \in Nat /\ DOMAIN ModuleOrder = 1 .. Len(ModuleOrder)
  BY ModulesAssumption
<1>2. Len(ModuleOrder) # 0 BY <1>1, ModulesAssumption DEF Modules
<1>3. ModuleOrder \in [1 .. Len(ModuleOrder) -> Modules] BY <1>1, ModulesAssumption
<1>4. ModuleOrder \in Bijection(1 .. Len(ModuleOrder), Modules)
  BY <1>1, <1>3, ModulesAssumption DEF Bijection, Injection, Surjection, IsInjective, Modules
<1>5. ExistsBijection(1 .. Len(ModuleOrder), Modules) BY <1>4 DEF ExistsBijection
<1> QED BY <1>1, <1>2, <1>5, FS_CountingElements, FS_NatBijection

(* Accounts and counters are finite sets. *)
LEMMA AccountsFinite == IsFiniteSet(Accounts) /\ IsFiniteSet(Counters)
<1>1. Accounts = Modules \cup {"controller"} /\ Counters = Accounts \cup {"linux"}
  BY DEF Accounts, Counters
<1> QED BY <1>1, ModulesFinite, FS_AddElement

(* How the sets of names are related. *)
LEMMA Names ==
  /\ "controller" \in Accounts /\ "controller" \in Counters /\ "linux" \in Counters
  /\ "controller" \notin Modules /\ "linux" \notin Accounts
  /\ Modules \subseteq Accounts /\ Accounts \subseteq Counters
  /\ \A a \in Accounts : a # "controller" => a \in Modules
BY ModulesAssumption DEF Accounts, Counters

(* The total of an amount given to each module of a set. *)
LEMMA ModulesTotal ==
  ASSUME NEW E \in SUBSET Modules, NEW c \in Int, NEW f \in [Accounts -> Int],
         \A a \in Accounts : f[a] = IF a \in E THEN c ELSE 0
  PROVE Total(f) = c * Cardinality(E)
<1>0. E \subseteq Accounts BY Names
<1>1. PICK g : g = [m \in E |-> c] OBVIOUS
<1>2. g \in [E -> Int] BY <1>1
<1>3. Total(f) = Total(g) BY <1>0, <1>1, <1>2, AccountsFinite, TotalExtended
<1>4. IsFiniteSet(E) BY ModulesFinite, FS_Subset
<1>5. Total(g) = c * Cardinality(E) BY <1>1, <1>2, <1>4, TotalConstant
<1> QED BY <1>3, <1>5

(* What is shared out at the start is not more than the battery holds. *)
LEMMA SharedTotal ==
  ASSUME NEW b \in Nat
  PROVE Shared(b) \in [Accounts -> Int] /\ Total(Shared(b)) <= b
<1> DEFINE x == (b * ControllerShare) \div Whole
           y == (b * ModuleShare) \div Whole
<1>1. x \in Nat /\ y \in Nat /\ x + y * Len(ModuleOrder) <= b BY SharesFit
<1>2. Shared(b) = [a \in Accounts |-> IF a = "controller" THEN x ELSE y] BY DEF Shared
<1> HIDE DEF x, y
<1>3. PICK s : s = Shared(b) OBVIOUS
<1>4. s \in [Accounts -> Int] BY <1>1, <1>2, <1>3
<1>5. PICK f : f = [a \in Accounts |-> IF a = "controller" THEN x ELSE 0] OBVIOUS
<1>6. PICK g : g = [a \in Accounts |-> IF a \in Modules THEN y ELSE 0] OBVIOUS
<1>7. f \in [Accounts -> Int] /\ g \in [Accounts -> Int] BY <1>1, <1>5, <1>6
<1>8. Total(f) = x BY <1>5, <1>7, Names, AccountsFinite, TotalPoint
<1>9. Total(g) = y * Len(ModuleOrder)
  <2>1. y \in Int /\ Modules \in SUBSET Modules BY <1>1
  <2>2. \A a \in Accounts : g[a] = IF a \in Modules THEN y ELSE 0 BY <1>6
  <2>3. Total(g) = y * Cardinality(Modules) BY <1>7, <2>1, <2>2, ModulesTotal
  <2> QED BY <2>3, ModulesFinite
<1>10. \A a \in Accounts : s[a] = f[a] + g[a] BY <1>1, <1>2, <1>3, <1>5, <1>6, Names
<1>11. Total(s) = Total(f) + Total(g) BY <1>4, <1>7, <1>10, AccountsFinite, TotalAdd
<1> QED BY <1>1, <1>3, <1>4, <1>8, <1>9, <1>11

-----------------------------------------------------------------------------
(* Types of the FRAM copies, which EnergyTypeOK leaves out.                *)
StoreTypeOK ==
  LET Copies == [remaining : [Accounts -> Int], used : [Modules -> Int]] IN
    fram \in Copies /\ stored \in Copies

(* module_surplus is not negative, and left over only inside the spill     *)
(* loop.                                                                   *)
SurplusInSpill == surplus >= 0 /\ (phase # "spill" => surplus = 0)
(* battery_last_energy_remaining lags behind only between the gauge's      *)
(* reading and Apply.                                                      *)
BatteryIsBooked == phase # "reset" => batteryLast = battery

(* Until the first restart the accounts and what the spill loop has still  *)
(* to hand out are covered by the battery they were last booked against.   *)
Covered == restarts = 0 => Overdraft <= 0

RestartsCounted == restarts \in Nat

(* A module that has left the spill loop is not above its limit. *)
ShutOutIsFull == phase = "spill" => \A m \in Modules \ eligible : remaining[m] <= MaxModule

(* The inductive invariant. *)
LedgerInv ==
  /\ EnergyTypeOK /\ StoreTypeOK
  /\ SurplusInSpill /\ BatteryIsBooked /\ RestartsCounted /\ Covered /\ ShutOutIsFull

(* A report moves energy between two accounts. *)
LEMMA MovedTotal ==
  ASSUME EnergyTypeOK, NEW from \in Accounts, NEW to \in Accounts, NEW a \in Int
  PROVE Moved(from, to, a) \in [Accounts -> Int] /\ Total(Moved(from, to, a)) = Total(remaining)
<1>0. remaining \in [Accounts -> Int] BY DEF EnergyTypeOK
<1>1. PICK h : h = Moved(from, to, a) OBVIOUS
<1>2. PICK f : f = [x \in Accounts |-> IF x = to THEN a ELSE 0] OBVIOUS
<1>3. PICK g : g = [x \in Accounts |-> IF x = from THEN -a ELSE 0] OBVIOUS
<1>4. PICK k : k = [x \in Accounts |-> remaining[x] + f[x]] OBVIOUS
<1>5. f \in [Accounts -> Int] /\ Total(f) = a BY <1>2, AccountsFinite, TotalPoint
<1>6. g \in [Accounts -> Int] /\ Total(g) = -a BY <1>3, AccountsFinite, TotalPoint
<1>7. k \in [Accounts -> Int] BY <1>0, <1>4, <1>5
<1>8. Total(k) = Total(remaining) + a BY <1>0, <1>4, <1>5, <1>7, AccountsFinite, TotalAdd
<1>9. h \in [Accounts -> Int] BY <1>0, <1>1 DEF Moved
<1>10. \A x \in Accounts : h[x] = k[x] + g[x]
  BY <1>0, <1>1, <1>2, <1>3, <1>4 DEF Moved
<1>11. Total(h) = Total(k) + Total(g) BY <1>6, <1>7, <1>9, <1>10, AccountsFinite, TotalAdd
<1>12. Total(remaining) \in Int BY <1>0, AccountsFinite, TotalInt
<1> QED BY <1>1, <1>6, <1>8, <1>9, <1>11, <1>12

(* Booking the counters takes exactly their total from the accounts. *)
LEMMA DrainedTotal ==
  ASSUME EnergyTypeOK
  PROVE Drained \in [Accounts -> Int] /\ Total(Drained) = Total(remaining) - Total(energy)
<1>0. remaining \in [Accounts -> Int] /\ energy \in [Counters -> Nat] BY DEF EnergyTypeOK
<1>a. energy \in [Counters -> Int] BY <1>0
<1>1. PICK d : d = Drained OBVIOUS
<1>2. d \in [Accounts -> Int] BY <1>0, <1>1, Names DEF Drained
<1>3. PICK e : e = [a \in Accounts |-> energy[a]] OBVIOUS
<1>4. PICK l : l = [a \in Accounts |-> IF a = "controller" THEN energy["linux"] ELSE 0] OBVIOUS
<1>5. e \in [Accounts -> Int] BY <1>0, <1>3, Names
<1>6. l \in [Accounts -> Int] /\ Total(l) = energy["linux"]
  <2>1. energy["linux"] \in Int BY <1>0, Names
  <2>2. l \in [Accounts -> Int] BY <1>4, <2>1
  <2> QED BY <1>4, <2>1, <2>2, Names, AccountsFinite, TotalPoint
<1>7. Total(energy) = Total(e) + energy["linux"]
  <2>1. PICK z : z = [energy EXCEPT !["linux"] = 0] OBVIOUS
  <2>2. z \in [Counters -> Int] /\ z["linux"] = 0 BY <1>0, <2>1, Names
  <2>3. \A c \in Counters : c # "linux" => energy[c] = z[c] BY <1>0, <2>1
  <2>4. Total(energy) = Total(z) + energy["linux"] - z["linux"]
    BY <1>a, <2>2, <2>3, Names, AccountsFinite, TotalUpdated
  <2>5. \A c \in Counters \ Accounts : z[c] = 0 BY <2>2 DEF Counters, Accounts
  <2>6. \A c \in Accounts : z[c] = e[c] BY <1>3, <2>3, Names
  <2>7. Total(z) = Total(e) BY <1>5, <2>2, <2>5, <2>6, Names, AccountsFinite, TotalExtended
  <2>8. Total(e) \in Int BY <1>5, AccountsFinite, TotalInt
  <2>9. energy["linux"] \in Int BY <1>0, Names
  <2> QED BY <2>2, <2>4, <2>7, <2>8, <2>9
<1>8. PICK k : k = [a \in Accounts |-> d[a] + e[a]] OBVIOUS
<1>9. k \in [Accounts -> Int] BY <1>2, <1>5, <1>8
<1>10. Total(k) = Total(d) + Total(e) BY <1>2, <1>5, <1>8, <1>9, AccountsFinite, TotalAdd
<1>11. \A a \in Accounts : remaining[a] = k[a] + l[a]
  <2> TAKE a \in Accounts
  <2>1. remaining[a] \in Int /\ energy[a] \in Int /\ energy["linux"] \in Int BY <1>0, Names
  <2>2. d[a] = remaining[a] - energy[a] - (IF a = "controller" THEN energy["linux"] ELSE 0)
    BY <1>1 DEF Drained
  <2>3. k[a] = d[a] + energy[a] BY <1>3, <1>8
  <2>4. l[a] = IF a = "controller" THEN energy["linux"] ELSE 0 BY <1>4
  <2> QED BY <2>1, <2>2, <2>3, <2>4
<1>12. Total(remaining) = Total(k) + Total(l)
  BY <1>0, <1>6, <1>9, <1>11, AccountsFinite, TotalAdd
<1>13. Total(d) \in Int /\ Total(e) \in Int /\ energy["linux"] \in Int
  BY <1>0, <1>2, <1>5, Names, AccountsFinite, TotalInt
<1> QED BY <1>1, <1>2, <1>6, <1>7, <1>10, <1>12, <1>13

(* What the controller keeps and spills is not more than what it had and   *)
(* got.                                                                    *)
LEMMA ControllerFilledFits ==
  ASSUME NEW r \in Int, NEW e \in Nat
  PROVE LET c == ControllerFilled(r, e)
            x == (e * ControllerShare) \div Whole IN
          /\ c.remaining \in Int /\ c.spilled \in Nat
          /\ c.remaining + c.spilled * Len(ModuleOrder) <= r + x
<1> DEFINE x == (e * ControllerShare) \div Whole
           filled == r + x
<1>1. x \in Nat BY SharesFit
<1>2. MaxController \in Nat BY SharesAssumption
<1>3. PICK n \in Nat \ {0} : n = Len(ModuleOrder) BY ModulesFinite
<1>4. PICK c : c = ControllerFilled(r, e) OBVIOUS
<1> DEFINE q == (filled - MaxController) \div n
<1>5. CASE filled > MaxController
  <2>1. c = [remaining |-> MaxController, spilled |-> q]
    BY <1>3, <1>4, <1>5 DEF ControllerFilled
  <2>2. filled - MaxController \in Int /\ filled - MaxController >= 0 BY <1>1, <1>2, <1>5
  <2>3. q \in Nat /\ n * q <= filled - MaxController BY <2>2, Division
  <2> HIDE DEF q, x
  <2>4. MaxController + q * n <= r + x BY <1>1, <1>2, <2>3
  <2> QED BY <1>2, <1>3, <1>4, <2>1, <2>3, <2>4 DEF x
<1>6. CASE ~(filled > MaxController)
  <2>1. c = [remaining |-> filled, spilled |-> 0] BY <1>4, <1>6 DEF ControllerFilled
  <2> HIDE DEF x
  <2> QED BY <1>1, <1>3, <1>4, <2>1 DEF x
<1> QED BY <1>5, <1>6

(* Apply: with the surplus that is left for the spill loop the accounts    *)
(* change by no more than the battery did since the last booking.          *)
LEMMA ApplyBudget ==
  ASSUME EnergyTypeOK, Apply
  PROVE /\ remaining' \in [Accounts -> Int] /\ surplus' \in Nat /\ eligible' = Modules
        /\ Total(remaining') + surplus' * Cardinality(eligible')
             <= Total(remaining) - batteryLast + battery
<1>1. PICK E : E = Total(energy) OBVIOUS
<1>2. E \in Int
  <2>1. energy \in [Counters -> Int] BY DEF EnergyTypeOK
  <2> QED BY <1>1, <2>1, AccountsFinite, TotalInt
<1>3. battery \in Int /\ batteryLast \in Int BY DEF EnergyTypeOK
<1>4. PICK excess \in Int : excess = E - (batteryLast - battery) BY <1>2, <1>3
<1>5. PICK D : D = Drained OBVIOUS
<1>6. D \in [Accounts -> Int] /\ Total(D) = Total(remaining) - E BY <1>1, <1>5, DrainedTotal
<1>7. D["controller"] \in Int BY <1>6, Names
<1>8. PICK c : c = ControllerFilled(D["controller"], excess) OBVIOUS
<1>9. PICK R : R = remaining' OBVIOUS
<1>10. \/ /\ excess > 0
          /\ R = [D EXCEPT !["controller"] = c.remaining]
          /\ surplus' = (excess * ModuleShare) \div Whole + c.spilled
       \/ /\ excess <= 0
          /\ R = [D EXCEPT !["controller"] = @ + excess]
          /\ surplus' = 0
  BY <1>1, <1>4, <1>5, <1>8, <1>9 DEF Apply
<1>11. eligible' = Modules BY DEF Apply
<1>12. PICK n \in Nat \ {0} : n = Len(ModuleOrder) /\ n = Cardinality(Modules) BY ModulesFinite
<1>13. Total(remaining) \in Int /\ Total(D) \in Int
  <2>1. remaining \in [Accounts -> Int] BY DEF EnergyTypeOK
  <2> QED BY <1>6, <2>1, AccountsFinite, TotalInt
<1>14. CASE excess > 0
  <2>1. PICK x : x = (excess * ControllerShare) \div Whole OBVIOUS
  <2>2. PICK y : y = (excess * ModuleShare) \div Whole OBVIOUS
  <2>3. x \in Nat /\ y \in Nat /\ x + y * n <= excess
    <3>1. excess \in Nat BY <1>14
    <3> QED BY <1>12, <2>1, <2>2, <3>1, SharesFit
  <2>4. /\ c.remaining \in Int /\ c.spilled \in Nat
        /\ c.remaining + c.spilled * n <= D["controller"] + x
    <3>1. excess \in Nat BY <1>14
    <3> QED BY <1>7, <1>8, <1>12, <2>1, <3>1, ControllerFilledFits
  <2>5. PICK t \in Int, q \in Nat : t = c.remaining /\ q = c.spilled BY <2>4
  <2>6. R = [D EXCEPT !["controller"] = t] /\ surplus' = y + q BY <1>10, <1>14, <2>2, <2>5
  <2>7. /\ R \in [Accounts -> Int] /\ R["controller"] = t
        /\ \A a \in Accounts : a # "controller" => R[a] = D[a]
    BY <1>6, <2>5, <2>6, Names
  <2>8. Total(R) = Total(D) + t - D["controller"]
    BY <1>6, <2>7, Names, AccountsFinite, TotalUpdated
  <2>9. y * n \in Int /\ q * n \in Int /\ (y + q) * n = y * n + q * n BY <1>12, <2>3, <2>5
  <2>10. t + q * n <= D["controller"] + x BY <2>4, <2>5
  <2>11. Total(R) + (y + q) * n <= Total(D) + excess
    BY <1>7, <1>13, <2>3, <2>5, <2>8, <2>9, <2>10
  <2>12. Total(D) + excess = Total(remaining) - batteryLast + battery
    BY <1>2, <1>3, <1>4, <1>6, <1>13
  <2>13. surplus' * Cardinality(eligible') = (y + q) * n BY <1>11, <1>12, <2>6
  <2>14. surplus' \in Nat BY <2>3, <2>5, <2>6
  <2> QED BY <1>9, <1>11, <2>7, <2>11, <2>12, <2>13, <2>14
<1>15. CASE excess <= 0
  <2>1. PICK t \in Int : t = D["controller"] + excess BY <1>7
  <2>2. R = [D EXCEPT !["controller"] = t] /\ surplus' = 0 BY <1>10, <1>15, <2>1
  <2>3. /\ R \in [Accounts -> Int] /\ R["controller"] = t
        /\ \A a \in Accounts : a # "controller" => R[a] = D[a]
    BY <1>6, <2>1, <2>2, Names
  <2>4. Total(R) = Total(D) + t - D["controller"]
    BY <1>6, <2>3, Names, AccountsFinite, TotalUpdated
  <2>5. Total(R) = Total(remaining) - batteryLast + battery
    BY <1>2, <1>3, <1>4, <1>6, <1>7, <1>13, <2>1, <2>4
  <2>6. surplus' * Cardinality(eligible') = 0 BY <1>11, <1>12, <2>2
  <2>7. Total(R) \in Int BY <2>3, AccountsFinite, TotalInt
  <2> QED BY <1>9, <1>11, <2>2, <2>3, <2>5, <2>6, <2>7
<1> QED BY <1>14, <1>15

(* What does not fit into the full modules is a natural number. *)
LEMMA SpillOverCounts ==
  ASSUME EnergyTypeOK, surplus > 0
  PROVE LET over == [m \in Full |-> remaining[m] + surplus - MaxModule] IN
          over \in [Full -> Int] /\ IsFiniteSet(Full) /\ Total(over) \in Nat
<1> DEFINE over == [m \in Full |-> remaining[m] + surplus - MaxModule]
           zero == [m \in Full |-> 0]
<1>1. remaining \in [Accounts -> Int] /\ surplus \in Int /\ eligible \subseteq Modules
  BY DEF EnergyTypeOK
<1>2. MaxModule \in Nat BY SharesAssumption
<1>3. Full \subseteq eligible BY DEF Full
<1>4. IsFiniteSet(Full) BY <1>1, <1>3, ModulesFinite, FS_Subset
<1>5. \A m \in Full : remaining[m] \in Int BY <1>1, <1>3, Names
<1>6. \A m \in Full : remaining[m] + surplus > MaxModule BY DEF Full
<1>7. over \in [Full -> Int] BY <1>1, <1>2, <1>5
<1>8. \A m \in Full : zero[m] <= over[m] BY <1>1, <1>2, <1>5, <1>6
<1>9. zero \in [Full -> Int] /\ \A m \in Full : zero[m] = 0 OBVIOUS
<1> HIDE DEF over, zero
<1>10. Total(zero) = 0 * Cardinality(Full) BY <1>4, <1>9, TotalConstant
<1>11. Total(zero) = 0 BY <1>4, <1>10, FS_CardinalityType
<1>12. Total(zero) <= Total(over) BY <1>4, <1>7, <1>8, <1>9, TotalMonotone
<1>13. Total(over) \in Int BY <1>4, <1>7, TotalInt
<1> QED BY <1>4, <1>7, <1>11, <1>12, <1>13 DEF over

(* A round of the spill loop neither creates energy nor loses more than the*)
(* remainder of a division by the number of modules left.                  *)
LEMMA SpillBudget ==
  ASSUME EnergyTypeOK, Spill
  PROVE LET before == Total(remaining) + surplus * Cardinality(eligible)
            after == Total(remaining') + surplus' * Cardinality(eligible') IN
          /\ remaining' \in [Accounts -> Int] /\ surplus' \in Nat /\ eligible' \subseteq Modules
          /\ before - Cardinality(Modules) < after /\ after <= before
<1> DEFINE over == [m \in Full |-> remaining[m] + surplus - MaxModule]
           spillOver == Total(over)
           open == eligible \ Full
<1>1. remaining \in [Accounts -> Int] /\ surplus \in Int /\ eligible \subseteq Modules
  BY DEF EnergyTypeOK
<1>2. surplus > 0 BY DEF Spill
<1>3. over \in [Full -> Int] /\ IsFiniteSet(Full) /\ spillOver \in Nat
  BY <1>2, SpillOverCounts
<1>4. Full \subseteq eligible /\ MaxModule \in Nat BY SharesAssumption DEF Full
<1>5. \A m \in Full : over[m] = remaining[m] + surplus - MaxModule OBVIOUS
<1>6. /\ remaining' = [a \in Accounts |->
           CASE a \in Full -> MaxModule
             [] a \in open -> remaining[a] + surplus
             [] OTHER -> IF a = "controller" /\ open = {} THEN remaining[a] + spillOver
                         ELSE remaining[a]]
      /\ surplus' = IF open = {} THEN 0 ELSE spillOver \div Cardinality(open)
      /\ eligible' = open
  BY DEF Spill
<1>7. PICK R : R = remaining' OBVIOUS
<1> HIDE DEF over, spillOver
<1>8. /\ \A a \in Full : R[a] = MaxModule
      /\ \A a \in open : R[a] = remaining[a] + surplus
      /\ \A a \in Modules \ eligible : R[a] = remaining[a]
      /\ R["controller"] = IF open = {} THEN remaining["controller"] + spillOver
                           ELSE remaining["controller"]
  BY <1>1, <1>4, <1>6, <1>7, Names
<1>9. R \in [Accounts -> Int]
  <2>1. ASSUME NEW a \in Accounts PROVE R[a] \in Int
    <3>1. remaining[a] \in Int BY <1>1
    <3> QED BY <1>1, <1>3, <1>4, <1>8, <3>1, Names
  <2> QED BY <1>6, <1>7, <2>1
<1>10. PICK x : x = [a \in Accounts |-> IF a \in Full THEN over[a] ELSE 0] OBVIOUS
<1>11. x \in [Accounts -> Int] /\ Total(x) = spillOver
  <2>1. x \in [Accounts -> Int] BY <1>3, <1>10
  <2>2. Full \in SUBSET Accounts BY <1>1, <1>4, Names
  <2>3. (\A a \in Full : x[a] = over[a]) /\ (\A a \in Accounts \ Full : x[a] = 0)
    BY <1>10, <2>2
  <2>4. Total(x) = Total(over) BY <1>3, <2>1, <2>2, <2>3, AccountsFinite, TotalExtended
  <2> QED BY <2>1, <2>4 DEF spillOver
<1>12. PICK h : h = [a \in Accounts |-> IF a \in eligible THEN surplus ELSE 0] OBVIOUS
<1>13. h \in [Accounts -> Int] BY <1>1, <1>12
<1>14. Total(h) = surplus * Cardinality(eligible)
  <2>1. \A a \in Accounts : h[a] = IF a \in eligible THEN surplus ELSE 0 BY <1>12
  <2> QED BY <1>1, <1>13, <2>1, ModulesTotal
<1>15. PICK k : k = [a \in Accounts |-> remaining[a] + h[a]] OBVIOUS
<1>16. k \in [Accounts -> Int] BY <1>1, <1>13, <1>15
<1>17. Total(k) = Total(remaining) + surplus * Cardinality(eligible)
  BY <1>1, <1>13, <1>14, <1>15, <1>16, AccountsFinite, TotalAdd
<1>18. PICK z : z = [R EXCEPT !["controller"] = remaining["controller"]] OBVIOUS
<1>19. z \in [Accounts -> Int] BY <1>1, <1>9, <1>18, Names
<1>20. \A a \in Accounts : k[a] = z[a] + x[a]
  <2> TAKE a \in Accounts
  <2>1. remaining[a] \in Int BY <1>1
  <2>2. CASE a = "controller"
    <3>1. a \notin eligible /\ a \notin Full BY <1>1, <1>4, <2>2, Names
    <3>2. z[a] = remaining[a] /\ x[a] = 0 /\ k[a] = remaining[a] + 0
      BY <1>9, <1>10, <1>12, <1>15, <1>18, <2>2, <3>1
    <3> QED BY <2>1, <3>2
  <2>3. CASE a # "controller"
    <3>1. z[a] = R[a] BY <1>9, <1>18, <2>3
    <3>2. CASE a \in Full
      <4>1. z[a] = MaxModule /\ x[a] = remaining[a] + surplus - MaxModule
            /\ k[a] = remaining[a] + surplus
        BY <1>4, <1>5, <1>8, <1>10, <1>12, <1>15, <3>1, <3>2
      <4> QED BY <1>1, <1>4, <2>1, <4>1
    <3>3. CASE a \in open
      <4>1. z[a] = remaining[a] + surplus /\ x[a] = 0 /\ k[a] = remaining[a] + surplus
        BY <1>8, <1>10, <1>12, <1>15, <3>1, <3>3
      <4> QED BY <1>1, <2>1, <4>1
    <3>4. CASE a \notin eligible
      <4>1. a \in Modules /\ a \notin Full BY <1>4, <2>3, <3>4, Names
      <4>2. z[a] = remaining[a] /\ x[a] = 0 /\ k[a] = remaining[a] + 0
        BY <1>8, <1>10, <1>12, <1>15, <3>1, <3>4, <4>1
      <4> QED BY <2>1, <4>2
    <3> QED BY <3>2, <3>3, <3>4
  <2> QED BY <2>2, <2>3
<1>21. Total(k) = Total(z) + spillOver BY <1>11, <1>16, <1>19, <1>20, AccountsFinite, TotalAdd
<1>22. Total(R) = Total(z) + R["controller"] - remaining["controller"]
  <2>1. \A a \in Accounts : a # "controller" => R[a] = z[a] BY <1>9, <1>18
  <2>2. z["controller"] = remaining["controller"] BY <1>9, <1>18, Names
  <2> QED BY <1>9, <1>19, <2>1, <2>2, Names, AccountsFinite, TotalUpdated
<1>23. Total(z) \in Int /\ Total(R) \in Int /\ remaining["controller"] \in Int
  BY <1>1, <1>9, <1>19, Names, AccountsFinite, TotalInt
<1>24. IsFiniteSet(open) /\ Cardinality(open) \in Nat /\ Cardinality(open) <= Cardinality(Modules)
  BY <1>1, ModulesFinite, FS_Subset, FS_CardinalityType
<1>25. Cardinality(Modules) \in Nat \ {0} BY ModulesFinite
<1>26. CASE open = {}
  <2>1. surplus' = 0 /\ eligible' = open BY <1>6, <1>26
  <2>2. surplus' * Cardinality(eligible') = 0 BY <1>24, <2>1
  <2>3. Total(R) = Total(k) BY <1>3, <1>8, <1>21, <1>22, <1>23, <1>26
  <2> QED BY <1>1, <1>7, <1>9, <1>17, <1>23, <1>25, <2>1, <2>2, <2>3
<1>27. CASE open # {}
  <2>1. PICK n \in Nat \ {0} : n = Cardinality(open) BY <1>24, <1>27, FS_EmptySet
  <2>2. PICK q : q = spillOver \div n OBVIOUS
  <2>3. q \in Nat /\ n * q <= spillOver /\ spillOver < n * q + n BY <1>3, <2>1, <2>2, Division
  <2>4. surplus' = q /\ eligible' = open BY <1>6, <1>27, <2>1, <2>2
  <2>5. surplus' * Cardinality(eligible') = n * q BY <2>1, <2>3, <2>4
  <2>6. Total(R) = Total(k) - spillOver BY <1>3, <1>8, <1>21, <1>22, <1>23, <1>27
  <2>7. n * q \in Int BY <2>1, <2>3
  <2>8. Total(k) \in Int BY <1>3, <1>21, <1>23
  <2>9. /\ Total(k) - Cardinality(Modules) < Total(R) + n * q
        /\ Total(R) + n * q <= Total(k)
    BY <1>3, <1>24, <1>25, <2>1, <2>3, <2>6, <2>7, <2>8
  <2> QED BY <1>1, <1>7, <1>9, <1>17, <2>3, <2>4, <2>5, <2>9
<1> QED BY <1>26, <1>27

(* After a round every module is within its limit: the ones it filled, the *)
(* ones it gave the surplus to and the ones that had left the loop.        *)
LEMMA SpillShutsOut ==
  ASSUME EnergyTypeOK, ShutOutIsFull, Spill
  PROVE \A m \in Modules : remaining'[m] <= MaxModule
<1> SUFFICES ASSUME NEW m \in Modules PROVE remaining'[m] <= MaxModule OBVIOUS
<1>1. PICK open : open = eligible \ Full OBVIOUS
<1>2. m \in Accounts /\ m # "controller" BY Names
<1>3. remaining[m] \in Int /\ surplus \in Int /\ MaxModule \in Nat
  BY <1>2, SharesAssumption DEF EnergyTypeOK
<1>4. phase = "spill" BY DEF Spill
<1>5. \/ m \in Full /\ remaining'[m] = MaxModule
      \/ m \in open /\ remaining'[m] = remaining[m] + surplus
      \/ m \notin eligible /\ remaining'[m] = remaining[m]
  BY <1>1, <1>2 DEF Spill
<1>6. m \in open => ~(remaining[m] + surplus > MaxModule) BY <1>1 DEF Full
<1>7. m \notin eligible => remaining[m] <= MaxModule BY <1>4 DEF ShutOutIsFull
<1> QED BY <1>3, <1>5, <1>6, <1>7

-----------------------------------------------------------------------------
(* The update's lists of counters are lists of counters. *)
LEMMA Orders ==
  /\ ModuleOrder \in Seq(Counters)
  /\ <<"linux", "controller">> \o ModuleOrder \in Seq(Counters)
  /\ <<"controller", "linux">> \o ModuleOrder \in Seq(Counters)
  /\ ModuleOrder[Len(ModuleOrder)] \in Counters
<1>1. ModuleOrder \in Seq(Modules) BY ModulesAssumption
<1>2. ModuleOrder \in Seq(Counters) BY <1>1, Names
<1>3. <<"linux", "controller">> \in Seq(Counters) /\ <<"controller", "linux">> \in Seq(Counters)
  BY Names
<1>4. ModuleOrder[Len(ModuleOrder)] \in Counters BY <1>2, ModulesFinite
<1> QED BY <1>2, <1>3, <1>4

(* What the gauge can show is a natural number. *)
LEMMA Readings ==
  ASSUME NEW b \in Gauge \cup {Failed}
  PROVE BatteryAtStart(b) \in Nat /\ (b # Failed => b \in Nat)
BY EnergiesAssumption DEF Failed, BatteryAtStart

(* The copy that is saved is a record of its arguments. *)
LEMMA SavedType ==
  \A r \in [Accounts -> Int], u \in [Modules -> Int] :
    Saved(r, u) \in [remaining : [Accounts -> Int], used : [Modules -> Int]]
BY DEF Saved

(* The types hold initially. *)
LEMMA TypeInit == Init => EnergyTypeOK /\ StoreTypeOK
<1> SUFFICES ASSUME Init PROVE EnergyTypeOK /\ StoreTypeOK OBVIOUS
<1>1. battery \in Nat /\ batteryLast = battery BY Readings DEF Init
<1>2. remaining \in [Accounts -> Int] BY <1>1, SharedTotal DEF Init
<1>3. counter \in [Counters -> Nat] /\ energy \in [Counters -> Nat] /\ used \in [Modules -> Int]
  BY DEF Init
<1>4. todo \in Seq(Counters) BY DEF Init
<1>a. picked \in BOOLEAN /\ (picked => todo # <<>>) BY Zenon DEF Init
<1>5. /\ selected \in Counters /\ phase \in {"idle", "read", "reset", "spill", "save"}
      /\ surplus \in Int /\ eligible \subseteq Modules
  BY Orders DEF Init
<1>6. EnergyTypeOK BY <1>1, <1>2, <1>3, <1>4, <1>5, <1>a DEF EnergyTypeOK
<1>7. StoreTypeOK BY <1>1, <1>2, <1>3 DEF Init, StoreTypeOK, Saved
<1> QED BY <1>6, <1>7

(* Every step preserves the types. *)
LEMMA TypeStep ==
  ASSUME EnergyTypeOK, StoreTypeOK, [Next]_vars
  PROVE EnergyTypeOK' /\ StoreTypeOK'
<1> USE DEF EnergyTypeOK, StoreTypeOK, accountVars, batteryVars, updateVars, framVars, counterVars
<1>1. ASSUME NEW c \in Consumers, NEW a \in Amounts, Consume(c, a)
      PROVE EnergyTypeOK' /\ StoreTypeOK'
  BY <1>1, EnergiesAssumption, ActorsAssumption DEF Consume
<1>2. ASSUME NEW m \in Clients, Query(m) PROVE EnergyTypeOK' /\ StoreTypeOK'
  BY <1>2, ActorsAssumption, Names DEF Query
<1>3. ASSUME NEW m \in Clients, ResetUsed(m) PROVE EnergyTypeOK' /\ StoreTypeOK'
  <2>1. m \in Modules /\ m \in Counters BY ActorsAssumption, Names
  <2>2. -counter[m] \in Int BY <2>1
  <2>3. used' \in [Modules -> Int] BY <1>3, <2>1, <2>2 DEF ResetUsed
  <2>4. /\ selected' \in Counters
        /\ UNCHANGED <<counter, remaining, battery, batteryLast, phase, todo, picked, energy,
                       surplus, eligible, fram, stored>>
    BY <1>3, <2>1 DEF ResetUsed
  <2> QED BY <2>3, <2>4
<1>4. ASSUME NEW src \in Clients, NEW for \in Accounts, NEW a \in Amounts, Report(src, for, a)
      PROVE EnergyTypeOK' /\ StoreTypeOK'
  <2>1. a \in Int /\ src \in Accounts BY EnergiesAssumption, ActorsAssumption, Names
  <2>2. remaining' \in [Accounts -> Int] BY <1>4, <2>1, MovedTotal DEF Report
  <2>3. used' \in [Modules -> Int] BY <1>4, <2>1 DEF Report
  <2> QED BY <1>4, <2>2, <2>3 DEF Report
<1>5. CASE StartUpdate BY <1>5, Orders DEF StartUpdate
<1>6. CASE Select BY <1>6 DEF Select
<1>7. CASE ReadCounter
  <2>1. todo # <<>> BY <1>7 DEF ReadCounter
  <2>2. Head(todo) \in Counters /\ Tail(todo) \in Seq(Counters) BY <2>1
  <2>3. energy' \in [Counters -> Nat] /\ todo' \in Seq(Counters) BY <1>7, <2>2 DEF ReadCounter
  <2>4. picked' = FALSE BY <1>7 DEF ReadCounter
  <2>5. UNCHANGED <<counter, selected, remaining, used, battery, batteryLast, phase, surplus,
                    eligible, fram, stored>>
    BY <1>7 DEF ReadCounter
  <2> QED BY <2>3, <2>4, <2>5
<1>8. CASE ReadBattery
  <2>1. energy \in [Counters -> Int] OBVIOUS
  <2>2. Total(energy) \in Int BY <2>1, AccountsFinite, TotalInt
  <2>3. battery' \in Int
    <3>1. PICK b \in Gauge \cup {Failed} : battery' = BatteryRead(b) BY <1>8 DEF ReadBattery
    <3> QED BY <2>2, <3>1, Readings DEF BatteryRead
  <2>4. todo' # <<>> BY <1>8, ModulesAssumption DEF ReadBattery
  <2> QED BY <1>8, <2>3, <2>4, Orders DEF ReadBattery
<1>9. CASE ResetCounter
  <2>1. todo # <<>> BY <1>9 DEF ResetCounter
  <2>2. counter' \in [Counters -> Nat] /\ todo' \in Seq(Counters) BY <1>9, <2>1 DEF ResetCounter
  <2>3. picked' = FALSE BY <1>9 DEF ResetCounter
  <2>4. UNCHANGED <<selected, remaining, used, battery, batteryLast, phase, energy, surplus,
                    eligible, fram, stored>>
    BY <1>9 DEF ResetCounter
  <2> QED BY <2>2, <2>3, <2>4
<1>10. CASE Apply
  <2>1. remaining' \in [Accounts -> Int] /\ surplus' \in Nat /\ eligible' = Modules
    BY <1>10, ApplyBudget
  <2>5. used' \in [Modules -> Int] BY <1>10, Names DEF Apply
  <2>6. /\ UNCHANGED <<counter, selected, battery, todo, picked, energy, fram, stored>>
        /\ phase' = "spill" /\ batteryLast' = battery
    BY <1>10 DEF Apply
  <2> QED BY <2>1, <2>5, <2>6
<1>11. CASE Spill
  <2>1. remaining' \in [Accounts -> Int] /\ surplus' \in Int /\ eligible' \subseteq Modules
    BY <1>11, SpillBudget
  <2>2. UNCHANGED <<counter, selected, used, battery, batteryLast, phase, todo, picked, energy,
                    fram, stored>>
    BY <1>11 DEF Spill
  <2> QED BY <2>1, <2>2
<1>12. CASE Copy BY <1>12 DEF Copy, Saved
<1>13. CASE Save BY <1>13 DEF Save
<1>14. ASSUME NEW b \in Gauge \cup {Failed}, Restart(b) PROVE EnergyTypeOK' /\ StoreTypeOK'
  <2>1. battery' \in Int /\ batteryLast' \in Int BY <1>14, Readings DEF Restart
  <2>2. remaining' \in [Accounts -> Int]
    BY <1>14, SharedTotal, EnergiesAssumption DEF Restart, Recovered
  <2>3. used' \in [Modules -> Int] BY <1>14, Names DEF Restart
  <2>5. fram' = Saved(remaining', used') /\ stored' = fram' BY <1>14 DEF Restart
  <2>6. StoreTypeOK' BY <2>2, <2>3, <2>5, SavedType
  <2>7. counter' \in [Counters -> Nat] /\ energy' \in [Counters -> Nat] BY <1>14 DEF Restart
  <2>8. picked' = FALSE /\ todo' = <<>> BY <1>14 DEF Restart
  <2>a. picked' \in BOOLEAN /\ (picked' => todo' # <<>>) BY <2>8, Zenon
  <2>b. todo' \in Seq(Counters) BY <2>8
  <2>9. /\ selected' \in Counters /\ phase' \in {"idle", "read", "reset", "spill", "save"}
        /\ surplus' \in Int /\ eligible' \subseteq Modules
    BY <1>14, Orders DEF Restart
  <2>10. EnergyTypeOK' BY <2>1, <2>2, <2>3, <2>7, <2>a, <2>b, <2>9
  <2> QED BY <2>6, <2>10
<1>15. CASE UNCHANGED vars BY <1>15 DEF vars
<1> QED BY <1>1, <1>2, <1>3, <1>4, <1>5, <1>6, <1>7, <1>8, <1>9, <1>10, <1>11, <1>12, <1>13,
           <1>14, <1>15 DEF Next, Update

(* Type correctness of the accounting, for any number of modules and any   *)
(* shares, limits and amounts.                                             *)
THEOREM EnergyTypeCorrect == Spec => []EnergyTypeOK
<1>1. EnergyTypeOK /\ StoreTypeOK /\ [Next]_vars => (EnergyTypeOK /\ StoreTypeOK)' BY TypeStep
<1> QED BY TypeInit, <1>1, PTL DEF Spec

(* Every round of the spill loop in signpost_energy_policy_update_energy   *)
(* gives away what it has, up to a remainder smaller than the number of    *)
(* modules.                                                                *)
THEOREM SpillIsConserving == Spec => SpillConserves
<1>1. ASSUME EnergyTypeOK, Spill
      PROVE LET Budget(r, s, e) == Total(r) + s * Cardinality(e)
                before == Budget(remaining, surplus, eligible)
                after == Budget(remaining', surplus', eligible') IN
              before - Cardinality(Modules) < after /\ after <= before
  BY <1>1, SpillBudget
<1> QED BY <1>1, EnergyTypeCorrect, PTL DEF Spec, SpillConserves

(* TotalInt for the accounts. *)
LEMMA AccountsTotal == \A r \in [Accounts -> Int] : Total(r) \in Int
BY AccountsFinite, TotalInt

(* Sets of modules can be counted. *)
LEMMA EligibleCount == \A e \in SUBSET Modules : Cardinality(e) \in Nat
BY ModulesFinite, FS_Subset, FS_CardinalityType

(* The ledger is balanced at the start. *)
LEMMA LedgerInit == Init => LedgerInv
<1> SUFFICES ASSUME Init PROVE LedgerInv OBVIOUS
<1>1. EnergyTypeOK /\ StoreTypeOK BY TypeInit
<1>2. battery \in Nat /\ batteryLast = battery BY Readings DEF Init
<1>3. Total(remaining) <= battery BY <1>2, SharedTotal DEF Init
<1>4. surplus = 0 /\ eligible = {} /\ phase = "idle" BY DEF Init
<1>5. Covered
  <2>1. Cardinality(eligible) \in Nat /\ Total(remaining) \in Int
    BY <1>1, EligibleCount, AccountsTotal DEF EnergyTypeOK
  <2>2. surplus * Cardinality(eligible) = 0 BY <1>4, <2>1
  <2> QED BY <1>2, <1>3, <2>1, <2>2 DEF Covered, Overdraft
<1> QED BY <1>1, <1>2, <1>4, <1>5
        DEF Init, LedgerInv, SurplusInSpill, BatteryIsBooked, RestartsCounted, ShutOutIsFull

(* No step but a restart takes the accounts further ahead of the battery:  *)
(* a report moves energy, Apply books what the battery did, a round of the *)
(* spill loop conserves, and nothing else touches the accounts.            *)
LEMMA StepBooks ==
  ASSUME LedgerInv, [Next]_vars
  PROVE \/ Overdraft' <= Overdraft /\ restarts' = restarts
        \/ \E b \in Gauge \cup {Failed} : Restart(b)
<1> DEFINE Books == Overdraft' <= Overdraft /\ restarts' = restarts
<1>t. EnergyTypeOK /\ StoreTypeOK /\ EnergyTypeOK' /\ StoreTypeOK' BY TypeStep DEF LedgerInv
<1>n. /\ battery \in Int /\ batteryLast \in Int /\ surplus \in Int
      /\ Total(remaining) \in Int /\ Total(remaining') \in Int
      /\ Cardinality(eligible) \in Nat /\ Cardinality(eligible') \in Nat
  BY <1>t, AccountsTotal, EligibleCount DEF EnergyTypeOK
<1>o. surplus * Cardinality(eligible) \in Int BY <1>n
<1>0. ASSUME UNCHANGED <<remaining, surplus, eligible, batteryLast, restarts>> PROVE Books
  BY <1>0, <1>n, <1>o DEF Overdraft
<1>1. ASSUME NEW c \in Consumers, NEW a \in Amounts, Consume(c, a) PROVE Books
  BY <1>1, <1>0 DEF Consume, accountVars, batteryVars, updateVars, bounds
<1>2. ASSUME NEW m \in Clients, Query(m) PROVE Books
  BY <1>2, <1>0 DEF Query, accountVars, batteryVars, updateVars, bounds
<1>3. ASSUME NEW m \in Clients, ResetUsed(m) PROVE Books
  BY <1>3, <1>0 DEF ResetUsed, batteryVars, updateVars, bounds
<1>4. ASSUME NEW src \in Clients, NEW for \in Accounts, NEW a \in Amounts, Report(src, for, a)
      PROVE Books
  <2>1. a \in Int /\ src \in Accounts BY EnergiesAssumption, ActorsAssumption, Names
  <2>2. Total(remaining') = Total(remaining) BY <1>4, <1>t, <2>1, MovedTotal DEF Report
  <2>3. UNCHANGED <<surplus, eligible, batteryLast, restarts>>
    BY <1>4 DEF Report, batteryVars, updateVars
  <2> QED BY <1>n, <1>o, <2>2, <2>3 DEF Overdraft
<1>5. CASE StartUpdate BY <1>5, <1>0 DEF StartUpdate, accountVars, batteryVars
<1>6. CASE Select BY <1>6, <1>0 DEF Select, accountVars, batteryVars, bounds
<1>7. CASE ReadCounter BY <1>7, <1>0 DEF ReadCounter, accountVars, batteryVars, bounds
<1>8. CASE ReadBattery BY <1>8, <1>0 DEF ReadBattery, accountVars, bounds
<1>9. CASE ResetCounter BY <1>9, <1>0 DEF ResetCounter, accountVars, batteryVars, bounds
<1>10. CASE Apply
  <2>1. phase = "reset" /\ batteryLast' = battery /\ restarts' = restarts
    BY <1>10 DEF Apply, bounds
  <2>2. surplus * Cardinality(eligible) = 0 BY <1>n, <2>1 DEF LedgerInv, SurplusInSpill
  <2>3. /\ surplus' \in Nat /\ eligible' = Modules
        /\ Total(remaining') + surplus' * Cardinality(eligible')
             <= Total(remaining) - batteryLast + battery
    BY <1>10, <1>t, ApplyBudget
  <2>4. surplus' * Cardinality(eligible') \in Int BY <1>n, <2>3
  <2> QED BY <1>n, <2>1, <2>2, <2>3, <2>4 DEF Overdraft
<1>11. CASE Spill
  <2>1. UNCHANGED <<batteryLast, restarts>> BY <1>11 DEF Spill, batteryVars, bounds
  <2>2. /\ surplus' \in Nat
        /\ Total(remaining') + surplus' * Cardinality(eligible')
             <= Total(remaining) + surplus * Cardinality(eligible)
    BY <1>11, <1>t, SpillBudget
  <2>3. surplus' * Cardinality(eligible') \in Int BY <1>n, <2>2
  <2> QED BY <1>n, <1>o, <2>1, <2>2, <2>3 DEF Overdraft
<1>12. CASE Copy BY <1>12, <1>0 DEF Copy, accountVars, batteryVars, bounds
<1>13. CASE Save BY <1>13, <1>0 DEF Save, accountVars, batteryVars, bounds
<1>14. CASE UNCHANGED vars BY <1>14, <1>0 DEF vars, accountVars, batteryVars, updateVars, bounds
<1> QED BY <1>1, <1>2, <1>3, <1>4, <1>5, <1>6, <1>7, <1>8, <1>9, <1>10, <1>11, <1>12, <1>13,
           <1>14 DEF Next, Update

(* No step unbalances the ledger.  A restart ends what Covered says of the *)
(* battery; the rest of the invariant it brings back to its initial state. *)
LEMMA LedgerStep == LedgerInv /\ [Next]_vars => LedgerInv'
<1> SUFFICES ASSUME LedgerInv, [Next]_vars PROVE LedgerInv' OBVIOUS
<1> DEFINE Loop == SurplusInSpill /\ BatteryIsBooked /\ ShutOutIsFull
<1>t. EnergyTypeOK /\ StoreTypeOK /\ EnergyTypeOK' /\ StoreTypeOK' BY TypeStep DEF LedgerInv
<1>i. Loop BY DEF LedgerInv
<1>c. Covered'
  <2>1. CASE Overdraft' <= Overdraft /\ restarts' = restarts
    <3>1. Overdraft \in Int /\ Overdraft' \in Int
      <4>1. /\ batteryLast \in Int /\ surplus \in Int /\ Total(remaining) \in Int
            /\ Cardinality(eligible) \in Nat
        BY <1>t, AccountsTotal, EligibleCount DEF EnergyTypeOK
      <4>2. /\ batteryLast' \in Int /\ surplus' \in Int /\ Total(remaining') \in Int
            /\ Cardinality(eligible') \in Nat
        BY <1>t, AccountsTotal, EligibleCount DEF EnergyTypeOK
      <4>3. surplus * Cardinality(eligible) \in Int /\ surplus' * Cardinality(eligible') \in Int
        BY <4>1, <4>2
      <4> QED BY <4>1, <4>2, <4>3 DEF Overdraft
    <3> QED BY <2>1, <3>1 DEF LedgerInv, Covered
  <2>2. ASSUME NEW b \in Gauge \cup {Failed}, Restart(b) PROVE Covered'
    <3>1. restarts' = restarts + 1 BY <2>2 DEF Restart
    <3>2. restarts \in Nat BY DEF LedgerInv, RestartsCounted
    <3> QED BY <3>1, <3>2 DEF Covered
  <2> QED BY <2>1, <2>2, StepBooks
<1>r. RestartsCounted'
  <2>1. restarts' = restarts \/ restarts' = restarts + 1
    BY StepBooks DEF Restart
  <2> QED BY <2>1 DEF LedgerInv, RestartsCounted
<1> SUFFICES Loop' BY <1>t, <1>c, <1>r DEF LedgerInv
<1> USE DEF SurplusInSpill, BatteryIsBooked, ShutOutIsFull
<1>0. ASSUME UNCHANGED <<remaining, surplus, eligible, battery, batteryLast, phase>> PROVE Loop'
  BY <1>0, <1>i
<1>1. ASSUME NEW c \in Consumers, NEW a \in Amounts, Consume(c, a) PROVE Loop'
  BY <1>1, <1>0 DEF Consume, accountVars, batteryVars, updateVars
<1>2. ASSUME NEW m \in Clients, Query(m) PROVE Loop'
  BY <1>2, <1>0 DEF Query, accountVars, batteryVars, updateVars
<1>3. ASSUME NEW m \in Clients, ResetUsed(m) PROVE Loop'
  BY <1>3, <1>0 DEF ResetUsed, batteryVars, updateVars
<1>4. ASSUME NEW src \in Clients, NEW for \in Accounts, NEW a \in Amounts, Report(src, for, a)
      PROVE Loop'
  BY <1>4, <1>i DEF Report, Computing, batteryVars, updateVars
<1>5. CASE StartUpdate BY <1>5, <1>i DEF StartUpdate, accountVars, batteryVars
<1>6. CASE Select BY <1>6, <1>0 DEF Select, accountVars, batteryVars
<1>7. CASE ReadCounter BY <1>7, <1>0 DEF ReadCounter, accountVars, batteryVars
<1>8. CASE ReadBattery BY <1>8, <1>i DEF ReadBattery, accountVars
<1>9. CASE ResetCounter BY <1>9, <1>0 DEF ResetCounter, accountVars, batteryVars
<1>10. CASE Apply
  <2>1. phase' = "spill" /\ batteryLast' = battery /\ battery' = battery BY <1>10 DEF Apply
  <2>2. surplus' \in Nat /\ eligible' = Modules BY <1>10, <1>t, ApplyBudget
  <2> QED BY <2>1, <2>2
<1>11. CASE Spill
  <2>1. phase = "spill" /\ UNCHANGED <<battery, batteryLast, phase>>
    BY <1>11 DEF Spill, batteryVars
  <2>2. surplus' \in Nat BY <1>11, <1>t, SpillBudget
  <2>3. ShutOutIsFull' BY <1>11, <1>t, <1>i, <2>1, SpillShutsOut
  <2> QED BY <1>i, <2>1, <2>2, <2>3
<1>12. CASE Copy
  <2>1. /\ phase = "spill" /\ phase' = "save" /\ surplus <= 0
        /\ UNCHANGED <<remaining, surplus, eligible, battery, batteryLast>>
    BY <1>12 DEF Copy, accountVars, batteryVars
  <2>2. surplus = 0 BY <1>i, <1>t, <2>1 DEF EnergyTypeOK
  <2> QED BY <1>i, <2>1, <2>2
<1>13. CASE Save BY <1>13, <1>i DEF Save, accountVars, batteryVars
<1>14. ASSUME NEW b \in Gauge \cup {Failed}, Restart(b) PROVE Loop'
  <2>1. phase' = "idle" /\ surplus' = 0 /\ batteryLast' = battery' BY <1>14 DEF Restart
  <2> QED BY <2>1
<1>15. CASE UNCHANGED vars BY <1>15, <1>0 DEF vars, accountVars, batteryVars, updateVars
<1> QED BY <1>1, <1>2, <1>3, <1>4, <1>5, <1>6, <1>7, <1>8, <1>9, <1>10, <1>11, <1>12, <1>13,
           <1>14, <1>15 DEF Next, Update

(* The ledger's invariant. *)
THEOREM LedgerHolds == Spec => []LedgerInv
BY LedgerInit, LedgerStep, PTL DEF Spec

(* Until the controller's first restart the logical capacitors never hold  *)
(* more than the battery, whatever the counters showed, however the update *)
(* was interleaved with queries and reports, and though the gauge fails.   *)
THEOREM NeverOverdrawn == Spec => []NotOverdrawn
<1>1. LedgerInv => NotOverdrawn
  <2> SUFFICES ASSUME LedgerInv, restarts = 0, phase \in {"idle", "save", "read"}
               PROVE Total(remaining) <= battery
    BY DEF NotOverdrawn
  <2>1. /\ batteryLast \in Int
        /\ Total(remaining) \in Int /\ Cardinality(eligible) \in Nat
    BY AccountsTotal, EligibleCount DEF LedgerInv, EnergyTypeOK
  <2>2. surplus = 0 /\ batteryLast = battery BY DEF LedgerInv, SurplusInSpill, BatteryIsBooked
  <2>3. surplus * Cardinality(eligible) = 0 BY <2>1, <2>2
  <2>4. Overdraft <= 0 BY DEF LedgerInv, Covered
  <2> QED BY <2>1, <2>2, <2>3, <2>4 DEF Overdraft
<1> QED BY <1>1, LedgerHolds, PTL

(* Before and after restarts, the running controller never takes the       *)
(* capacitors further ahead of the battery than they are.                  *)
THEOREM NothingIsCreated == Spec => OverdraftNeverGrows
<1>1. ASSUME LedgerInv, [Next]_vars
      PROVE [Overdraft' <= Overdraft \/ \E b \in Gauge \cup {Failed} : Restart(b)]_vars
  BY <1>1, StepBooks
<1> QED BY <1>1, LedgerHolds, PTL DEF Spec, OverdraftNeverGrows

(* No module is above MAX_MODULE_ENERGY_REMAINING when the surplus has been*)
(* shared out.                                                             *)
THEOREM SpillCaps == Spec => SurplusIsCapped
<1>1. ASSUME LedgerInv, Spill
      PROVE surplus' <= 0 => \A m \in Modules : remaining'[m] <= MaxModule
  <2>1. EnergyTypeOK /\ ShutOutIsFull BY <1>1 DEF LedgerInv
  <2> QED BY <1>1, <2>1, SpillShutsOut
<1> QED BY <1>1, LedgerHolds, PTL DEF Spec, SurplusIsCapped

(* A round of the spill loop ends the loop or takes a module out of it: the *)
(* number of eligible modules bounds the rounds of the while loop in        *)
(* signpost_energy_policy_update_energy.                                    *)
SpillShrinks ==
  [][Spill => surplus' = 0 \/ Cardinality(eligible') < Cardinality(eligible)]_vars

(* The spill loop makes progress: when no module overflows, nothing is left *)
(* to divide.  This is the ranking argument behind UpdateEnds, which only   *)
(* TLC checks.                                                              *)
THEOREM SpillLoopShrinks == Spec => SpillShrinks
<1>1. ASSUME EnergyTypeOK, Spill
      PROVE surplus' = 0 \/ Cardinality(eligible') < Cardinality(eligible)
  <2> DEFINE over == [m \in Full |-> remaining[m] + surplus - MaxModule]
             open == eligible \ Full
  <2>1. /\ surplus' = IF open = {} THEN 0 ELSE Total(over) \div Cardinality(open)
        /\ eligible' = open
    BY <1>1 DEF Spill
  <2>2. eligible \in SUBSET Modules /\ IsFiniteSet(eligible)
    BY <1>1, ModulesFinite, FS_Subset DEF EnergyTypeOK
  <2>3. over \in [Full -> Int] /\ IsFiniteSet(Full)
    BY <1>1, SpillOverCounts DEF Spill
  <2>4. CASE Full = {}
    <3>1. \A m \in Full : over[m] = 0 BY <2>4
    <3> HIDE DEF over
    <3>2. Total(over) = 0 * Cardinality(Full) BY <2>3, <3>1, TotalConstant
    <3>3. Total(over) = 0 BY <2>4, <3>2, FS_EmptySet
    <3>4. CASE open = {} BY <2>1, <3>4
    <3>5. CASE open # {}
      <4>1. PICK n \in Nat \ {0} : n = Cardinality(open)
        BY <2>2, <3>5, FS_Subset, FS_CardinalityType, FS_EmptySet
      <4>2. 0 \div n = 0 BY <4>1
      <4> QED BY <2>1, <3>3, <3>5, <4>1, <4>2
    <3> QED BY <3>4, <3>5
  <2>5. CASE Full # {}
    <3>1. open \in SUBSET eligible /\ open # eligible BY <2>5 DEF Full
    <3>2. IsFiniteSet(open) BY <2>2, <3>1, FS_Subset
    <3>3. Cardinality(open) \in Nat /\ Cardinality(eligible) \in Nat
      BY <2>2, <3>2, FS_CardinalityType
    <3>4. Cardinality(open) <= Cardinality(eligible) /\ Cardinality(open) # Cardinality(eligible)
      BY <2>2, <3>1, FS_Subset
    <3> QED BY <2>1, <3>3, <3>4
  <2> QED BY <2>4, <2>5
<1> QED BY <1>1, EnergyTypeCorrect, PTL DEF Spec, SpillShrinks
-----------------------------------------------------------------------------
(* What the violation of UsedSinceReset takes.  An update is undisturbed if*)
(* no query and no reset moves the I2C selector or an offset while it is   *)
(* under way; and the controller does not restart.                         *)
Undisturbed ==
  /\ phase # "idle" => ~\E m \in Clients : Query(m) \/ ResetUsed(m)
  /\ UNCHANGED restarts

(* The accounting as it would be with a lock on the selector. *)
CalmSpec == Init /\ [][Next /\ Undisturbed]_vars

(* The counters of a list of counters. *)
Listed(s) == {s[i] : i \in DOMAIN s}

(* No counter is listed twice. *)
Distinct(s) == \A i, j \in DOMAIN s : s[i] = s[j] => i = j

(* The update goes through its list, with the counter selected that it     *)
(* means to read or to reset.                                              *)
InTurn ==
  /\ Distinct(todo) /\ (picked => selected = Head(todo))
  /\ phase \notin {"read", "reset"} => todo = <<>>

(* A module's reading is not above its counter until that is reset; then   *)
(* it stands in for the counter until it is booked.                        *)
ReadingStands(m) ==
  /\ phase = "read" /\ m \notin Listed(todo) => energy[m] <= counter[m]
  /\ phase = "reset" /\ m \in Listed(todo) => energy[m] <= counter[m]
  /\ used[m] + counter[m] + (IF phase = "reset" /\ m \notin Listed(todo) THEN energy[m] ELSE 0)
       <= since[m]

(* The inductive invariant of the undisturbed accounting. *)
UsedInv ==
  /\ EnergyTypeOK /\ StoreTypeOK /\ since \in [Modules -> Int] /\ restarts \in Nat
  /\ InTurn
  /\ \A m \in Modules : ReadingStands(m)

(* The head of a list without duplicates is not in its tail. *)
LEMMA ListShrinks ==
  ASSUME NEW s \in Seq(Counters), s # <<>>, Distinct(s)
  PROVE /\ Head(s) \in Counters /\ Distinct(Tail(s))
        /\ Listed(Tail(s)) = Listed(s) \ {Head(s)}
<1>1. /\ Len(s) \in Nat \ {0} /\ DOMAIN s = 1 .. Len(s) /\ Head(s) = s[1] /\ s[1] \in Counters
      /\ Tail(s) \in Seq(Counters) /\ Len(Tail(s)) = Len(s) - 1
      /\ DOMAIN Tail(s) = 1 .. (Len(s) - 1)
  OBVIOUS
<1>2. \A i \in 1 .. (Len(s) - 1) : Tail(s)[i] = s[i + 1] /\ i + 1 \in DOMAIN s BY <1>1
<1>3. Distinct(Tail(s))
  <2> SUFFICES ASSUME NEW i \in DOMAIN Tail(s), NEW j \in DOMAIN Tail(s), Tail(s)[i] = Tail(s)[j]
               PROVE i = j
    BY DEF Distinct
  <2>1. i \in Int /\ j \in Int /\ s[i + 1] = s[j + 1] BY <1>1, <1>2
  <2>2. i + 1 = j + 1 BY <1>1, <1>2, <2>1 DEF Distinct
  <2> QED BY <2>1, <2>2
<1>4. Listed(Tail(s)) \subseteq Listed(s) \ {Head(s)}
  <2> SUFFICES ASSUME NEW i \in 1 .. (Len(s) - 1)
               PROVE Tail(s)[i] \in Listed(s) \ {Head(s)}
    BY <1>1 DEF Listed
  <2>1. i + 1 # 1 /\ 1 \in DOMAIN s BY <1>1
  <2>2. s[i + 1] # s[1] BY <1>2, <2>1 DEF Distinct
  <2> QED BY <1>1, <1>2, <2>2 DEF Listed
<1>5. Listed(s) \ {Head(s)} \subseteq Listed(Tail(s))
  <2> SUFFICES ASSUME NEW i \in DOMAIN s, s[i] # Head(s)
               PROVE s[i] \in Listed(Tail(s))
    BY DEF Listed
  <2>1. i - 1 \in 1 .. (Len(s) - 1) /\ (i - 1) + 1 = i BY <1>1
  <2>2. Tail(s)[i - 1] = s[i] BY <1>2, <2>1
  <2> QED BY <1>1, <2>1, <2>2 DEF Listed
<1> QED BY <1>1, <1>3, <1>4, <1>5

(* The lists of an update name every module once. *)
LEMMA ListsAreComplete ==
  ASSUME NEW a, NEW b, {a, b} = {"controller", "linux"}
  PROVE /\ Distinct(<<a, b>> \o ModuleOrder)
        /\ Modules \subseteq Listed(<<a, b>> \o ModuleOrder)
<1> DEFINE s == <<a, b>> \o ModuleOrder
           n == Len(ModuleOrder)
<1>1. n \in Nat /\ DOMAIN ModuleOrder = 1 .. n /\ ModuleOrder \in Seq(Modules)
  BY ModulesAssumption
<1>2. /\ DOMAIN s = 1 .. (n + 2) /\ s[1] = a /\ s[2] = b
      /\ \A i \in 1 .. n : s[i + 2] = ModuleOrder[i]
  <2>1. <<a, b>> \in Seq({a, b}) /\ Len(<<a, b>>) = 2 OBVIOUS
  <2>2. \A i \in 1 .. n : i + 2 \in 1 .. (n + 2) /\ i + 2 > 2 /\ (i + 2) - 2 = i BY <1>1
  <2> QED BY <1>1, <2>1, <2>2
<1>3. a # b /\ a \notin Modules /\ b \notin Modules
  <2>1. a \in {"controller", "linux"} /\ b \in {"controller", "linux"} OBVIOUS
  <2>2. "controller" \in {a, b} /\ "linux" \in {a, b} /\ "controller" # "linux" OBVIOUS
  <2> QED BY <2>1, <2>2, ModulesAssumption
<1>4. \A i \in 1 .. (n + 2) : i = 1 \/ i = 2 \/ (i - 2 \in 1 .. n /\ s[i] = ModuleOrder[i - 2])
  <2> SUFFICES ASSUME NEW i \in 1 .. (n + 2), i # 1, i # 2
               PROVE i - 2 \in 1 .. n /\ s[i] = ModuleOrder[i - 2]
    OBVIOUS
  <2>1. i - 2 \in 1 .. n /\ (i - 2) + 2 = i BY <1>1
  <2> HIDE DEF s
  <2> QED BY <1>2, <2>1
<1>5. \A i \in 1 .. n : ModuleOrder[i] \in Modules BY <1>1
<1> HIDE DEF s, n
<1>6. Distinct(s)
  <2> SUFFICES ASSUME NEW i \in 1 .. (n + 2), NEW j \in 1 .. (n + 2), s[i] = s[j]
               PROVE i = j
    BY <1>2 DEF Distinct
  <2>1. CASE i \in {1, 2} \/ j \in {1, 2} BY <1>2, <1>3, <1>4, <1>5, <2>1
  <2>2. CASE i \notin {1, 2} /\ j \notin {1, 2}
    <3>1. /\ i - 2 \in DOMAIN ModuleOrder /\ j - 2 \in DOMAIN ModuleOrder
          /\ ModuleOrder[i - 2] = ModuleOrder[j - 2]
      BY <1>1, <1>4, <2>2
    <3>2. i - 2 = j - 2 BY <3>1, ModulesAssumption DEF IsInjective
    <3> QED BY <1>1, <3>2
  <2> QED BY <2>1, <2>2
<1>7. Modules \subseteq Listed(s)
  <2> SUFFICES ASSUME NEW i \in 1 .. n PROVE ModuleOrder[i] \in Listed(s)
    BY <1>1 DEF Modules
  <2>1. i + 2 \in DOMAIN s /\ s[i + 2] = ModuleOrder[i] BY <1>1, <1>2
  <2> QED BY <2>1 DEF Listed
<1> QED BY <1>6, <1>7 DEF s

(* Nothing is used at the start. *)
LEMMA UsedInit == Init => UsedInv
<1> SUFFICES ASSUME Init PROVE UsedInv OBVIOUS
<1>1. EnergyTypeOK /\ StoreTypeOK BY TypeInit
<1>2. /\ phase = "idle" /\ todo = <<>> /\ picked = FALSE /\ restarts = 0
      /\ counter = [c \in Counters |-> 0] /\ since = [m \in Modules |-> 0]
      /\ used = [m \in Modules |-> 0]
  BY DEF Init
<1>3. InTurn BY <1>2 DEF InTurn, Distinct
<1>4. \A m \in Modules : ReadingStands(m) BY <1>2, Names DEF ReadingStands
<1> QED BY <1>1, <1>2, <1>3, <1>4 DEF UsedInv

(* An undisturbed step keeps every module's reading behind its counter. *)
LEMMA UsedStep == UsedInv /\ [Next /\ Undisturbed]_vars => UsedInv'
<1> SUFFICES ASSUME UsedInv, [Next /\ Undisturbed]_vars PROVE UsedInv' OBVIOUS
<1> DEFINE Stands == \A m \in Modules : ReadingStands(m)
           Kept == /\ since' \in [Modules -> Int] /\ UNCHANGED restarts
                   /\ InTurn' /\ Stands'
<1>t. EnergyTypeOK /\ StoreTypeOK /\ EnergyTypeOK' /\ StoreTypeOK' BY TypeStep DEF UsedInv
<1>i. since \in [Modules -> Int] /\ restarts \in Nat /\ InTurn /\ Stands
  BY DEF UsedInv
<1>n. \A m \in Modules :
        /\ m \in Counters /\ counter[m] \in Nat /\ energy[m] \in Nat /\ used[m] \in Int
        /\ since[m] \in Int
  BY <1>t, <1>i, Names DEF EnergyTypeOK
<1>p. picked => todo # <<>> BY <1>t DEF EnergyTypeOK
<1> SUFFICES Kept BY <1>t, <1>i DEF UsedInv
<1>0. ASSUME UNCHANGED <<phase, todo, counter, energy, used, since>> PROVE Stands'
  BY <1>0, <1>i DEF ReadingStands
<1>u. CASE UNCHANGED vars
  <2>1. UNCHANGED <<phase, todo, picked, selected, counter, energy, used, since, restarts>>
    BY <1>u DEF vars, counterVars, accountVars, updateVars, bounds
  <2> QED BY <2>1, <1>0, <1>i DEF InTurn
<1> SUFFICES ASSUME Next, Undisturbed PROVE Kept BY <1>u
<1>1. ASSUME NEW c \in Consumers, NEW a \in Amounts, Consume(c, a) PROVE Kept
  <2>1. c \in Counters /\ a \in Nat BY EnergiesAssumption, ActorsAssumption
  <2>2. /\ counter' = [counter EXCEPT ![c] = @ + a]
        /\ since' = IF c \in Modules THEN [since EXCEPT ![c] = @ + a] ELSE since
        /\ UNCHANGED <<phase, todo, picked, selected, energy, used, restarts>>
    BY <1>1 DEF Consume, accountVars, updateVars, bounds
  <2>3. \A m \in Modules : IF m = c THEN counter'[m] = counter[m] + a /\ since'[m] = since[m] + a
                                    ELSE counter'[m] = counter[m] /\ since'[m] = since[m]
    BY <1>t, <1>i, <1>n, <2>1, <2>2 DEF EnergyTypeOK
  <2>4. since' \in [Modules -> Int] BY <1>i, <2>1, <2>2
  <2>5. Stands'
    <3> SUFFICES ASSUME NEW m \in Modules PROVE ReadingStands(m)' OBVIOUS
    <3>1. ReadingStands(m) BY <1>i
    <3> QED BY <1>n, <2>1, <2>2, <2>3, <3>1 DEF ReadingStands
  <2> QED BY <1>i, <2>2, <2>4, <2>5 DEF InTurn
<1>2. ASSUME NEW m \in Clients, Query(m) PROVE Kept
  <2>1. phase = "idle" BY <1>2 DEF Undisturbed
  <2>2. UNCHANGED <<phase, todo, picked, counter, energy, used, since, restarts>>
    BY <1>2 DEF Query, accountVars, updateVars, bounds
  <2>3. todo = <<>> BY <1>i, <2>1 DEF InTurn
  <2>4. ~picked' BY <1>p, <2>2, <2>3
  <2> QED BY <1>0, <1>i, <2>2, <2>3, <2>4 DEF InTurn
<1>3. ASSUME NEW c \in Clients, ResetUsed(c) PROVE Kept
  <2>1. phase = "idle" BY <1>3 DEF Undisturbed
  <2>2. /\ used' = [used EXCEPT ![c] = -counter[c]] /\ since' = [since EXCEPT ![c] = 0]
        /\ UNCHANGED <<phase, todo, picked, counter, energy, restarts>>
    BY <1>3 DEF ResetUsed, updateVars, bounds
  <2>3. todo = <<>> BY <1>i, <2>1 DEF InTurn
  <2>4. ~picked' BY <1>p, <2>2, <2>3
  <2>5. Stands'
    <3> SUFFICES ASSUME NEW m \in Modules PROVE ReadingStands(m)' OBVIOUS
    <3>1. ReadingStands(m) BY <1>i
    <3>2. IF m = c THEN used'[m] = -counter[m] /\ since'[m] = 0
                   ELSE used'[m] = used[m] /\ since'[m] = since[m]
      BY <1>t, <1>i, <2>2 DEF EnergyTypeOK
    <3> QED BY <1>n, <2>1, <2>2, <3>1, <3>2 DEF ReadingStands
  <2>6. since' \in [Modules -> Int]
    <3>1. since' = [m \in Modules |-> IF m = c THEN 0 ELSE since[m]] BY <1>i, <2>2
    <3>2. \A m \in Modules : (IF m = c THEN 0 ELSE since[m]) \in Int BY <1>n
    <3> QED BY <3>1, <3>2
  <2> QED BY <1>i, <2>2, <2>3, <2>4, <2>5, <2>6 DEF InTurn
<1>4. ASSUME NEW src \in Clients, NEW for \in Accounts, NEW a \in Amounts, Report(src, for, a)
      PROVE Kept
  <2> DEFINE Change(m) == (IF m = for THEN a ELSE 0) - (IF m = src THEN a ELSE 0)
  <2>1. /\ used' = [m \in Modules |-> used[m] + Change(m)]
        /\ since' = [m \in Modules |-> since[m] + Change(m)]
        /\ UNCHANGED <<phase, todo, picked, selected, counter, energy, restarts>>
    BY <1>4 DEF Report, counterVars, updateVars
  <2>2. \A m \in Modules : Change(m) \in Int BY EnergiesAssumption
  <2> HIDE DEF Change
  <2>3. since' \in [Modules -> Int] BY <1>n, <2>1, <2>2
  <2>4. Stands'
    <3> SUFFICES ASSUME NEW m \in Modules PROVE ReadingStands(m)' OBVIOUS
    <3>1. ReadingStands(m) BY <1>i
    <3>2. used'[m] = used[m] + Change(m) /\ since'[m] = since[m] + Change(m) BY <2>1
    <3> QED BY <1>n, <2>1, <2>2, <3>1, <3>2 DEF ReadingStands
  <2> QED BY <1>i, <2>1, <2>3, <2>4 DEF InTurn
<1>5. CASE StartUpdate
  <2>1. /\ phase = "idle" /\ phase' = "read" /\ todo' = <<"linux", "controller">> \o ModuleOrder
        /\ picked' = FALSE /\ UNCHANGED <<counter, energy, used, since, restarts>>
    BY <1>5 DEF StartUpdate, counterVars, accountVars
  <2>2. Distinct(todo') /\ Modules \subseteq Listed(todo') BY <2>1, ListsAreComplete
  <2>3. InTurn' BY <2>1, <2>2 DEF InTurn
  <2>4. Stands' BY <1>i, <2>1, <2>2 DEF ReadingStands
  <2> QED BY <1>i, <2>1, <2>3, <2>4
<1>6. CASE Select
  <2>1. /\ phase \in {"read", "reset"} /\ selected' = Head(todo)
        /\ UNCHANGED <<phase, todo, counter, energy, used, since, restarts>>
    BY <1>6 DEF Select, accountVars, bounds
  <2> QED BY <1>0, <1>i, <2>1 DEF InTurn
<1>7. CASE ReadCounter
  <2>1. /\ phase = "read" /\ picked
        /\ energy' = [energy EXCEPT ![Head(todo)] = counter[selected]]
        /\ todo' = Tail(todo) /\ picked' = FALSE
        /\ UNCHANGED <<phase, counter, used, since, restarts>>
    BY <1>7 DEF ReadCounter, counterVars, accountVars, bounds
  <2>2. selected = Head(todo) /\ todo # <<>> /\ Distinct(todo) /\ todo \in Seq(Counters)
    BY <1>t, <1>p, <1>i, <2>1 DEF InTurn, EnergyTypeOK
  <2>3. Distinct(todo') /\ Listed(todo') = Listed(todo) \ {selected}
    BY <2>1, <2>2, ListShrinks
  <2>4. InTurn' BY <2>1, <2>3 DEF InTurn
  <2>5. Stands'
    <3> SUFFICES ASSUME NEW m \in Modules PROVE ReadingStands(m)' OBVIOUS
    <3>1. ReadingStands(m) BY <1>i
    <3>2. energy'[m] = IF m = selected THEN counter[m] ELSE energy[m]
      BY <1>t, <1>n, <2>1, <2>2 DEF EnergyTypeOK
    <3> QED BY <1>n, <2>1, <2>3, <3>1, <3>2 DEF ReadingStands
  <2> QED BY <1>i, <2>1, <2>4, <2>5
<1>8. CASE ReadBattery
  <2>1. /\ phase = "read" /\ todo = <<>> /\ phase' = "reset"
        /\ todo' = <<"controller", "linux">> \o ModuleOrder
        /\ UNCHANGED <<picked, counter, energy, used, since, restarts>>
    BY <1>8 DEF ReadBattery, counterVars, accountVars, bounds
  <2>2. Distinct(todo') /\ Modules \subseteq Listed(todo') BY <2>1, ListsAreComplete
  <2>3. ~picked' BY <1>p, <2>1
  <2>4. InTurn' BY <2>1, <2>2, <2>3 DEF InTurn
  <2>5. Listed(todo) = {} BY <2>1 DEF Listed
  <2>6. Stands' BY <1>i, <1>n, <2>1, <2>2, <2>5 DEF ReadingStands
  <2> QED BY <1>i, <2>1, <2>4, <2>6
<1>9. CASE ResetCounter
  <2>1. /\ phase = "reset" /\ picked /\ counter' = [counter EXCEPT ![selected] = 0]
        /\ todo' = Tail(todo) /\ picked' = FALSE
        /\ UNCHANGED <<phase, energy, used, since, restarts>>
    BY <1>9 DEF ResetCounter, accountVars, bounds
  <2>2. selected = Head(todo) /\ todo # <<>> /\ Distinct(todo) /\ todo \in Seq(Counters)
    BY <1>t, <1>p, <1>i, <2>1 DEF InTurn, EnergyTypeOK
  <2>3. Distinct(todo') /\ Listed(todo') = Listed(todo) \ {selected}
    BY <2>1, <2>2, ListShrinks
  <2>4. selected \in Listed(todo) BY <2>2 DEF Listed
  <2>5. InTurn' BY <2>1, <2>3 DEF InTurn
  <2>6. Stands'
    <3> SUFFICES ASSUME NEW m \in Modules PROVE ReadingStands(m)' OBVIOUS
    <3>1. ReadingStands(m) BY <1>i
    <3>2. counter'[m] = IF m = selected THEN 0 ELSE counter[m]
      BY <1>t, <1>n, <2>1 DEF EnergyTypeOK
    <3> QED BY <1>n, <2>1, <2>3, <2>4, <3>1, <3>2 DEF ReadingStands
  <2> QED BY <1>i, <2>1, <2>5, <2>6
<1>10. CASE Apply
  <2>1. /\ phase = "reset" /\ todo = <<>> /\ phase' = "spill"
        /\ used' = [m \in Modules |-> used[m] + energy[m]]
        /\ UNCHANGED <<todo, picked, selected, counter, energy, since, restarts>>
    BY <1>10 DEF Apply, counterVars, bounds
  <2>2. Listed(todo) = {} BY <2>1 DEF Listed
  <2>3. Stands'
    <3> SUFFICES ASSUME NEW m \in Modules PROVE ReadingStands(m)' OBVIOUS
    <3>1. ReadingStands(m) BY <1>i
    <3> QED BY <1>n, <2>1, <2>2, <3>1 DEF ReadingStands
  <2> QED BY <1>i, <2>1, <2>3 DEF InTurn
<1>11. ASSUME Spill \/ Copy \/ Save PROVE Kept
  <2>1. /\ phase \in {"spill", "save"} /\ phase' \in {"spill", "save", "idle"}
        /\ UNCHANGED <<todo, picked, selected, counter, energy, used, since, restarts>>
    BY <1>11 DEF Spill, Copy, Save, counterVars, accountVars, bounds
  <2>2. Stands' BY <1>i, <2>1 DEF ReadingStands
  <2> QED BY <1>i, <2>1, <2>2 DEF InTurn
<1>12. ASSUME NEW b \in Gauge \cup {Failed}, Restart(b) PROVE FALSE
  BY <1>12, <1>i DEF Restart, Undisturbed
<1> QED BY <1>1, <1>2, <1>3, <1>4, <1>5, <1>6, <1>7, <1>8, <1>9, <1>10, <1>11, <1>12
        DEF Next, Update

(* Without a query or a reset of a module in the middle of an update, and  *)
(* without a restart, a query never returns more than the module has drawn *)
(* or had reported since its reset: the selector that the update shares    *)
(* with the API's handlers, and the copy that a restart goes back to, are  *)
(* all that can break what signpost_energy_policy.h:50 promises.           *)
THEOREM UndisturbedUse == CalmSpec => []UsedSinceReset
<1>1. UsedInv => UsedSinceReset
  <2> SUFFICES ASSUME UsedInv, NEW m \in Modules, phase = "idle"
               PROVE used[m] + counter[m] <= since[m]
    BY DEF UsedSinceReset
  <2>1. ReadingStands(m) BY DEF UsedInv
  <2>2. used[m] \in Int /\ counter[m] \in Nat BY Names DEF UsedInv, EnergyTypeOK
  <2> QED BY <2>1, <2>2 DEF ReadingStands
<1> QED BY <1>1, UsedInit, UsedStep, PTL DEF CalmSpec
=============================================================================
