-------------------------- MODULE LedgerMathProofs --------------------------
(***************************************************************************)
(* What the money arithmetic does for every amount: the excess of a        *)
(* posting, the way back from a posting, and the agreement of the rules by *)
(* which the services derive the status of a fee; and how a total over a   *)
(* finite table changes with its rows, which the proofs about the books    *)
(* need.                                                                   *)
(*                                                                         *)
(* SumFunctionOnSet is defined by recursion over a set.  Its facts are     *)
(* proved by infinite descent: among the subsets for which a fact fails    *)
(* there would be a minimal one (MinimalSubset).                           *)
(***************************************************************************)
EXTENDS LedgerMath, Functions, FiniteSetTheorems, WellFoundedInduction, TLAPS

-----------------------------------------------------------------------------
(* Totals *)

\* The element a sum takes next.
Pick(s) == CHOOSE x \in s : TRUE

\* g gives each subset of S its sum of f.
IsSum(g, f, S) ==
    g = [s \in SUBSET S |-> IF s = {} THEN 0 ELSE f[Pick(s)] + g[s \ {Pick(s)}]]

\* The first-order form of induction over a finite set.
LEMMA MinimalSubset ==
    ASSUME NEW S, IsFiniteSet(S), NEW T, T \subseteq SUBSET S, T # {}
    PROVE  \E m \in T : \A t \in T : t \subseteq m => t = m
  <1>1. IsWellFoundedOn(StrictSubsetOrdering(S), SUBSET S)
    BY FS_StrictSubsetOrderingWellFounded, FS_FiniteSubsetsOfFinite
  <1>2. PICK m \in T : \A t \in T : <<t, m>> \notin StrictSubsetOrdering(S)
    BY <1>1, WFMin
  <1> QED BY <1>2 DEF StrictSubsetOrdering

\* The picked element is one.
LEMMA PickIsIn == \A s : s # {} => Pick(s) \in s
  BY DEF Pick

\* Two such functions agree where both are defined: induction on the common subset.
LEMMA SumsAgree ==
    ASSUME NEW f, NEW S, IsFiniteSet(S), NEW R, R \subseteq S, NEW g, NEW h,
           IsSum(g, f, S), IsSum(h, f, R)
    PROVE  \A s \in SUBSET R : g[s] = h[s]
  <1> DEFINE T == {s \in SUBSET R : g[s] # h[s]}
  <1>1. SUFFICES ASSUME T # {} PROVE FALSE
    OBVIOUS
  <1>2. PICK m \in T : \A t \in T : t \subseteq m => t = m
    <2>1. IsFiniteSet(R) /\ T \subseteq SUBSET R
      BY FS_Subset
    <2> HIDE DEF T
    <2> QED BY <1>1, <2>1, MinimalSubset
  <1>3. /\ g[m] = IF m = {} THEN 0 ELSE f[Pick(m)] + g[m \ {Pick(m)}]
        /\ h[m] = IF m = {} THEN 0 ELSE f[Pick(m)] + h[m \ {Pick(m)}]
    BY <1>2 DEF IsSum
  <1>4. m # {} => m \ {Pick(m)} \notin T
    BY <1>2, PickIsIn
  <1> QED BY <1>2, <1>3, <1>4

\* There is one for every finite set: it extends those of the smaller subsets.
LEMMA SumExists ==
    ASSUME NEW f, NEW S, IsFiniteSet(S)
    PROVE  \E g : IsSum(g, f, S)
  <1> DEFINE T == {s \in SUBSET S : ~ \E g : IsSum(g, f, s)}
  <1>1. SUFFICES ASSUME T # {} PROVE FALSE
    OBVIOUS
  <1>2. PICK m \in T : \A t \in T : t \subseteq m => t = m
    <2>1. T \subseteq SUBSET S
      OBVIOUS
    <2> HIDE DEF T
    <2> QED BY <1>1, <2>1, MinimalSubset
  <1> DEFINE G(t) == CHOOSE g : IsSum(g, f, t)
             V(t) == G(t)[t]
             h == [s \in SUBSET m |-> IF s = {} THEN 0 ELSE f[Pick(s)] + V(s \ {Pick(s)})]
  <1>3. \A t \in SUBSET m : t # m => IsSum(G(t), f, t) /\ IsFiniteSet(t)
    <2>1. \A t \in SUBSET m : t # m => \E g : IsSum(g, f, t)
      BY <1>2
    <2>2. \A t \in SUBSET m : IsFiniteSet(t)
      BY <1>2, FS_Subset
    <2> QED BY <2>1, <2>2
  <1>4. ASSUME NEW u \in SUBSET m, u # m PROVE h[u] = V(u)
    <2>1. IsSum(G(u), f, u)
      BY <1>3, <1>4
    <2>2. V(u) = IF u = {} THEN 0 ELSE f[Pick(u)] + G(u)[u \ {Pick(u)}]
      <3> HIDE DEF G
      <3> QED BY <2>1 DEF IsSum
    <2>3. ASSUME u # {} PROVE G(u)[u \ {Pick(u)}] = V(u \ {Pick(u)})
      <3> DEFINE w == u \ {Pick(u)}
      <3>1. w \subseteq u /\ w # m /\ w \in SUBSET m
        BY <1>4, <2>3, PickIsIn
      <3>2. IsSum(G(w), f, w) /\ IsFiniteSet(u)
        BY <1>3, <1>4, <3>1
      <3> HIDE DEF G, w
      <3> QED BY <2>1, <3>1, <3>2, SumsAgree DEF w
    <2> HIDE DEF V
    <2> QED BY <2>2, <2>3
  <1>5. \A s \in SUBSET m : s # {} => s \ {Pick(s)} \in SUBSET m /\ s \ {Pick(s)} # m
    BY PickIsIn
  <1>6. IsSum(h, f, m)
    <2> HIDE DEF V
    <2>1. h = [s \in SUBSET m |-> IF s = {} THEN 0 ELSE f[Pick(s)] + h[s \ {Pick(s)}]]
      <3>1. \A s \in SUBSET m : s # {} => V(s \ {Pick(s)}) = h[s \ {Pick(s)}]
        BY <1>4, <1>5
      <3> QED BY <3>1
    <2> HIDE DEF h
    <2> QED BY <2>1 DEF IsSum
  <1> QED BY <1>2, <1>6

\* The community module's sum is the value of such a function.
LEMMA SumDef ==
    ASSUME NEW f, NEW S
    PROVE  SumFunctionOnSet(f, S) = (CHOOSE g : IsSum(g, f, S))[S]
  BY DEF SumFunctionOnSet, FoldFunctionOnSet, MapThenFoldSet, IsSum, Pick

\* So a sum takes one element after the other.
LEMMA SumStep ==
    ASSUME NEW f, NEW S, IsFiniteSet(S)
    PROVE  SumFunctionOnSet(f, S) =
             IF S = {} THEN 0 ELSE f[Pick(S)] + SumFunctionOnSet(f, S \ {Pick(S)})
  <1> DEFINE G(t) == CHOOSE g : IsSum(g, f, t)
             w == S \ {Pick(S)}
  <1>1. IsSum(G(S), f, S) /\ IsSum(G(w), f, w) /\ w \subseteq S
    <2>1. IsFiniteSet(w)
      BY FS_Subset
    <2> QED BY <2>1, SumExists
  <1>2. SumFunctionOnSet(f, S) = G(S)[S] /\ SumFunctionOnSet(f, w) = G(w)[w]
    BY SumDef
  <1> HIDE DEF G
  <1>3. G(S)[S] = IF S = {} THEN 0 ELSE f[Pick(S)] + G(S)[w]
    BY <1>1 DEF IsSum
  <1>4. G(S)[w] = G(w)[w]
    <2> HIDE DEF w
    <2> QED BY <1>1, SumsAgree
  <1> QED BY <1>2, <1>3, <1>4

\* Nothing sums to zero.
LEMMA SumEmpty == \A f : SumFunctionOnSet(f, {}) = 0
  BY SumStep, FS_EmptySet

\* A sum of integers is one.
LEMMA SumInt ==
    ASSUME NEW S, IsFiniteSet(S), NEW f, \A x \in S : f[x] \in Int
    PROVE  SumFunctionOnSet(f, S) \in Int
  <1> DEFINE T == {s \in SUBSET S : SumFunctionOnSet(f, s) \notin Int}
  <1>1. SUFFICES ASSUME T # {} PROVE FALSE
    OBVIOUS
  <1>2. PICK m \in T : \A t \in T : t \subseteq m => t = m
    <2>1. T \subseteq SUBSET S
      OBVIOUS
    <2> HIDE DEF T
    <2> QED BY <1>1, <2>1, MinimalSubset
  <1>3. IsFiniteSet(m) /\ m \subseteq S
    BY <1>2, FS_Subset
  <1>4. SumFunctionOnSet(f, m) =
          IF m = {} THEN 0 ELSE f[Pick(m)] + SumFunctionOnSet(f, m \ {Pick(m)})
    BY <1>3, SumStep
  <1>5. m # {} => Pick(m) \in m /\ m \ {Pick(m)} \notin T
    BY <1>2, PickIsIn
  <1> QED BY <1>2, <1>3, <1>4, <1>5

\* Any element may be taken out first, not only the one picked.
LEMMA SumRemove ==
    ASSUME NEW S, IsFiniteSet(S), NEW f, \A x \in S : f[x] \in Int, NEW x \in S
    PROVE  SumFunctionOnSet(f, S) = f[x] + SumFunctionOnSet(f, S \ {x})
  <1> DEFINE Wrong(s) == \E y \in s :
                 SumFunctionOnSet(f, s) # f[y] + SumFunctionOnSet(f, s \ {y})
             T == {s \in SUBSET S : Wrong(s)}
  <1>1. SUFFICES ASSUME T # {} PROVE FALSE
    OBVIOUS
  <1>2. PICK m \in T : \A t \in T : t \subseteq m => t = m
    <2>1. T \subseteq SUBSET S
      OBVIOUS
    <2> HIDE DEF T
    <2> QED BY <1>1, <2>1, MinimalSubset
  <1>3. PICK y \in m : SumFunctionOnSet(f, m) # f[y] + SumFunctionOnSet(f, m \ {y})
    BY <1>2
  <1> DEFINE x0 == Pick(m)
             rest == (m \ {x0}) \ {y}
  <1>4. IsFiniteSet(m) /\ m \subseteq S /\ x0 \in m /\ x0 \in S /\ y \in S
    BY <1>2, <1>3, FS_Subset, PickIsIn
  <1> HIDE DEF x0
  <1>5. SumFunctionOnSet(f, m) = f[x0] + SumFunctionOnSet(f, m \ {x0})
    BY <1>4, <1>3, SumStep DEF x0
  <1>6. x0 # y
    BY <1>3, <1>5
  <1>7. m \ {x0} \notin T /\ m \ {y} \notin T
    BY <1>2, <1>3, <1>4
  <1>8. SumFunctionOnSet(f, m \ {x0}) = f[y] + SumFunctionOnSet(f, (m \ {x0}) \ {y})
    BY <1>7, <1>6, <1>4
  <1>9. SumFunctionOnSet(f, m \ {y}) = f[x0] + SumFunctionOnSet(f, (m \ {y}) \ {x0})
    BY <1>7, <1>6, <1>4
  <1>10. (m \ {y}) \ {x0} = (m \ {x0}) \ {y}
    OBVIOUS
  <1>11. SumFunctionOnSet(f, (m \ {x0}) \ {y}) \in Int
    <2>1. IsFiniteSet((m \ {x0}) \ {y})
      BY <1>4, FS_Subset
    <2> QED BY <2>1, <1>4, SumInt
  <1> QED BY <1>3, <1>4, <1>5, <1>8, <1>9, <1>10, <1>11

\* A sum depends only on the values on its set.
LEMMA SumSame ==
    ASSUME NEW S, IsFiniteSet(S), NEW f, NEW g, \A x \in S : f[x] = g[x]
    PROVE  SumFunctionOnSet(f, S) = SumFunctionOnSet(g, S)
  <1> DEFINE T == {s \in SUBSET S : SumFunctionOnSet(f, s) # SumFunctionOnSet(g, s)}
  <1>1. SUFFICES ASSUME T # {} PROVE FALSE
    OBVIOUS
  <1>2. PICK m \in T : \A t \in T : t \subseteq m => t = m
    <2>1. T \subseteq SUBSET S
      OBVIOUS
    <2> HIDE DEF T
    <2> QED BY <1>1, <2>1, MinimalSubset
  <1>3. IsFiniteSet(m) /\ m \subseteq S
    BY <1>2, FS_Subset
  <1>4. /\ SumFunctionOnSet(f, m) =
             IF m = {} THEN 0 ELSE f[Pick(m)] + SumFunctionOnSet(f, m \ {Pick(m)})
        /\ SumFunctionOnSet(g, m) =
             IF m = {} THEN 0 ELSE g[Pick(m)] + SumFunctionOnSet(g, m \ {Pick(m)})
    BY <1>3, SumStep
  <1>5. m # {} => Pick(m) \in m /\ m \ {Pick(m)} \notin T
    BY <1>2, PickIsIn
  <1> QED BY <1>2, <1>3, <1>4, <1>5

\* The change of one row changes a total by as much.
LEMMA SumUpdate ==
    ASSUME NEW S, IsFiniteSet(S), NEW f, NEW g, NEW x \in S,
           \A y \in S : f[y] \in Int, g[x] \in Int,
           \A y \in S \ {x} : g[y] = f[y]
    PROVE  SumFunctionOnSet(g, S) = SumFunctionOnSet(f, S) + g[x] - f[x]
  <1> DEFINE R == S \ {x}
  <1>1. IsFiniteSet(R)
    BY FS_Subset
  <1>2. SumFunctionOnSet(g, R) = SumFunctionOnSet(f, R)
    BY <1>1, SumSame
  <1>3. \A y \in S : g[y] \in Int
    OBVIOUS
  <1>4. /\ SumFunctionOnSet(f, S) = f[x] + SumFunctionOnSet(f, R)
        /\ SumFunctionOnSet(g, S) = g[x] + SumFunctionOnSet(g, R)
    BY <1>3, SumRemove
  <1>5. SumFunctionOnSet(f, R) \in Int
    BY <1>1, SumInt
  <1> QED BY <1>2, <1>4, <1>5

\* No smaller terms, no smaller total.
LEMMA SumLe ==
    ASSUME NEW S, IsFiniteSet(S), NEW f, NEW g,
           \A x \in S : f[x] \in Int /\ g[x] \in Int /\ f[x] <= g[x]
    PROVE  SumFunctionOnSet(f, S) <= SumFunctionOnSet(g, S)
  <1> DEFINE T == {s \in SUBSET S : ~(SumFunctionOnSet(f, s) <= SumFunctionOnSet(g, s))}
  <1>1. SUFFICES ASSUME T # {} PROVE FALSE
    OBVIOUS
  <1>2. PICK m \in T : \A t \in T : t \subseteq m => t = m
    <2>1. T \subseteq SUBSET S
      OBVIOUS
    <2> HIDE DEF T
    <2> QED BY <1>1, <2>1, MinimalSubset
  <1>3. IsFiniteSet(m) /\ m \subseteq S /\ IsFiniteSet(m \ {Pick(m)})
    BY <1>2, FS_Subset
  <1>4. /\ SumFunctionOnSet(f, m) =
             IF m = {} THEN 0 ELSE f[Pick(m)] + SumFunctionOnSet(f, m \ {Pick(m)})
        /\ SumFunctionOnSet(g, m) =
             IF m = {} THEN 0 ELSE g[Pick(m)] + SumFunctionOnSet(g, m \ {Pick(m)})
    BY <1>3, SumStep
  <1>5. m # {} => Pick(m) \in m /\ m \ {Pick(m)} \notin T
    BY <1>2, PickIsIn
  <1>6. /\ SumFunctionOnSet(f, m \ {Pick(m)}) \in Int
        /\ SumFunctionOnSet(g, m \ {Pick(m)}) \in Int
    BY <1>3, SumInt
  <1> QED BY <1>2, <1>3, <1>4, <1>5, <1>6

\* A total of natural numbers is one ...
LEMMA SumNat ==
    ASSUME NEW S, IsFiniteSet(S), NEW f, \A x \in S : f[x] \in Nat
    PROVE  SumFunctionOnSet(f, S) \in Nat
  <1> DEFINE T == {s \in SUBSET S : SumFunctionOnSet(f, s) \notin Nat}
  <1>1. SUFFICES ASSUME T # {} PROVE FALSE
    OBVIOUS
  <1>2. PICK m \in T : \A t \in T : t \subseteq m => t = m
    <2>1. T \subseteq SUBSET S
      OBVIOUS
    <2> HIDE DEF T
    <2> QED BY <1>1, <2>1, MinimalSubset
  <1>3. IsFiniteSet(m) /\ m \subseteq S
    BY <1>2, FS_Subset
  <1>4. SumFunctionOnSet(f, m) =
          IF m = {} THEN 0 ELSE f[Pick(m)] + SumFunctionOnSet(f, m \ {Pick(m)})
    BY <1>3, SumStep
  <1>5. m # {} => Pick(m) \in m /\ m \ {Pick(m)} \notin T
    BY <1>2, PickIsIn
  <1> QED BY <1>2, <1>3, <1>4, <1>5

\* ... and no less than any of its terms.
LEMMA SumTerm ==
    ASSUME NEW S, IsFiniteSet(S), NEW f, \A x \in S : f[x] \in Nat, NEW x \in S
    PROVE  f[x] <= SumFunctionOnSet(f, S)
  <1>1. SumFunctionOnSet(f, S) = f[x] + SumFunctionOnSet(f, S \ {x})
    <2>1. \A y \in S : f[y] \in Int
      OBVIOUS
    <2> QED BY <2>1, SumRemove
  <1>2. SumFunctionOnSet(f, S \ {x}) \in Nat
    <2>1. IsFiniteSet(S \ {x})
      BY FS_Subset
    <2> QED BY <2>1, SumNat
  <1>3. f[x] \in Nat
    OBVIOUS
  <1> QED BY <1>1, <1>2, <1>3

\* Totals add up row by row.
LEMMA SumPlus ==
    ASSUME NEW S, IsFiniteSet(S), NEW f, NEW g, NEW h,
           \A x \in S : f[x] \in Int /\ g[x] \in Int /\ h[x] = f[x] + g[x]
    PROVE  SumFunctionOnSet(h, S) = SumFunctionOnSet(f, S) + SumFunctionOnSet(g, S)
  <1> DEFINE T == {s \in SUBSET S : SumFunctionOnSet(h, s)
                                     # SumFunctionOnSet(f, s) + SumFunctionOnSet(g, s)}
  <1>1. SUFFICES ASSUME T # {} PROVE FALSE
    OBVIOUS
  <1>2. PICK m \in T : \A t \in T : t \subseteq m => t = m
    <2>1. T \subseteq SUBSET S
      OBVIOUS
    <2> HIDE DEF T
    <2> QED BY <1>1, <2>1, MinimalSubset
  <1> DEFINE r == m \ {Pick(m)}
  <1>3. IsFiniteSet(m) /\ m \subseteq S /\ IsFiniteSet(r) /\ r \subseteq S
    BY <1>2, FS_Subset
  <1>4. \A u : SumFunctionOnSet(u, m) = IF m = {} THEN 0 ELSE u[Pick(m)] + SumFunctionOnSet(u, r)
    BY <1>3, SumStep
  <1>5. m # {} => Pick(m) \in m /\ r \notin T
    BY <1>2, PickIsIn
  <1>6. SumFunctionOnSet(f, r) \in Int /\ SumFunctionOnSet(g, r) \in Int
    BY <1>3, SumInt
  <1>7. m # {} => SumFunctionOnSet(h, r) = SumFunctionOnSet(f, r) + SumFunctionOnSet(g, r)
    BY <1>3, <1>5
  <1>8. /\ SumFunctionOnSet(h, m) # SumFunctionOnSet(f, m) + SumFunctionOnSet(g, m)
        /\ \A x \in m : f[x] \in Int /\ g[x] \in Int /\ h[x] = f[x] + g[x]
    BY <1>2
  <1> HIDE DEF r, T
  <1> QED BY <1>4, <1>5, <1>6, <1>7, <1>8

\* A total over the rows that satisfy a condition is one over all rows in which the
\* others count for nothing.
LEMMA SumWhere ==
    ASSUME NEW S, IsFiniteSet(S), NEW f, \A x \in S : f[x] \in Int, NEW A, A \subseteq S
    PROVE  SumFunctionOnSet(f, A)
             = SumFunctionOnSet([x \in S |-> IF x \in A THEN f[x] ELSE 0], S)
  <1> DEFINE g == [x \in S |-> IF x \in A THEN f[x] ELSE 0]
             T == {s \in SUBSET S : SumFunctionOnSet(f, A \cap s) # SumFunctionOnSet(g, s)}
  <1>1. SUFFICES ASSUME T # {} PROVE FALSE
    <2>1. A \cap S = A
      OBVIOUS
    <2> QED BY <2>1
  <1>2. PICK m \in T : \A t \in T : t \subseteq m => t = m
    <2>1. T \subseteq SUBSET S
      OBVIOUS
    <2> HIDE DEF T
    <2> QED BY <1>1, <2>1, MinimalSubset
  <1> DEFINE x == Pick(m)
             r == m \ {x}
  <1>3. IsFiniteSet(m) /\ m \subseteq S /\ IsFiniteSet(A \cap m)
    BY <1>2, FS_Subset
  <1>4. SumFunctionOnSet(g, m) = IF m = {} THEN 0 ELSE g[x] + SumFunctionOnSet(g, r)
    <2> HIDE DEF g
    <2> QED BY <1>3, SumStep
  <1>5. CASE m = {}
    <2>1. A \cap m = {}
      BY <1>5
    <2> QED BY <1>2, <1>4, <1>5, <2>1, SumEmpty
  <1>6. CASE m # {}
    <2>1. x \in m /\ x \in S /\ r \notin T /\ r \in SUBSET S
      BY <1>2, <1>6, PickIsIn
    <2>2. SumFunctionOnSet(f, A \cap r) = SumFunctionOnSet(g, r)
      BY <2>1
    <2>3. CASE x \in A
      <3>1. (A \cap m) \ {x} = A \cap r
        OBVIOUS
      <3>2. \A y \in A \cap m : f[y] \in Int
        OBVIOUS
      <3>3. x \in A \cap m
        BY <2>1, <2>3
      <3> HIDE DEF x, r
      <3>4. SumFunctionOnSet(f, A \cap m) = f[x] + SumFunctionOnSet(f, A \cap r)
        BY <1>3, <3>1, <3>2, <3>3, SumRemove
      <3>5. g[x] = f[x]
        BY <2>1, <2>3
      <3> HIDE DEF g
      <3> QED BY <1>2, <1>4, <1>6, <2>2, <3>4, <3>5
    <2>4. CASE x \notin A
      <3>1. A \cap m = A \cap r
        BY <2>4
      <3>2. g[x] = 0
        BY <2>1, <2>4
      <3>3. SumFunctionOnSet(g, r) \in Int
        <4>1. IsFiniteSet(r) /\ \A y \in r : g[y] \in Int
          BY <1>3, <2>1, FS_Subset
        <4> HIDE DEF g, r
        <4> QED BY <4>1, SumInt
      <3>4. SumFunctionOnSet(f, A \cap m) # SumFunctionOnSet(g, m)
        BY <1>2
      <3> HIDE DEF g, x, r
      <3> QED BY <3>4, <1>4, <1>6, <2>2, <3>1, <3>2, <3>3
    <2> QED BY <2>3, <2>4
  <1> QED BY <1>5, <1>6

\* A table of zeros has the total 0.
LEMMA SumZero ==
    ASSUME NEW S, IsFiniteSet(S), NEW f, \A x \in S : f[x] = 0
    PROVE  SumFunctionOnSet(f, S) = 0
  <1> DEFINE g == [x \in S |-> IF x \in {} THEN f[x] ELSE 0]
  <1>1. SumFunctionOnSet(f, {}) = SumFunctionOnSet(g, S)
    <2>1. \A x \in S : f[x] \in Int
      OBVIOUS
    <2> QED BY <2>1, SumWhere
  <1>2. SumFunctionOnSet(f, S) = SumFunctionOnSet(g, S)
    <2>1. \A x \in S : f[x] = g[x]
      OBVIOUS
    <2> HIDE DEF g
    <2> QED BY <2>1, SumSame
  <1> QED BY <1>1, <1>2, SumEmpty

-----------------------------------------------------------------------------
(* Postings *)

\* A fee or an invoice as far as the posting rules alone can tell: that no paid
\* amount is negative depends on the books as a whole.
LooseFee == [final : Nat, paid : Int, waived : Nat, status : FeeStatuses]
LooseInvoice == [amount : Nat, paid : Int, penalty : Nat, status : InvoiceStatuses]

\* An invoice stays one when its paid amount and its status are replaced.
LEMMA InvoiceUpdate ==
    ASSUME NEW i \in LooseInvoice, NEW x \in Int, NEW s \in InvoiceStatuses
    PROVE  [i EXCEPT !.paid = x, !.status = s] \in LooseInvoice
  BY DEF LooseInvoice

\* The same for a fee whose paid amount was replaced, then its status; the other
\* amounts are left alone.
LEMMA FeePaidUpdate ==
    ASSUME NEW f \in LooseFee, NEW x \in Int
    PROVE  LET after == [f EXCEPT !.paid = x]
           IN  /\ after \in LooseFee
               /\ after.paid = x /\ after.status = f.status
               /\ after.final = f.final /\ after.waived = f.waived
  BY DEF LooseFee

\* ... and when that status is what recompute_fee_from_invoices gives it.
LEMMA FeeStatusUpdate ==
    ASSUME NEW f \in LooseFee, NEW s \in FeeStatuses
    PROVE  LET new == [f EXCEPT !.status = s]
           IN  /\ new \in LooseFee
               /\ new.status = s
               /\ \A active \in BOOLEAN : RecomputedStatus(new, active) = RecomputedStatus(f, active)
  BY DEF LooseFee, RecomputedStatus, FeeRemaining

\* Every status rule of a fee yields a status.
LEMMA FeeStatusesTyped ==
    ASSUME NEW f \in LooseFee, NEW active \in BOOLEAN
    PROVE  {PostedFeeStatus(f), SettledFeeStatus(f), CreditedFeeStatus(f),
            RecomputedStatus(f, active)} \subseteq FeeStatuses
  BY DEF LooseFee, FeeStatuses, PostedFeeStatus, SettledFeeStatus, CreditedFeeStatus,
         RecomputedStatus, FeeRemaining

\* What a posting of a on invoice i yields (apply_verified_payment_balances).
LEMMA PayInvoiceYields ==
    ASSUME NEW i \in LooseInvoice, NEW a \in Int
    PROVE  /\ PayInvoice(i, a) \in LooseInvoice
           /\ PayInvoice(i, a).paid = i.paid + a
           /\ Due(PayInvoice(i, a)) = Due(i)
  <1> DEFINE s == CASE i.paid + a >= Due(i) -> "paid"
                    [] i.paid + a < Due(i) /\ i.paid + a > 0 -> "partial"
                    [] OTHER -> i.status
  <1>1. s \in InvoiceStatuses
    BY DEF LooseInvoice, InvoiceStatuses, Due
  <1>2. PayInvoice(i, a) = [i EXCEPT !.paid = i.paid + a, !.status = s]
    BY DEF PayInvoice
  <1>3. i.paid + a \in Int
    BY DEF LooseInvoice
  <1> HIDE DEF s
  <1>4. PayInvoice(i, a) \in LooseInvoice
    BY <1>1, <1>2, <1>3, InvoiceUpdate
  <1>5. PayInvoice(i, a).paid = i.paid + a /\ Due(PayInvoice(i, a)) = Due(i)
    BY <1>2 DEF LooseInvoice, Due
  <1> QED BY <1>4, <1>5

\* What a refund of a on invoice i yields (reverse_payment_balances).
LEMMA ReverseInvoiceYields ==
    ASSUME NEW i \in LooseInvoice, NEW a \in Int
    PROVE  /\ ReverseInvoice(i, a) \in LooseInvoice
           /\ ReverseInvoice(i, a).paid = Above(i.paid, a)
  <1> DEFINE s == CASE i.paid <= a -> "issued"
                    [] i.paid > a /\ i.paid - a < i.amount -> "partial"
                    [] OTHER -> i.status
  <1>1. s \in InvoiceStatuses
    BY DEF LooseInvoice, InvoiceStatuses
  <1>2. ReverseInvoice(i, a) = [i EXCEPT !.paid = Above(i.paid, a), !.status = s]
    BY DEF ReverseInvoice
  <1>3. Above(i.paid, a) \in Int
    BY DEF LooseInvoice, Above
  <1> HIDE DEF s
  <1>4. ReverseInvoice(i, a) \in LooseInvoice
    BY <1>1, <1>2, <1>3, InvoiceUpdate
  <1>5. ReverseInvoice(i, a).paid = Above(i.paid, a)
    BY <1>2 DEF LooseInvoice
  <1> QED BY <1>4, <1>5

\* The invoice a credit of a leaves is an invoice (apply_to_invoice).
LEMMA CreditLeavesInvoiceYields ==
    ASSUME NEW i \in LooseInvoice, NEW a \in Int
    PROVE  /\ CreditLeavesInvoice(i, a) \in LooseInvoice
           /\ CreditLeavesInvoice(i, a).paid = i.paid - a
           /\ CreditLeavesInvoice(i, a).status # "cancelled"
  <1> DEFINE after == [i EXCEPT !.paid = i.paid - a]
             s == CASE FullyPaid(after) -> "paid"
                    [] ~FullyPaid(after) /\ after.paid > 0 -> "partial"
                    [] OTHER -> "issued"
  <1>1. after \in LooseInvoice /\ after.paid = i.paid - a
    BY DEF LooseInvoice
  <1>2. s \in InvoiceStatuses /\ s # "cancelled"
    BY DEF InvoiceStatuses
  <1>3. CreditLeavesInvoice(i, a) = [after EXCEPT !.status = s]
    BY DEF CreditLeavesInvoice
  <1> HIDE DEF after, s
  <1> QED BY <1>1, <1>2, <1>3 DEF LooseInvoice

\* The excess of a posting is a number.
LEMMA ExcessYields ==
    ASSUME NEW i \in LooseInvoice, NEW a \in Int
    PROVE  Excess(i, a) \in Int
  BY DEF LooseInvoice, Excess, Above, Due

\* What a posting of a on fee f yields.
LEMMA PayFeeYields ==
    ASSUME NEW f \in LooseFee, NEW a \in Int
    PROVE  \E after \in LooseFee :
             /\ after.paid = f.paid + a /\ after.status = f.status
             /\ after.final = f.final /\ after.waived = f.waived
             /\ PayFee(f, a) = [after EXCEPT !.status = PostedFeeStatus(after)]
             /\ PayFee(f, a) \in LooseFee /\ PayFee(f, a).paid = after.paid
  <1> DEFINE after == [f EXCEPT !.paid = f.paid + a]
  <1>1. f.paid + a \in Int
    BY DEF LooseFee
  <1>2. /\ after \in LooseFee
        /\ after.paid = f.paid + a /\ after.status = f.status
        /\ after.final = f.final /\ after.waived = f.waived
    BY <1>1, FeePaidUpdate
  <1>3. PayFee(f, a) = [after EXCEPT !.status = PostedFeeStatus(after)]
    BY DEF PayFee
  <1> HIDE DEF after
  <1>4. PostedFeeStatus(after) \in FeeStatuses
    BY <1>2, FeeStatusesTyped
  <1>5. PayFee(f, a) \in LooseFee /\ PayFee(f, a).paid = after.paid
    BY <1>2, <1>3, <1>4 DEF LooseFee
  <1> QED BY <1>2, <1>3, <1>5

\* What a refund of a on fee f yields.
LEMMA ReverseFeeYields ==
    ASSUME NEW f \in LooseFee, NEW a \in Int
    PROVE  \E after \in LooseFee :
             /\ after.paid = Above(f.paid, a) /\ after.status = f.status
             /\ after.final = f.final /\ after.waived = f.waived
             /\ ReverseFee(f, a) = [after EXCEPT !.status = SettledFeeStatus(after)]
             /\ ReverseFee(f, a) \in LooseFee /\ ReverseFee(f, a).paid = after.paid
  <1> DEFINE after == [f EXCEPT !.paid = Above(f.paid, a)]
  <1>1. Above(f.paid, a) \in Int
    BY DEF LooseFee, Above
  <1>2. /\ after \in LooseFee
        /\ after.paid = Above(f.paid, a) /\ after.status = f.status
        /\ after.final = f.final /\ after.waived = f.waived
    BY <1>1, FeePaidUpdate
  <1>3. ReverseFee(f, a) = [after EXCEPT !.status = SettledFeeStatus(after)]
    BY DEF ReverseFee
  <1> HIDE DEF after
  <1>4. SettledFeeStatus(after) \in FeeStatuses
    BY <1>2, FeeStatusesTyped
  <1>5. ReverseFee(f, a) \in LooseFee /\ ReverseFee(f, a).paid = after.paid
    BY <1>2, <1>3, <1>4 DEF LooseFee
  <1> QED BY <1>2, <1>3, <1>5

\* What a credit of a that leaves fee f yields.
LEMMA CreditLeavesFeeYields ==
    ASSUME NEW f \in LooseFee, NEW a \in Int
    PROVE  \E after \in LooseFee :
             /\ after.paid = f.paid - a /\ after.status = f.status
             /\ after.final = f.final /\ after.waived = f.waived
             /\ CreditLeavesFee(f, a) = [after EXCEPT !.status = SettledFeeStatus(after)]
             /\ CreditLeavesFee(f, a) \in LooseFee /\ CreditLeavesFee(f, a).paid = after.paid
  <1> DEFINE after == [f EXCEPT !.paid = f.paid - a]
  <1>1. f.paid - a \in Int
    BY DEF LooseFee
  <1>2. /\ after \in LooseFee
        /\ after.paid = f.paid - a /\ after.status = f.status
        /\ after.final = f.final /\ after.waived = f.waived
    BY <1>1, FeePaidUpdate
  <1>3. CreditLeavesFee(f, a) = [after EXCEPT !.status = SettledFeeStatus(after)]
    BY DEF CreditLeavesFee
  <1> HIDE DEF after
  <1>4. SettledFeeStatus(after) \in FeeStatuses
    BY <1>2, FeeStatusesTyped
  <1>5. CreditLeavesFee(f, a) \in LooseFee /\ CreditLeavesFee(f, a).paid = after.paid
    BY <1>2, <1>3, <1>4 DEF LooseFee
  <1> QED BY <1>2, <1>3, <1>5

\* What a credit of a that reaches fee f yields.
LEMMA CreditReachesFeeYields ==
    ASSUME NEW f \in LooseFee, NEW a \in Int
    PROVE  \E after \in LooseFee :
             /\ after.paid = f.paid + a /\ after.status = f.status
             /\ after.final = f.final /\ after.waived = f.waived
             /\ CreditReachesFee(f, a) = [after EXCEPT !.status = CreditedFeeStatus(after)]
             /\ CreditReachesFee(f, a) \in LooseFee /\ CreditReachesFee(f, a).paid = after.paid
  <1> DEFINE after == [f EXCEPT !.paid = f.paid + a]
  <1>1. f.paid + a \in Int
    BY DEF LooseFee
  <1>2. /\ after \in LooseFee
        /\ after.paid = f.paid + a /\ after.status = f.status
        /\ after.final = f.final /\ after.waived = f.waived
    BY <1>1, FeePaidUpdate
  <1>3. CreditReachesFee(f, a) = [after EXCEPT !.status = CreditedFeeStatus(after)]
    BY DEF CreditReachesFee
  <1> HIDE DEF after
  <1>4. CreditedFeeStatus(after) \in FeeStatuses
    BY <1>2, FeeStatusesTyped
  <1>5. CreditReachesFee(f, a) \in LooseFee /\ CreditReachesFee(f, a).paid = after.paid
    BY <1>2, <1>3, <1>4 DEF LooseFee
  <1> QED BY <1>2, <1>3, <1>5

\* A fee stays one under recompute_fee_from_invoices.
LEMMA RecomputedFeeYields ==
    ASSUME NEW f \in LooseFee, NEW active \in BOOLEAN
    PROVE  RecomputedFee(f, active) \in LooseFee
  <1>1. RecomputedStatus(f, active) \in FeeStatuses
    BY FeeStatusesTyped
  <1> QED BY <1>1, FeeStatusUpdate DEF RecomputedFee

-----------------------------------------------------------------------------
\* A posting's excess is part of the payment, and it is exactly what the posting
\* adds to the surplus of the invoice: recording each posting's excess neither
\* loses money nor counts an earlier surplus again (payment_service.py, the
\* comment on counting only the excess that this posting adds).
THEOREM ExcessIsTheNewSurplus ==
    ASSUME NEW i \in Invoice, NEW a \in Nat
    PROVE  /\ 0 <= Excess(i, a) /\ Excess(i, a) <= a
           /\ Above(PayInvoice(i, a).paid, Due(PayInvoice(i, a)))
                = Above(i.paid, Due(i)) + Excess(i, a)
  <1>0. i \in LooseInvoice /\ a \in Int
    BY DEF Invoice, LooseInvoice
  <1>1. /\ PayInvoice(i, a).paid = i.paid + a
        /\ Due(PayInvoice(i, a)) = Due(i)
    BY <1>0, PayInvoiceYields
  <1>2. i.paid \in Nat /\ Due(i) \in Nat
    BY DEF Invoice, Due
  <1>3. \A x, d \in Nat : LET e == Above(x + a, d) - Above(x, d)
                          IN  0 <= e /\ e <= a /\ Above(x + a, d) = Above(x, d) + e
    BY DEF Above
  <1>4. Excess(i, a) = Above(i.paid + a, Due(i)) - Above(i.paid, Due(i))
    BY DEF Excess
  <1> QED BY <1>1, <1>2, <1>3, <1>4

\* reverse_payment_balances takes back from an invoice and a fee what
\* apply_verified_payment_balances put there, and the clamp at zero plays no part.
THEOREM ReverseReturnsThePaidAmount ==
    ASSUME NEW i \in Invoice, NEW f \in Fee, NEW a \in Nat
    PROVE  /\ ReverseInvoice(PayInvoice(i, a), a).paid = i.paid
           /\ ReverseFee(PayFee(f, a), a).paid = f.paid
  <1>1. i \in LooseInvoice /\ f \in LooseFee /\ a \in Int /\ i.paid \in Nat /\ f.paid \in Nat
    BY DEF Invoice, LooseInvoice, Fee, LooseFee
  <1>2. ReverseInvoice(PayInvoice(i, a), a).paid = Above(i.paid + a, a)
    BY <1>1, PayInvoiceYields, ReverseInvoiceYields
  <1>3. ReverseFee(PayFee(f, a), a).paid = Above(f.paid + a, a)
    <2>1. PayFee(f, a) \in LooseFee /\ PayFee(f, a).paid = f.paid + a
      BY <1>1, PayFeeYields
    <2> QED BY <1>1, <2>1, ReverseFeeYields
  <1> QED BY <1>1, <1>2, <1>3 DEF Above

\* The rules by which a verified payment, a refund and a transferred credit set the
\* status of a live fee that has an invoice agree with recompute_fee_from_invoices,
\* the rule that repairs a fee: none of them leaves a status that the next
\* recomputation would change.
THEOREM FeeRulesAgree ==
    ASSUME NEW f \in Fee, NEW a \in Nat \ {0},
           f.status = RecomputedStatus(f, TRUE)
    PROVE  /\ PayFee(f, a).status = RecomputedStatus(PayFee(f, a), TRUE)
           /\ ReverseFee(f, a).status = RecomputedStatus(ReverseFee(f, a), TRUE)
           /\ a <= f.paid =>
                CreditLeavesFee(f, a).status = RecomputedStatus(CreditLeavesFee(f, a), TRUE)
           /\ CreditReachesFee(f, a).status = RecomputedStatus(CreditReachesFee(f, a), TRUE)
  <1>1. f \in LooseFee /\ a \in Int /\ f.paid \in Nat /\ f.final \in Nat /\ f.waived \in Nat
    BY DEF Fee, LooseFee
  <1>2. PayFee(f, a).status = RecomputedStatus(PayFee(f, a), TRUE)
    <2>1. PICK after \in LooseFee :
             /\ after.paid = f.paid + a /\ after.status = f.status
             /\ after.final = f.final /\ after.waived = f.waived
             /\ PayFee(f, a) = [after EXCEPT !.status = PostedFeeStatus(after)]
      BY <1>1, PayFeeYields
    <2>2. PostedFeeStatus(after) = RecomputedStatus(after, TRUE)
      BY <1>1, <2>1 DEF PostedFeeStatus, RecomputedStatus, FeeRemaining, Above
    <2>3. PostedFeeStatus(after) \in FeeStatuses
      BY FeeStatusesTyped
    <2> DEFINE new == [after EXCEPT !.status = PostedFeeStatus(after)]
    <2>4. new.status = PostedFeeStatus(after) /\ RecomputedStatus(new, TRUE) = RecomputedStatus(after, TRUE)
      BY <2>3, FeeStatusUpdate
    <2> QED BY <2>1, <2>2, <2>4
  <1>3. ReverseFee(f, a).status = RecomputedStatus(ReverseFee(f, a), TRUE)
    <2>1. PICK after \in LooseFee :
             /\ after.paid = Above(f.paid, a) /\ after.status = f.status
             /\ after.final = f.final /\ after.waived = f.waived
             /\ ReverseFee(f, a) = [after EXCEPT !.status = SettledFeeStatus(after)]
      BY <1>1, ReverseFeeYields
    <2>2. SettledFeeStatus(after) = RecomputedStatus(after, TRUE)
      BY <1>1, <2>1 DEF SettledFeeStatus, RecomputedStatus, FeeRemaining, Above
    <2>3. SettledFeeStatus(after) \in FeeStatuses
      BY FeeStatusesTyped
    <2> DEFINE new == [after EXCEPT !.status = SettledFeeStatus(after)]
    <2>4. new.status = SettledFeeStatus(after) /\ RecomputedStatus(new, TRUE) = RecomputedStatus(after, TRUE)
      BY <2>3, FeeStatusUpdate
    <2> QED BY <2>1, <2>2, <2>4
  <1>4. ASSUME a <= f.paid
        PROVE  CreditLeavesFee(f, a).status = RecomputedStatus(CreditLeavesFee(f, a), TRUE)
    <2>1. PICK after \in LooseFee :
             /\ after.paid = f.paid - a /\ after.status = f.status
             /\ after.final = f.final /\ after.waived = f.waived
             /\ CreditLeavesFee(f, a) = [after EXCEPT !.status = SettledFeeStatus(after)]
      BY <1>1, CreditLeavesFeeYields
    <2>2. SettledFeeStatus(after) = RecomputedStatus(after, TRUE)
      BY <1>4, <1>1, <2>1 DEF SettledFeeStatus, RecomputedStatus, FeeRemaining, Above
    <2>3. SettledFeeStatus(after) \in FeeStatuses
      BY FeeStatusesTyped
    <2> DEFINE new == [after EXCEPT !.status = SettledFeeStatus(after)]
    <2>4. new.status = SettledFeeStatus(after) /\ RecomputedStatus(new, TRUE) = RecomputedStatus(after, TRUE)
      BY <2>3, FeeStatusUpdate
    <2> QED BY <2>1, <2>2, <2>4
  <1>5. CreditReachesFee(f, a).status = RecomputedStatus(CreditReachesFee(f, a), TRUE)
    <2>1. PICK after \in LooseFee :
             /\ after.paid = f.paid + a /\ after.status = f.status
             /\ after.final = f.final /\ after.waived = f.waived
             /\ CreditReachesFee(f, a) = [after EXCEPT !.status = CreditedFeeStatus(after)]
      BY <1>1, CreditReachesFeeYields
    <2>2. CreditedFeeStatus(after) = RecomputedStatus(after, TRUE)
      BY <1>1, <2>1 DEF CreditedFeeStatus, RecomputedStatus, FeeRemaining, Above
    <2>3. CreditedFeeStatus(after) \in FeeStatuses
      BY FeeStatusesTyped
    <2> DEFINE new == [after EXCEPT !.status = CreditedFeeStatus(after)]
    <2>4. new.status = CreditedFeeStatus(after) /\ RecomputedStatus(new, TRUE) = RecomputedStatus(after, TRUE)
      BY <2>3, FeeStatusUpdate
    <2> QED BY <2>1, <2>2, <2>4
  <1> QED BY <1>2, <1>3, <1>4, <1>5
=============================================================================
