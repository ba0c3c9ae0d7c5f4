----------------------------- MODULE GateProofs -----------------------------
(***************************************************************************)
(* What the prices of carts add up to, and what the offers of CrossSell    *)
(* keep to, for carts of any length and any prices.                        *)
(***************************************************************************)
EXTENDS CrossSell, FiniteSetTheorems, WellFoundedInduction, TLAPS

-----------------------------------------------------------------------------
(* Sums over a finite set.  CartTotal takes the lines of a cart one by one,*)
(* each time the one that CHOOSE names; the total does not depend on it.   *)

First(s) == CHOOSE x \in s : TRUE

\* F sums the values v over every subset of D.
Sums(F, v, D) ==
    F = [s \in SUBSET D |-> IF s = {} THEN 0 ELSE v[First(s)] + F[s \ {First(s)}]]

\* The smallest subset of D with a property, if any has it.
LEMMA Smallest ==
    ASSUME NEW D, IsFiniteSet(D), NEW T, T \subseteq SUBSET D, T # {}
    PROVE  \E s \in T : \A x \in s : s \ {x} \notin T
<1>1. IsWellFoundedOn(StrictSubsetOrdering(D), SUBSET D)
  BY FS_FiniteSubsetsOfFinite, FS_StrictSubsetOrderingWellFounded
<1>2. PICK s \in T : \A y \in T : <<y, s>> \notin StrictSubsetOrdering(D)
  BY <1>1, WFMin
<1>3. \A x \in s : <<s \ {x}, s>> \in StrictSubsetOrdering(D)
  BY <1>2 DEF StrictSubsetOrdering
<1> QED
  BY <1>2, <1>3

LEMMA SumsAt ==
    ASSUME NEW D, NEW v, NEW F, Sums(F, v, D), NEW s \in SUBSET D
    PROVE  /\ s = {} => F[s] = 0
           /\ s # {} => /\ First(s) \in s
                        /\ F[s] = v[First(s)] + F[s \ {First(s)}]
<1>1. s # {} => First(s) \in s
  BY DEF First
<1>2. F[s] = IF s = {} THEN 0 ELSE v[First(s)] + F[s \ {First(s)}]
  BY DEF Sums
<1> QED
  BY <1>1, <1>2

\* Sums of values from a set that is closed under addition stay in the set.
LEMMA SumsStay ==
    ASSUME NEW N, 0 \in N, \A a, b \in N : a + b \in N,
           NEW D, IsFiniteSet(D), NEW v, \A x \in D : v[x] \in N,
           NEW F, Sums(F, v, D)
    PROVE  \A s \in SUBSET D : F[s] \in N
<1>1. \A s \in SUBSET D : s # {} => First(s) \in s /\ F[s] = v[First(s)] + F[s \ {First(s)}]
  BY SumsAt
<1>2. F[{}] = 0
  BY SumsAt
<1> DEFINE T == {s \in SUBSET D : F[s] \notin N}
<1> SUFFICES ASSUME T # {} PROVE FALSE
  OBVIOUS
<1>3. PICK s \in T : \A x \in s : s \ {x} \notin T
  <2>1. T \subseteq SUBSET D
    OBVIOUS
  <2> HIDE DEF T
  <2> QED BY <2>1, Smallest
<1>4. s \in SUBSET D /\ F[s] \notin N /\ s # {}
  BY <1>2
<1>5. First(s) \in s /\ F[s \ {First(s)}] \in N /\ v[First(s)] \in N
  BY <1>1, <1>3, <1>4
<1> QED
  BY <1>1, <1>4, <1>5

\* Two sums of the same values agree on the sets they both know.
LEMMA SumsAgree ==
    ASSUME NEW D, IsFiniteSet(D), NEW E, NEW v, NEW w, NEW F, NEW G,
           Sums(F, v, D), Sums(G, w, E), NEW C, C \subseteq D, C \subseteq E,
           \A x \in C : v[x] = w[x]
    PROVE  \A s \in SUBSET C : F[s] = G[s]
<1> DEFINE T == {s \in SUBSET C : F[s] # G[s]}
<1> SUFFICES ASSUME T # {} PROVE FALSE
  OBVIOUS
<1>0. IsFiniteSet(C)
  BY FS_Subset
<1>1. PICK s \in T : \A x \in s : s \ {x} \notin T
  <2>1. T \subseteq SUBSET C
    OBVIOUS
  <2> HIDE DEF T
  <2> QED BY <1>0, <2>1, Smallest
<1>2. s \in SUBSET D /\ s \in SUBSET E /\ s \in SUBSET C
  OBVIOUS
<1>3. s # {}
  BY <1>2, SumsAt
<1>4. First(s) \in s /\ F[s] = v[First(s)] + F[s \ {First(s)}]
  BY <1>2, <1>3, SumsAt
<1>5. G[s] = w[First(s)] + G[s \ {First(s)}]
  <2> HIDE DEF T
  <2> QED BY <1>2, <1>3, SumsAt
<1>6. F[s \ {First(s)}] = G[s \ {First(s)}]
  BY <1>1, <1>2, <1>4
<1> QED
  BY <1>2, <1>4, <1>5, <1>6

\* F can be told from any set with one element less.
TakesOut(F, v, D) == \A s \in SUBSET D : \A x \in s : F[s] = v[x] + F[s \ {x}]

\* Whichever value is taken out first, the sum is the same.
LEMMA TakeOut ==
    ASSUME NEW D, IsFiniteSet(D), NEW v, \A x \in D : v[x] \in Int,
           NEW F, Sums(F, v, D)
    PROVE  TakesOut(F, v, D)
<1> DEFINE T == {s \in SUBSET D : \E x \in s : F[s] # v[x] + F[s \ {x}]}
<1>0. \A s \in SUBSET D : s # {} => First(s) \in s /\ F[s] = v[First(s)] + F[s \ {First(s)}]
  BY SumsAt
<1> SUFFICES ASSUME T # {} PROVE FALSE
  BY DEF TakesOut
<1>1. PICK s \in T : \A x \in s : s \ {x} \notin T
  <2>1. T \subseteq SUBSET D
    OBVIOUS
  <2> HIDE DEF T
  <2> QED BY <2>1, Smallest
<1>2. s \in SUBSET D
  OBVIOUS
<1>3. PICK x \in s : F[s] # v[x] + F[s \ {x}]
  OBVIOUS
<1>4. PICK y \in s : F[s] = v[y] + F[s \ {y}]
  BY <1>0, <1>2, <1>3
<1>5. x # y
  BY <1>3, <1>4
<1> DEFINE r == (s \ {x}) \ {y}
<1>6. F[s \ {y}] = v[x] + F[r]
  <2>1. s \ {y} \in SUBSET D /\ x \in s \ {y} /\ (s \ {y}) \ {x} = r
    BY <1>2, <1>5
  <2>2. s \ {y} \notin T
    BY <1>1
  <2> QED BY <2>1, <2>2
<1>7. F[s \ {x}] = v[y] + F[r]
  <2>1. s \ {x} \in SUBSET D /\ y \in s \ {x}
    BY <1>2, <1>5
  <2>2. s \ {x} \notin T
    BY <1>1
  <2> QED BY <2>1, <2>2
<1>8. v[x] \in Int /\ v[y] \in Int /\ F[r] \in Int
  <2>1. r \in SUBSET D
    BY <1>2
  <2>2. \A u \in SUBSET D : F[u] \in Int
    <3> HIDE DEF T
    <3>1. 0 \in Int /\ \A a, b \in Int : a + b \in Int
      OBVIOUS
    <3> QED BY <3>1, SumsStay
  <2> QED BY <1>2, <2>1, <2>2
<1> HIDE DEF r, T
<1> QED
  BY <1>3, <1>4, <1>6, <1>7, <1>8

\* There is a sum over every finite set.
LEMMA SumsExist ==
    ASSUME NEW D, IsFiniteSet(D), NEW v
    PROVE  \E F : Sums(F, v, D)
<1> DEFINE T == {s \in SUBSET D : ~\E F : Sums(F, v, s)}
           Sum(s) == CHOOSE F : Sums(F, v, s)
<1> SUFFICES ASSUME T # {} PROVE FALSE
  <2>1. D \in SUBSET D
    OBVIOUS
  <2> QED BY <2>1
<1>1. IsWellFoundedOn(StrictSubsetOrdering(D), SUBSET D)
  BY FS_FiniteSubsetsOfFinite, FS_StrictSubsetOrderingWellFounded
<1>2. PICK E \in T : \A y \in T : <<y, E>> \notin StrictSubsetOrdering(D)
  <2>1. T \subseteq SUBSET D
    OBVIOUS
  <2> HIDE DEF T
  <2> QED BY <1>1, <2>1, WFMin
<1>3. \A s \in SUBSET E : s # E => Sums(Sum(s), v, s)
  <2> SUFFICES ASSUME NEW s \in SUBSET E, s # E PROVE Sums(Sum(s), v, s)
    OBVIOUS
  <2>1. <<s, E>> \in StrictSubsetOrdering(D)
    BY DEF StrictSubsetOrdering
  <2>2. s \in SUBSET D /\ s \notin T
    BY <1>2, <2>1
  <2>3. \E F : Sums(F, v, s)
    BY <2>2
  <2> QED BY <2>3
<1> DEFINE Rest(s) == s \ {First(s)}
           H == [s \in SUBSET E |-> IF s = {} THEN 0 ELSE v[First(s)] + Sum(Rest(s))[Rest(s)]]
<1>4. \A s \in SUBSET E : s # {} => Rest(s) \in SUBSET E /\ Rest(s) # E /\ IsFiniteSet(Rest(s))
  <2>1. \A s \in SUBSET E : s # {} => First(s) \in s
    BY DEF First
  <2>2. \A s \in SUBSET E : IsFiniteSet(s)
    BY <1>2, FS_Subset
  <2> QED BY <2>1, <2>2
<1>5. \A s \in SUBSET E : s # {} => H[Rest(s)] = Sum(Rest(s))[Rest(s)]
  <2> SUFFICES ASSUME NEW s \in SUBSET E, s # {}
               PROVE  H[Rest(s)] = Sum(Rest(s))[Rest(s)]
    OBVIOUS
  <2>1. PICK q : q = Rest(s)
    OBVIOUS
  <2>2. q \in SUBSET E /\ q # E /\ IsFiniteSet(q)
    BY <1>4, <2>1
  <2>3. Sums(Sum(q), v, q)
    BY <1>3, <2>2
  <2>4. CASE q = {}
    <3>1. Sum(q)[q] = 0
      <4> HIDE DEF Sum
      <4> QED BY <2>3, <2>4, SumsAt
    <3>2. H[q] = 0
      BY <2>2, <2>4
    <3> QED BY <2>1, <3>1, <3>2
  <2>5. CASE q # {}
    <3>1. Rest(q) \in SUBSET E /\ Rest(q) # E /\ IsFiniteSet(Rest(q)) /\ Rest(q) \subseteq q
      BY <1>4, <2>2, <2>5
    <3>2. Sum(q)[q] = v[First(q)] + Sum(q)[Rest(q)]
      <4> HIDE DEF Sum
      <4> QED BY <2>3, <2>5, SumsAt
    <3>3. Sums(Sum(Rest(q)), v, Rest(q))
      BY <1>3, <3>1
    <3>4. Sum(q)[Rest(q)] = Sum(Rest(q))[Rest(q)]
      <4>1. Rest(q) \in SUBSET Rest(q)
        OBVIOUS
      <4> HIDE DEF Sum, Rest
      <4> QED BY <2>2, <2>3, <3>1, <3>3, <4>1, SumsAgree
    <3>5. H[q] = v[First(q)] + Sum(Rest(q))[Rest(q)]
      BY <2>2, <2>5
    <3> HIDE DEF H, Sum, Rest
    <3> QED BY <2>1, <3>2, <3>4, <3>5
  <2> QED BY <2>4, <2>5
<1>6. H = [s \in SUBSET E |-> IF s = {} THEN 0 ELSE v[First(s)] + H[Rest(s)]]
  <2>1. \A s \in SUBSET E : H[s] = IF s = {} THEN 0 ELSE v[First(s)] + H[Rest(s)]
    <3>1. \A s \in SUBSET E : H[s] = IF s = {} THEN 0 ELSE v[First(s)] + Sum(Rest(s))[Rest(s)]
      OBVIOUS
    <3> HIDE DEF H, Sum, Rest
    <3> QED BY <1>5, <3>1
  <2>2. H = [s \in SUBSET E |-> H[s]]
    OBVIOUS
  <2> HIDE DEF H, Rest
  <2> QED BY <2>1, <2>2
<1>7. Sums(H, v, E)
  <2> HIDE DEF H, Sum
  <2> QED BY <1>6 DEF Sums
<1> QED
  <2>1. ~\E F : Sums(F, v, E)
    BY <1>2
  <2> HIDE DEF H
  <2> QED BY <1>7, <2>1
\* The sum over a set with one element more.
LEMMA SumsGrow ==
    ASSUME NEW E, IsFiniteSet(E), NEW n \in E, NEW D, D = E \ {n}, NEW v, NEW w,
           \A x \in E : w[x] \in Int, \A x \in D : w[x] = v[x],
           NEW F, Sums(F, v, D), NEW G, Sums(G, w, E)
    PROVE  F[D] \in Int /\ G[E] = F[D] + w[n]
<1>1. D \subseteq E /\ IsFiniteSet(D)
  BY FS_Subset
<1>2. \A s \in SUBSET D : F[s] = G[s]
  BY <1>1, SumsAgree
<1>3. TakesOut(G, w, E)
  BY TakeOut
<1>4. \A s \in SUBSET E : G[s] \in Int
  <2>1. 0 \in Int /\ \A a, b \in Int : a + b \in Int
    OBVIOUS
  <2> QED BY <2>1, SumsStay
<1>5. G[E] = w[n] + G[D] /\ F[D] = G[D] /\ G[D] \in Int
  BY <1>1, <1>2, <1>3, <1>4 DEF TakesOut
<1> QED
  BY <1>5

-----------------------------------------------------------------------------
(* The price of a cart.                                                    *)

\* What the lines of a cart cost.
Worth(catalog, items) ==
    [i \in DOMAIN items |-> catalog[items[i].id].price * items[i].quantity]

LEMMA CartTotalIsASum ==
    ASSUME NEW catalog, NEW items, IsFiniteSet(DOMAIN items)
    PROVE  \E F : /\ Sums(F, Worth(catalog, items), DOMAIN items)
                  /\ CartTotal(catalog, items) = F[DOMAIN items]
<1> DEFINE D == DOMAIN items
           v == Worth(catalog, items)
           one(s) == CHOOSE x \in s : TRUE
           eq(F) == F = [s \in SUBSET D |->
               IF s = {} THEN 0
               ELSE catalog[items[one(s)].id].price * items[one(s)].quantity
                    + F[s \ {one(s)}]]
<1>1. \A F : Sums(F, v, D) <=> eq(F)
  <2>1. \A s \in SUBSET D : s # {} =>
            v[First(s)] = catalog[items[one(s)].id].price * items[one(s)].quantity
    BY DEF Worth, First
  <2> QED BY <2>1 DEF Sums, First
<1>2. CartTotal(catalog, items) = (CHOOSE F : eq(F))[D]
  BY DEF CartTotal, MapThenSumSet, MapThenFoldSet
<1>3. \E F : eq(F)
  <2>1. \E F : Sums(F, v, D)
    <3> HIDE DEF v
    <3> QED BY SumsExist
  <2> HIDE DEF eq
  <2> QED BY <1>1, <2>1
<1> HIDE DEF eq
<1>4. eq(CHOOSE F : eq(F))
  BY <1>3
<1> QED
  BY <1>1, <1>2, <1>4

\* A cart of articles with natural prices costs a natural number.
LEMMA CartTotalIsNat ==
    ASSUME NEW catalog, NEW items, IsFiniteSet(DOMAIN items),
           \A i \in DOMAIN items : /\ catalog[items[i].id].price \in Nat
                                   /\ items[i].quantity \in Nat
    PROVE  CartTotal(catalog, items) \in Nat
<1>1. PICK F : /\ Sums(F, Worth(catalog, items), DOMAIN items)
               /\ CartTotal(catalog, items) = F[DOMAIN items]
  BY CartTotalIsASum
<1>2. \A i \in DOMAIN items : Worth(catalog, items)[i] \in Nat
  BY DEF Worth
<1>3. 0 \in Nat /\ \A a, b \in Nat : a + b \in Nat
  OBVIOUS
<1>4. \A s \in SUBSET DOMAIN items : F[s] \in Nat
  BY <1>1, <1>2, <1>3, SumsStay
<1> QED
  BY <1>1, <1>4

\* One more line costs what is on it, wherever the others stand.
LEMMA OneMoreLine ==
    ASSUME NEW catalog, NEW Lines, NEW items \in Seq(Lines), NEW line,
           \A i \in DOMAIN items : catalog[items[i].id].price * items[i].quantity \in Int,
           catalog[line.id].price * line.quantity \in Int
    PROVE  /\ CartTotal(catalog, items) \in Int
           /\ CartTotal(catalog, Append(items, line))
                  = CartTotal(catalog, items) + catalog[line.id].price * line.quantity
<1> DEFINE more == Append(items, line)
           n == Len(items) + 1
           v == Worth(catalog, items)
           w == Worth(catalog, more)
<1>1. /\ n \in Nat /\ DOMAIN items = 1..(n - 1) /\ DOMAIN more = 1..n
      /\ more[n] = line /\ \A i \in DOMAIN items : more[i] = items[i]
  OBVIOUS
<1>2. IsFiniteSet(DOMAIN items) /\ IsFiniteSet(DOMAIN more)
  BY <1>1, FS_Interval
<1>3. /\ \A i \in DOMAIN items : v[i] \in Int /\ w[i] = v[i]
      /\ \A i \in DOMAIN more : w[i] \in Int
      /\ w[n] = catalog[line.id].price * line.quantity
  <2>1. \A i \in DOMAIN items : v[i] = catalog[items[i].id].price * items[i].quantity
    BY DEF Worth
  <2>2. \A i \in DOMAIN more : w[i] = catalog[more[i].id].price * more[i].quantity
    BY DEF Worth
  <2>3. n \in DOMAIN more /\ \A i \in DOMAIN more : i = n \/ i \in DOMAIN items
    BY <1>1
  <2>4. DOMAIN items \subseteq DOMAIN more
    BY <1>1
  <2> HIDE DEF v, w, n, more
  <2> QED BY <1>1, <2>1, <2>2, <2>3, <2>4
<1>4. PICK F : Sums(F, v, DOMAIN items) /\ CartTotal(catalog, items) = F[DOMAIN items]
  BY <1>2, CartTotalIsASum
<1>5. PICK G : Sums(G, w, DOMAIN more) /\ CartTotal(catalog, more) = G[DOMAIN more]
  BY <1>2, CartTotalIsASum
<1>6. DOMAIN more = DOMAIN items \cup {n} /\ n \notin DOMAIN items
  BY <1>1
<1> HIDE DEF v, w, n, more
<1>7. PICK D, E, x, y, m : /\ D = DOMAIN items /\ E = DOMAIN more
                         /\ x = v /\ y = w /\ m = n
  OBVIOUS
<1>8. /\ CartTotal(catalog, items) \in Int
      /\ CartTotal(catalog, more) = CartTotal(catalog, items) + w[n]
  <2>1. /\ IsFiniteSet(E) /\ m \in E /\ D = E \ {m}
        /\ (\A i \in E : y[i] \in Int) /\ (\A i \in D : y[i] = x[i])
        /\ Sums(F, x, D) /\ Sums(G, y, E)
    BY <1>2, <1>3, <1>4, <1>5, <1>6, <1>7
  <2>2. F[D] \in Int /\ G[E] = F[D] + y[m]
    BY <2>1, SumsGrow
  <2> QED BY <1>4, <1>5, <1>6, <1>7, <2>2
<1> QED
  BY <1>3, <1>8 DEF more
-----------------------------------------------------------------------------
(* The verdict.                                                            *)

\* The verdict says which rules fail.
LEMMA VerdictIs ==
    ASSUME NEW gi
    PROVE  /\ Verdict(gi) \in {"ALLOW", "REVIEW", "DENY"}
           /\ Verdict(gi) = "ALLOW" <=> Failed(gi) = {}
           /\ Verdict(gi) = "REVIEW" <=> Failed(gi) = {15}
           /\ Failed(gi) \subseteq 1..15
<1>1. {} # {15}
  OBVIOUS
<1>2. Failed(gi) \subseteq 1..15
  BY DEF Failed
<1> QED
  BY <1>1, <1>2 DEF Verdict

\* Rule i fails when its condition does not hold.
LEMMA FailedIs ==
    ASSUME NEW gi
    PROVE  /\ 1 \in Failed(gi) <=> ~WellFormed(gi)
           /\ 2 \in Failed(gi) <=> ~AgentActive(gi)
           /\ 3 \in Failed(gi) <=> ~MandateActive(gi)
           /\ 4 \in Failed(gi) <=> ~ItemsKnown(gi)
           /\ 5 \in Failed(gi) <=> ~InStock(gi)
           /\ 6 \in Failed(gi) <=> ~NotBlocked(gi)
           /\ 7 \in Failed(gi) <=> ~MerchantCategory(gi)
           /\ 8 \in Failed(gi) <=> ~QtyPerLine(gi)
           /\ 9 \in Failed(gi) <=> ~OrderMax(gi)
           /\ 10 \in Failed(gi) <=> ~MandateCategory(gi)
           /\ 11 \in Failed(gi) <=> ~PerTxnCap(gi)
           /\ 12 \in Failed(gi) <=> ~DailyCap(gi)
           /\ 13 \in Failed(gi) <=> ~TotalCap(gi)
           /\ 14 \in Failed(gi) <=> ~SessionState(gi)
           /\ 15 \in Failed(gi) <=> ~ReviewThreshold(gi)
<1>1. \A i \in 1..15 : i \in Failed(gi) <=> ~Checks(gi)[i]
  BY DEF Failed
<1>2. 1 \in Failed(gi) <=> ~WellFormed(gi)
  BY <1>1 DEF Checks
<1>3. 2 \in Failed(gi) <=> ~AgentActive(gi)
  BY <1>1 DEF Checks
<1>4. 3 \in Failed(gi) <=> ~MandateActive(gi)
  BY <1>1 DEF Checks
<1>5. 4 \in Failed(gi) <=> ~ItemsKnown(gi)
  BY <1>1 DEF Checks
<1>6. 5 \in Failed(gi) <=> ~InStock(gi)
  BY <1>1 DEF Checks
<1>7. 6 \in Failed(gi) <=> ~NotBlocked(gi)
  BY <1>1 DEF Checks
<1>8. 7 \in Failed(gi) <=> ~MerchantCategory(gi)
  BY <1>1 DEF Checks
<1>9. 8 \in Failed(gi) <=> ~QtyPerLine(gi)
  BY <1>1 DEF Checks
<1>10. 9 \in Failed(gi) <=> ~OrderMax(gi)
  BY <1>1 DEF Checks
<1>11. 10 \in Failed(gi) <=> ~MandateCategory(gi)
  BY <1>1 DEF Checks
<1>12. 11 \in Failed(gi) <=> ~PerTxnCap(gi)
  BY <1>1 DEF Checks
<1>13. 12 \in Failed(gi) <=> ~DailyCap(gi)
  BY <1>1 DEF Checks
<1>14. 13 \in Failed(gi) <=> ~TotalCap(gi)
  BY <1>1 DEF Checks
<1>15. 14 \in Failed(gi) <=> ~SessionState(gi)
  BY <1>1 DEF Checks
<1>16. 15 \in Failed(gi) <=> ~ReviewThreshold(gi)
  BY <1>1 DEF Checks
<1> QED
  BY <1>2, <1>3, <1>4, <1>5, <1>6, <1>7, <1>8, <1>9, <1>10, <1>11, <1>12, <1>13, <1>14, <1>15, <1>16

-----------------------------------------------------------------------------
(* Offers.                                                                 *)

\* What the code hands to the gate: whole paise and whole quantities.
GateInput(gi) ==
    /\ gi = [items |-> gi.items, agent |-> gi.agent, mandate |-> gi.mandate,
             policy |-> gi.policy, catalog |-> gi.catalog, now |-> gi.now,
             spentToday |-> gi.spentToday, spentTotal |-> gi.spentTotal,
             status |-> gi.status, mode |-> gi.mode, approved |-> gi.approved]
    /\ \E Ids : gi.items \in Seq([id : Ids, quantity : Int])
    /\ \A p \in DOMAIN gi.catalog : gi.catalog[p].price \in Int
    /\ gi.spentToday \in Int /\ gi.spentTotal \in Int
    /\ gi.policy.maxOrder \in Int /\ gi.policy.maxQty \in Int
    /\ gi.mandate # None =>
           gi.mandate.perTxn \in Int /\ gi.mandate.daily \in Int /\ gi.mandate.total \in Int

\* The smallest of four gaps, and no less than 0.
LEMMA LeastGap ==
    ASSUME NEW a \in Int, NEW b \in Int, NEW c \in Int, NEW d \in Int,
           NEW room, room = Max({0, Min({a, b, c, d})}), room > 0
    PROVE  room \in Int /\ room <= a /\ room <= b /\ room <= c /\ room <= d
<1>1. \E m \in {a, b, c, d} : \A y \in {a, b, c, d} : m <= y
  OBVIOUS
<1>2. PICK m : m = Min({a, b, c, d})
  OBVIOUS
<1>3. m \in {a, b, c, d} /\ \A y \in {a, b, c, d} : m <= y
  BY <1>1, <1>2 DEF Min
<1>4. \E x \in {0, m} : \A y \in {0, m} : x >= y
  BY <1>3
<1>5. room \in {0, m}
  BY <1>2, <1>4 DEF Max
<1> QED
  BY <1>3, <1>5

\* The cart with an offer on one line more.
LEMMA AcceptedIs ==
    ASSUME NEW gi, GateInput(gi), NEW p
    PROVE  LET ai == Accepted(gi, p)
           IN  /\ ai.items = Append(gi.items, [id |-> p, quantity |-> 1])
               /\ ai.agent = gi.agent /\ ai.mandate = gi.mandate /\ ai.policy = gi.policy
               /\ ai.catalog = gi.catalog /\ ai.now = gi.now /\ ai.spentToday = gi.spentToday
               /\ ai.spentTotal = gi.spentTotal /\ ai.status = gi.status
               /\ ai.mode = gi.mode /\ ai.approved = gi.approved
BY DEF Accepted, GateInput

\* A sequence with one element more at its end.
LEMMA OneLonger ==
    ASSUME NEW S, NEW q \in Seq(S), NEW e, NEW r, r = Append(q, e)
    PROVE  /\ Len(q) \in Nat /\ Len(r) = Len(q) + 1
           /\ DOMAIN q = 1..Len(q) /\ DOMAIN r = DOMAIN q \cup {Len(r)}
           /\ \A i \in DOMAIN q : r[i] = q[i] /\ i # Len(r) /\ q[i] \in S
           /\ r[Len(r)] = e
OBVIOUS

\* The lines of that cart.
LEMMA AcceptedLines ==
    ASSUME NEW gi, GateInput(gi), NEW p, NEW ai, ai = Accepted(gi, p)
    PROVE  /\ Len(gi.items) \in Nat /\ Len(ai.items) = Len(gi.items) + 1
           /\ DOMAIN gi.items = 1..Len(gi.items)
           /\ DOMAIN ai.items = DOMAIN gi.items \cup {Len(ai.items)}
           /\ \A i \in DOMAIN gi.items : ai.items[i] = gi.items[i] /\ i # Len(ai.items)
                                         /\ gi.items[i].quantity \in Int
           /\ ai.items[Len(ai.items)].id = p /\ ai.items[Len(ai.items)].quantity = 1
<1>1. PICK Ids : gi.items \in Seq([id : Ids, quantity : Int])
  BY DEF GateInput
<1>2. ai.items = Append(gi.items, [id |-> p, quantity |-> 1])
  BY AcceptedIs
<1> DEFINE S == [id : Ids, quantity : Int]
<1>3. \A l \in S : l.quantity \in Int
  OBVIOUS
<1>4. gi.items \in Seq(S)
  BY <1>1
<1> HIDE DEF S
<1>5. /\ Len(gi.items) \in Nat /\ Len(ai.items) = Len(gi.items) + 1
      /\ DOMAIN gi.items = 1..Len(gi.items)
      /\ DOMAIN ai.items = DOMAIN gi.items \cup {Len(ai.items)}
      /\ \A i \in DOMAIN gi.items : ai.items[i] = gi.items[i] /\ i # Len(ai.items)
                                    /\ gi.items[i] \in S
      /\ ai.items[Len(ai.items)] = [id |-> p, quantity |-> 1]
  BY <1>2, <1>4, OneLonger
<1> QED
  BY <1>3, <1>5

\* An offer costs no more than the headroom, so the total stays under each cap.
LEMMA AcceptedTotal ==
    ASSUME NEW gi, GateInput(gi), ItemsKnown(gi), gi.mandate # None,
           NEW p \in Fitting(gi), NEW ai, ai = Accepted(gi, p)
    PROVE  ItemsKnown(ai) /\ OrderMax(ai) /\ PerTxnCap(ai) /\ DailyCap(ai) /\ TotalCap(ai)
<1> DEFINE total == CartTotal(gi.catalog, gi.items)
           line == [id |-> p, quantity |-> 1]
           room == headroom(gi.mandate, gi.policy, total, gi.spentToday, gi.spentTotal)
<1>1. PICK Ids : gi.items \in Seq([id : Ids, quantity : Int])
  BY DEF GateInput
<1>2. /\ p \in DOMAIN gi.catalog /\ room > 0 /\ gi.catalog[p].price <= room
      /\ gi.catalog[p].price \in Int
  BY DEF Fitting, GateInput
<1>3. \A i \in DOMAIN gi.items : gi.items[i].id \in DOMAIN gi.catalog
  BY DEF ItemsKnown, KnownLines
<1>4. \A i \in DOMAIN gi.items : gi.catalog[gi.items[i].id].price * gi.items[i].quantity \in Int
  <2>1. \A i \in DOMAIN gi.items : gi.items[i].quantity \in Int
    BY AcceptedLines
  <2>2. \A i \in DOMAIN gi.items : gi.catalog[gi.items[i].id].price \in Int
    BY <1>3 DEF GateInput
  <2> QED BY <2>1, <2>2
<1>5. gi.catalog[line.id].price * line.quantity = gi.catalog[p].price
  BY <1>2
<1>6. total \in Int /\ CartTotal(gi.catalog, Append(gi.items, line)) = total + gi.catalog[p].price
  BY <1>1, <1>2, <1>4, <1>5, OneMoreLine
<1>7. /\ room <= gi.mandate.perTxn - total /\ room <= gi.mandate.daily - gi.spentToday - total
      /\ room <= gi.mandate.total - gi.spentTotal - total /\ room <= gi.policy.maxOrder - total
      /\ room \in Int
  <2>1. /\ gi.mandate.perTxn - total \in Int /\ gi.mandate.daily - gi.spentToday - total \in Int
        /\ gi.mandate.total - gi.spentTotal - total \in Int /\ gi.policy.maxOrder - total \in Int
    <3>1. /\ gi.mandate.perTxn \in Int /\ gi.mandate.daily \in Int /\ gi.mandate.total \in Int
          /\ gi.spentToday \in Int /\ gi.spentTotal \in Int /\ gi.policy.maxOrder \in Int
      BY DEF GateInput
    <3> HIDE DEF total
    <3> QED BY <1>6, <3>1
  <2>2. room = Max({0, Min({gi.mandate.perTxn - total, gi.mandate.daily - gi.spentToday - total,
                            gi.mandate.total - gi.spentTotal - total,
                            gi.policy.maxOrder - total})})
    BY DEF headroom
  <2> HIDE DEF room, total
  <2> QED BY <1>2, <2>1, <2>2, LeastGap
<1>8. ItemsKnown(ai)
  <2>1. \A i \in DOMAIN ai.items : ai.items[i].id \in DOMAIN gi.catalog
    BY <1>2, <1>3, AcceptedLines
  <2>2. ai.catalog = gi.catalog
    BY AcceptedIs
  <2> QED BY <2>1, <2>2 DEF ItemsKnown, KnownLines
<1>9. /\ ai.items = Append(gi.items, line) /\ ai.catalog = gi.catalog /\ ai.mandate = gi.mandate
      /\ ai.policy = gi.policy /\ ai.spentToday = gi.spentToday /\ ai.spentTotal = gi.spentTotal
  BY AcceptedIs
<1>10. Total(ai) = total + gi.catalog[p].price
  BY <1>6, <1>8, <1>9 DEF Total
<1>11. /\ gi.mandate.perTxn \in Int /\ gi.mandate.daily \in Int /\ gi.mandate.total \in Int
       /\ gi.spentToday \in Int /\ gi.spentTotal \in Int /\ gi.policy.maxOrder \in Int
  BY DEF GateInput
<1> HIDE DEF total, room, line
<1>12. /\ Total(ai) <= gi.policy.maxOrder /\ Total(ai) <= gi.mandate.perTxn
       /\ gi.spentToday + Total(ai) <= gi.mandate.daily
       /\ gi.spentTotal + Total(ai) <= gi.mandate.total
  BY <1>2, <1>6, <1>7, <1>10, <1>11
<1> QED
  BY <1>8, <1>9, <1>12 DEF OrderMax, PerTxnCap, DailyCap, TotalCap

\* Whatever is offered beside a cart the gate allows, the cart with the offer
\* fails no rule but the merchant's threshold, and the limit on lines if the
\* cart was full.
THEOREM OffersAreWithinTheRules ==
    ASSUME NEW gi, GateInput(gi), NEW picked \in offers(gi), NEW p \in picked
    PROVE  /\ Failed(Accepted(gi, p)) \subseteq {1, 15}
           /\ 1 \in Failed(Accepted(gi, p)) => Len(gi.items) = MAX_LINES
<1> DEFINE a == Accepted(gi, p)
<1>1. PICK ai : ai = a
  OBVIOUS
<1>2. Verdict(gi) = "ALLOW" /\ p \in candidates(gi)
  BY DEF offers
<1>3. p \in Fitting(gi)
  BY <1>2 DEF candidates
<1>4. /\ WellFormed(gi) /\ AgentActive(gi) /\ MandateActive(gi) /\ ItemsKnown(gi)
      /\ InStock(gi) /\ NotBlocked(gi) /\ MerchantCategory(gi) /\ QtyPerLine(gi)
      /\ MandateCategory(gi) /\ SessionState(gi)
  BY <1>2, VerdictIs, FailedIs
<1>5. /\ ai.agent = gi.agent /\ ai.mandate = gi.mandate /\ ai.policy = gi.policy
      /\ ai.catalog = gi.catalog /\ ai.now = gi.now /\ ai.status = gi.status
      /\ ai.mode = gi.mode
  BY <1>1, AcceptedIs
<1> DEFINE n == Len(ai.items)
<1>6. /\ Len(gi.items) \in Nat /\ n = Len(gi.items) + 1
      /\ DOMAIN gi.items = 1..Len(gi.items)
      /\ DOMAIN ai.items = DOMAIN gi.items \cup {n}
      /\ \A i \in DOMAIN gi.items : ai.items[i] = gi.items[i] /\ i # n
                                    /\ gi.items[i].quantity \in Int
      /\ ai.items[n].id = p /\ ai.items[n].quantity = 1
  BY <1>1, AcceptedLines
<1>7. /\ p \in DOMAIN gi.catalog /\ p \notin gi.policy.blocked /\ gi.catalog[p].inStock
      /\ \A i \in DOMAIN gi.items : gi.items[i].id # p
      /\ gi.catalog[p].category \in gi.policy.allowed /\ gi.catalog[p].category # None
      /\ gi.mandate.categories # {} => gi.catalog[p].category \in gi.mandate.categories
  BY <1>3 DEF Fitting
<1> HIDE DEF n, a
<1>8. ItemsKnown(ai) /\ OrderMax(ai) /\ PerTxnCap(ai) /\ DailyCap(ai) /\ TotalCap(ai)
  BY <1>1, <1>3, <1>4, AcceptedTotal DEF MandateActive, a
<1>9. AgentActive(ai) /\ MandateActive(ai) /\ SessionState(ai)
  BY <1>4, <1>5 DEF AgentActive, MandateActive, SessionState
<1>10. NotBlocked(ai)
  BY <1>4, <1>5, <1>6, <1>7 DEF NotBlocked
<1>11. /\ KnownLines(gi) = DOMAIN gi.items
       /\ KnownLines(ai) = DOMAIN ai.items
  BY <1>4, <1>8 DEF ItemsKnown
<1>12. /\ \A i \in DOMAIN gi.items : Article(ai, i) = Article(gi, i)
       /\ Article(ai, n) = gi.catalog[p]
  BY <1>5, <1>6 DEF Article
<1>13. InStock(ai)
  BY <1>4, <1>5, <1>6, <1>7, <1>11, <1>12 DEF InStock
<1>14. MerchantCategory(ai)
  BY <1>4, <1>5, <1>6, <1>7, <1>11, <1>12 DEF MerchantCategory
<1>15. MandateCategory(ai)
  BY <1>4, <1>5, <1>6, <1>7, <1>11, <1>12 DEF MandateCategory, MandateActive
<1>16. QtyPerLine(ai)
  <2>1. 1 \in DOMAIN gi.items /\ gi.items[1].quantity >= 1
    BY <1>4, <1>6 DEF WellFormed
  <2>2. gi.policy.maxQty >= 1
    <3>1. gi.items[1].quantity <= gi.policy.maxQty /\ gi.policy.maxQty \in Int
      BY <1>4, <2>1 DEF QtyPerLine, GateInput
    <3> QED BY <1>6, <2>1, <3>1
  <2> QED BY <1>4, <1>5, <1>6, <2>2 DEF QtyPerLine
<1>17. Len(gi.items) # MAX_LINES => WellFormed(ai)
  <2>1. Len(gi.items) \in 1..MAX_LINES
    BY <1>4 DEF WellFormed
  <2>2. Len(gi.items) # MAX_LINES => Len(ai.items) \in 1..MAX_LINES
    <3>1. PICK k, m : k = Len(gi.items) /\ m = Len(ai.items)
      OBVIOUS
    <3>2. k \in Nat /\ m = k + 1 /\ k \in 1..20
      BY <1>6, <2>1, <3>1 DEF MAX_LINES, n
    <3>3. k # 20 => m \in 1..20
      BY <3>2
    <3> QED BY <3>1, <3>3 DEF MAX_LINES
  <2>3. \A i \in DOMAIN ai.items : ai.items[i].quantity >= 1
    BY <1>4, <1>6 DEF WellFormed
  <2>4. \A i, j \in DOMAIN ai.items : ai.items[i].id = ai.items[j].id => i = j
    BY <1>4, <1>6, <1>7 DEF WellFormed
  <2> QED BY <2>2, <2>3, <2>4 DEF WellFormed
<1>18. /\ Failed(ai) \subseteq 1..15
       /\ \A i \in 2..14 : i \notin Failed(ai)
  <2>1. Failed(ai) \subseteq 1..15
    BY VerdictIs
  <2>2. /\ 2 \notin Failed(ai) /\ 3 \notin Failed(ai) /\ 4 \notin Failed(ai)
        /\ 5 \notin Failed(ai) /\ 6 \notin Failed(ai) /\ 7 \notin Failed(ai)
        /\ 8 \notin Failed(ai) /\ 9 \notin Failed(ai) /\ 10 \notin Failed(ai)
        /\ 11 \notin Failed(ai) /\ 12 \notin Failed(ai) /\ 13 \notin Failed(ai)
        /\ 14 \notin Failed(ai)
    BY <1>8, <1>9, <1>10, <1>13, <1>14, <1>15, <1>16, FailedIs
  <2> QED BY <2>1, <2>2
<1>19. 1 \in Failed(ai) => Len(gi.items) = MAX_LINES
  BY <1>17, FailedIs
<1>20. Failed(ai) \subseteq {1, 15}
  BY <1>18
<1> QED
  BY <1>1, <1>19, <1>20 DEF a
=============================================================================
