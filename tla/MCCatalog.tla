------------------------------ MODULE MCCatalog ------------------------------
(* Small instances of Enrichment for TLC, and the offers of CrossSell over   *)
(* every catalog and policy Enrichment reaches.                              *)
EXTENDS Enrichment, CrossSell, TLC

\* A policy may write a category with a capital letter.
Names == {"fitness", "Fitness", OtherCategory}
Small == [c \in Names |-> IF c = "Fitness" THEN "fitness" ELSE c]
OnePolicy == {{"fitness"}}
TwoPolicies == {{"fitness"}, {"Fitness", OtherCategory}}

\* One process works on the catalog while the merchant decides in another.
Beside == [t \in Threads |-> IF t = "shop" THEN {"enrich", "sync", "push"} ELSE {"decide"}]
SyncBeside == [t \in Threads |-> IF t = "shop" THEN {"sync"} ELSE {"enrich", "decide"}]
NewProducts == [i \in ItemIds |-> IF i = "i1" THEN "p1" ELSE "p2"]

ProposalSymmetry == Permutations(ProposalIds)

\* A cart of one article, judged for a mandate with some of its budget spent.
GateInputs ==
    {[items |-> <<[id |-> p, quantity |-> 1]>>, agent |-> "active",
      mandate |-> [status |-> "active", startsAt |-> 0, expiresAt |-> 9, currency |-> "INR",
                   perTxn |-> 3, daily |-> 4, total |-> 5, categories |-> cs],
      policy |-> [inStockOnly |-> TRUE, blocked |-> blocked, allowed |-> allowed,
                  maxQty |-> 1, maxOrder |-> 3, reviewAbove |-> 2],
      catalog |-> snapshot, now |-> 1, spentToday |-> today, spentTotal |-> 2,
      status |-> None, mode |-> "preview", approved |-> FALSE] :
       p \in Known, cs \in {{}, {"fitness"}}, blocked \in {{}, Seeded}, today \in {0, 3}}

\* Whatever is offered beside a cart the gate allows, the gate does not deny
\* the cart with it: it may only have to wait for the merchant.  (crosssell.py:
\* "An offer can therefore never push a cart over a cap".)
OffersFit ==
    \A gi \in GateInputs : \A picked \in offers(gi) : \A p \in picked :
        Verdict(Accepted(gi, p)) \in {"ALLOW", "REVIEW"}
=============================================================================
