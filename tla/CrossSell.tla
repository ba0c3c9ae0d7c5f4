----------------------------- MODULE CrossSell ------------------------------
(***************************************************************************)
(* The cross-sell offers of dwarpal/crosssell.py: which articles may be    *)
(* suggested beside a cart the gate has allowed.  A picker, a model or a   *)
(* fixed rule, takes at most two of the candidates; which two is left      *)
(* open, and so are the texts of an offer.                                 *)
(***************************************************************************)
EXTENDS Gate

MAX_OFFERS == 2

\* candidates shows the picker no more than this many articles.
Limit == 8

\* Mutant: what was spent today is forgotten.
headroomOfDay(mandate, policy, total, spentToday, spentTotal) ==
    Max({0, Min({mandate.perTxn - total, mandate.daily - total,
                 mandate.total - spentTotal - total, policy.maxOrder - total})})

\* The largest price that keeps the cart under every cap.
headroom(mandate, policy, total, spentToday, spentTotal) ==
    Max({0, Min({mandate.perTxn - total, mandate.daily - spentToday - total,
                 mandate.total - spentTotal - total, policy.maxOrder - total})})

\* The articles that fit beside the cart of gate input gi.
Fitting(gi) ==
    LET room == headroom(gi.mandate, gi.policy, CartTotal(gi.catalog, gi.items),
                         gi.spentToday, gi.spentTotal)
    IN  {p \in DOMAIN gi.catalog :
           /\ room > 0 /\ gi.catalog[p].price <= room
           /\ \A i \in DOMAIN gi.items : gi.items[i].id # p
           /\ p \notin gi.policy.blocked
           /\ gi.catalog[p].inStock
           /\ gi.catalog[p].category \in gi.policy.allowed \ {None}
           /\ gi.mandate.categories # {} =>
                  gi.catalog[p].category \in gi.mandate.categories}

\* The cheapest ones; among equal prices the order of the ids is left open.
candidates(gi) ==
    {p \in Fitting(gi) :
       Cardinality({q \in Fitting(gi) : gi.catalog[q].price < gi.catalog[p].price})
           < Limit}

\* What a picker may return: nothing, or one or two candidates.
offers(gi) ==
    IF Verdict(gi) # "ALLOW" THEN {{}}
    ELSE {picked \in SUBSET candidates(gi) : Cardinality(picked) <= MAX_OFFERS}

\* The cart of an agent that takes up offer p.
Accepted(gi, p) ==
    [gi EXCEPT !.items = Append(gi.items, [id |-> p, quantity |-> 1])]
=============================================================================
