-------------------------------- MODULE Gate --------------------------------
(***************************************************************************)
(* The policy gate of dwarpal/gate.py: a pure function from everything a   *)
(* decision depends on to ALLOW, REVIEW or DENY.  Fifteen rules run in a   *)
(* fixed order and the first one that fails decides.                       *)
(*                                                                         *)
(* A gate input is a record with the fields of GateInput.  A cart is a     *)
(* sequence of lines [id, quantity]; a quantity that is not an integer is  *)
(* 0 here, since the gate refuses both alike.  A catalog maps the known    *)
(* ids to [price, inStock, category].  The guard rule G99 is left out: it  *)
(* fires only on a price that schema.sql does not let the catalog hold.    *)
(***************************************************************************)
EXTENDS Integers, Sequences, FiniteSetsExt, Absent

RuleIds ==
    << "G00_WELL_FORMED", "G01_AGENT_ACTIVE", "G02_MANDATE_ACTIVE",
       "G03_ITEMS_KNOWN", "G04_IN_STOCK", "G05_SKU_NOT_BLOCKED",
       "G06_MERCHANT_CATEGORY", "G07_QTY_PER_LINE", "G08_ORDER_MAX",
       "G09_MANDATE_CATEGORY", "G10_PER_TXN_CAP", "G11_DAILY_CAP",
       "G12_TOTAL_CAP", "G13_SESSION_STATE", "G14_REVIEW_THRESHOLD" >>

MAX_LINES == 20

\* The statuses each mode of evaluation accepts.  A session that does not
\* exist yet has the status None.
ExpectedStatus ==
    [preview       |-> {None, "not_ready_for_payment", "ready_for_payment",
                        "requires_review"},
     authoritative |-> {"ready_for_payment"},
     retry         |-> {"payment_pending"}]

-----------------------------------------------------------------------------
(* The cart.                                                               *)

KnownLines(gi) == {i \in DOMAIN gi.items : gi.items[i].id \in DOMAIN gi.catalog}

\* What the shop knows of the article on a line.
Article(gi, i) == gi.catalog[gi.items[i].id]

\* The price of a cart whose articles are all in the catalog.
CartTotal(catalog, items) ==
    MapThenSumSet(LAMBDA i : catalog[items[i].id].price * items[i].quantity,
                  DOMAIN items)

-----------------------------------------------------------------------------
(* The rules.  Each one is defined on every input, also on those an        *)
(* earlier rule refuses.                                                   *)

WellFormed(gi) ==
    /\ Len(gi.items) \in 1..MAX_LINES
    /\ \A i \in DOMAIN gi.items : gi.items[i].quantity >= 1
    /\ \A i, j \in DOMAIN gi.items : gi.items[i].id = gi.items[j].id => i = j

AgentActive(gi) == gi.agent = "active"

MandateActive(gi) ==
    /\ gi.mandate # None
    /\ gi.mandate.status = "active"
    /\ gi.mandate.startsAt <= gi.now /\ gi.now < gi.mandate.expiresAt
    /\ gi.mandate.currency = "INR"

ItemsKnown(gi) == KnownLines(gi) = DOMAIN gi.items

\* The cart's price, which the rules after G03 rely on.
Total(gi) == IF ItemsKnown(gi) THEN CartTotal(gi.catalog, gi.items) ELSE 0

InStock(gi) ==
    gi.policy.inStockOnly => \A i \in KnownLines(gi) : Article(gi, i).inStock

NotBlocked(gi) ==
    \A i \in DOMAIN gi.items : gi.items[i].id \notin gi.policy.blocked

MerchantCategory(gi) ==
    \A i \in KnownLines(gi) :
        /\ Article(gi, i).category # None
        /\ Article(gi, i).category \in gi.policy.allowed

QtyPerLine(gi) ==
    \A i \in DOMAIN gi.items : gi.items[i].quantity <= gi.policy.maxQty

OrderMax(gi) == Total(gi) <= gi.policy.maxOrder

MandateCategory(gi) ==
    gi.mandate # None =>
        \/ gi.mandate.categories = {}
        \/ \A i \in KnownLines(gi) :
               Article(gi, i).category \in gi.mandate.categories

PerTxnCap(gi) == gi.mandate # None => Total(gi) <= gi.mandate.perTxn

DailyCap(gi) ==
    gi.mandate # None => gi.spentToday + Total(gi) <= gi.mandate.daily

TotalCap(gi) ==
    gi.mandate # None => gi.spentTotal + Total(gi) <= gi.mandate.total

SessionState(gi) == gi.status \in ExpectedStatus[gi.mode]

\* Above the merchant's threshold only a total a human has approved passes;
\* a threshold of 0 means the merchant has set none.
ReviewThreshold(gi) ==
    (gi.policy.reviewAbove > 0 /\ Total(gi) > gi.policy.reviewAbove)
        => gi.approved

-----------------------------------------------------------------------------
(* The decision.                                                           *)

Checks(gi) ==
    << WellFormed(gi), AgentActive(gi), MandateActive(gi), ItemsKnown(gi),
       InStock(gi), NotBlocked(gi), MerchantCategory(gi), QtyPerLine(gi),
       OrderMax(gi), MandateCategory(gi), PerTxnCap(gi), DailyCap(gi),
       TotalCap(gi), SessionState(gi), ReviewThreshold(gi) >>

Failed(gi) == LET ok == Checks(gi) IN {i \in 1..15 : ~ok[i]}

Verdict(gi) ==
    LET failed == Failed(gi)
    IN  CASE failed = {}   -> "ALLOW"
          [] failed = {15} -> "REVIEW"
          [] OTHER         -> "DENY"

\* The lines are priced by G03; a decision taken before that carries none.
Priced(gi) == Failed(gi) \cap 1..4 = {}

Evaluate(gi) ==
    [verdict |-> Verdict(gi),
     items   |-> IF Priced(gi) THEN gi.items ELSE << >>,
     total   |-> IF Priced(gi) THEN Total(gi) ELSE 0]

\* The rule that decided, as the ledger names it.
DecidingRule(gi) ==
    IF Failed(gi) = {} THEN "ALLOW" ELSE RuleIds[Min(Failed(gi))]

-----------------------------------------------------------------------------
(* Refunds: evaluate_refund, rules RF00 to RF04, over a record with the    *)
(* fields of RefundInput.                                                  *)

\* Mutant: what was refunded before is not taken off.
RefundUpToCapture(ri) ==
    /\ ri.amount \in 1..ri.captured
    /\ ri.status = "completed"
    /\ ri.reference \notin ri.seenReferences
    /\ ri.windowDays > 0 => ri.now <= ri.capturedAt + ri.windowDays

RefundAllowed(ri) ==
    /\ ri.amount >= 1
    /\ ri.status = "completed" /\ ri.captured > 0
    /\ ri.amount <= ri.captured - ri.refunded
    /\ ri.reference \notin ri.seenReferences
    /\ ri.windowDays > 0 =>
           /\ ri.capturedAt # None
           /\ ri.now <= ri.capturedAt + ri.windowDays
=============================================================================
