------------------------- MODULE SessionProperties --------------------------
(***************************************************************************)
(* What the checkout sessions of SessionService are to guarantee.  The     *)
(* first group holds however handlers overlap and wherever the process is  *)
(* killed; the second holds while no two handlers work on one session or   *)
(* reserve on one mandate at once.                                         *)
(***************************************************************************)
EXTENDS SessionService

\* No handler is at work on session s.
AtRest(s) == \A t \in Threads : thr[t].s # s

Status(s) == IF Exists(s) THEN sessions[s].status ELSE None

RowsOf(s) == {r \in reservations : r.session = s}
CommittedRows(s) == {r \in RowsOf(s) : r.state = "committed"}

-----------------------------------------------------------------------------
(* Types.                                                                  *)

MandateOrNone == MandateIds \cup {None}
Items == Carts \cup {<< >>}
Row == [status : Statuses, items : Items, total : Nat, mandate : MandateOrNone,
        attempt : 0..MAX_ATTEMPTS, link : Nat]
Decision == [verdict : {"ALLOW", "REVIEW", "DENY"}, items : Items, total : Nat,
             mandate : MandateOrNone]
Payment == [link : Nat, no : Nat]
RefundRequest == [reference : References, amount : RefundAmounts, link : Nat]
Link == [session : SessionIds, amount : Nat, failed : Nat, refunded : Nat,
         unheard : Nat, state : {"created", "paid", "cancelled", "expired"}, due : BOOLEAN]

\* None is neither a row nor a status, a merchant asks for whole paise back,
\* prices are whole paise (schema.sql) and a cart is a list of lines.
ASSUME RowAssumption == None \notin Row /\ None \notin Statuses
ASSUME RefundAssumption == RefundAmounts \subseteq Nat
ASSUME PriceAssumption ==
    \A sh \in Shops : \A p \in DOMAIN sh.catalog : sh.catalog[p].price \in Nat
ASSUME CartAssumption ==
    \A items \in Carts :
        /\ Len(items) \in Nat /\ DOMAIN items = 1..Len(items)
        /\ \A i \in DOMAIN items : items[i].quantity \in Int

\* Where a thread can be, by what the values it carries are used for.
DecidedPlaces == {"store", "reserve", "firstLink", "pending", "cancelOld",
                  "secondLink", "retried"}
MoneyPlaces   == {"reserve", "firstLink", "cancelOld", "secondLink"}
RowPlaces     == {"review", "reevaluate", "poll", "record", "judge", "abandon",
                  "cancelOld", "secondLink", "retried", "cancelLink",
                  "finalPoll", "refund", "recordRefund"}
Places == DecidedPlaces \cup RowPlaces \cup
          {"idle", "refuse", "commit", "complete", "openRow", "release", "canceled"}

Frame ==
    [at : Places, op : Handlers \cup {None}, s : SessionIds \cup {None},
     row : Row \cup {None}, dec : Decision \cup RefundRequest \cup {None},
     news : SUBSET Payment, todo : SUBSET Payment, dead : BOOLEAN, link : Nat]

PollPlaces    == {"poll", "cancelLink", "finalPoll"}

\* A busy thread works for a session that exists and carries what its next
\* step needs.
FrameOK(f) ==
    /\ f.at # "idle" => f.s \in SessionIds /\ Exists(f.s)
    /\ f.at = "review" => f.op \in {"approve", "decline"}
    /\ f.at \in DecidedPlaces => f.dec \in Decision
    /\ f.at = "refuse" /\ f.op = "complete" => f.dec \in Decision
    /\ f.at \in MoneyPlaces => f.dec.verdict = "ALLOW" /\ f.dec.mandate \in MandateIds
    /\ f.at \in RowPlaces => f.row \in Row
    /\ f.at \in {"cancelOld", "secondLink", "retried"} => f.row.attempt < MAX_ATTEMPTS
    /\ f.at \in {"refund", "recordRefund"} => f.dec \in RefundRequest
    /\ f.at \in {"pending", "retried"} => f.link \in LinkIds
    /\ f.at \in PollPlaces => f.row.link \in LinkIds

FramesOK ==
    /\ thr \in [Threads -> Frame]
    /\ \A t \in Threads : FrameOK(thr[t])

DataOK ==
    /\ active \in MandateOrNone /\ issued \subseteq MandateIds /\ today \in Days
    /\ reservations \subseteq Reservation /\ refunds \subseteq Refund
    /\ links \in Seq(Link)
    /\ sessions \in [SessionIds -> Row \cup {None}]
    /\ \A s \in SessionIds : Status(s) = PENDING => sessions[s].link \in LinkIds
    /\ payments \in [SessionIds -> SUBSET [payment : Payment, day : Days]]
    /\ reviews \in [SessionIds -> [approved : BOOLEAN, total : Nat] \cup {None}]
    /\ shop \in Shops
    /\ crashes \in Nat

TypeOK == DataOK /\ FramesOK

-----------------------------------------------------------------------------
(* Whatever overlaps and whenever the process is killed.                   *)

\* A session is completed, and money of its agent counted as spent for good,
\* only once a captured payment of that session is on record.  (_finish_paid
\* runs after _record_payment in both reconcile and cancel.)
CompletedWasPaid ==
    \A s \in SessionIds :
        Status(s) = COMPLETED \/ CommittedRows(s) # {} => CapturesOf(s) # {}

\* Two handlers that see the same capture do not both commit: no session has
\* more committed reservations than captured payments on record.  (The unique
\* key of the payments table and the guard of _transition.)
CommitsBackedByCaptures ==
    \A s \in SessionIds : Cardinality(CommittedRows(s)) <= Cardinality(CapturesOf(s))

\* A session never holds two open reservations.  (reserve looks for an open
\* one in the transaction that inserts.)
AtMostOneOpen == \A s \in SessionIds : Cardinality(OpenRows(s)) <= 1

\* No step takes back or changes money that was committed.  (_transition only
\* touches rows that are still reserved.)
CommittedIsFinal ==
    [][\A s \in SessionIds : CommittedRows(s) \subseteq CommittedRows(s)']_vars

\* Every payment the service records belongs to a link it created for that
\* very session, also when the poll searched all payments by their notes.
PaymentsAreOwn ==
    \A s \in SessionIds : \A r \in payments[s] :
        r.payment.link \in LinkIds /\ links[r.payment.link].session = s

\* The single paise the provider said to have paid back on the links of s.
LinksOf(s) == {l \in LinkIds : links[l].session = s}
PaidBack(s) == UNION {{l} \X (1..links[l].refunded) : l \in LinksOf(s)}

\* The refunds on record never claim more than the provider said it paid
\* back.  (The row is inserted after the provider's answer.)
RefundRowsBacked ==
    \A s \in SessionIds : Sum(RefundsOf(s)) <= Cardinality(PaidBack(s))

-----------------------------------------------------------------------------
(* While no two handlers meet on a session or on a mandate.                *)

\* The caps of a mandate hold for the reserved and committed money: in every
\* order, on every day, and in all once refunds are given back.  (D4, and the
\* head of mandates.py.)
CapsHold ==
    \A m \in MandateIds :
        /\ \A r \in RowsOn(m) : r.amount <= Terms[m].perTxn
        /\ \A d \in Days : Sum({r \in RowsOn(m) : r.day = d}) <= Terms[m].daily
        /\ Sum(RowsOn(m)) - Sum({r \in refunds : r.mandate = m}) <= Terms[m].total

\* Between two requests a session holds an open reservation exactly while its
\* payment is pending: every way out of that state commits or releases.  (D4:
\* "every failure path must release".)
ReservedWhilePending ==
    \A s \in SessionIds : AtRest(s) =>
        (OpenRows(s) # {} <=> Status(s) = PENDING)

\* A canceled session gives its budget back.
CanceledHoldsNothing ==
    \A s \in SessionIds : AtRest(s) /\ Status(s) = CANCELED => RowsOf(s) = {}

\* A capture the service has seen always ends in a completed order, and the
\* amount that is committed is the amount that was captured.
RecordedCaptureCompletes ==
    \A s \in SessionIds : AtRest(s) /\ CapturesOf(s) # {} =>
        /\ Status(s) = COMPLETED
        /\ \E c \in CapturesOf(s), r \in CommittedRows(s) :
               r.amount = links[c.payment.link].amount

\* The link a customer may pay never asks for more than its session has
\* reserved.  (README: "a pending payment cannot be double-spent".)
PendingLinkIsCovered ==
    \A s \in SessionIds : AtRest(s) /\ Status(s) = PENDING =>
        \E r \in OpenRows(s) : links[sessions[s].link].amount <= r.amount

\* Between two requests an order that is not completed has at most one link a
\* customer can still pay: the one in its row, while the payment is pending.
\* (README: "old link cancelled, fresh link issued".)
OneLiveLink ==
    \A l \in LinkIds :
        LET s == links[l].session
        IN  links[l].state = "created" /\ AtRest(s) /\ Status(s) # COMPLETED =>
                Status(s) = PENDING /\ sessions[s].link = l

\* A link comes into being only for a session that holds a reservation, on
\* the first attempt and on the retry.  (README: "only after ALLOW plus a
\* reservation".)
LinkNeedsReservation ==
    [][Len(links') > Len(links) => OpenRows(links'[Len(links')].session) # {}]_vars

\* s has the merchant's approval: the last review is one, of the very cart in
\* the row at a price the shop has had.
CartApproved(s) ==
    /\ reviews[s] # None /\ reviews[s].approved
    /\ \E p \in Shops : reviews[s].total = CartTotal(p.catalog, sessions[s].items)

\* An order above the merchant's threshold gets a link, on the first attempt
\* and on the retry, only with the merchant's approval of its cart: one that is
\* withdrawn or was of another cart does not count.  (D6; _expected_total.)
LinkNeedsApproval ==
    [][Len(links') > Len(links) =>
         LET l == links'[Len(links')]
         IN  l.amount > shop.policy.reviewAbove /\ shop.policy.reviewAbove > 0 =>
                 CartApproved(l.session)]_vars

\* A link that was paid belongs to a session that is not canceled.  (README:
\* "a late capture is never recorded as cancelled".)
PaidIsNotCanceled ==
    \A l \in LinkIds : links[l].state = "paid" =>
        ~(AtRest(links[l].session) /\ Status(links[l].session) = CANCELED)

\* The refunds of a link the provider confirmed never exceed what the customer
\* paid on it.  (D7: "within the refundable balance".  A refund that was made
\* and not answered is not among them, and its amount is offered again.)
RefundsWithinCapture ==
    \A l \in LinkIds : links[l].refunded <= links[l].amount

\* Between two requests every refund the provider confirmed is on record, and
\* nothing else is: the next one is judged against all the service has heard.
RefundsRecorded ==
    \A s \in SessionIds : AtRest(s) =>
        \A c \in CapturesOf(s) : Cardinality(CapturesOf(s)) = 1 =>
            links[c.payment.link].refunded = Sum(RefundsOf(s))

-----------------------------------------------------------------------------
(* What the handlers implement, on the same condition.                     *)

PhaseOf(s) ==
    CASE Status(s) = None -> "absent"
      [] Status(s) \in EDITABLE -> "open"
      [] Status(s) = PENDING -> "paying"
      [] Status(s) = COMPLETED -> "completed"
      [] Status(s) = CANCELED -> "canceled"

\* Session s as an order of OrderPromise: its one reservation is the money
\* it holds.
OrderOf(s) ==
    IF RowsOf(s) = {}
    THEN [phase |-> PhaseOf(s), money |-> "free", budget |-> None, amount |-> 0,
          paid |-> CapturesOf(s) # {}]
    ELSE LET r == CHOOSE r \in RowsOf(s) : TRUE
         IN  [phase |-> PhaseOf(s),
              money |-> IF r.state = "reserved" THEN "held" ELSE "spent",
              budget |-> r.mandate, amount |-> r.amount,
              paid |-> \E c \in CapturesOf(s) :
                           links[c.payment.link].amount = r.amount]

Promise == INSTANCE OrderPromise WITH
    Orders <- SessionIds,
    Budgets <- MandateIds,
    Limit <- [m \in MandateIds |-> Terms[m].total],
    orders <- [s \in SessionIds |-> OrderOf(s)]

\* The state machine of the sessions implements the promise: whatever the
\* provider and the customer do, its steps are the steps of an order or leave
\* the orders alone.  In particular a session that is completed or canceled
\* stays what it is.
KeepsPromise == Promise!Spec

-----------------------------------------------------------------------------
(* Progress.                                                               *)

\* The reconciler comes back to every pending session, a poll succeeds sooner
\* or later, time passes, and a handler that has begun goes on.
Fairness ==
    /\ \A t \in Threads : WF_vars(Continue(t)) /\ SF_vars(PollStep(t))
    /\ \A t \in Threads, s \in SessionIds : SF_vars(ReconcileLoad(t, s))
    /\ \A l \in 1..MaxLinks : WF_vars(l \in LinkIds /\ LinkFallsDue(l) /\ Clock)

FairSpec == Spec /\ Fairness

\* No payment stays pending for ever: it is captured or given up.
PendingEnds == \A s \in SessionIds : (Status(s) = PENDING) ~> (Status(s) \in TERMINAL)

\* No money stays reserved for ever.
ReservationsSettle == \A s \in SessionIds : (OpenRows(s) # {}) ~> (OpenRows(s) = {})
=============================================================================
