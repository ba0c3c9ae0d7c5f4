--------------------------- MODULE SessionService ---------------------------
(***************************************************************************)
(* Checkout sessions: dwarpal/sessions.py, the state machine that turns a  *)
(* cart into a Payment Link and a payment into a completed order.          *)
(*                                                                         *)
(* A request runs in a thread.  The service takes a lock only inside one   *)
(* transaction, so a handler can be overtaken between any two of its       *)
(* accesses.  One action is therefore one snapshot of reads with the       *)
(* decision taken on it, one call to the provider, or one transaction;     *)
(* thr[t] holds where thread t is and the values it carries along.  With a *)
(* single thread the handlers run one at a time, while the customer, the   *)
(* clock and the merchant's other processes still move between two steps.  *)
(*                                                                         *)
(* The ledger, messages and offers of a session are written and never read *)
(* back by these handlers, and are left out; a request answered with an    *)
(* error or a replay that changes nothing is no step.                      *)
(***************************************************************************)
EXTENDS MandateStore, PaymentLinks, Gate

CONSTANTS
    Threads,            \* request threads, event loop and reconciler
    Serves,             \* Serves[t]: the handlers that run in thread t
    Carts,              \* carts an agent may send
    Shops,              \* [catalog, policy] pairs the merchant may set up
    RefundAmounts,      \* amounts the merchant may ask to refund
    MaxCrashes          \* bound: how often the process may be killed

VARIABLES
    sessions,           \* sessions[s]: the row of s, None before it exists
    payments,           \* payments[s]: the payment attempts recorded for s
    reviews,            \* reviews[s]: the latest decision of the merchant
    shop,               \* the catalog and the policy in force
    thr,                \* thr[t]: the request thread t is working on
    crashes             \* how often the process was killed

vars == <<mandateVars, links, sessions, payments, reviews, shop, thr, crashes>>

NOT_READY       == "not_ready_for_payment"
REQUIRES_REVIEW == "requires_review"
READY           == "ready_for_payment"
PENDING         == "payment_pending"
COMPLETED       == "completed"
CANCELED        == "canceled"
EDITABLE        == {NOT_READY, READY, REQUIRES_REVIEW}
TERMINAL        == {COMPLETED, CANCELED}
Statuses        == EDITABLE \cup {PENDING} \cup TERMINAL
MAX_ATTEMPTS    == 2

Handlers == {"create", "update", "approve", "decline", "complete",
             "reconcile", "cancel", "refund"}

\* A thread that has begun op on session s and is at place, with the row it
\* has read and the decision or the refund it has to carry out.
Begun(op, s, place, row, dec) ==
    [at |-> place, op |-> op, s |-> s, row |-> row, dec |-> dec,
     news |-> {}, todo |-> {}, dead |-> FALSE, link |-> 0]

Idle == Begun(None, None, "idle", None, None)

Init ==
    /\ MandatesInit
    /\ LinksInit
    /\ sessions = [s \in SessionIds |-> None]
    /\ payments = [s \in SessionIds |-> {}]
    /\ reviews = [s \in SessionIds |-> None]
    /\ shop \in Shops
    /\ thr = [t \in Threads |-> Idle]
    /\ crashes = 0

-----------------------------------------------------------------------------
(* Threads.                                                                *)

At(t, place) == thr[t].at = place

Becomes(t, f) == thr' = [thr EXCEPT ![t] = f]
GoTo(t, place) == thr' = [thr EXCEPT ![t].at = place]
Done(t) == Becomes(t, Idle)

\* Thread t may start handler op.
CanStart(t, op) == thr[t] = Idle /\ op \in Serves[t]

Exists(s) == sessions[s] # None
SetRow(s, row) == sessions' = [sessions EXCEPT ![s] = row]

\* What a step leaves alone, by the part of the state it may change.
shopVars == <<reviews, shop, crashes>>
rowVars  == <<sessions, payments, shopVars>>
OnlyThread      == UNCHANGED <<mandateVars, links, rowVars>>
OnlyLinks       == UNCHANGED <<mandateVars, rowVars>>
OnlyMandates    == UNCHANGED <<links, rowVars>>
OnlySessions    == UNCHANGED <<mandateVars, links, payments, shopVars>>

-----------------------------------------------------------------------------
(* The gate as the service calls it.                                       *)

\* Mutant: an approval covers any later total.
ApprovedOnce(s, items, seen) == reviews[s] # None /\ reviews[s].approved

\* The latest review approved the total _expected_total finds for items, with
\* the catalog it read.
Approved(s, items, seen) ==
    /\ reviews[s] # None
    /\ reviews[s].approved
    /\ \A i \in DOMAIN items : items[i].id \in DOMAIN seen.catalog
    /\ reviews[s].total = CartTotal(seen.catalog, items)

\* A decision for session s on items; x is the session whose own
\* reservations do not count.  The catalog is read twice, once for the match
\* with the approval and once for the gate: seen is the shop of the earlier
\* read, any of them, since the merchant may change it in between.
Decide(s, items, status, mode, x, seen) ==
    LET m == ActiveMandate
        d == Evaluate(
               [agent |-> "active",
                mandate |-> IF m = None THEN None ELSE Terms[m],
                policy |-> shop.policy, catalog |-> shop.catalog,
                items |-> items, now |-> today, status |-> status,
                mode |-> mode, approved |-> Approved(s, items, seen),
                spentTotal |-> IF m = None THEN 0 ELSE SpentTotal(m, x),
                spentToday |-> IF m = None THEN 0 ELSE SpentToday(m, x)])
    IN  [verdict |-> d.verdict, items |-> d.items, total |-> d.total,
         mandate |-> m]

StatusFor(d) ==
    CASE d.verdict = "ALLOW"  -> READY
      [] d.verdict = "REVIEW" -> REQUIRES_REVIEW
      [] d.verdict = "DENY"   -> NOT_READY

-----------------------------------------------------------------------------
(* create: nobody knows the new id before the row is there, so the preview *)
(* and the insert are one step.                                            *)

Create(t, s, items) ==
    /\ CanStart(t, "create") /\ ~Exists(s)
    /\ LET d == Decide(s, items, None, "preview", None, shop)
       IN  sessions' = [sessions EXCEPT ![s] =
               [status |-> StatusFor(d), items |-> d.items, total |-> d.total,
                mandate |-> d.mandate, attempt |-> 0, link |-> 0]]
    /\ UNCHANGED <<mandateVars, links, payments, shopVars, thr>>

-----------------------------------------------------------------------------
(* update: read the row, run the preview, store its outcome.               *)

UpdateLoad(t, s, items) ==
    /\ Exists(s) /\ sessions[s].status \in EDITABLE
    /\ CanStart(t, "update")
    /\ \E seen \in Shops :
         Becomes(t, Begun("update", s, "store", None,
                          Decide(s, items, sessions[s].status, "preview", None, seen)))
    /\ OnlyThread

Store(t) ==
    LET d == thr[t].dec
    IN  /\ At(t, "store")
        /\ SetRow(thr[t].s, [sessions[thr[t].s] EXCEPT
                     !.status = StatusFor(d), !.items = d.items,
                     !.total = d.total, !.mandate = d.mandate])
        /\ Done(t)
        /\ OnlySessions

-----------------------------------------------------------------------------
(* The merchant's review of an order.                                      *)

ReviewLoad(t, s, op) ==
    /\ op \in {"approve", "decline"}
    /\ Exists(s) /\ sessions[s].status = REQUIRES_REVIEW
    /\ CanStart(t, op)
    /\ Becomes(t, Begun(op, s, "review", sessions[s], None))
    /\ OnlyThread

RecordReview(t) ==
    LET f == thr[t]
    IN  /\ At(t, "review")
        /\ reviews' = [reviews EXCEPT ![f.s] =
                         [approved |-> f.op = "approve", total |-> f.row.total]]
        /\ GoTo(t, IF f.op = "approve" THEN "reevaluate" ELSE "refuse")
        /\ UNCHANGED <<mandateVars, links, sessions, payments, shop, crashes>>

\* The row is read again, its items are those of the first read.
Reevaluate(t) ==
    LET f == thr[t]
    IN  /\ At(t, "reevaluate")
        /\ \E seen \in Shops :
             Becomes(t, [f EXCEPT !.at = "store",
                             !.dec = Decide(f.s, f.row.items, sessions[f.s].status,
                                            "preview", None, seen)])
        /\ OnlyThread

-----------------------------------------------------------------------------
(* complete: decide, reserve, create the link, store it.                   *)

\* Mutant: no reservation before the link.
CompleteUnreserved(t, s) ==
    /\ Exists(s) /\ sessions[s].status = READY
    /\ CanStart(t, "complete")
    /\ \E seen \in Shops :
         LET d == Decide(s, sessions[s].items, READY, "authoritative", None, seen)
         IN  Becomes(t, Begun("complete", s,
                              IF d.verdict = "ALLOW" THEN "firstLink" ELSE "refuse",
                              None, d))
    /\ OnlyThread

CompleteLoad(t, s) ==
    /\ Exists(s) /\ sessions[s].status = READY
    /\ CanStart(t, "complete")
    /\ \E seen \in Shops :
         LET d == Decide(s, sessions[s].items, READY, "authoritative", None, seen)
         IN  Becomes(t, Begun("complete", s,
                              IF d.verdict = "ALLOW" THEN "reserve" ELSE "refuse",
                              None, d))
    /\ OnlyThread

\* A verdict that is not ALLOW, or a declined review.
Refuse(t) ==
    LET f == thr[t]
    IN  /\ At(t, "refuse")
        /\ SetRow(f.s, [sessions[f.s] EXCEPT
                     !.status = IF f.op = "complete" THEN StatusFor(f.dec)
                                                     ELSE NOT_READY])
        /\ Done(t)
        /\ OnlySessions

ReserveStep(t) ==
    LET f == thr[t]
    IN  /\ At(t, "reserve")
        /\ Reserve(f.s, f.dec.mandate, f.dec.total)
        /\ GoTo(t, "firstLink")
        /\ OnlyMandates

\* The session has an open reservation: the handler ends with an error.
ReserveRaises(t) ==
    /\ At(t, "reserve")
    /\ ~CanReserve(thr[t].s)
    /\ Done(t)
    /\ OnlyThread

FirstLink(t) ==
    /\ At(t, "firstLink")
    /\ CreateLink(thr[t].s, thr[t].dec.total)
    /\ Becomes(t, [thr[t] EXCEPT !.at = "pending", !.link = Len(links) + 1])
    /\ OnlyLinks

FirstLinkFails(t) ==
    /\ At(t, "firstLink")
    /\ CreateLinkFails
    /\ GoTo(t, "openRow")
    /\ OnlyThread

SetPending(t) ==
    /\ At(t, "pending")
    /\ SetRow(thr[t].s, [sessions[thr[t].s] EXCEPT
                 !.status = PENDING, !.attempt = 1, !.link = thr[t].link])
    /\ Done(t)
    /\ OnlySessions

-----------------------------------------------------------------------------
(* reconcile: poll the link, record what is new, then finish, retry or     *)
(* abandon.                                                                *)

ReconcileLoad(t, s) ==
    /\ Exists(s) /\ sessions[s].status = PENDING
    /\ CanStart(t, "reconcile")
    /\ Becomes(t, Begun("reconcile", s, "poll", sessions[s], None))
    /\ OnlyThread

\* Mutant: what the poll found is judged and never recorded.
PollUnrecorded(t) ==
    LET f == thr[t]
        news == Poll(f.row.link) \ {r.payment : r \in payments[f.s]}
    IN  /\ At(t, "poll")
        /\ Becomes(t, [f EXCEPT !.at = "judge", !.news = news,
                         !.dead = LinkDead(f.row.link)])
        /\ OnlyThread

PollStep(t) ==
    LET f == thr[t]
        news == Poll(f.row.link) \ {r.payment : r \in payments[f.s]}
    IN  /\ At(t, "poll")
        /\ Becomes(t, [f EXCEPT !.at = IF news = {} THEN "judge" ELSE "record",
                         !.news = news, !.todo = news,
                         !.dead = LinkDead(f.row.link)])
        /\ OnlyThread

\* Nothing is decided on a failed poll, not even that the link is overdue.
PollFails(t) ==
    /\ At(t, "poll")
    /\ CallMayFail
    /\ Done(t)
    /\ OnlyThread

RecordPayment(t, p) ==
    LET f == thr[t]
    IN  /\ At(t, "record") /\ p \in f.todo
        /\ \A r \in payments[f.s] : r.payment # p
        /\ payments' = [payments EXCEPT ![f.s] =
                          @ \cup {[payment |-> p, day |-> today]}]
        /\ Becomes(t, [f EXCEPT !.todo = @ \ {p},
                         !.at = IF f.todo = {p} THEN "judge" ELSE "record"])
        /\ UNCHANGED <<mandateVars, links, sessions, shopVars>>

\* Another thread recorded the payment first: the unique key refuses it.
RecordRaises(t, p) ==
    /\ At(t, "record") /\ p \in thr[t].todo
    /\ \E r \in payments[thr[t].s] : r.payment = p
    /\ Done(t)
    /\ OnlyThread

FoundCapture(f) == \E p \in f.news : IsCaptured(p)
\* Mutant: the service does not look at the clock.
AttemptRefused(f) == f.dead \/ \E p \in f.news : ~IsCaptured(p)

AttemptFailed(f) ==
    \/ \E p \in f.news : ~IsCaptured(p)
    \/ f.dead
    \/ links[f.row.link].due

\* Mutant: the session is completed and its reservation left as it is.
FinishUncommitted(t) ==
    /\ At(t, "judge") /\ FoundCapture(thr[t])
    /\ GoTo(t, "complete")
    /\ OnlyThread

\* _finish_paid: commit what is reserved, then complete the session.
FinishPaid(t) ==
    LET f == thr[t]
    IN  /\ At(t, "judge") /\ FoundCapture(f)
        /\ GoTo(t, IF OpenRows(f.s) # {} THEN "commit" ELSE "complete")
        /\ OnlyThread

NothingNew(t) ==
    /\ At(t, "judge") /\ ~FoundCapture(thr[t]) /\ ~AttemptFailed(thr[t])
    /\ Done(t)
    /\ OnlyThread

\* Mutant: one attempt too many.
FailedAttemptAgain(t) ==
    LET f == thr[t]
        row == sessions[f.s]
    IN  /\ At(t, "judge") /\ ~FoundCapture(f) /\ AttemptFailed(f)
        /\ \E seen \in Shops :
             LET d == Decide(f.s, row.items, PENDING, "retry", f.s, seen)
                 retry == row.attempt <= MAX_ATTEMPTS /\ d.verdict = "ALLOW"
             IN  Becomes(t, [f EXCEPT !.at = IF retry THEN "cancelOld" ELSE "abandon",
                                      !.row = row, !.dec = IF retry THEN d ELSE None,
                                      !.news = {}, !.dead = FALSE])
        /\ OnlyThread

\* _after_failed_attempt: the row is read again; one retry, if the gate
\* still allows it, then the session is abandoned.
FailedAttempt(t) ==
    LET f == thr[t]
        row == sessions[f.s]
    IN  /\ At(t, "judge") /\ ~FoundCapture(f) /\ AttemptFailed(f)
        /\ \E seen \in Shops :
             LET d == Decide(f.s, row.items, PENDING, "retry", f.s, seen)
                 retry == row.attempt < MAX_ATTEMPTS /\ d.verdict = "ALLOW"
             IN  Becomes(t, [f EXCEPT !.at = IF retry THEN "cancelOld" ELSE "abandon",
                                      !.row = row, !.dec = IF retry THEN d ELSE None,
                                      !.news = {}, !.dead = FALSE])
        /\ OnlyThread

CommitStep(t) ==
    /\ At(t, "commit")
    /\ Commit(thr[t].s)
    /\ GoTo(t, "complete")
    /\ OnlyMandates

CommitRaises(t) ==
    /\ At(t, "commit")
    /\ OpenRows(thr[t].s) = {}
    /\ Done(t)
    /\ OnlyThread

SetCompleted(t) ==
    /\ At(t, "complete")
    /\ SetRow(thr[t].s, [sessions[thr[t].s] EXCEPT !.status = COMPLETED])
    /\ Done(t)
    /\ OnlySessions

-----------------------------------------------------------------------------
(* The second attempt, and giving up.  A cancel of the old link that is    *)
(* refused, or done and not answered, is logged and otherwise ignored.     *)

TryCancel(l) ==
    \/ l # 0 /\ CancelLink(l)
    \/ (l # 0 => CancelLinkFails(l)) /\ UNCHANGED links

\* Mutant: the session is abandoned with its money still reserved.
CancelAndForget(t) ==
    /\ thr[t].at \in {"cancelOld", "abandon"}
    /\ TryCancel(thr[t].row.link)
    /\ GoTo(t, IF At(t, "cancelOld") THEN "secondLink" ELSE "canceled")
    /\ OnlyLinks

\* Mutant: the second attempt leaves the first link payable.
CancelNothing(t) ==
    /\ thr[t].at \in {"cancelOld", "abandon"}
    /\ GoTo(t, IF At(t, "cancelOld") THEN "secondLink" ELSE "openRow")
    /\ OnlyThread

CancelQuietly(t) ==
    /\ thr[t].at \in {"cancelOld", "abandon"}
    /\ TryCancel(thr[t].row.link)
    /\ GoTo(t, IF At(t, "cancelOld") THEN "secondLink" ELSE "openRow")
    /\ OnlyLinks

SecondLink(t) ==
    /\ At(t, "secondLink")
    /\ CreateLink(thr[t].s, thr[t].dec.total)
    /\ Becomes(t, [thr[t] EXCEPT !.at = "retried", !.link = Len(links) + 1])
    /\ OnlyLinks

SecondLinkFails(t) ==
    /\ At(t, "secondLink")
    /\ CreateLinkFails
    /\ Becomes(t, [thr[t] EXCEPT !.at = "abandon", !.row = sessions[thr[t].s]])
    /\ OnlyThread

SetRetried(t) ==
    /\ At(t, "retried")
    /\ SetRow(thr[t].s, [sessions[thr[t].s] EXCEPT
                 !.attempt = thr[t].row.attempt + 1, !.link = thr[t].link])
    /\ Done(t)
    /\ OnlySessions

\* Mutant: cancel ends with the release as complete does.
AfterReleaseEnds(f) ==
    IF f.op \in {"complete", "cancel"} THEN Idle ELSE [f EXCEPT !.at = "canceled"]

\* _release_if_open, and what follows it: complete ends after a provider
\* error, the other handlers cancel the session.
AfterRelease(f) == IF f.op = "complete" THEN Idle ELSE [f EXCEPT !.at = "canceled"]

ReadOpenRow(t) ==
    LET f == thr[t]
    IN  /\ At(t, "openRow")
        /\ Becomes(t, IF OpenRows(f.s) # {} THEN [f EXCEPT !.at = "release"]
                                            ELSE AfterRelease(f))
        /\ OnlyThread

ReleaseStep(t) ==
    /\ At(t, "release")
    /\ Release(thr[t].s)
    /\ Becomes(t, AfterRelease(thr[t]))
    /\ OnlyMandates

ReleaseRaises(t) ==
    /\ At(t, "release")
    /\ OpenRows(thr[t].s) = {}
    /\ Done(t)
    /\ OnlyThread

SetCanceled(t) ==
    /\ At(t, "canceled")
    /\ SetRow(thr[t].s, [sessions[thr[t].s] EXCEPT !.status = CANCELED])
    /\ Done(t)
    /\ OnlySessions

-----------------------------------------------------------------------------
(* cancel: by the agent or the merchant.                                   *)

CancelLoad(t, s) ==
    /\ Exists(s) /\ sessions[s].status \notin TERMINAL
    /\ CanStart(t, "cancel")
    /\ LET live == sessions[s].status = PENDING /\ sessions[s].link # 0
       IN  Becomes(t, Begun("cancel", s, IF live THEN "cancelLink" ELSE "openRow",
                            sessions[s], None))
    /\ OnlyThread

\* Mutant: the link is cancelled and nothing is released.
CancelLinkOnly(t) ==
    /\ At(t, "cancelLink")
    /\ CancelLink(thr[t].row.link)
    /\ GoTo(t, "canceled")
    /\ OnlyLinks

CancelLinkStep(t) ==
    /\ At(t, "cancelLink")
    /\ CancelLink(thr[t].row.link)
    /\ GoTo(t, "openRow")
    /\ OnlyLinks

\* The link is cancelled and the answer is lost: the adapter reports an error.
CancelLinkLost(t) ==
    /\ At(t, "cancelLink")
    /\ CallMayFail
    /\ CancelLink(thr[t].row.link)
    /\ GoTo(t, "finalPoll")
    /\ OnlyLinks

CancelLinkRefused(t) ==
    /\ At(t, "cancelLink")
    /\ CancelLinkFails(thr[t].row.link)
    /\ GoTo(t, "finalPoll")
    /\ OnlyThread

\* The final poll looks for a capture only; without one the cancel failed
\* and the session stays as it is.
FinalPoll(t) ==
    LET f == thr[t]
        late == {p \in Poll(f.row.link) : IsCaptured(p)}
                    \ {r.payment : r \in payments[f.s]}
    IN  /\ At(t, "finalPoll")
        /\ \/ \E p \in late : Becomes(t, [f EXCEPT !.at = "record",
                                                   !.news = {p}, !.todo = {p}])
           \/ (late = {} \/ CallMayFail) /\ Done(t)
        /\ OnlyThread

-----------------------------------------------------------------------------
(* refund: a merchant action on a completed session.                       *)

CapturesOf(s) == {r \in payments[s] : IsCaptured(r.payment)}
RefundsOf(s) == {r \in refunds : r.id[1] = s}

\* The gate reads one captured payment, the first one recorded.
RefundLoad(t, s, ref, a) ==
    /\ Exists(s)
    /\ CanStart(t, "refund")
    /\ \E cap \in CapturesOf(s) :
         /\ \A r \in CapturesOf(s) : cap.day <= r.day
         /\ RefundAllowed(
              [status |-> sessions[s].status, amount |-> a, reference |-> ref,
               captured |-> links[cap.payment.link].amount,
               refunded |-> Sum(RefundsOf(s)),
               seenReferences |-> {r.id[2] : r \in RefundsOf(s)},
               capturedAt |-> cap.day, now |-> today,
               windowDays |-> shop.policy.refundWindow])
         /\ Becomes(t, Begun("refund", s, "refund", sessions[s],
                             [reference |-> ref, amount |-> a,
                              link |-> cap.payment.link]))
    /\ OnlyThread

\* Mutant: a failed call is taken for a refund.
RefundUnchecked(t) ==
    /\ At(t, "refund")
    /\ UNCHANGED links \/ RefundPayment(thr[t].dec.link, thr[t].dec.amount)
    /\ GoTo(t, "recordRefund")
    /\ OnlyLinks

RefundStep(t) ==
    LET r == thr[t].dec
    IN  /\ At(t, "refund")
        /\ RefundPayment(r.link, r.amount)
        /\ GoTo(t, "recordRefund")
        /\ OnlyLinks

\* The money is paid back and the answer is lost: the adapter reports an error
\* and the handler records no refund.
RefundLost(t) ==
    LET r == thr[t].dec
    IN  /\ At(t, "refund")
        /\ CallMayFail
        /\ RefundUnheard(r.link, r.amount)
        /\ Done(t)
        /\ OnlyLinks

RefundFails(t) ==
    /\ At(t, "refund")
    /\ CallMayFail
    /\ Done(t)
    /\ OnlyThread

RecordRefundStep(t) ==
    LET f == thr[t]
    IN  /\ At(t, "recordRefund")
        /\ RecordRefund(f.s, f.dec.reference, f.row.mandate, f.dec.amount)
        /\ Done(t)
        /\ OnlyMandates

RecordRefundRaises(t) ==
    /\ At(t, "recordRefund")
    /\ ~CanRecordRefund(thr[t].s, thr[t].dec.reference)
    /\ Done(t)
    /\ OnlyThread

-----------------------------------------------------------------------------
(* The rest of the world.                                                  *)

OnlyWorld == UNCHANGED <<sessions, payments, reviews, thr, crashes>>

Merchant ==
    /\ \/ (\E m \in MandateIds : IssueMandate(m)) /\ UNCHANGED shop
       \/ RevokeMandate /\ UNCHANGED shop
       \/ shop' \in Shops \ {shop} /\ UNCHANGED mandateVars
    /\ UNCHANGED links
    /\ OnlyWorld

Clock ==
    /\ \/ NextDay /\ UNCHANGED links
       \/ (\E l \in LinkIds : LinkFallsDue(l) \/ LinkExpires(l)) /\ UNCHANGED mandateVars
    /\ UNCHANGED shop
    /\ OnlyWorld

Customer ==
    /\ \E l \in LinkIds : CustomerFails(l) \/ CustomerPays(l)
    /\ UNCHANGED <<mandateVars, shop>>
    /\ OnlyWorld

\* The process is killed in the middle of what its threads are doing.
Crash ==
    /\ crashes < MaxCrashes
    /\ \E t \in Threads : thr[t] # Idle
    /\ crashes' = crashes + 1
    /\ thr' = [t \in Threads |-> Idle]
    /\ UNCHANGED <<mandateVars, links, sessions, payments, reviews, shop>>

-----------------------------------------------------------------------------
Begin(t) ==
    \E s \in SessionIds :
        \/ \E items \in Carts : Create(t, s, items) \/ UpdateLoad(t, s, items)
        \/ \E op \in {"approve", "decline"} : ReviewLoad(t, s, op)
        \/ CompleteLoad(t, s)
        \/ ReconcileLoad(t, s)
        \/ CancelLoad(t, s)
        \/ \E ref \in References, a \in RefundAmounts : RefundLoad(t, s, ref, a)

Continue(t) ==
    \/ Store(t) \/ RecordReview(t) \/ Reevaluate(t) \/ Refuse(t)
    \/ ReserveStep(t) \/ ReserveRaises(t)
    \/ FirstLink(t) \/ FirstLinkFails(t) \/ SetPending(t)
    \/ PollStep(t) \/ PollFails(t)
    \/ \E p \in thr[t].todo : RecordPayment(t, p) \/ RecordRaises(t, p)
    \/ FinishPaid(t) \/ NothingNew(t) \/ FailedAttempt(t)
    \/ CommitStep(t) \/ CommitRaises(t) \/ SetCompleted(t)
    \/ CancelQuietly(t) \/ SecondLink(t) \/ SecondLinkFails(t) \/ SetRetried(t)
    \/ ReadOpenRow(t) \/ ReleaseStep(t) \/ ReleaseRaises(t) \/ SetCanceled(t)
    \/ CancelLinkStep(t) \/ CancelLinkLost(t) \/ CancelLinkRefused(t)
    \/ FinalPoll(t)
    \/ RefundStep(t) \/ RefundLost(t) \/ RefundFails(t)
    \/ RecordRefundStep(t) \/ RecordRefundRaises(t)

Next ==
    \/ \E t \in Threads : Begin(t) \/ Continue(t)
    \/ Merchant \/ Clock \/ Customer \/ Crash

Spec == Init /\ [][Next]_vars
=============================================================================
