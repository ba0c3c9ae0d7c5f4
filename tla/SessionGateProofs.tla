------------------------- MODULE SessionGateProofs --------------------------
(***************************************************************************)
(* What the gate allowed stays allowed until it is carried out: the caps   *)
(* of a mandate hold while no two handlers are about to reserve on it; and *)
(* while no two handlers work on one session, an order above the           *)
(* merchant's threshold has the merchant's approval, and what is reserved, *)
(* asked for and paid is one amount.  From all of it together follows that *)
(* the sessions implement OrderPromise.                                    *)
(*                                                                         *)
(* complete decides on one snapshot and reserves, creates links and        *)
(* retries on later ones, so no property says anything of a decision on    *)
(* its way.  CapInv, ApprovalInv and AmountInv add what such a decision    *)
(* still knows to be true; CapInv also says that no row is dated in the    *)
(* future, or the next day would start with money on it.                   *)
(***************************************************************************)
EXTENDS SessionSoloProofs

\* What a decision that allows an order has checked.
LEMMA EvaluateAllows ==
    ASSUME NEW gi, Evaluate(gi).verdict = "ALLOW"
    PROVE  /\ ItemsKnown(gi) /\ MandateActive(gi) /\ PerTxnCap(gi) /\ DailyCap(gi) /\ TotalCap(gi)
           /\ ReviewThreshold(gi)
           /\ Evaluate(gi).total = Total(gi) /\ Evaluate(gi).items = gi.items
<1>1. Failed(gi) = {}
  BY VerdictIs DEF Evaluate
<1>2. Priced(gi)
  BY <1>1 DEF Priced
<1>. QED
  BY <1>1, <1>2, FailedIs DEF Evaluate

LEMMA DecideAllows ==
    ASSUME TypeOK, NEW s, NEW items \in Items, NEW status, NEW mode, NEW x, NEW seen,
           NEW d, d = Decide(s, items, status, mode, x, seen), d.verdict = "ALLOW"
    PROVE  /\ d.mandate \in MandateIds
           /\ \A y : y = CartTotal(shop.catalog, items) => d.total = y
           /\ \A i \in DOMAIN items : items[i].id \in DOMAIN shop.catalog
           /\ d.total <= Terms[d.mandate].perTxn
           /\ SpentToday(d.mandate, x) + d.total <= Terms[d.mandate].daily
           /\ SpentTotal(d.mandate, x) + d.total <= Terms[d.mandate].total
           /\ shop.policy.reviewAbove > 0 /\ d.total > shop.policy.reviewAbove
                => Approved(s, items, seen)
<1>. DEFINE m == ActiveMandate
            gi == [agent |-> "active",
                mandate |-> IF m = None THEN None ELSE Terms[m],
                policy |-> shop.policy, catalog |-> shop.catalog,
                items |-> items, now |-> today, status |-> status,
                mode |-> mode, approved |-> Approved(s, items, seen),
                spentTotal |-> IF m = None THEN 0 ELSE SpentTotal(m, x),
                spentToday |-> IF m = None THEN 0 ELSE SpentToday(m, x)]
            e == Evaluate(gi)
<1>1. /\ gi.items = items /\ gi.catalog = shop.catalog /\ gi.policy = shop.policy
      /\ gi.approved = Approved(s, items, seen)
      /\ m = None => gi.mandate = None
      /\ m # None => gi.mandate = Terms[m] /\ gi.spentTotal = SpentTotal(m, x)
                     /\ gi.spentToday = SpentToday(m, x)
  OBVIOUS
<1>. HIDE DEF gi
<1>2. d = [verdict |-> e.verdict, items |-> e.items, total |-> e.total, mandate |-> m]
  BY DEF Decide, gi
<1>. HIDE DEF e, m
<1>3. d.verdict = e.verdict /\ d.items = e.items /\ d.total = e.total /\ d.mandate = m
  BY <1>2
<1>4. /\ ItemsKnown(gi) /\ MandateActive(gi) /\ PerTxnCap(gi) /\ DailyCap(gi) /\ TotalCap(gi)
      /\ ReviewThreshold(gi) /\ e.total = Total(gi) /\ e.items = gi.items
  BY <1>3, EvaluateAllows DEF e
<1>5. gi.mandate # None /\ m # None
  BY <1>1, <1>4 DEF MandateActive
<1>6. m \in MandateIds
  BY <1>3, DecideType
<1>7. Total(gi) = CartTotal(shop.catalog, items)
  BY <1>1, <1>4 DEF Total
<1>8. \A i \in DOMAIN items : items[i].id \in DOMAIN shop.catalog
  BY <1>1, <1>4 DEF ItemsKnown, KnownLines
<1>9. /\ Total(gi) <= Terms[m].perTxn
      /\ SpentToday(m, x) + Total(gi) <= Terms[m].daily
      /\ SpentTotal(m, x) + Total(gi) <= Terms[m].total
  BY <1>1, <1>4, <1>5 DEF PerTxnCap, DailyCap, TotalCap
<1>10. shop.policy.reviewAbove > 0 /\ Total(gi) > shop.policy.reviewAbove
         => Approved(s, items, seen)
  BY <1>1, <1>4 DEF ReviewThreshold
<1>. QED
  BY <1>1, <1>3, <1>4, <1>6, <1>7, <1>8, <1>9, <1>10
-----------------------------------------------------------------------------
(* Sums of rows.                                                           *)

\* Fewer rows add up to no more.
LEMMA SumLess ==
    ASSUME NEW R, NEW S, IsFiniteSet(Paise(S)), Paise(R) \subseteq Paise(S)
    PROVE  /\ IsFiniteSet(Paise(R)) /\ Sum(R) \in Nat /\ Sum(S) \in Nat /\ Sum(R) <= Sum(S)
<1>1. Paise(R) \in SUBSET Paise(S)
  OBVIOUS
<1>2. IsFiniteSet(Paise(R)) /\ Cardinality(Paise(R)) <= Cardinality(Paise(S))
  BY <1>1, FS_Subset
<1>. QED
  BY <1>2, FS_CardinalityType DEF Sum

LEMMA FewerRows ==
    ASSUME NEW R, NEW S, IsFiniteSet(Paise(S)), R \subseteq S
    PROVE  /\ IsFiniteSet(Paise(R)) /\ Sum(R) \in Nat /\ Sum(S) \in Nat /\ Sum(R) <= Sum(S)
<1>1. Paise(R) \subseteq Paise(S)
  BY DEF Paise
<1>. QED
  BY <1>1, SumLess

-----------------------------------------------------------------------------
RefundsOn(m) == {r \in refunds : r.mandate = m}
RowsOnDay(m, d) == {r \in RowsOn(m) : r.day = d}

\* The tables are finite, ids are unique and no row is dated in the future.
Books ==
    /\ IsFiniteSet(Paise(reservations)) /\ IsFiniteSet(Paise(refunds))
    /\ \A p, q \in reservations : p.id = q.id => p = q
    /\ \A r \in reservations : r.day <= today

\* The caps of one mandate, with a more to reserve today.
Fits(m, a) ==
    /\ a <= Terms[m].perTxn
    /\ Sum(RowsOnDay(m, today)) + a <= Terms[m].daily
    /\ Sum(RowsOn(m)) - Sum(RefundsOn(m)) + a <= Terms[m].total

CapInv ==
    /\ CapsHold
    /\ Books
    /\ \A t \in Threads : thr[t].at = "reserve" => Fits(thr[t].dec.mandate, thr[t].dec.total)

LEMMA SumsAreNat ==
    ASSUME Books, NEW m, NEW d
    PROVE  /\ IsFiniteSet(Paise(RowsOn(m))) /\ Sum(RowsOn(m)) \in Nat
           /\ IsFiniteSet(Paise(RowsOnDay(m, d))) /\ Sum(RowsOnDay(m, d)) \in Nat
           /\ IsFiniteSet(Paise(RefundsOn(m))) /\ Sum(RefundsOn(m)) \in Nat
<1>1. RowsOn(m) \subseteq reservations /\ RowsOnDay(m, d) \subseteq reservations
      /\ RefundsOn(m) \subseteq refunds
  BY DEF RowsOn, RowsOnDay, RefundsOn
<1>. QED
  BY <1>1, FewerRows DEF Books

\* What a later decision reads is what the caps speak of.
LEMMA AllowedFits ==
    ASSUME TypeOK, Books, NEW s, NEW items \in Items, NEW status, NEW mode, NEW seen,
           NEW d, d = Decide(s, items, status, mode, None, seen), d.verdict = "ALLOW"
    PROVE  Fits(d.mandate, d.total)
<1>. DEFINE m == d.mandate
            L == Sum(RowsOn(m)) - Sum(RefundsOn(m))
<1>1. /\ d.total <= Terms[m].perTxn /\ m \in MandateIds
      /\ SpentToday(m, None) + d.total <= Terms[m].daily
      /\ SpentTotal(m, None) + d.total <= Terms[m].total
  BY DecideAllows
<1>2. d.total \in Nat /\ Terms[m].total \in Nat
  BY <1>1, DecideType, CapsAssumption DEF Decision
<1>. HIDE DEF m
<1>3. \A r \in RowsOn(m) : r.session # None
  BY IdsAssumption DEF RowsOn, TypeOK, DataOK, Reservation
<1>4. /\ {r \in RowsOn(m) : r.session # None} = RowsOn(m)
      /\ {r \in RowsOn(m) : r.session # None /\ r.day = today} = RowsOnDay(m, today)
  BY <1>3 DEF RowsOnDay
<1>5. SpentToday(m, None) = Sum(RowsOnDay(m, today))
  BY <1>4 DEF SpentToday
<1>6. SpentTotal(m, None) = IF L > 0 THEN L ELSE 0
  BY <1>4 DEF SpentTotal, RefundsOn
<1>7. L \in Int
  BY SumsAreNat
<1>. HIDE DEF L
<1>8. L + d.total <= Terms[m].total
  BY <1>1, <1>2, <1>6, <1>7
<1>. QED
  BY <1>1, <1>5, <1>8 DEF Fits, L, m

\* The caps as one mandate sees them.
Within(m) ==
    /\ \A r \in RowsOn(m) : r.amount <= Terms[m].perTxn
    /\ \A d \in Days : Sum(RowsOnDay(m, d)) <= Terms[m].daily
    /\ Sum(RowsOn(m)) - Sum(RefundsOn(m)) <= Terms[m].total

LEMMA CapsAreWithin == CapsHold <=> \A m \in MandateIds : Within(m)
  BY DEF CapsHold, Within, RowsOnDay, RefundsOn

LEMMA SameBooks ==
    ASSUME UNCHANGED <<reservations, refunds>>, NEW m
    PROVE  /\ RowsOn(m)' = RowsOn(m) /\ Sum(RowsOn(m))' = Sum(RowsOn(m))
           /\ RefundsOn(m)' = RefundsOn(m) /\ Sum(RefundsOn(m))' = Sum(RefundsOn(m))
           /\ \A d : RowsOnDay(m, d)' = RowsOnDay(m, d) /\ Sum(RowsOnDay(m, d))' = Sum(RowsOnDay(m, d))
           /\ Within(m)' <=> Within(m)
  BY DEF RowsOn, RefundsOn, RowsOnDay, Sum, Paise, Within
-----------------------------------------------------------------------------
(* Where a decision that moves money comes from.                           *)

\* d is what the gate now says about the cart of session s.
Decided(s, d, x) ==
    /\ s \in SessionIds /\ sessions[s] \in Row
    /\ \E seen \in Shops : \E status, mode :
         d = Decide(s, sessions[s].items, status, mode, x, seen)

\* The decision of thread t is new, or it is the one t had before.
NewDecision(t) ==
    /\ OnlyThread
    /\ Decided(thr'[t].s, thr'[t].dec, IF thr'[t].at = "reserve" THEN None ELSE thr'[t].s)
    /\ thr'[t].dec.verdict = "ALLOW"

OldDecision(t) ==
    /\ thr[t].at \in MoneyPlaces /\ thr'[t].dec = thr[t].dec /\ thr'[t].s = thr[t].s
    /\ thr'[t].at = "reserve" => thr[t].at = "reserve"

LEMMA DecidedAllows ==
    ASSUME TypeOK, NEW s, NEW d, NEW x, Decided(s, d, x), d.verdict = "ALLOW"
    PROVE  /\ d.total = CartTotal(shop.catalog, sessions[s].items)
           /\ shop.policy.reviewAbove > 0 /\ d.total > shop.policy.reviewAbove
                => \E seen \in Shops : Approved(s, sessions[s].items, seen)
<1>1. PICK seen \in Shops : \E status, mode :
        d = Decide(s, sessions[s].items, status, mode, x, seen)
  BY DEF Decided
<1>2. PICK items \in Items : items = sessions[s].items
  BY DEF Decided, Row
<1>3. PICK status, mode : d = Decide(s, items, status, mode, x, seen)
  BY <1>1, <1>2
<1>4. /\ d.total = CartTotal(shop.catalog, items)
      /\ shop.policy.reviewAbove > 0 /\ d.total > shop.policy.reviewAbove
           => Approved(s, items, seen)
  <2>1. d.total = CartTotal(shop.catalog, items)
    <3>1. \A y : y = CartTotal(shop.catalog, items) => d.total = y
      BY <1>3, DecideAllows, Zenon
    <3>2. PICK y : y = CartTotal(shop.catalog, items)
      OBVIOUS
    <3>. QED
      BY <3>1, <3>2
  <2>2. shop.policy.reviewAbove > 0 /\ d.total > shop.policy.reviewAbove
          => Approved(s, items, seen)
    BY <1>3, DecideAllows, Zenon
  <2>. QED
    BY <2>1, <2>2
<1>. QED
  BY <1>2, <1>4

LEMMA BeginsToPay ==
    ASSUME TypeOK, NEW t \in Threads, Begin(t), thr'[t].at \in MoneyPlaces
    PROVE  NewDecision(t)
<1>1. \A op, s, place, row, dec :
        place \notin MoneyPlaces => ~Becomes(t, Begun(op, s, place, row, dec))
  BY DEF Becomes, Begun, TypeOK, FramesOK
<1>2. ASSUME NEW s \in SessionIds, NEW items \in Carts PROVE ~UpdateLoad(t, s, items)
  BY <1>1 DEF UpdateLoad, MoneyPlaces
<1>3. ASSUME NEW s \in SessionIds, NEW op PROVE ~ReviewLoad(t, s, op)
  BY <1>1 DEF ReviewLoad, MoneyPlaces
<1>4. ASSUME NEW s \in SessionIds PROVE ~ReconcileLoad(t, s)
  BY <1>1 DEF ReconcileLoad, MoneyPlaces
<1>5. ASSUME NEW s \in SessionIds PROVE ~CancelLoad(t, s)
  <2>1. \A b \in BOOLEAN : (IF b THEN "cancelLink" ELSE "openRow") \notin MoneyPlaces
    BY DEF MoneyPlaces
  <2>2. CancelLoad(t, s) => \E b \in BOOLEAN :
          Becomes(t, Begun("cancel", s, IF b THEN "cancelLink" ELSE "openRow", sessions[s], None))
    BY DEF CancelLoad
  <2>. QED
    BY <1>1, <2>1, <2>2
<1>6. ASSUME NEW s \in SessionIds, NEW ref \in References, NEW a \in RefundAmounts
      PROVE  ~RefundLoad(t, s, ref, a)
  <2>1. "refund" \notin MoneyPlaces
    BY DEF MoneyPlaces
  <2>2. RefundLoad(t, s, ref, a) => \E row, dec : Becomes(t, Begun("refund", s, "refund", row, dec))
    BY DEF RefundLoad
  <2>. QED
    BY <1>1, <2>1, <2>2
<1>7. ASSUME NEW s \in SessionIds, NEW items \in Carts PROVE ~Create(t, s, items)
  BY DEF Create, CanStart, Idle, Begun, MoneyPlaces
<1>8. PICK s \in SessionIds : CompleteLoad(t, s)
  BY <1>2, <1>3, <1>4, <1>5, <1>6, <1>7 DEF Begin
<1>0. PICK seen \in Shops :
        LET d == Decide(s, sessions[s].items, READY, "authoritative", None, seen)
        IN  Becomes(t, Begun("complete", s,
                             IF d.verdict = "ALLOW" THEN "reserve" ELSE "refuse", None, d))
  BY <1>8 DEF CompleteLoad
<1>. DEFINE d == Decide(s, sessions[s].items, READY, "authoritative", None, seen)
            place == IF d.verdict = "ALLOW" THEN "reserve" ELSE "refuse"
<1>9. /\ OnlyThread /\ Exists(s)
      /\ Becomes(t, Begun("complete", s, place, None, d))
  BY <1>0, <1>8 DEF CompleteLoad
<1>10. d.verdict # "ALLOW" => place = "refuse"
  OBVIOUS
<1>11. d.verdict = "ALLOW" => place = "reserve"
  OBVIOUS
<1>12. Decided(s, d, None)
  BY <1>9 DEF Decided, Exists, TypeOK, DataOK
<1>. HIDE DEF d, place
<1>13. thr'[t].s = s /\ thr'[t].dec = d /\ thr'[t].at = place
  BY <1>9, Begins
<1>. QED
  BY <1>9, <1>10, <1>11, <1>12, <1>13 DEF NewDecision, MoneyPlaces

LEMMA GoesOnPaying ==
    ASSUME TypeOK, NEW t \in Threads, Continue(t), thr'[t].at \in MoneyPlaces
    PROVE  OldDecision(t) \/ NewDecision(t)
<1>1. thr[t] \in Frame /\ thr \in [Threads -> Frame]
  BY DEF TypeOK, FramesOK
<1>2. ~Done(t)
  BY <1>1 DEF Done, Becomes, Idle, Begun, MoneyPlaces
<1>3. \A place : GoTo(t, place) => place \in MoneyPlaces
  BY Goes
<1>4. \/ ReserveStep(t) \/ FailedAttempt(t) \/ CancelQuietly(t)
      \/ RecordReview(t) \/ Reevaluate(t) \/ PollStep(t)
      \/ \E p \in thr[t].todo : RecordPayment(t, p)
      \/ FinishPaid(t) \/ ReadOpenRow(t) \/ ReleaseStep(t) \/ FinalPoll(t)
      \/ FirstLink(t) \/ SecondLink(t) \/ SecondLinkFails(t)
  <2>1. \A place \in {"openRow", "complete", "finalPoll", "recordRefund"} : ~GoTo(t, place)
    BY <1>3 DEF MoneyPlaces
  <2>. QED
    BY <1>2, <2>1 DEF Continue, Store, Refuse, ReserveRaises, FirstLinkFails, SetPending, PollFails,
       RecordRaises, NothingNew, CommitStep, CommitRaises, SetCompleted, SetRetried,
       ReleaseRaises, SetCanceled, CancelLinkStep, CancelLinkLost, CancelLinkRefused, RefundStep,
       RefundLost, RefundFails, RecordRefundStep, RecordRefundRaises
<1>5. CASE ReserveStep(t)
  <2>1. thr[t].at = "reserve" /\ GoTo(t, "firstLink")
    BY <1>5 DEF ReserveStep, At
  <2>. QED
    BY <2>1, Goes DEF OldDecision, MoneyPlaces
<1>6. CASE CancelQuietly(t)
  <2>1. /\ thr[t].at \in {"cancelOld", "abandon"}
        /\ GoTo(t, IF thr[t].at = "cancelOld" THEN "secondLink" ELSE "openRow")
    BY <1>6 DEF CancelQuietly, At
  <2>2. thr[t].at = "cancelOld" /\ GoTo(t, "secondLink")
    BY <1>3, <2>1 DEF MoneyPlaces
  <2>. QED
    BY <2>2, Goes DEF OldDecision, MoneyPlaces
<1>7. CASE FailedAttempt(t)
  <2>. DEFINE row == sessions[thr[t].s]
  <2>0. PICK seen \in Shops :
          LET d == Decide(thr[t].s, row.items, PENDING, "retry", thr[t].s, seen)
              retry == row.attempt < MAX_ATTEMPTS /\ d.verdict = "ALLOW"
          IN  Becomes(t, [thr[t] EXCEPT !.at = IF retry THEN "cancelOld" ELSE "abandon",
                            !.row = row, !.dec = IF retry THEN d ELSE None,
                            !.news = {}, !.dead = FALSE])
    BY <1>7 DEF FailedAttempt
  <2>. DEFINE d == Decide(thr[t].s, row.items, PENDING, "retry", thr[t].s, seen)
              retry == row.attempt < MAX_ATTEMPTS /\ d.verdict = "ALLOW"
              place == IF retry THEN "cancelOld" ELSE "abandon"
              dec == IF retry THEN d ELSE None
  <2>1. Becomes(t, [thr[t] EXCEPT !.at = place, !.row = row, !.dec = dec,
                      !.news = {}, !.dead = FALSE])
    BY <2>0
  <2>2. /\ retry => place = "cancelOld" /\ dec = d /\ d.verdict = "ALLOW"
        /\ ~retry => place = "abandon"
    OBVIOUS
  <2>3. thr[t].at = "judge" /\ OnlyThread
    BY <1>7 DEF FailedAttempt, At
  <2>4. Decided(thr[t].s, d, thr[t].s)
    BY <2>3, Working DEF Decided
  <2>. HIDE DEF row, dec, place, d, retry
  <2>5. thr'[t].at = place /\ thr'[t].dec = dec /\ thr'[t].s = thr[t].s
    BY <1>1, <2>1 DEF Becomes, Frame
  <2>6. retry /\ thr'[t].at = "cancelOld" /\ thr'[t].dec = d
    BY <2>2, <2>5 DEF MoneyPlaces
  <2>. QED
    BY <2>2, <2>3, <2>4, <2>5, <2>6 DEF NewDecision
<1>8. ASSUME \/ RecordReview(t) \/ Reevaluate(t) \/ PollStep(t) \/ FinishPaid(t) \/ FinalPoll(t)
             \/ \E p \in thr[t].todo : RecordPayment(t, p)
      PROVE  FALSE
  <2>1. thr'[t].at \in {"reevaluate", "refuse", "store", "judge", "record", "commit", "complete"}
    <3>1. CASE RecordReview(t)
      BY <1>1, <3>1 DEF RecordReview, GoTo, Frame
    <3>2. CASE Reevaluate(t)
      BY <1>1, <3>2 DEF Reevaluate, Becomes, Frame
    <3>3. CASE PollStep(t)
      BY <1>1, <3>3 DEF PollStep, Becomes, Frame
    <3>4. CASE FinishPaid(t)
      BY <1>1, <3>4 DEF FinishPaid, GoTo, Frame
    <3>5. CASE FinalPoll(t)
      BY <1>1, <1>2, <3>5 DEF FinalPoll, Becomes, Frame
    <3>6. ASSUME NEW p \in thr[t].todo, RecordPayment(t, p)
          PROVE  thr'[t].at \in {"judge", "record"}
      BY <1>1, <3>6 DEF RecordPayment, Becomes, Frame
    <3>. QED
      BY <1>8, <3>1, <3>2, <3>3, <3>4, <3>5, <3>6
  <2>. QED
    BY <2>1 DEF MoneyPlaces
<1>9. ASSUME ReadOpenRow(t) \/ ReleaseStep(t) \/ FirstLink(t) \/ SecondLink(t) \/ SecondLinkFails(t)
      PROVE  FALSE
  <2>1. thr'[t].at \in {"idle", "release", "canceled", "pending", "retried", "abandon"}
    <3>1. CASE ReadOpenRow(t) \/ ReleaseStep(t)
      <4>1. \/ Becomes(t, Idle)
            \/ \E place \in {"release", "canceled"} : Becomes(t, [thr[t] EXCEPT !.at = place])
        BY <3>1 DEF ReadOpenRow, ReleaseStep, AfterRelease
      <4>. QED
        BY <1>1, <4>1 DEF Becomes, Idle, Begun, Frame
    <3>2. CASE FirstLink(t) \/ SecondLink(t)
      BY <1>1, <3>2 DEF FirstLink, SecondLink, Becomes, Frame
    <3>3. CASE SecondLinkFails(t)
      BY <1>1, <3>3 DEF SecondLinkFails, Becomes, Frame
    <3>. QED
      BY <1>9, <3>1, <3>2, <3>3
  <2>. QED
    BY <2>1 DEF MoneyPlaces
<1>. QED
  BY <1>4, <1>5, <1>6, <1>7, <1>8, <1>9

\* A step of another thread or of the world leaves it alone.
LEMMA DecisionSteps ==
    ASSUME TypeOK, [Next]_vars, NEW t \in Threads, thr'[t].at \in MoneyPlaces
    PROVE  OldDecision(t) \/ NewDecision(t)
<1>1. CASE thr'[t] = thr[t]
  BY <1>1 DEF OldDecision
<1>2. ASSUME NEW u \in Threads, Begin(u) \/ Continue(u), u # t PROVE thr'[t] = thr[t]
  BY <1>2, OthersWait
<1>3. CASE Begin(t) \/ Continue(t)
  BY <1>3, BeginsToPay, GoesOnPaying
<1>4. CASE Crash
  BY <1>4 DEF Crash, Idle, Begun, MoneyPlaces
<1>. QED
  BY <1>1, <1>2, <1>3, <1>4, NextKinds
-----------------------------------------------------------------------------
(* The three kinds of transaction.                                         *)

LEMMA MoneyKinds ==
    ASSUME [Next]_vars
    PROVE  UNCHANGED <<reservations, refunds>> \/ \E t \in Threads : MovesMoney(t)
<1>1. ASSUME NEW t \in Threads, Begin(t) PROVE UNCHANGED <<reservations, refunds>>
  BY <1>1, BeginKinds DEF OnlyThread, Create, mandateVars
<1>2. ASSUME NEW t \in Threads, Continue(t)
      PROVE  UNCHANGED <<reservations, refunds>> \/ MovesMoney(t)
  BY <1>2, ContinueKinds DEF OnlyThread, OnlyLinks, OnlySessions, RecordReview, RecordPayment, mandateVars
<1>. QED
  BY <1>1, <1>2, NextKinds

\* A reservation adds one row, dated today, with a new id.
LEMMA ReservesOne ==
    ASSUME TypeOK, NEW t \in Threads, ReserveStep(t)
    PROVE  \E row \in Reservation :
             /\ reservations' = reservations \cup {row}
             /\ row.mandate = thr[t].dec.mandate /\ row.amount = thr[t].dec.total
             /\ row.day = today /\ \A q \in reservations : q.id # row.id
<1>1. /\ thr[t].at = "reserve" /\ Reserve(thr[t].s, thr[t].dec.mandate, thr[t].dec.total)
      /\ CanReserve(thr[t].s)
  BY DEF ReserveStep, Reserve, At
<1>2. /\ thr[t].s \in SessionIds /\ thr[t].dec \in Decision /\ thr[t].dec.mandate \in MandateIds
  BY <1>1, Working DEF FrameOK, DecidedPlaces, MoneyPlaces
<1>. DEFINE i == CHOOSE i \in FreshIds : TRUE
            row == [id |-> i, session |-> thr[t].s, mandate |-> thr[t].dec.mandate,
                    amount |-> thr[t].dec.total, day |-> today, state |-> "reserved"]
<1>3. i \in FreshIds
  BY <1>1 DEF CanReserve
<1>. HIDE DEF i
<1>4. i \in ReservationIds /\ \A q \in reservations : q.id # i
  BY <1>3 DEF FreshIds
<1>5. row \in Reservation
  BY <1>2, <1>4 DEF Reservation, Decision, TypeOK, DataOK
<1>6. reservations' = reservations \cup {row}
  BY <1>1 DEF Reserve, i
<1>. QED
  BY <1>4, <1>5, <1>6

\* A commit changes the state of rows and nothing else of them.
SameButState(r, q) ==
    r.id = q.id /\ r.session = q.session /\ r.mandate = q.mandate /\ r.amount = q.amount /\ r.day = q.day

LEMMA CommitTurns ==
    ASSUME TypeOK, NEW s, Commit(s)
    PROVE  /\ \A r \in reservations : \E q \in reservations' : SameButState(r, q)
           /\ \A q \in reservations' : \E r \in reservations : SameButState(r, q)
           /\ \A p, q \in reservations' : \A r \in reservations :
                SameButState(r, p) /\ SameButState(r, q) /\ (\A z \in reservations : z.id = r.id => z = r)
                  => p = q
<1>. DEFINE turn(r) == [r EXCEPT !.state = "committed"]
            Turned == {turn(r) : r \in OpenRows(s)}
<1>1. reservations' = (reservations \ OpenRows(s)) \cup Turned /\ OpenRows(s) \subseteq reservations
  BY DEF Commit, OpenRows
<1>2. \A r \in reservations : SameButState(r, turn(r)) /\ turn(r) \in Reservation
  BY DEF SameButState, TypeOK, DataOK, Reservation
<1>3. \A r \in OpenRows(s) : turn(r) \in Turned
  OBVIOUS
<1>4. \A q \in Turned : \E r \in OpenRows(s) : q = turn(r)
  OBVIOUS
<1>. HIDE DEF turn, Turned
<1>5. \A r \in reservations : SameButState(r, r)
  BY DEF SameButState
<1>6. \A r \in reservations : \E q \in reservations' : SameButState(r, q)
  BY <1>1, <1>2, <1>3, <1>5
<1>7. \A q \in reservations' : \E r \in reservations : SameButState(r, q)
  BY <1>1, <1>2, <1>4, <1>5
<1>8. ASSUME NEW p \in reservations', NEW r \in reservations, SameButState(r, p),
             \A z \in reservations : z.id = r.id => z = r
      PROVE  p = IF r \in OpenRows(s) THEN turn(r) ELSE r
  <2>1. CASE p \in Turned
    <3>1. PICK z \in OpenRows(s) : p = turn(z)
      BY <1>4, <2>1
    <3>2. z.id = r.id
      BY <1>1, <1>2, <1>8, <3>1 DEF SameButState
    <3>. QED
      BY <1>1, <1>8, <3>1, <3>2
  <2>2. CASE p \in reservations \ OpenRows(s)
    BY <1>8, <2>2 DEF SameButState
  <2>. QED
    BY <1>1, <2>1, <2>2
<1>. QED
  BY <1>6, <1>7, <1>8

LEMMA SamePaise ==
    ASSUME NEW R, NEW S,
           \A r \in R : \E q \in S : r.id = q.id /\ r.amount = q.amount,
           \A q \in S : \E r \in R : r.id = q.id /\ r.amount = q.amount
    PROVE  Paise(R) = Paise(S)
<1>1. \A z \in Paise(R) : z \in Paise(S)
  BY InPaise
<1>2. \A z \in Paise(S) : z \in Paise(R)
  BY InPaise
<1>. QED
  BY <1>1, <1>2

LEMMA CommitSums ==
    ASSUME TypeOK, NEW s, Commit(s), NEW m, NEW d
    PROVE  /\ Paise(reservations') = Paise(reservations)
           /\ Sum(RowsOn(m))' = Sum(RowsOn(m)) /\ Sum(RowsOnDay(m, d))' = Sum(RowsOnDay(m, d))
           /\ Sum(RefundsOn(m))' = Sum(RefundsOn(m))
<1>1. Paise(reservations') = Paise(reservations)
  BY CommitTurns, SamePaise DEF SameButState
<1>2. Paise(RowsOn(m)') = Paise(RowsOn(m))
  <2>1. /\ \A r \in RowsOn(m) : \E q \in RowsOn(m)' : SameButState(r, q)
        /\ \A q \in RowsOn(m)' : \E r \in RowsOn(m) : SameButState(r, q)
    BY CommitTurns DEF SameButState, RowsOn
  <2>. QED
    BY <2>1, SamePaise DEF SameButState
<1>3. Paise(RowsOnDay(m, d)') = Paise(RowsOnDay(m, d))
  <2>1. /\ \A r \in RowsOnDay(m, d) : \E q \in RowsOnDay(m, d)' : SameButState(r, q)
        /\ \A q \in RowsOnDay(m, d)' : \E r \in RowsOnDay(m, d) : SameButState(r, q)
    BY CommitTurns DEF SameButState, RowsOn, RowsOnDay
  <2>. QED
    BY <2>1, SamePaise DEF SameButState
<1>4. RefundsOn(m)' = RefundsOn(m)
  BY DEF Commit, RefundsOn
<1>. QED
  BY <1>1, <1>2, <1>3, <1>4 DEF Sum, Paise

\* The row of a refund.
LEMMA RefundsOne ==
    ASSUME TypeOK, NEW t \in Threads, RecordRefundStep(t)
    PROVE  \E row : /\ refunds' = refunds \cup {row} /\ row.amount \in Nat
                    /\ \A q \in refunds : q.id # row.id
<1>. DEFINE row == [id |-> <<thr[t].s, thr[t].dec.reference>>, mandate |-> thr[t].row.mandate,
                    amount |-> thr[t].dec.amount]
<1>1. thr[t].at = "recordRefund" /\ refunds' = refunds \cup {row} /\ \A q \in refunds : q.id # row.id
  BY DEF RecordRefundStep, RecordRefund, CanRecordRefund, At
<1>2. row.amount \in Nat
  BY <1>1, OwesAmount
<1>. QED
  BY <1>1, <1>2

LEMMA DaysPass ==
    ASSUME TypeOK, [Next]_vars
    PROVE  /\ today' \in Days /\ today \in Days /\ today <= today'
           /\ today' # today => UNCHANGED <<reservations, refunds>>
<1>1. today \in Days /\ today' \in Days
  BY TypeNext DEF TypeOK, DataOK
<1>2. \/ UNCHANGED today
      \/ today' = today + 1 /\ UNCHANGED <<reservations, refunds>>
  <2>1. ASSUME NEW t \in Threads, Begin(t) PROVE UNCHANGED today
    BY <2>1, BeginKinds DEF OnlyThread, Create, mandateVars
  <2>2. ASSUME NEW t \in Threads, MovesMoney(t) PROVE UNCHANGED today
    BY <2>2 DEF MovesMoney, ReserveStep, CommitStep, ReleaseStep, RecordRefundStep, Reserve, Commit,
       Release, RecordRefund
  <2>3. ASSUME NEW t \in Threads, Continue(t) PROVE UNCHANGED today
    BY <2>2, <2>3, ContinueKinds DEF OnlyThread, OnlyLinks, OnlySessions, RecordReview,
       RecordPayment, mandateVars
  <2>4. CASE Merchant \/ Clock \/ Customer \/ Crash \/ UNCHANGED vars
    BY <2>4 DEF Merchant, Clock, Customer, Crash, vars, IssueMandate, RevokeMandate, NextDay, mandateVars
  <2>. QED
    BY <2>1, <2>3, <2>4 DEF Next
<1>. QED
  BY <1>1, <1>2, DaysAssumption DEF Days
LEMMA BooksNext ==
    ASSUME TypeOK, Books, [Next]_vars
    PROVE  Books'
<1>1. today <= today' /\ today \in Nat /\ today' \in Nat
  BY DaysPass, DaysAssumption DEF Days
<1>2. \A r \in reservations : r.day \in Nat
  BY DaysAssumption DEF TypeOK, DataOK, Reservation, Days
<1>3. CASE UNCHANGED <<reservations, refunds>>
  BY <1>1, <1>2, <1>3 DEF Books, Paise
<1>4. ASSUME NEW t \in Threads, ReserveStep(t) PROVE Books'
  <2>1. PICK row \in Reservation :
             /\ reservations' = reservations \cup {row}
             /\ row.day = today /\ \A q \in reservations : q.id # row.id
    BY <1>4, ReservesOne
  <2>2. row.amount \in Nat
    BY DEF Reservation
  <2>3. IsFiniteSet(Paise(reservations \cup {row}))
    BY <2>1, <2>2, SumAdd DEF Books
  <2>4. refunds' = refunds
    BY <1>4 DEF ReserveStep, Reserve
  <2>. QED
    BY <1>1, <1>2, <2>1, <2>3, <2>4 DEF Books, Paise
<1>5. ASSUME NEW t \in Threads, CommitStep(t) PROVE Books'
  <2>1. Commit(thr[t].s) /\ refunds' = refunds
    BY <1>5 DEF CommitStep, Commit
  <2>2. Paise(reservations') = Paise(reservations)
    BY <2>1, CommitSums
  <2>3. \A r \in reservations' : r.day <= today'
    BY <1>1, <1>2, <2>1, CommitTurns DEF Books, SameButState
  <2>4. \A p, q \in reservations' : p.id = q.id => p = q
    <3>. SUFFICES ASSUME NEW p \in reservations', NEW q \in reservations', p.id = q.id
                  PROVE  p = q
      OBVIOUS
    <3>1. PICK r \in reservations : SameButState(r, p)
      BY <2>1, CommitTurns
    <3>2. PICK z \in reservations : SameButState(z, q)
      BY <2>1, CommitTurns
    <3>3. z = r
      BY <3>1, <3>2 DEF Books, SameButState
    <3>4. \A y \in reservations : y.id = r.id => y = r
      BY DEF Books
    <3>. QED
      BY <2>1, <3>1, <3>2, <3>3, <3>4, CommitTurns
  <2>. QED
    BY <2>1, <2>2, <2>3, <2>4 DEF Books, Paise
<1>6. ASSUME NEW t \in Threads, ReleaseStep(t) PROVE Books'
  <2>1. reservations' \subseteq reservations /\ refunds' = refunds
    BY <1>6 DEF ReleaseStep, Release
  <2>2. IsFiniteSet(Paise(reservations'))
    BY <2>1, FewerRows DEF Books
  <2>. QED
    BY <1>1, <1>2, <2>1, <2>2 DEF Books, Paise
<1>7. ASSUME NEW t \in Threads, RecordRefundStep(t) PROVE Books'
  <2>1. PICK row : /\ refunds' = refunds \cup {row} /\ row.amount \in Nat
                   /\ \A q \in refunds : q.id # row.id
    BY <1>7, RefundsOne
  <2>2. IsFiniteSet(Paise(refunds \cup {row}))
    BY <2>1, SumAdd DEF Books
  <2>3. reservations' = reservations
    BY <1>7 DEF RecordRefundStep, RecordRefund
  <2>. QED
    BY <1>1, <1>2, <2>1, <2>2, <2>3 DEF Books, Paise
<1>. QED
  BY <1>3, <1>4, <1>5, <1>6, <1>7, MoneyKinds DEF MovesMoney

-----------------------------------------------------------------------------
(* The caps from one step to the next.                                     *)

\* Only a reservation adds to what counts, and it fits.
LEMMA WithinReserves ==
    ASSUME TypeOK, Books, NEW t \in Threads, ReserveStep(t), NEW m \in MandateIds, Within(m),
           Fits(thr[t].dec.mandate, thr[t].dec.total)
    PROVE  Within(m)'
<1>1. PICK row \in Reservation :
             /\ reservations' = reservations \cup {row}
             /\ row.mandate = thr[t].dec.mandate /\ row.amount = thr[t].dec.total
             /\ row.day = today /\ \A q \in reservations : q.id # row.id
  BY ReservesOne
<1>2. row.amount \in Nat /\ refunds' = refunds
  BY DEF Reservation, ReserveStep, Reserve
<1>3. CASE row.mandate # m
  <2>1. /\ RowsOn(m)' = RowsOn(m) /\ \A d : RowsOnDay(m, d)' = RowsOnDay(m, d)
        /\ RefundsOn(m)' = RefundsOn(m)
    BY <1>1, <1>2, <1>3 DEF RowsOn, RowsOnDay, RefundsOn
  <2>. QED
    BY <2>1 DEF Within, Sum, Paise
<1>4. CASE row.mandate = m
  <2>1. Fits(m, row.amount)
    BY <1>1, <1>4
  <2>2. /\ RowsOn(m)' = RowsOn(m) \cup {row} /\ RefundsOn(m)' = RefundsOn(m)
        /\ RowsOnDay(m, today)' = RowsOnDay(m, today) \cup {row} \/ today' # today
        /\ \A q \in RowsOn(m) : q.id # row.id
    BY <1>1, <1>2, <1>4 DEF RowsOn, RowsOnDay, RefundsOn
  <2>3. today' = today
    BY DEF ReserveStep, Reserve
  <2>4. ASSUME NEW d \in Days PROVE Sum(RowsOnDay(m, d))' <= Terms[m].daily
    <3>1. CASE d = today
      <4>1. RowsOnDay(m, d)' = RowsOnDay(m, d) \cup {row} /\ \A q \in RowsOnDay(m, d) : q.id # row.id
        BY <1>1, <1>4, <3>1 DEF RowsOn, RowsOnDay
      <4>2. IsFiniteSet(Paise(RowsOnDay(m, d)))
        BY SumsAreNat
      <4>3. Sum(RowsOnDay(m, d) \cup {row}) = Sum(RowsOnDay(m, d)) + row.amount
        BY <1>2, <4>1, <4>2, SumAdd
      <4>4. Sum(RowsOnDay(m, d)) + row.amount <= Terms[m].daily
        BY <2>1, <3>1 DEF Fits
      <4>. QED
        BY <4>1, <4>3, <4>4 DEF Sum, Paise
    <3>2. CASE d # today
      <4>1. RowsOnDay(m, d)' = RowsOnDay(m, d)
        BY <1>1, <3>2 DEF RowsOn, RowsOnDay
      <4>. QED
        BY <4>1 DEF Within, Sum, Paise
    <3>. QED
      BY <3>1, <3>2
  <2>5. Sum(RowsOn(m))' = Sum(RowsOn(m)) + row.amount
    <3>1. IsFiniteSet(Paise(RowsOn(m)))
      BY SumsAreNat
    <3>2. Sum(RowsOn(m) \cup {row}) = Sum(RowsOn(m)) + row.amount
      BY <1>2, <2>2, <3>1, SumAdd
    <3>. QED
      BY <2>2, <3>2 DEF Sum, Paise
  <2>6. Sum(RefundsOn(m))' = Sum(RefundsOn(m))
    BY <2>2 DEF Sum, Paise
  <2>7. Sum(RowsOn(m))' - Sum(RefundsOn(m))' <= Terms[m].total
    BY <1>2, <2>1, <2>5, <2>6, SumsAreNat, CapsAssumption DEF Fits
  <2>8. \A r \in RowsOn(m)' : r.amount <= Terms[m].perTxn
    BY <2>1, <2>2 DEF Fits, Within
  <2>. QED
    BY <2>4, <2>7, <2>8 DEF Within
<1>. QED
  BY <1>3, <1>4

\* What settles a reservation or refunds it adds nothing to what counts.
LEMMA SettlesLess ==
    ASSUME TypeOK, Books, Books', NEW t \in Threads,
           CommitStep(t) \/ ReleaseStep(t) \/ RecordRefundStep(t), NEW m
    PROVE  /\ \A d : /\ Sum(RowsOn(m)) \in Nat /\ Sum(RefundsOn(m)) \in Nat
                    /\ Sum(RowsOnDay(m, d)) \in Nat
                    /\ Sum(RowsOn(m))' \in Nat /\ Sum(RefundsOn(m))' \in Nat
                    /\ Sum(RowsOnDay(m, d))' \in Nat
           /\ Sum(RowsOn(m))' <= Sum(RowsOn(m))
           /\ \A d : Sum(RowsOnDay(m, d))' <= Sum(RowsOnDay(m, d))
           /\ Sum(RefundsOn(m)) <= Sum(RefundsOn(m))'
           /\ \A r \in RowsOn(m)' : \E q \in RowsOn(m) : q.amount = r.amount
<1>1. \A d : /\ Sum(RowsOn(m)) \in Nat /\ Sum(RefundsOn(m)) \in Nat /\ Sum(RowsOnDay(m, d)) \in Nat
             /\ Sum(RowsOn(m))' \in Nat /\ Sum(RefundsOn(m))' \in Nat /\ Sum(RowsOnDay(m, d))' \in Nat
  <2>1. \A d : Sum(RowsOn(m)) \in Nat /\ Sum(RefundsOn(m)) \in Nat /\ Sum(RowsOnDay(m, d)) \in Nat
    BY SumsAreNat
  <2>2. \A d : Sum(RowsOn(m))' \in Nat /\ Sum(RefundsOn(m))' \in Nat /\ Sum(RowsOnDay(m, d))' \in Nat
    <3>1. RowsOn(m)' \subseteq reservations' /\ RefundsOn(m)' \subseteq refunds'
          /\ \A d : RowsOnDay(m, d)' \subseteq reservations'
      BY DEF RowsOn, RowsOnDay, RefundsOn
    <3>2. IsFiniteSet(Paise(reservations')) /\ IsFiniteSet(Paise(refunds'))
      BY DEF Books, Paise
    <3>3. Sum(RowsOn(m)') \in Nat /\ Sum(RefundsOn(m)') \in Nat /\ \A d : Sum(RowsOnDay(m, d)') \in Nat
      BY <3>1, <3>2, FewerRows
    <3>. QED
      BY <3>3 DEF Sum, Paise
  <2>. QED
    BY <2>1, <2>2
<1>2. /\ Sum(RowsOn(m))' <= Sum(RowsOn(m))
      /\ \A d : Sum(RowsOnDay(m, d))' <= Sum(RowsOnDay(m, d))
      /\ Sum(RefundsOn(m)) <= Sum(RefundsOn(m))'
      /\ \A r \in RowsOn(m)' : \E q \in RowsOn(m) : q.amount = r.amount
  <2>1. CASE CommitStep(t)
    <3>1. Commit(thr[t].s)
      BY <2>1 DEF CommitStep
    <3>2. \A r \in RowsOn(m)' : \E q \in RowsOn(m) : q.amount = r.amount
      BY <3>1, CommitTurns DEF RowsOn, SameButState
    <3>3. \A d : /\ Sum(RowsOn(m))' = Sum(RowsOn(m)) /\ Sum(RowsOnDay(m, d))' = Sum(RowsOnDay(m, d))
                 /\ Sum(RefundsOn(m))' = Sum(RefundsOn(m))
      BY <3>1, CommitSums
    <3>. QED
      BY <1>1, <3>2, <3>3
  <2>2. CASE ReleaseStep(t)
    <3>1. /\ RowsOn(m)' \subseteq RowsOn(m) /\ RefundsOn(m)' = RefundsOn(m)
          /\ \A d : RowsOnDay(m, d)' \subseteq RowsOnDay(m, d)
      BY <2>2 DEF ReleaseStep, Release, RowsOn, RowsOnDay, RefundsOn
    <3>2. \A d : IsFiniteSet(Paise(RowsOn(m))) /\ IsFiniteSet(Paise(RowsOnDay(m, d)))
      BY SumsAreNat
    <3>3. Sum(RowsOn(m)') <= Sum(RowsOn(m)) /\ \A d : Sum(RowsOnDay(m, d)') <= Sum(RowsOnDay(m, d))
      BY <3>1, <3>2, FewerRows
    <3>4. Sum(RefundsOn(m))' = Sum(RefundsOn(m))
      BY <3>1 DEF Sum, Paise
    <3>5. Sum(RowsOn(m))' <= Sum(RowsOn(m)) /\ \A d : Sum(RowsOnDay(m, d))' <= Sum(RowsOnDay(m, d))
      BY <3>3 DEF Sum, Paise
    <3>. QED
      BY <1>1, <3>1, <3>4, <3>5
  <2>3. CASE RecordRefundStep(t)
    <3>1. reservations' = reservations /\ refunds \subseteq refunds'
      BY <2>3 DEF RecordRefundStep, RecordRefund
    <3>2. /\ RowsOn(m)' = RowsOn(m) /\ \A d : RowsOnDay(m, d)' = RowsOnDay(m, d)
          /\ RefundsOn(m) \subseteq RefundsOn(m)' /\ RefundsOn(m)' \subseteq refunds'
      BY <3>1 DEF RowsOn, RowsOnDay, RefundsOn
    <3>3. IsFiniteSet(Paise(refunds'))
      BY DEF Books, Paise
    <3>4. IsFiniteSet(Paise(RefundsOn(m)'))
      BY <3>2, <3>3, FewerRows
    <3>5. Sum(RefundsOn(m)) <= Sum(RefundsOn(m)')
      BY <3>2, <3>4, FewerRows
    <3>6. /\ Sum(RowsOn(m))' = Sum(RowsOn(m)) /\ Sum(RefundsOn(m)) <= Sum(RefundsOn(m))'
          /\ \A d : Sum(RowsOnDay(m, d))' = Sum(RowsOnDay(m, d))
      BY <3>2, <3>5 DEF Sum, Paise
    <3>. QED
      BY <1>1, <3>2, <3>6
  <2>. QED
    BY <2>1, <2>2, <2>3
<1>. QED
  BY <1>1, <1>2

LEMMA WithinSettles ==
    ASSUME TypeOK, Books, Books', NEW t \in Threads,
           CommitStep(t) \/ ReleaseStep(t) \/ RecordRefundStep(t),
           NEW m \in MandateIds, Within(m)
    PROVE  Within(m)'
BY SettlesLess, CapsAssumption DEF Within

\* What settles leaves room for a decision on its way.
LEMMA FitsSettles ==
    ASSUME TypeOK, Books, Books', NEW t \in Threads,
           CommitStep(t) \/ ReleaseStep(t) \/ RecordRefundStep(t),
           NEW m \in MandateIds, NEW a \in Nat, Fits(m, a)
    PROVE  Fits(m, a)'
<1>1. today' = today
  BY DEF CommitStep, ReleaseStep, RecordRefundStep, Commit, Release, RecordRefund
<1>2. PICK d : d = today
  OBVIOUS
<1>3. Sum(RowsOnDay(m, d))' <= Sum(RowsOnDay(m, d))
  BY SettlesLess
<1>4. Sum(RowsOnDay(m, today))' <= Sum(RowsOnDay(m, today))
  <2>1. RowsOnDay(m, today)' = RowsOnDay(m, d)'
    BY <1>1, <1>2 DEF RowsOnDay
  <2>. QED
    BY <1>2, <1>3, <2>1 DEF Sum, Paise
<1>5. Sum(RowsOnDay(m, today)) \in Nat /\ Sum(RowsOnDay(m, today))' \in Nat
  <2>1. Sum(RowsOnDay(m, d)) \in Nat /\ Sum(RowsOnDay(m, d))' \in Nat
    BY SettlesLess
  <2>2. RowsOnDay(m, today)' = RowsOnDay(m, d)'
    BY <1>1, <1>2 DEF RowsOnDay
  <2>. QED
    BY <1>2, <2>1, <2>2 DEF Sum, Paise
<1>6. /\ Sum(RowsOn(m)) \in Nat /\ Sum(RefundsOn(m)) \in Nat
      /\ Sum(RowsOn(m))' \in Nat /\ Sum(RefundsOn(m))' \in Nat
      /\ Sum(RowsOn(m))' <= Sum(RowsOn(m)) /\ Sum(RefundsOn(m)) <= Sum(RefundsOn(m))'
  BY SettlesLess
<1>. QED
  BY <1>4, <1>5, <1>6, CapsAssumption DEF Fits

\* A reservation on another mandate leaves room as well.
LEMMA FitsElsewhere ==
    ASSUME TypeOK, NEW t \in Threads, ReserveStep(t),
           NEW m \in MandateIds, thr[t].dec.mandate # m, NEW a \in Nat, Fits(m, a)
    PROVE  Fits(m, a)'
<1>1. PICK row \in Reservation : reservations' = reservations \cup {row} /\ row.mandate # m
  BY ReservesOne
<1>2. refunds' = refunds /\ today' = today
  BY DEF ReserveStep, Reserve
<1>3. /\ RowsOn(m)' = RowsOn(m) /\ RowsOnDay(m, today)' = RowsOnDay(m, today)
      /\ RefundsOn(m)' = RefundsOn(m)
  BY <1>1, <1>2 DEF RowsOn, RowsOnDay, RefundsOn
<1>. QED
  BY <1>3 DEF Fits, Sum, Paise

\* The next day starts with no money on it.
LEMMA FitsStays ==
    ASSUME TypeOK, Books, [Next]_vars, UNCHANGED <<reservations, refunds>>,
           NEW m \in MandateIds, NEW a \in Nat, Fits(m, a)
    PROVE  Fits(m, a)'
<1>. DEFINE d == today'
<1>1. /\ today <= d /\ today \in Nat /\ d \in Nat
  BY DaysPass, DaysAssumption DEF Days
<1>2. /\ Sum(RowsOn(m))' = Sum(RowsOn(m)) /\ Sum(RefundsOn(m))' = Sum(RefundsOn(m))
      /\ RowsOn(m)' = RowsOn(m)
  BY SameBooks
<1>3. Terms[m].daily \in Nat /\ Sum(RowsOnDay(m, today)) \in Nat
  BY SumsAreNat, CapsAssumption
<1>4. RowsOnDay(m, today)' = {r \in RowsOn(m) : r.day = d}
  BY <1>2 DEF RowsOnDay
<1>5. Sum({r \in RowsOn(m) : r.day = d}) + a <= Terms[m].daily
  <2>1. CASE d = today
    BY <2>1 DEF Fits, RowsOnDay
  <2>2. CASE d # today
    <3>1. \A r \in RowsOn(m) : r.day <= today /\ r.day \in Nat
      BY DaysAssumption DEF Books, RowsOn, TypeOK, DataOK, Reservation, Days
    <3>2. {r \in RowsOn(m) : r.day = d} = {}
      BY <1>1, <2>2, <3>1
    <3>3. Sum({r \in RowsOn(m) : r.day = d}) = 0
      BY <3>2, SumEmpty
    <3>. HIDE DEF d
    <3>. QED
      BY <1>3, <3>3 DEF Fits
  <2>. QED
    BY <2>1, <2>2
<1>6. Sum(RowsOnDay(m, today))' + a <= Terms[m].daily
  BY <1>4, <1>5 DEF Sum, Paise
<1>. QED
  BY <1>2, <1>6 DEF Fits

\* No two handlers are between a decision to reserve and the reservation on one
\* mandate; any number of handlers is anywhere else.
OneReserver ==
    \A t, u \in Threads :
        /\ thr[t].at = "reserve" /\ thr[u].at = "reserve"
        /\ thr[t].dec.mandate = thr[u].dec.mandate
        => t = u

LEMMA CapsNext ==
    ASSUME OneReserver, TypeOK, CapInv, [Next]_vars
    PROVE  CapInv'
<1>. USE CapsAssumption
<1>0. Books
  BY DEF CapInv
<1>1. Books'
  BY BooksNext DEF CapInv
<1>2. ASSUME NEW m \in MandateIds PROVE Within(m)'
  <2>1. Within(m) /\ Books
    BY CapsAreWithin DEF CapInv
  <2>2. CASE UNCHANGED <<reservations, refunds>>
    BY <2>1, <2>2, SameBooks
  <2>3. ASSUME NEW t \in Threads, ReserveStep(t) PROVE Within(m)'
    <3>1. Fits(thr[t].dec.mandate, thr[t].dec.total)
      BY <2>3 DEF CapInv, ReserveStep, At
    <3>. QED
      BY <2>1, <2>3, <3>1, WithinReserves
  <2>4. ASSUME NEW t \in Threads, CommitStep(t) \/ ReleaseStep(t) \/ RecordRefundStep(t)
        PROVE  Within(m)'
    BY <1>1, <2>1, <2>4, WithinSettles
  <2>. QED
    BY <2>2, <2>3, <2>4, MoneyKinds DEF MovesMoney
<1>3. CapsHold'
  BY <1>2 DEF CapsHold, Within, RowsOnDay, RefundsOn
<1>4. ASSUME NEW t \in Threads, thr'[t].at = "reserve"
      PROVE  Fits(thr[t].dec.mandate, thr[t].dec.total)'
  <2>1. CASE OldDecision(t)
    <3>1. thr[t].at = "reserve" /\ thr'[t].dec = thr[t].dec /\ Fits(thr[t].dec.mandate, thr[t].dec.total)
      BY <1>4, <2>1 DEF OldDecision, CapInv
    <3>4. thr[t].dec.total \in Nat
      BY <3>1, Working DEF FrameOK, DecidedPlaces, Decision
    <3>5. PICK m \in MandateIds, a \in Nat :
            m = thr[t].dec.mandate /\ a = thr[t].dec.total /\ Fits(m, a)
      BY <3>1, <3>4, Working DEF FrameOK, MoneyPlaces
    <3>6. thr'[t].dec.mandate = m /\ thr'[t].dec.total = a
      BY <3>1, <3>5
    <3>7. Fits(m, a)'
      <4>1. CASE UNCHANGED <<reservations, refunds>>
        BY <1>0, <4>1, <3>5, FitsStays
      <4>2. ASSUME NEW u \in Threads, ReserveStep(u) PROVE Fits(m, a)'
        <5>1. u # t
          <6>. SUFFICES ASSUME u = t PROVE FALSE
            OBVIOUS
          <6>1. GoTo(t, "firstLink")
            BY <4>2 DEF ReserveStep
          <6>2. thr'[t].at = "firstLink"
            BY <6>1, Goes
          <6>. QED
            BY <1>4, <6>2
        <5>2. thr[u].at = "reserve"
          BY <4>2 DEF ReserveStep, At
        <5>3. thr[u].dec.mandate # m
          BY <3>1, <3>5, <5>1, <5>2 DEF OneReserver
        <5>. QED
          BY <3>5, <4>2, <5>3, FitsElsewhere
      <4>3. ASSUME NEW u \in Threads, CommitStep(u) \/ ReleaseStep(u) \/ RecordRefundStep(u)
            PROVE  Fits(m, a)'
        BY <1>0, <1>1, <3>5, <4>3, FitsSettles
      <4>. QED
        BY <4>1, <4>2, <4>3, MoneyKinds DEF MovesMoney
    <3>. QED
      BY <3>6, <3>7 DEF Fits, RowsOn, RowsOnDay, RefundsOn
  <2>2. CASE NewDecision(t)
    <3>. DEFINE d == thr'[t].dec
                s == thr'[t].s
    <3>1. OnlyThread /\ Decided(s, d, None) /\ d.verdict = "ALLOW"
      BY <1>4, <2>2 DEF NewDecision
    <3>2. sessions[s] \in Row /\ sessions[s].items \in Items
      BY <3>1 DEF Decided, Row
    <3>3. PICK seen \in Shops : \E status, mode :
            d = Decide(s, sessions[s].items, status, mode, None, seen)
      BY <3>1 DEF Decided
    <3>. HIDE DEF d, s
    <3>4. Fits(d.mandate, d.total)
      BY <1>0, <3>1, <3>2, <3>3, AllowedFits
    <3>5. UNCHANGED <<reservations, refunds>>
      BY <3>1 DEF OnlyThread, mandateVars
    <3>6. d.mandate \in MandateIds /\ d.total \in Nat
      BY <3>1, <3>2, <3>3, DecideType DEF Decision
    <3>7. PICK m \in MandateIds, a \in Nat : m = d.mandate /\ a = d.total /\ Fits(m, a)
      BY <3>4, <3>6
    <3>8. thr'[t].dec.mandate = m /\ thr'[t].dec.total = a
      BY <3>7 DEF d
    <3>9. Fits(m, a)'
      BY <1>0, <3>5, <3>7, FitsStays
    <3>. QED
      BY <3>8, <3>9 DEF Fits, RowsOn, RowsOnDay, RefundsOn
  <2>. QED
    BY <1>4, <2>1, <2>2, DecisionSteps DEF MoneyPlaces
<1>. QED
  BY <1>1, <1>3, <1>4 DEF CapInv

LEMMA CapsInit == Init => CapInv
<1>. SUFFICES ASSUME Init PROVE CapInv
  OBVIOUS
<1>1. reservations = {} /\ refunds = {}
  BY DEF Init, MandatesInit
<1>2. Books
  BY <1>1, SumEmpty DEF Books
<1>3. ASSUME NEW m \in MandateIds PROVE Within(m)
  <2>1. RowsOn(m) = {} /\ RefundsOn(m) = {} /\ \A d : RowsOnDay(m, d) = {}
    BY <1>1 DEF RowsOn, RefundsOn, RowsOnDay
  <2>. QED
    BY <2>1, SumEmpty, CapsAssumption DEF Within
<1>4. \A t \in Threads : thr[t].at # "reserve"
  BY DEF Init, Idle, Begun
<1>. QED
  BY <1>2, <1>3, <1>4, CapsAreWithin DEF CapInv

LEMMA CapsAlways == Spec /\ []OneReserver => []CapInv
<1>1. Init => CapInv
  BY CapsInit
<1>2. OneReserver /\ TypeOK /\ CapInv /\ [Next]_vars => CapInv'
  BY CapsNext
<1>. QED
  BY <1>1, <1>2, TypeCorrect, PTL DEF Spec

\* No mandate is overspent: what is reserved and committed on it stays within
\* its cap for one order, for one day and in all, however handlers overlap and
\* wherever the process is killed, as long as no two of them are between
\* complete's decision and reserve (sessions.py:385, 399) for one mandate.  The
\* gate decides on what mandates.py counts as spent, reserve inserts what the
\* gate allowed, commit keeps the amount, a release and a refund only take away.
THEOREM CapsAreKept == Spec /\ []OneReserver => []CapsHold
<1>1. CapInv => CapsHold
  BY DEF CapInv
<1>. QED
  BY <1>1, CapsAlways, PTL

-----------------------------------------------------------------------------
(* The merchant's approval.                                                *)

\* The merchant changes prices and stock, and leaves the threshold alone.
OneThreshold == \A p, q \in Shops : p.policy.reviewAbove = q.policy.reviewAbove

\* The merchant changes the policy and no price.
SteadyPrices == \A p, q \in Shops : p.catalog = q.catalog

\* The merchant approved the cart of s, or need not.  While prices stand still
\* the approved total is the one to be asked for.
IsApproved(s, total) ==
    shop.policy.reviewAbove > 0 /\ total > shop.policy.reviewAbove =>
        /\ CartApproved(s)
        /\ SteadyPrices => reviews[s].total = total

ApprovalInv ==
    \A t \in Threads :
        thr[t].at \in MoneyPlaces => IsApproved(thr[t].s, thr[t].dec.total)

\* The steps that write a row of the sessions.
LEMMA RowWriters ==
    ASSUME [Next]_vars
    PROVE  UNCHANGED sessions \/ \E t \in Threads :
             WritesRow(t) \/ \E x \in SessionIds, items \in Carts : Create(t, x, items)
<1>1. ASSUME NEW t \in Threads, Begin(t)
      PROVE  UNCHANGED sessions \/ \E x \in SessionIds, items \in Carts : Create(t, x, items)
  BY <1>1, BeginKinds DEF OnlyThread, rowVars
<1>2. ASSUME NEW t \in Threads, Continue(t) PROVE UNCHANGED sessions \/ WritesRow(t)
  BY <1>2, ContinueKinds DEF OnlyThread, OnlyLinks, OnlyMandates, MovesMoney, RecordReview, RecordPayment,
     ReserveStep, CommitStep, ReleaseStep, RecordRefundStep, rowVars
<1>. QED
  BY <1>1, <1>2, NextKinds

\* While a thread is about to move money for a session, nobody else edits it.
LEMMA PaidItemsStay ==
    ASSUME Apart, TypeOK, [Next]_vars, NEW t \in Threads, thr[t].at \in MoneyPlaces
    PROVE  sessions'[thr[t].s].items = sessions[thr[t].s].items
<1>. PICK s \in SessionIds : s = thr[t].s /\ Exists(s) /\ sessions[s] # None
  BY Working DEF MoneyPlaces, FrameOK, Exists
<1>1. ASSUME NEW u \in Threads, NEW x \in SessionIds, NEW items \in Carts, Create(u, x, items)
      PROVE  sessions'[s] = sessions[s]
  BY <1>1 DEF Create, TypeOK, DataOK
<1>2. ASSUME NEW u \in Threads, WritesRow(u) PROVE sessions'[s] = sessions[s]
  <2>1. thr[u].at \notin MoneyPlaces /\ thr[u].at # "idle"
    BY <1>2 DEF WritesRow, Store, Refuse, SetPending, SetRetried, SetCompleted, SetCanceled, At,
       MoneyPlaces
  <2>2. thr[u].s # s
    BY <2>1 DEF Apart, MoneyPlaces
  <2>3. \E row : SetRow(thr[u].s, row)
    BY <1>2 DEF WritesRow, Store, Refuse, SetPending, SetRetried, SetCompleted, SetCanceled
  <2>. QED
    BY <2>2, <2>3 DEF SetRow, TypeOK, DataOK
<1>3. UNCHANGED sessions \/ \E u \in Threads :
        WritesRow(u) \/ \E x \in SessionIds, items \in Carts : Create(u, x, items)
  BY RowWriters
<1>. QED
  BY <1>1, <1>2, <1>3

LEMMA ApprovalNext ==
    ASSUME Apart, OneThreshold, TypeOK, ApprovalInv, [Next]_vars
    PROVE  ApprovalInv'
<1>. SUFFICES ASSUME NEW t \in Threads, (thr[t].at \in MoneyPlaces)'
              PROVE  IsApproved(thr[t].s, thr[t].dec.total)'
  BY DEF ApprovalInv
<1>1. CASE OldDecision(t)
  <2>1. thr[t].at \in MoneyPlaces /\ IsApproved(thr[t].s, thr[t].dec.total)
    BY <1>1 DEF OldDecision, ApprovalInv
  <2>2. reviews'[thr[t].s] = reviews[thr[t].s]
    <3>1. ASSUME NEW u \in Threads, RecordReview(u) PROVE reviews'[thr[t].s] = reviews[thr[t].s]
      <4>1. thr[u].s # thr[t].s
        BY <2>1, <3>1, Working DEF Apart, RecordReview, At, MoneyPlaces
      <4>. QED
        BY <3>1, <4>1 DEF RecordReview
    <3>2. ASSUME NEW u \in Threads, Begin(u) PROVE UNCHANGED reviews
      BY <3>2, BeginKinds DEF OnlyThread, Create, rowVars, shopVars
    <3>3. ASSUME NEW u \in Threads, Continue(u) PROVE RecordReview(u) \/ UNCHANGED reviews
      BY <3>3, ContinueKinds DEF OnlyThread, OnlyLinks, OnlyMandates, OnlySessions, RecordPayment,
         rowVars, shopVars
    <3>4. CASE Merchant \/ Clock \/ Customer \/ Crash \/ UNCHANGED vars
      BY <3>4 DEF Merchant, Clock, Customer, Crash, OnlyWorld, vars
    <3>. QED
      BY <3>1, <3>2, <3>3, <3>4 DEF Next
  <2>3. shop'.policy.reviewAbove = shop.policy.reviewAbove
    <3>1. shop \in Shops /\ shop' \in Shops
      BY TypeNext DEF TypeOK, DataOK
    <3>. QED
      BY <3>1 DEF OneThreshold
  <2>4. thr'[t].s = thr[t].s /\ thr'[t].dec = thr[t].dec
    BY <1>1 DEF OldDecision
  <2>5. sessions'[thr[t].s].items = sessions[thr[t].s].items
    BY <2>1, PaidItemsStay
  <2>. QED
    BY <2>1, <2>2, <2>3, <2>4, <2>5 DEF IsApproved, CartApproved
<1>2. CASE NewDecision(t)
  <2>. DEFINE d == thr'[t].dec
              s == thr'[t].s
              x == IF thr'[t].at = "reserve" THEN None ELSE s
  <2>1. OnlyThread /\ Decided(s, d, x) /\ d.verdict = "ALLOW"
    BY <1>2 DEF NewDecision
  <2>. HIDE DEF x
  <2>2. s \in SessionIds /\ sessions[s] \in Row /\ sessions[s].items \in Items
    BY <2>1 DEF Decided, Row
  <2>. HIDE DEF d, s
  <2>3. /\ d.total = CartTotal(shop.catalog, sessions[s].items)
        /\ shop.policy.reviewAbove > 0 /\ d.total > shop.policy.reviewAbove
             => \E seen \in Shops : Approved(s, sessions[s].items, seen)
    BY <2>1, DecidedAllows
  <2>4. shop \in Shops /\ reviews[s] \in [approved : BOOLEAN, total : Nat] \cup {None}
    BY <2>2 DEF TypeOK, DataOK
  <2>5. ASSUME NEW seen \in Shops, Approved(s, sessions[s].items, seen)
        PROVE  CartApproved(s) /\ (SteadyPrices => reviews[s].total = d.total)
    BY <2>3, <2>4, <2>5 DEF Approved, CartApproved, SteadyPrices
  <2>6. IsApproved(s, d.total)
    BY <2>3, <2>5 DEF IsApproved
  <2>7. UNCHANGED <<reviews, shop, sessions>>
    BY <2>1 DEF OnlyThread, rowVars, shopVars
  <2>. QED
    BY <2>6, <2>7 DEF IsApproved, CartApproved, s, d
<1>. QED
  BY <1>1, <1>2, DecisionSteps DEF MoneyPlaces

LEMMA ApprovalInit == Init => ApprovalInv
  BY DEF Init, Idle, Begun, ApprovalInv, MoneyPlaces

LEMMA ApprovalAlways ==
    ASSUME OneThreshold
    PROVE  Spec /\ []Apart => []ApprovalInv
<1>1. Init => ApprovalInv
  BY ApprovalInit
<1>2. Apart /\ TypeOK /\ ApprovalInv /\ [Next]_vars => ApprovalInv'
  BY ApprovalNext
<1>. QED
  BY <1>1, <1>2, TypeCorrect, PTL DEF Spec

LEMMA LinkIsApproved ==
    ASSUME TypeOK, ApprovalInv, [Next]_vars, Len(links') > Len(links)
    PROVE  IsApproved(links'[Len(links')].session, links'[Len(links')].amount)
<1>1. PICK t \in Threads :
           /\ thr[t].at \in {"firstLink", "secondLink"}
           /\ links'[Len(links')].session = thr[t].s
           /\ links'[Len(links')].amount = thr[t].dec.total
  BY NewLinkMade
<1>2. IsApproved(thr[t].s, thr[t].dec.total)
  BY <1>1 DEF ApprovalInv, MoneyPlaces
<1>. QED
  BY <1>1, <1>2

\* An order above the merchant's threshold gets a link only when the last review
\* approved its very cart, at a price the shop has had, on the first attempt and
\* on the retry, although prices may change between any two reads of the
\* catalog, those of one decision included: while no two handlers work on one
\* session no review of it is recorded, and no edit, between its decision and
\* the link.
THEOREM ApprovedBeforeLink ==
    ASSUME OneThreshold
    PROVE  Spec /\ []Apart => LinkNeedsApproval
<1>. DEFINE Needed ==
              LET l == links'[Len(links')]
              IN  l.amount > shop.policy.reviewAbove /\ shop.policy.reviewAbove > 0 =>
                      CartApproved(l.session)
<1>1. ASSUME TypeOK, ApprovalInv, [Next]_vars, Len(links') > Len(links) PROVE Needed
  BY <1>1, LinkIsApproved DEF IsApproved
<1>. HIDE DEF Needed
<1>2. TypeOK /\ ApprovalInv /\ [Next]_vars => [Len(links') > Len(links) => Needed]_vars
  BY <1>1
<1>. QED
  BY <1>2, ApprovalAlways, TypeCorrect, PTL DEF Spec, LinkNeedsApproval, Needed

\* While prices stand still as well, such a link asks for the exact total the
\* merchant approved last.  Without that it need not: _decide reads the catalog
\* for the match with the approval (sessions.py:147, 170) and again for the gate
\* (171), and the price may change in between.
THEOREM ApprovedExactly ==
    ASSUME OneThreshold, SteadyPrices
    PROVE  Spec /\ []Apart =>
             [][Len(links') > Len(links) =>
                  LET l == links'[Len(links')]
                  IN  l.amount > shop.policy.reviewAbove /\ shop.policy.reviewAbove > 0 =>
                          reviews[l.session].approved /\ reviews[l.session].total = l.amount]_vars
<1>. DEFINE Exact ==
              LET l == links'[Len(links')]
              IN  l.amount > shop.policy.reviewAbove /\ shop.policy.reviewAbove > 0 =>
                      reviews[l.session].approved /\ reviews[l.session].total = l.amount
<1>1. ASSUME TypeOK, ApprovalInv, [Next]_vars, Len(links') > Len(links) PROVE Exact
  BY <1>1, LinkIsApproved DEF IsApproved, CartApproved
<1>. HIDE DEF Exact
<1>2. TypeOK /\ ApprovalInv /\ [Next]_vars => [Len(links') > Len(links) => Exact]_vars
  BY <1>1
<1>. QED
  BY <1>2, ApprovalAlways, TypeCorrect, PTL DEF Spec, Exact
-----------------------------------------------------------------------------
(* Amounts.                                                                *)

Price(s) == CartTotal(shop.catalog, sessions[s].items)

\* What is reserved, spent and asked for in session s is the price of its cart.
AtPrice(s) ==
    /\ \A r \in RowsOf(s) : r.amount = Price(s)
    /\ \A l \in LinksOf(s) : links[l].amount = Price(s)

AmountInv ==
    /\ \A s \in SessionIds : AtPrice(s)
    /\ \A t \in Threads : thr[t].at \in MoneyPlaces => thr[t].dec.total = Price(thr[t].s)

\* Only create and update write the items of a session, and they do so before
\* anything is reserved or asked for.
LEMMA ItemsStay ==
    ASSUME Apart, TypeOK, SoloInv, [Next]_vars, NEW s \in SessionIds
    PROVE  \/ sessions'[s].items = sessions[s].items
           \/ /\ RowsOf(s) = {} /\ LinksOf(s) = {} /\ RowsOf(s)' = {} /\ LinksOf(s)' = {}
              /\ AtRest(s)'
<1>. DEFINE Bare == RowsOf(s) = {} /\ LinksOf(s) = {}
<1>1. Untouched(s) => Bare
  BY DEF Untouched, Clean, Holding, Spent, OpenRows, CommittedRows, RowsOf, TypeOK, DataOK, Reservation
<1>2. UNCHANGED <<reservations, links>> /\ Bare => Bare'
  BY DEF RowsOf, LinksOf, LinkIds
<1>. HIDE DEF Bare
<1>3. ASSUME NEW t \in Threads, NEW x \in SessionIds, NEW items \in Carts, Create(t, x, items),
             sessions'[s].items # sessions[s].items
      PROVE  Bare /\ Bare' /\ AtRest(s)'
  <2>1. x = s /\ UNCHANGED <<reservations, links>>
    BY <1>3 DEF Create, TypeOK, DataOK, mandateVars
  <2>2. AtRest(s) /\ Status(s) = None
    BY <1>3, <2>1, Unknown DEF Create, Status
  <2>3. Untouched(s)
    BY <2>2, RowAssumption DEF SoloInv, Rests, Untouched, Paying, Over, Finished, Statuses, TERMINAL
  <2>4. AtRest(s)'
    BY <1>3, <2>2 DEF Create, AtRest
  <2>. QED
    BY <1>1, <1>2, <2>1, <2>3, <2>4
<1>4. ASSUME NEW t \in Threads, WritesRow(t), sessions'[s].items # sessions[s].items
      PROVE  Bare /\ Bare' /\ AtRest(s)'
  <2>1. UNCHANGED <<reservations, links>>
    BY <1>4 DEF WritesRow, Store, Refuse, SetPending, SetRetried, SetCompleted, SetCanceled,
       OnlySessions, mandateVars
  <2>2. thr[t].s = s /\ thr[t].at = "store"
    <3>1. thr[t].s \in SessionIds /\ sessions[thr[t].s] \in Row
      BY <1>4, WrittenRow
    <3>2. \E row : SetRow(thr[t].s, row)
      BY <1>4 DEF WritesRow, Store, Refuse, SetPending, SetRetried, SetCompleted, SetCanceled
    <3>3. thr[t].s = s
      BY <1>4, <3>2 DEF SetRow, TypeOK, DataOK
    <3>4. ASSUME NEW row, SetRow(s, row), row.items = sessions[s].items PROVE FALSE
      BY <1>4, <3>4 DEF SetRow, TypeOK, DataOK
    <3>5. ~Refuse(t) /\ ~SetPending(t) /\ ~SetRetried(t) /\ ~SetCompleted(t) /\ ~SetCanceled(t)
      BY <3>1, <3>3, <3>4 DEF Refuse, SetPending, SetRetried, SetCompleted, SetCanceled, Row
    <3>. QED
      BY <1>4, <3>3, <3>5 DEF WritesRow, Store, At
  <2>3. Untouched(s)
    BY <2>2, AtWork DEF Busy, EditPlaces
  <2>4. AtRest(s)'
    <3>1. Done(t) /\ Continue(t)
      BY <1>4 DEF WritesRow, Store, Refuse, SetPending, SetRetried, SetCompleted, SetCanceled, Continue
    <3>2. thr'[t].s # s
      BY <3>1, Stops, IdsAssumption
    <3>3. ASSUME NEW u \in Threads, u # t PROVE thr'[u].s # s
      BY <2>2, <3>1, <3>3, OthersWait DEF Apart
    <3>. QED
      BY <3>2, <3>3 DEF AtRest
  <2>. QED
    BY <1>1, <1>2, <2>1, <2>3, <2>4
<1>5. UNCHANGED sessions \/ \E t \in Threads :
        WritesRow(t) \/ \E x \in SessionIds, items \in Carts : Create(t, x, items)
  BY RowWriters
<1>6. \/ sessions'[s].items = sessions[s].items
      \/ Bare /\ Bare' /\ AtRest(s)'
  BY <1>3, <1>4, <1>5
<1>. QED
  BY <1>6 DEF Bare
LEMMA PriceStays ==
    ASSUME SteadyPrices, TypeOK, [Next]_vars, NEW s, sessions'[s].items = sessions[s].items
    PROVE  Price(s)' = Price(s)
<1>1. shop \in Shops /\ shop' \in Shops
  <2>1. TypeOK'
    BY TypeNext
  <2>. QED
    BY <2>1 DEF TypeOK, DataOK
<1>2. shop'.catalog = shop.catalog
  BY <1>1 DEF SteadyPrices
<1>. QED
  BY <1>2 DEF Price

\* The rows of a session after a step: the old ones, some of them committed or
\* released, and a new one for the amount the gate allowed.
LEMMA RowsKeepAmounts ==
    ASSUME TypeOK, [Next]_vars, NEW s \in SessionIds, NEW r \in RowsOf(s)'
    PROVE  \/ \E q \in RowsOf(s) : q.amount = r.amount
           \/ \E t \in Threads : thr[t].at = "reserve" /\ thr[t].s = s /\ r.amount = thr[t].dec.total
<1>1. CASE UNCHANGED <<reservations, refunds>>
  BY <1>1 DEF RowsOf
<1>2. ASSUME NEW t \in Threads, ReserveStep(t)
      PROVE  \/ \E q \in RowsOf(s) : q.amount = r.amount
             \/ thr[t].at = "reserve" /\ thr[t].s = s /\ r.amount = thr[t].dec.total
  <2>1. thr[t].at = "reserve" /\ Reserve(thr[t].s, thr[t].dec.mandate, thr[t].dec.total)
    BY <1>2 DEF ReserveStep, At
  <2>2. PICK i : reservations' = reservations \cup
          {[id |-> i, session |-> thr[t].s, mandate |-> thr[t].dec.mandate,
            amount |-> thr[t].dec.total, day |-> today, state |-> "reserved"]}
    BY <2>1 DEF Reserve
  <2>. QED
    BY <2>1, <2>2 DEF RowsOf
<1>3. ASSUME NEW t \in Threads, CommitStep(t) PROVE \E q \in RowsOf(s) : q.amount = r.amount
  <2>1. reservations' = (reservations \ OpenRows(thr[t].s)) \cup
           {[q EXCEPT !.state = "committed"] : q \in OpenRows(thr[t].s)}
    BY <1>3 DEF CommitStep, Commit
  <2>2. CASE r \in reservations
    BY <2>2 DEF RowsOf
  <2>3. CASE r \notin reservations
    <3>1. PICK q \in OpenRows(thr[t].s) : r = [q EXCEPT !.state = "committed"]
      BY <2>1, <2>3 DEF RowsOf
    <3>2. q \in Reservation /\ q \in reservations
      BY DEF OpenRows, TypeOK, DataOK
    <3>3. r.session = q.session /\ r.amount = q.amount
      BY <3>1, <3>2 DEF Reservation
    <3>. QED
      BY <3>2, <3>3 DEF RowsOf
  <2>. QED
    BY <2>2, <2>3
<1>4. ASSUME NEW t \in Threads, ReleaseStep(t) \/ RecordRefundStep(t)
      PROVE  \E q \in RowsOf(s) : q.amount = r.amount
  BY <1>4 DEF ReleaseStep, Release, RecordRefundStep, RecordRefund, RowsOf
<1>. QED
  BY <1>1, <1>2, <1>3, <1>4, MoneyKinds DEF MovesMoney

\* The links of a session after a step: the old ones, and a new one for the
\* amount the gate allowed.
LEMMA LinksKeepAmounts ==
    ASSUME TypeOK, [Next]_vars, NEW s \in SessionIds, NEW l \in LinksOf(s)'
    PROVE  \/ l \in LinksOf(s) /\ links'[l].amount = links[l].amount
           \/ \E t \in Threads : /\ thr[t].at \in {"firstLink", "secondLink"} /\ thr[t].s = s
                                 /\ links'[l].amount = thr[t].dec.total
<1>0. links \in Seq(Link)
  BY DEF TypeOK, DataOK
<1>1. CASE UNCHANGED links
  BY <1>1 DEF LinksOf, LinkIds
<1>2. ASSUME NEW t \in Threads, FirstLink(t) \/ SecondLink(t)
      PROVE  \/ l \in LinksOf(s) /\ links'[l].amount = links[l].amount
             \/ /\ thr[t].at \in {"firstLink", "secondLink"} /\ thr[t].s = s
                /\ links'[l].amount = thr[t].dec.total
  <2>1. thr[t].at \in {"firstLink", "secondLink"} /\ CreateLink(thr[t].s, thr[t].dec.total)
    BY <1>2 DEF FirstLink, SecondLink, At
  <2>2. PICK e : links' = Append(links, e) /\ e.session = thr[t].s /\ e.amount = thr[t].dec.total
    BY <2>1 DEF CreateLink
  <2>3. /\ DOMAIN links' = 1..(Len(links) + 1) /\ DOMAIN links = 1..Len(links) /\ Len(links) \in Nat
        /\ \A k \in 1..Len(links) : links'[k] = links[k]
        /\ links'[Len(links) + 1] = e
    BY <1>0, <2>2
  <2>4. l \in DOMAIN links' /\ links'[l].session = s
    BY DEF LinksOf, LinkIds
  <2>5. CASE l \in 1..Len(links)
    BY <2>3, <2>4, <2>5 DEF LinksOf, LinkIds
  <2>6. CASE l = Len(links) + 1
    BY <2>1, <2>2, <2>3, <2>4, <2>6
  <2>. QED
    BY <2>3, <2>4, <2>5, <2>6
<1>3. ASSUME NEW k, NEW e, links' = [links EXCEPT ![k] = e],
             k \in LinkIds => e.session = links[k].session /\ e.amount = links[k].amount
      PROVE  l \in LinksOf(s) /\ links'[l].amount = links[l].amount
  BY <1>3 DEF LinksOf, LinkIds
<1>4. ASSUME NEW k, \/ CancelLink(k) \/ CustomerFails(k) \/ CustomerPays(k)
                    \/ LinkFallsDue(k) \/ LinkExpires(k)
                    \/ \E a : RefundPayment(k, a) \/ RefundUnheard(k, a)
      PROVE  l \in LinksOf(s) /\ links'[l].amount = links[l].amount
  <2>1. PICK e : /\ links' = [links EXCEPT ![k] = e]
                 /\ k \in LinkIds => e.session = links[k].session /\ e.amount = links[k].amount
    BY <1>4, LinkElement DEF CancelLink, CustomerFails, CustomerPays, LinkFallsDue, LinkExpires,
       RefundPayment, RefundUnheard, Link
  <2>. QED
    BY <1>3, <2>1
<1>. QED
  BY <1>1, <1>2, <1>4, LinkSteps DEF RefundStep
LEMMA AmountNext ==
    ASSUME Apart, SteadyPrices, TypeOK, SoloInv, AmountInv, [Next]_vars
    PROVE  AmountInv'
<1>1. ASSUME NEW s \in SessionIds PROVE AtPrice(s)'
  <2>1. CASE RowsOf(s)' = {} /\ LinksOf(s)' = {}
    BY <2>1 DEF AtPrice
  <2>2. CASE sessions'[s].items = sessions[s].items
    <3>1. PICK c : c = Price(s)
      OBVIOUS
    <3>2. Price(s)' = c
      BY <2>2, <3>1, PriceStays
    <3>3. \A t \in Threads : thr[t].at \in MoneyPlaces /\ thr[t].s = s => thr[t].dec.total = c
      BY <3>1 DEF AmountInv
    <3>4. (\A r \in RowsOf(s) : r.amount = c) /\ (\A l \in LinksOf(s) : links[l].amount = c)
      BY <3>1 DEF AmountInv, AtPrice
    <3>5. ASSUME NEW r \in RowsOf(s)' PROVE r.amount = c
      BY <3>3, <3>4, <3>5, RowsKeepAmounts DEF MoneyPlaces
    <3>6. ASSUME NEW l \in LinksOf(s)' PROVE links'[l].amount = c
      BY <3>3, <3>4, <3>6, LinksKeepAmounts DEF MoneyPlaces
    <3>. QED
      BY <3>2, <3>5, <3>6 DEF AtPrice
  <2>. QED
    BY <2>1, <2>2, ItemsStay
<1>2. ASSUME NEW t \in Threads, thr'[t].at \in MoneyPlaces
      PROVE  (thr[t].dec.total = Price(thr[t].s))'
  <2>1. TypeOK'
    BY TypeNext
  <2>2. thr'[t].s \in SessionIds
    BY <1>2, <2>1 DEF TypeOK, FramesOK, FrameOK, MoneyPlaces
  <2>3. PICK s, d : s = thr'[t].s /\ d = thr'[t].dec /\ s \in SessionIds
    BY <2>2
  <2>4. sessions'[s].items = sessions[s].items
    BY <2>3, ItemsStay DEF AtRest
  <2>5. PICK c : c = Price(s)
    OBVIOUS
  <2>6. Price(s)' = c
    BY <2>4, <2>5, PriceStays
  <2>7. CASE OldDecision(t)
    <3>1. d.total = c
      BY <2>3, <2>5, <2>7 DEF OldDecision, AmountInv
    <3>. QED
      BY <2>3, <2>6, <3>1 DEF Price
  <2>8. CASE NewDecision(t)
    <3>1. \E x : Decided(s, d, x)
      BY <2>3, <2>8 DEF NewDecision
    <3>2. d.total = c
      BY <2>3, <2>5, <2>8, <3>1, DecidedAllows DEF NewDecision, Price
    <3>. QED
      BY <2>3, <2>6, <3>2 DEF Price
  <2>. QED
    BY <1>2, <2>7, <2>8, DecisionSteps
<1>. QED
  BY <1>1, <1>2 DEF AmountInv

LEMMA AmountInit == Init => AmountInv
<1>. SUFFICES ASSUME Init PROVE AmountInv
  OBVIOUS
<1>1. reservations = {} /\ LinkIds = {}
  BY DEF Init, MandatesInit, LinksInit, LinkIds
<1>2. \A t \in Threads : thr[t].at = "idle"
  BY DEF Init, Idle, Begun
<1>. QED
  BY <1>1, <1>2 DEF AmountInv, AtPrice, RowsOf, LinksOf, MoneyPlaces

LEMMA AmountAlways ==
    ASSUME NeverKilled, SteadyPrices
    PROVE  Spec /\ []Apart => []AmountInv
<1>1. Init => AmountInv
  BY AmountInit
<1>2. Apart /\ TypeOK /\ SoloInv /\ AmountInv /\ [Next]_vars => AmountInv'
  BY AmountNext
<1>. QED
  BY <1>1, <1>2, SoloAlways, TypeCorrect, PTL DEF Spec

\* While prices stand still, the link a customer may pay never asks for more
\* than its session has reserved, on the retry either: both follow the price of
\* a cart nobody can edit any more.
THEOREM LinksAreCovered ==
    ASSUME NeverKilled, SteadyPrices
    PROVE  Spec /\ []Apart => []PendingLinkIsCovered
<1>1. ASSUME TypeOK, SoloInv, AmountInv, OwnInv PROVE PendingLinkIsCovered
  <2>1. ASSUME NEW s \in SessionIds, AtRest(s), Status(s) = PENDING
        PROVE  \E r \in OpenRows(s) : links[sessions[s].link].amount <= r.amount
    <3>1. Rests(s) /\ Holding(s)
      BY <1>1, <2>1, RestsAs DEF SoloInv, Paying, Secured
    <3>2. PICK r \in OpenRows(s) : TRUE
      BY <3>1 DEF Holding
    <3>3. r \in RowsOf(s) /\ r.amount \in Nat
      BY <1>1 DEF OpenRows, RowsOf, TypeOK, DataOK, Reservation
    <3>4. sessions[s].link \in LinksOf(s)
      <4>1. Exists(s) /\ sessions[s].link \in LinkIds
        BY <1>1, <2>1, RowAssumption DEF TypeOK, DataOK, Status, Statuses
      <4>2. sessions[s].link # 0
        BY <1>1, <4>1 DEF LinkIds, TypeOK, DataOK
      <4>. QED
        BY <1>1, <4>1, <4>2 DEF OwnInv, OwnRows, Owns, LinksOf
    <3>5. links[sessions[s].link].amount = r.amount
      BY <1>1, <3>3, <3>4 DEF AmountInv, AtPrice
    <3>. QED
      BY <3>3, <3>5
  <2>. QED
    BY <2>1 DEF PendingLinkIsCovered
<1>2. TypeOK /\ SoloInv /\ AmountInv /\ OwnInv => PendingLinkIsCovered
  BY <1>1
<1>. QED
  BY <1>2, SoloAlways, AmountAlways, OwnAlways, TypeCorrect, PTL

\* While prices stand still, a capture the service has seen ends in a completed
\* order for which exactly the captured amount is committed.
THEOREM CapturesComplete ==
    ASSUME NeverKilled, SteadyPrices
    PROVE  Spec /\ []Apart => []RecordedCaptureCompletes
<1>1. ASSUME TypeOK, SoloInv, AmountInv, OwnInv PROVE RecordedCaptureCompletes
  <2>1. ASSUME NEW s \in SessionIds, AtRest(s), CapturesOf(s) # {}
        PROVE  /\ Status(s) = COMPLETED
               /\ \E c \in CapturesOf(s), r \in CommittedRows(s) :
                    r.amount = links[c.payment.link].amount
    <3>1. Status(s) = COMPLETED /\ Spent(s)
      BY <1>1, <2>1 DEF SoloInv, Rests, Untouched, Paying, Over, Finished, Clean, Secured, Paid, Seen
    <3>2. PICK c \in CapturesOf(s), r \in CommittedRows(s) : TRUE
      BY <2>1, <3>1 DEF Spent
    <3>3. c.payment.link \in LinksOf(s)
      BY <1>1 DEF OwnInv, OwnPayments, Owns, LinksOf, CapturesOf
    <3>4. r.amount = links[c.payment.link].amount
      BY <1>1, <3>3 DEF AmountInv, AtPrice, CommittedRows
    <3>. QED
      BY <3>1, <3>4
  <2>. QED
    BY <2>1 DEF RecordedCaptureCompletes
<1>2. TypeOK /\ SoloInv /\ AmountInv /\ OwnInv => RecordedCaptureCompletes
  BY <1>1
<1>. QED
  BY <1>2, SoloAlways, AmountAlways, OwnAlways, TypeCorrect, PTL
-----------------------------------------------------------------------------
(* Refunds, one at a time for each session.                                *)
(*                                                                         *)
(* A refund is allowed against the balance on record.  That balance is the *)
(* true one because each payment back is entered before the next request   *)
(* is read; while one is still to be entered, only its amount is missing.  *)

Entering(f) == f.at = "recordRefund"
Outstanding(s) == \E t \in Threads : thr[t].s = s /\ Entering(thr[t])

Balanced(s) == Cardinality(PaidBack(s)) = Sum(RefundsOf(s))

HasCapture(s, l) == \E c \in CapturesOf(s) : c.payment.link = l

RefundFrame(f) ==
    /\ f.at \in {"refund", "recordRefund"} => CanRecordRefund(f.s, f.dec.reference)
    /\ f.at = "refund" =>
         /\ HasCapture(f.s, f.dec.link)
         /\ f.dec.amount + links[f.dec.link].refunded <= links[f.dec.link].amount
    /\ Entering(f) => Cardinality(PaidBack(f.s)) = Sum(RefundsOf(f.s)) + f.dec.amount

PaysBackCaptures ==
    \A l \in LinkIds : links[l].refunded > 0 => HasCapture(links[l].session, l)

RefundInv ==
    /\ RefundsWithinCapture
    /\ PaysBackCaptures
    /\ \A s \in SessionIds : Balanced(s) \/ Outstanding(s)
    /\ \A t \in Threads : RefundFrame(thr[t])

\* What one link paid back is part of what the session got back.
LEMMA LinkWithinPaidBack ==
    ASSUME TypeOK, NEW s, NEW l \in LinksOf(s), IsFiniteSet(PaidBack(s))
    PROVE  links[l].refunded <= Cardinality(PaidBack(s))
<1>. DEFINE n == links[l].refunded
            part == {l} \X (1..n)
<1>1. n \in Nat
  BY LinkElement DEF LinksOf, Link
<1>2. part \in SUBSET PaidBack(s)
  BY DEF PaidBack
<1>3. IsFiniteSet(part) /\ Cardinality(part) = n
  <2>1. 1 \in Nat /\ 1 <= n + 1 /\ n - 1 + 1 = n
    BY <1>1
  <2>. HIDE DEF n
  <2>. QED
    BY <1>1, <2>1, Strip
<1>. HIDE DEF part, n
<1>4. Cardinality(part) <= Cardinality(PaidBack(s))
  BY <1>2, FS_Subset
<1>. QED
  BY <1>3, <1>4 DEF n

\* If only one link paid back, that is all.
LEMMA OnlyLinkPaidBack ==
    ASSUME TypeOK, NEW s, NEW k \in LinksOf(s),
           \A l \in LinksOf(s) : l # k => links[l].refunded = 0
    PROVE  Cardinality(PaidBack(s)) = links[k].refunded
<1>. DEFINE n == links[k].refunded
            part == {k} \X (1..n)
<1>1. n \in Nat
  BY LinkElement DEF LinksOf, Link
<1>2. PaidBack(s) = part
  <2>1. part \subseteq PaidBack(s)
    BY DEF PaidBack
  <2>2. ASSUME NEW z \in PaidBack(s) PROVE z \in part
    <3>1. PICK l \in LinksOf(s) : z \in {l} \X (1..links[l].refunded)
      BY DEF PaidBack
    <3>2. CASE l = k
      BY <3>1, <3>2
    <3>3. CASE l # k
      <4>1. links[l].refunded = 0
        BY <3>3
      <4>2. z[2] \in 1..0
        BY <3>1, <4>1
      <4>. QED
        BY <4>2
    <3>. QED
      BY <3>2, <3>3
  <2>. QED
    BY <2>1, <2>2
<1>3. 1 \in Nat /\ 1 <= n + 1 /\ n - 1 + 1 = n
  BY <1>1
<1>. HIDE DEF n
<1>4. Cardinality(part) = n
  BY <1>1, <1>3, Strip
<1>. QED
  BY <1>2, <1>4 DEF n

\* A capture stays on record.
LEMMA CaptureStays ==
    ASSUME TypeOK, [Next]_vars, NEW s \in SessionIds, NEW l, HasCapture(s, l)
    PROVE  HasCapture(s, l)'
  BY PaymentsGrow DEF HasCapture, CapturesOf

\* A handler at a refund stays there until its own next step.
LEMMA RefundPlaceKept ==
    ASSUME NeverKilled, TypeOK, [Next]_vars, NEW t \in Threads, RefundFrame(thr[t]),
           thr[t].at = "recordRefund", ~RecordRefundStep(t)
    PROVE  thr'[t] = thr[t]
<1>1. CASE Begin(t)
  <2>1. \E op : CanStart(t, op)
    BY <1>1 DEF Begin, Create, UpdateLoad, ReviewLoad, CompleteLoad, ReconcileLoad, CancelLoad,
       RefundLoad
  <2>. QED
    BY <2>1 DEF CanStart, Idle, Begun
<1>2. CASE Continue(t)
  <2>1. RecordRefundRaises(t)
    BY <1>2 DEF Continue, Store, RecordReview, Reevaluate, Refuse, ReserveStep, ReserveRaises,
       FirstLink, FirstLinkFails, SetPending, PollStep, PollFails, RecordPayment, RecordRaises,
       FinishPaid, NothingNew, FailedAttempt, CommitStep, CommitRaises, SetCompleted,
       CancelQuietly, SecondLink, SecondLinkFails, SetRetried, ReadOpenRow, ReleaseStep,
       ReleaseRaises, SetCanceled, CancelLinkStep, CancelLinkLost, CancelLinkRefused, FinalPoll,
       RefundStep, RefundLost, RefundFails, At
  <2>. QED
    BY <2>1 DEF RecordRefundRaises, RefundFrame
<1>3. ASSUME NEW u \in Threads, Begin(u) \/ Continue(u), u # t PROVE thr'[t] = thr[t]
  BY <1>3, OthersWait
<1>4. ~Crash
  BY DEF Crash, NeverKilled, TypeOK, DataOK
<1>. QED
  BY <1>1, <1>2, <1>3, <1>4, NextKinds
\* The gate allows what is left of the capture, by the balance on record.
LEMMA RefundLoads ==
    ASSUME TypeOK, OwnInv, RepaidInv, RefundInv, NEW t \in Threads, Alone(t),
           NEW s \in SessionIds, NEW ref \in References, NEW a \in RefundAmounts,
           RefundLoad(t, s, ref, a)
    PROVE  RefundFrame(thr[t])'
<1>1. PICK cap \in CapturesOf(s) :
        /\ a <= links[cap.payment.link].amount - Sum(RefundsOf(s))
        /\ ref \notin {r.id[2] : r \in RefundsOf(s)}
        /\ Becomes(t, Begun("refund", s, "refund", sessions[s],
                       [reference |-> ref, amount |-> a, link |-> cap.payment.link]))
  BY DEF RefundLoad, RefundAllowed
<1>. DEFINE l == cap.payment.link
<1>2. thr'[t].at = "refund" /\ thr'[t].s = s
  BY <1>1, Begins
<1>3. thr'[t].dec.reference = ref /\ thr'[t].dec.amount = a /\ thr'[t].dec.link = l
  BY <1>1, Begins
<1>4. UNCHANGED <<links, refunds, payments>> /\ thr[t].at = "idle"
  BY DEF RefundLoad, OnlyThread, mandateVars, rowVars, CanStart, Idle, Begun
<1>5. \A r \in refunds : r.id # <<s, ref>>
  BY <1>1 DEF RefundsOf
<1>6. l \in LinksOf(s)
  BY DEF CapturesOf, OwnInv, OwnPayments, Owns, LinksOf
<1>7. HasCapture(s, l)
  BY DEF HasCapture
<1>8. Cardinality(PaidBack(s)) = Sum(RefundsOf(s)) /\ IsFiniteSet(PaidBack(s))
  <2>1. ~Outstanding(s)
    BY <1>2, <1>4 DEF Outstanding, Entering, Alone, Apart
  <2>. QED
    BY <2>1 DEF RefundInv, Balanced, RepaidInv, Repaid
<1>9. a + links[l].refunded <= links[l].amount
  <2>1. links[l].refunded <= Sum(RefundsOf(s))
    BY <1>6, <1>8, LinkWithinPaidBack
  <2>2. links[l].refunded \in Nat /\ links[l].amount \in Nat /\ a \in Nat
    BY <1>6, LinkElement, RefundAssumption DEF LinksOf, Link
  <2>3. Sum(RefundsOf(s)) \in Nat
    BY <1>8, FS_CardinalityType
  <2>. QED
    BY <1>1, <2>1, <2>2, <2>3
<1>. HIDE DEF l
<1>10. CanRecordRefund(thr[t].s, thr[t].dec.reference)'
  BY <1>2, <1>3, <1>4, <1>5 DEF CanRecordRefund
<1>11. HasCapture(thr[t].s, thr[t].dec.link)'
  BY <1>2, <1>3, <1>4, <1>7 DEF HasCapture, CapturesOf
<1>. QED
  BY <1>2, <1>3, <1>4, <1>9, <1>10, <1>11 DEF RefundFrame, Entering

\* Steps that neither pay back nor enter what was paid back.
LEMMA RefundsRest ==
    ASSUME Apart, Apart', NeverKilled, TypeOK, OwnInv, RepaidInv, RefundInv, [Next]_vars,
           \A t \in Threads : ~RefundStep(t) /\ ~RecordRefundStep(t)
    PROVE  RefundInv'
<1>1. SameRefunds /\ UNCHANGED refunds
  BY RefundsSame, RefundRowsSame
<1>2. \A s : /\ PaidBack(s)' = PaidBack(s) /\ Sum(RefundsOf(s))' = Sum(RefundsOf(s))
             /\ Cardinality(PaidBack(s))' = Cardinality(PaidBack(s))
  BY <1>1, PaidBackSame DEF Sum, Paise, RefundsOf
<1>3. RefundsWithinCapture'
  <2>1. ASSUME NEW l \in LinkIds' PROVE links'[l].refunded <= links'[l].amount
    <3>1. CASE l \in LinkIds
      BY <1>1, <3>1 DEF SameRefunds, RefundInv, RefundsWithinCapture
    <3>2. CASE l \notin LinkIds
      <4>1. links' \in Seq(Link) /\ l \in 1..Len(links')
        BY TypeNext DEF TypeOK, DataOK, LinkIds
      <4>2. links'[l] \in Link
        BY <4>1, ElementOfSeq
      <4>. QED
        BY <1>1, <3>2, <4>2 DEF SameRefunds, Link
    <3>. QED
      BY <3>1, <3>2
  <2>. QED
    BY <2>1 DEF RefundsWithinCapture
<1>4. PaysBackCaptures'
  <2>1. ASSUME NEW l \in LinkIds', links'[l].refunded > 0 PROVE HasCapture(links[l].session, l)'
    <3>1. l \in LinkIds /\ links'[l].refunded = links[l].refunded
                        /\ links'[l].session = links[l].session
      BY <1>1, <2>1 DEF SameRefunds
    <3>2. links[l].session \in SessionIds
      BY <3>1, LinkElement DEF Link
    <3>. PICK s \in SessionIds : s = links[l].session
      BY <3>2
    <3>3. HasCapture(s, l)
      BY <2>1, <3>1 DEF RefundInv, PaysBackCaptures
    <3>4. HasCapture(s, l)'
      BY <3>3, CaptureStays
    <3>. QED
      BY <3>1, <3>4
  <2>. QED
    BY <2>1 DEF PaysBackCaptures
<1>5. ASSUME NEW s \in SessionIds PROVE (Balanced(s) \/ Outstanding(s))'
  <2>1. CASE Balanced(s)
    BY <1>2, <2>1 DEF Balanced
  <2>2. CASE Outstanding(s)
    <3>1. PICK t \in Threads : thr[t].s = s /\ thr[t].at = "recordRefund"
      BY <2>2 DEF Outstanding, Entering
    <3>2. thr'[t] = thr[t]
      BY <3>1, RefundPlaceKept DEF RefundInv
    <3>. QED
      BY <3>1, <3>2 DEF Outstanding, Entering
  <2>. QED
    BY <2>1, <2>2 DEF RefundInv
<1>6. ASSUME NEW t \in Threads, thr'[t] = thr[t] PROVE RefundFrame(thr[t])'
  <2>1. RefundFrame(thr[t])
    BY DEF RefundInv
  <2>2. CASE thr[t].at = "refund"
    <3>. PICK s \in SessionIds : s = thr[t].s
      BY <2>2, Working
    <3>. PICK l : l = thr[t].dec.link
      OBVIOUS
    <3>1. l \in LinkIds /\ links'[l].refunded = links[l].refunded
                        /\ links'[l].amount = links[l].amount
      <4>1. Owns(s, l) /\ Owns(s, l)'
        BY <2>2, OwnsStays DEF RepaidInv, RefundFrames
      <4>. QED
        BY <1>1, <4>1 DEF SameRefunds, Owns
    <3>2. HasCapture(s, l) /\ CanRecordRefund(s, thr[t].dec.reference)
      BY <2>1, <2>2 DEF RefundFrame
    <3>3. HasCapture(s, l)'
      BY <3>2, CaptureStays
    <3>. QED
      BY <1>1, <1>6, <2>1, <2>2, <3>1, <3>3 DEF RefundFrame, Entering, CanRecordRefund
  <2>3. CASE thr[t].at # "refund"
    <3>1. CanRecordRefund(thr[t].s, thr[t].dec.reference)' <=>
            CanRecordRefund(thr[t].s, thr[t].dec.reference)
      BY <1>1, <1>6 DEF CanRecordRefund
    <3>2. PICK s : s = thr[t].s
      OBVIOUS
    <3>3. /\ Cardinality(PaidBack(s))' = Cardinality(PaidBack(s))
          /\ Sum(RefundsOf(s))' = Sum(RefundsOf(s)) /\ thr'[t].s = s
      BY <1>2, <1>6, <3>2
    <3>. QED
      BY <1>6, <2>1, <2>3, <3>1, <3>2, <3>3 DEF RefundFrame, Entering
  <2>. QED
    BY <2>2, <2>3
<1>7. ASSUME NEW t \in Threads PROVE RefundFrame(thr[t])'
  <2>1. CASE thr'[t].at = "refund"
    <3>1. ASSUME NEW s \in SessionIds, NEW ref \in References, NEW a \in RefundAmounts,
                 RefundLoad(t, s, ref, a)
          PROVE  RefundFrame(thr[t])'
      <4>1. Begin(t)
        BY <3>1 DEF Begin
      <4>. QED
        BY <3>1, <4>1, MovesAlone, RefundLoads
    <3>. QED
      BY <1>6, <2>1, <3>1, WhoRefunds
  <2>2. CASE thr'[t].at = "recordRefund"
    BY <1>6, <2>2, StillOwing
  <2>3. CASE thr'[t].at \notin {"refund", "recordRefund"}
    BY <2>3 DEF RefundFrame, Entering
  <2>. QED
    BY <2>1, <2>2, <2>3
<1>. QED
  BY <1>3, <1>4, <1>5, <1>7 DEF RefundInv
\* The provider pays back, within the amount of the link.
LEMMA RefundPaysBack ==
    ASSUME TypeOK, OwnInv, RepaidInv, RefundInv, [Next]_vars,
           NEW t \in Threads, Alone(t), RefundStep(t)
    PROVE  RefundInv'
<1>. DEFINE a == thr[t].dec.amount
            k == thr[t].dec.link
            e == [links[k] EXCEPT !.refunded = @ + a]
<1>1. thr[t].at = "refund" /\ UNCHANGED <<refunds, payments>>
  BY DEF RefundStep, At, OnlyLinks, mandateVars, rowVars
<1>. PICK s \in SessionIds : s = thr[t].s
  BY <1>1, Working
<1>2. k \in LinkIds /\ links[k].session = s /\ a \in Nat /\ RefundPayment(k, a)
  BY <1>1, OwesAmount DEF RefundStep, RepaidInv, RefundFrames, Owns
<1>3. /\ HasCapture(s, k) /\ a + links[k].refunded <= links[k].amount
      /\ CanRecordRefund(s, thr[t].dec.reference)
  BY <1>1 DEF RefundInv, RefundFrame
<1>4. /\ LinkIds' = LinkIds
      /\ links'[k].refunded = links[k].refunded + a
      /\ links'[k].amount = links[k].amount /\ links'[k].session = s
      /\ \A l \in LinkIds : l # k => links'[l] = links[l]
  <2>1. links[k] \in Link
    BY <1>2, LinkElement
  <2>2. links' = [links EXCEPT ![k] = e]
    BY <1>2 DEF RefundPayment
  <2>3. e.refunded = links[k].refunded + a /\ e.amount = links[k].amount /\ e.session = s
    BY <1>2, <2>1 DEF Link
  <2>. HIDE DEF e, k, a
  <2>. QED
    BY <1>2, <2>2, <2>3 DEF LinkIds, TypeOK, DataOK
<1>5. /\ thr'[t].at = "recordRefund" /\ thr'[t].s = s /\ thr'[t].dec = thr[t].dec
  BY DEF RefundStep, GoTo, TypeOK, FramesOK, Frame
<1>6. \A x : /\ Sum(RefundsOf(x))' = Sum(RefundsOf(x))
             /\ \A l : HasCapture(x, l)' = HasCapture(x, l)
  BY <1>1 DEF Sum, Paise, RefundsOf, HasCapture, CapturesOf
<1>7. Balanced(s) /\ \A x \in SessionIds : IsFiniteSet(PaidBack(x))
  BY <1>1 DEF RefundInv, Outstanding, Entering, RepaidInv, Repaid, Alone, Apart
<1>. HIDE DEF a, k, e
<1>8. RefundsWithinCapture'
  BY <1>2, <1>3, <1>4, LinkElement DEF RefundInv, RefundsWithinCapture, Link
<1>9. PaysBackCaptures'
  <2>1. ASSUME NEW l \in LinkIds, links'[l].refunded > 0
        PROVE  HasCapture(links'[l].session, l)
    BY <1>3, <1>4, <2>1 DEF RefundInv, PaysBackCaptures
  <2>2. PaysBackCaptures' <=> \A l \in LinkIds' : links'[l].refunded > 0 => HasCapture(links[l].session, l)'
    BY DEF PaysBackCaptures
  <2>3. ASSUME NEW l \in LinkIds, links'[l].refunded > 0 PROVE HasCapture(links[l].session, l)'
    BY <1>1, <2>1, <2>3 DEF HasCapture, CapturesOf
  <2>. QED
    BY <1>4, <2>2, <2>3
<1>10. ASSUME NEW x \in SessionIds, x # s
       PROVE  /\ Cardinality(PaidBack(x))' = Cardinality(PaidBack(x))
              /\ (Balanced(x) \/ Outstanding(x))'
  <2>1. PaidBack(x)' = PaidBack(x)
    BY <1>2, <1>7, <1>10, PaidBackGrows
  <2>2. Balanced(x) => Balanced(x)'
    BY <1>6, <2>1 DEF Balanced
  <2>3. Outstanding(x) => Outstanding(x)'
    BY <1>1, <1>10 DEF Outstanding, Entering, Alone
  <2>. QED
    BY <2>1, <2>2, <2>3 DEF RefundInv
<1>11. Outstanding(s)'
  BY <1>5 DEF Outstanding, Entering
<1>12. RefundFrame(thr[t])'
  <2>1. Cardinality(PaidBack(s)') = Cardinality(PaidBack(s)) + a
    BY <1>2, <1>7, PaidBackGrows
  <2>2. Cardinality(PaidBack(s))' = Sum(RefundsOf(s))' + a
    BY <1>6, <1>7, <2>1 DEF Balanced
  <2>3. CanRecordRefund(s, thr[t].dec.reference)'
    BY <1>1, <1>3, <1>5 DEF CanRecordRefund
  <2>. QED
    BY <1>5, <2>2, <2>3 DEF RefundFrame, Entering, a
<1>13. ASSUME NEW u \in Threads, u # t PROVE RefundFrame(thr[u])'
  <2>1. thr'[u] = thr[u] /\ thr[u].s # s /\ RefundFrame(thr[u])
    BY <1>13 DEF RefundInv, Alone, Apart
  <2>. SUFFICES ASSUME thr[u].at \in {"refund", "recordRefund"} PROVE RefundFrame(thr[u])'
    BY <2>1 DEF RefundFrame, Entering
  <2>. PICK x \in SessionIds : x = thr[u].s
    BY Working
  <2>. PICK l : l = thr[u].dec.link
    OBVIOUS
  <2>2. CanRecordRefund(x, thr[u].dec.reference)' /\ HasCapture(x, l)' = HasCapture(x, l)
    BY <1>1, <1>6, <2>1 DEF RefundFrame, CanRecordRefund
  <2>3. thr[u].at = "refund" => l \in LinkIds /\ l # k
    BY <1>2, <2>1 DEF RepaidInv, RefundFrames, Owns
  <2>4. thr[u].at = "refund" => links'[l] = links[l]
    BY <1>4, <2>3
  <2>5. /\ Cardinality(PaidBack(x))' = Cardinality(PaidBack(x))
        /\ Sum(RefundsOf(x))' = Sum(RefundsOf(x))
    BY <1>6, <1>10, <2>1
  <2>. QED
    BY <2>1, <2>2, <2>4, <2>5 DEF RefundFrame, Entering
<1>. QED
  BY <1>8, <1>9, <1>10, <1>11, <1>12, <1>13 DEF RefundInv

\* What was paid back is entered.
LEMMA RefundEntered ==
    ASSUME TypeOK, RepaidInv, RefundInv, [Next]_vars,
           NEW t \in Threads, Alone(t), RecordRefundStep(t)
    PROVE  RefundInv'
<1>1. /\ thr[t].at = "recordRefund" /\ UNCHANGED <<links, payments>> /\ thr'[t].at = "idle"
  BY Stops DEF RecordRefundStep, At, OnlyMandates, rowVars
<1>. PICK s \in SessionIds : s = thr[t].s
  BY <1>1, Working
<1>2. \A x : PaidBack(x)' = PaidBack(x) /\ Cardinality(PaidBack(x))' = Cardinality(PaidBack(x))
  BY <1>1 DEF PaidBack, LinksOf, LinkIds
<1>3. Cardinality(PaidBack(s)) = Sum(RefundsOf(s)) + thr[t].dec.amount
  BY <1>1 DEF RefundInv, RefundFrame, Entering
<1>4. ASSUME NEW x \in SessionIds
      PROVE  /\ x # s => Sum(RefundsOf(x))' = Sum(RefundsOf(x))
             /\ (Balanced(x) \/ Outstanding(x))'
  <2>1. IsFiniteSet(Paise(RefundsOf(x)))
    BY DEF RepaidInv, Repaid
  <2>2. CASE x = s
    <3>1. Sum(RefundsOf(x))' = Sum(RefundsOf(x)) + thr[t].dec.amount
      BY <2>1, <2>2, RefundAdds DEF Sum
    <3>. QED
      BY <1>2, <1>3, <2>2, <3>1 DEF Balanced
  <2>3. CASE x # s
    <3>1. Sum(RefundsOf(x))' = Sum(RefundsOf(x))
      BY <2>1, <2>3, RefundAdds DEF Sum
    <3>2. Balanced(x) => Balanced(x)'
      BY <1>2, <3>1 DEF Balanced
    <3>3. Outstanding(x) => Outstanding(x)'
      BY <2>3 DEF Outstanding, Entering, Alone
    <3>. QED
      BY <3>1, <3>2, <3>3 DEF RefundInv
  <2>. QED
    BY <2>2, <2>3
<1>5. RefundsWithinCapture' /\ PaysBackCaptures'
  BY <1>1 DEF RefundInv, RefundsWithinCapture, PaysBackCaptures, HasCapture, CapturesOf, LinkIds
<1>6. RefundFrame(thr[t])'
  BY <1>1 DEF RefundFrame, Entering
<1>7. ASSUME NEW u \in Threads, u # t PROVE RefundFrame(thr[u])'
  <2>1. thr'[u] = thr[u] /\ thr[u].s # s /\ RefundFrame(thr[u])
    BY <1>7 DEF RefundInv, Alone, Apart
  <2>. SUFFICES ASSUME thr[u].at \in {"refund", "recordRefund"} PROVE RefundFrame(thr[u])'
    BY <2>1 DEF RefundFrame, Entering
  <2>. PICK x \in SessionIds : x = thr[u].s
    BY Working
  <2>2. CanRecordRefund(x, thr[u].dec.reference)'
    BY <2>1 DEF RefundFrame, CanRecordRefund, RecordRefundStep, RecordRefund
  <2>3. \A l : HasCapture(x, l)' = HasCapture(x, l)
    BY <1>1 DEF HasCapture, CapturesOf
  <2>4. /\ Cardinality(PaidBack(x))' = Cardinality(PaidBack(x))
        /\ Sum(RefundsOf(x))' = Sum(RefundsOf(x))
    BY <1>2, <1>4, <2>1
  <2>. QED
    BY <1>1, <2>1, <2>2, <2>3, <2>4 DEF RefundFrame, Entering
<1>. QED
  BY <1>4, <1>5, <1>6, <1>7 DEF RefundInv

LEMMA RefundInit ==
    ASSUME Init
    PROVE  RefundInv
<1>1. LinkIds = {} /\ refunds = {} /\ \A t \in Threads : thr[t].at = "idle"
  BY DEF Init, MandatesInit, LinksInit, LinkIds, Idle, Begun
<1>2. ASSUME NEW s \in SessionIds PROVE Balanced(s)
  <2>1. RefundsOf(s) = {} /\ PaidBack(s) = {}
    BY <1>1 DEF RefundsOf, PaidBack, LinksOf
  <2>. QED
    BY <2>1, SumEmpty, FS_EmptySet DEF Balanced
<1>. QED
  BY <1>1, <1>2 DEF RefundInv, RefundsWithinCapture, PaysBackCaptures, RefundFrame, Entering

LEMMA RefundsAlways ==
    ASSUME NeverKilled
    PROVE  Spec /\ []Apart => []RefundInv
<1>1. Init => RefundInv
  BY RefundInit
<1>2. ASSUME Apart, Apart', TypeOK, OwnInv, RepaidInv, RefundInv, [Next]_vars PROVE RefundInv'
  <2>1. ASSUME NEW t \in Threads, RefundStep(t) \/ RecordRefundStep(t) PROVE RefundInv'
    <3>1. Alone(t)
      BY <1>2, <2>1, MovesAlone DEF Continue
    <3>. QED
      BY <1>2, <2>1, <3>1, RefundPaysBack, RefundEntered
  <2>. QED
    BY <1>2, <2>1, RefundsRest
<1>. QED
  BY <1>1, <1>2, TypeCorrect, OwnAlways, RepaidAlways, PTL DEF Spec

\* The refunds the provider confirmed never exceed what a customer paid on a
\* link: the gate allows a refund only within the capture less what is on record
\* as paid back, and while no two handlers work on one session and none is cut
\* off that record names every confirmed refund when the gate reads it.  A
\* refund that was made and whose answer was lost is on no record
\* (sessions.py:551-555), and its amount may be asked for again.
THEOREM RefundsAreBounded ==
    ASSUME NeverKilled
    PROVE  Spec /\ []Apart => []RefundsWithinCapture
<1>1. RefundInv => RefundsWithinCapture
  BY DEF RefundInv
<1>. QED
  BY <1>1, RefundsAlways, PTL

\* Between two requests the rows on record say exactly which refunds of the one
\* capture of an order the provider confirmed, so the next refund is judged
\* against what the service was told.
THEOREM RefundsAreEntered ==
    ASSUME NeverKilled
    PROVE  Spec /\ []Apart => []RefundsRecorded
<1>1. ASSUME TypeOK, OwnInv, BackedInv, RefundInv,
             NEW s \in SessionIds, AtRest(s),
             NEW c \in CapturesOf(s), Cardinality(CapturesOf(s)) = 1
      PROVE  links[c.payment.link].refunded = Sum(RefundsOf(s))
  <2>. DEFINE k == c.payment.link
  <2>1. \A d \in CapturesOf(s) : d = c
    <3>1. IsFiniteSet(CapturesOf(s))
      BY <1>1 DEF BackedInv, Backed
    <3>2. PICK C : C = CapturesOf(s)
      OBVIOUS
    <3>3. IsFiniteSet(C) /\ Cardinality(C) = 1
      BY <1>1, <3>1, <3>2
    <3>4. PICK x : C = {x}
      BY <3>3, FS_Singleton
    <3>. QED
      BY <3>2, <3>4
  <2>2. k \in LinksOf(s)
    BY <1>1 DEF CapturesOf, OwnInv, OwnPayments, Owns, LinksOf
  <2>3. ASSUME NEW l \in LinksOf(s), l # k PROVE links[l].refunded = 0
    <3>1. ~HasCapture(s, l)
      BY <2>1, <2>3 DEF HasCapture
    <3>2. l \in LinkIds /\ links[l].session = s /\ links[l].refunded \in Nat
      BY <1>1, <2>3, LinkElement DEF LinksOf, Link
    <3>3. ~(links[l].refunded > 0)
      BY <1>1, <3>1, <3>2 DEF RefundInv, PaysBackCaptures
    <3>. QED
      BY <3>2, <3>3
  <2>. HIDE DEF k
  <2>4. Cardinality(PaidBack(s)) = links[k].refunded
    BY <1>1, <2>2, <2>3, OnlyLinkPaidBack
  <2>5. Balanced(s)
    BY <1>1 DEF RefundInv, Outstanding, AtRest
  <2>. QED
    BY <2>4, <2>5 DEF Balanced, k
<1>2. TypeOK /\ OwnInv /\ BackedInv /\ RefundInv => RefundsRecorded
  BY <1>1 DEF RefundsRecorded
<1>. QED
  BY <1>2, TypeCorrect, OwnAlways, BackedAlways, RefundsAlways, PTL

-----------------------------------------------------------------------------
(* The state machine of the sessions implements OrderPromise, while no two *)
(* handlers work on one session or reserve on one mandate at once, none is *)
(* killed, prices stand still and nothing is refunded.  Every step is a    *)
(* step of one order or leaves the orders alone.                           *)
(*                                                                         *)
(* OrderOf reads an order off three tables.  Shapes says, for the states   *)
(* that are reached, which order that is, so that a step need only tell    *)
(* what it does to a status, to the rows and to the captures of one        *)
(* session.                                                                *)

\* The merchant hands out no reference for a refund.
NoRefunds == References = {}

\* A session has at most one reservation, open or committed.
OneRow == \A s \in SessionIds : \A p, q \in RowsOf(s) : p = q

Order(phase, money, budget, amount, paid) ==
    [phase |-> phase, money |-> money, budget |-> budget, amount |-> amount, paid |-> paid]

MoneyOf(r) == IF r.state = "reserved" THEN "held" ELSE "spent"

Shapes ==
    \A s \in SessionIds :
        /\ RowsOf(s) = {} => OrderOf(s) = Order(PhaseOf(s), "free", None, 0, Seen(s))
        /\ \A r \in RowsOf(s) :
             OrderOf(s) = Order(PhaseOf(s), MoneyOf(r), r.mandate, r.amount, Seen(s))

-----------------------------------------------------------------------------
(* Reading an order.                                                       *)

LEMMA PhaseIs ==
    \A s : /\ Status(s) = None => PhaseOf(s) = "absent"
           /\ Status(s) \in EDITABLE => PhaseOf(s) = "open"
           /\ Status(s) = PENDING => PhaseOf(s) = "paying"
           /\ Status(s) = COMPLETED => PhaseOf(s) = "completed"
           /\ Status(s) = CANCELED => PhaseOf(s) = "canceled"
  BY RowAssumption DEF PhaseOf, Statuses, EDITABLE, TERMINAL,
     NOT_READY, READY, REQUIRES_REVIEW, PENDING, COMPLETED, CANCELED

\* A payment on record was made on a link of its session, for the price of its
\* cart, and so for what its row holds.
LEMMA ShapesHold ==
    ASSUME TypeOK, OneRow, AmountInv, OwnInv
    PROVE  Shapes
<1>. SUFFICES ASSUME NEW s \in SessionIds
              PROVE  /\ RowsOf(s) = {} => OrderOf(s) = Order(PhaseOf(s), "free", None, 0, Seen(s))
                     /\ \A r \in RowsOf(s) :
                          OrderOf(s) = Order(PhaseOf(s), MoneyOf(r), r.mandate, r.amount, Seen(s))
  BY DEF Shapes
<1>1. ASSUME RowsOf(s) = {}
      PROVE  OrderOf(s) = Order(PhaseOf(s), "free", None, 0, Seen(s))
  BY <1>1 DEF OrderOf, Order, Seen
<1>2. ASSUME NEW r \in RowsOf(s)
      PROVE  OrderOf(s) = Order(PhaseOf(s), MoneyOf(r), r.mandate, r.amount, Seen(s))
  <2>1. (CHOOSE q \in RowsOf(s) : TRUE) = r
    BY <1>2 DEF OneRow
  <2>2. \A c \in CapturesOf(s) : links[c.payment.link].amount = r.amount
    <3>1. \A c \in CapturesOf(s) : c.payment.link \in LinksOf(s)
      BY DEF OwnInv, OwnPayments, Owns, LinksOf, CapturesOf
    <3>. QED
      BY <1>2, <3>1 DEF AmountInv, AtPrice
  <2>3. (\E c \in CapturesOf(s) : links[c.payment.link].amount = r.amount) <=> Seen(s)
    BY <2>2 DEF Seen
  <2>4. RowsOf(s) # {}
    BY <1>2
  <2>5. (\E c \in CapturesOf(s) : links[c.payment.link].amount = r.amount) = Seen(s)
    BY <2>3 DEF Seen
  <2>6. OrderOf(s) = [phase |-> PhaseOf(s), money |-> MoneyOf(r), budget |-> r.mandate,
                      amount |-> r.amount,
                      paid |-> \E c \in CapturesOf(s) : links[c.payment.link].amount = r.amount]
    BY <2>1, <2>4, Zenon DEF OrderOf, MoneyOf
  <2>. QED
    BY <2>5, <2>6, Zenon DEF Order
<1>. QED
  BY <1>1, <1>2

\* Nothing that an order is read off changes.
Still(x) ==
    Status(x)' = Status(x) /\ RowsOf(x)' = RowsOf(x) /\ CapturesOf(x)' = CapturesOf(x)

LEMMA RowsAre ==
    ASSUME TypeOK, NEW x
    PROVE  RowsOf(x) = OpenRows(x) \cup CommittedRows(x)
  BY DEF RowsOf, OpenRows, CommittedRows, TypeOK, DataOK, Reservation

LEMMA QuietIsStill ==
    ASSUME TypeOK, TypeOK', NEW x, Quiet(x)
    PROVE  Still(x)
<1>1. RowsOf(x) = OpenRows(x) \cup CommittedRows(x)
  BY RowsAre
<1>2. (RowsOf(x) = OpenRows(x) \cup CommittedRows(x))'
  BY DEF RowsOf, OpenRows, CommittedRows, TypeOK, DataOK, Reservation
<1>. QED
  BY <1>1, <1>2 DEF Quiet, Still

LEMMA OrderStays ==
    ASSUME Shapes, Shapes', NEW x \in SessionIds, Still(x)
    PROVE  OrderOf(x)' = OrderOf(x)
<1>1. PhaseOf(x)' = PhaseOf(x) /\ Seen(x)' = Seen(x)
  BY DEF Still, PhaseOf, Seen
<1>2. CASE RowsOf(x) = {}
  BY <1>1, <1>2 DEF Still, Shapes
<1>3. ASSUME NEW r \in RowsOf(x) PROVE OrderOf(x)' = OrderOf(x)
  <2>1. r \in RowsOf(x)'
    BY <1>3 DEF Still
  <2>2. OrderOf(x)' = Order(PhaseOf(x)', MoneyOf(r), r.mandate, r.amount, Seen(x)')
    BY <2>1 DEF Shapes
  <2>. QED
    BY <1>1, <1>3, <2>2 DEF Shapes
<1>. QED
  BY <1>2, <1>3

-----------------------------------------------------------------------------
OrderTable == [s \in SessionIds |-> OrderOf(s)]

LEMMA OrdersStay ==
    ASSUME \A x \in SessionIds : OrderOf(x)' = OrderOf(x)
    PROVE  OrderTable' = OrderTable
  BY DEF OrderTable

LEMMA OrderMoves ==
    ASSUME NEW s \in SessionIds, NEW e, OrderOf(s)' = e,
           \A x \in SessionIds : x # s => OrderOf(x)' = OrderOf(x)
    PROVE  /\ OrderTable[s] = OrderOf(s)
           /\ OrderTable' = [OrderTable EXCEPT ![s] = e]
  BY DEF OrderTable

\* The fields of an order.
LEMMA OrderReads ==
    ASSUME TypeOK, Shapes, NEW s \in SessionIds
    PROVE  /\ OrderOf(s).phase = PhaseOf(s) /\ (OrderOf(s).paid <=> Seen(s))
           /\ Holding(s) => OrderOf(s).money = "held"
           /\ Spent(s) => OrderOf(s).money = "spent"
           /\ Clean(s) => OrderOf(s).money = "free"
<1>1. OrderOf(s).phase = PhaseOf(s) /\ (OrderOf(s).paid <=> Seen(s))
  <2>1. CASE RowsOf(s) = {}
    BY <2>1 DEF Shapes, Order
  <2>2. ASSUME NEW r \in RowsOf(s)
        PROVE  OrderOf(s).phase = PhaseOf(s) /\ (OrderOf(s).paid <=> Seen(s))
    <3>1. OrderOf(s) = Order(PhaseOf(s), MoneyOf(r), r.mandate, r.amount, Seen(s))
      BY <2>2 DEF Shapes
    <3>. QED
      BY <3>1 DEF Order
  <2>. QED
    BY <2>1, <2>2
<1>2. ASSUME NEW r \in RowsOf(s) PROVE OrderOf(s).money = MoneyOf(r)
  <2>1. OrderOf(s) = Order(PhaseOf(s), MoneyOf(r), r.mandate, r.amount, Seen(s))
    BY <1>2 DEF Shapes
  <2>. QED
    BY <2>1 DEF Order
<1>3. Holding(s) => OrderOf(s).money = "held"
  BY <1>2 DEF Holding, OpenRows, RowsOf, MoneyOf
<1>4. Spent(s) => OrderOf(s).money = "spent"
  BY <1>2 DEF Spent, CommittedRows, MoneyOf
<1>5. Clean(s) => OrderOf(s).money = "free"
  <2>1. Clean(s) => RowsOf(s) = {}
    BY RowsAre DEF Clean, Holding, Spent
  <2>. QED
    BY <2>1 DEF Shapes, Order
<1>. QED
  BY <1>1, <1>3, <1>4, <1>5

\* A step that changes only the status of s.
LEMMA PhaseChanges ==
    ASSUME Shapes, Shapes', NEW s \in SessionIds,
           RowsOf(s)' = RowsOf(s), CapturesOf(s)' = CapturesOf(s)
    PROVE  OrderOf(s)' = [OrderOf(s) EXCEPT !.phase = PhaseOf(s)']
<1>1. Seen(s)' = Seen(s)
  BY DEF Seen
<1>2. CASE RowsOf(s) = {}
  BY <1>1, <1>2 DEF Shapes, Order
<1>3. ASSUME NEW r \in RowsOf(s) PROVE OrderOf(s)' = [OrderOf(s) EXCEPT !.phase = PhaseOf(s)']
  <2>1. OrderOf(s)' = Order(PhaseOf(s)', MoneyOf(r), r.mandate, r.amount, Seen(s)')
    BY <1>3 DEF Shapes
  <2>. QED
    BY <1>1, <1>3, <2>1 DEF Shapes, Order
<1>. QED
  BY <1>2, <1>3

LEMMA PhaseKeeps ==
    ASSUME Shapes, Shapes', NEW s \in SessionIds, PhaseOf(s)' = PhaseOf(s),
           RowsOf(s)' = RowsOf(s), CapturesOf(s)' = CapturesOf(s)
    PROVE  OrderOf(s)' = OrderOf(s)
<1>1. Seen(s)' = Seen(s)
  BY DEF Seen
<1>2. CASE RowsOf(s) = {}
  BY <1>1, <1>2 DEF Shapes
<1>3. ASSUME NEW r \in RowsOf(s) PROVE OrderOf(s)' = OrderOf(s)
  <2>1. OrderOf(s)' = Order(PhaseOf(s)', MoneyOf(r), r.mandate, r.amount, Seen(s)')
    BY <1>3 DEF Shapes
  <2>. QED
    BY <1>1, <1>3, <2>1 DEF Shapes
<1>. QED
  BY <1>2, <1>3

-----------------------------------------------------------------------------
(* Steps that leave the orders alone.                                      *)

LEMMA QuietOrders ==
    ASSUME TypeOK, TypeOK', Shapes, Shapes', \A x \in SessionIds : Quiet(x)
    PROVE  OrderTable' = OrderTable
  BY QuietIsStill, OrderStays, OrdersStay

LEMMA StillOrders ==
    ASSUME TypeOK, TypeOK', Shapes, Shapes', NEW s \in SessionIds,
           \A x \in SessionIds : x # s => Quiet(x), OrderOf(s)' = OrderOf(s)
    PROVE  OrderTable' = OrderTable
  BY QuietIsStill, OrderStays, OrdersStay

LEMMA WorldOrders ==
    ASSUME TypeOK, TypeOK', Shapes, Shapes',
           OnlyThread \/ Merchant \/ Clock \/ Customer \/ \E t \in Threads : RecordReview(t)
    PROVE  OrderTable' = OrderTable
<1>1. ASSUME UNCHANGED <<sessions, payments, reservations, links>> PROVE OrderTable' = OrderTable
  BY <1>1, QuietTables, QuietOrders
<1>2. ASSUME Merchant \/ Clock \/ Customer PROVE OrderTable' = OrderTable
  BY <1>2, QuietWorld, QuietOrders
<1>. QED
  BY <1>1, <1>2 DEF OnlyThread, RecordReview, rowVars, mandateVars

LEMMA LinkOrders ==
    ASSUME TypeOK, TypeOK', Shapes, Shapes', NEW t \in Threads,
           \/ FirstLink(t) \/ SecondLink(t) \/ CancelQuietly(t) \/ CancelLinkStep(t)
           \/ CancelLinkLost(t) \/ RefundStep(t) \/ RefundLost(t)
    PROVE  OrderTable' = OrderTable
<1>1. UNCHANGED <<sessions, payments, reservations>>
  BY DEF FirstLink, SecondLink, CancelQuietly, CancelLinkStep, CancelLinkLost, RefundStep,
     RefundLost, OnlyLinks, rowVars, mandateVars
<1>2. CASE UNCHANGED links
  BY <1>1, <1>2, QuietTables, QuietOrders
<1>3. ASSUME NEW k, CancelLink(k) PROVE OrderTable' = OrderTable
  BY <1>1, <1>3, QuietCancelLink, QuietOrders
<1>4. ASSUME NEW k, NEW a, RefundPayment(k, a) PROVE OrderTable' = OrderTable
  BY <1>1, <1>4, QuietRefund, QuietOrders
<1>5. CASE FirstLink(t) \/ SecondLink(t)
  <2>1. thr[t].at \in MoneyPlaces /\ CreateLink(thr[t].s, thr[t].dec.total)
    BY <1>5 DEF FirstLink, SecondLink, At, MoneyPlaces
  <2>2. PICK s \in SessionIds, a \in Nat : s = thr[t].s /\ a = thr[t].dec.total
    BY <2>1, Working DEF MoneyPlaces, FrameOK, DecidedPlaces, Decision
  <2>3. /\ \A x \in SessionIds : x # s => Quiet(x)
        /\ Status(s)' = Status(s) /\ CapturesOf(s)' = CapturesOf(s)
        /\ OpenRows(s)' = OpenRows(s) /\ CommittedRows(s)' = CommittedRows(s)
    BY <1>1, <2>1, <2>2, QuietNewLink
  <2>4. RowsOf(s)' = RowsOf(s)
    BY <1>1 DEF RowsOf
  <2>5. OrderOf(s)' = OrderOf(s)
    BY <2>3, <2>4, OrderStays DEF Still
  <2>. QED
    BY <2>3, <2>5, StillOrders
<1>6. ASSUME NEW k, NEW a, RefundUnheard(k, a) PROVE OrderTable' = OrderTable
  BY <1>1, <1>6, QuietUnheard, QuietOrders
<1>. QED
  BY <1>2, <1>3, <1>4, <1>5, <1>6
     DEF CancelQuietly, CancelLinkStep, CancelLinkLost, TryCancel, RefundStep, RefundLost
-----------------------------------------------------------------------------
(* Steps of an order: its phase.                                           *)

LEMMA OpensOrder ==
    ASSUME NEW s \in SessionIds, OrderOf(s).phase = "absent",
           OrderOf(s)' = [OrderOf(s) EXCEPT !.phase = "open"],
           \A x \in SessionIds : x # s => OrderOf(x)' = OrderOf(x)
    PROVE  Promise!Next
<1>1. /\ OrderTable[s] = OrderOf(s)
      /\ OrderTable' = [OrderTable EXCEPT ![s] = [OrderOf(s) EXCEPT !.phase = "open"]]
  BY OrderMoves
<1>2. Promise!Open(s)
  BY <1>1 DEF Promise!Open, OrderTable
<1>. QED
  BY <1>2 DEF Promise!Next

LEMMA AsksOrder ==
    ASSUME NEW s \in SessionIds, OrderOf(s).phase = "open", OrderOf(s).money = "held",
           OrderOf(s)' = [OrderOf(s) EXCEPT !.phase = "paying"],
           \A x \in SessionIds : x # s => OrderOf(x)' = OrderOf(x)
    PROVE  Promise!Next
<1>1. /\ OrderTable[s] = OrderOf(s)
      /\ OrderTable' = [OrderTable EXCEPT ![s] = [OrderOf(s) EXCEPT !.phase = "paying"]]
  BY OrderMoves
<1>2. Promise!Ask(s)
  BY <1>1 DEF Promise!Ask, OrderTable
<1>. QED
  BY <1>2 DEF Promise!Next

LEMMA CompletesOrder ==
    ASSUME NEW s \in SessionIds, OrderOf(s).phase = "paying", OrderOf(s).money = "spent",
           OrderOf(s)' = [OrderOf(s) EXCEPT !.phase = "completed"],
           \A x \in SessionIds : x # s => OrderOf(x)' = OrderOf(x)
    PROVE  Promise!Next
<1>1. /\ OrderTable[s] = OrderOf(s)
      /\ OrderTable' = [OrderTable EXCEPT ![s] = [OrderOf(s) EXCEPT !.phase = "completed"]]
  BY OrderMoves
<1>2. Promise!Complete(s)
  BY <1>1 DEF Promise!Complete, OrderTable
<1>. QED
  BY <1>2 DEF Promise!Next

LEMMA CancelsOrder ==
    ASSUME NEW s \in SessionIds, OrderOf(s).phase \in {"open", "paying"},
           OrderOf(s).money = "free",
           OrderOf(s)' = [OrderOf(s) EXCEPT !.phase = "canceled"],
           \A x \in SessionIds : x # s => OrderOf(x)' = OrderOf(x)
    PROVE  Promise!Next
<1>1. /\ OrderTable[s] = OrderOf(s)
      /\ OrderTable' = [OrderTable EXCEPT ![s] = [OrderOf(s) EXCEPT !.phase = "canceled"]]
  BY OrderMoves
<1>2. Promise!Cancel(s)
  BY <1>1 DEF Promise!Cancel, OrderTable
<1>. QED
  BY <1>2 DEF Promise!Next

\* What a write of the row of s leaves as it is.
LEMMA OneRowWritten ==
    ASSUME TypeOK, TypeOK', Shapes, Shapes', NEW s \in SessionIds, NEW row, row # None,
           SetRow(s, row), UNCHANGED <<payments, reservations, links>>
    PROVE  /\ \A x \in SessionIds : x # s => Quiet(x) /\ OrderOf(x)' = OrderOf(x)
           /\ Status(s)' = row.status
           /\ RowsOf(s)' = RowsOf(s) /\ CapturesOf(s)' = CapturesOf(s)
           /\ OrderOf(s)' = [OrderOf(s) EXCEPT !.phase = PhaseOf(s)']
           /\ PhaseOf(s)' = PhaseOf(s) => OrderTable' = OrderTable
<1>1. /\ \A x \in SessionIds : x # s => Quiet(x)
      /\ Status(s)' = row.status
      /\ CapturesOf(s)' = CapturesOf(s)
  BY QuietRow
<1>2. RowsOf(s)' = RowsOf(s)
  BY DEF RowsOf
<1>3. \A x \in SessionIds : x # s => OrderOf(x)' = OrderOf(x)
  BY <1>1, QuietIsStill, OrderStays
<1>4. OrderOf(s)' = [OrderOf(s) EXCEPT !.phase = PhaseOf(s)']
  BY <1>1, <1>2, PhaseChanges
<1>5. PhaseOf(s)' = PhaseOf(s) => OrderTable' = OrderTable
  BY <1>1, <1>2, PhaseKeeps, StillOrders
<1>. QED
  BY <1>1, <1>2, <1>3, <1>4, <1>5

LEMMA PhaseIsNext ==
    \A s : /\ Status(s)' = None => PhaseOf(s)' = "absent"
           /\ Status(s)' \in EDITABLE => PhaseOf(s)' = "open"
           /\ Status(s)' = PENDING => PhaseOf(s)' = "paying"
           /\ Status(s)' = COMPLETED => PhaseOf(s)' = "completed"
           /\ Status(s)' = CANCELED => PhaseOf(s)' = "canceled"
  BY RowAssumption DEF PhaseOf, Statuses, EDITABLE, TERMINAL,
     NOT_READY, READY, REQUIRES_REVIEW, PENDING, COMPLETED, CANCELED

LEMMA CreateOpens ==
    ASSUME TypeOK, TypeOK', Shapes, Shapes', NEW t \in Threads, NEW s \in SessionIds,
           NEW items \in Carts, Create(t, s, items)
    PROVE  Promise!Next
<1>. DEFINE d == Decide(s, items, None, "preview", None, shop)
            row == [status |-> StatusFor(d), items |-> d.items, total |-> d.total,
                    mandate |-> d.mandate, attempt |-> 0, link |-> 0]
<1>1. StatusFor(d) \in EDITABLE
  BY DecideType, StatusForType DEF Items
<1>2. row.status \in EDITABLE /\ row # None
  <2>1. d \in Decision
    BY DecideType DEF Items
  <2>2. row \in Row
    BY <1>1, <2>1 DEF Row, Decision, Statuses, MAX_ATTEMPTS
  <2>. QED
    BY <1>1, <2>2, RowAssumption
<1>3. SetRow(s, row) /\ UNCHANGED <<payments, reservations, links>> /\ Status(s) = None
  BY DEF Create, SetRow, mandateVars, Status
<1>. HIDE DEF row
<1>4. PhaseOf(s) = "absent" /\ PhaseOf(s)' = "open"
  BY <1>2, <1>3, OneRowWritten, PhaseIs, PhaseIsNext
<1>. QED
  BY <1>2, <1>3, <1>4, OneRowWritten, OrderReads, OpensOrder

\* The transitions of a session that is there: to another status for editing,
\* to the payment, or to an end.
LEMMA WriteOrders ==
    ASSUME TypeOK, TypeOK', SoloInv, Shapes, Shapes', NEW t \in Threads, WritesRow(t)
    PROVE  Promise!Next \/ OrderTable' = OrderTable
<1>1. UNCHANGED <<payments, reservations, links>> /\ thr[t].at # "idle"
  BY DEF WritesRow, Store, Refuse, SetPending, SetRetried, SetCompleted, SetCanceled,
     OnlySessions, mandateVars, At
<1>. PICK s \in SessionIds : s = thr[t].s
  BY <1>1, AtWork
<1>2. /\ thr[t] \in Frame /\ FrameOK(thr[t]) /\ Busy(thr[t])
      /\ sessions[s] \in Row /\ Status(s) = sessions[s].status
  BY <1>1, AtWork
<1>3. PICK row \in Row : SetRow(s, row)
  BY WrittenRow DEF Written
<1>4. /\ \A x \in SessionIds : x # s => OrderOf(x)' = OrderOf(x)
      /\ Status(s)' = row.status
      /\ OrderOf(s)' = [OrderOf(s) EXCEPT !.phase = PhaseOf(s)']
      /\ PhaseOf(s)' = PhaseOf(s) => OrderTable' = OrderTable
  BY <1>1, <1>3, OneRowWritten, RowAssumption
<1>5. sessions'[s] = row
  BY <1>2, <1>3 DEF SetRow, TypeOK, DataOK
<1>6. CASE Store(t) \/ Refuse(t)
  <2>1. row.status \in EDITABLE
    <3>1. CASE Store(t)
      <4>1. row.status = StatusFor(thr[t].dec) /\ thr[t].at = "store"
        BY <1>2, <1>5, <3>1 DEF Store, SetRow, At, TypeOK, DataOK, Row
      <4>. QED
        BY <1>2, <4>1, StatusForType DEF FrameOK, DecidedPlaces
    <3>2. CASE Refuse(t)
      <4>1. /\ row.status = IF thr[t].op = "complete" THEN StatusFor(thr[t].dec) ELSE NOT_READY
            /\ thr[t].at = "refuse"
        BY <1>2, <1>5, <3>2 DEF Refuse, SetRow, At, TypeOK, DataOK, Row
      <4>. QED
        BY <1>2, <4>1, StatusForType DEF FrameOK, EDITABLE
    <3>. QED
      BY <1>6, <3>1, <3>2
  <2>2. Status(s) \in EDITABLE
    <3>1. Untouched(s) /\ Status(s) # None
      BY <1>2, <1>6, RowAssumption DEF Busy, EditPlaces, Store, Refuse, At, Row
    <3>. QED
      BY <3>1 DEF Untouched
  <2>. QED
    BY <1>4, <2>1, <2>2, PhaseIs, PhaseIsNext
<1>7. CASE SetPending(t)
  <2>1. row.status = PENDING /\ thr[t].at = "pending"
    BY <1>2, <1>5, <1>7 DEF SetPending, SetRow, At, TypeOK, DataOK, Row
  <2>2. Status(s) \in EDITABLE /\ Holding(s)
    BY <1>2, <2>1 DEF Busy, Held, Secured
  <2>3. PhaseOf(s) = "open" /\ PhaseOf(s)' = "paying"
    BY <1>4, <2>1, <2>2, PhaseIs, PhaseIsNext
  <2>. QED
    BY <1>4, <2>2, <2>3, OrderReads, AsksOrder
<1>8. CASE SetRetried(t)
  <2>1. row.status = Status(s)
    BY <1>2, <1>5, <1>8 DEF SetRetried, SetRow, At, TypeOK, DataOK, Row
  <2>2. PhaseOf(s)' = PhaseOf(s)
    BY <1>4, <2>1 DEF PhaseOf
  <2>. QED
    BY <1>4, <2>2
<1>9. CASE SetCompleted(t)
  <2>1. row.status = COMPLETED /\ thr[t].at = "complete"
    BY <1>2, <1>5, <1>9 DEF SetCompleted, SetRow, At, TypeOK, DataOK, Row
  <2>2. Status(s) = PENDING /\ Spent(s)
    BY <1>2, <2>1 DEF Busy, Paid
  <2>3. PhaseOf(s) = "paying" /\ PhaseOf(s)' = "completed"
    BY <1>4, <2>1, <2>2, PhaseIs, PhaseIsNext
  <2>. QED
    BY <1>4, <2>2, <2>3, OrderReads, CompletesOrder
<1>10. CASE SetCanceled(t)
  <2>1. row.status = CANCELED /\ thr[t].at = "canceled"
    BY <1>2, <1>5, <1>10 DEF SetCanceled, SetRow, At, TypeOK, DataOK, Row
  <2>2. Status(s) \in EDITABLE \cup {PENDING} /\ Clean(s)
    BY <1>2, <2>1 DEF Busy
  <2>3. PhaseOf(s) \in {"open", "paying"} /\ PhaseOf(s)' = "canceled"
    BY <1>4, <2>1, <2>2, PhaseIs, PhaseIsNext
  <2>. QED
    BY <1>4, <2>2, <2>3, OrderReads, CancelsOrder
<1>. QED
  BY <1>6, <1>7, <1>8, <1>9, <1>10 DEF WritesRow
-----------------------------------------------------------------------------
(* Steps of an order: its money.                                           *)

\* What the orders draw from a mandate is what its rows hold.
LEMMA DrawnIsHeld ==
    ASSUME Books, Shapes, NEW m \in MandateIds
    PROVE  Promise!Drawn(m) \in Nat /\ Promise!Drawn(m) <= Sum(RowsOn(m))
<1>. DEFINE D == UNION {{o} \X (1..OrderTable[o].amount) :
                          o \in {o \in SessionIds : OrderTable[o].budget = m}}
            row(o) == CHOOSE r \in RowsOf(o) : TRUE
            f == [z \in D |-> <<row(z[1]).id, z[2]>>]
<1>1. Promise!Drawn(m) = Cardinality(D)
  BY DEF Promise!Drawn, OrderTable, Promise!Cardinality, Cardinality
<1>2. ASSUME NEW o \in SessionIds, OrderOf(o).budget = m
      PROVE  /\ row(o) \in RowsOn(m) /\ row(o).session = o
             /\ OrderOf(o).amount = row(o).amount
  <2>1. CASE RowsOf(o) = {}
    <3>1. OrderOf(o).budget = None
      BY <2>1 DEF Shapes, Order
    <3>. QED
      BY <1>2, <3>1, IdsAssumption
  <2>2. CASE RowsOf(o) # {}
    <3>1. PICK r \in RowsOf(o) : r = row(o)
      BY <2>2
    <3>2. OrderOf(o) = Order(PhaseOf(o), MoneyOf(r), r.mandate, r.amount, Seen(o))
      BY <3>1 DEF Shapes
    <3>3. OrderOf(o).budget = r.mandate /\ OrderOf(o).amount = r.amount
      BY <3>2 DEF Order
    <3>. QED
      BY <1>2, <3>1, <3>3 DEF RowsOf, RowsOn
  <2>. QED
    BY <2>1, <2>2
<1>. HIDE DEF row
<1>3. ASSUME NEW z \in D
      PROVE  /\ row(z[1]) \in RowsOn(m) /\ row(z[1]).session = z[1]
             /\ z[2] \in 1..row(z[1]).amount /\ z = <<z[1], z[2]>>
  <2>1. PICK o \in SessionIds : OrderTable[o].budget = m /\ z \in {o} \X (1..OrderTable[o].amount)
    BY <1>3
  <2>2. OrderTable[o] = OrderOf(o)
    BY DEF OrderTable
  <2>. QED
    BY <1>2, <2>1, <2>2
<1>. HIDE DEF D
<1>4. f \in Injection(D, Paise(RowsOn(m)))
  <2>1. \A z \in D : f[z] \in Paise(RowsOn(m))
    BY <1>3 DEF Paise
  <2>2. ASSUME NEW y \in D, NEW z \in D, f[y] = f[z] PROVE y = z
    <3>1. row(y[1]).id = row(z[1]).id /\ y[2] = z[2]
      BY <2>2
    <3>2. row(y[1]) = row(z[1])
      BY <1>3, <3>1 DEF Books, RowsOn
    <3>. QED
      BY <1>3, <3>1, <3>2
  <2>. QED
    BY <2>1, <2>2 DEF Injection, IsInjective
<1>. HIDE DEF f
<1>5. IsFiniteSet(Paise(RowsOn(m)))
  BY SumsAreNat
<1>. QED
  BY <1>1, <1>4, <1>5, FS_Injection, FS_CardinalityType DEF Sum
LEMMA HoldsOrder ==
    ASSUME NEW s \in SessionIds, NEW m \in MandateIds, NEW a \in Nat,
           OrderOf(s).phase = "open", OrderOf(s).money = "free",
           Promise!Drawn(m) \in Nat, Promise!Drawn(m) + a <= Terms[m].total,
           OrderOf(s)' = Order("open", "held", m, a, FALSE),
           \A x \in SessionIds : x # s => OrderOf(x)' = OrderOf(x)
    PROVE  Promise!Next
<1>1. /\ OrderTable[s] = OrderOf(s)
      /\ OrderTable' = [OrderTable EXCEPT ![s] = Order("open", "held", m, a, FALSE)]
  BY OrderMoves
<1>2. Order("open", "held", m, a, FALSE)
        = Promise!With("open", [money |-> "held", budget |-> m, amount |-> a], FALSE)
  BY DEF Order, Promise!With
<1>3. a \in 0..([b \in MandateIds |-> Terms[b].total][m] - Promise!Drawn(m))
  BY CapsAssumption
<1>4. Promise!Hold(s)
  BY <1>1, <1>2, <1>3 DEF Promise!Hold, OrderTable
<1>. QED
  BY <1>4 DEF Promise!Next

LEMMA SpendsOrder ==
    ASSUME NEW s \in SessionIds, OrderOf(s).paid, OrderOf(s).money = "held",
           OrderOf(s)' = [OrderOf(s) EXCEPT !.money = "spent"],
           \A x \in SessionIds : x # s => OrderOf(x)' = OrderOf(x)
    PROVE  Promise!Next
<1>1. /\ OrderTable[s] = OrderOf(s)
      /\ OrderTable' = [OrderTable EXCEPT ![s] = [OrderOf(s) EXCEPT !.money = "spent"]]
  BY OrderMoves
<1>2. Promise!Spend(s)
  BY <1>1 DEF Promise!Spend, OrderTable
<1>. QED
  BY <1>2 DEF Promise!Next

LEMMA PaysOrder ==
    ASSUME NEW s \in SessionIds, OrderOf(s).phase = "paying", OrderOf(s).money = "held",
           OrderOf(s)' = [OrderOf(s) EXCEPT !.paid = TRUE],
           \A x \in SessionIds : x # s => OrderOf(x)' = OrderOf(x)
    PROVE  Promise!Next
<1>1. /\ OrderTable[s] = OrderOf(s)
      /\ OrderTable' = [OrderTable EXCEPT ![s] = [OrderOf(s) EXCEPT !.paid = TRUE]]
  BY OrderMoves
<1>2. Promise!Pay(s)
  BY <1>1 DEF Promise!Pay, OrderTable
<1>. QED
  BY <1>2 DEF Promise!Next

LEMMA GivesBackOrder ==
    ASSUME NEW s \in SessionIds, OrderOf(s).phase \in {"open", "paying"},
           OrderOf(s).money = "held", ~OrderOf(s).paid,
           OrderOf(s)' = Order(OrderOf(s).phase, "free", None, 0, FALSE),
           \A x \in SessionIds : x # s => OrderOf(x)' = OrderOf(x)
    PROVE  Promise!Next
<1>1. /\ OrderTable[s] = OrderOf(s)
      /\ OrderTable' = [OrderTable EXCEPT ![s] = Order(OrderOf(s).phase, "free", None, 0, FALSE)]
  BY OrderMoves
<1>2. \A phase : Order(phase, "free", None, 0, FALSE) = Promise!With(phase, Promise!NoMoney, FALSE)
  BY DEF Order, Promise!With, Promise!NoMoney
<1>3. Promise!GiveBack(s)
  BY <1>1, <1>2 DEF Promise!GiveBack, OrderTable
<1>. QED
  BY <1>3 DEF Promise!Next

LEMMA OthersKeep ==
    ASSUME TypeOK, TypeOK', Shapes, Shapes', NEW s, \A x \in SessionIds : x # s => Quiet(x)
    PROVE  \A x \in SessionIds : x # s => OrderOf(x)' = OrderOf(x)
  BY QuietIsStill, OrderStays

\* What complete reserves is within the caps, and so within the budget.
LEMMA ReserveOrders ==
    ASSUME NoRefunds, TypeOK, TypeOK', SoloInv, CapInv, Shapes, Shapes',
           NEW t \in Threads, ReserveStep(t)
    PROVE  Promise!Next
<1>1. /\ thr[t].at = "reserve" /\ UNCHANGED <<sessions, payments, links>>
      /\ Reserve(thr[t].s, thr[t].dec.mandate, thr[t].dec.total)
  BY DEF ReserveStep, At, OnlyMandates, rowVars
<1>2. PICK s \in SessionIds, m \in MandateIds, a \in Nat :
        s = thr[t].s /\ m = thr[t].dec.mandate /\ a = thr[t].dec.total
  BY <1>1, Working DEF MoneyPlaces, FrameOK, DecidedPlaces, Decision
<1>3. Untouched(s) /\ Status(s) \in EDITABLE
  BY <1>1, <1>2, AtWork, RowAssumption DEF Busy, EditPlaces, Untouched, Row
<1>4. /\ \A x \in SessionIds : x # s => Quiet(x)
      /\ Status(s)' = Status(s) /\ CapturesOf(s)' = CapturesOf(s)
  BY <1>1, <1>2, QuietReserve
<1>. DEFINE row == [id |-> CHOOSE i \in FreshIds : TRUE, session |-> s, mandate |-> m,
                    amount |-> a, day |-> today, state |-> "reserved"]
<1>5. /\ row.session = s /\ row.mandate = m /\ row.amount = a /\ row.state = "reserved"
      /\ \E r : reservations' = reservations \cup {r} /\ r = row
  BY <1>1, <1>2 DEF Reserve
<1>. PICK r : reservations' = reservations \cup {r} /\ r = row
  BY <1>5
<1>. HIDE DEF row
<1>6. OrderOf(s)' = Order("open", "held", m, a, FALSE)
  <2>1. r \in RowsOf(s)'
    BY <1>5 DEF RowsOf
  <2>2. OrderOf(s)' = Order(PhaseOf(s)', MoneyOf(r), r.mandate, r.amount, Seen(s)')
    BY <2>1 DEF Shapes
  <2>3. PhaseOf(s)' = "open" /\ MoneyOf(r) = "held"
    BY <1>3, <1>4, <1>5, PhaseIsNext DEF MoneyOf
  <2>4. Seen(s)' = FALSE
    BY <1>3, <1>4 DEF Seen, Untouched, Clean
  <2>. QED
    BY <1>5, <2>2, <2>3, <2>4
<1>7. OrderOf(s).phase = "open" /\ OrderOf(s).money = "free"
  BY <1>3, PhaseIs, OrderReads DEF Untouched
<1>8. Promise!Drawn(m) \in Nat /\ Promise!Drawn(m) + a <= Terms[m].total
  <2>1. refunds = {}
    BY DEF NoRefunds, TypeOK, DataOK, Refund
  <2>2. Sum(RefundsOn(m)) = 0
    BY <2>1, SumEmpty DEF RefundsOn
  <2>3. Sum(RowsOn(m)) + a <= Terms[m].total /\ Sum(RowsOn(m)) \in Nat
    BY <1>1, <1>2, <2>2, SumsAreNat DEF CapInv, Fits
  <2>. QED
    BY <2>3, DrawnIsHeld, CapsAssumption DEF CapInv
<1>. QED
  BY <1>4, <1>6, <1>7, <1>8, OthersKeep, HoldsOrder
\* What finish_paid commits is what was held.
LEMMA CommitOrders ==
    ASSUME TypeOK, TypeOK', SoloInv, Shapes, Shapes', NEW t \in Threads, CommitStep(t)
    PROVE  Promise!Next
<1>1. thr[t].at = "commit" /\ UNCHANGED <<sessions, payments, links>> /\ Commit(thr[t].s)
  BY DEF CommitStep, At, OnlyMandates, rowVars
<1>. PICK s \in SessionIds : s = thr[t].s
  BY <1>1, AtWork
<1>2. Holding(s) /\ Seen(s)
  BY <1>1, AtWork DEF Busy
<1>3. /\ \A x \in SessionIds : x # s => Quiet(x)
      /\ Status(s)' = Status(s) /\ ~Holding(s)' /\ CapturesOf(s)' = CapturesOf(s)
  BY <1>1, QuietCommit
<1>. PICK r \in OpenRows(s) : TRUE
  BY <1>2 DEF Holding
<1>4. r \in RowsOf(s) /\ r \in reservations /\ MoneyOf(r) = "held"
  BY DEF OpenRows, RowsOf, MoneyOf
<1>5. PICK q \in reservations' : SameButState(r, q)
  BY <1>1, <1>4, CommitTurns
<1>6. q \in RowsOf(s)' /\ q.mandate = r.mandate /\ q.amount = r.amount
  BY <1>4, <1>5 DEF SameButState, RowsOf
<1>7. MoneyOf(q) = "spent"
  BY <1>3, <1>6 DEF Holding, OpenRows, RowsOf, MoneyOf
<1>8. OrderOf(s) = Order(PhaseOf(s), "held", r.mandate, r.amount, Seen(s))
  BY <1>4 DEF Shapes
<1>9. OrderOf(s)' = Order(PhaseOf(s)', "spent", q.mandate, q.amount, Seen(s)')
  BY <1>6, <1>7 DEF Shapes
<1>10. PhaseOf(s)' = PhaseOf(s) /\ Seen(s)' = Seen(s)
  BY <1>3 DEF PhaseOf, Seen
<1>11. OrderOf(s)' = [OrderOf(s) EXCEPT !.money = "spent"]
  BY <1>6, <1>8, <1>9, <1>10 DEF Order
<1>12. OrderOf(s).money = "held" /\ OrderOf(s).paid
  BY <1>2, OrderReads
<1>. QED
  BY <1>3, <1>11, <1>12, OthersKeep, SpendsOrder

\* Only money that was not paid is released.
LEMMA ReleaseOrders ==
    ASSUME TypeOK, TypeOK', SoloInv, Shapes, Shapes', NEW t \in Threads, ReleaseStep(t)
    PROVE  Promise!Next
<1>1. thr[t].at = "release" /\ UNCHANGED <<sessions, payments, links>> /\ Release(thr[t].s)
  BY DEF ReleaseStep, At, OnlyMandates, rowVars
<1>. PICK s \in SessionIds : s = thr[t].s
  BY <1>1, AtWork
<1>2. Holding(s)
  BY <1>1 DEF Release, Holding
<1>3. Status(s) \in EDITABLE \cup {PENDING} /\ ~Spent(s) /\ ~Seen(s)
  BY <1>1, <1>2, AtWork DEF Busy, Untouched, Clean, Held, Paying, Secured
<1>4. /\ \A x \in SessionIds : x # s => Quiet(x)
      /\ Status(s)' = Status(s) /\ ~Holding(s)' /\ CapturesOf(s)' = CapturesOf(s)
      /\ CommittedRows(s)' = CommittedRows(s)
  BY <1>1, QuietRelease
<1>5. RowsOf(s)' = {}
  <2>1. \A r \in RowsOf(s)' : r.state \in {"reserved", "committed"}
    BY DEF RowsOf, TypeOK, DataOK, Reservation
  <2>2. \A r \in RowsOf(s)' : r \in OpenRows(s)' \/ r \in CommittedRows(s)'
    BY <2>1 DEF RowsOf, OpenRows, CommittedRows
  <2>. QED
    BY <1>3, <1>4, <2>2 DEF Holding, Spent
<1>6. PhaseOf(s)' = PhaseOf(s) /\ Seen(s)' = FALSE
  BY <1>3, <1>4 DEF PhaseOf, Seen
<1>7. OrderOf(s)' = Order(PhaseOf(s)', "free", None, 0, Seen(s)')
  BY <1>5 DEF Shapes
<1>8. /\ OrderOf(s).phase = PhaseOf(s) /\ PhaseOf(s) \in {"open", "paying"}
      /\ OrderOf(s).money = "held" /\ ~OrderOf(s).paid
  BY <1>2, <1>3, PhaseIs, OrderReads
<1>9. OrderOf(s)' = Order(OrderOf(s).phase, "free", None, 0, FALSE)
  BY <1>6, <1>7, <1>8
<1>. QED
  BY <1>4, <1>8, <1>9, OthersKeep, GivesBackOrder

\* The first capture on record pays the order; a failed payment or a second
\* capture does nothing to it.
LEMMA RecordOrders ==
    ASSUME TypeOK, TypeOK', SoloInv, Shapes, Shapes',
           NEW t \in Threads, NEW p \in thr[t].todo, RecordPayment(t, p)
    PROVE  Promise!Next \/ OrderTable' = OrderTable
<1>1. thr[t].at = "record" /\ UNCHANGED <<sessions, reservations, links>>
  BY DEF RecordPayment, At, mandateVars
<1>. PICK s \in SessionIds : s = thr[t].s
  BY <1>1, AtWork
<1>2. Status(s) = PENDING /\ Holding(s)
  BY <1>1, AtWork DEF Busy
<1>3. /\ \A x \in SessionIds : x # s => Quiet(x)
      /\ Status(s)' = Status(s) /\ RowsOf(s)' = RowsOf(s)
  BY <1>1, QuietRecord DEF RowsOf
<1>4. CapturesOf(s)' = CapturesOf(s) \/ Seen(s)'
  BY RecordsOne DEF Seen
<1>5. CASE CapturesOf(s)' = CapturesOf(s)
  <2>1. OrderOf(s)' = OrderOf(s)
    BY <1>3, <1>5, OrderStays DEF Still
  <2>. QED
    BY <1>3, <2>1, StillOrders
<1>6. CASE Seen(s)'
  <2>1. PICK r \in OpenRows(s) : TRUE
    BY <1>2 DEF Holding
  <2>2. r \in RowsOf(s) /\ r \in RowsOf(s)'
    BY <1>3, <2>1 DEF OpenRows, RowsOf
  <2>3. /\ OrderOf(s) = Order(PhaseOf(s), MoneyOf(r), r.mandate, r.amount, Seen(s))
        /\ OrderOf(s)' = Order(PhaseOf(s)', MoneyOf(r), r.mandate, r.amount, Seen(s)')
    BY <2>2 DEF Shapes
  <2>4. PhaseOf(s)' = PhaseOf(s) /\ Seen(s)' = TRUE
    BY <1>3, <1>6 DEF PhaseOf, Seen
  <2>5. OrderOf(s)' = [OrderOf(s) EXCEPT !.paid = TRUE]
    <3>1. PICK y : y = TRUE
      OBVIOUS
    <3>2. OrderOf(s)' = Order(PhaseOf(s), MoneyOf(r), r.mandate, r.amount, y)
      BY <2>3, <2>4, <3>1
    <3>3. OrderOf(s)' = [OrderOf(s) EXCEPT !.paid = y]
      BY <2>3, <3>2 DEF Order
    <3>. QED
      BY <3>1, <3>3, Zenon
  <2>6. OrderOf(s).phase = "paying" /\ OrderOf(s).money = "held"
    BY <1>2, PhaseIs, OrderReads
  <2>. QED
    BY <1>3, <2>5, <2>6, OthersKeep, PaysOrder
<1>. QED
  BY <1>4, <1>5, <1>6

-----------------------------------------------------------------------------
(* One reservation for each session, for good.                             *)

LEMMA OneRowNext ==
    ASSUME TypeOK, SoloInv, Books, OneRow, [Next]_vars
    PROVE  OneRow'
<1>1. CASE UNCHANGED reservations
  BY <1>1 DEF OneRow, RowsOf
<1>2. ASSUME NEW t \in Threads, ReserveStep(t) PROVE OneRow'
  <2>1. thr[t].at = "reserve" /\ thr[t].s \in SessionIds /\ Untouched(thr[t].s)
    BY <1>2, AtWork DEF ReserveStep, At, Busy, EditPlaces
  <2>. DEFINE row == [id |-> CHOOSE i \in FreshIds : TRUE, session |-> thr[t].s,
                      mandate |-> thr[t].dec.mandate, amount |-> thr[t].dec.total,
                      day |-> today, state |-> "reserved"]
  <2>2. reservations' = reservations \cup {row} /\ row.session = thr[t].s
    BY <1>2 DEF ReserveStep, Reserve
  <2>. HIDE DEF row
  <2>3. RowsOf(thr[t].s) = {}
    BY <2>1, RowsAre DEF Untouched, Clean, Holding, Spent
  <2>. QED
    BY <2>2, <2>3 DEF OneRow, RowsOf
<1>3. ASSUME NEW t \in Threads, CommitStep(t) PROVE OneRow'
  <2>1. Commit(thr[t].s)
    BY <1>3 DEF CommitStep
  <2>2. ASSUME NEW x \in SessionIds, NEW p \in reservations', NEW q \in reservations',
               p.session = x, q.session = x
        PROVE  p = q
    <3>1. PICK r \in reservations : SameButState(r, p)
      BY <2>1, CommitTurns
    <3>2. PICK z \in reservations : SameButState(z, q)
      BY <2>1, CommitTurns
    <3>3. r = z
      BY <2>2, <3>1, <3>2 DEF SameButState, OneRow, RowsOf
    <3>. QED
      BY <2>1, <3>1, <3>2, <3>3, CommitTurns DEF Books
  <2>. QED
    BY <2>2 DEF OneRow, RowsOf
<1>4. ASSUME NEW t \in Threads, ReleaseStep(t) PROVE OneRow'
  BY <1>4 DEF ReleaseStep, Release, OneRow, RowsOf
<1>5. ASSUME NEW t \in Threads, RecordRefundStep(t) PROVE OneRow'
  BY <1>1, <1>5 DEF RecordRefundStep, RecordRefund
<1>. QED
  BY <1>1, <1>2, <1>3, <1>4, <1>5, MoneyKinds DEF MovesMoney

LEMMA OneRowAlways ==
    ASSUME NeverKilled
    PROVE  Spec /\ []Apart /\ []OneReserver => []OneRow
<1>1. Init => OneRow
  BY DEF Init, MandatesInit, OneRow, RowsOf
<1>2. TypeOK /\ SoloInv /\ CapInv /\ OneRow /\ [Next]_vars => OneRow'
  BY OneRowNext DEF CapInv
<1>. QED
  BY <1>1, <1>2, TypeCorrect, SoloAlways, CapsAlways, PTL DEF Spec

LEMMA ShapesAlways ==
    ASSUME NeverKilled, SteadyPrices
    PROVE  Spec /\ []Apart /\ []OneReserver => []Shapes
<1>1. TypeOK /\ OneRow /\ AmountInv /\ OwnInv => Shapes
  BY ShapesHold
<1>. QED
  BY <1>1, TypeCorrect, OneRowAlways, AmountAlways, OwnAlways, PTL

-----------------------------------------------------------------------------
(* The refinement.                                                         *)

LEMMA PromiseInit == Init => Promise!Init
<1>. SUFFICES ASSUME Init PROVE Promise!Init
  OBVIOUS
<1>1. ASSUME NEW s \in SessionIds
      PROVE  OrderOf(s) = Promise!With("absent", Promise!NoMoney, FALSE)
  <2>1. RowsOf(s) = {} /\ CapturesOf(s) = {} /\ Status(s) = None
    BY DEF Init, MandatesInit, RowsOf, CapturesOf, Status, Exists
  <2>2. PhaseOf(s) = "absent"
    BY <2>1, PhaseIs
  <2>3. (CapturesOf(s) # {}) = FALSE
    BY <2>1
  <2>4. OrderOf(s) = [phase |-> PhaseOf(s), money |-> "free", budget |-> None, amount |-> 0,
                      paid |-> CapturesOf(s) # {}]
    BY <2>1 DEF OrderOf
  <2>. QED
    BY <2>2, <2>3, <2>4 DEF Promise!With, Promise!NoMoney
<1>. QED
  BY <1>1 DEF Promise!Init

LEMMA PromiseNext ==
    ASSUME NoRefunds, TypeOK, TypeOK', SoloInv, CapInv, Shapes, Shapes', [Next]_vars
    PROVE  Promise!Next \/ OrderTable' = OrderTable
<1>1. CASE UNCHANGED <<sessions, payments, reservations, links>>
  BY <1>1, QuietTables, QuietOrders
<1>2. CASE Merchant \/ Clock \/ Customer
  BY <1>2, WorldOrders
<1>3. ASSUME NEW t \in Threads, Begin(t) PROVE Promise!Next \/ OrderTable' = OrderTable
  BY <1>3, BeginKinds, CreateOpens, WorldOrders
<1>4. ASSUME NEW t \in Threads, Continue(t) PROVE Promise!Next \/ OrderTable' = OrderTable
  <2>1. \/ OnlyThread \/ WritesRow(t) \/ MovesMoney(t) \/ RecordReview(t)
        \/ \E p \in thr[t].todo : RecordPayment(t, p)
        \/ FirstLink(t) \/ SecondLink(t) \/ CancelQuietly(t) \/ CancelLinkStep(t)
        \/ CancelLinkLost(t) \/ RefundStep(t) \/ RefundLost(t)
    BY <1>4 DEF Continue, WritesRow, MovesMoney, Reevaluate, ReserveRaises, FirstLinkFails,
       PollStep, PollFails, RecordRaises, FinishPaid, NothingNew, FailedAttempt, CommitRaises,
       SecondLinkFails, ReadOpenRow, ReleaseRaises, CancelLinkRefused, FinalPoll, RefundFails,
       RecordRefundRaises
  <2>2. CASE MovesMoney(t)
    <3>1. RecordRefundStep(t) => UNCHANGED <<sessions, payments, reservations, links>>
      BY DEF RecordRefundStep, RecordRefund, OnlyMandates, rowVars
    <3>. QED
      BY <1>1, <2>2, <3>1, ReserveOrders, CommitOrders, ReleaseOrders DEF MovesMoney
  <2>. QED
    BY <2>1, <2>2, WriteOrders, RecordOrders, LinkOrders, WorldOrders
<1>. QED
  BY <1>1, <1>2, <1>3, <1>4 DEF Next, vars, mandateVars, Crash

\* Every step of the handlers, of the provider and of the customer is a step of
\* an order or leaves the orders alone: money is held before a payment is asked
\* for and within the budget, it is spent once exactly that money was paid, an
\* order that was paid is never canceled, and no order goes back.  Handlers may
\* overlap as long as they work on different sessions and no two of them reserve
\* on one mandate at once: the first is what an order needs to stay one order,
\* the second what the sum over the orders of a budget needs.
THEOREM PromiseIsKept ==
    ASSUME NeverKilled, SteadyPrices, NoRefunds
    PROVE  Spec /\ []Apart /\ []OneReserver => KeepsPromise
<1>1. Init => Promise!Init
  BY PromiseInit
<1>2. /\ TypeOK /\ TypeOK' /\ SoloInv /\ CapInv /\ Shapes /\ Shapes' /\ [Next]_vars
      => [Promise!Next]_([s \in SessionIds |-> OrderOf(s)])
  BY PromiseNext DEF OrderTable
<1>. QED
  BY <1>1, <1>2, TypeCorrect, SoloAlways, CapsAlways, ShapesAlways, PTL
     DEF Spec, KeepsPromise, Promise!Spec
=============================================================================
