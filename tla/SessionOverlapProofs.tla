------------------------ MODULE SessionOverlapProofs ------------------------
(***************************************************************************)
(* What no overlap of handlers and no crash can do: leave a handler        *)
(* without what its next step needs, complete a session that was not paid, *)
(* record the payment of another session, hold two open reservations, take *)
(* back money that was committed, or put a commit or a refund on record    *)
(* that no capture or no refund of the provider backs.                     *)
(***************************************************************************)
EXTENDS SessionProperties, GateProofs, SequenceTheorems

-----------------------------------------------------------------------------
(* Types: what each handler carries at each place it can be at.            *)

LEMMA EvaluateType ==
    ASSUME NEW gi, gi.items \in Items,
           WellFormed(gi) /\ ItemsKnown(gi) => Total(gi) \in Nat
    PROVE  /\ Evaluate(gi).verdict \in {"ALLOW", "REVIEW", "DENY"}
           /\ Evaluate(gi).items \in Items
           /\ Evaluate(gi).total \in Nat
           /\ Evaluate(gi).verdict = "ALLOW" => MandateActive(gi)
<1>1. Priced(gi) => Total(gi) \in Nat
  BY FailedIs DEF Priced
<1>2. Failed(gi) = {} => MandateActive(gi)
  BY FailedIs
<1>. QED
  BY <1>1, <1>2 DEF Evaluate, Verdict, Items

LEMMA DecideType ==
    ASSUME TypeOK, NEW s, NEW items \in Items, NEW status, NEW mode, NEW x, NEW seen
    PROVE  /\ Decide(s, items, status, mode, x, seen) \in Decision
           /\ Decide(s, items, status, mode, x, seen).verdict = "ALLOW"
                => Decide(s, items, status, mode, x, seen).mandate \in MandateIds
<1>. DEFINE m == ActiveMandate
            gi == [agent |-> "active",
                mandate |-> IF m = None THEN None ELSE Terms[m],
                policy |-> shop.policy, catalog |-> shop.catalog,
                items |-> items, now |-> today, status |-> status,
                mode |-> mode, approved |-> Approved(s, items, seen),
                spentTotal |-> IF m = None THEN 0 ELSE SpentTotal(m, x),
                spentToday |-> IF m = None THEN 0 ELSE SpentToday(m, x)]
            d == Evaluate(gi)
<1>1. m \in MandateOrNone /\ (m # None => m \in MandateIds)
  BY DEF TypeOK, DataOK, ActiveMandate, MandateOrNone
<1>2. gi.items = items /\ gi.catalog = shop.catalog /\ (m = None => gi.mandate = None)
  OBVIOUS
<1>3. WellFormed(gi) /\ ItemsKnown(gi) => Total(gi) \in Nat
  <2>. SUFFICES ASSUME WellFormed(gi), ItemsKnown(gi)
                PROVE  CartTotal(shop.catalog, items) \in Nat
    BY <1>2 DEF Total
  <2>1. IsFiniteSet(DOMAIN items) /\ \A i \in DOMAIN items : items[i].quantity \in Int
    BY CartAssumption, FS_Interval, FS_EmptySet DEF Items
  <2>2. \A i \in DOMAIN items : items[i].quantity >= 1 /\ items[i].id \in DOMAIN shop.catalog
    BY <1>2 DEF ItemsKnown, KnownLines, WellFormed
  <2>3. \A p \in DOMAIN shop.catalog : shop.catalog[p].price \in Nat
    BY PriceAssumption DEF TypeOK, DataOK
  <2>4. \A i \in DOMAIN items : /\ shop.catalog[items[i].id].price \in Nat
                                /\ items[i].quantity \in Nat
    BY <2>1, <2>2, <2>3
  <2>. QED
    BY <2>1, <2>4, CartTotalIsNat
<1>4. MandateActive(gi) => m \in MandateIds
  BY <1>1, <1>2 DEF MandateActive
<1>. HIDE DEF gi
<1>5. /\ d.verdict \in {"ALLOW", "REVIEW", "DENY"} /\ d.items \in Items
      /\ d.total \in Nat /\ (d.verdict = "ALLOW" => MandateActive(gi))
  BY <1>2, <1>3, EvaluateType
<1>6. Decide(s, items, status, mode, x, seen) =
        [verdict |-> d.verdict, items |-> d.items, total |-> d.total, mandate |-> m]
  BY DEF Decide, gi
<1>. HIDE DEF d, m
<1>. QED
  BY <1>1, <1>4, <1>5, <1>6 DEF Decision

-----------------------------------------------------------------------------
LEMMA UpdateElement ==
    ASSUME NEW S, NEW q \in Seq(S), NEW l, NEW e, l \in DOMAIN q => e \in S
    PROVE  /\ [q EXCEPT ![l] = e] \in Seq(S)
           /\ DOMAIN [q EXCEPT ![l] = e] = DOMAIN q
           /\ Len([q EXCEPT ![l] = e]) = Len(q)
<1>1. CASE l \in DOMAIN q
  BY <1>1, ExceptSeq
<1>2. CASE l \notin DOMAIN q
  <2>1. [q EXCEPT ![l] = e] = q
    BY <1>2
  <2>. QED
    BY <2>1
<1>. QED
  BY <1>1, <1>2

\* What a step of thread t has to keep of the frames: its own.
LEMMA OneFrame ==
    ASSUME TypeOK, NEW t \in Threads, NEW f, thr' = [thr EXCEPT ![t] = f],
           f \in Frame, thr'[t] = f => FrameOK(thr[t])',
           LinkIds \subseteq LinkIds',
           \A s \in SessionIds : Exists(s) => Exists(s)'
    PROVE  FramesOK'
<1>1. thr' \in [Threads -> Frame] /\ FrameOK(thr[t])'
  BY DEF TypeOK, FramesOK
<1>2. ASSUME NEW u \in Threads, u # t PROVE FrameOK(thr[u])'
  <2>1. thr'[u] = thr[u] /\ FrameOK(thr[u])
    BY <1>2 DEF TypeOK, FramesOK
  <2>. QED
    BY <2>1 DEF FrameOK
<1>. QED
  BY <1>1, <1>2 DEF FramesOK

\* A step that changes the frame of t only.
LEMMA ThreadStep ==
    ASSUME TypeOK, NEW t \in Threads, NEW f, thr' = [thr EXCEPT ![t] = f],
           OnlyThread, f \in Frame, thr'[t] = f => FrameOK(thr[t])'
    PROVE  TypeOK'
<1>1. LinkIds' = LinkIds /\ \A s \in SessionIds : Exists(s)' <=> Exists(s)
  BY DEF OnlyThread, rowVars, LinkIds, Exists
<1>2. FramesOK'
  BY <1>1, OneFrame
<1>. QED
  BY <1>1, <1>2 DEF TypeOK, DataOK, OnlyThread, rowVars, shopVars, mandateVars, Status

\* A thread that stops, and one that goes on to a place that needs no more
\* than the place it comes from.
LEMMA IdleType == Idle \in Frame /\ FrameOK(Idle)
  BY DEF Idle, Begun, Frame, FrameOK, Places, DecidedPlaces, MoneyPlaces, RowPlaces, PollPlaces

LEMMA DoneFrame ==
    ASSUME TypeOK, NEW t \in Threads, Done(t), LinkIds \subseteq LinkIds',
           \A s \in SessionIds : Exists(s) => Exists(s)'
    PROVE  FramesOK'
<1>1. thr' = [thr EXCEPT ![t] = Idle]
  BY DEF Done, Becomes
<1>2. thr'[t] = Idle => FrameOK(thr[t])'
  BY DEF FrameOK, Idle, Begun, DecidedPlaces, MoneyPlaces, RowPlaces, PollPlaces
<1>. QED
  BY <1>1, <1>2, IdleType, OneFrame

LEMMA ThreadDone ==
    ASSUME TypeOK, NEW t \in Threads, Done(t), OnlyThread
    PROVE  TypeOK'
<1>1. thr' = [thr EXCEPT ![t] = Idle]
  BY DEF Done, Becomes
<1>2. thr'[t] = Idle => FrameOK(thr[t])'
  BY DEF FrameOK, Idle, Begun, DecidedPlaces, MoneyPlaces, RowPlaces, PollPlaces
<1>. QED
  BY <1>1, <1>2, IdleType, ThreadStep

\* A step of t that writes the row of one session.
LEMMA RowStep ==
    ASSUME TypeOK, NEW s \in SessionIds, NEW row \in Row, SetRow(s, row),
           row.status = PENDING => row.link \in LinkIds, OnlySessions
    PROVE  /\ DataOK'
           /\ LinkIds' = LinkIds
           /\ \A x \in SessionIds : Exists(x) => Exists(x)'
<1>1. sessions' = [sessions EXCEPT ![s] = row] /\ row # None
  BY RowAssumption DEF SetRow
<1>2. LinkIds' = LinkIds
  BY DEF OnlySessions, LinkIds
<1>3. \A x \in SessionIds : Exists(x) => Exists(x)'
  BY <1>1 DEF TypeOK, DataOK, Exists
<1>4. sessions' \in [SessionIds -> Row \cup {None}]
  BY <1>1 DEF TypeOK, DataOK
<1>5. \A x \in SessionIds : Status(x)' = PENDING => sessions'[x].link \in LinkIds'
  BY <1>1, <1>2 DEF TypeOK, DataOK, Status, Exists
<1>. QED
  BY <1>2, <1>3, <1>4, <1>5 DEF TypeOK, DataOK, OnlySessions, shopVars, mandateVars

\* The fields a step sets, one at a time, keep a frame a frame.
LEMMA FrameFields ==
    ASSUME NEW f \in Frame
    PROVE  /\ \A v \in Places : [f EXCEPT !.at = v] \in Frame
           /\ \A v \in Row \cup {None} : [f EXCEPT !.row = v] \in Frame
           /\ \A v \in Decision \cup RefundRequest \cup {None} : [f EXCEPT !.dec = v] \in Frame
           /\ \A v \in SUBSET Payment : [f EXCEPT !.news = v] \in Frame
           /\ \A v \in SUBSET Payment : [f EXCEPT !.todo = v] \in Frame
           /\ \A v \in BOOLEAN : [f EXCEPT !.dead = v] \in Frame
           /\ \A v \in Nat : [f EXCEPT !.link = v] \in Frame
  BY DEF Frame

LEMMA PollType ==
    ASSUME TypeOK, NEW l \in LinkIds
    PROVE  Poll(l) \subseteq Payment
<1>1. ASSUME NEW k \in LinkIds PROVE PaymentsOf(k) \subseteq Payment
  <2>1. links \in Seq(Link) /\ k \in 1..Len(links)
    BY DEF TypeOK, DataOK, LinkIds
  <2>2. k \in Nat /\ links[k] \in Link
    BY <2>1, ElementOfSeq
  <2>. QED
    BY <2>2 DEF PaymentsOf, Payment, Captured, Link
<1>. QED
  BY <1>1 DEF Poll

LEMMA TypePoll ==
    ASSUME TypeOK, NEW t \in Threads, PollStep(t)
    PROVE  TypeOK'
<1>. DEFINE f == thr[t]
            news == Poll(f.row.link) \ {r.payment : r \in payments[f.s]}
            g == [f EXCEPT !.at = IF news = {} THEN "judge" ELSE "record",
                         !.news = news, !.todo = news,
                         !.dead = LinkDead(f.row.link)]
<1>1. f \in Frame /\ FrameOK(f) /\ f.at = "poll"
  BY DEF TypeOK, FramesOK, PollStep, At
<1>2. news \in SUBSET Payment
  <2>1. f.row.link \in LinkIds
    BY <1>1 DEF FrameOK, PollPlaces
  <2>. QED
    BY <2>1, PollType
<1>3. LinkDead(f.row.link) \in BOOLEAN
  BY DEF LinkDead
<1>4. thr' = [thr EXCEPT ![t] = g] /\ OnlyThread
  BY DEF PollStep, Becomes
<1>. HIDE DEF news
<1>5. g \in Frame
  <2>1. (IF news = {} THEN "judge" ELSE "record") \in Places
    BY DEF Places, RowPlaces
  <2>. QED
    BY <1>1, <1>2, <1>3, <2>1, FrameFields
<1>6. thr'[t] = g => FrameOK(thr[t])'
  BY <1>1, <1>4 DEF FrameOK, OnlyThread, rowVars, LinkIds, Exists, Frame, DecidedPlaces, MoneyPlaces, RowPlaces, PollPlaces
<1>. QED
  BY <1>4, <1>5, <1>6, ThreadStep

-----------------------------------------------------------------------------
(* Steps that only move a thread.                                          *)

USE DEF DecidedPlaces, MoneyPlaces, RowPlaces, PollPlaces, Places

\* A busy thread works for a session and its frame is one.
LEMMA Working ==
    ASSUME TypeOK, NEW t \in Threads
    PROVE  /\ thr[t] \in Frame /\ FrameOK(thr[t])
           /\ thr[t].at # "idle" => thr[t].s \in SessionIds /\ sessions[thr[t].s] \in Row
  BY DEF TypeOK, FramesOK, DataOK, FrameOK, Exists

LEMMA TypeStops ==
    ASSUME TypeOK, NEW t \in Threads,
           \/ ReserveRaises(t) \/ PollFails(t) \/ NothingNew(t) \/ CommitRaises(t)
           \/ ReleaseRaises(t) \/ RefundFails(t) \/ RecordRefundRaises(t)
           \/ \E p \in thr[t].todo : RecordRaises(t, p)
    PROVE  TypeOK'
  BY ThreadDone DEF ReserveRaises, PollFails, NothingNew, CommitRaises,
     ReleaseRaises, RefundFails, RecordRefundRaises, RecordRaises

LEMMA TypeGoesOn ==
    ASSUME TypeOK, NEW t \in Threads,
           FirstLinkFails(t) \/ FinishPaid(t) \/ CancelLinkRefused(t)
    PROVE  TypeOK'
<1>1. PICK p \in {"openRow", "commit", "complete", "finalPoll"} :
        /\ thr' = [thr EXCEPT ![t].at = p]
        /\ p = "finalPoll" => thr[t].at = "cancelLink"
        /\ thr[t].at # "idle"
  BY DEF FirstLinkFails, FinishPaid, CancelLinkRefused, GoTo, At
<1>2. OnlyThread
  BY DEF FirstLinkFails, FinishPaid, CancelLinkRefused
<1>. DEFINE g == [thr[t] EXCEPT !.at = p]
<1>3. g \in Frame
  BY Working DEF Frame
<1>4. thr'[t] = g => FrameOK(thr[t])'
  BY <1>1, <1>2, Working DEF FrameOK, OnlyThread, rowVars, LinkIds, Exists, Frame
<1>. QED
  BY <1>1, <1>2, <1>3, <1>4, ThreadStep

\* A handler that begins.
LEMMA TypeBegun ==
    ASSUME TypeOK, NEW t \in Threads, NEW op \in Handlers, NEW s \in SessionIds,
           NEW place \in Places, NEW row \in Row \cup {None},
           NEW dec \in Decision \cup RefundRequest \cup {None},
           FrameOK(Begun(op, s, place, row, dec)), OnlyThread,
           thr' = [thr EXCEPT ![t] = Begun(op, s, place, row, dec)]
    PROVE  TypeOK'
<1>1. Begun(op, s, place, row, dec) \in Frame
  BY DEF Begun, Frame
<1>2. thr'[t] = Begun(op, s, place, row, dec) => FrameOK(thr[t])'
  BY DEF Begun, FrameOK, OnlyThread, rowVars, LinkIds, Exists
<1>. QED
  BY <1>1, <1>2, ThreadStep

LEMMA TypeUpdateLoad ==
    ASSUME TypeOK, NEW t \in Threads, NEW s \in SessionIds, NEW items \in Carts,
           UpdateLoad(t, s, items)
    PROVE  TypeOK'
<1>2. PICK dec \in Decision :
        thr' = [thr EXCEPT ![t] = Begun("update", s, "store", None, dec)]
  BY DecideType DEF UpdateLoad, Becomes, Items
<1>1. Exists(s) /\ OnlyThread
  BY DEF UpdateLoad
<1>3. FrameOK(Begun("update", s, "store", None, dec))
  BY SMTT(30), <1>1, <1>2 DEF Begun, FrameOK
<1>. QED
  BY <1>1, <1>2, <1>3, TypeBegun DEF Handlers

LEMMA TypeReviewLoad ==
    ASSUME TypeOK, NEW t \in Threads, NEW s \in SessionIds, NEW op, ReviewLoad(t, s, op)
    PROVE  TypeOK'
<1>1. /\ Exists(s) /\ sessions[s] \in Row /\ OnlyThread /\ op \in {"approve", "decline"}
      /\ thr' = [thr EXCEPT ![t] = Begun(op, s, "review", sessions[s], None)]
  BY DEF ReviewLoad, Becomes, TypeOK, DataOK, Exists
<1>2. FrameOK(Begun(op, s, "review", sessions[s], None))
  BY SMTT(30), <1>1 DEF Begun, FrameOK
<1>. QED
  BY <1>1, <1>2, TypeBegun DEF Handlers

LEMMA TypeCompleteLoad ==
    ASSUME TypeOK, NEW t \in Threads, NEW s \in SessionIds, CompleteLoad(t, s)
    PROVE  TypeOK'
<1>0. PICK seen \in Shops :
        LET d == Decide(s, sessions[s].items, READY, "authoritative", None, seen)
        IN  Becomes(t, Begun("complete", s,
                             IF d.verdict = "ALLOW" THEN "reserve" ELSE "refuse", None, d))
  BY DEF CompleteLoad
<1>. DEFINE dec == Decide(s, sessions[s].items, READY, "authoritative", None, seen)
            place == IF dec.verdict = "ALLOW" THEN "reserve" ELSE "refuse"
<1>1. Exists(s) /\ sessions[s] \in Row /\ OnlyThread
  BY DEF CompleteLoad, TypeOK, DataOK, Exists
<1>2. dec \in Decision /\ (dec.verdict = "ALLOW" => dec.mandate \in MandateIds)
  <2>1. sessions[s].items \in Items
    BY <1>1 DEF Row
  <2>. QED
    BY <2>1, DecideType
<1>3. thr' = [thr EXCEPT ![t] = Begun("complete", s, place, None, dec)]
  BY <1>0 DEF Becomes
<1>4. place \in {"reserve", "refuse"} /\ (place = "reserve" => dec.verdict = "ALLOW")
  OBVIOUS
<1>. HIDE DEF dec, place
<1>5. FrameOK(Begun("complete", s, place, None, dec))
  BY SMTT(30), <1>1, <1>2, <1>4 DEF Begun, FrameOK
<1>. QED
  BY <1>1, <1>2, <1>3, <1>4, <1>5, TypeBegun DEF Handlers

LEMMA TypeReconcileLoad ==
    ASSUME TypeOK, NEW t \in Threads, NEW s \in SessionIds, ReconcileLoad(t, s)
    PROVE  TypeOK'
<1>1. /\ Exists(s) /\ sessions[s] \in Row /\ sessions[s].link \in LinkIds /\ OnlyThread
      /\ thr' = [thr EXCEPT ![t] = Begun("reconcile", s, "poll", sessions[s], None)]
  BY DEF ReconcileLoad, Becomes, TypeOK, DataOK, Exists, Status
<1>2. FrameOK(Begun("reconcile", s, "poll", sessions[s], None))
  BY SMTT(30), <1>1 DEF Begun, FrameOK
<1>. QED
  BY <1>1, <1>2, TypeBegun DEF Handlers

LEMMA TypeCancelLoad ==
    ASSUME TypeOK, NEW t \in Threads, NEW s \in SessionIds, CancelLoad(t, s)
    PROVE  TypeOK'
<1>1. PICK place \in {"cancelLink", "openRow"} :
        /\ place = "cancelLink" => sessions[s].status = PENDING
        /\ thr' = [thr EXCEPT ![t] = Begun("cancel", s, place, sessions[s], None)]
  BY DEF CancelLoad, Becomes
<1>2. /\ Exists(s) /\ sessions[s] \in Row /\ OnlyThread
      /\ place = "cancelLink" => sessions[s].link \in LinkIds
  BY <1>1 DEF CancelLoad, TypeOK, DataOK, Exists, Status
<1>3. FrameOK(Begun("cancel", s, place, sessions[s], None))
  BY <1>1, <1>2 DEF Begun, FrameOK
<1>. QED
  BY <1>1, <1>2, <1>3, TypeBegun DEF Handlers

LEMMA TypeRefundLoad ==
    ASSUME TypeOK, NEW t \in Threads, NEW s \in SessionIds, NEW ref \in References,
           NEW a \in RefundAmounts, RefundLoad(t, s, ref, a)
    PROVE  TypeOK'
<1>1. PICK cap \in CapturesOf(s) :
        thr' = [thr EXCEPT ![t] = Begun("refund", s, "refund", sessions[s],
                  [reference |-> ref, amount |-> a, link |-> cap.payment.link])]
  BY DEF RefundLoad, Becomes
<1>2. Exists(s) /\ sessions[s] \in Row /\ OnlyThread
  BY DEF RefundLoad, TypeOK, DataOK, Exists
<1>3. cap.payment.link \in Nat
  BY DEF CapturesOf, TypeOK, DataOK, Payment
<1>. DEFINE request == [reference |-> ref, amount |-> a, link |-> cap.payment.link]
<1>4. request \in RefundRequest
  BY <1>3 DEF RefundRequest
<1>5. thr' = [thr EXCEPT ![t] = Begun("refund", s, "refund", sessions[s], request)]
  BY <1>1
<1>. HIDE DEF request
<1>6. FrameOK(Begun("refund", s, "refund", sessions[s], request))
  BY <1>2, <1>4 DEF Begun, FrameOK
<1>. QED
  BY <1>2, <1>4, <1>5, <1>6, TypeBegun DEF Handlers

LEMMA TypeReevaluate ==
    ASSUME TypeOK, NEW t \in Threads, Reevaluate(t)
    PROVE  TypeOK'
<1>. DEFINE f == thr[t]
<1>1. f \in Frame /\ FrameOK(f) /\ f.at = "reevaluate" /\ OnlyThread
  BY Working DEF Reevaluate, At
<1>2. PICK dec \in Decision : thr' = [thr EXCEPT ![t] = [f EXCEPT !.at = "store", !.dec = dec]]
  BY <1>1, DecideType DEF FrameOK, Row, Reevaluate, Becomes
<1>. DEFINE g == [f EXCEPT !.at = "store", !.dec = dec]
<1>3. thr' = [thr EXCEPT ![t] = g]
  BY <1>2
<1>4. g \in Frame
  BY <1>1, <1>2, FrameFields
<1>5. thr'[t] = g => FrameOK(thr[t])'
  BY <1>1, <1>2 DEF FrameOK, OnlyThread, rowVars, LinkIds, Exists, Frame
<1>. QED
  BY <1>1, <1>3, <1>4, <1>5, ThreadStep

LEMMA TypeFailedAttempt ==
    ASSUME TypeOK, NEW t \in Threads, FailedAttempt(t)
    PROVE  TypeOK'
<1>. DEFINE f == thr[t]
            row == sessions[f.s]
<1>0. PICK seen \in Shops :
        LET d == Decide(f.s, row.items, PENDING, "retry", f.s, seen)
            retry == row.attempt < MAX_ATTEMPTS /\ d.verdict = "ALLOW"
        IN  Becomes(t, [f EXCEPT !.at = IF retry THEN "cancelOld" ELSE "abandon",
                                 !.row = row, !.dec = IF retry THEN d ELSE None,
                                 !.news = {}, !.dead = FALSE])
  BY DEF FailedAttempt
<1>. DEFINE d == Decide(f.s, row.items, PENDING, "retry", f.s, seen)
            retry == row.attempt < MAX_ATTEMPTS /\ d.verdict = "ALLOW"
            place == IF retry THEN "cancelOld" ELSE "abandon"
            dec == IF retry THEN d ELSE None
            g == [f EXCEPT !.at = place, !.row = row, !.dec = dec,
                           !.news = {}, !.dead = FALSE]
<1>1. f \in Frame /\ FrameOK(f) /\ f.at = "judge" /\ row \in Row /\ OnlyThread
  BY Working DEF FailedAttempt, At
<1>2. d \in Decision /\ (d.verdict = "ALLOW" => d.mandate \in MandateIds)
  <2>1. row.items \in Items
    BY <1>1 DEF Row
  <2>. QED
    BY <2>1, DecideType
<1>3. thr' = [thr EXCEPT ![t] = g]
  BY <1>0 DEF Becomes
<1>4. /\ place \in {"cancelOld", "abandon"} /\ dec \in Decision \cup {None}
      /\ place = "cancelOld" =>
           /\ dec \in Decision /\ dec.verdict = "ALLOW" /\ dec.mandate \in MandateIds
           /\ row.attempt < MAX_ATTEMPTS
  <2>. HIDE DEF d, row
  <2>. QED
    BY <1>2
<1>. HIDE DEF d, dec, place, row
<1>5. g \in Frame
  BY <1>1, <1>4, FrameFields
<1>6. thr'[t] = g => FrameOK(thr[t])'
  BY <1>1, <1>4 DEF FrameOK, OnlyThread, rowVars, LinkIds, Exists, Frame
<1>. QED
  BY <1>1, <1>3, <1>5, <1>6, ThreadStep

LEMMA TypeSecondLinkFails ==
    ASSUME TypeOK, NEW t \in Threads, SecondLinkFails(t)
    PROVE  TypeOK'
<1>. DEFINE g == [thr[t] EXCEPT !.at = "abandon", !.row = sessions[thr[t].s]]
<1>1. /\ thr[t].at # "idle" /\ OnlyThread
      /\ thr' = [thr EXCEPT ![t] = g]
  BY DEF SecondLinkFails, At, Becomes
<1>2. g \in Frame
  BY ZenonT(40), <1>1, Working DEF Frame
<1>3. thr'[t] = g => FrameOK(thr[t])'
  BY <1>1, Working DEF FrameOK, OnlyThread, rowVars, LinkIds, Exists, Frame
<1>. QED
  BY <1>1, <1>2, <1>3, ThreadStep

\* What follows a release needs nothing but the session.
LEMMA AfterReleaseType ==
    ASSUME NEW f \in Frame, FrameOK(f), f.at # "idle"
    PROVE  AfterRelease(f) \in Frame /\ FrameOK(AfterRelease(f))
<1>1. CASE f.op = "complete"
  BY <1>1, IdleType DEF AfterRelease
<1>2. CASE f.op # "complete"
  BY <1>2 DEF AfterRelease, Frame, FrameOK
<1>. QED
  BY <1>1, <1>2

LEMMA TypeReadOpenRow ==
    ASSUME TypeOK, NEW t \in Threads, ReadOpenRow(t)
    PROVE  TypeOK'
<1>1. thr[t] \in Frame /\ FrameOK(thr[t]) /\ thr[t].at = "openRow" /\ OnlyThread
  BY Working DEF ReadOpenRow, At
<1>2. CASE OpenRows(thr[t].s) # {}
  <2>. DEFINE g == [thr[t] EXCEPT !.at = "release"]
  <2>1. thr' = [thr EXCEPT ![t] = g]
    BY <1>2 DEF ReadOpenRow, Becomes
  <2>2. g \in Frame
    BY <1>1, FrameFields
  <2>3. thr'[t] = g => FrameOK(thr[t])'
    BY <1>1 DEF FrameOK, OnlyThread, rowVars, LinkIds, Exists, Frame
  <2>. QED
    BY <1>1, <2>1, <2>2, <2>3, ThreadStep
<1>3. CASE OpenRows(thr[t].s) = {}
  <2>. DEFINE g == AfterRelease(thr[t])
  <2>1. thr' = [thr EXCEPT ![t] = g]
    BY <1>3 DEF ReadOpenRow, Becomes
  <2>2. g \in Frame /\ FrameOK(g)
    BY <1>1, AfterReleaseType
  <2>. HIDE DEF g
  <2>3. thr'[t] = g => FrameOK(thr[t])'
    BY <1>1, <2>2 DEF FrameOK, OnlyThread, rowVars, LinkIds, Exists
  <2>. QED
    BY <1>1, <2>1, <2>2, <2>3, ThreadStep
<1>. QED
  BY <1>2, <1>3

LEMMA TypeFinalPoll ==
    ASSUME TypeOK, NEW t \in Threads, FinalPoll(t)
    PROVE  TypeOK'
<1>1. thr[t] \in Frame /\ FrameOK(thr[t]) /\ thr[t].at = "finalPoll" /\ OnlyThread
  BY Working DEF FinalPoll, At
<1>2. CASE Done(t)
  BY <1>1, <1>2, ThreadDone
<1>3. CASE \E p \in Poll(thr[t].row.link) :
             Becomes(t, [thr[t] EXCEPT !.at = "record", !.news = {p}, !.todo = {p}])
  <2>1. PICK p \in Poll(thr[t].row.link) :
             Becomes(t, [thr[t] EXCEPT !.at = "record", !.news = {p}, !.todo = {p}])
    BY <1>3
  <2>2. p \in Payment
    BY <1>1, PollType DEF FrameOK
  <2>. DEFINE g == [thr[t] EXCEPT !.at = "record", !.news = {p}, !.todo = {p}]
  <2>3. thr' = [thr EXCEPT ![t] = g]
    BY <2>1 DEF Becomes
  <2>4. g \in Frame
    BY <1>1, <2>2, FrameFields
  <2>5. thr'[t] = g => FrameOK(thr[t])'
    BY <1>1 DEF FrameOK, OnlyThread, rowVars, LinkIds, Exists, Frame
  <2>. QED
    BY <1>1, <2>3, <2>4, <2>5, ThreadStep
<1>. QED
  BY <1>2, <1>3 DEF FinalPoll

-----------------------------------------------------------------------------
(* Steps that write the row of the session the thread works for.           *)

LEMMA StatusForType ==
    ASSUME NEW d \in Decision
    PROVE  StatusFor(d) \in EDITABLE
<1>1. d.verdict \in {"ALLOW", "REVIEW", "DENY"}
  BY DEF Decision
<1>. QED
  BY <1>1 DEF StatusFor, EDITABLE

WritesRow(t) == Store(t) \/ Refuse(t) \/ SetPending(t) \/ SetRetried(t)
                \/ SetCompleted(t) \/ SetCanceled(t)

\* What is known of a row that thread t writes.
Written(t, row) ==
    LET old == sessions[thr[t].s]
    IN  /\ SetRow(thr[t].s, row)
        /\ row.status = PENDING => row.link \in LinkIds
        /\ row.status = COMPLETED => thr[t].at = "complete" \/ old.status = COMPLETED
        /\ \/ row.link = old.link
           \/ row.link = thr[t].link /\ thr[t].at \in {"pending", "retried"}

LEMMA StoreRow ==
    ASSUME TypeOK, NEW t \in Threads, Store(t)
    PROVE  \E row \in Row : Written(t, row)
<1>. DEFINE d == thr[t].dec
            row == [sessions[thr[t].s] EXCEPT !.status = StatusFor(d), !.items = d.items,
                      !.total = d.total, !.mandate = d.mandate]
<1>1. /\ thr[t].s \in SessionIds /\ sessions[thr[t].s] \in Row
      /\ d \in Decision /\ SetRow(thr[t].s, row)
  BY Working DEF Store, At, FrameOK
<1>2. row \in Row /\ row.status \in EDITABLE /\ row.link = sessions[thr[t].s].link
  BY <1>1, StatusForType DEF Row, Decision, Statuses
<1>. HIDE DEF row
<1>. QED
  BY <1>1, <1>2 DEF Written, EDITABLE, NOT_READY, REQUIRES_REVIEW, READY, PENDING, COMPLETED

LEMMA RefuseRow ==
    ASSUME TypeOK, NEW t \in Threads, Refuse(t)
    PROVE  \E row \in Row : Written(t, row)
<1>. DEFINE status == IF thr[t].op = "complete" THEN StatusFor(thr[t].dec) ELSE NOT_READY
            row == [sessions[thr[t].s] EXCEPT !.status = status]
<1>1. /\ thr[t].s \in SessionIds /\ sessions[thr[t].s] \in Row
      /\ SetRow(thr[t].s, row)
  BY Working DEF Refuse, At
<1>2. status \in EDITABLE
  BY Working, StatusForType DEF Refuse, At, FrameOK, EDITABLE
<1>. HIDE DEF status
<1>3. row \in Row /\ row.status \in EDITABLE /\ row.link = sessions[thr[t].s].link
  BY <1>1, <1>2 DEF Row, Statuses
<1>. HIDE DEF row
<1>. QED
  BY <1>1, <1>3 DEF Written, EDITABLE, NOT_READY, REQUIRES_REVIEW, READY, PENDING, COMPLETED

LEMMA PendingRow ==
    ASSUME TypeOK, NEW t \in Threads, SetPending(t)
    PROVE  \E row \in Row : Written(t, row)
<1>. DEFINE row == [sessions[thr[t].s] EXCEPT !.status = PENDING, !.attempt = 1,
                                              !.link = thr[t].link]
<1>1. /\ thr[t].s \in SessionIds /\ sessions[thr[t].s] \in Row /\ thr[t].link \in LinkIds
      /\ thr[t].at = "pending" /\ SetRow(thr[t].s, row)
  BY Working DEF SetPending, At, FrameOK
<1>2. row \in Row /\ row.link = thr[t].link /\ row.status = PENDING
  <2>1. thr[t].link \in Nat
    BY Working DEF Frame
  <2>2. 1 \in 0..MAX_ATTEMPTS /\ PENDING \in Statuses
    BY DEF MAX_ATTEMPTS, Statuses
  <2>. QED
    BY <1>1, <2>1, <2>2 DEF Row
<1>. HIDE DEF row
<1>. QED
  BY <1>1, <1>2 DEF Written, PENDING, COMPLETED

LEMMA RetriedRow ==
    ASSUME TypeOK, NEW t \in Threads, SetRetried(t)
    PROVE  \E row \in Row : Written(t, row)
<1>. DEFINE row == [sessions[thr[t].s] EXCEPT !.attempt = thr[t].row.attempt + 1,
                                              !.link = thr[t].link]
<1>1. /\ thr[t].s \in SessionIds /\ sessions[thr[t].s] \in Row /\ thr[t].link \in LinkIds
      /\ thr[t].row.attempt < MAX_ATTEMPTS /\ thr[t].row \in Row
      /\ thr[t].at = "retried" /\ SetRow(thr[t].s, row)
  BY Working DEF SetRetried, At, FrameOK
<1>2. row \in Row /\ row.link = thr[t].link /\ row.status = sessions[thr[t].s].status
  <2>1. thr[t].link \in Nat
    BY Working DEF Frame
  <2>2. thr[t].row.attempt + 1 \in 0..MAX_ATTEMPTS
    BY <1>1 DEF Row, MAX_ATTEMPTS
  <2>. QED
    BY <1>1, <2>1, <2>2 DEF Row
<1>. HIDE DEF row
<1>. QED
  BY <1>1, <1>2 DEF Written

LEMMA CompletedRow ==
    ASSUME TypeOK, NEW t \in Threads, SetCompleted(t)
    PROVE  \E row \in Row : Written(t, row)
<1>. DEFINE row == [sessions[thr[t].s] EXCEPT !.status = COMPLETED]
<1>1. /\ thr[t].s \in SessionIds /\ sessions[thr[t].s] \in Row
      /\ thr[t].at = "complete" /\ SetRow(thr[t].s, row)
  BY Working DEF SetCompleted, At
<1>2. row \in Row /\ row.link = sessions[thr[t].s].link /\ row.status = COMPLETED
  BY <1>1 DEF Row, Statuses, TERMINAL
<1>. HIDE DEF row
<1>. QED
  BY <1>1, <1>2 DEF Written, PENDING, COMPLETED

LEMMA CanceledRow ==
    ASSUME TypeOK, NEW t \in Threads, SetCanceled(t)
    PROVE  \E row \in Row : Written(t, row)
<1>. DEFINE row == [sessions[thr[t].s] EXCEPT !.status = CANCELED]
<1>1. /\ thr[t].s \in SessionIds /\ sessions[thr[t].s] \in Row
      /\ SetRow(thr[t].s, row)
  BY Working DEF SetCanceled, At
<1>2. row \in Row /\ row.link = sessions[thr[t].s].link /\ row.status = CANCELED
  BY <1>1 DEF Row, Statuses, TERMINAL
<1>. HIDE DEF row
<1>. QED
  BY <1>1, <1>2 DEF Written, PENDING, COMPLETED, CANCELED

LEMMA WrittenRow ==
    ASSUME TypeOK, NEW t \in Threads, WritesRow(t)
    PROVE  /\ thr[t].s \in SessionIds /\ sessions[thr[t].s] \in Row
           /\ \E row \in Row : Written(t, row)
<1>1. thr[t].at # "idle"
  BY DEF WritesRow, Store, Refuse, SetPending, SetRetried, SetCompleted, SetCanceled, At
<1>. QED
  BY <1>1, Working, StoreRow, RefuseRow, PendingRow, RetriedRow, CompletedRow, CanceledRow
     DEF WritesRow

LEMMA TypeWrites ==
    ASSUME TypeOK, NEW t \in Threads, WritesRow(t)
    PROVE  TypeOK'
<1>1. OnlySessions /\ Done(t)
  BY DEF WritesRow, Store, Refuse, SetPending, SetRetried, SetCompleted, SetCanceled
<1>2. PICK row \in Row : Written(t, row)
  BY WrittenRow
<1>3. DataOK' /\ LinkIds' = LinkIds /\ \A x \in SessionIds : Exists(x) => Exists(x)'
  BY <1>1, <1>2, WrittenRow, RowStep DEF Written
<1>. QED
  BY <1>1, <1>3, DoneFrame DEF TypeOK

LEMMA TypeCreate ==
    ASSUME TypeOK, NEW t \in Threads, NEW s \in SessionIds, NEW items \in Carts,
           Create(t, s, items)
    PROVE  TypeOK'
<1>. DEFINE d == Decide(s, items, None, "preview", None, shop)
            row == [status |-> StatusFor(d), items |-> d.items, total |-> d.total,
                    mandate |-> d.mandate, attempt |-> 0, link |-> 0]
<1>1. d \in Decision
  BY DecideType DEF Items
<1>2. SetRow(s, row) /\ OnlySessions /\ UNCHANGED thr
  BY DEF Create, SetRow, OnlySessions
<1>. HIDE DEF d
<1>3. row \in Row /\ row.status \in EDITABLE
  BY <1>1, StatusForType DEF Row, Decision, Statuses, MAX_ATTEMPTS
<1>. HIDE DEF row
<1>4. DataOK' /\ LinkIds' = LinkIds /\ \A x \in SessionIds : Exists(x) => Exists(x)'
  BY <1>2, <1>3, RowStep DEF EDITABLE, NOT_READY, REQUIRES_REVIEW, READY, PENDING
<1>. QED
  BY <1>2, <1>4 DEF TypeOK, FramesOK, FrameOK

-----------------------------------------------------------------------------
(* Steps that write the other tables, or talk to the provider.             *)

\* A step that keeps the sessions and does not take links away.
LEMMA KeepsRows ==
    ASSUME UNCHANGED sessions, LinkIds \subseteq LinkIds'
    PROVE  \A s \in SessionIds : Exists(s) => Exists(s)'
  BY DEF Exists

LEMMA TypeRecordReview ==
    ASSUME TypeOK, NEW t \in Threads, RecordReview(t)
    PROVE  TypeOK'
<1>. DEFINE f == thr[t]
            place == IF f.op = "approve" THEN "reevaluate" ELSE "refuse"
            g == [f EXCEPT !.at = place]
<1>1. /\ f \in Frame /\ FrameOK(f) /\ f.at = "review" /\ f.s \in SessionIds /\ f.row \in Row
      /\ UNCHANGED <<mandateVars, links, sessions, payments, shop, crashes>>
      /\ thr' = [thr EXCEPT ![t] = g]
      /\ reviews' = [reviews EXCEPT ![f.s] =
                         [approved |-> f.op = "approve", total |-> f.row.total]]
  BY Working DEF RecordReview, At, GoTo, FrameOK
<1>2. place \in {"reevaluate", "refuse"} /\ (place = "refuse" => f.op # "approve")
  OBVIOUS
<1>3. reviews' \in [SessionIds -> [approved : BOOLEAN, total : Nat] \cup {None}]
  <2>1. f.row.total \in Nat
    BY <1>1 DEF Row
  <2>2. [approved |-> f.op = "approve", total |-> f.row.total] \in [approved : BOOLEAN, total : Nat]
    BY <2>1
  <2>. QED
    BY <1>1, <2>2 DEF TypeOK, DataOK
<1>4. DataOK'
  BY <1>1, <1>3 DEF TypeOK, DataOK, mandateVars, Status, Exists, LinkIds
<1>. HIDE DEF place
<1>5. g \in Frame
  BY <1>1, <1>2, FrameFields
<1>6. LinkIds' = LinkIds /\ \A s \in SessionIds : Exists(s) => Exists(s)'
  BY <1>1 DEF LinkIds, Exists
<1>7. f.op # "complete"
  BY <1>1 DEF FrameOK
<1>8. thr'[t] = g => FrameOK(thr[t])'
  BY <1>1, <1>2, <1>6, <1>7 DEF FrameOK, Frame
<1>. QED
  BY <1>1, <1>4, <1>5, <1>6, <1>8, OneFrame DEF TypeOK

\* A step on the mandate tables, and one on the links.
LEMMA MandateStep ==
    ASSUME TypeOK, OnlyMandates, UNCHANGED <<active, issued, today>>,
           reservations' \subseteq Reservation, refunds' \subseteq Refund
    PROVE  /\ DataOK'
           /\ LinkIds' = LinkIds
           /\ \A s \in SessionIds : Exists(s) => Exists(s)'
  BY DEF TypeOK, DataOK, OnlyMandates, rowVars, shopVars, Status, Exists, LinkIds

LEMMA LinkStep ==
    ASSUME TypeOK, OnlyLinks, links' \in Seq(Link), LinkIds \subseteq LinkIds'
    PROVE  /\ DataOK'
           /\ \A s \in SessionIds : Exists(s) => Exists(s)'
  BY DEF TypeOK, DataOK, OnlyLinks, rowVars, shopVars, mandateVars, Status, Exists

LEMMA CreateLinkType ==
    ASSUME TypeOK, NEW s \in SessionIds, NEW a \in Nat, CreateLink(s, a)
    PROVE  /\ links' \in Seq(Link)
           /\ LinkIds \subseteq LinkIds'
           /\ Len(links) + 1 \in LinkIds' /\ Len(links) + 1 \in Nat
<1>. DEFINE e == [session |-> s, amount |-> a, state |-> "created",
                  failed |-> 0, due |-> FALSE, refunded |-> 0, unheard |-> 0]
<1>1. links \in Seq(Link) /\ links' = Append(links, e)
  BY DEF TypeOK, DataOK, CreateLink
<1>2. e \in Link
  BY DEF Link
<1>. HIDE DEF e
<1>3. links' \in Seq(Link) /\ Len(links') = Len(links) + 1
  BY <1>1, <1>2
<1>. QED
  BY <1>1, <1>3 DEF LinkIds

LEMMA SetLinkType ==
    ASSUME TypeOK, NEW l, NEW e, l \in LinkIds => e \in Link,
           links' = [links EXCEPT ![l] = e]
    PROVE  /\ links' \in Seq(Link)
           /\ LinkIds' = LinkIds
  BY UpdateElement DEF TypeOK, DataOK, LinkIds

LEMMA LinkElement ==
    ASSUME TypeOK, NEW l \in LinkIds
    PROVE  links[l] \in Link
  BY ElementOfSeq DEF TypeOK, DataOK, LinkIds

LEMMA CancelLinkType ==
    ASSUME TypeOK, NEW l, CancelLink(l)
    PROVE  links' \in Seq(Link) /\ LinkIds' = LinkIds
<1>. DEFINE e == [links[l] EXCEPT !.state = "cancelled"]
<1>1. links' = [links EXCEPT ![l] = e]
  BY DEF CancelLink
<1>2. l \in LinkIds => e \in Link
  BY LinkElement DEF Link
<1>. HIDE DEF e
<1>. QED
  BY <1>1, <1>2, SetLinkType

\* What a thread that goes on to a place of a step keeps.
LEMMA FrameMoves ==
    ASSUME TypeOK, NEW t \in Threads, NEW place \in Places, thr[t].at # "idle",
           thr' = [thr EXCEPT ![t] = [thr[t] EXCEPT !.at = place]],
           place \in DecidedPlaces => thr[t].at \in DecidedPlaces,
           place \in MoneyPlaces => thr[t].at \in MoneyPlaces,
           place \in RowPlaces => thr[t].at \in RowPlaces,
           place \notin PollPlaces \cup {"review", "refuse", "pending", "retried"},
           place \in {"cancelOld", "secondLink"} => thr[t].at \in {"cancelOld", "secondLink"},
           place \in {"refund", "recordRefund"} => thr[t].at \in {"refund", "recordRefund"},
           LinkIds \subseteq LinkIds', \A s \in SessionIds : Exists(s) => Exists(s)'
    PROVE  FramesOK'
<1>. DEFINE g == [thr[t] EXCEPT !.at = place]
<1>1. thr[t] \in Frame /\ FrameOK(thr[t])
  BY Working
<1>2. g \in Frame
  BY <1>1, FrameFields
<1>3. thr'[t] = g => FrameOK(thr[t])'
  BY <1>1 DEF FrameOK, Frame
<1>. QED
  BY <1>2, <1>3, OneFrame

LEMMA TypeReserve ==
    ASSUME TypeOK, NEW t \in Threads, ReserveStep(t)
    PROVE  TypeOK'
<1>. DEFINE f == thr[t]
            i == CHOOSE i \in FreshIds : TRUE
            r == [id |-> i, session |-> f.s, mandate |-> f.dec.mandate,
                  amount |-> f.dec.total, day |-> today, state |-> "reserved"]
<1>1. /\ f.at = "reserve" /\ f.s \in SessionIds /\ f.dec \in Decision
      /\ f.dec.mandate \in MandateIds /\ OnlyMandates
      /\ thr' = [thr EXCEPT ![t] = [thr[t] EXCEPT !.at = "firstLink"]]
  BY Working DEF ReserveStep, At, GoTo, FrameOK
<1>2. /\ reservations' = reservations \cup {r} /\ FreshIds # {}
      /\ UNCHANGED <<active, issued, refunds, today>>
  BY DEF ReserveStep, Reserve, CanReserve
<1>3. i \in ReservationIds
  BY <1>2 DEF FreshIds
<1>4. r \in Reservation
  BY <1>1, <1>3 DEF Reservation, Decision, TypeOK, DataOK
<1>. HIDE DEF r
<1>5. DataOK' /\ LinkIds' = LinkIds /\ \A s \in SessionIds : Exists(s) => Exists(s)'
  BY <1>1, <1>2, <1>4, MandateStep DEF TypeOK, DataOK
<1>. QED
  BY <1>1, <1>5, FrameMoves DEF TypeOK

LEMMA TypeFirstLink ==
    ASSUME TypeOK, NEW t \in Threads, FirstLink(t) \/ SecondLink(t)
    PROVE  TypeOK'
<1>1. PICK place \in {"pending", "retried"} :
        /\ thr' = [thr EXCEPT ![t] = [thr[t] EXCEPT !.at = place, !.link = Len(links) + 1]]
        /\ place = "retried" => thr[t].at = "secondLink"
        /\ thr[t].at \in {"firstLink", "secondLink"}
  BY DEF FirstLink, SecondLink, Becomes, At
<1>2. /\ thr[t].s \in SessionIds /\ thr[t].dec \in Decision /\ OnlyLinks
      /\ CreateLink(thr[t].s, thr[t].dec.total)
  BY Working DEF FirstLink, SecondLink, At, FrameOK
<1>3. /\ links' \in Seq(Link) /\ LinkIds \subseteq LinkIds'
      /\ Len(links) + 1 \in LinkIds' /\ Len(links) + 1 \in Nat
  BY <1>2, CreateLinkType DEF Decision
<1>4. DataOK' /\ \A s \in SessionIds : Exists(s) => Exists(s)'
  BY <1>2, <1>3, LinkStep
<1>. DEFINE n == Len(links) + 1
            g == [thr[t] EXCEPT !.at = place, !.link = n]
<1>5. thr' = [thr EXCEPT ![t] = g] /\ n \in LinkIds' /\ n \in Nat
  BY <1>1, <1>3
<1>. HIDE DEF n
<1>6. thr[t] \in Frame /\ FrameOK(thr[t])
  BY Working
<1>7. g \in Frame
  BY <1>5, <1>6, FrameFields
<1>8. thr'[t] = g => FrameOK(thr[t])'
  BY <1>1, <1>4, <1>5, <1>6 DEF FrameOK, Frame
<1>. QED
  BY <1>3, <1>4, <1>5, <1>7, <1>8, OneFrame DEF TypeOK

LEMMA TypeCommit ==
    ASSUME TypeOK, NEW t \in Threads, CommitStep(t)
    PROVE  TypeOK'
<1>1. /\ thr[t].at = "commit" /\ OnlyMandates
      /\ thr' = [thr EXCEPT ![t] = [thr[t] EXCEPT !.at = "complete"]]
  BY DEF CommitStep, At, GoTo
<1>2. /\ reservations' \subseteq Reservation /\ refunds' \subseteq Refund
      /\ UNCHANGED <<active, issued, today>>
  BY SMTT(30) DEF CommitStep, Commit, OpenRows, Reservation, TypeOK, DataOK
<1>3. DataOK' /\ LinkIds' = LinkIds /\ \A s \in SessionIds : Exists(s) => Exists(s)'
  BY <1>1, <1>2, MandateStep
<1>. QED
  BY <1>1, <1>3, FrameMoves DEF TypeOK

LEMMA TypeRelease ==
    ASSUME TypeOK, NEW t \in Threads, ReleaseStep(t)
    PROVE  TypeOK'
<1>. DEFINE g == AfterRelease(thr[t])
<1>1. /\ thr[t].at = "release" /\ OnlyMandates /\ thr' = [thr EXCEPT ![t] = g]
  BY DEF ReleaseStep, At, Becomes
<1>2. /\ reservations' \subseteq Reservation /\ refunds' \subseteq Refund
      /\ UNCHANGED <<active, issued, today>>
  BY DEF ReleaseStep, Release, TypeOK, DataOK
<1>3. DataOK' /\ LinkIds' = LinkIds /\ \A s \in SessionIds : Exists(s) => Exists(s)'
  BY <1>1, <1>2, MandateStep
<1>4. g \in Frame /\ FrameOK(g)
  BY <1>1, Working, AfterReleaseType
<1>. HIDE DEF g
<1>5. thr'[t] = g => FrameOK(thr[t])'
  BY <1>3, <1>4 DEF FrameOK
<1>. QED
  BY <1>1, <1>3, <1>4, <1>5, OneFrame DEF TypeOK

LEMMA TypeCancelStep ==
    ASSUME TypeOK, NEW t \in Threads,
           CancelQuietly(t) \/ CancelLinkStep(t) \/ CancelLinkLost(t)
    PROVE  TypeOK'
<1>1. PICK place \in {"secondLink", "openRow", "finalPoll"} :
        /\ thr' = [thr EXCEPT ![t] = [thr[t] EXCEPT !.at = place]]
        /\ place = "secondLink" => thr[t].at = "cancelOld"
        /\ place = "finalPoll" => thr[t].at = "cancelLink"
        /\ thr[t].at # "idle"
  BY DEF CancelQuietly, CancelLinkStep, CancelLinkLost, GoTo, At
<1>2. OnlyLinks /\ (UNCHANGED links \/ CancelLink(thr[t].row.link))
  BY DEF CancelQuietly, CancelLinkStep, CancelLinkLost, TryCancel
<1>3. links' \in Seq(Link) /\ LinkIds' = LinkIds
  BY <1>2, CancelLinkType DEF TypeOK, DataOK, LinkIds
<1>4. DataOK' /\ \A s \in SessionIds : Exists(s) => Exists(s)'
  BY <1>2, <1>3, LinkStep
<1>5. CASE place # "finalPoll"
  BY <1>1, <1>3, <1>4, <1>5, FrameMoves DEF TypeOK
<1>6. CASE place = "finalPoll"
  <2>. DEFINE g == [thr[t] EXCEPT !.at = "finalPoll"]
  <2>1. thr[t] \in Frame /\ FrameOK(thr[t]) /\ thr[t].at = "cancelLink" /\ g \in Frame
    BY <1>1, <1>6, Working, FrameFields
  <2>2. thr'[t] = g => FrameOK(thr[t])'
    BY <1>3, <1>4, <2>1 DEF FrameOK, Frame
  <2>. QED
    BY <1>1, <1>3, <1>4, <1>6, <2>1, <2>2, OneFrame DEF TypeOK
<1>. QED
  BY <1>5, <1>6

LEMMA TypeRefundStep ==
    ASSUME TypeOK, NEW t \in Threads, RefundStep(t)
    PROVE  TypeOK'
<1>. DEFINE l == thr[t].dec.link
            e == [links[l] EXCEPT !.refunded = @ + thr[t].dec.amount]
<1>1. /\ thr[t].at = "refund" /\ thr[t].dec \in RefundRequest /\ OnlyLinks
      /\ thr' = [thr EXCEPT ![t] = [thr[t] EXCEPT !.at = "recordRefund"]]
      /\ links' = [links EXCEPT ![l] = e]
  BY Working DEF RefundStep, At, GoTo, FrameOK, RefundPayment
<1>2. thr[t].dec.amount \in Nat
  BY <1>1, RefundAssumption DEF RefundRequest
<1>3. l \in LinkIds => e \in Link
  BY <1>2, LinkElement DEF Link
<1>. HIDE DEF e, l
<1>4. links' \in Seq(Link) /\ LinkIds' = LinkIds
  BY <1>1, <1>3, SetLinkType
<1>5. DataOK' /\ \A s \in SessionIds : Exists(s) => Exists(s)'
  BY <1>1, <1>4, LinkStep
<1>. QED
  BY <1>1, <1>4, <1>5, FrameMoves DEF TypeOK

LEMMA TypeRefundLost ==
    ASSUME TypeOK, NEW t \in Threads, RefundLost(t)
    PROVE  TypeOK'
<1>. DEFINE l == thr[t].dec.link
            e == [links[l] EXCEPT !.unheard = @ + thr[t].dec.amount]
<1>1. /\ thr[t].dec \in RefundRequest /\ OnlyLinks /\ Done(t)
      /\ links' = [links EXCEPT ![l] = e]
  BY Working DEF RefundLost, At, FrameOK, RefundUnheard
<1>2. thr[t].dec.amount \in Nat
  BY <1>1, RefundAssumption DEF RefundRequest
<1>3. l \in LinkIds => e \in Link
  BY <1>2, LinkElement DEF Link
<1>. HIDE DEF e, l
<1>4. links' \in Seq(Link) /\ LinkIds' = LinkIds
  BY <1>1, <1>3, SetLinkType
<1>5. DataOK' /\ \A s \in SessionIds : Exists(s) => Exists(s)'
  BY <1>1, <1>4, LinkStep
<1>. QED
  BY <1>1, <1>4, <1>5, DoneFrame DEF TypeOK

LEMMA TypeRecordRefund ==
    ASSUME TypeOK, NEW t \in Threads, RecordRefundStep(t)
    PROVE  TypeOK'
<1>1. /\ thr[t].dec \in RefundRequest /\ thr[t].row \in Row /\ thr[t].s \in SessionIds
      /\ OnlyMandates /\ Done(t) /\ UNCHANGED <<active, issued, reservations, today>>
      /\ refunds' = refunds \cup {[id |-> <<thr[t].s, thr[t].dec.reference>>,
                                   mandate |-> thr[t].row.mandate,
                                   amount |-> thr[t].dec.amount]}
  BY Working DEF RecordRefundStep, RecordRefund, At, FrameOK
<1>2. refunds' \subseteq Refund
  <2>1. /\ thr[t].dec.reference \in References /\ thr[t].dec.amount \in Nat
        /\ thr[t].row.mandate \in MandateIds \cup {None}
    BY <1>1, RefundAssumption DEF RefundRequest, Row, MandateOrNone
  <2>. QED
    BY <1>1, <2>1 DEF Refund, TypeOK, DataOK
<1>3. DataOK' /\ LinkIds' = LinkIds /\ \A s \in SessionIds : Exists(s) => Exists(s)'
  BY <1>1, <1>2, MandateStep DEF TypeOK, DataOK
<1>. QED
  BY <1>1, <1>3, DoneFrame DEF TypeOK

LEMMA TypeRecordPayment ==
    ASSUME TypeOK, NEW t \in Threads, NEW p \in thr[t].todo, RecordPayment(t, p)
    PROVE  TypeOK'
<1>. DEFINE f == thr[t]
            place == IF f.todo = {p} THEN "judge" ELSE "record"
            todo == f.todo \ {p}
            g == [f EXCEPT !.todo = todo, !.at = place]
<1>1. /\ f \in Frame /\ FrameOK(f) /\ f.at = "record" /\ f.s \in SessionIds
      /\ UNCHANGED <<mandateVars, links, sessions, shopVars>>
      /\ payments' = [payments EXCEPT ![f.s] = @ \cup {[payment |-> p, day |-> today]}]
      /\ thr' = [thr EXCEPT ![t] = g]
  BY Working DEF RecordPayment, At, Becomes
<1>2. p \in Payment /\ todo \in SUBSET Payment /\ place \in {"judge", "record"}
  BY <1>1 DEF Frame
<1>3. payments' \in [SessionIds -> SUBSET [payment : Payment, day : Days]]
  BY <1>1, <1>2 DEF TypeOK, DataOK
<1>4. DataOK' /\ LinkIds' = LinkIds /\ \A s \in SessionIds : Exists(s) => Exists(s)'
  BY <1>1, <1>3 DEF TypeOK, DataOK, mandateVars, shopVars, Status, Exists, LinkIds
<1>. HIDE DEF place, todo
<1>5. g \in Frame
  BY <1>1, <1>2, FrameFields
<1>6. thr'[t] = g => FrameOK(thr[t])'
  BY <1>1, <1>2, <1>4 DEF FrameOK, Frame
<1>. QED
  BY <1>1, <1>4, <1>5, <1>6, OneFrame DEF TypeOK

-----------------------------------------------------------------------------
(* The rest of the world.                                                  *)

LEMMA WorldStep ==
    ASSUME TypeOK, OnlyWorld, UNCHANGED <<reservations, refunds>>,
           active' \in MandateOrNone, issued' \subseteq MandateIds, today' \in Days,
           shop' \in Shops, links' \in Seq(Link), LinkIds' = LinkIds
    PROVE  TypeOK'
<1>1. DataOK'
  BY DEF TypeOK, DataOK, OnlyWorld, Status, Exists
<1>2. FramesOK'
  BY DEF TypeOK, FramesOK, FrameOK, OnlyWorld, Exists
<1>. QED
  BY <1>1, <1>2 DEF TypeOK

LEMMA TypeMerchant ==
    ASSUME TypeOK, Merchant
    PROVE  TypeOK'
<1>1. /\ OnlyWorld /\ UNCHANGED <<reservations, refunds>> /\ UNCHANGED <<links, today>>
      /\ active' \in MandateOrNone /\ issued' \subseteq MandateIds /\ shop' \in Shops
  BY DEF Merchant, IssueMandate, RevokeMandate, TypeOK, DataOK, MandateOrNone, mandateVars
<1>. QED
  BY <1>1, WorldStep DEF TypeOK, DataOK, LinkIds

LEMMA TypeClock ==
    ASSUME TypeOK, Clock
    PROVE  TypeOK'
<1>1. /\ OnlyWorld /\ UNCHANGED <<reservations, refunds, active, issued, shop>>
      /\ today' \in Days
  BY DaysAssumption DEF Clock, NextDay, TypeOK, DataOK, Days, mandateVars
<1>2. links' \in Seq(Link) /\ LinkIds' = LinkIds
  <2>1. CASE UNCHANGED links
    BY <2>1 DEF TypeOK, DataOK, LinkIds
  <2>2. CASE \E l \in LinkIds : LinkFallsDue(l) \/ LinkExpires(l)
    <3>1. PICK l \in LinkIds : LinkFallsDue(l) \/ LinkExpires(l)
      BY <2>2
    <3>2. PICK e \in Link : links' = [links EXCEPT ![l] = e]
      <4>1. [links[l] EXCEPT !.due = TRUE] \in Link /\ [links[l] EXCEPT !.state = "expired"] \in Link
        BY LinkElement DEF Link
      <4>. QED
        BY <3>1, <4>1 DEF LinkFallsDue, LinkExpires
    <3>. QED
      BY <3>2, SetLinkType
  <2>. QED
    BY <2>1, <2>2 DEF Clock
<1>. QED
  BY <1>1, <1>2, WorldStep DEF TypeOK, DataOK

LEMMA TypeCustomer ==
    ASSUME TypeOK, Customer
    PROVE  TypeOK'
<1>1. OnlyWorld /\ UNCHANGED <<reservations, refunds, active, issued, today, shop>>
  BY DEF Customer, mandateVars
<1>2. PICK l \in LinkIds : CustomerFails(l) \/ CustomerPays(l)
  BY DEF Customer
<1>3. PICK e \in Link : links' = [links EXCEPT ![l] = e]
  <2>1. links[l] \in Link
    BY LinkElement
  <2>2. [links[l] EXCEPT !.failed = @ + 1] \in Link /\ [links[l] EXCEPT !.state = "paid"] \in Link
    BY <2>1 DEF Link
  <2>. QED
    BY <1>2, <2>2 DEF CustomerFails, CustomerPays
<1>4. links' \in Seq(Link) /\ LinkIds' = LinkIds
  BY <1>3, SetLinkType
<1>. QED
  BY <1>1, <1>4, WorldStep DEF TypeOK, DataOK

LEMMA TypeCrash ==
    ASSUME TypeOK, Crash
    PROVE  TypeOK'
<1>1. DataOK'
  BY DEF Crash, TypeOK, DataOK, mandateVars, Status, Exists, LinkIds
<1>2. FramesOK'
  <2>1. thr' = [t \in Threads |-> Idle] /\ Idle \in Frame
    BY IdleType DEF Crash
  <2>2. \A t \in Threads : FrameOK(thr[t])'
    BY <2>1 DEF FrameOK, Idle, Begun
  <2>. QED
    BY <2>1, <2>2 DEF FramesOK
<1>. QED
  BY <1>1, <1>2 DEF TypeOK

-----------------------------------------------------------------------------
LEMMA TypeInit == Init => TypeOK
<1>. SUFFICES ASSUME Init PROVE TypeOK
  OBVIOUS
<1>1. DataOK
  <2>1. links \in Seq(Link)
    BY DEF Init, LinksInit
  <2>2. \A s \in SessionIds : sessions[s] = None /\ Status(s) = None
    BY DEF Init, Status, Exists
  <2>3. None # PENDING
    BY RowAssumption DEF Statuses
  <2>. QED
    BY <2>1, <2>2, <2>3, DaysAssumption DEF Init, DataOK, MandatesInit, MandateOrNone, Days
<1>2. FramesOK
  <2>1. thr = [t \in Threads |-> Idle] /\ Idle \in Frame /\ FrameOK(Idle)
    BY IdleType DEF Init
  <2>. QED
    BY <2>1 DEF FramesOK
<1>. QED
  BY <1>1, <1>2 DEF TypeOK

LEMMA TypeNext == TypeOK /\ [Next]_vars => TypeOK'
<1>. SUFFICES ASSUME TypeOK, [Next]_vars PROVE TypeOK'
  OBVIOUS
<1>1. ASSUME NEW t \in Threads, Begin(t) PROVE TypeOK'
  BY <1>1, TypeCreate, TypeUpdateLoad, TypeReviewLoad, TypeCompleteLoad,
     TypeReconcileLoad, TypeCancelLoad, TypeRefundLoad DEF Begin
<1>2. ASSUME NEW t \in Threads, Continue(t) PROVE TypeOK'
  BY <1>2, TypeStops, TypeGoesOn, TypePoll, TypeReevaluate, TypeFailedAttempt,
     TypeSecondLinkFails, TypeReadOpenRow, TypeFinalPoll, TypeWrites,
     TypeRecordReview, TypeReserve, TypeFirstLink, TypeCommit, TypeRelease,
     TypeCancelStep, TypeRefundStep, TypeRefundLost, TypeRecordRefund, TypeRecordPayment
  DEF Continue, WritesRow
<1>3. ASSUME UNCHANGED vars PROVE TypeOK'
  <2>1. DataOK'
    BY <1>3 DEF vars, mandateVars, TypeOK, DataOK, Status, Exists, LinkIds
  <2>2. FramesOK'
    BY <1>3 DEF vars, TypeOK, FramesOK, FrameOK, Exists, LinkIds
  <2>. QED
    BY <2>1, <2>2 DEF TypeOK
<1>. QED
  BY <1>1, <1>2, <1>3, TypeMerchant, TypeClock, TypeCustomer, TypeCrash DEF Next

\* Whatever the number of threads, sessions, mandates and crashes, every
\* table keeps its type, a pending session has a link, and a handler has
\* what its next step needs: no row it works on is missing, no decision it
\* carries out is other than ALLOW, and no attempt is beyond the second.
THEOREM TypeCorrect == Spec => []TypeOK
  BY TypeInit, TypeNext, PTL DEF Spec

-----------------------------------------------------------------------------
(* The steps of SessionService sorted by the part of the state they write, *)
(* so that a proof looks only at those that can disturb what it is about.  *)

MovesMoney(t) ==
    ReserveStep(t) \/ CommitStep(t) \/ ReleaseStep(t) \/ RecordRefundStep(t)

LEMMA BeginKinds ==
    ASSUME NEW t \in Threads, Begin(t)
    PROVE  \/ OnlyThread
           \/ \E s \in SessionIds, items \in Carts : Create(t, s, items)
  BY DEF Begin, UpdateLoad, ReviewLoad, CompleteLoad, ReconcileLoad, CancelLoad, RefundLoad

LEMMA ContinueKinds ==
    ASSUME NEW t \in Threads, Continue(t)
    PROVE  \/ OnlyThread
           \/ OnlyLinks
           \/ OnlySessions /\ WritesRow(t)
           \/ OnlyMandates /\ MovesMoney(t)
           \/ RecordReview(t)
           \/ \E p \in thr[t].todo : RecordPayment(t, p)
  BY DEF Continue, WritesRow, MovesMoney, Store, Reevaluate, Refuse, ReserveStep, ReserveRaises,
     FirstLink, FirstLinkFails, SetPending, PollStep, PollFails, RecordRaises,
     FinishPaid, NothingNew, FailedAttempt, CommitStep, CommitRaises, SetCompleted,
     CancelQuietly, SecondLink, SecondLinkFails, SetRetried, ReadOpenRow,
     ReleaseStep, ReleaseRaises, SetCanceled, CancelLinkStep, CancelLinkLost, CancelLinkRefused,
     FinalPoll, RefundStep, RefundLost, RefundFails, RecordRefundStep, RecordRefundRaises

\* The steps of the world touch neither a session nor money.
LEMMA NextKinds ==
    ASSUME [Next]_vars
    PROVE  \/ UNCHANGED <<sessions, payments, reservations, refunds, thr>>
           \/ UNCHANGED <<sessions, payments, reservations, refunds>> /\ Crash
           \/ \E t \in Threads : Begin(t) \/ Continue(t)
  BY DEF Next, vars, Merchant, Clock, Customer, Crash, OnlyWorld, IssueMandate,
     RevokeMandate, NextDay, mandateVars

\* A step of a thread changes no other thread.
LEMMA OthersWait ==
    ASSUME TypeOK, NEW t \in Threads, Begin(t) \/ Continue(t)
    PROVE  \A u \in Threads \ {t} : thr'[u] = thr[u]
<1>1. UNCHANGED thr \/ \E f : thr' = [thr EXCEPT ![t] = f]
  <2>1. CASE Begin(t)
    BY <2>1 DEF Begin, Create, UpdateLoad, ReviewLoad, CompleteLoad, ReconcileLoad, CancelLoad,
       RefundLoad, Becomes
  <2>2. CASE Continue(t)
    <3>1. \/ UNCHANGED thr \/ Done(t)
          \/ \E f : Becomes(t, f)
          \/ \E p : GoTo(t, p)
      BY <2>2 DEF Continue, Store, RecordReview, Reevaluate, Refuse, ReserveStep, ReserveRaises,
         FirstLink, FirstLinkFails, SetPending, PollStep, PollFails, RecordPayment, RecordRaises,
         FinishPaid, NothingNew, FailedAttempt, CommitStep, CommitRaises, SetCompleted,
         CancelQuietly, SecondLink, SecondLinkFails, SetRetried, ReadOpenRow,
         ReleaseStep, ReleaseRaises, SetCanceled, CancelLinkStep, CancelLinkLost,
         CancelLinkRefused,
         FinalPoll, RefundStep, RefundLost, RefundFails, RecordRefundStep, RecordRefundRaises
    <3>. QED
      BY <3>1 DEF Done, Becomes, GoTo
  <2>. QED
    BY <2>1, <2>2
<1>. QED
  BY <1>1 DEF TypeOK, FramesOK
-----------------------------------------------------------------------------
(* CompletedWasPaid is not inductive: it says nothing of a handler between *)
(* the insert of a payment and the status it ends with.  PaidFrame says    *)
(* what such a handler already knows to be on record.                      *)

Recorded(s, p) == \E r \in payments[s] : r.payment = p

PaidFrame(f) ==
    /\ f.at = "record" => \A p \in f.news \ f.todo : Recorded(f.s, p)
    /\ f.at = "judge" => \A p \in f.news : Recorded(f.s, p)
    /\ f.at \in {"commit", "complete"} => CapturesOf(f.s) # {}

PaidInv == CompletedWasPaid /\ \A t \in Threads : PaidFrame(thr[t])

\* The places a handler passes between a poll and the end of a paid order.
PaidPlaces == {"record", "judge", "commit", "complete"}

-----------------------------------------------------------------------------
(* What a step does to the three tables the property reads.                *)

\* Nothing takes a payment off the record.
LEMMA PaymentsGrow ==
    ASSUME TypeOK, [Next]_vars
    PROVE  \A s \in SessionIds : payments[s] \subseteq payments'[s]
<1>1. \/ UNCHANGED payments
      \/ \E t \in Threads : \E p \in thr[t].todo : RecordPayment(t, p)
  <2>1. ASSUME NEW t \in Threads, Begin(t) PROVE UNCHANGED payments
    BY <2>1, BeginKinds DEF OnlyThread, rowVars, Create
  <2>2. ASSUME NEW t \in Threads, Continue(t)
        PROVE  UNCHANGED payments \/ \E p \in thr[t].todo : RecordPayment(t, p)
    BY <2>2, ContinueKinds DEF OnlyThread, OnlyLinks, OnlyMandates, OnlySessions, rowVars, RecordReview
  <2>. QED
    BY <2>1, <2>2, NextKinds
<1>2. ASSUME NEW t \in Threads, NEW p \in thr[t].todo, RecordPayment(t, p)
      PROVE  \A s \in SessionIds : payments[s] \subseteq payments'[s]
  BY <1>2 DEF RecordPayment, TypeOK, DataOK
<1>. QED
  BY <1>1, <1>2

\* Only a thread that is about to complete a session completes it.
LEMMA WhoCompletes ==
    ASSUME TypeOK, [Next]_vars, NEW s \in SessionIds, Status(s)' = COMPLETED
    PROVE  \/ Status(s) = COMPLETED
           \/ \E t \in Threads : thr[t].at = "complete" /\ thr[t].s = s
<1>1. CASE UNCHANGED sessions
  BY <1>1 DEF Status, Exists
<1>2. ASSUME NEW t \in Threads, NEW x \in SessionIds, NEW items \in Carts, Create(t, x, items)
      PROVE  Status(s) = COMPLETED
  <2>. DEFINE d == Decide(x, items, None, "preview", None, shop)
              row == [status |-> StatusFor(d), items |-> d.items, total |-> d.total,
                      mandate |-> d.mandate, attempt |-> 0, link |-> 0]
  <2>1. StatusFor(d) \in EDITABLE
    BY DecideType, StatusForType DEF Items
  <2>2. row.status # COMPLETED
    BY <2>1 DEF EDITABLE, COMPLETED, NOT_READY, READY, REQUIRES_REVIEW
  <2>3. sessions' = [sessions EXCEPT ![x] = row]
    BY <1>2 DEF Create
  <2>. HIDE DEF row
  <2>4. x = s => Status(s)' # COMPLETED
    BY <2>2, <2>3, RowAssumption DEF Status, Exists, TypeOK, DataOK, Statuses, TERMINAL
  <2>5. x # s => Status(s)' = Status(s)
    BY <2>3 DEF Status, Exists, TypeOK, DataOK
  <2>. QED
    BY <2>4, <2>5
<1>3. ASSUME NEW t \in Threads, WritesRow(t)
      PROVE  Status(s) = COMPLETED \/ (thr[t].at = "complete" /\ thr[t].s = s)
  <2>1. PICK row \in Row : Written(t, row)
    BY <1>3, WrittenRow
  <2>2. CASE thr[t].s = s
    <3>1. Status(s)' = row.status /\ Status(s) = sessions[s].status
      BY <1>3, <2>1, <2>2, WrittenRow, RowAssumption DEF Written, SetRow, Status, Exists, TypeOK, DataOK
    <3>. QED
      BY <2>1, <2>2, <3>1 DEF Written
  <2>3. CASE thr[t].s # s
    BY <2>1, <2>3 DEF Written, SetRow, Status, Exists, TypeOK, DataOK
  <2>. QED
    BY <2>2, <2>3
<1>4. ASSUME NEW t \in Threads, Begin(t)
      PROVE  UNCHANGED sessions \/ \E x \in SessionIds, items \in Carts : Create(t, x, items)
  BY <1>4, BeginKinds DEF OnlyThread, rowVars
<1>5. ASSUME NEW t \in Threads, Continue(t)
      PROVE  UNCHANGED sessions \/ WritesRow(t)
  BY <1>5, ContinueKinds DEF OnlyThread, OnlyLinks, OnlyMandates, rowVars, RecordReview, RecordPayment
<1>. QED
  BY <1>1, <1>2, <1>3, <1>4, <1>5, NextKinds

\* Only a thread that is about to commit commits.
LEMMA WhoCommits ==
    ASSUME TypeOK, [Next]_vars, NEW s \in SessionIds, CommittedRows(s)' # {}
    PROVE  \/ CommittedRows(s) # {}
           \/ \E t \in Threads : thr[t].at = "commit" /\ thr[t].s = s
<1>1. CASE UNCHANGED reservations
  BY <1>1 DEF CommittedRows, RowsOf
<1>2. ASSUME NEW t \in Threads, MovesMoney(t)
      PROVE  CommittedRows(s) # {} \/ (thr[t].at = "commit" /\ thr[t].s = s)
  <2>1. CASE ReserveStep(t)
    BY <2>1 DEF ReserveStep, Reserve, CommittedRows, RowsOf
  <2>2. CASE CommitStep(t)
    <3>1. PICK r \in reservations' : r.session = s /\ r.state = "committed"
      BY DEF CommittedRows, RowsOf
    <3>2. \/ r \in reservations
          \/ \E q \in OpenRows(thr[t].s) : r = [q EXCEPT !.state = "committed"]
      BY <2>2, <3>1 DEF CommitStep, Commit
    <3>3. ASSUME NEW q \in OpenRows(thr[t].s), r = [q EXCEPT !.state = "committed"]
          PROVE  thr[t].s = s
      BY <3>1, <3>3 DEF OpenRows, TypeOK, DataOK, Reservation
    <3>. QED
      BY <2>2, <3>1, <3>2, <3>3 DEF CommittedRows, RowsOf, CommitStep, At
  <2>3. CASE ReleaseStep(t)
    BY <2>3 DEF ReleaseStep, Release, CommittedRows, RowsOf
  <2>4. CASE RecordRefundStep(t)
    BY <2>4 DEF RecordRefundStep, RecordRefund, CommittedRows, RowsOf
  <2>. QED
    BY <1>2, <2>1, <2>2, <2>3, <2>4 DEF MovesMoney
<1>3. ASSUME NEW t \in Threads, Begin(t) PROVE UNCHANGED reservations
  BY <1>3, BeginKinds DEF OnlyThread, Create, mandateVars
<1>4. ASSUME NEW t \in Threads, Continue(t) PROVE UNCHANGED reservations \/ MovesMoney(t)
  BY <1>4, ContinueKinds DEF OnlyThread, OnlyLinks, OnlySessions, RecordReview, RecordPayment, mandateVars
<1>. QED
  BY <1>1, <1>2, <1>3, <1>4, NextKinds

-----------------------------------------------------------------------------
(* What a step does to the frames.                                         *)

\* What a handler knows stays true while payments are only added.
LEMMA PaidFrameStays ==
    ASSUME TypeOK, [Next]_vars, NEW t \in Threads, PaidFrame(thr[t]), thr'[t] = thr[t]
    PROVE  PaidFrame(thr[t])'
<1>1. thr[t].at # "idle" => payments[thr[t].s] \subseteq payments'[thr[t].s]
  BY PaymentsGrow, Working
<1>. QED
  BY <1>1 DEF PaidFrame, Recorded, CapturesOf

\* The steps into, and inside, the places of a paid order.
LEMMA PaidFrameMoves ==
    ASSUME TypeOK, [Next]_vars, NEW t \in Threads, PaidFrame(thr[t]),
           \/ PollStep(t) \/ FinalPoll(t) \/ FinishPaid(t) \/ CommitStep(t)
           \/ \E p \in thr[t].todo : RecordPayment(t, p)
    PROVE  PaidFrame(thr[t])'
<1>1. thr[t] \in Frame /\ thr \in [Threads -> Frame]
  BY DEF TypeOK, FramesOK
<1>2. CASE PollStep(t)
  <2>. DEFINE news == Poll(thr[t].row.link) \ {r.payment : r \in payments[thr[t].s]}
  <2>1. /\ thr'[t].news = news /\ thr'[t].todo = news
        /\ thr'[t].at = IF news = {} THEN "judge" ELSE "record"
    BY <1>1, <1>2 DEF PollStep, Becomes, Frame
  <2>. HIDE DEF news
  <2>. QED
    BY <2>1 DEF PaidFrame
<1>3. CASE FinalPoll(t)
  <2>1. Done(t) \/ \E p : Becomes(t, [thr[t] EXCEPT !.at = "record", !.news = {p}, !.todo = {p}])
    BY <1>3 DEF FinalPoll
  <2>2. \/ thr'[t].at = "idle"
        \/ thr'[t].at = "record" /\ thr'[t].news = thr'[t].todo
    <3>1. CASE Done(t)
      BY <1>1, <3>1 DEF Done, Becomes, Idle, Begun
    <3>2. ASSUME NEW p, Becomes(t, [thr[t] EXCEPT !.at = "record", !.news = {p}, !.todo = {p}])
          PROVE  thr'[t].at = "record" /\ thr'[t].news = thr'[t].todo
      BY <1>1, <3>2 DEF Becomes, Frame
    <3>. QED
      BY <2>1, <3>1, <3>2
  <2>. QED
    BY SMTT(30), <2>2 DEF PaidFrame
<1>4. CASE FinishPaid(t)
  <2>1. /\ thr'[t].at \in {"commit", "complete"} /\ thr'[t].s = thr[t].s
        /\ payments' = payments /\ thr[t].at = "judge" /\ FoundCapture(thr[t])
    BY <1>1, <1>4 DEF FinishPaid, GoTo, Frame, At, OnlyThread, rowVars
  <2>2. CapturesOf(thr[t].s) # {}
    BY <2>1 DEF FoundCapture, PaidFrame, Recorded, CapturesOf
  <2>. QED
    BY <2>1, <2>2 DEF PaidFrame, CapturesOf
<1>5. CASE CommitStep(t)
  <2>1. /\ thr'[t].at = "complete" /\ thr'[t].s = thr[t].s
        /\ payments' = payments /\ thr[t].at = "commit"
    BY <1>1, <1>5 DEF CommitStep, GoTo, Frame, At, OnlyMandates, rowVars
  <2>. QED
    BY <2>1 DEF PaidFrame, CapturesOf
<1>6. ASSUME NEW p \in thr[t].todo, RecordPayment(t, p) PROVE PaidFrame(thr[t])'
  <2>1. /\ thr'[t].s = thr[t].s /\ thr'[t].news = thr[t].news /\ thr'[t].todo = thr[t].todo \ {p}
        /\ thr'[t].at = IF thr[t].todo = {p} THEN "judge" ELSE "record"
        /\ thr[t].at = "record" /\ thr[t].s \in SessionIds
    <3>. DEFINE place == IF thr[t].todo = {p} THEN "judge" ELSE "record"
                todo == thr[t].todo \ {p}
    <3>1. thr' = [thr EXCEPT ![t] = [thr[t] EXCEPT !.todo = todo, !.at = place]]
      BY <1>6 DEF RecordPayment, Becomes
    <3>2. thr[t].at = "record" /\ thr[t].s \in SessionIds
      BY <1>6, Working DEF RecordPayment, At
    <3>. HIDE DEF place, todo
    <3>3. /\ thr'[t].s = thr[t].s /\ thr'[t].news = thr[t].news /\ thr'[t].todo = todo
          /\ thr'[t].at = place
      BY <1>1, <3>1 DEF Frame
    <3>. QED
      BY <3>2, <3>3 DEF place, todo
  <2>2. Recorded(thr[t].s, p)'
    <3>1. [payment |-> p, day |-> today] \in payments'[thr[t].s]
      BY <1>6, <2>1 DEF RecordPayment, TypeOK, DataOK
    <3>. QED
      BY <2>1, <3>1 DEF Recorded
  <2>3. \A q \in thr[t].news \ thr[t].todo : Recorded(thr[t].s, q)'
    BY <2>1, PaymentsGrow DEF PaidFrame, Recorded
  <2>. QED
    BY <2>1, <2>2, <2>3 DEF PaidFrame, Recorded
<1>. QED
  BY <1>2, <1>3, <1>4, <1>5, <1>6

\* Every other step of a thread leads elsewhere.
LEMMA PaidFrameLeaves ==
    ASSUME TypeOK, NEW t \in Threads, Begin(t) \/ Continue(t),
           ~(PollStep(t) \/ FinalPoll(t) \/ FinishPaid(t) \/ CommitStep(t)),
           ~(\E p \in thr[t].todo : RecordPayment(t, p))
    PROVE  thr'[t] = thr[t] \/ thr'[t].at \notin PaidPlaces
<1>1. thr[t] \in Frame /\ thr \in [Threads -> Frame]
  BY DEF TypeOK, FramesOK
<1>2. CASE Begin(t)
  <2>. DEFINE Started == \E op, s, row, dec :
          \E place \in {"store", "review", "reserve", "refuse", "poll", "cancelLink",
                        "openRow", "refund"} : Becomes(t, Begun(op, s, place, row, dec))
  <2>1. UNCHANGED thr \/ Started
    <3>. SUFFICES ASSUME NEW s \in SessionIds
                  PROVE  /\ \A items \in Carts :
                              Create(t, s, items) \/ UpdateLoad(t, s, items)
                                => UNCHANGED thr \/ Started
                         /\ \A op \in {"approve", "decline"} : ReviewLoad(t, s, op) => Started
                         /\ CompleteLoad(t, s) \/ ReconcileLoad(t, s) \/ CancelLoad(t, s)
                              => Started
                         /\ \A ref \in References, a \in RefundAmounts :
                              RefundLoad(t, s, ref, a) => Started
      <4>. HIDE DEF Started
      <4>. QED
        BY <1>2 DEF Begin
    <3>1. ASSUME NEW items \in Carts PROVE Create(t, s, items) => UNCHANGED thr \/ Started
      BY DEF Create
    <3>2. ASSUME NEW items \in Carts PROVE UpdateLoad(t, s, items) => UNCHANGED thr \/ Started
      BY DEF UpdateLoad
    <3>3. ASSUME NEW op \in {"approve", "decline"} PROVE ReviewLoad(t, s, op) => Started
      BY DEF ReviewLoad
    <3>4. CompleteLoad(t, s) => Started
      BY DEF CompleteLoad
    <3>5. ReconcileLoad(t, s) => Started
      BY DEF ReconcileLoad
    <3>6. CancelLoad(t, s) => Started
      BY DEF CancelLoad
    <3>7. ASSUME NEW ref \in References, NEW a \in RefundAmounts
          PROVE  RefundLoad(t, s, ref, a) => Started
      BY DEF RefundLoad
    <3>. HIDE DEF Started
    <3>. QED
      BY <3>1, <3>2, <3>3, <3>4, <3>5, <3>6, <3>7
  <2>. QED
    BY <1>1, <2>1 DEF Becomes, Begun, PaidPlaces
<1>3. CASE Continue(t)
  <2>1. \/ Done(t)
        \/ \E place \in {"refuse", "firstLink", "openRow", "finalPoll", "recordRefund"} :
             GoTo(t, place)
        \/ RecordReview(t) \/ Reevaluate(t) \/ FirstLink(t) \/ CancelQuietly(t)
        \/ SecondLink(t) \/ SecondLinkFails(t) \/ FailedAttempt(t)
        \/ ReadOpenRow(t) \/ ReleaseStep(t)
    BY <1>3 DEF Continue, Store, Refuse, ReserveStep, ReserveRaises,
       FirstLinkFails, SetPending, PollFails, RecordRaises, NothingNew, CommitRaises,
       SetCompleted, SetRetried, ReleaseRaises, SetCanceled,
       CancelLinkStep, CancelLinkLost, CancelLinkRefused, RefundStep, RefundLost, RefundFails,
       RecordRefundStep,
       RecordRefundRaises
  <2>2. CASE Done(t)
    BY <1>1, <2>2 DEF Done, Becomes, Idle, Begun, PaidPlaces
  <2>3. ASSUME NEW place \in {"refuse", "firstLink", "openRow", "finalPoll", "recordRefund"},
               GoTo(t, place)
        PROVE  thr'[t].at \notin PaidPlaces
    BY <1>1, <2>3 DEF GoTo, Frame, PaidPlaces
  <2>4. CASE RecordReview(t)
    BY <1>1, <2>4 DEF RecordReview, GoTo, Frame, PaidPlaces
  <2>5. CASE CancelQuietly(t)
    BY <1>1, <2>5 DEF CancelQuietly, GoTo, Frame, PaidPlaces
  <2>6. ASSUME NEW dec, Becomes(t, [thr[t] EXCEPT !.at = "store", !.dec = dec])
        PROVE  thr'[t].at \notin PaidPlaces
    BY <1>1, <2>6 DEF Becomes, Frame, PaidPlaces
  <2>7. ASSUME NEW place \in {"pending", "retried"}, NEW link,
               Becomes(t, [thr[t] EXCEPT !.at = place, !.link = link])
        PROVE  thr'[t].at \notin PaidPlaces
    BY <1>1, <2>7 DEF Becomes, Frame, PaidPlaces
  <2>8. ASSUME NEW row, Becomes(t, [thr[t] EXCEPT !.at = "abandon", !.row = row])
        PROVE  thr'[t].at \notin PaidPlaces
    BY <1>1, <2>8 DEF Becomes, Frame, PaidPlaces
  <2>9. ASSUME NEW place \in {"cancelOld", "abandon"}, NEW row, NEW dec,
               Becomes(t, [thr[t] EXCEPT !.at = place, !.row = row, !.dec = dec,
                             !.news = {}, !.dead = FALSE])
        PROVE  thr'[t].at \notin PaidPlaces
    BY <1>1, <2>9 DEF Becomes, Frame, PaidPlaces
  <2>10. CASE FailedAttempt(t)
    <3>. DEFINE row == sessions[thr[t].s]
    <3>0. PICK seen \in Shops :
          LET d == Decide(thr[t].s, row.items, PENDING, "retry", thr[t].s, seen)
              retry == row.attempt < MAX_ATTEMPTS /\ d.verdict = "ALLOW"
          IN  Becomes(t, [thr[t] EXCEPT !.at = IF retry THEN "cancelOld" ELSE "abandon",
                            !.row = row, !.dec = IF retry THEN d ELSE None,
                            !.news = {}, !.dead = FALSE])
      BY <2>10 DEF FailedAttempt
    <3>. DEFINE d == Decide(thr[t].s, row.items, PENDING, "retry", thr[t].s, seen)
                retry == row.attempt < MAX_ATTEMPTS /\ d.verdict = "ALLOW"
                place == IF retry THEN "cancelOld" ELSE "abandon"
                dec == IF retry THEN d ELSE None
    <3>1. Becomes(t, [thr[t] EXCEPT !.at = place, !.row = row, !.dec = dec,
                        !.news = {}, !.dead = FALSE])
      BY <3>0
    <3>2. place \in {"cancelOld", "abandon"}
      OBVIOUS
    <3>. HIDE DEF row, dec, place
    <3>. QED
      BY <2>9, <3>1, <3>2
  <2>11. CASE Reevaluate(t)
    BY <2>6, <2>11 DEF Reevaluate
  <2>12. CASE FirstLink(t) \/ SecondLink(t)
    BY <2>7, <2>12 DEF FirstLink, SecondLink
  <2>13. CASE SecondLinkFails(t)
    BY <2>8, <2>13 DEF SecondLinkFails
  <2>14. CASE ReadOpenRow(t) \/ ReleaseStep(t)
    <3>1. \/ Becomes(t, Idle)
          \/ \E place \in {"release", "canceled"} : Becomes(t, [thr[t] EXCEPT !.at = place])
      BY <2>14 DEF ReadOpenRow, ReleaseStep, AfterRelease
    <3>. QED
      BY <1>1, <3>1 DEF Becomes, Idle, Begun, Frame, PaidPlaces
  <2>. QED
    BY <2>1, <2>2, <2>3, <2>4, <2>5, <2>10, <2>11, <2>12, <2>13, <2>14
<1>. QED
  BY <1>2, <1>3

-----------------------------------------------------------------------------
LEMMA PaidInit == Init => PaidInv
<1>. SUFFICES ASSUME Init PROVE PaidInv
  OBVIOUS
<1>1. \A s \in SessionIds : Status(s) # COMPLETED /\ CommittedRows(s) = {}
  BY RowAssumption DEF Init, MandatesInit, Status, Exists, CommittedRows, RowsOf, Statuses,
     TERMINAL
<1>2. \A t \in Threads : PaidFrame(thr[t])
  BY DEF Init, Idle, Begun, PaidFrame
<1>. QED
  BY <1>1, <1>2 DEF PaidInv, CompletedWasPaid

LEMMA PaidNext ==
    ASSUME TypeOK, PaidInv, [Next]_vars
    PROVE  PaidInv'
<1>1. CompletedWasPaid'
  <2>. SUFFICES ASSUME NEW s \in SessionIds,
                       Status(s)' = COMPLETED \/ CommittedRows(s)' # {}
                PROVE  (CapturesOf(s) # {})'
    BY DEF CompletedWasPaid
  <2>1. \/ Status(s) = COMPLETED \/ CommittedRows(s) # {}
        \/ \E t \in Threads : thr[t].at \in {"commit", "complete"} /\ thr[t].s = s
    BY WhoCompletes, WhoCommits
  <2>2. CapturesOf(s) # {}
    BY <2>1 DEF PaidInv, CompletedWasPaid, PaidFrame
  <2>. QED
    BY <2>2, PaymentsGrow DEF CapturesOf
<1>2. ASSUME NEW t \in Threads PROVE PaidFrame(thr[t])'
  <2>1. CASE thr'[t] = thr[t]
    BY <2>1, PaidFrameStays DEF PaidInv
  <2>2. CASE thr'[t].at \notin PaidPlaces
    BY <2>2 DEF PaidPlaces, PaidFrame
  <2>3. CASE Crash
    BY <2>2, <2>3 DEF Crash, Idle, Begun, PaidPlaces
  <2>4. ASSUME NEW u \in Threads, Begin(u) \/ Continue(u) PROVE PaidFrame(thr[t])'
    <3>1. CASE u # t
      BY <2>1, <2>4, <3>1, OthersWait
    <3>2. CASE u = t
      BY <2>1, <2>2, <2>4, <3>2, PaidFrameMoves, PaidFrameLeaves DEF PaidInv
    <3>. QED
      BY <3>1, <3>2
  <2>. QED
    BY <2>1, <2>3, <2>4, NextKinds
<1>. QED
  BY <1>1, <1>2 DEF PaidInv

\* A session is completed, and money of its agent committed, only once a
\* captured payment of that session is on record: sessions.py calls
\* _finish_paid after _record_payment, and nothing deletes a payment.
THEOREM PaidFirst == Spec => []CompletedWasPaid
<1>1. Init => PaidInv
  BY PaidInit
<1>2. TypeOK /\ PaidInv /\ [Next]_vars => PaidInv'
  BY PaidNext
<1>3. PaidInv => CompletedWasPaid
  BY DEF PaidInv
<1>. QED
  BY <1>1, <1>2, <1>3, TypeCorrect, PTL DEF Spec

-----------------------------------------------------------------------------
(* PaymentsAreOwn is not inductive either: a payment is recorded some      *)
(* steps after the link it was polled for was read.  OwnInv follows the    *)
(* link from its creation to the row, from the row to the poll and to the  *)
(* payments a handler still has to record.                                 *)

Owns(s, l) == l \in LinkIds /\ links[l].session = s

OwnFrame(f) ==
    /\ f.at \in PollPlaces => Owns(f.s, f.row.link)
    /\ f.at \in {"pending", "retried"} => Owns(f.s, f.link)
    /\ f.at = "record" => \A p \in f.todo : Owns(f.s, p.link)

OwnRows == \A s \in SessionIds : Exists(s) /\ sessions[s].link # 0 => Owns(s, sessions[s].link)

OwnPayments == \A s \in SessionIds : \A r \in payments[s] : Owns(s, r.payment.link)

OwnInv == OwnPayments /\ OwnRows /\ \A t \in Threads : OwnFrame(thr[t])

\* The places at which a handler relies on a link of its session.
OwnPlaces == PollPlaces \cup {"pending", "retried", "record"}

-----------------------------------------------------------------------------
(* Links keep their session.                                               *)

LEMMA SetLinkKeeps ==
    ASSUME TypeOK, NEW k, NEW e, k \in LinkIds => e.session = links[k].session,
           links' = [links EXCEPT ![k] = e]
    PROVE  \A s, l : Owns(s, l) => Owns(s, l)'
<1>1. LinkIds' = LinkIds
  BY DEF LinkIds, TypeOK, DataOK
<1>2. \A l \in LinkIds : links'[l] = IF l = k THEN e ELSE links[l]
  BY DEF LinkIds, TypeOK, DataOK
<1>. QED
  BY <1>1, <1>2 DEF Owns

LEMMA NewLinkOwned ==
    ASSUME TypeOK, NEW x \in SessionIds, NEW a \in Nat, CreateLink(x, a)
    PROVE  /\ \A s, l : Owns(s, l) => Owns(s, l)'
           /\ Len(links) + 1 \in LinkIds' /\ links'[Len(links) + 1].session = x
<1>. DEFINE e == [session |-> x, amount |-> a, state |-> "created",
                  failed |-> 0, due |-> FALSE, refunded |-> 0, unheard |-> 0]
<1>1. links \in Seq(Link) /\ links' = Append(links, e) /\ e \in Link /\ e.session = x
  BY DEF TypeOK, DataOK, CreateLink, Link
<1>. HIDE DEF e
<1>2. /\ DOMAIN links' = 1..(Len(links) + 1) /\ DOMAIN links = 1..Len(links) /\ Len(links) \in Nat
      /\ \A l \in 1..Len(links) : links'[l] = links[l]
      /\ links'[Len(links) + 1] = e
  BY <1>1
<1>. QED
  BY <1>1, <1>2 DEF Owns, LinkIds

\* The call a thread makes on its way to SetPending or SetRetried.
LEMMA ThreadsLink ==
    ASSUME TypeOK, NEW t \in Threads, FirstLink(t) \/ SecondLink(t)
    PROVE  /\ \A s, l : Owns(s, l) => Owns(s, l)'
           /\ Len(links) + 1 \in LinkIds' /\ links'[Len(links) + 1].session = thr[t].s
<1>1. /\ thr[t].s \in SessionIds /\ thr[t].dec \in Decision
      /\ CreateLink(thr[t].s, thr[t].dec.total)
  BY Working DEF FirstLink, SecondLink, At, FrameOK
<1>2. thr[t].dec.total \in Nat
  BY <1>1 DEF Decision
<1>. QED
  BY <1>1, <1>2, NewLinkOwned

LEMMA CancelKeeps ==
    ASSUME TypeOK, NEW k, CancelLink(k)
    PROVE  \A s, l : Owns(s, l) => Owns(s, l)'
<1>. DEFINE e == [links[k] EXCEPT !.state = "cancelled"]
<1>1. links' = [links EXCEPT ![k] = e]
  BY DEF CancelLink
<1>2. k \in LinkIds => e.session = links[k].session
  BY LinkElement DEF Link
<1>. HIDE DEF e
<1>. QED
  BY <1>1, <1>2, SetLinkKeeps

LEMMA RefundKeeps ==
    ASSUME TypeOK, NEW k, NEW a, RefundPayment(k, a)
    PROVE  \A s, l : Owns(s, l) => Owns(s, l)'
<1>. DEFINE e == [links[k] EXCEPT !.refunded = @ + a]
<1>1. links' = [links EXCEPT ![k] = e]
  BY DEF RefundPayment
<1>2. k \in LinkIds => e.session = links[k].session
  BY LinkElement DEF Link
<1>. HIDE DEF e
<1>. QED
  BY <1>1, <1>2, SetLinkKeeps

LEMMA UnheardKeeps ==
    ASSUME TypeOK, NEW k, NEW a, RefundUnheard(k, a)
    PROVE  \A s, l : Owns(s, l) => Owns(s, l)'
<1>. DEFINE e == [links[k] EXCEPT !.unheard = @ + a]
<1>1. links' = [links EXCEPT ![k] = e]
  BY DEF RefundUnheard
<1>2. k \in LinkIds => e.session = links[k].session
  BY LinkElement DEF Link
<1>. HIDE DEF e
<1>. QED
  BY <1>1, <1>2, SetLinkKeeps

LEMMA WorldKeeps ==
    ASSUME TypeOK, NEW k \in LinkIds,
           CustomerFails(k) \/ CustomerPays(k) \/ LinkFallsDue(k) \/ LinkExpires(k)
    PROVE  \A s, l : Owns(s, l) => Owns(s, l)'
<1>1. PICK e : links' = [links EXCEPT ![k] = e] /\ e.session = links[k].session
  BY LinkElement DEF CustomerFails, CustomerPays, LinkFallsDue, LinkExpires, Link
<1>. QED
  BY <1>1, SetLinkKeeps

LEMMA OwnsStays ==
    ASSUME TypeOK, [Next]_vars
    PROVE  \A s, l : Owns(s, l) => Owns(s, l)'
<1>1. CASE UNCHANGED links
  BY <1>1 DEF Owns, LinkIds
<1>2. ASSUME NEW t \in Threads, Begin(t) PROVE UNCHANGED links
  BY <1>2, BeginKinds DEF OnlyThread, Create
<1>3. ASSUME NEW t \in Threads, Continue(t)
      PROVE  \/ UNCHANGED links
             \/ FirstLink(t) \/ SecondLink(t)
             \/ \E k : CancelLink(k)
             \/ \E k, a : RefundPayment(k, a) \/ RefundUnheard(k, a)
  <2>1. \/ UNCHANGED links
        \/ FirstLink(t) \/ SecondLink(t) \/ CancelQuietly(t) \/ CancelLinkStep(t) \/ RefundStep(t)
        \/ CancelLinkLost(t) \/ RefundLost(t)
    BY <1>3 DEF Continue, Store, RecordReview, Reevaluate, Refuse, ReserveStep, ReserveRaises,
       FirstLinkFails, SetPending, PollStep, PollFails, RecordPayment, RecordRaises,
       FinishPaid, NothingNew, FailedAttempt, CommitStep, CommitRaises, SetCompleted,
       SecondLinkFails, SetRetried, ReadOpenRow, ReleaseStep, ReleaseRaises, SetCanceled,
       CancelLinkRefused, FinalPoll, RefundFails, RecordRefundStep, RecordRefundRaises,
       OnlyThread, OnlySessions, OnlyMandates, rowVars
  <2>. QED
    BY SMTT(30), <2>1
       DEF CancelQuietly, TryCancel, CancelLinkStep, CancelLinkLost, RefundStep, RefundLost
<1>4. \/ UNCHANGED links
      \/ \E t \in Threads : Begin(t) \/ Continue(t)
      \/ \E k \in LinkIds :
           CustomerFails(k) \/ CustomerPays(k) \/ LinkFallsDue(k) \/ LinkExpires(k)
  BY DEF Next, vars, Merchant, Clock, Customer, Crash
<1>. QED
  BY <1>1, <1>2, <1>3, <1>4, ThreadsLink, CancelKeeps, RefundKeeps,
     UnheardKeeps, WorldKeeps

\* What the provider returns for a link was paid on a link of its session.
LEMMA PollOwns ==
    ASSUME TypeOK, NEW s, NEW l, Owns(s, l), NEW p \in Poll(l)
    PROVE  Owns(s, p.link)
<1>1. \A k \in LinkIds : \A q \in PaymentsOf(k) : q.link = k
  BY DEF PaymentsOf, Captured
<1>. QED
  BY <1>1 DEF Poll, Owns

-----------------------------------------------------------------------------
(* Rows and payments.                                                      *)

LEMMA OwnRowsNext ==
    ASSUME TypeOK, OwnInv, [Next]_vars
    PROVE  OwnRows'
<1>1. CASE UNCHANGED sessions
  BY <1>1, OwnsStays DEF OwnInv, OwnRows, Exists
<1>2. ASSUME NEW t \in Threads, NEW x \in SessionIds, NEW items \in Carts, Create(t, x, items)
      PROVE  OwnRows'
  <2>. DEFINE d == Decide(x, items, None, "preview", None, shop)
              row == [status |-> StatusFor(d), items |-> d.items, total |-> d.total,
                      mandate |-> d.mandate, attempt |-> 0, link |-> 0]
  <2>1. sessions' = [sessions EXCEPT ![x] = row] /\ row.link = 0
    BY <1>2 DEF Create
  <2>. HIDE DEF row
  <2>2. ASSUME NEW s \in SessionIds, Exists(s)', sessions'[s].link # 0
        PROVE  Exists(s) /\ sessions'[s] = sessions[s]
    BY <2>1, <2>2 DEF Exists, TypeOK, DataOK
  <2>. QED
    BY <2>2, OwnsStays DEF OwnInv, OwnRows
<1>3. ASSUME NEW t \in Threads, WritesRow(t) PROVE OwnRows'
  <2>1. PICK row \in Row : Written(t, row)
    BY <1>3, WrittenRow
  <2>2. row.link # 0 => Owns(thr[t].s, row.link)
    BY <1>3, <2>1, WrittenRow, RowAssumption DEF Written, OwnInv, OwnRows, OwnFrame, Exists
  <2>3. ASSUME NEW s \in SessionIds, Exists(s)', sessions'[s].link # 0
        PROVE  Owns(s, sessions'[s].link)
    <3>1. CASE s = thr[t].s
      BY <2>1, <2>2, <2>3, <3>1 DEF Written, SetRow, TypeOK, DataOK
    <3>2. CASE s # thr[t].s
      BY <2>1, <2>3, <3>2 DEF Written, SetRow, TypeOK, DataOK, OwnInv, OwnRows, Exists
    <3>. QED
      BY <3>1, <3>2
  <2>. QED
    BY <2>3, OwnsStays DEF OwnRows
<1>4. ASSUME NEW t \in Threads, Begin(t)
      PROVE  UNCHANGED sessions \/ \E x \in SessionIds, items \in Carts : Create(t, x, items)
  BY <1>4, BeginKinds DEF OnlyThread, rowVars
<1>5. ASSUME NEW t \in Threads, Continue(t)
      PROVE  UNCHANGED sessions \/ WritesRow(t)
  BY <1>5, ContinueKinds DEF OnlyThread, OnlyLinks, OnlyMandates, rowVars, RecordReview, RecordPayment
<1>. QED
  BY <1>1, <1>2, <1>3, <1>4, <1>5, NextKinds

LEMMA OwnPaymentsNext ==
    ASSUME TypeOK, OwnInv, [Next]_vars
    PROVE  OwnPayments'
<1>1. CASE UNCHANGED payments
  BY <1>1, OwnsStays DEF OwnInv, OwnPayments
<1>2. ASSUME NEW t \in Threads, NEW p \in thr[t].todo, RecordPayment(t, p) PROVE OwnPayments'
  <2>1. Owns(thr[t].s, p.link) /\ thr[t].s \in SessionIds
    BY <1>2, Working DEF RecordPayment, At, OwnInv, OwnFrame
  <2>2. ASSUME NEW s \in SessionIds, NEW r \in payments'[s]
        PROVE  r \in payments[s] \/ (s = thr[t].s /\ r.payment = p)
    BY <1>2, <2>1, <2>2 DEF RecordPayment, TypeOK, DataOK
  <2>. QED
    BY <2>1, <2>2, OwnsStays DEF OwnInv, OwnPayments
<1>3. ASSUME NEW t \in Threads, Begin(t) PROVE UNCHANGED payments
  BY <1>3, BeginKinds DEF OnlyThread, rowVars, Create
<1>4. ASSUME NEW t \in Threads, Continue(t)
      PROVE  UNCHANGED payments \/ \E p \in thr[t].todo : RecordPayment(t, p)
  BY <1>4, ContinueKinds DEF OnlyThread, OnlyLinks, OnlyMandates, OnlySessions, rowVars, RecordReview
<1>. QED
  BY <1>1, <1>2, <1>3, <1>4, NextKinds

-----------------------------------------------------------------------------
(* Frames.                                                                 *)

LEMMA OwnFrameStays ==
    ASSUME TypeOK, [Next]_vars, NEW t \in Threads, OwnFrame(thr[t]), thr'[t] = thr[t]
    PROVE  OwnFrame(thr[t])'
  BY OwnsStays DEF OwnFrame

\* The handlers that begin with the link of a row.
LEMMA OwnFrameBegins ==
    ASSUME TypeOK, OwnInv, [Next]_vars, NEW t \in Threads, NEW s \in SessionIds,
           ReconcileLoad(t, s) \/ CancelLoad(t, s)
    PROVE  OwnFrame(thr[t])'
<1>0. \A l \in LinkIds : l # 0
  BY DEF LinkIds, TypeOK, DataOK
<1>1. PICK op \in {"reconcile", "cancel"}, place \in {"poll", "cancelLink", "openRow"} :
        /\ thr' = [thr EXCEPT ![t] = Begun(op, s, place, sessions[s], None)]
        /\ place # "openRow" => Exists(s) /\ sessions[s].link # 0
  BY <1>0 DEF ReconcileLoad, CancelLoad, Becomes, TypeOK, DataOK, Status
<1>2. /\ thr'[t].at = place /\ thr'[t].s = s /\ thr'[t].row = sessions[s]
  BY <1>1 DEF Begun, TypeOK, FramesOK
<1>3. place # "openRow" => Owns(s, sessions[s].link)
  BY <1>1 DEF OwnInv, OwnRows
<1>. QED
  BY <1>2, <1>3, OwnsStays DEF OwnFrame

\* The steps into, and inside, the other places that rely on a link.
LEMMA OwnFrameMoves ==
    ASSUME TypeOK, [Next]_vars, NEW t \in Threads, OwnFrame(thr[t]),
           \/ PollStep(t) \/ FinalPoll(t) \/ CancelLinkRefused(t) \/ CancelLinkLost(t)
           \/ FirstLink(t) \/ SecondLink(t)
           \/ \E p \in thr[t].todo : RecordPayment(t, p)
    PROVE  OwnFrame(thr[t])'
<1>1. thr[t] \in Frame /\ thr \in [Threads -> Frame]
  BY DEF TypeOK, FramesOK
<1>2. CASE PollStep(t)
  <2>. DEFINE news == Poll(thr[t].row.link) \ {r.payment : r \in payments[thr[t].s]}
  <2>1. /\ thr'[t].s = thr[t].s /\ thr'[t].todo = news
        /\ thr'[t].at \in {"judge", "record"}
    BY <1>1, <1>2 DEF PollStep, Becomes, Frame
  <2>2. \A p \in news : Owns(thr[t].s, p.link)
    BY SMTT(30), <1>2, PollOwns DEF PollStep, At, OwnFrame
  <2>. HIDE DEF news
  <2>. QED
    BY <2>1, <2>2, OwnsStays DEF OwnFrame
<1>3. CASE FinalPoll(t)
  <2>1. thr[t].at = "finalPoll" /\ Owns(thr[t].s, thr[t].row.link)
    BY <1>3 DEF FinalPoll, At, OwnFrame
  <2>2. CASE Done(t)
    BY <1>1, <2>2 DEF Done, Becomes, Idle, Begun, OwnFrame
  <2>3. ASSUME NEW p \in Poll(thr[t].row.link),
               Becomes(t, [thr[t] EXCEPT !.at = "record", !.news = {p}, !.todo = {p}])
        PROVE  OwnFrame(thr[t])'
    <3>1. thr'[t].s = thr[t].s /\ thr'[t].todo = {p} /\ thr'[t].at = "record"
      BY <1>1, <2>3 DEF Becomes, Frame
    <3>2. Owns(thr[t].s, p.link)
      BY <2>1, PollOwns
    <3>. QED
      BY <3>1, <3>2, OwnsStays DEF OwnFrame
  <2>. QED
    BY ZenonT(40), <1>3, <2>2, <2>3 DEF FinalPoll
<1>4. CASE CancelLinkRefused(t) \/ CancelLinkLost(t)
  <2>1. /\ thr'[t].at = "finalPoll" /\ thr'[t].s = thr[t].s /\ thr'[t].row = thr[t].row
        /\ thr[t].at = "cancelLink"
    BY <1>1, <1>4 DEF CancelLinkLost, CancelLinkRefused, GoTo, Frame, At
  <2>. QED
    BY <2>1, OwnsStays DEF OwnFrame
<1>5. CASE FirstLink(t) \/ SecondLink(t)
  <2>. DEFINE n == Len(links) + 1
  <2>1. PICK place \in {"pending", "retried"} :
          thr' = [thr EXCEPT ![t] = [thr[t] EXCEPT !.at = place, !.link = n]]
    BY <1>5 DEF FirstLink, SecondLink, Becomes
  <2>. HIDE DEF n
  <2>2. thr'[t].at = place /\ thr'[t].s = thr[t].s /\ thr'[t].link = n
    BY <1>1, <2>1 DEF Frame
  <2>3. n \in LinkIds' /\ links'[n].session = thr[t].s
    BY <1>5, ThreadsLink DEF n
  <2>. QED
    BY <2>2, <2>3 DEF OwnFrame, Owns
<1>6. ASSUME NEW p \in thr[t].todo, RecordPayment(t, p) PROVE OwnFrame(thr[t])'
  <2>. DEFINE place == IF thr[t].todo = {p} THEN "judge" ELSE "record"
              todo == thr[t].todo \ {p}
  <2>1. /\ thr' = [thr EXCEPT ![t] = [thr[t] EXCEPT !.todo = todo, !.at = place]]
        /\ thr[t].at = "record" /\ place \in {"judge", "record"} /\ todo \subseteq thr[t].todo
    BY <1>6 DEF RecordPayment, Becomes, At
  <2>. HIDE DEF place, todo
  <2>2. thr'[t].s = thr[t].s /\ thr'[t].todo = todo /\ thr'[t].at = place
    BY <1>1, <2>1 DEF Frame
  <2>. QED
    BY <2>1, <2>2, OwnsStays DEF OwnFrame
<1>. QED
  BY <1>2, <1>3, <1>4, <1>5, <1>6

\* Every other step of a thread leads elsewhere.
LEMMA OwnFrameLeaves ==
    ASSUME TypeOK, NEW t \in Threads, Begin(t) \/ Continue(t),
           ~(\E s \in SessionIds : ReconcileLoad(t, s) \/ CancelLoad(t, s)),
           ~(PollStep(t) \/ FinalPoll(t) \/ CancelLinkRefused(t) \/ CancelLinkLost(t)),
           ~(FirstLink(t) \/ SecondLink(t)),
           ~(\E p \in thr[t].todo : RecordPayment(t, p))
    PROVE  thr'[t] = thr[t] \/ thr'[t].at \notin OwnPlaces
<1>1. thr[t] \in Frame /\ thr \in [Threads -> Frame]
  BY DEF TypeOK, FramesOK
<1>2. CASE Begin(t)
  <2>1. UNCHANGED thr \/ \E op, s, row, dec :
          \E place \in {"store", "review", "reserve", "refuse", "refund"} :
            Becomes(t, Begun(op, s, place, row, dec))
    BY ZenonT(40), <1>2 DEF Begin, Create, UpdateLoad, ReviewLoad, CompleteLoad, RefundLoad
  <2>. QED
    BY <1>1, <2>1 DEF Becomes, Begun, OwnPlaces
<1>3. CASE Continue(t)
  <2>1. \/ Done(t)
        \/ \E place \in {"reevaluate", "refuse", "firstLink", "secondLink", "openRow",
                         "commit", "complete", "recordRefund"} : GoTo(t, place)
        \/ Reevaluate(t) \/ SecondLinkFails(t) \/ FailedAttempt(t)
        \/ ReadOpenRow(t) \/ ReleaseStep(t)
    BY <1>3 DEF Continue, Store, RecordReview, Refuse, ReserveStep, ReserveRaises,
       FirstLinkFails, SetPending, PollFails, RecordRaises, FinishPaid, NothingNew, CommitStep,
       CommitRaises, SetCompleted, CancelQuietly, SetRetried, ReleaseRaises, SetCanceled,
       CancelLinkStep, RefundStep, RefundLost, RefundFails, RecordRefundStep, RecordRefundRaises
  <2>2. CASE Done(t)
    BY <1>1, <2>2 DEF Done, Becomes, Idle, Begun, OwnPlaces
  <2>3. ASSUME NEW place \in {"reevaluate", "refuse", "firstLink", "secondLink", "openRow",
                              "commit", "complete", "recordRefund"},
               GoTo(t, place)
        PROVE  thr'[t].at \notin OwnPlaces
    BY <1>1, <2>3 DEF GoTo, Frame, OwnPlaces
  <2>4. ASSUME NEW dec, Becomes(t, [thr[t] EXCEPT !.at = "store", !.dec = dec])
        PROVE  thr'[t].at \notin OwnPlaces
    BY <1>1, <2>4 DEF Becomes, Frame, OwnPlaces
  <2>5. ASSUME NEW row, Becomes(t, [thr[t] EXCEPT !.at = "abandon", !.row = row])
        PROVE  thr'[t].at \notin OwnPlaces
    BY <1>1, <2>5 DEF Becomes, Frame, OwnPlaces
  <2>6. ASSUME NEW place \in {"cancelOld", "abandon"}, NEW row, NEW dec,
               Becomes(t, [thr[t] EXCEPT !.at = place, !.row = row, !.dec = dec,
                             !.news = {}, !.dead = FALSE])
        PROVE  thr'[t].at \notin OwnPlaces
    BY <1>1, <2>6 DEF Becomes, Frame, OwnPlaces
  <2>7. CASE FailedAttempt(t)
    <3>. DEFINE row == sessions[thr[t].s]
    <3>0. PICK seen \in Shops :
          LET d == Decide(thr[t].s, row.items, PENDING, "retry", thr[t].s, seen)
              retry == row.attempt < MAX_ATTEMPTS /\ d.verdict = "ALLOW"
          IN  Becomes(t, [thr[t] EXCEPT !.at = IF retry THEN "cancelOld" ELSE "abandon",
                            !.row = row, !.dec = IF retry THEN d ELSE None,
                            !.news = {}, !.dead = FALSE])
      BY <2>7 DEF FailedAttempt
    <3>. DEFINE d == Decide(thr[t].s, row.items, PENDING, "retry", thr[t].s, seen)
                retry == row.attempt < MAX_ATTEMPTS /\ d.verdict = "ALLOW"
                place == IF retry THEN "cancelOld" ELSE "abandon"
                dec == IF retry THEN d ELSE None
    <3>1. Becomes(t, [thr[t] EXCEPT !.at = place, !.row = row, !.dec = dec,
                        !.news = {}, !.dead = FALSE])
      BY <3>0
    <3>2. place \in {"cancelOld", "abandon"}
      OBVIOUS
    <3>. HIDE DEF row, dec, place
    <3>. QED
      BY <2>6, <3>1, <3>2
  <2>8. CASE Reevaluate(t)
    BY <2>4, <2>8 DEF Reevaluate
  <2>9. CASE SecondLinkFails(t)
    BY <2>5, <2>9 DEF SecondLinkFails
  <2>10. CASE ReadOpenRow(t) \/ ReleaseStep(t)
    <3>1. \/ Becomes(t, Idle)
          \/ \E place \in {"release", "canceled"} : Becomes(t, [thr[t] EXCEPT !.at = place])
      BY <2>10 DEF ReadOpenRow, ReleaseStep, AfterRelease
    <3>. QED
      BY <1>1, <3>1 DEF Becomes, Idle, Begun, Frame, OwnPlaces
  <2>. QED
    BY <2>1, <2>2, <2>3, <2>7, <2>8, <2>9, <2>10
<1>. QED
  BY <1>2, <1>3

LEMMA OwnFramesNext ==
    ASSUME TypeOK, OwnInv, [Next]_vars, NEW t \in Threads
    PROVE  OwnFrame(thr[t])'
<1>1. CASE thr'[t] = thr[t]
  BY <1>1, OwnFrameStays DEF OwnInv
<1>2. CASE thr'[t].at \notin OwnPlaces
  BY <1>2 DEF OwnPlaces, OwnFrame
<1>3. CASE Crash
  BY <1>2, <1>3 DEF Crash, Idle, Begun, OwnPlaces
<1>4. ASSUME NEW u \in Threads, Begin(u) \/ Continue(u) PROVE OwnFrame(thr[t])'
  <2>1. CASE u # t
    BY <1>1, <1>4, <2>1, OthersWait
  <2>2. CASE u = t
    BY <1>1, <1>2, <1>4, <2>2, OwnFrameBegins, OwnFrameMoves, OwnFrameLeaves DEF OwnInv
  <2>. QED
    BY <2>1, <2>2
<1>. QED
  BY <1>1, <1>3, <1>4, NextKinds

-----------------------------------------------------------------------------
LEMMA OwnInit == Init => OwnInv
  BY DEF Init, OwnInv, OwnPayments, OwnRows, OwnFrame, Exists, Idle, Begun

LEMMA OwnAlways == Spec => []OwnInv
<1>1. Init => OwnInv
  BY OwnInit
<1>2. TypeOK /\ OwnInv /\ [Next]_vars => OwnInv'
  BY OwnRowsNext, OwnPaymentsNext, OwnFramesNext DEF OwnInv
<1>. QED
  BY <1>1, <1>2, TypeCorrect, PTL DEF Spec

\* Every payment on record was made on a link of its own session, whichever
\* handler polled for it and however many run at once: the adapter compares
\* the notes of a payment with the session of the link it was asked about.
THEOREM OwnPaymentsOnly == Spec => []PaymentsAreOwn
<1>1. OwnInv => PaymentsAreOwn
  BY DEF OwnInv, OwnPayments, Owns, PaymentsAreOwn
<1>. QED
  BY <1>1, OwnAlways, PTL

-----------------------------------------------------------------------------
(* Reservations and refunds.                                               *)

\* How a step may change the reservations.
LEMMA MoneySteps ==
    ASSUME TypeOK, [Next]_vars
    PROVE  \/ UNCHANGED reservations
           \/ \E s \in SessionIds : \E m, a : Reserve(s, m, a)
           \/ \E s \in SessionIds : Commit(s) \/ Release(s)
<1>1. ASSUME NEW t \in Threads, MovesMoney(t)
      PROVE  \/ UNCHANGED reservations
             \/ \E s \in SessionIds : \E m, a : Reserve(s, m, a)
             \/ \E s \in SessionIds : Commit(s) \/ Release(s)
  <2>1. thr[t].at # "idle" => thr[t].s \in SessionIds
    BY Working DEF FrameOK
  <2>2. CASE ReserveStep(t)
    BY <2>1, <2>2 DEF ReserveStep, At
  <2>3. CASE CommitStep(t)
    BY <2>1, <2>3 DEF CommitStep, At
  <2>4. CASE ReleaseStep(t)
    BY <2>1, <2>4 DEF ReleaseStep, At
  <2>5. CASE RecordRefundStep(t)
    BY <2>5 DEF RecordRefundStep, RecordRefund
  <2>. QED
    BY <1>1, <2>2, <2>3, <2>4, <2>5 DEF MovesMoney
<1>2. ASSUME NEW t \in Threads, Begin(t) PROVE UNCHANGED reservations
  BY <1>2, BeginKinds DEF OnlyThread, Create, mandateVars
<1>3. ASSUME NEW t \in Threads, Continue(t) PROVE UNCHANGED reservations \/ MovesMoney(t)
  BY <1>3, ContinueKinds DEF OnlyThread, OnlyLinks, OnlySessions, RecordReview, RecordPayment, mandateVars
<1>. QED
  BY <1>1, <1>2, <1>3, NextKinds

\* A row that commit has changed is no longer open.
LEMMA CommittedNotOpen ==
    ASSUME TypeOK, NEW s, NEW r \in OpenRows(s),
           NEW q, q = [r EXCEPT !.state = "committed"]
    PROVE  q.state = "committed"
  BY DEF OpenRows, TypeOK, DataOK, Reservation

-----------------------------------------------------------------------------
(* One open reservation.                                                   *)

OneOpen == \A s \in SessionIds : \A p, q \in OpenRows(s) : p = q

LEMMA OneOpenInit == Init => OneOpen
  BY DEF Init, MandatesInit, OneOpen, OpenRows

LEMMA OneOpenNext ==
    ASSUME TypeOK, OneOpen, [Next]_vars
    PROVE  OneOpen'
<1>1. CASE UNCHANGED reservations
  BY <1>1 DEF OneOpen, OpenRows
<1>2. ASSUME NEW s \in SessionIds, NEW m, NEW a, Reserve(s, m, a) PROVE OneOpen'
  <2>. DEFINE row == [id |-> CHOOSE i \in FreshIds : TRUE, session |-> s, mandate |-> m,
                      amount |-> a, day |-> today, state |-> "reserved"]
  <2>1. reservations' = reservations \cup {row} /\ row.session = s
    BY <1>2 DEF Reserve
  <2>. HIDE DEF row
  <2>2. OpenRows(s)' \subseteq {row}
    BY <1>2, <2>1 DEF Reserve, CanReserve, OpenRows
  <2>3. \A x \in SessionIds \ {s} : OpenRows(x)' = OpenRows(x)
    BY <2>1 DEF OpenRows
  <2>. QED
    BY <2>2, <2>3 DEF OneOpen
<1>3. ASSUME NEW s \in SessionIds, Commit(s) PROVE OneOpen'
  <2>1. \A r \in reservations' : r.state = "reserved" => r \in reservations
    BY <1>3, CommittedNotOpen DEF Commit
  <2>. QED
    BY <2>1 DEF OneOpen, OpenRows
<1>4. ASSUME NEW s \in SessionIds, Release(s) PROVE OneOpen'
  BY <1>4 DEF Release, OneOpen, OpenRows
<1>. QED
  BY <1>1, <1>2, <1>3, <1>4, MoneySteps

LEMMA OneOpenCounts == OneOpen => AtMostOneOpen
<1>. SUFFICES ASSUME OneOpen, NEW s \in SessionIds
              PROVE  Cardinality(OpenRows(s)) <= 1
  BY DEF AtMostOneOpen
<1>1. CASE OpenRows(s) = {}
  BY <1>1, FS_EmptySet
<1>2. ASSUME NEW r \in OpenRows(s) PROVE Cardinality(OpenRows(s)) <= 1
  <2>1. OpenRows(s) = {r}
    BY <1>2 DEF OneOpen
  <2>2. Cardinality({r}) = 1
    BY FS_Singleton
  <2>. QED
    BY <2>1, <2>2
<1>. QED
  BY <1>1, <1>2

\* However handlers overlap and wherever they are killed, no session holds
\* two open reservations: reserve looks for one in the transaction that
\* inserts.
THEOREM OneReservation == Spec => []AtMostOneOpen
<1>1. Init => OneOpen
  BY OneOpenInit
<1>2. TypeOK /\ OneOpen /\ [Next]_vars => OneOpen'
  BY OneOpenNext
<1>3. OneOpen => AtMostOneOpen
  BY OneOpenCounts
<1>. QED
  BY <1>1, <1>2, <1>3, TypeCorrect, PTL DEF Spec

-----------------------------------------------------------------------------
(* Committed money.                                                        *)

LEMMA CommittedStays ==
    ASSUME TypeOK, [Next]_vars
    PROVE  \A s \in SessionIds : CommittedRows(s) \subseteq CommittedRows(s)'
<1>. SUFFICES ASSUME NEW r \in reservations, r.state = "committed"
              PROVE  r \in reservations'
  BY DEF CommittedRows, RowsOf
<1>1. \A s : r \notin OpenRows(s)
  BY DEF OpenRows
<1>. QED
  BY <1>1, MoneySteps DEF Reserve, Commit, Release

\* No step takes back or changes money that was committed: _transition only
\* touches rows that are still reserved.
THEOREM CommittedForGood == Spec => CommittedIsFinal
<1>1. TypeOK /\ [Next]_vars => [\A s \in SessionIds : CommittedRows(s) \subseteq CommittedRows(s)']_vars
  BY CommittedStays
<1>. QED
  BY <1>1, TypeCorrect, PTL DEF Spec, CommittedIsFinal
-----------------------------------------------------------------------------
(* Every commit has a capture of its own.                                  *)
(*                                                                         *)
(* The handler that puts a capture on record is the only one that goes on  *)
(* to commit for it: it holds a claim from the insert to the commit.  The  *)
(* claims and the committed rows of a session together never outnumber its *)
(* captures, since the unique key lets a capture be inserted once.         *)

Claim(f) ==
    \/ f.at = "record" /\ \E p \in f.news \ f.todo : IsCaptured(p)
    \/ f.at = "judge" /\ FoundCapture(f)
    \/ f.at = "commit"

Claims(s) == {t \in Threads : thr[t].s = s /\ Claim(thr[t])}

Backed(s) ==
    /\ IsFiniteSet(Claims(s))
    /\ IsFiniteSet(CommittedRows(s))
    /\ IsFiniteSet(CapturesOf(s))
    /\ Cardinality(CommittedRows(s)) + Cardinality(Claims(s)) <= Cardinality(CapturesOf(s))

BackedInv == \A s \in SessionIds : Backed(s)

LEMMA ClaimPlaces ==
    ASSUME NEW f, Claim(f)
    PROVE  f.at \in PaidPlaces
  BY DEF Claim, PaidPlaces

\* A thread has a claim after a step because it had one before, or because
\* it has just recorded a capture.
LEMMA ClaimSteps ==
    ASSUME TypeOK, [Next]_vars, NEW t \in Threads, Claim(thr[t])'
    PROVE  \/ Claim(thr[t]) /\ thr'[t].s = thr[t].s /\ ~CommitStep(t)
           \/ /\ thr'[t].s = thr[t].s
              /\ \E p \in thr[t].todo : RecordPayment(t, p) /\ IsCaptured(p)
<1>. DEFINE Kept == Claim(thr[t]) /\ thr'[t].s = thr[t].s /\ ~CommitStep(t)
            Recording == \E p \in thr[t].todo : RecordPayment(t, p) /\ IsCaptured(p)
<1>0. thr[t] \in Frame /\ thr \in [Threads -> Frame]
  BY DEF TypeOK, FramesOK
<1>1. thr'[t].at \in PaidPlaces /\ thr'[t].at # "complete"
  BY DEF Claim, PaidPlaces
<1>2. CASE CommitStep(t)
  BY <1>0, <1>1, <1>2 DEF CommitStep, GoTo, Frame
<1>3. CASE thr'[t] = thr[t]
  BY <1>2, <1>3 DEF Claim, FoundCapture
<1>4. CASE Crash
  BY <1>1, <1>4 DEF Crash, Idle, Begun, PaidPlaces
<1>5. CASE PollStep(t)
  <2>. DEFINE news == Poll(thr[t].row.link) \ {r.payment : r \in payments[thr[t].s]}
  <2>1. /\ thr'[t].news = news /\ thr'[t].todo = news
        /\ thr'[t].at = IF news = {} THEN "judge" ELSE "record"
    BY <1>0, <1>5 DEF PollStep, Becomes, Frame
  <2>. HIDE DEF news
  <2>2. \/ thr'[t].at = "judge" /\ thr'[t].news = {}
        \/ thr'[t].at = "record" /\ thr'[t].news = thr'[t].todo
    BY <2>1
  <2>. QED
    BY <2>2 DEF Claim, FoundCapture
<1>6. CASE FinalPoll(t)
  <2>1. Done(t) \/ \E p : Becomes(t, [thr[t] EXCEPT !.at = "record", !.news = {p}, !.todo = {p}])
    BY <1>6 DEF FinalPoll
  <2>2. CASE Done(t)
    BY <1>0, <1>1, <2>2 DEF Done, Becomes, Idle, Begun, PaidPlaces
  <2>3. ASSUME NEW p, Becomes(t, [thr[t] EXCEPT !.at = "record", !.news = {p}, !.todo = {p}])
        PROVE  thr'[t].at = "record" /\ thr'[t].news = thr'[t].todo
    BY <1>0, <2>3 DEF Becomes, Frame
  <2>. QED
    BY <2>1, <2>2, <2>3 DEF Claim, FoundCapture
<1>7. CASE FinishPaid(t)
  <2>1. /\ thr'[t].s = thr[t].s /\ thr[t].at = "judge" /\ FoundCapture(thr[t])
    BY <1>0, <1>7 DEF FinishPaid, GoTo, Frame, At
  <2>. QED
    BY <1>2, <2>1 DEF Claim
<1>8. ASSUME NEW p \in thr[t].todo, RecordPayment(t, p) PROVE Kept \/ (thr'[t].s = thr[t].s /\ Recording)
  <2>1. /\ thr'[t].s = thr[t].s /\ thr'[t].news = thr[t].news /\ thr'[t].todo = thr[t].todo \ {p}
        /\ thr'[t].at = (IF thr[t].todo = {p} THEN "judge" ELSE "record")
        /\ thr[t].at = "record"
    <3>. DEFINE place == IF thr[t].todo = {p} THEN "judge" ELSE "record"
                todo == thr[t].todo \ {p}
    <3>1. thr' = [thr EXCEPT ![t] = [thr[t] EXCEPT !.todo = todo, !.at = place]]
      BY <1>8 DEF RecordPayment, Becomes
    <3>2. thr[t].at = "record"
      BY <1>8 DEF RecordPayment, At
    <3>. HIDE DEF place, todo
    <3>3. /\ thr'[t].s = thr[t].s /\ thr'[t].news = thr[t].news /\ thr'[t].todo = todo
          /\ thr'[t].at = place
      BY <1>0, <3>1 DEF Frame
    <3>. QED
      BY <3>2, <3>3 DEF place, todo
  <2>2. \E q \in thr[t].news : IsCaptured(q) /\ q \notin thr[t].todo \ {p}
    BY <2>1 DEF Claim, FoundCapture
  <2>3. CASE IsCaptured(p)
    BY <1>8, <2>1, <2>3
  <2>4. CASE ~IsCaptured(p)
    <3>1. \E q \in thr[t].news \ thr[t].todo : IsCaptured(q)
      BY <2>2, <2>4
    <3>. QED
      BY <1>2, <2>1, <3>1 DEF Claim
  <2>. QED
    BY <2>3, <2>4
<1>9. ASSUME NEW u \in Threads, Begin(u) \/ Continue(u) PROVE Kept \/ (thr'[t].s = thr[t].s /\ Recording)
  <2>1. CASE u # t
    BY <1>3, <1>9, <2>1, OthersWait
  <2>2. CASE u = t
    <3>. HIDE DEF Kept, Recording
    <3>1. CASE PollStep(t) \/ FinalPoll(t) \/ FinishPaid(t) \/ CommitStep(t)
      BY <1>2, <1>5, <1>6, <1>7, <3>1 DEF Kept, Recording
    <3>2. CASE \E p \in thr[t].todo : RecordPayment(t, p)
      BY <1>8, <3>2
    <3>3. CASE /\ ~(PollStep(t) \/ FinalPoll(t) \/ FinishPaid(t) \/ CommitStep(t))
               /\ ~(\E p \in thr[t].todo : RecordPayment(t, p))
      BY <1>1, <1>3, <1>9, <2>2, <3>3, PaidFrameLeaves DEF Kept, Recording
    <3>. QED
      BY <3>1, <3>2, <3>3
  <2>. QED
    BY <2>1, <2>2
<1>. QED
  BY <1>3, <1>4, <1>9, NextKinds

\* A step that records no capture makes no claim.
LEMMA NoNewClaims ==
    ASSUME TypeOK, [Next]_vars,
           \A t \in Threads : ~(\E p \in thr[t].todo : RecordPayment(t, p) /\ IsCaptured(p))
    PROVE  \A s : Claims(s)' \subseteq Claims(s)
  BY ClaimSteps DEF Claims
\* Only CommitStep changes what is committed.
LEMMA CommittedSame ==
    ASSUME TypeOK, [Next]_vars, \A t \in Threads : ~CommitStep(t)
    PROVE  \A s : CommittedRows(s)' = CommittedRows(s)
<1>1. CASE UNCHANGED reservations
  BY <1>1 DEF CommittedRows, RowsOf
<1>2. ASSUME NEW t \in Threads, MovesMoney(t)
      PROVE  \A s : CommittedRows(s)' = CommittedRows(s)
  <2>1. CASE ReserveStep(t)
    <3>. DEFINE r == [id |-> CHOOSE i \in FreshIds : TRUE, session |-> thr[t].s,
                      mandate |-> thr[t].dec.mandate, amount |-> thr[t].dec.total,
                      day |-> today, state |-> "reserved"]
    <3>1. reservations' = reservations \cup {r} /\ r.state = "reserved"
      BY <2>1 DEF ReserveStep, Reserve
    <3>. HIDE DEF r
    <3>. QED
      BY <3>1 DEF CommittedRows, RowsOf
  <2>2. CASE ReleaseStep(t)
    <3>1. reservations' = reservations \ OpenRows(thr[t].s)
      BY <2>2 DEF ReleaseStep, Release
    <3>. QED
      BY <3>1 DEF CommittedRows, RowsOf, OpenRows
  <2>3. CASE RecordRefundStep(t)
    BY <1>1, <2>3 DEF RecordRefundStep, RecordRefund
  <2>. QED
    BY <1>2, <2>1, <2>2, <2>3 DEF MovesMoney
<1>3. ASSUME NEW t \in Threads, Begin(t) PROVE UNCHANGED reservations
  BY <1>3, BeginKinds DEF OnlyThread, Create, mandateVars
<1>4. ASSUME NEW t \in Threads, Continue(t) PROVE UNCHANGED reservations \/ MovesMoney(t)
  BY <1>4, ContinueKinds DEF OnlyThread, OnlyLinks, OnlySessions, RecordReview, RecordPayment, mandateVars
<1>. QED
  BY <1>1, <1>2, <1>3, <1>4, NextKinds

\* A commit changes the one open row of its session.
LEMMA CommitsOne ==
    ASSUME TypeOK, OneOpen, NEW t \in Threads, CommitStep(t), NEW s \in SessionIds
    PROVE  \/ s # thr[t].s /\ CommittedRows(s)' = CommittedRows(s)
           \/ s = thr[t].s /\ \E q : CommittedRows(s)' = CommittedRows(s) \cup {q}
<1>. DEFINE x == thr[t].s
            Turned == {[r EXCEPT !.state = "committed"] : r \in OpenRows(x)}
<1>1. /\ thr[t].s \in SessionIds
      /\ OpenRows(x) # {}
      /\ reservations' = (reservations \ OpenRows(x)) \cup Turned
  BY Working DEF CommitStep, Commit, At
<1>2. PICK r \in reservations : OpenRows(x) = {r} /\ r.session = x /\ r.state = "reserved"
  BY <1>1 DEF OneOpen, OpenRows
<1>. DEFINE q == [r EXCEPT !.state = "committed"]
<1>3. Turned = {q} /\ q.session = x /\ q.state = "committed"
  BY <1>2 DEF TypeOK, DataOK, Reservation
<1>4. reservations' = (reservations \ {r}) \cup {q}
  BY <1>1, <1>2, <1>3
<1>. HIDE DEF q, Turned
<1>. QED
  BY <1>2, <1>3, <1>4 DEF CommittedRows, RowsOf

\* A payment that is recorded is new, and it counts if it was captured.
LEMMA RecordsOne ==
    ASSUME TypeOK, NEW t \in Threads, NEW p \in thr[t].todo, RecordPayment(t, p),
           NEW s \in SessionIds
    PROVE  \/ /\ s # thr[t].s \/ ~IsCaptured(p)
              /\ CapturesOf(s)' = CapturesOf(s)
           \/ /\ s = thr[t].s /\ IsCaptured(p)
              /\ \E r : r \notin CapturesOf(s) /\ CapturesOf(s)' = CapturesOf(s) \cup {r}
<1>. DEFINE x == thr[t].s
            r == [payment |-> p, day |-> today]
<1>1. /\ x \in SessionIds /\ \A q \in payments[x] : q.payment # p
      /\ payments' = [payments EXCEPT ![x] = @ \cup {r}]
  BY Working DEF RecordPayment, At
<1>2. r.payment = p /\ r \notin payments[x]
  BY <1>1
<1>. HIDE DEF r
<1>3. payments'[s] = IF s = x THEN payments[s] \cup {r} ELSE payments[s]
  BY <1>1 DEF TypeOK, DataOK
<1>. QED
  BY <1>2, <1>3 DEF CapturesOf

LEMMA CapturesSame ==
    ASSUME TypeOK, [Next]_vars,
           \A t \in Threads : ~(\E p \in thr[t].todo : RecordPayment(t, p) /\ IsCaptured(p))
    PROVE  \A s \in SessionIds : CapturesOf(s)' = CapturesOf(s)
<1>1. CASE UNCHANGED payments
  BY <1>1 DEF CapturesOf
<1>2. ASSUME NEW t \in Threads, Begin(t) PROVE UNCHANGED payments
  BY <1>2, BeginKinds DEF OnlyThread, rowVars, Create
<1>3. ASSUME NEW t \in Threads, Continue(t)
      PROVE  UNCHANGED payments \/ \E p \in thr[t].todo : RecordPayment(t, p)
  BY <1>3, ContinueKinds DEF OnlyThread, OnlyLinks, OnlyMandates, OnlySessions, rowVars, RecordReview
<1>. QED
  BY <1>1, <1>2, <1>3, RecordsOne, NextKinds

LEMMA OneMore ==
    ASSUME NEW S, IsFiniteSet(S), NEW x
    PROVE  /\ IsFiniteSet(S \cup {x})
           /\ Cardinality(S) \in Nat /\ Cardinality(S \cup {x}) \in Nat
           /\ Cardinality(S \cup {x}) <= Cardinality(S) + 1
<1>1. /\ IsFiniteSet(S \cup {x})
      /\ Cardinality(S \cup {x}) = IF x \in S THEN Cardinality(S) ELSE Cardinality(S) + 1
  BY FS_AddElement
<1>2. Cardinality(S) \in Nat /\ Cardinality(S \cup {x}) \in Nat
  BY <1>1, FS_CardinalityType
<1>. QED
  BY <1>1, <1>2

LEMMA BackedInit == Init => BackedInv
<1>. SUFFICES ASSUME Init, NEW s \in SessionIds PROVE Backed(s)
  BY DEF BackedInv
<1>1. Claims(s) = {}
  BY DEF Init, Idle, Begun, Claims, Claim
<1>2. CommittedRows(s) = {} /\ CapturesOf(s) = {}
  BY DEF Init, MandatesInit, CommittedRows, RowsOf, CapturesOf
<1>. QED
  BY <1>1, <1>2, FS_EmptySet DEF Backed

LEMMA BackedNext ==
    ASSUME TypeOK, OneOpen, BackedInv, [Next]_vars
    PROVE  BackedInv'
<1>. SUFFICES ASSUME NEW s \in SessionIds PROVE Backed(s)'
  BY DEF BackedInv
<1>0. /\ Backed(s)
      /\ IsFiniteSet(Claims(s)) /\ Cardinality(Claims(s)) \in Nat
      /\ IsFiniteSet(CommittedRows(s)) /\ Cardinality(CommittedRows(s)) \in Nat
      /\ IsFiniteSet(CapturesOf(s)) /\ Cardinality(CapturesOf(s)) \in Nat
  BY FS_CardinalityType DEF BackedInv, Backed
<1>. DEFINE A == CommittedRows(s)
            B == Claims(s)
            C == CapturesOf(s)
<1>1. /\ IsFiniteSet(A) /\ IsFiniteSet(B) /\ IsFiniteSet(C)
      /\ Cardinality(A) \in Nat /\ Cardinality(B) \in Nat /\ Cardinality(C) \in Nat
      /\ Cardinality(A) + Cardinality(B) <= Cardinality(C)
  BY FS_CardinalityType DEF BackedInv, Backed
<1>2. SUFFICES /\ IsFiniteSet(A') /\ IsFiniteSet(B') /\ IsFiniteSet(C')
               /\ Cardinality(A') + Cardinality(B') <= Cardinality(C')
  BY DEF Backed
<1>. HIDE DEF A, B, C
<1>3. ASSUME NEW t \in Threads, NEW p \in thr[t].todo, RecordPayment(t, p), IsCaptured(p)
      PROVE  /\ IsFiniteSet(A') /\ IsFiniteSet(B') /\ IsFiniteSet(C')
             /\ Cardinality(A') + Cardinality(B') <= Cardinality(C')
  <2>1. A' = A
    BY <1>3 DEF RecordPayment, mandateVars, CommittedRows, RowsOf, A
  <2>2. B' \subseteq IF s = thr[t].s THEN B \cup {t} ELSE B
    <3>1. ASSUME NEW u \in B' PROVE u \in B \/ (u = t /\ thr'[t].s = thr[t].s)
      <4>1. u \in Threads /\ Claim(thr[u])' /\ thr'[u].s = s
        BY <3>1 DEF B, Claims
      <4>2. u # t => thr'[u] = thr[u]
        BY <1>3, <4>1, OthersWait DEF Continue
      <4>. QED
        BY <4>1, <4>2, ClaimSteps DEF B, Claims, Claim, FoundCapture
    <3>2. ASSUME NEW u \in B' PROVE thr'[u].s = s
      BY <3>2 DEF B, Claims
    <3>. QED
      BY <3>1, <3>2
  <2>3. CASE s # thr[t].s
    <3>1. C' = C
      BY <1>3, <2>3, RecordsOne DEF C
    <3>2. B' \in SUBSET B
      BY <2>2, <2>3
    <3>3. IsFiniteSet(B') /\ Cardinality(B') <= Cardinality(B) /\ Cardinality(B') \in Nat
      BY <1>1, <3>2, FS_Subset, FS_CardinalityType
    <3>. QED
      BY <1>1, <2>1, <3>1, <3>3
  <2>4. CASE s = thr[t].s
    <3>1. PICK r : r \notin C /\ C' = C \cup {r}
      BY <1>3, <2>4, RecordsOne DEF C
    <3>2. IsFiniteSet(C') /\ Cardinality(C') = Cardinality(C) + 1
      BY <1>1, <3>1, FS_AddElement
    <3>3. /\ IsFiniteSet(B \cup {t}) /\ Cardinality(B \cup {t}) \in Nat
          /\ Cardinality(B \cup {t}) <= Cardinality(B) + 1
      BY <1>1, OneMore
    <3>4. B' \in SUBSET (B \cup {t})
      BY <2>2, <2>4
    <3>5. IsFiniteSet(B') /\ Cardinality(B') <= Cardinality(B \cup {t}) /\ Cardinality(B') \in Nat
      BY <3>3, <3>4, FS_Subset, FS_CardinalityType
    <3>. QED
      BY <1>1, <2>1, <3>2, <3>3, <3>5
  <2>. QED
    BY <2>3, <2>4
<1>4. ASSUME \A t \in Threads : ~(\E p \in thr[t].todo : RecordPayment(t, p) /\ IsCaptured(p))
      PROVE  /\ IsFiniteSet(A') /\ IsFiniteSet(B') /\ IsFiniteSet(C')
             /\ Cardinality(A') + Cardinality(B') <= Cardinality(C')
  <2>1. C' = C
    BY <1>4, CapturesSame DEF C
  <2>2. B' \in SUBSET B
    BY <1>4, NoNewClaims DEF B
  <2>3. IsFiniteSet(B') /\ Cardinality(B') <= Cardinality(B) /\ Cardinality(B') \in Nat
    BY <1>1, <2>2, FS_Subset, FS_CardinalityType
  <2>4. CASE A' = A
    BY <1>1, <2>1, <2>3, <2>4
  <2>5. ASSUME NEW t \in Threads, CommitStep(t), s = thr[t].s, NEW q, A' = A \cup {q}
        PROVE  /\ IsFiniteSet(A')
               /\ Cardinality(A') + Cardinality(B') <= Cardinality(C')
    <3>1. IsFiniteSet(A') /\ Cardinality(A') <= Cardinality(A) + 1 /\ Cardinality(A') \in Nat
      BY <1>1, <2>5, OneMore
    <3>2. t \in B
      BY <2>5 DEF CommitStep, At, Claim, B, Claims
    <3>3. t \notin B'
      <4>1. thr'[t].at = "complete"
        BY <2>5 DEF CommitStep, GoTo, TypeOK, FramesOK, Frame
      <4>. QED
        BY <4>1 DEF B, Claims, Claim
    <3>4. B' \in SUBSET (B \ {t})
      BY <2>2, <3>3
    <3>5. IsFiniteSet(B \ {t}) /\ Cardinality(B \ {t}) = Cardinality(B) - 1
      BY <1>1, <3>2, FS_RemoveElement
    <3>6. Cardinality(B') <= Cardinality(B) - 1
      BY <3>4, <3>5, FS_Subset
    <3>. QED
      BY <1>1, <2>1, <2>3, <3>1, <3>6
  <2>6. A' = A \/ \E t \in Threads : CommitStep(t) /\ s = thr[t].s /\ \E q : A' = A \cup {q}
    BY CommittedSame, CommitsOne DEF A
  <2>. QED
    BY <1>1, <2>1, <2>3, <2>4, <2>5, <2>6
<1>. QED
  BY <1>3, <1>4

LEMMA BackedAlways == Spec => []BackedInv
<1>1. Init => OneOpen /\ BackedInv
  BY OneOpenInit, BackedInit
<1>2. TypeOK /\ (OneOpen /\ BackedInv) /\ [Next]_vars => (OneOpen /\ BackedInv)'
  BY OneOpenNext, BackedNext
<1>. QED
  BY <1>1, <1>2, TypeCorrect, PTL DEF Spec

\* However handlers overlap and wherever they are killed, no session has
\* committed more often than captures of it were recorded: two handlers that
\* see the same capture do not both commit.
THEOREM CommitsAreBacked == Spec => []CommitsBackedByCaptures
<1>1. ASSUME BackedInv PROVE CommitsBackedByCaptures
  <2>. SUFFICES ASSUME NEW s \in SessionIds, Backed(s)
                PROVE  Cardinality(CommittedRows(s)) <= Cardinality(CapturesOf(s))
    BY <1>1 DEF BackedInv, CommitsBackedByCaptures
  <2>. QED
    BY FS_CardinalityType DEF Backed
<1>. QED
  BY <1>1, BackedAlways, PTL
-----------------------------------------------------------------------------
(* Counting paise.                                                         *)

\* The paise numbered m to n of one row or link.
LEMMA Strip ==
    ASSUME NEW k, NEW m \in Nat, NEW n \in Nat, m <= n + 1
    PROVE  IsFiniteSet({k} \X (m..n)) /\ Cardinality({k} \X (m..n)) = n - m + 1
<1>1. IsFiniteSet(m..n) /\ Cardinality(m..n) = IF m > n THEN 0 ELSE n - m + 1
  BY FS_Interval
<1>2. Cardinality(m..n) = n - m + 1
  BY <1>1
<1>3. IsFiniteSet({k}) /\ Cardinality({k}) = 1
  BY FS_Singleton
<1>4. /\ IsFiniteSet({k} \X (m..n))
      /\ Cardinality({k} \X (m..n)) = Cardinality({k}) * Cardinality(m..n)
  BY <1>1, <1>3, FS_Product
<1>. QED
  BY <1>2, <1>3, <1>4

LEMMA Joins ==
    ASSUME NEW S, NEW T, IsFiniteSet(S), IsFiniteSet(T), S \cap T = {}
    PROVE  /\ IsFiniteSet(S \cup T)
           /\ Cardinality(S \cup T) = Cardinality(S) + Cardinality(T)
           /\ Cardinality(S) \in Nat /\ Cardinality(T) \in Nat
<1>1. Cardinality(S \cap T) = 0
  BY FS_EmptySet
<1>2. /\ IsFiniteSet(S \cup T)
      /\ Cardinality(S \cup T) = Cardinality(S) + Cardinality(T) - Cardinality(S \cap T)
  BY FS_Union
<1>3. Cardinality(S) \in Nat /\ Cardinality(T) \in Nat
  BY FS_CardinalityType
<1>. QED
  BY <1>1, <1>2, <1>3

LEMMA InPaise ==
    ASSUME NEW R, NEW z
    PROVE  z \in Paise(R) <=> \E r \in R : \E i \in 1..r.amount : z = <<r.id, i>>
  BY DEF Paise

\* A row with a new id adds its amount.
LEMMA SumAdd ==
    ASSUME NEW R, NEW r, r.amount \in Nat, IsFiniteSet(Paise(R)), \A q \in R : q.id # r.id
    PROVE  /\ IsFiniteSet(Paise(R \cup {r})) /\ Sum(R) \in Nat
           /\ Sum(R \cup {r}) = Sum(R) + r.amount
<1>. DEFINE new == {r.id} \X (1..r.amount)
<1>1. IsFiniteSet(new) /\ Cardinality(new) = r.amount
  <2>. DEFINE a == r.amount
  <2>1. a \in Nat /\ 1 \in Nat /\ 1 <= a + 1 /\ a - 1 + 1 = a
    OBVIOUS
  <2>. HIDE DEF a
  <2>2. IsFiniteSet({r.id} \X (1..a)) /\ Cardinality({r.id} \X (1..a)) = a - 1 + 1
    BY <2>1, Strip
  <2>. QED
    BY <2>1, <2>2 DEF a
<1>3. \A z : z \in new <=> \E i \in 1..r.amount : z = <<r.id, i>>
  OBVIOUS
<1>. HIDE DEF new
<1>4. \A z \in Paise(R) : z \notin new
  BY <1>3, InPaise
<1>5. Paise(R \cup {r}) = Paise(R) \cup new
  BY <1>3, InPaise
<1>. QED
  BY <1>1, <1>4, <1>5, Joins DEF Sum

LEMMA SumEmpty == Paise({}) = {} /\ IsFiniteSet(Paise({})) /\ Sum({}) = 0
  BY FS_EmptySet DEF Paise, Sum

-----------------------------------------------------------------------------
(* Refunds are inserted after the provider has made them.                  *)
(*                                                                         *)
(* Between the provider's answer and the insert a handler owes the record  *)
(* a row.  What is recorded and what is owed never exceed what was paid    *)
(* back on the links of the session.                                       *)

Owing(s) == {t \in Threads : thr[t].at = "recordRefund" /\ thr[t].s = s}
Owed(s) == UNION {{t} \X (1..thr[t].dec.amount) : t \in Owing(s)}

RefundFrames == \A t \in Threads : thr[t].at = "refund" => Owns(thr[t].s, thr[t].dec.link)

Repaid(s) ==
    /\ IsFiniteSet(Paise(RefundsOf(s))) /\ IsFiniteSet(Owed(s)) /\ IsFiniteSet(PaidBack(s))
    /\ Sum(RefundsOf(s)) + Cardinality(Owed(s)) <= Cardinality(PaidBack(s))

RepaidInv == RefundFrames /\ \A s \in SessionIds : Repaid(s)

LEMMA InOwed ==
    ASSUME NEW s, NEW z
    PROVE  z \in Owed(s) <=> \E t \in Owing(s) : \E i \in 1..thr[t].dec.amount : z = <<t, i>>
  BY DEF Owed

LEMMA InPaidBack ==
    ASSUME NEW s, NEW z
    PROVE  z \in PaidBack(s) <=> \E l \in LinksOf(s) : \E i \in 1..links[l].refunded : z = <<l, i>>
  BY DEF PaidBack

\* A step of the links that pays nothing back.
SameRefunds ==
    \A l \in LinkIds' :
        \/ l \in LinkIds /\ links'[l].refunded = links[l].refunded
                         /\ links'[l].session = links[l].session
                         /\ links'[l].amount = links[l].amount
        \/ l \notin LinkIds /\ links'[l].refunded = 0

LEMMA SetLinkSame ==
    ASSUME TypeOK, NEW k, NEW e, links' = [links EXCEPT ![k] = e],
           k \in LinkIds => /\ e.refunded = links[k].refunded
                            /\ e.session = links[k].session /\ e.amount = links[k].amount
    PROVE  SameRefunds
<1>1. LinkIds' = LinkIds
  BY DEF LinkIds, TypeOK, DataOK
<1>2. \A l \in LinkIds : links'[l] = IF l = k THEN e ELSE links[l]
  BY DEF LinkIds, TypeOK, DataOK
<1>. QED
  BY <1>1, <1>2 DEF SameRefunds

LEMMA NewLinkSame ==
    ASSUME TypeOK, NEW x \in SessionIds, NEW a \in Nat, CreateLink(x, a)
    PROVE  SameRefunds
<1>. DEFINE e == [session |-> x, amount |-> a, state |-> "created",
                  failed |-> 0, due |-> FALSE, refunded |-> 0, unheard |-> 0]
<1>1. links \in Seq(Link) /\ links' = Append(links, e) /\ e \in Link /\ e.refunded = 0
  BY DEF TypeOK, DataOK, CreateLink, Link
<1>. HIDE DEF e
<1>2. /\ DOMAIN links' = 1..(Len(links) + 1) /\ DOMAIN links = 1..Len(links) /\ Len(links) \in Nat
      /\ \A l \in 1..Len(links) : links'[l] = links[l]
      /\ links'[Len(links) + 1] = e
  BY <1>1
<1>. QED
  BY <1>1, <1>2 DEF SameRefunds, LinkIds

\* What a step may do to the links, by the call that does it.
LEMMA LinkSteps ==
    ASSUME [Next]_vars
    PROVE  \/ UNCHANGED links
           \/ \E t \in Threads : FirstLink(t) \/ SecondLink(t) \/ RefundStep(t)
           \/ \E k : CancelLink(k)
           \/ \E k, a : RefundUnheard(k, a)
           \/ \E k \in LinkIds :
                CustomerFails(k) \/ CustomerPays(k) \/ LinkFallsDue(k) \/ LinkExpires(k)
<1>1. ASSUME NEW t \in Threads, Begin(t) PROVE UNCHANGED links
  BY <1>1, BeginKinds DEF OnlyThread, Create
<1>2. ASSUME NEW t \in Threads, Continue(t)
      PROVE  \/ UNCHANGED links
             \/ FirstLink(t) \/ SecondLink(t) \/ RefundStep(t)
             \/ \E k : CancelLink(k)
             \/ \E k, a : RefundUnheard(k, a)
  <2>1. \/ UNCHANGED links
        \/ FirstLink(t) \/ SecondLink(t) \/ CancelQuietly(t) \/ CancelLinkStep(t) \/ RefundStep(t)
        \/ CancelLinkLost(t) \/ RefundLost(t)
    BY <1>2 DEF Continue, Store, RecordReview, Reevaluate, Refuse, ReserveStep, ReserveRaises,
       FirstLinkFails, SetPending, PollStep, PollFails, RecordPayment, RecordRaises,
       FinishPaid, NothingNew, FailedAttempt, CommitStep, CommitRaises, SetCompleted,
       SecondLinkFails, SetRetried, ReadOpenRow, ReleaseStep, ReleaseRaises, SetCanceled,
       CancelLinkRefused, FinalPoll, RefundFails, RecordRefundStep, RecordRefundRaises,
       OnlyThread, OnlySessions, OnlyMandates, rowVars
  <2>. QED
    BY SMTT(30), <2>1 DEF CancelQuietly, TryCancel, CancelLinkStep, CancelLinkLost, RefundLost
<1>3. \/ UNCHANGED links
      \/ \E t \in Threads : Begin(t) \/ Continue(t)
      \/ \E k \in LinkIds :
           CustomerFails(k) \/ CustomerPays(k) \/ LinkFallsDue(k) \/ LinkExpires(k)
  BY DEF Next, vars, Merchant, Clock, Customer, Crash
<1>. QED
  BY <1>1, <1>2, <1>3

LEMMA RefundsSame ==
    ASSUME TypeOK, [Next]_vars, \A t \in Threads : ~RefundStep(t)
    PROVE  SameRefunds
<1>1. CASE UNCHANGED links
  BY <1>1 DEF SameRefunds, LinkIds
<1>2. ASSUME NEW t \in Threads, FirstLink(t) \/ SecondLink(t) PROVE SameRefunds
  <2>1. /\ thr[t].s \in SessionIds /\ thr[t].dec \in Decision
        /\ CreateLink(thr[t].s, thr[t].dec.total)
    BY <1>2, Working DEF FirstLink, SecondLink, At, FrameOK, DecidedPlaces
  <2>2. thr[t].dec.total \in Nat
    BY <2>1 DEF Decision
  <2>. QED
    BY <2>1, <2>2, NewLinkSame
<1>3. ASSUME NEW k, CancelLink(k) PROVE SameRefunds
  <2>. DEFINE e == [links[k] EXCEPT !.state = "cancelled"]
  <2>1. links' = [links EXCEPT ![k] = e]
    BY <1>3 DEF CancelLink
  <2>2. k \in LinkIds => /\ e.refunded = links[k].refunded
                         /\ e.session = links[k].session /\ e.amount = links[k].amount
    BY LinkElement DEF Link
  <2>. HIDE DEF e
  <2>. QED
    BY <2>1, <2>2, SetLinkSame
<1>4. ASSUME NEW k \in LinkIds,
             CustomerFails(k) \/ CustomerPays(k) \/ LinkFallsDue(k) \/ LinkExpires(k)
      PROVE  SameRefunds
  <2>1. PICK e : /\ links' = [links EXCEPT ![k] = e]
                 /\ e.refunded = links[k].refunded
                 /\ e.session = links[k].session /\ e.amount = links[k].amount
    BY <1>4, LinkElement DEF CustomerFails, CustomerPays, LinkFallsDue, LinkExpires, Link
  <2>. QED
    BY <2>1, SetLinkSame
<1>5. ASSUME NEW k, NEW a, RefundUnheard(k, a) PROVE SameRefunds
  <2>. DEFINE e == [links[k] EXCEPT !.unheard = @ + a]
  <2>1. links' = [links EXCEPT ![k] = e]
    BY <1>5 DEF RefundUnheard
  <2>2. k \in LinkIds => /\ e.refunded = links[k].refunded
                         /\ e.session = links[k].session /\ e.amount = links[k].amount
    BY LinkElement DEF Link
  <2>. HIDE DEF e
  <2>. QED
    BY <2>1, <2>2, SetLinkSame
<1>. QED
  BY <1>1, <1>2, <1>3, <1>4, <1>5, LinkSteps

LEMMA PaidBackSame ==
    ASSUME TypeOK, [Next]_vars, SameRefunds, NEW s
    PROVE  PaidBack(s)' = PaidBack(s)
<1>1. \A l \in LinkIds : l \in LinkIds'
  <2>1. \A l \in LinkIds : Owns(links[l].session, l)
    BY DEF Owns
  <2>. QED
    BY <2>1, OwnsStays DEF Owns
<1>2. ASSUME NEW z PROVE z \in PaidBack(s)' <=> z \in PaidBack(s)
  <2>1. ASSUME NEW l \in LinksOf(s)', NEW i \in 1..links'[l].refunded
        PROVE  l \in LinksOf(s) /\ i \in 1..links[l].refunded
    BY DEF SameRefunds, LinksOf
  <2>2. ASSUME NEW l \in LinksOf(s)
        PROVE  l \in LinksOf(s)' /\ links'[l].refunded = links[l].refunded
    BY <1>1 DEF SameRefunds, LinksOf
  <2>. QED
    BY <2>1, <2>2 DEF PaidBack
<1>. QED
  BY <1>2

\* The step that pays back adds its paise to one session.
LEMMA PaidBackGrows ==
    ASSUME TypeOK, NEW k \in LinkIds, NEW a \in Nat, RefundPayment(k, a), NEW s \in SessionIds,
           IsFiniteSet(PaidBack(s))
    PROVE  \/ s # links[k].session /\ PaidBack(s)' = PaidBack(s)
           \/ /\ s = links[k].session /\ IsFiniteSet(PaidBack(s)')
              /\ Cardinality(PaidBack(s)') = Cardinality(PaidBack(s)) + a
<1>. DEFINE n == links[k].refunded
            e == [links[k] EXCEPT !.refunded = @ + a]
            new == {k} \X ((n + 1)..(n + a))
<1>1. links[k] \in Link /\ n \in Nat
  BY LinkElement DEF Link
<1>2. links' = [links EXCEPT ![k] = e] /\ e.refunded = n + a /\ e.session = links[k].session
  BY <1>1 DEF RefundPayment, Link
<1>. HIDE DEF e
<1>3. LinkIds' = LinkIds /\ \A l \in LinkIds : links'[l] = IF l = k THEN e ELSE links[l]
  BY <1>2 DEF LinkIds, TypeOK, DataOK
<1>4. LinksOf(s)' = LinksOf(s)
  BY <1>2, <1>3 DEF LinksOf
<1>5. CASE s # links[k].session
  <2>1. \A l \in LinksOf(s) : links'[l] = links[l]
    BY <1>3, <1>5 DEF LinksOf
  <2>. QED
    BY <1>4, <1>5, <2>1 DEF PaidBack
<1>6. CASE s = links[k].session
  <2>1. IsFiniteSet(new) /\ Cardinality(new) = a
    <3>1. n + 1 \in Nat /\ n + a \in Nat /\ n + 1 <= n + a + 1 /\ (n + a) - (n + 1) + 1 = a
      BY <1>1
    <3>. HIDE DEF n
    <3>2. IsFiniteSet(new) /\ Cardinality(new) = (n + a) - (n + 1) + 1
      BY <3>1, Strip
    <3>. QED
      BY <3>1, <3>2
  <2>2. k \in LinksOf(s)
    BY <1>6 DEF LinksOf
  <2>3. \A z : z \in PaidBack(s)' <=> \E l \in LinksOf(s) : \E i \in 1..links'[l].refunded : z = <<l, i>>
    BY <1>4 DEF PaidBack
  <2>4. \A i : i \in 1..(n + a) <=> (i \in 1..n \/ i \in (n + 1)..(n + a))
    BY <1>1
  <2>5. \A z : z \in new <=> \E i \in (n + 1)..(n + a) : z = <<k, i>>
    OBVIOUS
  <2>6. /\ \A l \in LinksOf(s) : l # k => links'[l].refunded = links[l].refunded
        /\ links'[k].refunded = n + a
    BY <1>2, <1>3 DEF LinksOf
  <2>. HIDE DEF new, n
  <2>7. PaidBack(s)' = PaidBack(s) \cup new
    <3>1. ASSUME NEW z \in PaidBack(s)' PROVE z \in PaidBack(s) \cup new
      <4>0. PICK l \in LinksOf(s) : \E i \in 1..links'[l].refunded : z = <<l, i>>
        BY <2>3, <3>1
      <4>1. PICK i \in 1..links'[l].refunded : z = <<l, i>>
        BY <4>0
      <4>2. CASE l # k
        BY <2>6, <4>1, <4>2, InPaidBack
      <4>3. CASE l = k
        <5>1. (i \in 1..n \/ i \in (n + 1)..(n + a))
          BY <2>4, <2>6, <4>3
        <5>. QED
          BY <2>5, <4>1, <4>3, <5>1, InPaidBack DEF n
      <4>. QED
        BY <4>2, <4>3
    <3>2. ASSUME NEW z \in PaidBack(s) PROVE z \in PaidBack(s)'
      <4>0. PICK l \in LinksOf(s) : \E i \in 1..links[l].refunded : z = <<l, i>>
        BY <3>2, InPaidBack
      <4>1. PICK i \in 1..links[l].refunded : z = <<l, i>>
        BY <4>0
      <4>2. i \in 1..links'[l].refunded
        <5>1. CASE l # k
          BY <2>6, <5>1
        <5>2. CASE l = k
          BY <2>4, <2>6, <5>2 DEF n
        <5>. QED
          BY <5>1, <5>2
      <4>. QED
        BY <2>3, <4>1, <4>2
    <3>3. ASSUME NEW z \in new PROVE z \in PaidBack(s)'
      BY <2>2, <2>3, <2>4, <2>5, <2>6
    <3>. QED
      BY <3>1, <3>2, <3>3
  <2>8. PaidBack(s) \cap new = {}
    <3>. SUFFICES ASSUME NEW z \in PaidBack(s), z \in new PROVE FALSE
      OBVIOUS
    <3>0. PICK l \in LinksOf(s) : \E i \in 1..links[l].refunded : z = <<l, i>>
      BY InPaidBack
    <3>1. PICK i \in 1..links[l].refunded : z = <<l, i>>
      BY <3>0
    <3>2. PICK j \in (n + 1)..(n + a) : z = <<k, j>>
      BY <2>5
    <3>3. l = k /\ i = j
      BY <3>1, <3>2
    <3>. QED
      BY <1>1, <3>1, <3>3 DEF n
  <2>9. /\ IsFiniteSet(PaidBack(s) \cup new)
        /\ Cardinality(PaidBack(s) \cup new) = Cardinality(PaidBack(s)) + a
    BY <2>1, <2>8, Joins
  <2>. QED
    BY <1>6, <2>7, <2>9
<1>. QED
  BY <1>5, <1>6
-----------------------------------------------------------------------------
\* A handler that has begun never comes to the call that refunds, and only
\* that call leads to the insert.
LEMMA NoWayToRefund ==
    ASSUME TypeOK, NEW t \in Threads, Continue(t)
    PROVE  /\ thr'[t].at # "refund"
           /\ thr'[t].at = "recordRefund" => RefundStep(t)
<1>. DEFINE Others == Places \ {"refund", "recordRefund"}
<1>0. thr \in [Threads -> Frame] /\ thr[t] \in Frame
  BY DEF TypeOK, FramesOK
<1>. USE DEF Places, DecidedPlaces, RowPlaces
<1>1. \/ Done(t)
      \/ \E place \in Others : GoTo(t, place)
      \/ RefundStep(t)
      \/ Reevaluate(t) \/ FirstLink(t) \/ SecondLink(t) \/ SecondLinkFails(t) \/ FailedAttempt(t)
      \/ ReadOpenRow(t) \/ ReleaseStep(t) \/ PollStep(t) \/ FinalPoll(t)
      \/ \E p \in thr[t].todo : RecordPayment(t, p)
  BY DEF Continue, Store, RecordReview, Refuse, ReserveStep, ReserveRaises,
     FirstLinkFails, SetPending, PollFails, RecordRaises, FinishPaid, NothingNew, CommitStep,
     CommitRaises, SetCompleted, CancelQuietly, SetRetried, ReleaseRaises, SetCanceled,
     CancelLinkStep, CancelLinkLost, CancelLinkRefused, RefundLost, RefundFails,
     RecordRefundStep, RecordRefundRaises
<1>2. CASE Done(t)
  BY <1>0, <1>2 DEF Done, Becomes, Idle, Begun
<1>3. ASSUME NEW place \in Others, GoTo(t, place) PROVE thr'[t].at \in Others
  BY <1>0, <1>3 DEF GoTo, Frame
<1>4. CASE RefundStep(t)
  BY <1>0, <1>4 DEF RefundStep, GoTo, Frame
<1>5. ASSUME NEW place \in Others, NEW dec, Becomes(t, [thr[t] EXCEPT !.at = place, !.dec = dec])
      PROVE  thr'[t].at \in Others
  BY <1>0, <1>5 DEF Becomes, Frame
<1>6. ASSUME NEW place \in Others, NEW link, Becomes(t, [thr[t] EXCEPT !.at = place, !.link = link])
      PROVE  thr'[t].at \in Others
  BY <1>0, <1>6 DEF Becomes, Frame
<1>7. ASSUME NEW place \in Others, NEW row, Becomes(t, [thr[t] EXCEPT !.at = place, !.row = row])
      PROVE  thr'[t].at \in Others
  BY <1>0, <1>7 DEF Becomes, Frame
<1>8. ASSUME NEW place \in Others, NEW row, NEW dec,
             Becomes(t, [thr[t] EXCEPT !.at = place, !.row = row, !.dec = dec,
                           !.news = {}, !.dead = FALSE])
      PROVE  thr'[t].at \in Others
  BY <1>0, <1>8 DEF Becomes, Frame
<1>9. ASSUME NEW place \in Others, NEW news, NEW dead,
             Becomes(t, [thr[t] EXCEPT !.at = place, !.news = news, !.todo = news, !.dead = dead])
      PROVE  thr'[t].at \in Others
  BY <1>0, <1>9 DEF Becomes, Frame
<1>10. ASSUME NEW place \in Others, NEW news,
              Becomes(t, [thr[t] EXCEPT !.at = place, !.news = news, !.todo = news])
      PROVE  thr'[t].at \in Others
  BY <1>0, <1>10 DEF Becomes, Frame
<1>11. ASSUME NEW place \in Others, NEW todo, Becomes(t, [thr[t] EXCEPT !.todo = todo, !.at = place])
      PROVE  thr'[t].at \in Others
  BY <1>0, <1>11 DEF Becomes, Frame
<1>12. CASE FailedAttempt(t)
  <2>. DEFINE row == sessions[thr[t].s]
  <2>0. PICK seen \in Shops :
        LET d == Decide(thr[t].s, row.items, PENDING, "retry", thr[t].s, seen)
            retry == row.attempt < MAX_ATTEMPTS /\ d.verdict = "ALLOW"
        IN  Becomes(t, [thr[t] EXCEPT !.at = IF retry THEN "cancelOld" ELSE "abandon",
                          !.row = row, !.dec = IF retry THEN d ELSE None,
                          !.news = {}, !.dead = FALSE])
    BY <1>12 DEF FailedAttempt
  <2>. DEFINE d == Decide(thr[t].s, row.items, PENDING, "retry", thr[t].s, seen)
              retry == row.attempt < MAX_ATTEMPTS /\ d.verdict = "ALLOW"
              place == IF retry THEN "cancelOld" ELSE "abandon"
              dec == IF retry THEN d ELSE None
  <2>1. Becomes(t, [thr[t] EXCEPT !.at = place, !.row = row, !.dec = dec,
                      !.news = {}, !.dead = FALSE])
    BY <2>0
  <2>2. place \in Others
    OBVIOUS
  <2>. HIDE DEF row, dec, place
  <2>. QED
    BY <1>8, <2>1, <2>2
<1>13. CASE PollStep(t)
  <2>. DEFINE news == Poll(thr[t].row.link) \ {r.payment : r \in payments[thr[t].s]}
              place == IF news = {} THEN "judge" ELSE "record"
              dead == LinkDead(thr[t].row.link)
  <2>1. Becomes(t, [thr[t] EXCEPT !.at = place, !.news = news, !.todo = news, !.dead = dead])
    BY <1>13 DEF PollStep
  <2>2. place \in Others
    OBVIOUS
  <2>. HIDE DEF news, place, dead
  <2>. QED
    BY <1>9, <2>1, <2>2
<1>14. ASSUME NEW p \in thr[t].todo, RecordPayment(t, p) PROVE thr'[t].at \in Others
  <2>. DEFINE place == IF thr[t].todo = {p} THEN "judge" ELSE "record"
              todo == thr[t].todo \ {p}
  <2>1. Becomes(t, [thr[t] EXCEPT !.todo = todo, !.at = place]) /\ place \in Others
    BY <1>14 DEF RecordPayment
  <2>. HIDE DEF place, todo
  <2>. QED
    BY <1>11, <2>1
<1>15. CASE FinalPoll(t)
  <2>1. \/ Done(t)
        \/ \E p : Becomes(t, [thr[t] EXCEPT !.at = "record", !.news = {p}, !.todo = {p}])
    BY <1>15 DEF FinalPoll
  <2>. QED
    BY <1>2, <1>10, <2>1
<1>16. CASE ReadOpenRow(t) \/ ReleaseStep(t)
  <2>1. \/ Done(t)
        \/ \E place \in {"release", "canceled"} : GoTo(t, place)
    BY <1>16 DEF ReadOpenRow, ReleaseStep, AfterRelease, Done, Becomes, GoTo
  <2>. QED
    BY <1>2, <1>3, <2>1
<1>17. CASE Reevaluate(t)
  BY <1>5, <1>17 DEF Reevaluate
<1>18. CASE FirstLink(t) \/ SecondLink(t)
  BY <1>6, <1>18 DEF FirstLink, SecondLink
<1>19. CASE SecondLinkFails(t)
  BY <1>7, <1>19 DEF SecondLinkFails
<1>. QED
  BY <1>1, <1>2, <1>3, <1>4, <1>12, <1>13, <1>14, <1>15, <1>16, <1>17, <1>18, <1>19

\* A handler comes to the refund by loading it.
LEMMA WhoRefunds ==
    ASSUME TypeOK, [Next]_vars, NEW t \in Threads, thr'[t].at = "refund"
    PROVE  \/ thr'[t] = thr[t]
           \/ \E s \in SessionIds, ref \in References, a \in RefundAmounts : RefundLoad(t, s, ref, a)
<1>0. thr \in [Threads -> Frame]
  BY DEF TypeOK, FramesOK
<1>1. CASE Crash
  BY <1>1 DEF Crash, Idle, Begun
<1>2. CASE Begin(t)
  <2>1. ASSUME NEW op, NEW s, NEW row, NEW dec,
               NEW place \in {"store", "review", "reserve", "refuse", "poll", "cancelLink", "openRow"},
               Becomes(t, Begun(op, s, place, row, dec))
        PROVE  FALSE
    BY <1>0, <2>1 DEF Becomes, Begun
  <2>2. \/ UNCHANGED thr
        \/ \E op, s, row, dec :
             \E place \in {"store", "review", "reserve", "refuse", "poll", "cancelLink", "openRow"} :
               Becomes(t, Begun(op, s, place, row, dec))
        \/ \E s \in SessionIds, ref \in References, a \in RefundAmounts : RefundLoad(t, s, ref, a)
    BY ZenonT(40), <1>2 DEF Begin, Create, UpdateLoad, ReviewLoad, CompleteLoad, ReconcileLoad, CancelLoad
  <2>. QED
    BY <2>1, <2>2
<1>3. CASE Continue(t)
  BY <1>3, NoWayToRefund
<1>4. ASSUME NEW u \in Threads, Begin(u) \/ Continue(u), u # t PROVE thr'[t] = thr[t]
  BY <1>4, OthersWait
<1>. QED
  BY <1>1, <1>2, <1>3, <1>4, NextKinds

LEMMA RefundFramesNext ==
    ASSUME TypeOK, OwnInv, RefundFrames, [Next]_vars
    PROVE  RefundFrames'
<1>. SUFFICES ASSUME NEW t \in Threads, thr'[t].at = "refund"
              PROVE  Owns(thr[t].s, thr[t].dec.link)'
  BY DEF RefundFrames
<1>1. CASE thr'[t] = thr[t]
  BY <1>1, OwnsStays DEF RefundFrames
<1>2. ASSUME NEW s \in SessionIds, NEW ref \in References, NEW a \in RefundAmounts,
             RefundLoad(t, s, ref, a)
      PROVE  Owns(thr[t].s, thr[t].dec.link)'
  <2>1. PICK cap \in CapturesOf(s) :
          thr' = [thr EXCEPT ![t] = Begun("refund", s, "refund", sessions[s],
                    [reference |-> ref, amount |-> a, link |-> cap.payment.link])]
    BY <1>2 DEF RefundLoad, Becomes
  <2>2. thr'[t].s = s /\ thr'[t].dec.link = cap.payment.link
    BY <2>1 DEF Begun, TypeOK, FramesOK
  <2>3. Owns(s, cap.payment.link)
    BY DEF CapturesOf, OwnInv, OwnPayments
  <2>. QED
    BY <2>2, <2>3, OwnsStays
<1>. QED
  BY <1>1, <1>2, WhoRefunds
\* A handler owes a row because it did before, or because the provider has
\* just answered it.
LEMMA StillOwing ==
    ASSUME TypeOK, [Next]_vars, NEW t \in Threads, thr'[t].at = "recordRefund"
    PROVE  thr'[t] = thr[t] \/ RefundStep(t)
<1>0. thr \in [Threads -> Frame]
  BY DEF TypeOK, FramesOK
<1>1. CASE Crash
  BY <1>1 DEF Crash, Idle, Begun
<1>2. CASE Begin(t)
  <2>1. ASSUME NEW op, NEW s, NEW row, NEW dec,
               NEW place \in {"store", "review", "reserve", "refuse", "poll", "cancelLink",
                              "openRow", "refund"},
               Becomes(t, Begun(op, s, place, row, dec))
        PROVE  FALSE
    BY <1>0, <2>1 DEF Becomes, Begun
  <2>2. \/ UNCHANGED thr
        \/ \E op, s, row, dec :
             \E place \in {"store", "review", "reserve", "refuse", "poll", "cancelLink",
                           "openRow", "refund"} :
               Becomes(t, Begun(op, s, place, row, dec))
    BY ZenonT(40), <1>2 DEF Begin, Create, UpdateLoad, ReviewLoad, CompleteLoad, ReconcileLoad,
       CancelLoad, RefundLoad
  <2>. QED
    BY <2>1, <2>2
<1>3. CASE Continue(t)
  BY <1>3, NoWayToRefund
<1>4. ASSUME NEW u \in Threads, Begin(u) \/ Continue(u), u # t PROVE thr'[t] = thr[t]
  BY <1>4, OthersWait
<1>. QED
  BY <1>1, <1>2, <1>3, <1>4, NextKinds

LEMMA OwedShrinks ==
    ASSUME TypeOK, [Next]_vars, NEW s, \A t \in Threads : thr[t].s = s => ~RefundStep(t)
    PROVE  Owed(s)' \subseteq Owed(s)
<1>1. ASSUME NEW t \in Owing(s)' PROVE t \in Owing(s) /\ thr'[t] = thr[t]
  <2>1. t \in Threads /\ thr'[t].at = "recordRefund" /\ thr'[t].s = s
    BY DEF Owing
  <2>2. thr'[t] = thr[t] \/ RefundStep(t)
    BY <2>1, StillOwing
  <2>3. RefundStep(t) => thr'[t].s = thr[t].s
    BY <2>1 DEF RefundStep, GoTo, TypeOK, FramesOK, Frame
  <2>. QED
    BY <2>1, <2>2, <2>3 DEF Owing
<1>2. ASSUME NEW z \in Owed(s)' PROVE z \in Owed(s)
  <2>1. \E t \in Owing(s)' : \E i \in 1..thr'[t].dec.amount : z = <<t, i>>
    BY DEF Owed
  <2>. QED
    BY <1>1, <2>1, InOwed
<1>. QED
  BY <1>2

\* The paise a handler at the insert owes.
LEMMA OwesAmount ==
    ASSUME TypeOK, NEW t \in Threads, thr[t].at \in {"refund", "recordRefund"}
    PROVE  /\ thr[t].s \in SessionIds /\ thr[t].dec.amount \in Nat
           /\ IsFiniteSet({t} \X (1..thr[t].dec.amount))
           /\ Cardinality({t} \X (1..thr[t].dec.amount)) = thr[t].dec.amount
<1>. DEFINE a == thr[t].dec.amount
<1>1. thr[t].s \in SessionIds /\ thr[t].dec \in RefundRequest
  BY Working DEF FrameOK
<1>2. a \in Nat
  BY <1>1, RefundAssumption DEF RefundRequest
<1>. HIDE DEF a
<1>3. 1 \in Nat /\ 1 <= a + 1 /\ a - 1 + 1 = a
  BY <1>2
<1>4. IsFiniteSet({t} \X (1..a)) /\ Cardinality({t} \X (1..a)) = a - 1 + 1
  BY <1>2, <1>3, Strip
<1>. QED
  BY <1>1, <1>2, <1>3, <1>4 DEF a

LEMMA RefundRowsSame ==
    ASSUME [Next]_vars, \A t \in Threads : ~RecordRefundStep(t)
    PROVE  UNCHANGED refunds
<1>1. ASSUME NEW t \in Threads, MovesMoney(t) PROVE UNCHANGED refunds
  BY <1>1 DEF MovesMoney, ReserveStep, Reserve, CommitStep, Commit, ReleaseStep, Release
<1>2. ASSUME NEW t \in Threads, Begin(t) PROVE UNCHANGED refunds
  BY <1>2, BeginKinds DEF OnlyThread, Create, mandateVars
<1>3. ASSUME NEW t \in Threads, Continue(t) PROVE UNCHANGED refunds \/ MovesMoney(t)
  BY <1>3, ContinueKinds DEF OnlyThread, OnlyLinks, OnlySessions, RecordReview, RecordPayment, mandateVars
<1>. QED
  BY <1>1, <1>2, <1>3, NextKinds

\* The step that pays back moves as many paise into what is owed.
LEMMA RefundRepaid ==
    ASSUME TypeOK, RepaidInv, [Next]_vars, NEW t \in Threads, RefundStep(t), NEW s \in SessionIds
    PROVE  Repaid(s)'
<1>. DEFINE a == thr[t].dec.amount
            k == thr[t].dec.link
            P == Paise(RefundsOf(s))
            O == Owed(s)
            B == PaidBack(s)
            new == {t} \X (1..a)
<1>1. /\ IsFiniteSet(P) /\ IsFiniteSet(O) /\ IsFiniteSet(B)
      /\ Cardinality(P) \in Nat /\ Cardinality(O) \in Nat /\ Cardinality(B) \in Nat
      /\ Cardinality(P) + Cardinality(O) <= Cardinality(B)
  BY FS_CardinalityType DEF RepaidInv, Repaid, Sum
<1>2. P' = P
  BY DEF RefundStep, OnlyLinks, mandateVars, Paise, RefundsOf
<1>3. thr[t].at = "refund" /\ k \in LinkIds /\ links[k].session = thr[t].s
  BY DEF RefundStep, At, RepaidInv, RefundFrames, Owns
<1>4. a \in Nat /\ IsFiniteSet(new) /\ Cardinality(new) = a /\ RefundPayment(k, a)
  BY <1>3, OwesAmount DEF RefundStep
<1>5. \/ s # thr[t].s /\ B' = B
      \/ s = thr[t].s /\ IsFiniteSet(B') /\ Cardinality(B') = Cardinality(B) + a
  BY <1>1, <1>3, <1>4, PaidBackGrows
<1>6. \A u \in Threads \ {t} : thr'[u] = thr[u]
  BY OthersWait DEF Continue
<1>7. thr'[t].at = "recordRefund" /\ thr'[t].s = thr[t].s /\ thr'[t].dec = thr[t].dec
  BY DEF RefundStep, GoTo, TypeOK, FramesOK, Frame
<1>8. ASSUME s # thr[t].s PROVE O' \subseteq O
  <2>1. ASSUME NEW u \in Owing(s)' PROVE u \in Owing(s) /\ thr'[u] = thr[u]
    BY <1>6, <1>7, <1>8 DEF Owing
  <2>2. ASSUME NEW z \in O' PROVE z \in O
    <3>1. \E u \in Owing(s)' : \E i \in 1..thr'[u].dec.amount : z = <<u, i>>
      BY DEF Owed
    <3>. QED
      BY <2>1, <3>1, InOwed
  <2>. QED
    BY <2>2
<1>9. ASSUME s = thr[t].s PROVE O' \subseteq O \cup new /\ O \cap new = {}
  <2>1. ASSUME NEW u \in Owing(s)' PROVE u = t \/ (u \in Owing(s) /\ thr'[u] = thr[u])
    BY <1>6 DEF Owing
  <2>2. ASSUME NEW z \in O' PROVE z \in O \cup new
    <3>1. \E u \in Owing(s)' : \E i \in 1..thr'[u].dec.amount : z = <<u, i>>
      BY DEF Owed
    <3>. QED
      BY <1>7, <2>1, <3>1, InOwed
  <2>3. t \notin Owing(s)
    BY <1>3 DEF Owing
  <2>4. O \cap new = {}
    BY <2>3, InOwed
  <2>. QED
    BY <2>2, <2>4
<1>. HIDE DEF a, k, P, O, B, new
<1>10. CASE s # thr[t].s
  <2>1. IsFiniteSet(O') /\ Cardinality(O') <= Cardinality(O) /\ Cardinality(O') \in Nat
    BY <1>1, <1>8, <1>10, FS_Subset, FS_CardinalityType
  <2>. QED
    BY <1>1, <1>2, <1>5, <1>10, <2>1 DEF Repaid, Sum, P, O, B
<1>11. CASE s = thr[t].s
  <2>1. IsFiniteSet(O \cup new) /\ Cardinality(O \cup new) = Cardinality(O) + a
    BY <1>1, <1>4, <1>9, <1>11, Joins
  <2>2. O' \in SUBSET (O \cup new)
    BY <1>9, <1>11
  <2>3. IsFiniteSet(O') /\ Cardinality(O') <= Cardinality(O) + a
    BY <2>1, <2>2, FS_Subset
  <2>4. Cardinality(O') \in Nat
    BY <2>3, FS_CardinalityType
  <2>5. Cardinality(P') + Cardinality(O') <= Cardinality(B')
    BY <1>1, <1>2, <1>4, <1>5, <1>11, <2>3, <2>4
  <2>. QED
    BY <1>1, <1>2, <1>5, <1>11, <2>3, <2>5 DEF Repaid, Sum, P, O, B
<1>. QED
  BY <1>10, <1>11

\* The insert adds its row to the balance of one session.
LEMMA RefundAdds ==
    ASSUME TypeOK, NEW t \in Threads, RecordRefundStep(t), NEW s \in SessionIds,
           IsFiniteSet(Paise(RefundsOf(s)))
    PROVE  /\ thr[t].at = "recordRefund" /\ thr[t].dec.amount \in Nat
           /\ s # thr[t].s => Paise(RefundsOf(s))' = Paise(RefundsOf(s))
           /\ s = thr[t].s =>
                /\ IsFiniteSet(Paise(RefundsOf(s))')
                /\ Cardinality(Paise(RefundsOf(s))') =
                     Cardinality(Paise(RefundsOf(s))) + thr[t].dec.amount
<1>. DEFINE a == thr[t].dec.amount
            P == Paise(RefundsOf(s))
            row == [id |-> <<thr[t].s, thr[t].dec.reference>>, mandate |-> thr[t].row.mandate,
                    amount |-> a]
<1>1. /\ thr[t].at = "recordRefund" /\ refunds' = refunds \cup {row}
      /\ \A r \in refunds : r.id # row.id
      /\ row.id[1] = thr[t].s /\ row.amount = a
  BY DEF RecordRefundStep, RecordRefund, CanRecordRefund, At
<1>2. a \in Nat
  BY <1>1, OwesAmount
<1>. HIDE DEF row
<1>3. s # thr[t].s => P' = P
  BY <1>1 DEF RefundsOf, Paise
<1>4. ASSUME s = thr[t].s PROVE IsFiniteSet(P') /\ Cardinality(P') = Cardinality(P) + a
  <2>1. RefundsOf(s)' = RefundsOf(s) \cup {row}
    BY <1>1, <1>4 DEF RefundsOf
  <2>2. \A r \in RefundsOf(s) : r.id # row.id
    BY <1>1 DEF RefundsOf
  <2>3. P' = Paise(RefundsOf(s) \cup {row})
    BY <2>1 DEF Paise
  <2>. QED
    BY <1>1, <1>2, <2>2, <2>3, SumAdd DEF Sum
<1>. QED
  BY <1>1, <1>2, <1>3, <1>4

\* The insert turns what was owed into a row.
LEMMA RecordRepaid ==
    ASSUME TypeOK, RepaidInv, [Next]_vars, NEW t \in Threads, RecordRefundStep(t),
           NEW s \in SessionIds
    PROVE  Repaid(s)'
<1>. DEFINE a == thr[t].dec.amount
            P == Paise(RefundsOf(s))
            O == Owed(s)
            B == PaidBack(s)
            gone == {t} \X (1..a)
<1>1. /\ IsFiniteSet(P) /\ IsFiniteSet(O) /\ IsFiniteSet(B)
      /\ Cardinality(P) \in Nat /\ Cardinality(O) \in Nat /\ Cardinality(B) \in Nat
      /\ Cardinality(P) + Cardinality(O) <= Cardinality(B)
  BY FS_CardinalityType DEF RepaidInv, Repaid, Sum
<1>2. B' = B
  BY DEF RecordRefundStep, OnlyMandates, PaidBack, LinksOf, LinkIds
<1>3. thr[t].at = "recordRefund"
  BY <1>1, RefundAdds
<1>4. /\ thr[t].s \in SessionIds /\ a \in Nat /\ IsFiniteSet(gone) /\ Cardinality(gone) = a
  BY <1>3, OwesAmount
<1>5. \A u \in Threads : ~RefundStep(u)
  <2>. SUFFICES ASSUME NEW u \in Threads, RefundStep(u) PROVE FALSE
    OBVIOUS
  <2>1. u # t /\ thr'[u] # thr[u]
    BY <1>3 DEF RefundStep, At, GoTo, TypeOK, FramesOK, Frame
  <2>. QED
    BY <2>1, OthersWait DEF Continue
<1>6. O' \subseteq O
  BY <1>5, OwedShrinks
<1>7. thr'[t].at = "idle"
  BY DEF RecordRefundStep, Done, Becomes, Idle, Begun, TypeOK, FramesOK
<1>8. ASSUME s = thr[t].s PROVE gone \subseteq O /\ O' \cap gone = {}
  <2>1. t \in Owing(s)
    BY <1>3, <1>8 DEF Owing
  <2>2. gone \subseteq O
    BY <2>1, InOwed
  <2>3. \A z \in O' : \E u \in Owing(s)' : \E i \in 1..thr'[u].dec.amount : z = <<u, i>>
    BY DEF Owed
  <2>4. t \notin Owing(s)'
    BY <1>7 DEF Owing
  <2>. QED
    BY <2>2, <2>3, <2>4
<1>9. s # thr[t].s => P' = P
  BY <1>1, RefundAdds
<1>10. s = thr[t].s => IsFiniteSet(P') /\ Cardinality(P') = Cardinality(P) + a
  BY <1>1, RefundAdds
<1>. HIDE DEF a, P, O, B, gone
<1>11. IsFiniteSet(O') /\ Cardinality(O') <= Cardinality(O) /\ Cardinality(O') \in Nat
  BY <1>1, <1>6, FS_Subset, FS_CardinalityType
<1>12. CASE s # thr[t].s
  BY <1>1, <1>2, <1>9, <1>11, <1>12 DEF Repaid, Sum, P, O, B
<1>13. CASE s = thr[t].s
  <2>1. IsFiniteSet(O' \cup gone) /\ Cardinality(O' \cup gone) = Cardinality(O') + a
    BY <1>4, <1>8, <1>11, <1>13, Joins
  <2>2. (O' \cup gone) \in SUBSET O
    BY <1>6, <1>8, <1>13
  <2>3. Cardinality(O') + a <= Cardinality(O)
    BY <1>1, <2>1, <2>2, FS_Subset
  <2>4. Cardinality(P') + Cardinality(O') <= Cardinality(B')
    BY <1>1, <1>2, <1>4, <1>10, <1>11, <1>13, <2>3
  <2>. QED
    BY <1>1, <1>2, <1>10, <1>11, <1>13, <2>4 DEF Repaid, Sum, P, O, B
<1>. QED
  BY <1>12, <1>13

LEMMA RepaidNext ==
    ASSUME TypeOK, OwnInv, RepaidInv, [Next]_vars
    PROVE  RepaidInv'
<1>1. ASSUME NEW s \in SessionIds, \A t \in Threads : ~RefundStep(t) /\ ~RecordRefundStep(t)
      PROVE  Repaid(s)'
  <2>1. SameRefunds /\ UNCHANGED refunds
    BY <1>1, RefundsSame, RefundRowsSame
  <2>2. PaidBack(s)' = PaidBack(s) /\ Paise(RefundsOf(s))' = Paise(RefundsOf(s))
    BY <2>1, PaidBackSame DEF Paise, RefundsOf
  <2>3. Owed(s)' \in SUBSET Owed(s)
    BY <1>1, OwedShrinks
  <2>4. /\ IsFiniteSet(Paise(RefundsOf(s))) /\ IsFiniteSet(Owed(s)) /\ IsFiniteSet(PaidBack(s))
        /\ Cardinality(Paise(RefundsOf(s))) + Cardinality(Owed(s)) <= Cardinality(PaidBack(s))
    BY DEF RepaidInv, Repaid, Sum
  <2>5. /\ IsFiniteSet(Owed(s)') /\ Cardinality(Owed(s)') <= Cardinality(Owed(s))
        /\ Cardinality(Owed(s)') \in Nat /\ Cardinality(Owed(s)) \in Nat
        /\ Cardinality(Paise(RefundsOf(s))) \in Nat /\ Cardinality(PaidBack(s)) \in Nat
    BY <2>3, <2>4, FS_Subset, FS_CardinalityType
  <2>. QED
    BY <2>2, <2>4, <2>5 DEF Repaid, Sum
<1>. QED
  BY <1>1, RefundRepaid, RecordRepaid, RefundFramesNext DEF RepaidInv

LEMMA RepaidInit == Init => RepaidInv
<1>. SUFFICES ASSUME Init PROVE RepaidInv
  OBVIOUS
<1>1. RefundFrames
  BY DEF Init, Idle, Begun, RefundFrames
<1>2. ASSUME NEW s \in SessionIds PROVE Repaid(s)
  <2>1. RefundsOf(s) = {} /\ Owing(s) = {} /\ LinksOf(s) = {}
    BY DEF Init, MandatesInit, LinksInit, Idle, Begun, RefundsOf, Owing, LinksOf, LinkIds
  <2>2. Owed(s) = {} /\ PaidBack(s) = {}
    BY <2>1 DEF Owed, PaidBack
  <2>. QED
    BY <2>1, <2>2, SumEmpty, FS_EmptySet DEF Repaid
<1>. QED
  BY <1>1, <1>2 DEF RepaidInv

LEMMA RepaidAlways == Spec => []RepaidInv
<1>1. Init => RepaidInv
  BY RepaidInit
<1>2. TypeOK /\ OwnInv /\ RepaidInv /\ [Next]_vars => RepaidInv'
  BY RepaidNext
<1>. QED
  BY <1>1, <1>2, TypeCorrect, OwnAlways, PTL DEF Spec

\* However many refunds of an order run at once and wherever the process
\* dies, the rows on record never claim more than the provider paid back on
\* the links of that session: sessions.py inserts a row for a refund only
\* after the provider's answer.
THEOREM RefundsAreBacked == Spec => []RefundRowsBacked
<1>1. ASSUME RepaidInv PROVE RefundRowsBacked
  <2>. SUFFICES ASSUME NEW s \in SessionIds, Repaid(s)
                PROVE  Sum(RefundsOf(s)) <= Cardinality(PaidBack(s))
    BY <1>1 DEF RepaidInv, RefundRowsBacked
  <2>. QED
    BY FS_CardinalityType DEF Repaid, Sum
<1>. QED
  BY <1>1, RepaidAlways, PTL
=============================================================================
