------------------------- MODULE SessionSoloProofs --------------------------
(***************************************************************************)
(* What the sessions guarantee while no two handlers work on one session   *)
(* and the process is not killed in the middle of a handler: the budget of *)
(* a session is held exactly while its payment is pending, on every way    *)
(* into that state and out of it.  Handlers of different sessions overlap  *)
(* freely; the tables they share keep the rows of each session apart.      *)
(*                                                                         *)
(* None of this is inductive as the runs state it, since it speaks of      *)
(* sessions no handler is at work on.  Busy says, for every place of a     *)
(* handler, how far its session has got.                                   *)
(***************************************************************************)
EXTENDS SessionOverlapProofs

\* No two handlers work on one session; any number works on different ones.
Apart ==
    \A t, u \in Threads : thr[t].s = thr[u].s /\ thr[t].s \in SessionIds => t = u

\* Thread t takes a step and no two handlers meet.
Alone(t) == Apart /\ Apart' /\ \A u \in Threads : u # t => thr'[u] = thr[u]

NeverKilled == MaxCrashes = 0

Holding(s) == OpenRows(s) # {}
Spent(s)   == CommittedRows(s) # {}
Seen(s)    == CapturesOf(s) # {}

Clean(s)   == ~Holding(s) /\ ~Spent(s) /\ ~Seen(s)
Secured(s) == Holding(s) /\ ~Spent(s) /\ ~Seen(s)
Paid(s)    == ~Holding(s) /\ Spent(s) /\ Seen(s)

Untouched(s) == Status(s) \in EDITABLE \cup {None} /\ Clean(s) /\ LinksOf(s) = {}
Held(s)      == Status(s) \in EDITABLE /\ Secured(s)
Paying(s)    == Status(s) = PENDING /\ Secured(s)
Over(s)      == Status(s) = CANCELED /\ Clean(s)
Finished(s)  == Status(s) = COMPLETED /\ Paid(s)

\* A session no handler is at work on.
Rests(s) == Untouched(s) \/ Paying(s) \/ Over(s) \/ Finished(s)

EditPlaces == {"store", "review", "reevaluate", "refuse", "reserve"}
PayPlaces  == {"poll", "abandon", "cancelOld", "secondLink", "retried",
               "cancelLink", "finalPoll"}

\* A handler at work, by where it is.
Busy(f) ==
    /\ f.at # "idle"
    /\ f.at \in EditPlaces => Untouched(f.s)
    /\ f.at = "reserve" => f.op = "complete"
    /\ f.at \in {"firstLink", "pending"} => Held(f.s) /\ f.op = "complete"
    /\ f.at = "firstLink" => LinksOf(f.s) = {}
    /\ f.at \in PayPlaces => Paying(f.s)
    /\ f.at \in PayPlaces \cup {"record", "judge"} => f.op # "complete"
    /\ f.at \in {"record", "judge", "commit"} =>
           Status(f.s) = PENDING /\ Holding(f.s) /\ ~Spent(f.s)
    /\ f.at = "record" =>
           /\ Seen(f.s) => \E p \in f.news \ f.todo : IsCaptured(p)
           /\ f.todo \subseteq f.news
           /\ \A r \in payments[f.s] : r.payment \notin f.todo
    /\ f.at = "judge" => (Seen(f.s) => FoundCapture(f))
    /\ f.at = "commit" => Seen(f.s)
    /\ f.at = "complete" => Status(f.s) = PENDING /\ Paid(f.s)
    /\ f.at \in {"openRow", "release"} =>
           IF f.op = "complete" THEN Held(f.s) /\ LinksOf(f.s) = {}
                                ELSE Untouched(f.s) \/ Paying(f.s)
    /\ f.at = "canceled" => Status(f.s) \in EDITABLE \cup {PENDING} /\ Clean(f.s)
    /\ f.at \in {"refund", "recordRefund"} => Finished(f.s)

SoloInv ==
    /\ \A s \in SessionIds : AtRest(s) => Rests(s)
    /\ \A t \in Threads : thr[t].s \in SessionIds => Busy(thr[t])

-----------------------------------------------------------------------------
(* What a step does to one session.                                        *)

\* Nothing that Rests and Busy read.
Quiet(x) ==
    /\ Status(x)' = Status(x)
    /\ OpenRows(x)' = OpenRows(x)
    /\ CommittedRows(x)' = CommittedRows(x)
    /\ payments'[x] = payments[x]
    /\ CapturesOf(x)' = CapturesOf(x)
    /\ LinksOf(x)' = LinksOf(x)

LEMMA QuietRests ==
    ASSUME NEW x, Quiet(x), Rests(x)
    PROVE  Rests(x)'
  BY DEF Quiet, Rests, Untouched, Paying, Over, Finished, Clean, Secured, Paid,
     Holding, Spent, Seen

LEMMA QuietKeeps ==
    ASSUME NEW x, Quiet(x)
    PROVE  /\ Untouched(x)' <=> Untouched(x)
           /\ Held(x)' <=> Held(x)
           /\ Paying(x)' <=> Paying(x)
           /\ Finished(x)' <=> Finished(x)
           /\ Clean(x)' <=> Clean(x)
           /\ Paid(x)' <=> Paid(x)
           /\ Holding(x)' <=> Holding(x)
           /\ Spent(x)' <=> Spent(x)
           /\ Seen(x)' <=> Seen(x)
           /\ LinksOf(x)' = LinksOf(x)
           /\ Status(x)' = Status(x)
  BY DEF Quiet, Untouched, Held, Paying, Finished, Clean, Secured, Paid, Holding, Spent, Seen

\* The other handlers are at work on other sessions.
LEMMA BusyStays ==
    ASSUME NEW u \in Threads, thr'[u] = thr[u], Quiet(thr[u].s), Busy(thr[u])
    PROVE  Busy(thr[u])'
<1>. PICK s : s = thr[u].s
  OBVIOUS
<1>1. /\ Untouched(s)' <=> Untouched(s)
      /\ Held(s)' <=> Held(s)
      /\ Paying(s)' <=> Paying(s)
      /\ Finished(s)' <=> Finished(s)
      /\ Clean(s)' <=> Clean(s)
      /\ Paid(s)' <=> Paid(s)
      /\ Holding(s)' <=> Holding(s)
      /\ Spent(s)' <=> Spent(s)
      /\ Seen(s)' <=> Seen(s)
      /\ LinksOf(s)' = LinksOf(s)
      /\ Status(s)' = Status(s)
      /\ payments'[s] = payments[s]
  BY QuietKeeps DEF Quiet
<1>. QED
  BY <1>1 DEF Busy, FoundCapture

\* A step of a thread that works for s before or after it.
LEMMA SoloStep ==
    ASSUME SoloInv, NEW t \in Threads, Alone(t), NEW s \in SessionIds,
           thr[t].s = s \/ (thr[t].s = None /\ AtRest(s)),
           \A x \in SessionIds : x # s => Quiet(x),
           \/ thr'[t].s = s /\ Busy(thr[t])'
           \/ thr'[t].s = None /\ Rests(s)'
    PROVE  SoloInv'
<1>1. ASSUME NEW u \in Threads, u # t PROVE thr'[u] = thr[u] /\ thr[u].s # s
  BY <1>1 DEF Alone, Apart, AtRest
<1>2. None \notin SessionIds
  BY IdsAssumption
<1>3. ASSUME NEW x \in SessionIds, AtRest(x)' PROVE Rests(x)'
  <2>1. CASE x = s
    BY <1>3, <2>1 DEF AtRest
  <2>2. CASE x # s
    <3>1. AtRest(x)
      BY <1>1, <1>2, <1>3, <2>2 DEF AtRest
    <3>. QED
      BY <2>2, <3>1, QuietRests DEF SoloInv
  <2>. QED
    BY <2>1, <2>2
<1>4. ASSUME NEW u \in Threads, thr'[u].s \in SessionIds PROVE Busy(thr[u])'
  <2>1. CASE u = t
    BY <1>2, <1>4, <2>1
  <2>2. CASE u # t
    BY <1>1, <1>4, <2>2, BusyStays DEF SoloInv
  <2>. QED
    BY <2>1, <2>2
<1>. QED
  BY <1>3, <1>4 DEF SoloInv

LEMMA QuietTables ==
    ASSUME UNCHANGED <<sessions, payments, reservations, links>>
    PROVE  \A x : Quiet(x)
  BY DEF Quiet, Status, Exists, OpenRows, CommittedRows, RowsOf, CapturesOf, LinksOf, LinkIds

\* The writes of a step, by table.
LEMMA QuietRow ==
    ASSUME TypeOK, UNCHANGED <<payments, reservations, links>>, NEW s \in SessionIds,
           NEW row, row # None, SetRow(s, row)
    PROVE  /\ \A x \in SessionIds : x # s => Quiet(x)
           /\ Status(s)' = row.status
           /\ OpenRows(s)' = OpenRows(s) /\ CommittedRows(s)' = CommittedRows(s)
           /\ CapturesOf(s)' = CapturesOf(s) /\ LinksOf(s)' = LinksOf(s)
<1>1. /\ sessions'[s] = row
      /\ \A x \in SessionIds : x # s => sessions'[x] = sessions[x]
  BY DEF SetRow, TypeOK, DataOK
<1>2. Status(s)' = row.status
  BY <1>1 DEF Status, Exists
<1>3. \A x \in SessionIds : x # s => Status(x)' = Status(x)
  BY <1>1 DEF Status, Exists
<1>4. \A x : /\ OpenRows(x)' = OpenRows(x) /\ CommittedRows(x)' = CommittedRows(x)
             /\ CapturesOf(x)' = CapturesOf(x) /\ LinksOf(x)' = LinksOf(x)
  BY DEF OpenRows, CommittedRows, RowsOf, CapturesOf, LinksOf, LinkIds
<1>. QED
  BY <1>2, <1>3, <1>4 DEF Quiet

\* A call that changes a link and not whose it is.
LEMMA QuietSetLink ==
    ASSUME TypeOK, UNCHANGED <<sessions, payments, reservations>>,
           NEW k, NEW e, links' = [links EXCEPT ![k] = e],
           k \in LinkIds => e.session = links[k].session
    PROVE  \A x : Quiet(x)
<1>1. LinkIds' = LinkIds /\ \A l \in LinkIds : links'[l].session = links[l].session
  BY DEF LinkIds, TypeOK, DataOK
<1>2. \A x : LinksOf(x)' = LinksOf(x)
  BY <1>1 DEF LinksOf
<1>. QED
  BY <1>2 DEF Quiet, Status, Exists, OpenRows, CommittedRows, RowsOf, CapturesOf

LEMMA QuietCancelLink ==
    ASSUME TypeOK, UNCHANGED <<sessions, payments, reservations>>, NEW k, CancelLink(k)
    PROVE  \A x : Quiet(x)
<1>. DEFINE e == [links[k] EXCEPT !.state = "cancelled"]
<1>1. links' = [links EXCEPT ![k] = e] /\ (k \in LinkIds => e.session = links[k].session)
  BY LinkElement DEF CancelLink, Link
<1>. HIDE DEF e
<1>. QED
  BY <1>1, QuietSetLink

LEMMA QuietRefund ==
    ASSUME TypeOK, UNCHANGED <<sessions, payments, reservations>>,
           NEW k, NEW a, RefundPayment(k, a)
    PROVE  \A x : Quiet(x)
<1>. DEFINE e == [links[k] EXCEPT !.refunded = @ + a]
<1>1. links' = [links EXCEPT ![k] = e] /\ (k \in LinkIds => e.session = links[k].session)
  BY LinkElement DEF RefundPayment, Link
<1>. HIDE DEF e
<1>. QED
  BY <1>1, QuietSetLink

LEMMA QuietUnheard ==
    ASSUME TypeOK, UNCHANGED <<sessions, payments, reservations>>,
           NEW k, NEW a, RefundUnheard(k, a)
    PROVE  \A x : Quiet(x)
<1>. DEFINE e == [links[k] EXCEPT !.unheard = @ + a]
<1>1. links' = [links EXCEPT ![k] = e] /\ (k \in LinkIds => e.session = links[k].session)
  BY LinkElement DEF RefundUnheard, Link
<1>. HIDE DEF e
<1>. QED
  BY <1>1, QuietSetLink

LEMMA QuietNewLink ==
    ASSUME TypeOK, UNCHANGED <<sessions, payments, reservations>>,
           NEW s \in SessionIds, NEW a \in Nat, CreateLink(s, a)
    PROVE  /\ \A x \in SessionIds : x # s => Quiet(x)
           /\ Status(s)' = Status(s)
           /\ OpenRows(s)' = OpenRows(s) /\ CommittedRows(s)' = CommittedRows(s)
           /\ CapturesOf(s)' = CapturesOf(s)
<1>. DEFINE e == [session |-> s, amount |-> a, state |-> "created",
                  failed |-> 0, due |-> FALSE, refunded |-> 0, unheard |-> 0]
<1>1. links \in Seq(Link) /\ links' = Append(links, e) /\ e \in Link /\ e.session = s
  BY DEF TypeOK, DataOK, CreateLink, Link
<1>. HIDE DEF e
<1>2. /\ DOMAIN links' = 1..(Len(links) + 1) /\ DOMAIN links = 1..Len(links) /\ Len(links) \in Nat
      /\ \A l \in 1..Len(links) : links'[l] = links[l]
      /\ links'[Len(links) + 1] = e
  BY <1>1
<1>3. \A x \in SessionIds : x # s => LinksOf(x)' = LinksOf(x)
  BY <1>1, <1>2 DEF LinksOf, LinkIds
<1>4. \A x : /\ Status(x)' = Status(x)
             /\ OpenRows(x)' = OpenRows(x) /\ CommittedRows(x)' = CommittedRows(x)
             /\ CapturesOf(x)' = CapturesOf(x)
  BY DEF Status, Exists, OpenRows, CommittedRows, RowsOf, CapturesOf
<1>. QED
  BY <1>3, <1>4 DEF Quiet
LEMMA QuietReserve ==
    ASSUME TypeOK, UNCHANGED <<sessions, payments, links>>,
           NEW s \in SessionIds, NEW m, NEW a, Reserve(s, m, a)
    PROVE  /\ \A x \in SessionIds : x # s => Quiet(x)
           /\ Status(s)' = Status(s) /\ Holding(s)'
           /\ CommittedRows(s)' = CommittedRows(s)
           /\ CapturesOf(s)' = CapturesOf(s) /\ LinksOf(s)' = LinksOf(s)
<1>. DEFINE row == [id |-> CHOOSE i \in FreshIds : TRUE, session |-> s, mandate |-> m,
                    amount |-> a, day |-> today, state |-> "reserved"]
<1>1. reservations' = reservations \cup {row} /\ row.session = s /\ row.state = "reserved"
  BY DEF Reserve
<1>. HIDE DEF row
<1>2. \A x \in SessionIds : x # s => OpenRows(x)' = OpenRows(x)
  BY <1>1 DEF OpenRows
<1>3. Holding(s)' /\ \A x : CommittedRows(x)' = CommittedRows(x)
  BY <1>1 DEF Holding, OpenRows, CommittedRows, RowsOf
<1>4. \A x : /\ Status(x)' = Status(x)
             /\ CapturesOf(x)' = CapturesOf(x) /\ LinksOf(x)' = LinksOf(x)
  BY DEF Status, Exists, CapturesOf, LinksOf, LinkIds
<1>. QED
  BY <1>2, <1>3, <1>4 DEF Quiet

LEMMA QuietCommit ==
    ASSUME TypeOK, UNCHANGED <<sessions, payments, links>>,
           NEW s \in SessionIds, Commit(s)
    PROVE  /\ \A x \in SessionIds : x # s => Quiet(x)
           /\ Status(s)' = Status(s) /\ ~Holding(s)' /\ Spent(s)'
           /\ CapturesOf(s)' = CapturesOf(s) /\ LinksOf(s)' = LinksOf(s)
<1>. DEFINE Turned == {[r EXCEPT !.state = "committed"] : r \in OpenRows(s)}
<1>1. reservations' = (reservations \ OpenRows(s)) \cup Turned /\ OpenRows(s) # {}
  BY DEF Commit
<1>2. \A q \in Turned : q.state = "committed" /\ q.session = s
  BY DEF OpenRows, TypeOK, DataOK, Reservation
<1>3. Turned # {}
  BY <1>1
<1>. HIDE DEF Turned
<1>4. \A x \in SessionIds : x # s => OpenRows(x)' = OpenRows(x) /\ CommittedRows(x)' = CommittedRows(x)
  BY <1>1, <1>2 DEF OpenRows, CommittedRows, RowsOf
<1>5. ~Holding(s)'
  BY <1>1, <1>2 DEF Holding, OpenRows
<1>6. Spent(s)'
  BY <1>1, <1>2, <1>3 DEF Spent, CommittedRows, RowsOf
<1>7. \A x : /\ Status(x)' = Status(x)
             /\ CapturesOf(x)' = CapturesOf(x) /\ LinksOf(x)' = LinksOf(x)
  BY DEF Status, Exists, CapturesOf, LinksOf, LinkIds
<1>. QED
  BY <1>4, <1>5, <1>6, <1>7 DEF Quiet

LEMMA QuietRelease ==
    ASSUME TypeOK, UNCHANGED <<sessions, payments, links>>,
           NEW s \in SessionIds, Release(s)
    PROVE  /\ \A x \in SessionIds : x # s => Quiet(x)
           /\ Status(s)' = Status(s) /\ ~Holding(s)'
           /\ CommittedRows(s)' = CommittedRows(s)
           /\ CapturesOf(s)' = CapturesOf(s) /\ LinksOf(s)' = LinksOf(s)
<1>1. reservations' = reservations \ OpenRows(s)
  BY DEF Release
<1>2. \A x \in SessionIds : x # s => OpenRows(x)' = OpenRows(x)
  BY <1>1 DEF OpenRows
<1>3. ~Holding(s)' /\ \A x : CommittedRows(x)' = CommittedRows(x)
  BY <1>1 DEF Holding, OpenRows, CommittedRows, RowsOf
<1>4. \A x : /\ Status(x)' = Status(x)
             /\ CapturesOf(x)' = CapturesOf(x) /\ LinksOf(x)' = LinksOf(x)
  BY DEF Status, Exists, CapturesOf, LinksOf, LinkIds
<1>. QED
  BY <1>2, <1>3, <1>4 DEF Quiet

LEMMA QuietRecord ==
    ASSUME TypeOK, NEW t \in Threads, NEW p \in thr[t].todo, RecordPayment(t, p)
    PROVE  /\ \A x \in SessionIds : x # thr[t].s => Quiet(x)
           /\ \A x : Status(x)' = Status(x) /\ OpenRows(x)' = OpenRows(x)
                     /\ CommittedRows(x)' = CommittedRows(x) /\ LinksOf(x)' = LinksOf(x)
<1>1. UNCHANGED <<sessions, reservations, links>>
  BY DEF RecordPayment, mandateVars
<1>2. \A x : Status(x)' = Status(x) /\ OpenRows(x)' = OpenRows(x)
             /\ CommittedRows(x)' = CommittedRows(x) /\ LinksOf(x)' = LinksOf(x)
  BY <1>1 DEF Status, Exists, OpenRows, CommittedRows, RowsOf, LinksOf, LinkIds
<1>3. \A x \in SessionIds : x # thr[t].s => /\ CapturesOf(x)' = CapturesOf(x)
                                           /\ payments'[x] = payments[x]
  BY RecordsOne DEF RecordPayment, TypeOK, DataOK
<1>. QED
  BY <1>2, <1>3 DEF Quiet

LEMMA QuietWorld ==
    ASSUME TypeOK, Merchant \/ Clock \/ Customer
    PROVE  UNCHANGED <<thr, payments>> /\ \A x : Quiet(x)
<1>1. UNCHANGED <<sessions, payments, reservations, thr>>
  BY DEF Merchant, Clock, Customer, OnlyWorld, IssueMandate, RevokeMandate, NextDay, mandateVars
<1>2. \/ UNCHANGED links
      \/ \E k \in LinkIds :
           CustomerFails(k) \/ CustomerPays(k) \/ LinkFallsDue(k) \/ LinkExpires(k)
  BY DEF Merchant, Clock, Customer
<1>3. ASSUME NEW k \in LinkIds,
             CustomerFails(k) \/ CustomerPays(k) \/ LinkFallsDue(k) \/ LinkExpires(k)
      PROVE  \A x : Quiet(x)
  <2>1. PICK e : links' = [links EXCEPT ![k] = e] /\ e.session = links[k].session
    BY <1>3, LinkElement DEF CustomerFails, CustomerPays, LinkFallsDue, LinkExpires, Link
  <2>. QED
    BY <1>1, <2>1, QuietSetLink
<1>. QED
  BY <1>1, <1>2, <1>3, QuietTables

-----------------------------------------------------------------------------
(* What a step does to the frame of its thread.                            *)

LEMMA Goes ==
    ASSUME TypeOK, NEW t \in Threads, NEW place, GoTo(t, place)
    PROVE  /\ thr'[t].at = place /\ thr'[t].op = thr[t].op /\ thr'[t].s = thr[t].s
           /\ thr'[t].row = thr[t].row /\ thr'[t].dec = thr[t].dec /\ thr'[t].link = thr[t].link
           /\ thr'[t].news = thr[t].news /\ thr'[t].todo = thr[t].todo
  BY DEF GoTo, TypeOK, FramesOK, Frame

LEMMA Stops ==
    ASSUME TypeOK, NEW t \in Threads, Done(t)
    PROVE  thr'[t] = Idle /\ thr'[t].at = "idle" /\ thr'[t].s = None
  BY DEF Done, Becomes, Idle, Begun, TypeOK, FramesOK

LEMMA Begins ==
    ASSUME TypeOK, NEW t \in Threads, NEW op, NEW s, NEW place, NEW row, NEW dec,
           Becomes(t, Begun(op, s, place, row, dec))
    PROVE  /\ thr'[t].at = place /\ thr'[t].op = op /\ thr'[t].s = s
           /\ thr'[t].row = row /\ thr'[t].dec = dec
           /\ thr'[t].news = {} /\ thr'[t].todo = {}
  BY DEF Becomes, Begun, TypeOK, FramesOK

\* A handler begins on a session that rests.
LEMMA Fresh ==
    ASSUME NEW t \in Threads, Alone(t), NEW op, CanStart(t, op),
           NEW s \in SessionIds, thr'[t].s = s
    PROVE  thr[t] = Idle /\ thr[t].s = None /\ AtRest(s)
<1>1. thr[t] = Idle /\ thr[t].s = None
  BY DEF CanStart, Idle, Begun
<1>2. ASSUME NEW u \in Threads, thr[u].s = s PROVE FALSE
  <2>1. u # t
    BY <1>1, <1>2, IdsAssumption
  <2>. QED
    BY <1>2, <2>1 DEF Alone, Apart
<1>. QED
  BY <1>1, <1>2 DEF AtRest

\* A session that does not exist is one no handler is at work on.
LEMMA Unknown ==
    ASSUME TypeOK, SoloInv, NEW s \in SessionIds, ~Exists(s)
    PROVE  AtRest(s)
<1>1. ASSUME NEW u \in Threads, thr[u].s = s PROVE FALSE
  <2>1. thr[u].at # "idle"
    BY <1>1 DEF SoloInv, Busy
  <2>. QED
    BY <1>1, <2>1, Working, RowAssumption DEF Exists
<1>. QED
  BY <1>1 DEF AtRest

LEMMA AtWork ==
    ASSUME TypeOK, SoloInv, NEW t \in Threads, thr[t].at # "idle"
    PROVE  /\ thr[t] \in Frame /\ FrameOK(thr[t]) /\ Busy(thr[t])
           /\ thr[t].s \in SessionIds /\ sessions[thr[t].s] \in Row
           /\ Status(thr[t].s) = sessions[thr[t].s].status
  BY Working, RowAssumption DEF SoloInv, Status, Exists
-----------------------------------------------------------------------------
(* Handlers that begin.                                                    *)

LEMMA SoloCreate ==
    ASSUME TypeOK, SoloInv, NEW t \in Threads, Alone(t), NEW s \in SessionIds,
           NEW items \in Carts, Create(t, s, items)
    PROVE  SoloInv'
<1>. DEFINE d == Decide(s, items, None, "preview", None, shop)
            row == [status |-> StatusFor(d), items |-> d.items, total |-> d.total,
                    mandate |-> d.mandate, attempt |-> 0, link |-> 0]
<1>1. StatusFor(d) \in EDITABLE
  BY DecideType, StatusForType DEF Items
<1>2. row.status \in EDITABLE
  BY <1>1
<1>3. row # None
  <2>1. d \in Decision
    BY DecideType DEF Items
  <2>2. row \in Row
    BY <1>1, <2>1 DEF Row, Decision, Statuses, MAX_ATTEMPTS
  <2>. QED
    BY <2>2, RowAssumption
<1>4. SetRow(s, row) /\ UNCHANGED <<payments, reservations, links, thr>>
  BY DEF Create, SetRow, mandateVars
<1>5. thr[t] = Idle /\ thr[t].s = None /\ AtRest(s)
  BY Unknown DEF Create, CanStart, Idle, Begun
<1>. HIDE DEF row
<1>6. /\ \A x \in SessionIds : x # s => Quiet(x)
      /\ Status(s)' = row.status
      /\ OpenRows(s)' = OpenRows(s) /\ CommittedRows(s)' = CommittedRows(s)
      /\ CapturesOf(s)' = CapturesOf(s) /\ LinksOf(s)' = LinksOf(s)
  BY <1>3, <1>4, QuietRow
<1>7. Status(s) = None
  BY DEF Create, Status
<1>8. Untouched(s)
  BY <1>5, <1>7, RowAssumption DEF SoloInv, Rests, Untouched, Paying, Over, Finished,
     Statuses, TERMINAL
<1>9. Rests(s)'
  BY <1>2, <1>6, <1>8 DEF Rests, Untouched, Clean, Holding, Spent, Seen
<1>10. thr'[t].s = None
  BY <1>4, <1>5
<1>. QED
  BY <1>5, <1>6, <1>9, <1>10, SoloStep

\* What a session at rest is, by its status.
LEMMA RestsAs ==
    ASSUME NEW s, Rests(s)
    PROVE  /\ Status(s) \in EDITABLE => Untouched(s)
           /\ Status(s) = PENDING => Paying(s)
           /\ Status(s) = COMPLETED => Finished(s)
  BY RowAssumption DEF Rests, Untouched, Paying, Over, Finished, Statuses, EDITABLE, TERMINAL,
     NOT_READY, READY, REQUIRES_REVIEW, PENDING, COMPLETED, CANCELED

LEMMA SoloBegins ==
    ASSUME TypeOK, SoloInv, NEW t \in Threads, Alone(t), NEW s \in SessionIds,
           NEW op, NEW place, NEW row, NEW dec,
           CanStart(t, op), OnlyThread, Becomes(t, Begun(op, s, place, row, dec)),
           \/ place \in EditPlaces /\ Status(s) \in EDITABLE /\ (place = "reserve" => op = "complete")
           \/ place \in {"poll", "cancelLink"} /\ Status(s) = PENDING /\ op # "complete"
           \/ place = "openRow" /\ Status(s) \in EDITABLE /\ op # "complete"
           \/ place = "refund" /\ Status(s) = COMPLETED
    PROVE  SoloInv'
<1>1. thr'[t].at = place /\ thr'[t].op = op /\ thr'[t].s = s
  BY Begins
<1>2. thr[t].s = None /\ AtRest(s)
  BY <1>1, Fresh
<1>3. \A x : Quiet(x)
  BY QuietTables DEF OnlyThread, mandateVars, rowVars
<1>4. Rests(s)
  BY <1>2 DEF SoloInv
<1>5. Busy(thr[t])'
  <2>1. /\ Untouched(s) => Untouched(s)'
        /\ Paying(s) => Paying(s)'
        /\ Finished(s) => Finished(s)'
    BY <1>3 DEF Quiet, Untouched, Paying, Finished, Clean, Secured, Paid, Holding, Spent, Seen
  <2>2. CASE place \in EditPlaces /\ Status(s) \in EDITABLE /\ (place = "reserve" => op = "complete")
    BY <1>1, <1>4, <2>1, <2>2, RestsAs DEF Busy, EditPlaces, PayPlaces
  <2>3. CASE place \in {"poll", "cancelLink"} /\ Status(s) = PENDING /\ op # "complete"
    BY <1>1, <1>4, <2>1, <2>3, RestsAs DEF Busy, EditPlaces, PayPlaces
  <2>4. CASE place = "openRow" /\ Status(s) \in EDITABLE /\ op # "complete"
    BY <1>1, <1>4, <2>1, <2>4, RestsAs DEF Busy, EditPlaces, PayPlaces
  <2>5. CASE place = "refund" /\ Status(s) = COMPLETED
    BY <1>1, <1>4, <2>1, <2>5, RestsAs DEF Busy, EditPlaces, PayPlaces
  <2>. QED
    BY <2>2, <2>3, <2>4, <2>5
<1>. QED
  BY <1>2, <1>3, <1>1, <1>5, SoloStep

LEMMA SoloLoads ==
    ASSUME TypeOK, SoloInv, NEW t \in Threads, Alone(t), NEW s \in SessionIds,
           \/ \E items \in Carts : UpdateLoad(t, s, items)
           \/ \E op \in {"approve", "decline"} : ReviewLoad(t, s, op)
           \/ CompleteLoad(t, s) \/ ReconcileLoad(t, s) \/ CancelLoad(t, s)
           \/ \E ref \in References, a \in RefundAmounts : RefundLoad(t, s, ref, a)
    PROVE  SoloInv'
<1>1. ASSUME NEW items \in Carts, UpdateLoad(t, s, items) PROVE SoloInv'
  <2>1. PICK d : Becomes(t, Begun("update", s, "store", None, d))
    BY <1>1 DEF UpdateLoad
  <2>2. CanStart(t, "update") /\ OnlyThread /\ Status(s) \in EDITABLE
    BY <1>1 DEF UpdateLoad, Status
  <2>. QED
    BY <2>1, <2>2, SoloBegins DEF EditPlaces
<1>2. ASSUME NEW op \in {"approve", "decline"}, ReviewLoad(t, s, op) PROVE SoloInv'
  <2>1. /\ CanStart(t, op) /\ OnlyThread
        /\ Becomes(t, Begun(op, s, "review", sessions[s], None)) /\ Status(s) \in EDITABLE
    BY <1>2 DEF ReviewLoad, Status, EDITABLE
  <2>. QED
    BY <2>1, SoloBegins DEF EditPlaces
<1>3. CASE CompleteLoad(t, s)
  <2>1. PICK d, place : /\ place \in {"reserve", "refuse"}
                        /\ Becomes(t, Begun("complete", s, place, None, d))
    BY <1>3 DEF CompleteLoad
  <2>2. /\ CanStart(t, "complete") /\ OnlyThread /\ place \in EditPlaces
        /\ Status(s) \in EDITABLE
    BY <1>3, <2>1 DEF CompleteLoad, Status, EDITABLE, EditPlaces
  <2>. QED
    BY <2>1, <2>2, SoloBegins
<1>4. CASE ReconcileLoad(t, s)
  <2>1. /\ CanStart(t, "reconcile") /\ OnlyThread
        /\ Becomes(t, Begun("reconcile", s, "poll", sessions[s], None)) /\ Status(s) = PENDING
    BY <1>4 DEF ReconcileLoad, Status
  <2>. QED
    BY <2>1, SoloBegins
<1>5. CASE CancelLoad(t, s)
  <2>. DEFINE live == sessions[s].status = PENDING /\ sessions[s].link # 0
              place == IF live THEN "cancelLink" ELSE "openRow"
  <2>1. /\ CanStart(t, "cancel") /\ OnlyThread /\ Status(s) = sessions[s].status
        /\ Status(s) \notin TERMINAL /\ sessions[s] \in Row
        /\ Becomes(t, Begun("cancel", s, place, sessions[s], None))
    BY <1>5 DEF CancelLoad, Status, Exists, TypeOK, DataOK
  <2>2. Status(s) = PENDING => sessions[s].link # 0
    BY DEF TypeOK, DataOK, LinkIds
  <2>3. \/ place = "cancelLink" /\ Status(s) = PENDING
        \/ place = "openRow" /\ Status(s) \in EDITABLE
    BY <2>1, <2>2 DEF Row, Statuses
  <2>. HIDE DEF place
  <2>. QED
    BY <2>1, <2>3, SoloBegins
<1>6. ASSUME NEW ref \in References, NEW a \in RefundAmounts, RefundLoad(t, s, ref, a)
      PROVE  SoloInv'
  <2>1. PICK cap \in CapturesOf(s) :
          /\ sessions[s].status = "completed"
          /\ Becomes(t, Begun("refund", s, "refund", sessions[s],
                         [reference |-> ref, amount |-> a, link |-> cap.payment.link]))
    BY <1>6 DEF RefundLoad, RefundAllowed
  <2>2. CanStart(t, "refund") /\ OnlyThread /\ Status(s) = COMPLETED
    BY <1>6, <2>1 DEF RefundLoad, Status, COMPLETED
  <2>. QED
    BY <2>1, <2>2, SoloBegins
<1>. QED
  BY <1>1, <1>2, <1>3, <1>4, <1>5, <1>6
-----------------------------------------------------------------------------
(* Handlers that end.                                                      *)

LEMMA SoloStops ==
    ASSUME TypeOK, SoloInv, NEW t \in Threads, Alone(t), thr[t].at # "idle",
           OnlyThread, Done(t), Rests(thr[t].s)
    PROVE  SoloInv'
<1>1. \A x : Quiet(x)
  BY QuietTables DEF OnlyThread, mandateVars, rowVars
<1>2. PICK s \in SessionIds : s = thr[t].s
  BY AtWork
<1>3. Rests(s)' /\ thr'[t].s = None
  BY <1>1, <1>2, QuietRests, Stops
<1>. QED
  BY <1>1, <1>2, <1>3, SoloStep

LEMMA SoloRaises ==
    ASSUME TypeOK, SoloInv, NEW t \in Threads, Alone(t),
           \/ ReserveRaises(t) \/ PollFails(t) \/ NothingNew(t) \/ CommitRaises(t)
           \/ ReleaseRaises(t) \/ RefundFails(t) \/ RecordRefundRaises(t)
           \/ \E p \in thr[t].todo : RecordRaises(t, p)
    PROVE  SoloInv'
<1>1. Done(t) /\ OnlyThread /\ thr[t].at # "idle"
  BY DEF ReserveRaises, PollFails, NothingNew, CommitRaises, ReleaseRaises, RefundFails,
     RecordRefundRaises, RecordRaises, At
<1>2. Busy(thr[t])
  BY <1>1, AtWork
<1>3. Rests(thr[t].s)
  <2>1. CASE ReserveRaises(t)
    BY <1>2, <2>1 DEF ReserveRaises, At, Busy, EditPlaces, Rests
  <2>2. CASE PollFails(t)
    BY <1>2, <2>2 DEF PollFails, At, Busy, PayPlaces, Rests
  <2>3. CASE NothingNew(t)
    BY <1>2, <2>3 DEF NothingNew, At, Busy, Rests, Paying, Secured
  <2>4. CASE CommitRaises(t)
    BY <1>2, <2>4 DEF CommitRaises, At, Busy, Holding
  <2>5. CASE ReleaseRaises(t)
    BY <1>2, <2>5 DEF ReleaseRaises, At, Busy, Held, Secured, Holding, Rests
  <2>6. CASE RefundFails(t) \/ RecordRefundRaises(t)
    BY <1>2, <2>6 DEF RefundFails, RecordRefundRaises, At, Busy, Rests
  <2>7. ASSUME NEW p \in thr[t].todo, RecordRaises(t, p) PROVE FALSE
    BY <1>2, <2>7 DEF RecordRaises, At, Busy
  <2>. QED
    BY <2>1, <2>2, <2>3, <2>4, <2>5, <2>6, <2>7
<1>. QED
  BY <1>1, <1>3, SoloStops

LEMMA SoloWrites ==
    ASSUME TypeOK, SoloInv, NEW t \in Threads, Alone(t), WritesRow(t)
    PROVE  SoloInv'
<1>1. /\ Done(t) /\ OnlySessions /\ thr[t].at # "idle"
  BY DEF WritesRow, Store, Refuse, SetPending, SetRetried, SetCompleted, SetCanceled, At
<1>. PICK s \in SessionIds : s = thr[t].s
  BY <1>1, AtWork
<1>2. /\ thr[t] \in Frame /\ FrameOK(thr[t]) /\ Busy(thr[t])
      /\ s \in SessionIds /\ sessions[s] \in Row /\ Status(s) = sessions[s].status
  BY <1>1, AtWork
<1>3. UNCHANGED <<payments, reservations, links>> /\ thr'[t].s = None
  BY <1>1, Stops DEF OnlySessions, mandateVars
<1>4. PICK row \in Row : SetRow(s, row)
  BY WrittenRow DEF Written
<1>5. /\ \A x \in SessionIds : x # s => Quiet(x)
      /\ Status(s)' = row.status
      /\ OpenRows(s)' = OpenRows(s) /\ CommittedRows(s)' = CommittedRows(s)
      /\ CapturesOf(s)' = CapturesOf(s) /\ LinksOf(s)' = LinksOf(s)
  BY <1>2, <1>3, <1>4, QuietRow, RowAssumption
<1>6. sessions'[s] = row
  BY <1>2, <1>4 DEF SetRow, TypeOK, DataOK
<1>7. Rests(s)'
  <2>1. CASE Store(t)
    <3>1. row.status = StatusFor(thr[t].dec) /\ thr[t].at = "store"
      BY <1>2, <1>6, <2>1 DEF Store, SetRow, At, TypeOK, DataOK, Row
    <3>2. row.status \in EDITABLE
      BY <1>2, <3>1, StatusForType DEF FrameOK, DecidedPlaces
    <3>3. Untouched(s)
      BY <1>2, <3>1 DEF Busy, EditPlaces
    <3>. QED
      BY <1>5, <3>2, <3>3 DEF Rests, Untouched, Clean, Holding, Spent, Seen
  <2>2. CASE Refuse(t)
    <3>1. /\ row.status = IF thr[t].op = "complete" THEN StatusFor(thr[t].dec) ELSE NOT_READY
          /\ thr[t].at = "refuse"
      BY <1>2, <1>6, <2>2 DEF Refuse, SetRow, At, TypeOK, DataOK, Row
    <3>2. row.status \in EDITABLE
      BY <1>2, <3>1, StatusForType DEF FrameOK, EDITABLE
    <3>3. Untouched(s)
      BY <1>2, <3>1 DEF Busy, EditPlaces
    <3>. QED
      BY <1>5, <3>2, <3>3 DEF Rests, Untouched, Clean, Holding, Spent, Seen
  <2>3. CASE SetPending(t)
    <3>1. row.status = PENDING /\ thr[t].at = "pending"
      BY <1>2, <1>6, <2>3 DEF SetPending, SetRow, At, TypeOK, DataOK, Row
    <3>2. Held(s)
      BY <1>2, <3>1 DEF Busy
    <3>. QED
      BY <1>5, <3>1, <3>2 DEF Rests, Held, Paying, Secured, Holding, Spent, Seen
  <2>4. CASE SetRetried(t)
    <3>1. row.status = sessions[s].status /\ thr[t].at = "retried"
      BY <1>2, <1>6, <2>4 DEF SetRetried, SetRow, At, TypeOK, DataOK, Row
    <3>2. Paying(s)
      BY <1>2, <3>1 DEF Busy, PayPlaces
    <3>. QED
      BY <1>2, <1>5, <3>1, <3>2 DEF Rests, Paying, Secured, Holding, Spent, Seen
  <2>5. CASE SetCompleted(t)
    <3>1. row.status = COMPLETED /\ thr[t].at = "complete"
      BY <1>2, <1>6, <2>5 DEF SetCompleted, SetRow, At, TypeOK, DataOK, Row
    <3>2. Paid(s)
      BY <1>2, <3>1 DEF Busy
    <3>. QED
      BY <1>5, <3>1, <3>2 DEF Rests, Finished, Paid, Holding, Spent, Seen
  <2>6. CASE SetCanceled(t)
    <3>1. row.status = CANCELED /\ thr[t].at = "canceled"
      BY <1>2, <1>6, <2>6 DEF SetCanceled, SetRow, At, TypeOK, DataOK, Row
    <3>2. Clean(s)
      BY <1>2, <3>1 DEF Busy
    <3>. QED
      BY <1>5, <3>1, <3>2 DEF Rests, Over, Clean, Holding, Spent, Seen
  <2>. QED
    BY <2>1, <2>2, <2>3, <2>4, <2>5, <2>6 DEF WritesRow
<1>. QED
  BY <1>2, <1>3, <1>5, <1>7, SoloStep
-----------------------------------------------------------------------------
(* Steps that change nothing but the frame of their thread.                *)

LEMMA SoloKeeps ==
    ASSUME SoloInv, NEW t \in Threads, Alone(t), NEW s \in SessionIds, thr[t].s = s,
           \A x : Quiet(x), thr'[t].s = s, Busy(thr[t])'
    PROVE  SoloInv'
  BY SoloStep

LEMMA SoloReview ==
    ASSUME TypeOK, SoloInv, NEW t \in Threads, Alone(t), RecordReview(t) \/ Reevaluate(t)
    PROVE  SoloInv'
<1>1. thr[t].at \in {"review", "reevaluate"}
  BY DEF RecordReview, Reevaluate, At
<1>. PICK s \in SessionIds : s = thr[t].s
  BY <1>1, AtWork
<1>2. Untouched(s)
  BY <1>1, AtWork DEF Busy, EditPlaces
<1>3. \A x : Quiet(x)
  BY QuietTables DEF RecordReview, Reevaluate, OnlyThread, mandateVars, rowVars
<1>4. thr'[t].s = s /\ thr'[t].at \in {"reevaluate", "refuse", "store"}
  <2>1. CASE RecordReview(t)
    <3>. DEFINE place == IF thr[t].op = "approve" THEN "reevaluate" ELSE "refuse"
    <3>1. GoTo(t, place) /\ place \in {"reevaluate", "refuse"}
      BY <2>1 DEF RecordReview
    <3>. HIDE DEF place
    <3>. QED
      BY <3>1, Goes
  <2>2. CASE Reevaluate(t)
    BY <2>2 DEF Reevaluate, Becomes, TypeOK, FramesOK, Frame
  <2>. QED
    BY <2>1, <2>2
<1>5. Untouched(s)'
  BY <1>2, <1>3, QuietKeeps
<1>6. Busy(thr[t])'
  BY <1>4, <1>5 DEF Busy, EditPlaces, PayPlaces
<1>. QED
  BY <1>3, <1>4, <1>6, SoloKeeps

LEMMA SoloFirstLinkFails ==
    ASSUME TypeOK, SoloInv, NEW t \in Threads, Alone(t), FirstLinkFails(t)
    PROVE  SoloInv'
<1>1. thr[t].at = "firstLink" /\ GoTo(t, "openRow") /\ OnlyThread
  BY DEF FirstLinkFails, At
<1>. PICK s \in SessionIds : s = thr[t].s
  BY <1>1, AtWork
<1>2. Held(s) /\ LinksOf(s) = {} /\ thr[t].op = "complete"
  BY <1>1, AtWork DEF Busy
<1>3. \A x : Quiet(x)
  BY <1>1, QuietTables DEF OnlyThread, mandateVars, rowVars
<1>4. thr'[t].s = s /\ thr'[t].at = "openRow" /\ thr'[t].op = "complete"
  BY <1>1, <1>2, Goes
<1>5. Held(s)' /\ LinksOf(s)' = {}
  BY <1>2, <1>3, QuietKeeps
<1>6. Busy(thr[t])'
  BY <1>4, <1>5 DEF Busy, EditPlaces, PayPlaces
<1>. QED
  BY <1>3, <1>4, <1>6, SoloKeeps

LEMMA SoloPoll ==
    ASSUME TypeOK, SoloInv, NEW t \in Threads, Alone(t), PollStep(t)
    PROVE  SoloInv'
<1>. DEFINE fresh == Poll(thr[t].row.link) \ {r.payment : r \in payments[thr[t].s]}
<1>1. /\ thr[t].at = "poll" /\ OnlyThread
      /\ Becomes(t, [thr[t] EXCEPT !.at = IF fresh = {} THEN "judge" ELSE "record",
                          !.news = fresh, !.todo = fresh, !.dead = LinkDead(thr[t].row.link)])
  BY DEF PollStep, At
<1>. PICK s \in SessionIds : s = thr[t].s
  BY <1>1, AtWork
<1>2. Paying(s) /\ thr[t].op # "complete"
  BY <1>1, AtWork DEF Busy, PayPlaces
<1>3. \A x : Quiet(x)
  BY <1>1, QuietTables DEF OnlyThread, mandateVars, rowVars
<1>4. \A r \in payments[s] : r.payment \notin fresh
  OBVIOUS
<1>. HIDE DEF fresh
<1>5. /\ thr'[t].s = s /\ thr'[t].op # "complete" /\ thr'[t].at \in {"judge", "record"}
      /\ thr'[t].todo = fresh /\ thr'[t].news = fresh
  BY <1>1, <1>2 DEF Becomes, TypeOK, FramesOK, Frame
<1>6. Paying(s)' /\ payments'[s] = payments[s]
  BY <1>1, <1>2, <1>3, QuietKeeps DEF OnlyThread, rowVars
<1>7. \A r \in payments'[s] : r.payment \notin thr'[t].todo
  BY <1>4, <1>5, <1>6
<1>8. Busy(thr[t])'
  BY <1>5, <1>6, <1>7 DEF Busy, EditPlaces, PayPlaces, Paying, Secured
<1>. QED
  BY <1>3, <1>5, <1>8, SoloKeeps

LEMMA SoloFinishPaid ==
    ASSUME TypeOK, SoloInv, NEW t \in Threads, Alone(t), FinishPaid(t),
           Seen(thr[t].s)
    PROVE  SoloInv'
<1>. DEFINE place == IF OpenRows(thr[t].s) # {} THEN "commit" ELSE "complete"
<1>1. thr[t].at = "judge" /\ OnlyThread /\ GoTo(t, place)
  BY DEF FinishPaid, At
<1>. PICK s \in SessionIds : s = thr[t].s
  BY <1>1, AtWork
<1>2. Status(s) = PENDING /\ Holding(s) /\ ~Spent(s) /\ Seen(s) /\ thr[t].op # "complete"
  BY <1>1, AtWork DEF Busy
<1>3. \A x : Quiet(x)
  BY <1>1, QuietTables DEF OnlyThread, mandateVars, rowVars
<1>4. place = "commit"
  BY <1>2 DEF Holding
<1>. HIDE DEF place
<1>5. thr'[t].s = s /\ thr'[t].at = "commit" /\ thr'[t].op # "complete"
  BY <1>1, <1>2, <1>4, Goes
<1>6. Status(s)' = PENDING /\ Holding(s)' /\ ~Spent(s)' /\ Seen(s)'
  BY <1>2, <1>3, QuietKeeps
<1>7. Busy(thr[t])'
  BY <1>5, <1>6 DEF Busy, EditPlaces, PayPlaces
<1>. QED
  BY <1>3, <1>5, <1>7, SoloKeeps

LEMMA SoloFailedAttempt ==
    ASSUME TypeOK, SoloInv, NEW t \in Threads, Alone(t), FailedAttempt(t)
    PROVE  SoloInv'
<1>1. thr[t].at = "judge" /\ OnlyThread /\ ~FoundCapture(thr[t])
  BY DEF FailedAttempt, At
<1>. PICK s \in SessionIds : s = thr[t].s
  BY <1>1, AtWork
<1>2. Paying(s) /\ thr[t].op # "complete"
  BY <1>1, AtWork DEF Busy, Paying, Secured
<1>3. \A x : Quiet(x)
  BY <1>1, QuietTables DEF OnlyThread, mandateVars, rowVars
<1>4. thr'[t].s = s /\ thr'[t].at \in {"cancelOld", "abandon"} /\ thr'[t].op # "complete"
  BY <1>2 DEF FailedAttempt, Becomes, TypeOK, FramesOK, Frame
<1>5. Paying(s)'
  BY <1>2, <1>3, QuietKeeps
<1>6. Busy(thr[t])'
  BY <1>4, <1>5 DEF Busy, EditPlaces, PayPlaces
<1>. QED
  BY <1>3, <1>4, <1>6, SoloKeeps
LEMMA SoloSecondLinkFails ==
    ASSUME TypeOK, SoloInv, NEW t \in Threads, Alone(t), SecondLinkFails(t)
    PROVE  SoloInv'
<1>1. thr[t].at = "secondLink" /\ OnlyThread
  BY DEF SecondLinkFails, At
<1>. PICK s \in SessionIds : s = thr[t].s
  BY <1>1, AtWork
<1>2. Paying(s) /\ thr[t].op # "complete"
  BY <1>1, AtWork DEF Busy, PayPlaces
<1>3. \A x : Quiet(x)
  BY <1>1, QuietTables DEF OnlyThread, mandateVars, rowVars
<1>4. thr'[t].s = s /\ thr'[t].at = "abandon" /\ thr'[t].op # "complete"
  BY <1>2 DEF SecondLinkFails, Becomes, TypeOK, FramesOK, Frame
<1>5. Paying(s)'
  BY <1>2, <1>3, QuietKeeps
<1>6. Busy(thr[t])'
  BY <1>4, <1>5 DEF Busy, EditPlaces, PayPlaces
<1>. QED
  BY <1>3, <1>4, <1>6, SoloKeeps

LEMMA SoloCancelLinkRefused ==
    ASSUME TypeOK, SoloInv, NEW t \in Threads, Alone(t), CancelLinkRefused(t)
    PROVE  SoloInv'
<1>1. thr[t].at = "cancelLink" /\ GoTo(t, "finalPoll") /\ OnlyThread
  BY DEF CancelLinkRefused, At
<1>. PICK s \in SessionIds : s = thr[t].s
  BY <1>1, AtWork
<1>2. Paying(s) /\ thr[t].op # "complete"
  BY <1>1, AtWork DEF Busy, PayPlaces
<1>3. \A x : Quiet(x)
  BY <1>1, QuietTables DEF OnlyThread, mandateVars, rowVars
<1>4. thr'[t].s = s /\ thr'[t].at = "finalPoll" /\ thr'[t].op # "complete"
  BY <1>1, <1>2, Goes
<1>5. Paying(s)'
  BY <1>2, <1>3, QuietKeeps
<1>6. Busy(thr[t])'
  BY <1>4, <1>5 DEF Busy, EditPlaces, PayPlaces
<1>. QED
  BY <1>3, <1>4, <1>6, SoloKeeps

LEMMA SoloFinalPoll ==
    ASSUME TypeOK, SoloInv, NEW t \in Threads, Alone(t), FinalPoll(t)
    PROVE  SoloInv'
<1>1. thr[t].at = "finalPoll" /\ OnlyThread
  BY DEF FinalPoll, At
<1>. PICK s \in SessionIds : s = thr[t].s
  BY <1>1, AtWork
<1>2. Paying(s) /\ thr[t].op # "complete"
  BY <1>1, AtWork DEF Busy, PayPlaces
<1>3. \A x : Quiet(x)
  BY <1>1, QuietTables DEF OnlyThread, mandateVars, rowVars
<1>4. CASE Done(t)
  <2>1. thr[t].at # "idle"
    BY <1>1
  <2>. QED
    BY <1>1, <1>2, <1>4, <2>1, SoloStops DEF Rests
<1>5. ASSUME NEW p \in {q \in Poll(thr[t].row.link) : IsCaptured(q)}
                           \ {r.payment : r \in payments[s]},
             Becomes(t, [thr[t] EXCEPT !.at = "record", !.news = {p}, !.todo = {p}])
      PROVE  SoloInv'
  <2>1. /\ thr'[t].s = s /\ thr'[t].at = "record" /\ thr'[t].op # "complete"
        /\ thr'[t].todo = {p} /\ thr'[t].news = {p}
    BY <1>2, <1>5 DEF Becomes, TypeOK, FramesOK, Frame
  <2>2. Paying(s)' /\ payments'[s] = payments[s]
    BY <1>1, <1>2, <1>3, QuietKeeps DEF OnlyThread, rowVars
  <2>3. \A r \in payments'[s] : r.payment \notin thr'[t].todo
    BY <1>5, <2>1, <2>2
  <2>4. Busy(thr[t])'
    BY <2>1, <2>2, <2>3 DEF Busy, EditPlaces, PayPlaces, Paying, Secured
  <2>. QED
    BY <1>3, <2>1, <2>4, SoloKeeps
<1>. QED
  BY <1>4, <1>5 DEF FinalPoll

\* What follows a release.
LEMMA SoloAfterRelease ==
    ASSUME TypeOK, NEW t \in Threads, Becomes(t, AfterRelease(thr[t]))
    PROVE  \/ thr[t].op = "complete" /\ thr'[t].s = None
           \/ /\ thr[t].op # "complete" /\ thr'[t].s = thr[t].s
              /\ thr'[t].op = thr[t].op /\ thr'[t].at = "canceled"
  BY DEF Becomes, AfterRelease, Idle, Begun, TypeOK, FramesOK, Frame

LEMMA SoloReadOpenRow ==
    ASSUME TypeOK, SoloInv, NEW t \in Threads, Alone(t), ReadOpenRow(t)
    PROVE  SoloInv'
<1>1. thr[t].at = "openRow" /\ OnlyThread
  BY DEF ReadOpenRow, At
<1>. PICK s \in SessionIds : s = thr[t].s
  BY <1>1, AtWork
<1>2. /\ thr[t].op = "complete" => Held(s) /\ LinksOf(s) = {}
      /\ thr[t].op # "complete" => Untouched(s) \/ Paying(s)
  BY <1>1, AtWork DEF Busy
<1>3. \A x : Quiet(x)
  BY <1>1, QuietTables DEF OnlyThread, mandateVars, rowVars
<1>4. CASE Holding(s)
  <2>1. thr'[t].s = s /\ thr'[t].at = "release" /\ thr'[t].op = thr[t].op
    BY <1>4 DEF ReadOpenRow, Holding, Becomes, TypeOK, FramesOK, Frame
  <2>2. IF thr[t].op = "complete" THEN Held(s)' /\ LinksOf(s)' = {}
                                  ELSE Untouched(s)' \/ Paying(s)'
    BY <1>2, <1>3, QuietKeeps
  <2>3. Busy(thr[t])'
    BY <2>1, <2>2 DEF Busy, EditPlaces, PayPlaces
  <2>. QED
    BY <1>3, <2>1, <2>3, SoloKeeps
<1>5. CASE ~Holding(s)
  <2>1. Becomes(t, AfterRelease(thr[t]))
    BY <1>5 DEF ReadOpenRow, Holding
  <2>2. thr[t].op # "complete" /\ Untouched(s)
    BY <1>2, <1>5 DEF Held, Paying, Secured
  <2>3. thr'[t].s = s /\ thr'[t].at = "canceled" /\ thr'[t].op # "complete"
    BY <2>1, <2>2, SoloAfterRelease
  <2>4. Status(s) \in EDITABLE
    BY <2>2, AtWork, <1>1, RowAssumption DEF Untouched, Row
  <2>5. Status(s)' \in EDITABLE /\ Clean(s)'
    BY <1>3, <2>2, <2>4, QuietKeeps DEF Untouched
  <2>6. Busy(thr[t])'
    BY <2>3, <2>5 DEF Busy, EditPlaces, PayPlaces
  <2>. QED
    BY <1>3, <2>3, <2>6, SoloKeeps
<1>. QED
  BY <1>4, <1>5

-----------------------------------------------------------------------------
(* Calls to the provider.                                                  *)

LEMMA SoloNewLink ==
    ASSUME TypeOK, SoloInv, NEW t \in Threads, Alone(t), FirstLink(t) \/ SecondLink(t)
    PROVE  SoloInv'
<1>1. /\ thr[t].at \in {"firstLink", "secondLink"}
      /\ CreateLink(thr[t].s, thr[t].dec.total) /\ OnlyLinks
      /\ Becomes(t, [thr[t] EXCEPT !.at = IF thr[t].at = "firstLink" THEN "pending" ELSE "retried",
                                   !.link = Len(links) + 1])
  BY DEF FirstLink, SecondLink, At
<1>. PICK s \in SessionIds : s = thr[t].s
  BY <1>1, AtWork
<1>2. IF thr[t].at = "firstLink" THEN Held(s) /\ thr[t].op = "complete"
                                 ELSE Paying(s) /\ thr[t].op # "complete"
  BY <1>1, AtWork DEF Busy, PayPlaces
<1>3. thr[t].dec.total \in Nat
  BY <1>1, AtWork DEF FrameOK, DecidedPlaces, Decision
<1>4. /\ \A x \in SessionIds : x # s => Quiet(x)
      /\ Status(s)' = Status(s)
      /\ OpenRows(s)' = OpenRows(s) /\ CommittedRows(s)' = CommittedRows(s)
      /\ CapturesOf(s)' = CapturesOf(s)
  BY <1>1, <1>3, QuietNewLink DEF OnlyLinks, mandateVars, rowVars
<1>5. /\ thr'[t].s = s /\ thr'[t].op = thr[t].op
      /\ thr'[t].at = IF thr[t].at = "firstLink" THEN "pending" ELSE "retried"
  BY <1>1 DEF Becomes, TypeOK, FramesOK, Frame
<1>6. /\ Held(s) => Held(s)'
      /\ Paying(s) => Paying(s)'
  BY <1>4 DEF Held, Paying, Secured, Holding, Spent, Seen
<1>7. Busy(thr[t])'
  BY <1>1, <1>2, <1>5, <1>6 DEF Busy, EditPlaces, PayPlaces
<1>. QED
  BY <1>4, <1>5, <1>7, SoloStep

LEMMA SoloCancels ==
    ASSUME TypeOK, SoloInv, NEW t \in Threads, Alone(t), CancelQuietly(t) \/ CancelLinkStep(t)
    PROVE  SoloInv'
<1>1. /\ thr[t].at \in {"cancelOld", "abandon", "cancelLink"} /\ OnlyLinks
      /\ UNCHANGED links \/ \E k : CancelLink(k)
      /\ GoTo(t, IF thr[t].at = "cancelOld" THEN "secondLink" ELSE "openRow")
  BY DEF CancelQuietly, CancelLinkStep, TryCancel, At
<1>. PICK s \in SessionIds : s = thr[t].s
  BY <1>1, AtWork
<1>2. Paying(s) /\ thr[t].op # "complete"
  BY <1>1, AtWork DEF Busy, PayPlaces
<1>3. \A x : Quiet(x)
  BY <1>1, QuietTables, QuietCancelLink DEF OnlyLinks, mandateVars, rowVars
<1>4. thr'[t].s = s /\ thr'[t].at \in {"secondLink", "openRow"} /\ thr'[t].op # "complete"
  <2>. DEFINE place == IF thr[t].at = "cancelOld" THEN "secondLink" ELSE "openRow"
  <2>1. GoTo(t, place) /\ place \in {"secondLink", "openRow"}
    BY <1>1
  <2>. HIDE DEF place
  <2>. QED
    BY <1>2, <2>1, Goes
<1>5. Paying(s)'
  BY <1>2, <1>3, QuietKeeps
<1>6. Busy(thr[t])'
  BY <1>4, <1>5 DEF Busy, EditPlaces, PayPlaces
<1>. QED
  BY <1>3, <1>4, <1>6, SoloKeeps

LEMMA SoloCancelLinkLost ==
    ASSUME TypeOK, SoloInv, NEW t \in Threads, Alone(t), CancelLinkLost(t)
    PROVE  SoloInv'
<1>1. /\ thr[t].at = "cancelLink" /\ GoTo(t, "finalPoll") /\ OnlyLinks
      /\ CancelLink(thr[t].row.link)
  BY DEF CancelLinkLost, At
<1>. PICK s \in SessionIds : s = thr[t].s
  BY <1>1, AtWork
<1>2. Paying(s) /\ thr[t].op # "complete"
  BY <1>1, AtWork DEF Busy, PayPlaces
<1>3. \A x : Quiet(x)
  BY <1>1, QuietCancelLink DEF OnlyLinks, mandateVars, rowVars
<1>4. thr'[t].s = s /\ thr'[t].at = "finalPoll" /\ thr'[t].op # "complete"
  BY <1>1, <1>2, Goes
<1>5. Paying(s)'
  BY <1>2, <1>3, QuietKeeps
<1>6. Busy(thr[t])'
  BY <1>4, <1>5 DEF Busy, EditPlaces, PayPlaces
<1>. QED
  BY <1>3, <1>4, <1>6, SoloKeeps

LEMMA SoloRefundLost ==
    ASSUME TypeOK, SoloInv, NEW t \in Threads, Alone(t), RefundLost(t)
    PROVE  SoloInv'
<1>1. /\ thr[t].at = "refund" /\ Done(t) /\ OnlyLinks
      /\ RefundUnheard(thr[t].dec.link, thr[t].dec.amount)
  BY DEF RefundLost, At
<1>. PICK s \in SessionIds : s = thr[t].s
  BY <1>1, AtWork
<1>2. Rests(s)
  BY <1>1, AtWork DEF Busy, Rests
<1>3. \A x : Quiet(x)
  BY <1>1, QuietUnheard DEF OnlyLinks, mandateVars, rowVars
<1>4. Rests(s)' /\ thr'[t].s = None
  BY <1>1, <1>2, <1>3, QuietRests, Stops
<1>. QED
  BY <1>3, <1>4, SoloStep

LEMMA SoloRefund ==
    ASSUME TypeOK, SoloInv, NEW t \in Threads, Alone(t), RefundStep(t)
    PROVE  SoloInv'
<1>1. /\ thr[t].at = "refund" /\ GoTo(t, "recordRefund") /\ OnlyLinks
      /\ RefundPayment(thr[t].dec.link, thr[t].dec.amount)
  BY DEF RefundStep, At
<1>. PICK s \in SessionIds : s = thr[t].s
  BY <1>1, AtWork
<1>2. Finished(s)
  BY <1>1, AtWork DEF Busy
<1>3. \A x : Quiet(x)
  BY <1>1, QuietRefund DEF OnlyLinks, mandateVars, rowVars
<1>4. thr'[t].s = s /\ thr'[t].at = "recordRefund"
  BY <1>1, Goes
<1>5. Finished(s)'
  BY <1>2, <1>3, QuietKeeps
<1>6. Busy(thr[t])'
  BY <1>4, <1>5 DEF Busy, EditPlaces, PayPlaces
<1>. QED
  BY <1>3, <1>4, <1>6, SoloKeeps
-----------------------------------------------------------------------------
(* Transactions.                                                           *)

LEMMA SoloReserve ==
    ASSUME TypeOK, SoloInv, NEW t \in Threads, Alone(t), ReserveStep(t)
    PROVE  SoloInv'
<1>1. /\ thr[t].at = "reserve" /\ GoTo(t, "firstLink") /\ OnlyMandates
      /\ Reserve(thr[t].s, thr[t].dec.mandate, thr[t].dec.total)
  BY DEF ReserveStep, At
<1>. PICK s \in SessionIds : s = thr[t].s
  BY <1>1, AtWork
<1>2. Untouched(s) /\ thr[t].op = "complete" /\ Status(s) \in EDITABLE
  BY <1>1, AtWork, RowAssumption DEF Busy, EditPlaces, Untouched, Row
<1>3. /\ \A x \in SessionIds : x # s => Quiet(x)
      /\ Status(s)' = Status(s) /\ Holding(s)'
      /\ CommittedRows(s)' = CommittedRows(s)
      /\ CapturesOf(s)' = CapturesOf(s) /\ LinksOf(s)' = LinksOf(s)
  BY <1>1, QuietReserve DEF OnlyMandates, rowVars
<1>4. thr'[t].s = s /\ thr'[t].at = "firstLink" /\ thr'[t].op = "complete"
  BY <1>1, <1>2, Goes
<1>5. Held(s)' /\ LinksOf(s)' = {}
  BY <1>2, <1>3 DEF Untouched, Clean, Held, Secured, Spent, Seen
<1>6. Busy(thr[t])'
  BY <1>4, <1>5 DEF Busy, EditPlaces, PayPlaces
<1>. QED
  BY <1>3, <1>4, <1>6, SoloStep

LEMMA SoloCommit ==
    ASSUME TypeOK, SoloInv, NEW t \in Threads, Alone(t), CommitStep(t)
    PROVE  SoloInv'
<1>1. thr[t].at = "commit" /\ GoTo(t, "complete") /\ OnlyMandates /\ Commit(thr[t].s)
  BY DEF CommitStep, At
<1>. PICK s \in SessionIds : s = thr[t].s
  BY <1>1, AtWork
<1>2. Status(s) = PENDING /\ Seen(s)
  BY <1>1, AtWork DEF Busy
<1>3. /\ \A x \in SessionIds : x # s => Quiet(x)
      /\ Status(s)' = Status(s) /\ ~Holding(s)' /\ Spent(s)'
      /\ CapturesOf(s)' = CapturesOf(s)
  BY <1>1, QuietCommit DEF OnlyMandates, rowVars
<1>4. thr'[t].s = s /\ thr'[t].at = "complete"
  BY <1>1, Goes
<1>5. Status(s)' = PENDING /\ Paid(s)'
  BY <1>2, <1>3 DEF Paid, Seen
<1>6. Busy(thr[t])'
  BY <1>4, <1>5 DEF Busy, EditPlaces, PayPlaces
<1>. QED
  BY <1>3, <1>4, <1>6, SoloStep

LEMMA SoloRelease ==
    ASSUME TypeOK, SoloInv, NEW t \in Threads, Alone(t), ReleaseStep(t)
    PROVE  SoloInv'
<1>1. /\ thr[t].at = "release" /\ OnlyMandates /\ Release(thr[t].s)
      /\ Becomes(t, AfterRelease(thr[t]))
  BY DEF ReleaseStep, At
<1>. PICK s \in SessionIds : s = thr[t].s
  BY <1>1, AtWork
<1>2. /\ thr[t].op = "complete" => Held(s) /\ LinksOf(s) = {}
      /\ thr[t].op # "complete" => Untouched(s) \/ Paying(s)
  BY <1>1, AtWork DEF Busy
<1>3. Holding(s)
  BY <1>1 DEF Release, Holding
<1>4. /\ \A x \in SessionIds : x # s => Quiet(x)
      /\ Status(s)' = Status(s) /\ ~Holding(s)'
      /\ CommittedRows(s)' = CommittedRows(s)
      /\ CapturesOf(s)' = CapturesOf(s) /\ LinksOf(s)' = LinksOf(s)
  BY <1>1, QuietRelease DEF OnlyMandates, rowVars
<1>5. Clean(s)'
  BY <1>2, <1>3, <1>4 DEF Held, Paying, Untouched, Clean, Secured, Spent, Seen
<1>6. CASE thr[t].op = "complete"
  <2>1. Rests(s)'
    BY <1>2, <1>4, <1>5, <1>6 DEF Held, Rests, Untouched
  <2>2. thr'[t].s = None
    BY <1>1, <1>6, SoloAfterRelease
  <2>. QED
    BY <1>4, <2>1, <2>2, SoloStep
<1>7. CASE thr[t].op # "complete"
  <2>1. thr'[t].s = s /\ thr'[t].at = "canceled" /\ thr'[t].op # "complete"
    BY <1>1, <1>7, SoloAfterRelease
  <2>2. Status(s)' \in EDITABLE \cup {PENDING}
    BY <1>2, <1>3, <1>4, <1>7 DEF Untouched, Paying, Clean
  <2>3. Busy(thr[t])'
    BY <1>5, <2>1, <2>2 DEF Busy, EditPlaces, PayPlaces
  <2>. QED
    BY <1>4, <2>1, <2>3, SoloStep
<1>. QED
  BY <1>6, <1>7

LEMMA SoloRecordRefund ==
    ASSUME TypeOK, SoloInv, NEW t \in Threads, Alone(t), RecordRefundStep(t)
    PROVE  SoloInv'
<1>1. thr[t].at = "recordRefund" /\ Done(t) /\ OnlyMandates /\ UNCHANGED reservations
  BY DEF RecordRefundStep, RecordRefund, At
<1>. PICK s \in SessionIds : s = thr[t].s
  BY <1>1, AtWork
<1>2. Finished(s)
  BY <1>1, AtWork DEF Busy
<1>3. \A x : Quiet(x)
  BY <1>1, QuietTables DEF OnlyMandates, rowVars
<1>4. Rests(s)' /\ thr'[t].s = None
  BY <1>1, <1>2, <1>3, QuietKeeps, Stops DEF Rests
<1>. QED
  BY <1>3, <1>4, SoloStep

LEMMA SoloRecord ==
    ASSUME TypeOK, SoloInv, NEW t \in Threads, Alone(t),
           NEW p \in thr[t].todo, RecordPayment(t, p)
    PROVE  SoloInv'
<1>1. thr[t].at = "record"
  BY DEF RecordPayment, At
<1>. PICK s \in SessionIds : s = thr[t].s
  BY <1>1, AtWork
<1>2. /\ Status(s) = PENDING /\ Holding(s) /\ ~Spent(s) /\ thr[t].op # "complete"
      /\ Seen(s) => \E q \in thr[t].news \ thr[t].todo : IsCaptured(q)
      /\ thr[t].todo \subseteq thr[t].news
      /\ \A r \in payments[s] : r.payment \notin thr[t].todo
  BY <1>1, AtWork DEF Busy
<1>3. /\ \A x \in SessionIds : x # s => Quiet(x)
      /\ Status(s)' = Status(s) /\ OpenRows(s)' = OpenRows(s)
      /\ CommittedRows(s)' = CommittedRows(s)
  BY QuietRecord
<1>4. /\ thr'[t].s = s /\ thr'[t].op = thr[t].op /\ thr'[t].news = thr[t].news
      /\ thr'[t].todo = thr[t].todo \ {p}
      /\ thr'[t].at = IF thr[t].todo = {p} THEN "judge" ELSE "record"
  BY DEF RecordPayment, Becomes, TypeOK, FramesOK, Frame
<1>5. payments'[s] = payments[s] \cup {[payment |-> p, day |-> today]}
  BY DEF RecordPayment, TypeOK, DataOK
<1>6. \A r \in payments'[s] : r.payment \notin thr'[t].todo
  BY <1>2, <1>4, <1>5
<1>7. Seen(s)' => \E q \in thr'[t].news \ thr'[t].todo : IsCaptured(q)
  <2>. SUFFICES ASSUME Seen(s)' PROVE \E q \in thr'[t].news \ thr'[t].todo : IsCaptured(q)
    OBVIOUS
  <2>1. Seen(s) \/ IsCaptured(p)
    BY <1>5 DEF Seen, CapturesOf
  <2>. QED
    BY <1>2, <1>4, <2>1
<1>8. Status(s)' = PENDING /\ Holding(s)' /\ ~Spent(s)'
  BY <1>2, <1>3 DEF Holding, Spent
<1>9. thr'[t].todo \subseteq thr'[t].news
  BY <1>2, <1>4
<1>10. Busy(thr[t])'
  BY <1>2, <1>4, <1>6, <1>7, <1>8, <1>9 DEF Busy, EditPlaces, PayPlaces, FoundCapture
<1>. QED
  BY <1>3, <1>4, <1>10, SoloStep

-----------------------------------------------------------------------------
LEMMA SoloInit == Init => SoloInv
<1>. SUFFICES ASSUME Init PROVE SoloInv
  OBVIOUS
<1>1. \A t \in Threads : thr[t].s = None
  BY DEF Init, Idle, Begun
<1>2. ASSUME NEW s \in SessionIds PROVE Rests(s)
  BY <1>2 DEF Init, MandatesInit, LinksInit, LinkIds, Status, Exists, Rests, Untouched, Clean,
     Holding, Spent, Seen, OpenRows, CommittedRows, RowsOf, CapturesOf, LinksOf
<1>. QED
  BY <1>1, <1>2, IdsAssumption DEF SoloInv

LEMMA SoloIdle ==
    ASSUME SoloInv, UNCHANGED <<thr, payments>>, \A x : Quiet(x)
    PROVE  SoloInv'
<1>1. ASSUME NEW s \in SessionIds, AtRest(s)' PROVE Rests(s)'
  <2>1. AtRest(s)
    BY <1>1 DEF AtRest
  <2>. QED
    BY <2>1, QuietRests DEF SoloInv
<1>2. ASSUME NEW t \in Threads, thr'[t].s \in SessionIds PROVE Busy(thr[t])'
  <2>1. PICK s \in SessionIds : s = thr[t].s
    BY <1>2
  <2>2. thr'[t] = thr[t] /\ Busy(thr[t])
    BY <1>2 DEF SoloInv
  <2>. QED
    BY <2>1, <2>2, QuietKeeps DEF Busy, FoundCapture
<1>. QED
  BY <1>1, <1>2 DEF SoloInv

LEMMA SoloContinue ==
    ASSUME TypeOK, PaidInv, SoloInv, NEW t \in Threads, Alone(t), Continue(t)
    PROVE  SoloInv'
<1>1. CASE WritesRow(t)
  BY <1>1, SoloWrites
<1>2. CASE RecordReview(t) \/ Reevaluate(t)
  BY <1>2, SoloReview
<1>3. CASE \/ ReserveRaises(t) \/ PollFails(t) \/ NothingNew(t) \/ CommitRaises(t)
           \/ ReleaseRaises(t) \/ RefundFails(t) \/ RecordRefundRaises(t)
           \/ \E p \in thr[t].todo : RecordRaises(t, p)
  BY <1>3, SoloRaises
<1>4. CASE FirstLink(t) \/ SecondLink(t)
  BY <1>4, SoloNewLink
<1>5. CASE CancelQuietly(t) \/ CancelLinkStep(t)
  BY <1>5, SoloCancels
<1>6. CASE \E p \in thr[t].todo : RecordPayment(t, p)
  BY <1>6, SoloRecord
<1>7. CASE FinishPaid(t)
  <2>1. \E p \in thr[t].news : IsCaptured(p) /\ Recorded(thr[t].s, p)
    BY <1>7 DEF FinishPaid, At, FoundCapture, PaidInv, PaidFrame
  <2>2. Seen(thr[t].s)
    BY <2>1 DEF Seen, CapturesOf, Recorded
  <2>. QED
    BY <1>7, <2>2, SoloFinishPaid
<1>8. CASE FirstLinkFails(t) \/ PollStep(t) \/ FailedAttempt(t) \/ SecondLinkFails(t)
           \/ CancelLinkRefused(t) \/ CancelLinkLost(t) \/ FinalPoll(t) \/ ReadOpenRow(t)
  BY <1>8, SoloFirstLinkFails, SoloPoll, SoloFailedAttempt, SoloSecondLinkFails,
     SoloCancelLinkRefused, SoloCancelLinkLost, SoloFinalPoll, SoloReadOpenRow
<1>9. CASE ReserveStep(t) \/ CommitStep(t) \/ ReleaseStep(t) \/ RefundStep(t)
           \/ RefundLost(t) \/ RecordRefundStep(t)
  BY <1>9, SoloReserve, SoloCommit, SoloRelease, SoloRefund, SoloRefundLost, SoloRecordRefund
<1>. QED
  BY <1>1, <1>2, <1>3, <1>4, <1>5, <1>6, <1>7, <1>8, <1>9 DEF Continue, WritesRow

LEMMA MovesAlone ==
    ASSUME TypeOK, Apart, Apart', NEW t \in Threads, Begin(t) \/ Continue(t)
    PROVE  Alone(t)
  BY OthersWait DEF Alone

LEMMA SoloNext ==
    ASSUME Apart, Apart', NeverKilled, TypeOK, PaidInv, SoloInv, [Next]_vars
    PROVE  SoloInv'
<1>1. CASE UNCHANGED vars
  <2>1. UNCHANGED <<thr, payments>> /\ \A x : Quiet(x)
    BY <1>1, QuietTables DEF vars, mandateVars
  <2>. QED
    BY <2>1, SoloIdle
<1>2. ASSUME NEW t \in Threads, Begin(t) PROVE SoloInv'
  <2>1. Alone(t)
    BY <1>2, MovesAlone
  <2>. QED
    BY <1>2, <2>1, SoloCreate, SoloLoads DEF Begin
<1>3. ASSUME NEW t \in Threads, Continue(t) PROVE SoloInv'
  <2>1. Alone(t)
    BY <1>3, MovesAlone
  <2>. QED
    BY <1>3, <2>1, SoloContinue
<1>4. CASE Merchant \/ Clock \/ Customer
  BY <1>4, QuietWorld, SoloIdle
<1>5. CASE Crash
  BY <1>5 DEF Crash, NeverKilled, TypeOK, DataOK
<1>. QED
  BY <1>1, <1>2, <1>3, <1>4, <1>5 DEF Next

LEMMA RestsPending ==
    ASSUME NEW s, Rests(s)
    PROVE  OpenRows(s) # {} <=> Status(s) = PENDING
  BY RowAssumption DEF Rests, Untouched, Paying, Over, Finished, Clean, Secured, Paid, Holding,
     Statuses, EDITABLE, TERMINAL, NOT_READY, READY, REQUIRES_REVIEW, PENDING, COMPLETED, CANCELED

LEMMA RestsCanceled ==
    ASSUME TypeOK, NEW s, Rests(s), Status(s) = CANCELED
    PROVE  RowsOf(s) = {}
<1>1. OpenRows(s) = {} /\ CommittedRows(s) = {}
  BY RowAssumption DEF Rests, Untouched, Paying, Over, Finished, Clean, Holding, Spent,
     Statuses, EDITABLE, TERMINAL, NOT_READY, READY, REQUIRES_REVIEW, PENDING, COMPLETED, CANCELED
<1>. QED
  BY <1>1 DEF OpenRows, CommittedRows, RowsOf, TypeOK, DataOK, Reservation

\* A completed payment is on record from the start (PaidFirst).
LEMMA PaidAlways == Spec => []PaidInv
<1>1. Init => PaidInv
  BY PaidInit
<1>2. TypeOK /\ PaidInv /\ [Next]_vars => PaidInv'
  BY PaidNext
<1>. QED
  BY <1>1, <1>2, TypeCorrect, PTL DEF Spec

LEMMA SoloAlways ==
    ASSUME NeverKilled
    PROVE  Spec /\ []Apart => []SoloInv
<1>1. Init => SoloInv
  BY SoloInit
<1>2. Apart /\ Apart' /\ TypeOK /\ PaidInv /\ SoloInv /\ [Next]_vars => SoloInv'
  BY SoloNext
<1>. QED
  BY <1>1, <1>2, PaidAlways, TypeCorrect, PTL DEF Spec

\* Between two requests a session holds an open reservation exactly while its
\* payment is pending: complete reserves before it creates the link, and every
\* way out of payment_pending commits or releases.  A kill leaves a reservation
\* behind, and two handlers on one session can as well, so both are excluded;
\* handlers on different sessions may overlap in any way.
THEOREM BudgetFollowsPayment ==
    ASSUME NeverKilled
    PROVE  Spec /\ []Apart => []ReservedWhilePending
<1>1. SoloInv => ReservedWhilePending
  BY RestsPending DEF SoloInv, ReservedWhilePending
<1>. QED
  BY <1>1, SoloAlways, PTL

\* A session that was canceled holds no budget and has spent none: cancel and a
\* payment given up release what was reserved, and a payment that turns out
\* captured completes the session instead.
THEOREM CancelGivesBack ==
    ASSUME NeverKilled
    PROVE  Spec /\ []Apart => []CanceledHoldsNothing
<1>1. TypeOK /\ SoloInv => CanceledHoldsNothing
  BY RestsCanceled DEF SoloInv, CanceledHoldsNothing
<1>. QED
  BY <1>1, SoloAlways, TypeCorrect, PTL

\* Who makes a new link, for whom and for how much.
LEMMA NewLinkMade ==
    ASSUME TypeOK, [Next]_vars, Len(links') > Len(links)
    PROVE  \E t \in Threads :
             /\ thr[t].at \in {"firstLink", "secondLink"}
             /\ links'[Len(links')].session = thr[t].s
             /\ links'[Len(links')].amount = thr[t].dec.total
<1>1. Len(links) \in Nat /\ DOMAIN links = 1..Len(links)
  BY DEF TypeOK, DataOK
<1>2. DOMAIN links' # DOMAIN links
  <2>1. links' \in Seq(Link)'
    BY TypeNext DEF TypeOK, DataOK
  <2>2. Len(links') \in Nat /\ DOMAIN links' = 1..Len(links')
    BY <2>1
  <2>3. Len(links') \in DOMAIN links' /\ Len(links') \notin DOMAIN links
    BY <1>1, <2>2
  <2>. QED
    BY <2>3
<1>3. PICK t \in Threads : FirstLink(t) \/ SecondLink(t)
  <2>1. ASSUME NEW k, \/ CancelLink(k) \/ CustomerFails(k) \/ CustomerPays(k)
                      \/ LinkFallsDue(k) \/ LinkExpires(k)
        PROVE  DOMAIN links' = DOMAIN links
    BY <2>1 DEF CancelLink, CustomerFails, CustomerPays, LinkFallsDue, LinkExpires
  <2>2. ASSUME NEW t \in Threads, RefundStep(t) PROVE DOMAIN links' = DOMAIN links
    BY <2>2 DEF RefundStep, RefundPayment
  <2>3. \/ UNCHANGED links
        \/ \E t \in Threads : FirstLink(t) \/ SecondLink(t) \/ RefundStep(t)
        \/ \E k : CancelLink(k)
        \/ \E k, a : RefundUnheard(k, a)
        \/ \E k \in LinkIds :
             CustomerFails(k) \/ CustomerPays(k) \/ LinkFallsDue(k) \/ LinkExpires(k)
    BY LinkSteps
  <2>4. ~UNCHANGED links
    BY <1>2
  <2>5. ASSUME NEW k, NEW a, RefundUnheard(k, a) PROVE DOMAIN links' = DOMAIN links
    BY <2>5 DEF RefundUnheard
  <2>. QED
    BY <1>2, <2>1, <2>2, <2>3, <2>4, <2>5
<1>4. thr[t].at \in {"firstLink", "secondLink"} /\ CreateLink(thr[t].s, thr[t].dec.total)
  BY <1>3 DEF FirstLink, SecondLink, At
<1>. DEFINE e == [session |-> thr[t].s, amount |-> thr[t].dec.total, state |-> "created",
                  failed |-> 0, due |-> FALSE, refunded |-> 0, unheard |-> 0]
<1>5. links' = Append(links, e) /\ e.session = thr[t].s /\ e.amount = thr[t].dec.total
  BY <1>4 DEF CreateLink
<1>. HIDE DEF e
<1>6. Len(links') = Len(links) + 1 /\ links'[Len(links) + 1] = e
  BY <1>5 DEF TypeOK, DataOK
<1>. QED
  BY <1>4, <1>5, <1>6

\* A link comes into being only for a session that holds a reservation, on the
\* first attempt and on the retry: complete reserves before it calls the
\* provider, and a retry keeps what the first attempt reserved.
THEOREM LinkFollowsReservation ==
    ASSUME NeverKilled
    PROVE  Spec /\ []Apart => LinkNeedsReservation
<1>1. ASSUME TypeOK, SoloInv, [Next]_vars, Len(links') > Len(links)
      PROVE  OpenRows(links'[Len(links')].session) # {}
  <2>1. PICK t \in Threads : /\ thr[t].at \in {"firstLink", "secondLink"}
                             /\ links'[Len(links')].session = thr[t].s
    BY <1>1, NewLinkMade
  <2>2. OpenRows(thr[t].s) # {}
    BY <1>1, <2>1, AtWork DEF Busy, PayPlaces, Held, Paying, Secured, Holding
  <2>. QED
    BY <2>1, <2>2
<1>2. TypeOK /\ SoloInv /\ [Next]_vars =>
        [Len(links') > Len(links) => OpenRows(links'[Len(links')].session) # {}]_vars
  BY <1>1
<1>. QED
  BY <1>2, SoloAlways, TypeCorrect, PTL DEF Spec, LinkNeedsReservation
-----------------------------------------------------------------------------
(* Links a customer can still pay, while calls to the provider succeed.    *)
(*                                                                         *)
(* OneLiveLink speaks of sessions at rest and leaves open what a handler   *)
(* has cancelled by the time it rests.  LiveInv adds the link that was     *)
(* created and is not in its row yet, the places where no live link is     *)
(* left, and that a handler cancels the link its row still names.          *)

\* No call to the provider fails outright; it still refuses what it must.
CallsAnswer == ~ProviderErrors

Lives(s) == {l \in LinksOf(s) : links[l].state = "created"}

LiveRest(s) ==
    Status(s) # COMPLETED =>
        \A l \in Lives(s) : Status(s) = PENDING /\ sessions[s].link = l

Linking(f) == f.at \in {"pending", "retried"}
DeadPlaces == {"secondLink", "finalPoll", "openRow", "release", "canceled"}
CancelPlaces == {"cancelOld", "abandon", "cancelLink"}

LiveFrame(f) ==
    /\ Linking(f) => Lives(f.s) \subseteq {f.link}
    /\ f.at \in DeadPlaces => Lives(f.s) = {}
    /\ f.at \in CancelPlaces => f.row.link = sessions[f.s].link

LiveInv ==
    /\ \A s \in SessionIds :
         LiveRest(s) \/ \E t \in Threads : thr[t].s = s /\ Linking(thr[t])
    /\ \A t \in Threads : LiveFrame(thr[t])

FewerLives == \A x : Lives(x)' \subseteq Lives(x)

LEMMA SetLinkLives ==
    ASSUME TypeOK, NEW k, NEW e, links' = [links EXCEPT ![k] = e],
           k \in LinkIds =>
             e.session = links[k].session /\ (e.state = "created" => links[k].state = "created")
    PROVE  FewerLives
<1>1. LinkIds' = LinkIds /\ \A l \in LinkIds : links'[l] = IF l = k THEN e ELSE links[l]
  BY DEF LinkIds, TypeOK, DataOK
<1>. QED
  BY <1>1 DEF FewerLives, Lives, LinksOf

LEMMA NewLinkLives ==
    ASSUME TypeOK, NEW s \in SessionIds, NEW a \in Nat, CreateLink(s, a)
    PROVE  /\ \A x : x # s => Lives(x)' \subseteq Lives(x)
           /\ Lives(s)' \subseteq Lives(s) \cup {Len(links) + 1}
<1>. DEFINE e == [session |-> s, amount |-> a, state |-> "created",
                  failed |-> 0, due |-> FALSE, refunded |-> 0, unheard |-> 0]
<1>1. links \in Seq(Link) /\ links' = Append(links, e) /\ e \in Link /\ e.session = s
  BY DEF TypeOK, DataOK, CreateLink, Link
<1>. HIDE DEF e
<1>2. /\ DOMAIN links' = 1..(Len(links) + 1) /\ DOMAIN links = 1..Len(links) /\ Len(links) \in Nat
      /\ \A l \in 1..Len(links) : links'[l] = links[l]
      /\ links'[Len(links) + 1] = e
  BY <1>1
<1>3. \A l \in LinkIds' : l = Len(links) + 1 \/ (l \in LinkIds /\ links'[l] = links[l])
  BY <1>2 DEF LinkIds
<1>. QED
  BY <1>1, <1>2, <1>3 DEF Lives, LinksOf

\* Only a new link can be paid that could not be paid before.
LEMMA OldLives ==
    ASSUME TypeOK, [Next]_vars, \A t \in Threads : ~FirstLink(t) /\ ~SecondLink(t)
    PROVE  FewerLives
<1>1. CASE UNCHANGED links
  BY <1>1 DEF FewerLives, Lives, LinksOf, LinkIds
<1>2. ASSUME NEW t \in Threads, RefundStep(t) PROVE FewerLives
  <2>. DEFINE k == thr[t].dec.link
              e == [links[k] EXCEPT !.refunded = @ + thr[t].dec.amount]
  <2>1. links' = [links EXCEPT ![k] = e]
    BY <1>2 DEF RefundStep, RefundPayment
  <2>2. k \in LinkIds => e.session = links[k].session /\ e.state = links[k].state
    BY LinkElement DEF Link
  <2>. HIDE DEF e, k
  <2>. QED
    BY <2>1, <2>2, SetLinkLives
<1>3. ASSUME NEW k, CancelLink(k) PROVE FewerLives
  <2>. DEFINE e == [links[k] EXCEPT !.state = "cancelled"]
  <2>1. links' = [links EXCEPT ![k] = e] /\ links[k].state = "created"
    BY <1>3 DEF CancelLink
  <2>2. k \in LinkIds => e.session = links[k].session
    BY LinkElement DEF Link
  <2>. HIDE DEF e
  <2>. QED
    BY <2>1, <2>2, SetLinkLives
<1>4. ASSUME NEW k \in LinkIds,
             CustomerFails(k) \/ CustomerPays(k) \/ LinkFallsDue(k) \/ LinkExpires(k)
      PROVE  FewerLives
  <2>1. PICK e : /\ links' = [links EXCEPT ![k] = e] /\ e.session = links[k].session
                 /\ e.state = "created" => links[k].state = "created"
    BY <1>4, LinkElement DEF CustomerFails, CustomerPays, LinkFallsDue, LinkExpires, Link
  <2>. QED
    BY <2>1, SetLinkLives
<1>5. ASSUME NEW k, NEW a, RefundUnheard(k, a) PROVE FewerLives
  <2>. DEFINE e == [links[k] EXCEPT !.unheard = @ + a]
  <2>1. links' = [links EXCEPT ![k] = e]
    BY <1>5 DEF RefundUnheard
  <2>2. k \in LinkIds => e.session = links[k].session /\ e.state = links[k].state
    BY LinkElement DEF Link
  <2>. HIDE DEF e
  <2>. QED
    BY <2>1, <2>2, SetLinkLives
<1>. QED
  BY <1>1, <1>2, <1>3, <1>4, <1>5, LinkSteps

\* A cancelled link is gone, and with it the last one a customer could pay.
LEMMA CancelEnds ==
    ASSUME TypeOK, NEW k \in LinkIds, NEW s, CancelLink(k), Lives(s) \subseteq {k}
    PROVE  Lives(s)' = {}
<1>. DEFINE e == [links[k] EXCEPT !.state = "cancelled"]
<1>1. links' = [links EXCEPT ![k] = e] /\ e.session = links[k].session /\ e.state = "cancelled"
  BY LinkElement DEF CancelLink, Link
<1>. HIDE DEF e
<1>2. LinkIds' = LinkIds /\ \A l \in LinkIds : links'[l] = IF l = k THEN e ELSE links[l]
  BY <1>1 DEF LinkIds, TypeOK, DataOK
<1>. QED
  BY <1>1, <1>2 DEF Lives, LinksOf

-----------------------------------------------------------------------------
\* Sessions and handlers that a step leaves alone.
LEMMA LiveRestStays ==
    ASSUME NEW x, sessions'[x] = sessions[x], Lives(x)' \subseteq Lives(x), LiveRest(x)
    PROVE  LiveRest(x)'
  BY DEF LiveRest, Status, Exists

LEMMA LiveFrameStays ==
    ASSUME NEW u, thr'[u] = thr[u], Lives(thr[u].s)' \subseteq Lives(thr[u].s),
           thr[u].at \in CancelPlaces => sessions'[thr[u].s] = sessions[thr[u].s],
           LiveFrame(thr[u])
    PROVE  LiveFrame(thr[u])'
<1>. PICK s : s = thr[u].s
  OBVIOUS
<1>. QED
  BY DEF LiveFrame, Linking

\* A step that writes no row of a session.
LEMMA LiveStays ==
    ASSUME LiveInv, FewerLives, UNCHANGED sessions, NEW t \in Threads, Alone(t),
           ~Linking(thr[t]), LiveFrame(thr[t])'
    PROVE  LiveInv'
<1>1. ASSUME NEW x \in SessionIds
      PROVE  LiveRest(x)' \/ \E u \in Threads : thr'[u].s = x /\ Linking(thr[u])'
  <2>1. CASE LiveRest(x)
    BY <2>1, LiveRestStays DEF FewerLives
  <2>2. ASSUME NEW u \in Threads, thr[u].s = x, Linking(thr[u])
        PROVE  thr'[u].s = x /\ Linking(thr[u])'
    <3>1. thr'[u] = thr[u]
      BY <2>2 DEF Alone
    <3>. QED
      BY <2>2, <3>1 DEF Linking
  <2>. QED
    BY <2>1, <2>2 DEF LiveInv
<1>2. ASSUME NEW u \in Threads PROVE LiveFrame(thr[u])'
  BY LiveFrameStays DEF LiveInv, FewerLives, Alone
<1>. QED
  BY <1>1, <1>2 DEF LiveInv

\* A step for session s.
LEMMA LiveStep ==
    ASSUME TypeOK, LiveInv, NEW t \in Threads, Alone(t), NEW s \in SessionIds,
           thr[t].s = s \/ (AtRest(s) /\ ~Linking(thr[t])),
           \A x \in SessionIds : x # s => sessions'[x] = sessions[x],
           \A x : x # s => Lives(x)' \subseteq Lives(x),
           LiveRest(s)' \/ (thr'[t].s = s /\ Linking(thr[t])'),
           LiveFrame(thr[t])'
    PROVE  LiveInv'
<1>1. ASSUME NEW u \in Threads, u # t PROVE thr'[u] = thr[u] /\ thr[u].s # s
  BY <1>1 DEF Alone, Apart, AtRest
<1>2. ASSUME NEW x \in SessionIds, x # s
      PROVE  LiveRest(x)' \/ \E u \in Threads : thr'[u].s = x /\ Linking(thr[u])'
  <2>1. CASE LiveRest(x)
    BY <1>2, <2>1, LiveRestStays
  <2>2. ASSUME NEW u \in Threads, thr[u].s = x, Linking(thr[u])
        PROVE  thr'[u].s = x /\ Linking(thr[u])'
    <3>1. thr'[u] = thr[u]
      BY <1>1, <1>2, <2>2
    <3>. QED
      BY <2>2, <3>1 DEF Linking
  <2>. QED
    BY <2>1, <2>2 DEF LiveInv
<1>3. ASSUME NEW u \in Threads, u # t PROVE LiveFrame(thr[u])'
  <2>1. thr'[u] = thr[u] /\ thr[u].s # s /\ LiveFrame(thr[u])
    BY <1>1, <1>3 DEF LiveInv
  <2>2. thr[u].at \in CancelPlaces => sessions'[thr[u].s] = sessions[thr[u].s]
    BY <2>1, Working DEF CancelPlaces
  <2>. QED
    BY <2>1, <2>2, LiveFrameStays
<1>. QED
  BY <1>2, <1>3 DEF LiveInv

LEMMA LiveWorld ==
    ASSUME LiveInv, FewerLives, UNCHANGED <<sessions, thr>>
    PROVE  LiveInv'
<1>1. \A x : Status(x)' = Status(x)
  BY DEF Status, Exists
<1>2. ASSUME NEW x \in SessionIds, LiveRest(x) PROVE LiveRest(x)'
  BY <1>1, <1>2 DEF LiveRest, FewerLives
<1>3. ASSUME NEW t \in Threads PROVE LiveFrame(thr[t])'
  <2>1. LiveFrame(thr[t])
    BY DEF LiveInv
  <2>. QED
    BY <2>1 DEF LiveFrame, Linking, FewerLives
<1>. QED
  BY <1>2, <1>3 DEF LiveInv, Linking

\* Where nothing is asked of the live links.
LEMMA LiveElsewhere ==
    ASSUME NEW f, f.at \notin DeadPlaces \cup CancelPlaces \cup {"pending", "retried"}
    PROVE  LiveFrame(f)
  BY DEF LiveFrame, Linking

\* A handler at a pending session knows its one live link.
LEMMA PendingLives ==
    ASSUME TypeOK, SoloInv, LiveInv, NEW t \in Threads, Alone(t), thr[t].at # "idle",
           ~Linking(thr[t]), Status(thr[t].s) = PENDING
    PROVE  /\ Lives(thr[t].s) \subseteq {sessions[thr[t].s].link}
           /\ sessions[thr[t].s].link \in LinkIds
<1>1. thr[t].s \in SessionIds
  BY AtWork
<1>2. LiveRest(thr[t].s)
  BY <1>1 DEF LiveInv, Alone, Apart
<1>. QED
  BY <1>1, <1>2 DEF LiveRest, TypeOK, DataOK, PENDING, COMPLETED

LEMMA LiveLoads ==
    ASSUME TypeOK, SoloInv, LiveInv, NEW t \in Threads, Alone(t), Begin(t), OnlyThread
    PROVE  LiveFrame(thr[t])'
<1>1. ASSUME NEW op, NEW s, NEW row, NEW dec,
             NEW place \in {"store", "review", "reserve", "refuse", "poll", "refund"},
             Becomes(t, Begun(op, s, place, row, dec))
      PROVE  LiveFrame(thr[t])'
  <2>1. thr'[t].at = place
    BY <1>1, Begins
  <2>. QED
    BY <2>1 DEF LiveFrame, Linking, DeadPlaces, CancelPlaces
<1>2. ASSUME NEW s \in SessionIds, CancelLoad(t, s) PROVE LiveFrame(thr[t])'
  <2>. DEFINE place == IF sessions[s].status = PENDING /\ sessions[s].link # 0
                       THEN "cancelLink" ELSE "openRow"
  <2>1. /\ Exists(s) /\ sessions[s].status \notin TERMINAL /\ CanStart(t, "cancel")
        /\ Becomes(t, Begun("cancel", s, place, sessions[s], None))
    BY <1>2 DEF CancelLoad
  <2>2. thr'[t].at = place /\ thr'[t].s = s /\ thr'[t].row = sessions[s]
    BY <2>1, Begins
  <2>3. Status(s) = sessions[s].status /\ Rests(s) /\ sessions[s] \in Row
    BY <2>1, <2>2, Fresh DEF Status, SoloInv, Exists, TypeOK, DataOK
  <2>4. CASE Status(s) = PENDING
    <3>1. sessions[s].link # 0
      BY <2>4 DEF TypeOK, DataOK, LinkIds
    <3>2. place = "cancelLink"
      BY <2>3, <2>4, <3>1
    <3>. QED
      BY <2>2, <3>2 DEF LiveFrame, Linking, DeadPlaces, CancelPlaces, OnlyThread, rowVars
  <2>5. CASE Status(s) # PENDING
    <3>1. place = "openRow"
      BY <2>3, <2>5
    <3>2. Status(s) \in EDITABLE
      BY <2>1, <2>3, <2>5 DEF Row, Statuses
    <3>3. LinksOf(s) = {}
      BY <2>3, <3>2, RestsAs DEF Untouched
    <3>4. Lives(s)' = {}
      BY <3>3 DEF Lives, LinksOf, LinkIds, OnlyThread
    <3>. QED
      BY <2>2, <3>1, <3>4 DEF LiveFrame, Linking, CancelPlaces
  <2>. QED
    BY <2>4, <2>5
<1>3. \/ UNCHANGED thr
      \/ \E op, s, row, dec :
           \E place \in {"store", "review", "reserve", "refuse", "poll", "refund"} :
             Becomes(t, Begun(op, s, place, row, dec))
      \/ \E s \in SessionIds : CancelLoad(t, s)
  BY ZenonT(40) DEF Begin, Create, UpdateLoad, ReviewLoad, CompleteLoad, ReconcileLoad, RefundLoad
<1>4. CASE UNCHANGED thr
  <2>1. LiveFrame(thr[t])
    BY DEF LiveInv
  <2>. QED
    BY <1>4, <2>1 DEF LiveFrame, Linking, Lives, LinksOf, LinkIds, OnlyThread, rowVars
<1>. QED
  BY <1>1, <1>2, <1>3, <1>4
\* The row of a session that no link was created for.
LEMMA LiveCreate ==
    ASSUME TypeOK, SoloInv, LiveInv, NEW t \in Threads, Alone(t), NEW s \in SessionIds,
           NEW items \in Carts, Create(t, s, items)
    PROVE  LiveInv'
<1>1. /\ AtRest(s) /\ ~Exists(s) /\ thr[t].at = "idle" /\ UNCHANGED <<thr, links>>
  BY Unknown DEF Create, CanStart, Idle, Begun
<1>2. Status(s) = None
  BY <1>1 DEF Status
<1>3. Lives(s) = {}
  BY <1>1, <1>2, RowAssumption DEF SoloInv, Rests, Untouched, Paying, Over, Finished, Lives,
     Statuses, TERMINAL
<1>4. \A x : Lives(x)' = Lives(x)
  BY <1>1 DEF Lives, LinksOf, LinkIds
<1>5. \A x \in SessionIds : x # s => sessions'[x] = sessions[x]
  BY DEF Create, TypeOK, DataOK
<1>6. LiveRest(s)'
  BY <1>3, <1>4 DEF LiveRest
<1>7. ~Linking(thr[t]) /\ LiveFrame(thr[t])'
  BY <1>1 DEF LiveFrame, Linking, DeadPlaces, CancelPlaces
<1>. QED
  BY <1>1, <1>4, <1>5, <1>6, <1>7, LiveStep

\* A handler that writes a row ends with that.
LEMMA LiveWrites ==
    ASSUME TypeOK, SoloInv, LiveInv, NEW t \in Threads, Alone(t), WritesRow(t)
    PROVE  LiveInv'
<1>1. /\ Done(t) /\ OnlySessions /\ thr[t].at # "idle"
  BY DEF WritesRow, Store, Refuse, SetPending, SetRetried, SetCompleted, SetCanceled, At
<1>. PICK s \in SessionIds : s = thr[t].s
  BY <1>1, AtWork
<1>2. /\ FrameOK(thr[t]) /\ Busy(thr[t]) /\ LiveFrame(thr[t])
      /\ sessions[s] \in Row /\ Status(s) = sessions[s].status
  BY <1>1, AtWork DEF LiveInv
<1>3. UNCHANGED links /\ thr'[t].at = "idle" /\ \A x : Lives(x)' = Lives(x)
  BY <1>1, Stops DEF OnlySessions, Lives, LinksOf, LinkIds
<1>4. PICK row \in Row : SetRow(s, row)
  BY WrittenRow DEF Written
<1>5. /\ sessions'[s] = row
      /\ \A x \in SessionIds : x # s => sessions'[x] = sessions[x]
  BY <1>4 DEF SetRow, TypeOK, DataOK
<1>6. Status(s)' = row.status
  BY <1>5, RowAssumption DEF Status, Exists
<1>7. \/ Lives(s) = {}
      \/ row.status = COMPLETED
      \/ row.status = PENDING /\ Lives(s) \subseteq {row.link}
  <2>1. CASE Store(t) \/ Refuse(t)
    <3>1. thr[t].at \in {"store", "refuse"}
      BY <2>1 DEF Store, Refuse, At
    <3>2. Untouched(s)
      BY <1>2, <3>1 DEF Busy, EditPlaces
    <3>. QED
      BY <3>2 DEF Untouched, Lives
  <2>2. CASE SetPending(t)
    <3>1. row.status = PENDING /\ row.link = thr[t].link /\ thr[t].at = "pending"
      BY <1>2, <1>5, <2>2 DEF SetPending, SetRow, At, TypeOK, DataOK, Row
    <3>. QED
      BY <1>2, <3>1 DEF LiveFrame, Linking
  <2>3. CASE SetRetried(t)
    <3>1. row.status = sessions[s].status /\ row.link = thr[t].link /\ thr[t].at = "retried"
      BY <1>2, <1>5, <2>3 DEF SetRetried, SetRow, At, TypeOK, DataOK, Row
    <3>2. Paying(s)
      BY <1>2, <3>1 DEF Busy, PayPlaces
    <3>. QED
      BY <1>2, <3>1, <3>2 DEF LiveFrame, Linking, Paying
  <2>4. CASE SetCompleted(t)
    BY <1>2, <1>5, <2>4 DEF SetCompleted, SetRow, At, TypeOK, DataOK, Row
  <2>5. CASE SetCanceled(t)
    BY <1>2, <2>5 DEF SetCanceled, At, LiveFrame, DeadPlaces
  <2>. QED
    BY <2>1, <2>2, <2>3, <2>4, <2>5 DEF WritesRow
<1>8. LiveRest(s)'
  BY <1>3, <1>5, <1>6, <1>7 DEF LiveRest
<1>9. LiveFrame(thr[t])'
  BY <1>3 DEF LiveFrame, Linking, DeadPlaces, CancelPlaces
<1>. QED
  BY <1>3, <1>5, <1>8, <1>9, LiveStep

\* A link is created where no earlier one can be paid any more.
LEMMA LiveLinks ==
    ASSUME TypeOK, SoloInv, LiveInv, NEW t \in Threads, Alone(t), FirstLink(t) \/ SecondLink(t)
    PROVE  LiveInv'
<1>1. thr[t].at \in {"firstLink", "secondLink"} /\ UNCHANGED sessions
  BY DEF FirstLink, SecondLink, At, OnlyLinks, rowVars
<1>. PICK s \in SessionIds : s = thr[t].s
  BY <1>1, AtWork
<1>2. /\ thr[t] \in Frame /\ FrameOK(thr[t]) /\ Busy(thr[t]) /\ LiveFrame(thr[t])
  BY <1>1, AtWork DEF LiveInv
<1>3. Lives(s) = {}
  BY <1>1, <1>2 DEF Busy, Lives, LiveFrame, DeadPlaces
<1>4. CreateLink(s, thr[t].dec.total) /\ thr[t].dec.total \in Nat
  BY <1>1, <1>2 DEF FirstLink, SecondLink, FrameOK, DecidedPlaces, Decision, Paise
<1>5. /\ \A x : x # s => Lives(x)' \subseteq Lives(x)
      /\ Lives(s)' \subseteq {Len(links) + 1}
  BY <1>3, <1>4, NewLinkLives
<1>6. thr'[t].at \in {"pending", "retried"} /\ thr'[t].s = s /\ thr'[t].link = Len(links) + 1
  <2>1. PICK place \in {"pending", "retried"} :
          thr' = [thr EXCEPT ![t] = [thr[t] EXCEPT !.at = place, !.link = Len(links) + 1]]
    BY DEF FirstLink, SecondLink, Becomes
  <2>. QED
    BY <1>2, <2>1 DEF TypeOK, FramesOK, Frame
<1>7. LiveFrame(thr[t])'
  BY <1>5, <1>6 DEF LiveFrame, Linking, DeadPlaces, CancelPlaces
<1>8. thr'[t].s = s /\ Linking(thr[t])'
  BY <1>6 DEF Linking
<1>. QED
  BY <1>1, <1>5, <1>7, <1>8, LiveStep

\* A handler cancels the only link that may still be paid.
LEMMA LiveCancels ==
    ASSUME CallsAnswer, TypeOK, SoloInv, LiveInv, NEW t \in Threads, Alone(t),
           \/ CancelQuietly(t) \/ CancelLinkStep(t)
           \/ CancelLinkLost(t) \/ CancelLinkRefused(t)
    PROVE  LiveFrame(thr[t])'
<1>1. /\ thr[t].at \in CancelPlaces /\ UNCHANGED sessions
      /\ \E place : place \in DeadPlaces /\ GoTo(t, place)
  BY DEF CancelQuietly, CancelLinkStep, CancelLinkLost, CancelLinkRefused, At, CancelPlaces,
     DeadPlaces, OnlyLinks, OnlyThread, rowVars
<1>. PICK s \in SessionIds : s = thr[t].s
  BY <1>1, AtWork DEF CancelPlaces
<1>. DEFINE k == thr[t].row.link
<1>2. Busy(thr[t]) /\ LiveFrame(thr[t]) /\ k = sessions[s].link /\ Status(s) = PENDING
  BY <1>1, AtWork DEF LiveInv, LiveFrame, CancelPlaces, Busy, PayPlaces, Paying
<1>3. Lives(s) \subseteq {k} /\ k \in LinkIds /\ k # 0
  <2>1. Lives(s) \subseteq {k} /\ k \in LinkIds
    BY <1>1, <1>2, PendingLives DEF CancelPlaces, Linking
  <2>2. Len(links) \in Nat /\ 0 \notin 1..Len(links)
    BY DEF TypeOK, DataOK
  <2>. QED
    BY <2>1, <2>2 DEF LinkIds
<1>4. CancelLink(k) \/ (links[k].state # "created" /\ UNCHANGED links)
  BY <1>3 DEF CancelQuietly, CancelLinkStep, CancelLinkLost, CancelLinkRefused, TryCancel,
     CancelLinkFails, CallMayFail, CallsAnswer, OnlyThread
<1>. HIDE DEF k
<1>5. Lives(s)' = {}
  <2>1. CASE CancelLink(k)
    BY <1>3, <2>1, CancelEnds
  <2>2. CASE links[k].state # "created" /\ UNCHANGED links
    BY <1>3, <2>2 DEF Lives, LinksOf, LinkIds
  <2>. QED
    BY <1>4, <2>1, <2>2
<1>6. thr'[t].at \in DeadPlaces /\ thr'[t].s = s
  BY <1>1, Goes
<1>. QED
  BY <1>5, <1>6 DEF LiveFrame, DeadPlaces, CancelPlaces, Linking

\* The handler that gives up a session has ended its links before.
LEMMA LiveDead ==
    ASSUME TypeOK, SoloInv, LiveInv, NEW t \in Threads, Alone(t),
           FirstLinkFails(t) \/ ReadOpenRow(t) \/ ReleaseStep(t), FewerLives
    PROVE  LiveFrame(thr[t])'
<1>1. thr[t].at \in {"firstLink", "openRow", "release"}
  BY DEF FirstLinkFails, ReadOpenRow, ReleaseStep, At
<1>2. thr[t] \in Frame /\ Busy(thr[t]) /\ LiveFrame(thr[t]) /\ thr[t].s \in SessionIds
  BY <1>1, AtWork DEF LiveInv
<1>3. Lives(thr[t].s) = {}
  BY <1>1, <1>2 DEF Busy, Lives, LiveFrame, DeadPlaces
<1>. PICK s : s = thr[t].s
  OBVIOUS
<1>4. Lives(s)' = {}
  BY <1>3 DEF FewerLives
<1>5. /\ thr'[t].at \in DeadPlaces \cup {"idle"}
      /\ thr'[t].at # "idle" => thr'[t].s = s
  BY <1>2 DEF FirstLinkFails, ReadOpenRow, ReleaseStep, GoTo, Becomes, AfterRelease, Idle, Begun,
     DeadPlaces, TypeOK, FramesOK, Frame
<1>. QED
  BY <1>4, <1>5 DEF LiveFrame, DeadPlaces, CancelPlaces, Linking
\* The other steps leave the rows, and lead where nothing is asked of the
\* live links or where the row has just been read again.
LEMMA LiveMoves ==
    ASSUME TypeOK, SoloInv, LiveInv, NEW t \in Threads, Alone(t), Continue(t), FewerLives,
           ~WritesRow(t), ~FirstLink(t), ~SecondLink(t), ~CancelQuietly(t), ~CancelLinkStep(t),
           ~CancelLinkLost(t), ~CancelLinkRefused(t), ~FirstLinkFails(t), ~ReadOpenRow(t), ~ReleaseStep(t)
    PROVE  LiveFrame(thr[t])' /\ ~Linking(thr[t]) /\ UNCHANGED sessions
<1>1. thr[t] \in Frame /\ thr[t].s \in SessionIds
  <2>1. thr[t].at # "idle"
    BY DEF Continue, WritesRow, RecordReview, Reevaluate, ReserveStep, ReserveRaises, PollStep,
       PollFails, RecordPayment, RecordRaises, FinishPaid, NothingNew, FailedAttempt, CommitStep,
       CommitRaises, SecondLinkFails, ReleaseRaises, FinalPoll, RefundStep, RefundLost,
       RefundFails, RecordRefundStep, RecordRefundRaises, At
  <2>. QED
    BY <2>1, AtWork
<1>2. CASE \/ ReserveRaises(t) \/ PollFails(t) \/ NothingNew(t) \/ CommitRaises(t)
           \/ ReleaseRaises(t) \/ RefundFails(t) \/ RecordRefundRaises(t)
           \/ \E p \in thr[t].todo : RecordRaises(t, p)
  <2>1. /\ Done(t) /\ UNCHANGED sessions /\ ~Linking(thr[t])
    BY <1>2 DEF ReserveRaises, PollFails, NothingNew, CommitRaises, ReleaseRaises, RefundFails,
       RecordRefundRaises, RecordRaises, At, OnlyThread, rowVars, Linking
  <2>2. thr'[t].at = "idle"
    BY <2>1, Stops
  <2>. QED
    BY <2>1, <2>2 DEF LiveFrame, Linking, DeadPlaces, CancelPlaces
<1>3. CASE \/ RecordReview(t) \/ ReserveStep(t) \/ FinishPaid(t) \/ CommitStep(t) \/ RefundStep(t)
  <2>1. /\ UNCHANGED sessions /\ ~Linking(thr[t])
        /\ \E place : /\ place \notin DeadPlaces \cup CancelPlaces \cup {"pending", "retried"}
                      /\ GoTo(t, place)
    BY <1>3 DEF RecordReview, ReserveStep, FinishPaid, CommitStep, RefundStep, At, OnlyThread,
       OnlyMandates, OnlyLinks, rowVars, Linking, DeadPlaces, CancelPlaces
  <2>2. thr'[t].at \notin DeadPlaces \cup CancelPlaces \cup {"pending", "retried"}
    BY <2>1, Goes
  <2>. QED
    BY <2>1, <2>2 DEF LiveFrame, Linking
<1>4. CASE Reevaluate(t) \/ PollStep(t) \/ FinalPoll(t) \/ RecordRefundStep(t)
           \/ \E p \in thr[t].todo : RecordPayment(t, p)
  <2>1. UNCHANGED sessions /\ ~Linking(thr[t])
    BY <1>4 DEF Reevaluate, PollStep, FinalPoll, RecordRefundStep, RecordPayment, At, OnlyThread,
       OnlyMandates, rowVars, Linking
  <2>2. thr'[t].at \in {"store", "record", "judge", "idle"}
    <3>1. CASE Reevaluate(t)
      BY <1>1, <3>1 DEF Reevaluate, Becomes, TypeOK, FramesOK, Frame
    <3>2. CASE PollStep(t)
      BY <1>1, <3>2 DEF PollStep, Becomes, TypeOK, FramesOK, Frame
    <3>3. CASE FinalPoll(t)
      <4>1. ASSUME NEW p, Becomes(t, [thr[t] EXCEPT !.at = "record", !.news = {p}, !.todo = {p}])
            PROVE  thr'[t].at = "record"
        BY <1>1, <4>1 DEF Becomes, TypeOK, FramesOK, Frame
      <4>. QED
        BY <3>3, <4>1, Stops DEF FinalPoll
    <3>4. CASE RecordRefundStep(t)
      BY <3>4, Stops DEF RecordRefundStep
    <3>5. ASSUME NEW p \in thr[t].todo, RecordPayment(t, p) PROVE thr'[t].at \in {"record", "judge"}
      BY <1>1, <3>5 DEF RecordPayment, Becomes, TypeOK, FramesOK, Frame
    <3>. QED
      BY <1>4, <3>1, <3>2, <3>3, <3>4, <3>5
  <2>. QED
    BY <2>1, <2>2 DEF LiveFrame, Linking, DeadPlaces, CancelPlaces
<1>5. CASE FailedAttempt(t) \/ SecondLinkFails(t)
  <2>. PICK s \in SessionIds : s = thr[t].s
    BY <1>1
  <2>1. UNCHANGED sessions /\ ~Linking(thr[t])
    BY <1>5 DEF FailedAttempt, SecondLinkFails, At, OnlyThread, rowVars, Linking
  <2>2. thr'[t].at \in CancelPlaces /\ thr'[t].row = sessions[s] /\ thr'[t].s = s
    <3>1. CASE FailedAttempt(t)
      BY <1>1, <3>1 DEF FailedAttempt, Becomes, CancelPlaces, TypeOK, FramesOK, Frame
    <3>2. CASE SecondLinkFails(t)
      BY <1>1, <3>2 DEF SecondLinkFails, Becomes, CancelPlaces, TypeOK, FramesOK, Frame
    <3>. QED
      BY <1>5, <3>1, <3>2
  <2>. QED
    BY <2>1, <2>2 DEF LiveFrame, Linking, DeadPlaces, CancelPlaces
<1>6. CASE RefundLost(t)
  <2>1. Done(t) /\ UNCHANGED sessions /\ ~Linking(thr[t])
    BY <1>6 DEF RefundLost, At, OnlyLinks, rowVars, Linking
  <2>2. thr'[t].at = "idle"
    BY <2>1, Stops
  <2>. QED
    BY <2>1, <2>2 DEF LiveFrame, Linking, DeadPlaces, CancelPlaces
<1>. QED
  BY <1>2, <1>3, <1>4, <1>5, <1>6 DEF Continue, WritesRow

\* Who creates a link goes on to another place.
LEMMA LinkingMoves ==
    ASSUME TypeOK, NEW t \in Threads, FirstLink(t) \/ SecondLink(t)
    PROVE  thr'[t].at # thr[t].at
  BY DEF FirstLink, SecondLink, At, Becomes, TypeOK, FramesOK, Frame

LEMMA LiveContinue ==
    ASSUME CallsAnswer, TypeOK, SoloInv, LiveInv, [Next]_vars,
           NEW t \in Threads, Alone(t), Continue(t)
    PROVE  LiveInv'
<1>1. CASE WritesRow(t)
  BY <1>1, LiveWrites
<1>2. CASE FirstLink(t) \/ SecondLink(t)
  BY <1>2, LiveLinks
<1>3. CASE ~FirstLink(t) /\ ~SecondLink(t) /\ ~WritesRow(t)
  <2>1. FewerLives
    <3>1. ASSUME NEW u \in Threads, FirstLink(u) \/ SecondLink(u) PROVE FALSE
      <4>1. thr'[u].at # thr[u].at
        BY <3>1, LinkingMoves
      <4>. QED
        BY <1>3, <3>1, <4>1 DEF Alone
    <3>. QED
      BY <3>1, OldLives
  <2>2. LiveFrame(thr[t])' /\ ~Linking(thr[t]) /\ UNCHANGED sessions
    <3>1. CASE \/ CancelQuietly(t) \/ CancelLinkStep(t)
               \/ CancelLinkLost(t) \/ CancelLinkRefused(t)
      BY <3>1, LiveCancels DEF CancelQuietly, CancelLinkStep, CancelLinkLost, CancelLinkRefused,
         At, OnlyLinks, OnlyThread, rowVars, Linking
    <3>2. CASE FirstLinkFails(t) \/ ReadOpenRow(t) \/ ReleaseStep(t)
      BY <2>1, <3>2, LiveDead DEF FirstLinkFails, ReadOpenRow, ReleaseStep, At, OnlyMandates,
         OnlyThread, rowVars, Linking
    <3>. QED
      BY <1>3, <2>1, <3>1, <3>2, LiveMoves
  <2>. QED
    BY <2>1, <2>2, LiveStays
<1>. QED
  BY <1>1, <1>2, <1>3

LEMMA LiveInit ==
    ASSUME Init
    PROVE  LiveInv
<1>1. LinkIds = {} /\ \A t \in Threads : thr[t].at = "idle"
  BY DEF Init, LinksInit, LinkIds, Idle, Begun
<1>. QED
  BY <1>1 DEF LiveInv, LiveRest, LiveFrame, Lives, LinksOf, Linking, DeadPlaces, CancelPlaces

LEMMA LiveNext ==
    ASSUME Apart, Apart', NeverKilled, CallsAnswer, TypeOK, SoloInv, LiveInv, [Next]_vars
    PROVE  LiveInv'
<1>1. ASSUME NEW t \in Threads, Continue(t) PROVE LiveInv'
  <2>1. Alone(t)
    BY <1>1, MovesAlone
  <2>. QED
    BY <1>1, <2>1, LiveContinue
<1>2. ASSUME NEW t \in Threads, Begin(t) PROVE LiveInv'
  <2>0. Alone(t)
    BY <1>2, MovesAlone
  <2>1. CASE \E s \in SessionIds, items \in Carts : Create(t, s, items)
    BY <2>0, <2>1, LiveCreate
  <2>2. CASE OnlyThread
    <3>1. UNCHANGED sessions /\ FewerLives
      BY <2>2 DEF OnlyThread, rowVars, FewerLives, Lives, LinksOf, LinkIds
    <3>2. \E op : CanStart(t, op)
      BY <1>2 DEF Begin, Create, UpdateLoad, ReviewLoad, CompleteLoad, ReconcileLoad, CancelLoad,
         RefundLoad
    <3>3. thr[t].at = "idle"
      BY <3>2 DEF CanStart, Idle, Begun
    <3>. QED
      BY <1>2, <2>0, <2>2, <3>1, <3>3, LiveLoads, LiveStays DEF Linking
  <2>. QED
    BY <1>2, <2>1, <2>2, BeginKinds
<1>3. CASE Merchant \/ Clock \/ Customer
  <2>1. UNCHANGED <<sessions, thr>>
    BY <1>3 DEF Merchant, Clock, Customer, OnlyWorld
  <2>2. \A t \in Threads : ~FirstLink(t) /\ ~SecondLink(t)
    BY <2>1, LinkingMoves
  <2>. QED
    BY <2>1, <2>2, OldLives, LiveWorld
<1>4. CASE UNCHANGED vars
  <2>1. UNCHANGED <<sessions, thr, links>>
    BY <1>4 DEF vars
  <2>. QED
    BY <2>1, LiveWorld DEF FewerLives, Lives, LinksOf, LinkIds
<1>. QED
  BY <1>1, <1>2, <1>3, <1>4 DEF Next, Crash, NeverKilled, TypeOK, DataOK

LEMMA LiveAlways ==
    ASSUME NeverKilled, CallsAnswer
    PROVE  Spec /\ []Apart => []LiveInv
<1>1. Init => LiveInv
  BY LiveInit
<1>2. Apart /\ Apart' /\ TypeOK /\ SoloInv /\ LiveInv /\ [Next]_vars => LiveInv'
  BY LiveNext
<1>. QED
  BY <1>1, <1>2, TypeCorrect, SoloAlways, PTL DEF Spec

\* While no two handlers work on one session, nobody kills the process and the
\* provider answers every call, a session no handler is at work on has at
\* most the one payable link its row names: a second attempt, a cancel and an
\* abandoned order have ended the link the customer was given before.
THEOREM OneLinkToPay ==
    ASSUME NeverKilled, CallsAnswer
    PROVE  Spec /\ []Apart => []OneLiveLink
<1>1. ASSUME TypeOK, LiveInv PROVE OneLiveLink
  <2>1. ASSUME NEW s \in SessionIds, AtRest(s) PROVE LiveRest(s)
    BY <1>1, <2>1 DEF LiveInv, AtRest
  <2>2. \A l \in LinkIds : links[l].session \in SessionIds
    BY <1>1, LinkElement DEF Link
  <2>. QED
    BY <2>1, <2>2 DEF OneLiveLink, LiveRest, Lives, LinksOf
<1>. QED
  BY <1>1, TypeCorrect, LiveAlways, PTL
=============================================================================
