---------------------------- MODULE MandateStore ----------------------------
(***************************************************************************)
(* Spend mandates and the tables that count against them: dwarpal/         *)
(* mandates.py, for one agent.  A mandate caps what its agent may spend in *)
(* one order, in one day and in all.  Money counts from the moment a       *)
(* checkout reserves it and keeps counting when the payment commits it; a  *)
(* release gives it back, and a refund gives it back to the total only.    *)
(* Every operation of this module is one database transaction.             *)
(*                                                                         *)
(* A table is a set of rows with an id.  A released reservation is never   *)
(* read again and leaves the table.  The clock is kept to the day, which   *)
(* is what the daily cap and the validity of a mandate read.               *)
(***************************************************************************)
EXTENDS Integers, FiniteSets, Absent

CONSTANTS
    SessionIds,         \* checkout sessions
    MandateIds,         \* mandates the merchant may issue to the agent
    Terms,              \* Terms[m]: the caps, categories and validity of m
    ReservationIds,     \* ids new_id may return; bounds the rows that count
    References,         \* the merchant's reference texts for refunds
    MaxDay              \* bound: the last day of the model

ASSUME IdsAssumption == None \notin SessionIds \cup MandateIds
ASSUME DaysAssumption == MaxDay \in Nat
\* schema.sql admits no other caps.
ASSUME CapsAssumption ==
    \A m \in MandateIds :
        Terms[m].perTxn \in Nat /\ Terms[m].daily \in Nat /\ Terms[m].total \in Nat

VARIABLES
    active,             \* the mandate whose status is 'active', or None
    issued,             \* the mandates created so far
    reservations,       \* the reservations that are reserved or committed
    refunds,            \* the refunds the provider has made
    today               \* the UTC day of the clock

mandateVars == <<active, issued, reservations, refunds, today>>

Days == 0..MaxDay

Reservation ==
    [id : ReservationIds, session : SessionIds, mandate : MandateIds,
     amount : Nat, day : Days, state : {"reserved", "committed"}]

\* The id of a refund is the key schema.sql makes unique.
Refund ==
    [id : SessionIds \X References, mandate : MandateIds \cup {None},
     amount : Nat]

MandatesInit ==
    /\ active = None
    /\ issued = {}
    /\ reservations = {}
    /\ refunds = {}
    /\ today = 0

-----------------------------------------------------------------------------
(* The queries.                                                            *)

\* The sum of the amounts of the rows in R, as the number of single paise
\* they hold.
Paise(R) == UNION {{r.id} \X (1..r.amount) : r \in R}
Sum(R) == Cardinality(Paise(R))

ActiveMandate ==
    IF /\ active # None
       /\ Terms[active].startsAt <= today /\ today < Terms[active].expiresAt
    THEN active
    ELSE None

OpenRows(s) == {r \in reservations : r.session = s /\ r.state = "reserved"}

RowsOn(m) == {r \in reservations : r.mandate = m}

\* What mandate m has spent, in all and today; a retry leaves out the rows
\* of its own session x, every other caller passes None.
\* Mutant: only what is paid for counts.
SpentTotalPaid(m, x) ==
    LET left == Sum({r \in RowsOn(m) : r.session # x /\ r.state = "committed"})
                    - Sum({r \in refunds : r.mandate = m})
    IN  IF left > 0 THEN left ELSE 0

SpentTotal(m, x) ==
    LET left == Sum({r \in RowsOn(m) : r.session # x})
                    - Sum({r \in refunds : r.mandate = m})
    IN  IF left > 0 THEN left ELSE 0

\* Mutant: only what is paid for counts against the day.
SpentTodayPaid(m, x) ==
    Sum({r \in RowsOn(m) : r.session # x /\ r.day = today /\ r.state = "committed"})

SpentToday(m, x) ==
    Sum({r \in RowsOn(m) : r.session # x /\ r.day = today})

-----------------------------------------------------------------------------
(* The operations.                                                         *)

\* The merchant issues a mandate; it replaces the active one.
IssueMandate(m) ==
    /\ m \notin issued
    /\ issued' = issued \cup {m}
    /\ active' = m
    /\ UNCHANGED <<reservations, refunds, today>>

RevokeMandate ==
    /\ active # None
    /\ active' = None
    /\ UNCHANGED <<issued, reservations, refunds, today>>

NextDay ==
    /\ today < MaxDay
    /\ today' = today + 1
    /\ UNCHANGED <<active, issued, reservations, refunds>>

FreshIds == ReservationIds \ {r.id : r \in reservations}

\* reserve raises when the session has an open reservation already.
\* Mutant: it does not look.
CanReserveAgain(s) == FreshIds # {}

CanReserve(s) == OpenRows(s) = {} /\ FreshIds # {}

Reserve(s, m, a) ==
    /\ CanReserve(s)
    /\ reservations' = reservations \cup
           {[id |-> CHOOSE i \in FreshIds : TRUE, session |-> s, mandate |-> m,
             amount |-> a, day |-> today, state |-> "reserved"]}
    /\ UNCHANGED <<active, issued, refunds, today>>

Commit(s) ==
    /\ OpenRows(s) # {}
    /\ reservations' = (reservations \ OpenRows(s)) \cup
           {[r EXCEPT !.state = "committed"] : r \in OpenRows(s)}
    /\ UNCHANGED <<active, issued, refunds, today>>

\* Mutant: any row of the session will do, not only a reserved one.
ReleaseAny(s) ==
    /\ \E r \in reservations : r.session = s
    /\ reservations' = {r \in reservations : r.session # s}
    /\ UNCHANGED <<active, issued, refunds, today>>

Release(s) ==
    /\ OpenRows(s) # {}
    /\ reservations' = reservations \ OpenRows(s)
    /\ UNCHANGED <<active, issued, refunds, today>>

\* The row of a refund the provider has made; its key is unique.
\* Mutant: one refund per session.
CanRecordOneRefund(s, ref) == \A r \in refunds : r.id[1] # s

CanRecordRefund(s, ref) == \A r \in refunds : r.id # <<s, ref>>

RecordRefund(s, ref, m, a) ==
    /\ CanRecordRefund(s, ref)
    /\ refunds' = refunds \cup {[id |-> <<s, ref>>, mandate |-> m, amount |-> a]}
    /\ UNCHANGED <<active, issued, reservations, today>>
=============================================================================
