---------------------------- MODULE PaymentLinks ----------------------------
(***************************************************************************)
(* Razorpay Payment Links, as dwarpal/razorpay_client.py uses them, and    *)
(* the customer who pays them.  A link is payable while its state is       *)
(* "created": the customer may fail to pay it any number of times and may  *)
(* pay it once.  Razorpay refuses to cancel a link that is not payable.    *)
(* Every exception of a call, a timeout included, is one PaymentsError to  *)
(* the service: the call was refused or never arrived, or it was carried   *)
(* out and its answer is lost.  A link whose creation was not answered is  *)
(* left out: its address was in that answer only, since the provider is    *)
(* told not to notify anybody, so nobody can pay it.                       *)
(***************************************************************************)
EXTENDS Integers, Sequences

CONSTANTS
    MaxLinks,           \* bound: links the provider will ever create
    MaxFailures,        \* bound: failed payments per link
    MaxUnheard,         \* bound: paise paid back per link without an answer
    ProviderErrors      \* whether calls to the provider may fail

VARIABLE links          \* links[l]: the l-th link created

LinkIds == DOMAIN links

LinksInit == links = << >>

\* A payment is named by its link and a number; number 0 is the capture.
Captured(l) == [link |-> l, no |-> 0]
IsCaptured(p) == p.no = 0

PaymentsOf(l) ==
    {[link |-> l, no |-> n] : n \in 1..links[l].failed} \cup
    {p \in {Captured(l)} : links[l].state = "paid"}

-----------------------------------------------------------------------------
(* The calls of the payments port.                                         *)

CallMayFail == ProviderErrors

CreateLinkFails == ProviderErrors \/ Len(links) >= MaxLinks

CreateLink(s, a) ==
    /\ Len(links) < MaxLinks
    /\ links' = Append(links, [session |-> s, amount |-> a, state |-> "created",
                               failed |-> 0, due |-> FALSE, refunded |-> 0, unheard |-> 0])

\* Mutant: the notes of the payments are not compared.
PollAnyNotes(l) ==
    IF PaymentsOf(l) # {} THEN PaymentsOf(l) ELSE UNION {PaymentsOf(k) : k \in LinkIds}

\* Before anyone has tried to pay a link it has no order, and the adapter
\* reads every payment whose notes name the session.
Poll(l) ==
    IF PaymentsOf(l) # {}
    THEN PaymentsOf(l)
    ELSE UNION {PaymentsOf(k) : k \in {k \in LinkIds :
                                         links[k].session = links[l].session}}

LinkDead(l) == links[l].state \in {"expired", "cancelled"}

CancelLink(l) ==
    /\ links[l].state = "created"
    /\ links' = [links EXCEPT ![l].state = "cancelled"]

CancelLinkFails(l) == links[l].state # "created" \/ CallMayFail

\* refunded is what the provider paid back and said so; unheard is what it
\* paid back in calls whose answer was lost.
RefundPayment(l, a) == links' = [links EXCEPT ![l].refunded = @ + a]

RefundUnheard(l, a) ==
    /\ links[l].unheard + a <= MaxUnheard
    /\ links' = [links EXCEPT ![l].unheard = @ + a]

-----------------------------------------------------------------------------
(* The customer and the clock.                                             *)

CustomerFails(l) ==
    /\ links[l].state = "created" /\ links[l].failed < MaxFailures
    /\ links' = [links EXCEPT ![l].failed = @ + 1]

CustomerPays(l) ==
    /\ links[l].state = "created"
    /\ links' = [links EXCEPT ![l].state = "paid"]

\* The time link_expire_at of the session row passes...
LinkFallsDue(l) ==
    /\ ~links[l].due
    /\ links' = [links EXCEPT ![l].due = TRUE]

\* ... and at that time or later the provider stops taking payments.
LinkExpires(l) ==
    /\ links[l].due /\ links[l].state = "created"
    /\ links' = [links EXCEPT ![l].state = "expired"]
=============================================================================
