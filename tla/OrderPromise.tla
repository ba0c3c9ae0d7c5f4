---------------------------- MODULE OrderPromise ----------------------------
(***************************************************************************)
(* What a merchant is promised of the orders an agent places, without any  *)
(* of the machinery that keeps the promise: an order draws its money from  *)
(* the budget of one mandate before it may ask for a payment, it is        *)
(* completed once exactly that money was paid, and an order that was paid  *)
(* is never canceled.                                                      *)
(***************************************************************************)
EXTENDS Integers, FiniteSets, Absent

CONSTANTS
    Orders,         \* the orders
    Budgets,        \* the mandates
    Limit           \* Limit[b]: what may be drawn from budget b in all

VARIABLE orders     \* orders[o]: how far o has got and the money it holds

\* money is "free", "held" or "spent"; amount was drawn from budget.
NoMoney == [money |-> "free", budget |-> None, amount |-> 0]

\* Order o in the given phase with the given money.
With(phase, purse, paid) ==
    [phase |-> phase, money |-> purse.money, budget |-> purse.budget,
     amount |-> purse.amount, paid |-> paid]

\* What is drawn from budget b, as the number of single paise.
Drawn(b) ==
    Cardinality(UNION {{o} \X (1..orders[o].amount) :
                          o \in {o \in Orders : orders[o].budget = b}})

Init == orders = [o \in Orders |-> With("absent", NoMoney, FALSE)]

-----------------------------------------------------------------------------
Open(o) ==
    /\ orders[o].phase = "absent"
    /\ orders' = [orders EXCEPT ![o].phase = "open"]

\* Money is drawn for an open order, within the budget.
Hold(o) ==
    /\ orders[o].phase = "open" /\ orders[o].money = "free"
    /\ \E b \in Budgets : \E a \in 0..(Limit[b] - Drawn(b)) :
         orders' = [orders EXCEPT ![o] =
             With("open", [money |-> "held", budget |-> b, amount |-> a], FALSE)]

\* The customer is asked to pay what is held.
Ask(o) ==
    /\ orders[o].phase = "open" /\ orders[o].money = "held"
    /\ orders' = [orders EXCEPT ![o].phase = "paying"]

\* Exactly the amount that is held was paid.
Pay(o) ==
    /\ orders[o].phase = "paying" /\ orders[o].money = "held"
    /\ orders' = [orders EXCEPT ![o].paid = TRUE]

Spend(o) ==
    /\ orders[o].paid /\ orders[o].money = "held"
    /\ orders' = [orders EXCEPT ![o].money = "spent"]

Complete(o) ==
    /\ orders[o].phase = "paying" /\ orders[o].money = "spent"
    /\ orders' = [orders EXCEPT ![o].phase = "completed"]

\* The money of an order that was not paid goes back to its budget, also
\* when the customer could not even be asked.
GiveBack(o) ==
    /\ orders[o].phase \in {"open", "paying"}
    /\ orders[o].money = "held" /\ ~orders[o].paid
    /\ orders' = [orders EXCEPT ![o] = With(orders[o].phase, NoMoney, FALSE)]

Cancel(o) ==
    /\ orders[o].phase \in {"open", "paying"}
    /\ orders[o].money = "free"
    /\ orders' = [orders EXCEPT ![o].phase = "canceled"]

Next ==
    \E o \in Orders :
        \/ Open(o) \/ Hold(o) \/ Ask(o) \/ Pay(o) \/ Spend(o) \/ Complete(o)
        \/ GiveBack(o) \/ Cancel(o)

Spec == Init /\ [][Next]_orders
=============================================================================
