------------------------------ MODULE MCAudit -------------------------------
(* A small instance of Audit for TLC: one article and two situations a     *)
(* decision may find.                                                      *)
EXTENDS Audit

Situation(spent) ==
    [agent |-> "active",
     mandate |-> [status |-> "active", currency |-> "INR", categories |-> {},
                  perTxn |-> 2, daily |-> 2, total |-> 2,
                  startsAt |-> 0, expiresAt |-> 9],
     policy |-> [inStockOnly |-> TRUE, blocked |-> {}, allowed |-> {"footwear"},
                 maxQty |-> 5, maxOrder |-> 9, reviewAbove |-> 0],
     catalog |-> [i \in {"shoe"} |->
                    [price |-> 2, inStock |-> TRUE, category |-> "footwear"]],
     items |-> << [id |-> "shoe", quantity |-> 1] >>,
     spentToday |-> spent, spentTotal |-> spent, now |-> 0, approved |-> FALSE]

\* A cart the mandate has room for, and one it has not.
TwoSituations ==
    [x \in {"fits", "spent"} |-> IF x = "fits" THEN Situation(0) ELSE Situation(1)]

\* create and update run on the event loop, complete and the polls that find a
\* failed link in the pool of threads.
OneThread == [t \in Threads |-> {"create", "update", "complete", "retry"}]
LoopAndPool ==
    [t \in Threads |-> IF t = "loop" THEN {"create", "update"} ELSE {"complete", "retry"}]
=============================================================================
