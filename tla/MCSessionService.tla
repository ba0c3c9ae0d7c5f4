-------------------------- MODULE MCSessionService --------------------------
(* Small instances of SessionProperties for TLC: one article, carts of one *)
(* or two of it, and mandates whose caps leave room for one order only.    *)
EXTENDS SessionProperties, TLC

CartOf(n) == << [id |-> "shoe", quantity |-> n] >>
OneCart == {CartOf(1)}
TwoCarts == {CartOf(1), CartOf(2)}
SmallAndLarge == {CartOf(1), CartOf(3)}

Policy(threshold) ==
    [inStockOnly |-> TRUE, blocked |-> {}, allowed |-> {"footwear"},
     maxQty |-> 5, maxOrder |-> 9, reviewAbove |-> threshold,
     refundWindow |-> 1]
Shop(price, threshold) ==
    [catalog |-> [i \in {"shoe"} |->
                    [price |-> price, inStock |-> TRUE, category |-> "footwear"]],
     policy |-> Policy(threshold)]
SteadyShop == {Shop(1, 0)}
DearerShop == {Shop(1, 0), Shop(2, 0)}
ReviewShop == {Shop(1, 1), Shop(2, 1)}

Mandate(perTxn, daily, total) ==
    [status |-> "active", currency |-> "INR", categories |-> {},
     perTxn |-> perTxn, daily |-> daily, total |-> total,
     startsAt |-> 0, expiresAt |-> 9]
RoomyTerms == [m \in MandateIds |-> Mandate(6, 6, 6)]
TightTerms == [m \in MandateIds |-> Mandate(2, 2, 3)]

\* The handlers a run lets each of its threads serve.
Purchases == [t \in Threads |-> {"create", "update", "complete", "reconcile", "cancel"}]
Merchants == [t \in Threads |-> Handlers \ {"cancel"}]
Everything == [t \in Threads |-> Handlers \ {"approve", "decline"}]

SessionSymmetry == Permutations(SessionIds) \cup Permutations(ReservationIds)
MerchantSymmetry == Permutations(References) \cup Permutations(MandateIds)
ThreadSymmetry == Permutations(Threads) \cup Permutations(ReservationIds)
=============================================================================
