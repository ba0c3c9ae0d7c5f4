-------------------------- MODULE EnrichmentProofs --------------------------
(***************************************************************************)
(* Whatever commands overlap and wherever they stop, the catalog shows no  *)
(* category but those the merchant approved for the product.  A command    *)
(* may write a row back long after it has read it, so the invariant that   *)
(* carries the proof also speaks of the rows commands hold.                *)
(*                                                                         *)
(* With one process to propose, one to decide and one to synchronise, no   *)
(* product has two proposals waiting, a decision is final, and no two      *)
(* products stand for one item.  Each is carried by what a command knows   *)
(* between its read and its write.                                         *)
(*                                                                         *)
(* Since every catalog that is reached has whole prices, what GateProofs   *)
(* says of offers holds in all of them.                                    *)
(***************************************************************************)
EXTENDS MCCatalog, GateProofs

\* What the invariant says of one command.
TaskOK(f) ==
    /\ f.op = "decide" => enrichments[f.key] # None
    /\ f.op \in {"sync", "push"} => \A x \in f.todo : f.known[x] # None
    /\ f.op = "push" => \A p \in Products : RowIsApproved(p, f.known[p])
    /\ (f.op \in {"sync", "push"} /\ f.at = "write") => RowIsApproved(f.key[1], f.row)

TablesOK ==
    /\ products \in [Products -> Product \cup {None}]
    /\ items \in [ItemIds -> Prices \cup {None}]
    /\ enrichments \in [ProposalIds -> Proposal \cup {None}]
    /\ allowed \in Policies
    /\ tasks \in [Threads -> Tasks \cup {None}]
    /\ approvals \subseteq Products \X Categories

TasksOK == \A t \in Threads : tasks[t] # None => TaskOK(tasks[t])

Inv == TablesOK /\ FeedIsApproved /\ TasksOK

LEMMA InvIsWhatRunsCheck == Inv <=> TypeOK /\ FeedIsApproved /\ CarriedIsApproved
BY DEF Inv, TablesOK, TasksOK, TaskOK, TypeOK, CarriedIsApproved

-----------------------------------------------------------------------------
\* A command that only moves on keeps the invariant if its task is in order.
LEMMA MovesOn ==
    ASSUME Inv, NEW t \in Threads, NEW f \in Tasks \cup {None},
           GoesOn(t, f), OnlyTasks, f # None => TaskOK(f)
    PROVE  Inv'
<1>1. \A u \in Threads : tasks'[u] = (IF u = t THEN f ELSE tasks[u])
  BY DEF Inv, TablesOK, GoesOn
<1>2. tasks' \in [Threads -> Tasks \cup {None}]
  BY DEF Inv, TablesOK, GoesOn
<1>3. UNCHANGED <<products, items, enrichments, allowed, approvals>>
  BY DEF OnlyTasks, catalogVars
<1>4. TasksOK'
  BY <1>1, <1>3 DEF Inv, TasksOK, TaskOK, RowIsApproved
<1> QED
  BY <1>2, <1>3, <1>4 DEF Inv, TablesOK, FeedIsApproved, RowIsApproved

\* The other commands do not mind a step that only adds to the tables.
LEMMA OthersStay ==
    ASSUME Inv, NEW t \in Threads, NEW f \in Tasks \cup {None}, GoesOn(t, f),
           approvals \subseteq approvals',
           \A e \in ProposalIds : enrichments[e] # None => enrichments'[e] # None,
           f # None => TaskOK(f)
    PROVE  TasksOK'
<1>1. \A u \in Threads : tasks'[u] = (IF u = t THEN f ELSE tasks[u])
  BY DEF Inv, TablesOK, GoesOn
<1>2. \A u \in Threads : tasks[u] = None \/ (tasks[u] \in Tasks /\ TaskOK(tasks[u]))
  BY DEF Inv, TasksOK, TablesOK
<1>3. \A g \in Tasks : g.op = "decide" => g.key \in ProposalIds
  BY DEF Tasks, Enriching, Deciding, Syncing, Pushing
<1>4. \A p, row : RowIsApproved(p, row) => RowIsApproved(p, row)'
  BY DEF RowIsApproved
<1>5. \A g \in Tasks : TaskOK(g) => TaskOK(g)'
  BY <1>3, <1>4 DEF TaskOK
<1>6. \A u \in Threads : tasks'[u] # None => (tasks'[u] \in Tasks /\ TaskOK(tasks'[u]))
  BY <1>1, <1>2
<1>7. \A u \in Threads : tasks'[u] # None => TaskOK(tasks[u])'
  BY <1>5, <1>6 DEF TaskOK, RowIsApproved
<1> QED
  BY <1>7 DEF TasksOK

-----------------------------------------------------------------------------
LEMMA InitInv == Init => Inv
<1> SUFFICES ASSUME Init PROVE Inv
  OBVIOUS
<1>1. PICK price \in Prices, inStock \in BOOLEAN, c \in Categories \cup {None} :
        /\ products = [p \in Products |->
                         IF p \in Seeded THEN seed(price, inStock, c) ELSE None]
        /\ approvals = (IF c = None THEN {} ELSE Seeded \X {c})
  BY DEF Init
<1>2. seed(price, inStock, c) \in Product /\ seed(price, inStock, c).category = c
  BY DEF seed, Product
<1>3. TablesOK
  BY <1>1, <1>2, ProductsAssumption DEF Init, TablesOK
<1>4. FeedIsApproved
  BY <1>1, <1>2 DEF FeedIsApproved, RowIsApproved
<1> QED
  BY <1>3, <1>4 DEF Init, Inv, TasksOK

LEMMA CommandBegins ==
    ASSUME Inv, NEW t \in Threads, NEW f, Begins(t, f)
    PROVE  GoesOn(t, f)
BY DEF Begins, GoesOn

\* Each command's own steps, which only read or ask.
LEMMA EnrichReads ==
    ASSUME Inv, NEW t \in Threads,
           \/ \E all \in BOOLEAN : ListUncategorised(t, all)
           \/ \E p \in Products : AskOrSkip(t, p)
           \/ ProposeNothing(t) \/ RoundEnds(t) \/ Stops(t)
    PROVE  Inv'
<1>1. ASSUME NEW all \in BOOLEAN, ListUncategorised(t, all) PROVE Inv'
  <2> DEFINE f == Round("enrich", {p \in Known : all \/ products[p].category = None}, allowed)
  <2>1. GoesOn(t, f) /\ OnlyTasks
    BY <1>1, CommandBegins DEF ListUncategorised
  <2>2. f \in Tasks /\ TaskOK(f)
    BY CategoriesAssumption
       DEF Round, Known, Tasks, Enriching, TaskOK, Inv, TablesOK
  <2> HIDE DEF f
  <2> QED BY <2>1, <2>2, MovesOn
<1>2. ASSUME NEW p \in Products, AskOrSkip(t, p) PROVE Inv'
  <2> DEFINE f == tasks[t]
             g == IF Pending(p) # {} THEN TakesNext(f, p)
                                     ELSE [f EXCEPT !.at = "ask", !.key = p]
  <2>1. GoesOn(t, g) /\ OnlyTasks /\ f.op = "enrich" /\ f \in Tasks /\ f.at = "next"
    BY <1>2 DEF AskOrSkip, Doing, Inv, TablesOK
  <2>2. f \in Enriching
    BY <2>1 DEF Tasks, Enriching, Deciding, Syncing, Pushing
  <2>3. g \in Enriching
    BY <2>2, <2>1 DEF Enriching, TakesNext
  <2>4. g \in Tasks /\ TaskOK(g)
    BY <2>3 DEF Tasks, TaskOK, Enriching
  <2> HIDE DEF g, f
  <2> QED BY <2>1, <2>4, MovesOn
<1>3. ASSUME ProposeNothing(t) PROVE Inv'
  <2> DEFINE f == tasks[t]
             g == TakesNext(f, f.key)
  <2>1. GoesOn(t, g) /\ OnlyTasks /\ f \in Tasks /\ f.at = "ask"
    BY <1>3 DEF ProposeNothing, Doing, Inv, TablesOK
  <2>2. f \in Enriching
    BY <2>1 DEF Tasks, Enriching, Deciding, Syncing, Pushing
  <2>3. g \in Enriching
    BY <2>2 DEF Enriching, TakesNext
  <2>4. g \in Tasks /\ TaskOK(g)
    BY <2>3 DEF Tasks, TaskOK, Enriching
  <2> HIDE DEF g, f
  <2> QED BY <2>1, <2>4, MovesOn
<1>4. ASSUME RoundEnds(t) \/ Stops(t) PROVE Inv'
  <2>1. GoesOn(t, None) /\ OnlyTasks
    BY <1>4 DEF RoundEnds, Stops, Ends, GoesOn
  <2> QED BY <2>1, MovesOn
<1> QED
  BY <1>1, <1>2, <1>3, <1>4

LEMMA SyncReads ==
    ASSUME Inv, NEW t \in Threads,
           \/ ListItems(t) \/ ListUnlinked(t)
           \/ \E i \in ItemIds : ReadLinked(t, i)
           \/ \E e \in ProposalIds, status \in {"approved", "rejected"} :
                ReadProposal(t, e, status)
    PROVE  Inv'
<1>1. CASE ListItems(t)
  <2> DEFINE f == Round("sync", {i \in ItemIds : items[i] # None}, items)
  <2>1. GoesOn(t, f) /\ OnlyTasks
    BY <1>1, CommandBegins DEF ListItems
  <2>2. f \in Syncing /\ f.op = "sync" /\ f.at = "next"
    BY DEF Round, Syncing, Inv, TablesOK
  <2>3. \A x \in f.todo : f.known[x] # None
    BY DEF Round
  <2> HIDE DEF f
  <2>4. f \in Tasks /\ TaskOK(f)
    BY <2>2, <2>3 DEF Tasks, TaskOK
  <2> QED BY <2>1, <2>4, MovesOn
<1>2. CASE ListUnlinked(t)
  <2> DEFINE f == Round("push", {p \in Known : products[p].item = None}, products)
  <2>1. GoesOn(t, f) /\ OnlyTasks
    BY <1>2, CommandBegins DEF ListUnlinked
  <2>2. f \in Pushing /\ f.op = "push" /\ f.at = "next"
    BY DEF Round, Pushing, Known, Inv, TablesOK
  <2>3. /\ \A x \in f.todo : f.known[x] # None
        /\ \A p \in Products : RowIsApproved(p, f.known[p])
    BY DEF Round, Known, Inv, FeedIsApproved
  <2> HIDE DEF f
  <2>4. f \in Tasks /\ TaskOK(f)
    BY <2>2, <2>3 DEF Tasks, TaskOK
  <2> QED BY <2>1, <2>4, MovesOn
<1>3. ASSUME NEW i \in ItemIds, ReadLinked(t, i) PROVE Inv'
  <2> DEFINE f == tasks[t]
             g(p, row) == [f EXCEPT !.at = "write", !.key = <<p, i>>, !.row = row]
  <2>1. OnlyTasks /\ f.op = "sync" /\ f \in Tasks /\ f.at = "next" /\ i \in f.todo /\ TaskOK(f)
    BY <1>3 DEF ReadLinked, Doing, Inv, TablesOK, TasksOK
  <2>2. f \in Syncing /\ f.known[i] \in Prices
    BY <2>1 DEF Tasks, Enriching, Deciding, Syncing, Pushing, TaskOK
  <2>3. PICK p \in Products, row \in Product : GoesOn(t, g(p, row)) /\ RowIsApproved(p, row)
    <3>1. CASE find_by_razorpay_item_id(i) = {}
      <4> DEFINE new == [price |-> f.known[i], inStock |-> TRUE, category |-> None, item |-> i]
      <4>1. GoesOn(t, g(ProductOf[i], new))
        BY <1>3, <3>1 DEF ReadLinked
      <4>2. new \in Product /\ ProductOf[i] \in Products /\ RowIsApproved(ProductOf[i], new)
        BY <2>2, ProductsAssumption DEF Product, RowIsApproved
      <4> HIDE DEF new, g
      <4> QED BY <4>1, <4>2
    <3>2. CASE find_by_razorpay_item_id(i) # {}
      <4>1. PICK p \in find_by_razorpay_item_id(i) :
              GoesOn(t, g(p, [products[p] EXCEPT !.price = f.known[i]]))
        BY <1>3, <3>2 DEF ReadLinked
      <4> DEFINE row == [products[p] EXCEPT !.price = f.known[i]]
      <4>2. p \in Products /\ products[p] \in Product /\ RowIsApproved(p, products[p])
        BY DEF find_by_razorpay_item_id, Known, Inv, TablesOK, FeedIsApproved
      <4>3. row \in Product /\ row.category = products[p].category
        BY <2>2, <4>2 DEF Product
      <4>4. RowIsApproved(p, row)
        BY <4>2, <4>3, NoneIsNoRecord DEF RowIsApproved
      <4> HIDE DEF row, g
      <4> QED BY <4>1, <4>2, <4>3, <4>4 DEF row
    <3> QED BY <3>1, <3>2
  <2>4. g(p, row) \in Syncing /\ g(p, row).op = "sync" /\ g(p, row).at = "write"
        /\ g(p, row).key[1] = p /\ g(p, row).row = row
        /\ g(p, row).todo = f.todo /\ g(p, row).known = f.known
    BY <2>1, <2>2 DEF Syncing
  <2>5. \A x \in f.todo : f.known[x] # None
    BY <2>1 DEF TaskOK
  <2> HIDE DEF g, f
  <2>6. g(p, row) \in Tasks /\ TaskOK(g(p, row))
    BY <2>3, <2>4, <2>5 DEF Tasks, TaskOK
  <2> QED BY <2>1, <2>3, <2>6, MovesOn
<1>4. ASSUME NEW e \in ProposalIds, NEW status \in {"approved", "rejected"},
             ReadProposal(t, e, status)
      PROVE  Inv'
  <2> DEFINE f == [op |-> "decide", at |-> "write", todo |-> {}, known |-> {},
                   key |-> e, row |-> status]
  <2>1. GoesOn(t, f) /\ OnlyTasks /\ enrichments[e] # None
    BY <1>4, CommandBegins DEF ReadProposal
  <2>2. f \in Tasks /\ TaskOK(f)
    BY <2>1 DEF Tasks, Deciding, TaskOK
  <2> HIDE DEF f
  <2> QED BY <2>1, <2>2, MovesOn
<1> QED
  BY <1>1, <1>2, <1>3, <1>4

-----------------------------------------------------------------------------
\* The steps that write.
LEMMA ProposeWrites ==
    ASSUME Inv, NEW t \in Threads, NEW e \in ProposalIds, NEW c \in Categories, Propose(t, e, c)
    PROVE  Inv'
<1> DEFINE f == tasks[t]
           g == TakesNext(f, f.key)
           x == [product |-> f.key, category |-> c, status |-> "pending"]
<1>1. /\ GoesOn(t, g) /\ f \in Tasks /\ f.at = "ask"
      /\ enrichments' = [enrichments EXCEPT ![e] = x]
      /\ UNCHANGED <<products, items, allowed, approvals>>
  BY DEF Propose, Doing, Inv, TablesOK, catalogVars
<1>2. f \in Enriching /\ f.key \in Products
  BY <1>1 DEF Tasks, Enriching, Deciding, Syncing, Pushing
<1>3. g \in Enriching
  BY <1>2 DEF Enriching, TakesNext
<1>4. g \in Tasks /\ g.op = "enrich"
  BY <1>3 DEF Tasks, Enriching
<1>5. x \in Proposal
  BY <1>2 DEF Proposal
<1>6. \A d \in ProposalIds : enrichments[d] # None => enrichments'[d] # None
  BY <1>1, <1>5, NoneIsNoRecord DEF Inv, TablesOK
<1>7. enrichments' \in [ProposalIds -> Proposal \cup {None}]
  BY <1>1, <1>5 DEF Inv, TablesOK
<1>8. tasks' \in [Threads -> Tasks \cup {None}]
  BY <1>1, <1>4 DEF GoesOn, Inv, TablesOK
<1>9. TaskOK(g)
  BY <1>4 DEF TaskOK
<1> HIDE DEF g, x
<1>10. TasksOK'
  BY <1>1, <1>4, <1>6, <1>9, OthersStay
<1> QED
  BY <1>1, <1>7, <1>8, <1>10 DEF Inv, TablesOK, FeedIsApproved, RowIsApproved

LEMMA DecisionWrites ==
    ASSUME Inv, NEW t \in Threads, WriteDecision(t)
    PROVE  Inv'
<1> DEFINE f == tasks[t]
           e == enrichments[f.key]
<1>1. /\ f \in Tasks /\ f.op = "decide" /\ TaskOK(f) /\ GoesOn(t, None)
      /\ enrichments' = [enrichments EXCEPT ![f.key].status = f.row]
      /\ UNCHANGED <<items, allowed>>
  BY DEF WriteDecision, Doing, Ends, GoesOn, Inv, TablesOK, TasksOK
<1>2. f.key \in ProposalIds /\ f.row \in {"approved", "rejected"}
  BY <1>1 DEF Tasks, Enriching, Deciding, Syncing, Pushing
<1>3. e \in Proposal
  BY <1>1, <1>2 DEF TaskOK, Inv, TablesOK
<1>4. [e EXCEPT !.status = f.row] \in Proposal
  BY <1>2, <1>3 DEF Proposal
<1>5. enrichments' = [enrichments EXCEPT ![f.key] = [e EXCEPT !.status = f.row]]
  BY <1>1
<1>6. /\ enrichments' \in [ProposalIds -> Proposal \cup {None}]
      /\ \A d \in ProposalIds : enrichments[d] # None => enrichments'[d] # None
  BY <1>2, <1>4, <1>5, NoneIsNoRecord DEF Inv, TablesOK
<1>7. /\ products' \in [Products -> Product \cup {None}]
      /\ approvals \subseteq approvals' /\ approvals' \subseteq Products \X Categories
      /\ FeedIsApproved'
  <2>1. CASE UNCHANGED <<products, approvals>>
    BY <2>1 DEF Inv, TablesOK, FeedIsApproved, RowIsApproved
  <2>2. CASE /\ e.product \in Known
             /\ products' = [products EXCEPT ![e.product].category = e.category]
             /\ approvals' = approvals \cup {<<e.product, e.category>>}
    <3>1. e.product \in Products /\ e.category \in Categories
      BY <1>3 DEF Proposal
    <3>2. products[e.product] \in Product
      BY <2>2 DEF Known, Inv, TablesOK
    <3> DEFINE row == [products[e.product] EXCEPT !.category = e.category]
    <3>3. row \in Product /\ row.category = e.category
      BY <3>1, <3>2 DEF Product
    <3>4. \A p \in Products : products'[p] = (IF p = e.product THEN row ELSE products[p])
      BY <2>2, <3>1 DEF Inv, TablesOK
    <3>5. products' = [products EXCEPT ![e.product] = row]
      BY <2>2
    <3> HIDE DEF row, e
    <3>6. products' \in [Products -> Product \cup {None}]
      BY <3>1, <3>3, <3>5 DEF Inv, TablesOK
    <3>7. approvals \subseteq approvals' /\ approvals' \subseteq Products \X Categories
      BY <2>2, <3>1 DEF Inv, TablesOK
    <3>8. FeedIsApproved'
      BY <2>2, <3>3, <3>4 DEF Inv, FeedIsApproved, RowIsApproved
    <3> QED BY <3>6, <3>7, <3>8
  <2> QED BY <2>1, <2>2 DEF WriteDecision, set_enrichment
<1>8. tasks' \in [Threads -> Tasks \cup {None}]
  BY <1>1 DEF GoesOn, Inv, TablesOK
<1> HIDE DEF f, e
<1>9. TasksOK'
  BY <1>1, <1>6, <1>7, OthersStay
<1> QED
  BY <1>1, <1>6, <1>7, <1>8, <1>9 DEF Inv, TablesOK

LEMMA RowWrites ==
    ASSUME Inv, NEW t \in Threads, WriteRow(t)
    PROVE  Inv'
<1> DEFINE f == tasks[t]
           g == TakesNext(f, f.key[2])
<1>1. /\ f \in Tasks /\ f.op \in {"sync", "push"} /\ f.at = "write" /\ TaskOK(f)
      /\ GoesOn(t, g) /\ products' = [products EXCEPT ![f.key[1]] = f.row]
      /\ UNCHANGED <<items, enrichments, allowed, approvals>>
  BY DEF WriteRow, upsert, Doing, Inv, TablesOK, TasksOK
<1>2. f \in Syncing \/ f \in Pushing
  BY <1>1 DEF Tasks, Enriching, Deciding, Syncing, Pushing
<1>3. f.key[1] \in Products /\ f.row \in Product /\ RowIsApproved(f.key[1], f.row)
  BY <1>1, <1>2 DEF Syncing, Pushing, TaskOK
<1>4. /\ g \in Syncing \/ g \in Pushing
      /\ g.at = "next" /\ g.op = f.op /\ g.known = f.known /\ g.todo \subseteq f.todo
  BY <1>1, <1>2 DEF Syncing, Pushing, TakesNext
<1> HIDE DEF g
<1>5. g \in Tasks /\ TaskOK(g)
  BY <1>1, <1>4 DEF Tasks, TaskOK
<1>7. tasks' \in [Threads -> Tasks \cup {None}]
  BY <1>1, <1>5 DEF GoesOn, Inv, TablesOK
<1>8. products' \in [Products -> Product \cup {None}]
  BY <1>1, <1>3 DEF Inv, TablesOK
<1>9. FeedIsApproved'
  BY <1>1, <1>3 DEF Inv, TablesOK, FeedIsApproved, RowIsApproved
<1>10. TasksOK'
  BY <1>1, <1>5, OthersStay
<1> QED
  BY <1>1, <1>7, <1>8, <1>9, <1>10 DEF Inv, TablesOK

LEMMA ItemCreated ==
    ASSUME Inv, NEW t \in Threads, NEW p \in Products, NEW i \in ItemIds, CreateItem(t, p, i)
    PROVE  Inv'
<1> DEFINE f == tasks[t]
           row == [f.known[p] EXCEPT !.item = i]
           g == [f EXCEPT !.at = "write", !.key = <<p, p>>, !.row = row]
<1>1. /\ f \in Tasks /\ f.op = "push" /\ p \in f.todo /\ TaskOK(f) /\ GoesOn(t, g)
      /\ items' = [items EXCEPT ![i] = f.known[p].price]
      /\ UNCHANGED <<products, enrichments, allowed, approvals>>
  BY DEF CreateItem, Doing, Inv, TablesOK, TasksOK
<1>2. f \in Pushing
  BY <1>1 DEF Tasks, Enriching, Deciding, Syncing, Pushing
<1>3. f.known[p] \in Product /\ RowIsApproved(p, f.known[p])
  BY <1>1, <1>2 DEF Pushing, TaskOK
<1>4. row \in Product /\ row.category = f.known[p].category /\ f.known[p].price \in Prices
  BY <1>3 DEF Product
<1>5. RowIsApproved(p, row)
  BY <1>3, <1>4, NoneIsNoRecord DEF RowIsApproved
<1> HIDE DEF row
<1>6. /\ g \in Pushing /\ g.op = "push" /\ g.known = f.known /\ g.todo = f.todo
      /\ g.key[1] = p /\ g.row = row
  BY <1>2, <1>4 DEF Pushing
<1> HIDE DEF g
<1>7. g \in Tasks /\ TaskOK(g)
  BY <1>1, <1>5, <1>6 DEF Tasks, TaskOK
<1>9. tasks' \in [Threads -> Tasks \cup {None}] /\ items' \in [ItemIds -> Prices \cup {None}]
  BY <1>1, <1>4, <1>7 DEF GoesOn, Inv, TablesOK
<1>10. TasksOK'
  BY <1>1, <1>7, OthersStay
<1> QED
  BY <1>1, <1>9, <1>10 DEF Inv, TablesOK, FeedIsApproved, RowIsApproved

LEMMA NextInv == Inv /\ [Next]_vars => Inv'
<1> SUFFICES ASSUME Inv, [Next]_vars PROVE Inv'
  OBVIOUS
<1>1. CASE UNCHANGED vars
  BY <1>1 DEF vars, catalogVars, Inv, TablesOK, FeedIsApproved, RowIsApproved, TasksOK, TaskOK
<1>2. CASE \/ \E i \in ItemIds, price \in Prices \cup {None} : ChangeItem(i, price)
           \/ ChangePolicy
  BY <1>2 DEF ChangeItem, ChangePolicy, catalogVars, Inv, TablesOK, FeedIsApproved,
              RowIsApproved, TasksOK, TaskOK
<1>3. CASE Next
  BY <1>2, <1>3, EnrichReads, SyncReads, ProposeWrites, DecisionWrites, RowWrites, ItemCreated
     DEF Next
<1> QED
  BY <1>1, <1>3

-----------------------------------------------------------------------------
\* Every category in the catalog was approved for the product it stands at,
\* for any number of commands, products and proposals, and wherever a command
\* stops.
THEOREM ApprovedFeed == Spec => []FeedIsApproved
<1>1. Inv => FeedIsApproved
  BY DEF Inv
<1> QED
  BY InitInv, NextInv, <1>1, PTL DEF Spec

\* A command decides only proposals that exist, and writes only about rows and
\* prices it has read.
THEOREM CatalogTypes == Spec => []TypeOK
<1>1. Inv => TypeOK
  BY InvIsWhatRunsCheck
<1> QED
  BY InitInv, NextInv, <1>1, PTL DEF Spec
-----------------------------------------------------------------------------
(* Where a command relies on what it has read, it is the only one of its   *)
(* kind: the assumptions below say which commands run in one process only. *)

\* The steps of the command in thread t.
Step(t) ==
    \/ \E all \in BOOLEAN : ListUncategorised(t, all)
    \/ \E p \in Products : AskOrSkip(t, p)
    \/ \E e \in ProposalIds, c \in Categories : Propose(t, e, c)
    \/ ProposeNothing(t) \/ RoundEnds(t)
    \/ \E e \in ProposalIds, status \in {"approved", "rejected"} : ReadProposal(t, e, status)
    \/ WriteDecision(t)
    \/ ListItems(t) \/ WriteRow(t)
    \/ \E i \in ItemIds : ReadLinked(t, i)
    \/ ListUnlinked(t)
    \/ \E p \in Products, i \in ItemIds : CreateItem(t, p, i)
    \/ Stops(t)

LEMMA Steps ==
    ASSUME [Next]_vars
    PROVE  \/ \E t \in Threads : Step(t)
           \/ UNCHANGED <<products, enrichments, tasks>>
  BY DEF Next, Step, vars, catalogVars, ChangeItem, ChangePolicy

ServedInv == \A t \in Threads : tasks[t] # None => tasks[t].op \in Serves[t]

\* A step is one of a single command, which is then done, back at its list,
\* at the question to the model or before a write.
LEMMA TaskSteps ==
    ASSUME Inv, NEW t \in Threads, Step(t)
    PROVE  /\ \A u \in Threads : u # t => tasks'[u] = tasks[u]
           /\ \/ tasks'[t] = None
              \/ tasks'[t].op \in Serves[t]
              \/ tasks[t] # None /\ tasks'[t].op = tasks[t].op
           /\ \/ tasks'[t] = None
              \/ tasks'[t].at = "next"
              \/ \E p \in Products : AskOrSkip(t, p) /\ Pending(p) = {} /\ tasks'[t].key = p
                                     /\ tasks'[t].at = "ask"
              \/ \E e \in ProposalIds, status \in {"approved", "rejected"} :
                   ReadProposal(t, e, status) /\ tasks'[t].key = e
                   /\ tasks'[t].op = "decide" /\ tasks'[t].at = "write"
              \/ \E i \in ItemIds : ReadLinked(t, i) /\ tasks'[t].at = "write"
                                    /\ tasks'[t].op = "sync"
              \/ \E p \in Products, i \in ItemIds : CreateItem(t, p, i) /\ tasks'[t].at = "write"
                                                   /\ tasks'[t].op = "push"
<1>0. tasks \in [Threads -> Tasks \cup {None}]
  BY DEF Inv, TablesOK
<1>1. ASSUME NEW f, GoesOn(t, f)
      PROVE  tasks'[t] = f /\ \A u \in Threads : u # t => tasks'[u] = tasks[u]
  BY <1>0, <1>1 DEF GoesOn
<1>2. CASE RoundEnds(t) \/ WriteDecision(t) \/ Stops(t)
  <2>1. GoesOn(t, None)
    BY <1>2 DEF RoundEnds, WriteDecision, Stops, Ends, GoesOn
  <2>. QED
    BY <1>1, <2>1
<1>3. ASSUME NEW op, NEW todo, NEW known, Begins(t, Round(op, todo, known))
      PROVE  /\ tasks'[t].at = "next" /\ tasks'[t].op \in Serves[t]
             /\ \A u \in Threads : u # t => tasks'[u] = tasks[u]
  BY <1>0, <1>3 DEF Begins, Round
<1>4. CASE ListItems(t) \/ ListUnlinked(t) \/ \E all \in BOOLEAN : ListUncategorised(t, all)
  BY <1>3, <1>4 DEF ListItems, ListUnlinked, ListUncategorised
<1>5. ASSUME NEW f, f = tasks[t], f # None, NEW x, GoesOn(t, TakesNext(f, x))
      PROVE  /\ tasks'[t].at = "next" /\ tasks'[t].op = f.op
             /\ \A u \in Threads : u # t => tasks'[u] = tasks[u]
  <2>1. f \in Tasks
    BY <1>0, <1>5
  <2>2. tasks'[t] = TakesNext(f, x)
    BY <1>1, <1>5
  <2>3. TakesNext(f, x).at = "next" /\ TakesNext(f, x).op = f.op
    BY <2>1 DEF TakesNext, Tasks, Enriching, Deciding, Syncing, Pushing
  <2>. QED
    BY <1>1, <1>5, <2>2, <2>3
<1>6. CASE ProposeNothing(t) \/ WriteRow(t) \/ \E e \in ProposalIds, c \in Categories : Propose(t, e, c)
  <2>1. PICK f : f = tasks[t]
    OBVIOUS
  <2>2. f # None /\ \E x : GoesOn(t, TakesNext(f, x))
    BY <1>6, <2>1 DEF ProposeNothing, WriteRow, Propose, Doing
  <2>. QED
    BY <1>5, <2>1, <2>2
<1>7. ASSUME NEW f, f = tasks[t], f # None, NEW x, NEW row, NEW place,
             GoesOn(t, [f EXCEPT !.at = place, !.key = x, !.row = row])
      PROVE  /\ tasks'[t].at = place /\ tasks'[t].op = f.op
             /\ \A u \in Threads : u # t => tasks'[u] = tasks[u]
  <2>. DEFINE g == [f EXCEPT !.at = place, !.key = x, !.row = row]
  <2>1. f \in Tasks
    BY <1>0, <1>7
  <2>2. g.at = place /\ g.op = f.op
    BY <2>1 DEF Tasks, Enriching, Deciding, Syncing, Pushing
  <2>. HIDE DEF g
  <2>3. tasks'[t] = g /\ \A u \in Threads : u # t => tasks'[u] = tasks[u]
    BY <1>1, <1>7 DEF g
  <2>. QED
    BY <2>2, <2>3
<1>8. ASSUME NEW i \in ItemIds, ReadLinked(t, i)
      PROVE  /\ tasks'[t].at = "write" /\ tasks[t] # None /\ tasks'[t].op = tasks[t].op
             /\ tasks'[t].op = "sync"
             /\ \A u \in Threads : u # t => tasks'[u] = tasks[u]
  <2>1. PICK f : f = tasks[t]
    OBVIOUS
  <2>2. f # None /\ f.op = "sync"
        /\ \E x, row : GoesOn(t, [f EXCEPT !.at = "write", !.key = x, !.row = row])
    BY <1>8, <2>1 DEF ReadLinked, Doing
  <2>3. PICK x, row : GoesOn(t, [f EXCEPT !.at = "write", !.key = x, !.row = row])
    BY <2>2
  <2>4. tasks'[t].at = "write" /\ tasks'[t].op = f.op /\ \A u \in Threads : u # t => tasks'[u] = tasks[u]
    BY <1>7, <2>1, <2>2, <2>3
  <2>. QED
    BY <2>1, <2>2, <2>4
<1>9. ASSUME NEW p \in Products, NEW i \in ItemIds, CreateItem(t, p, i)
      PROVE  /\ tasks'[t].at = "write" /\ tasks[t] # None /\ tasks'[t].op = tasks[t].op
             /\ tasks'[t].op = "push"
             /\ \A u \in Threads : u # t => tasks'[u] = tasks[u]
  <2>1. PICK f : f = tasks[t]
    OBVIOUS
  <2>2. f # None /\ f.op = "push"
        /\ \E x, row : GoesOn(t, [f EXCEPT !.at = "write", !.key = x, !.row = row])
    BY <1>9, <2>1 DEF CreateItem, Doing
  <2>3. PICK x, row : GoesOn(t, [f EXCEPT !.at = "write", !.key = x, !.row = row])
    BY <2>2
  <2>4. tasks'[t].at = "write" /\ tasks'[t].op = f.op /\ \A u \in Threads : u # t => tasks'[u] = tasks[u]
    BY <1>7, <2>1, <2>2, <2>3
  <2>. QED
    BY <2>1, <2>2, <2>4
<1>10. ASSUME NEW p \in Products, AskOrSkip(t, p)
       PROVE  /\ tasks[t] # None /\ tasks'[t].op = tasks[t].op
              /\ \/ tasks'[t].at = "next"
                 \/ Pending(p) = {} /\ tasks'[t].key = p /\ tasks'[t].at = "ask"
              /\ \A u \in Threads : u # t => tasks'[u] = tasks[u]
  <2>1. PICK f : f = tasks[t]
    OBVIOUS
  <2>2. f # None /\ f \in Tasks
    BY <1>0, <1>10, <2>1 DEF AskOrSkip, Doing
  <2>3. CASE Pending(p) # {}
    BY <1>5, <1>10, <2>1, <2>2, <2>3 DEF AskOrSkip
  <2>4. CASE Pending(p) = {}
    <3>. DEFINE g == [f EXCEPT !.at = "ask", !.key = p]
    <3>1. GoesOn(t, g)
      BY <1>10, <2>1, <2>4 DEF AskOrSkip
    <3>2. g.at = "ask" /\ g.key = p /\ g.op = f.op
      BY <2>2 DEF Tasks, Enriching, Deciding, Syncing, Pushing
    <3>. HIDE DEF g
    <3>. QED
      BY <1>1, <2>1, <2>2, <2>4, <3>1, <3>2
  <2>. QED
    BY <2>3, <2>4
<1>11. ASSUME NEW e \in ProposalIds, NEW status, ReadProposal(t, e, status)
       PROVE  /\ tasks'[t].at = "write" /\ tasks'[t].op = "decide" /\ tasks'[t].key = e
              /\ tasks'[t].op \in Serves[t]
              /\ \A u \in Threads : u # t => tasks'[u] = tasks[u]
  BY <1>0, <1>11 DEF ReadProposal, Begins
<1>. QED
  BY <1>2, <1>4, <1>6, <1>8, <1>9, <1>10, <1>11 DEF Step

LEMMA ServedNext ==
    ASSUME Inv, ServedInv, [Next]_vars
    PROVE  ServedInv'
  BY Steps, TaskSteps DEF ServedInv

LEMMA ServedAlways == Spec => [](Inv /\ ServedInv)
<1>1. Init => ServedInv
  BY DEF Init, ServedInv
<1>. QED
  BY <1>1, InitInv, NextInv, ServedNext, PTL DEF Spec
\* One process asks the model for categories.
OneProposer == \A t, u \in Threads : "enrich" \in Serves[t] \cap Serves[u] => t = u

\* The product a command asks about has no proposal that waits.
PendingInv ==
    /\ \A p \in Products : \A d, e \in Pending(p) : d = e
    /\ \A t \in Threads : Doing(t, "ask") => Pending(tasks[t].key) = {}

LEMMA AsksAlone ==
    ASSUME OneProposer, Inv, ServedInv, NEW t \in Threads, NEW u \in Threads,
           Doing(t, "ask"), Doing(u, "ask")
    PROVE  t = u
<1>1. /\ tasks[t] \in Tasks /\ tasks[t].op \in Serves[t] /\ tasks[t].at = "ask"
      /\ tasks[u] \in Tasks /\ tasks[u].op \in Serves[u] /\ tasks[u].at = "ask"
  BY DEF Doing, Inv, TablesOK, ServedInv
<1>2. tasks[t].op = "enrich" /\ tasks[u].op = "enrich"
  BY <1>1 DEF Tasks, Enriching, Deciding, Syncing, Pushing
<1>. QED
  BY <1>1, <1>2 DEF OneProposer

\* Only a new proposal waits that did not wait before.
LEMMA PendingShrinks ==
    ASSUME Inv, NEW t \in Threads, Step(t),
           \A e \in ProposalIds, c \in Categories : ~Propose(t, e, c)
    PROVE  \A p : Pending(p)' \subseteq Pending(p)
<1>1. CASE WriteDecision(t)
  <2>. DEFINE k == tasks[t].key
  <2>1. tasks[t] \in Tasks /\ tasks[t].op = "decide"
    BY <1>1 DEF WriteDecision, Doing, Inv, TablesOK
  <2>2. k \in ProposalIds /\ tasks[t].row \in {"approved", "rejected"} /\ enrichments[k] # None
    BY <1>1, <2>1 DEF Tasks, Enriching, Deciding, Syncing, Pushing, Inv, TasksOK, TaskOK, WriteDecision, Doing
  <2>3. enrichments[k] \in Proposal
    BY <2>2 DEF Inv, TablesOK
  <2>4. /\ \A e \in ProposalIds : e # k => enrichments'[e] = enrichments[e]
        /\ enrichments'[k].status \in {"approved", "rejected"}
    BY <1>1, <2>2, <2>3 DEF WriteDecision, Inv, TablesOK, Proposal
  <2>. QED
    BY <2>4 DEF Pending
<1>2. CASE ~WriteDecision(t)
  <2>1. UNCHANGED enrichments
    BY <1>2 DEF Step, ListUncategorised, AskOrSkip, ProposeNothing, RoundEnds, ReadProposal,
       ListItems, WriteRow, ReadLinked, ListUnlinked, CreateItem, Stops, OnlyTasks
  <2>. QED
    BY <2>1 DEF Pending
<1>. QED
  BY <1>1, <1>2

LEMMA PendingNext ==
    ASSUME OneProposer, Inv, ServedInv, PendingInv, [Next]_vars
    PROVE  PendingInv'
<1>1. CASE UNCHANGED <<products, enrichments, tasks>>
  BY <1>1 DEF PendingInv, Pending, Doing
<1>2. ASSUME NEW t \in Threads, NEW e \in ProposalIds, NEW c \in Categories, Propose(t, e, c)
      PROVE  PendingInv'
  <2>. PICK k : k = tasks[t].key
    OBVIOUS
  <2>. DEFINE x == [product |-> k, category |-> c, status |-> "pending"]
  <2>1. Doing(t, "ask") /\ enrichments' = [enrichments EXCEPT ![e] = x] /\ enrichments[e] = None
    BY <1>2 DEF Propose
  <2>2. tasks[t] \in Tasks /\ tasks[t].at = "ask"
    BY <2>1 DEF Doing, Inv, TablesOK
  <2>3. k \in Products
    BY <2>2 DEF Tasks, Enriching, Deciding, Syncing, Pushing
  <2>4. /\ \A u \in Threads : u # t => tasks'[u] = tasks[u]
        /\ tasks'[t] = None \/ tasks'[t].at = "next"
    <3>1. Step(t)
      BY <1>2 DEF Step
    <3>2. tasks'[t] = TakesNext(tasks[t], k)
      BY <1>2 DEF Propose, GoesOn, Inv, TablesOK
    <3>3. TakesNext(tasks[t], k).at = "next"
      BY <2>2 DEF TakesNext, Tasks, Enriching, Deciding, Syncing, Pushing
    <3>. QED
      BY <3>1, <3>2, <3>3, TaskSteps
  <2>5. \A u \in Threads : ~Doing(u, "ask")'
    <3>. SUFFICES ASSUME NEW u \in Threads, Doing(u, "ask")' PROVE FALSE
      OBVIOUS
    <3>1. u # t /\ tasks'[u] = tasks[u]
      BY <2>4 DEF Doing
    <3>. QED
      BY <2>1, <3>1, AsksAlone DEF Doing
  <2>6. Pending(k) = {}
    BY <2>1 DEF PendingInv
  <2>7. \A d \in ProposalIds : d # e => enrichments'[d] = enrichments[d]
    BY <2>1 DEF Inv, TablesOK
  <2>8. enrichments'[e].product = k
    BY <2>1 DEF Inv, TablesOK
  <2>9. \A p : p # k => Pending(p)' \subseteq Pending(p)
    BY <2>7, <2>8 DEF Pending
  <2>10. Pending(k)' \subseteq {e}
    BY <2>6, <2>7 DEF Pending
  <2>. HIDE DEF x
  <2>11. ASSUME NEW p \in Products, NEW d \in Pending(p)', NEW q \in Pending(p)' PROVE d = q
    BY <2>9, <2>10 DEF PendingInv
  <2>. QED
    BY <2>5, <2>11 DEF PendingInv
<1>3. ASSUME NEW t \in Threads, Step(t),
             \A e \in ProposalIds, c \in Categories : ~Propose(t, e, c)
      PROVE  PendingInv'
  <2>1. \A p : Pending(p)' \subseteq Pending(p)
    BY <1>3, PendingShrinks
  <2>2. ASSUME NEW u \in Threads, Doing(u, "ask")' PROVE Pending(tasks[u].key)' = {}
    <3>1. CASE tasks'[u] = tasks[u]
      <4>1. Pending(tasks[u].key) = {}
        BY <2>2, <3>1 DEF PendingInv, Doing
      <4>2. PICK k : k = tasks[u].key
        OBVIOUS
      <4>3. Pending(k)' = {}
        BY <2>1, <4>1, <4>2
      <4>4. tasks'[u].key = k
        BY <3>1, <4>2
      <4>. QED
        BY <4>3, <4>4
    <3>2. CASE u = t
      <4>1. PICK p \in Products : Pending(p) = {} /\ tasks'[u].key = p
        BY <1>3, <2>2, <3>2, TaskSteps DEF Doing
      <4>2. Pending(p)' = {}
        BY <2>1, <4>1
      <4>. QED
        BY <4>1, <4>2
    <3>. QED
      BY <1>3, <3>1, <3>2, TaskSteps
  <2>. QED
    BY <2>1, <2>2 DEF PendingInv
<1>. QED
  BY <1>1, <1>2, <1>3, Steps

\* While one process proposes, no product ever waits for two decisions of the
\* merchant, however long the model takes to answer and whatever the merchant
\* decides meanwhile.
THEOREM OneProposalWaits ==
    ASSUME OneProposer
    PROVE  Spec => []OnePending
<1>1. Init => PendingInv
  BY DEF Init, PendingInv, Pending, Doing
<1>2. Inv /\ ServedInv /\ PendingInv /\ [Next]_vars => PendingInv'
  BY PendingNext
<1>3. PendingInv => OnePending
  <2>. SUFFICES ASSUME PendingInv, NEW p \in Products PROVE Cardinality(Pending(p)) <= 1
    BY DEF OnePending
  <2>1. CASE Pending(p) = {}
    BY <2>1, FS_EmptySet
  <2>2. CASE Pending(p) # {}
    <3>1. PICK e : Pending(p) = {e}
      BY <2>2 DEF PendingInv
    <3>2. Cardinality({e}) = 1
      BY FS_Singleton, Zenon
    <3>. QED
      BY <3>1, <3>2
  <2>. QED
    BY <2>1, <2>2
<1>. QED
  BY <1>1, <1>2, <1>3, ServedAlways, PTL DEF Spec

-----------------------------------------------------------------------------
\* One process takes the merchant's decisions.
OneDecider == \A t, u \in Threads : "decide" \in Serves[t] \cap Serves[u] => t = u

\* What a decision is about to be written for still waits for it.
DecisionInv ==
    \A t \in Threads : tasks[t] # None /\ tasks[t].op = "decide" =>
        enrichments[tasks[t].key] # None /\ enrichments[tasks[t].key].status = "pending"

LEMMA DecidedStays ==
    ASSUME Inv, DecisionInv, NEW t \in Threads, Step(t), NEW e \in ProposalIds,
           enrichments[e] # None
    PROVE  \/ enrichments'[e] = enrichments[e]
           \/ enrichments[e].status = "pending" /\ WriteDecision(t)
<1>1. CASE WriteDecision(t)
  <2>1. tasks[t] # None /\ tasks[t].op = "decide"
    BY <1>1 DEF WriteDecision, Doing
  <2>. QED
    BY <1>1, <2>1 DEF WriteDecision, DecisionInv, Inv, TablesOK
<1>2. ASSUME NEW d \in ProposalIds, NEW c \in Categories, Propose(t, d, c)
      PROVE  enrichments'[e] = enrichments[e]
  BY <1>2 DEF Propose, Inv, TablesOK
<1>3. CASE UNCHANGED enrichments
  BY <1>3
<1>. QED
  BY <1>1, <1>2, <1>3 DEF Step, ListUncategorised, AskOrSkip, ProposeNothing, RoundEnds,
     ReadProposal, ListItems, WriteRow, ReadLinked, ListUnlinked, CreateItem, Stops, OnlyTasks

LEMMA DecisionNext ==
    ASSUME OneDecider, Inv, ServedInv, DecisionInv, [Next]_vars
    PROVE  DecisionInv'
<1>1. CASE UNCHANGED <<products, enrichments, tasks>>
  BY <1>1 DEF DecisionInv
<1>2. ASSUME NEW t \in Threads, Step(t), NEW u \in Threads,
             tasks'[u] # None, tasks'[u].op = "decide"
      PROVE  enrichments'[tasks'[u].key] # None /\ enrichments'[tasks'[u].key].status = "pending"
  <2>1. CASE u = t /\ \E e \in ProposalIds, status \in {"approved", "rejected"} : ReadProposal(t, e, status)
    <3>1. PICK e \in ProposalIds, status \in {"approved", "rejected"} : ReadProposal(t, e, status)
      BY <2>1
    <3>2. tasks'[t].key = e
      BY <3>1 DEF ReadProposal, Begins, Inv, TablesOK
    <3>. QED
      BY <2>1, <3>1, <3>2 DEF ReadProposal, OnlyTasks
  <2>2. CASE tasks'[u] = tasks[u]
    <3>1. PICK e \in ProposalIds : e = tasks[u].key
      <4>1. tasks[u] \in Tasks /\ tasks[u].op = "decide"
        BY <1>2, <2>2 DEF Inv, TablesOK
      <4>. QED
        BY <4>1 DEF Tasks, Enriching, Deciding, Syncing, Pushing
    <3>2. enrichments[e] # None /\ enrichments[e].status = "pending"
      BY <1>2, <2>2, <3>1 DEF DecisionInv
    <3>3. ~WriteDecision(t)
      <4>. SUFFICES ASSUME WriteDecision(t) PROVE FALSE
        OBVIOUS
      <4>1. tasks[t] # None /\ tasks[t].op = "decide" /\ tasks'[t] = None
        BY DEF WriteDecision, Doing, Ends, Inv, TablesOK
      <4>2. u # t
        BY <1>2, <4>1
      <4>. QED
        BY <1>2, <2>2, <4>1, <4>2 DEF OneDecider, ServedInv
    <3>4. enrichments'[e] = enrichments[e]
      BY <1>2, <3>2, <3>3, DecidedStays
    <3>. QED
      BY <2>2, <3>1, <3>2, <3>4
  <2>3. u # t => tasks'[u] = tasks[u]
    BY <1>2, TaskSteps
  <2>4. ASSUME u = t, tasks'[u] # tasks[u],
               \A e \in ProposalIds, status \in {"approved", "rejected"} : ~ReadProposal(t, e, status)
        PROVE  FALSE
    <3>1. tasks'[t] \in Tasks
      BY <1>2, <2>4, NextInv DEF Inv, TablesOK
    <3>2. tasks'[t].at = "write"
      BY <1>2, <2>4, <3>1 DEF Tasks, Enriching, Deciding, Syncing, Pushing
    <3>. QED
      BY <1>2, <2>4, <3>2, TaskSteps
  <2>. QED
    BY <2>1, <2>2, <2>3, <2>4
<1>. QED
  BY <1>1, <1>2, Steps DEF DecisionInv

\* A proposal the merchant has decided stays decided, and a category is
\* written at most once for it, while one process takes the decisions: nothing
\* happens to a waiting proposal between the read and the write of a decision.
THEOREM DecidedForGood ==
    ASSUME OneDecider
    PROVE  Spec => DecisionIsFinal
<1>1. Init => DecisionInv
  BY DEF Init, DecisionInv
<1>2. Inv /\ ServedInv /\ DecisionInv /\ [Next]_vars => DecisionInv'
  BY DecisionNext
<1>. DEFINE Final == \A e \in ProposalIds :
                       enrichments[e] # None /\ enrichments[e].status # "pending" =>
                           enrichments'[e] = enrichments[e]
<1>3. Inv /\ DecisionInv /\ [Next]_vars => [Final]_vars
  BY DecidedStays, Steps
<1>. HIDE DEF Final
<1>. QED
  BY <1>1, <1>2, <1>3, ServedAlways, PTL DEF Spec, DecisionIsFinal, Final
-----------------------------------------------------------------------------
\* One process synchronises the catalog with the Razorpay Items.
OneSyncer ==
    \A t, u \in Threads :
        ({"sync", "push"} \cap Serves[t] # {} /\ {"sync", "push"} \cap Serves[u] # {}) => t = u

Linking(f) == f # None /\ f.op \in {"sync", "push"} /\ f.at = "write"

\* A row on its way to the catalog is linked to an item that no other product
\* stands for.
LinkInv ==
    /\ \A i \in ItemIds : \A p, q \in find_by_razorpay_item_id(i) : p = q
    /\ \A t \in Threads : Linking(tasks[t]) =>
         /\ tasks[t].row.item \in ItemIds
         /\ find_by_razorpay_item_id(tasks[t].row.item) \subseteq {tasks[t].key[1]}

LinksKept == \A i : find_by_razorpay_item_id(i)' = find_by_razorpay_item_id(i)

LEMMA LinksAlone ==
    ASSUME OneSyncer, Inv, ServedInv, NEW t \in Threads, NEW u \in Threads,
           Linking(tasks[t]), Linking(tasks[u])
    PROVE  t = u
  BY DEF OneSyncer, ServedInv, Linking

\* Approving a category leaves the links alone, and so does every other step
\* but the write of a row.
LEMMA LinksStay ==
    ASSUME Inv, NEW t \in Threads, Step(t), ~WriteRow(t)
    PROVE  LinksKept
<1>1. CASE UNCHANGED products
  BY <1>1 DEF LinksKept, find_by_razorpay_item_id, Known
<1>2. CASE WriteDecision(t) /\ ~UNCHANGED products
  <2>1. PICK p \in Known, c \in Categories : products' = [products EXCEPT ![p].category = c]
    <3>1. PICK f, e : f = tasks[t] /\ e = enrichments[f.key]
      OBVIOUS
    <3>2. f \in Tasks /\ f.op = "decide" /\ TaskOK(f)
      BY <1>2, <3>1 DEF WriteDecision, Doing, Inv, TablesOK, TasksOK
    <3>3. e \in Proposal
      BY <3>1, <3>2 DEF TaskOK, Inv, TablesOK, Tasks, Enriching, Deciding, Syncing, Pushing
    <3>4. e.product \in Known /\ products' = [products EXCEPT ![e.product].category = e.category]
      BY <1>2, <3>1 DEF WriteDecision, set_enrichment
    <3>. QED
      BY <3>3, <3>4 DEF Proposal
  <2>. DEFINE row == [products[p] EXCEPT !.category = c]
  <2>2. p \in Products /\ products[p] \in Product
    BY <2>1 DEF Known, Inv, TablesOK
  <2>3. products'[p] = row /\ \A q \in Products : q # p => products'[q] = products[q]
    BY <2>1, <2>2 DEF Inv, TablesOK
  <2>4. row \in Product /\ row.item = products[p].item
    BY <2>2 DEF Product
  <2>5. row # None
    BY <2>4, NoneIsNoRecord
  <2>. HIDE DEF row
  <2>. QED
    BY <2>1, <2>2, <2>3, <2>4, <2>5 DEF LinksKept, find_by_razorpay_item_id, Known
<1>. QED
  BY <1>1, <1>2 DEF Step, ListUncategorised, AskOrSkip, Propose, ProposeNothing, RoundEnds,
     ReadProposal, ListItems, ReadLinked, ListUnlinked, CreateItem, Stops, OnlyTasks, catalogVars

\* What a command takes to write is linked to an item of its own.
LEMMA LinkReads ==
    ASSUME Inv, LinkInv, NEW t \in Threads, Step(t), ~WriteRow(t), Linking(tasks'[t]),
           tasks'[t] # tasks[t]
    PROVE  /\ tasks'[t].row.item \in ItemIds
           /\ find_by_razorpay_item_id(tasks'[t].row.item) \subseteq {tasks'[t].key[1]}
<1>1. ASSUME NEW f, f \in Tasks, f = tasks[t], NEW x, NEW row, NEW i \in ItemIds,
             GoesOn(t, [f EXCEPT !.at = "write", !.key = x, !.row = row]), row.item = i,
             find_by_razorpay_item_id(i) \subseteq {x[1]}
      PROVE  /\ tasks'[t].row.item \in ItemIds
             /\ find_by_razorpay_item_id(tasks'[t].row.item) \subseteq {tasks'[t].key[1]}
  <2>. DEFINE g == [f EXCEPT !.at = "write", !.key = x, !.row = row]
  <2>1. g.key = x /\ g.row = row
    BY <1>1 DEF Tasks, Enriching, Deciding, Syncing, Pushing
  <2>2. tasks'[t] = g
    BY <1>1 DEF GoesOn, Inv, TablesOK
  <2>. HIDE DEF g
  <2>. QED
    BY <1>1, <2>1, <2>2
<1>2. ASSUME NEW i \in ItemIds, ReadLinked(t, i)
      PROVE  /\ tasks'[t].row.item \in ItemIds
             /\ find_by_razorpay_item_id(tasks'[t].row.item) \subseteq {tasks'[t].key[1]}
  <2>1. PICK f : f = tasks[t]
    OBVIOUS
  <2>2. f \in Tasks /\ f.op = "sync"
    BY <1>2, <2>1 DEF ReadLinked, Doing, Inv, TablesOK
  <2>3. CASE find_by_razorpay_item_id(i) = {}
    <3>. DEFINE new == [price |-> f.known[i], inStock |-> TRUE, category |-> None, item |-> i]
    <3>1. GoesOn(t, [f EXCEPT !.at = "write", !.key = <<ProductOf[i], i>>, !.row = new])
      BY <1>2, <2>1, <2>3 DEF ReadLinked
    <3>2. new.item = i
      OBVIOUS
    <3>. HIDE DEF new
    <3>. QED
      BY <1>1, <2>1, <2>2, <2>3, <3>1, <3>2
  <2>4. CASE find_by_razorpay_item_id(i) # {}
    <3>1. PICK p \in find_by_razorpay_item_id(i) :
            GoesOn(t, [f EXCEPT !.at = "write", !.key = <<p, i>>,
                                !.row = [products[p] EXCEPT !.price = f.known[i]]])
      BY <1>2, <2>1, <2>4 DEF ReadLinked
    <3>. DEFINE row == [products[p] EXCEPT !.price = f.known[i]]
    <3>2. p \in Products /\ products[p] \in Product /\ products[p].item = i
      BY DEF find_by_razorpay_item_id, Known, Inv, TablesOK
    <3>3. row.item = i
      BY <3>2 DEF Product
    <3>. DEFINE x == <<p, i>>
    <3>4. find_by_razorpay_item_id(i) \subseteq {x[1]}
      BY DEF LinkInv
    <3>. HIDE DEF row, x
    <3>5. GoesOn(t, [f EXCEPT !.at = "write", !.key = x, !.row = row])
      BY <3>1 DEF row, x
    <3>. QED
      BY <1>1, <2>1, <2>2, <3>3, <3>4, <3>5
  <2>. QED
    BY <2>3, <2>4
<1>3. ASSUME NEW p \in Products, NEW i \in ItemIds, CreateItem(t, p, i)
      PROVE  /\ tasks'[t].row.item \in ItemIds
             /\ find_by_razorpay_item_id(tasks'[t].row.item) \subseteq {tasks'[t].key[1]}
  <2>1. PICK f : f = tasks[t]
    OBVIOUS
  <2>. DEFINE row == [f.known[p] EXCEPT !.item = i]
              x == <<p, p>>
  <2>2. /\ f \in Tasks /\ f.op = "push" /\ p \in f.todo /\ TaskOK(f)
        /\ GoesOn(t, [f EXCEPT !.at = "write", !.key = x, !.row = row])
        /\ find_by_razorpay_item_id(i) = {}
    BY <1>3, <2>1 DEF CreateItem, Doing, Inv, TablesOK, TasksOK
  <2>3. f.known[p] \in Product
    BY <2>2 DEF Tasks, Enriching, Deciding, Syncing, Pushing, TaskOK
  <2>4. row.item = i
    BY <2>3 DEF Product
  <2>. HIDE DEF row, x
  <2>. QED
    BY <1>1, <2>1, <2>2, <2>4
<1>. QED
  BY <1>2, <1>3, TaskSteps DEF Linking

LEMMA LinkNext ==
    ASSUME OneSyncer, Inv, ServedInv, LinkInv, [Next]_vars
    PROVE  LinkInv'
<1>1. CASE UNCHANGED <<products, enrichments, tasks>>
  BY <1>1 DEF LinkInv, find_by_razorpay_item_id, Known
<1>2. ASSUME NEW t \in Threads, WriteRow(t) PROVE LinkInv'
  <2>. PICK k, row, f : k = f.key[1] /\ row = f.row /\ f = tasks[t]
    OBVIOUS
  <2>1. Linking(f) /\ products' = [products EXCEPT ![k] = row] /\ Step(t)
    BY <1>2 DEF WriteRow, upsert, Doing, Linking, Step
  <2>2. row.item \in ItemIds /\ find_by_razorpay_item_id(row.item) \subseteq {k}
    BY <2>1 DEF LinkInv
  <2>3. \A q \in Products : q # k => products'[q] = products[q]
    BY <2>1 DEF Inv, TablesOK
  <2>4. k \in Products => products'[k] = row
    BY <2>1 DEF Inv, TablesOK
  <2>5. ASSUME NEW i \in ItemIds, NEW p \in find_by_razorpay_item_id(i)',
               NEW q \in find_by_razorpay_item_id(i)'
        PROVE  p = q
    <3>1. CASE i = row.item
      BY <2>2, <2>3, <2>5, <3>1 DEF find_by_razorpay_item_id, Known
    <3>2. CASE i # row.item
      BY <2>3, <2>4, <2>5, <3>2 DEF find_by_razorpay_item_id, Known, LinkInv
    <3>. QED
      BY <3>1, <3>2
  <2>6. ASSUME NEW u \in Threads, Linking(tasks'[u]) PROVE FALSE
    <3>1. tasks'[t] = TakesNext(f, f.key[2]) /\ f \in Tasks
      BY <1>2, <2>1 DEF WriteRow, GoesOn, Inv, TablesOK, Linking
    <3>2. tasks'[t].at = "next"
      BY <3>1 DEF TakesNext, Tasks, Enriching, Deciding, Syncing, Pushing
    <3>3. u # t /\ tasks'[u] = tasks[u]
      BY <2>1, <2>6, <3>2, TaskSteps DEF Linking
    <3>. QED
      BY <2>1, <2>6, <3>3, LinksAlone
  <2>. QED
    BY <2>5, <2>6 DEF LinkInv, Linking
<1>3. ASSUME NEW t \in Threads, Step(t), ~WriteRow(t) PROVE LinkInv'
  <2>1. LinksKept
    BY <1>3, LinksStay
  <2>2. ASSUME NEW u \in Threads, Linking(tasks'[u])
        PROVE  /\ tasks'[u].row.item \in ItemIds
               /\ find_by_razorpay_item_id(tasks'[u].row.item) \subseteq {tasks'[u].key[1]}
    <3>1. CASE tasks'[u] = tasks[u]
      BY <2>2, <3>1 DEF LinkInv
    <3>2. CASE tasks'[u] # tasks[u]
      BY <1>3, <2>2, <3>2, TaskSteps, LinkReads
    <3>. QED
      BY <3>1, <3>2
  <2>3. ASSUME NEW u \in Threads, Linking(tasks'[u])
        PROVE  find_by_razorpay_item_id(tasks[u].row.item)' \subseteq {tasks'[u].key[1]}
    <3>1. PICK i : i = tasks'[u].row.item
      OBVIOUS
    <3>2. find_by_razorpay_item_id(i)' = find_by_razorpay_item_id(i)
      BY <2>1 DEF LinksKept
    <3>. QED
      BY <2>2, <2>3, <3>1, <3>2 DEF find_by_razorpay_item_id
  <2>. QED
    BY <2>1, <2>2, <2>3 DEF LinkInv, LinksKept, Linking
<1>. QED
  BY <1>1, <1>2, <1>3, Steps

\* While one process synchronises, no two products stand for one Razorpay
\* item, wherever it is stopped and whatever the merchant approves meanwhile:
\* sync takes the product an item is linked to, and push links a new item only.
THEOREM OneProductStands ==
    ASSUME OneSyncer
    PROVE  Spec => []OneProductPerItem
<1>1. Init => LinkInv
  <2>. SUFFICES ASSUME Init PROVE LinkInv
    OBVIOUS
  <2>1. \A p \in Products : products[p] # None => products[p].item = None
    BY DEF Init, seed
  <2>. QED
    BY <2>1, NoneIsNoItem DEF Init, LinkInv, Linking, find_by_razorpay_item_id, Known
<1>2. Inv /\ ServedInv /\ LinkInv /\ [Next]_vars => LinkInv'
  BY LinkNext
<1>3. LinkInv => OneProductPerItem
  <2>. SUFFICES ASSUME LinkInv, NEW i \in ItemIds
                PROVE  Cardinality(find_by_razorpay_item_id(i)) <= 1
    BY DEF OneProductPerItem
  <2>. PICK S : S = find_by_razorpay_item_id(i)
    OBVIOUS
  <2>1. CASE S = {}
    BY <2>1, FS_EmptySet
  <2>2. CASE S # {}
    <3>1. PICK p : p \in S
      BY <2>2
    <3>2. S = {p}
      BY <3>1 DEF LinkInv
    <3>3. Cardinality({p}) = 1
      BY FS_Singleton, Zenon
    <3>. QED
      BY <3>2, <3>3
  <2>. QED
    BY <2>1, <2>2
<1>. QED
  BY <1>1, <1>2, <1>3, ServedAlways, PTL DEF Spec
-----------------------------------------------------------------------------
(* Offers.                                                                 *)

\* What the model check of the offers hands to the gate is a gate input.
LEMMA GateInputsAre ==
    ASSUME TablesOK, NEW gi \in GateInputs
    PROVE  GateInput(gi) /\ Len(gi.items) # MAX_LINES
<1>1. PICK p \in Known, cs \in {{}, {"fitness"}}, blocked \in {{}, Seeded}, today \in {0, 3} :
        gi = [items |-> <<[id |-> p, quantity |-> 1]>>, agent |-> "active",
              mandate |-> [status |-> "active", startsAt |-> 0, expiresAt |-> 9,
                           currency |-> "INR", perTxn |-> 3, daily |-> 4, total |-> 5,
                           categories |-> cs],
              policy |-> [inStockOnly |-> TRUE, blocked |-> blocked, allowed |-> allowed,
                          maxQty |-> 1, maxOrder |-> 3, reviewAbove |-> 2],
              catalog |-> snapshot, now |-> 1, spentToday |-> today, spentTotal |-> 2,
              status |-> None, mode |-> "preview", approved |-> FALSE]
  BY DEF GateInputs
<1>2. \A q \in DOMAIN snapshot : snapshot[q].price \in Int
  <2>1. \A q \in Known : products[q] \in Product
    BY DEF TablesOK, Known
  <2>2. \A q \in Known : products[q].price \in Int
    <3>1. \A row \in Product : row.price \in Prices
      BY DEF Product
    <3>2. \A row \in Product : row.price \in Int
      <4>1. \A x \in Prices : x \in Int
        BY PricesAreWhole
      <4> QED BY <3>1, <4>1, Zenon
    <3> QED BY <2>1, <3>2
  <2> QED BY <2>2 DEF snapshot
<1>3. gi.items = <<[id |-> p, quantity |-> 1]>> /\ gi.items \in Seq([id : {p}, quantity : Int])
      /\ Len(gi.items) = 1
  BY <1>1
<1>4. gi = [items |-> gi.items, agent |-> gi.agent, mandate |-> gi.mandate,
            policy |-> gi.policy, catalog |-> gi.catalog, now |-> gi.now,
            spentToday |-> gi.spentToday, spentTotal |-> gi.spentTotal,
            status |-> gi.status, mode |-> gi.mode, approved |-> gi.approved]
  BY <1>1, Zenon
<1>5. gi.catalog = snapshot /\ gi.spentToday = today /\ gi.spentTotal = 2
      /\ gi.policy.maxOrder = 3 /\ gi.policy.maxQty = 1
      /\ gi.mandate.perTxn = 3 /\ gi.mandate.daily = 4 /\ gi.mandate.total = 5
  BY <1>1
<1>6. gi.spentToday \in Int
  BY <1>5
<1> QED
  BY <1>2, <1>3, <1>4, <1>5, <1>6 DEF GateInput, MAX_LINES

\* Whatever the catalog has become while commands overlap, the gate does not
\* deny a cart that takes up an offer.
THEOREM OffersAlwaysFit == Spec => []OffersFit
<1>1. Inv => OffersFit
  <2> SUFFICES ASSUME Inv, NEW gi \in GateInputs, NEW picked \in offers(gi), NEW p \in picked
               PROVE  Verdict(Accepted(gi, p)) \in {"ALLOW", "REVIEW"}
    BY DEF OffersFit
  <2>1. GateInput(gi) /\ Len(gi.items) # MAX_LINES
    BY GateInputsAre DEF Inv
  <2>2. Failed(Accepted(gi, p)) = {} \/ Failed(Accepted(gi, p)) = {15}
    BY <2>1, OffersAreWithinTheRules
  <2> QED
    BY <2>2, VerdictIs
<1> QED
  BY InitInv, NextInv, <1>1, PTL DEF Spec
=============================================================================
