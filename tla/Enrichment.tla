----------------------------- MODULE Enrichment -----------------------------
(***************************************************************************)
(* How categories reach the catalog: dwarpal/enrichment.py, where a model  *)
(* proposes and the merchant approves, and the item synchronisation of     *)
(* dwarpal/razorpay_client.py.  These commands run in the dashboard's      *)
(* threads and in command-line processes on the same database, and each    *)
(* reads a list first and works through it, with a slow call to a model or *)
(* to Razorpay between a read and the write that relies on it.             *)
(*                                                                         *)
(* tasks[t] is the command thread t is in: the products still to do, and   *)
(* the row or the proposal it has read and not yet written.                *)
(***************************************************************************)
EXTENDS Catalog

CONSTANTS
    Threads,            \* threads and processes that run commands
    Serves,             \* Serves[t]: the commands that run in t
    ProposalIds,        \* ids of proposals; bounds how many are made
    Policies,           \* sets of categories the merchant's policy may allow
    Lower               \* Lower[c]: the name of category c in small letters

OtherCategory == "other"

ASSUME CategoriesAssumption ==
    /\ OtherCategory \in Categories
    /\ \A a \in Policies : a \subseteq Categories
    /\ Lower \in [Categories -> Categories]

VARIABLES
    enrichments,        \* enrichments[e]: the proposal e, None before it is made
    allowed,            \* the allowed_categories of the policy
    tasks,              \* tasks[t]: the command t is in, None between commands
    approvals           \* history: the categories a human has approved

vars == <<catalogVars, enrichments, allowed, tasks, approvals>>

Proposal == [product : Products, category : Categories,
             status : {"pending", "approved", "rejected"}]

Begins(t, f) == tasks[t] = None /\ f.op \in Serves[t] /\ tasks' = [tasks EXCEPT ![t] = f]
Doing(t, place) == tasks[t] # None /\ tasks[t].at = place
GoesOn(t, f) == tasks' = [tasks EXCEPT ![t] = f]
Ends(t) == tasks' = [tasks EXCEPT ![t] = None]

\* A command that goes through todo, with the policy or the rows it has read.
Round(op, todo, known) ==
    [op |-> op, at |-> "next", todo |-> todo, known |-> known, key |-> None, row |-> None]

\* The command is done with x and takes up another one.
TakesNext(f, x) == [f EXCEPT !.at = "next", !.todo = @ \ {x}, !.key = None, !.row = None]

OnlyTasks == UNCHANGED <<catalogVars, enrichments, allowed, approvals>>

\* The demo catalog is seeded raw or with categories the merchant chose.
Init ==
    /\ \E price \in Prices, inStock \in BOOLEAN, c \in Categories \cup {None} :
         /\ products = [p \in Products |->
                          IF p \in Seeded THEN seed(price, inStock, c) ELSE None]
         /\ approvals = IF c = None THEN {} ELSE Seeded \X {c}
    /\ items \in [ItemIds -> Prices \cup {None}]
    /\ enrichments = [e \in ProposalIds |-> None]
    /\ allowed \in Policies
    /\ tasks = [t \in Threads |-> None]

-----------------------------------------------------------------------------
(* propose_all: ask the model about every product without a category.      *)

Pending(p) == {e \in ProposalIds : enrichments[e] # None /\ enrichments[e].product = p
                                    /\ enrichments[e].status = "pending"}

ListUncategorised(t, all) ==
    /\ Begins(t, Round("enrich",
                       {p \in Known : all \/ products[p].category = None}, allowed))
    /\ OnlyTasks

\* Mutant: nobody looks for a proposal that is waiting.
AskAlways(t, p) ==
    LET f == tasks[t]
    IN  /\ Doing(t, "next") /\ f.op = "enrich" /\ p \in f.todo
        /\ GoesOn(t, [f EXCEPT !.at = "ask", !.key = p])
        /\ OnlyTasks

\* A product with a proposal that waits for the merchant is passed over.
AskOrSkip(t, p) ==
    LET f == tasks[t]
    IN  /\ Doing(t, "next") /\ f.op = "enrich" /\ p \in f.todo
        /\ GoesOn(t, IF Pending(p) # {} THEN TakesNext(f, p)
                                        ELSE [f EXCEPT !.at = "ask", !.key = p])
        /\ OnlyTasks

\* validate_proposal: one of the categories of the policy the command has
\* read, in small letters, or "other".
Propose(t, e, c) ==
    LET f == tasks[t]
    IN  /\ Doing(t, "ask")
        /\ c \in {Lower[a] : a \in f.known} \cup {OtherCategory}
        /\ enrichments[e] = None
        /\ enrichments' = [enrichments EXCEPT ![e] =
               [product |-> f.key, category |-> c, status |-> "pending"]]
        /\ GoesOn(t, TakesNext(f, f.key))
        /\ UNCHANGED <<catalogVars, allowed, approvals>>

\* The model has no answer, or one that does not validate.
ProposeNothing(t) ==
    /\ Doing(t, "ask")
    /\ GoesOn(t, TakesNext(tasks[t], tasks[t].key))
    /\ OnlyTasks

RoundEnds(t) ==
    /\ Doing(t, "next") /\ tasks[t].todo = {}
    /\ Ends(t)
    /\ OnlyTasks

-----------------------------------------------------------------------------
(* approve and reject.                                                     *)

\* Mutant: a proposal is decided whatever its status.
ReadAnyProposal(t, e, status) ==
    /\ enrichments[e] # None
    /\ Begins(t, [op |-> "decide", at |-> "write", todo |-> {}, known |-> {},
                  key |-> e, row |-> status])
    /\ OnlyTasks

ReadProposal(t, e, status) ==
    /\ enrichments[e] # None /\ enrichments[e].status = "pending"
    /\ Begins(t, [op |-> "decide", at |-> "write", todo |-> {}, known |-> {},
                  key |-> e, row |-> status])
    /\ OnlyTasks

\* Mutant: the category is set whatever the merchant has decided.
WriteAnyDecision(t) ==
    LET f == tasks[t]
        e == enrichments[f.key]
    IN  /\ Doing(t, "write") /\ f.op = "decide"
        /\ set_enrichment(e.product, e.category)
        /\ approvals' = IF f.row = "approved"
                        THEN approvals \cup {<<e.product, e.category>>} ELSE approvals
        /\ enrichments' = [enrichments EXCEPT ![f.key].status = f.row]
        /\ Ends(t)
        /\ UNCHANGED <<items, allowed>>

\* One transaction, which does not look at the status again.
WriteDecision(t) ==
    LET f == tasks[t]
        e == enrichments[f.key]
    IN  /\ Doing(t, "write") /\ f.op = "decide"
        /\ \/ /\ f.row = "approved"
              /\ set_enrichment(e.product, e.category)
              /\ approvals' = approvals \cup {<<e.product, e.category>>}
           \/ /\ f.row = "rejected"
              /\ UNCHANGED <<products, approvals>>
        /\ enrichments' = [enrichments EXCEPT ![f.key].status = f.row]
        /\ Ends(t)
        /\ UNCHANGED <<items, allowed>>

-----------------------------------------------------------------------------
(* sync_items: the prices of the Razorpay Items, item by item.             *)

\* Mutant: items the merchant has retired are taken along.
ListAllItems(t) ==
    /\ Begins(t, Round("sync", ItemIds, items))
    /\ OnlyTasks

\* The rows to do are items here, and known holds their prices.
ListItems(t) ==
    /\ Begins(t, Round("sync", {i \in ItemIds : items[i] # None}, items))
    /\ OnlyTasks

\* Mutant: every item is a new product.
ReadNew(t, i) ==
    LET f == tasks[t]
        new == [price |-> f.known[i], inStock |-> TRUE, category |-> None, item |-> i]
    IN  /\ Doing(t, "next") /\ f.op = "sync" /\ i \in f.todo
        /\ GoesOn(t, [f EXCEPT !.at = "write", !.key = <<ProductOf[i], i>>, !.row = new])
        /\ OnlyTasks

\* The linked product keeps its category and its stock; an item without one
\* becomes a new product.
ReadLinked(t, i) ==
    LET f == tasks[t]
        new == [price |-> f.known[i], inStock |-> TRUE, category |-> None, item |-> i]
    IN  /\ Doing(t, "next") /\ f.op = "sync" /\ i \in f.todo
        /\ \/ \E p \in find_by_razorpay_item_id(i) :
                GoesOn(t, [f EXCEPT !.at = "write", !.key = <<p, i>>,
                             !.row = [products[p] EXCEPT !.price = f.known[i]]])
           \/ find_by_razorpay_item_id(i) = {}
                /\ GoesOn(t, [f EXCEPT !.at = "write", !.key = <<ProductOf[i], i>>, !.row = new])
        /\ OnlyTasks

WriteRow(t) ==
    LET f == tasks[t]
    IN  /\ Doing(t, "write") /\ f.op \in {"sync", "push"}
        /\ upsert(f.key[1], f.row)
        /\ GoesOn(t, TakesNext(f, f.key[2]))
        /\ UNCHANGED <<items, enrichments, allowed, approvals>>

-----------------------------------------------------------------------------
(* push_items: an item for every product that has none.  The rows are the  *)
(* ones read before the first call to Razorpay.                            *)

ListUnlinked(t) ==
    /\ Begins(t, Round("push", {p \in Known : products[p].item = None}, products))
    /\ OnlyTasks

CreateItem(t, p, i) ==
    LET f == tasks[t]
    IN  /\ Doing(t, "next") /\ f.op = "push" /\ p \in f.todo
        /\ items[i] = None /\ find_by_razorpay_item_id(i) = {}
        /\ items' = [items EXCEPT ![i] = f.known[p].price]
        /\ GoesOn(t, [f EXCEPT !.at = "write", !.key = <<p, p>>,
                        !.row = [f.known[p] EXCEPT !.item = i]])
        /\ UNCHANGED <<products, enrichments, allowed, approvals>>

-----------------------------------------------------------------------------
(* The merchant and the end of a process.                                  *)

ChangeItem(i, price) ==
    /\ items[i] # price
    /\ items' = [items EXCEPT ![i] = price]
    /\ UNCHANGED <<products, enrichments, allowed, tasks, approvals>>

ChangePolicy ==
    /\ allowed' \in Policies \ {allowed}
    /\ UNCHANGED <<catalogVars, enrichments, tasks, approvals>>

\* A call to Razorpay raises or the process is killed.
Stops(t) ==
    /\ tasks[t] # None
    /\ Ends(t)
    /\ OnlyTasks

Next ==
    \/ \E t \in Threads :
         \/ \E all \in BOOLEAN : ListUncategorised(t, all)
         \/ \E p \in Products : AskOrSkip(t, p)
         \/ \E e \in ProposalIds, c \in Categories : Propose(t, e, c)
         \/ ProposeNothing(t) \/ RoundEnds(t)
         \/ \E e \in ProposalIds, status \in {"approved", "rejected"} :
              ReadProposal(t, e, status)
         \/ WriteDecision(t)
         \/ ListItems(t) \/ WriteRow(t)
         \/ \E i \in ItemIds : ReadLinked(t, i)
         \/ ListUnlinked(t)
         \/ \E p \in Products, i \in ItemIds : CreateItem(t, p, i)
         \/ Stops(t)
    \/ \E i \in ItemIds, price \in Prices \cup {None} : ChangeItem(i, price)
    \/ ChangePolicy

Spec == Init /\ [][Next]_vars

-----------------------------------------------------------------------------
(* Properties.                                                             *)

Enriching ==
    [op : {"enrich"}, at : {"next"}, todo : SUBSET Products, known : SUBSET Categories,
     key : {None}, row : {None}]
      \cup
    [op : {"enrich"}, at : {"ask"}, todo : SUBSET Products, known : SUBSET Categories,
     key : Products, row : {None}]

Deciding ==
    [op : {"decide"}, at : {"write"}, todo : {{}}, known : {{}},
     key : ProposalIds, row : {"approved", "rejected"}]

Syncing ==
    [op : {"sync"}, at : {"next"}, todo : SUBSET ItemIds,
     known : [ItemIds -> Prices \cup {None}], key : {None}, row : {None}]
      \cup
    [op : {"sync"}, at : {"write"}, todo : SUBSET ItemIds,
     known : [ItemIds -> Prices \cup {None}], key : Products \X ItemIds, row : Product]

Pushing ==
    [op : {"push"}, at : {"next"}, todo : SUBSET Products,
     known : [Products -> Product \cup {None}], key : {None}, row : {None}]
      \cup
    [op : {"push"}, at : {"write"}, todo : SUBSET Products,
     known : [Products -> Product \cup {None}], key : Products \X Products, row : Product]

Tasks == Enriching \cup Deciding \cup Syncing \cup Pushing

\* The model value None is none of the records.
ASSUME NoneIsNoRecord == None \notin Product \cup Proposal \cup Tasks \cup Prices

\* A command only writes about rows and prices it has read, and only decides
\* proposals that exist.
TypeOK ==
    /\ products \in [Products -> Product \cup {None}]
    /\ items \in [ItemIds -> Prices \cup {None}]
    /\ enrichments \in [ProposalIds -> Proposal \cup {None}]
    /\ allowed \in Policies
    /\ tasks \in [Threads -> Tasks \cup {None}]
    /\ approvals \subseteq Products \X Categories
    /\ \A t \in Threads : tasks[t] # None =>
         /\ tasks[t].op = "decide" => enrichments[tasks[t].key] # None
         /\ tasks[t].op \in {"sync", "push"} => \A x \in tasks[t].todo : tasks[t].known[x] # None

\* A row of product p that carries no category but an approved one.
RowIsApproved(p, row) ==
    (row # None /\ row.category # None) => <<p, row.category>> \in approvals

\* The same of the rows that commands have read and may write back.
CarriedIsApproved ==
    \A t \in Threads : tasks[t] # None =>
        /\ tasks[t].op = "push" => \A p \in Products : RowIsApproved(p, tasks[t].known[p])
        /\ (tasks[t].op \in {"sync", "push"} /\ tasks[t].at = "write") =>
               RowIsApproved(tasks[t].key[1], tasks[t].row)

\* A category in the catalog is one the merchant has approved for that very
\* product, or seeded, whatever commands overlap and wherever one stops.
\* (catalog.py: "whatever the feed shows is merchant-approved".)
FeedIsApproved == \A p \in Products : RowIsApproved(p, products[p])

\* A product never waits for two decisions.  (propose_all looks for a pending
\* proposal first; one command proposes at a time.)
OnePending == \A p \in Products : Cardinality(Pending(p)) <= 1

\* What the merchant has decided stays decided.  (_decide: "is already
\* approved"; one command decides at a time.)
DecisionIsFinal ==
    [][\A e \in ProposalIds :
         enrichments[e] # None /\ enrichments[e].status # "pending" =>
             enrichments'[e] = enrichments[e]]_vars

\* No two products stand for one Razorpay item, wherever a command stops: the
\* shop would sell one article at two prices.  (sync_items looks for the
\* linked product first; sync and push run one after the other.)
OneProductPerItem == \A i \in ItemIds : Cardinality(find_by_razorpay_item_id(i)) <= 1

\* A synchronisation keeps the category and the stock of a product it knows.
\* (sync_items: "Local enrichment and stock are preserved.")
SyncPreserves ==
    [][\A t \in Threads : tasks[t] # None /\ tasks[t].op = "sync" =>
         (WriteRow(t) => \A p \in Known : /\ products'[p].category = products[p].category
                                          /\ products'[p].inStock = products[p].inStock)]_vars
=============================================================================
