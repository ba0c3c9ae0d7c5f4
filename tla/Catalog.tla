------------------------------- MODULE Catalog ------------------------------
(***************************************************************************)
(* The products table of dwarpal/catalog.py and the Razorpay Items it is   *)
(* synchronised with.  A product is its price, its stock, the category the *)
(* merchant approved, None before, and the Razorpay item it is linked to.  *)
(* Titles, tags and the other texts travel with the category and are left  *)
(* out.                                                                    *)
(***************************************************************************)
EXTENDS Integers, FiniteSets, Absent

CONSTANTS
    Products,           \* product ids
    Seeded,             \* the products of the demo catalog
    ItemIds,            \* items of the Razorpay account
    ProductOf,          \* ProductOf[i]: the id a product gets that the sync adds
                        \* for item i
    Categories,         \* category names
    Prices              \* prices in paise

ASSUME NoneIsNoCategory == None \notin Categories
ASSUME PricesAreWhole == Prices \subseteq Nat
ASSUME NoneIsNoItem == None \notin ItemIds
ASSUME ProductsAssumption ==
    Seeded \subseteq Products /\ ProductOf \in [ItemIds -> Products \ Seeded]

VARIABLES
    products,           \* products[p]: the row of p, None before it exists
    items               \* items[i]: the price of active item i, else None

catalogVars == <<products, items>>

Product ==
    [price : Prices, inStock : BOOLEAN, category : Categories \cup {None},
     item : ItemIds \cup {None}]

Known == {p \in Products : products[p] # None}

\* The demo catalog, enriched or raw.
seed(price, inStock, category) ==
    [price |-> price, inStock |-> inStock, category |-> category, item |-> None]

upsert(p, row) == products' = [products EXCEPT ![p] = row]

set_enrichment(p, c) ==
    /\ p \in Known
    /\ products' = [products EXCEPT ![p].category = c]

find_by_razorpay_item_id(i) == {p \in Known : products[p].item = i}

\* What the gate sees of the catalog.
snapshot ==
    [p \in Known |-> [price |-> products[p].price, inStock |-> products[p].inStock,
                      category |-> products[p].category]]
=============================================================================
