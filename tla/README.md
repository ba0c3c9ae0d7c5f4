# DwarPal in TLA+

DwarPal is a merchant's gateway for AI buying agents: an agent sends a cart, a
deterministic policy gate judges it, the service reserves the amount on the
agent's spend mandate, creates a Razorpay Payment Link and follows the payment
until the order is completed or given up. This directory models the sessions and
the money they move, the audit ledger, the catalog, the front door of the
server and the demo buyer, checks them with TLC on small instances and
proves 38 results about them with TLAPS, for every instance.

## The system

| Component | State it keeps | Operations | What makes it correct |
|---|---|---|---|
| Checkout sessions, `sessions.py` | tables `sessions`, `payments`, `reviews`, `refunds` | create, update, approve, decline, complete, reconcile, cancel, refund | an order is completed only if it was paid; budget is held exactly while a payment is pending; terminal states are final; a link needs ALLOW, a reservation and, above the threshold, an approved cart |
| Spend mandates, `mandates.py` | tables `mandates`, `reservations` | create, revoke, reserve, commit, release, spent | the caps hold for reserved and committed money; one open reservation per session; committed money is final |
| Policy gate, `gate.py` | none | `evaluate`, `evaluate_refund` | ALLOW implies every rule; the first failing rule decides |
| Payments port, `payments.py`, `razorpay_client.py` | at the provider: links, payments, refunds | create_link, poll, cancel_link, refund | what is polled for a link is a payment of its session |
| API and reconciler, `api.py`, `cli.py` | `webhook_events` | one handler per request; a thread that reconciles every pending session every 3 s | no event is lost for good; every pending session is polled again |
| Agents and signing, `agents.py`, `signing.py` | `agents`, `agent_nonces` | register, authenticate, remember and prune nonces, revoke | a signed request is accepted again only after a long wait for its body |
| Ledger and replay, `ledger.py`, `replay.py` | `ledger` | append, verify, anchor, receipt, replay | an edited or cut record is noticed; a decision is recorded with the input it was taken on |
| Catalog and enrichment, `catalog.py`, `enrichment.py` | `products`, `enrichments` | upsert, propose, approve, reject, sync | only an approved proposal reaches the catalog, once |
| Cross-sell, `crosssell.py` | none | headroom, candidates, pick | an offer fits under every cap |
| Policy, `policy.py` | `policy` | get, set | only a valid document is in force |
| Buyer agent, `buyer/` | its own run | plan, create, re-plan, complete, wait | its loop is bounded |

The components call each other inside one process. Synchronous endpoints run in
a pool of threads, asynchronous ones (create, update, webhook) on the event
loop, the reconciler in a thread of its own, and command-line tools in other
processes on the same SQLite file. `db.tx` holds a lock for the length of one
transaction and for nothing longer, so a handler can be overtaken between any
two of its transactions and during every call to the provider. Nothing resumes
a handler after the process has died: what a restart finds is what the tables
say.

What is hard here: decisions taken on rows that have changed by the time they
are acted upon (complete, refund, cancel, retry), the same capture seen by two
handlers, the customer paying while a link is being cancelled, provider calls
that fail half way through a handler, a crash between two transactions, and
prices, policies and mandates that change during an order. `PROJECT.json` lists
each of these at its line with the properties that watch it.

## Modules

| Module | Models | State |
|---|---|---|
| `Absent` | Python's None and SQL's null | |
| `Gate` | the fifteen purchase rules and five refund rules of `gate.py` as operators over the gate's input record | none |
| `MandateStore` | `mandates.py` for one agent; one action per transaction | `active`, `issued`, `reservations`, `refunds`, `today` |
| `PaymentLinks` | Razorpay as the adapter uses it, the customer and link expiry | `links` |
| `SessionService` | `sessions.py`, composed of the three above | `sessions`, `payments`, `reviews`, `shop`, `thr`, `crashes` |
| `OrderPromise` | what a merchant is promised of orders and budgets, with none of the machinery | `orders` |
| `SessionProperties` | types, invariants, action properties, the refinement of `OrderPromise`, fairness and liveness | |
| `Ledger` | the hash chain of `ledger.py`, appended to by several processes and edited by hand | `chain`, `open`, `anchor`, `edits` |
| `Audit` | how a decision reaches the ledger (`sessions.py`), replay and receipt; uses `Gate` and `Ledger` | `rows`, `lastInput`, `thr`, `lost` |
| `Catalog` | the products table of `catalog.py` and the Razorpay items | `products`, `items` |
| `Enrichment` | `enrichment.py` and the item synchronisation of `razorpay_client.py` over `Catalog` | `enrichments`, `allowed`, `tasks` |
| `CrossSell` | `crosssell.py` as operators over the gate's input | none |
| `Requests` | the front door: `api.py`, `agents.py`, `signing.py`, the key lookup of create, the webhook | `agents`, `nonces`, `sessions`, `webhook_events`, `handling`, `wire` |
| `Buyer` | `buyer/agent.py` and `buyer/planner.py`, one run against a store | `store`, `stage`, `queue`, `owed`, `session`, ... |
| `MCSessionService`, `MCAudit`, `MCCatalog`, `MCRequests`, `MCBuyer` | the instances TLC checks | |
| `SessionOverlapProofs` | proofs about `SessionService` whatever overlaps and crashes: types, payments, reservations, commits, refund rows | |
| `SessionSoloProofs` | proofs while no two handlers work on one session: budget and status, links | |
| `SessionGateProofs` | proofs of what the gate's decisions guarantee: caps, approvals, amounts, refunds; at its end that `SessionService` implements `OrderPromise` | |
| `GateProofs` | proofs about sums of carts, the gate's rules and the offers of `CrossSell` | |
| `EnrichmentProofs`, `RequestProofs`, `AuditProofs`, `BuyerProofs` | proofs about `Enrichment`, `Requests`, `Audit` with `Ledger`, and `Buyer` | |

Variables named in a module as history (`written`, `forged`, `approvals`,
`accepted`, `answers`, `wire`) are read by properties and environment only.

### Sessions

`SessionService` runs every handler in a thread `t`: `thr[t]` holds the place
the thread has reached, the row it read and the decision or refund it carries.
One action is one snapshot of reads with the decision taken on it, one provider
call, or one transaction. `CompleteLoad` for instance is `sessions.py:372-386`,
`ReserveStep` 399, `FirstLink` 402, `SetPending` 407; `ReconcileLoad`,
`PollStep`, `RecordPayment`, `FinishPaid`, `CommitStep` and `SetCompleted` walk
through `reconcile` and `_finish_paid`, and `FailedAttempt`, `CancelQuietly`,
`SecondLink` and `SetRetried` through `_after_failed_attempt`. Where the code
raises (an open reservation, a payment already on record, no open reservation
left, a refund reference taken) an action named `...Raises` ends the handler.
A handler that answers with an error or a replay and changes nothing is no step.

- Ledger events, messages and links' URLs are written and never read back by
  these handlers; `Audit` has the ledger.
- The catalog is read twice for a decision, for the match with the merchant's
  approval (`sessions.py:147`, from `:170`) and for the gate (`:171`). Prices may
  change in between, so `Decide` takes the shop of the first read as `seen`, any
  of them. Its other reads (clock, mandate, sums, review, policy) are one snapshot,
  and so are the poll and the look for payments already recorded.
- The adapter turns every exception, a timeout included, into one error
  (`razorpay_client.py:62-65`, `:95-112`). So a call that fails was refused and
  changed nothing, or was carried out and its answer is lost: `CancelLinkLost`,
  `RefundLost`, and both outcomes of `TryCancel`. A link whose creation was not
  answered is left out: nobody learns its address.
- A table is a set of rows with an id; a released reservation, which no query
  reads again, leaves its table. A sum of amounts is the number of paise.
- Time is the UTC day. That a link is past its time is a flag of its own.
- One agent, always active. A revoked agent is refused by G01 as an agent
  without mandate is by G02; agents do not share mandates.
- The catalog and the policy change together as one `shop`, between any two
  steps.

`OrderPromise` is the abstract order: absent, open, paying, completed or canceled,
with money that is free, held or spent. `OrderOf` in `SessionProperties` reads it
off a session, its reservation and its captures, and `KeepsPromise` says that
`SessionService` implements it, as long as no two handlers work on one session or
reserve on one mandate: an order draws money within its budget's total before it
asks for a payment, completes only after exactly that money was paid, and is
canceled only with nothing held. The link, the retry, the poll, the review and the
failed calls are stutters or one of those steps.

### Ledger and audit

A hash is the pair of what is hashed, so equal hashes have equal inputs. An
append is two steps, the read of the head and the insert, because processes
share the file; SQLite refuses the insert when another process has committed in
between, and threads of one process take turns by the lock in `db.py`. `Audit`
puts `_decide`, the stored row and two of the appended events in their order
for create, update, complete and the retry of a failed payment, with the shared
attribute `_last_input`. A retry logs its decision and stores none
(`sessions.py:502`, `:489`, `:511`); denied, or without a link, it abandons the
session. The other events are appended alike. A recorded decision has its verdict,
rule, checks and total, and replay compares them all; the reason is the detail
of the last check or their number, and follows. `Outcomes` says which statuses a
recorded decision leads to.

Edits by hand are those the documents name (`ledger tamper`, modification,
deletion, insertion of a copy, reordering, a cut tail) and a rewrite that
recomputes the hashes.

### Catalog

A command reads a list, works through it and writes row by row, with a slow call
in between; `tasks[t]` holds what it has read. Prices and Razorpay items change
at any time. A product's tags and texts travel with its category.

### Requests

Handlers are coroutines that can be overtaken where they await a body, for any
time: nothing in `api.py:129` or in the server's start bounds that wait. The wire
never loses a request: `Authenticate` may take any request that was ever sent,
any number of times and in any order, and a request that is never taken is a lost
one. `remember_nonce` and the pruning after it are two transactions that no other
handler of the process can come between, and one step here; a kill between
them only leaves old nonces in the table.

### Buyer

Each call to the model or to the store is one step. A call to the store may be
answered, refused, or done and answered with an error. The store moves between
calls as merchant, customer and reconciler act. An exception of `httpx` (no
answer at all) is not caught by `_execute` and ends the program without a
report; it is left out. The ids of the model's tool calls are assumed unique.

`Mutant:` comments mark operators that no behaviour of the model uses: each is
the definition below it with a plausible slip, and `PROJECT.json` says which
property notices it.

## Runs

| Run | Instance | Checks | States |
|---|---|---|---|
| `budget` | 1 thread, 2 sessions, 1 mandate (per order 2, per day 2, in all 3), carts of 1 and 2, 2 days, 4 links | `CapsHold`, `ReservedWhilePending`, `PaymentsAreOwn`, `OneLiveLink`, `KeepsPromise` | 697,828 |
| `recovery` | 1 thread, 1 session, failing payments and provider calls, fairness | `TypeOK`, `RecordedCaptureCompletes`, `PendingLinkIsCovered`, `CanceledHoldsNothing`, `LinkNeedsReservation`, `KeepsPromise`, `PendingEnds`, `ReservationsSettle` | 18,364 |
| `merchant` | 1 thread, 2 mandates, carts of 1 and 3, prices 1 and 2, threshold 1, 2 refund references and amounts, 3 days, failing calls, 1 paisa refunded without an answer | `LinkNeedsApproval`, `RefundsWithinCapture`, `RefundsRecorded` | 2,546,072 |
| `overlap` | 2 threads that serve every handler but a review's, 1 session, 2 reservations, 2 references, 1 crash | `CompletedWasPaid`, `AtMostOneOpen`, `RefundRowsBacked`, `CommitsBackedByCaptures`, `CommittedIsFinal` | 1,268,120 |
| `audit` | 1 server thread, 1 tool, 1 session, 5 events, 2 edits of up to 3 rows, 1 kill | `ChainVerifies`, `EditsShow`, `AnchorProtects`, `ReplayIsIdentical`, `ReceiptMatchesRow` | 1,457,597 |
| `catalog` | 2 products, 1 item, 2 proposals, 2 policies, one process for the catalog and one for the merchant | `TypeOK`, `FeedIsApproved`, `OnePending`, `OneProductPerItem`, `OffersFit`, `DecisionIsFinal` | 160,304 |
| `requests` | 2 agents, 1 nonce and 1 key each, 2 bodies, 2 sessions, 1 event, 2 coroutines, skew 2, clocks 1 ahead, time to 5 | `AcceptedAgainOnlyLate`, `OneSessionPerKey`, `AnswersMatch`, `ReceivedOnce` | 1,455,289 |
| `buyer` | 2 sessions, 3 steps, 2 model calls of up to 2 tool calls, 2 polls, fairness | `TypeOK`, `NoCallForgotten`, `ReportIsTrue`, `RunEnds` | 384,676 |

Every run says `CHECK_DEADLOCK FALSE`: ids, links, days, turns and attempts run
out, and a model in which everything is settled has nothing left to do. The
bounds and why they are enough:

- Two sessions are what it takes to compete for a cap, one open and one
  committed or both open; caps of 2, 2 and 3 leave room for either order but
  not for both on one day, and for two small ones but not for two large ones in
  all.
- `MaxLinks` is `MAX_ATTEMPTS` links per session; in `overlap` the two handlers
  may both want one, and whoever finds no id left does not go on. `MaxFailures`
  1: the handlers ask whether a failed payment is new, never how many there are.
- Two threads interleave every pair of handlers; three would be needed only for
  a property that three parties have to violate.
- One crash at any point; after it the tables are as any number of crashes
  could leave them for the handlers that follow, which start from the tables.
- Five events let one session be created (two), completed and its payment tried
  again, with one event of the tool in between, or be created and updated. A
  ledger is edited while it has up to three rows, a first, a middle and a last
  one, and grows to no more after that; two edits are a change and its cover-up.
- `MaxUnheard` 1: one refund without an answer is enough to make what the provider
  paid back differ from the record.
- `catalog` has every policy word twice, once with a capital letter, because
  proposals are in small letters and policies as typed; the offers are evaluated
  in every reached catalog over carts of one article, with money spent today or
  not and for mandates with and without categories.
- Time to 5 with a skew of 2 lets a nonce be stored at 0, pruned at 5 and accepted
  from a handler that has waited since: the second acceptance
  `AcceptedAgainOnlyLate` speaks of happens in the run.
- Three steps of the buyer let it create, complete and look; two calls in one
  reply let a call wait in the queue.
- The symmetric sets (sessions, reservations, references, mandates, threads,
  proposals, agents, bodies, coroutines) are never compared with a fixed element; the runs with
  liveness properties use no symmetry.

`recovery` assumes `Fairness`: a handler that has begun goes on (the scheduler
runs every thread), the reconciler comes back to a pending session again and
again (`cli.py:307-316` polls every three seconds and keeps going after an
exception), a poll that is tried for ever succeeds some time, and the expiry
time of a link passes. Nothing is assumed of the customer, of other provider
calls or of the merchant. It has no crashes, since no code resumes a handler,
and a reservation a crash leaves behind is never released. `buyer` assumes that
the agent goes on, which the timeouts of its calls justify, and nothing of its
deadline: with a fake provider sleeping does nothing, and the comment at
`buyer/agent.py:169-170` gives the bound on polls as the reason that a run ends.

### Where the code and the documents differ

Each of these runs checks one sentence of the documentation and TLC shows a
behaviour that contradicts it.

| Run | Property | Behaviour |
|---|---|---|
| `v_late_capture` | `PaidIsNotCanceled` | one thread: the customer pays after the poll; the refused cancel in `_abandon` is ignored |
| `v_price` | `PendingLinkIsCovered` | one thread: the retry asks for the new price, the reservation keeps the old one |
| `v_replay` | `ReplayIsIdentical` | create and complete overlap: the input of one is recorded with the decision of the other |
| `v_sync` | `SyncPreserves` | a sync overwrites the category that was approved after it read the row |

The same models show more, in other instances or in what the properties had to
leave out:

- `docs/architecture.md:101` and the table of rules in the README promise that an
  order above the threshold passes when "the merchant approved this exact total".
  A price that changes between the two reads of the catalog (`sessions.py:147`,
  `:171`) lets the old total match and the gate allow the new one.
  `LinkNeedsApproval` is therefore about the cart, at a price the shop has had;
  with steady prices it is the exact total (`ApprovedExactly`).
- A refund that Razorpay made and whose answer was lost is reported as an error
  and recorded nowhere (`razorpay_client.py:106-111`, `sessions.py:551-555`).
  Its amount is offered again, under the same reference too.
  `RefundsWithinCapture` and `RefundsRecorded` are about the refunds the provider
  confirmed.
- `api.py:64`, `README.md:107-109` and `docs/architecture.md:123` say that a nonce
  is accepted once. Nonces are pruned after `2 * MAX_SKEW_S`, and a request whose
  clock was read earlier and whose body comes later than that is accepted again
  (`api.py:124-134`). `AcceptedAgainOnlyLate` says that nothing else is.
- After a retry the receipt shows the retry's decision and the row that of the
  complete (`sessions.py:502`, `:489`, `:511`), with one thread and no failure.
  `ReceiptMatchesRow` asks that the receipt shows what led to the status, and
  compares the row with the last decision that was none of a retry.
- With two threads on two sessions, `CapsHold` fails: two checkouts decide
  before either reserves (`sessions.py:385`, `:399`). `RefundsWithinCapture` fails
  in the same way (`:528`, `:550`). `docs/architecture.md:186-187` says request
  threads and the reconciler "never interleave writes", which holds for single
  transactions and not for handlers. For the same reason `ReservedWhilePending`,
  `CanceledHoldsNothing`, `LinkNeedsReservation` and `KeepsPromise` are checked
  one request at a time: a cancel that overlaps a complete of the same session
  breaks them. The proofs below say which overlaps do no harm.
- When the mandate is replaced between preview and complete, a refund is booked
  on the mandate of the row, set by the preview, while the reservation was made
  on the one active at complete (`sessions.py:560`, `:399`).
- `OneLiveLink` holds while the provider answers; a call that fails to cancel the
  old link is logged and ignored, and both links stay payable. It exempts
  completed orders: a capture of the first link that arrives between poll and
  cancel completes the order and leaves the fresh link payable, and no document
  says what should become of it.
- Two processes that enrich at once can leave two proposals for one product, and
  two merchants can decide one proposal twice: `_has_pending` and the status are
  read outside the transaction that writes. `OnePending` and `DecisionIsFinal` are
  checked with one process on each side.
- `FeedIsApproved` says that a human approved the category for that product at
  some time. A stale row may bring an earlier approved category back (`v_sync`).
- `OffersFit` is about one offer. Two offers taken up together may exceed a cap;
  the gate then denies the cart.
- `ReceiptMatchesRow` needs every append to succeed: the handlers store the row
  and append afterwards, so an append that raises leaves a row no event explains.

## Proofs

Every passing run's invariant and action property is the conclusion of a theorem;
`PROJECT.json` lists them. None of the properties is inductive as the runs state
it except the types, and each section below says what the inductive invariant
adds. The three session modules build on each other in the order given.

### Any overlap, any crash (`SessionOverlapProofs`)

These hold for every number of threads, kills, sessions, mandates and links,
with failing calls and changing prices.

- `TypeCorrect` (`TypeOK`). Beside the types of the tables it says, for each place
  a handler can be at, what the handler carries there: a reservation or a link
  follows only an ALLOW on an existing mandate, a retry only an attempt below
  `MAX_ATTEMPTS`, a poll only a link that exists. One lemma per action; `OneFrame`
  and `FrameMoves` carry the frames of the other threads over the step. At its
  end the steps are sorted by the part of the state they write (`BeginKinds`,
  `ContinueKinds`, `NextKinds`), which every later proof starts from.
- `PaidFirst` (`CompletedWasPaid`). `PaidInv` adds what a handler between the poll
  and the end of the order already knows to be on record.
- `OwnPaymentsOnly` (`PaymentsAreOwn`). `OwnInv` follows the link from the call
  that creates it to the row, to the poll and to the payments to be recorded.
- `OneReservation` (`AtMostOneOpen`) and `CommittedForGood` (`CommittedIsFinal`):
  `reserve` looks for an open row in the transaction that inserts one, and
  `Commit` and `Release` touch open rows only.
- `CommitsAreBacked` (`CommitsBackedByCaptures`). The handler that puts a capture
  on record is the only one that goes on to commit for it. `BackedInv` gives it a
  claim from that insert to the commit: committed rows and claims together never
  outnumber the captures. That a capture is inserted once, by whoever is first,
  is what the unique key of `payments` is for.
- `RefundsAreBacked` (`RefundRowsBacked`). `RepaidInv`: what is recorded and what
  handlers still owe the record never exceed what the provider paid back.

### No two handlers on one session (`SessionSoloProofs`)

The handlers take no lock on a session, and two that meet on one break what
follows (see above). The theorems of this section therefore have the form
`Spec /\ []Apart => ...`: `Apart` says that no two threads work on one session.
Any number of threads may work on different sessions and overlap in every way
on what these share, the tables, the mandates, the provider and the shop. With
one thread, as in the runs of these properties, `Apart` always holds. The theorems also assume
`NeverKilled` (no crash): a kill between two transactions leaves what they
exclude, a reservation whose payment was never asked for.

The proofs show one thing more than those for a single thread would: that a step
of one handler leaves the rows, captures, links and the status of every other
session alone (`QuietKeeps`, `BusyStays`), although `commit` and `release` select
their row by session from one table and links are numbered in one sequence.

- `BudgetFollowsPayment` (`ReservedWhilePending`), `CancelGivesBack`
  (`CanceledHoldsNothing`) and `LinkFollowsReservation` (`LinkNeedsReservation`).
  The properties speak of sessions at rest. `SoloInv` says what a session at rest
  is (untouched, paying, over or finished, each a status with a state of its
  rows, captures and links) and, for each place of a handler, how far its session
  has got.
- `OneLinkToPay` (`OneLiveLink`) assumes `CallsAnswer` too: a call that fails to
  cancel leaves two links payable. `LiveInv` follows the link that was created
  and is not in its row yet.

### What the gate decided (`SessionGateProofs`)

- `CapsAreKept` (`CapsHold`) is `Spec /\ []OneReserver => []CapsHold`. `OneReserver`
  says that no two handlers are between complete's decision and its reservation
  (`sessions.py:385`, `:399`) on one mandate at the same time. That window is all
  that has to be closed: beyond it handlers may overlap anywhere, also on one
  session, be killed, fail, and meet new mandates and changing prices. `CapInv`
  adds that a decision on its way to `reserve` still fits under the three caps,
  that ids of rows are unique, and that no row is dated in the future, or the
  next day would begin with money on it. `FitsSettles` and `FitsElsewhere` say
  why other handlers take no room from such a decision: commit, release and
  refund only make the sums smaller. `EvaluateAllows` is the fact about the gate
  it rests on: an ALLOW respects the caps with the sums the service handed in.
- `ApprovedBeforeLink` (`LinkNeedsApproval`), from `[]Apart` and `OneThreshold`, with
  kills: the merchant does not lower the threshold between a decision and its
  link. `ApprovalInv` carries the approval from the decision to both calls that
  create a link. Prices may change between any two reads; what is approved is the
  cart at a price the shop has had. `ApprovedExactly` adds `SteadyPrices` and
  concludes that the link asks for the total of the last review.
- `LinksAreCovered` (`PendingLinkIsCovered`) and `CapturesComplete`
  (`RecordedCaptureCompletes`), from `[]Apart`, `NeverKilled` and `SteadyPrices`.
  `AmountInv`: reservation, links and the decision on its way all carry the price
  of the cart. `v_price` shows why prices have to stand still.
- `RefundsAreBounded` (`RefundsWithinCapture`) and `RefundsAreEntered`
  (`RefundsRecorded`), from `[]Apart` and `NeverKilled`. Calls may fail and answers may be
  lost. A refund is allowed against the balance on record; `RefundInv` says that
  this is what the provider confirmed but for the one refund that is still to be
  entered. What it paid back unheard is counted apart and bounded by nothing.

- `PromiseIsKept` (`KeepsPromise`) is the refinement, from `[]Apart` and
  `[]OneReserver`, with no kill, steady prices and no refunds (`NoRefunds`: a refund
  gives budget back, which `OrderPromise` does not speak of). `Shapes` says which
  order `OrderOf` reads off each state that is reached; with `OneRow`, that a
  session has at most one reservation in its life, each step is shown to be a
  step of one order or a stutter. `Apart` keeps an order one order;
  `OneReserver` is needed for the bound of `Hold`, which is about the sum of all
  orders on a budget and is `CapInv` with `DrawnIsHeld`.

### Ledger and audit (`AuditProofs`)

`WrittenChainVerifies` (`ChainVerifies`), `EditsAreDetected` (`EditsShow`) and
`AnchorSettles` (`AnchorProtects`) hold for any number of processes, threads,
events and edits. `LedgerInv` says that what `append` has read before its insert
is still the head when the insert succeeds, that each hash it wrote is that of
its row, and that edits which recompute no hash leave rows with hashes `append`
wrote. `SameHashSameRows` is the argument about chains: two chains that verify and
have one hash at a place agree up to there, for at the last place where they
would differ the row above holds the same hash of both.

`ReplayUndisturbed` (`ReplayIsIdentical`) is from `[]OneDecides`: no two threads are
between a decision and its log entry at once. That gap is where `_last_input`,
one attribute for all requests, can be replaced (`v_replay`); outside of it any
number of threads decide, store and append as they like. `ReplayInv` ties the
attribute to the decision in the gap.

`ReceiptsMatch` (`ReceiptMatchesRow`) is from `[]OneHandles`: no two threads handle one
session at once. Decisions on different sessions may overlap. `ReceiptInv` says
how much of a decision is in row and ledger while its handler is half way, for
each handler and place, and that threads of the server append one at a time
(`OneAppends`).

### Offers and catalog (`GateProofs`, `EnrichmentProofs`)

`CatalogTypes` (`TypeOK`) and `ApprovedFeed` (`FeedIsApproved`) hold for any number
of commands at once. A command may write back a row it has read long ago:
the invariant says of every row a command carries what the property says of the
catalog, and since approvals are never taken back, what was approved when the row
was read still is when it is written.

`OneProposalWaits` (`OnePending`) assumes `OneProposer`, `DecidedForGood`
(`DecisionIsFinal`) `OneDecider`, `OneProductStands` (`OneProductPerItem`)
`OneSyncer`: one process for that command, any number for the others.
`PendingInv`, `DecisionInv` and `LinkInv` say what the command knows between its
read and its write: that no proposal waits for the product it asks about, that
the proposal it decides is still pending, that no other product has taken the
item it links.

`OffersAreWithinTheRules` is about the gate alone: a cart it allows still passes
every rule with an offer added, except that the review threshold may ask for the
merchant and a full cart may have one line too many. `headroom` is what each cap
leaves once the cart is counted, so the proof needs that a cart with one more
article costs its price more (`OneMoreLine`). A cart's total is a sum over its
lines of any number, taken in the order `CHOOSE` gives. Since induction is out
of the provers' reach, such facts about sums are proved by the smallest
counterexample: a finite set that has subsets with a property has a smallest one
(`Smallest`), and removing an element from it contradicts that.
`OffersAlwaysFit` (`OffersFit`) then follows for every catalog the commands can
reach, since its rows and prices are of their types (`CatalogTypes`).

### Requests (`RequestProofs`)

- `NonceAcceptedAgainOnlyLate` (`AcceptedAgainOnlyLate`). A nonce names one request
  and so one timestamp, at most `Ahead` ahead of the time it was sent. A nonce that
  was accepted is in the table or was pruned by a handler that read a time more
  than `2 * MAX_SKEW` after it was stored. A handler that carries the
  same nonce read its own time within `MAX_SKEW` of the timestamp, so it has been
  waiting for more than `MAX_SKEW - Ahead`. Nothing is assumed of how long a body
  takes.
- `KeyNamesOneSession` (`OneSessionPerKey`) and `AnswersAreOwn` (`AnswersMatch`): the
  look for the key and the insert are not separated by an await. They rest on
  one server process: a second one on the same file has no unique index to stop
  it (`schema.sql:92` is a plain index).
- `EventHandledOnce` (`ReceivedOnce`): the event's insert is what lets its handling
  begin, and it succeeds once.

### Buyer (`BuyerProofs`)

`BuyerTypes` (`TypeOK`), `CallsAreAnswered` (`NoCallForgotten`) and `ReportsAreTrue`
(`ReportIsTrue`), for every model, store, and bound on steps, turns, calls and
polls. The ids of the calls that wait differ from one another and from the one
that is carried out (`IdsDiffer`), or an answer to one would count for another.
`BeliefInv` says what the agent's view of its session implies for the store after
it moved on: what is over stays as it is, what is pending is pending or over.

### Assumptions, and what is only model-checked

The modules assume: `None` is not an id, a row or a status; the last day is a
natural number; prices, caps and refund amounts are whole paise, because
`schema.sql` admits no others (a product's price at its line 8, `PricesAreWhole`
and `PriceAssumption`); a cart is a list of lines with whole quantities
(`CartAssumption`); "other" is a category; times are natural numbers.
The hypotheses of a theorem beyond that are the named ones of its section; the
run that checks its property is an instance of them.

`Apart`, `OneReserver`, `OneDecides`, `OneHandles` and those of the catalog
(`OneProposer`, `OneDecider`, `OneSyncer`) are hypotheses about the schedule and
not about the constants: the code has no lock that enforces them, as the
violations above show. What they mark out is the discipline under which the code
is correct.

Only model-checked: the liveness properties `PendingEnds`, `ReservationsSettle`
and `RunEnds`, since liveness under fairness is out of the prover's reach; the
library's induction theorems take an operator and are not used. The four `v_` runs are
counterexamples. `SyncPreserves` is contradicted by `v_sync`, `PaidIsNotCanceled`
by `v_late_capture`.

## Plan

1. Done: all modules above with their runs, and the theorems of the last section.
2. Done: the session theorems for any number of threads that keep off each other's
   sessions, in place of one thread, and the caps for any overlap outside the
   window between decision and reservation.
3. Open: `SyncPreserves` while no decision is taken; facts about `OrderPromise`
   alone, such as that it completes only what was paid; refunds as a step of it.

## Not modelled

The HTML and HTTP layers, demo, metrics, evaluation and export scripts,
configuration and start-up: they render, print or drive the handlers in one
thread, and keep no state of their own. Revocation of an agent is one write that
the gate's G01 reads; cryptography is taken to do what it says. Validation of
policies, mandates and request bodies refuses an input before any state changes.
`set_availability` of the catalog has no caller in the program. The scripted
planner of the tests replays a list. The replay of refund decisions and the rest
of a receipt read the ledger as those of purchases do.
