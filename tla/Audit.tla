------------------------------- MODULE Audit --------------------------------
(***************************************************************************)
(* How a gate decision reaches the ledger: _decide, _log_decision and the  *)
(* handlers around them in dwarpal/sessions.py, and the offline replay of  *)
(* dwarpal/replay.py.  The threads of the server process share one service *)
(* object and with it the attribute _last_input, which a decision sets and *)
(* the log entry reads back later: after the offers are picked, the row is *)
(* stored and session.created is appended.                                 *)
(*                                                                         *)
(* A handler is its decision, the row it stores and two of its events, the *)
(* one that announces the request and the decision; the other events are   *)
(* appended alike.  Captures, cancels and declines decide nothing through  *)
(* the gate and are left out.                                              *)
(***************************************************************************)
EXTENDS Ledger, Gate

CONSTANTS
    Server, Tool,       \* the two processes: the server, a command-line tool
    Threads,            \* threads of the server
    SessionIds,         \* checkout sessions
    Situations,         \* Situations[x]: the rest of a gate input in situation
                        \* x, the status and the mode left out
    Serves              \* Serves[t]: the handlers that run in thread t

ASSUME ProcessAssumption == Writers = {Server, Tool} /\ Server # Tool

VARIABLES
    rows,               \* rows[s]: status, items, last decision, attempt of s
    lastInput,          \* the service's attribute _last_input
    thr,                \* thr[t]: what thread t is doing, None between requests
    lost                \* history: an append failed or the server was killed

auditVars == <<ledgerVars, rows, lastInput, thr, lost>>

Preview == "preview"
Authoritative == "authoritative"
Retry == "retry"
Modes == {Preview, Authoritative, Retry}

\* A payment that fails is tried again until its second link has failed.
MAX_ATTEMPTS == 2

\* An input names its situation; gate_input_from builds the gate's record.
Input(x, status, mode) == [x |-> x, status |-> status, mode |-> mode]

gate_input_from(inp) ==
    LET x == Situations[inp.x]
    IN  [agent |-> x.agent, mandate |-> x.mandate, policy |-> x.policy,
         catalog |-> x.catalog, items |-> x.items, spentToday |-> x.spentToday,
         spentTotal |-> x.spentTotal, now |-> x.now, approved |-> x.approved,
         status |-> inp.status, mode |-> inp.mode]

Inputs ==
    [x : DOMAIN Situations, mode : Modes,
     status : ExpectedStatus.preview \cup ExpectedStatus.retry]

\* What the detail of the i-th check states, besides the line that fails; the
\* reason of a decision is the detail of its last check or the number of them.
Detail(gi, i) ==
    CASE i = 1  -> gi.items
      [] i = 2  -> gi.agent
      [] i = 3  -> gi.mandate
      [] i = 4  -> Total(gi)
      [] i = 5  -> gi.policy.inStockOnly
      [] i = 6  -> gi.policy.blocked
      [] i = 7  -> gi.policy.allowed
      [] i = 8  -> gi.policy.maxQty
      [] i = 9  -> <<Total(gi), gi.policy.maxOrder>>
      [] i = 10 -> gi.mandate.categories
      [] i = 11 -> <<Total(gi), gi.mandate.perTxn>>
      [] i = 12 -> <<gi.spentToday, Total(gi), gi.mandate.daily>>
      [] i = 13 -> <<gi.spentTotal, Total(gi), gi.mandate.total>>
      [] i = 14 -> <<gi.status, gi.mode>>
      [] i = 15 -> <<Total(gi), gi.policy.reviewAbove, gi.approved>>

\* The checks that ran: up to the first that failed.
ChecksRun(gi) ==
    [i \in 1..(IF Failed(gi) = {} THEN 15 ELSE Min(Failed(gi))) |-> Detail(gi, i)]

\* What the gate says of each input, as the ledger records it and replay
\* compares it, and the lines it keeps.
DecisionOn ==
    [inp \in Inputs |->
       LET gi == gate_input_from(inp)
       IN  [verdict |-> Verdict(gi), rule |-> DecidingRule(gi),
            checks |-> ChecksRun(gi), total |-> Evaluate(gi).total]]

LinesOf == [inp \in Inputs |-> Evaluate(gate_input_from(inp)).items]

StatusAfter(d) ==
    CASE d.verdict = "ALLOW"  -> "ready_for_payment"
      [] d.verdict = "REVIEW" -> "requires_review"
      [] d.verdict = "DENY"   -> "not_ready_for_payment"

Editable(s) == rows[s] # None /\ rows[s].status \in ExpectedStatus.preview

\* What a thread holds between two steps of its handler; attempt is that of the
\* link the handler asks for.
Frame ==
    [op : {"create", "update", "complete", "retry"}, s : SessionIds,
     at : {"store", "announce", "announced", "log", "logged"}, attempt : 0..MAX_ATTEMPTS,
     items : {LinesOf[inp] : inp \in Inputs}, dec : {DecisionOn[inp] : inp \in Inputs}]

ModeOf(op) ==
    CASE op \in {"create", "update"} -> Preview
      [] op = "complete"             -> Authoritative
      [] op = "retry"                -> Retry

\* The model value None is none of them.
ASSUME NoneIsNoFrame == None \notin Frame

AuditInit ==
    /\ LedgerInit
    /\ rows = [s \in SessionIds |-> None]
    /\ lastInput = None
    /\ thr = [t \in Threads |-> None]
    /\ lost = FALSE

-----------------------------------------------------------------------------
(* The handlers.                                                           *)

\* Mutant: the attribute keeps the first input.
BeginsOnce(t, op, s, inp, place, attempt) ==
    /\ thr[t] = None /\ op \in Serves[t] /\ HasRoom
    /\ lastInput' = IF lastInput = None THEN inp ELSE lastInput
    /\ thr' = [thr EXCEPT ![t] = [op |-> op, s |-> s, at |-> place, attempt |-> attempt,
                                  items |-> LinesOf[inp],
                                  dec |-> DecisionOn[inp]]]
    /\ UNCHANGED <<ledgerVars, rows, lost>>

Begins(t, op, s, inp, place, attempt) ==
    /\ thr[t] = None /\ op \in Serves[t] /\ HasRoom
    /\ lastInput' = inp
    /\ thr' = [thr EXCEPT ![t] = [op |-> op, s |-> s, at |-> place, attempt |-> attempt,
                                  items |-> LinesOf[inp],
                                  dec |-> DecisionOn[inp]]]
    /\ UNCHANGED <<ledgerVars, rows, lost>>

DecideCreate(t, s, x) ==
    rows[s] = None /\ Begins(t, "create", s, Input(x, None, Preview), "store", 0)

DecideUpdate(t, s, x) ==
    /\ Editable(s)
    /\ Begins(t, "update", s, Input(x, rows[s].status, Preview), "store", 0)

DecideComplete(t, s, x) ==
    /\ rows[s] # None /\ rows[s].status = "ready_for_payment"
    /\ Situations[x].items = rows[s].items
    /\ Begins(t, "complete", s,
              Input(x, "ready_for_payment", Authoritative), "log", 1)

\* Mutant: a retry logs its decision only when there is to be a link.
DecideRetryQuietly(t, s, x) ==
    /\ rows[s] # None /\ rows[s].status = "payment_pending"
    /\ rows[s].attempt < MAX_ATTEMPTS
    /\ Situations[x].items = rows[s].items
    /\ LET inp == Input(x, "payment_pending", Retry)
       IN  Begins(t, "retry", s, inp,
                  IF DecisionOn[inp].verdict = "ALLOW" THEN "log" ELSE "store",
                  rows[s].attempt + 1)

\* _after_failed_attempt: the link of s has failed.
DecideRetry(t, s, x) ==
    /\ rows[s] # None /\ rows[s].status = "payment_pending"
    /\ rows[s].attempt < MAX_ATTEMPTS
    /\ Situations[x].items = rows[s].items
    /\ Begins(t, "retry", s,
              Input(x, "payment_pending", Retry), "log", rows[s].attempt + 1)

Moves(t, place) == thr' = [thr EXCEPT ![t].at = place]
Ends(t) == thr' = [thr EXCEPT ![t] = None]
AtStore(t, ops) == thr[t] # None /\ thr[t].at = "store" /\ thr[t].op \in ops

\* create and update store the outcome of the preview, and append then.
StoreCart(t) ==
    LET f == thr[t]
    IN  /\ AtStore(t, {"create", "update"})
        /\ rows' = [rows EXCEPT ![f.s] =
                      [status |-> StatusAfter(f.dec), items |-> f.items, dec |-> f.dec,
                       attempt |-> IF f.op = "create" THEN 0 ELSE @.attempt]]
        /\ Moves(t, "announce")
        /\ UNCHANGED <<ledgerVars, lastInput, lost>>

\* complete has appended before, and stores a refusal or, with the link, the
\* payment.
StoreComplete(t) ==
    LET f == thr[t]
        pays == f.dec.verdict = "ALLOW"
    IN  /\ AtStore(t, {"complete"})
        /\ rows' = [rows EXCEPT ![f.s] =
                      [@ EXCEPT !.status = IF pays THEN "payment_pending" ELSE StatusAfter(f.dec),
                                !.dec = f.dec,
                                !.attempt = IF pays THEN f.attempt ELSE rows[f.s].attempt]]
        /\ Ends(t)
        /\ UNCHANGED <<ledgerVars, lastInput, lost>>

\* A retry that is allowed stores its link.
StoreRetry(t) ==
    /\ AtStore(t, {"retry"}) /\ thr[t].dec.verdict = "ALLOW"
    /\ rows' = [rows EXCEPT ![thr[t].s].attempt = thr[t].attempt]
    /\ Ends(t)
    /\ UNCHANGED <<ledgerVars, lastInput, lost>>

\* A retry that is denied, or that the provider has no link for, abandons the
\* session.
Abandon(t) ==
    /\ AtStore(t, {"retry"})
    /\ rows' = [rows EXCEPT ![thr[t].s].status = "canceled"]
    /\ Ends(t)
    /\ UNCHANGED <<ledgerVars, lastInput, lost>>

\* The provider has no link for an allowed order: the row stays as it is.
NoLink(t) ==
    /\ AtStore(t, {"complete"}) /\ thr[t].dec.verdict = "ALLOW"
    /\ Ends(t)
    /\ UNCHANGED <<ledgerVars, rows, lastInput, lost>>

Event(type, s, amount, mode, dec, input) ==
    [type |-> type, s |-> s, amount |-> amount, mode |-> mode, dec |-> dec, input |-> input]

Appending(t) == thr[t] # None /\ thr[t].at \in {"announced", "logged"}

\* The threads share one connection and its lock.
BeginAppend(t, place, e) ==
    /\ thr[t] # None /\ thr[t].at = place
    /\ \A u \in Threads : ~Appending(u)
    /\ ReadHead(Server, e)
    /\ UNCHANGED <<rows, lastInput, lost>>

Announce(t) ==
    /\ BeginAppend(t, "announce",
           Event("session", thr[t].s, thr[t].dec.total, None, None, None))
    /\ Moves(t, "announced")

\* _log_decision: the decision of this thread with the input of whoever
\* decided last.
LogDecision(t) ==
    /\ BeginAppend(t, "log",
           Event("gate.decision", thr[t].s, thr[t].dec.total, ModeOf(thr[t].op), thr[t].dec,
                 lastInput))
    /\ Moves(t, "logged")

Appended(t) ==
    LET f == thr[t]
    IN  /\ Appending(t)
        /\ Insert(Server)
        /\ CASE f.at = "announced"  -> Moves(t, "log")
             [] f.at = "logged" /\ f.op \in {"complete", "retry"} -> Moves(t, "store")
             [] OTHER                -> Ends(t)
        /\ UNCHANGED <<rows, lastInput, lost>>

\* The append raises and takes the handler with it; what it stored stays.
AppendRaises(t) ==
    /\ Appending(t)
    /\ InsertFails(Server)
    /\ Ends(t)
    /\ lost' = TRUE
    /\ UNCHANGED <<rows, lastInput>>

-----------------------------------------------------------------------------
(* The rest of the world.                                                  *)

ToolStep ==
    /\ \/ ReadHead(Tool, Event("policy.updated", None, None, None, None, None))
       \/ Insert(Tool)
       \/ InsertFails(Tool)
    /\ UNCHANGED <<rows, lastInput, thr, lost>>

\* Nobody edits the file or verifies it in the middle of a request.
ByHand ==
    /\ \A t \in Threads : thr[t] = None
    /\ EditByHand \/ TakeAnchor
    /\ UNCHANGED <<rows, lastInput, thr, lost>>

\* Killed once, which leaves the tables as any number of times would.
Killed ==
    /\ ~lost
    /\ \E t \in Threads : thr[t] # None
    /\ lost' = TRUE
    /\ thr' = [t \in Threads |-> None]
    /\ open' = [open EXCEPT ![Server] = None]
    /\ lastInput' = None
    /\ UNCHANGED <<rows, chain, anchor, edits, written, forged>>

AuditNext ==
    \/ \E t \in Threads, s \in SessionIds, x \in DOMAIN Situations :
         \/ DecideCreate(t, s, x) \/ DecideUpdate(t, s, x)
         \/ DecideComplete(t, s, x) \/ DecideRetry(t, s, x)
    \/ \E t \in Threads : \/ StoreCart(t) \/ StoreComplete(t) \/ NoLink(t)
                          \/ StoreRetry(t) \/ Abandon(t)
                          \/ Announce(t) \/ LogDecision(t)
                          \/ Appended(t) \/ AppendRaises(t)
    \/ ToolStep \/ ByHand \/ Killed

AuditSpec == AuditInit /\ [][AuditNext]_auditVars

-----------------------------------------------------------------------------
(* The reports.                                                            *)

Decisions == {i \in DOMAIN chain : chain[i].event.type = "gate.decision"}

DecisionsOn(s) == {i \in Decisions : chain[i].event.s = s}

\* The replay of one event: the recorded input, judged again.
ReplayAgrees(i) ==
    LET e == chain[i].event IN DecisionOn[e.input] = e.dec /\ e.dec.total = e.amount

\* The decision a receipt shows for s.
LastDecision(s) == chain[Max(DecisionsOn(s))].event

\* A retry is logged and not stored with the row.
StoredOn(s) == {i \in DecisionsOn(s) : chain[i].event.mode # Retry}

LastStored(s) == chain[Max(StoredOn(s))].event.dec

\* The statuses a recorded decision leads to, with a link or without.
Outcomes(e) ==
    IF e.dec.verdict # "ALLOW"
    THEN {IF e.mode = Retry THEN "canceled" ELSE StatusAfter(e.dec)}
    ELSE CASE e.mode = Preview       -> {"ready_for_payment"}
           [] e.mode = Authoritative -> {"ready_for_payment", "payment_pending"}
           [] e.mode = Retry         -> {"payment_pending", "canceled"}

-----------------------------------------------------------------------------
(* Properties.                                                             *)

\* However many processes append and wherever one is killed, the chain they
\* write verifies.  (ledger.py: the head is read and the row inserted in one
\* transaction.)
ChainVerifies == edits = 0 => Verified(chain)

\* As long as nobody recomputed a hash, a chain that verifies holds only rows
\* that append wrote, each at its place: an event that was modified, moved,
\* copied or cut out of the middle shows.  (ledger.py: "the chain detects
\* modification, insertion, deletion and reordering".)
EditsShow ==
    Verified(chain) /\ ~forged => \A i \in DOMAIN chain : <<i, chain[i]>> \in written

\* When the chain verifies against an anchor, the events up to the anchor are
\* those that were there when it was taken, also if somebody cut the tail or
\* recomputed all the hashes.  (Anchor: "verification can also prove the tail
\* was not cut or rewritten since then".)
AnchorProtects ==
    anchor # None /\ VerifiedWith(chain, anchor) =>
        \A i \in DOMAIN anchor.rows : i \in DOMAIN chain /\ chain[i] = anchor.rows[i]

\* Every recorded decision follows from the input recorded with it.
\* (replay.py: the event "carries the exact input the pure gate consumed".)
ReplayIsIdentical == edits = 0 => \A i \in Decisions : ReplayAgrees(i)

\* Between two requests the receipt of a session shows the decision that led to
\* its status, as long as no append failed.  The decision stored with the row is
\* the last on record that is no retry, or both allow: a complete whose link
\* failed stores nothing.  After a retry, which stores none, receipt and row
\* show different decisions.
ReceiptMatchesRow ==
    ~lost /\ edits = 0 /\ (\A t \in Threads : thr[t] = None) =>
        \A s \in SessionIds : rows[s] # None =>
            /\ StoredOn(s) # {}
            /\ \/ LastStored(s) = rows[s].dec
               \/ rows[s].status = "ready_for_payment" /\ LastStored(s).verdict = "ALLOW"
            /\ rows[s].status \in Outcomes(LastDecision(s))
=============================================================================
