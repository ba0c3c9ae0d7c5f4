------------------------------ MODULE Requests ------------------------------
(***************************************************************************)
(* The front door of the server: dwarpal/api.py with the agents and nonces *)
(* of dwarpal/agents.py.  Handlers are coroutines of one event loop that   *)
(* wait where they await the body of their request; requests and webhooks  *)
(* arrive late, in any order and more than once, and the process may be    *)
(* killed between two transactions.                                        *)
(*                                                                         *)
(* Requests that create a session stand for all signed requests: they need *)
(* an idempotency key besides.  A signature is modelled by what it says,   *)
(* that the agent has sent this very request.                              *)
(***************************************************************************)
EXTENDS Integers, FiniteSets, Absent

CONSTANTS
    Agents, Nonces, Keys, Bodies,   \* Bodies: request bodies, by their hash
    SessionIds,                     \* bounds how many sessions are created
    EventIds,                       \* webhook events
    Coroutines,                     \* handlers that run at once
    MAX_SKEW,                       \* of signing.py, in seconds
    Ahead,                          \* an agent's clock is ahead by no more
    MaxTime                         \* bound on the clock

ASSUME TimeAssumption == MAX_SKEW \in Nat /\ Ahead \in Nat /\ MaxTime \in Nat
ASSUME NoneAssumption ==
    None \notin Nat \cup SessionIds \cup Nonces \cup {"bearer", "signing"}

VARIABLES
    clock,
    agents,             \* agents[a]: "bearer" or "signing", None before register
    nonces,             \* nonces[a, n]: when agent_nonces stored n, or None
    sessions,           \* sessions[s]: agent, key and body of s, or None
    webhook_events,     \* the ids of the events on record
    received,           \* received[e]: webhook.received rows of e in the ledger
    wire,               \* every request an agent has sent
    handling,           \* handling[c]: the request c handles, None when idle
    accepted,           \* history: how often the nonce n of a was accepted
    answers             \* history: the sessions create has answered with

tables == <<agents, nonces, sessions, webhook_events, received>>
vars == <<clock, tables, wire, handling, accepted, answers>>

\* A bearer request has no nonce and no timestamp.
Request ==
    [agent : Agents, nonce : Nonces \cup {None}, ts : Nat \cup {None},
     key : Keys, body : Bodies]

Session == [agent : Agents, key : Keys, body : Bodies]

\* The model value None is none of the rows.
ASSUME NoneIsNoSession == None \notin Session

Init ==
    /\ clock = 0
    /\ agents = [a \in Agents |-> None]
    /\ nonces = [x \in Agents \X Nonces |-> None]
    /\ sessions = [s \in SessionIds |-> None]
    /\ webhook_events = {}
    /\ received = [e \in EventIds |-> 0]
    /\ wire = {}
    /\ handling = [c \in Coroutines |-> None]
    /\ accepted = [x \in Agents \X Nonces |-> 0]
    /\ answers = {}

-----------------------------------------------------------------------------
(* Agents.                                                                 *)

register(a, kind) ==
    /\ agents[a] = None
    /\ agents' = [agents EXCEPT ![a] = kind]
    /\ UNCHANGED <<clock, nonces, sessions, webhook_events, received, wire, handling,
                   accepted, answers>>

Used(a, n) == \E r \in wire : r.agent = a /\ r.nonce = n

\* An agent that signs takes a nonce it has not used before; its clock may be
\* behind by any amount.
Send(r) ==
    /\ \/ agents[r.agent] = "bearer" /\ r.nonce = None /\ r.ts = None
       \/ /\ agents[r.agent] = "signing"
          /\ r.nonce # None /\ ~Used(r.agent, r.nonce)
          /\ r.ts # None /\ r.ts <= clock + Ahead
    /\ wire' = wire \cup {r}
    /\ UNCHANGED <<clock, tables, handling, accepted, answers>>

-----------------------------------------------------------------------------
(* Handlers.                                                               *)

Starts(c, f) == handling[c] = None /\ handling' = [handling EXCEPT ![c] = f]
At(c, place) == handling[c] # None /\ handling[c].at = place
Moves(c, place) == handling' = [handling EXCEPT ![c].at = place]
Ends(c) == handling' = [handling EXCEPT ![c] = None]

\* current_agent and require_signature up to the await: the clock is read
\* before the body has arrived.
Authenticate(c, r) ==
    /\ agents[r.agent] # None
    /\ \/ /\ agents[r.agent] = "signing"
          /\ clock - r.ts <= MAX_SKEW /\ r.ts - clock <= MAX_SKEW
          /\ Starts(c, [at |-> "signature", request |-> r, now |-> clock, event |-> None])
       \/ /\ agents[r.agent] = "bearer"
          /\ Starts(c, [at |-> "create", request |-> r, now |-> clock, event |-> None])
    /\ UNCHANGED <<clock, tables, wire, accepted, answers>>

\* Mutant: a nonce is forgotten when a request of its age is too old.
PrunedEarly(table, now) ==
    [x \in DOMAIN table |->
       IF table[x] # None /\ table[x] < now - MAX_SKEW THEN None ELSE table[x]]

prune_nonces(table, now) ==
    [x \in DOMAIN table |->
       IF table[x] # None /\ table[x] < now - 2 * MAX_SKEW THEN None ELSE table[x]]

\* The rest of require_signature: the nonce is stored, and old ones are
\* forgotten, at the time read before the await.
RememberNonce(c) ==
    LET f == handling[c]
        x == <<f.request.agent, f.request.nonce>>
    IN  /\ At(c, "signature")
        /\ nonces[x] = None
        /\ nonces' = prune_nonces([nonces EXCEPT ![x] = f.now], f.now)
        /\ accepted' = [accepted EXCEPT ![x] = @ + 1]
        /\ Moves(c, "create")
        /\ UNCHANGED <<clock, agents, sessions, webhook_events, received, wire, answers>>

\* replayed_nonce.
RefuseNonce(c) ==
    /\ At(c, "signature")
    /\ nonces[<<handling[c].request.agent, handling[c].request.nonce>>] # None
    /\ Ends(c)
    /\ UNCHANGED <<clock, tables, wire, accepted, answers>>

WithKey(a, k) == {s \in SessionIds : sessions[s] # None /\ sessions[s].agent = a
                                                        /\ sessions[s].key = k}

RowOf(r) == [agent |-> r.agent, key |-> r.key, body |-> r.body]

Answer(s, r) == answers' = answers \cup {[session |-> s, row |-> RowOf(r)]}

\* Mutant: a key counts for the body it came with.
CreateForBody(c) ==
    LET r == handling[c].request
        same == {s \in SessionIds : sessions[s] = RowOf(r)}
    IN  /\ At(c, "create")
        /\ \/ \E s \in same : Answer(s, r) /\ UNCHANGED sessions
           \/ /\ same = {}
              /\ \E s \in SessionIds : /\ sessions[s] = None
                                       /\ sessions' = [sessions EXCEPT ![s] = RowOf(r)]
                                       /\ Answer(s, r)
        /\ Ends(c)
        /\ UNCHANGED <<clock, agents, nonces, webhook_events, received, wire, accepted>>

\* Mutant: a key counts for all agents.
CreateForAnyone(c) ==
    LET r == handling[c].request
        same == {s \in SessionIds : /\ sessions[s] # None /\ sessions[s].key = r.key
                                    /\ sessions[s].body = r.body}
    IN  /\ At(c, "create")
        /\ \/ \E s \in same : Answer(s, r) /\ UNCHANGED sessions
           \/ /\ same = {}
              /\ \E s \in SessionIds : /\ sessions[s] = None
                                       /\ sessions' = [sessions EXCEPT ![s] = RowOf(r)]
                                       /\ Answer(s, r)
        /\ Ends(c)
        /\ UNCHANGED <<clock, agents, nonces, webhook_events, received, wire, accepted>>

\* create, from the look for the key to the insert: nothing is awaited between.
CreateSession(c) ==
    LET r == handling[c].request
    IN  /\ At(c, "create")
        /\ \/ \E s \in WithKey(r.agent, r.key) :
                /\ sessions[s].body = r.body /\ Answer(s, r)
                /\ UNCHANGED sessions
           \/ /\ \E s \in WithKey(r.agent, r.key) : sessions[s].body # r.body
              /\ UNCHANGED <<sessions, answers>>
           \/ /\ WithKey(r.agent, r.key) = {}
              /\ \E s \in SessionIds : /\ sessions[s] = None
                                       /\ sessions' = [sessions EXCEPT ![s] = RowOf(r)]
                                       /\ Answer(s, r)
        /\ Ends(c)
        /\ UNCHANGED <<clock, agents, nonces, webhook_events, received, wire, accepted>>

-----------------------------------------------------------------------------
(* Webhooks.                                                               *)

WebhookArrives(c, e) ==
    /\ Starts(c, [at |-> "event", request |-> None, now |-> clock, event |-> e])
    /\ UNCHANGED <<clock, tables, wire, accepted, answers>>

\* Mutant: an event is recorded again.
StoreEventAgain(c) ==
    /\ At(c, "event")
    /\ webhook_events' = webhook_events \cup {handling[c].event}
    /\ Moves(c, "handle")
    /\ UNCHANGED <<clock, agents, nonces, sessions, received, wire, accepted, answers>>

\* The primary key of webhook_events refuses an event that is on record.
StoreEvent(c) ==
    LET e == handling[c].event
    IN  /\ At(c, "event")
        /\ \/ e \in webhook_events /\ Ends(c)
           \/ e \notin webhook_events /\ Moves(c, "handle")
        /\ webhook_events' = webhook_events \cup {e}
        /\ UNCHANGED <<clock, agents, nonces, sessions, received, wire, accepted, answers>>

\* The ledger row; the reconcile that follows is SessionService's.
HandleEvent(c) ==
    /\ At(c, "handle")
    /\ received' = [received EXCEPT ![handling[c].event] = @ + 1]
    /\ Ends(c)
    /\ UNCHANGED <<clock, agents, nonces, sessions, webhook_events, wire, accepted, answers>>

-----------------------------------------------------------------------------
(* Time and the end of the process.                                        *)

\* A handler waits for a body as long as the body takes to come.
Tick ==
    /\ clock < MaxTime
    /\ clock' = clock + 1
    /\ UNCHANGED <<tables, wire, handling, accepted, answers>>

Crash ==
    /\ handling' = [c \in Coroutines |-> None]
    /\ UNCHANGED <<clock, tables, wire, accepted, answers>>

Next ==
    \/ \E a \in Agents, kind \in {"bearer", "signing"} : register(a, kind)
    \/ \E a \in Agents, n \in Nonces \cup {None}, ts \in 0..(MaxTime + Ahead) \cup {None},
          k \in Keys, b \in Bodies :
          Send([agent |-> a, nonce |-> n, ts |-> ts, key |-> k, body |-> b])
    \/ \E c \in Coroutines :
         \/ \E r \in wire : Authenticate(c, r)
         \/ RememberNonce(c) \/ RefuseNonce(c) \/ CreateSession(c)
         \/ \E e \in EventIds : WebhookArrives(c, e)
         \/ StoreEvent(c) \/ HandleEvent(c)
    \/ Tick \/ Crash

Spec == Init /\ [][Next]_vars

-----------------------------------------------------------------------------
(* Properties.                                                             *)

Waited(c) == clock - handling[c].now

\* api.py says that "each nonce is accepted once per agent", yet nonces are
\* forgotten, and nothing bounds the time a request waits for its body.  However
\* often and however late a signed request arrives, it is accepted again only by
\* a handler that has waited longer than MAX_SKEW less what its agent's clock may
\* be ahead.  (require_signature forgets nonces after 2 * MAX_SKEW_S.)
AcceptedAgainOnlyLate ==
    [][\A x \in Agents \X Nonces :
         accepted'[x] # accepted[x] /\ accepted[x] # 0 =>
           \E c \in Coroutines :
             /\ At(c, "signature")
             /\ x = <<handling[c].request.agent, handling[c].request.nonce>>
             /\ Waited(c) > MAX_SKEW - Ahead]_vars

\* An agent that sends a request again, with a new nonce or after a crash, gets
\* no second session for its key.  (create looks for the key first.)
OneSessionPerKey ==
    \A s, u \in SessionIds :
        /\ sessions[s] # None /\ sessions[u] # None
        /\ sessions[s].agent = sessions[u].agent /\ sessions[s].key = sessions[u].key
        => s = u

\* A create is only answered with a session of that agent, key and body.
\* ("Idempotency-Key was already used with a different request body".)
AnswersMatch == \A x \in answers : sessions[x.session] = x.row

\* An event is recorded and reconciled once, however often it is delivered.
\* (razorpay_webhook answers "duplicate".)
ReceivedOnce == \A e \in EventIds : received[e] <= 1
=============================================================================
