---------------------------- MODULE RequestProofs ---------------------------
(***************************************************************************)
(* What the front door promises for any number of agents, requests and     *)
(* handlers.  A nonce is forgotten only when no request that carries it    *)
(* can still pass the test of its timestamp, and has not been able to for  *)
(* some time: what is accepted later has waited for its body all along.    *)
(***************************************************************************)
EXTENDS Requests, TLAPS

Frame ==
    [at : {"signature"}, request : Request, now : Nat, event : {None}]
      \cup [at : {"create"}, request : Request, now : Nat, event : {None}]
      \cup [at : {"event", "handle"}, request : {None}, now : Nat, event : EventIds]

Carries(r, x) == x = <<r.agent, r.nonce>>

Typed ==
    /\ clock \in Nat
    /\ agents \in [Agents -> {None, "bearer", "signing"}]
    /\ nonces \in [Agents \X Nonces -> Nat \cup {None}]
    /\ accepted \in [Agents \X Nonces -> Nat]
    /\ wire \subseteq Request
    /\ handling \in [Coroutines -> Frame \cup {None}]

\* An agent that signs has used each nonce in one request, which it sent when
\* its clock was ahead by no more than Ahead.
WireOK ==
    /\ \A r \in wire : agents[r.agent] = "signing" =>
           r.nonce \in Nonces /\ r.ts \in Nat /\ r.ts <= clock + Ahead
    /\ \A r \in wire : agents[r.agent] # None
    /\ \A r \in wire : agents[r.agent] # "signing" => r.nonce = None
    /\ \A r, q \in wire : r.agent = q.agent /\ r.nonce = q.nonce /\ r.nonce # None => r = q

\* A request that waits for its body was on time when it arrived.
WaitingOK ==
    \A c \in Coroutines : At(c, "signature") =>
        LET f == handling[c]
        IN  /\ f.request \in wire /\ agents[f.request.agent] = "signing"
            /\ f.now <= clock
            /\ f.now - f.request.ts <= MAX_SKEW
            /\ f.request.ts <= f.now + Ahead

\* A request with nonce x was on time long ago.
LongAgo(x) == \A r \in wire : Carries(r, x) => r.ts + 2 * MAX_SKEW < clock + Ahead

NoncesOK ==
    \A x \in Agents \X Nonces :
        /\ nonces[x] # None => \A r \in wire : Carries(r, x) => r.ts <= nonces[x] + Ahead
        /\ nonces[x] # None \/ accepted[x] # 0 => \E r \in wire : Carries(r, x)
        /\ accepted[x] # 0 => nonces[x] # None \/ LongAgo(x)

Inv == Typed /\ WireOK /\ WaitingOK /\ NoncesOK

-----------------------------------------------------------------------------
LEMMA InitInv == Init => Inv
BY DEF Init, Inv, Typed, WireOK, WaitingOK, NoncesOK, At

\* Steps that leave agents, nonces, requests and time alone, and do not make a
\* handler wait for its body.
LEMMA Elsewhere ==
    ASSUME Inv, UNCHANGED <<clock, agents, nonces, wire, accepted>>,
           handling' \in [Coroutines -> Frame \cup {None}],
           \A c \in Coroutines : At(c, "signature")' => handling'[c] = handling[c]
    PROVE  Inv'
BY DEF Inv, Typed, WireOK, WaitingOK, NoncesOK, At, LongAgo, Carries

LEMMA RegisterInv ==
    ASSUME Inv, NEW a \in Agents, NEW kind \in {"bearer", "signing"}, register(a, kind)
    PROVE  Inv'
<1>1. \A r \in wire : r.agent \in Agents /\ agents'[r.agent] = agents[r.agent]
  BY DEF Inv, Typed, WireOK, Request, register
<1>2. Typed' /\ UNCHANGED <<clock, nonces, wire, handling, accepted>>
  BY DEF Inv, Typed, register
<1>3. WireOK'
  BY <1>1, <1>2 DEF Inv, WireOK
<1>4. WaitingOK'
  BY <1>1, <1>2 DEF Inv, WaitingOK, At
<1>5. NoncesOK'
  BY <1>2 DEF Inv, NoncesOK, LongAgo, Carries
<1> QED
  BY <1>2, <1>3, <1>4, <1>5 DEF Inv

LEMMA SendInv ==
    ASSUME Inv, NEW r \in Request, Send(r)
    PROVE  Inv'
<1>1. wire' = wire \cup {r} /\ UNCHANGED <<clock, agents, nonces, handling, accepted>>
  BY DEF Send, tables
<1>2. Typed'
  BY <1>1 DEF Inv, Typed
<1>3. \/ agents[r.agent] = "bearer" /\ r.nonce = None
      \/ /\ agents[r.agent] = "signing" /\ r.nonce \in Nonces /\ r.ts \in Nat
         /\ r.ts <= clock + Ahead /\ \A q \in wire : q.agent = r.agent => q.nonce # r.nonce
  BY DEF Send, Used, Request
<1>4. WireOK'
  BY <1>1, <1>3, NoneAssumption DEF Inv, WireOK
<1>5. WaitingOK'
  BY <1>1 DEF Inv, WaitingOK, At
<1>6. \A x \in Agents \X Nonces : Carries(r, x) =>
        nonces[x] = None /\ accepted[x] = 0
  <2> SUFFICES ASSUME NEW x \in Agents \X Nonces, Carries(r, x)
               PROVE  nonces[x] = None /\ accepted[x] = 0
    OBVIOUS
  <2>1. r.nonce # None
    BY NoneAssumption DEF Carries
  <2>2. \A q \in wire : ~Carries(q, x)
    BY <1>3, <2>1 DEF Carries
  <2> QED BY <2>2 DEF Inv, NoncesOK
<1>7. NoncesOK'
  BY <1>1, <1>6 DEF Inv, NoncesOK, LongAgo, Carries
<1> QED
  BY <1>2, <1>4, <1>5, <1>7 DEF Inv

LEMMA AuthenticateInv ==
    ASSUME Inv, NEW c \in Coroutines, NEW r \in wire, Authenticate(c, r)
    PROVE  Inv'
<1>1. UNCHANGED <<clock, agents, nonces, wire, accepted>>
  BY DEF Authenticate, tables
<1>2. r \in Request /\ clock \in Nat
  BY DEF Inv, Typed
<1>3. CASE agents[r.agent] = "bearer"
  <2> DEFINE f == [at |-> "create", request |-> r, now |-> clock, event |-> None]
  <2>1. handling' = [handling EXCEPT ![c] = f]
    BY <1>3 DEF Authenticate, Starts
  <2>2. f \in Frame /\ f.at = "create"
    BY <1>2 DEF Frame
  <2> HIDE DEF f
  <2>3. handling' \in [Coroutines -> Frame \cup {None}]
    BY <2>1, <2>2 DEF Inv, Typed
  <2>4. \A d \in Coroutines : At(d, "signature")' => handling'[d] = handling[d]
    BY <2>1, <2>2 DEF At, Inv, Typed
  <2> QED BY <1>1, <2>3, <2>4, Elsewhere
<1>4. CASE agents[r.agent] = "signing"
  <2> DEFINE f == [at |-> "signature", request |-> r, now |-> clock, event |-> None]
  <2>1. /\ handling' = [handling EXCEPT ![c] = f]
        /\ clock - r.ts <= MAX_SKEW
    BY <1>4 DEF Authenticate, Starts
  <2>2. f \in Frame /\ f.request = r /\ f.now = clock
    BY <1>2 DEF Frame
  <2> HIDE DEF f
  <2>3. Typed'
    BY <1>1, <2>1, <2>2 DEF Inv, Typed
  <2>4. WireOK'
    BY <1>1 DEF Inv, WireOK
  <2>5. r.ts <= clock + Ahead
    BY <1>4 DEF Inv, WireOK
  <2>6. \A d \in Coroutines : handling'[d] = (IF d = c THEN f ELSE handling[d])
    BY <2>1 DEF Inv, Typed
  <2>7. WaitingOK'
    BY <1>1, <1>2, <1>4, <2>1, <2>2, <2>5, <2>6 DEF Inv, WaitingOK, At
  <2>8. NoncesOK'
    BY <1>1 DEF Inv, NoncesOK, LongAgo, Carries
  <2> QED BY <2>3, <2>4, <2>7, <2>8 DEF Inv
<1> QED
  BY <1>3, <1>4 DEF Authenticate

\* What is forgotten now was on time long ago.
LEMMA RememberInv ==
    ASSUME Inv, NEW c \in Coroutines, RememberNonce(c)
    PROVE  Inv'
<1> DEFINE f == handling[c]
           x == <<f.request.agent, f.request.nonce>>
<1>1. /\ f \in Frame /\ f.at = "signature" /\ At(c, "signature") /\ nonces[x] = None
      /\ nonces' = prune_nonces([nonces EXCEPT ![x] = f.now], f.now)
      /\ accepted' = [accepted EXCEPT ![x] = @ + 1]
      /\ handling' = [handling EXCEPT ![c].at = "create"]
      /\ UNCHANGED <<clock, agents, wire>>
  BY DEF RememberNonce, At, Moves, Inv, Typed
<1>2. /\ f.request \in Request /\ f.now \in Nat
      /\ [f EXCEPT !.at = "create"] \in Frame /\ [f EXCEPT !.at = "create"].at = "create"
  BY <1>1 DEF Frame
<1>3. /\ f.request \in wire /\ f.request.nonce \in Nonces /\ f.request.ts \in Nat
      /\ f.now <= clock /\ f.now - f.request.ts <= MAX_SKEW
      /\ f.request.ts <= f.now + Ahead
  BY <1>1 DEF Inv, WaitingOK, WireOK, At
<1>4. x \in Agents \X Nonces /\ Carries(f.request, x)
  BY <1>2, <1>3 DEF Request, Carries
<1>5. \A r \in wire : Carries(r, x) => r = f.request
  BY <1>3, NoneAssumption DEF Inv, WireOK, Carries
<1>6. \A y \in Agents \X Nonces :
        /\ y # x => accepted'[y] = accepted[y]
        /\ nonces'[y] = (IF y = x THEN f.now
                         ELSE IF nonces[y] # None /\ nonces[y] < f.now - 2 * MAX_SKEW THEN None
                         ELSE nonces[y])
  <2>1. \A y \in Agents \X Nonces : y # x => accepted'[y] = accepted[y]
    BY <1>1, <1>4 DEF Inv, Typed
  <2> DEFINE stored == [nonces EXCEPT ![x] = f.now]
  <2>2. DOMAIN stored = Agents \X Nonces
        /\ \A y \in Agents \X Nonces : stored[y] = (IF y = x THEN f.now ELSE nonces[y])
    BY <1>4 DEF Inv, Typed
  <2>3. nonces' = prune_nonces(stored, f.now)
    BY <1>1
  <2>4. ~(f.now < f.now - 2 * MAX_SKEW)
    BY <1>2, TimeAssumption
  <2> HIDE DEF stored, f, x
  <2> QED BY <2>1, <2>2, <2>3, <2>4 DEF prune_nonces
<1>7. Typed'
  <2>1. accepted' \in [Agents \X Nonces -> Nat]
    BY <1>1, <1>4 DEF Inv, Typed
  <2>2. nonces' \in [Agents \X Nonces -> Nat \cup {None}]
    <3>1. DOMAIN nonces' = Agents \X Nonces /\ nonces' = [y \in DOMAIN nonces' |-> nonces'[y]]
      BY <1>1, <1>4 DEF prune_nonces, Inv, Typed
    <3>2. \A y \in Agents \X Nonces : nonces'[y] \in Nat \cup {None}
      BY <1>2, <1>6 DEF Inv, Typed
    <3> QED BY <3>1, <3>2
  <2>3. handling' = [handling EXCEPT ![c] = [f EXCEPT !.at = "create"]]
    BY <1>1
  <2>4. handling' \in [Coroutines -> Frame \cup {None}]
    BY <1>2, <2>3 DEF Inv, Typed
  <2> QED BY <1>1, <2>1, <2>2, <2>4 DEF Inv, Typed
<1>8. WireOK'
  BY <1>1 DEF Inv, WireOK
<1>9. WaitingOK'
  <2>1. \A d \in Coroutines : At(d, "signature")' => handling'[d] = handling[d]
    BY <1>1, <1>2 DEF At, Inv, Typed
  <2> QED BY <1>1, <2>1 DEF Inv, WaitingOK, At
<1> HIDE DEF f, x
<1>10. ASSUME NEW y \in Agents \X Nonces, y # x, nonces[y] # None,
              nonces[y] < f.now - 2 * MAX_SKEW
       PROVE  LongAgo(y)
  <2> SUFFICES ASSUME NEW r \in wire, Carries(r, y) PROVE r.ts + 2 * MAX_SKEW < clock + Ahead
    BY DEF LongAgo
  <2>1. r.ts <= nonces[y] + Ahead /\ nonces[y] \in Nat
    BY <1>10 DEF Inv, NoncesOK, Typed
  <2>2. r.ts \in Nat
    BY NoneAssumption DEF Inv, WireOK, Typed, Carries
  <2> QED BY <1>2, <1>3, <1>10, <2>1, <2>2, TimeAssumption DEF Inv, Typed
<1>11. NoncesOK'
  <2> SUFFICES ASSUME NEW y \in Agents \X Nonces
               PROVE  /\ nonces'[y] # None => \A r \in wire : Carries(r, y) => r.ts <= nonces'[y] + Ahead
                      /\ nonces'[y] # None \/ accepted'[y] # 0 => \E r \in wire : Carries(r, y)
                      /\ accepted'[y] # 0 => nonces'[y] # None \/ LongAgo(y)
    BY <1>1 DEF NoncesOK, LongAgo, Carries
  <2>1. CASE y = x
    BY <1>2, <1>3, <1>4, <1>5, <1>6, <2>1, NoneAssumption
  <2>2. CASE y # x
    BY <1>6, <1>10, <2>2 DEF Inv, NoncesOK
  <2> QED BY <2>1, <2>2
<1> QED
  BY <1>7, <1>8, <1>9, <1>11 DEF Inv

LEMMA TickInv ==
    ASSUME Inv, Tick
    PROVE  Inv'
<1>1. /\ clock' = clock + 1 /\ clock \in Nat
      /\ UNCHANGED <<agents, nonces, wire, handling, accepted>>
  BY DEF Tick, tables, Inv, Typed
<1>2. Typed'
  BY <1>1 DEF Inv, Typed
<1>3. WireOK'
  BY <1>1, TimeAssumption DEF Inv, WireOK
<1>4. WaitingOK'
  <2>1. \A c \in Coroutines : At(c, "signature") => handling[c].now \in Nat
    BY DEF At, Inv, Typed, Frame
  <2> QED BY <1>1, <2>1, TimeAssumption DEF Inv, WaitingOK, At
<1>5. \A x \in Agents \X Nonces : LongAgo(x) => LongAgo(x)'
  <2>1. \A r \in wire, x \in Agents \X Nonces : Carries(r, x) => r.ts \in Nat
    BY NoneAssumption DEF Inv, Typed, WireOK, Carries
  <2> QED BY <1>1, <2>1, TimeAssumption DEF LongAgo, Carries
<1>6. NoncesOK'
  BY <1>1, <1>5 DEF Inv, NoncesOK, Carries
<1> QED
  BY <1>2, <1>3, <1>4, <1>6 DEF Inv

LEMMA NextInv == Inv /\ [Next]_vars => Inv'
<1> SUFFICES ASSUME Inv, [Next]_vars PROVE Inv'
  OBVIOUS
<1>1. CASE UNCHANGED vars
  BY <1>1 DEF vars, tables, Inv, Typed, WireOK, WaitingOK, NoncesOK, At, LongAgo,
              Carries
<1>2. ASSUME NEW r, Send(r),
             \E a \in Agents, n \in Nonces \cup {None}, ts \in 0..(MaxTime + Ahead) \cup {None},
                k \in Keys, b \in Bodies :
                r = [agent |-> a, nonce |-> n, ts |-> ts, key |-> k, body |-> b]
      PROVE  Inv'
  <2>1. r \in Request
    BY <1>2, TimeAssumption DEF Request
  <2> QED BY <1>2, <2>1, SendInv
<1>3. ASSUME NEW c \in Coroutines,
             RefuseNonce(c) \/ CreateSession(c) \/ HandleEvent(c)
      PROVE  Inv'
  <2>1. UNCHANGED <<clock, agents, nonces, wire, accepted>> /\ Ends(c)
    BY <1>3 DEF RefuseNonce, CreateSession, HandleEvent, tables
  <2>2. handling' \in [Coroutines -> Frame \cup {None}]
    BY <2>1 DEF Ends, Inv, Typed
  <2>3. \A d \in Coroutines : At(d, "signature")' => handling'[d] = handling[d]
    BY <2>1 DEF Ends, At, Inv, Typed
  <2> QED BY <2>1, <2>2, <2>3, Elsewhere
<1>4. ASSUME NEW c \in Coroutines, StoreEvent(c) PROVE Inv'
  <2> DEFINE g == [handling[c] EXCEPT !.at = "handle"]
  <2>1. /\ UNCHANGED <<clock, agents, nonces, wire, accepted>>
        /\ handling[c] \in Frame /\ handling[c].at = "event"
        /\ Ends(c) \/ handling' = [handling EXCEPT ![c] = g]
    BY <1>4 DEF StoreEvent, At, Moves, Inv, Typed
  <2>2. g \in Frame /\ g.at = "handle"
    BY <2>1 DEF Frame
  <2> HIDE DEF g
  <2>3. handling' \in [Coroutines -> Frame \cup {None}]
    BY <2>1, <2>2 DEF Ends, Inv, Typed
  <2>4. \A d \in Coroutines : At(d, "signature")' => handling'[d] = handling[d]
    BY <2>1, <2>2 DEF Ends, At, Inv, Typed
  <2> QED BY <2>1, <2>3, <2>4, Elsewhere
<1>5. ASSUME NEW c \in Coroutines, NEW e \in EventIds, WebhookArrives(c, e) PROVE Inv'
  <2> DEFINE g == [at |-> "event", request |-> None, now |-> clock, event |-> e]
  <2>1. /\ UNCHANGED <<clock, agents, nonces, wire, accepted>>
        /\ handling' = [handling EXCEPT ![c] = g]
    BY <1>5 DEF WebhookArrives, Starts, tables
  <2>2. g \in Frame /\ g.at = "event"
    BY DEF Frame, Inv, Typed
  <2> HIDE DEF g
  <2>3. handling' \in [Coroutines -> Frame \cup {None}]
    BY <2>1, <2>2 DEF Inv, Typed
  <2>4. \A d \in Coroutines : At(d, "signature")' => handling'[d] = handling[d]
    BY <2>1, <2>2 DEF At, Inv, Typed
  <2> QED BY <2>1, <2>3, <2>4, Elsewhere
<1>6. CASE Crash
  <2>1. UNCHANGED <<clock, agents, nonces, wire, accepted>>
        /\ handling' = [d \in Coroutines |-> None]
    BY <1>6 DEF Crash, tables
  <2>2. handling' \in [Coroutines -> Frame \cup {None}]
    BY <2>1
  <2>3. \A d \in Coroutines : ~At(d, "signature")'
    BY <2>1 DEF At
  <2> QED BY <2>1, <2>2, <2>3, Elsewhere
<1> QED
  BY <1>1, <1>2, <1>3, <1>4, <1>5, <1>6, RegisterInv, AuthenticateInv, RememberInv, TickInv
     DEF Next

-----------------------------------------------------------------------------
\* A handler that accepts x while x is on record as accepted found the nonce
\* forgotten; it read the clock when the request was on time, long ago.
LEMMA LateAcceptance ==
    ASSUME Inv, NEW c \in Coroutines, RememberNonce(c), NEW x \in Agents \X Nonces,
           accepted'[x] # accepted[x], accepted[x] # 0
    PROVE  /\ At(c, "signature")
           /\ x = <<handling[c].request.agent, handling[c].request.nonce>>
           /\ Waited(c) > MAX_SKEW - Ahead
<1> DEFINE f == handling[c]
<1>1. /\ f \in Frame /\ At(c, "signature") /\ f.at = "signature"
      /\ nonces[<<f.request.agent, f.request.nonce>>] = None
      /\ accepted' = [accepted EXCEPT ![<<f.request.agent, f.request.nonce>>] = @ + 1]
  BY DEF RememberNonce, At, Inv, Typed
<1>2. x = <<f.request.agent, f.request.nonce>>
  BY <1>1 DEF Inv, Typed
<1>3. f.request \in wire /\ f.now - f.request.ts <= MAX_SKEW
  BY <1>1 DEF Inv, WaitingOK, At
<1>4. f.now \in Nat /\ f.request.ts \in Nat /\ clock \in Nat
  BY <1>1, <1>3 DEF Inv, Typed, WaitingOK, WireOK, At, Frame
<1>5. f.request.ts + 2 * MAX_SKEW < clock + Ahead
  BY <1>1, <1>2, <1>3 DEF Inv, NoncesOK, LongAgo, Carries
<1>6. clock - f.now > MAX_SKEW - Ahead
  <2> HIDE DEF f
  <2> QED BY <1>3, <1>4, <1>5, TimeAssumption
<1> QED
  BY <1>1, <1>2, <1>6 DEF Waited

\* For any number of agents, requests and handlers, and however long a request
\* waits for its body: only one that has waited longer than MAX_SKEW - Ahead is
\* accepted again.
THEOREM NonceAcceptedAgainOnlyLate == Spec => AcceptedAgainOnlyLate
<1> DEFINE A == \A x \in Agents \X Nonces :
                  accepted'[x] # accepted[x] /\ accepted[x] # 0 =>
                    \E c \in Coroutines :
                      /\ At(c, "signature")
                      /\ x = <<handling[c].request.agent, handling[c].request.nonce>>
                      /\ Waited(c) > MAX_SKEW - Ahead
<1>1. Inv /\ [Next]_vars => [A]_vars
  <2> SUFFICES ASSUME Inv, [Next]_vars, NEW x \in Agents \X Nonces,
                      accepted'[x] # accepted[x], accepted[x] # 0
               PROVE  \E c \in Coroutines :
                        /\ At(c, "signature")
                        /\ x = <<handling[c].request.agent, handling[c].request.nonce>>
                        /\ Waited(c) > MAX_SKEW - Ahead
    OBVIOUS
  <2>1. CASE \E c \in Coroutines : RememberNonce(c)
    BY <2>1, LateAcceptance
  <2>2. ASSUME NEW r, Send(r) PROVE FALSE
    BY <2>2 DEF Send
  <2>3. ASSUME NEW a, NEW kind, register(a, kind) PROVE FALSE
    BY <2>3 DEF register
  <2>4. ASSUME NEW c \in Coroutines,
               \/ RefuseNonce(c) \/ CreateSession(c) \/ StoreEvent(c) \/ HandleEvent(c)
               \/ \E r \in wire : Authenticate(c, r)
               \/ \E e \in EventIds : WebhookArrives(c, e)
        PROVE  FALSE
    BY <2>4 DEF RefuseNonce, CreateSession, StoreEvent, HandleEvent, Authenticate, WebhookArrives
  <2>5. CASE Tick \/ Crash \/ UNCHANGED vars
    BY <2>5 DEF Tick, Crash, vars
  <2> QED BY <2>1, <2>2, <2>3, <2>4, <2>5 DEF Next
<1> HIDE DEF A
<1> QED
  BY InitInv, NextInv, <1>1, PTL DEF Spec, AcceptedAgainOnlyLate, A

-----------------------------------------------------------------------------
(* Idempotency keys: rows of sessions are inserted once and never changed. *)

SessionsTyped ==
    /\ sessions \in [SessionIds -> Session \cup {None}]
    /\ answers \subseteq [session : SessionIds, row : Session]

KeysInv == SessionsTyped /\ OneSessionPerKey /\ AnswersMatch

\* create keeps the table one to one, and answers with a row of it.
LEMMA CreateEffect ==
    ASSUME Typed, KeysInv, NEW c \in Coroutines, CreateSession(c)
    PROVE  KeysInv'
<1> DEFINE r == handling[c].request
<1>1. r \in Request /\ RowOf(r) \in Session
  BY DEF Typed, Frame, CreateSession, At, RowOf, Request, Session
<1>3. SessionsTyped'
  BY <1>1 DEF KeysInv, SessionsTyped, CreateSession, Answer, WithKey
<1>4. CASE UNCHANGED sessions
  <2>1. OneSessionPerKey'
    BY <1>4 DEF KeysInv, OneSessionPerKey
  <2>2. ASSUME NEW s \in WithKey(r.agent, r.key), sessions[s].body = r.body
        PROVE  sessions[s] = RowOf(r)
    BY <2>2 DEF WithKey, RowOf, KeysInv, SessionsTyped, Session
  <2>3. answers' \subseteq answers \cup {[session |-> s, row |-> sessions[s]] : s \in SessionIds}
    <3>1. CASE UNCHANGED answers
      BY <3>1
    <3>2. ASSUME NEW s \in WithKey(r.agent, r.key), sessions[s].body = r.body, Answer(s, r)
          PROVE  answers' \subseteq answers \cup {[session |-> u, row |-> sessions[u]] : u \in SessionIds}
      BY <2>2, <3>2 DEF Answer, WithKey
    <3>3. ASSUME NEW s \in SessionIds, sessions[s] = None,
                 sessions' = [sessions EXCEPT ![s] = RowOf(r)]
          PROVE  FALSE
      BY <1>1, <1>4, <3>3, NoneIsNoSession DEF KeysInv, SessionsTyped
    <3> QED BY <3>1, <3>2, <3>3 DEF CreateSession
  <2> HIDE DEF r
  <2>4. AnswersMatch'
    BY <1>4, <2>3 DEF KeysInv, AnswersMatch
  <2> QED BY <1>3, <2>1, <2>4 DEF KeysInv
<1>5. ASSUME WithKey(r.agent, r.key) = {}, NEW s \in SessionIds, sessions[s] = None,
             sessions' = [sessions EXCEPT ![s] = RowOf(r)], Answer(s, r)
      PROVE  KeysInv'
  <2>1. \A u \in SessionIds : sessions'[u] = (IF u = s THEN RowOf(r) ELSE sessions[u])
    BY <1>5 DEF KeysInv, SessionsTyped
  <2>2. RowOf(r).agent = r.agent /\ RowOf(r).key = r.key
    BY DEF RowOf
  <2>3. \A u \in SessionIds : sessions[u] # None =>
          sessions[u].agent # r.agent \/ sessions[u].key # r.key
    BY <1>5 DEF WithKey
  <2> HIDE DEF r
  <2>4. OneSessionPerKey'
    BY <2>1, <2>2, <2>3 DEF KeysInv, OneSessionPerKey
  <2>5. AnswersMatch'
    BY <1>1, <1>5, <2>1, NoneIsNoSession DEF KeysInv, AnswersMatch, SessionsTyped, Answer
  <2> QED BY <1>3, <2>4, <2>5 DEF KeysInv
<1> QED
  BY <1>4, <1>5 DEF CreateSession

LEMMA KeysStep == Inv /\ KeysInv /\ [Next]_vars => KeysInv'
<1> SUFFICES ASSUME Inv, KeysInv, [Next]_vars PROVE KeysInv'
  OBVIOUS
<1>1. CASE \E c \in Coroutines : CreateSession(c)
  BY <1>1, CreateEffect DEF Inv
<1>2. CASE UNCHANGED <<sessions, answers>>
  BY <1>2 DEF KeysInv, SessionsTyped, OneSessionPerKey, AnswersMatch
<1>3. ASSUME NEW c \in Coroutines,
             \/ RememberNonce(c) \/ RefuseNonce(c) \/ StoreEvent(c) \/ HandleEvent(c)
             \/ \E r \in wire : Authenticate(c, r)
             \/ \E e \in EventIds : WebhookArrives(c, e)
      PROVE  UNCHANGED <<sessions, answers>>
  BY <1>3 DEF RememberNonce, RefuseNonce, StoreEvent, HandleEvent, Authenticate, WebhookArrives,
     tables
<1>4. ASSUME NEW r, Send(r) PROVE UNCHANGED <<sessions, answers>>
  BY <1>4 DEF Send, tables
<1>5. ASSUME NEW a, NEW kind, register(a, kind) PROVE UNCHANGED <<sessions, answers>>
  BY <1>5 DEF register
<1>6. CASE Tick \/ Crash \/ UNCHANGED vars
  BY <1>2, <1>6 DEF Tick, Crash, vars, tables
<1> QED
  BY <1>1, <1>2, <1>3, <1>4, <1>5, <1>6 DEF Next

LEMMA KeysInit == Init => KeysInv
BY DEF Init, KeysInv, SessionsTyped, OneSessionPerKey, AnswersMatch, At

\* Whatever is sent again, delayed or cut off by a crash, a key of an agent
\* names one session.
THEOREM KeyNamesOneSession == Spec => []OneSessionPerKey
<1>1. KeysInv => OneSessionPerKey
  BY DEF KeysInv
<1> QED
  BY InitInv, NextInv, KeysInit, KeysStep, <1>1, PTL DEF Spec

\* And a create is never answered with a session of another agent, another key
\* or another body.
THEOREM AnswersAreOwn == Spec => []AnswersMatch
<1>1. KeysInv => AnswersMatch
  BY DEF KeysInv
<1> QED
  BY InitInv, NextInv, KeysInit, KeysStep, <1>1, PTL DEF Spec

-----------------------------------------------------------------------------
(* Webhooks: an event is on record before its handler goes on, so of all   *)
(* the handlers an event may have at once one goes on.                     *)

EventsInv ==
    /\ received \in [EventIds -> Nat]
    /\ \A e \in EventIds : received[e] # 0 => received[e] = 1 /\ e \in webhook_events
    /\ \A c \in Coroutines : At(c, "handle") =>
           handling[c].event \in webhook_events /\ received[handling[c].event] = 0
    /\ \A c, d \in Coroutines : /\ At(c, "handle") /\ At(d, "handle")
                                /\ handling[c].event = handling[d].event
                                => c = d

LEMMA EventsInit == Init => EventsInv
BY DEF Init, EventsInv, At

\* Steps that bring no handler to "handle" leave EventsInv alone.
LEMMA EventsElsewhere ==
    ASSUME EventsInv, UNCHANGED <<webhook_events, received>>,
           \A c \in Coroutines : At(c, "handle")' => handling'[c] = handling[c]
    PROVE  EventsInv'
BY DEF EventsInv, At

LEMMA EventsStep == Inv /\ EventsInv /\ [Next]_vars => EventsInv'
<1> SUFFICES ASSUME Inv, EventsInv, [Next]_vars PROVE EventsInv'
  OBVIOUS
<1>1. handling \in [Coroutines -> Frame \cup {None}]
  BY DEF Inv, Typed
<1>2. CASE UNCHANGED vars \/ Tick \/ Crash
  <2>1. UNCHANGED <<webhook_events, received>>
    BY <1>2 DEF vars, tables, Tick, Crash
  <2>2. \A c \in Coroutines : At(c, "handle")' => handling'[c] = handling[c]
    BY <1>2 DEF vars, Tick, Crash, At
  <2> QED BY <2>1, <2>2, EventsElsewhere
<1>3. ASSUME NEW r, Send(r) PROVE EventsInv'
  BY <1>3, EventsElsewhere DEF Send, tables, At
<1>4. ASSUME NEW a, NEW kind, register(a, kind) PROVE EventsInv'
  BY <1>4, EventsElsewhere DEF register, At
<1>5. ASSUME NEW c \in Coroutines, RefuseNonce(c) \/ CreateSession(c) PROVE EventsInv'
  <2>1. UNCHANGED <<webhook_events, received>> /\ Ends(c)
    BY <1>5 DEF RefuseNonce, CreateSession, tables
  <2>2. \A d \in Coroutines : At(d, "handle")' => handling'[d] = handling[d]
    BY <1>1, <2>1 DEF Ends, At
  <2> QED BY <2>1, <2>2, EventsElsewhere
<1>6. ASSUME NEW c \in Coroutines, NEW f, Starts(c, f), f.at # "handle",
             UNCHANGED <<webhook_events, received>>
      PROVE  EventsInv'
  <2>1. \A d \in Coroutines : At(d, "handle")' => handling'[d] = handling[d]
    BY <1>1, <1>6 DEF Starts, At
  <2> QED BY <1>6, <2>1, EventsElsewhere
<1>7. ASSUME NEW c \in Coroutines, NEW r \in wire, Authenticate(c, r) PROVE EventsInv'
  <2>1. \E at \in {"signature", "create"} :
           Starts(c, [at |-> at, request |-> r, now |-> clock, event |-> None])
    BY <1>7 DEF Authenticate
  <2>2. UNCHANGED <<webhook_events, received>>
    BY <1>7 DEF Authenticate, tables
  <2> QED BY <1>6, <2>1, <2>2
<1>8. ASSUME NEW c \in Coroutines, NEW e \in EventIds, WebhookArrives(c, e) PROVE EventsInv'
  <2>1. Starts(c, [at |-> "event", request |-> None, now |-> clock, event |-> e])
    BY <1>8 DEF WebhookArrives
  <2>2. UNCHANGED <<webhook_events, received>>
    BY <1>8 DEF WebhookArrives, tables
  <2> QED BY <1>6, <2>1, <2>2
<1>9. ASSUME NEW c \in Coroutines, RememberNonce(c) PROVE EventsInv'
  <2>1. /\ UNCHANGED <<webhook_events, received>>
        /\ handling' = [handling EXCEPT ![c] = [handling[c] EXCEPT !.at = "create"]]
        /\ handling[c] \in Frame
    BY <1>1, <1>9 DEF RememberNonce, Moves, At
  <2>2. [handling[c] EXCEPT !.at = "create"].at = "create"
    BY <2>1 DEF Frame
  <2>3. \A d \in Coroutines : At(d, "handle")' => handling'[d] = handling[d]
    BY <1>1, <2>1, <2>2 DEF At
  <2> QED BY <2>1, <2>3, EventsElsewhere
<1>10. ASSUME NEW c \in Coroutines, StoreEvent(c) PROVE EventsInv'
  <2> DEFINE e == handling[c].event
             g == [handling[c] EXCEPT !.at = "handle"]
  <2>1. /\ webhook_events' = webhook_events \cup {e} /\ UNCHANGED received
        /\ handling[c] \in Frame /\ handling[c].at = "event"
    BY <1>1, <1>10 DEF StoreEvent, At
  <2>2. CASE e \in webhook_events /\ Ends(c)
    <3>1. \A d \in Coroutines : At(d, "handle")' => handling'[d] = handling[d]
      BY <1>1, <2>2 DEF Ends, At
    <3>2. UNCHANGED webhook_events
      BY <2>1, <2>2
    <3> QED BY <2>1, <3>1, <3>2, EventsElsewhere
  <2>3. CASE e \notin webhook_events /\ Moves(c, "handle")
    <3>1. handling' = [handling EXCEPT ![c] = g]
      BY <2>3 DEF Moves
    <3>2. g.event = e /\ e \in EventIds
      BY <2>1 DEF Frame
    <3>3. \A d \in Coroutines : handling'[d] = (IF d = c THEN g ELSE handling[d])
      BY <1>1, <3>1
    <3>4. received[e] = 0
      BY <2>3, <3>2 DEF EventsInv
    <3> HIDE DEF e, g
    <3>5. \A d \in Coroutines : d # c /\ At(d, "handle") => handling[d].event # e
      BY <2>3 DEF EventsInv
    <3> QED BY <2>1, <3>2, <3>3, <3>4, <3>5 DEF EventsInv, At
  <2> QED BY <1>10, <2>2, <2>3 DEF StoreEvent
<1>11. ASSUME NEW c \in Coroutines, HandleEvent(c) PROVE EventsInv'
  <2> DEFINE e == handling[c].event
  <2>1. /\ At(c, "handle") /\ received' = [received EXCEPT ![e] = @ + 1]
        /\ UNCHANGED webhook_events /\ handling' = [handling EXCEPT ![c] = None]
        /\ handling[c] \in Frame
    BY <1>1, <1>11 DEF HandleEvent, Ends, At
  <2>2. e \in EventIds /\ e \in webhook_events /\ received[e] = 0
    BY <2>1 DEF Frame, EventsInv, At
  <2>3. \A d \in Coroutines : handling'[d] = (IF d = c THEN None ELSE handling[d])
    BY <1>1, <2>1
  <2>4. \A d \in Coroutines : d # c /\ At(d, "handle") => handling[d].event # e
    BY <2>1 DEF EventsInv
  <2> HIDE DEF e
  <2>5. received' \in [EventIds -> Nat] /\ \A u \in EventIds : received'[u] = (IF u = e THEN 1 ELSE received[u])
    BY <2>1, <2>2 DEF EventsInv
  <2>6. \A d \in Coroutines : At(d, "handle") => handling[d].event \in EventIds
    BY <1>1 DEF At, Frame
  <2> QED BY <2>1, <2>2, <2>3, <2>4, <2>5, <2>6 DEF EventsInv, At
<1> QED
  BY <1>2, <1>3, <1>4, <1>5, <1>7, <1>8, <1>9, <1>10, <1>11 DEF Next

\* However often a webhook is delivered, and however many deliveries are handled
\* at once, the event is recorded and reconciled once.
THEOREM EventHandledOnce == Spec => []ReceivedOnce
<1>1. EventsInv => ReceivedOnce
  BY DEF EventsInv, ReceivedOnce
<1> QED
  BY InitInv, NextInv, EventsInit, EventsStep, <1>1, PTL DEF Spec
=============================================================================
