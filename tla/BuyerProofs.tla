---------------------------- MODULE BuyerProofs -----------------------------
(***************************************************************************)
(* What a run of the buyer keeps to for any model and any store: it leaves *)
(* no tool call of the model without an answer, and what it reports of its *)
(* session is true.                                                        *)
(***************************************************************************)
EXTENDS Buyer, SequenceTheorems, TLAPS

\* Numbers of a reply are used once, or an answer to one call would be taken
\* for the answer to another.
IdsDiffer ==
    /\ \A i, j \in DOMAIN queue : queue[i].id = queue[j].id => i = j
    /\ awaiting # None => \A i \in DOMAIN queue : queue[i].id # awaiting.id

\* What a stage relies on.
StagesOK ==
    /\ stage = "execute" => awaiting # None /\ steps < max_steps
    /\ stage = "poll" => session # None /\ polls_left >= 1

Waiting(q) == {q[i].id : i \in DOMAIN q}
Doing == {c.id : c \in {awaiting} \ {None}}

\* While the run plans, the answers owed are those to the call that is carried
\* out and to the ones in the queue.
Owing == stage \in {"plan", "execute"} => owed = Doing \cup Waiting(queue)

Inv == TypeOK /\ StagesOK /\ IdsDiffer /\ Owing

-----------------------------------------------------------------------------
LEMMA InitInv == Init => Inv
<1>. SUFFICES ASSUME Init PROVE Inv
  OBVIOUS
<1>1. Polls \in Nat \ {0}
  BY BoundsAssumption DEF Polls
<1>2. TypeOK
  <2>1. 0 \in 0..max_turns /\ 0 \in 0..max_steps /\ 0 \in 0..Polls
    BY <1>1, BoundsAssumption
  <2>2. queue \in Seq(Call)
    BY DEF Init
  <2>. QED
    BY <2>1, <2>2 DEF Init, TypeOK
<1>. QED
  BY <1>2 DEF Inv, Init, StagesOK, IdsDiffer, Owing, Doing, Waiting

LEMMA Fields ==
    ASSUME NEW c \in Call
    PROVE  /\ c # None /\ c.id \in Nat /\ c.tool \in Tools
           /\ c.s \in SessionIds \cup {"$session"}
  BY NoneIsNoRecord DEF Call

LEMMA OwesQueue ==
    ASSUME Inv, stage = "plan"
    PROVE  Answered = Waiting(queue)
<1>1. owed = Doing \cup Waiting(queue)
  BY DEF Inv, Owing
<1>2. Doing \cap Waiting(queue) = {}
  <2>. SUFFICES ASSUME awaiting # None, NEW i \in DOMAIN queue, queue[i].id = awaiting.id
                PROVE  FALSE
    BY DEF Doing, Waiting
  <2>. QED
    BY DEF Inv, IdsDiffer
<1>. QED
  BY <1>1, <1>2 DEF Answered, Doing

LEMMA QueueHead ==
    ASSUME NEW q \in Seq(Call), q # << >>
    PROVE  /\ Head(q) \in Call /\ Tail(q) \in Seq(Call)
           /\ Waiting(q) = {Head(q).id} \cup Waiting(Tail(q))
           /\ (\A i, j \in DOMAIN q : q[i].id = q[j].id => i = j) =>
                 /\ \A i, j \in DOMAIN Tail(q) : Tail(q)[i].id = Tail(q)[j].id => i = j
                 /\ \A i \in DOMAIN Tail(q) : Tail(q)[i].id # Head(q).id
<1>1. /\ Head(q) \in Call /\ Tail(q) \in Seq(Call) /\ Len(Tail(q)) = Len(q) - 1
      /\ \A i \in 1..Len(Tail(q)) : Tail(q)[i] = q[i + 1]
  BY HeadTailProperties
<1>2. Head(q) = q[1] /\ Len(q) \in Nat \ {0} /\ DOMAIN q = 1..Len(q)
  OBVIOUS
<1>3. DOMAIN Tail(q) = 1..(Len(q) - 1)
  BY <1>1, <1>2
<1>4. \A i \in DOMAIN q : i = 1 \/ (i - 1 \in DOMAIN Tail(q) /\ Tail(q)[i - 1] = q[i])
  BY <1>1, <1>2, <1>3
<1>5. \A i \in DOMAIN Tail(q) : i + 1 \in DOMAIN q /\ i + 1 # 1 /\ Tail(q)[i] = q[i + 1]
  BY <1>1, <1>2, <1>3
<1>6. 1 \in DOMAIN q
  BY <1>2
<1>7. Waiting(q) \subseteq {Head(q).id} \cup Waiting(Tail(q))
  BY <1>2, <1>4 DEF Waiting
<1>8. {Head(q).id} \cup Waiting(Tail(q)) \subseteq Waiting(q)
  BY <1>2, <1>5, <1>6 DEF Waiting
<1>9. ASSUME \A i, j \in DOMAIN q : q[i].id = q[j].id => i = j
      PROVE  /\ \A i, j \in DOMAIN Tail(q) : Tail(q)[i].id = Tail(q)[j].id => i = j
             /\ \A i \in DOMAIN Tail(q) : Tail(q)[i].id # Head(q).id
  <2>1. ASSUME NEW i \in DOMAIN Tail(q), NEW j \in DOMAIN Tail(q), Tail(q)[i].id = Tail(q)[j].id
        PROVE  i = j
    <3>1. i + 1 = j + 1
      BY <1>5, <1>9, <2>1
    <3>. QED
      BY <3>1, <1>3
  <2>2. ASSUME NEW i \in DOMAIN Tail(q), Tail(q)[i].id = Head(q).id
        PROVE  FALSE
    BY <1>2, <1>5, <1>6, <1>9, <2>2
  <2>. QED
    BY <2>1, <2>2
<1>. QED
  BY <1>1, <1>7, <1>8, <1>9

\* A reply of the model becomes a queue of calls with numbers of their own.
LEMMA NumberedCalls ==
    ASSUME TypeOK, NEW reply \in Reply
    PROVE  /\ Numbered(reply) \in Seq(Call) /\ Numbered(reply) # << >>
           /\ \A i, j \in DOMAIN Numbered(reply) :
                Numbered(reply)[i].id = Numbered(reply)[j].id => i = j
<1>1. PICK k : k = MaxCalls * turns
  OBVIOUS
<1>2. k \in Nat
  BY <1>1, BoundsAssumption DEF TypeOK
<1>3. PICK n \in 1..MaxCalls : reply \in [1..n -> [tool : Tools, s : SessionIds \cup {"$session"}]]
  BY DEF Reply
<1>4. n \in Nat \ {0}
  BY <1>3, BoundsAssumption
<1>. DEFINE call(i) == [id |-> k + i, tool |-> reply[i].tool, s |-> reply[i].s]
<1>5. Numbered(reply) = [i \in 1..n |-> call(i)]
  BY <1>1, <1>3 DEF Numbered
<1>6. \A i \in 1..n : call(i) \in Call /\ call(i).id = k + i
  BY <1>2, <1>3, <1>4 DEF Call
<1>. HIDE DEF call
<1>7. Numbered(reply) \in Seq(Call) /\ Len(Numbered(reply)) = n /\ DOMAIN Numbered(reply) = 1..n
  BY <1>4, <1>5, <1>6
<1>8. \A i \in 1..n : Numbered(reply)[i].id = k + i
  BY <1>5, <1>6
<1>. QED
  BY <1>2, <1>4, <1>7, <1>8

-----------------------------------------------------------------------------
(* The planner.                                                            *)

LEMMA EmitInv ==
    ASSUME Inv, Planning, NEW q \in Seq(Call), q # << >>,
           \A i, j \in DOMAIN q : q[i].id = q[j].id => i = j,
           Emit(Head(q)), queue' = Tail(q), owed' = Waiting(q),
           turns' \in 0..max_turns, UNCHANGED <<store, runVars>>
    PROVE  Inv'
<1>1. /\ Head(q) \in Call /\ Tail(q) \in Seq(Call)
      /\ Waiting(q) = {Head(q).id} \cup Waiting(Tail(q))
      /\ \A i, j \in DOMAIN Tail(q) : Tail(q)[i].id = Tail(q)[j].id => i = j
      /\ \A i \in DOMAIN Tail(q) : Tail(q)[i].id # Head(q).id
  BY QueueHead
<1>2. PICK c, r : c = Head(q) /\ r = Tail(q)
  OBVIOUS
<1>3. /\ c \in Call /\ r \in Seq(Call) /\ owed' = {c.id} \cup Waiting(r)
      /\ \A i, j \in DOMAIN r : r[i].id = r[j].id => i = j
      /\ \A i \in DOMAIN r : r[i].id # c.id
      /\ Emit(c) /\ queue' = r
  BY <1>1, <1>2
<1>4. c # None
  BY <1>3, Fields
<1>5. TypeOK'
  BY <1>3 DEF Inv, TypeOK, Emit, runVars
<1>6. StagesOK'
  BY <1>4, <1>3 DEF Inv, StagesOK, Emit, Planning, runVars
<1>7. IdsDiffer'
  BY <1>3 DEF IdsDiffer, Emit
<1>8. Owing'
  <2>. SUFFICES ASSUME stage' = "execute" PROVE owed' = Doing' \cup Waiting(r)
    BY <1>3 DEF Owing, Emit, Waiting
  <2>1. awaiting' = c
    BY <1>3 DEF Emit
  <2>. QED
    BY <1>3, <1>4, <2>1 DEF Doing
<1>. QED
  BY <1>5, <1>6, <1>7, <1>8 DEF Inv

LEMMA PlanInv ==
    ASSUME Inv,
           EmitQueued \/ ChatProse \/ ChatEnds \/ StepsRunOut \/ \E reply \in Reply : ChatCalls(reply)
    PROVE  Inv'
<1>1. CASE EmitQueued
  <2>1. queue \in Seq(Call) /\ queue # << >>
    BY <1>1 DEF EmitQueued, Inv, TypeOK
  <2>2. Answered = Waiting(queue)
    BY <1>1, OwesQueue DEF EmitQueued, Planning
  <2>. QED
    BY <1>1, <2>1, <2>2, EmitInv DEF EmitQueued, Inv, IdsDiffer, TypeOK
<1>2. ASSUME NEW reply \in Reply, ChatCalls(reply) PROVE Inv'
  <2>1. PICK q : q = Numbered(reply)
    OBVIOUS
  <2>2. q \in Seq(Call) /\ q # << >> /\ \A i, j \in DOMAIN q : q[i].id = q[j].id => i = j
    BY <2>1, NumberedCalls DEF Inv
  <2>3. Answered = {}
    BY <1>2, OwesQueue DEF ChatCalls, MayChat, Planning, Waiting
  <2>4. /\ Planning /\ turns < max_turns /\ turns' = turns + 1
        /\ Emit(Head(q)) /\ queue' = Tail(q) /\ owed' = Waiting(q)
        /\ UNCHANGED <<store, runVars>>
    <3>1. DOMAIN reply = DOMAIN q
      BY <2>1 DEF Numbered
    <3>. QED
      BY <1>2, <2>1, <2>3, <3>1 DEF ChatCalls, MayChat, Waiting
  <2>5. turns' \in 0..max_turns
    BY <2>4, BoundsAssumption DEF Inv, TypeOK
  <2>. QED
    BY <2>2, <2>4, <2>5, EmitInv
<1>3. CASE ChatProse
  <2>1. queue' = queue /\ awaiting' = None /\ owed' = Waiting(queue)
    BY <1>3, OwesQueue DEF ChatProse, MayChat, Planning
  <2>2. turns' \in 0..max_turns
    BY <1>3, BoundsAssumption DEF ChatProse, MayChat, Inv, TypeOK
  <2>3. TypeOK'
    BY <1>3, <2>1, <2>2 DEF Inv, TypeOK, ChatProse, runVars
  <2>4. StagesOK' /\ IdsDiffer' /\ Owing'
    BY <1>3, <2>1 DEF ChatProse, MayChat, Planning, Inv, StagesOK, IdsDiffer, Owing, Doing, Waiting
  <2>. QED
    BY <2>3, <2>4 DEF Inv
<1>4. CASE ChatEnds
  <2>1. turns' \in 0..max_turns
    BY <1>4, BoundsAssumption DEF ChatEnds, Inv, TypeOK
  <2>2. TypeOK'
    BY <1>4, <2>1 DEF Inv, TypeOK, ChatEnds, runVars
  <2>. QED
    BY <1>4, <2>2 DEF ChatEnds, Inv, StagesOK, IdsDiffer, Owing
<1>5. CASE StepsRunOut
  BY <1>5 DEF StepsRunOut, Inv, TypeOK, StagesOK, IdsDiffer, Owing, plannerVars, runVars
<1>. QED
  BY <1>1, <1>2, <1>3, <1>4, <1>5

-----------------------------------------------------------------------------
(* The store.                                                              *)

\* A session that is over stays as it is, and one that waits for its payment
\* waits on or is over.
Moves(x, y) ==
    /\ y \in Row
    /\ x.status \in TERMINAL => y = x
    /\ x.status = PENDING => y.status \in {PENDING} \cup TERMINAL

LEMMA StoreStep ==
    ASSUME Inv, NEW s \in SessionIds, NEW y \in Row,
           store' = [store EXCEPT ![s] = y],
           store[s] # None => Moves(store[s], y)
    PROVE  /\ store' \in [SessionIds -> Row \cup {None}]
           /\ \A r \in SessionIds : store[r] # None => store'[r] # None /\ Moves(store[r], store'[r])
           /\ store'[s] = y
<1>1. store \in [SessionIds -> Row \cup {None}]
  BY DEF Inv, TypeOK
<1>2. y # None
  BY NoneIsNoRecord
<1>3. \A x \in Row : Moves(x, x)
  BY DEF Moves
<1>. QED
  BY <1>1, <1>2, <1>3
LEMMA Changes ==
    ASSUME Inv, Executing(Tools), NEW s \in SessionIds,
           DoCreate(s) \/ DoUpdate(s) \/ DoComplete(s) \/ DenyComplete(s)
    PROVE  /\ store' \in [SessionIds -> Row \cup {None}]
           /\ \A r \in SessionIds : store[r] # None => store'[r] # None /\ Moves(store[r], store'[r])
           /\ store'[s] \in Row
<1>1. store \in [SessionIds -> Row \cup {None}]
  BY DEF Inv, TypeOK
<1>2. CASE DoCreate(s)
  <2>1. PICK status \in EDITABLE : store' = [store EXCEPT ![s] = [status |-> status, attempt |-> 0]]
    BY <1>2 DEF DoCreate
  <2>2. [status |-> status, attempt |-> 0] \in Row
    BY DEF Row, Statuses
  <2>3. store[s] = None
    BY <1>2 DEF DoCreate
  <2>. QED
    BY <2>1, <2>2, <2>3, StoreStep
<1>3. CASE DoComplete(s)
  <2>1. store[s] # None /\ store[s].status = "ready_for_payment"
    BY <1>3 DEF DoComplete, Known
  <2>2. [status |-> PENDING, attempt |-> 1] \in Row
    BY DEF Row, Statuses
  <2>3. store' = [store EXCEPT ![s] = [status |-> PENDING, attempt |-> 1]]
    BY <1>3 DEF DoComplete
  <2>4. Moves(store[s], [status |-> PENDING, attempt |-> 1])
    BY <2>1, <2>2 DEF Moves, TERMINAL, PENDING
  <2>. QED
    BY <2>2, <2>3, <2>4, StoreStep
<1>4. CASE DoUpdate(s) \/ DenyComplete(s)
  <2>1. PICK status \in EDITABLE : store' = [store EXCEPT ![s].status = status]
    BY <1>4 DEF DoUpdate, DenyComplete
  <2>2. store[s] \in Row /\ store[s].status \in EDITABLE
    BY <1>1, <1>4 DEF DoUpdate, DenyComplete, Known, EDITABLE
  <2>. DEFINE y == [store[s] EXCEPT !.status = status]
  <2>3. y \in Row
    BY <2>2 DEF Row, Statuses
  <2>4. store' = [store EXCEPT ![s] = y]
    BY <2>1
  <2>5. Moves(store[s], y)
    BY <2>2, <2>3 DEF Moves, TERMINAL, PENDING, EDITABLE
  <2>. HIDE DEF y
  <2>. QED
    BY <2>3, <2>4, <2>5, StoreStep
<1>. QED
  BY <1>2, <1>3, <1>4

LEMMA OwnMoves ==
    ASSUME Inv, NEW s \in SessionIds, StoreMoves(s)
    PROVE  /\ store' \in [SessionIds -> Row \cup {None}]
           /\ \A r \in SessionIds : store[r] # None => store'[r] # None /\ Moves(store[r], store'[r])
<1>1. store[s] \in Row
  BY DEF StoreMoves, Inv, TypeOK
<1>2. PICK x : x = store[s]
  OBVIOUS
<1>3. PICK y \in Successors(x) : store' = [store EXCEPT ![s] = y]
  BY <1>2 DEF StoreMoves
<1>4. x \in Row
  BY <1>1, <1>2
<1>5. y \in Row /\ Moves(x, y)
  <2>1. CASE x.status = "requires_review"
    <3>1. y \in [status : {"ready_for_payment", "not_ready_for_payment", "canceled"}, attempt : {0}]
      BY <1>3, <2>1 DEF Successors, EDITABLE, TERMINAL, PENDING
    <3>. QED
      BY <2>1, <3>1 DEF Row, Moves, Statuses, EDITABLE, TERMINAL, PENDING
  <2>2. CASE x.status \in EDITABLE \ {"requires_review"}
    <3>1. y \in [status : {"canceled"}, attempt : {x.attempt}]
      BY <1>3, <2>2 DEF Successors, EDITABLE, TERMINAL, PENDING
    <3>. QED
      BY <1>4, <2>2, <3>1 DEF Row, Moves, Statuses, EDITABLE, TERMINAL, PENDING
  <2>3. CASE x.status = PENDING
    <3>1. \/ y \in [status : TERMINAL, attempt : {x.attempt}]
          \/ y = [status |-> PENDING, attempt |-> 2]
      BY <1>3, <2>3 DEF Successors, EDITABLE, TERMINAL, PENDING
    <3>. QED
      BY <1>4, <2>3, <3>1 DEF Row, Moves, Statuses, EDITABLE, TERMINAL, PENDING
  <2>4. CASE x.status \in TERMINAL
    BY <1>3, <2>4 DEF Successors, EDITABLE, TERMINAL, PENDING
  <2>. QED
    BY <1>4, <2>1, <2>2, <2>3, <2>4 DEF Row, Statuses
<1>. QED
  BY <1>2, <1>3, <1>5, StoreStep

-----------------------------------------------------------------------------
(* Calls to the store, and the end of a run.                               *)

LEMMA DoneInv ==
    ASSUME Inv, stage = "execute", StepDone,
           store' \in [SessionIds -> Row \cup {None}], session' \in View \cup {None}
    PROVE  Inv'
<1>1. steps < max_steps
  BY DEF Inv, StagesOK
<1>2. TypeOK'
  BY <1>1, BoundsAssumption DEF Inv, TypeOK, StepDone, plannerVars
<1>. QED
  BY <1>2 DEF Inv, StepDone, plannerVars, StagesOK, IdsDiffer, Owing, Doing, Waiting

LEMMA AnswerView ==
    ASSUME NEW s \in SessionIds, store'[s] \in Row
    PROVE  Answer(s) \in View
  BY DEF Answer, View, Row

LEMMA ExecuteInv ==
    ASSUME Inv, Change \/ Get \/ Refused
    PROVE  Inv'
<1>1. stage = "execute" /\ StepDone /\ awaiting.tool \in Tools
  BY DEF Change, Get, Refused, Executing, Tools
<1>2. store \in [SessionIds -> Row \cup {None}] /\ session \in View \cup {None}
  BY DEF Inv, TypeOK
<1>3. CASE Change
  <2>1. PICK s \in SessionIds : (DoCreate(s) \/ DoUpdate(s) \/ DoComplete(s)) /\ session' = Answer(s)
    BY <1>3 DEF Change
  <2>2. store' \in [SessionIds -> Row \cup {None}] /\ store'[s] \in Row
    BY <1>1, <2>1, Changes DEF Executing
  <2>. QED
    BY <1>1, <2>1, <2>2, AnswerView, DoneInv
<1>4. CASE Get
  <2>1. Target \in SessionIds /\ store[Target] # None
    <3>1. awaiting \in Call
      BY <1>1 DEF Inv, TypeOK, StagesOK
    <3>2. awaiting.s \in SessionIds \cup {"$session"}
      BY <3>1, Fields
    <3>3. session # None => session.id \in SessionIds
      BY <1>2 DEF View
    <3>. QED
      BY <1>4, <3>2, <3>3 DEF Get, Known, Target
  <2>2. PICK s \in SessionIds : s = Target
    BY <2>1
  <2>3. store' = store /\ session' = Checked(Answer(s)) /\ store'[s] \in Row
    BY <1>2, <1>4, <2>1, <2>2 DEF Get
  <2>4. session' \in View \cup {None}
    BY <1>2, <2>3, AnswerView DEF Checked
  <2>. QED
    BY <1>1, <1>2, <2>3, <2>4, DoneInv
<1>5. CASE Refused
  <2>1. session' = session
    BY <1>5 DEF Refused
  <2>2. store' \in [SessionIds -> Row \cup {None}]
    BY <1>1, <1>2, <1>5, Changes DEF Refused, Executing
  <2>. QED
    BY <1>1, <1>2, <2>1, <2>2, DoneInv
<1>. QED
  BY <1>3, <1>4, <1>5
LEMMA PollView ==
    ASSUME Inv, Poll, store[session.id] # None
    PROVE  /\ session \in View /\ session' \in View
           /\ session'.id = session.id /\ session'.status = store[session.id].status
<1>1. session \in View
  BY DEF Poll, Inv, TypeOK, StagesOK
<1>2. PICK s, x : s = session.id /\ x = store[session.id]
  OBVIOUS
<1>3. s \in SessionIds /\ x \in Row
  BY <1>1, <1>2 DEF View, Inv, TypeOK
<1>4. session' = [id |-> s, status |-> x.status, attempt |-> x.attempt]
  BY <1>2 DEF Poll
<1>. QED
  BY <1>1, <1>2, <1>3, <1>4 DEF View, Row

LEMMA WaitInv ==
    ASSUME Inv, session # None => store[session.id] # None,
           Classify \/ WaitForPayment \/ Poll \/ StopWaiting
    PROVE  Inv'
<1>1. Polls \in Nat \ {0}
  BY BoundsAssumption DEF Polls
<1>2. CASE Classify \/ StopWaiting
  BY <1>2 DEF Classify, StopWaiting, Ends, plannerVars, Inv, TypeOK, StagesOK, IdsDiffer, Owing
<1>3. CASE WaitForPayment
  <2>1. polls_left' \in 0..Polls /\ polls_left' >= 1
    BY <1>1, <1>3 DEF WaitForPayment
  <2>. QED
    BY <1>3, <2>1 DEF WaitForPayment, Pending, plannerVars, Inv, TypeOK, StagesOK, IdsDiffer, Owing
<1>4. CASE Poll
  <2>1. /\ session' \in View /\ session' # None
    <3>1. session' \in View
      BY <1>4, PollView DEF Poll, Inv, StagesOK
    <3>. QED
      BY <3>1, NoneIsNoRecord
  <2>2. polls_left' \in 0..Polls
    BY <1>1, <1>4 DEF Poll, Inv, TypeOK, StagesOK
  <2>3. stage' = "over" \/ (stage' = "poll" /\ polls_left' >= 1)
    <3>1. CASE session'.status \in TERMINAL \/ polls_left' = 0
      BY <1>4, <3>1 DEF Poll, Ends
    <3>2. CASE ~(session'.status \in TERMINAL \/ polls_left' = 0)
      <4>1. stage' = "poll" /\ stage = "poll"
        BY <1>4, <3>2 DEF Poll
      <4>. QED
        BY <1>1, <2>2, <3>2, <4>1
    <3>. QED
      BY <3>1, <3>2
  <2>. QED
    BY <1>4, <2>1, <2>2, <2>3 DEF Poll, plannerVars, Inv, TypeOK, StagesOK, IdsDiffer, Owing
<1>. QED
  BY <1>2, <1>3, <1>4

-----------------------------------------------------------------------------
\* What the agent believes of its session is what the store says, or said
\* before it moved on.
SeenOf(v, x) ==
    /\ x # None
    /\ v.status \in TERMINAL => x.status = v.status
    /\ v.status = PENDING => x.status \in {PENDING} \cup TERMINAL

BeliefInv ==
    /\ session # None => SeenOf(session, store[session.id])
    /\ stage = "over" => outcome = OutcomeOf(session)

LEMMA BeliefStays ==
    ASSUME Inv, BeliefInv, UNCHANGED session,
           \A r \in SessionIds : store[r] # None => store'[r] # None /\ Moves(store[r], store'[r])
    PROVE  session # None => SeenOf(session, store'[session.id])
<1>. SUFFICES ASSUME session # None PROVE SeenOf(session, store'[session.id])
  OBVIOUS
<1>1. PICK s : s = session.id
  OBVIOUS
<1>2. s \in SessionIds
  BY <1>1 DEF Inv, TypeOK, View
<1>3. SeenOf(session, store[s])
  BY <1>1 DEF BeliefInv
<1>. QED
  BY <1>1, <1>2, <1>3 DEF SeenOf, Moves, TERMINAL, PENDING

LEMMA BeliefAnswer ==
    ASSUME NEW s \in SessionIds, store'[s] \in Row, session' = Answer(s)
    PROVE  SeenOf(session', store'[session'.id])
<1>1. session'.id = s /\ session'.status = store'[s].status
  BY DEF Answer
<1>2. store'[s] # None
  BY NoneIsNoRecord
<1>. QED
  BY <1>1, <1>2 DEF SeenOf

LEMMA BeliefNext ==
    ASSUME Inv, BeliefInv, [Next]_vars
    PROVE  BeliefInv'
<1>1. ASSUME UNCHANGED session,
             \/ UNCHANGED store
             \/ \A r \in SessionIds : store[r] # None => store'[r] # None /\ Moves(store[r], store'[r])
      PROVE  session' # None => SeenOf(session', store'[session'.id])
  BY <1>1, BeliefStays DEF BeliefInv
<1>2. CASE UNCHANGED vars
  BY <1>1, <1>2 DEF vars, runVars, BeliefInv
<1>3. CASE \/ EmitQueued \/ ChatProse \/ ChatEnds \/ StepsRunOut
           \/ \E reply \in Reply : ChatCalls(reply)
  <2>1. UNCHANGED <<store, session>> /\ stage' # "over"
    BY <1>3 DEF EmitQueued, ChatProse, ChatEnds, StepsRunOut, ChatCalls, MayChat, Planning, Emit, runVars
  <2>. QED
    BY <1>1, <2>1 DEF BeliefInv
<1>4. CASE Change
  <2>1. PICK s \in SessionIds : (DoCreate(s) \/ DoUpdate(s) \/ DoComplete(s)) /\ session' = Answer(s)
    BY <1>4 DEF Change
  <2>2. store'[s] \in Row
    BY <1>4, <2>1, Changes DEF Change, Executing, Tools
  <2>3. stage' = "plan"
    BY <1>4 DEF Change, StepDone
  <2>. QED
    BY <2>1, <2>2, <2>3, BeliefAnswer DEF BeliefInv
<1>5. CASE Get
  <2>1. stage' = "plan" /\ store' = store
    BY <1>5 DEF Get, StepDone
  <2>2. CASE session' = session
    BY <1>1, <2>1, <2>2 DEF BeliefInv
  <2>3. CASE session' # session
    <3>1. PICK s : s = Target
      OBVIOUS
    <3>2. session' = Answer(s) /\ store[s] # None
      BY <1>5, <2>3, <3>1 DEF Get, Checked, Known
    <3>3. session'.id = s /\ session'.status = store'[s].status
      BY <3>2 DEF Answer
    <3>. QED
      BY <2>1, <3>2, <3>3 DEF BeliefInv, SeenOf
  <2>. QED
    BY <2>2, <2>3
<1>6. CASE Refused
  <2>1. stage' = "plan" /\ session' = session
    BY <1>6 DEF Refused, StepDone
  <2>2. \/ UNCHANGED store
        \/ \A r \in SessionIds : store[r] # None => store'[r] # None /\ Moves(store[r], store'[r])
    BY <1>6, Changes DEF Refused
  <2>. QED
    BY <1>1, <2>1, <2>2 DEF BeliefInv
<1>7. CASE Classify \/ WaitForPayment \/ StopWaiting
  <2>1. UNCHANGED <<store, session>> /\ (stage' = "over" => outcome' = OutcomeOf(session))
    BY <1>7 DEF Classify, WaitForPayment, StopWaiting, Ends
  <2>. QED
    BY <1>1, <2>1 DEF BeliefInv, OutcomeOf
<1>8. CASE Poll
  <2>1. session # None /\ store[session.id] # None
    BY <1>8 DEF Poll, Inv, StagesOK, BeliefInv, SeenOf
  <2>2. store' = store /\ session'.id = session.id /\ session'.status = store[session.id].status
    BY <1>8, <2>1, PollView DEF Poll
  <2>3. stage' = "over" => outcome' = OutcomeOf(session')
    BY <1>8 DEF Poll, Ends
  <2>. QED
    BY <2>1, <2>2, <2>3 DEF BeliefInv, SeenOf, OutcomeOf
<1>9. ASSUME NEW s \in SessionIds, StoreMoves(s) PROVE BeliefInv'
  <2>1. UNCHANGED <<stage, session, outcome>>
    BY <1>9 DEF StoreMoves, runVars
  <2>. QED
    BY <1>1, <1>9, <2>1, OwnMoves DEF BeliefInv
<1>. QED
  BY <1>2, <1>3, <1>4, <1>5, <1>6, <1>7, <1>8, <1>9 DEF Next, Step

LEMMA NextInv ==
    ASSUME Inv, BeliefInv, [Next]_vars
    PROVE  Inv'
<1>1. CASE UNCHANGED vars
  BY <1>1 DEF vars, plannerVars, runVars, Inv, TypeOK, StagesOK, IdsDiffer, Owing, Doing
<1>2. ASSUME NEW s \in SessionIds, StoreMoves(s) PROVE Inv'
  BY <1>2, OwnMoves DEF StoreMoves, plannerVars, runVars, Inv, TypeOK, StagesOK, IdsDiffer, Owing, Doing
<1>3. session # None => store[session.id] # None
  BY DEF BeliefInv, SeenOf
<1>. QED
  BY <1>1, <1>2, <1>3, PlanInv, ExecuteInv, WaitInv DEF Next, Step

LEMMA Always == Spec => [](Inv /\ BeliefInv)
<1>1. Init => BeliefInv
  BY DEF Init, BeliefInv
<1>2. Inv /\ BeliefInv /\ [Next]_vars => Inv' /\ BeliefInv'
  BY BeliefNext, NextInv
<1>. QED
  BY <1>1, <1>2, InitInv, PTL DEF Spec

\* A run never takes more steps or turns than it may, waits only for a session
\* it has, and carries out only calls the model made.
THEOREM BuyerTypes == Spec => []TypeOK
<1>1. Inv => TypeOK
  BY DEF Inv
<1>. QED
  BY <1>1, Always, PTL

\* Whatever the model asks for in one reply, each of its calls is answered
\* before the model is asked again.
THEOREM CallsAreAnswered == Spec => []NoCallForgotten
<1>1. Inv => NoCallForgotten
  <2>. SUFFICES ASSUME Inv, stage \in {"plan", "execute"}
                PROVE  owed = {c.id : c \in ({awaiting} \ {None}) \cup ToSet(queue)}
    BY DEF NoCallForgotten
  <2>1. owed = Doing \cup Waiting(queue)
    BY DEF Inv, Owing
  <2>. QED
    BY <2>1 DEF Doing, Waiting, ToSet
<1>. QED
  BY <1>1, Always, PTL

\* The outcome a run reports of its session is true of the store, however the
\* store moves while the run plans, waits and gives up.
THEOREM ReportsAreTrue == Spec => []ReportIsTrue
<1>1. Inv /\ BeliefInv => ReportIsTrue
  <2>. SUFFICES ASSUME Inv, BeliefInv, stage = "over", session # None
                PROVE  LET status == store[session.id].status
                       IN  /\ outcome = "paid" => status = "completed"
                           /\ outcome = "canceled" => status = "canceled"
                           /\ outcome = PENDING => status \in {PENDING} \cup TERMINAL
    BY DEF ReportIsTrue
  <2>1. PICK v, x : v = session /\ x = store[session.id]
    OBVIOUS
  <2>2. outcome = OutcomeOf(v) /\ SeenOf(v, x) /\ v # None /\ v.status \in Statuses
    BY <2>1 DEF BeliefInv, Inv, TypeOK, View
  <2>3. outcome = "paid" => v.status = "completed"
    BY <2>2 DEF OutcomeOf, Statuses, EDITABLE, TERMINAL, PENDING
  <2>4. outcome = "canceled" => v.status = "canceled"
    BY <2>2 DEF OutcomeOf, Statuses, EDITABLE, TERMINAL, PENDING
  <2>5. outcome = PENDING => v.status = PENDING
    BY <2>2 DEF OutcomeOf, Statuses, EDITABLE, TERMINAL, PENDING
  <2>. QED
    BY <2>1, <2>2, <2>3, <2>4, <2>5 DEF SeenOf, TERMINAL, PENDING
<1>. QED
  BY <1>1, Always, PTL
=============================================================================
