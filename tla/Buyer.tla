------------------------------- MODULE Buyer -------------------------------
(***************************************************************************)
(* The demo buyer: dwarpal/buyer/agent.py and planner.py, one run against  *)
(* the agent API.  A language model plans: each of its replies is an error,*)
(* prose, or a list of tool calls, which the agent carries out one by one, *)
(* and after a bounded number of steps the run waits for the payment and   *)
(* says how it ended.                                                      *)
(*                                                                         *)
(* One action is one call to the model or to the store.  The store is kept *)
(* to what the agent reads of a session, its status and attempt, and moves *)
(* on its own as merchant, customer and reconciler act.  Products and      *)
(* carts, the narration and the wording of errors are left out.            *)
(***************************************************************************)
EXTENDS Integers, SequencesExt, Absent

CONSTANTS
    SessionIds,         \* ids the store may give to new sessions
    max_steps,          \* actions per run
    max_turns,          \* model calls per run
    MaxCalls,           \* bound: tool calls in one reply of the model
    wait_for_payment_s, \* how long the run waits for the payment...
    poll_every_s        \* ... and the time between two looks at it

ASSUME BoundsAssumption ==
    /\ {max_steps, max_turns, wait_for_payment_s} \subseteq Nat
    /\ {MaxCalls, poll_every_s} \subseteq Nat \ {0}
ASSUME NoneIsNoId == None \notin SessionIds

VARIABLES
    store,              \* store[s]: status and attempt of s, None before create
    stage,              \* "plan", "execute", "wait", "poll" or "over"
    turns,              \* model calls made
    nudged,             \* the model was asked again in this step
    queue,              \* tool calls of the last reply that wait their turn
    awaiting,           \* the tool call that is carried out, or None
    owed,               \* ids of the tool calls the conversation has not answered
    steps,              \* actions carried out
    session,            \* the agent's view of its session, or None
    polls_left,
    outcome

plannerVars == <<turns, nudged, queue, awaiting, owed>>
runVars == <<steps, session, polls_left, outcome>>
vars == <<store, stage, plannerVars, runVars>>

EDITABLE == {"not_ready_for_payment", "requires_review", "ready_for_payment"}
PENDING  == "payment_pending"
TERMINAL == {"completed", "canceled"}
Statuses == EDITABLE \cup {PENDING} \cup TERMINAL

\* "browse" stands for every tool that concerns no session: list_products,
\* and a name or arguments the agent does not accept.
Tools == {"browse", "create", "update", "complete", "get", "done"}
Call == [id : Nat, tool : Tools, s : SessionIds \cup {"$session"}]
Row == [status : Statuses, attempt : 0..2]
View == [id : SessionIds, status : Statuses, attempt : 0..2]

Init ==
    /\ store = [s \in SessionIds |-> None]
    /\ stage = "plan" /\ turns = 0 /\ nudged = FALSE
    /\ queue = << >> /\ awaiting = None /\ owed = {}
    /\ steps = 0 /\ session = None
    /\ polls_left = 0 /\ outcome = None

-----------------------------------------------------------------------------
(* Planning: LLMPlanner.decide.                                            *)

\* The result of the last action becomes a tool message.
Answered == owed \ {c.id : c \in {awaiting} \ {None}}

\* The next action of the run.  The action that is carried out is not counted
\* when it is done.
Emit(c) ==
    /\ awaiting' = IF c.tool = "done" THEN None ELSE c
    /\ stage' = IF c.tool = "done" THEN "wait" ELSE "execute"
    /\ nudged' = FALSE

\* Every step takes one decision of the planner, until the steps run out.
Planning == stage = "plan" /\ steps < max_steps

EmitQueued ==
    /\ Planning /\ queue # << >>
    /\ Emit(Head(queue)) /\ queue' = Tail(queue)
    /\ owed' = Answered
    /\ UNCHANGED <<store, turns, runVars>>

\* Mutant: the model is asked again while calls of its last reply wait.
MayChatEarly == Planning /\ turns < max_turns

\* Mutant: one model call too many.
MayChatOnceMore == Planning /\ queue = << >> /\ turns <= max_turns

MayChat == Planning /\ queue = << >> /\ turns < max_turns

\* The ids of a reply are new: the model numbers its calls.
Reply == UNION {[1..n -> [tool : Tools, s : SessionIds \cup {"$session"}]] : n \in 1..MaxCalls}

Numbered(reply) ==
    [i \in DOMAIN reply |-> [id |-> MaxCalls * turns + i, tool |-> reply[i].tool, s |-> reply[i].s]]

ChatCalls(reply) ==
    /\ MayChat
    /\ turns' = turns + 1
    /\ LET calls == Numbered(reply)
       IN  /\ Emit(Head(calls)) /\ queue' = Tail(calls)
           /\ owed' = Answered \cup {calls[i].id : i \in DOMAIN calls}
    /\ UNCHANGED <<store, runVars>>

\* Prose: the model is asked once more to call a tool.
ChatProse ==
    /\ MayChat /\ ~nudged
    /\ turns' = turns + 1 /\ nudged' = TRUE
    /\ awaiting' = None /\ owed' = Answered
    /\ UNCHANGED <<store, stage, queue, runVars>>

\* A model error, prose once more, or no turn left: the planner is done.
ChatEnds ==
    /\ Planning /\ queue = << >>
    /\ \/ turns < max_turns /\ turns' = turns + 1
       \/ turns >= max_turns /\ turns' = turns
    /\ stage' = "wait" /\ nudged' = FALSE
    /\ awaiting' = None /\ owed' = Answered
    /\ UNCHANGED <<store, queue, runVars>>

StepsRunOut ==
    /\ stage = "plan" /\ steps >= max_steps
    /\ stage' = "wait"
    /\ UNCHANGED <<store, plannerVars, runVars>>

-----------------------------------------------------------------------------
(* One action against the store: BuyerAgent._execute and the client.       *)

\* The session a call names.
Target == IF awaiting.s # "$session" THEN awaiting.s
          ELSE IF session = None THEN None ELSE session.id

Executing(tools) == stage = "execute" /\ awaiting.tool \in tools

\* What the agent sees of s in an answer.
Answer(s) == [id |-> s, status |-> store'[s].status, attempt |-> store'[s].attempt]

StepDone ==
    /\ stage' = "plan" /\ steps' = steps + 1
    /\ UNCHANGED <<plannerVars, polls_left, outcome>>

Known(s) == s # None /\ store[s] # None

\* What the store makes of a call on session s.  What the gate says to a cart
\* is the store's affair.
DoCreate(s) ==
    /\ awaiting.tool = "create" /\ store[s] = None
    /\ \E status \in EDITABLE :
         store' = [store EXCEPT ![s] = [status |-> status, attempt |-> 0]]

DoUpdate(s) ==
    /\ awaiting.tool = "update" /\ s = Target /\ Known(s)
    /\ store[s].status \in EDITABLE
    /\ \E status \in EDITABLE : store' = [store EXCEPT ![s].status = status]

DoComplete(s) ==
    /\ awaiting.tool = "complete" /\ s = Target /\ Known(s)
    /\ store[s].status = "ready_for_payment"
    /\ store' = [store EXCEPT ![s] = [status |-> PENDING, attempt |-> 1]]

\* The gate may deny a complete it would have allowed before.
DenyComplete(s) ==
    /\ awaiting.tool = "complete" /\ s = Target /\ Known(s)
    /\ store[s].status = "ready_for_payment"
    /\ \E status \in EDITABLE \ {"ready_for_payment"} :
         store' = [store EXCEPT ![s].status = status]

Change ==
    /\ Executing({"create", "update", "complete"})
    /\ \E s \in SessionIds :
         /\ DoCreate(s) \/ DoUpdate(s) \/ DoComplete(s)
         /\ session' = Answer(s)
    /\ StepDone

\* Mutant: the status of whatever session was asked for.
CheckedAny(seen) ==
    IF session = None THEN seen ELSE [seen EXCEPT !.id = session.id]

\* A look at another session does not change the agent's own.
Checked(seen) == IF session = None \/ seen.id = session.id THEN seen ELSE session

Get ==
    /\ Executing({"get"}) /\ Known(Target)
    /\ UNCHANGED store
    /\ session' = Checked(Answer(Target))
    /\ StepDone

\* The call cannot be made, is refused, or is answered with an error after the
\* store has done it: the model reads of the error, the session stays as it was.
Refused ==
    /\ Executing(Tools)
    /\ \/ UNCHANGED store
       \/ \E s \in SessionIds :
             DoCreate(s) \/ DoUpdate(s) \/ DoComplete(s) \/ DenyComplete(s)
    /\ UNCHANGED session
    /\ StepDone

-----------------------------------------------------------------------------
(* The end of a run: _wait_and_classify.                                   *)

OutcomeOf(s) ==
    CASE s = None                                       -> "no_plan"
      [] s # None /\ s.status = "completed"             -> "paid"
      [] s # None /\ s.status = "not_ready_for_payment" -> "refused"
      [] s # None /\ s.status = "ready_for_payment"     -> "incomplete"
      [] s # None /\ s.status \in {PENDING, "requires_review", "canceled"} -> s.status

Ends(s) == stage' = "over" /\ outcome' = OutcomeOf(s)

Pending == session # None /\ session.status = PENDING

Classify ==
    /\ stage = "wait" /\ ~(Pending /\ wait_for_payment_s > 0)
    /\ Ends(session)
    /\ UNCHANGED <<store, plannerVars, steps, session, polls_left>>

Polls == LET n == wait_for_payment_s \div poll_every_s IN IF n > 1 THEN n ELSE 1

WaitForPayment ==
    /\ stage = "wait" /\ Pending /\ wait_for_payment_s > 0
    /\ stage' = "poll" /\ polls_left' = Polls
    /\ UNCHANGED <<store, plannerVars, steps, session, outcome>>

\* Mutant: only the clock ends the wait, and with a fake sleep it stands still.
PollWithoutEnd ==
    /\ stage = "poll"
    /\ session' = [id |-> session.id, status |-> store[session.id].status,
                   attempt |-> store[session.id].attempt]
    /\ IF session'.status \in TERMINAL
       THEN Ends(session')
       ELSE UNCHANGED <<stage, outcome>>
    /\ UNCHANGED <<store, plannerVars, steps, polls_left>>

\* The run looks at its session until the payment is decided or the polls run
\* out.
Poll ==
    /\ stage = "poll"
    /\ polls_left' = polls_left - 1
    /\ session' = [id |-> session.id, status |-> store[session.id].status,
                   attempt |-> store[session.id].attempt]
    /\ IF session'.status \in TERMINAL \/ polls_left' = 0
       THEN Ends(session')
       ELSE UNCHANGED <<stage, outcome>>
    /\ UNCHANGED <<store, plannerVars, steps>>

\* The deadline has passed, or a poll failed.
StopWaiting ==
    /\ stage = "poll"
    /\ Ends(session)
    /\ UNCHANGED <<store, plannerVars, steps, session, polls_left>>

-----------------------------------------------------------------------------
(* The store between two calls.                                            *)

\* What merchant, customer and reconciler may make of a session.
Successors(x) ==
    CASE x.status = "requires_review" ->
           [status : {"ready_for_payment", "not_ready_for_payment", "canceled"}, attempt : {0}]
      [] x.status \in EDITABLE \ {"requires_review"} -> [status : {"canceled"}, attempt : {x.attempt}]
      [] x.status = PENDING ->
           [status : TERMINAL, attempt : {x.attempt}] \cup
           (IF x.attempt = 1 THEN {[status |-> PENDING, attempt |-> 2]} ELSE {})
      [] x.status \in TERMINAL -> {}

StoreMoves(s) ==
    /\ store[s] # None
    /\ \E x \in Successors(store[s]) : store' = [store EXCEPT ![s] = x]
    /\ UNCHANGED <<stage, plannerVars, runVars>>

-----------------------------------------------------------------------------
Step ==
    \/ EmitQueued \/ ChatProse \/ ChatEnds \/ StepsRunOut
    \/ \E reply \in Reply : ChatCalls(reply)
    \/ Change \/ Get \/ Refused
    \/ Classify \/ WaitForPayment \/ Poll

Next == Step \/ StopWaiting \/ \E s \in SessionIds : StoreMoves(s)

\* A call to the model or the store returns: both have a timeout.  Nothing is
\* assumed of the deadline: with a payments adapter that is a fake, sleeping
\* does nothing and the clock may stand still.
Spec == Init /\ [][Next]_vars /\ WF_vars(Step)

-----------------------------------------------------------------------------
(* Properties.                                                             *)

ASSUME NoneIsNoRecord == None \notin Call \cup View \cup Row

TypeOK ==
    /\ store \in [SessionIds -> Row \cup {None}]
    /\ stage \in {"plan", "execute", "wait", "poll", "over"}
    /\ turns \in 0..max_turns /\ steps \in 0..max_steps /\ nudged \in BOOLEAN
    /\ queue \in Seq(Call) /\ awaiting \in Call \cup {None}
    /\ session \in View \cup {None}
    /\ polls_left \in 0..Polls

\* While the run plans, the conversation has an answer to every tool call but
\* the one being carried out and those that wait: when the model is asked
\* again it owes nothing, which is what a chat endpoint requires.  (decide
\* answers before it looks at the queue, and the queue before it asks.)
NoCallForgotten ==
    stage \in {"plan", "execute"} =>
        owed = {c.id : c \in ({awaiting} \ {None}) \cup ToSet(queue)}

\* What the run reports of its session is true of the store: a paid order is
\* completed, a canceled one is canceled, and a payment the user is sent to
\* was really asked for.
ReportIsTrue ==
    stage = "over" /\ session # None =>
        LET status == store[session.id].status
        IN  /\ outcome = "paid" => status = "completed"
            /\ outcome = "canceled" => status = "canceled"
            /\ outcome = PENDING => status \in {PENDING} \cup TERMINAL

\* Whatever the model answers and the store does, a run comes to an end.
RunEnds == <>(stage = "over")
=============================================================================
