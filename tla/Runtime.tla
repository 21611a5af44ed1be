------------------------------ MODULE Runtime ------------------------------
(***************************************************************************)
(* The runtime inside one actor (harness/runtime.go) and the adapter that    *)
(* drives an agent's Execute() in it (harness/agent.go), as operators on the *)
(* runtime's state.                                                         *)
(*                                                                         *)
(* An agent's Execute() call is an invocation.  It suspends when it calls    *)
(* another agent or reports that it is still working: the envelope it hands  *)
(* out ends the actor's turn, and the invocation stays blocked in the actor  *)
(* until the reply that carries its token arrives in a later turn.           *)
(*                                                                         *)
(* That a turn is carried out and logged exactly once, whatever fails, is    *)
(* Turn's subject: here Connect happens once per StepID.  Envelopes carry    *)
(* one ghost, caller: the invocation an answer to them is meant for.         *)
(***************************************************************************)
EXTENDS Naturals, FiniteSets

CONSTANTS
    Agent,     \* the agents that a session may talk to, one actor each
    Client     \* checkpointdIdentity, the party outside every actor

ASSUME ClientAssumption == Client \notin Agent

\* hop.Data: nothing, a bare Message, or a Task in some state.
TaskData == {"working", "input", "completed", "canceled"}
Data == {"none", "message"} \cup TaskData

Nobody == <<Client, 0>>
Envelope == [from : Agent \cup {Client}, to : Agent \cup {Client}, corr : Nat, step : Nat,
             reply : BOOLEAN, data : Data, caller : (Agent \cup {Client}) \X Nat]

\* A client's message: no correlation, and a StepID only once one is minted.
ClientMessage(agent) ==
    [from |-> Client, to |-> agent, corr |-> 0, step |-> 0, reply |-> FALSE,
     data |-> "message", caller |-> Nobody]
NoEnvelope == [from |-> Client, to |-> Client, corr |-> 0, step |-> 0, reply |-> FALSE,
               data |-> "none", caller |-> Nobody]

\* An invocation: the StepID it was spawned with, the StepID that unblocked it
\* last, what it has to answer, and whether a Task was claimed for its task
\* before it (StoredTask) or by it.
Invocation == [id : Nat, step : Nat, from : Agent \cup {Client}, corr : Nat,
               caller : (Agent \cup {Client}) \X Nat, stored : BOOLEAN, claimed : BOOLEAN]

\* actorRuntime: lastInputID, lastOutput and the blocked invocations.  waiting
\* is keyed by token, and a token is always its invocation's current stepID.
RuntimeState == [last : Nat, out : Envelope, waiting : SUBSET Invocation]
NewRuntime == [last |-> 0, out |-> NoEnvelope, waiting |-> {}]

\* The last turn ended with its invocation blocked.
Suspended(r) == \E i \in r.waiting : i.step = r.last

-----------------------------------------------------------------------------
(***************************************************************************)
(* What an invocation may hand out, and whether it then stays blocked.       *)
(***************************************************************************)

\* pipeTransport.SendMessage: a request to target under the invocation's token.
SendMessage(a, inv, target) ==
    [env |-> [from |-> a, to |-> target, corr |-> inv.step, step |-> 0, reply |-> FALSE,
              data |-> "message", caller |-> <<a, inv.id>>],
     blocked |-> {inv}]

\* A Working or Submitted status: a hop to the agent itself, marked as the
\* reply that will unblock this invocation.
flushSelf(a, inv) ==
    [env |-> [from |-> a, to |-> a, corr |-> inv.step, step |-> 0, reply |-> TRUE,
              data |-> "working", caller |-> <<a, inv.id>>],
     blocked |-> {[inv EXCEPT !.claimed = TRUE]}]

\* Mutated form: the reply names the turn it ends instead of the call it answers.
runInvocation_OwnStep(a, inv, d) ==
    [env |-> [from |-> a, to |-> inv.from, corr |-> inv.step, step |-> 0, reply |-> TRUE,
              data |-> d, caller |-> inv.caller],
     blocked |-> {}]

\* Execute() returned with d: the reply to whoever sent the invocation's message.
runInvocation(a, inv, d) ==
    [env |-> [from |-> a, to |-> inv.from, corr |-> inv.corr, step |-> 0, reply |-> TRUE,
              data |-> d, caller |-> inv.caller],
     blocked |-> {}]

\* What Execute() may return: no bare Message once a Task is established, no
\* Working at the end, and possibly no event at all.
Results(inv) ==
    {"input", "completed"}
        \cup (IF inv.claimed THEN {} ELSE {"none"})
        \cup (IF inv.claimed \/ inv.stored THEN {} ELSE {"message"})

Returns(a, inv) == {runInvocation(a, inv, d) : d \in Results(inv)}
Suspends(a, inv) == {SendMessage(a, inv, t) : t \in Agent} \cup {flushSelf(a, inv)}

-----------------------------------------------------------------------------
(***************************************************************************)
(* Connect, for the envelope that a turn of agent a delivers.  history is    *)
(* the sequence of that actor's earlier envelopes that comes with it.        *)
(***************************************************************************)

\* The claims of a itself in its history: storedHistory keeps the last Task.
OwnReply(a, env) == env.from = a /\ env.reply
Stored(a, history) ==
    \E i \in DOMAIN history : OwnReply(a, history[i]) /\ history[i].data \in TaskData

\* A bare reply of a after a Task of its: Connect refuses every such history.
Reverted(a, history) ==
    \E i, j \in DOMAIN history :
        /\ i < j
        /\ OwnReply(a, history[i]) /\ history[i].data \in TaskData
        /\ OwnReply(a, history[j]) /\ history[j].data \notin TaskData

\* The turn of env ends with what its invocation hands out: routeOrAwait stamps
\* the turn's StepID on it and remembers the pair.
routeOrAwait(r, env, y) ==
    [last |-> env.step, out |-> [y.env EXCEPT !.step = env.step],
     waiting |-> {i \in r.waiting : ~(env.reply /\ i.step = env.corr)} \cup y.blocked]

spawn(a, env, history) ==
    [id |-> env.step, step |-> env.step, from |-> env.from, corr |-> env.corr,
     caller |-> env.caller, stored |-> Stored(a, history), claimed |-> FALSE]

\* The invocation that env is for.  A reply that matches no token is refused.
deliverOnce(a, r, env, history) ==
    IF env.reply
    THEN {[i EXCEPT !.step = env.step] : i \in {w \in r.waiting : w.step = env.corr}}
    ELSE {spawn(a, env, history)}

\* The states a turn may leave the runtime in; its reply is their .out.  None:
\* Connect returns an error, now and whenever the turn is retried.
Connect(a, r, env, history, maySuspend) ==
    IF Reverted(a, history) THEN {}
    ELSE IF env.step = r.last THEN {r}
    ELSE UNION {{routeOrAwait(r, env, y) :
                    y \in Returns(a, inv) \cup (IF maySuspend THEN Suspends(a, inv) ELSE {})} :
                inv \in deliverOnce(a, r, env, history)}

=============================================================================
