------------------------------- MODULE Relay -------------------------------
(***************************************************************************)
(* The relay loop of one session at the grain of its event log: agents that  *)
(* call each other, report progress and answer, every envelope carried from  *)
(* actor to actor by checkpointd, each hop logged by three Appends, a crash   *)
(* and resumption between any two steps, and a client that continues a        *)
(* paused task or cancels it while the loop runs.                            *)
(*                                                                         *)
(* Session interleaves the statements by which replicas contend for a         *)
(* session.  Here one goroutine drives it, and GetSession with UpdateStatus   *)
(* in recordTaskStatus, and a continuation's checks, are one step each.       *)
(***************************************************************************)
EXTENDS Runtime, Discovery, FiniteSetsExt

CONSTANTS
    Owner,          \* the session's owner_agent
    Listings,       \* what ListActorTemplates may return: sequences of templates
    MaxMoves,       \* bound on calls, progress reports and follow-up messages
    MaxFaults       \* bound on crashes, failed deletions, cancellations and lost agents

ASSUME OwnerAssumption == Owner \in Agent /\ Agent \subseteq ValidIDs
ASSUME ListingsAssumption == \A l \in Listings : l \in Seq(Template)
ASSUME RelayBounds == {MaxMoves, MaxFaults} \subseteq Nat

VARIABLES
    log,      \* conversation_log: per actor, its events in the order of step
    sess,     \* the session's state
    task,     \* the task row: status and version, "none" while there is no row
    actors,   \* the actors that exist
    left,     \* the actors whose deletion failed
    rt,       \* per actor: its runtime, as of its last checkpoint
    d,        \* the goroutine that drives the session
    wr,       \* the Append of the driver and the one of CancelTask
    cx,       \* the CancelTask call
    reg,      \* the agents that the harness registry and the card store hold
    minted,   \* the newest StepID
    spent     \* how much of each bound is used

store == <<log, sess, task>>
vars == <<log, sess, task, actors, left, rt, d, wr, cx, reg, minted, spent>>

Writer == {"driver", "marker"}
Kind == {"input", "output", "done", "marker"}
Event == [ss : Nat, kind : Kind, env : Envelope]

\* The driver: its envelope (res), the turn it executes (conv, msg), the reply
\* it has buffered (out), theFirstAgent (first), bk.taskID # "" (hasTask),
\* whether a client waits for it and what it was handed (waits, shown), whether
\* Exec has Inputs to start a turn with, and three ghosts: res is a client's own
\* message (fresh), a reply was lost before recordTaskStatus saw it (lost), and
\* a session that had ended was continued (revived).
Idle == [pc |-> "rest", res |-> NoEnvelope, conv |-> Owner, msg |-> NoEnvelope,
         out |-> NoEnvelope, hasTask |-> FALSE, waits |-> FALSE, shown |-> "no",
         fresh |-> FALSE, inputs |-> FALSE, first |-> Owner,
         lost |-> FALSE, revived |-> FALSE]

NoAppend == [pc |-> "idle", conv |-> Owner, kind |-> "done", env |-> NoEnvelope,
             step |-> 0, ss |-> 0]

\* newServerSession has stored the session with its bootstrap message, and
\* startTask runs the relay loop for the client that waits.
Bootstrap == [ClientMessage(Owner) EXCEPT !.step = 1]

Init ==
    /\ log = [a \in Agent |-> <<>>]
    /\ sess = "RUNNING"
    /\ task = [state |-> "none", version |-> 0]
    /\ actors = {} /\ left = {}
    /\ rt = [a \in Agent |-> NewRuntime]
    /\ d = [Idle EXCEPT !.pc = "establish", !.waits = TRUE]
    /\ wr = [w \in Writer |-> NoAppend]
    /\ cx = [pc |-> "idle", version |-> 0]
    /\ reg = [harnesses |-> Agent, cards |-> Agent]
    /\ minted = 1
    /\ spent = [moves |-> 0, faults |-> 0]

At(label) == d.pc = label
Goto(label) == d' = [d EXCEPT !.pc = label]
Spend(what, bound) == spent[what] < bound /\ spent' = [spent EXCEPT ![what] = @ + 1]

-----------------------------------------------------------------------------
(***************************************************************************)
(* The event log (eventlog/sql.go).                                         *)
(***************************************************************************)
Places == UNION {{<<a, i>> : i \in DOMAIN log[a]} : a \in Agent}
EventAt(p) == log[p[1]][p[2]]
SessionSteps == {0} \cup {EventAt(p).ss : p \in Places}
MaxSessionStep == {m \in SessionSteps : \A n \in SessionSteps : n <= m}

\* Where ORDER BY session_step may put the last event of those in S.
Newest(S) == {p \in S : \A q \in S : EventAt(q).ss <= EventAt(p).ss}

\* Append's transaction: SELECT MAX(step), SELECT MAX(session_step), INSERT.
\* Nothing but the key (conversation_id, step) relates two such transactions.
Begin(w, conv, kind, env) ==
    wr' = [wr EXCEPT ![w] = [NoAppend EXCEPT !.pc = "step", !.conv = conv, !.kind = kind,
                                             !.env = env]]

\* Mutated form: session_step is computed before step.
Reads_Swapped(w) ==
    \/ /\ wr[w].pc = "step"
       /\ \E m \in MaxSessionStep : wr' = [wr EXCEPT ![w].pc = "session", ![w].ss = m + 1]
    \/ /\ wr[w].pc = "session"
       /\ wr' = [wr EXCEPT ![w].pc = "insert", ![w].step = Len(log[wr[w].conv]) + 1]

Reads(w) ==
    \/ /\ wr[w].pc = "step"
       /\ wr' = [wr EXCEPT ![w].pc = "session", ![w].step = Len(log[wr[w].conv]) + 1]
    \/ /\ wr[w].pc = "session"
       /\ \E m \in MaxSessionStep : wr' = [wr EXCEPT ![w].pc = "insert", ![w].ss = m + 1]

AppendReads(w) ==
    /\ Reads(w)
    /\ UNCHANGED <<store, actors, left, rt, d, cx, reg, minted, spent>>

KeyIsFree(w) == wr[w].step = Len(log[wr[w].conv]) + 1
Insert(w) ==
    log' = [log EXCEPT ![wr[w].conv] =
                Append(@, [ss |-> wr[w].ss, kind |-> wr[w].kind, env |-> wr[w].env])]

\* lastHop: where the newest event and the newest envelope are.
lastHop ==
    {h \in Newest(Places) \X Newest({p \in Places : EventAt(p).kind # "done"}) :
        EventAt(h[1]).kind # "done" => h[1] = h[2]}

\* Mutated form: an actor is known by its replies.
visitedActorsFromHistory_ByReply ==
    {a \in Agent : \E i \in DOMAIN log[a] : log[a][i].kind = "output"}

\* The actors that a turn was ever dispatched to: their LogInputs event has an
\* AgentId, whether or not they ever replied.
visitedActorsFromHistory ==
    {a \in Agent : \E i \in DOMAIN log[a] : log[a][i].kind = "input"}

\* Mutated form: a turn is pending only until its output is logged.
Pending_InputOnly(a) == log[a] # <<>> /\ log[a][Len(log[a])].kind = "input"

\* logger.ResumptionState: markers have no state, so they do not count.
Pending(a) ==
    LET states == {i \in DOMAIN log[a] : log[a][i].kind # "marker"}
    IN  states # {} /\ log[a][Max(states)].kind # "done"
pendingInput(a) == Max({i \in DOMAIN log[a] : log[a][i].kind = "input"})
PendingMessage(a) == log[a][pendingInput(a)].env

\* logger.pendingOutputs: it gives up at the first event that is no output.
pendingOutputs(a) == log[a] # <<>> /\ log[a][Len(log[a])].kind = "output"

\* The first text of the event at step i of actor a: an input's is the
\* conversation's first message, because the turn's own message comes after the
\* history it was sent with.
stepText(a, i) == IF log[a][i].kind = "input" THEN log[a][1].env ELSE log[a][i].env

\* The history that goes with the turn that begins at step n of actor a.
historySteps(a, n) ==
    [i \in {k \in 1..(n - 1) : log[a][k].kind # "done"} |-> stepText(a, i)]

-----------------------------------------------------------------------------
(***************************************************************************)
(* The relay loop.                                                          *)
(***************************************************************************)
isTerminalReply(env) == env.to = Client

\* Mutated form: any Task that reaches theFirstAgent wakes the client.
qualifies_AnyTask(env, theFirstAgent) ==
    isTerminalReply(env) \/ (env.to = theFirstAgent /\ env.data \in TaskData)

qualifies(env, theFirstAgent) ==
    \/ isTerminalReply(env)
    \/ env.from = theFirstAgent /\ env.to = theFirstAgent /\ env.data \in TaskData

\* Mutated form: what is no Task has no state of its own.
reconstructState_Raw(env) == env.data

\* "completed" for a terminal reply that is no Task, "working" for any other.
reconstructState(env) ==
    IF env.data \in TaskData THEN env.data
    ELSE IF isTerminalReply(env) THEN "completed" ELSE "working"

\* notify, for the driver that is left in state e: the client that waits is
\* handed the first qualifying envelope.
Notify(e) == IF e.waits /\ e.shown = "no" /\ qualifies(e.res, e.first)
             THEN [e EXCEPT !.shown = e.res.data] ELSE e

\* Mutated form: a turn whose reply is logged counts as completed.
Completed_Output(p) == EventAt(p).kind \in {"output", "done"}
Completed(p) == EventAt(p).kind = "done"

\* Nothing logged: start with the bootstrap.  A newest event that is COMPLETED:
\* carry on from the newest envelope, which is not recorded again.  Any other:
\* execute what its conversation has pending, without Inputs.
establishRelayState ==
    /\ At("establish")
    /\ \/ /\ Places = {}
          /\ d' = Notify([d EXCEPT !.pc = "drive", !.res = Bootstrap, !.fresh = TRUE])
       \/ \E h \in lastHop :
            d' = IF Completed(h[1])
                 THEN Notify([d EXCEPT !.pc = "drive", !.res = EventAt(h[2]).env])
                 ELSE [d EXCEPT !.pc = "exec", !.conv = h[1][1], !.inputs = FALSE]
    /\ UNCHANGED <<store, actors, left, rt, wr, cx, reg, minted, spent>>

stepIDInUse(a, step) ==
    \E i \in DOMAIN log[a] : log[a][i].kind # "done" /\ log[a][i].env.step = step

\* res goes to its recipient's actor, under a StepID that its log has not seen.
execA2A ==
    /\ At("drive") /\ ~isTerminalReply(d.res)
    /\ LET mint == d.res.step = 0 \/ stepIDInUse(d.res.to, d.res.step)
           msg == IF mint THEN [d.res EXCEPT !.step = minted + 1] ELSE d.res
       IN  /\ d' = [d EXCEPT !.pc = "exec", !.conv = d.res.to, !.msg = msg, !.inputs = TRUE]
           /\ minted' = IF mint THEN minted + 1 ELSE minted
    /\ UNCHANGED <<store, actors, left, rt, wr, cx, reg, spent>>

\* Controller.Exec: Start resumes or creates the actor; a PENDING turn is then
\* run with its logged inputs, a new one logged first.  Without a harness Exec
\* fails, and retryExec waits for one.
Exec ==
    /\ At("exec") /\ d.conv \in reg.harnesses
    /\ actors' = actors \cup {d.conv}
    /\ \/ /\ Pending(d.conv)
          /\ Goto("run")
          /\ UNCHANGED wr
       \/ /\ ~Pending(d.conv) /\ d.inputs
          /\ Goto("logging")
          /\ Begin("driver", d.conv, "input", d.msg)
    /\ UNCHANGED <<store, left, rt, cx, reg, minted, spent>>

\* The turn runs on its logged input and is checkpointed, or returns again what
\* it did before.
Run ==
    /\ At("run")
    /\ \E new \in Connect(d.conv, rt[d.conv], PendingMessage(d.conv),
                          historySteps(d.conv, pendingInput(d.conv)), spent.moves < MaxMoves) :
        /\ rt' = [rt EXCEPT ![d.conv] = new]
        /\ d' = [d EXCEPT !.pc = "commit", !.out = new.out]
        /\ spent' = IF new # rt[d.conv] /\ Suspended(new)
                    THEN [spent EXCEPT !.moves = @ + 1] ELSE spent
    /\ UNCHANGED <<store, actors, left, wr, cx, reg, minted>>

\* harnessHandler.commit logs the buffered reply unless it is logged already.
Commit ==
    /\ At("commit")
    /\ IF pendingOutputs(d.conv) THEN Begin("driver", d.conv, "done", NoEnvelope)
                                 ELSE Begin("driver", d.conv, "output", d.out)
    /\ Goto("logging")
    /\ UNCHANGED <<store, actors, left, rt, cx, reg, minted, spent>>

\* The driver's INSERT, and what Exec does next.  A key that CancelTask's marker
\* has taken fails Exec, and retryExec calls it again.
Logged ==
    /\ At("logging") /\ wr["driver"].pc = "insert"
    /\ \/ /\ KeyIsFree("driver")
          /\ Insert("driver")
          /\ CASE wr["driver"].kind = "input" ->
                    Goto("run") /\ wr' = [wr EXCEPT !["driver"] = NoAppend]
               [] wr["driver"].kind = "output" ->
                    d' = d /\ Begin("driver", d.conv, "done", NoEnvelope)
               [] OTHER ->
                    Goto("record") /\ wr' = [wr EXCEPT !["driver"] = NoAppend]
       \/ /\ ~KeyIsFree("driver")
          /\ Goto("exec") /\ wr' = [wr EXCEPT !["driver"] = NoAppend]
          /\ UNCHANGED log
    /\ UNCHANGED <<sess, task, actors, left, rt, cx, reg, minted, spent>>

\* Mutated form: whoever answered, the task's status follows.
Status_AnyAgent(res, hasTask, theFirstAgent) ==
    IF hasTask THEN [state |-> reconstructState(res), version |-> task.version + 1]
    ELSE IF res.data \in TaskData THEN [state |-> res.data, version |-> 1] ELSE task

\* The row that recordTaskStatus leaves: none before theFirstAgent's first Task.
Status(res, hasTask, theFirstAgent) ==
    IF res.from # theFirstAgent THEN task
    ELSE IF hasTask THEN [state |-> reconstructState(res), version |-> task.version + 1]
    ELSE IF res.data \in TaskData THEN [state |-> res.data, version |-> 1] ELSE task

\* The reply does not carry the StepID of execA2A's message, because Exec found
\* another turn PENDING and ran that: Exec is called again, and that reply is
\* never recorded.
Mismatch == d.inputs /\ d.out.step # d.msg.step
retryMismatch ==
    /\ At("record") /\ Mismatch
    /\ d' = [d EXCEPT !.pc = "exec", !.lost = d.lost \/ d.out.from = d.first]
    /\ UNCHANGED <<store, actors, left, rt, wr, cx, reg, minted, spent>>

\* The reply is recorded unless the session has been marked TERMINATING.
recordTaskStatus ==
    /\ At("record") /\ ~Mismatch
    /\ \/ /\ sess = "TERMINATING"
          /\ d' = [d EXCEPT !.pc = "cleanup", !.res = d.out]
          /\ UNCHANGED task
       \/ /\ sess # "TERMINATING"
          /\ task' = Status(d.out, d.hasTask, d.first)
          /\ d' = Notify([d EXCEPT !.pc = "drive", !.res = d.out, !.fresh = FALSE,
                                   !.hasTask = task'.state # "none",
                                   !.lost = d.lost /\ task' = task])
    /\ UNCHANGED <<log, sess, actors, left, rt, wr, cx, reg, minted, spent>>

\* The chain pauses for its client, and the session is released.
Pause ==
    /\ At("drive") /\ isTerminalReply(d.res) /\ d.res.data = "input"
    /\ Goto("rest")
    /\ UNCHANGED <<store, actors, left, rt, wr, cx, reg, minted, spent>>

MarkTerminating ==
    /\ At("drive") /\ isTerminalReply(d.res) /\ d.res.data # "input"
    /\ sess' = IF sess = "RUNNING" THEN "TERMINATING" ELSE sess
    /\ Goto("cleanup")
    /\ UNCHANGED <<log, task, actors, left, rt, wr, cx, reg, minted, spent>>

\* Every visited actor is deleted, except where the deletion fails or the
\* agent's harness is gone: that is logged and forgotten.
cleanupActors ==
    /\ At("cleanup")
    /\ \E failed \in SUBSET (visitedActorsFromHistory \cap actors \cap reg.harnesses) :
        /\ IF failed = {} THEN UNCHANGED spent ELSE Spend("faults", MaxFaults)
        /\ LET deleted == (visitedActorsFromHistory \cap reg.harnesses) \ failed
           IN  /\ actors' = actors \ deleted
               /\ rt' = [a \in Agent |-> IF a \in deleted THEN NewRuntime ELSE rt[a]]
               /\ left' = (left \cup (actors \cap visitedActorsFromHistory)) \ deleted
    /\ Goto("terminate")
    /\ UNCHANGED <<store, wr, cx, reg, minted>>

TerminateSession ==
    /\ At("terminate")
    /\ sess' = "TERMINATED"
    /\ Goto("rest")
    /\ UNCHANGED <<log, task, actors, left, rt, wr, cx, reg, minted, spent>>

-----------------------------------------------------------------------------
(***************************************************************************)
(* The Task that a client reads back: the row's state, and from the log the   *)
(* clients' messages and the owner's claims.  A claim becomes history when    *)
(* the next one is met, so a client's message comes before the claim that it  *)
(* answers.  All of these events are in the owner's own conversation.         *)
(***************************************************************************)
isCheckpointdInputStep(e) == e.kind = "input"
OwnersClaim(e) ==
    /\ e.kind \in {"output", "marker"}
    /\ e.env.from = Owner /\ (isTerminalReply(e.env) \/ e.env.to = Owner)
    /\ e.env.data \in TaskData

\* Mutated form: a claim is history at once.
AddToTask_AtOnce(t, e) ==
    IF isCheckpointdInputStep(e)
    THEN IF e.env.from = Client THEN [t EXCEPT !.history = Append(@, e.env)] ELSE t
    ELSE IF ~OwnersClaim(e) THEN t
    ELSE [t EXCEPT !.history = Append(@, e.env), !.status = e.env]

AddToTask(t, e) ==
    IF isCheckpointdInputStep(e)
    THEN IF e.env.from = Client THEN [t EXCEPT !.history = Append(@, e.env)] ELSE t
    ELSE IF ~OwnersClaim(e) THEN t
    ELSE [t EXCEPT !.history = IF t.status = NoEnvelope THEN @ ELSE Append(@, t.status),
                   !.status = e.env]

\* The claim's message is the status's, the row's state its state.
assembleTask ==
    [FoldLeft(AddToTask, [history |-> <<>>, status |-> NoEnvelope, state |-> "none"],
              log[Owner])
        EXCEPT !.state = task.state]

-----------------------------------------------------------------------------
(***************************************************************************)
(* The client's other requests.                                             *)
(***************************************************************************)
\* loadServerSession, for the driver e: bk.taskID is what TaskIDForSession finds.
loadServerSession(e) == [e EXCEPT !.hasTask = task.state # "none"]

Open == task.state \in {"working", "input"}

\* The mux serves a request for the owner only while its card is known.
Routed == Owner \in reg.cards

\* continueTask, for a task that is not terminal and a session nobody drives:
\* the session's own state is not looked at.  continueRelayLoop delivers the
\* message to whoever the chain paused for.
continueTask ==
    /\ At("rest") /\ Open /\ Routed
    /\ Spend("moves", MaxMoves)
    /\ \E h \in lastHop :
        /\ isTerminalReply(EventAt(h[2]).env)
        /\ d' = loadServerSession(
                    [Idle EXCEPT !.pc = "drive", !.res = ClientMessage(EventAt(h[2]).env.from),
                                 !.first = EventAt(h[2]).env.from, !.fresh = TRUE,
                                 !.waits = TRUE, !.lost = d.lost,
                                 !.revived = d.revived \/ sess # "RUNNING"])
    /\ UNCHANGED <<store, actors, left, rt, wr, cx, reg, minted>>

\* The goroutine is gone: an Append that has not committed is rolled back.
Stop(label) ==
    /\ d' = [Idle EXCEPT !.pc = label, !.revived = d.revived,
                         !.lost = d.lost \/ (At("record") /\ d.out.from = d.first)]
    /\ wr' = [wr EXCEPT !["driver"] = NoAppend]

CancelTask ==
    /\ cx.pc = "idle" /\ Open /\ Routed
    /\ Spend("faults", MaxFaults)
    /\ cx' = [pc |-> "wait", version |-> task.version]
    /\ UNCHANGED <<store, actors, left, rt, d, wr, reg, minted>>

\* cancelAndWait ends the driver if it runs in the replica of the request.
cancelAndWait ==
    /\ cx.pc = "wait"
    /\ cx' = [cx EXCEPT !.pc = "cas"]
    /\ \/ UNCHANGED <<d, wr>>
       \/ d.pc \notin {"rest", "down"} /\ Stop("rest")
    /\ UNCHANGED <<store, actors, left, rt, reg, minted, spent>>

Marker == [NoEnvelope EXCEPT !.from = Owner, !.data = "canceled"]

CancelTaskAndSession ==
    /\ cx.pc = "cas"
    /\ \/ /\ task.version = cx.version
          /\ task' = [state |-> "canceled", version |-> task.version + 1]
          /\ sess' = IF sess = "RUNNING" THEN "TERMINATING" ELSE sess
          /\ cx' = [cx EXCEPT !.pc = "marker"]
          /\ Begin("marker", Owner, "marker", Marker)
       \/ /\ task.version # cx.version
          /\ cx' = [cx EXCEPT !.pc = "idle"]
          /\ UNCHANGED <<task, sess, wr>>
    /\ UNCHANGED <<log, actors, left, rt, d, reg, minted, spent>>

\* The marker is best effort: nobody repeats it.
appendCancellationMarker ==
    /\ cx.pc = "marker" /\ wr["marker"].pc = "insert"
    /\ IF KeyIsFree("marker") THEN Insert("marker") ELSE UNCHANGED log
    /\ wr' = [wr EXCEPT !["marker"] = NoAppend]
    /\ cx' = [cx EXCEPT !.pc = "claim"]
    /\ UNCHANGED <<sess, task, actors, left, rt, d, reg, minted, spent>>

\* A session nobody drives is torn down by the request itself.
ClaimForCleanup ==
    /\ cx.pc = "claim"
    /\ d' = IF At("rest")
            THEN [Idle EXCEPT !.pc = "cleanup", !.lost = d.lost, !.revived = d.revived]
            ELSE d
    /\ cx' = [cx EXCEPT !.pc = "idle"]
    /\ UNCHANGED <<store, actors, left, rt, wr, reg, minted, spent>>

-----------------------------------------------------------------------------
Crash ==
    /\ d.pc \notin {"rest", "down"}
    /\ Spend("faults", MaxFaults)
    /\ Stop("down")
    /\ UNCHANGED <<store, actors, left, rt, cx, reg, minted>>

\* resumeServerSession, or the replica that salvages the session.
Resume ==
    /\ At("down")
    /\ d' = loadServerSession(
                [d EXCEPT !.pc = CASE sess = "RUNNING" -> "establish"
                                   [] sess = "TERMINATING" -> "cleanup"
                                   [] OTHER -> "rest"])
    /\ reg' = [reg EXCEPT !.cards = reg.harnesses]
    /\ UNCHANGED <<store, actors, left, rt, wr, cx, minted, spent>>

-----------------------------------------------------------------------------
(***************************************************************************)
(* The discovery loop.  A pass whose set Replace refuses changes nothing.    *)
(***************************************************************************)
discoverAndApply ==
    /\ reg.cards = reg.harnesses
    /\ \E templates \in Listings :
        LET harnesses == agentsFromTemplates(templates)
        IN  /\ Replaceable(harnesses)
            /\ reg' = [reg EXCEPT !.harnesses = harnesses]
            /\ IF reg.harnesses \subseteq harnesses THEN UNCHANGED spent
               ELSE Spend("faults", MaxFaults)
    /\ UNCHANGED <<store, actors, left, rt, d, wr, cx, minted>>

storeCards ==
    /\ reg.cards # reg.harnesses
    /\ reg' = [reg EXCEPT !.cards = reg.harnesses]
    /\ UNCHANGED <<store, actors, left, rt, d, wr, cx, minted, spent>>

Drive ==
    \/ establishRelayState \/ execA2A \/ Exec \/ AppendReads("driver") \/ Run \/ Commit \/ Logged
    \/ retryMismatch \/ recordTaskStatus \/ Pause \/ MarkTerminating
    \/ cleanupActors \/ TerminateSession

Cancel ==
    \/ cancelAndWait \/ CancelTaskAndSession \/ AppendReads("marker")
    \/ appendCancellationMarker \/ ClaimForCleanup

Next ==
    \/ Drive \/ continueTask \/ CancelTask \/ Cancel \/ Crash \/ Resume
    \/ discoverAndApply \/ storeCards

Spec == Init /\ [][Next]_vars

\* A goroutine that can take a step takes it, a crashed session is resumed (see
\* Session's OrphanIsTakenOver), and a request in progress goes on.
FairSpec == Spec /\ WF_vars(Drive) /\ WF_vars(Resume) /\ WF_vars(Cancel)

-----------------------------------------------------------------------------
(***************************************************************************)
(* Properties.                                                              *)
(***************************************************************************)

DriverState == {"establish", "drive", "exec", "logging", "run", "commit", "record",
                "cleanup", "terminate", "rest", "down"}

\* Every variable holds what its table, process or actor can hold.
TypeOK ==
    /\ log \in [Agent -> Seq(Event)]
    /\ sess \in {"RUNNING", "TERMINATING", "TERMINATED"}
    /\ task \in [state : {"none"} \cup TaskData, version : Nat]
    /\ actors \subseteq Agent /\ left \subseteq Agent
    /\ rt \in [Agent -> RuntimeState]
    /\ d \in [pc : DriverState, res : Envelope, conv : Agent, msg : Envelope, out : Envelope,
              first : Agent, hasTask : BOOLEAN, waits : BOOLEAN, shown : {"no"} \cup Data,
              fresh : BOOLEAN, inputs : BOOLEAN, lost : BOOLEAN, revived : BOOLEAN]
    /\ wr \in [Writer -> [pc : {"idle", "step", "session", "insert"}, conv : Agent, kind : Kind,
                          env : Envelope, step : Nat, ss : Nat]]
    /\ cx \in [pc : {"idle", "wait", "cas", "marker", "claim"}, version : Nat]
    /\ reg \in [harnesses : SUBSET ValidIDs, cards : SUBSET ValidIDs]
    /\ minted \in Nat
    /\ spent \in [{"moves", "faults"} -> Nat]

\* env finds the invocation that asked for it: a reply to an agent is awaited
\* there by its caller and by nobody else, and only the owner answers clients.
FindsCaller(env) ==
    IF isTerminalReply(env) THEN env.from = Owner
    ELSE env.reply => {<<env.to, i.id>> : i \in {w \in rt[env.to].waiting : w.step = env.corr}}
                        = {env.caller}

\* A reply never reaches an actor that has nobody blocked on it, which
\* deliverOnce refuses and retryExec repeats for ever: however calls nest, and
\* wherever checkpointd crashed, the reply in the driver's hands finds exactly
\* the invocation that made the call.  The exception is a session that was
\* continued after it had ended: a cancellation can delete the callers' actors
\* and leave the chain to be continued once more.
ReplyFindsItsCaller ==
    ~d.revived =>
        /\ At("drive") => FindsCaller(d.res)
        /\ At("run") /\ rt[d.conv].last # PendingMessage(d.conv).step =>
                FindsCaller(PendingMessage(d.conv))

Canceled == \E a \in Agent : \E i \in DOMAIN log[a] : log[a][i].kind = "marker"

\* "A restart re-enters here and picks up exactly where the event log left
\* off": at every hop, what a resumption would read from the log is what the
\* running loop holds, unless that is a client's message not yet logged.
ResumeEqualsLive ==
    At("drive") /\ ~d.fresh /\ ~Canceled =>
        \A h \in lastHop : EventAt(h[1]).kind = "done" /\ EventAt(h[2]).env = d.res

\* EventsBySessionID never contradicts Events: two events of one conversation
\* have session_steps in the order of their steps, although Append computes
\* both from unlocked reads and only step is part of a key.
OrderOfRecord ==
    \A a \in Agent : \A i, j \in DOMAIN log[a] : i < j => log[a][i].ss < log[a][j].ss

Dispatched == {a \in Agent : \E i \in DOMAIN log[a] : log[a][i].kind = "input"}

\* A TERMINATED session has no actor left but those whose deletion failed and
\* those that were started for a turn that was never logged.  (A task whose row
\* missed its completion can still be continued, and gets actors again.)
TornDown ==
    sess = "TERMINATED" /\ ~d.revived =>
        actors \cap Dispatched \subseteq left

OwnerClaims(S) == \E i \in DOMAIN log[Owner] :
    log[Owner][i].kind = "output" /\ log[Owner][i].env.data \in S

\* The row of a session that ended by itself says so, and there is a row just
\* if the owner claimed a Task: what other agents claim, and progress reported
\* before, never stays there.  The exception is a reply of the owner that is
\* logged and not recorded, because of a crash in between or because a client's
\* message found it PENDING, if it is the owner's last.
RowTellsTheOutcome ==
    sess = "TERMINATED" /\ task.state # "canceled" /\ ~d.lost /\ ~d.revived =>
        IF OwnerClaims(TaskData) THEN task.state = "completed" ELSE task.state = "none"

\* The Task that is read at rest shows, beside the row's state, the message of
\* the claim that set it (a bare reply, which completes the task, has none), and
\* its history has each message once, though the log has them in several events.
ReadsAsRecorded ==
    LET t == assembleTask
        said == Append(t.history, t.status)
    IN  /\ t.status.data # t.state =>
                t.state = "completed" /\ ~OwnersClaim(log[Owner][Len(log[Owner]) - 1])
        /\ \A i, j \in DOMAIN said : said[i] = said[j] => i = j

\* The chain is at rest and ended with an answer: no cancellation cut it short.
Answered ==
    /\ At("rest")
    /\ \A h \in lastHop : Completed(h[1]) /\ isTerminalReply(EventAt(h[2]).env)

\* A client that is woken by a Task finds its row, although the loop runs on and
\* the row is read separately: awaitOrSubmit takes a reply without a row for a
\* bare Message and fails.
WokenFindsRow == d.shown \in TaskData => task.state # "none"

\* A woken client finds the row, and what it reads back once the chain is at rest
\* is what was recorded.  The exceptions are those of RowTellsTheOutcome, and a
\* cancellation's marker.
AnswerIsOnRecord ==
    /\ WokenFindsRow
    /\ Answered /\ task.state \notin {"none", "canceled"} /\ ~Canceled /\ ~d.lost /\ ~d.revived =>
         ReadsAsRecorded

\* The turn can never succeed: its actor's logged replies went back from a Task
\* to none, which Connect takes for a corrupt log.
Refused == At("run") /\ Reverted(d.conv, historySteps(d.conv, pendingInput(d.conv)))

AgentGone == d.conv \notin reg.harnesses

\* The chain of hops comes to rest, whatever the agents call and wherever a
\* crash falls, unless an actor's history reverted or a cancellation's marker
\* is taken for the newest hop.  A chain whose agent is not known any more
\* waits for it, and goes on when its template is back.
ChainComesToRest ==
    ~At("rest") ~> (At("rest") \/ Refused \/ Canceled \/ [](At("exec") /\ AgentGone))

=============================================================================
