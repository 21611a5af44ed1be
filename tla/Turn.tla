-------------------------------- MODULE Turn --------------------------------
(***************************************************************************)
(* One conversation of checkpointd: the turns that execA2A (relay.go) asks  *)
(* of ONE Substrate actor, through Controller.Exec (controller.go), the     *)
(* Substrate harness (substrate.go) and the actor's runtime (runtime.go).   *)
(*                                                                         *)
(* The durable state is the conversation's event log (a database table) and *)
(* the actor's last external snapshot.  Everything else is lost when the    *)
(* process that holds it crashes: the driver's local variables with a       *)
(* checkpointd crash, the actor's live memory with a worker crash.          *)
(*                                                                         *)
(* Each RPC and each database call of a turn is one action, so that faults  *)
(* fall between any two of them.  Data is abstracted: an input is its       *)
(* StepID, an output a value the agent picks freely each time it runs.      *)
(***************************************************************************)
EXTENDS Integers, Sequences, FiniteSets

CONSTANTS
    StepID,     \* the StepIDs execA2A mints
    Output,     \* what an agent may answer to a message
    NoStep,     \* no StepID: the empty string in the code
    NoOutput,   \* no reply
    Failed,     \* the runtime's memoised error (actorRuntime.lastErr)
    MaxFaults,  \* bound on the faults of a behaviour
    AckLoss     \* may an Append be durable and still report an error?

ASSUME StepAssumption == NoStep \notin StepID
ASSUME OutputAssumption == NoOutput \notin Output /\ Failed \notin Output /\ NoOutput # Failed
ASSUME BoundAssumption == MaxFaults \in Nat /\ AckLoss \in BOOLEAN

VARIABLES
    log,      \* conversation_log: the conversation's events, in step order
    astate,   \* the actor's state as GetActor reports it
    mem,      \* the actor's live memory, meaningful while it has a worker
    snap,     \* the memory held by the actor's last external snapshot
    uri,      \* which snapshot that is; 0 before the first one
    pc,       \* what the relay goroutine that drives the conversation does next
    req,      \* the message it has to deliver
    inputs,   \* does its request carry Inputs (execA2A) or not (establishRelayState)?
    turn,     \* the message Exec queued for this attempt
    pre,      \* substrateExecution.preCheckpointSnapshot
    buf,      \* harnessHandler.buffered
    faults    \* faults so far

substrate == <<astate, mem, snap, uri>>
driver == <<pc, req, inputs, turn, pre, buf>>
vars == <<log, astate, mem, snap, uri, pc, req, inputs, turn, pre, buf, faults>>

ActorState == {"NONE", "SUSPENDED", "RESUMING", "RUNNING", "SUSPENDING", "CRASHED", "REVERTING"}

\* Envelopes: what an actor answers carries the StepID of what it was sent.
Envelope == [step : StepID, out : Output]
NoEnvelope == [step |-> NoStep, out |-> NoOutput]

\* The part of actorRuntime that its dedup and its agent depend on.  work is
\* the agent's own memory: the turns it has carried out, in order.
Memory == [last : StepID \cup {NoStep}, out : Output \cup {NoOutput, Failed},
           inFlight : SUBSET StepID, work : Seq(Envelope)]
FreshMemory == [last |-> NoStep, out |-> NoOutput, inFlight |-> {}, work |-> <<>>]

-----------------------------------------------------------------------------
(***************************************************************************)
(* The event log of a conversation and what logger reads out of it.         *)
(***************************************************************************)
Event == [state : {"PENDING", "COMPLETED"}, agent : BOOLEAN,
          step : StepID \cup {NoStep}, out : Output \cup {NoOutput}]
\* LogInputs is the only writer that sets AgentId.
InputEvent(s) == [state |-> "PENDING", agent |-> TRUE, step |-> s, out |-> NoOutput]
OutputEvent(e) == [state |-> "PENDING", agent |-> FALSE, step |-> e.step, out |-> e.out]
CompletedEvent == [state |-> "COMPLETED", agent |-> FALSE, step |-> NoStep, out |-> NoOutput]

\* Every event of a turn has a state, so the newest one's is the last one set.
ResumptionState(l) == IF l = <<>> THEN "UNSPECIFIED" ELSE l[Len(l)].state

\* The newest PENDING event with an AgentId holds the turn's input.
pendingInputs(l) ==
    LET marker == {i \in DOMAIN l : l[i].state = "PENDING" /\ l[i].agent}
    IN  IF marker = {} THEN NoStep
        ELSE l[CHOOSE i \in marker : \A j \in marker : j <= i].step

\* Mutated form: the scan does not stop at the turn's own input marker.
pendingOutputs_Unbounded(l) == SelectSeq(l, LAMBDA e : e.state = "PENDING" /\ ~e.agent)

\* The outputs at the end of the log, back to the newest event of another kind.
pendingOutputs(l) ==
    LET isOutput(i) == l[i].state = "PENDING" /\ ~l[i].agent
        first == CHOOSE i \in 1..(Len(l) + 1) :
                     /\ \A j \in i..Len(l) : isOutput(j)
                     /\ i = 1 \/ ~isOutput(i - 1)
    IN  SubSeq(l, first, Len(l))

\* Is s the StepID of an envelope this conversation has logged?
stepIDInUse(l, s) == \E i \in DOMAIN l : l[i].step = s

-----------------------------------------------------------------------------
Init ==
    /\ log = <<>>
    /\ astate = "NONE" /\ mem = FreshMemory /\ snap = FreshMemory /\ uri = 0
    /\ pc = "idle" /\ req = NoStep /\ inputs = FALSE /\ turn = NoStep
    /\ pre = 0 /\ buf = NoEnvelope
    /\ faults = 0

Goto(label) == pc' = label
Fault == faults < MaxFaults /\ faults' = faults + 1
NoFault == faults' = faults

\* An attempt at a turn failed: retryExec sleeps and calls Exec again.
Retry == Goto("exec") /\ UNCHANGED <<req, inputs, turn, pre, buf>>
\* The next statement of the attempt.
Proceed(label) == Goto(label) /\ UNCHANGED <<req, inputs, turn, pre, buf>>

-----------------------------------------------------------------------------
(***************************************************************************)
(* The relay loop's goroutine: execA2A, establishRelayState, Exec.          *)
(***************************************************************************)

\* Mutated form: the StepID is not checked against the conversation's history.
execA2A_NoCollisionCheck(s) ==
    /\ pc = "idle" /\ ResumptionState(log) # "PENDING"
    /\ Goto("exec") /\ req' = s /\ inputs' = TRUE
    /\ NoFault /\ UNCHANGED <<log, substrate, turn, pre, buf>>

\* A new hop for this actor, under a StepID its history does not hold.
execA2A(s) ==
    /\ pc = "idle" /\ ResumptionState(log) # "PENDING"
    /\ ~stepIDInUse(log, s)
    /\ Goto("exec") /\ req' = s /\ inputs' = TRUE
    /\ NoFault /\ UNCHANGED <<log, substrate, turn, pre, buf>>

\* A restarted relay loop first completes the turn the log left PENDING.
establishRelayState ==
    /\ pc = "idle" /\ ResumptionState(log) = "PENDING"
    /\ Goto("exec") /\ req' = pendingInputs(log) /\ inputs' = FALSE
    /\ NoFault /\ UNCHANGED <<log, substrate, turn, pre, buf>>

\* Exec chooses what to queue: the logged input of a PENDING turn, else the
\* request's.  With neither it fails, and retryExec is back where it was.
Exec ==
    /\ pc = "exec"
    /\ \/ /\ ResumptionState(log) = "PENDING"
          /\ turn' = pendingInputs(log)
       \/ /\ ResumptionState(log) # "PENDING" /\ inputs
          /\ turn' = req
    /\ Goto("get") /\ NoFault /\ UNCHANGED <<log, substrate, req, inputs, pre, buf>>

-----------------------------------------------------------------------------
(***************************************************************************)
(* SubstrateHarness.Start: resumeActor, one action per Substrate RPC, then  *)
(* dialAndWaitHealthy.                                                      *)
(***************************************************************************)

\* Mutated form: an interrupted revert is not entered again.
resumeActor_NoReverting ==
    /\ pc = "get"
    /\ \/ /\ astate = "NONE" /\ astate' = "SUSPENDED" /\ Proceed("resume")
       \/ /\ astate \in {"SUSPENDED", "RUNNING", "RESUMING"} /\ Proceed("resume")
          /\ UNCHANGED astate
       \/ /\ astate = "CRASHED" /\ Proceed("revert") /\ UNCHANGED astate
       \/ /\ astate = "SUSPENDING" /\ Proceed("resuspend") /\ UNCHANGED astate
       \/ /\ astate = "REVERTING" /\ Retry /\ UNCHANGED astate
    /\ NoFault /\ UNCHANGED <<log, mem, snap, uri>>

\* GetActor, and the branch resumeActor takes; a missing actor is created.
resumeActor ==
    /\ pc = "get"
    /\ \/ /\ astate = "NONE" /\ astate' = "SUSPENDED" /\ Proceed("resume")
       \/ /\ astate \in {"SUSPENDED", "RUNNING", "RESUMING"} /\ Proceed("resume")
          /\ UNCHANGED astate
       \/ /\ astate \in {"CRASHED", "REVERTING"} /\ Proceed("revert")
          /\ UNCHANGED astate
       \/ /\ astate = "SUSPENDING" /\ Proceed("resuspend")
          /\ UNCHANGED astate
    /\ NoFault /\ UNCHANGED <<log, mem, snap, uri>>

\* RevertActor puts a crashed actor back at its last snapshot; Substrate
\* rejects the call in any other state.
revertActor ==
    /\ pc = "revert"
    /\ \/ /\ astate \in {"CRASHED", "REVERTING"}
          /\ astate' = "SUSPENDED" /\ Proceed("resume")
       \/ /\ astate \notin {"CRASHED", "REVERTING"}
          /\ UNCHANGED astate /\ Retry
    /\ NoFault /\ UNCHANGED <<log, mem, snap, uri>>

\* The revert is interrupted.
revertActorFails ==
    /\ pc = "revert" /\ astate \in {"CRASHED", "REVERTING"}
    /\ astate' = "REVERTING" /\ Retry
    /\ Fault /\ UNCHANGED <<log, mem, snap, uri>>

\* Re-entering SuspendActor on an actor found SUSPENDING: it has completed,
\* or is Aborted because the first call is still at work.
resumeActorSuspending ==
    /\ pc = "resuspend"
    /\ \/ astate = "SUSPENDED" /\ Proceed("resume")
       \/ astate = "SUSPENDING" /\ Retry
    /\ NoFault /\ UNCHANGED <<log, substrate>>

\* It fails otherwise: the actor's worker is to be deleted.
resumeActorSuspendingFails ==
    /\ pc = "resuspend"
    /\ \/ astate = "CRASHED" /\ NoFault
       \/ astate # "CRASHED" /\ Fault
    /\ Proceed("release") /\ UNCHANGED <<log, substrate>>

\* DeleteWorker crashes the actor if that worker still hosts it.
DeleteWorker == astate' = IF astate \in {"RUNNING", "SUSPENDING"} THEN "CRASHED" ELSE astate

releaseWorker ==
    /\ pc = "release"
    /\ DeleteWorker /\ Proceed("revert")
    /\ NoFault /\ UNCHANGED <<log, mem, snap, uri>>

\* Mutated form: the actor starts from scratch, not from its snapshot.
doResumeActor_Fresh ==
    /\ pc = "resume"
    /\ \/ /\ astate \in {"SUSPENDED", "RESUMING"}
          /\ astate' = "RUNNING" /\ mem' = FreshMemory
          /\ Goto("dial") /\ pre' = uri /\ UNCHANGED <<req, inputs, turn, buf>>
       \/ /\ astate = "RUNNING"
          /\ Goto("dial") /\ pre' = uri /\ UNCHANGED <<astate, mem, req, inputs, turn, buf>>
       \/ /\ astate = "CRASHED"
          /\ Retry /\ UNCHANGED <<astate, mem>>
    /\ NoFault /\ UNCHANGED <<log, snap, uri>>

\* ResumeActor loads the last snapshot into a worker, or finds the actor
\* RUNNING already; its answer names that snapshot.
doResumeActor ==
    /\ pc = "resume"
    /\ \/ /\ astate \in {"SUSPENDED", "RESUMING"}
          /\ astate' = "RUNNING" /\ mem' = snap
          /\ Goto("dial") /\ pre' = uri /\ UNCHANGED <<req, inputs, turn, buf>>
       \/ /\ astate = "RUNNING"
          /\ Goto("dial") /\ pre' = uri /\ UNCHANGED <<astate, mem, req, inputs, turn, buf>>
       \/ /\ astate = "CRASHED"
          /\ Retry /\ UNCHANGED <<astate, mem>>
    /\ NoFault /\ UNCHANGED <<log, snap, uri>>

\* The resume is interrupted.
doResumeActorFails ==
    /\ pc = "resume" /\ astate \in {"SUSPENDED", "RESUMING"}
    /\ astate' = "RESUMING" /\ Retry
    /\ Fault /\ UNCHANGED <<log, mem, snap, uri>>

\* The worker answers the health check: Start returns, and Exec queues the
\* turn's input.  A new turn is logged first, a PENDING one is in the log.
Start ==
    /\ pc = "dial" /\ astate = "RUNNING"
    /\ Proceed(IF ResumptionState(log) = "PENDING" THEN "run" ELSE "log")
    /\ NoFault /\ UNCHANGED <<log, substrate>>

\* It never does: Start deletes the worker and fails.
StartUnreachable ==
    /\ pc = "dial"
    /\ \/ astate # "RUNNING" /\ NoFault
       \/ astate = "RUNNING" /\ Fault
    /\ DeleteWorker /\ Retry
    /\ UNCHANGED <<log, mem, snap, uri>>

-----------------------------------------------------------------------------
(***************************************************************************)
(* The turn itself: LogInputs, Run, Checkpoint, commit.                     *)
(***************************************************************************)
LogInputs ==
    /\ pc = "log"
    /\ log' = Append(log, InputEvent(turn))
    /\ Proceed("run") /\ NoFault /\ UNCHANGED substrate

\* Mutated form: a redelivered message is handed to the agent again.
Connect_NoDedup ==
    /\ pc = "run"
    /\ \/ /\ astate = "RUNNING"
          /\ mem' = [mem EXCEPT !.inFlight = @ \cup {turn}, !.last = NoStep]
          /\ Proceed("await")
       \/ /\ astate # "RUNNING" /\ UNCHANGED mem /\ Retry
    /\ NoFault /\ UNCHANGED <<log, astate, snap, uri>>

\* The message reaches the runtime, which answers what it remembers of this
\* StepID, joins the round in flight for it, or starts one.
Connect ==
    /\ pc = "run"
    /\ \/ /\ astate = "RUNNING"
          /\ mem' = IF mem.last = turn THEN mem
                    ELSE [mem EXCEPT !.inFlight = @ \cup {turn}]
          /\ Proceed("await")
       \/ /\ astate # "RUNNING" /\ UNCHANGED mem /\ Retry
    /\ NoFault /\ UNCHANGED <<log, astate, snap, uri>>

\* Mutated form: an error frame is taken for an output.
DrainStream_IgnoreError ==
    /\ pc = "await" /\ astate = "RUNNING" /\ mem.last = turn
    /\ Goto("checkpoint") /\ buf' = [step |-> mem.last, out |-> mem.out]
    /\ UNCHANGED <<req, inputs, turn, pre>>
    /\ NoFault /\ UNCHANGED <<log, substrate>>

\* The runtime's answer arrives: an output with its End frame, or the error
\* that the runtime repeats for this StepID from now on.
DrainStream ==
    /\ pc = "await" /\ astate = "RUNNING" /\ mem.last = turn
    /\ \/ /\ mem.out # Failed
          /\ Goto("checkpoint") /\ buf' = [step |-> mem.last, out |-> mem.out]
          /\ UNCHANGED <<req, inputs, turn, pre>>
       \/ /\ mem.out = Failed /\ Retry
    /\ NoFault /\ UNCHANGED <<log, substrate>>

\* The stream ends early.
DrainStreamFails ==
    /\ pc = "await"
    /\ \/ astate # "RUNNING" /\ NoFault
       \/ astate = "RUNNING" /\ Fault
    /\ Retry /\ UNCHANGED <<log, substrate>>

\* Checkpoint calls SuspendActor, which freezes the actor ...
Checkpoint ==
    /\ pc = "checkpoint"
    /\ \/ /\ astate = "RUNNING" /\ astate' = "SUSPENDING" /\ Proceed("suspend")
       \/ /\ astate # "RUNNING" /\ UNCHANGED astate /\ Retry
    /\ NoFault /\ UNCHANGED <<log, mem, snap, uri>>

\* Mutated form: the snapshot's name is not compared with the one before.
CheckpointReturns_AnySnapshot ==
    /\ pc = "suspend" /\ astate = "SUSPENDED"
    /\ Proceed("commit")
    /\ NoFault /\ UNCHANGED <<log, substrate>>

\* ... and accepts its answer only if it names a new snapshot.
CheckpointReturns ==
    /\ pc = "suspend" /\ astate = "SUSPENDED"
    /\ IF uri # 0 /\ uri # pre THEN Proceed("commit") ELSE Retry
    /\ NoFault /\ UNCHANGED <<log, substrate>>

\* SuspendActor fails, or its deadline passes while it is still at work.
CheckpointFails ==
    /\ pc = "suspend"
    /\ \/ astate = "CRASHED" /\ NoFault
       \/ astate # "CRASHED" /\ Fault
    /\ Retry /\ UNCHANGED <<log, substrate>>

\* commit refuses a redo that differs from what an earlier attempt logged.
ValidRedo ==
    LET already == pendingOutputs(log)
    IN  already = <<>> \/ already = <<OutputEvent(buf)>>

\* Mutated form: outputs are appended whatever an earlier attempt logged.
commit_NoRedoCheck ==
    /\ pc = "commit"
    /\ log' = Append(log, OutputEvent(buf)) /\ Proceed("complete")
    /\ NoFault /\ UNCHANGED substrate

\* commit logs the output unless an earlier attempt has ...
commit ==
    /\ pc = "commit"
    /\ \/ /\ pendingOutputs(log) = <<>>
          /\ log' = Append(log, OutputEvent(buf)) /\ Proceed("complete")
       \/ /\ pendingOutputs(log) # <<>> /\ ValidRedo
          /\ UNCHANGED log /\ Proceed("complete")
    /\ NoFault /\ UNCHANGED substrate

\* ... and then the completion; execA2A returns the reply of this StepID.
commitCompletes ==
    /\ pc = "complete"
    /\ log' = Append(log, CompletedEvent)
    /\ Goto(IF inputs /\ buf.step # req THEN "exec" ELSE "idle")
    /\ NoFault /\ UNCHANGED <<substrate, req, inputs, turn, pre, buf>>

\* An Append fails and the attempt with it; with AckLoss the event may have
\* been committed although its transaction's Commit reported an error.
AppendFails ==
    /\ pc \in {"log", "commit", "complete"}
    /\ \/ UNCHANGED log
       \/ /\ AckLoss /\ pc = "log" /\ log' = Append(log, InputEvent(turn))
       \/ /\ AckLoss /\ pc = "commit" /\ pendingOutputs(log) = <<>>
          /\ log' = Append(log, OutputEvent(buf))
       \/ /\ AckLoss /\ pc = "complete" /\ log' = Append(log, CompletedEvent)
    /\ Retry /\ Fault /\ UNCHANGED substrate

\* Any other call of the attempt fails without effect.
CallFails ==
    /\ pc \in {"get", "revert", "resuspend", "release", "resume", "run", "checkpoint"}
    /\ Retry /\ Fault /\ UNCHANGED <<log, substrate>>

\* The checkpointd process dies, or the goroutine's context is canceled.
Crash ==
    /\ pc # "idle"
    /\ Goto("idle") /\ req' = NoStep /\ inputs' = FALSE /\ turn' = NoStep
    /\ pre' = 0 /\ buf' = NoEnvelope
    /\ Fault /\ UNCHANGED <<log, substrate>>

-----------------------------------------------------------------------------
(***************************************************************************)
(* The actor and Substrate.                                                 *)
(***************************************************************************)

\* The agent carries a message out: routeOrAwait remembers the outcome.
routeOrAwait(s, o) ==
    /\ astate = "RUNNING" /\ s \in mem.inFlight
    /\ mem' = [last |-> s, out |-> o, inFlight |-> mem.inFlight \ {s},
               work |-> Append(mem.work, [step |-> s, out |-> o])]
    /\ NoFault /\ UNCHANGED <<log, astate, snap, uri, driver>>

\* The invocation returns an error, which is remembered too.
routeOrAwaitFails(s) ==
    /\ astate = "RUNNING" /\ s \in mem.inFlight
    /\ mem' = [mem EXCEPT !.last = s, !.out = Failed, !.inFlight = @ \ {s}]
    /\ Fault /\ UNCHANGED <<log, astate, snap, uri, driver>>

\* A suspend completes: the frozen memory is the new snapshot.
SuspendCompletes ==
    /\ astate = "SUSPENDING"
    /\ astate' = "SUSPENDED" /\ snap' = mem /\ uri' = uri + 1
    /\ NoFault /\ UNCHANGED <<log, mem, driver>>

\* A suspend ends without recording one.
SuspendLost ==
    /\ astate = "SUSPENDING"
    /\ astate' = "SUSPENDED"
    /\ Fault /\ UNCHANGED <<log, mem, snap, uri, driver>>

WorkerCrash ==
    /\ astate \in {"RESUMING", "RUNNING", "SUSPENDING"}
    /\ astate' = "CRASHED"
    /\ Fault /\ UNCHANGED <<log, mem, snap, uri, driver>>

-----------------------------------------------------------------------------
\* What the driver does when nothing fails.
DriverStep ==
    \/ establishRelayState \/ Exec
    \/ resumeActor \/ revertActor \/ resumeActorSuspending \/ releaseWorker \/ doResumeActor
    \/ Start \/ LogInputs \/ Connect \/ DrainStream
    \/ Checkpoint \/ CheckpointReturns \/ commit \/ commitCompletes

DriverFault ==
    \/ revertActorFails \/ resumeActorSuspendingFails \/ doResumeActorFails
    \/ StartUnreachable \/ DrainStreamFails \/ CheckpointFails
    \/ AppendFails \/ CallFails \/ Crash

Next ==
    \/ \E s \in StepID : execA2A(s)
    \/ DriverStep
    \/ DriverFault
    \/ \E s \in StepID, o \in Output : routeOrAwait(s, o)
    \/ \E s \in StepID : routeOrAwaitFails(s)
    \/ SuspendCompletes \/ SuspendLost \/ WorkerCrash

Spec == Init /\ [][Next]_vars

\* The goroutine runs on and notices what failed under it; a frozen actor's
\* suspend and the agent's work come to an end.
FailureNoticed ==
    \/ resumeActorSuspendingFails \/ StartUnreachable
    \/ DrainStreamFails \/ CheckpointFails

Fairness ==
    /\ WF_vars(DriverStep)
    /\ WF_vars(FailureNoticed /\ NoFault)
    /\ WF_vars(SuspendCompletes)
    /\ WF_vars(\E s \in StepID, o \in Output : routeOrAwait(s, o))

FairSpec == Spec /\ Fairness

-----------------------------------------------------------------------------
PCs == {"idle", "exec", "get", "revert", "resuspend", "release", "resume", "dial",
        "log", "run", "await", "checkpoint", "suspend", "commit", "complete"}

\* The type invariant.
TypeOK ==
    /\ log \in Seq(Event)
    /\ astate \in ActorState /\ mem \in Memory /\ snap \in Memory /\ uri \in Nat
    /\ pc \in PCs /\ req \in StepID \cup {NoStep} /\ inputs \in BOOLEAN
    /\ turn \in StepID \cup {NoStep} /\ pre \in Nat
    /\ buf \in Envelope \cup {NoEnvelope}
    /\ faults \in 0..MaxFaults

\* With one output per turn the log is a sequence of triples: turn k is its
\* input, its output and its completion, the last turn possibly cut short.
InputOf(l, k) == l[3 * k - 2].step
ReplyOf(l, k) == [step |-> l[3 * k - 1].step, out |-> l[3 * k - 1].out]
Turns(l) == (Len(l) + 2) \div 3
Replies(l) == (Len(l) + 1) \div 3
Completed(l) == Len(l) \div 3

\* A turn is logged once, whatever attempts it took: its input, one output
\* under the same StepID, its completion; and no StepID starts two turns.
\* (commit after a partial commit; retryExec "never re-runs" a completed turn.)
LoggedOnce(l) ==
    /\ \A k \in 1..Turns(l) :
           l[3 * k - 2] = InputEvent(InputOf(l, k)) /\ InputOf(l, k) \in StepID
    /\ \A k \in 1..Replies(l) :
           /\ l[3 * k - 1] = OutputEvent(ReplyOf(l, k))
           /\ ReplyOf(l, k).step = InputOf(l, k)
    /\ \A k \in 1..Completed(l) : l[3 * k] = CompletedEvent
    /\ \A j, k \in 1..Turns(l) : InputOf(l, j) = InputOf(l, k) => j = k

EachTurnLoggedOnce == LoggedOnce(log)

\* The memory holds every turn the log answers, in order, with that answer.
Remembers(l, m) ==
    /\ Replies(l) <= Len(m.work)
    /\ \A k \in 1..Replies(l) : m.work[k] = ReplyOf(l, k)

\* The log is never ahead of the checkpoint: an output is logged only when
\* the snapshot an actor would be resumed from already contains its turn.
\* (runTurn: "4 and 5 must never be reversed".)
LogNeverAhead == Remembers(log, snap)

\* A running agent stands where the log says: it remembers every answered
\* turn and has carried out at most the one still pending, under its StepID.
ResumesWhereLogLeftOff ==
    astate = "RUNNING" =>
        /\ Remembers(log, mem)
        /\ Len(mem.work) <= Turns(log)
        /\ \A k \in 1..Len(mem.work) : mem.work[k].step = InputOf(log, k)

\* commit never meets the error "not a valid idempotent redo": whatever
\* attempt logged an output, every later one has the very same output.
RedoIsIdempotent == pc = "commit" => ValidRedo

\* A turn that Exec is asked to retry has not been completed in the log
\* (retryExec: "a failure here always means c.Exec never reached a durable
\* commit").
RetryMeansUncommitted ==
    pc = "exec" /\ req # NoStep =>
        \A k \in 1..Completed(log) : InputOf(log, k) # req

\* A turn left PENDING is completed, through every crash, lost call and
\* failed checkpoint, unless the agent itself failed it: the runtime then
\* repeats that error for the StepID as long as the worker lives.
PendingTurnCompletes ==
    ResumptionState(log) = "PENDING"
        ~> (ResumptionState(log) = "COMPLETED" \/ (astate = "RUNNING" /\ mem.out = Failed))

-----------------------------------------------------------------------------
\* The durable state of a conversation: the turns its snapshot contains, and
\* the logged message that no snapshot contains yet.
Accepted ==
    IF ResumptionState(log) = "PENDING"
       /\ \A k \in DOMAIN snap.work : snap.work[k].step # pendingInputs(log)
    THEN pendingInputs(log) ELSE NoStep

Abstract == INSTANCE ExactlyOnce WITH inbox <- Accepted, done <- snap.work

\* A conversation implements ExactlyOnce: the checkpoint carries a message
\* out, once, and neither a revert nor a redo takes it back or repeats it.
ImplementsExactlyOnce == Abstract!Spec

=============================================================================
