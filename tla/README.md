# A TLA+ development of checkpointd

checkpointd relays A2A messages between agents. Every agent of a session runs in
a Substrate *actor* that is resumed for a turn, asked one message, suspended into
an external snapshot, and only then recorded in a database log. Several replicas
of checkpointd share the database: each session is driven by the replica that owns
it, and is taken over when that replica disappears. The hard part of the program is
that everything may crash, and every call may fail or time out, between any two of
these steps.

## The parts of the system

| part | source | state | operations |
|---|---|---|---|
| Controller, event log | `internal/controller`, `eventlog/sql.go` | one log per conversation (= per actor) | `Exec`, `runTurn`, `commit`, `LogInputs`, `LogOutputs`, `Append` |
| Substrate harness | `internal/harness/substrate`, `internal/harness/stream.go`, `internal/ate` | none of its own; Substrate keeps actor state, worker and last snapshot | `Start` (`resumeActor`), `Run`, `Checkpoint`, `DeleteActor` |
| Actor runtime | `harness/runtime.go`, `harness/agent.go` | last StepID and its outcome, rounds in flight, invocations waiting for replies; all part of the snapshot | `Connect`, `routeOrAwait`, `deliverOnce`, `SendMessage` |
| Relay loop | `cmd/checkpointd/relay.go` | a goroutine's local variables | `runRelayLoop`, `continueRelayLoop`, `driveRelayLoop`, `execA2A`, `recordTaskStatus`, `finishTermination` |
| Session store, task store | `sessionstore.go`, `taskstore.go` | session row (state, owner pod, owner UID), task row (status, version) | claim, release, mark, terminate; create, update, cancel |
| Task registry | `taskregistry.go` | per replica and session: the registered goroutine | `acquire`, `acquireWait`, `cancelAndWait` |
| Request handler | `serverhandler.go` | one goroutine per request | `startTask`, `continueTask`, `CancelTask` |
| Startup resume, salvage | `server.go`, `salvage.go` | what the thread listed and has not processed yet | `resumeServerSessions`, `sweepOrphanedSessions`, `mustRevertClaim` |
| Process and drain | `server.go` | the main goroutine and the drain goroutine | `runServe`, `Shutdown`, `CountOwnedRunningSessions` |
| Retention | `retention.go` | the batch it found and the transaction it is in | `sweepExpiredSessions`, `deleteSessionIfStillExpired`, `runRetentionLoop` |
| Agent discovery | `discovery.go`, `controller/registry.go` | the harness registry and the card store | `discoverAndApply`, `agentsFromTemplates`, `Registry.Replace` |
| Interactions harness | `internal/harness/antigravityinteractions` | the resume cursor on disk, the turn loop of a Connect, the agent's files | `Run`, `postTurn`, the stream parser, the tools |
| Antigravity harness, sidecar | `internal/harness/antigravity`, `internal/pythonsidecar`, `python/antigravity` | a PID file and an endpoint shared by host processes; a turn's stream | `Start`, `Stop`, `monitor`, the servicer's `Connect` |
| Configuration, telemetry, gRPC server, skills | | | no protocol state |

The relay loop calls the controller, the controller calls the harness, the harness
calls Substrate (RPC) and the runtime inside the actor (a gRPC stream). Replicas
interact through the database rows only. Inside a replica, requests and the
startup/salvage thread interact with the relay goroutine through the registry: they
start it, cancel its context, and wait until it has left its slot. The two Antigravity
harnesses are alternatives behind the same `Harness` interface: one talks to a remote
API and executes the agent's tools itself, the other to a Python server that hosts of
one machine share.

What makes each part correct:

* *log against checkpoint* (Controller, harness): an output is logged only when the
  snapshot contains it; a resumed agent stands exactly where the log says; a turn is
  logged once and carried out once, however often it is attempted;
* *progress* (relay, harness, runtime): a turn that the log left PENDING is completed;
* *ownership* (session store, registry, handler, salvage): whoever drives a session
  owns its row; nobody takes it from a live owner; an orphan is taken over;
* *termination* (relay, handler): states only advance, a cancellation stops the chain
  and stays visible, a finished session is torn down;
* *calls between agents* (runtime, relay): however calls nest and wherever a crash falls,
  a reply finds the one invocation that waits for it, and the row, the log and what a
  client reads back agree on the outcome;
* *walks over moving rows* (stores, salvage, retention, drain): paging by a cursor over rows
  that the walk itself and others restamp loses no session, lists no task twice, and
  deletes nothing that is in use;
* *the harness's conversation* (Interactions): the chain of interactions continues only from
  turns that were heard to their end, each tool call runs at most once and is answered in
  full, a file is shown and edited as asked;
* *one server* (sidecar): hosts find the server there is, or start the only one.

`PROJECT.json` lists, under `hazards`, the lines at which these can go wrong and the
properties aimed at each of them.

## Modules

* `Turn` – one conversation: the relay goroutine, `Exec`, the Substrate harness, the
  actor's runtime and Substrate itself. Durable state: `log`, `snap` with its name
  `uri`, and the actor's state `astate`; volatile state: the actor's memory `mem` and
  the driver's `pc`, `req`, `turn`, `pre`, `buf`. Each RPC and each database call is
  one action, its failures are actions of their own. Substrate is external: what its
  calls do is modelled from what `substrate.go` expects of them.
* `ExactlyOnce` – what a conversation promises: accepted messages change the durable
  state of the actor once each, in order.
* `TurnProofs` – theorems about `Turn`.
* `Session` – one session, its task row, its replicas and its requests. `drv[p]` is the
  goroutine registered in replica `p` (`pc = "none"`: the slot is free), `bg[p]` the
  startup/salvage thread, `rq[r]` a client request; each database statement is one
  action. A hop is what `Turn` describes in detail; here it ends with a reply that
  forwards, pauses or ends the chain.
* `SessionProofs` – theorems about `Session`.
* `Runtime` – the runtime of one actor as operators on its state: invocations, the tokens
  by which they are blocked, nested calls, self-continuation, the history a turn is given.
* `Discovery` – what a listing of ActorTemplates makes known, as operators.
* `Relay` – extends both: a chain over several actors at the grain of the event log. `log`
  holds the events per actor with their session-wide number, each `Append` is its reads
  and its commit (`wr`, for the driver and for the cancellation marker), `d` is the relay
  goroutine, `cx` a CancelTask call, `reg` the registry and the cards. It has the crash and
  the resumption from the log, the teardown with failing deletions, the discovery loop,
  and the Task that a client reads back (`assembleTask`).
* `RelayProofs`, `RelayChainProofs` – theorems about `Relay`.
* `Store` – several sessions, their tasks and their log rows, with the clock that stamps
  them; the walks that take several statements: `ListTasks`, the startup resumption, the
  salvage sweep, the retention sweep; and the rows that drivers and cancellations write
  meanwhile. A driver is the statement it comes to next (`driver[s].pc`: turn, record, mark,
  end, stop), and `ReleaseSession` may follow any of them, since the release is deferred and
  runs on errors and on a cancelled context too. `CancelTask` is three steps: the transaction
  of `CancelTaskAndSession`, which needs no claim and stamps only a RUNNING session; the
  append of the marker, still without a claim; and the claim that allows the cleanup.
* `Server` – extends `Store` by the process of one replica: start, requests between their
  draining check and their first statement, SIGTERM, `Shutdown`, the wait for the owned
  sessions, and the ways in which the process ends without a full drain.
* `StoreProofs` – theorems about `Store` and `Server`.
* `Tools` – pure operators of the Interactions harness: the window and the pages of
  `view_file`, the replacement of chunks, the parser of the event stream.
* `Interactions` – extends `Tools`: the executions of one conversation, the retries of a
  POST, the tool loop, the cursor, cancellation and crash.
* `Sidecar` – host processes that start, watch and stop a Python server, with one PID file
  and one endpoint between them. A host has two threads, `main` (Start, then Stop) and `mon`
  (`monitor`), whose program counters are variables of their own.
* `Antigravity` – extends `Sidecar`: a turn over the server's stream, from the start frame,
  which may be refused, to the frames that the handler is given. The servicer takes one chunk of the
  agent's reply per step; `turn` holds its two buffers, the frames on the wire and the frames
  that were handed over.
* `SidecarProofs`, `AntigravityProofs` – theorems about these two.
* `InteractionsProofs` – theorems about `Interactions`.
* `MCTurn`, `MCSession`, `MCRelay`, `MCStore`, `MCInteractions`, `MCAntigravity` – constants
  for TLC.

`Turn` has one actor in full detail, `Session` one session's contention, `Relay` one
session's chain, `Store` and `Server` several sessions: each takes what the finer one
shows as one step. `Relay` relies on a turn being carried out and logged once (`Turn`)
and on one driver (`Session`); `Store` reduces a driver to the rows it writes.

Definitions whose name ends in `_Something` (for example `commit_NoRedoCheck`) are
mutated forms of the definition before the underscore: plausible mistakes, used to
confirm that each property notices one. No specification uses them.

### How the model abstracts the code

* An input is its StepID, an output is a value that the agent chooses anew each time it
  runs, so that "carried out twice" is visible as a different answer. A turn has one
  output step, as `harness/runtime.go` always sends one.
* `mem.work` is the agent's own memory: the turns it has carried out. It is what the
  snapshot is for.
* `GetActor` followed by `CreateActor` for a missing actor is one action: nobody else
  creates it.
* A conversation has one driver at a time. That is what `Session` is about, and
  `double_drive` shows the case in which it is false.
* The checkpointd process crashing and its goroutine's context being canceled are the
  same action of `Turn`: in both the local state is gone and the log and the actor stay.
* In `Session` a pod name that comes back has a new UID; UIDs are numbered per pod, so
  comparing a UID is comparing pod and number. The owner of a session that is to be
  swept is listed, checked and listed again in one action: a dead incarnation stays
  dead. `hasTask` stands for `bookkeeping.taskID # ""`.
* Under a canceled context every database call fails. `finishTermination` logs such
  failures and carries on, as in the code.
* A panic (`mustReleaseSession`, a busy slot after a salvage) is a crash of the pod.
* In `Relay` an envelope is who sent it to whom, its correlation and StepID, whether it is a
  reply, and the kind of its data; message texts are left out. An envelope carries one
  ghost, the invocation that an answer to it is meant for. The driver has three ghosts that
  name the exceptions the properties make: `fresh`, `lost`, `revived`.
* In `Store` a column that is NULL (an owner, a driver) is `"nobody"`. All replicas read one clock, which may stand still between two statements. The
  sweep's deletion is statement by statement under READ COMMITTED, so that a claim can fall
  between its re-check and its deletes (`sweep.raced`).
* In `Interactions` the API is external and modelled by what `postTurnOnce` copes with:
  rejections, lost answers, streams that break, repeat and restate. A character of a file is
  one or two bytes (`w1`, `w2`), so that a page can end inside one. A page always has room
  for one character, as the 256 KiB of the code have: the branch for a character larger
  than the cap (`antigravityinteractions_tools.go:221`) is not reached. Commands and listings leave the files alone
  (`otherTool`); what a command does to them is the agent's business.
* Two things are assumed of the environment of `Interactions`. A stream that ends without an
  error is a whole turn that has named its interaction: `parseStreamedTurn` takes any clean
  end for that, skips lines that it cannot read (`antigravityinteractions.go:893`) and has a
  branch for an empty id (335, 396, 436). And a tool comes to an end: `CombinedOutput` without
  a `WaitDelay` (`antigravityinteractions_tools.go:249`) outlasts its timeout if a background child keeps the output
  open. `ChainIsClean` and `AnsweredInFull` rest on the first, `ConnectEnds` on the second.
* In `Antigravity` all the checks before the agent is started are one outcome (`Refused`), since
  each of them ends the turn as FAILED before any output. Chunks of kinds that the servicer
  skips are not sent, and when closing the agent raises after COMPLETED
  (`harness_server.py:398`) only the FAILED end is sent, since the last end frame counts.
* In `Sidecar` a process booting, serving, a zombie and gone are told apart, PIDs are not
  reused, and `lapses` records which of the windows that the properties except was entered.

## Runs

| run | expects | what it asks |
|---|---|---|
| `turn` | pass | One conversation, two messages, two possible answers, four faults. Safety, the refinement of `ExactlyOnce`, and `PendingTurnCompletes`. 46,677 states. |
| `session` | pass | Two replicas, two requests, two forwarding hops, two faults, no pod comes back. `DriverOwnsSession`, `OrphanIsTakenOver`, `DrainEnds`. 60,051 states. |
| `session_restart` | pass | Two replicas, three requests, one forwarding hop, one fault, one restart under the same name. `AtMostOneLateHop`, `StateNeverGoesBack`, `NeverTakenFromTheLiving`. 657,983 states up to symmetry. |
| `relay` | pass | Two agents, two moves (calls, progress reports, follow-ups), one fault, six listings of templates. 320,251 states. |
| `store` | pass | Three sessions of which two share a task id, pages of two, three pairs of overlapping walks from six sets of leftover rows, drivers that may stop after any statement, and cancellations. 4,026,369 states. |
| `interactions` | pass | Two Connects of two turns each, three interactions, three events. 472,881 states. |
| `antigravity` | pass | Two hosts, three Python processes, one fault, after four kinds of leftovers, and a turn of up to three chunks. 628,513 states. |
| `turn_ack_lost` | violation | As `turn`, with commits that are durable and report an error. |
| `double_drive` | violation | Startup resume against a request of the same pod and a claim by another. |
| `canceled_undone` | violation | A status update against a cancellation in another replica. |
| `canceled_stranded` | violation | A pausing chain against a cancellation in another replica. |
| `completed_stranded` | violation | A completing chain against a cancellation in the same replica. |

The bounds. Two messages let a second turn start from the first one's snapshot and meet
its StepIDs; four faults allow an interrupted recovery of an interrupted recovery (a lost
suspend, a failed health check that deletes the worker, an interrupted revert, a crash).
Two replicas and three requests allow a session to be started, continued and canceled with
a takeover in between; one forwarding hop after a continuation is enough for a second hop
after a cancellation. `MaxRestarts = 0` separates `DriverOwnsSession`, which holds without
restarts, from the case of `double_drive`, which needs one. The theorems below remove
these bounds for the safety properties.

`relay`: two agents and two moves allow the owner to call another agent that calls back
into the owner, a progress report inside a call, and a continuation of a paused task; the
fault is a crash, a failed deletion, a cancellation, or an agent that discovery loses. With
three moves and without liveness and discovery 4,231,147 states show no violation of the
invariants either; three moves are also what it takes to reach `Refused`. `store`:
three sessions and pages of two make every walk cross a page border; the rows found at
the start are one and two ticks old, with a retention period of one, so that sessions are
expired, about to expire, and continued past their expiry. The walks overlap in pairs, since
no third one touches the rows of two. Two or three writes (`MCStarts`) are what a claim or a
cancellation and a statement of a driver need; the theorems of `StoreProofs` remove this bound.
`interactions`: a file of three lines, with caps of two lines and two bytes, so that
windows are cut at both ends and a page would end inside a character; two turns reach the
cap. `antigravity`: two hosts are what a window of the PID file needs; turns are those
of the first host before the second is started (`AloneInATurn`), since all that a second
host can do to a turn is to make its server exit.

What the passing runs of the newer modules show:

* `relay` – `ReplyFindsItsCaller`: the reply in the driver's hands is awaited by exactly the
  invocation that made the call, except in a session that was continued after it had ended
  (its actors may be gone). `ResumeEqualsLive`: at every hop a resumption would read
  from the log what the loop holds. `OrderOfRecord`: the session-wide order never contradicts
  a conversation's own, although `Append` computes both without a lock. `TornDown`: a
  TERMINATED session has no actor left but those whose deletion failed.
  `RowTellsTheOutcome`: the row says how the session ended. `AnswerIsOnRecord`: a client
  that is woken with a Task finds its row (`WokenFindsRow`), and what `assembleTask` then
  reads back is what was recorded. `ChainComesToRest`: liveness of the whole chain, through
  crashes.
* `store` – `ListedOnce`: paging lists no task twice and misses none that stood still.
  `NoneStranded`: a walk that has ended leaves no session in progress with the dead owner, but
  one whose load failed, and a process that ended by a full drain leaves none RUNNING in its
  name, but a request that came too late. It says nothing of sessions without an owner: those
  that a driver released after an error, or that a cancellation could not claim, are in no walk
  (`canceled_stranded` and `completed_stranded` show two of them). `SweepSparesTheContinued`:
  the sweep deletes what has ended and nobody drives, but in three windows that it names.
  `NoOrphans`: it deletes all of a session, but the log row of a driver that was still at it or
  of a cancellation that had yet to append its marker.
* `interactions` – `ChainIsClean`, `AnsweredInFull`: no turn continues one that failed, no
  tool call runs twice, results are complete. `ParsedAsMeant`, `ViewIsFaithful`,
  `EditIsWhole`: the parser, the pages and the edits against reference definitions; the parser
  may lose the beginning of a text that goes on with a copy of it (`MeantText`).
  `ConnectEnds`: every Connect ends. All of it under the two assumptions on the environment
  that are stated below.
* `antigravity` – `OneServer`, `NamedWhileServing`, `StopEnds` for the sidecar; `TurnIsWhole`:
  the handler is given the reply in order and in whole blocks, and success means all of it.

Deadlock is not checked: a conversation ends when no message is sent, a session when its
requests are served, a walk when it has seen every page, a host when it is stopped.

### What the violations show

1. `turn_ack_lost`. `Append` returns an error if `tx.Commit` does. If that commit was the
   COMPLETED event and is durable, `retryExec` runs `Exec` again with the same Inputs:
   the log is not PENDING, so a second turn is logged under the same StepID. The runtime's
   dedup keeps the agent from running twice, but "never re-runs an already-completed one"
   (`relay.go:599`) does not hold.
2. `double_drive`. A restarted pod serves requests before its startup resume is done. The
   resume lists a session that one of the pod's new requests drives, restamps it (same
   UID), the driver releases row and slot, another replica claims the row, and
   `startClaimedSession` finds the slot free.
3. `canceled_undone`. `recordTaskStatus` reads the session RUNNING; another replica cancels;
   `UpdateStatus` reads the new version and overwrites `canceled`.
4. `canceled_stranded`. The driver records a pausing reply and is about to return; another
   replica cancels the task, marks the session TERMINATING and cannot claim it, because the
   driver still owns it; the driver then releases it without `finishTermination`. The session
   is TERMINATING, unowned, and neither swept nor resumed.
5. `completed_stranded`. `CancelTask` cancels the context after `completed` is recorded;
   `MarkTerminating` and `TerminateSession` fail under it; the session stays RUNNING and
   unowned.

### What the models show besides

The passing properties name their exceptions, each of which the model reaches. These, and
what else became visible while modelling, have no run of their own; where a comment, a test
or a document says otherwise, it is quoted.

Relay, runtime and task row:

* A crash after a reply is logged and before `recordTaskStatus` (`relay.go:365`): the resumed
  loop takes the logged reply and does not record it. The row stays `working`, or absent,
  although the session becomes TERMINATED; as `continueTask` and `CancelTask` look at the row
  only, such a session can be continued (`d.lost`, `d.revived`). The same reply is lost when a
  client's message finds it pending: the loop runs the pending turn, discards its reply as a
  mismatch (`retryMismatch`), and a crash before the next hop lets the session end without it.
* An actor whose logged replies go back from a Task to none (`runtime.go:184`) refuses every
  later Connect, and the chain repeats the turn for ever (`Refused`, from three moves on).
* A cancellation's marker between an output and its completion makes a resumption log the
  output a second time.
* A call back into the owner is answered by a reply that `recordTaskStatus` takes for the
  owner's status (`relay.go:137`, `165`), until the next one corrects the row.
* An actor that was started and whose input was never logged is unknown to the teardown
  (`controller.go:137`).
* `historySteps` takes the first text of each input, so that the later inputs in a forwarded
  history are the conversation's first message.
* `assembleTask` lists a continuation before the claim it answers. `server_test.go:688` calls
  the history chronological, the example in `docs/deployment.md:196` shows the swapped order.
  `appendCancellationMarker` says that the history shows a cancellation as an entry of its
  own; it becomes the current status. A bare final reply after an `input` claim is shown as
  `completed` with that claim's message.

Discovery: one invalid id keeps every update out, because `Replace` refuses the whole set; of
two templates with one id the first listed wins; a request between `Replace` and the swap of
the cards sees new harnesses with old cards.

Stores, server, drain:

* The startup resumption restamps the sessions it lists, so that with more than a page of
  them the walk finds restamped rows again; the salvage and retention loops start after it
  (`server.go:196`).
* The startup resumption also lists what a request of the same new process has claimed
  already. If that request pauses and releases the session between the walk's claim and its
  start (`server.go:366`), the walk drives a session that nobody owns, and
  if the process then dies no sweep finds it (`walk[r].lost`).
* A claim between the sweep's re-check and its deletes (READ COMMITTED), and a continued
  session that is driven for longer than a retention period without being stamped, are
  deleted.
* A task row that still says `working` in a TERMINATED session can be canceled, which stamps
  the task and not the session. If the sweep deletes the expired session between
  `CancelTaskAndSession` and the append of the marker (`serverhandler.go:343`, `361`), the
  marker stays as a log row of a session that no longer exists (`sweep.raced`).
* A driver that returns after an error releases its session in whatever state it is, RUNNING
  or TERMINATING; without an owner it is in no walk, and only a client's next request, if the
  task is not over, takes it up again.
* Two tasks with the same `last_updated` and `task_id` can be skipped at a page border; a row
  that is updated meanwhile moves to the front and can be missed.
* SIGTERM during `resumeServerSessions` ends the process without a drain. During the wait for
  `--base-url` the drain counts the sessions of the dead incarnation by the pod's name, and
  waits until another replica has salvaged them. TERMINATING sessions are not counted. A
  request that passed `isDraining` and outlives the five seconds of `Shutdown` is taken late:
  the flag lets the drain end, what protects a session is `Shutdown` and the count.

Interactions: at the turn cap the last response's calls are dropped though the Connect ends
COMPLETED; a turn that fails loses its input; a crash or a failed save before the cursor is
written forks the chain; a running tool does not notice a cancellation; a `WriteFile` that
fails midway leaves a truncated file; a move replaces its destination; a chunk of text that
begins with all the text so far, and is no restatement, replaces it
(`antigravityinteractions.go:960`: "ha", then "ha!", is read as "ha!").

Sidecar: nobody waits for the goroutine in which a signal calls `Stop` (`antigravity.go:108`),
so that a host may exit and leave its server running; a failed `writePID`, which may have
truncated the file already, leads to a `Stop` before `monitor` exists, which waits for ever
(`sidecar.go:230`, `410`); two Starts that overlap, or a host killed while it starts, can leave
two servers; a cancelled Start removes the PID file of a live server, after which every Start
is refused; between `cleanPID`'s read and its removal a newer file can appear; an attached
host's `Stop` ends the server of another.

## Fairness

`Turn`: weak fairness of the driver's fault-free steps together (a goroutine keeps running
and its calls return), of noticing a failure that has already happened, of a suspend that
Substrate has begun, and of the agent's work. Nothing is assumed about faults; there are
finitely many, because a run of failures without end leaves nothing to promise.
`PendingTurnCompletes` excepts a turn whose agent returned an error, which the runtime
repeats until the worker is replaced.

`Session`: weak fairness per replica of the relay goroutine and of the startup/salvage
thread (`runSalvageLoop` repeats on a ticker), per request of its handler, and of
Kubernetes creating a pod again while the bound allows it. Nothing is assumed about
requests arriving.

`Relay`: weak fairness of the relay goroutine, of a CancelTask that is in progress, and of the
resumption after a crash, which is what `OrphanIsTakenOver` shows of `Session`. Nothing is
assumed about discovery, about clients or about what agents do; their moves are bounded.
`ChainComesToRest` excepts a chain whose agent stays unknown.

`Interactions`: weak fairness of the harness's own steps together, an answer or a timeout of
the API among them. No tool is assumed to stop being asked for, and no rate limit to end: the
turn cap and the number of retries end the Connect.

`Sidecar`: weak fairness of each host's `monitor` and `Stop`, and of the exit of a process that
was sent SIGKILL. A process need not react to SIGTERM, and no host need stop.

## Proofs

The proof modules are checked by TLAPS for every value of the constants.

**`TurnProofs`** (1,157 obligations), for every set of StepIDs and outputs and any number
of faults. Assumption: `AckLoss = FALSE`, that is `Append` reports its outcome truthfully;
`turn_ack_lost` shows what happens otherwise. The properties are not inductive as they
stand: `LogNeverAhead` relates log and snapshot, but a suspend replaces the snapshot by
the actor's memory, and the memory is what a driver left there that may have crashed
since. The inductive invariant `IInv` therefore says, besides types and the shape of the
log,

* `SnapshotOK`, `LiveOK` – the snapshot, and the memory of a live actor, hold the turns
  the log answers, at most the open one besides, and the runtime's dedup record is the
  last of them; the memory only adds to the snapshot;
* `RequestOK` – the driver works on the turn the log has open, or on a StepID the log has
  not seen;
* `AttemptOK` – what the driver knows of the actor between `Start` and `commit`: that the
  snapshot name it compares with is the current one until the suspend, and that the output
  it buffers is the one the memory, then the snapshot, remembers.

From it follow `TypeCorrect`, `CheckpointBeforeLog` (`LogNeverAhead`),
`ResumeAgreesWithLog` (`ResumesWhereLogLeftOff`), `TurnsLoggedOnce` (`EachTurnLoggedOnce`),
`RedoAccepted` (`RedoIsIdempotent`) and `RetryIsSafe` (`RetryMeansUncommitted`).

`ExactlyOnceImplemented` is the refinement: under the mapping of `ImplementsExactlyOnce` every
initial state of `Turn` is one of `ExactlyOnce`, and every step is one of its steps or leaves
its variables alone. Only two kinds of steps are not stutters: the commit of an input, which
accepts a message, and the suspend that puts the answer of the open turn into the snapshot,
which carries it out. That the latter happens once per message is `SnapshotOK` and `LiveOK`;
that a revert or a loss of the actor undoes nothing that was promised is that the promise
looks at the snapshot, not at the memory.

**`SessionProofs`** (1,704 obligations), for every set of pods and requests and any number
of hops, faults and restarts. The lemmas `DriverEffect`, `RequestEffect` and
`BackgroundEffect` say what each group of actions does to the row and to the parties at
work; the invariants are preserved on the strength of these. `IInv` says that nobody works on
a session that does not exist yet, that a request is served by a live pod, that an owner
is an incarnation that exists or has existed, that what a takeover has listed is its own
or gone (and what is gone stays gone, since a restart takes a new UID), and where a
goroutine can be that has begun a late hop. From it follow `TypeCorrect`,
`StateMovesForward` (`StateNeverGoesBack`), `LivingKeepTheirSessions`
(`NeverTakenFromTheLiving`) and `LateHopBounded` (`AtMostOneLateHop`).

Under the further assumption `MaxRestarts = 0`, `HInv` names the *holders* of a session – a
driving goroutine, a request between its claim and the registration of a goroutine, a
takeover between its claim and the same – and says that there is at most one, and that it
is the owner. `DriverOwnsSession` alone is not inductive, because a claim is made one step
before the goroutine is registered. From `HInv` follow `DriverIsOwner`
(`DriverOwnsSession`) and `OneDriver` (`AtMostOneDriver`). The assumption is needed:
`double_drive` is a counterexample with one restart.

**`RelayProofs`** (1,669 obligations), for every set of agents and of listings and any number
of moves and faults, without a further assumption. None of the properties is inductive as it
stands: `OrderOfRecord` speaks of the rows, but `Append` reads its two numbers one statement
before it inserts, with another `Append` in between; `TornDown` speaks of a session that has
ended, and the actors are deleted before that. `IInv` therefore says, besides types,

* `LogOK` – an input has a StepID and is for an agent, and an output or a completion comes
  after an input of its conversation;
* `WriterOK`, `DriverOK`, `RuntimeOK` – what the two `Append`s are about to insert, which turn
  the goroutine runs, and that an actor answers as an agent;
* `NumbersOK` – an `Append` that has read its numbers holds a `session_step` above every row
  of its conversation below the step it will insert, which the key then makes its own or
  refuses;
* `TeardownOK` – from the first deletion on, nothing is dispatched, until a client continues a
  session whose row was lost.

From it follow `TypeCorrect`, `RecordIsOrdered` (`OrderOfRecord`) and `TeardownIsComplete`
(`TornDown`).

**`RelayChainProofs`** (6,644 obligations), on top of that and just as general, proves
`ResumptionAgrees` (`ResumeEqualsLive`), `OutcomeIsRecorded` (`RowTellsTheOutcome`),
`RepliesFindTheirCallers` (`ReplyFindsItsCaller`) and `WokenByARow` (`WokenFindsRow`, a part of
`AnswerIsOnRecord`).

The first looks at the driver only when it stands between two hops, and compares it with the
newest events of the whole log, so the invariant `CInv` follows a hop through its three events:

* `ShapeOfLog` – while nobody cancels, a conversation is a sequence of turns of three events, at
  most one conversation has a turn pending, and the conversation that the chain is at is the one
  with the newest envelope (`Leads`);
* `AtDrive` to `AtRecord` – what the driver knows of that conversation at each of its steps; in
  particular its own reply is the logged one, or it has run another turn than it came for and
  will see the mismatch;
* `Agree` – as long as the session is RUNNING, a turn whose output is logged but not its
  completion is answered by its actor with this very output, so that a resumption repeats it;
* `SaidOK`, `MintedOK`, `EndOK` – answers are the actor's own and carry the StepID they answer,
  no StepID is minted twice, and actors are deleted only in a session that is ending.

The part on the chain is implied by "no marker is logged", as the property itself: a marker is no
part of a turn, and `Canceled` never becomes false again.

The second looks at the row only once the session is TERMINATED, long after the row was written
and by another step than the one that logged the reply. The invariant `RInv` follows the row from
one to the other:

* `AddressOK` – only the owner talks to the client, in what is logged, about to be logged, held by
  an actor or by the driver; so a reply to the client is a reply of the owner;
* `ClaimsOK` – there is a row if and only if the owner has claimed a Task, but for the reply that
  the driver has in hand; the driver knows which, and a cancellation finds a row;
* `RowFollows` – when the newest hop is a reply of the owner and was recorded, the row is what
  `reconstructState` makes of it;
* `EndsOK` – a session ends by the owner's answer or by a cancellation.

The proof showed an exception beyond the bounds of the run, the reply that a client's message finds
pending (above, `retryMismatch`); `d.lost` now covers it.

The third is about a reply and the one invocation that waits for it, which may have blocked many
hops ago, in another actor, and before a crash. The invariant `SInv` says of all the blocked
invocations together that they are a stack:

* `StackOK` – as long as the chain can go on, each blocked invocation is to answer the client or
  another blocked one, and no two are to answer the same (`Linked`); what the driver holds, or a
  resumption would read in the log, belongs to the top, which none is to answer (`Answers`).
  A turn takes the top off (`PopLink`), puts an invocation on it (`PushLink`) or leaves it;
* `TokensOK` – what an invocation waits with, and what an actor remembers as its last turn, is the
  StepID of an input of its conversation, so a new input is confused with none;
* `TurnOK` – the message that the driver brings to a conversation is new to it, or is that of the
  turn pending there, or is a client's;
* `MarkerOK` – a cancelled session loses what `CInv` says of its chain while its driver still
  finishes a hop; a resumption finds the marker newest, and so has no hop to take up.

TLC checked it before it was proved.

The fourth relates a client to a row that is written by one step, looked up by another, and
reported to the client by a third. `ShownOK` says that a row, once there, stays; the reply that
wakes a client is the first agent's own and is recorded before; and a resumption wakes nobody: a
driver that starts from the log and has a client waiting has found the log empty.

**`StoreProofs`** (2,873 obligations), for any number of sessions, any task ids, any sizes of
pages and batches, any set `Together` of walks that overlap, and any bound on time and writes.
What makes the walks hard is that rows move while they are walked. The inductive invariant says,
besides types,

* `Past` – nothing is stamped with a time to come, so that a restamped row moves in one direction
  only;
* `ListOK` – `ListTasks` walks towards older keys: a task it has returned is not below its cursor
  and can only move further away, and a task that stood still has been returned or is below it;
* `WalkOK` – a startup or salvage walk goes towards newer keys: a session that is still in the dead
  incarnation's hands is ahead of the cursor, or on the page that the walk is at (`Ahead`), and
  stays so when it is restamped;
* `OwnerOK`, `CancelOK`, `ProcessOK` – whoever is at a session owns it, what a walk has claimed is
  in progress and driven by nobody, a cancellation in flight is about a session that is over, and
  what the drain has counted to none grows only by requests that came too late;
* `SweepOK` – an ended session was stamped after its driver took it, so that one which is found
  expired has no driver, but in the named windows; and a deleted session that anybody may still
  write about (`Touched`: a driver, or a cancellation with its marker to append) is in `raced`.

From it follow `TypesCorrect` (`TypeOK`), `ListingIsExact` (`ListedOnce`), `NothingIsStranded`
(`NoneStranded`), `NothingIsOrphaned` (`NoOrphans`) and the action property `SweepIsSafe`
(`SweepSparesTheContinued`). The last two except the sessions in `Lost`: those that a walk
started after its claim on them had been released.

**`SidecarProofs`** (1,760 obligations) and **`AntigravityProofs`** (1,575), for any hosts, any
number of processes, launches and faults, and any replies of any length.

`OneServer` is not inductive: a host that is about to spawn a process must know that none lives,
although it has only seen that none serves. `OneOK` says that a booting process has a host that is
still starting it, and that there is one such host; `HostOK` and `ProcOK` say what the two threads
of a host have waited for, so that a Start which fails leaves no process behind. `NamedOK` says for
`NamedWhileServing` that no thread is left past the check that would let it replace or remove the
file (`Unharmed`).

`TurnIsWhole` speaks of the frames that were handed over. `TurnOK` says it of everything the
servicer has sent (`All`), received or still on the wire: the output frames are the blocks of a
prefix of the reply (`Blocks`), what is buffered is the block that follows them and is of another
kind than the last one sent (`Served`, `Rested`), and the end frame comes last, COMPLETED only
after the whole reply (`EndOK`). Hence `TypesCorrect` (`TypeOK`), `OneServerOnly` (`OneServer`),
`ServerIsNamed` (`NamedWhileServing`) and `TurnsAreWhole` (`TurnIsWhole`) of the specification
that the run checks.

**`InteractionsProofs`** (1,321 obligations), for any number of Connects, turns, retries,
interactions and faults, and whatever the tools do to the files. Hypothesis: `ParserIsRight`, that
`parseStreamedTurn` makes of each of the model's ways to stream a turn what the agent meant. It is
a formula without parameters, whose truth the run for `ParsedAsMeant` checks case by case; it is a
hypothesis because the parser is a fold over the events. Neither property is inductive: both look
at what was posted, which comes from what the Connect gathered over several steps. `IInv` says
besides types

* `ChainOK` – each interaction begins its Connect with the client's input, or has as its input the
  complete results of the interaction before it, of the same Connect (`LinkOK`); what it continues,
  and the cursor, was heard to its end; and Connects do not interleave;
* `ConnectOK` – what the Connect is about to post is one of the two, and from the POST to the end
  of the turn the last interaction is its own;
* `AnswersOK`, `RanOK` – the first k calls of the turn have run, once, and their results are
  gathered; the others are still to come, and no call of a later interaction has run.

From it follow `ChainStaysClean` (`ChainIsClean`) and `CallsAnsweredInFull` (`AnsweredInFull`).

Only model-checked:

* the liveness properties `PendingTurnCompletes`, `OrphanIsTakenOver`, `DrainEnds`,
  `ChainComesToRest`, `ConnectEnds` and `StopEnds`: the proof system does not handle fairness;
* the second part of `AnswerIsOnRecord` of `Relay`, which compares what was recorded with
  `assembleTask`, a fold over the log, and so takes induction over the data (the first part, that
  the row is there, is `WokenFindsRow`, and is proved);
* `TypeOK`, `ParsedAsMeant`, `ViewIsFaithful` and `EditIsWhole` of `Interactions`: they compare what
  folds over events, lines and edits compute with a reference, or say that it is a string of
  bytes, which takes induction over the data.

## Not modelled

The plan is carried out: of the properties that the passing runs check, those that no theorem states
are the ones named above, which are out of the prover's reach. What is left out of the modelled parts, and why:

* Substrate's DELETING state, the routing and the credentials of connections, and
  `verifyActor`: the models route by name and never reach the wrong actor.
* The lengths of backoffs and timeouts: a retry may come at any time.
* Filters, artifacts and the cap of the history in `ListTasks` and `GetTask`, and the
  comparison of context ids: they select or refuse, and change nothing.
* The rendering of agent cards and the transport check: stateless HTTP.
* Steering of a running Interactions turn: no frame of `Connect` carries it. `Setup` of the
  sidecar (`setup.go`): it writes files before the first Start. PID reuse: outside the
  program's control.

Not modelled at all: configuration and the wiring at startup, telemetry, the gRPC server's
plumbing and the generated protocol code, the conformance tests of `harnesstest`, and skills
(download and unpacking of files). None keeps state that the protocols above depend on.
