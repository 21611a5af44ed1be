------------------------------ MODULE Session ------------------------------
(***************************************************************************)
(* One session of checkpointd, its task row and the replicas that contend   *)
(* for it: who drives its relay loop, who may take it over, and how it ends. *)
(*                                                                         *)
(* The durable state is the session's row (sessionstore.go), its task's row *)
(* (taskstore.go) and the newest hop of its event log.  A replica is a pod  *)
(* with a stable name and, after each restart, a new UID.  In every pod run *)
(* at most one goroutine registered for the session (taskRegistry), one     *)
(* thread that resumes sessions at startup and then sweeps for orphans, and *)
(* any of the client requests.  Each database statement is one action.      *)
(*                                                                         *)
(* A hop is what Turn models in detail: here it ends with some reply.       *)
(***************************************************************************)
EXTENDS Integers, FiniteSets

CONSTANTS
    Pod,          \* the pod names of the replicas
    NoPod,        \* the empty owner_pod
    Request,      \* the client requests of a behaviour
    MaxHops,      \* bound on the forwarding hops of a behaviour
    MaxFaults,    \* bound on crashes, failed calls and aborted requests
    MaxRestarts   \* how often a pod may come back under its name

ASSUME PodAssumption == NoPod \notin Pod
ASSUME SessionBounds == MaxHops \in Nat /\ MaxFaults \in Nat /\ MaxRestarts \in Nat

VARIABLES
    sess,     \* the checkpointd_sessions row: state, owner_pod and owner_uid
    task,     \* the checkpointd_tasks row: status and version
    last,     \* the session's newest logged hop, as lastHop finds it
    up, uid,  \* is the pod alive, and its current UID
    drv,      \* per pod: the goroutine registered for the session
    bg,       \* per pod: resumeServerSessions, then runSalvageLoop
    rq,       \* the client requests
    hops, faults

vars == <<sess, task, last, up, uid, drv, bg, rq, hops, faults>>
rows == <<sess, task, last>>
pods == <<up, uid>>

Incarnation == [pod : Pod, uid : Nat \ {0}]
Blank == [pod |-> NoPod, uid |-> 0]
Inc(p) == [pod |-> p, uid |-> uid[p]]
Alive(o) == o.pod \in Pod /\ up[o.pod] /\ o = Inc(o.pod)

Active == {"RUNNING", "TERMINATING"}
Terminal == {"completed", "canceled"}

\* What a reply asks of the relay loop: to carry on, to wait for the client,
\* or to end.  Each has a task status and a next step of driveRelayLoop.
Kind == {"forward", "pause", "final"}
reconstructState == [forward |-> "working", pause |-> "input_required", final |-> "completed"]
AfterReply == [forward |-> "hop", pause |-> "release", final |-> "mark"]

NoDriver == [pc |-> "none", canceled |-> FALSE, hasTask |-> FALSE,
             kind |-> "forward", visible |-> FALSE, ver |-> 0, late |-> 0]
NoWork == [pc |-> "idle", owner |-> Blank, state |-> "NONE"]
NotSent == [pc |-> "new", pod |-> NoPod, ver |-> 0]
Done == [NotSent EXCEPT !.pc = "done"]

Init ==
    /\ sess = [state |-> "NONE", owner |-> Blank]
    /\ task = [state |-> "none", version |-> 0]
    /\ last = "none"
    /\ up = [p \in Pod |-> TRUE] /\ uid = [p \in Pod |-> 1]
    /\ drv = [p \in Pod |-> NoDriver] /\ bg = [p \in Pod |-> NoWork]
    /\ rq = [r \in Request |-> NotSent]
    /\ hops = 0 /\ faults = 0

Fault == faults < MaxFaults /\ faults' = faults + 1
NoFault == faults' = faults

-----------------------------------------------------------------------------
(***************************************************************************)
(* The statements of sessionstore.go, as what they make of a row.           *)
(***************************************************************************)

\* Mutated form: the row's owner is not looked at.
ClaimSession_Blind(s, o) == [s EXCEPT !.owner = o]

ClaimSession(s, o) == IF s.owner = Blank THEN [s EXCEPT !.owner = o] ELSE s

\* Mutated form: the UID is not compared.
ClaimOrphanedSession_Blind(s, new, expected) ==
    IF s.owner # Blank THEN [s EXCEPT !.owner = new] ELSE s

ClaimOrphanedSession(s, new, expected) ==
    IF s.owner = expected THEN [s EXCEPT !.owner = new] ELSE s

\* Mutated form: owner_uid is left behind.
ReleaseSession_KeepUID(s) == [s EXCEPT !.owner.pod = NoPod]

ReleaseSession(s) == [s EXCEPT !.owner = Blank]

MarkTerminating(s) == IF s.state = "RUNNING" THEN [s EXCEPT !.state = "TERMINATING"] ELSE s
TerminateSession(s) == [s EXCEPT !.state = "TERMINATED"]

-----------------------------------------------------------------------------
(***************************************************************************)
(* The registered goroutine of pod p.  taskRegistry's slot is taken as long *)
(* as there is one.                                                         *)
(***************************************************************************)
Busy(p) == drv[p].pc # "none"
At(p, label) == up[p] /\ drv[p].pc = label
Running(p, label) == At(p, label) /\ ~drv[p].canceled

\* registry.acquire for a goroutine that begins at label.
Acquire(p, label, hasTask) ==
    drv' = [drv EXCEPT ![p] = [NoDriver EXCEPT !.pc = label, !.hasTask = hasTask]]
Goto(p, label) == drv' = [drv EXCEPT ![p].pc = label]
DriverOnly == UNCHANGED <<pods, bg, rq>>

\* What runRelayLoop resumes from.  A newest event that is not COMPLETED makes
\* it execute the turn its conversation has open.  A cancellation marker is
\* such an event: if no turn is open there, Exec "requires Inputs", and retryExec
\* repeats the call for ever.
establishRelayState(p) ==
    /\ Running(p, "establish")
    /\ Goto(p, CASE last = "none" -> "hop"
                 [] last \in {"pending", "marker_pending"} -> "exec"
                 [] last = "marker" -> "stuck"
                 [] OTHER -> AfterReply[last])
    /\ NoFault /\ DriverOnly /\ UNCHANGED <<rows, hops>>

\* A client's message is delivered only to a chain that waits for one.
continueRelayLoop(p) ==
    /\ Running(p, "continue")
    /\ Goto(p, IF last \in {"pause", "final", "marker", "marker_pending"} THEN "hop" ELSE "release")
    /\ NoFault /\ DriverOnly /\ UNCHANGED <<rows, hops>>

\* The next hop begins: LogInputs makes it the newest one.
execA2A(p) ==
    /\ Running(p, "hop")
    /\ last' = "pending"
    /\ drv' = [drv EXCEPT ![p].pc = "exec",
                          ![p].late = IF sess.state = "TERMINATING" THEN @ + 1 ELSE @]
    /\ NoFault /\ DriverOnly /\ UNCHANGED <<sess, task, hops>>

\* The agent's reply is committed.  visible: it comes from the session's
\* first agent, and a task row exists or the reply is Task-shaped, as one that pauses is.
execA2AReturns(p) ==
    /\ Running(p, "exec")
    /\ \E k \in Kind, v \in BOOLEAN :
           /\ k = "forward" => hops < MaxHops
           /\ k = "pause" => v
           /\ hops' = IF k = "forward" THEN hops + 1 ELSE hops
           /\ last' = k
           /\ drv' = [drv EXCEPT ![p].pc = "check", ![p].kind = k, ![p].visible = v]
    /\ NoFault /\ DriverOnly /\ UNCHANGED <<sess, task>>

\* Mutated form: another agent's reply is let through before the session's
\* state is looked at.
recordTaskStatus_LateCheck(p) ==
    /\ Running(p, "check")
    /\ Goto(p, IF ~drv[p].visible THEN AfterReply[drv[p].kind]
               ELSE IF sess.state = "TERMINATING" THEN "finish"
               ELSE IF drv[p].hasTask THEN "getRow" ELSE "create")
    /\ NoFault /\ DriverOnly /\ UNCHANGED <<rows, hops>>

\* recordTaskStatus reads the session's state and stops a session that is
\* TERMINATING; it records a visible reply.
recordTaskStatus(p) ==
    /\ Running(p, "check")
    /\ Goto(p, IF sess.state = "TERMINATING" THEN "finish"
               ELSE IF ~drv[p].visible THEN AfterReply[drv[p].kind]
               ELSE IF drv[p].hasTask THEN "getRow" ELSE "create")
    /\ NoFault /\ DriverOnly /\ UNCHANGED <<rows, hops>>

\* The first visible reply inserts the task's row; a second insert fails.
Create(p) ==
    /\ Running(p, "create")
    /\ \/ /\ task.state = "none"
          /\ task' = [state |-> reconstructState[drv[p].kind], version |-> 1]
          /\ drv' = [drv EXCEPT ![p].pc = AfterReply[drv[p].kind], ![p].hasTask = TRUE]
       \/ /\ task.state # "none" /\ UNCHANGED task
          /\ Goto(p, "release")
    /\ NoFault /\ DriverOnly /\ UNCHANGED <<sess, last, hops>>

\* UpdateStatus reads the row's version ...
getRow(p) ==
    /\ Running(p, "getRow")
    /\ drv' = [drv EXCEPT ![p].pc = "update", ![p].ver = task.version]
    /\ NoFault /\ DriverOnly /\ UNCHANGED <<rows, hops>>

\* ... and writes on condition that it is still the one read.
UpdateStatus(p) ==
    /\ Running(p, "update")
    /\ \/ /\ task.version = drv[p].ver
          /\ task' = [state |-> reconstructState[drv[p].kind], version |-> task.version + 1]
          /\ drv' = [drv EXCEPT ![p].pc = AfterReply[drv[p].kind], ![p].ver = 0]
       \/ /\ task.version # drv[p].ver /\ UNCHANGED task
          /\ drv' = [drv EXCEPT ![p].pc = "release", ![p].ver = 0]
    /\ NoFault /\ DriverOnly /\ UNCHANGED <<sess, last, hops>>

\* The chain has ended: TERMINATING, then the teardown, then TERMINATED.
\* A canceled goroutine goes through the same steps without effect.
driveRelayLoopEnds(p) ==
    /\ At(p, "mark")
    /\ sess' = IF drv[p].canceled THEN sess ELSE MarkTerminating(sess)
    /\ Goto(p, "finish")
    /\ NoFault /\ DriverOnly /\ UNCHANGED <<task, last, hops>>

finishTermination(p) ==
    /\ At(p, "finish")
    /\ sess' = IF drv[p].canceled THEN sess ELSE TerminateSession(sess)
    /\ Goto(p, "release")
    /\ NoFault /\ DriverOnly /\ UNCHANGED <<task, last, hops>>

\* The deferred calls: the row's owner is blanked, then the slot is freed.
mustReleaseSession(p) ==
    /\ At(p, "release")
    /\ sess' = ReleaseSession(sess)
    /\ drv' = [drv EXCEPT ![p] = [NoDriver EXCEPT !.pc = "unregister", !.canceled = drv[p].canceled]]
    /\ NoFault /\ DriverOnly /\ UNCHANGED <<task, last, hops>>

releaseRegistry(p) ==
    /\ At(p, "unregister")
    /\ drv' = [drv EXCEPT ![p] = NoDriver]
    /\ NoFault /\ DriverOnly /\ UNCHANGED <<rows, hops>>

\* Under a canceled context every call fails, and the goroutine returns.
ContextCanceled(p) ==
    /\ up[p] /\ drv[p].canceled
    /\ drv[p].pc \in {"establish", "continue", "hop", "exec", "stuck",
                      "check", "create", "getRow", "update"}
    /\ Goto(p, "release")
    /\ NoFault /\ DriverOnly /\ UNCHANGED <<rows, hops>>

\* A database call fails: fatal to the loop, but not to its termination.
CallFails(p) ==
    /\ up[p]
    /\ \/ /\ drv[p].pc \in {"establish", "continue", "hop", "check", "create", "getRow",
                           "update", "finish"}
          /\ Goto(p, "release")
       \/ /\ drv[p].pc = "mark"
          /\ Goto(p, "finish")
    /\ Fault /\ DriverOnly /\ UNCHANGED <<rows, hops>>

-----------------------------------------------------------------------------
(***************************************************************************)
(* Client requests.                                                         *)
(***************************************************************************)
Step(r, label) == rq' = [rq EXCEPT ![r].pc = label]
Finish(r) == rq' = [rq EXCEPT ![r] = Done]
Serving(r, label) == rq[r].pc = label /\ up[rq[r].pod]

\* A first message: the session is created, owned by the pod that got it.
startTask(r, p) ==
    /\ up[p] /\ rq[r].pc = "new" /\ sess.state = "NONE"
    /\ sess' = [state |-> "RUNNING", owner |-> Inc(p)]
    /\ rq' = [rq EXCEPT ![r].pc = "started", ![r].pod = p]
    /\ NoFault /\ UNCHANGED <<task, last, pods, drv, bg, hops>>

startTaskAcquires(r) ==
    /\ Serving(r, "started")
    /\ IF Busy(rq[r].pod) THEN UNCHANGED drv ELSE Acquire(rq[r].pod, "establish", FALSE)
    /\ Finish(r)
    /\ NoFault /\ UNCHANGED <<rows, pods, bg, hops>>

\* A message for an existing task, which is read and must not be terminal.
continueTask(r, p) ==
    /\ up[p] /\ rq[r].pc = "new" /\ task.state \notin Terminal \cup {"none"}
    /\ rq' = [rq EXCEPT ![r].pc = "claim", ![r].pod = p]
    /\ NoFault /\ UNCHANGED <<rows, pods, drv, bg, hops>>

continueTaskClaims(r) ==
    /\ Serving(r, "claim")
    /\ sess' = ClaimSession(sess, Inc(rq[r].pod))
    /\ IF sess' # sess THEN Step(r, "adopt") ELSE Finish(r)
    /\ NoFault /\ UNCHANGED <<task, last, pods, drv, bg, hops>>

\* Mutated form: the claim is kept although nothing is going to drive it.
continueTaskAcquires_LeakClaim(r) ==
    /\ Serving(r, "adopt")
    /\ \/ /\ Busy(rq[r].pod) /\ UNCHANGED drv
       \/ /\ ~Busy(rq[r].pod) /\ Acquire(rq[r].pod, "continue", TRUE)
    /\ Finish(r)
    /\ NoFault /\ UNCHANGED <<sess, task, last, pods, bg, hops>>

\* The slot is free, or the claim is given back.
continueTaskAcquires(r) ==
    /\ Serving(r, "adopt")
    /\ \/ /\ Busy(rq[r].pod) /\ UNCHANGED drv
          /\ sess' = ReleaseSession(sess)
       \/ /\ ~Busy(rq[r].pod) /\ UNCHANGED sess
          /\ Acquire(rq[r].pod, "continue", TRUE)
    /\ Finish(r)
    /\ NoFault /\ UNCHANGED <<task, last, pods, bg, hops>>

\* A cancellation reads the task with its version ...
CancelTask(r, p) ==
    /\ up[p] /\ rq[r].pc = "new" /\ task.state \notin Terminal \cup {"none"}
    /\ rq' = [rq EXCEPT ![r] = [pc |-> "signal", pod |-> p, ver |-> task.version]]
    /\ NoFault /\ UNCHANGED <<rows, pods, drv, bg, hops>>

\* ... cancels the goroutine registered in its own pod, if there is one ...
cancelAndWait(r) ==
    /\ Serving(r, "signal")
    /\ drv' = [drv EXCEPT ![rq[r].pod].canceled = Busy(rq[r].pod)]
    /\ Step(r, IF Busy(rq[r].pod) THEN "wait" ELSE "cancel")
    /\ NoFault /\ UNCHANGED <<rows, pods, bg, hops>>

\* ... waits until that goroutine has left the slot ...
cancelAndWaitReturns(r) ==
    /\ Serving(r, "wait") /\ ~drv[rq[r].pod].canceled
    /\ Step(r, "cancel")
    /\ NoFault /\ UNCHANGED <<rows, pods, drv, bg, hops>>

\* ... or cancelWaitTimeout has passed ...
cancelAndWaitTimesOut(r) ==
    /\ Serving(r, "wait") /\ Step(r, "cancel")
    /\ Fault /\ UNCHANGED <<rows, pods, drv, bg, hops>>

\* Mutated form: the session's row is written whatever its state.
CancelTaskAndSession_AnyState(r) ==
    /\ Serving(r, "cancel")
    /\ \/ /\ task.version = rq[r].ver
          /\ task' = [state |-> "canceled", version |-> task.version + 1]
          /\ sess' = [sess EXCEPT !.state = "TERMINATING"]
          /\ Step(r, "marker")
       \/ /\ task.version # rq[r].ver /\ UNCHANGED <<task, sess>>
          /\ Finish(r)
    /\ NoFault /\ UNCHANGED <<last, pods, drv, bg, hops>>

\* ... writes both rows in one transaction, if the version is still the same ...
CancelTaskAndSession(r) ==
    /\ Serving(r, "cancel")
    /\ \/ /\ task.version = rq[r].ver
          /\ task' = [state |-> "canceled", version |-> task.version + 1]
          /\ sess' = MarkTerminating(sess)
          /\ Step(r, "marker")
       \/ /\ task.version # rq[r].ver /\ UNCHANGED <<task, sess>>
          /\ Finish(r)
    /\ NoFault /\ UNCHANGED <<last, pods, drv, bg, hops>>

\* ... appends a marker to the history, in the owner agent's conversation,
\* which may be the one whose turn is open ...
appendCancellationMarker(r) ==
    /\ Serving(r, "marker")
    /\ \/ last' = "marker"
       \/ last \in {"pending", "marker_pending"} /\ last' = "marker_pending"
    /\ Step(r, "reclaim")
    /\ NoFault /\ UNCHANGED <<sess, task, pods, drv, bg, hops>>

\* ... and, if nobody owns the session, claims it to tear it down ...
CancelTaskClaims(r) ==
    /\ Serving(r, "reclaim")
    /\ sess' = ClaimSession(sess, Inc(rq[r].pod))
    /\ IF sess' # sess THEN Step(r, "cleanup") ELSE Finish(r)
    /\ NoFault /\ UNCHANGED <<task, last, pods, drv, bg, hops>>

\* ... once the slot is free.
acquireWait(r) ==
    /\ Serving(r, "cleanup") /\ ~Busy(rq[r].pod)
    /\ Acquire(rq[r].pod, "finish", TRUE)
    /\ Finish(r)
    /\ NoFault /\ UNCHANGED <<rows, pods, bg, hops>>

\* The client hangs up or a call under the request's context fails.
RequestAborted(r) ==
    /\ \E label \in {"claim", "signal", "wait", "cancel", "reclaim"} : Serving(r, label)
    /\ Finish(r)
    /\ Fault /\ UNCHANGED <<rows, pods, drv, bg, hops>>

\* The marker is best effort.
MarkerFails(r) ==
    /\ Serving(r, "marker") /\ Step(r, "reclaim")
    /\ Fault /\ UNCHANGED <<rows, pods, drv, bg, hops>>

-----------------------------------------------------------------------------
(***************************************************************************)
(* Crashes, restarts, and the thread that takes sessions over.              *)
(***************************************************************************)

\* The process ends: with it its goroutines, threads and requests.
Die(p) ==
    /\ up' = [up EXCEPT ![p] = FALSE] /\ UNCHANGED uid
    /\ drv' = [drv EXCEPT ![p] = NoDriver] /\ bg' = [bg EXCEPT ![p] = NoWork]
    /\ rq' = [r \in Request |-> IF rq[r].pod = p THEN Done ELSE rq[r]]

Crash(p) == up[p] /\ Die(p) /\ Fault /\ UNCHANGED <<rows, hops>>

\* The pod is created again: it serves requests at once and resumes sessions.
Restart(p) ==
    /\ ~up[p] /\ uid[p] <= MaxRestarts
    /\ up' = [up EXCEPT ![p] = TRUE] /\ uid' = [uid EXCEPT ![p] = @ + 1]
    /\ bg' = [bg EXCEPT ![p].pc = "boot"]
    /\ NoFault /\ UNCHANGED <<rows, drv, rq, hops>>

Background(p, label) == up[p] /\ bg[p].pc = label
Listed == [pc |-> "claim", owner |-> sess.owner, state |-> sess.state]

\* At startup: the session is listed if its owner has this pod's name.
resumeServerSessions(p) ==
    /\ Background(p, "boot")
    /\ bg' = [bg EXCEPT ![p] = IF sess.state \in Active /\ sess.owner.pod = p THEN Listed ELSE NoWork]
    /\ NoFault /\ UNCHANGED <<rows, pods, drv, rq, hops>>

\* A sweep: the session is listed if its owner is another incarnation that no
\* longer exists.  (A dead one stays dead, so the three reads are one.)
sweepOrphanedSessions(p) ==
    /\ Background(p, "idle")
    /\ sess.state \in Active /\ sess.owner # Blank /\ ~Alive(sess.owner)
    /\ bg' = [bg EXCEPT ![p] = Listed]
    /\ NoFault /\ UNCHANGED <<rows, pods, drv, rq, hops>>

\* The listed session is claimed (at startup: stamped with the new UID) if its
\* owner is still the listed one.
salvageSessionsOwnedBy(p) ==
    /\ Background(p, "claim")
    /\ sess' = ClaimOrphanedSession(sess, Inc(p), bg[p].owner)
    /\ bg' = [bg EXCEPT ![p] = IF sess.owner = bg[p].owner THEN [@ EXCEPT !.pc = "resume"] ELSE NoWork]
    /\ NoFault /\ UNCHANGED <<task, last, pods, drv, rq, hops>>

\* A goroutine is registered for it, according to the state it was listed in.
startClaimedSession(p) ==
    /\ Background(p, "resume") /\ ~Busy(p)
    /\ Acquire(p, IF bg[p].state = "TERMINATING" THEN "finish" ELSE "establish", task.state # "none")
    /\ bg' = [bg EXCEPT ![p] = NoWork]
    /\ NoFault /\ UNCHANGED <<rows, pods, rq, hops>>

\* The slot is taken: fine if the session was this incarnation's when it was
\* listed, a panic otherwise.
alreadyDriven(p) ==
    /\ Background(p, "resume") /\ Busy(p)
    /\ IF bg[p].owner = Inc(p)
       THEN bg' = [bg EXCEPT ![p] = NoWork] /\ UNCHANGED <<pods, drv, rq>>
       ELSE Die(p)
    /\ NoFault /\ UNCHANGED <<rows, hops>>

\* Mutated form: a failed takeover leaves the session without an owner.
mustRevertClaim_Release(p) ==
    /\ Background(p, "resume")
    /\ sess' = ReleaseSession(sess)
    /\ bg' = [bg EXCEPT ![p] = NoWork]
    /\ Fault /\ UNCHANGED <<task, last, pods, drv, rq, hops>>

\* The session cannot be loaded: it goes back to the owner it was taken from.
mustRevertClaim(p) ==
    /\ Background(p, "resume")
    /\ sess' = ClaimOrphanedSession(sess, bg[p].owner, Inc(p))
    /\ bg' = [bg EXCEPT ![p] = NoWork]
    /\ Fault /\ UNCHANGED <<task, last, pods, drv, rq, hops>>

-----------------------------------------------------------------------------
DriverStep(p) ==
    \/ establishRelayState(p) \/ continueRelayLoop(p) \/ execA2A(p) \/ execA2AReturns(p)
    \/ recordTaskStatus(p) \/ Create(p) \/ getRow(p) \/ UpdateStatus(p)
    \/ driveRelayLoopEnds(p) \/ finishTermination(p)
    \/ mustReleaseSession(p) \/ releaseRegistry(p) \/ ContextCanceled(p)

RequestStep(r) ==
    \/ startTaskAcquires(r)
    \/ continueTaskClaims(r) \/ continueTaskAcquires(r)
    \/ cancelAndWait(r) \/ cancelAndWaitReturns(r) \/ CancelTaskAndSession(r)
    \/ appendCancellationMarker(r) \/ CancelTaskClaims(r) \/ acquireWait(r)

BackgroundStep(p) ==
    \/ resumeServerSessions(p) \/ sweepOrphanedSessions(p) \/ salvageSessionsOwnedBy(p)
    \/ startClaimedSession(p) \/ alreadyDriven(p)

Arrival(r) == \E p \in Pod : startTask(r, p) \/ continueTask(r, p) \/ CancelTask(r, p)

Next ==
    \/ \E p \in Pod : DriverStep(p) \/ CallFails(p)
    \/ \E r \in Request : Arrival(r) \/ RequestStep(r)
    \/ \E r \in Request : cancelAndWaitTimesOut(r) \/ RequestAborted(r) \/ MarkerFails(r)
    \/ \E p \in Pod : BackgroundStep(p) \/ mustRevertClaim(p) \/ Crash(p) \/ Restart(p)

Spec == Init /\ [][Next]_vars

\* Goroutines run, requests are served, sweeps are repeated, and Kubernetes
\* creates a pod again.
Fairness ==
    /\ \A p \in Pod : WF_vars(DriverStep(p)) /\ WF_vars(BackgroundStep(p)) /\ WF_vars(Restart(p))
    /\ \A r \in Request : WF_vars(RequestStep(r))

FairSpec == Spec /\ Fairness

-----------------------------------------------------------------------------
DriverPCs == {"none", "establish", "continue", "hop", "exec", "stuck", "check", "create",
              "getRow", "update", "mark", "finish", "release", "unregister"}
RequestPCs == {"new", "started", "claim", "adopt", "signal", "wait", "cancel", "marker", "reclaim",
               "cleanup", "done"}

SessionRow == [state : Active \cup {"NONE", "TERMINATED"}, owner : Incarnation \cup {Blank}]
TaskRow == [state : Terminal \cup {"none", "working", "input_required"}, version : Nat]
Driver == [pc : DriverPCs, canceled : BOOLEAN, hasTask : BOOLEAN, kind : Kind,
           visible : BOOLEAN, ver : Nat, late : Nat]
Thread == [pc : {"boot", "idle", "claim", "resume"},
           owner : Incarnation \cup {Blank}, state : Active \cup {"NONE"}]
Call == [pc : RequestPCs, pod : Pod \cup {NoPod}, ver : Nat]

\* The type invariant.
TypeOK ==
    /\ sess \in SessionRow /\ task \in TaskRow
    /\ last \in Kind \cup {"none", "pending", "marker", "marker_pending"}
    /\ up \in [Pod -> BOOLEAN] /\ uid \in [Pod -> Nat \ {0}]
    /\ drv \in [Pod -> Driver] /\ bg \in [Pod -> Thread] /\ rq \in [Request -> Call]
    /\ hops \in 0..MaxHops /\ faults \in 0..MaxFaults

\* A goroutine that relays hops or tears the session down.
Driving(p) == up[p] /\ drv[p].pc \notin {"none", "unregister"}

\* The replica whose goroutine drives the session is the one its row names:
\* nobody can take over what is being driven.
DriverOwnsSession == \A p \in Pod : Driving(p) => sess.owner = Inc(p)

\* "at most one instance ever actively drives it at a time" (ClaimSession).
AtMostOneDriver == Cardinality({p \in Pod : Driving(p)}) <= 1

\* "Nothing ever transitions a session back to RUNNING or TERMINATING", nor a
\* TERMINATING one to RUNNING, whichever of a chain's end, a cancellation and a
\* takeover writes last.
Rank == [NONE |-> 0, RUNNING |-> 1, TERMINATING |-> 2, TERMINATED |-> 3]
StateNeverGoesBack == [][Rank[sess.state] <= Rank[sess'.state]]_vars

\* A session owned by a live replica never passes to another live one without
\* having been released: salvage and a restart race for what is dead only.
NeverTakenFromTheLiving ==
    [][Alive(sess.owner) => sess'.owner = sess.owner \/ ~Alive(sess'.owner)]_vars

\* A cancellation recorded by another replica stops the relay loop at its next
\* reply: at most one more hop begins, whoever answers it.
AtMostOneLateHop == \A p \in Pod : drv[p].late <= 1

\* A session whose owner is gone is taken over by a live replica and driven on,
\* or it ends, even if a takeover fails half way (mustRevertClaim).
Orphaned == sess.state \in Active /\ sess.owner # Blank /\ ~Alive(sess.owner)
OrphanIsTakenOver ==
    Orphaned ~> (sess.state = "TERMINATED" \/ (\E p \in Pod : Driving(p)) \/ (\A p \in Pod : ~up[p]))

\* What a draining replica waits for (CountOwnedRunningSessions = 0) happens:
\* no path of a request or a goroutine keeps a RUNNING session owned.
OwnsRunning(p) == up[p] /\ sess.state = "RUNNING" /\ sess.owner = Inc(p)
DrainEnds == \A p \in Pod : OwnsRunning(p) ~> ~OwnsRunning(p)

\* A canceled task stays canceled (CancelTask: "CancelTaskAndSession above
\* already durably recorded the cancellation, so the client-visible result is
\* already correct").
CanceledIsFinal == [][task.state = "canceled" => task'.state = "canceled"]_vars

\* The session of a canceled task is torn down (CancelTask: the other
\* instance's "driveRelayLoop will run finishTermination itself the next time it
\* reaches a stopping point").
CanceledSessionTerminates == task.state = "canceled" ~> sess.state = "TERMINATED"

\* The session of a completed task "stays RUNNING a little longer than it
\* should" at worst (driveRelayLoop): it is torn down in the end.
CompletedSessionTerminates == task.state = "completed" ~> sess.state = "TERMINATED"
=============================================================================
