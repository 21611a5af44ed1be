--------------------------- MODULE SessionProofs ---------------------------
(***************************************************************************)
(* Theorems about Session, for every set of pods and requests and every     *)
(* number of hops, faults and restarts.  The ones about who drives a        *)
(* session assume that no pod comes back under its name (MaxRestarts = 0):  *)
(* what a restart makes possible is the subject of a run of its own.        *)
(***************************************************************************)
EXTENDS Session, FiniteSetTheorems, TLAPS

-----------------------------------------------------------------------------
(***************************************************************************)
(* The inductive invariant.                                                 *)
(***************************************************************************)

\* Before the session exists nobody works on it.
NotStarted ==
    sess.state = "NONE" =>
        /\ sess.owner = Blank /\ task.state = "none"
        /\ \A p \in Pod : drv[p].pc = "none" /\ bg[p].pc \in {"idle", "boot"}
        /\ \A r \in Request : rq[r].pc \in {"new", "done"}

\* A request that is being served is served by a live pod.
Served == \A r \in Request : rq[r].pc \notin {"new", "done"} => rq[r].pod \in Pod /\ up[rq[r].pod]

\* An incarnation that has existed, and one that has existed and is gone.
Known(o) == o \in Incarnation /\ o.uid <= uid[o.pod]
Gone(o) == Known(o) /\ ~Alive(o)

OwnerKnown == sess.owner = Blank \/ Known(sess.owner)

\* A takeover in progress is one of a session whose owner is gone, or is the
\* pod itself.
TakesFromTheGone ==
    \A p \in Pod : bg[p].pc \in {"claim", "resume"} =>
        up[p] /\ (bg[p].owner = Inc(p) \/ Gone(bg[p].owner))

\* A goroutine that has begun a late hop stops at its reply, unless the session
\* has been terminated under it.
LateHop ==
    \A p \in Pod : drv[p].late # 0 =>
        /\ drv[p].late = 1
        /\ sess.state \in {"TERMINATING", "TERMINATED"}
        /\ sess.state = "TERMINATING" => drv[p].pc \in {"exec", "check", "finish", "release"}

IInv == TypeOK /\ NotStarted /\ Served /\ OwnerKnown /\ TakesFromTheGone /\ LateHop

-----------------------------------------------------------------------------
(***************************************************************************)
(* Without restarts: who is entitled to the session.                        *)
(***************************************************************************)

\* The parties that act on the strength of owning the session: a driver, a
\* request that has claimed it, a takeover that has.
Drives(p) == drv[p].pc \notin {"none", "unregister"}
HasClaim(r) == rq[r].pc \in {"started", "adopt", "cleanup"}
HasTakenOver(p) == bg[p].pc = "resume"

\* Whoever acts on it owns it, and they are one.
HoldersOwn ==
    /\ \A p \in Pod : Drives(p) \/ HasTakenOver(p) => up[p] /\ sess.owner = Inc(p)
    /\ \A r \in Request : HasClaim(r) => sess.owner = Inc(rq[r].pod)

OneHolder ==
    /\ \A p, q \in Pod : ~(Drives(p) /\ HasTakenOver(q))
    /\ \A p \in Pod, r \in Request : HasClaim(r) => ~Drives(p) /\ ~HasTakenOver(p)
    /\ \A r, s \in Request : HasClaim(r) /\ HasClaim(s) => r = s

\* No pod has come back, and only what is gone is taken over.
FirstIncarnations ==
    \A p \in Pod :
        /\ uid[p] = 1 /\ bg[p].pc # "boot"
        /\ bg[p].pc \in {"claim", "resume"} => Gone(bg[p].owner)

HInv == HoldersOwn /\ OneHolder /\ FirstIncarnations

-----------------------------------------------------------------------------
(***************************************************************************)
(* Types.                                                                   *)
(***************************************************************************)
USE PodAssumption, SessionBounds

\* Initially nothing has happened, and the invariant holds.
LEMMA InitIInv == Init => IInv
  <1>. SUFFICES ASSUME Init PROVE IInv
    OBVIOUS
  <1>. USE DEF Init
  <1>1. TypeOK
    BY DEF TypeOK, SessionRow, TaskRow, Driver, Thread, Call, NoDriver, NoWork, NotSent,
           Blank, DriverPCs, RequestPCs, Kind, Active, Terminal
  <1>2. NotStarted /\ Served /\ OwnerKnown /\ TakesFromTheGone /\ LateHop
    BY SMTT(40) DEF NotStarted, Served, OwnerKnown, TakesFromTheGone, LateHop, NoDriver, NoWork,
                    NotSent
  <1>. QED  BY <1>1, <1>2 DEF IInv

\* Updates of a goroutine's fields.
LEMMA DriverFields ==
    ASSUME NEW d \in Driver, NEW label \in DriverPCs
    PROVE  /\ [d EXCEPT !.pc = label] \in Driver
           /\ \A v \in BOOLEAN : /\ [d EXCEPT !.canceled = v] \in Driver
                                 /\ [d EXCEPT !.pc = label, !.hasTask = v] \in Driver
           /\ \A n \in Nat : /\ [d EXCEPT !.pc = label, !.late = n] \in Driver
                             /\ [d EXCEPT !.pc = label, !.ver = n] \in Driver
           /\ \A k \in Kind, v \in BOOLEAN :
                  [d EXCEPT !.pc = label, !.kind = k, !.visible = v] \in Driver
  <1>1. [d EXCEPT !.pc = label] \in Driver
    BY DEF Driver
  <1>2. ASSUME NEW v \in BOOLEAN
        PROVE  /\ [d EXCEPT !.canceled = v] \in Driver
               /\ [d EXCEPT !.pc = label, !.hasTask = v] \in Driver
    BY DEF Driver
  <1>3. ASSUME NEW n \in Nat
        PROVE  /\ [d EXCEPT !.pc = label, !.late = n] \in Driver
               /\ [d EXCEPT !.pc = label, !.ver = n] \in Driver
    BY DEF Driver
  <1>4. ASSUME NEW k \in Kind, NEW v \in BOOLEAN
        PROVE  [d EXCEPT !.pc = label, !.kind = k, !.visible = v] \in Driver
    BY DEF Driver
  <1>. QED  BY <1>1, <1>2, <1>3, <1>4

\* A goroutine that is about to begin, and one that is about to end.
LEMMA FreshDriver ==
    /\ NoDriver \in Driver
    /\ \A label \in DriverPCs, v \in BOOLEAN :
           /\ [NoDriver EXCEPT !.pc = label, !.hasTask = v] \in Driver
           /\ [NoDriver EXCEPT !.pc = label, !.canceled = v] \in Driver
  BY ZenonT(40) DEF Driver, NoDriver, DriverPCs, Kind

\* Statements on the session's row keep its type.
LEMMA RowTypes ==
    ASSUME NEW s \in SessionRow, NEW o \in Incarnation \cup {Blank}, NEW e
    PROVE  /\ ClaimSession(s, o) \in SessionRow /\ ClaimOrphanedSession(s, o, e) \in SessionRow
           /\ ReleaseSession(s) \in SessionRow
           /\ MarkTerminating(s) \in SessionRow /\ TerminateSession(s) \in SessionRow
  BY DEF SessionRow, ClaimSession, ClaimOrphanedSession, ReleaseSession, MarkTerminating,
         TerminateSession, Active

\* The registered goroutine's steps keep the types.
LEMMA DriverType ==
    ASSUME TypeOK, NEW p \in Pod, DriverStep(p) \/ CallFails(p)
    PROVE  TypeOK'
  <1>. USE DEF TypeOK, DriverOnly, NoFault, Fault, At, Running, Goto, rows, pods
  <1>a. /\ drv[p] \in Driver /\ drv[p].kind \in Kind /\ drv[p].late \in Nat
        /\ drv[p].canceled \in BOOLEAN /\ task.version \in Nat
    BY DEF Driver, TaskRow
  <1>b. \A k \in Kind : AfterReply[k] \in DriverPCs
    BY DEF AfterReply, Kind, DriverPCs
  <1>c. \A k \in Kind, n \in Nat : [state |-> reconstructState[k], version |-> n] \in TaskRow
    BY DEF reconstructState, Kind, Terminal, TaskRow
  <1>d. ASSUME NEW label \in DriverPCs, Goto(p, label)
        PROVE  drv' \in [Pod -> Driver]
    <2>1. drv' = [drv EXCEPT ![p] = [drv[p] EXCEPT !.pc = label]]
      BY <1>d
    <2>. QED  BY <1>a, <2>1, DriverFields
  <1>1. CASE establishRelayState(p)
    <2>1. last \notin {"none", "pending", "marker_pending", "marker"} => AfterReply[last] \in DriverPCs
      BY <1>b
    <2>2. PICK label \in DriverPCs : Goto(p, label)
      <3>1. CASE last = "none"  BY <1>1, <3>1 DEF establishRelayState, DriverPCs
      <3>2. CASE last \in {"pending", "marker_pending"}
        BY <1>1, <3>2 DEF establishRelayState, DriverPCs
      <3>3. CASE last = "marker"  BY <1>1, <3>3 DEF establishRelayState, DriverPCs
      <3>4. CASE last \notin {"none", "pending", "marker_pending", "marker"}
        BY <1>1, <2>1, <3>4 DEF establishRelayState
      <3>. QED  BY <3>1, <3>2, <3>3, <3>4
    <2>3. drv' \in [Pod -> Driver]
      BY <1>d, <2>2
    <2>. QED  BY <1>1, <2>3 DEF establishRelayState
  <1>2. CASE continueRelayLoop(p)
    <2>1. PICK label \in {"hop", "release"} : Goto(p, label)
      BY <1>2 DEF continueRelayLoop
    <2>2. drv' \in [Pod -> Driver]
      BY <1>d, <2>1 DEF DriverPCs
    <2>. QED  BY <1>2, <2>2 DEF continueRelayLoop
  <1>3. CASE execA2A(p)
    <2>1. PICK n \in Nat : drv' = [drv EXCEPT ![p] = [drv[p] EXCEPT !.pc = "exec", !.late = n]]
      <3>1. CASE sess.state = "TERMINATING"
        <4>1. drv' = [drv EXCEPT ![p] = [drv[p] EXCEPT !.pc = "exec", !.late = drv[p].late + 1]]
          BY <1>a, <1>3, <3>1 DEF execA2A
        <4>2. drv[p].late + 1 \in Nat
          BY <1>a
        <4>. QED  BY <4>1, <4>2
      <3>2. CASE sess.state # "TERMINATING"  BY <1>a, <1>3, <3>2 DEF execA2A
      <3>. QED  BY <3>1, <3>2
    <2>2. "exec" \in DriverPCs
      BY DEF DriverPCs
    <2>3. drv' \in [Pod -> Driver]
      BY <1>a, <2>1, <2>2, DriverFields
    <2>. QED  BY <1>3, <2>3 DEF execA2A
  <1>4. CASE execA2AReturns(p)
    <2>1. PICK k \in Kind, v \in BOOLEAN :
              drv' = [drv EXCEPT ![p].pc = "check", ![p].kind = k, ![p].visible = v]
      BY <1>4, Zenon DEF execA2AReturns
    <2>a. drv' = [drv EXCEPT ![p] = [drv[p] EXCEPT !.pc = "check", !.kind = k, !.visible = v]]
      BY <1>a, <2>1
    <2>2. "check" \in DriverPCs
      BY DEF DriverPCs
    <2>3. drv' \in [Pod -> Driver]
      BY <1>a, <2>a, <2>2, DriverFields
    <2>4. hops' \in 0..MaxHops /\ last' \in Kind
      BY <1>4 DEF execA2AReturns
    <2>. QED  BY <1>4, <2>3, <2>4 DEF execA2AReturns
  <1>5. CASE recordTaskStatus(p)
    <2>1. PICK label \in DriverPCs : Goto(p, label)
      BY <1>a, <1>b, <1>5 DEF recordTaskStatus, DriverPCs
    <2>2. drv' \in [Pod -> Driver]
      BY <1>d, <2>1
    <2>. QED  BY <1>5, <2>2 DEF recordTaskStatus
  <1>6. CASE Create(p)
    <2>1. ASSUME task.state = "none"
          PROVE  drv' \in [Pod -> Driver]
      <3>1. PICK label \in DriverPCs :
                drv' = [drv EXCEPT ![p] = [drv[p] EXCEPT !.pc = label, !.hasTask = TRUE]]
        BY <1>a, <1>b, <1>6, <2>1 DEF Create
      <3>. QED  BY <1>a, <3>1, DriverFields
    <2>2. ASSUME task.state # "none"
          PROVE  drv' \in [Pod -> Driver]
      BY <1>d, <1>6, <2>2 DEF Create, DriverPCs
    <2>3. task' \in TaskRow
      BY <1>a, <1>c, <1>6 DEF Create
    <2>. QED  BY <1>6, <2>1, <2>2, <2>3 DEF Create
  <1>7. CASE getRow(p)
    <2>1. drv' = [drv EXCEPT ![p] = [drv[p] EXCEPT !.pc = "update", !.ver = task.version]]
      BY <1>7 DEF getRow
    <2>2. "update" \in DriverPCs
      BY DEF DriverPCs
    <2>3. drv' \in [Pod -> Driver]
      BY <1>a, <2>1, <2>2, DriverFields
    <2>. QED  BY <1>7, <2>3 DEF getRow
  <1>8. CASE UpdateStatus(p)
    <2>1. PICK label \in DriverPCs : drv' = [drv EXCEPT ![p] = [drv[p] EXCEPT !.pc = label, !.ver = 0]]
      <3>1. CASE task.version = drv[p].ver  BY <1>a, <1>b, <1>8, <3>1 DEF UpdateStatus
      <3>2. CASE task.version # drv[p].ver  BY <1>8, <3>2 DEF UpdateStatus, DriverPCs
      <3>. QED  BY <3>1, <3>2
    <2>2. drv' \in [Pod -> Driver]
      BY <1>a, <2>1, DriverFields
    <2>3. task' \in TaskRow
      BY <1>a, <1>c, <1>8 DEF UpdateStatus
    <2>. QED  BY <1>8, <2>2, <2>3 DEF UpdateStatus
  <1>9. CASE driveRelayLoopEnds(p) \/ finishTermination(p)
    <2>1. PICK label \in {"finish", "release"} : Goto(p, label)
      BY <1>9 DEF driveRelayLoopEnds, finishTermination
    <2>2. drv' \in [Pod -> Driver]
      BY <1>d, <2>1 DEF DriverPCs
    <2>3. sess' \in SessionRow
      BY <1>9, RowTypes DEF driveRelayLoopEnds, finishTermination
    <2>. QED  BY <1>9, <2>2, <2>3 DEF driveRelayLoopEnds, finishTermination
  <1>10. CASE mustReleaseSession(p)
    <2>1. [NoDriver EXCEPT !.pc = "unregister", !.canceled = drv[p].canceled] \in Driver
      BY <1>a, FreshDriver DEF DriverPCs
    <2>2. drv' \in [Pod -> Driver] /\ sess' \in SessionRow
      BY <1>10, <2>1, RowTypes DEF mustReleaseSession
    <2>. QED  BY <1>10, <2>2 DEF mustReleaseSession
  <1>11. CASE releaseRegistry(p)
    <2>1. drv' \in [Pod -> Driver]
      BY <1>a, <1>11, FreshDriver DEF releaseRegistry
    <2>. QED  BY <1>11, <2>1 DEF releaseRegistry
  <1>12. CASE ContextCanceled(p) \/ CallFails(p)
    <2>1. PICK label \in {"finish", "release"} : Goto(p, label)
      BY <1>12 DEF ContextCanceled, CallFails
    <2>2. drv' \in [Pod -> Driver]
      BY <1>d, <2>1 DEF DriverPCs
    <2>. QED  BY <1>12, <2>2 DEF ContextCanceled, CallFails
  <1>. QED  BY <1>1, <1>2, <1>3, <1>4, <1>5, <1>6, <1>7, <1>8, <1>9, <1>10, <1>11, <1>12
               DEF DriverStep

\* Updates of a request.
LEMMA CallFields ==
    ASSUME NEW c \in Call, NEW label \in RequestPCs, NEW p \in Pod
    PROVE  /\ [c EXCEPT !.pc = label] \in Call
           /\ [c EXCEPT !.pc = label, !.pod = p] \in Call
           /\ Done \in Call
           /\ \A n \in Nat : [pc |-> label, pod |-> p, ver |-> n] \in Call
  BY DEF Call, Done, NotSent, RequestPCs

\* The actions of a request.
RequestActions(r) ==
    Arrival(r) \/ RequestStep(r) \/ cancelAndWaitTimesOut(r) \/ RequestAborted(r) \/ MarkerFails(r)

\* The requests' steps keep the types.
LEMMA RequestType ==
    ASSUME TypeOK, Served, NEW r \in Request, RequestActions(r)
    PROVE  TypeOK'
  <1>. USE DEF TypeOK, NoFault, Fault, rows, pods
  <1>a. rq[r] \in Call
    OBVIOUS
  <1>b. rq[r].pc \notin {"new", "done"} => rq[r].pod \in Pod /\ Inc(rq[r].pod) \in Incarnation
    BY DEF Served, Inc, Incarnation
  <1>c. ASSUME NEW label \in RequestPCs, Step(r, label)
        PROVE  rq' \in [Request -> Call]
    <2>1. [rq[r] EXCEPT !.pc = label] \in Call
      BY <1>a DEF Call
    <2>2. rq' = [rq EXCEPT ![r] = [rq[r] EXCEPT !.pc = label]]
      BY <1>c DEF Step
    <2>. QED  BY <2>1, <2>2
  <1>d. ASSUME Finish(r)
        PROVE  rq' \in [Request -> Call]
    BY <1>d DEF Finish, Done, NotSent, Call, RequestPCs
  <1>e. ASSUME NEW p \in Pod, NEW label \in DriverPCs, NEW v \in BOOLEAN, Acquire(p, label, v)
        PROVE  drv' \in [Pod -> Driver]
    BY <1>e, FreshDriver DEF Acquire
  <1>1. ASSUME NEW p \in Pod, startTask(r, p)
        PROVE  TypeOK'
    <2>1. sess' \in SessionRow
      BY <1>1 DEF startTask, SessionRow, Active, Inc, Incarnation
    <2>2. rq' = [rq EXCEPT ![r] = [rq[r] EXCEPT !.pc = "started", !.pod = p]]
      BY <1>1, <1>a DEF startTask
    <2>3. rq' \in [Request -> Call]
      BY <1>1, <1>a, <2>2, CallFields DEF RequestPCs
    <2>. QED  BY <1>1, <2>1, <2>3 DEF startTask
  <1>2. ASSUME NEW p \in Pod, continueTask(r, p)
        PROVE  TypeOK'
    <2>2. rq' = [rq EXCEPT ![r] = [rq[r] EXCEPT !.pc = "claim", !.pod = p]]
      BY <1>2, <1>a DEF continueTask
    <2>3. rq' \in [Request -> Call]
      BY <1>2, <1>a, <2>2, CallFields DEF RequestPCs
    <2>. QED  BY <1>2, <2>3 DEF continueTask
  <1>3. ASSUME NEW p \in Pod, CancelTask(r, p)
        PROVE  TypeOK'
    <2>1. task.version \in Nat
      BY DEF TaskRow
    <2>2. rq' = [rq EXCEPT ![r] = [pc |-> "signal", pod |-> p, ver |-> task.version]]
      BY <1>3, <1>a DEF CancelTask
    <2>3. rq' \in [Request -> Call]
      BY <1>3, <1>a, <2>1, <2>2, CallFields DEF RequestPCs
    <2>. QED  BY <1>3, <2>3 DEF CancelTask
  <1>4. CASE startTaskAcquires(r)
    <2>1. rq' \in [Request -> Call]
      BY <1>4, <1>d DEF startTaskAcquires
    <2>2. drv' \in [Pod -> Driver]
      BY <1>4, <1>b, <1>e DEF startTaskAcquires, Serving, DriverPCs
    <2>. QED  BY <1>4, <2>1, <2>2 DEF startTaskAcquires
  <1>5. CASE continueTaskClaims(r)
    <2>1. rq' \in [Request -> Call]
      BY <1>5, <1>c, <1>d DEF continueTaskClaims, RequestPCs
    <2>2. sess' \in SessionRow
      BY <1>5, <1>b, RowTypes DEF continueTaskClaims, Serving
    <2>. QED  BY <1>5, <2>1, <2>2 DEF continueTaskClaims
  <1>6. CASE continueTaskAcquires(r)
    <2>1. rq' \in [Request -> Call]
      BY <1>6, <1>d DEF continueTaskAcquires
    <2>2. drv' \in [Pod -> Driver]
      BY <1>6, <1>b, <1>e DEF continueTaskAcquires, Serving, DriverPCs
    <2>3. sess' \in SessionRow
      BY <1>6, RowTypes DEF continueTaskAcquires
    <2>. QED  BY <1>6, <2>1, <2>2, <2>3 DEF continueTaskAcquires
  <1>7. CASE cancelAndWait(r)
    <2>1. rq' \in [Request -> Call]
      BY <1>7, <1>c DEF cancelAndWait, RequestPCs
    <2>2. drv' \in [Pod -> Driver]
      <3>1. rq[r].pod \in Pod
        BY <1>7, <1>b DEF cancelAndWait, Serving
      <3>2. drv' = [drv EXCEPT ![rq[r].pod] = [drv[rq[r].pod] EXCEPT !.canceled = Busy(rq[r].pod)]]
        BY <1>7, <3>1 DEF cancelAndWait
      <3>3. Busy(rq[r].pod) \in BOOLEAN /\ drv[rq[r].pod] \in Driver
        BY <3>1 DEF Busy
      <3>4. [drv[rq[r].pod] EXCEPT !.canceled = Busy(rq[r].pod)] \in Driver
        BY <3>3, DriverFields DEF DriverPCs
      <3>. QED  BY <3>1, <3>2, <3>4
    <2>. QED  BY <1>7, <2>1, <2>2 DEF cancelAndWait
  <1>8. CASE cancelAndWaitReturns(r) \/ cancelAndWaitTimesOut(r) \/ MarkerFails(r)
    <2>1. PICK label \in {"cancel", "reclaim"} : Step(r, label)
      BY <1>8 DEF cancelAndWaitReturns, cancelAndWaitTimesOut, MarkerFails
    <2>2. rq' \in [Request -> Call]
      BY <2>1, <1>c DEF RequestPCs
    <2>. QED  BY <1>8, <2>2 DEF cancelAndWaitReturns, cancelAndWaitTimesOut, MarkerFails
  <1>9. CASE CancelTaskAndSession(r)
    <2>1. rq' \in [Request -> Call]
      BY <1>9, <1>c, <1>d DEF CancelTaskAndSession, RequestPCs
    <2>2. sess' \in SessionRow
      BY <1>9, RowTypes DEF CancelTaskAndSession
    <2>3. task' \in TaskRow
      BY <1>9 DEF CancelTaskAndSession, TaskRow, Terminal
    <2>. QED  BY <1>9, <2>1, <2>2, <2>3 DEF CancelTaskAndSession
  <1>10. CASE appendCancellationMarker(r)
    <2>1. rq' \in [Request -> Call]
      BY <1>10, <1>c DEF appendCancellationMarker, RequestPCs
    <2>. QED  BY <1>10, <2>1 DEF appendCancellationMarker
  <1>11. CASE CancelTaskClaims(r)
    <2>1. rq' \in [Request -> Call]
      BY <1>11, <1>c, <1>d DEF CancelTaskClaims, RequestPCs
    <2>2. sess' \in SessionRow
      BY <1>11, <1>b, RowTypes DEF CancelTaskClaims, Serving
    <2>. QED  BY <1>11, <2>1, <2>2 DEF CancelTaskClaims
  <1>12. CASE acquireWait(r)
    <2>1. rq' \in [Request -> Call]
      BY <1>12, <1>d DEF acquireWait
    <2>2. drv' \in [Pod -> Driver]
      BY <1>12, <1>b, <1>e DEF acquireWait, Serving, DriverPCs
    <2>. QED  BY <1>12, <2>1, <2>2 DEF acquireWait
  <1>13. CASE RequestAborted(r)
    <2>1. rq' \in [Request -> Call]
      BY <1>13, <1>d DEF RequestAborted
    <2>. QED  BY <1>13, <2>1 DEF RequestAborted
  <1>. QED  BY <1>1, <1>2, <1>3, <1>4, <1>5, <1>6, <1>7, <1>8, <1>9, <1>10, <1>11, <1>12, <1>13
               DEF RequestActions, Arrival, RequestStep

\* The actions of a pod and of its thread.
BackgroundActions(p) == BackgroundStep(p) \/ mustRevertClaim(p) \/ Crash(p) \/ Restart(p)

\* The steps of pods and of their threads keep the types.
LEMMA BackgroundType ==
    ASSUME TypeOK, NEW p \in Pod, BackgroundActions(p)
    PROVE  TypeOK'
  <1>. USE DEF TypeOK, NoFault, Fault, rows, pods
  <1>a. bg[p] \in Thread /\ bg[p].owner \in Incarnation \cup {Blank} /\ Inc(p) \in Incarnation
    BY DEF Thread, Inc, Incarnation
  <1>b. sess.state \in Active => Listed \in Thread
    BY DEF Listed, Thread, SessionRow
  <1>c. ASSUME NEW t \in Thread, bg' = [bg EXCEPT ![p] = t]
        PROVE  bg' \in [Pod -> Thread]
    BY <1>c
  <1>d. NoWork \in Thread
    BY DEF NoWork, Thread
  <1>e. ASSUME Die(p)
        PROVE  /\ up' \in [Pod -> BOOLEAN] /\ UNCHANGED uid /\ drv' \in [Pod -> Driver]
               /\ bg' \in [Pod -> Thread] /\ rq' \in [Request -> Call]
    <2>1. Done \in Call
      BY DEF Done, NotSent, Call, RequestPCs
    <2>. QED  BY <1>d, <1>e, <2>1, FreshDriver DEF Die
  <1>1. CASE resumeServerSessions(p)
    <2>1. bg' \in [Pod -> Thread]
      BY <1>1, <1>b, <1>c, <1>d DEF resumeServerSessions
    <2>. QED  BY <1>1, <2>1 DEF resumeServerSessions
  <1>2. CASE sweepOrphanedSessions(p)
    <2>1. bg' \in [Pod -> Thread]
      BY <1>2, <1>b, <1>c DEF sweepOrphanedSessions
    <2>. QED  BY <1>2, <2>1 DEF sweepOrphanedSessions
  <1>3. CASE salvageSessionsOwnedBy(p)
    <2>1. [bg[p] EXCEPT !.pc = "resume"] \in Thread
      BY <1>a DEF Thread
    <2>2. bg' \in [Pod -> Thread]
      BY <1>3, <1>d, <2>1 DEF salvageSessionsOwnedBy
    <2>3. sess' \in SessionRow
      BY <1>3, <1>a, RowTypes DEF salvageSessionsOwnedBy
    <2>. QED  BY <1>3, <2>2, <2>3 DEF salvageSessionsOwnedBy
  <1>4. CASE startClaimedSession(p)
    <2>1. bg' \in [Pod -> Thread]
      BY <1>4, <1>c, <1>d DEF startClaimedSession
    <2>2. drv' \in [Pod -> Driver]
      BY <1>4, FreshDriver DEF startClaimedSession, Acquire, DriverPCs
    <2>. QED  BY <1>4, <2>1, <2>2 DEF startClaimedSession
  <1>5. CASE alreadyDriven(p)
    <2>1. CASE bg[p].owner = Inc(p)
      BY <1>5, <1>c, <1>d, <2>1 DEF alreadyDriven
    <2>2. CASE bg[p].owner # Inc(p)
      BY <1>5, <1>e, <2>2 DEF alreadyDriven
    <2>. QED  BY <2>1, <2>2
  <1>6. CASE mustRevertClaim(p)
    <2>1. bg' \in [Pod -> Thread] /\ sess' \in SessionRow
      BY <1>6, <1>a, <1>c, <1>d, RowTypes DEF mustRevertClaim
    <2>. QED  BY <1>6, <2>1 DEF mustRevertClaim
  <1>7. CASE Crash(p)
    BY <1>7, <1>e DEF Crash
  <1>8. CASE Restart(p)
    <2>1. [bg[p] EXCEPT !.pc = "boot"] \in Thread
      BY <1>a DEF Thread
    <2>2. bg' = [bg EXCEPT ![p] = [bg[p] EXCEPT !.pc = "boot"]]
      BY <1>8 DEF Restart
    <2>3. bg' \in [Pod -> Thread] /\ up' \in [Pod -> BOOLEAN] /\ uid' \in [Pod -> Nat \ {0}]
      BY <1>8, <2>1, <2>2 DEF Restart
    <2>. QED  BY <1>8, <2>3 DEF Restart
  <1>. QED  BY <1>1, <1>2, <1>3, <1>4, <1>5, <1>6, <1>7, <1>8 DEF BackgroundActions, BackgroundStep

-----------------------------------------------------------------------------
(***************************************************************************)
(* What the steps do to the session's row and to the parties at work.       *)
(***************************************************************************)

\* A goroutine keeps the row's owner until it releases the row, and then leaves.
LEMMA DriverEffect ==
    ASSUME TypeOK, NEW p \in Pod, DriverStep(p) \/ CallFails(p)
    PROVE  /\ up[p] /\ UNCHANGED <<up, uid, bg, rq>>
           /\ \A q \in Pod : q # p => drv'[q] = drv[q]
           /\ \/ /\ drv[p].pc \notin {"none", "unregister"} /\ drv'[p].pc \notin {"none", "unregister"}
                 /\ sess' \in {sess, MarkTerminating(sess), TerminateSession(sess)}
              \/ /\ drv[p].pc = "release" /\ drv'[p].pc = "unregister"
                 /\ sess' = ReleaseSession(sess)
              \/ /\ drv[p].pc = "unregister" /\ drv'[p].pc = "none"
                 /\ sess' = sess
  <1>. USE DEF TypeOK, DriverOnly, NoFault, Fault, At, Running, Goto, rows, pods
  <1>a. drv[p] \in Driver /\ drv[p].kind \in Kind
    BY DEF Driver
  <1>b. \A k \in Kind : AfterReply[k] \in {"hop", "release", "mark"}
    BY DEF AfterReply, Kind
  <1>c. ASSUME NEW label, Goto(p, label)
        PROVE  drv'[p].pc = label /\ \A q \in Pod : q # p => drv'[q] = drv[q]
    BY <1>a, <1>c DEF Driver
  <1>1. CASE establishRelayState(p)
    <2>1. PICK label \in {"hop", "exec", "stuck", "release", "mark"} : Goto(p, label)
      <3>1. CASE last = "none"  BY <1>1, <3>1 DEF establishRelayState
      <3>2. CASE last \in {"pending", "marker_pending"}  BY <1>1, <3>2 DEF establishRelayState
      <3>3. CASE last = "marker"  BY <1>1, <3>3 DEF establishRelayState
      <3>4. CASE last \notin {"none", "pending", "marker_pending", "marker"}
        <4>1. AfterReply[last] \in {"hop", "release", "mark"} /\ Goto(p, AfterReply[last])
          BY <1>1, <1>b, <3>4 DEF establishRelayState
        <4>. QED  BY <4>1
      <3>. QED  BY <3>1, <3>2, <3>3, <3>4
    <2>. QED  BY <1>1, <1>c, <2>1 DEF establishRelayState
  <1>2. CASE continueRelayLoop(p)
    <2>1. PICK label \in {"hop", "release"} : Goto(p, label)
      BY <1>2 DEF continueRelayLoop
    <2>. QED  BY <1>2, <1>c, <2>1 DEF continueRelayLoop
  <1>3. CASE execA2A(p)
    <2>1. drv'[p].pc = "exec" /\ \A q \in Pod : q # p => drv'[q] = drv[q]
      BY <1>3, <1>a DEF execA2A, Driver
    <2>. QED  BY <1>3, <2>1 DEF execA2A
  <1>4. CASE execA2AReturns(p)
    <2>1. drv'[p].pc = "check" /\ \A q \in Pod : q # p => drv'[q] = drv[q]
      BY <1>4, <1>a DEF execA2AReturns, Driver
    <2>. QED  BY <1>4, <2>1 DEF execA2AReturns
  <1>5. CASE recordTaskStatus(p)
    <2>1. PICK label \in {"hop", "release", "mark", "finish", "getRow", "create"} : Goto(p, label)
      BY <1>a, <1>b, <1>5 DEF recordTaskStatus
    <2>. QED  BY <1>5, <1>c, <2>1 DEF recordTaskStatus
  <1>6. CASE Create(p)
    <2>1. drv'[p].pc \notin {"none", "unregister"} /\ \A q \in Pod : q # p => drv'[q] = drv[q]
      BY <1>6, <1>a, <1>b DEF Create, Driver
    <2>. QED  BY <1>6, <2>1 DEF Create
  <1>7. CASE getRow(p)
    <2>1. drv'[p].pc = "update" /\ \A q \in Pod : q # p => drv'[q] = drv[q]
      BY <1>7, <1>a DEF getRow, Driver
    <2>. QED  BY <1>7, <2>1 DEF getRow
  <1>8. CASE UpdateStatus(p)
    <2>1. drv'[p].pc \notin {"none", "unregister"} /\ \A q \in Pod : q # p => drv'[q] = drv[q]
      BY <1>8, <1>a, <1>b DEF UpdateStatus, Driver
    <2>. QED  BY <1>8, <2>1 DEF UpdateStatus
  <1>9. CASE driveRelayLoopEnds(p)
    BY <1>9, <1>c DEF driveRelayLoopEnds
  <1>10. CASE finishTermination(p)
    BY <1>10, <1>c DEF finishTermination
  <1>11. CASE mustReleaseSession(p)
    BY <1>11 DEF mustReleaseSession, NoDriver
  <1>12. CASE releaseRegistry(p)
    BY <1>12 DEF releaseRegistry, NoDriver
  <1>13. CASE ContextCanceled(p)
    BY <1>13, <1>c DEF ContextCanceled
  <1>14. CASE CallFails(p)
    BY <1>14, <1>c DEF CallFails
  <1>. QED  BY <1>1, <1>2, <1>3, <1>4, <1>5, <1>6, <1>7, <1>8, <1>9, <1>10, <1>11, <1>12, <1>13, <1>14
               DEF DriverStep


\* Where a goroutine is that has begun a late hop and not yet left.
Stopping == {"exec", "check", "finish", "release"}

\* A late hop begins where a hop begins; a goroutine that is past that point does
\* not come back to it while the session is TERMINATING.
LEMMA DriverLate ==
    ASSUME TypeOK, NEW p \in Pod, DriverStep(p) \/ CallFails(p)
    PROVE  \/ drv'[p].late = 0
           \/ /\ drv'[p].late = drv[p].late
              /\ sess.state = "TERMINATING" /\ drv[p].pc \in Stopping => drv'[p].pc \in Stopping
           \/ /\ drv[p].pc = "hop" /\ drv'[p].pc = "exec" /\ drv'[p].late = drv[p].late + 1
              /\ sess.state = "TERMINATING" /\ sess' = sess
  <1>. USE DEF TypeOK, DriverOnly, NoFault, Fault, At, Running, Goto, rows, pods, Stopping
  <1>a. drv[p] \in Driver /\ drv[p].kind \in Kind /\ drv[p].late \in Nat
    BY DEF Driver
  <1>b. ASSUME NEW label, Goto(p, label)
        PROVE  drv'[p].pc = label /\ drv'[p].late = drv[p].late
    BY <1>a, <1>b DEF Driver
  <1>1. CASE establishRelayState(p)
    <2>1. drv[p].pc = "establish" /\ drv'[p].late = drv[p].late
      BY <1>1, <1>b DEF establishRelayState
    <2>. QED  BY <2>1
  <1>2. CASE continueRelayLoop(p)
    <2>1. drv[p].pc = "continue" /\ drv'[p].late = drv[p].late
      BY <1>2, <1>b DEF continueRelayLoop
    <2>. QED  BY <2>1
  <1>3. CASE execA2A(p)
    <2>1. drv[p].pc = "hop" /\ drv'[p].pc = "exec" /\ sess' = sess
      BY <1>3, <1>a DEF execA2A, Driver
    <2>2. CASE sess.state = "TERMINATING"
      <3>1. drv' = [drv EXCEPT ![p] = [drv[p] EXCEPT !.pc = "exec", !.late = drv[p].late + 1]]
        BY <1>3, <1>a, <2>2 DEF execA2A
      <3>2. drv'[p].late = drv[p].late + 1
        BY <1>a, <3>1 DEF Driver
      <3>. QED  BY <2>1, <2>2, <3>2
    <2>3. CASE sess.state # "TERMINATING"
      <3>1. drv' = [drv EXCEPT ![p] = [drv[p] EXCEPT !.pc = "exec", !.late = drv[p].late]]
        BY <1>3, <1>a, <2>3 DEF execA2A
      <3>2. drv'[p].late = drv[p].late
        BY <1>a, <3>1 DEF Driver
      <3>. QED  BY <2>3, <3>2
    <2>. QED  BY <2>2, <2>3
  <1>4. CASE execA2AReturns(p)
    <2>1. PICK k \in Kind, v \in BOOLEAN :
              drv' = [drv EXCEPT ![p].pc = "check", ![p].kind = k, ![p].visible = v]
      BY <1>4, Zenon DEF execA2AReturns
    <2>2. drv'[p].pc = "check" /\ drv'[p].late = drv[p].late
      BY <1>a, <2>1 DEF Driver
    <2>. QED  BY <2>2
  <1>5. CASE recordTaskStatus(p)
    <2>1. drv'[p].late = drv[p].late
      BY <1>5, <1>b DEF recordTaskStatus
    <2>2. sess.state = "TERMINATING" => drv'[p].pc = "finish"
      BY <1>5, <1>b DEF recordTaskStatus
    <2>. QED  BY <2>1, <2>2
  <1>6. CASE Create(p)
    <2>1. drv[p].pc = "create" /\ drv'[p].late = drv[p].late
      BY <1>6, <1>a DEF Create, Driver
    <2>. QED  BY <2>1
  <1>7. CASE getRow(p)
    <2>1. drv[p].pc = "getRow" /\ drv'[p].late = drv[p].late
      BY <1>7, <1>a DEF getRow, Driver
    <2>. QED  BY <2>1
  <1>8. CASE UpdateStatus(p)
    <2>1. drv[p].pc = "update" /\ drv'[p].late = drv[p].late
      BY <1>8, <1>a DEF UpdateStatus, Driver
    <2>. QED  BY <2>1
  <1>9. CASE driveRelayLoopEnds(p)
    BY <1>9, <1>b DEF driveRelayLoopEnds
  <1>10. CASE finishTermination(p)
    BY <1>10, <1>b DEF finishTermination
  <1>11. CASE mustReleaseSession(p)
    BY <1>11 DEF mustReleaseSession, NoDriver
  <1>12. CASE releaseRegistry(p)
    BY <1>12 DEF releaseRegistry, NoDriver
  <1>13. CASE ContextCanceled(p)
    BY <1>13, <1>b DEF ContextCanceled
  <1>14. CASE CallFails(p)
    BY <1>14, <1>b DEF CallFails
  <1>. QED  BY <1>1, <1>2, <1>3, <1>4, <1>5, <1>6, <1>7, <1>8, <1>9, <1>10, <1>11, <1>12, <1>13, <1>14
               DEF DriverStep

\* What a request may do to the ownership of the session.
Claims(r) ==
    /\ sess.owner = Blank /\ ~HasClaim(r) /\ HasClaim(r)'
    /\ sess'.owner = Inc(rq'[r].pod)
    /\ \A q \in Pod : drv'[q].pc = drv[q].pc
HandsOver(r) ==
    /\ HasClaim(r) /\ ~HasClaim(r)' /\ sess'.owner = sess.owner
    /\ \A q \in Pod : q # rq[r].pod => drv'[q] = drv[q]
GivesBack(r) ==
    /\ HasClaim(r) /\ ~HasClaim(r)' /\ sess'.owner = Blank
    /\ drv' = drv
OwnershipUntouched(r) ==
    /\ ~HasClaim(r) /\ ~HasClaim(r)' /\ sess'.owner = sess.owner
    /\ \A q \in Pod : drv'[q].pc = drv[q].pc

\* A request claims a session nobody owns, hands its claim to a goroutine of its
\* own pod, gives it back, or leaves the ownership alone.
LEMMA RequestEffect ==
    ASSUME TypeOK, NotStarted, Served, NEW r \in Request, RequestActions(r)
    PROVE  /\ UNCHANGED <<up, uid, bg>>
           /\ \A s \in Request : s # r => rq'[s] = rq[s]
           /\ rq'[r].pc \notin {"new", "done"} => rq'[r].pod \in Pod /\ up[rq'[r].pod]
           /\ \A q \in Pod : drv'[q].late = 0 \/ (drv'[q].late = drv[q].late /\ drv'[q].pc = drv[q].pc)
           /\ sess'.state # "NONE"
           /\ \/ sess'.state = sess.state
              \/ sess.state = "NONE" /\ sess'.state = "RUNNING"
              \/ sess.state = "RUNNING" /\ sess'.state = "TERMINATING"
           /\ Claims(r) \/ HandsOver(r) \/ GivesBack(r) \/ OwnershipUntouched(r)
  <1>. USE DEF TypeOK, NoFault, Fault, rows, pods
  <1>a. rq[r] \in Call /\ sess \in SessionRow
    OBVIOUS
  <1>b. rq[r].pc \notin {"new", "done"} => rq[r].pod \in Pod /\ up[rq[r].pod] /\ sess.state # "NONE"
    BY DEF Served, NotStarted
  <1>c. ASSUME NEW label, Step(r, label)
        PROVE  /\ rq'[r].pc = label /\ rq'[r].pod = rq[r].pod
               /\ \A s \in Request : s # r => rq'[s] = rq[s]
    BY <1>a, <1>c DEF Step, Call
  <1>d. ASSUME Finish(r)
        PROVE  rq'[r].pc = "done" /\ \A s \in Request : s # r => rq'[s] = rq[s]
    BY <1>d DEF Finish, Done, NotSent
  <1>e. ASSUME NEW p \in Pod, NEW label, NEW v, Acquire(p, label, v)
        PROVE  drv'[p].late = 0 /\ \A q \in Pod : q # p => drv'[q] = drv[q]
    BY <1>e DEF Acquire, NoDriver
  <1>f. \A o : /\ ClaimSession(sess, o).state = sess.state
               /\ sess.owner # Blank => ClaimSession(sess, o) = sess
               /\ sess.owner = Blank => ClaimSession(sess, o).owner = o
    BY <1>a DEF ClaimSession, SessionRow
  <1>1. ASSUME NEW p \in Pod, startTask(r, p)
        PROVE  Claims(r) /\ rq'[r].pod = p /\ \A s \in Request : s # r => rq'[s] = rq[s]
    <2>1. rq'[r].pc = "started" /\ rq'[r].pod = p /\ \A s \in Request : s # r => rq'[s] = rq[s]
      BY <1>1, <1>a DEF startTask, Call
    <2>2. sess.owner = Blank
      BY <1>1 DEF startTask, NotStarted
    <2>. QED  BY <1>1, <2>1, <2>2 DEF startTask, Claims, HasClaim
  <1>2. ASSUME NEW p \in Pod, continueTask(r, p) \/ CancelTask(r, p)
        PROVE  OwnershipUntouched(r) /\ rq'[r].pod = p /\ \A s \in Request : s # r => rq'[s] = rq[s]
    <2>1. rq'[r].pc \in {"claim", "signal"} /\ rq'[r].pod = p /\ \A s \in Request : s # r => rq'[s] = rq[s]
      BY <1>2, <1>a DEF continueTask, CancelTask, Call
    <2>. QED  BY <1>2, <2>1 DEF continueTask, CancelTask, OwnershipUntouched, HasClaim
  <1>3. ASSUME startTaskAcquires(r) \/ acquireWait(r)
        PROVE  /\ HandsOver(r) /\ \A s \in Request : s # r => rq'[s] = rq[s]
               /\ \A q \in Pod : drv'[q].late = 0 \/ (drv'[q].late = drv[q].late /\ drv'[q].pc = drv[q].pc)
    <2>1. rq'[r].pc = "done" /\ \A s \in Request : s # r => rq'[s] = rq[s]
      BY <1>3, <1>d DEF startTaskAcquires, acquireWait
    <2>2. HasClaim(r) /\ rq[r].pod \in Pod
      BY <1>3, <1>b DEF startTaskAcquires, acquireWait, Serving, HasClaim
    <2>3. drv' = drv \/ (drv'[rq[r].pod].late = 0 /\ \A q \in Pod : q # rq[r].pod => drv'[q] = drv[q])
      BY <1>3, <1>e, <2>2 DEF startTaskAcquires, acquireWait
    <2>. QED  BY <1>3, <2>1, <2>2, <2>3 DEF startTaskAcquires, acquireWait, HandsOver, HasClaim
  <1>4. ASSUME continueTaskClaims(r) \/ CancelTaskClaims(r)
        PROVE  /\ Claims(r) \/ OwnershipUntouched(r)
               /\ \A s \in Request : s # r => rq'[s] = rq[s]
               /\ rq'[r].pc = "done" \/ rq'[r].pod = rq[r].pod
    <2>1. ~HasClaim(r) /\ sess' = ClaimSession(sess, Inc(rq[r].pod)) /\ drv' = drv
      BY <1>4 DEF continueTaskClaims, CancelTaskClaims, Serving, HasClaim
    <2>2. CASE sess' = sess
      <3>1. Finish(r)
        BY <1>4, <2>2 DEF continueTaskClaims, CancelTaskClaims
      <3>. QED  BY <1>d, <2>1, <2>2, <3>1 DEF OwnershipUntouched, HasClaim
    <2>3. CASE sess' # sess
      <3>1. PICK label \in {"adopt", "cleanup"} : Step(r, label)
        BY <1>4, <2>3 DEF continueTaskClaims, CancelTaskClaims
      <3>2. sess.owner = Blank /\ sess'.owner = Inc(rq[r].pod)
        BY <1>f, <2>1, <2>3
      <3>3. rq'[r].pc \in {"adopt", "cleanup"} /\ rq'[r].pod = rq[r].pod
        BY <1>c, <3>1
      <3>. QED  BY <1>c, <2>1, <3>1, <3>2, <3>3 DEF Claims, HasClaim
    <2>. QED  BY <2>2, <2>3
  <1>5. ASSUME continueTaskAcquires(r)
        PROVE  /\ HandsOver(r) \/ GivesBack(r)
               /\ \A s \in Request : s # r => rq'[s] = rq[s]
               /\ \A q \in Pod : drv'[q].late = 0 \/ (drv'[q].late = drv[q].late /\ drv'[q].pc = drv[q].pc)
               /\ sess'.state = sess.state
    <2>1. rq'[r].pc = "done" /\ \A s \in Request : s # r => rq'[s] = rq[s]
      BY <1>5, <1>d DEF continueTaskAcquires
    <2>2. HasClaim(r) /\ rq[r].pod \in Pod
      BY <1>5, <1>b DEF continueTaskAcquires, Serving, HasClaim
    <2>3. ReleaseSession(sess).owner = Blank /\ ReleaseSession(sess).state = sess.state
      BY <1>a DEF ReleaseSession, SessionRow
    <2>4. CASE Busy(rq[r].pod)
      BY <1>5, <2>1, <2>2, <2>3, <2>4 DEF continueTaskAcquires, GivesBack, HasClaim
    <2>5. CASE ~Busy(rq[r].pod)
      <3>1. drv'[rq[r].pod].late = 0 /\ (\A q \in Pod : q # rq[r].pod => drv'[q] = drv[q]) /\ sess' = sess
        BY <1>5, <1>e, <2>2, <2>5 DEF continueTaskAcquires
      <3>. QED  BY <2>1, <2>2, <3>1 DEF HandsOver, HasClaim
    <2>. QED  BY <2>4, <2>5
  <1>6. ASSUME \/ cancelAndWait(r) \/ cancelAndWaitReturns(r) \/ cancelAndWaitTimesOut(r)
               \/ appendCancellationMarker(r) \/ MarkerFails(r)
        PROVE  /\ OwnershipUntouched(r) /\ rq'[r].pod = rq[r].pod
               /\ \A s \in Request : s # r => rq'[s] = rq[s]
               /\ \A q \in Pod : drv'[q].late = drv[q].late /\ drv'[q].pc = drv[q].pc
    <2>1. PICK label \in {"wait", "cancel", "reclaim"} : Step(r, label)
      BY <1>6 DEF cancelAndWait, cancelAndWaitReturns, cancelAndWaitTimesOut, appendCancellationMarker,
                  MarkerFails
    <2>2. \A q \in Pod : drv'[q].late = drv[q].late /\ drv'[q].pc = drv[q].pc
      <3>1. CASE cancelAndWait(r)
        <4>1. rq[r].pod \in Pod
          BY <1>b, <3>1 DEF cancelAndWait, Serving
        <4>. QED  BY <3>1, <4>1 DEF cancelAndWait, Driver
      <3>2. CASE ~cancelAndWait(r)
        BY <1>6, <3>2 DEF cancelAndWaitReturns, cancelAndWaitTimesOut,
                          appendCancellationMarker, MarkerFails
      <3>. QED  BY <3>1, <3>2
    <2>3. ~HasClaim(r)
      BY <1>6 DEF cancelAndWait, cancelAndWaitReturns, cancelAndWaitTimesOut, appendCancellationMarker,
                  MarkerFails, Serving, HasClaim
    <2>4. sess' = sess
      BY <1>6 DEF cancelAndWait, cancelAndWaitReturns, cancelAndWaitTimesOut, appendCancellationMarker,
                  MarkerFails
    <2>. QED  BY <1>c, <2>1, <2>2, <2>3, <2>4 DEF OwnershipUntouched, HasClaim
  <1>7. ASSUME CancelTaskAndSession(r) \/ RequestAborted(r)
        PROVE  /\ OwnershipUntouched(r) /\ drv' = drv
               /\ \A s \in Request : s # r => rq'[s] = rq[s]
               /\ rq'[r].pc = "done" \/ rq'[r].pod = rq[r].pod
               /\ sess' = sess \/ sess' = MarkTerminating(sess)
    <2>1. Step(r, "marker") \/ Finish(r)
      BY <1>7 DEF CancelTaskAndSession, RequestAborted
    <2>2. ~HasClaim(r) /\ drv' = drv
      BY <1>7 DEF CancelTaskAndSession, RequestAborted, Serving, HasClaim
    <2>3. sess' = sess \/ sess' = MarkTerminating(sess)
      BY <1>7 DEF CancelTaskAndSession, RequestAborted
    <2>4. sess'.owner = sess.owner
      BY <1>a, <2>3 DEF MarkTerminating, SessionRow
    <2>. QED  BY <1>c, <1>d, <2>1, <2>2, <2>3, <2>4 DEF OwnershipUntouched, HasClaim
  <1>8. CASE Arrival(r)
    <2>1. PICK p \in Pod : startTask(r, p) \/ continueTask(r, p) \/ CancelTask(r, p)
      BY <1>8 DEF Arrival
    <2>2. CASE startTask(r, p)
      BY <1>1, <2>2 DEF startTask
    <2>3. CASE continueTask(r, p) \/ CancelTask(r, p)
      <3>1. sess.state # "NONE"
        BY <2>3 DEF NotStarted, continueTask, CancelTask
      <3>. QED  BY <1>2, <2>3, <3>1 DEF continueTask, CancelTask
    <2>. QED  BY <2>1, <2>2, <2>3
  <1>9. CASE startTaskAcquires(r) \/ acquireWait(r)
    <2>1. rq[r].pc \notin {"new", "done"} /\ UNCHANGED <<up, uid, bg, sess>> /\ Finish(r)
      BY <1>9 DEF startTaskAcquires, acquireWait, Serving
    <2>. QED  BY <1>3, <1>9, <1>b, <1>d, <2>1
  <1>10. CASE continueTaskClaims(r) \/ CancelTaskClaims(r)
    <2>1. /\ rq[r].pc \notin {"new", "done"} /\ UNCHANGED <<up, uid, bg, drv>>
          /\ sess' = ClaimSession(sess, Inc(rq[r].pod))
      BY <1>10 DEF continueTaskClaims, CancelTaskClaims, Serving
    <2>2. sess'.state = sess.state
      BY <1>f, <2>1
    <2>. QED  BY <1>4, <1>10, <1>b, <2>1, <2>2
  <1>11. CASE continueTaskAcquires(r)
    <2>1. rq[r].pc \notin {"new", "done"} /\ UNCHANGED <<up, uid, bg>> /\ Finish(r)
      BY <1>11 DEF continueTaskAcquires, Serving
    <2>. QED  BY <1>5, <1>11, <1>b, <1>d, <2>1
  <1>12. CASE \/ cancelAndWait(r) \/ cancelAndWaitReturns(r) \/ cancelAndWaitTimesOut(r)
              \/ appendCancellationMarker(r) \/ MarkerFails(r)
    <2>1. rq[r].pc \notin {"new", "done"} /\ UNCHANGED <<up, uid, bg, sess>>
      BY <1>12 DEF cancelAndWait, cancelAndWaitReturns, cancelAndWaitTimesOut,
                   appendCancellationMarker, MarkerFails, Serving
    <2>. QED  BY <1>6, <1>12, <1>b, <2>1
  <1>13. CASE CancelTaskAndSession(r) \/ RequestAborted(r)
    <2>1. rq[r].pc \notin {"new", "done"} /\ UNCHANGED <<up, uid, bg>>
      BY <1>13 DEF CancelTaskAndSession, RequestAborted, Serving
    <2>2. \/ sess'.state = sess.state
          \/ sess.state = "RUNNING" /\ sess'.state = "TERMINATING"
      BY <1>7, <1>13, <1>a DEF MarkTerminating, SessionRow
    <2>. QED  BY <1>7, <1>13, <1>b, <2>1, <2>2
  <1>. QED  BY <1>8, <1>9, <1>10, <1>11, <1>12, <1>13 DEF RequestActions, RequestStep

\* What a pod that dies leaves behind.
LEMMA DieEffect ==
    ASSUME TypeOK, NEW p \in Pod, Die(p)
    PROVE  /\ uid' = uid /\ ~up'[p] /\ \A q \in Pod : q # p => up'[q] = up[q]
           /\ drv'[p] = NoDriver /\ \A q \in Pod : q # p => drv'[q] = drv[q]
           /\ bg'[p] = NoWork /\ \A q \in Pod : q # p => bg'[q] = bg[q]
           /\ \A r \in Request : IF rq[r].pod = p THEN rq'[r].pc = "done" ELSE rq'[r] = rq[r]
  BY DEF TypeOK, Die, Done, NotSent

-----------------------------------------------------------------------------
(***************************************************************************)
(* The parts of the invariant.                                              *)
(***************************************************************************)

\* The steps of a registered goroutine preserve the invariant.
LEMMA DriverPreserves ==
    ASSUME IInv, NEW p \in Pod, DriverStep(p) \/ CallFails(p)
    PROVE  IInv'
  <1>. USE DEF IInv
  <1>1. TypeOK'
    BY DriverType
  <1>2. drv[p].pc # "none" /\ sess.state # "NONE"
    BY DriverEffect DEF NotStarted
  <1>3. /\ sess'.owner \in {sess.owner, Blank} /\ sess'.state # "NONE"
        /\ sess.state = "TERMINATED" => sess'.state = "TERMINATED"
        /\ sess.state = "TERMINATING" => sess'.state \in {"TERMINATING", "TERMINATED"}
    <2>1. sess \in SessionRow
      BY DEF TypeOK
    <2>. QED  BY <1>2, <2>1, DriverEffect
                 DEF SessionRow, MarkTerminating, TerminateSession, ReleaseSession
  <1>4. NotStarted'
    BY <1>3 DEF NotStarted
  <1>5. Served' /\ TakesFromTheGone'
    BY DriverEffect DEF Served, TakesFromTheGone, Gone, Known, Alive, Inc
  <1>6. OwnerKnown'
    BY <1>3, DriverEffect DEF OwnerKnown, Known
  <1>7. LateHop'
    <2>. SUFFICES ASSUME NEW q \in Pod, drv'[q].late # 0
                  PROVE  /\ drv'[q].late = 1
                         /\ sess'.state \in {"TERMINATING", "TERMINATED"}
                         /\ sess'.state = "TERMINATING" => drv'[q].pc \in Stopping
      BY DEF LateHop, Stopping
    <2>1. CASE q # p
      <3>1. drv'[q] = drv[q]
        BY <2>1, DriverEffect
      <3>. QED  BY <1>3, <3>1 DEF LateHop, Stopping
    <2>2. CASE q = p
      <3>1. CASE /\ drv'[p].late = drv[p].late
                 /\ sess.state = "TERMINATING" /\ drv[p].pc \in Stopping => drv'[p].pc \in Stopping
        BY <1>3, <2>2, <3>1 DEF LateHop, Stopping
      <3>2. CASE /\ drv[p].pc = "hop" /\ drv'[p].pc = "exec" /\ drv'[p].late = drv[p].late + 1
                 /\ sess.state = "TERMINATING" /\ sess' = sess
        <4>1. drv[p].late = 0
          BY <3>2 DEF LateHop
        <4>. QED  BY <2>2, <3>2, <4>1 DEF Stopping
      <3>. QED  BY <2>2, <3>1, <3>2, DriverLate
    <2>. QED  BY <2>1, <2>2
  <1>. QED  BY <1>1, <1>4, <1>5, <1>6, <1>7

\* So do those of the client requests ...
LEMMA RequestPreserves ==
    ASSUME IInv, NEW r \in Request, RequestActions(r)
    PROVE  IInv'
  <1>. USE DEF IInv
  <1>1. TypeOK'
    BY RequestType
  <1>2. NotStarted'
    BY RequestEffect DEF NotStarted
  <1>3. Served' /\ TakesFromTheGone'
    <2>1. \A s \in Request : s # r => rq'[s] = rq[s]
      BY RequestEffect
    <2>2. rq'[r].pc \notin {"new", "done"} => rq'[r].pod \in Pod /\ up[rq'[r].pod]
      BY RequestEffect
    <2>3. UNCHANGED <<up, uid, bg>>
      BY RequestEffect
    <2>. QED  BY <2>1, <2>2, <2>3 DEF Served, TakesFromTheGone, Gone, Known, Alive, Inc
  <1>4. OwnerKnown'
    <2>1. UNCHANGED <<up, uid, bg>>
      BY RequestEffect
    <2>2. CASE Claims(r)
      <3>1. rq'[r].pod \in Pod
        BY <2>2, RequestEffect DEF Claims, HasClaim
      <3>2. sess'.owner = Inc(rq'[r].pod) /\ uid[rq'[r].pod] \in Nat \ {0}
        BY <2>2, <3>1 DEF Claims, TypeOK
      <3>. QED  BY <2>1, <3>1, <3>2 DEF OwnerKnown, Known, Inc, Incarnation
    <2>3. CASE HandsOver(r) \/ GivesBack(r) \/ OwnershipUntouched(r)
      BY <2>1, <2>3 DEF HandsOver, GivesBack, OwnershipUntouched, OwnerKnown, Known
    <2>. QED  BY <2>2, <2>3, RequestEffect
  <1>5. LateHop'
    <2>1. \A q \in Pod : drv'[q].late = 0 \/ (drv'[q].late = drv[q].late /\ drv'[q].pc = drv[q].pc)
      BY RequestEffect
    <2>2. \/ sess'.state = sess.state
          \/ sess.state = "NONE" /\ sess'.state = "RUNNING"
          \/ sess.state = "RUNNING" /\ sess'.state = "TERMINATING"
      BY RequestEffect
    <2>. QED  BY <2>1, <2>2 DEF LateHop
  <1>. QED  BY <1>1, <1>2, <1>3, <1>4, <1>5

\* What the pods and their threads do to the rows and to the goroutines.
LEMMA BackgroundEffect ==
    ASSUME TypeOK, NEW p \in Pod, BackgroundActions(p)
    PROVE  /\ sess'.state = sess.state /\ task' = task
           /\ \A q \in Pod : q # p => drv'[q] = drv[q] /\ bg'[q] = bg[q]
           /\ drv'[p] = drv[p] \/ drv'[p].late = 0
  <1>. USE DEF rows, pods
  <1>a. sess \in SessionRow
    BY DEF TypeOK
  <1>b. \A o, e : ClaimOrphanedSession(sess, o, e).state = sess.state
    BY <1>a DEF ClaimOrphanedSession, SessionRow
  <1>1. CASE resumeServerSessions(p) \/ sweepOrphanedSessions(p)
    BY <1>1 DEF resumeServerSessions, sweepOrphanedSessions, TypeOK
  <1>2. CASE salvageSessionsOwnedBy(p) \/ mustRevertClaim(p)
    <2>1. sess'.state = sess.state
      BY <1>2, <1>b DEF salvageSessionsOwnedBy, mustRevertClaim
    <2>. QED  BY <1>2, <2>1 DEF salvageSessionsOwnedBy, mustRevertClaim, TypeOK
  <1>3. CASE startClaimedSession(p)
    BY <1>3 DEF startClaimedSession, Acquire, NoDriver, TypeOK
  <1>4. CASE alreadyDriven(p)
    BY <1>4, DieEffect DEF alreadyDriven, NoDriver, TypeOK
  <1>5. CASE Crash(p)
    BY <1>5, DieEffect DEF Crash, NoDriver
  <1>6. CASE Restart(p)
    BY <1>6 DEF Restart, TypeOK
  <1>. QED  BY <1>1, <1>2, <1>3, <1>4, <1>5, <1>6 DEF BackgroundActions, BackgroundStep

\* ... and those of the pods and their threads, restarts included.
LEMMA BackgroundPreserves ==
    ASSUME IInv, NEW p \in Pod, BackgroundActions(p)
    PROVE  IInv'
  <1>. USE DEF IInv, rows, pods
  <1>a. TypeOK'
    BY BackgroundType
  <1>b. uid[p] \in Nat \ {0} /\ Inc(p) \in Incarnation /\ Known(Inc(p))
    BY DEF TypeOK, Inc, Incarnation, Known
  <1>c. sess \in SessionRow /\ bg[p] \in Thread
    BY DEF TypeOK
  <1>d. LateHop'
    BY BackgroundEffect DEF LateHop
  <1>1. CASE resumeServerSessions(p) \/ sweepOrphanedSessions(p)
    <2>1. UNCHANGED <<sess, task, up, uid, drv, rq>>
      BY <1>1 DEF resumeServerSessions, sweepOrphanedSessions
    <2>2. up[p] /\ (bg'[p] = NoWork \/ (bg'[p] = Listed /\ sess.state \in Active /\ sess.owner # Blank))
      BY <1>1, <1>c DEF resumeServerSessions, sweepOrphanedSessions, Background, TypeOK, Blank
    <2>3. bg'[p] = Listed => sess.owner = Inc(p) \/ Gone(sess.owner)
      <3>1. CASE sweepOrphanedSessions(p)
        BY <3>1 DEF sweepOrphanedSessions, OwnerKnown, Gone
      <3>2. CASE resumeServerSessions(p)
        <4>. SUFFICES ASSUME bg'[p] = Listed, sess.owner.pod = p, Known(sess.owner)
                      PROVE  sess.owner = Inc(p) \/ Gone(sess.owner)
          BY <2>2, <3>2 DEF resumeServerSessions, OwnerKnown, Listed, NoWork, TypeOK
        <4>. QED  BY DEF Gone, Alive
      <3>. QED  BY <1>1, <3>1, <3>2
    <2>4. NotStarted'
      BY <2>1, <2>2, BackgroundEffect DEF NotStarted, NoWork, Active
    <2>5. Served' /\ OwnerKnown'
      BY <2>1 DEF Served, OwnerKnown, Known
    <2>6. TakesFromTheGone'
      BY <2>1, <2>2, <2>3, BackgroundEffect
         DEF TakesFromTheGone, NoWork, Listed, Gone, Known, Alive, Inc
    <2>. QED  BY <1>a, <1>d, <2>4, <2>5, <2>6
  <1>2. CASE salvageSessionsOwnedBy(p) \/ mustRevertClaim(p)
    <2>1. /\ UNCHANGED <<task, up, uid, drv, rq>> /\ up[p] /\ sess.state # "NONE"
          /\ bg[p].pc \in {"claim", "resume"}
      BY <1>2 DEF salvageSessionsOwnedBy, mustRevertClaim, Background, NotStarted
    <2>2. sess'.owner \in {sess.owner, Inc(p), bg[p].owner}
      BY <1>2, <1>c DEF salvageSessionsOwnedBy, mustRevertClaim, ClaimOrphanedSession, SessionRow
    <2>3. bg'[p].pc \in {"claim", "resume"} => bg'[p].owner = bg[p].owner
      BY <1>2, <1>c DEF salvageSessionsOwnedBy, mustRevertClaim, Thread, NoWork, TypeOK
    <2>4. Known(bg[p].owner)
      BY <1>b, <2>1 DEF TakesFromTheGone, Gone
    <2>5. NotStarted'
      BY <2>1, BackgroundEffect DEF NotStarted
    <2>6. Served'
      BY <2>1 DEF Served
    <2>7. OwnerKnown'
      BY <1>b, <2>1, <2>2, <2>4 DEF OwnerKnown, Known
    <2>8. TakesFromTheGone'
      BY <2>1, <2>3, BackgroundEffect DEF TakesFromTheGone, Gone, Known, Alive, Inc
    <2>. QED  BY <1>a, <1>d, <2>5, <2>6, <2>7, <2>8
  <1>3. CASE startClaimedSession(p)
    <2>1. /\ UNCHANGED <<sess, task, up, uid, rq>> /\ bg'[p] = NoWork /\ sess.state # "NONE"
      BY <1>3 DEF startClaimedSession, Background, NotStarted, TypeOK
    <2>2. NotStarted' /\ Served' /\ OwnerKnown'
      BY <2>1 DEF NotStarted, Served, OwnerKnown, Known
    <2>3. TakesFromTheGone'
      BY <2>1, BackgroundEffect DEF TakesFromTheGone, NoWork, Gone, Known, Alive, Inc
    <2>. QED  BY <1>a, <1>d, <2>2, <2>3
  <1>4. ASSUME Die(p), UNCHANGED sess, UNCHANGED task
        PROVE  IInv'
    <2>1. NotStarted'
      BY <1>4, DieEffect DEF NotStarted, NoWork, NoDriver
    <2>2. Served'
      BY <1>4, DieEffect DEF Served
    <2>3. OwnerKnown'
      BY <1>4, DieEffect DEF OwnerKnown, Known
    <2>4. \A o : Gone(o) => Gone(o)'
      BY <1>4, DieEffect DEF Gone, Known, Alive, Inc
    <2>5. TakesFromTheGone'
      BY <1>4, <2>4, DieEffect DEF TakesFromTheGone, NoWork, Inc
    <2>. QED  BY <1>a, <1>d, <2>1, <2>2, <2>3, <2>5
  <1>5. CASE alreadyDriven(p)
    <2>1. CASE bg[p].owner = Inc(p)
      <3>1. /\ UNCHANGED <<sess, task, up, uid, drv, rq>> /\ bg'[p] = NoWork
        BY <1>5, <2>1 DEF alreadyDriven, TypeOK
      <3>2. NotStarted' /\ Served' /\ OwnerKnown'
        BY <3>1, BackgroundEffect DEF NotStarted, Served, OwnerKnown, Known, NoWork
      <3>3. TakesFromTheGone'
        BY <3>1, BackgroundEffect DEF TakesFromTheGone, NoWork, Gone, Known, Alive, Inc
      <3>. QED  BY <1>a, <1>d, <3>2, <3>3
    <2>2. CASE bg[p].owner # Inc(p)
      BY <1>4, <1>5, <2>2 DEF alreadyDriven
    <2>. QED  BY <2>1, <2>2
  <1>6. CASE Crash(p)
    BY <1>4, <1>6 DEF Crash
  <1>7. CASE Restart(p)
    <2>1. /\ UNCHANGED <<sess, task, drv, rq>> /\ ~up[p] /\ bg'[p].pc = "boot"
          /\ uid'[p] = uid[p] + 1 /\ \A q \in Pod : q # p => uid'[q] = uid[q] /\ up'[q] = up[q]
      BY <1>7, <1>c DEF Restart, TypeOK, Thread
    <2>2. \A q \in Pod : up[q] => up'[q]
      BY <1>7 DEF Restart, TypeOK
    <2>3. \A o : Known(o) => Known(o)'
      BY <2>1, <1>b DEF Known, Incarnation, TypeOK
    <2>4. \A o : Gone(o) => Gone(o)'
      <3>. SUFFICES ASSUME NEW o, Gone(o)
                    PROVE  ~Alive(o)'
        BY <2>3 DEF Gone
      <3>1. CASE o.pod = p
        <4>1. o.uid <= uid[p] /\ o.uid \in Nat
          BY <3>1 DEF Gone, Known, Incarnation
        <4>2. o.uid # uid'[p]
          BY <1>b, <2>1, <4>1
        <4>. QED  BY <3>1, <4>2 DEF Alive, Inc
      <3>2. CASE o.pod # p
        BY <2>1, <3>2 DEF Gone, Alive, Inc
      <3>. QED  BY <3>1, <3>2
    <2>5. NotStarted'
      BY <2>1, BackgroundEffect DEF NotStarted
    <2>6. Served'
      BY <2>1, <2>2 DEF Served
    <2>7. OwnerKnown'
      BY <2>1, <2>3 DEF OwnerKnown
    <2>8. TakesFromTheGone'
      BY <2>1, <2>2, <2>4, BackgroundEffect DEF TakesFromTheGone, Inc
    <2>. QED  BY <1>a, <1>d, <2>5, <2>6, <2>7, <2>8
  <1>. QED  BY <1>1, <1>2, <1>3, <1>5, <1>6, <1>7 DEF BackgroundActions, BackgroundStep

\* Every step of the system is one of these.
LEMMA NextCases ==
    ASSUME Next
    PROVE  \/ \E p \in Pod : DriverStep(p) \/ CallFails(p)
           \/ \E r \in Request : RequestActions(r)
           \/ \E p \in Pod : BackgroundActions(p)
  BY DEF Next, RequestActions, BackgroundActions

\* Nor does a step that changes nothing disturb it.
LEMMA Stutter ==
    ASSUME IInv, UNCHANGED vars
    PROVE  IInv'
  BY DEF vars, IInv, TypeOK, NotStarted, Served, OwnerKnown, TakesFromTheGone, LateHop,
         Gone, Known, Alive, Inc

\* The inductive invariant holds in every reachable state.
THEOREM Inductive == Spec => []IInv
  <1>1. IInv /\ [Next]_vars => IInv'
    BY NextCases, DriverPreserves, RequestPreserves, BackgroundPreserves, Stutter
  <1>. QED  BY InitIInv, <1>1, PTL DEF Spec

\* Every variable keeps its type.
THEOREM TypeCorrect == Spec => []TypeOK
  BY Inductive, PTL DEF IInv

\* However cancellations, replies and takeovers interleave, a goroutine begins at
\* most one hop of a session that is being torn down (recordTaskStatus's check of
\* the session's state after each reply).
THEOREM LateHopBounded == Spec => []AtMostOneLateHop
  <1>1. IInv => AtMostOneLateHop
    BY DEF IInv, LateHop, AtMostOneLateHop, TypeOK, Driver
  <1>. QED  BY <1>1, Inductive, PTL

\* The session's state only moves forward: every statement that writes it
\* (CreateSession, MarkTerminating, CancelTaskAndSession, TerminateSession) does,
\* in whatever order the replicas issue them.
THEOREM StateMovesForward == Spec => StateNeverGoesBack
  <1>1. ASSUME IInv, [Next]_vars
        PROVE  Rank[sess.state] <= Rank[sess'.state]
    <2>a. sess \in SessionRow /\ sess.state \in {"NONE", "RUNNING", "TERMINATING", "TERMINATED"}
      BY <1>1 DEF IInv, TypeOK, SessionRow, Active
    <2>1. CASE \E p \in Pod : DriverStep(p) \/ CallFails(p)
      <3>1. sess.state # "NONE"
        BY <1>1, <2>1, DriverEffect DEF IInv, NotStarted
      <3>2. \/ sess'.state = sess.state \/ sess'.state = "TERMINATED"
            \/ sess.state = "RUNNING" /\ sess'.state = "TERMINATING"
        BY <1>1, <2>1, <2>a, DriverEffect
           DEF IInv, SessionRow, MarkTerminating, TerminateSession, ReleaseSession
      <3>. QED  BY <2>a, <3>2 DEF Rank
    <2>2. CASE \E r \in Request : RequestActions(r)
      <3>1. \/ sess'.state = sess.state
            \/ sess.state = "NONE" /\ sess'.state = "RUNNING"
            \/ sess.state = "RUNNING" /\ sess'.state = "TERMINATING"
        BY <1>1, <2>2, RequestEffect DEF IInv
      <3>. QED  BY <2>a, <3>1 DEF Rank
    <2>3. CASE \E p \in Pod : BackgroundActions(p)
      <3>1. sess'.state = sess.state
        BY <1>1, <2>3, BackgroundEffect DEF IInv
      <3>. QED  BY <2>a, <3>1 DEF Rank
    <2>4. CASE UNCHANGED vars
      BY <2>a, <2>4 DEF vars, Rank
    <2>. QED  BY <1>1, <2>1, <2>2, <2>3, <2>4, NextCases
  <1>. QED  BY <1>1, Inductive, PTL DEF Spec, StateNeverGoesBack

\* A live owner is never replaced by another live one: ClaimSession takes an
\* unowned session only, and ClaimOrphanedSession one whose listed owner was gone
\* and, gone, stays so, restarts included.
THEOREM LivingKeepTheirSessions == Spec => NeverTakenFromTheLiving
  <1>. DEFINE Kept == Alive(sess.owner) => sess'.owner = sess.owner \/ ~Alive(sess'.owner)
  <1>1. ASSUME IInv, [Next]_vars
        PROVE  Kept
    <2>a. sess \in SessionRow /\ ~Alive(Blank)
      BY <1>1 DEF IInv, TypeOK, Alive, Blank
    <2>1. CASE \E p \in Pod : DriverStep(p) \/ CallFails(p)
      <3>1. sess'.owner \in {sess.owner, Blank}
        BY <1>1, <2>1, <2>a, DriverEffect
           DEF IInv, SessionRow, MarkTerminating, TerminateSession, ReleaseSession
      <3>. QED  BY <2>a, <3>1
    <2>2. CASE \E r \in Request : RequestActions(r)
      <3>1. sess.owner = Blank \/ sess'.owner \in {sess.owner, Blank}
        BY <1>1, <2>2, RequestEffect DEF IInv, Claims, HandsOver, GivesBack, OwnershipUntouched
      <3>. QED  BY <2>a, <3>1
    <2>3. ASSUME NEW p \in Pod, BackgroundActions(p)
          PROVE  Kept
      <3>. USE DEF rows
      <3>1. CASE salvageSessionsOwnedBy(p)
        <4>1. bg[p].owner = Inc(p) \/ ~Alive(bg[p].owner)
          BY <1>1, <3>1 DEF IInv, TakesFromTheGone, Gone, salvageSessionsOwnedBy, Background
        <4>2. sess' = sess \/ (sess.owner = bg[p].owner /\ sess'.owner = Inc(p))
          BY <2>a, <3>1 DEF salvageSessionsOwnedBy, ClaimOrphanedSession, SessionRow
        <4>. QED  BY <4>1, <4>2
      <3>2. CASE mustRevertClaim(p)
        <4>1. bg[p].owner = Inc(p) \/ ~Alive(bg[p].owner)
          BY <1>1, <3>2 DEF IInv, TakesFromTheGone, Gone, mustRevertClaim, Background
        <4>2. sess' = sess \/ (sess.owner = Inc(p) /\ sess'.owner = bg[p].owner)
          BY <2>a, <3>2 DEF mustRevertClaim, ClaimOrphanedSession, SessionRow
        <4>. QED  BY <4>1, <4>2
      <3>3. CASE ~salvageSessionsOwnedBy(p) /\ ~mustRevertClaim(p)
        BY <2>3, <3>3 DEF BackgroundActions, BackgroundStep, resumeServerSessions, sweepOrphanedSessions,
                          startClaimedSession, alreadyDriven, Crash, Restart
      <3>. QED  BY <3>1, <3>2, <3>3
    <2>4. CASE UNCHANGED vars
      BY <2>4 DEF vars
    <2>. QED  BY <1>1, <2>1, <2>2, <2>3, <2>4, NextCases
  <1>. QED  BY <1>1, Inductive, PTL DEF Spec, NeverTakenFromTheLiving

-----------------------------------------------------------------------------
(***************************************************************************)
(* Without restarts, whoever acts on the session owns it.                   *)
(***************************************************************************)

\* Incarnations of two pods differ, and none is blank.
LEMMA IncDiffer ==
    /\ \A p, q \in Pod : Inc(p) = Inc(q) => p = q
    /\ \A p \in Pod : Inc(p) # Blank
  BY DEF Inc, Blank

\* A goroutine gives the session up before it stops being its holder.
LEMMA DriverKeepsHolders ==
    ASSUME IInv, HInv, NEW p \in Pod, DriverStep(p) \/ CallFails(p)
    PROVE  HInv'
  <1>. USE DEF IInv, HInv
  <1>a. sess \in SessionRow
    BY DEF TypeOK
  <1>1. up[p] /\ UNCHANGED <<up, uid, bg, rq>>
    BY DriverEffect
  <1>2. \A q \in Pod : q # p => drv'[q] = drv[q]
    BY DriverEffect
  <1>3. FirstIncarnations'
    BY <1>1 DEF FirstIncarnations, Gone, Known, Alive, Inc
  <1>4. CASE Drives(p) /\ sess'.owner = sess.owner
    <2>1. HoldersOwn'
      BY <1>1, <1>2, <1>4 DEF HoldersOwn, Drives, HasTakenOver, HasClaim, Inc
    <2>2. OneHolder'
      BY <1>1, <1>2, <1>4 DEF OneHolder, Drives, HasTakenOver, HasClaim
    <2>. QED  BY <1>3, <2>1, <2>2
  <1>5. CASE Drives(p) /\ ~Drives(p)'
    <2>1. sess.owner = Inc(p)
      BY <1>5 DEF HoldersOwn
    <2>2. \A q \in Pod : ~Drives(q)' /\ ~HasTakenOver(q)'
      BY <1>1, <1>2, <1>5, <2>1, IncDiffer DEF HoldersOwn, OneHolder, Drives, HasTakenOver
    <2>3. \A r \in Request : ~HasClaim(r)'
      BY <1>1, <1>5 DEF OneHolder, HasClaim
    <2>. QED  BY <1>3, <2>2, <2>3 DEF HoldersOwn, OneHolder
  <1>6. CASE ~Drives(p) /\ ~Drives(p)' /\ sess' = sess
    <2>1. HoldersOwn'
      BY <1>1, <1>2, <1>6 DEF HoldersOwn, Drives, HasTakenOver, HasClaim, Inc
    <2>2. OneHolder'
      BY <1>1, <1>2, <1>6 DEF OneHolder, Drives, HasTakenOver, HasClaim
    <2>. QED  BY <1>3, <2>1, <2>2
  <1>7. \/ Drives(p) /\ sess'.owner = sess.owner
        \/ Drives(p) /\ ~Drives(p)'
        \/ ~Drives(p) /\ ~Drives(p)' /\ sess' = sess
    BY <1>a, DriverEffect DEF Drives, SessionRow, MarkTerminating, TerminateSession
  <1>. QED  BY <1>4, <1>5, <1>6, <1>7

\* A request becomes the holder only of a session nobody holds.
LEMMA RequestKeepsHolders ==
    ASSUME IInv, HInv, NEW r \in Request, RequestActions(r)
    PROVE  HInv'
  <1>. USE DEF IInv, HInv
  <1>1. UNCHANGED <<up, uid, bg>>
    BY RequestEffect
  <1>2. \A s \in Request : s # r => rq'[s] = rq[s]
    BY RequestEffect
  <1>3. FirstIncarnations'
    BY <1>1 DEF FirstIncarnations, Gone, Known, Alive, Inc
  <1>4. CASE Claims(r)
    <2>1. \A s \in Request : ~HasClaim(s)
      <3>. SUFFICES ASSUME NEW s \in Request, HasClaim(s)
                    PROVE  FALSE
        OBVIOUS
      <3>1. rq[s].pod \in Pod /\ sess.owner = Inc(rq[s].pod)
        BY DEF HoldersOwn, HasClaim, Served
      <3>. QED  BY <1>4, <3>1, IncDiffer DEF Claims
    <2>2. \A q \in Pod : ~Drives(q) /\ ~HasTakenOver(q)
      BY <1>4, IncDiffer DEF Claims, HoldersOwn
    <2>3. \A q \in Pod : ~Drives(q)' /\ ~HasTakenOver(q)'
      BY <1>1, <1>4, <2>2 DEF Claims, Drives, HasTakenOver
    <2>4. \A s \in Request : s # r => ~HasClaim(s)'
      BY <1>2, <2>1 DEF HasClaim
    <2>5. sess'.owner = Inc(rq'[r].pod) /\ uid' = uid
      BY <1>1, <1>4 DEF Claims
    <2>. QED  BY <1>3, <2>3, <2>4, <2>5 DEF HoldersOwn, OneHolder, Inc
  <1>5. CASE HandsOver(r) \/ GivesBack(r)
    <2>1. /\ rq[r].pod \in Pod /\ up[rq[r].pod] /\ sess.owner = Inc(rq[r].pod)
          /\ HasClaim(r) /\ ~HasClaim(r)'
      BY <1>5 DEF HandsOver, GivesBack, HoldersOwn, HasClaim, Served
    <2>2. \A s \in Request : ~HasClaim(s)'
      BY <1>2, <2>1 DEF OneHolder, HasClaim
    <2>3. \A q \in Pod : ~Drives(q) /\ ~HasTakenOver(q) /\ ~HasTakenOver(q)'
      BY <1>1, <2>1 DEF OneHolder, HasTakenOver
    <2>4. CASE GivesBack(r)
      <3>1. \A q \in Pod : ~Drives(q)'
        BY <2>3, <2>4 DEF GivesBack, Drives
      <3>. QED  BY <1>3, <2>2, <2>3, <3>1 DEF HoldersOwn, OneHolder
    <2>5. CASE HandsOver(r)
      <3>1. \A q \in Pod : Drives(q)' => q = rq[r].pod
        BY <2>3, <2>5 DEF HandsOver, Drives
      <3>3. HoldersOwn'
        BY <1>1, <2>1, <2>2, <2>3, <2>5, <3>1 DEF HandsOver, HoldersOwn, Inc
      <3>. QED  BY <1>3, <2>2, <2>3, <3>3 DEF OneHolder
    <2>. QED  BY <1>5, <2>4, <2>5
  <1>6. CASE OwnershipUntouched(r)
    <2>1. HoldersOwn'
      BY <1>1, <1>2, <1>6 DEF OwnershipUntouched, HoldersOwn, Drives, HasTakenOver, HasClaim, Inc
    <2>2. OneHolder'
      BY <1>1, <1>2, <1>6 DEF OwnershipUntouched, OneHolder, Drives, HasTakenOver, HasClaim
    <2>. QED  BY <1>3, <2>1, <2>2
  <1>. QED  BY <1>4, <1>5, <1>6, RequestEffect

\* A takeover becomes the holder only of a session whose holder is gone.
LEMMA BackgroundKeepsHolders ==
    ASSUME IInv, HInv, MaxRestarts = 0, NEW p \in Pod, BackgroundActions(p)
    PROVE  HInv'
  <1>. USE DEF IInv, HInv, rows, pods
  <1>a. uid[p] = 1 /\ bg[p].pc # "boot"
    BY DEF FirstIncarnations
  <1>b. \A q \in Pod : q # p => drv'[q] = drv[q] /\ bg'[q] = bg[q]
    BY BackgroundEffect
  <1>c. sess \in SessionRow /\ bg[p] \in Thread
    BY DEF TypeOK
  <1>d. Alive(Inc(p)) <=> up[p]
    BY DEF Alive, Inc
  <1>e. ASSUME UNCHANGED <<up, uid>>,
               bg'[p].pc \in {"idle", "claim", "resume"},
               bg'[p].pc \in {"claim", "resume"} => Gone(bg'[p].owner)
        PROVE  FirstIncarnations'
    <2>1. \A o : Gone(o) => Gone(o)'
      BY <1>e DEF Gone, Known, Alive, Inc
    <2>2. Gone(bg'[p].owner) => Gone(bg[p].owner)'
      BY <1>e DEF Gone, Known, Alive, Inc
    <2>. SUFFICES ASSUME NEW q \in Pod
                  PROVE  /\ uid'[q] = 1 /\ bg'[q].pc # "boot"
                         /\ bg'[q].pc \in {"claim", "resume"} => Gone(bg[q].owner)'
      BY DEF FirstIncarnations
    <2>3. CASE q = p
      BY <1>e, <2>2, <2>3 DEF FirstIncarnations
    <2>4. CASE q # p
      <3>1. bg'[q] = bg[q]
        BY <1>b, <2>4
      <3>2. Gone(bg[q].owner) => Gone(bg[q].owner)'
        BY <1>e, <3>1 DEF Gone, Known, Alive, Inc
      <3>. QED  BY <1>e, <3>1, <3>2 DEF FirstIncarnations
    <2>. QED  BY <2>3, <2>4
  <1>1. CASE sweepOrphanedSessions(p)
    <2>1. UNCHANGED <<sess, up, uid, drv, rq>> /\ bg'[p] = Listed
      BY <1>1 DEF sweepOrphanedSessions, TypeOK
    <2>2. Gone(sess.owner)
      BY <1>1 DEF sweepOrphanedSessions, OwnerKnown, Gone
    <2>3. FirstIncarnations'
      BY <1>e, <2>1, <2>2 DEF Listed
    <2>4. \A q \in Pod : HasTakenOver(q)' => HasTakenOver(q)
      BY <1>b, <2>1 DEF HasTakenOver, Listed
    <2>5. HoldersOwn' /\ OneHolder'
      BY <2>1, <2>4 DEF HoldersOwn, OneHolder, Drives, HasClaim, Inc
    <2>. QED  BY <2>3, <2>5
  <1>2. CASE salvageSessionsOwnedBy(p)
    <2>1. UNCHANGED <<up, uid, drv, rq>> /\ up[p] /\ bg[p].pc = "claim" /\ Gone(bg[p].owner)
      BY <1>2 DEF salvageSessionsOwnedBy, Background, FirstIncarnations
    <2>2. CASE sess.owner # bg[p].owner
      <3>1. sess' = sess /\ bg'[p] = NoWork
        BY <1>2, <2>2 DEF salvageSessionsOwnedBy, ClaimOrphanedSession, TypeOK
      <3>2. FirstIncarnations'
        BY <1>e, <2>1, <3>1 DEF NoWork
      <3>3. \A q \in Pod : HasTakenOver(q)' => HasTakenOver(q)
        BY <1>b, <3>1 DEF HasTakenOver, NoWork
      <3>4. HoldersOwn' /\ OneHolder'
        BY <2>1, <3>1, <3>3 DEF HoldersOwn, OneHolder, Drives, HasClaim, Inc
      <3>. QED  BY <3>2, <3>4
    <2>3. CASE sess.owner = bg[p].owner
      <3>1. sess'.owner = Inc(p)
        BY <1>2, <1>c, <2>3 DEF salvageSessionsOwnedBy, ClaimOrphanedSession, SessionRow
      <3>2. bg'[p].owner = bg[p].owner /\ bg'[p].pc = "resume"
        BY <1>2, <1>c, <2>3 DEF salvageSessionsOwnedBy, TypeOK, Thread
      <3>3. ~Alive(sess.owner)
        BY <2>1, <2>3 DEF Gone
      <3>a. \A q \in Pod : up[q] => sess.owner # Inc(q)
        BY <3>3 DEF Alive, Inc
      <3>4. \A q \in Pod : ~Drives(q) /\ ~HasTakenOver(q)
        BY <3>a DEF HoldersOwn
      <3>5. \A r \in Request : ~HasClaim(r)
        BY <3>a DEF HoldersOwn, Served, HasClaim
      <3>6. FirstIncarnations'
        BY <1>e, <2>1, <3>2
      <3>7. (\A q \in Pod : ~Drives(q)' /\ (HasTakenOver(q)' => q = p)) /\ \A r \in Request : ~HasClaim(r)'
        BY <1>b, <2>1, <3>4, <3>5 DEF Drives, HasTakenOver, HasClaim
      <3>8. HoldersOwn' /\ OneHolder'
        BY <2>1, <3>1, <3>7 DEF HoldersOwn, OneHolder, Inc
      <3>. QED  BY <3>6, <3>8
    <2>. QED  BY <2>2, <2>3
  <1>3. CASE startClaimedSession(p)
    <2>1. /\ UNCHANGED <<sess, up, uid, rq>> /\ bg'[p] = NoWork /\ HasTakenOver(p)
      BY <1>3 DEF startClaimedSession, Background, HasTakenOver, TypeOK
    <2>2. up[p] /\ sess.owner = Inc(p)
      BY <2>1 DEF HoldersOwn
    <2>3. \A q \in Pod : ~HasTakenOver(q)' /\ (Drives(q)' => q = p)
      BY <1>b, <2>1, <2>2, IncDiffer DEF HoldersOwn, OneHolder, Drives, HasTakenOver, NoWork
    <2>4. \A r \in Request : ~HasClaim(r)'
      BY <2>1 DEF OneHolder, HasClaim
    <2>5. FirstIncarnations'
      BY <1>e, <2>1 DEF NoWork
    <2>6. HoldersOwn' /\ OneHolder'
      BY <2>1, <2>2, <2>3, <2>4 DEF HoldersOwn, OneHolder, Inc
    <2>. QED  BY <2>5, <2>6
  <1>4. ASSUME Die(p), UNCHANGED sess
        PROVE  HInv'
    <2>1. uid' = uid /\ \A q \in Pod : q # p => up'[q] = up[q]
      BY <1>4, DieEffect
    <2>2. ~Drives(p)' /\ ~HasTakenOver(p)' /\ bg'[p].pc = "idle"
      BY <1>4, DieEffect DEF Drives, HasTakenOver, NoDriver, NoWork
    <2>3. \A r \in Request : HasClaim(r)' => HasClaim(r) /\ rq'[r] = rq[r]
      BY <1>4, DieEffect DEF HasClaim
    <2>4. \A q \in Pod : /\ Drives(q)' => q # p /\ Drives(q)
                         /\ HasTakenOver(q)' => q # p /\ HasTakenOver(q)
      BY <1>b, <2>2 DEF Drives, HasTakenOver
    <2>5. \A o : Gone(o) => Gone(o)'
      BY <1>4, DieEffect DEF Gone, Known, Alive, Inc
    <2>6. FirstIncarnations'
      BY <1>b, <2>1, <2>2, <2>5 DEF FirstIncarnations
    <2>7. HoldersOwn'
      BY <1>4, <2>1, <2>3, <2>4 DEF HoldersOwn, Inc
    <2>8. OneHolder'
      BY <2>3, <2>4 DEF OneHolder
    <2>. QED  BY <2>6, <2>7, <2>8
  <1>5. CASE alreadyDriven(p)
    <2>1. bg[p].owner # Inc(p)
      BY <1>5, <1>d DEF alreadyDriven, Background, FirstIncarnations, Gone
    <2>. QED  BY <1>4, <1>5, <2>1 DEF alreadyDriven
  <1>6. CASE mustRevertClaim(p)
    <2>1. /\ UNCHANGED <<up, uid, drv, rq>> /\ bg'[p] = NoWork /\ HasTakenOver(p)
      BY <1>6 DEF mustRevertClaim, Background, HasTakenOver, TypeOK
    <2>2. \A q \in Pod : ~HasTakenOver(q)' /\ ~Drives(q)'
      BY <1>b, <2>1, IncDiffer DEF HoldersOwn, OneHolder, Drives, HasTakenOver, NoWork
    <2>3. \A r \in Request : ~HasClaim(r)'
      BY <2>1 DEF OneHolder, HasClaim
    <2>4. FirstIncarnations'
      BY <1>e, <2>1 DEF NoWork
    <2>. QED  BY <2>2, <2>3, <2>4 DEF HoldersOwn, OneHolder
  <1>7. CASE Crash(p)
    BY <1>4, <1>7 DEF Crash
  <1>8. ~resumeServerSessions(p) /\ ~Restart(p)
    BY <1>a DEF resumeServerSessions, Background, Restart
  <1>. QED  BY <1>1, <1>2, <1>3, <1>5, <1>6, <1>7, <1>8 DEF BackgroundActions, BackgroundStep

\* Without restarts the inductive invariant about the holders holds.
THEOREM HoldersInductive ==
    ASSUME MaxRestarts = 0
    PROVE  Spec => []HInv
  <1>1. Init => HInv
    BY DEF Init, HInv, HoldersOwn, OneHolder, FirstIncarnations, Drives, HasTakenOver, HasClaim,
           NoDriver, NoWork, NotSent
  <1>2. IInv /\ HInv /\ [Next]_vars => HInv'
    <2>1. ASSUME HInv, UNCHANGED vars
          PROVE  HInv'
      BY <2>1 DEF vars, HInv, HoldersOwn, OneHolder, FirstIncarnations, Drives, HasTakenOver, HasClaim,
                  Gone, Known, Alive, Inc
    <2>. QED  BY <2>1, NextCases, DriverKeepsHolders, RequestKeepsHolders, BackgroundKeepsHolders
  <1>. QED  BY <1>1, <1>2, Inductive, PTL DEF Spec

\* As long as no pod comes back under its name, the replica that drives a session
\* is the one its row names: no claim, sweep, revert, cancellation or crash, in
\* whatever order, leaves a goroutine driving what is owned by somebody else.
THEOREM DriverIsOwner ==
    ASSUME MaxRestarts = 0
    PROVE  Spec => []DriverOwnsSession
  <1>1. HInv => DriverOwnsSession
    BY DEF HInv, HoldersOwn, DriverOwnsSession, Driving, Drives
  <1>. QED  BY <1>1, HoldersInductive, PTL

\* And then at most one goroutine drives it ("at most one instance ever actively
\* drives it at a time", ClaimSession).
THEOREM OneDriver ==
    ASSUME MaxRestarts = 0
    PROVE  Spec => []AtMostOneDriver
  <1>1. ASSUME HInv
        PROVE  AtMostOneDriver
    <2>. DEFINE D == {p \in Pod : Driving(p)}
    <2>1. \A p, q \in D : p = q
      BY <1>1, IncDiffer DEF HInv, HoldersOwn, Driving, Drives
    <2>2. CASE D = {}
      BY <2>2, FS_EmptySet DEF AtMostOneDriver
    <2>3. CASE D # {}
      <3>1. PICK p \in D : TRUE
        BY <2>3
      <3>2. D = {p}
        BY <2>1, <3>1
      <3>3. Cardinality(D) = 1
        BY <3>2, FS_Singleton
      <3>. QED  BY <3>3 DEF AtMostOneDriver
    <2>. QED  BY <2>2, <2>3
  <1>. QED  BY <1>1, HoldersInductive, PTL
=============================================================================
