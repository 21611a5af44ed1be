------------------------------- MODULE Store -------------------------------
(***************************************************************************)
(* The two tables of the task store and the conversation_log rows they own,  *)
(* read by walks that take several statements: a client that pages through    *)
(* ListTasks, the startup resumption and the salvage sweep that page through  *)
(* the sessions of a dead incarnation, and the retention sweep that deletes   *)
(* expired sessions, while drivers on two replicas and cancellations write    *)
(* the same rows.                                                            *)
(*                                                                         *)
(* Every statement of sessionstore.go and taskstore.go stamps its row with    *)
(* the current time.  All replicas read one clock, which may stand still      *)
(* between two statements.  What a driver does within a session is modelled   *)
(* in Session and Relay; here it is the rows it writes.                       *)
(***************************************************************************)
EXTENDS Integers, Sequences, FiniteSets, Functions

CONSTANTS
    NSessions,      \* how many session ids there are
    TaskId,         \* per session: the task id its owner agent chooses
    LeftAt,         \* per session: when the row found at the start was written
    PageSize,       \* sessionListPageSize, and the page size of ListTasks
    BatchSize,      \* retentionBatchSize
    StartTime,      \* when p's new incarnation starts
    Period,         \* --log-retention-period
    Starts,         \* the walks that overlap, the rows they begin with, and the writes
    MaxTime,        \* bound on the clock
    MaxWrites       \* bound on the drivers' writes, failed loads and transactions

Sessions == 1..NSessions

ASSUME StoreBounds ==
    /\ {NSessions, Period, StartTime, MaxTime, MaxWrites} \subseteq Nat
    /\ StartTime <= MaxTime
    /\ PageSize \in Nat \ {0} /\ BatchSize \in Nat \ {0}
ASSUME TaskIdAssumption == TaskId \in [Sessions -> Nat]
ASSUME LeftAtAssumption == LeftAt \in [Sessions -> 0..StartTime]

VARIABLES
    now,      \* time.Now()
    sess,     \* checkpointd_sessions: per id its row
    task,     \* checkpointd_tasks: per session its row
    logged,   \* the sessions with rows in conversation_log
    driver,   \* per session: the replica whose registry holds it, since when, and
              \* which statement its goroutine comes to next
    cancel,   \* the CancelTask request in flight, one at a time
    list,     \* the client's traversal of ListTasks
    walk,     \* per replica: its walk over the dead incarnation's sessions
    sweep,    \* the retention sweep, on replica "q"
    spent     \* how much of MaxWrites is used

tables == <<sess, task, logged>>
vars == <<now, tables, driver, cancel, list, walk, sweep, spent>>

\* Replica p was restarted as a new incarnation of its pod, and "old" is the dead
\* one; q has been alive all along.
Replica == {"p", "q"}
Uid == {"nobody", "old", "p", "q"}
PodOf(uid) == IF uid = "old" THEN "p" ELSE uid

NoSession == [state |-> "none", uid |-> "nobody", upd |-> 0]
NoTask == [status |-> "none", upd |-> 0]
NoDriver == [at |-> "nobody", since |-> 0, pc |-> "stop"]
NoCancel == [pc |-> "idle", at |-> "nobody", s |-> 1]

\* What the dead incarnation and finished drivers can have left behind: a session
\* that was driven or torn down, one paused for input, one whose driver gave up, one
\* that was canceled and not torn down, and one that ended, with its last status
\* recorded or lost.
Leftover ==
    {<<"RUNNING", "old", "working">>, <<"TERMINATING", "old", "ended">>,
     <<"RUNNING", "nobody", "input">>, <<"RUNNING", "nobody", "working">>,
     <<"TERMINATING", "nobody", "ended">>, <<"TERMINATED", "nobody", "ended">>,
     <<"TERMINATED", "nobody", "working">>, <<"none", "nobody", "none">>}

ASSUME StartsAssumption ==
    Starts \subseteq [walks : SUBSET {"list", "p", "q", "sweep", "drain"},
                      left : [Sessions -> Leftover], writes : 0..MaxWrites]

InitFor(start) ==
    /\ now = StartTime
    /\ LET left == start.left IN
       /\ sess = [s \in Sessions |-> IF left[s][1] = "none" THEN NoSession
                                     ELSE [state |-> left[s][1], uid |-> left[s][2],
                                           upd |-> LeftAt[s]]]
       /\ task = [s \in Sessions |-> IF left[s][3] = "none" THEN NoTask
                                     ELSE [status |-> left[s][3], upd |-> LeftAt[s]]]
    /\ logged = {s \in Sessions : sess[s].state # "none"}
    /\ driver = [s \in Sessions |-> NoDriver]
    /\ cancel = NoCancel
    /\ LET begin(w, label) == IF w \in start.walks THEN label ELSE "off" IN
       /\ list = [pc |-> begin("list", "rest"), token |-> <<>>, calm |-> {},
                  seen |-> [s \in Sessions |-> 0]]
       /\ walk = [r \in Replica |-> [pc |-> begin(r, "list"), token |-> <<>>,
                                     page |-> <<>>, next |-> <<>>, failed |-> {},
                                     lost |-> {}]]
       /\ sweep = [pc |-> begin("sweep", "rest"), cutoff |-> 0, ids |-> {}, cur |-> 1,
                   raced |-> {}]
    /\ spent = MaxWrites - start.writes

Spend == spent < MaxWrites /\ spent' = spent + 1

Exists(s) == sess[s].state \notin {"none", "deleted"}
HasTask(s) == task[s].status # "none"

Tick ==
    /\ now < MaxTime
    /\ now' = now + 1
    /\ UNCHANGED <<tables, driver, cancel, list, walk, sweep, spent>>

-----------------------------------------------------------------------------
(***************************************************************************)
(* A request makes a replica drive a session.                               *)
(***************************************************************************)
\* An UPDATE of the session's row: none when the row is gone.
Stamp(s, state, uid) ==
    sess' = IF Exists(s) THEN [sess EXCEPT ![s] = [state |-> state, uid |-> uid, upd |-> now]]
            ELSE sess

\* A row written during the client's traversal need not be found by it.
Disturbed(s) == list' = [list EXCEPT !.calm = @ \ {s}]

\* Its goroutine begins at pc.  The time is what the retention sweep is judged by,
\* and noted only for it.
DrivenBy(r, pc) == [at |-> r, since |-> IF sweep.pc = "off" THEN 0 ELSE now, pc |-> pc]

\* startTask: CreateSession under a fresh id, which the registry cannot hold, and
\* then registry.acquire.
CreateSession(s, r) ==
    /\ sess[s].state = "none"
    /\ sess' = [sess EXCEPT ![s] = [state |-> "RUNNING", uid |-> r, upd |-> now]]
    /\ driver' = [driver EXCEPT ![s] = DrivenBy(r, "turn")]
    /\ UNCHANGED <<task, logged, list, sweep>>

\* ClaimSession's UPDATE where nobody owns the row, and registry.acquire.  The state
\* of the session is not asked.  A claim between the sweep's re-check and its deletes
\* is noted in raced, a ghost.
Claim(s, r, pc) ==
    /\ Exists(s) /\ sess[s].uid = "nobody" /\ driver[s].at # r
    /\ sess' = [sess EXCEPT ![s].uid = r, ![s].upd = now]
    /\ driver' = [driver EXCEPT ![s] = DrivenBy(r, pc)]
    /\ sweep' = IF sweep.pc = "delete" /\ sweep.cur = s
                THEN [sweep EXCEPT !.raced = @ \cup {s}] ELSE sweep
    /\ UNCHANGED <<task, logged, list>>

\* continueTask: its Get found a task that had not ended, which may have ended since.
ClaimSession(s, r) == HasTask(s) /\ Claim(s, r, "turn")

Take(s, r) ==
    /\ Spend
    /\ CreateSession(s, r) \/ ClaimSession(s, r)
    /\ UNCHANGED <<now, cancel, walk>>

-----------------------------------------------------------------------------
(***************************************************************************)
(* The statements of a driver (driveRelayLoop).                             *)
(***************************************************************************)
At(s, pc) == driver[s].at # "nobody" /\ driver[s].pc = pc
Goto(s, pc) == driver' = [driver EXCEPT ![s].pc = pc]

\* execA2A appends the turn's events whatever the tables say; recordTaskStatus then
\* asks GetSession.
Turn(s) ==
    /\ At(s, "turn")
    /\ logged' = logged \cup {s}
    /\ Goto(s, CASE sess[s].state = "TERMINATING" -> "end"
                 [] ~Exists(s) -> "stop"
                 [] OTHER -> "record")
    /\ UNCHANGED <<sess, task, list, sweep>>

\* The rest of recordTaskStatus, a statement of its own: the row is created, or its
\* status updated.  A reply of another agent and a bare message are not recorded, and
\* a reply that pauses the task always is.  A driver that knows its task and finds no
\* row to update gives up, so that creating one is more than it does.
RecordStatus(s) ==
    /\ At(s, "record")
    /\ \E status \in {"working", "input", "ended"} :
         /\ \/ /\ task' = [task EXCEPT ![s] = [status |-> status, upd |-> now]]
               /\ Disturbed(s)
            \/ status # "input" /\ UNCHANGED <<task, list>>
         /\ Goto(s, CASE status = "working" -> "turn"
                      [] status = "input" -> "stop"
                      [] status = "ended" -> "mark")
    /\ UNCHANGED <<sess, logged, sweep>>

\* Only logged when it fails.
MarkTerminating(s) ==
    /\ At(s, "mark")
    /\ \/ sess[s].state = "RUNNING" /\ Stamp(s, "TERMINATING", sess[s].uid)
       \/ UNCHANGED sess
    /\ Goto(s, "end")
    /\ UNCHANGED <<task, logged, list, sweep>>

\* finishTermination: the state is not asked, and its error is only logged.
TerminateSession(s) ==
    /\ At(s, "end")
    /\ Stamp(s, "TERMINATED", sess[s].uid)
    /\ Goto(s, "stop")
    /\ UNCHANGED <<task, logged, list, sweep>>

\* mustReleaseSession, then the registry's release, deferred: the task paused, the
\* session ended, some step failed, or CancelTask cancelled the driver's context.
ReleaseSession(s) ==
    /\ driver[s].at # "nobody"
    /\ Stamp(s, sess[s].state, "nobody")
    /\ driver' = [driver EXCEPT ![s] = NoDriver]
    /\ UNCHANGED <<task, logged, list, sweep>>

Drive(s) ==
    /\ Spend
    /\ Turn(s) \/ RecordStatus(s) \/ MarkTerminating(s) \/ TerminateSession(s) \/ ReleaseSession(s)
    /\ UNCHANGED <<now, cancel, walk>>

-----------------------------------------------------------------------------
(***************************************************************************)
(* CancelTask, on replica r.  It holds no claim until its last step.        *)
(***************************************************************************)
\* CancelTaskAndSession's transaction, which fails if the task's row has changed
\* since it was read.  It marks a RUNNING session and restamps no other, whoever owns
\* it.  Before it, cancelAndWait has told r's own driver to stop: see ReleaseSession.
CancelTask(s, r) ==
    /\ cancel.pc = "idle"
    /\ Exists(s) /\ task[s].status \in {"working", "input"}
    /\ Spend
    /\ task' = [task EXCEPT ![s] = [status |-> "ended", upd |-> now]]
    /\ Disturbed(s)
    /\ IF sess[s].state = "RUNNING" THEN Stamp(s, "TERMINATING", sess[s].uid) ELSE UNCHANGED sess
    /\ cancel' = [pc |-> "marker", at |-> r, s |-> s]
    /\ UNCHANGED <<logged, driver, sweep>>

\* The marker is appended without looking at the tables; an error is only logged.
appendCancellationMarker(r) ==
    /\ cancel.pc = "marker" /\ cancel.at = r
    /\ logged' = logged \/ logged' = logged \cup {cancel.s}
    /\ cancel' = [cancel EXCEPT !.pc = "claim"]
    /\ UNCHANGED <<sess, task, driver, list, sweep, spent>>

\* A session without an owner is torn down here; otherwise its driver will do it.
\* A replica that still drives it after another one has released it (see StartClaimed)
\* waits in acquireWait: the model lets it wait before the claim.
ClaimForCleanup(r) ==
    /\ cancel.pc = "claim" /\ cancel.at = r
    /\ \/ Claim(cancel.s, r, "end")
       \/ /\ ~Exists(cancel.s) \/ sess[cancel.s].uid # "nobody"
          /\ UNCHANGED <<tables, driver, list, sweep>>
    /\ cancel' = NoCancel
    /\ UNCHANGED spent

Cancel(r) ==
    /\ (\E s \in Sessions : CancelTask(s, r)) \/ appendCancellationMarker(r) \/ ClaimForCleanup(r)
    /\ UNCHANGED <<now, walk>>

-----------------------------------------------------------------------------
(***************************************************************************)
(* ListTasks (taskstore.go list): newest first, a page at a time.            *)
(***************************************************************************)
\* The pair of columns a cursor is made of, and its order.
Below(k, l) == k[1] < l[1] \/ (k[1] = l[1] /\ k[2] < l[2])
TaskKey(s) == <<task[s].upd, TaskId[s]>>

\* Mutated form: the cursor compares last_updated alone.
AfterToken_NoTieBreak(s) == list.token = <<>> \/ task[s].upd < list.token[1]

AfterToken(s) == list.token = <<>> \/ Below(TaskKey(s), list.token)

\* ORDER BY ... LIMIT n of the ids in S, as the sets it may return: Before is the
\* order, and rows that are equal in it come in any order.
Limit(S, n, Before(_, _)) ==
    {P \in SUBSET S :
        /\ Cardinality(P) = IF Cardinality(S) < n THEN Cardinality(S) ELSE n
        /\ \A x \in P, y \in S \ P : ~Before(y, x)}

ListTasks ==
    /\ list.pc = "rest"
    /\ list' = [list EXCEPT !.pc = "paging", !.calm = {s \in Sessions : HasTask(s)}]
    /\ UNCHANGED <<now, tables, driver, cancel, walk, sweep, spent>>

\* One request: a page, and the token of its last row when there are more rows.
\* Two rows with one key have an order of their own in each request.
ListPage ==
    /\ list.pc = "paging"
    /\ LET rows == {s \in Sessions : HasTask(s) /\ AfterToken(s)}
           Newer(x, y) == Below(TaskKey(y), TaskKey(x))
           twins == {s \in rows : \E q \in rows \ {s} : TaskKey(q) = TaskKey(s)}
       IN  \E page \in Limit(rows, PageSize, Newer) :
             \E token \in IF page = rows THEN {list.token}
                          ELSE {TaskKey(s) : s \in {x \in page : \A q \in page : ~Newer(x, q)}} :
                list' = [pc |-> IF page = rows THEN "done" ELSE "paging",
                         token |-> token,
                         calm |-> list.calm \ twins,
                         seen |-> [s \in Sessions |-> list.seen[s] + IF s \in page THEN 1 ELSE 0]]
    /\ UNCHANGED <<now, tables, driver, cancel, walk, sweep, spent>>

-----------------------------------------------------------------------------
(***************************************************************************)
(* The walks over the sessions of the dead incarnation: p's                 *)
(* resumeServerSessions and q's salvageSessionsOwnedBy.                      *)
(***************************************************************************)
SessionKey(s) == <<sess[s].upd, s>>
Older(x, y) == Below(SessionKey(x), SessionKey(y))
Active(s) == sess[s].state \in {"RUNNING", "TERMINATING"}

\* ListResumableSessions filters by the pod, ListSessionsOwnedByPodUID also by the
\* uid of the dead incarnation.
Listed(r, s) ==
    /\ Active(s)
    /\ IF r = "p" THEN PodOf(sess[s].uid) = "p" ELSE sess[s].uid = "old"

\* The walk goes on with w: after the last id of a page, to the next page.
StepWalk(r, w) ==
    /\ walk' = [walk EXCEPT ![r] =
                   IF w.pc # "claim" \/ w.page # <<>> THEN w
                   ELSE [w EXCEPT !.pc = IF w.next = <<>> THEN "done" ELSE "list",
                                  !.token = w.next, !.next = <<>>]]
    /\ UNCHANGED <<now, task, logged, cancel, list, sweep>>

\* The pages in their order: keys differ, so that there is one for each.
Ordered(page) ==
    {order \in Bijection(1..Cardinality(page), page) :
        \A i, j \in DOMAIN order : i < j => Older(order[i], order[j])}

\* Mutated form: the token is the one of the first row that was cut off.
NextToken_FirstDropped(page, rows) ==
    {SessionKey(s) : s \in {x \in rows \ page : \A q \in rows \ page : ~Older(q, x)}}

\* The token of a page with more rows after it: the key of its last row.
NextToken(page, rows) == {SessionKey(s) : s \in {x \in page : \A q \in page : ~Older(x, q)}}

\* A page of ids, each with the owner_uid it was listed with.
ListSessions(r) ==
    /\ walk[r].pc = "list"
    /\ LET rows == {s \in Sessions : Listed(r, s) /\ (walk[r].token = <<>>
                                                      \/ Below(walk[r].token, SessionKey(s)))}
       IN  \E page \in Limit(rows, PageSize, Older) :
             \E order \in Ordered(page),
                next \in IF page = rows THEN {<<>>} ELSE NextToken(page, rows) :
                StepWalk(r, [walk[r] EXCEPT
                    !.pc = "claim", !.token = <<>>, !.next = next,
                    !.page = [i \in DOMAIN order |-> [id |-> order[i],
                                                      uid |-> sess[order[i]].uid]]])
    /\ UNCHANGED <<sess, driver, spent>>

\* ClaimOrphanedSession: it restamps the row if owner_uid is still the one listed.
\* It does not look at the state.
ClaimOrphaned(r) ==
    /\ walk[r].pc = "claim" /\ walk[r].page # <<>>
    /\ LET e == Head(walk[r].page) IN
       IF Exists(e.id) /\ sess[e.id].uid = e.uid
       THEN /\ Stamp(e.id, sess[e.id].state, r)
            /\ StepWalk(r, [walk[r] EXCEPT !.pc = "start"])
       ELSE /\ StepWalk(r, [walk[r] EXCEPT !.page = Tail(@)])
            /\ UNCHANGED sess
    /\ UNCHANGED <<driver, spent>>

\* startClaimedSession: the goroutine starts unless this replica drives the session
\* already, which p tolerates for one it listed as its own.  It goes by the state that
\* was listed, which may be older than the row.  Nothing asks whether the claim still
\* holds; lost, a ghost, has the sessions for which it did not.
StartClaimed(r) ==
    /\ walk[r].pc = "start"
    /\ LET e == Head(walk[r].page) IN
       /\ \E pc \in IF sess[e.id].state = "RUNNING" THEN {"turn"} ELSE {"turn", "end"} :
            driver' = IF driver[e.id].at = r THEN driver
                      ELSE [driver EXCEPT ![e.id] = DrivenBy(r, pc)]
       /\ StepWalk(r, [walk[r] EXCEPT !.pc = "claim", !.page = Tail(@),
                                      !.lost = IF sess[e.id].uid = r THEN @ ELSE @ \cup {e.id}])
    /\ UNCHANGED <<sess, spent>>

\* The sessions that were started although their claim no longer held.
Lost == walk["p"].lost \cup walk["q"].lost

\* mustRevertClaim gives the session back to the owner it was listed with.
Reverted(e) == e.uid

\* loadServerSession fails, and the claim is reverted if it still holds.
StartFails(r) ==
    /\ walk[r].pc = "start"
    /\ Spend
    /\ LET e == Head(walk[r].page) IN
       /\ IF Exists(e.id) /\ sess[e.id].uid = r
          THEN Stamp(e.id, sess[e.id].state, Reverted(e)) ELSE UNCHANGED sess
       /\ StepWalk(r, [walk[r] EXCEPT !.pc = "claim", !.page = Tail(@), !.failed = @ \cup {e.id}])
    /\ UNCHANGED driver

Walk(r) == ListSessions(r) \/ ClaimOrphaned(r) \/ StartClaimed(r) \/ StartFails(r)

-----------------------------------------------------------------------------
(***************************************************************************)
(* The retention sweep (retention.go).                                      *)
(***************************************************************************)
Expired(s, cutoff) == sess[s].state = "TERMINATED" /\ sess[s].upd < cutoff

StartSweep ==
    /\ sweep.pc = "rest"
    /\ LET cutoff == now - Period
           Earlier(x, y) == sess[x].upd < sess[y].upd
       IN  \E ids \in Limit({s \in Sessions : Expired(s, cutoff)}, BatchSize, Earlier) :
             sweep' = [sweep EXCEPT !.pc = "next", !.cutoff = cutoff, !.ids = ids]
    /\ UNCHANGED <<now, tables, driver, cancel, list, walk, spent>>

\* The next id: skipped if this replica drives it.
NextExpired ==
    /\ sweep.pc = "next"
    /\ \/ /\ sweep.ids = {}
          /\ sweep' = [sweep EXCEPT !.pc = "done"]
       \/ \E s \in sweep.ids :
            sweep' = [sweep EXCEPT !.ids = @ \ {s}, !.cur = s,
                                   !.pc = IF driver[s].at = "q" THEN "next" ELSE "recheck"]
    /\ UNCHANGED <<now, tables, driver, cancel, list, walk, spent>>

\* Mutated form: the session is deleted as it was found.
StillExpired_Trusted(s) == TRUE

\* The transaction's SELECT.
StillExpired(s) == Expired(s, sweep.cutoff)

Recheck ==
    /\ sweep.pc = "recheck"
    /\ sweep' = [sweep EXCEPT !.pc = IF StillExpired(sweep.cur) THEN "delete" ELSE "next"]
    /\ UNCHANGED <<now, tables, driver, cancel, list, walk, spent>>

\* Mutated form: the session's row is only marked.
DeleteRows_Marked(s) ==
    /\ logged' = logged \ {s}
    /\ task' = [task EXCEPT ![s].status = "none"]
    /\ sess' = [sess EXCEPT ![s].state = "deleted"]

\* Mutated form: the task's row is forgotten.
DeleteRows_NoTask(s) ==
    /\ logged' = logged \ {s}
    /\ sess' = [sess EXCEPT ![s] = [NoSession EXCEPT !.state = "deleted"]]
    /\ UNCHANGED task

\* The time of a task's row stays, as a ghost.
DeleteRows(s) ==
    /\ logged' = logged \ {s}
    /\ task' = [task EXCEPT ![s].status = "none"]
    /\ sess' = [sess EXCEPT ![s] = [NoSession EXCEPT !.state = "deleted"]]

Marking(s) == cancel.pc = "marker" /\ cancel.s = s

\* The three DELETEs and the commit.  Nothing of READ COMMITTED keeps a claim from
\* happening since the SELECT.  raced, a ghost, has the sessions claimed in between
\* and those that some driver was at when they were deleted, or a cancellation that
\* had its marker to append.
DeleteExpired ==
    /\ sweep.pc = "delete"
    /\ DeleteRows(sweep.cur)
    /\ Disturbed(sweep.cur)
    /\ sweep' = [sweep EXCEPT !.pc = "next",
                             !.raced = IF driver[sweep.cur].at = "nobody" /\ ~Marking(sweep.cur)
                                       THEN @ ELSE @ \cup {sweep.cur}]
    /\ UNCHANGED <<now, driver, cancel, walk, spent>>

\* A statement or the commit fails: the transaction is rolled back.
DeleteFails ==
    /\ sweep.pc = "delete"
    /\ Spend
    /\ sweep' = [sweep EXCEPT !.pc = "next"]
    /\ UNCHANGED <<now, tables, driver, cancel, list, walk>>

Sweep == StartSweep \/ NextExpired \/ Recheck \/ DeleteExpired \/ DeleteFails

\* Everything but what replica p's process decides: see Server.
Others ==
    \/ Tick
    \/ \E s \in Sessions : Drive(s) \/ Take(s, "q")
    \/ Cancel("q")
    \/ ListTasks \/ ListPage
    \/ Walk("q")
    \/ Sweep

-----------------------------------------------------------------------------
Time == 0..MaxTime
Key == {<<>>} \cup (Time \X Nat)

(***************************************************************************)
(* Rows carry a time that has been, an owner only while they exist, and      *)
(* every walk stands at a known place with a cursor made of two columns.     *)
(***************************************************************************)
TypeOK ==
    /\ now \in Time
    /\ sess \in [Sessions -> [state : {"none", "deleted", "RUNNING", "TERMINATING", "TERMINATED"},
                              uid : Uid, upd : 0..now]]
    /\ task \in [Sessions -> [status : {"none", "working", "input", "ended"}, upd : 0..now]]
    /\ logged \subseteq Sessions /\ spent \in 0..MaxWrites
    /\ driver \in [Sessions -> [at : {"nobody"} \cup Replica, since : 0..now,
                                pc : {"turn", "record", "mark", "end", "stop"}]]
    /\ cancel \in [pc : {"idle", "marker", "claim"}, at : {"nobody"} \cup Replica, s : Nat]
    /\ cancel.pc # "idle" => cancel.s \in Sessions /\ cancel.at \in Replica
    /\ list \in [pc : {"off", "rest", "paging", "done"}, token : Key, calm : SUBSET Sessions,
                 seen : [Sessions -> Nat]]
    /\ walk \in [Replica -> [pc : {"off", "list", "claim", "start", "done"}, token : Key,
                             next : Key, failed : SUBSET Sessions, lost : SUBSET Sessions,
                             page : Seq([id : Sessions, uid : Uid])]]
    /\ sweep.pc \in {"off", "rest", "next", "recheck", "delete", "done"}
    /\ sweep.ids \subseteq Sessions /\ sweep.raced \subseteq Sessions
    /\ sweep.cutoff \in Int /\ (NSessions > 0 => sweep.cur \in Sessions)
    /\ \A s \in Sessions : ~Exists(s) => sess[s].uid = "nobody"

(***************************************************************************)
(* A client that follows ListTasks' page tokens gets no task twice, however  *)
(* rows move while it reads, and once it has the last page it has got every  *)
(* task that nobody wrote or deleted meanwhile and that shares its            *)
(* (last_updated, task_id) with no other.                                    *)
(***************************************************************************)
ListedOnce ==
    /\ \A s \in Sessions : list.seen[s] <= 1
    /\ list.pc = "done" => \A s \in list.calm : list.seen[s] = 1

(***************************************************************************)
(* The retention sweep deletes only sessions that have ended.  One that was   *)
(* continued after it was found expired, by a replica whose registry the      *)
(* sweep cannot see, is spared, unless the claim falls between the re-check   *)
(* and the deletes, the driver has been at it for a retention period, or a     *)
(* walk has started it on a claim that no longer held.                       *)
(***************************************************************************)
SweepSparesTheContinued ==
    [][\A s \in Sessions : sess[s].state # "deleted" /\ sess'[s].state = "deleted" =>
          /\ sess[s].state = "TERMINATED"
          /\ \/ driver[s].at = "nobody"
             \/ s \in sweep.raced \cup Lost
             \/ now - driver[s].since > Period]_vars

(***************************************************************************)
(* A deleted session leaves no row behind in the other two tables, where     *)
(* nothing would ever find it again, unless a driver was still at it, a        *)
(* cancellation had yet to append its marker, or a walk has started it on a    *)
(* claim that no longer held.                                                *)
(***************************************************************************)
NoOrphans ==
    \A s \in Sessions : sess[s].state = "deleted" /\ (HasTask(s) \/ s \in logged) =>
        s \in sweep.raced \cup Lost
=============================================================================
