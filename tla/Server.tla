------------------------------- MODULE Server -------------------------------
(***************************************************************************)
(* runServe (server.go) as the process of replica p: it serves requests,      *)
(* waits until --base-url answers, resumes its sessions, and drains when a     *)
(* SIGTERM cancels its context.  The drain is a goroutine beside the main one:  *)
(* it stops new work, waits at most five seconds for requests, and then for     *)
(* the sessions the tables show as this pod's.  The main goroutine may return   *)
(* before the drain has ended, and with it goes the process.                   *)
(***************************************************************************)
EXTENDS Store

VARIABLE proc   \* replica p's process

svars == <<vars, proc>>
store == <<tables, driver, cancel, list, walk, sweep>>

\* main: the main goroutine.  drain: the goroutine that waits for the signal.
\* req: the session that a request is about, between its isDraining check and
\* the statement that makes it p's (0 for none).  late: the sessions taken after
\* Shutdown gave up waiting for them.  cut: p ended without a full drain.
NoProcess == [main |-> "off", drain |-> "no", req |-> 0, late |-> {}, cut |-> FALSE]

SInit ==
    \E start \in Starts :
        /\ InitFor(start)
        /\ proc = IF "drain" \in start.walks THEN [NoProcess EXCEPT !.main = "wait"] ELSE NoProcess

\* Without a signal in sight, requests reach p and its startup resumption goes on.
Undisturbed ==
    /\ proc.main = "off"
    /\ Walk("p") \/ Cancel("p") \/ \E s \in Sessions : Take(s, "p")
    /\ UNCHANGED proc

Alive == proc.main \in {"wait", "up"}
Signaled == proc.drain # "no"

\* The process ends, and with it every goroutine that drove a session and every
\* request.
Exit(cut) ==
    /\ proc' = [proc EXCEPT !.main = "exited", !.req = 0, !.cut = cut]
    /\ driver' = [s \in Sessions |-> IF driver[s].at = "p" THEN NoDriver ELSE driver[s]]
    /\ cancel' = IF cancel.at = "p" THEN NoCancel ELSE cancel
    /\ UNCHANGED <<now, tables, list, walk, sweep>>

-----------------------------------------------------------------------------
(***************************************************************************)
(* Requests.                                                                *)
(***************************************************************************)
\* startTask's check, and continueTask's: it lets a session p drives through.
isDraining(s) == Signaled /\ driver[s].at # "p"

\* Once Shutdown has closed the listener there are no new requests.
SendMessage(s) ==
    /\ Alive /\ proc.req = 0 /\ proc.drain \in {"no", "shutdown"}
    /\ ~isDraining(s)
    /\ proc' = [proc EXCEPT !.req = s]
    /\ UNCHANGED <<now, store, spent>>

\* The request goes on: CreateSession or ClaimSession, or it fails.
Proceed ==
    /\ Alive /\ proc.req # 0
    /\ \/ /\ Take(proc.req, "p")
          /\ proc' = [proc EXCEPT !.req = 0,
                                  !.late = IF proc.drain \in {"count", "done"}
                                           THEN @ \cup {proc.req} ELSE @]
       \/ /\ proc' = [proc EXCEPT !.req = 0]
          /\ UNCHANGED <<now, store, spent>>

\* CancelTask has no such check: it begins while the listener is open.
Cancellation ==
    /\ Alive
    /\ cancel.at = "p" \/ proc.drain \in {"no", "shutdown"}
    /\ Cancel("p")
    /\ UNCHANGED proc

-----------------------------------------------------------------------------
(***************************************************************************)
(* The main goroutine.                                                      *)
(***************************************************************************)
\* /ready answers at --base-url, or it does not within the timeout.
waitForBaseURL ==
    /\ proc.main = "wait" /\ ~Signaled
    /\ \/ /\ proc' = [proc EXCEPT !.main = "up"]
          /\ UNCHANGED <<now, store, spent>>
       \/ Spend /\ Exit(TRUE)

\* resumeServerSessions.  Its context is the one the signal cancels: a session
\* whose load fails for that is given back, and the next statement's error ends
\* the process.
resumeServerSessions ==
    /\ proc.main = "up"
    /\ \/ /\ IF Signaled THEN StartFails("p") ELSE Walk("p")
          /\ UNCHANGED proc
       \/ /\ Signaled
          /\ walk["p"].pc \in {"list", "claim"}
          /\ Exit(TRUE)
          /\ UNCHANGED spent

\* Serve has returned, or the wait was cut short, and the drain is done.
ServeReturns ==
    /\ \/ proc.main = "wait"
       \/ proc.main = "up" /\ walk["p"].pc = "done"
    /\ proc.drain = "done"
    /\ Exit(proc.cut)
    /\ UNCHANGED spent

-----------------------------------------------------------------------------
(***************************************************************************)
(* The drain.                                                               *)
(***************************************************************************)
Sigterm ==
    /\ Alive /\ ~Signaled
    /\ proc' = [proc EXCEPT !.drain = "shutdown"]
    /\ UNCHANGED <<now, store, spent>>

\* Shutdown returns when the requests have ended, or after five seconds.
Shutdown ==
    /\ Alive /\ proc.drain = "shutdown"
    /\ IF proc.req = 0 /\ cancel.at # "p" THEN UNCHANGED spent ELSE Spend
    /\ proc' = [proc EXCEPT !.drain = "count"]
    /\ UNCHANGED <<now, store>>

\* Mutated form: the sessions being torn down are counted instead.
CountOwnedRunningSessions_Terminating ==
    Cardinality({s \in Sessions : sess[s].state = "TERMINATING" /\ PodOf(sess[s].uid) = "p"})

\* By the pod's name: the dead incarnation's sessions count.
CountOwnedRunningSessions ==
    Cardinality({s \in Sessions : sess[s].state = "RUNNING" /\ PodOf(sess[s].uid) = "p"})

\* The loop ends when the count is 0, or when it cannot be read.
Drain ==
    /\ Alive /\ proc.drain = "count"
    /\ \/ /\ CountOwnedRunningSessions = 0
          /\ proc' = [proc EXCEPT !.drain = "done"]
          /\ UNCHANGED spent
       \/ /\ proc' = [proc EXCEPT !.drain = "done", !.cut = TRUE]
          /\ Spend
    /\ UNCHANGED <<now, store>>

Process ==
    \/ Undisturbed
    \/ \E s \in Sessions : SendMessage(s)
    \/ Proceed \/ Cancellation \/ waitForBaseURL \/ resumeServerSessions \/ ServeReturns
    \/ Sigterm \/ Shutdown \/ Drain

SNext == Process \/ (Others /\ UNCHANGED proc)

SSpec == SInit /\ [][SNext]_svars

-----------------------------------------------------------------------------
(***************************************************************************)
(* No session in progress is lost sight of by a restart or a shutdown.  When  *)
(* a walk over the dead incarnation's sessions has ended, none of them is       *)
(* still in its hands, although the walk's own restamps, cancellations and the   *)
(* other replica's claims have moved the rows under its cursor, except one       *)
(* whose load failed.  And a process that ended by a full drain leaves none      *)
(* RUNNING in its name, but those whose request was not through with its check    *)
(* when Shutdown gave up waiting.  (A session that its own driver released after  *)
(* an error, or a cancellation could not claim, has no owner and is in no walk.)  *)
(***************************************************************************)
NoneStranded ==
    /\ \A r \in Replica : walk[r].pc = "done" =>
         \A s \in Sessions :
            Active(s) /\ sess[s].uid = "old" => s \in walk["p"].failed \cup walk["q"].failed
    /\ proc.main = "exited" /\ ~proc.cut =>
         \A s \in Sessions : sess[s].state = "RUNNING" /\ sess[s].uid = "p" => s \in proc.late
=============================================================================
