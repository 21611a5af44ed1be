------------------------------ MODULE Sidecar ------------------------------
(***************************************************************************)
(* The lifecycle of the Python sidecar (internal/pythonsidecar/sidecar.go):  *)
(* host processes that each start one Sidecar (antigravity.New), watch it    *)
(* and stop it, and that share one PID file and one endpoint.  A host may be  *)
(* killed at any point; its python process lives on.                         *)
(*                                                                         *)
(* Each host has two threads.  "main" runs Start and, after New has returned,   *)
(* the Stop of the goroutine that waits for a signal: AntigravityHarness.Stop  *)
(* has no caller, so no two Stops overlap.  "mon" is monitor().  A Sidecar is  *)
(* started once, so what Stop captures under the mutex does not change.       *)
(***************************************************************************)
EXTENDS Integers, FiniteSets

CONSTANTS
    Host,           \* the host processes
    MaxProcs,       \* bound on the python processes that are ever spawned
    MaxLaunches,    \* bound on the host processes that are ever started
    MaxFaults       \* bound on deaths, kills, cancellations and failed writes

ASSUME SidecarBounds == {MaxLaunches, MaxFaults} \subseteq Nat /\ MaxProcs \in Nat \ {0}
ASSUME HostAssumption == 0 \notin Host

Procs == 1..MaxProcs

VARIABLES
    file,       \* the PID file: 0 when absent, -1 when truncated, else the pid
    proc,       \* per pid: its stage, the signal it was sent and its parent
    side,       \* per host: the fields of its Sidecar, and what Start has read
    main,       \* per host: where the thread is that starts and stops the Sidecar
    mon,        \* per host: where monitor() is
    lapses,     \* which of the windows named below the behaviour has entered
    launches,   \* how many hosts were started
    faults      \* how much of MaxFaults is used

sidecarVars == <<file, proc, side, main, mon, lapses, launches, faults>>

NoProc == [stage |-> "none", signal |-> "none", parent |-> 0]

\* New(cfg), with nothing read yet.  own is the pid that monitor() and Stop capture,
\* done says whether doneChan is closed, up whether Start has succeeded, and ctx
\* whether the context given to Start is cancelled.
New == [pid |-> 0, own |-> 0, cmd |-> FALSE, stopping |-> FALSE, done |-> FALSE,
        seen |-> 0, up |-> FALSE, ctx |-> FALSE]

\* What earlier hosts can have left: nothing, the PID file of a process that is gone,
\* an orphaned server, and one whose file a Stop that it ignored has removed.
Leftover ==
    {<<0, NoProc>>, <<1, [NoProc EXCEPT !.stage = "gone"]>>,
     <<1, [NoProc EXCEPT !.stage = "serving"]>>,
     <<0, [NoProc EXCEPT !.stage = "serving", !.signal = "term"]>>}

SidecarInit ==
    /\ \E left \in Leftover :
         /\ file = left[1]
         /\ proc = [p \in Procs |-> IF p = 1 THEN left[2] ELSE NoProc]
    /\ side = [h \in Host |-> New]
    /\ main = [h \in Host |-> "off"]
    /\ mon = [h \in Host |-> "off"]
    /\ lapses = {}
    /\ launches = 0
    /\ faults = 0

Live(p) == proc[p].stage \in {"booting", "serving"}

\* A process that has exited answers signal 0 until its parent has waited for it.
isAlive(pid) == pid > 0 /\ (Live(pid) \/ proc[pid].stage = "zombie")

\* Mutated form: the text of the file is taken for a pid.
readPID_Raw == file

\* The pid in the file, or 0 when there is none that can be parsed.
readPID == IF file > 0 THEN file ELSE 0

\* TCPReady: any server on the endpoint answers, unless the context is cancelled.
TCPReady(h) == ~side[h].ctx /\ \E p \in Procs : proc[p].stage = "serving"

\* Thread t of the host goes on.
At(h, t, from, to) ==
    \/ t = "main" /\ main[h] = from /\ main' = [main EXCEPT ![h] = to] /\ UNCHANGED mon
    \/ t = "mon" /\ mon[h] = from /\ mon' = [mon EXCEPT ![h] = to] /\ UNCHANGED main

Fault == faults < MaxFaults /\ faults' = faults + 1

----------------------------------------------------------------------------
(* Start. *)

Stopping(h) == main[h] \in {"stop", "grace", "await", "clean", "unlink"}

\* Start has not returned; the Stop that a failed Start calls is part of it.
Starting(h) ==
    \/ main[h] \in {"read", "probe", "remove", "check", "spawn", "truncate", "write", "wait"}
    \/ Stopping(h) /\ ~side[h].up

\* A host process runs antigravity.New, which calls Start on a new Sidecar.
Launch(h) ==
    /\ launches < MaxLaunches
    /\ At(h, "main", "off", "read")
    /\ side' = [side EXCEPT ![h] = New]
    /\ launches' = launches + 1
    /\ lapses' = lapses \union (IF \E g \in Host : Starting(g) THEN {"overlap"} ELSE {})
    /\ UNCHANGED <<file, proc, faults>>

\* readPID, and whether the process it names is alive.
ReadFile(h) ==
    /\ side' = [side EXCEPT ![h] = [@ EXCEPT !.seen = readPID]]
    /\ At(h, "main", "read", IF isAlive(readPID) THEN "probe" ELSE "remove")
    /\ UNCHANGED <<file, proc, lapses, launches, faults>>

\* The process of the PID file is alive.  When the endpoint answers, Start attaches
\* to it and monitor() begins.
Attach(h) ==
    /\ main[h] = "probe"
    /\ TCPReady(h)
    /\ side' = [side EXCEPT ![h] = [@ EXCEPT !.pid = side[h].seen, !.own = side[h].seen,
                                                !.up = TRUE]]
    /\ main' = [main EXCEPT ![h] = "up"] /\ mon' = [mon EXCEPT ![h] = "watch"]
    /\ UNCHANGED <<file, proc, lapses, launches, faults>>

NotWorking(h) ==
    /\ ~TCPReady(h)
    /\ At(h, "main", "probe", "remove")
    /\ UNCHANGED <<file, proc, side, lapses, launches, faults>>

\* os.Remove, whatever the file holds by now.
RemoveStale(h) ==
    /\ At(h, "main", "remove", "check")
    /\ file' = IF side[h].seen # 0 THEN 0 ELSE file
    /\ UNCHANGED <<proc, side, lapses, launches, faults>>

\* Mutated form: the endpoint is not probed before a process is spawned.
CheckEndpoint_Skipped(h) ==
    /\ At(h, "main", "check", "spawn")
    /\ UNCHANGED <<file, proc, side, lapses, launches, faults>>

\* "endpoint is already in use by another process".
CheckEndpoint(h) ==
    /\ At(h, "main", "check", IF TCPReady(h) THEN "failed" ELSE "spawn")
    /\ UNCHANGED <<file, proc, side, lapses, launches, faults>>

\* cmd.Start() refuses a context that is cancelled; otherwise it may fail too.
Spawn(h) ==
    /\ \/ \E p \in Procs :
            /\ ~side[h].ctx
            /\ proc[p].stage = "none" /\ \A q \in 1..(p - 1) : proc[q].stage # "none"
            /\ proc' = [proc EXCEPT ![p] = [NoProc EXCEPT !.stage = "booting", !.parent = h]]
            /\ side' = [side EXCEPT ![h] = [@ EXCEPT !.pid = p, !.own = p, !.cmd = TRUE]]
            /\ At(h, "main", "spawn", "truncate")
            /\ UNCHANGED faults
       \/ /\ side[h].ctx
          /\ At(h, "main", "spawn", "failed")
          /\ UNCHANGED <<proc, side, faults>>
       \/ /\ Fault
          /\ At(h, "main", "spawn", "failed")
          /\ UNCHANGED <<proc, side>>
    /\ UNCHANGED <<file, lapses, launches>>

\* writePID: os.WriteFile truncates the file and then writes it.  When either fails,
\* Start calls Stop, and there is no monitor.
TruncateFile(h) ==
    /\ \/ /\ file' = -1
          /\ At(h, "main", "truncate", "write")
          /\ UNCHANGED faults
       \/ /\ Fault
          /\ At(h, "main", "truncate", "stop")
          /\ UNCHANGED file
    /\ UNCHANGED <<proc, side, lapses, launches>>

WriteFile(h) ==
    /\ main[h] = "write"
    /\ file' = side[h].own
    /\ main' = [main EXCEPT ![h] = "wait"] /\ mon' = [mon EXCEPT ![h] = "watch"]
    /\ lapses' = lapses \union
         (IF \E g \in Host : "unlink" \in {main[g], mon[g]} THEN {"torn"} ELSE {})
    /\ UNCHANGED <<proc, side, launches, faults>>

WriteFails(h) ==
    /\ Fault
    /\ At(h, "main", "write", "stop")
    /\ UNCHANGED <<file, proc, side, lapses, launches>>

\* WaitUntilReady, and what Start makes of it.
WaitUntilReady(h) ==
    /\ \/ /\ isAlive(side[h].pid) /\ TCPReady(h)
          /\ At(h, "main", "wait", "up")
          /\ side' = [side EXCEPT ![h] = [@ EXCEPT !.up = TRUE]]
       \/ /\ ~isAlive(side[h].pid) \/ side[h].ctx
          /\ At(h, "main", "wait", "stop")
          /\ UNCHANGED side
    /\ UNCHANGED <<file, proc, lapses, launches, faults>>

----------------------------------------------------------------------------
(* monitor(). *)

\* cmd.Wait() reaps the child; an attached process is polled until it is gone or
\* Stop has begun.  Either way the Sidecar forgets the pid.
MonitorExit(h) ==
    LET p == side[h].own IN
    /\ At(h, "mon", "watch", "clean")
    /\ IF side[h].cmd THEN proc[p].stage = "zombie"
                      ELSE side[h].stopping \/ ~isAlive(p)
    /\ proc' = IF side[h].cmd THEN [proc EXCEPT ![p] = [@ EXCEPT !.stage = "gone"]] ELSE proc
    /\ side' = [side EXCEPT ![h] = [@ EXCEPT !.pid = 0]]
    /\ UNCHANGED <<file, lapses, launches, faults>>

\* Mutated form: whatever pid the file names.
IsMine_Any(h) == readPID # 0

IsMine(h) == readPID = side[h].own

\* cleanPID: the file is read, and removed in a second step.  monitor() then closes
\* doneChan; a Stop returns.
CleanPID(h, t) ==
    LET after == IF t = "mon" THEN [side EXCEPT ![h] = [@ EXCEPT !.done = TRUE]] ELSE side IN
    /\ \/ IsMine(h) /\ At(h, t, "clean", "unlink") /\ UNCHANGED <<file, side>>
       \/ ~IsMine(h) /\ At(h, t, "clean", "ended") /\ side' = after /\ UNCHANGED file
       \/ At(h, t, "unlink", "ended") /\ side' = after /\ file' = 0
    /\ UNCHANGED <<proc, lapses, launches, faults>>

Monitor(h) == MonitorExit(h) \/ CleanPID(h, "mon")

----------------------------------------------------------------------------
(* Stop. *)

\* The signal that New has asked for.
CallStop(h) ==
    /\ At(h, "main", "up", "stop")
    /\ UNCHANGED <<file, proc, side, lapses, launches, faults>>

Sent(p, s) ==
    IF Live(p) /\ proc[p].signal # "kill" THEN [proc EXCEPT ![p] = [@ EXCEPT !.signal = s]]
                                          ELSE proc

\* Stop marks the Sidecar and sends SIGTERM, unless the process is known to be gone.
BeginStop(h) ==
    /\ IF isAlive(side[h].pid)
       THEN /\ At(h, "main", "stop", "grace")
            /\ side' = [side EXCEPT ![h] = [@ EXCEPT !.stopping = TRUE]]
            /\ proc' = Sent(side[h].own, "term")
       ELSE At(h, "main", "stop", "ended") /\ UNCHANGED <<side, proc>>
    /\ UNCHANGED <<file, lapses, launches, faults>>

\* Mutated form: when the time is up, Stop leaves the process alone.
Grace_NoKill(h) ==
    /\ At(h, "main", "grace", IF side[h].done \/ ~side[h].cmd THEN "clean" ELSE "await")
    /\ UNCHANGED <<file, proc, side, lapses, launches, faults>>

\* The monitor has closed doneChan, or the time is up: a child is killed, and an
\* attached process is left to itself.
Grace(h) ==
    LET kill == side[h].cmd /\ ~side[h].done IN
    /\ At(h, "main", "grace", IF kill THEN "await" ELSE "clean")
    /\ proc' = IF kill THEN Sent(side[h].own, "kill") ELSE proc
    /\ UNCHANGED <<file, side, lapses, launches, faults>>

Await(h) ==
    /\ side[h].done
    /\ At(h, "main", "await", "clean")
    /\ UNCHANGED <<file, proc, side, lapses, launches, faults>>

Stop(h) ==
    BeginStop(h) \/ Grace(h) \/ Await(h) \/ CleanPID(h, "main")

----------------------------------------------------------------------------
(* The processes. *)

\* The server has bound its port (with SO_REUSEPORT, so another may hold it too).
Serve(p) ==
    /\ proc[p].stage = "booting"
    /\ proc' = [proc EXCEPT ![p] = [@ EXCEPT !.stage = "serving"]]
    /\ UNCHANGED <<file, side, main, mon, lapses, launches, faults>>

\* A python process exits: for a signal, or by itself.  SIGTERM may be ignored.
Exit(p) ==
    /\ Live(p)
    /\ IF proc[p].signal = "none" THEN Fault ELSE UNCHANGED faults
    /\ proc' = [proc EXCEPT ![p] =
         [@ EXCEPT !.stage = IF proc[p].parent = 0 THEN "gone" ELSE "zombie"]]
    /\ UNCHANGED <<file, side, main, mon, lapses, launches>>

\* The context of Start is cancelled: exec.CommandContext kills the child.
Cancel(h) ==
    /\ main[h] \notin {"off", "failed", "ended"}
    /\ ~side[h].ctx
    /\ Fault
    /\ side' = [side EXCEPT ![h] = [@ EXCEPT !.ctx = TRUE]]
    /\ proc' = IF side[h].cmd THEN Sent(side[h].own, "kill") ELSE proc
    /\ lapses' = lapses \union
         (IF main[h] \in {"read", "probe", "remove"} THEN {"cancel"} ELSE {})
    /\ UNCHANGED <<file, main, mon, launches>>

\* The host process ends, and init takes over its children.
Ends(h) ==
    /\ proc' = [p \in Procs |->
         IF proc[p].parent # h THEN proc[p]
         ELSE [proc[p] EXCEPT !.parent = 0, !.stage = IF @ = "zombie" THEN "gone" ELSE @]]
    /\ side' = [side EXCEPT ![h] = New]
    /\ main' = [main EXCEPT ![h] = "off"] /\ mon' = [mon EXCEPT ![h] = "off"]
    /\ UNCHANGED <<file, launches>>

\* It returns from main at any time after Start: nobody waits for the goroutine that
\* calls Stop, and without a signal nothing calls it.
HostExits(h) ==
    /\ main[h] # "off" /\ ~Starting(h)
    /\ Ends(h)
    /\ UNCHANGED <<lapses, faults>>

\* It is killed.
HostCrashes(h) ==
    /\ main[h] # "off"
    /\ Fault
    /\ lapses' = lapses \union (IF Starting(h) THEN {"crash"} ELSE {})
    /\ Ends(h)

StartStep(h) ==
    \/ ReadFile(h) \/ Attach(h) \/ NotWorking(h) \/ RemoveStale(h)
    \/ CheckEndpoint(h) \/ Spawn(h) \/ TruncateFile(h) \/ WriteFile(h) \/ WriteFails(h)
    \/ WaitUntilReady(h)

SidecarNext ==
    \/ \E h \in Host :
         \/ Launch(h) \/ StartStep(h) \/ Monitor(h) \/ CallStop(h) \/ Stop(h)
         \/ Cancel(h) \/ HostExits(h) \/ HostCrashes(h)
    \/ \E p \in Procs : Serve(p) \/ Exit(p)

\* The goroutines run, timers fire, and a killed process exits.
SidecarFairness ==
    /\ \A h \in Host : WF_sidecarVars(Monitor(h)) /\ WF_sidecarVars(Stop(h))
    /\ \A p \in Procs : WF_sidecarVars(proc[p].signal = "kill" /\ Exit(p))

SidecarSpec == SidecarInit /\ [][SidecarNext]_sidecarVars /\ SidecarFairness

----------------------------------------------------------------------------
(* What the lifecycle promises. *)

Process ==
    [stage : {"none", "booting", "serving", "zombie", "gone"}, signal : {"none", "term", "kill"},
     parent : Host \union {0}]

Fields ==
    [pid : 0..MaxProcs, own : 0..MaxProcs, cmd : BOOLEAN, stopping : BOOLEAN, done : BOOLEAN,
     seen : 0..MaxProcs, up : BOOLEAN, ctx : BOOLEAN]

\* Where the two threads of a host can be.
MainAt ==
    {"off", "read", "probe", "remove", "check", "spawn", "truncate", "write", "wait", "up",
     "failed", "stop", "grace", "await", "clean", "unlink", "ended"}
MonAt == {"off", "watch", "clean", "unlink", "ended"}

\* Every variable has its type, and what Start has read is no pid or a pid.
SidecarTypeOK ==
    /\ file \in -1..MaxProcs
    /\ proc \in [Procs -> Process]
    /\ side \in [Host -> Fields]
    /\ main \in [Host -> MainAt] /\ mon \in [Host -> MonAt]
    /\ lapses \subseteq {"overlap", "crash", "cancel", "torn"}
    /\ launches \in 0..MaxLaunches /\ faults \in 0..MaxFaults

\* Hosts that start one after the other and are not killed while they start never
\* run two servers on the endpoint: each attaches to the server there is, refuses,
\* or spawns one once no other lives; and a Start that fails leaves none behind.
OneServer ==
    lapses \intersect {"overlap", "crash"} = {} =>
      Cardinality({p \in Procs : Live(p)}) <= 1

\* A server that its host has started and that nobody stops is named by the PID file,
\* so that the next host attaches to it, unless two Starts overlapped, one was killed
\* or cancelled, or a removal that had already read the file came later.
NamedWhileServing ==
    \A h \in Host :
      /\ lapses = {} /\ main[h] = "up" /\ side[h].cmd
      /\ proc[side[h].own].stage = "serving" /\ proc[side[h].own].signal = "none"
      => file = side[h].own

\* A Stop returns, even when the process ignores SIGTERM, as long as the monitor was
\* started; and when it returns a child of this host has exited.
StopEnds ==
    \A h \in Host :
      Stopping(h) /\ mon[h] # "off"
        ~> \/ main[h] = "off"
           \/ main[h] = "ended" /\ (side[h].cmd => ~Live(side[h].own))
=============================================================================
