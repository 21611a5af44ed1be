--------------------------- MODULE SidecarProofs ---------------------------
(***************************************************************************)
(* What is proved of the sidecar's lifecycle, for any hosts and any number   *)
(* of python processes, starts and faults: at most one process lives as long *)
(* as Starts do not overlap and no host is killed in one, and the PID file    *)
(* names the server that its host has started.                              *)
(*                                                                         *)
(* Both need to know more than they say.  At most one process lives because    *)
(* a host that is about to spawn one has seen that none serves, and none is    *)
(* booting: a booting process has a host that is still starting, and there is  *)
(* only one such host (OneOK).  That a Start which fails leaves no process      *)
(* behind rests on what the threads of a host have waited for (HostOK).  The   *)
(* file names the server because no thread that would remove it is left past    *)
(* its check, and no host gets past the probe of the process (NamedOK).       *)
(***************************************************************************)
EXTENDS Sidecar, FiniteSetTheorems, TLAPS

Calm == lapses \cap {"overlap", "crash"} = {}

\* Where the thread of a host that has spawned no process and attached to none can be.
Early == {"off", "read", "probe", "remove", "check", "spawn", "failed"}

\* The process has exited or was sent a signal.
Doomed(p) == Live(p) => proc[p].signal # "none"

\* What the threads of a host have done so far, and what they know of the process.
HostOK(h) ==
    /\ main[h] \in Early =>
         ~side[h].cmd /\ ~side[h].up /\ ~side[h].stopping /\ side[h].own = 0 /\ mon[h] = "off"
    /\ main[h] \in {"truncate", "write", "wait"} =>
         side[h].cmd /\ ~side[h].up /\ ~side[h].stopping
    /\ main[h] \in {"truncate", "write"} => mon[h] = "off"
    /\ main[h] = "up" => side[h].up /\ ~side[h].stopping
    /\ Stopping(h) /\ ~side[h].up => side[h].cmd
    /\ main[h] \in {"grace", "await", "clean", "unlink"} => side[h].stopping
    /\ main[h] \in {"clean", "unlink"} /\ side[h].cmd => side[h].done
    /\ main[h] = "probe" => side[h].seen # 0
    /\ side[h].done => mon[h] = "ended"
    /\ side[h].cmd => side[h].own # 0
    /\ mon[h] # "off" => side[h].own # 0
    /\ side[h].pid # 0 => side[h].pid = side[h].own

\* The pids that a host knows are pids of processes that were spawned, and what
\* has become of its own.
ProcOK(h) ==
    /\ side[h].seen # 0 => proc[side[h].seen].stage # "none"
    /\ side[h].own # 0 => proc[side[h].own].stage # "none"
    /\ side[h].cmd /\ (side[h].pid = 0 \/ mon[h] \in {"clean", "unlink", "ended"}) =>
         ~Live(side[h].own)
    /\ mon[h] \in {"clean", "unlink"} => Doomed(side[h].own)
    /\ side[h].stopping => side[h].own # 0 /\ Doomed(side[h].own)

FileOK == file > 0 => proc[file].stage # "none"

\* A process has one parent.
ParentOK ==
    \A g, h \in Host : side[g].cmd /\ side[h].cmd /\ side[g].own = side[h].own => g = h

OneOK ==
    Calm =>
      /\ \A g, h \in Host : Starting(g) /\ Starting(h) => g = h
      /\ \A h \in Host : Starting(h) /\ side[h].cmd =>
           \A p \in Procs : Live(p) => p = side[h].own
      /\ \A h \in Host : main[h] = "spawn" /\ ~side[h].ctx => \A p \in Procs : ~Live(p)
      /\ \A p \in Procs : proc[p].stage = "booting" =>
           \E h \in Host : Starting(h) /\ side[h].cmd /\ side[h].own = p
      /\ \A p, q \in Procs : Live(p) /\ Live(q) => p = q

\* A process that its host has written to the file, and that nobody stops.
Named(h) ==
    /\ main[h] \in {"wait", "up"} /\ side[h].cmd
    /\ Live(side[h].own) /\ proc[side[h].own].signal = "none"

\* No thread is about to replace or remove the file.
Unharmed(g, p) ==
    /\ main[g] \notin {"remove", "check", "spawn", "truncate", "write", "unlink"}
    /\ mon[g] # "unlink"
    /\ main[g] = "probe" => side[g].seen = p

NamedOK ==
    lapses = {} =>
      /\ \A h \in Host : main[h] \in {"read", "probe", "remove"} => ~side[h].ctx
      /\ \A h \in Host : Named(h) =>
           file = side[h].own /\ \A g \in Host : Unharmed(g, side[h].own)

IInv ==
    /\ SidecarTypeOK
    /\ \A h \in Host : HostOK(h) /\ ProcOK(h)
    /\ FileOK /\ ParentOK /\ OneOK /\ NamedOK

----------------------------------------------------------------------------
(* The types. *)

USE DEF Procs

\* A pid that a file or a Sidecar holds is none, or the pid of a process.
LEMMA PidIs ==
  ASSUME NEW n \in -1..MaxProcs
  PROVE  /\ n \in Int
         /\ n > 0 => n \in Procs
         /\ n \in 0..MaxProcs /\ n # 0 => n \in Procs
BY SidecarBounds

\* The initial states are well typed.
LEMMA InitTypes == SidecarInit => SidecarTypeOK
<1> SUFFICES ASSUME SidecarInit PROVE SidecarTypeOK
  OBVIOUS
<1>1. PICK left \in Leftover :
        file = left[1] /\ proc = [p \in Procs |-> IF p = 1 THEN left[2] ELSE NoProc]
  BY DEF SidecarInit
<1>2. left[1] \in {0, 1} /\ left[2] \in Process
  <2> DEFINE gone == [NoProc EXCEPT !.stage = "gone"]
             left1 == [NoProc EXCEPT !.stage = "serving"]
             left2 == [NoProc EXCEPT !.stage = "serving", !.signal = "term"]
  <2>1. NoProc \in Process /\ gone \in Process /\ left1 \in Process /\ left2 \in Process
    BY DEF NoProc, Process
  <2>2. left \in {<<0, NoProc>>, <<1, gone>>, <<1, left1>>, <<0, left2>>}
    BY <1>1 DEF Leftover
  <2> HIDE DEF gone, left1, left2
  <2> QED  BY <2>1, <2>2
<1>3. file \in -1..MaxProcs /\ proc \in [Procs -> Process]
  BY <1>1, <1>2, SidecarBounds DEF NoProc, Process
<1>4. side \in [Host -> Fields]
  BY SidecarBounds DEF SidecarInit, New, Fields
<1>5. /\ main \in [Host -> MainAt] /\ mon \in [Host -> MonAt] /\ lapses = {}
      /\ launches \in 0..MaxLaunches /\ faults \in 0..MaxFaults
  BY SidecarBounds DEF SidecarInit, MainAt, MonAt
<1> QED  BY <1>3, <1>4, <1>5 DEF SidecarTypeOK

\* What is sent to a process changes only its signal.
LEMMA SentIs ==
  ASSUME proc \in [Procs -> Process], NEW p \in Procs, NEW s \in {"term", "kill"}
  PROVE  /\ Sent(p, s) \in [Procs -> Process]
         /\ \A q \in Procs : /\ Sent(p, s)[q].stage = proc[q].stage
                             /\ Sent(p, s)[q].parent = proc[q].parent
                             /\ q # p => Sent(p, s)[q].signal = proc[q].signal
                             /\ proc[q].signal # "none" => Sent(p, s)[q].signal # "none"
         /\ Live(p) => Sent(p, s)[p].signal # "none"
<1>1. CASE ~(Live(p) /\ proc[p].signal # "kill")
  BY <1>1 DEF Sent
<1>2. CASE Live(p) /\ proc[p].signal # "kill"
  <2>1. Sent(p, s) = [proc EXCEPT ![p] = [@ EXCEPT !.signal = s]]
    BY <1>2 DEF Sent
  <2> QED
    BY <1>2, <2>1 DEF Process
<1> QED  BY <1>1, <1>2

\* The types are kept even when there is no process to send the signal to.
LEMMA SentTypes ==
  ASSUME proc \in [Procs -> Process], NEW p, NEW s \in {"term", "kill"}
  PROVE  Sent(p, s) \in [Procs -> Process]
<1>1. CASE p \in Procs
  BY <1>1, SentIs
<1>2. CASE p \notin Procs
  BY <1>2 DEF Sent
<1> QED  BY <1>1, <1>2

\* The assignments to the fields of a Sidecar keep its type.
LEMMA FieldsAre ==
  ASSUME NEW v \in Fields, NEW n \in 0..MaxProcs
  PROVE  /\ New \in Fields
         /\ [v EXCEPT !.seen = n] \in Fields
         /\ [v EXCEPT !.pid = n] \in Fields
         /\ [v EXCEPT !.pid = n, !.own = n, !.up = TRUE] \in Fields
         /\ [v EXCEPT !.pid = n, !.own = n, !.cmd = TRUE] \in Fields
         /\ [v EXCEPT !.up = TRUE] \in Fields
         /\ [v EXCEPT !.done = TRUE] \in Fields
         /\ [v EXCEPT !.stopping = TRUE] \in Fields
         /\ [v EXCEPT !.ctx = TRUE] \in Fields
<1>1. New \in Fields
  BY SidecarBounds DEF New, Fields
<1>2. [v EXCEPT !.seen = n] \in Fields /\ [v EXCEPT !.pid = n] \in Fields
  BY DEF Fields
<1>3. /\ [v EXCEPT !.pid = n, !.own = n, !.up = TRUE] \in Fields
      /\ [v EXCEPT !.pid = n, !.own = n, !.cmd = TRUE] \in Fields
  BY DEF Fields
<1>4. /\ [v EXCEPT !.up = TRUE] \in Fields /\ [v EXCEPT !.done = TRUE] \in Fields
      /\ [v EXCEPT !.stopping = TRUE] \in Fields /\ [v EXCEPT !.ctx = TRUE] \in Fields
  BY DEF Fields
<1> QED  BY <1>1, <1>2, <1>3, <1>4

\* The types of what a host and a process have.
LEMMA FieldTypes ==
  ASSUME SidecarTypeOK, NEW h \in Host
  PROVE  /\ side[h] \in Fields
         /\ side[h].pid \in 0..MaxProcs /\ side[h].own \in 0..MaxProcs
         /\ side[h].seen \in 0..MaxProcs
         /\ side[h].cmd \in BOOLEAN /\ side[h].stopping \in BOOLEAN /\ side[h].done \in BOOLEAN
         /\ side[h].up \in BOOLEAN /\ side[h].ctx \in BOOLEAN
BY DEF SidecarTypeOK, Fields

\* The pids of a Sidecar are none, or the pids of processes.
LEMMA PidsAre ==
  ASSUME SidecarTypeOK, NEW h \in Host
  PROVE  /\ side[h].own # 0 => side[h].own \in Procs /\ side[h].own > 0
         /\ side[h].pid # 0 => side[h].pid \in Procs /\ side[h].pid > 0
         /\ side[h].seen # 0 => side[h].seen \in Procs /\ side[h].seen > 0
<1>1. /\ side[h].pid \in 0..MaxProcs /\ side[h].own \in 0..MaxProcs
      /\ side[h].seen \in 0..MaxProcs
  BY FieldTypes
<1> QED  BY <1>1, SidecarBounds

\* A step that changes only the Sidecar and the threads of one host, and what the file,
\* the processes and the counters are given, keeps the types.
LEMMA TypesFrom ==
  ASSUME SidecarTypeOK, NEW h \in Host,
         side' = side \/ \E v \in Fields : side' = [side EXCEPT ![h] = v],
         main' = main \/ \E m \in MainAt : main' = [main EXCEPT ![h] = m],
         mon' = mon \/ \E m \in MonAt : mon' = [mon EXCEPT ![h] = m],
         file' \in -1..MaxProcs, proc' \in [Procs -> Process],
         lapses' \subseteq {"overlap", "crash", "cancel", "torn"},
         launches' \in 0..MaxLaunches, faults' \in 0..MaxFaults
  PROVE  SidecarTypeOK'
<1>1. side' \in [Host -> Fields]
  BY DEF SidecarTypeOK
<1>2. main' \in [Host -> MainAt] /\ mon' \in [Host -> MonAt]
  BY DEF SidecarTypeOK
<1> QED  BY <1>1, <1>2 DEF SidecarTypeOK

\* What a thread does to where the threads are.
LEMMA AtIs ==
  ASSUME SidecarTypeOK, NEW h \in Host, NEW t, NEW from, NEW to, At(h, t, from, to)
  PROVE  /\ t = "main" => /\ main[h] = from /\ main' = [main EXCEPT ![h] = to] /\ mon' = mon
                          /\ main'[h] = to /\ \A g \in Host : g # h => main'[g] = main[g]
         /\ t = "mon" => /\ mon[h] = from /\ mon' = [mon EXCEPT ![h] = to] /\ main' = main
                         /\ mon'[h] = to /\ \A g \in Host : g # h => mon'[g] = mon[g]
         /\ t \in {"main", "mon"}
BY DEF At, SidecarTypeOK

\* Every step keeps the types.
LEMMA StepTypes == SidecarTypeOK /\ SidecarNext => SidecarTypeOK'
<1> SUFFICES ASSUME SidecarTypeOK, SidecarNext PROVE SidecarTypeOK'
  OBVIOUS
<1> USE SidecarBounds
<1>0. /\ file \in -1..MaxProcs /\ proc \in [Procs -> Process]
      /\ lapses \subseteq {"overlap", "crash", "cancel", "torn"}
      /\ launches \in 0..MaxLaunches /\ faults \in 0..MaxFaults
  BY DEF SidecarTypeOK
<1>1. ASSUME NEW h \in Host, Launch(h) PROVE SidecarTypeOK'
  <2>1. New \in Fields
    BY FieldsAre, FieldTypes
  <2>2. main' = [main EXCEPT ![h] = "read"] /\ mon' = mon
    BY <1>1, AtIs DEF Launch
  <2>3. lapses' \subseteq {"overlap", "crash", "cancel", "torn"} /\ launches' \in 0..MaxLaunches
    BY <1>0, <1>1 DEF Launch
  <2>4. /\ side' = [side EXCEPT ![h] = New]
        /\ file' = file /\ proc' = proc /\ faults' = faults
    BY <1>1 DEF Launch
  <2>5. "read" \in MainAt
    BY DEF MainAt
  <2> QED  BY <1>0, <2>1, <2>2, <2>3, <2>4, <2>5, TypesFrom
<1>2. ASSUME NEW h \in Host, ReadFile(h) PROVE SidecarTypeOK'
  <2>1. [side[h] EXCEPT !.seen = readPID] \in Fields
    <3>1. readPID \in 0..MaxProcs
      BY <1>0 DEF readPID
    <3>2. \A n \in 0..MaxProcs : [side[h] EXCEPT !.seen = n] \in Fields
      BY FieldsAre, FieldTypes
    <3> QED  BY <3>1, <3>2
  <2>2. PICK m \in MainAt : main' = [main EXCEPT ![h] = m] /\ mon' = mon
    BY <1>2, AtIs DEF ReadFile, MainAt
  <2> QED  BY <1>0, <1>2, <2>1, <2>2, TypesFrom DEF ReadFile
<1>3. ASSUME NEW h \in Host, Attach(h) PROVE SidecarTypeOK'
  <2>1. \A n \in 0..MaxProcs : [side[h] EXCEPT !.pid = n, !.own = n, !.up = TRUE] \in Fields
    BY FieldsAre, FieldTypes
  <2> QED  BY <1>0, <1>3, <2>1, FieldTypes, TypesFrom DEF Attach, MainAt, MonAt
<1>4. ASSUME NEW h \in Host, NotWorking(h) PROVE SidecarTypeOK'
  BY <1>4 DEF NotWorking, At, SidecarTypeOK, MainAt
<1>5. ASSUME NEW h \in Host, RemoveStale(h) PROVE SidecarTypeOK'
  BY <1>5 DEF RemoveStale, At, SidecarTypeOK, MainAt
<1>6. ASSUME NEW h \in Host, CheckEndpoint(h) PROVE SidecarTypeOK'
  BY <1>6 DEF CheckEndpoint, At, SidecarTypeOK, MainAt
<1>7. ASSUME NEW h \in Host, Spawn(h) PROVE SidecarTypeOK'
  <2>1. \A n \in 0..MaxProcs : [side[h] EXCEPT !.pid = n, !.own = n, !.cmd = TRUE] \in Fields
    BY FieldsAre, FieldTypes
  <2>2. [NoProc EXCEPT !.stage = "booting", !.parent = h] \in Process
    BY DEF NoProc, Process
  <2>3. proc' \in [Procs -> Process]
    BY <1>0, <1>7, <2>2 DEF Spawn
  <2>4. faults' \in 0..MaxFaults
    <3>1. UNCHANGED faults \/ Fault
      BY <1>7 DEF Spawn
    <3> QED  BY <1>0, <3>1 DEF Fault
  <2>5. PICK m \in MainAt : main' = [main EXCEPT ![h] = m] /\ mon' = mon
    <3>1. \E m \in {"truncate", "failed"} : At(h, "main", "spawn", m)
      BY <1>7 DEF Spawn
    <3> QED  BY <3>1, AtIs DEF MainAt
  <2>6. side' = side \/ \E v \in Fields : side' = [side EXCEPT ![h] = v]
    <3>1. \A n \in Procs : n \in 0..MaxProcs
      OBVIOUS
    <3> QED  BY <1>7, <2>1, <3>1 DEF Spawn
  <2> QED  BY <1>0, <1>7, <2>3, <2>4, <2>5, <2>6, TypesFrom DEF Spawn
<1>8. ASSUME NEW h \in Host, TruncateFile(h) \/ WriteFails(h) PROVE SidecarTypeOK'
  <2>1. CASE TruncateFile(h)
    BY <2>1 DEF TruncateFile, At, Fault, SidecarTypeOK, MainAt
  <2>2. CASE WriteFails(h)
    BY <2>2 DEF WriteFails, At, Fault, SidecarTypeOK, MainAt
  <2> QED  BY <1>8, <2>1, <2>2
<1>9. ASSUME NEW h \in Host, WriteFile(h) PROVE SidecarTypeOK'
  <2>1. lapses' \subseteq {"overlap", "crash", "cancel", "torn"} /\ file' \in -1..MaxProcs
    BY <1>0, <1>9, FieldTypes DEF WriteFile
  <2>2. /\ main' = [main EXCEPT ![h] = "wait"] /\ mon' = [mon EXCEPT ![h] = "watch"]
        /\ side' = side /\ proc' = proc /\ launches' = launches /\ faults' = faults
    BY <1>9 DEF WriteFile
  <2>3. "wait" \in MainAt /\ "watch" \in MonAt
    BY DEF MainAt, MonAt
  <2> QED  BY <1>0, <2>1, <2>2, <2>3, TypesFrom
<1>10. ASSUME NEW h \in Host, WaitUntilReady(h) PROVE SidecarTypeOK'
  <2>1. [side[h] EXCEPT !.up = TRUE] \in Fields
    BY FieldsAre, FieldTypes
  <2>2. PICK m \in MainAt : main' = [main EXCEPT ![h] = m] /\ mon' = mon
    BY <1>10, AtIs DEF WaitUntilReady, MainAt
  <2> QED  BY <1>0, <1>10, <2>1, <2>2, TypesFrom DEF WaitUntilReady
<1>11. ASSUME NEW h \in Host, MonitorExit(h) PROVE SidecarTypeOK'
  <2>1. [side[h] EXCEPT !.pid = 0] \in Fields
    <3>1. \A n \in 0..MaxProcs : [side[h] EXCEPT !.pid = n] \in Fields
      BY FieldsAre, FieldTypes
    <3> QED  BY <3>1
  <2>2. mon' = [mon EXCEPT ![h] = "clean"] /\ main' = main
    BY <1>11, AtIs DEF MonitorExit
  <2>3. proc' \in [Procs -> Process]
    <3>1. CASE ~side[h].cmd
      BY <1>0, <1>11, <3>1 DEF MonitorExit
    <3>2. CASE side[h].cmd
      <4>1. PICK p : p = side[h].own
        OBVIOUS
      <4>2. proc' = [proc EXCEPT ![p] = [@ EXCEPT !.stage = "gone"]]
        BY <1>11, <3>2, <4>1 DEF MonitorExit
      <4> QED  BY <1>0, <4>2, ZenonT(40) DEF Process
    <3> QED  BY <3>1, <3>2
  <2> QED  BY <1>0, <1>11, <2>1, <2>2, <2>3, TypesFrom DEF MonitorExit, MonAt
<1>12. ASSUME NEW h \in Host, NEW t, CleanPID(h, t) PROVE SidecarTypeOK'
  <2>1. [side[h] EXCEPT !.done = TRUE] \in Fields
    BY FieldsAre, FieldTypes
  <2>2. \E m \in MainAt \cap MonAt : \/ main' = [main EXCEPT ![h] = m] /\ mon' = mon
                                     \/ mon' = [mon EXCEPT ![h] = m] /\ main' = main
    BY <1>12, AtIs DEF CleanPID, MainAt, MonAt
  <2>3. side' = side \/ side' = [side EXCEPT ![h] = [@ EXCEPT !.done = TRUE]]
    BY <1>12 DEF CleanPID
  <2>4. /\ file' \in -1..MaxProcs /\ proc' = proc
        /\ UNCHANGED <<lapses, launches, faults>>
    BY <1>0, <1>12 DEF CleanPID
  <2>5. side' = side \/ \E v \in Fields : side' = [side EXCEPT ![h] = v]
    BY <2>1, <2>3
  <2>6. /\ main' = main \/ \E m \in MainAt : main' = [main EXCEPT ![h] = m]
        /\ mon' = mon \/ \E m \in MonAt : mon' = [mon EXCEPT ![h] = m]
    BY <2>2
  <2> QED  BY <1>0, <2>4, <2>5, <2>6, TypesFrom
<1>13. ASSUME NEW h \in Host, CallStop(h) PROVE SidecarTypeOK'
  BY <1>13 DEF CallStop, At, SidecarTypeOK, MainAt
<1>14. ASSUME NEW h \in Host, BeginStop(h) PROVE SidecarTypeOK'
  <2>1. [side[h] EXCEPT !.stopping = TRUE] \in Fields
    BY FieldsAre, FieldTypes
  <2>2. PICK m \in MainAt : main' = [main EXCEPT ![h] = m] /\ mon' = mon
    BY <1>14, AtIs DEF BeginStop, MainAt
  <2>3. proc' \in [Procs -> Process]
    BY <1>0, <1>14, SentTypes, FieldTypes DEF BeginStop
  <2> QED  BY <1>0, <1>14, <2>1, <2>2, <2>3, TypesFrom DEF BeginStop
<1>15. ASSUME NEW h \in Host, Grace(h) PROVE SidecarTypeOK'
  <2>2. PICK m \in MainAt : main' = [main EXCEPT ![h] = m] /\ mon' = mon
    BY <1>15, AtIs DEF Grace, MainAt
  <2>3. proc' \in [Procs -> Process]
    BY <1>0, <1>15, SentTypes, FieldTypes DEF Grace
  <2> QED  BY <1>0, <1>15, <2>2, <2>3, TypesFrom DEF Grace
<1>16. ASSUME NEW h \in Host, Await(h) PROVE SidecarTypeOK'
  BY <1>16 DEF Await, At, SidecarTypeOK, MainAt
<1>17. ASSUME NEW h \in Host, Cancel(h) PROVE SidecarTypeOK'
  <2>1. [side[h] EXCEPT !.ctx = TRUE] \in Fields
    BY FieldsAre, FieldTypes
  <2>3. proc' \in [Procs -> Process]
    BY <1>0, <1>17, SentTypes, FieldTypes DEF Cancel
  <2>4. lapses' \subseteq {"overlap", "crash", "cancel", "torn"} /\ faults' \in 0..MaxFaults
    BY <1>0, <1>17 DEF Cancel, Fault
  <2>5. /\ side' = [side EXCEPT ![h] = [@ EXCEPT !.ctx = TRUE]]
        /\ UNCHANGED <<file, main, mon, launches>>
    BY <1>17 DEF Cancel
  <2> QED  BY <1>0, <2>1, <2>3, <2>4, <2>5, TypesFrom
<1>18. ASSUME NEW h \in Host, HostExits(h) PROVE SidecarTypeOK'
  <2>1. New \in Fields
    BY FieldsAre, FieldTypes
  <2>2. proc' \in [Procs -> Process]
    BY <1>0, <1>18, ZenonT(40) DEF HostExits, Ends, Process
  <2> QED  BY <1>0, <1>18, <2>1, <2>2, TypesFrom DEF HostExits, Ends, MainAt, MonAt
<1>19. ASSUME NEW h \in Host, HostCrashes(h) PROVE SidecarTypeOK'
  <2>1. New \in Fields
    BY FieldsAre, FieldTypes
  <2>2. proc' \in [Procs -> Process]
    BY <1>0, <1>19, ZenonT(40) DEF HostCrashes, Ends, Process
  <2>3. lapses' \subseteq {"overlap", "crash", "cancel", "torn"} /\ faults' \in 0..MaxFaults
    BY <1>0, <1>19 DEF HostCrashes, Fault
  <2>4. /\ side' = [side EXCEPT ![h] = New] /\ UNCHANGED <<file, launches>>
        /\ main' = [main EXCEPT ![h] = "off"] /\ mon' = [mon EXCEPT ![h] = "off"]
    BY <1>19 DEF HostCrashes, Ends
  <2>5. "off" \in MainAt /\ "off" \in MonAt
    BY DEF MainAt, MonAt
  <2> QED  BY <1>0, <2>1, <2>2, <2>3, <2>4, <2>5, TypesFrom
<1>20. ASSUME NEW p \in Procs, Serve(p) PROVE SidecarTypeOK'
  BY <1>20 DEF Serve, SidecarTypeOK, Process
<1>21. ASSUME NEW p \in Procs, Exit(p) PROVE SidecarTypeOK'
  BY <1>21 DEF Exit, Fault, SidecarTypeOK, Process
<1> QED
  BY <1>1, <1>2, <1>3, <1>4, <1>5, <1>6, <1>7, <1>8, <1>9, <1>10, <1>11, <1>12, <1>13,
     <1>14, <1>15, <1>16, <1>17, <1>18, <1>19, <1>20, <1>21
     DEF SidecarNext, StartStep, Monitor, Stop

----------------------------------------------------------------------------
(* What each action does, field by field. *)

\* Nothing changes at another host.
Others(h) ==
    \A g \in Host : g # h => side'[g] = side[g] /\ main'[g] = main[g] /\ mon'[g] = mon[g]

\* What a Sidecar knows of its process, and how far it has got, are left alone.
SameProcess(h) ==
    side'[h].pid = side[h].pid /\ side'[h].own = side[h].own /\ side'[h].cmd = side[h].cmd
SameFlags(h) ==
    /\ side'[h].stopping = side[h].stopping /\ side'[h].done = side[h].done
    /\ side'[h].up = side[h].up
SameRest(h) == side'[h].seen = side[h].seen /\ side'[h].ctx = side[h].ctx

\* A process is spawned once, exits once, and a signal stays sent.
Forward ==
    \A p \in Procs : proc[p].stage # "none" =>
        /\ proc'[p].stage # "none" /\ (Live(p)' => Live(p))
        /\ proc'[p].stage = "booting" => proc[p].stage = "booting"
        /\ proc[p].signal # "none" => proc'[p].signal # "none"

\* No process is spawned.
NoneSpawned == \A p \in Procs : proc[p].stage = "none" => proc'[p].stage = "none"

\* Only the thread that starts and stops the Sidecar has moved.
LEMMA MainMoves ==
  ASSUME SidecarTypeOK, NEW h \in Host, NEW from, NEW to, At(h, "main", from, to), side' = side
  PROVE  /\ Others(h) /\ SameProcess(h) /\ SameFlags(h) /\ SameRest(h)
         /\ main[h] = from /\ main'[h] = to /\ mon'[h] = mon[h]
BY AtIs DEF Others, SameProcess, SameFlags, SameRest

\* Where the processes are left alone, they are as far as they were.
LEMMA SameForward == proc' = proc => Forward /\ NoneSpawned
BY DEF Forward, NoneSpawned, Live

\* Neither does a signal take a process further.
LEMMA SentForward ==
  ASSUME SidecarTypeOK, NEW p, NEW s \in {"term", "kill"}, proc' = Sent(p, s)
  PROVE  Forward /\ NoneSpawned /\ \A q \in Procs : proc'[q].stage = proc[q].stage
<1>1. CASE p \in Procs
  <2>1. \A q \in Procs : /\ proc'[q].stage = proc[q].stage
                         /\ proc[q].signal # "none" => proc'[q].signal # "none"
    BY <1>1, SentIs DEF SidecarTypeOK
  <2> QED  BY <2>1 DEF Forward, NoneSpawned, Live
<1>2. CASE p \notin Procs
  <2>1. proc' = proc
    BY <1>2 DEF Sent, SidecarTypeOK
  <2> QED  BY <2>1, SameForward
<1> QED  BY <1>1, <1>2

\* The fields of a Sidecar after an assignment to some of them.
LEMMA NewFields ==
  ASSUME SidecarTypeOK, NEW h \in Host, NEW v \in Fields, side' = [side EXCEPT ![h] = v]
  PROVE  side'[h] = v /\ \A g \in Host : g # h => side'[g] = side[g]
BY DEF SidecarTypeOK

\* A Sidecar after Launch, and after its host has ended.
LEMMA NewIs ==
  /\ New.pid = 0 /\ New.own = 0 /\ New.seen = 0
  /\ ~New.cmd /\ ~New.stopping /\ ~New.done /\ ~New.up /\ ~New.ctx
BY DEF New

\* Launch: a new Sidecar, at the first step of Start.
LEMMA LaunchIs ==
  ASSUME SidecarTypeOK, NEW h \in Host, Launch(h)
  PROVE  /\ Others(h) /\ main[h] = "off" /\ main'[h] = "read" /\ mon'[h] = mon[h]
         /\ side'[h] = New /\ file' = file /\ proc' = proc /\ lapses \subseteq lapses'
         /\ (\E g \in Host : Starting(g)) => "overlap" \in lapses'
<1>1. At(h, "main", "off", "read")
  BY DEF Launch
<1>2. New \in Fields
  BY FieldsAre, FieldTypes
<1>3. side'[h] = New /\ \A g \in Host : g # h => side'[g] = side[g]
  BY <1>2, NewFields DEF Launch
<1>4. file' = file /\ proc' = proc /\ lapses \subseteq lapses'
  BY DEF Launch
<1>5. (\E g \in Host : Starting(g)) => "overlap" \in lapses'
  BY DEF Launch
<1> QED  BY <1>1, <1>3, <1>4, <1>5, AtIs DEF Others

\* ReadFile: what the file names is remembered.
LEMMA ReadFileIs ==
  ASSUME SidecarTypeOK, NEW h \in Host, ReadFile(h)
  PROVE  /\ Others(h) /\ SameProcess(h) /\ SameFlags(h)
         /\ side'[h].ctx = side[h].ctx /\ side'[h].seen = readPID
         /\ main[h] = "read" /\ main'[h] = (IF isAlive(readPID) THEN "probe" ELSE "remove")
         /\ mon'[h] = mon[h] /\ file' = file /\ proc' = proc /\ lapses' = lapses
<1>1. At(h, "main", "read", IF isAlive(readPID) THEN "probe" ELSE "remove")
  BY DEF ReadFile
<1>2. PICK n : n = readPID
  OBVIOUS
<1>3. side[h] \in Fields /\ side' = [side EXCEPT ![h] = [side[h] EXCEPT !.seen = n]]
  BY <1>2, FieldTypes DEF ReadFile
<1>4. /\ side'[h].seen = n /\ SameProcess(h) /\ SameFlags(h) /\ side'[h].ctx = side[h].ctx
      /\ \A g \in Host : g # h => side'[g] = side[g]
  BY <1>3 DEF SidecarTypeOK, Fields, SameProcess, SameFlags
<1> QED  BY <1>1, <1>2, <1>4, AtIs DEF Others, ReadFile

\* Attach: the Sidecar serves through the process that was found.
LEMMA AttachIs ==
  ASSUME SidecarTypeOK, NEW h \in Host, Attach(h)
  PROVE  /\ Others(h) /\ main[h] = "probe" /\ main'[h] = "up" /\ mon'[h] = "watch"
         /\ side'[h].pid = side[h].seen /\ side'[h].own = side[h].seen /\ side'[h].up
         /\ side'[h].cmd = side[h].cmd /\ side'[h].stopping = side[h].stopping
         /\ side'[h].done = side[h].done /\ SameRest(h)
         /\ file' = file /\ proc' = proc /\ lapses' = lapses
<1>1. PICK n : n = side[h].seen
  OBVIOUS
<1>2. /\ side[h] \in Fields
      /\ side' = [side EXCEPT ![h] = [side[h] EXCEPT !.pid = n, !.own = n, !.up = TRUE]]
  BY <1>1, FieldTypes DEF Attach
<1>3. /\ side'[h].pid = n /\ side'[h].own = n /\ side'[h].up /\ side'[h].cmd = side[h].cmd
      /\ side'[h].stopping = side[h].stopping /\ side'[h].done = side[h].done /\ SameRest(h)
      /\ \A g \in Host : g # h => side'[g] = side[g]
  BY <1>2 DEF SidecarTypeOK, Fields, SameRest
<1>4. /\ main[h] = "probe" /\ main'[h] = "up" /\ mon'[h] = "watch"
      /\ \A g \in Host : g # h => main'[g] = main[g] /\ mon'[g] = mon[g]
  BY DEF Attach, SidecarTypeOK
<1> QED  BY <1>1, <1>3, <1>4 DEF Others, Attach

\* Spawn: it fails, or there is a new process that is booting.
LEMMA SpawnIs ==
  ASSUME SidecarTypeOK, NEW h \in Host, Spawn(h)
  PROVE  /\ Others(h) /\ main[h] = "spawn" /\ mon'[h] = mon[h] /\ SameFlags(h) /\ SameRest(h)
         /\ file' = file /\ lapses' = lapses
         /\ \/ /\ main'[h] = "failed" /\ SameProcess(h) /\ proc' = proc
            \/ \E p \in Procs :
                 /\ ~side[h].ctx /\ main'[h] = "truncate" /\ proc[p].stage = "none"
                 /\ proc'[p].stage = "booting"
                 /\ \A q \in Procs : q # p => proc'[q] = proc[q]
                 /\ side'[h].pid = p /\ side'[h].own = p /\ side'[h].cmd
<1>0. file' = file /\ lapses' = lapses
  BY DEF Spawn
<1>1. CASE side' = side /\ proc' = proc /\ At(h, "main", "spawn", "failed")
  BY <1>0, <1>1, MainMoves
<1>2. ASSUME NEW p \in Procs, ~side[h].ctx, proc[p].stage = "none",
             proc' = [proc EXCEPT ![p] = [NoProc EXCEPT !.stage = "booting", !.parent = h]],
             side' = [side EXCEPT ![h] = [@ EXCEPT !.pid = p, !.own = p, !.cmd = TRUE]],
             At(h, "main", "spawn", "truncate")
      PROVE  /\ Others(h) /\ main[h] = "spawn" /\ mon'[h] = mon[h] /\ SameFlags(h) /\ SameRest(h)
             /\ main'[h] = "truncate" /\ proc'[p].stage = "booting"
             /\ \A q \in Procs : q # p => proc'[q] = proc[q]
             /\ side'[h].pid = p /\ side'[h].own = p /\ side'[h].cmd
  <2>1. proc'[p].stage = "booting" /\ \A q \in Procs : q # p => proc'[q] = proc[q]
    BY <1>2 DEF SidecarTypeOK, NoProc
  <2>2. /\ side'[h].pid = p /\ side'[h].own = p /\ side'[h].cmd /\ SameFlags(h) /\ SameRest(h)
        /\ \A g \in Host : g # h => side'[g] = side[g]
    BY <1>2 DEF SidecarTypeOK, Fields, SameFlags, SameRest
  <2> QED  BY <1>2, <2>1, <2>2, AtIs DEF Others
<1>3. \/ side' = side /\ proc' = proc /\ At(h, "main", "spawn", "failed")
      \/ \E p \in Procs :
           /\ ~side[h].ctx /\ proc[p].stage = "none"
           /\ proc' = [proc EXCEPT ![p] = [NoProc EXCEPT !.stage = "booting", !.parent = h]]
           /\ side' = [side EXCEPT ![h] = [@ EXCEPT !.pid = p, !.own = p, !.cmd = TRUE]]
           /\ At(h, "main", "spawn", "truncate")
  BY DEF Spawn
<1> QED  BY <1>0, <1>1, <1>2, <1>3

\* WriteFile: the file names the process, and monitor() begins.
LEMMA WriteFileIs ==
  ASSUME SidecarTypeOK, NEW h \in Host, WriteFile(h)
  PROVE  /\ Others(h) /\ SameProcess(h) /\ SameFlags(h) /\ SameRest(h)
         /\ main[h] = "write" /\ main'[h] = "wait" /\ mon'[h] = "watch"
         /\ file' = side[h].own /\ proc' = proc /\ lapses \subseteq lapses'
         /\ (\E g \in Host : main[g] = "unlink" \/ mon[g] = "unlink") => "torn" \in lapses'
         /\ lapses' \subseteq lapses \cup {"torn"}
<1>1. /\ main[h] = "write" /\ main'[h] = "wait" /\ mon'[h] = "watch" /\ side' = side
      /\ \A g \in Host : g # h => main'[g] = main[g] /\ mon'[g] = mon[g]
  BY DEF WriteFile, SidecarTypeOK
<1>2. file' = side[h].own /\ proc' = proc /\ lapses \subseteq lapses'
  BY DEF WriteFile
<1>3. (\E g \in Host : main[g] = "unlink" \/ mon[g] = "unlink") => "torn" \in lapses'
  BY DEF WriteFile
<1>4. lapses' \subseteq lapses \cup {"torn"}
  BY DEF WriteFile
<1> QED  BY <1>1, <1>2, <1>3, <1>4 DEF Others, SameProcess, SameFlags, SameRest

\* WaitUntilReady: Start succeeds, or calls Stop.
LEMMA WaitUntilReadyIs ==
  ASSUME SidecarTypeOK, NEW h \in Host, WaitUntilReady(h)
  PROVE  /\ Others(h) /\ SameProcess(h) /\ SameRest(h) /\ main[h] = "wait" /\ mon'[h] = mon[h]
         /\ side'[h].stopping = side[h].stopping /\ side'[h].done = side[h].done
         /\ \/ main'[h] = "up" /\ side'[h].up /\ isAlive(side[h].pid) /\ TCPReady(h)
            \/ main'[h] = "stop" /\ side'[h].up = side[h].up
         /\ file' = file /\ proc' = proc /\ lapses' = lapses
<1>1. CASE /\ isAlive(side[h].pid) /\ TCPReady(h) /\ At(h, "main", "wait", "up")
           /\ side' = [side EXCEPT ![h] = [@ EXCEPT !.up = TRUE]]
  <2>1. /\ side'[h].up /\ SameProcess(h) /\ SameRest(h)
        /\ side'[h].stopping = side[h].stopping /\ side'[h].done = side[h].done
        /\ \A g \in Host : g # h => side'[g] = side[g]
    BY <1>1 DEF SidecarTypeOK, Fields, SameProcess, SameRest
  <2>2. /\ main[h] = "wait" /\ main'[h] = "up" /\ mon'[h] = mon[h]
        /\ \A g \in Host : g # h => main'[g] = main[g] /\ mon'[g] = mon[g]
    BY <1>1, AtIs
  <2>3. file' = file /\ proc' = proc /\ lapses' = lapses
    BY DEF WaitUntilReady
  <2>4. Others(h)
    BY <2>1, <2>2 DEF Others
  <2> QED  BY <1>1, <2>1, <2>2, <2>3, <2>4
<1>2. CASE side' = side /\ At(h, "main", "wait", "stop")
  BY <1>2, MainMoves DEF WaitUntilReady, SameFlags
<1> QED  BY <1>1, <1>2 DEF WaitUntilReady

\* MonitorExit: a child has exited and is waited for, or an attached process is given up.
LEMMA MonitorExitIs ==
  ASSUME SidecarTypeOK, NEW h \in Host, MonitorExit(h)
  PROVE  /\ Others(h) /\ SameFlags(h) /\ SameRest(h) /\ main'[h] = main[h]
         /\ mon[h] = "watch" /\ mon'[h] = "clean"
         /\ side'[h].pid = 0 /\ side'[h].own = side[h].own /\ side'[h].cmd = side[h].cmd
         /\ side[h].cmd => proc[side[h].own].stage = "zombie"
         /\ ~side[h].cmd => side[h].stopping \/ ~isAlive(side[h].own)
         /\ Forward /\ NoneSpawned /\ file' = file /\ lapses' = lapses
<1>1. At(h, "mon", "watch", "clean")
  BY DEF MonitorExit
<1>2. side' = [side EXCEPT ![h] = [@ EXCEPT !.pid = 0]]
  BY DEF MonitorExit
<1>3. /\ side'[h].pid = 0 /\ side'[h].own = side[h].own /\ side'[h].cmd = side[h].cmd
      /\ SameFlags(h) /\ SameRest(h) /\ \A g \in Host : g # h => side'[g] = side[g]
  BY <1>2 DEF SidecarTypeOK, Fields, SameFlags, SameRest
<1>4. /\ side[h].cmd => proc[side[h].own].stage = "zombie"
      /\ ~side[h].cmd => side[h].stopping \/ ~isAlive(side[h].own)
      /\ file' = file /\ lapses' = lapses
  BY DEF MonitorExit
<1>5. Forward /\ NoneSpawned
  <2>1. PICK o : o = side[h].own
    OBVIOUS
  <2>2. CASE ~side[h].cmd
    BY <2>2, SameForward DEF MonitorExit
  <2>3. CASE side[h].cmd
    <3>1. proc' = [proc EXCEPT ![o] = [@ EXCEPT !.stage = "gone"]] /\ proc[o].stage = "zombie"
      BY <2>1, <2>3 DEF MonitorExit
    <3> QED  BY <3>1 DEF SidecarTypeOK, Process, Forward, NoneSpawned, Live
  <2> QED  BY <2>2, <2>3
<1> QED  BY <1>1, <1>3, <1>4, <1>5, AtIs DEF Others

\* CleanPID by Stop.
LEMMA StopCleansIs ==
  ASSUME SidecarTypeOK, NEW h \in Host, CleanPID(h, "main")
  PROVE  /\ Others(h) /\ SameProcess(h) /\ SameFlags(h) /\ SameRest(h) /\ mon'[h] = mon[h]
         /\ \/ IsMine(h) /\ main[h] = "clean" /\ main'[h] = "unlink" /\ file' = file
            \/ main[h] = "clean" /\ main'[h] = "ended" /\ file' = file
            \/ main[h] = "unlink" /\ main'[h] = "ended" /\ file' = 0
         /\ proc' = proc /\ lapses' = lapses
<1>1. side' = side /\ proc' = proc /\ lapses' = lapses
  BY DEF CleanPID
<1> QED  BY <1>1, MainMoves DEF CleanPID

\* CleanPID by monitor(), which then closes doneChan.
LEMMA MonitorCleansIs ==
  ASSUME SidecarTypeOK, NEW h \in Host, CleanPID(h, "mon")
  PROVE  /\ Others(h) /\ SameProcess(h) /\ SameRest(h) /\ main'[h] = main[h]
         /\ side'[h].stopping = side[h].stopping /\ side'[h].up = side[h].up
         /\ \/ /\ IsMine(h) /\ mon[h] = "clean" /\ mon'[h] = "unlink" /\ file' = file
               /\ side'[h].done = side[h].done
            \/ /\ mon[h] = "clean" /\ mon'[h] = "ended" /\ file' = file /\ side'[h].done
            \/ /\ mon[h] = "unlink" /\ mon'[h] = "ended" /\ file' = 0 /\ side'[h].done
         /\ proc' = proc /\ lapses' = lapses
<1>1. proc' = proc /\ lapses' = lapses
  BY DEF CleanPID
<1>2. CASE IsMine(h) /\ At(h, "mon", "clean", "unlink") /\ UNCHANGED <<file, side>>
  BY <1>1, <1>2, AtIs DEF Others, SameProcess, SameRest
<1>3. ASSUME side' = [side EXCEPT ![h] = [@ EXCEPT !.done = TRUE]]
      PROVE  /\ side'[h].done /\ SameProcess(h) /\ SameRest(h)
             /\ side'[h].stopping = side[h].stopping /\ side'[h].up = side[h].up
             /\ \A g \in Host : g # h => side'[g] = side[g]
  BY <1>3 DEF SidecarTypeOK, Fields, SameProcess, SameRest
<1>4. CASE /\ At(h, "mon", "clean", "ended") /\ file' = file
           /\ side' = [side EXCEPT ![h] = [@ EXCEPT !.done = TRUE]]
  <2>1. /\ mon[h] = "clean" /\ mon'[h] = "ended" /\ main'[h] = main[h]
        /\ \A g \in Host : g # h => main'[g] = main[g] /\ mon'[g] = mon[g]
    BY <1>4, AtIs
  <2>2. Others(h)
    BY <1>3, <1>4, <2>1 DEF Others
  <2> QED  BY <1>1, <1>3, <1>4, <2>1, <2>2
<1>5. CASE /\ At(h, "mon", "unlink", "ended") /\ file' = 0
           /\ side' = [side EXCEPT ![h] = [@ EXCEPT !.done = TRUE]]
  <2>1. /\ mon[h] = "unlink" /\ mon'[h] = "ended" /\ main'[h] = main[h]
        /\ \A g \in Host : g # h => main'[g] = main[g] /\ mon'[g] = mon[g]
    BY <1>5, AtIs
  <2>2. Others(h)
    BY <1>3, <1>5, <2>1 DEF Others
  <2> QED  BY <1>1, <1>3, <1>5, <2>1, <2>2
<1> QED  BY <1>2, <1>4, <1>5 DEF CleanPID

\* BeginStop: the process is sent SIGTERM, unless it is known to be gone.
LEMMA BeginStopIs ==
  ASSUME SidecarTypeOK, NEW h \in Host, BeginStop(h), side[h].pid # 0 => side[h].pid = side[h].own
  PROVE  /\ Others(h) /\ SameProcess(h) /\ SameRest(h) /\ main[h] = "stop" /\ mon'[h] = mon[h]
         /\ side'[h].done = side[h].done /\ side'[h].up = side[h].up
         /\ \/ /\ main'[h] = "grace" /\ side'[h].stopping /\ side[h].own # 0
               /\ Live(side[h].own) => proc'[side[h].own].signal # "none"
            \/ /\ main'[h] = "ended" /\ side'[h].stopping = side[h].stopping
               /\ proc' = proc /\ ~isAlive(side[h].pid)
         /\ \A p \in Procs : proc'[p].stage = proc[p].stage
         /\ Forward /\ NoneSpawned /\ file' = file /\ lapses' = lapses
<1>0. file' = file /\ lapses' = lapses
  BY DEF BeginStop
<1>1. CASE ~isAlive(side[h].pid)
  <2>1. At(h, "main", "stop", "ended") /\ side' = side /\ proc' = proc
    BY <1>1 DEF BeginStop
  <2> QED  BY <1>0, <1>1, <2>1, MainMoves, SameForward DEF SameFlags
<1>2. CASE isAlive(side[h].pid)
  <2>1. /\ At(h, "main", "stop", "grace") /\ proc' = Sent(side[h].own, "term")
        /\ side' = [side EXCEPT ![h] = [@ EXCEPT !.stopping = TRUE]]
    BY <1>2 DEF BeginStop
  <2>2. /\ side'[h].stopping /\ SameProcess(h) /\ SameRest(h)
        /\ side'[h].done = side[h].done /\ side'[h].up = side[h].up
        /\ \A g \in Host : g # h => side'[g] = side[g]
    BY <2>1 DEF SidecarTypeOK, Fields, SameProcess, SameRest
  <2>3. PICK o : o = side[h].own
    OBVIOUS
  <2>4. o \in Procs /\ proc' = Sent(o, "term") /\ proc \in [Procs -> Process]
    BY <1>2, <2>1, <2>3, FieldTypes, SidecarBounds DEF isAlive, SidecarTypeOK
  <2>5. /\ \A p \in Procs : /\ proc'[p].stage = proc[p].stage
                            /\ proc[p].signal # "none" => proc'[p].signal # "none"
        /\ Live(o) => proc'[o].signal # "none"
    BY <2>4, SentIs
  <2>6. Forward /\ NoneSpawned
    BY <2>5 DEF Forward, NoneSpawned, Live
  <2>7. /\ main[h] = "stop" /\ main'[h] = "grace" /\ mon'[h] = mon[h]
        /\ \A g \in Host : g # h => main'[g] = main[g] /\ mon'[g] = mon[g]
    BY <2>1, AtIs
  <2>8. Others(h) /\ o # 0
    BY <2>2, <2>4, <2>7 DEF Others
  <2> QED  BY <1>0, <2>2, <2>3, <2>5, <2>6, <2>7, <2>8
<1> QED  BY <1>1, <1>2

\* Grace: a child that is not done is killed.
LEMMA GraceIs ==
  ASSUME SidecarTypeOK, NEW h \in Host, Grace(h)
  PROVE  /\ Others(h) /\ SameProcess(h) /\ SameFlags(h) /\ SameRest(h) /\ mon'[h] = mon[h]
         /\ main[h] = "grace" /\ main'[h] \in {"await", "clean"}
         /\ main'[h] = "clean" => ~side[h].cmd \/ side[h].done
         /\ \A p \in Procs : proc'[p].stage = proc[p].stage
         /\ Forward /\ NoneSpawned /\ file' = file /\ lapses' = lapses
<1>0. file' = file /\ lapses' = lapses /\ side' = side
  BY DEF Grace
<1>1. CASE side[h].cmd /\ ~side[h].done
  <2>1. At(h, "main", "grace", "await") /\ proc' = Sent(side[h].own, "kill")
    BY <1>1 DEF Grace
  <2>2. /\ \A p \in Procs : proc'[p].stage = proc[p].stage
        /\ Forward /\ NoneSpawned
    BY <2>1, SentForward
  <2> QED  BY <1>0, <2>1, <2>2, MainMoves
<1>2. CASE ~(side[h].cmd /\ ~side[h].done)
  <2>1. At(h, "main", "grace", "clean") /\ proc' = proc
    BY <1>2 DEF Grace
  <2> QED  BY <1>0, <1>2, <2>1, MainMoves, SameForward
<1> QED  BY <1>1, <1>2

\* Cancel: the context is cancelled and the child, if there is one, killed.
LEMMA CancelIs ==
  ASSUME SidecarTypeOK, NEW h \in Host, Cancel(h)
  PROVE  /\ Others(h) /\ SameProcess(h) /\ SameFlags(h) /\ main' = main /\ mon' = mon
         /\ side'[h].seen = side[h].seen /\ side'[h].ctx
         /\ \A p \in Procs : proc'[p].stage = proc[p].stage
         /\ Forward /\ NoneSpawned /\ file' = file /\ lapses \subseteq lapses'
         /\ main[h] \in {"read", "probe", "remove"} => "cancel" \in lapses'
<1>1. file' = file /\ main' = main /\ mon' = mon /\ lapses \subseteq lapses'
  BY DEF Cancel
<1>2. main[h] \in {"read", "probe", "remove"} => "cancel" \in lapses'
  BY DEF Cancel
<1>3. side' = [side EXCEPT ![h] = [@ EXCEPT !.ctx = TRUE]]
  BY DEF Cancel
<1>4. /\ side'[h].ctx /\ side'[h].seen = side[h].seen /\ SameProcess(h) /\ SameFlags(h)
      /\ \A g \in Host : g # h => side'[g] = side[g]
  BY <1>3 DEF SidecarTypeOK, Fields, SameProcess, SameFlags
<1>5. proc' = proc \/ proc' = Sent(side[h].own, "kill")
  BY DEF Cancel
<1>6. (\A p \in Procs : proc'[p].stage = proc[p].stage) /\ Forward /\ NoneSpawned
  BY <1>5, SameForward, SentForward
<1>7. Others(h)
  BY <1>1, <1>4 DEF Others
<1> QED  BY <1>1, <1>2, <1>4, <1>6, <1>7

\* The host process ends: its Sidecar and its threads are gone, and its children are
\* init's.
LEMMA EndsIs ==
  ASSUME SidecarTypeOK, NEW h \in Host, Ends(h)
  PROVE  /\ Others(h) /\ side'[h] = New /\ main'[h] = "off" /\ mon'[h] = "off"
         /\ \A p \in Procs : /\ (Live(p)' <=> Live(p)) /\ proc'[p].signal = proc[p].signal
                             /\ proc'[p].stage = "booting" <=> proc[p].stage = "booting"
         /\ Forward /\ NoneSpawned /\ file' = file
<1>1. New \in Fields
  BY FieldsAre, FieldTypes
<1>2. side'[h] = New /\ \A g \in Host : g # h => side'[g] = side[g]
  BY <1>1, NewFields DEF Ends
<1>3. /\ main'[h] = "off" /\ mon'[h] = "off" /\ file' = file
      /\ \A g \in Host : g # h => main'[g] = main[g] /\ mon'[g] = mon[g]
  BY DEF Ends, SidecarTypeOK
<1>4. \A p \in Procs : /\ proc'[p].signal = proc[p].signal
                       /\ \/ proc'[p].stage = proc[p].stage
                          \/ proc[p].stage = "zombie" /\ proc'[p].stage = "gone"
  BY DEF Ends, SidecarTypeOK, Process
<1>5. /\ \A p \in Procs : /\ (Live(p)' <=> Live(p))
                          /\ proc'[p].stage = "booting" <=> proc[p].stage = "booting"
      /\ Forward /\ NoneSpawned
  BY <1>4 DEF Forward, NoneSpawned, Live
<1> QED  BY <1>2, <1>3, <1>4, <1>5 DEF Others

\* Serve and Exit: a process binds its port, or exits.
LEMMA ProcessIs ==
  ASSUME SidecarTypeOK, NEW p \in Procs, Serve(p) \/ Exit(p)
  PROVE  /\ side' = side /\ main' = main /\ mon' = mon /\ file' = file /\ lapses' = lapses
         /\ Forward /\ NoneSpawned /\ \A q \in Procs : proc'[q].signal = proc[q].signal
<1>1. CASE Serve(p)
  BY <1>1 DEF Serve, SidecarTypeOK, Process, Forward, NoneSpawned, Live
<1>2. CASE Exit(p)
  BY <1>2 DEF Exit, SidecarTypeOK, Process, Forward, NoneSpawned, Live
<1> QED  BY <1>1, <1>2

----------------------------------------------------------------------------
(* What the threads of a host have done. *)

\* A step at one host leaves the others as they are.
LEMMA HostsFrom ==
  ASSUME NEW h \in Host, Others(h), \A g \in Host : HostOK(g), HostOK(h)'
  PROVE  \A g \in Host : HostOK(g)'
BY DEF Others, HostOK, Stopping

\* Every step keeps HostOK.
LEMMA StepHosts ==
  ASSUME SidecarTypeOK, \A g \in Host : HostOK(g), SidecarNext
  PROVE  \A g \in Host : HostOK(g)'
<1> USE DEF HostOK, Early, Stopping, SameProcess, SameFlags, SameRest

<1>1. ASSUME NEW h \in Host, Launch(h) PROVE HostOK(h)' /\ Others(h)
  BY <1>1, LaunchIs, NewIs
<1>2. ASSUME NEW h \in Host, ReadFile(h) PROVE HostOK(h)' /\ Others(h)
  BY <1>2, ReadFileIs DEF isAlive
<1>3. ASSUME NEW h \in Host, Attach(h) PROVE HostOK(h)' /\ Others(h)
  BY <1>3, AttachIs
<1>4. ASSUME NEW h \in Host, NotWorking(h) PROVE HostOK(h)' /\ Others(h)
  BY <1>4, MainMoves DEF NotWorking
<1>5. ASSUME NEW h \in Host, RemoveStale(h) PROVE HostOK(h)' /\ Others(h)
  BY <1>5, MainMoves DEF RemoveStale
<1>6. ASSUME NEW h \in Host, CheckEndpoint(h) PROVE HostOK(h)' /\ Others(h)
  BY <1>6, MainMoves DEF CheckEndpoint
<1>7. ASSUME NEW h \in Host, Spawn(h) PROVE HostOK(h)' /\ Others(h)
  BY <1>7, SpawnIs
<1>8. ASSUME NEW h \in Host, TruncateFile(h) \/ WriteFails(h) PROVE HostOK(h)' /\ Others(h)
  BY <1>8, MainMoves DEF TruncateFile, WriteFails
<1>9. ASSUME NEW h \in Host, WriteFile(h) PROVE HostOK(h)' /\ Others(h)
  BY <1>9, WriteFileIs
<1>10. ASSUME NEW h \in Host, WaitUntilReady(h) PROVE HostOK(h)' /\ Others(h)
  BY <1>10, WaitUntilReadyIs
<1>11. ASSUME NEW h \in Host, MonitorExit(h) PROVE HostOK(h)' /\ Others(h)
  BY <1>11, MonitorExitIs
<1>12. ASSUME NEW h \in Host, CleanPID(h, "mon") PROVE HostOK(h)' /\ Others(h)
  BY <1>12, MonitorCleansIs
<1>13. ASSUME NEW h \in Host, CleanPID(h, "main") PROVE HostOK(h)' /\ Others(h)
  BY <1>13, StopCleansIs
<1>14. ASSUME NEW h \in Host, CallStop(h) PROVE HostOK(h)' /\ Others(h)
  BY <1>14, MainMoves DEF CallStop
<1>15. ASSUME NEW h \in Host, BeginStop(h) PROVE HostOK(h)' /\ Others(h)
  BY <1>15, BeginStopIs
<1>16. ASSUME NEW h \in Host, Grace(h) PROVE HostOK(h)' /\ Others(h)
  BY <1>16, GraceIs
<1>17. ASSUME NEW h \in Host, Await(h) PROVE HostOK(h)' /\ Others(h)
  BY <1>17, MainMoves DEF Await
<1>18. ASSUME NEW h \in Host, Cancel(h) PROVE HostOK(h)' /\ Others(h)
  BY <1>18, CancelIs
<1>19. ASSUME NEW h \in Host, HostExits(h) \/ HostCrashes(h) PROVE HostOK(h)' /\ Others(h)
  BY <1>19, EndsIs, NewIs DEF HostExits, HostCrashes
<1>20. ASSUME NEW p \in Procs, Serve(p) \/ Exit(p) PROVE \A g \in Host : HostOK(g)'
  BY <1>20, ProcessIs
<1>21. CASE \E h \in Host : HostOK(h)' /\ Others(h)
  BY <1>21, HostsFrom
<1> HIDE DEF HostOK
<1> QED
  BY <1>1, <1>2, <1>3, <1>4, <1>5, <1>6, <1>7, <1>8, <1>9, <1>10, <1>11, <1>12, <1>13,
     <1>14, <1>15, <1>16, <1>17, <1>18, <1>19, <1>20, <1>21
     DEF SidecarNext, StartStep, Monitor, Stop

----------------------------------------------------------------------------
(* What has become of the processes that the hosts know. *)

\* What a host knows of its processes stays true while they only go forward.
LEMMA ProcKept ==
  ASSUME SidecarTypeOK, NEW g \in Host, HostOK(g), ProcOK(g), Forward,
         side'[g].own = side[g].own, side'[g].cmd = side[g].cmd, side'[g].seen = side[g].seen,
         side'[g].stopping = side[g].stopping, side'[g].pid = side[g].pid, mon'[g] = mon[g]
  PROVE  ProcOK(g)'
<1>1. /\ side[g].own # 0 => side[g].own \in Procs
      /\ side[g].seen # 0 => side[g].seen \in Procs
  BY PidsAre
<1>2. /\ side[g].cmd => side[g].own # 0
      /\ mon[g] # "off" => side[g].own # 0
  BY DEF HostOK
<1>3. PICK o, s : o = side[g].own /\ s = side[g].seen /\ o = side'[g].own /\ s = side'[g].seen
  OBVIOUS
<1>4. /\ s # 0 => proc'[s].stage # "none"
      /\ o # 0 => proc'[o].stage # "none" /\ (Live(o)' => Live(o))
      /\ o # 0 => (proc[o].signal # "none" => proc'[o].signal # "none")
  BY <1>1, <1>3 DEF Forward, ProcOK
<1> QED  BY <1>2, <1>3, <1>4 DEF ProcOK, Doomed, Live

\* Every step keeps ProcOK.
LEMMA StepProcs ==
  ASSUME SidecarTypeOK, \A g \in Host : HostOK(g) /\ ProcOK(g), FileOK, SidecarNext
  PROVE  \A g \in Host : ProcOK(g)'
<1>0. \A h \in Host : Forward /\ Others(h) /\ ProcOK(h)' => \A g \in Host : ProcOK(g)'
  BY ProcKept DEF Others
<1>1. ASSUME NEW h \in Host, Forward, SameProcess(h), SameFlags(h), SameRest(h),
             mon'[h] = mon[h]
      PROVE  ProcOK(h)'
  BY <1>1, ProcKept DEF SameProcess, SameFlags, SameRest
<1> USE DEF SameProcess, SameFlags, SameRest
<1>2. ASSUME NEW h \in Host, Launch(h) PROVE ProcOK(h)' /\ Forward /\ Others(h)
  BY <1>2, LaunchIs, NewIs, SameForward DEF ProcOK, HostOK, Early
<1>3. ASSUME NEW h \in Host, ReadFile(h) PROVE ProcOK(h)' /\ Forward /\ Others(h)
  <2>1. readPID # 0 => proc[readPID].stage # "none"
    BY DEF readPID, FileOK
  <2> QED  BY <1>3, <2>1, ReadFileIs, SameForward DEF ProcOK, Doomed, Live
<1>4. ASSUME NEW h \in Host, Attach(h) PROVE ProcOK(h)' /\ Forward /\ Others(h)
  BY <1>4, AttachIs, SameForward DEF ProcOK, HostOK, Early
<1>5. ASSUME NEW h \in Host, NEW t, At(h, "main", t, main'[h]), side' = side, proc' = proc
      PROVE  ProcOK(h)' /\ Forward /\ Others(h)
  BY <1>1, <1>5, MainMoves, SameForward
<1>6. ASSUME NEW h \in Host, Spawn(h) PROVE ProcOK(h)' /\ Forward /\ Others(h)
  <2>1. CASE proc' = proc /\ SameProcess(h)
    BY <1>1, <1>6, <2>1, SpawnIs, SameForward
  <2>2. CASE ~(proc' = proc /\ SameProcess(h))
    <3>1. PICK p \in Procs :
            /\ proc[p].stage = "none" /\ proc'[p].stage = "booting"
            /\ \A q \in Procs : q # p => proc'[q] = proc[q]
            /\ side'[h].pid = p /\ side'[h].own = p
      BY <1>6, <2>2, SpawnIs
    <3>2. main[h] = "spawn" /\ mon'[h] = "off" /\ ~side'[h].stopping /\ p # 0
      BY <1>6, SpawnIs DEF HostOK, Early
    <3>3. Forward
      BY <3>1 DEF Forward, Live
    <3>4. PICK s : s = side[h].seen /\ s = side'[h].seen
      BY <1>6, SpawnIs
    <3>5. s # 0 => proc'[s].stage # "none"
      BY <3>3, <3>4, PidsAre DEF ProcOK, Forward
    <3> QED  BY <1>6, <3>1, <3>2, <3>3, <3>4, <3>5, SpawnIs DEF ProcOK
  <2> QED  BY <2>1, <2>2
<1>7. ASSUME NEW h \in Host, WriteFile(h) PROVE ProcOK(h)' /\ Forward /\ Others(h)
  BY <1>7, WriteFileIs, SameForward DEF ProcOK, HostOK, Doomed, Live
<1>8. ASSUME NEW h \in Host, WaitUntilReady(h) PROVE ProcOK(h)' /\ Forward /\ Others(h)
  BY <1>8, WaitUntilReadyIs, SameForward, ProcKept
<1>9. ASSUME NEW h \in Host, MonitorExit(h) PROVE ProcOK(h)' /\ Forward /\ Others(h)
  <2>1. PICK o, s : o = side[h].own /\ s = side[h].seen /\ o = side'[h].own /\ s = side'[h].seen
    BY <1>9, MonitorExitIs
  <2>2. o \in Procs /\ (s # 0 => s \in Procs) /\ Forward
    BY <1>9, <2>1, MonitorExitIs, PidsAre DEF HostOK
  <2>3. /\ proc[o].stage # "none" /\ (s # 0 => proc[s].stage # "none")
        /\ side[h].cmd => ~Live(o)
        /\ Doomed(o)
    BY <1>9, <2>1, <2>2, MonitorExitIs DEF ProcOK, Doomed, Live, isAlive
  <2>4. /\ proc'[o].stage # "none" /\ (s # 0 => proc'[s].stage # "none")
        /\ side[h].cmd => ~Live(o)'
        /\ Doomed(o)'
    BY <2>2, <2>3 DEF Forward, Doomed
  <2> QED  BY <1>9, <2>1, <2>2, <2>4, MonitorExitIs DEF ProcOK, Doomed, Live
<1>10. ASSUME NEW h \in Host, CleanPID(h, "mon") PROVE ProcOK(h)' /\ Forward /\ Others(h)
  BY <1>10, MonitorCleansIs, SameForward DEF ProcOK, Doomed, Live
<1>11. ASSUME NEW h \in Host, CleanPID(h, "main") PROVE ProcOK(h)' /\ Forward /\ Others(h)
  BY <1>1, <1>11, StopCleansIs, SameForward
<1>12. ASSUME NEW h \in Host, BeginStop(h) PROVE ProcOK(h)' /\ Forward /\ Others(h)
  <2>0. side[h].pid # 0 => side[h].pid = side[h].own
    BY DEF HostOK
  <2>1. Forward /\ Others(h)
    BY <1>12, <2>0, BeginStopIs
  <2>2. CASE side'[h].stopping = side[h].stopping
    BY <1>12, <2>0, <2>1, <2>2, BeginStopIs, ProcKept
  <2>3. CASE side'[h].stopping # side[h].stopping
    <3>1. PICK o, s : /\ o = side[h].own /\ s = side[h].seen
                      /\ o = side'[h].own /\ s = side'[h].seen
      BY <1>12, <2>0, BeginStopIs
    <3>2. /\ o # 0 /\ (Live(o) => proc'[o].signal # "none")
          /\ side'[h].cmd = side[h].cmd /\ side'[h].pid = side[h].pid /\ mon'[h] = mon[h]
      BY <1>12, <2>0, <2>3, <3>1, BeginStopIs, ZenonT(40)
    <3>3. o \in Procs /\ (s # 0 => s \in Procs)
      BY <3>1, <3>2, PidsAre
    <3>4. /\ proc'[o].stage # "none" /\ (s # 0 => proc'[s].stage # "none")
          /\ (Live(o)' => Live(o)) /\ Doomed(o)'
      BY <2>1, <3>1, <3>2, <3>3 DEF Forward, ProcOK, Doomed
    <3> QED  BY <2>1, <3>1, <3>2, <3>4 DEF ProcOK, Doomed, Live
  <2> QED  BY <2>2, <2>3
<1>13. ASSUME NEW h \in Host, Grace(h) PROVE ProcOK(h)' /\ Forward /\ Others(h)
  BY <1>1, <1>13, GraceIs
<1>14. ASSUME NEW h \in Host, Cancel(h) PROVE ProcOK(h)' /\ Forward /\ Others(h)
  BY <1>14, CancelIs, ProcKept
<1>15. ASSUME NEW h \in Host, Ends(h) PROVE ProcOK(h)' /\ Forward /\ Others(h)
  BY <1>15, EndsIs, NewIs DEF ProcOK
<1>16. ASSUME NEW p \in Procs, Serve(p) \/ Exit(p) PROVE \A g \in Host : ProcOK(g)'
  BY <1>16, ProcessIs, ProcKept
<1>17. CASE \E h \in Host : ProcOK(h)' /\ Forward /\ Others(h)
  BY <1>0, <1>17
<1>18. ASSUME NEW h \in Host,
              \/ NotWorking(h) \/ RemoveStale(h) \/ CheckEndpoint(h) \/ TruncateFile(h)
              \/ WriteFails(h) \/ CallStop(h) \/ Await(h)
       PROVE  \E t : At(h, "main", t, main'[h]) /\ side' = side /\ proc' = proc
  BY <1>18, AtIs
     DEF NotWorking, RemoveStale, CheckEndpoint, TruncateFile, WriteFails, CallStop, Await
<1>19. ASSUME NEW h \in Host, HostExits(h) \/ HostCrashes(h) PROVE Ends(h)
  BY <1>19 DEF HostExits, HostCrashes
<1> QED
  BY <1>2, <1>3, <1>4, <1>5, <1>6, <1>7, <1>8, <1>9, <1>10, <1>11, <1>12, <1>13,
     <1>14, <1>15, <1>16, <1>17, <1>18, <1>19
     DEF SidecarNext, StartStep, Monitor, Stop

\* The file names a process that was spawned.
LEMMA StepFile ==
  ASSUME SidecarTypeOK, \A g \in Host : HostOK(g) /\ ProcOK(g), FileOK, SidecarNext, Forward
  PROVE  FileOK'
<1>1. file' = file \/ file' \in {0, -1} \/ \E h \in Host : file' = side[h].own /\ side[h].own # 0
  <2>1. ASSUME NEW h \in Host, WriteFile(h) PROVE file' = side[h].own /\ side[h].own # 0
    BY <2>1, WriteFileIs DEF HostOK
  <2> QED
    BY <2>1, ZenonT(40)
           DEF SidecarNext, StartStep, Monitor, Stop, Launch, ReadFile, Attach, NotWorking,
                RemoveStale, CheckEndpoint, Spawn, TruncateFile, WriteFails, WaitUntilReady,
                MonitorExit, CleanPID, CallStop, BeginStop, Grace, Await, Cancel, HostExits, HostCrashes,
                Ends, Serve, Exit
<1>2. file > 0 => file \in Procs
  BY SidecarBounds DEF SidecarTypeOK
<1>3. CASE file' = file
  BY <1>2, <1>3 DEF FileOK, Forward
<1>4. CASE file' \in {0, -1}
  BY <1>4 DEF FileOK
<1>5. ASSUME NEW h \in Host, file' = side[h].own, side[h].own # 0 PROVE FileOK'
  BY <1>5, PidsAre DEF FileOK, Forward, ProcOK
<1> QED  BY <1>1, <1>3, <1>4, <1>5

----------------------------------------------------------------------------
(* One process. *)

\* A step at this host that starts nothing: it neither begins nor gets to the spawning
\* of a process, and a host that is starting is left so as long as its process boots.
Quiet(h) ==
    /\ Others(h) /\ Forward /\ NoneSpawned
    /\ Starting(h)' => Starting(h)
    /\ side'[h].cmd => side[h].cmd /\ side'[h].own = side[h].own
    /\ main'[h] = "spawn" /\ ~side'[h].ctx => main[h] = "spawn" /\ ~side[h].ctx
    /\ Starting(h) /\ side[h].cmd /\ proc'[side[h].own].stage = "booting" =>
         Starting(h)' /\ side'[h].cmd

\* The windows that a behaviour has entered are remembered.
LEMMA LapsesGrow == SidecarNext => lapses \subseteq lapses'
BY DEF SidecarNext, StartStep, Monitor, Stop, Launch, ReadFile, Attach, NotWorking,
       RemoveStale, CheckEndpoint, Spawn, TruncateFile, WriteFile, WriteFails, WaitUntilReady,
       MonitorExit, CleanPID, CallStop, BeginStop, Grace, Await, Cancel, HostExits, HostCrashes, Ends,
       Serve, Exit

\* Where the fields of a Sidecar and the processes stay, a move of its main thread is
\* quiet if it neither begins nor leaves Start and does not get to the spawning.
LEMMA QuietMove ==
  ASSUME NEW h \in Host, Others(h), Forward, NoneSpawned, SameProcess(h), SameRest(h),
         Starting(h)' <=> Starting(h), main'[h] = "spawn" => main[h] = "spawn"
  PROVE  Quiet(h)
BY DEF Quiet, SameProcess, SameRest

\* All steps of a host are quiet but the three that begin a Start, get to the spawning
\* of a process, and spawn it.
LEMMA StepQuiet ==
  ASSUME SidecarTypeOK, \A g \in Host : HostOK(g) /\ ProcOK(g), OneOK, Calm', NEW h \in Host,
         \/ ReadFile(h) \/ Attach(h) \/ NotWorking(h) \/ RemoveStale(h) \/ TruncateFile(h)
         \/ WriteFile(h) \/ WriteFails(h) \/ WaitUntilReady(h) \/ Monitor(h) \/ CallStop(h) \/ Stop(h)
         \/ Cancel(h) \/ HostExits(h) \/ HostCrashes(h)
  PROVE  Quiet(h)
<1> USE DEF SameProcess, SameFlags, SameRest, Starting, Stopping
<1>0. HostOK(h) /\ ProcOK(h)
  OBVIOUS
<1>1. CASE ReadFile(h)
  BY <1>1, ReadFileIs, SameForward DEF Quiet
<1>2. CASE Attach(h)
  BY <1>0, <1>2, AttachIs, SameForward DEF Quiet, HostOK, Early
<1>3. CASE NotWorking(h)
  BY <1>3, MainMoves, SameForward, QuietMove DEF NotWorking
<1>4. CASE RemoveStale(h)
  BY <1>4, MainMoves, SameForward, QuietMove DEF RemoveStale
<1>5. CASE TruncateFile(h) \/ WriteFails(h)
  <2>1. side' = side /\ proc' = proc
    BY <1>5 DEF TruncateFile, WriteFails
  <2>2. \/ At(h, "main", "truncate", "write") \/ At(h, "main", "truncate", "stop")
        \/ At(h, "main", "write", "stop")
    BY <1>5 DEF TruncateFile, WriteFails
  <2>3. main[h] \in {"truncate", "write"} /\ main'[h] \in {"write", "stop"} /\ Others(h)
    BY <2>1, <2>2, MainMoves
  <2> QED  BY <1>0, <2>1, <2>3, SameForward, QuietMove DEF HostOK
<1>6. CASE WriteFile(h)
  BY <1>6, WriteFileIs, SameForward, QuietMove
<1>7. CASE WaitUntilReady(h)
  <2>1. /\ Others(h) /\ main[h] = "wait" /\ proc' = proc /\ SameProcess(h) /\ SameRest(h)
        /\ side[h].cmd /\ ~side[h].up
    BY <1>0, <1>7, WaitUntilReadyIs DEF HostOK
  <2>2. CASE main'[h] = "stop"
    <3>1. ~side'[h].up
      BY <1>7, <2>1, <2>2, WaitUntilReadyIs
    <3> QED  BY <2>1, <2>2, <3>1, SameForward, QuietMove
  <2>3. CASE main'[h] = "up"
    <3>1. TCPReady(h) /\ lapses' = lapses
      BY <1>7, <2>3, WaitUntilReadyIs
    <3>2. Calm
      BY <3>1 DEF Calm
    <3>3. PICK p \in Procs : proc[p].stage = "serving"
      BY <3>1 DEF TCPReady
    <3>4. p = side[h].own
      BY <2>1, <3>2, <3>3 DEF OneOK, Live
    <3>5. proc'[side[h].own].stage # "booting"
      BY <2>1, <3>3, <3>4
    <3> QED  BY <2>1, <2>3, <3>5, SameForward DEF Quiet
  <2> QED  BY <1>7, <2>2, <2>3, WaitUntilReadyIs
<1>8. CASE MonitorExit(h)
  BY <1>8, MonitorExitIs DEF Quiet
<1>9. CASE CleanPID(h, "mon")
  BY <1>9, MonitorCleansIs, SameForward, QuietMove
<1>10. CASE CallStop(h)
  BY <1>0, <1>10, MainMoves, SameForward, QuietMove DEF CallStop, HostOK
<1>11. CASE BeginStop(h)
  <2>0. side[h].pid # 0 => side[h].pid = side[h].own
    BY <1>0 DEF HostOK
  <2>1. CASE main'[h] = "grace"
    BY <1>11, <2>0, <2>1, BeginStopIs, QuietMove
  <2>2. CASE main'[h] = "ended"
    <3>1. ~isAlive(side[h].pid) /\ proc' = proc
      BY <1>11, <2>0, <2>2, BeginStopIs
    <3>2. side[h].cmd => proc[side[h].own].stage # "booting"
      BY <1>0, <2>0, <3>1, PidsAre DEF isAlive, ProcOK, Live
    <3> QED  BY <1>11, <2>0, <2>2, <3>1, <3>2, BeginStopIs DEF Quiet
  <2> QED  BY <1>11, <2>0, <2>1, <2>2, BeginStopIs
<1>12. CASE Grace(h)
  BY <1>12, GraceIs, QuietMove
<1>13. CASE Await(h)
  BY <1>13, MainMoves, SameForward, QuietMove DEF Await
<1>14. CASE CleanPID(h, "main")
  <2>1. side[h].cmd => proc[side[h].own].stage # "booting"
    BY <1>0, <1>14, StopCleansIs DEF HostOK, ProcOK, Live
  <2> QED  BY <1>14, <2>1, StopCleansIs, SameForward DEF Quiet
<1>15. CASE Cancel(h)
  BY <1>15, CancelIs DEF Quiet
<1>16. CASE HostExits(h)
  <2>1. Ends(h) /\ ~Starting(h)
    BY <1>16 DEF HostExits
  <2> QED  BY <2>1, EndsIs, NewIs DEF Quiet
<1>17. CASE HostCrashes(h)
  <2>1. Ends(h) /\ (Starting(h) => "crash" \in lapses')
    BY <1>17 DEF HostCrashes
  <2>2. ~Starting(h)
    BY <2>1 DEF Calm
  <2> QED  BY <2>1, <2>2, EndsIs, NewIs DEF Quiet
<1> QED
  BY <1>1, <1>2, <1>3, <1>4, <1>5, <1>6, <1>7, <1>8, <1>9, <1>10, <1>11, <1>12, <1>13, <1>14,
     <1>15, <1>16, <1>17 DEF Monitor, Stop

\* Every step is one of a process, a quiet one, or one of those three.
LEMMA StepKinds ==
  ASSUME SidecarTypeOK, \A g \in Host : HostOK(g) /\ ProcOK(g), OneOK, SidecarNext, Calm'
  PROVE  \/ \E h \in Host : Quiet(h) \/ Launch(h) \/ CheckEndpoint(h) \/ Spawn(h)
         \/ \E p \in Procs : Serve(p) \/ Exit(p)
BY StepQuiet DEF SidecarNext, StartStep

\* A quiet step keeps OneOK.
LEMMA QuietOne ==
  ASSUME SidecarTypeOK, \A g \in Host : HostOK(g) /\ ProcOK(g), OneOK, Calm,
         NEW h \in Host, Quiet(h)
  PROVE  OneOK'
<1>1. \A g \in Host : /\ Starting(g)' => Starting(g)
                      /\ side'[g].cmd => side[g].cmd /\ side'[g].own = side[g].own
                      /\ main'[g] = "spawn" /\ ~side'[g].ctx => main[g] = "spawn" /\ ~side[g].ctx
                      /\ Starting(g) /\ side[g].cmd /\ proc'[side[g].own].stage = "booting" =>
                           Starting(g)' /\ side'[g].cmd
  BY DEF Quiet, Others, Starting, Stopping
<1>2. \A p \in Procs : /\ Live(p)' => Live(p)
                       /\ proc'[p].stage = "booting" => proc[p].stage = "booting"
  BY DEF Quiet, Forward, NoneSpawned, Live
<1>3. \A f, g \in Host : Starting(f)' /\ Starting(g)' => f = g
  BY <1>1 DEF OneOK
<1>4. ASSUME NEW g \in Host, Starting(g)', side'[g].cmd, NEW p \in Procs, Live(p)'
      PROVE  p = side'[g].own
  BY <1>1, <1>2, <1>4 DEF OneOK
<1>5. ASSUME NEW g \in Host, main'[g] = "spawn", ~side'[g].ctx, NEW p \in Procs PROVE ~Live(p)'
  BY <1>1, <1>2, <1>5 DEF OneOK
<1>6. ASSUME NEW p \in Procs, proc'[p].stage = "booting"
      PROVE  \E g \in Host : Starting(g)' /\ side'[g].cmd /\ side'[g].own = p
  <2>1. PICK g \in Host : Starting(g) /\ side[g].cmd /\ side[g].own = p
    BY <1>2, <1>6 DEF OneOK
  <2> QED  BY <1>1, <1>6, <2>1
<1>7. \A p, q \in Procs : Live(p)' /\ Live(q)' => p = q
  BY <1>2 DEF OneOK
<1> QED  BY <1>3, <1>4, <1>5, <1>6, <1>7 DEF OneOK

\* Every step keeps OneOK.
LEMMA StepOne ==
  ASSUME SidecarTypeOK, \A g \in Host : HostOK(g) /\ ProcOK(g), OneOK, SidecarNext
  PROVE  OneOK'
<1> SUFFICES ASSUME Calm' PROVE OneOK'
  BY DEF OneOK
<1>0. Calm
  BY LapsesGrow DEF Calm
<1>1. ASSUME NEW h \in Host, Quiet(h) PROVE OneOK'
  BY <1>0, <1>1, QuietOne
<1>2. ASSUME NEW h \in Host, Launch(h) PROVE OneOK'
  <2>1. /\ Others(h) /\ main'[h] = "read" /\ side'[h] = New /\ proc' = proc
        /\ \A g \in Host : ~Starting(g)
    BY <1>2, LaunchIs DEF Calm
  <2>2. \A g \in Host : Starting(g)' => g = h
    BY <2>1 DEF Others, Starting, Stopping
  <2>3. \A p \in Procs : proc[p].stage # "booting" /\ (Live(p)' <=> Live(p))
    BY <1>0, <2>1 DEF OneOK, Live
  <2>4. \A g \in Host : ~(main'[g] = "spawn")
    BY <2>1 DEF Others, Starting
  <2>5. ~side'[h].cmd
    BY <2>1, NewIs
  <2>6. \A p, q \in Procs : Live(p)' /\ Live(q)' => p = q
    BY <1>0, <2>3 DEF OneOK
  <2> QED  BY <2>1, <2>2, <2>3, <2>4, <2>5, <2>6 DEF OneOK
<1>3. ASSUME NEW h \in Host, CheckEndpoint(h) PROVE OneOK'
  <2>1. /\ Others(h) /\ SameProcess(h) /\ SameFlags(h) /\ SameRest(h) /\ proc' = proc
        /\ main[h] = "check" /\ main'[h] = (IF TCPReady(h) THEN "failed" ELSE "spawn")
    BY <1>3, MainMoves DEF CheckEndpoint
  <2>2. CASE TCPReady(h)
    <3>1. Quiet(h)
      BY <2>1, <2>2, SameForward DEF Quiet, SameProcess, SameRest, Starting, Stopping, HostOK,
                                     Early
    <3> QED  BY <1>1, <3>1
  <2>3. CASE ~TCPReady(h)
    <3>1. Starting(h) /\ ~side[h].cmd
      BY <2>1 DEF Starting, HostOK, Early
    <3>2. \A p \in Procs : proc[p].stage # "booting"
      <4> SUFFICES ASSUME NEW p \in Procs, proc[p].stage = "booting" PROVE FALSE
        OBVIOUS
      <4>1. PICK g \in Host : Starting(g) /\ side[g].cmd
        BY <1>0 DEF OneOK
      <4> QED  BY <1>0, <3>1, <4>1 DEF OneOK
    <3>3. ~side[h].ctx => \A p \in Procs : ~Live(p)
      BY <2>3, <3>2 DEF TCPReady, Live
    <3>4. /\ \A g \in Host : /\ Starting(g)' <=> Starting(g)
                             /\ side'[g].cmd = side[g].cmd /\ side'[g].own = side[g].own
                             /\ side'[g].ctx = side[g].ctx
          /\ \A g \in Host : g # h => main'[g] = main[g]
      BY <2>1, <2>3, <3>1 DEF Others, Starting, Stopping, SameProcess, SameFlags, SameRest
    <3>5. \A p \in Procs : (Live(p)' <=> Live(p)) /\ proc'[p] = proc[p]
      BY <2>1 DEF Live
    <3>6. \A g \in Host : main'[g] = "spawn" /\ ~side'[g].ctx => \A p \in Procs : ~Live(p)'
      BY <1>0, <3>3, <3>4, <3>5 DEF OneOK
    <3> QED  BY <1>0, <3>4, <3>5, <3>6 DEF OneOK
  <2> QED  BY <2>2, <2>3
<1>4. ASSUME NEW h \in Host, Spawn(h) PROVE OneOK'
  <2>0. /\ Others(h) /\ main[h] = "spawn" /\ SameFlags(h) /\ SameRest(h) /\ Starting(h)
        /\ ~side[h].cmd
    BY <1>4, SpawnIs DEF HostOK, Early, Starting
  <2>1. CASE main'[h] = "failed"
    <3>1. SameProcess(h) /\ proc' = proc
      BY <1>4, <2>1, SpawnIs
    <3>2. Quiet(h)
      BY <2>0, <2>1, <3>1, SameForward DEF Quiet, SameProcess, SameRest, Starting, Stopping
    <3> QED  BY <1>1, <3>2
  <2>2. CASE main'[h] # "failed"
    <3>1. PICK p \in Procs :
            /\ ~side[h].ctx /\ main'[h] = "truncate" /\ proc[p].stage = "none"
            /\ proc'[p].stage = "booting"
            /\ \A q \in Procs : q # p => proc'[q] = proc[q]
            /\ side'[h].own = p /\ side'[h].cmd
      BY <1>4, <2>2, SpawnIs
    <3>2. \A q \in Procs : ~Live(q)
      BY <1>0, <2>0, <3>1 DEF OneOK
    <3>3. \A q \in Procs : Live(q)' => q = p
      BY <3>1, <3>2 DEF Live
    <3>4. \A g \in Host : Starting(g)' <=> g = h
      <4>1. \A g \in Host : Starting(g) => g = h
        BY <1>0, <2>0 DEF OneOK
      <4> QED  BY <2>0, <3>1, <4>1 DEF Others, Starting, Stopping
    <3>5. \A g \in Host : main'[g] # "spawn"
      BY <3>1, <3>4 DEF Starting
    <3>6. \A q \in Procs : proc'[q].stage = "booting" => Live(q)'
      BY DEF Live
    <3> QED  BY <3>1, <3>3, <3>4, <3>5, <3>6 DEF OneOK
  <2> QED  BY <2>1, <2>2
<1>5. ASSUME NEW p \in Procs, Serve(p) \/ Exit(p) PROVE OneOK'
  <2>1. side' = side /\ main' = main /\ Forward /\ NoneSpawned
    BY <1>5, ProcessIs
  <2>2. \A q \in Procs : /\ Live(q)' => Live(q)
                         /\ proc'[q].stage = "booting" => proc[q].stage = "booting"
    BY <2>1 DEF Forward, NoneSpawned, Live
  <2>3. \A g \in Host : Starting(g)' <=> Starting(g)
    BY <2>1 DEF Starting, Stopping
  <2> QED  BY <1>0, <2>1, <2>2, <2>3 DEF OneOK
<1> QED  BY <1>1, <1>2, <1>3, <1>4, <1>5, StepKinds

\* A process that was spawned is never spawned again, nor comes back.
LEMMA StepForward ==
  ASSUME SidecarTypeOK, \A g \in Host : HostOK(g), SidecarNext
  PROVE  Forward
<1>1. ASSUME NEW h \in Host, Spawn(h) PROVE Forward
  <2>1. CASE proc' = proc
    BY <2>1, SameForward
  <2>2. CASE proc' # proc
    <3>1. PICK p \in Procs : /\ proc[p].stage = "none"
                             /\ \A q \in Procs : q # p => proc'[q] = proc[q]
      BY <1>1, <2>2, SpawnIs
    <3> QED  BY <3>1 DEF Forward, Live
  <2> QED  BY <2>1, <2>2
<1>2. ASSUME NEW h \in Host, BeginStop(h) PROVE Forward
  BY <1>2, BeginStopIs DEF HostOK
<1>3. ASSUME NEW h \in Host, MonitorExit(h) \/ Grace(h) \/ Cancel(h) PROVE Forward
  BY <1>3, MonitorExitIs, GraceIs, CancelIs
<1>4. ASSUME NEW h \in Host, HostExits(h) \/ HostCrashes(h) PROVE Forward
  BY <1>4, EndsIs DEF HostExits, HostCrashes
<1>5. ASSUME NEW p \in Procs, Serve(p) \/ Exit(p) PROVE Forward
  BY <1>5, ProcessIs
<1>6. ASSUME NEW h \in Host,
             \/ Launch(h) \/ ReadFile(h) \/ Attach(h) \/ NotWorking(h) \/ RemoveStale(h)
             \/ CheckEndpoint(h) \/ TruncateFile(h) \/ WriteFile(h) \/ WriteFails(h)
             \/ WaitUntilReady(h) \/ CleanPID(h, "mon") \/ CleanPID(h, "main") \/ CallStop(h) \/ Await(h)
      PROVE  Forward
  BY <1>6, SameForward
     DEF Launch, ReadFile, Attach, NotWorking, RemoveStale, CheckEndpoint, TruncateFile, WriteFile,
         WriteFails, WaitUntilReady, CleanPID, CallStop, Await
<1> QED
  BY <1>1, <1>2, <1>3, <1>4, <1>5, <1>6 DEF SidecarNext, StartStep, Monitor, Stop

\* A host has a child that it had before, or that it has just spawned.
LEMMA StepChild ==
  ASSUME SidecarTypeOK, \A g \in Host : HostOK(g), SidecarNext, NEW g \in Host, side'[g].cmd
  PROVE  \/ side[g].cmd /\ side'[g].own = side[g].own
         \/ Spawn(g) /\ main[g] = "spawn" /\ main'[g] = "truncate"
<1> USE DEF SameProcess
<1>1. ASSUME NEW h \in Host, Others(h), SameProcess(h)
      PROVE  side[g].cmd /\ side'[g].own = side[g].own
  BY <1>1 DEF Others
<1>2. ASSUME NEW h \in Host, Others(h), ~side'[h].cmd
      PROVE  side[g].cmd /\ side'[g].own = side[g].own
  BY <1>2 DEF Others
<1>3. ASSUME NEW h \in Host, Launch(h) \/ HostExits(h) \/ HostCrashes(h)
      PROVE  Others(h) /\ ~side'[h].cmd
  BY <1>3, LaunchIs, EndsIs, NewIs DEF HostExits, HostCrashes
<1>4. ASSUME NEW h \in Host, Attach(h) PROVE Others(h) /\ ~side'[h].cmd
  BY <1>4, AttachIs DEF HostOK, Early
<1>5. ASSUME NEW h \in Host, BeginStop(h) PROVE Others(h) /\ SameProcess(h)
  BY <1>5, BeginStopIs DEF HostOK
<1>6. ASSUME NEW h \in Host,
             \/ ReadFile(h) \/ WriteFile(h) \/ WaitUntilReady(h) \/ Grace(h) \/ Cancel(h)
             \/ CleanPID(h, "mon") \/ CleanPID(h, "main")
      PROVE  Others(h) /\ SameProcess(h)
  BY <1>6, ReadFileIs, WriteFileIs, WaitUntilReadyIs, GraceIs, CancelIs, StopCleansIs,
     MonitorCleansIs
<1>7. ASSUME NEW h \in Host,
             \/ NotWorking(h) \/ RemoveStale(h) \/ CheckEndpoint(h) \/ TruncateFile(h)
             \/ WriteFails(h) \/ CallStop(h) \/ Await(h)
      PROVE  Others(h) /\ SameProcess(h)
  BY <1>7, MainMoves
     DEF NotWorking, RemoveStale, CheckEndpoint, TruncateFile, WriteFails, CallStop, Await
<1>8. ASSUME NEW h \in Host, MonitorExit(h) PROVE side[g].cmd /\ side'[g].own = side[g].own
  BY <1>8, MonitorExitIs DEF Others
<1>9. ASSUME NEW h \in Host, Spawn(h)
      PROVE  \/ side[g].cmd /\ side'[g].own = side[g].own
             \/ h = g /\ main[g] = "spawn" /\ main'[g] = "truncate"
  BY <1>9, SpawnIs DEF Others
<1>10. ASSUME NEW p \in Procs, Serve(p) \/ Exit(p)
       PROVE  side[g].cmd /\ side'[g].own = side[g].own
  BY <1>10, ProcessIs
<1> HIDE DEF SameProcess
<1> QED
  BY <1>1, <1>2, <1>3, <1>4, <1>5, <1>6, <1>7, <1>8, <1>9, <1>10
     DEF SidecarNext, StartStep, Monitor, Stop

\* Every step keeps ParentOK.
LEMMA StepParent ==
  ASSUME SidecarTypeOK, \A g \in Host : HostOK(g) /\ ProcOK(g), ParentOK, SidecarNext
  PROVE  ParentOK'
<1> SUFFICES ASSUME NEW g \in Host, NEW h \in Host, side'[g].cmd, side'[h].cmd,
                    side'[g].own = side'[h].own, g # h
             PROVE  FALSE
  BY DEF ParentOK
<1>1. ASSUME NEW a \in Host, NEW b \in Host, a # b, Spawn(a), main'[a] = "truncate",
             side[b].cmd, side'[b].own = side[b].own, side'[a].own = side'[b].own
      PROVE  FALSE
  <2>1. PICK p \in Procs : proc[p].stage = "none" /\ side'[a].own = p
    BY <1>1, SpawnIs
  <2>2. side[b].own = p /\ side[b].own # 0
    BY <1>1, <2>1 DEF HostOK
  <2> QED  BY <2>1, <2>2 DEF ProcOK
<1>2. ~(Spawn(g) /\ main'[g] = "truncate" /\ main[h] = "spawn" /\ main'[h] = "truncate")
  BY SpawnIs DEF Others
<1> QED  BY <1>1, <1>2, StepChild DEF ParentOK

----------------------------------------------------------------------------
(* The PID file. *)

\* Where the main thread of a host can come from, for the places that matter.
LEMMA StepMain ==
  ASSUME SidecarTypeOK, \A g \in Host : HostOK(g), SidecarNext, NEW g \in Host
  PROVE  /\ main'[g] \in {"wait", "up"} => main[g] \in {"wait", "up"} \/ WriteFile(g) \/ Attach(g)
         /\ main'[g] \in {"remove", "probe"} /\ main'[g] # main[g] => ReadFile(g) \/ NotWorking(g)
         /\ main'[g] \in {"check", "spawn", "truncate", "write"} =>
              main[g] \in {"remove", "check", "spawn", "truncate", "write"}
         /\ main'[g] = "unlink" /\ main[g] # "unlink" => CleanPID(g, "main") /\ main[g] = "clean"
         /\ mon'[g] = "unlink" /\ mon[g] # "unlink" => CleanPID(g, "mon") /\ mon[g] = "clean"
         /\ side'[g].seen # side[g].seen => ReadFile(g) \/ main'[g] \in {"read", "off"}
         /\ main'[g] \in {"read", "probe", "remove"} /\ side'[g].ctx =>
              main[g] \in {"read", "probe", "remove"} /\ (side[g].ctx \/ "cancel" \in lapses')
<1> USE DEF SameRest
<1>1. ASSUME NEW h \in Host, Launch(h) \/ HostExits(h) \/ HostCrashes(h)
      PROVE  /\ Others(h) /\ main'[h] \in {"read", "off"} /\ mon'[h] \in {"off", mon[h]}
             /\ ~side'[h].ctx
  BY <1>1, LaunchIs, EndsIs, NewIs DEF HostExits, HostCrashes
<1>2. ASSUME NEW h \in Host, ReadFile(h)
      PROVE  /\ Others(h) /\ main'[h] \in {"probe", "remove"} /\ mon'[h] = mon[h]
             /\ main[h] = "read" /\ side'[h].ctx = side[h].ctx
  BY <1>2, ReadFileIs
<1>3. ASSUME NEW h \in Host, Attach(h)
      PROVE  Others(h) /\ main'[h] = "up" /\ mon'[h] = "watch" /\ SameRest(h)
  BY <1>3, AttachIs
<1>4. ASSUME NEW h \in Host, NotWorking(h)
      PROVE  /\ Others(h) /\ main[h] = "probe" /\ main'[h] = "remove" /\ mon'[h] = mon[h]
             /\ SameRest(h)
  BY <1>4, MainMoves DEF NotWorking
<1>5. ASSUME NEW h \in Host,
             RemoveStale(h) \/ CheckEndpoint(h) \/ TruncateFile(h) \/ WriteFails(h)
      PROVE  /\ Others(h) /\ main[h] \in {"remove", "check", "truncate", "write"}
             /\ mon'[h] = mon[h]
             /\ SameRest(h) /\ main'[h] \in {"check", "spawn", "failed", "write", "stop"}
  BY <1>5, MainMoves DEF RemoveStale, CheckEndpoint, TruncateFile, WriteFails
<1>6. ASSUME NEW h \in Host, Spawn(h)
      PROVE  /\ Others(h) /\ main[h] = "spawn" /\ mon'[h] = mon[h] /\ SameRest(h)
             /\ main'[h] \in {"truncate", "failed"}
  BY <1>6, SpawnIs
<1>7. ASSUME NEW h \in Host, WriteFile(h)
      PROVE  Others(h) /\ main'[h] = "wait" /\ mon'[h] = "watch" /\ SameRest(h)
  BY <1>7, WriteFileIs
<1>8. ASSUME NEW h \in Host, WaitUntilReady(h)
      PROVE  /\ Others(h) /\ main[h] = "wait" /\ main'[h] \in {"up", "stop"} /\ mon'[h] = mon[h]
             /\ SameRest(h)
  BY <1>8, WaitUntilReadyIs
<1>9. ASSUME NEW h \in Host, MonitorExit(h)
      PROVE  Others(h) /\ main'[h] = main[h] /\ mon'[h] = "clean" /\ SameRest(h)
  BY <1>9, MonitorExitIs
<1>10. ASSUME NEW h \in Host, CleanPID(h, "mon")
       PROVE  /\ Others(h) /\ main'[h] = main[h] /\ SameRest(h) /\ mon[h] \in {"clean", "unlink"}
              /\ mon'[h] = "unlink" => mon[h] = "clean"
  BY <1>10, MonitorCleansIs
<1>11. ASSUME NEW h \in Host, CleanPID(h, "main")
       PROVE  /\ Others(h) /\ mon'[h] = mon[h] /\ SameRest(h) /\ main[h] \in {"clean", "unlink"}
              /\ main'[h] \in {"unlink", "ended"} /\ (main'[h] = "unlink" => main[h] = "clean")
  BY <1>11, StopCleansIs
<1>12. ASSUME NEW h \in Host, CallStop(h) \/ Await(h)
       PROVE  /\ Others(h) /\ main'[h] \in {"stop", "clean"} /\ mon'[h] = mon[h] /\ SameRest(h)
  BY <1>12, MainMoves DEF CallStop, Await
<1>13. ASSUME NEW h \in Host, BeginStop(h) \/ Grace(h)
       PROVE  /\ Others(h) /\ main'[h] \in {"grace", "ended", "await", "clean"}
              /\ mon'[h] = mon[h] /\ SameRest(h)
  BY <1>13, BeginStopIs, GraceIs DEF HostOK
<1>14. ASSUME NEW h \in Host, Cancel(h)
       PROVE  /\ Others(h) /\ main'[h] = main[h] /\ mon'[h] = mon[h]
              /\ side'[h].seen = side[h].seen
              /\ main[h] \in {"read", "probe", "remove"} => "cancel" \in lapses'
  BY <1>14, CancelIs
<1>15. ASSUME NEW p \in Procs, Serve(p) \/ Exit(p)
       PROVE  side' = side /\ main' = main /\ mon' = mon
  BY <1>15, ProcessIs
<1>16. CASE side'[g] = side[g] /\ main'[g] = main[g] /\ mon'[g] = mon[g]
  BY <1>16
<1>17. ASSUME NEW h \in Host, Others(h), h # g
       PROVE  side'[g] = side[g] /\ main'[g] = main[g] /\ mon'[g] = mon[g]
  BY <1>17 DEF Others
<1>18. CASE Launch(g) \/ HostExits(g) \/ HostCrashes(g)
  BY <1>1, <1>18
<1>19. CASE ReadFile(g) \/ Attach(g) \/ NotWorking(g)
  BY <1>2, <1>3, <1>4, <1>19
<1>20. CASE RemoveStale(g) \/ CheckEndpoint(g) \/ TruncateFile(g) \/ WriteFails(g) \/ Spawn(g)
  BY <1>5, <1>6, <1>20
<1>21. CASE WriteFile(g) \/ WaitUntilReady(g) \/ MonitorExit(g)
  BY <1>7, <1>8, <1>9, <1>21
<1>22. CASE CleanPID(g, "mon") \/ CleanPID(g, "main")
  BY <1>10, <1>11, <1>22
<1>23. CASE CallStop(g) \/ Await(g) \/ BeginStop(g) \/ Grace(g) \/ Cancel(g)
  BY <1>12, <1>13, <1>14, <1>23
<1>24. \/ \E h \in Host :
            \/ Launch(h) \/ HostExits(h) \/ HostCrashes(h) \/ ReadFile(h) \/ Attach(h)
            \/ NotWorking(h) \/ RemoveStale(h) \/ CheckEndpoint(h) \/ TruncateFile(h) \/ Spawn(h)
            \/ WriteFile(h) \/ WriteFails(h) \/ WaitUntilReady(h) \/ MonitorExit(h)
            \/ CleanPID(h, "mon") \/ CleanPID(h, "main") \/ CallStop(h) \/ Await(h) \/ BeginStop(h) \/ Grace(h)
            \/ Cancel(h)
       \/ \E p \in Procs : Serve(p) \/ Exit(p)
  BY DEF SidecarNext, StartStep, Monitor, Stop
<1>25. CASE \E p \in Procs : Serve(p) \/ Exit(p)
  BY <1>15, <1>16, <1>25
<1> QED
  BY <1>1, <1>2, <1>3, <1>4, <1>5, <1>6, <1>7, <1>8, <1>9, <1>10, <1>11, <1>12, <1>13, <1>14,
     <1>16, <1>17, <1>18, <1>19, <1>20, <1>21, <1>22, <1>23, <1>24, <1>25

\* A process that its host has written to the file was named before, or is by this step.
LEMMA NamedFrom ==
  ASSUME SidecarTypeOK, \A g \in Host : HostOK(g) /\ ProcOK(g), SidecarNext,
         NEW h \in Host, Named(h)'
  PROVE  side'[h].own = side[h].own /\ side[h].cmd /\ (Named(h) \/ WriteFile(h))
<1>1. side'[h].cmd /\ main'[h] \in {"wait", "up"}
  BY DEF Named
<1>2. side[h].cmd /\ side'[h].own = side[h].own
  BY <1>1, StepChild
<1>3. PICK o \in Procs : o = side[h].own /\ o = side'[h].own /\ proc[o].stage # "none"
  BY <1>2, PidsAre DEF HostOK, ProcOK
<1>4. Live(o)' /\ proc'[o].signal = "none"
  BY <1>3 DEF Named, Live
<1>5. Live(o) /\ proc[o].signal = "none"
  BY <1>3, <1>4, StepForward DEF Forward
<1>6. ~Attach(h)
  BY <1>2, AttachIs DEF HostOK, Early
<1>7. main[h] \in {"wait", "up"} \/ WriteFile(h)
  BY <1>1, <1>6, StepMain
<1> QED  BY <1>2, <1>3, <1>5, <1>7 DEF Named

\* Who changes the file.
LEMMA StepFileBy ==
  ASSUME SidecarTypeOK, SidecarNext, file' # file
  PROVE  \E g \in Host : \/ main[g] \in {"remove", "truncate", "write", "unlink"}
                         \/ mon[g] = "unlink"
<1>1. ASSUME NEW h \in Host, RemoveStale(h) \/ TruncateFile(h)
      PROVE  main[h] \in {"remove", "truncate"}
  BY <1>1, AtIs DEF RemoveStale, TruncateFile
<1>2. ASSUME NEW h \in Host, WriteFile(h) PROVE main[h] = "write"
  BY <1>2 DEF WriteFile
<1>3. ASSUME NEW h \in Host, CleanPID(h, "main") PROVE main[h] = "unlink"
  BY <1>3, StopCleansIs
<1>4. ASSUME NEW h \in Host, CleanPID(h, "mon") PROVE mon[h] = "unlink"
  BY <1>4, MonitorCleansIs
<1> QED
  BY <1>1, <1>2, <1>3, <1>4
     DEF SidecarNext, StartStep, Monitor, Stop, Launch, ReadFile, Attach, NotWorking,
         CheckEndpoint, Spawn, WriteFails, WaitUntilReady, MonitorExit, CallStop, BeginStop, Grace,
         Await, Cancel, HostExits, HostCrashes, Ends, Serve, Exit

\* No thread gets to where it would replace or remove the file while a process that
\* nobody stops is named by it.
LEMMA StaysUnharmed ==
  ASSUME SidecarTypeOK, \A g \in Host : HostOK(g) /\ ProcOK(g), ParentOK, OneOK, NamedOK,
         SidecarNext, lapses' = {}, NEW h \in Host, Named(h), Named(h)', NEW g \in Host
  PROVE  Unharmed(g, side[h].own)'
<1>0. lapses = {} /\ Calm
  BY LapsesGrow DEF Calm
<1>1. file = side[h].own /\ Unharmed(g, side[h].own)
  BY <1>0 DEF NamedOK
<1>2. PICK o \in Procs : o = side[h].own /\ o > 0
  BY PidsAre DEF Named, HostOK
<1>3. Live(o) /\ proc[o].signal = "none" /\ ~Doomed(o)
  BY <1>2 DEF Named, Doomed
<1>4. main'[g] # "remove"
  <2>1. ~(ReadFile(g) /\ main'[g] = "remove")
    BY <1>1, <1>2, <1>3, ReadFileIs DEF readPID, isAlive
  <2>2. ~NotWorking(g)
    <3> SUFFICES ASSUME NotWorking(g) PROVE FALSE
      OBVIOUS
    <3>1. main[g] = "probe" /\ ~TCPReady(g)
      BY AtIs DEF NotWorking
    <3>2. ~side[g].ctx
      BY <1>0, <3>1 DEF NamedOK
    <3>3. proc[o].stage = "booting"
      BY <1>3, <3>1, <3>2 DEF TCPReady, Live
    <3>4. PICK f \in Host : Starting(f) /\ side[f].cmd /\ side[f].own = o
      BY <1>0, <3>3 DEF OneOK
    <3>5. f = h
      BY <1>2, <3>4 DEF ParentOK, Named
    <3>6. Starting(g) /\ ~side[g].cmd
      BY <3>1 DEF Starting, HostOK, Early
    <3>7. f = g
      BY <1>0, <3>4, <3>6 DEF OneOK
    <3> QED  BY <3>4, <3>6, <3>7
  <2> QED  BY <1>1, <2>1, <2>2, StepMain DEF Unharmed
<1>5. main'[g] \notin {"check", "spawn", "truncate", "write"}
  BY <1>1, StepMain DEF Unharmed
<1>6. main'[g] # "unlink"
  <2> SUFFICES ASSUME main'[g] = "unlink" PROVE FALSE
    OBVIOUS
  <2>1. CleanPID(g, "main") /\ main[g] = "clean"
    BY <1>1, StepMain DEF Unharmed
  <2>2. IsMine(g) /\ side[g].stopping
    BY <2>1, StopCleansIs DEF HostOK
  <2>3. side[g].own = o
    BY <1>1, <1>2, <2>2 DEF IsMine, readPID
  <2> QED  BY <1>3, <2>2, <2>3 DEF ProcOK
<1>7. mon'[g] # "unlink"
  <2> SUFFICES ASSUME mon'[g] = "unlink" PROVE FALSE
    OBVIOUS
  <2>1. CleanPID(g, "mon") /\ mon[g] = "clean"
    BY <1>1, StepMain DEF Unharmed
  <2>2. IsMine(g)
    BY <2>1, MonitorCleansIs
  <2>3. side[g].own = o
    BY <1>1, <1>2, <2>2 DEF IsMine, readPID
  <2> QED  BY <1>3, <2>1, <2>3 DEF ProcOK
<1>8. main'[g] = "probe" => side'[g].seen = o
  <2> SUFFICES ASSUME main'[g] = "probe" PROVE side'[g].seen = o
    OBVIOUS
  <2>1. CASE ReadFile(g)
    BY <1>1, <1>2, <2>1, ReadFileIs DEF readPID
  <2>2. CASE ~ReadFile(g)
    <3>1. ~NotWorking(g)
      BY AtIs DEF NotWorking
    <3>2. main[g] = "probe" /\ side'[g].seen = side[g].seen
      BY <2>2, <3>1, StepMain
    <3> QED  BY <1>1, <1>2, <3>2 DEF Unharmed
  <2> QED  BY <2>1, <2>2
<1>9. side'[h].own = o
  BY <1>2, NamedFrom
<1> QED  BY <1>4, <1>5, <1>6, <1>7, <1>8, <1>9 DEF Unharmed

\* Every step keeps NamedOK.
LEMMA StepNamed ==
  ASSUME SidecarTypeOK, \A g \in Host : HostOK(g) /\ ProcOK(g), ParentOK, OneOK, NamedOK,
         SidecarNext
  PROVE  NamedOK'
<1> SUFFICES ASSUME lapses' = {} PROVE NamedOK'
  BY DEF NamedOK
<1>0. lapses = {} /\ Calm
  BY LapsesGrow DEF Calm
<1>1. \A h \in Host : main'[h] \in {"read", "probe", "remove"} => ~side'[h].ctx
  BY <1>0, StepMain DEF NamedOK
<1>2. ASSUME NEW h \in Host, Named(h)', Named(h)
      PROVE  file' = side'[h].own /\ \A g \in Host : Unharmed(g, side[h].own)'
  <2>1. \A g \in Host : Unharmed(g, side[h].own)'
    BY <1>2, StaysUnharmed
  <2>2. file' = file
    BY <1>0, <1>2, StepFileBy DEF NamedOK, Unharmed
  <2> QED  BY <1>0, <1>2, <2>1, <2>2, NamedFrom DEF NamedOK
<1>3. ASSUME NEW h \in Host, Named(h)', WriteFile(h)
      PROVE  file' = side'[h].own /\ \A g \in Host : Unharmed(g, side[h].own)'
  <2>1. /\ Others(h) /\ SameProcess(h) /\ main[h] = "write" /\ main'[h] = "wait"
        /\ mon'[h] = "watch" /\ file' = side[h].own
    BY <1>3, WriteFileIs
  <2>2. \A g \in Host : main[g] # "unlink" /\ mon[g] # "unlink"
    BY <1>3, WriteFileIs
  <2>3. \A g \in Host : g # h => ~Starting(g)
    BY <1>0, <2>1 DEF OneOK, Starting
  <2>4. \A g \in Host : g # h => main[g] \notin {"remove", "check", "spawn", "truncate", "write",
                                                 "unlink", "probe"}
    BY <2>2, <2>3 DEF Starting
  <2>5. \A g \in Host : /\ main'[g] \notin {"remove", "check", "spawn", "truncate", "write",
                                            "unlink", "probe"}
                        /\ mon'[g] # "unlink"
    BY <2>1, <2>2, <2>4 DEF Others
  <2> QED  BY <2>1, <2>5 DEF SameProcess, Unharmed
<1>4. ASSUME NEW h \in Host, Named(h)'
      PROVE  file' = side'[h].own /\ \A g \in Host : Unharmed(g, side[h].own)'
  BY <1>2, <1>3, <1>4, NamedFrom
<1> QED  BY <1>1, <1>4 DEF NamedOK

----------------------------------------------------------------------------
(* The invariants. *)

\* The initial states satisfy the invariant.
LEMMA InitInv == SidecarInit => IInv
<1> SUFFICES ASSUME SidecarInit PROVE IInv
  OBVIOUS
<1>1. SidecarTypeOK
  BY InitTypes
<1>2. \A h \in Host : side[h] = New /\ main[h] = "off" /\ mon[h] = "off"
  BY DEF SidecarInit
<1>3. \A h \in Host : HostOK(h) /\ ProcOK(h) /\ ~Starting(h) /\ ~Named(h)
  BY <1>2, NewIs DEF HostOK, ProcOK, Early, Starting, Stopping, Named
<1>4. PICK left \in Leftover :
        file = left[1] /\ proc = [p \in Procs |-> IF p = 1 THEN left[2] ELSE NoProc]
  BY DEF SidecarInit
<1>5. \/ left[1] = 0 /\ left[2].stage \in {"none", "serving"}
      \/ left[1] = 1 /\ left[2].stage \in {"gone", "serving"}
  <2> DEFINE gone == [NoProc EXCEPT !.stage = "gone"]
             left1 == [NoProc EXCEPT !.stage = "serving"]
             left2 == [NoProc EXCEPT !.stage = "serving", !.signal = "term"]
  <2>1. /\ NoProc.stage = "none" /\ gone.stage = "gone" /\ left1.stage = "serving"
        /\ left2.stage = "serving"
    BY DEF NoProc
  <2>2. left \in {<<0, NoProc>>, <<1, gone>>, <<1, left1>>, <<0, left2>>}
    BY <1>4 DEF Leftover
  <2> HIDE DEF gone, left1, left2
  <2> QED  BY <2>1, <2>2
<1>6. \A p \in Procs : proc[p].stage # "booting" /\ (Live(p) => p = 1)
  BY <1>4, <1>5 DEF NoProc, Live
<1>7. FileOK
  BY <1>4, <1>5, SidecarBounds DEF FileOK
<1>8. ParentOK
  BY <1>2, NewIs DEF ParentOK
<1>9. OneOK
  BY <1>2, <1>3, <1>6 DEF OneOK
<1>10. NamedOK
  BY <1>2, <1>3 DEF NamedOK
<1> QED  BY <1>1, <1>3, <1>7, <1>8, <1>9, <1>10 DEF IInv

\* Every step keeps the invariant.
LEMMA StepInv == IInv /\ [SidecarNext]_sidecarVars => IInv'
<1>1. ASSUME IInv, SidecarNext PROVE IInv'
  <2>1. SidecarTypeOK' /\ (\A h \in Host : HostOK(h)') /\ (\A h \in Host : ProcOK(h)')
    BY <1>1, StepTypes, StepHosts, StepProcs DEF IInv
  <2>2. FileOK' /\ ParentOK'
    BY <1>1, StepFile, StepForward, StepParent DEF IInv
  <2>3. OneOK' /\ NamedOK'
    BY <1>1, StepOne, StepNamed DEF IInv
  <2> QED  BY <2>1, <2>2, <2>3 DEF IInv
<1>2. ASSUME IInv, UNCHANGED sidecarVars PROVE IInv'
  BY <1>2 DEF IInv, sidecarVars, SidecarTypeOK, HostOK, ProcOK, FileOK, ParentOK, OneOK, NamedOK,
              Calm, Stopping, Starting, Live, Doomed, Named, Unharmed
<1> QED  BY <1>1, <1>2

\* The invariant implies what a reader wants to know.
LEMMA InvImplies == IInv => OneServer /\ NamedWhileServing
<1> SUFFICES ASSUME IInv PROVE OneServer /\ NamedWhileServing
  OBVIOUS
<1>1. OneServer
  <2> SUFFICES ASSUME Calm PROVE Cardinality({p \in Procs : Live(p)}) <= 1
    BY DEF OneServer, Calm
  <2> DEFINE live == {p \in Procs : Live(p)}
  <2>1. \A p, q \in live : p = q
    BY DEF IInv, OneOK
  <2>2. CASE live = {}
    BY <2>2, FS_EmptySet
  <2>3. ASSUME NEW p \in live PROVE Cardinality(live) = 1
    <3>1. live = {p}
      BY <2>1, <2>3
    <3> HIDE DEF live
    <3> QED  BY <3>1, FS_Singleton
  <2> HIDE DEF live
  <2>4. Cardinality(live) \in {0, 1}
    BY <2>2, <2>3, FS_EmptySet
  <2> QED  BY <2>4 DEF live
<1>2. NamedWhileServing
  BY DEF NamedWhileServing, IInv, NamedOK, Named, Live
<1> QED  BY <1>1, <1>2

\* The lifecycle keeps the invariant, whatever the hosts and the processes do.
THEOREM SidecarInvariance == SidecarSpec => []IInv
BY InitInv, StepInv, PTL DEF SidecarSpec
=============================================================================
