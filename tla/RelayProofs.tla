---------------------------- MODULE RelayProofs ----------------------------
(***************************************************************************)
(* Theorems about Relay, for every set of agents and of listings and any     *)
(* number of moves and faults: the types, the agreement of the session-wide   *)
(* order with each conversation's own, and the teardown.                     *)
(***************************************************************************)
EXTENDS Relay, SequenceTheorems, WellFoundedInduction, TLAPS

-----------------------------------------------------------------------------
(***************************************************************************)
(* The inductive invariant.                                                 *)
(***************************************************************************)
HasInput(a) == \E i \in DOMAIN log[a] : log[a][i].kind = "input"

\* An input has a StepID and is for an agent, and what is logged besides was
\* said by one.
EntryOK(kind, env) ==
    /\ kind = "input" => env.step # 0 /\ env.to \in Agent
    /\ kind \in {"output", "marker"} => env.from \in Agent

\* A turn's input is logged before anything else of it.
LogOK ==
    \A a \in Agent : \A i \in DOMAIN log[a] :
        /\ EntryOK(log[a][i].kind, log[a][i].env)
        /\ log[a][i].kind \in {"output", "done"} => HasInput(a)

\* What the two Appends are about to insert.
WriterOK ==
    /\ \A w \in Writer : wr[w].pc # "idle" => EntryOK(wr[w].kind, wr[w].env)
    /\ wr["marker"].pc # "idle" => wr["marker"].kind = "marker"
    /\ wr["driver"].pc # "idle" =>
           /\ At("logging") /\ wr["driver"].conv = d.conv /\ wr["driver"].kind # "marker"
           /\ wr["driver"].kind # "input" => HasInput(d.conv)

DriverOK ==
    /\ d.pc \in {"run", "commit"} => HasInput(d.conv)
    /\ d.pc = "commit" => d.out.from \in Agent
    /\ d.inputs => d.msg.step # 0 /\ d.msg.to \in Agent

\* A runtime that has answered a turn remembers an answer of its own.
RuntimeOK == \A a \in Agent : rt[a].last # 0 => rt[a].out.from \in Agent

\* An Append that has read its numbers exceeds every event before its step.
NumbersOK ==
    \A w \in Writer :
        /\ wr[w].pc \in {"session", "insert"} => wr[w].step <= Len(log[wr[w].conv]) + 1
        /\ wr[w].pc = "insert" =>
               \A i \in DOMAIN log[wr[w].conv] :
                   i < wr[w].step => log[wr[w].conv][i].ss < wr[w].ss

\* From the deletion of the actors on, nothing dispatches a turn any more, until
\* the session is continued.
TeardownOK ==
    /\ At("terminate") => actors \cap Dispatched \subseteq left
    /\ sess = "TERMINATED" /\ ~d.revived =>
           /\ actors \cap Dispatched \subseteq left
           /\ d.pc \in {"rest", "down", "cleanup", "terminate"}

Shape == TypeOK /\ LogOK /\ WriterOK /\ DriverOK /\ RuntimeOK
IInv == Shape /\ NumbersOK /\ OrderOfRecord /\ TeardownOK
-----------------------------------------------------------------------------
(***************************************************************************)
(* Lemmas about the operators.                                              *)
(***************************************************************************)
\* Max of a set of positions, which the logger's scans for the newest event of
\* a kind come down to, is one of them.
LEMMA MaxIsMember ==
    ASSUME NEW n \in Nat, NEW S, S \subseteq 1..n, S # {}
    PROVE  Max(S) \in S
<1> DEFINE T == {k \in 0..n : n - k \in S}
<1>1. T \subseteq Nat /\ T # {}
  <2>1. PICK x \in S : x \in 1..n
    OBVIOUS
  <2>2. n - x \in 0..n /\ n - (n - x) = x
    BY <2>1
  <2>3. n - x \in T
    BY <2>1, <2>2
  <2>4. \A k \in T : k \in Nat
    OBVIOUS
  <2> QED BY <2>3, <2>4
<1>2. PICK k \in T : \A l \in T : ~(<<l, k>> \in OpToRel(<, Nat))
  <2> HIDE DEF T
  <2> QED BY <1>1, NatLessThanWellFounded, WFMin
<1>3. \A l \in T : ~(l < k)
  <2> HIDE DEF T
  <2> QED BY <1>1, <1>2 DEF OpToRel
<1>4. k \in 0..n /\ n - k \in S
  OBVIOUS
<1>5. \A y \in S : n - k >= y
  <2> SUFFICES ASSUME NEW y \in S PROVE n - k >= y
    OBVIOUS
  <2>1. n - y \in 0..n /\ n - (n - y) = y
    OBVIOUS
  <2>2. n - y \in T
    BY <2>1
  <2>3. ~(n - y < k)
    BY <1>3, <2>2
  <2> QED BY <1>4, <2>1, <2>3
<1> QED BY <1>4, <1>5 DEF Max

\* What an invocation hands out is an envelope from its own agent, and it
\* blocks an invocation of that agent or none.
LEMMA HandsOut ==
    ASSUME NEW a \in Agent, NEW inv \in Invocation,
           NEW y \in Returns(a, inv) \cup Suspends(a, inv)
    PROVE  y.env \in Envelope /\ y.env.from = a /\ y.blocked \subseteq Invocation
<1>1. CASE y \in Returns(a, inv)
  <2>1. PICK x \in Results(inv) : y = runInvocation(a, inv, x)
    BY <1>1 DEF Returns
  <2>2. x \in Data
    BY <2>1 DEF Results, Data, TaskData
  <2> QED BY <2>1, <2>2 DEF runInvocation, Envelope, Invocation
<1>2. CASE \E t \in Agent : y = SendMessage(a, inv, t)
  BY <1>2 DEF SendMessage, Envelope, Invocation, Data
<1>3. CASE y = flushSelf(a, inv)
  BY <1>3 DEF flushSelf, Envelope, Invocation, Data, TaskData
<1> QED BY <1>1, <1>2, <1>3 DEF Suspends

\* The invocation that a turn is for is one.
LEMMA Delivered ==
    ASSUME NEW a \in Agent, NEW r \in RuntimeState, NEW env \in Envelope, NEW history,
           NEW inv \in deliverOnce(a, r, env, history)
    PROVE  inv \in Invocation
<1>1. CASE env.reply
  <2>1. PICK w \in r.waiting : inv = [w EXCEPT !.step = env.step]
    BY <1>1 DEF deliverOnce
  <2>2. w \in Invocation /\ env.step \in Nat
    BY <2>1 DEF RuntimeState, Envelope
  <2> QED BY <2>1, <2>2 DEF Invocation
<1>2. CASE ~env.reply
  <2>1. inv = spawn(a, env, history)
    BY <1>2 DEF deliverOnce
  <2>2. Stored(a, history) \in BOOLEAN
    BY Zenon DEF Stored
  <2> QED BY <2>1, <2>2 DEF spawn, Invocation, Envelope
<1> QED BY <1>1, <1>2

\* A turn leaves the runtime in a state of its type, with an answer that comes
\* from an agent, even if it only repeats the last one.
LEMMA ConnectTyped ==
    ASSUME NEW a \in Agent, NEW r \in RuntimeState, NEW env \in Envelope,
           NEW history, NEW maySuspend,
           NEW new \in Connect(a, r, env, history, maySuspend),
           env.step # 0, r.last # 0 => r.out.from \in Agent
    PROVE  new \in RuntimeState /\ new.out.from \in Agent
<1>1. CASE new = r /\ env.step = r.last
  BY <1>1
<1>2. CASE ~(new = r /\ env.step = r.last)
  <2>1. PICK inv \in deliverOnce(a, r, env, history) :
            \E y \in Returns(a, inv) \cup Suspends(a, inv) : new = routeOrAwait(r, env, y)
    BY <1>2 DEF Connect
  <2>2. inv \in Invocation
    BY <2>1, Delivered
  <2>3. PICK y \in Returns(a, inv) \cup Suspends(a, inv) : new = routeOrAwait(r, env, y)
    BY <2>1
  <2>4. y.env \in Envelope /\ y.env.from = a /\ y.blocked \subseteq Invocation
    BY <2>2, HandsOut
  <2>5. [y.env EXCEPT !.step = env.step] \in Envelope
    BY <2>4 DEF Envelope
  <2>6. [y.env EXCEPT !.step = env.step].from = a
    BY <2>4 DEF Envelope
  <2>7. env.step \in Nat
    BY DEF Envelope
  <2>8. r.waiting \subseteq Invocation
    BY DEF RuntimeState
  <2> QED BY <2>3, <2>4, <2>5, <2>6, <2>7, <2>8 DEF routeOrAwait, RuntimeState
<1> QED BY <1>1, <1>2

\* A place in the log is an agent and a position, and holds an event.
LEMMA PlaceTyped ==
    ASSUME TypeOK, NEW p \in Places
    PROVE  /\ p[1] \in Agent /\ p[2] \in DOMAIN log[p[1]]
           /\ EventAt(p) \in Event
<1>1. PICK a \in Agent : \E i \in DOMAIN log[a] : p = <<a, i>>
  BY DEF Places
<1>2. PICK i \in DOMAIN log[a] : p = <<a, i>>
  BY <1>1
<1>3. log[a] \in Seq(Event)
  BY DEF TypeOK
<1>4. log[a][i] \in Event
  BY <1>3
<1> QED BY <1>2, <1>4 DEF EventAt

\* session_steps are numbers.
LEMMA StepsAreNumbers ==
    ASSUME TypeOK
    PROVE  SessionSteps \subseteq Nat
<1> SUFFICES ASSUME NEW p \in Places PROVE EventAt(p).ss \in Nat
  BY DEF SessionSteps
<1> QED BY PlaceTyped DEF Event

\* lastHop's second place is one of an envelope.
LEMMA LastHopPlaces ==
    ASSUME TypeOK, NEW h \in lastHop
    PROVE  h[1] \in Places /\ h[2] \in Places /\ EventAt(h[2]).kind # "done"
BY DEF lastHop, Newest

\* The newest envelope, when it answers a client, comes from an agent.
LEMMA LastReply ==
    ASSUME TypeOK, LogOK, NEW h \in lastHop, isTerminalReply(EventAt(h[2]).env)
    PROVE  EventAt(h[2]).env.from \in Agent
<1>1. /\ h[2] \in Places /\ EventAt(h[2]).kind # "done"
      /\ h[2][1] \in Agent /\ h[2][2] \in DOMAIN log[h[2][1]] /\ EventAt(h[2]) \in Event
  BY LastHopPlaces, PlaceTyped
<1>2. EntryOK(EventAt(h[2]).kind, EventAt(h[2]).env)
  BY <1>1 DEF LogOK, EventAt
<1>3. Client \notin Agent
  BY ClientAssumption
<1> QED BY <1>1, <1>2, <1>3 DEF EntryOK, Event, Kind, isTerminalReply

\* A conversation with an input has a newest one, which is an envelope with a
\* StepID.
LEMMA PendingTyped ==
    ASSUME TypeOK, LogOK, NEW a \in Agent, HasInput(a)
    PROVE  PendingMessage(a) \in Envelope /\ PendingMessage(a).step # 0
<1> DEFINE S == {i \in DOMAIN log[a] : log[a][i].kind = "input"}
<1>1. log[a] \in Seq(Event)
  BY DEF TypeOK
<1>2. S \subseteq 1..Len(log[a]) /\ S # {} /\ Len(log[a]) \in Nat
  BY <1>1 DEF HasInput
<1>3. Max(S) \in S
  <2> HIDE DEF S
  <2> QED BY <1>2, MaxIsMember
<1>4. pendingInput(a) \in DOMAIN log[a] /\ log[a][pendingInput(a)].kind = "input"
  BY <1>3 DEF pendingInput
<1>5. log[a][pendingInput(a)] \in Event
  BY <1>1, <1>4
<1> QED BY <1>4, <1>5 DEF PendingMessage, LogOK, EntryOK, Event

\* A turn that is PENDING has an input.
LEMMA PendingHasInput ==
    ASSUME TypeOK, LogOK, NEW a \in Agent, Pending(a)
    PROVE  HasInput(a)
<1>1. log[a] \in Seq(Event)
  BY DEF TypeOK
<1>2. PICK i \in DOMAIN log[a] : log[a][i].kind # "marker"
  BY DEF Pending
<1>3. log[a][i] \in Event
  BY <1>1, <1>2
<1>4. log[a][i].kind \in {"input", "output", "done"}
  BY <1>2, <1>3 DEF Event, Kind
<1> QED BY <1>2, <1>4 DEF LogOK, HasInput

-----------------------------------------------------------------------------
(***************************************************************************)
(* Types.                                                                   *)
(***************************************************************************)
DriverSet == [pc : DriverState, res : Envelope, conv : Agent, msg : Envelope, out : Envelope,
              first : Agent, hasTask : BOOLEAN, waits : BOOLEAN, shown : {"no"} \cup Data,
              fresh : BOOLEAN, inputs : BOOLEAN, lost : BOOLEAN, revived : BOOLEAN]
AppendSet == [pc : {"idle", "step", "session", "insert"}, conv : Agent, kind : Kind,
              env : Envelope, step : Nat, ss : Nat]

\* The records that the actions start from.
LEMMA InitialRecords ==
    /\ NoEnvelope \in Envelope /\ Bootstrap \in Envelope /\ Marker \in Envelope
    /\ \A a \in Agent : ClientMessage(a) \in Envelope
    /\ NewRuntime \in RuntimeState /\ Idle \in DriverSet /\ NoAppend \in AppendSet
<1>1. /\ NoEnvelope \in Envelope /\ Bootstrap \in Envelope /\ Marker \in Envelope
      /\ \A a \in Agent : ClientMessage(a) \in Envelope
  BY OwnerAssumption
  DEF NoEnvelope, Bootstrap, Marker, ClientMessage, Envelope, Nobody, Data, TaskData
<1>2. NewRuntime \in RuntimeState /\ Idle \in DriverSet /\ NoAppend \in AppendSet
  BY <1>1, OwnerAssumption
  DEF NewRuntime, RuntimeState, Idle, DriverSet, NoAppend, AppendSet, DriverState, Kind
<1> QED BY <1>1, <1>2

\* Waking the client changes nothing but what it was shown.
LEMMA NotifyTyped ==
    ASSUME NEW e \in DriverSet
    PROVE  /\ Notify(e) \in DriverSet
           /\ Notify(e) \in {e, [e EXCEPT !.shown = e.res.data]}
BY DEF Notify, DriverSet, Envelope

\* What the task row becomes is a row, and a driver reads from it whether it is there.
LEMMA RowTyped ==
    ASSUME TypeOK
    PROVE  /\ \A env \in Envelope, b \in BOOLEAN, a \in Agent :
                  Status(env, b, a) \in [state : {"none"} \cup TaskData, version : Nat]
           /\ \A e \in DriverSet : loadServerSession(e) \in DriverSet
<1>1. \A env \in Envelope, b \in BOOLEAN, a \in Agent :
          Status(env, b, a) \in [state : {"none"} \cup TaskData, version : Nat]
  <2> SUFFICES ASSUME NEW env \in Envelope, NEW b \in BOOLEAN, NEW a \in Agent
               PROVE  Status(env, b, a) \in [state : {"none"} \cup TaskData, version : Nat]
    OBVIOUS
  <2>1. reconstructState(env) \in TaskData
    BY DEF reconstructState, TaskData
  <2>2. task \in [state : {"none"} \cup TaskData, version : Nat]
    BY DEF TypeOK
  <2>3. task.version + 1 \in Nat
    BY <2>2
  <2> QED BY <2>1, <2>2, <2>3 DEF Status
<1>2. \A e \in DriverSet : loadServerSession(e) \in DriverSet
  BY DEF loadServerSession, DriverSet
<1> QED BY <1>1, <1>2

\* Begin and the reads of an Append, and its rollback.
LEMMA AppendTyped ==
    ASSUME TypeOK, NEW w \in Writer
    PROVE  /\ \A a \in Agent, kind \in Kind, env \in Envelope :
                  Begin(w, a, kind, env) => wr' \in [Writer -> AppendSet]
           /\ Reads(w) => wr' \in [Writer -> AppendSet]
           /\ [wr EXCEPT ![w] = NoAppend] \in [Writer -> AppendSet]
<1>1. wr \in [Writer -> AppendSet] /\ NoAppend \in AppendSet
  BY InitialRecords DEF TypeOK, AppendSet
<1>2. ASSUME NEW a \in Agent, NEW kind \in Kind, NEW env \in Envelope,
             Begin(w, a, kind, env)
      PROVE  wr' \in [Writer -> AppendSet]
  BY <1>1, <1>2 DEF Begin, AppendSet
<1>3. ASSUME Reads(w) PROVE wr' \in [Writer -> AppendSet]
  <2>1. \A m \in MaxSessionStep : m \in Nat
    BY StepsAreNumbers DEF MaxSessionStep
  <2>2. Len(log[wr[w].conv]) \in Nat
    BY <1>1 DEF TypeOK, AppendSet
  <2>3. wr[w] \in AppendSet
    BY <1>1
  <2>4. ASSUME NEW f \in [Writer -> AppendSet], NEW pc \in {"session", "insert"},
               NEW n \in Nat
        PROVE  /\ [f EXCEPT ![w].pc = pc, ![w].step = n] \in [Writer -> AppendSet]
               /\ [f EXCEPT ![w].pc = pc, ![w].ss = n] \in [Writer -> AppendSet]
    <3>1. f[w] \in AppendSet
      OBVIOUS
    <3>2. [f[w] EXCEPT !.pc = pc] \in AppendSet
      BY <3>1 DEF AppendSet
    <3> DEFINE g == [f EXCEPT ![w].pc = pc]
    <3>3. g \in [Writer -> AppendSet] /\ g[w] \in AppendSet
      BY <3>2
    <3>4. [g[w] EXCEPT !.step = n] \in AppendSet /\ [g[w] EXCEPT !.ss = n] \in AppendSet
      <4> HIDE DEF g
      <4> QED BY <3>3 DEF AppendSet
    <3>5. /\ [g EXCEPT ![w].step = n] \in [Writer -> AppendSet]
          /\ [g EXCEPT ![w].ss = n] \in [Writer -> AppendSet]
      <4> HIDE DEF g
      <4> QED BY <3>3, <3>4
    <3> QED BY <3>5
  <2>5. CASE wr[w].pc = "step"
    <3>1. Len(log[wr[w].conv]) + 1 \in Nat
      BY <2>2
    <3>2. [wr EXCEPT ![w].pc = "session", ![w].step = Len(log[wr[w].conv]) + 1]
              \in [Writer -> AppendSet]
      BY <1>1, <2>4, <3>1, Zenon
    <3>3. wr' = [wr EXCEPT ![w].pc = "session", ![w].step = Len(log[wr[w].conv]) + 1]
      BY <1>3, <2>5, Zenon DEF Reads
    <3> QED BY <3>2, <3>3, Zenon
  <2>6. CASE wr[w].pc = "session"
    <3>1. PICK m \in MaxSessionStep : wr' = [wr EXCEPT ![w].pc = "insert", ![w].ss = m + 1]
      BY <1>3, <2>6, Zenon DEF Reads
    <3>2. m + 1 \in Nat
      BY <2>1
    <3>3. [wr EXCEPT ![w].pc = "insert", ![w].ss = m + 1] \in [Writer -> AppendSet]
      BY <1>1, <2>4, <3>2, Zenon
    <3> QED BY <3>1, <3>3, Zenon
  <2> QED BY <1>3, <2>5, <2>6 DEF Reads
<1>4. [wr EXCEPT ![w] = NoAppend] \in [Writer -> AppendSet]
  BY <1>1
<1> QED BY <1>2, <1>3, <1>4

\* An INSERT adds one event at the end of one conversation.
LEMMA InsertEffect ==
    ASSUME TypeOK, NEW w \in Writer, Insert(w)
    PROVE  /\ log' \in [Agent -> Seq(Event)]
           /\ wr[w].conv \in Agent
           /\ Len(log'[wr[w].conv]) = Len(log[wr[w].conv]) + 1
           /\ log'[wr[w].conv][Len(log[wr[w].conv]) + 1] =
                  [ss |-> wr[w].ss, kind |-> wr[w].kind, env |-> wr[w].env]
           /\ \A i \in DOMAIN log[wr[w].conv] : log'[wr[w].conv][i] = log[wr[w].conv][i]
           /\ \A a \in Agent : a # wr[w].conv => log'[a] = log[a]
<1> DEFINE c == wr[w].conv
           e == [ss |-> wr[w].ss, kind |-> wr[w].kind, env |-> wr[w].env]
<1>1. c \in Agent /\ e \in Event
  BY DEF TypeOK, Event
<1>2. log \in [Agent -> Seq(Event)]
  BY DEF TypeOK
<1>3. log' = [log EXCEPT ![c] = Append(@, e)]
  BY DEF Insert
<1> HIDE DEF c, e
<1>4. Append(log[c], e) \in Seq(Event) /\ log'[c] = Append(log[c], e)
  BY <1>1, <1>2, <1>3
<1>5. /\ log' \in [Agent -> Seq(Event)]
      /\ Len(log'[c]) = Len(log[c]) + 1
      /\ log'[c][Len(log[c]) + 1] = e
      /\ \A i \in DOMAIN log[c] : log'[c][i] = log[c][i]
      /\ \A a \in Agent : a # c => log'[a] = log[a]
  BY <1>1, <1>2, <1>3, <1>4
<1> QED BY <1>1, <1>5 DEF c, e

\* A step of the program counter alone.
LEMMA GotoTyped ==
    ASSUME TypeOK, NEW label \in DriverState, Goto(label)
    PROVE  d' \in DriverSet
<1>1. d \in DriverSet
  BY DEF TypeOK, DriverSet
<1> QED BY <1>1 DEF Goto, DriverSet

\* A reply of another turn leaves the driver what it has in hand, but for the reply.
LEMMA RetryEffect ==
    ASSUME TypeOK, retryMismatch
    PROVE  /\ d' \in DriverSet /\ d'.pc = "exec" /\ d'.conv = d.conv /\ d'.msg = d.msg
           /\ d'.out = d.out /\ d'.res = d.res /\ d'.fresh = d.fresh /\ d'.inputs = d.inputs
           /\ d'.first = d.first /\ d'.hasTask = d.hasTask /\ d'.revived = d.revived
           /\ ~d'.lost => ~d.lost /\ d.out.from # d.first
<1>1. d \in DriverSet
  BY DEF TypeOK, DriverSet
<1>2. PICK l : l = (d.lost \/ d.out.from = d.first)
  OBVIOUS
<1>3. l \in BOOLEAN
  BY <1>2, Zenon
<1>4. d' = [d EXCEPT !.pc = "exec", !.lost = l]
  BY <1>2, Zenon DEF retryMismatch
<1>5. d'.lost = l
  BY <1>1, <1>4 DEF DriverSet
<1>6. ~d'.lost => ~d.lost /\ d.out.from # d.first
  BY <1>2, <1>5
<1> QED BY <1>1, <1>3, <1>4, <1>6 DEF DriverSet, DriverState

\* The goroutine's end leaves a driver at rest or down, with nothing in hand.
LEMMA StopTyped ==
    ASSUME TypeOK, NEW label \in {"rest", "down"}, Stop(label)
    PROVE  /\ d' \in DriverSet /\ wr' \in [Writer -> AppendSet]
           /\ d'.pc = label /\ d'.revived = d.revived /\ d'.inputs = FALSE
           /\ wr'["driver"] = NoAppend /\ wr'["marker"] = wr["marker"]
<1>1. d \in DriverSet /\ wr \in [Writer -> AppendSet]
  BY DEF TypeOK, DriverSet, AppendSet
<1>2. Idle \in DriverSet /\ Idle.inputs = FALSE
  BY InitialRecords DEF Idle
<1>3. (d.lost \/ (At("record") /\ d.out.from = d.first)) \in BOOLEAN
  OBVIOUS
<1>4. /\ d' \in DriverSet /\ d'.pc = label /\ d'.revived = d.revived /\ d'.inputs = FALSE
  BY <1>1, <1>2, <1>3 DEF Stop, DriverSet, DriverState
<1>5. wr' \in [Writer -> AppendSet]
  BY AppendTyped DEF Stop, Writer
<1>6. wr'["driver"] = NoAppend /\ wr'["marker"] = wr["marker"]
  BY <1>1 DEF Stop, Writer
<1> QED BY <1>4, <1>5, <1>6

\* The types are preserved.
LEMMA TypeStep ==
    ASSUME Shape, [Next]_vars
    PROVE  TypeOK'
<1> USE DEF Shape
<1>a. /\ TypeOK
      /\ log \in [Agent -> Seq(Event)]
      /\ sess \in {"RUNNING", "TERMINATING", "TERMINATED"}
      /\ task \in [state : {"none"} \cup TaskData, version : Nat]
      /\ actors \subseteq Agent /\ left \subseteq Agent
      /\ rt \in [Agent -> RuntimeState]
      /\ d \in DriverSet
      /\ wr \in [Writer -> AppendSet]
      /\ cx \in [pc : {"idle", "wait", "cas", "marker", "claim"}, version : Nat]
      /\ reg \in [harnesses : SUBSET ValidIDs, cards : SUBSET ValidIDs]
      /\ minted \in Nat
      /\ spent \in [{"moves", "faults"} -> Nat]
  BY DEF TypeOK, DriverSet, AppendSet
<1>b. /\ "driver" \in Writer /\ "marker" \in Writer
      /\ {"input", "output", "done", "marker"} \subseteq Kind
      /\ {"establish", "drive", "exec", "logging", "run", "commit", "record", "cleanup",
          "terminate", "rest", "down"} \subseteq DriverState
  BY DEF Writer, Kind, DriverState
<1>c. SUFFICES
      /\ log' \in [Agent -> Seq(Event)]
      /\ sess' \in {"RUNNING", "TERMINATING", "TERMINATED"}
      /\ task' \in [state : {"none"} \cup TaskData, version : Nat]
      /\ actors' \subseteq Agent /\ left' \subseteq Agent
      /\ rt' \in [Agent -> RuntimeState]
      /\ d' \in DriverSet
      /\ wr' \in [Writer -> AppendSet]
      /\ cx' \in [pc : {"idle", "wait", "cas", "marker", "claim"}, version : Nat]
      /\ reg' \in [harnesses : SUBSET ValidIDs, cards : SUBSET ValidIDs]
      /\ minted' \in Nat
      /\ spent' \in [{"moves", "faults"} -> Nat]
  BY DEF TypeOK, DriverSet, AppendSet
<1>d. \A what \in {"moves", "faults"} : \A bound :
          Spend(what, bound) => spent' \in [{"moves", "faults"} -> Nat]
  BY <1>a DEF Spend
<1>e. d.res \in Envelope /\ d.out \in Envelope /\ d.msg \in Envelope /\ d.conv \in Agent
  BY <1>a, SMTT(40) DEF DriverSet
<1>1. CASE establishRelayState
  <2>1. CASE Places = {} /\ d' = Notify([d EXCEPT !.pc = "drive", !.res = Bootstrap,
                                                  !.fresh = TRUE])
    <3>1. [d EXCEPT !.pc = "drive", !.res = Bootstrap, !.fresh = TRUE] \in DriverSet
      BY <1>a, <1>b, InitialRecords DEF DriverSet
    <3> QED BY <1>1, <1>a, <2>1, <3>1, NotifyTyped DEF establishRelayState, store
  <2>2. CASE \E h \in lastHop :
               d' = IF Completed(h[1])
                    THEN Notify([d EXCEPT !.pc = "drive", !.res = EventAt(h[2]).env])
                    ELSE [d EXCEPT !.pc = "exec", !.conv = h[1][1], !.inputs = FALSE]
    <3>1. PICK h \in lastHop :
               d' = IF Completed(h[1])
                    THEN Notify([d EXCEPT !.pc = "drive", !.res = EventAt(h[2]).env])
                    ELSE [d EXCEPT !.pc = "exec", !.conv = h[1][1], !.inputs = FALSE]
      BY <2>2
    <3>2. h[1][1] \in Agent /\ EventAt(h[2]).env \in Envelope
      BY <1>a, LastHopPlaces, PlaceTyped DEF Event
    <3>3. /\ [d EXCEPT !.pc = "drive", !.res = EventAt(h[2]).env] \in DriverSet
          /\ [d EXCEPT !.pc = "exec", !.conv = h[1][1], !.inputs = FALSE] \in DriverSet
      BY <1>a, <1>b, <3>2 DEF DriverSet
    <3>4. d' \in DriverSet
      BY <3>1, <3>3, NotifyTyped
    <3> QED BY <1>1, <1>a, <3>4 DEF establishRelayState, store
  <2> QED BY <1>1, <2>1, <2>2 DEF establishRelayState
<1>2. CASE execA2A
  <2>1. minted' \in Nat /\ d' \in DriverSet
    <3>1. d.res.to \in Agent
      BY <1>2, <1>e DEF execA2A, isTerminalReply, Envelope
    <3>2. [d.res EXCEPT !.step = minted + 1] \in Envelope
      <4>1. minted + 1 \in Nat
        BY <1>a
      <4> QED BY <1>e, <4>1 DEF Envelope
    <3>3. PICK msg \in Envelope : d' = [d EXCEPT !.pc = "exec", !.conv = d.res.to,
                                                 !.msg = msg, !.inputs = TRUE]
      BY <1>2, <1>e, <3>2 DEF execA2A
    <3>4. d' \in DriverSet
      BY <1>a, <1>b, <3>1, <3>3 DEF DriverSet
    <3> QED BY <1>2, <1>a, <3>4 DEF execA2A
  <2> QED BY <1>2, <1>a, <2>1 DEF execA2A, store
<1>3. CASE Exec
  <2>1. d' \in DriverSet
    BY <1>3, <1>a, <1>b, GotoTyped DEF Exec
  <2>2. wr' \in [Writer -> AppendSet]
    BY <1>3, <1>a, <1>b, <1>e, AppendTyped DEF Exec
  <2> QED BY <1>3, <1>a, <1>e, <2>1, <2>2 DEF Exec, store
<1>4. CASE \E w \in Writer : AppendReads(w)
  <2>1. wr' \in [Writer -> AppendSet]
    BY <1>4, <1>a, AppendTyped DEF AppendReads
  <2> QED BY <1>4, <1>a, <2>1 DEF AppendReads, store
<1>5. CASE Run
  <2>1. HasInput(d.conv)
    BY <1>5 DEF Run, At, DriverOK
  <2>2. PendingMessage(d.conv) \in Envelope /\ PendingMessage(d.conv).step # 0
    BY <1>e, <2>1, PendingTyped
  <2>3. PICK new \in Connect(d.conv, rt[d.conv], PendingMessage(d.conv),
                          historySteps(d.conv, pendingInput(d.conv)), spent.moves < MaxMoves) :
            /\ rt' = [rt EXCEPT ![d.conv] = new]
            /\ d' = [d EXCEPT !.pc = "commit", !.out = new.out]
            /\ spent' = IF new # rt[d.conv] /\ Suspended(new)
                        THEN [spent EXCEPT !.moves = @ + 1] ELSE spent
    BY <1>5 DEF Run
  <2>4. rt[d.conv] \in RuntimeState /\ (rt[d.conv].last # 0 => rt[d.conv].out.from \in Agent)
    BY <1>a, <1>e DEF RuntimeOK
  <2>5. new \in RuntimeState
    BY <1>e, <2>2, <2>3, <2>4, ConnectTyped
  <2>6. new.out \in Envelope
    BY <2>5 DEF RuntimeState
  <2>7. d' \in DriverSet /\ rt' \in [Agent -> RuntimeState]
    BY <1>a, <1>b, <2>3, <2>5, <2>6 DEF DriverSet
  <2>8. spent' \in [{"moves", "faults"} -> Nat]
    BY <1>a, <2>3
  <2> QED BY <1>5, <1>a, <2>7, <2>8 DEF Run, store
<1>6. CASE Commit
  <2>1. d' \in DriverSet
    BY <1>6, <1>a, <1>b, GotoTyped DEF Commit
  <2>2. wr' \in [Writer -> AppendSet]
    BY <1>6, <1>a, <1>b, <1>e, InitialRecords, AppendTyped DEF Commit
  <2> QED BY <1>6, <1>a, <2>1, <2>2 DEF Commit, store
<1>7. CASE Logged
  <2>1. d' \in DriverSet
    BY <1>7, <1>a, <1>b, GotoTyped DEF Logged
  <2>2. wr' \in [Writer -> AppendSet]
    BY <1>7, <1>a, <1>b, <1>e, InitialRecords, AppendTyped DEF Logged
  <2>3. log' \in [Agent -> Seq(Event)]
    BY <1>7, <1>a, <1>b, InsertEffect DEF Logged
  <2> QED BY <1>7, <1>a, <2>1, <2>2, <2>3 DEF Logged
<1>8. CASE retryMismatch
  BY <1>8, <1>a, RetryEffect DEF retryMismatch, store
<1>9. CASE recordTaskStatus
  <2>1. CASE sess = "TERMINATING"
    <3>1. d' \in DriverSet /\ task' = task
      BY <1>9, <1>a, <1>b, <1>e, <2>1 DEF recordTaskStatus, DriverSet
    <3> QED BY <1>9, <1>a, <3>1 DEF recordTaskStatus
  <2>2. CASE sess # "TERMINATING"
    <3>1. /\ task' = Status(d.out, d.hasTask, d.first)
          /\ d' = Notify([d EXCEPT !.pc = "drive", !.res = d.out, !.fresh = FALSE,
                                   !.hasTask = task'.state # "none",
                                   !.lost = d.lost /\ task' = task])
      BY <1>9, <2>2 DEF recordTaskStatus
    <3>2. task' \in [state : {"none"} \cup TaskData, version : Nat]
      BY <1>a, <1>e, <3>1, RowTyped DEF DriverSet
    <3>3. (task'.state # "none") \in BOOLEAN /\ (d.lost /\ task' = task) \in BOOLEAN
      OBVIOUS
    <3>4. [d EXCEPT !.pc = "drive", !.res = d.out, !.fresh = FALSE,
                    !.hasTask = task'.state # "none",
                    !.lost = d.lost /\ task' = task] \in DriverSet
      BY <1>a, <1>b, <1>e, <3>3 DEF DriverSet
    <3>5. d' \in DriverSet
      BY <3>1, <3>4, NotifyTyped
    <3> QED BY <1>9, <1>a, <3>2, <3>5 DEF recordTaskStatus
  <2> QED BY <2>1, <2>2
<1>10. CASE Pause
  BY <1>10, <1>a, <1>b, GotoTyped DEF Pause, store
<1>11. CASE MarkTerminating
  BY <1>11, <1>a, <1>b, GotoTyped DEF MarkTerminating
<1>12. CASE cleanupActors
  <2>1. d' \in DriverSet
    BY <1>12, <1>a, <1>b, GotoTyped DEF cleanupActors
  <2>2. spent' \in [{"moves", "faults"} -> Nat]
    BY <1>12, <1>a, <1>d DEF cleanupActors
  <2>3. /\ actors' \subseteq Agent /\ left' \subseteq Agent
        /\ rt' \in [Agent -> RuntimeState]
    BY <1>12, <1>a, InitialRecords DEF cleanupActors, visitedActorsFromHistory
  <2> QED BY <1>12, <1>a, <2>1, <2>2, <2>3 DEF cleanupActors, store
<1>13. CASE TerminateSession
  BY <1>13, <1>a, <1>b, GotoTyped DEF TerminateSession
<1>14. CASE continueTask
  <2>1. PICK h \in lastHop :
            /\ isTerminalReply(EventAt(h[2]).env)
            /\ d' = loadServerSession(
                    [Idle EXCEPT !.pc = "drive", !.res = ClientMessage(EventAt(h[2]).env.from),
                                 !.first = EventAt(h[2]).env.from, !.fresh = TRUE,
                                 !.waits = TRUE, !.lost = d.lost,
                                 !.revived = d.revived \/ sess # "RUNNING"])
    BY <1>14 DEF continueTask
  <2>2. EventAt(h[2]).env.from \in Agent
    BY <2>1, LastReply
  <2>3. ClientMessage(EventAt(h[2]).env.from) \in Envelope /\ Idle \in DriverSet
    BY <2>2, InitialRecords
  <2>4. (d.revived \/ sess # "RUNNING") \in BOOLEAN /\ d.lost \in BOOLEAN
    BY <1>a DEF DriverSet
  <2>5. [Idle EXCEPT !.pc = "drive", !.res = ClientMessage(EventAt(h[2]).env.from),
                     !.first = EventAt(h[2]).env.from, !.fresh = TRUE,
                     !.waits = TRUE, !.lost = d.lost,
                     !.revived = d.revived \/ sess # "RUNNING"] \in DriverSet
    BY <1>b, <2>2, <2>3, <2>4 DEF DriverSet
  <2>6. d' \in DriverSet
    BY <2>1, <2>5, RowTyped
  <2> QED BY <1>14, <1>a, <1>d, <2>6 DEF continueTask, store
<1>15. CASE CancelTask
  BY <1>15, <1>a, <1>d DEF CancelTask, store
<1>16. CASE cancelAndWait
  <2>1. cx' \in [pc : {"idle", "wait", "cas", "marker", "claim"}, version : Nat]
    BY <1>16, <1>a DEF cancelAndWait
  <2> QED BY <1>16, <1>a, <2>1, StopTyped DEF cancelAndWait, store
<1>17. CASE CancelTaskAndSession
  <2>1. Owner \in Agent /\ Marker \in Envelope
    BY OwnerAssumption, InitialRecords
  <2>2. wr' \in [Writer -> AppendSet]
    BY <1>17, <1>a, <1>b, <2>1, AppendTyped DEF CancelTaskAndSession
  <2>3. /\ cx' \in [pc : {"idle", "wait", "cas", "marker", "claim"}, version : Nat]
        /\ task' \in [state : {"none"} \cup TaskData, version : Nat]
    BY <1>17, <1>a DEF CancelTaskAndSession, TaskData
  <2> QED BY <1>17, <1>a, <2>2, <2>3 DEF CancelTaskAndSession
<1>18. CASE appendCancellationMarker
  <2>1. log' \in [Agent -> Seq(Event)]
    BY <1>18, <1>a, <1>b, InsertEffect DEF appendCancellationMarker
  <2>2. wr' \in [Writer -> AppendSet]
    BY <1>18, <1>a, <1>b, AppendTyped DEF appendCancellationMarker
  <2> QED BY <1>18, <1>a, <2>1, <2>2 DEF appendCancellationMarker
<1>19. CASE ClaimForCleanup
  <2>1. [Idle EXCEPT !.pc = "cleanup", !.lost = d.lost, !.revived = d.revived] \in DriverSet
    BY <1>a, <1>b, InitialRecords DEF DriverSet
  <2> QED BY <1>19, <1>a, <2>1 DEF ClaimForCleanup, store
<1>20. CASE Crash
  BY <1>20, <1>a, <1>d, StopTyped DEF Crash, store
<1>21. CASE Resume
  <2> DEFINE label == CASE sess = "RUNNING" -> "establish"
                        [] sess = "TERMINATING" -> "cleanup"
                        [] OTHER -> "rest"
  <2>1. label \in DriverState
    BY <1>b
  <2>2. d' = loadServerSession([d EXCEPT !.pc = label])
    BY <1>21 DEF Resume
  <2> HIDE DEF label
  <2>3. [d EXCEPT !.pc = label] \in DriverSet
    BY <1>a, <2>1 DEF DriverSet
  <2>4. d' \in DriverSet
    BY <2>2, <2>3, RowTyped
  <2>5. reg' \in [harnesses : SUBSET ValidIDs, cards : SUBSET ValidIDs]
    BY <1>21, <1>a DEF Resume
  <2> QED BY <1>21, <1>a, <2>4, <2>5 DEF Resume, store
<1>22. CASE discoverAndApply
  <2>1. PICK templates \in Listings :
            /\ Replaceable(agentsFromTemplates(templates))
            /\ reg' = [reg EXCEPT !.harnesses = agentsFromTemplates(templates)]
            /\ IF reg.harnesses \subseteq agentsFromTemplates(templates) THEN UNCHANGED spent
               ELSE Spend("faults", MaxFaults)
    BY <1>22 DEF discoverAndApply
  <2>2. agentsFromTemplates(templates) \subseteq ValidIDs
    BY <2>1 DEF Replaceable, validateID
  <2>3. reg' \in [harnesses : SUBSET ValidIDs, cards : SUBSET ValidIDs]
    BY <1>a, <2>1, <2>2
  <2>4. spent' \in [{"moves", "faults"} -> Nat]
    BY <1>a, <1>d, <2>1
  <2> QED BY <1>22, <1>a, <2>3, <2>4 DEF discoverAndApply, store
<1>23. CASE storeCards
  BY <1>23, <1>a DEF storeCards, store
<1>24. CASE UNCHANGED vars
  BY <1>24, <1>a DEF vars
<1> QED BY <1>1, <1>2, <1>3, <1>4, <1>5, <1>6, <1>7, <1>8, <1>9, <1>10, <1>11, <1>12, <1>13,
           <1>14, <1>15, <1>16, <1>17, <1>18, <1>19, <1>20, <1>21, <1>22, <1>23, <1>24, <1>b
        DEF Next, Drive, Cancel

-----------------------------------------------------------------------------
(***************************************************************************)
(* The log and the two Appends.                                             *)
(***************************************************************************)
\* What Begin puts into a writer.
LEMMA BeginEffect ==
    ASSUME TypeOK, NEW w \in Writer, NEW a \in Agent, NEW kind \in Kind, NEW env \in Envelope,
           Begin(w, a, kind, env)
    PROVE  /\ wr'[w].pc = "step" /\ wr'[w].conv = a /\ wr'[w].kind = kind /\ wr'[w].env = env
           /\ \A v \in Writer : v # w => wr'[v] = wr[v]
<1>1. wr \in [Writer -> AppendSet]
  BY DEF TypeOK, AppendSet
<1>2. wr'[w] = [NoAppend EXCEPT !.pc = "step", !.conv = a, !.kind = kind, !.env = env]
  BY <1>1 DEF Begin
<1>3. \A v \in Writer : v # w => wr'[v] = wr[v]
  BY <1>1 DEF Begin
<1> QED BY <1>2, <1>3 DEF NoAppend

\* What the two SELECTs of an Append find: its place at the end of the
\* conversation, and then a number above every session_step there is.
LEMMA ReadsEffect ==
    ASSUME TypeOK, NEW w \in Writer, Reads(w)
    PROVE  /\ wr[w].pc # "idle" /\ wr[w].conv \in Agent
           /\ wr'[w].conv = wr[w].conv /\ wr'[w].kind = wr[w].kind /\ wr'[w].env = wr[w].env
           /\ \/ wr'[w].pc = "session" /\ wr'[w].step = Len(log[wr[w].conv]) + 1
              \/ /\ wr[w].pc = "session"
                 /\ wr'[w].pc = "insert" /\ wr'[w].step = wr[w].step
                 /\ \A n \in SessionSteps : n < wr'[w].ss
           /\ \A v \in Writer : v # w => wr'[v] = wr[v]
<1>1. wr \in [Writer -> AppendSet] /\ wr[w] \in AppendSet /\ wr[w].conv \in Agent
  BY DEF TypeOK, AppendSet
<1>2. CASE wr[w].pc = "step"
  <2>1. wr' = [wr EXCEPT ![w].pc = "session", ![w].step = Len(log[wr[w].conv]) + 1]
    BY <1>2, Zenon DEF Reads
  <2> QED BY <1>1, <1>2, <2>1 DEF AppendSet
<1>3. CASE wr[w].pc = "session"
  <2>1. PICK m \in MaxSessionStep : wr' = [wr EXCEPT ![w].pc = "insert", ![w].ss = m + 1]
    BY <1>3, Zenon DEF Reads
  <2>2. /\ wr'[w].conv = wr[w].conv /\ wr'[w].kind = wr[w].kind /\ wr'[w].env = wr[w].env
        /\ wr'[w].pc = "insert" /\ wr'[w].step = wr[w].step /\ wr'[w].ss = m + 1
        /\ \A v \in Writer : v # w => wr'[v] = wr[v]
    BY <1>1, <2>1 DEF AppendSet
  <2>3. \A n \in SessionSteps : n < m + 1
    BY StepsAreNumbers DEF MaxSessionStep
  <2> QED BY <1>1, <1>3, <2>2, <2>3
<1> QED BY <1>2, <1>3 DEF Reads

\* Only an INSERT whose key is free changes the log.
LEMMA LogEffect ==
    ASSUME Shape, [Next]_vars
    PROVE  \/ log' = log
           \/ \E w \in Writer : wr[w].pc = "insert" /\ KeyIsFree(w) /\ Insert(w)
<1>1. CASE Drive
  BY <1>1
  DEF Drive, establishRelayState, execA2A, Exec, AppendReads, Run, Commit, Logged, retryMismatch,
      recordTaskStatus, Pause, MarkTerminating, cleanupActors, TerminateSession, store, Writer
<1>2. CASE Cancel
  BY <1>2
  DEF Cancel, cancelAndWait, CancelTaskAndSession, AppendReads, appendCancellationMarker,
      ClaimForCleanup, store, Writer
<1>3. CASE continueTask \/ CancelTask \/ Crash \/ Resume \/ discoverAndApply \/ storeCards
  BY <1>3 DEF continueTask, CancelTask, Crash, Resume, discoverAndApply, storeCards, store
<1>4. CASE UNCHANGED vars
  BY <1>4 DEF vars
<1> QED BY <1>1, <1>2, <1>3, <1>4, SMTT(40) DEF Next

\* The log only grows, at the end of its conversations.
LEMMA LogGrows ==
    ASSUME Shape, [Next]_vars, NEW a \in Agent
    PROVE  /\ \A i \in DOMAIN log[a] : i \in DOMAIN log'[a] /\ log'[a][i] = log[a][i]
           /\ Len(log[a]) <= Len(log'[a])
           /\ HasInput(a) => HasInput(a)'
<1>1. log \in [Agent -> Seq(Event)] /\ log[a] \in Seq(Event)
  BY DEF Shape, TypeOK
<1>2. /\ \A i \in DOMAIN log[a] : i \in DOMAIN log'[a] /\ log'[a][i] = log[a][i]
      /\ Len(log[a]) <= Len(log'[a])
  <2>1. CASE log' = log
    BY <1>1, <2>1
  <2>2. CASE \E w \in Writer : wr[w].pc = "insert" /\ KeyIsFree(w) /\ Insert(w)
    <3>1. PICK w \in Writer : Insert(w)
      BY <2>2
    <3>2. log'[a] \in Seq(Event)
      BY <3>1, InsertEffect DEF Shape
    <3>3. CASE a = wr[w].conv
      <4>1. /\ Len(log'[a]) = Len(log[a]) + 1
            /\ \A i \in DOMAIN log[a] : log'[a][i] = log[a][i]
        BY <3>1, <3>3, InsertEffect DEF Shape
      <4> QED BY <1>1, <3>2, <4>1
    <3>4. CASE a # wr[w].conv
      <4>1. log'[a] = log[a]
        BY <3>1, <3>4, InsertEffect DEF Shape
      <4> QED BY <1>1, <4>1
    <3> QED BY <3>3, <3>4
  <2> QED BY <2>1, <2>2, LogEffect
<1> QED BY <1>2 DEF HasInput

\* What is in the log stays in order.
LEMMA LogStep ==
    ASSUME Shape, [Next]_vars
    PROVE  LogOK'
<1>1. CASE log' = log
  BY <1>1 DEF Shape, LogOK, HasInput
<1>2. CASE \E w \in Writer : wr[w].pc = "insert" /\ KeyIsFree(w) /\ Insert(w)
  <2>1. PICK w \in Writer : wr[w].pc = "insert" /\ Insert(w)
    BY <1>2
  <2>2. /\ EntryOK(wr[w].kind, wr[w].env) /\ wr[w].conv \in Agent /\ wr[w].kind \in Kind
        /\ wr[w].kind \in {"output", "done"} => HasInput(wr[w].conv)
    BY <2>1 DEF Shape, WriterOK, TypeOK, Writer, Kind
  <2> SUFFICES ASSUME NEW a \in Agent, NEW i \in DOMAIN log'[a]
               PROVE  /\ EntryOK(log'[a][i].kind, log'[a][i].env)
                      /\ log'[a][i].kind \in {"output", "done"} => HasInput(a)'
    BY DEF LogOK
  <2>3. log[a] \in Seq(Event) /\ log'[a] \in Seq(Event)
    BY <2>1, InsertEffect DEF Shape, TypeOK
  <2>4. CASE i \in DOMAIN log[a]
    BY <2>4, LogGrows DEF Shape, LogOK
  <2>5. CASE i \notin DOMAIN log[a]
    <3>1. a = wr[w].conv
      BY <2>1, <2>5, InsertEffect DEF Shape
    <3>2. i = Len(log[a]) + 1
      <4>1. Len(log'[a]) = Len(log[a]) + 1
        BY <2>1, <3>1, InsertEffect DEF Shape
      <4> QED BY <2>3, <2>5, <4>1
    <3>3. log'[a][i] = [ss |-> wr[w].ss, kind |-> wr[w].kind, env |-> wr[w].env]
      BY <2>1, <3>1, <3>2, InsertEffect DEF Shape
    <3> QED BY <2>2, <3>1, <3>3, LogGrows
  <2> QED BY <2>4, <2>5
<1> QED BY <1>1, <1>2, LogEffect

\* The Appends are about entries that the log may hold.
LEMMA WriterStep ==
    ASSUME Shape, [Next]_vars
    PROVE  WriterOK'
<1>a. /\ TypeOK /\ WriterOK /\ wr \in [Writer -> AppendSet]
      /\ "driver" \in Writer /\ "marker" \in Writer /\ Writer = {"driver", "marker"}
      /\ {"input", "output", "done", "marker"} \subseteq Kind
  BY DEF Shape, TypeOK, AppendSet, Writer, Kind
<1>b. /\ d.out \in Envelope /\ d.msg \in Envelope /\ d.conv \in Agent
      /\ NoEnvelope \in Envelope /\ NoAppend.pc = "idle" /\ Marker \in Envelope
      /\ Owner \in Agent /\ Marker.from \in Agent
  BY <1>a, InitialRecords, OwnerAssumption DEF TypeOK, NoAppend, Marker, NoEnvelope
<1>c. \A a \in Agent : HasInput(a) => HasInput(a)'
  BY LogGrows
<1>1. CASE wr' = wr /\ d' = d
  BY <1>1, <1>a, <1>b, <1>c DEF WriterOK, At
<1>2. CASE wr' = wr /\ ~At("logging")
  BY <1>2, <1>a DEF WriterOK, At
<1>3. CASE d.inputs /\ Goto("logging") /\ Begin("driver", d.conv, "input", d.msg)
  <2>1. d.msg.step # 0 /\ d.msg.to \in Agent
    BY <1>3 DEF Shape, DriverOK
  <2>2. d'.pc = "logging" /\ d'.conv = d.conv
    BY <1>3, <1>a DEF Goto, TypeOK
  <2>3. /\ wr'["driver"].pc = "step" /\ wr'["driver"].conv = d.conv
        /\ wr'["driver"].kind = "input" /\ wr'["driver"].env = d.msg
        /\ wr'["marker"] = wr["marker"]
    BY <1>3, <1>a, <1>b, BeginEffect
  <2> QED BY <1>a, <2>1, <2>2, <2>3 DEF WriterOK, EntryOK, At
<1>4. CASE Commit
  <2>1. HasInput(d.conv) /\ d.out.from \in Agent
    BY <1>4 DEF Commit, At, Shape, DriverOK
  <2>2. d'.pc = "logging" /\ d'.conv = d.conv
    BY <1>4, <1>a DEF Commit, Goto, TypeOK
  <2>3. HasInput(d.conv)'
    BY <1>b, <1>c, <2>1, <2>2
  <2>4. PICK kind \in {"done", "output"}, env \in Envelope :
            EntryOK(kind, env) /\ Begin("driver", d.conv, kind, env)
    BY <1>4, <1>b, <2>1 DEF Commit, EntryOK
  <2>5. /\ wr'["driver"].conv = d.conv
        /\ wr'["driver"].kind = kind /\ wr'["driver"].env = env
        /\ wr'["marker"] = wr["marker"]
    BY <1>a, <1>b, <2>4, BeginEffect
  <2> QED BY <1>a, <2>2, <2>3, <2>4, <2>5 DEF WriterOK, At
<1>5. CASE At("logging") /\ wr["driver"].kind = "output" /\ d' = d
           /\ wr["driver"].pc = "insert" /\ Begin("driver", d.conv, "done", NoEnvelope)
  <2>1. HasInput(d.conv)'
    BY <1>5, <1>a, <1>b, <1>c DEF WriterOK
  <2>2. /\ wr'["driver"].conv = d.conv /\ wr'["driver"].kind = "done"
        /\ wr'["marker"] = wr["marker"]
    BY <1>5, <1>a, <1>b, BeginEffect
  <2> QED BY <1>5, <1>a, <2>1, <2>2 DEF WriterOK, EntryOK, At
<1>6. CASE d' = d /\ \E w \in Writer : Reads(w)
  <2>1. PICK w \in Writer : Reads(w)
    BY <1>6
  <2>2. /\ wr[w].pc # "idle" /\ wr'[w].conv = wr[w].conv
        /\ wr'[w].kind = wr[w].kind /\ wr'[w].env = wr[w].env
        /\ \A v \in Writer : v # w => wr'[v] = wr[v]
    BY <1>a, <2>1, ReadsEffect
  <2> QED BY <1>6, <1>a, <1>b, <1>c, <2>2 DEF WriterOK, At
<1>7. CASE wr' = [wr EXCEPT !["driver"] = NoAppend]
  <2>1. wr'["driver"].pc = "idle" /\ wr'["marker"] = wr["marker"]
    BY <1>7, <1>a, <1>b
  <2> QED BY <1>a, <2>1 DEF WriterOK
<1>8. CASE d' = d /\ Begin("marker", Owner, "marker", Marker)
  <2>1. /\ wr'["marker"].kind = "marker" /\ wr'["marker"].env = Marker
        /\ wr'["driver"] = wr["driver"]
    BY <1>8, <1>a, <1>b, BeginEffect
  <2> QED BY <1>8, <1>a, <1>b, <1>c, <2>1 DEF WriterOK, EntryOK, At
<1>9. CASE d' = d /\ wr' = [wr EXCEPT !["marker"] = NoAppend]
  <2>1. wr'["marker"].pc = "idle" /\ wr'["driver"] = wr["driver"]
    BY <1>9, <1>a, <1>b
  <2> QED BY <1>9, <1>a, <1>b, <1>c, <2>1 DEF WriterOK, At
<1> QED
  <2>1. CASE Drive
    BY <2>1, <1>1, <1>2, <1>3, <1>4, <1>5, <1>6, <1>7, <1>a
    DEF Drive, establishRelayState, execA2A, Exec, AppendReads, Run, Logged, retryMismatch,
        recordTaskStatus, Pause, MarkTerminating, cleanupActors, TerminateSession, At
  <2>2. CASE Cancel
    BY <2>2, <1>1, <1>2, <1>6, <1>7, <1>8, <1>9, <1>a
    DEF Cancel, cancelAndWait, CancelTaskAndSession, AppendReads, appendCancellationMarker,
        ClaimForCleanup, Stop, At
  <2>3. CASE continueTask \/ CancelTask \/ Crash \/ Resume \/ discoverAndApply \/ storeCards
    BY <2>3, <1>1, <1>2, <1>7
    DEF continueTask, CancelTask, Crash, Resume, discoverAndApply, storeCards, Stop, At
  <2>4. CASE UNCHANGED vars
    BY <2>4, <1>1 DEF vars
  <2> QED BY <2>1, <2>2, <2>3, <2>4, SMTT(40) DEF Next

-----------------------------------------------------------------------------
(***************************************************************************)
(* The driver and the runtimes.                                             *)
(***************************************************************************)
\* A turn's answer comes from an agent, and the runtime remembers it.
LEMMA RunEffect ==
    ASSUME Shape, Run
    PROVE  /\ d.conv \in Agent /\ HasInput(d.conv) /\ d'.pc = "commit" /\ d'.conv = d.conv
           /\ d'.inputs = d.inputs /\ d'.msg = d.msg
           /\ d'.out.from \in Agent /\ RuntimeOK'
<1>1. d \in DriverSet /\ d.conv \in Agent /\ rt \in [Agent -> RuntimeState]
  BY DEF Shape, TypeOK, DriverSet
<1>2. HasInput(d.conv)
  BY DEF Shape, Run, At, DriverOK
<1>3. PendingMessage(d.conv) \in Envelope /\ PendingMessage(d.conv).step # 0
  BY <1>1, <1>2, PendingTyped DEF Shape
<1>4. PICK new \in Connect(d.conv, rt[d.conv], PendingMessage(d.conv),
                        historySteps(d.conv, pendingInput(d.conv)), spent.moves < MaxMoves) :
          /\ rt' = [rt EXCEPT ![d.conv] = new]
          /\ d' = [d EXCEPT !.pc = "commit", !.out = new.out]
  BY DEF Run
<1>5. rt[d.conv] \in RuntimeState /\ (rt[d.conv].last # 0 => rt[d.conv].out.from \in Agent)
  BY <1>1 DEF Shape, RuntimeOK
<1>6. new.out.from \in Agent
  BY <1>1, <1>3, <1>4, <1>5, ConnectTyped
<1>7. RuntimeOK'
  BY <1>1, <1>4, <1>6 DEF Shape, RuntimeOK
<1>8. /\ d'.pc = "commit" /\ d'.conv = d.conv /\ d'.out.from \in Agent
      /\ d'.inputs = d.inputs /\ d'.msg = d.msg
  BY <1>1, <1>4, <1>6 DEF DriverSet
<1> QED BY <1>1, <1>2, <1>7, <1>8

\* An actor only ever answers as an agent, whichever step changes its runtime.
LEMMA RuntimeStep ==
    ASSUME Shape, [Next]_vars
    PROVE  RuntimeOK'
<1>1. CASE rt' = rt
  BY <1>1 DEF Shape, RuntimeOK
<1>2. CASE Run
  BY <1>2, RunEffect
<1>3. CASE cleanupActors
  BY <1>3 DEF cleanupActors, Shape, RuntimeOK, NewRuntime
<1> QED
  <2>1. CASE Drive
    BY <2>1, <1>1, <1>2, <1>3
    DEF Drive, establishRelayState, execA2A, Exec, AppendReads, Commit, Logged, retryMismatch,
        recordTaskStatus, Pause, MarkTerminating, TerminateSession
  <2>2. CASE Cancel
    BY <2>2, <1>1
    DEF Cancel, cancelAndWait, CancelTaskAndSession, AppendReads, appendCancellationMarker,
        ClaimForCleanup
  <2>3. CASE continueTask \/ CancelTask \/ Crash \/ Resume \/ discoverAndApply \/ storeCards
    BY <2>3, <1>1
    DEF continueTask, CancelTask, Crash, Resume, discoverAndApply, storeCards
  <2>4. CASE UNCHANGED vars
    BY <2>4, <1>1 DEF vars
  <2> QED BY <2>1, <2>2, <2>3, <2>4 DEF Next

\* The driver asks a runtime only about turns that are logged, and passes on
\* only answers of agents.
LEMMA DriverStep ==
    ASSUME Shape, [Next]_vars
    PROVE  DriverOK'
<1>a. /\ TypeOK /\ DriverOK /\ d \in DriverSet /\ d.conv \in Agent
      /\ wr \in [Writer -> AppendSet] /\ "driver" \in Writer
  BY DEF Shape, TypeOK, DriverSet, AppendSet, Writer
<1>b. \A a \in Agent : HasInput(a) => HasInput(a)'
  BY LogGrows
<1>c. Idle \in DriverSet /\ Idle.inputs = FALSE
  BY InitialRecords DEF Idle
<1>1. CASE d' = d
  BY <1>1, <1>a, <1>b DEF DriverOK
<1>2. CASE /\ d'.pc \notin {"run", "commit"}
           /\ d'.inputs => d.inputs /\ d'.msg = d.msg
  BY <1>2, <1>a DEF DriverOK
<1>3. CASE \E label \in DriverState \ {"run", "commit"} : Goto(label)
  <2>1. PICK label \in DriverState \ {"run", "commit"} : Goto(label)
    BY <1>3
  <2>2. d'.pc = label /\ d'.inputs = d.inputs /\ d'.msg = d.msg
    BY <1>a, <2>1 DEF Goto, DriverSet
  <2> QED BY <1>2, <2>1, <2>2
<1>4. CASE Goto("run") /\ HasInput(d.conv)'
  <2>1. d'.pc = "run" /\ d'.inputs = d.inputs /\ d'.msg = d.msg
    BY <1>4, <1>a, SMTT(40) DEF Goto, DriverSet
  <2> QED BY <1>4, <1>a, <2>1 DEF DriverOK
<1>5. CASE establishRelayState
  <2>1. CASE d' = Notify([d EXCEPT !.pc = "drive", !.res = Bootstrap, !.fresh = TRUE])
    <3> DEFINE e == [d EXCEPT !.pc = "drive", !.res = Bootstrap, !.fresh = TRUE]
    <3>1. e \in DriverSet /\ e.pc = "drive" /\ e.inputs = d.inputs /\ e.msg = d.msg
      BY <1>a, InitialRecords DEF DriverSet, DriverState
    <3> HIDE DEF e
    <3>2. d'.pc = "drive" /\ d'.inputs = d.inputs /\ d'.msg = d.msg
      BY <2>1, <3>1, NotifyTyped, ZenonT(40) DEF e, DriverSet
    <3> QED BY <1>2, <3>2
  <2>2. CASE \E h \in lastHop :
               d' = IF Completed(h[1])
                    THEN Notify([d EXCEPT !.pc = "drive", !.res = EventAt(h[2]).env])
                    ELSE [d EXCEPT !.pc = "exec", !.conv = h[1][1], !.inputs = FALSE]
    <3>1. PICK h \in lastHop :
               d' = IF Completed(h[1])
                    THEN Notify([d EXCEPT !.pc = "drive", !.res = EventAt(h[2]).env])
                    ELSE [d EXCEPT !.pc = "exec", !.conv = h[1][1], !.inputs = FALSE]
      BY <2>2
    <3>2. EventAt(h[2]).env \in Envelope
      BY <1>a, LastHopPlaces, PlaceTyped DEF Event
    <3> DEFINE e == [d EXCEPT !.pc = "drive", !.res = EventAt(h[2]).env]
               f == [d EXCEPT !.pc = "exec", !.conv = h[1][1], !.inputs = FALSE]
    <3>3. /\ e \in DriverSet /\ e.pc = "drive" /\ e.inputs = d.inputs /\ e.msg = d.msg
          /\ f.pc = "exec" /\ f.inputs = FALSE
      BY <1>a, <3>2 DEF DriverSet, DriverState
    <3>4. d' = Notify(e) \/ d' = f
      BY <3>1
    <3> HIDE DEF e, f
    <3>5. d'.pc \in {"drive", "exec"} /\ (d'.inputs => d.inputs /\ d'.msg = d.msg)
      BY <3>3, <3>4, NotifyTyped DEF DriverSet
    <3> QED BY <1>2, <3>5
  <2> QED BY <1>5, <2>1, <2>2 DEF establishRelayState
<1>6. CASE execA2A
  <2>1. d.res \in Envelope /\ minted \in Nat
    BY <1>a DEF TypeOK
  <2>2. d.res.to \in Agent
    BY <1>6, <2>1 DEF execA2A, isTerminalReply, Envelope
  <2>3. PICK msg \in {d.res, [d.res EXCEPT !.step = minted + 1]} :
            /\ d' = [d EXCEPT !.pc = "exec", !.conv = d.res.to, !.msg = msg, !.inputs = TRUE]
            /\ msg = d.res => d.res.step # 0
    <3>1. [d.res EXCEPT !.step = minted + 1] = d.res => d.res.step # 0
      BY <2>1 DEF Envelope
    <3> QED BY <1>6, <3>1 DEF execA2A
  <2>4. msg.step # 0 /\ msg.to \in Agent
    BY <2>1, <2>2, <2>3 DEF Envelope
  <2>5. d'.pc = "exec" /\ d'.msg = msg
    BY <1>a, <2>3 DEF DriverSet
  <2> QED BY <2>4, <2>5 DEF DriverOK
<1>7. CASE Exec
  <2>1. CASE Pending(d.conv) /\ Goto("run")
    <3>1. HasInput(d.conv)
      BY <1>a, <2>1, PendingHasInput DEF Shape
    <3>2. d'.conv = d.conv
      BY <1>a, <2>1 DEF Goto, DriverSet
    <3>3. HasInput(d.conv)'
      BY <1>a, <1>b, <3>1, <3>2
    <3> QED BY <1>4, <2>1, <3>3
  <2> QED BY <1>7, <1>3, <2>1 DEF Exec, DriverState
<1>8. CASE Run
  <2>1. /\ d.conv \in Agent /\ HasInput(d.conv) /\ d'.pc = "commit" /\ d'.conv = d.conv
        /\ d'.inputs = d.inputs /\ d'.msg = d.msg /\ d'.out.from \in Agent
    BY <1>8, RunEffect
  <2>2. HasInput(d.conv)'
    BY <1>b, <2>1
  <2> QED BY <1>a, <2>1, <2>2 DEF DriverOK
<1>9. CASE Logged
  <2>1. CASE Insert("driver") /\ wr["driver"].kind = "input" /\ Goto("run")
    <3>1. wr["driver"].conv = d.conv
      BY <1>9 DEF Logged, Shape, WriterOK
    <3>2. d'.conv = d.conv
      BY <1>a, <2>1 DEF Goto, DriverSet
    <3>3. /\ log'[d.conv] \in Seq(Event)
          /\ Len(log'[d.conv]) = Len(log[d.conv]) + 1
          /\ log'[d.conv][Len(log[d.conv]) + 1].kind = "input"
      <4>1. /\ log' \in [Agent -> Seq(Event)]
            /\ Len(log'[wr["driver"].conv]) = Len(log[wr["driver"].conv]) + 1
            /\ log'[wr["driver"].conv][Len(log[wr["driver"].conv]) + 1] =
                   [ss |-> wr["driver"].ss, kind |-> wr["driver"].kind, env |-> wr["driver"].env]
        BY <1>a, <2>1, InsertEffect
      <4> QED BY <1>a, <2>1, <3>1, <4>1
    <3>4. log[d.conv] \in Seq(Event)
      BY <1>a DEF TypeOK
    <3>5. Len(log[d.conv]) + 1 \in DOMAIN log'[d.conv]
      BY <3>3, <3>4
    <3>6. HasInput(d.conv)'
      BY <3>2, <3>3, <3>5 DEF HasInput
    <3> QED BY <1>4, <2>1, <3>6
  <2> QED BY <1>9, <1>1, <1>3, <2>1 DEF Logged, DriverState
<1>10. CASE Commit \/ Pause \/ MarkTerminating \/ cleanupActors \/ TerminateSession
  BY <1>10, <1>3
  DEF Commit, Pause, MarkTerminating, cleanupActors, TerminateSession, DriverState
<1>10a. CASE retryMismatch
  BY <1>10a, <1>a, <1>2, RetryEffect
<1>11. CASE recordTaskStatus
  <2>1. CASE d' = [d EXCEPT !.pc = "cleanup", !.res = d.out]
    <3>1. d'.pc = "cleanup" /\ d'.inputs = d.inputs /\ d'.msg = d.msg
      BY <1>a, <2>1 DEF DriverSet
    <3> QED BY <1>2, <3>1
  <2>2. CASE d' = Notify([d EXCEPT !.pc = "drive", !.res = d.out, !.fresh = FALSE,
                                   !.hasTask = task'.state # "none",
                                   !.lost = d.lost /\ task' = task])
    <3> DEFINE e == [d EXCEPT !.pc = "drive", !.res = d.out, !.fresh = FALSE,
                              !.hasTask = task'.state # "none",
                              !.lost = d.lost /\ task' = task]
    <3>1. (task'.state # "none") \in BOOLEAN /\ (d.lost /\ task' = task) \in BOOLEAN
      OBVIOUS
    <3>2. e \in DriverSet /\ e.pc = "drive" /\ e.inputs = d.inputs /\ e.msg = d.msg
      BY <1>a, <3>1 DEF DriverSet, DriverState
    <3>3. d' = Notify(e)
      BY <2>2
    <3> HIDE DEF e
    <3>4. d'.pc = "drive" /\ d'.inputs = d.inputs /\ d'.msg = d.msg
      BY <3>2, <3>3, NotifyTyped DEF DriverSet
    <3> QED BY <1>2, <3>4
  <2> QED BY <1>11, <2>1, <2>2 DEF recordTaskStatus
<1>12. CASE continueTask
  <2>1. d'.pc = "drive" /\ d'.inputs = FALSE
    BY <1>12, <1>c DEF continueTask, loadServerSession, DriverSet
  <2> QED BY <1>2, <2>1
<1>13. CASE \E label \in {"rest", "down"} : Stop(label)
  <2>1. d'.pc \in {"rest", "down"} /\ d'.inputs = FALSE
    BY <1>13, <1>a, StopTyped
  <2> QED BY <1>2, <2>1
<1>14. CASE ClaimForCleanup
  <2>1. d' = d \/ (d'.pc = "cleanup" /\ d'.inputs = FALSE)
    BY <1>14, <1>c DEF ClaimForCleanup, DriverSet
  <2> QED BY <1>1, <1>2, <2>1
<1>15. CASE Resume
  <2>1. /\ d'.pc \in {"establish", "cleanup", "rest"}
        /\ d'.inputs = d.inputs /\ d'.msg = d.msg
    BY <1>15, <1>a DEF Resume, loadServerSession, DriverSet
  <2> QED BY <1>2, <2>1
<1>16. CASE CancelTask \/ CancelTaskAndSession \/ appendCancellationMarker
            \/ discoverAndApply \/ storeCards \/ (\E w \in Writer : AppendReads(w))
  BY <1>16, <1>1
  DEF CancelTask, CancelTaskAndSession, appendCancellationMarker, discoverAndApply, storeCards,
      AppendReads
<1>17. CASE cancelAndWait \/ Crash
  BY <1>17, <1>1, <1>13 DEF cancelAndWait, Crash
<1>18. CASE UNCHANGED vars
  BY <1>18, <1>1 DEF vars
<1> QED
  BY <1>5, <1>6, <1>7, <1>8, <1>9, <1>10, <1>10a, <1>11, <1>12, <1>14, <1>15, <1>16, <1>17,
     <1>18
  DEF Next, Drive, Cancel, Writer

-----------------------------------------------------------------------------
(***************************************************************************)
(* The order of the log, and the teardown.                                  *)
(***************************************************************************)
\* An event is one of those that MAX(session_step) looks at.
LEMMA EventCounts ==
    ASSUME TypeOK, NEW a \in Agent, NEW i \in DOMAIN log[a]
    PROVE  log[a][i].ss \in SessionSteps /\ log[a][i].ss \in Nat
<1>1. <<a, i>> \in Places
  BY DEF Places
<1>2. EventAt(<<a, i>>) = log[a][i]
  BY DEF EventAt
<1> QED BY <1>1, <1>2, StepsAreNumbers DEF SessionSteps

\* An Append that keeps what it has read keeps exceeding the events before it,
\* because these are never changed.
LEMMA NumbersStep ==
    ASSUME Shape, NumbersOK, [Next]_vars
    PROVE  NumbersOK'
<1>a. TypeOK /\ wr \in [Writer -> AppendSet] /\ NoAppend.pc = "idle"
  BY DEF Shape, TypeOK, AppendSet, NoAppend
<1> SUFFICES ASSUME NEW w \in Writer
             PROVE  /\ wr'[w].pc \in {"session", "insert"} =>
                          wr'[w].step <= Len(log'[wr'[w].conv]) + 1
                    /\ wr'[w].pc = "insert" =>
                          \A i \in DOMAIN log'[wr'[w].conv] :
                              i < wr'[w].step => log'[wr'[w].conv][i].ss < wr'[w].ss
  BY DEF NumbersOK
<1>b. /\ wr[w].conv \in Agent /\ wr[w].step \in Nat
      /\ log[wr[w].conv] \in Seq(Event) /\ Len(log[wr[w].conv]) \in Nat
  BY <1>a DEF TypeOK, AppendSet
<1>c. /\ \A i \in DOMAIN log[wr[w].conv] : i \in DOMAIN log'[wr[w].conv]
                                           /\ log'[wr[w].conv][i] = log[wr[w].conv][i]
      /\ Len(log[wr[w].conv]) <= Len(log'[wr[w].conv])
  BY <1>b, LogGrows
<1>d. log'[wr[w].conv] \in Seq(Event) /\ Len(log'[wr[w].conv]) \in Nat
  <2>1. TypeOK'
    BY TypeStep
  <2> QED BY <1>b, <2>1 DEF TypeOK
<1>1. CASE wr'[w] = wr[w]
  <2>1. CASE wr[w].pc \in {"session", "insert"}
    <3>1. wr[w].step <= Len(log[wr[w].conv]) + 1
      BY <2>1 DEF NumbersOK
    <3>2. wr[w].step <= Len(log'[wr[w].conv]) + 1
      BY <1>b, <1>c, <1>d, <3>1
    <3>3. ASSUME wr[w].pc = "insert", NEW i \in DOMAIN log'[wr[w].conv], i < wr[w].step
          PROVE  log'[wr[w].conv][i].ss < wr[w].ss
      <4>1. i \in DOMAIN log[wr[w].conv]
        BY <1>b, <1>d, <3>1, <3>3
      <4> QED BY <1>c, <3>3, <4>1 DEF NumbersOK
    <3> QED BY <1>1, <3>2, <3>3
  <2> QED BY <1>1, <2>1
<1>2. CASE wr'[w].pc \in {"idle", "step"}
  BY <1>2
<1>3. CASE log' = log /\ Reads(w)
  <2>1. CASE wr'[w].pc = "session" /\ wr'[w].step = Len(log[wr[w].conv]) + 1
    BY <1>3, <1>a, <1>b, <2>1, ReadsEffect
  <2>2. CASE /\ wr[w].pc = "session"
             /\ wr'[w].pc = "insert" /\ wr'[w].step = wr[w].step
             /\ \A n \in SessionSteps : n < wr'[w].ss
    <3>1. wr[w].step <= Len(log[wr[w].conv]) + 1
      BY <2>2 DEF NumbersOK
    <3>2. \A i \in DOMAIN log[wr[w].conv] : log[wr[w].conv][i].ss < wr'[w].ss
      BY <1>a, <1>b, <2>2, EventCounts
    <3>3. wr'[w].conv = wr[w].conv
      BY <1>3, <1>a, ReadsEffect
    <3> QED BY <1>3, <2>2, <3>1, <3>2, <3>3
  <2> QED BY <1>3, <1>a, <2>1, <2>2, ReadsEffect
<1>4. ASSUME NEW v \in Writer, Reads(v), log' = log
      PROVE  wr'[w] = wr[w] \/ (log' = log /\ Reads(w))
  BY <1>4, <1>a, ReadsEffect
<1>5. ASSUME NEW v \in Writer, wr' = [wr EXCEPT ![v] = NoAppend]
      PROVE  wr'[w] = wr[w] \/ wr'[w].pc = "idle"
  BY <1>5, <1>a
<1>6. ASSUME NEW v \in Writer, NEW a, NEW kind, NEW env, Begin(v, a, kind, env)
      PROVE  wr'[w] = wr[w] \/ wr'[w].pc = "step"
  BY <1>6, <1>a DEF Begin, NoAppend
<1>7. \/ wr' = wr
      \/ \E v \in Writer : Reads(v) /\ log' = log
      \/ \E v \in Writer : wr' = [wr EXCEPT ![v] = NoAppend]
      \/ \E v \in Writer : \E a, kind, env : Begin(v, a, kind, env)
  <2>a. "driver" \in Writer /\ "marker" \in Writer
    BY SMTT(40) DEF Writer
  <2>1. CASE establishRelayState \/ execA2A \/ Run \/ retryMismatch \/ recordTaskStatus \/ Pause
             \/ MarkTerminating \/ cleanupActors \/ TerminateSession
    BY <2>1 DEF establishRelayState, execA2A, Run, retryMismatch, recordTaskStatus, Pause,
                MarkTerminating, cleanupActors, TerminateSession
  <2>2. CASE Exec \/ Commit \/ Logged
    BY <2>2, <2>a, Zenon DEF Exec, Commit, Logged
  <2>3. CASE \E v \in Writer : AppendReads(v)
    BY <2>3 DEF AppendReads, store
  <2>4. CASE cancelAndWait \/ CancelTaskAndSession \/ appendCancellationMarker
             \/ ClaimForCleanup \/ Crash
    BY <2>4, <2>a, Zenon DEF cancelAndWait, CancelTaskAndSession, appendCancellationMarker,
                             ClaimForCleanup, Crash, Stop
  <2>5. CASE continueTask \/ CancelTask \/ Resume \/ discoverAndApply \/ storeCards
             \/ UNCHANGED vars
    BY <2>5 DEF continueTask, CancelTask, Resume, discoverAndApply, storeCards, vars
  <2> QED BY <2>a, <2>1, <2>2, <2>3, <2>4, <2>5 DEF Next, Drive, Cancel
<1> QED BY <1>1, <1>2, <1>3, <1>4, <1>5, <1>6, <1>7

\* An INSERT whose key is free has the greatest number of its conversation.
LEMMA OrderStep ==
    ASSUME Shape, NumbersOK, OrderOfRecord, [Next]_vars
    PROVE  OrderOfRecord'
<1>1. CASE log' = log
  BY <1>1 DEF OrderOfRecord
<1>2. CASE \E w \in Writer : wr[w].pc = "insert" /\ KeyIsFree(w) /\ Insert(w)
  <2>1. PICK w \in Writer : wr[w].pc = "insert" /\ KeyIsFree(w) /\ Insert(w)
    BY <1>2
  <2> SUFFICES ASSUME NEW a \in Agent, NEW i \in DOMAIN log'[a], NEW j \in DOMAIN log'[a],
                      i < j
               PROVE  log'[a][i].ss < log'[a][j].ss
    BY DEF OrderOfRecord
  <2>2. CASE a # wr[w].conv
    <3>1. log'[a] = log[a]
      BY <2>1, <2>2, InsertEffect DEF Shape
    <3> QED BY <3>1 DEF OrderOfRecord
  <2>3. CASE a = wr[w].conv
    <3>1. log[a] \in Seq(Event) /\ log'[a] \in Seq(Event)
      BY <2>1, InsertEffect DEF Shape, TypeOK
    <3>2. /\ Len(log'[a]) = Len(log[a]) + 1
          /\ log'[a][Len(log[a]) + 1].ss = wr[w].ss
          /\ \A k \in DOMAIN log[a] : log'[a][k] = log[a][k]
      <4>1. /\ Len(log'[a]) = Len(log[a]) + 1
            /\ log'[a][Len(log[a]) + 1] =
                   [ss |-> wr[w].ss, kind |-> wr[w].kind, env |-> wr[w].env]
            /\ \A k \in DOMAIN log[a] : log'[a][k] = log[a][k]
        BY <2>1, <2>3, InsertEffect DEF Shape
      <4> QED BY <4>1
    <3>3. i \in DOMAIN log[a]
      BY <3>1, <3>2
    <3>4. CASE j \in DOMAIN log[a]
      BY <3>2, <3>3, <3>4 DEF OrderOfRecord
    <3>5. CASE j = Len(log[a]) + 1
      <4>1. wr[w].step = Len(log[a]) + 1
        BY <2>1, <2>3 DEF KeyIsFree
      <4>2. i < wr[w].step
        BY <3>1, <3>3, <4>1
      <4>3. log[a][i].ss < wr[w].ss
        BY <2>1, <2>3, <3>3, <4>2 DEF NumbersOK
      <4> QED BY <3>2, <3>3, <3>5, <4>3
    <3> QED BY <3>1, <3>2, <3>4, <3>5
  <2> QED BY <2>2, <2>3
<1> QED BY <1>1, <1>2, LogEffect

\* A cancellation's marker is no dispatch.
LEMMA MarkerEffect ==
    ASSUME Shape, [Next]_vars, appendCancellationMarker
    PROVE  Dispatched' = Dispatched
<1> SUFFICES ASSUME NEW a \in Agent PROVE HasInput(a)' <=> HasInput(a)
  BY DEF Dispatched, HasInput
<1>1. HasInput(a) => HasInput(a)'
  BY LogGrows
<1>2. CASE log' = log
  BY <1>2 DEF HasInput
<1>3. CASE Insert("marker")
  <2>1. "marker" \in Writer /\ wr["marker"].kind = "marker"
    BY DEF appendCancellationMarker, Shape, WriterOK, Writer
  <2>2. log[a] \in Seq(Event) /\ log'[a] \in Seq(Event)
    BY <1>3, <2>1, InsertEffect, ZenonT(40) DEF Shape, TypeOK
  <2>3. CASE a # wr["marker"].conv
    <3>1. log'[a] = log[a]
      BY <1>3, <2>1, <2>3, InsertEffect DEF Shape
    <3> QED BY <3>1 DEF HasInput
  <2>4. CASE a = wr["marker"].conv
    <3>1. /\ Len(log'[a]) = Len(log[a]) + 1
          /\ log'[a][Len(log[a]) + 1] =
                 [ss |-> wr["marker"].ss, kind |-> wr["marker"].kind, env |-> wr["marker"].env]
          /\ \A k \in DOMAIN log[a] : log'[a][k] = log[a][k]
      BY <1>3, <2>1, <2>4, InsertEffect DEF Shape
    <3>2. log'[a][Len(log[a]) + 1].kind = "marker"
      BY <2>1, <3>1
    <3>3. \A k \in DOMAIN log'[a] : k \in DOMAIN log[a] \/ k = Len(log[a]) + 1
      BY <2>2, <3>1
    <3>4. HasInput(a)' => HasInput(a)
      BY <3>1, <3>2, <3>3 DEF HasInput
    <3> QED BY <1>1, <3>4
  <2> QED BY <2>3, <2>4
<1> QED BY <1>2, <1>3 DEF appendCancellationMarker

\* The teardown holds until the session is continued.
LEMMA TeardownStep ==
    ASSUME Shape, TeardownOK, [Next]_vars
    PROVE  TeardownOK'
<1>a. /\ TypeOK /\ d \in DriverSet /\ Idle \in DriverSet
      /\ sess \in {"RUNNING", "TERMINATING", "TERMINATED"}
  BY InitialRecords DEF Shape, TypeOK, DriverSet
<1> DEFINE Over == {"rest", "down", "cleanup", "terminate"}
           Same == actors' = actors /\ left' = left /\ Dispatched' = Dispatched
           Ended == sess' = "TERMINATED" => sess = "TERMINATED"
<1>b. log' = log => Dispatched' = Dispatched
  BY DEF Dispatched
<1>1. CASE Same /\ Ended /\ d' = d
  BY <1>1 DEF TeardownOK, At
<1>2. CASE /\ d.pc \notin Over /\ d'.pc # "terminate" /\ Ended
           /\ d'.revived = d.revived
  BY <1>2 DEF TeardownOK, At
<1>3. CASE /\ Same /\ Ended /\ d'.revived = d.revived
           /\ d'.pc \in {"rest", "down", "cleanup"}
  BY <1>3 DEF TeardownOK, At
<1>4. CASE d'.pc # "terminate" /\ (sess' = "TERMINATED" => d'.revived)
  BY <1>4 DEF TeardownOK, At
<1>c. ASSUME NEW label, Goto(label)
      PROVE  d'.pc = label /\ d'.revived = d.revived
  BY <1>a, <1>c DEF Goto, DriverSet
<1>5. CASE establishRelayState
  <2>1. d.pc = "establish" /\ sess' = sess
    BY <1>5 DEF establishRelayState, At, store
  <2>2. d'.pc \in {"drive", "exec"} /\ d'.revived = d.revived
    <3>1. PICK e \in DriverSet :
              e.pc \in {"drive", "exec"} /\ e.revived = d.revived /\ d' \in {e, Notify(e)}
      <4>1. CASE d' = Notify([d EXCEPT !.pc = "drive", !.res = Bootstrap, !.fresh = TRUE])
        <5> DEFINE e == [d EXCEPT !.pc = "drive", !.res = Bootstrap, !.fresh = TRUE]
        <5>1. e \in DriverSet /\ e.pc = "drive" /\ e.revived = d.revived
          BY <1>a, InitialRecords DEF DriverSet, DriverState
        <5> QED BY <4>1, <5>1
      <4>2. CASE \E h \in lastHop :
                   d' = IF Completed(h[1])
                        THEN Notify([d EXCEPT !.pc = "drive", !.res = EventAt(h[2]).env])
                        ELSE [d EXCEPT !.pc = "exec", !.conv = h[1][1], !.inputs = FALSE]
        <5>1. PICK h \in lastHop :
                   d' = IF Completed(h[1])
                        THEN Notify([d EXCEPT !.pc = "drive", !.res = EventAt(h[2]).env])
                        ELSE [d EXCEPT !.pc = "exec", !.conv = h[1][1], !.inputs = FALSE]
          BY <4>2
        <5>2. h[1][1] \in Agent /\ EventAt(h[2]).env \in Envelope
          BY <1>a, LastHopPlaces, PlaceTyped DEF Event
        <5> DEFINE e == [d EXCEPT !.pc = "drive", !.res = EventAt(h[2]).env]
                   f == [d EXCEPT !.pc = "exec", !.conv = h[1][1], !.inputs = FALSE]
        <5>3. /\ e \in DriverSet /\ e.pc = "drive" /\ e.revived = d.revived
              /\ f \in DriverSet /\ f.pc = "exec" /\ f.revived = d.revived
          BY <1>a, <5>2 DEF DriverSet, DriverState
        <5> QED BY <5>1, <5>3
      <4> QED BY <1>5, <4>1, <4>2 DEF establishRelayState
    <3> QED BY <3>1, NotifyTyped, SMTT(40) DEF DriverSet
  <2> QED BY <1>2, <2>1, <2>2
<1>6. CASE execA2A
  <2>1. d.pc = "drive" /\ sess' = sess /\ d'.pc = "exec" /\ d'.revived = d.revived
    BY <1>6, <1>a DEF execA2A, At, store, DriverSet
  <2> QED BY <1>2, <2>1
<1>7. CASE Run
  <2>1. d.pc = "run" /\ sess' = sess /\ d'.pc = "commit" /\ d'.revived = d.revived
    BY <1>7, <1>a DEF Run, At, store, DriverSet
  <2> QED BY <1>2, <2>1
<1>8a. CASE retryMismatch
  <2>1. d.pc = "record" /\ sess' = sess
    BY <1>8a DEF retryMismatch, At, store
  <2> QED BY <1>8a, <1>a, <1>2, <2>1, RetryEffect
<1>8. CASE Exec \/ Commit \/ Logged
  <2>1. /\ d.pc \in {"exec", "commit", "logging"} /\ sess' = sess
        /\ d' = d \/ \E label \in {"run", "logging", "exec", "record"} : Goto(label)
    BY <1>8 DEF Exec, Commit, Logged, At, store
  <2> QED BY <1>2, <1>c, <2>1
<1>9. CASE recordTaskStatus
  <2>1. d.pc = "record" /\ sess' = sess
    BY <1>9 DEF recordTaskStatus, At
  <2>2. d'.pc \in {"cleanup", "drive"} /\ d'.revived = d.revived
    <3>1. CASE d' = [d EXCEPT !.pc = "cleanup", !.res = d.out]
      BY <1>a, <3>1 DEF DriverSet
    <3>2. CASE d' = Notify([d EXCEPT !.pc = "drive", !.res = d.out, !.fresh = FALSE,
                                     !.hasTask = task'.state # "none",
                                     !.lost = d.lost /\ task' = task])
      <4> DEFINE e == [d EXCEPT !.pc = "drive", !.res = d.out, !.fresh = FALSE,
                                !.hasTask = task'.state # "none",
                                !.lost = d.lost /\ task' = task]
      <4>1. (task'.state # "none") \in BOOLEAN /\ (d.lost /\ task' = task) \in BOOLEAN
        OBVIOUS
      <4>2. e \in DriverSet /\ e.pc = "drive" /\ e.revived = d.revived
        <5>1. d \in DriverSet /\ d.out \in Envelope /\ "drive" \in DriverState
          BY <1>a DEF DriverSet, DriverState
        <5>2. e \in DriverSet
          BY <4>1, <5>1 DEF DriverSet
        <5>3. e.pc = "drive" /\ e.revived = d.revived
          BY <5>1 DEF DriverSet
        <5> QED BY <5>2, <5>3
      <4>3. d' = Notify(e)
        BY <3>2
      <4> HIDE DEF e
      <4> QED BY <4>2, <4>3, NotifyTyped DEF DriverSet
    <3> QED BY <1>9, <3>1, <3>2 DEF recordTaskStatus
  <2> QED BY <1>2, <2>1, <2>2
<1>10. CASE Pause \/ MarkTerminating
  <2>1. d.pc = "drive" /\ Ended /\ \E label \in {"rest", "cleanup"} : Goto(label)
    BY <1>10, <1>a DEF Pause, MarkTerminating, At, store
  <2> QED BY <1>2, <1>c, <2>1
<1>11. CASE cleanupActors
  <2>1. d'.pc = "terminate" /\ sess' = sess
    BY <1>11, <1>c DEF cleanupActors, store
  <2>2. PICK deleted :
            /\ actors' = actors \ deleted
            /\ left' = (left \cup (actors \cap visitedActorsFromHistory)) \ deleted
    BY <1>11 DEF cleanupActors
  <2>3. Dispatched' = visitedActorsFromHistory
    BY <1>11, <1>b DEF cleanupActors, store, Dispatched, visitedActorsFromHistory
  <2>4. (actors \cap Dispatched \subseteq left)'
    BY <2>2, <2>3
  <2> QED BY <2>1, <2>4 DEF TeardownOK, At
<1>12. CASE TerminateSession
  <2>1. Same /\ d'.pc = "rest" /\ d.pc = "terminate"
    BY <1>12, <1>b, <1>c DEF TerminateSession, At
  <2> QED BY <2>1 DEF TeardownOK, At
<1>13. CASE continueTask
  <2>1. d'.pc = "drive" /\ sess' = sess /\ (sess # "RUNNING" => d'.revived)
    BY <1>13, <1>a DEF continueTask, loadServerSession, store, DriverSet
  <2> QED BY <1>4, <2>1
<1>14. CASE cancelAndWait \/ Crash
  <2>1. Same /\ Ended
    BY <1>14, <1>b DEF cancelAndWait, Crash, store
  <2>2. d' = d \/ (d'.pc \in {"rest", "down"} /\ d'.revived = d.revived)
    BY <1>14, <1>a, StopTyped DEF cancelAndWait, Crash
  <2> QED BY <1>1, <1>3, <2>1, <2>2
<1>15. CASE ClaimForCleanup
  <2>1. Same /\ Ended
    BY <1>15, <1>b DEF ClaimForCleanup, store
  <2>2. d' = d \/ (d'.pc = "cleanup" /\ d'.revived = d.revived)
    BY <1>15, <1>a DEF ClaimForCleanup, DriverSet
  <2> QED BY <1>1, <1>3, <2>1, <2>2
<1>16. CASE Resume
  <2>1. Same /\ sess' = sess /\ d'.revived = d.revived
    BY <1>16, <1>a, <1>b DEF Resume, store, loadServerSession, DriverSet
  <2>2. /\ d'.pc \in {"establish", "cleanup", "rest"}
        /\ sess = "TERMINATED" => d'.pc = "rest"
    BY <1>16, <1>a DEF Resume, loadServerSession, DriverSet
  <2> QED BY <2>1, <2>2 DEF TeardownOK, At
<1>17. CASE CancelTask \/ CancelTaskAndSession \/ discoverAndApply \/ storeCards
            \/ (\E w \in Writer : AppendReads(w))
  BY <1>17, <1>1, <1>a, <1>b
  DEF CancelTask, CancelTaskAndSession, discoverAndApply, storeCards, AppendReads, store
<1>18. CASE appendCancellationMarker
  <2>1. Same /\ Ended /\ d' = d
    BY <1>18, MarkerEffect DEF appendCancellationMarker
  <2> QED BY <1>1, <2>1
<1>19. CASE UNCHANGED vars
  BY <1>19, <1>1, <1>b DEF vars
<1> QED
  BY <1>5, <1>6, <1>7, <1>8, <1>8a, <1>9, <1>10, <1>11, <1>12, <1>13, <1>14, <1>15, <1>16, <1>17,
     <1>18, <1>19
  DEF Next, Drive, Cancel, Writer

-----------------------------------------------------------------------------
(***************************************************************************)
(* The theorems.                                                            *)
(***************************************************************************)
\* A new session satisfies the invariant.
LEMMA InitIInv == Init => IInv
<1> SUFFICES ASSUME Init PROVE IInv
  OBVIOUS
<1>1. /\ "idle" \in {"idle", "step", "session", "insert"} /\ Agent \subseteq ValidIDs
      /\ NoAppend \in AppendSet /\ NoAppend.pc = "idle" /\ Idle \in DriverSet
      /\ Idle.inputs = FALSE /\ NewRuntime \in RuntimeState /\ NewRuntime.last = 0
  BY InitialRecords, OwnerAssumption DEF NoAppend, Idle, NewRuntime
<1>2. d \in DriverSet /\ d.pc = "establish" /\ d.inputs = FALSE
  BY <1>1 DEF Init, DriverSet, DriverState
<1>3. TypeOK
  <2>1. log \in [Agent -> Seq(Event)] /\ wr \in [Writer -> AppendSet]
    BY <1>1 DEF Init
  <2> QED BY <1>1, <1>2, <2>1 DEF Init, TypeOK, DriverSet, AppendSet, TaskData
<1>4. LogOK /\ OrderOfRecord
  BY DEF Init, LogOK, OrderOfRecord
<1>5. WriterOK /\ NumbersOK
  BY <1>1 DEF Init, WriterOK, NumbersOK, Writer
<1>6. DriverOK /\ TeardownOK
  BY <1>2 DEF Init, DriverOK, TeardownOK, At
<1>7. RuntimeOK
  BY <1>1 DEF Init, RuntimeOK
<1> QED BY <1>3, <1>4, <1>5, <1>6, <1>7 DEF IInv, Shape

\* Every step preserves it, and so it always holds.
LEMMA Invariance == Spec => []IInv
<1>1. IInv /\ [Next]_vars => IInv'
  BY TypeStep, LogStep, WriterStep, DriverStep, RuntimeStep, NumbersStep, OrderStep, TeardownStep
  DEF IInv, Shape
<1> QED BY InitIInv, <1>1, PTL DEF Spec

\* The variables hold what their tables, processes and actors can hold: in
\* particular a turn that is run has an input to run on, and a client's message
\* is only ever delivered to an agent.
THEOREM TypeCorrect == Spec => []TypeOK
BY Invariance, PTL DEF IInv, Shape

\* Append's session-wide order agrees with the order of each conversation,
\* however the driver's and a cancellation's Appends interleave: step and
\* session_step are read in that order, and the key on step refuses the later of
\* two that read the same.
THEOREM RecordIsOrdered == Spec => []OrderOfRecord
BY Invariance, PTL DEF IInv

\* finishTermination leaves no actor that a logged turn was dispatched to, but
\* those whose deletion failed, whatever cancels, crashes and resumes meanwhile.
THEOREM TeardownIsComplete == Spec => []TornDown
<1>1. IInv => TornDown
  BY DEF IInv, TeardownOK, TornDown
<1> QED BY Invariance, <1>1, PTL
=============================================================================
