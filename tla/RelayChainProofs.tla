-------------------------- MODULE RelayChainProofs --------------------------
(***************************************************************************)
(* What is proved of the chain of hops in Relay, for every set of agents and  *)
(* any number of calls, messages, crashes and resumptions: that the event log, *)
(* read by a resumption at any hop, says what the running loop holds; that the *)
(* task row tells how a session ended; that a reply finds the invocation that  *)
(* made the call, however calls nest; and that a client that is woken finds    *)
(* the task row.                                                            *)
(***************************************************************************)
EXTENDS RelayProofs

----------------------------------------------------------------------------
(***************************************************************************)
(* The inductive invariant.  It speaks of a log without markers: once one is  *)
(* there it stays.                                                          *)
(***************************************************************************)
LastOf(a) == log[a][Len(log[a])]

\* The event before the last: the envelope of a turn that is done, and the input of
\* one that has an output.
Before(a) == log[a][Len(log[a]) - 1]

\* No turn of the conversation is pending.
Whole(a) == log[a] # <<>> => LastOf(a).kind = "done"
AllWhole == \A a \in Agent : Whole(a)

\* A turn is logged as its input, its output and its completion.
TailOK(a) ==
    log[a] # <<>> =>
        /\ LastOf(a).kind \in {"input", "output", "done"}
        /\ LastOf(a).kind = "output" => Len(log[a]) > 1 /\ Before(a).kind = "input"
        /\ LastOf(a).kind = "done" => Len(log[a]) > 1 /\ Before(a).kind = "output"

\* The newest envelope of the conversation.
Newer(a) == IF LastOf(a).kind = "done" THEN Before(a) ELSE LastOf(a)

\* The conversation that the chain is at: all others are done, and their events older.
Leads(a) ==
    /\ a \in Agent /\ log[a] # <<>>
    /\ \A b \in Agent : b # a =>
           Whole(b) /\ \A j \in DOMAIN log[b] : log[b][j].ss < Newer(a).ss

ShapeOfLog ==
    /\ \A a \in Agent : TailOK(a)
    /\ (\A a \in Agent : log[a] = <<>>) \/ \E a \in Agent : Leads(a)

\* The message of the turn that is pending.
Awaits(a) == IF LastOf(a).kind = "output" THEN Before(a).env ELSE LastOf(a).env

\* The runtime would answer a turn that has its output in the log with this output.
Agree(a) ==
    log[a] # <<>> /\ LastOf(a).kind = "output" =>
        rt[a].last = Awaits(a).step /\ rt[a].out = LastOf(a).env

\* The pending turn is another one than that of execA2A's message.
Other == d.inputs /\ Awaits(d.conv).step # d.msg.step

\* The turn's answer is the one that the runtime remembers.
Fits == rt[d.conv].out = d.out /\ rt[d.conv].last = Awaits(d.conv).step

\* What the driver knows of the log at each of its steps.
AtDrive ==
    /\ ~d.fresh => \E a \in Agent : Leads(a) /\ Whole(a) /\ Before(a).env = d.res
    /\ d.fresh => d.res.to \in Agent /\ (AllWhole \/ Leads(d.res.to))
AtExec ==
    /\ d.inputs => AllWhole \/ Leads(d.conv)
    /\ ~d.inputs => Leads(d.conv) /\ ~Whole(d.conv)
    /\ Agree(d.conv) \/ Other
AtRun == Leads(d.conv) /\ ~Whole(d.conv) /\ (Agree(d.conv) \/ Other)
AtCommit ==
    /\ Leads(d.conv) /\ ~Whole(d.conv)
    /\ LastOf(d.conv).kind = "output" => LastOf(d.conv).env = d.out \/ Mismatch
    /\ LastOf(d.conv).kind = "input" => Fits
AtRecord == Leads(d.conv) /\ Whole(d.conv) /\ (Before(d.conv).env = d.out \/ Mismatch)

\* What the driver's Append is about to insert, and where.
AtLogging ==
    LET w == wr["driver"] IN
    /\ w.pc # "idle" /\ w.kind \in {"input", "output", "done"}
    /\ w.kind = "input" => AllWhole
    /\ w.kind # "input" => Leads(d.conv) /\ ~Whole(d.conv)
    /\ w.kind = "output" => LastOf(d.conv).kind = "input" /\ w.env = d.out /\ Fits
    /\ w.kind = "done" =>
           LastOf(d.conv).kind = "output" /\ (LastOf(d.conv).env = d.out \/ Mismatch)
    /\ w.pc \in {"session", "insert"} => w.step = Len(log[d.conv]) + 1
    /\ w.pc = "insert" => \A a \in Agent : \A j \in DOMAIN log[a] : log[a][j].ss < w.ss

ChainOK ==
    /\ ShapeOfLog
    /\ At("drive") => AtDrive
    /\ At("exec") => AtExec
    /\ At("run") => AtRun
    /\ At("commit") => AtCommit
    /\ At("logging") => AtLogging
    /\ At("record") => AtRecord
    /\ At("establish") \/ sess = "RUNNING" => \A a \in Agent : Agree(a)

\* Actors are deleted only in a session that is ending, and a driver that is resumed
\* has no client's message.
EndOK ==
    /\ d.pc \in {"establish", "down"} => ~d.fresh
    /\ d.pc \in {"cleanup", "terminate"} => sess # "RUNNING"
    /\ cx.pc \in {"marker", "claim"} => sess # "RUNNING"

\* Answers are said by the actor that was asked, under the StepID it was asked with.
SaidOK ==
    /\ \A a \in Agent : rt[a].last # 0 => rt[a].out.from = a /\ rt[a].out.step = rt[a].last
    /\ \A a \in Agent : \A i \in DOMAIN log[a] :
           log[a][i].kind = "output" => log[a][i].env.from = a
    /\ At("commit") => d.out.from = d.conv
    /\ wr["driver"].pc # "idle" /\ wr["driver"].kind = "output" => wr["driver"].env.from = d.conv

\* No StepID is newer than the newest.
MintedOK ==
    /\ minted > 0
    /\ \A a \in Agent : \A i \in DOMAIN log[a] : log[a][i].env.step <= minted
    /\ \A a \in Agent : rt[a].out.step <= minted
    /\ \A w \in Writer : wr[w].env.step <= minted
    /\ d.res.step <= minted /\ d.msg.step <= minted /\ d.out.step <= minted

CInv == EndOK /\ SaidOK /\ MintedOK /\ (~Canceled => ChainOK)

----------------------------------------------------------------------------
(* The log, and what a resumption reads from it. *)

\* Places are pairs of an agent and a position.
LEMMA PlaceIs ==
  ASSUME TypeOK
  PROVE  /\ \A a \in Agent : \A i \in DOMAIN log[a] :
              <<a, i>> \in Places /\ EventAt(<<a, i>>) = log[a][i]
         /\ \A p \in Places : p = <<p[1], p[2]>>
<1>1. ASSUME NEW a \in Agent, NEW i \in DOMAIN log[a]
      PROVE  <<a, i>> \in Places /\ EventAt(<<a, i>>) = log[a][i]
  <2>1. <<a, i>> \in {<<a, k>> : k \in DOMAIN log[a]}
    OBVIOUS
  <2>2. <<a, i>> \in Places
    BY <2>1 DEF Places
  <2>3. EventAt(<<a, i>>) = log[a][i]
    BY DEF EventAt
  <2> QED  BY <2>2, <2>3
<1>2. ASSUME NEW p \in Places PROVE p = <<p[1], p[2]>>
  <2>1. PICK a \in Agent : p \in {<<a, k>> : k \in DOMAIN log[a]}
    BY DEF Places
  <2>2. PICK k \in DOMAIN log[a] : p = <<a, k>>
    BY <2>1
  <2> QED  BY <2>2
<1> QED  BY <1>1, <1>2

\* What is typed, for one conversation.
LEMMA ConvIs ==
  ASSUME TypeOK, NEW a \in Agent
  PROVE  /\ log[a] \in Seq(Event) /\ Len(log[a]) \in Nat /\ DOMAIN log[a] = 1..Len(log[a])
         /\ log[a] # <<>> <=> Len(log[a]) > 0
         /\ \A i \in 1..Len(log[a]) :
              /\ log[a][i].ss \in Nat /\ log[a][i].kind \in Kind /\ log[a][i].env \in Envelope
<1>1. log[a] \in Seq(Event)
  BY DEF TypeOK
<1>2. Len(log[a]) \in Nat /\ DOMAIN log[a] = 1..Len(log[a]) /\ (log[a] # <<>> <=> Len(log[a]) > 0)
  BY <1>1
<1>3. \A i \in 1..Len(log[a]) : log[a][i] \in Event
  BY <1>1
<1> QED  BY <1>1, <1>2, <1>3 DEF Event

\* Where the newest event and the newest envelope are.
LEMMA LastHopIs ==
  ASSUME TypeOK, OrderOfRecord, ShapeOfLog, NEW h \in lastHop
  PROVE  \E a \in Agent :
           /\ Leads(a) /\ h[1][1] = a /\ EventAt(h[1]) = LastOf(a) /\ EventAt(h[2]) = Newer(a)
<1>1. h[1] \in Newest(Places) /\ h[2] \in Newest({p \in Places : EventAt(p).kind # "done"})
  BY DEF lastHop
<1>2. PICK p, q : p = h[1] /\ q = h[2]
  OBVIOUS
<1>3. /\ p \in Places /\ \A r \in Places : EventAt(r).ss <= EventAt(p).ss
      /\ q \in Places /\ EventAt(q).kind # "done"
      /\ \A r \in Places : EventAt(r).kind # "done" => EventAt(r).ss <= EventAt(q).ss
  BY <1>1, <1>2 DEF Newest
<1>4. PICK b, j : b \in Agent /\ j \in DOMAIN log[b] /\ p = <<b, j>> /\ EventAt(p) = log[b][j]
  BY <1>3, PlaceIs, PlaceTyped DEF EventAt
<1>5. PICK e, k : e \in Agent /\ k \in DOMAIN log[e] /\ q = <<e, k>> /\ EventAt(q) = log[e][k]
  BY <1>3, PlaceIs, PlaceTyped DEF EventAt
<1>6. PICK a \in Agent : Leads(a)
  BY <1>4 DEF ShapeOfLog
<1>7. PICK n \in Nat : n = Len(log[a]) /\ n > 0 /\ n \in DOMAIN log[a] /\ DOMAIN log[a] = 1..n
  BY <1>6, ConvIs DEF Leads
<1>8. /\ LastOf(a) = log[a][n] /\ TailOK(a) /\ log[a] # <<>>
      /\ \A i \in 1..n : log[a][i].ss \in Nat
  BY <1>6, <1>7, ConvIs DEF LastOf, ShapeOfLog, Leads
<1>9. /\ log[a][n].ss <= EventAt(p).ss
      /\ \A i \in 1..n : i < n => log[a][i].ss < log[a][n].ss
  <2>1. <<a, n>> \in Places /\ EventAt(<<a, n>>) = log[a][n]
    BY <1>7, PlaceIs
  <2> QED  BY <1>3, <1>7, <2>1 DEF OrderOfRecord
<1>10. PICK m \in 1..n : /\ Newer(a) = log[a][m] /\ log[a][m].kind # "done"
                         /\ m = n \/ (m < n /\ LastOf(a).kind = "done" /\ m = n - 1)
  <2>1. CASE LastOf(a).kind = "done"
    BY <1>7, <1>8, <2>1 DEF Newer, Before, TailOK
  <2>2. CASE LastOf(a).kind # "done"
    BY <1>7, <1>8, <2>2 DEF Newer
  <2> QED  BY <2>1, <2>2
<1>11. \A f \in Agent : f # a => \A i \in DOMAIN log[f] : log[f][i].ss < log[a][m].ss
  BY <1>6, <1>10 DEF Leads
<1>12. b = a /\ e = a
  <2>1. <<a, m>> \in Places /\ EventAt(<<a, m>>) = log[a][m]
    BY <1>7, PlaceIs
  <2>2. log[a][m].ss <= log[b][j].ss /\ log[a][m].ss <= log[e][k].ss
    BY <1>3, <1>4, <1>5, <1>10, <2>1
  <2>3. log[b][j].ss \in Nat /\ log[e][k].ss \in Nat /\ log[a][m].ss \in Nat
    BY <1>4, <1>5, <1>8, ConvIs
  <2> QED  BY <1>4, <1>5, <1>11, <2>2, <2>3
<1>13. j = n
  <2>1. j \in 1..n /\ log[a][j].ss \in Nat /\ log[a][n].ss \in Nat
    BY <1>4, <1>7, <1>8, <1>12
  <2>2. log[a][n].ss <= log[a][j].ss
    BY <1>4, <1>9, <1>12
  <2> QED  BY <1>9, <2>1, <2>2
<1>14. k = m
  <2>1. k \in 1..n /\ log[a][k].ss \in Nat /\ log[a][m].ss \in Nat /\ log[a][k].kind # "done"
    BY <1>3, <1>5, <1>7, <1>8, <1>12
  <2>2. <<a, m>> \in Places /\ EventAt(<<a, m>>) = log[a][m]
    BY <1>7, PlaceIs
  <2>3. log[a][m].ss <= log[a][k].ss
    BY <1>3, <1>5, <1>10, <1>12, <2>2
  <2>4. k < m \/ k = m \/ (m < k /\ k = n /\ LastOf(a).kind = "done")
    BY <1>7, <1>10, <2>1
  <2>5. k < m => log[a][k].ss < log[a][m].ss
    BY <1>7, <1>12, <2>1 DEF OrderOfRecord
  <2> QED  BY <1>8, <2>1, <2>3, <2>4, <2>5
<1> QED  BY <1>2, <1>4, <1>5, <1>6, <1>8, <1>10, <1>12, <1>13, <1>14

\* The maximum of a set of positions.
LEMMA MaxIs ==
  ASSUME NEW n \in Nat, NEW S, S \subseteq 1..n, NEW k \in S, \A y \in S : k >= y
  PROVE  Max(S) = k
<1>1. PICK m : m = Max(S) /\ m \in S /\ \A y \in S : m >= y
  BY DEF Max
<1>2. m \in Nat /\ k \in Nat /\ m >= k /\ k >= m
  BY <1>1
<1> QED  BY <1>1, <1>2

\* A pending turn, in a log without markers.
LEMMA PendingIs ==
  ASSUME TypeOK, NEW a \in Agent, TailOK(a), ~Canceled
  PROVE  /\ Pending(a) <=> ~Whole(a)
         /\ pendingOutputs(a) <=> (log[a] # <<>> /\ LastOf(a).kind = "output")
         /\ ~Whole(a) => PendingMessage(a) = Awaits(a)
<1>1. PICK n \in Nat : n = Len(log[a]) /\ DOMAIN log[a] = 1..n /\ (log[a] # <<>> <=> n > 0)
  BY ConvIs
<1>2. \A i \in 1..n : log[a][i].kind # "marker"
  BY <1>1 DEF Canceled
<1>3. PICK S : S = {i \in DOMAIN log[a] : log[a][i].kind # "marker"} /\ S = 1..n
  BY <1>1, <1>2
<1>4. /\ n > 0 => Max(S) = n /\ S # {}
      /\ n = 0 => S = {}
  <2>1. ASSUME n > 0 PROVE Max(S) = n /\ S # {}
    <3>1. n \in S /\ \A y \in S : n >= y
      BY <1>3, <2>1
    <3> QED  BY <1>3, <3>1, MaxIs
  <2> QED  BY <1>3, <2>1
<1>5. Pending(a) <=> ~Whole(a)
  <2>1. Pending(a) <=> S # {} /\ log[a][Max(S)].kind # "done"
    BY <1>3 DEF Pending
  <2> QED  BY <1>1, <1>4, <2>1 DEF Whole, LastOf
<1>6. pendingOutputs(a) <=> (log[a] # <<>> /\ LastOf(a).kind = "output")
  BY DEF pendingOutputs, LastOf
<1>7. ASSUME ~Whole(a) PROVE PendingMessage(a) = Awaits(a)
  <2>1. n > 0 /\ LastOf(a) = log[a][n] /\ log[a][n].kind \in {"input", "output"}
    BY <1>1, <1>7 DEF Whole, TailOK, LastOf
  <2>2. PICK T : T = {i \in DOMAIN log[a] : log[a][i].kind = "input"}
    OBVIOUS
  <2>3. CASE log[a][n].kind = "input"
    <3>1. n \in T /\ \A i \in T : n >= i
      BY <1>1, <2>1, <2>2, <2>3
    <3>2. T \subseteq 1..n
      BY <1>1, <2>2
    <3>3. Max(T) = n
      BY <3>1, <3>2, MaxIs
    <3> QED  BY <2>1, <2>2, <2>3, <3>3 DEF PendingMessage, pendingInput, Awaits
  <2>4. CASE log[a][n].kind = "output"
    <3>1. n > 1 /\ Before(a) = log[a][n - 1] /\ Before(a).kind = "input"
      BY <1>1, <1>7, <2>1, <2>4 DEF TailOK, Before, Whole
    <3>2. n - 1 \in T /\ \A i \in T : n - 1 >= i
      BY <1>1, <2>2, <2>4, <3>1
    <3>3. T \subseteq 1..n
      BY <1>1, <2>2
    <3>4. Max(T) = n - 1
      BY <3>2, <3>3, MaxIs
    <3> QED  BY <2>1, <2>2, <2>4, <3>1, <3>4 DEF PendingMessage, pendingInput, Awaits
  <2> QED  BY <2>1, <2>3, <2>4
<1> QED  BY <1>5, <1>6, <1>7

\* Only one conversation leads.
LEMMA OneLeader ==
  ASSUME TypeOK, ShapeOfLog, NEW a \in Agent, NEW b \in Agent, Leads(a), Leads(b)
  PROVE  a = b
<1>1. \A e \in Agent : Leads(e) => \E i \in DOMAIN log[e] : Newer(e) = log[e][i]
  <2> SUFFICES ASSUME NEW e \in Agent, Leads(e) PROVE \E i \in DOMAIN log[e] : Newer(e) = log[e][i]
    OBVIOUS
  <2>1. PICK n \in Nat : n = Len(log[e]) /\ n > 0 /\ DOMAIN log[e] = 1..n
    BY ConvIs DEF Leads
  <2>2. TailOK(e) /\ log[e] # <<>>
    BY DEF ShapeOfLog, Leads
  <2>3. CASE LastOf(e).kind = "done"
    <3>1. n > 1 /\ Newer(e) = log[e][n - 1]
      BY <2>1, <2>2, <2>3 DEF TailOK, Newer, Before
    <3> QED  BY <2>1, <3>1
  <2>4. CASE LastOf(e).kind # "done"
    <3>1. Newer(e) = log[e][n]
      BY <2>1, <2>4 DEF Newer, LastOf
    <3> QED  BY <2>1, <3>1
  <2> QED  BY <2>3, <2>4
<1>2. PICK i, j : /\ i \in DOMAIN log[a] /\ Newer(a) = log[a][i]
                  /\ j \in DOMAIN log[b] /\ Newer(b) = log[b][j]
  BY <1>1
<1>3. log[a][i].ss \in Nat /\ log[b][j].ss \in Nat
  BY <1>2, ConvIs
<1> QED  BY <1>2, <1>3 DEF Leads

\* A conversation that leads and is whole leaves no turn pending.
LEMMA LeaderWhole ==
  ASSUME NEW a \in Agent, Leads(a), Whole(a)
  PROVE  AllWhole
BY DEF Leads, AllWhole

----------------------------------------------------------------------------
(* Steps that leave the log alone. *)

\* What is said of the log alone.
LEMMA SameLog ==
  ASSUME log' = log
  PROVE  /\ ShapeOfLog' <=> ShapeOfLog
         /\ AllWhole' <=> AllWhole
         /\ Canceled' <=> Canceled
         /\ \A a \in Agent :
              /\ (Leads(a)' <=> Leads(a)) /\ (Whole(a)' <=> Whole(a))
              /\ LastOf(a)' = LastOf(a) /\ Before(a)' = Before(a) /\ Awaits(a)' = Awaits(a)
              /\ log[a]' = log[a]
              /\ rt'[a] = rt[a] => (Agree(a)' <=> Agree(a))
<1>1. \A a \in Agent :
              /\ LastOf(a)' = LastOf(a) /\ Before(a)' = Before(a) /\ Awaits(a)' = Awaits(a)
              /\ Newer(a)' = Newer(a) /\ log[a]' = log[a]
  BY DEF LastOf, Before, Awaits, Newer
<1>2. \A a \in Agent : (Whole(a)' <=> Whole(a)) /\ (TailOK(a)' <=> TailOK(a))
  BY <1>1 DEF Whole, TailOK
<1>3. \A a \in Agent : Leads(a)' <=> Leads(a)
  BY <1>1, <1>2 DEF Leads
<1>4. (ShapeOfLog' <=> ShapeOfLog) /\ (AllWhole' <=> AllWhole) /\ (Canceled' <=> Canceled)
  BY <1>2, <1>3 DEF ShapeOfLog, AllWhole, Canceled
<1>5. \A a \in Agent : rt'[a] = rt[a] => (Agree(a)' <=> Agree(a))
  BY <1>1 DEF Agree
<1> QED  BY <1>1, <1>2, <1>3, <1>4, <1>5

\* Steps of others: neither the driver nor its Append, nor any actor.
LEMMA OthersStep ==
  ASSUME TypeOK, ChainOK, log' = log, rt' = rt, d' = d, wr'["driver"] = wr["driver"],
         sess' = "RUNNING" => sess = "RUNNING"
  PROVE  ChainOK'
<1>1. d.conv \in Agent
  BY DEF TypeOK
<1>2. ShapeOfLog'
  BY SameLog DEF ChainOK
<1>3. (At("drive") => AtDrive)'
  BY SameLog DEF ChainOK, At, AtDrive
<1>4. (At("exec") => AtExec)'
  BY <1>1, SameLog DEF ChainOK, At, AtExec, Other
<1>5. (At("run") => AtRun)'
  BY <1>1, SameLog DEF ChainOK, At, AtRun, Other
<1>6. (At("commit") => AtCommit)'
  BY <1>1, SameLog DEF ChainOK, At, AtCommit, Mismatch, Fits
<1>7. (At("record") => AtRecord)'
  BY <1>1, SameLog DEF ChainOK, At, AtRecord, Mismatch
<1>8. (At("logging") => AtLogging)'
  BY <1>1, SameLog DEF ChainOK, At, AtLogging, Mismatch, Fits
<1>9. (At("establish") \/ sess = "RUNNING" => \A a \in Agent : Agree(a))'
  BY SameLog DEF ChainOK, At
<1> QED  BY <1>2, <1>3, <1>4, <1>5, <1>6, <1>7, <1>8, <1>9 DEF ChainOK

\* The driver has nothing in hand afterwards.
LEMMA ParkedStep ==
  ASSUME TypeOK, ChainOK, log' = log,
         d'.pc \in {"rest", "down", "cleanup", "terminate"},
         sess' = "RUNNING" => sess = "RUNNING" /\ rt' = rt
  PROVE  ChainOK'
<1>1. ShapeOfLog'
  BY SameLog DEF ChainOK
<1>2. (At("establish") \/ sess = "RUNNING" => \A a \in Agent : Agree(a))'
  BY SameLog DEF ChainOK, At
<1> QED  BY <1>1, <1>2 DEF ChainOK, At

\* What the driver knows of its session, and the ghosts, stay.
SameSession ==
    /\ d'.first = d.first /\ d'.hasTask = d.hasTask
    /\ d'.lost = d.lost /\ d'.revived = d.revived

\* What a step of the program counter leaves alone.
LEMMA GotoEffect ==
  ASSUME TypeOK, NEW label, Goto(label)
  PROVE  /\ d'.pc = label /\ d'.conv = d.conv /\ d'.msg = d.msg /\ d'.out = d.out
         /\ d'.res = d.res /\ d'.fresh = d.fresh /\ d'.inputs = d.inputs /\ SameSession
<1>1. d \in DriverSet
  BY DEF TypeOK, DriverSet
<1> QED  BY <1>1 DEF Goto, DriverSet, SameSession

\* A client that is woken does not change the driver's hop.
LEMMA NotifyEffect ==
  ASSUME NEW e \in DriverSet
  PROVE  /\ Notify(e).pc = e.pc /\ Notify(e).res = e.res /\ Notify(e).fresh = e.fresh
         /\ Notify(e).msg = e.msg /\ Notify(e).out = e.out /\ Notify(e).conv = e.conv
         /\ Notify(e).inputs = e.inputs /\ Notify(e).first = e.first
         /\ Notify(e).hasTask = e.hasTask /\ Notify(e).lost = e.lost
         /\ Notify(e).revived = e.revived
<1>1. \/ Notify(e) = e
      \/ Notify(e) = [e EXCEPT !.shown = e.res.data]
  BY DEF Notify
<1> QED  BY <1>1 DEF DriverSet

\* The driver that a crash or a cancellation leaves behind.
LEMMA StopEffect ==
  ASSUME TypeOK, NEW label, Stop(label)
  PROVE  /\ d'.pc = label /\ d'.fresh = FALSE
         /\ d'.res = NoEnvelope /\ d'.msg = NoEnvelope /\ d'.out = NoEnvelope
         /\ d'.first = Owner /\ d'.inputs = FALSE /\ d'.revived = d.revived
         /\ ~d'.lost => ~d.lost /\ ~(At("record") /\ d.out.from = d.first)
         /\ wr'["driver"] = NoAppend /\ wr'["marker"] = wr["marker"]
<1>1. wr \in [Writer -> AppendSet]
  BY DEF TypeOK, AppendSet
<1>2. wr'["driver"] = NoAppend /\ wr'["marker"] = wr["marker"]
  BY <1>1 DEF Stop, Writer
<1>3. /\ d'.pc = label /\ d'.fresh = FALSE
      /\ d'.res = NoEnvelope /\ d'.msg = NoEnvelope /\ d'.out = NoEnvelope
  BY SMTT(40) DEF Stop, Idle
<1>4. d'.first = Owner /\ d'.inputs = FALSE /\ d'.revived = d.revived
  BY SMTT(40) DEF Stop, Idle
<1>5. ~d'.lost => ~d.lost /\ ~(At("record") /\ d.out.from = d.first)
  <2>1. PICK l : l = (d.lost \/ (At("record") /\ d.out.from = d.first))
    OBVIOUS
  <2>2. d'.lost = l
    BY <2>1, SMTT(40) DEF Stop, Idle
  <2> QED  BY <2>1, <2>2
<1> QED  BY <1>2, <1>3, <1>4, <1>5

----------------------------------------------------------------------------
(* The steps of the driver that write no event. *)

\* A resumption takes up the chain at the hop where the log is.
LEMMA EstablishChain ==
  ASSUME IInv, ChainOK, EndOK, establishRelayState
  PROVE  ChainOK'
<1>1. /\ log' = log /\ rt' = rt /\ sess' = sess /\ At("establish") /\ ~d.fresh
      /\ TypeOK /\ OrderOfRecord /\ d \in DriverSet
  BY DEF establishRelayState, store, EndOK, At, IInv, Shape, TypeOK, DriverSet
<1>2. ShapeOfLog /\ ShapeOfLog' /\ \A a \in Agent : Agree(a) /\ Agree(a)'
  BY <1>1, SameLog DEF ChainOK
<1>3. CASE Places = {} /\ d' = Notify([d EXCEPT !.pc = "drive", !.res = Bootstrap,
                                                !.fresh = TRUE])
  <2>1. PICK e \in DriverSet : e = [d EXCEPT !.pc = "drive", !.res = Bootstrap, !.fresh = TRUE]
    BY <1>1, InitialRecords DEF DriverSet, DriverState
  <2>2. e.pc = "drive" /\ e.res = Bootstrap /\ e.fresh = TRUE
    BY <1>1, <2>1 DEF DriverSet
  <2>3. d'.pc = "drive" /\ d'.res = Bootstrap /\ d'.fresh = TRUE
    BY <1>3, <2>1, <2>2, NotifyEffect
  <2>4. Bootstrap.to = Owner /\ Owner \in Agent
    BY OwnerAssumption DEF Bootstrap, ClientMessage
  <2>5. AllWhole
    <3> SUFFICES ASSUME NEW a \in Agent, log[a] # <<>> PROVE FALSE
      BY DEF AllWhole, Whole
    <3>1. 1 \in DOMAIN log[a]
      BY <1>1, ConvIs
    <3> QED  BY <1>1, <1>3, <3>1, PlaceIs
  <2> QED  BY <1>1, <1>2, <2>3, <2>4, <2>5, SameLog DEF ChainOK, At, AtDrive
<1>4. CASE \E h \in lastHop :
             d' = IF Completed(h[1])
                  THEN Notify([d EXCEPT !.pc = "drive", !.res = EventAt(h[2]).env])
                  ELSE [d EXCEPT !.pc = "exec", !.conv = h[1][1], !.inputs = FALSE]
  <2>1. PICK h \in lastHop :
             d' = IF Completed(h[1])
                  THEN Notify([d EXCEPT !.pc = "drive", !.res = EventAt(h[2]).env])
                  ELSE [d EXCEPT !.pc = "exec", !.conv = h[1][1], !.inputs = FALSE]
    BY <1>4
  <2>2. PICK a \in Agent :
          Leads(a) /\ h[1][1] = a /\ EventAt(h[1]) = LastOf(a) /\ EventAt(h[2]) = Newer(a)
    BY <1>1, <1>2, LastHopIs
  <2>3. EventAt(h[2]).env \in Envelope /\ log[a] # <<>>
    BY <1>1, <2>2, LastHopPlaces, PlaceTyped DEF Event, Leads
  <2>4. CASE Completed(h[1])
    <3>1. PICK e \in DriverSet : e = [d EXCEPT !.pc = "drive", !.res = EventAt(h[2]).env]
      BY <1>1, <2>3 DEF DriverSet, DriverState
    <3>2. e.pc = "drive" /\ e.res = Newer(a).env /\ e.fresh = FALSE
      BY <1>1, <2>2, <3>1 DEF DriverSet
    <3>3. d'.pc = "drive" /\ d'.res = Newer(a).env /\ d'.fresh = FALSE
      BY <2>1, <2>4, <3>1, <3>2, NotifyEffect
    <3>4. Whole(a) /\ Newer(a) = Before(a)
      BY <2>2, <2>4 DEF Completed, Whole, Newer
    <3> QED  BY <1>1, <1>2, <2>2, <3>3, <3>4, SameLog DEF ChainOK, At, AtDrive
  <2>5. CASE ~Completed(h[1])
    <3>1. d'.pc = "exec" /\ d'.conv = a /\ d'.inputs = FALSE
      BY <1>1, <2>1, <2>2, <2>5 DEF DriverSet
    <3>2. ~Whole(a)
      BY <2>2, <2>3, <2>5 DEF Completed, Whole
    <3> QED  BY <1>1, <1>2, <2>2, <3>1, <3>2, SameLog DEF ChainOK, At, AtExec
  <2> QED  BY <2>4, <2>5
<1> QED  BY <1>3, <1>4, ZenonT(40) DEF establishRelayState

\* A whole conversation has no output that waits for its completion.
LEMMA WholeAgrees ==
  ASSUME NEW a \in Agent, Whole(a)
  PROVE  Agree(a)
BY DEF Whole, Agree

\* The message of the pending turn is in the log, as an input.
LEMMA AwaitsIsLogged ==
  ASSUME TypeOK, NEW a \in Agent, TailOK(a), ~Whole(a)
  PROVE  \E i \in DOMAIN log[a] : log[a][i].kind = "input" /\ Awaits(a) = log[a][i].env
<1>1. PICK n \in Nat : n = Len(log[a]) /\ n > 0 /\ DOMAIN log[a] = 1..n
  BY ConvIs DEF Whole
<1>2. CASE LastOf(a).kind = "output"
  <2>1. n > 1 /\ Before(a).kind = "input" /\ Awaits(a) = Before(a).env /\ Before(a) = log[a][n - 1]
    BY <1>1, <1>2 DEF TailOK, Awaits, Before
  <2> QED  BY <1>1, <2>1
<1>3. CASE LastOf(a).kind # "output"
  <2>1. LastOf(a).kind = "input" /\ Awaits(a) = LastOf(a).env /\ LastOf(a) = log[a][n]
    BY <1>1, <1>3 DEF TailOK, Whole, Awaits, LastOf
  <2> QED  BY <1>1, <2>1
<1> QED  BY <1>2, <1>3

\* A message is delivered under a StepID that no pending turn of the actor has.
LEMMA DeliverChain ==
  ASSUME IInv, ChainOK, MintedOK, execA2A
  PROVE  ChainOK'
<1>1. /\ log' = log /\ rt' = rt /\ sess' = sess /\ At("drive")
      /\ TypeOK /\ d \in DriverSet /\ d.res \in Envelope /\ d.res.to \in Agent /\ minted \in Nat
  BY DEF execA2A, store, At, IInv, Shape, TypeOK, DriverSet, isTerminalReply, Envelope
<1>2. ShapeOfLog /\ ShapeOfLog' /\ AtDrive
      /\ (sess' = "RUNNING" => \A a \in Agent : Agree(a)')
  BY <1>1, SameLog DEF ChainOK
<1>3. PICK msg : /\ d' = [d EXCEPT !.pc = "exec", !.conv = d.res.to, !.msg = msg, !.inputs = TRUE]
                 /\ \/ msg = [d.res EXCEPT !.step = minted + 1]
                    \/ msg = d.res /\ ~stepIDInUse(d.res.to, d.res.step)
  BY DEF execA2A
<1>4. PICK c \in Agent : c = d.res.to
  BY <1>1
<1>5. d'.pc = "exec" /\ d'.conv = c /\ d'.msg = msg /\ d'.inputs = TRUE
  BY <1>1, <1>3, <1>4 DEF DriverSet
<1>6. AllWhole \/ Leads(c)
  BY <1>2, <1>4, LeaderWhole DEF AtDrive
<1>7. Agree(c) \/ Awaits(c).step # msg.step
  <2>1. CASE Whole(c)
    BY <2>1, WholeAgrees
  <2>2. CASE ~Whole(c)
    <3>1. PICK i \in DOMAIN log[c] : log[c][i].kind = "input" /\ Awaits(c) = log[c][i].env
      BY <1>1, <1>2, <2>2, AwaitsIsLogged DEF ShapeOfLog
    <3>2. log[c][i].env.step <= minted /\ log[c][i].env.step \in Nat
      BY <1>1, <3>1, ConvIs DEF MintedOK, Envelope
    <3>3. CASE msg = [d.res EXCEPT !.step = minted + 1]
      <4>1. msg.step = minted + 1
        BY <1>1, <3>3 DEF Envelope
      <4> QED  BY <1>1, <3>1, <3>2, <4>1
    <3>4. CASE msg = d.res /\ ~stepIDInUse(d.res.to, d.res.step)
      BY <1>4, <3>1, <3>4 DEF stepIDInUse
    <3> QED  BY <1>3, <3>3, <3>4
  <2> QED  BY <2>1, <2>2
<1>8. AtExec'
  BY <1>1, <1>4, <1>5, <1>6, <1>7, SameLog DEF AtExec, Other
<1> QED  BY <1>1, <1>2, <1>5, <1>8 DEF ChainOK, At

\* Exec takes up the pending turn, or begins to log a new one.
LEMMA ExecChain ==
  ASSUME IInv, ChainOK, ~Canceled, Exec
  PROVE  ChainOK'
<1>1. /\ log' = log /\ rt' = rt /\ sess' = sess /\ At("exec") /\ d.conv \in Agent
      /\ TypeOK /\ d \in DriverSet /\ d.msg \in Envelope /\ wr \in [Writer -> AppendSet]
  BY DEF Exec, store, At, IInv, Shape, TypeOK, DriverSet, AppendSet
<1>2. ShapeOfLog /\ ShapeOfLog' /\ AtExec
      /\ (sess' = "RUNNING" => \A a \in Agent : Agree(a)')
  BY <1>1, SameLog DEF ChainOK
<1>3. PICK c \in Agent : c = d.conv
  BY <1>1
<1>4. Pending(c) <=> ~Whole(c)
  BY <1>1, <1>2, PendingIs DEF ShapeOfLog
<1>5. CASE Pending(d.conv) /\ Goto("run")
  <2>1. d'.pc = "run" /\ d'.conv = c /\ d'.inputs = d.inputs /\ d'.msg = d.msg
    BY <1>1, <1>3, <1>5, GotoEffect
  <2>2. Leads(c) /\ ~Whole(c) /\ (Agree(c) \/ (d.inputs /\ Awaits(c).step # d.msg.step))
    BY <1>2, <1>3, <1>4, <1>5 DEF AtExec, Other, AllWhole
  <2>3. AtRun'
    BY <1>1, <2>1, <2>2, SameLog DEF AtRun, Other
  <2> QED  BY <1>2, <2>1, <2>3 DEF ChainOK, At
<1>6. CASE /\ ~Pending(d.conv) /\ d.inputs /\ Goto("logging")
           /\ Begin("driver", d.conv, "input", d.msg)
  <2>1. d'.pc = "logging" /\ d'.conv = c
    BY <1>1, <1>3, <1>6, GotoEffect
  <2>2. wr'["driver"].pc = "step" /\ wr'["driver"].kind = "input"
    BY <1>1, <1>6, BeginEffect DEF Writer, Kind
  <2>3. AllWhole
    BY <1>2, <1>3, <1>4, <1>6, LeaderWhole DEF AtExec
  <2>4. AtLogging'
    BY <1>1, <2>2, <2>3, SameLog DEF AtLogging
  <2> QED  BY <1>2, <2>1, <2>4 DEF ChainOK, At
<1> QED  BY <1>5, <1>6 DEF Exec

----------------------------------------------------------------------------
(* The turn, and its events. *)

\* A turn answers as its own actor and under the StepID of its message, which the
\* runtime remembers; a turn that was answered changes nothing.
LEMMA ConnectSays ==
  ASSUME NEW a \in Agent, NEW r \in RuntimeState, NEW env \in Envelope, NEW history,
         NEW maySuspend, NEW new \in Connect(a, r, env, history, maySuspend), env.step # 0,
         r.last # 0 => r.out.from = a /\ r.out.step = r.last
  PROVE  /\ new.out.from = a /\ new.out.step = env.step /\ new.last = env.step
         /\ env.step = r.last => new = r
<1>1. CASE env.step = r.last
  <2>1. new = r
    BY <1>1 DEF Connect
  <2> QED  BY <1>1, <2>1
<1>2. CASE env.step # r.last
  <2>1. PICK inv \in deliverOnce(a, r, env, history) :
            \E y \in Returns(a, inv) \cup Suspends(a, inv) : new = routeOrAwait(r, env, y)
    BY <1>2 DEF Connect
  <2>2. PICK y \in Returns(a, inv) \cup Suspends(a, inv) : new = routeOrAwait(r, env, y)
    BY <2>1
  <2>3. y.env \in Envelope /\ y.env.from = a
    BY <2>1, <2>2, Delivered, HandsOut
  <2>4. PICK o : o = [y.env EXCEPT !.step = env.step]
    OBVIOUS
  <2>5. o.from = a /\ o.step = env.step
    BY <2>3, <2>4 DEF Envelope
  <2>6. new.out = o /\ new.last = env.step
    BY <2>2, <2>4 DEF routeOrAwait
  <2> QED  BY <1>2, <2>5, <2>6
<1> QED  BY <1>1, <1>2

\* What a turn leaves in the driver's hands and in the runtime.
LEMMA TurnEffect ==
  ASSUME Shape, SaidOK, Run
  PROVE  /\ d.conv \in Agent /\ d'.pc = "commit" /\ d'.conv = d.conv
         /\ d'.msg = d.msg /\ d'.inputs = d.inputs /\ d'.res = d.res /\ SameSession
         /\ rt'[d.conv].out = d'.out /\ rt'[d.conv].last = PendingMessage(d.conv).step
         /\ d'.out.from = d.conv /\ d'.out.step = PendingMessage(d.conv).step
         /\ rt[d.conv].last = PendingMessage(d.conv).step => rt'[d.conv] = rt[d.conv]
         /\ \A a \in Agent : a # d.conv => rt'[a] = rt[a]
         /\ PendingMessage(d.conv) \in Envelope /\ HasInput(d.conv)
<1>1. d \in DriverSet /\ d.conv \in Agent /\ rt \in [Agent -> RuntimeState]
  BY DEF Shape, TypeOK, DriverSet
<1>2. HasInput(d.conv)
  BY DEF Shape, Run, At, DriverOK
<1>3. PendingMessage(d.conv) \in Envelope /\ PendingMessage(d.conv).step # 0
  BY <1>1, <1>2, PendingTyped DEF Shape
<1>4. PICK new \in Connect(d.conv, rt[d.conv], PendingMessage(d.conv),
                        historySteps(d.conv, pendingInput(d.conv)), spent.moves < MaxMoves) :
          /\ rt' = [rt EXCEPT ![d.conv] = new]
          /\ d' = [d EXCEPT !.pc = "commit", !.out = new.out]
  BY DEF Run
<1>5. /\ rt[d.conv] \in RuntimeState
      /\ rt[d.conv].last # 0 =>
             rt[d.conv].out.from = d.conv /\ rt[d.conv].out.step = rt[d.conv].last
  BY <1>1 DEF SaidOK
<1>6. /\ new.out.from = d.conv /\ new.out.step = PendingMessage(d.conv).step
      /\ new.last = PendingMessage(d.conv).step
      /\ PendingMessage(d.conv).step = rt[d.conv].last => new = rt[d.conv]
  BY <1>1, <1>3, <1>4, <1>5, ConnectSays
<1>7. /\ d'.pc = "commit" /\ d'.conv = d.conv /\ d'.out = new.out
      /\ d'.msg = d.msg /\ d'.inputs = d.inputs /\ d'.res = d.res /\ SameSession
  BY <1>1, <1>4 DEF DriverSet, SameSession
<1>8. rt'[d.conv] = new /\ \A a \in Agent : a # d.conv => rt'[a] = rt[a]
  BY <1>1, <1>4
<1> QED  BY <1>1, <1>2, <1>3, <1>6, <1>7, <1>8

\* The turn's answer is the one that is logged, if one is, or the turn is another one
\* than the driver came for.
LEMMA RunChain ==
  ASSUME IInv, ChainOK, SaidOK, ~Canceled, Run
  PROVE  ChainOK'
<1>1. /\ log' = log /\ sess' = sess /\ At("run") /\ d.conv \in Agent /\ TypeOK /\ Shape
  BY DEF Run, store, At, IInv, Shape, TypeOK
<1>2. ShapeOfLog /\ ShapeOfLog' /\ AtRun
  BY <1>1, SameLog DEF ChainOK
<1>3. PICK c \in Agent : c = d.conv
  BY <1>1
<1>4. Leads(c) /\ ~Whole(c) /\ (Agree(c) \/ (d.inputs /\ Awaits(c).step # d.msg.step))
  BY <1>2, <1>3 DEF AtRun, Other
<1>5. PendingMessage(c) = Awaits(c) /\ log[c] # <<>>
  BY <1>1, <1>2, <1>4, PendingIs DEF ShapeOfLog, Whole
<1>6. /\ d'.pc = "commit" /\ d'.conv = c /\ d'.msg = d.msg /\ d'.inputs = d.inputs
      /\ rt'[c].out = d'.out /\ rt'[c].last = Awaits(c).step /\ d'.out.step = Awaits(c).step
      /\ rt[c].last = Awaits(c).step => rt'[c] = rt[c]
      /\ \A a \in Agent : a # c => rt'[a] = rt[a]
  BY <1>1, <1>3, <1>5, TurnEffect
<1>7. Agree(c) /\ LastOf(c).kind = "output" => d'.out = LastOf(c).env /\ rt'[c] = rt[c]
  BY <1>5, <1>6 DEF Agree
<1>8. AtCommit'
  <2>1. Fits'
    BY <1>1, <1>3, <1>6, SameLog DEF Fits
  <2>2. LastOf(c).kind = "output" => LastOf(c).env = d'.out \/ Mismatch'
    BY <1>4, <1>6, <1>7 DEF Mismatch
  <2> QED  BY <1>1, <1>4, <1>6, <2>1, <2>2, SameLog DEF AtCommit
<1>9. ASSUME sess = "RUNNING", NEW a \in Agent PROVE Agree(a)'
  <2>1. Agree(a) /\ Agree(c)
    BY <1>9 DEF ChainOK
  <2>2. CASE rt'[a] = rt[a]
    BY <1>1, <2>1, <2>2, SameLog
  <2>3. CASE rt'[a] # rt[a]
    <3>1. a = c /\ LastOf(c).kind # "output"
      BY <1>6, <1>7, <2>1, <2>3
    <3> QED  BY <1>1, <3>1, SameLog DEF Agree
  <2> QED  BY <2>2, <2>3
<1> QED  BY <1>1, <1>2, <1>6, <1>8, <1>9 DEF ChainOK, At

\* The reply is about to be logged, or was, and the turn is about to be completed.
LEMMA CommitChain ==
  ASSUME IInv, ChainOK, ~Canceled, Commit
  PROVE  ChainOK'
<1>1. /\ log' = log /\ rt' = rt /\ sess' = sess /\ At("commit") /\ d.conv \in Agent
      /\ TypeOK /\ d.out \in Envelope /\ NoEnvelope \in Envelope
  BY InitialRecords DEF Commit, store, At, IInv, Shape, TypeOK
<1>2. ShapeOfLog /\ ShapeOfLog' /\ AtCommit
      /\ (sess' = "RUNNING" => \A a \in Agent : Agree(a)')
  BY <1>1, SameLog DEF ChainOK
<1>3. PICK c \in Agent : c = d.conv
  BY <1>1
<1>4. Leads(c) /\ ~Whole(c) /\ log[c] # <<>> /\ LastOf(c).kind \in {"input", "output"}
  BY <1>2, <1>3 DEF AtCommit, Whole, ShapeOfLog, TailOK
<1>5. /\ d'.pc = "logging" /\ d'.conv = c /\ d'.msg = d.msg /\ d'.inputs = d.inputs
      /\ d'.out = d.out
  BY <1>1, <1>3, GotoEffect DEF Commit
<1>6. pendingOutputs(d.conv) <=> LastOf(c).kind = "output"
  BY <1>3, <1>4 DEF pendingOutputs, LastOf
<1>7. CASE LastOf(c).kind = "output"
  <2>1. Begin("driver", d.conv, "done", NoEnvelope)
    BY <1>6, <1>7 DEF Commit
  <2>2. wr'["driver"].pc = "step" /\ wr'["driver"].kind = "done"
    BY <1>1, <2>1, BeginEffect DEF Writer, Kind
  <2>3. LastOf(c).env = d.out \/ Mismatch
    BY <1>2, <1>3, <1>7 DEF AtCommit
  <2>4. LastOf(c).env = d'.out \/ Mismatch'
    BY <1>5, <2>3 DEF Mismatch
  <2>5. AtLogging'
    BY <1>1, <1>4, <1>5, <1>7, <2>2, <2>4, SameLog DEF AtLogging
  <2> QED  BY <1>2, <1>5, <2>5 DEF ChainOK, At
<1>8. CASE LastOf(c).kind = "input"
  <2>1. Begin("driver", d.conv, "output", d.out)
    BY <1>6, <1>8 DEF Commit
  <2>2. wr'["driver"].pc = "step" /\ wr'["driver"].kind = "output" /\ wr'["driver"].env = d.out
    BY <1>1, <2>1, BeginEffect DEF Writer, Kind
  <2>3. rt[c].out = d.out /\ rt[c].last = Awaits(c).step
    BY <1>2, <1>3, <1>8 DEF AtCommit, Fits
  <2>4. Fits'
    BY <1>1, <1>5, <2>3, SameLog DEF Fits
  <2>5. AtLogging'
    BY <1>1, <1>4, <1>5, <1>8, <2>2, <2>4, SameLog DEF AtLogging
  <2> QED  BY <1>2, <1>5, <2>5 DEF ChainOK, At
<1> QED  BY <1>4, <1>7, <1>8

\* The driver's Append reads its numbers: nobody else writes to a log without markers.
LEMMA ReadsChain ==
  ASSUME IInv, ChainOK, AppendReads("driver")
  PROVE  ChainOK'
<1>1. /\ log' = log /\ rt' = rt /\ sess' = sess /\ d' = d /\ Reads("driver")
      /\ d.conv \in Agent /\ TypeOK /\ WriterOK /\ "driver" \in Writer
  BY DEF AppendReads, store, IInv, Shape, TypeOK, Writer
<1>2. /\ wr["driver"].pc # "idle"
      /\ wr'["driver"].kind = wr["driver"].kind /\ wr'["driver"].env = wr["driver"].env
      /\ \/ wr'["driver"].pc = "session" /\ wr'["driver"].step = Len(log[wr["driver"].conv]) + 1
         \/ /\ wr["driver"].pc = "session"
            /\ wr'["driver"].pc = "insert" /\ wr'["driver"].step = wr["driver"].step
            /\ \A n \in SessionSteps : n < wr'["driver"].ss
  BY <1>1, ReadsEffect
<1>3. At("logging") /\ wr["driver"].conv = d.conv
  BY <1>1, <1>2 DEF WriterOK
<1>4. /\ ShapeOfLog' /\ AtLogging
      /\ (sess' = "RUNNING" => \A a \in Agent : Agree(a)')
  BY <1>1, <1>3, SameLog DEF ChainOK
<1>5. \A a \in Agent : \A j \in DOMAIN log[a] : log[a][j].ss \in SessionSteps
  BY <1>1, PlaceIs, ZenonT(40) DEF SessionSteps
<1>6. /\ wr'["driver"].pc \in {"session", "insert"}
      /\ wr'["driver"].step = Len(log[d.conv]) + 1
      /\ wr'["driver"].pc = "insert" =>
             \A a \in Agent : \A j \in DOMAIN log[a] : log[a][j].ss < wr'["driver"].ss
  BY <1>2, <1>3, <1>4, <1>5 DEF AtLogging
<1>7. (Fits' <=> Fits) /\ (Mismatch' <=> Mismatch)
  BY <1>1, SameLog DEF Fits, Mismatch
<1>8. AtLogging'
  BY <1>1, <1>2, <1>4, <1>6, <1>7, SameLog DEF AtLogging
<1> QED  BY <1>1, <1>3, <1>4, <1>8 DEF ChainOK, At

\* What an INSERT of the driver changes: one event, at the end of its conversation and
\* newer than all others.
LEMMA InsertChain ==
  ASSUME IInv, ChainOK, At("logging"), wr["driver"].pc = "insert", Insert("driver"),
         log' \in [Agent -> Seq(Event)], ~Canceled'
  PROVE  /\ \A a \in Agent : a # d.conv =>
               /\ log'[a] = log[a] /\ LastOf(a)' = LastOf(a)
               /\ Whole(a)' <=> Whole(a)
               /\ TailOK(a)' <=> TailOK(a)
         /\ Len(log'[d.conv]) = Len(log[d.conv]) + 1 /\ Len(log[d.conv]) \in Nat
         /\ log'[d.conv] # <<>>
         /\ \A a \in Agent : a = d.conv =>
               /\ LastOf(a)' = [ss |-> wr["driver"].ss, kind |-> wr["driver"].kind,
                                env |-> wr["driver"].env]
               /\ log[a] # <<>> => Before(a)' = LastOf(a)
         /\ \A a \in Agent : \A j \in DOMAIN log[a] : log[a][j].ss < wr["driver"].ss
<1>1. TypeOK /\ "driver" \in Writer /\ wr["driver"].conv = d.conv /\ d.conv \in Agent /\ AtLogging
  BY DEF IInv, Shape, WriterOK, TypeOK, Writer, ChainOK
<1>2. PICK c \in Agent : c = d.conv
  BY <1>1
<1>3. PICK n \in Nat : n = Len(log[c]) /\ DOMAIN log[c] = 1..n /\ (log[c] # <<>> <=> n > 0)
  BY <1>1, ConvIs
<1>4. /\ Len(log'[c]) = n + 1
      /\ log'[c][n + 1] = [ss |-> wr["driver"].ss, kind |-> wr["driver"].kind,
                           env |-> wr["driver"].env]
      /\ \A i \in 1..n : log'[c][i] = log[c][i]
      /\ \A a \in Agent : a # c => log'[a] = log[a]
  <2>1. PICK e : e = [ss |-> wr["driver"].ss, kind |-> wr["driver"].kind,
                      env |-> wr["driver"].env]
    OBVIOUS
  <2>2. /\ Len(log'[c]) = Len(log[c]) + 1 /\ log'[c][Len(log[c]) + 1] = e
        /\ \A i \in DOMAIN log[c] : log'[c][i] = log[c][i]
        /\ \A a \in Agent : a # c => log'[a] = log[a]
    BY <1>1, <1>2, <2>1, InsertEffect
  <2> QED  BY <1>3, <2>1, <2>2
<1>5. log'[c] # <<>>
  <2>1. log'[c] \in Seq(Event)
    OBVIOUS
  <2> QED  BY <1>3, <1>4, <2>1
<1>6. LastOf(c)' = log'[c][n + 1] /\ (log[c] # <<>> => Before(c)' = LastOf(c))
  <2>1. LastOf(c)' = log'[c][n + 1]
    BY <1>4 DEF LastOf
  <2>2. Before(c)' = log'[c][(n + 1) - 1]
    BY <1>4 DEF Before
  <2>3. (n + 1) - 1 = n
    OBVIOUS
  <2>4. log[c] # <<>> => log'[c][n] = log[c][n]
    BY <1>3, <1>4, SMTT(40)
  <2> QED  BY <1>3, <2>1, <2>2, <2>3, <2>4 DEF LastOf
<1>7. \A a \in Agent : a # c =>
               /\ log'[a] = log[a] /\ LastOf(a)' = LastOf(a)
               /\ Whole(a)' <=> Whole(a)
               /\ TailOK(a)' <=> TailOK(a)
  BY <1>4 DEF LastOf, Before, Whole, TailOK
<1>8. \A a \in Agent : \A j \in DOMAIN log[a] : log[a][j].ss < wr["driver"].ss
  BY <1>1 DEF AtLogging
<1> QED  BY <1>2, <1>3, <1>4, <1>5, <1>6, <1>7, <1>8

\* The conversation that a new envelope is put into leads.
LEMMA EnvelopeLeads ==
  ASSUME IInv, ChainOK, At("logging"), wr["driver"].pc = "insert", Insert("driver"),
         log' \in [Agent -> Seq(Event)], ~Canceled',
         wr["driver"].kind \in {"input", "output"},
         \A b \in Agent : b # d.conv => Whole(b)
  PROVE  \A a \in Agent : a = d.conv => Leads(a)' /\ ~Whole(a)'
<1> SUFFICES ASSUME NEW a \in Agent, a = d.conv PROVE Leads(a)' /\ ~Whole(a)'
  OBVIOUS
<1>1. /\ LastOf(a)'.ss = wr["driver"].ss /\ LastOf(a)'.kind = wr["driver"].kind
      /\ log'[a] # <<>>
  BY InsertChain
<1>2. Newer(a)' = LastOf(a)' /\ ~Whole(a)'
  BY <1>1 DEF Newer, Whole
<1>3. \A b \in Agent : b # a =>
         Whole(b)' /\ \A j \in DOMAIN log'[b] : log'[b][j].ss < wr["driver"].ss
  BY InsertChain
<1> QED  BY <1>1, <1>2, <1>3 DEF Leads

\* The driver's INSERT, which finds its key free as long as nobody cancels: the three
\* events of a turn come one after the other.
LEMMA LoggedChain ==
  ASSUME IInv, ChainOK, TypeOK', ~Canceled', Logged
  PROVE  ChainOK'
<1>1. /\ rt' = rt /\ sess' = sess /\ At("logging") /\ wr["driver"].pc = "insert"
      /\ d.conv \in Agent /\ TypeOK /\ wr["driver"].conv = d.conv /\ "driver" \in Writer
      /\ NoEnvelope \in Envelope /\ "done" \in Kind /\ log' \in [Agent -> Seq(Event)]
  BY InitialRecords DEF Logged, At, IInv, Shape, WriterOK, TypeOK, Writer, Kind
<1>2. ShapeOfLog /\ AtLogging
      /\ (sess' = "RUNNING" => \A a \in Agent : Agree(a))
  BY <1>1 DEF ChainOK
<1>3. KeyIsFree("driver")
  BY <1>1, <1>2 DEF AtLogging, KeyIsFree
<1>4. /\ Insert("driver")
      /\ CASE wr["driver"].kind = "input" ->
                Goto("run") /\ wr' = [wr EXCEPT !["driver"] = NoAppend]
           [] wr["driver"].kind = "output" ->
                d' = d /\ Begin("driver", d.conv, "done", NoEnvelope)
           [] OTHER ->
                Goto("record") /\ wr' = [wr EXCEPT !["driver"] = NoAppend]
  BY <1>3 DEF Logged
<1>5. PICK c \in Agent : c = d.conv
  BY <1>1
<1>6. /\ \A a \in Agent : a # c =>
            /\ log'[a] = log[a] /\ LastOf(a)' = LastOf(a)
            /\ Whole(a)' <=> Whole(a)
            /\ TailOK(a)' <=> TailOK(a)
      /\ Len(log'[c]) = Len(log[c]) + 1 /\ Len(log[c]) \in Nat /\ log'[c] # <<>>
      /\ LastOf(c)' = [ss |-> wr["driver"].ss, kind |-> wr["driver"].kind,
                       env |-> wr["driver"].env]
      /\ log[c] # <<>> => Before(c)' = LastOf(c)
      /\ \A a \in Agent : \A j \in DOMAIN log[a] : log[a][j].ss < wr["driver"].ss
  BY <1>1, <1>4, <1>5, InsertChain
<1>7. \A a \in Agent : a # c => (TailOK(a)' /\ (Agree(a) => Agree(a)'))
  <2>1. \A a \in Agent : a # c => TailOK(a)'
    BY <1>2, <1>6 DEF ShapeOfLog
  <2>2. \A a \in Agent : a # c => Before(a)' = Before(a) /\ Awaits(a)' = Awaits(a)
    BY <1>6 DEF Before, Awaits, LastOf
  <2> QED  BY <1>1, <1>6, <2>1, <2>2 DEF Agree
<1>8. CASE wr["driver"].kind = "input"
  <2>1. d'.pc = "run" /\ d'.conv = c
    BY <1>1, <1>4, <1>5, <1>8, GotoEffect
  <2>2. Leads(c)' /\ ~Whole(c)'
    BY <1>1, <1>2, <1>4, <1>5, <1>8, EnvelopeLeads DEF AtLogging, AllWhole
  <2>3. TailOK(c)' /\ Agree(c)'
    BY <1>6, <1>8 DEF TailOK, Agree
  <2>4. ShapeOfLog'
    BY <1>7, <2>2, <2>3 DEF ShapeOfLog
  <2>5. AtRun'
    BY <2>1, <2>2, <2>3 DEF AtRun
  <2>6. sess' = "RUNNING" => \A a \in Agent : Agree(a)'
    BY <1>2, <1>7, <2>3
  <2> QED  BY <2>1, <2>4, <2>5, <2>6 DEF ChainOK, At
<1>9. CASE wr["driver"].kind = "output"
  <2>1. d' = d /\ wr'["driver"].pc = "step" /\ wr'["driver"].kind = "done"
    BY <1>1, <1>4, <1>9, BeginEffect
  <2>2. /\ Leads(c) /\ ~Whole(c) /\ LastOf(c).kind = "input" /\ wr["driver"].env = d.out
        /\ rt[c].out = d.out /\ rt[c].last = Awaits(c).step
    BY <1>2, <1>5, <1>9 DEF AtLogging, Fits
  <2>3. Leads(c)' /\ ~Whole(c)'
    BY <1>1, <1>4, <1>5, <1>9, <2>2, EnvelopeLeads DEF Leads
  <2>4. /\ log[c] # <<>> /\ Before(c)' = LastOf(c) /\ LastOf(c)'.kind = "output"
        /\ LastOf(c)'.env = d.out /\ Len(log[c]) > 0 /\ Awaits(c) = LastOf(c).env
    BY <1>1, <1>6, <1>9, <2>2, ConvIs DEF Leads, Awaits
  <2>5. TailOK(c)'
    BY <1>6, <2>2, <2>4 DEF TailOK
  <2>6. Awaits(c)' = LastOf(c).env
    BY <2>4 DEF Awaits
  <2>7. Agree(c)'
    BY <1>1, <2>2, <2>4, <2>6 DEF Agree
  <2>8. ShapeOfLog'
    BY <1>7, <2>3, <2>5 DEF ShapeOfLog
  <2>9. AtLogging'
    BY <1>5, <2>1, <2>3, <2>4 DEF AtLogging
  <2>10. sess' = "RUNNING" => \A a \in Agent : Agree(a)'
    BY <1>2, <1>7, <2>7
  <2> QED  BY <1>1, <2>1, <2>8, <2>9, <2>10 DEF ChainOK, At
<1>10. CASE wr["driver"].kind = "done"
  <2>1. /\ d'.pc = "record" /\ d'.conv = c /\ d'.msg = d.msg /\ d'.inputs = d.inputs
        /\ d'.out = d.out
    BY <1>1, <1>4, <1>5, <1>10, GotoEffect
  <2>2. /\ Leads(c) /\ ~Whole(c) /\ LastOf(c).kind = "output"
        /\ LastOf(c).env = d.out \/ Mismatch
    BY <1>2, <1>5, <1>10 DEF AtLogging
  <2>3. /\ log[c] # <<>> /\ Before(c)' = LastOf(c) /\ LastOf(c)'.kind = "done"
        /\ Len(log[c]) > 0
    BY <1>1, <1>6, <1>10, <2>2, ConvIs DEF Leads
  <2>4. TailOK(c)' /\ Whole(c)' /\ Agree(c)'
    BY <1>6, <2>2, <2>3 DEF TailOK, Whole, Agree
  <2>5. Newer(c)' = Newer(c)
    BY <2>2, <2>3 DEF Newer
  <2>6. Leads(c)'
    BY <1>6, <2>2, <2>5 DEF Leads
  <2>7. ShapeOfLog'
    BY <1>7, <2>4, <2>6 DEF ShapeOfLog
  <2>8. Before(c)'.env = d'.out \/ Mismatch'
    BY <2>1, <2>2, <2>3 DEF Mismatch
  <2>9. AtRecord'
    BY <2>1, <2>4, <2>6, <2>8 DEF AtRecord
  <2>10. sess' = "RUNNING" => \A a \in Agent : Agree(a)'
    BY <1>2, <1>7, <2>4
  <2> QED  BY <2>1, <2>7, <2>9, <2>10 DEF ChainOK, At
<1> QED  BY <1>2, <1>8, <1>9, <1>10 DEF AtLogging

\* A reply of another turn than the driver's own: the driver's turn is tried again.
LEMMA RetryChain ==
  ASSUME IInv, ChainOK, retryMismatch
  PROVE  ChainOK'
<1>1. /\ log' = log /\ rt' = rt /\ sess' = sess /\ At("record") /\ Mismatch
      /\ d.conv \in Agent /\ TypeOK
  BY DEF retryMismatch, store, At, IInv, Shape, TypeOK
<1>2. ShapeOfLog' /\ AtRecord
      /\ (sess' = "RUNNING" => \A a \in Agent : Agree(a)')
  BY <1>1, SameLog DEF ChainOK
<1>3. d'.pc = "exec" /\ d'.conv = d.conv /\ d'.inputs
  BY <1>1, RetryEffect DEF Mismatch
<1>4. PICK c \in Agent : c = d.conv
  BY <1>1
<1>5. Leads(c) /\ Whole(c) /\ Agree(c)
  BY <1>2, <1>4, WholeAgrees DEF AtRecord
<1>6. AtExec'
  BY <1>1, <1>3, <1>4, <1>5, SameLog DEF AtExec
<1> QED  BY <1>2, <1>3, <1>6 DEF ChainOK, At

\* The driver that has a reply recorded.
LEMMA RecordEffect ==
  ASSUME TypeOK, recordTaskStatus
  PROVE  /\ d'.pc \in {"drive", "cleanup"} /\ d'.res = d.out /\ d'.msg = d.msg /\ d'.out = d.out
         /\ d'.conv = d.conv /\ d'.inputs = d.inputs
         /\ d'.first = d.first /\ d'.revived = d.revived
         /\ d'.pc = "cleanup" => sess = "TERMINATING" /\ task' = task
         /\ d'.pc = "drive" =>
               /\ d'.fresh = FALSE /\ sess # "TERMINATING"
               /\ task' = Status(d.out, d.hasTask, d.first)
               /\ d'.hasTask <=> task'.state # "none"
               /\ ~d'.lost => ~d.lost \/ task' # task
<1>1. d \in DriverSet
  BY DEF TypeOK, DriverSet
<1>2. CASE sess = "TERMINATING" /\ task' = task /\ d' = [d EXCEPT !.pc = "cleanup", !.res = d.out]
  BY <1>1, <1>2 DEF DriverSet
<1>3. CASE /\ sess # "TERMINATING" /\ task' = Status(d.out, d.hasTask, d.first)
           /\ d' = Notify([d EXCEPT !.pc = "drive", !.res = d.out, !.fresh = FALSE,
                                    !.hasTask = task'.state # "none",
                                    !.lost = d.lost /\ task' = task])
  <2>1. PICK b, l : b = (task'.state # "none") /\ l = (d.lost /\ task' = task)
    OBVIOUS
  <2>2. b \in BOOLEAN /\ l \in BOOLEAN
    BY <2>1, Zenon
  <2>3. PICK e : e = [d EXCEPT !.pc = "drive", !.res = d.out, !.fresh = FALSE, !.hasTask = b,
                               !.lost = l]
    OBVIOUS
  <2>4. e \in DriverSet
    BY <1>1, <2>2, <2>3 DEF DriverSet, DriverState
  <2>5. e.pc = "drive" /\ e.res = d.out /\ e.msg = d.msg /\ e.out = d.out /\ e.fresh = FALSE
    BY <1>1, <2>3 DEF DriverSet
  <2>6. /\ e.conv = d.conv /\ e.inputs = d.inputs /\ e.first = d.first
        /\ e.revived = d.revived /\ e.hasTask = b /\ e.lost = l
    BY <1>1, <2>3 DEF DriverSet
  <2>7. d' = Notify(e)
    BY <1>3, <2>1, <2>3, Zenon
  <2>8. d'.hasTask = b /\ d'.lost = l
    BY <2>4, <2>6, <2>7, NotifyEffect
  <2>9. (d'.hasTask <=> task'.state # "none") /\ (~d'.lost => ~d.lost \/ task' # task)
    BY <2>1, <2>8
  <2> QED  BY <1>3, <2>4, <2>5, <2>6, <2>7, <2>9, NotifyEffect
<1> QED  BY <1>2, <1>3 DEF recordTaskStatus

\* The reply that is recorded is the newest envelope.
LEMMA RecordChain ==
  ASSUME IInv, ChainOK, recordTaskStatus
  PROVE  ChainOK'
<1>1. /\ log' = log /\ rt' = rt /\ sess' = sess /\ At("record") /\ ~Mismatch
      /\ d.conv \in Agent /\ TypeOK /\ d \in DriverSet
  BY DEF recordTaskStatus, At, IInv, Shape, TypeOK, DriverSet
<1>2. ShapeOfLog' /\ AtRecord
      /\ (sess' = "RUNNING" => \A a \in Agent : Agree(a)')
  BY <1>1, SameLog DEF ChainOK
<1>3. /\ d'.pc \in {"drive", "cleanup"} /\ d'.res = d.out
      /\ d'.pc = "drive" => d'.fresh = FALSE
  BY <1>1, RecordEffect
<1>4. CASE d'.pc = "cleanup"
  BY <1>1, <1>4, ParkedStep
<1>5. CASE d'.pc = "drive"
  <2>1. PICK c \in Agent : Leads(c) /\ Whole(c) /\ Before(c).env = d.out
    BY <1>1, <1>2 DEF AtRecord
  <2>2. AtDrive'
    BY <1>1, <1>3, <1>5, <2>1, SameLog DEF AtDrive
  <2> QED  BY <1>2, <1>5, <2>2 DEF ChainOK, At
<1> QED  BY <1>3, <1>4, <1>5

\* A client's message goes to whoever the chain paused for: the leading conversation.
LEMMA ContinueChain ==
  ASSUME IInv, ChainOK, SaidOK, continueTask
  PROVE  ChainOK'
<1>1. /\ log' = log /\ rt' = rt /\ sess' = sess /\ TypeOK /\ OrderOfRecord /\ LogOK
  BY DEF continueTask, store, IInv, Shape
<1>2. ShapeOfLog /\ ShapeOfLog'
      /\ (sess' = "RUNNING" => \A a \in Agent : Agree(a)')
  BY <1>1, SameLog DEF ChainOK
<1>3. PICK h \in lastHop :
          /\ isTerminalReply(EventAt(h[2]).env)
          /\ d' = loadServerSession(
                    [Idle EXCEPT !.pc = "drive", !.res = ClientMessage(EventAt(h[2]).env.from),
                                 !.first = EventAt(h[2]).env.from, !.fresh = TRUE,
                                 !.waits = TRUE, !.lost = d.lost,
                                 !.revived = d.revived \/ sess # "RUNNING"])
  BY DEF continueTask
<1>4. PICK a \in Agent : Leads(a) /\ EventAt(h[2]) = Newer(a)
  BY <1>1, <1>2, LastHopIs
<1>5. Newer(a).env.from = a
  <2>1. PICK n \in Nat : n = Len(log[a]) /\ n > 0 /\ DOMAIN log[a] = 1..n
    BY <1>1, <1>4, ConvIs DEF Leads
  <2>2. PICK i \in 1..n : Newer(a) = log[a][i] /\ log[a][i].kind \in {"input", "output"}
    <3>1. TailOK(a) /\ log[a] # <<>>
      BY <1>2, <1>4 DEF ShapeOfLog, Leads
    <3>2. CASE LastOf(a).kind = "done"
      <4>1. n > 1 /\ Newer(a) = log[a][n - 1] /\ Newer(a).kind = "output"
        BY <2>1, <3>1, <3>2 DEF TailOK, Newer, Before
      <4> QED  BY <4>1
    <3>3. CASE LastOf(a).kind # "done"
      <4>1. Newer(a) = log[a][n] /\ Newer(a).kind \in {"input", "output"}
        BY <2>1, <3>1, <3>3 DEF TailOK, Newer, LastOf
      <4> QED  BY <2>1, <4>1
    <3> QED  BY <3>2, <3>3
  <2>3. log[a][i].env.to = Client
    BY <1>3, <1>4, <2>2 DEF isTerminalReply
  <2>4. log[a][i].kind # "input"
    BY <1>1, <2>1, <2>3, ClientAssumption DEF LogOK, EntryOK
  <2> QED  BY <2>1, <2>2, <2>4 DEF SaidOK
<1>6. d'.pc = "drive" /\ d'.res = ClientMessage(a) /\ d'.fresh = TRUE
  BY <1>3, <1>4, <1>5 DEF loadServerSession, Idle
<1>7. d'.res.to = a
  BY <1>6 DEF ClientMessage
<1>8. AtDrive'
  BY <1>1, <1>4, <1>6, <1>7, SameLog DEF AtDrive
<1> QED  BY <1>2, <1>6, <1>8 DEF ChainOK, At

----------------------------------------------------------------------------
(* The other parts of the invariant. *)

\* A session that is ending goes on to its end.
LEMMA SessionEnds ==
  ASSUME [Next]_vars
  PROVE  sess' = "RUNNING" => sess = "RUNNING"
<1>1. CASE Drive
  BY <1>1, ZenonT(40)
  DEF Drive, establishRelayState, execA2A, Exec, AppendReads, Run, Commit, Logged, retryMismatch,
      recordTaskStatus, Pause, MarkTerminating, cleanupActors, TerminateSession, store
<1>2. CASE Cancel
  BY <1>2
  DEF Cancel, cancelAndWait, CancelTaskAndSession, AppendReads, appendCancellationMarker,
      ClaimForCleanup, store
<1>3. CASE continueTask \/ CancelTask \/ Crash \/ Resume \/ discoverAndApply \/ storeCards
  BY <1>3 DEF continueTask, CancelTask, Crash, Resume, discoverAndApply, storeCards, store
<1>4. CASE UNCHANGED vars
  BY <1>4, SMTT(40) DEF vars
<1> QED  BY <1>1, <1>2, <1>3, <1>4, SMTT(40) DEF Next

\* The driver that takes up a session's chain.
LEMMA EstablishEffect ==
  ASSUME TypeOK, establishRelayState
  PROVE  /\ d'.pc \in {"drive", "exec"} /\ d'.msg = d.msg /\ d'.out = d.out /\ SameSession
         /\ d'.inputs => d.inputs /\ d'.conv = d.conv
         /\ \/ d'.res = Bootstrap
            \/ d'.pc = "exec" /\ d'.res = d.res
            \/ \E p \in Places : EventAt(p).kind # "done" /\ d'.res = EventAt(p).env
<1>1. d \in DriverSet
  BY DEF TypeOK, DriverSet
<1>2. CASE d' = Notify([d EXCEPT !.pc = "drive", !.res = Bootstrap, !.fresh = TRUE])
  <2>1. PICK e : e = [d EXCEPT !.pc = "drive", !.res = Bootstrap, !.fresh = TRUE]
    OBVIOUS
  <2>2. /\ e \in DriverSet /\ e.pc = "drive" /\ e.res = Bootstrap
        /\ e.msg = d.msg /\ e.out = d.out /\ e.inputs = d.inputs /\ e.conv = d.conv
    BY <1>1, <2>1, InitialRecords DEF DriverSet, DriverState
  <2>3. /\ e.first = d.first /\ e.hasTask = d.hasTask
        /\ e.lost = d.lost /\ e.revived = d.revived
    BY <1>1, <2>1 DEF DriverSet
  <2>4. d' = Notify(e)
    BY <1>2, <2>1
  <2> QED  BY <2>2, <2>3, <2>4, NotifyEffect DEF SameSession
<1>3. CASE \E h \in lastHop :
             d' = IF Completed(h[1])
                  THEN Notify([d EXCEPT !.pc = "drive", !.res = EventAt(h[2]).env])
                  ELSE [d EXCEPT !.pc = "exec", !.conv = h[1][1], !.inputs = FALSE]
  <2>1. PICK h \in lastHop :
             d' = IF Completed(h[1])
                  THEN Notify([d EXCEPT !.pc = "drive", !.res = EventAt(h[2]).env])
                  ELSE [d EXCEPT !.pc = "exec", !.conv = h[1][1], !.inputs = FALSE]
    BY <1>3
  <2>2. h[2] \in Places /\ EventAt(h[2]).env \in Envelope /\ EventAt(h[2]).kind # "done"
    BY LastHopPlaces, PlaceTyped DEF Event, lastHop, Newest
  <2>3. PICK e : e = [d EXCEPT !.pc = "drive", !.res = EventAt(h[2]).env]
    OBVIOUS
  <2>4. /\ e \in DriverSet /\ e.pc = "drive" /\ e.res = EventAt(h[2]).env
        /\ e.msg = d.msg /\ e.out = d.out /\ e.inputs = d.inputs /\ e.conv = d.conv
    BY <1>1, <2>2, <2>3 DEF DriverSet, DriverState
  <2>5. CASE d' = Notify(e)
    <3>1. /\ e.first = d.first /\ e.hasTask = d.hasTask
          /\ e.lost = d.lost /\ e.revived = d.revived
      BY <1>1, <2>3 DEF DriverSet
    <3> QED  BY <2>2, <2>4, <2>5, <3>1, NotifyEffect DEF SameSession
  <2>6. CASE d' = [d EXCEPT !.pc = "exec", !.conv = h[1][1], !.inputs = FALSE]
    BY <1>1, <2>6 DEF DriverSet, SameSession
  <2> QED  BY <2>1, <2>3, <2>5, <2>6
<1> QED  BY <1>2, <1>3 DEF establishRelayState

\* The drivers that other requests start, and the one that is resumed.
LEMMA StartEffect ==
  ASSUME TypeOK, LogOK
  PROVE  /\ continueTask =>
               /\ d'.pc = "drive" /\ d'.res.step = 0 /\ d'.msg = NoEnvelope
               /\ d'.out = NoEnvelope /\ d'.inputs = FALSE /\ d'.lost = d.lost
               /\ d'.revived <=> d.revived \/ sess # "RUNNING"
               /\ d'.hasTask <=> task.state # "none"
               /\ \E p \in Places :
                     /\ EventAt(p).kind # "done" /\ isTerminalReply(EventAt(p).env)
                     /\ d'.first = EventAt(p).env.from /\ d'.res = ClientMessage(d'.first)
         /\ ClaimForCleanup /\ At("rest") =>
               /\ d'.pc = "cleanup" /\ d'.res = NoEnvelope /\ d'.msg = NoEnvelope
               /\ d'.out = NoEnvelope /\ d'.inputs = FALSE /\ d'.first = Owner
               /\ d'.lost = d.lost /\ d'.revived = d.revived
         /\ Resume =>
               /\ d'.pc \in {"establish", "cleanup", "rest"} /\ d'.fresh = d.fresh
               /\ d'.pc = "cleanup" => sess = "TERMINATING"
               /\ d'.pc = "establish" => sess = "RUNNING"
               /\ d'.res = d.res /\ d'.msg = d.msg /\ d'.out = d.out
               /\ d'.conv = d.conv /\ d'.inputs = d.inputs /\ d'.first = d.first
               /\ d'.lost = d.lost /\ d'.revived = d.revived
               /\ d'.hasTask <=> task.state # "none"
<1>1. d \in DriverSet
  BY DEF TypeOK, DriverSet
<1>2. ASSUME continueTask
      PROVE  /\ d'.pc = "drive" /\ d'.res.step = 0 /\ d'.msg = NoEnvelope
             /\ d'.out = NoEnvelope /\ d'.inputs = FALSE /\ d'.lost = d.lost
             /\ d'.revived <=> d.revived \/ sess # "RUNNING"
             /\ d'.hasTask <=> task.state # "none"
             /\ \E p \in Places :
                   /\ EventAt(p).kind # "done" /\ isTerminalReply(EventAt(p).env)
                   /\ d'.first = EventAt(p).env.from /\ d'.res = ClientMessage(d'.first)
  <2>1. PICK h \in lastHop :
          isTerminalReply(EventAt(h[2]).env) /\
          d' = loadServerSession(
                    [Idle EXCEPT !.pc = "drive", !.res = ClientMessage(EventAt(h[2]).env.from),
                                 !.first = EventAt(h[2]).env.from, !.fresh = TRUE,
                                 !.waits = TRUE, !.lost = d.lost,
                                 !.revived = d.revived \/ sess # "RUNNING"])
    BY <1>2 DEF continueTask
  <2>2. /\ d'.pc = "drive" /\ d'.res = ClientMessage(EventAt(h[2]).env.from)
        /\ d'.msg = NoEnvelope /\ d'.out = NoEnvelope
    BY <2>1 DEF loadServerSession, Idle
  <2>3. /\ d'.first = EventAt(h[2]).env.from /\ d'.inputs = FALSE /\ d'.lost = d.lost
        /\ d'.hasTask = (task.state # "none") /\ d'.revived = (d.revived \/ sess # "RUNNING")
    BY <2>1 DEF loadServerSession, Idle
  <2>4. (d'.revived <=> d.revived \/ sess # "RUNNING") /\ (d'.hasTask <=> task.state # "none")
    BY <2>3, Zenon
  <2>5. h[2] \in Places /\ EventAt(h[2]).kind # "done"
    BY DEF lastHop, Newest
  <2>6. d'.res.step = 0
    BY <2>2 DEF ClientMessage
  <2> QED  BY <2>1, <2>2, <2>3, <2>4, <2>5, <2>6
<1>3. ASSUME ClaimForCleanup, At("rest")
      PROVE  /\ d'.pc = "cleanup" /\ d'.res = NoEnvelope /\ d'.msg = NoEnvelope
             /\ d'.out = NoEnvelope /\ d'.inputs = FALSE /\ d'.first = Owner
             /\ d'.lost = d.lost /\ d'.revived = d.revived
  BY <1>3 DEF ClaimForCleanup, Idle
<1>4. ASSUME Resume
      PROVE  /\ d'.pc \in {"establish", "cleanup", "rest"} /\ d'.fresh = d.fresh
             /\ d'.pc = "cleanup" => sess = "TERMINATING"
             /\ d'.pc = "establish" => sess = "RUNNING"
             /\ d'.res = d.res /\ d'.msg = d.msg /\ d'.out = d.out
             /\ d'.conv = d.conv /\ d'.inputs = d.inputs /\ d'.first = d.first
             /\ d'.lost = d.lost /\ d'.revived = d.revived
             /\ d'.hasTask <=> task.state # "none"
  <2>1. PICK label : label = CASE sess = "RUNNING" -> "establish"
                               [] sess = "TERMINATING" -> "cleanup"
                               [] OTHER -> "rest"
    OBVIOUS
  <2>2. /\ label \in {"establish", "cleanup", "rest"}
        /\ label = "cleanup" => sess = "TERMINATING"
        /\ label = "establish" => sess = "RUNNING"
    BY <2>1
  <2>3. d' = loadServerSession([d EXCEPT !.pc = label])
    BY <1>4, <2>1 DEF Resume
  <2>4. /\ d'.pc = label /\ d'.fresh = d.fresh
        /\ d'.res = d.res /\ d'.msg = d.msg /\ d'.out = d.out
    BY <1>1, <2>3 DEF loadServerSession, DriverSet
  <2>5. /\ d'.conv = d.conv /\ d'.inputs = d.inputs /\ d'.first = d.first
        /\ d'.lost = d.lost /\ d'.revived = d.revived /\ d'.hasTask = (task.state # "none")
    BY <1>1, <2>3 DEF loadServerSession, DriverSet
  <2>6. d'.hasTask <=> task.state # "none"
    BY <2>5, Zenon
  <2> QED  BY <2>2, <2>4, <2>5, <2>6
<1> QED  BY <1>2, <1>3, <1>4

\* Actors are deleted only once the session is ending.
LEMMA EndStep ==
  ASSUME IInv, EndOK, [Next]_vars
  PROVE  EndOK'
<1>a. /\ TypeOK /\ LogOK /\ (sess' = "RUNNING" => sess = "RUNNING")
      /\ sess \in {"RUNNING", "TERMINATING", "TERMINATED"}
      /\ cx \in [pc : {"idle", "wait", "cas", "marker", "claim"}, version : Nat]
  BY SessionEnds, SMTT(40) DEF IInv, Shape, TypeOK
<1>1. CASE d' = d /\ cx' = cx
  BY <1>1, <1>a DEF EndOK
<1>2. CASE d'.pc \notin {"establish", "down", "cleanup", "terminate"} /\ cx' = cx
  BY <1>2, <1>a DEF EndOK
<1>3. CASE establishRelayState
  BY <1>3, <1>2, <1>a, EstablishEffect DEF establishRelayState
<1>4. CASE execA2A
  <2>1. d'.pc = "exec"
    BY <1>4, <1>a DEF execA2A, TypeOK
  <2> QED  BY <1>4, <1>2, <2>1 DEF execA2A
<1>5. CASE Exec
  <2>1. d'.pc \in {"run", "logging"}
    BY <1>5, <1>a, GotoEffect DEF Exec
  <2> QED  BY <1>5, <1>2, <2>1 DEF Exec
<1>6. CASE \E w \in Writer : AppendReads(w)
  BY <1>6, <1>1 DEF AppendReads
<1>7. CASE Run
  <2>1. d'.pc = "commit"
    BY <1>7, RunEffect DEF IInv
  <2> QED  BY <1>7, <1>2, <2>1 DEF Run
<1>8. CASE Commit
  <2>1. d'.pc = "logging"
    BY <1>8, <1>a, GotoEffect DEF Commit
  <2> QED  BY <1>8, <1>2, <2>1 DEF Commit
<1>9. CASE Logged
  <2>1. d' = d \/ d'.pc \in {"run", "record", "exec"}
    BY <1>9, <1>a, GotoEffect DEF Logged
  <2> QED  BY <1>9, <1>1, <1>2, <2>1 DEF Logged
<1>10. CASE retryMismatch
  <2>1. d'.pc = "exec"
    BY <1>10, <1>a, RetryEffect
  <2> QED  BY <1>10, <1>2, <2>1 DEF retryMismatch
<1>11. CASE recordTaskStatus
  BY <1>11, <1>a, RecordEffect DEF recordTaskStatus, EndOK
<1>12. CASE Pause
  <2>1. d'.pc = "rest"
    BY <1>12, <1>a, GotoEffect DEF Pause
  <2> QED  BY <1>12, <1>2, <2>1 DEF Pause
<1>13. CASE MarkTerminating
  <2>1. d'.pc = "cleanup"
    BY <1>13, <1>a, GotoEffect DEF MarkTerminating
  <2> QED  BY <1>13, <1>a, <2>1 DEF MarkTerminating, EndOK
<1>14. CASE cleanupActors
  <2>1. d'.pc = "terminate"
    BY <1>14, <1>a, GotoEffect DEF cleanupActors
  <2> QED  BY <1>14, <1>a, <2>1 DEF cleanupActors, EndOK, store, At
<1>15. CASE TerminateSession
  <2>1. d'.pc = "rest"
    BY <1>15, <1>a, GotoEffect DEF TerminateSession
  <2> QED  BY <1>15, <1>2, <2>1 DEF TerminateSession
<1>16. CASE continueTask
  <2>1. d'.pc = "drive"
    BY <1>16, <1>a, StartEffect
  <2> QED  BY <1>16, <1>2, <2>1 DEF continueTask
<1>17. CASE CancelTask
  BY <1>17, <1>a DEF CancelTask, EndOK, store
<1>18. CASE cancelAndWait
  <2>1. cx'.pc = "cas"
    BY <1>18, <1>a DEF cancelAndWait
  <2>2. d' = d \/ d'.pc = "rest"
    BY <1>18, <1>a, StopEffect DEF cancelAndWait
  <2> QED  BY <1>a, <2>1, <2>2 DEF EndOK
<1>19. CASE CancelTaskAndSession
  <2>1. d' = d /\ ((cx'.pc = "marker" /\ sess' # "RUNNING") \/ cx'.pc = "idle")
    BY <1>19, <1>a DEF CancelTaskAndSession
  <2> QED  BY <1>a, <2>1 DEF EndOK
<1>20. CASE appendCancellationMarker
  <2>1. d' = d /\ cx.pc = "marker" /\ sess' = sess
    BY <1>20 DEF appendCancellationMarker
  <2> QED  BY <2>1 DEF EndOK
<1>21. CASE ClaimForCleanup
  <2>1. cx'.pc = "idle" /\ cx.pc = "claim" /\ sess' = sess
    BY <1>21, <1>a DEF ClaimForCleanup, store
  <2>2. d' = d \/ d'.pc = "cleanup"
    BY <1>21, <1>a, StartEffect DEF ClaimForCleanup
  <2> QED  BY <2>1, <2>2 DEF EndOK
<1>22. CASE Crash
  <2>1. d'.pc = "down" /\ d'.fresh = FALSE
    BY <1>22, <1>a, StopEffect DEF Crash
  <2> QED  BY <1>22, <1>a, <2>1 DEF Crash, EndOK, store
<1>23. CASE Resume
  <2>1. /\ d'.pc \in {"establish", "cleanup", "rest"} /\ d'.fresh = d.fresh
        /\ d'.pc = "cleanup" => sess = "TERMINATING"
    BY <1>23, <1>a, StartEffect
  <2> QED  BY <1>23, <1>a, <2>1 DEF Resume, EndOK, store, At
<1>24. CASE discoverAndApply \/ storeCards \/ UNCHANGED vars
  BY <1>24, <1>1 DEF discoverAndApply, storeCards, vars
<1> QED  BY <1>3, <1>4, <1>5, <1>6, <1>7, <1>8, <1>9, <1>10, <1>11, <1>12, <1>13, <1>14, <1>15,
            <1>16, <1>17, <1>18, <1>19, <1>20, <1>21, <1>22, <1>23, <1>24
         DEF Next, Drive, Cancel, Writer

\* What a step does to the driver's Append and to the driver that begins a commit.
LEMMA DriverMoves ==
  ASSUME Shape, [Next]_vars
  PROVE  \/ d' = d /\ wr'["driver"] = wr["driver"]
         \/ d' = d /\ Reads("driver")
         \/ Run
         \/ Commit
         \/ /\ d'.pc # "commit"
            /\ \/ wr'["driver"].pc = "idle" /\ wr'["driver"] \in {wr["driver"], NoAppend}
               \/ /\ wr'["driver"].kind = "input" /\ wr'["driver"].env = d.msg
                  /\ wr'["driver"].conv = d.conv /\ d.inputs
               \/ wr'["driver"].kind = "done" /\ wr'["driver"].env = NoEnvelope
<1>a. /\ TypeOK /\ LogOK /\ WriterOK /\ d \in DriverSet /\ wr \in [Writer -> AppendSet]
      /\ d.msg \in Envelope /\ d.conv \in Agent /\ NoEnvelope \in Envelope /\ Owner \in Agent
      /\ {"driver", "marker"} \subseteq Writer /\ {"input", "done", "marker"} \subseteq Kind
      /\ NoAppend.pc = "idle" /\ Marker \in Envelope
  BY InitialRecords, OwnerAssumption, SMTT(40)
  DEF Shape, TypeOK, DriverSet, AppendSet, Writer, Kind, NoAppend
<1>b. ~At("logging") => wr["driver"].pc = "idle"
  BY <1>a DEF WriterOK
<1>1. CASE wr' = wr /\ ~At("logging") /\ d'.pc # "commit"
  BY <1>1, <1>b
<1>2. CASE establishRelayState
  <2>1. d'.pc # "commit"
    BY <1>2, <1>a, EstablishEffect
  <2> QED  BY <1>2, <1>1, <2>1 DEF establishRelayState, At
<1>3. CASE execA2A
  <2>1. d'.pc = "exec"
    BY <1>3, <1>a DEF execA2A, DriverSet
  <2> QED  BY <1>3, <1>1, <2>1 DEF execA2A, At
<1>4. CASE Exec
  <2>1. CASE Goto("run") /\ wr' = wr
    <3>1. d'.pc = "run"
      BY <1>a, <2>1, GotoEffect
    <3> QED  BY <1>4, <1>1, <2>1, <3>1 DEF Exec, At
  <2>2. CASE d.inputs /\ Goto("logging") /\ Begin("driver", d.conv, "input", d.msg)
    <3>1. d'.pc = "logging"
      BY <1>a, <2>2, GotoEffect
    <3>2. /\ wr'["driver"].kind = "input" /\ wr'["driver"].env = d.msg
          /\ wr'["driver"].conv = d.conv
      BY <1>a, <2>2, BeginEffect
    <3> QED  BY <2>2, <3>1, <3>2
  <2> QED  BY <1>4, <2>1, <2>2 DEF Exec
<1>5. CASE AppendReads("driver")
  BY <1>5 DEF AppendReads
<1>6. CASE AppendReads("marker")
  <2>1. wr'["driver"] = wr["driver"]
    BY <1>6, <1>a, ReadsEffect DEF AppendReads
  <2> QED  BY <1>6, <2>1 DEF AppendReads
<1>7. CASE Logged
  <2>1. CASE wr' = [wr EXCEPT !["driver"] = NoAppend]
             /\ (Goto("run") \/ Goto("record") \/ Goto("exec"))
    <3>1. d'.pc # "commit"
      BY <1>a, <2>1, GotoEffect
    <3>2. wr'["driver"] = NoAppend
      BY <1>a, <2>1
    <3> QED  BY <1>a, <3>1, <3>2
  <2>2. CASE d' = d /\ Begin("driver", d.conv, "done", NoEnvelope)
    <3>1. wr'["driver"].kind = "done" /\ wr'["driver"].env = NoEnvelope
      BY <1>a, <2>2, BeginEffect
    <3> QED  BY <1>7, <2>2, <3>1 DEF Logged, At
  <2> QED  BY <1>7, <2>1, <2>2 DEF Logged
<1>8. CASE retryMismatch
  <2>1. d'.pc = "exec"
    BY <1>8, <1>a, RetryEffect
  <2> QED  BY <1>8, <1>1, <2>1 DEF retryMismatch, At
<1>9. CASE recordTaskStatus
  <2>1. d'.pc # "commit"
    BY <1>9, <1>a, RecordEffect
  <2> QED  BY <1>9, <1>1, <2>1 DEF recordTaskStatus, At
<1>10. CASE Pause \/ MarkTerminating \/ cleanupActors \/ TerminateSession
  <2>1. d'.pc # "commit"
    BY <1>10, <1>a, GotoEffect DEF Pause, MarkTerminating, cleanupActors, TerminateSession
  <2> QED  BY <1>10, <1>1, <2>1
           DEF Pause, MarkTerminating, cleanupActors, TerminateSession, At
<1>11. CASE continueTask
  <2>1. d'.pc # "commit"
    BY <1>11, <1>a, StartEffect
  <2> QED  BY <1>11, <1>1, <2>1 DEF continueTask, At
<1>12. CASE CancelTask
  BY <1>12 DEF CancelTask
<1>13. CASE cancelAndWait
  <2>1. CASE Stop("rest")
    <3>1. d'.pc = "rest" /\ wr'["driver"] = NoAppend
      BY <1>a, <2>1, StopEffect
    <3> QED  BY <1>a, <3>1
  <2> QED  BY <1>13, <2>1 DEF cancelAndWait
<1>14. CASE CancelTaskAndSession
  <2>1. CASE Begin("marker", Owner, "marker", Marker)
    <3>1. wr'["driver"] = wr["driver"]
      BY <1>a, <2>1, BeginEffect
    <3> QED  BY <1>14, <3>1 DEF CancelTaskAndSession
  <2> QED  BY <1>14, <2>1 DEF CancelTaskAndSession
<1>15. CASE appendCancellationMarker
  <2>1. wr'["driver"] = wr["driver"]
    BY <1>15, <1>a DEF appendCancellationMarker
  <2> QED  BY <1>15, <2>1 DEF appendCancellationMarker
<1>16. CASE ClaimForCleanup
  <2>1. CASE At("rest")
    <3>1. d'.pc # "commit"
      BY <1>16, <1>a, <2>1, StartEffect
    <3> QED  BY <1>16, <1>1, <2>1, <3>1 DEF ClaimForCleanup, At
  <2> QED  BY <1>16, <2>1 DEF ClaimForCleanup
<1>17. CASE Crash
  <2>1. Stop("down")
    BY <1>17 DEF Crash
  <2>2. d'.pc = "down" /\ wr'["driver"] = NoAppend
    BY <1>a, <2>1, StopEffect
  <2> QED  BY <1>a, <2>2
<1>18. CASE Resume
  <2>1. d'.pc # "commit"
    BY <1>18, <1>a, StartEffect
  <2> QED  BY <1>18, <1>1, <2>1 DEF Resume, At
<1>19. CASE discoverAndApply \/ storeCards \/ UNCHANGED vars
  BY <1>19 DEF discoverAndApply, storeCards, vars
<1> QED  BY <1>2, <1>3, <1>4, <1>5, <1>6, <1>7, <1>8, <1>9, <1>10, <1>11, <1>12, <1>13, <1>14,
            <1>15, <1>16, <1>17, <1>18, <1>19
         DEF Next, Drive, Cancel

\* What a step does to the Append of CancelTask.
LEMMA MarkerMoves ==
  ASSUME Shape, [Next]_vars
  PROVE  \/ wr'["marker"] \in {wr["marker"], NoAppend}
         \/ Reads("marker")
         \/ CancelTaskAndSession /\ Begin("marker", Owner, "marker", Marker)
<1>a. /\ TypeOK /\ wr \in [Writer -> AppendSet] /\ d.msg \in Envelope /\ d.out \in Envelope
      /\ d.conv \in Agent /\ NoEnvelope \in Envelope
      /\ "driver" \in Writer /\ "marker" \in Writer
      /\ {"input", "output", "done"} \subseteq Kind
  BY InitialRecords DEF Shape, TypeOK, AppendSet, Writer, Kind
<1>1. CASE wr' = wr
  BY <1>1
<1>2. CASE wr' = [wr EXCEPT !["driver"] = NoAppend]
  BY <1>2, <1>a
<1>3. CASE wr' = [wr EXCEPT !["marker"] = NoAppend]
  BY <1>3, <1>a
<1>4. CASE Reads("driver")
  BY <1>4, <1>a, ReadsEffect
<1>5. CASE \E kind \in {"input", "output", "done"}, env \in {NoEnvelope, d.msg, d.out} :
             Begin("driver", d.conv, kind, env)
  BY <1>5, <1>a, BeginEffect
<1>6. CASE Drive
  <2>1. CASE Exec \/ Commit \/ Logged
    BY <2>1, <1>1, <1>2, <1>5, SMTT(40) DEF Exec, Commit, Logged
  <2>2. CASE ~(Exec \/ Commit \/ Logged)
    BY <1>6, <2>2, <1>1, <1>4
    DEF Drive, establishRelayState, execA2A, AppendReads, Run, retryMismatch, recordTaskStatus,
        Pause, MarkTerminating, cleanupActors, TerminateSession
  <2> QED  BY <2>1, <2>2
<1>7. CASE Cancel
  BY <1>7, <1>1, <1>2, <1>3
  DEF Cancel, cancelAndWait, CancelTaskAndSession, AppendReads, appendCancellationMarker,
      ClaimForCleanup, Stop
<1>8. CASE continueTask \/ CancelTask \/ Crash \/ Resume \/ discoverAndApply \/ storeCards
  BY <1>8, <1>1, <1>2
  DEF continueTask, CancelTask, Crash, Resume, discoverAndApply, storeCards, Stop
<1>9. CASE UNCHANGED vars
  BY <1>9, <1>1 DEF vars
<1> QED  BY <1>6, <1>7, <1>8, <1>9 DEF Next

\* Only execA2A mints a StepID.
LEMMA MintedMoves ==
  ASSUME [Next]_vars
  PROVE  minted' = minted \/ (execA2A /\ minted' = minted + 1)
<1>1. CASE Drive
  BY <1>1, ZenonT(40)
  DEF Drive, establishRelayState, execA2A, Exec, AppendReads, Run, Commit, Logged, retryMismatch,
      recordTaskStatus, Pause, MarkTerminating, cleanupActors, TerminateSession
<1>2. CASE Cancel
  BY <1>2
  DEF Cancel, cancelAndWait, CancelTaskAndSession, AppendReads, appendCancellationMarker,
      ClaimForCleanup
<1>3. CASE continueTask \/ CancelTask \/ Crash \/ Resume \/ discoverAndApply \/ storeCards
  BY <1>3 DEF continueTask, CancelTask, Crash, Resume, discoverAndApply, storeCards
<1>4. CASE UNCHANGED vars
  BY <1>4 DEF vars
<1> QED  BY <1>1, <1>2, <1>3, <1>4, SMTT(40) DEF Next

\* Which steps change an actor's runtime.
LEMMA RuntimeMoves ==
  ASSUME [Next]_vars
  PROVE  rt' = rt \/ Run \/ cleanupActors
<1>1. CASE Drive
  BY <1>1
  DEF Drive, establishRelayState, execA2A, Exec, AppendReads, Commit, Logged, retryMismatch,
      recordTaskStatus, Pause, MarkTerminating, TerminateSession
<1>2. CASE Cancel
  BY <1>2
  DEF Cancel, cancelAndWait, CancelTaskAndSession, AppendReads, appendCancellationMarker,
      ClaimForCleanup
<1>3. CASE continueTask \/ CancelTask \/ Crash \/ Resume \/ discoverAndApply \/ storeCards
  BY <1>3 DEF continueTask, CancelTask, Crash, Resume, discoverAndApply, storeCards
<1>4. CASE UNCHANGED vars
  BY <1>4 DEF vars
<1> QED  BY <1>1, <1>2, <1>3, <1>4, SMTT(40) DEF Next

\* A deleted actor's runtime is new.
LEMMA CleanupEffect ==
  ASSUME cleanupActors
  PROVE  \A a \in Agent : rt'[a] = rt[a] \/ rt'[a] = NewRuntime
BY DEF cleanupActors

\* Answers keep the name of their actor.
LEMMA SaidStep ==
  ASSUME IInv, SaidOK, [Next]_vars
  PROVE  SaidOK'
<1>a. Shape /\ TypeOK /\ WriterOK /\ "driver" \in Writer /\ d.conv \in Agent
      /\ d.out \in Envelope /\ {"output", "done"} \subseteq Kind /\ NoEnvelope \in Envelope
  BY InitialRecords DEF IInv, Shape, TypeOK, Writer, Kind
<1>1. \A a \in Agent : rt'[a].last # 0 =>
          rt'[a].out.from = a /\ rt'[a].out.step = rt'[a].last
  <2>1. CASE rt' = rt
    BY <2>1 DEF SaidOK
  <2>2. CASE Run
    BY <1>a, <2>2, TurnEffect DEF SaidOK
  <2>3. CASE cleanupActors
    BY <2>3, CleanupEffect DEF SaidOK, NewRuntime
  <2> QED  BY <2>1, <2>2, <2>3, RuntimeMoves
<1>2. \A a \in Agent : \A i \in DOMAIN log'[a] :
          log'[a][i].kind = "output" => log'[a][i].env.from = a
  <2>1. CASE log' = log
    BY <2>1 DEF SaidOK
  <2>2. CASE \E w \in Writer : wr[w].pc = "insert" /\ KeyIsFree(w) /\ Insert(w)
    <3>1. PICK w \in Writer : wr[w].pc = "insert" /\ Insert(w)
      BY <2>2
    <3>2. wr[w].kind = "output" => wr[w].env.from = wr[w].conv
      BY <1>a, <3>1 DEF WriterOK, SaidOK, Writer
    <3> SUFFICES ASSUME NEW a \in Agent, NEW i \in DOMAIN log'[a], log'[a][i].kind = "output"
                 PROVE  log'[a][i].env.from = a
      OBVIOUS
    <3>3. log[a] \in Seq(Event) /\ log'[a] \in Seq(Event)
      BY <1>a, <3>1, InsertEffect DEF TypeOK
    <3>4. CASE i \in DOMAIN log[a]
      BY <1>a, <3>4, LogGrows DEF SaidOK
    <3>5. CASE i \notin DOMAIN log[a]
      <4>1. a = wr[w].conv
        BY <1>a, <3>1, <3>5, InsertEffect
      <4>2. i = Len(log[a]) + 1
        <5>1. Len(log'[a]) = Len(log[a]) + 1
          BY <1>a, <3>1, <4>1, InsertEffect
        <5> QED  BY <3>3, <3>5, <5>1
      <4>3. log'[a][i] = [ss |-> wr[w].ss, kind |-> wr[w].kind, env |-> wr[w].env]
        BY <1>a, <3>1, <4>1, <4>2, InsertEffect
      <4> QED  BY <3>2, <4>1, <4>3
    <3> QED  BY <3>4, <3>5
  <2> QED  BY <1>a, <2>1, <2>2, LogEffect
<1>3. /\ d'.pc = "commit" => d'.out.from = d'.conv
      /\ wr'["driver"].pc # "idle" /\ wr'["driver"].kind = "output" =>
             wr'["driver"].env.from = d'.conv
  <2>1. CASE d' = d /\ wr'["driver"] = wr["driver"]
    BY <2>1 DEF SaidOK, At
  <2>2. CASE d' = d /\ Reads("driver")
    BY <1>a, <2>2, ReadsEffect DEF SaidOK, At
  <2>3. CASE Run
    <3>1. wr["driver"].pc = "idle" /\ wr' = wr
      BY <1>a, <2>3 DEF Run, WriterOK, At
    <3> QED  BY <1>a, <2>3, <3>1, TurnEffect
  <2>4. CASE Commit
    <3>1. d'.pc = "logging" /\ d'.conv = d.conv /\ d.out.from = d.conv
      BY <1>a, <2>4, GotoEffect DEF Commit, SaidOK
    <3>2. Begin("driver", d.conv, "done", NoEnvelope) \/ Begin("driver", d.conv, "output", d.out)
      BY <2>4 DEF Commit
    <3>3. wr'["driver"].kind = "done" \/ wr'["driver"].env = d.out
      BY <1>a, <3>2, BeginEffect
    <3> QED  BY <3>1, <3>3
  <2>5. CASE /\ d'.pc # "commit"
             /\ \/ wr'["driver"].pc = "idle"
                \/ wr'["driver"].kind = "input"
                \/ wr'["driver"].kind = "done"
    BY <2>5
  <2> QED  BY <1>a, <2>1, <2>2, <2>3, <2>4, <2>5, DriverMoves
<1> QED  BY <1>1, <1>2, <1>3 DEF SaidOK, At

\* The message of a turn is in the log.
LEMMA MessageIsLogged ==
  ASSUME TypeOK, NEW a \in Agent, HasInput(a)
  PROVE  \E i \in DOMAIN log[a] : PendingMessage(a) = log[a][i].env
<1>1. PICK S : S = {i \in DOMAIN log[a] : log[a][i].kind = "input"}
  OBVIOUS
<1>2. S \subseteq 1..Len(log[a]) /\ S # {} /\ Len(log[a]) \in Nat
  BY <1>1, ConvIs DEF HasInput
<1>3. Max(S) \in S
  BY <1>2, MaxIsMember
<1> QED  BY <1>1, <1>3 DEF PendingMessage, pendingInput

\* Every StepID is one that has been minted.
LEMMA MintedStep ==
  ASSUME IInv, MintedOK, SaidOK, TypeOK', [Next]_vars
  PROVE  MintedOK'
<1>a. /\ Shape /\ TypeOK /\ LogOK /\ minted \in Nat /\ minted' \in Nat /\ minted > 0
      /\ Writer = {"driver", "marker"} /\ d.conv \in Agent
      /\ {"input", "output", "done", "marker"} \subseteq Kind
      /\ NoEnvelope \in Envelope /\ Marker \in Envelope /\ d.out \in Envelope
      /\ d.msg \in Envelope /\ d.res \in Envelope /\ Owner \in Agent
  BY InitialRecords, OwnerAssumption DEF IInv, Shape, TypeOK, MintedOK, Writer, Kind
<1>b. /\ NoEnvelope.step = 0 /\ Marker.step = 0 /\ Bootstrap.step = 1
      /\ NoAppend.env.step = 0 /\ NewRuntime.out.step = 0
  BY DEF NoEnvelope, Marker, Bootstrap, ClientMessage, NoAppend, NewRuntime
<1>c. minted <= minted'
  BY <1>a, MintedMoves
<1>d. \A env \in Envelope : env.step <= minted => env.step <= minted'
  BY <1>a, <1>c DEF Envelope
<1>e. \A a \in Agent : \A i \in DOMAIN log[a] :
          log[a][i].env \in Envelope /\ log[a][i].env.step <= minted
  BY <1>a, ConvIs DEF MintedOK
<1>f. \A a \in Agent : rt[a].out \in Envelope
  BY <1>a DEF TypeOK, RuntimeState
<1>g. /\ \A w \in Writer : wr[w].env \in Envelope
      /\ d.res.step <= minted /\ d.msg.step <= minted /\ d.out.step <= minted
      /\ \A w \in Writer : wr[w].env.step <= minted
      /\ \A a \in Agent : rt[a].out.step <= minted
  BY <1>a DEF TypeOK, MintedOK
<1>h. Run => d'.out.step <= minted /\ d'.res = d.res /\ d'.msg = d.msg
  <2> SUFFICES ASSUME Run PROVE d'.out.step <= minted /\ d'.res = d.res /\ d'.msg = d.msg
    OBVIOUS
  <2>1. /\ d'.out.step = PendingMessage(d.conv).step /\ HasInput(d.conv)
        /\ d'.res = d.res /\ d'.msg = d.msg
    BY <1>a, TurnEffect
  <2>2. PICK i \in DOMAIN log[d.conv] : PendingMessage(d.conv) = log[d.conv][i].env
    BY <1>a, <2>1, MessageIsLogged
  <2> QED  BY <1>a, <1>e, <2>1, <2>2
<1>1. \A a \in Agent : \A i \in DOMAIN log'[a] : log'[a][i].env.step <= minted'
  <2>1. CASE log' = log
    BY <1>d, <1>e, <2>1
  <2>2. CASE \E w \in Writer : wr[w].pc = "insert" /\ KeyIsFree(w) /\ Insert(w)
    <3>1. PICK w \in Writer : Insert(w)
      BY <2>2
    <3> SUFFICES ASSUME NEW a \in Agent, NEW i \in DOMAIN log'[a]
                 PROVE  log'[a][i].env.step <= minted'
      OBVIOUS
    <3>2. log[a] \in Seq(Event) /\ log'[a] \in Seq(Event)
      BY <1>a, <3>1, InsertEffect DEF TypeOK
    <3>3. CASE i \in DOMAIN log[a]
      BY <1>a, <1>d, <1>e, <3>3, LogGrows
    <3>4. CASE i \notin DOMAIN log[a]
      <4>1. a = wr[w].conv
        BY <1>a, <3>1, <3>4, InsertEffect
      <4>2. i = Len(log[a]) + 1
        <5>1. Len(log'[a]) = Len(log[a]) + 1
          BY <1>a, <3>1, <4>1, InsertEffect
        <5> QED  BY <3>2, <3>4, <5>1
      <4>3. log'[a][i] = [ss |-> wr[w].ss, kind |-> wr[w].kind, env |-> wr[w].env]
        BY <1>a, <3>1, <4>1, <4>2, InsertEffect
      <4> QED  BY <1>d, <1>g, <4>3
    <3> QED  BY <3>3, <3>4
  <2> QED  BY <1>a, <2>1, <2>2, LogEffect
<1>2. \A a \in Agent : rt'[a].out.step <= minted'
  <2>1. CASE rt' = rt
    BY <1>d, <1>f, <1>g, <2>1
  <2>2. CASE Run
    <3>1. /\ rt'[d.conv].out = d'.out /\ \A a \in Agent : a # d.conv => rt'[a] = rt[a]
      BY <1>a, <2>2, TurnEffect
    <3>2. d'.out \in Envelope
      BY DEF TypeOK
    <3>3. d'.out.step <= minted'
      BY <1>d, <1>h, <2>2, <3>2
    <3> QED  BY <1>d, <1>f, <1>g, <3>1, <3>3
  <2>3. CASE cleanupActors
    <3>1. 0 <= minted'
      BY <1>a
    <3> QED  BY <1>b, <1>d, <1>f, <1>g, <2>3, <3>1, CleanupEffect
  <2> QED  BY <2>1, <2>2, <2>3, RuntimeMoves
<1>3. wr'["driver"].env.step <= minted'
  <2>1. CASE wr'["driver"] = wr["driver"]
    BY <1>a, <1>d, <1>g, <2>1
  <2>2. CASE Reads("driver")
    BY <1>a, <1>d, <1>g, <2>2, ReadsEffect
  <2>3. CASE Run
    BY <1>a, <1>d, <1>g, <2>3 DEF Run
  <2>4. CASE Commit
    <3>1. Begin("driver", d.conv, "done", NoEnvelope) \/ Begin("driver", d.conv, "output", d.out)
      BY <2>4 DEF Commit
    <3>2. wr'["driver"].env \in {NoEnvelope, d.out}
      BY <1>a, <3>1, BeginEffect
    <3> QED  BY <1>a, <1>b, <1>d, <1>g, <3>2
  <2>5. CASE wr'["driver"].env \in {NoEnvelope, d.msg}
    BY <1>a, <1>b, <1>d, <1>g, <2>5
  <2>6. CASE wr'["driver"] = NoAppend
    BY <1>a, <1>b, <2>6
  <2> QED  BY <1>a, <2>1, <2>2, <2>3, <2>4, <2>5, <2>6, DriverMoves
<1>4. wr'["marker"].env.step <= minted'
  <2>1. CASE wr'["marker"] \in {wr["marker"], NoAppend}
    BY <1>a, <1>b, <1>d, <1>g, <2>1
  <2>2. CASE Reads("marker")
    BY <1>a, <1>d, <1>g, <2>2, ReadsEffect
  <2>3. CASE Begin("marker", Owner, "marker", Marker)
    <3>1. wr'["marker"].env = Marker
      BY <1>a, <2>3, BeginEffect
    <3> QED  BY <1>a, <1>b, <3>1
  <2> QED  BY <1>a, <2>1, <2>2, <2>3, MarkerMoves
<1>5. d'.res.step <= minted' /\ d'.msg.step <= minted' /\ d'.out.step <= minted'
  <2>a. d.res.step <= minted' /\ d.msg.step <= minted' /\ d.out.step <= minted' /\ 0 <= minted'
    BY <1>a, <1>d, <1>g
  <2>1. CASE d' = d \/ \E label : Goto(label)
    <3>1. d'.res = d.res /\ d'.msg = d.msg /\ d'.out = d.out
      BY <1>a, <2>1, GotoEffect
    <3> QED  BY <2>a, <3>1
  <2>2. CASE \E label : Stop(label)
    <3>1. d'.res = NoEnvelope /\ d'.msg = NoEnvelope /\ d'.out = NoEnvelope
      BY <1>a, <2>2, StopEffect
    <3> QED  BY <1>b, <2>a, <3>1
  <2>3. CASE establishRelayState
    <3>1. /\ d'.msg = d.msg /\ d'.out = d.out
          /\ d'.res \in {Bootstrap, d.res} \/ \E p \in Places : d'.res = EventAt(p).env
      BY <1>a, <2>3, EstablishEffect
    <3>2. ASSUME NEW p \in Places PROVE EventAt(p).env.step <= minted'
      <4>1. p[1] \in Agent /\ p[2] \in DOMAIN log[p[1]] /\ EventAt(p) = log[p[1]][p[2]]
        BY <1>a, PlaceTyped DEF EventAt
      <4> QED  BY <1>d, <1>e, <4>1
    <3>3. 1 <= minted'
      BY <1>a, <1>c
    <3> QED  BY <1>b, <2>a, <3>1, <3>2, <3>3
  <2>4. CASE execA2A
    <3>1. PICK msg : /\ d' = [d EXCEPT !.pc = "exec", !.conv = d.res.to, !.msg = msg,
                                       !.inputs = TRUE]
                     /\ \/ msg = [d.res EXCEPT !.step = minted + 1] /\ minted' = minted + 1
                        \/ msg = d.res
      BY <2>4 DEF execA2A
    <3>2. d'.res = d.res /\ d'.msg = msg /\ d'.out = d.out
      BY <1>a, <3>1 DEF TypeOK
    <3>3. msg.step <= minted'
      <4>1. CASE msg = [d.res EXCEPT !.step = minted + 1] /\ minted' = minted + 1
        <5>1. msg.step = minted + 1
          BY <1>a, <4>1 DEF Envelope
        <5> QED  BY <1>a, <4>1, <5>1
      <4>2. CASE msg = d.res
        BY <2>a, <4>2
      <4> QED  BY <3>1, <4>1, <4>2
    <3> QED  BY <2>a, <3>2, <3>3
  <2>5. CASE Run
    <3>1. d'.out \in Envelope
      BY DEF TypeOK
    <3> QED  BY <1>d, <1>h, <2>5, <2>a, <3>1
  <2>6. CASE recordTaskStatus
    BY <1>a, <2>6, <2>a, RecordEffect
  <2>7. CASE continueTask \/ Resume \/ (ClaimForCleanup /\ At("rest"))
    <3>1. /\ d'.res.step = 0 \/ d'.res = d.res
          /\ d'.msg.step = 0 \/ d'.msg = d.msg
          /\ d'.out.step = 0 \/ d'.out = d.out
      BY <1>a, <1>b, <2>7, StartEffect
    <3> QED  BY <2>a, <3>1
  <2>6a. CASE retryMismatch
    BY <1>a, <2>6a, <2>a, RetryEffect
  <2>8. CASE Drive
    BY <2>8, <2>1, <2>3, <2>4, <2>5, <2>6, <2>6a
    DEF Drive, Exec, AppendReads, Commit, Logged, Pause, MarkTerminating, cleanupActors,
        TerminateSession
  <2>9. CASE Cancel
    BY <2>9, <2>1, <2>2, <2>7
    DEF Cancel, cancelAndWait, CancelTaskAndSession, AppendReads, appendCancellationMarker,
        ClaimForCleanup
  <2>10. CASE CancelTask \/ Crash \/ discoverAndApply \/ storeCards \/ UNCHANGED vars
    BY <2>10, <2>1, <2>2 DEF CancelTask, Crash, discoverAndApply, storeCards, vars
  <2> QED  BY <2>7, <2>8, <2>9, <2>10 DEF Next
<1>6. minted' > 0
  BY <1>a, <1>c
<1> QED  BY <1>a, <1>1, <1>2, <1>3, <1>4, <1>5, <1>6 DEF MintedOK

----------------------------------------------------------------------------
(* The chain, step by step. *)

\* The driver's steps keep the chain in order.
LEMMA DriveChain ==
  ASSUME IInv, TypeOK', CInv, ChainOK, ~Canceled, ~Canceled', Drive
  PROVE  ChainOK'
<1>a. TypeOK /\ EndOK /\ SaidOK /\ MintedOK
  BY DEF IInv, Shape, CInv
<1>1. CASE establishRelayState
  BY <1>1, <1>a, EstablishChain
<1>2. CASE execA2A
  BY <1>2, <1>a, DeliverChain
<1>3. CASE Exec
  BY <1>3, ExecChain
<1>4. CASE AppendReads("driver")
  BY <1>4, ReadsChain
<1>5. CASE Run
  BY <1>5, <1>a, RunChain
<1>6. CASE Commit
  BY <1>6, CommitChain
<1>7. CASE Logged
  BY <1>7, LoggedChain
<1>8. CASE retryMismatch
  BY <1>8, RetryChain
<1>9. CASE recordTaskStatus
  BY <1>9, RecordChain
<1>10. CASE Pause
  <2>1. d'.pc = "rest" /\ log' = log /\ rt' = rt /\ sess' = sess
    BY <1>10, <1>a, GotoEffect DEF Pause, store
  <2> QED  BY <1>a, <2>1, ParkedStep
<1>11. CASE MarkTerminating
  <2>1. d'.pc = "cleanup" /\ log' = log /\ sess' # "RUNNING"
    BY <1>11, <1>a, GotoEffect DEF MarkTerminating
  <2> QED  BY <1>a, <2>1, ParkedStep
<1>12. CASE cleanupActors
  <2>1. d'.pc = "terminate" /\ log' = log /\ sess' # "RUNNING"
    BY <1>12, <1>a, GotoEffect DEF cleanupActors, store, EndOK, At
  <2> QED  BY <1>a, <2>1, ParkedStep
<1>13. CASE TerminateSession
  <2>1. d'.pc = "rest" /\ log' = log /\ sess' # "RUNNING"
    BY <1>13, <1>a, GotoEffect DEF TerminateSession
  <2> QED  BY <1>a, <2>1, ParkedStep
<1> QED  BY <1>1, <1>2, <1>3, <1>4, <1>5, <1>6, <1>7, <1>8, <1>9, <1>10, <1>11, <1>12, <1>13
         DEF Drive

\* CancelTask interrupts the chain, or leaves it alone until its marker is logged.
LEMMA CancelChain ==
  ASSUME IInv, CInv, ChainOK, ~Canceled', [Next]_vars, Cancel
  PROVE  ChainOK'
<1>a. /\ Shape /\ TypeOK /\ LogOK /\ (sess' = "RUNNING" => sess = "RUNNING")
      /\ "marker" \in Writer /\ "driver" \in Writer /\ wr \in [Writer -> AppendSet]
      /\ Owner \in Agent /\ Marker \in Envelope /\ "marker" \in Kind
  BY SessionEnds, OwnerAssumption, InitialRecords
  DEF IInv, Shape, TypeOK, AppendSet, Writer, Kind
<1>1. CASE cancelAndWait
  <2>1. log' = log /\ rt' = rt
    BY <1>1 DEF cancelAndWait, store
  <2>2. CASE d' = d /\ wr' = wr
    BY <1>a, <2>1, <2>2, OthersStep
  <2>3. CASE Stop("rest")
    <3>1. d'.pc = "rest"
      BY <1>a, <2>3, StopEffect
    <3> QED  BY <1>a, <2>1, <3>1, ParkedStep
  <2> QED  BY <1>1, <2>2, <2>3 DEF cancelAndWait
<1>2. CASE CancelTaskAndSession
  <2>1. log' = log /\ rt' = rt /\ d' = d
    BY <1>2 DEF CancelTaskAndSession
  <2>2. wr'["driver"] = wr["driver"]
    BY <1>2, <1>a, BeginEffect DEF CancelTaskAndSession
  <2> QED  BY <1>a, <2>1, <2>2, OthersStep
<1>3. CASE AppendReads("marker")
  <2>1. log' = log /\ rt' = rt /\ d' = d
    BY <1>3 DEF AppendReads, store
  <2>2. wr'["driver"] = wr["driver"]
    BY <1>3, <1>a, ReadsEffect DEF AppendReads
  <2> QED  BY <1>a, <2>1, <2>2, OthersStep
<1>4. CASE appendCancellationMarker
  <2>1. rt' = rt /\ d' = d /\ wr'["driver"] = wr["driver"]
    BY <1>4, <1>a DEF appendCancellationMarker
  <2>2. CASE log' = log
    BY <1>a, <2>1, <2>2, OthersStep
  <2>3. CASE Insert("marker")
    <3>1. wr["marker"].kind = "marker"
      BY <1>4, <1>a DEF appendCancellationMarker, Shape, WriterOK
    <3>2. PICK c \in Agent, n \in Nat :
             log'[c] \in Seq(Event) /\ Len(log'[c]) = n + 1 /\ log'[c][n + 1].kind = "marker"
      <4>1. /\ wr["marker"].conv \in Agent /\ log'[wr["marker"].conv] \in Seq(Event)
            /\ Len(log'[wr["marker"].conv]) = Len(log[wr["marker"].conv]) + 1
            /\ log'[wr["marker"].conv][Len(log[wr["marker"].conv]) + 1] =
                   [ss |-> wr["marker"].ss, kind |-> wr["marker"].kind, env |-> wr["marker"].env]
        BY <1>a, <2>3, InsertEffect
      <4>2. log'[wr["marker"].conv][Len(log[wr["marker"].conv]) + 1].kind = "marker"
        BY <3>1, <4>1
      <4>3. Len(log[wr["marker"].conv]) \in Nat
        BY <1>a, <4>1, ConvIs
      <4> QED  BY <4>1, <4>2, <4>3
    <3>3. n + 1 \in DOMAIN log'[c]
      BY <3>2
    <3> QED  BY <3>2, <3>3 DEF Canceled
  <2> QED  BY <1>4, <2>2, <2>3 DEF appendCancellationMarker
<1>5. CASE ClaimForCleanup
  <2>1. log' = log /\ rt' = rt /\ wr' = wr
    BY <1>5 DEF ClaimForCleanup, store
  <2>2. CASE At("rest")
    <3>1. d'.pc = "cleanup"
      BY <1>5, <1>a, <2>2, StartEffect
    <3> QED  BY <1>a, <2>1, <3>1, ParkedStep
  <2>3. CASE d' = d
    BY <1>a, <2>1, <2>3, OthersStep
  <2> QED  BY <1>5, <2>2, <2>3 DEF ClaimForCleanup
<1> QED  BY <1>1, <1>2, <1>3, <1>4, <1>5 DEF Cancel

\* A resumption begins with runtimes that agree with the log.
LEMMA ResumeChain ==
  ASSUME IInv, ChainOK, Resume
  PROVE  ChainOK'
<1>1. TypeOK /\ LogOK /\ log' = log /\ rt' = rt /\ sess' = sess
  BY DEF IInv, Shape, Resume, store
<1>2. /\ d'.pc \in {"establish", "cleanup", "rest"}
      /\ d'.pc = "establish" => sess = "RUNNING"
  BY <1>1, StartEffect
<1>3. CASE d'.pc # "establish"
  BY <1>1, <1>2, <1>3, ParkedStep
<1>4. CASE d'.pc = "establish"
  <2>1. ShapeOfLog' /\ \A a \in Agent : Agree(a)'
    BY <1>1, <1>2, <1>4, SameLog DEF ChainOK
  <2> QED  BY <1>4, <2>1 DEF ChainOK, At
<1> QED  BY <1>3, <1>4

\* Every step keeps the chain in order, until a cancellation's marker is logged.
LEMMA ChainStep ==
  ASSUME IInv, TypeOK', CInv, [Next]_vars, ~Canceled'
  PROVE  ChainOK'
<1>1. ~Canceled /\ ChainOK /\ SaidOK /\ TypeOK /\ (sess' = "RUNNING" => sess = "RUNNING")
  BY LogGrows, SessionEnds DEF IInv, Shape, CInv, Canceled
<1>2. CASE Drive
  BY <1>1, <1>2, DriveChain
<1>3. CASE Cancel
  BY <1>1, <1>3, CancelChain
<1>4. CASE continueTask
  BY <1>1, <1>4, ContinueChain
<1>5. CASE Resume
  BY <1>1, <1>5, ResumeChain
<1>6. CASE Crash
  <2>1. d'.pc = "down" /\ log' = log /\ rt' = rt
    BY <1>1, <1>6, StopEffect DEF Crash, store
  <2> QED  BY <1>1, <2>1, ParkedStep
<1>7. CASE CancelTask \/ discoverAndApply \/ storeCards \/ UNCHANGED vars
  <2>1. log' = log /\ rt' = rt /\ d' = d /\ wr' = wr
    BY <1>7 DEF CancelTask, discoverAndApply, storeCards, store, vars
  <2> QED  BY <1>1, <2>1, OthersStep
<1> QED  BY <1>2, <1>3, <1>4, <1>5, <1>6, <1>7 DEF Next

\* The first state: nothing is logged, and nothing was said.
LEMMA InitCInv == Init => CInv
<1> SUFFICES ASSUME Init PROVE CInv
  OBVIOUS
<1>1. /\ \A a \in Agent : log[a] = <<>> /\ rt[a] = NewRuntime
      /\ d = [Idle EXCEPT !.pc = "establish", !.waits = TRUE]
      /\ cx.pc = "idle" /\ sess = "RUNNING" /\ minted = 1
      /\ wr["driver"] = NoAppend /\ wr["marker"] = NoAppend
  BY DEF Init, Writer
<1>2. /\ d.pc = "establish" /\ d.fresh = FALSE /\ d.res = NoEnvelope /\ d.msg = NoEnvelope
      /\ d.out = NoEnvelope
  BY <1>1 DEF Idle
<1>3. \A a \in Agent : DOMAIN log[a] = {}
  BY <1>1
<1>4. EndOK
  BY <1>1, <1>2 DEF EndOK
<1>5. SaidOK
  BY <1>1, <1>2, <1>3 DEF SaidOK, At, NewRuntime, NoAppend
<1>6. MintedOK
  BY <1>1, <1>2, <1>3 DEF MintedOK, NewRuntime, NoAppend, NoEnvelope, Writer
<1>7. ChainOK
  BY <1>1, <1>2 DEF ChainOK, At, ShapeOfLog, TailOK, Agree
<1> QED  BY <1>4, <1>5, <1>6, <1>7 DEF CInv

\* The invariant holds in every behaviour.
LEMMA ChainInvariance == Spec => []CInv
<1>1. Init => CInv
  BY InitCInv
<1>2. IInv /\ IInv' /\ CInv /\ [Next]_vars => CInv'
  <2> SUFFICES ASSUME IInv, IInv', CInv, [Next]_vars PROVE CInv'
    OBVIOUS
  <2>1. TypeOK'
    BY DEF IInv, Shape
  <2>2. EndOK' /\ SaidOK' /\ MintedOK'
    BY <2>1, EndStep, SaidStep, MintedStep DEF CInv
  <2>3. ~Canceled' => ChainOK'
    BY <2>1, ChainStep
  <2> QED  BY <2>2, <2>3 DEF CInv
<1> QED  BY <1>1, <1>2, Invariance, PTL DEF Spec

\* "A restart re-enters here and picks up exactly where the event log left off"
\* (relay.go): whatever agents call each other, wherever a crash or a
\* cancellation falls and however often the session was resumed or continued, the
\* envelope that the loop holds at a hop is the one that establishRelayState would
\* read from the log.
THEOREM ResumptionAgrees == Spec => []ResumeEqualsLive
<1>1. IInv /\ CInv => ResumeEqualsLive
  <2> SUFFICES ASSUME IInv, CInv, At("drive"), ~d.fresh, ~Canceled, NEW h \in lastHop
               PROVE  EventAt(h[1]).kind = "done" /\ EventAt(h[2]).env = d.res
    BY DEF ResumeEqualsLive
  <2>1. TypeOK /\ OrderOfRecord /\ ShapeOfLog /\ AtDrive
    BY DEF IInv, Shape, CInv, ChainOK
  <2>2. PICK a \in Agent : Leads(a) /\ Whole(a) /\ Before(a).env = d.res
    BY <2>1 DEF AtDrive
  <2>3. PICK b \in Agent : Leads(b) /\ EventAt(h[1]) = LastOf(b) /\ EventAt(h[2]) = Newer(b)
    BY <2>1, LastHopIs
  <2>4. a = b
    BY <2>1, <2>2, <2>3, OneLeader
  <2>5. LastOf(a).kind = "done"
    BY <2>2 DEF Whole, Leads
  <2> QED  BY <2>2, <2>3, <2>4, <2>5 DEF Newer
<1> QED  BY <1>1, Invariance, ChainInvariance, PTL

----------------------------------------------------------------------------
(***************************************************************************)
(* The outcome.  The second inductive invariant: who answers clients, and how *)
(* the task row follows the owner's replies in the log.                      *)
(***************************************************************************)
\* Clients talk to the owner alone.
Addressed(env) ==
    /\ env.to = Client => env.from = Owner
    /\ env.from = Client => env.to = Owner

\* What an agent hands out: it cancels nothing, and reports its progress to no client.
Answer(env) ==
    Addressed(env) /\ env.data # "canceled" /\ (env.to = Client => env.data # "working")

EntryIsAddressed(a, kind, env) ==
    /\ kind = "input" => Addressed(env) /\ env.to = a
    /\ kind = "output" => Answer(env)
    /\ kind = "marker" => Addressed(env)

\* The driver has the turn's answer in hand.
HasAnswer == d.pc \in {"commit", "record"} \/ (At("logging") /\ wr["driver"].kind # "input")

\* What the driver holds for the owner's client, and for the agents.
DriverIsAddressed ==
    /\ d.first = Owner
    /\ At("drive") => Addressed(d.res)
    /\ d.inputs => Addressed(d.msg) /\ d.msg.to = d.conv
    /\ HasAnswer => Answer(d.out) /\ d.out.from = d.conv

AddressOK ==
    /\ \A a \in Agent : \A i \in DOMAIN log[a] :
           EntryIsAddressed(a, log[a][i].kind, log[a][i].env)
    /\ \A w \in Writer : wr[w].pc # "idle" => EntryIsAddressed(wr[w].conv, wr[w].kind, wr[w].env)
    /\ \A a \in Agent : rt[a].last # 0 => Answer(rt[a].out)
    /\ \A a \in Agent : \A i \in rt[a].waiting : i.from = Client => a = Owner
    /\ DriverIsAddressed

\* The driver is not in the relay loop.
Parked == d.pc \in {"rest", "down", "cleanup", "terminate"}

\* The owner's claim at position i of its conversation has not been recorded yet.
Unrecorded(i) ==
    \/ i = Len(log[Owner]) /\ LastOf(Owner).kind = "output"
    \/ i = Len(log[Owner]) - 1 /\ At("record") /\ d.conv = Owner

\* There is a row if, but for the reply in hand, the owner claimed a Task, and only
\* then can there be a cancellation.
ClaimsOK ==
    /\ task.state # "none" => OwnerClaims(TaskData)
    /\ ~Canceled /\ ~d.lost /\ task.state = "none" =>
           \A i \in DOMAIN log[Owner] :
               log[Owner][i].kind = "output" /\ log[Owner][i].env.data \in TaskData =>
                   Unrecorded(i)
    /\ ~Parked => (d.hasTask <=> task.state # "none")
    /\ cx.pc # "idle" => task.state # "none"

\* The row follows the owner's last reply, if that is the newest hop.
RowFollows ==
    ~Canceled /\ ~d.lost /\ ~d.revived /\ task.state \notin {"none", "canceled"} =>
        (Leads(Owner) /\ Whole(Owner) /\ ~At("record") =>
            task.state = reconstructState(Before(Owner).env))

\* A session ends by the owner's answer or by a cancellation.
EndsOK ==
    /\ cx.pc = "marker" \/ Canceled =>
           task.state # "none" /\ (~d.revived => task.state = "canceled" /\ sess # "RUNNING")
    /\ sess # "RUNNING" /\ ~Parked =>
           task.state # "none" /\ (~d.revived => task.state = "canceled")
    /\ sess # "RUNNING" /\ ~d.revived /\ task.state # "canceled" =>
           /\ Leads(Owner) /\ Whole(Owner)
           /\ Before(Owner).env.to = Client /\ Before(Owner).env.data # "input"

RInv == AddressOK /\ ClaimsOK /\ RowFollows /\ EndsOK

----------------------------------------------------------------------------
(* Who talks to clients. *)

\* The answer of a turn, and whom the invocations that it leaves blocked will answer.
LEMMA ConnectAnswers ==
  ASSUME NEW a \in Agent, NEW r \in RuntimeState, NEW env \in Envelope, NEW history,
         NEW maySuspend, NEW new \in Connect(a, r, env, history, maySuspend), env.step # 0,
         Addressed(env), env.to = a, r.last # 0 => Answer(r.out),
         \A i \in r.waiting : i.from = Client => a = Owner
  PROVE  Answer(new.out) /\ \A i \in new.waiting : i.from = Client => a = Owner
<1>1. CASE env.step = r.last
  <2>1. new = r
    BY <1>1 DEF Connect
  <2> QED  BY <1>1, <2>1
<1>2. CASE env.step # r.last
  <2>1. PICK inv \in deliverOnce(a, r, env, history) :
            \E y \in Returns(a, inv) \cup Suspends(a, inv) : new = routeOrAwait(r, env, y)
    BY <1>2 DEF Connect
  <2>2. PICK y \in Returns(a, inv) \cup Suspends(a, inv) : new = routeOrAwait(r, env, y)
    BY <2>1
  <2>3. inv \in Invocation /\ y.env \in Envelope /\ y.env.from = a /\ a # Client
    BY <2>1, <2>2, Delivered, HandsOut, ClientAssumption
  <2>4. inv.from = Client => a = Owner
    <3>1. CASE env.reply
      <4>1. PICK w \in r.waiting : inv = [w EXCEPT !.step = env.step]
        BY <3>1 DEF deliverOnce
      <4>2. w \in Invocation
        BY DEF RuntimeState
      <4> QED  BY <4>1, <4>2 DEF Invocation
    <3>2. CASE ~env.reply
      <4>1. inv.from = env.from
        BY <2>1, <3>2 DEF deliverOnce, spawn
      <4> QED  BY <4>1 DEF Addressed
    <3> QED  BY <3>1, <3>2
  <2>5. /\ y.env.to = Client => a = Owner /\ y.env.data # "working"
        /\ y.env.data # "canceled"
        /\ \A i \in y.blocked : i.from = inv.from
    <3>1. CASE y \in Returns(a, inv)
      <4>1. PICK x \in Results(inv) : y = runInvocation(a, inv, x)
        BY <3>1 DEF Returns
      <4>2. x # "working" /\ x # "canceled"
        BY DEF Results
      <4> QED  BY <2>4, <4>1, <4>2 DEF runInvocation
    <3>2. CASE \E t \in Agent : y = SendMessage(a, inv, t)
      BY <3>2, ClientAssumption DEF SendMessage
    <3>3. CASE y = flushSelf(a, inv)
      BY <2>3, <3>3 DEF flushSelf, Invocation
    <3> QED  BY <3>1, <3>2, <3>3 DEF Suspends
  <2>6. PICK o : o = [y.env EXCEPT !.step = env.step]
    OBVIOUS
  <2>7. o.from = a /\ o.to = y.env.to /\ o.data = y.env.data
    BY <2>3, <2>6 DEF Envelope
  <2>8. Answer(o)
    BY <2>3, <2>5, <2>7 DEF Answer, Addressed
  <2>9. /\ new.out = o
        /\ new.waiting = {i \in r.waiting : ~(env.reply /\ i.step = env.corr)} \cup y.blocked
    BY <2>2, <2>6 DEF routeOrAwait
  <2> QED  BY <2>4, <2>5, <2>8, <2>9
<1> QED  BY <1>1, <1>2

\* The message of a turn was sent to its actor.
LEMMA MessageIsAddressed ==
  ASSUME TypeOK, AddressOK, NEW a \in Agent, HasInput(a)
  PROVE  Addressed(PendingMessage(a)) /\ PendingMessage(a).to = a
<1>1. PICK S : S = {i \in DOMAIN log[a] : log[a][i].kind = "input"}
  OBVIOUS
<1>2. S \subseteq 1..Len(log[a]) /\ S # {} /\ Len(log[a]) \in Nat
  BY <1>1, ConvIs DEF HasInput
<1>3. Max(S) \in S
  BY <1>2, MaxIsMember
<1>4. PendingMessage(a) = log[a][Max(S)].env
  BY <1>1 DEF PendingMessage, pendingInput
<1> QED  BY <1>1, <1>3, <1>4 DEF AddressOK, EntryIsAddressed

\* What a turn hands out, and leaves behind.
LEMMA TurnAnswers ==
  ASSUME Shape, AddressOK, SaidOK, Run
  PROVE  /\ Answer(d'.out)
         /\ \A a \in Agent : rt'[a].last # 0 => Answer(rt'[a].out)
         /\ \A a \in Agent : \A i \in rt'[a].waiting : i.from = Client => a = Owner
<1>1. /\ d \in DriverSet /\ d.conv \in Agent /\ rt \in [Agent -> RuntimeState]
      /\ TypeOK /\ HasInput(d.conv)
  BY DEF Shape, TypeOK, DriverSet, Run, At, DriverOK
<1>2. PICK a \in Agent : a = d.conv
  BY <1>1
<1>3. /\ PendingMessage(a) \in Envelope /\ PendingMessage(a).step # 0
      /\ Addressed(PendingMessage(a)) /\ PendingMessage(a).to = a
  BY <1>1, <1>2, PendingTyped, MessageIsAddressed DEF Shape
<1>4. PICK new \in Connect(a, rt[a], PendingMessage(a),
                           historySteps(a, pendingInput(a)), spent.moves < MaxMoves) :
          rt' = [rt EXCEPT ![a] = new]
  BY <1>2 DEF Run
<1>5. /\ rt[a] \in RuntimeState /\ (rt[a].last # 0 => Answer(rt[a].out))
      /\ \A i \in rt[a].waiting : i.from = Client => a = Owner
  BY <1>1 DEF AddressOK
<1>6. Answer(new.out) /\ \A i \in new.waiting : i.from = Client => a = Owner
  BY <1>3, <1>4, <1>5, ConnectAnswers
<1>7. rt'[a] = new /\ \A b \in Agent : b # a => rt'[b] = rt[b]
  BY <1>1, <1>4
<1>8. d'.out = new.out
  BY <1>2, <1>7, TurnEffect
<1> QED  BY <1>6, <1>7, <1>8 DEF AddressOK

\* The message that execA2A hands to Exec.
LEMMA DeliverEffect ==
  ASSUME TypeOK, execA2A
  PROVE  /\ d'.pc = "exec" /\ d'.conv = d.res.to /\ d'.inputs /\ SameSession
         /\ d'.msg.from = d.res.from /\ d'.msg.to = d.res.to
<1>1. d \in DriverSet /\ d.res \in Envelope
  BY DEF TypeOK, DriverSet
<1>2. PICK msg : /\ msg = d.res \/ msg = [d.res EXCEPT !.step = minted + 1]
                 /\ d' = [d EXCEPT !.pc = "exec", !.conv = d.res.to, !.msg = msg,
                                   !.inputs = TRUE]
  BY DEF execA2A
<1>3. msg.from = d.res.from /\ msg.to = d.res.to
  BY <1>1, <1>2 DEF Envelope
<1>4. d'.pc = "exec" /\ d'.conv = d.res.to /\ d'.inputs = TRUE /\ d'.msg = msg /\ SameSession
  BY <1>1, <1>2 DEF DriverSet, SameSession
<1> QED  BY <1>3, <1>4

\* An envelope in the log is addressed, whoever it is from.
LEMMA LoggedIsAddressed ==
  ASSUME TypeOK, AddressOK, NEW p \in Places, EventAt(p).kind # "done"
  PROVE  Addressed(EventAt(p).env)
<1>1. PICK a, i : a \in Agent /\ i \in DOMAIN log[a] /\ EventAt(p) = log[a][i]
  BY PlaceTyped DEF EventAt
<1>2. EntryIsAddressed(a, log[a][i].kind, log[a][i].env) /\ log[a][i].kind \in Kind
  BY <1>1, ConvIs DEF AddressOK
<1> QED  BY <1>1, <1>2 DEF EntryIsAddressed, Kind, Answer

\* The driver's part, step by step.
LEMMA DriverAddressStep ==
  ASSUME IInv, AddressOK, SaidOK, [Next]_vars
  PROVE  DriverIsAddressed'
<1>a. /\ TypeOK /\ Shape /\ LogOK /\ WriterOK /\ DriverIsAddressed /\ d.conv \in Agent
      /\ d.out \in Envelope /\ NoEnvelope \in Envelope /\ {"driver", "marker"} \subseteq Writer
      /\ {"input", "output", "done", "marker"} \subseteq Kind /\ Owner # Client
      /\ Owner \in Agent /\ d.msg \in Envelope /\ Marker \in Envelope
      /\ wr \in [Writer -> AppendSet]
  BY InitialRecords, OwnerAssumption, ClientAssumption
  DEF IInv, Shape, AddressOK, TypeOK, Writer, Kind, AppendSet
<1>1. CASE d' = d /\ wr'["driver"].kind = wr["driver"].kind
  BY <1>1, <1>a DEF DriverIsAddressed, HasAnswer, At
<1>2. CASE /\ d'.pc \notin {"drive", "commit", "record", "logging"} /\ d'.first = d.first
           /\ d'.inputs = d.inputs /\ d'.msg = d.msg /\ d'.conv = d.conv
  BY <1>2, <1>a DEF DriverIsAddressed, HasAnswer, At
<1>3. CASE /\ d'.pc \notin {"drive", "commit", "record", "logging"} /\ d'.first = Owner
           /\ d'.inputs = FALSE
  BY <1>3 DEF DriverIsAddressed, HasAnswer, At
<1>4. CASE establishRelayState
  <2>1. /\ d'.pc \in {"drive", "exec"} /\ d'.msg = d.msg /\ d'.first = d.first
        /\ d'.inputs => d.inputs /\ d'.conv = d.conv
        /\ \/ d'.res = Bootstrap
           \/ d'.pc = "exec"
           \/ \E p \in Places : EventAt(p).kind # "done" /\ d'.res = EventAt(p).env
    BY <1>a, <1>4, EstablishEffect DEF SameSession
  <2>2. Addressed(Bootstrap)
    BY <1>a DEF Bootstrap, ClientMessage, Addressed
  <2>3. d'.pc = "drive" => Addressed(d'.res)
    BY <1>a, <2>1, <2>2, LoggedIsAddressed
  <2> QED  BY <1>a, <2>1, <2>3 DEF DriverIsAddressed, HasAnswer, At
<1>5. CASE execA2A
  <2>1. /\ d'.pc = "exec" /\ d'.conv = d.res.to /\ d'.first = d.first
        /\ d'.msg.from = d.res.from /\ d'.msg.to = d.res.to
    BY <1>a, <1>5, DeliverEffect DEF SameSession
  <2>2. Addressed(d.res)
    BY <1>a, <1>5 DEF execA2A, DriverIsAddressed
  <2> QED  BY <1>a, <2>1, <2>2 DEF DriverIsAddressed, HasAnswer, At, Addressed
<1>6. CASE Exec
  <2>1. CASE Goto("run")
    BY <1>2, <1>a, <2>1, GotoEffect DEF SameSession
  <2>2. CASE Goto("logging") /\ Begin("driver", d.conv, "input", d.msg)
    <3>1. /\ d'.pc = "logging" /\ d'.first = d.first /\ d'.inputs = d.inputs
          /\ d'.msg = d.msg /\ d'.conv = d.conv /\ wr'["driver"].kind = "input"
      BY <1>a, <2>2, GotoEffect, BeginEffect DEF SameSession
    <3> QED  BY <1>a, <3>1 DEF DriverIsAddressed, HasAnswer, At
  <2> QED  BY <1>6, <2>1, <2>2 DEF Exec
<1>7. CASE \E w \in Writer : AppendReads(w)
  <2>1. PICK w \in Writer : Reads(w) /\ d' = d
    BY <1>7 DEF AppendReads
  <2>2. \A v \in Writer : wr'[v].kind = wr[v].kind
    BY <1>a, <2>1, ReadsEffect
  <2> QED  BY <1>1, <1>a, <2>1, <2>2
<1>8. CASE Run
  <2>1. /\ d'.pc = "commit" /\ d'.conv = d.conv /\ d'.msg = d.msg /\ d'.inputs = d.inputs
        /\ d'.first = d.first /\ d'.out.from = d.conv /\ Answer(d'.out)
    BY <1>a, <1>8, TurnEffect, TurnAnswers DEF SameSession
  <2> QED  BY <1>a, <2>1 DEF DriverIsAddressed, HasAnswer, At
<1>9. CASE Commit
  <2>1. /\ d'.pc = "logging" /\ d'.conv = d.conv /\ d'.msg = d.msg /\ d'.inputs = d.inputs
        /\ d'.first = d.first /\ d'.out = d.out /\ d.pc = "commit"
    BY <1>a, <1>9, GotoEffect DEF SameSession, Commit, At
  <2> QED  BY <1>a, <2>1 DEF DriverIsAddressed, HasAnswer, At
<1>10. CASE Logged
  <2>1. CASE Goto("run") \/ Goto("exec")
    BY <1>2, <1>a, <2>1, GotoEffect DEF SameSession
  <2>2. CASE wr["driver"].kind = "output" /\ d' = d
    <3>1. HasAnswer
      BY <1>10, <2>2 DEF Logged, HasAnswer
    <3> QED  BY <1>a, <2>2, <3>1 DEF DriverIsAddressed, HasAnswer, At
  <2>3. CASE wr["driver"].kind # "input" /\ Goto("record")
    <3>1. HasAnswer
      BY <1>10, <2>3 DEF Logged, HasAnswer
    <3>2. /\ d'.pc = "record" /\ d'.conv = d.conv /\ d'.msg = d.msg /\ d'.inputs = d.inputs
          /\ d'.first = d.first /\ d'.out = d.out
      BY <1>a, <2>3, GotoEffect DEF SameSession
    <3> QED  BY <1>a, <3>1, <3>2 DEF DriverIsAddressed, HasAnswer, At
  <2> QED  BY <1>10, <2>1, <2>2, <2>3 DEF Logged
<1>11. CASE retryMismatch
  BY <1>2, <1>a, <1>11, RetryEffect
<1>12. CASE recordTaskStatus
  <2>1. /\ d'.pc \in {"drive", "cleanup"} /\ d'.res = d.out /\ d'.msg = d.msg
        /\ d'.conv = d.conv /\ d'.inputs = d.inputs /\ d'.first = d.first
    BY <1>a, <1>12, RecordEffect
  <2>2. Answer(d.out)
    BY <1>a, <1>12 DEF recordTaskStatus, DriverIsAddressed, HasAnswer, At
  <2> QED  BY <1>a, <2>1, <2>2 DEF DriverIsAddressed, HasAnswer, At, Answer
<1>13. CASE Pause \/ MarkTerminating \/ cleanupActors \/ TerminateSession
  <2>1. PICK label \in {"rest", "cleanup", "terminate"} : Goto(label)
    BY <1>13 DEF Pause, MarkTerminating, cleanupActors, TerminateSession
  <2> QED  BY <1>2, <1>a, <2>1, GotoEffect DEF SameSession
<1>14. CASE continueTask
  <2>1. d'.pc = "drive" /\ d'.inputs = FALSE
    BY <1>a, <1>14, StartEffect
  <2>2. PICK p \in Places : /\ EventAt(p).kind # "done" /\ isTerminalReply(EventAt(p).env)
                            /\ d'.first = EventAt(p).env.from /\ d'.res = ClientMessage(d'.first)
    BY <1>a, <1>14, StartEffect
  <2>3. d'.first = Owner
    BY <1>a, <2>2, LoggedIsAddressed DEF Addressed, isTerminalReply
  <2>4. Addressed(d'.res)
    BY <1>a, <2>2, <2>3 DEF ClientMessage, Addressed
  <2> QED  BY <2>1, <2>3, <2>4 DEF DriverIsAddressed, HasAnswer, At
<1>15. CASE \E label \in {"rest", "down"} : Stop(label)
  BY <1>3, <1>a, <1>15, StopEffect
<1>16. CASE ClaimForCleanup
  <2>1. CASE At("rest")
    BY <1>3, <1>a, <1>16, <2>1, StartEffect
  <2>2. CASE ~At("rest")
    BY <1>1, <1>16, <2>2 DEF ClaimForCleanup
  <2> QED  BY <2>1, <2>2
<1>17. CASE Resume
  BY <1>2, <1>a, <1>17, StartEffect
<1>18. CASE CancelTaskAndSession
  <2>1. wr'["driver"] = wr["driver"]
    BY <1>a, <1>18, BeginEffect DEF CancelTaskAndSession
  <2> QED  BY <1>1, <1>18, <2>1 DEF CancelTaskAndSession
<1>19. CASE appendCancellationMarker
  <2>1. wr'["driver"] = wr["driver"]
    BY <1>a, <1>19 DEF appendCancellationMarker
  <2> QED  BY <1>1, <1>19, <2>1 DEF appendCancellationMarker
<1>20. CASE cancelAndWait \/ Crash \/ CancelTask \/ discoverAndApply \/ storeCards \/ UNCHANGED vars
  BY <1>1, <1>15, <1>20
  DEF cancelAndWait, Crash, CancelTask, discoverAndApply, storeCards, vars
<1> QED  BY <1>4, <1>5, <1>6, <1>7, <1>8, <1>9, <1>10, <1>11, <1>12, <1>13, <1>14, <1>16, <1>17,
            <1>18, <1>19, <1>20, <1>a
         DEF Next, Drive, Cancel

\* Nobody but the owner ever talks to clients.
LEMMA AddressStep ==
  ASSUME IInv, AddressOK, SaidOK, [Next]_vars
  PROVE  AddressOK'
<1>a. /\ TypeOK /\ Shape /\ WriterOK /\ DriverIsAddressed /\ d.conv \in Agent
      /\ d.out \in Envelope /\ NoEnvelope \in Envelope /\ Writer = {"driver", "marker"}
      /\ {"input", "output", "done", "marker"} \subseteq Kind /\ Owner # Client
      /\ Owner \in Agent /\ Marker \in Envelope
  BY InitialRecords, OwnerAssumption, ClientAssumption
  DEF IInv, Shape, AddressOK, TypeOK, Writer, Kind
<1>1. \A a \in Agent : \A i \in DOMAIN log'[a] :
          EntryIsAddressed(a, log'[a][i].kind, log'[a][i].env)
  <2>1. CASE log' = log
    BY <2>1 DEF AddressOK
  <2>2. CASE \E w \in Writer : wr[w].pc = "insert" /\ KeyIsFree(w) /\ Insert(w)
    <3>1. PICK w \in Writer : wr[w].pc = "insert" /\ Insert(w)
      BY <2>2
    <3>2. EntryIsAddressed(wr[w].conv, wr[w].kind, wr[w].env)
      BY <3>1 DEF AddressOK
    <3> SUFFICES ASSUME NEW a \in Agent, NEW i \in DOMAIN log'[a]
                 PROVE  EntryIsAddressed(a, log'[a][i].kind, log'[a][i].env)
      OBVIOUS
    <3>3. log[a] \in Seq(Event) /\ log'[a] \in Seq(Event)
      BY <1>a, <3>1, InsertEffect DEF TypeOK
    <3>4. CASE i \in DOMAIN log[a]
      BY <1>a, <3>4, LogGrows DEF AddressOK
    <3>5. CASE i \notin DOMAIN log[a]
      <4>1. a = wr[w].conv
        BY <1>a, <3>1, <3>5, InsertEffect
      <4>2. i = Len(log[a]) + 1
        <5>1. Len(log'[a]) = Len(log[a]) + 1
          BY <1>a, <3>1, <4>1, InsertEffect
        <5> QED  BY <3>3, <3>5, <5>1
      <4>3. log'[a][i] = [ss |-> wr[w].ss, kind |-> wr[w].kind, env |-> wr[w].env]
        BY <1>a, <3>1, <4>1, <4>2, InsertEffect
      <4> QED  BY <3>2, <4>1, <4>3
    <3> QED  BY <3>4, <3>5
  <2> QED  BY <1>a, <2>1, <2>2, LogEffect
<1>2. wr'["driver"].pc # "idle" =>
          EntryIsAddressed(wr'["driver"].conv, wr'["driver"].kind, wr'["driver"].env)
  <2>1. CASE wr'["driver"] = wr["driver"]
    BY <1>a, <2>1 DEF AddressOK
  <2>2. CASE Reads("driver")
    <3>1. /\ wr["driver"].pc # "idle" /\ wr'["driver"].conv = wr["driver"].conv
          /\ wr'["driver"].kind = wr["driver"].kind /\ wr'["driver"].env = wr["driver"].env
      BY <1>a, <2>2, ReadsEffect
    <3> QED  BY <1>a, <3>1 DEF AddressOK
  <2>3. CASE Run
    BY <2>1, <2>3 DEF Run
  <2>4. CASE Commit
    <3>1. Answer(d.out)
      BY <1>a, <2>4 DEF Commit, DriverIsAddressed, HasAnswer, At
    <3>2. Begin("driver", d.conv, "done", NoEnvelope) \/ Begin("driver", d.conv, "output", d.out)
      BY <2>4 DEF Commit
    <3>3. \/ wr'["driver"].kind = "done"
          \/ wr'["driver"].kind = "output" /\ wr'["driver"].env = d.out
      BY <1>a, <3>2, BeginEffect
    <3> QED  BY <3>1, <3>3 DEF EntryIsAddressed
  <2>5. CASE /\ wr'["driver"].kind = "input" /\ wr'["driver"].env = d.msg
             /\ wr'["driver"].conv = d.conv /\ d.inputs
    BY <1>a, <2>5 DEF EntryIsAddressed, DriverIsAddressed
  <2>6. CASE wr'["driver"].kind = "done"
    BY <2>6 DEF EntryIsAddressed
  <2> QED  BY <1>a, <2>1, <2>2, <2>3, <2>4, <2>5, <2>6, DriverMoves
<1>3. wr'["marker"].pc # "idle" =>
          EntryIsAddressed(wr'["marker"].conv, wr'["marker"].kind, wr'["marker"].env)
  <2>1. CASE wr'["marker"] \in {wr["marker"], NoAppend}
    BY <1>a, <2>1 DEF AddressOK, NoAppend
  <2>2. CASE Reads("marker")
    <3>1. /\ wr["marker"].pc # "idle" /\ wr'["marker"].conv = wr["marker"].conv
          /\ wr'["marker"].kind = wr["marker"].kind /\ wr'["marker"].env = wr["marker"].env
      BY <1>a, <2>2, ReadsEffect
    <3> QED  BY <1>a, <3>1 DEF AddressOK
  <2>3. CASE Begin("marker", Owner, "marker", Marker)
    <3>1. wr'["marker"].kind = "marker" /\ wr'["marker"].env = Marker
      BY <1>a, <2>3, BeginEffect
    <3>2. Addressed(Marker)
      BY <1>a DEF Marker, NoEnvelope, Addressed
    <3> QED  BY <3>1, <3>2 DEF EntryIsAddressed
  <2> QED  BY <1>a, <2>1, <2>2, <2>3, MarkerMoves
<1>4. /\ \A a \in Agent : rt'[a].last # 0 => Answer(rt'[a].out)
      /\ \A a \in Agent : \A i \in rt'[a].waiting : i.from = Client => a = Owner
  <2>1. CASE rt' = rt
    BY <2>1 DEF AddressOK
  <2>2. CASE Run
    BY <1>a, <2>2, TurnAnswers
  <2>3. CASE cleanupActors
    BY <2>3, CleanupEffect DEF AddressOK, NewRuntime
  <2> QED  BY <2>1, <2>2, <2>3, RuntimeMoves
<1>5. DriverIsAddressed'
  BY DriverAddressStep
<1> QED  BY <1>a, <1>1, <1>2, <1>3, <1>4, <1>5 DEF AddressOK

----------------------------------------------------------------------------
(* The row and the session. *)

\* A step that neither logs nor records anything, and does not end the session: the
\* driver is left as it was, or at another step of its own, or it enters the loop.
Quiet ==
    /\ log' = log /\ task' = task /\ sess' = sess
    /\ d.revived => d'.revived
    /\ \/ d' = d
       \/ /\ d'.pc # "record"
          /\ ~d'.lost => ~d.lost /\ ~(At("record") /\ d.out.from = d.first)
    /\ ~Parked' => \/ ~Parked /\ d'.hasTask = d.hasTask
                   \/ /\ d'.hasTask <=> task.state # "none"
                      /\ sess # "RUNNING" => Open /\ d'.revived
    /\ cx'.pc # "idle" => cx.pc # "idle" \/ Open
    /\ cx'.pc = "marker" => cx.pc = "marker"

\* Which steps log, record or end something.
LEMMA QuietSteps ==
  ASSUME IInv, SaidOK, [Next]_vars
  PROVE  \/ Quiet
         \/ Logged /\ Insert("driver") /\ KeyIsFree("driver")
         \/ recordTaskStatus
         \/ MarkTerminating \/ TerminateSession
         \/ CancelTaskAndSession /\ task.version = cx.version
         \/ appendCancellationMarker /\ Insert("marker")
<1>a. /\ TypeOK /\ Shape /\ LogOK
      /\ cx \in [pc : {"idle", "wait", "cas", "marker", "claim"}, version : Nat]
  BY DEF IInv, Shape, TypeOK
<1>1. CASE UNCHANGED <<store, d, cx>>
  BY <1>1 DEF Quiet, store, Parked
<1>2. CASE /\ UNCHANGED <<store, cx>> /\ d'.pc # "record" /\ ~At("record") /\ SameSession
           /\ ~Parked \/ Parked'
  BY <1>2 DEF Quiet, store, SameSession, At
<1>3. CASE establishRelayState
  <2>1. d'.pc \in {"drive", "exec"} /\ SameSession
    BY <1>a, <1>3, EstablishEffect
  <2> QED  BY <1>2, <1>3, <2>1 DEF establishRelayState, At, Parked
<1>4. CASE execA2A
  <2>1. d'.pc = "exec" /\ SameSession
    BY <1>a, <1>4, DeliverEffect
  <2> QED  BY <1>2, <1>4, <2>1 DEF execA2A, At, Parked
<1>5. CASE Exec \/ Commit
  <2>1. PICK label \in {"run", "logging"} : Goto(label)
    BY <1>5 DEF Exec, Commit
  <2>2. d'.pc \in {"run", "logging"} /\ SameSession
    BY <1>a, <2>1, GotoEffect
  <2> QED  BY <1>2, <1>5, <2>2 DEF Exec, Commit, At, Parked
<1>6. CASE Run
  <2>1. d'.pc = "commit" /\ SameSession
    BY <1>a, <1>6, TurnEffect
  <2> QED  BY <1>2, <1>6, <2>1 DEF Run, At, Parked
<1>7. CASE Logged
  <2>1. CASE Goto("exec") /\ UNCHANGED log
    <3>1. d'.pc = "exec" /\ SameSession
      BY <1>a, <2>1, GotoEffect
    <3> QED  BY <1>2, <1>7, <2>1, <3>1 DEF Logged, At, Parked, store
  <2> QED  BY <1>7, <2>1 DEF Logged
<1>8. CASE retryMismatch
  <2>1. /\ d'.pc = "exec" /\ d'.hasTask = d.hasTask /\ d'.revived = d.revived
        /\ ~d'.lost => ~d.lost /\ d.out.from # d.first
    BY <1>a, <1>8, RetryEffect
  <2> QED  BY <1>8, <2>1 DEF retryMismatch, Quiet, At, Parked, store
<1>9. CASE Pause \/ cleanupActors
  <2>1. PICK label \in {"rest", "terminate"} : Goto(label)
    BY <1>9 DEF Pause, cleanupActors
  <2>2. d'.pc \in {"rest", "terminate"} /\ SameSession
    BY <1>a, <2>1, GotoEffect
  <2> QED  BY <1>2, <1>9, <2>2 DEF Pause, cleanupActors, At, Parked
<1>10. CASE continueTask
  <2>1. /\ d'.pc = "drive" /\ d'.lost = d.lost
        /\ d'.revived <=> d.revived \/ sess # "RUNNING"
        /\ d'.hasTask <=> task.state # "none"
    BY <1>a, <1>10, StartEffect
  <2>2. UNCHANGED <<store, cx>> /\ At("rest") /\ Open
    BY <1>10 DEF continueTask
  <2> QED  BY <2>1, <2>2 DEF Quiet, store, At
<1>11. CASE Resume
  <2>1. /\ d'.pc \in {"establish", "cleanup", "rest"}
        /\ d'.pc = "establish" => sess = "RUNNING"
        /\ d'.lost = d.lost /\ d'.revived = d.revived
        /\ d'.hasTask <=> task.state # "none"
    BY <1>a, <1>11, StartEffect
  <2>2. UNCHANGED <<store, cx>> /\ At("down")
    BY <1>11 DEF Resume
  <2> QED  BY <2>1, <2>2 DEF Quiet, store, At, Parked
<1>12. CASE \E label \in {"rest", "down"} :
              Stop(label) /\ UNCHANGED store /\ (cx' = cx \/ (cx.pc # "idle" /\ cx'.pc = "cas"))
  <2>1. /\ d'.pc \in {"rest", "down"} /\ d'.revived = d.revived
        /\ ~d'.lost => ~d.lost /\ ~(At("record") /\ d.out.from = d.first)
    BY <1>a, <1>12, StopEffect
  <2> QED  BY <1>12, <2>1 DEF Quiet, store, Parked
<1>13. CASE Crash
  BY <1>12, <1>13 DEF Crash
<1>14. CASE cancelAndWait
  <2>1. cx.pc # "idle" /\ cx'.pc = "cas" /\ UNCHANGED store
    BY <1>a, <1>14 DEF cancelAndWait
  <2>2. CASE d' = d
    BY <2>1, <2>2 DEF Quiet, store, Parked
  <2>3. CASE Stop("rest")
    BY <1>12, <2>1, <2>3
  <2> QED  BY <1>14, <2>2, <2>3 DEF cancelAndWait
<1>15. CASE CancelTask
  <2>1. cx'.pc = "wait" /\ UNCHANGED <<store, d>> /\ Open
    BY <1>15 DEF CancelTask
  <2> QED  BY <2>1 DEF Quiet, store, Parked
<1>16. CASE CancelTaskAndSession /\ task.version # cx.version
  <2>1. cx'.pc = "idle" /\ UNCHANGED <<store, d>>
    BY <1>a, <1>16 DEF CancelTaskAndSession, store
  <2> QED  BY <2>1 DEF Quiet, store, Parked
<1>17. CASE appendCancellationMarker /\ UNCHANGED log
  <2>1. cx'.pc = "claim" /\ cx.pc # "idle" /\ UNCHANGED <<store, d>>
    BY <1>a, <1>17 DEF appendCancellationMarker, store
  <2> QED  BY <2>1 DEF Quiet, store, Parked
<1>18. CASE ClaimForCleanup
  <2>1. cx'.pc = "idle" /\ UNCHANGED store
    BY <1>a, <1>18 DEF ClaimForCleanup
  <2>2. CASE At("rest")
    <3>1. d'.pc = "cleanup" /\ d'.lost = d.lost /\ d'.revived = d.revived
      BY <1>a, <1>18, <2>2, StartEffect
    <3> QED  BY <2>1, <2>2, <3>1 DEF Quiet, store, Parked, At
  <2>3. CASE ~At("rest")
    <3>1. d' = d
      BY <1>18, <2>3 DEF ClaimForCleanup
    <3> QED  BY <2>1, <3>1 DEF Quiet, store, Parked
  <2> QED  BY <2>2, <2>3
<1>19. CASE \/ \E w \in Writer : AppendReads(w)
            \/ discoverAndApply \/ storeCards \/ UNCHANGED vars
  BY <1>1, <1>19 DEF AppendReads, discoverAndApply, storeCards, vars, store
<1>20. appendCancellationMarker => Insert("marker") \/ UNCHANGED log
  BY DEF appendCancellationMarker
<1>21. "driver" \in Writer /\ "marker" \in Writer
  BY DEF Writer
<1> QED  BY <1>3, <1>4, <1>5, <1>6, <1>7, <1>8, <1>9, <1>10, <1>11, <1>13, <1>14, <1>15, <1>16,
            <1>17, <1>18, <1>19, <1>20, <1>21
         DEF Next, Drive, Cancel

\* The newest hop of a conversation that is whole is the reply before the last event.
LEMMA ReplyOfWhole ==
  ASSUME TypeOK, ShapeOfLog, NEW a \in Agent, Leads(a), Whole(a)
  PROVE  /\ Len(log[a]) - 1 \in DOMAIN log[a] /\ Len(log[a]) \in Nat
         /\ Before(a) = log[a][Len(log[a]) - 1] /\ Before(a).kind = "output"
         /\ LastOf(a).kind = "done"
<1>1. log[a] # <<>> /\ LastOf(a).kind = "done" /\ TailOK(a)
  BY DEF Leads, Whole, ShapeOfLog
<1>2. PICK n \in Nat : n = Len(log[a]) /\ DOMAIN log[a] = 1..n
  BY ConvIs
<1>3. n > 1 /\ Before(a).kind = "output"
  BY <1>1, <1>2 DEF TailOK
<1>4. n - 1 \in 1..n
  BY <1>2, <1>3
<1> QED  BY <1>1, <1>2, <1>3, <1>4 DEF Before

\* The reply in hand when it is to be recorded.
LEMMA ReplyInHand ==
  ASSUME IInv, CInv, RInv, At("record"), ~Canceled
  PROVE  /\ d.out.from = d.conv /\ d.first = Owner /\ d.conv \in Agent /\ ShapeOfLog
         /\ Leads(d.conv) /\ Whole(d.conv) /\ (~Mismatch => Before(d.conv).env = d.out)
<1>1. ShapeOfLog /\ AtRecord
  BY DEF CInv, ChainOK
<1>2. d.out.from = d.conv /\ d.first = Owner
  BY DEF RInv, AddressOK, DriverIsAddressed, HasAnswer, At
<1> QED  BY <1>1, <1>2 DEF AtRecord, Leads

\* What the driver has in hand at "record" is not parked, and knows whether there is a row.
LEMMA RecordKnows ==
  ASSUME IInv, RInv, At("record")
  PROVE  /\ d.hasTask <=> task.state # "none"
         /\ sess # "RUNNING" => task.state # "none" /\ (~d.revived => task.state = "canceled")
         /\ sess = "TERMINATED" => d.revived
<1>1. ~Parked
  BY DEF At, Parked
<1>2. sess = "TERMINATED" => d.revived
  BY DEF IInv, TeardownOK, At
<1> QED  BY <1>1, <1>2 DEF RInv, ClaimsOK, EndsOK

\* A claim stays in the log.
LEMMA ClaimsStay ==
  ASSUME Shape, [Next]_vars, OwnerClaims(TaskData)
  PROVE  OwnerClaims(TaskData)'
<1>1. PICK i \in DOMAIN log[Owner] :
          log[Owner][i].kind = "output" /\ log[Owner][i].env.data \in TaskData
  BY DEF OwnerClaims
<1>2. i \in DOMAIN log'[Owner] /\ log'[Owner][i] = log[Owner][i]
  BY OwnerAssumption, LogGrows
<1> QED  BY <1>1, <1>2 DEF OwnerClaims

\* A row appears with the claim that the driver has in hand, which is logged.
LEMMA RowIsClaimed ==
  ASSUME IInv, CInv, RInv, [Next]_vars, task'.state # "none"
  PROVE  OwnerClaims(TaskData)'
<1>a. Shape /\ TypeOK /\ SaidOK
  BY DEF IInv, Shape, CInv
<1>1. CASE task.state # "none"
  BY <1>1, <1>a, ClaimsStay DEF RInv, ClaimsOK
<1>2. CASE task.state = "none"
  <2>1. CASE recordTaskStatus
    <3>1. At("record") /\ ~Mismatch
      BY <2>1 DEF recordTaskStatus
    <3>2. ~d.hasTask /\ ~Canceled
      BY <1>2, <3>1, RecordKnows DEF RInv, EndsOK
    <3>3. task' = Status(d.out, d.hasTask, d.first)
      BY <1>a, <1>2, <2>1, RecordEffect
    <3>4. d.out.from = d.first /\ d.out.data \in TaskData
      BY <1>2, <3>2, <3>3 DEF Status
    <3>5. /\ d.conv = Owner /\ ShapeOfLog /\ Leads(Owner) /\ Whole(Owner)
          /\ Before(Owner).env = d.out
      BY <3>1, <3>2, <3>4, ReplyInHand
    <3>6. OwnerClaims(TaskData)
      BY <1>a, <3>4, <3>5, OwnerAssumption, ReplyOfWhole DEF OwnerClaims
    <3> QED  BY <1>a, <3>6, ClaimsStay
  <2>2. CASE CancelTaskAndSession
    BY <1>2, <2>2 DEF CancelTaskAndSession, RInv, ClaimsOK
  <2>3. CASE task' = task
    BY <1>2, <2>3
  <2> QED  BY <1>a, <2>1, <2>2, <2>3, QuietSteps
           DEF Quiet, Logged, MarkTerminating, TerminateSession, appendCancellationMarker
<1> QED  BY <1>1, <1>2

\* As long as there is no row, the only claim of the owner's is the reply in hand.
LEMMA UnrecordedStep ==
  ASSUME IInv, CInv, RInv, TypeOK', [Next]_vars,
         ~Canceled', ~d'.lost, task'.state = "none"
  PROVE  \A i \in DOMAIN log'[Owner] :
             log'[Owner][i].kind = "output" /\ log'[Owner][i].env.data \in TaskData =>
                 Unrecorded(i)'
<1> DEFINE Claim(i) == log[Owner][i].kind = "output" /\ log[Owner][i].env.data \in TaskData
<1>a. /\ Shape /\ TypeOK /\ SaidOK /\ Owner \in Agent /\ "driver" \in Writer
  BY OwnerAssumption DEF IInv, Shape, CInv, Writer
<1>b. PICK n \in Nat : n = Len(log[Owner]) /\ DOMAIN log[Owner] = 1..n
  BY <1>a, ConvIs
<1>c. ~Canceled
  <2>1. \A a \in Agent : \A i \in DOMAIN log[a] : i \in DOMAIN log'[a] /\ log'[a][i] = log[a][i]
    BY <1>a, LogGrows
  <2> QED  BY <2>1 DEF Canceled
<1>d. ~d.lost /\ task.state = "none" => \A i \in 1..n : Claim(i) => Unrecorded(i)
  BY <1>b, <1>c DEF RInv, ClaimsOK
<1>1. CASE Quiet
  <2>1. log' = log /\ task' = task
    BY <1>1 DEF Quiet
  <2>2. CASE d' = d
    BY <1>b, <1>d, <2>1, <2>2 DEF Unrecorded, LastOf, At
  <2>3. CASE d' # d
    <3>1. ~d.lost /\ ~(At("record") /\ d.out.from = d.first)
      BY <1>1, <2>3 DEF Quiet
    <3>2. ~(At("record") /\ d.conv = Owner)
      BY <1>c, <3>1, ReplyInHand
    <3> QED  BY <1>b, <1>d, <2>1, <3>1, <3>2 DEF Unrecorded, LastOf
  <2> QED  BY <2>2, <2>3
<1>2. CASE Logged /\ Insert("driver") /\ KeyIsFree("driver")
  <2>1. /\ At("logging") /\ wr["driver"].pc = "insert" /\ task' = task
        /\ log' \in [Agent -> Seq(Event)] /\ ChainOK /\ d.conv \in Agent
    BY <1>2, <1>a, <1>c DEF Logged, CInv, TypeOK
  <2>2. /\ \A a \in Agent : a # d.conv => log'[a] = log[a] /\ LastOf(a)' = LastOf(a)
        /\ \A a \in Agent : a = d.conv =>
               LastOf(a)' = [ss |-> wr["driver"].ss, kind |-> wr["driver"].kind,
                             env |-> wr["driver"].env]
        /\ Len(log'[d.conv]) = Len(log[d.conv]) + 1
    BY <1>2, <2>1, InsertChain
  <2>3. d'.conv = d.conv /\ d'.lost = d.lost
        /\ (wr["driver"].kind \notin {"input", "output"} => d'.pc = "record")
    <3>1. CASE d' = d /\ wr["driver"].kind = "output"
      BY <3>1
    <3>2. CASE wr["driver"].kind = "input" /\ Goto("run")
      BY <1>a, <3>2, GotoEffect DEF SameSession
    <3>3. CASE Goto("record")
      BY <1>a, <3>3, GotoEffect DEF SameSession
    <3> QED  BY <1>2, <3>1, <3>2, <3>3 DEF Logged
  <2>4. \A i \in 1..n : Claim(i) => i = n /\ LastOf(Owner).kind = "output"
    BY <1>b, <1>d, <2>1, <2>3 DEF Unrecorded, At
  <2>5. CASE d.conv # Owner
    <3>1. log'[Owner] = log[Owner] /\ LastOf(Owner)' = LastOf(Owner)
      BY <1>a, <2>2, <2>5
    <3> QED  BY <1>b, <2>4, <3>1 DEF Unrecorded
  <2>6. CASE d.conv = Owner
    <3>1. /\ Len(log'[Owner]) = n + 1 /\ LastOf(Owner)'.kind = wr["driver"].kind
          /\ LastOf(Owner)' = log'[Owner][n + 1] /\ DOMAIN log'[Owner] = 1..(n + 1)
          /\ \A i \in 1..n : log'[Owner][i] = log[Owner][i]
      <4>1. Len(log'[Owner]) = n + 1 /\ LastOf(Owner)'.kind = wr["driver"].kind
        BY <1>a, <1>b, <2>2, <2>6
      <4>2. LastOf(Owner)' = log'[Owner][n + 1] /\ DOMAIN log'[Owner] = 1..(n + 1)
        BY <1>a, <2>1, <4>1 DEF LastOf
      <4>3. \A i \in 1..n : log'[Owner][i] = log[Owner][i]
        BY <1>a, <1>b, LogGrows
      <4> QED  BY <4>1, <4>2, <4>3
    <3>2. /\ wr["driver"].kind \in {"input", "output", "done"}
          /\ wr["driver"].kind \in {"input", "output"} => LastOf(Owner).kind # "output" \/ n = 0
      BY <1>a, <1>b, <2>1, <2>6, ConvIs DEF ChainOK, AtLogging, AllWhole, Whole
    <3> SUFFICES ASSUME NEW i \in 1..(n + 1), log'[Owner][i].kind = "output",
                        log'[Owner][i].env.data \in TaskData
                 PROVE  Unrecorded(i)'
      BY <3>1
    <3>3. CASE i = n + 1
      BY <3>1, <3>3 DEF Unrecorded
    <3>4. CASE i # n + 1
      <4>1. i \in 1..n
        BY <3>4
      <4>2. i = n /\ LastOf(Owner).kind = "output"
        BY <2>4, <3>1, <4>1
      <4>3. d'.pc = "record" /\ d'.conv = Owner
        BY <2>3, <2>6, <3>2, <4>1, <4>2
      <4>4. i = Len(log'[Owner]) - 1
        BY <3>1, <4>2
      <4> QED  BY <4>3, <4>4 DEF Unrecorded, At
    <3> QED  BY <3>3, <3>4
  <2> QED  BY <2>5, <2>6
<1>3. CASE recordTaskStatus
  <2>1. At("record") /\ ~Mismatch /\ log' = log
    BY <1>3 DEF recordTaskStatus
  <2>2. task.state = "none" /\ ~d.hasTask
    <3>1. CASE d'.pc = "cleanup"
      BY <1>a, <1>3, <2>1, <3>1, RecordEffect, RecordKnows
    <3>2. CASE d'.pc = "drive"
      <4>1. task' = Status(d.out, d.hasTask, d.first)
        BY <1>a, <1>3, <3>2, RecordEffect
      <4>2. CASE task.state = "none"
        BY <2>1, <4>2, RecordKnows
      <4>3. CASE task.state # "none"
        <5>1. d.hasTask
          BY <2>1, <4>3, RecordKnows
        <5>2. task'.state # "none"
          BY <4>1, <4>3, <5>1 DEF Status, reconstructState, TaskData
        <5> QED  BY <5>2
      <4> QED  BY <4>2, <4>3
    <3> QED  BY <1>a, <1>3, <3>1, <3>2, RecordEffect
  <2>3. d'.pc = "drive" /\ task' = Status(d.out, d.hasTask, d.first)
    BY <1>a, <1>3, <2>1, <2>2, RecordEffect, RecordKnows
  <2>4. task' = task /\ ~(d.out.from = d.first /\ d.out.data \in TaskData)
    BY <2>2, <2>3 DEF Status, TaskData
  <2>5. ~d.lost
    BY <1>a, <1>3, <2>3, <2>4, RecordEffect
  <2>6. \A i \in 1..n : Claim(i) => i = n /\ LastOf(Owner).kind = "output"
    <3>1. SUFFICES ASSUME NEW i \in 1..n, Claim(i), d.conv = Owner, i = n - 1 PROVE FALSE
      BY <1>b, <1>d, <2>2, <2>5 DEF Unrecorded
    <3>2. log[Owner][i].env = d.out /\ d.out.from = d.first
      BY <1>b, <1>c, <2>1, <3>1, ReplyInHand DEF Before
    <3> QED  BY <2>4, <3>1, <3>2
  <2> QED  BY <1>b, <2>1, <2>6 DEF Unrecorded, LastOf
<1>4. CASE MarkTerminating \/ TerminateSession
  <2>1. log' = log /\ task' = task /\ ~At("record")
    BY <1>4 DEF MarkTerminating, TerminateSession, At
  <2>2. PICK label \in {"cleanup", "rest"} : Goto(label)
    BY <1>4 DEF MarkTerminating, TerminateSession
  <2>3. d'.lost = d.lost
    BY <1>a, <2>2, GotoEffect DEF SameSession
  <2> QED  BY <1>b, <1>d, <2>1, <2>3 DEF Unrecorded, LastOf
<1>5. CASE CancelTaskAndSession /\ task.version = cx.version
  BY <1>5 DEF CancelTaskAndSession
<1>6. CASE appendCancellationMarker /\ Insert("marker")
  BY <1>6 DEF appendCancellationMarker, RInv, ClaimsOK
<1> QED  BY <1>a, <1>1, <1>2, <1>3, <1>4, <1>5, <1>6, QuietSteps

\* The driver logs no marker.
LEMMA DriverLeavesNoMarker ==
  ASSUME TypeOK, "driver" \in Writer, Insert("driver"), log' \in [Agent -> Seq(Event)],
         wr["driver"].kind # "marker", Canceled'
  PROVE  Canceled
<1>1. PICK a, i : a \in Agent /\ i \in DOMAIN log'[a] /\ log'[a][i].kind = "marker"
  BY DEF Canceled
<1>2. log[a] \in Seq(Event) /\ log'[a] \in Seq(Event)
  BY <1>1 DEF TypeOK
<1>3. CASE a # wr["driver"].conv
  <2>1. log'[a] = log[a]
    BY <1>1, <1>3, InsertEffect
  <2> QED  BY <1>1, <2>1 DEF Canceled
<1>4. CASE a = wr["driver"].conv
  <2>1. /\ Len(log'[a]) = Len(log[a]) + 1
        /\ log'[a][Len(log[a]) + 1] = [ss |-> wr["driver"].ss, kind |-> wr["driver"].kind,
                                       env |-> wr["driver"].env]
        /\ \A k \in DOMAIN log[a] : log'[a][k] = log[a][k]
    BY <1>4, InsertEffect
  <2>2. i # Len(log[a]) + 1
    BY <1>1, <2>1
  <2>3. i \in DOMAIN log[a]
    BY <1>1, <1>2, <2>1, <2>2
  <2> QED  BY <1>1, <2>1, <2>3 DEF Canceled
<1> QED  BY <1>3, <1>4

\* The claims and the row.
LEMMA ClaimsStep ==
  ASSUME IInv, CInv, RInv, TypeOK', [Next]_vars
  PROVE  ClaimsOK'
<1>a. TypeOK /\ SaidOK /\ (cx.pc # "idle" => task.state # "none")
  BY DEF IInv, Shape, CInv, RInv, ClaimsOK
<1>1. task.state # "none" => task'.state # "none"
  <2>1. CASE recordTaskStatus
    <3>1. At("record")
      BY <2>1 DEF recordTaskStatus
    <3>2. task' = task \/ task' = Status(d.out, d.hasTask, d.first)
      BY <1>a, <2>1, RecordEffect
    <3>3. task.state # "none" => d.hasTask
      BY <3>1, RecordKnows
    <3> QED  BY <3>2, <3>3 DEF Status, reconstructState, TaskData
  <2>2. CASE CancelTaskAndSession
    BY <2>2 DEF CancelTaskAndSession
  <2>3. CASE task' = task
    BY <2>3
  <2> QED  BY <1>a, <2>1, <2>2, <2>3, QuietSteps
           DEF Quiet, Logged, MarkTerminating, TerminateSession, appendCancellationMarker
<1>2. cx'.pc # "idle" => task'.state # "none"
  <2>1. CASE Quiet
    BY <1>a, <2>1 DEF Quiet, Open
  <2>2. CASE cx' = cx
    BY <1>a, <1>1, <2>2
  <2>3. CASE CancelTaskAndSession \/ appendCancellationMarker
    BY <1>a, <1>1, <2>3 DEF CancelTaskAndSession, appendCancellationMarker
  <2> QED  BY <1>a, <2>1, <2>2, <2>3, QuietSteps
           DEF Logged, recordTaskStatus, MarkTerminating, TerminateSession
<1>3. ~Parked' => (d'.hasTask <=> task'.state # "none")
  <2>a. ~Parked => (d.hasTask <=> task.state # "none")
    BY DEF RInv, ClaimsOK
  <2>1. CASE Quiet
    BY <2>a, <2>1 DEF Quiet
  <2>2. CASE Logged
    <3>1. d' = d \/ \E label : Goto(label)
      BY <2>2 DEF Logged
    <3>2. d'.hasTask = d.hasTask /\ task' = task /\ ~Parked
      BY <1>a, <2>2, <3>1, GotoEffect DEF SameSession, Logged, At, Parked
    <3> QED  BY <2>a, <3>2
  <2>3. CASE recordTaskStatus
    BY <1>a, <2>3, RecordEffect DEF Parked
  <2>4. CASE MarkTerminating \/ TerminateSession
    <3>1. PICK label \in {"cleanup", "rest"} : Goto(label)
      BY <2>4 DEF MarkTerminating, TerminateSession
    <3>2. Parked'
      BY <1>a, <3>1, GotoEffect DEF Parked
    <3> QED  BY <3>2
  <2>5. CASE CancelTaskAndSession \/ appendCancellationMarker
    <3>1. d' = d /\ cx.pc # "idle"
      BY <2>5 DEF CancelTaskAndSession, appendCancellationMarker
    <3> QED  BY <1>a, <1>1, <2>a, <3>1 DEF Parked
  <2> QED  BY <1>a, <2>1, <2>2, <2>3, <2>4, <2>5, QuietSteps
<1> QED  BY <1>2, <1>3, RowIsClaimed, UnrecordedStep DEF ClaimsOK

\* The row follows the owner's replies: what is logged next moves the chain on.
LEMMA RowStep ==
  ASSUME IInv, CInv, RInv, TypeOK', CInv', [Next]_vars
  PROVE  RowFollows'
<1> SUFFICES ASSUME ~Canceled', ~d'.lost, ~d'.revived, task'.state \notin {"none", "canceled"},
                    Leads(Owner)', Whole(Owner)', ~At("record")'
             PROVE  task'.state = reconstructState(Before(Owner).env)'
  BY DEF RowFollows
<1>a. TypeOK /\ SaidOK /\ Owner \in Agent /\ Shape
  BY OwnerAssumption DEF IInv, Shape, CInv
<1>b. ~Canceled /\ ChainOK /\ ShapeOfLog /\ ChainOK' /\ ShapeOfLog'
  <2>1. \A a \in Agent : \A i \in DOMAIN log[a] : i \in DOMAIN log'[a] /\ log'[a][i] = log[a][i]
    BY <1>a, LogGrows
  <2>2. ~Canceled
    BY <2>1 DEF Canceled
  <2> QED  BY <2>2 DEF CInv, ChainOK
<1>1. CASE log' = log /\ task' = task /\ ~d.lost /\ ~d.revived /\ ~(At("record") /\ d.conv = Owner)
  <2>1. Leads(Owner) /\ Whole(Owner) /\ Before(Owner)' = Before(Owner)
    BY <1>a, <1>1, SameLog
  <2>2. ~At("record")
    BY <1>a, <1>b, <1>1, <2>1, ReplyInHand, OneLeader
  <2>3. task.state = reconstructState(Before(Owner).env)
    BY <1>b, <1>1, <2>1, <2>2 DEF RInv, RowFollows
  <2> QED  BY <1>1, <2>1, <2>3 DEF reconstructState, isTerminalReply
<1>2. CASE Quiet
  <2>1. /\ log' = log /\ task' = task /\ ~d.revived
        /\ d' = d \/ (~d.lost /\ ~(At("record") /\ d.out.from = d.first))
    BY <1>2 DEF Quiet
  <2>2. ~d.lost /\ ~(At("record") /\ d.conv = Owner)
    BY <1>b, <2>1, ReplyInHand DEF At
  <2> QED  BY <1>1, <2>1, <2>2
<1>3. CASE Logged /\ Insert("driver") /\ KeyIsFree("driver")
  <2>1. d.conv \in Agent /\ "driver" \in Writer /\ NoEnvelope \in Envelope /\ "done" \in Kind
    BY <1>a, InitialRecords DEF TypeOK, Writer, Kind
  <2>2. PICK c \in Agent : c = d.conv
    BY <2>1
  <2>3. Leads(c)' /\ ~Whole(c)'
    <3>1. CASE Goto("run")
      <4>1. d'.pc = "run" /\ d'.conv = c
        BY <1>a, <2>2, <3>1, GotoEffect
      <4>2. AtRun'
        BY <1>b, <4>1 DEF ChainOK, At
      <4> QED  BY <4>1, <4>2 DEF AtRun
    <3>2. CASE d' = d /\ Begin("driver", d.conv, "done", NoEnvelope)
      <4>1. wr'["driver"].kind = "done" /\ d'.conv = c
        BY <1>a, <2>1, <2>2, <3>2, BeginEffect
      <4>2. AtLogging'
        BY <1>b, <1>3, <3>2 DEF ChainOK, At, Logged
      <4> QED  BY <4>1, <4>2 DEF AtLogging
    <3>3. CASE Goto("record")
      BY <1>a, <3>3, GotoEffect DEF At
    <3> QED  BY <1>3, <3>1, <3>2, <3>3 DEF Logged
  <2>4. c = Owner
    BY <2>3 DEF Leads
  <2> QED  BY <2>3, <2>4
<1>4. CASE recordTaskStatus
  <2>1. At("record") /\ ~Mismatch /\ log' = log
    BY <1>4 DEF recordTaskStatus
  <2>2. Leads(Owner) /\ Before(Owner)' = Before(Owner)
    BY <1>a, <2>1, SameLog
  <2>3. d.conv = Owner /\ Before(Owner).env = d.out /\ d.out.from = d.first
    BY <1>a, <1>b, <2>1, <2>2, ReplyInHand, OneLeader
  <2>4. d'.pc = "drive"
    BY <1>a, <1>4, <2>1, RecordEffect, RecordKnows
  <2>5. task' = Status(d.out, d.hasTask, d.first)
    BY <1>a, <1>4, <2>4, RecordEffect
  <2>6. task'.state = reconstructState(d.out)
    <3>1. CASE d.hasTask
      BY <2>3, <2>5, <3>1 DEF Status
    <3>2. CASE ~d.hasTask
      <4>1. task.state = "none"
        BY <2>1, <3>2, RecordKnows
      <4> QED  BY <2>3, <2>5, <3>2, <4>1 DEF Status, reconstructState
    <3> QED  BY <3>1, <3>2
  <2> QED  BY <2>2, <2>3, <2>6 DEF reconstructState, isTerminalReply
<1>5. CASE MarkTerminating \/ TerminateSession
  <2>1. log' = log /\ task' = task /\ ~At("record")
    BY <1>5 DEF MarkTerminating, TerminateSession, At
  <2>2. PICK label \in {"cleanup", "rest"} : Goto(label)
    BY <1>5 DEF MarkTerminating, TerminateSession
  <2>3. d'.lost = d.lost /\ d'.revived = d.revived
    BY <1>a, <2>2, GotoEffect DEF SameSession
  <2> QED  BY <1>1, <2>1, <2>3
<1>6. CASE CancelTaskAndSession /\ task.version = cx.version
  BY <1>6 DEF CancelTaskAndSession
<1>7. CASE appendCancellationMarker /\ Insert("marker")
  BY <1>7 DEF appendCancellationMarker, RInv, EndsOK
<1> QED  BY <1>a, <1>2, <1>3, <1>4, <1>5, <1>6, <1>7, QuietSteps

\* A session ends by the owner's answer to its client, or by a cancellation.
LEMMA EndsStep ==
  ASSUME IInv, CInv, RInv, TypeOK', ClaimsOK', [Next]_vars
  PROVE  EndsOK'
<1>0. TypeOK /\ SaidOK /\ Owner \in Agent /\ Shape /\ EndsOK /\ ClaimsOK
  BY OwnerAssumption DEF IInv, Shape, CInv, RInv
<1>a. /\ TypeOK /\ SaidOK /\ Owner \in Agent /\ Shape /\ EndsOK /\ ClaimsOK
      /\ sess \in {"RUNNING", "TERMINATING", "TERMINATED"}
      /\ cx \in [pc : {"idle", "wait", "cas", "marker", "claim"}, version : Nat]
  BY <1>0 DEF TypeOK
<1>1. CASE Quiet
  <2>1. /\ log' = log /\ task' = task /\ sess' = sess /\ (~d'.revived => ~d.revived)
        /\ cx'.pc = "marker" => cx.pc = "marker"
        /\ ~Parked' /\ sess # "RUNNING" => ~Parked \/ (Open /\ d'.revived)
    BY <1>1 DEF Quiet
  <2>2. /\ Canceled' <=> Canceled
        /\ Leads(Owner)' <=> Leads(Owner)
        /\ Whole(Owner)' <=> Whole(Owner)
        /\ Before(Owner)' = Before(Owner)
    BY <1>a, <2>1, SameLog
  <2> QED  BY <1>a, <2>1, <2>2 DEF EndsOK, Open
<1>2. CASE Logged /\ Insert("driver") /\ KeyIsFree("driver")
  <2>1. /\ task' = task /\ sess' = sess /\ cx' = cx /\ ~Parked
        /\ "driver" \in Writer /\ wr["driver"].kind # "marker"
    BY <1>2, <1>a DEF Logged, At, Parked, Shape, WriterOK, Writer
  <2>2. d'.revived = d.revived
    <3>1. d' = d \/ \E label : Goto(label)
      BY <1>2 DEF Logged
    <3> QED  BY <1>a, <3>1, GotoEffect DEF SameSession
  <2>3. Canceled' => Canceled
    <3>1. log' \in [Agent -> Seq(Event)]
      BY DEF TypeOK
    <3> QED  BY <1>a, <1>2, <2>1, <3>1, DriverLeavesNoMarker
  <2> QED  BY <1>a, <2>1, <2>2, <2>3 DEF EndsOK
<1>3. CASE recordTaskStatus
  <2>1. /\ At("record") /\ log' = log /\ sess' = sess /\ cx' = cx /\ ~Parked
    BY <1>3 DEF recordTaskStatus, At, Parked
  <2>2. d'.revived = d.revived /\ (sess = "TERMINATING" => task' = task)
    BY <1>a, <1>3, RecordEffect
  <2>3. Canceled' <=> Canceled
    BY <2>1, SameLog
  <2>4. /\ sess # "RUNNING" => task.state # "none" /\ (~d.revived => task.state = "canceled")
        /\ sess # "RUNNING" /\ ~d.revived => task' = task
    BY <1>a, <2>1, <2>2, RecordKnows
  <2>5. task.state # "none" => task'.state # "none"
    <3>1. task' = task \/ task' = Status(d.out, d.hasTask, d.first)
      BY <1>a, <1>3, RecordEffect
    <3>2. task.state # "none" => d.hasTask
      BY <2>1, RecordKnows
    <3> QED  BY <3>1, <3>2 DEF Status, reconstructState, TaskData
  <2> QED  BY <1>a, <2>1, <2>2, <2>3, <2>4, <2>5 DEF EndsOK
<1>4. CASE MarkTerminating
  <2>1. /\ log' = log /\ task' = task /\ cx' = cx /\ At("drive") /\ sess' # "RUNNING"
        /\ isTerminalReply(d.res) /\ d.res.data # "input" /\ Goto("cleanup")
        /\ sess # "RUNNING" => sess' = sess
    BY <1>4, <1>a DEF MarkTerminating
  <2>2. d'.pc = "cleanup" /\ d'.revived = d.revived
    BY <1>a, <2>1, GotoEffect DEF SameSession
  <2>3. /\ Canceled' <=> Canceled
        /\ Leads(Owner)' <=> Leads(Owner)
        /\ Whole(Owner)' <=> Whole(Owner)
        /\ Before(Owner)' = Before(Owner)
    BY <1>a, <2>1, SameLog
  <2>4. ASSUME ~d.revived, task.state # "canceled"
        PROVE  /\ Leads(Owner) /\ Whole(Owner)
               /\ Before(Owner).env.to = Client /\ Before(Owner).env.data # "input"
    <3>1. ~Canceled /\ ChainOK /\ ShapeOfLog /\ AtDrive
      BY <1>a, <2>1, <2>4 DEF EndsOK, CInv, ChainOK
    <3>2. ~d.fresh
      BY <2>1, <3>1, ClientAssumption DEF AtDrive, isTerminalReply
    <3>3. PICK a \in Agent : Leads(a) /\ Whole(a) /\ Before(a).env = d.res
      BY <3>1, <3>2 DEF AtDrive
    <3>4. d.res.from = a
      BY <1>a, <3>1, <3>3, ReplyOfWhole DEF SaidOK
    <3>5. d.res.from = Owner
      BY <2>1 DEF RInv, AddressOK, DriverIsAddressed, Addressed, isTerminalReply
    <3> QED  BY <2>1, <3>3, <3>4, <3>5 DEF isTerminalReply
  <2> QED  BY <1>a, <2>1, <2>2, <2>3, <2>4 DEF EndsOK, Parked
<1>5. CASE TerminateSession
  <2>1. log' = log /\ task' = task /\ cx' = cx /\ sess' # "RUNNING" /\ Goto("rest")
    BY <1>5 DEF TerminateSession
  <2>2. d'.pc = "rest" /\ d'.revived = d.revived /\ sess # "RUNNING"
    BY <1>a, <1>5, <2>1, GotoEffect DEF SameSession, TerminateSession, At, CInv, EndOK
  <2>3. /\ Canceled' <=> Canceled
        /\ Leads(Owner)' <=> Leads(Owner)
        /\ Whole(Owner)' <=> Whole(Owner)
        /\ Before(Owner)' = Before(Owner)
    BY <1>a, <2>1, SameLog
  <2> QED  BY <1>a, <2>1, <2>2, <2>3 DEF EndsOK, Parked
<1>6. CASE CancelTaskAndSession /\ task.version = cx.version
  <2>1. task'.state = "canceled" /\ sess' # "RUNNING"
    BY <1>a, <1>6 DEF CancelTaskAndSession
  <2> QED  BY <2>1 DEF EndsOK
<1>7. CASE appendCancellationMarker /\ Insert("marker")
  <2>1. cx.pc = "marker" /\ task' = task /\ sess' = sess /\ d' = d
    BY <1>7 DEF appendCancellationMarker
  <2> QED  BY <1>a, <2>1 DEF EndsOK, Parked
<1> QED  BY <1>a, <1>1, <1>2, <1>3, <1>4, <1>5, <1>6, <1>7, QuietSteps

\* No row and nothing logged to begin with.
LEMMA InitRInv == Init => RInv
<1> SUFFICES ASSUME Init PROVE RInv
  OBVIOUS
<1>1. /\ \A a \in Agent : log[a] = <<>> /\ rt[a] = NewRuntime
      /\ d = [Idle EXCEPT !.pc = "establish", !.waits = TRUE]
      /\ cx.pc = "idle" /\ sess = "RUNNING" /\ task.state = "none"
      /\ wr["driver"] = NoAppend /\ wr["marker"] = NoAppend /\ Owner \in Agent
  BY OwnerAssumption DEF Init, Writer
<1>2. d.pc = "establish" /\ d.inputs = FALSE /\ d.first = Owner /\ d.hasTask = FALSE
  BY <1>1 DEF Idle
<1>3. \A a \in Agent : DOMAIN log[a] = {}
  BY <1>1
<1>4. AddressOK
  BY <1>1, <1>2, <1>3
  DEF AddressOK, DriverIsAddressed, HasAnswer, At, NewRuntime, NoAppend, Writer
<1>5. ClaimsOK
  BY <1>1, <1>2, <1>3 DEF ClaimsOK
<1>6. RowFollows /\ EndsOK
  BY <1>1, <1>3 DEF RowFollows, EndsOK, Canceled
<1> QED  BY <1>4, <1>5, <1>6 DEF RInv

\* The invariant holds in every behaviour.
LEMMA RowInvariance == Spec => []RInv
<1>1. Init => RInv
  BY InitRInv
<1>2. IInv /\ IInv' /\ CInv /\ CInv' /\ RInv /\ [Next]_vars => RInv'
  <2> SUFFICES ASSUME IInv, IInv', CInv, CInv', RInv, [Next]_vars PROVE RInv'
    OBVIOUS
  <2>1. TypeOK'
    BY DEF IInv, Shape
  <2>2. AddressOK'
    BY AddressStep DEF RInv, CInv
  <2>3. ClaimsOK' /\ RowFollows'
    BY <2>1, ClaimsStep, RowStep
  <2>4. EndsOK'
    BY <2>1, <2>3, EndsStep
  <2> QED  BY <2>2, <2>3, <2>4 DEF RInv
<1> QED  BY <1>1, <1>2, Invariance, ChainInvariance, PTL DEF Spec

\* recordTaskStatus keeps the row in step with the owner (tasks.go): when a session
\* has ended by itself, its row says "completed" if the owner ever claimed a Task, and
\* there is none otherwise, whatever other agents claimed, however often the chain was
\* paused, continued, resumed or a cancellation of it failed.
THEOREM OutcomeIsRecorded == Spec => []RowTellsTheOutcome
<1>1. IInv /\ CInv /\ RInv => RowTellsTheOutcome
  <2> SUFFICES ASSUME IInv, CInv, RInv, sess = "TERMINATED", task.state # "canceled",
                      ~d.lost, ~d.revived
               PROVE  IF OwnerClaims(TaskData) THEN task.state = "completed"
                                               ELSE task.state = "none"
    BY DEF RowTellsTheOutcome
  <2>1. /\ TypeOK /\ Owner \in Agent /\ ~At("record") /\ EndsOK /\ ClaimsOK /\ RowFollows
        /\ AddressOK
    BY OwnerAssumption DEF IInv, Shape, TeardownOK, At, RInv
  <2>2. ~Canceled /\ ShapeOfLog
    BY <2>1 DEF EndsOK, CInv, ChainOK
  <2>3. /\ Leads(Owner) /\ Whole(Owner)
        /\ Before(Owner).env.to = Client /\ Before(Owner).env.data # "input"
    BY <2>1 DEF EndsOK
  <2>4. /\ Len(log[Owner]) - 1 \in DOMAIN log[Owner]
        /\ Before(Owner) = log[Owner][Len(log[Owner]) - 1]
        /\ Before(Owner).kind = "output" /\ LastOf(Owner).kind = "done"
    BY <2>1, <2>2, <2>3, ReplyOfWhole
  <2>5. CASE task.state = "none"
    <3>1. ~OwnerClaims(TaskData)
      BY <2>1, <2>2, <2>4, <2>5 DEF ClaimsOK, OwnerClaims, Unrecorded
    <3> QED  BY <2>5, <3>1
  <2>6. CASE task.state # "none"
    <3>1. Answer(Before(Owner).env)
      BY <2>1, <2>4 DEF AddressOK, EntryIsAddressed
    <3>2. reconstructState(Before(Owner).env) = "completed"
      BY <2>3, <3>1 DEF Answer, reconstructState, TaskData, isTerminalReply
    <3>3. task.state = reconstructState(Before(Owner).env)
      BY <2>1, <2>2, <2>3, <2>6 DEF RowFollows
    <3>4. OwnerClaims(TaskData)
      BY <2>1, <2>6 DEF ClaimsOK
    <3> QED  BY <3>2, <3>3, <3>4
  <2> QED  BY <2>5, <2>6
<1> QED  BY <1>1, Invariance, ChainInvariance, RowInvariance, PTL


----------------------------------------------------------------------------
(***************************************************************************)
(* Calls.  The third inductive invariant: the invocations that are blocked    *)
(* form a stack, and the envelope that is under way answers, or will be       *)
(* answered to, the one on top.                                             *)
(***************************************************************************)
\* The invocations that are blocked in each actor.
Blocked == [a \in Agent |-> rt[a].waiting]

\* The answer under token k of agent x is awaited, by caller.
AwaitedIn(W, x, k, caller) ==
    x # Client => \E w \in W[x] : w.step = k /\ caller = <<x, w.id>>

\* Each blocked invocation is to answer one that is blocked too, and no two are to
\* answer the same one.
Linked(W) ==
    /\ \A a \in Agent : \A i \in W[a] : AwaitedIn(W, i.from, i.corr, i.caller)
    /\ \A a, b \in Agent : \A i \in W[a], j \in W[b] :
           i.from # Client /\ i.from = j.from /\ i.corr = j.corr => a = b /\ i = j
    /\ \A a \in Agent : \A i, j \in W[a] : i.step = j.step => i = j

\* The answer is awaited, and no blocked invocation is to give it.
OnTop(W, x, k, caller) ==
    /\ AwaitedIn(W, x, k, caller)
    /\ x # Client => \A a \in Agent : \A i \in W[a] : ~(i.from = x /\ i.corr = k)

\* Who awaits the answer that env is, or asks for.
Asker(env) == IF env.reply THEN env.to ELSE env.from

\* The invocation that env answers, or is to be answered to, is on top of the stack.
Answers(env) == OnTop(Blocked, Asker(env), env.corr, env.caller)

\* The StepIDs of the conversation's inputs.
Used(a) == {log[a][i].env.step : i \in {j \in DOMAIN log[a] : log[a][j].kind = "input"}}

\* The actor has answered the newest input of its conversation.
Ran(a) == rt[a].last = PendingMessage(a).step

\* The envelope that the newest turn of the conversation has come to.
Reached(a) == IF Ran(a) THEN rt[a].out ELSE PendingMessage(a)

\* A token is the StepID of an earlier input.
TokensOK ==
    \A a \in Agent :
        /\ \A w \in rt[a].waiting : w.step \in Used(a)
        /\ rt[a].last # 0 => rt[a].last \in Used(a)
        /\ HasInput(a) /\ ~Ran(a) => \A w \in rt[a].waiting : w.step # PendingMessage(a).step

\* The driver executes a turn.
InTurn == d.pc \in {"exec", "run", "commit", "logging", "record"}

\* What the driver's message has to do with the pending turn: its StepID is new, or it
\* is that turn's message, or it is a client's.
TurnOK ==
    /\ d.pc \in {"run", "commit"} => Pending(d.conv)
    /\ At("record") => ~Pending(d.conv)
    /\ HasAnswer => HasInput(d.conv) /\ Ran(d.conv) /\ d.out = rt[d.conv].out
    /\ At("logging") =>
           /\ wr["driver"].pc # "idle" /\ wr["driver"].kind \in {"input", "output", "done"}
           /\ wr["driver"].kind = "input" =>
                  /\ d.inputs /\ wr["driver"].env = d.msg
                  /\ ~Pending(d.conv) /\ d.msg.step \notin Used(d.conv)
           /\ wr["driver"].kind = "output" => wr["driver"].env = d.out
           /\ wr["driver"].kind # "input" => Pending(d.conv)
    /\ InTurn /\ d.inputs /\ d.msg.step \in Used(d.conv) =>
           PendingMessage(d.conv).step = d.msg.step /\ (Pending(d.conv) \/ At("record"))
    /\ ~d.revived =>
           /\ InTurn /\ d.inputs /\ (Pending(d.conv) \/ At("record")) =>
                  PendingMessage(d.conv).step = d.msg.step \/ Asker(d.msg) = Client
           /\ At("drive") /\ d.res.to \in Agent /\ Pending(d.res.to) => Asker(d.res) = Client

\* The chain can go on.
Going == ~d.revived /\ (sess = "RUNNING" \/ ~Parked)

\* Whatever the driver has in hand has its caller waiting.
InHandOK ==
    /\ At("drive") => Answers(d.res)
    /\ At("drive") /\ d.res.to \in Agent /\ Pending(d.res.to) => Answers(Reached(d.res.to))
    /\ d.pc \in {"exec", "run"} /\ Pending(d.conv) => Answers(Reached(d.conv))
    /\ At("exec") /\ d.inputs /\ ~Pending(d.conv) => Answers(d.msg)
    /\ At("logging") /\ wr["driver"].kind = "input" => Answers(d.msg)
    /\ HasAnswer => Answers(d.out)

\* So has what a resumption reads in the log.
OnRecordOK ==
    /\ \A a \in Agent : Pending(a) => Answers(Reached(a))
    /\ ~Canceled => \A a \in Agent : Leads(a) /\ Whole(a) => Answers(Before(a).env)

\* As long as the chain can go on, the blocked invocations are a stack.
StackOK ==
    Going => /\ Linked(Blocked) /\ InHandOK
             /\ At("establish") \/ sess = "RUNNING" => OnRecordOK

\* A cancellation's marker is the newest event until the driver goes on.
MarkerOK ==
    /\ d.revived => sess # "RUNNING"
    /\ wr["marker"].pc # "idle" => cx.pc = "marker" /\ wr["marker"].conv = Owner
    /\ At("establish") /\ wr["marker"].pc = "insert" =>
           \A a \in Agent : \A j \in DOMAIN log[a] : log[a][j].ss < wr["marker"].ss
    /\ At("establish") /\ Canceled =>
           \E i \in DOMAIN log[Owner] :
               /\ log[Owner][i].kind = "marker"
               /\ \A a \in Agent : \A j \in DOMAIN log[a] :
                      (a = Owner /\ j = i) \/ log[a][j].ss < log[Owner][i].ss

\* The four parts together.
SInv == TokensOK /\ TurnOK /\ StackOK /\ MarkerOK

----------------------------------------------------------------------------
(* A turn takes the top of the stack, and puts an invocation there or answers. *)

\* The invocation that awaits the answer is unblocked: the answer that it is to give
\* itself comes next.
LEMMA PopLink ==
  ASSUME NEW W \in [Agent -> SUBSET Invocation], NEW c \in Agent, NEW w \in W[c], NEW caller,
         Linked(W), OnTop(W, c, w.step, caller), NEW V, V = [W EXCEPT ![c] = @ \ {w}]
  PROVE  /\ V \in [Agent -> SUBSET Invocation]
         /\ Linked(V) /\ OnTop(V, w.from, w.corr, w.caller)
         /\ caller = <<c, w.id>>
<1>1. c # Client
  BY ClientAssumption
<1>2. /\ V \in [Agent -> SUBSET Invocation]
      /\ V[c] = W[c] \ {w} /\ \A a \in Agent : a # c => V[a] = W[a]
  OBVIOUS
<1>3. \A a \in Agent : \A i \in V[a] : i \in W[a] /\ ~(a = c /\ i = w)
  BY <1>2
<1>4. \A a \in Agent : \A i \in W[a] : i.from \in Agent \cup {Client} /\ i \in Invocation
  BY DEF Invocation
<1>5. \A a \in Agent : \A i \in W[a] : AwaitedIn(V, i.from, i.corr, i.caller)
  <2> SUFFICES ASSUME NEW a \in Agent, NEW i \in W[a], i.from # Client
               PROVE  \E j \in V[i.from] : j.step = i.corr /\ i.caller = <<i.from, j.id>>
    BY DEF AwaitedIn
  <2>1. i.from \in Agent /\ ~(i.from = c /\ i.corr = w.step)
    BY <1>1, <1>4 DEF OnTop
  <2>2. PICK j \in W[i.from] : j.step = i.corr /\ i.caller = <<i.from, j.id>>
    BY DEF Linked, AwaitedIn
  <2>3. j \in V[i.from]
    BY <1>2, <2>1, <2>2
  <2> QED  BY <2>2, <2>3
<1>6. Linked(V)
  <2>1. \A a \in Agent : \A i \in V[a] : AwaitedIn(V, i.from, i.corr, i.caller)
    BY <1>3, <1>5
  <2>2. \A a, b \in Agent : \A i \in V[a], j \in V[b] :
            i.from # Client /\ i.from = j.from /\ i.corr = j.corr => a = b /\ i = j
    BY <1>3 DEF Linked
  <2>3. \A a \in Agent : \A i, j \in V[a] : i.step = j.step => i = j
    BY <1>3 DEF Linked
  <2> QED  BY <2>1, <2>2, <2>3 DEF Linked
<1>7. OnTop(V, w.from, w.corr, w.caller)
  <2>1. ASSUME w.from # Client, NEW a \in Agent, NEW i \in V[a]
        PROVE  ~(i.from = w.from /\ i.corr = w.corr)
    BY <1>3, <2>1 DEF Linked
  <2> QED  BY <1>5, <2>1 DEF OnTop
<1>8. caller = <<c, w.id>>
  <2>1. PICK j \in W[c] : j.step = w.step /\ caller = <<c, j.id>>
    BY <1>1 DEF OnTop, AwaitedIn
  <2>2. j = w
    BY <2>1 DEF Linked
  <2> QED  BY <2>1, <2>2
<1> QED  BY <1>2, <1>6, <1>7, <1>8

\* An invocation that is to give the answer blocks under a new token, and awaits an
\* answer itself.
LEMMA PushLink ==
  ASSUME NEW W \in [Agent -> SUBSET Invocation], NEW c \in Agent, NEW n \in Invocation,
         Linked(W), OnTop(W, n.from, n.corr, n.caller), \A w \in W[c] : w.step # n.step,
         NEW V, V = [W EXCEPT ![c] = @ \cup {n}]
  PROVE  Linked(V) /\ OnTop(V, c, n.step, <<c, n.id>>)
<1>1. c # Client
  BY ClientAssumption
<1>2. V[c] = W[c] \cup {n} /\ \A a \in Agent : a # c => V[a] = W[a]
  OBVIOUS
<1>3. \A a \in Agent : \A i \in V[a] : i \in W[a] \/ (a = c /\ i = n)
  BY <1>2
<1>4. /\ \A a \in Agent : \A i \in W[a] : i.from \in Agent \cup {Client}
      /\ n.from \in Agent \cup {Client} /\ n \notin W[c]
  BY DEF Invocation
<1>5. ASSUME NEW x \in Agent \cup {Client}, NEW k, NEW caller, AwaitedIn(W, x, k, caller)
      PROVE  AwaitedIn(V, x, k, caller) /\ ~(x = c /\ k = n.step)
  <2>1. CASE x = Client
    BY <1>1, <2>1 DEF AwaitedIn
  <2>2. CASE x # Client
    <3>1. PICK j \in W[x] : j.step = k /\ caller = <<x, j.id>>
      BY <1>5, <2>2 DEF AwaitedIn
    <3>2. x \in Agent /\ j \in V[x]
      BY <1>2, <2>2, <3>1
    <3>3. AwaitedIn(V, x, k, caller)
      BY <3>1, <3>2 DEF AwaitedIn
    <3> QED  BY <3>1, <3>3
  <2> QED  BY <2>1, <2>2
<1>6. \A a \in Agent : \A i \in V[a] :
          AwaitedIn(V, i.from, i.corr, i.caller) /\ ~(i.from = c /\ i.corr = n.step)
  <2>1. ASSUME NEW a \in Agent, NEW i \in W[a]
        PROVE  AwaitedIn(V, i.from, i.corr, i.caller) /\ ~(i.from = c /\ i.corr = n.step)
    BY <1>4, <1>5 DEF Linked
  <2>2. AwaitedIn(V, n.from, n.corr, n.caller) /\ ~(n.from = c /\ n.corr = n.step)
    BY <1>4, <1>5 DEF OnTop
  <2> QED  BY <1>3, <2>1, <2>2
<1>7. \A a, b \in Agent : \A i \in V[a], j \in V[b] :
          i.from # Client /\ i.from = j.from /\ i.corr = j.corr => a = b /\ i = j
  <2> SUFFICES ASSUME NEW a \in Agent, NEW b \in Agent, NEW i \in V[a], NEW j \in V[b],
                      i.from # Client, i.from = j.from, i.corr = j.corr
               PROVE  a = b /\ i = j
    OBVIOUS
  <2>1. CASE i \in W[a] /\ j \in W[b]
    BY <2>1 DEF Linked
  <2>2. CASE a = c /\ i = n /\ j \in W[b]
    BY <2>2 DEF OnTop
  <2>3. CASE i \in W[a] /\ b = c /\ j = n
    BY <2>3 DEF OnTop
  <2> QED  BY <1>3, <2>1, <2>2, <2>3
<1>8. \A a \in Agent : \A i, j \in V[a] : i.step = j.step => i = j
  BY <1>3 DEF Linked
<1>9. OnTop(V, c, n.step, <<c, n.id>>)
  <2>1. AwaitedIn(V, c, n.step, <<c, n.id>>)
    BY <1>2 DEF AwaitedIn
  <2> QED  BY <1>6, <2>1 DEF OnTop
<1>10. Linked(V)
  BY <1>6, <1>7, <1>8 DEF Linked
<1> QED  BY <1>9, <1>10

\* What an invocation hands out: its answer, or something that it awaits itself.
LEMMA HandsOutTop ==
  ASSUME NEW a \in Agent, NEW inv \in Invocation,
         NEW y \in Returns(a, inv) \cup Suspends(a, inv)
  PROVE  /\ y.env \in Envelope
         /\ \/ /\ y.blocked = {} /\ Asker(y.env) = inv.from
               /\ y.env.corr = inv.corr /\ y.env.caller = inv.caller
            \/ \E n \in Invocation :
                 /\ y.blocked = {n} /\ n.id = inv.id /\ n.step = inv.step /\ n.from = inv.from
                 /\ n.corr = inv.corr /\ n.caller = inv.caller
                 /\ Asker(y.env) = a /\ y.env.corr = inv.step /\ y.env.caller = <<a, inv.id>>
<1>1. y.env \in Envelope
  BY HandsOut
<1>2. CASE y \in Returns(a, inv)
  <2>1. PICK x \in Results(inv) : y = runInvocation(a, inv, x)
    BY <1>2 DEF Returns
  <2> QED  BY <1>1, <2>1 DEF runInvocation, Asker
<1>3. CASE y \in Suspends(a, inv)
  <2>1. CASE y = flushSelf(a, inv)
    <3>1. PICK n : n = [inv EXCEPT !.claimed = TRUE]
      OBVIOUS
    <3>2. /\ n \in Invocation /\ n.id = inv.id /\ n.step = inv.step /\ n.from = inv.from
          /\ n.corr = inv.corr /\ n.caller = inv.caller
      BY <3>1 DEF Invocation
    <3>3. /\ y.blocked = {n} /\ Asker(y.env) = a /\ y.env.corr = inv.step
          /\ y.env.caller = <<a, inv.id>>
      BY <2>1, <3>1 DEF flushSelf, Asker
    <3> QED  BY <1>1, <3>2, <3>3
  <2>2. CASE \E t \in Agent : y = SendMessage(a, inv, t)
    BY <1>1, <2>2 DEF SendMessage, Asker
  <2> QED  BY <1>3, <2>1, <2>2 DEF Suspends
<1> QED  BY <1>2, <1>3

\* An invocation that a turn leaves blocked was blocked before, or has the turn's token.
LEMMA ConnectTokens ==
  ASSUME NEW a \in Agent, NEW r \in RuntimeState, NEW env \in Envelope, NEW history,
         NEW maySuspend, NEW new \in Connect(a, r, env, history, maySuspend)
  PROVE  \A w \in new.waiting : w \in r.waiting \/ w.step = env.step
<1>1. CASE env.step = r.last
  BY <1>1 DEF Connect
<1>2. CASE env.step # r.last
  <2>1. PICK inv \in deliverOnce(a, r, env, history) :
            \E y \in Returns(a, inv) \cup Suspends(a, inv) : new = routeOrAwait(r, env, y)
    BY <1>2 DEF Connect
  <2>2. PICK y \in Returns(a, inv) \cup Suspends(a, inv) : new = routeOrAwait(r, env, y)
    BY <2>1
  <2>3. inv \in Invocation
    BY <2>1, Delivered
  <2>4. inv.step = env.step
    <3>1. CASE env.reply
      <4>1. PICK w \in r.waiting : inv = [w EXCEPT !.step = env.step]
        BY <2>1, <3>1 DEF deliverOnce
      <4>2. w \in Invocation
        BY <4>1 DEF RuntimeState
      <4> QED  BY <4>1, <4>2 DEF Invocation
    <3>2. CASE ~env.reply
      BY <2>1, <3>2 DEF deliverOnce, spawn
    <3> QED  BY <3>1, <3>2
  <2>5. \A w \in y.blocked : w.step = env.step
    BY <2>2, <2>3, <2>4, HandsOutTop
  <2>6. new.waiting = {i \in r.waiting : ~(env.reply /\ i.step = env.corr)} \cup y.blocked
    BY <2>2 DEF routeOrAwait
  <2> QED  BY <2>5, <2>6
<1> QED  BY <1>1, <1>2

\* A turn leaves a stack again, with its answer on top.
LEMMA ConnectStack ==
  ASSUME NEW W \in [Agent -> SUBSET Invocation], NEW a \in Agent, NEW r \in RuntimeState,
         NEW env \in Envelope, NEW history, NEW maySuspend,
         NEW new \in Connect(a, r, env, history, maySuspend),
         r.waiting = W[a], env.to = a, env.step # r.last, Linked(W),
         OnTop(W, Asker(env), env.corr, env.caller), \A w \in W[a] : w.step # env.step,
         NEW V, V = [W EXCEPT ![a] = new.waiting]
  PROVE  Linked(V) /\ OnTop(V, Asker(new.out), new.out.corr, new.out.caller)
<1>1. PICK inv \in deliverOnce(a, r, env, history) :
          \E y \in Returns(a, inv) \cup Suspends(a, inv) : new = routeOrAwait(r, env, y)
  BY DEF Connect
<1>2. PICK y \in Returns(a, inv) \cup Suspends(a, inv) : new = routeOrAwait(r, env, y)
  BY <1>1
<1>3. inv \in Invocation
  BY <1>1, Delivered
<1>4. PICK rest : rest = {i \in r.waiting : ~(env.reply /\ i.step = env.corr)}
  OBVIOUS
<1>5. PICK U : U = [W EXCEPT ![a] = rest]
  OBVIOUS
<1>6. /\ U \in [Agent -> SUBSET Invocation] /\ Linked(U)
      /\ OnTop(U, inv.from, inv.corr, inv.caller) /\ inv.step = env.step
  <2>1. CASE env.reply
    <3>1. PICK w \in W[a] : w.step = env.corr /\ inv = [w EXCEPT !.step = env.step]
      BY <1>1, <2>1 DEF deliverOnce
    <3>2. w \in Invocation
      OBVIOUS
    <3>3. /\ inv.from = w.from /\ inv.corr = w.corr /\ inv.caller = w.caller
          /\ inv.step = env.step
      BY <3>1, <3>2 DEF Invocation
    <3>4. Asker(env) = a
      BY <2>1 DEF Asker
    <3>5. rest = W[a] \ {w}
      BY <1>4, <2>1, <3>1 DEF Linked
    <3>6. U = [W EXCEPT ![a] = @ \ {w}]
      BY <1>5, <3>5
    <3>7. OnTop(W, a, w.step, env.caller)
      BY <3>1, <3>4
    <3>8. /\ U \in [Agent -> SUBSET Invocation] /\ Linked(U)
          /\ OnTop(U, w.from, w.corr, w.caller)
      BY <3>6, <3>7, PopLink
    <3> QED  BY <3>3, <3>8
  <2>2. CASE ~env.reply
    <3>1. inv = spawn(a, env, history)
      BY <1>1, <2>2 DEF deliverOnce
    <3>2. /\ inv.from = env.from /\ inv.corr = env.corr /\ inv.caller = env.caller
          /\ inv.step = env.step
      BY <3>1 DEF spawn
    <3>3. U = W
      BY <1>4, <1>5, <2>2
    <3> QED  BY <2>2, <3>2, <3>3 DEF Asker
  <2> QED  BY <2>1, <2>2
<1>7. PICK o : o = [y.env EXCEPT !.step = env.step]
  OBVIOUS
<1>8. new.out = o /\ new.waiting = rest \cup y.blocked
  BY <1>2, <1>4, <1>7 DEF routeOrAwait
<1>9. Asker(o) = Asker(y.env) /\ o.corr = y.env.corr /\ o.caller = y.env.caller
  <2>1. y.env \in Envelope
    BY <1>2, <1>3, HandsOutTop
  <2> QED  BY <1>7, <2>1 DEF Envelope, Asker
<1>10. CASE /\ y.blocked = {} /\ Asker(y.env) = inv.from
            /\ y.env.corr = inv.corr /\ y.env.caller = inv.caller
  <2>1. new.waiting = rest /\ V = U
    BY <1>5, <1>8, <1>10
  <2> QED  BY <1>4, <1>6, <1>8, <1>9, <1>10, <2>1, ZenonT(40)
<1>11. CASE \E n \in Invocation :
              /\ y.blocked = {n} /\ n.id = inv.id /\ n.step = inv.step /\ n.from = inv.from
              /\ n.corr = inv.corr /\ n.caller = inv.caller
              /\ Asker(y.env) = a /\ y.env.corr = inv.step /\ y.env.caller = <<a, inv.id>>
  <2>0. PICK n \in Invocation :
              /\ y.blocked = {n} /\ n.id = inv.id /\ n.step = inv.step /\ n.from = inv.from
              /\ n.corr = inv.corr /\ n.caller = inv.caller
              /\ Asker(y.env) = a /\ y.env.corr = inv.step /\ y.env.caller = <<a, inv.id>>
    BY <1>11
  <2>1. V = [U EXCEPT ![a] = @ \cup {n}] /\ new.waiting = rest \cup {n}
    BY <1>5, <1>8, <2>0
  <2>2. \A w \in U[a] : w.step # n.step
    BY <1>4, <1>5, <1>6, <2>0
  <2>3. Linked(V) /\ OnTop(V, a, n.step, <<a, n.id>>)
    <3>1. OnTop(U, n.from, n.corr, n.caller)
      BY <1>6, <2>0
    <3> QED  BY <1>6, <2>0, <2>1, <2>2, <3>1, PushLink
  <2> QED  BY <1>6, <1>8, <1>9, <2>0, <2>3
<1> QED  BY <1>2, <1>3, <1>10, <1>11, HandsOutTop

----------------------------------------------------------------------------
(* The turns in the log. *)

\* Steps that leave the log alone.
LEMMA TurnsStay ==
  ASSUME log' = log, NEW a \in Agent
  PROVE  /\ Pending(a)' <=> Pending(a)
         /\ PendingMessage(a)' = PendingMessage(a)
         /\ Used(a)' = Used(a)
         /\ HasInput(a)' <=> HasInput(a)
         /\ rt'[a] = rt[a] => (Ran(a)' <=> Ran(a)) /\ Reached(a)' = Reached(a)
<1>1. PendingMessage(a)' = PendingMessage(a)
  BY DEF PendingMessage, pendingInput
<1>2. rt'[a] = rt[a] => (Ran(a)' <=> Ran(a)) /\ Reached(a)' = Reached(a)
  BY <1>1 DEF Ran, Reached
<1> QED  BY <1>1, <1>2 DEF Pending, Used, HasInput

\* The newest input of a conversation, and a pending turn's.
LEMMA NewestInput ==
  ASSUME TypeOK, NEW a \in Agent, HasInput(a)
  PROVE  /\ pendingInput(a) \in DOMAIN log[a] /\ log[a][pendingInput(a)].kind = "input"
         /\ PendingMessage(a).step \in Used(a)
<1>1. PICK S : S = {i \in DOMAIN log[a] : log[a][i].kind = "input"}
  OBVIOUS
<1>2. S \subseteq 1..Len(log[a]) /\ S # {} /\ Len(log[a]) \in Nat
  BY <1>1, ConvIs DEF HasInput
<1>3. Max(S) \in S
  BY <1>2, MaxIsMember
<1> QED  BY <1>1, <1>3 DEF pendingInput, PendingMessage, Used

\* What an INSERT makes of the turns of a conversation.
LEMMA InsertTurns ==
  ASSUME TypeOK, NEW w \in Writer, Insert(w), NEW a \in Agent
  PROVE  /\ a # wr[w].conv =>
                /\ Pending(a)' <=> Pending(a)
                /\ PendingMessage(a)' = PendingMessage(a)
                /\ Used(a)' = Used(a)
                /\ HasInput(a)' <=> HasInput(a)
         /\ a = wr[w].conv /\ wr[w].kind = "input" =>
                /\ Pending(a)' /\ HasInput(a)' /\ PendingMessage(a)' = wr[w].env
                /\ Used(a)' = Used(a) \cup {wr[w].env.step}
         /\ a = wr[w].conv /\ wr[w].kind # "input" =>
                /\ HasInput(a) => PendingMessage(a)' = PendingMessage(a)
                /\ Used(a)' = Used(a)
                /\ HasInput(a)' <=> HasInput(a)
                /\ wr[w].kind = "marker" => (Pending(a)' <=> Pending(a))
                /\ wr[w].kind = "output" => Pending(a)'
                /\ wr[w].kind = "done" => ~Pending(a)'
<1>1. CASE a # wr[w].conv
  <2>1. log'[a] = log[a]
    BY <1>1, InsertEffect
  <2> QED  BY <1>1, <2>1 DEF Pending, PendingMessage, pendingInput, Used, HasInput
<1>2. CASE a = wr[w].conv
  <2>1. PICK n \in Nat : n = Len(log[a]) /\ DOMAIN log[a] = 1..n
    BY ConvIs
  <2>2. /\ DOMAIN log'[a] = 1..(n + 1) /\ \A i \in 1..n : log'[a][i] = log[a][i]
        /\ log'[a][n + 1].kind = wr[w].kind /\ log'[a][n + 1].env = wr[w].env
    <3>1. /\ log'[a] \in Seq(Event) /\ Len(log'[a]) = n + 1
          /\ log'[a][n + 1] = [ss |-> wr[w].ss, kind |-> wr[w].kind, env |-> wr[w].env]
          /\ \A i \in 1..n : log'[a][i] = log[a][i]
      BY <1>2, <2>1, InsertEffect
    <3> QED  BY <3>1
  <2>3. PICK T, TT : /\ T = {i \in DOMAIN log[a] : log[a][i].kind = "input"}
                     /\ TT = {i \in DOMAIN log'[a] : log'[a][i].kind = "input"}
    OBVIOUS
  <2>4. PICK S, SS : /\ S = {i \in DOMAIN log[a] : log[a][i].kind # "marker"}
                     /\ SS = {i \in DOMAIN log'[a] : log'[a][i].kind # "marker"}
    OBVIOUS
  <2>5. /\ PendingMessage(a) = log[a][Max(T)].env
        /\ PendingMessage(a)' = log'[a][Max(TT)].env
        /\ Pending(a) <=> S # {} /\ log[a][Max(S)].kind # "done"
        /\ Pending(a)' <=> SS # {} /\ log'[a][Max(SS)].kind # "done"
    BY <2>3, <2>4 DEF PendingMessage, pendingInput, Pending
  <2>6. ASSUME wr[w].kind = "input"
        PROVE  PendingMessage(a)' = wr[w].env
    <3>1. n + 1 \in Nat /\ TT \subseteq 1..(n + 1) /\ n + 1 \in TT /\ \A y \in TT : n + 1 >= y
      BY <2>2, <2>3, <2>6
    <3>2. Max(TT) = n + 1
      BY <3>1, MaxIs
    <3> QED  BY <2>2, <2>5, <3>2
  <2>7. ASSUME wr[w].kind # "marker"
        PROVE  Pending(a)' <=> wr[w].kind # "done"
    <3>1. n + 1 \in Nat /\ SS \subseteq 1..(n + 1) /\ n + 1 \in SS /\ \A y \in SS : n + 1 >= y
      BY <2>2, <2>4, <2>7
    <3>2. Max(SS) = n + 1
      BY <3>1, MaxIs
    <3> QED  BY <2>2, <2>5, <3>1, <3>2
  <2>8. ASSUME wr[w].kind # "input", HasInput(a)
        PROVE  PendingMessage(a)' = PendingMessage(a)
    <3>1. TT = T
      BY <2>1, <2>2, <2>3, <2>8
    <3>2. Max(T) \in 1..n
      BY <2>1, <2>8, NewestInput, <2>3 DEF pendingInput
    <3> QED  BY <2>2, <2>5, <3>1, <3>2
  <2>9. ASSUME wr[w].kind = "marker"
        PROVE  Pending(a)' <=> Pending(a)
    <3>1. SS = S /\ S \subseteq 1..n
      BY <2>1, <2>2, <2>4, <2>9
    <3>2. S # {} => Max(S) \in S
      BY <3>1, MaxIsMember
    <3> QED  BY <2>2, <2>5, <3>1, <3>2
  <2>10. \A s : s \in Used(a)' <=>
                   s \in Used(a) \/ (wr[w].kind = "input" /\ s = wr[w].env.step)
    <3> SUFFICES ASSUME NEW s
                 PROVE  (\E i \in DOMAIN log'[a] :
                            log'[a][i].kind = "input" /\ log'[a][i].env.step = s)
                        <=> (\E i \in DOMAIN log[a] :
                               log[a][i].kind = "input" /\ log[a][i].env.step = s)
                            \/ (wr[w].kind = "input" /\ s = wr[w].env.step)
      BY DEF Used
    <3>1. \A i \in 1..(n + 1) : i \in 1..n \/ i = n + 1
      OBVIOUS
    <3>2. \A i \in 1..n : i \in 1..(n + 1)
      OBVIOUS
    <3>3. n + 1 \in 1..(n + 1)
      OBVIOUS
    <3> QED  BY <2>1, <2>2, <3>1, <3>2, <3>3
  <2>11. HasInput(a)' <=> HasInput(a) \/ wr[w].kind = "input"
    <3>1. \A i \in 1..(n + 1) : i \in 1..n \/ i = n + 1
      OBVIOUS
    <3>2. (\A i \in 1..n : i \in 1..(n + 1)) /\ n + 1 \in 1..(n + 1)
      OBVIOUS
    <3> QED  BY <2>1, <2>2, <3>1, <3>2 DEF HasInput
  <2>12. CASE wr[w].kind = "input"
    BY <1>2, <2>6, <2>7, <2>10, <2>11, <2>12
  <2>13. CASE wr[w].kind # "input"
    BY <1>2, <2>7, <2>8, <2>9, <2>10, <2>11, <2>13
  <2> QED  BY <2>12, <2>13
<1> QED  BY <1>1, <1>2

----------------------------------------------------------------------------
(* What each step does to the driver, to the log and to the runtimes. *)

\* The driver leaves the loop, or is back at its start.
Off ==
    /\ log' = log /\ d'.pc \in {"rest", "down", "cleanup", "terminate", "establish"}
    /\ d'.revived = d.revived
    /\ d'.pc = "establish" => sess = "RUNNING"
    /\ rt' = rt \/ (sess' # "RUNNING" /\ d'.pc = "terminate")

\* The driver and its Append stay where they are, but for the numbers that it reads.
Same ==
    /\ d' = d /\ rt' = rt
    /\ wr'["driver"].kind = wr["driver"].kind /\ wr'["driver"].env = wr["driver"].env
    /\ wr'["driver"].pc = "idle" <=> wr["driver"].pc = "idle"
    /\ log' = log \/ (Insert("marker") /\ wr["marker"].pc = "insert")

\* The other steps are the driver's own, and a continuation.
LEMMA CallSteps ==
  ASSUME Shape, EndOK, [Next]_vars
  PROVE  \/ establishRelayState \/ execA2A \/ Exec \/ Run \/ Commit \/ Logged
         \/ retryMismatch \/ recordTaskStatus \/ continueTask
         \/ Off \/ Same
<1>a. /\ TypeOK /\ LogOK /\ wr \in [Writer -> AppendSet] /\ Owner \in Agent
      /\ "driver" \in Writer /\ "marker" \in Writer /\ "marker" \in Kind /\ Marker \in Envelope
      /\ "driver" # "marker"
  BY InitialRecords, OwnerAssumption DEF Shape, TypeOK, AppendSet, Writer, Kind
<1>1. CASE Pause \/ MarkTerminating \/ TerminateSession
  <2>1. PICK label \in {"rest", "cleanup"} : Goto(label)
    BY <1>1 DEF Pause, MarkTerminating, TerminateSession
  <2>2. d'.pc \in {"rest", "cleanup"} /\ d'.revived = d.revived
    BY <1>a, <2>1, GotoEffect DEF SameSession
  <2>3. log' = log /\ rt' = rt
    BY <1>1 DEF Pause, MarkTerminating, TerminateSession, store
  <2> QED  BY <2>2, <2>3 DEF Off
<1>2. CASE cleanupActors
  <2>1. d'.pc = "terminate" /\ d'.revived = d.revived
    BY <1>a, <1>2, GotoEffect DEF cleanupActors, SameSession
  <2>2. log' = log /\ sess' = sess /\ sess # "RUNNING"
    BY <1>2 DEF cleanupActors, store, EndOK, At
  <2> QED  BY <2>1, <2>2 DEF Off
<1>3. CASE \E w \in Writer : AppendReads(w)
  <2>1. PICK w \in Writer : Reads(w) /\ d' = d /\ rt' = rt /\ log' = log
    BY <1>3 DEF AppendReads, store
  <2>2. CASE w = "driver"
    <3>1. /\ wr'["driver"].kind = wr["driver"].kind /\ wr'["driver"].env = wr["driver"].env
          /\ wr["driver"].pc # "idle" /\ wr'["driver"].pc # "idle"
      BY <1>a, <2>1, <2>2, ReadsEffect
    <3> QED  BY <2>1, <3>1 DEF Same
  <2>3. CASE w # "driver"
    <3>1. wr'["driver"] = wr["driver"]
      BY <1>a, <2>1, <2>3, ReadsEffect
    <3> QED  BY <2>1, <3>1 DEF Same
  <2> QED  BY <2>2, <2>3
<1>4. CASE d' = d /\ rt' = rt /\ log' = log /\ wr'["driver"] = wr["driver"]
  BY <1>4 DEF Same
<1>5. CASE CancelTask \/ discoverAndApply \/ storeCards \/ UNCHANGED vars
  BY <1>4, <1>5 DEF CancelTask, discoverAndApply, storeCards, vars, store
<1>6. CASE \E label \in {"rest", "down"} : Stop(label) /\ log' = log /\ rt' = rt
  <2>1. d'.pc \in {"rest", "down"} /\ d'.revived = d.revived
    BY <1>a, <1>6, StopEffect
  <2> QED  BY <1>6, <2>1 DEF Off
<1>7. CASE Crash
  BY <1>6, <1>7 DEF Crash, store
<1>8. CASE cancelAndWait
  BY <1>4, <1>6, <1>8 DEF cancelAndWait, store
<1>9. CASE Resume
  <2>1. /\ d'.pc \in {"establish", "cleanup", "rest"} /\ d'.revived = d.revived
        /\ d'.pc = "establish" => sess = "RUNNING"
    BY <1>a, <1>9, StartEffect
  <2> QED  BY <1>9, <2>1 DEF Resume, Off, store
<1>10. CASE CancelTaskAndSession
  <2>1. CASE Begin("marker", Owner, "marker", Marker)
    <3>1. wr'["driver"] = wr["driver"]
      BY <1>a, <2>1, BeginEffect
    <3> QED  BY <1>4, <1>10, <3>1 DEF CancelTaskAndSession
  <2> QED  BY <1>4, <1>10, <2>1 DEF CancelTaskAndSession
<1>11. CASE appendCancellationMarker
  <2>1. wr'["driver"] = wr["driver"]
    BY <1>a, <1>11 DEF appendCancellationMarker
  <2> QED  BY <1>11, <2>1 DEF appendCancellationMarker, Same
<1>12. CASE ClaimForCleanup
  <2>1. log' = log /\ rt' = rt /\ wr' = wr
    BY <1>12 DEF ClaimForCleanup, store
  <2>2. CASE At("rest")
    <3>1. d'.pc = "cleanup" /\ d'.revived = d.revived
      BY <1>a, <1>12, <2>2, StartEffect
    <3> QED  BY <2>1, <3>1 DEF Off
  <2>3. CASE ~At("rest")
    BY <1>4, <1>12, <2>1, <2>3 DEF ClaimForCleanup
  <2> QED  BY <2>2, <2>3
<1> QED  BY <1>a, <1>1, <1>2, <1>3, <1>5, <1>7, <1>8, <1>9, <1>10, <1>11, <1>12
         DEF Next, Drive, Cancel

\* Where the marker is the newest event, a resumption finds no turn that is completed.
LEMMA MarkerIsNewest ==
  ASSUME TypeOK, MarkerOK, At("establish"), Canceled, NEW h \in lastHop
  PROVE  ~Completed(h[1])
<1>1. PICK i \in DOMAIN log[Owner] :
          /\ log[Owner][i].kind = "marker"
          /\ \A a \in Agent : \A j \in DOMAIN log[a] :
                 (a = Owner /\ j = i) \/ log[a][j].ss < log[Owner][i].ss
  BY DEF MarkerOK
<1>2. h[1] \in Newest(Places)
  BY DEF lastHop
<1>3. PICK p : p = h[1] /\ p \in Places /\ \A r \in Places : EventAt(r).ss <= EventAt(p).ss
  BY <1>2 DEF Newest
<1>4. PICK b, j : b \in Agent /\ j \in DOMAIN log[b] /\ EventAt(p) = log[b][j]
  BY <1>3, PlaceTyped DEF EventAt
<1>5. Owner \in Agent /\ <<Owner, i>> \in Places /\ EventAt(<<Owner, i>>) = log[Owner][i]
  BY OwnerAssumption, PlaceIs
<1>6. log[Owner][i].ss <= log[b][j].ss
  BY <1>3, <1>4, <1>5
<1>7. log[Owner][i].ss \in Nat /\ log[b][j].ss \in Nat
  BY <1>4, <1>5, ConvIs, SMTT(40)
<1>8. b = Owner /\ j = i
  BY <1>1, <1>4, <1>6, <1>7
<1> QED  BY <1>1, <1>3, <1>4, <1>8 DEF Completed

\* What a resumption takes up: the bootstrap, the answer of the turn that was completed
\* last, or a turn that was not.
LEMMA EstablishReads ==
  ASSUME IInv, CInv, MarkerOK, establishRelayState
  PROVE  /\ log' = log /\ rt' = rt /\ sess' = sess /\ At("establish")
         /\ d'.revived = d.revived
         /\ \/ d'.pc = "drive" /\ d'.res = Bootstrap /\ Places = {}
            \/ /\ d'.pc = "drive" /\ ~Canceled
               /\ \E a \in Agent : Leads(a) /\ Whole(a) /\ d'.res = Before(a).env
            \/ d'.pc = "exec" /\ d'.inputs = FALSE
<1>1. /\ log' = log /\ rt' = rt /\ sess' = sess /\ At("establish")
      /\ TypeOK /\ OrderOfRecord /\ d \in DriverSet
  BY DEF establishRelayState, store, IInv, Shape, TypeOK, DriverSet
<1>2. d'.revived = d.revived
  BY <1>1, EstablishEffect DEF SameSession
<1>3. CASE /\ Places = {}
           /\ d' = Notify([d EXCEPT !.pc = "drive", !.res = Bootstrap, !.fresh = TRUE])
  <2>1. PICK e : e = [d EXCEPT !.pc = "drive", !.res = Bootstrap, !.fresh = TRUE]
    OBVIOUS
  <2>2. e \in DriverSet /\ e.pc = "drive" /\ e.res = Bootstrap
    BY <1>1, <2>1, InitialRecords DEF DriverSet, DriverState
  <2>3. d' = Notify(e)
    BY <1>3, <2>1
  <2> QED  BY <1>1, <1>2, <1>3, <2>2, <2>3, NotifyEffect
<1>4. CASE \E h \in lastHop :
             d' = IF Completed(h[1])
                  THEN Notify([d EXCEPT !.pc = "drive", !.res = EventAt(h[2]).env])
                  ELSE [d EXCEPT !.pc = "exec", !.conv = h[1][1], !.inputs = FALSE]
  <2>1. PICK h \in lastHop :
             d' = IF Completed(h[1])
                  THEN Notify([d EXCEPT !.pc = "drive", !.res = EventAt(h[2]).env])
                  ELSE [d EXCEPT !.pc = "exec", !.conv = h[1][1], !.inputs = FALSE]
    BY <1>4
  <2>2. CASE ~Completed(h[1])
    <3>1. d'.pc = "exec" /\ d'.inputs = FALSE
      BY <1>1, <2>1, <2>2 DEF DriverSet
    <3> QED  BY <1>1, <1>2, <3>1
  <2>3. CASE Completed(h[1])
    <3>1. ~Canceled
      BY <1>1, <2>3, MarkerIsNewest
    <3>2. ShapeOfLog
      BY <3>1 DEF CInv, ChainOK
    <3>3. PICK a \in Agent : /\ Leads(a) /\ EventAt(h[1]) = LastOf(a)
                             /\ EventAt(h[2]) = Newer(a)
      BY <1>1, <3>2, LastHopIs
    <3>4. LastOf(a).kind = "done" /\ EventAt(h[2]) = Before(a)
      BY <2>3, <3>3 DEF Completed, Newer
    <3>5. PICK e : e = [d EXCEPT !.pc = "drive", !.res = EventAt(h[2]).env]
      OBVIOUS
    <3>6. EventAt(h[2]).env \in Envelope
      BY <1>1, LastHopPlaces, PlaceTyped DEF Event
    <3>7. e \in DriverSet /\ e.pc = "drive" /\ e.res = Before(a).env
      BY <1>1, <3>4, <3>5, <3>6 DEF DriverSet, DriverState
    <3>8. d' = Notify(e)
      BY <2>1, <2>3, <3>5
    <3>9. d'.pc = "drive" /\ d'.res = Before(a).env
      BY <3>7, <3>8, NotifyEffect
    <3>10. Whole(a)
      BY <3>4 DEF Whole
    <3> QED  BY <1>1, <1>2, <3>1, <3>3, <3>9, <3>10
  <2> QED  BY <2>2, <2>3
<1> QED  BY <1>3, <1>4, ZenonT(40) DEF establishRelayState

\* The message that execA2A hands to Exec has a StepID that is new to its conversation.
LEMMA DeliverFresh ==
  ASSUME Shape, MintedOK, execA2A
  PROVE  /\ log' = log /\ rt' = rt /\ sess' = sess /\ d.res.to \in Agent
         /\ d'.msg.step \notin Used(d.res.to)
         /\ Asker(d'.msg) = Asker(d.res) /\ d'.msg.corr = d.res.corr
         /\ d'.msg.caller = d.res.caller
<1>1. d \in DriverSet /\ d.res \in Envelope /\ TypeOK /\ minted \in Nat
  BY DEF Shape, TypeOK, DriverSet
<1>2. d.res.to \in Agent /\ log' = log /\ rt' = rt /\ sess' = sess
  BY <1>1 DEF execA2A, isTerminalReply, Envelope, store
<1>3. PICK msg : /\ \/ msg = d.res /\ ~stepIDInUse(d.res.to, d.res.step)
                    \/ msg = [d.res EXCEPT !.step = minted + 1]
                 /\ d' = [d EXCEPT !.pc = "exec", !.conv = d.res.to, !.msg = msg,
                                   !.inputs = TRUE]
  BY DEF execA2A
<1>4. d'.msg = msg
  BY <1>1, <1>3 DEF DriverSet
<1>5. Asker(msg) = Asker(d.res) /\ msg.corr = d.res.corr /\ msg.caller = d.res.caller
  BY <1>1, <1>3 DEF Envelope, Asker
<1>6. msg.step \notin Used(d.res.to)
  <2>1. CASE msg = d.res /\ ~stepIDInUse(d.res.to, d.res.step)
    BY <2>1 DEF stepIDInUse, Used
  <2>2. CASE msg = [d.res EXCEPT !.step = minted + 1]
    <3>1. msg.step = minted + 1
      BY <1>1, <2>2 DEF Envelope
    <3>2. \A i \in DOMAIN log[d.res.to] :
              log[d.res.to][i].env.step <= minted /\ log[d.res.to][i].env.step \in Nat
      BY <1>1, <1>2, ConvIs DEF MintedOK, Envelope
    <3> QED  BY <1>1, <3>1, <3>2 DEF Used
  <2> QED  BY <1>3, <2>1, <2>2
<1> QED  BY <1>2, <1>4, <1>5, <1>6

----------------------------------------------------------------------------
(* Tokens. *)

\* What a turn does to the stack, and which tokens it adds.
LEMMA RunStack ==
  ASSUME Shape, AddressOK, SaidOK, TokensOK, Run
  PROVE  /\ Ran(d.conv) => rt' = rt
         /\ \A w \in rt'[d.conv].waiting :
                w \in rt[d.conv].waiting \/ w.step = PendingMessage(d.conv).step
         /\ ~Ran(d.conv) /\ Linked(Blocked) /\ Answers(PendingMessage(d.conv)) =>
                Linked(Blocked)' /\ Answers(d.out)'
<1>1. TypeOK /\ rt \in [Agent -> RuntimeState]
  BY DEF Shape, TypeOK
<1>2. PICK c \in Agent : c = d.conv
  BY <1>1 DEF TypeOK
<1>3. PICK env : env = PendingMessage(c)
  OBVIOUS
<1>4. HasInput(c)
  BY <1>2 DEF Shape, Run, At, DriverOK
<1>5. env \in Envelope /\ env.step # 0 /\ env.to = c
  BY <1>1, <1>3, <1>4, PendingTyped, MessageIsAddressed DEF Shape
<1>6. PICK new \in Connect(c, rt[c], env, historySteps(c, pendingInput(c)),
                           spent.moves < MaxMoves) :
          /\ rt' = [rt EXCEPT ![c] = new]
          /\ d' = [d EXCEPT !.pc = "commit", !.out = new.out]
  BY <1>2, <1>3 DEF Run
<1>7. d'.out = new.out /\ rt'[c] = new /\ rt[c] \in RuntimeState
  BY <1>1, <1>6 DEF TypeOK
<1>8. ASSUME Ran(c) PROVE rt' = rt
  <2>1. env.step = rt[c].last
    BY <1>3, <1>8 DEF Ran
  <2>2. new = rt[c]
    BY <1>6, <2>1 DEF Connect
  <2> QED  BY <1>1, <1>6, <2>2
<1>9. \A w \in new.waiting : w \in rt[c].waiting \/ w.step = env.step
  BY <1>5, <1>6, <1>7, ConnectTokens
<1>10. ASSUME ~Ran(c), Linked(Blocked), Answers(env)
       PROVE  Linked(Blocked)' /\ Answers(d.out)'
  <2>1. PICK W, V : W = Blocked /\ V = Blocked'
    OBVIOUS
  <2>2. W \in [Agent -> SUBSET Invocation] /\ W[c] = rt[c].waiting
    BY <1>1, <2>1 DEF Blocked, RuntimeState
  <2>3. V = [W EXCEPT ![c] = new.waiting]
    BY <1>1, <1>6, <2>1 DEF Blocked
  <2>4. env.step # rt[c].last
    BY <1>3, <1>10 DEF Ran
  <2>5. \A w \in W[c] : w.step # env.step
    BY <1>3, <1>4, <1>10, <2>2 DEF TokensOK
  <2>6. Linked(W) /\ OnTop(W, Asker(env), env.corr, env.caller)
    BY <1>10, <2>1 DEF Answers
  <2>7. Linked(V) /\ OnTop(V, Asker(new.out), new.out.corr, new.out.caller)
    BY <1>5, <1>6, <1>7, <2>2, <2>3, <2>4, <2>5, <2>6, ConnectStack
  <2>8. Linked(Blocked)' <=> Linked(V)
    BY <2>1 DEF Linked, AwaitedIn
  <2>9. Answers(d.out)' <=> OnTop(V, Asker(new.out), new.out.corr, new.out.caller)
    BY <1>7, <2>1 DEF Answers, OnTop, AwaitedIn, Asker
  <2> QED  BY <2>7, <2>8, <2>9
<1> QED  BY <1>2, <1>3, <1>7, <1>8, <1>9, <1>10

\* Only the driver's Append inserts an input, and it is the driver's message.
LEMMA InputIsMessage ==
  ASSUME Shape, TurnOK, NEW w \in Writer, wr[w].pc = "insert", wr[w].kind = "input"
  PROVE  /\ w = "driver" /\ At("logging") /\ wr[w].conv = d.conv /\ wr[w].env = d.msg
         /\ d.inputs /\ d.msg.step # 0 /\ d.msg.step \notin Used(d.conv)
<1>1. w = "driver" /\ At("logging") /\ wr[w].conv = d.conv
  BY DEF Shape, WriterOK, Writer
<1>2. wr[w].env = d.msg /\ d.inputs /\ d.msg.step \notin Used(d.conv)
  BY <1>1 DEF TurnOK
<1> QED  BY <1>1, <1>2 DEF Shape, DriverOK

\* Tokens stay StepIDs of earlier inputs.
LEMMA TokensStep ==
  ASSUME Shape, AddressOK, SaidOK, TokensOK, TurnOK, [Next]_vars
  PROVE  TokensOK'
<1> SUFFICES ASSUME NEW a \in Agent
             PROVE  /\ \A w \in rt'[a].waiting : w.step \in Used(a)'
                    /\ rt'[a].last # 0 => rt'[a].last \in Used(a)'
                    /\ HasInput(a)' /\ ~Ran(a)' =>
                           \A w \in rt'[a].waiting : w.step # PendingMessage(a)'.step
  BY DEF TokensOK
<1>1. TypeOK /\ LogOK
  BY DEF Shape
<1>2. CASE Run
  <2>1. log' = log
    BY <1>2 DEF Run, store
  <2>2. CASE a # d.conv
    <3>1. rt'[a] = rt[a]
      BY <1>2, <2>2, TurnEffect
    <3> QED  BY <2>1, <3>1, TurnsStay DEF TokensOK
  <2>3. CASE a = d.conv
    <3>1. rt'[a].last = PendingMessage(a).step /\ HasInput(a)
      BY <1>2, <2>3, TurnEffect
    <3>2. PendingMessage(a).step \in Used(a)
      BY <1>1, <3>1, NewestInput
    <3>3. \A w \in rt'[a].waiting : w \in rt[a].waiting \/ w.step = PendingMessage(a).step
      BY <1>2, <2>3, RunStack
    <3>4. \A w \in rt'[a].waiting : w.step \in Used(a)
      BY <3>2, <3>3 DEF TokensOK
    <3>5. Ran(a)'
      BY <2>1, <3>1, TurnsStay DEF Ran
    <3> QED  BY <2>1, <3>1, <3>2, <3>4, <3>5, TurnsStay
  <2> QED  BY <2>2, <2>3
<1>3. CASE log' = log /\ rt'[a] = rt[a]
  BY <1>3, TurnsStay DEF TokensOK
<1>4. CASE log' = log /\ rt'[a] = NewRuntime
  BY <1>4 DEF NewRuntime
<1>5. CASE cleanupActors
  <2>1. log' = log
    BY <1>5 DEF cleanupActors, store
  <2> QED  BY <1>3, <1>4, <1>5, <2>1, CleanupEffect
<1>6. ASSUME rt' = rt, NEW w \in Writer, wr[w].pc = "insert", Insert(w)
      PROVE  /\ \A v \in rt'[a].waiting : v.step \in Used(a)'
             /\ rt'[a].last # 0 => rt'[a].last \in Used(a)'
             /\ HasInput(a)' /\ ~Ran(a)' =>
                    \A v \in rt'[a].waiting : v.step # PendingMessage(a)'.step
  <2>1. Used(a) \subseteq Used(a)'
    BY <1>1, <1>6, InsertTurns
  <2>2. CASE a = wr[w].conv /\ wr[w].kind = "input"
    <3>1. wr[w].env = d.msg /\ d.msg.step \notin Used(a)
      BY <1>6, <2>2, InputIsMessage
    <3>2. PendingMessage(a)' = d.msg
      BY <1>1, <1>6, <2>2, <3>1, InsertTurns
    <3>3. \A v \in rt[a].waiting : v.step # d.msg.step
      BY <3>1 DEF TokensOK
    <3> QED  BY <1>6, <2>1, <3>2, <3>3 DEF TokensOK
  <2>3. CASE ~(a = wr[w].conv /\ wr[w].kind = "input")
    <3>1. HasInput(a)' => HasInput(a) /\ PendingMessage(a)' = PendingMessage(a)
      BY <1>1, <1>6, <2>3, InsertTurns
    <3>2. HasInput(a)' => (Ran(a)' <=> Ran(a))
      BY <1>6, <3>1 DEF Ran
    <3> QED  BY <1>6, <2>1, <3>1, <3>2 DEF TokensOK
  <2> QED  BY <2>2, <2>3
<1>7. CASE rt' = rt
  BY <1>3, <1>6, <1>7, LogEffect
<1> QED  BY <1>2, <1>5, <1>7, RuntimeMoves

----------------------------------------------------------------------------
(* The driver's message and the pending turn. *)

\* Steps of others than the driver leave the turns alone: a marker is none.
LEMMA SameTurns ==
  ASSUME Shape, Same, NEW a \in Agent
  PROVE  /\ Pending(a)' <=> Pending(a)
         /\ Used(a)' = Used(a)
         /\ HasInput(a)' <=> HasInput(a)
         /\ HasInput(a) => /\ PendingMessage(a)' = PendingMessage(a)
                           /\ Ran(a)' <=> Ran(a)
                           /\ Reached(a)' = Reached(a)
<1>1. TypeOK /\ rt' = rt /\ "marker" \in Writer
  BY DEF Shape, Same, Writer
<1>2. CASE log' = log
  BY <1>1, <1>2, TurnsStay
<1>3. CASE Insert("marker") /\ wr["marker"].pc = "insert"
  <2>1. wr["marker"].kind = "marker"
    BY <1>3 DEF Shape, WriterOK
  <2>2. /\ Pending(a)' <=> Pending(a)
        /\ Used(a)' = Used(a)
        /\ HasInput(a)' <=> HasInput(a)
        /\ HasInput(a) => PendingMessage(a)' = PendingMessage(a)
    BY <1>1, <1>3, <2>1, InsertTurns
  <2>3. HasInput(a) => (Ran(a)' <=> Ran(a)) /\ Reached(a)' = Reached(a)
    BY <1>1, <2>2 DEF Ran, Reached
  <2> QED  BY <2>2, <2>3
<1> QED  BY <1>2, <1>3 DEF Same

\* A StepID of the conversation's, or a turn that is pending, is one of an input.
LEMMA TurnHasInput ==
  ASSUME TypeOK, LogOK, NEW a \in Agent
  PROVE  /\ Used(a) # {} => HasInput(a)
         /\ Pending(a) => HasInput(a)
BY PendingHasInput DEF Used, HasInput

\* In a session that runs nobody has canceled anything.
LEMMA RunsUncanceled ==
  ASSUME MarkerOK, EndsOK, sess = "RUNNING"
  PROVE  ~Canceled
BY DEF MarkerOK, EndsOK

\* No turn is pending in a log of whole turns.
LEMMA WholeIsNotPending ==
  ASSUME TypeOK, ChainOK, ~Canceled, NEW a \in Agent, Whole(a)
  PROVE  ~Pending(a)
BY PendingIs DEF ChainOK, ShapeOfLog

\* A reply is recorded in a session that runs, or after one that was continued.
LEMMA RecordRuns ==
  ASSUME IInv, CInv, RInv, MarkerOK, ~d.revived, recordTaskStatus, d'.pc = "drive"
  PROVE  /\ sess = "RUNNING" /\ ~Canceled /\ ChainOK
         /\ \A a \in Agent : ~Pending(a)
<1>1. At("record") /\ TypeOK /\ TeardownOK
  BY DEF recordTaskStatus, IInv, Shape
<1>2. sess # "TERMINATING"
  BY <1>1, RecordEffect
<1>3. sess = "RUNNING"
  BY <1>1, <1>2 DEF TeardownOK, TypeOK, At
<1>4. ~Canceled /\ ChainOK
  BY <1>3, RunsUncanceled DEF RInv, CInv
<1>5. AllWhole
  BY <1>1, <1>4, LeaderWhole DEF ChainOK, AtRecord, TypeOK
<1> QED  BY <1>1, <1>3, <1>4, <1>5, WholeIsNotPending DEF AllWhole

\* Steps of others keep what the driver knows.
LEMMA TurnKept ==
  ASSUME Shape, TurnOK, Same
  PROVE  TurnOK'
<1>1. TypeOK /\ LogOK /\ d' = d /\ rt' = rt
  BY DEF Shape, Same
<1>2. PICK c \in Agent : c = d.conv
  BY <1>1 DEF TypeOK
<1>3. /\ Pending(c)' <=> Pending(c)
      /\ Used(c)' = Used(c)
      /\ HasInput(c)' <=> HasInput(c)
      /\ HasInput(c) => PendingMessage(c)' = PendingMessage(c) /\ (Ran(c)' <=> Ran(c))
  BY SameTurns
<1>4. \A a \in Agent : Pending(a)' <=> Pending(a)
  BY SameTurns
<1>5. HasAnswer' <=> HasAnswer
  BY <1>1 DEF HasAnswer, Same, At
<1>6. (d.pc \in {"run", "commit"} => Pending(d.conv))' /\ (At("record") => ~Pending(d.conv))'
  BY <1>1, <1>2, <1>3 DEF TurnOK, At
<1>7. (HasAnswer => HasInput(d.conv) /\ Ran(d.conv) /\ d.out = rt[d.conv].out)'
  BY <1>1, <1>2, <1>3, <1>5 DEF TurnOK
<1>8. (At("logging") =>
           /\ wr["driver"].pc # "idle" /\ wr["driver"].kind \in {"input", "output", "done"}
           /\ wr["driver"].kind = "input" =>
                  /\ d.inputs /\ wr["driver"].env = d.msg
                  /\ ~Pending(d.conv) /\ d.msg.step \notin Used(d.conv)
           /\ wr["driver"].kind = "output" => wr["driver"].env = d.out
           /\ wr["driver"].kind # "input" => Pending(d.conv))'
  BY <1>1, <1>2, <1>3 DEF TurnOK, At, Same
<1>9. (InTurn /\ d.inputs /\ d.msg.step \in Used(d.conv) =>
           PendingMessage(d.conv).step = d.msg.step /\ (Pending(d.conv) \/ At("record")))'
  <2>1. Used(c) # {} => HasInput(c)
    BY <1>1, TurnHasInput
  <2> QED  BY <1>1, <1>2, <1>3, <2>1 DEF TurnOK, At, InTurn
<1>10. (~d.revived =>
           /\ InTurn /\ d.inputs /\ (Pending(d.conv) \/ At("record")) =>
                  PendingMessage(d.conv).step = d.msg.step \/ Asker(d.msg) = Client
           /\ At("drive") /\ d.res.to \in Agent /\ Pending(d.res.to) => Asker(d.res) = Client)'
  <2>1. Pending(c) => HasInput(c)
    BY <1>1, TurnHasInput
  <2>2. At("record") => HasInput(c)
    BY <1>2 DEF TurnOK, HasAnswer, At
  <2> QED  BY <1>1, <1>2, <1>3, <1>4, <2>1, <2>2 DEF TurnOK, At, InTurn, Asker
<1> QED  BY <1>6, <1>7, <1>8, <1>9, <1>10 DEF TurnOK

\* The driver is not in a turn afterwards.
LEMMA OutOfTurn ==
  ASSUME \/ d'.pc \in {"rest", "down", "cleanup", "terminate", "establish"}
         \/ d'.pc = "exec" /\ d'.inputs = FALSE
         \/ /\ d'.pc = "drive"
            /\ ~d'.revived /\ d'.res.to \in Agent /\ Pending(d.res.to)' => Asker(d.res)' = Client
  PROVE  TurnOK'
BY DEF TurnOK, At, HasAnswer, InTurn

\* The driver is in a turn of the same conversation, and the log is the same.
LEMMA SameTurn ==
  ASSUME TypeOK, log' = log, d'.conv = d.conv, d'.msg = d.msg, d'.inputs = d.inputs,
         d'.revived = d.revived
  PROVE  /\ Pending(d.conv)' <=> Pending(d.conv)
         /\ Used(d.conv)' = Used(d.conv)
         /\ HasInput(d.conv)' <=> HasInput(d.conv)
         /\ PendingMessage(d.conv)' = PendingMessage(d.conv)
         /\ rt' = rt => (Ran(d.conv)' <=> Ran(d.conv)) /\ Reached(d.conv)' = Reached(d.conv)
<1>1. PICK c \in Agent : c = d.conv
  BY DEF TypeOK
<1>2. /\ Pending(c)' <=> Pending(c)
      /\ Used(c)' = Used(c)
      /\ HasInput(c)' <=> HasInput(c)
      /\ PendingMessage(c)' = PendingMessage(c)
  BY <1>1, TurnsStay
<1>3. rt' = rt => (Ran(c)' <=> Ran(c)) /\ Reached(c)' = Reached(c)
  BY <1>1, TurnsStay
<1>4. /\ Pending(d.conv)' <=> Pending(c)'
      /\ Used(d.conv)' = Used(c)'
      /\ HasInput(d.conv)' <=> HasInput(c)'
      /\ PendingMessage(d.conv)' = PendingMessage(c)'
  BY <1>1 DEF Pending, Used, HasInput, PendingMessage, pendingInput
<1>5. (Ran(d.conv)' <=> Ran(c)') /\ Reached(d.conv)' = Reached(c)'
  BY <1>1, <1>4 DEF Ran, Reached
<1> QED  BY <1>1, <1>2, <1>3, <1>4, <1>5

\* What is said of the driver's conversation is said of the agent that it is.
LEMMA TurnOf ==
  ASSUME NEW c \in Agent, d'.conv = c
  PROVE  /\ Pending(d.conv)' <=> Pending(c)'
         /\ Used(d.conv)' = Used(c)'
         /\ HasInput(d.conv)' <=> HasInput(c)'
         /\ PendingMessage(d.conv)' = PendingMessage(c)'
         /\ Ran(d.conv)' <=> Ran(c)'
         /\ Reached(d.conv)' = Reached(c)'
<1>1. /\ Pending(d.conv)' <=> Pending(c)'
      /\ Used(d.conv)' = Used(c)'
      /\ HasInput(d.conv)' <=> HasInput(c)'
      /\ PendingMessage(d.conv)' = PendingMessage(c)'
  BY DEF Pending, Used, HasInput, PendingMessage, pendingInput
<1>2. (Ran(d.conv)' <=> Ran(c)') /\ Reached(d.conv)' = Reached(c)'
  BY <1>1 DEF Ran, Reached
<1> QED  BY <1>1, <1>2

\* execA2A's message is new to the conversation, and a client's if a turn is pending.
LEMMA DeliverTurn ==
  ASSUME Shape, MintedOK, TurnOK, execA2A
  PROVE  TurnOK'
<1>1. /\ TypeOK /\ log' = log /\ d.res.to \in Agent /\ At("drive")
      /\ d'.msg.step \notin Used(d.res.to) /\ Asker(d'.msg) = Asker(d.res)
  BY DeliverFresh DEF Shape, execA2A
<1>2. d'.pc = "exec" /\ d'.conv = d.res.to /\ d'.revived = d.revived
  BY <1>1, DeliverEffect DEF SameSession
<1>3. PICK c \in Agent : c = d.res.to
  BY <1>1
<1>4. (Pending(c)' <=> Pending(c)) /\ Used(c)' = Used(c)
  BY <1>1, TurnsStay
<1>5. (Pending(d.conv)' <=> Pending(c)') /\ Used(d.conv)' = Used(c)'
  BY <1>2, <1>3, TurnOf
<1>6. ~(d.msg.step \in Used(d.conv))'
  BY <1>1, <1>3, <1>4, <1>5
<1>7. ~d'.revived /\ Pending(d.conv)' => Asker(d.msg)' = Client
  BY <1>1, <1>2, <1>3, <1>4, <1>5 DEF TurnOK, Asker
<1> QED  BY <1>2, <1>6, <1>7 DEF TurnOK, At, HasAnswer, InTurn

\* Exec runs the pending turn, or logs the message of one that is new.
LEMMA ExecTurn ==
  ASSUME Shape, TurnOK, Exec
  PROVE  TurnOK'
<1>1. /\ TypeOK /\ log' = log /\ rt' = rt /\ At("exec") /\ d.conv \in Agent /\ d.msg \in Envelope
      /\ "driver" \in Writer /\ "input" \in Kind
  BY DEF Shape, TypeOK, Exec, store, Writer, Kind
<1>2. PICK label \in {"run", "logging"} :
          /\ Goto(label)
          /\ label = "run" => Pending(d.conv)
          /\ label = "logging" => /\ ~Pending(d.conv) /\ d.inputs
                                  /\ Begin("driver", d.conv, "input", d.msg)
  BY DEF Exec
<1>3. /\ d'.pc = label /\ d'.conv = d.conv /\ d'.msg = d.msg /\ d'.inputs = d.inputs
      /\ d'.revived = d.revived
  BY <1>1, <1>2, GotoEffect DEF SameSession
<1>4. /\ Pending(d.conv)' <=> Pending(d.conv)
      /\ Used(d.conv)' = Used(d.conv)
      /\ PendingMessage(d.conv)' = PendingMessage(d.conv)
  BY <1>1, <1>3, SameTurn
<1>5. d.inputs /\ d.msg.step \in Used(d.conv) =>
          PendingMessage(d.conv).step = d.msg.step /\ Pending(d.conv)
  BY <1>1 DEF TurnOK, InTurn, At
<1>6. ~d.revived /\ d.inputs /\ Pending(d.conv) =>
          PendingMessage(d.conv).step = d.msg.step \/ Asker(d.msg) = Client
  BY <1>1 DEF TurnOK, InTurn, At
<1>7. ~d'.revived /\ d'.inputs /\ Pending(d.conv)' =>
          PendingMessage(d.conv)'.step = d'.msg.step \/ Asker(d.msg)' = Client
  BY <1>3, <1>4, <1>6 DEF Asker
<1>8. CASE label = "run"
  BY <1>2, <1>3, <1>4, <1>5, <1>7, <1>8 DEF TurnOK, At, HasAnswer, InTurn
<1>9. CASE label = "logging"
  <2>1. wr'["driver"].pc = "step" /\ wr'["driver"].kind = "input" /\ wr'["driver"].env = d.msg
    BY <1>1, <1>2, <1>9, BeginEffect
  <2>2. d.msg.step \notin Used(d.conv) /\ ~Pending(d.conv) /\ d.inputs
    BY <1>2, <1>5, <1>9
  <2> QED  BY <1>3, <1>4, <1>9, <2>1, <2>2 DEF TurnOK, At, HasAnswer, InTurn
<1> QED  BY <1>8, <1>9

\* The actor has answered the pending turn.
LEMMA RunTurn ==
  ASSUME Shape, SaidOK, TurnOK, Run
  PROVE  TurnOK'
<1>1. TypeOK /\ log' = log /\ At("run")
  BY DEF Shape, Run, store
<1>2. /\ d'.pc = "commit" /\ d'.conv = d.conv /\ d'.msg = d.msg /\ d'.inputs = d.inputs
      /\ d'.revived = d.revived /\ HasInput(d.conv)
      /\ rt'[d.conv].out = d'.out /\ rt'[d.conv].last = PendingMessage(d.conv).step
  BY TurnEffect DEF SameSession
<1>3. /\ Pending(d.conv)' <=> Pending(d.conv)
      /\ Used(d.conv)' = Used(d.conv)
      /\ HasInput(d.conv)' <=> HasInput(d.conv)
      /\ PendingMessage(d.conv)' = PendingMessage(d.conv)
  BY <1>1, <1>2, SameTurn
<1>4. (HasInput(d.conv) /\ Ran(d.conv) /\ d.out = rt[d.conv].out)'
  BY <1>2, <1>3 DEF Ran
<1>5. /\ Pending(d.conv)
      /\ d.inputs /\ d.msg.step \in Used(d.conv) => PendingMessage(d.conv).step = d.msg.step
      /\ ~d.revived /\ d.inputs =>
             PendingMessage(d.conv).step = d.msg.step \/ Asker(d.msg) = Client
  BY <1>1 DEF TurnOK, InTurn, At
<1>6. ~d'.revived /\ d'.inputs =>
          PendingMessage(d.conv)'.step = d'.msg.step \/ Asker(d.msg)' = Client
  BY <1>2, <1>3, <1>5 DEF Asker
<1> QED  BY <1>2, <1>3, <1>4, <1>5, <1>6 DEF TurnOK, At, HasAnswer, InTurn

\* The answer is logged, or is in the log already.
LEMMA CommitTurn ==
  ASSUME Shape, TurnOK, Commit
  PROVE  TurnOK'
<1>1. /\ TypeOK /\ log' = log /\ rt' = rt /\ At("commit") /\ d.conv \in Agent /\ d.out \in Envelope
      /\ "driver" \in Writer /\ NoEnvelope \in Envelope /\ "done" \in Kind /\ "output" \in Kind
  BY InitialRecords DEF Shape, TypeOK, Commit, store, Writer, Kind
<1>2. /\ d'.pc = "logging" /\ d'.conv = d.conv /\ d'.msg = d.msg /\ d'.inputs = d.inputs
      /\ d'.out = d.out /\ d'.revived = d.revived
  BY <1>1, GotoEffect DEF Commit, SameSession
<1>3. /\ wr'["driver"].pc = "step" /\ wr'["driver"].kind \in {"output", "done"}
      /\ wr'["driver"].kind = "output" => wr'["driver"].env = d.out
  <2>1. CASE Begin("driver", d.conv, "done", NoEnvelope)
    BY <1>1, <2>1, BeginEffect
  <2>2. CASE Begin("driver", d.conv, "output", d.out)
    BY <1>1, <2>2, BeginEffect
  <2> QED  BY <2>1, <2>2 DEF Commit
<1>4. /\ Pending(d.conv)' <=> Pending(d.conv)
      /\ Used(d.conv)' = Used(d.conv)
      /\ HasInput(d.conv)' <=> HasInput(d.conv)
      /\ PendingMessage(d.conv)' = PendingMessage(d.conv)
      /\ Ran(d.conv)' <=> Ran(d.conv)
  BY <1>1, <1>2, SameTurn
<1>5. /\ Pending(d.conv) /\ HasInput(d.conv) /\ Ran(d.conv) /\ d.out = rt[d.conv].out
      /\ d.inputs /\ d.msg.step \in Used(d.conv) => PendingMessage(d.conv).step = d.msg.step
      /\ ~d.revived /\ d.inputs =>
             PendingMessage(d.conv).step = d.msg.step \/ Asker(d.msg) = Client
  BY <1>1 DEF TurnOK, InTurn, At, HasAnswer
<1>6. ~d'.revived /\ d'.inputs =>
          PendingMessage(d.conv)'.step = d'.msg.step \/ Asker(d.msg)' = Client
  BY <1>2, <1>4, <1>5 DEF Asker
<1>7. (HasInput(d.conv) /\ Ran(d.conv) /\ d.out = rt[d.conv].out)'
  BY <1>1, <1>2, <1>4, <1>5
<1> QED  BY <1>2, <1>3, <1>4, <1>5, <1>6, <1>7 DEF TurnOK, At, HasAnswer, InTurn

\* The INSERT begins the turn, gives its answer or completes it.  Where a marker has
\* taken the key nothing is inserted, and the turn is tried again.
LEMMA LoggedTurn ==
  ASSUME Shape, TurnOK, Logged
  PROVE  TurnOK'
<1>1. /\ TypeOK /\ rt' = rt /\ At("logging") /\ wr["driver"].pc = "insert"
      /\ wr["driver"].conv = d.conv /\ "driver" \in Writer /\ NoEnvelope \in Envelope
      /\ "done" \in Kind
  BY InitialRecords DEF Shape, WriterOK, Logged, Writer, Kind
<1>2. PICK c \in Agent : c = d.conv
  BY <1>1 DEF TypeOK
<1>3. PICK kind \in {"input", "output", "done"} : kind = wr["driver"].kind
  BY <1>1 DEF TurnOK
<1>4. /\ kind = "input" => d.inputs /\ wr["driver"].env = d.msg /\ ~Pending(c)
      /\ kind # "input" =>
             /\ Pending(c) /\ HasInput(c) /\ rt[c].last = PendingMessage(c).step
             /\ d.out = rt[c].out
      /\ d.inputs /\ d.msg.step \in Used(c) => PendingMessage(c).step = d.msg.step /\ Pending(c)
      /\ ~d.revived /\ d.inputs /\ Pending(c) =>
             PendingMessage(c).step = d.msg.step \/ Asker(d.msg) = Client
  BY <1>1, <1>2, <1>3 DEF TurnOK, InTurn, At, HasAnswer, Ran
<1>5. CASE Goto("exec") /\ log' = log
  <2>1. /\ d'.pc = "exec" /\ d'.conv = d.conv /\ d'.msg = d.msg /\ d'.inputs = d.inputs
        /\ d'.revived = d.revived
    BY <1>1, <1>5, GotoEffect DEF SameSession
  <2>2. /\ Pending(d.conv)' <=> Pending(c)
        /\ Used(d.conv)' = Used(c)
        /\ PendingMessage(d.conv)' = PendingMessage(c)
    BY <1>1, <1>2, <1>5, <2>1, SameTurn
  <2>3. ~d'.revived /\ d'.inputs /\ Pending(d.conv)' =>
            PendingMessage(d.conv)'.step = d'.msg.step \/ Asker(d.msg)' = Client
    BY <1>4, <2>1, <2>2 DEF Asker
  <2> QED  BY <1>4, <2>1, <2>2, <2>3 DEF TurnOK, At, HasAnswer, InTurn
<1>6. CASE /\ Insert("driver")
           /\ CASE kind = "input" ->
                     Goto("run") /\ wr' = [wr EXCEPT !["driver"] = NoAppend]
                [] kind = "output" ->
                     d' = d /\ Begin("driver", d.conv, "done", NoEnvelope)
                [] OTHER ->
                     Goto("record") /\ wr' = [wr EXCEPT !["driver"] = NoAppend]
  <2>1. /\ d'.conv = c /\ d'.msg = d.msg /\ d'.inputs = d.inputs /\ d'.out = d.out
        /\ d'.revived = d.revived
        /\ d'.pc = IF kind = "input" THEN "run"
                   ELSE IF kind = "output" THEN "logging" ELSE "record"
    BY <1>1, <1>2, <1>6, GotoEffect DEF SameSession, At
  <2>2. /\ Pending(d.conv)' <=> Pending(c)'
        /\ Used(d.conv)' = Used(c)'
        /\ HasInput(d.conv)' <=> HasInput(c)'
        /\ PendingMessage(d.conv)' = PendingMessage(c)'
    BY <2>1, TurnOf
  <2>3. /\ kind = "input" => Pending(c)' /\ PendingMessage(c)' = d.msg
        /\ kind # "input" => /\ HasInput(c)' /\ PendingMessage(c)' = PendingMessage(c)
                             /\ Used(c)' = Used(c)
        /\ kind = "output" => Pending(c)'
        /\ kind = "done" => ~Pending(c)'
    BY <1>1, <1>2, <1>3, <1>4, <1>6, InsertTurns
  <2>4. d'.inputs /\ (d.msg.step \in Used(d.conv))' => PendingMessage(d.conv)'.step = d'.msg.step
    BY <1>3, <1>4, <2>1, <2>2, <2>3
  <2>5. ~d'.revived /\ d'.inputs =>
            PendingMessage(d.conv)'.step = d'.msg.step \/ Asker(d.msg)' = Client
    BY <1>3, <1>4, <2>1, <2>2, <2>3 DEF Asker
  <2>6. kind # "input" => (HasInput(d.conv) /\ Ran(d.conv) /\ d.out = rt[d.conv].out)'
    BY <1>1, <1>4, <2>1, <2>2, <2>3 DEF Ran
  <2>7. CASE kind = "input"
    BY <2>1, <2>2, <2>3, <2>4, <2>5, <2>7 DEF TurnOK, At, HasAnswer, InTurn
  <2>8. CASE kind = "output"
    <3>1. wr'["driver"].pc = "step" /\ wr'["driver"].kind = "done"
      BY <1>1, <1>2, <1>6, <2>8, BeginEffect
    <3> QED  BY <2>1, <2>2, <2>3, <2>4, <2>5, <2>6, <2>8, <3>1
             DEF TurnOK, At, HasAnswer, InTurn
  <2>9. CASE kind = "done"
    BY <2>1, <2>2, <2>3, <2>4, <2>5, <2>6, <2>9 DEF TurnOK, At, HasAnswer, InTurn
  <2> QED  BY <1>3, <2>7, <2>8, <2>9
<1> QED  BY <1>3, <1>5, <1>6 DEF Logged

\* The answer of another turn: the message of execA2A's is new to the conversation.
LEMMA AnotherTurn ==
  ASSUME Shape, SaidOK, TurnOK, retryMismatch
  PROVE  /\ d.conv \in Agent /\ At("record") /\ d.inputs
         /\ d.msg.step \notin Used(d.conv) /\ ~Pending(d.conv)
         /\ ~d.revived => Asker(d.msg) = Client
<1>1. TypeOK /\ LogOK /\ At("record") /\ d.inputs /\ d.out.step # d.msg.step
  BY DEF Shape, retryMismatch, Mismatch
<1>2. PICK c \in Agent : c = d.conv
  BY <1>1 DEF TypeOK
<1>3. HasInput(c) /\ rt[c].last = PendingMessage(c).step /\ d.out = rt[c].out
  BY <1>1, <1>2 DEF TurnOK, HasAnswer, Ran, At
<1>4. rt[c].last # 0
  BY <1>1, <1>3, PendingTyped
<1>5. PendingMessage(c).step # d.msg.step
  BY <1>1, <1>3, <1>4 DEF SaidOK
<1> QED  BY <1>1, <1>2, <1>5 DEF TurnOK, InTurn, At

\* Exec is called again with it.
LEMMA RetryTurn ==
  ASSUME Shape, SaidOK, TurnOK, retryMismatch
  PROVE  TurnOK'
<1>1. TypeOK /\ log' = log
  BY DEF Shape, retryMismatch, store
<1>2. /\ d'.pc = "exec" /\ d'.conv = d.conv /\ d'.msg = d.msg /\ d'.inputs = d.inputs
      /\ d'.revived = d.revived
  BY <1>1, RetryEffect
<1>3. (Pending(d.conv)' <=> Pending(d.conv)) /\ Used(d.conv)' = Used(d.conv)
  BY <1>1, <1>2, SameTurn
<1> QED  BY <1>2, <1>3, AnotherTurn DEF TurnOK, At, HasAnswer, InTurn

\* The driver's message stays new, the pending turn's own, or a client's.
LEMMA TurnStep ==
  ASSUME IInv, CInv, RInv, SInv, [Next]_vars
  PROVE  TurnOK'
<1>1. /\ Shape /\ TypeOK /\ LogOK /\ EndOK /\ SaidOK /\ MintedOK /\ TurnOK /\ MarkerOK
  BY DEF IInv, Shape, CInv, SInv
<1>2. CASE establishRelayState
  <2>1. CASE d'.pc = "drive" /\ d'.res = Bootstrap
    <3>1. Asker(d.res)' = Client
      BY <2>1 DEF Asker, Bootstrap, ClientMessage
    <3> QED  BY <2>1, <3>1, OutOfTurn
  <2>2. CASE /\ d'.pc = "drive" /\ ~Canceled
             /\ \E a \in Agent : Leads(a) /\ Whole(a) /\ d'.res = Before(a).env
    <3>1. ChainOK /\ AllWhole
      BY <2>2, LeaderWhole DEF CInv
    <3>2. \A a \in Agent : ~Pending(a)
      BY <1>1, <2>2, <3>1, WholeIsNotPending DEF AllWhole
    <3>3. log' = log
      BY <1>2 DEF establishRelayState, store
    <3>4. \A a \in Agent : d'.res.to = a => ~Pending(d.res.to)'
      BY <3>2, <3>3 DEF Pending
    <3> QED  BY <2>2, <3>4, OutOfTurn
  <2>3. CASE d'.pc = "exec" /\ d'.inputs = FALSE
    BY <2>3, OutOfTurn
  <2> QED  BY <1>1, <1>2, <2>1, <2>2, <2>3, EstablishReads
<1>3. CASE continueTask
  <2>1. d'.pc = "drive" /\ d'.res = ClientMessage(d'.first)
    BY <1>1, <1>3, StartEffect
  <2>2. Asker(d.res)' = Client
    BY <2>1 DEF Asker, ClientMessage
  <2> QED  BY <2>1, <2>2, OutOfTurn
<1>4. CASE recordTaskStatus
  <2>1. d'.pc \in {"drive", "cleanup"} /\ d'.revived = d.revived
    BY <1>1, <1>4, RecordEffect
  <2>2. ASSUME d'.pc = "drive", ~d'.revived, d'.res.to \in Agent
        PROVE  ~Pending(d.res.to)'
    <3>1. \A a \in Agent : ~Pending(a)
      BY <1>1, <1>4, <2>1, <2>2, RecordRuns
    <3>2. log' = log
      BY <1>4 DEF recordTaskStatus
    <3> QED  BY <2>2, <3>1, <3>2 DEF Pending
  <2> QED  BY <2>1, <2>2, OutOfTurn
<1>5. CASE Off
  BY <1>5, OutOfTurn DEF Off
<1>6. CASE Same
  BY <1>1, <1>6, TurnKept
<1> QED  BY <1>1, <1>2, <1>3, <1>4, <1>5, <1>6, CallSteps, DeliverTurn, ExecTurn, RunTurn,
            CommitTurn, LoggedTurn, RetryTurn

----------------------------------------------------------------------------
(* The marker. *)

\* Which steps change the log.
LEMMA LogMoves ==
  ASSUME [Next]_vars
  PROVE  log' = log \/ Logged \/ appendCancellationMarker
<1>1. CASE Drive
  BY <1>1, ZenonT(40)
  DEF Drive, establishRelayState, execA2A, Exec, AppendReads, Run, Commit, retryMismatch,
      recordTaskStatus, Pause, MarkTerminating, cleanupActors, TerminateSession, store
<1>2. CASE Cancel
  BY <1>2
  DEF Cancel, cancelAndWait, CancelTaskAndSession, AppendReads, ClaimForCleanup, store
<1>3. CASE continueTask \/ CancelTask \/ Crash \/ Resume \/ discoverAndApply \/ storeCards
  BY <1>3 DEF continueTask, CancelTask, Crash, Resume, discoverAndApply, storeCards, store
<1>4. CASE UNCHANGED vars
  BY <1>4 DEF vars, store
<1> QED  BY <1>1, <1>2, <1>3, <1>4 DEF Next

\* Which steps move a cancellation that has its marker to append.
LEMMA CancelMoves ==
  ASSUME [Next]_vars
  PROVE  cx' = cx \/ cx.pc # "marker" \/ appendCancellationMarker
<1>1. CASE Drive
  BY <1>1, ZenonT(40)
  DEF Drive, establishRelayState, execA2A, Exec, AppendReads, Run, Commit, Logged, retryMismatch,
      recordTaskStatus, Pause, MarkTerminating, cleanupActors, TerminateSession
<1>2. CASE Cancel
  BY <1>2
  DEF Cancel, cancelAndWait, CancelTaskAndSession, AppendReads, ClaimForCleanup
<1>3. CASE continueTask \/ CancelTask \/ Crash \/ Resume \/ discoverAndApply \/ storeCards
  BY <1>3 DEF continueTask, CancelTask, Crash, Resume, discoverAndApply, storeCards
<1>4. CASE UNCHANGED vars
  BY <1>4 DEF vars
<1> QED  BY <1>1, <1>2, <1>3, <1>4 DEF Next

\* A session is revived by a continuation alone, and only after it has ended; and the
\* driver starts over only in a session that runs.
LEMMA ReviveMoves ==
  ASSUME Shape, EndOK, SaidOK, [Next]_vars
  PROVE  /\ d.revived => d'.revived
         /\ d'.revived => d.revived \/ sess # "RUNNING"
         /\ d'.pc = "establish" => (log' = log /\ rt' = rt /\ sess = "RUNNING") \/ Same
<1>1. TypeOK /\ LogOK /\ d.revived \in BOOLEAN
  BY DEF Shape, TypeOK
<1>2. CASE establishRelayState
  BY <1>1, <1>2, EstablishEffect DEF SameSession
<1>3. CASE execA2A
  BY <1>1, <1>3, DeliverEffect DEF SameSession
<1>4. CASE Exec \/ Commit \/ Logged
  <2>1. \/ d' = d /\ At("logging")
        \/ \E label \in {"run", "logging", "record", "exec"} : Goto(label)
    BY <1>4 DEF Exec, Commit, Logged
  <2> QED  BY <1>1, <2>1, GotoEffect DEF SameSession, At
<1>5. CASE Run
  BY <1>5, TurnEffect DEF SameSession
<1>6. CASE retryMismatch
  BY <1>1, <1>6, RetryEffect
<1>7. CASE recordTaskStatus
  BY <1>1, <1>7, RecordEffect
<1>8. CASE continueTask
  BY <1>1, <1>8, StartEffect
<1>9. CASE Off
  BY <1>1, <1>9 DEF Off
<1>10. CASE Same
  BY <1>1, <1>10 DEF Same
<1> QED  BY <1>2, <1>3, <1>4, <1>5, <1>6, <1>7, <1>8, <1>9, <1>10, CallSteps

\* The marker's Append belongs to the cancellation.
LEMMA MarkerOwned ==
  ASSUME Shape, MarkerOK, [Next]_vars, wr'["marker"].pc # "idle"
  PROVE  cx'.pc = "marker" /\ wr'["marker"].conv = Owner
<1>1. /\ TypeOK /\ wr \in [Writer -> AppendSet] /\ Owner \in Agent /\ "marker" \in Writer
      /\ "marker" \in Kind /\ Marker \in Envelope /\ cx \in [pc : {"idle", "wait", "cas",
                                                       "marker", "claim"}, version : Nat]
  BY InitialRecords, OwnerAssumption DEF Shape, TypeOK, AppendSet, Writer, Kind
<1>2. ~appendCancellationMarker
  BY <1>1 DEF appendCancellationMarker, NoAppend
<1>3. CASE wr["marker"].pc # "idle"
  <2>1. cx.pc = "marker" /\ wr["marker"].conv = Owner /\ cx' = cx
    BY <1>2, <1>3, CancelMoves DEF MarkerOK
  <2>2. CASE wr'["marker"] \in {wr["marker"], NoAppend}
    BY <2>1, <2>2 DEF NoAppend
  <2>3. CASE Reads("marker")
    BY <1>1, <2>1, <2>3, ReadsEffect
  <2>4. CASE Begin("marker", Owner, "marker", Marker)
    BY <1>1, <2>1, <2>4, BeginEffect
  <2> QED  BY <2>1, <2>2, <2>3, <2>4, MarkerMoves
<1>4. CASE wr["marker"].pc = "idle"
  <2>1. CancelTaskAndSession /\ Begin("marker", Owner, "marker", Marker)
    BY <1>1, <1>4, MarkerMoves, ReadsEffect DEF NoAppend
  <2>2. wr'["marker"].conv = Owner /\ wr' # wr
    BY <1>1, <1>4, <2>1, BeginEffect
  <2>3. cx' = [cx EXCEPT !.pc = "marker"]
    BY <2>1, <2>2 DEF CancelTaskAndSession
  <2> QED  BY <1>1, <2>2, <2>3
<1> QED  BY <1>3, <1>4

\* The marker that is inserted while nobody drives the session is the newest event.
LEMMA MarkerInserted ==
  ASSUME Shape, MarkerOK, At("establish"), wr["marker"].pc = "insert", Insert("marker")
  PROVE  (\E i \in DOMAIN log[Owner] :
             /\ log[Owner][i].kind = "marker"
             /\ \A a \in Agent : \A j \in DOMAIN log[a] :
                    (a = Owner /\ j = i) \/ log[a][j].ss < log[Owner][i].ss)'
<1>1. /\ TypeOK /\ "marker" \in Writer /\ wr["marker"].conv = Owner /\ Owner \in Agent
      /\ wr["marker"].kind = "marker"
      /\ \A a \in Agent : \A j \in DOMAIN log[a] : log[a][j].ss < wr["marker"].ss
  BY OwnerAssumption DEF Shape, WriterOK, MarkerOK, Writer
<1>2. PICK n \in Nat : n = Len(log[Owner]) /\ DOMAIN log[Owner] = 1..n
  BY <1>1, ConvIs
<1>3. /\ log' \in [Agent -> Seq(Event)] /\ Len(log'[Owner]) = n + 1
      /\ log'[Owner][n + 1] = [ss |-> wr["marker"].ss, kind |-> "marker", env |-> wr["marker"].env]
      /\ \A i \in 1..n : log'[Owner][i] = log[Owner][i]
      /\ \A a \in Agent : a # Owner => log'[a] = log[a]
  BY <1>1, <1>2, InsertEffect
<1>4. /\ n + 1 \in DOMAIN log'[Owner] /\ log'[Owner][n + 1].kind = "marker"
      /\ DOMAIN log'[Owner] = 1..(n + 1) /\ log'[Owner][n + 1].ss = wr["marker"].ss
  BY <1>1, <1>3
<1>5. ASSUME NEW a \in Agent, NEW j \in DOMAIN log'[a], ~(a = Owner /\ j = n + 1)
      PROVE  log'[a][j].ss < log'[Owner][n + 1].ss
  <2>1. CASE a # Owner
    BY <1>1, <1>3, <1>4, <2>1
  <2>2. CASE a = Owner
    <3>1. j \in 1..n
      BY <1>4, <1>5, <2>2
    <3> QED  BY <1>1, <1>2, <1>3, <1>4, <2>2, <3>1
  <2> QED  BY <2>1, <2>2
<1> QED  BY <1>4, <1>5

\* The marker is the newest event until the driver goes on.
LEMMA MarkerStep ==
  ASSUME IInv, CInv, RInv, MarkerOK, [Next]_vars
  PROVE  MarkerOK'
<1>1. Shape /\ TypeOK /\ EndOK /\ SaidOK /\ EndsOK /\ "marker" \in Writer /\ NoAppend.pc = "idle"
  BY DEF IInv, Shape, CInv, RInv, Writer, NoAppend
<1>2. (d.revived => sess # "RUNNING")'
  BY <1>1, ReviveMoves, SessionEnds DEF MarkerOK
<1>3. (wr["marker"].pc # "idle" => cx.pc = "marker" /\ wr["marker"].conv = Owner)'
  BY <1>1, MarkerOwned
<1>4. CASE ~(At("establish"))'
  BY <1>2, <1>3, <1>4 DEF MarkerOK
<1>5. CASE (At("establish"))' /\ log' = log /\ sess = "RUNNING"
  <2>1. ~Canceled /\ wr["marker"].pc = "idle"
    BY <1>1, <1>5, RunsUncanceled DEF MarkerOK, EndOK
  <2>2. ~Canceled'
    BY <1>5, <2>1 DEF Canceled
  <2>3. wr'["marker"].pc # "insert"
    <3>1. CASE wr'["marker"] \in {wr["marker"], NoAppend}
      BY <1>1, <2>1, <3>1
    <3>2. CASE Reads("marker")
      BY <1>1, <2>1, <3>2, ReadsEffect
    <3>3. CASE Begin("marker", Owner, "marker", Marker)
      BY <1>1, <3>3, BeginEffect, InitialRecords, OwnerAssumption DEF Kind
    <3> QED  BY <1>1, <3>1, <3>2, <3>3, MarkerMoves
  <2> QED  BY <1>2, <1>3, <2>2, <2>3 DEF MarkerOK
<1>6. CASE (At("establish"))' /\ Same
  <2>1. At("establish") /\ ~Logged
    BY <1>6 DEF Same, At, Logged
  <2>2. CASE appendCancellationMarker
    <3>1. wr'["marker"].pc = "idle" /\ wr["marker"].pc = "insert"
      BY <1>1, <2>2 DEF appendCancellationMarker, TypeOK
    <3>2. CASE log' = log
      <4>1. (At("establish") /\ Canceled =>
                \E i \in DOMAIN log[Owner] :
                    /\ log[Owner][i].kind = "marker"
                    /\ \A a \in Agent : \A j \in DOMAIN log[a] :
                           (a = Owner /\ j = i) \/ log[a][j].ss < log[Owner][i].ss)'
        BY <2>1, <3>2 DEF MarkerOK, Canceled
      <4> QED  BY <1>2, <1>3, <3>1, <4>1 DEF MarkerOK
    <3>3. CASE Insert("marker")
      BY <1>1, <1>2, <1>3, <2>1, <3>1, <3>3, MarkerInserted DEF MarkerOK
    <3> QED  BY <2>2, <3>2, <3>3 DEF appendCancellationMarker
  <2>3. CASE log' = log
    <3>1. (At("establish") /\ Canceled =>
              \E i \in DOMAIN log[Owner] :
                  /\ log[Owner][i].kind = "marker"
                  /\ \A a \in Agent : \A j \in DOMAIN log[a] :
                         (a = Owner /\ j = i) \/ log[a][j].ss < log[Owner][i].ss)'
      BY <2>1, <2>3 DEF MarkerOK, Canceled
    <3>2. ASSUME wr'["marker"].pc = "insert", NEW a \in Agent, NEW j \in DOMAIN log[a]
          PROVE  log[a][j].ss < wr'["marker"].ss
      <4>1. CASE wr'["marker"] \in {wr["marker"], NoAppend}
        BY <1>1, <2>1, <3>2, <4>1 DEF MarkerOK
      <4>2. CASE Reads("marker")
        <5>1. log[a][j].ss \in SessionSteps
          BY <1>1, EventCounts
        <5> QED  BY <1>1, <3>2, <4>2, <5>1, ReadsEffect
      <4>3. CASE Begin("marker", Owner, "marker", Marker)
        BY <1>1, <3>2, <4>3, BeginEffect, InitialRecords, OwnerAssumption DEF Kind
      <4> QED  BY <1>1, <4>1, <4>2, <4>3, MarkerMoves
    <3>3. wr'["marker"].pc = "insert" =>
              \A a \in Agent : \A j \in DOMAIN log'[a] : log'[a][j].ss < wr'["marker"].ss
      BY <2>3, <3>2
    <3> QED  BY <1>2, <1>3, <3>1, <3>3 DEF MarkerOK
  <2> QED  BY <2>1, <2>2, <2>3, LogMoves
<1> QED  BY <1>1, <1>4, <1>5, <1>6, ReviveMoves DEF At

----------------------------------------------------------------------------
(* What the driver has in hand. *)

\* Steps that leave the runtimes alone.
LEMMA StackStays ==
  ASSUME rt' = rt
  PROVE  /\ Linked(Blocked)' <=> Linked(Blocked)
         /\ \A e : Answers(e)' <=> Answers(e)
<1>1. PICK W : W = Blocked /\ W = Blocked'
  BY DEF Blocked
<1>2. (Linked(Blocked)' <=> Linked(W)) /\ (Linked(Blocked) <=> Linked(W))
  BY <1>1 DEF Linked, AwaitedIn
<1>3. ASSUME NEW e PROVE Answers(e)' <=> Answers(e)
  BY <1>1 DEF Answers, OnTop, AwaitedIn, Asker
<1> QED  BY <1>2, <1>3

\* Clients are not blocked in any actor.
LEMMA ClientAwaits ==
  ASSUME NEW e, Asker(e) = Client
  PROVE  Answers(e) /\ Answers(e)'
BY DEF Answers, OnTop, AwaitedIn, Asker

\* Answers depends on what an envelope is, not on who holds it.
LEMMA AnswersOf ==
  ASSUME NEW e
  PROVE  /\ d'.res = e => (Answers(d.res)' <=> Answers(e)')
         /\ d'.msg = e => (Answers(d.msg)' <=> Answers(e)')
         /\ d'.out = e => (Answers(d.out)' <=> Answers(e)')
         /\ Reached(d.conv)' = e => (Answers(Reached(d.conv))' <=> Answers(e)')
         /\ Reached(d.res.to)' = e => (Answers(Reached(d.res.to))' <=> Answers(e)')
BY DEF Answers, OnTop, AwaitedIn, Asker

\* The same for the conversation that the driver is to take an envelope to.
LEMMA TurnAhead ==
  ASSUME NEW c \in Agent, d'.res.to = c
  PROVE  /\ Pending(d.res.to)' <=> Pending(c)'
         /\ Reached(d.res.to)' = Reached(c)'
<1>1. /\ Pending(d.res.to)' <=> Pending(c)'
      /\ PendingMessage(d.res.to)' = PendingMessage(c)'
  BY DEF Pending, PendingMessage, pendingInput
<1> QED  BY <1>1 DEF Ran, Reached

\* Steps of others.
LEMMA HandKept ==
  ASSUME Shape, InHandOK, Same
  PROVE  InHandOK'
<1>1. TypeOK /\ LogOK /\ d' = d /\ rt' = rt /\ wr'["driver"].kind = wr["driver"].kind
  BY DEF Shape, Same
<1>2. \A a \in Agent : /\ Pending(a)' <=> Pending(a)
                       /\ Pending(a) => Reached(a)' = Reached(a)
  BY <1>1, SameTurns, TurnHasInput
<1>3. \A e : Answers(e)' <=> Answers(e)
  BY <1>1, StackStays
<1>4. HasAnswer' <=> HasAnswer
  BY <1>1 DEF HasAnswer, At
<1>5. (At("drive") => Answers(d.res))'
  BY <1>1, <1>3, AnswersOf DEF InHandOK, At
<1>6. (At("drive") /\ d.res.to \in Agent /\ Pending(d.res.to) => Answers(Reached(d.res.to)))'
  <2> SUFFICES ASSUME d.pc = "drive", NEW c \in Agent, c = d.res.to, Pending(d.res.to)'
               PROVE  Answers(Reached(d.res.to))'
    BY <1>1 DEF At
  <2>1. Pending(c)' /\ Reached(d.res.to)' = Reached(c)'
    BY <1>1, TurnAhead
  <2>2. Pending(c) /\ Reached(d.res.to)' = Reached(c) /\ Answers(Reached(c))
    BY <1>2, <2>1 DEF InHandOK, At
  <2> QED  BY <1>3, <2>2, AnswersOf
<1>7. (d.pc \in {"exec", "run"} /\ Pending(d.conv) => Answers(Reached(d.conv)))'
  <2> SUFFICES ASSUME d.pc \in {"exec", "run"}, NEW c \in Agent, c = d.conv, Pending(d.conv)'
               PROVE  Answers(Reached(d.conv))'
    BY <1>1 DEF TypeOK
  <2>1. Pending(c)' /\ Reached(d.conv)' = Reached(c)'
    BY <1>1, TurnOf
  <2>2. Pending(c) /\ Reached(d.conv)' = Reached(c) /\ Answers(Reached(c))
    BY <1>2, <2>1 DEF InHandOK, At
  <2> QED  BY <1>3, <2>2, AnswersOf
<1>8. (At("exec") /\ d.inputs /\ ~Pending(d.conv) => Answers(d.msg))'
  <2> SUFFICES ASSUME d.pc = "exec", d.inputs, NEW c \in Agent, c = d.conv, ~Pending(d.conv)'
               PROVE  Answers(d.msg)'
    BY <1>1 DEF TypeOK, At
  <2>1. ~Pending(c)
    BY <1>1, <1>2, TurnOf
  <2> QED  BY <1>1, <1>3, <2>1, AnswersOf DEF InHandOK, At
<1>9. (At("logging") /\ wr["driver"].kind = "input" => Answers(d.msg))'
  BY <1>1, <1>3, AnswersOf DEF InHandOK, At
<1>10. (HasAnswer => Answers(d.out))'
  BY <1>1, <1>3, <1>4, AnswersOf DEF InHandOK
<1> QED  BY <1>5, <1>6, <1>7, <1>8, <1>9, <1>10 DEF InHandOK

\* The driver is to take an envelope on, which came from the record or from a client.
LEMMA HandAtDrive ==
  ASSUME log' = log, rt' = rt, d'.pc = "drive", NEW e, d'.res = e, Answers(e),
         \A a \in Agent : Pending(a) => Answers(Reached(a))
  PROVE  InHandOK'
<1>1. \A a \in Agent : (Pending(a)' <=> Pending(a)) /\ Reached(a)' = Reached(a)
  BY TurnsStay
<1>2. \A x : Answers(x)' <=> Answers(x)
  BY StackStays
<1>3. Answers(d.res)'
  BY <1>2, AnswersOf
<1>4. (d.res.to \in Agent /\ Pending(d.res.to) => Answers(Reached(d.res.to)))'
  <2> SUFFICES ASSUME NEW c \in Agent, c = d'.res.to, Pending(d.res.to)'
               PROVE  Answers(Reached(d.res.to))'
    OBVIOUS
  <2>1. Pending(c) /\ Reached(d.res.to)' = Reached(c)
    BY <1>1, TurnAhead
  <2> QED  BY <1>2, <2>1, AnswersOf
<1> QED  BY <1>3, <1>4 DEF InHandOK, At, HasAnswer

\* What a resumption takes up.
LEMMA HandEstablish ==
  ASSUME IInv, CInv, MarkerOK, OnRecordOK, establishRelayState
  PROVE  InHandOK'
<1>1. TypeOK /\ log' = log /\ rt' = rt
  BY DEF IInv, Shape, establishRelayState, store
<1>2. CASE d'.pc = "drive" /\ d'.res = Bootstrap
  <2>1. Answers(Bootstrap)
    BY ClientAwaits DEF Asker, Bootstrap, ClientMessage
  <2> QED  BY <1>1, <1>2, <2>1, HandAtDrive DEF OnRecordOK
<1>3. CASE /\ d'.pc = "drive" /\ ~Canceled
           /\ \E a \in Agent : Leads(a) /\ Whole(a) /\ d'.res = Before(a).env
  <2>1. PICK e : e = d'.res /\ Answers(e)
    BY <1>3 DEF OnRecordOK
  <2> QED  BY <1>1, <1>3, <2>1, HandAtDrive DEF OnRecordOK
<1>4. CASE d'.pc = "exec" /\ d'.inputs = FALSE
  <2>1. PICK c \in Agent : c = d'.conv
    <3>1. d' \in DriverSet
      BY TypeStep DEF IInv, TypeOK, DriverSet, Next, Drive
    <3> QED  BY <3>1 DEF DriverSet
  <2>2. (Pending(c)' <=> Pending(c)) /\ Reached(c)' = Reached(c)
    BY <1>1, TurnsStay
  <2>3. (Pending(d.conv)' <=> Pending(c)) /\ Reached(d.conv)' = Reached(c)
    BY <2>1, <2>2, TurnOf
  <2>4. Pending(c) => Answers(Reached(d.conv))'
    BY <1>1, <2>3, StackStays, AnswersOf DEF OnRecordOK
  <2> QED  BY <1>4, <2>3, <2>4 DEF InHandOK, At, HasAnswer
<1> QED  BY <1>2, <1>3, <1>4, EstablishReads

\* execA2A's message is the envelope it was given.
LEMMA HandDeliver ==
  ASSUME Shape, MintedOK, InHandOK, execA2A
  PROVE  InHandOK'
<1>1. /\ TypeOK /\ log' = log /\ rt' = rt /\ d.res.to \in Agent /\ At("drive")
      /\ Asker(d'.msg) = Asker(d.res) /\ d'.msg.corr = d.res.corr /\ d'.msg.caller = d.res.caller
  BY DeliverFresh DEF Shape, execA2A
<1>2. d'.pc = "exec" /\ d'.conv = d.res.to
  BY <1>1, DeliverEffect
<1>3. PICK c \in Agent : c = d.res.to
  BY <1>1
<1>4. (Pending(d.conv)' <=> Pending(c)) /\ Reached(d.conv)' = Reached(c)
  BY <1>1, <1>2, <1>3, TurnsStay, TurnOf
<1>5. Pending(c) => Answers(Reached(d.conv))'
  BY <1>1, <1>3, <1>4, StackStays, AnswersOf DEF InHandOK
<1>6. PICK e : e = d'.msg
  OBVIOUS
<1>7. Answers(e)
  BY <1>1, <1>6 DEF InHandOK, Answers
<1>8. Answers(d.msg)'
  BY <1>1, <1>6, <1>7, StackStays, AnswersOf
<1> QED  BY <1>2, <1>4, <1>5, <1>8 DEF InHandOK, At, HasAnswer

\* Exec takes up the pending turn or the message.
LEMMA HandExec ==
  ASSUME Shape, InHandOK, Exec
  PROVE  InHandOK'
<1>1. /\ TypeOK /\ log' = log /\ rt' = rt /\ At("exec") /\ d.conv \in Agent /\ d.msg \in Envelope
      /\ "driver" \in Writer /\ "input" \in Kind
  BY DEF Shape, TypeOK, Exec, store, Writer, Kind
<1>2. PICK label \in {"run", "logging"} :
          /\ Goto(label)
          /\ label = "run" => Pending(d.conv)
          /\ label = "logging" => /\ ~Pending(d.conv) /\ d.inputs
                                  /\ Begin("driver", d.conv, "input", d.msg)
  BY DEF Exec
<1>3. /\ d'.pc = label /\ d'.conv = d.conv /\ d'.msg = d.msg /\ d'.inputs = d.inputs
      /\ d'.revived = d.revived
  BY <1>1, <1>2, GotoEffect DEF SameSession
<1>4. Reached(d.conv)' = Reached(d.conv)
  BY <1>1, <1>3, SameTurn
<1>5. CASE label = "run"
  <2>1. Answers(Reached(d.conv))'
    BY <1>1, <1>2, <1>4, <1>5, StackStays, AnswersOf DEF InHandOK, At
  <2> QED  BY <1>3, <1>5, <2>1 DEF InHandOK, At, HasAnswer
<1>6. CASE label = "logging"
  <2>1. Answers(d.msg)'
    BY <1>1, <1>2, <1>3, <1>6, StackStays, AnswersOf DEF InHandOK
  <2>2. wr'["driver"].kind = "input"
    BY <1>1, <1>2, <1>6, BeginEffect
  <2> QED  BY <1>3, <1>6, <2>1, <2>2 DEF InHandOK, At, HasAnswer
<1> QED  BY <1>5, <1>6

\* A turn leaves its answer on top of the stack.
LEMMA HandRun ==
  ASSUME Shape, AddressOK, SaidOK, TokensOK, TurnOK, Linked(Blocked), InHandOK, Run
  PROVE  Linked(Blocked)' /\ InHandOK'
<1>1. At("run") /\ Pending(d.conv) /\ Answers(Reached(d.conv))
  BY DEF Run, TurnOK, InHandOK, At
<1>2. d'.pc = "commit" /\ d.conv \in Agent /\ rt'[d.conv].out = d'.out
  BY TurnEffect
<1>3. Linked(Blocked)' /\ Answers(d.out)'
  <2>1. CASE Ran(d.conv)
    <3>1. rt' = rt
      BY <2>1, RunStack
    <3>2. d'.out = Reached(d.conv)
      BY <1>2, <2>1, <3>1 DEF Reached
    <3> QED  BY <1>1, <3>1, <3>2, StackStays, AnswersOf
  <2>2. CASE ~Ran(d.conv)
    <3>1. Answers(PendingMessage(d.conv))
      BY <1>1, <2>2 DEF Reached
    <3> QED  BY <2>2, <3>1, RunStack
  <2> QED  BY <2>1, <2>2
<1> QED  BY <1>2, <1>3 DEF InHandOK, At, HasAnswer

\* The answer stays in hand while it is logged.
LEMMA HandCommit ==
  ASSUME Shape, InHandOK, Commit
  PROVE  InHandOK'
<1>1. /\ TypeOK /\ rt' = rt /\ At("commit") /\ d.conv \in Agent /\ d.out \in Envelope
      /\ "driver" \in Writer /\ NoEnvelope \in Envelope /\ "done" \in Kind /\ "output" \in Kind
  BY InitialRecords DEF Shape, TypeOK, Commit, Writer, Kind
<1>2. d'.pc = "logging" /\ d'.out = d.out
  BY <1>1, GotoEffect DEF Commit
<1>3. wr'["driver"].kind \in {"output", "done"}
  <2>1. CASE Begin("driver", d.conv, "done", NoEnvelope)
    BY <1>1, <2>1, BeginEffect
  <2>2. CASE Begin("driver", d.conv, "output", d.out)
    BY <1>1, <2>2, BeginEffect
  <2> QED  BY <2>1, <2>2 DEF Commit
<1>4. Answers(d.out)'
  BY <1>1, <1>2, StackStays, AnswersOf DEF InHandOK, HasAnswer, At
<1> QED  BY <1>2, <1>3, <1>4 DEF InHandOK, At, HasAnswer

\* The INSERT makes the message the pending turn's, or keeps the answer in hand.
LEMMA HandLogged ==
  ASSUME Shape, TokensOK, TurnOK, InHandOK, Logged
  PROVE  InHandOK'
<1>1. /\ TypeOK /\ rt' = rt /\ At("logging") /\ wr["driver"].pc = "insert"
      /\ wr["driver"].conv = d.conv /\ "driver" \in Writer /\ NoEnvelope \in Envelope
      /\ "done" \in Kind
  BY InitialRecords DEF Shape, WriterOK, Logged, Writer, Kind
<1>2. PICK c \in Agent : c = d.conv
  BY <1>1 DEF TypeOK
<1>3. PICK kind \in {"input", "output", "done"} : kind = wr["driver"].kind
  BY <1>1 DEF TurnOK
<1>4. /\ kind = "input" => Answers(d.msg) /\ ~Pending(c)
      /\ kind # "input" => Answers(d.out) /\ Pending(c) /\ Ran(c) /\ d.out = rt[c].out
  BY <1>1, <1>2, <1>3 DEF TurnOK, InHandOK, HasAnswer, At
<1>5. CASE Goto("exec") /\ log' = log
  <2>1. d'.pc = "exec" /\ d'.conv = d.conv /\ d'.msg = d.msg
    BY <1>1, <1>5, GotoEffect
  <2>2. (Pending(d.conv)' <=> Pending(c)) /\ Reached(d.conv)' = Reached(c)
    BY <1>1, <1>2, <1>5, <2>1, TurnsStay, TurnOf
  <2>3. Pending(c) => Answers(Reached(d.conv))'
    <3>1. kind # "input" => Reached(c) = d.out
      BY <1>4 DEF Reached
    <3> QED  BY <1>1, <1>4, <2>2, <3>1, StackStays, AnswersOf
  <2>4. ~Pending(c) => Answers(d.msg)'
    BY <1>1, <1>4, <2>1, StackStays, AnswersOf
  <2> QED  BY <2>1, <2>2, <2>3, <2>4 DEF InHandOK, At, HasAnswer
<1>6. CASE /\ Insert("driver") /\ kind = "input" /\ Goto("run")
  <2>1. d'.pc = "run" /\ d'.conv = c
    BY <1>1, <1>2, <1>6, GotoEffect
  <2>2. wr["driver"].env = d.msg /\ d.msg.step # 0 /\ d.msg.step \notin Used(c)
    BY <1>1, <1>2, <1>3, <1>6, InputIsMessage
  <2>3. PendingMessage(c)' = d.msg
    BY <1>1, <1>2, <1>3, <1>6, <2>2, InsertTurns
  <2>4. ~Ran(c)'
    BY <1>1, <2>2, <2>3 DEF Ran, TokensOK
  <2>5. Reached(d.conv)' = d.msg
    BY <2>1, <2>3, <2>4, TurnOf DEF Reached
  <2>6. Answers(Reached(d.conv))'
    BY <1>1, <1>4, <1>6, <2>5, StackStays, AnswersOf
  <2> QED  BY <2>1, <2>6 DEF InHandOK, At, HasAnswer
<1>7. CASE kind = "output" /\ d' = d /\ Begin("driver", d.conv, "done", NoEnvelope)
  <2>1. wr'["driver"].kind = "done" /\ d'.pc = "logging" /\ d'.out = d.out
    BY <1>1, <1>2, <1>7, BeginEffect DEF At
  <2>2. Answers(d.out)'
    BY <1>1, <1>4, <1>7, <2>1, StackStays, AnswersOf
  <2> QED  BY <2>1, <2>2 DEF InHandOK, At, HasAnswer
<1>8. CASE kind = "done" /\ Goto("record")
  <2>1. d'.pc = "record" /\ d'.out = d.out
    BY <1>1, <1>8, GotoEffect
  <2>2. Answers(d.out)'
    BY <1>1, <1>4, <1>8, <2>1, StackStays, AnswersOf
  <2> QED  BY <2>1, <2>2 DEF InHandOK, At, HasAnswer
<1> QED  BY <1>3, <1>5, <1>6, <1>7, <1>8 DEF Logged

\* The message that was not answered is a client's.
LEMMA HandRetry ==
  ASSUME Shape, SaidOK, TurnOK, ~d.revived, retryMismatch
  PROVE  InHandOK'
<1>1. TypeOK /\ log' = log
  BY DEF Shape, retryMismatch, store
<1>2. /\ d'.pc = "exec" /\ d'.conv = d.conv /\ d'.msg = d.msg /\ d'.inputs = d.inputs
      /\ d'.revived = d.revived
  BY <1>1, RetryEffect
<1>3. ~Pending(d.conv)'
  BY <1>1, <1>2, SameTurn, AnotherTurn
<1>4. Answers(d.msg)'
  BY <1>2, AnotherTurn, ClientAwaits, AnswersOf
<1> QED  BY <1>2, <1>3, <1>4 DEF InHandOK, At, HasAnswer

\* The answer is taken on.
LEMMA HandRecord ==
  ASSUME IInv, CInv, RInv, MarkerOK, InHandOK, ~d.revived, recordTaskStatus
  PROVE  InHandOK'
<1>1. TypeOK /\ log' = log /\ rt' = rt /\ At("record")
  BY DEF IInv, Shape, recordTaskStatus
<1>2. d'.pc \in {"drive", "cleanup"} /\ d'.res = d.out
  BY <1>1, RecordEffect
<1>3. CASE d'.pc = "drive"
  <2>1. Answers(d.out)
    BY <1>1 DEF InHandOK, HasAnswer, At
  <2>2. \A a \in Agent : ~Pending(a)
    BY <1>3, RecordRuns
  <2> QED  BY <1>1, <1>2, <1>3, <2>1, <2>2, HandAtDrive
<1>4. CASE d'.pc = "cleanup"
  BY <1>4 DEF InHandOK, At, HasAnswer
<1> QED  BY <1>2, <1>3, <1>4

\* So is a client's message.
LEMMA HandContinue ==
  ASSUME Shape, OnRecordOK, continueTask
  PROVE  InHandOK'
<1>1. TypeOK /\ LogOK /\ log' = log /\ rt' = rt
  BY DEF Shape, continueTask, store
<1>2. d'.pc = "drive" /\ d'.res = ClientMessage(d'.first)
  BY <1>1, StartEffect
<1>3. PICK e : e = d'.res
  OBVIOUS
<1>4. Answers(e)
  BY <1>2, <1>3, ClientAwaits DEF Asker, ClientMessage
<1> QED  BY <1>1, <1>2, <1>3, <1>4, HandAtDrive DEF OnRecordOK

----------------------------------------------------------------------------
(* What a resumption reads. *)

\* In the middle of a turn a resumption finds that turn, and what it has come to is in
\* the driver's hands.
LEMMA MidTurn ==
  /\ TypeOK /\ ChainOK /\ ~Canceled /\ TurnOK /\ InHandOK
  /\ At("run") \/ At("commit") \/ (At("logging") /\ wr["driver"].kind # "input")
  => OnRecordOK
<1> SUFFICES ASSUME TypeOK, ChainOK, ~Canceled, TurnOK, InHandOK,
                    \/ At("run") \/ At("commit")
                    \/ At("logging") /\ wr["driver"].kind # "input"
             PROVE  OnRecordOK
  OBVIOUS
<1>1. PICK c \in Agent : c = d.conv
  BY DEF TypeOK
<1>2. Leads(c) /\ ~Whole(c)
  BY <1>1 DEF ChainOK, AtRun, AtCommit, AtLogging, At
<1>3. \A a \in Agent : a # c => Whole(a) /\ ~Pending(a)
  BY <1>2, WholeIsNotPending DEF Leads
<1>4. Pending(c) => Answers(Reached(c))
  <2>1. CASE At("run")
    BY <1>1, <2>1 DEF InHandOK, At
  <2>2. CASE HasAnswer
    <3>1. Reached(c) = d.out
      BY <1>1, <2>2 DEF TurnOK, Reached
    <3> QED  BY <2>2, <3>1 DEF InHandOK
  <2> QED  BY <2>1, <2>2 DEF HasAnswer, At
<1>5. \A a \in Agent : ~(Leads(a) /\ Whole(a))
  BY <1>2 DEF Leads
<1> QED  BY <1>3, <1>4, <1>5 DEF OnRecordOK

\* At its end a resumption finds the answer.
LEMMA TurnEnds ==
  /\ TypeOK /\ ChainOK /\ ~Canceled /\ InHandOK
  /\ At("record") /\ Before(d.conv).env = d.out
  => OnRecordOK
<1> SUFFICES ASSUME TypeOK, ChainOK, ~Canceled, InHandOK, At("record"),
                    Before(d.conv).env = d.out
             PROVE  OnRecordOK
  OBVIOUS
<1>1. PICK c \in Agent : c = d.conv
  BY DEF TypeOK
<1>2. Leads(c) /\ Whole(c) /\ AllWhole /\ ShapeOfLog
  BY <1>1, LeaderWhole DEF ChainOK, AtRecord
<1>3. \A a \in Agent : ~Pending(a)
  BY <1>2, WholeIsNotPending DEF AllWhole
<1>4. Answers(d.out)
  BY DEF InHandOK, HasAnswer, At
<1>5. \A a \in Agent : Leads(a) => a = c
  BY <1>2, OneLeader
<1> QED  BY <1>1, <1>3, <1>4, <1>5 DEF OnRecordOK

\* Steps that change neither the log nor a runtime.
LEMMA RecordKept ==
  ASSUME log' = log, rt' = rt, OnRecordOK
  PROVE  OnRecordOK'
<1>1. \A a \in Agent : (Pending(a)' <=> Pending(a)) /\ Reached(a)' = Reached(a)
  BY TurnsStay
<1>2. \A a \in Agent : /\ (Leads(a)' <=> Leads(a)) /\ (Whole(a)' <=> Whole(a))
                       /\ Before(a)' = Before(a)
  BY SameLog
<1>3. (Canceled' <=> Canceled) /\ \A e : Answers(e)' <=> Answers(e)
  BY SameLog, StackStays
<1>4. ASSUME NEW a \in Agent, Pending(a)' PROVE Answers(Reached(a))'
  <2>1. Answers(Reached(a))
    BY <1>1, <1>4 DEF OnRecordOK
  <2>2. PICK e : e = Reached(a) /\ e = Reached(a)'
    BY <1>1
  <2>3. Answers(Reached(a))' <=> Answers(e)'
    BY <2>2 DEF Answers, OnTop, AwaitedIn, Asker
  <2> QED  BY <1>3, <2>1, <2>2, <2>3
<1>5. ASSUME NEW a \in Agent, ~Canceled', Leads(a)', Whole(a)' PROVE Answers(Before(a).env)'
  <2>1. Answers(Before(a).env)
    BY <1>2, <1>3, <1>5 DEF OnRecordOK
  <2>2. PICK e : e = Before(a).env /\ e = Before(a)'.env
    BY <1>2
  <2>3. Answers(Before(a).env)' <=> Answers(e)'
    BY <2>2 DEF Answers, OnTop, AwaitedIn, Asker
  <2> QED  BY <1>3, <2>1, <2>2, <2>3
<1> QED  BY <1>4, <1>5 DEF OnRecordOK

\* A marker that is inserted hides the turn that was completed last, and no other.
LEMMA RecordMarked ==
  ASSUME Shape, OnRecordOK, Same
  PROVE  OnRecordOK'
<1>1. CASE log' = log
  BY <1>1, RecordKept DEF Same
<1>2. CASE Insert("marker") /\ wr["marker"].pc = "insert"
  <2>1. TypeOK /\ LogOK /\ rt' = rt /\ "marker" \in Writer /\ wr["marker"].kind = "marker"
    BY <1>2 DEF Shape, WriterOK, Same, Writer
  <2>2. Canceled'
    <3>1. PICK c \in Agent : c = wr["marker"].conv
      BY <1>2, <2>1, InsertEffect
    <3>2. PICK n \in Nat : n = Len(log[c])
      BY <2>1, ConvIs
    <3>3. /\ log' \in [Agent -> Seq(Event)] /\ Len(log'[c]) = n + 1
          /\ log'[c][n + 1] = [ss |-> wr["marker"].ss, kind |-> "marker", env |-> wr["marker"].env]
      BY <1>2, <2>1, <3>1, <3>2, InsertEffect
    <3>4. n + 1 \in DOMAIN log'[c] /\ log'[c][n + 1].kind = "marker"
      BY <3>3
    <3> QED  BY <3>4 DEF Canceled
  <2>3. ASSUME NEW a \in Agent, Pending(a)' PROVE Answers(Reached(a))'
    <3>1. Pending(a) /\ Reached(a)' = Reached(a)
      BY <2>1, <2>3, SameTurns, TurnHasInput
    <3>2. PICK e : e = Reached(a) /\ e = Reached(a)'
      BY <3>1
    <3>3. Answers(Reached(a))' <=> Answers(e)'
      BY <3>2 DEF Answers, OnTop, AwaitedIn, Asker
    <3> QED  BY <2>1, <3>1, <3>2, <3>3, StackStays DEF OnRecordOK
  <2> QED  BY <2>2, <2>3 DEF OnRecordOK
<1> QED  BY <1>1, <1>2 DEF Same

\* The driver's INSERT in a session that runs.
LEMMA RecordLogged ==
  ASSUME IInv, CInv, SInv, TypeOK', ChainOK', ~Canceled', TurnOK', InHandOK', ~Canceled,
         sess = "RUNNING", Logged
  PROVE  OnRecordOK' \/ log' = log
<1>1. /\ TypeOK /\ rt' = rt /\ At("logging") /\ wr["driver"].pc = "insert" /\ ChainOK
      /\ wr["driver"].conv = d.conv /\ "driver" \in Writer /\ NoEnvelope \in Envelope
      /\ "done" \in Kind /\ TurnOK
  BY InitialRecords DEF IInv, Shape, CInv, SInv, WriterOK, Logged, Writer, Kind
<1>2. PICK c \in Agent : c = d.conv
  BY <1>1 DEF TypeOK
<1>3. CASE log' = log
  BY <1>3
<1>4. CASE wr["driver"].kind = "input" /\ Goto("run")
  <2>1. (At("run"))'
    BY <1>1, <1>4, GotoEffect DEF At
  <2> QED  BY <2>1, MidTurn, PTL
<1>5. CASE d' = d /\ Begin("driver", d.conv, "done", NoEnvelope)
  <2>1. (At("logging") /\ wr["driver"].kind # "input")'
    BY <1>1, <1>2, <1>5, BeginEffect DEF At
  <2> QED  BY <2>1, MidTurn, PTL
<1>6. CASE Insert("driver") /\ wr["driver"].kind = "done" /\ Goto("record")
  <2>1. d'.pc = "record" /\ d'.conv = c /\ d'.out = d.out
    BY <1>1, <1>2, <1>6, GotoEffect
  <2>2. /\ LastOf(c).kind = "output" /\ log[c] # <<>> /\ Agree(c)
    BY <1>1, <1>2, <1>6 DEF ChainOK, AtLogging, Leads
  <2>3. LastOf(c).env = d.out
    BY <1>1, <1>2, <1>6, <2>2 DEF Agree, TurnOK, HasAnswer
  <2>4. Before(c)' = LastOf(c)
    <3>1. log' \in [Agent -> Seq(Event)]
      BY DEF TypeOK
    <3> QED  BY <1>1, <1>2, <1>6, <2>2, <3>1, InsertChain
  <2>5. (At("record") /\ Before(d.conv).env = d.out)'
    BY <2>1, <2>3, <2>4 DEF At, Before
  <2> QED  BY <2>5, TurnEnds, PTL
<1> QED  BY <1>1, <1>3, <1>4, <1>5, <1>6 DEF Logged, TurnOK

----------------------------------------------------------------------------
(* The stack. *)

\* The chain goes on only if it could before.
LEMMA GoesOn ==
  ASSUME Shape, EndOK, SaidOK, [Next]_vars, Going'
  PROVE  Going /\ ~d.revived /\ (rt' = rt \/ Run)
<1>1. TypeOK /\ LogOK /\ ~d'.revived /\ (sess' = "RUNNING" \/ ~Parked')
  BY DEF Shape, Going
<1>2. ~d.revived
  BY <1>1, ReviveMoves
<1>3. CASE cleanupActors
  BY <1>1, <1>3, GotoEffect DEF cleanupActors, EndOK, At, Parked, store
<1>4. CASE sess = "RUNNING" \/ ~Parked
  BY <1>2, <1>3, <1>4, RuntimeMoves DEF Going
<1>5. CASE sess # "RUNNING" /\ Parked
  <2>1. ~Parked'
    BY <1>1, <1>5, SessionEnds, SMTT(40)
  <2>2. ~(establishRelayState \/ execA2A \/ Exec \/ Run \/ Commit \/ Logged
          \/ retryMismatch \/ recordTaskStatus)
    BY <1>5 DEF Parked, establishRelayState, execA2A, Exec, Run, Commit, Logged,
                retryMismatch, recordTaskStatus, At
  <2>3. ~continueTask
    BY <1>1, <1>5, StartEffect
  <2>4. ~Off
    BY <1>5, <2>1 DEF Off, Parked
  <2>5. ~Same
    BY <1>5, <2>1 DEF Same, Parked
  <2> QED  BY <2>2, <2>3, <2>4, <2>5, CallSteps
<1> QED  BY <1>4, <1>5

\* The driver's hands.
LEMMA HandStep ==
  ASSUME IInv, CInv, RInv, SInv, [Next]_vars, Going'
  PROVE  Linked(Blocked)' /\ InHandOK'
<1>1. /\ Shape /\ EndOK /\ SaidOK /\ MintedOK /\ AddressOK /\ TokensOK /\ TurnOK /\ MarkerOK
      /\ TypeOK /\ LogOK
  BY DEF IInv, Shape, CInv, RInv, SInv
<1>2. Going /\ ~d.revived /\ (rt' = rt \/ Run)
  BY <1>1, GoesOn
<1>3. /\ Linked(Blocked) /\ InHandOK
      /\ At("establish") \/ sess = "RUNNING" => OnRecordOK
  BY <1>2 DEF SInv, StackOK
<1>4. CASE Run
  BY <1>1, <1>3, <1>4, HandRun
<1>5. CASE rt' = rt /\ ~Run
  <2>1. Linked(Blocked)'
    BY <1>3, <1>5, StackStays, SMTT(40)
  <2>2. CASE establishRelayState
    BY <1>1, <1>3, <2>1, <2>2, HandEstablish DEF establishRelayState
  <2>3. CASE continueTask
    <3>1. sess = "RUNNING"
      BY <1>1, <2>3, StartEffect DEF Going
    <3> QED  BY <1>1, <1>3, <2>1, <2>3, <3>1, HandContinue
  <2>4. CASE Off
    BY <2>1, <2>4 DEF Off, InHandOK, At, HasAnswer
  <2> QED  BY <1>1, <1>2, <1>3, <1>5, <2>1, <2>2, <2>3, <2>4, CallSteps, HandDeliver, HandExec,
              HandCommit, HandLogged, HandRetry, HandRecord, HandKept
<1> QED  BY <1>2, <1>4, <1>5

\* The stack stays one, with what is under way on top.
LEMMA StackStep ==
  ASSUME IInv, CInv, RInv, SInv, [Next]_vars, IInv', CInv', RInv', TurnOK', MarkerOK'
  PROVE  StackOK'
<1> SUFFICES ASSUME Going'
             PROVE  /\ Linked(Blocked)' /\ InHandOK'
                    /\ (At("establish"))' \/ sess' = "RUNNING" => OnRecordOK'
  BY DEF StackOK
<1>1. /\ Shape /\ EndOK /\ SaidOK /\ MintedOK /\ EndsOK /\ TurnOK /\ MarkerOK /\ TypeOK /\ LogOK
      /\ TypeOK' /\ EndsOK'
  BY DEF IInv, Shape, CInv, RInv, SInv
<1>2. Linked(Blocked)' /\ InHandOK'
  BY HandStep
<1>3. Going /\ ~d.revived /\ (rt' = rt \/ Run)
  BY <1>1, GoesOn
<1>4. At("establish") \/ sess = "RUNNING" => OnRecordOK
  BY <1>3 DEF SInv, StackOK
<1>5. CASE Same
  <2>1. (At("establish"))' \/ sess' = "RUNNING" => At("establish") \/ sess = "RUNNING"
    BY <1>5, SessionEnds DEF Same, At
  <2> QED  BY <1>1, <1>2, <1>4, <1>5, <2>1, RecordMarked
<1>6. CASE ~Same
  <2> SUFFICES ASSUME (At("establish"))' \/ sess' = "RUNNING"
               PROVE  OnRecordOK'
    BY <1>2
  <2>1. sess = "RUNNING" /\ OnRecordOK
    BY <1>1, <1>4, <1>6, ReviveMoves, SessionEnds DEF At
  <2>2. CASE log' = log /\ rt' = rt
    BY <2>1, <2>2, RecordKept
  <2>3. CASE Run \/ Logged
    <3>1. sess' = "RUNNING"
      BY <2>1, <2>3 DEF Run, Logged, store
    <3>2. ~Canceled /\ ~Canceled'
      BY <1>1, <2>1, <3>1 DEF EndsOK, MarkerOK
    <3>3. ChainOK'
      BY <3>2 DEF CInv
    <3>4. CASE Run
      <4>1. (At("commit"))'
        BY <1>1, <3>4, TurnEffect DEF At
      <4> QED  BY <1>1, <1>2, <3>2, <3>3, <4>1, MidTurn, PTL
    <3>5. CASE Logged
      <4>1. rt' = rt
        BY <3>5 DEF Logged
      <4> QED  BY <1>1, <1>2, <2>1, <2>2, <3>2, <3>3, <3>5, <4>1, RecordLogged
    <3> QED  BY <2>3, <3>4, <3>5
  <2>4. CASE appendCancellationMarker
    BY <1>1, <2>1, <2>4 DEF appendCancellationMarker, EndOK
  <2> QED  BY <1>3, <2>2, <2>3, <2>4, LogMoves
<1> QED  BY <1>5, <1>6

----------------------------------------------------------------------------
(* Every behaviour. *)

\* Nothing is blocked, in hand or on record at first.
LEMMA InitSInv == Init => SInv
<1> SUFFICES ASSUME Init PROVE SInv
  OBVIOUS
<1>1. /\ d.pc = "establish" /\ d.inputs = FALSE /\ d.revived = FALSE
      /\ wr["driver"].pc = "idle" /\ wr["marker"].pc = "idle"
  BY DEF Init, Idle, NoAppend, Writer
<1>2. \A a \in Agent : log[a] = <<>> /\ rt[a].waiting = {} /\ rt[a].last = 0
  BY DEF Init, NewRuntime
<1>3. \A a \in Agent : DOMAIN log[a] = {}
  BY <1>2
<1>4. ~Canceled /\ \A a \in Agent : ~Pending(a) /\ ~HasInput(a) /\ ~Leads(a)
  BY <1>2, <1>3 DEF Canceled, Pending, HasInput, Leads
<1>5. TokensOK
  BY <1>2, <1>4 DEF TokensOK
<1>6. TurnOK
  BY <1>1 DEF TurnOK, At, HasAnswer, InTurn
<1>7. Linked(Blocked)
  BY <1>2 DEF Linked, Blocked
<1>8. StackOK
  BY <1>1, <1>4, <1>7 DEF StackOK, InHandOK, OnRecordOK, At, HasAnswer
<1>9. MarkerOK
  BY <1>1, <1>4 DEF MarkerOK
<1> QED  BY <1>5, <1>6, <1>8, <1>9 DEF SInv

\* The calls' invariant is inductive, given the others.
LEMMA CallInvariance == Spec => []SInv
<1>1. IInv /\ CInv /\ RInv /\ SInv /\ [Next]_vars /\ IInv' /\ CInv' /\ RInv' => SInv'
  <2> SUFFICES ASSUME IInv, CInv, RInv, SInv, [Next]_vars, IInv', CInv', RInv'
               PROVE  SInv'
    OBVIOUS
  <2>1. TokensOK'
    BY TokensStep DEF IInv, CInv, RInv, SInv
  <2>2. TurnOK'
    BY TurnStep
  <2>3. MarkerOK'
    BY MarkerStep DEF SInv
  <2>4. StackOK'
    BY <2>2, <2>3, StackStep
  <2> QED  BY <2>1, <2>2, <2>3, <2>4 DEF SInv
<1> QED  BY <1>1, InitSInv, Invariance, ChainInvariance, RowInvariance, PTL DEF Spec

\* An answer that is awaited finds who awaits it, and nobody else.
LEMMA AwaitedIsFound ==
  ASSUME TypeOK, Linked(Blocked), NEW env \in Envelope, Addressed(env), Answers(env)
  PROVE  FindsCaller(env)
<1>1. CASE isTerminalReply(env)
  BY <1>1 DEF FindsCaller, isTerminalReply, Addressed
<1>2. CASE ~isTerminalReply(env) /\ env.reply
  <2>1. env.to \in Agent /\ env.to # Client /\ Asker(env) = env.to
    BY <1>2 DEF isTerminalReply, Envelope, Asker
  <2>2. PICK x \in Agent : x = env.to
    BY <2>1
  <2>3. Blocked[x] = rt[x].waiting
    BY DEF Blocked
  <2>4. PICK w \in rt[x].waiting : w.step = env.corr /\ env.caller = <<x, w.id>>
    BY <2>1, <2>2, <2>3 DEF Answers, OnTop, AwaitedIn
  <2>5. {v \in rt[x].waiting : v.step = env.corr} = {w}
    BY <2>3, <2>4 DEF Linked
  <2>6. {<<x, i.id>> : i \in {w}} = {env.caller}
    BY <2>4
  <2> QED  BY <1>2, <2>2, <2>5, <2>6 DEF FindsCaller
<1>3. CASE ~isTerminalReply(env) /\ ~env.reply
  BY <1>3 DEF FindsCaller
<1> QED  BY <1>1, <1>2, <1>3

\* However calls nest, and wherever checkpointd crashed, the reply in the driver's hands
\* finds exactly the invocation that made the call, until a session that had ended is
\* continued: retryExec never repeats a reply that deliverOnce refuses.
THEOREM RepliesFindTheirCallers == Spec => []ReplyFindsItsCaller
<1>1. IInv /\ RInv /\ SInv => ReplyFindsItsCaller
  <2> SUFFICES ASSUME IInv, RInv, SInv, ~d.revived
               PROVE  /\ At("drive") => FindsCaller(d.res)
                      /\ At("run") /\ rt[d.conv].last # PendingMessage(d.conv).step =>
                             FindsCaller(PendingMessage(d.conv))
    BY DEF ReplyFindsItsCaller
  <2>1. /\ TypeOK /\ LogOK /\ DriverOK /\ AddressOK /\ TurnOK /\ d.res \in Envelope
        /\ d.conv \in Agent
    BY DEF IInv, Shape, RInv, SInv, TypeOK
  <2>2. At("drive") \/ At("run") => Going
    BY DEF Going, Parked, At
  <2>3. ASSUME At("drive") PROVE FindsCaller(d.res)
    <3>1. Linked(Blocked) /\ Answers(d.res) /\ Addressed(d.res)
      BY <2>1, <2>2, <2>3 DEF SInv, StackOK, InHandOK, AddressOK, DriverIsAddressed
    <3> QED  BY <2>1, <3>1, AwaitedIsFound
  <2>4. ASSUME At("run"), rt[d.conv].last # PendingMessage(d.conv).step
        PROVE  FindsCaller(PendingMessage(d.conv))
    <3>1. HasInput(d.conv) /\ Pending(d.conv)
      BY <2>1, <2>4 DEF DriverOK, TurnOK, At
    <3>2. Linked(Blocked) /\ Answers(PendingMessage(d.conv))
      BY <2>2, <2>4, <3>1 DEF SInv, StackOK, InHandOK, Reached, Ran, At
    <3>3. PendingMessage(d.conv) \in Envelope /\ Addressed(PendingMessage(d.conv))
      BY <2>1, <3>1, PendingTyped, MessageIsAddressed
    <3> QED  BY <2>1, <3>2, <3>3, AwaitedIsFound
  <2> QED  BY <2>3, <2>4
<1> QED  BY <1>1, Invariance, RowInvariance, CallInvariance, PTL

----------------------------------------------------------------------------
(***************************************************************************)
(* The client that waits.                                                   *)
(***************************************************************************)
\* A client that was woken by a Task finds its row.  A resumption wakes nobody: the one
\* driver that a client waits for and that starts with the log has found it empty.
ShownOK ==
    /\ WokenFindsRow
    /\ At("down") => ~d.waits
    /\ At("establish") /\ d.waits => \A a \in Agent : log[a] = <<>>

\* A row stays.
LEMMA RowStays ==
  ASSUME TypeOK, [Next]_vars, task.state # "none"
  PROVE  task'.state # "none"
<1>1. CASE recordTaskStatus
  <2>1. task' \in {task, Status(d.out, d.hasTask, d.first)}
    BY <1>1 DEF recordTaskStatus
  <2>2. d.out \in Envelope /\ d.hasTask \in BOOLEAN /\ d.first \in Agent
    BY DEF TypeOK
  <2> QED  BY <2>1, <2>2 DEF Status, reconstructState, TaskData
<1>2. CASE CancelTaskAndSession
  BY <1>2 DEF CancelTaskAndSession
<1>3. CASE Drive /\ ~recordTaskStatus
  BY <1>3, ZenonT(40)
  DEF Drive, establishRelayState, execA2A, Exec, AppendReads, Run, Commit, Logged, retryMismatch,
      Pause, MarkTerminating, cleanupActors, TerminateSession, store
<1>4. CASE Cancel /\ ~CancelTaskAndSession
  BY <1>4 DEF Cancel, cancelAndWait, AppendReads, appendCancellationMarker, ClaimForCleanup, store
<1>5. CASE continueTask \/ CancelTask \/ Crash \/ Resume \/ discoverAndApply \/ storeCards
  BY <1>5 DEF continueTask, CancelTask, Crash, Resume, discoverAndApply, storeCards, store
<1>6. CASE UNCHANGED vars
  BY <1>6 DEF vars, store
<1> QED  BY <1>1, <1>2, <1>3, <1>4, <1>5, <1>6 DEF Next

\* The reply that wakes a client is theFirstAgent's, and is recorded first.
LEMMA RecordWakes ==
  ASSUME TypeOK, AddressOK, recordTaskStatus, d'.shown # d.shown
  PROVE  d'.shown \in TaskData => task'.state # "none"
<1>1. d \in DriverSet /\ d.out \in Envelope /\ At("record")
  BY DEF TypeOK, DriverSet, recordTaskStatus
<1>2. CASE d' = [d EXCEPT !.pc = "cleanup", !.res = d.out]
  BY <1>1, <1>2 DEF DriverSet
<1>3. CASE /\ task' = Status(d.out, d.hasTask, d.first)
           /\ d' = Notify([d EXCEPT !.pc = "drive", !.res = d.out, !.fresh = FALSE,
                                    !.hasTask = task'.state # "none",
                                    !.lost = d.lost /\ task' = task])
  <2>1. PICK b, l : b = (task'.state # "none") /\ l = (d.lost /\ task' = task)
    OBVIOUS
  <2>2. PICK e : e = [d EXCEPT !.pc = "drive", !.res = d.out, !.fresh = FALSE, !.hasTask = b,
                               !.lost = l]
    OBVIOUS
  <2>3. d' = Notify(e)
    BY <1>3, <2>1, <2>2, Zenon
  <2>4. b \in BOOLEAN /\ l \in BOOLEAN
    BY <2>1, Zenon
  <2>5. e \in DriverSet /\ e.res = d.out /\ e.shown = d.shown /\ e.first = d.first
    BY <1>1, <2>2, <2>4 DEF DriverSet, DriverState
  <2>6. qualifies(d.out, d.first) /\ d'.shown = d.out.data
    BY <2>3, <2>5 DEF Notify, DriverSet
  <2>7. d.out.from = d.first
    BY <1>1, <2>6 DEF qualifies, isTerminalReply, AddressOK, DriverIsAddressed, HasAnswer, At,
                      Answer, Addressed
  <2> QED  BY <1>3, <2>6, <2>7 DEF Status, reconstructState, TaskData
<1> QED  BY <1>2, <1>3 DEF recordTaskStatus

\* A driver that starts with the log wakes nobody.
LEMMA EstablishWakes ==
  ASSUME TypeOK, ShownOK, establishRelayState
  PROVE  d'.shown = d.shown /\ d'.pc \in {"drive", "exec"}
<1>1. d \in DriverSet /\ At("establish")
  BY DEF TypeOK, DriverSet, establishRelayState
<1>2. ASSUME NEW e \in DriverSet, e.waits = d.waits, e.shown = d.shown, e.pc = "drive",
             d.waits => ~qualifies(e.res, e.first)
      PROVE  Notify(e).shown = d.shown /\ Notify(e).pc = "drive"
  BY <1>2 DEF Notify
<1>3. CASE d' = Notify([d EXCEPT !.pc = "drive", !.res = Bootstrap, !.fresh = TRUE])
  <2>1. PICK e : e = [d EXCEPT !.pc = "drive", !.res = Bootstrap, !.fresh = TRUE]
    OBVIOUS
  <2>2. /\ e \in DriverSet /\ e.waits = d.waits /\ e.shown = d.shown /\ e.pc = "drive"
        /\ e.res = Bootstrap /\ e.first \in Agent
    BY <1>1, <2>1, InitialRecords DEF DriverSet, DriverState
  <2>3. ~qualifies(e.res, e.first)
    BY <2>2, OwnerAssumption, ClientAssumption
    DEF qualifies, isTerminalReply, Bootstrap, ClientMessage
  <2> QED  BY <1>2, <1>3, <2>1, <2>2, <2>3
<1>4. CASE \E h \in lastHop :
             d' = IF Completed(h[1])
                  THEN Notify([d EXCEPT !.pc = "drive", !.res = EventAt(h[2]).env])
                  ELSE [d EXCEPT !.pc = "exec", !.conv = h[1][1], !.inputs = FALSE]
  <2>1. PICK h \in lastHop :
             d' = IF Completed(h[1])
                  THEN Notify([d EXCEPT !.pc = "drive", !.res = EventAt(h[2]).env])
                  ELSE [d EXCEPT !.pc = "exec", !.conv = h[1][1], !.inputs = FALSE]
    BY <1>4, Zenon
  <2>2. ~d.waits
    <3>1. PICK a \in Agent : \E i \in DOMAIN log[a] : TRUE
      BY LastHopPlaces, PlaceTyped
    <3>2. log[a] # <<>>
      BY <3>1
    <3> QED  BY <1>1, <3>2 DEF ShownOK
  <2>3. PICK e : e = [d EXCEPT !.pc = "drive", !.res = EventAt(h[2]).env]
    OBVIOUS
  <2>4. EventAt(h[2]).env \in Envelope
    BY LastHopPlaces, PlaceTyped DEF Event
  <2>5. e \in DriverSet /\ e.waits = d.waits /\ e.shown = d.shown /\ e.pc = "drive"
    BY <1>1, <2>3, <2>4 DEF DriverSet, DriverState
  <2>6. CASE Completed(h[1])
    BY <1>2, <2>1, <2>2, <2>3, <2>5, <2>6
  <2>7. CASE ~Completed(h[1])
    BY <1>1, <2>1, <2>7 DEF DriverSet
  <2> QED  BY <2>6, <2>7
<1> QED  BY <1>3, <1>4, ZenonT(40) DEF establishRelayState

\* What the other steps do to the client that waits.
LEMMA WaitsMoves ==
  ASSUME Shape, [Next]_vars, ~establishRelayState, ~recordTaskStatus
  PROVE  /\ d'.shown \in {d.shown, "no"}
         /\ \/ d' = d
            \/ d'.pc \notin {"down", "establish"}
            \/ d'.waits = FALSE
            \/ At("down") /\ d'.waits = d.waits
<1>1. TypeOK /\ LogOK /\ d \in DriverSet
  BY DEF Shape, TypeOK, DriverSet
<1>2. CASE d' = d
  BY <1>2
<1>3. CASE \E label : Goto(label) /\ label \notin {"down", "establish"}
  BY <1>1, <1>3 DEF Goto, DriverSet
<1>4. CASE execA2A \/ Run \/ retryMismatch
  BY <1>1, <1>4 DEF execA2A, Run, retryMismatch, DriverSet
<1>5. CASE Exec \/ Commit \/ Logged \/ Pause \/ MarkTerminating \/ cleanupActors \/ TerminateSession
  <2>1. \/ d' = d
        \/ \E label \in {"run", "logging", "record", "exec", "rest", "cleanup", "terminate"} :
               Goto(label)
    BY <1>5 DEF Exec, Commit, Logged, Pause, MarkTerminating, cleanupActors, TerminateSession
  <2> QED  BY <1>2, <1>3, <2>1
<1>6. CASE \E label : Stop(label)
  <2>1. PICK label : Stop(label)
    BY <1>6
  <2>2. PICK l : d' = [Idle EXCEPT !.pc = label, !.revived = d.revived, !.lost = l]
    BY <2>1, Zenon DEF Stop
  <2> QED  BY <2>2 DEF Idle
<1>7. CASE continueTask
  <2>1. PICK x, y, z, u : d' = [Idle EXCEPT !.pc = "drive", !.res = ClientMessage(x),
                                !.first = x, !.fresh = TRUE, !.waits = TRUE, !.lost = y,
                                !.revived = z, !.hasTask = u]
    <3>1. PICK h \in lastHop :
            d' = loadServerSession(
                    [Idle EXCEPT !.pc = "drive", !.res = ClientMessage(EventAt(h[2]).env.from),
                                 !.first = EventAt(h[2]).env.from, !.fresh = TRUE,
                                 !.waits = TRUE, !.lost = d.lost,
                                 !.revived = d.revived \/ sess # "RUNNING"])
      BY <1>7, Zenon DEF continueTask
    <3> QED  BY <3>1, ZenonT(40) DEF loadServerSession
  <2> QED  BY <2>1 DEF Idle
<1>8. CASE ClaimForCleanup
  BY <1>2, <1>8 DEF ClaimForCleanup, Idle
<1>9. CASE Resume
  <2>1. PICK label, u : d' = [d EXCEPT !.pc = label, !.hasTask = u]
    BY <1>9, Zenon DEF Resume, loadServerSession
  <2> QED  BY <1>1, <1>9, <2>1 DEF Resume, DriverSet
<1>10. CASE Drive
  BY <1>2, <1>4, <1>5, <1>10 DEF Drive, AppendReads
<1>11. CASE Cancel
  BY <1>2, <1>6, <1>8, <1>11
  DEF Cancel, cancelAndWait, CancelTaskAndSession, AppendReads, appendCancellationMarker
<1>12. CASE CancelTask \/ Crash \/ discoverAndApply \/ storeCards \/ UNCHANGED vars
  BY <1>2, <1>6, <1>12 DEF CancelTask, Crash, discoverAndApply, storeCards, vars
<1> QED  BY <1>7, <1>9, <1>10, <1>11, <1>12 DEF Next

\* Whatever happens, a client that was woken by a Task finds its row.
LEMMA ShownStep ==
  ASSUME IInv, RInv, MarkerOK, ShownOK, [Next]_vars
  PROVE  ShownOK'
<1>1. Shape /\ TypeOK /\ AddressOK /\ ClaimsOK /\ "no" \notin TaskData
  BY DEF IInv, Shape, RInv, TaskData
<1>2. CASE establishRelayState
  <2>1. d'.shown = d.shown /\ d'.pc \in {"drive", "exec"}
    BY <1>1, <1>2, EstablishWakes
  <2> QED  BY <1>1, <2>1, RowStays DEF ShownOK, WokenFindsRow, At
<1>3. CASE recordTaskStatus
  <2>1. d'.pc \in {"drive", "cleanup"}
    BY <1>1, <1>3, RecordEffect
  <2>2. d'.shown \in TaskData => task'.state # "none"
    BY <1>1, <1>3, RecordWakes, RowStays DEF ShownOK, WokenFindsRow
  <2> QED  BY <2>1, <2>2 DEF ShownOK, WokenFindsRow, At
<1>4. CASE ~establishRelayState /\ ~recordTaskStatus
  <2>1. WokenFindsRow'
    BY <1>1, <1>4, WaitsMoves, RowStays DEF ShownOK, WokenFindsRow
  <2>2. CASE d' = d
    <3>1. ASSUME At("establish"), d.waits, NEW a \in Agent
          PROVE  log'[a] = <<>>
      <4>1. log[Owner] = <<>> /\ log[a] = <<>>
        BY <3>1, OwnerAssumption DEF ShownOK
      <4>2. ~OwnerClaims(TaskData)
        BY <4>1 DEF OwnerClaims
      <4>3. cx.pc = "idle"
        BY <1>1, <4>2 DEF ClaimsOK
      <4>4. log' = log
        BY <3>1, <4>3, LogMoves DEF Logged, appendCancellationMarker, At
      <4> QED  BY <4>1, <4>4
    <3> QED  BY <2>1, <2>2, <3>1 DEF ShownOK, At
  <2>3. CASE d'.pc \notin {"down", "establish"} \/ d'.waits = FALSE
    BY <2>1, <2>3 DEF ShownOK, At
  <2>4. CASE At("down") /\ d'.waits = d.waits
    BY <2>1, <2>4 DEF ShownOK, At
  <2> QED  BY <1>1, <1>4, <2>2, <2>3, <2>4, WaitsMoves
<1> QED  BY <1>2, <1>3, <1>4

\* At first nobody was woken.
LEMMA InitShown == Init => ShownOK
<1> SUFFICES ASSUME Init PROVE ShownOK
  OBVIOUS
<1>1. d.pc = "establish" /\ d.shown = "no" /\ \A a \in Agent : log[a] = <<>>
  BY DEF Init, Idle
<1> QED  BY <1>1 DEF ShownOK, WokenFindsRow, At, TaskData

\* A client that is woken by a Task finds its row, however the loop goes on meanwhile,
\* crashes, is resumed, continued or canceled: awaitOrSubmit never takes the Task for a
\* bare Message.
THEOREM WokenByARow == Spec => []WokenFindsRow
<1>1. ShownOK /\ IInv /\ RInv /\ SInv /\ [Next]_vars => ShownOK'
  BY ShownStep DEF SInv
<1>2. ShownOK => WokenFindsRow
  BY DEF ShownOK
<1> QED  BY <1>1, <1>2, InitShown, Invariance, RowInvariance, CallInvariance, PTL DEF Spec
=============================================================================
