----------------------------- MODULE TurnProofs -----------------------------
(***************************************************************************)
(* Theorems about Turn, for every set of StepIDs and outputs and any number *)
(* of faults.  An acknowledged write is assumed (AckLoss = FALSE): what a    *)
(* lost acknowledgement does is the subject of a run of its own.            *)
(***************************************************************************)
EXTENDS Turn, SequenceTheorems, TLAPS

-----------------------------------------------------------------------------
(***************************************************************************)
(* The inductive invariant.                                                 *)
(***************************************************************************)

\* Does the log end inside a turn, and in which one?
IsPending(l) == Len(l) % 3 # 0
Current(l) == InputOf(l, Turns(l))
Fresh(l, s) == \A k \in 1..Turns(l) : InputOf(l, k) # s

\* A memory agrees with the log, and the runtime's dedup with that memory.
MemoryOK(l, m) ==
    /\ Remembers(l, m)
    /\ Len(m.work) <= Turns(l)
    /\ \A k \in 1..Len(m.work) : m.work[k].step = InputOf(l, k)
    /\ m.out # Failed /\ m.work = <<>> => m.last = NoStep
    /\ m.out # Failed /\ m.work # <<>> =>
           m.work[Len(m.work)] = [step |-> m.last, out |-> m.out]
    /\ m.out = Failed =>
           IsPending(l) /\ m.last = Current(l) /\ Len(m.work) = Completed(l)
    /\ \A s \in m.inFlight :
           IsPending(l) /\ s = Current(l) /\ m.last # s /\ Len(m.work) = Completed(l)

\* A memory at rest: nothing in flight, no memoised error.
AtRest(m) == m.inFlight = {} /\ m.out # Failed

SnapshotOK == MemoryOK(log, snap) /\ AtRest(snap)

\* A live memory only adds to what the snapshot holds.
Continues(m, old) ==
    /\ Len(old.work) <= Len(m.work)
    /\ \A k \in 1..Len(old.work) : m.work[k] = old.work[k]

LiveOK ==
    /\ astate \in {"RUNNING", "SUSPENDING"} => MemoryOK(log, mem) /\ Continues(mem, snap)
    /\ astate = "SUSPENDING" => AtRest(mem)

\* The driver works on the turn the log has open, or on a fresh one.
RequestOK ==
    /\ pc # "idle" =>
           /\ req \in StepID
           /\ IsPending(log) => req = Current(log)
           /\ ~IsPending(log) => inputs /\ Fresh(log, req)
    /\ pc \notin {"idle", "exec"} => turn = req
    /\ pc = "log" => ~IsPending(log)
    /\ pc \in {"run", "await", "checkpoint", "suspend", "commit", "complete"} => IsPending(log)
    /\ pc = "complete" => Len(log) % 3 = 2

\* What the driver knows of the actor between Start and commit.
Holds(m) == m.last = turn /\ m.out = buf.out

AttemptOK ==
    /\ pc \in {"dial", "log", "run", "await", "checkpoint"} =>
           astate \in {"RUNNING", "CRASHED"} /\ pre = uri
    /\ pc \in {"checkpoint", "suspend", "commit", "complete"} =>
           buf \in Envelope /\ buf.step = turn
    /\ pc = "checkpoint" /\ astate = "RUNNING" => Holds(mem)
    /\ pc = "suspend" =>
           /\ astate \in {"SUSPENDING", "SUSPENDED", "CRASHED"}
           /\ astate = "SUSPENDING" => pre = uri /\ Holds(mem)
           /\ astate = "SUSPENDED" /\ uri # pre => Holds(snap)
    /\ pc \in {"commit", "complete"} => astate = "SUSPENDED" /\ Holds(snap)

IInv ==
    /\ TypeOK /\ LoggedOnce(log) /\ SnapshotOK /\ LiveOK /\ RequestOK /\ AttemptOK

-----------------------------------------------------------------------------
(***************************************************************************)
(* What logger reads out of a well-formed log.                              *)
(***************************************************************************)

\* The counts of inputs, outputs and completions of a log, by its length.
LEMMA Counting ==
    ASSUME NEW l \in Seq(Event)
    PROVE  /\ Turns(l) \in Nat /\ Replies(l) \in Nat /\ Completed(l) \in Nat
           /\ Len(l) % 3 = 0 =>
                  Len(l) = 3 * Completed(l) /\ Turns(l) = Completed(l) /\ Replies(l) = Completed(l)
           /\ Len(l) % 3 = 1 =>
                  Len(l) = 3 * Completed(l) + 1 /\ Turns(l) = Completed(l) + 1 /\ Replies(l) = Completed(l)
           /\ Len(l) % 3 = 2 =>
                  Len(l) = 3 * Completed(l) + 2 /\ Turns(l) = Completed(l) + 1 /\ Replies(l) = Completed(l) + 1
           /\ Len(l) % 3 \in {0, 1, 2}
  BY DEF Turns, Replies, Completed

\* ResumptionState tells whether the log ends inside a turn.
LEMMA ResumptionStateOK ==
    ASSUME NEW l \in Seq(Event), LoggedOnce(l)
    PROVE  (ResumptionState(l) = "PENDING") <=> IsPending(l)
  <1>1. CASE Len(l) % 3 = 0
    <2>1. CASE l = <<>>
      BY <2>1, <1>1 DEF ResumptionState, IsPending
    <2>2. CASE l # <<>>
      <3>1. Completed(l) \in 1..Completed(l) /\ Len(l) = 3 * Completed(l)
        BY <2>2, <1>1, Counting
      <3>2. l[Len(l)] = CompletedEvent
        BY <3>1 DEF LoggedOnce
      <3>. QED  BY <2>2, <1>1, <3>2 DEF ResumptionState, IsPending, CompletedEvent
    <2>. QED  BY <2>1, <2>2
  <1>2. CASE Len(l) % 3 = 1
    <2>1. Turns(l) \in 1..Turns(l) /\ Len(l) = 3 * Turns(l) - 2
      BY <1>2, Counting
    <2>2. l[3 * Turns(l) - 2] = InputEvent(InputOf(l, Turns(l)))
      BY <2>1 DEF LoggedOnce
    <2>3. l[Len(l)].state = "PENDING"
      BY <2>1, <2>2 DEF InputEvent
    <2>. QED  BY <1>2, <2>1, <2>3 DEF ResumptionState, IsPending
  <1>3. CASE Len(l) % 3 = 2
    <2>1. Replies(l) \in 1..Replies(l) /\ Len(l) = 3 * Replies(l) - 1
      BY <1>3, Counting
    <2>2. l[3 * Replies(l) - 1] = OutputEvent(ReplyOf(l, Replies(l)))
      BY <2>1 DEF LoggedOnce
    <2>3. l[Len(l)].state = "PENDING"
      BY <2>1, <2>2 DEF OutputEvent
    <2>. QED  BY <1>3, <2>1, <2>3 DEF ResumptionState, IsPending
  <1>. QED  BY <1>1, <1>2, <1>3, Counting

\* pendingInputs finds the input of the turn the log ends in.
LEMMA PendingInputsOK ==
    ASSUME NEW l \in Seq(Event), LoggedOnce(l), IsPending(l)
    PROVE  pendingInputs(l) = Current(l) /\ Current(l) \in StepID
  <1>. DEFINE marker == {i \in DOMAIN l : l[i].state = "PENDING" /\ l[i].agent}
              n == 3 * Turns(l) - 2
  <1>0. Len(l) % 3 \in {1, 2} /\ Turns(l) \in Nat /\ Replies(l) \in Nat /\ Len(l) \in Nat
    BY Counting DEF IsPending
  <1>1. Turns(l) \in 1..Turns(l) /\ n \in 1..Len(l) /\ Len(l) \in {n, n + 1}
    <2>1. CASE Len(l) % 3 = 1  BY <1>0, <2>1, Counting
    <2>2. CASE Len(l) % 3 = 2  BY <1>0, <2>2, Counting
    <2>. QED  BY <1>0, <2>1, <2>2
  <1>a. l[n] = InputEvent(InputOf(l, Turns(l)))
    BY <1>1 DEF LoggedOnce
  <1>2. n \in marker
    BY <1>1, <1>a DEF InputEvent
  <1>3. \A j \in marker : j <= n
    <2>. SUFFICES ASSUME NEW j \in marker, j > n PROVE FALSE
      BY <1>1
    <2>1. j = n + 1 /\ Len(l) = n + 1
      BY <1>1
    <2>2. Replies(l) \in 1..Replies(l) /\ j = 3 * Replies(l) - 1
      BY <1>0, <1>1, <2>1, Counting
    <2>3. l[j] = OutputEvent(ReplyOf(l, Replies(l)))
      BY <2>2 DEF LoggedOnce
    <2>. QED  BY <2>3 DEF OutputEvent
  <1>4. (CHOOSE i \in marker : \A j \in marker : j <= i) = n
    <2>1. \A i \in marker : (\A j \in marker : j <= i) => i = n
      <3>. SUFFICES ASSUME NEW i \in marker, \A j \in marker : j <= i PROVE i = n
        OBVIOUS
      <3>0. n <= i /\ i <= n
        BY <1>2, <1>3
      <3>1. n <= i /\ i <= n /\ i \in Int /\ n \in Int
        BY <1>1, <3>0
      <3>. QED  BY <3>1
    <2>. QED  BY <1>2, <1>3, <2>1
  <1>5. pendingInputs(l) = l[n].step
    BY <1>2, <1>4 DEF pendingInputs
  <1>6. InputOf(l, Turns(l)) \in StepID
    BY <1>1 DEF LoggedOnce
  <1>. QED  BY <1>5, <1>6 DEF Current, InputOf

\* The one-element slice of a sequence.
LEMMA SubSeqOne ==
    ASSUME NEW S, NEW l \in Seq(S), NEW i \in 1..Len(l)
    PROVE  SubSeq(l, i, i) = <<l[i]>>
  <1>. DEFINE t == SubSeq(l, i, i)
              u == <<l[i]>>
  <1>1. Len(t) = 1 /\ t[1] = l[i] /\ t \in Seq(S)
    OBVIOUS
  <1>2. Len(u) = 1 /\ u[1] = l[i] /\ u \in Seq(S)
    OBVIOUS
  <1>3. Len(t) = Len(u) /\ \A j \in 1..Len(t) : t[j] = u[j]
    BY <1>1, <1>2
  <1>. HIDE DEF t, u
  <1>4. t = u
    BY <1>1, <1>2, <1>3, SeqEqual, Zenon
  <1>. QED  BY <1>4 DEF t, u

\* pendingOutputs finds the output of that turn, if it is logged.
LEMMA PendingOutputsOK ==
    ASSUME NEW l \in Seq(Event), LoggedOnce(l), IsPending(l)
    PROVE  /\ Len(l) % 3 = 1 => pendingOutputs(l) = <<>>
           /\ Len(l) % 3 = 2 => pendingOutputs(l) = <<OutputEvent(ReplyOf(l, Turns(l)))>>
  <1>. DEFINE isOutput(i) == l[i].state = "PENDING" /\ ~l[i].agent
              ok(i) == (\A j \in i..Len(l) : isOutput(j)) /\ (i = 1 \/ ~isOutput(i - 1))
              first == CHOOSE i \in 1..(Len(l) + 1) : ok(i)
              n == 3 * Turns(l) - 2
  <1>0. Len(l) % 3 \in {1, 2} /\ Turns(l) \in Nat /\ Replies(l) \in Nat /\ Len(l) \in Nat
    BY Counting DEF IsPending
  <1>1. Turns(l) \in 1..Turns(l) /\ n \in 1..Len(l)
    BY <1>0, Counting
  <1>a. l[n] = InputEvent(InputOf(l, Turns(l)))
    BY <1>1 DEF LoggedOnce
  <1>2. ~isOutput(n)
    BY <1>a DEF InputEvent
  <1>3. pendingOutputs(l) = SubSeq(l, first, Len(l))
    BY DEF pendingOutputs
  <1>4. CASE Len(l) % 3 = 1
    <2>1. Len(l) = n
      BY <1>4, Counting
    <2>2. ok(n + 1) /\ n + 1 \in 1..(Len(l) + 1)
      BY <1>1, <1>2, <2>1
    <2>3. \A i \in 1..(Len(l) + 1) : ok(i) => i = n + 1
      BY <1>1, <1>2, <2>1
    <2>4. first = n + 1
      BY <2>2, <2>3
    <2>5. SubSeq(l, n + 1, n) = <<>>
      BY <1>1, SubSeqEmpty
    <2>6. pendingOutputs(l) = <<>>
      BY <1>3, <2>1, <2>4, <2>5
    <2>. QED  BY <1>4, <2>6
  <1>5. CASE Len(l) % 3 = 2
    <2>1. Len(l) = n + 1 /\ Replies(l) = Turns(l)
      BY <1>5, Counting
    <2>2. l[n + 1] = OutputEvent(ReplyOf(l, Turns(l)))
      BY <1>1, <2>1 DEF LoggedOnce
    <2>3. isOutput(n + 1)
      BY <2>2 DEF OutputEvent
    <2>4. ok(n + 1) /\ n + 1 \in 1..(Len(l) + 1)
      BY <1>1, <1>2, <2>1, <2>3
    <2>5. \A i \in 1..(Len(l) + 1) : ok(i) => i = n + 1
      BY <1>1, <1>2, <2>1, <2>3
    <2>6. first = n + 1
      BY <2>4, <2>5
    <2>7. SubSeq(l, n + 1, n + 1) = <<l[n + 1]>>
      <3>1. n + 1 \in 1..Len(l)
        BY <1>1, <2>1
      <3>. QED  BY <3>1, SubSeqOne
    <2>8. pendingOutputs(l) = SubSeq(l, n + 1, n + 1)
      BY <1>3, <2>1, <2>6
    <2>. QED  BY <1>5, <2>2, <2>7, <2>8
  <1>. QED  BY <1>4, <1>5

-----------------------------------------------------------------------------
(***************************************************************************)
(* What each of the three writes does to a well-formed log and to a memory  *)
(* that agrees with it.                                                     *)
(***************************************************************************)

LEMMA AppendInputOK ==
    ASSUME NEW l \in Seq(Event), LoggedOnce(l), ~IsPending(l),
           NEW s \in StepID, Fresh(l, s)
    PROVE  LET k == Append(l, InputEvent(s))
           IN  /\ k \in Seq(Event) /\ LoggedOnce(k)
               /\ Len(k) % 3 = 1 /\ IsPending(k) /\ Current(k) = s
               /\ \A m \in Memory : MemoryOK(l, m) => MemoryOK(k, m) /\ m.last # s
  <1>. DEFINE k == Append(l, InputEvent(s))
  <1>1. k \in Seq(Event)
    BY DEF InputEvent, Event
  <1>2. /\ Len(k) = Len(l) + 1 /\ k[Len(k)] = InputEvent(s)
        /\ \A i \in 1..Len(l) : k[i] = l[i]
    OBVIOUS
  <1>3. Len(l) % 3 = 0 /\ Len(k) % 3 = 1
    BY <1>2 DEF IsPending
  <1>4. /\ Turns(k) = Turns(l) + 1 /\ Replies(k) = Replies(l) /\ Completed(k) = Completed(l)
        /\ Turns(l) \in Nat /\ Replies(l) = Turns(l) /\ Completed(l) = Turns(l)
        /\ Len(l) = 3 * Turns(l)
    BY <1>2, <1>3, Counting DEF Turns, Replies, Completed
  <1>5. /\ \A i \in 1..Turns(l) : InputOf(k, i) = InputOf(l, i) /\ ReplyOf(k, i) = ReplyOf(l, i)
        /\ InputOf(k, Turns(k)) = s
    BY <1>2, <1>4 DEF InputOf, ReplyOf, InputEvent
  <1>6. LoggedOnce(k)
    <2>1. \A i \in 1..Turns(k) : k[3 * i - 2] = InputEvent(InputOf(k, i)) /\ InputOf(k, i) \in StepID
      <3>1. \A i \in 1..Turns(l) : k[3 * i - 2] = InputEvent(InputOf(k, i)) /\ InputOf(k, i) \in StepID
        BY <1>2, <1>4, <1>5 DEF LoggedOnce
      <3>2. k[3 * Turns(k) - 2] = InputEvent(InputOf(k, Turns(k))) /\ InputOf(k, Turns(k)) \in StepID
        BY <1>2, <1>4, <1>5
      <3>. QED  BY <1>4, <3>1, <3>2
    <2>2. \A i \in 1..Replies(k) : k[3 * i - 1] = OutputEvent(ReplyOf(k, i))
                                   /\ ReplyOf(k, i).step = InputOf(k, i)
      BY <1>2, <1>4, <1>5 DEF LoggedOnce
    <2>3. \A i \in 1..Completed(k) : k[3 * i] = CompletedEvent
      BY <1>2, <1>4 DEF LoggedOnce
    <2>4. \A i, j \in 1..Turns(k) : InputOf(k, i) = InputOf(k, j) => i = j
      BY <1>4, <1>5 DEF LoggedOnce, Fresh
    <2>. QED  BY <2>1, <2>2, <2>3, <2>4 DEF LoggedOnce
  <1>7. ASSUME NEW m \in Memory, MemoryOK(l, m)
        PROVE  MemoryOK(k, m) /\ m.last # s
    <2>1. m.work \in Seq(Envelope) /\ Len(m.work) \in Nat
      BY DEF Memory
    <2>2. Len(m.work) = Turns(l)
      BY <1>4, <1>7, <2>1 DEF MemoryOK, Remembers
    <2>3. m.out # Failed /\ m.inFlight = {}
      BY <1>7 DEF MemoryOK
    <2>4. m.last # s
      <3>1. CASE m.work = <<>>
        BY <1>7, <2>3, <3>1, StepAssumption DEF MemoryOK
      <3>2. CASE m.work # <<>>
        <4>1. Len(m.work) \in 1..Len(m.work)
          BY <2>1, <3>2
        <4>2. m.work[Len(m.work)].step = m.last
          BY <1>7, <2>3, <3>2 DEF MemoryOK
        <4>3. m.last = InputOf(l, Turns(l))
          BY <1>7, <2>2, <4>1, <4>2 DEF MemoryOK
        <4>. QED  BY <4>1, <4>3, <2>2 DEF Fresh
      <3>. QED  BY <3>1, <3>2
    <2>5. Remembers(k, m)
      BY <1>4, <1>5, <1>7 DEF MemoryOK, Remembers
    <2>. QED  BY <1>4, <1>5, <1>7, <2>1, <2>2, <2>3, <2>4, <2>5 DEF MemoryOK
  <1>8. IsPending(k) /\ Current(k) = s
    BY <1>3, <1>5 DEF IsPending, Current
  <1>. QED  BY <1>1, <1>3, <1>6, <1>7, <1>8

LEMMA AppendOutputOK ==
    ASSUME NEW l \in Seq(Event), LoggedOnce(l), Len(l) % 3 = 1,
           NEW e \in Envelope, e.step = Current(l)
    PROVE  LET k == Append(l, OutputEvent(e))
           IN  /\ k \in Seq(Event) /\ LoggedOnce(k)
               /\ Len(k) % 3 = 2 /\ IsPending(k) /\ Current(k) = Current(l)
               /\ \A m \in Memory : MemoryOK(l, m) /\ AtRest(m) /\ m.last = e.step /\ m.out = e.out
                     => MemoryOK(k, m)
  <1>. DEFINE k == Append(l, OutputEvent(e))
  <1>0. e.step \in StepID /\ e.out \in Output /\ e = [step |-> e.step, out |-> e.out]
    BY DEF Envelope
  <1>1. k \in Seq(Event)
    BY <1>0 DEF OutputEvent, Event
  <1>2. /\ Len(k) = Len(l) + 1 /\ k[Len(k)] = OutputEvent(e)
        /\ \A i \in 1..Len(l) : k[i] = l[i]
    OBVIOUS
  <1>3. Len(k) % 3 = 2
    BY <1>2
  <1>4. /\ Turns(k) = Turns(l) /\ Replies(k) = Turns(l) /\ Completed(k) = Completed(l)
        /\ Turns(l) \in Nat \ {0} /\ Replies(l) = Turns(l) - 1 /\ Completed(l) = Turns(l) - 1
        /\ Len(l) = 3 * Turns(l) - 2
    BY <1>2, <1>3, Counting DEF Turns, Replies, Completed
  <1>5. /\ \A i \in 1..Turns(l) : InputOf(k, i) = InputOf(l, i)
        /\ \A i \in 1..Replies(l) : ReplyOf(k, i) = ReplyOf(l, i)
        /\ ReplyOf(k, Replies(k)) = e
    BY <1>0, <1>2, <1>4, SMTT(40) DEF InputOf, ReplyOf, OutputEvent
  <1>6. LoggedOnce(k)
    <2>1. \A i \in 1..Turns(k) : k[3 * i - 2] = InputEvent(InputOf(k, i)) /\ InputOf(k, i) \in StepID
      BY <1>2, <1>4, <1>5 DEF LoggedOnce
    <2>2. \A i \in 1..Replies(k) : k[3 * i - 1] = OutputEvent(ReplyOf(k, i))
                                   /\ ReplyOf(k, i).step = InputOf(k, i)
      <3>1. \A i \in 1..Replies(l) : k[3 * i - 1] = OutputEvent(ReplyOf(k, i))
                                     /\ ReplyOf(k, i).step = InputOf(k, i)
        BY <1>2, <1>4, <1>5 DEF LoggedOnce
      <3>2. k[3 * Replies(k) - 1] = OutputEvent(ReplyOf(k, Replies(k)))
        BY <1>2, <1>4, <1>5
      <3>3. ReplyOf(k, Replies(k)).step = InputOf(k, Replies(k))
        BY <1>4, <1>5 DEF Current
      <3>. QED  BY <1>4, <3>1, <3>2, <3>3
    <2>3. \A i \in 1..Completed(k) : k[3 * i] = CompletedEvent
      BY <1>2, <1>4 DEF LoggedOnce
    <2>4. \A i, j \in 1..Turns(k) : InputOf(k, i) = InputOf(k, j) => i = j
      BY <1>4, <1>5 DEF LoggedOnce
    <2>. QED  BY <2>1, <2>2, <2>3, <2>4 DEF LoggedOnce
  <1>7. IsPending(k) /\ Current(k) = Current(l)
    BY <1>3, <1>4, <1>5 DEF IsPending, Current
  <1>8. ASSUME NEW m \in Memory, MemoryOK(l, m), AtRest(m), m.last = e.step, m.out = e.out
        PROVE  MemoryOK(k, m)
    <2>1. m.work \in Seq(Envelope) /\ Len(m.work) \in Nat
      BY DEF Memory
    <2>2. m.work # <<>>
      BY <1>0, <1>8, StepAssumption DEF MemoryOK, AtRest
    <2>3. m.work[Len(m.work)] = e /\ Len(m.work) \in 1..Len(m.work)
      BY <1>0, <1>8, <2>1, <2>2 DEF MemoryOK, AtRest
    <2>4. Len(m.work) = Turns(l)
      BY <1>4, <1>8, <2>1, <2>3 DEF MemoryOK, LoggedOnce, Current
    <2>5. Remembers(k, m)
      <3>1. \A i \in 1..Replies(l) : m.work[i] = ReplyOf(k, i)
        BY <1>5, <1>8 DEF MemoryOK, Remembers
      <3>2. m.work[Replies(k)] = ReplyOf(k, Replies(k))
        BY <1>4, <1>5, <2>3, <2>4
      <3>3. \A i \in 1..Replies(k) : i \in 1..Replies(l) \/ i = Replies(k)
        BY <1>4
      <3>4. Replies(k) <= Len(m.work)
        BY <1>4, <2>4
      <3>. HIDE DEF k
      <3>. QED  BY <3>1, <3>2, <3>3, <3>4 DEF Remembers
    <2>. QED  BY <1>4, <1>5, <1>8, <2>1, <2>4, <2>5 DEF MemoryOK, AtRest
  <1>. QED  BY <1>1, <1>3, <1>6, <1>7, <1>8

LEMMA AppendCompletedOK ==
    ASSUME NEW l \in Seq(Event), LoggedOnce(l), Len(l) % 3 = 2
    PROVE  LET k == Append(l, CompletedEvent)
           IN  /\ k \in Seq(Event) /\ LoggedOnce(k) /\ ~IsPending(k)
               /\ \A m \in Memory : MemoryOK(l, m) /\ AtRest(m) => MemoryOK(k, m)
  <1>. DEFINE k == Append(l, CompletedEvent)
  <1>1. k \in Seq(Event)
    BY DEF CompletedEvent, Event
  <1>2. /\ Len(k) = Len(l) + 1 /\ k[Len(k)] = CompletedEvent
        /\ \A i \in 1..Len(l) : k[i] = l[i]
    OBVIOUS
  <1>3. Len(k) % 3 = 0
    BY <1>2
  <1>4. /\ Turns(k) = Turns(l) /\ Replies(k) = Turns(l) /\ Completed(k) = Turns(l)
        /\ Turns(l) \in Nat \ {0} /\ Replies(l) = Turns(l) /\ Completed(l) = Turns(l) - 1
        /\ Len(l) = 3 * Turns(l) - 1
    BY <1>2, <1>3, Counting DEF Turns, Replies, Completed
  <1>5. \A i \in 1..Turns(l) : InputOf(k, i) = InputOf(l, i) /\ ReplyOf(k, i) = ReplyOf(l, i)
    BY <1>2, <1>4 DEF InputOf, ReplyOf
  <1>6. LoggedOnce(k)
    <2>1. \A i \in 1..Turns(k) : k[3 * i - 2] = InputEvent(InputOf(k, i)) /\ InputOf(k, i) \in StepID
      BY <1>2, <1>4, <1>5 DEF LoggedOnce
    <2>2. \A i \in 1..Replies(k) : k[3 * i - 1] = OutputEvent(ReplyOf(k, i))
                                   /\ ReplyOf(k, i).step = InputOf(k, i)
      BY <1>2, <1>4, <1>5 DEF LoggedOnce
    <2>3. \A i \in 1..Completed(k) : k[3 * i] = CompletedEvent
      BY <1>2, <1>4 DEF LoggedOnce
    <2>4. \A i, j \in 1..Turns(k) : InputOf(k, i) = InputOf(k, j) => i = j
      BY <1>4, <1>5 DEF LoggedOnce
    <2>. QED  BY <2>1, <2>2, <2>3, <2>4 DEF LoggedOnce
  <1>7. ASSUME NEW m \in Memory, MemoryOK(l, m), AtRest(m)
        PROVE  MemoryOK(k, m)
    <2>1. m.work \in Seq(Envelope) /\ Len(m.work) \in Nat
      BY DEF Memory
    <2>2. Remembers(k, m)
      BY <1>4, <1>5, <1>7 DEF MemoryOK, Remembers
    <2>. QED  BY <1>4, <1>5, <1>7, <2>1, <2>2 DEF MemoryOK, AtRest
  <1>8. ~IsPending(k)
    BY <1>3 DEF IsPending
  <1>. QED  BY <1>1, <1>6, <1>7, <1>8

-----------------------------------------------------------------------------
(***************************************************************************)
(* What the runtime's dedup tells of its memory.                            *)
(***************************************************************************)

\* A StepID the history does not hold starts no earlier turn.
LEMMA NotInUseIsFresh ==
    ASSUME NEW l \in Seq(Event), NEW s, ~stepIDInUse(l, s)
    PROVE  Fresh(l, s)
  <1>. SUFFICES ASSUME NEW k \in 1..Turns(l) PROVE InputOf(l, k) # s
    BY DEF Fresh
  <1>1. 3 * k - 2 \in 1..Len(l)
    BY DEF Turns
  <1>. QED  BY <1>1 DEF stepIDInUse, InputOf

\* If the runtime does not remember the open turn, the agent has not done it.
LEMMA NotCarriedOut ==
    ASSUME NEW l \in Seq(Event), LoggedOnce(l), IsPending(l),
           NEW m \in Memory, MemoryOK(l, m), m.last # Current(l)
    PROVE  Len(m.work) = Completed(l)
  <1>1. m.work \in Seq(Envelope) /\ Len(m.work) \in Nat /\ m.out # Failed
    BY DEF Memory, MemoryOK
  <1>2. /\ Completed(l) \in Nat /\ Turns(l) = Completed(l) + 1
        /\ Replies(l) \in Nat /\ Completed(l) <= Replies(l)
    BY Counting DEF IsPending
  <1>3. Completed(l) <= Len(m.work) /\ Len(m.work) <= Turns(l)
    BY <1>1, <1>2 DEF MemoryOK, Remembers
  <1>4. Len(m.work) # Turns(l)
    <2>. SUFFICES ASSUME Len(m.work) = Turns(l) PROVE FALSE
      OBVIOUS
    <2>1. m.work # <<>> /\ Turns(l) \in 1..Len(m.work)
      BY <1>1, <1>2
    <2>2. m.work[Turns(l)] = [step |-> m.last, out |-> m.out]
      BY <1>1, <2>1 DEF MemoryOK
    <2>3. m.work[Turns(l)].step = Current(l)
      BY <2>1 DEF MemoryOK, Current
    <2>. QED  BY <2>2, <2>3
  <1>. QED  BY <1>1, <1>2, <1>3, <1>4

\* If it does, what it repeats is a proper reply.
LEMMA LastIsEnvelope ==
    ASSUME NEW l, NEW m \in Memory, MemoryOK(l, m), m.out # Failed, m.last \in StepID
    PROVE  [step |-> m.last, out |-> m.out] \in Envelope
  <1>1. m.work \in Seq(Envelope)
    BY DEF Memory
  <1>2. m.work # <<>>
    BY StepAssumption DEF MemoryOK
  <1>3. Len(m.work) \in 1..Len(m.work)
    BY <1>1, <1>2
  <1>. QED  BY <1>1, <1>2, <1>3 DEF MemoryOK

-----------------------------------------------------------------------------
(***************************************************************************)
(* The invariant is inductive.                                              *)
(***************************************************************************)
LEMMA InitIInv == Init => IInv
  <1>. SUFFICES ASSUME Init PROVE IInv
    OBVIOUS
  <1>1. log = <<>> /\ log \in Seq(Event) /\ Len(log) = 0
    BY DEF Init
  <1>2. Turns(log) = 0 /\ Replies(log) = 0 /\ Completed(log) = 0
    BY <1>1 DEF Turns, Replies, Completed
  <1>3. FreshMemory \in Memory /\ NoEnvelope \in Envelope \cup {NoEnvelope}
    BY DEF FreshMemory, Memory
  <1>4. TypeOK
    <2>1. inputs \in BOOLEAN /\ buf \in Envelope \cup {NoEnvelope}
      BY Zenon DEF Init
    <2>. QED  BY <1>1, <1>3, <2>1, BoundAssumption DEF Init, TypeOK, PCs, ActorState
  <1>5. LoggedOnce(log)
    BY <1>2 DEF LoggedOnce
  <1>6. MemoryOK(log, FreshMemory) /\ AtRest(FreshMemory)
    BY <1>1, <1>2, OutputAssumption DEF MemoryOK, AtRest, Remembers, FreshMemory
  <1>. QED  BY <1>4, <1>5, <1>6 DEF Init, IInv, SnapshotOK, LiveOK, RequestOK, AttemptOK

LEMMA NextIInv ==
    ASSUME AckLoss = FALSE, IInv, [Next]_vars
    PROVE  IInv'
  <1>. USE BoundAssumption
         DEF PCs, ActorState, substrate, driver, vars, Goto, Proceed, Retry, Fault, NoFault
  <1>0. (ResumptionState(log) = "PENDING") <=> IsPending(log)
    BY ResumptionStateOK DEF IInv, TypeOK
  <1>1. CASE UNCHANGED vars
    BY <1>1 DEF IInv, TypeOK, SnapshotOK, LiveOK, RequestOK, AttemptOK, Holds
  <1>2. CASE revertActor
    BY <1>2 DEF IInv, TypeOK, SnapshotOK, LiveOK, RequestOK, AttemptOK, Holds, revertActor
  <1>3. CASE revertActorFails
    BY <1>3 DEF IInv, TypeOK, SnapshotOK, LiveOK, RequestOK, AttemptOK, Holds, revertActorFails
  <1>4. CASE resumeActor
    BY <1>4 DEF IInv, TypeOK, SnapshotOK, LiveOK, RequestOK, AttemptOK, Holds, resumeActor
  <1>5. CASE resumeActorSuspending
    BY <1>5 DEF IInv, TypeOK, SnapshotOK, LiveOK, RequestOK, AttemptOK, Holds, resumeActorSuspending
  <1>6. CASE resumeActorSuspendingFails
    BY <1>6
       DEF IInv, TypeOK, SnapshotOK, LiveOK, RequestOK, AttemptOK, Holds, resumeActorSuspendingFails
  <1>7. CASE releaseWorker
    BY <1>7
       DEF IInv, TypeOK, SnapshotOK, LiveOK, RequestOK, AttemptOK, Holds, releaseWorker, DeleteWorker
  <1>8. CASE doResumeActorFails
    BY <1>8 DEF IInv, TypeOK, SnapshotOK, LiveOK, RequestOK, AttemptOK, Holds, doResumeActorFails
  <1>9. CASE StartUnreachable
    BY <1>9
       DEF IInv, TypeOK, SnapshotOK, LiveOK, RequestOK, AttemptOK, Holds, StartUnreachable, DeleteWorker
  <1>10. CASE DrainStreamFails
    BY <1>10 DEF IInv, TypeOK, SnapshotOK, LiveOK, RequestOK, AttemptOK, Holds, DrainStreamFails
  <1>11. CASE CheckpointReturns
    BY <1>11 DEF IInv, TypeOK, SnapshotOK, LiveOK, RequestOK, AttemptOK, Holds, CheckpointReturns
  <1>12. CASE CheckpointFails
    BY <1>12 DEF IInv, TypeOK, SnapshotOK, LiveOK, RequestOK, AttemptOK, Holds, CheckpointFails
  <1>13. CASE CallFails
    BY <1>13 DEF IInv, TypeOK, SnapshotOK, LiveOK, RequestOK, AttemptOK, Holds, CallFails
  <1>14. CASE SuspendLost
    BY <1>14 DEF IInv, TypeOK, SnapshotOK, LiveOK, RequestOK, AttemptOK, Holds, SuspendLost
  <1>15. CASE WorkerCrash
    BY <1>15 DEF IInv, TypeOK, SnapshotOK, LiveOK, RequestOK, AttemptOK, Holds, WorkerCrash
  <1>16. CASE Checkpoint
    <2>1. CASE astate # "RUNNING"
      BY <1>16, <2>1 DEF Checkpoint, IInv, TypeOK, SnapshotOK, LiveOK, RequestOK, AttemptOK, Holds
    <2>2. CASE astate = "RUNNING"
      <3>1. /\ MemoryOK(log, mem) /\ Holds(mem) /\ buf \in Envelope
            /\ turn = Current(log) /\ mem \in Memory
        BY <1>16, <2>2 DEF Checkpoint, IInv, TypeOK, LiveOK, RequestOK, AttemptOK
      <3>2. mem.inFlight = {}
        BY <3>1 DEF MemoryOK, Holds, Memory
      <3>3. mem.out # Failed
        BY <3>1, OutputAssumption DEF Holds, Envelope
      <3>4. AtRest(mem)
        BY <3>2, <3>3 DEF AtRest
      <3>. QED  BY <1>16, <2>2, <3>1, <3>4
         DEF Checkpoint, IInv, TypeOK, SnapshotOK, LiveOK, RequestOK, AttemptOK, Holds
    <2>. QED  BY <2>1, <2>2
  <1>17. CASE Crash
    <2>1. inputs' \in BOOLEAN /\ buf' \in Envelope \cup {NoEnvelope}
      BY <1>17, Zenon DEF Crash
    <2>2. /\ UNCHANGED <<log, astate, mem, snap, uri>> /\ pc' = "idle" /\ req' = NoStep
          /\ turn' = NoStep /\ pre' = 0 /\ faults' \in 0..MaxFaults
      BY <1>17 DEF Crash, IInv, TypeOK
    <2>. QED  BY <2>1, <2>2 DEF IInv, TypeOK, SnapshotOK, LiveOK, RequestOK, AttemptOK
  <1>18. CASE establishRelayState
    <2>1. IsPending(log) /\ pendingInputs(log) = Current(log)
      BY <1>0, <1>18, PendingInputsOK DEF establishRelayState, IInv, TypeOK
    <2>2. Current(log) \in StepID
      BY <2>1, PendingInputsOK DEF IInv, TypeOK
    <2>. QED  BY <1>18, <2>1, <2>2
       DEF establishRelayState, IInv, TypeOK, SnapshotOK, LiveOK, RequestOK, AttemptOK, Holds
  <1>19. CASE Exec
    <2>1. IsPending(log) => pendingInputs(log) = Current(log)
      BY PendingInputsOK DEF IInv, TypeOK
    <2>2. turn' = req
      BY <1>0, <1>19, <2>1 DEF Exec, IInv, RequestOK
    <2>. QED  BY <1>19, <2>2 DEF Exec, IInv, TypeOK, SnapshotOK, LiveOK, RequestOK, AttemptOK, Holds
  <1>20. CASE doResumeActor
    <2>1. Continues(snap, snap)
      BY DEF IInv, TypeOK, Memory, Continues
    <2>. QED  BY <1>20, <2>1
       DEF doResumeActor, IInv, TypeOK, SnapshotOK, LiveOK, RequestOK, AttemptOK, Holds
  <1>21. CASE Start
    BY <1>0, <1>21 DEF Start, IInv, TypeOK, SnapshotOK, LiveOK, RequestOK, AttemptOK, Holds
  <1>22. CASE LogInputs
    <2>1. ~IsPending(log) /\ turn = req /\ req \in StepID /\ Fresh(log, req)
      BY <1>22 DEF LogInputs, IInv, RequestOK
    <2>2. log' = Append(log, InputEvent(turn))
      BY <1>22 DEF LogInputs
    <2>3. /\ log' \in Seq(Event) /\ LoggedOnce(log')
          /\ IsPending(log') /\ Current(log') = turn
          /\ \A m \in Memory : MemoryOK(log, m) => MemoryOK(log', m)
      BY <2>1, <2>2, AppendInputOK DEF IInv, TypeOK
    <2>. QED  BY <1>22, <2>1, <2>3
       DEF LogInputs, IInv, TypeOK, SnapshotOK, LiveOK, RequestOK, AttemptOK, Holds
  <1>23. CASE Connect
    <2>1. CASE astate # "RUNNING" \/ mem.last = turn
      BY <1>23, <2>1 DEF Connect, IInv, TypeOK, SnapshotOK, LiveOK, RequestOK, AttemptOK, Holds
    <2>2. CASE astate = "RUNNING" /\ mem.last # turn
      <3>1. mem \in Memory /\ MemoryOK(log, mem) /\ IsPending(log) /\ turn = Current(log) /\ turn \in StepID
        BY <1>23, <2>2 DEF Connect, IInv, TypeOK, LiveOK, RequestOK
      <3>2. mem' = [mem EXCEPT !.inFlight = @ \cup {turn}]
        BY <1>23, <2>2 DEF Connect
      <3>3. mem' \in Memory
        BY <3>1, <3>2 DEF Memory
      <3>4. mem'.last = mem.last /\ mem'.out = mem.out /\ mem'.work = mem.work
            /\ mem'.inFlight = mem.inFlight \cup {turn}
        BY <3>1, <3>2 DEF Memory
      <3>5. Len(mem.work) = Completed(log)
        BY <2>2, <3>1, NotCarriedOut DEF IInv, TypeOK
      <3>6. MemoryOK(log, mem')
        BY <2>2, <3>1, <3>4, <3>5 DEF MemoryOK, Remembers
      <3>7. Continues(mem', snap)
        BY <2>2, <3>4 DEF Continues, IInv, LiveOK
      <3>. QED  BY <1>23, <2>2, <3>3, <3>4, <3>6, <3>7
         DEF Connect, IInv, TypeOK, SnapshotOK, LiveOK, RequestOK, AttemptOK, Holds
    <2>. QED  BY <2>1, <2>2
  <1>24. CASE DrainStream
    <2>1. CASE mem.out = Failed
      BY <1>24, <2>1 DEF DrainStream, IInv, TypeOK, SnapshotOK, LiveOK, RequestOK, AttemptOK, Holds
    <2>2. CASE mem.out # Failed
      <3>1. mem \in Memory /\ MemoryOK(log, mem) /\ turn \in StepID /\ mem.last = turn
        BY <1>24 DEF DrainStream, IInv, TypeOK, LiveOK, RequestOK
      <3>2. [step |-> mem.last, out |-> mem.out] \in Envelope
        BY <2>2, <3>1, LastIsEnvelope
      <3>3. buf' = [step |-> mem.last, out |-> mem.out]
        BY <1>24, <2>2 DEF DrainStream
      <3>4. buf' \in Envelope /\ buf'.step = turn /\ buf'.out = mem.out
        BY <3>1, <3>2, <3>3
      <3>. QED  BY <1>24, <2>2, <3>4
         DEF DrainStream, IInv, TypeOK, SnapshotOK, LiveOK, RequestOK, AttemptOK, Holds
    <2>. QED  BY <2>1, <2>2
  <1>25. CASE commit
    <2>1. /\ IsPending(log) /\ turn = Current(log) /\ astate = "SUSPENDED" /\ Holds(snap)
          /\ buf \in Envelope /\ buf.step = turn
      BY <1>25 DEF commit, IInv, RequestOK, AttemptOK
    <2>2. Len(log) % 3 \in {1, 2}
      BY <2>1, Counting DEF IsPending, IInv, TypeOK
    <2>3. CASE pendingOutputs(log) = <<>>
      <3>0. <<OutputEvent(ReplyOf(log, Turns(log)))>> # <<>>
        OBVIOUS
      <3>1. Len(log) % 3 = 1
        BY <2>1, <2>2, <2>3, <3>0, PendingOutputsOK DEF IInv, TypeOK
      <3>2. log' = Append(log, OutputEvent(buf))
        BY <1>25, <2>3 DEF commit
      <3>3. snap \in Memory /\ MemoryOK(log, snap) /\ AtRest(snap) /\ snap.last = buf.step /\ snap.out = buf.out
        BY <2>1 DEF IInv, TypeOK, SnapshotOK, Holds
      <3>4. /\ log' \in Seq(Event) /\ LoggedOnce(log') /\ Len(log') % 3 = 2
            /\ IsPending(log') /\ Current(log') = Current(log) /\ MemoryOK(log', snap)
        BY <2>1, <3>1, <3>2, <3>3, AppendOutputOK DEF IInv, TypeOK
      <3>. QED  BY <1>25, <2>1, <2>3, <3>4
         DEF commit, IInv, TypeOK, SnapshotOK, LiveOK, RequestOK, AttemptOK, Holds
    <2>4. CASE pendingOutputs(log) # <<>>
      <3>1. Len(log) % 3 = 2
        BY <2>1, <2>2, <2>4, PendingOutputsOK DEF IInv, TypeOK
      <3>. QED  BY <1>25, <2>1, <2>4, <3>1
         DEF commit, IInv, TypeOK, SnapshotOK, LiveOK, RequestOK, AttemptOK, Holds
    <2>. QED  BY <2>3, <2>4
  <1>26. CASE commitCompletes
    <2>1. /\ Len(log) % 3 = 2 /\ IsPending(log) /\ req = Current(log) /\ turn = req
          /\ astate = "SUSPENDED" /\ buf.step = req
      BY <1>26 DEF commitCompletes, IInv, RequestOK, AttemptOK
    <2>2. log' = Append(log, CompletedEvent) /\ pc' = "idle"
      BY <1>26, <2>1 DEF commitCompletes
    <2>3. /\ log' \in Seq(Event) /\ LoggedOnce(log') /\ ~IsPending(log')
          /\ MemoryOK(log', snap)
      BY <2>1, <2>2, AppendCompletedOK DEF IInv, TypeOK, SnapshotOK
    <2>. QED  BY <1>26, <2>1, <2>2, <2>3
       DEF commitCompletes, IInv, TypeOK, SnapshotOK, LiveOK, RequestOK, AttemptOK, Holds
  <1>27. CASE AppendFails
    BY <1>27 DEF AppendFails, IInv, TypeOK, SnapshotOK, LiveOK, RequestOK, AttemptOK, Holds
  <1>28. CASE SuspendCompletes
    BY <1>28 DEF SuspendCompletes, IInv, TypeOK, SnapshotOK, LiveOK, RequestOK, AttemptOK, Holds
  <1>29. ASSUME NEW s \in StepID, execA2A(s)
        PROVE  IInv'
    <2>1. ~IsPending(log) /\ Fresh(log, s)
      BY <1>0, <1>29, NotInUseIsFresh DEF execA2A, IInv, TypeOK
    <2>. QED  BY <1>29, <2>1
       DEF execA2A, IInv, TypeOK, SnapshotOK, LiveOK, RequestOK, AttemptOK, Holds
  <1>30. ASSUME NEW s \in StepID, NEW o \in Output, routeOrAwait(s, o)
        PROVE  IInv'
    <2>1. /\ mem \in Memory /\ MemoryOK(log, mem) /\ astate = "RUNNING" /\ s \in mem.inFlight
          /\ mem.work \in Seq(Envelope) /\ Len(mem.work) \in Nat /\ log \in Seq(Event)
      BY <1>30 DEF routeOrAwait, IInv, TypeOK, LiveOK, Memory
    <2>2. IsPending(log) /\ s = Current(log) /\ Len(mem.work) = Completed(log) /\ mem.last # s
      BY <2>1 DEF MemoryOK
    <2>3. Replies(log) = Completed(log) /\ Turns(log) = Completed(log) + 1 /\ Completed(log) \in Nat
      BY <2>1, <2>2, Counting DEF MemoryOK, Remembers, IsPending
    <2>4. mem' = [last |-> s, out |-> o, inFlight |-> mem.inFlight \ {s},
                  work |-> Append(mem.work, [step |-> s, out |-> o])]
      BY <1>30 DEF routeOrAwait
    <2>5. [step |-> s, out |-> o] \in Envelope
      BY DEF Envelope
    <2>6. mem' \in Memory
      BY <2>1, <2>4, <2>5 DEF Memory
    <2>7. /\ mem'.work \in Seq(Envelope) /\ Len(mem'.work) = Len(mem.work) + 1
          /\ \A k \in 1..Len(mem.work) : mem'.work[k] = mem.work[k]
          /\ mem'.work[Len(mem'.work)] = [step |-> s, out |-> o]
          /\ mem'.last = s /\ mem'.out = o /\ mem'.out # Failed /\ mem'.work # <<>>
      <3>. DEFINE w == mem.work
                  e == [step |-> s, out |-> o]
      <3>1. mem'.work = Append(w, e) /\ mem'.last = s /\ mem'.out = o
        BY <2>4
      <3>2. w \in Seq(Envelope) /\ e \in Envelope
        BY <2>1, <2>5
      <3>. HIDE DEF w, e
      <3>3. /\ Append(w, e) \in Seq(Envelope) /\ Len(Append(w, e)) = Len(w) + 1
            /\ \A k \in 1..Len(w) : Append(w, e)[k] = w[k]
            /\ Append(w, e)[Len(w) + 1] = e /\ Append(w, e) # <<>>
        BY <3>2
      <3>4. o # Failed
        BY OutputAssumption
      <3>. QED  BY <3>1, <3>3, <3>4 DEF w, e
    <2>8. mem'.inFlight = {}
      BY <2>1, <2>2, <2>4 DEF MemoryOK
    <2>9. MemoryOK(log, mem')
      <3>1. Remembers(log, mem')
        BY <2>1, <2>2, <2>3, <2>7 DEF MemoryOK, Remembers
      <3>2. \A k \in 1..Len(mem'.work) : mem'.work[k].step = InputOf(log, k)
        <4>1. \A k \in 1..Len(mem.work) : mem'.work[k].step = InputOf(log, k)
          BY <2>1, <2>7 DEF MemoryOK
        <4>2. Len(mem'.work) = Turns(log) /\ mem'.work[Turns(log)].step = InputOf(log, Turns(log))
          BY <2>2, <2>3, <2>7 DEF Current
        <4>. QED  BY <2>1, <2>7, <4>1, <4>2
      <3>. QED  BY <2>2, <2>3, <2>7, <2>8, <3>1, <3>2 DEF MemoryOK
    <2>10. pc = "checkpoint" => FALSE
      BY <1>30, <2>1, <2>2 DEF IInv, RequestOK, AttemptOK, Holds
    <2>11. Continues(mem', snap)
      BY <2>1, <2>7 DEF Continues, IInv, LiveOK, TypeOK, Memory
    <2>. QED  BY <1>30, <2>1, <2>6, <2>9, <2>10, <2>11
       DEF routeOrAwait, IInv, TypeOK, SnapshotOK, LiveOK, RequestOK, AttemptOK, Holds
  <1>31. ASSUME NEW s \in StepID, routeOrAwaitFails(s)
        PROVE  IInv'
    <2>1. /\ mem \in Memory /\ MemoryOK(log, mem) /\ astate = "RUNNING" /\ s \in mem.inFlight
      BY <1>31 DEF routeOrAwaitFails, IInv, TypeOK, LiveOK
    <2>2. IsPending(log) /\ s = Current(log) /\ Len(mem.work) = Completed(log) /\ mem.last # s
      BY <2>1 DEF MemoryOK
    <2>3. mem' = [mem EXCEPT !.last = s, !.out = Failed, !.inFlight = @ \ {s}]
      BY <1>31 DEF routeOrAwaitFails
    <2>4. /\ mem' \in Memory /\ mem'.work = mem.work /\ mem'.last = s /\ mem'.out = Failed
          /\ mem'.inFlight = mem.inFlight \ {s}
      BY <2>1, <2>3 DEF Memory
    <2>5. mem'.inFlight = {}
      BY <2>1, <2>2, <2>4 DEF MemoryOK
    <2>6. MemoryOK(log, mem')
      BY <2>1, <2>2, <2>4, <2>5 DEF MemoryOK, Remembers
    <2>7. pc = "checkpoint" => FALSE
      BY <1>31, <2>1, <2>2 DEF IInv, RequestOK, AttemptOK, Holds
    <2>8. Continues(mem', snap)
      BY <2>1, <2>4 DEF Continues, IInv, LiveOK
    <2>. QED  BY <1>31, <2>1, <2>4, <2>6, <2>7, <2>8
       DEF routeOrAwaitFails, IInv, TypeOK, SnapshotOK, LiveOK, RequestOK, AttemptOK, Holds
  <1>. QED
    BY <1>1, <1>2, <1>3, <1>4, <1>5, <1>6, <1>7, <1>8, <1>9, <1>10, <1>11, <1>12, <1>13,
       <1>14, <1>15, <1>16, <1>17, <1>18, <1>19, <1>20, <1>21, <1>22, <1>23, <1>24, <1>25,
       <1>26, <1>27, <1>28, <1>29, <1>30, <1>31
       DEF Next, DriverStep, DriverFault

-----------------------------------------------------------------------------
(***************************************************************************)
(* The theorems.                                                            *)
(***************************************************************************)

\* Every reachable state satisfies the inductive invariant.
THEOREM Invariance ==
    ASSUME AckLoss = FALSE
    PROVE  Spec => []IInv
  <1>1. Init => IInv
    BY InitIInv
  <1>2. IInv /\ [Next]_vars => IInv'
    BY NextIInv
  <1>. QED  BY <1>1, <1>2, PTL DEF Spec

\* The variables keep their types.
THEOREM TypeCorrect ==
    ASSUME AckLoss = FALSE
    PROVE  Spec => []TypeOK
  <1>1. IInv => TypeOK
    BY DEF IInv
  <1>. QED  BY <1>1, Invariance, PTL

\* The log is never ahead of the checkpoint (runTurn's steps 4 and 5).
THEOREM CheckpointBeforeLog ==
    ASSUME AckLoss = FALSE
    PROVE  Spec => []LogNeverAhead
  <1>1. IInv => LogNeverAhead
    BY DEF IInv, SnapshotOK, MemoryOK, LogNeverAhead
  <1>. QED  BY <1>1, Invariance, PTL

\* A running agent stands where the log says (resumeActor, routeOrAwait).
THEOREM ResumeAgreesWithLog ==
    ASSUME AckLoss = FALSE
    PROVE  Spec => []ResumesWhereLogLeftOff
  <1>1. IInv => ResumesWhereLogLeftOff
    BY DEF IInv, LiveOK, MemoryOK, ResumesWhereLogLeftOff
  <1>. QED  BY <1>1, Invariance, PTL

\* A turn is logged once, whatever attempts it took (commit, execA2A).
THEOREM TurnsLoggedOnce ==
    ASSUME AckLoss = FALSE
    PROVE  Spec => []EachTurnLoggedOnce
  <1>1. IInv => EachTurnLoggedOnce
    BY DEF IInv, EachTurnLoggedOnce
  <1>. QED  BY <1>1, Invariance, PTL

\* commit never refuses a redo (harnessHandler.commit).
THEOREM RedoAccepted ==
    ASSUME AckLoss = FALSE
    PROVE  Spec => []RedoIsIdempotent
  <1>1. ASSUME IInv, pc = "commit"
        PROVE  ValidRedo
    <2>1. /\ IsPending(log) /\ turn = Current(log) /\ Holds(snap)
          /\ buf \in Envelope /\ buf.step = turn /\ MemoryOK(log, snap) /\ snap.out # Failed
          /\ snap.work \in Seq(Envelope) /\ log \in Seq(Event) /\ turn \in StepID
      BY <1>1 DEF IInv, TypeOK, Memory, RequestOK, AttemptOK, SnapshotOK, AtRest
    <2>2. Len(log) % 3 \in {1, 2}
      BY <2>1, Counting DEF IsPending
    <2>3. CASE Len(log) % 3 = 1
      BY <1>1, <2>1, <2>3, PendingOutputsOK DEF ValidRedo, IInv
    <2>4. CASE Len(log) % 3 = 2
      <3>1. pendingOutputs(log) = <<OutputEvent(ReplyOf(log, Turns(log)))>>
        BY <1>1, <2>1, <2>4, PendingOutputsOK DEF IInv
      <3>2. Replies(log) = Turns(log) /\ Turns(log) \in 1..Replies(log) /\ Len(snap.work) = Turns(log)
        BY <2>1, <2>4, Counting DEF MemoryOK, Remembers
      <3>3. snap.work[Turns(log)] = ReplyOf(log, Turns(log))
        BY <2>1, <3>2 DEF MemoryOK, Remembers
      <3>4. snap.work # <<>>
        BY <2>1, <3>2
      <3>5. snap.work[Len(snap.work)] = [step |-> snap.last, out |-> snap.out]
        BY <2>1, <3>4 DEF MemoryOK
      <3>6. buf = [step |-> snap.last, out |-> snap.out]
        BY <2>1 DEF Holds, Envelope
      <3>. QED  BY <3>1, <3>2, <3>3, <3>5, <3>6 DEF ValidRedo
    <2>. QED  BY <2>2, <2>3, <2>4
  <1>2. IInv => RedoIsIdempotent
    BY <1>1 DEF RedoIsIdempotent
  <1>. QED  BY <1>2, Invariance, PTL

\* Exec is never asked to retry a completed turn (retryExec).
THEOREM RetryIsSafe ==
    ASSUME AckLoss = FALSE
    PROVE  Spec => []RetryMeansUncommitted
  <1>1. ASSUME IInv, pc = "exec", NEW k \in 1..Completed(log)
        PROVE  InputOf(log, k) # req
    <2>1. log \in Seq(Event) /\ k \in 1..Turns(log) /\ Completed(log) \in Nat
      BY <1>1, Counting DEF IInv, TypeOK
    <2>2. CASE ~IsPending(log)
      BY <1>1, <2>1, <2>2 DEF IInv, RequestOK, Fresh
    <2>3. CASE IsPending(log)
      <3>1. req = InputOf(log, Turns(log)) /\ Turns(log) = Completed(log) + 1
        BY <1>1, <2>1, <2>3, Counting DEF IInv, RequestOK, Current, IsPending
      <3>2. Turns(log) \in 1..Turns(log) /\ k # Turns(log)
        BY <2>1, <3>1
      <3>. QED  BY <1>1, <2>1, <3>1, <3>2 DEF IInv, LoggedOnce
    <2>. QED  BY <2>2, <2>3
  <1>2. IInv => RetryMeansUncommitted
    BY <1>1 DEF RetryMeansUncommitted
  <1>. QED  BY <1>2, Invariance, PTL
-----------------------------------------------------------------------------
(***************************************************************************)
(* Turn implements ExactlyOnce.                                             *)
(***************************************************************************)

\* The abstract inbox, in terms of the turns of the log: it is full from the
\* input's LogInputs until a snapshot contains the turn.
LEMMA AcceptedIs ==
    ASSUME NEW l \in Seq(Event), LoggedOnce(l), NEW m \in Memory, MemoryOK(l, m)
    PROVE  LET free == \A k \in DOMAIN m.work : m.work[k].step # pendingInputs(l)
           IN  /\ m.work \in Seq(Envelope) /\ Len(m.work) \in Nat /\ Turns(l) \in Nat
               /\ ResumptionState(l) # "PENDING" => Len(m.work) = Turns(l)
               /\ ResumptionState(l) = "PENDING" =>
                      /\ Len(m.work) \in {Turns(l) - 1, Turns(l)} /\ Turns(l) > 0
                      /\ pendingInputs(l) = Current(l) /\ Current(l) \in StepID
                      /\ free <=> Len(m.work) = Turns(l) - 1
  <1>1. m.work \in Seq(Envelope) /\ Len(m.work) \in Nat /\ DOMAIN m.work = 1..Len(m.work)
    BY DEF Memory
  <1>2. (ResumptionState(l) = "PENDING") <=> IsPending(l)
    BY ResumptionStateOK
  <1>3. Replies(l) <= Len(m.work) /\ Len(m.work) <= Turns(l)
    BY DEF MemoryOK, Remembers
  <1>4. /\ Turns(l) \in Nat /\ Replies(l) \in Nat
        /\ ~IsPending(l) => Replies(l) = Turns(l)
        /\ IsPending(l) => Turns(l) > 0 /\ Replies(l) \in {Turns(l) - 1, Turns(l)}
    BY Counting DEF IsPending
  <1>5. CASE ~IsPending(l)
    BY <1>1, <1>2, <1>3, <1>4, <1>5
  <1>6. CASE IsPending(l)
    <2>1. pendingInputs(l) = Current(l) /\ Current(l) \in StepID
      BY <1>6, PendingInputsOK
    <2>2. \A k \in 1..Len(m.work) : m.work[k].step = InputOf(l, k)
      BY DEF MemoryOK
    <2>3. \A j, k \in 1..Turns(l) : InputOf(l, j) = InputOf(l, k) => j = k
      BY DEF LoggedOnce
    <2>4. Len(m.work) \in {Turns(l) - 1, Turns(l)}
      BY <1>1, <1>3, <1>4, <1>6
    <2>5. (\A k \in 1..Len(m.work) : m.work[k].step # Current(l)) <=> Len(m.work) = Turns(l) - 1
      <3>1. CASE Len(m.work) = Turns(l)
        BY <1>4, <1>6, <2>2, <3>1 DEF Current
      <3>2. CASE Len(m.work) = Turns(l) - 1
        BY <1>4, <1>6, <2>2, <2>3, <3>2 DEF Current
      <3>. QED  BY <2>4, <3>1, <3>2, <1>4
    <2>. QED  BY <1>1, <1>2, <1>4, <1>6, <2>1, <2>4, <2>5
  <1>. QED  BY <1>5, <1>6

\* A step that leaves log and snapshot alone is a stutter of the abstract
\* conversation; LogInputs accepts a message, commit and commitCompletes change
\* nothing that counts, and a completed suspend carries the message out unless
\* its snapshot holds nothing new.
LEMMA StepRefines ==
    ASSUME AckLoss = FALSE, IInv, IInv', [Next]_vars
    PROVE  [Abstract!Next]_<<Accepted, snap.work>>
  <1>. USE DEF substrate, driver, vars, Goto, Proceed, Retry, Fault, NoFault
  <1>. DEFINE pend == ResumptionState(log) = "PENDING"
              free == \A k \in DOMAIN snap.work : snap.work[k].step # pendingInputs(log)
  <1>a. /\ log \in Seq(Event) /\ LoggedOnce(log) /\ snap \in Memory /\ MemoryOK(log, snap)
        /\ log' \in Seq(Event) /\ LoggedOnce(log') /\ snap' \in Memory /\ MemoryOK(log', snap')
    BY DEF IInv, TypeOK, SnapshotOK
  <1>b. /\ snap.work \in Seq(Envelope) /\ Len(snap.work) \in Nat /\ Turns(log) \in Nat
        /\ ~pend => Len(snap.work) = Turns(log)
        /\ pend =>
               /\ Len(snap.work) \in {Turns(log) - 1, Turns(log)} /\ Turns(log) > 0
               /\ pendingInputs(log) = Current(log) /\ Current(log) \in StepID
               /\ free <=> Len(snap.work) = Turns(log) - 1
    BY <1>a, AcceptedIs, Zenon
  <1>c. /\ snap'.work \in Seq(Envelope) /\ Len(snap'.work) \in Nat /\ Turns(log') \in Nat
        /\ ~pend' => Len(snap'.work) = Turns(log')
        /\ pend' =>
               /\ Len(snap'.work) \in {Turns(log') - 1, Turns(log')} /\ Turns(log') > 0
               /\ pendingInputs(log') = Current(log') /\ Current(log') \in StepID
               /\ free' <=> Len(snap'.work) = Turns(log') - 1
    BY <1>a, AcceptedIs, Zenon
  <1>d. /\ Accepted = IF pend /\ free THEN pendingInputs(log) ELSE NoStep
        /\ Accepted' = IF pend' /\ free' THEN pendingInputs(log)' ELSE NoStep
    BY DEF Accepted
  <1>1. CASE UNCHANGED <<log, snap>>
    BY <1>1 DEF Accepted
  <1>2. CASE LogInputs
    <2>1. ~IsPending(log) /\ turn = req /\ req \in StepID /\ Fresh(log, req) /\ snap' = snap
      BY <1>2 DEF LogInputs, IInv, RequestOK
    <2>2. log' = Append(log, InputEvent(turn))
      BY <1>2 DEF LogInputs
    <2>3. IsPending(log') /\ Current(log') = turn
      BY <1>a, <2>1, <2>2, AppendInputOK
    <2>4. ~pend /\ pend'
      BY <1>a, <2>1, <2>3, ResumptionStateOK
    <2>5. Turns(log') = Turns(log) + 1
      BY <1>a, <2>1, <2>2, Counting DEF Turns, IsPending
    <2>6. Accepted = NoStep /\ Accepted' = turn
      BY <1>b, <1>c, <1>d, <2>1, <2>3, <2>4, <2>5
    <2>7. \A k \in DOMAIN snap.work : snap.work[k].step # turn
      BY <1>c, <2>1, <2>3, <2>4, <2>5, <1>b
    <2>8. Abstract!Accept(turn)
      BY <2>1, <2>6, <2>7 DEF Abstract!Accept
    <2>. QED  BY <2>1, <2>8 DEF Abstract!Next
  <1>3. CASE commit
    <2>1. /\ snap' = snap /\ IsPending(log) /\ turn = Current(log) /\ IsPending(log')
          /\ turn = Current(log')
      BY <1>3 DEF commit, IInv, RequestOK
    <2>2. pend /\ pend' /\ pendingInputs(log') = pendingInputs(log)
      BY <1>a, <1>b, <1>c, <2>1, ResumptionStateOK
    <2>. QED  BY <2>1, <2>2 DEF Accepted
  <1>4. CASE commitCompletes
    <2>1. /\ snap' = snap /\ Len(log) % 3 = 2 /\ log' = Append(log, CompletedEvent)
      BY <1>4 DEF commitCompletes, IInv, RequestOK
    <2>2. ~IsPending(log')
      BY <1>a, <2>1, AppendCompletedOK
    <2>3. ~pend' /\ pend
      <3>1. IsPending(log)
        BY <2>1 DEF IsPending
      <3>. QED  BY <1>a, <2>2, <3>1, ResumptionStateOK
    <2>4. Replies(log) = Turns(log) /\ Replies(log) <= Len(snap.work)
      BY <1>a, <2>1, Counting DEF MemoryOK, Remembers
    <2>5. Accepted = NoStep /\ Accepted' = NoStep
      BY <1>b, <1>d, <2>3, <2>4
    <2>. QED  BY <2>1, <2>5
  <1>5. CASE SuspendCompletes
    <2>1. snap' = mem /\ log' = log /\ Continues(mem, snap)
      BY <1>5 DEF SuspendCompletes, IInv, LiveOK
    <2>2. CASE Len(mem.work) = Len(snap.work)
      <3>1. \A k \in 1..Len(snap.work) : mem.work[k] = snap.work[k]
        BY <2>1 DEF Continues
      <3>2. mem.work = snap.work
        BY <1>b, <1>c, <2>1, <2>2, <3>1, SeqEqual
      <3>. QED  BY <2>1, <3>2 DEF Accepted
    <2>3. CASE Len(mem.work) # Len(snap.work)
      <3>1. /\ pend /\ Len(snap.work) = Turns(log) - 1 /\ Len(mem.work) = Turns(log)
        BY <1>b, <1>c, <2>1, <2>3 DEF Continues
      <3>2. Accepted = Current(log) /\ Accepted' = NoStep /\ Current(log) \in StepID
        BY <1>b, <1>c, <1>d, <2>1, <3>1
      <3>. DEFINE e == mem.work[Turns(log)]
      <3>3. e \in Envelope /\ e.step = Current(log)
        BY <1>a, <1>b, <1>c, <2>1, <3>1 DEF MemoryOK, Current
      <3>4. e = [step |-> Accepted, out |-> e.out] /\ e.out \in Output
        BY <3>2, <3>3 DEF Envelope
      <3>5. mem.work = Append(snap.work, e)
        <4>1. /\ Len(Append(snap.work, e)) = Len(mem.work)
              /\ Append(snap.work, e) \in Seq(Envelope)
              /\ \A k \in 1..Len(snap.work) : Append(snap.work, e)[k] = snap.work[k]
              /\ Append(snap.work, e)[Turns(log)] = e
          BY <1>b, <3>1, <3>3
        <4>2. \A k \in 1..Len(mem.work) : Append(snap.work, e)[k] = mem.work[k]
          BY <1>b, <2>1, <3>1, <4>1 DEF Continues
        <4>. QED  BY <1>c, <2>1, <4>1, <4>2, SeqEqual
      <3>6. Abstract!Perform(e.out)
        BY <2>1, <3>2, <3>4, <3>5, StepAssumption DEF Abstract!Perform
      <3>. QED  BY <3>4, <3>6 DEF Abstract!Next
    <2>. QED  BY <2>2, <2>3
  <1>. QED
    BY <1>1, <1>2, <1>3, <1>4, <1>5
       DEF Next, DriverStep, DriverFault, execA2A, establishRelayState, Exec, resumeActor,
           revertActor, revertActorFails, resumeActorSuspending, resumeActorSuspendingFails,
           releaseWorker, doResumeActor, doResumeActorFails, Start, StartUnreachable, Connect,
           DrainStream, DrainStreamFails, Checkpoint, CheckpointReturns, CheckpointFails,
           AppendFails, CallFails, Crash, routeOrAwait, routeOrAwaitFails, SuspendLost, WorkerCrash

\* Whatever crashes, lost suspends and repeated attempts happen, each accepted
\* message changes the durable state of the actor exactly once, and in order.
THEOREM ExactlyOnceImplemented ==
    ASSUME AckLoss = FALSE
    PROVE  Spec => ImplementsExactlyOnce
  <1>1. Init => Abstract!Init
    BY DEF Init, FreshMemory, Abstract!Init, Accepted, ResumptionState
  <1>2. IInv /\ IInv' /\ [Next]_vars => [Abstract!Next]_<<Accepted, snap.work>>
    BY StepRefines
  <1>. QED  BY <1>1, <1>2, Invariance, PTL DEF Spec, ImplementsExactlyOnce, Abstract!Spec
=============================================================================
