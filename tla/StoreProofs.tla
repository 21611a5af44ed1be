---------------------------- MODULE StoreProofs ----------------------------
(***************************************************************************)
(* Theorems about Store, in the process that Server adds to it: for any      *)
(* number of sessions, any task ids, any sizes of pages and batches, any      *)
(* walks that overlap, and any bound on time and writes.                     *)
(***************************************************************************)
EXTENDS Server, FiniteSetTheorems, SequenceTheorems, TLAPS

-----------------------------------------------------------------------------
(***************************************************************************)
(* The inductive invariant.                                                 *)
(***************************************************************************)
SessionRows == [state : {"none", "deleted", "RUNNING", "TERMINATING", "TERMINATED"},
                uid : Uid, upd : Nat]
TaskRows == [status : {"none", "working", "input", "ended"}, upd : Nat]
Places == {"turn", "record", "mark", "end", "stop"}
Drivers == [at : {"nobody"} \cup Replica, since : Nat, pc : Places]
Cancels == [pc : {"idle", "marker", "claim"}, at : {"nobody"} \cup Replica, s : Nat]
Entries == [id : Sessions, uid : {"old", "p"}]
Traversals == [pc : {"off", "rest", "paging", "done"}, token : Key, calm : SUBSET Sessions,
               seen : [Sessions -> Nat]]
Walks == [pc : {"off", "list", "claim", "start", "done"}, token : Key, next : Key,
          failed : SUBSET Sessions, lost : SUBSET Sessions, page : Seq(Entries)]
Sweeps == [pc : {"off", "rest", "next", "recheck", "delete", "done"}, cutoff : Int,
           ids : SUBSET Sessions, cur : Int, raced : SUBSET Sessions]
Processes == [main : {"off", "wait", "up", "exited"},
              drain : {"no", "shutdown", "count", "done"}, req : Sessions \cup {0},
              late : SUBSET Sessions, cut : BOOLEAN]

\* Every variable has its type.
Types ==
    /\ now \in Time /\ spent \in 0..MaxWrites
    /\ sess \in [Sessions -> SessionRows]
    /\ task \in [Sessions -> TaskRows]
    /\ logged \subseteq Sessions
    /\ driver \in [Sessions -> Drivers]
    /\ cancel \in Cancels
    /\ list \in Traversals
    /\ walk \in [Replica -> Walks]
    /\ sweep \in Sweeps
    /\ proc \in Processes

\* Nothing is stamped with a time to come, a row that is gone has no owner, and
\* what a walk is about is at hand.
Past ==
    /\ \A s \in Sessions :
         sess[s].upd \in 0..now /\ task[s].upd \in 0..now /\ driver[s].since \in 0..now
    /\ \A s \in Sessions : ~Exists(s) => sess[s].uid = "nobody"
    /\ NSessions > 0 => sweep.cur \in Sessions
    /\ sweep.pc \in {"recheck", "delete"} => sweep.cur \in Sessions
    /\ \A r \in Replica : walk[r].pc \in {"claim", "start"} => walk[r].page # <<>>
    /\ \A i \in DOMAIN walk["q"].page : walk["q"].page[i].uid = "old"

\* The traversal: what it has seen is not below its cursor, deleted or not, and what
\* stands still has been seen or is below it.
ListOK ==
    /\ list.pc \in {"off", "rest"} => list.token = <<>>
    /\ list.token = <<>> /\ list.pc # "done" => \A s \in Sessions : list.seen[s] = 0
    /\ \A s \in Sessions :
         /\ list.seen[s] <= 1
         /\ list.pc = "paging" /\ list.seen[s] = 1 => ~AfterToken(s)
    /\ \A s \in list.calm :
         /\ HasTask(s)
         /\ list.pc = "paging" => list.seen[s] = 1 \/ AfterToken(s)
         /\ list.pc = "done" => list.seen[s] = 1

Failed == walk["p"].failed \cup walk["q"].failed

\* Session s is ahead of r's walk: above its cursor, or on the page it is at.
Ahead(r, s) ==
    /\ walk[r].pc = "list" => walk[r].token = <<>> \/ Below(walk[r].token, SessionKey(s))
    /\ walk[r].pc \in {"claim", "start"} =>
           \/ \E i \in DOMAIN walk[r].page : walk[r].page[i] = [id |-> s, uid |-> "old"]
           \/ walk[r].next # <<>> /\ Below(walk[r].next, SessionKey(s))
    /\ walk[r].pc # "done"

\* A session that is still in the dead incarnation's hands is ahead of every walk,
\* and what a walk has claimed no longer is.
WalkOK ==
    /\ \A s \in Sessions : Active(s) /\ sess[s].uid = "old" /\ s \notin Failed =>
           \A r \in Replica : Ahead(r, s)
    /\ \A r \in Replica : walk[r].pc = "start" =>
           LET e == Head(walk[r].page) IN
           e.uid = "old" => sess[e.id].uid # "old" \/ e.id \in Failed

\* Who is at a session: its owner or nobody.
Owned(s) ==
    /\ sess[s].uid = "old" => driver[s].at = "nobody" /\ Active(s)
    /\ sess[s].uid \in Replica => driver[s].at \in {"nobody", sess[s].uid}
    /\ sess[s].uid = "q" /\ driver[s].at = "nobody" => Active(s)
    /\ sess[s].uid = "p" /\ driver[s].at = "nobody" /\ proc.main # "exited" => Active(s)
    /\ sess[s].uid = "nobody" /\ Active(s) => driver[s].at = "nobody"

\* It is so unless a walk started the session on a claim that no longer held, and
\* nobody is at what a walk has claimed.
OwnerOK ==
    /\ \A s \in Sessions \ Lost : Owned(s)
    /\ \A r \in Replica : walk[r].pc = "start" =>
           LET e == Head(walk[r].page) IN
           e.uid = "old" /\ e.id \notin Lost =>
              sess[e.id].uid = r /\ driver[e.id].at = "nobody" /\ Active(e.id)

Over == {"TERMINATING", "TERMINATED", "deleted"}

\* A cancellation is about a session that it has stopped.
CancelOK ==
    cancel.pc # "idle" =>
        cancel.s \in Sessions /\ cancel.at \in Replica /\ sess[cancel.s].state \in Over

\* What the drain has counted to none grows only by what is taken late.
ProcessOK ==
    /\ proc.drain # "no" => proc.main # "off"
    /\ proc.main = "exited" /\ ~proc.cut => proc.drain = "done"
    /\ proc.drain = "done" /\ ~proc.cut =>
         \A s \in Sessions : sess[s].state = "RUNNING" /\ sess[s].uid = "p" => s \in proc.late

\* Whom the sweep may delete.
Spared(s) ==
    \/ driver[s].at = "nobody"
    \/ s \in sweep.raced \cup Lost
    \/ now - driver[s].since > Period

\* Someone is about to write rows of s, or has.
Touched(s) == driver[s].at # "nobody" \/ Marking(s) \/ HasTask(s) \/ s \in logged

\* An ended session was stamped since its driver took it, so that one which is
\* found expired has no driver but in the named cases; and nobody can write about a
\* session that is gone, or has, but in those.
SweepOK ==
    /\ \A s \in Sessions : sess[s].state = "TERMINATED" /\ driver[s].at # "nobody" =>
           driver[s].since <= sess[s].upd \/ s \in Lost
    /\ sweep.pc \in {"next", "recheck", "delete"} => sweep.cutoff <= now - Period
    /\ sweep.pc = "delete" => sess[sweep.cur].state = "TERMINATED" /\ Spared(sweep.cur)
    /\ \A s \in Sessions : sess[s].state = "deleted" /\ Touched(s) => s \in sweep.raced \cup Lost

IInv == Types /\ Past /\ ListOK /\ WalkOK /\ OwnerOK /\ CancelOK /\ ProcessOK /\ SweepOK

-----------------------------------------------------------------------------
(***************************************************************************)
(* Keys, pages and sequences.                                               *)
(***************************************************************************)
Keys == Time \X Nat

\* The constants that are numbers.
LEMMA Numbers ==
    /\ NSessions \in Nat /\ Period \in Nat /\ StartTime \in Nat /\ MaxTime \in Nat
    /\ MaxWrites \in Nat /\ StartTime <= MaxTime
    /\ Sessions \subseteq Nat /\ Time \subseteq Nat
  BY StoreBounds DEF Sessions, Time

\* The tables' keys are pairs of a time and a number.
LEMMA KeyTypes ==
    ASSUME Types, Past, NEW s \in Sessions
    PROVE  SessionKey(s) \in Keys /\ TaskKey(s) \in Keys
<1>1. now \in Nat /\ now <= MaxTime
  BY Numbers DEF Types, Time
<1>2. sess[s].upd \in 0..now /\ task[s].upd \in 0..now
  BY DEF Past
<1>3. sess[s].upd \in Time /\ task[s].upd \in Time
  BY <1>1, <1>2, Numbers DEF Time
<1>4. s \in Nat /\ TaskId[s] \in Nat
  BY Numbers, TaskIdAssumption
<1> QED  BY <1>3, <1>4 DEF SessionKey, TaskKey, Keys

\* The order of keys is a strict total order.
LEMMA BelowOrder ==
    ASSUME NEW k \in Keys, NEW l \in Keys, NEW m \in Keys
    PROVE  /\ ~Below(k, k)
           /\ Below(k, l) /\ Below(l, m) => Below(k, m)
           /\ k # l => Below(k, l) \/ Below(l, k)
           /\ Below(k, l) => ~Below(l, k)
  BY StoreBounds DEF Below, Keys, Time

\* A session's key grows with its time.
LEMMA BelowGrows ==
    ASSUME NEW k \in Keys, NEW t \in Nat, NEW u \in Nat, NEW n \in Nat, t <= u,
           Below(k, <<t, n>>)
    PROVE  Below(k, <<u, n>>)
  BY StoreBounds DEF Below, Keys, Time

\* A walk's page loses its first entry.
LEMMA PageTail ==
    ASSUME NEW page \in Seq(Entries), page # <<>>
    PROVE  /\ Head(page) \in Entries /\ Head(page) = page[1]
           /\ Tail(page) \in Seq(Entries)
           /\ \A i \in DOMAIN Tail(page) : i + 1 \in DOMAIN page /\ Tail(page)[i] = page[i + 1]
           /\ \A i \in DOMAIN page : i # 1 => i - 1 \in DOMAIN Tail(page)
                                              /\ Tail(page)[i - 1] = page[i]
  BY HeadTailProperties

-----------------------------------------------------------------------------
(***************************************************************************)
(* What a part of the invariant rests on.                                   *)
(***************************************************************************)
\* The process may end, and does not begin again.
ProcKept == proc' \in Processes /\ (proc.main = "exited" => proc'.main = "exited")

\* A statement of a driver or a delete does not disturb the traversal.
LEMMA ListKept ==
    ASSUME Types, ListOK, NEW S,
           list'.pc = list.pc, list'.token = list.token, list'.seen = list.seen,
           list'.calm \subseteq list.calm \ S,
           task' \in [Sessions -> TaskRows],
           \A s \in Sessions :
              (s \notin S => task'[s] = task[s]) /\ task'[s].upd >= task[s].upd
    PROVE  ListOK'
<1>1. list.calm \subseteq Sessions /\ list.token \in Key /\ list.seen \in [Sessions -> Nat]
  BY DEF Types, Traversals
<1>2. ASSUME NEW s \in Sessions
      PROVE  list'.pc = "paging" /\ list'.seen[s] = 1 => ~AfterToken(s)'
  <2> SUFFICES ASSUME list.pc = "paging", list.seen[s] = 1
               PROVE  ~AfterToken(s)'
    OBVIOUS
  <2>1. ~AfterToken(s)
    BY DEF ListOK
  <2>2. list.token \in Keys /\ list.token # <<>> /\ ~Below(TaskKey(s), list.token)
    BY <1>1, <2>1 DEF AfterToken, Key, Keys
  <2>3. task[s].upd \in Nat /\ task'[s].upd \in Nat /\ TaskId[s] \in Nat
        /\ task'[s].upd >= task[s].upd
    BY TaskIdAssumption DEF Types, TaskRows
  <2>4. ~Below(TaskKey(s)', list.token)
    BY <2>2, <2>3, StoreBounds DEF Below, TaskKey, Keys, Time
  <2> QED  BY <2>2, <2>4 DEF AfterToken
<1>3. ASSUME NEW s \in list'.calm
      PROVE  /\ HasTask(s)'
             /\ list'.pc = "paging" => list'.seen[s] = 1 \/ AfterToken(s)'
             /\ list'.pc = "done" => list'.seen[s] = 1
  BY <1>1 DEF ListOK, HasTask, AfterToken, TaskKey
<1>4. ASSUME NEW s \in Sessions PROVE list'.seen[s] <= 1
  BY DEF ListOK
<1>5. list'.pc \in {"off", "rest"} => list'.token = <<>>
  BY DEF ListOK
<1>6. list'.token = <<>> /\ list'.pc # "done" => \A s \in Sessions : list'.seen[s] = 0
  BY DEF ListOK
<1> QED  BY <1>2, <1>3, <1>4, <1>5, <1>6 DEF ListOK

\* A session that has been restamped stays ahead of a walk.
LEMMA AheadKept ==
    ASSUME Types, Past, NEW s \in Sessions, NEW r \in Replica, Ahead(r, s),
           sess' \in [Sessions -> SessionRows], sess'[s].upd >= sess[s].upd, walk'[r] = walk[r]
    PROVE  Ahead(r, s)'
<1>1. walk[r].token \in Key /\ walk[r].next \in Key
  BY DEF Types, Walks
<1>2. ASSUME NEW k \in Key, k # <<>>, Below(k, SessionKey(s)) PROVE Below(k, SessionKey(s)')
  BY <1>2, BelowGrows DEF SessionKey, Types, SessionRows, Sessions, Key, Keys
<1> QED  BY <1>1, <1>2 DEF Ahead

\* No statement but those of the walks gives a session to the dead incarnation.
LEMMA WalkKept ==
    ASSUME Types, Past, WalkOK, walk' = walk, sess' \in [Sessions -> SessionRows],
           \A s \in Sessions : sess'[s].uid = "old" =>
              /\ sess[s].uid = "old" /\ sess'[s].upd >= sess[s].upd
              /\ Active(s)' => Active(s)
    PROVE  WalkOK'
<1>1. Failed' = Failed
  BY DEF Failed
<1>2. ASSUME NEW s \in Sessions, Active(s)', sess'[s].uid = "old", s \notin Failed',
             NEW r \in Replica
      PROVE  Ahead(r, s)'
  BY <1>1, <1>2, AheadKept DEF WalkOK
<1>3. ASSUME NEW r \in Replica, walk'[r].pc = "start", Head(walk'[r].page).uid = "old"
      PROVE  LET e == Head(walk'[r].page) IN sess'[e.id].uid # "old" \/ e.id \in Failed'
  <2>1. Head(walk[r].page).id \in Sessions
    BY <1>3, PageTail DEF Types, Walks, Past, Entries
  <2> QED  BY <1>1, <1>3, <2>1 DEF WalkOK
<1> QED  BY <1>2, <1>3 DEF WalkOK

\* A cancellation goes by the state of its session.
LEMMA CancelKept ==
    ASSUME CancelOK, cancel' = cancel, \A x \in Sessions : sess'[x].state = sess[x].state
    PROVE  CancelOK'
  BY DEF CancelOK

-----------------------------------------------------------------------------
(***************************************************************************)
(* A statement about one session.                                           *)
(***************************************************************************)
Core == Types /\ Past /\ ListOK /\ WalkOK /\ OwnerOK /\ CancelOK /\ SweepOK

\* The rows of s change, and no other, and a cancellation about s may begin or go on.
OneRow(s) ==
    /\ UNCHANGED <<now, walk>>
    /\ \A x \in Sessions \ {s} :
         /\ sess'[x] = sess[x] /\ task'[x] = task[x] /\ driver'[x] = driver[x]
         /\ x \in logged' => x \in logged
         /\ Marking(x)' => Marking(x)
    /\ sess[s].state \in Over => sess'[s].state \in Over
    /\ \/ cancel'.pc = "idle"
       \/ cancel.pc # "idle" /\ cancel'.s = cancel.s /\ cancel'.at = cancel.at
       \/ cancel'.s = s /\ cancel'.at \in Replica /\ sess'[s].state \in Over

\* The client's traversal need not find the row any more, or the task's row stays.
ListSafe(s) ==
    /\ list'.pc = list.pc /\ list'.token = list.token /\ list'.seen = list.seen
    /\ list'.calm \subseteq list.calm
    /\ s \in list'.calm => task'[s] = task[s]
    /\ task'[s].upd >= task[s].upd

\* Nothing is given to the dead incarnation.
WalkSafe(s) ==
    sess'[s].uid = "old" => /\ sess[s].uid = "old" /\ sess'[s].upd >= sess[s].upd
                            /\ Active(s)' => Active(s)

\* The session has no other driver than its owner, and what a walk has claimed is
\* left alone.
OwnerSafe(s) ==
    /\ s \notin Lost => Owned(s)'
    /\ s \notin Lost /\ sess[s].uid \in Replica /\ driver[s].at = "nobody" /\ Active(s) =>
           sess'[s].uid = sess[s].uid /\ driver'[s].at = "nobody" /\ Active(s)'

\* The sweep goes on where it is, or to its next session.
SweepSafe(s) ==
    /\ sweep'.pc = sweep.pc \/ (sweep.pc = "delete" /\ sweep'.pc = "next")
    /\ sweep'.cutoff = sweep.cutoff /\ sweep'.cur = sweep.cur /\ sweep.raced \subseteq sweep'.raced
    /\ sess'[s].state = "TERMINATED" /\ driver'[s].at # "nobody" =>
           driver'[s].since <= sess'[s].upd \/ s \in Lost
    /\ sweep'.pc = "delete" /\ sweep.cur = s => sess'[s].state = "TERMINATED" /\ Spared(s)'
    /\ sess'[s].state = "deleted" /\ Touched(s)' => s \in sweep'.raced \cup Lost

\* A statement about one session keeps the invariant if it is safe for that one.
LEMMA RowStep ==
    ASSUME Core, ProcKept, NEW s \in Sessions, Types', Past', OneRow(s),
           ListSafe(s), WalkSafe(s), OwnerSafe(s), SweepSafe(s)
    PROVE  Core'
<1>0. Types /\ Past /\ ListOK /\ WalkOK /\ OwnerOK /\ CancelOK /\ SweepOK
  BY DEF Core
<1>1. /\ now' = now /\ walk' = walk /\ Lost' = Lost
      /\ sess' \in [Sessions -> SessionRows] /\ task' \in [Sessions -> TaskRows]
  BY DEF OneRow, Lost, Types
<1>2. ListOK'
  <2> DEFINE S == {x \in Sessions : task'[x] # task[x]}
  <2>1. list'.pc = list.pc /\ list'.token = list.token /\ list'.seen = list.seen
    BY DEF ListSafe
  <2>2. list'.calm \subseteq list.calm \ S
    BY DEF ListSafe, OneRow
  <2>3. ASSUME NEW x \in Sessions
        PROVE  (x \notin S => task'[x] = task[x]) /\ task'[x].upd >= task[x].upd
    <3>1. CASE x = s
      BY <3>1 DEF ListSafe
    <3>2. CASE x # s
      <4>1. task'[x] = task[x] /\ task[x].upd \in Nat
        BY <1>0, <3>2 DEF OneRow, Types, TaskRows
      <4> QED  BY <4>1
    <3> QED  BY <3>1, <3>2
  <2> HIDE DEF S
  <2> QED  BY <1>0, <1>1, <2>1, <2>2, <2>3, ListKept
<1>3. WalkOK'
  <2>1. ASSUME NEW x \in Sessions, sess'[x].uid = "old"
        PROVE  sess[x].uid = "old" /\ sess'[x].upd >= sess[x].upd /\ (Active(x)' => Active(x))
    <3>1. CASE x = s
      BY <2>1, <3>1 DEF WalkSafe
    <3>2. CASE x # s
      <4>1. sess'[x] = sess[x] /\ sess[x].upd \in Nat
        BY <1>0, <3>2 DEF OneRow, Types, SessionRows
      <4> QED  BY <2>1, <4>1 DEF Active
    <3> QED  BY <3>1, <3>2
  <2> QED  BY <1>0, <1>1, <2>1, WalkKept
<1>4. OwnerOK'
  <2>1. ASSUME NEW x \in Sessions, x \notin Lost PROVE Owned(x)'
    <3>1. CASE x = s
      BY <2>1, <3>1 DEF OwnerSafe
    <3>2. CASE x # s
      <4>1. sess'[x] = sess[x] /\ task'[x] = task[x] /\ driver'[x] = driver[x] /\ Owned(x)
        BY <1>0, <2>1, <3>2 DEF OneRow, OwnerOK
      <4> QED  BY <4>1 DEF Owned, Active, ProcKept
    <3> QED  BY <3>1, <3>2
  <2>2. ASSUME NEW r \in Replica, walk[r].pc = "start", Head(walk[r].page).uid = "old",
               Head(walk[r].page).id \notin Lost
        PROVE  LET e == Head(walk[r].page) IN
               sess'[e.id].uid = r /\ driver'[e.id].at = "nobody" /\ Active(e.id)'
    <3> DEFINE x == Head(walk[r].page).id
    <3>1. x \in Sessions
      BY <1>0, <2>2, PageTail DEF Types, Walks, Past, Entries
    <3>2. sess[x].uid = r /\ driver[x].at = "nobody" /\ Active(x)
      BY <1>0, <2>2 DEF OwnerOK
    <3>3. CASE x = s
      BY <1>1, <2>2, <3>2, <3>3 DEF OwnerSafe, Active
    <3>4. CASE x # s
      BY <3>1, <3>2, <3>4 DEF OneRow, Active
    <3> QED  BY <3>3, <3>4
  <2> QED  BY <1>1, <2>1, <2>2 DEF OwnerOK
<1>5. SweepOK'
  <2>1. ASSUME NEW x \in Sessions, sess'[x].state = "TERMINATED", driver'[x].at # "nobody"
        PROVE  driver'[x].since <= sess'[x].upd \/ x \in Lost
    BY <1>0, <2>1 DEF SweepSafe, OneRow, SweepOK
  <2>2. sweep'.pc \in {"next", "recheck", "delete"} => sweep'.cutoff <= now - Period
    BY <1>0 DEF SweepSafe, SweepOK
  <2>3. sweep'.pc = "delete" => sess'[sweep'.cur].state = "TERMINATED" /\ Spared(sweep.cur)'
    <3> SUFFICES ASSUME sweep'.pc = "delete", sweep.cur # s
                 PROVE  sess'[sweep'.cur].state = "TERMINATED" /\ Spared(sweep.cur)'
      BY DEF SweepSafe, Spared
    <3> DEFINE x == sweep.cur
    <3>1. sweep'.cur = x /\ x \in Sessions /\ sess[x].state = "TERMINATED" /\ Spared(x)
      BY <1>0 DEF SweepSafe, SweepOK, Past
    <3>2. sess'[x] = sess[x] /\ driver'[x] = driver[x]
      BY <3>1 DEF OneRow
    <3> QED  BY <1>1, <3>1, <3>2 DEF Spared, SweepSafe
  <2>4. ASSUME NEW x \in Sessions, sess'[x].state = "deleted", Touched(x)'
        PROVE  x \in sweep'.raced \cup Lost
    <3>1. CASE x = s
      BY <2>4, <3>1 DEF SweepSafe
    <3>2. CASE x # s
      <4>1. sess'[x] = sess[x] /\ task'[x] = task[x] /\ driver'[x] = driver[x]
            /\ (x \in logged' => x \in logged) /\ sweep.raced \subseteq sweep'.raced
            /\ (Marking(x)' => Marking(x))
        BY <3>2 DEF OneRow, SweepSafe
      <4>2. sess[x].state = "deleted" /\ Touched(x)
        BY <2>4, <4>1 DEF Touched, HasTask
      <4> QED  BY <1>0, <4>1, <4>2 DEF SweepOK
    <3> QED  BY <3>1, <3>2
  <2>5. sweep'.cur = sweep.cur
    BY DEF SweepSafe
  <2> QED  BY <1>1, <2>1, <2>2, <2>3, <2>4, <2>5 DEF SweepOK, Spared
<1>6. CancelOK'
  <2>1. ASSUME NEW x \in Sessions, sess[x].state \in Over PROVE sess'[x].state \in Over
    BY <2>1 DEF OneRow
  <2> QED  BY <1>0, <2>1 DEF OneRow, CancelOK
<1> QED  BY <1>2, <1>3, <1>4, <1>5, <1>6 DEF Core

-----------------------------------------------------------------------------
(***************************************************************************)
(* The statements of a driver.                                              *)
(***************************************************************************)
\* What Past says of one session.
LEMMA PastAt ==
    ASSUME Past, NEW x \in Sessions
    PROVE  /\ sess[x].upd \in 0..now /\ task[x].upd \in 0..now /\ driver[x].since \in 0..now
           /\ ~Exists(x) => sess[x].uid = "nobody"
  BY DEF Past

\* The bound on writes is kept.
LEMMA SpendTypes == ASSUME Types, Spend PROVE spent' \in 0..MaxWrites
  BY Numbers DEF Types, Spend

\* Who takes a session is noted with a time that has been.
LEMMA DrivenTypes ==
    ASSUME Types, NEW r \in Replica, NEW pc \in Places
    PROVE  /\ DrivenBy(r, pc) \in Drivers /\ DrivenBy(r, pc).since \in 0..now
           /\ DrivenBy(r, pc).at = r /\ now \in Nat /\ r \in Uid /\ r \in {"p", "q"}
<1>1. now \in Nat /\ r \in Uid /\ r \in {"p", "q"}
  BY Numbers DEF Types, Replica, Uid
<1>2. DrivenBy(r, pc).at = r /\ DrivenBy(r, pc).since \in {0, now}
  BY DEF DrivenBy
<1>3. DrivenBy(r, pc) \in Drivers
  BY <1>1 DEF DrivenBy, Drivers
<1> QED  BY <1>1, <1>2, <1>3

\* startTask: the id is fresh.
LEMMA CreateStep ==
    ASSUME Core, ProcKept, NEW s \in Sessions, NEW r \in Replica,
           Spend, CreateSession(s, r), UNCHANGED <<now, cancel, walk>>
    PROVE  Core'
<1> DEFINE row == [state |-> "RUNNING", uid |-> r, upd |-> now]
<1>0. Types /\ Past /\ SweepOK
  BY DEF Core
<1> DEFINE d == DrivenBy(r, "turn")
<1>1. /\ d \in Drivers /\ d.since \in 0..now /\ d.at = r
      /\ now \in Nat /\ r \in Uid /\ r \in {"p", "q"}
  BY <1>0, DrivenTypes DEF Places
<1>2. /\ sess' = [sess EXCEPT ![s] = row] /\ driver' = [driver EXCEPT ![s] = d]
      /\ sess[s].state = "none"
      /\ now' = now /\ task' = task /\ logged' = logged /\ list' = list /\ walk' = walk
      /\ sweep' = sweep /\ cancel' = cancel
  BY DEF CreateSession
<1>3. /\ sess'[s].state = "RUNNING" /\ sess'[s].uid = r /\ sess'[s].upd = now
      /\ driver'[s].at = r /\ driver'[s].since \in 0..now
      /\ \A x \in Sessions \ {s} : sess'[x] = sess[x] /\ driver'[x] = driver[x]
  BY <1>0, <1>1, <1>2 DEF Types
<1> HIDE DEF d
<1>4. Types'
  <2>1. row \in SessionRows
    BY <1>1 DEF SessionRows
  <2> QED  BY <1>0, <1>1, <1>2, <2>1, SpendTypes DEF Types, ProcKept
<1>5. Past'
  <2>1. ASSUME NEW x \in Sessions
        PROVE  sess'[x].upd \in 0..now /\ task[x].upd \in 0..now /\ driver'[x].since \in 0..now
    <3>1. sess[x].upd \in 0..now /\ task[x].upd \in 0..now /\ driver[x].since \in 0..now
      BY <1>0, PastAt
    <3>2. CASE x = s
      BY <1>1, <1>3, <3>1, <3>2
    <3>3. CASE x # s
      BY <1>3, <3>1, <3>3
    <3> QED  BY <3>2, <3>3
  <2>2. \A x \in Sessions : ~Exists(x)' => sess'[x].uid = "nobody"
    BY <1>0, <1>3 DEF Past, Exists
  <2> QED  BY <1>0, <1>2, <2>1, <2>2 DEF Past
<1>6. OneRow(s) /\ WalkSafe(s) /\ SweepSafe(s)
  <2>1. OneRow(s)
    BY <1>2, <1>3 DEF OneRow, Marking, Over
  <2>2. WalkSafe(s)
    BY <1>1, <1>3 DEF WalkSafe
  <2>3. ~(sweep.pc = "delete" /\ sweep.cur = s)
    BY <1>0, <1>2 DEF SweepOK
  <2>4. SweepSafe(s)
    BY <1>2, <1>3, <2>3 DEF SweepSafe
  <2> QED  BY <2>1, <2>2, <2>4
<1>7. ListSafe(s)
  BY <1>0, <1>2 DEF ListSafe, HasTask, Types, TaskRows
<1>8. OwnerSafe(s)
  BY <1>1, <1>2, <1>3 DEF OwnerSafe, Owned, Active
<1> QED  BY <1>4, <1>5, <1>6, <1>7, <1>8, RowStep

\* continueTask, and CancelTask at its end: the session had no owner, so nobody was at it.
LEMMA ClaimStep ==
    ASSUME Core, ProcKept, NEW s \in Sessions, NEW r \in Replica, NEW pc \in Places,
           Claim(s, r, pc), UNCHANGED <<now, walk>>, spent' \in 0..MaxWrites,
           cancel' \in {cancel, NoCancel}
    PROVE  Core'
<1> DEFINE d == DrivenBy(r, pc)
<1>0. Types /\ Past /\ SweepOK /\ OwnerOK
  BY DEF Core
<1>1. /\ d \in Drivers /\ d.since \in 0..now /\ d.at = r
      /\ now \in Nat /\ r \in Uid /\ r \in {"p", "q"}
  BY <1>0, DrivenTypes
<1>2. /\ sess' = [sess EXCEPT ![s].uid = r, ![s].upd = now]
      /\ driver' = [driver EXCEPT ![s] = d]
      /\ Exists(s) /\ sess[s].uid = "nobody"
      /\ sweep' = IF sweep.pc = "delete" /\ sweep.cur = s
                  THEN [sweep EXCEPT !.raced = @ \cup {s}] ELSE sweep
      /\ now' = now /\ task' = task /\ logged' = logged /\ list' = list /\ walk' = walk
  BY DEF Claim
<1> HIDE DEF d
<1>3. /\ sess'[s].state = sess[s].state /\ sess'[s].uid = r /\ sess'[s].upd = now
      /\ driver'[s].at = r /\ driver'[s].since \in 0..now
      /\ \A x \in Sessions \ {s} : sess'[x] = sess[x] /\ driver'[x] = driver[x]
  BY <1>0, <1>1, <1>2 DEF Types, SessionRows
<1>4. /\ sweep' \in Sweeps /\ sweep'.pc = sweep.pc /\ sweep'.cutoff = sweep.cutoff
      /\ sweep'.cur = sweep.cur /\ sweep.raced \subseteq sweep'.raced
      /\ sweep.pc = "delete" /\ sweep.cur = s => s \in sweep'.raced
  BY <1>0, <1>2 DEF Types, Sweeps
<1>5. Types'
  <2>1. sess' \in [Sessions -> SessionRows]
    BY <1>0, <1>1, <1>2 DEF Types, SessionRows
  <2>2. cancel' \in Cancels
    BY <1>0 DEF Types, NoCancel, Cancels
  <2>3. driver' \in [Sessions -> Drivers]
    BY <1>0, <1>1, <1>2 DEF Types
  <2> QED  BY <1>0, <1>2, <1>4, <2>1, <2>2, <2>3 DEF Types, ProcKept
<1>6. Past'
  <2>1. ASSUME NEW x \in Sessions
        PROVE  sess'[x].upd \in 0..now /\ task[x].upd \in 0..now /\ driver'[x].since \in 0..now
    <3>1. sess[x].upd \in 0..now /\ task[x].upd \in 0..now /\ driver[x].since \in 0..now
      BY <1>0, PastAt
    <3>2. CASE x = s
      BY <1>1, <1>3, <3>1, <3>2
    <3>3. CASE x # s
      BY <1>3, <3>1, <3>3
    <3> QED  BY <3>2, <3>3
  <2>2. \A x \in Sessions : ~Exists(x)' => sess'[x].uid = "nobody"
    BY <1>0, <1>2, <1>3 DEF Past, Exists
  <2> QED  BY <1>0, <1>2, <1>4, <2>1, <2>2 DEF Past
<1>7. OneRow(s) /\ WalkSafe(s)
  <2>1. CASE cancel' = cancel
    BY <1>1, <1>2, <1>3, <2>1 DEF OneRow, WalkSafe, Marking
  <2>2. CASE cancel' = NoCancel
    <3>1. cancel'.pc = "idle"
      BY <2>2 DEF NoCancel
    <3> QED  BY <1>1, <1>2, <1>3, <3>1 DEF OneRow, WalkSafe, Marking
  <2> QED  BY <2>1, <2>2
<1>8. ListSafe(s)
  <2>1. list' = list /\ task' = task /\ task[s].upd \in Nat
    BY <1>0, <1>2 DEF Types, TaskRows
  <2> QED  BY <2>1 DEF ListSafe, HasTask
<1>9. OwnerSafe(s)
  BY <1>1, <1>2, <1>3 DEF OwnerSafe, Owned, Active, Replica
<1>10. SweepSafe(s)
  <2>1. sess'[s].state # "deleted" /\ now \in Nat
    BY <1>1, <1>2, <1>3 DEF Exists
  <2>2. sweep'.pc = "delete" /\ sweep.cur = s => sess'[s].state = "TERMINATED"
    BY <1>0, <1>3, <1>4 DEF SweepOK
  <2> QED  BY <1>3, <1>4, <2>1, <2>2 DEF SweepSafe, Spared, HasTask
<1> QED  BY <1>5, <1>6, <1>7, <1>8, <1>9, <1>10, RowStep

\* A row that is restamped, or is not there.
LEMMA StampIs ==
    ASSUME Types, Past, NEW s \in Sessions, NEW state, NEW uid \in Uid, Stamp(s, state, uid),
           Exists(s) => state \in {"RUNNING", "TERMINATING", "TERMINATED"}
    PROVE  /\ sess' \in [Sessions -> SessionRows]
           /\ \A x \in Sessions \ {s} : sess'[x] = sess[x]
           /\ Exists(s) => sess'[s].state = state /\ sess'[s].uid = uid /\ sess'[s].upd = now
           /\ ~Exists(s) => sess'[s] = sess[s] /\ sess[s].uid = "nobody"
           /\ \A x \in Sessions : sess'[x].upd \in 0..now
           /\ sess'[s].upd >= sess[s].upd
<1> DEFINE row == [state |-> state, uid |-> uid, upd |-> now]
<1>1. now \in Nat
  BY Numbers DEF Types
<1>2. Exists(s) => row \in SessionRows
  BY <1>1 DEF SessionRows
<1>3. sess' \in [Sessions -> SessionRows] /\ \A x \in Sessions \ {s} : sess'[x] = sess[x]
  BY <1>2 DEF Stamp, Types
<1>4. Exists(s) => sess'[s].state = state /\ sess'[s].uid = uid /\ sess'[s].upd = now
  BY DEF Stamp, Types
<1>5. ~Exists(s) => sess'[s] = sess[s] /\ sess[s].uid = "nobody"
  BY PastAt DEF Stamp
<1>6. ASSUME NEW x \in Sessions PROVE sess'[x].upd \in 0..now
  <2>1. sess[x].upd \in 0..now
    BY PastAt
  <2> QED  BY <1>1, <1>3, <1>4, <1>5, <2>1
<1>7. sess'[s].upd >= sess[s].upd
  <2>1. sess[s].upd \in 0..now
    BY PastAt
  <2> QED  BY <1>1, <1>4, <1>5, <2>1
<1> QED  BY <1>3, <1>4, <1>5, <1>6, <1>7

\* The goroutine that drives s goes on.
LEMMA GotoIs ==
    ASSUME Types, NEW s \in Sessions, NEW pc \in Places, Goto(s, pc)
    PROVE  /\ driver' \in [Sessions -> Drivers]
           /\ driver'[s].at = driver[s].at /\ driver'[s].since = driver[s].since
           /\ \A x \in Sessions \ {s} : driver'[x] = driver[x]
  BY DEF Goto, Types, Drivers

\* What a driver and a cancellation write about s: its owner, its driver and the sweep
\* are left alone, it may be marked or ended, and one that is gone was theirs already.
Written(s) ==
    /\ UNCHANGED <<now, walk, sweep>> /\ spent' \in 0..MaxWrites
    /\ sess' \in [Sessions -> SessionRows] /\ task' \in [Sessions -> TaskRows]
    /\ driver' \in [Sessions -> Drivers] /\ cancel' \in Cancels
    /\ \A x \in Sessions \ {s} :
         sess'[x] = sess[x] /\ task'[x] = task[x] /\ driver'[x] = driver[x]
    /\ driver'[s].at = driver[s].at /\ driver'[s].since = driver[s].since
    /\ sess'[s].uid = sess[s].uid /\ sess'[s].upd \in {sess[s].upd, now}
    /\ task'[s].upd \in {task[s].upd, now}
    /\ logged' \in {logged, logged \cup {s}}
    /\ (list' = list /\ task' = task) \/ Disturbed(s)
    /\ \/ sess'[s].state = sess[s].state
       \/ sess[s].state = "RUNNING" /\ sess'[s].state = "TERMINATING"
       \/ /\ Exists(s) /\ driver[s].at # "nobody"
          /\ sess'[s].state = "TERMINATED" /\ sess'[s].upd = now
    /\ \/ cancel' = cancel
       \/ cancel'.s = s /\ cancel'.at \in Replica /\ sess'[s].state \in Over
    /\ Touched(s) \/ Exists(s)

\* Such a statement keeps the invariant.
LEMMA WriteStep ==
    ASSUME Core, ProcKept, NEW s \in Sessions, Written(s)
    PROVE  Core'
<1>0. Types /\ Past /\ SweepOK /\ OwnerOK /\ now \in Nat
  BY Numbers DEF Core, Types
<1>1. /\ now' = now /\ walk' = walk /\ sweep' = sweep
      /\ \A x \in Sessions \ {s} :
            sess'[x] = sess[x] /\ task'[x] = task[x] /\ driver'[x] = driver[x]
      /\ driver'[s].at = driver[s].at /\ driver'[s].since = driver[s].since
      /\ sess'[s].uid = sess[s].uid /\ sess'[s].upd \in {sess[s].upd, now}
      /\ task'[s].upd \in {task[s].upd, now}
  BY DEF Written
<1>2. /\ list' \in Traversals /\ list'.pc = list.pc /\ list'.token = list.token
      /\ list'.seen = list.seen /\ list'.calm \subseteq list.calm
      /\ s \in list'.calm => task'[s] = task[s]
  BY <1>0 DEF Written, Disturbed, Types, Traversals
<1>3. \/ sess'[s].state = sess[s].state
      \/ sess[s].state = "RUNNING" /\ sess'[s].state = "TERMINATING"
      \/ /\ Exists(s) /\ driver[s].at # "nobody"
         /\ sess'[s].state = "TERMINATED" /\ sess'[s].upd = now
  BY DEF Written
<1>4. /\ sess[s].upd \in 0..now /\ task[s].upd \in 0..now /\ driver[s].since \in 0..now
      /\ sess'[s].upd \in 0..now /\ task'[s].upd \in 0..now
      /\ sess'[s].upd >= sess[s].upd /\ task'[s].upd >= task[s].upd
  <2>1. sess[s].upd \in 0..now /\ task[s].upd \in 0..now /\ driver[s].since \in 0..now
    BY <1>0, PastAt
  <2> QED  BY <1>0, <1>1, <2>1
<1>5. Types'
  <2>1. logged' \subseteq Sessions
    BY <1>0 DEF Written, Types
  <2> QED  BY <1>0, <1>1, <1>2, <2>1 DEF Types, ProcKept, Written
<1>6. Past'
  <2>1. ASSUME NEW x \in Sessions
        PROVE  /\ sess'[x].upd \in 0..now /\ task'[x].upd \in 0..now
               /\ driver'[x].since \in 0..now /\ (~Exists(x)' => sess'[x].uid = "nobody")
    <3>1. /\ sess[x].upd \in 0..now /\ task[x].upd \in 0..now /\ driver[x].since \in 0..now
          /\ ~Exists(x) => sess[x].uid = "nobody"
      BY <1>0, PastAt
    <3>2. CASE x = s
      BY <1>1, <1>3, <1>4, <3>1, <3>2 DEF Exists
    <3>3. CASE x # s
      BY <1>1, <3>1, <3>3 DEF Exists
    <3> QED  BY <3>2, <3>3
  <2> QED  BY <1>0, <1>1, <2>1 DEF Past
<1>7. OneRow(s)
  <2>1. cancel' = cancel \/ (cancel'.s = s /\ cancel'.at \in Replica /\ sess'[s].state \in Over)
    BY DEF Written
  <2>2. \A x \in Sessions \ {s} : Marking(x)' => Marking(x)
    BY <2>1 DEF Marking
  <2>3. \A x \in Sessions \ {s} : x \in logged' => x \in logged
    BY DEF Written
  <2>4. sess[s].state \in Over => sess'[s].state \in Over
    BY <1>3 DEF Over
  <2> QED  BY <1>1, <2>1, <2>2, <2>3, <2>4 DEF OneRow
<1>8. ListSafe(s)
  BY <1>2, <1>4 DEF ListSafe
<1>9. s \notin Lost => Owned(s)
  BY <1>0 DEF OwnerOK
<1>10. WalkSafe(s) /\ OwnerSafe(s)
  <2>1. WalkSafe(s)
    BY <1>1, <1>3, <1>4 DEF WalkSafe, Active, Exists
  <2>2. OwnerSafe(s)
    BY <1>1, <1>3, <1>9 DEF OwnerSafe, Owned, Active, ProcKept, Exists
  <2> QED  BY <2>1, <2>2
<1>11. SweepSafe(s)
  <2>1. Lost' = Lost
    BY <1>1 DEF Lost
  <2>2. ASSUME sess'[s].state = "TERMINATED", driver'[s].at # "nobody"
        PROVE  driver'[s].since <= sess'[s].upd \/ s \in Lost
    <3>1. CASE sess[s].state = "TERMINATED"
      <4>1. driver[s].since <= sess[s].upd \/ s \in Lost
        BY <1>0, <1>1, <2>2, <3>1 DEF SweepOK
      <4> QED  BY <1>0, <1>1, <1>4, <4>1
    <3>2. CASE sess'[s].upd = now
      BY <1>0, <1>1, <1>4, <3>2
    <3> QED  BY <1>3, <2>2, <3>1, <3>2
  <2>3. ASSUME sweep.pc = "delete", sweep.cur = s
        PROVE  sess'[s].state = "TERMINATED" /\ Spared(s)'
    <3>1. sess[s].state = "TERMINATED" /\ Spared(s)
      BY <1>0, <2>3 DEF SweepOK
    <3> QED  BY <1>1, <1>3, <2>1, <3>1 DEF Spared
  <2>4. sess'[s].state = "deleted" => s \in sweep.raced \cup Lost
    <3>1. sess'[s].state = "deleted" => sess[s].state = "deleted"
      BY <1>3
    <3>2. sess[s].state = "deleted" => Touched(s)
      BY DEF Written, Exists
    <3> QED  BY <1>0, <3>1, <3>2 DEF SweepOK
  <2> QED  BY <1>1, <2>1, <2>2, <2>3, <2>4 DEF SweepSafe
<1> QED  BY <1>5, <1>6, <1>7, <1>8, <1>10, <1>11, RowStep

\* A turn's events are logged by a driver, whatever has become of the session.
LEMMA TurnStep ==
    ASSUME Core, ProcKept, NEW s \in Sessions, Spend, Turn(s), UNCHANGED <<now, cancel, walk>>
    PROVE  Core'
<1>1. Types
  BY DEF Core
<1>2. PICK pc \in Places : Goto(s, pc)
  BY DEF Turn, Places
<1>3. spent' \in 0..MaxWrites
  BY <1>1, SpendTypes
<1>4. Touched(s)
  BY DEF Turn, At, Touched
<1>5. Written(s)
  BY <1>1, <1>2, <1>3, <1>4, GotoIs DEF Written, Turn, Types
<1> QED  BY <1>5, WriteStep

\* A task's row is written by a driver.
LEMMA RecordStatusStep ==
    ASSUME Core, ProcKept, NEW s \in Sessions, Spend, RecordStatus(s),
           UNCHANGED <<now, cancel, walk>>
    PROVE  Core'
<1>1. Types /\ now \in Nat
  BY Numbers DEF Core, Types
<1>2. PICK status \in {"working", "input", "ended"} :
         /\ \/ /\ task' = [task EXCEPT ![s] = [status |-> status, upd |-> now]]
               /\ Disturbed(s)
            \/ UNCHANGED <<task, list>>
         /\ Goto(s, CASE status = "working" -> "turn"
                      [] status = "input" -> "stop"
                      [] status = "ended" -> "mark")
  BY DEF RecordStatus
<1>3. PICK pc \in Places : Goto(s, pc)
  BY <1>2 DEF Places
<1>4. spent' \in 0..MaxWrites
  BY <1>1, SpendTypes
<1>5. Touched(s)
  BY DEF RecordStatus, At, Touched
<1>6. /\ task' \in [Sessions -> TaskRows] /\ task'[s].upd \in {task[s].upd, now}
      /\ \A x \in Sessions \ {s} : task'[x] = task[x]
      /\ (list' = list /\ task' = task) \/ Disturbed(s)
  <2>1. [status |-> status, upd |-> now] \in TaskRows
    BY <1>1 DEF TaskRows
  <2> QED  BY <1>1, <1>2, <2>1 DEF Types
<1>7. Written(s)
  BY <1>1, <1>3, <1>4, <1>5, <1>6, GotoIs DEF Written, RecordStatus, Types
<1> QED  BY <1>7, WriteStep

\* MarkTerminating: a RUNNING session is marked, or nothing happens.
LEMMA MarkStep ==
    ASSUME Core, ProcKept, NEW s \in Sessions, Spend, MarkTerminating(s),
           UNCHANGED <<now, cancel, walk>>
    PROVE  Core'
<1>1. Types /\ Past /\ sess[s].uid \in Uid
  BY DEF Core, Types, SessionRows
<1>2. Goto(s, "end") /\ "end" \in Places /\ Touched(s) /\ UNCHANGED <<task, logged, list, sweep>>
  BY DEF MarkTerminating, Places, At, Touched
<1>3. spent' \in 0..MaxWrites
  BY <1>1, SpendTypes
<1>4. \/ sess' = sess
      \/ /\ sess[s].state = "RUNNING" /\ sess'[s].state = "TERMINATING"
         /\ sess' \in [Sessions -> SessionRows] /\ sess'[s].uid = sess[s].uid
         /\ sess'[s].upd = now /\ \A x \in Sessions \ {s} : sess'[x] = sess[x]
  <2>1. CASE sess[s].state = "RUNNING" /\ Stamp(s, "TERMINATING", sess[s].uid)
    <3>1. Exists(s)
      BY <2>1 DEF Exists
    <3> QED  BY <1>1, <2>1, <3>1, StampIs
  <2> QED  BY <2>1 DEF MarkTerminating
<1>5. Written(s)
  BY <1>1, <1>2, <1>3, <1>4, GotoIs DEF Written, Types
<1> QED  BY <1>5, WriteStep

\* TerminateSession: the stamp is not older than the driver.
LEMMA TerminateStep ==
    ASSUME Core, ProcKept, NEW s \in Sessions, Spend, TerminateSession(s),
           UNCHANGED <<now, cancel, walk>>
    PROVE  Core'
<1>1. Types /\ Past /\ sess[s].uid \in Uid
  BY DEF Core, Types, SessionRows
<1>2. /\ Goto(s, "stop") /\ "stop" \in Places /\ Touched(s) /\ driver[s].at # "nobody"
      /\ UNCHANGED <<task, logged, list, sweep>> /\ Stamp(s, "TERMINATED", sess[s].uid)
  BY DEF TerminateSession, Places, At, Touched
<1>3. spent' \in 0..MaxWrites
  BY <1>1, SpendTypes
<1>4. /\ sess' \in [Sessions -> SessionRows]
      /\ \A x \in Sessions \ {s} : sess'[x] = sess[x]
      /\ Exists(s) => /\ sess'[s].state = "TERMINATED" /\ sess'[s].uid = sess[s].uid
                      /\ sess'[s].upd = now
      /\ ~Exists(s) => sess'[s] = sess[s]
  BY <1>1, <1>2, StampIs
<1>5. Written(s)
  BY <1>1, <1>2, <1>3, <1>4, GotoIs DEF Written, Types
<1> QED  BY <1>5, WriteStep

\* ReleaseSession: owner and driver go together, whatever the session has come to.
LEMMA ReleaseStep ==
    ASSUME Core, ProcKept, NEW s \in Sessions, Spend, ReleaseSession(s),
           UNCHANGED <<now, cancel, walk>>
    PROVE  Core'
<1>0. Types /\ Past /\ SweepOK /\ OwnerOK /\ now \in Nat /\ "nobody" \in Uid
  BY Numbers DEF Core, Types, Uid
<1>1. /\ driver[s].at # "nobody" /\ driver' = [driver EXCEPT ![s] = NoDriver]
      /\ now' = now /\ task' = task /\ logged' = logged /\ list' = list /\ walk' = walk
      /\ sweep' = sweep /\ cancel' = cancel
  BY DEF ReleaseSession
<1>2. /\ sess' \in [Sessions -> SessionRows]
      /\ \A x \in Sessions \ {s} : sess'[x] = sess[x]
      /\ sess'[s].state = sess[s].state /\ sess'[s].uid = "nobody" /\ sess'[s].upd \in 0..now
  <2>1. Stamp(s, sess[s].state, "nobody")
    BY DEF ReleaseSession
  <2>2. Exists(s) => sess[s].state \in {"RUNNING", "TERMINATING", "TERMINATED"}
    BY <1>0 DEF Exists, Types, SessionRows
  <2>3. sess[s].upd \in 0..now
    BY <1>0, PastAt
  <2> QED  BY <1>0, <2>1, <2>2, <2>3, StampIs
<1>3. /\ driver' \in [Sessions -> Drivers] /\ driver'[s].at = "nobody" /\ driver'[s].since = 0
      /\ \A x \in Sessions \ {s} : driver'[x] = driver[x]
  BY <1>0, <1>1 DEF Types, NoDriver, Drivers, Places
<1>4. Types'
  BY <1>0, <1>1, <1>2, <1>3, SpendTypes DEF Types, ProcKept
<1>5. Past'
  <2>1. ASSUME NEW x \in Sessions
        PROVE  /\ sess'[x].upd \in 0..now /\ task'[x].upd \in 0..now
               /\ driver'[x].since \in 0..now /\ (~Exists(x)' => sess'[x].uid = "nobody")
    <3>1. /\ sess[x].upd \in 0..now /\ task[x].upd \in 0..now /\ driver[x].since \in 0..now
          /\ ~Exists(x) => sess[x].uid = "nobody"
      BY <1>0, PastAt
    <3>2. CASE x = s
      BY <1>0, <1>1, <1>2, <1>3, <3>1, <3>2
    <3>3. CASE x # s
      BY <1>1, <1>2, <1>3, <3>1, <3>3 DEF Exists
    <3> QED  BY <3>2, <3>3
  <2> QED  BY <1>0, <1>1, <2>1 DEF Past
<1>6. OneRow(s) /\ WalkSafe(s)
  BY <1>1, <1>2, <1>3 DEF OneRow, WalkSafe, Active, Marking
<1>7. ListSafe(s)
  <2>1. task[s].upd \in Nat
    BY <1>0 DEF Types, TaskRows
  <2> QED  BY <1>1, <2>1 DEF ListSafe
<1>8. OwnerSafe(s)
  BY <1>1, <1>2, <1>3 DEF OwnerSafe, Owned, Active, Replica
<1>9. SweepSafe(s)
  <2>1. sess[s].state = "deleted" => s \in sweep.raced \cup Lost
    BY <1>0, <1>1 DEF SweepOK, Touched
  <2>2. sweep.pc = "delete" /\ sweep.cur = s => sess[s].state = "TERMINATED"
    BY <1>0 DEF SweepOK
  <2> QED  BY <1>1, <1>2, <1>3, <2>1, <2>2 DEF SweepSafe, Spared
<1> QED  BY <1>4, <1>5, <1>6, <1>7, <1>8, <1>9, RowStep

\* A driver's statement keeps the invariant.
LEMMA DriveStep ==
    ASSUME Core, ProcKept, NEW s \in Sessions, Drive(s)
    PROVE  Core'
  BY TurnStep, RecordStatusStep, MarkStep, TerminateStep, ReleaseStep DEF Drive

-----------------------------------------------------------------------------
(***************************************************************************)
(* The statements of a cancellation.                                        *)
(***************************************************************************)
\* The transaction finds the session's row, and leaves it stopped.
LEMMA CancelTaskStep ==
    ASSUME Core, ProcKept, NEW s \in Sessions, NEW r \in Replica, CancelTask(s, r),
           UNCHANGED <<now, walk>>
    PROVE  Core'
<1>1. Types /\ Past /\ now \in Nat /\ sess[s].uid \in Uid
  BY Numbers DEF Core, Types, SessionRows
<1>2. /\ Exists(s) /\ Disturbed(s) /\ Spend /\ UNCHANGED <<logged, driver, sweep>>
      /\ task' = [task EXCEPT ![s] = [status |-> "ended", upd |-> now]]
      /\ cancel' = [pc |-> "marker", at |-> r, s |-> s]
      /\ IF sess[s].state = "RUNNING" THEN Stamp(s, "TERMINATING", sess[s].uid)
         ELSE UNCHANGED sess
  BY DEF CancelTask
<1>3. spent' \in 0..MaxWrites
  BY <1>1, <1>2, SpendTypes
<1>4. \/ sess' = sess /\ sess[s].state \in Over
      \/ /\ sess[s].state = "RUNNING" /\ sess'[s].state = "TERMINATING"
         /\ sess' \in [Sessions -> SessionRows] /\ sess'[s].uid = sess[s].uid
         /\ sess'[s].upd = now /\ \A x \in Sessions \ {s} : sess'[x] = sess[x]
  <2>1. CASE sess[s].state = "RUNNING"
    BY <1>1, <1>2, <2>1, StampIs
  <2>2. CASE sess[s].state # "RUNNING"
    BY <1>1, <1>2, <2>2 DEF Types, SessionRows, Exists, Over
  <2> QED  BY <2>1, <2>2
<1>5. /\ task' \in [Sessions -> TaskRows] /\ task'[s].upd = now
      /\ \A x \in Sessions \ {s} : task'[x] = task[x]
  <2>1. [status |-> "ended", upd |-> now] \in TaskRows
    BY <1>1 DEF TaskRows
  <2> QED  BY <1>1, <1>2, <2>1 DEF Types
<1>6. /\ cancel' \in Cancels /\ cancel'.s = s /\ cancel'.at \in Replica
      /\ sess'[s].state \in Over
  BY <1>2, <1>4, Numbers DEF Cancels, Over
<1>7. Written(s)
  BY <1>1, <1>2, <1>3, <1>4, <1>5, <1>6 DEF Written, Types
<1> QED  BY <1>7, WriteStep

\* The marker of a session that is gone: the sweep has noted it.
LEMMA MarkerStep ==
    ASSUME Core, ProcKept, NEW r \in Replica, appendCancellationMarker(r), UNCHANGED <<now, walk>>
    PROVE  Core'
<1> DEFINE s == cancel.s
<1>1. Types /\ CancelOK
  BY DEF Core
<1>2. /\ cancel.pc = "marker" /\ cancel' = [cancel EXCEPT !.pc = "claim"]
      /\ logged' \in {logged, logged \cup {s}}
      /\ UNCHANGED <<sess, task, driver, list, sweep, spent>>
  BY DEF appendCancellationMarker
<1>3. s \in Sessions /\ cancel.at \in Replica /\ sess[s].state \in Over
  BY <1>1, <1>2 DEF CancelOK
<1>4. cancel' \in Cancels /\ cancel'.s = s /\ cancel'.at = cancel.at
  BY <1>1, <1>2 DEF Types, Cancels
<1>5. Touched(s)
  BY <1>2 DEF Touched, Marking
<1> HIDE DEF s
<1>6. Written(s)
  BY <1>1, <1>2, <1>3, <1>4, <1>5 DEF Written, Types
<1> QED  BY <1>3, <1>6, WriteStep

-----------------------------------------------------------------------------
(***************************************************************************)
(* The client's traversal.                                                  *)
(***************************************************************************)
\* A step of the traversal touches nothing else.
LEMMA TraversalOnly ==
    ASSUME Core, ProcKept, list' \in Traversals, ListOK',
           UNCHANGED <<now, tables, driver, cancel, walk, sweep, spent>>
    PROVE  Core'
<1>1. /\ now' = now /\ sess' = sess /\ task' = task /\ logged' = logged /\ driver' = driver
      /\ walk' = walk /\ sweep' = sweep /\ spent' = spent /\ cancel' = cancel
  BY DEF tables
<1>2. Types' /\ Past'
  BY <1>1 DEF Core, Types, Past, ProcKept, Exists
<1>3. WalkOK'
  BY <1>1 DEF Core, WalkOK, Failed, Ahead, Active, SessionKey
<1>4. OwnerOK'
  BY <1>1 DEF Core, OwnerOK, Owned, Active, Lost, ProcKept
<1>5. SweepOK'
  BY <1>1 DEF Core, SweepOK, Spared, Touched, Marking, HasTask, Lost
<1>6. CancelOK'
  BY <1>1, CancelKept DEF Core
<1> QED  BY <1>2, <1>3, <1>4, <1>5, <1>6 DEF Core

\* The first request: every task is below no cursor.
LEMMA ListTasksStep == ASSUME Core, ProcKept, ListTasks PROVE Core'
<1>1. /\ list.pc = "rest" /\ list' = [list EXCEPT !.pc = "paging",
                                                  !.calm = {s \in Sessions : HasTask(s)}]
      /\ task' = task /\ sess' = sess
  BY DEF ListTasks, tables
<1>2. Types /\ ListOK
  BY DEF Core
<1>3. /\ list' \in Traversals /\ list'.pc = "paging" /\ list'.token = <<>>
      /\ list'.seen = list.seen /\ list'.calm = {s \in Sessions : HasTask(s)}
      /\ \A s \in Sessions : list.seen[s] = 0
  BY <1>1, <1>2 DEF Types, Traversals, ListOK, HasTask
<1>4. ListOK'
  BY <1>1, <1>3 DEF ListOK, HasTask, AfterToken
<1> QED  BY <1>3, <1>4, TraversalOnly DEF ListTasks

\* One request: its page is above its token, and the rest is below it.
LEMMA ListPageStep == ASSUME Core, ProcKept, ListPage PROVE Core'
<1> DEFINE rows == {s \in Sessions : HasTask(s) /\ AfterToken(s)}
           Newer(x, y) == Below(TaskKey(y), TaskKey(x))
           twins == {s \in rows : \E q \in rows \ {s} : TaskKey(q) = TaskKey(s)}
<1>0. Types /\ Past /\ ListOK /\ list.pc = "paging" /\ task' = task /\ sess' = sess
  BY DEF Core, ListPage, tables
<1> DEFINE last(page) == {x \in page : \A q \in page : ~Newer(x, q)}
           tokens(page) == IF page = rows THEN {list.token} ELSE {TaskKey(s) : s \in last(page)}
           found(page) == [s \in Sessions |-> list.seen[s] + IF s \in page THEN 1 ELSE 0]
           after(page, token) == [pc |-> IF page = rows THEN "done" ELSE "paging",
                                  token |-> token, calm |-> list.calm \ twins,
                                  seen |-> found(page)]
<1>1. PICK page \in SUBSET rows :
        /\ \A x \in page, y \in rows \ page : ~Below(TaskKey(x), TaskKey(y))
        /\ \E token \in tokens(page) : list' = after(page, token)
  BY DEF ListPage, Limit
<1>2. PICK token : token \in tokens(page) /\ list' = after(page, token)
  BY <1>1
<1>3. page \subseteq rows /\ \A x \in page, y \in rows \ page : ~Below(TaskKey(x), TaskKey(y))
  BY <1>1
<1> HIDE DEF rows
<1>4. \A s \in Sessions : TaskKey(s) \in Keys
  BY <1>0, KeyTypes
<1>5. rows \subseteq Sessions /\ \A s \in rows : HasTask(s) /\ AfterToken(s)
  BY DEF rows
<1>6. list.token \in Key /\ list.calm \subseteq Sessions /\ list.seen \in [Sessions -> Nat]
  BY <1>0 DEF Types, Traversals
<1>7. page # rows => \E y \in page : token = TaskKey(y)
                                     /\ \A q \in page : ~Below(TaskKey(q), TaskKey(y))
  BY <1>2
<1>8. page = rows => token = list.token
  BY <1>2
<1>9. /\ list'.pc = (IF page = rows THEN "done" ELSE "paging") /\ list'.token = token
      /\ list'.calm = list.calm \ twins
      /\ \A s \in Sessions : list'.seen[s] = list.seen[s] + IF s \in page THEN 1 ELSE 0
  BY <1>2
<1>10. token \in Key
  BY <1>3, <1>4, <1>5, <1>6, <1>7, <1>8 DEF Key, Keys
<1>11. list' \in Traversals
  <2>1. found(page) \in [Sessions -> Nat]
    BY <1>6
  <2> QED  BY <1>2, <1>6, <1>10, <2>1 DEF Traversals
<1>12. ASSUME NEW s \in page PROVE list.seen[s] = 0
  <2>1. s \in Sessions /\ HasTask(s) /\ AfterToken(s)
    BY <1>3, <1>5
  <2>2. list.seen[s] <= 1 /\ list.seen[s] # 1 /\ list.seen[s] \in Nat
    BY <1>0, <1>6, <2>1 DEF ListOK
  <2> QED  BY <2>2
<1>13. ASSUME NEW s \in Sessions
       PROVE  /\ list'.seen[s] <= 1
              /\ list'.seen[s] = 1 <=> s \in page \/ list.seen[s] = 1
  <2>1. list.seen[s] <= 1 /\ list.seen[s] \in Nat
    BY <1>0, <1>6 DEF ListOK
  <2> QED  BY <1>9, <1>12, <2>1
<1>14. ASSUME NEW s \in Sessions, list'.pc = "paging", list'.seen[s] = 1
       PROVE  ~AfterToken(s)'
  <2>1. PICK y \in page : token = TaskKey(y) /\ \A q \in page : ~Below(TaskKey(q), TaskKey(y))
    BY <1>7, <1>9, <1>14
  <2>2. y \in Sessions /\ AfterToken(y) /\ TaskKey(y) \in Keys /\ TaskKey(s) \in Keys
    BY <1>3, <1>4, <1>5
  <2>3. ~Below(TaskKey(s), TaskKey(y))
    <3>1. CASE s \in page
      BY <2>1, <3>1
    <3>2. CASE s \notin page
      <4>1. list.seen[s] = 1 /\ ~AfterToken(s)
        BY <1>0, <1>13, <1>14, <3>2 DEF ListOK
      <4>2. list.token \in Keys /\ ~Below(TaskKey(s), list.token)
            /\ Below(TaskKey(y), list.token)
        BY <1>6, <2>2, <4>1 DEF AfterToken, Key, Keys
      <4> QED  BY <2>2, <4>2, BelowOrder
    <3> QED  BY <3>1, <3>2
  <2>4. token # <<>> /\ TaskKey(s)' = TaskKey(s)
    BY <1>0, <2>1 DEF TaskKey
  <2> QED  BY <1>9, <2>1, <2>3, <2>4 DEF AfterToken
<1>15. ASSUME NEW s \in list'.calm
       PROVE  /\ HasTask(s)
              /\ list'.pc = "paging" => list'.seen[s] = 1 \/ AfterToken(s)'
              /\ list'.pc = "done" => list'.seen[s] = 1
  <2>1. s \in list.calm /\ s \notin twins /\ s \in Sessions
    BY <1>6, <1>9
  <2>2. HasTask(s) /\ (list.seen[s] = 1 \/ AfterToken(s))
    BY <1>0, <2>1 DEF ListOK
  <2>3. list.seen[s] = 1 \/ s \in rows
    BY <2>1, <2>2 DEF rows
  <2>4. list'.pc = "done" => list'.seen[s] = 1
    BY <1>9, <1>13, <2>1, <2>3
  <2>5. ASSUME list'.pc = "paging", list'.seen[s] # 1 PROVE AfterToken(s)'
    <3>1. s \in rows \ page
      BY <1>13, <2>1, <2>3, <2>5
    <3>2. PICK y \in page : token = TaskKey(y)
      BY <1>7, <1>9, <2>5
    <3>3. y \in rows \ {s} /\ y \in Sessions /\ ~Below(TaskKey(y), TaskKey(s))
      BY <1>3, <1>5, <3>1, <3>2
    <3>4. TaskKey(y) # TaskKey(s)
      BY <2>1, <3>1, <3>3
    <3>5. Below(TaskKey(s), TaskKey(y))
      BY <1>4, <2>1, <3>3, <3>4, BelowOrder
    <3> QED  BY <1>0, <1>9, <3>2, <3>5 DEF AfterToken, TaskKey
  <2> QED  BY <2>2, <2>4, <2>5
<1>16. ASSUME list'.token = <<>>, list'.pc # "done" PROVE FALSE
  BY <1>1, <1>4, <1>5, <1>7, <1>9, <1>16 DEF Keys
<1>17. \A s : HasTask(s)' <=> HasTask(s)
  BY <1>0 DEF HasTask
<1>18. list'.pc \notin {"off", "rest"}
  BY <1>9
<1>19. ListOK'
  BY <1>0, <1>13, <1>14, <1>15, <1>16, <1>17, <1>18 DEF ListOK
<1> QED  BY <1>11, <1>19, TraversalOnly DEF ListPage

-----------------------------------------------------------------------------
(***************************************************************************)
(* The walks over the dead incarnation's sessions.                          *)
(***************************************************************************)
\* A walk's step: the other walk stands still, and after the last id of a page
\* this one is at the next page, or done.
LEMMA StepWalkIs ==
    ASSUME Types, NEW r \in Replica, NEW w \in Walks, StepWalk(r, w)
    PROVE  /\ walk' \in [Replica -> Walks] /\ \A v \in Replica \ {r} : walk'[v] = walk[v]
           /\ walk'[r].page = w.page /\ walk'[r].failed = w.failed /\ walk'[r].lost = w.lost
           /\ w.pc # "claim" \/ w.page # <<>> => walk'[r] = w
           /\ w.pc = "claim" /\ w.page = <<>> =>
                 /\ walk'[r].pc = IF w.next = <<>> THEN "done" ELSE "list"
                 /\ walk'[r].token = w.next
           /\ now' = now /\ task' = task /\ logged' = logged /\ list' = list /\ sweep' = sweep
           /\ cancel' = cancel
<1> DEFINE n == [w EXCEPT !.pc = IF w.next = <<>> THEN "done" ELSE "list",
                          !.token = w.next, !.next = <<>>]
           u == IF w.pc # "claim" \/ w.page # <<>> THEN w ELSE n
<1>1. /\ walk' = [walk EXCEPT ![r] = u]
      /\ now' = now /\ task' = task /\ logged' = logged /\ list' = list /\ sweep' = sweep
      /\ cancel' = cancel
  BY DEF StepWalk
<1>2. /\ n \in Walks /\ n.pc = (IF w.next = <<>> THEN "done" ELSE "list") /\ n.token = w.next
      /\ n.page = w.page /\ n.failed = w.failed /\ n.lost = w.lost
  BY DEF Walks, Key
<1> HIDE DEF n
<1>3. walk' \in [Replica -> Walks] /\ walk'[r] = u /\ \A v \in Replica \ {r} : walk'[v] = walk[v]
  BY <1>1, <1>2 DEF Types
<1> QED  BY <1>1, <1>2, <1>3

\* What a walk is at, and what it is at after the head of its page.
LEMMA AtHead ==
    ASSUME Types, Past, NEW r \in Replica, walk[r].pc \in {"claim", "start"}
    PROVE  LET e == Head(walk[r].page) IN
           /\ walk[r] \in Walks /\ walk[r].page \in Seq(Entries) /\ walk[r].page # <<>>
           /\ e \in Entries /\ e = walk[r].page[1] /\ e.id \in Sessions /\ e.uid \in {"old", "p"}
           /\ r = "q" => e.uid = "old"
           /\ e = [id |-> e.id, uid |-> e.uid]
           /\ Tail(walk[r].page) \in Seq(Entries)
<1>1. walk[r] \in Walks /\ walk[r].page \in Seq(Entries) /\ walk[r].page # <<>>
  BY DEF Types, Walks, Past, Exists
<1>2. /\ Head(walk[r].page) \in Entries /\ Head(walk[r].page) = walk[r].page[1]
      /\ Tail(walk[r].page) \in Seq(Entries)
  BY <1>1, PageTail
<1>3. 1 \in DOMAIN walk[r].page
  BY <1>1
<1>4. r = "q" => Head(walk[r].page).uid = "old"
  BY <1>2, <1>3 DEF Past, Exists
<1> QED  BY <1>1, <1>2, <1>4 DEF Entries

\* A session stays ahead of the walk that is through with another one.
LEMMA AheadTail ==
    ASSUME Types, Past, NEW r \in Replica, walk[r].pc \in {"claim", "start"},
           NEW w \in Walks, w.pc = "claim", w.page = Tail(walk[r].page), w.next = walk[r].next,
           StepWalk(r, w), sess' \in [Sessions -> SessionRows],
           NEW s \in Sessions, Ahead(r, s), sess'[s].upd >= sess[s].upd,
           Head(walk[r].page) # [id |-> s, uid |-> "old"]
    PROVE  Ahead(r, s)'
<1>1. walk[r].page \in Seq(Entries) /\ walk[r].page # <<>>
  BY AtHead
<1>2. walk'[r].page = w.page
      /\ (w.page # <<>> => walk'[r] = w)
      /\ (w.page = <<>> => /\ walk'[r].pc = (IF w.next = <<>> THEN "done" ELSE "list")
                           /\ walk'[r].token = w.next)
  BY StepWalkIs
<1>3. CASE \E i \in DOMAIN walk[r].page : walk[r].page[i] = [id |-> s, uid |-> "old"]
  <2>1. PICK i \in DOMAIN walk[r].page : walk[r].page[i] = [id |-> s, uid |-> "old"]
    BY <1>3
  <2>2. i # 1 /\ i - 1 \in DOMAIN w.page /\ w.page[i - 1] = [id |-> s, uid |-> "old"]
    BY <1>1, <2>1, PageTail
  <2>3. w.page # <<>>
    BY <2>2
  <2>4. walk'[r] = w
    BY <1>2, <2>3
  <2> QED  BY <2>2, <2>4 DEF Ahead
<1>4. CASE walk[r].next # <<>> /\ Below(walk[r].next, SessionKey(s))
  <2>1. w.next \in Key /\ w.next # <<>> /\ Below(w.next, <<sess[s].upd, s>>)
    BY <1>4 DEF Walks, SessionKey
  <2>2. w.next \in Keys /\ sess[s].upd \in Nat /\ sess'[s].upd \in Nat /\ s \in Nat
    BY <2>1, Numbers DEF Key, Keys, Types, SessionRows
  <2>3. Below(w.next, <<sess'[s].upd, s>>)
    BY <2>1, <2>2, BelowGrows
  <2>4. Below(w.next, SessionKey(s)')
    BY <2>3 DEF SessionKey
  <2>5. CASE w.page # <<>>
    BY <1>2, <2>1, <2>4, <2>5 DEF Ahead
  <2>6. CASE w.page = <<>>
    BY <1>2, <2>1, <2>4, <2>6 DEF Ahead
  <2> QED  BY <2>5, <2>6
<1> QED  BY <1>3, <1>4 DEF Ahead

\* What keeps the rest of the invariant: the traversal knows nothing of it.
LEMMA ListUntouched ==
    ASSUME Types, ListOK, list' = list, task' = task
    PROVE  ListOK'
<1>1. list.calm \subseteq Sessions
  BY DEF Types, Traversals
<1> QED  BY <1>1 DEF ListOK, HasTask, AfterToken, TaskKey

\* A page of the walk: what the dead incarnation has is on it, or behind it.
LEMMA ListSessionsStep ==
    ASSUME Core, ProcKept, NEW r \in Replica, ListSessions(r) PROVE Core'
<1> DEFINE rows == {s \in Sessions : Listed(r, s) /\ (walk[r].token = <<>>
                                                      \/ Below(walk[r].token, SessionKey(s)))}
           entry(order) == [i \in DOMAIN order |-> [id |-> order[i], uid |-> sess[order[i]].uid]]
           at(order, next) == [walk[r] EXCEPT !.pc = "claim", !.token = <<>>, !.next = next,
                                              !.page = entry(order)]
           nexts(page) == IF page = rows THEN {<<>>} ELSE NextToken(page, rows)
<1>0. /\ Types /\ Past /\ ListOK /\ WalkOK /\ OwnerOK /\ SweepOK
      /\ walk[r].pc = "list" /\ walk[r] \in Walks
      /\ sess' = sess /\ driver' = driver /\ spent' = spent
  BY DEF Core, ListSessions, Types
<1>1. PICK page \in SUBSET rows :
        /\ \A x \in page, y \in rows \ page : ~Older(y, x)
        /\ \E order \in Ordered(page), next \in nexts(page) : StepWalk(r, at(order, next))
  BY DEF ListSessions, Limit
<1>2. PICK order, next : /\ order \in Ordered(page) /\ next \in nexts(page)
                         /\ StepWalk(r, at(order, next))
  BY <1>1
<1>3. /\ rows \subseteq Sessions
      /\ \A s \in rows : sess[s].uid \in {"old", "p"} /\ (r = "q" => sess[s].uid = "old")
  BY <1>0 DEF Listed, PodOf, Types, SessionRows, Uid, Replica
<1>4. Cardinality(page) \in Nat
  <2>1. IsFiniteSet(Sessions)
    <3>1. 1 \in Int /\ NSessions \in Int
      BY Numbers
    <3>2. IsFiniteSet(1..NSessions)
      BY ONLY <3>1, FS_Interval
    <3> QED  BY ONLY <3>2 DEF Sessions
  <2>2. IsFiniteSet(page)
    BY <1>3, <2>1, FS_Subset
  <2> QED  BY <2>2, FS_CardinalityType
<1>5. /\ order \in [1..Cardinality(page) -> page]
      /\ \A x \in page : \E i \in 1..Cardinality(page) : order[i] = x
  BY <1>2 DEF Ordered, Bijection, Surjection
<1>6. /\ entry(order) \in Seq(Entries) /\ DOMAIN entry(order) = 1..Cardinality(page)
      /\ \A i \in 1..Cardinality(page) :
            entry(order)[i] = [id |-> order[i], uid |-> sess[order[i]].uid]
      /\ \A i \in 1..Cardinality(page) : order[i] \in page
  <2>1. DOMAIN order = 1..Cardinality(page) /\ \A i \in 1..Cardinality(page) : order[i] \in page
    BY <1>5
  <2>2. \A i \in 1..Cardinality(page) : [id |-> order[i], uid |-> sess[order[i]].uid] \in Entries
    BY <1>3, <2>1 DEF Entries
  <2>3. entry(order) \in [1..Cardinality(page) -> Entries]
    BY <2>1, <2>2
  <2>4. entry(order) \in Seq(Entries)
    BY <1>4, <2>3
  <2> QED  BY <2>1, <2>3, <2>4
<1>7. page # rows =>
        \E y \in page : next = SessionKey(y)
  BY <1>2 DEF NextToken
<1>8. next \in Key /\ (page = rows => next = <<>>)
  <2>1. page = rows => next = <<>>
    BY <1>2
  <2>2. \A y \in page : SessionKey(y) \in Keys
    BY <1>0, <1>3, KeyTypes
  <2> QED  BY <1>7, <2>1, <2>2 DEF Key, Keys
<1> DEFINE w == at(order, next)
<1>9. /\ w \in Walks /\ w.pc = "claim" /\ w.next = next /\ w.page = entry(order)
      /\ w.failed = walk[r].failed /\ w.lost = walk[r].lost
  BY <1>0, <1>6, <1>8 DEF Walks, Key
<1>10. StepWalk(r, w)
  BY <1>2
<1> HIDE DEF w, rows, entry
<1>11. /\ walk' \in [Replica -> Walks] /\ \A v \in Replica \ {r} : walk'[v] = walk[v]
       /\ walk'[r].page = w.page /\ walk'[r].failed = w.failed /\ walk'[r].lost = w.lost
       /\ w.page # <<>> => walk'[r] = w
       /\ w.page = <<>> => /\ walk'[r].pc = (IF w.next = <<>> THEN "done" ELSE "list")
                           /\ walk'[r].token = w.next
       /\ now' = now /\ task' = task /\ logged' = logged /\ list' = list /\ sweep' = sweep
       /\ cancel' = cancel
  BY <1>0, <1>9, <1>10, StepWalkIs
<1>12. Lost' = Lost /\ Failed' = Failed
  BY <1>9, <1>11 DEF Lost, Failed, Replica
<1>13. walk'[r].pc # "start"
  BY <1>9, <1>11
<1>14. Types'
  BY <1>0, <1>11 DEF Types, ProcKept
<1>15. Past'
  <2>1. ASSUME NEW v \in Replica, walk'[v].pc \in {"claim", "start"} PROVE walk'[v].page # <<>>
    <3>1. CASE v = r
      BY <1>11, <2>1, <3>1
    <3>2. CASE v # r
      BY <1>0, <1>11, <2>1, <3>2 DEF Past, Exists
    <3> QED  BY <3>1, <3>2
  <2>2. ASSUME NEW i \in DOMAIN walk'["q"].page PROVE walk'["q"].page[i].uid = "old"
    <3>1. CASE r = "q"
      <4>1. walk'["q"].page = entry(order)
        BY <1>9, <1>11, <3>1
      <4>2. i \in 1..Cardinality(page)
        BY <1>6, <4>1
      <4>3. order[i] \in rows /\ entry(order)[i].uid = sess[order[i]].uid
        BY <1>6, <4>2
      <4> QED  BY <1>3, <3>1, <4>1, <4>3
    <3>2. CASE r # "q"
      BY <1>0, <1>11, <2>2, <3>2 DEF Past, Exists, Replica
    <3> QED  BY <3>1, <3>2
  <2> QED  BY <1>0, <1>11, <2>1, <2>2 DEF Past, Exists
<1>16. ListOK'
  BY <1>0, <1>11, ListUntouched
<1>17. WalkOK'
  <2>1. ASSUME NEW s \in Sessions, Active(s), sess[s].uid = "old", s \notin Failed
        PROVE  Ahead(r, s)'
    <3>1. Ahead(r, s)
      BY <1>0, <2>1 DEF WalkOK
    <3>2. s \in rows
      BY <1>0, <2>1, <3>1 DEF rows, Ahead, Listed, PodOf
    <3>3. CASE s \in page
      <4>1. PICK i \in 1..Cardinality(page) : order[i] = s
        BY <1>5, <3>3
      <4>2. i \in DOMAIN w.page /\ w.page[i] = [id |-> s, uid |-> "old"]
        BY <1>6, <1>9, <2>1, <4>1
      <4>3. walk'[r] = w
        BY <1>11, <4>2
      <4> QED  BY <1>9, <4>2, <4>3 DEF Ahead
    <3>4. CASE s \notin page
      <4>1. PICK y \in page : next = SessionKey(y)
        BY <1>7, <3>2, <3>4
      <4>2. y \in Sessions /\ ~Below(SessionKey(s), SessionKey(y)) /\ y # s
        BY <1>1, <1>3, <3>2, <3>4 DEF Older
      <4>3. SessionKey(s) \in Keys /\ SessionKey(y) \in Keys /\ SessionKey(s) # SessionKey(y)
        BY <1>0, <4>2, KeyTypes DEF SessionKey
      <4>4. Below(next, SessionKey(s)) /\ next # <<>>
        BY <4>1, <4>2, <4>3, BelowOrder DEF Keys
      <4>5. Below(next, SessionKey(s)')
        BY <1>0, <4>4 DEF SessionKey
      <4>6. CASE w.page # <<>>
        BY <1>9, <1>11, <4>4, <4>5, <4>6 DEF Ahead
      <4>7. CASE w.page = <<>>
        BY <1>9, <1>11, <4>4, <4>5, <4>7 DEF Ahead
      <4> QED  BY <4>6, <4>7
    <3> QED  BY <3>3, <3>4
  <2>2. ASSUME NEW s \in Sessions, Active(s), sess[s].uid = "old", s \notin Failed,
               NEW v \in Replica \ {r}
        PROVE  Ahead(v, s)'
    <3>1. Ahead(v, s)
      BY <1>0, <2>2 DEF WalkOK
    <3> QED  BY <1>0, <1>11, <3>1 DEF Ahead, SessionKey
  <2>3. ASSUME NEW v \in Replica, walk'[v].pc = "start", Head(walk'[v].page).uid = "old"
        PROVE  LET e == Head(walk'[v].page) IN sess[e.id].uid # "old" \/ e.id \in Failed
    BY <1>0, <1>11, <1>13, <2>3 DEF WalkOK
  <2>4. \A s \in Sessions : Active(s)' <=> Active(s)
    BY <1>0 DEF Active
  <2> QED  BY <1>0, <1>12, <2>1, <2>2, <2>3, <2>4 DEF WalkOK
<1>18. OwnerOK'
  <2>1. ASSUME NEW s \in Sessions, s \notin Lost PROVE Owned(s)'
    BY <1>0, <1>11, <2>1 DEF OwnerOK, Owned, Active, ProcKept
  <2>2. ASSUME NEW v \in Replica, walk'[v].pc = "start", Head(walk'[v].page).uid = "old",
               Head(walk'[v].page).id \notin Lost
        PROVE  LET e == Head(walk'[v].page) IN
               /\ sess[e.id].uid = v /\ driver[e.id].at = "nobody"
               /\ sess[e.id].state \in {"RUNNING", "TERMINATING"}
    BY <1>0, <1>11, <1>13, <2>2 DEF OwnerOK, Active
  <2> QED  BY <1>0, <1>12, <2>1, <2>2 DEF OwnerOK, Active
<1>19. SweepOK'
  BY <1>0, <1>11, <1>12 DEF SweepOK, Spared, Touched, Marking, HasTask
<1>20. CancelOK'
  BY <1>0, <1>11, CancelKept DEF Core
<1> QED  BY <1>14, <1>15, <1>16, <1>17, <1>18, <1>19, <1>20 DEF Core

\* r's walk is at the first entry e of its page: no row but that session's changes,
\* its state stays, and it is not given to the dead incarnation but on a failure.
WalkRow(r, e) ==
    /\ \A x \in Sessions \ {e.id} : sess'[x] = sess[x] /\ driver'[x] = driver[x]
    /\ sess'[e.id].state = sess[e.id].state /\ sess'[e.id].upd >= sess[e.id].upd
    /\ \A x \in Sessions : /\ sess'[x].upd \in 0..now /\ driver'[x].since \in 0..now
                           /\ ~Exists(x) => sess'[x].uid = "nobody"
    /\ sess'[e.id].uid = "old" => e.id \in Failed' \/ (sess[e.id].uid = "old" /\ e.uid # "old")

\* It has its owner as its driver, and what the other walk has claimed is left alone.
WalkOwnerSafe(r, s) ==
    s \notin Lost' =>
        /\ Owned(s)'
        /\ \A v \in Replica \ {r} :
             sess[s].uid = v /\ driver[s].at = "nobody" /\ Active(s) =>
                sess'[s].uid = v /\ driver'[s].at = "nobody"

\* Nobody begins to drive what has ended, or is gone, but in the named cases.
WalkSweepSafe(s) ==
    s \notin Lost' /\ sess[s].state \in {"TERMINATED", "deleted"} => driver'[s] = driver[s]

\* The walk is at e, and has claimed it or is through with it.
Goes(r, e, w) ==
    /\ w.next = walk[r].next /\ walk[r].failed \subseteq w.failed /\ walk[r].lost \subseteq w.lost
    /\ \/ w.pc = "claim" /\ w.page = Tail(walk[r].page)
       \/ /\ w.pc = "start" /\ w.page = walk[r].page
          /\ sess'[e.id].uid # "old"
          /\ e.uid = "old" /\ e.id \notin Lost' =>
                sess'[e.id].uid = r /\ driver'[e.id].at = "nobody" /\ Active(e.id)

\* Such a step keeps the invariant.
LEMMA WalkRowStep ==
    ASSUME Core, ProcKept, NEW r \in Replica, walk[r].pc \in {"claim", "start"},
           NEW e, e = Head(walk[r].page), NEW w \in Walks, StepWalk(r, w), Goes(r, e, w),
           sess' \in [Sessions -> SessionRows], driver' \in [Sessions -> Drivers],
           spent' \in 0..MaxWrites,
           WalkRow(r, e), WalkOwnerSafe(r, e.id), WalkSweepSafe(e.id)
    PROVE  Core'
<1> DEFINE s == e.id
<1>0. Types /\ Past /\ ListOK /\ WalkOK /\ OwnerOK /\ SweepOK
  BY DEF Core
<1>1. /\ walk[r] \in Walks /\ walk[r].page \in Seq(Entries) /\ walk[r].page # <<>>
      /\ e \in Entries /\ e = walk[r].page[1] /\ s \in Sessions /\ e.uid \in {"old", "p"}
      /\ r = "q" => e.uid = "old"
      /\ Tail(walk[r].page) \in Seq(Entries)
  BY <1>0, AtHead
<1>2. /\ walk' \in [Replica -> Walks] /\ \A v \in Replica \ {r} : walk'[v] = walk[v]
      /\ walk'[r].page = w.page /\ walk'[r].failed = w.failed /\ walk'[r].lost = w.lost
      /\ w.pc # "claim" \/ w.page # <<>> => walk'[r] = w
      /\ w.pc = "claim" /\ w.page = <<>> => walk'[r].pc \in {"done", "list"}
      /\ now' = now /\ task' = task /\ logged' = logged /\ list' = list /\ sweep' = sweep
      /\ cancel' = cancel
  BY <1>0, StepWalkIs
<1>3. Lost \subseteq Lost' /\ Failed \subseteq Failed'
  BY <1>2 DEF Lost, Failed, Goes, Replica
<1>4. /\ \A x \in Sessions \ {s} : sess'[x] = sess[x] /\ driver'[x] = driver[x]
      /\ sess'[s].state = sess[s].state /\ sess'[s].upd >= sess[s].upd
      /\ sess'[s].uid = "old" => s \in Failed' \/ (sess[s].uid = "old" /\ e.uid # "old")
  BY DEF WalkRow
<1>5. \A x \in Sessions : sess'[x].state = sess[x].state
  BY <1>4
<1>6. ASSUME walk'[r].pc = "start"
      PROVE  walk'[r] = w /\ w.pc = "start" /\ walk'[r].page = walk[r].page
  BY <1>2, <1>6 DEF Goes
<1>7. Types'
  BY <1>0, <1>2 DEF Types, ProcKept
<1>8. Past'
  <2>1. ASSUME NEW v \in Replica, walk'[v].pc \in {"claim", "start"} PROVE walk'[v].page # <<>>
    <3>1. CASE v = r
      BY <1>1, <1>2, <2>1, <3>1 DEF Goes
    <3>2. CASE v # r
      BY <1>0, <1>2, <2>1, <3>2 DEF Past, Exists
    <3> QED  BY <3>1, <3>2
  <2>2. ASSUME NEW i \in DOMAIN walk'["q"].page PROVE walk'["q"].page[i].uid = "old"
    <3>0. \A j \in DOMAIN walk["q"].page : walk["q"].page[j].uid = "old"
      BY <1>0 DEF Past, Exists
    <3>1. CASE r = "q" /\ w.page = Tail(walk[r].page)
      <4>1. walk'["q"].page = Tail(walk["q"].page)
        BY <1>2, <3>1
      <4>2. i + 1 \in DOMAIN walk["q"].page /\ walk'["q"].page[i] = walk["q"].page[i + 1]
        BY <1>1, <3>1, <4>1, PageTail
      <4> QED  BY <3>0, <4>2
    <3>2. CASE r # "q" \/ w.page = walk[r].page
      <4>1. walk'["q"].page = walk["q"].page
        BY <1>2, <3>2 DEF Replica
      <4> QED  BY <3>0, <4>1
    <3> QED  BY <3>1, <3>2 DEF Goes
  <2>3. \A x \in Sessions :
           sess'[x].upd \in 0..now' /\ task'[x].upd \in 0..now' /\ driver'[x].since \in 0..now'
    BY <1>0, <1>2 DEF WalkRow, Past, Exists
  <2>4. \A x \in Sessions : ~Exists(x)' => sess'[x].uid = "nobody"
    BY <1>5 DEF WalkRow, Exists
  <2> QED  BY <1>0, <1>2, <2>1, <2>2, <2>3, <2>4 DEF Past
<1>9. ListOK'
  BY <1>0, <1>2, ListUntouched
<1>10. WalkOK'
  <2>1. ASSUME NEW x \in Sessions, Active(x)', sess'[x].uid = "old", x \notin Failed',
               NEW v \in Replica
        PROVE  Ahead(v, x)'
    <3>1. Active(x) /\ sess[x].uid = "old" /\ x \notin Failed /\ (x = s => e.uid # "old")
          /\ sess'[x].upd >= sess[x].upd
      <4>1. sess[x].upd \in Nat
        BY <1>0 DEF Types, SessionRows
      <4> QED  BY <1>3, <1>4, <2>1, <4>1 DEF Active
    <3>2. Ahead(v, x) /\ Ahead(r, x)
      BY <1>0, <3>1 DEF WalkOK
    <3>3. CASE v # r
      BY <1>0, <1>2, <3>1, <3>2, <3>3, AheadKept
    <3>4. CASE v = r /\ w.pc = "claim" /\ w.page = Tail(walk[r].page)
      <4>1. Head(walk[r].page) # [id |-> x, uid |-> "old"]
        BY <3>1
      <4>2. w.next = walk[r].next
        BY DEF Goes
      <4>3. Ahead(r, x)'
        BY <1>0, <3>1, <3>2, <3>4, <4>1, <4>2, AheadTail
      <4> QED  BY <3>4, <4>3
    <3>5. CASE v = r /\ w.pc = "start" /\ w.page = walk[r].page
      <4>1. walk'[r] = w /\ w.next = walk[r].next
        BY <1>2, <3>5 DEF Goes
      <4>2. walk[r].next \in Key
        BY <1>1 DEF Walks
      <4>3. CASE \E i \in DOMAIN walk[r].page : walk[r].page[i] = [id |-> x, uid |-> "old"]
        BY <3>5, <4>1, <4>3 DEF Ahead
      <4>4. CASE walk[r].next # <<>> /\ Below(walk[r].next, SessionKey(x))
        <5>1. walk[r].next \in Keys /\ sess[x].upd \in Nat /\ sess'[x].upd \in Nat /\ x \in Nat
          BY <1>0, <4>2, <4>4, Numbers DEF Key, Keys, Types, SessionRows
        <5>2. Below(walk[r].next, <<sess[x].upd, x>>)
          BY <4>4 DEF SessionKey
        <5>3. Below(walk[r].next, <<sess'[x].upd, x>>)
          BY <3>1, <5>1, <5>2, BelowGrows
        <5>4. Below(w.next, SessionKey(x)')
          BY <4>1, <5>3 DEF SessionKey
        <5> QED  BY <3>5, <4>1, <4>4, <5>4 DEF Ahead
      <4> QED  BY <3>2, <4>3, <4>4 DEF Ahead
    <3> QED  BY <3>3, <3>4, <3>5 DEF Goes
  <2>2. ASSUME NEW v \in Replica, walk'[v].pc = "start", Head(walk'[v].page).uid = "old",
               NEW h, h = Head(walk'[v].page).id
        PROVE  sess'[h].uid # "old" \/ h \in Failed'
    <3>1. CASE v = r
      BY <1>6, <2>2, <3>1 DEF Goes
    <3>2. CASE v # r
      <4>1. walk'[v] = walk[v] /\ h \in Sessions
        BY <1>0, <1>2, <2>2, <3>2, AtHead
      <4>2. sess[h].uid # "old" \/ h \in Failed
        BY <1>0, <2>2, <4>1 DEF WalkOK
      <4> QED  BY <1>3, <1>4, <4>1, <4>2
    <3> QED  BY <3>1, <3>2
  <2> QED  BY <2>1, <2>2 DEF WalkOK
<1>11. OwnerOK'
  <2>1. ASSUME NEW x \in Sessions, x \notin Lost' PROVE Owned(x)'
    <3>1. CASE x = s
      BY <2>1, <3>1 DEF WalkOwnerSafe
    <3>2. CASE x # s
      <4>1. sess'[x] = sess[x] /\ driver'[x] = driver[x] /\ task' = task /\ Owned(x)
        BY <1>0, <1>2, <1>3, <1>4, <2>1, <3>2 DEF OwnerOK
      <4> QED  BY <4>1 DEF Owned, Active, ProcKept
    <3> QED  BY <3>1, <3>2
  <2>2. ASSUME NEW v \in Replica, walk'[v].pc = "start", Head(walk'[v].page).uid = "old",
               NEW h, h = Head(walk'[v].page).id, h \notin Lost'
        PROVE  sess'[h].uid = v /\ driver'[h].at = "nobody" /\ Active(h)'
    <3>1. CASE v = r
      BY <1>1, <1>5, <1>6, <2>2, <3>1 DEF Goes, Active
    <3>2. CASE v # r
      <4>1. walk'[v] = walk[v] /\ h \in Sessions
        BY <1>0, <1>2, <2>2, <3>2, AtHead
      <4>2. sess[h].uid = v /\ driver[h].at = "nobody" /\ Active(h)
        BY <1>0, <1>3, <2>2, <4>1 DEF OwnerOK
      <4>3. sess'[h].uid = v /\ driver'[h].at = "nobody"
        <5>1. CASE h = s
          BY <2>2, <3>2, <4>2, <5>1 DEF WalkOwnerSafe
        <5>2. CASE h # s
          BY <1>4, <4>1, <4>2, <5>2
        <5> QED  BY <5>1, <5>2
      <4> QED  BY <1>5, <4>1, <4>2, <4>3 DEF Active
    <3> QED  BY <3>1, <3>2
  <2> QED  BY <2>1, <2>2 DEF OwnerOK
<1>12. SweepOK'
  <2>1. ASSUME NEW x \in Sessions, x \notin Lost', sess[x].state \in {"TERMINATED", "deleted"}
        PROVE  driver'[x] = driver[x]
    BY <1>4, <2>1 DEF WalkSweepSafe
  <2>2. ASSUME NEW x \in Sessions, sess'[x].state = "TERMINATED", driver'[x].at # "nobody",
               x \notin Lost'
        PROVE  driver'[x].since <= sess'[x].upd
    <3>1. driver'[x] = driver[x] /\ driver[x].since <= sess[x].upd
      BY <1>0, <1>3, <1>5, <2>1, <2>2 DEF SweepOK
    <3>2. sess'[x].upd >= sess[x].upd
      <4>1. sess[x].upd \in Nat
        BY <1>0 DEF Types, SessionRows
      <4> QED  BY <1>4, <4>1
    <3>3. sess[x].upd \in Nat /\ sess'[x].upd \in Nat /\ driver[x].since \in Nat
      BY <1>0 DEF Types, SessionRows, Drivers
    <3> QED  BY <3>1, <3>2, <3>3
  <2>3. sweep.pc = "delete" => sess'[sweep.cur].state = "TERMINATED" /\ Spared(sweep.cur)'
    <3> SUFFICES ASSUME sweep.pc = "delete"
                 PROVE  sess'[sweep.cur].state = "TERMINATED" /\ Spared(sweep.cur)'
      OBVIOUS
    <3>1. sweep.cur \in Sessions /\ sess[sweep.cur].state = "TERMINATED" /\ Spared(sweep.cur)
      BY <1>0 DEF SweepOK, Past
    <3>2. sess'[sweep.cur].state = "TERMINATED"
      BY <1>5, <3>1
    <3>3. sweep.cur \in Lost' \/ driver'[sweep.cur] = driver[sweep.cur]
      BY <2>1, <3>1
    <3> QED  BY <1>2, <1>3, <3>1, <3>2, <3>3 DEF Spared
  <2>4. ASSUME NEW x \in Sessions, sess'[x].state = "deleted", Touched(x)', x \notin Lost'
        PROVE  x \in sweep.raced
    <3>1. sess[x].state = "deleted" /\ driver'[x] = driver[x]
      BY <1>5, <2>1, <2>4
    <3>2. Touched(x)
      BY <1>2, <2>4, <3>1 DEF Touched, Marking, HasTask
    <3> QED  BY <1>0, <1>3, <2>4, <3>1, <3>2 DEF SweepOK
  <2>5. sweep.pc \in {"next", "recheck", "delete"} => sweep.cutoff <= now - Period
    BY <1>0 DEF SweepOK
  <2> QED  BY <1>2, <2>2, <2>3, <2>4, <2>5 DEF SweepOK, Spared
<1>13. CancelOK'
  BY <1>2, <1>5, CancelKept DEF Core
<1> QED  BY <1>7, <1>8, <1>9, <1>10, <1>11, <1>12, <1>13 DEF Core

\* A claim: the dead incarnation's session has no driver yet, and one that p lists
\* as its own stays its own.
LEMMA ClaimOrphanedStep ==
    ASSUME Core, ProcKept, NEW r \in Replica, ClaimOrphaned(r) PROVE Core'
<1>a. PICK e : e = Head(walk[r].page)
  OBVIOUS
<1> DEFINE s == e.id
<1>0. /\ Types /\ Past /\ OwnerOK /\ WalkOK /\ walk[r].pc = "claim" /\ driver' = driver
      /\ spent' = spent /\ r \in Uid /\ r \in {"p", "q"} /\ now \in Nat
  BY Numbers DEF Core, ClaimOrphaned, Replica, Uid, Types
<1>1. /\ walk[r] \in Walks /\ walk[r].page \in Seq(Entries) /\ walk[r].page # <<>>
      /\ e \in Entries /\ s \in Sessions /\ e.uid \in {"old", "p"} /\ (r = "q" => e.uid = "old")
      /\ Tail(walk[r].page) \in Seq(Entries)
  BY <1>0, <1>a, AtHead
<1>2. driver' \in [Sessions -> Drivers] /\ spent' \in 0..MaxWrites
  BY <1>0 DEF Types
<1>3. \A x \in Sessions : /\ sess[x].upd \in 0..now /\ driver[x].since \in 0..now
                          /\ ~Exists(x) => sess[x].uid = "nobody"
  BY <1>0, PastAt
<1>4. CASE Exists(s) /\ sess[s].uid = e.uid
  <2> DEFINE w == [walk[r] EXCEPT !.pc = "start"]
  <2>1. Stamp(s, sess[s].state, r) /\ StepWalk(r, w)
    BY <1>4, <1>a DEF ClaimOrphaned
  <2>2. /\ w \in Walks /\ w.pc = "start" /\ w.page = walk[r].page /\ w.next = walk[r].next
        /\ w.failed = walk[r].failed /\ w.lost = walk[r].lost
    BY <1>1 DEF Walks
  <2> HIDE DEF w
  <2>3. sess[s].state \in {"RUNNING", "TERMINATING", "TERMINATED"}
    BY <1>0, <1>1, <1>4 DEF Exists, Types, SessionRows
  <2>4. /\ sess' \in [Sessions -> SessionRows]
        /\ \A x \in Sessions \ {s} : sess'[x] = sess[x]
        /\ sess'[s].state = sess[s].state /\ sess'[s].uid = r
        /\ \A x \in Sessions : sess'[x].upd \in 0..now
        /\ sess'[s].upd >= sess[s].upd
    BY <1>0, <1>1, <1>4, <2>1, <2>3, StampIs
  <2>5. Lost' = Lost /\ task' = task
    BY <1>0, <2>1, <2>2, StepWalkIs DEF Lost, Replica
  <2>6. s \notin Lost => Owned(s)
    BY <1>0, <1>1 DEF OwnerOK
  <2>7. WalkRow(r, e)
    BY <1>0, <1>3, <1>4, <2>4 DEF WalkRow, Exists
  <2>8. WalkOwnerSafe(r, s)
    BY <1>0, <1>1, <1>4, <2>4, <2>5, <2>6
       DEF WalkOwnerSafe, Owned, Active, ProcKept, Replica, Exists
  <2>9. WalkSweepSafe(s)
    BY <1>0 DEF WalkSweepSafe
  <2>10. Goes(r, e, w)
    BY <1>0, <1>1, <1>4, <2>2, <2>4, <2>5, <2>6 DEF Goes, Owned, Active, Exists
  <2> QED  BY <1>0, <1>2, <2>1, <2>2, <2>4, <2>7, <2>8, <2>9, <2>10, <1>a, WalkRowStep
<1>5. CASE ~(Exists(s) /\ sess[s].uid = e.uid)
  <2> DEFINE w == [walk[r] EXCEPT !.page = Tail(@)]
  <2>1. sess' = sess /\ StepWalk(r, w)
    BY <1>5, <1>a DEF ClaimOrphaned
  <2>2. /\ w \in Walks /\ w.pc = "claim" /\ w.page = Tail(walk[r].page) /\ w.next = walk[r].next
        /\ w.failed = walk[r].failed /\ w.lost = walk[r].lost
    BY <1>0, <1>1 DEF Walks
  <2> HIDE DEF w
  <2>3. Lost' = Lost /\ task' = task
    BY <1>0, <2>1, <2>2, StepWalkIs DEF Lost, Replica
  <2>4. s \notin Lost => Owned(s)
    BY <1>0, <1>1 DEF OwnerOK
  <2>5. WalkRow(r, e)
    <3>1. sess[s].upd \in Nat
      BY <1>0, <1>1 DEF Types, SessionRows
    <3>2. sess[s].uid = "old" => e.uid # "old"
      BY <1>1, <1>3, <1>5
    <3> QED  BY <1>0, <1>3, <2>1, <3>1, <3>2 DEF WalkRow, Exists
  <2>6. WalkOwnerSafe(r, s)
    BY <1>0, <2>1, <2>3, <2>4 DEF WalkOwnerSafe, Owned, Active, ProcKept
  <2>7. WalkSweepSafe(s)
    BY <1>0 DEF WalkSweepSafe
  <2>8. Goes(r, e, w)
    BY <2>2 DEF Goes, Active
  <2>9. sess' \in [Sessions -> SessionRows]
    BY <1>0, <2>1, SMTT(40) DEF Types
  <2> QED  BY <1>0, <1>2, <2>1, <2>2, <2>5, <2>6, <2>7, <2>8, <2>9, <1>a, WalkRowStep
<1> QED  BY <1>4, <1>5

\* A start: on a claim that still holds nobody is at the session, or it is driven by
\* this replica already.
LEMMA StartClaimedStep ==
    ASSUME Core, ProcKept, NEW r \in Replica, StartClaimed(r), r = "p" => proc.main # "exited"
    PROVE  Core'
<1>a. PICK e : e = Head(walk[r].page)
  OBVIOUS
<1> DEFINE s == e.id
           w == [walk[r] EXCEPT !.pc = "claim", !.page = Tail(@),
                                !.lost = IF sess[e.id].uid = r THEN @ ELSE @ \cup {e.id}]
<1>b. PICK pc \in Places :
        driver' = IF driver[s].at = r THEN driver ELSE [driver EXCEPT ![s] = DrivenBy(r, pc)]
  BY <1>a DEF StartClaimed, Places
<1> DEFINE d == DrivenBy(r, pc)
<1>0. /\ Types /\ Past /\ OwnerOK /\ WalkOK /\ walk[r].pc = "start" /\ sess' = sess
      /\ spent' = spent /\ r \in {"p", "q"} /\ StepWalk(r, w)
      /\ driver' = IF driver[s].at = r THEN driver ELSE [driver EXCEPT ![s] = d]
  BY <1>a, <1>b DEF Core, StartClaimed, Replica
<1>1. /\ walk[r] \in Walks /\ walk[r].page \in Seq(Entries) /\ walk[r].page # <<>>
      /\ e \in Entries /\ s \in Sessions /\ e.uid \in {"old", "p"} /\ (r = "q" => e.uid = "old")
      /\ Tail(walk[r].page) \in Seq(Entries)
  BY <1>0, <1>a, AtHead
<1>2. d \in Drivers /\ d.since \in 0..now /\ d.at = r /\ now \in Nat
  BY <1>0, DrivenTypes
<1> HIDE DEF d
<1>3. /\ driver' \in [Sessions -> Drivers] /\ spent' \in 0..MaxWrites
      /\ \A x \in Sessions \ {s} : driver'[x] = driver[x]
      /\ driver'[s].at = r /\ (driver[s].at = r => driver'[s] = driver[s])
  BY <1>0, <1>1, <1>2 DEF Types
<1>4. ASSUME NEW x \in Sessions
      PROVE  /\ sess[x].upd \in 0..now /\ driver'[x].since \in 0..now
             /\ ~Exists(x) => sess[x].uid = "nobody"
  <2>1. /\ sess[x].upd \in 0..now /\ driver[x].since \in 0..now
        /\ ~Exists(x) => sess[x].uid = "nobody"
    BY <1>0, PastAt
  <2>2. driver'[x] = driver[x] \/ driver'[x] = d
    BY <1>0, <1>1 DEF Types
  <2> QED  BY <1>2, <2>1, <2>2
<1>5. /\ w \in Walks /\ w.pc = "claim" /\ w.page = Tail(walk[r].page) /\ w.next = walk[r].next
      /\ w.failed = walk[r].failed /\ walk[r].lost \subseteq w.lost
      /\ sess[s].uid # r => s \in w.lost
  BY <1>1 DEF Walks
<1> HIDE DEF w
<1>6. walk'[r].lost = w.lost /\ task' = task
  BY <1>0, <1>5, StepWalkIs
<1>7. walk'[r].failed = w.failed /\ \A v \in Replica \ {r} : walk'[v] = walk[v]
  BY <1>0, <1>5, StepWalkIs
<1>8. Lost \subseteq Lost' /\ (sess[s].uid # r => s \in Lost') /\ Failed' = Failed
  BY <1>0, <1>5, <1>6, <1>7 DEF Lost, Failed, Replica
<1>9. s \notin Lost' =>
        /\ sess[s].uid = r
        /\ (driver[s].at = "nobody" /\ Active(s)) \/ driver[s].at = r
  <2> SUFFICES ASSUME s \notin Lost'
               PROVE  /\ sess[s].uid = r
                      /\ (driver[s].at = "nobody" /\ Active(s)) \/ driver[s].at = r
    OBVIOUS
  <2>1. sess[s].uid = r /\ s \notin Lost /\ Owned(s)
    BY <1>0, <1>1, <1>8 DEF OwnerOK
  <2>2. CASE e.uid = "old"
    BY <1>0, <1>a, <2>1, <2>2 DEF OwnerOK
  <2>3. CASE e.uid # "old"
    <3>1. r = "p"
      BY <1>0, <1>1, <2>3
    <3> QED  BY <2>1, <3>1 DEF Owned
  <2> QED  BY <2>2, <2>3
<1>10. WalkRow(r, e)
  <2>1. sess[s].uid = "old" => s \in Failed' \/ e.uid # "old"
    BY <1>0, <1>8, <1>a DEF WalkOK
  <2>2. sess[s].upd \in Nat
    BY <1>0, <1>1 DEF Types, SessionRows
  <2> QED  BY <1>0, <1>3, <1>4, <2>1, <2>2 DEF WalkRow
<1>11. WalkOwnerSafe(r, s)
  BY <1>0, <1>3, <1>9 DEF WalkOwnerSafe, Owned, Active, Replica
<1>12. WalkSweepSafe(s)
  BY <1>3, <1>9 DEF WalkSweepSafe, Active
<1>13. Goes(r, e, w)
  BY <1>5 DEF Goes
<1>14. sess' \in [Sessions -> SessionRows]
  BY <1>0 DEF Types
<1> QED  BY <1>0, <1>3, <1>5, <1>10, <1>11, <1>12, <1>13, <1>14, <1>a, WalkRowStep

\* A failed start: the session goes back to whom it was listed with, while nobody
\* drives it but p what is p's own.
LEMMA StartFailsStep ==
    ASSUME Core, ProcKept, NEW r \in Replica, StartFails(r) PROVE Core'
<1>a. PICK e : e = Head(walk[r].page)
  OBVIOUS
<1> DEFINE s == e.id
           w == [walk[r] EXCEPT !.pc = "claim", !.page = Tail(@), !.failed = @ \cup {e.id}]
<1>0. /\ Types /\ Past /\ OwnerOK /\ WalkOK /\ walk[r].pc = "start" /\ driver' = driver
      /\ r \in {"p", "q"} /\ StepWalk(r, w)
  BY <1>a DEF Core, StartFails, Replica
<1>1. /\ walk[r] \in Walks /\ walk[r].page \in Seq(Entries) /\ walk[r].page # <<>>
      /\ e \in Entries /\ s \in Sessions /\ e.uid \in {"old", "p"} /\ (r = "q" => e.uid = "old")
      /\ Tail(walk[r].page) \in Seq(Entries)
  BY <1>0, <1>a, AtHead
<1>2. driver' \in [Sessions -> Drivers] /\ spent' \in 0..MaxWrites
  BY <1>0, SpendTypes DEF Types, StartFails
<1>3. \A x \in Sessions : /\ sess[x].upd \in 0..now /\ driver[x].since \in 0..now
                          /\ ~Exists(x) => sess[x].uid = "nobody"
  BY <1>0, PastAt
<1>4. /\ w \in Walks /\ w.pc = "claim" /\ w.page = Tail(walk[r].page) /\ w.next = walk[r].next
      /\ w.lost = walk[r].lost /\ walk[r].failed \subseteq w.failed /\ s \in w.failed
  BY <1>1 DEF Walks
<1> HIDE DEF w
<1>5. /\ walk'[r].lost = w.lost /\ walk'[r].failed = w.failed /\ task' = task
      /\ \A v \in Replica \ {r} : walk'[v] = walk[v]
  BY <1>0, <1>4, StepWalkIs
<1>6. Lost' = Lost /\ s \in Failed'
  BY <1>0, <1>4, <1>5 DEF Lost, Failed, Replica
<1>7. /\ sess' \in [Sessions -> SessionRows]
      /\ \A x \in Sessions \ {s} : sess'[x] = sess[x]
      /\ sess'[s].state = sess[s].state
      /\ sess'[s].uid = IF Exists(s) /\ sess[s].uid = r THEN e.uid ELSE sess[s].uid
      /\ \A x \in Sessions : sess'[x].upd \in 0..now
      /\ sess'[s].upd >= sess[s].upd
  <2>1. CASE Exists(s) /\ sess[s].uid = r
    <3>1. Stamp(s, sess[s].state, e.uid)
      BY <2>1, <1>a DEF StartFails, Reverted
    <3>2. sess[s].state \in {"RUNNING", "TERMINATING", "TERMINATED"}
      BY <1>0, <1>1, <2>1 DEF Exists, Types, SessionRows
    <3>3. e.uid \in Uid
      BY <1>1 DEF Uid
    <3> QED  BY <1>0, <1>1, <2>1, <3>1, <3>2, <3>3, StampIs
  <2>2. CASE ~(Exists(s) /\ sess[s].uid = r)
    <3>1. sess' = sess
      BY <2>2, <1>a DEF StartFails
    <3>2. sess[s].upd \in Nat
      BY <1>0, <1>1 DEF Types, SessionRows
    <3> QED  BY <1>0, <1>3, <2>2, <3>1, <3>2 DEF Types, Exists
  <2> QED  BY <2>1, <2>2
<1>8. s \notin Lost => Owned(s) /\ (e.uid = "old" => /\ sess[s].uid = r /\ Active(s)
                                                    /\ driver[s].at = "nobody")
  BY <1>0, <1>1, <1>a DEF OwnerOK
<1>9. WalkRow(r, e)
  BY <1>0, <1>3, <1>6, <1>7 DEF WalkRow, Exists
<1>10. WalkOwnerSafe(r, s)
  BY <1>0, <1>1, <1>5, <1>6, <1>7, <1>8 DEF WalkOwnerSafe, Owned, Active, ProcKept, Replica, Exists
<1>11. WalkSweepSafe(s)
  BY <1>0 DEF WalkSweepSafe
<1>12. Goes(r, e, w)
  BY <1>4 DEF Goes
<1> QED  BY <1>0, <1>2, <1>4, <1>7, <1>9, <1>10, <1>11, <1>12, <1>a, WalkRowStep

\* Every step of a walk, while the process that takes it runs.
LEMMA WalkStep ==
    ASSUME Core, ProcKept, NEW r \in Replica, Walk(r), r = "p" => proc.main # "exited" PROVE Core'
  BY ListSessionsStep, ClaimOrphanedStep, StartClaimedStep, StartFailsStep DEF Walk

-----------------------------------------------------------------------------
(***************************************************************************)
(* The clock and the retention sweep.                                       *)
(***************************************************************************)
\* Time only makes what is old older.
LEMMA TickStep == ASSUME Core, ProcKept, Tick PROVE Core'
<1>1. /\ now < MaxTime /\ now' = now + 1 /\ sess' = sess /\ task' = task /\ logged' = logged
      /\ driver' = driver /\ list' = list /\ walk' = walk /\ sweep' = sweep /\ spent' = spent
      /\ cancel' = cancel
  BY DEF Tick, tables
<1>2. /\ now \in Nat /\ now' \in Nat /\ now' \in Time /\ Period \in Nat
      /\ sweep.cutoff \in Int /\ \A x \in Sessions : driver[x].since \in Nat
  BY <1>1, Numbers DEF Core, Types, Time, Sweeps, Drivers
<1>3. Types'
  BY <1>1, <1>2 DEF Core, Types, ProcKept
<1>4. Past'
  <2>1. ASSUME NEW x \in Sessions
        PROVE  sess[x].upd \in 0..now' /\ task[x].upd \in 0..now' /\ driver[x].since \in 0..now'
    <3>1. sess[x].upd \in 0..now /\ task[x].upd \in 0..now /\ driver[x].since \in 0..now
      BY PastAt DEF Core
    <3> QED  BY <1>1, <1>2, <3>1
  <2> QED  BY <1>1, <2>1 DEF Core, Past, Exists
<1>5. ListOK'
  BY <1>1 DEF Core, ListOK, HasTask, AfterToken, TaskKey
<1>6. WalkOK'
  BY <1>1 DEF Core, WalkOK, Failed, Ahead, Active, SessionKey
<1>7. OwnerOK'
  BY <1>1 DEF Core, OwnerOK, Owned, Active, Lost, ProcKept
<1>8. SweepOK'
  <2>1. sweep.pc \in {"next", "recheck", "delete"} => sweep.cutoff <= now' - Period
    <3>1. sweep.pc \in {"next", "recheck", "delete"} => sweep.cutoff <= now - Period
      BY DEF Core, SweepOK
    <3> QED  BY <1>1, <1>2, <3>1
  <2>2. sweep.pc = "delete" => sess[sweep.cur].state = "TERMINATED" /\ Spared(sweep.cur)'
    <3> SUFFICES ASSUME sweep.pc = "delete"
                 PROVE  sess[sweep.cur].state = "TERMINATED" /\ Spared(sweep.cur)'
      OBVIOUS
    <3>1. sweep.cur \in Sessions /\ sess[sweep.cur].state = "TERMINATED" /\ Spared(sweep.cur)
      BY DEF Core, SweepOK, Past
    <3>2. Lost' = Lost
      BY <1>1 DEF Lost
    <3> QED  BY <1>1, <1>2, <3>1, <3>2 DEF Spared
  <2> QED  BY <1>1, <2>1, <2>2 DEF Core, SweepOK, Spared, Touched, Marking, HasTask, Lost
<1>9. CancelOK'
  BY <1>1, CancelKept DEF Core
<1> QED  BY <1>3, <1>4, <1>5, <1>6, <1>7, <1>8, <1>9 DEF Core

\* A step of the sweep that deletes nothing.
LEMMA SweepOnly ==
    ASSUME Core, ProcKept, sweep' \in Sweeps, spent' \in 0..MaxWrites,
           UNCHANGED <<now, tables, driver, cancel, list, walk>>, sweep'.raced = sweep.raced,
           NSessions > 0 => sweep'.cur \in Sessions,
           sweep'.pc \in {"recheck", "delete"} => sweep'.cur \in Sessions,
           sweep'.pc \in {"next", "recheck", "delete"} => sweep'.cutoff <= now - Period,
           sweep'.pc = "delete" => sess[sweep'.cur].state = "TERMINATED" /\ Spared(sweep.cur)'
    PROVE  Core'
<1>1. /\ now' = now /\ sess' = sess /\ task' = task /\ logged' = logged /\ driver' = driver
      /\ walk' = walk /\ list' = list /\ cancel' = cancel /\ Lost' = Lost
  BY DEF tables, Lost
<1>2. Types' /\ Past'
  BY <1>1 DEF Core, Types, Past, ProcKept, Exists
<1>3. ListOK' /\ WalkOK'
  BY <1>1 DEF Core, ListOK, HasTask, AfterToken, TaskKey, WalkOK, Failed, Ahead, Active, SessionKey
<1>4. OwnerOK'
  BY <1>1 DEF Core, OwnerOK, Owned, Active, ProcKept
<1>5. SweepOK'
  BY <1>1 DEF Core, SweepOK, Spared, Touched, Marking, HasTask
<1>6. CancelOK'
  BY <1>1, CancelKept DEF Core
<1> QED  BY <1>2, <1>3, <1>4, <1>5, <1>6 DEF Core

\* The batch is chosen by what is older than a retention period.
LEMMA StartSweepStep == ASSUME Core, ProcKept, StartSweep PROVE Core'
<1>1. PICK ids \in SUBSET Sessions :
         sweep' = [sweep EXCEPT !.pc = "next", !.cutoff = now - Period, !.ids = ids]
  BY DEF StartSweep, Limit
<1>2. /\ now - Period \in Int /\ sweep \in Sweeps /\ spent' \in 0..MaxWrites
  <2>1. now \in Nat /\ Period \in Nat
    BY Numbers DEF Core, Types
  <2>2. sweep \in Sweeps /\ spent \in 0..MaxWrites
    BY DEF Core, Types
  <2>3. spent' = spent
    BY DEF StartSweep
  <2> QED  BY <2>1, <2>2, <2>3
<1>3. /\ sweep' \in Sweeps /\ sweep'.pc = "next" /\ sweep'.cutoff = now - Period
      /\ sweep'.cur = sweep.cur /\ sweep'.raced = sweep.raced
  BY <1>1, <1>2 DEF Sweeps
<1>4. UNCHANGED <<now, tables, driver, cancel, list, walk>>
  BY DEF StartSweep
<1>5. NSessions > 0 => sweep'.cur \in Sessions
  BY <1>3 DEF Core, Past, Exists
<1>6. sweep'.pc \notin {"recheck", "delete"} /\ sweep'.cutoff <= now - Period
  BY <1>2, <1>3
<1> QED  BY <1>2, <1>3, <1>4, <1>5, <1>6, SweepOnly

\* The sweep goes to one of the batch's sessions.
LEMMA NextExpiredStep == ASSUME Core, ProcKept, NextExpired PROVE Core'
<1>1. /\ Types /\ Past /\ sweep \in Sweeps /\ sweep.pc = "next" /\ sweep.cutoff <= now - Period
      /\ spent' \in 0..MaxWrites /\ UNCHANGED <<now, tables, driver, cancel, list, walk>>
      /\ NSessions > 0 => sweep.cur \in Sessions
  BY DEF Core, Types, Past, Exists, NextExpired, SweepOK
<1>2. CASE sweep' = [sweep EXCEPT !.pc = "done"]
  <2>1. /\ sweep' \in Sweeps /\ sweep'.pc = "done" /\ sweep'.cur = sweep.cur
        /\ sweep'.raced = sweep.raced
    BY <1>1, <1>2 DEF Sweeps
  <2> QED  BY <1>1, <2>1, SweepOnly
<1>3. ASSUME NEW s \in sweep.ids,
             sweep' = [sweep EXCEPT !.ids = @ \ {s}, !.cur = s,
                                    !.pc = IF driver[s].at = "q" THEN "next" ELSE "recheck"]
      PROVE  Core'
  <2>1. s \in Sessions /\ s \in Int
    BY <1>1, Numbers DEF Sweeps
  <2>2. /\ sweep' \in Sweeps /\ sweep'.pc \in {"next", "recheck"} /\ sweep'.cur = s
        /\ sweep'.raced = sweep.raced /\ sweep'.cutoff = sweep.cutoff
    BY <1>1, <1>3, <2>1 DEF Sweeps
  <2>3. sweep'.pc # "delete" /\ sweep'.cutoff <= now - Period
    BY <1>1, <2>2
  <2> QED  BY <1>1, <2>1, <2>2, <2>3, SweepOnly
<1> QED  BY <1>2, <1>3 DEF NextExpired

\* The SELECT: a session that has been stamped before the cutoff has had its driver
\* for longer than a retention period.
LEMMA RecheckStep == ASSUME Core, ProcKept, Recheck PROVE Core'
<1>1. /\ Types /\ Past /\ SweepOK /\ sweep.pc = "recheck" /\ sweep.cutoff <= now - Period
      /\ spent' \in 0..MaxWrites /\ UNCHANGED <<now, tables, driver, cancel, list, walk>>
      /\ sweep.cur \in Sessions
      /\ sweep' = [sweep EXCEPT !.pc = IF StillExpired(sweep.cur) THEN "delete" ELSE "next"]
  BY DEF Core, Types, Past, Exists, Recheck, SweepOK
<1>2. /\ sweep' \in Sweeps /\ sweep'.pc \in {"delete", "next"} /\ sweep'.cur = sweep.cur
      /\ sweep'.raced = sweep.raced /\ sweep'.cutoff = sweep.cutoff
      /\ sweep'.pc = "delete" => StillExpired(sweep.cur)
  BY <1>1 DEF Types, Sweeps
<1>3. ASSUME StillExpired(sweep.cur)
      PROVE  sess[sweep'.cur].state = "TERMINATED" /\ Spared(sweep.cur)'
  <2>1. /\ sess[sweep.cur].state = "TERMINATED" /\ sess[sweep.cur].upd < sweep.cutoff
        /\ sess[sweep.cur].upd \in Nat /\ driver[sweep.cur].since \in Nat
        /\ sweep.cutoff \in Int /\ now \in Nat /\ Period \in Nat
    BY <1>1, <1>3, Numbers DEF StillExpired, Expired, Types, SessionRows, Drivers, Sweeps
  <2>2. \/ driver[sweep.cur].at = "nobody"
        \/ driver[sweep.cur].since <= sess[sweep.cur].upd
        \/ sweep.cur \in Lost
    BY <1>1, <2>1 DEF SweepOK
  <2>3. Lost' = Lost /\ driver' = driver /\ now' = now
    BY <1>1 DEF Lost
  <2>4. driver[sweep.cur].since <= sess[sweep.cur].upd => now - driver[sweep.cur].since > Period
    BY <1>1, <2>1
  <2> QED  BY <1>2, <2>1, <2>2, <2>3, <2>4 DEF Spared
<1> QED  BY <1>1, <1>2, <1>3, SweepOnly

\* A transaction that is rolled back.
LEMMA DeleteFailsStep == ASSUME Core, ProcKept, DeleteFails PROVE Core'
<1>1. /\ Types /\ Past /\ sweep.cutoff <= now - Period
      /\ UNCHANGED <<now, tables, driver, cancel, list, walk>>
      /\ NSessions > 0 => sweep.cur \in Sessions
      /\ sweep' = [sweep EXCEPT !.pc = "next"]
  BY DEF Core, Types, Past, Exists, DeleteFails, SweepOK
<1>2. /\ sweep' \in Sweeps /\ sweep'.pc = "next" /\ sweep'.cur = sweep.cur
      /\ sweep'.raced = sweep.raced /\ sweep'.cutoff = sweep.cutoff
  BY <1>1 DEF Types, Sweeps
<1>3. spent' \in 0..MaxWrites
  BY <1>1, SpendTypes DEF DeleteFails
<1> QED  BY <1>1, <1>2, <1>3, SweepOnly

\* The deletes: what they leave to a driver is noted.
LEMMA DeleteExpiredStep == ASSUME Core, ProcKept, DeleteExpired PROVE Core'
<1>1. PICK s : s = sweep.cur
  OBVIOUS
<1> DEFINE row == [NoSession EXCEPT !.state = "deleted"]
<1>2. /\ Types /\ Past /\ SweepOK /\ sweep.pc = "delete" /\ s \in Sessions
      /\ sess[s].state = "TERMINATED" /\ now \in Nat
  BY <1>1, Numbers DEF Core, Types, DeleteExpired, SweepOK, Past
<1>3. /\ sess' = [sess EXCEPT ![s] = row] /\ task' = [task EXCEPT ![s].status = "none"]
      /\ logged' = logged \ {s} /\ list' = [list EXCEPT !.calm = @ \ {s}]
      /\ sweep' = [sweep EXCEPT !.pc = "next",
                                !.raced = IF driver[s].at = "nobody" /\ ~Marking(s)
                                          THEN @ ELSE @ \cup {s}]
      /\ cancel' = cancel /\ now' = now /\ driver' = driver /\ walk' = walk /\ spent' = spent
  BY <1>1 DEF DeleteExpired, DeleteRows, Disturbed
<1>4. /\ sess'[s].state = "deleted" /\ sess'[s].uid = "nobody" /\ sess'[s].upd = 0
      /\ task'[s].status = "none" /\ task'[s].upd = task[s].upd
      /\ \A x \in Sessions \ {s} : sess'[x] = sess[x] /\ task'[x] = task[x]
  BY <1>2, <1>3 DEF Types, NoSession, TaskRows
<1>5. /\ list' \in Traversals /\ list'.pc = list.pc /\ list'.token = list.token
      /\ list'.seen = list.seen /\ list'.calm = list.calm \ {s}
  BY <1>2, <1>3 DEF Types, Traversals
<1>6. /\ sweep' \in Sweeps /\ sweep'.pc = "next" /\ sweep'.cutoff = sweep.cutoff
      /\ sweep'.cur = sweep.cur /\ sweep.raced \subseteq sweep'.raced
      /\ driver[s].at # "nobody" \/ Marking(s) => s \in sweep'.raced
  BY <1>2, <1>3 DEF Types, Sweeps
<1>7. Types'
  <2>1. row \in SessionRows
    BY DEF NoSession, SessionRows, Uid
  <2>2. task' \in [Sessions -> TaskRows]
    BY <1>2, <1>3 DEF Types, TaskRows
  <2> QED  BY <1>2, <1>3, <1>5, <1>6, <2>1, <2>2 DEF Types, ProcKept
<1>8. Past'
  <2>1. ASSUME NEW x \in Sessions
        PROVE  /\ sess'[x].upd \in 0..now /\ task'[x].upd \in 0..now /\ driver'[x].since \in 0..now
               /\ ~Exists(x)' => sess'[x].uid = "nobody"
    <3>1. /\ sess[x].upd \in 0..now /\ task[x].upd \in 0..now /\ driver[x].since \in 0..now
          /\ ~Exists(x) => sess[x].uid = "nobody"
      BY <1>2, PastAt
    <3> QED  BY <1>2, <1>3, <1>4, <3>1 DEF Exists
  <2> QED  BY <1>2, <1>3, <1>6, <2>1 DEF Past, Exists
<1>9. OneRow(s) /\ WalkSafe(s)
  BY <1>2, <1>3, <1>4 DEF OneRow, WalkSafe, Over, Marking
<1>10. ListSafe(s)
  <2>1. task[s].upd \in Nat
    BY <1>2 DEF Types, TaskRows
  <2> QED  BY <1>4, <1>5, <2>1 DEF ListSafe
<1>11. OwnerSafe(s)
  BY <1>2, <1>4 DEF OwnerSafe, Owned, Active, Replica
<1>12. SweepSafe(s)
  <2>1. Touched(s)' => driver[s].at # "nobody" \/ Marking(s)
    BY <1>3, <1>4 DEF Touched, Marking, HasTask
  <2> QED  BY <1>2, <1>3, <1>4, <1>6, <2>1 DEF SweepSafe
<1> QED  BY <1>2, <1>7, <1>8, <1>9, <1>10, <1>11, <1>12, RowStep

-----------------------------------------------------------------------------
(***************************************************************************)
(* Replica p's process.                                                     *)
(***************************************************************************)
\* A step that leaves the store alone.
LEMMA StoreUntouched ==
    ASSUME Core, ProcKept, UNCHANGED <<now, store>>, spent' \in 0..MaxWrites PROVE Core'
<1>1. /\ now' = now /\ sess' = sess /\ task' = task /\ logged' = logged /\ driver' = driver
      /\ walk' = walk /\ list' = list /\ sweep' = sweep /\ cancel' = cancel
  BY DEF store, tables
<1>2. Types' /\ Past'
  BY <1>1 DEF Core, Types, Past, ProcKept, Exists
<1>3. ListOK' /\ WalkOK'
  BY <1>1 DEF Core, ListOK, HasTask, AfterToken, TaskKey, WalkOK, Failed, Ahead, Active, SessionKey
<1>4. OwnerOK'
  BY <1>1 DEF Core, OwnerOK, Owned, Active, ProcKept, Lost
<1>5. SweepOK'
  BY <1>1 DEF Core, SweepOK, Spared, Touched, Marking, HasTask, Lost
<1>6. CancelOK'
  BY <1>1, CancelKept DEF Core
<1> QED  BY <1>2, <1>3, <1>4, <1>5, <1>6 DEF Core

\* The process ends, and leaves its sessions to whoever looks for its uid.
LEMMA ExitStep ==
    ASSUME Core, NEW cut \in BOOLEAN, Exit(cut), spent' \in 0..MaxWrites
    PROVE  Core' /\ proc' \in Processes /\ proc'.main = "exited" /\ proc'.drain = proc.drain
           /\ proc'.cut = cut /\ proc'.late = proc.late /\ sess' = sess
<1>0. Types /\ Past /\ ListOK /\ WalkOK /\ OwnerOK /\ CancelOK /\ SweepOK
  BY DEF Core
<1>1. /\ now' = now /\ sess' = sess /\ task' = task /\ logged' = logged /\ list' = list
      /\ walk' = walk /\ sweep' = sweep
      /\ driver' = [s \in Sessions |-> IF driver[s].at = "p" THEN NoDriver ELSE driver[s]]
      /\ cancel' = IF cancel.at = "p" THEN NoCancel ELSE cancel
      /\ proc' = [proc EXCEPT !.main = "exited", !.req = 0, !.cut = cut]
  BY DEF Exit, tables
<1>2. /\ proc' \in Processes /\ proc'.main = "exited" /\ proc'.drain = proc.drain
      /\ proc'.cut = cut /\ proc'.late = proc.late
  BY <1>0, <1>1 DEF Types, Processes
<1>3. /\ NoDriver \in Drivers /\ NoDriver.at = "nobody" /\ NoDriver.since = 0
      /\ now \in Nat
  BY <1>0, Numbers DEF NoDriver, Drivers, Places, Types
<1>4. /\ driver' \in [Sessions -> Drivers]
      /\ \A s \in Sessions : /\ driver[s].at = "p" => driver'[s] = NoDriver
                             /\ driver[s].at # "p" => driver'[s] = driver[s]
  BY <1>0, <1>1, <1>3 DEF Types
<1>5. Types'
  <2>1. cancel' \in Cancels
    BY <1>0, <1>1 DEF Types, Cancels, NoCancel
  <2> QED  BY <1>0, <1>1, <1>2, <1>4, <2>1 DEF Types
<1>6. Past'
  <2>1. ASSUME NEW x \in Sessions PROVE driver'[x].since \in 0..now
    <3>1. driver[x].since \in 0..now
      BY <1>0, PastAt
    <3> QED  BY <1>3, <1>4, <3>1
  <2> QED  BY <1>0, <1>1, <2>1 DEF Past, Exists
<1>7. ListOK' /\ WalkOK'
  BY <1>0, <1>1 DEF ListOK, HasTask, AfterToken, TaskKey, WalkOK, Failed, Ahead, Active, SessionKey
<1>8. Lost' = Lost
  BY <1>1 DEF Lost
<1>9. OwnerOK'
  <2>1. ASSUME NEW x \in Sessions, x \notin Lost PROVE Owned(x)'
    <3>1. Owned(x)
      BY <1>0, <2>1 DEF OwnerOK
    <3> QED  BY <1>1, <1>2, <1>3, <1>4, <3>1 DEF Owned, Active, Replica
  <2>2. ASSUME NEW r \in Replica, walk[r].pc = "start", Head(walk[r].page).uid = "old",
               NEW h, h = Head(walk[r].page).id, h \notin Lost
        PROVE  sess[h].uid = r /\ driver'[h].at = "nobody" /\ Active(h)
    <3>1. h \in Sessions
      BY <1>0, <2>2, AtHead
    <3>2. sess[h].uid = r /\ driver[h].at = "nobody" /\ Active(h)
      BY <1>0, <2>2 DEF OwnerOK
    <3> QED  BY <1>4, <3>1, <3>2
  <2> QED  BY <1>1, <1>8, <2>1, <2>2 DEF OwnerOK, Active
<1>10. SweepOK'
  <2>1. sweep.pc = "delete" => sess[sweep.cur].state = "TERMINATED" /\ Spared(sweep.cur)'
    <3> SUFFICES ASSUME sweep.pc = "delete"
                 PROVE  sess[sweep.cur].state = "TERMINATED" /\ Spared(sweep.cur)'
      OBVIOUS
    <3>1. sweep.cur \in Sessions /\ sess[sweep.cur].state = "TERMINATED" /\ Spared(sweep.cur)
      BY <1>0 DEF SweepOK, Past
    <3> QED  BY <1>1, <1>3, <1>4, <1>8, <3>1 DEF Spared
  <2>2. ASSUME NEW x \in Sessions PROVE driver'[x].at # "nobody" => driver'[x] = driver[x]
    BY <1>3, <1>4
  <2>3. \A x \in Sessions : sess[x].state = "TERMINATED" /\ driver'[x].at # "nobody" =>
           driver'[x].since <= sess[x].upd \/ x \in Lost
    BY <1>0, <2>2 DEF SweepOK
  <2>4. ASSUME NEW x \in Sessions, sess[x].state = "deleted", Touched(x)'
        PROVE  x \in sweep.raced \cup Lost
    <3>1. Marking(x)' => Marking(x)
      BY <1>1 DEF Marking, NoCancel
    <3>2. Touched(x)
      BY <1>1, <2>2, <2>4, <3>1 DEF Touched, HasTask
    <3> QED  BY <1>0, <2>4, <3>2 DEF SweepOK
  <2> QED  BY <1>0, <1>1, <1>8, <2>1, <2>3, <2>4 DEF SweepOK, Spared
<1>11. CancelOK'
  BY <1>0, <1>1 DEF CancelOK, NoCancel
<1> QED  BY <1>1, <1>2, <1>5, <1>6, <1>7, <1>9, <1>10, <1>11 DEF Core

\* A request of a replica takes a session.
LEMMA TakeStep ==
    ASSUME Core, ProcKept, NEW s \in Sessions, NEW r \in Replica, Take(s, r) PROVE Core'
<1>1. spent' \in 0..MaxWrites /\ "turn" \in Places
  BY SpendTypes DEF Take, Core, Places
<1>2. CASE CreateSession(s, r)
  BY <1>2, CreateStep DEF Take
<1>3. CASE ClaimSession(s, r)
  BY <1>1, <1>3, ClaimStep DEF Take, ClaimSession
<1> QED  BY <1>2, <1>3 DEF Take

\* The last step of a cancellation claims the session, or leaves it alone.
LEMMA CleanupStep ==
    ASSUME Core, ProcKept, NEW r \in Replica, ClaimForCleanup(r), UNCHANGED <<now, walk>>
    PROVE  Core'
<1>1. /\ Types /\ CancelOK /\ cancel.pc = "claim" /\ cancel' = NoCancel /\ spent' = spent
  BY DEF Core, ClaimForCleanup
<1>2. spent' \in 0..MaxWrites /\ "end" \in Places /\ cancel.s \in Sessions
  BY <1>1 DEF Types, CancelOK, Places
<1>3. CASE Claim(cancel.s, r, "end")
  <2>1. PICK s \in Sessions : s = cancel.s
    BY <1>2
  <2>2. Claim(s, r, "end")
    BY <1>3, <2>1
  <2> QED  BY <1>1, <1>2, <2>2, ClaimStep
<1>4. CASE UNCHANGED <<tables, driver, list, sweep>>
  <2>1. /\ now' = now /\ sess' = sess /\ task' = task /\ logged' = logged /\ driver' = driver
        /\ walk' = walk /\ list' = list /\ sweep' = sweep /\ Lost' = Lost
        /\ cancel' = NoCancel
    BY <1>1, <1>4 DEF tables, Lost
  <2>2. Types' /\ Past'
    <3>1. NoCancel \in Cancels
      BY DEF NoCancel, Cancels
    <3> QED  BY <1>2, <2>1, <3>1 DEF Core, Types, Past, ProcKept, Exists
  <2>3. ListOK' /\ WalkOK'
    BY <2>1 DEF Core, ListOK, HasTask, AfterToken, TaskKey, WalkOK, Failed, Ahead, Active,
       SessionKey
  <2>4. OwnerOK'
    BY <2>1 DEF Core, OwnerOK, Owned, Active, ProcKept
  <2>5. SweepOK'
    <3>1. \A x \in Sessions : Touched(x)' => Touched(x)
      BY <2>1 DEF Touched, Marking, NoCancel, HasTask
    <3> QED  BY <2>1, <3>1 DEF Core, SweepOK, Spared
  <2>6. CancelOK'
    BY <2>1 DEF CancelOK, NoCancel
  <2> QED  BY <2>2, <2>3, <2>4, <2>5, <2>6 DEF Core
<1> QED  BY <1>3, <1>4 DEF ClaimForCleanup

\* Every step of a cancellation.
LEMMA CancelStep ==
    ASSUME Core, ProcKept, NEW r \in Replica, Cancel(r) PROVE Core'
  BY CancelTaskStep, MarkerStep, CleanupStep DEF Cancel

\* Everything but p's process.
LEMMA OthersStep == ASSUME Core, Others, UNCHANGED proc PROVE Core'
<1>1. ProcKept /\ "q" \in Replica /\ "q" # "p"
  BY DEF Core, Types, ProcKept, Replica
<1> QED  BY <1>1, TickStep, DriveStep, TakeStep, CancelStep, ListTasksStep, ListPageStep, WalkStep,
            StartSweepStep, NextExpiredStep, RecheckStep, DeleteExpiredStep, DeleteFailsStep
         DEF Others, Sweep

\* Nothing but p's requests and its walk makes a RUNNING session p's.
Fewer == \A s \in Sessions : sess'[s].state = "RUNNING" /\ sess'[s].uid = "p" =>
             sess[s].state = "RUNNING" /\ sess[s].uid = "p"

\* A failed start gives p nothing but what it had.
LEMMA StartFailsFewer ==
    ASSUME Types, Past, NEW r \in Replica, StartFails(r) PROVE Fewer
<1>a. PICK e : e = Head(walk[r].page)
  OBVIOUS
<1>1. e.id \in Sessions /\ e.uid \in {"old", "p"} /\ (r = "q" => e.uid = "old")
  BY <1>a, AtHead DEF StartFails
<1>2. \/ sess' = sess
      \/ /\ sess[e.id].uid = r
         /\ sess' = [sess EXCEPT ![e.id] = [state |-> sess[e.id].state, uid |-> e.uid, upd |-> now]]
  BY <1>a DEF StartFails, Stamp, Reverted
<1> QED  BY <1>1, <1>2 DEF Fewer, Types, Replica

\* A cancellation has stopped what it claims.
LEMMA CancelFewer ==
    ASSUME Types, CancelOK, NEW r \in Replica, Cancel(r) PROVE Fewer
<1>1. ASSUME NEW s \in Sessions, CancelTask(s, r) PROVE Fewer
  BY <1>1 DEF CancelTask, Stamp, Fewer, Types
<1>2. CASE appendCancellationMarker(r)
  BY <1>2 DEF appendCancellationMarker, Fewer
<1>3. CASE ClaimForCleanup(r)
  <2>1. cancel.s \in Sessions /\ sess[cancel.s].state # "RUNNING"
    BY <1>3 DEF ClaimForCleanup, CancelOK, Over
  <2>2. \/ sess' = sess
        \/ sess' = [sess EXCEPT ![cancel.s].uid = r, ![cancel.s].upd = now]
    BY <1>3 DEF ClaimForCleanup, Claim, tables
  <2> QED  BY <2>1, <2>2 DEF Fewer, Types, SessionRows
<1> QED  BY <1>1, <1>2, <1>3 DEF Cancel

\* Neither do the others' statements.
LEMMA OthersFewer == ASSUME Types, Past, CancelOK, Others PROVE Fewer
<1>1. CASE Tick \/ ListTasks \/ ListPage \/ StartSweep \/ NextExpired \/ Recheck \/ DeleteFails
  BY <1>1 DEF Tick, ListTasks, ListPage, StartSweep, NextExpired, Recheck, DeleteFails, tables,
     Fewer
<1>2. ASSUME NEW s \in Sessions, Take(s, "q") PROVE Fewer
  BY <1>2 DEF Take, CreateSession, ClaimSession, Claim, Fewer, Types, SessionRows
<1>3. ASSUME NEW s \in Sessions, Drive(s) PROVE Fewer
  <2>1. CASE Turn(s) \/ RecordStatus(s)
    BY <2>1 DEF Turn, RecordStatus, Fewer
  <2>2. CASE MarkTerminating(s) \/ TerminateSession(s) \/ ReleaseSession(s)
    BY <2>2 DEF MarkTerminating, TerminateSession, ReleaseSession, Stamp, Fewer, Types
  <2> QED  BY <1>3, <2>1, <2>2 DEF Drive
<1>4. CASE Walk("q")
  <2>1. "q" \in Replica
    BY SMTT(40) DEF Replica
  <2>2. CASE ListSessions("q") \/ StartClaimed("q")
    BY <2>2 DEF ListSessions, StartClaimed, Fewer
  <2>3. CASE ClaimOrphaned("q")
    BY <2>3 DEF ClaimOrphaned, Stamp, Fewer, Types
  <2> QED  BY <1>4, <2>1, <2>2, <2>3, StartFailsFewer DEF Walk
<1>5. CASE DeleteExpired
  BY <1>5 DEF DeleteExpired, DeleteRows, NoSession, Fewer, Types
<1>6. CASE Cancel("q")
  <2>1. "q" \in Replica
    BY SMTT(40) DEF Replica
  <2> QED  BY <1>6, <2>1, CancelFewer
<1> QED  BY <1>1, <1>2, <1>3, <1>4, <1>5, <1>6 DEF Others, Sweep

\* What the drain has counted stays counted.
LEMMA CountKept ==
    ASSUME Types, ProcessOK, Fewer, proc' = proc PROVE ProcessOK'
  BY DEF ProcessOK, Fewer

\* Every step of p's process.
LEMMA ProcessStep == ASSUME IInv, Process PROVE IInv'
<1>0. Core /\ Types /\ Past /\ CancelOK /\ ProcessOK /\ proc \in Processes /\ "p" \in Replica
      /\ spent \in 0..MaxWrites
  BY DEF IInv, Core, Types, Replica
<1>1. ASSUME Core', ProcessOK' PROVE IInv'
  BY <1>1 DEF IInv, Core
<1>2. ASSUME UNCHANGED proc PROVE ProcKept
  BY <1>0, <1>2 DEF ProcKept
<1>3. ASSUME Undisturbed PROVE IInv'
  <2>1. ProcKept /\ proc.main = "off" /\ proc' = proc
    BY <1>2, <1>3 DEF Undisturbed
  <2>2. Core'
    BY <1>0, <1>3, <2>1, WalkStep, TakeStep, CancelStep DEF Undisturbed
  <2>3. ProcessOK'
    BY <1>0, <2>1 DEF ProcessOK
  <2> QED  BY <1>1, <2>2, <2>3
<1>4. ASSUME NEW s \in Sessions, SendMessage(s) PROVE IInv'
  <2>1. /\ proc' = [proc EXCEPT !.req = s] /\ UNCHANGED <<now, store, spent>>
    BY <1>4 DEF SendMessage
  <2>2. /\ proc' \in Processes /\ proc'.main = proc.main /\ proc'.drain = proc.drain
        /\ proc'.cut = proc.cut /\ proc'.late = proc.late
    BY <1>0, <2>1 DEF Processes
  <2>3. ProcKept /\ sess' = sess
    BY <2>1, <2>2 DEF ProcKept, store, tables
  <2>4. Core'
    BY <1>0, <2>1, <2>3, StoreUntouched
  <2>5. ProcessOK'
    BY <1>0, <2>2, <2>3 DEF ProcessOK
  <2> QED  BY <1>1, <2>4, <2>5
<1>5. ASSUME Proceed PROVE IInv'
  <2> DEFINE late == IF proc.drain \in {"count", "done"} THEN proc.late \cup {proc.req}
                     ELSE proc.late
  <2>1. proc.req \in Sessions /\ proc.main \in {"wait", "up"}
    BY <1>0, <1>5 DEF Proceed, Alive, Processes
  <2>2. CASE /\ Take(proc.req, "p")
             /\ proc' = [proc EXCEPT !.req = 0, !.late = late]
    <3>1. /\ proc' \in Processes /\ proc'.main = proc.main /\ proc'.drain = proc.drain
          /\ proc'.cut = proc.cut /\ proc'.late = late
      BY <1>0, <2>1, <2>2 DEF Processes
    <3>2. ProcKept
      BY <3>1 DEF ProcKept
    <3>3. PICK s : s = proc.req
      OBVIOUS
    <3>4. s \in Sessions /\ Take(s, "p")
      BY <2>1, <2>2, <3>3
    <3>5. Core'
      BY <1>0, <3>2, <3>4, TakeStep
    <3>6. \A x \in Sessions \ {s} : sess'[x] = sess[x]
      BY <1>0, <3>4 DEF Take, CreateSession, ClaimSession, Claim, Types
    <3>7. ProcessOK'
      BY <1>0, <3>1, <3>3, <3>6 DEF ProcessOK
    <3> QED  BY <1>1, <3>5, <3>7
  <2>3. CASE proc' = [proc EXCEPT !.req = 0] /\ UNCHANGED <<now, store, spent>>
    <3>1. /\ proc' \in Processes /\ proc'.main = proc.main /\ proc'.drain = proc.drain
          /\ proc'.cut = proc.cut /\ proc'.late = proc.late
      BY <1>0, <2>3 DEF Processes
    <3>2. ProcKept /\ sess' = sess
      BY <2>3, <3>1 DEF ProcKept, store, tables
    <3>3. Core'
      BY <1>0, <2>3, <3>2, StoreUntouched
    <3>4. ProcessOK'
      BY <1>0, <3>1, <3>2 DEF ProcessOK
    <3> QED  BY <1>1, <3>3, <3>4
  <2> QED  BY <1>5, <2>2, <2>3 DEF Proceed
<1>6. ASSUME NEW cut \in BOOLEAN, Exit(cut), spent' \in 0..MaxWrites,
             cut \/ (proc.drain = "done" /\ cut = proc.cut)
      PROVE  IInv'
  <2>1. Core' /\ proc'.main = "exited" /\ proc'.drain = proc.drain
        /\ proc'.cut = cut /\ proc'.late = proc.late /\ sess' = sess
    BY <1>0, <1>6, ExitStep
  <2>2. ProcessOK'
    BY <1>0, <1>6, <2>1 DEF ProcessOK
  <2> QED  BY <1>1, <2>1, <2>2
<1>7. ASSUME waitForBaseURL PROVE IInv'
  <2>1. CASE proc' = [proc EXCEPT !.main = "up"] /\ UNCHANGED <<now, store, spent>>
    <3>1. /\ proc' \in Processes /\ proc'.main = "up" /\ proc'.drain = proc.drain
          /\ proc'.cut = proc.cut /\ proc'.late = proc.late
      BY <1>0, <2>1 DEF Processes
    <3>2. ProcKept /\ sess' = sess
      BY <1>7, <2>1, <3>1 DEF ProcKept, store, tables, waitForBaseURL
    <3>3. Core'
      BY <1>0, <2>1, <3>2, StoreUntouched
    <3>4. ProcessOK'
      BY <1>0, <3>1, <3>2 DEF ProcessOK
    <3> QED  BY <1>1, <3>3, <3>4
  <2>2. CASE Spend /\ Exit(TRUE)
    BY <1>0, <1>6, <2>2, SpendTypes
  <2> QED  BY <1>7, <2>1, <2>2 DEF waitForBaseURL
<1>8. ASSUME resumeServerSessions PROVE IInv'
  <2>1. proc.main = "up"
    BY <1>8 DEF resumeServerSessions
  <2>2. CASE ~Signaled /\ Walk("p") /\ UNCHANGED proc
    <3>1. Core'
      BY <1>0, <1>2, <2>1, <2>2, WalkStep
    <3>2. ProcessOK'
      BY <1>0, <2>1, <2>2 DEF ProcessOK, Signaled
    <3> QED  BY <1>1, <3>1, <3>2
  <2>3. CASE StartFails("p") /\ UNCHANGED proc
    <3>1. Core'
      BY <1>0, <1>2, <2>3, StartFailsStep
    <3>2. ProcessOK'
      BY <1>0, <2>3, StartFailsFewer, CountKept
    <3> QED  BY <1>1, <3>1, <3>2
  <2>4. CASE Exit(TRUE) /\ UNCHANGED spent
    BY <1>0, <1>6, <2>4
  <2> QED  BY <1>8, <2>2, <2>3, <2>4 DEF resumeServerSessions
<1>9. ASSUME ServeReturns PROVE IInv'
  <2>1. proc.cut \in BOOLEAN /\ proc.drain = "done" /\ Exit(proc.cut) /\ spent' = spent
    BY <1>0, <1>9 DEF ServeReturns, Processes
  <2>2. PICK cut : cut = proc.cut
    OBVIOUS
  <2>3. Exit(cut)
    BY <2>1, <2>2 DEF Exit
  <2> QED  BY <1>0, <1>6, <2>1, <2>2, <2>3
<1>10. ASSUME NEW d \in {"shutdown", "count", "done"}, NEW cut \in BOOLEAN,
              proc.main \in {"wait", "up"},
              proc' = [proc EXCEPT !.drain = d, !.cut = cut], cut \/ cut = proc.cut,
              UNCHANGED <<now, store>>, spent' \in 0..MaxWrites,
              d = "done" /\ ~cut => \A s \in Sessions :
                 ~(sess[s].state = "RUNNING" /\ sess[s].uid = "p")
       PROVE  IInv'
  <2>1. /\ proc' \in Processes /\ proc'.main = proc.main /\ proc'.drain = d /\ proc'.cut = cut
        /\ proc'.late = proc.late
    BY <1>0, <1>10 DEF Processes
  <2>2. ProcKept /\ sess' = sess
    BY <1>10, <2>1 DEF ProcKept, store, tables
  <2>3. Core'
    BY <1>0, <1>10, <2>2, StoreUntouched
  <2>4. ProcessOK'
    BY <1>10, <2>1, <2>2 DEF ProcessOK
  <2> QED  BY <1>1, <2>3, <2>4
<1>11. proc.cut \in BOOLEAN /\ \A d : [proc EXCEPT !.drain = d] = [proc EXCEPT !.drain = d,
                                                                              !.cut = proc.cut]
  BY <1>0 DEF Processes
<1>12. ASSUME Sigterm PROVE IInv'
  <2>1. /\ proc.main \in {"wait", "up"} /\ proc' = [proc EXCEPT !.drain = "shutdown"]
        /\ UNCHANGED <<now, store>> /\ spent' = spent
    BY <1>12 DEF Sigterm, Alive
  <2>2. PICK cut \in BOOLEAN : cut = proc.cut
    BY <1>11
  <2>3. proc' = [proc EXCEPT !.drain = "shutdown", !.cut = cut]
    BY <1>11, <2>1, <2>2
  <2> QED  BY <1>0, <1>10, <2>1, <2>2, <2>3
<1>13. ASSUME Shutdown PROVE IInv'
  <2>1. /\ proc.main \in {"wait", "up"} /\ proc' = [proc EXCEPT !.drain = "count"]
        /\ UNCHANGED <<now, store>>
    BY <1>13 DEF Shutdown, Alive
  <2>2. spent' \in 0..MaxWrites
    BY <1>0, <1>13, SpendTypes DEF Shutdown
  <2>3. PICK cut \in BOOLEAN : cut = proc.cut
    BY <1>11
  <2>4. proc' = [proc EXCEPT !.drain = "count", !.cut = cut]
    BY <1>11, <2>1, <2>3
  <2> QED  BY <1>10, <2>1, <2>2, <2>3, <2>4
<1>14. ASSUME Drain PROVE IInv'
  <2>1. proc.main \in {"wait", "up"} /\ UNCHANGED <<now, store>>
    BY <1>14 DEF Drain, Alive
  <2>2. CASE /\ CountOwnedRunningSessions = 0 /\ proc' = [proc EXCEPT !.drain = "done"]
             /\ spent' = spent
    <3> DEFINE running == {s \in Sessions : sess[s].state = "RUNNING"
                                            /\ PodOf(sess[s].uid) = "p"}
    <3>1. IsFiniteSet(Sessions)
      BY Numbers, FS_Interval DEF Sessions
    <3>2. IsFiniteSet(running)
      BY <3>1, FS_Subset
    <3>3. running = {}
      BY <2>2, <3>2, FS_EmptySet DEF CountOwnedRunningSessions
    <3>4. \A s \in Sessions : ~(sess[s].state = "RUNNING" /\ sess[s].uid = "p")
      BY <3>3 DEF PodOf
    <3>5. PICK cut \in BOOLEAN : cut = proc.cut
      BY <1>11
    <3>6. proc' = [proc EXCEPT !.drain = "done", !.cut = cut]
      BY <1>11, <2>2, <3>5
    <3> QED  BY <1>0, <1>10, <2>1, <2>2, <3>4, <3>5, <3>6
  <2>3. CASE proc' = [proc EXCEPT !.drain = "done", !.cut = TRUE] /\ Spend
    BY <1>0, <1>10, <2>1, <2>3, SpendTypes
  <2> QED  BY <1>14, <2>2, <2>3 DEF Drain
<1>15. ASSUME Cancellation PROVE IInv'
  <2>1. Cancel("p") /\ ProcKept /\ proc' = proc
    BY <1>2, <1>15 DEF Cancellation
  <2>2. Core'
    BY <1>0, <2>1, CancelStep
  <2>3. ProcessOK'
    BY <1>0, <2>1, CancelFewer, CountKept
  <2> QED  BY <1>1, <2>2, <2>3
<1> QED  BY <1>3, <1>4, <1>5, <1>7, <1>8, <1>9, <1>12, <1>13, <1>14, <1>15 DEF Process

-----------------------------------------------------------------------------
(***************************************************************************)
(* The invariant.                                                           *)
(***************************************************************************)
\* What the program finds at its start satisfies it.
LEMMA InitOK == ASSUME SInit PROVE IInv
<1>1. PICK start \in Starts :
         /\ InitFor(start)
         /\ proc = IF "drain" \in start.walks THEN [NoProcess EXCEPT !.main = "wait"] ELSE NoProcess
  BY DEF SInit
<1> DEFINE left == start.left
           begin(w, label) == IF w \in start.walks THEN label ELSE "off"
<1>2. /\ left \in [Sessions -> Leftover] /\ start.writes \in 0..MaxWrites
      /\ sess = [s \in Sessions |-> IF left[s][1] = "none" THEN NoSession
                                    ELSE [state |-> left[s][1], uid |-> left[s][2],
                                          upd |-> LeftAt[s]]]
      /\ task = [s \in Sessions |-> IF left[s][3] = "none" THEN NoTask
                                    ELSE [status |-> left[s][3], upd |-> LeftAt[s]]]
  BY <1>1, StartsAssumption DEF InitFor
<1> HIDE DEF left
<1>3. /\ now = StartTime /\ logged = {s \in Sessions : sess[s].state # "none"}
      /\ driver = [s \in Sessions |-> NoDriver] /\ cancel = NoCancel
      /\ spent = MaxWrites - start.writes
      /\ list = [pc |-> begin("list", "rest"), token |-> <<>>, calm |-> {},
                 seen |-> [s \in Sessions |-> 0]]
      /\ walk = [r \in Replica |-> [pc |-> begin(r, "list"), token |-> <<>>, page |-> <<>>,
                                    next |-> <<>>, failed |-> {}, lost |-> {}]]
      /\ sweep = [pc |-> begin("sweep", "rest"), cutoff |-> 0, ids |-> {}, cur |-> 1, raced |-> {}]
  BY <1>1 DEF InitFor
<1>4. StartTime \in Nat /\ StartTime \in Time /\ \A s \in Sessions : LeftAt[s] \in 0..StartTime
  BY Numbers, LeftAtAssumption DEF Time
<1>5. ASSUME NEW s \in Sessions
      PROVE  /\ sess[s] \in SessionRows /\ task[s] \in TaskRows
             /\ sess[s].upd \in 0..now /\ task[s].upd \in 0..now
             /\ sess[s].uid \in {"nobody", "old"} /\ sess[s].state # "deleted"
             /\ sess[s].uid = "old" => sess[s].state \in {"RUNNING", "TERMINATING"}
  <2>1. left[s] \in Leftover
    BY <1>2
  <2>2. /\ sess[s] = IF left[s][1] = "none" THEN NoSession
                     ELSE [state |-> left[s][1], uid |-> left[s][2], upd |-> LeftAt[s]]
        /\ task[s] = IF left[s][3] = "none" THEN NoTask
                     ELSE [status |-> left[s][3], upd |-> LeftAt[s]]
    BY <1>2
  <2>3. LeftAt[s] \in Nat /\ LeftAt[s] \in 0..now /\ 0 \in 0..now
    BY <1>3, <1>4
  <2>4. /\ left[s][1] \in {"none", "RUNNING", "TERMINATING", "TERMINATED"}
        /\ left[s][2] \in {"nobody", "old"}
        /\ left[s][3] \in {"none", "working", "input", "ended"}
        /\ left[s][2] = "old" => left[s][1] \in {"RUNNING", "TERMINATING"}
    BY <2>1 DEF Leftover
  <2> QED  BY <2>2, <2>3, <2>4 DEF SessionRows, TaskRows, NoSession, NoTask, Uid
<1>6. /\ list.pc \in {"off", "rest"} /\ list.token = <<>> /\ list.calm = {}
      /\ \A s \in Sessions : list.seen[s] = 0
      /\ sweep.pc \in {"off", "rest"} /\ sweep.cur = 1 /\ sweep.raced = {}
      /\ proc.main \in {"off", "wait"} /\ proc.drain = "no"
      /\ \A s \in Sessions : driver[s].at = "nobody" /\ driver[s].since = 0
  BY <1>1, <1>3 DEF NoProcess, NoDriver
<1>7. \A r \in Replica : /\ walk[r].pc \in {"off", "list"} /\ walk[r].token = <<>>
                         /\ walk[r].page = <<>> /\ walk[r].failed = {} /\ walk[r].lost = {}
  BY <1>3
<1>8. Types
  <2>1. sess \in [Sessions -> SessionRows] /\ task \in [Sessions -> TaskRows]
    BY <1>2, <1>5
  <2>2. list \in Traversals /\ driver \in [Sessions -> Drivers] /\ sweep \in Sweeps
    BY <1>3 DEF Traversals, Key, NoDriver, Drivers, Places, Sweeps
  <2>3. walk \in [Replica -> Walks]
    BY <1>3 DEF Walks, Key
  <2>4. proc \in Processes
    BY <1>1 DEF NoProcess, Processes
  <2>5. spent \in 0..MaxWrites /\ cancel \in Cancels
    BY <1>2, <1>3, Numbers DEF Cancels, NoCancel
  <2> QED  BY <1>3, <1>4, <2>1, <2>2, <2>3, <2>4, <2>5 DEF Types
<1>9. Past
  <2>1. NSessions > 0 => 1 \in Sessions
    BY Numbers DEF Sessions
  <2>2. now \in Nat
    BY <1>3, <1>4
  <2>3. \A s \in Sessions : ~Exists(s) => sess[s].uid = "nobody"
    BY <1>5 DEF Exists
  <2>4. DOMAIN walk["q"].page = {}
    BY <1>7 DEF Replica
  <2> QED  BY <1>5, <1>6, <1>7, <2>1, <2>2, <2>3, <2>4 DEF Past
<1>10. ListOK
  BY <1>6 DEF ListOK, AfterToken, HasTask
<1>11. WalkOK
  BY <1>7 DEF WalkOK, Ahead, Active
<1>12. OwnerOK
  BY <1>5, <1>6, <1>7 DEF OwnerOK, Owned, Active, Replica
<1>13. ProcessOK /\ SweepOK /\ CancelOK
  BY <1>3, <1>5, <1>6 DEF ProcessOK, SweepOK, CancelOK, NoCancel
<1> QED  BY <1>8, <1>9, <1>10, <1>11, <1>12, <1>13 DEF IInv

\* Every step keeps it.
LEMMA NextOK == ASSUME IInv, [SNext]_svars PROVE IInv'
<1>1. CASE Process
  BY <1>1, ProcessStep
<1>2. CASE Others /\ UNCHANGED proc
  <2>1. Core /\ Types /\ Past /\ CancelOK /\ ProcessOK
    BY DEF IInv, Core
  <2>2. Core'
    BY <1>2, <2>1, OthersStep
  <2>3. ProcessOK'
    BY <1>2, <2>1, OthersFewer, CountKept
  <2> QED  BY <2>2, <2>3 DEF IInv, Core
<1>3. CASE UNCHANGED svars
  <2>1. Core /\ ProcessOK /\ ProcKept /\ UNCHANGED <<now, store>> /\ spent' \in 0..MaxWrites
        /\ sess' = sess /\ proc' = proc
    BY <1>3 DEF IInv, Core, Types, ProcKept, svars, vars, store, tables
  <2>2. Core'
    BY <2>1, StoreUntouched
  <2>3. ProcessOK'
    BY <2>1 DEF ProcessOK
  <2> QED  BY <2>2, <2>3 DEF IInv, Core
<1> QED  BY <1>1, <1>2, <1>3 DEF SNext

\* IInv is an invariant.
THEOREM Invariance == SSpec => []IInv
<1>1. SInit => IInv
  BY InitOK
<1>2. IInv /\ [SNext]_svars => IInv'
  BY NextOK
<1> QED  BY <1>1, <1>2, PTL DEF SSpec

(***************************************************************************)
(* The types: rows carry times that have been, an owner only while they      *)
(* exist, and cursors of two columns, whatever the walks, the drivers, the   *)
(* sweep and the process do in any order.                                   *)
(***************************************************************************)
THEOREM TypesCorrect == SSpec => []TypeOK
<1>1. ASSUME IInv PROVE TypeOK
  <2>1. Types /\ Past
    BY <1>1 DEF IInv
  <2>2. sess \in [Sessions -> [state : {"none", "deleted", "RUNNING", "TERMINATING", "TERMINATED"},
                               uid : Uid, upd : 0..now]]
    BY <2>1 DEF Types, Past, Exists, SessionRows
  <2>3. task \in [Sessions -> [status : {"none", "working", "input", "ended"}, upd : 0..now]]
    BY <2>1 DEF Types, Past, Exists, TaskRows
  <2>4. driver \in [Sessions -> [at : {"nobody"} \cup Replica, since : 0..now,
                                 pc : {"turn", "record", "mark", "end", "stop"}]]
    BY <2>1 DEF Types, Past, Exists, Drivers, Places
  <2>5. Seq(Entries) \subseteq Seq([id : Sessions, uid : Uid])
    <3>1. Entries \subseteq [id : Sessions, uid : Uid]
      BY DEF Entries, Uid
    <3> DEFINE X == [id : Sessions, uid : Uid]
    <3> HIDE DEF X
    <3>2. ASSUME NEW q \in Seq(Entries), Entries \subseteq X PROVE q \in Seq(X)
      BY <3>2
    <3> QED  BY <3>1, <3>2 DEF X
  <2>6. \A r \in Replica : walk[r] \in
            [pc : {"off", "list", "claim", "start", "done"}, token : Key, next : Key,
             failed : SUBSET Sessions, lost : SUBSET Sessions,
             page : Seq([id : Sessions, uid : Uid])]
    BY <2>1, <2>5 DEF Types, Walks
  <2>7. walk \in [Replica -> [pc : {"off", "list", "claim", "start", "done"}, token : Key,
                              next : Key, failed : SUBSET Sessions, lost : SUBSET Sessions,
                              page : Seq([id : Sessions, uid : Uid])]]
    BY <2>1, <2>6 DEF Types
  <2>8. cancel.pc # "idle" => cancel.s \in Sessions /\ cancel.at \in Replica
    BY <1>1 DEF IInv, CancelOK
  <2> QED  BY <2>1, <2>2, <2>3, <2>4, <2>7, <2>8
           DEF TypeOK, Types, Past, Traversals, Sweeps, Cancels
<1> QED  BY <1>1, Invariance, PTL

(***************************************************************************)
(* ListTasks gives no task twice, and every task that stood still once, for   *)
(* any page size and any rows that move meanwhile.                           *)
(***************************************************************************)
THEOREM ListingIsExact == SSpec => []ListedOnce
<1>1. ASSUME IInv PROVE ListedOnce
  BY <1>1 DEF IInv, ListOK, ListedOnce, HasTask, AfterToken
<1> QED  BY <1>1, Invariance, PTL

(***************************************************************************)
(* A walk over a dead incarnation's sessions leaves none of them in its       *)
(* hands, and a full drain none RUNNING in the name of the process, but the    *)
(* named ones, for any pages, any rows and any cancellations in between.      *)
(***************************************************************************)
THEOREM NothingIsStranded == SSpec => []NoneStranded
<1>1. ASSUME IInv PROVE NoneStranded
  <2>1. \A r \in Replica : walk[r].pc = "done" =>
           \A s \in Sessions : Active(s) /\ sess[s].uid = "old" => s \in Failed
    BY <1>1 DEF IInv, WalkOK, Ahead
  <2>2. proc.main = "exited" /\ ~proc.cut =>
           \A s \in Sessions : sess[s].state = "RUNNING" /\ sess[s].uid = "p" => s \in proc.late
    BY <1>1 DEF IInv, ProcessOK
  <2> QED  BY <2>1, <2>2 DEF NoneStranded, Failed
<1> QED  BY <1>1, Invariance, PTL

(***************************************************************************)
(* A deleted session leaves nothing behind in the other two tables, but in    *)
(* the named races: whoever writes about a session that is gone was at it when  *)
(* it was deleted, as its driver or with a marker to append, or holds a claim    *)
(* that was lost.                                                           *)
(***************************************************************************)
THEOREM NothingIsOrphaned == SSpec => []NoOrphans
<1>1. ASSUME IInv PROVE NoOrphans
  BY <1>1 DEF IInv, SweepOK, NoOrphans, Touched
<1> QED  BY <1>1, Invariance, PTL

(***************************************************************************)
(* The sweep deletes only ended sessions, and none that a driver has taken    *)
(* within the retention period, but in the named races.                      *)
(***************************************************************************)
THEOREM SweepIsSafe == SSpec => SweepSparesTheContinued
<1> DEFINE spares(s) == sess[s].state # "deleted" /\ sess'[s].state = "deleted" =>
                          /\ sess[s].state = "TERMINATED"
                          /\ \/ driver[s].at = "nobody"
                             \/ s \in sweep.raced \cup Lost
                             \/ now - driver[s].since > Period
<1>1. ASSUME IInv, [SNext]_svars PROVE [\A s \in Sessions : spares(s)]_vars
  <2> SUFFICES ASSUME NEW s \in Sessions, sess[s].state # "deleted", sess'[s].state = "deleted",
                      SNext
               PROVE  sess[s].state = "TERMINATED" /\ Spared(s)
    BY <1>1 DEF Spared, svars, vars
  <2>1. Types /\ Past /\ SweepOK
    BY <1>1 DEF IInv
  <2>2. DeleteExpired
    <3>1. ASSUME NEW x \in Sessions, NEW r \in Replica, Take(x, r) PROVE FALSE
      BY <2>1, <3>1, SMTT(40) DEF Take, CreateSession, ClaimSession, Claim, Types, SessionRows
    <3>2. ASSUME NEW x \in Sessions, Drive(x) PROVE FALSE
      <4>1. CASE Turn(x) \/ RecordStatus(x)
        BY <4>1 DEF Turn, RecordStatus
      <4>2. CASE MarkTerminating(x) \/ TerminateSession(x) \/ ReleaseSession(x)
        BY <2>1, <4>2 DEF MarkTerminating, TerminateSession, ReleaseSession, Stamp, Types, Exists
      <4> QED  BY <3>2, <4>1, <4>2 DEF Drive
    <3>3. ASSUME NEW r \in Replica, Walk(r) PROVE FALSE
      <4>1. CASE ListSessions(r) \/ StartClaimed(r)
        BY <4>1 DEF ListSessions, StartClaimed
      <4>2. CASE ClaimOrphaned(r) \/ StartFails(r)
        BY <2>1, <4>2 DEF ClaimOrphaned, StartFails, Stamp, Types
      <4> QED  BY <3>3, <4>1, <4>2 DEF Walk
    <3>4. ASSUME UNCHANGED sess PROVE FALSE
      BY <3>4
    <3>5. "p" \in Replica /\ "q" \in Replica
      BY DEF Replica
    <3>6. proc.req \in Sessions \cup {0}
      BY <2>1 DEF Types, Processes
    <3>7. ASSUME NEW r \in Replica, Cancel(r) PROVE FALSE
      <4>1. ASSUME NEW x \in Sessions, CancelTask(x, r) PROVE FALSE
        BY <2>1, <4>1 DEF CancelTask, Stamp, Types
      <4>2. CASE appendCancellationMarker(r)
        BY <4>2 DEF appendCancellationMarker
      <4>3. CASE ClaimForCleanup(r)
        BY <2>1, <4>3 DEF ClaimForCleanup, Claim, tables, Types, SessionRows
      <4> QED  BY <3>7, <4>1, <4>2, <4>3 DEF Cancel
    <3>8. ASSUME Process PROVE FALSE
      BY <3>1, <3>3, <3>4, <3>5, <3>6, <3>8, <3>7
         DEF Process, Undisturbed, SendMessage, Proceed, Cancellation, waitForBaseURL, resumeServerSessions,
             ServeReturns, Sigterm, Shutdown, Drain, Exit, store, tables, Walk
    <3> QED  BY <3>1, <3>2, <3>3, <3>4, <3>5, <3>8, <3>7
             DEF SNext, Others, Sweep, Tick, ListTasks, ListPage, StartSweep, NextExpired,
                 Recheck, DeleteFails, tables
  <2>3. s = sweep.cur
    BY <2>1, <2>2 DEF DeleteExpired, DeleteRows, Types
  <2> QED  BY <2>1, <2>2, <2>3 DEF SweepOK, DeleteExpired
<1> QED  BY <1>1, Invariance, PTL DEF SSpec, SweepSparesTheContinued
=============================================================================
