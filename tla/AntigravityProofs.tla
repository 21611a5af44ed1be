------------------------- MODULE AntigravityProofs -------------------------
(***************************************************************************)
(* What is proved of a turn over the sidecar, for any replies of any length:  *)
(* the sidecar's lifecycle keeps what SidecarProofs shows of it, and the       *)
(* handler is given the reply in whole blocks and in order.                  *)
(*                                                                         *)
(* The second needs an invariant on everything that the servicer has sent,     *)
(* received or not (All): its output frames are the blocks of a prefix of the   *)
(* reply (Blocks), what it has buffered is the block that follows them          *)
(* (Served), the kind of an open block differs from the one before (Rested),     *)
(* and an end frame comes last, COMPLETED only after the whole reply (EndOK).   *)
(***************************************************************************)
EXTENDS Antigravity, SidecarProofs, SequenceTheorems

\* The frames that were sent, in their order.
FramesSent(t) == Len(t.got) + Len(t.wire)

All(t) ==
    [i \in 1..FramesSent(t) |-> IF i <= Len(t.got) THEN t.got[i] ELSE t.wire[i - Len(t.got)]]

\* How many of them are output frames.
Outputs(t) == IF t.over /\ t.end = "none" THEN FramesSent(t) - 1 ELSE FramesSent(t)

Blocks(f, n, reply) ==
    \A i \in 1..n : LastChunk(f, i) \in Nat /\ IsNextBlock(f, i, reply)

\* How much of the reply was sent.
Upto(t) == LastChunk(All(t), Outputs(t))

\* What is buffered is a block that follows the n frames f, and is still open.
Pending(buffer, kind, f, n, at, reply) ==
    LET from == LastChunk(f, n) IN
    /\ from < at
    /\ buffer = [j \in 1..(at - from) |-> from + j]
    /\ \A c \in (from + 1)..at : reply[c] = kind
    /\ n > 0 => f[n].kind # kind

\* What the servicer has buffered, while it is at it.
Served(t) ==
    /\ t.at <= Len(t.reply)
    /\ t.text = <<>> \/ t.thought = <<>>
    /\ t.text # <<>> => Pending(t.text, "text", All(t), Outputs(t), t.at, t.reply)
    /\ t.thought # <<>> => Pending(t.thought, "thought", All(t), Outputs(t), t.at, t.reply)
    /\ t.text = <<>> /\ t.thought = <<>> => Upto(t) = t.at

\* The block that was sent last, of a kind in this set.
LastSent(t, kinds) == Outputs(t) = 0 \/ All(t)[Outputs(t)].kind \in kinds

\* When nothing is buffered, nothing or a tool call was sent last.
Rested(t) == t.text = <<>> /\ t.thought = <<>> => LastSent(t, {"tool"})

\* The end frame is the last one, and says COMPLETED only after the whole reply.
EndOK(t) ==
    /\ t.end # "none" => t.over /\ t.wire = <<>>
    /\ t.over /\ t.end = "none" =>
         /\ t.wire # <<>> /\ t.wire[Len(t.wire)].kind \in {"COMPLETED", "FAILED"}
         /\ t.wire[Len(t.wire)].kind = "COMPLETED" => Upto(t) = Len(t.reply)
    /\ t.end = "COMPLETED" => Upto(t) = Len(t.reply)
    /\ t.result = "ok" => t.end = "COMPLETED"

TurnOK(t) ==
    /\ Blocks(All(t), Outputs(t), t.reply)
    /\ EndOK(t)
    /\ ~t.over => Served(t) /\ Rested(t)
    /\ t.pc = "none" => t = NoTurn
    /\ t.pc # "closed" => t.result = "none"

Inv == IInv /\ turn \in Executions /\ TurnOK(turn)

----------------------------------------------------------------------------
(* Blocks of a reply. *)

\* Frames that are the same have the same last chunk.
LEMMA SameLast ==
  ASSUME NEW f, NEW g, NEW n \in Nat, \A i \in 1..n : g[i] = f[i]
  PROVE  \A i \in 0..n : LastChunk(g, i) = LastChunk(f, i)
BY DEF LastChunk

\* The last chunk of some frames is a number.
LEMMA LastIsNat ==
  ASSUME NEW f, NEW n \in Nat, NEW reply, Blocks(f, n, reply), NEW i \in 0..n
  PROVE  LastChunk(f, i) \in Nat
BY DEF Blocks, LastChunk

\* Frames that are the same are the same blocks.
LEMMA SameBlocks ==
  ASSUME NEW f, NEW g, NEW n \in Nat, NEW reply, Blocks(f, n, reply), \A i \in 1..n : g[i] = f[i]
  PROVE  Blocks(g, n, reply)
<1> SUFFICES ASSUME NEW i \in 1..n PROVE LastChunk(g, i) \in Nat /\ IsNextBlock(g, i, reply)
  BY DEF Blocks
<1>1. LastChunk(g, i) = LastChunk(f, i) /\ LastChunk(g, i - 1) = LastChunk(f, i - 1)
  BY SameLast
<1>2. g[i] = f[i] /\ (i > 1 => g[i - 1] = f[i - 1])
  OBVIOUS
<1>3. LastChunk(f, i) \in Nat /\ IsNextBlock(f, i, reply)
  BY DEF Blocks
<1> QED  BY <1>1, <1>2, <1>3 DEF IsNextBlock

\* A run of chunks.
LEMMA RunIs ==
  ASSUME NEW from \in Nat, NEW to \in Nat, from < to
  PROVE  LET run == [j \in 1..(to - from) |-> from + j] IN
         /\ run \in Seq(Nat) /\ Len(run) = to - from /\ run[Len(run)] = to /\ run # <<>>
<1> DEFINE run == [j \in 1..(to - from) |-> from + j]
<1>1. to - from \in Nat /\ to - from > 0
  OBVIOUS
<1>2. run \in [1..(to - from) -> Nat]
  OBVIOUS
<1>3. run \in Seq(Nat) /\ Len(run) = to - from
  BY <1>1, <1>2
<1>4. run[to - from] = to
  BY <1>1
<1> QED  BY <1>1, <1>3, <1>4

\* A further chunk makes the run longer by one.
LEMMA RunGrows ==
  ASSUME NEW from \in Nat, NEW to \in Nat, from <= to
  PROVE  Append([j \in 1..(to - from) |-> from + j], to + 1)
           = [j \in 1..((to + 1) - from) |-> from + j]
<1> DEFINE run == [j \in 1..(to - from) |-> from + j]
           more == [j \in 1..((to + 1) - from) |-> from + j]
<1>1. to - from \in Nat
  OBVIOUS
<1>2. run \in [1..(to - from) -> Nat] /\ more \in [1..((to + 1) - from) -> Nat]
  OBVIOUS
<1>3. run \in Seq(Nat) /\ Len(run) = to - from /\ more \in Seq(Nat) /\ Len(more) = (to + 1) - from
  BY <1>1, <1>2
<1>4. \A j \in 1..(to - from) : run[j] = from + j /\ more[j] = from + j
  OBVIOUS
<1>5. more[(to + 1) - from] = to + 1
  BY <1>1
<1> HIDE DEF run, more
<1>6. Len(Append(run, to + 1)) = (to + 1) - from /\ Append(run, to + 1) \in Seq(Nat)
  BY <1>3
<1>7. \A j \in 1..((to + 1) - from) : Append(run, to + 1)[j] = more[j]
  BY <1>3, <1>4, <1>5
<1>8. Append(run, to + 1) = more
  BY <1>3, <1>6, <1>7, SeqEqual
<1> QED  BY <1>8 DEF run, more

\* These chunks are of one kind and follow the n frames f, of which the last is of
\* another kind unless this is a tool call.
Follows(chunks, kind, f, n, to, reply) ==
    /\ LastChunk(f, n) < to /\ to <= Len(reply)
    /\ chunks = [j \in 1..(to - LastChunk(f, n)) |-> LastChunk(f, n) + j]
    /\ \A c \in (LastChunk(f, n) + 1)..to : reply[c] = kind
    /\ n > 0 /\ kind # "tool" => f[n].kind # kind

\* They are a further block.
LEMMA FurtherBlock ==
  ASSUME NEW f, NEW g, NEW n \in Nat, NEW reply \in Seq(Kinds), Blocks(f, n, reply),
         \A i \in 1..n : g[i] = f[i],
         NEW to \in Nat, NEW kind, NEW chunks, Follows(chunks, kind, f, n, to, reply),
         g[n + 1] = FrameOf(kind, chunks)
  PROVE  Blocks(g, n + 1, reply) /\ LastChunk(g, n + 1) = to
<1>1. PICK from : from = LastChunk(f, n)
  OBVIOUS
<1>2. from \in Nat
  BY <1>1, LastIsNat
<1>3. g[n + 1].kind = kind /\ g[n + 1].chunks = chunks
  BY DEF FrameOf
<1>4. Len(chunks) = to - from /\ chunks[Len(chunks)] = to
  BY <1>1, <1>2, RunIs DEF Follows
<1>0. n + 1 # 0 /\ n + 1 - 1 = n /\ n \in 0..n
  OBVIOUS
<1>5. LastChunk(g, n + 1) = to
  BY ONLY <1>3, <1>4, <1>0 DEF LastChunk
<1>6. LastChunk(g, n) = from
  BY <1>1, <1>0, SameLast
<1>7. n + 1 > 1 /\ kind # "tool" => kind # g[n].kind
  BY DEF Follows
<1>8. IsNextBlock(g, n + 1, reply)
  <2>1. \A c \in (from + 1)..to : reply[c] = kind
    BY <1>1 DEF Follows
  <2>2. chunks = [j \in 1..(to - from) |-> from + j] /\ from < to /\ to <= Len(reply)
    BY <1>1 DEF Follows
  <2> QED  BY ONLY <1>3, <1>0, <1>5, <1>6, <1>7, <2>1, <2>2 DEF IsNextBlock
<1>9. Blocks(g, n, reply)
  BY SameBlocks
<1>10. \A i \in 1..(n + 1) : i \in 1..n \/ i = n + 1
  OBVIOUS
<1> QED  BY <1>5, <1>8, <1>9, <1>10 DEF Blocks

----------------------------------------------------------------------------
(* The servicer. *)

\* Sending keeps the types.
LEMMA WireTypes ==
  ASSUME NEW t \in Executions, NEW x \in Frames
  PROVE  /\ [t EXCEPT !.text = <<>>, !.wire = Append(t.wire, x)] \in Executions
         /\ [t EXCEPT !.thought = <<>>, !.wire = Append(t.wire, x)] \in Executions
         /\ [t EXCEPT !.wire = Append(t.wire, x)] \in Executions
         /\ [t EXCEPT !.over = TRUE, !.wire = Append(t.wire, x)] \in Executions
<1>0. PICK w0 \in Seq(Frames) : w0 = t.wire
  BY DEF Executions
<1>1. PICK w \in Seq(Frames) : w = Append(t.wire, x)
  <2>1. Append(w0, x) \in Seq(Frames)
    BY AppendProperties
  <2> QED  BY <1>0, <2>1
<1>2. PICK e \in Seq(Nat) : e = <<>>
  <2>1. <<>> \in Seq(Nat)
    BY EmptySeq
  <2> QED  BY <2>1
<1>3. [t EXCEPT !.text = e, !.wire = w] \in Executions
  BY DEF Executions
<1>4. [t EXCEPT !.thought = e, !.wire = w] \in Executions
  BY DEF Executions
<1>5. [t EXCEPT !.wire = w] \in Executions
  BY DEF Executions
<1>6. [t EXCEPT !.over = TRUE, !.wire = w] \in Executions
  BY DEF Executions
<1> QED  BY <1>1, <1>2, <1>3, <1>4, <1>5, <1>6

\* A frame that is sent comes after all the others.
LEMMA AllGrows ==
  ASSUME NEW t \in Executions, NEW u \in Executions, NEW x,
         u.got = t.got, u.wire = Append(t.wire, x)
  PROVE  /\ FramesSent(t) \in Nat /\ FramesSent(u) = FramesSent(t) + 1
         /\ \A i \in 1..FramesSent(t) : All(u)[i] = All(t)[i]
         /\ All(u)[FramesSent(t) + 1] = x
<1>1. t.got \in Seq(Frames) /\ t.wire \in Seq(Frames)
  BY DEF Executions
<1>2. PICK g, w : g = t.got /\ w = t.wire /\ g \in Seq(Frames) /\ w \in Seq(Frames)
  BY <1>1
<1>3. /\ Len(Append(w, x)) = Len(w) + 1 /\ Append(w, x)[Len(w) + 1] = x
      /\ \A i \in 1..Len(w) : Append(w, x)[i] = w[i]
  BY <1>2
<1>4. PICK a \in Nat, b \in Nat : a = Len(g) /\ b = Len(w)
  BY <1>2
<1>5. FramesSent(t) = a + b /\ FramesSent(u) = a + (b + 1)
  BY <1>2, <1>3, <1>4 DEF FramesSent
<1>6. FramesSent(t) \in Nat /\ FramesSent(u) = FramesSent(t) + 1
  BY ONLY <1>5, a \in Nat, b \in Nat
<1>7. All(t) = [i \in 1..(a + b) |-> IF i <= a THEN g[i] ELSE w[i - a]]
  BY <1>2, <1>4, <1>5 DEF All
<1>8. All(u) = [i \in 1..(a + (b + 1)) |-> IF i <= a THEN g[i] ELSE Append(w, x)[i - a]]
  BY <1>2, <1>4, <1>5 DEF All
<1>9. \A i \in 1..(a + b) : All(u)[i] = All(t)[i]
  BY <1>3, <1>4, <1>7, <1>8
<1>10. All(u)[a + b + 1] = x
  BY <1>3, <1>4, <1>8
<1> QED  BY ONLY <1>5, <1>6, <1>9, <1>10

\* A buffer that is sent is a block, and then everything up to here was sent.
LEMMA SendPending ==
  ASSUME NEW t \in Executions, NEW u \in Executions, NEW kind \in {"text", "thought"},
         NEW buffer, ~t.over, ~u.over,
         Blocks(All(t), Outputs(t), t.reply), t.at <= Len(t.reply),
         Pending(buffer, kind, All(t), Outputs(t), t.at, t.reply),
         u.got = t.got, u.wire = Append(t.wire, FrameOf(kind, buffer)), u.reply = t.reply
  PROVE  Blocks(All(u), Outputs(u), u.reply) /\ Upto(u) = t.at /\ LastSent(u, {kind})
<1>1. PICK n : n = FramesSent(t)
  OBVIOUS
<1>2. /\ n \in Nat /\ Outputs(t) = n /\ Outputs(u) = n + 1
      /\ \A i \in 1..n : All(u)[i] = All(t)[i]
      /\ All(u)[n + 1] = FrameOf(kind, buffer)
  <2>1. PICK x : x = FrameOf(kind, buffer)
    OBVIOUS
  <2>2. u.got = t.got /\ u.wire = Append(t.wire, x)
    BY <2>1
  <2>3. /\ FramesSent(t) \in Nat /\ FramesSent(u) = FramesSent(t) + 1
        /\ \A i \in 1..FramesSent(t) : All(u)[i] = All(t)[i]
        /\ All(u)[FramesSent(t) + 1] = x
    BY <2>2, AllGrows
  <2>4. Outputs(t) = FramesSent(t) /\ Outputs(u) = FramesSent(u)
    BY DEF Outputs
  <2> QED  BY <1>1, <2>1, <2>3, <2>4
<1>3. t.at \in Nat /\ t.reply \in Seq(Kinds)
  BY DEF Executions
<1>4. PICK f, g, at, reply : f = All(t) /\ g = All(u) /\ at = t.at /\ reply = t.reply
  OBVIOUS
<1>5. /\ at \in Nat /\ reply \in Seq(Kinds) /\ Blocks(f, n, reply)
      /\ \A i \in 1..n : g[i] = f[i]
      /\ g[n + 1] = FrameOf(kind, buffer)
      /\ at <= Len(reply)
  BY <1>2, <1>3, <1>4
<1>6. Pending(buffer, kind, f, n, at, reply)
  BY <1>2, <1>4
<1>7. /\ LastChunk(f, n) < at
      /\ buffer = [j \in 1..(at - LastChunk(f, n)) |-> LastChunk(f, n) + j]
      /\ \A c \in (LastChunk(f, n) + 1)..at : reply[c] = kind
      /\ n > 0 => f[n].kind # kind
  BY <1>6 DEF Pending
<1>8. Blocks(g, n + 1, reply) /\ LastChunk(g, n + 1) = at
  <2>1. Follows(buffer, kind, f, n, at, reply)
    BY <1>5, <1>7 DEF Follows
  <2> QED  BY ONLY <1>2, <1>5, <2>1, FurtherBlock
<1>9. g[n + 1].kind = kind
  BY <1>5 DEF FrameOf
<1> QED  BY <1>2, <1>4, <1>8, <1>9 DEF Upto, LastSent

\* Fields that a flush leaves alone.
SameTurn(t, u) ==
    /\ u.pc = t.pc /\ u.reply = t.reply /\ u.at = t.at /\ u.over = t.over /\ u.got = t.got
    /\ u.end = t.end /\ u.result = t.result

\* flush_text: the text is sent, if there is any.
LEMMA FlushTextIs ==
  ASSUME NEW t \in Executions, ~t.over, Blocks(All(t), Outputs(t), t.reply), Served(t)
  PROVE  LET u == flush_text(t) IN
         /\ u \in Executions /\ SameTurn(t, u) /\ u.text = <<>> /\ u.thought = t.thought
         /\ Blocks(All(u), Outputs(u), u.reply) /\ Served(u)
         /\ t.text = <<>> => u = t
         /\ t.text # <<>> => LastSent(u, {"text"})
<1> DEFINE u == flush_text(t)
<1>1. CASE t.text = <<>>
  BY <1>1 DEF flush_text, SameTurn
<1>2. CASE t.text # <<>>
  <2>1. PICK x : x = FrameOf("text", t.text)
    OBVIOUS
  <2>2. x \in Frames
    BY <2>1 DEF FrameOf, Frames, Kinds, Executions
  <2>3. u = [t EXCEPT !.text = <<>>, !.wire = Append(t.wire, x)]
    BY <1>2, <2>1, SMTT(40) DEF flush_text
  <2> HIDE DEF u
  <2>4. u \in Executions
    BY <2>2, <2>3, WireTypes, Zenon
  <2>5. SameTurn(t, u) /\ u.text = <<>> /\ u.thought = t.thought /\ u.wire = Append(t.wire, x)
    BY <2>3 DEF Executions, SameTurn
  <2>6. t.thought = <<>> /\ Pending(t.text, "text", All(t), Outputs(t), t.at, t.reply)
    BY <1>2 DEF Served
  <2>7. Blocks(All(u), Outputs(u), u.reply) /\ Upto(u) = t.at /\ LastSent(u, {"text"})
    BY <2>1, <2>4, <2>5, <2>6, SendPending DEF SameTurn, Served
  <2>8. Served(u)
    BY <2>5, <2>6, <2>7 DEF Served, SameTurn
  <2> QED  BY <1>2, <2>4, <2>5, <2>7, <2>8 DEF u
<1> QED  BY <1>1, <1>2

\* flush_thought: the thought is sent, if there is any.
LEMMA FlushThoughtIs ==
  ASSUME NEW t \in Executions, ~t.over, Blocks(All(t), Outputs(t), t.reply), Served(t)
  PROVE  LET u == flush_thought(t) IN
         /\ u \in Executions /\ SameTurn(t, u) /\ u.thought = <<>> /\ u.text = t.text
         /\ Blocks(All(u), Outputs(u), u.reply) /\ Served(u)
         /\ t.thought = <<>> => u = t
         /\ t.thought # <<>> => LastSent(u, {"thought"})
<1> DEFINE u == flush_thought(t)
<1>1. CASE t.thought = <<>>
  BY <1>1 DEF flush_thought, SameTurn
<1>2. CASE t.thought # <<>>
  <2>1. PICK x : x = FrameOf("thought", t.thought)
    OBVIOUS
  <2>2. x \in Frames
    BY <2>1 DEF FrameOf, Frames, Kinds, Executions
  <2>3. u = [t EXCEPT !.thought = <<>>, !.wire = Append(t.wire, x)]
    BY <1>2, <2>1, SMTT(40) DEF flush_thought
  <2> HIDE DEF u
  <2>4. u \in Executions
    BY <2>2, <2>3, WireTypes, Zenon
  <2>5. SameTurn(t, u) /\ u.thought = <<>> /\ u.text = t.text /\ u.wire = Append(t.wire, x)
    BY <2>3 DEF Executions, SameTurn
  <2>6. t.text = <<>> /\ Pending(t.thought, "thought", All(t), Outputs(t), t.at, t.reply)
    BY <1>2 DEF Served
  <2>7. Blocks(All(u), Outputs(u), u.reply) /\ Upto(u) = t.at /\ LastSent(u, {"thought"})
    BY <2>1, <2>4, <2>5, <2>6, SendPending DEF SameTurn, Served
  <2>8. Served(u)
    BY <2>5, <2>6, <2>7 DEF Served, SameTurn
  <2> QED  BY <1>2, <2>4, <2>5, <2>7, <2>8 DEF u
<1> QED  BY <1>1, <1>2

\* The fields of a turn have their types.
LEMMA TurnFields ==
  ASSUME NEW t \in Executions
  PROVE  /\ t.reply \in Seq(Kinds) /\ t.at \in Nat /\ t.text \in Seq(Nat)
         /\ t.thought \in Seq(Nat) /\ t.wire \in Seq(Frames) /\ t.got \in Seq(Frames)
         /\ t.over \in BOOLEAN
BY DEF Executions

\* How many frames were sent is a number.
LEMMA FramesNat ==
  ASSUME NEW t \in Executions
  PROVE  FramesSent(t) \in Nat
<1>1. PICK a \in Nat, b \in Nat : a = Len(t.got) /\ b = Len(t.wire)
  BY TurnFields
<1>2. FramesSent(t) = a + b
  BY <1>1 DEF FramesSent
<1> QED  BY <1>2

\* So is how many of them are outputs, for the end frame is one of them.
LEMMA OutputsNat ==
  ASSUME NEW t \in Executions, EndOK(t)
  PROVE  Outputs(t) \in Nat
<1>1. PICK a \in Nat, b \in Nat : a = Len(t.got) /\ b = Len(t.wire)
  BY TurnFields
<1>2. FramesSent(t) = a + b
  BY <1>1 DEF FramesSent
<1>3. CASE t.over /\ t.end = "none"
  <2>1. t.wire # <<>>
    BY <1>3 DEF EndOK
  <2>2. b > 0
    BY <1>1, <2>1, TurnFields
  <2> QED  BY <1>2, <1>3, <2>2 DEF Outputs
<1>4. CASE ~(t.over /\ t.end = "none")
  BY <1>2, <1>4 DEF Outputs
<1> QED  BY <1>3, <1>4

\* A further chunk of a kind is buffered: in the buffer of its kind, or in an empty one
\* that everything before it has left.
Room(buffer, kind, f, n, at, reply) ==
    \/ buffer # <<>> /\ Pending(buffer, kind, f, n, at, reply)
    \/ buffer = <<>> /\ LastChunk(f, n) = at /\ (n > 0 => f[n].kind # kind)

LEMMA PendingGrows ==
  ASSUME NEW f, NEW n \in Nat, NEW at \in Nat, NEW reply \in Seq(Kinds), NEW buffer, NEW kind,
         Blocks(f, n, reply), at < Len(reply), reply[at + 1] = kind,
         Room(buffer, kind, f, n, at, reply)
  PROVE  Pending(Append(buffer, at + 1), kind, f, n, at + 1, reply)
<1>1. PICK from : from = LastChunk(f, n)
  OBVIOUS
<1>2. from \in Nat
  BY <1>1, LastIsNat
<1>3. from <= at /\ buffer = [j \in 1..(at - from) |-> from + j] /\ (n > 0 => f[n].kind # kind)
  <2>1. CASE buffer # <<>>
    BY <1>1, <1>2, <2>1 DEF Room, Pending
  <2>2. CASE buffer = <<>>
    <3>1. from = at
      BY <1>1, <2>2 DEF Room
    <3>2. 1..(at - from) = {}
      BY <3>1
    <3>3. [j \in 1..(at - from) |-> from + j] = <<>>
      BY <3>2
    <3> QED  BY <2>2, <3>1, <3>3 DEF Room
  <2> QED  BY <2>1, <2>2
<1>4. \A c \in (from + 1)..at : reply[c] = kind
  <2>1. CASE buffer # <<>>
    BY <1>1, <2>1 DEF Room, Pending
  <2>2. CASE buffer = <<>>
    BY <1>1, <1>2, <2>2 DEF Room
  <2> QED  BY <2>1, <2>2
<1>5. Append(buffer, at + 1) = [j \in 1..((at + 1) - from) |-> from + j]
  BY <1>2, <1>3, RunGrows
<1>6. \A c \in (from + 1)..(at + 1) : c \in (from + 1)..at \/ c = at + 1
  BY <1>2
<1>7. \A c \in (from + 1)..(at + 1) : reply[c] = kind
  BY <1>4, <1>6
<1>8. from < at + 1
  BY <1>2, <1>3
<1>9. n > 0 => f[n].kind # kind
  BY <1>3
<1>10. Append(buffer, at + 1) = [j \in 1..((at + 1) - LastChunk(f, n)) |-> LastChunk(f, n) + j]
  BY ONLY <1>1, <1>5, Zenon
<1>11. LastChunk(f, n) < at + 1 /\ \A c \in (LastChunk(f, n) + 1)..(at + 1) : reply[c] = kind
  BY ONLY <1>1, <1>7, <1>8
<1> QED  BY ONLY <1>9, <1>10, <1>11 DEF Pending

\* A turn that the servicer is at.
Serving(t) ==
    /\ t \in Executions /\ ~t.over /\ t.end = "none"
    /\ Blocks(All(t), Outputs(t), t.reply) /\ Served(t)

\* All fields that the frames and their number depend on.
LEMMA SameFrames ==
  ASSUME NEW t, NEW u, u.got = t.got, u.wire = t.wire, u.over = t.over, u.end = t.end
  PROVE  All(u) = All(t) /\ Outputs(u) = Outputs(t) /\ FramesSent(u) = FramesSent(t)
BY DEF All, Outputs, FramesSent

\* A text chunk ends the thought, and is buffered.
LEMMA OnText ==
  ASSUME NEW t, Serving(t), Rested(t), t.at < Len(t.reply), t.reply[t.at + 1] = "text"
  PROVE  LET u == [OnChunk(t, t.at + 1, "text") EXCEPT !.at = t.at + 1] IN
         Serving(u) /\ Rested(u) /\ u.pc = t.pc /\ u.result = t.result
<1> DEFINE v == flush_thought(t)
           u == [v EXCEPT !.text = Append(v.text, t.at + 1), !.at = t.at + 1]
<1>0. /\ t \in Executions /\ ~t.over /\ t.end = "none"
      /\ Served(t) /\ Blocks(All(t), Outputs(t), t.reply)
  BY DEF Serving
<1>1. /\ v \in Executions /\ SameTurn(t, v) /\ v.thought = <<>> /\ v.text = t.text
      /\ Blocks(All(v), Outputs(v), v.reply) /\ Served(v)
      /\ t.thought = <<>> => v = t
      /\ t.thought # <<>> => LastSent(v, {"thought"})
  BY <1>0, FlushThoughtIs
<1>2. [OnChunk(t, t.at + 1, "text") EXCEPT !.at = t.at + 1] = u
  <2>1. OnChunk(t, t.at + 1, "text") = [v EXCEPT !.text = Append(@, t.at + 1)]
    BY DEF OnChunk
  <2>2. v \in Executions
    BY <1>1
  <2> HIDE DEF v
  <2> QED  BY <2>1, <2>2 DEF Executions
<1>3. v.at = t.at /\ v.reply = t.reply /\ v.over = t.over /\ v.pc = t.pc /\ v.end = t.end
        /\ v.result = t.result
  BY <1>1 DEF SameTurn
<1> HIDE DEF v
<1>4. PICK b, m : b = Append(v.text, t.at + 1) /\ m = t.at + 1
  OBVIOUS
<1>5. b \in Seq(Nat) /\ b # <<>> /\ m \in Nat
  <2>1. PICK c \in Seq(Nat), a \in Nat : c = v.text /\ a = t.at
    BY <1>0, <1>1, TurnFields
  <2>2. Append(c, a + 1) \in Seq(Nat) /\ Append(c, a + 1) # <<>> /\ a + 1 \in Nat
    BY AppendProperties, SMTT(40)
  <2> QED  BY <1>4, <2>1, <2>2
<1>6. u = [v EXCEPT !.text = b, !.at = m]
  BY <1>4
<1>7. /\ u \in Executions /\ u.text = b /\ u.thought = <<>> /\ u.at = m /\ u.reply = v.reply
      /\ u.over = v.over /\ u.got = v.got /\ u.wire = v.wire /\ u.end = v.end /\ u.pc = v.pc
      /\ u.result = v.result
  BY <1>1, <1>5, <1>6 DEF Executions
<1> HIDE DEF u
<1>8. All(u) = All(v) /\ Outputs(u) = Outputs(v)
  BY <1>7, SameFrames
<1>9. Outputs(v) \in Nat
  <2>1. FramesSent(v) \in Nat
    BY <1>1, FramesNat
  <2> QED  BY <1>0, <1>3, <2>1 DEF Outputs
<1>10. Room(v.text, "text", All(v), Outputs(v), v.at, v.reply)
  <2>1. CASE v.text # <<>>
    BY <1>1, <2>1 DEF Served, Room
  <2>2. CASE v.text = <<>>
    <3>1. Upto(v) = v.at
      BY <1>1, <2>2 DEF Served
    <3>2. LastSent(v, {"thought"}) \/ LastSent(v, {"tool"})
      BY <1>1, <2>2 DEF Rested
    <3>3. Outputs(v) > 0 => All(v)[Outputs(v)].kind # "text"
      BY <1>9, <3>2 DEF LastSent
    <3> QED  BY <2>2, <3>1, <3>3 DEF Room, Upto
  <2> QED  BY <2>1, <2>2
<1>11. Pending(b, "text", All(v), Outputs(v), m, v.reply)
  <2>1. PICK f, n, at, reply, c :
          f = All(v) /\ n = Outputs(v) /\ at = v.at /\ reply = v.reply /\ c = v.text
    OBVIOUS
  <2>2. at \in Nat /\ reply \in Seq(Kinds) /\ n \in Nat
    BY <1>1, <1>9, <2>1, TurnFields
  <2>3. Blocks(f, n, reply) /\ at < Len(reply) /\ reply[at + 1] = "text"
    BY <1>1, <1>3, <2>1
  <2>4. Room(c, "text", f, n, at, reply)
    BY <1>10, <2>1
  <2>5. Pending(Append(c, at + 1), "text", f, n, at + 1, reply)
    BY ONLY <2>2, <2>3, <2>4, PendingGrows
  <2> QED  BY <1>3, <1>4, <2>1, <2>5
<1>12. m <= Len(t.reply)
  <2>1. t.at \in Nat /\ Len(t.reply) \in Nat
    BY <1>0, TurnFields
  <2> QED  BY <1>4, <2>1
<1>13. Served(u) /\ Rested(u)
  BY <1>3, <1>5, <1>7, <1>8, <1>11, <1>12 DEF Served, Rested
<1>14. Serving(u)
  BY <1>0, <1>1, <1>3, <1>7, <1>8, <1>13 DEF Serving
<1> QED  BY <1>2, <1>3, <1>7, <1>13, <1>14

\* A thought chunk ends the text, and is buffered.
LEMMA OnThought ==
  ASSUME NEW t, Serving(t), Rested(t), t.at < Len(t.reply), t.reply[t.at + 1] = "thought"
  PROVE  LET u == [OnChunk(t, t.at + 1, "thought") EXCEPT !.at = t.at + 1] IN
         Serving(u) /\ Rested(u) /\ u.pc = t.pc /\ u.result = t.result
<1> DEFINE v == flush_text(t)
           u == [v EXCEPT !.thought = Append(v.thought, t.at + 1), !.at = t.at + 1]
<1>0. /\ t \in Executions /\ ~t.over /\ t.end = "none"
      /\ Served(t) /\ Blocks(All(t), Outputs(t), t.reply)
  BY DEF Serving
<1>1. /\ v \in Executions /\ SameTurn(t, v) /\ v.text = <<>> /\ v.thought = t.thought
      /\ Blocks(All(v), Outputs(v), v.reply) /\ Served(v)
      /\ t.text = <<>> => v = t
      /\ t.text # <<>> => LastSent(v, {"text"})
  BY <1>0, FlushTextIs
<1>2. [OnChunk(t, t.at + 1, "thought") EXCEPT !.at = t.at + 1] = u
  <2>1. OnChunk(t, t.at + 1, "thought") = [v EXCEPT !.thought = Append(@, t.at + 1)]
    BY DEF OnChunk
  <2>2. v \in Executions
    BY <1>1
  <2> HIDE DEF v
  <2> QED  BY <2>1, <2>2 DEF Executions
<1>3. v.at = t.at /\ v.reply = t.reply /\ v.over = t.over /\ v.pc = t.pc /\ v.end = t.end
        /\ v.result = t.result
  BY <1>1 DEF SameTurn
<1> HIDE DEF v
<1>4. PICK b, m : b = Append(v.thought, t.at + 1) /\ m = t.at + 1
  OBVIOUS
<1>5. b \in Seq(Nat) /\ b # <<>> /\ m \in Nat
  <2>1. PICK c \in Seq(Nat), a \in Nat : c = v.thought /\ a = t.at
    BY <1>0, <1>1, TurnFields
  <2>2. Append(c, a + 1) \in Seq(Nat) /\ Append(c, a + 1) # <<>> /\ a + 1 \in Nat
    BY AppendProperties, SMTT(40)
  <2> QED  BY <1>4, <2>1, <2>2
<1>6. u = [v EXCEPT !.thought = b, !.at = m]
  BY <1>4
<1>7. /\ u \in Executions /\ u.thought = b /\ u.text = <<>> /\ u.at = m /\ u.reply = v.reply
      /\ u.over = v.over /\ u.got = v.got /\ u.wire = v.wire /\ u.end = v.end /\ u.pc = v.pc
      /\ u.result = v.result
  BY <1>1, <1>5, <1>6 DEF Executions
<1> HIDE DEF u
<1>8. All(u) = All(v) /\ Outputs(u) = Outputs(v)
  BY <1>7, SameFrames
<1>9. Outputs(v) \in Nat
  <2>1. FramesSent(v) \in Nat
    BY <1>1, FramesNat
  <2> QED  BY <1>0, <1>3, <2>1 DEF Outputs
<1>10. Room(v.thought, "thought", All(v), Outputs(v), v.at, v.reply)
  <2>1. CASE v.thought # <<>>
    BY <1>1, <2>1 DEF Served, Room
  <2>2. CASE v.thought = <<>>
    <3>1. Upto(v) = v.at
      BY <1>1, <2>2 DEF Served
    <3>2. LastSent(v, {"text"}) \/ LastSent(v, {"tool"})
      BY <1>1, <2>2 DEF Rested
    <3>3. Outputs(v) > 0 => All(v)[Outputs(v)].kind # "thought"
      BY <1>9, <3>2 DEF LastSent
    <3> QED  BY <2>2, <3>1, <3>3 DEF Room, Upto
  <2> QED  BY <2>1, <2>2
<1>11. Pending(b, "thought", All(v), Outputs(v), m, v.reply)
  <2>1. PICK f, n, at, reply, c :
          f = All(v) /\ n = Outputs(v) /\ at = v.at /\ reply = v.reply /\ c = v.thought
    OBVIOUS
  <2>2. at \in Nat /\ reply \in Seq(Kinds) /\ n \in Nat
    BY <1>1, <1>9, <2>1, TurnFields
  <2>3. Blocks(f, n, reply) /\ at < Len(reply) /\ reply[at + 1] = "thought"
    BY <1>1, <1>3, <2>1
  <2>4. Room(c, "thought", f, n, at, reply)
    BY <1>10, <2>1
  <2>5. Pending(Append(c, at + 1), "thought", f, n, at + 1, reply)
    BY ONLY <2>2, <2>3, <2>4, PendingGrows
  <2> QED  BY <1>3, <1>4, <2>1, <2>5
<1>12. m <= Len(t.reply)
  <2>1. t.at \in Nat /\ Len(t.reply) \in Nat
    BY <1>0, TurnFields
  <2> QED  BY <1>4, <2>1
<1>13. Served(u) /\ Rested(u)
  BY <1>3, <1>5, <1>7, <1>8, <1>11, <1>12 DEF Served, Rested
<1>14. Serving(u)
  BY <1>0, <1>1, <1>3, <1>7, <1>8, <1>13 DEF Serving
<1> QED  BY <1>2, <1>3, <1>7, <1>13, <1>14

\* FlushAll: everything up to here is sent.
LEMMA FlushAllIs ==
  ASSUME NEW t, Serving(t)
  PROVE  LET u == FlushAll(t) IN
         /\ Serving(u) /\ SameTurn(t, u) /\ u.text = <<>> /\ u.thought = <<>> /\ Upto(u) = t.at
<1> DEFINE v == flush_text(t)
           u == flush_thought(v)
<1>1. /\ t \in Executions /\ ~t.over /\ t.end = "none"
      /\ Served(t) /\ Blocks(All(t), Outputs(t), t.reply)
  BY DEF Serving
<1>2. /\ v \in Executions /\ SameTurn(t, v) /\ v.text = <<>> /\ Served(v)
      /\ Blocks(All(v), Outputs(v), v.reply)
  BY <1>1, FlushTextIs
<1> HIDE DEF v
<1>3. ~v.over /\ v.end = "none" /\ v.at = t.at
  BY <1>1, <1>2 DEF SameTurn
<1>4. /\ u \in Executions /\ SameTurn(v, u) /\ u.text = v.text /\ u.thought = <<>> /\ Served(u)
      /\ Blocks(All(u), Outputs(u), u.reply)
  BY <1>2, <1>3, FlushThoughtIs
<1> HIDE DEF u
<1>5. SameTurn(t, u) /\ ~u.over /\ u.end = "none" /\ u.at = t.at
  BY <1>2, <1>3, <1>4 DEF SameTurn
<1>6. u.text = <<>> /\ Upto(u) = t.at
  BY <1>2, <1>4, <1>5 DEF Served
<1>7. Serving(u)
  BY <1>4, <1>5 DEF Serving
<1> QED  BY <1>4, <1>5, <1>6, <1>7 DEF u, v, FlushAll

\* A tool call is sent after everything before it.
LEMMA OnTool ==
  ASSUME NEW t, Serving(t), t.at < Len(t.reply), t.reply[t.at + 1] = "tool"
  PROVE  LET u == [OnChunk(t, t.at + 1, "tool") EXCEPT !.at = t.at + 1] IN
         Serving(u) /\ Rested(u) /\ u.pc = t.pc /\ u.result = t.result
<1> DEFINE v == FlushAll(t)
           u == [v EXCEPT !.wire = Append(v.wire, FrameOf("tool", <<t.at + 1>>)), !.at = t.at + 1]
<1>1. Serving(v) /\ SameTurn(t, v) /\ v.text = <<>> /\ v.thought = <<>> /\ Upto(v) = t.at
  BY FlushAllIs
<1>2. /\ v \in Executions /\ ~v.over /\ v.end = "none" /\ Blocks(All(v), Outputs(v), v.reply)
      /\ v.reply = t.reply /\ v.at = t.at /\ v.pc = t.pc /\ v.result = t.result
  BY <1>1 DEF Serving, SameTurn
<1>3. [OnChunk(t, t.at + 1, "tool") EXCEPT !.at = t.at + 1] = u
  <2>1. OnChunk(t, t.at + 1, "tool") = [v EXCEPT !.wire = Append(@, FrameOf("tool", <<t.at + 1>>))]
    BY DEF OnChunk
  <2>2. v \in Executions
    BY <1>2
  <2> HIDE DEF v
  <2> QED  BY <2>1, <2>2 DEF Executions
<1> HIDE DEF v
<1>4. PICK m, x : m = v.at + 1 /\ x = FrameOf("tool", <<m>>)
  OBVIOUS
<1>5. m \in Nat /\ v.at \in Nat /\ v.reply \in Seq(Kinds)
  BY <1>2, <1>4, TurnFields
<1>6. x \in Frames
  <2>1. <<m>> \in Seq(Nat)
    BY <1>5
  <2> QED  BY <1>4, <2>1 DEF FrameOf, Frames, Kinds
<1>7. PICK w \in Seq(Frames) : w = Append(v.wire, x)
  <2>1. PICK w0 \in Seq(Frames) : w0 = v.wire
    BY <1>2, TurnFields
  <2>2. Append(w0, x) \in Seq(Frames)
    BY <1>6, AppendProperties
  <2> QED  BY <2>1, <2>2
<1>8. u = [v EXCEPT !.wire = w, !.at = m]
  BY <1>2, <1>4, <1>7
<1>9. /\ u \in Executions /\ u.text = v.text /\ u.thought = v.thought /\ u.at = m
      /\ u.reply = v.reply /\ u.over = v.over /\ u.got = v.got /\ u.wire = w /\ u.end = v.end
      /\ u.pc = v.pc /\ u.result = v.result
  BY <1>2, <1>5, <1>8 DEF Executions
<1> HIDE DEF u
<1>10. PICK n : n = FramesSent(v)
  OBVIOUS
<1>11. /\ n \in Nat /\ Outputs(v) = n /\ Outputs(u) = n + 1
       /\ \A i \in 1..n : All(u)[i] = All(v)[i]
       /\ All(u)[n + 1] = x
  <2>1. u.got = v.got /\ u.wire = Append(v.wire, x)
    BY <1>7, <1>9
  <2>2. /\ FramesSent(v) \in Nat /\ FramesSent(u) = FramesSent(v) + 1
        /\ \A i \in 1..FramesSent(v) : All(u)[i] = All(v)[i]
        /\ All(u)[FramesSent(v) + 1] = x
    BY <1>2, <1>9, <2>1, AllGrows
  <2> QED  BY <1>2, <1>9, <1>10, <2>2 DEF Outputs
<1>12. PICK f, g, at, reply : f = All(v) /\ g = All(u) /\ at = v.at /\ reply = v.reply
  OBVIOUS
<1>13. /\ at \in Nat /\ reply \in Seq(Kinds) /\ Blocks(f, n, reply) /\ m = at + 1
       /\ \A i \in 1..n : g[i] = f[i]
       /\ g[n + 1] = FrameOf("tool", <<m>>)
       /\ LastChunk(f, n) = at /\ at < Len(reply) /\ reply[m] = "tool"
  BY <1>1, <1>2, <1>4, <1>5, <1>11, <1>12 DEF Upto
<1>14. Follows(<<m>>, "tool", f, n, m, reply)
  <2>1. Len(reply) \in Nat
    BY <1>13
  <2>2. at < m /\ m <= Len(reply) /\ m - at = 1 /\ at + 1 = m
    BY <1>13, <2>1
  <2>3. <<m>> = [j \in 1..1 |-> at + j]
    <3> DEFINE one == [j \in 1..1 |-> at + j]
    <3>1. one \in [1..1 -> Nat]
      BY <1>13
    <3>2. one \in Seq(Nat) /\ Len(one) = 1 /\ one[1] = m
      BY <1>13, <3>1
    <3> HIDE DEF one
    <3>3. <<m>> \in Seq(Nat) /\ Len(<<m>>) = 1 /\ <<m>>[1] = m
      BY <1>5
    <3>4. one = <<m>>
      BY <3>2, <3>3, SeqEqual
    <3> QED  BY <3>4 DEF one
  <2>4. \A c \in (at + 1)..m : c = m
    BY <1>13
  <2> QED  BY <1>13, <2>2, <2>3, <2>4 DEF Follows
<1>15. Blocks(g, n + 1, reply) /\ LastChunk(g, n + 1) = m
  <2>1. PICK b, kind : b = <<m>> /\ kind = "tool"
    OBVIOUS
  <2>2. g[n + 1] = FrameOf(kind, b) /\ Follows(b, kind, f, n, m, reply)
    BY <1>13, <1>14, <2>1
  <2>3. n \in Nat /\ m \in Nat /\ reply \in Seq(Kinds) /\ Blocks(f, n, reply)
    BY <1>5, <1>11, <1>13
  <2>4. \A i \in 1..n : g[i] = f[i]
    BY <1>13
  <2> QED  BY ONLY <2>2, <2>3, <2>4, FurtherBlock
<1>16. g[n + 1].kind = "tool"
  BY <1>13 DEF FrameOf
<1>17. Blocks(All(u), Outputs(u), u.reply) /\ Upto(u) = m /\ LastSent(u, {"tool"})
  BY <1>9, <1>11, <1>12, <1>15, <1>16 DEF Upto, LastSent
<1>18. m <= Len(v.reply)
  <2>1. Len(v.reply) \in Nat
    BY <1>5
  <2> QED  BY <1>2, <1>4, <1>5, <2>1
<1>19. Served(u) /\ Rested(u)
  BY <1>1, <1>9, <1>17, <1>18 DEF Served, Rested
<1>20. Serving(u)
  BY <1>2, <1>9, <1>17, <1>19 DEF Serving
<1> QED  BY <1>2, <1>3, <1>9, <1>19, <1>20

\* A turn that the servicer is at is as it should be.
LEMMA ServingOK ==
  ASSUME NEW t, Serving(t), Rested(t), t.pc = "open", t.result = "none"
  PROVE  t \in Executions /\ TurnOK(t)
BY DEF Serving, TurnOK, EndOK

\* The end frame is no output, and nothing follows it.
LEMMA EndedOK ==
  ASSUME NEW t, Serving(t), t.pc = "open", t.result = "none",
         NEW state \in {"COMPLETED", "FAILED"}, state = "COMPLETED" => Upto(t) = Len(t.reply)
  PROVE  Ended(t, state) \in Executions /\ TurnOK(Ended(t, state))
<1> DEFINE u == Ended(t, state)
<1>1. t \in Executions /\ ~t.over /\ t.end = "none" /\ Blocks(All(t), Outputs(t), t.reply)
  BY DEF Serving
<1>2. PICK x : x = FrameOf(state, <<>>)
  OBVIOUS
<1>3. x \in Frames /\ x.kind = state
  BY <1>2, EmptySeq DEF FrameOf, Frames
<1>4. u = [t EXCEPT !.over = TRUE, !.wire = Append(t.wire, x)]
  BY <1>1, <1>2, SMTT(40) DEF Ended, Executions
<1> HIDE DEF u
<1>5. u \in Executions
  BY <1>1, <1>3, <1>4, WireTypes, Zenon
<1>6. /\ u.got = t.got /\ u.wire = Append(t.wire, x) /\ u.over /\ u.end = "none"
      /\ u.reply = t.reply /\ u.result = t.result /\ u.pc = t.pc
  BY <1>1, <1>4 DEF Executions
<1>7. PICK n : n = FramesSent(t)
  OBVIOUS
<1>8. n \in Nat /\ FramesSent(u) = n + 1 /\ \A i \in 1..n : All(u)[i] = All(t)[i]
  BY <1>1, <1>5, <1>6, <1>7, AllGrows
<1>9. Outputs(t) = n /\ Outputs(u) = n
  BY <1>1, <1>6, <1>7, <1>8 DEF Outputs
<1>10. PICK f, g, reply : f = All(t) /\ g = All(u) /\ reply = t.reply
  OBVIOUS
<1>11. Blocks(g, n, reply) /\ LastChunk(g, n) = LastChunk(f, n)
  <2>1. Blocks(f, n, reply) /\ \A i \in 1..n : g[i] = f[i]
    BY <1>1, <1>8, <1>9, <1>10
  <2>2. n \in 0..n
    BY <1>8
  <2> QED  BY ONLY <1>8, <2>1, <2>2, SameBlocks, SameLast
<1>12. Blocks(All(u), Outputs(u), u.reply) /\ Upto(u) = Upto(t)
  BY <1>6, <1>9, <1>10, <1>11 DEF Upto
<1>13. u.wire # <<>> /\ u.wire[Len(u.wire)] = x
  <2>1. PICK w \in Seq(Frames) : w = t.wire
    BY <1>1, TurnFields
  <2>2. Append(w, x) # <<>> /\ Len(Append(w, x)) = Len(w) + 1 /\ Append(w, x)[Len(w) + 1] = x
    BY <1>3, AppendProperties
  <2> QED  BY <1>6, <2>1, <2>2
<1>14. EndOK(u)
  BY <1>3, <1>6, <1>12, <1>13 DEF EndOK
<1>15. TurnOK(u)
  BY <1>6, <1>12, <1>14 DEF TurnOK
<1> QED  BY <1>5, <1>15 DEF u

\* The servicer's step.
LEMMA ServicerStep ==
  ASSUME Inv, Servicer
  PROVE  turn' \in Executions /\ TurnOK(turn')
<1>1. PICK t : t = turn
  OBVIOUS
<1>2. Serving(t) /\ Rested(t) /\ t.pc = "open" /\ t.result = "none"
  <2>1. t \in Executions /\ TurnOK(t) /\ t.pc = "open" /\ ~t.over
    BY <1>1 DEF Inv, Servicer
  <2>2. t.end = "none"
    BY <2>1 DEF TurnOK, EndOK
  <2> QED  BY <2>1, <2>2 DEF TurnOK, Serving
<1>3. CASE /\ t.at < Len(t.reply)
           /\ turn' = [OnChunk(t, t.at + 1, t.reply[t.at + 1]) EXCEPT !.at = t.at + 1]
  <2>1. PICK kind : kind = t.reply[t.at + 1]
    OBVIOUS
  <2>2. kind \in Kinds
    <3>1. t.reply \in Seq(Kinds) /\ t.at \in Nat
      BY <1>2, TurnFields DEF Serving
    <3>2. t.at + 1 \in 1..Len(t.reply)
      BY <1>3, <3>1
    <3> QED  BY <2>1, <3>1, <3>2
  <2>3. CASE kind = "text"
    BY <1>2, <1>3, <2>1, <2>3, OnText, ServingOK
  <2>4. CASE kind = "thought"
    BY <1>2, <1>3, <2>1, <2>4, OnThought, ServingOK
  <2>5. CASE kind = "tool"
    BY <1>2, <1>3, <2>1, <2>5, OnTool, ServingOK
  <2> QED  BY <2>2, <2>3, <2>4, <2>5 DEF Kinds
<1>4. CASE t.at = Len(t.reply) /\ turn' = Ended(FlushAll(t), "COMPLETED")
  <2>1. PICK v : v = FlushAll(t)
    OBVIOUS
  <2>2. Serving(v) /\ SameTurn(t, v) /\ Upto(v) = t.at
    BY <1>2, <2>1, FlushAllIs
  <2>3. v.pc = "open" /\ v.result = "none" /\ Upto(v) = Len(v.reply)
    BY <1>2, <1>4, <2>2 DEF SameTurn
  <2>4. Ended(v, "COMPLETED") \in Executions /\ TurnOK(Ended(v, "COMPLETED"))
    BY <2>2, <2>3, EndedOK
  <2> QED  BY <1>4, <2>1, <2>4
<1>5. CASE turn' = Ended(t, "FAILED")
  BY <1>2, <1>5, EndedOK
<1>6. CASE turn' = Ended(FlushAll(t), "FAILED")
  <2>1. PICK v : v = FlushAll(t)
    OBVIOUS
  <2>2. Serving(v) /\ v.pc = "open" /\ v.result = "none"
    BY <1>2, <2>1, FlushAllIs DEF SameTurn
  <2>3. Ended(v, "FAILED") \in Executions /\ TurnOK(Ended(v, "FAILED"))
    BY <2>2, EndedOK
  <2> QED  BY <1>6, <2>1, <2>3
<1> QED  BY <1>1, <1>3, <1>4, <1>5, <1>6 DEF Servicer

----------------------------------------------------------------------------
(* The handler's side. *)

\* A turn is closed: nothing that was sent or received changes, and it may succeed only
\* after COMPLETED.
LEMMA ClosedOK ==
  ASSUME NEW t \in Executions, TurnOK(t), NEW result \in {"none", "ok", "error"},
         result = "ok" => t.end = "COMPLETED"
  PROVE  LET u == [t EXCEPT !.pc = "closed", !.result = result] IN u \in Executions /\ TurnOK(u)
<1> DEFINE u == [t EXCEPT !.pc = "closed", !.result = result]
<1>1. u \in Executions
  BY DEF Executions
<1>2. /\ u.got = t.got /\ u.wire = t.wire /\ u.over = t.over /\ u.end = t.end /\ u.reply = t.reply
      /\ u.at = t.at /\ u.text = t.text /\ u.thought = t.thought /\ u.result = result
      /\ u.pc = "closed"
  BY DEF Executions
<1> HIDE DEF u
<1>3. All(u) = All(t) /\ Outputs(u) = Outputs(t)
  BY <1>2, SameFrames
<1>4. Upto(u) = Upto(t)
  BY <1>3 DEF Upto
<1>5. EndOK(u)
  BY <1>2, <1>4 DEF TurnOK, EndOK
<1>6. ~u.over => Served(u) /\ Rested(u)
  BY <1>2, <1>3, <1>4 DEF TurnOK, Served, Rested, LastSent
<1>7. TurnOK(u)
  BY <1>2, <1>3, <1>5, <1>6 DEF TurnOK
<1> QED  BY <1>1, <1>7 DEF u

\* An output frame is received: the frames are the same, and in the same order.
LEMMA AllMoves ==
  ASSUME NEW t \in Executions, NEW u, t.wire # <<>>, u.wire = Tail(t.wire),
         u.got = Append(t.got, Head(t.wire))
  PROVE  FramesSent(u) = FramesSent(t) /\ All(u) = All(t)
<1>1. PICK g \in Seq(Frames), w \in Seq(Frames) : g = t.got /\ w = t.wire /\ w # <<>>
  BY TurnFields
<1>2. PICK a \in Nat, b \in Nat : a = Len(g) /\ b = Len(w) /\ b > 0
  BY <1>1
<1>3. PICK x : x = Head(w)
  OBVIOUS
<1>4. x = w[1] /\ x \in Frames
  BY <1>1, <1>3
<1>5. Len(Tail(w)) = b - 1 /\ \A i \in 1..(b - 1) : Tail(w)[i] = w[i + 1]
  BY <1>1, <1>2, HeadTailProperties
<1>6. /\ Len(Append(g, x)) = a + 1 /\ Append(g, x)[a + 1] = x
      /\ \A i \in 1..a : Append(g, x)[i] = g[i]
  BY <1>1, <1>2, <1>4, AppendProperties
<1>7. u.got = Append(g, x) /\ u.wire = Tail(w)
  BY <1>1, <1>3
<1>8. FramesSent(t) = a + b /\ FramesSent(u) = (a + 1) + (b - 1)
  BY <1>1, <1>2, <1>5, <1>6, <1>7 DEF FramesSent
<1>9. FramesSent(u) = a + b
  BY <1>2, <1>8
<1>10. All(t) = [i \in 1..(a + b) |-> IF i <= a THEN g[i] ELSE w[i - a]]
  BY <1>1, <1>2, <1>8 DEF All
<1>11. All(u) = [i \in 1..(a + b) |-> IF i <= a + 1 THEN Append(g, x)[i] ELSE Tail(w)[i - (a + 1)]]
  BY <1>7, <1>9, <1>6 DEF All
<1>12. \A i \in 1..(a + b) : (IF i <= a + 1 THEN Append(g, x)[i] ELSE Tail(w)[i - (a + 1)])
                           = (IF i <= a THEN g[i] ELSE w[i - a])
  <2> SUFFICES ASSUME NEW i \in 1..(a + b)
               PROVE  (IF i <= a + 1 THEN Append(g, x)[i] ELSE Tail(w)[i - (a + 1)])
                    = (IF i <= a THEN g[i] ELSE w[i - a])
    OBVIOUS
  <2>1. CASE i <= a
    BY <1>6, <2>1
  <2>2. CASE i = a + 1
    <3>1. i - a = 1 /\ i <= a + 1 /\ ~(i <= a)
      BY <2>2
    <3> QED  BY <1>4, <1>6, <2>2, <3>1
  <2>3. CASE i > a + 1
    <3>1. ~(i <= a + 1) /\ ~(i <= a) /\ i - (a + 1) \in 1..(b - 1) /\ (i - (a + 1)) + 1 = i - a
      BY <1>2, <2>3
    <3>2. Tail(w)[i - (a + 1)] = w[(i - (a + 1)) + 1]
      BY <1>5, <3>1
    <3> QED  BY <3>1, <3>2
  <2>4. i <= a \/ i = a + 1 \/ i > a + 1
    OBVIOUS
  <2> QED  BY ONLY <2>1, <2>2, <2>3, <2>4
<1>13. All(u) = All(t)
  BY ONLY <1>10, <1>11, <1>12
<1> QED  BY <1>8, <1>9, <1>13

\* An output frame is a block of the reply, and thus of a kind that a chunk can have.
LEMMA OutputKind ==
  ASSUME NEW f, NEW n \in Nat, NEW reply \in Seq(Kinds), Blocks(f, n, reply), NEW i \in 1..n
  PROVE  f[i].kind \in Kinds
<1>1. PICK from, to : from = LastChunk(f, i - 1) /\ to = LastChunk(f, i)
  OBVIOUS
<1>2. from \in Nat /\ to \in Nat
  <2>1. i - 1 \in 0..n /\ i \in 0..n
    OBVIOUS
  <2> QED  BY <1>1, <2>1, LastIsNat
<1>3. from < to /\ to <= Len(reply) /\ \A c \in (from + 1)..to : reply[c] = f[i].kind
  BY <1>1 DEF Blocks, IsNextBlock
<1>4. to \in (from + 1)..to /\ to \in 1..Len(reply)
  BY <1>2, <1>3
<1> QED  BY <1>3, <1>4

\* DrainStream hands an output frame to the handler.
LEMMA RecvOutput ==
  ASSUME NEW t \in Executions, TurnOK(t), t.pc = "open", t.wire # <<>>, Head(t.wire).kind \in Kinds
  PROVE  LET u == [t EXCEPT !.wire = Tail(t.wire), !.got = Append(t.got, Head(t.wire))] IN
         u \in Executions /\ TurnOK(u)
<1>1. PICK w \in Seq(Frames), g \in Seq(Frames) : w = t.wire /\ g = t.got /\ w # <<>>
  BY TurnFields
<1>2. PICK rest \in Seq(Frames), x \in Frames : rest = Tail(w) /\ x = Head(w)
  BY <1>1, HeadTailProperties
<1>3. PICK more \in Seq(Frames) : more = Append(g, x)
  BY <1>2, AppendProperties
<1> DEFINE u == [t EXCEPT !.wire = rest, !.got = more]
<1>4. u \in Executions
  BY DEF Executions
<1>5. /\ u.got = more /\ u.wire = rest /\ u.over = t.over /\ u.end = t.end /\ u.reply = t.reply
      /\ u.at = t.at /\ u.text = t.text /\ u.thought = t.thought /\ u.result = t.result
      /\ u.pc = t.pc
  BY DEF Executions
<1> HIDE DEF u
<1>6. FramesSent(u) = FramesSent(t) /\ All(u) = All(t)
  BY <1>1, <1>2, <1>3, <1>5, AllMoves
<1>7. Outputs(u) = Outputs(t) /\ Upto(u) = Upto(t)
  BY <1>5, <1>6 DEF Outputs, Upto
<1>8. t.over /\ t.end = "none" => rest # <<>> /\ rest[Len(rest)] = w[Len(w)]
  <2>1. HAVE t.over /\ t.end = "none"
  <2>2. w[Len(w)].kind \notin Kinds
    BY <1>1, <2>1 DEF TurnOK, EndOK, Kinds
  <2>3. x = w[1] /\ Len(w) \in Nat /\ Len(w) > 0
    BY <1>1, <1>2
  <2>4. Len(w) # 1
    BY <1>1, <1>2, <2>2, <2>3
  <2>5. Len(rest) = Len(w) - 1 /\ \A i \in 1..(Len(w) - 1) : rest[i] = w[i + 1]
    BY <1>1, <1>2, HeadTailProperties
  <2>6. Len(rest) > 0 /\ rest[Len(rest)] = w[Len(w)]
    BY <2>3, <2>4, <2>5
  <2> QED  BY <2>6
<1>9. EndOK(u)
  <2>1. t.end = "none" \/ t.wire = <<>>
    BY DEF TurnOK, EndOK
  <2>2. t.end = "none"
    BY <2>1
  <2> QED  BY <1>1, <1>5, <1>7, <1>8, <2>2 DEF TurnOK, EndOK
<1>10. ~u.over => Served(u) /\ Rested(u)
  BY <1>5, <1>6, <1>7 DEF TurnOK, Served, Rested, LastSent
<1>11. TurnOK(u)
  BY <1>5, <1>6, <1>7, <1>9, <1>10 DEF TurnOK
<1> QED  BY <1>1, <1>2, <1>3, <1>4, <1>11 DEF u

\* DrainStream keeps the end frame, which is the last one.
LEMMA RecvEnd ==
  ASSUME NEW t \in Executions, TurnOK(t), t.pc = "open", t.wire # <<>>,
         Head(t.wire).kind \notin Kinds
  PROVE  LET u == [t EXCEPT !.wire = Tail(t.wire), !.end = Head(t.wire).kind] IN
         u \in Executions /\ TurnOK(u)
<1>1. PICK w \in Seq(Frames), g \in Seq(Frames) : w = t.wire /\ g = t.got /\ w # <<>>
  BY TurnFields
<1>2. PICK a \in Nat, b \in Nat : a = Len(g) /\ b = Len(w) /\ b > 0
  BY <1>1
<1>3. PICK rest \in Seq(Frames), x \in Frames : rest = Tail(w) /\ x = Head(w)
  BY <1>1, HeadTailProperties
<1>4. x = w[1] /\ x.kind \in {"COMPLETED", "FAILED"}
  <2>1. x.kind \notin Kinds
    BY <1>1, <1>3
  <2> QED  BY <1>1, <1>3, <2>1 DEF Frames
<1>5. FramesSent(t) = a + b
  BY <1>1, <1>2 DEF FramesSent
<1>6. All(t)[a + 1] = x
  <2>1. All(t) = [i \in 1..(a + b) |-> IF i <= a THEN g[i] ELSE w[i - a]]
    BY <1>1, <1>2, <1>5 DEF All
  <2>2. a + 1 \in 1..(a + b) /\ ~(a + 1 <= a) /\ (a + 1) - a = 1
    BY <1>2
  <2> QED  BY <1>4, <2>1, <2>2
<1>7. PICK n : n = Outputs(t)
  OBVIOUS
<1>8. n \in Nat
  BY <1>7, OutputsNat DEF TurnOK
<1>9. ~(a + 1 <= n)
  <2>1. SUFFICES ASSUME a + 1 <= n PROVE FALSE
    OBVIOUS
  <2>2. PICK f, reply : f = All(t) /\ reply = t.reply
    OBVIOUS
  <2>3. Blocks(f, n, reply) /\ reply \in Seq(Kinds) /\ a + 1 \in 1..n
    BY <1>7, <1>8, <2>1, <2>2, TurnFields DEF TurnOK
  <2>4. f[a + 1].kind \in Kinds
    BY ONLY <1>8, <2>3, OutputKind
  <2> QED  BY <1>4, <1>6, <2>2, <2>4 DEF Kinds
<1>10. t.over /\ t.end = "none" /\ n = a /\ b = 1
  <2>1. t.over /\ t.end = "none"
    BY <1>2, <1>5, <1>7, <1>9 DEF Outputs
  <2>2. n = (a + b) - 1
    BY <1>5, <1>7, <2>1 DEF Outputs
  <2> QED  BY <1>2, <1>9, <2>1, <2>2
<1>11. rest = <<>>
  <2>1. Len(rest) = Len(w) - 1
    BY <1>1, <1>3, HeadTailProperties
  <2>2. Len(rest) = 0
    <3>1. Len(rest) = b - 1
      BY ONLY <1>2, <2>1
    <3> QED  BY ONLY <1>10, <3>1
  <2> QED  BY <2>2, EmptySeq
<1>12. PICK end \in {"COMPLETED", "FAILED"} : end = x.kind
  BY <1>4
<1> DEFINE u == [t EXCEPT !.wire = rest, !.end = end]
<1>13. u \in Executions
  BY DEF Executions
<1>14. /\ u.got = g /\ u.wire = rest /\ u.over /\ u.end = end /\ u.reply = t.reply
       /\ u.result = t.result /\ u.pc = t.pc
  BY <1>1, <1>10 DEF Executions
<1> HIDE DEF u
<1>15. FramesSent(u) = a
  <2>1. Len(rest) = 0
    BY <1>11, EmptySeq
  <2> QED  BY <1>2, <1>14, <2>1 DEF FramesSent
<1>16. Outputs(u) = a
  BY <1>12, <1>14, <1>15 DEF Outputs
<1>17. \A i \in 1..a : All(u)[i] = All(t)[i]
  <2>1. All(t) = [i \in 1..(a + b) |-> IF i <= a THEN g[i] ELSE w[i - a]]
    BY <1>1, <1>2, <1>5 DEF All
  <2>2. All(u) = [i \in 1..a |-> IF i <= a THEN g[i] ELSE rest[i - a]]
    BY <1>2, <1>14, <1>15 DEF All
  <2>3. \A i \in 1..a : i \in 1..(a + b) /\ i <= a
    OBVIOUS
  <2> QED  BY <2>1, <2>2, <2>3
<1>18. PICK f, h, reply : f = All(t) /\ h = All(u) /\ reply = t.reply
  OBVIOUS
<1>19. Blocks(h, a, reply) /\ LastChunk(h, a) = LastChunk(f, a)
  <2>1. Blocks(f, a, reply) /\ \A i \in 1..a : h[i] = f[i]
    BY <1>7, <1>10, <1>17, <1>18 DEF TurnOK
  <2>2. a \in 0..a
    OBVIOUS
  <2> QED  BY ONLY a \in Nat, <2>1, <2>2, SameBlocks, SameLast
<1>20. Upto(u) = Upto(t)
  BY <1>7, <1>10, <1>16, <1>18, <1>19 DEF Upto
<1>21. end = "COMPLETED" => Upto(t) = Len(t.reply)
  <2>1. w[Len(w)] = x
    BY <1>2, <1>4, <1>10
  <2> QED  BY <1>1, <1>10, <1>12, <2>1 DEF TurnOK, EndOK
<1>22. t.result = "none"
  BY DEF TurnOK
<1>23. EndOK(u)
  BY <1>11, <1>12, <1>14, <1>20, <1>21, <1>22 DEF EndOK
<1>24. TurnOK(u)
  BY <1>14, <1>16, <1>18, <1>19, <1>22, <1>23 DEF TurnOK
<1> QED  BY <1>1, <1>3, <1>12, <1>13, <1>24 DEF u

\* DrainStream's step.
LEMMA RecvStep ==
  ASSUME Inv, Recv
  PROVE  turn' \in Executions /\ TurnOK(turn')
<1>1. PICK t : t = turn
  OBVIOUS
<1>2. t \in Executions /\ TurnOK(t) /\ t.pc = "open" /\ t.wire # <<>>
  BY <1>1 DEF Inv, Recv
<1>3. CASE /\ Head(t.wire).kind \in Kinds
           /\ turn' = [t EXCEPT !.wire = Tail(t.wire), !.got = Append(t.got, Head(t.wire))]
  BY <1>2, <1>3, RecvOutput, ZenonT(40)
<1>4. CASE turn' = [t EXCEPT !.pc = "closed", !.result = "error"]
  BY <1>2, <1>4, ClosedOK
<1>5. CASE /\ Head(t.wire).kind \notin Kinds
           /\ turn' = [t EXCEPT !.wire = Tail(t.wire), !.end = Head(t.wire).kind]
  BY <1>2, <1>5, RecvEnd
<1>6. /\ [t EXCEPT !.wire = Tail(@), !.got = Append(@, Head(t.wire))]
           = [t EXCEPT !.wire = Tail(t.wire), !.got = Append(t.got, Head(t.wire))]
      /\ [t EXCEPT !.wire = Tail(@), !.end = Head(t.wire).kind]
           = [t EXCEPT !.wire = Tail(t.wire), !.end = Head(t.wire).kind]
  BY <1>2 DEF Executions
<1>7. \/ /\ Head(t.wire).kind \in Kinds
         /\ \/ turn' = [t EXCEPT !.wire = Tail(@), !.got = Append(@, Head(t.wire))]
            \/ turn' = [t EXCEPT !.pc = "closed", !.result = "error"]
      \/ /\ Head(t.wire).kind \notin Kinds
         /\ turn' = [t EXCEPT !.wire = Tail(@), !.end = Head(t.wire).kind]
  BY <1>1 DEF Recv, Frame, Returns
<1> QED  BY ONLY <1>3, <1>4, <1>5, <1>6, <1>7

\* No turn is as it should be.
LEMMA NoTurnOK ==
  NoTurn \in Executions /\ TurnOK(NoTurn)
<1>1. PICK t : t = NoTurn
  OBVIOUS
<1>2. PICK e : e = <<>> /\ e \in Seq(Nat) /\ e \in Seq(Frames) /\ e \in Seq(Kinds) /\ Len(e) = 0
  BY EmptySeq
<1>3. t = [pc |-> "none", host |-> 0, srv |-> 0, reply |-> e, at |-> 0, text |-> e,
           thought |-> e, over |-> FALSE, wire |-> e, got |-> e, end |-> "none", result |-> "none"]
  BY <1>1, <1>2 DEF NoTurn
<1>4. t \in Executions
  BY <1>2, <1>3, SidecarBounds DEF Executions
<1>5. Outputs(t) = 0
  BY <1>2, <1>3 DEF Outputs, FramesSent
<1>6. Upto(t) = 0
  BY <1>5 DEF Upto, LastChunk
<1>7. Blocks(All(t), Outputs(t), t.reply)
  BY <1>5 DEF Blocks
<1>8. Served(t) /\ Rested(t)
  BY <1>2, <1>3, <1>5, <1>6 DEF Served, Rested, LastSent
<1>9. EndOK(t)
  BY <1>3 DEF EndOK
<1>10. TurnOK(t)
  BY <1>1, <1>3, <1>7, <1>8, <1>9 DEF TurnOK
<1> QED  BY <1>1, <1>4, <1>10

\* A turn that has just begun.
LEMMA ConnectedOK ==
  ASSUME turn = NoTurn, NEW h \in Host, NEW p \in Procs, NEW reply \in Seq(Kinds)
  PROVE  LET u == Connected(h, p, reply) IN
         Serving(u) /\ Rested(u) /\ u.pc = "open" /\ u.result = "none"
<1>1. PICK u : u = Connected(h, p, reply)
  OBVIOUS
<1>2. PICK e : e = <<>> /\ e \in Seq(Nat) /\ e \in Seq(Frames) /\ Len(e) = 0
  BY EmptySeq
<1>3. u = [pc |-> "open", host |-> h, srv |-> p, reply |-> reply, at |-> 0, text |-> e,
           thought |-> e, over |-> FALSE, wire |-> e, got |-> e, end |-> "none", result |-> "none"]
  BY <1>1, <1>2 DEF NoTurn, Connected
<1>4. u \in Executions
  BY <1>2, <1>3, SidecarBounds DEF Executions, Procs
<1>5. Outputs(u) = 0
  BY <1>2, <1>3 DEF Outputs, FramesSent
<1>6. Upto(u) = 0
  BY <1>5 DEF Upto, LastChunk
<1>7. Blocks(All(u), Outputs(u), u.reply)
  BY <1>5 DEF Blocks
<1>8. 0 <= Len(reply)
  OBVIOUS
<1>9. Served(u) /\ Rested(u)
  BY <1>2, <1>3, <1>5, <1>6, <1>8 DEF Served, Rested, LastSent
<1>10. Serving(u)
  BY <1>3, <1>4, <1>7, <1>9 DEF Serving
<1> QED  BY <1>1, <1>3, <1>9, <1>10

\* Run's step.
LEMMA RunStep ==
  ASSUME Inv, NEW h \in Host, Run(h)
  PROVE  turn' \in Executions /\ TurnOK(turn')
<1>1. turn = NoTurn
  BY DEF Inv, TurnOK, Run
<1>2. ASSUME NEW p \in Procs, NEW reply \in Replies, turn' = Connected(h, p, reply)
      PROVE  turn' \in Executions /\ TurnOK(turn')
  <2>1. reply \in Seq(Kinds)
    BY RepliesAssumption
  <2> QED  BY <1>1, <1>2, <2>1, ConnectedOK, ServingOK
<1>3. ASSUME NEW p \in Procs, turn' = Refused(Connected(h, p, <<>>))
      PROVE  turn' \in Executions /\ TurnOK(turn')
  <2>1. PICK u : u = Connected(h, p, <<>>)
    OBVIOUS
  <2>2. PICK e \in Seq(Kinds) : e = <<>>
    BY EmptySeq
  <2>3. Serving(u) /\ u.pc = "open" /\ u.result = "none"
    BY <1>1, <2>1, <2>2, ConnectedOK
  <2>4. Ended(u, "FAILED") \in Executions /\ TurnOK(Ended(u, "FAILED"))
    BY <2>3, EndedOK
  <2> QED  BY <1>3, <2>1, <2>4 DEF Refused
<1>4. ASSUME turn' = [turn EXCEPT !.pc = "closed", !.host = h, !.result = "error"]
      PROVE  turn' \in Executions /\ TurnOK(turn')
  <2>1. PICK e : e = <<>> /\ e \in Seq(Nat) /\ e \in Seq(Frames) /\ e \in Seq(Kinds) /\ Len(e) = 0
    BY EmptySeq
  <2>2. PICK u : u = turn'
    OBVIOUS
  <2>3. u = [pc |-> "closed", host |-> h, srv |-> 0, reply |-> e, at |-> 0, text |-> e,
             thought |-> e, over |-> FALSE, wire |-> e, got |-> e, end |-> "none",
             result |-> "error"]
    BY <1>1, <1>4, <2>1, <2>2 DEF NoTurn
  <2>4. u \in Executions
    BY <2>1, <2>3, SidecarBounds DEF Executions
  <2>5. Outputs(u) = 0
    BY <2>1, <2>3 DEF Outputs, FramesSent
  <2>6. Upto(u) = 0
    BY <2>5 DEF Upto, LastChunk
  <2>7. Blocks(All(u), Outputs(u), u.reply)
    BY <2>5 DEF Blocks
  <2>8. Served(u) /\ Rested(u)
    BY <2>1, <2>3, <2>5, <2>6 DEF Served, Rested, LastSent
  <2>9. EndOK(u)
    BY <2>3 DEF EndOK
  <2>10. TurnOK(u)
    BY <2>3, <2>7, <2>8, <2>9 DEF TurnOK
  <2> QED  BY <2>2, <2>4, <2>10
<1> QED  BY <1>2, <1>3, <1>4 DEF Run

----------------------------------------------------------------------------
(* The invariant, and what it implies. *)

\* A step of the sidecar's lifecycle leaves the turn alone, or ends it with its host.
LEMMA LifecycleStep ==
  ASSUME Inv, Lifecycle
  PROVE  turn' \in Executions /\ TurnOK(turn')
<1>1. CASE turn' = turn
  BY <1>1, SMTT(40) DEF Inv
<1>2. CASE turn.pc = "open" /\ turn' = [turn EXCEPT !.pc = "closed"]
  <2>1. PICK t : t = turn
    OBVIOUS
  <2>2. t \in Executions /\ TurnOK(t) /\ t.result = "none"
    BY <1>2, <2>1 DEF Inv, TurnOK
  <2>3. [t EXCEPT !.pc = "closed"] = [t EXCEPT !.pc = "closed", !.result = "none"]
    BY <2>2 DEF Executions
  <2> QED  BY <1>2, <2>1, <2>2, <2>3, ClosedOK
<1> QED  BY <1>1, <1>2 DEF Lifecycle

\* A step of the turn keeps what holds of it.
LEMMA TurnStep ==
  ASSUME Inv, TurnNext
  PROVE  turn' \in Executions /\ TurnOK(turn')
<1>1. turn \in Executions /\ TurnOK(turn)
  BY DEF Inv
<1>2. ASSUME NEW h \in Host, Run(h) PROVE turn' \in Executions /\ TurnOK(turn')
  BY <1>2, RunStep
<1>3. CASE Servicer
  BY <1>3, ServicerStep
<1>4. CASE Recv
  BY <1>4, RecvStep
<1>5. CASE EOF
  <2>1. PICK t, r : t = turn /\ r = Drained
    OBVIOUS
  <2>2. r \in {"none", "ok", "error"} /\ (r = "ok" => t.end = "COMPLETED")
    <3>1. t.end \in {"none", "COMPLETED", "FAILED"}
      BY <1>1, <2>1 DEF Executions
    <3> QED  BY <2>1, <3>1 DEF Drained
  <2>3. turn' = [t EXCEPT !.pc = "closed", !.result = r]
    BY <1>5, <2>1, SMTT(40) DEF EOF, Returns
  <2> QED  BY <1>1, <2>1, <2>2, <2>3, ClosedOK
<1>6. CASE StreamBreaks
  <2>1. turn' = [turn EXCEPT !.pc = "closed", !.result = "error"]
    BY <1>6 DEF StreamBreaks, Returns
  <2> QED  BY <1>1, <2>1, ClosedOK
<1>7. CASE Close
  BY <1>7, NoTurnOK DEF Close
<1> QED  BY <1>2, <1>3, <1>4, <1>5, <1>6, <1>7 DEF TurnNext

\* The invariant is kept by every step: one of the turn leaves the sidecar alone.
LEMMA TurnInv == Inv /\ [Next]_vars => Inv'
<1>1. ASSUME Inv, UNCHANGED vars PROVE Inv'
  <2>1. IInv'
    BY <1>1, StepInv DEF Inv, vars
  <2>2. turn' = turn
    BY <1>1 DEF vars
  <2>3. turn' \in Executions /\ TurnOK(turn')
    BY <1>1, <2>2 DEF Inv
  <2>4. (turn \in Executions)'
    BY <2>3 DEF Executions
  <2>5. TurnOK(turn)'
    BY <2>3
  <2> QED  BY <2>1, <2>3, <2>4, <2>5 DEF Inv
<1>2. ASSUME Inv, Lifecycle PROVE Inv'
  <2>1. IInv'
    BY <1>2, StepInv DEF Inv, Lifecycle
  <2> QED  BY <1>2, <2>1, LifecycleStep DEF Inv
<1>3. ASSUME Inv, TurnNext PROVE Inv'
  <2>1. UNCHANGED sidecarVars
    BY <1>3 DEF TurnNext, Run, Servicer, Recv, EOF, StreamBreaks, Close
  <2>2. IInv'
    BY <1>3, <2>1, StepInv DEF Inv
  <2> QED  BY <1>3, <2>2, TurnStep DEF Inv
<1> QED  BY <1>1, <1>2, <1>3 DEF Next

\* The handler was given a prefix of what was sent.
LEMMA WholeFrom ==
  ASSUME NEW t \in Executions, TurnOK(t)
  PROVE  /\ \A i \in DOMAIN t.got : IsNextBlock(t.got, i, t.reply)
         /\ t.result = "ok" => LastChunk(t.got, Len(t.got)) = Len(t.reply)
<1>1. PICK g \in Seq(Frames), w \in Seq(Frames) : g = t.got /\ w = t.wire
  BY TurnFields
<1>2. PICK a \in Nat, b \in Nat : a = Len(g) /\ b = Len(w)
  BY <1>1
<1>3. FramesSent(t) = a + b
  BY <1>1, <1>2 DEF FramesSent
<1>4. \A i \in 1..a : All(t)[i] = g[i]
  <2>1. All(t) = [i \in 1..(a + b) |-> IF i <= a THEN g[i] ELSE w[i - a]]
    BY <1>1, <1>2, <1>3 DEF All
  <2>2. \A i \in 1..a : i \in 1..(a + b) /\ i <= a
    OBVIOUS
  <2> QED  BY <2>1, <2>2
<1>5. PICK n : n = Outputs(t)
  OBVIOUS
<1>6. n \in Nat /\ a <= n
  <2>1. CASE t.over /\ t.end = "none"
    <3>1. w # <<>>
      BY <1>1, <2>1 DEF TurnOK, EndOK
    <3>2. b > 0
      BY <1>2, <3>1
    <3> QED  BY <1>3, <1>5, <2>1, <3>2 DEF Outputs
  <2>2. CASE ~(t.over /\ t.end = "none")
    BY <1>3, <1>5, <2>2 DEF Outputs
  <2> QED  BY <2>1, <2>2
<1>7. PICK f, reply : f = All(t) /\ reply = t.reply
  OBVIOUS
<1>8. Blocks(f, n, reply)
  BY <1>5, <1>7 DEF TurnOK
<1>9. Blocks(f, a, reply)
  <2>1. \A i \in 1..a : i \in 1..n
    BY <1>6
  <2> QED  BY ONLY <1>8, <2>1 DEF Blocks
<1>10. \A i \in 1..a : g[i] = f[i]
  BY <1>4, <1>7
<1>11. Blocks(g, a, reply) /\ LastChunk(g, a) = LastChunk(f, a)
  <2>1. a \in 0..a
    OBVIOUS
  <2> QED  BY ONLY a \in Nat, <1>9, <1>10, <2>1, SameBlocks, SameLast
<1>12. \A i \in DOMAIN g : IsNextBlock(g, i, reply)
  <2>1. DOMAIN g = 1..a
    BY <1>2
  <2> QED  BY ONLY <1>11, <2>1 DEF Blocks
<1>13. t.result = "ok" => LastChunk(g, Len(g)) = Len(reply)
  <2>1. HAVE t.result = "ok"
  <2>2. t.end = "COMPLETED" /\ t.wire = <<>> /\ Upto(t) = Len(t.reply)
    BY <2>1 DEF TurnOK, EndOK
  <2>3. b = 0
    BY <1>1, <1>2, <2>2, EmptySeq
  <2>4. n = a
    BY <1>3, <1>5, <2>2, <2>3 DEF Outputs
  <2> QED  BY <1>2, <1>5, <1>7, <1>11, <2>2, <2>4 DEF Upto
<1> QED  BY <1>1, <1>7, <1>12, <1>13

\* The invariant implies the properties that are checked of a turn and of the sidecar.
LEMMA InvSuffices == Inv => TypeOK /\ OneServer /\ NamedWhileServing /\ TurnIsWhole
<1> SUFFICES ASSUME Inv PROVE TypeOK /\ OneServer /\ NamedWhileServing /\ TurnIsWhole
  OBVIOUS
<1>1. IInv /\ turn \in Executions /\ TurnOK(turn)
  BY DEF Inv
<1>2. OneServer /\ NamedWhileServing
  BY <1>1, InvImplies
<1>3. TypeOK
  BY <1>1 DEF TypeOK, IInv, TurnOK
<1>4. TurnIsWhole
  BY <1>1, WholeFrom DEF TurnIsWhole
<1> QED  BY <1>2, <1>3, <1>4

\* Everything that is shown below, at once: the invariant of the sidecar's processes
\* and files, and that of the frames of a turn.
THEOREM Invariance == Spec => []Inv
<1>1. Init => Inv
  BY InitInv, NoTurnOK DEF Init, Inv
<1> QED  BY <1>1, TurnInv, PTL DEF Spec

\* Every variable of the harness and its sidecar has its type, whatever the number of
\* hosts, processes and faults, and a turn has a result only once it has ended.
THEOREM TypesCorrect == Spec => []TypeOK
BY Invariance, InvSuffices, PTL

\* At most one server is alive, however Starts, Stops, monitors and exits interleave,
\* as long as no two Starts overlapped and no host was killed in one.
THEOREM OneServerOnly == Spec => []OneServer
BY Invariance, InvSuffices, PTL

\* The server of a host that is up is named by the PID file, so that the next host
\* attaches to it, in the absence of the lapses that NamedWhileServing excepts.
THEOREM ServerIsNamed == Spec => []NamedWhileServing
BY Invariance, InvSuffices, PTL

\* DrainStream hands over the reply in order and in whole blocks, whichever replies the
\* agent gives and wherever the stream breaks, and completes only a complete one.
THEOREM TurnsAreWhole == Spec => []TurnIsWhole
BY Invariance, InvSuffices, PTL
=============================================================================
