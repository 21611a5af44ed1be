---------------------------- MODULE Antigravity ----------------------------
(***************************************************************************)
(* A turn of the Antigravity harness over the sidecar that Sidecar starts,   *)
(* watches and stops: antigravityExecution.Run sends one start frame, the     *)
(* servicer of harness_server.py turns the agent's chunks into frames, and    *)
(* DrainStream hands them to the controller's handler.  The server may die    *)
(* and the stream may break at any frame.                                    *)
(***************************************************************************)
EXTENDS Sidecar, Sequences

CONSTANTS Replies       \* the sequences of chunk kinds that the agent may produce, without
                        \* the chunks of other kinds, which the servicer skips

Kinds == {"text", "thought", "tool"}
ASSUME RepliesAssumption == Replies \subseteq Seq(Kinds)

VARIABLE turn           \* the execution: its server, the stream and what was delivered

vars == <<sidecarVars, turn>>

----------------------------------------------------------------------------
(* _run_turn: contiguous text and thought chunks are buffered, and sent as one    *)
(* step when the block ends.  A chunk is its index in the reply.                  *)

FrameOf(kind, chunks) == [kind |-> kind, chunks |-> chunks]

flush_text(t) ==
    IF t.text = <<>> THEN t
    ELSE [t EXCEPT !.text = <<>>, !.wire = Append(@, FrameOf("text", t.text))]

flush_thought(t) ==
    IF t.thought = <<>> THEN t
    ELSE [t EXCEPT !.thought = <<>>, !.wire = Append(@, FrameOf("thought", t.thought))]

FlushAll(t) == flush_thought(flush_text(t))

\* Mutated form: a tool call is sent at once, ahead of what is buffered.
OnChunk_NoFlush(t, i, kind) ==
    CASE kind = "text"    -> [flush_thought(t) EXCEPT !.text = Append(@, i)]
      [] kind = "thought" -> [flush_text(t) EXCEPT !.thought = Append(@, i)]
      [] kind = "tool"    -> [t EXCEPT !.wire = Append(@, FrameOf("tool", <<i>>))]

OnChunk(t, i, kind) ==
    CASE kind = "text"    -> [flush_thought(t) EXCEPT !.text = Append(@, i)]
      [] kind = "thought" -> [flush_text(t) EXCEPT !.thought = Append(@, i)]
      [] kind = "tool"    -> [FlushAll(t) EXCEPT !.wire = Append(@, FrameOf("tool", <<i>>))]

\* The end frame, after which the servicer returns.
Ended(t, state) ==
    [t EXCEPT !.over = TRUE, !.wire = Append(@, FrameOf(state, <<>>))]

\* A start frame with an invalid conversation id, without a text to answer, or with an
\* agent_config that is no overlay of allowed fields.
Refused(t) == Ended(t, "FAILED")

----------------------------------------------------------------------------
(* antigravityExecution.Run and DrainStream. *)

NoTurn == [pc |-> "none", host |-> 0, srv |-> 0, reply |-> <<>>, at |-> 0, text |-> <<>>,
           thought |-> <<>>, over |-> FALSE, wire |-> <<>>, got |-> <<>>, end |-> "none",
           result |-> "none"]

Connected(h, p, reply) ==
    [turn EXCEPT !.pc = "open", !.host = h, !.srv = p, !.reply = reply]

\* Run drains the queue, connects to whatever serves the endpoint, and sends the start
\* frame.  Without input or without a server it fails.  A start frame that is refused
\* is answered by its end alone.
Run(h) ==
    /\ turn.pc = "none" /\ launches = 1
    /\ main[h] = "up"
    /\ \/ \E p \in Procs :
            /\ proc[p].stage = "serving"
            /\ \/ \E reply \in Replies : turn' = Connected(h, p, reply)
               \/ turn' = Refused(Connected(h, p, <<>>))
       \/ turn' = [turn EXCEPT !.pc = "closed", !.host = h, !.result = "error"]
    /\ UNCHANGED sidecarVars

\* The servicer takes the agent's next chunk, or ends the turn: what is buffered is
\* sent when the agent is through, and lost when it raises.  A tool call whose arguments
\* Struct refuses raises too, but after what is before it was sent.  So does the agent's
\* __aexit__, after COMPLETED: the end frame here is the last one, which supersedes it.
Servicer ==
    /\ turn.pc = "open" /\ ~turn.over /\ Live(turn.srv)
    /\ \/ /\ turn.at < Len(turn.reply)
          /\ LET i == turn.at + 1 IN
             turn' = [OnChunk(turn, i, turn.reply[i]) EXCEPT !.at = i]
       \/ turn.at = Len(turn.reply) /\ turn' = Ended(FlushAll(turn), "COMPLETED")
       \/ turn' = Ended(turn, "FAILED")
       \/ /\ turn.at < Len(turn.reply) => turn.reply[turn.at + 1] = "tool"
          /\ turn' = Ended(FlushAll(turn), "FAILED")
    /\ UNCHANGED sidecarVars

Returns(result) == turn' = [turn EXCEPT !.pc = "closed", !.result = result]

Frame == Head(turn.wire)

\* An output step goes to handler.OnMessage; an end frame is kept until the stream ends.
Recv ==
    /\ turn.pc = "open" /\ turn.wire # <<>>
    /\ \/ /\ Frame.kind \in Kinds
          /\ \/ turn' = [turn EXCEPT !.wire = Tail(@), !.got = Append(@, Frame)]
             \/ Returns("error")
       \/ /\ Frame.kind \notin Kinds
          /\ turn' = [turn EXCEPT !.wire = Tail(@), !.end = Frame.kind]
    /\ UNCHANGED sidecarVars

\* What DrainStream returns at io.EOF; "ok" is handler.OnComplete.
Drained == IF turn.end \in {"none", "FAILED"} THEN "error" ELSE "ok"

EOF ==
    /\ turn.pc = "open" /\ turn.over /\ turn.wire = <<>>
    /\ Returns(Drained)
    /\ UNCHANGED sidecarVars

\* The stream fails: the server has exited, or Run's context is cancelled.
StreamBreaks ==
    /\ turn.pc = "open"
    /\ ~Live(turn.srv) \/ side[turn.host].ctx
    /\ Returns("error")
    /\ UNCHANGED sidecarVars

\* The controller closes the execution.
Close ==
    /\ turn.pc = "closed"
    /\ turn' = NoTurn
    /\ UNCHANGED sidecarVars

TurnNext == (\E h \in Host : Run(h)) \/ Servicer \/ Recv \/ EOF \/ StreamBreaks \/ Close

\* Bound: turns are those of the first host, before the second one is started.  What a
\* second host can do to a turn is to make its server exit, which Exit does as well.
AloneInATurn == launches' # launches => turn.pc = "none"

\* A host that ends takes its turn with it.
Lifecycle ==
    /\ SidecarNext /\ AloneInATurn
    /\ turn' = IF turn.pc = "open" /\ main'[turn.host] = "off"
               THEN [turn EXCEPT !.pc = "closed"] ELSE turn

Init == SidecarInit /\ turn = NoTurn

Next == Lifecycle \/ TurnNext

Spec == Init /\ [][Next]_vars /\ SidecarFairness

----------------------------------------------------------------------------
Frames == [kind : Kinds \union {"COMPLETED", "FAILED"}, chunks : Seq(Nat)]

Executions ==
    [pc : {"none", "open", "closed"}, host : Host \union {0}, srv : 0..MaxProcs,
     reply : Seq(Kinds), at : Nat, text : Seq(Nat), thought : Seq(Nat), over : BOOLEAN,
     wire : Seq(Frames), got : Seq(Frames), end : {"none", "COMPLETED", "FAILED"},
     result : {"none", "ok", "error"}]

\* Every variable has its type, and a turn has a result only once it has ended.
TypeOK ==
    /\ SidecarTypeOK
    /\ turn \in Executions
    /\ turn.pc # "closed" => turn.result = "none"

\* The last chunk that the first n of these frames contain.
LastChunk(frames, n) ==
    IF n = 0 THEN 0 ELSE frames[n].chunks[Len(frames[n].chunks)]

\* The i-th of these frames is a whole block of the reply, the one that follows those
\* before it.
IsNextBlock(frames, i, reply) ==
    LET from == LastChunk(frames, i - 1)
        to == LastChunk(frames, i)
    IN  /\ from < to /\ to <= Len(reply)
        /\ frames[i].chunks = [j \in 1..(to - from) |-> from + j]
        /\ \A c \in (from + 1)..to : reply[c] = frames[i].kind
        /\ i > 1 /\ frames[i].kind # "tool" => frames[i].kind # frames[i - 1].kind

\* The handler is given the reply in order, in whole blocks: no two text or two thought
\* steps follow one another, and OnComplete is called only for a reply that is complete.
TurnIsWhole ==
    /\ \A i \in DOMAIN turn.got : IsNextBlock(turn.got, i, turn.reply)
    /\ turn.result = "ok" => LastChunk(turn.got, Len(turn.got)) = Len(turn.reply)
=============================================================================
