---------------------------- MODULE Interactions ----------------------------
(***************************************************************************)
(* The Antigravity Interactions harness: one conversation, whose executions   *)
(* come one after the other over Connect, each driving a loop of turns        *)
(* against the Interactions API, running the tools the agent asks for and     *)
(* keeping the resume cursor on disk.  A client may cancel, the process may   *)
(* crash, and every POST may be rejected, fail or lose its answer.            *)
(*                                                                         *)
(* The API is external: it is modelled by what postTurnOnce has to cope with.  *)
(* Two things are assumed of what is outside.  A stream that ends without an    *)
(* error is a whole turn and has named its interaction: parseStreamedTurn takes  *)
(* any end for that, skips lines it cannot read, and goes on without an id.      *)
(* And a tool comes to an end: a background child that keeps run_command's       *)
(* output open would outlast its timeout.                                    *)
(* Steering (Queue during Run) is left out: no frame of Connect carries it.   *)
(***************************************************************************)
EXTENDS Tools, TLC

CONSTANTS
    MaxTurns,           \* cfg.MaxTurns
    rateLimitMaxRetries,
    MaxConnects,        \* bound on the executions of the conversation
    MaxInteractions,    \* bound on the interactions the server creates
    MaxEvents,          \* bound on failures, crashes, cancellations and uses of files
    InitialFiles,       \* the files the agent works on, by path
    Paths,              \* the paths it may name
    Windows,            \* the StartLine and EndLine arguments it may give
    Edits,              \* the ReplacementChunks it may give
    Contents            \* the Content of the files it may create

ASSUME InteractionBounds ==
    {MaxTurns, rateLimitMaxRetries, MaxConnects, MaxInteractions, MaxEvents} \subseteq Nat
ASSUME FileAssumption ==
    /\ DOMAIN InitialFiles \subseteq Paths
    /\ Range(InitialFiles) \cup Contents \subseteq Seq(Byte)

VARIABLES
    srv,      \* the interactions the server has created, in order
    cursor,   \* the persisted PrevInteractionID, 0 when there is no file
    c,        \* the Connect call
    files,    \* the agent's files: their contents by path
    reading,  \* the view_file window the agent is paging through, and what it got so far
    ran,      \* per call: how often it was executed
    spent     \* how much of MaxEvents is used

vars == <<srv, cursor, c, files, reading, ran, spent>>

\* A call is named by its interaction and its id there.
CallId == 1..2
Calls == {<<>>, <<1>>, <<1, 2>>}

\* What the agent says in a turn; the last text goes on with its own beginning.
Says == {<<>>, <<1, 2>>, <<1, 1, 2>>}

NoView == [path |-> {}, window |-> <<{}, {}>>, before |-> 0, got |-> <<>>]

\* The Connect: prev and input of the turn, the turns and attempts so far, the
\* turn's result, the calls still to execute and the results so far; says is the text
\* that the turn being streamed is to have.
Closed == [pc |-> "closed", n |-> 0, prev |-> 0, input |-> <<>>, turn |-> 0, attempt |-> 0,
           post |-> 0, says |-> <<>>, calls |-> <<>>, text |-> <<>>, next |-> <<>>,
           canceled |-> FALSE, capped |-> FALSE, end |-> "none"]

Init ==
    /\ srv = <<>>
    /\ cursor = 0
    /\ c = Closed
    /\ files = InitialFiles
    /\ reading = NoView
    /\ ran = [i \in 1..MaxInteractions |-> [j \in CallId |-> 0]]
    /\ spent = 0

At(label) == c.pc = label
Spend == spent < MaxEvents /\ spent' = spent + 1
tools == <<files, reading, ran>>

\* Connect's tail: the one end frame, by the error of Run and the context's state.
EndWith(err) == IF ~err THEN "COMPLETED" ELSE IF c.canceled THEN "CANCELED" ELSE "FAILED"
Return(err) == c' = [c EXCEPT !.pc = "closed", !.end = EndWith(err)]

-----------------------------------------------------------------------------
(***************************************************************************)
(* Connect and Start.                                                       *)
(***************************************************************************)
\* What Queue was given of the n-th start frame, as drainQueue returns it.
drainQueue(hasInput, n) == IF hasInput THEN <<<<"user", n>>>> ELSE <<>>

\* Run begins, for the execution e: with nothing queued it fails, whether or not
\* there is a chain to resume, and otherwise the initial turn is posted.
Run(e) == IF e.input = <<>> THEN [e EXCEPT !.end = "FAILED"] ELSE [e EXCEPT !.pc = "post"]

\* The start frame, with input or without; Start loads the cursor.
Connect(hasInput) ==
    /\ At("closed") /\ c.n < MaxConnects
    /\ c' = Run([Closed EXCEPT !.n = c.n + 1, !.prev = cursor,
                               !.input = drainQueue(hasInput, c.n + 1)])
    /\ UNCHANGED <<srv, cursor, tools, spent>>

\* The cursor cannot be read, or no token is to be had: nothing was sent.
StartFails ==
    /\ At("closed") /\ c.n < MaxConnects
    /\ Spend
    /\ c' = [Closed EXCEPT !.n = c.n + 1, !.end = "FAILED"]
    /\ UNCHANGED <<srv, cursor, tools>>

\* The cancel frame.
Cancel ==
    /\ ~At("closed") /\ ~c.canceled
    /\ Spend
    /\ c' = [c EXCEPT !.canceled = TRUE]
    /\ UNCHANGED <<srv, cursor, tools>>

\* The process dies, or the client's stream breaks while a frame is sent: no end.
Crash ==
    /\ ~At("closed")
    /\ Spend
    /\ c' = [Closed EXCEPT !.n = c.n, !.end = "broken"]
    /\ UNCHANGED <<srv, cursor, tools>>

-----------------------------------------------------------------------------
(***************************************************************************)
(* postTurn.                                                                *)
(***************************************************************************)
\* The POST reaches the server, which creates an interaction: its calls and what it
\* will say are the agent's choice.
PostTurn(calls, says) ==
    /\ At("post") /\ ~c.canceled
    /\ Len(srv) < MaxInteractions
    /\ srv' = Append(srv, [prev |-> c.prev, input |-> c.input, by |-> c.n, calls |-> calls,
                           heard |-> FALSE])
    /\ c' = [c EXCEPT !.pc = "stream", !.post = Len(srv) + 1, !.says = says]
    /\ UNCHANGED <<cursor, tools, spent>>

\* Mutated form: the number of attempts is not looked at.
MayRetry_Always == TRUE

MayRetry == c.attempt < rateLimitMaxRetries

\* 429: nothing was created.  The backoff ends at once when the context does.
RateLimited ==
    /\ At("post") /\ ~c.canceled
    /\ IF MayRetry THEN c' = [c EXCEPT !.attempt = AtMost(@ + 1, rateLimitMaxRetries)]
       ELSE Return(TRUE)
    /\ UNCHANGED <<srv, cursor, tools, spent>>

\* Mutated form: every failed POST is retried.
PostFailed_Retried == c' = [c EXCEPT !.pc = "post"]

PostFailed == Return(TRUE)

\* The POST fails: before an interaction was created, or after it (a 5xx, a broken
\* stream, the client's own 10-minute timeout).
PostFails ==
    /\ At("post") \/ At("stream")
    /\ ~c.canceled
    /\ Spend
    /\ PostFailed
    /\ UNCHANGED <<srv, cursor, tools>>

\* Canceled: the request, its answer or the backoff is given up.
PostCanceled ==
    /\ At("post") \/ At("stream")
    /\ c.canceled
    /\ Return(TRUE)
    /\ UNCHANGED <<srv, cursor, tools, spent>>

-----------------------------------------------------------------------------
(***************************************************************************)
(* The answer.  The server streams the text in chunks or restates it, emits   *)
(* each call at one or more indices, and leaves some without an id or a name.  *)
(***************************************************************************)
Start(i, id, named, inline) ==
    [type |-> "step.start", index |-> i, id |-> id, named |-> named, inline |-> inline]
Delta(i, args) == [type |-> "arguments_delta", index |-> i, args |-> args]
Text(chunk) == [type |-> "text", text |-> chunk]

\* Two chunks: the second is the rest of the text, or restates all of it.
TextEvents(says) ==
    IF says = <<>> THEN {<<>>}
    ELSE UNION {{<<Text(SubSeq(says, 1, n)), Text(SubSeq(says, m, Len(says)))>> :
                    m \in {1, n + 1}} : n \in 1..(Len(says) - 1)}

\* The arguments that the agent has for a call: those of call 2 are never JSON.
Arguments(id) == IF id = 1 THEN <<1>> ELSE NotJSON

\* The ways to emit call id at index i: snapshots, of which only the last is whole;
\* inline arguments that the snapshot does not repeat; an id that comes late.
WholeEvents(i, id) ==
    {<<Start(i, id, TRUE, <<>>), Delta(i, NotJSON), Delta(i, Arguments(id))>>,
     <<Start(i, 0, TRUE, <<>>), Start(i, id, FALSE, <<>>), Delta(i, Arguments(id))>>}
    \cup (IF Arguments(id) = NotJSON THEN {}
          ELSE {<<Start(i, id, TRUE, Arguments(id)), Delta(i, NotJSON)>>})

\* A call that never gets an id, or never a name.
PartEvents(i) ==
    {<<Start(i, 0, TRUE, <<>>), Delta(i, <<1>>)>>, <<Start(i, 1, FALSE, <<>>), Delta(i, <<2>>)>>}

\* The ids by step index, 0 where none is whole.
Emissions(calls) ==
    {e \in UNION {[1..n -> {0} \cup CallId] : n \in Len(calls)..3} :
        LET ids == Range(e) \ {0} IN
        /\ ids = Range(calls)
        /\ \A a, b \in ids : a < b => Min({i \in DOMAIN e : e[i] = a})
                                      < Min({i \in DOMAIN e : e[i] = b})}

CallEvents(e) ==
    {FlattenSeq(evs) : evs \in
        {f \in [DOMAIN e -> UNION {PartEvents(i) \cup UNION {WholeEvents(i, id) : id \in CallId} :
                                      i \in DOMAIN e}] :
            \A i \in DOMAIN e : f[i] \in IF e[i] = 0 THEN PartEvents(i) ELSE WholeEvents(i, e[i])}}

\* What the parser makes of each way to stream a turn.
Streamed ==
    [calls \in Calls |-> [says \in Says |->
        {parseStreamedTurn(t \o e) :
            t \in TextEvents(says), e \in UNION {CallEvents(e) : e \in Emissions(calls)}}]]

\* setPrevID: only after a turn without error.
Remember(ok) == cursor' = IF ok THEN c.post ELSE cursor

\* parseStreamedTurn has seen the whole turn, and setPrevID saves the cursor.
StreamEnds ==
    /\ At("stream") /\ ~c.canceled
    /\ \E res \in Streamed[srv[c.post].calls][c.says] :
         c' = [c EXCEPT !.pc = "turn", !.prev = c.post, !.calls = res.toolCalls,
                        !.text = res.modelText, !.next = <<>>, !.attempt = 0]
    /\ srv' = [srv EXCEPT ![c.post].heard = TRUE]
    /\ Remember(TRUE)
    /\ UNCHANGED <<tools, spent>>

\* An error event ends the turn.
StreamError ==
    /\ At("stream") /\ ~c.canceled
    /\ Spend
    /\ Remember(FALSE)
    /\ Return(TRUE)
    /\ UNCHANGED <<srv, tools>>

\* The turn is complete, but its cursor cannot be saved.
SaveFails ==
    /\ At("stream") /\ ~c.canceled
    /\ Spend
    /\ srv' = [srv EXCEPT ![c.post].heard = TRUE]
    /\ Return(TRUE)
    /\ UNCHANGED <<cursor, tools>>

-----------------------------------------------------------------------------
(***************************************************************************)
(* The loop of Run.  The tools do not look at the context.                   *)
(***************************************************************************)
\* Mutated form: one turn too many.
MoreTurns_OffByOne == c.turn <= MaxTurns

MoreTurns == c.turn < MaxTurns

\* The head of the loop: the cap, or the turn's text and then its calls.
TurnBegins ==
    /\ At("turn")
    /\ IF MoreTurns THEN c' = [c EXCEPT !.pc = "tools", !.says = <<>>, !.text = <<>>]
       ELSE c' = [c EXCEPT !.pc = "closed", !.end = EndWith(FALSE), !.capped = TRUE]
    /\ UNCHANGED <<srv, cursor, tools, spent>>

\* The first page of a window, or the next one by ContentOffset.  A file that does
\* not exist is an error.
view_file ==
    /\ Spend
    /\ \E path \in DOMAIN files, w \in Windows, resume \in BOOLEAN :
           LET window == IF resume THEN reading.window ELSE w
               got == IF resume THEN reading.got ELSE <<>>
               windowed == Windowed(files[path],
                                    resolveLineWindow(files[path], window[1], window[2]))
           IN  /\ resume => reading.path = {path}
               /\ reading' = [path |-> {path}, window |-> window, before |-> Len(got),
                              got |-> got \o applyByteWindow(windowed, Len(got))]
    /\ UNCHANGED files

\* os.WriteFile, by which a file gets new content.  It truncates first: one that
\* fails on the way leaves a part of the content behind, and the tool an error.
WriteFile(path, content) ==
    \/ /\ Spend
       /\ files' = Put(files, path, content)
    \/ /\ spent + 2 <= MaxEvents /\ spent' = spent + 2
       /\ \E n \in 0..(Len(content) - 1) : files' = Put(files, path, SubSeq(content, 1, n))

create_file ==
    /\ \E path \in Paths, content \in Contents, overwrite \in BOOLEAN :
           /\ ~overwrite => path \notin DOMAIN files
           /\ WriteFile(path, content)
    /\ reading' = NoView

\* edit_file and multi_edit_file, which write nothing when a target is not found.
edit_file ==
    /\ \E path \in DOMAIN files, reps \in Edits :
           LET done == applyReplacements(files[path], reps)
           IN  IF done.ok THEN WriteFile(path, done.content) ELSE Spend /\ UNCHANGED files
    /\ reading' = NoView

\* move, delete_file, and delete_dir: that removes all, or with no Force nothing.
rearrange ==
    /\ Spend
    /\ \/ \E src \in DOMAIN files, dst \in Paths : files' = Renamed(files, src, dst)
       \/ \E path \in DOMAIN files : files' = Without(files, {path})
       \/ files' = Without(files, Paths)
    /\ reading' = NoView

\* run_command, list_dir and the tools of others, and every tool that fails.
otherTool == UNCHANGED <<files, reading, spent>>

\* The result of the next call goes into the next turn's input.
ToolAnswers ==
    /\ At("tools") /\ c.calls # <<>>
    /\ ran' = [ran EXCEPT ![c.post][Head(c.calls).id] = @ + 1]
    /\ c' = [c EXCEPT !.calls = Tail(@),
                      !.next = Append(@, <<"result", c.post, Head(c.calls).id>>)]
    /\ UNCHANGED <<srv, cursor>>

executeTool ==
    ToolAnswers /\ (view_file \/ create_file \/ edit_file \/ rearrange \/ otherTool)

\* All calls are done: the results are posted, or there were none and Run is done.
TurnEnds ==
    /\ At("tools") /\ c.calls = <<>>
    /\ IF c.next = <<>> THEN Return(FALSE)
       ELSE c' = [c EXCEPT !.pc = "post", !.input = c.next, !.turn = @ + 1]
    /\ UNCHANGED <<srv, cursor, tools, spent>>

Next ==
    \/ \E hasInput \in BOOLEAN : Connect(hasInput)
    \/ StartFails \/ Cancel \/ Crash
    \/ \E calls \in Calls, says \in Says : PostTurn(calls, says)
    \/ RateLimited \/ PostFails \/ PostCanceled
    \/ StreamEnds \/ StreamError \/ SaveFails
    \/ TurnBegins \/ executeTool \/ TurnEnds

Spec == Init /\ [][Next]_vars

\* The steps of the harness itself: every one of them ends by a timeout at the
\* latest, whatever the server does, and a tool by assumption.  Clients, crashes and failures owe nothing.
Harness ==
    \/ \E calls \in Calls, says \in Says : PostTurn(calls, says)
    \/ RateLimited \/ PostCanceled \/ StreamEnds \/ TurnBegins \/ ToolAnswers \/ TurnEnds

FairSpec == Spec /\ WF_c(Harness)

-----------------------------------------------------------------------------
Item == ({"user"} \X Nat) \cup ({"result"} \X Nat \X CallId)

(***************************************************************************)
(* Ids name interactions that were created, the loop never exceeds its turns  *)
(* and attempts, and a closed Connect has sent one end or lost its stream.    *)
(***************************************************************************)
TypeOK ==
    /\ \A i \in DOMAIN srv : /\ srv[i].prev \in 0..(i - 1)
                             /\ srv[i].input \in Seq(Item) /\ srv[i].input # <<>>
                             /\ srv[i].calls \in Seq(CallId)
                             /\ srv[i].by \in 1..c.n
                             /\ srv[i].heard \in BOOLEAN
    /\ cursor \in 0..Len(srv)
    /\ c.pc \in {"closed", "post", "stream", "turn", "tools"} /\ c.n \in 0..MaxConnects
    /\ c.prev \in 0..Len(srv) /\ c.post \in 0..Len(srv)
    /\ c.turn \in 0..MaxTurns /\ c.attempt \in 0..rateLimitMaxRetries
    /\ {c.canceled, c.capped} \subseteq BOOLEAN /\ c.says \in Says
    /\ c.end \in {"none", "COMPLETED", "FAILED", "CANCELED", "broken"}
    /\ (At("closed") /\ c.n > 0) <=> c.end # "none"
    /\ DOMAIN files \subseteq Paths /\ Range(files) \subseteq Seq(Byte)
    /\ reading.path \subseteq DOMAIN files /\ reading.got \in Seq(Byte)
    /\ spent \in 0..MaxEvents

(***************************************************************************)
(* The conversation on the server is what the client was told.  The cursor,   *)
(* and what any interaction continues, is a turn that was heard to its end:    *)
(* a turn that failed never becomes a resume point.  And within a Connect no   *)
(* input is given to two interactions, each of which continues the one before: *)
(* creating one is not idempotent.                                           *)
(***************************************************************************)
ChainIsClean ==
    /\ cursor # 0 => srv[cursor].heard
    /\ \A i \in DOMAIN srv : srv[i].prev # 0 => srv[srv[i].prev].heard
    /\ \A i, j \in DOMAIN srv : i < j /\ srv[i].by = srv[j].by =>
         /\ srv[i].input # srv[j].input
         /\ j = i + 1 => srv[j].prev = i

MeantCalls(calls) ==
    [k \in DOMAIN calls |->
        [id |-> calls[k],
         args |-> IF Arguments(calls[k]) = NotJSON THEN <<>> ELSE Arguments(calls[k])]]

\* The text, or the text without one of two copies of its beginning that follow each
\* other: a chunk that begins with all the text so far passes for a restatement of it.
MeantText(text, says) ==
    \/ text = says
    \/ \E n \in 1..Len(says) : /\ 2 * n <= Len(says)
                               /\ SubSeq(says, 1, n) = SubSeq(says, n + 1, 2 * n)
                               /\ text = SubSeq(says, n + 1, Len(says))

(***************************************************************************)
(* What the harness takes from a stream is what the agent meant, though the   *)
(* server emits a call at several indices, with snapshots that are not JSON     *)
(* yet, leaves calls without an id or a name and restates the text.  Arguments  *)
(* that never are JSON are read as none, and a text that goes on with its own    *)
(* beginning may lose that: no reader of the stream could tell the two.          *)
(***************************************************************************)
ParsedAsMeant ==
    At("turn") =>
        /\ c.calls = MeantCalls(srv[c.post].calls)
        /\ MeantText(c.text, c.says)

Results(i) == [k \in DOMAIN srv[i].calls |-> <<"result", i, srv[i].calls[k]>>]

(***************************************************************************)
(* A tool call is executed at most once, across crashes, retries and later    *)
(* Connects.  Tool results are always the complete answer to the interaction   *)
(* that they continue.  And a Connect that reports COMPLETED has answered every *)
(* call, unless it reached the turn cap: then it drops the last turn's.        *)
(***************************************************************************)
AnsweredInFull ==
    /\ \A i \in 1..MaxInteractions, j \in CallId : ran[i][j] <= 1
    /\ \A i \in DOMAIN srv : srv[i].input[1][1] = "result" =>
         srv[i].prev # 0 /\ srv[i].input = Results(srv[i].prev)
    /\ c.end = "COMPLETED" =>
         \A i \in DOMAIN srv : srv[i].by = c.n /\ srv[i].calls # <<>> =>
            \/ c.capped /\ i = c.post
            \/ \E k \in DOMAIN srv : srv[k].prev = i /\ srv[k].input = Results(i)

\* The lines that view_file's documentation promises for a window.
LinesAsked(content, start, end) ==
    {l \in 1..TotalLines(content) :
        /\ start # {} => Value(start) <= l
        /\ end # {} => l <= Value(end)
        /\ CASE start # {} -> l < Value(start) + viewFileMaxLines
             [] start = {} /\ end # {} -> l > Value(end) - viewFileMaxLines
             [] OTHER -> l <= viewFileMaxLines}

(***************************************************************************)
(* An agent that pages through a file by ContentOffset gets the lines it asked *)
(* for, whole and once: each page is within the cap, ends between characters    *)
(* and is empty only at the end.                                             *)
(***************************************************************************)
ViewIsFaithful ==
    reading # NoView =>
        LET content == files[Value(reading.path)]
            window == resolveLineWindow(content, reading.window[1], reading.window[2])
            text == Windowed(content, window)
            got == Len(reading.got)
        IN  /\ window.lo..window.hi = LinesAsked(content, reading.window[1], reading.window[2])
            /\ reading.got = SubSeq(text, 1, got)
            /\ got - reading.before <= viewFileMaxBytes
            /\ got = reading.before => got = Len(text)
            /\ got < Len(text) => RuneStart(text[got + 1])

Splices(contents, rep) ==
    UNION {{SubSeq(h, 1, p - 1) \o rep.repl \o SubSeq(h, p + Len(rep.target), Len(h)) :
              p \in IndexOf(h, rep.target)} : h \in contents}

(***************************************************************************)
(* An edit is all or nothing.  A file that is there before and after a step is  *)
(* changed only by putting a whole content in its place (create_file with       *)
(* Overwrite, move), or into one in which every chunk of an edit has been         *)
(* replaced: a target that is missing, or that only the chunk before brings in    *)
(* or takes away, leaves no half-edited file.  What does is a WriteFile that fails. *)
(***************************************************************************)
WriteFailed == spent' = spent + 2
EditIsWhole ==
    [][\A p \in DOMAIN files \cap DOMAIN files' :
          \/ files'[p] \in {files[p]} \cup Range(files) \cup Contents
          \/ WriteFailed
          \/ \E reps \in Edits : files'[p] \in FoldLeft(Splices, {files[p]}, reps)]_vars

(***************************************************************************)
(* Every Connect comes to its end: a server that rate-limits for ever, an      *)
(* agent that never stops asking for tools, and a cancel at any moment.        *)
(***************************************************************************)
ConnectEnds == ~At("closed") ~> At("closed")
=============================================================================
