------------------------------- MODULE Tools -------------------------------
(***************************************************************************)
(* The built-in tools of the Antigravity Interactions harness, as functions   *)
(* on the files of the directory that the agent works in, and the parser of    *)
(* the event stream by which the agent asks for them.                         *)
(***************************************************************************)
EXTENDS Integers, Sequences, FiniteSets, FiniteSetsExt, SequencesExt

CONSTANTS
    viewFileMaxLines,   \* the caps of view_file
    viewFileMaxBytes

ASSUME ViewCaps == {viewFileMaxLines, viewFileMaxBytes} \subseteq Nat \ {0}

\* A file is a sequence of bytes: "n" is the newline, and "w1" and "w2" are the
\* two bytes of a wide character.
Byte == {"a", "n", "w1", "w2"}
RuneStart(b) == b # "w2"

\* The directory: the contents of the files that exist, by path.
Put(files, path, content) ==
    [p \in DOMAIN files \cup {path} |-> IF p = path THEN content ELSE files[p]]
Without(files, paths) == [p \in DOMAIN files \ paths |-> files[p]]

\* os.Rename replaces a destination that exists.
Renamed(files, src, dst) ==
    IF src = dst THEN files ELSE Without(Put(files, dst, files[src]), {src})

-----------------------------------------------------------------------------
(***************************************************************************)
(* view_file.  An optional argument is the empty set or the set of its value. *)
(***************************************************************************)
Newlines(content) == {p \in DOMAIN content : content[p] = "n"}
LineOf(content, p) == 1 + Cardinality({q \in Newlines(content) : q < p})

\* strings.Split without the empty last element of a trailing newline.
TotalLines(content) ==
    Cardinality(Newlines(content))
    + IF content # <<>> /\ content[Len(content)] # "n" THEN 1 ELSE 0

Value(opt) == CHOOSE n \in opt : TRUE
AtLeast(n, m) == IF n < m THEN m ELSE n
AtMost(n, m) == IF n > m THEN m ELSE n

\* The served lines lo..hi, 1-indexed: none when lo > hi.
resolveLineWindow(content, start, end) ==
    LET total == TotalLines(content)
        lo == IF start # {} THEN Value(start)
              ELSE IF end # {} THEN Value(end) - viewFileMaxLines + 1 ELSE 1
        hi == IF end # {} THEN IF start # {} THEN AtMost(Value(end), lo + viewFileMaxLines - 1)
                               ELSE Value(end)
              ELSE lo + viewFileMaxLines - 1
    IN  [lo |-> AtLeast(lo, 1), hi |-> AtMost(hi, total)]

\* The lines joined: the newline that ends the last one is not part of it.
Windowed(content, window) ==
    LET inside == {p \in DOMAIN content :
                      /\ LineOf(content, p) \in window.lo..window.hi
                      /\ ~(content[p] = "n" /\ LineOf(content, p) = window.hi)}
    IN  IF inside = {} THEN <<>> ELSE SubSeq(content, Min(inside), Max(inside))

\* Mutated form: the cut may fall inside a character.
applyByteWindow_Split(content, offset) ==
    LET remaining == SubSeq(content, AtMost(AtLeast(offset, 0), Len(content)) + 1, Len(content))
    IN  SubSeq(remaining, 1, AtMost(viewFileMaxBytes, Len(remaining)))

\* At most viewFileMaxBytes from offset on, cut before a character begins.
applyByteWindow(content, offset) ==
    LET remaining == SubSeq(content, AtMost(AtLeast(offset, 0), Len(content)) + 1, Len(content))
        cuts == {n \in 1..viewFileMaxBytes : RuneStart(remaining[n + 1])}
        firstRune == {n \in DOMAIN remaining : \A m \in 2..n : ~RuneStart(remaining[m])}
    IN  IF Len(remaining) <= viewFileMaxBytes THEN remaining
        ELSE SubSeq(remaining, 1, IF cuts # {} THEN Max(cuts) ELSE Max(firstRune))

-----------------------------------------------------------------------------
(***************************************************************************)
(* edit_file and multi_edit_file: a sequence of replacements of the first     *)
(* occurrence of a target.                                                   *)
(***************************************************************************)
IndexOf(content, target) ==
    {p \in DOMAIN content : /\ p + Len(target) - 1 <= Len(content)
                            /\ SubSeq(content, p, p + Len(target) - 1) = target}

Replace(acc, rep) ==
    LET at == IndexOf(acc.content, rep.target)
        p == Min(at)
    IN  IF ~acc.ok \/ rep.target = <<>> \/ at = {} THEN [acc EXCEPT !.ok = FALSE]
        ELSE [ok |-> TRUE,
              content |-> SubSeq(acc.content, 1, p - 1) \o rep.repl
                          \o SubSeq(acc.content, p + Len(rep.target), Len(acc.content))]

\* Mutated form: what was replaced before the failing chunk is written.
applyReplacements_Partial(content, reps) ==
    [FoldLeft(Replace, [ok |-> TRUE, content |-> content], reps) EXCEPT !.ok = TRUE]

\* The file is written only when every target was found.
applyReplacements(content, reps) ==
    LET done == FoldLeft(Replace, [ok |-> TRUE, content |-> content], reps)
    IN  IF done.ok THEN done ELSE [ok |-> FALSE, content |-> content]

-----------------------------------------------------------------------------
(***************************************************************************)
(* parseStreamedTurn: a fold over the events of one turn.  A call's id is 0   *)
(* and its arguments are empty while the stream has not said them.            *)
(***************************************************************************)
NothingYet == [order |-> <<>>, calls |-> <<>>, text |-> <<>>]

\* Mutated form: every chunk is appended.
ParseText_Append(turn, chunk) == [turn EXCEPT !.text = @ \o chunk]

\* A chunk that restates the whole text so far replaces it.
ParseText(turn, chunk) ==
    [turn EXCEPT !.text = IF turn.text # <<>> /\ IsPrefix(turn.text, chunk) THEN chunk
                          ELSE turn.text \o chunk]

\* A snapshot of arguments that is not JSON.
NotJSON == <<0>>

NoCall == [id |-> 0, named |-> FALSE, inline |-> <<>>, snapshot |-> <<>>]

\* A step.start says what it knows of the call at its index; an arguments_delta
\* there replaces the snapshot before it.
ParseEvent(turn, ev) ==
    CASE ev.type = "step.start" ->
           LET known == Contains(turn.order, ev.index)
               call == IF known THEN turn.calls[ev.index] ELSE NoCall
           IN  [turn EXCEPT
                  !.order = IF known THEN @ ELSE Append(@, ev.index),
                  !.calls = (ev.index :> [call EXCEPT
                                !.id = IF ev.id = 0 THEN @ ELSE ev.id,
                                !.named = @ \/ ev.named,
                                !.inline = IF ev.inline = <<>> THEN @ ELSE ev.inline]) @@ @]
      [] ev.type = "arguments_delta" ->
           IF ~Contains(turn.order, ev.index) THEN turn
           ELSE [turn EXCEPT !.calls[ev.index].snapshot = ev.args]
      [] ev.type = "text" -> ParseText(turn, ev.text)

\* Mutated form: a snapshot comes before inline arguments.
Taken_SnapshotFirst(call) ==
    [id |-> call.id,
     args |-> IF call.snapshot = <<>> THEN call.inline
              ELSE IF call.snapshot = NotJSON THEN <<>> ELSE call.snapshot]

\* Inline arguments come before any snapshot, and what is not JSON is no arguments.
Taken(call) ==
    [id |-> call.id,
     args |-> IF call.inline # <<>> THEN call.inline
              ELSE IF call.snapshot = NotJSON THEN <<>> ELSE call.snapshot]

\* Mutated form: a call is taken as often as it was emitted.
Collapse_NoDedupe(turn) ==
    LET taken == SelectSeq(turn.order, LAMBDA i : turn.calls[i].id # 0 /\ turn.calls[i].named)
    IN  [i \in DOMAIN taken |-> Taken(turn.calls[taken[i]])]

\* The calls by step index, without those that have no id or no name, each id once.
Collapse(turn) ==
    LET whole == SelectSeq(turn.order, LAMBDA i : turn.calls[i].id # 0 /\ turn.calls[i].named)
        Id(k) == turn.calls[whole[k]].id
        firsts == SelectSeq([k \in DOMAIN whole |-> k],
                            LAMBDA k : \A j \in 1..(k - 1) : Id(j) # Id(k))
    IN  [i \in DOMAIN firsts |-> Taken(turn.calls[whole[firsts[i]]])]

parseStreamedTurn(events) ==
    LET turn == FoldLeft(ParseEvent, NothingYet, events)
    IN  [toolCalls |-> Collapse(turn), modelText |-> turn.text]
=============================================================================
