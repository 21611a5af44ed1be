------------------------ MODULE InteractionsProofs ------------------------
(***************************************************************************)
(* What is proved of the conversation that the Interactions harness has with  *)
(* the server, for any number of Connects, turns, retries and interactions.   *)
(*                                                                         *)
(* The parser is a fold over the events of a stream, about which nothing can   *)
(* be proved here.  ParserIsRight says what it makes of the streams of a turn; *)
(* it has no parameter, and the run that checks ParsedAsMeant meets them all.  *)
(***************************************************************************)
EXTENDS Interactions, SequenceTheorems, TLAPS

\* parseStreamedTurn makes of each way to stream a turn what the agent meant.
ParserIsRight ==
    \A calls \in Calls, says \in Says : \A res \in Streamed[calls][says] :
       res.toolCalls = MeantCalls(calls) /\ MeantText(res.modelText, says)

\* An interaction, as the server has it.
Interaction ==
    [prev : Nat, input : Seq(Item), by : Nat, calls : Calls, heard : BOOLEAN]

\* A call, as the parser has it.
Call == [id : CallId, args : Seq(CallId)]

\* What a Connect holds.
Connects ==
    [pc : {"closed", "post", "stream", "turn", "tools"}, n : Nat, prev : Nat, input : Seq(Item),
     turn : Nat, attempt : Nat, post : Nat, says : Says, calls : Seq(Call),
     text : Seq(Nat), next : Seq(Item), canceled : BOOLEAN, capped : BOOLEAN,
     end : {"none", "COMPLETED", "FAILED", "CANCELED", "broken"}]

\* Every variable that the conversation depends on has its type.
Types ==
    /\ srv \in Seq(Interaction) /\ Len(srv) <= MaxInteractions
    /\ cursor \in Nat
    /\ c \in Connects
    /\ ran \in [1..MaxInteractions -> [CallId -> Nat]]

\* An interaction that may be continued.
Heard(i) == i \in 1..Len(srv) /\ srv[i].heard

\* The i-th interaction begins its Connect with what its client said, or gives the
\* complete results of the one before it.
LinkOK(i) ==
    \/ /\ srv[i].input = <<<<"user", srv[i].by>>>>
       /\ i > 1 => srv[i - 1].by < srv[i].by
    \/ /\ i > 1 /\ srv[i - 1].by = srv[i].by
       /\ srv[i].prev = i - 1 /\ srv[i].input = Results(i - 1) /\ srv[i].input # <<>>

\* The interactions, one Connect's after the other's.
ChainOK ==
    /\ cursor # 0 => Heard(cursor)
    /\ \A i \in 1..Len(srv) :
         /\ srv[i].prev < i /\ (srv[i].prev # 0 => Heard(srv[i].prev))
         /\ srv[i].by \in 1..c.n
         /\ LinkOK(i)
         /\ \A j \in 1..i : srv[j].by <= srv[i].by

\* The last interaction is this Connect's, and its turn is what the Connect is at.
Latest == c.post # 0 /\ c.post = Len(srv) /\ srv[c.post].by = c.n

\* What the Connect holds of its turn.
ConnectOK ==
    /\ c.pc = "post" =>
         /\ c.n > 0 /\ (c.prev # 0 => Heard(c.prev))
         /\ \/ c.post = 0 /\ c.input = <<<<"user", c.n>>>>
               /\ \A i \in 1..Len(srv) : srv[i].by < c.n
            \/ Latest /\ c.prev = c.post /\ c.input = Results(c.post) /\ c.input # <<>>
    /\ c.pc \in {"stream", "turn", "tools"} => Latest
    /\ c.pc \in {"turn", "tools"} => c.prev = c.post /\ Heard(c.post)
    /\ c.pc = "turn" => c.next = <<>> /\ c.calls = MeantCalls(srv[c.post].calls)
    /\ c.pc # "closed" => c.end = "none"
    /\ c.end = "COMPLETED" => Latest /\ (c.capped \/ srv[c.post].calls = <<>>)

\* The calls of the turn that were answered, and those that are still to be.
Answered(k) ==
    LET calls == srv[c.post].calls IN
    /\ Len(c.next) = k /\ Len(c.calls) = Len(calls) - k
    /\ \A i \in 1..k : c.next[i] = <<"result", c.post, calls[i]>>
    /\ \A i \in 1..(Len(calls) - k) : c.calls[i].id = calls[k + i]
    /\ \A j \in CallId : ran[c.post][j] = IF j \in 1..k THEN 1 ELSE 0

AnswersOK == c.pc = "tools" => \E k \in 0..Len(srv[c.post].calls) : Answered(k)

\* No call runs before its turn, and none twice.
RanOK ==
    /\ \A i \in 1..MaxInteractions, j \in CallId : ran[i][j] <= 1
    /\ \A i \in 1..MaxInteractions, j \in CallId : i > Len(srv) => ran[i][j] = 0
    /\ c.pc \in {"stream", "turn"} => \A j \in CallId : ran[c.post][j] = 0

\* The inductive invariant.
IInv == Types /\ ChainOK /\ ConnectOK /\ AnswersOK /\ RanOK

----------------------------------------------------------------------------
(* The types. *)

\* What the records of a turn consist of.
LEMMA ItemTypes ==
  ASSUME NEW n \in Nat
  PROVE  /\ <<<<"user", n>>>> \in Seq(Item)
         /\ \A id \in CallId : <<"result", n, id>> \in Item
         /\ <<>> \in Seq(Item) /\ <<>> \in Seq(Nat) /\ <<>> \in Seq(Call)
BY EmptySeq DEF Item

\* The calls of a turn are numbered in their order.
LEMMA CallsAre ==
  ASSUME NEW calls \in Calls
  PROVE  /\ Len(calls) \in 0..2 /\ calls \in Seq(CallId)
         /\ \A i \in 1..Len(calls) : i \in CallId /\ calls[i] = i
<1>1. CASE calls = <<>>
  BY <1>1, EmptySeq
<1>2. CASE calls = <<1>>
  BY <1>2 DEF CallId
<1>3. CASE calls = <<1, 2>>
  BY <1>3 DEF CallId
<1> QED  BY <1>1, <1>2, <1>3 DEF Calls

\* What the agent meant is a sequence of calls, and a text of what it says.
LEMMA MeantTypes ==
  ASSUME NEW calls \in Calls
  PROVE  /\ MeantCalls(calls) \in Seq(Call) /\ Len(MeantCalls(calls)) = Len(calls)
         /\ \A i \in 1..Len(calls) : MeantCalls(calls)[i].id = calls[i]
         /\ \A says \in Says : \A text : MeantText(text, says) => text \in Seq(Nat)
<1>1. calls \in Seq(CallId) /\ Len(calls) \in Nat /\ DOMAIN calls = 1..Len(calls)
  BY CallsAre
<1> DEFINE Args(id) == IF Arguments(id) = NotJSON THEN <<>> ELSE Arguments(id)
<1>2. ASSUME NEW i \in 1..Len(calls) PROVE [id |-> calls[i], args |-> Args(calls[i])] \in Call
  <2>1. calls[i] \in CallId
    BY <1>1
  <2>2. <<1>> \in Seq(CallId) /\ <<>> \in Seq(CallId)
    BY EmptySeq DEF CallId
  <2>3. Args(calls[i]) \in Seq(CallId)
    BY <2>2 DEF Arguments
  <2> HIDE DEF Args
  <2> QED  BY <2>1, <2>3 DEF Call
<1>3. MeantCalls(calls) = [k \in 1..Len(calls) |-> [id |-> calls[k], args |-> Args(calls[k])]]
  BY <1>1 DEF MeantCalls
<1> HIDE DEF Args
<1>4. MeantCalls(calls) \in [1..Len(calls) -> Call]
  BY <1>2, <1>3
<1>5. MeantCalls(calls) \in Seq(Call) /\ Len(MeantCalls(calls)) = Len(calls)
  BY <1>1, <1>4
<1>6. \A i \in 1..Len(calls) : MeantCalls(calls)[i].id = calls[i]
  BY <1>3
<1>7. ASSUME NEW says \in Says, NEW text, MeantText(text, says) PROVE text \in Seq(Nat)
  <2>1. says \in Seq(Nat) /\ Len(says) \in Nat
    <3>1. <<>> \in Seq(Nat) /\ <<1, 2>> \in Seq(Nat) /\ <<1, 1, 2>> \in Seq(Nat)
      BY EmptySeq
    <3> QED  BY <3>1 DEF Says
  <2>2. ASSUME NEW n \in 1..Len(says), text = SubSeq(says, n + 1, Len(says))
        PROVE  text \in Seq(Nat)
    <3>1. n + 1 \in 1..Len(says) + 1 /\ Len(says) \in 0..Len(says)
      BY <2>1
    <3> QED  BY <2>1, <2>2, <3>1, SubSeqProperties
  <2> QED  BY <1>7, <2>1, <2>2 DEF MeantText
<1> QED  BY <1>5, <1>6, <1>7

\* The results of an interaction.
LEMMA ResultsAre ==
  ASSUME Types, NEW i \in 1..Len(srv)
  PROVE  /\ Results(i) \in Seq(Item) /\ Len(Results(i)) = Len(srv[i].calls)
         /\ srv[i].calls \in Calls
         /\ \A k \in 1..Len(srv[i].calls) : Results(i)[k] = <<"result", i, srv[i].calls[k]>>
<1>1. PICK calls : calls = srv[i].calls
  OBVIOUS
<1>2. calls \in Calls
  <2>1. srv[i] \in Interaction
    BY DEF Types
  <2> QED  BY <1>1, <2>1 DEF Interaction
<1>3. calls \in Seq(CallId) /\ Len(calls) \in Nat /\ DOMAIN calls = 1..Len(calls)
  BY <1>2, CallsAre
<1>4. Results(i) = [k \in 1..Len(calls) |-> <<"result", i, calls[k]>>]
  BY <1>1, <1>3 DEF Results
<1>5. ASSUME NEW k \in 1..Len(calls) PROVE <<"result", i, calls[k]>> \in Item
  <2>1. calls[k] \in CallId /\ i \in Nat
    BY <1>3
  <2> QED  BY <2>1, ItemTypes
<1>6. Results(i) \in [1..Len(calls) -> Item]
  BY <1>4, <1>5
<1>7. Results(i) \in Seq(Item) /\ Len(Results(i)) = Len(calls)
  BY <1>3, <1>6
<1> QED  BY <1>1, <1>2, <1>4, <1>7

\* The fields of a Connect have their types.
LEMMA ConnectFields ==
  ASSUME Types
  PROVE  /\ c.n \in Nat /\ c.prev \in Nat /\ c.input \in Seq(Item) /\ c.turn \in Nat
         /\ c.attempt \in Nat /\ c.post \in Nat /\ c.says \in Says /\ c.calls \in Seq(Call)
         /\ c.next \in Seq(Item) /\ c.canceled \in BOOLEAN /\ c.capped \in BOOLEAN
         /\ c.end \in {"none", "COMPLETED", "FAILED", "CANCELED", "broken"}
         /\ c.pc \in {"closed", "post", "stream", "turn", "tools"}
         /\ Len(srv) \in Nat
BY DEF Types, Connects

\* A Connect's record, and what a step makes of it.
LEMMA ConnectTypes ==
  ASSUME NEW d \in Connects
  PROVE  /\ \A e \in {"none", "COMPLETED", "FAILED", "CANCELED", "broken"} :
              /\ [d EXCEPT !.pc = "closed", !.end = e] \in Connects
              /\ [d EXCEPT !.pc = "closed", !.end = e, !.capped = TRUE] \in Connects
         /\ [d EXCEPT !.canceled = TRUE] \in Connects
         /\ \A k \in Nat : [d EXCEPT !.attempt = k] \in Connects
         /\ \A k \in Nat, b \in Says :
              [d EXCEPT !.pc = "stream", !.post = k, !.says = b] \in Connects
         /\ \A x \in Seq(Nat) : [d EXCEPT !.pc = "tools", !.says = <<>>, !.text = x] \in Connects
         /\ \A x \in Seq(Item), k \in Nat :
              [d EXCEPT !.pc = "post", !.input = x, !.turn = k] \in Connects
         /\ \A x \in Seq(Call), y \in Seq(Item) :
              [d EXCEPT !.calls = x, !.next = y] \in Connects
<1>1. \A e \in {"none", "COMPLETED", "FAILED", "CANCELED", "broken"} :
        [d EXCEPT !.pc = "closed", !.end = e] \in Connects
  BY DEF Connects
<1>2. \A e \in {"none", "COMPLETED", "FAILED", "CANCELED", "broken"} :
        [d EXCEPT !.pc = "closed", !.end = e, !.capped = TRUE] \in Connects
  BY DEF Connects
<1>3. [d EXCEPT !.canceled = TRUE] \in Connects
  BY DEF Connects
<1>4. \A k \in Nat : [d EXCEPT !.attempt = k] \in Connects
  BY DEF Connects
<1>5. \A k \in Nat, b \in Says :
        [d EXCEPT !.pc = "stream", !.post = k, !.says = b] \in Connects
  BY DEF Connects
<1>6. \A x \in Seq(Nat) : [d EXCEPT !.pc = "tools", !.says = <<>>, !.text = x] \in Connects
  <2>1. PICK b \in Says : b = <<>>
    BY DEF Says
  <2>2. \A x \in Seq(Nat) : [d EXCEPT !.pc = "tools", !.says = b, !.text = x] \in Connects
    BY DEF Connects
  <2> QED  BY <2>1, <2>2
<1>7. \A x \in Seq(Item), k \in Nat :
        [d EXCEPT !.pc = "post", !.input = x, !.turn = k] \in Connects
  BY DEF Connects
<1>8. \A x \in Seq(Call), y \in Seq(Item) : [d EXCEPT !.calls = x, !.next = y] \in Connects
  BY DEF Connects
<1> QED  BY <1>1, <1>2, <1>3, <1>4, <1>5, <1>6, <1>7, <1>8

----------------------------------------------------------------------------
(* Steps that leave the server's interactions alone. *)

\* The chain does not depend on what the Connect holds.
LEMMA ChainKept ==
  ASSUME Types, ChainOK, srv' = srv, cursor' = cursor, c'.n \in Nat, c'.n >= c.n
  PROVE  ChainOK'
<1>1. c.n \in Nat /\ c.n <= c'.n
  BY ConnectFields
<1>2. \A i \in 1..Len(srv) : srv[i].by \in 1..c.n => srv[i].by \in 1..c'.n
  BY <1>1
<1>3. \A i : Heard(i)' = Heard(i) /\ LinkOK(i)' = LinkOK(i)
  BY DEF Heard, LinkOK, Results
<1> QED  BY <1>2, <1>3 DEF ChainOK

\* Only the Connect changes.
LEMMA OnlyConnect ==
  ASSUME IInv, srv' = srv, cursor' = cursor, ran' = ran, c' \in Connects, c'.n >= c.n,
         ConnectOK', AnswersOK',
         c'.pc \in {"stream", "turn"} => c.pc \in {"stream", "turn"} /\ c'.post = c.post
  PROVE  IInv'
<1>1. Types'
  BY DEF IInv, Types
<1>2. c'.n \in Nat
  BY DEF Connects
<1>3. ChainOK'
  BY <1>2, ChainKept DEF IInv
<1>4. RanOK'
  BY DEF IInv, RanOK
<1> QED  BY <1>1, <1>3, <1>4 DEF IInv

\* The Connect ends without success.
LEMMA GivesUp ==
  ASSUME IInv, srv' = srv, cursor' = cursor, ran' = ran, c' \in Connects, c'.n >= c.n,
         c'.pc = "closed", c'.end # "COMPLETED"
  PROVE  IInv'
<1>1. ConnectOK' /\ AnswersOK'
  BY DEF ConnectOK, AnswersOK
<1> QED  BY <1>1, OnlyConnect

\* Run returns.
LEMMA Returned ==
  ASSUME Types, NEW err \in BOOLEAN, Return(err)
  PROVE  /\ c' \in Connects /\ c'.n = c.n /\ c'.pc = "closed" /\ c'.end = EndWith(err)
         /\ c'.post = c.post /\ c'.capped = c.capped
<1>1. c \in Connects
  BY DEF Types
<1>2. PICK e \in {"none", "COMPLETED", "FAILED", "CANCELED", "broken"} : e = EndWith(err)
  BY DEF EndWith
<1>3. c' = [c EXCEPT !.pc = "closed", !.end = e]
  BY <1>2 DEF Return
<1>4. c' \in Connects
  BY <1>1, <1>3, ConnectTypes, Zenon
<1> QED  BY <1>1, <1>2, <1>3, <1>4 DEF Connects

\* A turn that fails.
LEMMA Fails ==
  ASSUME IInv, Return(TRUE), srv' = srv, cursor' = cursor, ran' = ran
  PROVE  IInv'
<1>1. Types
  BY DEF IInv
<1>2. c' \in Connects /\ c'.n = c.n /\ c'.pc = "closed" /\ c'.end = EndWith(TRUE)
  BY <1>1, Returned
<1>3. c'.end # "COMPLETED"
  BY <1>2 DEF EndWith
<1>4. c'.n >= c.n
  BY <1>1, <1>2, ConnectFields
<1> QED  BY <1>2, <1>3, <1>4, GivesUp

\* An execution that is fresh.
LEMMA FreshTypes ==
  ASSUME NEW n \in Nat, NEW prev \in Nat, NEW input \in Seq(Item),
         NEW e \in {"none", "FAILED", "broken"}, NEW pc \in {"closed", "post"}
  PROVE  [pc |-> pc, n |-> n, prev |-> prev, input |-> input, turn |-> 0, attempt |-> 0,
          post |-> 0, says |-> <<>>, calls |-> <<>>, text |-> <<>>, next |-> <<>>,
          canceled |-> FALSE, capped |-> FALSE, end |-> e] \in Connects
<1>1. PICK x : x = <<>> /\ x \in Seq(Call) /\ x \in Seq(Nat) /\ x \in Seq(Item) /\ x \in Says
  BY EmptySeq DEF Says
<1>2. [pc |-> pc, n |-> n, prev |-> prev, input |-> input, turn |-> 0, attempt |-> 0,
       post |-> 0, says |-> x, calls |-> x, text |-> x, next |-> x,
       canceled |-> FALSE, capped |-> FALSE, end |-> e] \in Connects
  BY <1>1 DEF Connects
<1> QED  BY <1>1, <1>2

\* Connect and Start.
LEMMA ConnectStep ==
  ASSUME IInv, NEW hasInput \in BOOLEAN, Connect(hasInput)
  PROVE  IInv'
<1>0. Types /\ ChainOK
  BY DEF IInv
<1>1. PICK n \in Nat, prev \in Nat : n = c.n + 1 /\ prev = cursor
  BY <1>0, ConnectFields DEF Types
<1>2. srv' = srv /\ cursor' = cursor /\ ran' = ran
  BY DEF Connect, tools
<1>3. n >= c.n /\ n > 0 /\ c.n < n
  BY <1>0, <1>1, ConnectFields
<1>4. CASE hasInput
  <2>1. PICK input \in Seq(Item) : input = <<<<"user", n>>>>
    BY ItemTypes
  <2>2. input # <<>>
    BY <2>1
  <2>3. c' = [pc |-> "post", n |-> n, prev |-> prev, input |-> input, turn |-> 0, attempt |-> 0,
              post |-> 0, says |-> <<>>, calls |-> <<>>, text |-> <<>>, next |-> <<>>,
              canceled |-> FALSE, capped |-> FALSE, end |-> "none"]
    BY <1>1, <1>4, <2>1, <2>2 DEF Connect, Run, drainQueue, Closed
  <2>4. c' \in Connects
    BY <2>3, FreshTypes
  <2>5. /\ c'.pc = "post" /\ c'.n = n /\ c'.prev = prev /\ c'.input = input /\ c'.post = 0
        /\ c'.end = "none"
    BY <2>3
  <2>6. \A i \in 1..Len(srv) : srv[i].by < n
    BY <1>0, <1>1, <1>3, ConnectFields DEF ChainOK
  <2>7. prev # 0 => Heard(prev)'
    BY <1>0, <1>1, <1>2 DEF ChainOK, Heard
  <2>8. ConnectOK'
    BY <1>2, <1>3, <2>1, <2>5, <2>6, <2>7 DEF ConnectOK
  <2>9. AnswersOK'
    BY <2>5 DEF AnswersOK
  <2> QED  BY <1>2, <1>3, <2>4, <2>5, <2>8, <2>9, OnlyConnect
<1>5. CASE ~hasInput
  <2>1. PICK input \in Seq(Item) : input = <<>>
    BY EmptySeq
  <2>2. c' = [pc |-> "closed", n |-> n, prev |-> prev, input |-> input, turn |-> 0, attempt |-> 0,
              post |-> 0, says |-> <<>>, calls |-> <<>>, text |-> <<>>, next |-> <<>>,
              canceled |-> FALSE, capped |-> FALSE, end |-> "FAILED"]
    BY <1>1, <1>5, <2>1 DEF Connect, Run, drainQueue, Closed
  <2>3. c' \in Connects
    BY <2>2, FreshTypes
  <2>4. c'.pc = "closed" /\ c'.n = n /\ c'.end = "FAILED"
    BY <2>2
  <2> QED  BY <1>2, <1>3, <2>3, <2>4, GivesUp
<1> QED  BY <1>4, <1>5

\* An execution that never ran or is lost.
LEMMA NoRunStep ==
  ASSUME IInv, StartFails \/ Crash
  PROVE  IInv'
<1>0. Types
  BY DEF IInv
<1>1. srv' = srv /\ cursor' = cursor /\ ran' = ran
  BY DEF StartFails, Crash, tools
<1>2. PICK n \in Nat, e \in {"FAILED", "broken"} :
        n >= c.n /\ c' = [Closed EXCEPT !.n = n, !.end = e]
  <2>1. c.n \in Nat /\ c.n + 1 \in Nat /\ c.n + 1 >= c.n /\ c.n >= c.n
    BY <1>0, ConnectFields
  <2> QED  BY <2>1 DEF StartFails, Crash
<1>3. PICK input \in Seq(Item) : input = <<>>
  BY EmptySeq
<1>4. c' = [pc |-> "closed", n |-> n, prev |-> 0, input |-> input, turn |-> 0, attempt |-> 0,
            post |-> 0, says |-> <<>>, calls |-> <<>>, text |-> <<>>, next |-> <<>>,
            canceled |-> FALSE, capped |-> FALSE, end |-> e]
  BY <1>2, <1>3 DEF Closed
<1>5. c' \in Connects
  BY <1>4, FreshTypes
<1>6. c'.pc = "closed" /\ c'.n = n /\ c'.end # "COMPLETED"
  BY <1>4
<1> QED  BY <1>1, <1>2, <1>5, <1>6, GivesUp

\* What the Connect holds is the same, but for its attempts and its context.
LEMMA SameConnect ==
  ASSUME IInv, srv' = srv, cursor' = cursor, ran' = ran, c' \in Connects,
         c'.pc = c.pc, c'.n = c.n, c'.prev = c.prev, c'.input = c.input, c'.post = c.post,
         c'.calls = c.calls, c'.next = c.next, c'.end = c.end, c'.capped = c.capped
  PROVE  IInv'
<1>0. Types
  BY DEF IInv
<1>1. \A i : Heard(i)' = Heard(i) /\ Results(i)' = Results(i)
  BY DEF Heard, Results
<1>2. ConnectOK'
  BY <1>1 DEF IInv, ConnectOK, Latest
<1>3. AnswersOK'
  <2>1. \A k : Answered(k)' = Answered(k)
    BY DEF Answered
  <2> QED  BY <2>1 DEF IInv, AnswersOK
<1>4. c'.n >= c.n
  BY <1>0, ConnectFields
<1> QED  BY <1>2, <1>3, <1>4, OnlyConnect

\* The cancel frame.
LEMMA CancelStep ==
  ASSUME IInv, Cancel
  PROVE  IInv'
<1>1. c \in Connects
  BY DEF IInv, Types
<1>2. c' = [c EXCEPT !.canceled = TRUE] /\ srv' = srv /\ cursor' = cursor /\ ran' = ran
  BY DEF Cancel, tools
<1>3. c' \in Connects
  BY <1>1, <1>2, ConnectTypes, Zenon
<1>4. /\ c'.pc = c.pc /\ c'.n = c.n /\ c'.prev = c.prev /\ c'.input = c.input /\ c'.post = c.post
      /\ c'.calls = c.calls /\ c'.next = c.next /\ c'.end = c.end /\ c'.capped = c.capped
  BY <1>1, <1>2 DEF Connects
<1> QED  BY <1>2, <1>3, <1>4, SameConnect

\* A 429 is waited for or given up.
LEMMA RateLimitedStep ==
  ASSUME IInv, RateLimited
  PROVE  IInv'
<1>0. Types /\ c \in Connects
  BY DEF IInv, Types
<1>1. srv' = srv /\ cursor' = cursor /\ ran' = ran
  BY DEF RateLimited, tools
<1>2. CASE MayRetry
  <2>1. PICK k \in Nat : k = AtMost(c.attempt + 1, rateLimitMaxRetries)
    BY <1>0, ConnectFields, InteractionBounds DEF AtMost
  <2>2. c' = [c EXCEPT !.attempt = k]
    BY <1>0, <1>2, <2>1 DEF RateLimited, Connects
  <2>3. c' \in Connects
    BY <1>0, <2>2, ConnectTypes, Zenon
  <2>4. /\ c'.pc = c.pc /\ c'.n = c.n /\ c'.prev = c.prev /\ c'.input = c.input
        /\ c'.post = c.post /\ c'.calls = c.calls /\ c'.next = c.next /\ c'.end = c.end
        /\ c'.capped = c.capped
    BY <1>0, <2>2 DEF Connects
  <2> QED  BY <1>1, <2>3, <2>4, SameConnect
<1>3. CASE ~MayRetry
  BY <1>1, <1>3, Fails DEF RateLimited
<1> QED  BY <1>2, <1>3

\* The POST or its answer fails, is given up, or is an error.
LEMMA PostFailsStep ==
  ASSUME IInv, PostFails \/ PostCanceled \/ StreamError
  PROVE  IInv'
<1>1. srv' = srv /\ cursor' = cursor /\ ran' = ran /\ Return(TRUE)
  BY DEF PostFails, PostFailed, PostCanceled, StreamError, Remember, tools
<1> QED  BY <1>1, Fails

\* The head of the loop.
LEMMA TurnBeginsStep ==
  ASSUME IInv, TurnBegins
  PROVE  IInv'
<1>0. Types /\ c \in Connects /\ ConnectOK /\ RanOK /\ c.pc = "turn"
  BY DEF IInv, Types, TurnBegins, At
<1>1. srv' = srv /\ cursor' = cursor /\ ran' = ran
  BY DEF TurnBegins, tools
<1>2. \A i : Heard(i)' = Heard(i)
  BY <1>1 DEF Heard
<1>3. c.n \in Nat /\ c.n >= c.n
  BY <1>0, ConnectFields
<1>4. Latest /\ c.prev = c.post /\ Heard(c.post) /\ c.next = <<>>
        /\ c.calls = MeantCalls(srv[c.post].calls) /\ c.end = "none"
  BY <1>0 DEF ConnectOK
<1>5. CASE MoreTurns
  <2>1. PICK x \in Seq(Nat) : x = <<>>
    BY EmptySeq, Zenon
  <2>2. c' = [c EXCEPT !.pc = "tools", !.says = <<>>, !.text = x]
    BY <1>5, <2>1 DEF TurnBegins
  <2>3. c' \in Connects
    BY <1>0, <2>2, ConnectTypes, Zenon
  <2>4. /\ c'.pc = "tools" /\ c'.n = c.n /\ c'.prev = c.prev /\ c'.post = c.post
        /\ c'.calls = c.calls /\ c'.next = c.next /\ c'.end = c.end
    BY <1>0, <2>2 DEF Connects
  <2>5. ConnectOK'
    BY <1>1, <1>2, <1>4, <2>4 DEF ConnectOK, Latest
  <2>6. PICK calls \in Calls : calls = srv[c.post].calls
    BY <1>0, <1>4, ResultsAre DEF Heard
  <2>7. Len(calls) \in Nat /\ 0 \in 0..Len(calls)
    BY CallsAre
  <2>8. Len(c.next) = 0 /\ Len(c.calls) = Len(calls)
        /\ \A i \in 1..Len(calls) : c.calls[i].id = calls[i]
    BY <1>4, <2>6, MeantTypes, EmptySeq
  <2>9. \A j \in CallId : ran[c.post][j] = 0
    BY <1>0 DEF RanOK
  <2>10. Answered(0)'
    <3>1. Len(calls) - 0 = Len(calls) /\ \A i \in 1..Len(calls) : 0 + i = i
      BY <2>7
    <3>2. \A j \in CallId : j \notin 1..0
      OBVIOUS
    <3> QED  BY <1>1, <2>4, <2>6, <2>8, <2>9, <3>1, <3>2 DEF Answered
  <2>11. AnswersOK'
    BY <1>1, <2>4, <2>6, <2>7, <2>10 DEF AnswersOK
  <2> QED  BY <1>1, <1>3, <2>3, <2>4, <2>5, <2>11, OnlyConnect
<1>6. CASE ~MoreTurns
  <2>1. c' = [c EXCEPT !.pc = "closed", !.end = "COMPLETED", !.capped = TRUE]
    BY <1>6 DEF TurnBegins, EndWith
  <2>2. c' \in Connects
    BY <1>0, <2>1, ConnectTypes, Zenon
  <2>3. c'.pc = "closed" /\ c'.n = c.n /\ c'.post = c.post /\ c'.capped /\ c'.end = "COMPLETED"
    BY <1>0, <2>1 DEF Connects
  <2>4. ConnectOK' /\ AnswersOK'
    BY <1>1, <1>4, <2>3 DEF ConnectOK, AnswersOK, Latest
  <2> QED  BY <1>1, <1>3, <2>2, <2>3, <2>4, OnlyConnect
<1> QED  BY <1>5, <1>6

\* All calls of the turn are done: the results are complete.
LEMMA TurnEndsStep ==
  ASSUME IInv, TurnEnds
  PROVE  IInv'
<1>0. Types /\ c \in Connects /\ ConnectOK /\ AnswersOK /\ c.pc = "tools" /\ c.calls = <<>>
  BY DEF IInv, Types, TurnEnds, At
<1>1. srv' = srv /\ cursor' = cursor /\ ran' = ran
  BY DEF TurnEnds, tools
<1>2. \A i : Heard(i)' = Heard(i) /\ Results(i)' = Results(i)
  BY <1>1 DEF Heard, Results
<1>3. c.n \in Nat /\ c.n >= c.n /\ c.next \in Seq(Item) /\ c.turn + 1 \in Nat
  BY <1>0, ConnectFields
<1>4. Latest /\ c.prev = c.post /\ Heard(c.post) /\ c.end = "none"
  BY <1>0 DEF ConnectOK
<1>5. PICK calls \in Calls : calls = srv[c.post].calls
  BY <1>0, <1>4, ResultsAre DEF Heard
<1>6. PICK k \in 0..Len(calls) : Answered(k)
  BY <1>0, <1>5 DEF AnswersOK
<1>7. k = Len(calls) /\ Len(calls) \in Nat
  <2>1. Len(c.calls) = 0 /\ Len(c.calls) = Len(calls) - k
    BY <1>0, <1>5, <1>6, EmptySeq DEF Answered
  <2>2. Len(calls) \in Nat
    BY CallsAre
  <2> QED  BY <2>1, <2>2
<1>8. /\ Len(c.next) = Len(calls)
      /\ \A i \in 1..Len(calls) : c.next[i] = <<"result", c.post, calls[i]>>
  BY <1>5, <1>6, <1>7 DEF Answered
<1>9. CASE c.next = <<>>
  <2>1. c' \in Connects /\ c'.n = c.n /\ c'.pc = "closed" /\ c'.end = EndWith(FALSE)
        /\ c'.post = c.post
    BY <1>0, <1>9, Returned DEF TurnEnds
  <2>2. calls = <<>>
    <3>1. Len(calls) = 0 /\ calls \in Seq(CallId)
      BY <1>8, <1>9, EmptySeq, CallsAre
    <3> QED  BY <3>1, EmptySeq
  <2>3. ConnectOK' /\ AnswersOK'
    BY <1>1, <1>4, <1>5, <2>1, <2>2 DEF ConnectOK, AnswersOK, Latest
  <2> QED  BY <1>1, <1>3, <2>1, <2>3, OnlyConnect
<1>10. CASE c.next # <<>>
  <2>1. c' = [c EXCEPT !.pc = "post", !.input = c.next, !.turn = c.turn + 1]
    BY <1>0, <1>10 DEF TurnEnds, Connects
  <2>2. c' \in Connects
    BY <1>0, <1>3, <2>1, ConnectTypes, Zenon
  <2>3. /\ c'.pc = "post" /\ c'.n = c.n /\ c'.prev = c.prev /\ c'.post = c.post
        /\ c'.input = c.next /\ c'.end = c.end
    BY <1>0, <2>1 DEF Connects
  <2>4. c.next = Results(c.post)
    <3>1. /\ Results(c.post) \in Seq(Item) /\ Len(Results(c.post)) = Len(calls)
          /\ \A i \in 1..Len(calls) : Results(c.post)[i] = <<"result", c.post, calls[i]>>
      BY <1>0, <1>4, <1>5, ResultsAre DEF Heard
    <3>2. PICK s \in Seq(Item), t \in Seq(Item) : s = c.next /\ t = Results(c.post)
      BY <1>3, <3>1
    <3>3. Len(s) = Len(t) /\ \A i \in 1..Len(s) : s[i] = t[i]
      BY <1>8, <3>1, <3>2
    <3>4. s = t
      BY ONLY <3>3, s \in Seq(Item), t \in Seq(Item), SeqEqual
    <3> QED  BY <3>2, <3>4
  <2>5. c.n > 0
    <3>1. c.post \in 1..Len(srv) /\ srv[c.post].by = c.n
      BY <1>4 DEF Heard, Latest
    <3>2. srv[c.post].by \in 1..c.n
      BY <3>1 DEF IInv, ChainOK
    <3> QED  BY <1>3, <3>1, <3>2
  <2>6. ConnectOK'
    BY <1>1, <1>2, <1>4, <1>10, <2>3, <2>4, <2>5 DEF ConnectOK, Latest
  <2>7. AnswersOK'
    BY <2>3 DEF AnswersOK
  <2> QED  BY <1>1, <1>3, <2>2, <2>3, <2>6, <2>7, OnlyConnect
<1> QED  BY <1>9, <1>10

----------------------------------------------------------------------------
(* Steps that the server sees. *)

\* A POST adds an interaction to those that there are.
LEMMA Posted ==
  ASSUME Types, NEW x \in Interaction, Len(srv) < MaxInteractions, srv' = Append(srv, x)
  PROVE  /\ srv' \in Seq(Interaction) /\ Len(srv') = Len(srv) + 1 /\ Len(srv') <= MaxInteractions
         /\ \A i \in 1..Len(srv) : srv'[i] = srv[i] /\ Results(i)' = Results(i)
         /\ srv'[Len(srv) + 1] = x
         /\ \A i : Heard(i) => Heard(i)'
<1>1. srv \in Seq(Interaction) /\ Len(srv) \in Nat /\ MaxInteractions \in Nat
  BY InteractionBounds DEF Types
<1>2. srv' \in Seq(Interaction) /\ Len(srv') = Len(srv) + 1 /\ srv'[Len(srv) + 1] = x
      /\ \A i \in 1..Len(srv) : srv'[i] = srv[i]
  BY <1>1, AppendProperties
<1>3. \A i \in 1..Len(srv) : Results(i)' = Results(i)
  BY <1>2 DEF Results
<1>4. \A i : Heard(i) => Heard(i)'
  <2>1. \A i \in 1..Len(srv) : i \in 1..Len(srv')
    BY <1>1, <1>2
  <2> QED  BY <1>2, <2>1 DEF Heard
<1>5. Len(srv') <= MaxInteractions
  BY <1>1, <1>2
<1> QED  BY <1>2, <1>3, <1>4, <1>5

\* The server creates an interaction.
LEMMA PostTurnStep ==
  ASSUME IInv, NEW calls \in Calls, NEW says \in Says, PostTurn(calls, says)
  PROVE  IInv'
<1>0. Types /\ ChainOK /\ ConnectOK /\ RanOK /\ c \in Connects /\ c.pc = "post"
  BY DEF IInv, Types, PostTurn, At
<1>1. PICK x : x = [prev |-> c.prev, input |-> c.input, by |-> c.n, calls |-> calls,
                    heard |-> FALSE]
  OBVIOUS
<1>2. /\ x \in Interaction /\ x.prev = c.prev /\ x.input = c.input /\ x.by = c.n
      /\ x.calls = calls
  BY <1>0, <1>1, ConnectFields DEF Interaction
<1>3. PICK m : m = Len(srv) /\ m \in Nat
  BY <1>0, ConnectFields
<1>4. srv' = Append(srv, x) /\ Len(srv) < MaxInteractions /\ cursor' = cursor /\ ran' = ran
  BY <1>1 DEF PostTurn, tools
<1>5. /\ srv' \in Seq(Interaction) /\ Len(srv') = m + 1 /\ Len(srv') <= MaxInteractions
      /\ \A i \in 1..m : srv'[i] = srv[i] /\ Results(i)' = Results(i)
      /\ srv'[m + 1] = x
      /\ \A i : Heard(i) => Heard(i)'
  BY <1>0, <1>2, <1>3, <1>4, Posted
<1>6. c' = [c EXCEPT !.pc = "stream", !.post = m + 1, !.says = says] /\ m + 1 \in Nat
  BY <1>3 DEF PostTurn
<1>7. c' \in Connects
  BY <1>0, <1>6, ConnectTypes, Zenon
<1>8. c'.pc = "stream" /\ c'.post = m + 1 /\ c'.n = c.n /\ c'.end = c.end
  BY <1>0, <1>6 DEF Connects
<1>9. Types'
  BY <1>0, <1>4, <1>5, <1>7 DEF Types
<1>10. c.n \in Nat /\ c.prev \in Nat /\ c.n > 0 /\ c.end = "none" /\ (c.prev # 0 => Heard(c.prev))
  BY <1>0, ConnectFields DEF ConnectOK
<1>11. /\ \A i \in 1..m : srv[i].by \in Nat /\ srv[i].by <= c.n
       /\ LinkOK(m + 1)'
  <2>1. \A i \in 1..m : srv[i].by \in Nat /\ srv[i].by <= c.n
    BY <1>0, <1>3, <1>10 DEF ChainOK
  <2>2. CASE c.post = 0 /\ c.input = <<<<"user", c.n>>>> /\ \A i \in 1..m : srv[i].by < c.n
    <3>1. m + 1 > 1 => m \in 1..m /\ (m + 1) - 1 = m
      BY <1>3
    <3>2. /\ srv'[m + 1].input = <<<<"user", srv'[m + 1].by>>>>
          /\ m + 1 > 1 => srv'[(m + 1) - 1].by < srv'[m + 1].by
      BY <1>2, <1>5, <2>2, <3>1
    <3> QED  BY <2>1, <3>2 DEF LinkOK
  <2>3. CASE Latest /\ c.prev = c.post /\ c.input = Results(c.post) /\ c.input # <<>>
    <3>1. c.post = m /\ m # 0 /\ srv[m].by = c.n /\ c.prev = m
      BY <1>3, <2>3 DEF Latest
    <3>2. m \in 1..m /\ m + 1 > 1 /\ (m + 1) - 1 = m
      BY <1>3, <3>1
    <3>3. /\ srv'[m].by = srv'[m + 1].by /\ srv'[m + 1].prev = m
          /\ srv'[m + 1].input = Results(m)' /\ srv'[m + 1].input # <<>>
      BY <1>2, <1>5, <2>3, <3>1, <3>2
    <3> QED  BY <2>1, <3>2, <3>3 DEF LinkOK
  <2> QED  BY <1>0, <1>3, <2>1, <2>2, <2>3 DEF ConnectOK
<1>12. ChainOK'
  <2>1. (cursor # 0 => Heard(cursor))'
    BY <1>0, <1>4, <1>5 DEF ChainOK, Heard
  <2>2. ASSUME NEW i \in 1..m
        PROVE  /\ srv'[i].prev < i /\ (srv[i].prev # 0 => Heard(srv[i].prev))'
               /\ srv'[i].by \in 1..c'.n
               /\ LinkOK(i)'
               /\ \A j \in 1..i : srv'[j].by <= srv'[i].by
    <3>1. /\ srv[i].prev < i /\ (srv[i].prev # 0 => Heard(srv[i].prev))
          /\ srv[i].by \in 1..c.n
          /\ LinkOK(i)
          /\ \A j \in 1..i : srv[j].by <= srv[i].by
      BY <1>0, <1>3 DEF ChainOK
    <3>2. \A j \in 1..i : j \in 1..m
      BY <1>3
    <3>3. i > 1 => i - 1 \in 1..m
      BY <1>3
    <3>4. LinkOK(i)'
      BY <1>5, <3>1, <3>3 DEF LinkOK
    <3> QED  BY <1>5, <1>8, <3>1, <3>2, <3>4
  <2>3. /\ srv'[m + 1].prev < m + 1 /\ (srv[m + 1].prev # 0 => Heard(srv[m + 1].prev))'
        /\ srv'[m + 1].by \in 1..c'.n
        /\ \A j \in 1..(m + 1) : srv'[j].by <= srv'[m + 1].by
    <3>1. PICK q : q = c.prev /\ (q # 0 => Heard(q))
      BY <1>10
    <3>2. q # 0 => q \in 1..m /\ Heard(q)'
      BY <1>3, <1>5, <3>1 DEF Heard
    <3>3. (srv[m + 1].prev # 0 => Heard(srv[m + 1].prev))'
      BY <1>2, <1>5, <3>1, <3>2 DEF Heard
    <3>4. c.prev < m + 1
      BY <1>3, <1>10, <3>1, <3>2
    <3>5. \A j \in 1..(m + 1) : j \in 1..m \/ j = m + 1
      BY <1>3
    <3>6. c.n <= c.n /\ c.n \in 1..c.n
      BY <1>10
    <3> QED  BY <1>2, <1>5, <1>8, <1>11, <3>3, <3>4, <3>5, <3>6
  <2>4. \A i \in 1..Len(srv') : i \in 1..m \/ i = m + 1
    BY <1>3, <1>5
  <2> QED  BY <1>11, <2>1, <2>2, <2>3, <2>4 DEF ChainOK
<1>13. ConnectOK' /\ AnswersOK'
  BY <1>2, <1>3, <1>5, <1>8, <1>10 DEF ConnectOK, AnswersOK, Latest
<1>14. RanOK'
  <2>1. m + 1 \in 1..MaxInteractions /\ m + 1 > m
    BY <1>3, <1>5, InteractionBounds
  <2>2. \A i \in 1..MaxInteractions : i > m + 1 => i > m
    BY <1>3
  <2> QED  BY <1>0, <1>3, <1>4, <1>5, <1>8, <2>1, <2>2 DEF RanOK
<1> QED  BY <1>9, <1>12, <1>13, <1>14 DEF IInv

\* The turn of a Connect is heard to its end: nothing else of an interaction changes.
LEMMA HeardNow ==
  ASSUME Types, Latest, srv' = [srv EXCEPT ![c.post].heard = TRUE]
  PROVE  /\ srv' \in Seq(Interaction) /\ Len(srv') = Len(srv)
         /\ \A i \in 1..Len(srv) :
              /\ srv'[i].prev = srv[i].prev /\ srv'[i].input = srv[i].input
              /\ srv'[i].by = srv[i].by /\ srv'[i].calls = srv[i].calls
         /\ \A i : (Heard(i) => Heard(i)') /\ (i \in 1..Len(srv) => Results(i)' = Results(i))
         /\ c.post \in 1..Len(srv) /\ srv'[c.post].heard
<1>1. srv \in Seq(Interaction) /\ Len(srv) \in Nat /\ c.post \in 1..Len(srv)
  BY ConnectFields DEF Types, Latest
<1>2. PICK p \in 1..Len(srv) : p = c.post
  BY <1>1
<1>3. PICK x \in Interaction : x = srv[p]
  BY <1>1
<1>4. PICK y : y = [x EXCEPT !.heard = TRUE]
  OBVIOUS
<1>5. /\ y \in Interaction /\ y.heard /\ y.prev = x.prev /\ y.input = x.input /\ y.by = x.by
      /\ y.calls = x.calls
  BY <1>4 DEF Interaction
<1>6. srv' = [srv EXCEPT ![p] = y]
  BY <1>1, <1>2, <1>3, <1>4
<1>7. srv' \in Seq(Interaction) /\ Len(srv') = Len(srv)
  BY <1>1, <1>5, <1>6
<1>8. srv'[p] = y /\ \A i \in 1..Len(srv) : i # p => srv'[i] = srv[i]
  BY <1>1, <1>6
<1>9. \A i \in 1..Len(srv) :
        /\ srv'[i].prev = srv[i].prev /\ srv'[i].input = srv[i].input
        /\ srv'[i].by = srv[i].by /\ srv'[i].calls = srv[i].calls
        /\ (srv[i].heard => srv'[i].heard)
  BY <1>3, <1>5, <1>8
<1>10. \A i : Heard(i) => Heard(i)'
  BY <1>7, <1>9 DEF Heard
<1>11. \A i \in 1..Len(srv) : Results(i)' = Results(i)
  BY <1>9 DEF Results
<1> QED  BY <1>2, <1>5, <1>7, <1>8, <1>9, <1>10, <1>11

\* The chain stays what it was, and the turn that was heard may be the cursor.
LEMMA ChainHeard ==
  ASSUME Types, ChainOK, Latest, srv' = [srv EXCEPT ![c.post].heard = TRUE],
         cursor' = cursor \/ cursor' = c.post, c'.n = c.n
  PROVE  ChainOK'
<1>1. /\ srv' \in Seq(Interaction) /\ Len(srv') = Len(srv)
      /\ \A i \in 1..Len(srv) :
           /\ srv'[i].prev = srv[i].prev /\ srv'[i].input = srv[i].input
           /\ srv'[i].by = srv[i].by /\ srv'[i].calls = srv[i].calls
      /\ \A i : (Heard(i) => Heard(i)') /\ (i \in 1..Len(srv) => Results(i)' = Results(i))
      /\ c.post \in 1..Len(srv) /\ srv'[c.post].heard
  BY HeardNow
<1>2. (cursor # 0 => Heard(cursor))'
  BY <1>1 DEF ChainOK, Heard
<1>3. Len(srv) \in Nat
  BY ConnectFields
<1>4. ASSUME NEW i \in 1..Len(srv)
      PROVE  /\ (srv[i].prev < i /\ (srv[i].prev # 0 => Heard(srv[i].prev)))'
             /\ srv'[i].by \in 1..c'.n
             /\ LinkOK(i)'
             /\ \A j \in 1..i : srv'[j].by <= srv'[i].by
  <2>1. /\ srv[i].prev < i /\ (srv[i].prev # 0 => Heard(srv[i].prev))
        /\ srv[i].by \in 1..c.n
        /\ LinkOK(i)
        /\ \A j \in 1..i : srv[j].by <= srv[i].by
    BY DEF ChainOK
  <2>2. \A j \in 1..i : j \in 1..Len(srv)
    BY <1>3
  <2>3. i > 1 => i - 1 \in 1..Len(srv)
    BY <1>3
  <2>4. LinkOK(i)'
    BY <1>1, <2>1, <2>3 DEF LinkOK
  <2>5. (srv[i].prev # 0 => Heard(srv[i].prev))'
    BY <1>1, <2>1 DEF Heard
  <2> QED  BY <1>1, <2>1, <2>2, <2>4, <2>5
<1> QED  BY <1>1, <1>2, <1>4 DEF ChainOK

\* A turn is complete, and its cursor cannot be saved.
LEMMA SaveFailsStep ==
  ASSUME IInv, SaveFails
  PROVE  IInv'
<1>0. Types /\ ChainOK /\ ConnectOK /\ RanOK /\ c.pc = "stream" /\ Latest
  BY DEF IInv, SaveFails, At, ConnectOK
<1>1. /\ srv' = [srv EXCEPT ![c.post].heard = TRUE] /\ cursor' = cursor /\ ran' = ran
      /\ Return(TRUE)
  BY DEF SaveFails, tools
<1>2. c' \in Connects /\ c'.n = c.n /\ c'.pc = "closed" /\ c'.end = EndWith(TRUE)
  BY <1>0, <1>1, Returned
<1>3. srv' \in Seq(Interaction) /\ Len(srv') = Len(srv)
  BY <1>0, <1>1, HeardNow
<1>4. Types'
  BY <1>0, <1>1, <1>2, <1>3 DEF Types
<1>5. ChainOK'
  BY <1>0, <1>1, <1>2, ChainHeard
<1>6. c'.end # "COMPLETED"
  BY <1>2 DEF EndWith
<1>7. ConnectOK' /\ AnswersOK'
  BY <1>2, <1>6 DEF ConnectOK, AnswersOK
<1>8. RanOK'
  BY <1>0, <1>1, <1>2, <1>3 DEF RanOK
<1> QED  BY <1>4, <1>5, <1>7, <1>8 DEF IInv

\* The Connect of a turn that was heard.
LEMMA HeardTypes ==
  ASSUME NEW d \in Connects, NEW p \in Nat, NEW x \in Seq(Call), NEW y \in Seq(Nat),
         NEW z \in Seq(Item)
  PROVE  [d EXCEPT !.pc = "turn", !.prev = p, !.calls = x, !.text = y, !.next = z,
                   !.attempt = 0] \in Connects
BY DEF Connects

\* parseStreamedTurn has seen the whole turn, and its cursor is saved.
LEMMA StreamEndsStep ==
  ASSUME ParserIsRight, IInv, StreamEnds
  PROVE  IInv'
<1>0. Types /\ ChainOK /\ ConnectOK /\ RanOK /\ c \in Connects /\ c.pc = "stream" /\ Latest
      /\ c.end = "none"
  BY DEF IInv, Types, StreamEnds, At, ConnectOK
<1>1. srv' = [srv EXCEPT ![c.post].heard = TRUE] /\ cursor' = c.post /\ ran' = ran
  BY DEF StreamEnds, Remember, tools
<1>2. /\ srv' \in Seq(Interaction) /\ Len(srv') = Len(srv)
      /\ \A i \in 1..Len(srv) :
           /\ srv'[i].prev = srv[i].prev /\ srv'[i].input = srv[i].input
           /\ srv'[i].by = srv[i].by /\ srv'[i].calls = srv[i].calls
      /\ c.post \in 1..Len(srv) /\ srv'[c.post].heard
  BY <1>0, <1>1, HeardNow
<1>3. PICK p \in 1..Len(srv) : p = c.post /\ p \in Nat
  BY <1>0, <1>2, ConnectFields
<1>4. PICK calls \in Calls : calls = srv[p].calls
  BY <1>0, ResultsAre
<1>5. c.says \in Says
  BY <1>0, ConnectFields
<1>6. PICK x, y, z : /\ x = MeantCalls(calls) /\ MeantText(y, c.says) /\ z = <<>>
                     /\ \E res \in Streamed[calls][c.says] :
                          /\ res.toolCalls = x /\ res.modelText = y
                          /\ c' = [c EXCEPT !.pc = "turn", !.prev = c.post,
                                            !.calls = res.toolCalls, !.text = res.modelText,
                                            !.next = <<>>, !.attempt = 0]
  <2>1. PICK res \in Streamed[calls][c.says] :
           c' = [c EXCEPT !.pc = "turn", !.prev = c.post, !.calls = res.toolCalls,
                          !.text = res.modelText, !.next = <<>>, !.attempt = 0]
    BY <1>3, <1>4 DEF StreamEnds
  <2>2. res.toolCalls = MeantCalls(calls) /\ MeantText(res.modelText, c.says)
    BY <1>5 DEF ParserIsRight
  <2> QED  BY <2>1, <2>2, Zenon
<1>7. x \in Seq(Call) /\ y \in Seq(Nat) /\ z \in Seq(Item)
  BY <1>4, <1>5, <1>6, MeantTypes, EmptySeq
<1>8. c' = [c EXCEPT !.pc = "turn", !.prev = p, !.calls = x, !.text = y, !.next = z, !.attempt = 0]
  BY <1>3, <1>6
<1>9. c' \in Connects
  BY <1>0, <1>3, <1>7, <1>8, HeardTypes
<1>10. /\ c'.pc = "turn" /\ c'.n = c.n /\ c'.prev = p /\ c'.post = p /\ c'.calls = x
       /\ c'.next = <<>> /\ c'.end = "none"
  BY <1>0, <1>3, <1>6, <1>8 DEF Connects
<1>11. Types'
  BY <1>0, <1>1, <1>2, <1>3, <1>9 DEF Types
<1>12. ChainOK'
  BY <1>0, <1>1, <1>10, ChainHeard
<1>13. Latest' /\ Heard(c.post)'
  BY <1>0, <1>2, <1>3, <1>10 DEF Latest, Heard
<1>14. c'.calls = MeantCalls(srv'[c'.post].calls)
  BY <1>2, <1>3, <1>4, <1>6, <1>10
<1>15. ConnectOK' /\ AnswersOK'
  BY <1>10, <1>13, <1>14 DEF ConnectOK, AnswersOK
<1>16. RanOK'
  BY <1>0, <1>1, <1>2, <1>3, <1>10 DEF RanOK
<1> QED  BY <1>11, <1>12, <1>15, <1>16 DEF IInv

\* One more call of the turn is executed: it is the next one, and its first time.
LEMMA ToolStep ==
  ASSUME IInv, ToolAnswers
  PROVE  IInv'
<1>0. Types /\ ChainOK /\ ConnectOK /\ AnswersOK /\ RanOK /\ c \in Connects /\ c.pc = "tools"
      /\ c.calls # <<>>
  BY DEF IInv, Types, ToolAnswers, At
<1>1. srv' = srv /\ cursor' = cursor
  BY DEF ToolAnswers
<1>2. Latest /\ c.prev = c.post /\ Heard(c.post) /\ c.end = "none"
  BY <1>0 DEF ConnectOK
<1>3. PICK p \in 1..Len(srv) : p = c.post
  BY <1>2 DEF Heard
<1>4. PICK calls \in Calls : calls = srv[p].calls
  BY <1>0, ResultsAre
<1>5. PICK k \in 0..Len(calls) : Answered(k)
  BY <1>0, <1>3, <1>4 DEF AnswersOK
<1>6. PICK x, y : x = c.calls /\ y = c.next /\ x \in Seq(Call) /\ y \in Seq(Item)
  BY <1>0, ConnectFields
<1>7. /\ Len(y) = k /\ Len(x) = Len(calls) - k /\ k \in Nat /\ Len(calls) \in Nat
      /\ \A i \in 1..k : y[i] = <<"result", p, calls[i]>>
      /\ \A i \in 1..(Len(calls) - k) : x[i].id = calls[k + i]
      /\ \A j \in CallId : ran[p][j] = IF j \in 1..k THEN 1 ELSE 0
  <2>1. Len(calls) \in Nat
    BY CallsAre
  <2> QED  BY <1>3, <1>4, <1>5, <1>6, <2>1 DEF Answered
<1>8. k < Len(calls) /\ k + 1 \in 1..Len(calls) /\ k + 1 \in CallId /\ calls[k + 1] = k + 1
  <2>1. Len(x) # 0
    BY <1>0, <1>6, EmptySeq
  <2>2. k < Len(calls) /\ k + 1 \in 1..Len(calls)
    BY <1>7, <2>1
  <2> QED  BY <2>2, CallsAre
<1>9. Head(x).id = k + 1 /\ Tail(x) \in Seq(Call) /\ Len(Tail(x)) = Len(calls) - (k + 1)
      /\ \A i \in 1..(Len(calls) - (k + 1)) : Tail(x)[i].id = calls[(k + 1) + i]
  <2>1. Len(x) \in Nat /\ Len(x) > 0 /\ x # <<>>
    BY <1>0, <1>6, <1>7, <1>8
  <2>2. Tail(x) \in Seq(Call) /\ Len(Tail(x)) = Len(x) - 1 /\ Head(x) = x[1]
        /\ \A i \in 1..(Len(x) - 1) : Tail(x)[i] = x[i + 1]
    BY <1>6, <2>1, HeadTailProperties
  <2>3. x[1].id = calls[k + 1]
    BY <1>7, <1>8
  <2>4. ASSUME NEW i \in 1..(Len(calls) - (k + 1))
        PROVE  Tail(x)[i].id = calls[(k + 1) + i]
    <3>1. i \in 1..(Len(x) - 1) /\ i + 1 \in 1..(Len(calls) - k) /\ k + (i + 1) = (k + 1) + i
      BY <1>7
    <3> QED  BY <1>7, <2>2, <3>1
  <2>5. Len(Tail(x)) = Len(calls) - (k + 1)
    BY <1>7, <2>2
  <2> QED  BY <1>8, <2>2, <2>3, <2>4, <2>5
<1>10. PICK z : z = <<"result", p, k + 1>> /\ z \in Item
  <2>1. PICK id \in CallId, q \in Nat : id = k + 1 /\ q = p
    BY <1>3, <1>8
  <2>2. <<"result", q, id>> \in Item
    BY ItemTypes
  <2> QED  BY <2>1, <2>2
<1>11. /\ Append(y, z) \in Seq(Item) /\ Len(Append(y, z)) = k + 1
       /\ \A i \in 1..(k + 1) : Append(y, z)[i] = <<"result", p, calls[i]>>
  <2> y \in Seq(Item) /\ z \in Item /\ Len(y) = k
    BY <1>6, <1>7, <1>10
  <2>1. /\ Append(y, z) \in Seq(Item) /\ Len(Append(y, z)) = k + 1 /\ Append(y, z)[k + 1] = z
        /\ \A i \in 1..k : Append(y, z)[i] = y[i]
    BY ONLY y \in Seq(Item), z \in Item, Len(y) = k, AppendProperties
  <2>2. \A i \in 1..(k + 1) : i \in 1..k \/ i = k + 1
    BY <1>7
  <2> QED  BY <1>7, <1>8, <1>10, <2>1, <2>2
<1>12. PICK u, v : u = Tail(x) /\ v = Append(y, z)
  OBVIOUS
<1>13. c' = [c EXCEPT !.calls = u, !.next = v]
  BY <1>0, <1>3, <1>6, <1>9, <1>10, <1>12, Zenon DEF ToolAnswers, Connects
<1>14. c' \in Connects
  BY <1>0, <1>9, <1>11, <1>12, <1>13, ConnectTypes, Zenon
<1>15. /\ c'.pc = "tools" /\ c'.n = c.n /\ c'.prev = c.prev /\ c'.post = p /\ c'.end = "none"
       /\ c'.calls = u /\ c'.next = v
  BY <1>0, <1>2, <1>3, <1>13 DEF Connects
<1>16. p \in 1..MaxInteractions /\ ran \in [1..MaxInteractions -> [CallId -> Nat]]
  BY <1>0, <1>3, ConnectFields, InteractionBounds DEF Types
<1>17. /\ ran' \in [1..MaxInteractions -> [CallId -> Nat]]
       /\ \A i \in 1..MaxInteractions : i # p => ran'[i] = ran[i]
       /\ \A j \in CallId : ran'[p][j] = IF j = k + 1 THEN ran[p][j] + 1 ELSE ran[p][j]
  <2>1. PICK f \in [CallId -> Nat] : f = ran[p]
    BY <1>16
  <2>2. PICK g : g = [f EXCEPT ![k + 1] = f[k + 1] + 1]
    OBVIOUS
  <2>3. g \in [CallId -> Nat] /\ \A j \in CallId : g[j] = IF j = k + 1 THEN f[j] + 1 ELSE f[j]
    BY <1>8, <2>2
  <2>4. ran' = [ran EXCEPT ![p] = g]
    BY <1>3, <1>6, <1>8, <1>9, <1>16, <2>1, <2>2 DEF ToolAnswers
  <2> QED  BY <1>16, <2>1, <2>3, <2>4
<1>18. \A j \in CallId : ran'[p][j] = IF j \in 1..(k + 1) THEN 1 ELSE 0
  <2>1. \A j \in CallId : j \in 1..(k + 1) <=> (j \in 1..k \/ j = k + 1)
    BY <1>7 DEF CallId
  <2>2. k + 1 \notin 1..k
    BY <1>7
  <2> QED  BY <1>7, <1>17, <2>1, <2>2
<1>19. Types'
  BY <1>0, <1>1, <1>14, <1>17 DEF Types
<1>20. ChainOK'
  BY <1>0, <1>1, <1>15, ChainKept, ConnectFields
<1>21. ConnectOK'
  BY <1>1, <1>2, <1>3, <1>15 DEF ConnectOK, Latest, Heard
<1>22. AnswersOK'
  <2>1. srv'[c'.post].calls = calls
    BY <1>1, <1>4, <1>15
  <2>2. Answered(k + 1)'
    BY <1>9, <1>11, <1>12, <1>15, <1>18, <2>1 DEF Answered
  <2>3. k + 1 \in 0..Len(calls)
    BY <1>7, <1>8
  <2> QED  BY <2>1, <2>2, <2>3 DEF AnswersOK
<1>23. RanOK'
  <2>1. \A j \in CallId : ran'[p][j] <= 1
    BY <1>18
  <2>2. \A i \in 1..MaxInteractions : i > Len(srv) => i # p
    BY <1>0, <1>3, ConnectFields
  <2> QED  BY <1>0, <1>1, <1>15, <1>17, <2>1, <2>2 DEF RanOK
<1> QED  BY <1>19, <1>20, <1>21, <1>22, <1>23 DEF IInv

----------------------------------------------------------------------------
(* The invariant, and what it implies. *)

\* Nothing was posted.
LEMMA InitOK ==
  ASSUME Init
  PROVE  IInv
<1>1. c = Closed /\ srv = <<>> /\ cursor = 0
  BY DEF Init
<1>2. PICK x \in Seq(Item) : x = <<>>
  BY EmptySeq
<1>3. c = [pc |-> "closed", n |-> 0, prev |-> 0, input |-> x, turn |-> 0, attempt |-> 0,
           post |-> 0, says |-> <<>>, calls |-> <<>>, text |-> <<>>, next |-> <<>>,
           canceled |-> FALSE, capped |-> FALSE, end |-> "none"]
  BY <1>1, <1>2 DEF Closed
<1>4. c \in Connects
  BY <1>3, FreshTypes
<1>5. c.pc = "closed" /\ c.end = "none"
  BY <1>3
<1>6. srv \in Seq(Interaction) /\ Len(srv) = 0
  BY <1>1, EmptySeq
<1>7. /\ ran \in [1..MaxInteractions -> [CallId -> Nat]]
      /\ \A i \in 1..MaxInteractions, j \in CallId : ran[i][j] = 0
  BY DEF Init
<1>8. Types
  BY <1>1, <1>4, <1>6, <1>7, InteractionBounds DEF Types
<1>9. ChainOK /\ ConnectOK /\ AnswersOK
  BY <1>1, <1>5, <1>6 DEF ChainOK, ConnectOK, AnswersOK
<1>10. RanOK
  BY <1>5, <1>7 DEF RanOK
<1> QED  BY <1>8, <1>9, <1>10 DEF IInv

\* No step disturbs the invariant.
LEMMA StepOK ==
  ASSUME ParserIsRight, IInv, [Next]_vars
  PROVE  IInv'
<1>1. CASE \E hasInput \in BOOLEAN : Connect(hasInput)
  BY <1>1, ConnectStep
<1>2. CASE StartFails \/ Crash
  BY <1>2, NoRunStep
<1>3. CASE Cancel
  BY <1>3, CancelStep
<1>4. CASE \E calls \in Calls, says \in Says : PostTurn(calls, says)
  BY <1>4, PostTurnStep
<1>5. CASE RateLimited
  BY <1>5, RateLimitedStep
<1>6. CASE PostFails \/ PostCanceled \/ StreamError
  BY <1>6, PostFailsStep
<1>7. CASE StreamEnds
  BY <1>7, StreamEndsStep
<1>8. CASE SaveFails
  BY <1>8, SaveFailsStep
<1>9. CASE TurnBegins
  BY <1>9, TurnBeginsStep
<1>10. CASE executeTool
  BY <1>10, ToolStep DEF executeTool
<1>11. CASE TurnEnds
  BY <1>11, TurnEndsStep
<1>12. CASE UNCHANGED vars
  <2>1. /\ srv' = srv /\ cursor' = cursor /\ ran' = ran /\ c' = c
    BY <1>12 DEF vars
  <2>2. c' \in Connects
    BY <2>1 DEF IInv, Types
  <2> QED  BY <2>1, <2>2, SameConnect
<1> QED  BY <1>1, <1>2, <1>3, <1>4, <1>5, <1>6, <1>7, <1>8, <1>9, <1>10, <1>11, <1>12 DEF Next

\* Two interactions of one Connect: what is between them is that Connect's too.
LEMMA SameBy ==
  ASSUME IInv, NEW i \in 1..Len(srv), NEW j \in 1..Len(srv), i < j, srv[i].by = srv[j].by
  PROVE  /\ srv[j - 1].by = srv[j].by /\ srv[j].prev = j - 1
         /\ srv[j].input = Results(j - 1) /\ srv[j].input # <<>>
<1>1. Types /\ ChainOK /\ Len(srv) \in Nat
  BY ConnectFields DEF IInv
<1>2. j - 1 \in 1..Len(srv) /\ i \in 1..(j - 1) /\ j - 1 \in 1..j /\ j > 1
  BY <1>1
<1>3. srv[i].by <= srv[j - 1].by /\ srv[j - 1].by <= srv[j].by
  BY <1>1, <1>2 DEF ChainOK
<1>4. srv[j - 1].by \in Nat /\ srv[j].by \in Nat
  <2>1. srv[j - 1] \in Interaction /\ srv[j] \in Interaction
    BY <1>1, <1>2 DEF Types
  <2> QED  BY <2>1 DEF Interaction
<1>5. srv[j - 1].by = srv[j].by
  BY <1>3, <1>4
<1>6. LinkOK(j)
  BY <1>1 DEF ChainOK
<1> QED  BY <1>2, <1>4, <1>5, <1>6 DEF LinkOK

\* Results name the interaction they are of.
LEMMA ResultsName ==
  ASSUME Types, NEW h \in 1..Len(srv), Results(h) # <<>>
  PROVE  Results(h)[1][1] = "result" /\ Results(h)[1][2] = h
<1>1. PICK calls : calls = srv[h].calls
  OBVIOUS
<1>2. /\ Results(h) \in Seq(Item) /\ Len(Results(h)) = Len(calls) /\ calls \in Calls
      /\ \A k \in 1..Len(calls) : Results(h)[k] = <<"result", h, calls[k]>>
  BY <1>1, ResultsAre
<1>3. Len(calls) \in Nat /\ Len(calls) # 0
  BY <1>2, EmptySeq, CallsAre
<1>4. Results(h)[1] = <<"result", h, calls[1]>>
  BY <1>2, <1>3
<1> QED  BY <1>4

\* What begins with a result is the complete answer to what it continues.
LEMMA FirstItem ==
  ASSUME IInv, NEW i \in 1..Len(srv)
  PROVE  \/ srv[i].input[1][1] = "user"
         \/ /\ i > 1 /\ i - 1 \in 1..Len(srv) /\ srv[i].prev = i - 1
            /\ srv[i].input = Results(i - 1) /\ srv[i].input # <<>>
<1>1. LinkOK(i) /\ Len(srv) \in Nat
  BY ConnectFields DEF IInv, ChainOK
<1>2. CASE srv[i].input = <<<<"user", srv[i].by>>>>
  <2>1. srv[i].input[1] = <<"user", srv[i].by>>
    BY <1>2
  <2> QED  BY <2>1
<1>3. CASE i > 1 /\ srv[i].prev = i - 1 /\ srv[i].input = Results(i - 1) /\ srv[i].input # <<>>
  BY <1>1, <1>3
<1> QED  BY <1>1, <1>2, <1>3 DEF LinkOK

\* The chain is clean.
LEMMA Clean ==
  ASSUME IInv
  PROVE  ChainIsClean
<1>1. Types /\ ChainOK /\ Len(srv) \in Nat /\ DOMAIN srv = 1..Len(srv)
  BY ConnectFields DEF IInv, Types
<1>2. cursor # 0 => srv[cursor].heard
  BY <1>1 DEF ChainOK, Heard
<1>3. \A i \in 1..Len(srv) : srv[i].prev # 0 => srv[srv[i].prev].heard
  BY <1>1 DEF ChainOK, Heard
<1>4. ASSUME NEW i \in 1..Len(srv), NEW j \in 1..Len(srv), i < j, srv[i].by = srv[j].by
      PROVE  srv[i].input # srv[j].input /\ (j = i + 1 => srv[j].prev = i)
  <2>1. srv[j].prev = j - 1 /\ srv[j].input = Results(j - 1) /\ srv[j].input # <<>>
    BY <1>4, SameBy
  <2>2. j - 1 \in 1..Len(srv)
    BY <1>1, <1>4
  <2>3. srv[j].input[1][1] = "result" /\ srv[j].input[1][2] = j - 1
    BY <1>1, <2>1, <2>2, ResultsName
  <2>4. CASE srv[i].input[1][1] = "user"
    BY <1>4, <2>1, <2>3, <2>4
  <2>5. CASE i - 1 \in 1..Len(srv) /\ srv[i].input = Results(i - 1) /\ srv[i].input # <<>>
    <3>1. srv[i].input[1][2] = i - 1
      BY <1>1, <2>5, ResultsName
    <3>2. i - 1 # j - 1
      BY <1>4
    <3> QED  BY <1>4, <2>1, <2>3, <3>1, <3>2
  <2> QED  BY <2>4, <2>5, FirstItem
<1> QED  BY <1>1, <1>2, <1>3, <1>4 DEF ChainIsClean

\* Every call of a Connect that completed was answered.
LEMMA Answers ==
  ASSUME IInv
  PROVE  AnsweredInFull
<1>1. Types /\ ChainOK /\ ConnectOK /\ RanOK /\ Len(srv) \in Nat /\ DOMAIN srv = 1..Len(srv)
  BY ConnectFields DEF IInv, Types
<1>2. \A i \in 1..MaxInteractions, j \in CallId : ran[i][j] <= 1
  BY <1>1 DEF RanOK
<1>3. ASSUME NEW i \in 1..Len(srv), srv[i].input[1][1] = "result"
      PROVE  srv[i].prev # 0 /\ srv[i].input = Results(srv[i].prev)
  <2>1. i > 1 /\ srv[i].prev = i - 1 /\ srv[i].input = Results(i - 1)
    BY <1>3, FirstItem
  <2> QED  BY <1>1, <2>1
<1>4. ASSUME c.end = "COMPLETED", NEW i \in 1..Len(srv), srv[i].by = c.n, srv[i].calls # <<>>
      PROVE  \/ c.capped /\ i = c.post
             \/ \E k \in 1..Len(srv) : srv[k].prev = i /\ srv[k].input = Results(i)
  <2>1. c.post = Len(srv) /\ srv[c.post].by = c.n /\ (c.capped \/ srv[c.post].calls = <<>>)
    BY <1>1, <1>4 DEF ConnectOK, Latest
  <2>2. CASE i = c.post
    BY <1>4, <2>1, <2>2
  <2>3. CASE i # c.post
    <3>1. i + 1 \in 1..Len(srv) /\ i < i + 1 /\ i \in 1..(i + 1) /\ c.post \in 1..Len(srv)
          /\ i + 1 \in 1..c.post /\ (i + 1) - 1 = i
      BY <1>1, <2>1, <2>3
    <3>2. srv[i].by <= srv[i + 1].by /\ srv[i + 1].by <= srv[c.post].by
      BY <1>1, <3>1 DEF ChainOK
    <3>3. srv[i + 1].by \in 1..c.n /\ c.n \in Nat
      BY <1>1, <3>1, ConnectFields DEF ChainOK
    <3>4. srv[i + 1].by = c.n
      BY <1>4, <2>1, <3>2, <3>3
    <3>5. srv[i + 1].prev = i /\ srv[i + 1].input = Results(i)
      BY <1>4, <3>1, <3>4, SameBy
    <3> QED  BY <3>1, <3>5
  <2> QED  BY <2>2, <2>3
<1> QED  BY <1>1, <1>2, <1>3, <1>4 DEF AnsweredInFull

(***************************************************************************)
(* The invariant of the conversation: interactions are linked, the Connect    *)
(* holds its latest turn, and exactly the answered calls have run.            *)
(***************************************************************************)
THEOREM Invariance ==
  ASSUME ParserIsRight
  PROVE  Spec => []IInv
<1>1. Init => IInv
  BY InitOK
<1>2. IInv /\ [Next]_vars => IInv'
  BY StepOK
<1> QED  BY <1>1, <1>2, PTL DEF Spec

(***************************************************************************)
(* Run, postTurn and setPrevID: the cursor, and what any interaction           *)
(* continues, is a turn that was heard to its end; within a Connect no input    *)
(* is given to two interactions, and each continues the one before.           *)
(***************************************************************************)
THEOREM ChainStaysClean ==
  ASSUME ParserIsRight
  PROVE  Spec => []ChainIsClean
<1>1. IInv => ChainIsClean
  BY Clean
<1> QED  BY <1>1, Invariance, PTL

(***************************************************************************)
(* Run and executeTool: a tool call runs at most once, across crashes, retries *)
(* and Connects; results are the complete answer to what they continue; and a  *)
(* Connect that reports COMPLETED has answered every call, but at the turn cap. *)
(***************************************************************************)
THEOREM CallsAnsweredInFull ==
  ASSUME ParserIsRight
  PROVE  Spec => []AnsweredInFull
<1>1. IInv => AnsweredInFull
  BY Answers
<1> QED  BY <1>1, Invariance, PTL
=============================================================================
