----------------------------- MODULE ExactlyOnce -----------------------------
(***************************************************************************)
(* What a conversation promises, without processes, crashes or snapshots:   *)
(* messages are accepted one at a time, each under a StepID of its own, and *)
(* each accepted message changes the actor's durable state exactly once, in *)
(* the order of acceptance, before the next one is accepted.                *)
(***************************************************************************)
EXTENDS Sequences, Integers

CONSTANTS StepID, Output, NoStep

VARIABLES
    inbox,   \* the accepted message that is not carried out yet
    done     \* the messages carried out, with their outcomes

Init == inbox = NoStep /\ done = <<>>

Accept(s) ==
    /\ inbox = NoStep
    /\ \A k \in DOMAIN done : done[k].step # s
    /\ inbox' = s /\ UNCHANGED done

Perform(o) ==
    /\ inbox # NoStep
    /\ done' = Append(done, [step |-> inbox, out |-> o])
    /\ inbox' = NoStep

Next == (\E s \in StepID : Accept(s)) \/ (\E o \in Output : Perform(o))

Spec == Init /\ [][Next]_<<inbox, done>>
=============================================================================
