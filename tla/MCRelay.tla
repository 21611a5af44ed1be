------------------------------ MODULE MCRelay ------------------------------
\* Two agents, the owner among them: enough for a call, a call back into the
\* owner, a progress report between them and a second client message.
EXTENDS Relay

CONSTANTS a, b, x, client, none
TwoAgents == {a, b}
AllIDs == {a, b, x}

\* The templates: agents as they should be, one that another container and an
\* id override define, one that has lost its card, one that has a port or a
\* policy that does not parse, one that is no agent, and one with an id that is
\* not valid.
Good == [agent |-> TRUE, id |-> none, card |-> "ok", port |-> "unset", policy |-> "ok"]
Of(name, env) == [name |-> name, containers |-> <<env>>]
Second == [name |-> none,
           containers |-> <<[Good EXCEPT !.agent = FALSE], [Good EXCEPT !.id = b]>>]
MCListings ==
    {<<Of(a, Good), Of(b, Good)>>,
     <<Of(b, [Good EXCEPT !.card = "unset"]), Of(a, Good), Second>>,
     <<Of(a, Good), Of(a, [Good EXCEPT !.port = "bad"]), Of(b, [Good EXCEPT !.card = "bad"])>>,
     <<Of(a, [Good EXCEPT !.policy = "bad"]), Of(b, Good), Of(none, Good)>>,
     <<Of(a, Good), Of(b, Good), Of(x, Good)>>,
     <<Of(b, [Good EXCEPT !.agent = FALSE])>>}
=============================================================================
