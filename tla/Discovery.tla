----------------------------- MODULE Discovery -----------------------------
(***************************************************************************)
(* Agent discovery (cmd/checkpointd/discovery.go): which agents a listing of *)
(* ActorTemplates makes known, and how one pass of the discovery loop        *)
(* replaces the harness registry and then the agent cards, in two steps that *)
(* a request may fall between.                                              *)
(*                                                                         *)
(* A template's environment is abstracted to what discovery tells apart: an  *)
(* optional variable is "unset", "ok" or "bad".  A harness and its card are  *)
(* always of the same template, so both maps are represented by their keys.  *)
(***************************************************************************)
EXTENDS Sequences, SequencesExt

CONSTANTS
    ID,         \* agent ids and template names
    ValidIDs,   \* those that match validIDRegex
    NoID        \* the empty string

ASSUME IDAssumption == ValidIDs \subseteq ID /\ NoID \notin ID

Setting == {"unset", "ok", "bad"}
ContainerEnv == [agent : BOOLEAN, id : ID \cup {NoID}, card : Setting, port : Setting,
                 policy : Setting]
Template == [name : ID \cup {NoID}, containers : Seq(ContainerEnv)]

\* The containers that set CHECKPOINTD_AGENT to "true": the first one counts.
checkpointdAgentEnvVars(t) == SelectSeq(t.containers, LAMBDA env : env.agent)

AgentID(t, env) == IF env.id # NoID THEN env.id ELSE t.name

\* The card is required and neither JSON nor YAML is an error.
parseAgentCardEnv(env) == env.card = "ok"
HarnessPort(env) == env.port # "bad"
ParseEgressPolicy(env) == env.policy # "bad"

\* The ids found so far, and the next template: a template that is no agent,
\* has no id, repeats one that was found, or is malformed is skipped.
Discover(found, t) ==
    LET envs == checkpointdAgentEnvVars(t)
        id == AgentID(t, envs[1])
    IN  IF /\ envs # <<>>
           /\ id # NoID
           /\ id \notin found
           /\ parseAgentCardEnv(envs[1]) /\ HarnessPort(envs[1]) /\ ParseEgressPolicy(envs[1])
        THEN found \cup {id} ELSE found

agentsFromTemplates(templates) == FoldLeft(Discover, {}, templates)

\* Registry.Replace: one invalid id refuses the whole set.
validateID(id) == id \in ValidIDs
Replaceable(ids) == \A id \in ids : validateID(id)

=============================================================================
