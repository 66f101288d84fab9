----------------------------- MODULE MCAgentTurn -----------------------------
(***************************************************************************)
(* AgentTurn on a small instance: three iterations, one or two tool calls  *)
(* in a completion, and a token cap that one or two completions reach.     *)
(***************************************************************************)
EXTENDS AgentTurn

\* Tokens of a completion: none when usage is missing from the response, a
\* few, or enough to reach the cap alone.
MCTokenUsage == {0, 1, 3}

\* Word counts under and over the cap.
MCWordCounts == {1, 3}
=============================================================================
