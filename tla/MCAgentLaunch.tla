---------------------------- MODULE MCAgentLaunch ----------------------------
(***************************************************************************)
(* Two requests at a time on the drafts of one owner.                      *)
(***************************************************************************)
EXTENDS AgentLaunch, TLC
Sym == Permutations(Requests) \cup Permutations(Keys)
    \cup Permutations(DraftIds) \cup Permutations(Handles)
=============================================================================
