---------------------------- MODULE MCGitHubFlow ----------------------------
(***************************************************************************)
(* GitHubFlow under every policy a user may choose.                        *)
(***************************************************************************)
EXTENDS GitHubFlowProperties

AllPolicies == [collect : BOOLEAN, wait : BOOLEAN, merge : BOOLEAN]
=============================================================================
