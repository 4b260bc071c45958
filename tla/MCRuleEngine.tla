---------------------------- MODULE MCRuleEngine ----------------------------
(***************************************************************************)
(* Small instances of RuleEngine.                                          *)
(***************************************************************************)
EXTENDS RuleEngine

CONSTANTS a1, a2
=============================================================================
