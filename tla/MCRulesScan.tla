---------------------------- MODULE MCRulesScan ----------------------------
(* A directive of two letters, spelled with capitals in the texts.         *)
EXTENDS RulesScan

MCLetters == {"A"}
MCLower == [l \in MCLetters |-> "a"]
MCUnsupported == {<<"a", "a">>}
=============================================================================
