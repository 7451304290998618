------------------------------ MODULE RuleBook ------------------------------
(***************************************************************************)
(* The rules of a bar, under the one name by which the three engines that  *)
(* apply them call them.                                                   *)
(***************************************************************************)
Rules == INSTANCE BarRules
=============================================================================
