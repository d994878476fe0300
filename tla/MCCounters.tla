----------------------------- MODULE MCCounters ------------------------------
(* Constants for model checking Counters. *)
EXTENDS Counters

OneModule == {"parser"}
TwoModules == {"parser", "editor"}
OneName == {"drops"}
TwoNames == {"drops", "hits"}
ZeroOne == {0, 1}
EditInWalk == {"edit in walk"}
EarlyReAdd == {"early re-add"}
=============================================================================
