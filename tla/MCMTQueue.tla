------------------------------ MODULE MCMTQueue ------------------------------
(* Constants for model checking MTQueue. *)
EXTENDS MTQueue

CONSTANTS p1, p2, c1, c2, x

TwoProducers == {p1, p2}
TwoConsumers == {c1, c2}
OneItem == {x}
=============================================================================
