---------------------------- MODULE MCBreakpoints ----------------------------
(* Constants for model checking Breakpoints. *)
EXTENDS Breakpoints

OneModule == {"parser"}
OnePacket == {1}
OneDelay == {2}

(* A text has every second time, the others are rounded up and down in     *)
(* turn; a float has every third, the others are rounded to the nearest.   *)
SixDecimals(t) ==
  <<"%f", IF t % 4 = 1 THEN t + 1 ELSE IF t % 4 = 3 THEN t - 1 ELSE t>>
NearestFloat(text) == 3 * ((text[2] + 1) \div 3)

(* a packet anywhere, the same packet entering the parser, a time          *)
SomeConditions ==
  {[PKT |-> 1], [PKT |-> 1, READ |-> "parser"], [TIME |-> SixDecimals(2)]}
=============================================================================
