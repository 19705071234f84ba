------------------------------ MODULE MCGodisStore -----------------------------
(* Model checking of GodisStore: arguments that a cfg cannot write. *)
EXTENDS GodisStore

SecondsInRange == {-1, 1, 2}
\* Five seconds are ten half-second ticks, more than a Duration of seven ticks holds.
SecondsTooMany == {1, 5}
DurationArguments == {-1, 0, 3}
================================================================================
