--------------------------------- MODULE MCTui ---------------------------------
(* Model checking of Tui: two streams, which NATS lists by name; a may be deleted and b may *)
(* be the only one. *)
EXTENDS Tui, TLC

CONSTANTS a, b

TwoStreams == {<<>>, <<b>>, <<a, b>>}
================================================================================
