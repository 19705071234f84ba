------------------------------ MODULE MCWorkDemo ------------------------------
(* Model checking of WorkDemo: two email workers. *)
EXTENDS WorkDemo, TLC

CONSTANTS w1, w2

OneKind == <<"email">>
WorkerKinds == (w1 :> "email") @@ (w2 :> "email")
================================================================================
