--------------------------- MODULE MCSimpleQueueDemo ---------------------------
(* The messages of the program as it is written, their texts shortened: publisher 1, 2 and 3
   (main.go:172) send as many events as their number says. *)
EXTENDS SimpleQueueDemo, TLC

ProgramBatch ==
    [p \in Sender |-> IF p = logger THEN <<"started", "ready">>
                      ELSE IF p = jobber THEN <<"order">>
                      ELSE [k \in 1..p |-> ToString(p) \o "." \o ToString(k)]]
================================================================================
