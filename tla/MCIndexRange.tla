---------------------------- MODULE MCIndexRange ----------------------------
(* The bounded tool beside one continuous process whose configured start   *)
(* is neither the lowest nor the highest height the tool may ask for.      *)
EXTENDS IndexRange

CONSTANTS w1, e1, e2

MCHashes == 0..(2 * MaxHeight)
\* Two histories that part after height 1.
MCHashAt ==
    [f \in Forks |-> [h \in Heights |->
        IF f = "main" \/ h <= 1 THEN h ELSE MaxHeight + h]]
MCServes == [e \in Endpoints |-> IF e = e1 THEN {"main"} ELSE {"fork"}]
=============================================================================
