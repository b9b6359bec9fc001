---------------------------- MODULE MCRealmIndex ----------------------------
(* Two paths: a is called in every block, b only in the second; the        *)
(* catalog's second snapshot loses b.                                      *)
EXTENDS RealmIndex

CONSTANTS a, b

MCPaths == <<a, b>>
MCCallsAt == [h \in 1..MaxHeight |->
                [p \in {a, b} |-> IF p = a THEN 1 ELSE IF h = 2 THEN 2 ELSE 0]]
MCVisibleAt == [h \in 1..2 |-> IF h = 2 THEN {a} ELSE {a, b}]
=============================================================================
