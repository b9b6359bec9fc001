---------------------------- MODULE MCGovernance ----------------------------
(* Two proposals: 1 is there from the first height on, 2 appears later.    *)
EXTENDS Governance, TLC

CONSTANTS main, fork, unclear, u1, u2, e1, e2

R(list, detail, content) == [list |-> list, detail |-> detail, same |-> TRUE, content |-> content]
Gone == [list |-> Absent, detail |-> "UNKNOWN", same |-> TRUE, content |-> "c1"]

(* main: terminal renders no longer change; a detail is not recognised.    *)
(* fork: another decision, with large renders that shrink later.           *)
(* unclear: 1 is not decided, and list and detail of 2 do not match.       *)
MCRenders ==
    main :> << <<R("ACTIVE", "ACTIVE", "c1"), Gone>>,
               <<R("ACCEPTED", "ACCEPTED", "c2"), Gone>>,
               <<R("ACCEPTED", "ACCEPTED", "c2"), R("ACTIVE", "UNKNOWN", "c2")>> >>
    @@ fork :> << <<R("ACTIVE", "ACTIVE", "c1"), Gone>>,
                  <<R("REJECTED", "REJECTED", "c3"), Gone>>,
                  <<R("REJECTED", "REJECTED", "c2"), R("ACTIVE", "ACTIVE", "c1")>> >>
    @@ unclear :> << <<R("ACTIVE", "ACTIVE", "c1"), R("UNKNOWN", "ACTIVE", "c1")>>,
                     <<R("ACTIVE", "ACTIVE", "c1"), R("UNKNOWN", "ACTIVE", "c2")>>,
                     <<R("ACTIVE", "ACTIVE", "c2"), R("ACTIVE", "REJECTED", "c1")>> >>

\* e1 is the reliable endpoint.
MCServices ==
    {e1 :> main @@ e2 :> main, e1 :> main @@ e2 :> fork, e1 :> main @@ e2 :> unclear,
     e1 :> fork @@ e2 :> fork, e1 :> unclear @@ e2 :> unclear}

MCUpdaterSymmetry == Permutations({u1, u2})

MCRawBytes == "c1" :> 1 @@ "c2" :> 2 @@ "c3" :> 5
=============================================================================
