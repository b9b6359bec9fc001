------------------------- MODULE GovernanceSnapshot -------------------------
(***************************************************************************)
(* What the stored governance snapshot promises its readers, whoever       *)
(* writes it and whatever the endpoints answer: each publication has a     *)
(* greater source height than the one before, keeps every proposal, and    *)
(* changes a status only along _TRANSITIONS, so that ACCEPTED and REJECTED *)
(* are final.  At one height a published snapshot never changes.           *)
(***************************************************************************)
EXTENDS Naturals, ProposalStatus

CONSTANTS Proposals, MaxHeight

VARIABLES
    height,     \* governance_sync_state.source_height, 0 without a row
    status      \* proposal -> governance_proposals.status

vars == <<height, status>>

Init ==
    /\ height = 0
    /\ status = [p \in Proposals |-> Absent]

Publish ==
    /\ height' \in (height + 1)..MaxHeight
    /\ status' \in [Proposals -> Statuses \cup {Absent}]
    /\ \A p \in Proposals : MayBecome(status[p], status'[p])

Spec == Init /\ [][Publish]_vars
=============================================================================
