--------------------------- MODULE ProposalStatus ---------------------------
(* The statuses of a governance proposal, and how they may change.         *)

Absent == "ABSENT"      \* no row
Statuses == {"ACTIVE", "ACCEPTED", "REJECTED", "UNKNOWN"}
Terminal == {"ACCEPTED", "REJECTED"}

\* Mutant: a decided proposal may be open again.
TransitionsReopening(s) ==
    CASE s = "ACTIVE" -> Terminal
      [] s = "UNKNOWN" -> Terminal \cup {"ACTIVE"}
      [] OTHER -> {"ACTIVE"}

\* _TRANSITIONS: no way out of a terminal status, none back to UNKNOWN.
Transitions(s) ==
    CASE s = "ACTIVE" -> Terminal
      [] s = "UNKNOWN" -> Terminal \cup {"ACTIVE"}
      [] OTHER -> {}

\* A row may be new, keep its status, or make a transition.
MayBecome(old, new) == old = Absent \/ new = old \/ new \in Transitions(old)
=============================================================================
