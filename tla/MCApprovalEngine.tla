--------------------------- MODULE MCApprovalEngine ---------------------------
(* Instances of ApprovalEngine. *)
EXTENDS ApprovalEngine

Cond(r, c) == [required |-> r, checker |-> c]

\* A gated workflow with two approvals, and one that needs a single approval.
TwoApprovals == [window |-> TRUE, roles |-> {"lead"},
                 conditions |-> <<Cond(TRUE, TRUE), Cond(FALSE, TRUE)>>,
                 required |-> 2]
OneApproval == [TwoApprovals EXCEPT !.window = FALSE, !.required = 1,
                                    !.conditions = <<Cond(TRUE, FALSE)>>]
NoApproval == [TwoApprovals EXCEPT !.required = 0]

MCDefinitions == {TwoApprovals, OneApproval, NoApproval}
MCOneDefinition == {OneApproval}
=============================================================================
