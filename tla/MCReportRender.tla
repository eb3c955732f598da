--------------------------- MODULE MCReportRender ---------------------------
(***************************************************************************)
(* ReportRender for two categories of two checks, with every severity and  *)
(* every state of an attestation, and checks that raised with and without  *)
(* leaving findings behind.                                                *)
(***************************************************************************)
EXTENDS ReportRender

F(severity, requires, outcome) == [severity |-> severity, requires |-> requires, outcome |-> outcome]
O(raised, found) == [raised |-> raised, found |-> found]

MCOutcomes ==
    {O(FALSE, <<>>), O(TRUE, <<>>),
     O(FALSE, <<F(2, FALSE, "none"), F(0, FALSE, "none"), F(1, FALSE, "none")>>),
     O(FALSE, <<F(1, TRUE, "rejected"), F(3, TRUE, "confirmed")>>),
     O(FALSE, <<F(4, TRUE, "none")>>),
     O(FALSE, <<F(2, TRUE, "rejected")>>),
     O(TRUE, <<F(3, FALSE, "none")>>)}
=============================================================================
