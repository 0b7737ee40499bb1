------------------------------ MODULE MCOpsCore ------------------------------
(***************************************************************************)
(* Instances of OpsCore for TLC.  The ladders have the shape of            *)
(* departments/weaving/escalation.yaml, shortened: a question, then a      *)
(* reminder that repeats; one unit of time stands for the gap between two  *)
(* rungs.                                                                  *)
(***************************************************************************)
EXTENDS OpsClaims

MCCodes      == {"electrical", "power_failure", "short_stop"}
MCTicketable == {"electrical"}
MCAuto       == {"power_failure"}

MCUnknown == << [after |-> 1, act |-> "ask_reason", every |-> 0],
                [after |-> 2, act |-> "none", every |-> 1] >>
MCTicket  == << [after |-> 0, act |-> "ask_eta", every |-> 0],
                [after |-> 1, act |-> "none", every |-> 1] >>
MCLadderFor == [code \in MCTicketable |-> MCTicket]

MCFitter == {{"fitter"}}
=============================================================================
