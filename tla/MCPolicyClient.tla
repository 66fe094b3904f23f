---------------------------- MODULE MCPolicyClient ----------------------------
(***************************************************************************)
(* Instances of PolicyClient for TLC: an operator who turns the            *)
(* kill-switch on and off again.                                           *)
(***************************************************************************)
EXTENDS PolicyClient

Policy(version, kill) ==
    [version |-> version, kill |-> kill, sessionBudget |-> Unlimited,
     orgBudget |-> Unlimited, orgSpend |-> 0, velocity |-> Unlimited,
     patterns |-> {}]

OnAndOff == {Policy(1, FALSE), Policy(2, TRUE), Policy(3, FALSE)}
OneThree == <<1, 3>>
=============================================================================
