------------------------- MODULE MCComplianceDecision -------------------------
(* Instances of ComplianceDecision: a MAC with one address, and with two.    *)
EXTENDS ComplianceDecision

CONSTANTS m1

OneAddress == {[ip |-> 1, mac |-> m1]}
TwoAddresses == {[ip |-> 1, mac |-> m1], [ip |-> 2, mac |-> m1]}

=============================================================================
