---------------------------- MODULE MCEnforcement ----------------------------
(* Instances of Enforcement: one terminal behind two firewalls, two terminals *)
(* that share an IP, and two IPs of one MAC.                                   *)
EXTENDS Enforcement

CONSTANTS m1, m2, i1, i2

T(m, i) == [mac |-> m, ip |-> i]
OneTerminal == {T(m1, i1)}
SharedIp == {T(m1, i1), T(m2, i1)}
SharedMac == {T(m1, i1), T(m1, i2)}
=============================================================================
