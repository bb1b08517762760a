---------------------------- MODULE MC_DnsHosts ----------------------------
(* A small instance of DnsHosts: two domains, two ips and one string that *)
(* is not an ip; the hosts file may hold a plain entry of d1 and a        *)
(* chaosblade line of d2 left by an earlier experiment.                   *)
EXTENDS DnsHosts, TLC

CONSTANTS e1, e2, d1, d2, i1, i2, bad

MCDomains == {d1, d2}
MCIps == {i1, i2, bad}
MCBase == {[ip |-> i2, dom |-> d1, blade |-> FALSE],
           [ip |-> i1, dom |-> d2, blade |-> TRUE]}
MCTwoExps == {e1, e2}
MCSymmetry == Permutations(MCTwoExps)

=============================================================================
