---------------------------- MODULE MCNetworkList ----------------------------
(* NetworkList with two names, one of which ends in the other.               *)
EXTENDS NetworkList, TLC

CONSTANTS n1, n2, n3, home, myhome

ThreeIds == {n1, n2, n3}
IdSymmetry == Permutations(ThreeIds)
BothKeys == {"WPA_PSK", "WEP"}

\* "home" is also found in the line of "myhome".
TwoSsids == {home, myhome}
TwoHits  == {<<home, home>>, <<myhome, myhome>>, <<home, myhome>>}

=============================================================================
