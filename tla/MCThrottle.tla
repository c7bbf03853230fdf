----------------------------- MODULE MCThrottle -----------------------------
(* Either two web requests whose names share addresses, as names behind    *)
(* one CDN do, or three requests to one provider, one of them of an        *)
(* organization with a throttle of its own.                                *)
EXTENDS Throttle, TLC

CONSTANTS w1, w2, p1, p2, p3, site, org, other, github

MCAsset == [r \in Requests |-> IF r \in Web THEN site ELSE IF r = p1 THEN org ELSE other]
MCProvider == [r \in Requests |-> github]
MCAnswer == [r \in Requests |-> IF r \in Web THEN {1, 2} ELSE {1}]
\* One of the two web requests dials again.
MCMaxDials == [r \in Requests |-> IF r = w1 THEN 2 ELSE 1]
\* Concurrency 2 for an asset and for an address, 1 for GitHub.
MCCap == [l \in Limiters |-> IF l[1] = "provider" THEN 1 ELSE 2]
MCInterval == [l \in Limiters |-> IF l = <<"asset", org>> THEN 2 ELSE 1]

MCSpec == (InitOf({w1, w2}) \/ InitOf({p1, p2, p3})) /\ [][Next]_vars /\ Fairness
=============================================================================
