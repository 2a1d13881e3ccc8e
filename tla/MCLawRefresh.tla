---------------------------- MODULE MCLawRefresh ----------------------------
(* A small instance of LawRefresh for TLC: two sections and four pages.  The *)
(* second page amends one section and moves the other, the third repeals     *)
(* that one, the fourth has no sections, such as a maintenance notice.       *)
EXTENDS LawRefresh

CONSTANTS s1, s2, p1, p2, p3, p4, old, new, here, there

Published ==
  [p \in Pages |->
    [s \in Sections |->
      CASE p = p1 -> old
        [] p = p2 -> IF s = s1 THEN new ELSE old
        [] p = p3 -> IF s = s1 THEN old ELSE None
        [] p = p4 -> None]]

Standing == [p \in Pages |-> [s \in Sections |-> IF p = p2 /\ s = s2 THEN there ELSE here]]
=============================================================================
