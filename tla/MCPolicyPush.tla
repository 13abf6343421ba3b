---------------------------- MODULE MCPolicyPush ----------------------------
(* Two revisions that share an artifact, one whose second lock has no      *)
(* identifier and one that does not parse. Two good pushes compete for the *)
(* same group, and the first is repeated if it fails; a third push lacks   *)
(* an identifier, a fourth a cookbook, and the fifth is of the malformed   *)
(* lock.                                                                   *)
EXTENDS PolicyPush, TLC

CONSTANTS app, base, i1, i2, r1, r2, bad, junk, prod, p1, p2, p3, p4, p5

MCNames == {app, base}
MCIdentifiers == {i1, i2}
MCRevisions == {r1, r2, bad, junk}
L(n, i) == [name |-> n, identifier |-> i]
MCLocksOf == r1 :> <<L(app, i1), L(base, i2)>> @@ r2 :> <<L(base, i2)>>
             @@ bad :> <<L(app, i1), L(base, NoIdentifier)>> @@ junk :> <<>>
MCPushes == {p1, p2, p3, p4, p5}
MCRevisionOf == p1 :> r1 @@ p2 :> r2 @@ p3 :> bad @@ p4 :> r1 @@ p5 :> junk
MCGroupOf == [p \in MCPushes |-> prod]
MCSupplied == [p \in MCPushes |-> IF p = p4 THEN {base} ELSE {app, base}]
MCMaxCalls == [p \in MCPushes |-> IF p = p1 THEN 2 ELSE 1]
=============================================================================
