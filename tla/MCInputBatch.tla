---------------------------- MODULE MCInputBatch ----------------------------
(* InputBatch for TLC: requests with and without min_p and the other optional *)
(* parameters, which change when an id is used again.                         *)
EXTENDS InputBatch

MCMaxInc == [r \in Requests |-> IF r = 1 THEN 2 ELSE 1]
Incs == {<<1, 1>>, <<1, 2>>} \cup {<<r, 1>> : r \in Requests}
MCMinP == [l \in Incs |-> (l[1] + l[2]) % 3]
MCCustom == {l \in Incs : (l[1] + l[2]) % 2 = 0}
=============================================================================
