------------------------------ MODULE MCQuery ------------------------------
(* The heap and the tree together, with blocks of two records and leaves of *)
(* three pairs.                                                             *)
EXTENDS Query

MCKeyRanges == {<<k, k>> : k \in Keys} \cup {<<1, 5>>, <<2, 4>>}
=============================================================================
