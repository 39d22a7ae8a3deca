------------------------- MODULE MCQueryCacheHistory -------------------------
(* Instances of QueryCacheHistory for TLC.                                 *)
EXTENDS QueryCacheHistory, TLC

CONSTANTS k1, posts, users, Post

OneType == [c \in Callers |-> Post]
PrefixByKey == [k \in Keys |-> IF k = k1 THEN posts ELSE users]
ReadsByKey == [k \in Keys |-> {PrefixByKey[k]}]
ReadsJoined == [k \in Keys |-> {posts, users}]

CellSymmetry == Permutations(Cells)

=============================================================================
