---------------------------- MODULE MCQueryCache ----------------------------
(* Instances of QueryCache for TLC.                                        *)
EXTENDS QueryCache, TLC

CONSTANTS c1, k1, posts, users, Post, Row

OneType == [c \in Callers |-> Post]
\* c1 asks for rows of another type than the other callers
TwoTypes == [c \in Callers |-> IF c = c1 THEN Row ELSE Post]

\* every key selects from posts; it reads posts only, or joins users
PrefixPosts == [k \in Keys |-> posts]
ReadsPosts == [k \in Keys |-> {posts}]
ReadsJoined == [k \in Keys |-> {posts, users}]

\* k1 selects from posts, every other key from users
PrefixByKey == [k \in Keys |-> IF k = k1 THEN posts ELSE users]
ReadsByKey == [k \in Keys |-> {PrefixByKey[k]}]

CellSymmetry == Permutations(Cells)

=============================================================================
