------------------------------ MODULE MCPaging ------------------------------
(* Instances of Paging for TLC.                                            *)
EXTENDS Paging

\* three rows, their second column in the opposite order: a page of one row
\* leaves a first, a middle and a last page
MCRank == [r \in Ids |-> 4 - r]

\* the largest page leaves no room for one row more in a u32
Sizes == {0, 1, 2, MaxU32}

\* every terminal on every query; the column matters to cursors only, and the
\* brackets around the user's conditions to them only
EveryJob ==
    {j \in [api : {"chunk", "paginate", "simple", "cursor"},
            layer : {"model", "select"}, col : Columns,
            base : {"plain", "ordered", "limited", "either"},
            size : Sizes, page : {0, 1, 2}, debug : BOOLEAN] :
        /\ j.api = "chunk" => j.layer = "model" /\ j.size # MaxU32
        /\ j.api # "cursor" => j.col = "id" /\ j.base # "either"
        /\ j.api \in {"chunk", "cursor"} => j.page = 1
        /\ j.debug => j.page = 0 \/ j.size \in {0, MaxU32}}

=============================================================================
