------------------------------ MODULE MCNavTree ------------------------------
(***************************************************************************)
(* A tree with a main page H, a page C whose item comes with one script    *)
(* and its member x with another, and a member x of H, too, which is in    *)
(* the second index, next to an anchor z that no index lists.  As in       *)
(* navtreeindex1.js, one way, that of the page B, leads to no item.        *)
(***************************************************************************)
EXTENDS NavTree, TLC

MCNode == {<<>>, <<0>>, <<0, 0>>, <<0, 0, 0>>, <<0, 0, 0, 0>>, <<0, 1>>}
MCLazy == {<<0, 0>>, <<0, 0, 0>>}
To(p, a) == [page |-> p, anchor |-> a]
MCAnchor == ("H" :> {"x", "z"} @@ "B" :> {} @@ "C" :> {"x"})
MCLink == (<<>> :> NoUrl @@ <<0>> :> To("H", NoAnchor) @@ <<0, 0>> :> NoUrl
           @@ <<0, 0, 0>> :> To("C", NoAnchor) @@ <<0, 0, 0, 0>> :> To("C", "x")
           @@ <<0, 1>> :> To("H", "x"))
MCIndex == (0 :> (To("C", NoAnchor) :> <<0, 0>> @@ To("C", "x") :> <<0, 0, 0>>)
            @@ 1 :> (To("H", NoAnchor) :> <<>> @@ To("H", "x") :> <<1>>
                     @@ To("B", NoAnchor) :> <<1, 0>>))
MCPart == [u \in Url |-> IF u.page = "C" THEN 0 ELSE 1]
=============================================================================
