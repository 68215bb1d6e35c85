------------------------------ MODULE MCSearch ------------------------------
(***************************************************************************)
(* A results page of three rows, the second with two children; a filter    *)
(* with that page, and one with a page for another character only; texts   *)
(* with and without a space inside.                                        *)
(***************************************************************************)
EXTENDS SearchBox

MCLabel   == <<"L">>
MCTexts   == {<<>>, MCLabel, <<"a", "b">>, <<"a", " ", "b">>}
MCContent == 0 :> <<"a">> @@ 1 :> <<"c">>
MCEscape  == " " :> <<"_", "2", "0">>
MCEntries == <<0, 0>> :> <<[id |-> <<"a">>, kids |-> 0], [id |-> <<"a", "b">>, kids |-> 2],
                           [id |-> <<"a", "b", "c">>, kids |-> 0]>>
             @@ <<1, 0>> :> <<[id |-> <<"c">>, kids |-> 0]>>
=============================================================================
