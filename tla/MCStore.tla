------------------------------- MODULE MCStore -------------------------------
(***************************************************************************)
(* Store on names of two labels a and b, lower- and upper-case.            *)
(***************************************************************************)
EXTENDS Store

MCLabel    == {"", "a", "A", "b", "-"}
MCLower    == [l \in MCLabel |-> IF l = "A" THEN "a" ELSE l]
MCReserved == <<"b", "b", "b">>
MCRawName  == {<<"a", "b">>, <<"A", "b", "">>, <<"b", "a", "b">>, <<"b", "a">>,
               <<"a", "", "b">>}
MCContent  == {{<<<<"b", "a">>>>}, {<<<<"a", "-">>>>}}
=============================================================================
