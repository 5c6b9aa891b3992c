---------------------------- MODULE MCListRefresh ----------------------------
(***************************************************************************)
(* ListRefresh with list files that are good, undersized or cut off by a   *)
(* line too long to be read, and a rule on a name that lists hold.         *)
(***************************************************************************)
EXTENDS ListRefresh

MCLabel    == {"", "a", "b", "-"}
MCLower    == [l \in MCLabel |-> l]
MCReserved == <<"b", "b", "b">>
Good1  == {<< <<"a", "a">> >>, << <<"a", "b">> >>}
Good2  == {<< <<"a", "a">>, <<"b", "a">> >>}
Small  == {<< <<"b", "b">> >>}
Broken == {<< <<"a", "a">> >>, << <<"a", "b">> >>, LongLine}
MCRawName == {<<"a", "a">>}
MCContent == {Good1, Good2, Small, Broken}
=============================================================================
