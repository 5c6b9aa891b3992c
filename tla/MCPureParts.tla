------------------------------ MODULE MCPureParts ------------------------------
(***************************************************************************)
(* PureParts on names of up to three of five labels.                       *)
(***************************************************************************)
EXTENDS PureParts

MCLabel    == {"", "a", "A", "b", "-x"}
MCLower    == [l \in MCLabel |-> IF l = "A" THEN "a" ELSE l]
MCIP       == {<<"b", "b">>}
MCLong     == {<<"b", "b", "a">>}
MCLocal    == {<<"b", "a", "a">>}
MCReserved == <<"a", "b">>

Spelled == UNION {[1..n -> MCLabel] : n \in 1..3}
(* Everything that may be asked, and two words with an empty inner label. *)
MCWord  == {n \in Spelled : \A i \in 1..Len(n) - 1 : n[i] # ""}
             \cup {<<"a", "", "b">>, <<"a", "", "">>}
MCLine  == {<<w, <<"a", "a">>>> : w \in {<<"b", "b">>, <<"b", "a">>, <<"a">>}} \cup {LongLine}
MCRuled == {<<"a", "b">>, <<"a", "a", "b">>, <<"b", "a">>}
MCAsked == {<<"a", "b">>, <<"A", "a", "b">>, <<"b", "a", "">>, <<"a", "a">>, <<"b">>}

MCBucket == [time : {0, 2, 4, 6, 8, 10, 12}, total : 1..2, blocked : 0..1]
=============================================================================
