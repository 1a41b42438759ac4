------------------------------ MODULE MCSeedRun ------------------------------
(* Small instances of SeedRun: a league of two teams that collide on an    *)
(* alias, and a league of one.                                             *)
EXTENDS SeedRun, TLC

CONSTANTS a1, a2, b1, s1, s2

TwoLeagues == "a" :> {a1, a2} @@ "b" :> {b1}
Names == a1 :> {"one", "shared"} @@ a2 :> {"two", "shared"} @@ b1 :> {"only"}
WiderRun == s1 :> <<"a">> @@ s2 :> <<"a", "b">>
SomeKeys == {<<"a", "dark">>}
=============================================================================
