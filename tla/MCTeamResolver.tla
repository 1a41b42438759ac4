--------------------------- MODULE MCTeamResolver ---------------------------
(* Small instances of TeamResolver.                                        *)
EXTENDS TeamResolver, TLC

(* Both leagues come to know "jay": mlb at first only by the similar       *)
(* "jays", then by an alias of a second upsert of the same team, and milb  *)
(* by an alias of its own.  xfl is no league of this release.              *)
TwoLeagues == [t \in Teams |-> IF t = 2 THEN "milb" ELSE "mlb"]
JaysAliases == 1 :> <<{"jays"}, {"jays", "jay"}>> @@ 2 :> <<{"jay"}>>
JayCalls == {<<"mlb", "jay">>, <<"milb", "jay">>, <<"xfl", "jay">>, <<"mlb", Overlong>>}
CloseScore == [p \in Norms \X Norms |-> IF p[1] = p[2] THEN 20 ELSE 13]
=============================================================================
