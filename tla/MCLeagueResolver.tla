-------------------------- MODULE MCLeagueResolver --------------------------
(* Small instances of LeagueResolver.  Leagues: 3 is milb-a, 7 milb-aaa,   *)
(* 9 a league no provider of this release knows.                           *)
EXTENDS LeagueResolver, TLC

(* "aaaa" resolves to milb-aaa by its similarity to the alias "aaa" until  *)
(* it becomes an alias of the unknown league; "milb-a" spells the slug of  *)
(* league 3 and shares its normal form with "milba".                       *)
MixedInputs == {"aaaa", "milb-a", "milba", "overlong"}
MixedNorm == [i \in MixedInputs |-> IF i = "aaaa" THEN "aaaa" ELSE "milba"]
MixedSlug == [i \in MixedInputs |-> IF i = "milb-a" THEN 3 ELSE None]
MixedAliases == 3 :> {} @@ 7 :> {"aaa"} @@ 9 :> {"aaaa"}
MixedNorms == {"aaa", "aaaa", "milba"}
MixedScore ==
    [p \in MixedNorms \X MixedNorms |->
        IF p[1] = p[2] THEN 20 ELSE IF "milba" \in {p[1], p[2]} THEN 2 ELSE 15]

(* The canonical slug, its spelling without the hyphen, and an alias.      *)
HyphenInputs == {"milb-a", "milba", "singlea"}
HyphenNorm == "milb-a" :> "milba" @@ "milba" :> "milba" @@ "singlea" :> "singlea"
HyphenSlug == "milb-a" :> 3 @@ "milba" :> None @@ "singlea" :> None
HyphenAliases == 3 :> {"singlea"} @@ 7 :> {} @@ 9 :> {}
HyphenNorms == {"milba", "singlea"}
HyphenScore == [p \in HyphenNorms \X HyphenNorms |-> IF p[1] = p[2] THEN 20 ELSE 3]
=============================================================================
