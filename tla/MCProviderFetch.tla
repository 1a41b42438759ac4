--------------------------- MODULE MCProviderFetch ---------------------------
(* A small instance of ProviderFetch: an umbrella of two levels, one team  *)
(* in both, and the rookie level.                                          *)
EXTENDS ProviderFetch

MCLevelsOf == [milb |-> <<"aaa", "aa">>, rookie |-> <<"rookie">>]
MCListed == [aaa |-> {"a1", "a2"}, aa |-> {"b1", "b2", "b3"}, rookie |-> {"r1", "r2", "r3", "r4"}]
MCSlugOf == [a1 |-> "x", a2 |-> "y", b1 |-> "x", b2 |-> "x", b3 |-> "y",
             r1 |-> "x", r2 |-> "x", r3 |-> "x", r4 |-> "y"]

(* Tags as documented for derive_variant_key, also a dark logo and a       *)
(* default one with a further tag; up to three logos a list.               *)
Rels == {{"full"} \cup tags : tags \in
            {{}, {"default"}, {"dark"}, {"scoreboard"}, {"scoreboard", "dark"},
             {"default", "grayscale"}, {"dark", "grayscale"}}}
MCLogoLists == UNION {[1..n -> [rel : Rels, href : {"u1", "u2"}]] : n \in 0..3}
=============================================================================
