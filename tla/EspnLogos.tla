----------------------------- MODULE EspnLogos -----------------------------
(***************************************************************************)
(* How espn/client.py and providers/espn.py choose among the logos that    *)
(* ESPN lists for a team or a league, and how assets/loader.py chooses     *)
(* again when the logo that the seed run stored has expired.               *)
(*                                                                         *)
(* A logo is [rel, href]: the set of its tags and its URL.  The sorted     *)
(* tags that derive_variant_key joins to a key are kept as a set.          *)
(***************************************************************************)
EXTENDS Naturals, Sequences

CONSTANT NoUrl

DerivedKey(rel) == IF rel \subseteq {"full"} THEN {"default"} ELSE rel \ {"full"}
Default == DerivedKey({"full", "default"})
Dark == DerivedKey({"full", "dark"})

IsPrimary(rel) == "default" \in rel /\ rel \cap {"dark", "scoreboard"} = {}
IsDark(rel) == "dark" \in rel /\ "scoreboard" \notin rel

(* The first logo listed at one of the given positions.                    *)
FirstHref(logos, fitting) ==
    IF fitting = {} THEN NoUrl
    ELSE logos[CHOOSE i \in fitting : \A j \in fitting : i <= j].href

FirstPrimary(logos) == FirstHref(logos, {i \in DOMAIN logos : IsPrimary(logos[i].rel)})
FirstDark(logos) == FirstHref(logos, {i \in DOMAIN logos : IsDark(logos[i].rel)})
FirstAny(logos) == FirstHref(logos, DOMAIN logos)

FirstUrl(urls) == IF \E i \in DOMAIN urls : urls[i] # NoUrl
                  THEN urls[CHOOSE i \in DOMAIN urls :
                              /\ urls[i] # NoUrl
                              /\ \A j \in 1..(i - 1) : urls[j] = NoUrl]
                  ELSE NoUrl

(* Mutant: the dark logo before the primary one.                           *)
SelectDarkFirst(logos) ==
    FirstUrl(<<FirstDark(logos), FirstPrimary(logos), FirstAny(logos)>>)

SelectLogoUrl(logos) ==
    FirstUrl(<<FirstPrimary(logos), FirstDark(logos), FirstAny(logos)>>)

(* The last logo of a key wins.                                            *)
LogoVariants(logos) ==
    [key \in {DerivedKey(logos[i].rel) : i \in DOMAIN logos} |->
       logos[CHOOSE i \in DOMAIN logos :
               /\ DerivedKey(logos[i].rel) = key
               /\ \A j \in DOMAIN logos : DerivedKey(logos[j].rel) = key => j <= i].href]

HasUsableLeagueLogo(variants) ==
    \E k, l \in DOMAIN variants : variants[k] # variants[l]

(* _load_one_logo: the wanted variant, dark, default, the team's logo_url. *)
LoaderUrl(variants, logoUrl, wanted) ==
    LET Variant(key) == IF key \in DOMAIN variants THEN variants[key] ELSE NoUrl
    IN  FirstUrl(<<Variant(wanted), Variant(Dark), Variant(Default), logoUrl>>)

(* No two logos of one key, no two dark ones (one with further tags has a  *)
(* key of its own), and no logo that only one of the two choices takes for *)
(* the default one: a bare "full", a "default" with other tags.            *)
Unambiguous(logos) ==
    /\ \A i, j \in DOMAIN logos :
          i # j => /\ DerivedKey(logos[i].rel) # DerivedKey(logos[j].rel)
                   /\ ~(IsDark(logos[i].rel) /\ IsDark(logos[j].rel))
    /\ \A i \in DOMAIN logos :
          IsPrimary(logos[i].rel) <=> DerivedKey(logos[i].rel) = Default
=============================================================================
