---------------------------- MODULE ContrastCases ----------------------------
(***************************************************************************)
(* decide_contrast put to every input of a finite set: one step per case.  *)
(***************************************************************************)
EXTENDS Contrast

CONSTANTS
    Luminances,   \* of team colours and of the default logo
    VariantSets   \* the sets of variants a team may advertise

VARIABLES
    case,     \* the input
    chosen    \* what decide_contrast made of it, or NoVariant before

caseVars == <<case, chosen>>

CaseInit ==
    /\ case \in [primary : Luminances, secondary : Luminances, repr : Luminances,
                 variants : VariantSets]
    /\ chosen = NoVariant

DecideCase ==
    /\ chosen = NoVariant
    /\ chosen' = decide_contrast(case.primary, case.secondary, case.repr, case.variants)
    /\ UNCHANGED case

CaseNext == DecideCase
CaseSpec == CaseInit /\ [][CaseNext]_caseVars

-----------------------------------------------------------------------------
Decided == chosen # NoVariant

(* The reference: of the (logo, background) pairs in order of preference,  *)
(* the first that clears the bar.                                          *)
Pairs ==
    {[rank |-> 1, logo |-> case.repr, source |-> "primary"],
     [rank |-> 3, logo |-> case.repr, source |-> "secondary"]}
    \cup (IF Dark \in case.variants
          THEN {[rank |-> 2, logo |-> White, source |-> "primary"]} ELSE {})
RatioOf(pair) == contrast_ratio(pair.logo, case[pair.source])
Legible == {pair \in Pairs : Threshold * RatioOf(pair).den <= RatioOf(pair).num}

(* decide_contrast takes the first legible pair and asks for no treatment; *)
(* when no pair is legible it takes the better of the two backgrounds and  *)
(* never lets the clash pass without an outline (CTR-03, CTR-04, D-11).    *)
(* A ratio on the threshold is legible, and of two backgrounds with equal  *)
(* ratios the primary colour is taken.  In either case the white variant   *)
(* is recommended for a dark background only (the "white-on-white" bug of  *)
(* v1.2.1).                                                                *)
ChoosesFirstLegible ==
    Decided =>
        /\ chosen.variant = Dark => chosen.background < Light
        /\ IF Legible # {}
           THEN \E first \in Legible :
                   /\ \A pair \in Legible : first.rank <= pair.rank
                   /\ chosen.treatment = "none"
                   /\ chosen.background = case[first.source]
                   /\ chosen.achieved = RatioOf(first)
           ELSE /\ chosen.treatment = "outline"
                /\ chosen.background = case[chosen.source]
                /\ \A source \in {"primary", "secondary"} :
                      AtMost(contrast_ratio(case.repr, case[source]), chosen.achieved)
                /\ chosen.source = "secondary" =>
                      ~AtMost(chosen.achieved, contrast_ratio(case.repr, case.primary))
=============================================================================
