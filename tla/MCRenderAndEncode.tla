------------------------- MODULE MCRenderAndEncode -------------------------
(* Small instances of RenderAndEncode.  All variety is on the away side;   *)
(* the home side goes through the same code after it.                      *)
EXTENDS RenderAndEncode, TLC

Row(primary, secondary, variants, hasUrl) ==
    [primary |-> primary, secondary |-> secondary,
     variants |-> variants, hasUrl |-> hasUrl]

(* Dark, middling and light colours, colourless teams, and teams with no   *)
(* variant, with the white one and with the one for the primary colour.    *)
AwayRows ==
    {Row(p, s, v, TRUE) : p \in {NullColor, 2, 6}, s \in {NullColor, 20},
                          v \in {{}, {Dark}, {OnPrimary}}}
    \cup {Row(2, 20, {}, FALSE)}
HomeRow == Row(0, 20, {}, FALSE)
TwoRosters == "away" :> AwayRows @@ "home" :> {HomeRow}
=============================================================================
