-------------------------- MODULE MCRenderPipeline --------------------------
(* Small instances of RenderPipeline.                                      *)
EXTENDS RenderPipeline, TLC

CONSTANTS r1, r2, r3, r4, w1, w2, w3, m

OneMatchup == [r \in Requests |-> m]

(* A crowd: requests for one picture, on two workers of one version; three *)
(* let a late holder, its successor and a waiter meet.                     *)
CrowdWorkerOf == [r \in Requests |-> IF r = r1 THEN w1 ELSE w2]
OneVersion == [w \in Workers |-> 5]
CacheOn == [w \in Workers |-> TRUE]

(* A redeploy: w1 still runs render version 5 beside w2 and its version 6; *)
(* w3 has the render cache switched off.                                   *)
RedeployWorkerOf == r1 :> w1 @@ r2 :> w2 @@ r3 :> w2 @@ r4 :> w3
RedeployVersionOf == [w \in Workers |-> IF w = w1 THEN 5 ELSE 6]
RedeployCacheEnabled == [w \in Workers |-> w # w3]
=============================================================================
