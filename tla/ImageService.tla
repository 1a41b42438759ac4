---------------------------- MODULE ImageService ----------------------------
(***************************************************************************)
(* What render_pipeline promises its callers, with no cache, lock or wait  *)
(* in sight: every request is answered once or fails, and an answer is a   *)
(* finished composition of the matchup that was asked for, made by a       *)
(* worker of the same render version.                                      *)
(***************************************************************************)
CONSTANTS Requests, MatchupOf, VersionAt, None

VARIABLES
    status,    \* "open", "answered" or "failed"
    answer,    \* the composition a request was answered with
    composed   \* requests whose own composition finished

vars == <<status, answer, composed>>

SamePicture(r, s) == MatchupOf[r] = MatchupOf[s] /\ VersionAt[r] = VersionAt[s]

Init ==
    /\ status = [r \in Requests |-> "open"]
    /\ answer = [r \in Requests |-> None]
    /\ composed = {}

(* A composition nobody has been answered with yet.                        *)
Compose(r) ==
    /\ status[r] = "open"
    /\ r \notin composed
    /\ composed' = composed \cup {r}
    /\ UNCHANGED <<status, answer>>

(* The answer is an earlier composition, or one made for this answer.      *)
Answer(r) ==
    /\ status[r] = "open"
    /\ \E image \in composed \cup {r} :
          /\ SamePicture(r, image)
          /\ answer' = [answer EXCEPT ![r] = image]
          /\ composed' = composed \cup {image}
    /\ status' = [status EXCEPT ![r] = "answered"]

(* One exception, or a dying worker, fails one request or several.         *)
Fail ==
    \E failing \in SUBSET {r \in Requests : status[r] = "open"} :
        /\ status' = [r \in Requests |->
                         IF r \in failing THEN "failed" ELSE status[r]]
        /\ UNCHANGED <<answer, composed>>

Next == (\E r \in Requests : Compose(r) \/ Answer(r)) \/ Fail

Spec == Init /\ [][Next]_vars
=============================================================================
