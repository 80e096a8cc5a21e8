------------------------------- MODULE Approval -------------------------------
(***************************************************************************)
(* What a request for a transfer is promised: somebody is asked about it,   *)
(* or the settings let it in; whoever answers first has answered, while it  *)
(* is asked about and neither before nor later; and it goes by that answer. *)
(* ApprovalQueue implements this, and TransferSession, which leaves out by  *)
(* what ways an answer comes, does as well.                                 *)
(***************************************************************************)
CONSTANT Requests

VARIABLES
    stage,      \* of each request: new, asked about, granted or refused
    answer      \* what its handler will find: "" until somebody has answered

vars == <<stage, answer>>

Init ==
    /\ stage = [r \in Requests |-> "new"]
    /\ answer = [r \in Requests |-> ""]

Comes(r) ==
    /\ stage[r] = "new"
    /\ \E s \in {"asked", "granted"} : stage' = [stage EXCEPT ![r] = s]
    /\ UNCHANGED answer

\* Only the first answer counts.
Answer(r) ==
    /\ stage[r] = "asked" /\ answer[r] = ""
    /\ \E v \in {"yes", "no"} : answer' = [answer EXCEPT ![r] = v]
    /\ UNCHANGED stage

Take(r) ==
    /\ stage[r] = "asked" /\ answer[r] # ""
    /\ stage' = [stage EXCEPT ![r] = IF answer[r] = "yes" THEN "granted" ELSE "refused"]
    /\ answer' = [answer EXCEPT ![r] = ""]

Next == \E r \in Requests : Comes(r) \/ Answer(r) \/ Take(r)

Spec == Init /\ [][Next]_vars
=============================================================================
