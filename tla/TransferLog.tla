------------------------------ MODULE TransferLog ------------------------------
(***************************************************************************)
(* What a push promises: the receiver's answer comes first, then the        *)
(* payload, and each side writes one row that tells what became of it.      *)
(* TransferSession implements this.                                         *)
(***************************************************************************)
CONSTANT Pushes

VARIABLES
    answer,     \* the receiver's answer: "" until it is given
    data,       \* what has left the sender: none, part or all of the payload
    whole,      \* the pushes whose payload the receiver has in full
    sentRow,    \* the outcome in the sender's ledger
    gotRow      \* the one in the receiver's

vars == <<answer, data, whole, sentRow, gotRow>>

Init ==
    /\ answer = [p \in Pushes |-> ""]   /\ data = [p \in Pushes |-> "none"]
    /\ whole = {}
    /\ sentRow = [p \in Pushes |-> ""]  /\ gotRow = [p \in Pushes |-> ""]

\* Given once, and before the receiver's row.
Answer(p) ==
    /\ answer[p] = "" /\ gotRow[p] = ""
    /\ \E v \in {"yes", "no"} : answer' = [answer EXCEPT ![p] = v]
    /\ UNCHANGED <<data, whole, sentRow, gotRow>>

\* Only what was approved is sent, and nothing after the sender's row.
Send(p) ==
    /\ answer[p] = "yes" /\ sentRow[p] = ""
    /\ \/ data[p] = "none" /\ data' = [data EXCEPT ![p] = "part"]
       \/ data[p] = "part" /\ data' = [data EXCEPT ![p] = "all"]
    /\ UNCHANGED <<answer, whole, sentRow, gotRow>>

Receive(p) ==
    /\ data[p] = "all" /\ gotRow[p] = ""
    /\ whole' = whole \cup {p}
    /\ UNCHANGED <<answer, data, sentRow, gotRow>>

\* What each outcome says of the push on the sender ...
SenderEnds(p) ==
    /\ sentRow[p] = ""
    /\ \/ data[p] = "all"  /\ sentRow' = [sentRow EXCEPT ![p] = "Completed"]
       \/ data[p] # "none" /\ sentRow' = [sentRow EXCEPT ![p] = "Canceled"]
       \/ data[p] # "all"  /\ sentRow' = [sentRow EXCEPT ![p] = "Failed"]
       \/ answer[p] = "no" /\ sentRow' = [sentRow EXCEPT ![p] = "Rejected"]
    /\ UNCHANGED <<answer, data, whole, gotRow>>

\* ... and on the receiver.
ReceiverEnds(p) ==
    /\ gotRow[p] = ""
    /\ \/ p \in whole       /\ gotRow' = [gotRow EXCEPT ![p] = "Completed"]
       \/ data[p] # "none"  /\ gotRow' = [gotRow EXCEPT ![p] = "Canceled"]
       \/ answer[p] # "no"  /\ gotRow' = [gotRow EXCEPT ![p] = "Failed"]
       \/ answer[p] = "no"  /\ gotRow' = [gotRow EXCEPT ![p] = "Rejected"]
    /\ UNCHANGED <<answer, data, whole, sentRow>>

Next ==
    \E p \in Pushes :
        Answer(p) \/ Send(p) \/ Receive(p) \/ SenderEnds(p) \/ ReceiverEnds(p)

Spec == Init /\ [][Next]_vars
=============================================================================
