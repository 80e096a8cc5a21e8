--------------------------- MODULE LedgerHistory ---------------------------
(***************************************************************************)
(* The history of one image: the rows of the bucket Ledger                 *)
(* (internal/ledger/database.go), written by the pushes of this node       *)
(* (runExportPipeline, RecordAndPush) and by its imports, thinned out by   *)
(* the user's garbage collection, repaired when the daemon starts, and     *)
(* read by the command-line client that waits for its push.                *)
(*                                                                         *)
(* A row's key is the second it was written and the hash of the tarball;   *)
(* until the tarball is exported a push goes by a temporary id, which is   *)
(* modelled by the push itself.  Pushes of one image that overlap have     *)
(* different peers.  A write to the bucket is a transaction.               *)
(***************************************************************************)
EXTENDS Naturals, FiniteSets

CONSTANTS Pushes,     \* dispatches of the image
          Imports,    \* transfers of the image that this node receives
          Hashes,     \* hashes of tarballs
          HashOf,     \* the hash of each push's or import's tarball
          Final,      \* the statuses of a transfer that has ended
          MaxTime,    \* bound: seconds that pass
          MaxGCs,     \* bound: requests of garbage collection
          MaxCrashes  \* bound: ends of the daemon

Transfers == Pushes \cup Imports
Ids == Hashes \cup Pushes

ASSUME TransfersAssumption == Pushes \cap Imports = {}
ASSUME HashAssumption == HashOf \in [Transfers -> Hashes] /\ Hashes \cap Transfers = {}
ASSUME FinalAssumption == {"Failed", "Crashed"} \subseteq Final /\ {"", "Pending"} \cap Final = {}
                          /\ {"none", "waiting", "gone"} \cap Final = {}
ASSUME BoundsAssumption == MaxTime \in Nat /\ MaxGCs \in Nat /\ MaxCrashes \in Nat

VARIABLES rows,     \* the bucket; of is a history field: who wrote the row
          time,     \* the second on the clock
          up,       \* does the daemon run?
          pc,       \* where each transfer's goroutine is
          hash,     \* what the push calls its tarball
          outcome,  \* history: the outcome the transfer recorded
          client,   \* the client that dispatched it: "none", "waiting", "gone" or
                    \* the status it printed
          gcs, crashes

vars == <<rows, time, up, pc, hash, outcome, client, gcs, crashes>>

Row == [time : 0..MaxTime, hash : Ids, status : Final \cup {"Pending"}, of : Transfers]
Running == {"accepted", "exporting", "hashed", "pushing"}

SameKey(r, s) == r.time = s.time /\ r.hash = s.hash

TypeOK ==
    /\ rows \subseteq Row
    /\ \A r, s \in rows : SameKey(r, s) => r = s
    /\ time \in 0..MaxTime
    /\ up \in BOOLEAN
    /\ pc \in [Transfers -> Running \cup {"idle", "ended", "lost"}]
    /\ hash \in [Pushes -> Ids]
    /\ outcome \in [Transfers -> Final \cup {""}]
    /\ client \in [Pushes -> Final \cup {"none", "waiting", "gone"}]
    /\ gcs \in 0..MaxGCs /\ crashes \in 0..MaxCrashes

Init ==
    /\ rows = {} /\ time = 0 /\ up = TRUE
    /\ pc = [t \in Transfers |-> "idle"]
    /\ hash = [p \in Pushes |-> p]
    /\ outcome = [t \in Transfers |-> ""]
    /\ client = [p \in Pushes |-> "none"]
    /\ gcs = 0 /\ crashes = 0

-----------------------------------------------------------------------------
(* The bucket                                                              *)

\* Mutant: rows keyed by the second alone.
PutBySecond(row) == rows' = {r \in rows : r.time # row.time} \cup {row}

\* Mutant: a put that keeps what was there.
PutTwice(row) == rows' = rows \cup {row}

\* RecordCommit puts; what was there under the key is replaced.
Put(row) == rows' = {r \in rows : ~SameKey(r, row)} \cup {row}
RecordCommit(t, id, status) ==
    Put([time |-> time, hash |-> id, status |-> status, of |-> t])

\* The rows under which a cursor may first meet one of the ids: keys are
\* ordered by the second, and within one by the hash.
First(ids) == {r \in rows : r.hash \in ids
                 /\ \A s \in rows : s.hash \in ids => r.time <= s.time}

\* Mutant: the first pending row, whoever wrote it.
DeletePending(ids) == \E r \in {s \in rows : s.status = "Pending"} : rows' = rows \ {r}

\* The ids are those with the given prefix.  Only the first row goes; when
\* there is none nothing does.
DeleteCommit(ids) ==
    \/ First(ids) = {} /\ UNCHANGED rows
    \/ \E r \in First(ids) : rows' = rows \ {r}

\* Newest first; rows of one second come in any order (sort.Slice is not stable).
GetHistory(r) == r \in rows /\ \A s \in rows : s.time <= r.time

-----------------------------------------------------------------------------
(* A push                                                                  *)

Step(t, from, to) == up /\ pc[t] \in from /\ pc' = [pc EXCEPT ![t] = to]
Ends(t, status) == outcome' = [outcome EXCEPT ![t] = status]

\* POST /api/push, from a client that waits or from the UI.
Dispatch(p) ==
    /\ Step(p, {"idle"}, "accepted")
    /\ \E c \in {"none", "waiting"} : client' = [client EXCEPT ![p] = c]
    /\ UNCHANGED <<rows, time, up, hash, outcome, gcs, crashes>>

\* Mutant: a placeholder that is not "Pending".
RecordStarted(p) ==
    /\ Step(p, {"accepted"}, "exporting")
    /\ RecordCommit(p, p, "Completed")
    /\ UNCHANGED <<time, up, hash, outcome, client, gcs, crashes>>

RecordTemp(p) ==
    /\ Step(p, {"accepted"}, "exporting")
    /\ RecordCommit(p, p, "Pending")
    /\ UNCHANGED <<time, up, hash, outcome, client, gcs, crashes>>

\* The peer cannot be resolved, or the export fails.
ExportFails(p) ==
    /\ Step(p, {"exporting"}, "ended")
    /\ RecordCommit(p, p, "Failed")
    /\ Ends(p, "Failed")
    /\ UNCHANGED <<time, up, hash, client, gcs, crashes>>

\* The exported file is hashed and the temporary row removed; without a hash
\* the push keeps its temporary id, and the row.
HashFile(p) ==
    /\ Step(p, {"exporting"}, "hashed")
    /\ \/ DeleteCommit({p}) /\ hash' = [hash EXCEPT ![p] = HashOf[p]]
       \/ UNCHANGED <<rows, hash>>
    /\ UNCHANGED <<time, up, outcome, client, gcs, crashes>>

RecordPending(p) ==
    /\ Step(p, {"hashed"}, "pushing")
    /\ RecordCommit(p, hash[p], "Pending")
    /\ UNCHANGED <<time, up, hash, outcome, client, gcs, crashes>>

\* PushImage has returned: the row of its outcome joins the pending one, or
\* replaces it within the same second.
RecordOutcome(p) ==
    /\ Step(p, {"pushing"}, "ended")
    /\ \E status \in Final : RecordCommit(p, hash[p], status) /\ Ends(p, status)
    /\ UNCHANGED <<time, up, hash, client, gcs, crashes>>

\* The deferred recover writes under the temporary id, whatever the push is
\* called by then.
Recover(p) ==
    /\ Step(p, {"exporting", "hashed", "pushing"}, "ended")
    /\ RecordCommit(p, p, "Crashed")
    /\ Ends(p, "Crashed")
    /\ UNCHANGED <<time, up, hash, client, gcs, crashes>>

\* recordCommitWithStatus, at the end of handleIncomingTransfer.
Import(i) ==
    /\ Step(i, {"idle"}, "ended")
    /\ \E status \in Final \ {"Crashed"} : RecordCommit(i, HashOf[i], status) /\ Ends(i, status)
    /\ UNCHANGED <<time, up, hash, client, gcs, crashes>>

-----------------------------------------------------------------------------
(* The client that waits                                                   *)

\* clientWaitForPushCompletion looks at the newest row of the image.
Poll(p) ==
    /\ up
    /\ client[p] = "waiting"
    /\ \E r \in rows : /\ GetHistory(r)
                       /\ r.status # "Pending"
                       /\ client' = [client EXCEPT ![p] = r.status]
    /\ UNCHANGED <<rows, time, up, pc, hash, outcome, gcs, crashes>>

\* After ten minutes, or when the daemon is gone.
GiveUp(p) ==
    /\ client[p] = "waiting"
    /\ client' = [client EXCEPT ![p] = "gone"]
    /\ UNCHANGED <<rows, time, up, pc, hash, outcome, gcs, crashes>>

-----------------------------------------------------------------------------
(* Garbage collection: everything, what is old, or one row by prefix       *)

GC ==
    /\ up
    /\ gcs < MaxGCs
    /\ gcs' = gcs + 1
    /\ \/ rows' = {}
       \/ \E cutoff \in 0..time : rows' = {r \in rows : r.time >= cutoff}
       \/ \E ids \in SUBSET Ids : First(ids) # {} /\ DeleteCommit(ids)
    /\ UNCHANGED <<time, up, pc, hash, outcome, client, crashes>>

-----------------------------------------------------------------------------
(* The daemon                                                              *)

Crash ==
    /\ up /\ crashes < MaxCrashes
    /\ up' = FALSE /\ crashes' = crashes + 1
    /\ pc' = [t \in Transfers |-> IF pc[t] \in Running THEN "lost" ELSE pc[t]]
    /\ client' = [p \in Pushes |-> IF client[p] = "waiting" THEN "gone" ELSE client[p]]
    /\ UNCHANGED <<rows, time, hash, outcome, gcs>>

\* Mutant: the repair left out.
StartUnrepaired == up' = TRUE /\ ~up /\ UNCHANGED <<rows, time, pc, hash, outcome, client, gcs, crashes>>

\* FailPendingTransfers, before anything else can write.
FailPendingTransfers ==
    rows' = {IF r.status = "Pending" THEN [r EXCEPT !.status = "Failed"] ELSE r : r \in rows}
Start ==
    /\ ~up
    /\ up' = TRUE
    /\ FailPendingTransfers
    /\ UNCHANGED <<time, pc, hash, outcome, client, gcs, crashes>>

Tick ==
    /\ time < MaxTime
    /\ time' = time + 1
    /\ UNCHANGED <<rows, up, pc, hash, outcome, client, gcs, crashes>>

Push(p) ==
    \/ Dispatch(p) \/ RecordTemp(p) \/ ExportFails(p) \/ HashFile(p) \/ RecordPending(p)
    \/ RecordOutcome(p) \/ Recover(p) \/ Poll(p) \/ GiveUp(p)
Next == (\E p \in Pushes : Push(p)) \/ (\E i \in Imports : Import(i)) \/ GC \/ Crash \/ Start \/ Tick

Spec == Init /\ [][Next]_vars

-----------------------------------------------------------------------------
(* Properties                                                              *)

\* While the daemon runs, "Pending" is only said of pushes of its own life:
\* what an earlier one left unfinished was failed when it started
\* (FailPendingTransfers, daemon.go).
PendingIsOfThisLife ==
    up => \A r \in rows : r.status = "Pending" => pc[r.of] \notin {"idle", "accepted", "lost"}

\* A recorded outcome stays through later transfers and restarts, until the
\* user collects it or another transfer writes the same tarball's row in the
\* same second (RecordCommit's key).
OutcomeKept == gcs = 0 =>
    \A t \in Transfers : pc[t] = "ended" =>
        \E r \in rows : \/ r.of = t /\ r.status = outcome[t]
                        \/ r.of # t /\ r.hash = HashOf[t]

\* Between garbage collections a row only goes away when its own push, once
\* it has the hash, drops its temporary one: DeleteCommit's prefix finds no
\* other (the key of every other row stays).
OnlyTempRowsGo ==
    [][gcs' = gcs => \A r \in rows :
          \/ \E s \in rows' : SameKey(r, s)
          \/ /\ r.of \in Pushes /\ r.hash = r.of /\ r.status = "Pending"
             /\ pc[r.of] = "exporting" /\ pc'[r.of] = "hashed"]_vars

\* If nobody else transfers the image and the daemon did not end, the status
\* a client prints (clientWaitForPushCompletion) is the outcome of the push it
\* waited for, which has ended.  With a second transfer it is whatever row of
\* the image is the newest.
ReportIsOwnAlone == \A p \in Pushes :
    (\A t \in Transfers \ {p} : pc[t] = "idle") /\ crashes = 0 /\ client[p] \in Final =>
        pc[p] = "ended" /\ outcome[p] = client[p]

\* "Clean up any pending transfers from previous runs that may have crashed":
\* a push that completed is not shown as failed.
FailedDidFail == \A r \in rows : r.status = "Failed" => outcome[r.of] # "Completed"
=============================================================================
