----------------------- MODULE LedgerHistory_proofs -----------------------
(***************************************************************************)
(* What the history of an image shows, for any number of pushes, imports,  *)
(* seconds, collections and restarts.                                      *)
(***************************************************************************)
EXTENDS LedgerHistory, TLAPS

-----------------------------------------------------------------------------
(* The invariant                                                           *)

\* A row goes by its tarball's hash or by its push's temporary id, and its
\* transfer has begun to write.
RowsFit == \A r \in rows :
    /\ r.hash \in {r.of, HashOf[r.of]}
    /\ r.hash = r.of => r.of \in Pushes
    /\ pc[r.of] \notin {"idle", "accepted"}
HashFits == \A p \in Pushes : hash[p] \in {p, HashOf[p]}

\* No goroutine runs while the daemon is down, and only a transfer that has
\* ended, or was lost, has a row that says more than "Pending".
NobodyRuns == ~up => \A t \in Transfers : pc[t] \notin Running
Settled == \A r \in rows : r.status # "Pending" => pc[r.of] \in {"ended", "lost"}
EndedHasOutcome == \A t \in Transfers : pc[t] = "ended" => outcome[t] \in Final

\* Before the first restart every such row carries the outcome.
FirstLife == crashes = 0 =>
    /\ up
    /\ \A r \in rows : r.status # "Pending" => pc[r.of] = "ended" /\ r.status = outcome[r.of]

IInv == /\ TypeOK /\ RowsFit /\ HashFits /\ NobodyRuns /\ Settled /\ EndedHasOutcome
        /\ FirstLife /\ PendingIsOfThisLife /\ OutcomeKept /\ ReportIsOwnAlone

-----------------------------------------------------------------------------
(* The bucket                                                              *)

\* RecordCommit adds its row and replaces those of its key only.
LEMMA RecordCommitLemma ==
    ASSUME TypeOK, NEW t \in Transfers, NEW id \in Ids, NEW status \in Final \cup {"Pending"},
           RecordCommit(t, id, status),
           NEW n, n = [time |-> time, hash |-> id, status |-> status, of |-> t]
    PROVE  /\ n \in Row /\ n \in rows'
           /\ rows' \subseteq Row
           /\ \A r, s \in rows' : SameKey(r, s) => r = s
           /\ \A r \in rows' : r = n \/ r \in rows
           /\ \A r \in rows : r \in rows' \/ (r.time = n.time /\ r.hash = n.hash)
<1>1. n \in Row
  BY DEF TypeOK, Row
<1>2. rows' = {r \in rows : ~SameKey(r, n)} \cup {n}
  BY DEF RecordCommit, Put
<1>3. /\ rows \subseteq Row
      /\ \A r, s \in rows : SameKey(r, s) => r = s
  BY DEF TypeOK
<1>4. \A r, s \in rows' : SameKey(r, s) => r = s
  BY <1>2, <1>3, Zenon DEF SameKey
<1> QED
  BY <1>1, <1>2, <1>3, <1>4 DEF SameKey

\* DeleteCommit removes nothing but one row of the prefix.
LEMMA DeleteCommitLemma ==
    ASSUME NEW ids, DeleteCommit(ids)
    PROVE  /\ rows' \subseteq rows
           /\ \A r \in rows : r \notin rows' => r.hash \in ids
<1>1. CASE UNCHANGED rows
  BY <1>1
<1>2. CASE \E r \in First(ids) : rows' = rows \ {r}
  BY <1>2 DEF First
<1> QED
  BY <1>1, <1>2 DEF DeleteCommit

-----------------------------------------------------------------------------
(* Type correctness                                                        *)

\* Every variable keeps its type, and no two rows have one key.
LEMMA TypeStep == ASSUME TypeOK, [Next]_vars PROVE TypeOK'
<1> USE TransfersAssumption, HashAssumption, FinalAssumption, BoundsAssumption
<1>1. CASE UNCHANGED vars
  BY <1>1 DEF vars, TypeOK, SameKey
<1>2. ASSUME NEW p \in Pushes, Dispatch(p) PROVE TypeOK'
  BY <1>2 DEF Dispatch, Step, TypeOK, Running, Transfers, SameKey
<1>3. ASSUME NEW p \in Pushes, RecordTemp(p) PROVE TypeOK'
  BY <1>3, RecordCommitLemma DEF RecordTemp, Step, TypeOK, Running, Transfers, Ids
<1>4. ASSUME NEW p \in Pushes, ExportFails(p) PROVE TypeOK'
  BY <1>4, RecordCommitLemma DEF ExportFails, Step, Ends, TypeOK, Running, Transfers, Ids
<1>5. ASSUME NEW p \in Pushes, HashFile(p) PROVE TypeOK'
  <2>1. rows' \subseteq rows
    BY <1>5, DeleteCommitLemma DEF HashFile
  <2>2. hash' \in [Pushes -> Ids]
    BY <1>5 DEF HashFile, TypeOK, Ids, Transfers
  <2> QED
    BY <1>5, <2>1, <2>2 DEF HashFile, Step, TypeOK, Running, Transfers, SameKey
<1>6. ASSUME NEW p \in Pushes, RecordPending(p) PROVE TypeOK'
  BY <1>6, RecordCommitLemma DEF RecordPending, Step, TypeOK, Running, Transfers
<1>7. ASSUME NEW p \in Pushes, RecordOutcome(p) PROVE TypeOK'
  <2>1. PICK status \in Final : RecordCommit(p, hash[p], status) /\ Ends(p, status)
    BY <1>7 DEF RecordOutcome
  <2> QED
    BY <1>7, <2>1, RecordCommitLemma DEF RecordOutcome, Step, Ends, TypeOK, Running, Transfers
<1>8. ASSUME NEW p \in Pushes, Recover(p) PROVE TypeOK'
  BY <1>8, RecordCommitLemma DEF Recover, Step, Ends, TypeOK, Running, Transfers, Ids
<1>9. ASSUME NEW p \in Pushes, Poll(p) PROVE TypeOK'
  <2>1. \A r \in rows : r.status # "Pending" => r.status \in Final
    BY DEF TypeOK, Row
  <2> QED
    BY <1>9, <2>1 DEF Poll, TypeOK, SameKey
<1>10. ASSUME NEW p \in Pushes, GiveUp(p) PROVE TypeOK'
  BY <1>10 DEF GiveUp, TypeOK, SameKey
<1>11. ASSUME NEW i \in Imports, Import(i) PROVE TypeOK'
  <2>1. PICK status \in Final : RecordCommit(i, HashOf[i], status) /\ Ends(i, status)
    BY <1>11 DEF Import
  <2> QED
    BY <1>11, <2>1, RecordCommitLemma DEF Import, Step, Ends, TypeOK, Running, Transfers, Ids
<1>12. CASE GC
  <2>1. rows' \subseteq rows
    BY <1>12, DeleteCommitLemma DEF GC
  <2>2. gcs' \in 0..MaxGCs
    <3>1. gcs \in 0..MaxGCs /\ gcs < MaxGCs /\ gcs' = gcs + 1
      BY <1>12 DEF GC, TypeOK
    <3> QED
      BY ONLY <3>1, MaxGCs \in Nat
  <2> QED
    BY <1>12, <2>1, <2>2 DEF GC, TypeOK, SameKey
<1>13. CASE Crash
  <2>1. crashes' \in 0..MaxCrashes
    <3>1. crashes \in 0..MaxCrashes /\ crashes < MaxCrashes /\ crashes' = crashes + 1
      BY <1>13 DEF Crash, TypeOK
    <3> QED
      BY ONLY <3>1, MaxCrashes \in Nat
  <2> QED
    BY <1>13, <2>1 DEF Crash, TypeOK, Running, SameKey
<1>14. CASE Start
  <2>1. rows \subseteq Row /\ \A r, s \in rows : SameKey(r, s) => r = s
    BY DEF TypeOK
  <2> DEFINE Failed(r) == IF r.status = "Pending" THEN [r EXCEPT !.status = "Failed"] ELSE r
  <2>2. \A r \in Row : Failed(r) \in Row /\ Failed(r).time = r.time /\ Failed(r).hash = r.hash
    BY DEF Row
  <2>3. rows' = {Failed(r) : r \in rows}
    BY <1>14 DEF Start, FailPendingTransfers
  <2> HIDE DEF Failed
  <2>4. rows' \subseteq Row /\ \A r, s \in rows' : SameKey(r, s) => r = s
    <3>1. \A r \in rows : r \in Row
      BY <2>1
    <3>2. ASSUME NEW r \in rows, NEW s \in rows, SameKey(Failed(r), Failed(s)) PROVE Failed(r) = Failed(s)
      <4>1. r.time = s.time /\ r.hash = s.hash
        BY <2>2, <3>1, <3>2 DEF SameKey
      <4>2. r = s
        BY <2>1, <4>1 DEF SameKey
      <4> QED
        BY <4>2
    <3> QED
      BY <2>2, <2>3, <3>1, <3>2
  <2> QED
    BY <1>14, <2>4 DEF Start, TypeOK
<1>15. CASE Tick
  <2>1. time' \in 0..MaxTime
    <3>1. time \in 0..MaxTime /\ time < MaxTime /\ time' = time + 1
      BY <1>15 DEF Tick, TypeOK
    <3> QED
      BY ONLY <3>1, MaxTime \in Nat
  <2> QED
    BY <1>15, <2>1 DEF Tick, TypeOK, SameKey
<1> QED
  BY <1>1, <1>2, <1>3, <1>4, <1>5, <1>6, <1>7, <1>8, <1>9, <1>10, <1>11, <1>12, <1>13, <1>14, <1>15
     DEF Next, Push

-----------------------------------------------------------------------------
(* The facts about rows                                                    *)

\* A step of the invariant, conjunct by conjunct; a commit is one more row.
LEMMA CommitStep ==
    ASSUME IInv, NEW t \in Transfers, NEW id, id \in {t, HashOf[t]}, id = t => t \in Pushes,
           NEW status \in Final \cup {"Pending"}, RecordCommit(t, id, status),
           pc[t] \in Running \cup {"idle"}, NEW to \in Running \cup {"ended"},
           to # "accepted", pc' = [pc EXCEPT ![t] = to],
           status # "Pending" => to = "ended" /\ Ends(t, status),
           status = "Pending" => to # "ended" /\ outcome' = outcome,
           up, up' = up, gcs' = gcs, crashes' = crashes, TypeOK'
    PROVE  RowsFit' /\ Settled' /\ EndedHasOutcome' /\ FirstLife' /\ PendingIsOfThisLife' /\ OutcomeKept'
<1> USE TransfersAssumption, HashAssumption, FinalAssumption
<1>n. PICK n : n = [time |-> time, hash |-> id, status |-> status, of |-> t]
  OBVIOUS
<1>0. TypeOK /\ id \in Ids
  BY DEF IInv, Ids
<1>1. /\ n \in rows'
      /\ \A r \in rows' : r = n \/ r \in rows
      /\ \A r \in rows : r \in rows' \/ (r.time = n.time /\ r.hash = n.hash)
  <2>1. /\ t \in Transfers /\ status \in Final \cup {"Pending"}
        /\ RecordCommit(t, id, status)
    OBVIOUS
  <2> QED
    BY ONLY <1>0, <1>n, <2>1, RecordCommitLemma
<1>2. /\ n.of = t /\ n.hash = id /\ n.status = status
      /\ \A r \in rows \cup rows' : r.of \in Transfers
  BY <1>0, <1>n DEF TypeOK, Row
<1>3. /\ \A u \in Transfers : u # t => pc'[u] = pc[u] /\ outcome'[u] = outcome[u]
      /\ pc'[t] = to
      /\ to = "ended" => outcome'[t] = status /\ status # "Pending"
  BY <1>0 DEF TypeOK, Ends
<1>4. pc[t] \notin {"ended", "lost"}
  BY DEF Running
<1>5. RowsFit'
  BY <1>1, <1>2, <1>3 DEF IInv, RowsFit, Running
<1>6. Settled'
  BY <1>1, <1>2, <1>3, <1>4 DEF IInv, Settled
<1>7. EndedHasOutcome'
  BY <1>3 DEF IInv, EndedHasOutcome
<1>8. FirstLife'
  BY <1>1, <1>2, <1>3, <1>4 DEF IInv, FirstLife
<1>9. PendingIsOfThisLife'
  BY <1>1, <1>2, <1>3 DEF IInv, PendingIsOfThisLife, Running
<1>10. OutcomeKept'
  <2> SUFFICES ASSUME gcs = 0, NEW u \in Transfers, pc'[u] = "ended"
               PROVE  \E r \in rows' : \/ r.of = u /\ r.status = outcome'[u]
                                       \/ r.of # u /\ r.hash = HashOf[u]
    BY DEF OutcomeKept
  <2>1. CASE u = t
    BY <1>1, <1>2, <1>3, <2>1
  <2>2. CASE u # t
    <3>1. PICK r \in rows : \/ r.of = u /\ r.status = outcome[u]
                            \/ r.of # u /\ r.hash = HashOf[u]
      BY <1>3, <2>2 DEF IInv, OutcomeKept
    <3>2. CASE r \in rows'
      BY <1>3, <2>2, <3>1, <3>2
    <3>3. CASE r \notin rows'
      <4>1. r.hash = id
        BY <1>1, <1>2, <3>3
      <4>2. r.hash \in {r.of, HashOf[r.of]}
        BY DEF IInv, RowsFit
      <4>3. u # HashOf[t] \/ u \notin Pushes
        BY DEF Transfers
      <4>4. r.hash = u /\ r.of = u => u \in Pushes
        BY DEF IInv, RowsFit
      <4>5. ~(r.hash = u /\ r.of = u)
        BY <2>2, <4>1, <4>3, <4>4
      <4>6. id = HashOf[u]
        BY <3>1, <4>1, <4>2, <4>5
      <4> QED
        BY <1>1, <1>2, <2>2, <4>6
    <3> QED
      BY <3>2, <3>3
  <2> QED
    BY <2>1, <2>2
<1> QED
  BY <1>5, <1>6, <1>7, <1>8, <1>9, <1>10

\* The same for steps that write no row of their own: rows may go only while
\* nobody relies on them.
LEMMA ShrinkStep ==
    ASSUME IInv, rows' \subseteq rows, outcome' = outcome, up' = up, crashes' = crashes,
           \A t \in Transfers : pc'[t] = pc[t] \/ (pc[t] = "idle" /\ pc'[t] = "accepted")
                                \/ (pc[t] = "exporting" /\ pc'[t] = "hashed"),
           gcs' = 0 => gcs = 0 /\ \A r \in rows : r \in rows' \/ (pc[r.hash] = "exporting" /\ r.hash \in Pushes)
    PROVE  RowsFit' /\ Settled' /\ EndedHasOutcome' /\ FirstLife' /\ PendingIsOfThisLife' /\ OutcomeKept'
<1> USE TransfersAssumption, HashAssumption
<1>1. \A r \in rows : r.of \in Transfers
  BY DEF IInv, TypeOK, Row
<1>2. RowsFit'
  BY <1>1 DEF IInv, RowsFit
<1>3. Settled'
  BY <1>1 DEF IInv, Settled
<1>4. EndedHasOutcome'
  BY DEF IInv, EndedHasOutcome
<1>5. FirstLife'
  BY <1>1 DEF IInv, FirstLife
<1>6. PendingIsOfThisLife'
  BY <1>1 DEF IInv, PendingIsOfThisLife, RowsFit
<1>7. OutcomeKept'
  <2> SUFFICES ASSUME gcs' = 0, NEW u \in Transfers, pc'[u] = "ended"
               PROVE  \E r \in rows' : \/ r.of = u /\ r.status = outcome'[u]
                                       \/ r.of # u /\ r.hash = HashOf[u]
    BY DEF OutcomeKept
  <2>1. pc[u] = "ended"
    OBVIOUS
  <2>2. PICK r \in rows : \/ r.of = u /\ r.status = outcome[u]
                          \/ r.of # u /\ r.hash = HashOf[u]
    BY <2>1 DEF IInv, OutcomeKept
  <2>3. r.hash \in {r.of, HashOf[r.of]} /\ r.of \in Transfers
    BY <1>1 DEF IInv, RowsFit
  <2>4. r.hash \in Pushes => r.hash = u
    BY <2>2, <2>3 DEF Transfers
  <2>5. r \in rows'
    BY <2>1, <2>4
  <2> QED
    BY <2>2, <2>5
<1> QED
  BY <1>2, <1>3, <1>4, <1>5, <1>6, <1>7

\* FailPendingTransfers.
LEMMA StartStep ==
    ASSUME IInv, Start
    PROVE  RowsFit' /\ Settled' /\ EndedHasOutcome' /\ FirstLife' /\ PendingIsOfThisLife' /\ OutcomeKept'
<1> USE FinalAssumption
<1> DEFINE Failed(r) == IF r.status = "Pending" THEN [r EXCEPT !.status = "Failed"] ELSE r
<1>1. \A r \in Row : /\ Failed(r).of = r.of /\ Failed(r).hash = r.hash
                     /\ Failed(r).status # "Pending"
                     /\ r.status # "Pending" => Failed(r) = r
                     /\ r.of \in Transfers
  BY DEF Row
<1>2. rows' = {Failed(r) : r \in rows}
  BY DEF Start, FailPendingTransfers
<1>3. rows \subseteq Row /\ pc \in [Transfers -> Running \cup {"idle", "ended", "lost"}]
  BY DEF IInv, TypeOK
<1> HIDE DEF Failed
<1>4. ~up /\ pc' = pc /\ outcome' = outcome /\ gcs' = gcs /\ crashes' = crashes
  BY DEF Start
<1>5. \A r \in rows' : \E s \in rows : r.of = s.of /\ r.hash = s.hash /\ r.status # "Pending"
  <2> SUFFICES ASSUME NEW r \in rows'
               PROVE  \E s \in rows : r.of = s.of /\ r.hash = s.hash /\ r.status # "Pending"
    OBVIOUS
  <2>1. PICK s \in rows : r = Failed(s)
    BY <1>2
  <2>2. s \in Row
    BY <1>3
  <2> QED
    BY <1>1, <2>1, <2>2
<1>6. \A r \in rows : pc[r.of] \in {"ended", "lost"}
  BY <1>1, <1>3, <1>4 DEF IInv, RowsFit, NobodyRuns
<1>7. RowsFit'
  BY <1>4, <1>5 DEF IInv, RowsFit
<1>8. Settled'
  BY <1>4, <1>5, <1>6 DEF Settled
<1>9. EndedHasOutcome'
  BY <1>4 DEF IInv, EndedHasOutcome
<1>10. FirstLife'
  BY <1>4 DEF IInv, FirstLife
<1>11. PendingIsOfThisLife'
  BY <1>5 DEF PendingIsOfThisLife
<1>12. OutcomeKept'
  <2> SUFFICES ASSUME gcs = 0, NEW u \in Transfers, pc[u] = "ended"
               PROVE  \E r \in rows' : \/ r.of = u /\ r.status = outcome[u]
                                       \/ r.of # u /\ r.hash = HashOf[u]
    BY <1>4 DEF OutcomeKept
  <2>1. PICK r \in rows : \/ r.of = u /\ r.status = outcome[u]
                          \/ r.of # u /\ r.hash = HashOf[u]
    BY DEF IInv, OutcomeKept
  <2>2. Failed(r) \in rows' /\ r \in Row
    BY <1>2, <1>3
  <2>3. CASE r.of # u
    BY <1>1, <2>1, <2>2, <2>3
  <2>4. CASE r.of = u
    <3>1. r.status # "Pending"
      BY <2>1, <2>4 DEF IInv, EndedHasOutcome
    <3> QED
      BY <1>1, <2>1, <2>2, <2>4, <3>1
  <2> QED
    BY <2>3, <2>4
<1> QED
  BY <1>7, <1>8, <1>9, <1>10, <1>11, <1>12

\* Crash.
LEMMA CrashStep ==
    ASSUME IInv, Crash
    PROVE  RowsFit' /\ Settled' /\ EndedHasOutcome' /\ FirstLife' /\ PendingIsOfThisLife' /\ OutcomeKept'
<1>1. /\ \A t \in Transfers : pc'[t] = IF pc[t] \in Running THEN "lost" ELSE pc[t]
      /\ rows' = rows /\ outcome' = outcome /\ gcs' = gcs /\ ~up'
  BY DEF Crash
<1>2. crashes' # 0
  <2>1. crashes \in 0..MaxCrashes /\ crashes' = crashes + 1
    BY DEF IInv, TypeOK, Crash
  <2> QED
    BY ONLY <2>1, BoundsAssumption DEF BoundsAssumption
<1>3. \A r \in rows : r.of \in Transfers
  BY DEF IInv, TypeOK, Row
<1>4. RowsFit'
  BY <1>1, <1>3 DEF IInv, RowsFit
<1>5. Settled'
  BY <1>1, <1>3 DEF IInv, Settled, Running
<1>6. EndedHasOutcome'
  BY <1>1 DEF IInv, EndedHasOutcome
<1>7. FirstLife' /\ PendingIsOfThisLife'
  BY <1>1, <1>2 DEF FirstLife, PendingIsOfThisLife
<1>8. OutcomeKept'
  BY <1>1 DEF IInv, OutcomeKept, Running
<1> QED
  BY <1>4, <1>5, <1>6, <1>7, <1>8

\* Every step keeps what the rows say.
LEMMA RowsStep ==
    ASSUME IInv, [Next]_vars, TypeOK'
    PROVE  RowsFit' /\ Settled' /\ EndedHasOutcome' /\ FirstLife' /\ PendingIsOfThisLife' /\ OutcomeKept'
<1> USE TransfersAssumption, HashAssumption, FinalAssumption
<1> DEFINE Good == RowsFit' /\ Settled' /\ EndedHasOutcome' /\ FirstLife' /\ PendingIsOfThisLife' /\ OutcomeKept'
<1>0. /\ \A t \in Transfers : pc[t] \in Running \cup {"idle", "ended", "lost"}
      /\ pc \in [Transfers -> Running \cup {"idle", "ended", "lost"}]
      /\ ~up => \A t \in Transfers : pc[t] \notin Running
      /\ gcs \in 0..MaxGCs
  BY DEF IInv, TypeOK, NobodyRuns
<1>1. CASE UNCHANGED vars
  <2>1. /\ rows' \subseteq rows /\ outcome' = outcome /\ up' = up /\ crashes' = crashes
        /\ \A t \in Transfers : pc'[t] = pc[t]
        /\ gcs' = gcs /\ rows' = rows
    BY <1>1 DEF vars
  <2> QED
    BY ONLY IInv, <2>1, ShrinkStep
<1>2. ASSUME NEW p \in Pushes, Dispatch(p) PROVE Good
  <2>1. \A t \in Transfers : pc'[t] = pc[t] \/ (pc[t] = "idle" /\ pc'[t] = "accepted")
    BY <1>0, <1>2 DEF Dispatch, Step
  <2> QED
    BY <1>2, <2>1, ShrinkStep, Zenon DEF Dispatch
<1>3. ASSUME NEW p \in Pushes, RecordTemp(p) PROVE Good
  <2>1. /\ RecordCommit(p, p, "Pending") /\ up /\ up' = up /\ gcs' = gcs /\ crashes' = crashes
        /\ outcome' = outcome /\ pc' = [pc EXCEPT ![p] = "exporting"] /\ pc[p] = "accepted"
    BY <1>3 DEF RecordTemp, Step
  <2> QED
    BY ONLY IInv, TypeOK', FinalAssumption, p \in Pushes, <2>1, CommitStep DEF Running, Transfers
<1>4. ASSUME NEW p \in Pushes, ExportFails(p) PROVE Good
  BY <1>4, CommitStep DEF ExportFails, Step, Running, Transfers
<1>5. ASSUME NEW p \in Pushes, HashFile(p) PROVE Good
  <2>1. \A t \in Transfers : pc'[t] = pc[t] \/ (pc[t] = "exporting" /\ pc'[t] = "hashed")
    BY <1>0, <1>5 DEF HashFile, Step
  <2>2. /\ rows' \subseteq rows
        /\ \A r \in rows : r \in rows' \/ r.hash = p
    <3>1. CASE DeleteCommit({p})
      BY ONLY <3>1, DeleteCommitLemma
    <3>2. CASE UNCHANGED rows
      BY <3>2
    <3> QED
      BY <1>5, <3>1, <3>2 DEF HashFile
  <2>3. pc[p] = "exporting"
    BY <1>5 DEF HashFile, Step
  <2> QED
    <3>1. /\ outcome' = outcome /\ up' = up /\ crashes' = crashes /\ gcs' = gcs
          /\ \A r \in rows : r \in rows' \/ (pc[r.hash] = "exporting" /\ r.hash \in Pushes)
      BY <1>5, <2>2, <2>3 DEF HashFile, Step
    <3> QED
      BY <2>1, <2>2, <3>1, ShrinkStep
<1>6. ASSUME NEW p \in Pushes, RecordPending(p) PROVE Good
  <2>1. hash[p] \in {p, HashOf[p]}
    BY DEF IInv, HashFits
  <2> QED
    BY <1>6, <2>1, CommitStep DEF RecordPending, Step, Running, Transfers
<1>7. ASSUME NEW p \in Pushes, RecordOutcome(p) PROVE Good
  <2>1. hash[p] \in {p, HashOf[p]}
    BY DEF IInv, HashFits
  <2>2. PICK status \in Final : RecordCommit(p, hash[p], status) /\ Ends(p, status)
    BY <1>7 DEF RecordOutcome
  <2> QED
    BY <1>7, <2>1, <2>2, CommitStep DEF RecordOutcome, Step, Running, Transfers
<1>8. ASSUME NEW p \in Pushes, Recover(p) PROVE Good
  BY <1>8, CommitStep DEF Recover, Step, Running, Transfers
<1>9. ASSUME NEW p \in Pushes, Poll(p) \/ GiveUp(p) PROVE Good
  <2>1. /\ rows' = rows /\ outcome' = outcome /\ up' = up /\ crashes' = crashes
        /\ gcs' = gcs /\ pc' = pc
    BY <1>9 DEF Poll, GiveUp
  <2> QED
    BY ONLY IInv, <2>1, ShrinkStep
<1>10. ASSUME NEW i \in Imports, Import(i) PROVE Good
  <2>1. PICK status \in Final : RecordCommit(i, HashOf[i], status) /\ Ends(i, status)
    BY <1>10 DEF Import
  <2>2. HashOf[i] # i
    BY DEF Transfers
  <2> QED
    BY <1>10, <2>1, <2>2, CommitStep DEF Import, Step, Running, Transfers
<1>11. CASE GC
  <2>1. rows' \subseteq rows
    BY <1>11, DeleteCommitLemma DEF GC
  <2>2. gcs' # 0
    <3>1. gcs' = gcs + 1
      BY <1>11 DEF GC
    <3> QED
      BY ONLY <1>0, <3>1, BoundsAssumption
  <2> QED
    BY <1>11, <2>1, <2>2, ShrinkStep DEF GC
<1>12. CASE Crash
  BY <1>12, CrashStep
<1>13. CASE Start
  BY <1>13, StartStep
<1>14. CASE Tick
  <2>1. /\ rows' = rows /\ outcome' = outcome /\ up' = up /\ crashes' = crashes
        /\ gcs' = gcs /\ pc' = pc
    BY <1>14 DEF Tick
  <2> QED
    BY ONLY IInv, <2>1, ShrinkStep
<1> QED
  BY <1>1, <1>2, <1>3, <1>4, <1>5, <1>6, <1>7, <1>8, <1>9, <1>10, <1>11, <1>12, <1>13, <1>14
     DEF Next, Push

-----------------------------------------------------------------------------
(* The other parts of the invariant                                        *)

\* A push's name for its tarball, and nobody running in a stopped daemon.
LEMMA GoroutinesStep == ASSUME IInv, [Next]_vars PROVE HashFits' /\ NobodyRuns'
<1>0. /\ hash \in [Pushes -> Ids]
      /\ HashFits /\ NobodyRuns
  BY DEF IInv, TypeOK
<1>1. HashFits'
  <2>1. CASE \E p \in Pushes : HashFile(p)
    BY <1>0, <2>1 DEF HashFits, HashFile
  <2>2. CASE hash' = hash
    BY <1>0, <2>2 DEF HashFits
  <2> QED
    BY <2>1, <2>2 DEF Next, Push, vars, Dispatch, RecordTemp, ExportFails, RecordPending, RecordOutcome,
       Recover, Poll, GiveUp, Import, GC, Crash, Start, Tick
<1>2. NobodyRuns'
  <2>1. CASE up'
    BY <2>1 DEF NobodyRuns
  <2>2. CASE Crash
    BY <2>2 DEF Crash, NobodyRuns, Running
  <2>3. CASE up' = up /\ pc' = pc
    BY <1>0, <2>3 DEF NobodyRuns
  <2>4. ASSUME NEW p \in Pushes, Push(p) PROVE up' \/ (up' = up /\ pc' = pc)
    BY <2>4 DEF Push, Step, Dispatch, RecordTemp, ExportFails, HashFile, RecordPending, RecordOutcome,
       Recover, Poll, GiveUp
  <2>5. ASSUME NEW i \in Imports, Import(i) PROVE up'
    BY <2>5 DEF Import, Step
  <2>6. CASE GC \/ Start \/ Tick \/ UNCHANGED vars
    BY <2>1, <2>3, <2>6 DEF GC, Start, Tick, vars
  <2> QED
    BY <2>1, <2>2, <2>3, <2>4, <2>5, <2>6 DEF Next
<1> QED
  BY <1>1, <1>2

\* A client looks at rows of its own push only, and those are final.
LEMMA ReportStep == ASSUME IInv, [Next]_vars PROVE ReportIsOwnAlone'
<1> USE TransfersAssumption
<1> SUFFICES ASSUME NEW p \in Pushes, \A t \in Transfers \ {p} : pc'[t] = "idle",
                    crashes' = 0, client'[p] \in Final
             PROVE  pc'[p] = "ended" /\ outcome'[p] = client'[p]
  BY DEF ReportIsOwnAlone
<1>0. /\ pc \in [Transfers -> Running \cup {"idle", "ended", "lost"}]
      /\ client \in [Pushes -> Final \cup {"none", "waiting", "gone"}]
      /\ crashes \in 0..MaxCrashes
      /\ p \in Transfers
  BY DEF IInv, TypeOK, Transfers
<1>1. crashes = 0 /\ ~Crash
  <2>1. Crash => crashes' = crashes + 1
    BY DEF Crash
  <2>2. Crash \/ crashes' = crashes
    BY DEF Next, Push, vars, Dispatch, RecordTemp, ExportFails, HashFile, RecordPending,
       RecordOutcome, Recover, Poll, GiveUp, Import, GC, Start, Tick
  <2>3. Crash => crashes' # 0
    BY ONLY <1>0, <2>1, BoundsAssumption DEF BoundsAssumption
  <2> QED
    BY <2>2, <2>3
<1>2. \A t \in Transfers \ {p} : pc[t] = "idle"
  <2>1. \A t \in Transfers : pc[t] # "idle" => pc'[t] # "idle"
    BY <1>0, <1>1 DEF Next, Push, vars, Step, Dispatch, RecordTemp, ExportFails, HashFile, RecordPending,
       RecordOutcome, Recover, Poll, GiveUp, Import, GC, Start, Tick
  <2> QED
    BY <2>1
<1>3. \A r \in rows : r.of = p /\ (r.status # "Pending" => pc[p] = "ended" /\ r.status = outcome[p])
  <2>1. \A r \in rows : r.of \in Transfers /\ pc[r.of] # "idle"
    BY DEF IInv, TypeOK, Row, RowsFit
  <2> QED
    BY <1>1, <1>2, <2>1 DEF IInv, FirstLife
<1>4. client[p] \in Final => pc[p] = "ended" /\ outcome[p] = client[p]
  BY <1>1, <1>2 DEF IInv, ReportIsOwnAlone
<1>5. CASE client'[p] = client[p]
  <2>0. outcome \in [Transfers -> Final \cup {""}]
    BY DEF IInv, TypeOK
  <2> DEFINE Stays == pc[p] = "ended" => pc'[p] = "ended" /\ outcome'[p] = outcome[p]
  <2>1. ASSUME NEW q \in Pushes, Push(q) PROVE Stays
    BY <1>0, <2>0, <2>1 DEF Push, Step, Ends, Dispatch, RecordTemp, ExportFails, HashFile, RecordPending,
       RecordOutcome, Recover, Poll, GiveUp
  <2>2. ASSUME NEW i \in Imports, Import(i) PROVE Stays
    BY <1>0, <2>0, <2>2 DEF Import, Step, Ends
  <2>3. ASSUME GC \/ Start \/ Tick \/ UNCHANGED vars PROVE Stays
    <3>1. pc' = pc /\ outcome' = outcome
      BY <2>3 DEF GC, Start, Tick, vars
    <3> QED
      BY <3>1
  <2> HIDE DEF Stays
  <2>4. Stays
    BY <1>1, <2>1, <2>2, <2>3 DEF Next
  <2> QED
    BY <1>4, <1>5, <2>4 DEF Stays
<1>6. CASE Poll(p)
  <2>1. PICK r \in rows : r.status # "Pending" /\ client' = [client EXCEPT ![p] = r.status]
    BY <1>6 DEF Poll
  <2>2. client'[p] = r.status /\ pc' = pc /\ outcome' = outcome
    BY <1>0, <1>6, <2>1 DEF Poll
  <2> QED
    BY <1>3, <2>1, <2>2
<1>7. client'[p] = client[p] \/ Poll(p) \/ client'[p] \in {"none", "waiting", "gone"}
  BY <1>0, <1>1 DEF Next, Push, vars, Dispatch, RecordTemp, ExportFails, HashFile, RecordPending,
     RecordOutcome, Recover, Poll, GiveUp, Import, GC, Start, Tick
<1> QED
  BY <1>5, <1>6, <1>7, FinalAssumption DEF FinalAssumption

-----------------------------------------------------------------------------
(* The theorems                                                            *)

\* The invariant holds at the start.
LEMMA Initial == Init => IInv
<1> SUFFICES ASSUME Init PROVE IInv
  OBVIOUS
<1>1. TypeOK
  <2>1. time \in 0..MaxTime /\ gcs \in 0..MaxGCs /\ crashes \in 0..MaxCrashes
    <3>1. time = 0 /\ gcs = 0 /\ crashes = 0
      BY DEF Init
    <3> QED
      BY ONLY <3>1, BoundsAssumption DEF BoundsAssumption
  <2>2. rows \subseteq Row /\ \A r, s \in rows : SameKey(r, s) => r = s
    BY DEF Init
  <2> QED
    BY <2>1, <2>2 DEF Init, TypeOK, Ids
<1> QED
  BY <1>1, FinalAssumption DEF Init, IInv, RowsFit, HashFits, NobodyRuns, Settled, EndedHasOutcome, FirstLife,
     PendingIsOfThisLife, OutcomeKept, ReportIsOwnAlone

\* It holds for ever.
LEMMA Inductive == Spec => []IInv
<1>1. ASSUME IInv, [Next]_vars PROVE IInv'
  <2>1. TypeOK'
    BY <1>1, TypeStep DEF IInv
  <2> QED
    BY <1>1, <2>1, RowsStep, GoroutinesStep, ReportStep DEF IInv
<1> QED
  BY <1>1, Initial, PTL DEF Spec

\* The bucket never holds two rows of one key, and every variable keeps its type.
THEOREM TypeCorrect == Spec => []TypeOK
<1>1. IInv => TypeOK
  BY DEF IInv
<1> QED
  BY <1>1, Inductive, PTL

\* After any number of restarts a pending row is a push of the running daemon.
THEOREM PendingOfThisLife == Spec => []PendingIsOfThisLife
<1>1. IInv => PendingIsOfThisLife
  BY DEF IInv
<1> QED
  BY <1>1, Inductive, PTL

\* Until it is collected, an outcome outlives every later transfer and restart.
THEOREM OutcomesKept == Spec => []OutcomeKept
<1>1. IInv => OutcomeKept
  BY DEF IInv
<1> QED
  BY <1>1, Inductive, PTL

\* A client whose push is the image's only transfer reports that push's outcome.
THEOREM ReportAlone == Spec => []ReportIsOwnAlone
<1>1. IInv => ReportIsOwnAlone
  BY DEF IInv
<1> QED
  BY <1>1, Inductive, PTL

\* No row but a temporary one goes between collections.
THEOREM OnlyTemporaryRowsGo == Spec => OnlyTempRowsGo
<1> DEFINE Kept(r) == \/ \E s \in rows' : SameKey(r, s)
                      \/ /\ r.of \in Pushes /\ r.hash = r.of /\ r.status = "Pending"
                         /\ pc[r.of] = "exporting" /\ pc'[r.of] = "hashed"
<1>1. ASSUME IInv, [Next]_vars, gcs' = gcs, NEW r \in rows PROVE Kept(r)
  <2> USE TransfersAssumption, HashAssumption, FinalAssumption
  <2>0. /\ r \in Row /\ r.of \in Transfers
        /\ pc \in [Transfers -> Running \cup {"idle", "ended", "lost"}]
        /\ hash \in [Pushes -> Ids]
        /\ TypeOK
    BY <1>1 DEF IInv, TypeOK, Row
  <2>1. ASSUME NEW t \in Transfers, NEW id \in Ids, NEW status \in Final \cup {"Pending"},
               RecordCommit(t, id, status)
        PROVE  Kept(r)
    <3>1. PICK n : n = [time |-> time, hash |-> id, status |-> status, of |-> t]
      OBVIOUS
    <3>2. n \in rows' /\ (r \in rows' \/ (r.time = n.time /\ r.hash = n.hash))
      BY ONLY <2>0, <2>1, <3>1, RecordCommitLemma, r \in rows
    <3> QED
      BY <3>2 DEF SameKey
  <2>2. CASE rows' = rows
    BY <2>2 DEF SameKey
  <2>3. ASSUME NEW p \in Pushes, HashFile(p) PROVE Kept(r)
    <3>1. CASE r \in rows'
      BY <3>1 DEF SameKey
    <3>2. CASE r \notin rows'
      <4>1. DeleteCommit({p})
        BY <2>3, <3>2 DEF HashFile
      <4>2. r.hash = p
        BY ONLY <4>1, <3>2, DeleteCommitLemma, r \in rows
      <4>3. r.of = p
        <5>1. r.hash \in {r.of, HashOf[r.of]}
          BY <1>1 DEF IInv, RowsFit
        <5> QED
          BY <2>0, <4>2, <5>1 DEF Transfers
      <4>4. pc[p] = "exporting" /\ pc'[p] = "hashed"
        BY <2>0, <2>3 DEF HashFile, Step, Transfers
      <4>5. r.status = "Pending"
        BY <1>1, <4>3, <4>4 DEF IInv, Settled
      <4> QED
        BY <4>2, <4>3, <4>4, <4>5
    <3> QED
      BY <3>1, <3>2
  <2>4. CASE Start
    <3>1. PICK s \in rows' : s = IF r.status = "Pending" THEN [r EXCEPT !.status = "Failed"] ELSE r
      BY <2>4 DEF Start, FailPendingTransfers
    <3> QED
      BY <2>0, <3>1 DEF SameKey, Row
  <2>5. CASE GC
    <3>1. gcs \in 0..MaxGCs /\ gcs' = gcs + 1
      BY <1>1, <2>5 DEF IInv, TypeOK, GC
    <3> QED
      BY ONLY <1>1, <3>1, BoundsAssumption DEF BoundsAssumption
  <2>6. ASSUME NEW p \in Pushes,
               RecordTemp(p) \/ ExportFails(p) \/ RecordPending(p) \/ RecordOutcome(p) \/ Recover(p)
        PROVE  Kept(r)
    <3>1. \E id \in Ids, status \in Final \cup {"Pending"} : RecordCommit(p, id, status)
      BY <2>0, <2>6 DEF RecordTemp, ExportFails, RecordPending, RecordOutcome, Recover, Ids
    <3> QED
      BY <2>1, <3>1 DEF Transfers
  <2>7. ASSUME NEW i \in Imports, Import(i) PROVE Kept(r)
    <3>1. \E id \in Ids, status \in Final \cup {"Pending"} : RecordCommit(i, id, status)
      BY <2>7 DEF Import, Ids, Transfers
    <3> QED
      BY <2>1, <3>1 DEF Transfers
  <2> HIDE DEF Kept
  <2> QED
    BY <1>1, <2>2, <2>3, <2>4, <2>5, <2>6, <2>7
       DEF Next, Push, vars, Dispatch, Poll, GiveUp, Crash, Tick
<1>2. IInv /\ [Next]_vars => [gcs' = gcs => \A r \in rows : Kept(r)]_vars
  BY <1>1
<1> QED
  BY <1>2, Inductive, PTL DEF Spec, OnlyTempRowsGo

-----------------------------------------------------------------------------
(* What a row still says after restarts                                    *)

\* Every status but the two that are not a push's own word: "Pending", and
\* "Failed", which the repair at the start of the daemon writes too.
RowsTell == \A r \in rows : r.status \notin {"Pending", "Failed"} => r.status = outcome[r.of]

\* A step either commits one row of a running transfer, repairs, or only
\* removes rows; an outcome is recorded with its row.
LEMMA HowRowsChange ==
    ASSUME IInv, [Next]_vars
    PROVE  \/ rows' \subseteq rows /\ outcome' = outcome
           \/ Start
           \/ \E t \in Transfers, id \in Ids, status \in Final \cup {"Pending"} :
                 /\ RecordCommit(t, id, status)
                 /\ pc[t] \notin {"ended", "lost"}
                 /\ IF status = "Pending" THEN outcome' = outcome ELSE Ends(t, status)
<1> USE HashAssumption, FinalAssumption
<1> DEFINE Commits == \E t \in Transfers, id \in Ids, status \in Final \cup {"Pending"} :
                         /\ RecordCommit(t, id, status)
                         /\ pc[t] \notin {"ended", "lost"}
                         /\ IF status = "Pending" THEN outcome' = outcome ELSE Ends(t, status)
           Removes == rows' \subseteq rows /\ outcome' = outcome
<1>0. hash \in [Pushes -> Ids]
  BY DEF IInv, TypeOK
<1>1. ASSUME NEW p \in Pushes, RecordTemp(p) \/ RecordPending(p) PROVE Commits
  <2>1. PICK id \in Ids : RecordCommit(p, id, "Pending") /\ outcome' = outcome
    BY <1>0, <1>1 DEF RecordTemp, RecordPending, Ids
  <2>2. pc[p] \notin {"ended", "lost"} /\ p \in Transfers
    BY <1>1 DEF RecordTemp, RecordPending, Step, Transfers
  <2> QED
    BY <2>1, <2>2
<1>2. ASSUME NEW t \in Transfers, NEW id \in Ids, NEW status \in Final,
             RecordCommit(t, id, status), Ends(t, status), pc[t] \notin {"ended", "lost"}
      PROVE  Commits
  <2>1. status # "Pending" /\ status \in Final \cup {"Pending"}
    OBVIOUS
  <2> QED
    BY <1>2, <2>1
<1>3. ASSUME NEW p \in Pushes, ExportFails(p) \/ RecordOutcome(p) \/ Recover(p) PROVE Commits
  <2>1. PICK id \in Ids, status \in Final : RecordCommit(p, id, status) /\ Ends(p, status)
    BY <1>0, <1>3 DEF ExportFails, RecordOutcome, Recover, Ids
  <2>2. pc[p] \notin {"ended", "lost"} /\ p \in Transfers
    BY <1>3 DEF ExportFails, RecordOutcome, Recover, Step, Transfers
  <2> QED
    BY ONLY <1>2, <2>1, <2>2
<1>4. ASSUME NEW i \in Imports, Import(i) PROVE Commits
  <2>1. PICK status \in Final : RecordCommit(i, HashOf[i], status) /\ Ends(i, status)
    BY <1>4 DEF Import
  <2>2. pc[i] \notin {"ended", "lost"} /\ i \in Transfers /\ HashOf[i] \in Ids
    BY <1>4 DEF Import, Step, Transfers, Ids
  <2> QED
    BY ONLY <1>2, <2>1, <2>2
<1>5. ASSUME NEW p \in Pushes, HashFile(p) PROVE Removes
  BY <1>5, DeleteCommitLemma DEF HashFile
<1>6. ASSUME GC PROVE Removes
  BY <1>6, DeleteCommitLemma DEF GC
<1>7. ASSUME NEW p \in Pushes, Dispatch(p) \/ Poll(p) \/ GiveUp(p) PROVE Removes
  BY <1>7 DEF Dispatch, Poll, GiveUp
<1>8. ASSUME Crash \/ Tick \/ UNCHANGED vars PROVE Removes
  BY <1>8 DEF Crash, Tick, vars
<1> HIDE DEF Commits, Removes
<1>9. Removes \/ Start \/ Commits
  BY <1>1, <1>3, <1>4, <1>5, <1>6, <1>7, <1>8 DEF Next, Push
<1> QED
  BY <1>9 DEF Commits, Removes

\* No step makes a row say what its transfer did not.
LEMMA TellStep == ASSUME IInv, [Next]_vars, RowsTell PROVE RowsTell'
<1>0. /\ TypeOK /\ outcome = [t \in Transfers |-> outcome[t]]
      /\ \A r \in rows : r \in Row /\ r.of \in Transfers
  <2>1. TypeOK
    BY DEF IInv
  <2>2. outcome = [t \in Transfers |-> outcome[t]]
    BY <2>1, Zenon DEF TypeOK
  <2>3. rows \subseteq Row
    BY <2>1 DEF TypeOK
  <2>4. \A r \in Row : r.of \in Transfers
    BY DEF Row
  <2> QED
    BY <2>1, <2>2, <2>3, <2>4
<1>1. CASE rows' \subseteq rows /\ outcome' = outcome
  BY <1>1 DEF RowsTell
<1>2. CASE Start
  <2>1. outcome' = outcome
        /\ rows' = {IF r.status = "Pending" THEN [r EXCEPT !.status = "Failed"] ELSE r : r \in rows}
    BY <1>2 DEF Start, FailPendingTransfers
  <2>2. ASSUME NEW r \in rows' PROVE r \in rows \/ r.status = "Failed"
    <3>1. PICK s \in rows : r = IF s.status = "Pending" THEN [s EXCEPT !.status = "Failed"] ELSE s
      BY <2>1
    <3> QED
      BY <1>0, <3>1 DEF Row
  <2> QED
    BY <2>1, <2>2 DEF RowsTell
<1>3. ASSUME NEW t \in Transfers, NEW id \in Ids, NEW status \in Final \cup {"Pending"},
             RecordCommit(t, id, status), pc[t] \notin {"ended", "lost"},
             IF status = "Pending" THEN outcome' = outcome ELSE Ends(t, status)
      PROVE  RowsTell'
  <2>1. PICK n : n = [time |-> time, hash |-> id, status |-> status, of |-> t]
    OBVIOUS
  <2>2. \A r \in rows' : r = n \/ r \in rows
    <3>1. t \in Transfers /\ id \in Ids /\ status \in Final \cup {"Pending"}
      OBVIOUS
    <3> QED
      BY ONLY <1>0, <1>3, <2>1, <3>1, RecordCommitLemma
  <2>3. n.of = t /\ n.status = status
    BY <2>1
  <2>4. \A u \in Transfers : u # t => outcome'[u] = outcome[u]
    BY <1>0, <1>3 DEF Ends
  <2>5. status # "Pending" => outcome'[t] = status
    BY <1>0, <1>3 DEF Ends
  <2>6. \A r \in rows : r.of = t => r.status = "Pending"
    BY <1>3 DEF IInv, Settled
  <2> QED
    BY <1>0, <2>2, <2>3, <2>4, <2>5, <2>6 DEF RowsTell
<1> QED
  BY <1>1, <1>2, <1>3, HowRowsChange

\* Whatever happens, a row says "Completed", "Cancelled" or the like only of a
\* transfer that ended so, and before the first restart that holds of "Failed"
\* too: only FailPendingTransfers puts a word into a push's mouth.
THEOREM RowsTellOutcome == Spec => [](RowsTell /\ (crashes = 0 => FailedDidFail))
<1>1. Init => RowsTell
  BY DEF Init, RowsTell
<1>2. IInv /\ [Next]_vars /\ RowsTell => RowsTell'
  BY TellStep
<1>3. IInv => (crashes = 0 => FailedDidFail)
  BY DEF IInv, FirstLife, FailedDidFail
<1> QED
  BY <1>1, <1>2, <1>3, Inductive, PTL DEF Spec

-----------------------------------------------------------------------------
(* The temporary row                                                       *)

\* Until its tarball has a hash a push goes by its temporary id, under which
\* the bucket holds at most one row; once it has one, only a panic brings a
\* row of that id back.
TempInv == \A p \in Pushes :
    /\ pc[p] \in {"idle", "accepted", "exporting"} => hash[p] = p
    /\ pc[p] = "exporting" => \A r, s \in rows : r.hash = p /\ s.hash = p => r = s
    /\ pc[p] \notin {"ended", "lost"} => outcome[p] # "Crashed"
NoTemp == \A p \in Pushes :
    hash[p] # p /\ outcome[p] # "Crashed" => \A r \in rows : r.hash # p

\* The prefix of a push's id finds its only row.
LEMMA OnlyRowGoes ==
    ASSUME TypeOK, NEW p, \A r, s \in rows : r.hash = p /\ s.hash = p => r = s, DeleteCommit({p})
    PROVE  \A r \in rows' : r.hash # p
<1>1. ASSUME NEW r \in rows, r.hash = p PROVE r \in First({p})
  <2>1. r.time \in Nat
    <3>1. r \in Row
      BY DEF TypeOK
    <3>2. r.time \in 0..MaxTime
      BY <3>1 DEF Row
    <3> QED
      BY ONLY <3>2, BoundsAssumption DEF BoundsAssumption
  <2>2. \A s \in rows : s.hash = p => r.time <= s.time
    BY <1>1, <2>1
  <2> QED
    BY <1>1, <2>2 DEF First
<1>2. CASE First({p}) = {} /\ UNCHANGED rows
  BY <1>1, <1>2
<1>3. CASE \E r \in First({p}) : rows' = rows \ {r}
  <2>1. PICK r \in First({p}) : rows' = rows \ {r}
    BY <1>3
  <2>2. r \in rows /\ r.hash = p
    BY <2>1 DEF First
  <2> QED
    BY <2>1, <2>2
<1> QED
  BY <1>2, <1>3 DEF DeleteCommit

\* A commit is not under the id of another push.
LEMMA TempStep ==
    ASSUME IInv, [Next]_vars, TempInv, NoTemp
    PROVE  TempInv' /\ NoTemp'
<1> USE TransfersAssumption, HashAssumption
<1>0. /\ TypeOK /\ hash \in [Pushes -> Ids]
      /\ pc \in [Transfers -> Running \cup {"idle", "ended", "lost"}]
      /\ outcome = [t \in Transfers |-> outcome[t]]
      /\ rows \subseteq Row
  BY Zenon DEF IInv, TypeOK
<1> SUFFICES ASSUME NEW p \in Pushes
             PROVE  /\ pc'[p] \in {"idle", "accepted", "exporting"} => hash'[p] = p
                    /\ pc'[p] = "exporting" => \A r, s \in rows' : r.hash = p /\ s.hash = p => r = s
                    /\ pc'[p] \notin {"ended", "lost"} => outcome'[p] # "Crashed"
                    /\ hash'[p] # p /\ outcome'[p] # "Crashed" => \A r \in rows' : r.hash # p
  BY DEF TempInv, NoTemp
<1> DEFINE One(R) == \A r, s \in R : r.hash = p /\ s.hash = p => r = s
           None(R) == \A r \in R : r.hash # p
           Good == /\ pc'[p] \in {"idle", "accepted", "exporting"} => hash'[p] = p
                   /\ pc'[p] = "exporting" => One(rows')
                   /\ pc'[p] \notin {"ended", "lost"} => outcome'[p] # "Crashed"
                   /\ hash'[p] # p /\ outcome'[p] # "Crashed" => None(rows')
<1>1. /\ pc[p] \in {"idle", "accepted", "exporting"} => hash[p] = p
      /\ pc[p] = "exporting" => One(rows)
      /\ pc[p] \notin {"ended", "lost"} => outcome[p] # "Crashed"
      /\ hash[p] # p /\ outcome[p] # "Crashed" => None(rows)
      /\ p \in Transfers /\ p \notin Hashes /\ HashOf[p] # p
  BY DEF TempInv, NoTemp, Transfers
<1>2. pc[p] \in {"idle", "accepted"} => None(rows)
  <2>1. \A r \in rows : r.of \in Transfers /\ r.hash \in {r.of, HashOf[r.of]} /\ pc[r.of] \notin {"idle", "accepted"}
    BY <1>0 DEF IInv, RowsFit, Row
  <2> QED
    BY <1>1, <2>1
\* Nothing of the push itself happens, and no row of its id appears.
<1>3. ASSUME hash'[p] = hash[p], outcome'[p] = outcome[p],
             pc'[p] = pc[p] \/ (pc'[p] \in {"accepted", "lost"} /\ pc[p] # "ended"),
             pc'[p] = "accepted" => pc[p] \in {"idle", "accepted"},
             \A r \in rows' : r.hash = p => r \in rows
      PROVE  Good
  <2>1. pc'[p] = "exporting" => pc[p] = "exporting"
    BY <1>3
  <2>2. One(rows) => One(rows')
    BY <1>3
  <2>3. None(rows) => None(rows')
    BY <1>3
  <2>4. pc'[p] \in {"idle", "accepted", "exporting"} => pc[p] \in {"idle", "accepted", "exporting"}
    BY <1>3
  <2> HIDE DEF One, None
  <2> QED
    BY <1>1, <1>3, <2>1, <2>2, <2>3, <2>4
<1>4. ASSUME NEW t \in Transfers, NEW id \in Ids, NEW status \in Final \cup {"Pending"},
             RecordCommit(t, id, status)
      PROVE  \A r \in rows' : r.hash = id \/ r \in rows
  <2>1. PICK n : n = [time |-> time, hash |-> id, status |-> status, of |-> t]
    OBVIOUS
  <2>2. \A r \in rows' : r = n \/ r \in rows
    <3>1. t \in Transfers /\ id \in Ids /\ status \in Final \cup {"Pending"}
      OBVIOUS
    <3> QED
      BY ONLY <1>0, <1>4, <2>1, <3>1, RecordCommitLemma
  <2> QED
    BY <2>1, <2>2
<1>5. ASSUME NEW q \in Pushes, Dispatch(q) \/ Poll(q) \/ GiveUp(q) PROVE Good
  <2>1. hash' = hash /\ outcome' = outcome /\ rows' = rows
    BY <1>5 DEF Dispatch, Poll, GiveUp
  <2>2. pc'[p] = pc[p] \/ (pc[p] = "idle" /\ pc'[p] = "accepted")
    BY <1>0, <1>1, <1>5 DEF Dispatch, Step, Poll, GiveUp
  <2> HIDE DEF Good
  <2> QED
    BY <1>3, <2>1, <2>2
<1>6. ASSUME NEW q \in Pushes, q # p,
             RecordTemp(q) \/ ExportFails(q) \/ RecordPending(q) \/ RecordOutcome(q) \/ Recover(q)
      PROVE  Good
  <2>1. hash' = hash /\ pc'[p] = pc[p] /\ outcome'[p] = outcome[p]
    BY <1>0, <1>1, <1>6 DEF RecordTemp, ExportFails, RecordPending, RecordOutcome, Recover, Step, Ends
  <2>2. hash[q] # p /\ q \in Ids /\ hash[q] \in Ids /\ q \in Transfers
    BY <1>0, <1>1, <1>6 DEF IInv, HashFits, Transfers, Ids
  <2>3. \E id \in {q, hash[q]}, status \in Final \cup {"Pending"} : RecordCommit(q, id, status)
    <3>1. {"Failed", "Crashed"} \subseteq Final
      BY FinalAssumption, Zenon DEF FinalAssumption
    <3> QED
      BY <1>6, <3>1 DEF RecordTemp, ExportFails, RecordPending, RecordOutcome, Recover
  <2>4. \A r \in rows' : r.hash = p => r \in rows
    BY <1>4, <1>6, <2>2, <2>3
  <2> HIDE DEF Good
  <2> QED
    BY <1>3, <2>1, <2>4
<1>7. ASSUME NEW q \in Pushes, q # p, HashFile(q) PROVE Good
  <2>1. hash'[p] = hash[p] /\ pc'[p] = pc[p] /\ outcome' = outcome
    BY <1>0, <1>1, <1>7 DEF HashFile, Step
  <2>2. rows' \subseteq rows
    BY <1>7, DeleteCommitLemma DEF HashFile
  <2> HIDE DEF Good
  <2> QED
    BY <1>3, <2>1, <2>2
<1>8. ASSUME NEW i \in Imports, Import(i) PROVE Good
  <2>1. hash' = hash /\ i # p
    BY <1>8 DEF Import
  <2>2. pc'[p] = pc[p] /\ outcome'[p] = outcome[p]
    BY <1>0, <1>1, <1>8, <2>1 DEF Import, Step, Ends
  <2>3. PICK status \in Final : RecordCommit(i, HashOf[i], status)
    BY <1>8 DEF Import
  <2>4. i \in Transfers /\ HashOf[i] \in Ids /\ HashOf[i] # p
    BY <1>1 DEF Transfers, Ids
  <2>5. \A r \in rows' : r.hash = p => r \in rows
    BY <1>4, <2>3, <2>4
  <2> HIDE DEF Good
  <2> QED
    BY <1>3, <2>1, <2>2, <2>5
<1>9. ASSUME GC \/ Crash \/ Tick \/ UNCHANGED vars PROVE Good
  <2>1. hash' = hash /\ outcome' = outcome
    BY <1>9 DEF GC, Crash, Tick, vars
  <2>2. rows' \subseteq rows
    <3>1. CASE GC
      BY <3>1, DeleteCommitLemma DEF GC
    <3>2. CASE Crash \/ Tick \/ UNCHANGED vars
      BY <3>2 DEF Crash, Tick, vars
    <3> QED
      BY <1>9, <3>1, <3>2
  <2>3. pc'[p] = pc[p] \/ (pc'[p] = "lost" /\ pc[p] \in Running)
    BY <1>0, <1>1, <1>9 DEF GC, Crash, Tick, vars
  <2>4. pc'[p] = pc[p] \/ (pc'[p] = "lost" /\ pc[p] # "ended")
    BY <2>3 DEF Running
  <2>5. pc'[p] = "accepted" => pc[p] = "accepted"
    BY <2>3
  <2>6. /\ hash'[p] = hash[p] /\ outcome'[p] = outcome[p]
        /\ \A r \in rows' : r.hash = p => r \in rows
    BY <2>1, <2>2
  <2>7. pc'[p] = "accepted" => pc[p] \in {"idle", "accepted"}
    BY <2>5
  <2>8. pc'[p] = pc[p] \/ (pc'[p] \in {"accepted", "lost"} /\ pc[p] # "ended")
    BY <2>4
  <2> HIDE DEF Good
  <2> QED
    BY ONLY <1>3, <2>6, <2>7, <2>8
<1>10. ASSUME Start PROVE Good
  <2>1. hash' = hash /\ outcome' = outcome /\ pc' = pc
        /\ rows' = {IF r.status = "Pending" THEN [r EXCEPT !.status = "Failed"] ELSE r : r \in rows}
    BY <1>10 DEF Start, FailPendingTransfers
  <2>2. None(rows) => None(rows')
    <3> SUFFICES ASSUME None(rows), NEW r \in rows' PROVE r.hash # p
      OBVIOUS
    <3>1. PICK s \in rows : r = IF s.status = "Pending" THEN [s EXCEPT !.status = "Failed"] ELSE s
      BY <2>1
    <3> QED
      BY <1>0, <3>1 DEF Row
  <2>3. pc'[p] # "exporting"
    BY <1>1, <1>10, <2>1 DEF IInv, NobodyRuns, Start, Running
  <2>4. hash'[p] = hash[p] /\ outcome'[p] = outcome[p] /\ pc'[p] = pc[p]
    BY <2>1
  <2> HIDE DEF None, One
  <2> QED
    BY ONLY <1>1, <2>2, <2>3, <2>4 DEF Good
<1>11. ASSUME RecordTemp(p) PROVE Good
  <2>1. hash' = hash /\ outcome' = outcome /\ pc[p] = "accepted" /\ RecordCommit(p, p, "Pending")
    BY <1>11 DEF RecordTemp, Step
  <2>2. None(rows) /\ hash[p] = p
    BY <1>1, <1>2, <2>1
  <2>3. One(rows')
    <3>1. PICK n : n = [time |-> time, hash |-> p, status |-> "Pending", of |-> p]
      OBVIOUS
    <3>2. p \in Transfers /\ p \in Ids
      BY <1>1 DEF Ids
    <3>3. \A r \in rows' : r = n \/ r \in rows
      BY ONLY <1>0, <2>1, <3>1, <3>2, RecordCommitLemma
    <3> QED
      BY <2>2, <3>3
  <2>4. hash'[p] = p /\ outcome'[p] # "Crashed"
    BY <1>1, <2>1, <2>2
  <2> QED
    BY <2>3, <2>4
<1>12. ASSUME ExportFails(p) PROVE Good
  <2>1. hash' = hash /\ pc[p] = "exporting" /\ pc'[p] = "ended"
    BY <1>0, <1>1, <1>12 DEF ExportFails, Step
  <2> QED
    BY <1>1, <2>1
<1>13. ASSUME HashFile(p) PROVE Good
  <2>1. outcome' = outcome /\ pc[p] = "exporting" /\ pc'[p] = "hashed"
    BY <1>0, <1>1, <1>13 DEF HashFile, Step
  <2>2. One(rows) /\ hash[p] = p
    BY <1>1, <2>1
  <2>3. outcome'[p] # "Crashed"
    BY <1>1, <2>1
  <2>4. CASE DeleteCommit({p})
    <3>1. None(rows')
      BY ONLY <1>0, <2>2, <2>4, OnlyRowGoes
    <3> QED
      BY <2>1, <2>3, <3>1
  <2>5. CASE UNCHANGED <<rows, hash>>
    BY <2>1, <2>2, <2>5, <2>3
  <2> QED
    BY <1>13, <2>4, <2>5 DEF HashFile
<1>14. ASSUME RecordPending(p) \/ RecordOutcome(p) PROVE Good
  <2>1. /\ hash' = hash /\ pc'[p] \in {"pushing", "ended"} /\ hash[p] \in Ids
        /\ pc[p] \in {"hashed", "pushing"}
    BY <1>0, <1>1, <1>14 DEF RecordPending, RecordOutcome, Step
  <2>2. PICK status \in Final \cup {"Pending"} : RecordCommit(p, hash[p], status)
    BY <1>14 DEF RecordPending, RecordOutcome
  <2>3. \A r \in rows' : r.hash = hash[p] \/ r \in rows
    BY <1>1, <1>4, <2>1, <2>2
  <2>4. outcome[p] # "Crashed" /\ (pc'[p] = "ended" \/ outcome'[p] = outcome[p])
    <3>1. RecordPending(p) => outcome' = outcome
      BY DEF RecordPending
    <3>2. RecordOutcome(p) => pc'[p] = "ended"
      BY <1>0, <1>1 DEF RecordOutcome, Step
    <3> QED
      BY <1>1, <1>14, <2>1, <3>1, <3>2
  <2> QED
    BY <1>1, <2>1, <2>3, <2>4
<1>15. ASSUME Recover(p) PROVE Good
  <2>1. hash' = hash /\ pc'[p] = "ended" /\ outcome'[p] = "Crashed"
    BY <1>0, <1>1, <1>15 DEF Recover, Step, Ends
  <2> QED
    BY <2>1
<1> HIDE DEF Good
<1>16. Good
  BY <1>5, <1>6, <1>7, <1>8, <1>9, <1>10, <1>11, <1>12, <1>13, <1>14, <1>15 DEF Next, Push
<1> QED
  BY <1>16 DEF Good

\* A push whose tarball got its hash leaves no temporary row behind: its own
\* DeleteCommit finds the row, no other transfer writes under that id, and only
\* the deferred recover brings one back.
THEOREM NoTemporaryLeft == Spec => []NoTemp
<1>1. Init => TempInv /\ NoTemp
  <2> SUFFICES ASSUME Init PROVE TempInv /\ NoTemp
    OBVIOUS
  <2>1. rows = {} /\ \A p \in Pushes : hash[p] = p
    BY DEF Init
  <2>2. \A p \in Pushes : outcome[p] # "Crashed"
    BY Zenon DEF Init, Transfers
  <2> QED
    BY <2>1, <2>2 DEF TempInv, NoTemp
<1>2. IInv /\ [Next]_vars /\ TempInv /\ NoTemp => (TempInv /\ NoTemp)'
  BY TempStep
<1> QED
  BY <1>1, <1>2, Inductive, PTL DEF Spec

=============================================================================
