------------------------ MODULE TransferSession_proofs ------------------------
(***************************************************************************)
(* What holds of any number of pushes, chunks and cancellations.            *)
(***************************************************************************)
EXTENDS TransferSession, TLAPS

Late == Cleaning \cup {"ended"}
Whole == {"stitching", "handing", "loaded"}
Silent == {"idle", "starting", "resolving", "exporting", "dialing", "dialed", "announced"}
Pending == {"announced", "asked", "pruning", "pruned", "opening"} \cup Streaming \cup Cleaning

\* How far a push has come bounds what it has sent and recorded.
SendInv == \A p \in Pushes :
    /\ spc[p] \in Silent => sent[p] = 0
    /\ spc[p] \in {"asked", "pruning", "pruned"} => sent[p] \in {0, 1}
    /\ sent[p] = Full =>
          spc[p] \in {"wrote", "copied"} \cup Late /\ outcome[p] \notin {"Failed", "Rejected"}
    /\ spc[p] \notin Late => outcome[p] = ""
    /\ scancel[p] => spc[p] \in Streaming \cup Late

\* The receiver reads what was sent and completes only what is whole.
ReceiveInv == \A p \in Pushes :
    /\ recvd[p] <= sent[p]
    /\ rpc[p] \in {"asking", "approved", "refused", "replied"} => recvd[p] = 1
    /\ rpc[p] \in Whole => recvd[p] = Full
    /\ verdict[p] = "Completed" => rpc[p] \in Whole

\* A push past the negotiation has been approved, and an approval is final.
ReplyInv == \A p \in Pushes :
    /\ spc[p] \in {"pruning", "pruned", "opening"} \cup Streaming \/ sent[p] > 1
          => reply[p] = "yes"
    /\ reply[p] = "yes" =>
          rpc[p] \notin {"none", "accepted", "asking", "approved", "refused"}
    /\ verdict[p] = "Rejected" => rpc[p] = "gone" /\ reply[p] # "yes"

\* Whatever a Manager holds is at work.
MapInv ==
    /\ pend # None => spc[pend] \in Pending
    /\ swriter # None => spc[swriter] \in Streaming \cup {"closing"}
    /\ approval # None => rpc[approval] = "asking"
    /\ rwriter # None => rpc[rwriter] \in {"receiving", "verifying"}

\* A payload has a chunk, so a whole transfer is more than a request and a header.
LEMMA FullSize == Full \in Nat /\ Full > 2
BY ChunksAssumption DEF Full

\* The counters of messages are naturals no greater than a whole transfer.
LEMMA Counted ==
    ASSUME TypeOK, NEW p \in Pushes
    PROVE  sent[p] \in 0..Full /\ recvd[p] \in 0..Full /\ sent[p] \in Nat /\ recvd[p] \in Nat
BY FullSize DEF TypeOK, CountType

\* A step of a sender moves no other push.
LEMMA SenderFrame ==
    ASSUME TypeOK, NEW p \in Pushes, Dispatch(p) \/ SenderNext(p)
    PROVE  \A q \in Pushes \ {p} : spc'[q] = spc[q] /\ sent'[q] = sent[q] /\ outcome'[q] = outcome[q]
<1>1. \E x, y, z : /\ spc' = [spc EXCEPT ![p] = x]
                   /\ sent' = sent \/ sent' = [sent EXCEPT ![p] = y]
                   /\ outcome' = outcome \/ outcome' = [outcome EXCEPT ![p] = z]
  <2> USE DEF SStep, Ends
  <2>1. CASE Dispatch(p) \/ Prepare(p) \/ Resolve(p) \/ Export(p) \/ Dial(p)
    BY <2>1 DEF Dispatch, Prepare, Resolve, Export, Dial
  <2>2. CASE Announce(p) \/ SendRequest(p) \/ Negotiate(p) \/ Prune(p) \/ SendHeader(p)
    BY <2>2 DEF Announce, SendRequest, Negotiate, Prune, SendHeader
  <2>3. CASE OpenWriter(p) \/ Write(p) \/ Wrote(p)
    BY <2>3 DEF OpenWriter, Write, Wrote
  <2>4. CASE Conclude(p) \/ Cleanup(p) \/ Leave(p)
    BY <2>4 DEF Conclude, Cleanup, Leave
  <2> QED BY <2>1, <2>2, <2>3, <2>4 DEF SenderNext
<1>2. spc \in [Pushes -> SenderPCs] /\ sent \in [Pushes -> 0..Full] /\ outcome \in [Pushes -> Rows]
  BY DEF TypeOK, ControlType, CountType
<1> QED BY ONLY <1>1, <1>2

\* Nor does a step of a handler.
LEMMA HandlerFrame ==
    ASSUME TypeOK, NEW p \in Pushes, ReceiverNext(p)
    PROVE  \A q \in Pushes \ {p} : /\ rpc'[q] = rpc[q] /\ recvd'[q] = recvd[q]
                                   /\ verdict'[q] = verdict[q] /\ reply'[q] = reply[q]
<1>1. \E x, y, z, w : /\ rpc' = rpc \/ rpc' = [rpc EXCEPT ![p] = x]
                      /\ recvd' = recvd \/ recvd' = [recvd EXCEPT ![p] = y]
                      /\ verdict' = verdict \/ verdict' = [verdict EXCEPT ![p] = z]
                      /\ reply' = reply \/ reply' = [reply EXCEPT ![p] = w]
  <2> USE DEF RStep, Records, Abandon
  <2>1. CASE Accept(p) \/ ReadRequest(p) \/ RequestTimesOut(p) \/ UserAnswers(p) \/ Resolved(p)
    BY <2>1 DEF Accept, ReadRequest, RequestTimesOut, UserAnswers, Resolved
  <2>2. CASE Refuse(p) \/ Reply(p) \/ ReadHeader(p) \/ ReadChunk(p) \/ ReadFails(p)
    BY <2>2 DEF Refuse, Reply, ReadHeader, ReadChunk, ReadFails
  <2>3. CASE ReadEnd(p) \/ Verify(p) \/ Stitch(p) \/ Load(p)
    BY <2>3 DEF ReadEnd, Verify, Stitch, Load
  <2> QED BY <2>1, <2>2, <2>3 DEF ReceiverNext
<1>2. /\ rpc \in [Pushes -> ReceiverPCs] /\ recvd \in [Pushes -> 0..Full]
      /\ verdict \in [Pushes -> Rows] /\ reply \in [Pushes -> {"", "yes", "no"}]
  BY DEF TypeOK, ControlType, CountType
<1> QED BY ONLY <1>1, <1>2

\* What was ever cancelled stays wanted so.
LEMMA WantedGrows ==
    ASSUME [Next]_vars
    PROVE  wanted \subseteq wanted'
<1> USE DEF userVars
<1>1. ASSUME NEW p \in Pushes, Dispatch(p) \/ SenderNext(p) PROVE wanted' = wanted
  BY <1>1 DEF SenderNext, SUnchanged, Dispatch, Prepare, Resolve, Export, Dial, Announce,
     SendRequest, Negotiate, Prune, SendHeader, OpenWriter, Write, Wrote, Conclude, Cleanup, Leave
<1>2. ASSUME NEW p \in Pushes, ReceiverNext(p) PROVE wanted' = wanted
  BY <1>2 DEF ReceiverNext, RUnchanged, Accept, ReadRequest, RequestTimesOut, UserAnswers,
     Resolved, Refuse, Reply, ReadHeader, ReadChunk, ReadFails, ReadEnd, Verify, Stitch, Load
<1>3. ASSUME NEW p \in Pushes, ReadBack(p) \/ Deliver(p) \/ Lose(p) \/ Break(p)
      PROVE  wanted' = wanted
  BY <1>3 DEF ReadBack, Deliver, Lose, Break
<1>4. ASSUME ClickSender \/ ClickPending \/ ClickReceiver PROVE wanted \subseteq wanted'
  BY <1>4 DEF ClickSender, ClickPending, ClickReceiver
<1>5. CASE UNCHANGED vars
  BY <1>5 DEF vars
<1> QED BY <1>1, <1>2, <1>3, <1>4, <1>5 DEF Next

\* Program counters, rows, channels, connections and statuses keep their types.
LEMMA ControlStep ==
    ASSUME TypeOK, [Next]_vars
    PROVE  ControlType'
<1> USE DEF TypeOK, ControlType, senderVars, receiverVars, netVars, userVars
<1>1. ASSUME NEW p \in Pushes, Dispatch(p) PROVE ControlType'
  BY <1>1 DEF SenderPCs, Streaming, Cleaning, Dispatch, SStep, SUnchanged,
     InProgress
<1>2. ASSUME NEW p \in Pushes, Prepare(p) PROVE ControlType'
  BY <1>2 DEF SenderPCs, Streaming, Cleaning, Statuses, Prepare, SStep, SUnchanged
<1>3. ASSUME NEW p \in Pushes, Resolve(p) PROVE ControlType'
  BY <1>3 DEF SenderPCs, Streaming, Cleaning, Rows, Statuses, Resolve, SStep,
     SUnchanged, Ends
<1>4. ASSUME NEW p \in Pushes, Export(p) PROVE ControlType'
  <2>1. spc' \in [Pushes -> SenderPCs]
    <3>1. spc' = [spc EXCEPT ![p] = "dialing"] \/ spc' = [spc EXCEPT ![p] = "ended"]
      BY <1>4 DEF Export, SStep
    <3>2. {"dialing", "ended"} \subseteq SenderPCs /\ spc \in [Pushes -> SenderPCs]
      BY DEF SenderPCs
    <3> QED BY ONLY <3>1, <3>2
  <2>2. outcome' \in [Pushes -> Rows] /\ shub' \in Statuses
    BY <1>4 DEF Rows, Statuses, Export, Ends
  <2>3. UNCHANGED <<receiverVars, conn, reply, api>>
    BY <1>4 DEF Export, SUnchanged
  <2> QED BY <2>1, <2>2, <2>3
<1>5. ASSUME NEW p \in Pushes, Dial(p) PROVE ControlType'
  BY <1>5 DEF SenderPCs, Streaming, Cleaning, Rows, Dial, SStep, SUnchanged, Ends
<1>6. ASSUME NEW p \in Pushes, Announce(p) PROVE ControlType'
  BY <1>6 DEF SenderPCs, Streaming, Cleaning, Statuses, Announce, SStep, SUnchanged
<1>7. ASSUME NEW p \in Pushes, SendRequest(p) PROVE ControlType'
  BY <1>7 DEF SenderPCs, Streaming, Cleaning, SendRequest, SStep, SUnchanged,
     SenderMayWrite
<1>8. ASSUME NEW p \in Pushes, Negotiate(p) PROVE ControlType'
  BY <1>8 DEF SenderPCs, Streaming, Cleaning, Rows, Statuses, Negotiate, SStep,
     SUnchanged, Ends, SenderMayRead
<1>9. ASSUME NEW p \in Pushes, Prune(p) PROVE ControlType'
  BY <1>9 DEF SenderPCs, Streaming, Cleaning, Rows, Prune, SStep, SUnchanged, Ends
<1>10. ASSUME NEW p \in Pushes, SendHeader(p) PROVE ControlType'
  BY <1>10 DEF SenderPCs, Streaming, Cleaning, Rows, SendHeader, SStep, SUnchanged,
     Ends, SenderMayWrite
<1>11. ASSUME NEW p \in Pushes, OpenWriter(p) PROVE ControlType'
  BY <1>11 DEF SenderPCs, Streaming, Cleaning, OpenWriter, SStep, SUnchanged
<1>12. ASSUME NEW p \in Pushes, Write(p) PROVE ControlType'
  BY <1>12 DEF SenderPCs, Streaming, Cleaning, Write, SStep, SUnchanged,
     SenderMayWrite
<1>13. ASSUME NEW p \in Pushes, Wrote(p) PROVE ControlType'
  BY <1>13 DEF SenderPCs, Streaming, Cleaning, Statuses, Wrote, SStep, SUnchanged,
     Progress
<1>14. ASSUME NEW p \in Pushes, Conclude(p) PROVE ControlType'
  <2>1. spc' \in [Pushes -> SenderPCs]
    BY <1>14 DEF SenderPCs, Cleaning, Conclude, SStep
  <2>2. outcome' \in [Pushes -> Rows] /\ shub' \in Statuses
    BY <1>14 DEF Rows, Statuses, Conclude, Ends
  <2>3. UNCHANGED <<receiverVars, netVars, api>>
    BY <1>14 DEF Conclude, SUnchanged
  <2> QED BY <2>1, <2>2, <2>3
<1>15. ASSUME NEW p \in Pushes, Cleanup(p) PROVE ControlType'
  BY <1>15 DEF SenderPCs, Streaming, Cleaning, Cleanup, SStep, SUnchanged
<1>16. ASSUME NEW p \in Pushes, Leave(p) PROVE ControlType'
  BY <1>16 DEF SenderPCs, Streaming, Cleaning, Leave, SStep, SUnchanged,
     SenderCloses
<1>17. ASSUME NEW p \in Pushes, Accept(p) PROVE ControlType'
  BY <1>17 DEF ReceiverPCs, Accept, RStep, RUnchanged, ReceiverCloses
<1>18. ASSUME NEW p \in Pushes, ReadRequest(p) PROVE ControlType'
  BY <1>18 DEF ReceiverPCs, Statuses, ReadRequest, RStep, RUnchanged,
     ReceiverMayRead
<1>19. ASSUME NEW p \in Pushes, RequestTimesOut(p) PROVE ControlType'
  BY <1>19 DEF ReceiverPCs, RequestTimesOut, RStep, RUnchanged, ReceiverCloses
<1>20. ASSUME NEW p \in Pushes, UserAnswers(p) PROVE ControlType'
  BY <1>20 DEF ReceiverPCs, UserAnswers, RStep, RUnchanged
<1>21. ASSUME NEW p \in Pushes, Resolved(p) PROVE ControlType'
  BY <1>21 DEF ReceiverPCs, Resolved, RStep, RUnchanged
<1>22. ASSUME NEW p \in Pushes, Refuse(p) PROVE ControlType'
  BY <1>22 DEF ReceiverPCs, Rows, Statuses, Refuse, RStep, RUnchanged,
     ReceiverCloses, Records
<1>23. ASSUME NEW p \in Pushes, Reply(p) PROVE ControlType'
  <2>1. rpc' \in [Pushes -> ReceiverPCs]
    <3>1. rpc' = [rpc EXCEPT ![p] = "replied"] \/ rpc' = [rpc EXCEPT ![p] = "gone"]
      BY <1>23 DEF Reply, RStep
    <3>2. {"replied", "gone"} \subseteq ReceiverPCs /\ rpc \in [Pushes -> ReceiverPCs]
      BY DEF ReceiverPCs
    <3> QED BY ONLY <3>1, <3>2
  <2>2. verdict' \in [Pushes -> Rows] /\ reply' \in [Pushes -> {"", "yes", "no"}]
    BY <1>23 DEF Rows, Reply, Records
  <2>3. conn' \in [Pushes -> {"none", "open", "sclosed", "rclosed", "broken"}]
    BY <1>23 DEF Reply, ReceiverCloses
  <2>4. UNCHANGED <<senderVars, resp, api, rhub>>
    BY <1>23 DEF Reply, RUnchanged
  <2> QED BY <2>1, <2>2, <2>3, <2>4
<1>24. ASSUME NEW p \in Pushes, ReadHeader(p) PROVE ControlType'
  <2>1. rpc' \in [Pushes -> ReceiverPCs]
    <3>1. rpc' = [rpc EXCEPT ![p] = "receiving"] \/ rpc' = [rpc EXCEPT ![p] = "gone"]
      BY <1>24 DEF ReadHeader, RStep, Abandon
    <3>2. {"receiving", "gone"} \subseteq ReceiverPCs /\ rpc \in [Pushes -> ReceiverPCs]
      BY DEF ReceiverPCs
    <3> QED BY ONLY <3>1, <3>2
  <2>2. verdict' \in [Pushes -> Rows] /\ rhub' \in Statuses
    BY <1>24 DEF Rows, Statuses, ReadHeader, Abandon, Records
  <2>3. conn' \in [Pushes -> {"none", "open", "sclosed", "rclosed", "broken"}]
    BY <1>24 DEF ReadHeader, Abandon, ReceiverCloses
  <2>4. UNCHANGED <<senderVars, resp, reply, api>>
    BY <1>24 DEF ReadHeader, RUnchanged
  <2> QED BY <2>1, <2>2, <2>3, <2>4
<1>25. ASSUME NEW p \in Pushes, ReadChunk(p) PROVE ControlType'
  BY <1>25 DEF ReceiverPCs, Statuses, ReadChunk, RStep, RUnchanged, MoreToRead,
     ReceiverMayRead, Progress
<1>26. ASSUME NEW p \in Pushes, ReadFails(p) PROVE ControlType'
  BY <1>26 DEF ReceiverPCs, Rows, Statuses, ReadFails, RStep, RUnchanged,
     MoreToRead, ReceiverMayRead, Abandon, ReceiverCloses, Records
<1>27. ASSUME NEW p \in Pushes, ReadEnd(p) PROVE ControlType'
  BY <1>27 DEF ReceiverPCs, Statuses, ReadEnd, RStep, RUnchanged, AtEOF
<1>28. ASSUME NEW p \in Pushes, Verify(p) PROVE ControlType'
  <2>1. rpc' \in [Pushes -> ReceiverPCs]
    <3>1. rpc' = [rpc EXCEPT ![p] = "stitching"] \/ rpc' = [rpc EXCEPT ![p] = "gone"]
      BY <1>28 DEF Verify, RStep, Abandon
    <3>2. {"stitching", "gone"} \subseteq ReceiverPCs /\ rpc \in [Pushes -> ReceiverPCs]
      BY DEF ReceiverPCs
    <3> QED BY ONLY <3>1, <3>2
  <2>2. verdict' \in [Pushes -> Rows] /\ rhub' \in Statuses
    BY <1>28 DEF Rows, Statuses, Verify, Abandon, Records
  <2>3. conn' \in [Pushes -> {"none", "open", "sclosed", "rclosed", "broken"}]
    BY <1>28 DEF Verify, Abandon, ReceiverCloses
  <2>4. UNCHANGED <<senderVars, resp, reply, api>>
    BY <1>28 DEF Verify, RUnchanged
  <2> QED BY <2>1, <2>2, <2>3, <2>4
<1>29. ASSUME NEW p \in Pushes, Stitch(p) PROVE ControlType'
  <2>1. rpc' \in [Pushes -> ReceiverPCs]
    <3>1. rpc' = [rpc EXCEPT ![p] = "handing"] \/ rpc' = [rpc EXCEPT ![p] = "gone"]
      BY <1>29 DEF Stitch, RStep, Abandon
    <3>2. {"handing", "gone"} \subseteq ReceiverPCs /\ rpc \in [Pushes -> ReceiverPCs]
      BY DEF ReceiverPCs
    <3> QED BY ONLY <3>1, <3>2
  <2>2. verdict' \in [Pushes -> Rows] /\ rhub' \in Statuses
    BY <1>29 DEF Rows, Statuses, Stitch, Abandon, Records
  <2>3. conn' \in [Pushes -> {"none", "open", "sclosed", "rclosed", "broken"}]
    BY <1>29 DEF Stitch, Abandon, ReceiverCloses
  <2>4. UNCHANGED <<senderVars, resp, reply, api>>
    BY <1>29 DEF Stitch, RUnchanged
  <2> QED BY <2>1, <2>2, <2>3, <2>4
<1>30. ASSUME NEW p \in Pushes, Load(p) PROVE ControlType'
  BY <1>30 DEF ReceiverPCs, Statuses, Load, RStep, RUnchanged, ReceiverCloses
<1>31. ASSUME NEW p \in Pushes, ReadBack(p) PROVE ControlType'
  BY <1>31 DEF Statuses, MapType, Maybe, ReadBack, SenderCancel, SenderMayRead
<1>32. ASSUME NEW p \in Pushes, Deliver(p) PROVE ControlType'
  BY <1>32 DEF Statuses, MapType, Maybe, Deliver, ReceiverCancel, CancelApproval
<1>33. ASSUME NEW p \in Pushes, Break(p) PROVE ControlType'
  BY <1>33 DEF Break
<1>34. CASE ClickSender
  BY <1>34 DEF Statuses, MapType, Maybe, ClickSender, SenderCancel
<1>35. CASE ClickPending
  BY <1>35 DEF Statuses, MapType, Maybe, ClickPending, SenderCloses
<1>36. CASE ClickReceiver
  BY <1>36 DEF Statuses, MapType, Maybe, ClickReceiver, ReceiverCancel,
     CancelApproval
<1>37. CASE UNCHANGED <<spc, rpc, outcome, verdict, resp, reply, conn, shub, rhub, api>>
  BY <1>37
<1>38. ASSUME NEW p \in Pushes,
          Lose(p)
       PROVE  UNCHANGED <<spc, rpc, outcome, verdict, resp, reply, conn, shub, rhub, api>>
  BY <1>38 DEF Lose
<1> QED
  BY <1>1, <1>2, <1>3, <1>4, <1>5, <1>6, <1>7, <1>8, <1>9, <1>10, <1>11, <1>12,
     <1>13, <1>14, <1>15, <1>16, <1>17, <1>18, <1>19, <1>20, <1>21, <1>22, <1>23,
     <1>24, <1>25, <1>26, <1>27, <1>28, <1>29, <1>30, <1>31, <1>32, <1>33, <1>34,
     <1>35, <1>36, <1>37, <1>38 DEF Next, SenderNext, ReceiverNext, vars

\* The two canceled flags and the byte that travels back stay Boolean.
LEMMA FlagStep ==
    ASSUME TypeOK, [Next]_vars
    PROVE  FlagType'
<1> USE DEF TypeOK, FlagType, MapType, Maybe, senderVars, receiverVars, netVars, userVars
<1>1. ASSUME NEW p \in Pushes, ReadBack(p) PROVE FlagType'
  BY <1>1 DEF ReadBack, SenderCancel, SenderMayRead
<1>2. ASSUME NEW p \in Pushes, Deliver(p) PROVE FlagType'
  BY <1>2 DEF Deliver, ReceiverCancel, CancelApproval
<1>3. CASE ClickSender
  BY <1>3 DEF ClickSender, SenderCancel
<1>4. CASE ClickReceiver
  BY <1>4 DEF ClickReceiver, ReceiverCancel, CancelApproval
<1>5. CASE UNCHANGED <<scancel, rcancel, back>>
  BY <1>5
<1>6. ASSUME NEW p \in Pushes,
          Dispatch(p) \/ Prepare(p) \/ Resolve(p) \/ Export(p) \/ Dial(p) \/ Announce(p)
          \/ SendRequest(p) \/ Negotiate(p) \/ Prune(p) \/ SendHeader(p)
          \/ OpenWriter(p) \/ Write(p) \/ Wrote(p) \/ Conclude(p) \/ Cleanup(p)
          \/ Leave(p) \/ Accept(p) \/ ReadRequest(p) \/ RequestTimesOut(p)
          \/ UserAnswers(p) \/ Resolved(p) \/ Refuse(p) \/ Reply(p) \/ ReadHeader(p)
          \/ ReadChunk(p) \/ ReadFails(p) \/ ReadEnd(p) \/ Verify(p) \/ Stitch(p)
          \/ Load(p) \/ Lose(p) \/ Break(p)
       PROVE  UNCHANGED <<scancel, rcancel, back>>
  BY <1>6 DEF Dispatch, SStep, SUnchanged, InProgress, Prepare, Resolve, Ends,
     Export, Dial, Announce, SendRequest, SenderMayWrite, Negotiate, SenderMayRead,
     Prune, SendHeader, OpenWriter, Write, Wrote, Progress, Conclude, Cleanup,
     Leave, SenderCloses, Accept, RStep, RUnchanged, ReceiverCloses, ReadRequest,
     ReceiverMayRead, RequestTimesOut, UserAnswers, Resolved, Refuse, Records,
     Reply, ReadHeader, MoreToRead, AtEOF, Abandon, ReadChunk, ReadFails, ReadEnd,
     Verify, Stitch, Load, Lose, Break
<1>7. ClickPending => UNCHANGED <<scancel, rcancel, back>>
  BY DEF ClickPending, SenderCloses
<1> QED
  BY <1>1, <1>2, <1>3, <1>4, <1>5, <1>6, <1>7 DEF Next, SenderNext, ReceiverNext,
     vars

\* No message is sent or read beyond a whole transfer.
LEMMA CountStep ==
    ASSUME TypeOK, SendInv, [Next]_vars
    PROVE  CountType'
<1> USE DEF TypeOK, CountType, senderVars, receiverVars, netVars, userVars
<1>0. Full \in Nat /\ Full > 2
  BY FullSize
<1>1. ASSUME NEW p \in Pushes, SendRequest(p) PROVE CountType'
  <2>1. sent' \in [Pushes -> 0..Full]
    BY <1>0, <1>1 DEF SendRequest, SStep, SUnchanged, SenderMayWrite
  <2>2. UNCHANGED <<recvd, ctl, clicks>>
    BY <1>0, <1>1 DEF SendRequest, SUnchanged
  <2>3. \A q \in Pushes : spc'[q] = "streaming" => spc[q] = "streaming" /\ sent'[q] = sent[q]
    BY <1>0, <1>1 DEF ControlType, SendRequest, SStep
  <2> QED BY <2>1, <2>2, <2>3
<1>2. ASSUME NEW p \in Pushes, SendHeader(p) PROVE CountType'
  <2>1. sent' \in [Pushes -> 0..Full]
    BY <1>0, <1>2 DEF SendHeader, SStep, SUnchanged, Ends, SenderMayWrite
  <2>2. UNCHANGED <<recvd, ctl, clicks>>
    BY <1>0, <1>2 DEF SendHeader, SUnchanged
  <2>3. \A q \in Pushes : spc'[q] = "streaming" => spc[q] = "streaming" /\ sent'[q] = sent[q]
    BY <1>0, <1>2 DEF ControlType, SendHeader, SStep
  <2> QED BY <2>1, <2>2, <2>3
<1>3. ASSUME NEW p \in Pushes, OpenWriter(p) PROVE CountType'
  <2>1. UNCHANGED <<sent, recvd, ctl, clicks>>
    BY <1>0, <1>3 DEF OpenWriter, SUnchanged
  <2>2. \A q \in Pushes \ {p} : spc'[q] = spc[q]
    BY <1>0, <1>3 DEF ControlType, OpenWriter, SStep
  <2>3. spc'[p] = "streaming" => sent[p] # Full
    BY <1>0, <1>3 DEF ControlType, OpenWriter, SStep, SendInv, Late, Cleaning
  <2>4. spc'[p] = "streaming" => sent[p] < Full
    BY ONLY <2>3, Counted, FullSize, TypeOK, p \in Pushes
  <2> QED BY <2>1, <2>2, <2>3, <2>4
<1>4. ASSUME NEW p \in Pushes, Write(p) PROVE CountType'
  <2>1. sent' \in [Pushes -> 0..Full]
    BY <1>0, <1>4 DEF Write, SStep, SUnchanged, SenderMayWrite
  <2>2. UNCHANGED <<recvd, ctl, clicks>>
    BY <1>0, <1>4 DEF Write, SUnchanged
  <2>3. \A q \in Pushes : spc'[q] = "streaming" => spc[q] = "streaming" /\ sent'[q] = sent[q]
    BY <1>0, <1>4 DEF ControlType, Write, SStep
  <2> QED BY <2>1, <2>2, <2>3
<1>5. ASSUME NEW p \in Pushes, Wrote(p) PROVE CountType'
  <2>1. UNCHANGED <<sent, recvd, ctl, clicks>>
    BY <1>0, <1>5 DEF Wrote, SUnchanged
  <2>2. \A q \in Pushes \ {p} : spc'[q] = spc[q]
    BY <1>0, <1>5 DEF ControlType, Wrote, SStep
  <2>3. spc'[p] = "streaming" => sent[p] # Full
    BY <1>0, <1>5 DEF ControlType, Wrote, SStep
  <2>4. spc'[p] = "streaming" => sent[p] < Full
    BY ONLY <2>3, Counted, FullSize, TypeOK, p \in Pushes
  <2> QED BY <2>1, <2>2, <2>3, <2>4
<1>6. ASSUME NEW p \in Pushes, ReadRequest(p) PROVE CountType'
  <2>1. recvd' = [recvd EXCEPT ![p] = 1]
    BY <1>0, <1>6 DEF ReadRequest
  <2>2. 1 \in 0..Full
    BY FullSize
  <2>3. UNCHANGED <<spc, sent, ctl, clicks>>
    BY <1>0, <1>6 DEF ReadRequest, RUnchanged
  <2> QED BY <2>1, <2>2, <2>3
<1>7. ASSUME NEW p \in Pushes, ReadHeader(p) PROVE CountType'
  <2>1. recvd' \in [Pushes -> 0..Full]
    BY <1>0, <1>7 DEF ReadHeader, RStep, RUnchanged, MoreToRead, ReceiverMayRead, AtEOF,
       Abandon, ReceiverCloses, Records
  <2>2. UNCHANGED <<spc, sent, ctl, clicks>>
    BY <1>0, <1>7 DEF ReadHeader, RUnchanged
  <2> QED BY <2>1, <2>2
<1>8. ASSUME NEW p \in Pushes, ReadChunk(p) PROVE CountType'
  <2>1. recvd' \in [Pushes -> 0..Full]
    BY <1>0, <1>8 DEF ReadChunk, RStep, RUnchanged, MoreToRead, ReceiverMayRead, Progress
  <2>2. UNCHANGED <<spc, sent, ctl, clicks>>
    BY <1>0, <1>8 DEF ReadChunk, RUnchanged
  <2> QED BY <2>1, <2>2
<1>9. ASSUME NEW p \in Pushes, ReadBack(p) PROVE CountType'
  <2>1. ctl' = ctl \/ ctl' = [ctl EXCEPT ![p] = @ + 1]
    BY <1>0, <1>9 DEF ReadBack, SenderCancel
  <2>2. UNCHANGED <<spc, sent, recvd, clicks>>
    BY <1>0, <1>9 DEF ReadBack
  <2> QED BY <2>1, <2>2
<1>10. ASSUME NEW p \in Pushes, Deliver(p) PROVE CountType'
  <2>1. ctl[p] > 0 /\ ctl' = [ctl EXCEPT ![p] = @ - 1] /\ UNCHANGED <<spc, sent, recvd, clicks>>
    BY <1>0, <1>10 DEF Deliver
  <2>2. ctl[p] - 1 \in Nat
    BY <2>1
  <2> QED BY <2>1, <2>2
<1>11. ASSUME NEW p \in Pushes, Lose(p) PROVE CountType'
  <2>1. ctl[p] > 0 /\ ctl' = [ctl EXCEPT ![p] = @ - 1] /\ UNCHANGED <<spc, sent, recvd, clicks>>
    BY <1>0, <1>11 DEF Lose
  <2>2. ctl[p] - 1 \in Nat
    BY <2>1
  <2> QED BY <2>1, <2>2
<1>12. CASE ClickSender
  <2>1. ctl' = ctl \/ ctl' = [ctl EXCEPT ![swriter] = @ + 1]
    BY <1>0, <1>12 DEF ClickSender, SenderCancel
  <2>2. clicks < MaxClicks /\ clicks' = clicks + 1
    BY <1>0, <1>12 DEF ClickSender
  <2>3. UNCHANGED <<spc, sent, recvd>>
    BY <1>0, <1>12 DEF ClickSender
  <2>4. clicks' \in 0..MaxClicks
    BY <2>2, ClicksAssumption
  <2>5. ctl' \in [Pushes -> Nat]
    BY <2>1
  <2> QED BY <2>1, <2>2, <2>3, <2>4, <2>5
<1>13. CASE ClickPending
  <2>1. ctl' = ctl \/ ctl' = [ctl EXCEPT ![pend] = @ + 1]
    BY <1>0, <1>13 DEF ClickPending
  <2>2. UNCHANGED <<spc, sent, recvd, clicks>>
    BY <1>0, <1>13 DEF ClickPending
  <2> QED BY <2>1, <2>2
<1>14. CASE ClickReceiver
  <2>1. clicks < MaxClicks /\ clicks' = clicks + 1
    BY <1>0, <1>14 DEF ClickReceiver
  <2>2. UNCHANGED <<spc, sent, recvd, ctl>>
    BY <1>0, <1>14 DEF ClickReceiver
  <2>3. clicks' \in 0..MaxClicks
    BY <2>1, ClicksAssumption
  <2> QED BY <2>1, <2>2, <2>3
<1>15. ASSUME UNCHANGED <<sent, recvd, ctl, clicks>>,
              \A q \in Pushes : spc'[q] = "streaming" => spc[q] = "streaming"
       PROVE  CountType'
  BY <1>0, <1>15
<1>16. ASSUME NEW p \in Pushes,
          Dispatch(p) \/ Prepare(p) \/ Resolve(p) \/ Export(p) \/ Dial(p) \/ Announce(p)
          \/ Negotiate(p) \/ Prune(p) \/ Conclude(p) \/ Cleanup(p) \/ Leave(p)
          \/ Accept(p) \/ RequestTimesOut(p) \/ UserAnswers(p) \/ Resolved(p)
          \/ Refuse(p) \/ Reply(p) \/ ReadFails(p) \/ ReadEnd(p) \/ Verify(p)
          \/ Stitch(p) \/ Load(p) \/ Break(p)
       PROVE  /\ UNCHANGED <<sent, recvd, ctl, clicks>>
              /\ \A q \in Pushes : spc'[q] = "streaming" => spc[q] = "streaming"
  BY <1>0, <1>16 DEF ControlType, Dispatch, SStep, SUnchanged, InProgress, Prepare,
     Resolve, Ends,
     Export, Dial, Announce, Negotiate, SenderMayRead, Prune, Conclude, Cleanup,
     Leave, SenderCloses, Accept, RStep, RUnchanged, ReceiverCloses,
     RequestTimesOut, UserAnswers, Resolved, Refuse, Records, Reply, ReadFails,
     MoreToRead, ReceiverMayRead, Abandon, ReadEnd, AtEOF, Verify, Stitch, Load,
     Break
<1> QED
  BY <1>0, <1>1, <1>2, <1>3, <1>4, <1>5, <1>6, <1>7, <1>8, <1>9, <1>10, <1>11, <1>12,
     <1>13, <1>14, <1>15, <1>16 DEF Next, SenderNext, ReceiverNext, vars

\* A Manager holds nothing but pushes.
LEMMA TableStep ==
    ASSUME TypeOK, [Next]_vars
    PROVE  MapType'
<1> USE DEF TypeOK, MapType, Maybe, senderVars, receiverVars, netVars, userVars
<1>1. ASSUME NEW p \in Pushes, Announce(p) PROVE MapType'
  BY <1>1 DEF Announce, SStep, SUnchanged
<1>2. ASSUME NEW p \in Pushes, OpenWriter(p) PROVE MapType'
  BY <1>2 DEF OpenWriter, SStep, SUnchanged
<1>3. ASSUME NEW p \in Pushes, Cleanup(p) PROVE MapType'
  BY <1>3 DEF Cleanup, SStep, SUnchanged
<1>4. ASSUME NEW p \in Pushes, Leave(p) PROVE MapType'
  BY <1>4 DEF Leave, SStep, SUnchanged, SenderCloses
<1>5. ASSUME NEW p \in Pushes, ReadRequest(p) PROVE MapType'
  BY <1>5 DEF ReadRequest, RStep, RUnchanged, ReceiverMayRead
<1>6. ASSUME NEW p \in Pushes, Resolved(p) PROVE MapType'
  BY <1>6 DEF Resolved, RStep, RUnchanged
<1>7. ASSUME NEW p \in Pushes, ReadHeader(p) PROVE MapType'
  BY <1>7 DEF ReadHeader, RStep, RUnchanged, MoreToRead, ReceiverMayRead, AtEOF,
     Abandon, ReceiverCloses, Records
<1>8. ASSUME NEW p \in Pushes, ReadFails(p) PROVE MapType'
  BY <1>8 DEF ReadFails, RStep, RUnchanged, MoreToRead, ReceiverMayRead, Abandon,
     ReceiverCloses, Records
<1>9. ASSUME NEW p \in Pushes, Verify(p) PROVE MapType'
  BY <1>9 DEF Verify, RStep, RUnchanged, Abandon, ReceiverCloses, Records
<1>10. ASSUME NEW p \in Pushes, Deliver(p) PROVE MapType'
  BY <1>10 DEF Deliver, ReceiverCancel, CancelApproval
<1>11. CASE ClickSender
  BY <1>11 DEF ClickSender, SenderCancel
<1>12. CASE ClickPending
  BY <1>12 DEF ClickPending, SenderCloses
<1>13. CASE ClickReceiver
  BY <1>13 DEF ClickReceiver, ReceiverCancel, CancelApproval
<1>14. CASE UNCHANGED <<pend, swriter, approval, rwriter, wanted>>
  BY <1>14
<1>15. ASSUME NEW p \in Pushes,
          Dispatch(p) \/ Prepare(p) \/ Resolve(p) \/ Export(p) \/ Dial(p)
          \/ SendRequest(p) \/ Negotiate(p) \/ Prune(p) \/ SendHeader(p) \/ Write(p)
          \/ Wrote(p) \/ Conclude(p) \/ Accept(p) \/ RequestTimesOut(p)
          \/ UserAnswers(p) \/ Refuse(p) \/ Reply(p) \/ ReadChunk(p) \/ ReadEnd(p)
          \/ Stitch(p) \/ Load(p) \/ ReadBack(p) \/ Lose(p) \/ Break(p)
       PROVE  UNCHANGED <<pend, swriter, approval, rwriter, wanted>>
  BY <1>15 DEF Dispatch, SStep, SUnchanged, InProgress, Prepare, Resolve, Ends,
     Export, Dial, SendRequest, SenderMayWrite, Negotiate, SenderMayRead, Prune,
     SendHeader, Write, Wrote, Progress, Conclude, Accept, RStep, RUnchanged,
     ReceiverCloses, RequestTimesOut, UserAnswers, Refuse, Records, Reply,
     ReadChunk, MoreToRead, ReceiverMayRead, ReadEnd, AtEOF, Stitch, Abandon, Load,
     ReadBack, SenderCancel, Lose, Break
<1> QED
  BY <1>1, <1>2, <1>3, <1>4, <1>5, <1>6, <1>7, <1>8, <1>9, <1>10, <1>11, <1>12,
     <1>13, <1>14, <1>15 DEF Next, SenderNext, ReceiverNext, vars

\* Every step keeps the types.
LEMMA TypeStep ==
    ASSUME TypeOK, SendInv, [Next]_vars
    PROVE  TypeOK'
BY ControlStep, FlagStep, CountStep, TableStep DEF TypeOK

\* Every step keeps what a sender's position says of what it has sent.
LEMMA SendStep ==
    ASSUME TypeOK, SendInv, MapInv, [Next]_vars
    PROVE  SendInv'
<1> USE DEF TypeOK, ControlType, FlagType, CountType, SendInv, Late, Silent, Streaming,
   Cleaning, senderVars, receiverVars, netVars, userVars
<1>0. Full \in Nat /\ Full > 2
  BY FullSize
<1>1. ASSUME NEW p \in Pushes, Dispatch(p) PROVE SendInv'
  <2>1. \A q \in Pushes \ {p} : spc'[q] = spc[q]
    BY <1>1, SenderFrame
  <2>2. spc[p] = "idle" /\ spc'[p] = "starting" /\ UNCHANGED <<sent, outcome, scancel>>
    BY <1>1 DEF Dispatch, SStep
  <2>3. sent[p] = 0 /\ sent[p] # Full
    BY <1>0, <2>2
  <2> QED BY ONLY <1>1, <2>1, <2>2, <2>3, SendInv DEF SendInv, Silent, Late, Cleaning, Streaming
<1>2. ASSUME NEW p \in Pushes, Prepare(p) PROVE SendInv'
  <2>1. \A q \in Pushes \ {p} : spc'[q] = spc[q]
    BY <1>2, SenderFrame DEF SenderNext
  <2>2. spc[p] = "starting" /\ spc'[p] = "resolving" /\ UNCHANGED <<sent, outcome, scancel>>
    BY <1>2 DEF Prepare, SStep
  <2>3. sent[p] = 0 /\ sent[p] # Full
    BY <1>0, <2>2
  <2> QED BY ONLY <1>2, <2>1, <2>2, <2>3, SendInv DEF SendInv, Silent, Late, Cleaning, Streaming
<1>3. ASSUME NEW p \in Pushes, Resolve(p) PROVE SendInv'
  <2>1. \A q \in Pushes \ {p} : spc'[q] = spc[q] /\ outcome'[q] = outcome[q]
    BY <1>0, <1>3 DEF Resolve, SStep, Ends
  <2>2. UNCHANGED <<sent, scancel>>
    BY <1>0, <1>3 DEF Resolve
  <2>3. spc[p] = "resolving" /\ spc'[p] \in {"exporting", "ended"}
    BY <1>0, <1>3 DEF Resolve, SStep
  <2>4. outcome'[p] = outcome[p] \/ spc'[p] \in Late
    BY <1>0, <1>3 DEF Resolve, SStep
  <2>5. sent[p] # Full
    BY <2>3
  <2> QED BY <2>1, <2>2, <2>3, <2>4, <2>5
<1>4. ASSUME NEW p \in Pushes, Export(p) PROVE SendInv'
  <2>1. \A q \in Pushes \ {p} : spc'[q] = spc[q] /\ outcome'[q] = outcome[q]
    BY <1>0, <1>4 DEF Export, SStep, Ends
  <2>2. UNCHANGED <<sent, scancel>>
    BY <1>0, <1>4 DEF Export
  <2>3. spc[p] = "exporting" /\ spc'[p] \in {"dialing", "ended"}
    BY <1>0, <1>4 DEF Export, SStep
  <2>4. outcome'[p] = outcome[p] \/ spc'[p] \in Late
    BY <1>0, <1>4 DEF Export, SStep
  <2>5. sent[p] # Full
    BY <2>3
  <2> QED BY <2>1, <2>2, <2>3, <2>4, <2>5
<1>5. ASSUME NEW p \in Pushes, Dial(p) PROVE SendInv'
  <2>1. \A q \in Pushes \ {p} : spc'[q] = spc[q] /\ outcome'[q] = outcome[q]
    BY <1>0, <1>5 DEF Dial, SStep, Ends
  <2>2. UNCHANGED <<sent, scancel>>
    BY <1>0, <1>5 DEF Dial
  <2>3. spc[p] = "dialing" /\ spc'[p] \in {"dialed", "ended"}
    BY <1>0, <1>5 DEF Dial, SStep
  <2>4. outcome'[p] = outcome[p] \/ spc'[p] \in Late
    BY <1>0, <1>5 DEF Dial, SStep
  <2>5. sent[p] # Full
    BY <2>3
  <2> QED BY <2>1, <2>2, <2>3, <2>4, <2>5
<1>6. ASSUME NEW p \in Pushes, Announce(p) PROVE SendInv'
  <2>1. \A q \in Pushes \ {p} : sent'[q] = sent[q] /\ spc'[q] = spc[q]
    BY <1>6, SenderFrame DEF SenderNext
  <2>2. spc[p] = "dialed" /\ spc'[p] = "announced" /\ UNCHANGED <<sent, outcome, scancel>>
    BY <1>6 DEF Announce, SStep
  <2>3. sent[p] = 0 /\ sent[p] # Full
    BY <1>0, <2>2
  <2> QED BY ONLY <1>6, <2>1, <2>2, <2>3, SendInv DEF SendInv, Silent, Late, Cleaning
<1>7. ASSUME NEW p \in Pushes, SendRequest(p) PROVE SendInv'
  <2>1. \A q \in Pushes \ {p} : sent'[q] = sent[q] /\ spc'[q] = spc[q]
    BY <1>7, SenderFrame DEF SenderNext
  <2>2. spc'[p] = "asked" /\ outcome' = outcome /\ scancel' = scancel /\ spc[p] = "announced"
    BY <1>0, <1>7 DEF SendRequest, SStep
  <2>3. sent'[p] = 0 \/ sent'[p] = 1
    BY <1>0, <1>7 DEF SendRequest
  <2>4. sent'[p] # Full /\ sent'[p] \in {0, 1}
    BY ONLY <2>3, FullSize
  <2> QED BY ONLY <1>7, <2>1, <2>2, <2>4, SendInv DEF SendInv, Silent, Late, Cleaning, Streaming
<1>8. ASSUME NEW p \in Pushes, Negotiate(p) PROVE SendInv'
  <2>1. \A q \in Pushes \ {p} : spc'[q] = spc[q] /\ outcome'[q] = outcome[q]
    BY <1>0, <1>8 DEF Negotiate, SStep, Ends
  <2>2. UNCHANGED <<sent, scancel>>
    BY <1>0, <1>8 DEF Negotiate
  <2>3. spc[p] = "asked" /\ spc'[p] \in {"pruning", "leaving"}
    BY <1>0, <1>8 DEF Negotiate, SStep
  <2>4. outcome'[p] = outcome[p] \/ spc'[p] \in Late
    BY <1>0, <1>8 DEF Negotiate, SStep
  <2>5. sent[p] # Full
    BY <2>3
  <2> QED BY <2>1, <2>2, <2>3, <2>4, <2>5
<1>9. ASSUME NEW p \in Pushes, Prune(p) PROVE SendInv'
  <2>1. \A q \in Pushes \ {p} : spc'[q] = spc[q] /\ outcome'[q] = outcome[q]
    BY <1>0, <1>9 DEF Prune, SStep, Ends
  <2>2. UNCHANGED <<sent, scancel>>
    BY <1>0, <1>9 DEF Prune
  <2>3. spc[p] = "pruning" /\ spc'[p] \in {"pruned", "leaving"}
    BY <1>0, <1>9 DEF Prune, SStep
  <2>4. outcome'[p] = outcome[p] \/ spc'[p] \in Late
    BY <1>0, <1>9 DEF Prune, SStep
  <2>5. sent[p] # Full
    BY <2>3
  <2> QED BY <2>1, <2>2, <2>3, <2>4, <2>5
<1>10. ASSUME NEW p \in Pushes, SendHeader(p) PROVE SendInv'
  <2>1. \A q \in Pushes \ {p} : sent'[q] = sent[q] /\ spc'[q] = spc[q]
    BY <1>0, <1>10 DEF SendHeader, SStep
  <2>2. outcome'[p] = outcome[p] \/ spc'[p] = "leaving"
    BY <1>0, <1>10 DEF SendHeader, Ends, SStep
  <2>3. spc'[p] \in {"opening", "leaving"} /\ scancel' = scancel /\ spc[p] = "pruned"
    BY <1>0, <1>10 DEF SendHeader, SStep
  <2>4. sent[p] \in {0, 1}
    BY <1>0, <1>10 DEF SendHeader, SStep
  <2>5. sent'[p] = 2 \/ sent'[p] = sent[p]
    BY <1>0, <1>10 DEF SendHeader
  <2>6. sent'[p] # Full
    BY ONLY <2>4, <2>5, FullSize
  <2>7. \A q \in Pushes \ {p} : outcome'[q] = outcome[q]
    BY <1>0, <1>10 DEF SendHeader, Ends
  <2>8. outcome[p] = "" /\ ~scancel[p]
    BY <2>3
  <2> QED BY ONLY <1>10, <2>1, <2>2, <2>3, <2>6, <2>7, <2>8, SendInv
          DEF SendInv, Silent, Late, Cleaning, Streaming
<1>11. ASSUME NEW p \in Pushes, OpenWriter(p) PROVE SendInv'
  <2>1. \A q \in Pushes \ {p} : spc'[q] = spc[q]
    BY <1>11, SenderFrame DEF SenderNext
  <2>2. spc[p] = "opening" /\ spc'[p] = "streaming" /\ UNCHANGED <<sent, outcome, scancel>>
    BY <1>11 DEF OpenWriter, SStep
  <2>3. sent[p] # Full
    BY <2>2
  <2> QED BY ONLY <1>11, <2>1, <2>2, <2>3, SendInv DEF SendInv, Silent, Late, Cleaning, Streaming
<1>12. ASSUME NEW p \in Pushes, Write(p) PROVE SendInv'
  <2>1. \A q \in Pushes \ {p} : spc'[q] = spc[q] /\ sent'[q] = sent[q]
    BY <1>0, <1>12 DEF Write, SStep
  <2>2. UNCHANGED <<outcome, scancel>>
    BY <1>0, <1>12 DEF Write, SUnchanged
  <2>3. spc[p] = "streaming" /\ (spc'[p] = "wrote" \/ (spc'[p] = "broken" /\ sent' = sent))
    BY <1>0, <1>12 DEF Write, SStep
  <2>4. outcome[p] = "" /\ sent[p] # Full
    BY <2>3
  <2> QED BY ONLY <1>12, <2>1, <2>2, <2>3, <2>4, SendInv DEF SendInv, Silent, Late, Cleaning, Streaming
<1>13. ASSUME NEW p \in Pushes, Wrote(p) PROVE SendInv'
  BY <1>0, <1>13 DEF Wrote, SStep, SUnchanged, Progress
<1>14. ASSUME NEW p \in Pushes, Conclude(p) PROVE SendInv'
  <2>1. \A q \in Pushes \ {p} : spc'[q] = spc[q]
    BY <1>0, <1>14 DEF Conclude, SStep
  <2>2. \A q \in Pushes \ {p} : outcome'[q] = outcome[q]
    BY ONLY <1>14, TypeOK DEF TypeOK, ControlType, Conclude, Ends
  <2>3. UNCHANGED <<sent, scancel>>
    BY <1>0, <1>14 DEF Conclude, SUnchanged
  <2>4. spc'[p] = "closing"
    BY <1>0, <1>14 DEF Conclude, SStep
  <2>5. spc[p] = "broken" => sent[p] # Full
    OBVIOUS
  <2>6. outcome'[p] \in {"Canceled", "Completed"} \/ spc[p] = "broken"
    BY ONLY <1>14, TypeOK DEF TypeOK, ControlType, Conclude, Ends
  <2> QED BY <2>1, <2>2, <2>3, <2>4, <2>5, <2>6
<1>15. ASSUME NEW p \in Pushes, Cleanup(p) PROVE SendInv'
  BY <1>0, <1>15 DEF Cleanup, SStep, SUnchanged
<1>16. ASSUME NEW p \in Pushes, Leave(p) PROVE SendInv'
  BY <1>0, <1>16 DEF Leave, SStep, SUnchanged, SenderCloses
<1>17. ASSUME NEW p \in Pushes, ReadBack(p) PROVE SendInv'
  <2>1. spc[p] \in Streaming \cup Late /\ UNCHANGED <<spc, sent, outcome>>
    BY <1>17 DEF ReadBack
  <2>2. \A q \in Pushes \ {p} : scancel'[q] = scancel[q]
    BY <1>0, <1>17 DEF ReadBack, SenderCancel
  <2> QED BY ONLY <1>17, <2>1, <2>2, SendInv DEF SendInv
<1>18. CASE ClickSender
  <2>1. spc' = spc /\ sent' = sent /\ outcome' = outcome
    BY <1>18 DEF ClickSender
  <2>2. scancel' = scancel \/ (swriter # None /\ scancel' = [scancel EXCEPT ![swriter] = TRUE])
    BY <1>18 DEF ClickSender, SenderCancel
  <2>3. CASE scancel' = scancel
    BY <2>1, <2>3
  <2>4. CASE swriter # None /\ scancel' = [scancel EXCEPT ![swriter] = TRUE]
    <3>1. swriter \in Pushes /\ spc[swriter] \in Streaming \cup Late
      BY <2>4 DEF MapInv, MapType, Maybe
    <3>2. \A q \in Pushes \ {swriter} : scancel'[q] = scancel[q]
      BY <1>0, <2>4
    <3> QED BY ONLY <2>1, <3>1, <3>2, SendInv DEF SendInv
  <2> QED BY <2>1, <2>2, <2>3, <2>4
<1>19. CASE UNCHANGED <<spc, sent, outcome, scancel>>
  BY <1>19
<1>20. ASSUME NEW p \in Pushes,
          Accept(p) \/ ReadRequest(p) \/ RequestTimesOut(p) \/ UserAnswers(p)
          \/ Resolved(p) \/ Refuse(p) \/ Reply(p) \/ ReadHeader(p) \/ ReadChunk(p)
          \/ ReadFails(p) \/ ReadEnd(p) \/ Verify(p) \/ Stitch(p) \/ Load(p)
          \/ Deliver(p) \/ Lose(p) \/ Break(p)
       PROVE  UNCHANGED <<spc, sent, outcome, scancel>>
  BY <1>0, <1>20 DEF Accept, RStep, RUnchanged, ReceiverCloses, ReadRequest,
     ReceiverMayRead, RequestTimesOut, UserAnswers, Resolved, Refuse, Records,
     Reply, ReadHeader, MoreToRead, AtEOF, Abandon, ReadChunk, Progress, ReadFails,
     ReadEnd, Verify, Stitch, Load, Deliver, ReceiverCancel, CancelApproval, Lose,
     Break
<1>21. ClickPending \/ ClickReceiver => UNCHANGED <<spc, sent, outcome, scancel>>
  BY DEF ClickPending, SenderCloses, ClickReceiver, ReceiverCancel, CancelApproval
<1> QED
  BY <1>0, <1>1, <1>2, <1>3, <1>4, <1>5, <1>6, <1>7, <1>8, <1>9, <1>10, <1>11, <1>12,
     <1>13, <1>14, <1>15, <1>16, <1>17, <1>18, <1>19, <1>20, <1>21 DEF Next,
     SenderNext, ReceiverNext, vars

\* The receiver never reads ahead of the sender, nor completes a part.
LEMMA ReceiveStep ==
    ASSUME TypeOK, SendInv, ReceiveInv, [Next]_vars
    PROVE  ReceiveInv'
<1> USE DEF TypeOK, ControlType, CountType, ReceiveInv, Whole, senderVars, receiverVars,
   netVars, userVars
<1>0. Full \in Nat /\ Full > 2
  BY FullSize
<1>1. ASSUME NEW p \in Pushes, SendRequest(p) PROVE ReceiveInv'
  <2>1. rpc' = rpc /\ recvd' = recvd /\ verdict' = verdict
    BY <1>0, <1>1 DEF SendRequest, SUnchanged
  <2>2. \A q \in Pushes \ {p} : sent'[q] = sent[q]
    BY <1>0, <1>1 DEF SendRequest
  <2>3. sent[p] = 0
    BY <1>0, <1>1 DEF SendRequest, SStep, SendInv, Silent
  <2>4. recvd[p] \in Nat /\ recvd[p] <= sent[p]
    BY Counted
  <2>5. sent'[p] = 0 \/ sent'[p] = 1
    BY <1>0, <1>1 DEF SendRequest
  <2>6. recvd[p] <= sent'[p]
    BY ONLY <2>3, <2>4, <2>5
  <2> QED BY <2>1, <2>2, <2>3, <2>4, <2>5, <2>6
<1>2. ASSUME NEW p \in Pushes, SendHeader(p) PROVE ReceiveInv'
  <2>1. rpc' = rpc /\ recvd' = recvd /\ verdict' = verdict
    BY <1>0, <1>2 DEF SendHeader, SUnchanged
  <2>2. \A q \in Pushes \ {p} : sent'[q] = sent[q]
    BY <1>0, <1>2 DEF SendHeader
  <2>3. sent[p] = 0 \/ sent[p] = 1
    BY <1>0, <1>2 DEF SendHeader, SStep, SendInv
  <2>4. sent'[p] = 2 \/ sent'[p] = sent[p]
    BY <1>0, <1>2 DEF SendHeader
  <2>5. recvd[p] \in Nat /\ recvd[p] <= sent[p]
    BY Counted
  <2>6. recvd[p] <= sent'[p]
    BY ONLY <2>3, <2>4, <2>5
  <2> QED BY <2>1, <2>2, <2>3, <2>4, <2>5, <2>6
<1>3. ASSUME NEW p \in Pushes, Write(p) PROVE ReceiveInv'
  <2>1. rpc' = rpc /\ recvd' = recvd /\ verdict' = verdict
    BY <1>0, <1>3 DEF Write, SUnchanged
  <2>2. \A q \in Pushes \ {p} : sent'[q] = sent[q]
    BY <1>0, <1>3 DEF Write
  <2>3. sent'[p] = sent[p] + 1 \/ sent'[p] = sent[p]
    BY <1>0, <1>3 DEF Write
  <2>4. sent[p] \in Nat /\ recvd[p] \in Nat /\ recvd[p] <= sent[p]
    BY Counted
  <2>5. recvd[p] <= sent'[p]
    BY ONLY <2>3, <2>4
  <2> QED BY <2>1, <2>2, <2>3, <2>4, <2>5
<1>4. ASSUME NEW p \in Pushes, Accept(p) PROVE ReceiveInv'
  <2>1. rpc[p] = "none" /\ rpc'[p] \in {"accepted", "gone"} /\ UNCHANGED <<recvd, verdict, sent>>
    BY <1>4 DEF Accept, RStep, RUnchanged
  <2>2. \A q \in Pushes \ {p} : rpc'[q] = rpc[q]
    BY <1>4, HandlerFrame DEF ReceiverNext
  <2> QED BY ONLY <1>4, <2>1, <2>2, ReceiveInv DEF ReceiveInv, Whole
<1>5. ASSUME NEW p \in Pushes, ReadRequest(p) PROVE ReceiveInv'
  <2>1. rpc[p] = "accepted" /\ rpc'[p] \in {"asking", "approved"} /\ verdict' = verdict /\ sent' = sent
    BY <1>0, <1>5 DEF ReadRequest, RStep, RUnchanged
  <2>2. \A q \in Pushes \ {p} : rpc'[q] = rpc[q] /\ recvd'[q] = recvd[q]
    BY <1>0, <1>5 DEF ReadRequest, RStep
  <2>3. recvd'[p] = 1 /\ sent[p] > 0 /\ sent[p] \in 0..Full
    BY <1>0, <1>5 DEF ReadRequest
  <2>4. recvd'[p] <= sent[p]
    BY ONLY <2>3, FullSize
  <2>5. rpc'[p] \notin Whole /\ verdict[p] # "Completed"
    BY <2>1
  <2> QED BY <2>1, <2>2, <2>3, <2>4, <2>5
<1>6. ASSUME NEW p \in Pushes, RequestTimesOut(p) PROVE ReceiveInv'
  BY <1>0, <1>6 DEF RequestTimesOut, RStep, RUnchanged, ReceiverCloses
<1>7. ASSUME NEW p \in Pushes, Resolved(p) PROVE ReceiveInv'
  <2>1. rpc[p] = "asking" /\ rpc'[p] \in {"approved", "refused"} /\ UNCHANGED <<recvd, verdict, sent>>
    BY <1>7 DEF Resolved, RStep, RUnchanged
  <2>2. \A q \in Pushes \ {p} : rpc'[q] = rpc[q]
    BY <1>7, HandlerFrame DEF ReceiverNext
  <2> QED BY ONLY <1>7, <2>1, <2>2, ReceiveInv DEF ReceiveInv, Whole
<1>8. ASSUME NEW p \in Pushes, Refuse(p) PROVE ReceiveInv'
  BY <1>0, <1>8 DEF Refuse, RStep, RUnchanged, ReceiverCloses, Records
<1>9. ASSUME NEW p \in Pushes, Reply(p) PROVE ReceiveInv'
  <2>1. rpc[p] = "approved" /\ rpc'[p] \in {"replied", "gone"} /\ UNCHANGED <<recvd, sent>>
    BY <1>9 DEF Reply, RStep, RUnchanged
  <2>2. verdict'[p] \in {verdict[p], "Failed"}
    BY <1>9 DEF Reply, Records
  <2>3. \A q \in Pushes \ {p} : rpc'[q] = rpc[q] /\ verdict'[q] = verdict[q]
    BY <1>9, HandlerFrame DEF ReceiverNext
  <2> QED BY ONLY <1>9, <2>1, <2>2, <2>3, ReceiveInv DEF ReceiveInv, Whole
<1>10. ASSUME NEW p \in Pushes, ReadHeader(p) PROVE ReceiveInv'
  <2>1. rpc[p] = "replied" /\ rpc'[p] \in {"receiving", "gone"} /\ sent' = sent
    BY <1>0, <1>10 DEF ReadHeader, RStep, RUnchanged, Abandon
  <2>2. verdict'[p] # "Completed"
    BY <1>0, <1>10 DEF ReadHeader, RStep, Abandon, Records
  <2>3. \A q \in Pushes \ {p} : rpc'[q] = rpc[q] /\ recvd'[q] = recvd[q] /\ verdict'[q] = verdict[q]
    BY <1>0, <1>10 DEF ReadHeader, RStep, Abandon, Records
  <2>4. recvd'[p] = recvd[p] \/ (recvd[p] < sent[p] /\ recvd'[p] = 2)
    BY <1>0, <1>10 DEF ReadHeader, MoreToRead
  <2>5. recvd[p] = 1 /\ sent[p] \in 0..Full /\ recvd[p] <= sent[p]
    BY <2>1
  <2>6. recvd'[p] <= sent[p]
    BY ONLY <2>4, <2>5, FullSize
  <2> QED BY <2>1, <2>2, <2>3, <2>4, <2>5, <2>6
<1>11. ASSUME NEW p \in Pushes, ReadChunk(p) PROVE ReceiveInv'
  <2>1. rpc[p] = "receiving" /\ rpc'[p] = "receiving" /\ sent' = sent /\ verdict' = verdict
    BY <1>0, <1>11 DEF ReadChunk, RStep, RUnchanged
  <2>2. \A q \in Pushes \ {p} : rpc'[q] = rpc[q] /\ recvd'[q] = recvd[q]
    BY <1>0, <1>11 DEF ReadChunk, RStep
  <2>3. recvd[p] < sent[p] /\ recvd'[p] = recvd[p] + 1
    BY <1>0, <1>11 DEF ReadChunk, MoreToRead
  <2>4. sent[p] \in 0..Full /\ recvd[p] \in 0..Full
    BY Counted
  <2>5. recvd'[p] <= sent[p]
    BY ONLY <2>3, <2>4, FullSize
  <2> QED BY <2>1, <2>2, <2>3, <2>4, <2>5
<1>12. ASSUME NEW p \in Pushes, ReadFails(p) PROVE ReceiveInv'
  <2>1. rpc[p] = "receiving" /\ rpc'[p] = "gone" /\ UNCHANGED <<recvd, sent>>
    BY <1>12 DEF ReadFails, Abandon, RStep, RUnchanged
  <2>2. verdict'[p] \in {"Canceled", "Failed"}
    BY <1>12 DEF ReadFails, Abandon, Records
  <2>3. \A q \in Pushes \ {p} : rpc'[q] = rpc[q] /\ verdict'[q] = verdict[q]
    BY <1>12, HandlerFrame DEF ReceiverNext
  <2> QED BY ONLY <1>12, <2>1, <2>2, <2>3, ReceiveInv DEF ReceiveInv, Whole
<1>13. ASSUME NEW p \in Pushes, ReadEnd(p) PROVE ReceiveInv'
  BY <1>0, <1>13 DEF ReadEnd, RStep, RUnchanged, AtEOF
<1>14. ASSUME NEW p \in Pushes, Verify(p) PROVE ReceiveInv'
  <2>1. /\ rpc[p] = "verifying" /\ UNCHANGED <<sent, recvd>>
        /\ \/ rpc'[p] = "stitching" /\ recvd[p] = Full /\ verdict' = verdict
           \/ rpc'[p] = "gone" /\ verdict'[p] = "Failed"
    BY <1>14 DEF Verify, Abandon, Records, RStep, RUnchanged
  <2>2. \A q \in Pushes \ {p} : rpc'[q] = rpc[q] /\ verdict'[q] = verdict[q]
    BY <1>14, HandlerFrame DEF ReceiverNext
  <2>3. verdict[p] # "Completed"
    BY <2>1
  <2> QED BY ONLY <1>14, <2>1, <2>2, <2>3, ReceiveInv DEF ReceiveInv, Whole
<1>15. ASSUME NEW p \in Pushes, Stitch(p) PROVE ReceiveInv'
  <2>1. rpc[p] = "stitching" /\ sent' = sent /\ recvd' = recvd
    BY <1>0, <1>15 DEF Stitch, RStep, RUnchanged, Abandon
  <2>2. rpc'[p] = "handing" \/ (rpc'[p] = "gone" /\ verdict'[p] = "Failed")
    BY <1>0, <1>15 DEF Stitch, RStep, Abandon, Records
  <2>3. \A q \in Pushes \ {p} : rpc'[q] = rpc[q] /\ verdict'[q] = verdict[q]
    BY <1>0, <1>15 DEF Stitch, RStep, Abandon, Records
  <2> QED BY <2>1, <2>2, <2>3
<1>16. ASSUME NEW p \in Pushes, Load(p) PROVE ReceiveInv'
  BY <1>0, <1>16 DEF Load, RStep, RUnchanged, ReceiverCloses
<1>17. CASE UNCHANGED <<recvd, sent, rpc, verdict>>
  BY <1>0, <1>17
<1>18. ASSUME NEW p \in Pushes,
          Dispatch(p) \/ Prepare(p) \/ Resolve(p) \/ Export(p) \/ Dial(p) \/ Announce(p)
          \/ Negotiate(p) \/ Prune(p) \/ OpenWriter(p) \/ Wrote(p) \/ Conclude(p)
          \/ Cleanup(p) \/ Leave(p) \/ UserAnswers(p) \/ ReadBack(p) \/ Deliver(p)
          \/ Lose(p) \/ Break(p)
       PROVE  UNCHANGED <<recvd, sent, rpc, verdict>>
  BY <1>18 DEF Dispatch, SStep, SUnchanged, InProgress, Prepare, Resolve, Ends,
     Export, Dial, Announce, Negotiate, SenderMayRead, Prune, OpenWriter, Wrote,
     Progress, Conclude, Cleanup, Leave, SenderCloses, UserAnswers, RStep,
     RUnchanged, ReadBack, SenderCancel, Deliver, ReceiverCancel, CancelApproval,
     Lose, Break
<1>19. ClickSender \/ ClickPending \/ ClickReceiver => UNCHANGED <<recvd, sent, rpc, verdict>>
  BY DEF ClickSender, SenderCancel, ClickPending, SenderCloses, ClickReceiver,
     ReceiverCancel, CancelApproval
<1> QED
  BY <1>0, <1>1, <1>2, <1>3, <1>4, <1>5, <1>6, <1>7, <1>8, <1>9, <1>10, <1>11, <1>12,
     <1>13, <1>14, <1>15, <1>16, <1>17, <1>18, <1>19 DEF Next, SenderNext,
     ReceiverNext, vars

\* Every step keeps the order of approval, data and rejection.
LEMMA ReplyStep ==
    ASSUME TypeOK, ReplyInv, [Next]_vars
    PROVE  ReplyInv'
<1> USE DEF TypeOK, ControlType, CountType, ReplyInv, Streaming, senderVars,
   receiverVars, netVars, userVars
<1>0. Full \in Nat /\ Full > 2
  BY FullSize
<1>1. ASSUME NEW p \in Pushes, Dispatch(p) PROVE ReplyInv'
  BY <1>0, <1>1 DEF Dispatch, SStep, SUnchanged, InProgress
<1>2. ASSUME NEW p \in Pushes, Prepare(p) PROVE ReplyInv'
  BY <1>0, <1>2 DEF Prepare, SStep, SUnchanged
<1>3. ASSUME NEW p \in Pushes, Resolve(p) PROVE ReplyInv'
  <2>1. UNCHANGED <<rpc, reply, verdict, sent>> /\ spc'[p] \in {"exporting", "ended"}
    BY <1>3 DEF Resolve, SStep, SUnchanged
  <2>2. \A q \in Pushes \ {p} : spc'[q] = spc[q]
    BY <1>3, SenderFrame DEF SenderNext
  <2> QED BY ONLY <1>3, <2>1, <2>2, ReplyInv DEF ReplyInv, Streaming
<1>4. ASSUME NEW p \in Pushes, Export(p) PROVE ReplyInv'
  <2>1. UNCHANGED <<rpc, reply, verdict, sent>> /\ spc'[p] \in {"dialing", "ended"}
    BY <1>4 DEF Export, SStep, SUnchanged
  <2>2. \A q \in Pushes \ {p} : spc'[q] = spc[q]
    BY <1>4, SenderFrame DEF SenderNext
  <2> QED BY ONLY <1>4, <2>1, <2>2, ReplyInv DEF ReplyInv, Streaming
<1>5. ASSUME NEW p \in Pushes, Dial(p) PROVE ReplyInv'
  <2>1. UNCHANGED <<rpc, reply, verdict, sent>> /\ spc'[p] \in {"dialed", "ended"}
    BY <1>5 DEF Dial, SStep, SUnchanged
  <2>2. \A q \in Pushes \ {p} : spc'[q] = spc[q]
    BY <1>5, SenderFrame DEF SenderNext
  <2> QED BY ONLY <1>5, <2>1, <2>2, ReplyInv DEF ReplyInv, Streaming
<1>6. ASSUME NEW p \in Pushes, Announce(p) PROVE ReplyInv'
  BY <1>0, <1>6 DEF Announce, SStep, SUnchanged
<1>7. ASSUME NEW p \in Pushes, SendRequest(p) PROVE ReplyInv'
  <2>1. rpc' = rpc /\ reply' = reply /\ verdict' = verdict
    BY <1>0, <1>7 DEF SendRequest, SUnchanged
  <2>2. \A q \in Pushes \ {p} : sent'[q] = sent[q] /\ spc'[q] = spc[q]
    BY <1>0, <1>7 DEF SendRequest, SStep
  <2>3. spc'[p] = "asked"
    BY <1>0, <1>7 DEF SendRequest, SStep
  <2>4. sent'[p] = 0 \/ sent'[p] = 1
    BY <1>0, <1>7 DEF SendRequest
  <2>5. ~(sent'[p] > 1)
    BY ONLY <2>4
  <2> QED BY <2>1, <2>2, <2>3, <2>4, <2>5
<1>8. ASSUME NEW p \in Pushes, Negotiate(p) PROVE ReplyInv'
  <2>1. UNCHANGED <<rpc, reply, verdict, sent>>
    BY <1>8 DEF Negotiate, SUnchanged
  <2>2. spc'[p] = "leaving" \/ (spc'[p] = "pruning" /\ reply[p] = "yes")
    <3>1. \/ spc' = [spc EXCEPT ![p] = "leaving"]
          \/ spc' = [spc EXCEPT ![p] = "pruning"] /\ reply[p] = "yes"
      BY <1>8 DEF Negotiate, SStep
    <3>2. spc \in [Pushes -> SenderPCs]
      OBVIOUS
    <3> QED BY ONLY <1>8, <3>1, <3>2
  <2>3. \A q \in Pushes \ {p} : spc'[q] = spc[q]
    BY <1>8, SenderFrame DEF SenderNext
  <2> QED BY ONLY <1>8, <2>1, <2>2, <2>3, ReplyInv DEF ReplyInv, Streaming
<1>9. ASSUME NEW p \in Pushes, Prune(p) PROVE ReplyInv'
  BY <1>0, <1>9 DEF Prune, SStep, SUnchanged, Ends
<1>10. ASSUME NEW p \in Pushes, SendHeader(p) PROVE ReplyInv'
  <2>1. rpc' = rpc /\ reply' = reply /\ verdict' = verdict
    BY <1>0, <1>10 DEF SendHeader, SUnchanged
  <2>2. \A q \in Pushes \ {p} : sent'[q] = sent[q] /\ spc'[q] = spc[q]
    BY <1>0, <1>10 DEF SendHeader, SStep
  <2>3. spc[p] = "pruned"
    BY <1>0, <1>10 DEF SendHeader, SStep
  <2>4. reply[p] = "yes"
    BY ONLY <2>3, ReplyInv DEF ReplyInv
  <2> QED BY <2>1, <2>2, <2>3, <2>4
<1>11. ASSUME NEW p \in Pushes, OpenWriter(p) PROVE ReplyInv'
  BY <1>0, <1>11 DEF OpenWriter, SStep, SUnchanged
<1>12. ASSUME NEW p \in Pushes, Write(p) PROVE ReplyInv'
  <2>1. rpc' = rpc /\ reply' = reply /\ verdict' = verdict
    BY <1>0, <1>12 DEF Write, SUnchanged
  <2>2. \A q \in Pushes \ {p} : sent'[q] = sent[q] /\ spc'[q] = spc[q]
    BY <1>0, <1>12 DEF Write, SStep
  <2>3. spc[p] = "streaming"
    BY <1>0, <1>12 DEF Write, SStep
  <2>4. reply[p] = "yes"
    BY ONLY <2>3, ReplyInv DEF ReplyInv, Streaming
  <2> QED BY <2>1, <2>2, <2>3, <2>4
<1>13. ASSUME NEW p \in Pushes, Wrote(p) PROVE ReplyInv'
  BY <1>0, <1>13 DEF Wrote, SStep, SUnchanged, Progress
<1>14. ASSUME NEW p \in Pushes, Conclude(p) PROVE ReplyInv'
  BY <1>0, <1>14 DEF Conclude, SStep, SUnchanged, Ends
<1>15. ASSUME NEW p \in Pushes, Cleanup(p) PROVE ReplyInv'
  BY <1>0, <1>15 DEF Cleanup, SStep, SUnchanged
<1>16. ASSUME NEW p \in Pushes, Leave(p) PROVE ReplyInv'
  BY <1>0, <1>16 DEF Leave, SStep, SUnchanged, SenderCloses
<1>17. ASSUME NEW p \in Pushes, Accept(p) PROVE ReplyInv'
  <2>1. /\ rpc[p] = "none" /\ rpc'[p] \in {"accepted", "gone"} /\ UNCHANGED <<spc, sent, verdict>>
        /\ reply'[p] = reply[p] \/ (rpc'[p] = "gone" /\ reply'[p] = "no")
    BY <1>17 DEF Accept, RStep, RUnchanged
  <2>2. \A q \in Pushes \ {p} : rpc'[q] = rpc[q] /\ reply'[q] = reply[q]
    BY <1>17, HandlerFrame DEF ReceiverNext
  <2> QED BY ONLY <1>17, <2>1, <2>2, ReplyInv DEF ReplyInv
<1>18. ASSUME NEW p \in Pushes, ReadRequest(p) PROVE ReplyInv'
  BY <1>18 DEF ReadRequest, RStep, RUnchanged, ReceiverMayRead
<1>19. ASSUME NEW p \in Pushes, RequestTimesOut(p) PROVE ReplyInv'
  BY <1>19 DEF RequestTimesOut, RStep, RUnchanged, ReceiverCloses
<1>20. ASSUME NEW p \in Pushes, Resolved(p) PROVE ReplyInv'
  <2>1. /\ rpc[p] = "asking" /\ rpc'[p] \in {"approved", "refused"} /\ UNCHANGED <<spc, sent, verdict>>
        /\ reply'[p] \in {reply[p], "no"}
    BY <1>20 DEF Resolved, RStep, RUnchanged
  <2>2. \A q \in Pushes \ {p} : rpc'[q] = rpc[q] /\ reply'[q] = reply[q]
    BY <1>20, HandlerFrame DEF ReceiverNext
  <2> QED BY ONLY <1>20, <2>1, <2>2, ReplyInv DEF ReplyInv
<1>21. ASSUME NEW p \in Pushes, Refuse(p) PROVE ReplyInv'
  BY <1>0, <1>21 DEF Refuse, RStep, RUnchanged, ReceiverCloses, Records
<1>22. ASSUME NEW p \in Pushes, Reply(p) PROVE ReplyInv'
  <2>1. /\ rpc[p] = "approved" /\ UNCHANGED <<spc, sent>>
        /\ \/ rpc'[p] = "replied" /\ reply'[p] = "yes" /\ verdict' = verdict
           \/ rpc'[p] = "gone" /\ reply' = reply /\ verdict'[p] = "Failed"
    BY <1>22 DEF Reply, RStep, RUnchanged, Records
  <2>2. \A q \in Pushes \ {p} : /\ rpc'[q] = rpc[q] /\ verdict'[q] = verdict[q]
                               /\ reply'[q] = reply[q]
    BY <1>22, HandlerFrame DEF ReceiverNext
  <2> QED BY ONLY <1>22, <2>1, <2>2, ReplyInv DEF ReplyInv
<1>23. ASSUME NEW p \in Pushes, ReadHeader(p) PROVE ReplyInv'
  <2>1. /\ rpc[p] = "replied" /\ rpc'[p] \in {"receiving", "gone"} /\ UNCHANGED <<spc, sent, reply>>
        /\ verdict'[p] \in {verdict[p], "Failed"}
    BY <1>23 DEF ReadHeader, Abandon, Records, RStep, RUnchanged
  <2>2. \A q \in Pushes \ {p} : rpc'[q] = rpc[q] /\ verdict'[q] = verdict[q]
    BY <1>23, HandlerFrame DEF ReceiverNext
  <2> QED BY ONLY <1>23, <2>1, <2>2, ReplyInv DEF ReplyInv
<1>24. ASSUME NEW p \in Pushes, ReadChunk(p) PROVE ReplyInv'
  BY <1>0, <1>24 DEF ReadChunk, RStep, RUnchanged, MoreToRead, ReceiverMayRead, Progress
<1>25. ASSUME NEW p \in Pushes, ReadFails(p) PROVE ReplyInv'
  <2>1. UNCHANGED <<spc, sent, reply>> /\ rpc[p] = "receiving" /\ rpc'[p] = "gone"
    BY <1>25 DEF ReadFails, Abandon, RStep, RUnchanged
  <2>2. verdict'[p] \in {"Canceled", "Failed"}
    BY <1>25 DEF ReadFails, Abandon, Records
  <2>3. \A q \in Pushes \ {p} : rpc'[q] = rpc[q] /\ verdict'[q] = verdict[q]
    BY <1>25, HandlerFrame DEF ReceiverNext
  <2> QED BY ONLY <1>25, <2>1, <2>2, <2>3, ReplyInv DEF ReplyInv
<1>26. ASSUME NEW p \in Pushes, ReadEnd(p) PROVE ReplyInv'
  BY <1>0, <1>26 DEF ReadEnd, RStep, RUnchanged, AtEOF
<1>27. ASSUME NEW p \in Pushes, Verify(p) PROVE ReplyInv'
  <2>1. UNCHANGED <<spc, sent, reply>> /\ rpc[p] = "verifying" /\ rpc'[p] \in {"stitching", "gone"}
    BY <1>27 DEF Verify, Abandon, RStep, RUnchanged
  <2>2. verdict'[p] # "Rejected"
    BY <1>27, <2>1 DEF Verify, Abandon, Records
  <2>3. \A q \in Pushes \ {p} : rpc'[q] = rpc[q] /\ verdict'[q] = verdict[q]
    BY <1>27, HandlerFrame DEF ReceiverNext
  <2> QED BY ONLY <1>27, <2>1, <2>2, <2>3, ReplyInv DEF ReplyInv
<1>28. ASSUME NEW p \in Pushes, Stitch(p) PROVE ReplyInv'
  <2>1. UNCHANGED <<spc, sent, reply>> /\ rpc[p] = "stitching" /\ rpc'[p] \in {"handing", "gone"}
    BY <1>28 DEF Stitch, Abandon, RStep, RUnchanged
  <2>2. verdict'[p] # "Rejected"
    BY <1>28, <2>1 DEF Stitch, Abandon, Records
  <2>3. \A q \in Pushes \ {p} : rpc'[q] = rpc[q] /\ verdict'[q] = verdict[q]
    BY <1>28, HandlerFrame DEF ReceiverNext
  <2> QED BY ONLY <1>28, <2>1, <2>2, <2>3, ReplyInv DEF ReplyInv
<1>29. ASSUME NEW p \in Pushes, Load(p) PROVE ReplyInv'
  BY <1>0, <1>29 DEF Load, RStep, RUnchanged, ReceiverCloses
<1>30. CASE UNCHANGED <<spc, sent, reply, rpc, verdict>>
  BY <1>0, <1>30
<1>31. ASSUME NEW p \in Pushes,
          UserAnswers(p) \/ ReadBack(p) \/ Deliver(p) \/ Lose(p) \/ Break(p)
       PROVE  UNCHANGED <<spc, sent, reply, rpc, verdict>>
  BY <1>0, <1>31 DEF UserAnswers, RStep, RUnchanged, ReadBack, SenderCancel,
     SenderMayRead, Deliver, ReceiverCancel, CancelApproval, Lose, Break
<1>32. ClickSender \/ ClickPending \/ ClickReceiver => UNCHANGED <<spc, sent, reply, rpc, verdict>>
  BY DEF ClickSender, SenderCancel, ClickPending, SenderCloses, ClickReceiver,
     ReceiverCancel, CancelApproval
<1> QED
  BY <1>0, <1>1, <1>2, <1>3, <1>4, <1>5, <1>6, <1>7, <1>8, <1>9, <1>10, <1>11, <1>12,
     <1>13, <1>14, <1>15, <1>16, <1>17, <1>18, <1>19, <1>20, <1>21, <1>22, <1>23,
     <1>24, <1>25, <1>26, <1>27, <1>28, <1>29, <1>30, <1>31, <1>32 DEF Next,
     SenderNext, ReceiverNext, vars

\* Every step keeps a Manager's entries at work.
LEMMA MapStep ==
    ASSUME TypeOK, MapInv, [Next]_vars
    PROVE  MapInv'
<1> USE DEF TypeOK, ControlType, MapType, MapInv, Maybe, Pending, Streaming, Cleaning,
   senderVars, receiverVars, netVars, userVars
<1>0. pend \in Maybe /\ swriter \in Maybe /\ approval \in Maybe /\ rwriter \in Maybe
  OBVIOUS
<1>1. ASSUME NEW p \in Pushes, Dispatch(p) PROVE MapInv'
  BY <1>1 DEF Dispatch, SStep, SUnchanged, InProgress
<1>2. ASSUME NEW p \in Pushes, Prepare(p) PROVE MapInv'
  BY <1>2 DEF Prepare, SStep, SUnchanged
<1>3. ASSUME NEW p \in Pushes, Resolve(p) PROVE MapInv'
  <2>1. spc[p] = "resolving" /\ spc'[p] \in {"exporting", "ended"}
    BY <1>3 DEF Resolve, SStep
  <2>2. UNCHANGED <<pend, swriter, approval, rwriter, rpc>>
    BY <1>3 DEF Resolve, SUnchanged
  <2>3. \A q \in Pushes \ {p} : spc'[q] = spc[q]
    BY <1>3, SenderFrame DEF SenderNext
  <2> QED BY ONLY <1>3, <1>0, <2>1, <2>2, <2>3, MapInv DEF MapInv, Maybe, Pending, Streaming, Cleaning
<1>4. ASSUME NEW p \in Pushes, Export(p) PROVE MapInv'
  <2>1. spc[p] = "exporting" /\ spc'[p] \in {"dialing", "ended"}
    BY <1>4 DEF Export, SStep
  <2>2. UNCHANGED <<pend, swriter, approval, rwriter, rpc>>
    BY <1>4 DEF Export, SUnchanged
  <2>3. \A q \in Pushes \ {p} : spc'[q] = spc[q]
    BY <1>4, SenderFrame DEF SenderNext
  <2> QED BY ONLY <1>4, <1>0, <2>1, <2>2, <2>3, MapInv DEF MapInv, Maybe, Pending, Streaming, Cleaning
<1>5. ASSUME NEW p \in Pushes, Dial(p) PROVE MapInv'
  <2>1. spc[p] = "dialing" /\ spc'[p] \in {"dialed", "ended"}
    BY <1>5 DEF Dial, SStep
  <2>2. UNCHANGED <<pend, swriter, approval, rwriter, rpc>>
    BY <1>5 DEF Dial, SUnchanged
  <2>3. \A q \in Pushes \ {p} : spc'[q] = spc[q]
    BY <1>5, SenderFrame DEF SenderNext
  <2> QED BY ONLY <1>5, <1>0, <2>1, <2>2, <2>3, MapInv DEF MapInv, Maybe, Pending, Streaming, Cleaning
<1>6. ASSUME NEW p \in Pushes, Announce(p) PROVE MapInv'
  BY <1>6 DEF Announce, SStep, SUnchanged
<1>7. ASSUME NEW p \in Pushes, SendRequest(p) PROVE MapInv'
  BY <1>7 DEF SendRequest, SStep, SUnchanged, SenderMayWrite
<1>8. ASSUME NEW p \in Pushes, Negotiate(p) PROVE MapInv'
  <2>1. spc[p] = "asked" /\ spc'[p] \in {"pruning", "leaving"}
    BY <1>8 DEF Negotiate, SStep
  <2>2. UNCHANGED <<pend, swriter, approval, rwriter, rpc>>
    BY <1>8 DEF Negotiate, SUnchanged
  <2>3. \A q \in Pushes \ {p} : spc'[q] = spc[q]
    BY <1>8, SenderFrame DEF SenderNext
  <2> QED BY ONLY <1>8, <1>0, <2>1, <2>2, <2>3, MapInv DEF MapInv, Maybe, Pending, Streaming, Cleaning
<1>9. ASSUME NEW p \in Pushes, Prune(p) PROVE MapInv'
  <2>1. spc[p] = "pruning" /\ spc'[p] \in {"pruned", "leaving"}
    BY <1>9 DEF Prune, SStep
  <2>2. UNCHANGED <<pend, swriter, approval, rwriter, rpc>>
    BY <1>9 DEF Prune, SUnchanged
  <2>3. \A q \in Pushes \ {p} : spc'[q] = spc[q]
    BY <1>9, SenderFrame DEF SenderNext
  <2> QED BY ONLY <1>9, <1>0, <2>1, <2>2, <2>3, MapInv DEF MapInv, Maybe, Pending, Streaming, Cleaning
<1>10. ASSUME NEW p \in Pushes, SendHeader(p) PROVE MapInv'
  <2>1. spc[p] = "pruned" /\ spc'[p] \in {"opening", "leaving"}
    BY <1>10 DEF SendHeader, SStep
  <2>2. UNCHANGED <<pend, swriter, approval, rwriter, rpc>>
    BY <1>10 DEF SendHeader, SUnchanged
  <2>3. \A q \in Pushes \ {p} : spc'[q] = spc[q]
    BY <1>10, SenderFrame DEF SenderNext
  <2> QED BY ONLY <1>10, <1>0, <2>1, <2>2, <2>3, MapInv DEF MapInv, Maybe, Pending, Streaming, Cleaning
<1>11. ASSUME NEW p \in Pushes, OpenWriter(p) PROVE MapInv'
  BY <1>11 DEF OpenWriter, SStep, SUnchanged
<1>12. ASSUME NEW p \in Pushes, Write(p) PROVE MapInv'
  <2>1. spc[p] = "streaming" /\ spc'[p] \in {"broken", "wrote"}
    BY <1>12 DEF Write, SStep
  <2>2. UNCHANGED <<pend, swriter, approval, rwriter, rpc>>
    BY <1>12 DEF Write, SUnchanged
  <2>3. \A q \in Pushes \ {p} : spc'[q] = spc[q]
    BY <1>12, SenderFrame DEF SenderNext
  <2> QED BY ONLY <1>12, <1>0, <2>1, <2>2, <2>3, MapInv DEF MapInv, Maybe, Pending, Streaming, Cleaning
<1>13. ASSUME NEW p \in Pushes, Wrote(p) PROVE MapInv'
  BY <1>13 DEF Wrote, SStep, SUnchanged, Progress
<1>14. ASSUME NEW p \in Pushes, Conclude(p) PROVE MapInv'
  BY <1>14 DEF Conclude, SStep, SUnchanged, Ends
<1>15. ASSUME NEW p \in Pushes, Cleanup(p) PROVE MapInv'
  BY <1>15 DEF Cleanup, SStep, SUnchanged
<1>16. ASSUME NEW p \in Pushes, Leave(p) PROVE MapInv'
  BY <1>16 DEF Leave, SStep, SUnchanged, SenderCloses
<1>17. ASSUME NEW p \in Pushes, Accept(p) PROVE MapInv'
  BY <1>17 DEF Accept, RStep, RUnchanged, ReceiverCloses
<1>18. ASSUME NEW p \in Pushes, ReadRequest(p) PROVE MapInv'
  <2>1. UNCHANGED <<spc, pend, swriter, rwriter>>
    BY <1>18 DEF ReadRequest, RUnchanged
  <2>2. rpc[p] = "accepted"
    BY <1>18 DEF ReadRequest, RStep
  <2>3. \A q \in Pushes \ {p} : rpc'[q] = rpc[q]
    BY <1>18 DEF ReadRequest, RStep
  <2>4. approval' = approval \/ (approval' = p /\ rpc'[p] = "asking")
    BY <1>18 DEF ReadRequest, RStep
  <2> QED BY <2>1, <2>2, <2>3, <2>4
<1>19. ASSUME NEW p \in Pushes, RequestTimesOut(p) PROVE MapInv'
  BY <1>19 DEF RequestTimesOut, RStep, RUnchanged, ReceiverCloses
<1>20. ASSUME NEW p \in Pushes, Resolved(p) PROVE MapInv'
  BY <1>20 DEF Resolved, RStep, RUnchanged
<1>21. ASSUME NEW p \in Pushes, Refuse(p) PROVE MapInv'
  BY <1>21 DEF Refuse, RStep, RUnchanged, ReceiverCloses, Records
<1>22. ASSUME NEW p \in Pushes, Reply(p) PROVE MapInv'
  <2>1. rpc[p] = "approved" /\ UNCHANGED <<spc, pend, swriter, approval, rwriter>>
    BY <1>22 DEF Reply, RStep, RUnchanged
  <2>2. \A q \in Pushes \ {p} : rpc'[q] = rpc[q]
    BY <1>22, HandlerFrame DEF ReceiverNext
  <2> QED BY ONLY <1>22, <1>0, <2>1, <2>2, MapInv DEF MapInv, Maybe
<1>23. ASSUME NEW p \in Pushes, ReadHeader(p) PROVE MapInv'
  <2>1. UNCHANGED <<spc, pend, swriter, approval>>
    BY <1>23 DEF ReadHeader, RUnchanged
  <2>2. rpc[p] = "replied"
    BY <1>23 DEF ReadHeader, RStep, Abandon
  <2>3. \A q \in Pushes \ {p} : rpc'[q] = rpc[q]
    BY <1>23 DEF ReadHeader, RStep, Abandon
  <2>4. rwriter' = rwriter \/ (rwriter' = p /\ rpc'[p] = "receiving")
    BY <1>23 DEF ReadHeader, RStep
  <2>5. pend \in Maybe /\ swriter \in Maybe /\ approval \in Maybe /\ rwriter \in Maybe
    BY DEF TypeOK, MapType
  <2> QED BY ONLY <1>23, <2>1, <2>2, <2>3, <2>4, <2>5, MapInv DEF MapInv, Maybe
<1>24. ASSUME NEW p \in Pushes, ReadChunk(p) PROVE MapInv'
  BY <1>24 DEF ReadChunk, RStep, RUnchanged, MoreToRead, ReceiverMayRead, Progress
<1>25. ASSUME NEW p \in Pushes, ReadFails(p) PROVE MapInv'
  BY <1>25 DEF ReadFails, RStep, RUnchanged, MoreToRead, ReceiverMayRead, Abandon,
     ReceiverCloses, Records
<1>26. ASSUME NEW p \in Pushes, ReadEnd(p) PROVE MapInv'
  BY <1>26 DEF ReadEnd, RStep, RUnchanged, AtEOF
<1>27. ASSUME NEW p \in Pushes, Verify(p) PROVE MapInv'
  BY <1>27 DEF Verify, RStep, RUnchanged, Abandon, ReceiverCloses, Records
<1>28. ASSUME NEW p \in Pushes, Stitch(p) PROVE MapInv'
  BY <1>28 DEF Stitch, RStep, RUnchanged, Abandon, ReceiverCloses, Records
<1>29. ASSUME NEW p \in Pushes, Load(p) PROVE MapInv'
  BY <1>29 DEF Load, RStep, RUnchanged, ReceiverCloses
<1>30. ASSUME NEW p \in Pushes, Deliver(p) PROVE MapInv'
  BY <1>30 DEF Deliver, ReceiverCancel, CancelApproval
<1>31. CASE ClickReceiver
  BY <1>31 DEF ClickReceiver, ReceiverCancel, CancelApproval
<1>32. CASE UNCHANGED <<spc, rpc, pend, swriter, approval, rwriter>>
  BY <1>32
<1>33. ASSUME NEW p \in Pushes,
          UserAnswers(p) \/ ReadBack(p) \/ Lose(p) \/ Break(p)
       PROVE  UNCHANGED <<spc, rpc, pend, swriter, approval, rwriter>>
  BY <1>33 DEF UserAnswers, RStep, RUnchanged, ReadBack, SenderCancel,
     SenderMayRead, Lose, Break
<1>34. ClickSender \/ ClickPending => UNCHANGED <<spc, rpc, pend, swriter, approval, rwriter>>
  BY DEF ClickSender, SenderCancel, ClickPending, SenderCloses
<1> QED
  BY <1>1, <1>2, <1>3, <1>4, <1>5, <1>6, <1>7, <1>8, <1>9, <1>10, <1>11, <1>12,
     <1>13, <1>14, <1>15, <1>16, <1>17, <1>18, <1>19, <1>20, <1>21, <1>22, <1>23,
     <1>24, <1>25, <1>26, <1>27, <1>28, <1>29, <1>30, <1>31, <1>32, <1>33, <1>34 DEF
     Next, SenderNext, ReceiverNext, vars

IndInv == TypeOK /\ SendInv /\ ReceiveInv /\ ReplyInv /\ MapInv

\* The conjunction is inductive.
LEMMA IndHolds == Spec => []IndInv
<1>1. Init => IndInv
  <2> SUFFICES ASSUME Init PROVE IndInv
    OBVIOUS
  <2>1. \A p \in Pushes : spc[p] = "idle" /\ outcome[p] = "" /\ scancel[p] = FALSE /\ sent[p] = 0
    BY DEF Init
  <2>2. \A p \in Pushes : rpc[p] = "none" /\ verdict[p] = "" /\ reply[p] = "" /\ recvd[p] = 0
    BY DEF Init
  <2>3. ControlType /\ FlagType /\ MapType
    BY DEF Init, ControlType, FlagType, MapType, SenderPCs, ReceiverPCs, Rows, Statuses,
       Maybe
  <2>4. CountType
    <3>1. 0 \in 0..Full /\ 0 < Full
      BY FullSize
    <3>2. 0 \in 0..MaxClicks
      BY ClicksAssumption
    <3> QED BY <3>1, <3>2 DEF Init, CountType
  <2>5. SendInv
    <3>1. 0 # Full
      BY FullSize
    <3> QED BY ONLY <2>1, <3>1 DEF SendInv, Late, Cleaning, Silent
  <2>6. ReceiveInv
    <3>1. \A p \in Pushes : recvd[p] <= sent[p]
      <4>1. 0 <= 0
        OBVIOUS
      <4> QED BY <2>1, <2>2, <4>1, Zenon
    <3> QED BY <2>2, <3>1 DEF ReceiveInv, Whole
  <2>7. ReplyInv
    <3>1. \A p \in Pushes : ~(sent[p] > 1)
      <4>1. ~(0 > 1)
        OBVIOUS
      <4> QED BY <2>1, <4>1, Zenon
    <3> QED BY <2>1, <2>2, <3>1 DEF ReplyInv, Streaming
  <2>8. MapInv
    BY DEF Init, MapInv
  <2> QED BY <2>3, <2>4, <2>5, <2>6, <2>7, <2>8 DEF IndInv, TypeOK
<1>2. IndInv /\ [Next]_vars => IndInv'
  BY TypeStep, SendStep, ReceiveStep, ReplyStep, MapStep DEF IndInv
<1> QED BY <1>1, <1>2, PTL DEF Spec

\* Every variable keeps its type, whatever breaks and whoever cancels.
THEOREM TypeCorrect == Spec => []TypeOK
<1>1. IndInv => TypeOK
  BY DEF IndInv
<1> QED BY <1>1, IndHolds, PTL

\* No cut, cancelled or closed stream is recorded as Completed (Verify compares what
\* arrived with what the header announced).
THEOREM OnlyWholeCompletes == Spec => []CompletedIsWhole
<1>1. IndInv => CompletedIsWhole
  <2> SUFFICES ASSUME IndInv, NEW p \in Pushes, verdict[p] = "Completed"
               PROVE  recvd[p] = Full /\ outcome[p] \notin {"Failed", "Rejected"}
    BY DEF CompletedIsWhole
  <2>1. recvd[p] = Full /\ recvd[p] <= sent[p]
    BY DEF IndInv, ReceiveInv
  <2>2. sent[p] \in 0..Full
    BY Counted DEF IndInv
  <2>3. sent[p] = Full
    BY ONLY <2>1, <2>2, FullSize
  <2> QED BY <2>1, <2>3 DEF IndInv, SendInv
<1> QED BY <1>1, IndHolds, PTL

\* Layer data follows an approval (negotiate returns before streamPayload starts).
THEOREM NoDataUnapproved == Spec => []DataNeedsApproval
<1>1. IndInv => DataNeedsApproval
  BY DEF IndInv, ReplyInv, DataNeedsApproval
<1> QED BY <1>1, IndHolds, PTL

\* The deferred Unregisters and Cleanup leave nothing behind on any path.
THEOREM NothingLeftBehind == Spec => []QuietIsClean
<1>1. IndInv => QuietIsClean
  <2> SUFFICES ASSUME IndInv, \A p \in Pushes : Finished(p)
               PROVE  {pend, swriter, approval, rwriter} = {None}
    BY DEF QuietIsClean
  <2>1. pend \in Maybe /\ swriter \in Maybe /\ approval \in Maybe /\ rwriter \in Maybe
    BY DEF IndInv, TypeOK, MapType
  <2>2. pend = None /\ swriter = None
    BY <2>1 DEF IndInv, MapInv, Finished, Maybe, Pending, Streaming, Cleaning
  <2>3. approval = None /\ rwriter = None
    BY <2>1 DEF IndInv, MapInv, Finished, Maybe
  <2> QED BY <2>2, <2>3
<1> QED BY <1>1, IndHolds, PTL

\* A cancelled push that has not yet begun to write sends no further chunk.
CancelStopsStream ==
    [][\A p \in Pushes : scancel[p] => sent'[p] = sent[p]]_vars

\* A cancelled push sends no further chunk (the test of canceled opens Write).
THEOREM CancelledStops == Spec => CancelStopsStream
<1>1. IndInv /\ [Next]_vars => [\A p \in Pushes : scancel[p] => sent'[p] = sent[p]]_vars
  <2> SUFFICES ASSUME IndInv, [Next]_vars, NEW q \in Pushes, scancel[q]
               PROVE  sent'[q] = sent[q]
    OBVIOUS
  <2>0. sent \in [Pushes -> 0..Full] /\ spc[q] \in Streaming \cup Late
    BY DEF IndInv, TypeOK, CountType, SendInv
  <2>1. ASSUME NEW p \in Pushes, SendRequest(p) PROVE sent'[q] = sent[q]
    BY <2>0, <2>1 DEF SendRequest, SStep, Streaming, Late, Cleaning
  <2>2. ASSUME NEW p \in Pushes, SendHeader(p) PROVE sent'[q] = sent[q]
    BY <2>0, <2>2 DEF SendHeader, SStep, Streaming, Late, Cleaning
  <2>3. ASSUME NEW p \in Pushes, Write(p) PROVE sent'[q] = sent[q]
    BY <2>0, <2>3 DEF Write
  <2>4. CASE UNCHANGED sent
    BY <2>4
  <2>5. ASSUME NEW p \in Pushes, Dispatch(p) \/ Prepare(p) \/ Resolve(p) \/ Export(p) \/ Dial(p) \/ Announce(p) \/ Negotiate(p) \/ Prune(p) \/ OpenWriter(p) \/ Wrote(p) \/ Conclude(p) \/ Cleanup(p) \/ Leave(p) PROVE UNCHANGED sent
    BY <2>5 DEF Dispatch, Prepare, Resolve, Export, Dial, Announce, Negotiate,
       Prune, OpenWriter, Wrote, Conclude, Cleanup, Leave
  <2>6. ASSUME NEW p \in Pushes, ReceiverNext(p) PROVE UNCHANGED sent
    BY <2>6 DEF ReceiverNext, Accept, ReadRequest, RequestTimesOut, UserAnswers,
       Resolved, Refuse, Reply, ReadHeader, ReadChunk, ReadFails, ReadEnd, Verify,
       Stitch, Load, RUnchanged, senderVars
  <2>7. ASSUME NEW p \in Pushes, ReadBack(p) \/ Deliver(p) \/ Lose(p) \/ Break(p) PROVE UNCHANGED sent
    BY <2>7 DEF ReadBack, Deliver, Lose, Break, senderVars
  <2>8. ClickSender \/ ClickPending \/ ClickReceiver => UNCHANGED sent
    BY DEF ClickSender, ClickPending, ClickReceiver, senderVars
  <2> QED
    BY <2>1, <2>2, <2>3, <2>4, <2>5, <2>6, <2>7, <2>8 DEF Next, SenderNext, vars, senderVars
<1> QED BY <1>1, IndHolds, PTL DEF Spec, CancelStopsStream

\* One dispatch at a time owns the key of the Manager.
WriterInv == OnePushAtATime /\ StreamIsControllable

\* Without overlapping dispatches the writer of a stream keeps its key.
LEMMA WriterStep ==
    ASSUME ~Overlap, TypeOK, WriterInv, [Next]_vars
    PROVE  WriterInv'
<1> USE DEF WriterInv, OnePushAtATime, StreamIsControllable, Streaming
<1>0. spc \in [Pushes -> SenderPCs]
  BY DEF TypeOK, ControlType
<1>1. ASSUME NEW p \in Pushes, Dispatch(p) PROVE WriterInv'
  BY <1>0, <1>1 DEF Dispatch, SStep, SUnchanged, InProgress
<1>2. ASSUME NEW p \in Pushes, Prepare(p) PROVE WriterInv'
  BY <1>0, <1>2 DEF Prepare, SStep, SUnchanged
<1>3. ASSUME NEW p \in Pushes, Resolve(p) PROVE WriterInv'
  BY <1>0, <1>3 DEF Resolve, SStep, SUnchanged, Ends
<1>4. ASSUME NEW p \in Pushes, Export(p) PROVE WriterInv'
  BY <1>0, <1>4 DEF Export, SStep, SUnchanged, Ends
<1>5. ASSUME NEW p \in Pushes, Dial(p) PROVE WriterInv'
  BY <1>0, <1>5 DEF Dial, SStep, SUnchanged, Ends
<1>6. ASSUME NEW p \in Pushes, Announce(p) PROVE WriterInv'
  BY <1>0, <1>6 DEF Announce, SStep, SUnchanged
<1>7. ASSUME NEW p \in Pushes, SendRequest(p) PROVE WriterInv'
  BY <1>0, <1>7 DEF SendRequest, SStep, SUnchanged, SenderMayWrite
<1>8. ASSUME NEW p \in Pushes, Negotiate(p) PROVE WriterInv'
  BY <1>0, <1>8 DEF Negotiate, SStep, SUnchanged, Ends, SenderMayRead
<1>9. ASSUME NEW p \in Pushes, Prune(p) PROVE WriterInv'
  BY <1>0, <1>9 DEF Prune, SStep, SUnchanged, Ends
<1>10. ASSUME NEW p \in Pushes, SendHeader(p) PROVE WriterInv'
  BY <1>0, <1>10 DEF SendHeader, SStep, SUnchanged, Ends, SenderMayWrite
<1>11. ASSUME NEW p \in Pushes, OpenWriter(p) PROVE WriterInv'
  BY <1>0, <1>11 DEF OpenWriter, SStep, SUnchanged
<1>12. ASSUME NEW p \in Pushes, Write(p) PROVE WriterInv'
  BY <1>0, <1>12 DEF Write, SStep, SUnchanged, SenderMayWrite
<1>13. ASSUME NEW p \in Pushes, Wrote(p) PROVE WriterInv'
  BY <1>0, <1>13 DEF Wrote, SStep, SUnchanged, Progress
<1>14. ASSUME NEW p \in Pushes, Conclude(p) PROVE WriterInv'
  BY <1>0, <1>14 DEF Conclude, SStep, SUnchanged, Ends
<1>15. ASSUME NEW p \in Pushes, Cleanup(p) PROVE WriterInv'
  BY <1>0, <1>15 DEF Cleanup, SStep, SUnchanged
<1>16. ASSUME NEW p \in Pushes, Leave(p) PROVE WriterInv'
  BY <1>0, <1>16 DEF Leave, SStep, SUnchanged, SenderCloses
<1>17. CASE UNCHANGED <<spc, swriter>>
  BY <1>0, <1>17
<1>18. ASSUME NEW p \in Pushes, ReceiverNext(p) PROVE UNCHANGED <<spc, swriter>>
  BY <1>18 DEF ReceiverNext, Accept, ReadRequest, RequestTimesOut, UserAnswers,
     Resolved, Refuse, Reply, ReadHeader, ReadChunk, ReadFails, ReadEnd, Verify,
     Stitch, Load, RUnchanged, senderVars
<1>19. ASSUME NEW p \in Pushes, ReadBack(p) \/ Deliver(p) \/ Lose(p) \/ Break(p)
       PROVE  UNCHANGED <<spc, swriter>>
  BY <1>19 DEF ReadBack, Deliver, Lose, Break, senderVars
<1>20. ClickSender \/ ClickPending \/ ClickReceiver => UNCHANGED <<spc, swriter>>
  BY DEF ClickSender, ClickPending, ClickReceiver, senderVars
<1> QED
  BY <1>1, <1>2, <1>3, <1>4, <1>5, <1>6, <1>7, <1>8, <1>9, <1>10, <1>11, <1>12,
     <1>13, <1>14, <1>15, <1>16, <1>17, <1>18, <1>19, <1>20 DEF Next, SenderNext,
     vars, senderVars

\* When dispatches do not overlap, a streaming push is found by the controls: no
\* retry takes its key and no deferred Cleanup of another removes it.
THEOREM Controllable == ASSUME ~Overlap PROVE Spec => []StreamIsControllable
<1>1. Init => WriterInv
  <2>1. ASSUME Init, NEW p \in Pushes PROVE spc[p] = "idle"
    BY <2>1 DEF Init
  <2> QED BY <2>1 DEF WriterInv, OnePushAtATime, StreamIsControllable, Streaming
<1>2. TypeOK /\ WriterInv /\ [Next]_vars => WriterInv'
  BY WriterStep
<1>3. WriterInv => StreamIsControllable
  BY DEF WriterInv
<1> QED BY <1>1, <1>2, <1>3, TypeCorrect, PTL DEF Spec

-----------------------------------------------------------------------------
(* The session implements the log.                                          *)

Unanswered == {"none", "accepted", "asking", "approved"}
Serving    == {"replied", "receiving", "verifying", "stitching"}

\* What has been sent once the stream is open, and once it has been copied.
StreamInv == \A p \in Pushes :
    /\ spc[p] \in {"opening"} \cup Streaming => sent[p] > 1
    /\ spc[p] = "copied" => sent[p] = Full

\* Where the handler stands tells the answer, and that its row is still to come.
AnswerInv == \A p \in Pushes :
    /\ rpc[p] \in Unanswered => reply[p] = ""
    /\ rpc[p] = "refused" => reply[p] = "no"
    /\ rpc[p] \in Serving => reply[p] = "yes"
    /\ rpc[p] \notin {"handing", "loaded", "gone"} => verdict[p] = ""
    /\ rpc[p] \in {"none", "accepted"} => recvd[p] = 0
    /\ rpc[p] = "receiving" => recvd[p] > 1

\* The steps of the sender that neither send nor open the stream.
LEMMA QuietSender ==
    ASSUME NEW p \in Pushes,
           \/ Dispatch(p) \/ Prepare(p) \/ Resolve(p) \/ Export(p) \/ Dial(p) \/ Announce(p)
           \/ Negotiate(p) \/ Prune(p) \/ Conclude(p) \/ Cleanup(p) \/ Leave(p)
    PROVE  /\ sent' = sent
           /\ \E to \in (SenderPCs \ Streaming) \ {"opening"} : spc' = [spc EXCEPT ![p] = to]
<1>1. sent' = sent
  BY DEF Dispatch, Prepare, Resolve, Export, Dial, Announce, Negotiate, Prune, Conclude,
     Cleanup, Leave
<1>2. \E to \in (SenderPCs \ Streaming) \ {"opening"} : spc' = [spc EXCEPT ![p] = to]
  BY DEF Dispatch, Prepare, Resolve, Export, Dial, Announce, Negotiate, Prune, Conclude,
     Cleanup, Leave, SStep, SenderPCs, Streaming, Cleaning
<1> QED BY <1>1, <1>2

\* Every other step leaves the sender's progress alone.
LEMMA NotSender ==
    ASSUME \/ \E p \in Pushes : \/ ReceiverNext(p) \/ ReadBack(p) \/ Deliver(p) \/ Lose(p)
                                \/ Break(p)
           \/ ClickSender \/ ClickPending \/ ClickReceiver \/ UNCHANGED vars
    PROVE  UNCHANGED <<spc, sent, outcome>>
<1> USE DEF senderVars, receiverVars
<1>1. ASSUME NEW p \in Pushes, ReceiverNext(p) PROVE UNCHANGED <<spc, sent, outcome>>
  BY <1>1 DEF ReceiverNext, Accept, ReadRequest, RequestTimesOut, UserAnswers, Resolved,
     Refuse, Reply, ReadHeader, ReadChunk, ReadFails, ReadEnd, Verify, Stitch, Load, RUnchanged
<1> QED
  BY <1>1 DEF ReadBack, Deliver, Lose, Break, ClickSender, ClickPending, ClickReceiver, vars

\* A stream that is open has its header sent, and one that was copied all of it.
LEMMA StreamStep ==
    ASSUME TypeOK, StreamInv, [Next]_vars
    PROVE  StreamInv'
<1>1. ASSUME NEW p \in Pushes, SendRequest(p) PROVE StreamInv'
  <2>1. spc' = [spc EXCEPT ![p] = "asked"] /\ \A q \in Pushes \ {p} : sent'[q] = sent[q]
    BY <1>1 DEF SendRequest, SStep
  <2> QED BY <2>1 DEF StreamInv, Streaming, TypeOK, ControlType
<1>2. ASSUME NEW p \in Pushes, SendHeader(p) PROVE StreamInv'
  <2>1. \/ spc' = [spc EXCEPT ![p] = "opening"] /\ sent' = [sent EXCEPT ![p] = 2]
        \/ spc' = [spc EXCEPT ![p] = "leaving"] /\ sent' = sent
    BY <1>2 DEF SendHeader, SStep
  <2>2. CASE spc' = [spc EXCEPT ![p] = "opening"] /\ sent' = [sent EXCEPT ![p] = 2]
    <3>1. \A q \in Pushes \ {p} : spc'[q] = spc[q] /\ sent'[q] = sent[q]
      BY <2>2 DEF TypeOK, ControlType, CountType
    <3>2. spc'[p] = "opening" /\ sent'[p] = 2
      BY <2>2 DEF TypeOK, ControlType, CountType
    <3> QED BY <3>1, <3>2 DEF StreamInv, Streaming
  <2>3. CASE spc' = [spc EXCEPT ![p] = "leaving"] /\ sent' = sent
    BY <2>3 DEF StreamInv, Streaming, TypeOK, ControlType
  <2> QED BY <2>1, <2>2, <2>3
<1>3. ASSUME NEW p \in Pushes, OpenWriter(p) PROVE StreamInv'
  BY <1>3 DEF OpenWriter, SStep, StreamInv, Streaming, TypeOK, ControlType
<1>4. ASSUME NEW p \in Pushes, Write(p) PROVE StreamInv'
  <2>1. /\ spc[p] = "streaming"
        /\ \/ spc' = [spc EXCEPT ![p] = "broken"] /\ sent' = sent
           \/ spc' = [spc EXCEPT ![p] = "wrote"] /\ sent' = [sent EXCEPT ![p] = @ + 1]
    BY <1>4 DEF Write, SStep
  <2>2. sent[p] > 1 /\ sent[p] \in Nat
    BY <2>1, Counted DEF StreamInv, Streaming
  <2>3. sent[p] + 1 > 1
    BY ONLY <2>2
  <2>4. \A q \in Pushes \ {p} : spc'[q] = spc[q] /\ sent'[q] = sent[q]
    BY <1>4, SenderFrame DEF SenderNext
  <2>5. spc'[p] \in {"broken", "wrote"} /\ sent'[p] \in {sent[p], sent[p] + 1}
    BY <2>1 DEF TypeOK, ControlType, CountType
  <2>6. sent'[p] > 1
    BY ONLY <2>2, <2>3, <2>5
  <2> QED BY ONLY <1>4, <2>4, <2>5, <2>6, StreamInv DEF StreamInv, Streaming
<1>5. ASSUME NEW p \in Pushes, Wrote(p) PROVE StreamInv'
  <2>1. /\ spc[p] = "wrote" /\ sent' = sent
        /\ spc' = [spc EXCEPT ![p] = IF sent[p] = Full THEN "copied" ELSE "streaming"]
    BY <1>5 DEF Wrote, SStep
  <2> QED BY <2>1 DEF StreamInv, Streaming, TypeOK, ControlType
<1>6. ASSUME NEW p \in Pushes, sent' = sent,
             \E to \in (SenderPCs \ Streaming) \ {"opening"} : spc' = [spc EXCEPT ![p] = to]
      PROVE  StreamInv'
  BY <1>6 DEF StreamInv, Streaming, TypeOK, ControlType
<1>7. CASE UNCHANGED <<spc, sent, outcome>>
  BY <1>7 DEF StreamInv
<1> QED
  BY <1>1, <1>2, <1>3, <1>4, <1>5, <1>6, <1>7, QuietSender, NotSender DEF Next, SenderNext

\* The steps of the receiver's handler that neither answer, read nor record.
LEMMA NotReceiver ==
    ASSUME \/ \E p \in Pushes : \/ Dispatch(p) \/ SenderNext(p) \/ UserAnswers(p)
                                \/ ReadBack(p) \/ Deliver(p) \/ Lose(p) \/ Break(p)
           \/ ClickSender \/ ClickPending \/ ClickReceiver \/ UNCHANGED vars
    PROVE  UNCHANGED <<rpc, recvd, verdict>> 
<1> USE DEF senderVars, receiverVars
<1>1. ASSUME NEW p \in Pushes, Dispatch(p) \/ SenderNext(p) PROVE UNCHANGED <<rpc, recvd, verdict>>
  BY <1>1 DEF Dispatch, SenderNext, Prepare, Resolve, Export, Dial, Announce, SendRequest,
     Negotiate, Prune, SendHeader, OpenWriter, Write, Wrote, Conclude, Cleanup, Leave, SUnchanged
<1> QED
  BY <1>1 DEF UserAnswers, ReadBack, Deliver, Lose, Break, ClickSender, ClickPending,
     ClickReceiver, vars

\* None of them sends an answer.
LEMMA NoAnswer ==
    ASSUME \/ \E p \in Pushes : \/ Dispatch(p) \/ SenderNext(p) \/ UserAnswers(p)
                                \/ ReadBack(p) \/ Deliver(p) \/ Lose(p) \/ Break(p)
           \/ ClickSender \/ ClickPending \/ ClickReceiver \/ UNCHANGED vars
    PROVE  reply' = reply
<1>1. ASSUME NEW p \in Pushes, Dispatch(p) \/ SenderNext(p) PROVE reply' = reply
  BY <1>1 DEF Dispatch, SenderNext, Prepare, Resolve, Export, Dial, Announce, SendRequest,
     Negotiate, Prune, SendHeader, OpenWriter, Write, Wrote, Conclude, Cleanup, Leave
<1> QED
  BY <1>1 DEF UserAnswers, ReadBack, Deliver, Lose, Break, ClickSender, ClickPending,
     ClickReceiver, vars, netVars

\* Every step of the receiver keeps what it answered in line with where it stands.
LEMMA AnswerStep ==
    ASSUME TypeOK, AnswerInv, [Next]_vars
    PROVE  AnswerInv'
<1> USE DEF AnswerInv, Unanswered, Serving, TypeOK, ControlType, CountType
<1>1. ASSUME NEW p \in Pushes, Accept(p) PROVE AnswerInv'
  <2>1. /\ rpc[p] = "none" /\ UNCHANGED <<recvd, verdict>>
        /\ (rpc'[p] = "accepted" /\ reply' = reply) \/ rpc'[p] = "gone"
    BY <1>1 DEF Accept, RStep
  <2>2. \A q \in Pushes \ {p} : /\ rpc'[q] = rpc[q] /\ recvd'[q] = recvd[q]
                                 /\ verdict'[q] = verdict[q] /\ reply'[q] = reply[q]
    BY <1>1, HandlerFrame DEF ReceiverNext
  <2> QED BY ONLY <1>1, <2>1, <2>2, AnswerInv DEF AnswerInv, Unanswered, Serving
<1>2. ASSUME NEW p \in Pushes, ReadRequest(p) PROVE AnswerInv'
  <2>1. /\ rpc[p] = "accepted" /\ rpc'[p] \in {"asking", "approved"}
        /\ UNCHANGED <<reply, verdict>>
    BY <1>2 DEF ReadRequest, RStep
  <2>2. \A q \in Pushes \ {p} : rpc'[q] = rpc[q] /\ recvd'[q] = recvd[q]
    BY <1>2 DEF ReadRequest, RStep
  <2> QED BY <2>1, <2>2
<1>3. ASSUME NEW p \in Pushes, RequestTimesOut(p) PROVE AnswerInv'
  BY <1>3 DEF RequestTimesOut, RStep
<1>4. ASSUME NEW p \in Pushes, Resolved(p) PROVE AnswerInv'
  <2>1. /\ rpc[p] = "asking" /\ UNCHANGED <<recvd, verdict>>
        /\ \/ rpc'[p] = "approved" /\ reply' = reply
           \/ rpc'[p] = "refused" /\ reply'[p] = "no"
    BY <1>4 DEF Resolved, RStep
  <2>2. \A q \in Pushes \ {p} : /\ rpc'[q] = rpc[q] /\ recvd'[q] = recvd[q]
                                 /\ verdict'[q] = verdict[q] /\ reply'[q] = reply[q]
    BY <1>4, HandlerFrame DEF ReceiverNext
  <2> QED BY ONLY <1>4, <2>1, <2>2, AnswerInv DEF AnswerInv, Unanswered, Serving
<1>5. ASSUME NEW p \in Pushes, Refuse(p) PROVE AnswerInv'
  BY <1>5 DEF Refuse, RStep, Records
<1>6. ASSUME NEW p \in Pushes, Reply(p) PROVE AnswerInv'
  <2>1. /\ rpc[p] = "approved" /\ recvd' = recvd
        /\ \/ rpc'[p] = "replied" /\ reply'[p] = "yes" /\ verdict' = verdict
           \/ rpc'[p] = "gone"
    BY <1>6 DEF Reply, RStep
  <2>2. \A q \in Pushes \ {p} : /\ rpc'[q] = rpc[q] /\ recvd'[q] = recvd[q]
                                 /\ verdict'[q] = verdict[q] /\ reply'[q] = reply[q]
    BY <1>6, HandlerFrame DEF ReceiverNext
  <2> QED BY ONLY <1>6, <2>1, <2>2, AnswerInv DEF AnswerInv, Unanswered, Serving
<1>7. ASSUME NEW p \in Pushes, ReadHeader(p) PROVE AnswerInv'
  <2>1. /\ rpc[p] = "replied" /\ rpc'[p] \in {"receiving", "gone"} /\ reply' = reply
        /\ rpc'[p] = "receiving" => recvd'[p] = 2 /\ verdict' = verdict
    BY <1>7 DEF ReadHeader, RStep, Abandon
  <2>2. \A q \in Pushes \ {p} : rpc'[q] = rpc[q] /\ recvd'[q] = recvd[q] /\ verdict'[q] = verdict[q]
    BY <1>7 DEF ReadHeader, RStep, Abandon, Records
  <2>3. 2 > 1
    BY ONLY SMT
  <2>4. rpc'[p] = "receiving" => recvd'[p] > 1
    BY <2>1, <2>3, Zenon
  <2> QED BY ONLY <1>7, <2>1, <2>2, <2>4, AnswerInv DEF AnswerInv, Unanswered, Serving
<1>8. ASSUME NEW p \in Pushes, ReadChunk(p) PROVE AnswerInv'
  <2>1. UNCHANGED <<rpc, verdict, reply>> /\ rpc[p] = "receiving" /\ recvd'[p] = recvd[p] + 1
    BY <1>8 DEF ReadChunk, RStep
  <2>2. \A q \in Pushes \ {p} : recvd'[q] = recvd[q]
    BY <1>8 DEF ReadChunk
  <2>3. recvd[p] > 1 /\ recvd[p] \in Nat
    BY <2>1, Counted
  <2>4. recvd'[p] > 1
    BY ONLY <2>1, <2>3
  <2> QED BY <2>1, <2>2, <2>4
<1>9. ASSUME NEW p \in Pushes, ReadFails(p) PROVE AnswerInv'
  <2>1. rpc[p] = "receiving" /\ rpc'[p] = "gone" /\ UNCHANGED <<reply, recvd>>
    BY <1>9 DEF ReadFails, RStep, Abandon
  <2>2. \A q \in Pushes \ {p} : rpc'[q] = rpc[q] /\ verdict'[q] = verdict[q]
    BY <1>9 DEF ReadFails, RStep, Abandon, Records
  <2> QED BY <2>1, <2>2
<1>10. ASSUME NEW p \in Pushes, ReadEnd(p) PROVE AnswerInv'
  BY <1>10 DEF ReadEnd, RStep
<1>11. ASSUME NEW p \in Pushes, Verify(p) PROVE AnswerInv'
  <2>1. /\ rpc[p] = "verifying" /\ UNCHANGED <<recvd, reply>>
        /\ (rpc'[p] = "stitching" /\ verdict' = verdict) \/ rpc'[p] = "gone"
    BY <1>11 DEF Verify, RStep, Abandon
  <2>2. \A q \in Pushes \ {p} : /\ rpc'[q] = rpc[q] /\ recvd'[q] = recvd[q]
                                 /\ verdict'[q] = verdict[q] /\ reply'[q] = reply[q]
    BY <1>11, HandlerFrame DEF ReceiverNext
  <2> QED BY ONLY <1>11, <2>1, <2>2, AnswerInv DEF AnswerInv, Unanswered, Serving
<1>12. ASSUME NEW p \in Pushes, Stitch(p) PROVE AnswerInv'
  <2>1. rpc[p] = "stitching" /\ UNCHANGED <<recvd, reply>> /\ rpc'[p] \in {"handing", "gone"}
    BY <1>12 DEF Stitch, RStep, Abandon
  <2>2. \A q \in Pushes \ {p} : /\ rpc'[q] = rpc[q] /\ recvd'[q] = recvd[q]
                                 /\ verdict'[q] = verdict[q] /\ reply'[q] = reply[q]
    BY <1>12, HandlerFrame DEF ReceiverNext
  <2> QED BY ONLY <1>12, <2>1, <2>2, AnswerInv DEF AnswerInv, Unanswered, Serving
<1>13. ASSUME NEW p \in Pushes, Load(p) PROVE AnswerInv'
  BY <1>13 DEF Load, RStep
<1>14. CASE UNCHANGED <<rpc, recvd, verdict, reply>>
  BY <1>14
<1> QED
  BY <1>1, <1>2, <1>3, <1>4, <1>5, <1>6, <1>7, <1>8, <1>9, <1>10, <1>11, <1>12, <1>13, <1>14,
     NotReceiver, NoAnswer DEF Next, ReceiverNext

\* What the log needs to know of the session.
LogInv == IndInv /\ StreamInv /\ AnswerInv

\* It holds in every state.
LEMMA LogHolds == Spec => []LogInv
<1>1. Init => StreamInv /\ AnswerInv
  <2> SUFFICES ASSUME Init, NEW p \in Pushes
               PROVE  /\ spc[p] = "idle" /\ rpc[p] = "none" /\ reply[p] = ""
                      /\ verdict[p] = "" /\ recvd[p] = 0
    BY DEF StreamInv, AnswerInv, Streaming, Unanswered, Serving
  <2> QED BY DEF Init
<1>2. IndInv /\ StreamInv /\ [Next]_vars => StreamInv'
  BY StreamStep DEF IndInv
<1>3. IndInv /\ AnswerInv /\ [Next]_vars => AnswerInv'
  BY AnswerStep DEF IndInv
<1> QED BY <1>1, <1>2, <1>3, IndHolds, PTL DEF Spec, LogInv

\* Two pushes that have sent and received alike are the same to the log.
LEMMA SameData ==
    ASSUME UNCHANGED <<sent, recvd, reply, outcome, verdict>>
    PROVE  UNCHANGED Log!vars
BY DEF Log!vars, Payload

\* What has been sent of a payload.
LEMMA Sent ==
    ASSUME TypeOK, NEW p \in Pushes
    PROVE  /\ sent[p] > 1 => Payload(p) # "none"
           /\ sent[p] \in {0, 1} => Payload(p) = "none"
           /\ sent[p] = Full <=> Payload(p) = "all"
<1>1. sent[p] \in 0..Full
  BY Counted
<1> QED BY <1>1, FullSize DEF Payload

\* What an answer is to the log.
LEMMA IsAnswer ==
    ASSUME TypeOK, NEW p \in Pushes, reply[p] = "", verdict[p] = "",
           NEW v \in {"yes", "no"}, reply' = [reply EXCEPT ![p] = v],
           UNCHANGED <<sent, recvd, outcome, verdict>>
    PROVE  Log!Next
<1>1. Log!Answer(p)
  BY DEF Log!Answer, Payload
<1> QED BY <1>1 DEF Log!Next

\* What a row of the sender is.
LEMMA IsSenderRow ==
    ASSUME TypeOK, NEW p \in Pushes, outcome[p] = "", NEW status,
           outcome' = [outcome EXCEPT ![p] = status],
           \/ status = "Completed" /\ Payload(p) = "all"
           \/ status = "Canceled" /\ Payload(p) # "none"
           \/ status = "Failed" /\ Payload(p) # "all"
           \/ status = "Rejected" /\ reply[p] = "no",
           UNCHANGED <<sent, recvd, reply, verdict>>
    PROVE  Log!Next
<1>1. Log!SenderEnds(p)
  BY DEF Log!SenderEnds, Payload
<1> QED BY <1>1 DEF Log!Next

\* What a row of the receiver is.
LEMMA IsReceiverRow ==
    ASSUME TypeOK, NEW p \in Pushes, verdict[p] = "", NEW status,
           verdict' = [verdict EXCEPT ![p] = status],
           \/ status = "Completed" /\ recvd[p] = Full
           \/ status = "Canceled" /\ Payload(p) # "none"
           \/ status = "Failed" /\ reply[p] # "no"
           \/ status = "Rejected" /\ reply[p] = "no",
           UNCHANGED <<sent, recvd, reply, outcome>>
    PROVE  Log!Next
<1>1. Log!ReceiverEnds(p)
  BY DEF Log!ReceiverEnds, Payload
<1> QED BY <1>1 DEF Log!Next

\* What a message that leaves the sender is: a part of the payload, or all of it.
LEMMA IsSend ==
    ASSUME TypeOK, NEW p \in Pushes, outcome[p] = "", reply[p] = "yes", NEW n,
           \/ sent[p] \in {0, 1} /\ n = 2
           \/ sent[p] > 1 /\ sent[p] # Full /\ n = sent[p] + 1,
           sent' = [sent EXCEPT ![p] = n],
           UNCHANGED <<recvd, reply, outcome, verdict>>
    PROVE  [Log!Next]_(Log!vars)
<1> DEFINE data == [q \in Pushes |-> Payload(q)]
<1>1. sent[p] \in 0..Full /\ Full \in Nat /\ Full > 2
  BY Counted, FullSize
<1>2. \A q \in Pushes \ {p} : sent'[q] = sent[q]
  BY DEF TypeOK, CountType
<1>3. sent'[p] = n
  BY DEF TypeOK, CountType
<1>4. \A q \in Pushes \ {p} : Payload(q)' = Payload(q)
  BY <1>2 DEF Payload
<1>5. CASE sent[p] \in {0, 1} /\ n = 2
  <2>1. Payload(p) = "none" /\ Payload(p)' = "part"
    BY ONLY <1>1, <1>3, <1>5 DEF Payload
  <2>2. data' = [data EXCEPT ![p] = "part"]
    BY <1>4, <2>1
  <2>3. Log!Send(p)
    BY <2>1, <2>2 DEF Log!Send
  <2> QED BY <2>3 DEF Log!Next
<1>6. CASE sent[p] > 1 /\ sent[p] # Full /\ n = sent[p] + 1
  <2>1. Payload(p) = "part" /\ Payload(p)' \in {"part", "all"}
    BY ONLY <1>1, <1>3, <1>6 DEF Payload
  <2>2. CASE Payload(p)' = "all"
    <3>1. data' = [data EXCEPT ![p] = "all"]
      BY <1>4, <2>2
    <3>2. Log!Send(p)
      BY <2>1, <3>1 DEF Log!Send
    <3> QED BY <3>2 DEF Log!Next
  <2>3. CASE Payload(p)' = "part"
    <3>1. data' = data
      BY <1>4, <2>1, <2>3
    <3> QED BY <3>1 DEF Log!vars
  <2> QED BY <2>1, <2>2, <2>3
<1> QED BY <1>5, <1>6

\* What a message that the receiver reads is: the last of the payload, or nothing.
LEMMA IsRead ==
    ASSUME TypeOK, NEW p \in Pushes, verdict[p] = "", NEW n \in Nat, recvd[p] < n, n <= sent[p],
           recvd' = [recvd EXCEPT ![p] = n],
           UNCHANGED <<sent, reply, outcome, verdict>>
    PROVE  [Log!Next]_(Log!vars)
<1> DEFINE whole == {q \in Pushes : recvd[q] = Full}
<1>1. sent[p] \in 0..Full /\ recvd[p] \in 0..Full /\ Full \in Nat
  BY Counted, FullSize
<1>2. recvd[p] # Full /\ (n = Full => sent[p] = Full)
  BY ONLY <1>1, n \in Nat, recvd[p] < n, n <= sent[p]
<1>3. \A q \in Pushes \ {p} : recvd'[q] = recvd[q]
  BY DEF TypeOK, CountType
<1>4. recvd'[p] = n
  BY DEF TypeOK, CountType
<1>5. CASE n = Full
  <2>1. whole' = whole \cup {p}
    BY <1>3, <1>4, <1>5
  <2>2. Payload(p) = "all"
    BY <1>2, <1>5, Sent
  <2>3. Log!Receive(p)
    BY <2>1, <2>2 DEF Log!Receive, Payload
  <2> QED BY <2>3 DEF Log!Next
<1>6. CASE n # Full
  <2>1. whole' = whole
    BY <1>2, <1>3, <1>4, <1>6
  <2> QED BY <2>1 DEF Log!vars, Payload
<1> QED BY <1>5, <1>6

\* Every step of the sender is one of the log's, or none of them.
LEMMA SenderLogs ==
    ASSUME LogInv, NEW p \in Pushes, SenderNext(p)
    PROVE  [Log!Next]_(Log!vars)
<1> USE DEF LogInv, IndInv
<1>0. TypeOK
  OBVIOUS
<1>1. UNCHANGED <<recvd, reply, verdict>>
  BY DEF SenderNext, Prepare, Resolve, Export, Dial, Announce, SendRequest, Negotiate, Prune,
     SendHeader, OpenWriter, Write, Wrote, Conclude, Cleanup, Leave, SUnchanged, receiverVars
<1>2. ASSUME NEW status, outcome' = [outcome EXCEPT ![p] = status], sent' = sent,
             spc[p] \notin Late,
             \/ status = "Completed" /\ Payload(p) = "all"
             \/ status = "Canceled" /\ Payload(p) # "none"
             \/ status = "Failed" /\ Payload(p) # "all"
             \/ status = "Rejected" /\ reply[p] = "no"
      PROVE  [Log!Next]_(Log!vars)
  <2>1. outcome[p] = ""
    BY <1>2 DEF SendInv
  <2> QED BY <1>0, <1>1, <1>2, <2>1, IsSenderRow
<1>3. spc[p] \in Silent \cup {"asked", "pruning", "pruned"} => Payload(p) = "none"
  BY Sent DEF SendInv
<1>4. CASE UNCHANGED <<sent, outcome>>
  BY <1>1, <1>4, SameData
<1>5. ASSUME Resolve(p) \/ Export(p) \/ Dial(p) \/ Prune(p) PROVE [Log!Next]_(Log!vars)
  <2>1. /\ UNCHANGED sent
        /\ UNCHANGED outcome \/ outcome' = [outcome EXCEPT ![p] = "Failed"]
        /\ spc[p] \in Silent \cup {"pruning"}
    BY <1>5 DEF Resolve, Export, Dial, Prune, SStep, Ends, Silent
  <2>2. spc[p] \notin Late
    BY <2>1 DEF Silent, Late, Cleaning
  <2> QED BY <1>2, <1>3, <1>4, <2>1, <2>2
<1>6. ASSUME SendRequest(p) PROVE [Log!Next]_(Log!vars)
  <2>1. outcome' = outcome /\ spc[p] = "announced" /\ sent[p] \in {0, 1}
    BY <1>6 DEF SendRequest, SStep, SendInv, Silent
  <2>2. \E n \in {0, 1} : sent' = [sent EXCEPT ![p] = n]
    BY <1>6 DEF SendRequest
  <2>3. \A q \in Pushes : Payload(q)' = Payload(q)
    <3>1. \A q \in Pushes \ {p} : sent'[q] = sent[q]
      BY <2>2
    <3>2. sent'[p] \in {0, 1}
      BY <2>2 DEF TypeOK, CountType
    <3>3. Payload(p) = "none" /\ Payload(p)' = "none"
      BY <2>1, <3>2 DEF Payload
    <3> QED BY <3>1, <3>3 DEF Payload
  <2> QED BY <1>1, <2>1, <2>3 DEF Log!vars
<1>7. ASSUME Negotiate(p) PROVE [Log!Next]_(Log!vars)
  <2>1. /\ UNCHANGED sent /\ spc[p] = "asked"
        /\ \/ UNCHANGED outcome
           \/ outcome' = [outcome EXCEPT ![p] = "Rejected"] /\ reply[p] = "no"
           \/ outcome' = [outcome EXCEPT ![p] = "Failed"]
    BY <1>7 DEF Negotiate, SStep, Ends
  <2>2. spc[p] \notin Late
    BY <2>1 DEF Late, Cleaning
  <2> QED BY <1>2, <1>3, <1>4, <2>1, <2>2
<1>8. ASSUME SendHeader(p) PROVE [Log!Next]_(Log!vars)
  <2>1. /\ spc[p] = "pruned"
        /\ \/ UNCHANGED outcome /\ sent' = [sent EXCEPT ![p] = 2]
           \/ outcome' = [outcome EXCEPT ![p] = "Failed"] /\ UNCHANGED sent
    BY <1>8 DEF SendHeader, SStep, Ends
  <2>2. spc[p] \notin Late /\ outcome[p] = "" /\ sent[p] \in {0, 1}
    BY <2>1 DEF Late, Cleaning, SendInv
  <2>3. CASE UNCHANGED outcome /\ sent' = [sent EXCEPT ![p] = 2]
    <3>1. reply[p] = "yes"
      BY <1>8 DEF SendHeader, ReplyInv, SStep
    <3> QED BY <1>0, <1>1, <2>2, <2>3, <3>1, IsSend
  <2> QED BY <1>2, <1>3, <2>1, <2>2, <2>3
<1>9. ASSUME Write(p) PROVE [Log!Next]_(Log!vars)
  <2>1. /\ spc[p] = "streaming" /\ UNCHANGED outcome
        /\ UNCHANGED sent \/ sent' = [sent EXCEPT ![p] = sent[p] + 1]
    BY <1>9 DEF Write, SStep
  <2>2. outcome[p] = "" /\ sent[p] # Full
    BY <2>1 DEF SendInv, Late, Cleaning
  <2>3. reply[p] = "yes" /\ sent[p] > 1
    BY <2>1 DEF ReplyInv, StreamInv, Streaming
  <2> QED BY <1>0, <1>1, <1>4, <2>1, <2>2, <2>3, IsSend
<1>10. ASSUME Conclude(p) PROVE [Log!Next]_(Log!vars)
  <2>1. spc[p] \in {"copied", "broken"} /\ UNCHANGED sent
    BY <1>10 DEF Conclude, SStep
  <2>2. \/ outcome' = [outcome EXCEPT ![p] = "Canceled"]
        \/ outcome' = [outcome EXCEPT ![p] = "Failed"] /\ spc[p] = "broken"
        \/ outcome' = [outcome EXCEPT ![p] = "Completed"] /\ spc[p] = "copied"
    BY <1>10 DEF Conclude, SStep, Ends
  <2>3. spc[p] \notin Late /\ sent[p] > 1
    BY <2>1 DEF Late, Cleaning, StreamInv, Streaming
  <2>4. spc[p] = "broken" => sent[p] # Full
    BY DEF SendInv, Late, Cleaning
  <2>5. spc[p] = "copied" => sent[p] = Full
    BY DEF StreamInv
  <2>6. /\ Payload(p) # "none"
        /\ spc[p] = "broken" => Payload(p) # "all"
        /\ spc[p] = "copied" => Payload(p) = "all"
    BY <1>0, <2>3, <2>4, <2>5, Sent
  <2> QED BY <1>2, <2>1, <2>2, <2>3, <2>6
<1> QED
  BY <1>4, <1>5, <1>6, <1>7, <1>8, <1>9, <1>10
  DEF SenderNext, Prepare, Announce, OpenWriter, Wrote, Cleanup, Leave

\* So is every step of the receiver.
LEMMA ReceiverLogs ==
    ASSUME LogInv, NEW p \in Pushes, ReceiverNext(p)
    PROVE  [Log!Next]_(Log!vars)
<1> USE DEF LogInv, IndInv
<1>0. TypeOK
  OBVIOUS
<1>1. UNCHANGED <<sent, outcome>>
  BY NotSender
<1>2. ASSUME NEW v \in {"yes", "no"}, reply' = [reply EXCEPT ![p] = v],
             rpc[p] \in Unanswered, UNCHANGED <<recvd, verdict>>
      PROVE  [Log!Next]_(Log!vars)
  <2>1. reply[p] = "" /\ verdict[p] = ""
    BY <1>2 DEF AnswerInv, Unanswered
  <2> QED BY <1>0, <1>1, <1>2, <2>1, IsAnswer
<1>3. ASSUME NEW status, verdict' = [verdict EXCEPT ![p] = status],
             rpc[p] \notin {"handing", "loaded", "gone"}, UNCHANGED <<recvd, reply>>,
             \/ status = "Completed" /\ recvd[p] = Full
             \/ status = "Canceled" /\ Payload(p) # "none"
             \/ status = "Failed" /\ reply[p] # "no"
             \/ status = "Rejected" /\ reply[p] = "no"
      PROVE  [Log!Next]_(Log!vars)
  <2>1. verdict[p] = ""
    BY <1>3 DEF AnswerInv
  <2> QED BY <1>0, <1>1, <1>3, <2>1, IsReceiverRow
<1>4. CASE UNCHANGED <<recvd, reply, verdict>>
  BY <1>1, <1>4, SameData
<1>5. ASSUME Accept(p) \/ Resolved(p) PROVE [Log!Next]_(Log!vars)
  <2>1. /\ UNCHANGED <<recvd, verdict>> /\ rpc[p] \in Unanswered
        /\ UNCHANGED reply \/ reply' = [reply EXCEPT ![p] = "no"]
    BY <1>5 DEF Accept, Resolved, RStep, Unanswered
  <2> QED BY <1>2, <1>4, <2>1
<1>6. ASSUME Refuse(p) PROVE [Log!Next]_(Log!vars)
  <2>1. /\ UNCHANGED <<recvd, reply>> /\ rpc[p] = "refused"
        /\ verdict' = [verdict EXCEPT ![p] = "Rejected"]
    BY <1>6 DEF Refuse, RStep, Records
  <2>2. reply[p] = "no"
    BY <2>1 DEF AnswerInv
  <2> QED BY <1>3, <2>1, <2>2
<1>7. ASSUME Reply(p) PROVE [Log!Next]_(Log!vars)
  <2>1. /\ UNCHANGED recvd /\ rpc[p] = "approved"
        /\ \/ reply' = [reply EXCEPT ![p] = "yes"] /\ UNCHANGED verdict
           \/ verdict' = [verdict EXCEPT ![p] = "Failed"] /\ UNCHANGED reply
    BY <1>7 DEF Reply, RStep, Records
  <2>2. rpc[p] \in Unanswered /\ reply[p] = ""
    BY <2>1 DEF AnswerInv, Unanswered
  <2> QED BY <1>2, <1>3, <2>1, <2>2
<1>8. ASSUME NEW from \in Serving, NEW status \in {"Failed", "Canceled"}, Abandon(p, from, status),
             UNCHANGED <<recvd, reply>>, status = "Canceled" => Payload(p) # "none"
      PROVE  [Log!Next]_(Log!vars)
  <2>1. rpc[p] = from /\ verdict' = [verdict EXCEPT ![p] = status]
    BY <1>8 DEF Abandon, RStep, Records
  <2>2. reply[p] = "yes" /\ rpc[p] \notin {"handing", "loaded", "gone"}
    BY <1>8, <2>1 DEF AnswerInv, Serving
  <2> QED BY <1>3, <1>8, <2>1, <2>2
<1>9. ASSUME ReadHeader(p) PROVE [Log!Next]_(Log!vars)
  <2>1. CASE MoreToRead(p) /\ RStep(p, "replied", "receiving") /\ recvd' = [recvd EXCEPT ![p] = 2]
             /\ UNCHANGED <<verdict, reply>>
    <3>1. verdict[p] = "" /\ recvd[p] = 1 /\ recvd[p] < sent[p]
      BY <2>1 DEF AnswerInv, ReceiveInv, MoreToRead, RStep
    <3>2. recvd[p] < 2 /\ 2 <= sent[p]
      <4>1. sent[p] \in Nat
        BY <1>0, Counted
      <4>2. recvd[p] = 1 /\ 1 < sent[p]
        BY <3>1
      <4> QED BY ONLY <4>1, <4>2
    <3> QED BY <1>0, <1>1, <2>1, <3>1, <3>2, IsRead
  <2>2. CASE Abandon(p, "replied", "Failed") /\ UNCHANGED <<recvd, reply>>
    BY <1>8, <2>2 DEF Serving
  <2> QED BY <1>9, <2>1, <2>2 DEF ReadHeader
<1>10. ASSUME ReadChunk(p) PROVE [Log!Next]_(Log!vars)
  <2>1. /\ rpc[p] = "receiving" /\ UNCHANGED <<verdict, reply>> /\ recvd[p] < sent[p]
        /\ recvd' = [recvd EXCEPT ![p] = recvd[p] + 1]
    BY <1>10 DEF ReadChunk, RStep, MoreToRead
  <2>2. verdict[p] = ""
    BY <2>1 DEF AnswerInv
  <2>3. recvd[p] \in Nat /\ sent[p] \in Nat
    BY <1>0, Counted
  <2>4. recvd[p] < recvd[p] + 1 /\ recvd[p] + 1 <= sent[p] /\ recvd[p] + 1 \in Nat
    BY ONLY <2>1, <2>3
  <2> QED BY <1>0, <1>1, <2>1, <2>2, <2>4, IsRead
<1>14. ASSUME ReadRequest(p) PROVE [Log!Next]_(Log!vars)
  <2>1. /\ rpc[p] = "accepted" /\ UNCHANGED <<verdict, reply>> /\ sent[p] > 0
        /\ recvd' = [recvd EXCEPT ![p] = 1]
    BY <1>14 DEF ReadRequest, RStep
  <2>2. verdict[p] = "" /\ recvd[p] = 0
    BY <2>1 DEF AnswerInv
  <2>3. sent[p] \in Nat
    BY <1>0, Counted
  <2>4. recvd[p] < 1 /\ 1 <= sent[p]
    <3>1. sent[p] > 0 /\ recvd[p] = 0
      BY <2>1, <2>2
    <3> QED BY ONLY <3>1, <2>3
  <2> QED BY <1>0, <1>1, <2>1, <2>2, <2>4, IsRead
<1>11. ASSUME ReadFails(p) PROVE [Log!Next]_(Log!vars)
  <2>1. UNCHANGED <<recvd, reply>> /\ "receiving" \in Serving
    BY <1>11 DEF ReadFails, Serving
  <2>2. CASE MoreToRead(p) /\ Abandon(p, "receiving", "Canceled")
    <3>1. recvd[p] > 1 /\ recvd[p] < sent[p]
      BY <2>2 DEF Abandon, RStep, AnswerInv, MoreToRead
    <3>2. sent[p] \in Nat /\ recvd[p] \in Nat
      BY <1>0, Counted
    <3>3. sent[p] > 1
      BY ONLY <3>1, <3>2
    <3> QED BY <1>0, <1>8, <2>1, <2>2, <3>3, Sent
  <2>3. CASE Abandon(p, "receiving", "Failed")
    BY <1>8, <2>1, <2>3
  <2> QED BY <1>11, <2>2, <2>3 DEF ReadFails
<1>12. ASSUME Verify(p) PROVE [Log!Next]_(Log!vars)
  <2>1. UNCHANGED <<recvd, reply>> /\ "verifying" \in Serving
    BY <1>12 DEF Verify, Serving
  <2> QED BY <1>4, <1>8, <1>12, <2>1 DEF Verify
<1>13. ASSUME Stitch(p) PROVE [Log!Next]_(Log!vars)
  <2>1. UNCHANGED <<recvd, reply>> /\ "stitching" \in Serving
    BY <1>13 DEF Stitch, Serving
  <2>2. CASE RStep(p, "stitching", "handing") /\ Records(p, "Completed")
    <3>1. rpc[p] = "stitching" /\ verdict' = [verdict EXCEPT ![p] = "Completed"]
      BY <2>2 DEF RStep, Records
    <3>2. recvd[p] = Full
      BY <3>1 DEF ReceiveInv, Whole
    <3> QED BY <1>3, <2>1, <3>1, <3>2
  <2> QED BY <1>8, <1>13, <2>1, <2>2 DEF Stitch
<1> QED
  BY <1>4, <1>5, <1>6, <1>7, <1>9, <1>10, <1>11, <1>12, <1>13, <1>14
  DEF ReceiverNext, RequestTimesOut, UserAnswers, ReadEnd, Load

\* The session implements the log, for any pushes, chunks, cancellations and breaks: in
\* particular neither side writes a second row, and each row tells what became of the
\* payload and of the request.
THEOREM SessionImplementsLog == Spec => Log!Spec
<1>1. Init => Log!Init
  <2> SUFFICES ASSUME Init PROVE Log!Init
    OBVIOUS
  <2>1. \A p \in Pushes : sent[p] = 0 /\ recvd[p] = 0
    BY DEF Init
  <2>2. 0 < 2 /\ 0 # Full
    BY FullSize
  <2>3. \A p \in Pushes : Payload(p) = "none" /\ recvd[p] # Full
    BY <2>1, <2>2, Zenon DEF Payload
  <2> QED BY <2>3 DEF Init, Log!Init
<1>2. LogInv /\ [Next]_vars => [Log!Next]_(Log!vars)
  <2> SUFFICES ASSUME LogInv, [Next]_vars PROVE [Log!Next]_(Log!vars)
    OBVIOUS
  <2>1. ASSUME NEW p \in Pushes,
               Dispatch(p) \/ ReadBack(p) \/ Deliver(p) \/ Lose(p) \/ Break(p)
        PROVE  UNCHANGED <<sent, recvd, reply, outcome, verdict>>
    BY <2>1, NotReceiver, NoAnswer DEF Dispatch, ReadBack, Deliver, Lose, Break, senderVars
  <2>2. ASSUME ClickSender \/ ClickPending \/ ClickReceiver \/ UNCHANGED vars
        PROVE  UNCHANGED <<sent, recvd, reply, outcome, verdict>>
    BY <2>2, NotReceiver, NotSender, NoAnswer
  <2> QED BY <2>1, <2>2, SameData, SenderLogs, ReceiverLogs DEF Next
<1> QED BY <1>1, <1>2, LogHolds, PTL DEF Spec, Log!Spec

-----------------------------------------------------------------------------
(* A push that is not retried: what its user sees is its own.               *)

\* Whatever cancels a push, the byte that travels back and the control connection
\* included, goes back to a click.
CancelInv == \A p \in Pushes : scancel[p] \/ rcancel[p] \/ back[p] \/ ctl[p] > 0 => p \in wanted

\* Neither daemon cancels on its own (the reader in streamPayload returns at an error).
THEOREM CancelIsWanted ==
    ASSUME NEW p, Pushes = {p}
    PROVE  Spec => []CancelHitsItsTransfer
<1>1. Init => CancelInv
  <2>1. ~(0 > 0)
    OBVIOUS
  <2>2. ASSUME Init, NEW q \in Pushes
        PROVE  scancel[q] = FALSE /\ rcancel[q] = FALSE /\ back[q] = FALSE /\ ctl[q] = 0
    BY <2>2, Zenon DEF Init
  <2> QED BY <2>1, <2>2, Zenon DEF CancelInv
<1>2. TypeOK /\ CancelInv /\ [Next]_vars => CancelInv'
  <2> SUFFICES ASSUME TypeOK, CancelInv, [Next]_vars PROVE CancelInv'
    OBVIOUS
  <2> USE DEF CancelInv, senderVars, receiverVars, netVars, userVars
  <2>0. /\ scancel \in [Pushes -> BOOLEAN] /\ rcancel \in [Pushes -> BOOLEAN]
        /\ back \in [Pushes -> BOOLEAN] /\ ctl \in [Pushes -> Nat]
        /\ {pend, swriter, approval, rwriter} \subseteq Maybe
    BY DEF TypeOK, FlagType, CountType, MapType
  <2>1. CASE p \in wanted
    <3>1. wanted \subseteq wanted'
      BY WantedGrows
    <3> QED BY <2>1, <3>1
  <2>2. CASE p \notin wanted
    <3>1. ~scancel[p] /\ ~rcancel[p] /\ ~back[p] /\ ~(ctl[p] > 0)
      BY <2>2
    <3>2. CASE UNCHANGED <<scancel, rcancel, back, ctl, wanted>>
      BY <3>2
    <3>3. ~ReadBack(p) /\ ~Deliver(p) /\ ~Lose(p)
      BY <3>1 DEF ReadBack, Deliver, Lose
    <3>4. ASSUME ClickSender \/ ClickPending \/ ClickReceiver
          PROVE  UNCHANGED <<scancel, rcancel, back, ctl, wanted>> \/ p \in wanted'
      BY <2>0, <3>4 DEF ClickSender, ClickPending, ClickReceiver, Maybe
    <3>5. ASSUME SenderNext(p) \/ Dispatch(p) \/ Break(p)
          PROVE  UNCHANGED <<scancel, rcancel, back, ctl, wanted>>
      BY <3>5 DEF SenderNext, SUnchanged,
         Dispatch, Prepare, Resolve, Export, Dial, Announce, SendRequest, Negotiate, Prune,
         SendHeader, OpenWriter, Write, Wrote, Conclude, Cleanup, Leave, Break
    <3>6. ASSUME ReceiverNext(p)
          PROVE  UNCHANGED <<scancel, rcancel, back, ctl, wanted>>
      BY <3>6 DEF ReceiverNext, RUnchanged,
         Accept, ReadRequest, RequestTimesOut, UserAnswers, Resolved, Refuse, Reply, ReadHeader,
         ReadChunk, ReadFails, ReadEnd, Verify, Stitch, Load
    <3> QED BY <3>2, <3>3, <3>4, <3>5, <3>6 DEF Next, vars
  <2> QED BY <2>1, <2>2
<1>3. CancelInv => CancelHitsItsTransfer
  BY DEF CancelInv, CancelHitsItsTransfer
<1> QED BY <1>1, <1>2, <1>3, TypeCorrect, PTL DEF Spec

\* Until the stream is open the Hub does not show one, and from the end of the stream on
\* only a cancellation changes what it shows.
HubInv == \A p \in Pushes :
    /\ spc[p] \notin Streaming \cup Late => shub \notin {"transferring", "completed"}
    /\ spc[p] \in Late =>
          /\ outcome[p] = "Completed" => shub \in {"completed", "cancelled"}
          /\ outcome[p] \in {"Failed", "Rejected"} => shub \notin {"transferring", "completed"}

\* The last thing the Hub is told of a push agrees with its row, and nothing is published
\* after it but a cancellation (streamPayload publishes as it returns the status).
THEOREM HubShowsOutcome ==
    ASSUME NEW p, Pushes = {p}
    PROVE  Spec => []HubAgrees
<1>1. Init => HubInv
  BY DEF Init, HubInv, Streaming, Late, Cleaning
<1>2. IndInv /\ HubInv /\ [Next]_vars => HubInv'
  <2> SUFFICES ASSUME IndInv, HubInv, [Next]_vars PROVE HubInv'
    OBVIOUS
  <2> USE DEF HubInv, Streaming, Late, Cleaning
  <2>0. /\ spc \in [Pushes -> SenderPCs] /\ outcome \in [Pushes -> Rows]
        /\ pend # None => spc[pend] \in Pending
        /\ spc[p] \notin Late => outcome[p] = ""
    BY DEF IndInv, TypeOK, ControlType, MapInv, SendInv
  <2>1. CASE UNCHANGED <<spc, outcome, shub>>
    BY <2>1
  <2>2. ASSUME shub' \in {shub, "cancelled"}, UNCHANGED <<spc, outcome>>
        PROVE  HubInv'
    BY <2>2
  <2>3. ASSUME Dispatch(p) \/ SendRequest(p) \/ OpenWriter(p) \/ Write(p) \/ Cleanup(p) \/ Leave(p)
        PROVE  HubInv'
    <3>1. UNCHANGED <<outcome, shub>>
      BY <2>3 DEF Dispatch, SendRequest, OpenWriter, Write, Cleanup, Leave
    <3>2. \/ spc[p] \notin Streaming \cup Late /\ spc'[p] \notin Late
          \/ spc[p] \in Streaming /\ spc'[p] \in Streaming
          \/ spc[p] \in Late /\ spc'[p] \in Late
      BY <2>0, <2>3 DEF Dispatch, SendRequest, OpenWriter, Write, Cleanup, Leave, SStep
    <3> QED BY <3>1, <3>2
  <2>4. ASSUME Prepare(p) \/ Announce(p)
        PROVE  HubInv'
    <3>1. spc'[p] \in {"resolving", "announced"} /\ shub' \notin {"transferring", "completed"}
      BY <2>0, <2>4 DEF Prepare, Announce, SStep
    <3> QED BY <3>1
  <2>5. ASSUME Resolve(p) \/ Export(p) \/ Dial(p) \/ Negotiate(p) \/ Prune(p) \/ SendHeader(p)
        PROVE  HubInv'
    <3>1. spc[p] \notin Streaming \cup Late /\ spc'[p] \notin Streaming
      BY <2>0, <2>5 DEF Resolve, Export, Dial, Negotiate, Prune, SendHeader, SStep
    <3>2. shub' = shub \/ shub' \in {"exporting", "failed", "pruning", "rejected"}
      BY <2>5 DEF Resolve, Export, Dial, Negotiate, Prune, SendHeader
    <3>3. spc'[p] \in Late => outcome'[p] \in {"Failed", "Rejected"}
      BY <2>0, <2>5 DEF Resolve, Export, Dial, Negotiate, Prune, SendHeader, SStep, Ends
    <3> QED BY <3>1, <3>2, <3>3
  <2>6. ASSUME Wrote(p) PROVE HubInv'
    <3>1. spc'[p] \in Streaming
      BY <2>0, <2>6 DEF Wrote, SStep
    <3> QED BY <3>1
  <2>7. ASSUME Conclude(p) PROVE HubInv'
    <3>1. spc'[p] = "closing"
      BY <2>0, <2>7 DEF Conclude, SStep
    <3>2. \/ outcome'[p] = "Canceled"
          \/ outcome'[p] = "Failed" /\ shub' = "failed"
          \/ outcome'[p] = "Completed" /\ shub' = "completed"
      BY <2>0, <2>7 DEF Conclude, Ends
    <3> QED BY <3>1, <3>2
  <2>8. ASSUME ReceiverNext(p) \/ Deliver(p) \/ Lose(p) \/ Break(p) \/ ClickReceiver
        PROVE  UNCHANGED <<spc, outcome, shub>>
    BY <2>8, NotSender DEF Deliver, Lose, Break, ClickReceiver, ReceiverNext, RUnchanged, senderVars,
       Accept, ReadRequest, RequestTimesOut, UserAnswers, Resolved, Refuse, Reply, ReadHeader,
       ReadChunk, ReadFails, ReadEnd, Verify, Stitch, Load
  <2>9. ASSUME ReadBack(p) \/ ClickSender \/ ClickPending
        PROVE  shub' \in {shub, "cancelled"} /\ UNCHANGED <<spc, outcome>>
    BY <2>9 DEF ReadBack, ClickSender, ClickPending, SenderCancel
  <2> QED
    BY <2>1, <2>2, <2>3, <2>4, <2>5, <2>6, <2>7, <2>8, <2>9
    DEF Next, SenderNext, vars, senderVars
<1>3. HubInv => HubAgrees
  BY DEF HubInv, HubAgrees, Late
<1> QED BY <1>1, <1>2, <1>3, IndHolds, PTL DEF Spec

-----------------------------------------------------------------------------
(* Nobody waits in vain: the safety part of EverySideEnds.  What fairness    *)
(* adds to it is that a daemon that can take a step takes it.                *)

BeforeDial == {"idle", "starting", "resolving", "exporting", "dialing"}

\* A side that is through with a push has closed its connection, and a handler that
\* serves one has not.
ConnInv == \A p \in Pushes :
    /\ conn[p] = "none" => rpc[p] = "none"
    /\ spc[p] \in BeforeDial => conn[p] = "none"
    /\ spc[p] = "ended" => conn[p] \notin {"open", "rclosed"}
    /\ rpc[p] \in {"gone", "loaded"} => conn[p] # "open"
    /\ conn[p] = "rclosed" => rpc[p] \in {"gone", "loaded"}

\* The sender dials before it does anything else, and closes as it ends.
LEMMA SenderConnStep ==
    ASSUME TypeOK, ConnInv, NEW p \in Pushes, Dispatch(p) \/ SenderNext(p)
    PROVE  ConnInv'
<1> USE DEF ConnInv, BeforeDial, TypeOK, ControlType
<1>0. rpc' = rpc
  BY NotReceiver DEF receiverVars
<1>1. CASE Dial(p)
  <2>1. /\ spc[p] = "dialing"
        /\ \/ spc' = [spc EXCEPT ![p] = "dialed"] /\ conn' = [conn EXCEPT ![p] = "open"]
           \/ spc' = [spc EXCEPT ![p] = "ended"] /\ conn' = conn
    BY <1>1 DEF Dial, SStep
  <2>2. conn[p] = "none" /\ rpc[p] = "none"
    BY <2>1
  <2>3. \/ spc'[p] = "dialed" /\ conn'[p] = "open"
        \/ spc'[p] = "ended" /\ conn'[p] = "none"
    <3>1. /\ spc \in [Pushes -> SenderPCs]
          /\ conn \in [Pushes -> {"none", "open", "sclosed", "rclosed", "broken"}]
      OBVIOUS
    <3> QED BY ONLY <2>1, <2>2, <3>1
  <2>4. \A q \in Pushes \ {p} : spc'[q] = spc[q] /\ conn'[q] = conn[q]
    BY <2>1
  <2> QED BY ONLY <1>0, <2>2, <2>3, <2>4, ConnInv DEF ConnInv, BeforeDial
<1>2. CASE Leave(p)
  <2>1. /\ spc[p] = "leaving" /\ spc' = [spc EXCEPT ![p] = "ended"]
        /\ conn' = [conn EXCEPT ![p] = IF @ \in {"open", "sclosed"} THEN "sclosed" ELSE "broken"]
    BY <1>2 DEF Leave, SStep, SenderCloses
  <2>2. \A q \in Pushes \ {p} : spc'[q] = spc[q] /\ conn'[q] = conn[q]
    BY <2>1
  <2>3. spc'[p] = "ended" /\ conn'[p] \in {"sclosed", "broken"}
    BY <2>1
  <2> QED BY <1>0, <2>2, <2>3
<1>3. CASE Resolve(p) \/ Export(p)
  <2>1. /\ conn' = conn /\ spc[p] \in BeforeDial
        /\ \E to \in BeforeDial \cup {"ended"} : spc' = [spc EXCEPT ![p] = to]
    BY <1>3 DEF Resolve, Export, SStep
  <2> QED BY <1>0, <2>1
<1>4. CASE Dispatch(p) \/ Prepare(p)
  <2>1. /\ conn' = conn /\ spc[p] \in BeforeDial
        /\ \E to \in BeforeDial : spc' = [spc EXCEPT ![p] = to]
    BY <1>4 DEF Dispatch, Prepare, SStep
  <2> QED BY <1>0, <2>1
<1>5. CASE \/ Announce(p) \/ SendRequest(p) \/ Negotiate(p) \/ Prune(p) \/ SendHeader(p)
           \/ OpenWriter(p) \/ Write(p) \/ Wrote(p) \/ Conclude(p) \/ Cleanup(p)
  <2>1. /\ conn' = conn
        /\ \E to \in SenderPCs \ (BeforeDial \cup {"ended"}) : spc' = [spc EXCEPT ![p] = to]
    BY <1>5 DEF Announce, SendRequest, Negotiate, Prune, SendHeader, OpenWriter, Write, Wrote,
       Conclude, Cleanup, SStep, SenderPCs, Streaming, Cleaning
  <2> QED BY <1>0, <2>1
<1> QED BY <1>1, <1>2, <1>3, <1>4, <1>5 DEF SenderNext

\* A handler closes its connection when it leaves, and no earlier.
LEMMA ReceiverConnStep ==
    ASSUME TypeOK, ConnInv, NEW p \in Pushes, ReceiverNext(p)
    PROVE  ConnInv'
<1> USE DEF ConnInv, TypeOK, ControlType
<1>0. spc' = spc
  BY NotSender
<1>1. conn[p] # "none" /\ spc[p] \notin BeforeDial
  BY DEF ReceiverNext, Accept, ReadRequest, RequestTimesOut, UserAnswers, Resolved, Refuse, Reply,
     ReadHeader, ReadChunk, ReadFails, ReadEnd, Verify, Stitch, Load, RStep, Abandon
<1>2. CASE UserAnswers(p)
  BY <1>0, <1>2 DEF UserAnswers
<1>3. ASSUME conn' = conn, rpc[p] \notin {"gone", "loaded"},
             \E to \in ReceiverPCs \ {"gone", "loaded"} : rpc' = [rpc EXCEPT ![p] = to]
      PROVE  ConnInv'
  BY <1>0, <1>1, <1>3
<1>4. ASSUME ReceiverCloses(p), \E to \in {"gone", "loaded"} : rpc' = [rpc EXCEPT ![p] = to]
      PROVE  ConnInv'
  <2>1. \A q \in Pushes \ {p} : rpc'[q] = rpc[q] /\ conn'[q] = conn[q]
    BY <1>4 DEF ReceiverCloses
  <2>2. rpc'[p] \in {"gone", "loaded"} /\ conn'[p] = IF conn[p] = "open" THEN "rclosed" ELSE "broken"
    BY <1>4 DEF ReceiverCloses
  <2> QED BY <1>0, <1>1, <2>1, <2>2
<1>5. CASE \/ Accept(p) \/ ReadRequest(p) \/ RequestTimesOut(p) \/ Resolved(p) \/ Refuse(p)
           \/ Reply(p) \/ ReadHeader(p)
  <2>1. \/ /\ conn' = conn /\ rpc[p] \notin {"gone", "loaded"}
           /\ \E to \in ReceiverPCs \ {"gone", "loaded"} : rpc' = [rpc EXCEPT ![p] = to]
        \/ ReceiverCloses(p) /\ \E to \in {"gone", "loaded"} : rpc' = [rpc EXCEPT ![p] = to]
    BY <1>5 DEF Accept, ReadRequest, RequestTimesOut, Resolved, Refuse, Reply, ReadHeader, RStep,
       Abandon, ReceiverPCs
  <2> QED BY <1>3, <1>4, <2>1
<1>6. CASE ReadChunk(p) \/ ReadFails(p) \/ ReadEnd(p) \/ Verify(p) \/ Stitch(p) \/ Load(p)
  <2>1. \/ /\ conn' = conn /\ rpc[p] \notin {"gone", "loaded"}
           /\ \E to \in ReceiverPCs \ {"gone", "loaded"} : rpc' = [rpc EXCEPT ![p] = to]
        \/ ReceiverCloses(p) /\ \E to \in {"gone", "loaded"} : rpc' = [rpc EXCEPT ![p] = to]
    BY <1>6 DEF ReadChunk, ReadFails, ReadEnd, Verify, Stitch, Load, RStep, Abandon, ReceiverPCs
  <2> QED BY <1>3, <1>4, <2>1
<1> QED BY <1>2, <1>5, <1>6 DEF ReceiverNext

\* So do the steps of the network and of the users.
LEMMA ConnStep ==
    ASSUME TypeOK, MapInv, ConnInv, [Next]_vars
    PROVE  ConnInv'
<1>1. ASSUME NEW p \in Pushes, Break(p) PROVE ConnInv'
  <2>1. spc' = spc /\ rpc' = rpc
    BY <1>1 DEF Break, senderVars, receiverVars
  <2>2. conn[p] # "none" /\ conn' = [conn EXCEPT ![p] = "broken"]
    BY <1>1 DEF Break
  <2> QED BY <2>1, <2>2 DEF ConnInv, TypeOK, ControlType
<1>2. ASSUME ClickPending PROVE ConnInv'
  <2>1. spc' = spc /\ rpc' = rpc
    BY <1>2 DEF ClickPending, receiverVars
  <2>2. CASE pend = None
    BY <1>2, <2>1, <2>2 DEF ClickPending, ConnInv
  <2>3. CASE pend # None
    <3>1. pend \in Pushes /\ spc[pend] \notin BeforeDial
      BY <2>3 DEF TypeOK, MapType, Maybe, MapInv, Pending, Streaming, Cleaning, BeforeDial
    <3>2. conn' = [conn EXCEPT ![pend] = IF @ \in {"open", "sclosed"} THEN "sclosed" ELSE "broken"]
      BY <1>2, <2>3 DEF ClickPending, SenderCloses
    <3>3. conn'[pend] \in {"sclosed", "broken"} /\ \A q \in Pushes \ {pend} : conn'[q] = conn[q]
      BY <3>1, <3>2 DEF TypeOK, ControlType
    <3> QED BY <2>1, <3>1, <3>3 DEF ConnInv
  <2> QED BY <2>2, <2>3
<1>3. ASSUME \/ \E p \in Pushes : ReadBack(p) \/ Deliver(p) \/ Lose(p)
             \/ ClickSender \/ ClickReceiver \/ UNCHANGED vars
      PROVE  ConnInv'
  <2>1. UNCHANGED <<spc, rpc, conn>>
    BY <1>3 DEF ReadBack, Deliver, Lose, ClickSender, ClickReceiver, vars, senderVars, receiverVars,
       netVars
  <2> QED BY <2>1 DEF ConnInv
<1> QED BY <1>1, <1>2, <1>3, SenderConnStep, ReceiverConnStep DEF Next

\* A sender that waits for its answer has a handler that is still to give it, and a
\* handler that waits for data has a sender that works on: no push, and no set of
\* pushes, leaves both daemons waiting.
THEOREM NobodyIsStuck == Spec => []NobodyWaitsInVain
<1>1. Init => ConnInv
  <2> SUFFICES ASSUME Init, NEW p \in Pushes
               PROVE  conn[p] = "none" /\ spc[p] = "idle" /\ rpc[p] = "none"
    BY DEF ConnInv
  <2> QED BY DEF Init
<1>2. LogInv /\ ConnInv /\ [Next]_vars => ConnInv'
  BY ConnStep DEF LogInv, IndInv
<1>3. LogInv /\ ConnInv => NobodyWaitsInVain
  <2> SUFFICES ASSUME LogInv, ConnInv, NEW p \in Pushes
               PROVE  /\ AwaitsAnswer(p) => rpc[p] \in Unanswered
                      /\ AwaitsData(p) => spc[p] \notin {"idle", "ended"} /\ ~AwaitsAnswer(p)
    BY DEF NobodyWaitsInVain, Unanswered
  <2>1. ASSUME AwaitsAnswer(p) PROVE rpc[p] \in Unanswered
    <3>1. reply[p] = "" /\ rpc[p] \notin {"gone", "loaded"}
      BY <2>1 DEF AwaitsAnswer, ConnInv
    <3>2. rpc[p] \notin {"refused"} \cup Serving
      BY <3>1 DEF LogInv, AnswerInv
    <3>3. rpc[p] # "handing"
      <4>1. rpc[p] = "handing" => Full <= sent[p]
        BY DEF LogInv, IndInv, ReceiveInv, Whole
      <4>2. rpc[p] = "handing" => sent[p] > 1
        BY ONLY <4>1, Counted, FullSize, LogInv, p \in Pushes DEF LogInv, IndInv
      <4> QED BY <3>1, <4>2 DEF LogInv, IndInv, ReplyInv
    <3>4. rpc[p] \in ReceiverPCs /\ rpc[p] # "stitching"
      <4>1. rpc[p] = "stitching" => Full <= sent[p]
        BY DEF LogInv, IndInv, ReceiveInv, Whole
      <4>2. rpc[p] = "stitching" => sent[p] > 1
        BY ONLY <4>1, Counted, FullSize, LogInv, p \in Pushes DEF LogInv, IndInv
      <4>3. rpc[p] \in ReceiverPCs
        BY DEF LogInv, IndInv, TypeOK, ControlType
      <4> QED BY <3>1, <4>2, <4>3 DEF LogInv, IndInv, ReplyInv
    <3> QED BY <3>1, <3>2, <3>3, <3>4 DEF ReceiverPCs, Serving, Unanswered
  <2>2. ASSUME AwaitsData(p) PROVE spc[p] \notin {"idle", "ended"} /\ ~AwaitsAnswer(p)
    <3>1. rpc[p] \in Serving /\ reply[p] = "yes"
      BY <2>2 DEF AwaitsData, Serving, LogInv, AnswerInv
    <3>2. conn[p] \in {"open", "sclosed"}
      <4>1. conn[p] # "none" /\ conn[p] # "rclosed" /\ conn[p] # "broken"
        BY <2>2, <3>1 DEF AwaitsData, ConnInv, Serving
      <4> QED BY <4>1 DEF LogInv, IndInv, TypeOK, ControlType
    <3>3. conn[p] = "open"
      <4>1. recvd[p] <= sent[p] /\ recvd[p] \in Nat /\ sent[p] \in Nat
        BY Counted DEF LogInv, IndInv, ReceiveInv
      <4>2. ~(recvd[p] < sent[p])
        BY <2>2, <3>2 DEF AwaitsData, MoreToRead, ReceiverMayRead
      <4>3. recvd[p] = sent[p]
        BY ONLY <4>1, <4>2
      <4> QED BY <2>2, <3>2, <4>3 DEF AwaitsData, AtEOF
    <3> QED BY <3>1, <3>3 DEF ConnInv, BeforeDial, AwaitsAnswer
  <2> QED BY <2>1, <2>2
<1> QED BY <1>1, <1>2, <1>3, LogHolds, PTL DEF Spec

-----------------------------------------------------------------------------
(* Every step of a daemon for a push brings the push nearer its end, and no  *)
(* other step, of the network, of a user or of another push, takes it back.  *)

SenderRank ==
    [idle |-> 17, starting |-> 16, resolving |-> 15, exporting |-> 14, dialing |-> 13,
     dialed |-> 12, announced |-> 11, asked |-> 10, pruning |-> 9, pruned |-> 8, opening |-> 7,
     wrote |-> 6, streaming |-> 5, copied |-> 4, broken |-> 4, closing |-> 3, leaving |-> 2,
     ended |-> 0]
ReceiverRank ==
    [none |-> 11, accepted |-> 10, asking |-> 9, approved |-> 8, refused |-> 7, replied |-> 7,
     receiving |-> 6, verifying |-> 5, stitching |-> 4, handing |-> 3, loaded |-> 0, gone |-> 0]

\* A bound on the steps each side has left for a push.
Vacant(p)       == IF resp[p] = "" THEN 1 ELSE 0
SenderLeft(p)   == SenderRank[spc[p]] + 2 * (Full - sent[p])
ReceiverLeft(p) == ReceiverRank[rpc[p]] + (Full - recvd[p]) + Vacant(p)

\* A step of a side takes at least one from its bound, and no step adds to either.
EveryStepCounts == [][\A p \in Pushes :
    /\ Dispatch(p) \/ SenderNext(p) => SenderLeft(p)' < SenderLeft(p)
    /\ ReceiverNext(p) => ReceiverLeft(p)' < ReceiverLeft(p)
    /\ SenderLeft(p)' <= SenderLeft(p) /\ ReceiverLeft(p)' <= ReceiverLeft(p)]_vars

\* The ranks are naturals, in the order of the steps.
LEMMA SenderRanks ==
    /\ \A pc \in SenderPCs : SenderRank[pc] \in 0..17
    /\ SenderRank["idle"] = 17 /\ SenderRank["starting"] = 16 /\ SenderRank["resolving"] = 15
    /\ SenderRank["exporting"] = 14 /\ SenderRank["dialing"] = 13 /\ SenderRank["dialed"] = 12
    /\ SenderRank["announced"] = 11 /\ SenderRank["asked"] = 10 /\ SenderRank["pruning"] = 9
    /\ SenderRank["pruned"] = 8 /\ SenderRank["opening"] = 7 /\ SenderRank["wrote"] = 6
    /\ SenderRank["streaming"] = 5 /\ SenderRank["copied"] = 4 /\ SenderRank["broken"] = 4
    /\ SenderRank["closing"] = 3 /\ SenderRank["leaving"] = 2 /\ SenderRank["ended"] = 0
BY DEF SenderRank, SenderPCs, Streaming, Cleaning

LEMMA ReceiverRanks ==
    /\ \A pc \in ReceiverPCs : ReceiverRank[pc] \in 0..11
    /\ ReceiverRank["none"] = 11 /\ ReceiverRank["accepted"] = 10 /\ ReceiverRank["asking"] = 9
    /\ ReceiverRank["approved"] = 8 /\ ReceiverRank["refused"] = 7 /\ ReceiverRank["replied"] = 7
    /\ ReceiverRank["receiving"] = 6 /\ ReceiverRank["verifying"] = 5
    /\ ReceiverRank["stitching"] = 4 /\ ReceiverRank["handing"] = 3
    /\ ReceiverRank["loaded"] = 0 /\ ReceiverRank["gone"] = 0
BY DEF ReceiverRank, ReceiverPCs

\* Fewer steps are left when the rank falls and nothing is unsent, ...
LEMMA RankFalls ==
    ASSUME NEW r \in Nat, NEW t \in Nat, NEW s \in 0..Full, NEW u \in 0..Full, t < r, s <= u
    PROVE  t + 2 * (Full - u) < r + 2 * (Full - s)
BY FullSize

\* ... when a message is sent while the rank rises by one, ...
LEMMA MessageLeaves ==
    ASSUME NEW r \in Nat, NEW t \in Nat, NEW s \in 0..Full, NEW u \in 0..Full, t <= r + 1, s < u
    PROVE  t + 2 * (Full - u) < r + 2 * (Full - s)
BY FullSize

\* ... and when a message is read or the channel filled while the rank stays.
LEMMA HandlerFalls ==
    ASSUME NEW r \in Nat, NEW t \in Nat, NEW s \in 0..Full, NEW u \in 0..Full,
           NEW c \in {0, 1}, NEW d \in {0, 1},
           t <= r, s <= u, d <= c, t < r \/ s < u \/ d < c
    PROVE  t + (Full - u) + d < r + (Full - s) + c
BY FullSize

\* A step of the sender for its push.
LEMMA SenderStepCounts ==
    ASSUME TypeOK, TypeOK', SendInv, StreamInv, NEW p \in Pushes, Dispatch(p) \/ SenderNext(p)
    PROVE  SenderLeft(p)' < SenderLeft(p)
<1>0. /\ spc \in [Pushes -> SenderPCs] /\ spc'[p] \in SenderPCs
      /\ sent[p] \in 0..Full /\ sent'[p] \in 0..Full /\ sent[p] \in Nat
  BY Counted DEF TypeOK, ControlType, CountType
<1>1. /\ SenderRank[spc[p]] \in Nat /\ SenderRank[spc'[p]] \in Nat
  BY <1>0, SenderRanks
<1>2. ASSUME SenderRank[spc'[p]] < SenderRank[spc[p]], sent[p] <= sent'[p]
      PROVE  SenderLeft(p)' < SenderLeft(p)
  BY <1>0, <1>1, <1>2, RankFalls, Zenon DEF SenderLeft
<1>3. ASSUME SenderRank[spc'[p]] <= SenderRank[spc[p]] + 1, sent[p] < sent'[p]
      PROVE  SenderLeft(p)' < SenderLeft(p)
  BY <1>0, <1>1, <1>3, MessageLeaves, Zenon DEF SenderLeft
<1>4. sent[p] <= sent[p]
  BY <1>0
<1>5. CASE \/ Dispatch(p) \/ Prepare(p) \/ Resolve(p) \/ Export(p) \/ Dial(p) \/ Announce(p)
  <2>1. sent' = sent
    BY <1>5 DEF Dispatch, Prepare, Resolve, Export, Dial, Announce
  <2>2. \/ spc[p] = "idle" /\ spc'[p] = "starting"
        \/ spc[p] = "starting" /\ spc'[p] = "resolving"
        \/ spc[p] = "resolving" /\ spc'[p] \in {"exporting", "ended"}
        \/ spc[p] = "exporting" /\ spc'[p] \in {"dialing", "ended"}
        \/ spc[p] = "dialing" /\ spc'[p] \in {"dialed", "ended"}
        \/ spc[p] = "dialed" /\ spc'[p] = "announced"
    BY <1>0, <1>5 DEF Dispatch, Prepare, Resolve, Export, Dial, Announce, SStep
  <2>3. SenderRank[spc'[p]] < SenderRank[spc[p]]
    BY ONLY <2>2, SenderRanks
  <2> QED BY <1>2, <1>4, <2>1, <2>3
<1>6. CASE \/ Negotiate(p) \/ Prune(p) \/ OpenWriter(p) \/ Wrote(p) \/ Conclude(p) \/ Cleanup(p)
           \/ Leave(p)
  <2>1. sent' = sent
    BY <1>6 DEF Negotiate, Prune, OpenWriter, Wrote, Conclude, Cleanup, Leave
  <2>2. \/ spc[p] = "asked" /\ spc'[p] \in {"pruning", "leaving"}
        \/ spc[p] = "pruning" /\ spc'[p] \in {"pruned", "leaving"}
        \/ spc[p] = "opening" /\ spc'[p] = "streaming"
        \/ spc[p] = "wrote" /\ spc'[p] \in {"copied", "streaming"}
        \/ spc[p] \in {"copied", "broken"} /\ spc'[p] = "closing"
        \/ spc[p] = "closing" /\ spc'[p] = "leaving"
        \/ spc[p] = "leaving" /\ spc'[p] = "ended"
    BY <1>0, <1>6 DEF Negotiate, Prune, OpenWriter, Wrote, Conclude, Cleanup, Leave, SStep
  <2>3. SenderRank[spc'[p]] < SenderRank[spc[p]]
    BY ONLY <2>2, SenderRanks
  <2> QED BY <1>2, <1>4, <2>1, <2>3
<1>7. CASE SendRequest(p)
  <2>1. spc[p] = "announced" /\ spc'[p] = "asked" /\ sent[p] = 0
    BY <1>0, <1>7 DEF SendRequest, SStep, SendInv, Silent
  <2>2. SenderRank[spc'[p]] < SenderRank[spc[p]]
    BY ONLY <2>1, SenderRanks
  <2>3. sent[p] <= sent'[p]
    BY ONLY <1>0, <2>1
  <2> QED BY <1>2, <2>2, <2>3
<1>8. CASE SendHeader(p)
  <2>1. /\ spc[p] = "pruned" /\ sent[p] \in {0, 1}
        /\ \/ spc'[p] = "opening" /\ sent'[p] = 2
           \/ spc'[p] = "leaving" /\ sent'[p] = sent[p]
    BY <1>0, <1>8 DEF SendHeader, SStep, SendInv, TypeOK, CountType
  <2>2. SenderRank[spc'[p]] < SenderRank[spc[p]]
    BY ONLY <2>1, SenderRanks
  <2>3. sent[p] <= sent'[p]
    BY ONLY <1>0, <2>1
  <2> QED BY <1>2, <2>2, <2>3
<1>9. CASE Write(p)
  <2>1. /\ spc[p] = "streaming"
        /\ \/ spc'[p] = "broken" /\ sent'[p] = sent[p]
           \/ spc'[p] = "wrote" /\ sent'[p] = sent[p] + 1
    BY <1>0, <1>9 DEF Write, SStep, TypeOK, CountType
  <2>2. CASE spc'[p] = "broken" /\ sent'[p] = sent[p]
    <3>1. SenderRank[spc'[p]] < SenderRank[spc[p]]
      BY ONLY <2>1, <2>2, SenderRanks
    <3> QED BY <1>2, <1>4, <2>2, <3>1
  <2>3. CASE spc'[p] = "wrote" /\ sent'[p] = sent[p] + 1
    <3>1. SenderRank[spc'[p]] <= SenderRank[spc[p]] + 1
      BY ONLY <2>1, <2>3, SenderRanks
    <3>2. sent[p] < sent'[p]
      BY ONLY <1>0, <2>3
    <3> QED BY <1>3, <3>1, <3>2
  <2> QED BY <2>1, <2>2, <2>3
<1> QED BY <1>5, <1>6, <1>7, <1>8, <1>9 DEF SenderNext

\* A step of the handler for its push.
LEMMA ReceiverStepCounts ==
    ASSUME TypeOK, TypeOK', ReceiveInv, AnswerInv, NEW p \in Pushes, ReceiverNext(p)
    PROVE  ReceiverLeft(p)' < ReceiverLeft(p)
<1>0. /\ rpc \in [Pushes -> ReceiverPCs] /\ rpc'[p] \in ReceiverPCs
      /\ recvd[p] \in 0..Full /\ recvd'[p] \in 0..Full
      /\ resp \in [Pushes -> {"", "yes", "no"}]
  BY Counted DEF TypeOK, ControlType, CountType
<1>1. ReceiverRank[rpc[p]] \in Nat /\ ReceiverRank[rpc'[p]] \in Nat
  <2>1. \A pc \in ReceiverPCs : ReceiverRank[pc] \in Nat
    BY ReceiverRanks
  <2>2. rpc[p] \in ReceiverPCs
    BY <1>0
  <2> QED BY <1>0, <2>1, <2>2, Zenon
<1>2. Vacant(p) \in {0, 1} /\ Vacant(p)' \in {0, 1}
  BY DEF Vacant
<1>3. ASSUME ReceiverRank[rpc'[p]] <= ReceiverRank[rpc[p]], recvd[p] <= recvd'[p],
             Vacant(p)' <= Vacant(p),
             \/ ReceiverRank[rpc'[p]] < ReceiverRank[rpc[p]]
             \/ recvd[p] < recvd'[p] \/ Vacant(p)' < Vacant(p)
      PROVE  ReceiverLeft(p)' < ReceiverLeft(p)
  BY <1>0, <1>1, <1>2, <1>3, HandlerFalls, Zenon DEF ReceiverLeft
<1>4. ASSUME resp' = resp, ReceiverRank[rpc'[p]] < ReceiverRank[rpc[p]], recvd[p] <= recvd'[p]
      PROVE  ReceiverLeft(p)' < ReceiverLeft(p)
  <2>1. Vacant(p)' = Vacant(p)
    BY <1>4 DEF Vacant
  <2>2. Vacant(p)' <= Vacant(p) /\ ReceiverRank[rpc'[p]] <= ReceiverRank[rpc[p]]
    BY ONLY <1>1, <1>2, <1>4, <2>1
  <2> QED BY <1>3, <1>4, <2>2
<1>5. recvd[p] <= recvd[p]
  BY ONLY Counted, TypeOK, p \in Pushes
<1>6. CASE UserAnswers(p)
  <2>1. rpc' = rpc /\ recvd' = recvd /\ resp[p] = "" /\ resp'[p] # ""
    BY <1>0, <1>6 DEF UserAnswers
  <2>2. Vacant(p) = 1 /\ Vacant(p)' = 0
    BY <2>1 DEF Vacant
  <2>3. Vacant(p)' < Vacant(p) /\ Vacant(p)' <= Vacant(p) /\ ReceiverRank[rpc[p]] <= ReceiverRank[rpc[p]]
    BY ONLY <1>1, <2>2
  <2> QED BY <1>3, <1>5, <2>1, <2>3
<1>7. CASE ReadRequest(p)
  <2>1. rpc[p] = "accepted" /\ rpc'[p] \in {"asking", "approved"} /\ resp' = resp
    BY <1>0, <1>7 DEF ReadRequest, RStep
  <2>2. recvd[p] = 0 /\ recvd'[p] = 1
    BY <1>7, <2>1 DEF ReadRequest, AnswerInv, TypeOK, CountType
  <2>3. ReceiverRank[rpc'[p]] < ReceiverRank[rpc[p]] /\ recvd[p] <= recvd'[p]
    BY ONLY <2>1, <2>2, ReceiverRanks
  <2> QED BY <1>4, <2>1, <2>3
<1>8. CASE ReadHeader(p)
  <2>1. /\ rpc[p] = "replied" /\ rpc'[p] \in {"receiving", "gone"} /\ resp' = resp
        /\ recvd[p] = 1 /\ recvd'[p] \in {recvd[p], 2}
    BY <1>0, <1>8 DEF ReadHeader, RStep, Abandon, ReceiveInv, TypeOK, CountType
  <2>2. ReceiverRank[rpc'[p]] < ReceiverRank[rpc[p]] /\ recvd[p] <= recvd'[p]
    BY ONLY <2>1, ReceiverRanks
  <2> QED BY <1>4, <2>1, <2>2
<1>9. CASE ReadChunk(p)
  <2>1. rpc'[p] = rpc[p] /\ resp' = resp /\ recvd'[p] = recvd[p] + 1
    BY <1>0, <1>9 DEF ReadChunk, RStep, TypeOK, CountType
  <2>2. Vacant(p)' = Vacant(p)
    BY <2>1 DEF Vacant
  <2>3. /\ recvd[p] < recvd'[p] /\ recvd[p] <= recvd'[p] /\ Vacant(p)' <= Vacant(p)
        /\ ReceiverRank[rpc'[p]] <= ReceiverRank[rpc[p]]
    BY ONLY <1>1, <1>2, <2>1, <2>2, Counted, TypeOK, p \in Pushes
  <2> QED BY <1>3, <2>3
<1>10. CASE \/ Accept(p) \/ RequestTimesOut(p) \/ Resolved(p) \/ Refuse(p) \/ Reply(p)
            \/ ReadFails(p) \/ ReadEnd(p) \/ Verify(p) \/ Stitch(p) \/ Load(p)
  <2>1. recvd' = recvd /\ resp' = resp
    BY <1>10 DEF Accept, RequestTimesOut, Resolved, Refuse, Reply, ReadFails, ReadEnd, Verify,
       Stitch, Load
  <2>2. \/ rpc[p] = "none" /\ rpc'[p] \in {"accepted", "gone"}
        \/ rpc[p] = "accepted" /\ rpc'[p] = "gone"
        \/ rpc[p] = "asking" /\ rpc'[p] \in {"approved", "refused"}
        \/ rpc[p] = "refused" /\ rpc'[p] = "gone"
        \/ rpc[p] = "approved" /\ rpc'[p] \in {"replied", "gone"}
        \/ rpc[p] = "receiving" /\ rpc'[p] \in {"verifying", "gone"}
        \/ rpc[p] = "verifying" /\ rpc'[p] \in {"stitching", "gone"}
        \/ rpc[p] = "stitching" /\ rpc'[p] \in {"handing", "gone"}
        \/ rpc[p] = "handing" /\ rpc'[p] = "loaded"
    BY <1>0, <1>10 DEF Accept, RequestTimesOut, Resolved, Refuse, Reply, ReadFails, ReadEnd,
       Verify, Stitch, Load, RStep, Abandon
  <2>3. ReceiverRank[rpc'[p]] < ReceiverRank[rpc[p]]
    BY ONLY <2>2, ReceiverRanks
  <2> QED BY <1>4, <1>5, <2>1, <2>3
<1> QED BY <1>6, <1>7, <1>8, <1>9, <1>10 DEF ReceiverNext

\* What the steps of others leave of a push: nothing of the sender's changes, and of the
\* handler's at most the Response channel is filled.
LEMMA OthersLeave ==
    ASSUME TypeOK, [Next]_vars, NEW q \in Pushes
    PROVE  /\ ~(Dispatch(q) \/ SenderNext(q)) => spc'[q] = spc[q] /\ sent'[q] = sent[q]
           /\ ~ReceiverNext(q) => /\ rpc'[q] = rpc[q] /\ recvd'[q] = recvd[q]
                                  /\ resp[q] # "" => resp'[q] # ""
<1>0. /\ spc \in [Pushes -> SenderPCs] /\ rpc \in [Pushes -> ReceiverPCs]
      /\ sent \in [Pushes -> 0..Full] /\ recvd \in [Pushes -> 0..Full]
      /\ resp \in [Pushes -> {"", "yes", "no"}]
  BY DEF TypeOK, ControlType, CountType
<1>1. ASSUME NEW p \in Pushes \ {q}, Dispatch(p) \/ SenderNext(p)
      PROVE  spc'[q] = spc[q] /\ sent'[q] = sent[q]
  BY <1>1, SenderFrame
<1>2. ASSUME NEW p \in Pushes \ {q}, ReceiverNext(p)
      PROVE  rpc'[q] = rpc[q] /\ recvd'[q] = recvd[q] /\ resp'[q] = resp[q]
  BY <1>0, <1>2 DEF ReceiverNext, Accept, ReadRequest, RequestTimesOut, UserAnswers, Resolved,
     Refuse, Reply, ReadHeader, ReadChunk, ReadFails, ReadEnd, Verify, Stitch, Load, RStep, Abandon
<1>3. ASSUME \/ \E p \in Pushes : \/ Dispatch(p) \/ SenderNext(p)
                                  \/ ReadBack(p) \/ Lose(p) \/ Break(p)
             \/ ClickSender \/ ClickPending \/ UNCHANGED vars
      PROVE  UNCHANGED resp
  <2>1. ASSUME NEW p \in Pushes, Dispatch(p) \/ SenderNext(p) PROVE UNCHANGED resp
    BY <2>1 DEF Dispatch, SenderNext, Prepare, Resolve, Export, Dial, Announce, SendRequest,
       Negotiate, Prune, SendHeader, OpenWriter, Write, Wrote, Conclude, Cleanup, Leave, SUnchanged,
       receiverVars
  <2>2. ASSUME NEW p \in Pushes, ReadBack(p) \/ Lose(p) \/ Break(p) PROVE UNCHANGED resp
    BY <2>2 DEF ReadBack, Lose, Break, receiverVars
  <2>3. ASSUME ClickSender \/ ClickPending \/ UNCHANGED vars PROVE UNCHANGED resp
    BY <2>3 DEF ClickSender, ClickPending, vars, receiverVars
  <2> QED BY <1>3, <2>1, <2>2, <2>3
<1>4. ASSUME ClickReceiver \/ \E p \in Pushes : Deliver(p)
      PROVE  resp[q] # "" => resp'[q] # ""
  BY <1>0, <1>4 DEF ClickReceiver, Deliver, CancelApproval
<1> QED BY <1>1, <1>2, <1>3, <1>4, NotSender, NotReceiver DEF Next

\* The bounds are naturals and fall with every step: no retry, break or cancellation makes
\* a daemon go round in circles, and a push takes at most 17 + 2 * Full steps of its sender
\* and 12 + Full of its handler.
THEOREM StepsRunOut ==
    Spec => /\ [](\A p \in Pushes :
                     SenderLeft(p) \in 0..(17 + 2 * Full) /\ ReceiverLeft(p) \in 0..(12 + Full))
            /\ EveryStepCounts
<1> DEFINE Bounded == \A p \in Pushes :
               SenderLeft(p) \in 0..(17 + 2 * Full) /\ ReceiverLeft(p) \in 0..(12 + Full)
<1> DEFINE Counts == \A p \in Pushes :
               /\ Dispatch(p) \/ SenderNext(p) => SenderLeft(p)' < SenderLeft(p)
               /\ ReceiverNext(p) => ReceiverLeft(p)' < ReceiverLeft(p)
               /\ SenderLeft(p)' <= SenderLeft(p) /\ ReceiverLeft(p)' <= ReceiverLeft(p)
<1>1. TypeOK => Bounded
  <2>0. SUFFICES ASSUME TypeOK, NEW p \in Pushes
        PROVE  SenderLeft(p) \in 0..(17 + 2 * Full) /\ ReceiverLeft(p) \in 0..(12 + Full)
    OBVIOUS
  <2>1. sent[p] \in 0..Full /\ recvd[p] \in 0..Full /\ Full \in Nat
    BY <2>0, Counted, FullSize
  <2>2. SenderRank[spc[p]] \in 0..17 /\ ReceiverRank[rpc[p]] \in 0..11
    BY <2>0, SenderRanks, ReceiverRanks DEF TypeOK, ControlType
  <2>3. ASSUME NEW r \in 0..17, NEW s \in 0..Full PROVE r + 2 * (Full - s) \in 0..(17 + 2 * Full)
    BY ONLY <2>1, <2>3
  <2>4. ASSUME NEW r \in 0..11, NEW s \in 0..Full, NEW c \in {0, 1}
        PROVE  r + (Full - s) + c \in 0..(12 + Full)
    BY ONLY <2>1, <2>4
  <2>5. Vacant(p) \in {0, 1}
    BY DEF Vacant
  <2> QED BY <2>1, <2>2, <2>3, <2>4, <2>5 DEF SenderLeft, ReceiverLeft
<1>2. TypeOK /\ TypeOK' /\ LogInv /\ [Next]_vars => Counts
  <2> SUFFICES ASSUME TypeOK, TypeOK', LogInv, [Next]_vars, NEW q \in Pushes
               PROVE  /\ Dispatch(q) \/ SenderNext(q) => SenderLeft(q)' < SenderLeft(q)
                      /\ ReceiverNext(q) => ReceiverLeft(q)' < ReceiverLeft(q)
                      /\ SenderLeft(q)' <= SenderLeft(q) /\ ReceiverLeft(q)' <= ReceiverLeft(q)
    OBVIOUS
  <2>1. Dispatch(q) \/ SenderNext(q) => SenderLeft(q)' < SenderLeft(q)
    BY SenderStepCounts DEF LogInv, IndInv
  <2>2. ReceiverNext(q) => ReceiverLeft(q)' < ReceiverLeft(q)
    BY ReceiverStepCounts DEF LogInv, IndInv
  <2>3. SenderLeft(q) \in Nat /\ ReceiverLeft(q) \in Nat
    BY <1>1, FullSize
  <2>4. SenderLeft(q)' \in Nat /\ ReceiverLeft(q)' \in Nat
    <3>1. Bounded'
      BY <1>1, PTL
    <3> QED BY <3>1, FullSize
  <2>5. ~(Dispatch(q) \/ SenderNext(q)) => SenderLeft(q)' = SenderLeft(q)
    BY OthersLeave DEF SenderLeft
  <2>6. ~ReceiverNext(q) => ReceiverLeft(q)' <= ReceiverLeft(q)
    <3>1. SUFFICES ASSUME ~ReceiverNext(q) PROVE ReceiverLeft(q)' <= ReceiverLeft(q)
      OBVIOUS
    <3>2. rpc'[q] = rpc[q] /\ recvd'[q] = recvd[q] /\ (resp[q] # "" => resp'[q] # "")
      BY <3>1, OthersLeave
    <3>3. ReceiverRank[rpc[q]] + (Full - recvd[q]) \in Nat
      <4>1. rpc[q] \in ReceiverPCs /\ recvd[q] \in 0..Full /\ Full \in Nat
        BY Counted, FullSize DEF TypeOK, ControlType
      <4>2. ReceiverRank[rpc[q]] \in 0..11
        BY <4>1, ReceiverRanks
      <4> QED BY ONLY <4>1, <4>2
    <3>4. Vacant(q)' <= Vacant(q) /\ Vacant(q) \in Nat /\ Vacant(q)' \in Nat
      <4>1. Vacant(q) \in {0, 1} /\ Vacant(q)' \in {0, 1} /\ (Vacant(q) = 0 => Vacant(q)' = 0)
        BY <3>2, Zenon DEF Vacant
      <4> QED BY ONLY <4>1
    <3>5. ReceiverLeft(q)' = ReceiverRank[rpc[q]] + (Full - recvd[q]) + Vacant(q)'
      BY <3>2 DEF ReceiverLeft
    <3>6. ReceiverLeft(q) = ReceiverRank[rpc[q]] + (Full - recvd[q]) + Vacant(q)
      BY DEF ReceiverLeft
    <3> QED BY ONLY <3>3, <3>4, <3>5, <3>6
  <2> QED BY <2>1, <2>2, <2>3, <2>4, <2>5, <2>6
<1>3. LogInv /\ LogInv' /\ [Next]_vars => [Counts]_vars
  BY <1>2 DEF LogInv, IndInv
<1>4. LogInv => Bounded
  BY <1>1 DEF LogInv, IndInv
<1> QED BY <1>3, <1>4, LogHolds, PTL DEF Spec, EveryStepCounts

-----------------------------------------------------------------------------
(* Pushes that are retried: what still holds of any number of them.         *)

\* Until a user cancels something nothing is cancelled, nor on its way to be.
NothingUnasked == wanted = {} => \A p \in Pushes : ~scancel[p] /\ ~rcancel[p] /\ ~back[p] /\ ctl[p] = 0

\* A daemon never cancels on its own, whatever breaks and however pushes overlap (a late
\* message of a cancelled push may hit the retry, but there was a click).
THEOREM NobodyCancelsAlone == Spec => []NothingUnasked
<1>1. Init => NothingUnasked
  <2>1. ASSUME Init, NEW q \in Pushes
        PROVE  scancel[q] = FALSE /\ rcancel[q] = FALSE /\ back[q] = FALSE /\ ctl[q] = 0
    BY <2>1, Zenon DEF Init
  <2> QED BY <2>1, Zenon DEF NothingUnasked
<1>2. TypeOK /\ NothingUnasked /\ [Next]_vars => NothingUnasked'
  <2> SUFFICES ASSUME TypeOK, NothingUnasked, [Next]_vars, wanted' = {}
               PROVE  UNCHANGED <<scancel, rcancel, back, ctl, wanted>>
    BY DEF NothingUnasked
  <2> USE DEF senderVars, receiverVars, netVars, userVars
  <2>1. wanted = {}
    BY WantedGrows
  <2>2. \A p \in Pushes : ~scancel[p] /\ ~rcancel[p] /\ ~back[p] /\ ~(ctl[p] > 0)
    BY <2>1 DEF NothingUnasked
  <2>3. \A p \in Pushes : ~ReadBack(p) /\ ~Deliver(p) /\ ~Lose(p)
    BY <2>2 DEF ReadBack, Deliver, Lose
  <2>4. ASSUME ClickSender \/ ClickPending \/ ClickReceiver
        PROVE  UNCHANGED <<scancel, rcancel, back, ctl, wanted>>
    BY <2>4 DEF ClickSender, ClickPending, ClickReceiver
  <2>5. ASSUME NEW p \in Pushes, SenderNext(p) \/ Dispatch(p) \/ Break(p)
        PROVE  UNCHANGED <<scancel, rcancel, back, ctl, wanted>>
    BY <2>5 DEF SenderNext, SUnchanged,
       Dispatch, Prepare, Resolve, Export, Dial, Announce, SendRequest, Negotiate, Prune,
       SendHeader, OpenWriter, Write, Wrote, Conclude, Cleanup, Leave, Break
  <2>6. ASSUME NEW p \in Pushes, ReceiverNext(p)
        PROVE  UNCHANGED <<scancel, rcancel, back, ctl, wanted>>
    BY <2>6 DEF ReceiverNext, RUnchanged,
       Accept, ReadRequest, RequestTimesOut, UserAnswers, Resolved, Refuse, Reply, ReadHeader,
       ReadChunk, ReadFails, ReadEnd, Verify, Stitch, Load
  <2> QED BY <2>3, <2>4, <2>5, <2>6 DEF Next, vars
<1> QED BY <1>1, <1>2, TypeCorrect, PTL DEF Spec

\* What the Hub shows may not contradict the row of a push.
Agrees(p) ==
    /\ outcome[p] = "Completed" => shub \in {"completed", "cancelled"}
    /\ outcome[p] \in {"Failed", "Rejected"} => shub \notin {"transferring", "completed"}

\* It agrees with it as the push ends, and says so until the next one begins.
HubKeepsOutcome ==
    [][/\ \A p \in Pushes : spc[p] # "ended" /\ spc'[p] = "ended" => Agrees(p)'
       /\ (\A p \in Pushes : spc[p] \in {"idle", "starting", "ended"})
             => shub' \in {shub, "preparing"}]_vars

\* The Hub of a push under way: HubInv of the one push that is neither waiting nor over.
CurrentHubInv == \A p \in Pushes :
    /\ spc[p] \notin {"idle", "starting", "ended"} \cup Streaming \cup Cleaning
          => shub \notin {"transferring", "completed"}
    /\ spc[p] \in Cleaning => Agrees(p)

\* The steps of the users and of the network publish nothing but a cancellation, and that
\* only of a push under way.
LEMMA OnlyCancels ==
    ASSUME TypeOK, MapInv,
           \/ \E p \in Pushes : \/ ReceiverNext(p) \/ ReadBack(p) \/ Deliver(p) \/ Lose(p)
                                \/ Break(p)
           \/ ClickSender \/ ClickPending \/ ClickReceiver \/ UNCHANGED vars
    PROVE  /\ UNCHANGED <<spc, outcome>> /\ shub' \in {shub, "cancelled"}
           /\ (\A p \in Pushes : spc[p] \in {"idle", "starting", "ended"}) => shub' = shub
<1>0. UNCHANGED <<spc, outcome>>
  BY NotSender
<1>1. ASSUME NEW p \in Pushes, ReceiverNext(p) PROVE shub' = shub
  BY <1>1 DEF ReceiverNext, Accept, ReadRequest, RequestTimesOut, UserAnswers, Resolved, Refuse,
     Reply, ReadHeader, ReadChunk, ReadFails, ReadEnd, Verify, Stitch, Load, RUnchanged, senderVars
<1>2. ASSUME \/ \E p \in Pushes : Deliver(p) \/ Lose(p) \/ Break(p)
             \/ ClickReceiver \/ UNCHANGED vars
      PROVE  shub' = shub
  BY <1>2 DEF Deliver, Lose, Break, ClickReceiver, vars, senderVars
<1>3. ASSUME NEW p \in Pushes, ReadBack(p)
      PROVE  shub' \in {shub, "cancelled"} /\ spc[p] \notin {"idle", "starting", "ended"}
  BY <1>3 DEF ReadBack, SenderCancel, Streaming, Cleaning
<1>4. ASSUME ClickSender
      PROVE  \/ shub' = shub
             \/ shub' = "cancelled" /\ \E p \in Pushes : spc[p] \notin {"idle", "starting", "ended"}
  <2>1. CASE swriter = None
    BY <1>4, <2>1 DEF ClickSender
  <2>2. CASE swriter # None
    <3>1. swriter \in Pushes /\ spc[swriter] \notin {"idle", "starting", "ended"}
      BY <2>2 DEF MapInv, TypeOK, MapType, Maybe, Streaming
    <3>2. shub' \in {shub, "cancelled"}
      BY <1>4, <2>2 DEF ClickSender, SenderCancel
    <3> QED BY <3>1, <3>2
  <2> QED BY <2>1, <2>2
<1>5. ASSUME ClickPending
      PROVE  \/ shub' = shub
             \/ shub' = "cancelled" /\ \E p \in Pushes : spc[p] \notin {"idle", "starting", "ended"}
  <2>1. CASE pend = None
    BY <1>5, <2>1 DEF ClickPending
  <2>2. CASE pend # None
    <3>1. pend \in Pushes /\ spc[pend] \notin {"idle", "starting", "ended"}
      BY <2>2 DEF MapInv, TypeOK, MapType, Maybe, Pending, Streaming, Cleaning
    <3>2. shub' \in {shub, "cancelled"}
      BY <1>5, <2>2 DEF ClickPending
    <3> QED BY <3>1, <3>2
  <2> QED BY <2>1, <2>2
<1> QED BY <1>0, <1>1, <1>2, <1>3, <1>4, <1>5

\* What a step of the sender publishes, and what it leaves of the other pushes.
LEMMA SenderPublishes ==
    ASSUME ~Overlap, TypeOK, SendInv, WriterInv, CurrentHubInv,
           NEW p \in Pushes, Dispatch(p) \/ SenderNext(p)
    PROVE  /\ CurrentHubInv'
           /\ \A q \in Pushes : spc[q] # "ended" /\ spc'[q] = "ended" => Agrees(q)'
           /\ (\A q \in Pushes : spc[q] \in {"idle", "starting", "ended"})
                 => shub' \in {shub, "preparing"}
<1> USE DEF CurrentHubInv, Agrees, Streaming, Cleaning
<1>0. /\ spc \in [Pushes -> SenderPCs] /\ outcome \in [Pushes -> Rows]
      /\ spc[p] \notin Late => outcome[p] = ""
  BY DEF TypeOK, ControlType, SendInv
<1>1. ASSUME NEW q \in Pushes \ {p}
      PROVE  spc'[q] = spc[q] /\ spc[q] \in {"idle", "ended"}
  <2>1. spc'[q] = spc[q]
    BY <1>0, <1>1 DEF Dispatch, SenderNext, Prepare, Resolve, Export, Dial, Announce, SendRequest,
       Negotiate, Prune, SendHeader, OpenWriter, Write, Wrote, Conclude, Cleanup, Leave, SStep
  <2>2. CASE Dispatch(p)
    <3>1. \A r \in Pushes : spc[r] \in {"idle", "ended"}
      BY <2>2, Zenon DEF Dispatch
    <3> QED BY <2>1, <3>1
  <2>3. CASE SenderNext(p)
    <3>1. spc[p] \notin {"idle", "ended"}
      BY <2>3 DEF SenderNext, Prepare, Resolve, Export, Dial, Announce, SendRequest,
         Negotiate, Prune, SendHeader, OpenWriter, Write, Wrote, Conclude, Cleanup, Leave, SStep
    <3>2. q \in Pushes /\ p # q
      BY <1>1
    <3>3. spc[q] \in {"idle", "ended"}
      BY <3>1, <3>2, Zenon DEF WriterInv, OnePushAtATime
    <3> QED BY <2>1, <3>3
  <2> QED BY <2>1, <2>2, <2>3
<1>2. SUFFICES /\ spc'[p] \notin {"idle", "starting", "ended"} \cup Streaming \cup Cleaning
                     => shub' \notin {"transferring", "completed"}
               /\ spc'[p] \in Cleaning => Agrees(p)'
               /\ spc[p] # "ended" /\ spc'[p] = "ended" => Agrees(p)'
               /\ spc[p] \in {"idle", "starting", "ended"} => shub' \in {shub, "preparing"}
  BY <1>1
<1>3. CASE Dispatch(p) \/ Prepare(p)
  <2>1. \/ spc[p] = "idle" /\ spc'[p] = "starting" /\ shub' = shub
        \/ spc[p] = "starting" /\ spc'[p] = "resolving" /\ shub' = "preparing"
    BY <1>0, <1>3 DEF Dispatch, Prepare, SStep
  <2> QED BY <2>1
<1>4. CASE Resolve(p) \/ Export(p) \/ Dial(p) \/ Announce(p) \/ SendRequest(p)
  <2>1. spc[p] \in {"resolving", "exporting", "dialing", "dialed", "announced"}
    BY <1>4 DEF Resolve, Export, Dial, Announce, SendRequest, SStep
  <2>2. shub' \in {shub, "exporting", "failed", "waiting for approval"}
    BY <1>4 DEF Resolve, Export, Dial, Announce, SendRequest
  <2>3. shub' \notin {"transferring", "completed"}
    BY <2>1, <2>2
  <2>4. spc'[p] \notin Cleaning /\ (spc'[p] = "ended" => outcome'[p] = "Failed")
    BY <1>0, <1>4 DEF Resolve, Export, Dial, Announce, SendRequest, SStep, Ends
  <2> QED BY <2>1, <2>3, <2>4
<1>5. CASE Negotiate(p) \/ Prune(p) \/ SendHeader(p) \/ OpenWriter(p)
  <2>1. spc[p] \in {"asked", "pruning", "pruned", "opening"}
    BY <1>5 DEF Negotiate, Prune, SendHeader, OpenWriter, SStep
  <2>2. shub' \in {shub, "pruning", "rejected"}
    BY <1>5 DEF Negotiate, Prune, SendHeader, OpenWriter
  <2>3. shub' \notin {"transferring", "completed"}
    BY <2>1, <2>2
  <2>4. /\ spc'[p] \in {"pruning", "pruned", "opening", "streaming", "leaving"}
        /\ spc'[p] = "leaving" => outcome'[p] \in {"Failed", "Rejected"}
    BY <1>0, <1>5 DEF Negotiate, Prune, SendHeader, OpenWriter, SStep, Ends
  <2> QED BY <2>1, <2>3, <2>4
<1>6. CASE Write(p) \/ Wrote(p)
  <2>1. spc[p] \in Streaming /\ spc'[p] \in Streaming
    BY <1>0, <1>6 DEF Write, Wrote, SStep
  <2> QED BY <2>1
<1>7. CASE Conclude(p)
  <2>1. spc[p] \in {"copied", "broken"} /\ spc'[p] = "closing"
    BY <1>0, <1>7 DEF Conclude, SStep
  <2>2. \/ outcome'[p] = "Canceled"
        \/ outcome'[p] = "Failed" /\ shub' = "failed"
        \/ outcome'[p] = "Completed" /\ shub' = "completed"
    BY <1>0, <1>7 DEF Conclude, Ends
  <2> QED BY <2>1, <2>2
<1>8. CASE Cleanup(p) \/ Leave(p)
  <2>1. /\ spc[p] \in Cleaning /\ spc'[p] \in {"leaving", "ended"}
        /\ UNCHANGED <<outcome, shub>>
    BY <1>0, <1>8 DEF Cleanup, Leave, SStep
  <2> QED BY <2>1
<1> QED BY <1>3, <1>4, <1>5, <1>6, <1>7, <1>8 DEF SenderNext

\* When dispatches do not overlap, retries included, the Hub shows what the ledger
\* records: as a push ends the two agree, and nothing of it is published afterwards.
THEOREM HubFollowsTheLedger == ASSUME ~Overlap PROVE Spec => HubKeepsOutcome
<1> DEFINE Step ==
      /\ \A p \in Pushes : spc[p] # "ended" /\ spc'[p] = "ended" => Agrees(p)'
      /\ (\A p \in Pushes : spc[p] \in {"idle", "starting", "ended"}) => shub' \in {shub, "preparing"}
<1>1. Init => WriterInv /\ CurrentHubInv
  <2>1. ASSUME Init, NEW p \in Pushes PROVE spc[p] = "idle"
    BY <2>1 DEF Init
  <2>2. Init => WriterInv
    BY <2>1 DEF WriterInv, OnePushAtATime, StreamIsControllable, Streaming
  <2>3. Init => CurrentHubInv
    BY <2>1 DEF CurrentHubInv, Streaming, Cleaning
  <2> QED BY <2>2, <2>3
<1>2. IndInv /\ WriterInv /\ CurrentHubInv /\ [Next]_vars => WriterInv' /\ CurrentHubInv' /\ [Step]_vars
  <2> SUFFICES ASSUME IndInv, WriterInv, CurrentHubInv, [Next]_vars
               PROVE  WriterInv' /\ CurrentHubInv' /\ Step
    OBVIOUS
  <2>1. WriterInv'
    BY WriterStep DEF IndInv
  <2>2. ASSUME NEW p \in Pushes, Dispatch(p) \/ SenderNext(p) PROVE CurrentHubInv' /\ Step
    BY <2>2, SenderPublishes DEF IndInv
  <2>3. ASSUME UNCHANGED <<spc, outcome>>, shub' \in {shub, "cancelled"},
               (\A p \in Pushes : spc[p] \in {"idle", "starting", "ended"}) => shub' = shub
        PROVE  CurrentHubInv' /\ Step
    BY <2>3 DEF CurrentHubInv, Agrees
  <2> QED BY <2>1, <2>2, <2>3, OnlyCancels DEF Next, IndInv
<1> QED BY <1>1, <1>2, IndHolds, PTL DEF Spec, HubKeepsOutcome

-----------------------------------------------------------------------------
(* What the log promises of its two rows, and the ledgers therefore keep.    *)

\* The rows of the two ledgers do not contradict each other.
LedgersAgree == \A p \in Pushes :
    /\ outcome[p] = "Rejected" => verdict[p] \in {"", "Rejected"}
    /\ verdict[p] = "Rejected" => outcome[p] \in {"", "Rejected", "Failed"}
    /\ verdict[p] = "Completed" => outcome[p] \notin {"Rejected", "Failed"}

\* In terms of the log: each row tells what the answer and the payload are.
Row(p) ==
    /\ reply[p] # "yes" => Payload(p) = "none"
    /\ recvd[p] = Full => Payload(p) = "all"
    /\ outcome[p] \in Rows /\ verdict[p] \in Rows
    /\ outcome[p] = "Rejected" => reply[p] = "no"
    /\ outcome[p] = "Failed" => Payload(p) # "all"
    /\ outcome[p] \in {"Completed", "Canceled"} => Payload(p) # "none"
    /\ verdict[p] = "Rejected" => reply[p] = "no"
    /\ verdict[p] = "Completed" => recvd[p] = Full
    /\ verdict[p] \in {"Failed", "Canceled"} => reply[p] # "no"
RowInv == \A p \in Pushes : Row(p)

\* Every step of the log keeps it.
LEMMA RowStep ==
    ASSUME RowInv, [Log!Next]_(Log!vars), reply \in [Pushes -> {"", "yes", "no"}],
           outcome \in [Pushes -> Rows], verdict \in [Pushes -> Rows]
    PROVE  RowInv'
<1> DEFINE D == [p \in Pushes |-> Payload(p)]
<1> DEFINE W == {p \in Pushes : recvd[p] = Full}
<1>1. ASSUME NEW q \in Pushes
      PROVE  /\ D[q] = Payload(q) /\ D'[q] = Payload(q)'
             /\ q \in W <=> recvd[q] = Full
             /\ q \in W' <=> recvd'[q] = Full
  OBVIOUS
<1>2. D \in [Pushes -> {"none", "part", "all"}]
  BY DEF Payload
<1>3. ASSUME NEW p \in Pushes, Log!Answer(p) PROVE RowInv'
  <2>1. /\ reply[p] = "" /\ verdict[p] = "" /\ D' = D /\ W' = W /\ outcome' = outcome /\ verdict' = verdict
        /\ \E v \in {"yes", "no"} : reply' = [reply EXCEPT ![p] = v]
    BY <1>3 DEF Log!Answer
  <2> HIDE DEF D, W
  <2>2. \A q \in Pushes : Payload(q)' = Payload(q) /\ (recvd'[q] = Full <=> recvd[q] = Full)
    BY <1>1, <2>1
  <2>3. reply'[p] \in {"yes", "no"} /\ \A q \in Pushes \ {p} : reply'[q] = reply[q]
    BY <2>1
  <2>4. UNCHANGED <<outcome, verdict>> /\ reply[p] = "" /\ verdict[p] = ""
    BY <2>1
  <2>5. Row(p)'
    BY ONLY <1>3, <2>2, <2>3, <2>4, RowInv DEF RowInv, Row
  <2>6. \A q \in Pushes \ {p} : Row(q)'
    BY ONLY <2>2, <2>3, <2>4, RowInv DEF RowInv, Row
  <2> QED BY <2>5, <2>6 DEF RowInv
<1>4. ASSUME NEW p \in Pushes, Log!Send(p) PROVE RowInv'
  <2>1. /\ reply[p] = "yes" /\ outcome[p] = "" /\ W' = W
        /\ reply' = reply /\ outcome' = outcome /\ verdict' = verdict
        /\ \/ D[p] = "none" /\ D' = [D EXCEPT ![p] = "part"]
           \/ D[p] = "part" /\ D' = [D EXCEPT ![p] = "all"]
    BY <1>4 DEF Log!Send
  <2> HIDE DEF D, W
  <2>2. \A q \in Pushes : recvd'[q] = Full <=> recvd[q] = Full
    BY <1>1, <2>1
  <2>3. \A q \in Pushes \ {p} : Payload(q)' = Payload(q)
    BY <1>1, <1>2, <2>1
  <2>4. Payload(p) \in {"none", "part"} /\ Payload(p)' # "none"
    BY <1>1, <1>2, <2>1
  <2>5. recvd[p] # Full
    BY <2>4 DEF RowInv, Row
  <2>6. UNCHANGED <<reply, outcome, verdict>> /\ reply[p] = "yes" /\ outcome[p] = ""
    BY <2>1
  <2>7. Row(p)'
    BY ONLY <1>4, <2>2, <2>4, <2>5, <2>6, RowInv DEF RowInv, Row
  <2>8. \A q \in Pushes \ {p} : Row(q)'
    BY ONLY <2>2, <2>3, <2>6, RowInv DEF RowInv, Row
  <2> QED BY <2>7, <2>8 DEF RowInv
<1>5. ASSUME NEW p \in Pushes, Log!Receive(p) PROVE RowInv'
  <2>1. /\ D[p] = "all" /\ W' = W \cup {p} /\ D' = D
        /\ reply' = reply /\ outcome' = outcome /\ verdict' = verdict
    BY <1>5 DEF Log!Receive
  <2> HIDE DEF D, W
  <2>2. \A q \in Pushes : Payload(q)' = Payload(q)
    BY <1>1, <2>1
  <2>3. \A q \in Pushes : recvd'[q] = Full <=> recvd[q] = Full \/ q = p
    BY <1>1, <2>1
  <2>4. Payload(p) = "all"
    BY <1>1, <2>1
  <2> QED BY <2>1, <2>2, <2>3, <2>4 DEF RowInv, Row
<1>6. ASSUME NEW p \in Pushes, Log!SenderEnds(p) PROVE RowInv'
  <2>1. /\ outcome[p] = "" /\ W' = W /\ D' = D /\ reply' = reply /\ verdict' = verdict
        /\ \/ D[p] = "all"  /\ outcome' = [outcome EXCEPT ![p] = "Completed"]
           \/ D[p] # "none" /\ outcome' = [outcome EXCEPT ![p] = "Canceled"]
           \/ D[p] # "all"  /\ outcome' = [outcome EXCEPT ![p] = "Failed"]
           \/ reply[p] = "no" /\ outcome' = [outcome EXCEPT ![p] = "Rejected"]
    BY <1>6 DEF Log!SenderEnds
  <2> HIDE DEF D, W
  <2>2. \A q \in Pushes : Payload(q)' = Payload(q) /\ (recvd'[q] = Full <=> recvd[q] = Full)
    BY <1>1, <2>1
  <2>3. \A q \in Pushes \ {p} : outcome'[q] = outcome[q]
    BY <2>1
  <2>4. \/ Payload(p) = "all"  /\ outcome'[p] = "Completed"
        \/ Payload(p) # "none" /\ outcome'[p] = "Canceled"
        \/ Payload(p) # "all"  /\ outcome'[p] = "Failed"
        \/ reply[p] = "no" /\ outcome'[p] = "Rejected"
    BY <1>1, <2>1
  <2>5. Row(p)'
    <3>1. reply' = reply /\ verdict' = verdict
      BY <2>1
    <3>2. Row(p) /\ {"Completed", "Canceled", "Failed", "Rejected"} \subseteq Rows
      BY <1>6 DEF RowInv, Rows
    <3> QED BY ONLY <1>6, <2>2, <2>4, <3>1, <3>2 DEF Row
  <2>6. \A q \in Pushes \ {p} : Row(q)'
    BY <2>1, <2>2, <2>3, Zenon DEF RowInv, Row
  <2> QED BY <2>5, <2>6 DEF RowInv
<1>7. ASSUME NEW p \in Pushes, Log!ReceiverEnds(p) PROVE RowInv'
  <2>1. /\ verdict[p] = "" /\ W' = W /\ D' = D /\ reply' = reply /\ outcome' = outcome
        /\ \/ p \in W      /\ verdict' = [verdict EXCEPT ![p] = "Completed"]
           \/ D[p] # "none" /\ verdict' = [verdict EXCEPT ![p] = "Canceled"]
           \/ reply[p] # "no" /\ verdict' = [verdict EXCEPT ![p] = "Failed"]
           \/ reply[p] = "no" /\ verdict' = [verdict EXCEPT ![p] = "Rejected"]
    BY <1>7 DEF Log!ReceiverEnds
  <2> HIDE DEF D, W
  <2>2. \A q \in Pushes : Payload(q)' = Payload(q) /\ (recvd'[q] = Full <=> recvd[q] = Full)
    BY <1>1, <2>1
  <2>3. \A q \in Pushes \ {p} : verdict'[q] = verdict[q]
    BY <2>1
  <2>4. \/ recvd[p] = Full /\ verdict'[p] = "Completed"
        \/ Payload(p) # "none" /\ verdict'[p] = "Canceled"
        \/ reply[p] # "no" /\ verdict'[p] = "Failed"
        \/ reply[p] = "no" /\ verdict'[p] = "Rejected"
    BY <1>1, <2>1
  <2>5. Row(p)'
    <3>1. reply' = reply /\ outcome' = outcome
      BY <2>1
    <3>2. Row(p) /\ {"Completed", "Canceled", "Failed", "Rejected"} \subseteq Rows
      BY <1>7 DEF RowInv, Rows
    <3> QED BY ONLY <1>7, <2>2, <2>4, <3>1, <3>2 DEF Row
  <2>6. \A q \in Pushes \ {p} : Row(q)'
    BY <2>1, <2>2, <2>3, Zenon DEF RowInv, Row
  <2> QED BY <2>5, <2>6 DEF RowInv
<1>8. CASE UNCHANGED Log!vars
  <2>1. W' = W /\ D' = D /\ reply' = reply /\ outcome' = outcome /\ verdict' = verdict
    BY <1>8 DEF Log!vars
  <2> HIDE DEF D, W
  <2>2. \A q \in Pushes : Payload(q)' = Payload(q) /\ (recvd'[q] = Full <=> recvd[q] = Full)
    BY <1>1, <2>1
  <2> QED BY <2>1, <2>2 DEF RowInv, Row
<1> QED BY <1>3, <1>4, <1>5, <1>6, <1>7, <1>8 DEF Log!Next

\* The rows agree because the log lets each side write only what the answer and the
\* payload bear out, and an answer and a payload are final: nothing else of the session,
\* its connections, maps and cancellations, enters the argument.
THEOREM LedgersDoNotContradict == Spec => []LedgersAgree
<1> DEFINE Typed == /\ reply \in [Pushes -> {"", "yes", "no"}]
                    /\ outcome \in [Pushes -> Rows] /\ verdict \in [Pushes -> Rows]
<1>1. Log!Init => RowInv
  <2> DEFINE D == [p \in Pushes |-> Payload(p)]
  <2> SUFFICES ASSUME Log!Init, NEW q \in Pushes
               PROVE  /\ reply[q] = "" /\ outcome[q] = "" /\ verdict[q] = ""
                      /\ Payload(q) = "none" /\ recvd[q] # Full
    BY DEF RowInv, Row, Rows
  <2>1. D = [p \in Pushes |-> "none"] /\ {p \in Pushes : recvd[p] = Full} = {}
    BY DEF Log!Init
  <2>2. D[q] = "none" /\ D[q] = Payload(q)
    BY <2>1
  <2> QED BY <2>1, <2>2 DEF Log!Init
<1>2. TypeOK => Typed
  BY DEF TypeOK, ControlType
<1>3. Typed /\ RowInv /\ [Log!Next]_(Log!vars) => RowInv'
  BY RowStep
<1>4. RowInv => LedgersAgree
  BY DEF RowInv, Row, LedgersAgree, Rows
<1> QED BY <1>1, <1>2, <1>3, <1>4, TypeCorrect, SessionImplementsLog, PTL DEF Log!Spec

-----------------------------------------------------------------------------
(* The session implements the approval.                                      *)

\* Nothing is answered before the request has been read.
RespInv == \A p \in Pushes : rpc[p] \in {"none", "accepted"} => resp[p] = ""

\* What the handler finds in its Response channel while it waits.
AnswerFor(p) == IF rpc[p] = "asking" THEN resp[p] ELSE ""

\* The steps of the handler before and after it asks leave all channels alone.
LEMMA NoResponse ==
    ASSUME \/ \E p \in Pushes :
                \/ Dispatch(p) \/ SenderNext(p) \/ ReadBack(p) \/ Lose(p) \/ Break(p)
                \/ Accept(p) \/ ReadRequest(p) \/ RequestTimesOut(p) \/ Resolved(p) \/ Refuse(p)
                \/ Reply(p) \/ ReadHeader(p) \/ ReadChunk(p) \/ ReadFails(p) \/ ReadEnd(p)
                \/ Verify(p) \/ Stitch(p) \/ Load(p)
           \/ ClickSender \/ ClickPending \/ UNCHANGED vars
    PROVE  resp' = resp
<1> USE DEF senderVars, receiverVars
<1>1. ASSUME NEW p \in Pushes, Dispatch(p) \/ SenderNext(p) PROVE resp' = resp
  BY <1>1 DEF Dispatch, SenderNext, Prepare, Resolve, Export, Dial, Announce, SendRequest,
     Negotiate, Prune, SendHeader, OpenWriter, Write, Wrote, Conclude, Cleanup, Leave, SUnchanged
<1>2. ASSUME NEW p \in Pushes,
             \/ Accept(p) \/ ReadRequest(p) \/ RequestTimesOut(p) \/ Resolved(p) \/ Refuse(p)
             \/ Reply(p) \/ ReadHeader(p) \/ ReadChunk(p) \/ ReadFails(p) \/ ReadEnd(p)
             \/ Verify(p) \/ Stitch(p) \/ Load(p)
      PROVE  resp' = resp
  BY <1>2 DEF Accept, ReadRequest, RequestTimesOut, Resolved, Refuse, Reply, ReadHeader,
     ReadChunk, ReadFails, ReadEnd, Verify, Stitch, Load
<1> QED
  BY <1>1, <1>2 DEF ReadBack, Lose, Break, ClickSender, ClickPending, vars

\* What a cancellation does to them: the rejection of the request registered, or nothing.
LEMMA CancelResponds ==
    ASSUME TypeOK, \/ \E p \in Pushes : Deliver(p)
                   \/ ClickReceiver
    PROVE  /\ UNCHANGED <<rpc, verdict>>
           /\ \/ resp' = resp
              \/ /\ approval \in Pushes
                 /\ resp' = [resp EXCEPT ![approval] = IF @ = "" THEN "no" ELSE @]
<1>1. UNCHANGED <<rpc, verdict>>
  BY DEF Deliver, ClickReceiver
<1>2. approval # None => approval \in Pushes
  BY DEF TypeOK, MapType, Maybe
<1> QED
  BY <1>1, <1>2 DEF Deliver, ClickReceiver, CancelApproval

\* A step no request notices.
LEMMA IsStutter ==
    ASSUME \A p \in Pushes : StageOf(p)' = StageOf(p) /\ AnswerFor(p)' = AnswerFor(p)
    PROVE  UNCHANGED Promise!vars
BY DEF Promise!vars, AnswerFor

\* A first answer to a request its handler waits for, or one that comes late.
LEMMA IsResponse ==
    ASSUME TypeOK, UNCHANGED <<rpc, verdict>>, NEW k \in Pushes, NEW v \in {"yes", "no"},
           resp' = [resp EXCEPT ![k] = IF @ = "" THEN v ELSE @], rpc[k] = "asking"
    PROVE  [Promise!Next]_(Promise!vars)
<1>1. \A p \in Pushes : StageOf(p)' = StageOf(p)
  BY DEF StageOf
<1>2. \A p \in Pushes \ {k} : AnswerFor(p)' = AnswerFor(p)
  BY DEF AnswerFor, TypeOK, ControlType
<1>3. CASE resp[k] = ""
  <2>1. StageOf(k) = "asked" /\ AnswerFor(k) = "" /\ AnswerFor(k)' = v
    BY <1>3 DEF StageOf, AnswerFor, TypeOK, ControlType
  <2>2. Promise!Answer(k)
    BY <1>1, <1>2, <2>1 DEF Promise!Answer, AnswerFor
  <2> QED BY <2>2 DEF Promise!Next
<1>4. CASE resp[k] # ""
  <2>1. AnswerFor(k)' = AnswerFor(k)
    BY <1>4 DEF AnswerFor, TypeOK, ControlType
  <2> QED BY <1>1, <1>2, <2>1, IsStutter
<1> QED BY <1>3, <1>4

\* Each step of a handler takes its request a stage further, or leaves it where it is.
LEMMA HandlerKeepsPromise ==
    ASSUME TypeOK, AnswerInv, RespInv, NEW p \in Pushes,
           \/ Accept(p) \/ ReadRequest(p) \/ RequestTimesOut(p) \/ Resolved(p) \/ Refuse(p)
           \/ Reply(p) \/ ReadHeader(p) \/ ReadChunk(p) \/ ReadFails(p) \/ ReadEnd(p)
           \/ Verify(p) \/ Stitch(p) \/ Load(p)
    PROVE  [Promise!Next]_(Promise!vars)
<1> USE DEF RStep, Records, Abandon, TypeOK, ControlType
<1>1. resp' = resp
  BY NoResponse
<1>2. \A q \in Pushes \ {p} : StageOf(q)' = StageOf(q) /\ AnswerFor(q)' = AnswerFor(q)
  <2>1. \A q \in Pushes \ {p} : rpc'[q] = rpc[q] /\ verdict'[q] = verdict[q]
    BY DEF Accept, ReadRequest, RequestTimesOut, Resolved, Refuse, Reply, ReadHeader,
       ReadChunk, ReadFails, ReadEnd, Verify, Stitch, Load
  <2> QED BY <1>1, <2>1 DEF StageOf, AnswerFor
<1>3. CASE ReadRequest(p)
  <2>1. /\ rpc[p] = "accepted" /\ rpc'[p] \in {"asking", "approved"}
        /\ verdict' = verdict
    BY <1>3 DEF ReadRequest
  <2>2. /\ StageOf(p) = "new" /\ StageOf(p)' \in {"asked", "granted"}
        /\ AnswerFor(p) = "" /\ AnswerFor(p)' = ""
    BY <1>1, <2>1 DEF StageOf, AnswerFor, RespInv
  <2>3. \A q \in Pushes : AnswerFor(q)' = AnswerFor(q)
    BY <1>2, <2>2
  <2>4. [q \in Pushes |-> AnswerFor(q)'] = [q \in Pushes |-> AnswerFor(q)]
    BY ONLY <2>3
  <2>5. \E v \in {"asked", "granted"} :
           [q \in Pushes |-> StageOf(q)'] = [[q \in Pushes |-> StageOf(q)] EXCEPT ![p] = v]
    BY ONLY <1>2, <2>2
  <2>6. Promise!Comes(p)
    BY <2>2, <2>4, <2>5 DEF Promise!Comes, AnswerFor
  <2> QED BY <2>6 DEF Promise!Next
<1>4. CASE Resolved(p)
  <2>1. /\ rpc[p] = "asking" /\ verdict' = verdict
        /\ \/ resp[p] = "yes" /\ rpc'[p] = "approved"
           \/ resp[p] = "no" /\ rpc'[p] = "refused"
    BY <1>4 DEF Resolved
  <2>2. /\ StageOf(p) = "asked" /\ AnswerFor(p) = resp[p] /\ resp[p] # "" /\ AnswerFor(p)' = ""
        /\ StageOf(p)' = IF resp[p] = "yes" THEN "granted" ELSE "refused"
    BY <2>1 DEF StageOf, AnswerFor
  <2>3. Promise!Take(p)
    BY <1>2, <2>2 DEF Promise!Take, AnswerFor
  <2> QED BY <2>3 DEF Promise!Next
<1>5. CASE Accept(p) \/ RequestTimesOut(p)
  <2>1. /\ rpc[p] \in {"none", "accepted"} /\ rpc'[p] \in {"accepted", "gone"}
        /\ verdict' = verdict /\ verdict[p] = ""
    BY <1>5 DEF Accept, RequestTimesOut, AnswerInv
  <2>2. StageOf(p)' = StageOf(p) /\ AnswerFor(p)' = AnswerFor(p)
    BY <2>1 DEF StageOf, AnswerFor
  <2> QED BY <1>2, <2>2, IsStutter
<1>6. CASE Refuse(p)
  <2>1. rpc[p] = "refused" /\ rpc'[p] = "gone" /\ verdict'[p] = "Rejected"
    BY <1>6 DEF Refuse
  <2>2. StageOf(p)' = StageOf(p) /\ AnswerFor(p)' = AnswerFor(p)
    BY <2>1 DEF StageOf, AnswerFor
  <2> QED BY <1>2, <2>2, IsStutter
<1>7. CASE \/ Reply(p) \/ ReadHeader(p) \/ ReadChunk(p) \/ ReadFails(p) \/ ReadEnd(p)
           \/ Verify(p) \/ Stitch(p) \/ Load(p)
  <2>1. /\ rpc[p] \in {"approved", "replied", "receiving", "verifying", "stitching", "handing"}
        /\ \/ rpc'[p] \in {"replied", "receiving", "verifying", "stitching", "handing", "loaded"}
           \/ rpc'[p] = "gone" /\ verdict'[p] \in {"Failed", "Canceled"}
    BY <1>7 DEF Reply, ReadHeader, ReadChunk, ReadFails, ReadEnd, Verify, Stitch, Load
  <2>2. StageOf(p)' = StageOf(p) /\ AnswerFor(p)' = AnswerFor(p)
    BY <2>1 DEF StageOf, AnswerFor
  <2> QED BY <1>2, <2>2, IsStutter
<1> QED BY <1>3, <1>4, <1>5, <1>6, <1>7

\* A session asks, is answered and goes by the answer as Approval has it, to which
\* ApprovalQueue, with the queue and the clients this module leaves out, keeps as well.
THEOREM SessionImplementsApproval == Spec => Promise!Spec
<1>1. TypeOK /\ MapInv /\ RespInv /\ [Next]_vars => RespInv'
  <2> SUFFICES ASSUME TypeOK, MapInv, RespInv, [Next]_vars PROVE RespInv'
    OBVIOUS
  <2>1. \A p \in Pushes : rpc'[p] \in {"none", "accepted"} => rpc[p] \in {"none", "accepted"}
    <3>1. ASSUME NEW q \in Pushes, ReceiverNext(q)
          PROVE  \A p \in Pushes : rpc'[p] \in {"none", "accepted"} => rpc[p] \in {"none", "accepted"}
      BY <3>1 DEF ReceiverNext, Accept, ReadRequest, RequestTimesOut, UserAnswers, Resolved,
         Refuse, Reply, ReadHeader, ReadChunk, ReadFails, ReadEnd, Verify, Stitch, Load, RStep,
         Abandon, TypeOK, ControlType
    <3> QED BY <3>1, NotReceiver DEF Next
  <2>2. \A p \in Pushes : rpc[p] # "asking" => resp'[p] = resp[p]
    <3>1. ASSUME NEW q \in Pushes, UserAnswers(q)
          PROVE  \A p \in Pushes : rpc[p] # "asking" => resp'[p] = resp[p]
      BY <3>1 DEF UserAnswers, TypeOK, ControlType
    <3>2. ASSUME \/ \E q \in Pushes : Deliver(q)
                 \/ ClickReceiver
          PROVE  \A p \in Pushes : rpc[p] # "asking" => resp'[p] = resp[p]
      <4>1. \/ resp' = resp
            \/ /\ approval \in Pushes /\ rpc[approval] = "asking"
               /\ resp' = [resp EXCEPT ![approval] = IF @ = "" THEN "no" ELSE @]
        BY <3>2, CancelResponds, NoneAssumption DEF MapInv
      <4> QED BY <4>1 DEF TypeOK, ControlType
    <3> QED BY <3>1, <3>2, NoResponse DEF Next, ReceiverNext
  <2> QED BY <2>1, <2>2 DEF RespInv
<1>2. Init => RespInv /\ Promise!Init
  <2> SUFFICES ASSUME Init PROVE RespInv /\ Promise!Init
    OBVIOUS
  <2>1. \A p \in Pushes : rpc[p] = "none" /\ resp[p] = ""
    BY DEF Init
  <2>2. \A p \in Pushes : StageOf(p) = "new"
    BY <2>1 DEF StageOf
  <2> QED BY <2>1, <2>2 DEF RespInv, Promise!Init
<1>3. ASSUME LogInv, RespInv, [Next]_vars PROVE [Promise!Next]_(Promise!vars)
  <2>1. TypeOK /\ MapInv /\ AnswerInv
    BY <1>3 DEF LogInv, IndInv
  <2>2. ASSUME NEW p \in Pushes, UserAnswers(p) PROVE [Promise!Next]_(Promise!vars)
    <3>1. PICK v \in {"yes", "no"} : resp' = [resp EXCEPT ![p] = v]
      BY <2>2 DEF UserAnswers
    <3>2. UNCHANGED <<rpc, verdict>> /\ rpc[p] = "asking" /\ resp[p] = ""
      BY <2>2 DEF UserAnswers
    <3>3. resp' = [resp EXCEPT ![p] = IF @ = "" THEN v ELSE @]
      BY <3>1, <3>2
    <3> QED BY <2>1, <3>2, <3>3, IsResponse
  <2>3. ASSUME \/ \E p \in Pushes : Deliver(p)
               \/ ClickReceiver
        PROVE  [Promise!Next]_(Promise!vars)
    <3>1. CASE resp' = resp
      <4>1. \A p \in Pushes : StageOf(p)' = StageOf(p) /\ AnswerFor(p)' = AnswerFor(p)
        BY <2>1, <2>3, <3>1, CancelResponds DEF StageOf, AnswerFor
      <4> QED BY <4>1, IsStutter
    <3>2. CASE resp' # resp
      <4>1. approval \in Pushes /\ rpc[approval] = "asking"
        BY <2>1, <2>3, <3>2, CancelResponds, NoneAssumption DEF MapInv
      <4> QED BY <2>1, <2>3, <3>2, <4>1, CancelResponds, IsResponse
    <3> QED BY <3>1, <3>2
  <2>4. ASSUME UNCHANGED <<rpc, verdict, resp>> PROVE [Promise!Next]_(Promise!vars)
    <3>1. \A p \in Pushes : StageOf(p)' = StageOf(p) /\ AnswerFor(p)' = AnswerFor(p)
      BY <2>4 DEF StageOf, AnswerFor
    <3> QED BY <3>1, IsStutter
  <2>5. ASSUME NEW p \in Pushes, ReceiverNext(p), ~UserAnswers(p)
        PROVE  [Promise!Next]_(Promise!vars)
    BY <1>3, <2>1, <2>5, HandlerKeepsPromise DEF ReceiverNext
  <2> QED
    BY <1>3, <2>2, <2>3, <2>4, <2>5, NotReceiver, NoResponse DEF Next
<1>4. LogInv => TypeOK /\ MapInv
  BY DEF LogInv, IndInv
<1>5. Spec => []RespInv
  BY <1>1, <1>2, <1>4, LogHolds, PTL DEF Spec
<1> QED BY <1>2, <1>3, <1>5, LogHolds, PTL DEF Spec, Promise!Spec

\* The two together are what the module says it implements.
THEOREM SessionImplements == Spec => Implements
BY SessionImplementsLog, SessionImplementsApproval DEF Implements
=============================================================================
