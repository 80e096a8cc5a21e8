---------------------------- MODULE TransferSession ----------------------------
(***************************************************************************)
(* Pushes of one image from one node to another, from the dispatch to the   *)
(* two ledgers: PushImage and the pipeline around it on the sender          *)
(* (internal/transfer/sender.go, internal/cli/pipeline.go, internal/api/    *)
(* handlers/dispatch.go), handleIncomingTransfer and the loader on the      *)
(* receiver (internal/transfer/receiver.go, cmd/baleen/daemon.go), and the  *)
(* cancellations of both users.  All pushes share one key of each map of    *)
(* the two Managers and one entry of each Hub.  Pausing is ProgressWriter's *)
(* and the order in which requests are shown is ApprovalQueue's.            *)
(***************************************************************************)
EXTENDS Naturals, FiniteSets

CONSTANTS
    Pushes,     \* the dispatches, first tries and retries alike
    None,       \* no push
    Chunks,     \* chunks of a payload
    MaxClicks,  \* bound: cancellations by the two users together
    MayBreak,   \* whether a connection breaks
    Overlap     \* whether a push is dispatched while another is under way

ASSUME NoneAssumption == None \notin Pushes
ASSUME ChunksAssumption == Chunks \in Nat \ {0}
ASSUME ClicksAssumption == MaxClicks \in Nat
ASSUME FlagsAssumption == MayBreak \in BOOLEAN /\ Overlap \in BOOLEAN

VARIABLES
    spc,       \* where each push stands on the sender
    sent,      \* messages sent: the request, the stream header, the chunks
    scancel,   \* canceled of its progressWriter on the sender
    outcome,   \* Status of its last row in the sender's ledger
    pend,      \* the sender Manager's pendingConns entry
    swriter,   \* the sender Manager's transfers entry
    shub,      \* the sender Hub's status
    rpc,       \* where the handler of each push stands on the receiver
    recvd,     \* messages it has read
    rcancel,   \* canceled of its progressWriter on the receiver
    verdict,   \* Status of its row in the receiver's ledger
    resp,      \* its Response channel: "" when empty
    approval,  \* the receiver Manager's pendingApprovals entry
    rwriter,   \* the receiver Manager's transfers entry
    rhub,      \* the receiver Hub's status
    conn,      \* each data connection: who has closed it
    reply,     \* its TransferResponse: "" until sent
    back,      \* whether a 'C' byte travels back on it
    ctl,       \* control connections that carry a cancel of this push
    api,       \* the sender's cancel handler, which looks in two maps
    clicks,    \* cancellations so far
    wanted     \* history: the pushes a user cancelled

senderVars   == <<spc, sent, scancel, outcome, pend, swriter, shub>>
receiverVars == <<rpc, recvd, rcancel, verdict, resp, approval, rwriter, rhub>>
netVars      == <<conn, reply, back, ctl>>
userVars     == <<api, clicks, wanted>>
vars == <<senderVars, receiverVars, netVars, userVars>>

Full == 2 + Chunks
Maybe == Pushes \cup {None}
Cleaning == {"closing", "leaving"}
Streaming == {"streaming", "wrote", "copied", "broken"}

Init ==
    /\ spc = [p \in Pushes |-> "idle"]    /\ rpc = [p \in Pushes |-> "none"]
    /\ sent = [p \in Pushes |-> 0]        /\ recvd = [p \in Pushes |-> 0]
    /\ scancel = [p \in Pushes |-> FALSE] /\ rcancel = [p \in Pushes |-> FALSE]
    /\ outcome = [p \in Pushes |-> ""]    /\ verdict = [p \in Pushes |-> ""]
    /\ pend = None /\ swriter = None      /\ approval = None /\ rwriter = None
    /\ shub = "" /\ rhub = ""             /\ resp = [p \in Pushes |-> ""]
    /\ conn = [p \in Pushes |-> "none"]   /\ reply = [p \in Pushes |-> ""]
    /\ back = [p \in Pushes |-> FALSE]    /\ ctl = [p \in Pushes |-> 0]
    /\ api = "idle" /\ clicks = 0 /\ wanted = {}

-----------------------------------------------------------------------------
(* The data connection: TLS over TCP.  What one side sent before it closed  *)
(* can still be read; what is sent to a side that closed may be accepted and *)
(* lost; a broken connection fails every read.                              *)

SenderCloses(p)   == conn' = [conn EXCEPT ![p] =
                                  IF @ \in {"open", "sclosed"} THEN "sclosed" ELSE "broken"]
ReceiverCloses(p) == conn' = [conn EXCEPT ![p] = IF @ = "open" THEN "rclosed" ELSE "broken"]

SenderMayWrite(p) == conn[p] \in {"open", "rclosed"}
SenderMayRead(p)  == conn[p] \in {"open", "rclosed"}
ReceiverMayRead(p) == conn[p] \in {"open", "sclosed"}

Break(p) ==
    /\ MayBreak /\ conn[p] \in {"open", "sclosed", "rclosed"}
    /\ conn' = [conn EXCEPT ![p] = "broken"]
    /\ UNCHANGED <<senderVars, receiverVars, reply, back, ctl, userVars>>

-----------------------------------------------------------------------------
(* The sender.                                                              *)

SStep(p, from, to) == spc[p] = from /\ spc' = [spc EXCEPT ![p] = to]
Ends(p, status) == outcome' = [outcome EXCEPT ![p] = status]
SUnchanged == UNCHANGED <<receiverVars, back, ctl, userVars>>

\* POST /api/push refuses a push that is pending or streaming.
InProgress == pend # None \/ swriter # None

Dispatch(p) ==
    /\ ~InProgress
    /\ Overlap \/ \A q \in Pushes : spc[q] \in {"idle", "ended"}
    /\ SStep(p, "idle", "starting")
    /\ SUnchanged /\ UNCHANGED <<sent, scancel, outcome, pend, swriter, shub, conn, reply>>

Prepare(p) ==
    /\ SStep(p, "starting", "resolving") /\ shub' = "preparing"
    /\ SUnchanged /\ UNCHANGED <<sent, scancel, outcome, pend, swriter, conn, reply>>

\* ResolveAndDetect, then ExportImage.
Resolve(p) ==
    /\ \/ SStep(p, "resolving", "exporting") /\ shub' = "exporting" /\ UNCHANGED outcome
       \/ SStep(p, "resolving", "ended") /\ shub' = "failed" /\ Ends(p, "Failed")
    /\ SUnchanged /\ UNCHANGED <<sent, scancel, pend, swriter, conn, reply>>

Export(p) ==
    /\ \/ SStep(p, "exporting", "dialing") /\ UNCHANGED <<shub, outcome>>
       \/ SStep(p, "exporting", "ended") /\ shub' = "failed" /\ Ends(p, "Failed")
    /\ SUnchanged /\ UNCHANGED <<sent, scancel, pend, swriter, conn, reply>>

\* A failed inspection or dial leaves PushImage before it has published anything.
Dial(p) ==
    /\ \/ SStep(p, "dialing", "dialed") /\ conn' = [conn EXCEPT ![p] = "open"]
          /\ UNCHANGED outcome
       \/ SStep(p, "dialing", "ended") /\ Ends(p, "Failed") /\ UNCHANGED conn
    /\ SUnchanged /\ UNCHANGED <<sent, scancel, pend, swriter, shub, reply>>

Announce(p) ==
    /\ SStep(p, "dialed", "announced") /\ shub' = "waiting for approval" /\ pend' = p
    /\ SUnchanged /\ UNCHANGED <<sent, scancel, outcome, swriter, conn, reply>>

\* An Encode on a dead connection fails in negotiate as its Decode does.
SendRequest(p) ==
    /\ SStep(p, "announced", "asked")
    /\ sent' = [sent EXCEPT ![p] = IF SenderMayWrite(p) THEN 1 ELSE 0]
    /\ SUnchanged /\ UNCHANGED <<scancel, outcome, pend, swriter, shub, conn, reply>>

\* Mutant: a connection that fails while the receiver decides goes unnoticed.
NegotiateForever(p) ==
    /\ \/ /\ SStep(p, "asked", "pruning") /\ SenderMayRead(p) /\ reply[p] = "yes"
          /\ shub' = "pruning" /\ UNCHANGED outcome
       \/ /\ SStep(p, "asked", "leaving") /\ SenderMayRead(p) /\ reply[p] = "no"
          /\ shub' = "rejected" /\ Ends(p, "Rejected")
    /\ SUnchanged /\ UNCHANGED <<sent, scancel, pend, swriter, conn, reply>>

Negotiate(p) ==
    /\ \/ /\ SStep(p, "asked", "pruning") /\ SenderMayRead(p) /\ reply[p] = "yes"
          /\ shub' = "pruning" /\ UNCHANGED outcome
       \/ /\ SStep(p, "asked", "leaving") /\ SenderMayRead(p) /\ reply[p] = "no"
          /\ shub' = "rejected" /\ Ends(p, "Rejected")
       \/ /\ SStep(p, "asked", "leaving") /\ conn[p] # "open"
          /\ shub' = "rejected" /\ Ends(p, "Failed")
    /\ SUnchanged /\ UNCHANGED <<sent, scancel, pend, swriter, conn, reply>>

Prune(p) ==
    /\ \/ SStep(p, "pruning", "pruned") /\ UNCHANGED outcome
       \/ SStep(p, "pruning", "leaving") /\ Ends(p, "Failed")
    /\ SUnchanged /\ UNCHANGED <<sent, scancel, pend, swriter, shub, conn, reply>>

SendHeader(p) ==
    /\ \/ /\ SStep(p, "pruned", "opening") /\ SenderMayWrite(p)
          /\ sent' = [sent EXCEPT ![p] = 2] /\ UNCHANGED outcome
       \/ SStep(p, "pruned", "leaving") /\ Ends(p, "Failed") /\ UNCHANGED sent
    /\ SUnchanged /\ UNCHANGED <<scancel, pend, swriter, shub, conn, reply>>

\* Mutant: newProgressWriter does not register itself.
OpenWriterUnseen(p) ==
    /\ SStep(p, "opening", "streaming")
    /\ SUnchanged
    /\ UNCHANGED <<sent, scancel, outcome, pend, swriter, shub, conn, reply>>

\* newProgressWriter registers itself.
OpenWriter(p) ==
    /\ SStep(p, "opening", "streaming") /\ swriter' = p
    /\ SUnchanged /\ UNCHANGED <<sent, scancel, outcome, pend, shub, conn, reply>>

\* io.Copy writes the next chunk; the test of canceled comes first.
Write(p) ==
    /\ \/ SStep(p, "streaming", "broken") /\ scancel[p] /\ UNCHANGED sent
       \/ /\ SStep(p, "streaming", "wrote") /\ ~scancel[p] /\ SenderMayWrite(p)
          /\ sent' = [sent EXCEPT ![p] = @ + 1]
       \/ SStep(p, "streaming", "broken") /\ ~scancel[p] /\ conn[p] # "open" /\ UNCHANGED sent
    /\ SUnchanged /\ UNCHANGED <<scancel, outcome, pend, swriter, shub, conn, reply>>

\* What a Write of the n-th message may publish, now and then.
Progress(n) == IF n = Full THEN "completed" ELSE "transferring"

\* Mutant: the end of the file goes unnoticed.
WroteOn(p) ==
    /\ SStep(p, "wrote", "streaming")
    /\ shub' \in {shub, Progress(sent[p])}
    /\ SUnchanged /\ UNCHANGED <<sent, scancel, outcome, pend, swriter, conn, reply>>

Wrote(p) ==
    /\ SStep(p, "wrote", IF sent[p] = Full THEN "copied" ELSE "streaming")
    /\ shub' \in {shub, Progress(sent[p])}
    /\ SUnchanged /\ UNCHANGED <<sent, scancel, outcome, pend, swriter, conn, reply>>

\* Mutant: a failed stream publishes nothing.
ConcludeSilently(p) ==
    /\ SStep(p, "copied", "closing") \/ SStep(p, "broken", "closing")
    /\ IF scancel[p] THEN Ends(p, "Canceled") /\ UNCHANGED shub
       ELSE IF spc[p] = "broken" THEN Ends(p, "Failed") /\ UNCHANGED shub
       ELSE Ends(p, "Completed") /\ shub' = "completed"
    /\ SUnchanged /\ UNCHANGED <<sent, scancel, pend, swriter, conn, reply>>

\* After io.Copy; the test of canceled and the publication are one step.
Conclude(p) ==
    /\ SStep(p, "copied", "closing") \/ SStep(p, "broken", "closing")
    /\ IF scancel[p] THEN Ends(p, "Canceled") /\ UNCHANGED shub
       ELSE IF spc[p] = "broken" THEN Ends(p, "Failed") /\ shub' = "failed"
       ELSE Ends(p, "Completed") /\ shub' = "completed"
    /\ SUnchanged /\ UNCHANGED <<sent, scancel, pend, swriter, conn, reply>>

\* Mutant: Cleanup is forgotten.
CleanupNothing(p) ==
    /\ SStep(p, "closing", "leaving")
    /\ SUnchanged
    /\ UNCHANGED <<sent, scancel, outcome, pend, swriter, shub, conn, reply>>

\* The deferred Cleanup deletes whatever the key is mapped to.
Cleanup(p) ==
    /\ SStep(p, "closing", "leaving") /\ swriter' = None
    /\ SUnchanged /\ UNCHANGED <<sent, scancel, outcome, pend, shub, conn, reply>>

\* Mutant: the deferred Close is missing.
LeaveOpen(p) ==
    /\ SStep(p, "leaving", "ended") /\ pend' = None
    /\ SUnchanged /\ UNCHANGED <<sent, scancel, outcome, swriter, shub, conn, reply>>

\* The deferred UnregisterPendingConn and Close, and the row in the ledger.
Leave(p) ==
    /\ SStep(p, "leaving", "ended") /\ pend' = None
    /\ SenderCloses(p)
    /\ SUnchanged /\ UNCHANGED <<sent, scancel, outcome, swriter, shub, reply>>

-----------------------------------------------------------------------------
(* Cancellation.                                                            *)

\* progressWriter.Cancel on the sender tells the receiver over a connection of
\* its own, whoever asked for it.
SenderCancel(p) ==
    IF scancel[p] THEN UNCHANGED <<scancel, shub, ctl>>
    ELSE /\ scancel' = [scancel EXCEPT ![p] = TRUE]
         /\ shub' = "cancelled"
         /\ ctl' = [ctl EXCEPT ![p] = @ + 1]

\* On the receiver, over the data connection.
ReceiverCancel(p) ==
    IF rcancel[p] THEN UNCHANGED <<rcancel, rhub, back>>
    ELSE /\ rcancel' = [rcancel EXCEPT ![p] = TRUE]
         /\ rhub' = "cancelled"
         /\ back' = [back EXCEPT ![p] = TRUE]

\* Mutant: the end of the connection is taken for a 'C'.
ReadBackAnything(p) ==
    /\ back[p] \/ conn[p] = "rclosed"
    /\ spc[p] \in Streaming \cup Cleaning /\ SenderMayRead(p)
    /\ back' = [back EXCEPT ![p] = FALSE]
    /\ SenderCancel(p)
    /\ UNCHANGED <<spc, sent, outcome, pend, swriter, receiverVars, conn, reply, userVars>>

\* The reader of the data connection on the sender.
ReadBack(p) ==
    /\ back[p] /\ spc[p] \in Streaming \cup Cleaning /\ SenderMayRead(p)
    /\ back' = [back EXCEPT ![p] = FALSE]
    /\ SenderCancel(p)
    /\ UNCHANGED <<spc, sent, outcome, pend, swriter, receiverVars, conn, reply, userVars>>

\* POST /api/transfer/cancel on the sender.
ClickSender ==
    /\ clicks < MaxClicks /\ api = "idle"
    /\ clicks' = clicks + 1
    /\ IF swriter # None
       THEN SenderCancel(swriter) /\ wanted' = wanted \cup {swriter} /\ UNCHANGED api
       ELSE api' = "missed" /\ UNCHANGED <<scancel, shub, ctl, wanted>>
    /\ UNCHANGED <<spc, sent, outcome, pend, swriter, receiverVars, conn, reply, back>>

\* ... which closes the connection of a push that does not stream yet.
ClickPending ==
    /\ api = "missed" /\ api' = "idle"
    /\ IF pend = None THEN UNCHANGED <<conn, shub, ctl, wanted>>
       ELSE /\ SenderCloses(pend)
            /\ ctl' = [ctl EXCEPT ![pend] = @ + 1]
            /\ shub' = "cancelled"
            /\ wanted' = wanted \cup {pend}
    /\ UNCHANGED <<spc, sent, scancel, outcome, pend, swriter, receiverVars,
                   reply, back, clicks>>

\* CancelApproval: a rejection in the Response channel, unless it is full.
CancelApproval ==
    /\ approval' = None
    /\ resp' = [resp EXCEPT ![approval] = IF @ = "" THEN "no" ELSE @]
    /\ rhub' = "cancelled"

\* POST /api/transfer/cancel on the receiver.
ClickReceiver ==
    /\ clicks < MaxClicks
    /\ \/ /\ rwriter # None
          /\ ReceiverCancel(rwriter) /\ wanted' = wanted \cup {rwriter}
          /\ UNCHANGED <<resp, approval>>
       \/ /\ rwriter = None /\ approval # None
          /\ CancelApproval /\ wanted' = wanted \cup {approval}
          /\ UNCHANGED <<rcancel, back>>
    /\ clicks' = clicks + 1
    /\ UNCHANGED <<senderVars, rpc, recvd, verdict, rwriter, conn, reply, ctl, api>>

\* A control connection reaches the receiver, which looks the image up, ...
Deliver(p) ==
    /\ ctl[p] > 0 /\ ctl' = [ctl EXCEPT ![p] = @ - 1]
    /\ \/ rwriter # None /\ ReceiverCancel(rwriter) /\ UNCHANGED <<resp, approval>>
       \/ rwriter = None /\ approval # None /\ CancelApproval /\ UNCHANGED <<rcancel, back>>
       \/ rwriter = None /\ approval = None
          /\ UNCHANGED <<rcancel, rhub, back, resp, approval>>
    /\ UNCHANGED <<senderVars, rpc, recvd, verdict, rwriter, conn, reply, userVars>>

\* ... or cannot be made, or finds the receiver not accepting connections.
Lose(p) ==
    /\ ctl[p] > 0 /\ ctl' = [ctl EXCEPT ![p] = @ - 1]
    /\ UNCHANGED <<senderVars, receiverVars, conn, reply, back, userVars>>

-----------------------------------------------------------------------------
(* The receiver.                                                            *)

RStep(p, from, to) == rpc[p] = from /\ rpc' = [rpc EXCEPT ![p] = to]
Records(p, status) == verdict' = [verdict EXCEPT ![p] = status]
RUnchanged == UNCHANGED <<senderVars, back, ctl, userVars>>

\* A node that hides its presence refuses with a response and a close.
Accept(p) ==
    /\ conn[p] # "none"
    /\ \/ RStep(p, "none", "accepted") /\ UNCHANGED <<reply, conn>>
       \/ RStep(p, "none", "gone") /\ reply' = [reply EXCEPT ![p] = "no"] /\ ReceiverCloses(p)
    /\ RUnchanged
    /\ UNCHANGED <<recvd, rcancel, verdict, resp, approval, rwriter, rhub>>

\* The request is asked about, or approved by the settings.
ReadRequest(p) ==
    /\ sent[p] > 0 /\ ReceiverMayRead(p)
    /\ recvd' = [recvd EXCEPT ![p] = 1]
    /\ \/ /\ RStep(p, "accepted", "asking") /\ approval' = p
          /\ rhub' = "waiting for approval"
       \/ /\ RStep(p, "accepted", "approved") /\ UNCHANGED approval
          /\ rhub' = "auto-approved, waiting for sender"
    /\ RUnchanged /\ UNCHANGED <<rcancel, verdict, resp, rwriter, conn, reply>>

\* The read deadline, or a connection that ended first.
RequestTimesOut(p) ==
    /\ RStep(p, "accepted", "gone") /\ ReceiverCloses(p)
    /\ RUnchanged
    /\ UNCHANGED <<recvd, rcancel, verdict, resp, approval, rwriter, rhub, reply>>

\* The decision of a user reaches the Response channel: see ApprovalQueue.
UserAnswers(p) ==
    /\ rpc[p] = "asking" /\ resp[p] = ""
    /\ \E v \in {"yes", "no"} : resp' = [resp EXCEPT ![p] = v]
    /\ RUnchanged
    /\ UNCHANGED <<rpc, recvd, rcancel, verdict, approval, rwriter, rhub, conn, reply>>

Resolved(p) ==
    /\ \/ resp[p] = "yes" /\ RStep(p, "asking", "approved") /\ UNCHANGED reply
       \/ resp[p] = "no" /\ RStep(p, "asking", "refused")
          /\ reply' = [reply EXCEPT ![p] = "no"]
    /\ approval' = None
    /\ RUnchanged /\ UNCHANGED <<recvd, rcancel, verdict, resp, rwriter, rhub, conn>>

Refuse(p) ==
    /\ RStep(p, "refused", "gone") /\ ReceiverCloses(p)
    /\ rhub' = "rejected" /\ Records(p, "Rejected")
    /\ RUnchanged /\ UNCHANGED <<recvd, rcancel, resp, approval, rwriter, reply>>

Reply(p) ==
    /\ \/ /\ RStep(p, "approved", "replied")
          /\ reply' = [reply EXCEPT ![p] = "yes"] /\ UNCHANGED <<conn, verdict>>
       \/ /\ RStep(p, "approved", "gone") /\ conn[p] # "open"
          /\ ReceiverCloses(p) /\ Records(p, "Failed") /\ UNCHANGED reply
    /\ RUnchanged /\ UNCHANGED <<recvd, rcancel, resp, approval, rwriter, rhub>>

\* handleIncomingTransfer returns after an error of downloadPayload.
Abandon(p, from, status) ==
    /\ RStep(p, from, "gone") /\ ReceiverCloses(p)
    /\ rhub' = "failed" /\ Records(p, status)

\* What is left to read, or that nothing comes any more.
MoreToRead(p) == ReceiverMayRead(p) /\ recvd[p] < sent[p]
AtEOF(p) == conn[p] = "sclosed" /\ recvd[p] = sent[p]

ReadHeader(p) ==
    /\ \/ /\ MoreToRead(p) /\ RStep(p, "replied", "receiving")
          /\ recvd' = [recvd EXCEPT ![p] = 2] /\ rwriter' = p
          /\ UNCHANGED <<conn, rhub, verdict>>
       \/ /\ AtEOF(p) \/ conn[p] = "broken"
          /\ Abandon(p, "replied", "Failed") /\ UNCHANGED <<recvd, rwriter>>
    /\ RUnchanged /\ UNCHANGED <<rcancel, resp, approval, reply>>

ReadChunk(p) ==
    /\ MoreToRead(p) /\ ~rcancel[p]
    /\ RStep(p, "receiving", "receiving")
    /\ recvd' = [recvd EXCEPT ![p] = @ + 1]
    /\ rhub' \in {rhub, Progress(recvd'[p])}
    /\ RUnchanged /\ UNCHANGED <<rcancel, verdict, resp, approval, rwriter, conn, reply>>

\* Write refuses the next chunk of a cancelled pull; a broken read fails.
ReadFails(p) ==
    /\ \/ MoreToRead(p) /\ rcancel[p] /\ Abandon(p, "receiving", "Canceled")
       \/ conn[p] = "broken" /\ Abandon(p, "receiving", "Failed")
    /\ rwriter' = None
    /\ RUnchanged /\ UNCHANGED <<recvd, rcancel, resp, approval, reply>>

\* io.Copy ends well at the end of the stream, be it cut short or cancelled.
ReadEnd(p) ==
    /\ AtEOF(p) /\ RStep(p, "receiving", "verifying") /\ rhub' = "unpacking"
    /\ RUnchanged /\ UNCHANGED <<recvd, rcancel, verdict, resp, approval, rwriter, conn, reply>>

\* Mutant: the checksum is not compared.
VerifyNothing(p) ==
    /\ RStep(p, "verifying", "stitching") /\ rwriter' = None
    /\ RUnchanged
    /\ UNCHANGED <<recvd, rcancel, verdict, resp, approval, rhub, conn, reply>>

\* The checksum of the file against the header.
Verify(p) ==
    /\ \/ /\ recvd[p] = Full /\ RStep(p, "verifying", "stitching")
          /\ UNCHANGED <<conn, rhub, verdict>>
       \/ recvd[p] # Full /\ Abandon(p, "verifying", "Failed")
    /\ rwriter' = None
    /\ RUnchanged /\ UNCHANGED <<recvd, rcancel, resp, approval, reply>>

Stitch(p) ==
    /\ \/ /\ RStep(p, "stitching", "handing") /\ Records(p, "Completed")
          /\ UNCHANGED <<conn, rhub>>
       \/ Abandon(p, "stitching", "Failed")
    /\ RUnchanged /\ UNCHANGED <<recvd, rcancel, resp, approval, rwriter, reply>>

\* The loader takes one download at a time from downloadedChan.
Load(p) ==
    /\ RStep(p, "handing", "loaded") /\ ReceiverCloses(p)
    /\ rhub' \in {"completed", "failed"}
    /\ RUnchanged /\ UNCHANGED <<recvd, rcancel, verdict, resp, approval, rwriter, reply>>

-----------------------------------------------------------------------------
SenderNext(p) ==
    \/ Prepare(p) \/ Resolve(p) \/ Export(p) \/ Dial(p) \/ Announce(p)
    \/ SendRequest(p) \/ Negotiate(p) \/ Prune(p) \/ SendHeader(p) \/ OpenWriter(p)
    \/ Write(p) \/ Wrote(p) \/ Conclude(p) \/ Cleanup(p) \/ Leave(p)

ReceiverNext(p) ==
    \/ Accept(p) \/ ReadRequest(p) \/ RequestTimesOut(p) \/ UserAnswers(p)
    \/ Resolved(p) \/ Refuse(p) \/ Reply(p) \/ ReadHeader(p) \/ ReadChunk(p)
    \/ ReadFails(p) \/ ReadEnd(p) \/ Verify(p) \/ Stitch(p) \/ Load(p)

Next ==
    \/ \E p \in Pushes : \/ Dispatch(p) \/ SenderNext(p) \/ ReceiverNext(p)
                         \/ ReadBack(p) \/ Deliver(p) \/ Lose(p) \/ Break(p)
    \/ ClickSender \/ ClickPending \/ ClickReceiver

\* The scheduler runs both daemons, and the receiving user decides in the end.
Fairness == \A p \in Pushes : WF_vars(SenderNext(p)) /\ WF_vars(ReceiverNext(p))

Spec     == Init /\ [][Next]_vars
FairSpec == Spec /\ Fairness

-----------------------------------------------------------------------------
(* Properties.                                                              *)

SenderPCs == {"idle", "starting", "resolving", "exporting", "dialing", "dialed",
              "announced", "asked", "pruning", "pruned", "opening", "ended"}
                 \cup Streaming \cup Cleaning
ReceiverPCs == {"none", "accepted", "asking", "approved", "refused", "replied",
                "receiving", "verifying", "stitching", "handing", "loaded", "gone"}
Statuses == {"", "preparing", "exporting", "waiting for approval", "pruning",
             "transferring", "completed", "failed", "rejected", "cancelled",
             "auto-approved, waiting for sender", "unpacking"}
Rows == {"", "Completed", "Rejected", "Canceled", "Failed"}

ControlType ==
    /\ spc \in [Pushes -> SenderPCs] /\ rpc \in [Pushes -> ReceiverPCs]
    /\ outcome \in [Pushes -> Rows] /\ verdict \in [Pushes -> Rows]
    /\ resp \in [Pushes -> {"", "yes", "no"}] /\ reply \in [Pushes -> {"", "yes", "no"}]
    /\ conn \in [Pushes -> {"none", "open", "sclosed", "rclosed", "broken"}]
    /\ {shub, rhub} \subseteq Statuses /\ api \in {"idle", "missed"}
FlagType ==
    /\ scancel \in [Pushes -> BOOLEAN] /\ rcancel \in [Pushes -> BOOLEAN]
    /\ back \in [Pushes -> BOOLEAN]
CountType ==
    /\ sent \in [Pushes -> 0..Full] /\ recvd \in [Pushes -> 0..Full]
    /\ \A p \in Pushes : spc[p] = "streaming" => sent[p] < Full
    /\ ctl \in [Pushes -> Nat] /\ clicks \in 0..MaxClicks
MapType == {pend, swriter, approval, rwriter} \subseteq Maybe /\ wanted \subseteq Pushes

TypeOK == ControlType /\ FlagType /\ CountType /\ MapType

\* The receiver records Completed only for a payload that arrived whole, and only
\* of a push that its sender did not record as failed or rejected: no cut stream,
\* cancellation or close passes for a transfer.
CompletedIsWhole ==
    \A p \in Pushes : verdict[p] = "Completed" =>
        recvd[p] = Full /\ outcome[p] \notin {"Failed", "Rejected"}

\* Layer data leaves the sender only once the receiver has approved the request,
\* and never belongs to a transfer the receiver records as rejected.
DataNeedsApproval ==
    \A p \in Pushes : sent[p] > 1 => reply[p] = "yes" /\ verdict[p] # "Rejected"

Finished(p) == spc[p] \in {"idle", "ended"} /\ rpc[p] \in {"none", "gone", "loaded"}

\* When no push is under way both Managers are empty, so a later dispatch is not
\* refused and a later cancellation finds nothing (the deferred Unregisters).
QuietIsClean ==
    (\A p \in Pushes : Finished(p)) =>
        {pend, swriter, approval, rwriter} = {None}

\* A push that streams can be found by the cancel, pause and resume of the API.
StreamIsControllable == \A p \in Pushes : spc[p] \in Streaming => swriter = p

\* The sender waits for the answer, the handler for data or the end of the connection.
AwaitsAnswer(p) == spc[p] = "asked" /\ conn[p] = "open" /\ reply[p] = ""
AwaitsData(p) == rpc[p] \in {"replied", "receiving"} /\ ~MoreToRead(p)
                     /\ ~AtEOF(p) /\ conn[p] # "broken"

\* Nobody waits for a peer that has left or waits as well: there are no deadlines past
\* the request (SetReadDeadline is reset), so only the two deferred Closes see to it.
NobodyWaitsInVain ==
    \A p \in Pushes :
        /\ AwaitsAnswer(p) => rpc[p] \in {"none", "accepted", "asking", "approved"}
        /\ AwaitsData(p) => spc[p] \notin {"idle", "ended"} /\ ~AwaitsAnswer(p)

\* A second click on Push is refused while the first push is in progress.
OnePushAtATime ==
    \A p, q \in Pushes : p # q => spc[p] \in {"idle", "ended"} \/ spc[q] \in {"idle", "ended"}

\* When a push has ended the Hub does not contradict the ledger: what completed
\* is shown so, or as cancelled by a click that came too late, and what failed or
\* was rejected does not look as if it went on or had gone through. (A cancelled
\* one may: a Write under way publishes over the cancellation.)
HubAgrees ==
    \A p \in Pushes : spc[p] = "ended" =>
        /\ outcome[p] = "Completed" => shub \in {"completed", "cancelled"}
        /\ outcome[p] \in {"Failed", "Rejected"} => shub \notin {"transferring", "completed"}

\* Only what a user cancelled is cancelled: neither daemon takes the end of a
\* connection, or a control message that arrives late, for a cancellation.
CancelHitsItsTransfer ==
    \A p \in Pushes : scancel[p] \/ rcancel[p] => p \in wanted

\* Neither side waits for good: every push ends with a row in the sender's ledger,
\* and every handler that accepted it returns.
EverySideEnds ==
    \A p \in Pushes :
        /\ spc[p] = "starting" ~> (spc[p] = "ended" /\ outcome[p] # "")
        /\ rpc[p] = "accepted" ~> rpc[p] \in {"gone", "loaded"}

-----------------------------------------------------------------------------
(* What the two users see of all this is a TransferLog.                     *)

Payload(p) == IF sent[p] < 2 THEN "none" ELSE IF sent[p] < Full THEN "part" ELSE "all"

Log == INSTANCE TransferLog WITH
    answer <- reply, data <- [p \in Pushes |-> Payload(p)],
    whole <- {p \in Pushes : recvd[p] = Full}, sentRow <- outcome, gotRow <- verdict

\* What ApprovalQueue promises to each request, and this module takes from it.  Who is
\* refused by a node that hides, or sends no request, is not asked about.
StageOf(p) ==
    CASE \/ rpc[p] \in {"none", "accepted"}
         \/ rpc[p] = "gone" /\ verdict[p] = "" -> "new"
      [] rpc[p] = "asking" -> "asked"
      [] \/ rpc[p] = "refused"
         \/ rpc[p] = "gone" /\ verdict[p] = "Rejected" -> "refused"
      [] OTHER -> "granted"

Promise == INSTANCE Approval WITH
    Requests <- Pushes, stage <- [p \in Pushes |-> StageOf(p)],
    answer <- [p \in Pushes |-> IF rpc[p] = "asking" THEN resp[p] ELSE ""]

\* The session implements the log: data follow the answer, both rows are written
\* once and say what became of the payload, whatever breaks or is cancelled.  It goes
\* by the first answer to the request, be it a user's or a cancellation.
Implements == Log!Spec /\ Promise!Spec
=============================================================================
