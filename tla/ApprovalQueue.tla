----------------------------- MODULE ApprovalQueue -----------------------------
(***************************************************************************)
(* The approval of incoming transfers: the handlers blocked in              *)
(* receiveAndApprove (internal/transfer/receiver.go), the goroutine that    *)
(* bridges ApprovalChan into the PendingApprovalStore (internal/api/        *)
(* server.go, internal/cli/repl.go), the clients that poll the store and    *)
(* decide (internal/api/handlers/approval.go), and the cancellations that   *)
(* reach a waiting handler through the transfer manager (internal/transfer/ *)
(* manager.go).  Each section under a mutex and each channel operation is   *)
(* one step.                                                                *)
(***************************************************************************)
EXTENDS Integers, Sequences, FiniteSets

CONSTANTS
    Handlers,    \* connections that carry a transfer request, one handler each
    Clients,     \* UI windows and CLI sessions that poll and decide
    NoOne,       \* neither a handler nor a request
    ImageOf,     \* the image name of each request
    MayCancel    \* whether senders and users cancel in this instance

ASSUME NoOneAssumption == NoOne \notin Handlers
ASSUME MayCancelAssumption == MayCancel \in BOOLEAN

VARIABLES
    hpc,       \* where each handler stands in receiveAndApprove
    resp,      \* its Response channel of capacity 1: "" when empty
    bridge,    \* the request the bridge goroutine has received but not stored
    queue,     \* PendingApprovalStore.queue
    approvals, \* Manager.pendingApprovals, keyed by image name
    cpc,       \* where each client stands in sendDecision
    held,      \* the request its Load returned
    verdict,   \* its decision
    shown,     \* the request its dialog shows
    kpc,       \* the cancellation of each request
    found,     \* the request CancelApproval found for it
    dismissed, \* history: requests reported as cancelled
    consented  \* history: requests on show when their client approved

handlerVars == <<hpc, approvals>>
clientVars  == <<cpc, held, verdict, shown, consented>>
cancelVars  == <<kpc, found, dismissed>>
vars == <<handlerVars, resp, bridge, queue, clientVars, cancelVars>>

Images == {ImageOf[h] : h \in Handlers}
Maybe  == Handlers \cup {NoOne}
HandlerPCs == {"new", "register", "offer", "waiting", "granted", "refused",
               "approved", "rejected", "autoApproved"}

Init ==
    /\ hpc = [h \in Handlers |-> "new"]
    /\ resp = [h \in Handlers |-> ""]
    /\ bridge = NoOne
    /\ queue = <<>>
    /\ approvals = [i \in Images |-> NoOne]
    /\ cpc = [c \in Clients |-> "idle"]
    /\ held = [c \in Clients |-> NoOne]
    /\ verdict = [c \in Clients |-> ""]
    /\ shown = [c \in Clients |-> NoOne]
    /\ kpc = [h \in Handlers |-> "none"]
    /\ found = [h \in Handlers |-> NoOne]
    /\ dismissed = {}
    /\ consented = {}

-----------------------------------------------------------------------------
(* The handlers.                                                            *)

HandlerStep(h, from, to) == hpc[h] = from /\ hpc' = [hpc EXCEPT ![h] = to]

\* receiveAndApprove reads the settings: auto_approve answers at once.
Arrive(h) ==
    /\ HandlerStep(h, "new", "register") \/ HandlerStep(h, "new", "autoApproved")
    /\ UNCHANGED <<approvals, resp, bridge, queue, clientVars, cancelVars>>

Register(h) ==
    /\ HandlerStep(h, "register", "offer")
    /\ approvals' = [approvals EXCEPT ![ImageOf[h]] = h]
    /\ UNCHANGED <<resp, bridge, queue, clientVars, cancelVars>>

\* A send on the unbuffered ApprovalChan meets the bridge's receive.
Offer(h) ==
    /\ bridge = NoOne
    /\ HandlerStep(h, "offer", "waiting")
    /\ bridge' = h
    /\ UNCHANGED <<approvals, resp, queue, clientVars, cancelVars>>

Answered(h) ==
    /\ resp[h] # ""
    /\ HandlerStep(h, "waiting", IF resp[h] = "yes" THEN "granted" ELSE "refused")
    /\ resp' = [resp EXCEPT ![h] = ""]
    /\ UNCHANGED <<approvals, bridge, queue, clientVars, cancelVars>>

\* Mutant: UnregisterApproval before the answer has come.
UnregisterEarly(h) ==
    /\ \/ HandlerStep(h, "granted", "approved")
       \/ HandlerStep(h, "refused", "rejected")
       \/ hpc[h] = "waiting" /\ UNCHANGED hpc
    /\ approvals' = [approvals EXCEPT ![ImageOf[h]] = NoOne]
    /\ UNCHANGED <<resp, bridge, queue, clientVars, cancelVars>>

\* The deferred UnregisterApproval deletes whatever the image is mapped to.
Unregister(h) ==
    /\ \/ HandlerStep(h, "granted", "approved")
       \/ HandlerStep(h, "refused", "rejected")
    /\ approvals' = [approvals EXCEPT ![ImageOf[h]] = NoOne]
    /\ UNCHANGED <<resp, bridge, queue, clientVars, cancelVars>>

Store ==
    /\ bridge # NoOne
    /\ queue' = Append(queue, bridge)
    /\ bridge' = NoOne
    /\ UNCHANGED <<handlerVars, resp, clientVars, cancelVars>>

-----------------------------------------------------------------------------
(* The clients.                                                             *)

\* Load drops the first n requests: those at the head whose Response holds an
\* answer, up to the first whose Response is empty.
LoadSkips(n) ==
    /\ \A i \in 1..n : resp[queue[i]] # ""
    /\ n < Len(queue) => resp[queue[n + 1]] = ""

\* Mutant: Load pops the request it returns.
RestPopped(n) == SubSeq(queue, n + 2, Len(queue))
Rest(n) == SubSeq(queue, n + 1, Len(queue))

\* What Load then returns.
First(n) == IF n < Len(queue) THEN queue[n + 1] ELSE NoOne

\* GET /api/pending, on a timer that also runs while a decision is on its way:
\* the dialog shows what Load returns.
Poll(c) ==
    /\ \E n \in 0..Len(queue) : /\ LoadSkips(n) /\ queue' = Rest(n)
                                 /\ shown' = [shown EXCEPT ![c] = First(n)]
    /\ UNCHANGED <<handlerVars, resp, bridge, cpc, held, verdict, consented, cancelVars>>

\* POST /api/approve or /api/reject, from a dialog that shows a request.
DecideLoad(c, v) ==
    /\ cpc[c] = "idle" /\ shown[c] # NoOne
    /\ consented' = IF v = "yes" THEN consented \cup {shown[c]} ELSE consented
    /\ shown' = [shown EXCEPT ![c] = NoOne]
    /\ \E n \in 0..Len(queue) :
         /\ LoadSkips(n) /\ queue' = Rest(n)
         /\ IF First(n) = NoOne THEN UNCHANGED <<cpc, held, verdict>>
            ELSE /\ cpc' = [cpc EXCEPT ![c] = "clear"]
                 /\ held' = [held EXCEPT ![c] = First(n)]
                 /\ verdict' = [verdict EXCEPT ![c] = v]
    /\ UNCHANGED <<handlerVars, resp, bridge, cancelVars>>

\* Mutant: Clear empties the queue.
DecideClearAll(c) ==
    /\ cpc[c] = "clear"
    /\ cpc' = [cpc EXCEPT ![c] = "send"]
    /\ queue' = <<>>
    /\ UNCHANGED <<handlerVars, resp, bridge, held, verdict, shown, consented, cancelVars>>

\* Clear drops the head of the queue as it is now.
DecideClear(c) ==
    /\ cpc[c] = "clear"
    /\ cpc' = [cpc EXCEPT ![c] = "send"]
    /\ queue' = IF queue = <<>> THEN <<>> ELSE Tail(queue)
    /\ UNCHANGED <<handlerVars, resp, bridge, held, verdict, shown, consented, cancelVars>>

\* Mutants of the channel: the last answer wins; a wrong constant.
AnswerLast(h, v) == resp' = [resp EXCEPT ![h] = v]
AnswerTyped(h, v) == resp' = [resp EXCEPT ![h] = IF @ = "" THEN "answered" ELSE @]

\* A non-blocking send: dropped when the channel already holds an answer.
Answer(h, v) == resp' = [resp EXCEPT ![h] = IF @ = "" THEN v ELSE @]

DecideSend(c) ==
    /\ cpc[c] = "send"
    /\ Answer(held[c], verdict[c])
    /\ cpc' = [cpc EXCEPT ![c] = "idle"]
    /\ held' = [held EXCEPT ![c] = NoOne]
    /\ verdict' = [verdict EXCEPT ![c] = ""]
    /\ shown' = [shown EXCEPT ![c] = NoOne]
    /\ UNCHANGED <<handlerVars, bridge, queue, consented, cancelVars>>

-----------------------------------------------------------------------------
(* A cancellation, by the sender's control message or the local API, names   *)
(* the image only; h is the request it is meant for.                         *)

CancelFinds(h) ==
    /\ MayCancel /\ hpc[h] # "new" /\ kpc[h] = "none"
    /\ LET k == approvals[ImageOf[h]] IN
         IF k = NoOne
         THEN /\ kpc' = [kpc EXCEPT ![h] = "missed"]
              /\ UNCHANGED <<found, approvals>>
         ELSE /\ kpc' = [kpc EXCEPT ![h] = "send"]
              /\ found' = [found EXCEPT ![h] = k]
              /\ approvals' = [approvals EXCEPT ![ImageOf[h]] = NoOne]
    /\ UNCHANGED <<hpc, resp, bridge, queue, clientVars, dismissed>>

\* Mutant: the cancellation reports success without rejecting.
CancelSendNothing(h) ==
    /\ kpc[h] = "send"
    /\ dismissed' = dismissed \cup {found[h]}
    /\ kpc' = [kpc EXCEPT ![h] = "done"]
    /\ UNCHANGED <<handlerVars, resp, bridge, queue, clientVars, found>>

\* The non-blocking rejection, and the status "cancelled" either way.
CancelSend(h) ==
    /\ kpc[h] = "send"
    /\ Answer(found[h], "no")
    /\ dismissed' = dismissed \cup {found[h]}
    /\ kpc' = [kpc EXCEPT ![h] = "done"]
    /\ UNCHANGED <<handlerVars, bridge, queue, clientVars, found>>

-----------------------------------------------------------------------------
HandlerNext(h) == Register(h) \/ Offer(h) \/ Answered(h) \/ Unregister(h)
ClientNext(c)  == DecideClear(c) \/ DecideSend(c)

Next == \/ \E h \in Handlers : \/ Arrive(h) \/ HandlerNext(h)
                               \/ CancelFinds(h) \/ CancelSend(h)
        \/ Store
        \/ \E c \in Clients : \/ Poll(c) \/ ClientNext(c)
                              \/ \E v \in {"yes", "no"} : DecideLoad(c, v)

\* The scheduler runs the goroutines; the dialog polls on a timer, and a user
\* with a request on show decides in the end.
Fairness ==
    /\ \A h \in Handlers : WF_vars(HandlerNext(h)) /\ WF_vars(CancelSend(h))
    /\ WF_vars(Store)
    /\ \A c \in Clients : /\ WF_vars(ClientNext(c))
                          /\ WF_vars(Poll(c) /\ shown[c] = NoOne)
                          /\ WF_vars(DecideLoad(c, "yes") \/ DecideLoad(c, "no"))

Spec     == Init /\ [][Next]_vars
FairSpec == Spec /\ Fairness

-----------------------------------------------------------------------------
(* Properties.                                                              *)

TypeOK ==
    /\ hpc \in [Handlers -> HandlerPCs]
    /\ resp \in [Handlers -> {"", "yes", "no"}]
    /\ bridge \in Maybe
    /\ queue \in Seq(Handlers)
    /\ approvals \in [Images -> Maybe]
    /\ cpc \in [Clients -> {"idle", "clear", "send"}]
    /\ held \in [Clients -> Maybe]
    /\ verdict \in [Clients -> {"", "yes", "no"}]
    /\ shown \in [Clients -> Maybe]
    /\ kpc \in [Handlers -> {"none", "missed", "send", "done"}]
    /\ found \in [Handlers -> Maybe]
    /\ \A h \in Handlers : kpc[h] = "send" => found[h] # NoOne
    /\ dismissed \subseteq Handlers /\ consented \subseteq Handlers

\* The promise to each request.  Its answer is read from the channel while the handler
\* is asking; what is sent there later nobody receives.
Asking == {"register", "offer", "waiting"}
StageOf(h) ==
    CASE hpc[h] = "new" -> "new"
      [] hpc[h] \in Asking -> "asked"
      [] hpc[h] \in {"granted", "approved", "autoApproved"} -> "granted"
      [] hpc[h] \in {"refused", "rejected"} -> "refused"
AnswerFor(h) == IF hpc[h] \in Asking THEN resp[h] ELSE ""

Promise == INSTANCE Approval WITH
    Requests <- Handlers,
    stage <- [h \in Handlers |-> StageOf(h)],
    answer <- [h \in Handlers |-> AnswerFor(h)]

\* Whoever decides or cancels, by whatever interleaving: the first answer to a request
\* is the one its handler takes, and an answer meant for one is never another's or
\* there before the handler asks (the non-blocking sends into a channel of one slot).
ImplementsApproval == Promise!Spec

\* A request reported as cancelled is not left waiting for a decision.
DismissedNeverWaits ==
    \A h \in dismissed : hpc[h] = "waiting" => resp[h] # ""

\* The manager records the channel of a handler for as long as it blocks
\* (RegisterApproval), unless a cancellation has taken it.
CancellableWhileWaiting ==
    \A h \in Handlers :
        hpc[h] \in {"offer", "waiting"} /\ (\A k \in Handlers : found[k] # h)
            => approvals[ImageOf[h]] = h

InQueue(h) == \E i \in DOMAIN queue : queue[i] = h

\* A blocked handler can still be approved or rejected: its request is queued,
\* on its way there, held by a client that is deciding it, or answered.
NoOrphan ==
    \A h \in Handlers : hpc[h] = "waiting" =>
        \/ resp[h] # "" \/ bridge = h \/ InQueue(h)
        \/ \E c \in Clients : cpc[c] # "idle" /\ held[c] = h

\* A transfer that was not auto-approved goes ahead only if a user approved while
\* looking at it.
ExplicitApproval == \A h \in Handlers : hpc[h] = "granted" => h \in consented

\* Requests are served in turn: a user who keeps deciding reaches each of them.
EveryRequestDecided ==
    \A h \in Handlers : hpc[h] = "waiting" ~> hpc[h] \in {"approved", "rejected"}
=============================================================================
