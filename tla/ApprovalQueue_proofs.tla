-------------------------- MODULE ApprovalQueue_proofs --------------------------
(***************************************************************************)
(* Safety of the approval of transfers, for any number of requests and      *)
(* clients.                                                                 *)
(***************************************************************************)
EXTENDS ApprovalQueue, SequenceTheorems, TLAPS

\* What the queue operations return: dropping requests or appending one leaves a
\* sequence of handlers, and the request Load returns is a handler or none.
LEMMA QueueOps ==
  ASSUME TypeOK
  PROVE  /\ \A n \in 0..Len(queue) : /\ Rest(n) \in Seq(Handlers)
                                     /\ First(n) \in Maybe
         /\ \A h \in Handlers : Append(queue, h) \in Seq(Handlers)
         /\ queue # <<>> => Tail(queue) \in Seq(Handlers)
<1>1. ASSUME NEW n \in 0..Len(queue)
      PROVE  Rest(n) \in Seq(Handlers) /\ First(n) \in Maybe
  <2>0. queue \in Seq(Handlers)
    BY DEF TypeOK
  <2>1. queue \in Seq(Handlers) /\ Len(queue) \in Nat
    BY <2>0, LenProperties
  <2>2. /\ n + 1 \in Int /\ Len(queue) \in Int
        /\ \A i \in (n + 1)..Len(queue) : queue[i] \in Handlers
    BY <2>1, ElementOfSeq
  <2>3. Rest(n) \in Seq(Handlers)
    BY <2>1, <2>2, SubSeqProperties DEF Rest
  <2>4. First(n) \in Maybe
    BY <2>1 DEF First, Maybe
  <2> QED
    BY <2>3, <2>4
<1>2. \A h \in Handlers : Append(queue, h) \in Seq(Handlers)
  BY AppendProperties DEF TypeOK
<1>3. queue # <<>> => Tail(queue) \in Seq(Handlers)
  BY HeadTailProperties DEF TypeOK
<1> QED
  BY <1>1, <1>2, <1>3

\* Type correctness: every field keeps its type, whatever the interleaving of
\* handlers, clients and cancellations.
THEOREM TypeCorrect == Spec => []TypeOK
<1>1. Init => TypeOK
  <2> SUFFICES ASSUME Init PROVE TypeOK
    OBVIOUS
  <2>1. queue \in Seq(Handlers)
    BY EmptySeq DEF Init
  <2>2. /\ hpc \in [Handlers -> HandlerPCs]
        /\ resp \in [Handlers -> {"", "yes", "no"}]
        /\ bridge \in Maybe
    BY DEF Init, Maybe, HandlerPCs
  <2>3. approvals \in [Images -> Maybe]
    BY DEF Init, Maybe
  <2>4. /\ cpc \in [Clients -> {"idle", "clear", "send"}]
        /\ held \in [Clients -> Maybe]
        /\ verdict \in [Clients -> {"", "yes", "no"}]
        /\ shown \in [Clients -> Maybe]
    BY DEF Init, Maybe
  <2>5. /\ kpc \in [Handlers -> {"none", "missed", "send", "done"}]
        /\ found \in [Handlers -> Maybe]
        /\ \A h \in Handlers : kpc[h] = "send" => found[h] # NoOne
        /\ dismissed \subseteq Handlers /\ consented \subseteq Handlers
    BY DEF Init, Maybe
  <2> QED
    BY <2>1, <2>2, <2>3, <2>4, <2>5 DEF TypeOK
<1>2. TypeOK /\ [Next]_vars => TypeOK'
  <2> SUFFICES ASSUME TypeOK, [Next]_vars PROVE TypeOK'
    OBVIOUS
  <2> USE DEF handlerVars, clientVars, cancelVars, Maybe
  <2>1. ASSUME NEW h \in Handlers, Arrive(h) \/ HandlerNext(h) PROVE TypeOK'
    <3> USE DEF TypeOK, HandlerStep, HandlerPCs, Images
    <3>1. CASE Arrive(h)
      BY <3>1 DEF Arrive
    <3>2. CASE Register(h)
      BY <3>2 DEF Register
    <3>3. CASE Offer(h)
      BY <3>3 DEF Offer
    <3>4. CASE Answered(h)
      BY <3>4 DEF Answered
    <3>5. CASE Unregister(h)
      BY <3>5 DEF Unregister
    <3> QED
      BY <2>1, <3>1, <3>2, <3>3, <3>4, <3>5 DEF HandlerNext
  <2>2. ASSUME NEW h \in Handlers, CancelFinds(h) \/ CancelSend(h) PROVE TypeOK'
    <3>1. CASE CancelFinds(h)
      <4>1. ImageOf[h] \in Images
        BY DEF Images
      <4>2. CASE approvals[ImageOf[h]] = NoOne
        <5>1. /\ kpc' = [kpc EXCEPT ![h] = "missed"]
              /\ UNCHANGED <<hpc, resp, bridge, queue, clientVars, dismissed, found, approvals>>
          BY <3>1, <4>2 DEF CancelFinds
        <5>2. kpc' \in [Handlers -> {"none", "missed", "send", "done"}]
          BY <5>1 DEF TypeOK
        <5>3. \A k \in Handlers : kpc'[k] = "send" => found'[k] # NoOne
          BY <5>1 DEF TypeOK
        <5> QED
          BY <5>1, <5>2, <5>3 DEF TypeOK
      <4>3. CASE approvals[ImageOf[h]] # NoOne
        <5>1. /\ kpc' = [kpc EXCEPT ![h] = "send"]
              /\ found' = [found EXCEPT ![h] = approvals[ImageOf[h]]]
              /\ approvals' = [approvals EXCEPT ![ImageOf[h]] = NoOne]
              /\ UNCHANGED <<hpc, resp, bridge, queue, clientVars, dismissed>>
          BY <3>1, <4>3 DEF CancelFinds
        <5>2. approvals' \in [Images -> Maybe]
          BY <4>1, <5>1 DEF TypeOK
        <5>3. kpc' \in [Handlers -> {"none", "missed", "send", "done"}]
          BY <5>1 DEF TypeOK
        <5>4. found' \in [Handlers -> Maybe]
          BY <4>1, <5>1 DEF TypeOK
        <5>5. \A k \in Handlers : kpc'[k] = "send" => found'[k] # NoOne
          BY <4>3, <5>1 DEF TypeOK
        <5> QED
          BY <5>1, <5>2, <5>3, <5>4, <5>5 DEF TypeOK
      <4> QED
        BY <4>2, <4>3
    <3>2. CASE CancelSend(h)
      BY <3>2, NoOneAssumption DEF CancelSend, Answer, TypeOK
    <3> QED
      BY <2>2, <3>1, <3>2
  <2>3. CASE Store
    BY <2>3, QueueOps DEF Store, TypeOK
  <2>4. ASSUME NEW c \in Clients, Poll(c) PROVE TypeOK'
    BY <2>4, QueueOps DEF Poll, TypeOK
  <2>5. ASSUME NEW c \in Clients, NEW v \in {"yes", "no"}, DecideLoad(c, v)
        PROVE  TypeOK'
    <3>1. /\ UNCHANGED <<hpc, resp, bridge, approvals, kpc, found, dismissed>>
          /\ consented' = IF v = "yes" THEN consented \cup {shown[c]} ELSE consented
          /\ shown' = [shown EXCEPT ![c] = NoOne]
          /\ shown[c] # NoOne
      BY <2>5 DEF DecideLoad
    <3>2. PICK n \in 0..Len(queue) :
            /\ queue' = Rest(n)
            /\ IF First(n) = NoOne THEN UNCHANGED <<cpc, held, verdict>>
               ELSE /\ cpc' = [cpc EXCEPT ![c] = "clear"]
                    /\ held' = [held EXCEPT ![c] = First(n)]
                    /\ verdict' = [verdict EXCEPT ![c] = v]
      BY <2>5 DEF DecideLoad
    <3>3. Rest(n) \in Seq(Handlers) /\ First(n) \in Maybe
      BY QueueOps
    <3>4. /\ cpc' \in [Clients -> {"idle", "clear", "send"}]
          /\ held' \in [Clients -> Maybe]
          /\ verdict' \in [Clients -> {"", "yes", "no"}]
      <4>1. /\ cpc \in [Clients -> {"idle", "clear", "send"}]
            /\ held \in [Clients -> Maybe]
            /\ verdict \in [Clients -> {"", "yes", "no"}]
        BY DEF TypeOK
      <4> QED
        BY ONLY <2>5, <3>2, <3>3, <4>1
    <3>5. shown' \in [Clients -> Maybe]
      BY <3>1 DEF TypeOK, Maybe
    <3>6. consented' \subseteq Handlers
      BY <3>1 DEF TypeOK, Maybe
    <3> QED
      BY <3>1, <3>2, <3>3, <3>4, <3>5, <3>6 DEF TypeOK
  <2>6. ASSUME NEW c \in Clients, DecideClear(c) PROVE TypeOK'
    BY <2>6, QueueOps DEF DecideClear, TypeOK
  <2>7. ASSUME NEW c \in Clients, DecideSend(c) PROVE TypeOK'
    BY <2>7 DEF DecideSend, Answer, TypeOK
  <2>8. CASE UNCHANGED vars
    BY <2>8 DEF vars, TypeOK
  <2> QED
    BY <2>1, <2>2, <2>3, <2>4, <2>5, <2>6, <2>7, <2>8 DEF Next, ClientNext
<1> QED
  BY <1>1, <1>2, PTL DEF Spec

-----------------------------------------------------------------------------
\* A non-blocking send keeps an answer that is already there.
LEMMA AnswerKeeps ==
  ASSUME TypeOK, NEW k, NEW v, Answer(k, v), NEW h \in Handlers
  PROVE  /\ resp[h] # "" => resp'[h] = resp[h]
         /\ h = k => resp'[h] # "" \/ v = ""
  BY DEF Answer, TypeOK

\* The first answer that reaches a Response channel is the one its handler takes:
\* two decisions, or a decision and a cancellation, never overwrite each other.
FirstAnswerWins ==
    [][\A h \in Handlers : resp[h] # "" =>
          \/ resp'[h] = resp[h]
          \/ hpc[h] = "waiting"
             /\ hpc'[h] = (IF resp[h] = "yes" THEN "granted" ELSE "refused")]_vars

\* The first answer that reaches a handler's Response channel is the one the
\* handler takes, whoever else decides or cancels meanwhile.
THEOREM FirstAnswerHolds == Spec => FirstAnswerWins
<1> DEFINE A(h) == resp[h] # "" =>
              \/ resp'[h] = resp[h]
              \/ hpc[h] = "waiting"
                 /\ hpc'[h] = (IF resp[h] = "yes" THEN "granted" ELSE "refused")
<1>1. ASSUME TypeOK, [Next]_vars, NEW h \in Handlers PROVE A(h)
  <2> USE <1>1 DEF handlerVars, clientVars, cancelVars
  <2>1. ASSUME NEW k \in Handlers, Arrive(k) \/ Register(k) \/ Offer(k) \/ Unregister(k)
        PROVE  A(h)
    BY <2>1 DEF Arrive, Register, Offer, Unregister
  <2>2. ASSUME NEW k \in Handlers, Answered(k) PROVE A(h)
    BY <2>2 DEF Answered, HandlerStep, TypeOK
  <2>3. ASSUME NEW k \in Handlers, CancelFinds(k) PROVE A(h)
    BY <2>3 DEF CancelFinds
  <2>4. ASSUME NEW k \in Handlers, CancelSend(k) PROVE A(h)
    BY <2>4, AnswerKeeps DEF CancelSend
  <2>5. CASE Store
    BY <2>5 DEF Store
  <2>6. ASSUME NEW c \in Clients, Poll(c) \/ DecideClear(c) PROVE A(h)
    BY <2>6 DEF Poll, DecideClear
  <2>7. ASSUME NEW c \in Clients, NEW v \in {"yes", "no"}, DecideLoad(c, v)
        PROVE  A(h)
    BY <2>7 DEF DecideLoad
  <2>8. ASSUME NEW c \in Clients, DecideSend(c) PROVE A(h)
    BY <2>8, AnswerKeeps DEF DecideSend
  <2>9. CASE UNCHANGED vars
    BY <2>9 DEF vars
  <2> QED
    BY <2>1, <2>2, <2>3, <2>4, <2>5, <2>6, <2>7, <2>8, <2>9
    DEF Next, HandlerNext, ClientNext
<1>2. TypeOK /\ [Next]_vars => [\A h \in Handlers : A(h)]_vars
  BY <1>1
<1> QED
  BY <1>2, TypeCorrect, PTL DEF Spec, FirstAnswerWins

-----------------------------------------------------------------------------
Blocking == {"offer", "waiting", "granted", "refused"}

\* The record of a handler is there from its registration to its own
\* UnregisterApproval, unless a cancellation took it.
RecordInv ==
    \A h \in Handlers : hpc[h] \in Blocking /\ (\A k \in Handlers : found[k] # h)
                            => approvals[ImageOf[h]] = h

\* A cancellation that has not run has found nothing.
FreshInv == \A h \in Handlers : kpc[h] = "none" => found[h] = NoOne

\* Only the cancellation itself moves found.
LEMMA FreshInvariant == Spec => []FreshInv
<1>1. Init => FreshInv
  BY DEF Init, FreshInv
<1>2. TypeOK /\ FreshInv /\ [Next]_vars => FreshInv'
  <2> SUFFICES ASSUME TypeOK, FreshInv, [Next]_vars PROVE FreshInv'
    OBVIOUS
  <2> USE DEF handlerVars, clientVars, cancelVars
  <2>1. ASSUME NEW h \in Handlers, Arrive(h) \/ HandlerNext(h) PROVE FreshInv'
    BY <2>1 DEF Arrive, HandlerNext, Register, Offer, Answered, Unregister, FreshInv
  <2>2. ASSUME NEW h \in Handlers, CancelFinds(h) \/ CancelSend(h) PROVE FreshInv'
    BY <2>2 DEF CancelFinds, CancelSend, FreshInv, TypeOK
  <2>3. ASSUME NEW c \in Clients, Poll(c) \/ ClientNext(c) PROVE FreshInv'
    BY <2>3 DEF Poll, ClientNext, DecideClear, DecideSend, FreshInv
  <2>4. ASSUME NEW c \in Clients, NEW v \in {"yes", "no"}, DecideLoad(c, v)
        PROVE  FreshInv'
    BY <2>4 DEF DecideLoad, FreshInv
  <2>5. CASE Store \/ UNCHANGED vars
    BY <2>5 DEF Store, vars, FreshInv
  <2> QED
    BY <2>1, <2>2, <2>3, <2>4, <2>5 DEF Next
<1> QED
  BY <1>1, <1>2, TypeCorrect, PTL DEF Spec

\* A handler can be cancelled for as long as it blocks, provided no two requests
\* name the same image (with two, the second registration replaces the first).
THEOREM Cancellable ==
  ASSUME \A h, k \in Handlers : ImageOf[h] = ImageOf[k] => h = k
  PROVE  Spec => []CancellableWhileWaiting
<1>1. Init => RecordInv
  BY DEF Init, RecordInv, Blocking
<1>2. TypeOK /\ FreshInv /\ RecordInv /\ [Next]_vars => RecordInv'
  <2> SUFFICES ASSUME TypeOK, FreshInv, RecordInv, [Next]_vars PROVE RecordInv'
    OBVIOUS
  <2> USE DEF handlerVars, clientVars, cancelVars
  <2>0. \A h \in Handlers : ImageOf[h] \in Images
    BY DEF Images
  <2>1. ASSUME NEW h \in Handlers, Arrive(h) PROVE RecordInv'
    <3>1. /\ hpc'[h] \notin Blocking
          /\ \A k \in Handlers \ {h} : hpc'[k] = hpc[k]
      BY <2>1 DEF Arrive, HandlerStep, Blocking, TypeOK
    <3>2. approvals' = approvals /\ found' = found
      BY <2>1 DEF Arrive
    <3> QED
      BY <3>1, <3>2 DEF RecordInv
  <2>2. ASSUME NEW h \in Handlers, Register(h) PROVE RecordInv'
    <3>1. \A k \in Handlers \ {h} : hpc'[k] = hpc[k]
      BY <2>2 DEF Register, HandlerStep, TypeOK
    <3>2. approvals' = [approvals EXCEPT ![ImageOf[h]] = h] /\ found' = found
      BY <2>2 DEF Register
    <3>3. \A k \in Handlers : ImageOf[k] # ImageOf[h] => approvals'[ImageOf[k]] = approvals[ImageOf[k]]
      BY <2>0, <3>2 DEF TypeOK
    <3>4. approvals'[ImageOf[h]] = h
      BY <2>0, <3>2 DEF TypeOK
    <3> QED
      BY <3>1, <3>2, <3>3, <3>4 DEF RecordInv
  <2>3. ASSUME NEW h \in Handlers, Offer(h) \/ Answered(h) PROVE RecordInv'
    <3>1. /\ hpc[h] \in Blocking
          /\ \A k \in Handlers \ {h} : hpc'[k] = hpc[k]
      BY <2>3 DEF Offer, Answered, HandlerStep, Blocking, TypeOK
    <3>2. approvals' = approvals /\ found' = found
      BY <2>3 DEF Offer, Answered
    <3> QED
      BY <3>1, <3>2 DEF RecordInv
  <2>4. ASSUME NEW h \in Handlers, Unregister(h) PROVE RecordInv'
    <3>1. /\ hpc'[h] \notin Blocking
          /\ \A k \in Handlers \ {h} : hpc'[k] = hpc[k]
      BY <2>4 DEF Unregister, HandlerStep, Blocking, TypeOK
    <3>2. approvals' = [approvals EXCEPT ![ImageOf[h]] = NoOne] /\ found' = found
      BY <2>4 DEF Unregister
    <3>3. \A k \in Handlers : ImageOf[k] # ImageOf[h] => approvals'[ImageOf[k]] = approvals[ImageOf[k]]
      BY <2>0, <3>2 DEF TypeOK
    <3>4. approvals'[ImageOf[h]] = NoOne
      BY <2>0, <3>2 DEF TypeOK
    <3> QED
      BY <3>1, <3>2, <3>3, <3>4 DEF RecordInv
  <2>5. ASSUME NEW h \in Handlers, CancelFinds(h) PROVE RecordInv'
    <3>1. CASE approvals[ImageOf[h]] = NoOne
      BY <2>5, <3>1 DEF CancelFinds, RecordInv, TypeOK
    <3>2. CASE approvals[ImageOf[h]] # NoOne
      <4>1. found' = [found EXCEPT ![h] = approvals[ImageOf[h]]]
        BY <2>5, <3>2 DEF CancelFinds
      <4>2. /\ hpc' = hpc /\ kpc[h] = "none"
            /\ approvals' = [approvals EXCEPT ![ImageOf[h]] = NoOne]
        BY <2>5, <3>2 DEF CancelFinds
      <4> SUFFICES ASSUME NEW g \in Handlers, hpc'[g] \in Blocking,
                          \A k \in Handlers : found'[k] # g
                   PROVE  approvals'[ImageOf[g]] = g
        BY DEF RecordInv
      <4>3. approvals[ImageOf[h]] # g
        BY <4>1 DEF TypeOK
      <4>4. CASE \A k \in Handlers : found[k] # g
        BY <2>0, <4>2, <4>3, <4>4 DEF RecordInv, TypeOK
      <4>5. found[h] = NoOne
        BY <4>2 DEF FreshInv
      <4>6. \A k \in Handlers : found[k] # g
        BY <4>1, <4>5, NoOneAssumption DEF TypeOK
      <4> QED
        BY <4>4, <4>6
    <3> QED
      BY <3>1, <3>2
  <2>6. ASSUME NEW h \in Handlers, CancelSend(h) PROVE RecordInv'
    BY <2>6 DEF CancelSend, RecordInv
  <2>7. CASE Store \/ UNCHANGED vars
    BY <2>7 DEF Store, vars, RecordInv
  <2>8. ASSUME NEW c \in Clients, Poll(c) \/ ClientNext(c) PROVE RecordInv'
    BY <2>8 DEF Poll, ClientNext, DecideClear, DecideSend, RecordInv
  <2>9. ASSUME NEW c \in Clients, NEW v \in {"yes", "no"}, DecideLoad(c, v)
        PROVE  RecordInv'
    BY <2>9 DEF DecideLoad, RecordInv
  <2> QED
    BY <2>1, <2>2, <2>3, <2>4, <2>5, <2>6, <2>7, <2>8, <2>9 DEF Next, HandlerNext
<1>3. RecordInv => CancellableWhileWaiting
  BY DEF RecordInv, CancellableWhileWaiting, Blocking
<1> QED
  BY <1>1, <1>2, <1>3, TypeCorrect, FreshInvariant, PTL DEF Spec

-----------------------------------------------------------------------------
\* A handler that has registered its Response channel.
Registered(h) == hpc[h] \notin {"new", "register"}

\* Whoever a cancellation can reach has registered, and whoever it dismissed has
\* its answer until it takes it.
DismissInv ==
    /\ \A i \in Images : approvals[i] # NoOne => Registered(approvals[i])
    /\ \A k \in Handlers : kpc[k] = "send" => Registered(found[k])
    /\ \A h \in dismissed : /\ Registered(h)
                            /\ hpc[h] \in {"offer", "waiting"} => resp[h] # ""

\* The records, the cancellations and the history name handlers.
LEMMA Reached ==
  ASSUME TypeOK
  PROVE  /\ \A i \in Images : approvals[i] # NoOne => approvals[i] \in Handlers
         /\ \A k \in Handlers : kpc[k] = "send" => found[k] \in Handlers
         /\ dismissed \subseteq Handlers
  BY DEF TypeOK, Maybe

\* A step of a handler that registers nobody, forgets at most a record and takes
\* no answer away from a handler that still waits for it keeps DismissInv.
LEMMA HandlerKeepsDismiss ==
  ASSUME TypeOK, DismissInv,
         UNCHANGED <<kpc, found, dismissed, resp>>,
         \A i \in Images : approvals'[i] \in {approvals[i], NoOne},
         \A g \in Handlers :
             /\ hpc[g] \notin {"new", "register"} => hpc'[g] \notin {"new", "register"}
             /\ hpc'[g] \in {"offer", "waiting"} => hpc[g] \in {"offer", "waiting"}
  PROVE  DismissInv'
<1>1. ASSUME NEW i \in Images, approvals'[i] # NoOne
      PROVE  hpc'[approvals'[i]] \notin {"new", "register"}
  <2>1. approvals'[i] = approvals[i] /\ approvals[i] # NoOne
    BY <1>1
  <2>2. approvals[i] \in Handlers
    BY <2>1, Reached
  <2>3. hpc[approvals[i]] \notin {"new", "register"}
    BY <2>1 DEF DismissInv, Registered
  <2> QED
    BY <2>1, <2>2, <2>3
<1>2. ASSUME NEW k \in Handlers, kpc'[k] = "send"
      PROVE  hpc'[found'[k]] \notin {"new", "register"}
  <2>1. found'[k] = found[k] /\ kpc[k] = "send"
    BY <1>2
  <2>2. found[k] \in Handlers
    BY <2>1, Reached
  <2>3. hpc[found[k]] \notin {"new", "register"}
    BY <2>1 DEF DismissInv, Registered
  <2> QED
    BY <2>1, <2>2, <2>3
<1>3. ASSUME NEW h \in dismissed'
      PROVE  /\ hpc'[h] \notin {"new", "register"}
             /\ hpc'[h] \in {"offer", "waiting"} => resp'[h] # ""
  BY <1>3 DEF DismissInv, Registered, TypeOK
<1> QED
  BY <1>1, <1>2, <1>3 DEF DismissInv, Registered

\* A handler reported as cancelled is never left waiting.
THEOREM DismissedIsAnswered == Spec => []DismissedNeverWaits
<1>1. Init => DismissInv
  <2> SUFFICES ASSUME Init PROVE DismissInv
    OBVIOUS
  <2>1. \A i \in Images : approvals[i] = NoOne
    BY DEF Init
  <2>2. \A k \in Handlers : kpc[k] # "send"
    BY DEF Init
  <2>3. dismissed = {}
    BY DEF Init
  <2> QED
    BY <2>1, <2>2, <2>3 DEF DismissInv
<1>2. TypeOK /\ DismissInv /\ [Next]_vars => DismissInv'
  <2> SUFFICES ASSUME TypeOK, DismissInv, [Next]_vars PROVE DismissInv'
    OBVIOUS
  <2> USE DEF handlerVars, clientVars, cancelVars
  <2>0. \A h \in Handlers : ImageOf[h] \in Images
    BY DEF Images
  <2>1. ASSUME NEW h \in Handlers, Arrive(h) PROVE DismissInv'
    <3>1. /\ hpc'[h] \notin {"offer", "waiting"} /\ ~Registered(h)
          /\ \A k \in Handlers \ {h} : hpc'[k] = hpc[k]
      BY <2>1 DEF Arrive, HandlerStep, Registered, TypeOK
    <3>2. UNCHANGED <<approvals, kpc, found, dismissed, resp>>
      BY <2>1 DEF Arrive
    <3> QED
      <4>1. \A g \in Handlers : Registered(g) => Registered(g)'
        BY <3>1 DEF Registered
      <4>2. \A i \in Images : approvals[i] # NoOne => approvals[i] \in Handlers
        BY DEF TypeOK, Maybe
      <4>3. \A k \in Handlers : kpc[k] = "send" => found[k] \in Handlers
        BY DEF TypeOK, Maybe
      <4>4. \A g \in dismissed : g \in Handlers
        BY DEF TypeOK
      <4>5. \A g \in Handlers : hpc'[g] \in {"offer", "waiting"} => hpc[g] \in {"offer", "waiting"}
        BY <3>1
      <4> QED
        BY <3>2, <4>1, <4>2, <4>3, <4>4, <4>5 DEF DismissInv
  <2>2. ASSUME NEW h \in Handlers, Register(h) PROVE DismissInv'
    <3>1. /\ hpc[h] = "register" /\ hpc'[h] = "offer"
          /\ \A k \in Handlers \ {h} : hpc'[k] = hpc[k]
      BY <2>2 DEF Register, HandlerStep, TypeOK
    <3>2. approvals' = [approvals EXCEPT ![ImageOf[h]] = h]
      BY <2>2 DEF Register
    <3>3. UNCHANGED <<kpc, found, dismissed, resp>>
      BY <2>2 DEF Register
    <3>4. \A g \in Handlers : Registered(g) => hpc'[g] \notin {"new", "register"}
      BY <3>1 DEF Registered
    <3>5. \A i \in Images : approvals'[i] \in {h, approvals[i]}
      BY <3>2 DEF TypeOK
    <3>6. h \notin dismissed
      BY <3>1 DEF DismissInv, Registered
    <3>7. ASSUME NEW i \in Images, approvals'[i] # NoOne
          PROVE  hpc'[approvals'[i]] \notin {"new", "register"}
      <4>1. CASE approvals'[i] = h
        BY <3>1, <4>1
      <4>2. CASE approvals'[i] = approvals[i]
        BY <3>4, <3>7, <4>2, Reached DEF DismissInv
      <4> QED
        BY <3>5, <4>1, <4>2
    <3>8. ASSUME NEW k \in Handlers, kpc'[k] = "send"
          PROVE  hpc'[found'[k]] \notin {"new", "register"}
      BY <3>3, <3>4, <3>8, Reached DEF DismissInv
    <3>9. ASSUME NEW k \in dismissed'
          PROVE  /\ hpc'[k] \notin {"new", "register"}
                 /\ hpc'[k] \in {"offer", "waiting"} => resp'[k] # ""
      BY <3>1, <3>3, <3>4, <3>6, Reached DEF DismissInv
    <3> QED
      BY <3>7, <3>8, <3>9 DEF DismissInv, Registered
  <2>3. ASSUME NEW h \in Handlers, Offer(h) \/ Unregister(h) PROVE DismissInv'
    <3>1. /\ \/ hpc[h] = "offer" /\ hpc'[h] = "waiting"
             \/ hpc'[h] \in {"approved", "rejected"}
          /\ \A k \in Handlers \ {h} : hpc'[k] = hpc[k]
      BY <2>3 DEF Offer, Unregister, HandlerStep, TypeOK
    <3>2. UNCHANGED <<kpc, found, dismissed, resp>>
      BY <2>3 DEF Offer, Unregister
    <3>3. \A i \in Images : approvals'[i] \in {approvals[i], NoOne}
      BY <2>0, <2>3 DEF Offer, Unregister, TypeOK
    <3> QED
      BY <3>1, <3>2, <3>3, HandlerKeepsDismiss
  <2>4. ASSUME NEW h \in Handlers, Answered(h) PROVE DismissInv'
    <3>1. /\ hpc[h] = "waiting" /\ hpc'[h] \in {"granted", "refused"}
          /\ \A k \in Handlers \ {h} : hpc'[k] = hpc[k]
      BY <2>4 DEF Answered, HandlerStep, TypeOK
    <3>2. /\ UNCHANGED <<approvals, kpc, found, dismissed>>
          /\ \A k \in Handlers \ {h} : resp'[k] = resp[k]
      BY <2>4 DEF Answered, TypeOK
    <3>3. \A g \in Handlers : Registered(g) => hpc'[g] \notin {"new", "register"}
      BY <3>1 DEF Registered
    <3>4. ASSUME NEW i \in Images, approvals'[i] # NoOne
          PROVE  hpc'[approvals'[i]] \notin {"new", "register"}
      BY <3>2, <3>3, <3>4, Reached DEF DismissInv
    <3>5. ASSUME NEW k \in Handlers, kpc'[k] = "send"
          PROVE  hpc'[found'[k]] \notin {"new", "register"}
      BY <3>2, <3>3, <3>5, Reached DEF DismissInv
    <3>6. ASSUME NEW k \in dismissed'
          PROVE  /\ hpc'[k] \notin {"new", "register"}
                 /\ hpc'[k] \in {"offer", "waiting"} => resp'[k] # ""
      BY <3>1, <3>2, <3>3, Reached DEF DismissInv
    <3> QED
      BY <3>4, <3>5, <3>6 DEF DismissInv, Registered
  <2>5. ASSUME NEW h \in Handlers, CancelFinds(h) PROVE DismissInv'
    <3>1. CASE approvals[ImageOf[h]] = NoOne
      BY <2>5, <3>1 DEF CancelFinds, DismissInv, Registered, TypeOK
    <3>2. CASE approvals[ImageOf[h]] # NoOne
      <4>1. /\ kpc' = [kpc EXCEPT ![h] = "send"]
            /\ found' = [found EXCEPT ![h] = approvals[ImageOf[h]]]
            /\ approvals' = [approvals EXCEPT ![ImageOf[h]] = NoOne]
            /\ UNCHANGED <<hpc, resp, dismissed>>
        BY <2>5, <3>2 DEF CancelFinds
      <4>2. Registered(approvals[ImageOf[h]])
        BY <2>0, <3>2 DEF DismissInv
      <4>3. \A i \in Images : approvals'[i] # NoOne => approvals'[i] = approvals[i]
        BY <2>0, <4>1 DEF TypeOK
      <4>4. found'[h] = approvals[ImageOf[h]]
        BY <4>1 DEF TypeOK
      <4>5. \A k \in Handlers \ {h} : kpc'[k] = kpc[k] /\ found'[k] = found[k]
        BY <4>1 DEF TypeOK
      <4> QED
        BY <4>1, <4>2, <4>3, <4>4, <4>5 DEF DismissInv, Registered
    <3> QED
      BY <3>1, <3>2
  <2>6. ASSUME NEW h \in Handlers, CancelSend(h) PROVE DismissInv'
    <3>1. kpc[h] = "send" /\ found[h] \in Handlers
      BY <2>6 DEF CancelSend, TypeOK, Maybe
    <3>2. /\ hpc' = hpc /\ approvals' = approvals /\ found' = found
          /\ dismissed' = dismissed \cup {found[h]}
          /\ \A k \in Handlers : kpc'[k] = "send" => kpc[k] = "send"
      BY <2>6 DEF CancelSend, TypeOK
    <3>3. \A g \in Handlers : resp[g] # "" \/ g = found[h] => resp'[g] # ""
      BY <2>6 DEF CancelSend, Answer, TypeOK
    <3> QED
      BY <3>1, <3>2, <3>3 DEF DismissInv, Registered, TypeOK
  <2>7. ASSUME NEW c \in Clients, DecideSend(c) PROVE DismissInv'
    <3>1. \A g \in Handlers : resp[g] # "" => resp'[g] # ""
      BY <2>7, AnswerKeeps DEF DecideSend
    <3>2. UNCHANGED <<hpc, approvals, kpc, found, dismissed>>
      BY <2>7 DEF DecideSend
    <3> QED
      BY <3>1, <3>2 DEF DismissInv, Registered, TypeOK
  <2>8. ASSUME NEW c \in Clients, Poll(c) \/ DecideClear(c) PROVE DismissInv'
    BY <2>8 DEF Poll, DecideClear, DismissInv, Registered
  <2>9. ASSUME NEW c \in Clients, NEW v \in {"yes", "no"}, DecideLoad(c, v)
        PROVE  DismissInv'
    BY <2>9 DEF DecideLoad, DismissInv, Registered
  <2>10. CASE Store \/ UNCHANGED vars
    BY <2>10 DEF Store, vars, DismissInv, Registered
  <2> QED
    BY <2>1, <2>2, <2>3, <2>4, <2>5, <2>6, <2>7, <2>8, <2>9, <2>10
    DEF Next, HandlerNext, ClientNext
<1>3. DismissInv => DismissedNeverWaits
  BY DEF DismissInv, DismissedNeverWaits
<1> QED
  BY <1>1, <1>2, <1>3, TypeCorrect, PTL DEF Spec
-----------------------------------------------------------------------------
\* What Load keeps: the elements after the first n.
LEMMA RestElements ==
  ASSUME TypeOK, NEW n \in 0..Len(queue)
  PROVE  /\ Rest(n) \in Seq(Handlers)
         /\ Len(Rest(n)) = Len(queue) - n
         /\ \A i \in 1..(Len(queue) - n) : Rest(n)[i] = queue[n + i]
<1>1. queue \in Seq(Handlers) /\ Len(queue) \in Nat /\ n \in Nat /\ n <= Len(queue)
  <2>1. queue \in Seq(Handlers)
    BY DEF TypeOK
  <2>2. Len(queue) \in Nat
    BY <2>1, LenProperties
  <2> QED
    BY <2>1, <2>2
<1>2. \A i \in (n + 1)..Len(queue) : queue[i] \in Handlers
  BY <1>1, ElementOfSeq
<1>3. n + 1 \in Int /\ Len(queue) \in Int
  BY <1>1
<1>4. /\ Rest(n) \in Seq(Handlers)
      /\ Len(Rest(n)) = IF n + 1 <= Len(queue) THEN Len(queue) - (n + 1) + 1 ELSE 0
      /\ \A i \in 1..(Len(queue) - (n + 1) + 1) : Rest(n)[i] = queue[n + 1 + i - 1]
  BY <1>2, <1>3, SubSeqProperties DEF Rest
<1>5. Len(queue) - (n + 1) + 1 = Len(queue) - n
  BY <1>1
<1>6. \A i \in 1..(Len(queue) - n) : n + 1 + i - 1 = n + i
  BY <1>1
<1>7. Len(Rest(n)) = Len(queue) - n
  BY <1>1, <1>4
<1> QED
  BY <1>4, <1>5, <1>6, <1>7

\* Positions after the first n have been dropped.
LEMMA Shift ==
  ASSUME NEW l, NEW n, NEW i, l \in Nat, n \in 0..l, i \in 1..l, ~(i \in 1..n)
  PROVE  i - n \in 1..(l - n) /\ n + (i - n) = i /\ (i = 1 => n = 0)
OBVIOUS

\* A request still without an answer survives a Load, and one at the head stays
\* at the head.
LEMMA LoadKeeps ==
  ASSUME TypeOK, NEW n \in 0..Len(queue), LoadSkips(n),
         NEW i \in DOMAIN queue, resp[queue[i]] = ""
  PROVE  /\ i - n \in DOMAIN Rest(n)
         /\ Rest(n)[i - n] = queue[i]
         /\ i = 1 => n = 0
<1>1. Len(queue) \in Nat /\ DOMAIN queue = 1..Len(queue)
  <2>1. queue \in Seq(Handlers)
    BY DEF TypeOK
  <2> QED
    BY <2>1, LenProperties
<1>2. i \notin 1..n
  BY DEF LoadSkips
<1>3. /\ i - n \in 1..(Len(queue) - n)
      /\ n + (i - n) = i
      /\ i = 1 => n = 0
  <2>1. Len(queue) \in Nat /\ n \in 0..Len(queue) /\ i \in 1..Len(queue)
    BY <1>1
  <2> QED
    BY ONLY <2>1, <1>2, Shift
<1>4. /\ Rest(n) \in Seq(Handlers) /\ Len(Rest(n)) = Len(queue) - n
      /\ \A j \in 1..(Len(queue) - n) : Rest(n)[j] = queue[n + j]
  BY RestElements
<1>5. DOMAIN Rest(n) = 1..(Len(queue) - n)
  BY <1>4, LenProperties
<1> QED
  BY <1>3, <1>4, <1>5

\* The only client clears the request it loaded, which no one else can pop.
OneDecider(c) ==
    /\ \A h \in Handlers : kpc[h] = "none"
    /\ cpc[c] # "idle" => held[c] \in Handlers /\ verdict[c] # ""
    /\ cpc[c] = "clear" =>
          1 \in DOMAIN queue /\ queue[1] = held[c] /\ resp[held[c]] = ""
    /\ \A h \in Handlers : hpc[h] = "waiting" =>
          \/ resp[h] # "" \/ bridge = h \/ InQueue(h)
          \/ cpc[c] # "idle" /\ held[c] = h

\* A Load loses no pending request of a handler without an answer.
LEMMA LoadLosesNone ==
  ASSUME TypeOK, NEW n \in 0..Len(queue), LoadSkips(n), queue' = Rest(n),
         NEW h \in Handlers, resp[h] = "", InQueue(h)
  PROVE  InQueue(h)'
<1>1. PICK i \in DOMAIN queue : queue[i] = h
  BY DEF InQueue
<1>2. i - n \in DOMAIN Rest(n) /\ Rest(n)[i - n] = h
  BY <1>1, LoadKeeps
<1> QED
  BY <1>2 DEF InQueue

\* A Load leaves a request without an answer at the head where it is.
LEMMA LoadKeepsHead ==
  ASSUME TypeOK, NEW n \in 0..Len(queue), LoadSkips(n), queue' = Rest(n),
         1 \in DOMAIN queue, resp[queue[1]] = ""
  PROVE  1 \in DOMAIN queue' /\ queue'[1] = queue[1]
<1>1. 1 - n \in DOMAIN Rest(n) /\ Rest(n)[1 - n] = queue[1] /\ n = 0
  BY LoadKeeps
<1>2. 1 - n = 1
  BY ONLY <1>1
<1> QED
  BY <1>1, <1>2

\* The request Load returns is the new head.
LEMMA RestHead ==
  ASSUME TypeOK, NEW n \in 0..Len(queue), n < Len(queue)
  PROVE  1 \in DOMAIN Rest(n) /\ Rest(n)[1] = queue[n + 1]
<1>1. /\ Rest(n) \in Seq(Handlers) /\ Len(Rest(n)) = Len(queue) - n
      /\ \A i \in 1..(Len(queue) - n) : Rest(n)[i] = queue[n + i]
  BY RestElements
<1>2. Len(queue) \in Nat
  <2>1. queue \in Seq(Handlers)
    BY DEF TypeOK
  <2> QED
    BY <2>1, LenProperties
<1>3. 1 \in 1..(Len(queue) - n)
  BY <1>2
<1>4. DOMAIN Rest(n) = 1..(Len(queue) - n)
  BY <1>1, LenProperties
<1> QED
  BY <1>1, <1>3, <1>4

\* A Tail drops the first element only.
LEMMA TailKeeps ==
  ASSUME queue \in Seq(Handlers), queue # <<>>, NEW i \in DOMAIN queue
  PROVE  i # 1 => i - 1 \in DOMAIN Tail(queue) /\ Tail(queue)[i - 1] = queue[i]
<1>1. Len(queue) \in Nat /\ DOMAIN queue = 1..Len(queue)
  BY LenProperties
<1>2. /\ Tail(queue) \in Seq(Handlers) /\ Len(Tail(queue)) = Len(queue) - 1
      /\ \A j \in 1..Len(Tail(queue)) : Tail(queue)[j] = queue[j + 1]
  BY HeadTailProperties
<1>3. DOMAIN Tail(queue) = 1..(Len(queue) - 1)
  BY <1>2, LenProperties
<1>4. i \in 1..Len(queue)
  BY <1>1
<1>5. i # 1 => i - 1 \in 1..(Len(queue) - 1) /\ (i - 1) + 1 = i
  BY ONLY <1>1, <1>4
<1>6. \A j \in 1..(Len(queue) - 1) : Tail(queue)[j] = queue[j + 1]
  BY ONLY <1>2
<1> DEFINE j == i - 1
<1>7. i # 1 => j \in 1..(Len(queue) - 1) /\ j + 1 = i
  BY <1>5
<1> HIDE DEF j
<1>8. i # 1 => j \in DOMAIN Tail(queue) /\ Tail(queue)[j] = queue[i]
  BY ONLY <1>3, <1>6, <1>7
<1> QED
  BY <1>8 DEF j

\* Store leaves every queued request where it is and puts the bridge's behind them.
LEMMA StoreAppends ==
  ASSUME TypeOK, Store
  PROVE  /\ \A h \in Handlers : InQueue(h) \/ bridge = h => InQueue(h)'
         /\ 1 \in DOMAIN queue => 1 \in DOMAIN queue' /\ queue'[1] = queue[1]
<1>1. queue' = Append(queue, bridge) /\ bridge \in Handlers
  BY DEF Store, TypeOK, Maybe
<1>2. /\ Len(queue) \in Nat /\ DOMAIN queue = 1..Len(queue)
      /\ DOMAIN queue' = 1..(Len(queue) + 1)
      /\ queue'[Len(queue) + 1] = bridge
      /\ \A i \in 1..Len(queue) : queue'[i] = queue[i]
  <2>1. queue \in Seq(Handlers)
    BY DEF TypeOK
  <2>2. queue' \in Seq(Handlers) /\ Len(queue') = Len(queue) + 1
    BY <1>1, <2>1, AppendProperties
  <2> QED
    BY <1>1, <2>1, <2>2, AppendProperties, LenProperties
<1>3. DOMAIN queue \subseteq DOMAIN queue' /\ Len(queue) + 1 \in DOMAIN queue'
  BY ONLY <1>2
<1> QED
  BY <1>2, <1>3 DEF InQueue

\* With one client and no cancellation nobody interferes between its Load and Clear.
LEMMA DeciderHolds ==
  ASSUME NEW c, Clients = {c}, MayCancel = FALSE
  PROVE  Spec => []OneDecider(c)
<1>1. Init => OneDecider(c)
  BY DEF Init, OneDecider
<1>2. TypeOK /\ OneDecider(c) /\ [Next]_vars => OneDecider(c)'
  <2> SUFFICES ASSUME TypeOK, OneDecider(c), [Next]_vars PROVE OneDecider(c)'
    OBVIOUS
  <2> USE DEF handlerVars, clientVars, cancelVars
  <2>0. c \in Clients
    OBVIOUS
  <2>1. ASSUME NEW h \in Handlers, Arrive(h) \/ Register(h) \/ Unregister(h)
        PROVE  OneDecider(c)'
    <3>1. \A k \in Handlers : hpc'[k] = "waiting" => hpc[k] = "waiting"
      BY <2>1 DEF Arrive, Register, Unregister, HandlerStep, TypeOK
    <3>2. UNCHANGED <<resp, bridge, queue, clientVars, kpc>>
      BY <2>1 DEF Arrive, Register, Unregister
    <3> QED
      BY <3>1, <3>2 DEF OneDecider, InQueue
  <2>2. ASSUME NEW h \in Handlers, Offer(h) PROVE OneDecider(c)'
    <3>1. /\ bridge = NoOne /\ bridge' = h
          /\ \A k \in Handlers \ {h} : hpc'[k] = hpc[k]
          /\ UNCHANGED <<resp, queue, clientVars, kpc>>
      BY <2>2 DEF Offer, HandlerStep, TypeOK
    <3>2. \A k \in Handlers : k # NoOne
      BY NoOneAssumption
    <3> QED
      BY <3>1, <3>2 DEF OneDecider, InQueue
  <2>3. ASSUME NEW h \in Handlers, Answered(h) PROVE OneDecider(c)'
    <3>1. /\ hpc[h] = "waiting" /\ hpc'[h] # "waiting" /\ resp[h] # ""
          /\ \A k \in Handlers \ {h} : hpc'[k] = hpc[k] /\ resp'[k] = resp[k]
          /\ UNCHANGED <<bridge, queue, clientVars, kpc>>
      BY <2>3 DEF Answered, HandlerStep, TypeOK
    <3> QED
      BY <3>1 DEF OneDecider, InQueue
  <2>4. ASSUME NEW h \in Handlers, CancelFinds(h) \/ CancelSend(h)
        PROVE  OneDecider(c)'
    BY <2>4 DEF CancelFinds, CancelSend, OneDecider
  <2>5. CASE Store
    <3>1. UNCHANGED <<hpc, resp, cpc, held, verdict, kpc>>
      BY <2>5 DEF Store
    <3> QED
      BY <2>5, <3>1, StoreAppends DEF OneDecider
  <2>6. ASSUME Poll(c) PROVE OneDecider(c)'
    BY <2>6, LoadLosesNone, LoadKeepsHead DEF Poll, OneDecider
  <2>7. ASSUME NEW v \in {"yes", "no"}, DecideLoad(c, v) PROVE OneDecider(c)'
    <3>1. /\ cpc[c] = "idle"
          /\ UNCHANGED <<hpc, resp, bridge, kpc>>
      BY <2>7 DEF DecideLoad
    <3>2. PICK n \in 0..Len(queue) :
            /\ LoadSkips(n) /\ queue' = Rest(n)
            /\ IF First(n) = NoOne THEN UNCHANGED <<cpc, held, verdict>>
               ELSE /\ cpc' = [cpc EXCEPT ![c] = "clear"]
                    /\ held' = [held EXCEPT ![c] = First(n)]
                    /\ verdict' = [verdict EXCEPT ![c] = v]
      BY <2>7 DEF DecideLoad
    <3>3. \A h \in Handlers : resp[h] = "" /\ InQueue(h) => InQueue(h)'
      BY <3>2, LoadLosesNone
    <3>4. CASE First(n) = NoOne
      BY <3>1, <3>2, <3>3, <3>4 DEF OneDecider
    <3>5. CASE First(n) # NoOne
      <4>1. cpc'[c] = "clear" /\ held'[c] = First(n) /\ verdict'[c] = v
        BY <2>0, <3>2, <3>5 DEF TypeOK
      <4>2. n < Len(queue) /\ First(n) = queue[n + 1]
        BY <3>5 DEF First
      <4>3. resp[First(n)] = ""
        BY <3>2, <4>2 DEF LoadSkips
      <4>4. First(n) \in Handlers
        BY <3>5, QueueOps DEF Maybe
      <4>5. 1 \in DOMAIN queue' /\ queue'[1] = First(n)
        BY <3>2, <4>2, RestHead
      <4>6. v # ""
        OBVIOUS
      <4> QED
        BY <3>1, <3>3, <4>1, <4>3, <4>4, <4>5, <4>6 DEF OneDecider
    <3> QED
      BY <3>4, <3>5
  <2>8. ASSUME DecideClear(c) PROVE OneDecider(c)'
    <3>1. /\ cpc[c] = "clear" /\ cpc'[c] = "send"
          /\ UNCHANGED <<hpc, resp, bridge, held, verdict, kpc>>
      BY <2>0, <2>8 DEF DecideClear, TypeOK
    <3>2. /\ queue \in Seq(Handlers) /\ 1 \in DOMAIN queue /\ queue[1] = held[c]
      BY <3>1 DEF OneDecider, TypeOK
    <3>3. queue # <<>> /\ queue' = Tail(queue)
      BY <2>8, <3>2 DEF DecideClear
    <3>4. \A h \in Handlers : InQueue(h) => held[c] = h \/ InQueue(h)'
      BY <3>2, <3>3, TailKeeps DEF InQueue
    <3> QED
      BY <3>1, <3>4 DEF OneDecider
  <2>9. ASSUME DecideSend(c) PROVE OneDecider(c)'
    <3>1. /\ cpc[c] = "send" /\ cpc'[c] = "idle"
          /\ UNCHANGED <<hpc, bridge, queue, kpc>>
      BY <2>0, <2>9 DEF DecideSend, TypeOK
    <3>2. resp'[held[c]] # ""
      BY <2>9, <3>1 DEF DecideSend, Answer, OneDecider, TypeOK
    <3>3. \A h \in Handlers : resp[h] # "" => resp'[h] # ""
      BY <2>9 DEF DecideSend, Answer, TypeOK
    <3> QED
      BY <3>1, <3>2, <3>3 DEF OneDecider, InQueue
  <2>10. CASE UNCHANGED vars
    BY <2>10 DEF vars, OneDecider, InQueue
  <2> QED
    BY <2>1, <2>2, <2>3, <2>4, <2>5, <2>6, <2>7, <2>8, <2>9, <2>10
    DEF Next, HandlerNext, ClientNext
<1> QED
  BY <1>1, <1>2, TypeCorrect, PTL DEF Spec

\* With one client and no cancellation every blocked request can still be decided.
THEOREM NoneOrphaned ==
  ASSUME NEW c, Clients = {c}, MayCancel = FALSE
  PROVE  Spec => []NoOrphan
<1>1. OneDecider(c) => NoOrphan
  BY DEF OneDecider, NoOrphan
<1> QED
  BY <1>1, DeciderHolds, PTL

-----------------------------------------------------------------------------
\* The safety half of EveryRequestDecided: a request that waits unanswered in the queue
\* keeps its place or moves forward, nobody overtakes it, every decision brings it
\* nearer to the head by a place, and it leaves from there into the client's hands.
InTurnStep(i) ==
    IF \E d \in Clients : DecideClear(d)
    THEN IF i = 1 THEN \E d \in Clients : cpc'[d] = "send" /\ held'[d] = queue[i]
                  ELSE i - 1 \in DOMAIN queue' /\ queue'[i - 1] = queue[i]
    ELSE \E j \in DOMAIN queue' : j <= i /\ queue'[j] = queue[i]
ServedInTurn ==
    [][\A i \in DOMAIN queue : resp[queue[i]] = "" => InTurnStep(i)]_vars

\* Store puts a request behind all others.
LEMMA StoreBehind ==
  ASSUME TypeOK, Store, NEW i \in DOMAIN queue
  PROVE  i \in DOMAIN queue' /\ queue'[i] = queue[i]
<1>1. queue \in Seq(Handlers) /\ queue' = Append(queue, bridge) /\ bridge \in Handlers
  BY DEF Store, TypeOK, Maybe
<1>2. queue' \in Seq(Handlers) /\ Len(queue') = Len(queue) + 1
  BY <1>1, AppendProperties
<1>3. DOMAIN queue' = 1..(Len(queue) + 1) /\ DOMAIN queue = 1..Len(queue) /\ Len(queue) \in Nat
  BY <1>1, <1>2, LenProperties
<1>4. i \in 1..Len(queue) /\ i \in 1..(Len(queue) + 1)
  BY ONLY <1>3
<1> QED
  BY <1>1, <1>3, <1>4, AppendProperties

\* With one client and no cancellation requests are decided in the order they came.
THEOREM InTurn ==
  ASSUME NEW c, Clients = {c}, MayCancel = FALSE
  PROVE  Spec => ServedInTurn
<1>1. ASSUME TypeOK, OneDecider(c), [Next]_vars, NEW i \in DOMAIN queue, resp[queue[i]] = ""
      PROVE  InTurnStep(i)
  <2> USE DEF handlerVars, clientVars, cancelVars
  <2>0. queue \in Seq(Handlers) /\ DOMAIN queue = 1..Len(queue) /\ Len(queue) \in Nat /\ i \in Nat
    <3>1. queue \in Seq(Handlers)
      BY <1>1 DEF TypeOK
    <3>2. DOMAIN queue = 1..Len(queue) /\ Len(queue) \in Nat
      BY <3>1, LenProperties
    <3>3. i \in Nat
      BY <3>2
    <3> QED
      BY <3>1, <3>2, <3>3
  <2>1. CASE DecideClear(c)
    <3>1. cpc[c] = "clear" /\ cpc'[c] = "send" /\ held' = held
      BY <1>1, <2>1 DEF DecideClear, TypeOK
    <3>2. queue[1] = held[c]
      BY <1>1, <3>1 DEF OneDecider
    <3>3. queue # <<>>
      BY <2>0, EmptySeq, LenProperties
    <3>4. queue' = Tail(queue)
      BY <2>1, <3>3 DEF DecideClear
    <3>5. i # 1 => i - 1 \in DOMAIN queue' /\ queue'[i - 1] = queue[i]
      BY <2>0, <3>3, <3>4, TailKeeps
    <3> QED
      BY <2>1, <3>1, <3>2, <3>5 DEF InTurnStep
  <2>2. CASE ~DecideClear(c)
    <3>1. ASSUME UNCHANGED queue PROVE \E j \in DOMAIN queue' : j <= i /\ queue'[j] = queue[i]
      BY <2>0, <3>1
    <3>2. ASSUME Store PROVE \E j \in DOMAIN queue' : j <= i /\ queue'[j] = queue[i]
      <4>1. i \in DOMAIN queue' /\ queue'[i] = queue[i]
        BY <1>1, <3>2, StoreBehind
      <4>2. i <= i
        BY <2>0
      <4> QED
        BY <4>1, <4>2
    <3>3. ASSUME NEW n \in 0..Len(queue), LoadSkips(n), queue' = Rest(n)
          PROVE  \E j \in DOMAIN queue' : j <= i /\ queue'[j] = queue[i]
      <4>1. i - n \in DOMAIN queue' /\ queue'[i - n] = queue[i]
        BY <1>1, <3>3, LoadKeeps
      <4>2. i - n <= i
        BY <2>0
      <4> QED
        BY <4>1, <4>2
    <3>4. ASSUME Poll(c) PROVE \E n \in 0..Len(queue) : LoadSkips(n) /\ queue' = Rest(n)
      BY <3>4 DEF Poll
    <3>5. ASSUME NEW v \in {"yes", "no"}, DecideLoad(c, v)
          PROVE  \E n \in 0..Len(queue) : LoadSkips(n) /\ queue' = Rest(n)
      BY <3>5 DEF DecideLoad
    <3>6. \E j \in DOMAIN queue' : j <= i /\ queue'[j] = queue[i]
      BY <1>1, <2>2, <3>1, <3>2, <3>3, <3>4, <3>5
      DEF Next, vars, Arrive, HandlerNext, Register, Offer, Answered, Unregister, CancelFinds,
          CancelSend, ClientNext, DecideSend
    <3> QED
      BY <2>2, <3>6 DEF InTurnStep
  <2> QED
    BY <2>1, <2>2
<1>2. TypeOK /\ OneDecider(c) /\ [Next]_vars =>
        [\A i \in DOMAIN queue : resp[queue[i]] = "" => InTurnStep(i)]_vars
  BY <1>1
<1> QED
  BY <1>2, DeciderHolds, TypeCorrect, PTL DEF Spec, ServedInTurn

-----------------------------------------------------------------------------
\* A yes is on its way only to a request its user was looking at, and what the
\* dialog shows between two decisions is the head of the queue, unanswered.
ConsentInv(c) ==
    /\ \A h \in Handlers : resp[h] = "yes" \/ hpc[h] = "granted" => h \in consented
    /\ cpc[c] # "idle" /\ verdict[c] = "yes" => held[c] \in consented
    /\ cpc[c] = "idle" /\ shown[c] # NoOne =>
          1 \in DOMAIN queue /\ queue[1] = shown[c] /\ resp[shown[c]] = ""

\* With one client and no cancellation an approval always reaches the request its
\* user was looking at: the queue does not move between the poll and the decision.
THEOREM ApprovalIsExplicit ==
  ASSUME NEW c, Clients = {c}, MayCancel = FALSE
  PROVE  Spec => []ExplicitApproval
<1>1. Init => ConsentInv(c)
  BY DEF Init, ConsentInv
<1>2. TypeOK /\ OneDecider(c) /\ ConsentInv(c) /\ [Next]_vars => ConsentInv(c)'
  <2> SUFFICES ASSUME TypeOK, OneDecider(c), ConsentInv(c), [Next]_vars
               PROVE  ConsentInv(c)'
    OBVIOUS
  <2> USE DEF handlerVars, clientVars, cancelVars
  <2>0. c \in Clients
    OBVIOUS
  <2>1. ASSUME NEW h \in Handlers, Arrive(h) \/ Register(h) \/ Offer(h) \/ Unregister(h)
        PROVE  ConsentInv(c)'
    <3>1. \A k \in Handlers : hpc'[k] = "granted" => hpc[k] = "granted"
      BY <2>1 DEF Arrive, Register, Offer, Unregister, HandlerStep, TypeOK
    <3>2. UNCHANGED <<resp, queue, clientVars>>
      BY <2>1 DEF Arrive, Register, Offer, Unregister
    <3> QED
      BY <3>1, <3>2 DEF ConsentInv
  <2>2. ASSUME NEW h \in Handlers, Answered(h) PROVE ConsentInv(c)'
    <3>1. /\ hpc'[h] = "granted" => resp[h] = "yes"
          /\ resp[h] # "" /\ resp'[h] = ""
          /\ \A k \in Handlers \ {h} : hpc'[k] = hpc[k] /\ resp'[k] = resp[k]
          /\ UNCHANGED <<queue, clientVars>>
      BY <2>2 DEF Answered, HandlerStep, TypeOK
    <3>2. shown[c] # NoOne => shown[c] \in Handlers
      BY <2>0 DEF TypeOK, Maybe
    <3> QED
      BY <3>1, <3>2 DEF ConsentInv
  <2>3. ASSUME NEW h \in Handlers, CancelFinds(h) \/ CancelSend(h)
        PROVE  ConsentInv(c)'
    BY <2>3 DEF CancelFinds, CancelSend, OneDecider
  <2>4. CASE Store
    <3>1. UNCHANGED <<hpc, resp, cpc, held, verdict, shown, consented>>
      BY <2>4 DEF Store
    <3> QED
      BY <2>4, <3>1, StoreAppends DEF ConsentInv
  <2>5. ASSUME Poll(c) PROVE ConsentInv(c)'
    <3>1. PICK n \in 0..Len(queue) : /\ LoadSkips(n) /\ queue' = Rest(n)
                                     /\ shown' = [shown EXCEPT ![c] = First(n)]
      BY <2>5 DEF Poll
    <3>2. UNCHANGED <<hpc, resp, cpc, held, verdict, consented>>
      BY <2>5 DEF Poll
    <3>3. shown'[c] = First(n)
      BY <2>0, <3>1 DEF TypeOK
    <3>4. ASSUME First(n) # NoOne
          PROVE  1 \in DOMAIN queue' /\ queue'[1] = First(n) /\ resp[First(n)] = ""
      <4>1. n < Len(queue) /\ First(n) = queue[n + 1]
        BY <3>4 DEF First
      <4> QED
        BY <3>1, <4>1, RestHead DEF LoadSkips
    <3> QED
      BY <3>2, <3>3, <3>4 DEF ConsentInv
  <2>6. ASSUME NEW v \in {"yes", "no"}, DecideLoad(c, v) PROVE ConsentInv(c)'
    <3>1. /\ cpc[c] = "idle" /\ shown[c] # NoOne /\ shown' = [shown EXCEPT ![c] = NoOne]
          /\ consented' = (IF v = "yes" THEN consented \cup {shown[c]} ELSE consented)
          /\ UNCHANGED <<hpc, resp>>
      BY <2>6 DEF DecideLoad
    <3>2. PICK n \in 0..Len(queue) :
            /\ LoadSkips(n) /\ queue' = Rest(n)
            /\ IF First(n) = NoOne THEN UNCHANGED <<cpc, held, verdict>>
               ELSE /\ cpc' = [cpc EXCEPT ![c] = "clear"]
                    /\ held' = [held EXCEPT ![c] = First(n)]
                    /\ verdict' = [verdict EXCEPT ![c] = v]
      BY <2>6 DEF DecideLoad
    <3>3. shown'[c] = NoOne /\ consented \subseteq consented'
      BY <2>0, <3>1 DEF TypeOK
    <3>4. First(n) = shown[c]
      <4>1. 1 \in DOMAIN queue /\ queue[1] = shown[c] /\ resp[queue[1]] = ""
        BY <3>1 DEF ConsentInv
      <4>2. n = 0
        BY <3>2, <4>1, LoadKeeps
      <4>3. Len(queue) \in Nat /\ DOMAIN queue = 1..Len(queue)
        <5>1. queue \in Seq(Handlers)
          BY DEF TypeOK
        <5> QED
          BY <5>1, LenProperties
      <4>4. n < Len(queue) /\ n + 1 = 1
        <5>1. Len(queue) \in Nat /\ 1 \in 1..Len(queue)
          BY <4>1, <4>3
        <5> QED
          BY <4>2, <5>1
      <4> QED
        BY <4>1, <4>4 DEF First
    <3>5. cpc'[c] = "clear" /\ held'[c] = shown[c] /\ verdict'[c] = v
      BY <2>0, <3>1, <3>2, <3>4 DEF TypeOK
    <3> QED
      BY <3>1, <3>3, <3>5 DEF ConsentInv
  <2>7. ASSUME DecideClear(c) PROVE ConsentInv(c)'
    <3>1. /\ cpc[c] # "idle" /\ cpc'[c] # "idle"
          /\ UNCHANGED <<hpc, resp, held, verdict, shown, consented>>
      BY <2>0, <2>7 DEF DecideClear, TypeOK
    <3> QED
      BY <3>1 DEF ConsentInv
  <2>8. ASSUME DecideSend(c) PROVE ConsentInv(c)'
    <3>1. /\ cpc[c] # "idle" /\ cpc'[c] = "idle" /\ shown'[c] = NoOne
          /\ UNCHANGED <<hpc, consented>>
      BY <2>0, <2>8 DEF DecideSend, TypeOK
    <3>2. \A h \in Handlers :
            resp'[h] = "yes" => resp[h] = "yes" \/ (h = held[c] /\ verdict[c] = "yes")
      BY <2>8 DEF DecideSend, Answer, TypeOK
    <3> QED
      BY <3>1, <3>2 DEF ConsentInv
  <2>9. CASE UNCHANGED vars
    BY <2>9 DEF vars, ConsentInv
  <2> QED
    BY <2>1, <2>2, <2>3, <2>4, <2>5, <2>6, <2>7, <2>8, <2>9
    DEF Next, HandlerNext, ClientNext
<1>3. ConsentInv(c) => ExplicitApproval
  BY DEF ConsentInv, ExplicitApproval
<1> QED
  BY <1>1, <1>2, <1>3, TypeCorrect, DeciderHolds, PTL DEF Spec


-----------------------------------------------------------------------------
(* The queue implements the approval.                                        *)

\* Who has registered, or was let in without.
Known == {h \in Handlers : hpc[h] \notin {"new", "register"}}

\* Nobody knows of a request, or has answered it, before its handler has registered.
KnownInv ==
    /\ \A i \in DOMAIN queue : queue[i] \in Known
    /\ bridge \in Known \cup {NoOne}
    /\ \A c \in Clients : held[c] \in Known \cup {NoOne}
    /\ \A i \in Images : approvals[i] \in Known \cup {NoOne}
    /\ \A k \in Handlers : found[k] \in Known \cup {NoOne}
    /\ \A h \in Handlers \ Known : resp[h] = ""

\* What Load leaves in the queue, and what it returns, was in it.
LEMMA LoadFrom ==
  ASSUME TypeOK, NEW n \in 0..Len(queue)
  PROVE  /\ \A i \in DOMAIN Rest(n) : \E j \in DOMAIN queue : Rest(n)[i] = queue[j]
         /\ First(n) = NoOne \/ \E j \in DOMAIN queue : First(n) = queue[j]
<1>1. Len(queue) \in Nat /\ DOMAIN queue = 1..Len(queue)
  BY LenProperties DEF TypeOK
<1>2. DOMAIN Rest(n) = 1..(Len(queue) - n)
  <2>1. Rest(n) \in Seq(Handlers) /\ Len(Rest(n)) = Len(queue) - n
    BY RestElements
  <2> QED
    BY <2>1, LenProperties
<1>3. \A i \in 1..(Len(queue) - n) : n + i \in 1..Len(queue)
  BY <1>1
<1>4. \A i \in DOMAIN Rest(n) : \E j \in DOMAIN queue : Rest(n)[i] = queue[j]
  BY <1>1, <1>2, <1>3, RestElements
<1>5. n < Len(queue) => n + 1 \in DOMAIN queue
  BY <1>1
<1> QED
  BY <1>4, <1>5 DEF First

\* What is in the queue after a step was there before, or in the bridge.
LEMMA QueueFrom ==
  ASSUME TypeOK, [Next]_vars, NEW i \in DOMAIN queue'
  PROVE  queue'[i] = bridge \/ \E j \in DOMAIN queue : queue'[i] = queue[j]
<1> USE DEF handlerVars, clientVars, cancelVars
<1>1. CASE UNCHANGED queue
  BY <1>1
<1>2. CASE Store
  <2>1. queue \in Seq(Handlers) /\ queue' = Append(queue, bridge) /\ bridge \in Handlers
    BY <1>2 DEF Store, TypeOK, Maybe
  <2>2. queue' \in Seq(Handlers) /\ Len(queue') = Len(queue) + 1
    BY <2>1, AppendProperties
  <2>3. DOMAIN queue' = 1..(Len(queue) + 1) /\ DOMAIN queue = 1..Len(queue) /\ Len(queue) \in Nat
    BY <2>1, <2>2, LenProperties
  <2>4. i = Len(queue) + 1 \/ i \in 1..Len(queue)
    BY <2>3
  <2> QED
    BY <2>1, <2>3, <2>4, AppendProperties
<1>3. ASSUME NEW n \in 0..Len(queue), queue' = Rest(n)
      PROVE  \E j \in DOMAIN queue : queue'[i] = queue[j]
  BY <1>3, LoadFrom
<1>4. ASSUME NEW c \in Clients, DecideClear(c)
      PROVE  \E j \in DOMAIN queue : queue'[i] = queue[j]
  <2>1. /\ queue \in Seq(Handlers)
        /\ queue' = queue \/ (queue # <<>> /\ queue' = Tail(queue))
    BY <1>4 DEF DecideClear, TypeOK
  <2>2. CASE queue # <<>> /\ queue' = Tail(queue)
    <3>1. queue' \in Seq(Handlers) /\ Len(queue') = Len(queue) - 1
      BY <2>1, <2>2, HeadTailProperties
    <3>2. DOMAIN queue' = 1..(Len(queue) - 1) /\ DOMAIN queue = 1..Len(queue) /\ Len(queue) \in Nat
      BY <2>1, <3>1, LenProperties
    <3>3. i + 1 \in DOMAIN queue
      BY <3>2
    <3>4. queue'[i] = queue[i + 1]
      BY <2>1, <2>2, <3>1, <3>2, HeadTailProperties
    <3> QED
      BY <3>3, <3>4
  <2> QED
    BY <2>1, <2>2
<1>5. ASSUME NEW c \in Clients, Poll(c) PROVE \E n \in 0..Len(queue) : queue' = Rest(n)
  BY <1>5 DEF Poll
<1>6. ASSUME NEW c \in Clients, NEW v \in {"yes", "no"}, DecideLoad(c, v)
      PROVE  \E n \in 0..Len(queue) : queue' = Rest(n)
  BY <1>6 DEF DecideLoad
<1> QED
  BY <1>1, <1>2, <1>3, <1>4, <1>5, <1>6
  DEF Next, vars, Arrive, HandlerNext, Register, Offer, Answered, Unregister, CancelFinds,
      CancelSend, ClientNext, DecideSend

\* Who is known stays known.
LEMMA KnownStays ==
  ASSUME TypeOK, [Next]_vars
  PROVE  Known \subseteq Known'
<1> USE DEF handlerVars, clientVars, cancelVars
<1>1. ASSUME UNCHANGED hpc PROVE Known \subseteq Known'
  BY <1>1 DEF Known
<1>2. ASSUME NEW h \in Handlers, Arrive(h) PROVE Known \subseteq Known'
  BY <1>2 DEF Arrive, HandlerStep, Known, TypeOK
<1>3. ASSUME NEW h \in Handlers, HandlerNext(h) PROVE Known \subseteq Known'
  BY <1>3 DEF HandlerNext, Register, Offer, Answered, Unregister, HandlerStep, Known, TypeOK
<1> QED
  BY <1>1, <1>2, <1>3
  DEF Next, vars, Store, Poll, ClientNext, DecideLoad, DecideClear, DecideSend, CancelFinds, CancelSend

\* Every step keeps the invariant.
LEMMA KnownStep == TypeOK /\ TypeOK' /\ KnownInv /\ [Next]_vars => KnownInv'
<1> SUFFICES ASSUME TypeOK, TypeOK', KnownInv, [Next]_vars PROVE KnownInv'
  OBVIOUS
<1> USE DEF handlerVars, clientVars, cancelVars
<1>1. Known \subseteq Known'
  BY KnownStays
<1>2. \A i \in DOMAIN queue' : queue'[i] \in Known'
  <2>1. \A i \in DOMAIN queue' : queue'[i] \in Handlers
    <3>1. queue' \in Seq(Handlers)
      BY DEF TypeOK
    <3> QED
      BY <3>1, ElementOfSeq, LenProperties
  <2> QED
    BY <1>1, <2>1, QueueFrom, NoOneAssumption DEF KnownInv
<1>3. bridge' \in Known' \cup {NoOne}
  <2>1. ASSUME NEW h \in Handlers, Offer(h) PROVE bridge' \in Known'
    BY <2>1 DEF Offer, HandlerStep, Known, TypeOK
  <2>2. ASSUME bridge' = bridge \/ bridge' = NoOne PROVE bridge' \in Known' \cup {NoOne}
    BY <1>1, <2>2 DEF KnownInv
  <2> QED
    BY <2>1, <2>2
    DEF Next, vars, Arrive, HandlerNext, Register, Answered, Unregister, CancelFinds, CancelSend,
        Store, Poll, ClientNext, DecideLoad, DecideClear, DecideSend
<1>4. \A c \in Clients : held'[c] \in Known' \cup {NoOne}
  <2>1. ASSUME UNCHANGED held PROVE \A c \in Clients : held'[c] \in Known' \cup {NoOne}
    BY <1>1, <2>1 DEF KnownInv
  <2>2. ASSUME NEW c \in Clients, NEW v \in {"yes", "no"}, DecideLoad(c, v)
        PROVE  \A d \in Clients : held'[d] \in Known' \cup {NoOne}
    <3>1. PICK n \in 0..Len(queue) :
              held' = held \/ held' = [held EXCEPT ![c] = First(n)]
      BY <2>2 DEF DecideLoad
    <3>2. First(n) \in Known \cup {NoOne}
      BY LoadFrom DEF KnownInv
    <3>3. held \in [Clients -> Maybe]
      BY DEF TypeOK
    <3>4. \A d \in Clients : held'[d] = held[d] \/ held'[d] = First(n)
      BY ONLY <3>1, <3>3
    <3> QED
      BY <1>1, <3>2, <3>4 DEF KnownInv
  <2>3. ASSUME NEW c \in Clients, DecideSend(c)
        PROVE  \A d \in Clients : held'[d] \in Known' \cup {NoOne}
    <3>1. held' = held \/ held' = [held EXCEPT ![c] = NoOne]
      BY <2>3 DEF DecideSend
    <3>2. held \in [Clients -> Maybe]
      BY DEF TypeOK
    <3>3. \A d \in Clients : held'[d] = held[d] \/ held'[d] = NoOne
      BY ONLY <3>1, <3>2
    <3> QED
      BY <1>1, <3>3 DEF KnownInv
  <2> QED
    BY <2>1, <2>2, <2>3
    DEF Next, vars, Arrive, HandlerNext, Register, Offer, Answered, Unregister, CancelFinds,
        CancelSend, Store, Poll, ClientNext, DecideClear
<1>5. \A i \in Images : approvals'[i] \in Known' \cup {NoOne}
  <2>1. ASSUME UNCHANGED approvals PROVE \A i \in Images : approvals'[i] \in Known' \cup {NoOne}
    BY <1>1, <2>1 DEF KnownInv
  <2>2. ASSUME NEW h \in Handlers, Register(h)
        PROVE  \A i \in Images : approvals'[i] \in Known' \cup {NoOne}
    <3>1. h \in Known'
      BY <2>2 DEF Register, HandlerStep, Known, TypeOK
    <3>2. approvals' = [approvals EXCEPT ![ImageOf[h]] = h] /\ approvals \in [Images -> Maybe]
      BY <2>2 DEF Register, TypeOK
    <3>3. \A i \in Images : approvals'[i] = approvals[i] \/ approvals'[i] = h
      BY ONLY <3>2
    <3> QED
      BY <1>1, <3>1, <3>3 DEF KnownInv
  <2>3. ASSUME NEW h \in Handlers, Unregister(h) \/ CancelFinds(h)
        PROVE  \A i \in Images : approvals'[i] \in Known' \cup {NoOne}
    <3>1. \/ approvals' = approvals
          \/ approvals' = [approvals EXCEPT ![ImageOf[h]] = NoOne]
      BY <2>3 DEF Unregister, CancelFinds
    <3>2. approvals \in [Images -> Maybe]
      BY DEF TypeOK
    <3>3. \A i \in Images : approvals'[i] = approvals[i] \/ approvals'[i] = NoOne
      BY ONLY <3>1, <3>2
    <3> QED
      BY <1>1, <3>3 DEF KnownInv
  <2> QED
    BY <2>1, <2>2, <2>3
    DEF Next, vars, Arrive, HandlerNext, Offer, Answered, CancelSend, Store, Poll, ClientNext,
        DecideLoad, DecideClear, DecideSend
<1>6. \A k \in Handlers : found'[k] \in Known' \cup {NoOne}
  <2>1. ASSUME UNCHANGED found PROVE \A k \in Handlers : found'[k] \in Known' \cup {NoOne}
    BY <1>1, <2>1 DEF KnownInv
  <2>2. ASSUME NEW h \in Handlers, CancelFinds(h)
        PROVE  \A k \in Handlers : found'[k] \in Known' \cup {NoOne}
    <3>1. approvals[ImageOf[h]] \in Known \cup {NoOne}
      BY DEF KnownInv, Images
    <3>2. found' = found \/ found' = [found EXCEPT ![h] = approvals[ImageOf[h]]]
      BY <2>2 DEF CancelFinds
    <3>3. found \in [Handlers -> Maybe]
      BY DEF TypeOK
    <3>4. \A k \in Handlers : found'[k] = found[k] \/ found'[k] = approvals[ImageOf[h]]
      BY ONLY <3>2, <3>3
    <3> QED
      BY <1>1, <3>1, <3>4 DEF KnownInv
  <2> QED
    BY <2>1, <2>2
    DEF Next, vars, Arrive, HandlerNext, Register, Offer, Answered, Unregister, CancelSend,
        Store, Poll, ClientNext, DecideLoad, DecideClear, DecideSend
<1>7. \A h \in Handlers \ Known' : resp'[h] = ""
  <2>1. ASSUME UNCHANGED resp PROVE \A h \in Handlers \ Known' : resp'[h] = ""
    BY <1>1, <2>1 DEF KnownInv
  <2>2. ASSUME NEW k \in Handlers, Answered(k) PROVE \A h \in Handlers \ Known' : resp'[h] = ""
    <3>1. resp' = [resp EXCEPT ![k] = ""]
      BY <2>2 DEF Answered
    <3>2. resp \in [Handlers -> {"", "yes", "no"}]
      BY DEF TypeOK
    <3>3. \A h \in Handlers : resp'[h] = resp[h] \/ resp'[h] = ""
      BY ONLY <3>1, <3>2
    <3> QED
      BY <1>1, <3>3 DEF KnownInv
  <2>3. ASSUME NEW k \in Known \cup {NoOne}, NEW v, Answer(k, v)
        PROVE  \A h \in Handlers \ Known' : resp'[h] = ""
    <3>1. \E w : resp' = [resp EXCEPT ![k] = w]
      BY <2>3 DEF Answer
    <3>2. resp \in [Handlers -> {"", "yes", "no"}]
      BY DEF TypeOK
    <3>3. \A h \in Handlers \ {k} : resp'[h] = resp[h]
      BY ONLY <3>1, <3>2
    <3>4. \A h \in Handlers \ Known' : h # k
      BY <1>1, NoOneAssumption
    <3> QED
      BY <1>1, <3>3, <3>4 DEF KnownInv
  <2>4. ASSUME NEW k \in Handlers, CancelSend(k)
        PROVE  \A h \in Handlers \ Known' : resp'[h] = ""
    BY <2>3, <2>4 DEF CancelSend, KnownInv
  <2>5. ASSUME NEW c \in Clients, DecideSend(c)
        PROVE  \A h \in Handlers \ Known' : resp'[h] = ""
    BY <2>3, <2>5 DEF DecideSend, KnownInv
  <2> QED
    BY <2>1, <2>2, <2>4, <2>5
    DEF Next, vars, Arrive, HandlerNext, Register, Offer, Unregister, CancelFinds,
        Store, Poll, ClientNext, DecideLoad, DecideClear
<1> QED
  BY <1>2, <1>3, <1>4, <1>5, <1>6, <1>7 DEF KnownInv

\* A step no request notices is a stutter of the promise ...
LEMMA IsStutter ==
  ASSUME \A h \in Handlers : StageOf(h)' = StageOf(h) /\ AnswerFor(h)' = AnswerFor(h)
  PROVE  UNCHANGED Promise!vars
  BY DEF Promise!vars

\* ... and so is one that moves handlers, and fills channels, where it does not matter.
LEMMA QuietStep ==
  ASSUME UNCHANGED <<hpc, resp>>
  PROVE  UNCHANGED Promise!vars
<1>1. \A h \in Handlers : StageOf(h)' = StageOf(h) /\ AnswerFor(h)' = AnswerFor(h)
  BY DEF StageOf, AnswerFor
<1> QED
  BY <1>1, IsStutter

\* A send into the channel of one request is its answer, or nothing.
LEMMA IsAnswer ==
  ASSUME TypeOK, NEW k \in Maybe, NEW v \in {"", "yes", "no"}, Answer(k, v), UNCHANGED hpc
  PROVE  [Promise!Next]_(Promise!vars)
<1>1. \A h \in Handlers : StageOf(h)' = StageOf(h)
  BY DEF StageOf
<1>2. \A h \in Handlers \ {k} : AnswerFor(h)' = AnswerFor(h)
  BY DEF AnswerFor, Answer, TypeOK
<1>3. CASE k \in Handlers /\ hpc[k] \in Asking /\ resp[k] = "" /\ v # ""
  <2>1. StageOf(k) = "asked" /\ AnswerFor(k) = "" /\ AnswerFor(k)' = v /\ v \in {"yes", "no"}
    BY <1>3 DEF StageOf, AnswerFor, Answer, TypeOK, Asking
  <2>2. Promise!Answer(k)
    BY <1>1, <1>2, <1>3, <2>1 DEF Promise!Answer
  <2> QED
    BY <1>3, <2>2 DEF Promise!Next
<1>4. CASE ~(k \in Handlers /\ hpc[k] \in Asking /\ resp[k] = "" /\ v # "")
  <2>1. k \in Handlers => AnswerFor(k)' = AnswerFor(k)
    BY <1>4 DEF AnswerFor, Answer, TypeOK
  <2> QED
    BY <1>1, <1>2, <2>1, IsStutter
<1> QED
  BY <1>3, <1>4

\* A handler asks, goes by the answer it finds, or gets on without either.
LEMMA HandlerKeepsPromise ==
  ASSUME TypeOK, KnownInv, NEW h \in Handlers, Arrive(h) \/ HandlerNext(h)
  PROVE  [Promise!Next]_(Promise!vars)
<1> USE DEF handlerVars, clientVars, cancelVars
<1>1. \A k \in Handlers \ {h} : StageOf(k)' = StageOf(k) /\ AnswerFor(k)' = AnswerFor(k)
  <2>1. \A k \in Handlers \ {h} : hpc'[k] = hpc[k] /\ resp'[k] = resp[k]
    BY DEF Arrive, HandlerNext, Register, Offer, Answered, Unregister, HandlerStep, TypeOK
  <2> QED
    BY <2>1 DEF StageOf, AnswerFor
<1>2. CASE Arrive(h)
  <2>1. /\ StageOf(h) = "new" /\ AnswerFor(h) = "" /\ StageOf(h)' \in {"asked", "granted"}
        /\ hpc[h] = "new" /\ resp' = resp
    BY <1>2 DEF Arrive, HandlerStep, StageOf, AnswerFor, Asking, TypeOK
  <2>2. resp[h] = ""
    BY <2>1 DEF KnownInv, Known
  <2>3. AnswerFor(h)' = ""
    BY <2>1, <2>2 DEF AnswerFor
  <2>4. Promise!Comes(h)
    BY <1>1, <2>1, <2>3 DEF Promise!Comes
  <2> QED
    BY <2>4 DEF Promise!Next
<1>3. CASE Answered(h)
  <2>1. /\ StageOf(h) = "asked" /\ AnswerFor(h) = resp[h] /\ resp[h] # ""
        /\ StageOf(h)' = IF resp[h] = "yes" THEN "granted" ELSE "refused"
        /\ AnswerFor(h)' = ""
    BY <1>3 DEF Answered, HandlerStep, StageOf, AnswerFor, Asking, TypeOK
  <2>2. Promise!Take(h)
    BY <1>1, <2>1 DEF Promise!Take
  <2> QED
    BY <2>2 DEF Promise!Next
<1>4. CASE Register(h) \/ Offer(h) \/ Unregister(h)
  <2>1. StageOf(h)' = StageOf(h) /\ AnswerFor(h)' = AnswerFor(h)
    BY <1>4 DEF Register, Offer, Unregister, HandlerStep, StageOf, AnswerFor, Asking, TypeOK
  <2> QED
    BY <1>1, <2>1, IsStutter
<1> QED
  BY <1>2, <1>3, <1>4 DEF HandlerNext

\* Any number of clients and cancellations, two requests of one image included, keep
\* the promise to each request: the first answer is the one it goes by.
THEOREM QueueImplementsApproval == Spec => ImplementsApproval
<1> USE DEF handlerVars, clientVars, cancelVars
<1>1. Init => KnownInv
  <2> SUFFICES ASSUME Init PROVE KnownInv
    OBVIOUS
  <2>1. DOMAIN queue = {}
    <3>1. queue = <<>>
      BY DEF Init
    <3> QED
      BY <3>1, EmptySeq, LenProperties
  <2> QED
    BY <2>1 DEF Init, KnownInv, Known
<1>2. Spec => []KnownInv
  BY <1>1, KnownStep, TypeCorrect, PTL DEF Spec
<1>3. Init => Promise!Init
  BY DEF Init, Promise!Init, StageOf, AnswerFor, Asking
<1>4. ASSUME TypeOK, KnownInv, [Next]_vars PROVE [Promise!Next]_(Promise!vars)
  <2>1. ASSUME NEW k \in Handlers, CancelSend(k) PROVE [Promise!Next]_(Promise!vars)
    BY <1>4, <2>1, IsAnswer DEF CancelSend, TypeOK
  <2>2. ASSUME NEW c \in Clients, DecideSend(c) PROVE [Promise!Next]_(Promise!vars)
    BY <1>4, <2>2, IsAnswer DEF DecideSend, TypeOK
  <2>3. ASSUME UNCHANGED <<hpc, resp>> PROVE [Promise!Next]_(Promise!vars)
    BY <2>3, QuietStep
  <2>4. ASSUME NEW h \in Handlers, Arrive(h) \/ HandlerNext(h) PROVE [Promise!Next]_(Promise!vars)
    BY <1>4, <2>4, HandlerKeepsPromise
  <2> QED
    BY <1>4, <2>1, <2>2, <2>3, <2>4
    DEF Next, vars, CancelFinds, Store, Poll, ClientNext, DecideLoad, DecideClear
<1> QED
  BY <1>2, <1>3, <1>4, TypeCorrect, PTL DEF Spec, ImplementsApproval, Promise!Spec
=============================================================================
