------------------------- MODULE ProgressWriter_proofs -------------------------
(***************************************************************************)
(* Safety of the progressWriter for any set of callers and both directions. *)
(***************************************************************************)
EXTENDS ProgressWriter, FiniteSetTheorems, TLAPS

Waking == {"cancelPublish", "cancelSend"}

\* What the two wake-up invariants rest on: the token a Resume owes is there
\* from the moment Write has chosen to wait, and the token of a Cancel is there
\* until io.Copy has ended.
WakeInv ==
    /\ wpc \in {"announce", "select"} /\ ~paused
         => resumeCh \/ \E c \in Callers : call[c].pc = "resumeSend"
    /\ canceled => \/ cancelCh
                   \/ \E c \in Callers : call[c].pc \in Waking
                   \/ wpc \in {"ended", "gone"}

\* Where Write stands once it has passed on a chunk of a cancelled transfer.
LateInv ==
    /\ late \in {0, 1}
    /\ ~canceled => late = 0
    /\ late = 1 => wpc \in {"progress", "read", "check", "ended", "gone"}

-----------------------------------------------------------------------------
\* The counters of the history variables stay natural numbers.
LEMMA NatSuccessor == \A n \in Nat : n + 1 \in Nat
  OBVIOUS

\* A step of a call keeps the record of the caller well typed, moves it to its
\* next point and leaves the other callers as they were.
LEMMA StepCall ==
  ASSUME TypeOK, NEW c \in Callers, NEW from \in CallPCs, NEW to \in CallPCs,
         Step(c, from, to)
  PROVE  /\ call' \in [Callers -> Calls]
         /\ call'[c].pc = to
         /\ call[c].who \in Sides \cup {""}
         /\ \A d \in Callers \ {c} : call'[d] = call[d]
         /\ direction' = direction
<1>1. call \in [Callers -> Calls] /\ call[c] \in Calls
  BY DEF TypeOK
<1>2. call[c].who \in Sides \cup {""} /\ call[c].prev \in Sides \cup {""}
  BY <1>1 DEF Calls
<1> DEFINE next == IF to = "idle" THEN Idle ELSE [call[c] EXCEPT !.pc = to]
<1>3. next \in Calls /\ next.pc = to
  <2>1. Idle \in Calls /\ Idle.pc = "idle"
    BY DEF Idle, Calls, CallPCs
  <2>2. [call[c] EXCEPT !.pc = to] \in Calls /\ [call[c] EXCEPT !.pc = to].pc = to
    BY <1>1 DEF Calls
  <2> QED
    BY <2>1, <2>2
<1>4. call' = [call EXCEPT ![c] = next] /\ direction' = direction
  BY DEF Step
<1> HIDE DEF next
<1>5. /\ call' \in [Callers -> Calls] /\ call'[c] = next
      /\ \A d \in Callers \ {c} : call'[d] = call[d]
  BY <1>1, <1>3, <1>4
<1> QED
  BY <1>2, <1>3, <1>4, <1>5

\* Type correctness: every flag, channel and program counter keeps its type
\* through every interleaving of Write with the calls.
THEOREM TypeCorrect == Spec => []TypeOK
<1>1. Init => TypeOK
  <2>1. Idle \in Calls
    BY DEF Idle, Calls, CallPCs
  <2>2. ASSUME Init PROVE call \in [Callers -> Calls]
    BY <2>1, <2>2 DEF Init
  <2>3. 0 \in Nat
    OBVIOUS
  <2> QED
    BY <2>2, <2>3, Zenon DEF Init, TypeOK, WriterPCs, Statuses
<1>2. TypeOK /\ [Next]_vars => TypeOK'
  <2> SUFFICES ASSUME TypeOK, [Next]_vars PROVE TypeOK'
    OBVIOUS
  <2> USE DEF CallPCs, flags, chans, ghosts
  <2>1. CASE Read \/ Writer
    <3> USE DEF TypeOK, Advance, WriterPCs
    <3>1. CASE Read \/ CheckCanceled \/ CheckPaused \/ ForwardFails \/ Cleanup
      BY <3>1 DEF Read, CheckCanceled, CheckPaused, ForwardFails, Cleanup
    <3>2. CASE AnnouncePaused \/ PublishProgress
      BY <3>2 DEF AnnouncePaused, PublishProgress, Statuses
    <3>3. CASE WakeByResume \/ WakeByCancel
      BY <3>3 DEF WakeByResume, WakeByCancel
    <3>4. CASE Forward
      <4>1. late' \in Nat /\ leaked' \in Nat
        <5>1. late' \in {late, late + 1} /\ leaked' \in {leaked, leaked + 1}
          BY <3>4, Zenon DEF Forward
        <5>2. late \in Nat /\ leaked \in Nat
          OBVIOUS
        <5>3. late + 1 \in Nat /\ leaked + 1 \in Nat
          BY <5>2, NatSuccessor
        <5> QED
          BY <5>1, <5>2, <5>3
      <4>2. wpc' \in WriterPCs
        BY <3>4 DEF Forward
      <4> QED
        BY <3>4, <4>1, <4>2, Zenon DEF Forward
    <3> QED
      BY <2>1, <3>1, <3>2, <3>3, <3>4 DEF Writer
  <2>2. ASSUME NEW c \in Callers, Begin(c) PROVE TypeOK'
    <3>1. PICK o \in Offered(c) : Enter(c, o)
      BY <2>2 DEF Begin
    <3>2. o.entry \in CallPCs /\ o.who \in Sides
      BY DEF Offered, CallPCs, Sides, LocalSide, RemoteSide
    <3>3. [pc |-> o.entry, who |-> o.who, prev |-> ""]
            \in Calls
      BY <3>2 DEF Calls
    <3> QED
      BY <3>1, <3>3 DEF Enter, TypeOK
  <2>3. ASSUME NEW c \in Callers, PauseStep(c) PROVE TypeOK'
    <3>1. CASE PauseCheck(c)
      BY <3>1, StepCall DEF PauseCheck, TypeOK
    <3>2. CASE PauseStore(c)
      BY <3>2, StepCall DEF PauseStore, TypeOK
    <3>3. CASE PauseOwner(c)
      BY <3>3, StepCall DEF PauseOwner, TypeOK
    <3>4. CASE PausePublish(c)
      BY <3>4, StepCall DEF PausePublish, TypeOK, Statuses
    <3> QED
      BY <2>3, <3>1, <3>2, <3>3, <3>4 DEF PauseStep
  <2>4. ASSUME NEW c \in Callers, ResumeStep(c) PROVE TypeOK'
    <3>1. CASE ResumeCheck(c) \/ ResumeRefused(c) \/ ResumeLoad(c)
      <4>1. CASE ResumeCheck(c)
        BY <4>1, StepCall DEF ResumeCheck, TypeOK
      <4>2. CASE ResumeRefused(c)
        BY <4>2, StepCall DEF ResumeRefused, TypeOK
      <4>3. CASE ResumeLoad(c)
        BY <4>3, StepCall DEF ResumeLoad, TypeOK
      <4> QED
        BY <3>1, <4>1, <4>2, <4>3
    <3>2. CASE ResumeOwner(c)
      <4>1. call[c] \in Calls /\ pausedBy \in Sides \cup {""}
        BY DEF TypeOK
      <4>2. call' = [call EXCEPT ![c] = [@ EXCEPT !.pc = "resumeLoad", !.prev = pausedBy]]
        BY <3>2 DEF ResumeOwner, TypeOK
      <4>3. [call[c] EXCEPT !.pc = "resumeLoad", !.prev = pausedBy] \in Calls
        BY <4>1 DEF Calls
      <4>4. call' \in [Callers -> Calls]
        BY <4>2, <4>3 DEF TypeOK
      <4> QED
        BY <3>2, <4>4 DEF ResumeOwner, TypeOK
    <3>3. CASE ResumeStore(c) \/ ResumeSend(c)
      <4>1. CASE ResumeStore(c)
        BY <4>1, StepCall DEF ResumeStore, TypeOK
      <4>2. CASE ResumeSend(c)
        BY <4>2, StepCall DEF ResumeSend, TypeOK
      <4> QED
        BY <3>3, <4>1, <4>2
    <3>4. CASE ResumePublish(c)
      BY <3>4, StepCall DEF ResumePublish, TypeOK, Statuses
    <3> QED
      BY <2>4, <3>1, <3>2, <3>3, <3>4 DEF ResumeStep
  <2>5. ASSUME NEW c \in Callers, CancelStep(c) PROVE TypeOK'
    <3>1. CASE CancelCheck(c) \/ CancelStore(c)
      <4>1. CASE CancelCheck(c)
        BY <4>1, StepCall DEF CancelCheck, TypeOK
      <4>2. CASE CancelStore(c)
        BY <4>2, StepCall DEF CancelStore, TypeOK
      <4> QED
        BY <3>1, <4>1, <4>2
    <3>2. CASE CancelSend(c) \/ CancelWake(c)
      <4>1. CASE CancelSend(c)
        BY <4>1, StepCall DEF CancelSend, TypeOK
      <4>2. CASE CancelWake(c)
        BY <4>2, StepCall DEF CancelWake, TypeOK
      <4> QED
        BY <3>2, <4>1, <4>2
    <3>3. CASE CancelPublish(c)
      BY <3>3, StepCall DEF CancelPublish, TypeOK, Statuses
    <3> QED
      BY <2>5, <3>1, <3>2, <3>3 DEF CancelStep
  <2>6. ASSUME NEW c \in Callers, NotifyStep(c) PROVE TypeOK'
    <3>1. CASE NotifyPaused(c) \/ NotifyResumed(c)
      BY <3>1, StepCall DEF NotifyPaused, NotifyResumed, TypeOK
    <3>2. CASE NotifyPausedPublish(c) \/ NotifyResumedPublish(c)
      BY <3>2, StepCall
      DEF NotifyPausedPublish, NotifyResumedPublish, TypeOK, Statuses
    <3> QED
      BY <2>6, <3>1, <3>2 DEF NotifyStep
  <2>7. CASE UNCHANGED vars
    BY <2>7 DEF vars, TypeOK
  <2> QED
    BY <2>1, <2>2, <2>3, <2>4, <2>5, <2>6, <2>7 DEF Next, CallStep
<1> QED
  BY <1>1, <1>2, PTL DEF Spec

-----------------------------------------------------------------------------
\* The writer's own steps keep WakeInv: it only consumes a token on its way out
\* of the select, and it only decides to wait when paused is set.
LEMMA WriterKeepsWake ==
  ASSUME TypeOK, WakeInv, Read \/ Writer
  PROVE  WakeInv'
<1> USE DEF WakeInv, Advance, flags, chans, ghosts
<1>1. CASE Read
  BY <1>1 DEF Read
<1>2. CASE CheckCanceled
  BY <1>2 DEF CheckCanceled
<1>3. CASE CheckPaused
  BY <1>3 DEF CheckPaused
<1>4. CASE AnnouncePaused
  BY <1>4 DEF AnnouncePaused
<1>5. CASE WakeByResume
  BY <1>5 DEF WakeByResume
<1>6. CASE WakeByCancel
  BY <1>6 DEF WakeByCancel
<1>7. CASE Forward \/ ForwardFails
  BY <1>7 DEF Forward, ForwardFails
<1>8. CASE PublishProgress \/ Cleanup
  BY <1>8 DEF PublishProgress, Cleanup
<1> QED
  BY <1>1, <1>2, <1>3, <1>4, <1>5, <1>6, <1>7, <1>8 DEF Writer

\* A step of a call that is neither at a store nor at a send, and does not stand
\* at a point a sleeping Write relies on, keeps WakeInv.
LEMMA QuietStepKeepsWake ==
  ASSUME TypeOK, WakeInv, NEW c \in Callers,
         call[c].pc \notin Waking \cup {"resumeSend"},
         \A d \in Callers \ {c} : call'[d] = call[d],
         paused' = paused, canceled' = canceled, resumeCh' = resumeCh,
         cancelCh' = cancelCh, wpc' = wpc
  PROVE  WakeInv'
  BY DEF WakeInv

\* The calls keep WakeInv: the steps that could strand a sleeping Write are
\* followed by the send that wakes it.
LEMMA CallKeepsWake ==
  ASSUME TypeOK, WakeInv, NEW c \in Callers, Begin(c) \/ CallStep(c)
  PROVE  WakeInv'
<1> USE DEF flags, chans, ghosts, CallPCs
<1>1. CASE Begin(c)
  <2>1. call[c].pc = "idle" /\ \A d \in Callers \ {c} : call'[d] = call[d]
    BY <1>1 DEF Begin, Enter, TypeOK
  <2>2. UNCHANGED <<flags, chans, wpc>>
    BY <1>1 DEF Begin, Enter
  <2> QED
    BY <2>1, <2>2, QuietStepKeepsWake DEF Waking
<1>2. CASE PauseStep(c)
  <2>1. CASE PauseCheck(c)
    BY <2>1, StepCall, QuietStepKeepsWake DEF PauseCheck, Step, Waking
  <2>2. CASE PauseStore(c)
    BY <2>2, StepCall DEF PauseStore, Step, Waking, WakeInv
  <2>3. CASE PauseOwner(c)
    BY <2>3, StepCall, QuietStepKeepsWake DEF PauseOwner, Step, Waking
  <2>4. CASE PausePublish(c)
    BY <2>4, StepCall, QuietStepKeepsWake DEF PausePublish, Step, Waking
  <2> QED
    BY <1>2, <2>1, <2>2, <2>3, <2>4 DEF PauseStep
<1>3. CASE ResumeStep(c)
  <2>1. CASE ResumeCheck(c)
    BY <2>1, StepCall, QuietStepKeepsWake DEF ResumeCheck, Step, Waking
  <2>2. CASE ResumeRefused(c)
    BY <2>2, StepCall, QuietStepKeepsWake DEF ResumeRefused, Step, Waking
  <2>3. CASE ResumeOwner(c)
    <3>1. \A d \in Callers \ {c} : call'[d] = call[d]
      BY <2>3 DEF ResumeOwner, TypeOK
    <3> QED
      BY <2>3, <3>1, QuietStepKeepsWake DEF ResumeOwner, Waking
  <2>4. CASE ResumeLoad(c)
    BY <2>4, StepCall, QuietStepKeepsWake DEF ResumeLoad, Step, Waking
  <2>5. CASE ResumeStore(c)
    BY <2>5, StepCall DEF ResumeStore, Step, Waking, WakeInv
  <2>6. CASE ResumeSend(c)
    BY <2>6, StepCall DEF ResumeSend, Step, Waking, WakeInv
  <2>7. CASE ResumePublish(c)
    BY <2>7, StepCall, QuietStepKeepsWake DEF ResumePublish, Step, Waking
  <2> QED
    BY <1>3, <2>1, <2>2, <2>3, <2>4, <2>5, <2>6, <2>7 DEF ResumeStep
<1>4. CASE CancelStep(c)
  <2>1. CASE CancelCheck(c)
    BY <2>1, StepCall, QuietStepKeepsWake DEF CancelCheck, Step, Waking
  <2>2. CASE CancelStore(c)
    <3>1. Step(c, "cancelStore", "cancelPublish") /\ UNCHANGED <<paused, chans, wpc>> /\ canceled' = TRUE
      BY <2>2 DEF CancelStore
    <3>2. call[c].pc = "cancelStore" /\ call'[c].pc = "cancelPublish" /\ \A d \in Callers \ {c} : call'[d] = call[d]
      BY <3>1, StepCall DEF Step
    <3> QED
      BY <3>1, <3>2 DEF Waking, WakeInv
  <2>3. CASE CancelPublish(c)
    <3>1. Step(c, "cancelPublish", "cancelSend") /\ UNCHANGED <<paused, chans, wpc>> /\ canceled' = canceled
      BY <2>3 DEF CancelPublish
    <3>2. call[c].pc = "cancelPublish" /\ call'[c].pc = "cancelSend" /\ \A d \in Callers \ {c} : call'[d] = call[d]
      BY <3>1, StepCall DEF Step
    <3> QED
      BY <3>1, <3>2 DEF Waking, WakeInv
  <2>4. CASE CancelSend(c)
    BY <2>4, StepCall DEF CancelSend, Step, Waking, WakeInv
  <2>5. CASE CancelWake(c)
    BY <2>5, StepCall DEF CancelWake, Step, Waking, WakeInv
  <2> QED
    BY <1>4, <2>1, <2>2, <2>3, <2>4, <2>5 DEF CancelStep
<1>5. CASE NotifyStep(c)
  BY <1>5, StepCall, QuietStepKeepsWake DEF NotifyStep, NotifyPaused,
     NotifyPausedPublish, NotifyResumed, NotifyResumedPublish, Step, Waking
<1> QED
  BY <1>1, <1>2, <1>3, <1>4, <1>5 DEF CallStep

\* A sleeping Write never loses its wake-up, whatever the callers do: the token
\* of the Resume or Cancel that released it is buffered or about to be.
THEOREM WakeupHolds == Spec => []NoLostWakeup
<1>1. Init => WakeInv
  BY DEF Init, WakeInv
<1>2. TypeOK /\ WakeInv /\ [Next]_vars => WakeInv'
  <2> SUFFICES ASSUME TypeOK, WakeInv, [Next]_vars PROVE WakeInv'
    OBVIOUS
  <2>1. CASE UNCHANGED vars
    BY <2>1 DEF vars, flags, chans, ghosts, WakeInv
  <2> QED
    BY <2>1, WriterKeepsWake, CallKeepsWake DEF Next
<1>3. WakeInv => NoLostWakeup
  BY DEF WakeInv, Waking, NoLostWakeup
<1> QED
  BY <1>1, <1>2, <1>3, TypeCorrect, PTL DEF Spec

\* With no call in progress, only a paused and uncancelled transfer can have a
\* Write asleep with nothing to wake it.
THEOREM NeverAsleepByAccident == Spec => []AsleepOnlyIfPaused
<1>1. NoLostWakeup => AsleepOnlyIfPaused
  BY DEF NoLostWakeup, AsleepOnlyIfPaused, Quiet
<1> QED
  BY <1>1, WakeupHolds, PTL

-----------------------------------------------------------------------------
\* The calls touch neither Write's position nor the count of late chunks, and
\* never clear canceled.
LEMMA CallKeepsLate ==
  ASSUME LateInv, NEW c \in Callers, Begin(c) \/ CallStep(c)
  PROVE  LateInv'
<1> USE DEF flags, chans, ghosts
<1> DEFINE Kept == late' = late /\ wpc' = wpc /\ canceled' \in {canceled, TRUE}
<1>1. ASSUME Begin(c) PROVE Kept
  BY <1>1 DEF Begin, Enter
<1>2. ASSUME PauseStep(c) PROVE Kept
  BY <1>2 DEF PauseStep, PauseCheck, PauseStore, PauseOwner, PausePublish
<1>3. ASSUME ResumeStep(c) PROVE Kept
  <2>1. CASE ResumeCheck(c) \/ ResumeRefused(c) \/ ResumeOwner(c) \/ ResumeLoad(c)
    BY <2>1 DEF ResumeCheck, ResumeRefused, ResumeOwner, ResumeLoad
  <2>2. CASE ResumeStore(c) \/ ResumeSend(c) \/ ResumePublish(c)
    BY <2>2 DEF ResumeStore, ResumeSend, ResumePublish
  <2> QED
    BY <1>3, <2>1, <2>2 DEF ResumeStep
<1>4. ASSUME CancelStep(c) PROVE Kept
  BY <1>4 DEF CancelStep, CancelCheck, CancelStore, CancelPublish,
     CancelSend, CancelWake
<1>5. ASSUME NotifyStep(c) PROVE Kept
  BY <1>5 DEF NotifyStep, NotifyPaused, NotifyPausedPublish,
     NotifyResumed, NotifyResumedPublish
<1>6. Kept
  BY <1>1, <1>2, <1>3, <1>4, <1>5 DEF CallStep
<1> QED
  BY <1>6 DEF LateInv

\* Write passes on at most one chunk of a transfer that has been cancelled: the
\* next call of Write sees the flag.
THEOREM OneLateChunk == Spec => []AtMostOneLateChunk
<1> USE DEF LateInv, Advance, flags, chans, ghosts
<1>1. Init => LateInv
  BY DEF Init
<1>2. LateInv /\ [Next]_vars => LateInv'
  <2> SUFFICES ASSUME LateInv, [Next]_vars PROVE LateInv'
    OBVIOUS
  <2>1. CASE Read
    BY <2>1 DEF Read
  <2>2. CASE CheckCanceled
    BY <2>2 DEF CheckCanceled
  <2>3. CASE CheckPaused \/ AnnouncePaused \/ WakeByResume \/ WakeByCancel
    BY <2>3 DEF CheckPaused, AnnouncePaused, WakeByResume, WakeByCancel
  <2>4. CASE Forward
    <3>1. late = 0 /\ canceled' = canceled /\ wpc' = "progress"
      BY <2>4 DEF Forward
    <3>2. late' = IF canceled THEN late + 1 ELSE late
      BY <2>4 DEF Forward
    <3>3. CASE canceled
      BY <3>1, <3>2, <3>3
    <3>4. CASE ~canceled
      BY <3>1, <3>2, <3>4
    <3> QED
      BY <3>3, <3>4
  <2>5. CASE ForwardFails \/ PublishProgress \/ Cleanup
    BY <2>5 DEF ForwardFails, PublishProgress, Cleanup
  <2>6. CASE UNCHANGED vars
    BY <2>6 DEF vars
  <2> QED
    BY <2>1, <2>2, <2>3, <2>4, <2>5, <2>6, CallKeepsLate DEF Next, Writer
<1>3. LateInv => AtMostOneLateChunk
  BY DEF AtMostOneLateChunk
<1> QED
  BY <1>1, <1>2, <1>3, PTL DEF Spec

-----------------------------------------------------------------------------
\* Only after the Store(true) of a Cancel does its caller publish and send.
CancelledInv ==
    \A c \in Callers :
        call[c].pc \in {"cancelPublish", "cancelSend", "cancelWake"} => canceled

\* The callers that owe a token, and one for each thing that may let a chunk pass.
Owing    == {c \in Callers : call[c].pc = "resumeSend"}
InFlight == IF wpc = "forward" THEN 1 ELSE 0
Buffered == IF resumeCh THEN 1 ELSE 0

\* Of a paused transfer: the chunks that have passed and those that still may.
LeakInv ==
    ~canceled =>
        /\ leaked <= Cardinality(Callers) + 1
        /\ paused => leaked + InFlight + Buffered + Cardinality(Owing)
                         <= Cardinality(Callers) + 1

\* A caller that moves alone and not into the end of a Cancel keeps CancelledInv.
LEMMA MoveKeepsCancelled ==
  ASSUME CancelledInv, NEW c \in Callers, canceled' = canceled,
         call'[c].pc \notin {"cancelPublish", "cancelSend", "cancelWake"},
         \A d \in Callers \ {c} : call'[d] = call[d]
  PROVE  CancelledInv'
  BY DEF CancelledInv

\* A Resume that clears the owner goes on to the load.
LEMMA OwnerStep ==
  ASSUME TypeOK, NEW c \in Callers, ResumeOwner(c)
  PROVE  /\ call'[c].pc = "resumeLoad"
         /\ \A d \in Callers \ {c} : call'[d] = call[d]
<1>1. call[c] \in Calls
  BY DEF TypeOK
<1>2. call' = [call EXCEPT ![c] = [@ EXCEPT !.pc = "resumeLoad", !.prev = pausedBy]]
  BY DEF ResumeOwner, TypeOK
<1> QED
  BY <1>1, <1>2 DEF TypeOK, Calls

\* No step clears canceled, and CancelStore sets it before its caller goes on.
LEMMA CancelledHolds == Spec => []CancelledInv
<1>1. Init => CancelledInv
  <2> SUFFICES ASSUME Init, NEW c \in Callers PROVE call[c].pc = "idle"
    BY DEF CancelledInv
  <2>1. call[c] = Idle
    BY DEF Init
  <2>2. Idle.pc = "idle"
    BY DEF Idle
  <2> QED
    BY <2>1, <2>2, Zenon
<1>2. TypeOK /\ CancelledInv /\ [Next]_vars => CancelledInv'
  <2> SUFFICES ASSUME TypeOK, CancelledInv, [Next]_vars PROVE CancelledInv'
    OBVIOUS
  <2> USE DEF flags, chans, ghosts, CallPCs
  <2>1. CASE Read \/ Writer
    BY <2>1 DEF CancelledInv, Read, Writer, CheckCanceled, CheckPaused, AnnouncePaused, WakeByResume,
       WakeByCancel, Forward, ForwardFails, PublishProgress, Cleanup
  <2>2. ASSUME NEW c \in Callers, Begin(c) PROVE CancelledInv'
    <3>1. PICK o \in Offered(c) : Enter(c, o)
      BY <2>2 DEF Begin
    <3>2. o.entry \in {"pause", "resume", "cancel", "notifyPaused", "notifyResumed"}
      BY DEF Offered
    <3>3. call'[c].pc = o.entry /\ \A d \in Callers \ {c} : call'[d] = call[d]
      BY <3>1 DEF Enter, TypeOK
    <3> QED
      BY <3>1, <3>2, <3>3, MoveKeepsCancelled DEF Enter
  <2>3. ASSUME NEW c \in Callers, PauseStep(c) PROVE CancelledInv'
    BY <2>3, StepCall, MoveKeepsCancelled
    DEF PauseStep, PauseCheck, PauseStore, PauseOwner, PausePublish, Step
  <2>4. ASSUME NEW c \in Callers, ResumeStep(c) PROVE CancelledInv'
    <3>1. CASE ResumeOwner(c)
      BY <3>1, OwnerStep, MoveKeepsCancelled DEF ResumeOwner
    <3>2. CASE ResumeCheck(c) \/ ResumeRefused(c) \/ ResumeLoad(c)
      BY <3>2, StepCall, MoveKeepsCancelled DEF ResumeCheck, ResumeRefused, ResumeLoad, Step
    <3>3. CASE ResumeStore(c) \/ ResumeSend(c) \/ ResumePublish(c)
      BY <3>3, StepCall, MoveKeepsCancelled DEF ResumeStore, ResumeSend, ResumePublish, Step
    <3> QED
      BY <2>4, <3>1, <3>2, <3>3 DEF ResumeStep
  <2>5. ASSUME NEW c \in Callers, CancelStep(c) PROVE CancelledInv'
    <3>1. CASE CancelCheck(c)
      <4>1. canceled' = canceled /\ \E to \in {"idle", "cancelStore"} : Step(c, "cancel", to)
        BY <3>1 DEF CancelCheck
      <4>2. /\ call'[c].pc \in {"idle", "cancelStore"}
            /\ \A d \in Callers \ {c} : call'[d] = call[d]
        BY <4>1, StepCall
      <4> QED
        BY <4>1, <4>2, MoveKeepsCancelled
    <3>2. CASE CancelPublish(c) \/ CancelSend(c) \/ CancelWake(c)
      <4>1. canceled
        BY <3>2 DEF CancelPublish, CancelSend, CancelWake, Step, CancelledInv
      <4>2. canceled' = canceled
        BY <3>2 DEF CancelPublish, CancelSend, CancelWake
      <4> QED
        BY <4>1, <4>2 DEF CancelledInv
    <3>3. CASE CancelStore(c)
      BY <3>3 DEF CancelStore, CancelledInv
    <3> QED
      BY <2>5, <3>1, <3>2, <3>3 DEF CancelStep
  <2>6. ASSUME NEW c \in Callers, NotifyStep(c) PROVE CancelledInv'
    BY <2>6, StepCall, MoveKeepsCancelled DEF NotifyStep, NotifyPaused, NotifyPausedPublish,
       NotifyResumed, NotifyResumedPublish, Step
  <2>7. CASE UNCHANGED vars
    BY <2>7 DEF vars, CancelledInv
  <2> QED
    BY <2>1, <2>2, <2>3, <2>4, <2>5, <2>6, <2>7 DEF Next, CallStep
<1> QED
  BY <1>1, <1>2, TypeCorrect, PTL DEF Spec

\* How many owe a token, before and after one caller has moved.
LEMMA OwingCount ==
  ASSUME IsFiniteSet(Callers)
  PROVE  /\ Cardinality(Callers) \in Nat /\ Cardinality(Owing) \in Nat
         /\ IsFiniteSet(Owing)
         /\ \A c \in Callers :
              /\ call[c].pc # "resumeSend" => Cardinality(Owing) + 1 <= Cardinality(Callers)
              /\ call[c].pc = "resumeSend" =>
                   Cardinality(Owing \ {c}) \in Nat
                   /\ Cardinality(Owing \ {c}) + 1 = Cardinality(Owing)
<1>1. Owing \in SUBSET Callers
  BY DEF Owing
<1>2. IsFiniteSet(Owing)
  BY <1>1, FS_Subset
<1>3. Cardinality(Callers) \in Nat /\ Cardinality(Owing) \in Nat
  BY <1>2, FS_CardinalityType
<1>4. ASSUME NEW c \in Callers, call[c].pc # "resumeSend"
      PROVE  Cardinality(Owing) + 1 <= Cardinality(Callers)
  <2>1. Owing \in SUBSET (Callers \ {c})
    BY <1>4 DEF Owing
  <2>2. IsFiniteSet(Callers \ {c}) /\ Cardinality(Callers \ {c}) = Cardinality(Callers) - 1
    BY FS_RemoveElement
  <2>3. Cardinality(Owing) <= Cardinality(Callers \ {c})
    BY <2>1, <2>2, FS_Subset
  <2> QED
    BY <1>3, <2>2, <2>3
<1>5. ASSUME NEW c \in Callers, call[c].pc = "resumeSend"
      PROVE  /\ Cardinality(Owing \ {c}) \in Nat
             /\ Cardinality(Owing \ {c}) + 1 = Cardinality(Owing)
  <2>1. c \in Owing
    BY <1>5 DEF Owing
  <2>2. IsFiniteSet(Owing \ {c}) /\ Cardinality(Owing \ {c}) = Cardinality(Owing) - 1
    BY <1>2, <2>1, FS_RemoveElement
  <2> QED
    BY <1>3, <2>2, FS_CardinalityType
<1> QED
  BY <1>2, <1>3, <1>4, <1>5

\* The counters that bound the leak are numbers.
LEMMA LeakType ==
  ASSUME TypeOK
  PROVE  leaked \in Nat /\ InFlight \in {0, 1} /\ Buffered \in {0, 1}
  BY DEF TypeOK, InFlight, Buffered

\* The writer's steps keep LeakInv: a chunk passes for a token or for having been
\* in flight, and at the gate none does while paused is set.
LEMMA WriterKeepsLeak ==
  ASSUME TypeOK, IsFiniteSet(Callers), LeakInv, Read \/ Writer
  PROVE  LeakInv'
<1> USE OwingCount, LeakType DEF LeakInv, flags, chans, ghosts
<1>1. call' = call /\ Owing' = Owing /\ canceled' = canceled /\ paused' = paused
  BY DEF Owing, Read, Writer, CheckCanceled, CheckPaused, AnnouncePaused, WakeByResume,
     WakeByCancel, Forward, ForwardFails, PublishProgress, Cleanup
<1>2. CASE Forward
  <2>1. /\ wpc = "forward" /\ wpc' = "progress" /\ resumeCh' = resumeCh
        /\ leaked' = IF paused THEN leaked + 1 ELSE leaked
    BY <1>2 DEF Forward, Advance
  <2>2. InFlight = 1 /\ InFlight' = 0 /\ Buffered' = Buffered
    BY <2>1 DEF InFlight, Buffered
  <2> QED
    BY <1>1, <2>1, <2>2
<1>3. CASE WakeByResume
  <2>1. leaked' = leaked
    BY <1>3 DEF WakeByResume
  <2>2. InFlight = 0 /\ InFlight' = 1 /\ Buffered = 1 /\ Buffered' = 0
    BY <1>3 DEF WakeByResume, Advance, InFlight, Buffered
  <2> QED
    BY <1>1, <2>1, <2>2
<1>4. CASE CheckPaused
  <2>1. /\ paused => wpc' = "announce"
        /\ wpc = "gate" /\ UNCHANGED <<resumeCh, leaked>>
    BY <1>4 DEF CheckPaused, Advance
  <2>2. (paused => InFlight' = 0 /\ InFlight = 0) /\ Buffered' = Buffered
    BY <2>1 DEF InFlight, Buffered
  <2> QED
    BY <1>1, <2>1, <2>2
<1>5. CASE Read \/ CheckCanceled \/ AnnouncePaused \/ WakeByCancel \/ ForwardFails
           \/ PublishProgress \/ Cleanup
  <2>1. wpc' # "forward" /\ UNCHANGED <<resumeCh, leaked>>
    BY <1>5 DEF Read, CheckCanceled, AnnouncePaused, WakeByCancel, ForwardFails,
       PublishProgress, Cleanup, Advance
  <2>2. InFlight' = 0 /\ Buffered' = Buffered
    BY <2>1 DEF InFlight, Buffered
  <2> QED
    BY <1>1, <2>1, <2>2
<1> QED
  BY <1>2, <1>3, <1>4, <1>5 DEF Writer

\* A caller that neither owes a token nor comes to owe one keeps LeakInv when it
\* leaves the counted fields alone.
LEMMA QuietStepKeepsLeak ==
  ASSUME LeakInv, NEW c \in Callers,
         call[c].pc # "resumeSend", call'[c].pc # "resumeSend",
         \A d \in Callers \ {c} : call'[d] = call[d],
         UNCHANGED <<paused, canceled, resumeCh, wpc, leaked>>
  PROVE  LeakInv'
<1>1. Owing' = Owing
  BY DEF Owing
<1> QED
  BY <1>1 DEF LeakInv, InFlight, Buffered

\* The calls keep LeakInv: a pause starts to count while its caller owes nothing, and
\* a token is put where it was owed.
LEMMA CallKeepsLeak ==
  ASSUME TypeOK, IsFiniteSet(Callers), CancelledInv, LeakInv,
         NEW c \in Callers, Begin(c) \/ CallStep(c)
  PROVE  LeakInv'
<1> USE DEF flags, chans, ghosts, CallPCs
<1>1. CASE Begin(c)
  <2>1. PICK o \in Offered(c) : Enter(c, o)
    BY <1>1 DEF Begin
  <2>2. o.entry # "resumeSend"
    BY DEF Offered
  <2>3. /\ call[c].pc = "idle" /\ call'[c].pc = o.entry
        /\ \A d \in Callers \ {c} : call'[d] = call[d]
    BY <2>1 DEF Enter, TypeOK
  <2> QED
    BY <2>1, <2>2, <2>3, QuietStepKeepsLeak DEF Enter
<1>2. CASE PauseStep(c)
  <2>1. CASE PauseCheck(c) \/ PauseOwner(c) \/ PausePublish(c)
    BY <2>1, StepCall, QuietStepKeepsLeak DEF PauseCheck, PauseOwner, PausePublish, Step
  <2>2. CASE PauseStore(c)
    <3>1. /\ call[c].pc = "pauseStore" /\ call'[c].pc = "pauseOwner"
          /\ \A d \in Callers \ {c} : call'[d] = call[d]
      BY <2>2, StepCall DEF PauseStore, Step
    <3>2. /\ paused' = TRUE /\ leaked' = IF paused THEN leaked ELSE 0
          /\ UNCHANGED <<canceled, resumeCh, wpc>>
      BY <2>2 DEF PauseStore
    <3>3. Owing' = Owing
      BY <3>1 DEF Owing
    <3>4. Cardinality(Owing) + 1 <= Cardinality(Callers)
      BY <3>1, OwingCount
    <3>5. /\ Cardinality(Owing) \in Nat /\ Cardinality(Callers) \in Nat /\ leaked \in Nat
          /\ InFlight \in {0, 1} /\ Buffered \in {0, 1}
          /\ InFlight' = InFlight /\ Buffered' = Buffered
      BY <3>2, OwingCount, LeakType DEF InFlight, Buffered
    <3> QED
      BY <3>2, <3>3, <3>4, <3>5 DEF LeakInv
  <2> QED
    BY <1>2, <2>1, <2>2 DEF PauseStep
<1>3. CASE ResumeStep(c)
  <2>1. CASE ResumeCheck(c) \/ ResumeRefused(c) \/ ResumeLoad(c) \/ ResumePublish(c)
    BY <2>1, StepCall, QuietStepKeepsLeak
    DEF ResumeCheck, ResumeRefused, ResumeLoad, ResumePublish, Step
  <2>2. CASE ResumeOwner(c)
    BY <2>2, OwnerStep, QuietStepKeepsLeak DEF ResumeOwner
  <2>3. CASE ResumeStore(c)
    BY <2>3 DEF ResumeStore, LeakInv
  <2>4. CASE ResumeSend(c)
    <3>1. /\ call[c].pc = "resumeSend" /\ call'[c].pc = "resumePublish"
          /\ \A d \in Callers \ {c} : call'[d] = call[d]
      BY <2>4, StepCall DEF ResumeSend, Step
    <3>2. resumeCh' = TRUE /\ UNCHANGED <<paused, canceled, wpc, leaked>>
      BY <2>4 DEF ResumeSend
    <3>3. Owing' = Owing \ {c}
      BY <3>1 DEF Owing
    <3>4. /\ Cardinality(Owing \ {c}) \in Nat
          /\ Cardinality(Owing \ {c}) + 1 = Cardinality(Owing)
      BY <3>1, OwingCount
    <3>5. /\ Cardinality(Owing) \in Nat /\ Cardinality(Callers) \in Nat /\ leaked \in Nat
          /\ InFlight \in {0, 1} /\ Buffered \in {0, 1}
          /\ InFlight' = InFlight /\ Buffered' = 1
      BY <3>2, OwingCount, LeakType DEF InFlight, Buffered
    <3> QED
      BY <3>2, <3>3, <3>4, <3>5 DEF LeakInv
  <2> QED
    BY <1>3, <2>1, <2>2, <2>3, <2>4 DEF ResumeStep
<1>4. CASE CancelStep(c)
  <2>1. CASE CancelCheck(c)
    BY <2>1, StepCall, QuietStepKeepsLeak DEF CancelCheck, Step
  <2>2. CASE CancelStore(c)
    BY <2>2 DEF CancelStore, LeakInv
  <2>3. CASE CancelPublish(c) \/ CancelSend(c) \/ CancelWake(c)
    <3>1. canceled /\ canceled' = canceled
      BY <2>3 DEF CancelPublish, CancelSend, CancelWake, Step, CancelledInv
    <3> QED
      BY <3>1 DEF LeakInv
  <2> QED
    BY <1>4, <2>1, <2>2, <2>3 DEF CancelStep
<1>5. CASE NotifyStep(c)
  BY <1>5, StepCall, QuietStepKeepsLeak DEF NotifyStep, NotifyPaused,
     NotifyPausedPublish, NotifyResumed, NotifyResumedPublish, Step
<1> QED
  BY <1>1, <1>2, <1>3, <1>4, <1>5 DEF CallStep

\* However many goroutines pause and resume, a pause of a live transfer leaks at most
\* one chunk for each of them and one more.
THEOREM LeakIsBounded ==
  ASSUME IsFiniteSet(Callers)
  PROVE  Spec => []LeakBound
<1>1. Init => LeakInv
  <2>1. Cardinality(Callers) \in Nat
    BY FS_CardinalityType
  <2> SUFFICES ASSUME Init PROVE LeakInv
    OBVIOUS
  <2>2. leaked = 0 /\ ~paused
    BY DEF Init
  <2> QED
    BY <2>1, <2>2 DEF LeakInv
<1>2. TypeOK /\ CancelledInv /\ LeakInv /\ [Next]_vars => LeakInv'
  <2> SUFFICES ASSUME TypeOK, CancelledInv, LeakInv, [Next]_vars PROVE LeakInv'
    OBVIOUS
  <2>1. CASE UNCHANGED vars
    <3>1. Owing' = Owing
      BY <2>1 DEF vars, Owing
    <3> QED
      BY <2>1, <3>1 DEF vars, flags, chans, ghosts, LeakInv, InFlight, Buffered
  <2> QED
    BY <2>1, WriterKeepsLeak, CallKeepsLeak DEF Next
<1>3. LeakInv => LeakBound
  BY DEF LeakInv, LeakBound
<1> QED
  BY <1>1, <1>2, <1>3, TypeCorrect, CancelledHolds, PTL DEF Spec

-----------------------------------------------------------------------------
(* Who holds a pause                                                         *)

\* Where a call stands that is about to name an owner, or to end the pause whose
\* owner it took away.
Holding == \E c \in Callers : call[c].pc \in {"pauseOwner", "resumeLoad", "resumeStore"}
Owned == pausedBy # ""
Named == \A c \in Callers : call[c].pc = "idle" \/ call[c].who \in Sides
Notices == {"notifyPaused", "notifyPausedPublish", "notifyResumed", "notifyResumedPublish"}
NoNotice == direction = "push" => \A c \in Callers : call[c].pc \notin Notices
OwnerInv == Named /\ (direction = "push" /\ paused /\ ~Owned => Holding)

\* What a step of a call does to the calls.
LEMMA StepMoves ==
  ASSUME TypeOK, NEW c \in Callers, NEW from, NEW to, Step(c, from, to)
  PROVE  /\ call[c].pc = from /\ call'[c].pc = to /\ direction' = direction
         /\ to # "idle" => call'[c].who = call[c].who
         /\ \A d \in Callers \ {c} : call'[d] = call[d]
<1> DEFINE next == IF to = "idle" THEN Idle ELSE [call[c] EXCEPT !.pc = to]
<1>1. call' = [call EXCEPT ![c] = next] /\ direction' = direction /\ call[c].pc = from
  BY DEF Step
<1>2. call \in [Callers -> Calls]
  BY Zenon DEF TypeOK
<1>3. call[c] = [pc |-> call[c].pc, who |-> call[c].who, prev |-> call[c].prev]
  <2>1. call[c] \in Calls
    BY <1>2
  <2> QED
    BY <2>1 DEF Calls
<1>4. Idle.pc = "idle"
  BY DEF Idle
<1>5. next.pc = to /\ (to # "idle" => next.who = call[c].who)
  BY <1>3, <1>4
<1> HIDE DEF next
<1>6. call'[c] = next /\ \A d \in Callers \ {c} : call'[d] = call[d]
  BY ONLY <1>1, <1>2, c \in Callers
<1> QED
  BY <1>1, <1>5, <1>6

\* A step that leaves the pause alone, of a call that does not hold it.
LEMMA MoveKeepsOwner ==
  ASSUME OwnerInv, NEW c \in Callers, \A d \in Callers \ {c} : call'[d] = call[d],
         call'[c].pc = "idle" \/ call'[c].who \in Sides, direction' = direction,
         paused' => paused, pausedBy' = pausedBy,
         call[c].pc \notin {"pauseOwner", "resumeLoad", "resumeStore"}
  PROVE  OwnerInv'
<1>1. Named'
  BY DEF OwnerInv, Named
<1>2. Holding => Holding'
  BY DEF Holding
<1>3. Owned' <=> Owned
  BY Zenon DEF Owned
<1> QED
  BY <1>1, <1>2, <1>3 DEF OwnerInv

\* A step of a call keeps OwnerInv: Resume takes the owner away only on its way to
\* the load, and lets go of the pause only by ending it.
LEMMA CallKeepsOwner ==
  ASSUME TypeOK, OwnerInv, NEW c \in Callers, CallStep(c), direction = "push" => ~NotifyStep(c)
  PROVE  OwnerInv'
<1>0. /\ call \in [Callers -> Calls]
      /\ call[c].pc # "idle" => call[c].who \in Sides
  BY Zenon DEF TypeOK, OwnerInv, Named
<1>1. ASSUME NEW from \in CallPCs \ {"idle", "pauseOwner", "resumeLoad", "resumeStore"},
             NEW to, Step(c, from, to), paused' = paused, pausedBy' = pausedBy
      PROVE  OwnerInv'
  <2>1. /\ call[c].pc = from /\ call'[c].pc = to /\ direction' = direction
        /\ to # "idle" => call'[c].who = call[c].who
        /\ \A d \in Callers \ {c} : call'[d] = call[d]
    BY <1>1, StepMoves
  <2>2. call'[c].pc = "idle" \/ call'[c].who \in Sides
    BY <1>0, <2>1
  <2> QED
    BY ONLY OwnerInv, <1>1, <2>1, <2>2, MoveKeepsOwner, c \in Callers
\* The call comes to hold the pause, if anybody must.
<1>2. ASSUME NEW from \in CallPCs \ {"idle"}, NEW to \in {"pauseOwner", "resumeStore"}, Step(c, from, to)
      PROVE  OwnerInv'
  <2>1. /\ call[c].pc = from /\ call'[c].pc = to
        /\ to # "idle" => call'[c].who = call[c].who
        /\ \A d \in Callers \ {c} : call'[d] = call[d]
    BY <1>2, StepMoves
  <2>2. Named'
    BY <1>0, <2>1 DEF OwnerInv, Named
  <2>3. Holding'
    BY <2>1 DEF Holding
  <2> QED
    BY <2>2, <2>3 DEF OwnerInv
\* The call settles the matter, by an owner or by the end of the pause.
<1>3. ASSUME NEW from \in CallPCs \ {"idle"}, NEW to, Step(c, from, to), Owned' \/ ~paused'
      PROVE  OwnerInv'
  <2>1. /\ call[c].pc = from /\ call'[c].pc = to
        /\ to # "idle" => call'[c].who = call[c].who
        /\ \A d \in Callers \ {c} : call'[d] = call[d]
    BY <1>3, StepMoves
  <2>2. Named'
    BY <1>0, <2>1 DEF OwnerInv, Named
  <2> QED
    BY <1>3, <2>2 DEF OwnerInv
<1> USE DEF flags, chans, ghosts, CallPCs
<1>4. ASSUME PauseStep(c) PROVE OwnerInv'
  <2>1. CASE PauseCheck(c)
    BY <1>1, <2>1 DEF PauseCheck
  <2>2. CASE PauseStore(c)
    BY <1>2, <2>2 DEF PauseStore
  <2>3. CASE PauseOwner(c)
    <3>1. call[c].who \in Sides /\ pausedBy' = call[c].who
      BY <1>0, <2>3 DEF PauseOwner, Step
    <3>2. Owned'
      BY <3>1, Zenon DEF Owned, Sides
    <3> QED
      BY <1>3, <2>3, <3>2 DEF PauseOwner
  <2>4. CASE PausePublish(c)
    BY <1>1, <2>4 DEF PausePublish
  <2> QED
    BY <1>4, <2>1, <2>2, <2>3, <2>4 DEF PauseStep
<1>5. ASSUME ResumeStep(c) PROVE OwnerInv'
  <2>1. CASE ResumeCheck(c)
    BY <1>1, <2>1 DEF ResumeCheck
  <2>2. CASE ResumeRefused(c)
    <3>1. Step(c, "resumeOwner", "idle") /\ paused' = paused /\ pausedBy' = pausedBy
      BY <2>2, Zenon DEF ResumeRefused
    <3> QED
      BY <1>1, <3>1
  <2>3. CASE ResumeOwner(c)
    <3>1. call' = [call EXCEPT ![c].pc = "resumeLoad", ![c].prev = pausedBy] /\ call[c].pc = "resumeOwner"
      BY <2>3, Zenon DEF ResumeOwner
    <3>2. call'[c].pc = "resumeLoad" /\ call'[c].who = call[c].who
          /\ \A d \in Callers \ {c} : call'[d] = call[d]
      BY <1>0, <3>1 DEF Calls
    <3>3. Named'
      BY <1>0, <3>1, <3>2 DEF OwnerInv, Named
    <3>4. Holding'
      BY <3>2 DEF Holding
    <3> QED
      BY <3>3, <3>4 DEF OwnerInv
  <2>4. CASE ResumeLoad(c)
    <3>1. CASE paused
      BY <1>2, <2>4, <3>1 DEF ResumeLoad
    <3>2. CASE ~paused
      BY <1>3, <2>4, <3>2 DEF ResumeLoad
    <3> QED
      BY <3>1, <3>2
  <2>5. CASE ResumeStore(c)
    BY <1>3, <2>5 DEF ResumeStore
  <2>6. CASE ResumeSend(c)
    BY <1>1, <2>6 DEF ResumeSend
  <2>7. CASE ResumePublish(c)
    BY <1>1, <2>7 DEF ResumePublish
  <2> QED
    BY <1>5, <2>1, <2>2, <2>3, <2>4, <2>5, <2>6, <2>7 DEF ResumeStep
<1>6. ASSUME CancelStep(c) PROVE OwnerInv'
  <2>1. CASE CancelCheck(c)
    BY <1>1, <2>1 DEF CancelCheck
  <2>2. CASE CancelStore(c)
    BY <1>1, <2>2 DEF CancelStore
  <2>3. CASE CancelPublish(c)
    BY <1>1, <2>3 DEF CancelPublish
  <2>4. CASE CancelSend(c)
    BY <1>1, <2>4 DEF CancelSend
  <2>5. CASE CancelWake(c)
    BY <1>1, <2>5 DEF CancelWake
  <2> QED
    BY <1>6, <2>1, <2>2, <2>3, <2>4, <2>5 DEF CancelStep
\* In a pull the claim is about the names only.
<1>7. ASSUME NotifyStep(c) PROVE OwnerInv'
  <2>1. \E from \in CallPCs \ {"idle"}, to \in CallPCs : Step(c, from, to)
    BY <1>7, Zenon DEF NotifyStep, NotifyPaused, NotifyPausedPublish, NotifyResumed, NotifyResumedPublish
  <2>2. PICK from \in CallPCs \ {"idle"}, to \in CallPCs : Step(c, from, to)
    BY <2>1
  <2>3. /\ call[c].pc = from /\ call'[c].pc = to /\ direction' = direction
        /\ to # "idle" => call'[c].who = call[c].who
        /\ \A d \in Callers \ {c} : call'[d] = call[d]
    BY <2>2, StepMoves
  <2>4. Named'
    BY <1>0, <2>3 DEF OwnerInv, Named
  <2> QED
    BY <1>7, <2>3, <2>4 DEF OwnerInv
<1> QED
  BY <1>4, <1>5, <1>6, <1>7 DEF CallStep

\* The reverse-pipe reader of a push relays its peer by Pause and Resume, never by
\* a notification.
LEMMA CallKeepsNoNotice ==
  ASSUME TypeOK, NoNotice, NEW c \in Callers, CallStep(c)
  PROVE  NoNotice' /\ (direction = "push" => ~NotifyStep(c))
<1>1. NotifyStep(c) => call[c].pc \in Notices
  <2>1. NotifyPaused(c) \/ NotifyPausedPublish(c) => call[c].pc \in Notices
    BY Zenon DEF NotifyPaused, NotifyPausedPublish, Step, Notices
  <2>2. NotifyResumed(c) \/ NotifyResumedPublish(c) => call[c].pc \in Notices
    BY Zenon DEF NotifyResumed, NotifyResumedPublish, Step, Notices
  <2> QED
    BY <2>1, <2>2 DEF NotifyStep
<1>2. direction = "push" => ~NotifyStep(c)
  BY <1>1 DEF NoNotice
<1>3. ASSUME NEW from, NEW to, to \notin Notices, Step(c, from, to) PROVE NoNotice'
  <2>1. /\ call'[c].pc = to /\ direction' = direction
        /\ \A d \in Callers \ {c} : call'[d] = call[d]
    BY <1>3, StepMoves
  <2> QED
    BY <1>3, <2>1 DEF NoNotice
<1>4. ASSUME PauseStep(c) PROVE NoNotice'
  <2>1. \E from, to \in {"idle", "pause", "pauseStore", "pauseOwner", "pausePublish"} : Step(c, from, to)
    BY <1>4 DEF PauseStep, PauseCheck, PauseStore, PauseOwner, PausePublish
  <2> QED
    BY <1>3, <2>1 DEF Notices
<1>5. ASSUME ResumeStep(c) PROVE NoNotice'
  <2>1. CASE ResumeOwner(c)
    <3>1. call' = [call EXCEPT ![c].pc = "resumeLoad", ![c].prev = pausedBy] /\ direction' = direction
      BY <2>1, Zenon DEF ResumeOwner
    <3>2. call \in [Callers -> Calls]
      BY Zenon DEF TypeOK
    <3>3. call'[c].pc = "resumeLoad" /\ \A d \in Callers \ {c} : call'[d] = call[d]
      BY <3>1, <3>2 DEF Calls
    <3> QED
      BY <3>1, <3>3 DEF NoNotice, Notices
  <2>2. CASE ResumeRefused(c)
    <3>1. Step(c, "resumeOwner", "idle")
      BY <2>2, Zenon DEF ResumeRefused
    <3> QED
      BY <1>3, <3>1 DEF Notices
  <2>3. CASE ~ResumeOwner(c) /\ ~ResumeRefused(c)
    <3>1. \E from, to \in {"idle", "resume", "resumeOwner", "resumeLoad", "resumeStore", "resumeSend",
                            "resumePublish"} : Step(c, from, to)
      BY <1>5, <2>3 DEF ResumeStep, ResumeCheck, ResumeLoad, ResumeStore, ResumeSend, ResumePublish
    <3> QED
      BY <1>3, <3>1 DEF Notices
  <2> QED
    BY <2>1, <2>2, <2>3
<1>6. ASSUME CancelStep(c) PROVE NoNotice'
  <2>1. \E from, to \in {"idle", "cancel", "cancelStore", "cancelPublish", "cancelSend", "cancelWake"} :
           Step(c, from, to)
    BY <1>6 DEF CancelStep, CancelCheck, CancelStore, CancelPublish, CancelSend, CancelWake
  <2> QED
    BY <1>3, <2>1 DEF Notices
<1>7. ASSUME NotifyStep(c) PROVE NoNotice'
  <2>1. direction # "push"
    BY <1>2, <1>7
  <2>2. direction' = direction
    BY <1>7, Zenon DEF NotifyStep, NotifyPaused, NotifyPausedPublish, NotifyResumed, NotifyResumedPublish, Step
  <2> QED
    BY <2>1, <2>2 DEF NoNotice
<1> QED
  BY <1>2, <1>4, <1>5, <1>6, <1>7 DEF CallStep

\* A paused push has an owner once the calls have returned, whatever calls of
\* however many goroutines overlapped (Pause stores the flag before the owner, and
\* Resume clears the owner before the flag): no pause is left that anybody may end.
THEOREM PausedPushIsOwned == Spec => [](direction = "push" /\ Quiet /\ paused => pausedBy # "")
<1> DEFINE Claim == direction = "push" /\ Quiet /\ paused => pausedBy # ""
<1>1. Init => OwnerInv /\ NoNotice
  <2> SUFFICES ASSUME Init PROVE OwnerInv /\ NoNotice
    OBVIOUS
  <2>1. ~paused
    BY Zenon DEF Init
  <2>2. \A c \in Callers : call[c] = Idle
    BY Zenon DEF Init
  <2>3. Idle.pc = "idle"
    BY DEF Idle
  <2> QED
    BY <2>1, <2>2, <2>3 DEF OwnerInv, Named, NoNotice, Notices
<1>2. TypeOK /\ OwnerInv /\ NoNotice /\ [Next]_vars => (OwnerInv /\ NoNotice)'
  <2> SUFFICES ASSUME TypeOK, OwnerInv, NoNotice, [Next]_vars PROVE OwnerInv' /\ NoNotice'
    OBVIOUS
  <2> USE DEF flags
  <2>1. ASSUME call' = call, UNCHANGED <<direction, flags>> PROVE OwnerInv' /\ NoNotice'
    <3>1. Owned' <=> Owned
      BY <2>1, Zenon DEF Owned
    <3> QED
      BY <2>1, <3>1 DEF OwnerInv, Named, Holding, NoNotice
  <2>2. ASSUME Read \/ Writer PROVE OwnerInv' /\ NoNotice'
    <3>1. call' = call /\ UNCHANGED <<direction, flags>>
      BY <2>2 DEF Read, Writer, CheckCanceled, CheckPaused, AnnouncePaused, WakeByResume, WakeByCancel,
         Forward, ForwardFails, PublishProgress, Cleanup, Advance, flags
    <3> QED
      BY <2>1, <3>1
  <2>3. ASSUME NEW c \in Callers, Begin(c) PROVE OwnerInv' /\ NoNotice'
    <3>1. PICK o \in Offered(c) : Enter(c, o)
      BY <2>3 DEF Begin
    <3>2. o.who \in Sides
      BY DEF Offered, Sides, LocalSide, RemoteSide
    <3>3. call[c].pc = "idle" /\ UNCHANGED <<direction, flags>>
      BY <3>1, Zenon DEF Enter
    <3>4. call'[c].who = o.who /\ call'[c].pc = o.entry /\ \A d \in Callers \ {c} : call'[d] = call[d]
      <4>0. PICK nobody : nobody = ""
        BY Zenon
      <4>1. call' = [call EXCEPT ![c] = [pc |-> o.entry, who |-> o.who, prev |-> nobody]]
        BY <3>1, <4>0, Zenon DEF Enter
      <4>2. call \in [Callers -> Calls]
        BY Zenon DEF TypeOK
      <4>3. call'[c] = [pc |-> o.entry, who |-> o.who, prev |-> nobody]
            /\ \A d \in Callers \ {c} : call'[d] = call[d]
        BY ONLY <4>1, <4>2, c \in Callers, Zenon
      <4> QED
        BY ONLY <4>3
    <3>5. call'[c].who \in Sides
      BY <3>2, <3>4
    <3>6. direction' = direction /\ paused' = paused /\ pausedBy' = pausedBy
      BY <3>3
    <3>7. OwnerInv'
      BY ONLY OwnerInv, <3>3, <3>4, <3>5, <3>6, MoveKeepsOwner, c \in Callers
    <3>8. direction = "push" => o.entry \notin Notices
      BY DEF Offered, Notices
    <3>9. NoNotice'
      BY <3>4, <3>6, <3>8 DEF NoNotice
    <3> QED
      BY <3>7, <3>9
  <2>4. ASSUME NEW c \in Callers, CallStep(c) PROVE OwnerInv' /\ NoNotice'
    <3>1. NoNotice' /\ (direction = "push" => ~NotifyStep(c))
      BY <2>4, CallKeepsNoNotice
    <3> QED
      BY <2>4, <3>1, CallKeepsOwner
  <2>5. CASE UNCHANGED vars
    BY <2>1, <2>5 DEF vars
  <2> QED
    BY <2>2, <2>3, <2>4, <2>5 DEF Next
<1>3. OwnerInv => Claim
  <2>1. Quiet => ~Holding
    BY DEF Quiet, Holding
  <2> QED
    BY <2>1, Zenon DEF OwnerInv, Owned
<1> HIDE DEF Claim
<1>4. Spec => []Claim
  BY <1>1, <1>2, <1>3, TypeCorrect, PTL DEF Spec
<1> QED
  BY <1>4 DEF Claim

-----------------------------------------------------------------------------
(* The safety half of WriteComesBack: nobody goes round in circles           *)

\* How far Write is from its return, and a call from its end.
WriterRank(l) == CASE l = "check" -> 6 [] l = "gate" -> 5 [] l = "announce" -> 4
                   [] l = "select" -> 3 [] l = "forward" -> 2
                   [] l \in {"progress", "ended"} -> 1 [] OTHER -> 0
CallRank(l) == CASE l = "resume" -> 6 [] l \in {"resumeOwner", "cancel"} -> 5
                 [] l \in {"resumeLoad", "cancelStore", "pause"} -> 4
                 [] l \in {"resumeStore", "cancelPublish", "pauseStore"} -> 3
                 [] l \in {"resumeSend", "cancelSend", "pauseOwner", "notifyPaused", "notifyResumed"} -> 2
                 [] l \in {"resumePublish", "cancelWake", "pausePublish", "notifyPausedPublish",
                           "notifyResumedPublish"} -> 1
                 [] OTHER -> 0

\* Write only moves when io.Copy hands it a chunk or towards its return, and a call
\* only when it begins or towards its end; nobody moves anybody else.
WriterOn == wpc = "read" \/ WriterRank(wpc') < WriterRank(wpc)
CallOn(c) == call[c].pc = "idle" \/ CallRank(call'[c].pc) < CallRank(call[c].pc)
Others(c) == \A d \in Callers \ {c} : call'[d] = call[d]
Forwards == /\ wpc' # wpc => WriterOn
            /\ \A c \in Callers : call'[c] # call[c] => CallOn(c) /\ wpc' = wpc /\ Others(c)
OnlyForward == [][Forwards]_vars

\* No Write spins and no call starts over, whatever the flags do meanwhile (a Resume
\* and a Pause that overtake each other included): with the scheduler's fairness all
\* that may hold a Write up is the select, whose tokens NoLostWakeup accounts for.
THEOREM WritesRunOut == Spec => OnlyForward
<1>1. ASSUME Read \/ Writer PROVE call' = call /\ WriterOn
  <2>1. CASE Read
    BY <2>1 DEF Read, Advance, WriterOn
  <2>2. CASE CheckCanceled \/ CheckPaused
    BY <2>2 DEF CheckCanceled, CheckPaused, Advance, WriterRank, WriterOn
  <2>3. CASE AnnouncePaused \/ WakeByResume \/ WakeByCancel
    BY <2>3 DEF AnnouncePaused, WakeByResume, WakeByCancel, Advance, WriterRank, WriterOn
  <2>4. CASE Forward \/ ForwardFails \/ PublishProgress \/ Cleanup
    BY <2>4 DEF Forward, ForwardFails, PublishProgress, Cleanup, Advance, WriterRank, WriterOn
  <2> QED
    BY <1>1, <2>1, <2>2, <2>3, <2>4 DEF Writer
<1>2. ASSUME TypeOK, NEW c \in Callers, Begin(c) PROVE wpc' = wpc /\ CallOn(c) /\ Others(c)
  <2>1. PICK o : Enter(c, o)
    BY <1>2, Zenon DEF Begin
  <2>2. call[c].pc = "idle" /\ wpc' = wpc /\ \E r : call' = [call EXCEPT ![c] = r]
    BY <2>1, Zenon DEF Enter
  <2>3. call \in [Callers -> Calls]
    BY <1>2, Zenon DEF TypeOK
  <2>4. Others(c)
    BY <2>2, <2>3 DEF Others
  <2> QED
    BY <2>2, <2>4 DEF CallOn
<1>3. ASSUME TypeOK, NEW c \in Callers, NEW from, NEW to, Step(c, from, to),
             CallRank(to) < CallRank(from), wpc' = wpc
      PROVE  wpc' = wpc /\ CallOn(c) /\ Others(c)
  <2>1. call[c].pc = from /\ call'[c].pc = to /\ Others(c)
    BY <1>3, StepMoves DEF Others
  <2> QED
    BY <1>3, <2>1 DEF CallOn
<1>4. ASSUME TypeOK, NEW c \in Callers, CallStep(c) PROVE wpc' = wpc /\ CallOn(c) /\ Others(c)
  <2> DEFINE Forth == \E from, to : Step(c, from, to) /\ CallRank(to) < CallRank(from) /\ wpc' = wpc
  <2>1. CASE PauseStep(c)
    <3>1. PauseCheck(c) \/ PauseStore(c) => Forth
      BY DEF PauseCheck, PauseStore, CallRank
    <3>2. PauseOwner(c) \/ PausePublish(c) => Forth
      BY DEF PauseOwner, PausePublish, CallRank
    <3> QED
      BY <1>3, <1>4, <2>1, <3>1, <3>2 DEF PauseStep
  <2>2. CASE ResumeOwner(c)
    <3>1. /\ call' = [call EXCEPT ![c].pc = "resumeLoad", ![c].prev = pausedBy]
          /\ call[c].pc = "resumeOwner" /\ wpc' = wpc
      BY <2>2, Zenon DEF ResumeOwner
    <3>2. call \in [Callers -> Calls]
      BY <1>4, Zenon DEF TypeOK
    <3>3. call'[c].pc = "resumeLoad" /\ Others(c)
      BY <3>1, <3>2 DEF Calls, Others
    <3>4. CallRank("resumeLoad") < CallRank("resumeOwner")
      BY DEF CallRank
    <3> QED
      BY <3>1, <3>3, <3>4 DEF CallOn
  <2>3. CASE ResumeStep(c) /\ ~ResumeOwner(c)
    <3>1. ResumeRefused(c) => Forth
      <4>1. ResumeRefused(c) => Step(c, "resumeOwner", "idle") /\ wpc' = wpc
        BY Zenon DEF ResumeRefused
      <4>2. CallRank("idle") < CallRank("resumeOwner")
        BY DEF CallRank
      <4> QED
        BY <4>1, <4>2
    <3>2. ResumeCheck(c) \/ ResumeLoad(c) => Forth
      BY DEF ResumeCheck, ResumeLoad, CallRank
    <3>3. ResumeStore(c) \/ ResumeSend(c) \/ ResumePublish(c) => Forth
      BY DEF ResumeStore, ResumeSend, ResumePublish, CallRank
    <3> QED
      BY <1>3, <1>4, <2>3, <3>1, <3>2, <3>3 DEF ResumeStep
  <2>4. CASE CancelStep(c)
    <3>1. CancelCheck(c) \/ CancelStore(c) => Forth
      BY DEF CancelCheck, CancelStore, CallRank
    <3>2. CancelPublish(c) \/ CancelSend(c) \/ CancelWake(c) => Forth
      BY DEF CancelPublish, CancelSend, CancelWake, CallRank
    <3> QED
      BY <1>3, <1>4, <2>4, <3>1, <3>2 DEF CancelStep
  <2>5. CASE NotifyStep(c)
    <3>1. NotifyPaused(c) \/ NotifyPausedPublish(c) => Forth
      BY DEF NotifyPaused, NotifyPausedPublish, CallRank
    <3>2. NotifyResumed(c) => Forth
      <4>1. NotifyResumed(c) => Step(c, "notifyResumed", "notifyResumedPublish") /\ wpc' = wpc
        BY Zenon DEF NotifyResumed
      <4>2. CallRank("notifyResumedPublish") < CallRank("notifyResumed")
        BY DEF CallRank
      <4> QED
        BY <4>1, <4>2
    <3>3. NotifyResumedPublish(c) => Forth
      BY DEF NotifyResumedPublish, CallRank
    <3> QED
      BY <1>3, <1>4, <2>5, <3>1, <3>2, <3>3 DEF NotifyStep
  <2> QED
    BY <1>4, <2>1, <2>2, <2>3, <2>4, <2>5 DEF CallStep
<1>5. ASSUME TypeOK, Next PROVE Forwards
  <2>1. ASSUME NEW c \in Callers, wpc' = wpc, CallOn(c), Others(c) PROVE Forwards
    <3>1. \A d \in Callers : call'[d] # call[d] => d = c
      BY <2>1 DEF Others
    <3> QED
      BY <2>1, <3>1 DEF Forwards
  <2>2. CASE Read \/ Writer
    <3>1. call' = call /\ WriterOn
      BY <1>1, <2>2
    <3> QED
      BY <3>1 DEF Forwards
  <2> QED
    BY <1>2, <1>4, <1>5, <2>1, <2>2 DEF Next
<1>6. TypeOK /\ [Next]_vars => [Forwards]_vars
  BY <1>5
<1> QED
  BY <1>6, TypeCorrect, PTL DEF Spec, OnlyForward

=============================================================================
