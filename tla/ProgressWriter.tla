---------------------------- MODULE ProgressWriter ----------------------------
(***************************************************************************)
(* The progressWriter of internal/transfer/progress.go: io.Copy drives its  *)
(* Write method in one goroutine while HTTP handlers, control connections   *)
(* and the reverse-pipe reader call Pause, Resume, Cancel, NotifyPausedBy   *)
(* and NotifyResumed on it from others.  A step of the model is one access  *)
(* to shared memory: an atomic load or store, a section under mu, a channel *)
(* operation, or the publication of a status together with the signal that  *)
(* follows it.                                                              *)
(***************************************************************************)
EXTENDS Naturals, FiniteSets

CONSTANTS
    UserCallers,  \* goroutines of the local API (POST /api/v1/transfers/...)
    PeerCallers   \* goroutines that relay the peer: the reverse-pipe reader of
                  \* a push, the control-connection handlers of a pull

VARIABLES
    direction,           \* "push" on the sending daemon, "pull" on the receiving one
    paused, canceled,    \* the atomic.Bool flags
    pausedBy,            \* guarded by mu; "" when nobody holds the pause
    resumeCh, cancelCh,  \* channels of capacity 1: TRUE when a token is buffered
    status,              \* the status this transfer last published on the hub
    wpc,                 \* where the goroutine that runs io.Copy stands
    call,                \* what each caller is executing
    late,                \* history: chunks forwarded since canceled was set
    leaked               \* history: chunks forwarded since paused was last set

flags  == <<paused, canceled, pausedBy>>
chans  == <<resumeCh, cancelCh>>
ghosts == <<late, leaked>>
vars   == <<direction, flags, chans, status, wpc, call, ghosts>>

Callers    == UserCallers \cup PeerCallers
LocalSide  == IF direction = "push" THEN "sender" ELSE "receiver"
RemoteSide == IF direction = "push" THEN "receiver" ELSE "sender"

Statuses   == {"transferring", "paused", "completed", "cancelled"}
WriterPCs  == {"read", "check", "gate", "announce", "select", "forward",
               "progress", "ended", "gone"}
CallPCs    == {"idle", "pause", "pauseStore", "pauseOwner", "pausePublish",
               "resume", "resumeOwner", "resumeLoad", "resumeStore",
               "resumeSend", "resumePublish",
               "cancel", "cancelStore", "cancelPublish", "cancelSend",
               "cancelWake",
               "notifyPaused", "notifyPausedPublish",
               "notifyResumed", "notifyResumedPublish"}
Sides      == {"sender", "receiver"}
Calls      == [pc : CallPCs, who : Sides \cup {""}, prev : Sides \cup {""}]
Idle       == [pc |-> "idle", who |-> "", prev |-> ""]

Init ==
    /\ direction \in {"push", "pull"}
    /\ paused = FALSE /\ canceled = FALSE /\ pausedBy = ""
    /\ resumeCh = FALSE /\ cancelCh = FALSE
    /\ status = "transferring"
    /\ wpc = "read"
    /\ call = [c \in Callers |-> Idle]
    /\ late = 0 /\ leaked = 0

-----------------------------------------------------------------------------
(* The goroutine that runs io.Copy(pw, reader), and Write in it.            *)

Advance(from, to) == wpc = from /\ wpc' = to /\ UNCHANGED direction

\* reader.Read returned a chunk, or EOF or an error.
Read ==
    /\ Advance("read", "check") \/ Advance("read", "ended")
    /\ UNCHANGED <<flags, chans, status, call, ghosts>>

\* Mutant: Write without its first test.
CheckCanceledSkipped ==
    /\ Advance("check", "gate")
    /\ UNCHANGED <<flags, chans, status, call, ghosts>>

CheckCanceled ==
    /\ Advance("check", IF canceled THEN "ended" ELSE "gate")
    /\ UNCHANGED <<flags, chans, status, call, ghosts>>

\* Mutant: Write without the gate.
CheckPausedSkipped ==
    /\ Advance("gate", "forward")
    /\ UNCHANGED <<flags, chans, status, call, ghosts>>

CheckPaused ==
    /\ Advance("gate", IF paused THEN "announce" ELSE "forward")
    /\ UNCHANGED <<flags, chans, status, call, ghosts>>

AnnouncePaused ==
    /\ Advance("announce", "select")
    /\ status' = "paused"
    /\ UNCHANGED <<flags, chans, call, ghosts>>

\* The two arms of the select; Go picks either when both are ready.
WakeByResume ==
    /\ Advance("select", "forward")
    /\ resumeCh /\ resumeCh' = FALSE
    /\ UNCHANGED <<flags, cancelCh, status, call, ghosts>>

WakeByCancel ==
    /\ Advance("select", "ended")
    /\ cancelCh /\ cancelCh' = FALSE
    /\ UNCHANGED <<flags, resumeCh, status, call, ghosts>>

Forward ==
    /\ Advance("forward", "progress")
    /\ late'   = IF canceled THEN late + 1 ELSE late
    /\ leaked' = IF paused THEN leaked + 1 ELSE leaked
    /\ UNCHANGED <<flags, chans, status, call>>

\* The wrapped writer failed: io.Copy returns its error.
ForwardFails ==
    /\ Advance("forward", "ended")
    /\ UNCHANGED <<flags, chans, status, call, ghosts>>

\* Published only when 100 ms have passed since the last publication.
PublishProgress ==
    /\ Advance("progress", "read")
    /\ status' \in {status, "transferring", "completed"}
    /\ UNCHANGED <<flags, chans, call, ghosts>>

\* The deferred Cleanup: GlobalManager.Get no longer finds the writer.
Cleanup ==
    /\ Advance("ended", "gone")
    /\ UNCHANGED <<flags, chans, status, call, ghosts>>

Writer == \/ CheckCanceled \/ CheckPaused \/ AnnouncePaused
          \/ WakeByResume \/ WakeByCancel \/ Forward \/ ForwardFails
          \/ PublishProgress \/ Cleanup

-----------------------------------------------------------------------------
(* The callers.                                                             *)

\* c moves from one point of its call to the next; returning forgets its locals.
Step(c, from, to) ==
    /\ call[c].pc = from
    /\ call' = [call EXCEPT ![c] = IF to = "idle" THEN Idle
                                   ELSE [@ EXCEPT !.pc = to]]
    /\ UNCHANGED direction

\* What a goroutine of each kind calls, and on behalf of which side.
Offered(c) ==
    (IF c \in UserCallers
     THEN [entry : {"pause", "resume", "cancel"}, who : {LocalSide}] ELSE {})
    \cup
    (IF c \in PeerCallers
     THEN [entry : IF direction = "push" THEN {"pause", "resume", "cancel"}
                   ELSE {"notifyPaused", "notifyResumed", "cancel"},
           who : {RemoteSide}] ELSE {})

\* A caller looks the writer up in the manager; the reverse-pipe reader of a
\* push holds its own reference and needs no lookup.
Reaches(c) == wpc # "gone" \/ (direction = "push" /\ c \in PeerCallers)

Enter(c, o) ==
    /\ call[c].pc = "idle" /\ Reaches(c)
    /\ call' = [call EXCEPT ![c] = [pc |-> o.entry, who |-> o.who, prev |-> ""]]
    /\ UNCHANGED <<direction, flags, chans, status, wpc, ghosts>>

Begin(c) == \E o \in Offered(c) : Enter(c, o)

PauseCheck(c) ==
    /\ Step(c, "pause", IF paused \/ canceled THEN "idle" ELSE "pauseStore")
    /\ UNCHANGED <<flags, chans, status, wpc, ghosts>>

PauseStore(c) ==
    /\ Step(c, "pauseStore", "pauseOwner")
    /\ paused' = TRUE
    /\ leaked' = IF paused THEN leaked ELSE 0
    /\ UNCHANGED <<canceled, pausedBy, chans, status, wpc, late>>

PauseOwner(c) ==
    /\ Step(c, "pauseOwner", "pausePublish")
    /\ pausedBy' = call[c].who
    /\ UNCHANGED <<paused, canceled, chans, status, wpc, ghosts>>

PausePublish(c) ==
    /\ Step(c, "pausePublish", "idle")
    /\ status' = "paused"
    /\ UNCHANGED <<flags, chans, wpc, ghosts>>

ResumeCheck(c) ==
    /\ Step(c, "resume", IF canceled THEN "idle" ELSE "resumeOwner")
    /\ UNCHANGED <<flags, chans, status, wpc, ghosts>>

\* Under mu: refused when the other side paused, otherwise the owner is
\* cleared and remembered as prevPausedBy.
ResumeRefused(c) ==
    /\ pausedBy \notin {"", call[c].who}
    /\ Step(c, "resumeOwner", "idle")
    /\ UNCHANGED <<flags, chans, status, wpc, ghosts>>

\* Mutant: a wrong value for "nobody".
ResumeToNone(c) ==
    /\ call[c].pc = "resumeOwner" /\ pausedBy \in {"", call[c].who}
    /\ call' = [call EXCEPT ![c].pc = "resumeLoad", ![c].prev = pausedBy]
    /\ pausedBy' = "none"
    /\ UNCHANGED <<direction, paused, canceled, chans, status, wpc, ghosts>>

ResumeOwner(c) ==
    /\ call[c].pc = "resumeOwner" /\ pausedBy \in {"", call[c].who}
    /\ call' = [call EXCEPT ![c].pc = "resumeLoad", ![c].prev = pausedBy]
    /\ pausedBy' = ""
    /\ UNCHANGED <<direction, paused, canceled, chans, status, wpc, ghosts>>

ResumeLoad(c) ==
    /\ Step(c, "resumeLoad", IF paused THEN "resumeStore" ELSE "resumePublish")
    /\ UNCHANGED <<flags, chans, status, wpc, ghosts>>

ResumeStore(c) ==
    /\ Step(c, "resumeStore", "resumeSend")
    /\ paused' = FALSE
    /\ UNCHANGED <<canceled, pausedBy, chans, status, wpc, ghosts>>

\* Mutant: resumeCh without a buffer, so a token needs a Write already waiting.
ResumeSendUnbuffered(c) ==
    /\ Step(c, "resumeSend", "resumePublish")
    /\ resumeCh' = (wpc = "select")
    /\ UNCHANGED <<flags, cancelCh, status, wpc, ghosts>>

\* A send with a default arm: a token already buffered absorbs it.
ResumeSend(c) ==
    /\ Step(c, "resumeSend", "resumePublish")
    /\ resumeCh' = TRUE
    /\ UNCHANGED <<flags, cancelCh, status, wpc, ghosts>>

ResumePublish(c) ==
    /\ Step(c, "resumePublish", "idle")
    /\ status' = "transferring"
    /\ UNCHANGED <<flags, chans, wpc, ghosts>>

CancelCheck(c) ==
    /\ Step(c, "cancel", IF canceled THEN "idle" ELSE "cancelStore")
    /\ UNCHANGED <<flags, chans, status, wpc, ghosts>>

CancelStore(c) ==
    /\ Step(c, "cancelStore", "cancelPublish")
    /\ canceled' = TRUE
    /\ UNCHANGED <<paused, pausedBy, chans, status, wpc, ghosts>>

\* Mutant: Cancel returns without waking Write.
CancelPublishOnly(c) ==
    /\ Step(c, "cancelPublish", "idle")
    /\ status' = "cancelled"
    /\ UNCHANGED <<flags, chans, wpc, ghosts>>

CancelPublish(c) ==
    /\ Step(c, "cancelPublish", "cancelSend")
    /\ status' = "cancelled"
    /\ UNCHANGED <<flags, chans, wpc, ghosts>>

CancelSend(c) ==
    /\ Step(c, "cancelSend", "cancelWake")
    /\ cancelCh' = TRUE
    /\ UNCHANGED <<flags, resumeCh, status, wpc, ghosts>>

CancelWake(c) ==
    /\ Step(c, "cancelWake", "idle")
    /\ resumeCh' = TRUE
    /\ UNCHANGED <<flags, cancelCh, status, wpc, ghosts>>

NotifyPaused(c) ==
    /\ Step(c, "notifyPaused", "notifyPausedPublish")
    /\ pausedBy' = call[c].who
    /\ UNCHANGED <<paused, canceled, chans, status, wpc, ghosts>>

NotifyPausedPublish(c) ==
    /\ Step(c, "notifyPausedPublish", "idle")
    /\ status' = "paused"
    /\ UNCHANGED <<flags, chans, wpc, ghosts>>

NotifyResumed(c) ==
    /\ Step(c, "notifyResumed", "notifyResumedPublish")
    /\ pausedBy' = ""
    /\ UNCHANGED <<paused, canceled, chans, status, wpc, ghosts>>

NotifyResumedPublish(c) ==
    /\ Step(c, "notifyResumedPublish", "idle")
    /\ status' = "transferring"
    /\ UNCHANGED <<flags, chans, wpc, ghosts>>

PauseStep(c)  == PauseCheck(c) \/ PauseStore(c) \/ PauseOwner(c) \/ PausePublish(c)
ResumeStep(c) == \/ ResumeCheck(c) \/ ResumeRefused(c) \/ ResumeOwner(c)
                 \/ ResumeLoad(c) \/ ResumeStore(c) \/ ResumeSend(c)
                 \/ ResumePublish(c)
CancelStep(c) == \/ CancelCheck(c) \/ CancelStore(c) \/ CancelPublish(c)
                 \/ CancelSend(c) \/ CancelWake(c)
NotifyStep(c) == \/ NotifyPaused(c) \/ NotifyPausedPublish(c)
                 \/ NotifyResumed(c) \/ NotifyResumedPublish(c)
CallStep(c)   == PauseStep(c) \/ ResumeStep(c) \/ CancelStep(c) \/ NotifyStep(c)

Next == Read \/ Writer \/ \E c \in Callers : Begin(c) \/ CallStep(c)

\* The scheduler runs every runnable goroutine.  Nothing forces reader.Read to
\* return nor anybody to call.
Fairness == WF_vars(Writer) /\ \A c \in Callers : WF_vars(CallStep(c))

Spec     == Init /\ [][Next]_vars
FairSpec == Spec /\ Fairness

-----------------------------------------------------------------------------
(* Properties.                                                              *)

TypeOK ==
    /\ direction \in {"push", "pull"}
    /\ paused \in BOOLEAN /\ canceled \in BOOLEAN /\ pausedBy \in Sides \cup {""}
    /\ resumeCh \in BOOLEAN /\ cancelCh \in BOOLEAN
    /\ status \in Statuses
    /\ wpc \in WriterPCs
    /\ call \in [Callers -> Calls]
    /\ late \in Nat /\ leaked \in Nat

\* No wake-up is lost: while Write waits in its select, the token of a resume is
\* buffered or about to be sent unless the transfer is paused, and so is that of a
\* cancellation if there was one (the buffered resumeCh and cancelCh, progress.go:21).
NoLostWakeup ==
    wpc = "select" =>
        /\ ~paused => resumeCh \/ \E c \in Callers : call[c].pc = "resumeSend"
        /\ canceled => cancelCh \/ \E c \in Callers :
                                       call[c].pc \in {"cancelPublish", "cancelSend"}

\* Once canceled is set, Write passes on the chunk it was already working on and
\* no other, even when the select finds both channels ready.
AtMostOneLateChunk == late <= 1

\* How far a pause of a live transfer leaks: the chunk in flight, the token a Resume
\* left behind when no Write was waiting, and one token for each other caller caught
\* between its Store(false) and its send (Resume, progress.go:162-168).
LeakBound == ~canceled => leaked <= Cardinality(Callers) + 1

Quiet == \A c \in Callers : call[c].pc = "idle"

\* When no call is in progress, a Write that nothing is going to wake belongs to
\* a paused transfer: it is never asleep by accident.
AsleepOnlyIfPaused ==
    Quiet /\ wpc = "select" /\ ~resumeCh /\ ~cancelCh => paused /\ ~canceled

\* A cancelled Write returns, it neither stays at the gate nor keeps forwarding, and
\* Resume releases a sleeping one.
WriteComesBack ==
    /\ canceled /\ wpc # "read" ~> wpc \in {"read", "ended", "gone"}
    /\ wpc = "select" /\ ~paused ~> wpc # "select"
=============================================================================
