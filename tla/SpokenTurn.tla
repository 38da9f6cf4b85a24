----------------------------- MODULE SpokenTurn -----------------------------
(***************************************************************************)
(* One reply from the web server's queue to the peer's ears: SpeechTurn    *)
(* speaks through Playout.  The HTTP calls between them may be slow, lost  *)
(* or answered after the caller gave up; the user may press the interrupt  *)
(* button and the call may end at any moment.                              *)
(***************************************************************************)
EXTENDS SpeechTurn, Playout

VARIABLES
    \* a speak request on its way, or None
    mail,
    \* what went wrong between the two
    fault

spokenVars == <<vars, playVars, mail, fault>>
backendVars == <<track, job, marks, ctl, capt, ghosts, engine>>
Faults == {"none", "requestLost", "gaveUp", "cancelLost"}

SpokenInit == Init /\ PlayInit /\ mail = None /\ fault = "none"

SpokenTypeOK ==
    PlayTypeOK /\ mail \in Items \cup {None} /\ fault \in Faults

\* Bound: one thing goes wrong in a reply, or the user stops it once.
Untroubled == fault = "none" /\ ctl["button"] = "idle" /\ ctl["end"] = "idle"
Fault(f) == Untroubled /\ fault' = f
-----------------------------------------------------------------------------
\* Only Qwen3 replies are cut into segments; the others are spoken by finalize.
Incremental ==
    /\ engine = "stream"
    /\ Segment
    /\ UNCHANGED <<playVars, mail, fault>>

\* The worker sends its request.
WorkerSends ==
    /\ WorkerGets
    /\ IF worker' = "speaking" THEN mail' = item' /\ caller' = TRUE
                              ELSE UNCHANGED <<mail, caller>>
    /\ UNCHANGED <<backendVars, answer, fault>>

\* The request reaches speak_session.  The last one carries the rest of the reply,
\* or nothing when the segments before it were all of it.
RequestArrives ==
    /\ mail # None /\ mail' = None
    /\ \/ ~mail.final /\ Arrive("part")
       \/ mail.final /\ Arrive("final")
       \/ mail.final /\ mail.ordinal > 0 /\ Arrive("marker")
    /\ UNCHANGED <<vars, fault>>

\* It never does: the connection fails.
RequestLost ==
    /\ mail # None /\ mail' = None /\ Fault("requestLost")
    /\ answer' = IF caller THEN "error" ELSE "none"
    /\ UNCHANGED <<vars, backendVars, caller>>

\* _speech_terminal_from_response
TerminalOf(a) ==
    CASE a \in {"queued", "done"} -> "normal"
      [] a = "cancelled" -> "cancelled"
      [] OTHER -> "error"

\* The worker waits no more.
HangsUp == answer' = "none" /\ caller' = FALSE /\ UNCHANGED backendVars

\* The response comes in time ...
WorkerHears ==
    /\ answer # "none" /\ mail = None
    /\ WorkerSpoke(TerminalOf(answer))
    /\ HangsUp
    /\ UNCHANGED <<mail, fault>>

\* ... or too late: the request times out, whatever the backend does with it.
WorkerGivesUp ==
    /\ WorkerSpoke("error") /\ Fault("gaveUp")
    /\ HangsUp
    /\ UNCHANGED mail

WorkerKilled == WorkerCancelled /\ HangsUp /\ UNCHANGED <<mail, fault>>

\* The cancel request of SpeechTurn.cancel reaches the backend ...
CancelArrives ==
    /\ cancelTask = "running" /\ CancelTurn
    /\ UNCHANGED <<vars, mail, fault>>

CancelAnswered ==
    /\ BackendCancelled
    /\ ctl["web"] # "idle" \/ ctl["end"] # "idle"
    /\ UNCHANGED <<playVars, mail, fault>>

\* ... or never does.
CancelLost ==
    /\ BackendCancelled
    /\ ctl["web"] = "idle" /\ Fault("cancelLost")
    /\ UNCHANGED <<playVars, mail>>

\* Steps of the web server alone.
WebSteps ==
    /\ \/ SegmentRefused \/ PutResumes \/ GenerationFails \/ GenerationEnds
       \/ Finalize \/ WorkerStarts \/ Leaving
    /\ UNCHANGED <<playVars, mail, fault>>

WebCancelled ==
    /\ StreamCancelled \/ StreamClosed \/ GatherCancelled
    /\ UNCHANGED <<playVars, mail, fault>>

\* Steps of the backend alone.
BackendSteps == (Handler \/ Cancelling) /\ UNCHANGED <<vars, mail, fault>>
FramePlayed == Play /\ UNCHANGED <<vars, mail, fault>>

\* The user presses the button; or the stream asks for it after a failed generation, while
\* and after it cancels its own turn.
InterruptArrives == Untroubled /\ Interrupt /\ UNCHANGED <<vars, mail, fault>>
CallEnds == Untroubled /\ End /\ UNCHANGED <<vars, mail, fault>>

\* What happens by itself: event loops run what is ready, generation and synthesis
\* end or fail, waits are bounded, and the peer's sender pulls frames.
Progress ==
    \/ Incremental \/ WorkerSends \/ WorkerHears \/ WorkerKilled \/ WebSteps
    \/ RequestArrives \/ CancelArrives \/ CancelAnswered \/ BackendSteps \/ FramePlayed

SpokenNext ==
    \/ Progress \/ RequestLost \/ WorkerGivesUp \/ CancelLost \/ WebCancelled
    \/ InterruptArrives \/ CallEnds

SpokenSpec == SpokenInit /\ [][SpokenNext]_spokenVars

\* Some of it always happens.
SpokenFair == SpokenSpec /\ WF_spokenVars(Progress)
-----------------------------------------------------------------------------
\* A reply enters the history as spoken (a normal terminal) only when the peer was
\* sent every unit of its audio, once and in order.  The one exception: an interrupt
\* that captured no turn stops the track after the first segment was admitted.
NormalMeansHeard ==
    (terminal = "normal" /\ ~stray) => /\ Len(heard) = made
                                       /\ \A n \in 1..made : heard[n] = n

\* What the peer was sent and what waits for it is in order and never repeated,
\* whatever was dropped in between.
AudioInOrder ==
    LET s == heard \o line \o job.rest \o job.buffer IN
    \A i \in 2..Len(s) : s[i - 1] < s[i]

\* After the playout of a turn was stopped at most one chunk of it is queued again.
LateAudioIsOneChunk == late <= ChunkSize

\* Once a cancellation is finished the turn queues no audio.
AcknowledgedIsSilent == [][mark = "cancelled" => Len(line') <= Len(line)]_spokenVars

\* Generating or playing audio
Talking == Busy \ {"emitting"}

\* When the stream is over and the backend goes on with its turn unasked, then the
\* web server gave up on a request, its cancellation was lost or is on its way, or
\* a second cancellation of the stream kept it from being sent.
TalkIsExplained ==
    (pc = "done" /\ job.at \in Talking /\ mark = "none" /\ ctl["end"] = "idle") =>
        \/ fault \in {"gaveUp", "cancelLost"}
        \/ cancelTask = "running" \/ (killed /\ cancelTask = "none")

\* Every reply comes to its end: the stream returns (a put on a full queue is
\* released by a worker that failed, finalize by one that ended), and the backend is
\* idle and silent, whatever was lost, cancelled or stopped on the way.
ReplyEnds == <>[](pc = "done" /\ job = NoJob /\ line = <<>>)

\* The peer hears the reply: in order and never twice, and the whole of it when it enters
\* the history as spoken.
ReplyIsHeard == SpokenTypeOK /\ NormalMeansHeard /\ AudioInOrder

\* A turn that was stopped is quiet: one late chunk at most, nothing once the cancellation
\* is finished, and a backend that talks on was not reached.
StoppedIsQuiet == [](LateAudioIsOneChunk /\ TalkIsExplained) /\ AcknowledgedIsSilent
=============================================================================
