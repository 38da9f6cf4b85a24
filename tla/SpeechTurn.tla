----------------------------- MODULE SpeechTurn -----------------------------
(***************************************************************************)
(* The web server's side of speaking a reply: SpeechTurn of                *)
(* app/domain/ai_backend_client.py (a bounded queue, one worker task that  *)
(* calls the backend's speak endpoint, finalize and cancel) and the stream *)
(* of app/api/calls.py (create_call_turn.events) that feeds it, finalizes  *)
(* it from a second task and cancels it on every way out.                  *)
(*                                                                         *)
(* One event loop: a step is what a task does between two suspensions.     *)
(***************************************************************************)
EXTENDS Naturals, Sequences

CONSTANTS
    QueueCapacity,  \* SPEECH_TURN_QUEUE_CAPACITY
    MaxSegments,    \* bound on the segments of a reply
    MaxCancels,     \* bound on cancellations of the stream's task
    None

ASSUME CapacityAssumption == QueueCapacity \in Nat \ {0}
ASSUME SegmentsAssumption == MaxSegments \in Nat \ {0}
ASSUME CancelsAssumption == MaxCancels \in Nat
ASSUME NoneAssumption ==
    None \notin Nat \cup {"normal", "cancelled", "error"} \cup [ordinal : Nat, final : BOOLEAN]

VARIABLES
    \* _queue, _next_segment_ordinal, _closed, _terminal (its status)
    queue, nextOrdinal, closed, terminal,
    \* _worker: where it is, what it speaks, whether it was told to cancel
    worker, item, killed,
    \* _cancel_task, the one shielded call of the backend's cancel endpoint
    cancelTask,
    \* events(): where it is, the segment of a blocked put, the frame that
    \* called cancel(), cancellations seen
    pc, held, frame, cancels,
    \* terminal_task, the task that runs finalize()
    fin,
    \* ordinals the backend was asked to speak, and those it accepted
    sent, accepted

turn == <<queue, nextOrdinal, closed, terminal>>
speaker == <<worker, item, killed>>
backend == <<sent, accepted>>
stream == <<pc, held, frame, cancels>>
vars == <<turn, speaker, cancelTask, stream, fin, backend>>

Items == [ordinal : 0..MaxSegments, final : BOOLEAN]
Live == {"created", "getting", "speaking"}

TypeOK ==
    /\ queue \in Seq(Items) /\ Len(queue) <= QueueCapacity
    /\ nextOrdinal \in 0..(MaxSegments + 1)
    /\ closed \in BOOLEAN
    /\ terminal \in {None, "normal", "cancelled", "error"}
    /\ worker \in {"none", "done"} \cup Live
    /\ item \in Items \cup {None} /\ killed \in BOOLEAN
    /\ cancelTask \in {"none", "running", "done"}
    /\ pc \in {"generating", "putting", "waiting", "recording", "gathering", "awaiting",
               "done"}
    /\ held \in Items \cup {None}
    /\ frame \in {"try", "handler", "finally"}
    /\ cancels \in 0..MaxCancels
    /\ fin \in {"none", "putting", "waiting", "done", "raised"}
    /\ sent \in Seq(0..MaxSegments) /\ accepted \in Seq(0..MaxSegments)

Init ==
    /\ queue = <<>> /\ nextOrdinal = 0 /\ closed = FALSE /\ terminal = None
    /\ worker = "none" /\ item = None /\ killed = FALSE
    /\ cancelTask = "none"
    /\ pc = "generating" /\ held = None /\ frame = "try" /\ cancels = 0
    /\ fin = "none"
    /\ sent = <<>> /\ accepted = <<>>
-----------------------------------------------------------------------------
(* The scheduler *)

Open == ~closed /\ terminal = None      \* _require_open

Room == Len(queue) < QueueCapacity      \* a put would not wait

\* _new_submission
NewSubmission(final) == [ordinal |-> nextOrdinal, final |-> final]

\* A put that does not wait (any more), then _ensure_worker.
Put(i) ==
    /\ queue' = Append(queue, i)
    /\ worker' = IF worker = "none" THEN "created" ELSE worker

\* fault: the backend is told first and the worker left to finish
CancelBackendFirst(f) ==
    /\ closed' = TRUE /\ frame' = f /\ held' = None
    /\ cancelTask' = IF cancelTask = "none" THEN "running" ELSE cancelTask
    /\ pc' = IF worker \in Live THEN "gathering" ELSE "awaiting"
    /\ UNCHANGED killed

\* cancel() up to its first wait, called from frame f of events().
EnterCancel(f) ==
    /\ closed' = TRUE /\ frame' = f /\ held' = None
    /\ IF worker \in Live
       THEN killed' = TRUE /\ pc' = "gathering" /\ UNCHANGED cancelTask
       ELSE /\ cancelTask' = IF cancelTask = "none" THEN "running" ELSE cancelTask
            /\ pc' = "awaiting" /\ UNCHANGED killed
-----------------------------------------------------------------------------
(* events(): generation *)

\* The reply grew a segment: submit it.  A full queue suspends the stream.
Segment ==
    /\ pc = "generating" /\ nextOrdinal < MaxSegments /\ Open
    /\ nextOrdinal' = nextOrdinal + 1
    /\ IF Room
       THEN Put(NewSubmission(FALSE)) /\ UNCHANGED <<pc, held>>
       ELSE pc' = "putting" /\ held' = NewSubmission(FALSE) /\ UNCHANGED <<queue, worker>>
    /\ UNCHANGED <<closed, terminal, item, killed, cancelTask, frame, cancels, fin, backend>>

\* submit() raises SpeechTurnClosedError: the worker failed in the meantime.
SegmentRefused ==
    /\ pc = "generating" /\ ~Open
    /\ EnterCancel("handler")
    /\ UNCHANGED <<queue, nextOrdinal, terminal, worker, item, cancels, fin, backend>>

\* fault: a put that had to wait puts nothing
PutForgets ==
    /\ pc = "putting" /\ Room
    /\ UNCHANGED queue
    /\ IF terminal = None
       THEN pc' = "generating" /\ held' = None /\ UNCHANGED <<closed, frame, killed, cancelTask>>
       ELSE EnterCancel("handler")
    /\ UNCHANGED <<nextOrdinal, terminal, worker, item, cancels, fin, backend>>

\* The blocked put went through; it raises if the turn became terminal.
PutResumes ==
    /\ pc = "putting" /\ Room
    /\ queue' = Append(queue, held)
    /\ IF terminal = None
       THEN pc' = "generating" /\ held' = None /\ UNCHANGED <<closed, frame, killed, cancelTask>>
       ELSE EnterCancel("handler")
    /\ UNCHANGED <<nextOrdinal, terminal, worker, item, cancels, fin, backend>>

\* An error event of the LLM, or a reply without visible text.  The interrupt that the stream
\* sends the backend afterwards changes nothing here; SpokenTurn has it.
GenerationFails ==
    /\ pc = "generating"
    /\ IF nextOrdinal = 0
       THEN pc' = "done" /\ UNCHANGED <<closed, held, frame, killed, cancelTask>>
       ELSE EnterCancel("try")
    /\ UNCHANGED <<queue, nextOrdinal, terminal, worker, item, cancels, fin, backend>>

\* The reply is complete: terminal_task runs finalize up to its first wait.
GenerationEnds ==
    /\ pc = "generating"
    /\ pc' = "waiting"
    /\ IF Open
       THEN /\ nextOrdinal' = nextOrdinal + 1
            /\ IF Room
               THEN /\ Put(NewSubmission(TRUE))
                    /\ closed' = TRUE /\ fin' = "waiting"
               ELSE fin' = "putting" /\ UNCHANGED <<queue, worker, closed>>
       ELSE fin' = "raised" /\ UNCHANGED <<queue, nextOrdinal, closed, worker>>
    /\ UNCHANGED <<terminal, item, killed, cancelTask, held, frame, cancels, backend>>
-----------------------------------------------------------------------------
(* finalize(), in its own task: it survives the stream *)

FinalizePuts ==
    /\ fin = "putting" /\ Room
    /\ queue' = Append(queue, [ordinal |-> nextOrdinal - 1, final |-> TRUE])
    /\ closed' = TRUE
    /\ fin' = "waiting"
    /\ UNCHANGED <<nextOrdinal, terminal, speaker, cancelTask, stream, backend>>

\* The worker ended; a cancelled one raises here, and nobody awaits that.
FinalizeReturns ==
    /\ fin = "waiting" /\ worker = "done"
    /\ fin' = IF killed THEN "raised" ELSE "done"
    /\ terminal' = IF ~killed /\ terminal = None THEN "error" ELSE terminal
    /\ UNCHANGED <<queue, nextOrdinal, closed, speaker, cancelTask, stream, backend>>

\* events() sees the end of terminal_task: only a normal terminal is recorded.
Poll ==
    /\ pc = "waiting"
    /\ \/ /\ fin = "done"
          /\ pc' = IF terminal = "normal" THEN "recording" ELSE "done"
          /\ UNCHANGED <<closed, held, frame, killed, cancelTask>>
       \/ fin = "raised" /\ EnterCancel("handler")
    /\ UNCHANGED <<queue, nextOrdinal, terminal, worker, item, cancels, fin, backend>>

\* record_completed_ai_speech, which CallTurns models.
Record ==
    /\ pc = "recording"
    /\ pc' = "done"
    /\ UNCHANGED <<turn, speaker, cancelTask, held, frame, cancels, fin, backend>>
-----------------------------------------------------------------------------
(* The worker, _run() *)

\* It returns or raises: the finally discards what is queued.
WorkerEnds(status) ==
    /\ worker' = "done" /\ item' = None
    /\ terminal' = status
    /\ queue' = <<>>

WorkerStarts ==
    /\ worker = "created" /\ ~killed
    /\ worker' = "getting"
    /\ UNCHANGED <<turn, item, killed, cancelTask, stream, fin, backend>>

WorkerGets ==
    /\ worker = "getting" /\ ~killed /\ queue # <<>>
    /\ \/ /\ terminal # None
          /\ WorkerEnds(terminal) /\ UNCHANGED sent
       \/ /\ terminal = None
          /\ item' = Head(queue) /\ queue' = Tail(queue)
          /\ worker' = "speaking" /\ sent' = Append(sent, Head(queue).ordinal)
          /\ UNCHANGED terminal
    /\ UNCHANGED <<nextOrdinal, closed, killed, cancelTask, stream, fin, accepted>>

\* _speech_terminal_from_response: queued (or ai_done) lets the turn go on.
KeepsSpeaking(response) == response = "normal" /\ ~item.final

\* speak_call answered, failed or timed out.
WorkerSpoke(response) ==
    /\ worker = "speaking" /\ ~killed
    /\ accepted' = IF response = "normal" THEN Append(accepted, item.ordinal) ELSE accepted
    /\ IF KeepsSpeaking(response)
       THEN worker' = "getting" /\ item' = None /\ UNCHANGED <<terminal, queue>>
       ELSE WorkerEnds(response)
    /\ UNCHANGED <<nextOrdinal, closed, killed, cancelTask, stream, fin, sent>>

\* CancelledError: a task that never ran has no finally, one that waits for a
\* segment leaves the terminal alone, one that speaks makes it "cancelled".
WorkerCancelled ==
    /\ worker \in Live /\ killed
    /\ \/ /\ worker = "created"
          /\ worker' = "done" /\ UNCHANGED <<item, terminal, queue>>
       \/ worker = "getting" /\ WorkerEnds(terminal)
       \/ worker = "speaking" /\ WorkerEnds("cancelled")
    /\ UNCHANGED <<nextOrdinal, closed, killed, cancelTask, stream, fin, backend>>
-----------------------------------------------------------------------------
(* Cancellation of the stream *)

CanBeCancelled == cancels < MaxCancels

\* A hangup, an interrupt or a disconnect cancels the task at any await; the
\* handler of CancelledError cancels the speech turn if there is one.
StreamCancelled ==
    /\ pc \in {"generating", "putting", "waiting", "recording"} /\ CanBeCancelled
    /\ cancels' = cancels + 1
    /\ IF nextOrdinal = 0
       THEN pc' = "done" /\ UNCHANGED <<closed, held, frame, killed, cancelTask>>
       ELSE EnterCancel("handler")
    /\ UNCHANGED <<queue, nextOrdinal, terminal, worker, item, fin, backend>>

\* The finally of events(): cancel a turn that has no terminal yet.
Leave ==
    IF nextOrdinal = 0 \/ terminal # None
    THEN pc' = "done" /\ UNCHANGED <<closed, held, frame, killed, cancelTask>>
    ELSE EnterCancel("finally")

\* The response is dropped between two events: GeneratorExit at a yield.
StreamClosed ==
    /\ pc \in {"generating", "waiting"} /\ CanBeCancelled
    /\ cancels' = cancels + 1
    /\ Leave
    /\ UNCHANGED <<queue, nextOrdinal, terminal, worker, item, fin, backend>>

\* cancel(): the worker is gone, the backend is told once.
Gathered ==
    /\ pc = "gathering" /\ worker = "done"
    /\ cancelTask' = IF cancelTask = "none" THEN "running" ELSE cancelTask
    /\ pc' = "awaiting"
    /\ UNCHANGED <<turn, speaker, held, frame, cancels, fin, backend>>

\* The stream is cancelled again while it gathers the worker: cancel() raises,
\* and what comes next depends on the frame that called it.  A dropped response
\* is closed by a task of the event loop that nobody cancels.
GatherCancelled ==
    /\ pc = "gathering" /\ worker = "done" /\ CanBeCancelled
    /\ cancels' = cancels + 1
    /\ \/ frame = "try" /\ EnterCancel("handler")
       \/ frame = "handler" /\ Leave
    /\ UNCHANGED <<queue, nextOrdinal, terminal, worker, item, fin, backend>>

\* _cancel_backend_turn, shielded from everything that happens to the stream.
BackendCancelled ==
    /\ cancelTask = "running"
    /\ cancelTask' = "done"
    /\ UNCHANGED <<turn, speaker, stream, fin, backend>>

\* The backend acknowledged, failed, took SPEECH_TURN_CANCEL_TIMEOUT_SECONDS, or
\* the stream was cancelled again (swallowed): settle the terminal and discard.
CancelReturns ==
    /\ pc = "awaiting"
    /\ terminal' = IF terminal \in {None, "normal"} THEN "cancelled" ELSE terminal
    /\ queue' = <<>>
    /\ pc' = "done"
    /\ UNCHANGED <<nextOrdinal, closed, speaker, cancelTask, held, frame, cancels, fin,
                   backend>>
-----------------------------------------------------------------------------
Generation == Segment \/ SegmentRefused \/ PutResumes \/ GenerationFails \/ GenerationEnds
Finalize == FinalizePuts \/ FinalizeReturns
Worker ==
    \/ WorkerStarts \/ WorkerGets \/ WorkerCancelled
    \/ \E response \in {"normal", "cancelled", "error"} : WorkerSpoke(response)
Leaving == Poll \/ Record \/ Gathered \/ CancelReturns

Next ==
    \/ Generation \/ Finalize \/ Worker \/ Leaving \/ BackendCancelled
    \/ StreamCancelled \/ StreamClosed \/ GatherCancelled

Spec == Init /\ [][Next]_vars
-----------------------------------------------------------------------------
(* Safety *)

\* A normal terminal, which alone lets the reply into the history, means the
\* backend accepted every segment of it and the final chunk, in order: no full
\* queue, failure or cancellation in between loses one silently.
WholeReplySpoken ==
    terminal = "normal" =>
        /\ Len(accepted) = nextOrdinal
        /\ \A n \in 1..nextOrdinal : accepted[n] = n - 1

\* Once the backend was told to cancel the turn no segment of it is sent, so the
\* cancellation is not overtaken by the worker, finalize or a blocked put.
NoSpeakAfterCancel == [][cancelTask # "none" => sent' = sent]_vars

\* No worker outlives its stream: when events() is over the backend has no call
\* pending that nobody listens to.
WorkerEndsWithStream == pc = "done" => worker \notin Live

\* The end of a turn is clean: no worker outlives its stream and nothing is sent after the
\* cancellation.
TurnEndsClean == []WorkerEndsWithStream /\ NoSpeakAfterCancel
=============================================================================
