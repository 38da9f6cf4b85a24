------------------------------ MODULE Playout ------------------------------
(***************************************************************************)
(* The audio of one AI turn in the backend, sample by sample: the outbound *)
(* track (app/call/tracks.py, QueuedAudioOutputTrack) with its admission   *)
(* credit, its epoch and its idle wait, and the speak handler of           *)
(* app/call/session.py that fills it: the startup buffer, the blocked      *)
(* enqueue, the final wait, and the cancellations that silence it while    *)
(* the handler is suspended.                                               *)
(*                                                                         *)
(* A "stream" engine (Qwen3) speaks a segment per request in chunks; a     *)
(* "whole" engine gets the whole reply as one WAV.  The bridge of the      *)
(* producer thread and the queue of admissions are in SpeechLedger: here   *)
(* the next chunk simply comes.  A unit is a slice of audio, numbered in   *)
(* the order of its generation; every chunk has ChunkSize of them.         *)
(*                                                                         *)
(* No section of _pending_condition suspends but in wait(), so a step is   *)
(* what the handler does between two waits, and _pending_samples is always *)
(* the length of the queue and the buffer together (line).                 *)
(***************************************************************************)
EXTENDS Naturals, Sequences

CONSTANTS
    Credit,       \* max_pending_samples
    FrameSize,    \* frame_samples
    ChunkSize,    \* units of a chunk
    MaxChunks,    \* bound on the chunks of a segment
    StartChunks   \* CALL_TTS_STREAM_START_MIN_CHUNKS

ASSUME AudioAssumption ==
    /\ Credit \in Nat \ {0} /\ FrameSize \in Nat \ {0} /\ ChunkSize \in Nat \ {0}
    /\ MaxChunks \in Nat \ {0} /\ StartChunks \in Nat \ {0}

\* Who cancels: the web server, the interrupt button, the end of the call.
Cancellers == {"web", "button", "end"}

VARIABLES
    \* the track: _queue and _buffer, readyState = "live"
    line, live,
    \* the speak handler and its locals, its HTTP response, and whether the client
    \* still waits for it
    job, answer, caller,
    \* the turn: _cancelling/_cancelled_ai_turns, its ledger, the pending speech
    \* terminal, task.cancel() called on the handler
    mark, book, owed, doomed,
    \* cancellations: where each is, and what it captured
    ctl, capt,
    \* units generated, units sent to the peer, whether playout was ever stopped
    \* for this turn, units that entered the line after that; an interrupt that had
    \* found no speech dropped audio
    made, heard, silenced, late, stray,
    engine

track == <<line, live>>
marks == <<mark, book, owed, doomed>>
controls == <<ctl, capt, caller>>
ghosts == <<made, heard, silenced, late, stray>>
playVars == <<track, job, answer, marks, controls, ghosts, engine>>

Busy == {"streaming", "queueing", "joining", "synth", "draining", "emitting"}

\* Where the handler waits, what it carries, the rest of a blocked enqueue, whether
\* the epoch moved on under it and where it goes then; pending_chunks,
\* playback_started, chunk_count, playout_wait_completed.
Jobs == [at : Busy \cup {"idle"}, part : {"part", "final", "marker"}, rest : Seq(Nat),
         stale : BOOLEAN, back : {"streaming", "joined", "draining"}, buffer : Seq(Nat),
         started : BOOLEAN, got : 0..MaxChunks, drained : BOOLEAN]
NoJob == [at |-> "idle", part |-> "part", rest |-> <<>>, stale |-> FALSE,
          back |-> "streaming", buffer |-> <<>>, started |-> FALSE, got |-> 0,
          drained |-> FALSE]
Job(at, kind) == [NoJob EXCEPT !.at = at, !.part = kind]
Answers == {"none", "queued", "done", "undone", "cancelled", "discarded", "error"}
NoCapture == [turn |-> FALSE, task |-> FALSE, owed |-> FALSE]

PlayTypeOK ==
    /\ line \in Seq(Nat) /\ Len(line) <= Credit /\ live \in BOOLEAN
    /\ job \in Jobs /\ answer \in Answers /\ caller \in BOOLEAN
    /\ mark \in {"none", "cancelling", "cancelled"}
    /\ book \in {"active", "cancelled", "completed"}
    /\ owed \in BOOLEAN /\ doomed \in BOOLEAN
    /\ ctl \in [Cancellers -> {"idle", "ending", "stopping", "acking", "done"}]
    /\ capt \in [Cancellers -> [turn : BOOLEAN, task : BOOLEAN, owed : BOOLEAN]]
    /\ made \in Nat /\ heard \in Seq(Nat) /\ silenced \in BOOLEAN /\ late \in Nat
    /\ stray \in BOOLEAN
    /\ engine \in {"stream", "whole"}

PlayInit ==
    /\ line = <<>> /\ live = TRUE
    /\ job = NoJob /\ answer = "none" /\ caller = FALSE
    /\ mark = "none" /\ book = "active" /\ owed = FALSE /\ doomed = FALSE
    /\ ctl = [c \in Cancellers |-> "idle"] /\ capt = [c \in Cancellers |-> NoCapture]
    /\ made = 0 /\ heard = <<>> /\ silenced = FALSE /\ late = 0 /\ stray = FALSE
    /\ engine \in {"stream", "whole"}
-----------------------------------------------------------------------------
(* The track *)

Least(a, b) == IF a < b THEN a ELSE b
Take(s, n) == SubSeq(s, 1, Least(n, Len(s)))
Drop(s, n) == SubSeq(s, n + 1, Len(s))

\* recv: the sender pulls a frame; a short one is padded with silence.
Play ==
    /\ line # <<>>
    /\ heard' = heard \o Take(line, FrameSize)
    /\ line' = Drop(line, FrameSize)
    /\ UNCHANGED <<live, job, answer, marks, controls, made, silenced, late, stray, engine>>

\* The units of the chunk that s begins with; the units of s follow each other.
Chunk(s) == Take(s, ChunkSize - ((s[1] - 1) % ChunkSize))

Marked == mark # "none"

\* start_playback_from_buffer looks at the turn after each chunk, never before
\* the first: a cancelled turn still queues that one.
Wanted(s) == IF s # <<>> /\ Marked THEN Chunk(s) ELSE s

\* _admit_samples: what of s enters at once.
Fitting(s) ==
    IF live /\ Len(line) < Credit THEN Take(Wanted(s), Credit - Len(line)) ELSE <<>>
-----------------------------------------------------------------------------
(* The speak handler *)

Respond(a) == job' = NoJob /\ answer' = IF caller THEN a ELSE "none"
Waits(j) == job' = j /\ UNCHANGED <<answer, owed>>

\* Handler j goes on at b.  After the stream is joined a segment owes the terminal
\* to its turn, and the final one waits for the playout.
Goes(j, b) ==
    IF b = "streaming" THEN Waits([j EXCEPT !.at = b])
    ELSE IF b = "draining" THEN Waits(Job("draining", j.part))
    ELSE IF Marked THEN Respond("cancelled") /\ UNCHANGED owed
    ELSE IF j.part = "part" THEN Respond("queued") /\ owed' = TRUE
    ELSE Waits(Job("draining", j.part))

\* enqueue(s) by handler j, which then goes on at b.
Enqueue(j, s, b) ==
    LET in == Fitting(s)
        all == ~live \/ Len(in) = Len(Wanted(s))
    IN  /\ line' = line \o in
        /\ late' = IF silenced THEN late + Len(in) ELSE late
        /\ IF all
           THEN Goes([j EXCEPT !.started = @ \/ ~Marked, !.rest = <<>>, !.stale = FALSE], b)
           ELSE Waits([j EXCEPT !.at = "queueing", !.rest = Drop(s, Len(in)), !.back = b])

Quiet == UNCHANGED <<line, late>>
Rest == UNCHANGED <<live, mark, book, doomed, controls, heard, silenced, stray, engine>>

\* fault: a frame that is played wakes nobody
ResumeUnwoken ==
    /\ job.at = "queueing" /\ ~doomed
    /\ job.stale \/ ~live
    /\ Goes([job EXCEPT !.started = @ \/ ~Marked, !.rest = <<>>, !.stale = FALSE], job.back)
    /\ UNCHANGED made /\ Quiet /\ Rest

\* The wait for credit is over: room, a newer epoch, or the track ended.
Resume ==
    /\ job.at = "queueing" /\ ~doomed
    /\ \/ /\ job.stale \/ ~live
          /\ Goes([job EXCEPT !.started = @ \/ ~Marked, !.rest = <<>>, !.stale = FALSE],
                  job.back)
          /\ Quiet
       \/ /\ ~job.stale /\ live /\ Len(line) < Credit
          /\ Enqueue(job, job.rest, job.back)
    /\ UNCHANGED made /\ Rest

\* A speak request is admitted, or refused by the ledger; the marker of an
\* incremental turn needs a pending terminal and no admission.
Arrive(kind) ==
    /\ job = NoJob
    /\ IF book # "active" \/ (kind = "marker" /\ ~owed)
       THEN Respond("error")
       ELSE /\ job' = Job(IF kind = "marker" THEN "draining"
                          ELSE IF engine = "stream" THEN "streaming" ELSE "synth", kind)
            /\ answer' = "none"
    /\ UNCHANGED <<owed, made>> /\ Quiet /\ Rest

NewUnits == [n \in 1..ChunkSize |-> made + n]

\* startup_buffer_ready: enough chunks, and enough seconds (which depends on them).
Ready(s) == Len(s) >= StartChunks * ChunkSize

\* A chunk of the stream: dropped once the turn is marked, buffered until playback
\* starts, queued after that.
TakeChunk ==
    /\ job.at = "streaming" /\ ~doomed /\ job.got < MaxChunks
    /\ IF Marked
       THEN Waits([job EXCEPT !.at = "joining"]) /\ Quiet /\ UNCHANGED made
       ELSE LET s == job.buffer \o NewUnits
                j == [job EXCEPT !.got = @ + 1, !.buffer = <<>>]
            IN  /\ made' = made + ChunkSize
                /\ \/ (job.started \/ Ready(s)) /\ Enqueue(j, s, "streaming")
                   \/ ~job.started /\ Waits([j EXCEPT !.buffer = s]) /\ Quiet
    /\ Rest

\* CALL_TTS_STREAM_MAX_STARTUP_BUFFER_SECONDS passed with too few chunks.
StartupTimeout ==
    /\ job.at = "streaming" /\ ~doomed /\ ~job.started /\ job.buffer # <<>>
    /\ Enqueue([job EXCEPT !.buffer = <<>>], job.buffer, "streaming")
    /\ UNCHANGED made /\ Rest

\* The sentinel of the producer.
StreamEnds ==
    /\ job.at = "streaming" /\ ~doomed
    /\ Waits([job EXCEPT !.at = "joining"])
    /\ UNCHANGED made /\ Quiet /\ Rest

\* The producer's exception, or a failed synthesis: the handler's except.
SynthesisFails ==
    /\ job.at \in {"streaming", "synth"} /\ ~doomed
    /\ Respond(IF Marked /\ job.at = "streaming" THEN "cancelled" ELSE "error")
    /\ UNCHANGED <<owed, made>> /\ Quiet /\ Rest

\* The producer thread is gone; what never reached the start threshold is played.
Join ==
    /\ job.at = "joining" /\ ~doomed
    /\ IF job.got = 0
       THEN Respond(IF Marked THEN "cancelled" ELSE "error") /\ Quiet /\ UNCHANGED owed
       ELSE Enqueue([job EXCEPT !.buffer = <<>>], job.buffer, "joined")
    /\ UNCHANGED made /\ Rest

\* A whole WAV: only a finished cancellation is noticed.
Synthesized ==
    /\ job.at = "synth" /\ ~doomed
    /\ IF mark = "cancelled"
       THEN Respond("cancelled") /\ Quiet /\ UNCHANGED <<owed, made>>
       ELSE made' = made + ChunkSize /\ Enqueue(job, NewUnits, "draining")
    /\ Rest

\* ... without samples: its final event says that nothing was played out.
SynthesizedEmpty ==
    /\ job.at = "synth" /\ ~doomed
    /\ IF mark = "cancelled"
       THEN Respond("cancelled") /\ UNCHANGED owed
       ELSE Waits(Job("emitting", "final"))
    /\ UNCHANGED made /\ Quiet /\ Rest

\* wait_until_idle when it returns; a stopped track is idle too.
Idle == live /\ line = <<>>

\* The final wait ends: the track is idle, it ended, or the time is up.
Drained ==
    /\ job.at = "draining" /\ ~doomed
    /\ IF \/ job.part = "final" /\ Marked /\ engine = "stream"
          \/ mark = "cancelled" /\ engine = "whole"
       THEN Respond("cancelled") /\ UNCHANGED owed
       ELSE /\ job' = [job EXCEPT !.at = "emitting", !.drained = Idle]
            /\ owed' = (owed /\ engine # "stream")
            /\ UNCHANGED answer
    /\ UNCHANGED made /\ Quiet /\ Rest

\* fault: ai_done is delivered whatever became of its turn
DeliverAnyway ==
    /\ job.at = "emitting" /\ ~doomed
    /\ Respond(IF job.drained THEN "done" ELSE "undone")
    /\ book' = IF book = "active" THEN "completed" ELSE book
    /\ UNCHANGED <<track, mark, owed, doomed, controls, ghosts, engine>>

\* emit_event(ai_done): _deliver_event discards that of a cancelled turn or an
\* ended call; then the segment is committed.
Deliver ==
    /\ job.at = "emitting" /\ ~doomed
    /\ Respond(IF Marked \/ ctl["end"] # "idle" THEN "discarded"
               ELSE IF job.drained THEN "done" ELSE "undone")
    /\ book' = IF book = "active" THEN "completed" ELSE book
    /\ UNCHANGED <<track, mark, owed, doomed, controls, ghosts, engine>>

\* CancelledError in the handler: 502.
Unwind ==
    /\ doomed
    /\ doomed' = FALSE /\ mark' = "cancelled" /\ book' = "cancelled"
    /\ Respond("error")
    /\ UNCHANGED <<track, owed, controls, ghosts, engine>>
-----------------------------------------------------------------------------
(* Cancellations *)

\* _capture_turn_cancellation_locked: an admitted handler, else a pending terminal.
Admitted ==
    job # NoJob /\ job.part # "marker" /\ ~(engine = "whole" /\ job.at = "emitting")

Owns == Admitted \/ owed

\* stop() of the track, which discards what waits
Discard == line' = <<>>
StopTrack == live' = FALSE /\ Discard

Capture(c) ==
    /\ capt' = [capt EXCEPT ![c] = [turn |-> Owns, task |-> Admitted, owed |-> owed]]
    /\ mark' = IF Owns /\ ~Marked THEN "cancelling" ELSE mark
    /\ UNCHANGED <<job, answer, caller, owed, doomed, ghosts, engine>>

CancelBook == book' = IF book = "active" THEN "cancelled" ELSE book

\* cancel_speech_turn: a turn without speech only has its ledger cancelled.
CancelTurn ==
    /\ ctl["web"] = "idle" /\ ctl["end"] = "idle"
    /\ Capture("web") /\ CancelBook
    /\ ctl' = [ctl EXCEPT !["web"] = IF Owns THEN "stopping" ELSE "done"]
    /\ UNCHANGED track

\* interrupt: without speech it marks nothing and stops what plays.
Interrupt ==
    /\ ctl["button"] = "idle" /\ ctl["end"] = "idle"
    /\ Capture("button")
    /\ IF Owns THEN CancelBook ELSE UNCHANGED book
    /\ ctl' = [ctl EXCEPT !["button"] = "stopping"]
    /\ UNCHANGED track

\* _transition_terminal_locked: every ledger is cancelled ...
End ==
    /\ ctl["end"] = "idle"
    /\ CancelBook
    /\ ctl' = [ctl EXCEPT !["end"] = "ending"]
    /\ UNCHANGED <<track, job, answer, mark, owed, doomed, capt, caller, ghosts, engine>>

\* ... and its cleanup task cancels the speech there is.
EndCaptures ==
    /\ ctl["end"] = "ending"
    /\ Capture("end") /\ UNCHANGED book
    /\ ctl' = [ctl EXCEPT !["end"] = IF Owns THEN "stopping" ELSE "done"]
    /\ IF Owns THEN UNCHANGED track ELSE StopTrack

\* stop_current: the playout is silenced before the worker acknowledges, and an
\* enqueue that waits is of an older epoch.  Nobody acknowledges no speech.
StopPlayout(c) ==
    /\ ctl[c] = "stopping"
    /\ line' = <<>> /\ job' = [job EXCEPT !.stale = (job.at = "queueing")]
    /\ silenced' = (silenced \/ capt[c].turn)
    /\ stray' = (stray \/ (~capt[c].turn /\ (line # <<>> \/ job.rest # <<>>)))
    /\ ctl' = [ctl EXCEPT ![c] = IF capt[c].turn THEN "acking" ELSE "done"]
    /\ UNCHANGED <<live, answer, marks, capt, caller, made, heard, late, engine>>

\* fault: the handler is left to find out
FinishWithoutKill(c) ==
    /\ ctl[c] = "acking"
    /\ mark' = IF capt[c].turn THEN "cancelled" ELSE mark
    /\ owed' = (owed /\ ~capt[c].owed)
    /\ ctl' = [ctl EXCEPT ![c] = "done"] /\ capt' = [capt EXCEPT ![c] = NoCapture]
    /\ UNCHANGED <<track, job, answer, caller, book, doomed, ghosts, engine>>

\* The worker acknowledged, failed or timed out: the turn is cancelled, its pending
\* terminal cleared, its handler cancelled.  The end of the call then closes the
\* peer, which stops the track for good.
Finish(c) ==
    /\ ctl[c] = "acking"
    /\ mark' = IF capt[c].turn THEN "cancelled" ELSE mark
    /\ owed' = (owed /\ ~capt[c].owed)
    /\ doomed' = (doomed \/ (capt[c].task /\ job # NoJob))
    /\ ctl' = [ctl EXCEPT ![c] = "done"] /\ capt' = [capt EXCEPT ![c] = NoCapture]
    /\ IF c = "end" THEN StopTrack ELSE UNCHANGED track
    /\ UNCHANGED <<job, answer, caller, book, ghosts, engine>>

Handler ==
    \/ Resume \/ TakeChunk \/ StartupTimeout \/ StreamEnds \/ SynthesisFails \/ Join
    \/ Synthesized \/ SynthesizedEmpty \/ Drained \/ Deliver \/ Unwind

Cancelling ==
    \/ EndCaptures
    \/ \E c \in Cancellers : StopPlayout(c) \/ Finish(c)
=============================================================================
