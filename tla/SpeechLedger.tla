---------------------------- MODULE SpeechLedger ----------------------------
(***************************************************************************)
(* Speech of one call session in the AI backend: the segment ledger, the   *)
(* speech admission, the streaming bridge and the cancellations of         *)
(* app/call/session.py (CallSession.speak_text, complete_speech_turn,      *)
(* cancel_speech_turn, interrupt, end), on the streaming (Qwen3) path.     *)
(*                                                                         *)
(* Everything runs on one event loop and no section of _lifecycle_lock     *)
(* here suspends, so a step is what runs between two real suspensions: a   *)
(* wait for the admission, a bridge item, the producer thread, the track,  *)
(* event delivery or the worker's cancel acknowledgement.                  *)
(***************************************************************************)
EXTENDS Naturals, Sequences, FiniteSets

CONSTANTS
    Turns,        \* AI turns of the call
    Requests,     \* POST /speak requests
    Submissions,  \* what each may carry: [turn, ordinal, kind]
    Dropped,      \* turns the web server may cancel
    Interrupters, \* POST /interrupt requests
    Closer,       \* the terminal transaction of end()/fail()
    MaxOrdinal,   \* bound on segment ordinals
    MaxChunks,    \* bound on audio chunks of one segment
    Capacity,     \* CALL_TTS_STREAM_BRIDGE_CAPACITY
    None

Ordinals == 0..MaxOrdinal
Kinds == {"part", "final", "marker"}  \* marker: the empty final chunk

ASSUME SubmissionAssumption ==
    Submissions \in [Requests -> SUBSET [turn : Turns, ordinal : Ordinals, kind : Kinds]]
ASSUME BoundAssumption == MaxOrdinal \in Nat /\ MaxChunks \in Nat /\ Capacity \in Nat \ {0}
ASSUME NameAssumption ==
    /\ None \notin Turns \cup Requests /\ "terminal" \notin Requests
    /\ \A r \in Requests : None \notin Submissions[r]
    /\ Dropped \subseteq Turns
    /\ Turns \cap Interrupters = {} /\ Closer \notin Turns \cup Interrupters

\* A turn names its own cancellation: cancel_speech_turn keeps one task per turn.
Cancels == Dropped \cup Interrupters \cup {Closer}

VARIABLES
    \* _tts_turn_ledgers: state and next_ordinal of a turn, and its segments
    ledger, nextOrdinal, segment,
    \* _speech_admission (its request, turn and task), whether its worker
    \* request was cancelled, _pending_speech_terminal_turn_id
    admission, cancelRequested, pending,
    \* _cancelled_ai_turns, _cancelling_ai_turns
    cancelled, cancelling,
    \* a speak handler: where it is, what it carries, what it answered
    pc, submission, told,
    \* its stream: the bridge queue, chunks produced, startup buffer, producer
    \* threads, requests the worker was told to stop, tasks asked to cancel
    bridge, produced, stage, producing, stopped, killed,
    \* requests with audio in the outbound track
    track,
    \* ended_at, state in {"ended", "failed"}, the event outbox, turns whose
    \* ai_done went out
    ended, stateTerminal, outbox, done,
    \* cancellations: where each is, and what it captured
    ctl, captured

book == <<ledger, nextOrdinal, segment>>
owner == <<admission, cancelRequested, pending>>
marks == <<cancelled, cancelling>>
handlers == <<pc, submission, told>>
streams == <<bridge, produced, stage, producing, stopped, killed>>
session == <<ended, stateTerminal, outbox, done>>
controls == <<ctl, captured>>
vars == <<book, owner, marks, handlers, streams, track, session, controls>>

Streaming == {"streaming", "joining"}
Working == Streaming \cup {"playout", "emitting", "settling"}
Pcs == {"idle", "waiting", "unwinding", "done"} \cup Working
Replies == {"nothing", "queued", "ai_done", "discarded"}
NoSegment == [state |-> "absent", kind |-> None, reply |-> "nothing"]
Segments == [state : {"absent", "in_flight", "reserved", "committed", "cancelled"},
             kind : Kinds \cup {None}, reply : Replies]
NoCapture == [turn |-> None, request |-> None, pending |-> None]

TypeOK ==
    /\ ledger \in [Turns -> {"active", "cancelled", "completed"}]
    /\ nextOrdinal \in [Turns -> 0..(MaxOrdinal + 1)]
    /\ segment \in [Turns -> [Ordinals -> Segments]]
    /\ admission \in Requests \cup {None} /\ cancelRequested \in BOOLEAN
    /\ pending \in Turns \cup {None}
    /\ cancelled \subseteq Turns /\ cancelling \subseteq Turns
    /\ pc \in [Requests -> Pcs]
    /\ DOMAIN submission = Requests
    /\ \A r \in Requests : submission[r] \in Submissions[r] \cup {None}
    /\ told \in [Requests -> Replies \cup {"refused", "cancelled", "failed"}]
    /\ bridge \in [Requests -> Seq({"chunk", "end", "error"})]
    /\ \A r \in Requests : Len(bridge[r]) <= Capacity
    /\ produced \in [Requests -> 0..MaxChunks]
    /\ stage \in [Requests -> {"empty", "buffered", "started", "dropped"}]
    /\ producing \subseteq Requests /\ stopped \subseteq Requests
    /\ killed \subseteq Requests /\ track \subseteq Requests
    /\ ended \in BOOLEAN /\ stateTerminal \in BOOLEAN
    /\ outbox \in Seq(Requests \cup {"terminal"})
    /\ done \subseteq Turns
    /\ ctl \in [Cancels -> {"idle", "capture", "stopping", "acking", "done"}]
    /\ captured \in [Cancels -> [turn : Turns \cup {None}, request : Requests \cup {None},
                                 pending : Turns \cup {None}]]

Init ==
    /\ ledger = [t \in Turns |-> "active"] /\ nextOrdinal = [t \in Turns |-> 0]
    /\ segment = [t \in Turns |-> [n \in Ordinals |-> NoSegment]]
    /\ admission = None /\ cancelRequested = FALSE /\ pending = None
    /\ cancelled = {} /\ cancelling = {}
    /\ pc = [r \in Requests |-> "idle"]
    /\ submission = [r \in Requests |-> None]
    /\ told = [r \in Requests |-> "nothing"]
    /\ bridge = [r \in Requests |-> <<>>] /\ produced = [r \in Requests |-> 0]
    /\ stage = [r \in Requests |-> "empty"]
    /\ producing = {} /\ stopped = {} /\ killed = {}
    /\ track = {}
    /\ ended = FALSE /\ stateTerminal = FALSE /\ outbox = <<>> /\ done = {}
    /\ ctl = [c \in Cancels |-> "idle"]
    /\ captured = [c \in Cancels |-> NoCapture]
-----------------------------------------------------------------------------
(* The segment ledger *)

Turn(r) == submission[r].turn
Ordinal(r) == submission[r].ordinal
Kind(r) == submission[r].kind
Entry(r) == segment[Turn(r)][Ordinal(r)]
IsMarker(r) == Kind(r) = "marker"

\* The turn is being cancelled or was.
Cancelled(t) == t \in cancelled \cup cancelling

\* _claim_tts_segment_locked: the errors it raises ...
ClaimRefused(r) ==
    LET e == Entry(r) IN
    \/ e.state # "absent" /\ e.kind # Kind(r)
    \/ e.state # "committed" /\ ledger[Turn(r)] # "active"
    \/ e.state = "absent" /\ Ordinal(r) # nextOrdinal[Turn(r)]

\* ... and the claim: a fresh entry, or a new attempt at a reserved one.
Claimable(r) == ~ClaimRefused(r) /\ Entry(r).state \in {"absent", "reserved"}

Claimed(r, state) ==
    [segment EXCEPT ![Turn(r)][Ordinal(r)].state = state,
                    ![Turn(r)][Ordinal(r)].kind = Kind(r)]

\* fault: the next ordinal counts commits of the session instead of the turn
CommitSkips(r, reply) ==
    /\ segment' = [segment EXCEPT ![Turn(r)][Ordinal(r)].state = "committed",
                                  ![Turn(r)][Ordinal(r)].reply = reply]
    /\ nextOrdinal' = [t \in Turns |-> IF nextOrdinal[t] <= MaxOrdinal
                                       THEN nextOrdinal[t] + 1 ELSE nextOrdinal[t]]
    /\ ledger' = IF Kind(r) = "part" THEN ledger
                 ELSE [ledger EXCEPT ![Turn(r)] = "completed"]

\* _commit_tts_segment: it looks at the entry's identity, not at the ledger's state.
Commit(r, reply) ==
    /\ segment' = [segment EXCEPT ![Turn(r)][Ordinal(r)].state = "committed",
                                  ![Turn(r)][Ordinal(r)].reply = reply]
    /\ nextOrdinal' = [nextOrdinal EXCEPT ![Turn(r)] = Ordinal(r) + 1]
    /\ ledger' = IF Kind(r) = "part" THEN ledger
                 ELSE [ledger EXCEPT ![Turn(r)] = "completed"]

\* _release_tts_segment_attempt
Released(r) ==
    IF ledger[Turn(r)] = "active" /\ Entry(r).state = "in_flight"
    THEN [segment EXCEPT ![Turn(r)][Ordinal(r)].state = "reserved"]
    ELSE segment

\* _cancel_tts_turn_locked for every turn of T that is not completed.
CancelSegments(T) ==
    [t \in Turns |-> [n \in Ordinals |->
        IF /\ t \in T /\ ledger[t] # "completed"
           /\ segment[t][n].state \notin {"absent", "committed"}
        THEN [segment[t][n] EXCEPT !.state = "cancelled"] ELSE segment[t][n]]]

CancelLedgers(T) ==
    /\ ledger' = [t \in Turns |-> IF t \in T /\ ledger[t] # "completed" THEN "cancelled"
                                  ELSE ledger[t]]
    /\ segment' = CancelSegments(T)
    /\ UNCHANGED nextOrdinal
-----------------------------------------------------------------------------
(* A speak request until it owns something *)

Answer(r, reply) ==
    /\ pc' = [pc EXCEPT ![r] = "done"]
    /\ told' = [told EXCEPT ![r] = reply]

Submit(r, s) ==
    /\ pc[r] = "idle"
    /\ submission' = [submission EXCEPT ![r] = s]
    /\ pc' = [pc EXCEPT ![r] = "waiting"]
    /\ UNCHANGED <<book, owner, marks, told, streams, track, session, controls>>

\* fault: a segment does not wait for the speech that is running
MayClaimEagerly(r) == IsMarker(r) \/ ~ended

\* _admit_tts_segment waits for the current admission; complete_speech_turn does not.
MayClaim(r) == IsMarker(r) \/ (admission = None /\ ~ended)

\* Every way to a 409: another selection or an ended call, a conflicting
\* identity or ordinal, a terminal turn.
Refused(r) ==
    /\ pc[r] = "waiting"
    /\ (ended /\ ~IsMarker(r)) \/ (MayClaim(r) /\ ClaimRefused(r))
    /\ Answer(r, "refused")
    /\ UNCHANGED <<book, owner, marks, submission, streams, track, session, controls>>

\* A retry of a committed segment gets the cached response.
Replay(r) ==
    /\ pc[r] = "waiting" /\ MayClaim(r)
    /\ ~ClaimRefused(r) /\ Entry(r).state = "committed"
    /\ Answer(r, Entry(r).reply)
    /\ UNCHANGED <<book, owner, marks, submission, streams, track, session, controls>>

\* _admit_tts_segment and _promote_speech_admission, then the producer starts.
Admit(r) ==
    /\ pc[r] = "waiting" /\ ~IsMarker(r) /\ MayClaim(r) /\ Claimable(r)
    /\ ~Cancelled(Turn(r))
    /\ segment' = Claimed(r, "in_flight")
    /\ admission' = r /\ cancelRequested' = FALSE
    /\ pc' = [pc EXCEPT ![r] = "streaming"]
    /\ producing' = producing \cup {r}
    /\ UNCHANGED <<ledger, nextOrdinal, pending, marks, submission, told, bridge, produced,
                   stage, stopped, killed, track, session, controls>>

\* complete_speech_turn: the marker needs the pending terminal of its turn.
ClaimMarker(r) ==
    /\ pc[r] = "waiting" /\ IsMarker(r) /\ Claimable(r)
    /\ IF pending = Turn(r)
       THEN /\ segment' = Claimed(r, "in_flight")
            /\ pc' = [pc EXCEPT ![r] = "playout"]
            /\ UNCHANGED told
       ELSE segment' = Claimed(r, "reserved") /\ Answer(r, "failed")
    /\ UNCHANGED <<ledger, nextOrdinal, owner, marks, submission, streams, track, session,
                   controls>>
-----------------------------------------------------------------------------
(* Ends of a text segment: settle the ledger, release the admission *)

\* fault: only an admission whose worker was not told to stop is released
ReleaseUnlessCancelled(r) ==
    /\ admission' = IF admission = r /\ ~cancelRequested THEN None ELSE admission
    /\ UNCHANGED cancelRequested

\* _release_speech_admission
ReleaseAdmission(r) ==
    /\ admission' = IF admission = r THEN None ELSE admission
    /\ cancelRequested' = IF admission = r THEN FALSE ELSE cancelRequested

\* A result with status "cancelled": the whole turn is.
EndCancelled(r) ==
    /\ CancelLedgers({Turn(r)})
    /\ ReleaseAdmission(r) /\ UNCHANGED pending
    /\ Answer(r, "cancelled")

EndFailed(r, reply) ==
    /\ segment' = Released(r) /\ UNCHANGED <<ledger, nextOrdinal>>
    /\ ReleaseAdmission(r) /\ UNCHANGED pending
    /\ Answer(r, reply)

\* An exception in the stream is a cancellation if the turn is being cancelled.
StreamRaised(r) ==
    IF Cancelled(Turn(r)) THEN EndCancelled(r) /\ UNCHANGED stateTerminal
    ELSE EndFailed(r, "failed") /\ stateTerminal' = FALSE

Busy(r) == r \notin killed
-----------------------------------------------------------------------------
(* The producer thread and the bounded bridge *)

\* The bridge is an asyncio.Queue of CALL_TTS_STREAM_BRIDGE_CAPACITY items.
Room(r) == Len(bridge[r]) < Capacity

\* put_threadsafe of a chunk; it gives up only once the turn is cancelled.
Produce(r) ==
    /\ r \in producing /\ Turn(r) \notin cancelled
    /\ produced[r] < MaxChunks /\ Room(r)
    /\ produced' = [produced EXCEPT ![r] = @ + 1]
    /\ bridge' = [bridge EXCEPT ![r] = Append(@, "chunk")]
    /\ UNCHANGED <<book, owner, marks, handlers, stage, producing, stopped, killed, track,
                   session, controls>>

\* The stream ended, failed, or was stopped.  The terminal item is always
\* offered; a full bridge of a cancelled turn drops it.
ProducerEnds(r) ==
    /\ r \in producing
    /\ \/ /\ Room(r)
          /\ \E item \in {"end", "error"} :
                bridge' = [bridge EXCEPT ![r] = Append(@, item)]
       \/ /\ ~Room(r) /\ Turn(r) \in cancelled
          /\ UNCHANGED bridge
    /\ producing' = producing \ {r}
    /\ UNCHANGED <<book, owner, marks, handlers, produced, stage, stopped, killed, track,
                   session, controls>>

\* start_playback_from_buffer: the first chunk is queued before the turn's
\* cancellation is looked at.
StartPlayback(r) ==
    /\ track' = track \cup {r}
    /\ stage' = [stage EXCEPT ![r] = IF Cancelled(Turn(r)) THEN "dropped" ELSE "started"]
    /\ stateTerminal' = IF Cancelled(Turn(r)) THEN stateTerminal ELSE FALSE

\* One chunk off the bridge: dropped by a cancelled turn, queued once playback
\* started, else kept in the startup buffer until that is ready.
TakeChunk(r) ==
    /\ pc[r] = "streaming" /\ Busy(r)
    /\ bridge[r] # <<>> /\ Head(bridge[r]) = "chunk"
    /\ bridge' = [bridge EXCEPT ![r] = Tail(@)]
    /\ IF Cancelled(Turn(r))
       THEN pc' = [pc EXCEPT ![r] = "joining"] /\ UNCHANGED <<track, stage, stateTerminal>>
       ELSE /\ UNCHANGED pc
            /\ \/ /\ stage[r] = "started"
                  /\ track' = track \cup {r} /\ UNCHANGED <<stage, stateTerminal>>
               \/ /\ stage[r] # "started"
                  /\ stage' = [stage EXCEPT ![r] = "buffered"]
                  /\ UNCHANGED <<track, stateTerminal>>
               \/ stage[r] # "started" /\ StartPlayback(r)
    /\ UNCHANGED <<book, owner, marks, submission, told, produced, producing, stopped, killed,
                   ended, outbox, done, controls>>

\* CALL_TTS_STREAM_MAX_STARTUP_BUFFER_SECONDS passed since the first chunk.
StartupTimeout(r) ==
    /\ pc[r] = "streaming" /\ Busy(r) /\ stage[r] = "buffered"
    /\ StartPlayback(r)
    /\ UNCHANGED <<book, owner, marks, handlers, bridge, produced, producing, stopped, killed,
                   ended, outbox, done, controls>>

TakeEnd(r) ==
    /\ pc[r] = "streaming" /\ Busy(r)
    /\ bridge[r] # <<>> /\ Head(bridge[r]) = "end"
    /\ bridge' = [bridge EXCEPT ![r] = Tail(@)]
    /\ pc' = [pc EXCEPT ![r] = "joining"]
    /\ UNCHANGED <<book, owner, marks, submission, told, produced, stage, producing, stopped,
                   killed, track, session, controls>>

TakeError(r) ==
    /\ pc[r] = "streaming" /\ Busy(r)
    /\ bridge[r] # <<>> /\ Head(bridge[r]) = "error"
    /\ bridge' = [bridge EXCEPT ![r] = Tail(@)]
    /\ StreamRaised(r)
    /\ UNCHANGED <<marks, submission, produced, stage, producing, stopped, killed, track,
                   ended, outbox, done, controls>>

\* What follows the loop once the producer thread is joined: play what is
\* still buffered, then stop for a cancellation, wait for playout (final
\* chunk) or leave the turn pending for its next segment.
Join(r) ==
    /\ pc[r] = "joining" /\ Busy(r) /\ r \notin producing
    /\ stage[r] # "empty"
    /\ IF stage[r] = "buffered"
       THEN track' = track \cup {r} /\ stage' = [stage EXCEPT ![r] = "started"]
       ELSE UNCHANGED <<track, stage>>
    /\ stateTerminal' = (stateTerminal /\ ~Cancelled(Turn(r)) /\ stage[r] # "buffered")
    /\ CASE Cancelled(Turn(r)) -> EndCancelled(r)
         [] ~Cancelled(Turn(r)) /\ Kind(r) = "part" ->
              /\ Commit(r, "queued") /\ ReleaseAdmission(r)
              /\ pending' = Turn(r)
              /\ Answer(r, "queued")
         [] OTHER -> /\ pc' = [pc EXCEPT ![r] = "playout"]
                     /\ UNCHANGED <<book, owner, told>>
    /\ UNCHANGED <<marks, submission, bridge, produced, producing, stopped, killed,
                   ended, outbox, done, controls>>

\* "Streaming synthesis failed": no chunk arrived.
JoinEmpty(r) ==
    /\ pc[r] = "joining" /\ Busy(r) /\ r \notin producing
    /\ stage[r] = "empty"
    /\ StreamRaised(r)
    /\ UNCHANGED <<marks, submission, streams, track, ended, outbox, done, controls>>
-----------------------------------------------------------------------------
(* Playout, ai_done, and the end of a final chunk *)

\* The track plays what it holds.
TrackPlays ==
    /\ track # {} /\ track' = {}
    /\ UNCHANGED <<book, owner, marks, handlers, streams, session, controls>>

\* _wait_for_outbound_audio_playback returned, idle or timed out.  A text
\* chunk looks at the cancellation again, the marker leaves that to delivery.
PlayoutEnds(r) ==
    /\ pc[r] = "playout" /\ Busy(r)
    /\ stateTerminal' = FALSE
    /\ IF ~IsMarker(r) /\ Cancelled(Turn(r))
       THEN EndCancelled(r) /\ UNCHANGED outbox
       ELSE /\ pending' = None
            /\ outbox' = Append(outbox, r)
            /\ pc' = [pc EXCEPT ![r] = "emitting"]
            /\ UNCHANGED <<book, admission, cancelRequested, told>>
    /\ UNCHANGED <<marks, submission, streams, track, ended, done, controls>>

\* _deliver_event_outbox, one entry: the boundary guard of _deliver_event
\* discards the ai_done of a cancelled turn or a terminal state.
Discarded(t) == Cancelled(t) \/ stateTerminal

DeliverDone ==
    /\ outbox # <<>> /\ Head(outbox) # "terminal"
    /\ outbox' = Tail(outbox)
    /\ LET r == Head(outbox)
           gone == Discarded(Turn(r)) IN
       /\ done' = IF gone THEN done ELSE done \cup {Turn(r)}
       /\ IF pc[r] = "emitting"
          THEN /\ pc' = [pc EXCEPT ![r] = "settling"]
               /\ told' = [told EXCEPT ![r] = IF gone THEN "discarded" ELSE "ai_done"]
          ELSE UNCHANGED <<pc, told>>
    /\ UNCHANGED <<book, owner, marks, submission, streams, track, ended, stateTerminal,
                   controls>>

\* The terminal event waits in its reserved place for the cleanup.
DeliverTerminal ==
    /\ outbox # <<>> /\ Head(outbox) = "terminal"
    /\ ctl[Closer] = "done"
    /\ outbox' = Tail(outbox)
    /\ UNCHANGED <<book, owner, marks, handlers, streams, track, ended, stateTerminal, done,
                   controls>>

\* The marker commits whatever delivery answered; a text chunk only its ai_done.
SettleFinal(r) ==
    /\ pc[r] = "settling" /\ Busy(r)
    /\ IF IsMarker(r) \/ told[r] = "ai_done"
       THEN /\ Commit(r, told[r]) /\ ReleaseAdmission(r) /\ UNCHANGED pending
            /\ Answer(r, told[r])
       ELSE EndFailed(r, "discarded")
    /\ UNCHANGED <<marks, submission, streams, track, session, controls>>
-----------------------------------------------------------------------------
(* Cancellation *)

\* CancelledError inside the stream: mark the turn, stop its worker request ...
Unwind(r) ==
    /\ r \in killed /\ pc[r] \in Working
    /\ killed' = killed \ {r}
    /\ cancelled' = cancelled \cup {Turn(r)}
    /\ stopped' = IF cancelRequested THEN stopped ELSE stopped \cup {r}
    /\ cancelRequested' = TRUE
    /\ pc' = [pc EXCEPT ![r] = "unwinding"]
    /\ UNCHANGED <<book, admission, pending, cancelling, submission, told, bridge, produced,
                   stage, producing, track, session, controls>>

\* ... then cancel the ledger, release the admission, answer 502.
Unwound(r) ==
    /\ pc[r] = "unwinding"
    /\ CancelLedgers({Turn(r)})
    /\ ReleaseAdmission(r) /\ UNCHANGED pending
    /\ killed' = killed \ {r}
    /\ Answer(r, "failed")
    /\ UNCHANGED <<marks, submission, bridge, produced, stage, producing, stopped, track,
                   session, controls>>

\* _capture_turn_cancellation_locked: the active turn, else the pending one.
ActiveTurn == IF admission # None THEN Turn(admission) ELSE pending

\* What a cancellation remembers of the speech it found.
CapturedCancellation(t) == [turn |-> t, request |-> admission, pending |-> pending]

\* cancel_ai_turn up to its first wait: capture, guard and cancel the turn.
Capture(c, t) ==
    LET T == IF t = None THEN {} ELSE {t} IN
    /\ captured' = [captured EXCEPT ![c] = CapturedCancellation(t)]
    /\ cancelling' = cancelling \cup T
    /\ CancelLedgers(T)
    /\ ctl' = [ctl EXCEPT ![c] = "stopping"]
    /\ UNCHANGED <<owner, cancelled, handlers, streams, track, session>>

\* _cancel_speech_turn_once: only a turn that owns speech is cancelled in full.
OwnsSpeech(t) == (admission # None /\ Turn(admission) = t) \/ pending = t

\* _ensure_control_mutable_locked
ControlMutable == ~ended

CancelSpeechTurn(t) ==
    /\ ctl[t] = "idle" /\ ControlMutable
    /\ \/ OwnsSpeech(t) /\ Capture(t, t)
       \/ /\ ~OwnsSpeech(t)
          /\ CancelLedgers({t})
          /\ ctl' = [ctl EXCEPT ![t] = "done"]
          /\ UNCHANGED <<owner, marks, handlers, streams, track, session, captured>>

Interrupt(i) == ctl[i] = "idle" /\ ControlMutable /\ Capture(i, ActiveTurn)

\* _transition_terminal_locked
End ==
    /\ ~ended
    /\ ended' = TRUE /\ stateTerminal' = TRUE
    /\ CancelLedgers(Turns)
    /\ outbox' = Append(outbox, "terminal")
    /\ ctl' = [ctl EXCEPT ![Closer] = IF ActiveTurn # None THEN "capture" ELSE "done"]
    /\ UNCHANGED <<owner, marks, handlers, streams, track, done, captured>>

\* The terminal transaction's cleanup begins its cancellation.
CloseSpeech == ctl[Closer] = "capture" /\ Capture(Closer, ActiveTurn)

\* fault: the generation of the moment is stopped, not the captured one
TargetNow(c) == IF admission # None THEN admission ELSE captured[c].request

\* _cancel_active_tts_generation falls back on whatever request is active now.
Target(c) == IF captured[c].request # None THEN captured[c].request ELSE admission

\* The exact worker cancel starts, then the outbound playout is stopped.
StopSpeech(c) ==
    /\ ctl[c] = "stopping"
    /\ LET r == Target(c) IN
       IF r = None \/ (r = admission /\ cancelRequested)
       THEN UNCHANGED <<stopped, cancelRequested>>
       ELSE /\ stopped' = stopped \cup {r}
            /\ cancelRequested' = (cancelRequested \/ r = admission)
    /\ track' = {}
    /\ ctl' = [ctl EXCEPT ![c] = "acking"]
    /\ UNCHANGED <<book, admission, pending, marks, handlers, bridge, produced, stage,
                   producing, killed, session, captured>>

\* The worker acknowledged, failed or timed out: the turn is cancelled, its
\* pending terminal cleared, its task cancelled and awaited for a bounded time.
FinishCancel(c) ==
    LET k == captured[c] IN
    /\ ctl[c] = "acking"
    /\ cancelled' = IF k.turn = None THEN cancelled ELSE cancelled \cup {k.turn}
    /\ cancelling' = cancelling \ {k.turn}
    /\ pending' = IF pending = k.pending THEN None ELSE pending
    /\ killed' = IF k.request # None /\ pc[k.request] # "done"
                 THEN killed \cup {k.request} ELSE killed
    /\ ctl' = [ctl EXCEPT ![c] = "done"]
    /\ captured' = [captured EXCEPT ![c] = NoCapture]
    /\ UNCHANGED <<book, admission, cancelRequested, handlers, bridge, produced, stage,
                   producing, stopped, track, session>>
-----------------------------------------------------------------------------
Speak(r) ==
    \/ Refused(r) \/ Replay(r) \/ Admit(r) \/ ClaimMarker(r)
    \/ TakeChunk(r) \/ StartupTimeout(r) \/ TakeEnd(r) \/ TakeError(r)
    \/ Join(r) \/ JoinEmpty(r) \/ PlayoutEnds(r) \/ SettleFinal(r)
    \/ Unwind(r) \/ Unwound(r)

Deliver == DeliverDone \/ DeliverTerminal
CancelSteps(c) == StopSpeech(c) \/ FinishCancel(c)

Next ==
    \/ \E r \in Requests : \/ \E s \in Submissions[r] : Submit(r, s)
                           \/ Speak(r) \/ Produce(r) \/ ProducerEnds(r)
    \/ TrackPlays \/ Deliver \/ End \/ CloseSpeech
    \/ \E t \in Dropped : CancelSpeechTurn(t)
    \/ \E i \in Interrupters : Interrupt(i)
    \/ \E c \in Cancels : CancelSteps(c)

Spec == Init /\ [][Next]_vars

\* The event loop runs every ready handler, delivery and cancellation; a native
\* generation ends (MaxChunks stands for its end of speech) or is stopped.
\* Nobody need submit, cancel, interrupt or end.
Fairness ==
    /\ \A r \in Requests : /\ WF_vars(Speak(r))
                           /\ WF_vars(ProducerEnds(r))
    /\ WF_vars(Deliver) /\ WF_vars(CloseSpeech)
    /\ \A c \in Cancels : WF_vars(CancelSteps(c))

FairSpec == Spec /\ Fairness
-----------------------------------------------------------------------------
(* Safety *)

\* One utterance at a time: whoever streams, plays a final chunk or unwinds holds
\* the session's admission, so two turns (or two segments, or a retry and the
\* attempt it retries) never generate side by side (_admit_tts_segment).
SingleSpeaker ==
    \A r \in Requests :
        (pc[r] \in Working \cup {"unwinding"} /\ ~IsMarker(r)) => admission = r

\* A segment in flight has a request working on it: no failure, refusal,
\* cancellation or kill leaves a claim behind, which would make every retry of
\* that segment wait on an attempt_done that nobody sets.
InFlightIsOwned ==
    \A t \in Turns, n \in Ordinals :
        segment[t][n].state = "in_flight" =>
            \E r \in Requests :
                /\ pc[r] \in Working \cup {"unwinding"}
                /\ Turn(r) = t /\ Ordinal(r) = n

\* The segments of a turn commit in order without a gap, and next_ordinal is
\* their number: what was spoken is a prefix of the reply, under retries,
\* failures and cancellations in between.
SegmentsInOrder ==
    \A t \in Turns :
        {n \in Ordinals : segment[t][n].state = "committed"}
            = {n \in Ordinals : n < nextOrdinal[t]}

\* A success told to a web client is the ledger's: the segment is committed and
\* a retry gets the same answer (the cached response of _claim_tts_segment).
AnswerIsLedgers ==
    \A r \in Requests :
        (pc[r] = "done" /\ told[r] \in {"queued", "ai_done"}) =>
            Entry(r).state = "committed" /\ Entry(r).reply = told[r]

\* A committed segment is never spoken again nor its answer changed, whatever
\* cancellation, interrupt or end reaches its turn later.
CommittedIsFinal ==
    [][\A t \in Turns, n \in Ordinals :
           segment[t][n].state = "committed" => segment'[t][n] = segment[t][n]]_vars

\* A cancellation that found its own turn generating stops that generation and no
\* other: a generation whose turn nobody cancels is stopped only by a cancellation
\* of a turn that was merely owed its terminal, or of no turn at all
\* (_cancel_active_tts_generation takes whatever request it captured or finds).
StopIsExact ==
    [][\A r \in stopped' \ stopped :
          \/ Cancelled(Turn(r))'
          \/ \E c \in Cancels :
                /\ ctl[c] = "stopping"
                /\ captured[c].request = None
                   \/ captured[c].turn # Turn(captured[c].request)]_vars
-----------------------------------------------------------------------------
(* Liveness *)

\* Every speak request is answered: waiting for another's admission or attempt
\* ends, because each end of a stream wakes those who wait.
SpeakIsAnswered ==
    \A r \in Requests : pc[r] = "waiting" ~> pc[r] = "done"

\* The ledger of the segments is sound: what is committed is a prefix of the reply, what
\* is in flight has somebody working on it, and a success that was told is on record.
LedgerIsSound == TypeOK /\ SegmentsInOrder /\ InFlightIsOwned /\ AnswerIsLedgers

\* A cancellation reaches what it is for and nothing else: not a segment that was
\* committed, and not the generation of another turn.
CancellationIsExact == CommittedIsFinal /\ StopIsExact
=============================================================================
