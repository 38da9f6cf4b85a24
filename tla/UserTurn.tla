------------------------------ MODULE UserTurn ------------------------------
(***************************************************************************)
(* The user's side of a call in the AI backend (session.py): microphone     *)
(* frames, the turn buffer and its voice activity rule, mute, the audio a   *)
(* browser recorded while its transport was down and sends afterwards       *)
(* (backfill), the hold that keeps new frames behind it, and the            *)
(* transcription of a turn with its admission and settlement.               *)
(*                                                                          *)
(* A frame is its capture time, whether the voice activity detection hears  *)
(* a voice in it, whether it is loud (its rms reaches call_min_turn_rms),   *)
(* and the audio epoch (number of mutes) it was captured in.  Time is       *)
(* abstract: the hold and the silence grace may end at any moment.          *)
(*                                                                          *)
(* A recording begins before the loss, with the last frames the microphone  *)
(* captured, so that it overlaps the turn; the backend recognises the       *)
(* overlap by comparing loudness.  The model takes it that audio equals     *)
(* itself, and that different audio may or may not look alike, unless none  *)
(* of it is loud.                                                           *)
(***************************************************************************)
EXTENDS Naturals, Sequences, FiniteSets, SequencesExt

CONSTANTS EndSilence,    \* quiet frames that end a turn (call_vad_end_silence_ms)
          MaxTurn,       \* frames that end any turn (call_vad_max_turn_ms)
          MaxFrames,     \* frames captured in one behaviour
          MaxDrops,      \* losses of the transport
          MaxControls,   \* calls of set_muted, interrupt and cancel_speech_turn
          MaxSends,      \* times the browser sends its recording
          Preroll,       \* frames before the loss in a recording (MIC_BACKFILL_..._PREROLL_MS)
          MinOverlap,    \* CALL_RECONNECT_BACKFILL_MIN_OVERLAP_FRAMES
          MaxOverlap,    \* CALL_RECONNECT_BACKFILL_MAX_OVERLAP_SECONDS, in frames
          KeepQuiet,     \* CALL_STT_TRAILING_SILENCE_KEEP_MS
          Sounds,        \* what the microphone may hear
          None

ASSUME LimitsAssumption ==
    /\ EndSilence \in Nat \ {0} /\ MaxTurn \in Nat \ {0} /\ MaxFrames \in Nat
    /\ MaxDrops \in Nat /\ MaxControls \in Nat /\ MaxSends \in Nat
    /\ Preroll \in Nat /\ MinOverlap \in Nat \ {0} /\ MaxOverlap \in Nat
    /\ KeepQuiet \in Nat \ {0}
ASSUME SoundsAssumption == Sounds \subseteq [voice : BOOLEAN, loud : BOOLEAN]

Frames == [t : 1 .. MaxFrames, voice : BOOLEAN, loud : BOOLEAN, epoch : 0 .. MaxControls]
States == {"listening", "understanding", "thinking", "speaking", "interrupted", "reconnecting",
           "ended"}
Busy == {"understanding", "thinking", "speaking", "ended"}
Switches == [token : BOOLEAN, cancel : BOOLEAN]
Finalizations == [frames : Seq(Frames), epoch : Nat, allow : BOOLEAN, owns : BOOLEAN,
                  pc : {"transcribing", "settling", "skipped", "finishing"}]
Settlements == [pending : States, success : States]

ASSUME NoneAssumption ==
    None \notin States /\ None \notin Switches /\ None \notin Finalizations
    /\ None \notin Settlements

VARIABLES
    state,             \* CallSession.state
    phase, epoch,      \* _PeerLifecycle.phase, .epoch
    before,            \* state_before_reconnect
    switch,            \* the STT tokens and the cancellation a switch captured, or None
    muted, audioEpoch, \* muted, _audio_input_epoch
    buffer,            \* _turn_frames
    seen, silence,     \* _speech_seen, _silence_ms
    grace,             \* media reconnect grace: off, pending, on
    hold, held,        \* live frame hold: off, on, expired; its frames
    armed,             \* whether the hold keeps the recording of the last loss in its place:
                       \* it may ("may"), it was set for the new track and not cut short ("yes")
    receiver,          \* the track's receive loop: first (no frame yet), idle, blocked,
                       \* gone
    fin,               \* the active STT finalization with its admission, or None
    settlement,        \* _stt_state_settlement, or None
    link,              \* the transport, as the browser sees it
    rolling,           \* localMicPcmBuffer: the last frames of the microphone
    record,            \* the recording of a loss: its frames, when the loss was, and
                       \* whether this batch is the last
    sends, applied,    \* attempts to send it; the backend has its id on record
    clock, drops, controls,
    heard,             \* frames that were transcribed
    again,             \* frames a recording took from before its loss
    orphaned           \* a transcription came to its end while "understanding" waited to be
                       \* restored

lifecycle == <<state, phase, epoch, before, switch>>
mic == <<muted, audioEpoch, controls>>
Control == controls < MaxControls /\ controls' = controls + 1
turn == <<buffer, seen, silence>>
guard == <<grace, hold, held, armed>>
stt == <<receiver, fin, settlement, heard, orphaned>>
client == <<link, rolling, record, again, sends, applied, clock, drops>>
vars == <<lifecycle, mic, turn, guard, stt, client>>

Recording == [frames : Seq(Frames), from : 0 .. MaxFrames, final : BOOLEAN]

TypeOK ==
    /\ state \in States /\ phase \in {"stable", "reconnecting", "switching", "terminal"}
    /\ epoch \in Nat /\ before \in States \cup {None}
    /\ switch \in Switches \cup {None}
    /\ muted \in BOOLEAN /\ audioEpoch \in 0 .. MaxControls /\ controls \in 0 .. MaxControls
    /\ buffer \in Seq(Frames)
    /\ seen \in BOOLEAN /\ silence \in Nat
    /\ grace \in {"off", "pending", "on"} /\ hold \in {"off", "on", "expired"}
    /\ held \in Seq(Frames) /\ (held # <<>> => hold # "off")
    /\ armed \in {"no", "may", "yes"}
    /\ receiver \in {"first", "idle", "blocked", "gone"}
    /\ fin \in Finalizations \cup {None} /\ settlement \in Settlements \cup {None}
    /\ link \in {"up", "down", "offered"} /\ record \in Recording
    /\ rolling \in Seq(Frames) /\ Len(rolling) <= Preroll
    /\ sends \in 0 .. MaxSends /\ applied \in BOOLEAN
    /\ clock \in 0 .. MaxFrames /\ drops \in 0 .. MaxDrops
    /\ heard \subseteq Frames /\ again \subseteq Frames /\ orphaned \in BOOLEAN

Init ==
    /\ state = "listening" /\ phase = "stable" /\ epoch = 0 /\ before = None /\ switch = None
    /\ muted = FALSE /\ audioEpoch = 0 /\ controls = 0
    /\ buffer = <<>> /\ seen = FALSE /\ silence = 0
    /\ grace = "off" /\ hold = "off" /\ held = <<>> /\ armed = "no"
    /\ receiver = "first" /\ fin = None /\ settlement = None /\ heard = {}
    /\ again = {} /\ orphaned = FALSE
    /\ link = "up" /\ record = [frames |-> <<>>, from |-> 0, final |-> TRUE]
    /\ rolling = <<>>
    /\ sends = 0 /\ applied = FALSE /\ clock = 0 /\ drops = 0
-----------------------------------------------------------------------------
(* The turn buffer. *)

\* _append_turn_frame and _accept_vad_frame for a sequence of frames: the buffer, whether
\* a voice was heard in it, and the quiet frames at its end.
Voiced(fs) == \E i \in DOMAIN fs : fs[i].voice
TrailingQuiet(fs) == Cardinality({i \in DOMAIN fs : \A j \in i .. Len(fs) : ~fs[j].voice})
Appended(b, fs) ==
    LET all == b \o fs
        s == seen \/ Voiced(fs)
    IN  [buffer |-> all, seen |-> s, silence |-> IF s THEN TrailingQuiet(all) ELSE 0]

\* The end of turn rule of _accept_vad_frame
EndOfTurn(a, g) ==
    \/ Len(a.buffer) >= MaxTurn
    \/ a.seen /\ a.silence >= EndSilence /\ g # "on"

SetTurn(a) == buffer' = a.buffer /\ seen' = a.seen /\ silence' = a.silence
ClearTurn == buffer' = <<>> /\ seen' = FALSE /\ silence' = 0

\* fault: what holds no voice is cut off, however loud it is
TrimByVoice(fs) ==
    LET cut == TrailingQuiet(fs) - KeepQuiet
    IN  IF cut > 0 /\ cut < Len(fs) THEN SubSeq(fs, 1, Len(fs) - cut) ELSE fs

\* _trim_trailing_silence_for_stt: what is not loud is cut off the end, a voice or not.
TrailingSoft(fs) == Cardinality({i \in DOMAIN fs : \A j \in i .. Len(fs) : ~fs[j].loud})
TrimTrailingSilence(fs) ==
    LET cut == TrailingSoft(fs) - KeepQuiet
    IN  IF cut > 0 /\ cut < Len(fs) THEN SubSeq(fs, 1, Len(fs) - cut) ELSE fs

\* _claim_stt_finalization for the frames of a turn; the caller joins an active one.
Claim(a, allow) ==
    IF fin # None
    THEN SetTurn(a) /\ UNCHANGED <<fin, state>>
    ELSE /\ fin' = [frames |-> a.buffer, epoch |-> epoch, allow |-> allow, owns |-> TRUE,
                    pc |-> "transcribing"]
         /\ state' = "understanding" /\ ClearTurn

\* start_media_reconnect_grace_if_pending, on the first frame of a track
Started(first) == first /\ grace = "pending"

Terminal == phase = "terminal"
Reading == receiver \in {"first", "idle"}

\* wait_for_peer_media_admission, before each frame is handed on
MediaAdmitted == phase \in {"stable", "reconnecting"}

\* The microphone captures a frame, and appendLocalMicPcmChunk keeps it unless muted (the
\* model keeps none after the last loss, when nothing reads them).
Captured(s) ==
    [t |-> clock + 1, voice |-> s.voice, loud |-> s.loud, epoch |-> audioEpoch]
LastOf(fs, n) == SubSeq(fs, IF Len(fs) > n THEN Len(fs) - n + 1 ELSE 1, Len(fs))
Capture(s) ==
    /\ clock < MaxFrames /\ clock' = clock + 1
    /\ rolling' = IF muted \/ drops = MaxDrops THEN rolling
                  ELSE LastOf(Append(rolling, Captured(s)), Preroll)

\* The receive loop reads a frame and hands it on.
ReadFrame(s) == link = "up" /\ Reading /\ MediaAdmitted /\ Capture(s)

\* handle_inbound_audio_frame; the first frame of a track starts the grace
LiveFrame(s) ==
    /\ ReadFrame(s)
    /\ LET f == Captured(s)
           start == Started(receiver = "first")
           g == IF start THEN "on" ELSE grace
           h == IF start THEN "on" ELSE hold
       IN  /\ grace' = g /\ armed' = IF start /\ armed = "may" THEN "yes" ELSE armed
           /\ \/ /\ muted \/ state \in Busy
                 /\ hold' = h /\ receiver' = "idle"
                 /\ UNCHANGED <<turn, held, fin, state>>
              \/ /\ ~muted /\ state \notin Busy /\ h = "on"
                 /\ hold' = h /\ held' = Append(held, f) /\ receiver' = "idle"
                 /\ UNCHANGED <<turn, fin, state>>
              \/ /\ ~muted /\ state \notin Busy /\ h # "on"
                 /\ hold' = "off" /\ held' = <<>>
                 /\ LET a == Appended(buffer, held \o <<f>>) IN
                      IF EndOfTurn(a, g)
                      THEN Claim(a, FALSE) /\ receiver' = "blocked"
                      ELSE SetTurn(a) /\ receiver' = "idle" /\ UNCHANGED <<fin, state>>
    /\ UNCHANGED <<phase, epoch, before, switch, mic, settlement, heard, orphaned, link, record,
                   again, sends, applied, drops>>

\* The read of a frame fails on a live transport: the loop backs off and reads again.  After
\* the last loss this is no different from a frame that was never captured.
ReadGap(s) ==
    /\ link = "up" /\ Reading /\ ~Terminal /\ drops < MaxDrops /\ Capture(s)
    /\ UNCHANGED <<lifecycle, mic, turn, guard, stt, link, record, again, sends, applied, drops>>

\* fault: the frames on hold survive a mute
SetMutedKeepsHold(m) ==
    /\ Control /\ phase # "terminal"
    /\ muted' = m
    /\ audioEpoch' = IF m /\ ~muted THEN audioEpoch + 1 ELSE audioEpoch
    /\ IF m /\ ~seen THEN ClearTurn ELSE UNCHANGED turn
    /\ rolling' = IF m THEN <<>> ELSE rolling
    /\ UNCHANGED <<lifecycle, guard, stt, link, record, again, sends, applied, clock, drops>>

\* set_muted
SetMuted(m) ==
    /\ Control /\ phase # "terminal"
    /\ muted' = m
    /\ audioEpoch' = IF m /\ ~muted THEN audioEpoch + 1 ELSE audioEpoch
    /\ IF m /\ ~muted THEN hold' = "off" /\ held' = <<>> /\ armed' = "no"
       ELSE UNCHANGED <<hold, held, armed>>
    /\ IF m /\ ~seen THEN ClearTurn ELSE UNCHANGED turn
    /\ rolling' = IF m THEN <<>> ELSE rolling     \* the browser's, on the acknowledgement
    /\ UNCHANGED <<lifecycle, grace, stt, link, record, again, sends, applied, clock, drops>>

\* CALL_RECONNECT_BACKFILL_HOLD_SECONDS and the media grace run out.
HoldExpires ==
    /\ hold = "on" /\ ~Terminal /\ hold' = "expired" /\ armed' = "no"
    /\ UNCHANGED <<lifecycle, mic, turn, grace, held, stt, client>>
GraceExpires ==
    /\ grace = "on" /\ ~Terminal /\ grace' = "off"
    /\ UNCHANGED <<lifecycle, mic, turn, hold, held, armed, stt, client>>
-----------------------------------------------------------------------------
(* The audio of a transport loss. *)

\* The browser records while its transport is down.
BrowserRecords(s) ==
    /\ link # "up" /\ sends = 0 /\ ~muted /\ ~Terminal /\ Capture(s)
    /\ record' = [record EXCEPT !.frames = Append(@, Captured(s))]
    /\ UNCHANGED <<lifecycle, mic, turn, guard, stt, link, again, sends, applied, drops>>

\* The epoch the browser sends with its recording is the current one.
BackfillFresh == \A i \in DOMAIN record.frames : record.frames[i].epoch = audioEpoch

\* _reconnect_audio_backfill_ids
Noted == applied' = TRUE

\* _rms_windows_match of the last n frames of the turn and the first n of the recording:
\* the same audio is recognised unless none of it is loud, other audio may look the same.
Window(n) == {<<buffer[Len(buffer) - n + i], record.frames[i]>> : i \in 1 .. n}
MayMatch(n) == \E w \in Window(n) : w[1].loud \/ w[2].loud
MustMatch(n) == MayMatch(n) /\ \A w \in Window(n) : w[1] = w[2]

\* _trim_reconnect_backfill_overlap: how many frames it may cut off.  The longest overlap
\* that matches wins.
Overlaps ==
    LET sizes == {n \in MinOverlap .. Len(record.frames) : n <= Len(buffer) /\ n <= MaxOverlap}
    IN  {n \in sizes : MayMatch(n) /\ \A m \in sizes : m > n => ~MustMatch(m)}
        \cup (IF \E n \in sizes : MustMatch(n) THEN {} ELSE {0})

\* The rest of the recording and, after its last batch, the frames of the new track
Spliced(n) == SubSeq(record.frames, n + 1, Len(record.frames))
              \o (IF record.final THEN held ELSE <<>>)

\* _should_finalize_after_reconnect_backfill; the turn may have ended at any frame on the way
EndsWith(a, fs, g) ==
    /\ a.buffer # <<>>
    /\ IF record.final
       THEN \/ \E k \in 1 .. Len(fs) : EndOfTurn(Appended(buffer, SubSeq(fs, 1, k)), g)
            \/ a.seen /\ a.silence >= EndSilence
       ELSE a.seen /\ a.silence >= EndSilence + 1

\* _pcm_backfill_frames finds that the payload is not 16 bit PCM.
Malformed == ~Terminal /\ BackfillFresh /\ record.frames # <<>>

\* The refusals of _backfill_reconnect_audio_admitted: a recording of an earlier audio
\* epoch is put on record, a repetition, a mute, a busy call or a payload that is not PCM
\* is only skipped.
BackfillRefused ==
    /\ \/ Terminal /\ UNCHANGED applied
       \/ ~Terminal /\ ~BackfillFresh /\ Noted
       \/ /\ ~Terminal /\ BackfillFresh
          /\ applied \/ muted \/ state \in Busy \/ (record.frames # <<>> /\ state # "listening")
          /\ UNCHANGED applied
       \/ Malformed /\ UNCHANGED applied
    /\ UNCHANGED <<turn, guard, fin, state>>

\* The rest of it: the frames enter the turn, the hold is released after the last batch,
\* which may be empty.
BackfillTaken ==
    /\ ~Terminal /\ BackfillFresh /\ ~applied /\ ~muted
    /\ \/ record.frames = <<>> /\ state \notin Busy /\ UNCHANGED applied
       \/ record.frames # <<>> /\ state = "listening" /\ Noted
    /\ \E n \in Overlaps :
         LET a == Appended(buffer, Spliced(n))
         IN  IF EndsWith(a, Spliced(n), grace) THEN Claim(a, TRUE)
             ELSE SetTurn(a) /\ UNCHANGED <<fin, state>>
    /\ IF record.final THEN hold' = "off" /\ held' = <<>> ELSE UNCHANGED <<hold, held>>
    /\ UNCHANGED <<grace, armed>>

\* A request of the reconnect-audio endpoint, which may be a repetition
BackfillRequest == link # "down" /\ drops > 0 /\ sends < MaxSends /\ sends' = sends + 1

\* The web server has no such call, or cannot reach the backend.
Unforwarded == UNCHANGED <<turn, guard, fin, state, applied>>

\* backfill_reconnect_audio
Backfill ==
    /\ BackfillRequest
    /\ Unforwarded \/ BackfillRefused \/ BackfillTaken
    /\ UNCHANGED <<phase, epoch, before, switch, mic, receiver, settlement, heard, orphaned, link,
                   rolling, record, again, clock, drops>>
-----------------------------------------------------------------------------
(* The transcription. *)

\* _stale_stt_turn_response_locked
Stale ==
    \/ Terminal \/ fin.epoch # epoch
    \/ phase = "switching" /\ ~switch.token

\* _transcribe_turn: a text; or an error, an empty text, no adapter
Transcripts == {"text", "failed"}

\* _turn_audio_stats: a turn may be so quiet that it is not transcribed
Outcomes == Transcripts \cup {"quiet"}

\* The rms of all frames together decides, so the turn is quiet when no frame of it is
\* loud, and is not when all are.
QuietTurn(fs) == \E i \in DOMAIN fs : ~fs[i].loud
LoudTurn(fs) == \E i \in DOMAIN fs : fs[i].loud

\* The thread has heard the turn; the answer is dropped when the call went on without it.
\* An error of the thread or an empty text is a "failed" event.
Transcribed(outcome) ==
    IF Stale
    THEN fin' = [fin EXCEPT !.pc = "finishing"] /\ UNCHANGED <<state, settlement>>
    ELSE /\ fin' = [fin EXCEPT !.pc = "settling", !.owns = FALSE]
         /\ state' = IF outcome = "text" THEN "thinking" ELSE state
         /\ settlement' = [pending |-> state',
                           success |-> IF outcome = "text" THEN "thinking" ELSE "listening"]

\* _finalize_user_turn_admitted and _commit_stt_event.  A turn that is nearly silent once
\* its end is trimmed is dropped, before anything else is asked.
SttResult(outcome) ==
    /\ fin # None /\ fin.pc = "transcribing"
    /\ LET tr == TrimTrailingSilence(fin.frames)
       IN  \/ /\ outcome = "quiet" /\ QuietTurn(tr)
              /\ fin' = [fin EXCEPT !.pc = "skipped"] /\ UNCHANGED <<heard, state, settlement>>
           \/ /\ outcome # "quiet" /\ LoudTurn(tr)
              /\ heard' = heard \cup ToSet(tr) /\ Transcribed(outcome)
    /\ orphaned' = (orphaned \/ before = "understanding")
    /\ UNCHANGED <<phase, epoch, before, switch, mic, turn, guard, receiver, client>>

\* _settle_stt_event, once the event was delivered
Settle ==
    /\ fin # None /\ fin.pc = "settling"
    /\ fin' = [fin EXCEPT !.pc = "finishing"] /\ settlement' = None
    /\ state' = IF ~Terminal /\ state = settlement.pending THEN settlement.success ELSE state
    /\ orphaned' = (orphaned \/ before = "understanding")
    /\ UNCHANGED <<phase, epoch, before, switch, mic, turn, guard, receiver, heard, client>>

\* fault: the receive loop that waited for this transcription is not released
FinishKeepsReceiver ==
    /\ fin # None /\ fin.pc \in {"skipped", "finishing"} /\ fin' = None
    /\ state' = IF fin.owns /\ state = "understanding" /\ ~Terminal
                THEN IF phase = "reconnecting" THEN "reconnecting" ELSE "listening"
                ELSE state
    /\ orphaned' = (orphaned \/ before = "understanding")
    /\ UNCHANGED <<phase, epoch, before, switch, mic, turn, guard, receiver, settlement,
                   heard, client>>

\* The finally of _run_stt_finalization, _release_stt_admission_locked
Finish ==
    /\ fin # None /\ fin.pc \in {"skipped", "finishing"} /\ fin' = None
    /\ state' = IF fin.owns /\ state = "understanding" /\ ~Terminal
                THEN IF phase = "reconnecting" THEN "reconnecting" ELSE "listening"
                ELSE state
    /\ receiver' = IF receiver = "blocked" THEN "idle" ELSE receiver
    /\ orphaned' = (orphaned \/ before = "understanding")
    /\ UNCHANGED <<phase, epoch, before, switch, mic, turn, guard, settlement, heard, client>>
-----------------------------------------------------------------------------
(* The rest of the call, as far as it touches the state. *)

\* selectReconnectAudioBackfill: the frames of the current audio epoch, which are the last
\* ones, since epochs only grow
SelectBackfill ==
    LastOf(rolling, Cardinality({i \in DOMAIN rolling : rolling[i].epoch = audioEpoch}))

\* The browser loses the transport and begins a recording with an id of its own, or goes on
\* with the one of the loss before, which it keeps for two seconds after a recovery.
LinkDown ==
    /\ link = "up" /\ drops < MaxDrops /\ ~Terminal
    /\ link' = "down" /\ drops' = drops + 1
    /\ \E same \in {FALSE, drops > 0}, final \in BOOLEAN :
         IF same THEN armed' = "no" /\ UNCHANGED <<record, again, sends, applied>>
         ELSE /\ record' = [frames |-> SelectBackfill, from |-> clock, final |-> final]
              /\ again' = again \cup ToSet(SelectBackfill)
              /\ armed' = IF held = <<>> THEN "may" ELSE "no"
              /\ sends' = 0 /\ applied' = FALSE
    /\ rolling' = IF drops + 1 = MaxDrops THEN <<>> ELSE rolling
    /\ UNCHANGED <<lifecycle, mic, turn, grace, hold, held, stt, clock>>

\* _begin_transport_reconnect past its guard
EnterReconnect ==
    /\ phase' = "reconnecting" /\ state' = "reconnecting"
    /\ \/ /\ phase = "stable" /\ epoch' = epoch + 1 /\ before' = state
          /\ fin' = IF fin # None /\ fin.allow THEN [fin EXCEPT !.epoch = epoch + 1] ELSE fin
       \/ phase = "reconnecting" /\ UNCHANGED <<epoch, before, fin>>

\* The backend notices, possibly more than once: handle_connection_state_change
BeginReconnect ==
    /\ link # "up" /\ phase \in {"stable", "reconnecting"} /\ EnterReconnect
    /\ UNCHANGED <<switch, mic, turn, guard, receiver, settlement, heard, orphaned, client>>

\* _handle_receiver_peer_terminal, for the active peer
ReportLost ==
    \/ phase \in {"stable", "reconnecting"} /\ EnterReconnect
    \/ phase = "switching" /\ UNCHANGED <<phase, state, epoch, before, fin>>

\* The receive loop finds its transport failed or closed, or asked ten times in vain whether
\* it is back: it reports that and returns.
ReceiverGivesUp ==
    /\ link # "up" /\ Reading /\ receiver' = "gone" /\ ReportLost
    /\ UNCHANGED <<switch, mic, turn, guard, settlement, heard, orphaned, client>>

\* mark_media_reconnect_pending, on the new offer
Offer ==
    /\ link = "down" /\ link' = "offered" /\ phase \in {"stable", "reconnecting"}
    /\ grace' = IF state = "listening" /\ seen /\ buffer # <<>> THEN "pending" ELSE grace
    /\ UNCHANGED <<lifecycle, mic, turn, hold, held, armed, stt, rolling, record, again,
                   sends, applied, clock, drops>>

\* The state after a reconnect: _complete_transport_reconnect_locked
Restored(s) == IF s = "reconnecting" THEN IF before = None THEN "listening" ELSE before ELSE s

\* _recover_active_transport: the old transport is back, with its receive loop
Recover ==
    /\ link # "up" /\ link' = "up"
    /\ \/ /\ phase = "reconnecting"
          /\ phase' = "stable" /\ before' = None /\ state' = Restored(state)
       \/ phase = "stable" /\ UNCHANGED <<phase, before, state>>
    /\ UNCHANGED <<epoch, switch, mic, turn, guard, stt, rolling, record, again,
                   sends, applied, clock, drops>>

\* on_track: the new track has its own receive loop
NewReceiver == receiver' = "first"

\* accept_pending_peer_connection
Promote ==
    /\ link = "offered" /\ phase \in {"stable", "reconnecting"}
    /\ link' = "up" /\ NewReceiver
    /\ phase' = "stable" /\ before' = None /\ state' = Restored(state)
    /\ UNCHANGED <<epoch, switch, mic, turn, guard, fin, settlement, heard, orphaned, rolling,
                   record, again, sends, applied, clock, drops>>

\* accept_pending_peer_connection with another engine, _finish_peer_switch
SwitchBegins ==
    /\ link = "offered" /\ phase \in {"stable", "reconnecting"}
    /\ phase' = "switching"
    /\ \E cancel \in BOOLEAN :
         /\ state = "speaking" => cancel
         /\ switch' = [token |-> fin # None, cancel |-> cancel]
    /\ UNCHANGED <<state, epoch, before, mic, turn, guard, stt, client>>
SwitchCommits ==
    /\ phase = "switching" /\ phase' = "stable" /\ switch' = None /\ before' = None
    /\ link' = "up" /\ NewReceiver
    /\ state' = IF switch.cancel THEN "listening" ELSE Restored(state)
    /\ UNCHANGED <<epoch, mic, turn, guard, fin, settlement, heard, orphaned, rolling, record,
                   again, sends, applied, clock, drops>>

\* The reply to a user turn: speech is admitted on a stable call, and ends.
ReplyStarts ==
    /\ state = "thinking" /\ phase = "stable" /\ state' = "speaking"
    /\ UNCHANGED <<phase, epoch, before, switch, mic, turn, guard, stt, client>>
ReplyEnds ==
    /\ state = "speaking" /\ state' = "listening"
    /\ UNCHANGED <<phase, epoch, before, switch, mic, turn, guard, stt, client>>

\* interrupt and, after the delivery of its event, its last lines
Interrupt ==
    /\ Control /\ ~Terminal /\ state' = "interrupted"
    /\ UNCHANGED <<phase, epoch, before, switch, muted, audioEpoch, turn, guard, stt, client>>
Interrupted ==
    /\ ~Terminal /\ state = "interrupted" /\ state' = "listening"
    /\ UNCHANGED <<phase, epoch, before, switch, mic, turn, guard, stt, client>>

\* cancel_speech_turn
CancelSpeech ==
    /\ Control /\ ~Terminal /\ state' = "listening"
    /\ UNCHANGED <<phase, epoch, before, switch, muted, audioEpoch, turn, guard, stt, client>>

End ==
    /\ ~Terminal /\ phase' = "terminal" /\ state' = "ended" /\ epoch' = epoch + 1
    /\ before' = None /\ switch' = None
    /\ UNCHANGED <<mic, turn, guard, stt, client>>

Stt == (\E o \in Outcomes : SttResult(o)) \/ Settle \/ Finish
Next ==
    \/ \E s \in Sounds : LiveFrame(s) \/ ReadGap(s) \/ BrowserRecords(s)
    \/ ReceiverGivesUp
    \/ \E m \in BOOLEAN : SetMuted(m)
    \/ HoldExpires \/ GraceExpires \/ Backfill \/ Stt
    \/ LinkDown \/ BeginReconnect \/ Offer \/ Recover \/ Promote \/ SwitchBegins \/ SwitchCommits
    \/ ReplyStarts \/ ReplyEnds \/ Interrupt \/ Interrupted \/ CancelSpeech \/ End
Spec == Init /\ [][Next]_vars

\* The transcription thread returns, its event is delivered, the task goes on.  Each of these
\* steps changes fin.
FairSpec == Spec /\ WF_fin(Stt)
-----------------------------------------------------------------------------
(* Properties *)

InTurn == ToSet(buffer) \cup (IF fin = None THEN {} ELSE ToSet(fin.frames))

Times(f, fs) == Cardinality({j \in DOMAIN fs : fs[j] = f})
InOrderSince(t, fs) ==
    \A i, j \in DOMAIN fs : i < j /\ fs[i].t > t /\ fs[j].t > t => fs[i].t < fs[j].t

\* Where a frame stands twice, it is one that a recording took from before its loss.
Distinct(fs) == \A i, j \in DOMAIN fs : fs[i] = fs[j] => i = j \/ fs[i] \in again

\* No other frame is heard twice: what is transcribed, what waits in the turn and what is
\* on hold are different frames, however often the browser repeats its recording
\* (_reconnect_audio_backfill_ids).
Given == IF fin = None THEN <<>> ELSE fin.frames
HeardOnce ==
    /\ Distinct(buffer) /\ Distinct(held) /\ Distinct(Given)
    /\ ToSet(held) \cap (InTurn \cup heard) \subseteq again
    /\ ToSet(buffer) \cap (ToSet(Given) \cup heard) \subseteq again
    /\ fin # None /\ fin.pc = "transcribing" => ToSet(fin.frames) \cap heard \subseteq again

\* A frame from before the loss is taken in a second time only when the turn no longer ends
\* with it: if the recording begins with the end of the turn, loud and long enough to be
\* recognised but not longer than what is compared, none of it is repeated, whatever
\* follows and whatever else looks alike (_trim_reconnect_backfill_overlap takes the
\* longest match).
OverlapIsCut ==
    [][\A n \in MinOverlap .. Len(record.frames) :
         (Backfill /\ n <= Len(buffer) /\ n <= MaxOverlap /\ MustMatch(n) /\ BackfillTaken) =>
            LET b == IF buffer' = <<>> THEN fin'.frames ELSE buffer'
            IN  \A i \in 1 .. n :
                  record.frames[i] \notin ToSet(held) =>
                     Times(record.frames[i], b) = Times(record.frames[i], buffer)]_sends

\* The recording of a gap comes before the frames of the new track, in the turn and in
\* what is transcribed, when the hold was set for the new track and was neither cut short
\* by its timeout nor by a mute (_hold_reconnect_live_frame_if_needed).
GapInPlace ==
    armed = "yes" => InOrderSince(record.from, buffer) /\ InOrderSince(record.from, Given)

\* What is loud is not lost: a loud frame that was taken into a turn or put on hold reaches
\* the transcription, however much is cut off the end of its turn and whichever way the turn
\* was put together.  The exceptions: the whole turn was nearly silent, or a mute discarded
\* what was on hold or no turn yet (_trim_trailing_silence_for_stt, _append_turn_frame,
\* _hold_reconnect_live_frame_if_needed, _finalize_user_turn_admitted, set_muted).
Kept == InTurn \cup ToSet(held)
VoicesAreTranscribed ==
    [][\A f \in Kept \ Kept' :
         f.loud => \/ f \in heard
                   \/ fin # None /\ fin.pc = "skipped" /\ f \in ToSet(fin.frames)
                   \/ /\ muted'
                      /\ f \in ToSet(held) \cup (IF seen THEN {} ELSE ToSet(buffer))
    ]_<<buffer, held, fin>>

\* Muting is final for what it silenced: a frame that was captured before a mute and was
\* not part of the turn then never becomes part of one (the hold is discarded, a late
\* recording is refused by its epoch).
MutedStaysOut ==
    [][\A f \in InTurn' \ InTurn : f.epoch = audioEpoch']_<<buffer, fin>>

\* When a call is deaf: it says "understanding", drops every frame, and nobody is
\* transcribing.  That happens only when a transcription ended during a reconnect that
\* had put its state aside; the recovered transport restores it although nobody is left
\* to end it (_release_stt_admission_locked, _complete_transport_reconnect_locked).
DeafOnlyByReconnect ==
    (state = "understanding" /\ fin = None) => orphaned

\* A stale transcription tells nothing: "thinking" comes only from a result that was
\* admitted in the current lifecycle of a running call (_stale_stt_turn_response_locked
\* and the commit are one section of the lock).
ThinkingIsEarned ==
    [][(state' = "thinking" /\ state # "thinking" /\ state # "reconnecting") =>
         fin # None /\ fin.epoch = epoch /\ ~Terminal]_state

\* The receive loop, blocked by the transcription of its turn, takes up frames again.
ReceiverResumes == []<>(receiver # "blocked")

\* The turn is what the user said: no frame twice, the recording of the gap in its place,
\* and what is loud of it transcribed.
TurnIsWhole ==
    [](TypeOK /\ HeardOnce /\ GapInPlace) /\ OverlapIsCut /\ VoicesAreTranscribed

\* What belongs to an earlier state of the call is refused: frames from before a mute and
\* results from before a reconnect.
StaleInputIsRefused == MutedStaysOut /\ ThinkingIsEarned

\* The call hears again after a transcription, or it is the known deafness after a
\* reconnect.
HearingResumes == []DeafOnlyByReconnect /\ ReceiverResumes
=============================================================================
