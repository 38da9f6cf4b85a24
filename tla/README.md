# RayMe: a TLA+ verification project

RayMe is a LAN application for talking to AI characters by chat or by live voice call. Three
services take part in a call: the browser, the web server (`web-ui/server`, FastAPI over SQLite)
and the AI backend (`ai-backend`, FastAPI with WebRTC, speech recognition and speech synthesis).
This directory models the parts of that system in which order, failure and concurrency decide
whether it is correct. TLC checks the models on small instances, and TLAPS proves some of the
properties for every value of the constants.

Paths below are relative to the repository (`src/`). `PROJECT.json` lists, for every definition
that stands for code, the lines it stands for.

## 1. Inventory

### 1.1 Components of a live call

**Call turn lifecycle** (`web-ui/server/app/domain/call_service.py`, driven by `api/calls.py`).
- State: the `call_turns` row of each turn (state, owner token, lease, hash of the text, the two
  message references), the thread's messages, and the in-memory `ActiveCall` (`ended_at`,
  `turn_states`, `turn_owners`, active tasks, pending and completed AI turns).
- Operations: reserve a turn, rejoin as a duplicate and poll, record the user's speech, generate
  and play, claim and persist the reply, finish, recover a broken reservation, reconcile stale
  rows, interrupt, hang up.
- Hard: several streams for one turn, a lease of 300 s that may expire under a live owner, commits
  whose outcome is unknown after a cancellation, a hangup that waits for tasks which need the same
  locks, a restart that loses `ActiveCall` and keeps the rows.
- Correct when: one owner per turn while it works, a terminal state is final, history holds exactly
  the messages the turns' rows refer to, nothing is appended once the hangup publishes, every
  duplicate gets an answer that the database confirms, and hangups return.

**Speech queue of the web server** (`domain/ai_backend_client.py`, `SpeechTurn`;
`api/calls.py`, `create_call_turn.events`).
- State: a queue of two segments, the worker task, the finalize task, the shared terminal, and the
  place where the event stream stands.
- Operations: submit a segment, finalize, speak (the worker), cancel, poll and record.
- Hard: the stream may be cancelled at any await, more than once; put and get race the worker's
  failure; the backend's cancel must not overtake or be overtaken by a speak.
- Correct when: a normal end means the whole reply was accepted in order, no worker outlives its
  stream, no speak follows a cancel, the backend learns of every abandoned reply, every stream ends.

**Speech ledger and admission** (`ai-backend/app/call/session.py`, `CallSession`; endpoints in
`api/webrtc.py`).
- State: the ledger of each turn (`next_ordinal`, segment states, cached answers), the one speech
  admission, the bridge queue between the synthesis thread and the event loop, the outbound track,
  the pending terminal, the two sets of cancelled and cancelling turns, the event outbox.
- Operations: speak, complete a turn, the steps of the streaming pipeline, cancel a turn,
  interrupt, end the call.
- Hard: retries of requests whose answer was lost, requests that wait for each other, a thread that
  waits on a full queue, a startup buffer with a timeout, cancellation in several steps.
- Correct when: one speaker at a time, no claim is left behind, segments commit in order, answers
  agree with the ledger, committed segments stay, a cancellation stops its own turn and nothing
  else, a cancelled turn plays nothing more and is never reported done, every request is answered.

**Event outbox and retention** (`session.py` 2581–2760, 5781–5917). Events are committed in order;
the terminal one is reserved at the end of the call and filled in after the cleanup. One task
delivers them over the data channel and keeps the recoverable ones that could not be delivered; an
ended session is retained for a while so that the page can fetch them. Correct when delivery follows
the commit order, each event is settled once, nothing of the call follows its end, and no emitter
waits for good.

**Peers: promotion, switch, reconnect, terminal outcome** (`session.py` 796–2192, 4254–5023;
`api/webrtc.py`). Peer generations, a candidate with a timeout, the switch transaction with its
owned cleanups, the reconnect grace with its epochs, the first terminal transition and the cleanup
in bounded, retried steps. Correct when every peer is in use, closed, being closed or on record,
decisions on an offer agree, the engine changes as a whole, and the grace ends no live call.

**User turns** (`session.py` 724–795, 2192–2580, 2760–2790, 5033–5450). Frames, the turn buffer,
mute revisions, the recording a browser makes around a loss and sends afterwards, the hold that keeps
new frames behind it, admission and settlement of a transcription. Correct when a turn is what the
user said, once and in order, when stale frames and results change nothing, and when the call hears
again.

**Outbound track** (`call/tracks.py`). Admission credit in samples, a playout epoch, idle waits,
`stop_current`. Correct when what is heard is in order and never repeated, and a stop is heeded by a
writer that is in the middle of a chunk.

**Models** (`ai-backend/app/models`). `ModelManager` holds one resident engine, one prepared voice
prompt and the calls that lease it. The Qwen3 adapter talks to a worker process over pipes; its
cancel may overtake the generate it refers to, and a silent worker is killed. Correct when a call
speaks with its own prompt, every lease is given back, no answer leaks into another operation, a
cancel that succeeded silences its request, an invalidated voice is gone from every process or on
its way out with one, and every call returns.

### 1.2 Other components

**Messages and alternates** (`domain/message_actions.py`, `api/chat.py`, `thread_service.py`): each
request reads, waits for the model and writes, while others edit, truncate or delete. **Chat stream,
refusal guard and segmenter** (`llm_stream.py`, `refusal_guard.py`, `call_tts_segments.py`): what of
a model's answer is held back, shown and cut into phrases. **Prompt assembly** (`prompt_builder.py`,
`generation_profiles.py`): what of a thread fits the context window. **Voices, blobs, characters**
(`voice_service.py`, `voice_assets.py`, `character_service.py`, `portraits.py`, `blob_store.py`,
`reaper.py`): rows, files and the backend's prompt, changed by requests that overlap and crash.
**The call page** (`+page.svelte`, `store.svelte.ts`): start, offer, mute with a deadline, event
recovery, hangup. Settings, probes, the other TTS engines, the database declarations, the other
pages and the operational scripts are not modelled; `PROJECT.json` gives the reason for each.

### 1.3 How the modelled parts meet

```
 browser --POST /turns, /interrupt, /end--> CallTurns  (rows, history, hangup)
                                              |  one event stream per turn
                                              v
                                           SpeechTurn  (queue of 2, worker, cancel)
                                              |  POST speak / complete / cancel
                                              v
                                          SpeechLedger (admission, ledger, stream, outbox)
                                              |  audio            |  ai_done, terminal events
                                              v                   v
                                        outbound track        data channel -> browser
```

`CallTurns` takes the generation and playing of a reply as one of several outcomes (`Played`,
`GenerationEnds`). `SpeechTurn` refines what happens inside that outcome, and takes the backend's
answer to a speak as normal, discarded or error. `SpeechLedger` refines that answer for several
requests and turns; `Playout` refines it for one turn down to the samples, and `SpokenTurn` composes
`SpeechTurn` with `Playout` through a network that loses and delays. Beside this line stand
`CallReply` (where the phrases come from), `UserTurn` (what the user says), `CallPeers` (the
transport), `EventOutbox` (what the browser is told), `PromptLease` and `QwenWorker` (the voice), and
`CallControl` (the page's own requests).

## 2. Plan and its state

All modules below are written, checked and, where section 5 says so, proved about. What is left of
the plan, in this order:

1. The one pending part of the model that a composition would show: the receive loop's own 5 s
   deadline (`webrtc.py:1352`) against the grace of the session.
2. Theorems about the safety of `ThreadChat` and `CallControl`, which TLC alone checks so far.

## 3. Modules

### 3.1 CallTurns

A *request* is one `POST /turns` stream. Its task and the owner token it draws are identified with
it. A section of `call.lifecycle_lock` is one step. What happens outside the lock is a step of its
own: the duplicate's read (`StatusRead`) before its write (`StatusApply`), the claim
(`ClaimAppend`), the staged transaction (`StageAppend`) and its commit (`CommitAppend`), the
hangup's waits.

| Actions | Code |
|---|---|
| `ReserveCreated`, `ReserveExisting`, `ReserveFailed`, `ReserveRejected`, `Recover` | `reserve_turn`, shielded recovery |
| `StatusRead`, `StatusApply`, `Abandon` | a duplicate's `call_turn_status` polling |
| `RecordUser`, `Played`, `GenerationEnds` | `record_reserved_user_speech`, the body of `events()` |
| `ClaimAppend`, `ClaimRefused`, `StageAppend`, `CommitAppend`, `AppendRolledBack` | `record_completed_ai_speech` |
| `Finish`, `Unregister`, `CleanupAborted`, `CancelDelivered`, `Disconnect` | the `finally` of `events()`, cancellation |
| `BeginEnd`, `EndAgain`, `EndRaised`, `CommitEnd`, `Interrupt` | `begin_end`, `record_end`, `/end`, `/interrupt` |
| `LeaseExpires`, `Reconcile`, `Crash` | wall clock, `reconcile_stale_turns`, process restart |

Abstractions: text is a model value (the code compares hashes); a lease is live or expired; a commit
that is in flight when its task is cancelled is resolved either way at that moment, since nothing
reads the row between; the unique-constraint path of the reservation cannot occur with one process;
the later ownership checks of `record_reserved_user_speech` and `record_completed_ai_speech` never
refuse a task that can still run (a hangup cancels the registered tasks in the very section that
sets `ended_at`), so they have no refusing action; the two locks are taken in different orders in
two places, and SQLite's busy timeout breaks the wait.

### 3.2 SpeechTurn

The state is the queue, the worker's place, the item it speaks, the finalize task, the shared
terminal, and the stream's place with the cancellations delivered to it. `Segment`, `PutResumes`,
`GenerationEnds` and `GenerationFails` are the producing half of `events()`; `FinalizePuts` and
`FinalizeReturns` the shielded finalize task; `WorkerStarts`, `WorkerGets`, `WorkerSpoke` and
`WorkerCancelled` the worker; `StreamCancelled`, `StreamClosed`, `Gathered`, `GatherCancelled`,
`BackendCancelled` and `CancelReturns` the ways out. The `_interrupt_call` that follows a failed
generation changes nothing of this state; `SpokenTurn` has it as `InterruptArrives`.

Abstractions: a cancellation wins whenever a task that was cancelled resumes, as in asyncio; closing
the generator at a yield runs only the `finally`; the first step of finalize cannot be preceded by
a cancellation of its task, so it is part of `GenerationEnds`; a cancellation delivered in the last
await of the cleanup is swallowed there. Persisting the reply is `CallTurns`' subject.

### 3.3 SpeechLedger

A *request* is one call of the speak endpoint, its submission chosen from `Submissions` (turn,
ordinal, kind: a part, the final part, or the empty final marker). `Admit` and `ClaimMarker` claim a
segment, `Replay` answers from the cache, `Refused` covers the checks. `Produce` and `ProducerEnds`
are the synthesis thread; `TakeChunk`, `StartupTimeout`, `TakeEnd`, `TakeError` and `Join` the
consumer; `PlayoutEnds`, `DeliverDone` and `SettleFinal` the completion of a turn;
`CancelSpeechTurn`, `Interrupt`, `End` and `CloseSpeech` start a cancellation which `StopSpeech` and
`FinishCancel` carry out; `Unwind` and `Unwound` the cancelled handler.

Abstractions: no section of `_lifecycle_lock` suspends except the peer switch, so admission and
promotion are one step, and promotion's refusal is unreachable; the `_active_tts_*` fields follow
from the admission; `ai_audio_started` and failure events have no step of their own; the bounded
waits of the terminal cleanup are taken as unbounded but fair. Not modelled: the whole-WAV path of
engines without streaming, a change of the selected voice, the peer switch, a graceful switch of the
engine.

### 3.4 QwenWorker

Threads of the backend call the adapter: an *operation* is one call of `stream` (a request) or of
`load`, `prewarm`, `invalidate` or `unload` (a control), and holds `_operation_lock` from `Lock` to
`Return`. `cancel` runs beside them, from `Cancels` or from inside a control. A process of `w` has
its two pipes, its command queue and the globals of `tts_qwen3_worker.py`. `Capture` fixes the line
queue a read waits on, which is the point where a stop or a respawn by another thread matters; the
`Read...` actions take one event each, and `ReadFails` is the deadline, the end of the lines or an
event that does not belong. `SendCommand` respawns a process that is gone, as `_ensure_worker` does.
`StopWorker` is the first half of `_stop_worker`, which forgets the process, and `Reap` the second,
in which the process ends; `killer` says who waits for that. In between others go on, and `cancel()`
stops a worker without the operation lock.
`Finally`, `Abandon` and `Close` are the stream's `finally`. `SignalCancel` is the worker's thread;
`Dispatch...`, `GenerateChunk` and `GenerateEnd` its main thread; `Fault` a crash or a garbage line.

Abstractions: identifiers are unique, as every caller makes them, so an attempt is its request and
the attempt generations are left out, and the histories of 32 entries never overflow;
`_ensure_worker` is one step; a process that is being ended takes no step, since what it may
still do it could have done just before; a write to a process that dies meanwhile
succeeds and the death shows at the read; a spawn fails once `MaxWorkers` were spawned; the numeric
checks of chunks are garbage lines. `heard` and `forgotten` are history: the requests whose cancel a
process has read, and those that a full `_PENDING_CANCELS` threw away. `MaxEvents` bounds the calls
that begin, the chunks and the faults together.

### 3.5 CallPeers

A peer is an offer with the selection (engine and voice) it carries. `Offer`, `Negotiated` and
`OfferFails` are the endpoint; `Decision` its commit, reject and their retries; `Handle` takes a
connection state that `TransportEvent` reported; `SwitchTask` runs the switch transaction step by
step without the lock, as the code does; `CandidateTimeout` and `GraceExpires` are the timers, which
compare the epoch they were set in. `End` is the first terminal transition and `Terminate` a step of
its cleanup: stop tracks, cancel speech, release the lease, close peers, each of which may fail or
time out (`MaxFaults`) and is retried up to `RetryLimit`.
`GraceSparesLiveCalls` excludes the steps of `End`; a grace that ends a call whose transport was closed
(and not failed) records "ended" too and is the same step as such an end, so that the property bears
on failed transports.

### 3.6 EventLog and EventOutbox

`EventLog` is what the outbox promises: a log that is settled from its front, once per event, where
a recoverable event is dropped only after the retention. `EventOutbox` is the code: `Commit` appends
an entry, ready or reserved; `Deliver` takes the front entry if it is ready; `CallLost` and
`EndRequest` reserve the terminal entry and `Publish` fills it; `Drain` hands over what was kept;
`EndReturns`, `Expire` and `RemoveSession` are the retention of `CallSessionManager`. The mapping
(`Log` in `EventOutbox`) reads the log as what is settled followed by what waits.

The guard of `_deliver_event` against late speech reads `session.state`, which the speech tasks write
without the lock and over "ended" too. `state` is therefore apart from `call`, and `turn` says
whether the session's records still hold the speech turn (a cancellation finds it), have been cleared
(`loose`), or a cancellation marked it. The cleanup of the end cancels what is held before it
publishes.

### 3.7 UserTurn

A frame is its capture time, the number of mutes before it, and what two detectors say of it: `voice`,
which the voice activity detection hears and which begins and ends a turn, and `loud`, the rms test
that trims the end of a turn, drops one that is nearly silent and compares a recording with the turn.
Neither implies the other. `LiveFrame` is a pass of the receive loop, `Backfill` a request with the
recording, `Stt` a step of the transcription, the rest are controls, timers and the events of the
transport. `again` and `orphaned` are history: the frames a recording took from before its loss, and
whether a transcription ended while a reconnect had put its state aside. `armed` follows the hold of
the last loss: whether it may still be set for the new track, was set and not cut short, or neither.

Abstractions: time is abstract (the hold and the silence grace end at any moment); what the
detectors hear is an input. The rms of a whole turn is not computed: a turn may count as nearly
silent if one of its frames is not loud, and may be transcribed if one is. The overlap of the recording
with the turn is found by loudness in the code, so the model takes it that audio always equals itself
when some of it is loud, that different audio may or may not look alike, and that nothing matches
where none is loud; no more than `MaxOverlap` frames are compared. Resampling is left out.

### 3.8 PromptLease

`Reserve` to `Prepared` are `prepare_tts_engine` with its two halves around `asyncio.to_thread`;
`Install`, `Disown`, `CleanupRelease` and `CleanupTimeout` the session's handoff; `Ask...` and
`Switch...` the change of the resident engine, under a lock that does not exclude the first one;
`EndRelease`, `EndTimeout` and `SwitchRelease` the ways a lease goes back.

### 3.9 ThreadChat, CallReply (PromptBudget, ReplyStream), Library, CallControl

`ThreadChat`: a request is its committed reads, the wait for the model and one write, which fails
as a whole on a broken key. A generation has a `kind`, since a continue shows the model the selected
text of its own target, or, when that is empty (`Blank`: a character without a greeting), cuts the
thread behind the target (`IncludeTarget`). `PromptBudget` is `compose_prompt` over lengths of texts;
`ReplyStream` is `_stream_text_tokens`, the guard and the segmenter over texts of six symbols in
chunks cut anywhere; `CallReply` runs one after the other, as a turn does. `Library`: an action is
the stretch of a request between two awaits; a crash ends all requests; `raced` and `forced` are
history variables that record which requests overlapped. `CallControl`: a request passes from the
page to the web server to the backend and back; each side may stop waiting, and a request that was
given up may be lost or carried out later. A "muted" event is not recoverable: one that finds no open
channel, or whose send raises, is dropped (`EventDropped`), and no poll brings it back.

### 3.10 Playout and SpokenTurn

`Playout` follows units of audio from the synthesis through the handler (startup buffer, blocked
enqueue, final wait) and the track (queue, buffer, epoch) to the peer, with the cancellations by the
web server, the interrupt button and the end of the call. A section of `_pending_condition` is one
step; `wait_until_idle` wraps `Condition.wait` in `wait_for`, which runs it in a task of its own, so a
waiter is woken a step later. `SpokenTurn` joins it to `SpeechTurn`: requests may be lost, answered
too late, or given up, once per behaviour (`Untroubled`).

## 4. Runs

| Run | Checks | Instance |
|---|---|---|
| `turns` | `WorkerHoldsTurn`, `RecordsAgree`, `TerminalIsFinal`, `HangupIsFinal`, `CallersReturn` | 1 turn, 2 streams, 1 text, 2 hangups, 1 interrupt, a crash |
| `speech` | `SingleSpeaker`, `LedgerIsSound`, `CancellationIsExact`, `SpeakIsAnswered` | 2 turns, 2 requests, a cancellation, an interrupt, the end |
| `qwen` | `OneGeneration`, `PipesAreSound`, `ReturnsAreHonest`, `CallsReturn` | 2 streams, 2 controls, 1 cancel, 2 processes, 5 events |
| `peers` | `PeersAreAccounted`, `SwitchIsAtomic`, `GraceSparesLiveCalls`, `CallSettles` | 2 peers and a refused offer, 1 recording, 1 loss, 1 failing step |
| `outbox` | `EndIsLast`, `ImplementsLog`, `EmittersReturn` | an event of each kind, 2 changes of the channel, 1 failing send |
| `user_turn` | `TurnIsWhole`, `StaleInputIsRefused`, `HearingResumes` | 3 frames of 2 sounds, turns of at most 4, 1 loss, a recording sent twice, 2 controls |
| `leases` | `NoLeaseIsOrphaned`, `PromptIsOwn`, `LeasesSettle` | 1 call, 2 requests, 1 eviction, a voice of two contents |
| `threads` | `RowsBelong`, `GenerationsReadThePast` | 2 sends, 1 generation, 2 editors, no greeting |
| `control` | `MicObeysTheUser`, `SettledCallAgrees` | 2 request slots, 4 mute revisions |
| `library` | `DeletionIsExplained`, `LossIsExplained` | 2 request slots, 6 starts, 2 voices, 1 character, 3 files |
| `reply` | `PromptIsRight`, `GuardHolds`, `PhrasesCutTheReply` | 3 messages, 2 examples; 2 attempts of 7 symbols |
| `spoken_turn` | `WholeReplySpoken`, `ReplyIsHeard`, `TurnEndsClean`, `StoppedIsQuiet`, `ReplyEnds` | 2 segments of 2 chunks, 2 cancellations, one fault or one stop |

Most of these names join parts that stand, commented, above them in the module: `RecordsAgree` is
`HistoryMatchesTurns` (the history is exactly what the rows refer to) and `AnswersAreDurable` (what a
client was told is what its row says); `LedgerIsSound` has the claims, the order of the segments and
the answers; and so on. Those that end in `IsExplained` say that a bad state which the code can
reach has the overlap of requests that explains it, and no other way leads there.

**Why the bounds are enough to be interesting.** Two streams for one turn give an owner and a
duplicate that reads before the owner moves and writes after it; two hangups give a second one that
arrives during the first one's wait. Two speak requests give a speaker and a retry of it, or the
request after it, or the next turn's. Two segments with a queue of one (the code's is two) fill the
queue while one is spoken. In `qwen` a stream needs one control to prepare its voice; two processes
give one respawn. `PendingLimit` is one where the code has eight, and there are two streams, so that
the cancel of one can push that of the other out of the set; five events are two streams, two
controls and the cancel, or fewer calls with chunks and a crash.
Two peers give one in use and one candidate, with the same or another engine; the third offer carries
no usable selection, so that it can arrive, and be refused, at every moment of a switch or of the end.
One failing step meets two tries of the terminal work. Three frames are the
shortest turn with a frame before, in and after the gap. The two sounds of `user_turn` are a low voice
and a loud noise, on which the detectors disagree: a voice that may be trimmed, and a noise that ends
no turn's silence but is kept. Two slots in `control` give a request that
overtakes another; in `library` six starts are two voices saved, renamed, assigned and deleted.
Symmetry is used in the runs without liveness only.

Larger instances of `user_turn` take longer than a run should and are not among the configurations:
with a loud voice as a third sound (5.9 million states) and with two losses, one control, one send
and a preroll of one frame (14.8 million states) TLC finds no error either, nor does a random
simulation with three losses and six frames.

`CallTurns` is checked with one turn: streams of one turn contend for one row, while streams of
different turns meet only in the hangup and in the thread's history, and the theorems of section 5
hold for any number of turns.

**Deadlock** is not checked: calls, streams and requests come to an end in every one of these
models, and the liveness properties say that they do so properly.

**Fairness.** Each step of a task that is ready to run is weakly fair: the asyncio loop runs every
ready handle. What ends by a timeout in the code is fair for that reason: the LLM stream (read
timeouts), `speak_call` (120 s), the playout wait, the worker's read timeout, the switch and the
cleanup of a call (bounded steps), the candidate timeout and the grace. In `PromptLease` the steps of
a request that takes a lock are strongly fair: asyncio locks are first come, first served, and the
thread lock is held for bounded work. In `turns` a lease expires eventually, since time passes. In
`SpokenTurn` the progress of the whole is fair, which is weaker. Nothing obliges a browser to submit,
disconnect, cancel, interrupt or hang up, and no fault, crash or reconciliation is fair: in `turns` a
hangup is fair from the moment its request was sent, so that `CallersReturn` is also checked in calls
that nobody ends. In `qwen` every step of a thread of the adapter is fair, since each wait there has a
deadline, and so is the end of a process that was terminated and then killed; nothing is assumed of the
worker otherwise.

### 4.1 Weak points the models show

These are behaviours of the code that the models contain. No run checks the claim they contradict;
they are listed because a reader of the properties will ask.

1. **A duplicate's stale read undoes a transition.** `call_turn_status` reads the row before the lock
   and stores the state it read into `turn_states` under it (`call_service.py:400`). Put back to
   `reserved`, a turn that was played to the end is refused when it is to be persisted (line 733).
2. **The backend is not told of a cancellation** when a second cancellation of the stream arrives while
   `cancel()` gathers the worker (`ai_backend_client.py:238`). `StoppedIsQuiet` names the exception.
3. **A cancellation that reaches the next turn.** For a turn that is only pending there is no captured
   request, and `_cancel_active_tts_generation` uses the generation that is active by then
   (`session.py:4065`). `CancellationIsExact` speaks of turns with a captured request.
4. **`ai_done` after a cancellation.** Between the clearing of the pending terminal and the delivery
   of `ai_done`, a cancellation does not recognise the turn (`session.py:2962`).
5. **No clean reload after an idle crash.** `prewarm` and `stream` trust the flag `loaded` and respawn
   a process without the model; `load` then believes it (`tts_qwen3.py:218`).
6. **A deaf call.** A transcription that ends while the call reconnects leaves "understanding" to a
   recovery that nobody ends (`session.py:2487`); `HearingResumes` names the exception.
7. **Speech behind the end.** `complete_speech_turn` writes "listening" over "ended" and emits `ai_done`
   (`session.py:2963`). When its records were cleared before the cleanup of the end looked at them, the
   event is delivered behind the terminal one; `EndIsLast` names the exception.
8. **A voice that is evicted but alive.** `cancel()` stops the worker without `_operation_lock`, and
   `_stop_worker` clears the selection before the process ends (`tts_qwen3.py:706`). An `invalidate()`
   may return in between, up to ten seconds before the prompt is gone; `ReturnsAreHonest` names the
   exception.
9. **A forgotten cancel.** A full `_PENDING_CANCELS` is emptied (`tts_qwen3_worker.py:158`), and with it
   the cancels of generations yet to begin; `PipesAreSound` names the exception.
10. **A mute state the page never hears of.** An unmute that was given up, and is carried out while no
   channel is open, leaves page and backend apart until the next change (`session.py:2703`);
   `SettledCallAgrees` names the exception.

## 5. Proofs

**`CallTurnsProofs`** proves `TypeCorrect`, `WorkersHoldTheirTurns` and `TerminalStatesAreFinal`, for any sets
of turns, streams, texts, hangups and interrupts with the two named assumptions of `CallTurns`
(hangups and interrupts are different requests, `None` is none of the other values). Ownership is
not inductive as stated. The invariant `Inv` adds:
- `TurnKnown`: a stream past its submission works on a turn that has a row.
- `ClosedRows`: a closed or absent row keeps neither owner nor lease.
- `TaskPlaces`: where tasks that ended early, shielded recoveries and the streams of a dead process
  can be.
- `HangupProgress`: a hangup that waits has every working stream in its set; past its first wait
  no stream works, and past its second no open row is owned in memory. Needed because the hangup closes
  open rows without looking at their owners.
- `StatesAgree`: memory never calls a turn closed whose row is open under a known owner. The stale
  duplicate of section 4.1 breaks any stronger agreement.
- `FreshView`, `PollView`: what a database session's identity map may still show of a row. A stream
  in its `finally` that believes it owns an open row is right, and a poll's view is stale in one
  direction only: a terminal state it shows is true.

Its second part proves `TheRecordsAgree` and `HangupsAreFinal`. What a step does
to the rows and the history is sorted once (`EveryStepRecords`: nothing, a reservation or a closing,
the user's words, the reply, the end of the call), and the invariant `RecordInv` is proved for each
sort instead of for each action. It adds to the two properties:
- `StreamAgrees`: how far a stream got with its turn is what the row says; a poll that read a terminal
  state read the one that stays; an answer is given once, in the cleanup or after it.
- `AbsentIsSilent`: a turn without a row refers to no message.
- `EndIsPublished`: a hangup that has begun has published the end, unless the process died since; with
  it the frozen history follows, since every sort that appends requires that the call is not ended.

**`SpeechTurnProofs`** proves `TypeCorrect`, `RepliesAreWhole` and
`TurnsEndClean` (with its parts `StreamsJoinTheirWorker` and `CancelIsLast`) for every queue capacity and reply length above zero and every number of
cancellations. A turn is *healthy* while it has no terminal and its worker was not cut off. The
invariant `Inv` adds:
- `HealthyStream`: where the stream and the finalize task can be while the turn is healthy.
- `InLine`: what the backend accepted, what the worker speaks, what is queued and what is blocked in
  a put are consecutive ordinals, without a gap.
- `FinalIsLast`: only the last of that line is the final chunk.
- `NormalEnd`: once the terminal is normal the worker is gone and everything was accepted.
- `WorkerGone`, `OrdinalBounds`: what an ended task says about the worker; bounds of the ordinals.

The argument for `RepliesAreWhole`: the terminal becomes normal in one step only, the answer to a
final chunk. `InLine` and `FinalIsLast` say that at that moment everything before it was accepted,
and `NormalStep` that no later step disturbs it.

Its second part is about `SpokenTurn`, for every credit, frame and chunk size, startup buffer and
number of chunks, all above zero, and with the one fault or one stop that `Untroubled` admits.
`RepliesAreTurns` shows first that `SpokenTurn` implements `SpeechTurn`: every step of the composition
is one of the turn or leaves it alone, whatever is lost or late, so that `Inv`, `RepliesAreWhole` and
`TurnsEndClean` hold of it. `TheReplyIsHeard` and `TheStoppedAreQuiet` are then proved over sorts of
steps again: `HandlerStep` and `HandlerWay` say what a step of the speak handler does to the call, the
audio and the turn, `ControlStep` and `ControlWay` what a cancellation does. `TheReplyIsHeard` needs `ReplyInv`:
- `TheCall`: the call of a speaking worker is in one place, a request on its way, a handler or an
  answer; a worker that is done left it behind, and one that never spoke has none.
- `Hands`: where a handler may hold audio, and that its enqueue goes stale only with its turn
  cancelled or the track stopped.
- `HoldsLast`, `ToldInOrder`: what the handler holds are the last units made, and what it passed on
  rises and stays below them. From them `AudioInOrder` follows, even after gaps.
- `NothingLost`: as long as the turn is sound, what was passed on are all units below those held.
- `PlayedOut`, `NothingAfter`: an answer "done" was given over an empty track, and nothing of the call
  is left behind a normal terminal, so that nothing made later can be missing.

`TheStoppedAreQuiet` adds `QuietInv`:
- `Refused`: a turn that is marked or ended is not active in the book, so that no request is admitted
  for it, and a marker waits for its playout only.
- `Caught`: a cancellation that captured the turn without its handler found the handler past the last
  place where it queues audio; once one is finished, the handler is there or cut off.
  `AcknowledgedIsSilent` follows.
- `Abandoned`: the backend has a call of a worker that is done only if that worker was cut off or gave
  up, and an answered cancellation was carried out or lost.
- `LateLeft`: after the stop, what entered the line is the beginning of one chunk and what is held
  begins with the rest of that chunk. Without it the count could start over at each part of an
  enqueue that the credit divides. It uses that the units of a part follow each other (`HoldsLast`),
  on which `Chunk` relies as well.

**`EventOutboxProofs`** proves `TheEndIsLast` and `OutboxIsALog`, the refinement of `EventLog`, for any
set of events and any number of changes of the channel. Steps are sorted again by what they do to
the log (`Enters`, `Settles`, `Hands`, `Leaves`, `Stays`). The invariant adds:
- `CommittedOnce`: no event is twice in the commit order, and its emitter is not idle.
- `EndIsCommittedLast`: behind the terminal event only events of tasks that take no lock are committed.
- `EndCancels`: the terminal event is ready only when the cleanup is over, and then no turn is held by
  the records: it was cancelled, and the delivery drops its speech whatever `session.state` says, or it
  was cleared before. From both `EndIsLast` follows.
- `Accounted`: what was sent, kept or handed over was settled, in one way only, so that the fate of an
  event is a function of where it is.
- `WaitingIsLive`: while the end request waits the session is registered. Without it the return of
  that request could register a session again that is gone, and the log would reopen.

**`SpeechLedgerProofs`** proves `OneSpeaker`, `TheLedgerIsSound` (with the type, the order of the
segments, the owners of the claims and the answers) and `CancellationsAreExact`, for any turns,
requests, segments, bridge capacity and cancellations. A step is sorted by what it does to the ledger
(`LedgerStep`: a request enters, is answered, claims, works on, releases, commits or takes its turn
with it; turns are cancelled; nothing). The invariant adds:
- `LedgerShape`: the entries of a turn are a committed prefix, then at most one attempt, at
  `next_ordinal`; an attempt is live only while its turn's ledger is active.
- `WorkersClaim`: whoever works holds the entry its turn expects next, and no two work on one turn. It
  follows from the shape: a claim needs that entry absent or reserved, an owner keeps it in flight or
  cancelled. Since `_commit_tts_segment` looks at the identity of the entry and not at the
  state of the ledger, a commit after a cancellation is legal, and it still extends the prefix.
- `CapturedIsMarked`: a cancellation under way has its turn among the cancelling or the cancelled
  ones. `StopIsExact` rests on it: the generation that a cancellation captured is one of a marked turn.
- `Submitted`: whatever the admission, the outbox or a cancellation remembers was submitted.

**`QwenWorkerProofs`** proves `OneStream`, `AnswersAreOwn`, `TheReturnsAreHonest`, `TypeCorrect`,
and `ThePipesAreSound`, for any requests, controls, voices, worker processes and
bound on the chunks. Four invariants stand on each other:
- `WorkInv`: who works holds the operation lock, each place belongs to the kind of its operation, and
  the registered stream is a request at its work. `OneGeneration` follows.
- `PipeInv`: a process has at most one order that it has not answered with a last line, and only from
  the operation engaged with it (`AllSound`, `EachServed`); a process that replaced another is quiet and
  has no runtime (`RestIsQuiet`, `OneLives`). Hence every line read answers its reader, with no
  sequence numbers in the protocol. `LoadedIsKnown` and `PromptIsKnown` say that what the adapter
  believes covers what the process holds: it may think a prompt is there that died, never the reverse.
- `AnswerInv`: a status is recorded only for a stream that is closing or done, and a `cancel()` that
  is to return True saw such a record.
- `MeterInv`: the order of a generation is written to one process only (`OneHome`) and not before its
  stream is registered (`EarlyUnmet`); the chunks that were yielded and those still in that process's
  pipe are together no more than it made (`Budgeted`), which bounds `got` across restarts.

With it `AllHeed` holds: a cancel that a process has read waits for its generation, has stopped it,
came after it, or was forgotten, for which the process must have read the cancels of as many requests
as `_PENDING_CANCELS` may hold: one is forgotten only when that many others are in the set, and each
of them was read. `ThePipesAreSound` needs no bound on the number of requests.

For `TheReturnsAreHonest` two facts speak of processes that are on the way out. `LeavingIsClean`: a
control that stopped the worker finds at most a process that a cancel spawned since, which holds
no prompt. `KillersWork`: a stream that stops the worker keeps the operation lock until the process is
gone. So whoever is still ending a process when an eviction returns, does so outside the lock.

**`PromptLeaseProofs`** proves `LeasesHaveReleasers` and `PromptsAreOwn`, for any calls, requests,
evictions, prompts and limits on the retries.
- `LeaseInv`: a handoff belongs to a call whose request was answered (`HandsFollow`), the cleanup of an
  end means that the call ended and a switch is under way in its phase only (`PhasesFit`). Then a call
  that ends has no cleanup yet, and the one it begins takes the releaser over.
- `PromptInv`: preparations and evictions have the prepare lock (`PreparersLock`, `EvictorsLock`); while one
  prepares no prompt is ready and no other call has a lease on another prompt (`PreparersAdmitted`);
  the adapter holds the leased prompt or none, unless the one owner of the lease has just warmed
  another (`HeldIsLeased`, `WarmedHolds`). The switch of the engine, which takes the other lock, can
  only drop (`Drops`): this is where the two locks that do not exclude each other are argued away.
- The third hypothesis of `LeasedSpeechIsOwn` is the remaining case: the call itself prepares another
  reference of its voice.

**`CallPeersProofs`** proves `ThePeersAreAccounted`, `TheSwitchIsAtomic` and `TheGraceSpares`, for any
finite set of peers, the selections their offers may carry, and any number of losses, faults and
retries. A step is sorted by what it does to the peers (`Aside`: nothing; `Rejects`: the candidate goes
to its cleanup; `Declines`: an offer comes too late; `Ends`: the cleanup of the end takes what was in
use); the offer, the promotion and the steps of a switch stand for themselves.
- `PeersInv`: each phase says whether there is a candidate, a switch, a loss, an outcome (`PhaseFits`); a
  peer that was not offered yet is nobody's (`OffersFresh`); the generations grow from the active
  peer to the candidate or the switch, which has the last one (`CandidateFits`, `SwitchFits`), and
  there are as many as peers that were offered (`GenerationsCounted`, which bounds them); a switch past
  its third step has closed the old peer or remembers that it could not.
- `EngineInv`: the speech and the lease are of the accepted engine until the end, and a switch whose
  cleanup went well has nothing of either left. `SwitchClears` is what makes the publication of the
  selection safe.
- `DecisionInv`: a refused generation is neither the active nor the last one under way, so that nothing
  can commit it later, and a failed switch leaves a terminal call.
- `GraceFits`: while the call reconnects its transport is down or a notification is still to be handled.

**`UserTurnProofs`** proves `EarlierInputIsRefused` (the property `StaleInputIsRefused`),
`DeafnessHasOneCause`, `NoVoiceIsLost` (its part `VoicesAreTranscribed`) and `TurnsAreWhole` (the
property `TurnIsWhole`), for any number of frames, losses, mutes and repeated recordings, any sounds and
every length of a turn, of a silence and of an overlap.
A step is sorted by what it does to the
frames that wait (`InputKept`, `InputHeld`, `InputTaken`) and, apart from that, to the state of the call
(`StateKept`, `StateMoves`, `StateTaken` and the three steps of a transcription). The invariant adds:
- `HoldIsFresh`: what is on hold was captured after the last mute. With the epoch a recording carries it
  gives `MutedStaysOut`: everything that can enter a turn is as new as the last mute.
- `SettlementFits`: a transcription owns the state until its settlement takes over, and a settlement
  leads to "thinking" only from "thinking", so that the one other way there is an admitted result.
- `UnderstandingEnds`: who is "understanding", or will be after a reconnect, has a transcription that
  still changes that, or one came to its end meanwhile (section 4.1, point 6).
- `LoudIsHeard`: once a turn was transcribed, all of it that is loud was heard. `TrimmingKeepsLoud` says
  that the trim cuts off nothing loud; a voice that is not loud it may cut.

For `TurnsAreWhole` the invariant is also `GapInv`, of which TLC checked every part, with two losses,
before it was proved:
- `ClientOrder`: the recording and the last frames of the microphone are in the order of their capture,
  and what the recording took from before its loss is in `again`.
- `AllPast`: nothing was taken in or put on hold that is not captured yet, so that a recording that
  begins now has nothing of the gap in common with the turn.
- `GapIsNew`, `OnePlace`: until its id is on record, no frame of the gap is in a turn, and none is ever
  on hold; no frame has two places but those in `again`. These two make `HeardOnce` inductive over any
  number of recordings.
- `GapOrder`: as long as the hold of the last loss may still be set, nothing is on hold and all that the
  turn has of the gap is of the recording (`OnlyGap`); once it is set and not cut short, what is on hold
  is newer than all that was taken in and all that was recorded (`HeldIsLatest`), so that it can be
  spliced behind the recording; and the turn is in order.
`SplicedInOrder` (a recording in order stays so behind an overlap that is cut off, with what was on hold)
and `OverlapCut` (the longest overlap is at least as long as any that has to match, and what is left of
the recording is newer than all of it) then give the three parts.

**Only model-checked.** The liveness properties (`CallersReturn`, `SpeakIsAnswered`, `CallsReturn`,
`CallSettles`, `EmittersReturn`, `HearingResumes`, `LeasesSettle`, `ReplyEnds`) and the properties
that contain one need fairness, which is out of the prover's reach. What `ReplyStream` and `PromptBudget`
compute for every text would need induction over data, which is out of its reach too.
The safety properties of `ThreadChat`, `CallControl` and `Library` are checked on the instances of
section 4 only.

## 6. Running

```
tlc -workers 2 -config MCCallTurns.cfg MCCallTurns
tlapm SpeechTurnProofs.tla
```
