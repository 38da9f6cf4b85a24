---------------------------- MODULE PromptLease ----------------------------
(***************************************************************************)
(* ModelManager and the prompt leases of live calls.  The Qwen3 worker     *)
(* holds one voice prompt at a time.  A call that prepares its voice gets  *)
(* a lease on that prompt (model_manager.py), which its CallSession owns   *)
(* through a handoff and gives back when the call ends, leaves Qwen3 or    *)
(* changed while the voice was being prepared (session.py).                *)
(*                                                                         *)
(* Two locks that do not exclude each other guard the manager: the asyncio *)
(* lock of prepare, release and invalidate, and the thread lock of         *)
(* switch_tts_engine.  The adapter has a lock of its own, held for a whole *)
(* stream.  Work done by asyncio.to_thread and the continuation of its     *)
(* coroutine are two steps.                                                *)
(***************************************************************************)
EXTENDS Naturals, FiniteSets

CONSTANTS
    Calls,          \* CallSessions; the session id is the owner of a lease
    Requests,       \* POST /sessions/{id}/prepare and previews, of any engine
    Evictions,      \* POST /tts/qwen3/prompts/invalidate
    Prompts,        \* <<voice key, content key>>: an edited voice has two
    Wants,          \* the prompts each request and eviction may name
    ReleaseLimit,   \* CALL_PROMPT_LEASE_CLEANUP_RETRY_LIMIT
    TerminalLimit,  \* CALL_TERMINAL_CLEANUP_RETRY_LIMIT
    Movers,         \* the calls whose transport or selection changes (a bound)
    MaxLosses,      \* bound on transport losses of a call
    None

ASSUME LeaseConstants ==
    /\ Prompts # {} /\ \A p \in Prompts : p = <<p[1], p[2]>>
    /\ Wants \in [Requests \cup Evictions -> SUBSET Prompts]
    /\ ReleaseLimit \in Nat \ {0} /\ TerminalLimit \in Nat \ {0} /\ MaxLosses \in Nat
    /\ Movers \subseteq Calls
    /\ None \notin Calls \cup Requests \cup Evictions \cup Prompts
    /\ None \notin {"qwen", "other"} /\ Requests \cap Evictions = {}

VARIABLES
    resident,       \* resident_tts_engine
    selected,       \* _selected_voice_prompt: voice_key and state
    selKey,         \* _selected_prompt_cache_key
    owners,         \* _qwen_prompt_lease_owners
    leaseOf,        \* the voice and cache key of the lease
    held,           \* the adapter's selected prompt
    streaming,      \* who holds the adapter's _operation_lock over a stream
    prepLock,       \* holder of _prepare_lock
    switchLock,     \* holder of _switch_lock
    pc, want,       \* per request, switcher and eviction: step and prompt
    asked,          \* per request: the call and the epoch it reserved
    hand,           \* per request: the _OwnedPromptLeaseHandoff and its cleanup
    tries,          \* release attempts of a handoff's cleanup and of a call's end
    phase, epoch,   \* _PeerLifecycle
    engine, voice,  \* the accepted configuration of the call
    installed,      \* _tts_prompt_lease_releaser: the handoff that set it
    switch,         \* the _PeerSwitchTransaction and its captured releaser
    ending,         \* the prompt_lease step of the _TerminalCleanup
    speech          \* the call's speak request: step and prompt

manager == <<resident, selected, selKey, owners, leaseOf>>
adapter == <<held, streaming>>
locks == <<prepLock, switchLock>>
requests == <<pc, want, asked, hand>>
session == <<phase, epoch, engine, voice, installed, switch, ending>>
vars == <<manager, adapter, locks, requests, tries, session, speech>>

Actors == Requests \cup Evictions
Voices == {p[1] : p \in Prompts}
Configs == Voices \cup {None}       \* None: the call uses another engine

TypeOK ==
    /\ resident \in {"qwen", "other", None}
    /\ selected \in [voice : Voices \cup {None},
                     state : {"none", "prewarming", "ready", "failed"}]
    /\ selKey \in Prompts \cup {None}
    /\ owners \subseteq Calls /\ leaseOf \in Prompts \cup {None}
    /\ held \in Prompts \cup {None} /\ streaming \in Calls \cup {None}
    /\ prepLock \in Requests \cup Evictions \cup {None}
    /\ switchLock \in Requests \cup {None}
    /\ pc \in [Actors -> {"idle", "waiting", "aligning", "lock", "unloading", "unloaded",
                          "loading", "prewarming", "warmed", "refused",
                          "died", "granted", "preview", "contain", "evicting", "done"}]
    /\ want \in [Requests \cup Evictions -> Prompts \cup {None}]
    /\ asked \in [Requests -> [call : Calls \cup {None}, epoch : Nat]]
    /\ hand \in [Requests -> {"none", "pending", "installed", "releasing", "released",
                              "exhausted"}]
    /\ tries \in [Requests \cup Calls -> Nat]
    /\ phase \in [Calls -> {"stable", "reconnecting", "switching", "terminal"}]
    /\ epoch \in [Calls -> Nat]
    /\ engine \in [Calls -> {"qwen", "other"}] /\ voice \in [Calls -> Voices]
    /\ installed \in [Calls -> Requests \cup {None}]
    /\ switch \in [Calls -> [step : {"none", "cleanup", "releasing"},
                             to : Configs, releaser : Requests \cup {None}]]
    /\ ending \in [Calls -> {"none", "pending", "released", "exhausted"}]
    /\ speech \in [Calls -> [step : {"idle", "checked", "speaking"},
                             prompt : Prompts \cup {None}]]

NoSwitch == [step |-> "none", to |-> None, releaser |-> None]
Silent == [step |-> "idle", prompt |-> None]
NoPrompt == [voice |-> None, state |-> "none"]

Init ==
    /\ resident \in {"qwen", "other", None}     \* as startup() left it
    /\ selected = NoPrompt /\ selKey = None
    /\ owners = {} /\ leaseOf = None
    /\ held = None /\ streaming = None
    /\ prepLock = None /\ switchLock = None
    /\ pc = [a \in Actors |-> "idle"]
    /\ want = [a \in Requests \cup Evictions |-> None]
    /\ asked = [r \in Requests |-> [call |-> None, epoch |-> 0]]
    /\ hand = [r \in Requests |-> "none"]
    /\ tries = [x \in Requests \cup Calls |-> 0]
    /\ phase = [c \in Calls |-> "stable"] /\ epoch = [c \in Calls |-> 0]
    /\ engine = [c \in Calls |-> "qwen"] /\ voice \in [Calls -> Voices]
    /\ installed = [c \in Calls |-> None]
    /\ switch = [c \in Calls |-> NoSwitch]
    /\ ending = [c \in Calls |-> "none"]
    /\ speech = [c \in Calls |-> Silent]

-----------------------------------------------------------------------------
(* The lease and the readiness answers of the manager.                      *)

\* is_tts_prompt_ready, asked with the reference of the voice.
Ready(p) ==
    /\ resident = "qwen" /\ selected = [voice |-> p[1], state |-> "ready"] /\ selKey = p

\* Mutant: only the voice key is compared with the lease.
CompetesByVoice(r) ==
    /\ owners # {} /\ leaseOf[1] # want[r][1]
    /\ ~ (asked[r].call # None /\ owners = {asked[r].call})

\* _reject_competing_qwen_prompt.
Competes(r) ==
    /\ owners # {} /\ leaseOf # want[r]
    /\ ~ (asked[r].call # None /\ owners = {asked[r].call})

\* _set_qwen_prompt_lease; a preview (no owner) takes none.
Grant(r) ==
    IF asked[r].call = None
    THEN UNCHANGED <<owners, leaseOf>>
    ELSE /\ owners' = (IF leaseOf # want[r] THEN {} ELSE owners) \cup {asked[r].call}
         /\ leaseOf' = want[r]

\* release_tts_prompt_lease, once it has the lock.
Release(c) ==
    /\ prepLock = None
    /\ owners' = owners \ {c}
    /\ leaseOf' = IF c \in owners /\ owners = {c} THEN None ELSE leaseOf
    /\ UNCHANGED <<resident, selected, selKey, adapter, locks>>

\* The answer of a prepare: the route starts the handoff before any await, a
\* preview goes on to synthesize.
Answer(r) ==
    /\ pc' = [pc EXCEPT ![r] = IF asked[r].call = None THEN "preview" ELSE "granted"]
    /\ hand' = [hand EXCEPT ![r] = IF asked[r].call = None THEN @ ELSE "pending"]

\* The adapter's test of a voice key against the prompt it holds.
HoldsVoice(p) == held # None /\ held[1] = p[1]

\* _contain_qwen_runtime_failure; the unload waits for the adapter's lock.
Contain ==
    /\ streaming = None
    /\ held' = None
    /\ resident' = IF resident = "qwen" THEN None ELSE resident

-----------------------------------------------------------------------------
(* prepare_session_speech and prepare_tts_engine.                           *)

\* The route reserves the accepted configuration; the payload names the
\* call's voice and brings its current reference.
Reserve(r) ==
    \E c \in Calls, p \in Wants[r] :
        /\ pc[r] = "idle"
        /\ phase[c] \notin {"terminal", "switching"}
        /\ engine[c] = "qwen" /\ voice[c] = p[1]
        /\ pc' = [pc EXCEPT ![r] = "waiting"]
        /\ want' = [want EXCEPT ![r] = p]
        /\ asked' = [asked EXCEPT ![r] = [call |-> c, epoch |-> epoch[c]]]
        /\ UNCHANGED <<manager, adapter, locks, hand, tries, session, speech>>

\* POST /tts/synthesize for Qwen3: the same preparation, without an owner.
AskPreview(r) ==
    \E p \in Wants[r] :
        /\ pc[r] = "idle"
        /\ pc' = [pc EXCEPT ![r] = "waiting"]
        /\ want' = [want EXCEPT ![r] = p]
        /\ UNCHANGED <<manager, adapter, locks, asked, hand, tries, session, speech>>

\* A preview or a call wants an engine other than Qwen3, which has no prompts.
AskSwitch(r) ==
    /\ pc[r] = "idle"
    /\ pc' = [pc EXCEPT ![r] = "lock"]
    /\ UNCHANGED <<manager, adapter, locks, want, asked, hand, tries, session, speech>>

\* With the lock: refuse a competitor, answer from memory, or start over.
RefuseCompetitor(r) ==
    /\ pc[r] = "waiting" /\ prepLock = None /\ Competes(r)
    /\ pc' = [pc EXCEPT ![r] = "done"]
    /\ UNCHANGED <<manager, adapter, locks, want, asked, hand, tries, session, speech>>

AnswerReady(r) ==
    /\ pc[r] = "waiting" /\ prepLock = None /\ ~ Competes(r) /\ Ready(want[r])
    /\ Grant(r) /\ Answer(r)
    /\ UNCHANGED <<resident, selected, selKey, adapter, locks, want, asked, tries, session,
                   speech>>

StartPreparation(r) ==
    /\ pc[r] = "waiting" /\ prepLock = None /\ ~ Competes(r) /\ ~ Ready(want[r])
    /\ prepLock' = r
    /\ selected' = [voice |-> want[r][1], state |-> "none"] /\ selKey' = None
    /\ pc' = [pc EXCEPT ![r] = "aligning"]
    /\ UNCHANGED <<resident, owners, leaseOf, adapter, switchLock, want, asked, hand, tries,
                   session, speech>>

\* The reference is transcribed and compared; then the engine is made resident.
AlignmentRefused(r) ==
    /\ pc[r] = "aligning"
    /\ selected' = [selected EXCEPT !.state = "failed"]
    /\ prepLock' = None
    /\ pc' = [pc EXCEPT ![r] = "done"]
    /\ UNCHANGED <<resident, selKey, owners, leaseOf, adapter, switchLock, want, asked, hand,
                   tries, session, speech>>

Aligned(r) ==
    /\ pc[r] = "aligning"
    /\ IF resident = "qwen"
       THEN /\ selected' = [selected EXCEPT !.state = "prewarming"]
            /\ pc' = [pc EXCEPT ![r] = "prewarming"]
       ELSE pc' = [pc EXCEPT ![r] = "lock"] /\ UNCHANGED selected
    /\ UNCHANGED <<resident, selKey, owners, leaseOf, adapter, locks, want, asked, hand,
                   tries, session, speech>>

\* The adapter's prewarm in its thread: it waits for the adapter's lock, drops
\* the prompt it had and reports ready, refused, or a dead worker.
Prewarm(r) ==
    /\ pc[r] = "prewarming" /\ streaming = None
    /\ \/ held' = want[r] /\ pc' = [pc EXCEPT ![r] = "warmed"]
       \/ held' = None /\ \E how \in {"refused", "died"} : pc' = [pc EXCEPT ![r] = how]
    /\ UNCHANGED <<manager, streaming, locks, want, asked, hand, tries, session, speech>>

\* The coroutine resumes: ready is written to whatever prompt is selected now.
Prepared(r) ==
    /\ pc[r] = "warmed"
    /\ selected' = [selected EXCEPT !.state = "ready"] /\ selKey' = want[r]
    /\ Grant(r) /\ Answer(r)
    /\ prepLock' = None
    /\ UNCHANGED <<resident, adapter, switchLock, want, asked, tries, session, speech>>

PrewarmFailed(r) ==
    /\ pc[r] \in {"refused", "died"}
    /\ selected' = [selected EXCEPT !.state = "failed"]
    /\ prepLock' = None
    /\ pc' = [pc EXCEPT ![r] = "done"]
    /\ IF pc[r] = "died" THEN Contain ELSE UNCHANGED <<resident, held>>
    /\ UNCHANGED <<selKey, owners, leaseOf, streaming, switchLock, want, asked, hand, tries,
                   session, speech>>

\* A preview streams with its voice key, whatever prompt the key has by then.
\* A dead worker is contained by the route, without the prepare lock.
PreviewStream(r) ==
    /\ pc[r] = "preview" /\ streaming = None
    /\ \/ /\ pc' = [pc EXCEPT ![r] = "done"]            \* played, or not ready
          /\ UNCHANGED held
       \/ /\ HoldsVoice(want[r])
          /\ held' = None
          /\ pc' = [pc EXCEPT ![r] = "contain"]
    /\ UNCHANGED <<manager, streaming, locks, want, asked, hand, tries, session, speech>>

PreviewContain(r) ==
    /\ pc[r] = "contain"
    /\ Contain
    /\ pc' = [pc EXCEPT ![r] = "done"]
    /\ UNCHANGED <<selected, selKey, owners, leaseOf, streaming, locks, want, asked, hand,
                   tries, session, speech>>

-----------------------------------------------------------------------------
(* switch_tts_engine, in a thread, under _switch_lock.                      *)

Target(r) == IF want[r] = None THEN "other" ELSE "qwen"

\* The switch is over: a preparation goes on in its coroutine, where a load
\* that failed ends it.
Switched(r, ok) ==
    IF Target(r) = "other"
    THEN pc' = [pc EXCEPT ![r] = "done"] /\ UNCHANGED <<selected, prepLock>>
    ELSE IF ok
    THEN /\ pc' = [pc EXCEPT ![r] = "prewarming"]
         /\ selected' = [selected EXCEPT !.state = "prewarming"]
         /\ UNCHANGED prepLock
    ELSE pc' = [pc EXCEPT ![r] = "done"] /\ prepLock' = None /\ UNCHANGED selected

\* Already resident; or Qwen3 is leased; or the engine is unavailable for good.
SwitchNothing(r) ==
    /\ pc[r] = "lock" /\ switchLock = None
    /\ \/ resident = Target(r) /\ Switched(r, TRUE)
       \/ Target(r) = "other" /\ Switched(r, FALSE)
    /\ UNCHANGED <<resident, selKey, owners, leaseOf, adapter, switchLock, want, asked, hand,
                   tries, session, speech>>

SwitchBegin(r) ==
    /\ pc[r] = "lock" /\ switchLock = None
    /\ resident # Target(r)
    /\ ~ (resident = "qwen" /\ owners # {})
    /\ switchLock' = r
    /\ pc' = [pc EXCEPT ![r] = IF resident = None THEN "loading" ELSE "unloading"]
    /\ UNCHANGED <<manager, adapter, prepLock, want, asked, hand, tries, session, speech>>

\* adapter.unload cancels the stream and waits for the adapter's lock.
SwitchUnload(r) ==
    /\ pc[r] = "unloading"
    /\ IF resident = "qwen" THEN streaming = None /\ held' = None ELSE UNCHANGED held
    /\ pc' = [pc EXCEPT ![r] = "unloaded"]
    /\ UNCHANGED <<manager, streaming, locks, want, asked, hand, tries, session, speech>>

SwitchForget(r) ==
    /\ pc[r] = "unloaded"
    /\ resident' = None
    /\ IF Target(r) = "other"
       THEN selected' = NoPrompt /\ selKey' = None
       ELSE UNCHANGED <<selected, selKey>>
    /\ pc' = [pc EXCEPT ![r] = "loading"]
    /\ UNCHANGED <<owners, leaseOf, adapter, locks, want, asked, hand, tries, session, speech>>

SwitchLoad(r) ==
    /\ pc[r] = "loading"
    /\ switchLock' = None
    /\ \/ resident' = Target(r) /\ Switched(r, TRUE)
       \/ resident' = None /\ Switched(r, FALSE)
    /\ UNCHANGED <<selKey, owners, leaseOf, adapter, want, asked, hand, tries, session, speech>>

-----------------------------------------------------------------------------
(* invalidate_tts_prompt: a voice is deleted.                               *)

AskEviction(e) ==
    \E p \in Wants[e] :
        /\ pc[e] = "idle" /\ prepLock = None
        /\ IF owners # {} /\ leaseOf[1] = p[1]
           THEN pc' = [pc EXCEPT ![e] = "done"] /\ UNCHANGED <<prepLock, want>>
           ELSE /\ prepLock' = e
                /\ want' = [want EXCEPT ![e] = p]
                /\ pc' = [pc EXCEPT ![e] = "evicting"]
        /\ UNCHANGED <<manager, adapter, switchLock, asked, hand, tries, session, speech>>

\* The adapter cancels the stream of that voice and drops the prompt; its
\* failure is contained.
Evict(e) ==
    /\ pc[e] = "evicting"
    /\ HoldsVoice(want[e]) => streaming = None
    /\ prepLock' = None
    /\ pc' = [pc EXCEPT ![e] = "done"]
    /\ \/ /\ held' = IF HoldsVoice(want[e]) THEN None ELSE held
          /\ IF selected.voice = want[e][1]
             THEN selected' = NoPrompt /\ selKey' = None
             ELSE UNCHANGED <<selected, selKey>>
          /\ UNCHANGED resident
       \/ /\ HoldsVoice(want[e])
          /\ Contain
          /\ UNCHANGED <<selected, selKey>>
    /\ UNCHANGED <<owners, leaseOf, streaming, switchLock, want, asked, hand, tries, session,
                   speech>>
-----------------------------------------------------------------------------
(* CallSession: the handoff of the lease.                                   *)

\* _validate_accepted_speech_configuration_locked.
StillAccepted(r) ==
    LET c == asked[r].call
    IN  /\ phase[c] = "stable" /\ asked[r].epoch = epoch[c]
        /\ engine[c] = "qwen" /\ voice[c] = want[r][1]

\* The switch keeps the lifecycle lock while it waits for the release.
LifecycleFree(c) == switch[c].step # "releasing"

\* _run_prompt_lease_handoff: install the releaser, or own its release.
Install(r) ==
    LET c == asked[r].call
    IN  /\ hand[r] = "pending" /\ LifecycleFree(c) /\ StillAccepted(r)
        /\ installed' = [installed EXCEPT ![c] = r]
        /\ hand' = [hand EXCEPT ![r] = "installed"]
        /\ pc' = [pc EXCEPT ![r] = "done"]
        /\ UNCHANGED <<manager, adapter, locks, want, asked, tries, phase, epoch, engine, voice,
                       switch, ending, speech>>

\* Mutant: a stale preparation is dropped without its lease.
DisownForgets(r) ==
    /\ hand[r] = "pending" /\ LifecycleFree(asked[r].call) /\ ~ StillAccepted(r)
    /\ hand' = [hand EXCEPT ![r] = "released"]
    /\ pc' = [pc EXCEPT ![r] = "done"]
    /\ UNCHANGED <<manager, adapter, locks, want, asked, tries, session, speech>>

\* Mutant: the handoff of an ended call is left alone.
DisownLive(r) ==
    /\ hand[r] = "pending" /\ LifecycleFree(asked[r].call) /\ ~ StillAccepted(r)
    /\ phase[asked[r].call] # "terminal"
    /\ hand' = [hand EXCEPT ![r] = "releasing"]
    /\ UNCHANGED <<manager, adapter, locks, pc, want, asked, tries, session, speech>>

Disown(r) ==
    /\ hand[r] = "pending" /\ LifecycleFree(asked[r].call) /\ ~ StillAccepted(r)
    /\ hand' = [hand EXCEPT ![r] = "releasing"]
    /\ UNCHANGED <<manager, adapter, locks, pc, want, asked, tries, session, speech>>

\* _run_owned_prompt_lease_cleanup: the release by session id, each attempt
\* bounded; one that cannot get the prepare lock in time is retried.
CleanupRelease(r) ==
    /\ hand[r] = "releasing"
    /\ Release(asked[r].call)
    /\ hand' = [hand EXCEPT ![r] = "released"]
    /\ pc' = [pc EXCEPT ![r] = "done"]
    /\ UNCHANGED <<want, asked, tries, session, speech>>

CleanupTimeout(r) ==
    /\ hand[r] = "releasing" /\ prepLock # None
    /\ tries' = [tries EXCEPT ![r] = @ + 1]
    /\ IF tries[r] + 1 = ReleaseLimit
       THEN hand' = [hand EXCEPT ![r] = "exhausted"] /\ pc' = [pc EXCEPT ![r] = "done"]
       ELSE UNCHANGED <<hand, pc>>
    /\ UNCHANGED <<manager, adapter, locks, want, asked, session, speech>>

-----------------------------------------------------------------------------
(* CallSession: reconnect, switch and end, as far as the lease sees them.   *)

LoseTransport(c) ==
    /\ c \in Movers /\ phase[c] = "stable" /\ epoch[c] < MaxLosses
    /\ phase' = [phase EXCEPT ![c] = "reconnecting"]
    /\ epoch' = [epoch EXCEPT ![c] = @ + 1]
    /\ UNCHANGED <<manager, adapter, locks, requests, tries, engine, voice, installed, switch,
                   ending, speech>>

\* A candidate with the same selection is promoted, or the peer recovers.
Reconnect(c) ==
    /\ phase[c] = "reconnecting"
    /\ phase' = [phase EXCEPT ![c] = "stable"]
    /\ UNCHANGED <<manager, adapter, locks, requests, tries, epoch, engine, voice, installed,
                   switch, ending, speech>>

\* A candidate with another voice or engine is promoted.  Only a call that
\* leaves Qwen3 gives its lease back.
BeginSwitch(c) ==
    \E to \in Configs :
        /\ c \in Movers /\ to # voice[c]
        /\ phase[c] \in {"stable", "reconnecting"} /\ engine[c] = "qwen"
        /\ phase' = [phase EXCEPT ![c] = "switching"]
        /\ switch' = [switch EXCEPT ![c] =
               [step |-> "cleanup", to |-> to,
                releaser |-> IF to = None THEN installed[c] ELSE None]]
        /\ UNCHANGED <<manager, adapter, locks, requests, tries, epoch, engine, voice, installed,
                       ending, speech>>

Commit(c) ==
    /\ phase' = [phase EXCEPT ![c] = "stable"]
    /\ engine' = [engine EXCEPT ![c] = IF switch[c].to = None THEN "other" ELSE "qwen"]
    /\ voice' = [voice EXCEPT ![c] = IF switch[c].to = None THEN @ ELSE switch[c].to]
    /\ switch' = [switch EXCEPT ![c] = NoSwitch]
    /\ UNCHANGED <<epoch, ending>>

\* _transition_terminal_locked: the terminal cleanup takes the releaser over.
End(c) ==
    /\ phase' = [phase EXCEPT ![c] = "terminal"]
    /\ epoch' = [epoch EXCEPT ![c] = @ + 1]
    /\ ending' = [ending EXCEPT ![c] = IF installed[c] # None THEN "pending" ELSE "released"]
    /\ installed' = [installed EXCEPT ![c] = None]
    /\ switch' = [switch EXCEPT ![c] = NoSwitch]
    /\ UNCHANGED <<engine, voice>>

\* _finish_peer_switch after its cleanup: an error of the cleanup ends the
\* call, otherwise the captured releaser is run under the lifecycle lock.
FinishSwitch(c) ==
    /\ switch[c].step = "cleanup"
    /\ \/ End(c)
       \/ switch[c].releaser = None /\ Commit(c) /\ UNCHANGED installed
       \/ /\ switch[c].releaser # None
          /\ switch' = [switch EXCEPT ![c].step = "releasing"]
          /\ UNCHANGED <<phase, epoch, engine, voice, installed, ending>>
    /\ UNCHANGED <<manager, adapter, locks, requests, tries, speech>>

SwitchRelease(c) ==
    /\ switch[c].step = "releasing"
    /\ Release(c)
    /\ Commit(c)
    /\ installed' = [installed EXCEPT ![c] = IF @ = switch[c].releaser THEN None ELSE @]
    /\ UNCHANGED <<requests, tries, speech>>

SwitchReleaseTimeout(c) ==
    /\ switch[c].step = "releasing" /\ prepLock # None
    /\ End(c)
    /\ UNCHANGED <<manager, adapter, locks, requests, tries, speech>>

EndCall(c) ==
    /\ phase[c] # "terminal" /\ LifecycleFree(c)
    /\ End(c)
    /\ UNCHANGED <<manager, adapter, locks, requests, tries, speech>>

\* The prompt_lease step of _run_terminal_cleanup and its retries.
EndRelease(c) ==
    /\ ending[c] = "pending"
    /\ Release(c)
    /\ ending' = [ending EXCEPT ![c] = "released"]
    /\ UNCHANGED <<requests, tries, phase, epoch, engine, voice, installed, switch, speech>>

EndTimeout(c) ==
    /\ ending[c] = "pending" /\ prepLock # None
    /\ tries' = [tries EXCEPT ![c] = @ + 1]
    /\ ending' = [ending EXCEPT ![c] = IF tries[c] + 1 = TerminalLimit THEN "exhausted" ELSE @]
    /\ UNCHANGED <<manager, adapter, locks, requests, phase, epoch, engine, voice, installed,
                   switch, speech>>

-----------------------------------------------------------------------------
(* Speech of a call: asked when ready, generated later in a thread.         *)

\* speak_session: reserve, and _tts_adapter asks is_tts_prompt_ready.
AskSpeech(c) ==
    \E p \in Prompts :
        /\ speech[c].step = "idle"
        /\ phase[c] \notin {"terminal", "switching"} /\ engine[c] = "qwen" /\ voice[c] = p[1]
        /\ Ready(p)
        /\ speech' = [speech EXCEPT ![c] = [step |-> "checked", prompt |-> p]]
        /\ UNCHANGED <<manager, adapter, locks, requests, tries, session>>

\* The adapter's stream compares voice keys only, then uses the prompt it holds.
Generate(c) ==
    /\ speech[c].step = "checked" /\ streaming = None /\ phase[c] = "stable"
    /\ HoldsVoice(speech[c].prompt)
    /\ streaming' = c
    /\ speech' = [speech EXCEPT ![c].step = "speaking"]
    /\ UNCHANGED <<manager, held, locks, requests, tries, session>>

\* Not admitted any more, or the adapter has no prompt of that voice.
SpeechRefused(c) ==
    /\ speech[c].step = "checked"
    /\ phase[c] # "stable" \/ ~ HoldsVoice(speech[c].prompt)
    /\ speech' = [speech EXCEPT ![c] = Silent]
    /\ UNCHANGED <<manager, adapter, locks, requests, tries, session>>

\* The stream ends, or its worker died: the adapter stops it and forgets the
\* prompt; nobody tells the manager.
SpeechEnds(c) ==
    /\ speech[c].step = "speaking"
    /\ streaming' = None
    /\ held' \in {held, None}
    /\ speech' = [speech EXCEPT ![c] = Silent]
    /\ UNCHANGED <<manager, locks, requests, tries, session>>

-----------------------------------------------------------------------------
Next ==
    \/ \E r \in Requests :
          \/ Reserve(r) \/ AskPreview(r) \/ RefuseCompetitor(r) \/ AnswerReady(r)
          \/ StartPreparation(r) \/ AlignmentRefused(r) \/ Aligned(r) \/ Prewarm(r)
          \/ Prepared(r) \/ PrewarmFailed(r) \/ PreviewStream(r) \/ PreviewContain(r)
          \/ Install(r) \/ Disown(r) \/ CleanupRelease(r) \/ CleanupTimeout(r)
          \/ AskSwitch(r) \/ SwitchNothing(r) \/ SwitchBegin(r) \/ SwitchUnload(r)
          \/ SwitchForget(r) \/ SwitchLoad(r)
    \/ \E e \in Evictions : AskEviction(e) \/ Evict(e)
    \/ \E c \in Calls :
          \/ LoseTransport(c) \/ Reconnect(c) \/ BeginSwitch(c) \/ FinishSwitch(c)
          \/ SwitchRelease(c) \/ SwitchReleaseTimeout(c) \/ EndCall(c) \/ EndRelease(c)
          \/ EndTimeout(c) \/ AskSpeech(c) \/ Generate(c) \/ SpeechRefused(c) \/ SpeechEnds(c)

Spec == Init /\ [][Next]_vars

\* What a request, once made, has to do next; likewise a call whose switch or end
\* is under way.
RequestStep(r) ==
    \/ RefuseCompetitor(r) \/ AnswerReady(r) \/ StartPreparation(r) \/ AlignmentRefused(r)
    \/ Aligned(r) \/ SwitchNothing(r) \/ SwitchBegin(r) \/ SwitchUnload(r) \/ SwitchForget(r)
    \/ SwitchLoad(r) \/ Prewarm(r) \/ Prepared(r) \/ PrewarmFailed(r) \/ PreviewStream(r)
    \/ PreviewContain(r) \/ Install(r) \/ Disown(r) \/ CleanupRelease(r)
CallStep(c) == FinishSwitch(c) \/ SwitchRelease(c) \/ EndRelease(c)

\* Threads and coroutines run.  Strong fairness where a lock is waited for:
\* asyncio.Lock serves its waiters in order, a thread lock is held briefly, a
\* stream ends.  No request has to be made, no call has to end or reconnect.
Fairness ==
    /\ \A r \in Requests : SF_vars(RequestStep(r))
    /\ \A e \in Evictions : SF_vars(Evict(e))
    /\ \A c \in Calls : SF_vars(CallStep(c)) /\ WF_vars(SpeechEnds(c))

FairSpec == Spec /\ Fairness

-----------------------------------------------------------------------------
(* Properties.                                                              *)

\* A call whose voice the manager reports ready is never spoken to with another
\* prompt: the adapter holds exactly that prompt or none at all (its worker may
\* have died in a stream, which nobody tells the manager).  prepare_tts_engine
\* forgets the selected prompt before it lets go of the old one.
ReadyIsHeldOrLost == \A p \in Prompts : Ready(p) => held \in {p, None}

\* What is generated for a call that still has the lease on the prompt it asked
\* for is generated with that prompt, although the adapter only compares voice
\* keys when the thread finally starts; the call itself must not be preparing
\* another reference of the same voice.
LeasedSpeechIsOwn ==
    [][\A c \in Calls :
          /\ streaming' = c /\ streaming # c
          /\ c \in owners /\ leaseOf = speech[c].prompt
          /\ \A r \in Requests : asked[r].call = c /\ want[r] # leaseOf => pc[r] # "warmed"
          => held = speech[c].prompt]_vars

\* No lease is orphaned: each owner is a live call with a releaser installed,
\* or a handoff, a switch or the end of the call still has its release to do,
\* or one of them gave up after its last attempt.
NoLeaseIsOrphaned ==
    \A c \in owners :
        \/ installed[c] # None
        \/ ending[c] \in {"pending", "exhausted"}
        \/ \E r \in Requests :
              asked[r].call = c /\ hand[r] \in {"pending", "releasing", "exhausted"}

\* The lease of an ended call is given back, unless a release ran out of
\* attempts: the switch, the handoffs and the end of a call all retry.
LeaseComesBack ==
    \A c \in Calls :
        phase[c] = "terminal"
        ~> \/ c \notin owners
           \/ ending[c] = "exhausted"
           \/ \E r \in Requests : asked[r].call = c /\ hand[r] = "exhausted"

\* Every preparation is answered: the three locks and the release under the
\* lifecycle lock leave nobody waiting for good.
PrepareAnswers == \A r \in Requests : pc[r] = "waiting" ~> pc[r] = "done"

\* A call speaks with its own prompt: what is reported ready is what the adapter holds, and
\* under a lease nothing else is spoken with.
PromptIsOwn == [](TypeOK /\ ReadyIsHeldOrLost) /\ LeasedSpeechIsOwn

\* Whoever prepares a voice is answered and whoever leased one gives it back.
LeasesSettle == LeaseComesBack /\ PrepareAnswers
=============================================================================
