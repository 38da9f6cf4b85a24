----------------------------- MODULE EventOutbox -----------------------------
(***************************************************************************)
(* The event outbox of a CallSession (session.py), its terminal entry, and  *)
(* the CallSessionManager that keeps an ended session for a while so that   *)
(* the browser can fetch what it missed.                                    *)
(*                                                                          *)
(* Events are committed in one order, some under the lifecycle lock; one    *)
(* task delivers them from the front over the data channel.  The end of a   *)
(* call commits an entry whose event is known only after the cleanup: the   *)
(* delivery waits there.  The app installs no event_sink.                   *)
(*                                                                          *)
(* The guard against late speech reads session.state, which the speech      *)
(* tasks write without the lock, over "ended" too: it is a variable of its  *)
(* own here, apart from what the call really is.                            *)
(***************************************************************************)
EXTENDS Naturals, Sequences, FiniteSets, SequencesExt

CONSTANTS Emitted,        \* events of requests and tasks, each emitted once
          Kind,           \* [Emitted -> Kinds]
          Ended, Failed,  \* the two terminal events
          MaxChannel,     \* changes of the data channel in one behaviour
          MaxFaults,      \* sends that raise in one behaviour
          None

\* "control" (muted, interrupted) and "user" (user_final) events are committed under the
\* lock by a live session; "speech" (ai_audio_started, ai_done) and "failure" (failed of
\* a turn) events whenever their task gets there.
Kinds == {"control", "user", "speech", "failure"}
ASSUME KindAssumption == Kind \in [Emitted -> Kinds]
ASSUME TerminalAssumption == /\ Ended \notin Emitted /\ Failed \notin Emitted /\ Ended # Failed
                             /\ None \notin Emitted \cup {Ended, Failed}
ASSUME BoundsAssumption == MaxChannel \in Nat /\ MaxFaults \in Nat

Terminal == {Ended, Failed}
Events == Emitted \cup Terminal
\* CALL_RECOVERABLE_EVENT_TYPES
Recoverable == {e \in Emitted : Kind[e] \in {"user", "failure"}} \cup {Failed}

VARIABLES
    outbox,       \* _event_outbox: [event, ready]
    worker,       \* _event_delivery_task is alive
    emitter,      \* place of whoever awaits the event
    turn,         \* the speech turn: held by the session's records, loose, cancelled
    state,        \* what session.state says: conversing or terminal
    call,         \* live, ending (cleanup runs), over (outcome published)
    outcome,      \* terminal event of the call
    channel,      \* data_channel
    undelivered,  \* _undelivered_events
    inbox,        \* what the browser got over the channel
    handed,       \* what drain returned
    settled,      \* entries in the order they were done
    registry,     \* the manager's view: live, retained (deadline armed), gone
    ender,        \* the end request
    changes, faults

vars == <<outbox, worker, emitter, turn, state, call, outcome, channel, undelivered, inbox, handed,
          settled, registry, ender, changes, faults>>
session == <<turn, state, call, outcome>>
browser == <<channel, changes>>
manager == <<registry, ender>>
store == <<undelivered, inbox, handed, settled, faults>>

TypeOK ==
    /\ outbox \in Seq([event : Events, ready : BOOLEAN]) /\ worker \in BOOLEAN
    /\ emitter \in [Events -> {"idle", "waiting", "returned"}]
    /\ turn \in {"held", "loose", "cancelled"} /\ state \in {"conversing", "terminal"}
    /\ call \in {"live", "ending", "over"}
    /\ outcome \in Terminal \cup {None}
    /\ channel \in {"none", "open", "closed"}
    /\ undelivered \in Seq(Events) /\ inbox \in Seq(Events) /\ handed \in Seq(Events)
    /\ settled \in Seq(Events)
    /\ registry \in {"live", "retained", "gone"} /\ ender \in {"idle", "waiting", "done"}
    /\ changes \in 0 .. MaxChannel /\ faults \in 0 .. MaxFaults
    /\ outbox # <<>> => worker

\* create_session
Init ==
    /\ outbox = <<>> /\ worker = FALSE /\ emitter = [e \in Events |-> "idle"]
    /\ turn = "held" /\ state = "conversing" /\ call = "live" /\ outcome = None /\ channel = "none"
    /\ undelivered = <<>> /\ inbox = <<>> /\ handed = <<>> /\ settled = <<>>
    /\ registry = "live" /\ ender = "idle" /\ changes = 0 /\ faults = 0
-----------------------------------------------------------------------------
\* _commit_event, and the wait for the entry
Commit(e, ready) ==
    /\ outbox' = Append(outbox, [event |-> e, ready |-> ready])
    /\ worker' = TRUE
    /\ emitter' = [emitter EXCEPT ![e] = "waiting"]

\* set_muted, interrupt, _commit_stt_event: under the lock, on a live session
EmitLocked(e) ==
    /\ Kind[e] \in {"control", "user"} /\ emitter[e] = "idle" /\ call = "live"
    /\ Commit(e, TRUE)
    /\ UNCHANGED <<session, browser, manager, store>>

\* emit_event of a speech task, which has just written the state of the conversation
\* without a look at the end; a failure of another kind leaves it alone.
EmitSpeech(e) ==
    /\ Kind[e] \in {"speech", "failure"} /\ emitter[e] = "idle"
    /\ Commit(e, TRUE)
    /\ state' = "conversing" \/ (Kind[e] = "failure" /\ UNCHANGED state)
    /\ UNCHANGED <<turn, call, outcome, browser, manager, store>>

\* The admission or the pending terminal of the turn is cleared: no cancellation will
\* find the turn, though its last event may still come.  Or a cancelled turn returns.
SpeechReturns ==
    /\ turn' = IF turn = "held" THEN "loose" ELSE turn
    /\ state' = "conversing" /\ <<turn', state'>> # <<turn, state>>
    /\ UNCHANGED <<outbox, worker, emitter, call, outcome, browser, manager, store>>

\* cancel_ai_turn, of a request or of the cleanup, marks the turn that the records hold
\* before it does anything else.
CancelTurn ==
    /\ turn = "held" /\ turn' = "cancelled"
    /\ UNCHANGED <<outbox, worker, emitter, state, call, outcome, browser, manager, store>>

\* _transition_terminal_locked reserves the place of the terminal event
EnterTerminal(t) ==
    /\ call = "live" /\ call' = "ending" /\ outcome' = t /\ state' = "terminal"
    /\ Commit(t, FALSE) /\ UNCHANGED turn

\* The call is lost: resolve_deferred_connection_state, or a failed switch
CallLost(t) ==
    /\ EnterTerminal(t)
    /\ UNCHANGED <<browser, manager, store>>

\* end_session of the manager: ends the session or joins its end
EndRequest ==
    /\ ender = "idle" /\ registry = "live" /\ ender' = "waiting"
    /\ \/ EnterTerminal(Ended)
       \/ call # "live" /\ UNCHANGED <<outbox, worker, emitter, session>>
    /\ UNCHANGED <<browser, registry, store>>

\* fault: the terminal event is left out of the entry that waits for it
PublishAside ==
    /\ call = "ending" /\ turn # "held" /\ call' = "over"
    /\ UNCHANGED <<outbox, worker, emitter, turn, state, outcome, browser, manager, store>>

\* _publish_terminal_outcome, _resolve_event_commit: the cleanup is over, it cancelled
\* the turn first of all
Publish ==
    /\ call = "ending" /\ turn # "held" /\ call' = "over"
    /\ outbox' = [i \in DOMAIN outbox |->
                    [outbox[i] EXCEPT !.ready = @ \/ outbox[i].event = outcome]]
    /\ UNCHANGED <<worker, emitter, turn, state, outcome, browser, manager, store>>

\* The end request returns once the terminal event is done; the retention starts.
EndReturns ==
    /\ ender = "waiting" /\ emitter[outcome] = "returned"
    /\ ender' = "done" /\ registry' = "retained"
    /\ UNCHANGED <<outbox, worker, emitter, session, browser, store>>

\* _expire_retained_sessions, on a call of the manager after the deadline
Expire ==
    /\ registry = "retained" /\ registry' = "gone"
    /\ UNCHANGED <<outbox, worker, emitter, session, browser, ender, store>>

\* remove_session: the first offer failed, before anything was emitted; end() follows
RemoveSession ==
    /\ registry = "live" /\ ender = "idle" /\ channel = "none"
    /\ settled = <<>> /\ outbox = <<>>
    /\ registry' = "gone"
    /\ UNCHANGED <<outbox, worker, emitter, session, browser, ender, store>>

\* fault: only the state is asked, not the turns that were cancelled
DiscardedByState(e) == e \in Emitted /\ Kind[e] = "speech" /\ state = "terminal"

\* The guard of _deliver_event against late speech
Discarded(e) ==
    /\ e \in Emitted /\ Kind[e] = "speech"
    /\ turn = "cancelled" \/ state = "terminal"

\* fault: an event the channel refuses counts as delivered
KeepNothing(e) == UNCHANGED undelivered

\* What is kept of an event that was not sent
Keep(e) == undelivered' = IF e \in Recoverable THEN Append(undelivered, e) ELSE undelivered

\* _deliver_event_outbox and _deliver_event, for the entry at the front
Deliver ==
    /\ worker /\ outbox # <<>> /\ Head(outbox).ready
    /\ LET e == Head(outbox).event IN
         /\ \/ Discarded(e) /\ UNCHANGED <<inbox, undelivered, faults>>
            \/ /\ ~Discarded(e) /\ channel = "open"
               /\ inbox' = Append(inbox, e) /\ UNCHANGED <<undelivered, faults>>
            \/ /\ ~Discarded(e) /\ channel = "open" /\ faults < MaxFaults
               /\ faults' = faults + 1 /\ Keep(e) /\ UNCHANGED inbox
            \/ /\ ~Discarded(e) /\ channel # "open"
               /\ Keep(e) /\ UNCHANGED <<inbox, faults>>
         /\ emitter' = [emitter EXCEPT ![e] = "returned"]
         /\ settled' = Append(settled, e)
    /\ outbox' = Tail(outbox)
    /\ UNCHANGED <<worker, session, browser, manager, handed>>

\* The end of the delivery task
WorkerEnds ==
    /\ worker /\ outbox = <<>> /\ worker' = FALSE
    /\ UNCHANGED <<outbox, emitter, session, browser, manager, store>>

\* drain_session_events
Drain ==
    /\ registry # "gone" /\ undelivered # <<>>
    /\ handed' = handed \o undelivered /\ undelivered' = <<>>
    /\ UNCHANGED <<outbox, worker, emitter, session, browser, manager, inbox, settled, faults>>

\* on_datachannel of the session's peer: the first channel, or one that replaces a closed one
ChannelOpens == channel # "open" /\ channel' = "open"

\* The channel closes; the session keeps it.
ChannelCloses == channel = "open" /\ channel' = "closed"

ChannelChanges ==
    /\ changes < MaxChannel /\ changes' = changes + 1
    /\ ChannelOpens \/ ChannelCloses
    /\ UNCHANGED <<outbox, worker, emitter, session, manager, store>>

Delivery == Deliver \/ WorkerEnds
Next ==
    \/ \E e \in Emitted : EmitLocked(e) \/ EmitSpeech(e)
    \/ SpeechReturns \/ CancelTurn \/ (\E t \in Terminal : CallLost(t)) \/ Publish
    \/ EndRequest \/ EndReturns \/ Expire \/ RemoveSession
    \/ Delivery \/ Drain \/ ChannelChanges
Spec == Init /\ [][Next]_vars

\* The event loop runs the delivery, the terminal transaction (whose steps have
\* timeouts) and the waiting request.
EndGoesOn == Publish \/ (call = "ending" /\ CancelTurn)
FairSpec == /\ Spec /\ WF_<<outbox, worker>>(Delivery)
            /\ WF_<<call, turn>>(EndGoesOn) /\ WF_ender(EndReturns)
-----------------------------------------------------------------------------
(* Properties *)

\* The order of the commits: what is done, followed by what waits.
Waiting == [i \in DOMAIN outbox |-> outbox[i].event]
CommitOrder == settled \o Waiting

\* What became of each event
Fate ==
    [e \in Events |->
       CASE e \in ToSet(inbox) -> "sent"
         [] e \in ToSet(handed) -> "handed"
         [] e \in ToSet(undelivered) -> IF registry = "gone" THEN "dropped" ELSE "kept"
         [] e \in ToSet(settled) \ ToSet(inbox \o handed \o undelivered) -> "dropped"
         [] OTHER -> "none"]

Log == INSTANCE EventLog WITH
    log <- CommitOrder, settled <- Len(settled), open <- registry # "gone", fate <- Fate

\* The outbox implements the event log: commit order, one settlement per event, and no
\* recoverable event dropped as long as the session can be asked for it.
ImplementsLog == Log!Spec

\* Once the browser was told that the call is over it is told of no user turn and no control
\* of that call any more (the lock orders them against the terminal entry), and of no
\* speech but that of a turn which nothing cancelled: its records were cleared before the
\* cleanup of the end looked at them.  _deliver_event lets it through, for its task wrote
\* "listening" over "ended".
EndIsLast ==
    \A i, j \in DOMAIN inbox :
        i < j /\ inbox[i] \in Terminal =>
            /\ inbox[j] \in Emitted
            /\ Kind[inbox[j]] = "failure" \/ (Kind[inbox[j]] = "speech" /\ turn = "loose")

\* Whoever awaits an event returns, the end request too: the delivery never stays at the
\* reserved entry and never stops with entries left.
EmittersReturn ==
    []<>((\A e \in Events : emitter[e] # "waiting") /\ ender # "waiting")
=============================================================================
