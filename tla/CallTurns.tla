------------------------------ MODULE CallTurns ------------------------------
(***************************************************************************)
(* The turn lifecycle of one live call in the web server:                  *)
(* app/domain/call_service.py (CallService, ActiveCall) driven by the      *)
(* POST /turns, /interrupt and /end handlers of app/api/calls.py, over the *)
(* call_turns and messages tables.                                         *)
(*                                                                         *)
(* A request is one POST /turns stream; its asyncio task and the owner     *)
(* token it draws are both identified with it.  Code that runs under       *)
(* call.lifecycle_lock is one step: no other section of that lock can      *)
(* interleave with it, and what is read or written outside the lock (the   *)
(* duplicate's status read, the staged transaction, the hangup's waits) is *)
(* a step of its own.                                                      *)
(***************************************************************************)
EXTENDS Naturals, Sequences, FiniteSets

CONSTANTS
    Turns,        \* turn identifiers a browser may submit
    Requests,     \* POST /turns streams
    Texts,        \* user utterances (compared through their sha256)
    Enders,       \* POST /end requests
    Interrupters, \* POST /interrupt requests
    None          \* Python's None

ASSUME ControlAssumption == Enders \cap Interrupters = {}

OpenStates == {"reserved", "running"}
TerminalStates == {"completed", "failed", "cancelled"}
TurnStates == OpenStates \cup TerminalStates

(***************************************************************************)
(* Where a stream stands.  Working: it owns the turn and is between two    *)
(* of events()'s service calls; Polling: it rejoined another's turn.       *)
(***************************************************************************)
Working == {"reserved", "generating", "played", "pending", "staged"}
Cleanup == {"finally", "unregister"}
Polling == {"polling", "statusRead"}
RequestPc == {"idle", "done"} \cup Working \cup Cleanup \cup Polling

VARIABLES
    \* the call_turns row of each turn, and the thread's messages
    row, messages,
    \* ActiveCall: the process's in-memory view of the call
    serving, ended, turnStates, turnOwners, activeTasks,
    pendingAi, completedAi, endRecorded,
    \* each stream: where it is, its turn, text, session's identity map,
    \* chosen terminal state, and what its client was told
    pc, turnOf, textOf, seen, verdict, told,
    \* tasks asked to cancel; tasks that ended with cleanup still to run
    \* elsewhere; shielded reservation recoveries still to run
    cancelling, zombies, recoveries,
    \* the stream that holds persistence_lock with a transaction staged
    writer,
    \* hangup and interrupt requests, with the tasks each one gathers
    ctl, gathering

durable == <<row, messages>>
memory == <<serving, ended, turnStates, turnOwners, activeTasks, pendingAi,
            completedAi, endRecorded>>
streams == <<pc, turnOf, textOf, seen, verdict, told>>
tasks == <<cancelling, zombies, recoveries>>
controls == <<ctl, gathering>>
vars == <<durable, memory, streams, tasks, writer, controls>>

Controllers == Enders \cup Interrupters
ControlPc == {"idle", "gather", "backend", "gatherAgain", "commit", "done"}
Leases == {"none", "live", "expired"}

AbsentRow == [state |-> "absent", owner |-> None, lease |-> "none",
              text |-> None, user |-> 0, assistant |-> 0]
Rows == [state : TurnStates \cup {"absent"}, owner : Requests \cup {None},
         lease : Leases, text : Texts \cup {None}, user : Nat, assistant : Nat]
Views == [state : TurnStates \cup {"absent"}, owner : Requests \cup {None}]
ASSUME NoneAssumption == None \notin Requests \cup Turns \cup Texts \cup Views

Message(kind, t) == [kind |-> kind, turn |-> t]
Messages == [kind : {"call_start", "user_speech", "ai_speech", "call_end"},
             turn : Turns \cup {None}]

TypeOK ==
    /\ row \in [Turns -> Rows]
    /\ messages \in Seq(Messages)
    /\ serving \in BOOLEAN /\ ended \in BOOLEAN /\ endRecorded \in BOOLEAN
    /\ turnStates \in [Turns -> TurnStates \cup {None}]
    /\ turnOwners \in [Turns -> Requests \cup {None}]
    /\ activeTasks \subseteq Requests
    /\ pendingAi \subseteq Turns /\ completedAi \subseteq Turns
    /\ pc \in [Requests -> RequestPc]
    /\ turnOf \in [Requests -> Turns \cup {None}]
    /\ textOf \in [Requests -> Texts \cup {None}]
    /\ seen \in [Requests -> Views \cup {None}]
    /\ verdict \in [Requests -> TerminalStates]
    /\ told \in [Requests -> {"nothing", "ai_done", "recoverable", "conflict", "error"}]
    /\ cancelling \subseteq Requests /\ zombies \subseteq Requests
    /\ recoveries \subseteq Requests
    /\ writer \in Requests \cup {None}
    /\ ctl \in [Controllers -> ControlPc]
    /\ gathering \in [Controllers -> SUBSET Requests]

\* start_call has registered the call and appended its first message.
Init ==
    /\ row = [t \in Turns |-> AbsentRow]
    /\ messages = <<Message("call_start", None)>>
    /\ serving = TRUE /\ ended = FALSE /\ endRecorded = FALSE
    /\ turnStates = [t \in Turns |-> None]
    /\ turnOwners = [t \in Turns |-> None]
    /\ activeTasks = {} /\ pendingAi = {} /\ completedAi = {}
    /\ pc = [r \in Requests |-> "idle"]
    /\ turnOf = [r \in Requests |-> None]
    /\ textOf = [r \in Requests |-> None]
    /\ seen = [r \in Requests |-> None]
    /\ verdict = [r \in Requests |-> "failed"]
    /\ told = [r \in Requests |-> "nothing"]
    /\ cancelling = {} /\ zombies = {} /\ recoveries = {}
    /\ writer = None
    /\ ctl = [c \in Controllers |-> "idle"]
    /\ gathering = [c \in Controllers |-> {}]
-----------------------------------------------------------------------------
(* Helpers of the service *)

TaskDone(r) == pc[r] = "done" \/ r \in zombies

View(t) == [state |-> row[t].state, owner |-> row[t].owner]

\* A select returns the object the session already holds, with the values it
\* holds (expire_on_commit is off); only a rollback makes it read again.
Loaded(r) == IF seen[r] = None THEN View(turnOf[r]) ELSE seen[r]

Closed(t, state) ==
    [row[t] EXCEPT !.state = state, !.owner = None, !.lease = "none"]

\* fault: liveness judged by the lease alone
OwnerIsLiveByLease(t, view) == row[t].lease = "live"

\* _turn_owner_is_live
OwnerIsLive(t, view) ==
    /\ view.owner # None
    /\ turnOwners[t] = view.owner
    /\ ~TaskDone(view.owner)

OwnerKnownDead(t, view) == view.owner # None /\ turnOwners[t] = view.owner

\* The early returns of _terminalize_stale_turn_if_needed
LooksStale(t, view) ==
    /\ view.state \in OpenStates
    /\ ~OwnerIsLive(t, view)
    /\ OwnerKnownDead(t, view) \/ row[t].lease # "live"

\* fault: the update trusts the state that was read before
StaleUpdateBlind(t, view) == OwnerKnownDead(t, view) \/ row[t].lease # "live"

\* ... and the WHERE clause of its update
StaleUpdateMatches(t, view) ==
    /\ row[t].state \in OpenStates
    /\ row[t].owner = view.owner
    /\ OwnerKnownDead(t, view) \/ row[t].lease # "live"

\* _terminalize_stale_turn_if_needed, then turn_states[t] = turn.state.
\* result is the state the caller goes on with.
TerminalizeStale(t, view, result) ==
    IF LooksStale(t, view) /\ StaleUpdateMatches(t, view)
    THEN /\ writer = None
         /\ row' = [row EXCEPT ![t] = Closed(t, "failed")]
         /\ turnOwners' = [turnOwners EXCEPT ![t] = None]
         /\ turnStates' = [turnStates EXCEPT ![t] = result]
         /\ result = "failed"
    ELSE /\ result = IF LooksStale(t, view) THEN row[t].state ELSE view.state
         /\ turnStates' = [turnStates EXCEPT ![t] = result]
         /\ UNCHANGED <<row, turnOwners>>
-----------------------------------------------------------------------------
(* reserve_call_turn *)

CanReserve(r) == pc[r] = "idle" /\ serving

Submit(r, t, x) ==
    /\ turnOf' = [turnOf EXCEPT ![r] = t]
    /\ textOf' = [textOf EXCEPT ![r] = x]

\* The call has ended, or the process no longer knows it.
ReserveRejected(r) ==
    /\ pc[r] = "idle"
    /\ ended \/ ~serving
    /\ pc' = [pc EXCEPT ![r] = "done"]
    /\ told' = [told EXCEPT ![r] = "error"]
    /\ UNCHANGED <<durable, memory, turnOf, textOf, seen, verdict, tasks, writer, controls>>

NewRow(r, x) == [state |-> "reserved", owner |-> r, lease |-> "live",
                 text |-> x, user |-> 0, assistant |-> 0]

\* First submission of the turn: the row is committed with this owner.
ReserveCreated(r, t, x) ==
    /\ CanReserve(r) /\ ~ended
    /\ row[t].state = "absent"
    /\ writer = None
    /\ Submit(r, t, x)
    /\ row' = [row EXCEPT ![t] = NewRow(r, x)]
    /\ turnStates' = [turnStates EXCEPT ![t] = "reserved"]
    /\ turnOwners' = [turnOwners EXCEPT ![t] = r]
    /\ activeTasks' = activeTasks \cup {r}
    /\ seen' = [seen EXCEPT ![r] = [state |-> "reserved", owner |-> r]]
    /\ pc' = [pc EXCEPT ![r] = "reserved"]
    /\ UNCHANGED <<messages, serving, ended, pendingAi, completedAi, endRecorded,
                   verdict, told, tasks, writer, controls>>

\* The commit raised: the database was locked by a staged transaction, or the
\* client went away.  A cancelled commit may still have taken effect, which is
\* what the shielded recovery session is for.
ReserveFailed(r, t, x) ==
    /\ CanReserve(r) /\ ~ended
    /\ row[t].state = "absent"
    /\ Submit(r, t, x)
    /\ \/ UNCHANGED <<row, recoveries>>
       \/ /\ writer = None
          /\ row' = [row EXCEPT ![t] = NewRow(r, x)]
          /\ recoveries' = recoveries \cup {r}
    /\ turnStates' = [turnStates EXCEPT ![t] = None]
    /\ pc' = [pc EXCEPT ![r] = "done"]
    /\ told' = [told EXCEPT ![r] = "error"]
    /\ UNCHANGED <<messages, serving, ended, turnOwners, activeTasks, pendingAi,
                   completedAi, endRecorded, seen, verdict, cancelling, zombies,
                   writer, controls>>

\* _terminalize_committed_reservation_owner, in its own session; noted tells
\* whether the reserving stream was still there to record the outcome.
Recover(r) ==
    /\ r \in recoveries
    /\ recoveries' = recoveries \ {r}
    /\ LET t == turnOf[r] IN
       \/ /\ writer = None
          /\ row[t].owner = r /\ row[t].state \in OpenStates
          /\ \E state \in {"failed", "cancelled"}, noted \in BOOLEAN :
                /\ row' = [row EXCEPT ![t] = Closed(t, state)]
                /\ turnStates' = IF noted /\ serving
                                 THEN [turnStates EXCEPT ![t] = state]
                                 ELSE turnStates
       \/ UNCHANGED <<row, turnStates>>
    /\ UNCHANGED <<messages, serving, ended, turnOwners, activeTasks, pendingAi,
                   completedAi, endRecorded, streams, cancelling, zombies, writer,
                   controls>>

\* What events() does with a duplicate's reservation snapshot.
Rejoin(r, t, x, state) ==
    IF row[t].text # x
    THEN pc' = [pc EXCEPT ![r] = "done"] /\ told' = [told EXCEPT ![r] = "conflict"]
    ELSE IF state \in OpenStates
    THEN pc' = [pc EXCEPT ![r] = "polling"] /\ UNCHANGED told
    ELSE /\ pc' = [pc EXCEPT ![r] = "done"]
         /\ told' = [told EXCEPT ![r] = IF state = "completed" THEN "ai_done"
                                        ELSE "recoverable"]

\* A later submission of a known turn, read under the lock.
ReserveExisting(r, t, x) ==
    /\ CanReserve(r) /\ ~ended
    /\ row[t].state # "absent"
    /\ Submit(r, t, x)
    /\ \E result \in TurnStates :
          /\ TerminalizeStale(t, View(t), result)
          /\ Rejoin(r, t, x, result)
          /\ seen' = [seen EXCEPT ![r] = View(t)']
    /\ UNCHANGED <<messages, serving, ended, activeTasks, pendingAi, completedAi,
                   endRecorded, verdict, tasks, writer, controls>>
-----------------------------------------------------------------------------
(* The duplicate's poll: call_turn_status *)

\* The row is selected before the lock is taken ...
StatusRead(r) ==
    /\ pc[r] = "polling" /\ serving
    /\ seen' = [seen EXCEPT ![r] = View(turnOf[r])]
    /\ pc' = [pc EXCEPT ![r] = "statusRead"]
    /\ UNCHANGED <<durable, memory, turnOf, textOf, verdict, told, tasks, writer, controls>>

\* ... and applied to the call under it.
StatusApply(r) ==
    /\ pc[r] = "statusRead" /\ serving
    /\ \E result \in TurnStates :
          /\ TerminalizeStale(turnOf[r], seen[r], result)
          /\ Rejoin(r, turnOf[r], textOf[r], result)
    /\ UNCHANGED <<messages, serving, ended, activeTasks, pendingAi, completedAi,
                   endRecorded, turnOf, textOf, seen, verdict, tasks, writer, controls>>

\* A stream that owns nothing ends: its client left, or the service raised
\* (a locked database, a poll of a call the process lost).
Abandon(r) ==
    /\ pc[r] \in Polling \cup {"idle"}
    /\ pc' = [pc EXCEPT ![r] = "done"]
    /\ told' = [told EXCEPT ![r] = "error"]
    /\ UNCHANGED <<durable, memory, turnOf, textOf, seen, verdict, tasks, writer, controls>>
-----------------------------------------------------------------------------
(* The owner's turn *)

\* The in-memory half of every ownership check.
Owns(r) == turnOwners[turnOf[r]] = r

LoadedAs(r, states) == Loaded(r).state \in states /\ Loaded(r).owner = r

Settle(r, state) ==
    /\ verdict' = [verdict EXCEPT ![r] = state]
    /\ pc' = [pc EXCEPT ![r] = "finally"]

CanRun(r) == r \notin cancelling /\ serving

\* record_reserved_user_speech: the user's words and the running state commit
\* together.  Its checks never refuse a stream that can run: a hangup cancels the
\* registered task in the section that ends the call, and WorkerHoldsTurn holds.
RecordUser(r) ==
    LET t == turnOf[r] IN
    /\ pc[r] = "reserved" /\ CanRun(r) /\ writer = None
    /\ ~ended /\ turnStates[t] = "reserved" /\ Owns(r)
    /\ LoadedAs(r, {"reserved"})
    /\ messages' = Append(messages, Message("user_speech", t))
    /\ row' = [row EXCEPT ![t].state = "running", ![t].lease = "live",
                          ![t].user = Len(messages) + 1]
    /\ turnStates' = [turnStates EXCEPT ![t] = "running"]
    /\ seen' = [seen EXCEPT ![r] = [state |-> "running", owner |-> r]]
    /\ pc' = [pc EXCEPT ![r] = "generating"]
    /\ UNCHANGED <<serving, ended, turnOwners, activeTasks, pendingAi, completedAi,
                   endRecorded, turnOf, textOf, verdict, told, tasks, writer, controls>>

\* Prompt, LLM stream and speech end in a normal terminal with playout proof.
Played(r) ==
    /\ pc[r] = "generating" /\ CanRun(r)
    /\ pc' = [pc EXCEPT ![r] = "played"]
    /\ UNCHANGED <<durable, memory, turnOf, textOf, seen, verdict, told, tasks, writer, controls>>

\* ... in a backend cancellation, or in a failure of voice, LLM or speech.
\* An error a write raised before its commit ends the stream the same way.
GenerationEnds(r) ==
    /\ pc[r] \in {"reserved", "generating", "played"} /\ CanRun(r)
    /\ \/ pc[r] = "generating" /\ Settle(r, "cancelled") /\ UNCHANGED told
       \/ Settle(r, "failed") /\ told' = [told EXCEPT ![r] = "error"]
    /\ UNCHANGED <<durable, memory, turnOf, textOf, seen, tasks, writer, controls>>

\* record_completed_ai_speech, first check: claim the append.
CanClaim(r) ==
    LET t == turnOf[r] IN
    /\ ~ended /\ turnStates[t] = "running" /\ Owns(r)
    /\ t \notin completedAi /\ t \notin pendingAi

ClaimAppend(r) ==
    /\ pc[r] = "played" /\ CanRun(r) /\ CanClaim(r)
    /\ pendingAi' = pendingAi \cup {turnOf[r]}
    /\ pc' = [pc EXCEPT ![r] = "pending"]
    /\ UNCHANGED <<durable, serving, ended, turnStates, turnOwners, activeTasks,
                   completedAi, endRecorded, turnOf, textOf, seen, verdict, told, tasks,
                   writer, controls>>

ClaimRefused(r) ==
    /\ pc[r] = "played" /\ CanRun(r) /\ ~CanClaim(r)
    /\ Settle(r, "cancelled")
    /\ UNCHANGED <<durable, memory, turnOf, textOf, seen, told, tasks, writer, controls>>

DropClaim(r) == pendingAi' = pendingAi \ {turnOf[r]}

\* Second check under persistence_lock (it cannot refuse, as in RecordUser), then
\* _stage_message flushes: from here the transaction holds the write lock.
StageAppend(r) ==
    /\ pc[r] = "pending" /\ CanRun(r) /\ writer = None
    /\ ~ended /\ Owns(r)
    /\ writer' = r
    /\ pc' = [pc EXCEPT ![r] = "staged"]
    /\ UNCHANGED <<durable, memory, turnOf, textOf, seen, verdict, told, tasks, controls>>

\* fault: the message commits without the turn's row
AppendMessageOnly(t) ==
    /\ messages' = Append(messages, Message("ai_speech", t))
    /\ row' = row

AppendAssistant(t) ==
    /\ messages' = Append(messages, Message("ai_speech", t))
    /\ row' = [row EXCEPT ![t] = [Closed(t, "completed")
                                    EXCEPT !.assistant = Len(messages) + 1]]

\* The commit gate under lifecycle_lock.
CommitAppend(r) ==
    LET t == turnOf[r] IN
    /\ pc[r] = "staged" /\ CanRun(r)
    /\ ~ended /\ LoadedAs(r, {"running"})
    /\ AppendAssistant(t)
    /\ writer' = None
    /\ DropClaim(r)
    /\ completedAi' = completedAi \cup {t}
    /\ turnStates' = [turnStates EXCEPT ![t] = "completed"]
    /\ seen' = [seen EXCEPT ![r] = [state |-> "completed", owner |-> None]]
    /\ Settle(r, "completed")
    /\ told' = [told EXCEPT ![r] = "ai_done"]
    /\ UNCHANGED <<serving, ended, turnOwners, activeTasks, endRecorded, turnOf, textOf,
                   tasks, controls>>

\* The staging or the commit fails and rolls back.  The gate's own refusals
\* cannot happen, as in RecordUser.
AppendRolledBack(r) ==
    /\ pc[r] = "staged" /\ CanRun(r)
    /\ writer' = None
    /\ DropClaim(r)
    /\ seen' = [seen EXCEPT ![r] = None]
    /\ Settle(r, "failed")
    /\ UNCHANGED <<durable, serving, ended, turnStates, turnOwners, activeTasks,
                   completedAi, endRecorded, turnOf, textOf, told, tasks, controls>>
-----------------------------------------------------------------------------
(* The stream's finally block *)

CanFinish(r) ==
    /\ turnStates[turnOf[r]] \in OpenStates
    /\ Owns(r)
    /\ LoadedAs(r, OpenStates)

\* finish_call_turn
Finish(r) ==
    LET t == turnOf[r] IN
    /\ pc[r] = "finally" /\ CanRun(r) /\ writer = None
    /\ IF CanFinish(r)
       THEN /\ row' = [row EXCEPT ![t] = Closed(t, verdict[r])]
            /\ turnStates' = [turnStates EXCEPT ![t] = verdict[r]]
            /\ seen' = [seen EXCEPT ![r] = [state |-> verdict[r], owner |-> None]]
       ELSE UNCHANGED <<row, turnStates, seen>>
    /\ pc' = [pc EXCEPT ![r] = "unregister"]
    /\ UNCHANGED <<messages, serving, ended, turnOwners, activeTasks, pendingAi,
                   completedAi, endRecorded, turnOf, textOf, verdict, told, tasks, writer,
                   controls>>

\* unregister_active_turn
Unregister(r) ==
    /\ pc[r] = "unregister" /\ CanRun(r)
    /\ activeTasks' = activeTasks \ {r}
    /\ turnOwners' = IF Owns(r) THEN [turnOwners EXCEPT ![turnOf[r]] = None]
                     ELSE turnOwners
    /\ pc' = [pc EXCEPT ![r] = "done"]
    /\ zombies' = zombies \ {r}
    /\ UNCHANGED <<durable, serving, ended, turnStates, pendingAi, completedAi,
                   endRecorded, turnOf, textOf, seen, verdict, told, cancelling,
                   recoveries, writer, controls>>

\* An exception inside the finally block (a locked database, a session left in
\* a failed transaction, a cancelled await): the rest of it does not run.
CleanupAborted(r) ==
    /\ pc[r] \in Cleanup /\ serving
    /\ pc' = [pc EXCEPT ![r] = "done"]
    /\ zombies' = zombies \ {r}
    /\ cancelling' = cancelling \ {r}
    /\ UNCHANGED <<durable, memory, turnOf, textOf, seen, verdict, told, recoveries,
                   writer, controls>>
-----------------------------------------------------------------------------
(* Cancellation *)

\* Leaving record_completed_ai_speech with CancelledError: rollback, then the
\* claim is dropped -- unless that very await is cancelled again (kept).
LeaveWork(r, kept) ==
    /\ seen' = [seen EXCEPT ![r] = IF pc[r] \in {"pending", "staged"} THEN None ELSE @]
    /\ writer' = IF writer = r THEN None ELSE writer
    /\ pendingAi' = IF pc[r] \in {"pending", "staged"} /\ ~kept
                    THEN pendingAi \ {turnOf[r]} ELSE pendingAi

\* task.cancel() by a hangup or interrupt reaches the stream: it was issued
\* under lifecycle_lock, so never inside one of the stream's own sections.
CancelDelivered(r) ==
    /\ r \in cancelling /\ pc[r] \in Working /\ serving
    /\ cancelling' = cancelling \ {r}
    /\ LeaveWork(r, FALSE) /\ Settle(r, "cancelled")
    /\ UNCHANGED <<durable, serving, ended, turnStates, turnOwners, activeTasks,
                   completedAi, endRecorded, turnOf, textOf, told, zombies, recoveries,
                   controls>>

\* The client goes away while the owner works.  The cancellation may strike any
\* await: a commit in flight may still take effect; the finally block may run,
\* run later in the generator's finalizer (a zombie, whose verdict is still
\* "failed"), or be cancelled too.
CommitInFlight(r) ==
    LET t == turnOf[r] IN
    \/ /\ pc[r] = "reserved" /\ writer = None /\ ~ended
       /\ turnStates[t] = "reserved" /\ Owns(r) /\ LoadedAs(r, {"reserved"})
       /\ messages' = Append(messages, Message("user_speech", t))
       /\ row' = [row EXCEPT ![t].state = "running", ![t].lease = "live",
                             ![t].user = Len(messages) + 1]
    \/ /\ pc[r] = "staged" /\ ~ended /\ LoadedAs(r, {"running"})
       /\ AppendAssistant(t)

Disconnect(r) ==
    /\ pc[r] \in Working /\ CanRun(r)
    /\ CommitInFlight(r) \/ UNCHANGED durable
    /\ \E kept \in BOOLEAN : LeaveWork(r, kept)
    /\ \/ /\ Settle(r, "cancelled") /\ UNCHANGED zombies
       \/ /\ pc[r] = "generating"
          /\ Settle(r, "failed") /\ zombies' = zombies \cup {r}
       \/ /\ pc' = [pc EXCEPT ![r] = "done"] /\ UNCHANGED <<verdict, zombies>>
    /\ UNCHANGED <<serving, ended, turnStates, turnOwners, activeTasks, completedAi,
                   endRecorded, turnOf, textOf, told, cancelling, recoveries, controls>>
-----------------------------------------------------------------------------
(* Hangup and interrupt *)

Live(R) == {r \in R : ~TaskDone(r)}

\* fault: the hangup waits until the tasks have unregistered themselves
GatherUnregistered(c) == gathering[c] \cap activeTasks = {}

GatherDone(c) == Live(gathering[c]) = {}

\* fault: the hangup never publishes ended_at
PublishNothing(e, from, to) ==
    /\ ctl[e] = from /\ serving
    /\ cancelling' = cancelling \cup Live(activeTasks)
    /\ gathering' = [gathering EXCEPT ![e] = activeTasks]
    /\ ctl' = [ctl EXCEPT ![e] = to]
    /\ UNCHANGED <<durable, memory, streams, zombies, recoveries, writer>>

\* begin_end, first half: publish the terminal state and cancel every task.
PublishEnd(e, from, to) ==
    /\ ctl[e] = from /\ serving
    /\ ended' = TRUE
    /\ cancelling' = cancelling \cup Live(activeTasks)
    /\ gathering' = [gathering EXCEPT ![e] = activeTasks]
    /\ ctl' = [ctl EXCEPT ![e] = to]
    /\ UNCHANGED <<durable, serving, turnStates, turnOwners, activeTasks, pendingAi,
                   completedAi, endRecorded, streams, zombies, recoveries, writer>>

\* begin_end, second half, once asyncio.gather returned.
MarkEnded(e, from, to) ==
    /\ ctl[e] = from /\ serving
    /\ GatherDone(e)
    /\ activeTasks' = activeTasks \ gathering[e]
    /\ turnStates' = [t \in Turns |-> IF turnStates[t] \in OpenStates THEN "cancelled"
                                      ELSE turnStates[t]]
    /\ turnOwners' = [t \in Turns |-> IF turnStates[t] \in OpenStates THEN None
                                      ELSE turnOwners[t]]
    /\ gathering' = [gathering EXCEPT ![e] = {}]
    /\ ctl' = [ctl EXCEPT ![e] = to]
    /\ UNCHANGED <<durable, serving, ended, pendingAi, completedAi, endRecorded, streams,
                   tasks, writer>>

BeginEnd(e) == PublishEnd(e, "idle", "gather") \/ MarkEnded(e, "gather", "backend")

\* The backend's end endpoint answered or failed: end_call begins the end again.
EndAgain(e) ==
    PublishEnd(e, "backend", "gatherAgain") \/ MarkEnded(e, "gatherAgain", "commit")

\* A misconfigured backend client or a locked database stops the handler.
EndRaised(e) ==
    /\ ctl[e] \in {"backend", "commit"}
    /\ ctl' = [ctl EXCEPT ![e] = "done"]
    /\ UNCHANGED <<durable, memory, streams, tasks, writer, gathering>>

CancelOpenRows ==
    [t \in Turns |-> IF row[t].state \in OpenStates THEN Closed(t, "cancelled")
                     ELSE row[t]]

\* end_call: the open rows and the "Call ended" row commit in one transaction;
\* a later hangup finds the row recorded and commits nothing.
CommitEnd(e) ==
    /\ ctl[e] = "commit" /\ serving /\ writer = None
    /\ ctl' = [ctl EXCEPT ![e] = "done"]
    /\ IF endRecorded THEN UNCHANGED <<durable, endRecorded>>
       ELSE /\ row' = CancelOpenRows
            /\ messages' = Append(messages, Message("call_end", None))
            /\ endRecorded' = TRUE
    /\ UNCHANGED <<serving, ended, turnStates, turnOwners, activeTasks, pendingAi,
                   completedAi, streams, tasks, writer, gathering>>

\* cancel_active_turns: the tasks of the call are cancelled ...
CancelActiveTurns(i) ==
    /\ ctl[i] = "idle" /\ serving
    /\ cancelling' = cancelling \cup Live(activeTasks)
    /\ gathering' = [gathering EXCEPT ![i] = activeTasks]
    /\ ctl' = [ctl EXCEPT ![i] = "gather"]
    /\ UNCHANGED <<durable, memory, streams, zombies, recoveries, writer>>

\* ... and forgotten once they ended.
TurnsCancelled(i) ==
    /\ ctl[i] = "gather" /\ serving
    /\ GatherDone(i)
    /\ activeTasks' = activeTasks \ gathering[i]
    /\ gathering' = [gathering EXCEPT ![i] = {}]
    /\ ctl' = [ctl EXCEPT ![i] = "done"]
    /\ UNCHANGED <<durable, serving, ended, turnStates, turnOwners, pendingAi,
                   completedAi, endRecorded, streams, tasks, writer>>

\* interrupt_call; its request to the backend is SpeechLedger's Interrupt.
Interrupt(i) == CancelActiveTurns(i) \/ TurnsCancelled(i)
-----------------------------------------------------------------------------
(* Time, restart and reconciliation *)

\* CALL_TURN_LEASE_SECONDS pass.
LeaseExpires(t) ==
    /\ row[t].lease = "live"
    /\ row' = [row EXCEPT ![t].lease = "expired"]
    /\ UNCHANGED <<messages, memory, streams, tasks, writer, controls>>

\* Another call starts and reconcile_stale_call_turns reaches this call's row.
Reconcile(t) ==
    /\ row[t].state \in OpenStates /\ row[t].lease # "live"
    /\ writer = None
    /\ IF serving
       THEN \E result \in TurnStates : TerminalizeStale(t, View(t), result)
       ELSE /\ row' = [row EXCEPT ![t] = Closed(t, "failed")]
            /\ UNCHANGED <<turnStates, turnOwners>>
    /\ UNCHANGED <<messages, serving, ended, activeTasks, pendingAi, completedAi,
                   endRecorded, streams, tasks, writer, controls>>

\* The web process dies: _ACTIVE_CALLS, every stream and every open
\* transaction go with it; the rows stay.
Crash ==
    /\ serving
    /\ serving' = FALSE
    /\ turnStates' = [t \in Turns |-> None]
    /\ turnOwners' = [t \in Turns |-> None]
    /\ activeTasks' = {} /\ pendingAi' = {} /\ completedAi' = {}
    /\ pc' = [r \in Requests |-> IF pc[r] = "idle" THEN "idle" ELSE "done"]
    /\ cancelling' = {} /\ zombies' = {} /\ recoveries' = {}
    /\ writer' = None
    /\ ctl' = [c \in Controllers |-> "done"]
    /\ gathering' = [c \in Controllers |-> {}]
    /\ UNCHANGED <<durable, ended, endRecorded, turnOf, textOf, seen, verdict, told>>
-----------------------------------------------------------------------------
Owner(r) ==
    \/ RecordUser(r) \/ Played(r) \/ GenerationEnds(r)
    \/ ClaimAppend(r) \/ ClaimRefused(r) \/ StageAppend(r)
    \/ CommitAppend(r) \/ AppendRolledBack(r)
    \/ Finish(r) \/ Unregister(r) \/ CleanupAborted(r) \/ CancelDelivered(r)

Duplicate(r) == StatusRead(r) \/ StatusApply(r)

Reserve(r) ==
    \/ ReserveRejected(r)
    \/ \E t \in Turns, x \in Texts :
          \/ ReserveCreated(r, t, x) \/ ReserveFailed(r, t, x)
          \/ ReserveExisting(r, t, x)

Hangup(e) == BeginEnd(e) \/ EndAgain(e) \/ EndRaised(e) \/ CommitEnd(e)

Next ==
    \/ \E r \in Requests : Reserve(r) \/ Owner(r) \/ Duplicate(r) \/ Recover(r)
                          \/ Abandon(r) \/ Disconnect(r)
    \/ \E e \in Enders : Hangup(e)
    \/ \E i \in Interrupters : Interrupt(i)
    \/ \E t \in Turns : LeaseExpires(t) \/ Reconcile(t)
    \/ Crash

Spec == Init /\ [][Next]_vars

\* A hangup the browser asked for: its steps after the request arrived.
HangupGoesOn(e) == Hangup(e) /\ ctl[e] # "idle"

\* The event loop keeps running streams and handlers, the database answers, the
\* LLM and speech calls of an owner end (they have timeouts), and time passes.
\* Clients need not submit, leave, interrupt or hang up, nothing need crash.
Fairness ==
    /\ \A r \in Requests : WF_vars(Owner(r)) /\ WF_vars(Duplicate(r))
    /\ \A e \in Enders : WF_vars(HangupGoesOn(e))
    /\ \A t \in Turns : WF_vars(LeaseExpires(t))

FairSpec == Spec /\ Fairness
-----------------------------------------------------------------------------
(* Safety *)

\* A working stream holds its turn: the row is open under its token, the call
\* knows it as the owner and will cancel its task on hangup.  No duplicate,
\* reconciliation, hangup or expired lease takes a turn from a live owner
\* (_turn_owner_is_live guards every terminalization).
WorkerHoldsTurn ==
    \A r \in Requests :
        pc[r] \in Working =>
            /\ row[turnOf[r]].state \in OpenStates
            /\ row[turnOf[r]].owner = r
            /\ turnOwners[turnOf[r]] = r
            /\ r \in activeTasks

Rowed(kind, t) == {i \in 1..Len(messages) : messages[i] = Message(kind, t)}
Ref(n) == IF n = 0 THEN {} ELSE {n}

\* The messages of a turn are the ones its row points at, the reply after the words of
\* the user; there is a reply exactly when the row says so.
TurnIsTold(t) ==
    /\ Rowed("user_speech", t) = Ref(row[t].user)
    /\ Rowed("ai_speech", t) = Ref(row[t].assistant)
    /\ row[t].state = "completed" <=> row[t].assistant # 0
    /\ row[t].assistant # 0 => row[t].user \in 1..(row[t].assistant - 1)
    /\ row[t].state = "running" => row[t].user # 0
    /\ row[t].state = "reserved" => row[t].user = 0

\* The thread's history and the turns' rows tell one story: at most one user row
\* and one assistant row per turn, each the one the row points at, an assistant
\* row exactly for a completed turn and after its user row.  It holds across
\* cancelled commits, crashes and rollbacks because each message commits with
\* its state change.
HistoryMatchesTurns == \A t \in Turns : TurnIsTold(t)

\* Once the "Call ended" row is durable no turn of the call is open: no owner,
\* duplicate, recovery or late commit reopens one after end_call's update.
EndedCallIsClosed ==
    endRecorded => \A t \in Turns : row[t].state \notin OpenStates

\* What a client was told about a turn is durable: "ai_done" means the reply is
\* stored, "recoverable" means the turn failed or was cancelled and the browser
\* may submit a new one without getting two replies.
AnswersAreDurable ==
    \A r \in Requests :
        /\ told[r] = "ai_done" => row[turnOf[r]].state = "completed"
        /\ told[r] = "recoverable" => row[turnOf[r]].state \in {"failed", "cancelled"}

\* Thread, rows and answers tell one story: the history is the one of the rows, and so is
\* what the clients were told.
RecordsAgree == HistoryMatchesTurns /\ AnswersAreDurable

\* A durable terminal state never changes, whoever still believes the turn is
\* open: a late finish_call_turn, a stale duplicate, a recovery, a hangup.
TerminalIsFinal ==
    [][\A t \in Turns : row[t].state \in TerminalStates => row'[t] = row[t]]_vars

HangupBegun == \E e \in Enders : ctl[e] # "idle"

\* Hangup freezes the conversation: once begin_end published its end, while it
\* still waits for the cancelled streams, the backend and the database, no user
\* or assistant speech joins the history; only the "Call ended" row may.
HangupFreezesHistory ==
    [][HangupBegun => messages' \in {messages, Append(messages, Message("call_end", None))}]_vars

-----------------------------------------------------------------------------
(* Liveness *)

\* A duplicate that polls a turn is answered, which alone ends its polling: the owner
\* settles the turn, or its death or lease is noticed.
RejoinIsAnswered ==
    \A r \in Requests : []<>(pc[r] \notin Polling)

\* A hangup that cancelled the turns gets through both gathers, the database and
\* every stream's cleanup: neither lock nor a task that ignores its
\* cancellation holds it forever.  It never goes back to "idle".
HangupReturns ==
    \A e \in Enders : []<>(ctl[e] \in {"idle", "done"})

\* Hangup is final, in memory and in the database: the conversation is frozen from the
\* moment the end is published, and no turn is open once the end is recorded.
HangupIsFinal == []EndedCallIsClosed /\ HangupFreezesHistory

\* Whoever waits for a turn or for the end of the call is answered.
CallersReturn == RejoinIsAnswered /\ HangupReturns
=============================================================================
