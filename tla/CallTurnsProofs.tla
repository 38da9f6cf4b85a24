--------------------------- MODULE CallTurnsProofs ---------------------------
(***************************************************************************)
(* The turn lifecycle's ownership and finality, for any number of turns,   *)
(* streams, hangups and interrupts.  Inv is the inductive invariant: a     *)
(* working stream holds its turn, and whatever a stream in its finally     *)
(* block still believes about an open row it owns is true.                 *)
(***************************************************************************)
EXTENDS CallTurns, TLAPS

\* A stream that submitted works on a turn that has a row.
TurnKnown ==
    \A r \in Requests :
        pc[r] \in Working \cup Cleanup \cup Polling \/ r \in recoveries =>
            turnOf[r] \in Turns /\ row[turnOf[r]].state # "absent"

\* A closed or absent row has neither owner nor lease; an absent one no owner
\* in memory.
ClosedRows ==
    \A t \in Turns :
        /\ row[t].state \notin OpenStates => row[t].owner = None /\ row[t].lease = "none"
        /\ row[t].state = "absent" => turnOwners[t] = None

\* Where tasks that ended early, and those of a dead process, can be.
TaskPlaces ==
    /\ \A r \in zombies : pc[r] \in Cleanup
    /\ \A r \in recoveries : pc[r] = "done"
    /\ ~serving => \A r \in Requests : pc[r] \in {"idle", "done"}

\* A hangup that gathers has every working stream in its set; past its first
\* gather there is none, and past its second no open row is owned in memory.
HangupProgress ==
    \A e \in Enders :
        /\ ctl[e] \in {"gather", "backend", "gatherAgain", "commit"} => ended
        /\ ctl[e] = "gather" =>
              \A r \in Requests : pc[r] \in Working => r \in gathering[e]
        /\ ctl[e] \in {"backend", "gatherAgain", "commit"} =>
              \A r \in Requests : pc[r] \notin Working
        /\ ctl[e] = "commit" =>
              \A t \in Turns : row[t].state \in OpenStates => turnOwners[t] = None

\* Memory never calls a turn closed whose row is open under a known owner.
StatesAgree ==
    \A t \in Turns :
        row[t].state \in OpenStates /\ turnOwners[t] # None => turnStates[t] \in OpenStates

\* The identity map of a stream in its finally block does not mislead it.
FreshView ==
    \A r \in Requests :
        /\ pc[r] = "finally" /\ turnOwners[turnOf[r]] = r
        /\ seen[r] # None /\ seen[r].state \in OpenStates /\ seen[r].owner = r
        => row[turnOf[r]].state \in OpenStates /\ row[turnOf[r]].owner = r

\* A poll's view may be stale, but only in one direction.
PollView ==
    \A r \in Requests :
        pc[r] = "statusRead" =>
            /\ seen[r] # None /\ seen[r].state # "absent"
            /\ seen[r].state \in TerminalStates => row[turnOf[r]].state \in TerminalStates

Inv ==
    /\ TypeOK /\ TurnKnown /\ WorkerHoldsTurn /\ ClosedRows /\ TaskPlaces
    /\ HangupProgress /\ StatesAgree /\ FreshView /\ PollView

\* Closing a row clears its owner and its lease.
LEMMA ClosedRecord ==
    ASSUME NEW x \in Rows, NEW s \in TurnStates
    PROVE  LET n == [x EXCEPT !.state = s, !.owner = None, !.lease = "none"]
           IN  n \in Rows /\ n.state = s /\ n.owner = None /\ n.lease = "none"
BY DEF Rows, Leases

\* Expiring a lease changes nothing else of the row.
LEMMA ExpiredRecord ==
    ASSUME NEW x \in Rows
    PROVE  LET n == [x EXCEPT !.lease = "expired"]
           IN  n \in Rows /\ n.state = x.state /\ n.owner = x.owner
BY DEF Rows, Leases

\* What Closed leaves in a row: the given state, no owner, no lease.
LEMMA ClosedFields ==
    ASSUME TypeOK, NEW t \in Turns, NEW s \in TurnStates
    PROVE  /\ Closed(t, s) \in Rows
           /\ Closed(t, s).state = s
           /\ Closed(t, s).owner = None
           /\ Closed(t, s).lease = "none"
<1>1. row[t] \in Rows
  BY DEF TypeOK
<1> QED BY <1>1, ClosedRecord DEF Closed

\* What _terminalize_stale_turn_if_needed can do: nothing to the row, or fail an
\* open one that no working stream holds.
LEMMA TerminalizeEffect ==
    ASSUME TypeOK, WorkerHoldsTurn, TaskPlaces,
           NEW t \in Turns, NEW view \in Views, NEW result,
           TerminalizeStale(t, view, result),
           row[t].state # "absent", view.state # "absent",
           view.state \in TerminalStates => row[t].state \in TerminalStates
    PROVE  /\ result \in TurnStates
           /\ turnStates' = [turnStates EXCEPT ![t] = result]
           /\ row' \in [Turns -> Rows]
           /\ turnOwners' \in [Turns -> Requests \cup {None}]
           /\ \A u \in Turns : u # t => row'[u] = row[u] /\ turnOwners'[u] = turnOwners[u]
           /\ \/ /\ row'[t] = row[t] /\ turnOwners'[t] = turnOwners[t]
                 /\ result \in TerminalStates => row[t].state \in TerminalStates
              \/ /\ row[t].state \in OpenStates /\ result = "failed"
                 /\ row'[t].state = "failed" /\ row'[t].owner = None
                 /\ row'[t].lease = "none" /\ turnOwners'[t] = None
                 /\ \A r \in Requests : pc[r] \in Working => turnOf[r] # t
<1>1. CASE LooksStale(t, view) /\ StaleUpdateMatches(t, view)
  <2>1. /\ row' = [row EXCEPT ![t] = Closed(t, "failed")]
        /\ turnOwners' = [turnOwners EXCEPT ![t] = None]
        /\ turnStates' = [turnStates EXCEPT ![t] = result]
        /\ result = "failed"
    BY <1>1 DEF TerminalizeStale
  <2>2. /\ Closed(t, "failed") \in Rows
        /\ Closed(t, "failed").state = "failed"
        /\ Closed(t, "failed").owner = None
        /\ Closed(t, "failed").lease = "none"
    BY ClosedFields DEF TurnStates, TerminalStates
  <2>3. row[t].state \in OpenStates /\ row[t].owner = view.owner
    BY <1>1 DEF StaleUpdateMatches
  <2>4. ASSUME NEW r \in Requests, pc[r] \in Working, turnOf[r] = t
        PROVE  FALSE
    <3>1. row[t].owner = r /\ turnOwners[t] = r
      BY <2>4 DEF WorkerHoldsTurn
    <3>2. pc[r] # "done" /\ r \notin zombies
      BY <2>4 DEF TaskPlaces, Working, Cleanup
    <3>3. OwnerIsLive(t, view)
      BY <3>1, <3>2, <2>3, NoneAssumption DEF OwnerIsLive, TaskDone
    <3> QED BY <3>3, <1>1 DEF LooksStale
  <2> QED BY <2>1, <2>2, <2>3, <2>4 DEF TypeOK, TurnStates, TerminalStates
<1>2. CASE ~(LooksStale(t, view) /\ StaleUpdateMatches(t, view))
  <2>1. /\ result = IF LooksStale(t, view) THEN row[t].state ELSE view.state
        /\ turnStates' = [turnStates EXCEPT ![t] = result]
        /\ row' = row /\ turnOwners' = turnOwners
    BY <1>2 DEF TerminalizeStale
  <2> QED BY <2>1 DEF TypeOK, Rows, Views
<1> QED BY <1>1, <1>2

\* What events() does with a duplicate's snapshot: poll again or end.
LEMMA RejoinEffect ==
    ASSUME TypeOK, NEW r \in Requests, NEW t, NEW x, NEW state, Rejoin(r, t, x, state)
    PROVE  /\ \E p \in {"done", "polling"} : pc' = [pc EXCEPT ![r] = p]
           /\ told' \in [Requests -> {"nothing", "ai_done", "recoverable", "conflict", "error"}]
BY DEF TypeOK, Rejoin

\* The history start_call leaves is a sequence of messages.
LEMMA StartIsMessage == <<Message("call_start", None)>> \in Seq(Messages)
BY DEF Message, Messages

USE DEF Working, Cleanup, Polling, OpenStates, TerminalStates, TurnStates

\* reserve_call_turn on an ended or lost call.
LEMMA ReserveRejectedKeeps ==
    ASSUME Inv, NEW r \in Requests, ReserveRejected(r)
    PROVE  Inv'
<1>1. (TypeOK /\ TurnKnown /\ WorkerHoldsTurn /\ ClosedRows /\ TaskPlaces
     /\ HangupProgress /\ StatesAgree /\ FreshView /\ PollView)'
  BY DEF Inv, TypeOK, RequestPc, tasks, controls, durable, memory, ReserveRejected,
         TurnKnown, WorkerHoldsTurn, HangupProgress, TaskPlaces, ClosedRows,
         StatesAgree, FreshView, PollView
<1> QED BY <1>1 DEF Inv

\* A fresh row makes its stream the one working owner of the turn.
LEMMA ReserveCreatedKeeps ==
    ASSUME Inv, NEW r \in Requests, NEW t \in Turns, NEW x \in Texts, ReserveCreated(r, t, x)
    PROVE  Inv'
<1>1. (TypeOK /\ TurnKnown /\ WorkerHoldsTurn /\ ClosedRows /\ TaskPlaces
     /\ HangupProgress /\ StatesAgree /\ FreshView /\ PollView)'
  BY DEF Inv, TypeOK, RequestPc, tasks, controls, Rows, Leases, Views,
         ReserveCreated, CanReserve, Submit, NewRow, TurnKnown, WorkerHoldsTurn,
         HangupProgress, TaskPlaces, ClosedRows, StatesAgree, FreshView, PollView
<1> QED BY <1>1 DEF Inv

\* A failed reservation leaves no owner in memory, whether or not it committed.
LEMMA ReserveFailedKeeps ==
    ASSUME Inv, NEW r \in Requests, NEW t \in Turns, NEW x \in Texts,
           ReserveFailed(r, t, x)
    PROVE  Inv'
<1>1. /\ pc[r] = "idle" /\ serving /\ row[t].state = "absent" /\ ~ended
      /\ turnOf' = [turnOf EXCEPT ![r] = t] /\ textOf' = [textOf EXCEPT ![r] = x]
      /\ turnStates' = [turnStates EXCEPT ![t] = None]
      /\ pc' = [pc EXCEPT ![r] = "done"] /\ told' = [told EXCEPT ![r] = "error"]
      /\ UNCHANGED <<messages, serving, ended, turnOwners, activeTasks, pendingAi,
                     completedAi, endRecorded, seen, verdict, cancelling, zombies,
                     writer, controls>>
  BY DEF ReserveFailed, CanReserve, Submit
<1>2. r \notin recoveries /\ turnOwners[t] = None
  BY <1>1 DEF Inv, TaskPlaces, ClosedRows
<1>3. CASE row' = row /\ recoveries' = recoveries
  <2>1. (TypeOK /\ TurnKnown /\ WorkerHoldsTurn /\ ClosedRows /\ TaskPlaces
       /\ HangupProgress /\ StatesAgree /\ FreshView /\ PollView)'
    BY <1>1, <1>2, <1>3
    DEF Inv, TypeOK, RequestPc, controls, TurnKnown, WorkerHoldsTurn, ClosedRows,
        TaskPlaces, HangupProgress, StatesAgree, FreshView, PollView
  <2> QED BY <2>1 DEF Inv
<1>4. CASE /\ row' = [row EXCEPT ![t] = NewRow(r, x)]
           /\ recoveries' = recoveries \cup {r}
  <2>1. /\ NewRow(r, x) \in Rows /\ NewRow(r, x).state = "reserved"
        /\ NewRow(r, x).owner = r
    BY DEF NewRow, Rows, TurnStates, OpenStates, Leases
  <2>2. (TypeOK /\ TurnKnown /\ WorkerHoldsTurn /\ ClosedRows /\ TaskPlaces
       /\ HangupProgress /\ StatesAgree /\ FreshView /\ PollView)'
    BY <1>1, <1>2, <1>4, <2>1
    DEF Inv, TypeOK, RequestPc, controls, TurnKnown, WorkerHoldsTurn, ClosedRows,
        TaskPlaces, HangupProgress, StatesAgree, FreshView, PollView
  <2> QED BY <2>2 DEF Inv
<1> QED BY <1>3, <1>4 DEF ReserveFailed

\* The shielded recovery closes only a row of a stream that is gone.
LEMMA RecoverKeeps ==
    ASSUME Inv, NEW r \in Requests,
           Recover(r)
    PROVE  Inv'
<1> DEFINE t == turnOf[r]
<1>1. /\ r \in recoveries /\ recoveries' = recoveries \ {r}
      /\ pc[r] = "done" /\ t \in Turns /\ row[t].state # "absent"
      /\ UNCHANGED <<messages, serving, ended, turnOwners, activeTasks, pendingAi,
                     completedAi, endRecorded, streams, cancelling, zombies, writer,
                     controls>>
  BY DEF Recover, Inv, TurnKnown, TaskPlaces
<1>2. CASE row' = row /\ turnStates' = turnStates
  <2>1. (TypeOK /\ TurnKnown /\ WorkerHoldsTurn /\ ClosedRows /\ TaskPlaces
       /\ HangupProgress /\ StatesAgree /\ FreshView /\ PollView)'
    BY <1>1, <1>2
    DEF Inv, TypeOK, controls, streams, TurnKnown, WorkerHoldsTurn, ClosedRows,
        TaskPlaces, HangupProgress, StatesAgree, FreshView, PollView
  <2> QED BY <2>1 DEF Inv
<1>3. ASSUME row[t].owner = r, row[t].state \in OpenStates,
             NEW state \in {"failed", "cancelled"},
             row' = [row EXCEPT ![t] = Closed(t, state)],
             turnStates' = turnStates \/ turnStates' = [turnStates EXCEPT ![t] = state]
      PROVE  Inv'
  <2>1. /\ Closed(t, state) \in Rows /\ Closed(t, state).state = state
        /\ Closed(t, state).owner = None /\ Closed(t, state).lease = "none"
    BY <1>1, ClosedFields DEF Inv, TurnStates, TerminalStates
  <2>2. \A q \in Requests : pc[q] \in Working => turnOf[q] # t
    BY <1>1, <1>3 DEF Inv, WorkerHoldsTurn, Working
  <2>3. (TypeOK /\ TurnKnown /\ WorkerHoldsTurn /\ ClosedRows /\ TaskPlaces
       /\ HangupProgress /\ StatesAgree /\ FreshView /\ PollView)'
    BY <1>1, <1>3, <2>1, <2>2, ControlAssumption
    DEF Inv, TypeOK, controls, streams, TurnKnown, WorkerHoldsTurn, ClosedRows,
        TaskPlaces, HangupProgress, StatesAgree, FreshView, PollView
  <2> QED BY <2>3 DEF Inv
<1> QED BY <1>2, <1>3 DEF Recover

\* A later submission reads the row under the lock.
LEMMA ReserveExistingKeeps ==
    ASSUME Inv, NEW r \in Requests, NEW t \in Turns, NEW x \in Texts,
           ReserveExisting(r, t, x)
    PROVE  Inv'
<1>1. PICK result \in TurnStates :
         /\ TerminalizeStale(t, View(t), result)
         /\ Rejoin(r, t, x, result)
         /\ seen' = [seen EXCEPT ![r] = View(t)']
  BY DEF ReserveExisting
<1>2. /\ pc[r] = "idle" /\ row[t].state # "absent"
      /\ View(t) \in Views /\ View(t).state = row[t].state
  BY DEF ReserveExisting, CanReserve, Inv, TypeOK, View, Views, Rows
<1>3. /\ turnStates' = [turnStates EXCEPT ![t] = result]
      /\ row' \in [Turns -> Rows]
      /\ turnOwners' \in [Turns -> Requests \cup {None}]
      /\ \A u \in Turns : u # t => row'[u] = row[u] /\ turnOwners'[u] = turnOwners[u]
      /\ \/ /\ row'[t] = row[t] /\ turnOwners'[t] = turnOwners[t]
            /\ result \in TerminalStates => row[t].state \in TerminalStates
         \/ /\ row[t].state \in OpenStates /\ result = "failed"
            /\ row'[t].state = "failed" /\ row'[t].owner = None
            /\ row'[t].lease = "none" /\ turnOwners'[t] = None
            /\ \A q \in Requests : pc[q] \in Working => turnOf[q] # t
  BY <1>1, <1>2, TerminalizeEffect DEF Inv
<1>4. PICK p \in {"done", "polling"} : pc' = [pc EXCEPT ![r] = p]
  BY <1>1, RejoinEffect DEF Inv
<1>5. told' \in [Requests -> {"nothing", "ai_done", "recoverable", "conflict", "error"}]
  BY <1>1, RejoinEffect DEF Inv
<1>6. UNCHANGED <<messages, serving, ended, activeTasks, pendingAi, completedAi,
                  endRecorded, verdict, tasks, writer, controls>>
  BY DEF ReserveExisting
<1>7. /\ serving
      /\ turnOf' = [turnOf EXCEPT ![r] = t] /\ textOf' = [textOf EXCEPT ![r] = x]
      /\ seen' \in [Requests -> Views \cup {None}]
      /\ \A q \in Requests : q # r => seen'[q] = seen[q]
  BY <1>1, <1>3 DEF ReserveExisting, CanReserve, Submit, Inv, TypeOK, View, Views, Rows
<1>8. TypeOK'
  BY <1>2, <1>3, <1>4, <1>5, <1>6, <1>7
  DEF Inv, TypeOK, RequestPc, tasks, controls
<1>9. TurnKnown'
  BY <1>2, <1>3, <1>4, <1>5, <1>6, <1>7
  DEF Inv, TurnKnown, TypeOK, tasks
<1>10. WorkerHoldsTurn'
  BY <1>2, <1>3, <1>4, <1>5, <1>6, <1>7
  DEF Inv, WorkerHoldsTurn, TurnKnown
<1>11. ClosedRows'
  BY <1>2, <1>3, <1>4, <1>5, <1>6, <1>7
  DEF Inv, ClosedRows
<1>12. TaskPlaces'
  BY <1>2, <1>3, <1>4, <1>5, <1>6, <1>7
  DEF Inv, TaskPlaces, tasks
<1>13. (HangupProgress /\ StatesAgree /\ FreshView /\ PollView)'
  BY <1>2, <1>3, <1>4, <1>5, <1>6, <1>7, NoneAssumption, ControlAssumption
  DEF Inv, HangupProgress, controls, StatesAgree, FreshView, TurnKnown,
      WorkerHoldsTurn, PollView
<1> QED BY <1>8, <1>9, <1>10, <1>11, <1>12, <1>13 DEF Inv

\* The unlocked read of a status poll.
LEMMA StatusReadKeeps ==
    ASSUME Inv, NEW r \in Requests,
           StatusRead(r)
    PROVE  Inv'
<1>1. /\ pc[r] = "polling" /\ turnOf[r] \in Turns /\ row[turnOf[r]].state # "absent"
      /\ seen' = [seen EXCEPT ![r] = View(turnOf[r])]
      /\ pc' = [pc EXCEPT ![r] = "statusRead"] /\ serving
      /\ UNCHANGED <<durable, memory, turnOf, textOf, verdict, told, tasks, writer, controls>>
  BY DEF StatusRead, Inv, TurnKnown, Polling
<1>2. /\ View(turnOf[r]) \in Views /\ View(turnOf[r]) # None
      /\ View(turnOf[r]).state = row[turnOf[r]].state
  BY <1>1, NoneAssumption DEF Inv, TypeOK, View, Views, Rows
<1>3. (TypeOK /\ TurnKnown /\ WorkerHoldsTurn /\ ClosedRows /\ TaskPlaces
     /\ HangupProgress /\ StatesAgree /\ FreshView /\ PollView)'
  BY <1>1, <1>2
  DEF Inv, TypeOK, RequestPc, tasks, controls, durable, memory, TurnKnown,
      WorkerHoldsTurn, ClosedRows, TaskPlaces, HangupProgress, StatesAgree,
      FreshView, PollView
<1> QED BY <1>3 DEF Inv

\* A status poll applies a view that may be stale, in one direction only.
LEMMA StatusApplyKeeps ==
    ASSUME Inv, NEW r \in Requests, StatusApply(r)
    PROVE  Inv'
<1> DEFINE t == turnOf[r]
<1>1. PICK result \in TurnStates :
         TerminalizeStale(t, seen[r], result) /\ Rejoin(r, t, textOf[r], result)
  BY DEF StatusApply
<1>2. /\ pc[r] = "statusRead" /\ t \in Turns /\ row[t].state # "absent"
      /\ seen[r] \in Views /\ seen[r].state # "absent"
      /\ seen[r].state \in TerminalStates => row[t].state \in TerminalStates
  BY DEF StatusApply, Inv, TypeOK, TurnKnown, PollView, Polling
<1>3. /\ turnStates' = [turnStates EXCEPT ![t] = result]
      /\ row' \in [Turns -> Rows]
      /\ turnOwners' \in [Turns -> Requests \cup {None}]
      /\ \A u \in Turns : u # t => row'[u] = row[u] /\ turnOwners'[u] = turnOwners[u]
      /\ \/ /\ row'[t] = row[t] /\ turnOwners'[t] = turnOwners[t]
            /\ result \in TerminalStates => row[t].state \in TerminalStates
         \/ /\ row[t].state \in OpenStates /\ result = "failed"
            /\ row'[t].state = "failed" /\ row'[t].owner = None
            /\ row'[t].lease = "none" /\ turnOwners'[t] = None
            /\ \A q \in Requests : pc[q] \in Working => turnOf[q] # t
  BY <1>1, <1>2, TerminalizeEffect DEF Inv
<1>4. PICK p \in {"done", "polling"} : pc' = [pc EXCEPT ![r] = p]
  BY <1>1, RejoinEffect DEF Inv
<1>5. told' \in [Requests -> {"nothing", "ai_done", "recoverable", "conflict", "error"}]
  BY <1>1, RejoinEffect DEF Inv
<1>6. UNCHANGED <<messages, serving, ended, activeTasks, pendingAi, completedAi,
                  endRecorded, turnOf, textOf, seen, verdict, tasks, writer, controls>>
  BY DEF StatusApply
<1> HIDE DEF t
<1>7. TypeOK'
  BY <1>2, <1>3, <1>4, <1>5, <1>6
  DEF Inv, TypeOK, RequestPc, tasks, controls, t
<1>8. TurnKnown'
  BY <1>2, <1>3, <1>4, <1>5, <1>6
  DEF Inv, TurnKnown, tasks, t
<1>9. WorkerHoldsTurn'
  BY <1>2, <1>3, <1>4, <1>5, <1>6
  DEF Inv, WorkerHoldsTurn, TurnKnown, t
<1>10. ClosedRows'
  BY <1>2, <1>3, <1>4, <1>5, <1>6
  DEF Inv, ClosedRows, t
<1>11. TaskPlaces'
  BY <1>2, <1>3, <1>4, <1>5, <1>6
  DEF Inv, TaskPlaces, tasks, t
<1>12. (HangupProgress /\ StatesAgree /\ FreshView /\ PollView)'
  BY <1>2, <1>3, <1>4, <1>5, <1>6, NoneAssumption, ControlAssumption
  DEF Inv, HangupProgress, controls, t, StatesAgree, FreshView, TurnKnown,
      WorkerHoldsTurn, PollView
<1> QED BY <1>7, <1>8, <1>9, <1>10, <1>11, <1>12 DEF Inv

\* A stream that owns nothing ends.
LEMMA AbandonKeeps ==
    ASSUME Inv, NEW r \in Requests, Abandon(r)
    PROVE  Inv'
<1>1. (TypeOK /\ TurnKnown /\ WorkerHoldsTurn /\ ClosedRows /\ TaskPlaces
     /\ HangupProgress /\ StatesAgree /\ FreshView /\ PollView)'
  BY DEF Inv, TypeOK, RequestPc, tasks, controls, durable, memory, Abandon,
         TurnKnown, WorkerHoldsTurn, HangupProgress, TaskPlaces, ClosedRows,
         StatesAgree, FreshView, PollView
<1> QED BY <1>1 DEF Inv

\* The row that record_reserved_user_speech writes is a row, of the same owner.
LEMMA RunningRow ==
    ASSUME NEW x \in Rows, NEW k \in Nat
    PROVE  LET n == [x EXCEPT !.state = "running", !.lease = "live", !.user = k]
           IN  n \in Rows /\ n.state = "running" /\ n.owner = x.owner
BY DEF Rows, TurnStates, OpenStates, Leases

\* What the user said in a turn is a message of the history.
LEMMA SpeechMessage ==
    ASSUME NEW t \in Turns
    PROVE  Message("user_speech", t) \in Messages
BY DEF Message, Messages

\* What a session sees of a row that it has just set to running.
LEMMA RunningView ==
    ASSUME NEW r \in Requests
    PROVE  [state |-> "running", owner |-> r] \in Views
BY DEF Views, TurnStates, OpenStates

\* record_reserved_user_speech commits the user's row with the running state.
LEMMA RecordUserKeeps ==
    ASSUME Inv, NEW r \in Requests,
           RecordUser(r)
    PROVE  Inv'
<1> DEFINE t == turnOf[r]
           n == [row[t] EXCEPT !.state = "running", !.lease = "live",
                               !.user = Len(messages) + 1]
<1>1. /\ pc[r] = "reserved" /\ t \in Turns /\ row[t].state \in OpenStates
      /\ row[t].owner = r /\ ~ended
      /\ messages' = Append(messages, Message("user_speech", t))
      /\ row' = [row EXCEPT ![t] = n]
      /\ turnStates' = [turnStates EXCEPT ![t] = "running"]
      /\ seen' = [seen EXCEPT ![r] = [state |-> "running", owner |-> r]]
      /\ pc' = [pc EXCEPT ![r] = "generating"]
      /\ UNCHANGED <<serving, ended, turnOwners, activeTasks, pendingAi, completedAi,
                     endRecorded, turnOf, textOf, verdict, told, tasks, writer, controls>>
  BY DEF RecordUser, Inv, TypeOK, TurnKnown, WorkerHoldsTurn, Working
<1>2. Len(messages) + 1 \in Nat
  BY DEF Inv, TypeOK
<1>3. /\ n \in Rows /\ n.state = "running" /\ n.owner = r
      /\ Message("user_speech", t) \in Messages
      /\ [state |-> "running", owner |-> r] \in Views
  <2>1. row[t] \in Rows
    BY <1>1 DEF Inv, TypeOK
  <2> QED BY <1>1, <1>2, <2>1, RunningRow, SpeechMessage, RunningView
<1> HIDE DEF n
<1>4. (TypeOK /\ TurnKnown /\ WorkerHoldsTurn /\ ClosedRows /\ TaskPlaces
     /\ HangupProgress /\ StatesAgree /\ FreshView /\ PollView)'
  BY <1>1, <1>3
  DEF Inv, TypeOK, RequestPc, tasks, controls, TurnKnown, WorkerHoldsTurn,
      ClosedRows, TaskPlaces, HangupProgress, StatesAgree, FreshView, PollView
<1> QED BY <1>4 DEF Inv

\* The reply was generated and played out.
LEMMA PlayedKeeps ==
    ASSUME Inv, NEW r \in Requests, Played(r)
    PROVE  Inv'
<1>1. (TypeOK /\ TurnKnown /\ WorkerHoldsTurn /\ ClosedRows /\ TaskPlaces
     /\ HangupProgress /\ StatesAgree /\ FreshView /\ PollView)'
  BY DEF Inv, TypeOK, RequestPc, tasks, controls, durable, memory, Played, CanRun,
         TurnKnown, WorkerHoldsTurn, HangupProgress, TaskPlaces, ClosedRows,
         StatesAgree, FreshView, PollView
<1> QED BY <1>1 DEF Inv

\* Generation or speech failed or was cancelled.
LEMMA GenerationEndsKeeps ==
    ASSUME Inv, NEW r \in Requests,
           GenerationEnds(r)
    PROVE  Inv'
<1>1. PICK v \in {"failed", "cancelled"} : verdict' = [verdict EXCEPT ![r] = v]
  BY DEF GenerationEnds, Settle
<1>2. /\ pc[r] \in Working /\ serving
      /\ pc' = [pc EXCEPT ![r] = "finally"]
      /\ told' \in [Requests -> {"nothing", "ai_done", "recoverable", "conflict", "error"}]
      /\ UNCHANGED <<durable, memory, turnOf, textOf, seen, tasks, writer, controls>>
  BY DEF GenerationEnds, Settle, CanRun, Working, Inv, TypeOK
<1>3. (TypeOK /\ TurnKnown /\ WorkerHoldsTurn /\ ClosedRows /\ TaskPlaces
     /\ HangupProgress /\ StatesAgree /\ FreshView /\ PollView)'
  BY <1>1, <1>2
  DEF Inv, TypeOK, RequestPc, tasks, controls, durable, memory, TurnKnown,
      WorkerHoldsTurn, ClosedRows, TaskPlaces, HangupProgress, StatesAgree,
      FreshView, PollView
<1> QED BY <1>3 DEF Inv

\* The first check of record_completed_ai_speech claims the append.
LEMMA ClaimAppendKeeps ==
    ASSUME Inv, NEW r \in Requests, ClaimAppend(r)
    PROVE  Inv'
<1>1. (TypeOK /\ TurnKnown /\ WorkerHoldsTurn /\ ClosedRows /\ TaskPlaces
     /\ HangupProgress /\ StatesAgree /\ FreshView /\ PollView)'
  BY DEF Inv, TypeOK, TurnKnown, RequestPc, tasks, controls, durable, ClaimAppend,
         CanRun, WorkerHoldsTurn, HangupProgress, TaskPlaces, ClosedRows,
         StatesAgree, FreshView, PollView
<1> QED BY <1>1 DEF Inv

\* The first check refuses.
LEMMA ClaimRefusedKeeps ==
    ASSUME Inv, NEW r \in Requests, ClaimRefused(r)
    PROVE  Inv'
<1>1. (TypeOK /\ TurnKnown /\ WorkerHoldsTurn /\ ClosedRows /\ TaskPlaces
     /\ HangupProgress /\ StatesAgree /\ FreshView /\ PollView)'
  BY DEF Inv, TypeOK, RequestPc, tasks, controls, durable, memory, ClaimRefused,
         CanRun, Settle, TurnKnown, WorkerHoldsTurn, HangupProgress, TaskPlaces,
         ClosedRows, StatesAgree, FreshView, PollView
<1> QED BY <1>1 DEF Inv

\* The second check passes and the transaction is staged.
LEMMA StageAppendKeeps ==
    ASSUME Inv, NEW r \in Requests, StageAppend(r)
    PROVE  Inv'
<1>1. (TypeOK /\ TurnKnown /\ WorkerHoldsTurn /\ ClosedRows /\ TaskPlaces
     /\ HangupProgress /\ StatesAgree /\ FreshView /\ PollView)'
  BY DEF Inv, TypeOK, RequestPc, tasks, controls, durable, memory, StageAppend,
         CanRun, TurnKnown, WorkerHoldsTurn, HangupProgress, TaskPlaces, ClosedRows,
         StatesAgree, FreshView, PollView
<1> QED BY <1>1 DEF Inv

\* The assistant row and the completed state of its turn.
LEMMA AppendEffect ==
    ASSUME TypeOK, NEW t \in Turns, AppendAssistant(t)
    PROVE  /\ messages' \in Seq(Messages)
           /\ row' \in [Turns -> Rows]
           /\ row'[t].state = "completed" /\ row'[t].owner = None
           /\ row'[t].lease = "none"
           /\ \A u \in Turns : u # t => row'[u] = row[u]
<1>1. Len(messages) + 1 \in Nat /\ Message("ai_speech", t) \in Messages
  BY DEF TypeOK, Message, Messages
<1>2. /\ Closed(t, "completed") \in Rows /\ Closed(t, "completed").state = "completed"
      /\ Closed(t, "completed").owner = None /\ Closed(t, "completed").lease = "none"
  BY ClosedFields DEF TurnStates, TerminalStates
<1> DEFINE n == [Closed(t, "completed") EXCEPT !.assistant = Len(messages) + 1]
<1>3. /\ n \in Rows /\ n.state = "completed" /\ n.owner = None /\ n.lease = "none"
  BY <1>1, <1>2 DEF Rows
<1>4. /\ messages' = Append(messages, Message("ai_speech", t))
      /\ row' = [row EXCEPT ![t] = n]
  BY DEF AppendAssistant
<1> HIDE DEF n
<1> QED BY <1>1, <1>3, <1>4 DEF TypeOK

\* The commit gate closes the row of the committing stream only.
LEMMA CommitAppendKeeps ==
    ASSUME Inv, NEW r \in Requests,
           CommitAppend(r)
    PROVE  Inv'
<1> DEFINE t == turnOf[r]
<1>1. /\ pc[r] = "staged" /\ t \in Turns /\ row[t].state \in OpenStates
      /\ turnOwners[t] = r /\ serving /\ row[t].owner = r
  BY DEF CommitAppend, CanRun, Inv, TypeOK, TurnKnown, WorkerHoldsTurn, Working
<1>2. /\ messages' \in Seq(Messages)
      /\ row' \in [Turns -> Rows]
      /\ row'[t].state = "completed" /\ row'[t].owner = None
      /\ row'[t].lease = "none"
      /\ \A u \in Turns : u # t => row'[u] = row[u]
  BY <1>1, AppendEffect DEF CommitAppend, Inv
<1>3. /\ writer' = None /\ pendingAi' = pendingAi \ {t}
      /\ completedAi' = completedAi \cup {t}
      /\ turnStates' = [turnStates EXCEPT ![t] = "completed"]
      /\ seen' = [seen EXCEPT ![r] = [state |-> "completed", owner |-> None]]
      /\ verdict' = [verdict EXCEPT ![r] = "completed"]
      /\ pc' = [pc EXCEPT ![r] = "finally"]
      /\ told' = [told EXCEPT ![r] = "ai_done"]
      /\ UNCHANGED <<serving, ended, turnOwners, activeTasks, endRecorded, turnOf,
                     textOf, tasks, controls>>
  BY DEF CommitAppend, Settle, DropClaim
<1>4. [state |-> "completed", owner |-> None] \in Views
  BY DEF Views, TurnStates, TerminalStates
<1>5. \A q \in Requests : pc[q] \in Working /\ q # r => turnOf[q] # t
  BY <1>1 DEF Inv, WorkerHoldsTurn
<1>6. TypeOK'
  BY <1>1, <1>2, <1>3, <1>4, <1>5
  DEF Inv, TypeOK, RequestPc, tasks, controls
<1>7. TurnKnown'
  BY <1>1, <1>2, <1>3, <1>4, <1>5
  DEF Inv, TurnKnown, tasks
<1>8. WorkerHoldsTurn'
  BY <1>1, <1>2, <1>3, <1>4, <1>5
  DEF Inv, WorkerHoldsTurn, TypeOK, TurnKnown
<1>9. ClosedRows'
  BY <1>1, <1>2, <1>3, <1>4, <1>5
  DEF Inv, ClosedRows
<1>10. TaskPlaces'
  BY <1>1, <1>2, <1>3, <1>4, <1>5
  DEF Inv, TaskPlaces, tasks
<1>11. HangupProgress'
  BY <1>1, <1>2, <1>3, <1>4, <1>5
  DEF Inv, HangupProgress, controls
<1>12. StatesAgree'
  BY <1>1, <1>2, <1>3, <1>4, <1>5
  DEF Inv, StatesAgree
<1>13. FreshView'
  BY <1>1, <1>2, <1>3, <1>4, <1>5, NoneAssumption
  DEF Inv, FreshView, TypeOK, TurnKnown
<1>14. PollView'
  BY <1>1, <1>2, <1>3, <1>4, <1>5
  DEF Inv, PollView, TurnKnown
<1> QED BY <1>6, <1>7, <1>8, <1>9, <1>10, <1>11, <1>12, <1>13, <1>14 DEF Inv

\* Every other way out of the gate rolls back and forgets the view.
LEMMA AppendRolledBackKeeps ==
    ASSUME Inv, NEW r \in Requests,
           AppendRolledBack(r)
    PROVE  Inv'
<1>1. PICK v \in {"failed", "cancelled"} : verdict' = [verdict EXCEPT ![r] = v]
  BY DEF AppendRolledBack, Settle
<1>2. /\ pc[r] = "staged" /\ serving
      /\ pc' = [pc EXCEPT ![r] = "finally"]
      /\ writer' = None /\ pendingAi' = pendingAi \ {turnOf[r]}
      /\ seen' = [seen EXCEPT ![r] = None]
      /\ UNCHANGED <<durable, serving, ended, turnStates, turnOwners, activeTasks,
                     completedAi, endRecorded, turnOf, textOf, told, tasks, controls>>
  BY DEF AppendRolledBack, Settle, CanRun, DropClaim
<1>3. (TypeOK /\ TurnKnown /\ WorkerHoldsTurn /\ ClosedRows /\ TaskPlaces
     /\ HangupProgress /\ StatesAgree /\ FreshView /\ PollView)'
  BY <1>1, <1>2
  DEF Inv, TypeOK, RequestPc, tasks, controls, durable, TurnKnown, WorkerHoldsTurn,
      ClosedRows, TaskPlaces, HangupProgress, StatesAgree, FreshView, PollView
<1> QED BY <1>3 DEF Inv

\* finish_call_turn passes its checks only on a row that is really open and its own.
LEMMA FinishFindsOpenRow ==
    ASSUME FreshView, NEW r \in Requests, pc[r] = "finally", CanFinish(r)
    PROVE  row[turnOf[r]].state \in OpenStates /\ row[turnOf[r]].owner = r
<1>1. CASE seen[r] = None
  BY <1>1 DEF CanFinish, LoadedAs, Loaded, View
<1>2. CASE seen[r] # None
  BY <1>2 DEF CanFinish, LoadedAs, Loaded, Owns, FreshView
<1> QED BY <1>1, <1>2

\* finish_call_turn closes a row only if it is open and its own.
LEMMA FinishKeeps ==
    ASSUME Inv, NEW r \in Requests,
           Finish(r)
    PROVE  Inv'
<1> DEFINE t == turnOf[r]
<1>1. /\ pc[r] = "finally" /\ serving /\ t \in Turns /\ row[t].state # "absent"
      /\ pc' = [pc EXCEPT ![r] = "unregister"]
      /\ UNCHANGED <<messages, serving, ended, turnOwners, activeTasks, pendingAi,
                     completedAi, endRecorded, turnOf, textOf, verdict, told, tasks,
                     writer, controls>>
  BY DEF Finish, CanRun, Inv, TurnKnown, Cleanup
<1>2. CASE ~CanFinish(r)
  <2>1. UNCHANGED <<row, turnStates, seen>>
    BY <1>2 DEF Finish
  <2>2. (TypeOK /\ TurnKnown /\ WorkerHoldsTurn /\ ClosedRows /\ TaskPlaces
       /\ HangupProgress /\ StatesAgree /\ FreshView /\ PollView)'
    BY <1>1, <2>1
    DEF Inv, TypeOK, RequestPc, tasks, controls, TurnKnown, WorkerHoldsTurn,
        ClosedRows, TaskPlaces, HangupProgress, StatesAgree, FreshView, PollView
  <2> QED BY <2>2 DEF Inv
<1>3. CASE CanFinish(r)
  <2>1. row[t].state \in OpenStates /\ row[t].owner = r
    BY <1>1, <1>3, FinishFindsOpenRow DEF Inv
  <2>2. /\ row' = [row EXCEPT ![t] = Closed(t, verdict[r])]
        /\ turnStates' = [turnStates EXCEPT ![t] = verdict[r]]
        /\ seen' = [seen EXCEPT ![r] = [state |-> verdict[r], owner |-> None]]
    BY <1>3 DEF Finish
  <2>3. verdict[r] \in TerminalStates
    BY DEF Inv, TypeOK
  <2>4. /\ Closed(t, verdict[r]) \in Rows /\ Closed(t, verdict[r]).state = verdict[r]
        /\ Closed(t, verdict[r]).owner = None /\ Closed(t, verdict[r]).lease = "none"
    BY <1>1, <2>3, ClosedFields DEF Inv, TurnStates
  <2>5. [state |-> verdict[r], owner |-> None] \in Views
    BY <2>3 DEF Views, TurnStates
  <2>6. \A q \in Requests : pc[q] \in Working \cup {"finally"} /\ q # r
                            /\ turnOwners[turnOf[q]] = q => turnOf[q] # t
    BY <1>3 DEF CanFinish, Owns
  <2>7. (TypeOK /\ TurnKnown /\ WorkerHoldsTurn /\ ClosedRows /\ TaskPlaces
       /\ HangupProgress /\ StatesAgree /\ FreshView /\ PollView)'
    BY <1>1, <2>1, <2>2, <2>3, <2>4, <2>5, <2>6
    DEF Inv, TypeOK, RequestPc, tasks, controls, TurnKnown, WorkerHoldsTurn,
        ClosedRows, TaskPlaces, HangupProgress, StatesAgree, FreshView, PollView
  <2> QED BY <2>7 DEF Inv
<1> QED BY <1>2, <1>3

\* unregister_active_turn.
LEMMA UnregisterKeeps ==
    ASSUME Inv, NEW r \in Requests, Unregister(r)
    PROVE  Inv'
<1>1. (TypeOK /\ TurnKnown /\ WorkerHoldsTurn /\ ClosedRows /\ TaskPlaces
     /\ HangupProgress /\ StatesAgree /\ FreshView /\ PollView)'
  BY NoneAssumption
  DEF Inv, TypeOK, RequestPc, controls, durable, Unregister, CanRun, Owns,
      TurnKnown, WorkerHoldsTurn, HangupProgress, TaskPlaces, ClosedRows,
      StatesAgree, FreshView, PollView
<1> QED BY <1>1 DEF Inv

\* The finally block ends early.
LEMMA CleanupAbortedKeeps ==
    ASSUME Inv, NEW r \in Requests, CleanupAborted(r)
    PROVE  Inv'
<1>1. (TypeOK /\ TurnKnown /\ WorkerHoldsTurn /\ ClosedRows /\ TaskPlaces
     /\ HangupProgress /\ StatesAgree /\ FreshView /\ PollView)'
  BY DEF Inv, TypeOK, RequestPc, controls, durable, memory, CleanupAborted,
         TurnKnown, WorkerHoldsTurn, HangupProgress, TaskPlaces, ClosedRows,
         StatesAgree, FreshView, PollView
<1> QED BY <1>1 DEF Inv

\* A cancellation reaches a working stream.
LEMMA CancelDeliveredKeeps ==
    ASSUME Inv, NEW r \in Requests,
           CancelDelivered(r)
    PROVE  Inv'
<1>1. /\ pc[r] \in Working /\ serving
      /\ pc' = [pc EXCEPT ![r] = "finally"]
      /\ verdict' = [verdict EXCEPT ![r] = "cancelled"]
      /\ cancelling' = cancelling \ {r}
      /\ UNCHANGED <<durable, serving, ended, turnStates, turnOwners, activeTasks,
                     completedAi, endRecorded, turnOf, textOf, told, zombies, recoveries,
                     controls>>
  BY DEF CancelDelivered, Settle
<1>2. /\ seen' = [seen EXCEPT ![r] = IF pc[r] \in {"pending", "staged"} THEN None
                                     ELSE seen[r]]
      /\ writer' \in Requests \cup {None}
      /\ pendingAi' \subseteq Turns
  BY DEF CancelDelivered, LeaveWork, Inv, TypeOK
<1>3. (TypeOK /\ TurnKnown /\ WorkerHoldsTurn /\ ClosedRows /\ TaskPlaces
     /\ HangupProgress /\ StatesAgree /\ FreshView /\ PollView)'
  BY <1>1, <1>2
  DEF Inv, TypeOK, RequestPc, controls, durable, TurnKnown, WorkerHoldsTurn,
      ClosedRows, TaskPlaces, HangupProgress, StatesAgree, FreshView, PollView
<1> QED BY <1>3 DEF Inv

\* A client leaves; a commit in flight may or may not take effect.
LEMMA DisconnectKeeps ==
    ASSUME Inv, NEW r \in Requests,
           Disconnect(r)
    PROVE  Inv'
<1> DEFINE t == turnOf[r]
<1>1. /\ pc[r] \in Working /\ serving /\ t \in Turns /\ row[t].state \in OpenStates
      /\ row[t].owner = r /\ turnOwners[t] = r
  BY DEF Disconnect, CanRun, Inv, TurnKnown, WorkerHoldsTurn
<1>2. /\ messages' \in Seq(Messages) /\ row' \in [Turns -> Rows]
      /\ \A u \in Turns : u # t => row'[u] = row[u]
      /\ \/ row'[t].state \in OpenStates /\ row'[t].owner = r
         \/ /\ pc[r] = "staged" /\ row'[t].state = "completed"
            /\ row'[t].owner = None /\ row'[t].lease = "none"
  <2>1. CASE UNCHANGED durable
    BY <1>1, <2>1 DEF Inv, TypeOK, durable
  <2>2. CASE /\ messages' = Append(messages, Message("user_speech", t))
             /\ row' = [row EXCEPT ![t].state = "running", ![t].lease = "live",
                                   ![t].user = Len(messages) + 1]
    <3> DEFINE n == [row[t] EXCEPT !.state = "running", !.lease = "live",
                                   !.user = Len(messages) + 1]
    <3>1. Len(messages) + 1 \in Nat /\ Message("user_speech", t) \in Messages
      BY <1>1, SpeechMessage DEF Inv, TypeOK
    <3>2. n \in Rows /\ n.state = "running" /\ n.owner = r
      <4>1. row[t] \in Rows
        BY <1>1 DEF Inv, TypeOK
      <4> QED BY <1>1, <3>1, <4>1, RunningRow
    <3>3. row' = [row EXCEPT ![t] = n]
      BY <1>1, <2>2 DEF Inv, TypeOK
    <3> HIDE DEF n
    <3> QED BY <1>1, <2>2, <3>1, <3>2, <3>3 DEF Inv, TypeOK, OpenStates
  <2>3. CASE pc[r] = "staged" /\ AppendAssistant(t)
    BY <1>1, <2>3, AppendEffect DEF Inv
  <2> QED BY <2>1, <2>2, <2>3 DEF Disconnect, CommitInFlight
<1>3. PICK kept \in BOOLEAN : LeaveWork(r, kept)
  BY DEF Disconnect
<1>4. /\ seen' = [seen EXCEPT ![r] = IF pc[r] \in {"pending", "staged"} THEN None
                                     ELSE seen[r]]
      /\ writer' \in Requests \cup {None}
      /\ pendingAi' \subseteq Turns
  BY <1>3 DEF LeaveWork, Inv, TypeOK
<1>5. PICK p \in {"finally", "done"} :
         /\ pc' = [pc EXCEPT ![r] = p]
         /\ zombies' \subseteq zombies \cup {r}
         /\ r \in zombies' => p = "finally"
  BY <1>1 DEF Disconnect, Settle, Inv, TaskPlaces, Working, Cleanup
<1>6. verdict' \in [Requests -> TerminalStates]
  BY DEF Disconnect, Settle, Inv, TypeOK, TerminalStates
<1>7. UNCHANGED <<serving, ended, turnStates, turnOwners, activeTasks, completedAi,
                  endRecorded, turnOf, textOf, told, cancelling, recoveries, controls>>
  BY DEF Disconnect
<1>8. \A q \in Requests : turnOwners[turnOf[q]] = q /\ q # r => turnOf[q] # t
  BY <1>1
<1>9. TypeOK'
  BY <1>1, <1>2, <1>4, <1>5, <1>6, <1>7, <1>8
  DEF Inv, TypeOK, RequestPc, controls
<1>10. TurnKnown'
  BY <1>1, <1>2, <1>4, <1>5, <1>6, <1>7, <1>8
  DEF Inv, TurnKnown
<1>11. WorkerHoldsTurn'
  BY <1>1, <1>2, <1>4, <1>5, <1>6, <1>7, <1>8
  DEF Inv, WorkerHoldsTurn, TypeOK, TurnKnown
<1>12. ClosedRows'
  BY <1>1, <1>2, <1>4, <1>5, <1>6, <1>7, <1>8
  DEF Inv, ClosedRows
<1>13. TaskPlaces'
  BY <1>1, <1>2, <1>4, <1>5, <1>6, <1>7, <1>8
  DEF Inv, TaskPlaces, TypeOK
<1>14. (HangupProgress /\ StatesAgree /\ FreshView /\ PollView)'
  BY <1>1, <1>2, <1>4, <1>5, <1>6, <1>7, <1>8, NoneAssumption
  DEF Inv, HangupProgress, TypeOK, controls, StatesAgree, FreshView, TurnKnown,
      WorkerHoldsTurn, PollView
<1> QED BY <1>9, <1>10, <1>11, <1>12, <1>13, <1>14 DEF Inv

\* begin_end publishes the end: the set it gathers holds every working stream.
LEMMA PublishEndKeeps ==
    ASSUME Inv, NEW e \in Enders, NEW from, NEW to, 
           <<from, to>> \in {<<"idle", "gather">>, <<"backend", "gatherAgain">>}, PublishEnd(e, from, to)
    PROVE  Inv'
<1>1. (TypeOK /\ TurnKnown /\ WorkerHoldsTurn /\ ClosedRows /\ TaskPlaces
     /\ HangupProgress /\ StatesAgree /\ FreshView /\ PollView)'
  BY DEF Inv, TypeOK, durable, streams, Controllers, ControlPc, PublishEnd, Live,
         TaskDone, TurnKnown, WorkerHoldsTurn, HangupProgress, TaskPlaces,
         ClosedRows, StatesAgree, FreshView, PollView
<1> QED BY <1>1 DEF Inv

\* begin_end after the gather: no gathered stream works any more.
LEMMA MarkEndedKeeps ==
    ASSUME Inv, NEW e \in Enders, NEW from, NEW to, 
           <<from, to>> \in {<<"gather", "backend">>, <<"gatherAgain", "commit">>}, MarkEnded(e, from, to)
    PROVE  Inv'
<1>1. TypeOK'
  BY DEF Inv, TypeOK, tasks, durable, streams, ControlPc, MarkEnded, Live,
         GatherDone, TaskDone
<1>2. (TurnKnown /\ WorkerHoldsTurn /\ ClosedRows /\ TaskPlaces)'
  BY DEF Inv, TurnKnown, tasks, durable, streams, MarkEnded, Live, GatherDone,
         TaskDone, WorkerHoldsTurn, HangupProgress, TaskPlaces, ClosedRows
<1>3. (HangupProgress /\ StatesAgree /\ FreshView /\ PollView)'
  BY NoneAssumption
  DEF Inv, HangupProgress, durable, streams, StatesAgree, TaskPlaces, TurnKnown,
      MarkEnded, Live, GatherDone, TaskDone, FreshView, PollView
<1> QED BY <1>1, <1>2, <1>3 DEF Inv

\* The hangup handler raises.
LEMMA EndRaisedKeeps ==
    ASSUME Inv, NEW e \in Enders, EndRaised(e)
    PROVE  Inv'
<1>1. (TypeOK /\ TurnKnown /\ WorkerHoldsTurn /\ ClosedRows /\ TaskPlaces
     /\ HangupProgress /\ StatesAgree /\ FreshView /\ PollView)'
  BY DEF Inv, TypeOK, tasks, durable, memory, streams, Controllers, ControlPc,
         EndRaised, TurnKnown, WorkerHoldsTurn, HangupProgress, TaskPlaces,
         ClosedRows, StatesAgree, FreshView, PollView
<1> QED BY <1>1 DEF Inv

\* end_call closes rows that no stream in memory owns.
LEMMA CommitEndKeeps ==
    ASSUME Inv, NEW e \in Enders,
           CommitEnd(e)
    PROVE  Inv'
<1>1. /\ ctl[e] = "commit" /\ e \in Controllers /\ ended
      /\ \A r \in Requests : pc[r] \notin Working
      /\ \A t \in Turns : row[t].state \in OpenStates => turnOwners[t] = None
      /\ ctl' = [ctl EXCEPT ![e] = "done"]
      /\ UNCHANGED <<serving, ended, turnStates, turnOwners, activeTasks, pendingAi,
                     completedAi, streams, tasks, writer, gathering>>
  BY DEF CommitEnd, Inv, HangupProgress, Controllers
<1>2. CASE UNCHANGED <<durable, endRecorded>>
  <2>1. (TypeOK /\ TurnKnown /\ WorkerHoldsTurn /\ ClosedRows /\ TaskPlaces
       /\ HangupProgress /\ StatesAgree /\ FreshView /\ PollView)'
    BY <1>1, <1>2
    DEF Inv, TypeOK, tasks, durable, streams, ControlPc, TurnKnown, WorkerHoldsTurn,
        ClosedRows, TaskPlaces, HangupProgress, StatesAgree, FreshView, PollView
  <2> QED BY <2>1 DEF Inv
<1>3. CASE /\ row' = CancelOpenRows
           /\ messages' = Append(messages, Message("call_end", None))
           /\ endRecorded' = TRUE
  <2>1. \A t \in Turns : /\ Closed(t, "cancelled") \in Rows
                         /\ Closed(t, "cancelled").state = "cancelled"
                         /\ Closed(t, "cancelled").owner = None
                         /\ Closed(t, "cancelled").lease = "none"
    BY ClosedFields DEF Inv, TurnStates, TerminalStates
  <2>2. messages' \in Seq(Messages)
    BY <1>3 DEF Inv, TypeOK, Message, Messages
  <2>3. /\ row' \in [Turns -> Rows]
        /\ \A t \in Turns :
              IF row[t].state \in OpenStates
              THEN /\ row'[t].state = "cancelled" /\ row'[t].owner = None
                   /\ row'[t].lease = "none"
              ELSE row'[t] = row[t]
    BY <1>3, <2>1 DEF CancelOpenRows, Inv, TypeOK
  <2>4. (TypeOK /\ TurnKnown /\ WorkerHoldsTurn /\ ClosedRows /\ TaskPlaces
       /\ HangupProgress /\ StatesAgree /\ FreshView /\ PollView)'
    BY <1>1, <1>3, <2>2, <2>3, NoneAssumption, ControlAssumption
    DEF Inv, TypeOK, RequestPc, tasks, streams, ControlPc, TurnKnown,
        WorkerHoldsTurn, ClosedRows, TaskPlaces, HangupProgress, StatesAgree,
        FreshView, PollView
  <2> QED BY <2>4 DEF Inv
<1> QED BY <1>2, <1>3 DEF CommitEnd

\* cancel_active_turns drops only finished tasks from the registry.
LEMMA InterruptKeeps ==
    ASSUME Inv, NEW i \in Interrupters,
           Interrupt(i)
    PROVE  Inv'
<1>1. i \in Controllers /\ i \notin Enders
  BY ControlAssumption DEF Controllers
<1>2. CASE /\ cancelling' = cancelling \cup Live(activeTasks)
           /\ gathering' = [gathering EXCEPT ![i] = activeTasks]
           /\ ctl' = [ctl EXCEPT ![i] = "gather"]
           /\ UNCHANGED <<durable, memory, streams, zombies, recoveries, writer>>
  <2>1. (TypeOK /\ TurnKnown /\ WorkerHoldsTurn /\ ClosedRows /\ TaskPlaces
       /\ HangupProgress /\ StatesAgree /\ FreshView /\ PollView)'
    BY <1>1, <1>2
    DEF Inv, TypeOK, durable, memory, streams, Live, ControlPc, TurnKnown,
        WorkerHoldsTurn, ClosedRows, TaskPlaces, HangupProgress, StatesAgree,
        FreshView, PollView
  <2> QED BY <2>1 DEF Inv
<1>3. CASE /\ GatherDone(i)
           /\ activeTasks' = activeTasks \ gathering[i]
           /\ gathering' = [gathering EXCEPT ![i] = {}]
           /\ ctl' = [ctl EXCEPT ![i] = "done"]
           /\ UNCHANGED <<durable, serving, ended, turnStates, turnOwners, pendingAi,
                          completedAi, endRecorded, streams, tasks, writer>>
  <2>1. \A r \in Requests : pc[r] \in Working => r \notin gathering[i]
    BY <1>3 DEF GatherDone, Live, TaskDone, Inv, TaskPlaces, Working, Cleanup
  <2>2. (TypeOK /\ TurnKnown /\ WorkerHoldsTurn /\ ClosedRows /\ TaskPlaces
       /\ HangupProgress /\ StatesAgree /\ FreshView /\ PollView)'
    BY <1>1, <1>3, <2>1
    DEF Inv, TypeOK, tasks, durable, streams, ControlPc, TurnKnown, WorkerHoldsTurn,
        ClosedRows, TaskPlaces, HangupProgress, StatesAgree, FreshView, PollView
  <2> QED BY <2>2 DEF Inv
<1> QED BY <1>2, <1>3 DEF Interrupt, CancelActiveTurns, TurnsCancelled

\* Only open rows have leases.
LEMMA LeaseExpiresKeeps ==
    ASSUME Inv, NEW t \in Turns,
           LeaseExpires(t)
    PROVE  Inv'
<1> DEFINE n == [row[t] EXCEPT !.lease = "expired"]
<1>1. /\ row[t].lease = "live" /\ row' = [row EXCEPT ![t] = n]
      /\ UNCHANGED <<messages, memory, streams, tasks, writer, controls>>
  BY DEF LeaseExpires
<1>2. /\ n \in Rows /\ n.state = row[t].state /\ n.owner = row[t].owner
      /\ row[t].state \in OpenStates
  <2>1. row[t] \in Rows
    BY DEF Inv, TypeOK
  <2>2. row[t].state \in OpenStates
    BY <1>1, <2>1 DEF Inv, ClosedRows, Rows
  <2> QED BY <2>1, <2>2, ExpiredRecord
<1> HIDE DEF n
<1>3. (TypeOK /\ TurnKnown /\ WorkerHoldsTurn /\ ClosedRows /\ TaskPlaces
     /\ HangupProgress /\ StatesAgree /\ FreshView /\ PollView)'
  BY <1>1, <1>2
  DEF Inv, TypeOK, tasks, controls, memory, streams, TurnKnown, WorkerHoldsTurn,
      ClosedRows, TaskPlaces, HangupProgress, StatesAgree, FreshView, PollView
<1> QED BY <1>3 DEF Inv

\* reconcile_stale_call_turns, with the call in memory or after a restart.
LEMMA ReconcileKeeps ==
    ASSUME Inv, NEW t \in Turns, Reconcile(t)
    PROVE  Inv'
<1>1. row[t].state \in OpenStates
  BY DEF Reconcile
<1>2. UNCHANGED <<messages, serving, ended, activeTasks, pendingAi, completedAi,
                  endRecorded, streams, tasks, writer, controls>>
  BY DEF Reconcile
<1>3. CASE serving
  <2>1. PICK result \in TurnStates : TerminalizeStale(t, View(t), result)
    BY <1>3 DEF Reconcile
  <2>2. /\ View(t) \in Views /\ View(t).state = row[t].state /\ row[t].state # "absent"
    BY <1>1 DEF Inv, TypeOK, View, Views, Rows, OpenStates
  <2>3. /\ turnStates' = [turnStates EXCEPT ![t] = result]
        /\ row' \in [Turns -> Rows]
        /\ turnOwners' \in [Turns -> Requests \cup {None}]
        /\ \A u \in Turns : u # t => row'[u] = row[u] /\ turnOwners'[u] = turnOwners[u]
        /\ \/ /\ row'[t] = row[t] /\ turnOwners'[t] = turnOwners[t]
              /\ result \in TerminalStates => row[t].state \in TerminalStates
           \/ /\ row[t].state \in OpenStates /\ result = "failed"
              /\ row'[t].state = "failed" /\ row'[t].owner = None
              /\ row'[t].lease = "none" /\ turnOwners'[t] = None
              /\ \A q \in Requests : pc[q] \in Working => turnOf[q] # t
    BY <2>1, <2>2, TerminalizeEffect DEF Inv
  <2>4. TypeOK'
    BY <1>1, <1>2, <2>3
    DEF Inv, TypeOK, tasks, controls, streams
  <2>5. TurnKnown'
    BY <1>1, <1>2, <2>3
    DEF Inv, TurnKnown, tasks, streams
  <2>6. WorkerHoldsTurn'
    BY <1>1, <1>2, <2>3
    DEF Inv, WorkerHoldsTurn, TurnKnown, streams
  <2>7. ClosedRows'
    BY <1>1, <1>2, <2>3
    DEF Inv, ClosedRows
  <2>8. TaskPlaces'
    BY <1>1, <1>2, <2>3
    DEF Inv, TaskPlaces, tasks, streams
  <2>9. (HangupProgress /\ StatesAgree /\ FreshView /\ PollView)'
    BY <1>1, <1>2, <2>3, NoneAssumption
    DEF Inv, HangupProgress, controls, streams, StatesAgree, FreshView, TurnKnown,
        PollView
  <2> QED BY <2>4, <2>5, <2>6, <2>7, <2>8, <2>9 DEF Inv
<1>4. CASE ~serving
  <2>1. /\ row' = [row EXCEPT ![t] = Closed(t, "failed")]
        /\ turnStates' = turnStates /\ turnOwners' = turnOwners
    BY <1>4 DEF Reconcile
  <2>2. /\ Closed(t, "failed") \in Rows
        /\ Closed(t, "failed").state = "failed"
        /\ Closed(t, "failed").owner = None
        /\ Closed(t, "failed").lease = "none"
    BY ClosedFields DEF Inv, TurnStates, TerminalStates
  <2>3. \A r \in Requests : pc[r] \in {"idle", "done"}
    BY <1>4 DEF Inv, TaskPlaces
  <2>4. TypeOK'
    BY <1>1, <1>2, <2>1, <2>2, <2>3
    DEF Inv, TypeOK, tasks, controls, streams
  <2>5. (TurnKnown /\ WorkerHoldsTurn /\ ClosedRows /\ TaskPlaces)'
    BY <1>1, <1>2, <2>1, <2>2, <2>3
    DEF Inv, TurnKnown, tasks, streams, WorkerHoldsTurn, ClosedRows, TaskPlaces
  <2>6. (HangupProgress /\ StatesAgree /\ FreshView /\ PollView)'
    BY <1>1, <1>2, <2>1, <2>2, <2>3
    DEF Inv, HangupProgress, controls, streams, StatesAgree, FreshView, PollView
  <2> QED BY <2>4, <2>5, <2>6 DEF Inv
<1> QED BY <1>3, <1>4

\* A crash forgets every stream and owner.
LEMMA CrashKeeps ==
    ASSUME Inv, Crash
    PROVE  Inv'
<1>1. \A r \in Requests : pc'[r] \in {"idle", "done"} /\ (pc'[r] = "idle" => pc[r] = "idle")
  BY DEF Crash
<1>2. pc' \in [Requests -> RequestPc]
  BY <1>1 DEF Crash, RequestPc
<1>3. TypeOK'
  BY <1>2 DEF Inv, TypeOK, durable, ControlPc, Crash
<1>4. (TurnKnown /\ WorkerHoldsTurn /\ ClosedRows)'
  BY <1>1 DEF Inv, TypeOK, durable, Crash, TurnKnown, WorkerHoldsTurn, ClosedRows
<1>5. (TaskPlaces /\ HangupProgress)'
  BY <1>1 DEF Inv, durable, Controllers, Crash, HangupProgress, TaskPlaces
<1>6. (StatesAgree /\ FreshView /\ PollView)'
  BY <1>1 DEF Inv, durable, Crash, StatesAgree, FreshView, PollView
<1> QED BY <1>3, <1>4, <1>5, <1>6 DEF Inv

HIDE DEF Working, Cleanup, Polling, OpenStates, TerminalStates, TurnStates

\* Inv is an invariant of every behaviour of the web server's call turns.
THEOREM InvHolds == Spec => []Inv
<1>1. Init => Inv
  <2> SUFFICES ASSUME Init PROVE Inv
    OBVIOUS
  <2>1. /\ row \in [Turns -> Rows]
        /\ \A t \in Turns : /\ row[t].state = "absent" /\ row[t].owner = None
                            /\ row[t].lease = "none"
    BY DEF Init, AbsentRow, Rows, Leases
  <2>2. messages \in Seq(Messages)
    BY StartIsMessage DEF Init
  <2>3. TypeOK
    BY <2>1, <2>2 DEF Init, TypeOK, RequestPc, ControlPc, TerminalStates
  <2>4. (TurnKnown /\ WorkerHoldsTurn /\ ClosedRows /\ TaskPlaces /\ HangupProgress
         /\ StatesAgree /\ FreshView /\ PollView)
    BY <2>1 DEF Init, TurnKnown, WorkerHoldsTurn, ClosedRows, TaskPlaces, HangupProgress,
                StatesAgree, FreshView, PollView, Working, Cleanup, Polling, OpenStates,
                Controllers
  <2> QED BY <2>3, <2>4 DEF Inv
<1>2. Inv /\ [Next]_vars => Inv'
  <2> SUFFICES ASSUME Inv, [Next]_vars PROVE Inv'
    OBVIOUS
  <2>1. CASE UNCHANGED vars
    BY <2>1 DEF vars, durable, memory, streams, tasks, controls, Inv, TypeOK, TurnKnown, WorkerHoldsTurn, ClosedRows, TaskPlaces, HangupProgress, StatesAgree, FreshView, PollView
  <2>2. ASSUME NEW r \in Requests, Reserve(r) PROVE Inv'
    BY <2>2, ReserveRejectedKeeps, ReserveCreatedKeeps, ReserveFailedKeeps,
       ReserveExistingKeeps DEF Reserve
  <2>3. ASSUME NEW r \in Requests, Owner(r) PROVE Inv'
    BY <2>3, RecordUserKeeps, PlayedKeeps, GenerationEndsKeeps,
       ClaimAppendKeeps, ClaimRefusedKeeps, StageAppendKeeps,
       CommitAppendKeeps, AppendRolledBackKeeps, FinishKeeps, UnregisterKeeps,
       CleanupAbortedKeeps, CancelDeliveredKeeps DEF Owner
  <2>4. ASSUME NEW r \in Requests,
               Duplicate(r) \/ Recover(r) \/ Abandon(r) \/ Disconnect(r)
        PROVE  Inv'
    BY <2>4, StatusReadKeeps, StatusApplyKeeps, RecoverKeeps, AbandonKeeps,
       DisconnectKeeps DEF Duplicate
  <2>5. ASSUME NEW e \in Enders, Hangup(e) PROVE Inv'
    BY <2>5, PublishEndKeeps, MarkEndedKeeps, EndRaisedKeeps, CommitEndKeeps
    DEF Hangup, BeginEnd, EndAgain
  <2>6. ASSUME NEW t \in Turns, LeaseExpires(t) \/ Reconcile(t) PROVE Inv'
    BY <2>6, LeaseExpiresKeeps, ReconcileKeeps
  <2> QED BY <2>1, <2>2, <2>3, <2>4, <2>5, <2>6, InterruptKeeps, CrashKeeps DEF Next
<1> QED BY <1>1, <1>2, PTL DEF Spec

\* No step changes a row in a terminal state.
LEMMA FinalStep ==
    ASSUME Inv, [Next]_vars, NEW t \in Turns, row[t].state \in TerminalStates
    PROVE  row'[t] = row[t]
<1> USE DEF OpenStates, TerminalStates
<1>1. ASSUME NEW r \in Requests, pc[r] \in Working PROVE turnOf[r] # t
  BY <1>1 DEF Inv, WorkerHoldsTurn
<1>2. ASSUME NEW u \in Turns, NEW view, NEW result, TerminalizeStale(u, view, result)
      PROVE  row'[t] = row[t]
  BY <1>2 DEF Inv, TypeOK, TerminalizeStale, StaleUpdateMatches
<1>3. CASE UNCHANGED vars
  BY <1>3 DEF vars, durable
<1>4. ASSUME NEW r \in Requests, Reserve(r) PROVE row'[t] = row[t]
  BY <1>2, <1>4 DEF Reserve, ReserveRejected, ReserveCreated, ReserveFailed,
                    ReserveExisting, Inv, TypeOK, durable
<1>5. ASSUME NEW r \in Requests, Owner(r) PROVE row'[t] = row[t]
  <2>1. CASE Finish(r)
    <3>1. CASE CanFinish(r)
      BY <2>1, <3>1, FinishFindsOpenRow DEF Finish, Inv, TypeOK
    <3>2. CASE ~CanFinish(r)
      BY <2>1, <3>2 DEF Finish
    <3> QED BY <3>1, <3>2
  <2>2. CASE RecordUser(r) \/ CommitAppend(r)
    BY <1>1, <2>2 DEF RecordUser, CommitAppend, AppendAssistant, Working, Inv, TypeOK
  <2>3. CASE ~Finish(r) /\ ~RecordUser(r) /\ ~CommitAppend(r)
    BY <1>5, <2>3 DEF Owner, Played, GenerationEnds, ClaimAppend,
         ClaimRefused, StageAppend, AppendRolledBack, Unregister,
         CleanupAborted, CancelDelivered, durable
  <2> QED BY <2>1, <2>2, <2>3
<1>6. ASSUME NEW r \in Requests, Duplicate(r) \/ Abandon(r) PROVE row'[t] = row[t]
  <2>1. CASE StatusApply(r)
    <3>1. turnOf[r] \in Turns
      BY <2>1 DEF StatusApply, Inv, TurnKnown, Polling
    <3> QED BY <1>2, <2>1, <3>1 DEF StatusApply
  <2> QED BY <1>6, <2>1 DEF Duplicate, StatusRead, Abandon, durable
<1>7. ASSUME NEW r \in Requests, Recover(r) PROVE row'[t] = row[t]
  BY <1>7 DEF Recover, Inv, TypeOK
<1>8. ASSUME NEW r \in Requests, Disconnect(r) PROVE row'[t] = row[t]
  BY <1>1, <1>8 DEF Disconnect, CommitInFlight, AppendAssistant, durable, Inv, TypeOK
<1>9. ASSUME NEW e \in Enders, Hangup(e) PROVE row'[t] = row[t]
  BY <1>9 DEF Hangup, BeginEnd, EndAgain, EndRaised, PublishEnd, MarkEnded, CommitEnd,
              CancelOpenRows, durable
<1>10. ASSUME NEW i \in Interrupters, Interrupt(i) PROVE row'[t] = row[t]
  BY <1>10 DEF Interrupt, CancelActiveTurns, TurnsCancelled, durable
<1>11. ASSUME NEW u \in Turns, LeaseExpires(u) \/ Reconcile(u) PROVE row'[t] = row[t]
  BY <1>2, <1>11 DEF LeaseExpires, Reconcile, Inv, TypeOK, ClosedRows
<1>12. CASE Crash
  BY <1>12 DEF Crash, durable
<1> QED BY <1>3, <1>4, <1>5, <1>6, <1>7, <1>8, <1>9, <1>10, <1>11, <1>12 DEF Next

\* Every reachable state is well typed.
THEOREM TypeCorrect == Spec => []TypeOK
BY InvHolds, PTL DEF Inv

\* No duplicate, reconciliation, lease, hangup or recovery takes a turn away from
\* a stream that is still working on it (_turn_owner_is_live, begin_end).
THEOREM WorkersHoldTheirTurns == Spec => []WorkerHoldsTurn
BY InvHolds, PTL DEF Inv

\* A durable terminal state is final: every UPDATE of call_turns is conditioned,
\* in SQL or through the owner's view, on the row still being open.
THEOREM TerminalStatesAreFinal == Spec => TerminalIsFinal
<1>1. Inv /\ [Next]_vars =>
        [\A t \in Turns : row[t].state \in TerminalStates => row'[t] = row[t]]_vars
  BY FinalStep
<1> QED BY <1>1, InvHolds, PTL DEF Spec, TerminalIsFinal
-----------------------------------------------------------------------------
(***************************************************************************)
(* What the call leaves in the database: thread, rows and answers agree,   *)
(* and a hangup is final.  The proofs go through the things a step of the  *)
(* web server can do to the records.  Which of them happened is read off   *)
(* the code once (EveryStepRecords); that each keeps the records in order  *)
(* no longer mentions streams, locks or memory.                            *)
(***************************************************************************)

(* What a step does to the row of one turn *)

RowKept(t) ==
    /\ row'[t].state = row[t].state
    /\ row'[t].user = row[t].user /\ row'[t].assistant = row[t].assistant

RowClosed(t) ==
    /\ row[t].state \in OpenStates /\ row'[t].state \in {"failed", "cancelled"}
    /\ row'[t].user = row[t].user /\ row'[t].assistant = row[t].assistant

RowReserved(t) ==
    /\ row[t].state = "absent" /\ row'[t].state = "reserved"
    /\ row'[t].user = 0 /\ row'[t].assistant = 0

\* Turns are reserved, or closed without a reply, or left alone.
QuietStep ==
    /\ messages' = messages
    /\ \A t \in Turns : RowKept(t) \/ RowClosed(t) \/ (RowReserved(t) /\ ~ended)

\* The words of the user commit with the running state.
UserStep(t) ==
    /\ ~ended /\ serving /\ row[t].state = "reserved"
    /\ messages' = Append(messages, Message("user_speech", t))
    /\ row'[t].state = "running" /\ row'[t].user = Len(messages) + 1
    /\ row'[t].assistant = row[t].assistant
    /\ \A u \in Turns \ {t} : RowKept(u)

\* The reply commits with the completed state.
ReplyStep(t) ==
    /\ ~ended /\ serving /\ row[t].state = "running"
    /\ messages' = Append(messages, Message("ai_speech", t))
    /\ row'[t].state = "completed" /\ row'[t].assistant = Len(messages) + 1
    /\ row'[t].user = row[t].user
    /\ \A u \in Turns \ {t} : RowKept(u)

\* The end of the call closes every turn that was still open.
EndStep ==
    /\ messages' = Append(messages, Message("call_end", None))
    /\ \A t \in Turns :
          IF row[t].state \in OpenStates THEN RowClosed(t) ELSE RowKept(t)

RecordStep ==
    \/ QuietStep
    \/ \E t \in Turns : UserStep(t) \/ ReplyStep(t)
    \/ EndStep
-----------------------------------------------------------------------------
(* The inductive invariant *)

\* A stream and the row of its turn: a working stream is as far with the turn as the row
\* says; one that settled for "completed" has committed its reply; a poll that read a
\* terminal state read the one that stays; an answer is given once, and it is true.
StreamAgrees(r) ==
    /\ pc[r] = "reserved" => row[turnOf[r]].state = "reserved"
    /\ pc[r] \in Working \ {"reserved"} => row[turnOf[r]].state = "running"
    /\ pc[r] = "finally" /\ verdict[r] = "completed" => row[turnOf[r]].state = "completed"
    /\ pc[r] = "statusRead" /\ seen[r].state \in TerminalStates =>
          row[turnOf[r]].state = seen[r].state
    /\ told[r] # "nothing" => pc[r] \in {"done"} \cup Cleanup
    /\ told[r] \in {"ai_done", "recoverable"} => turnOf[r] \in Turns
    /\ told[r] = "ai_done" => row[turnOf[r]].state = "completed"
    /\ told[r] = "recoverable" => row[turnOf[r]].state \in {"failed", "cancelled"}

AbsentIsSilent == \A t \in Turns : row[t].state = "absent" => row[t].user = 0

\* A hangup that has begun, and one that is recorded, have published the end.
EndIsPublished ==
    /\ HangupBegun => ended \/ ~serving
    /\ endRecorded => ended

RecordInv ==
    /\ HistoryMatchesTurns /\ AbsentIsSilent
    /\ \A r \in Requests : StreamAgrees(r)
    /\ EndedCallIsClosed /\ EndIsPublished
-----------------------------------------------------------------------------
(* Records and messages *)

\* The fields that closing, running and completing a row leave alone.
LEMMA RowFields ==
    ASSUME NEW x \in Rows, NEW s \in TurnStates, NEW k \in Nat
    PROVE  LET c == [x EXCEPT !.state = s, !.owner = None, !.lease = "none"]
               n == [x EXCEPT !.state = "running", !.lease = "live", !.user = k]
               d == [c EXCEPT !.assistant = k]
               l == [x EXCEPT !.lease = "expired"]
           IN  /\ c.state = s /\ c.user = x.user /\ c.assistant = x.assistant
               /\ n.state = "running" /\ n.user = k /\ n.assistant = x.assistant
               /\ d.state = s /\ d.user = x.user /\ d.assistant = k
               /\ l.state = x.state /\ l.user = x.user /\ l.assistant = x.assistant
BY DEF Rows

\* Closing the row of an open turn without a reply.
LEMMA ClosedRowIsClosed ==
    ASSUME TypeOK, NEW t \in Turns, NEW s \in {"failed", "cancelled"},
           row[t].state \in OpenStates, row'[t] = Closed(t, s)
    PROVE  RowClosed(t)
<1>1. row[t] \in Rows /\ s \in TurnStates
  BY DEF TypeOK, TurnStates, TerminalStates
<1>2. /\ Closed(t, s).state = s /\ Closed(t, s).user = row[t].user
      /\ Closed(t, s).assistant = row[t].assistant
  BY <1>1, RowFields DEF Closed
<1> QED BY <1>2 DEF RowClosed

\* An appended message is found at the end, the others where they were.
LEMMA RowedAppend ==
    ASSUME NEW m \in Messages, messages \in Seq(Messages),
           messages' = Append(messages, m), NEW kind, NEW t
    PROVE  Rowed(kind, t)' = IF m = Message(kind, t)
                             THEN Rowed(kind, t) \cup {Len(messages) + 1}
                             ELSE Rowed(kind, t)
<1>1. /\ Len(messages) \in Nat /\ Len(messages') = Len(messages) + 1
      /\ \A i \in 1..Len(messages) : messages'[i] = messages[i]
      /\ messages'[Len(messages) + 1] = m
  OBVIOUS
<1> QED BY <1>1 DEF Rowed

\* Messages of different kinds or turns are different.
LEMMA MessagesDiffer ==
    ASSUME NEW k1, NEW k2, NEW t1, NEW t2
    PROVE  Message(k1, t1) = Message(k2, t2) <=> k1 = k2 /\ t1 = t2
BY DEF Message

\* A turn whose row and messages did not change is told as before.
LEMMA ToldAsBefore ==
    ASSUME NEW t \in Turns, TurnIsTold(t), RowKept(t) \/ RowClosed(t),
           Rowed("user_speech", t)' = Rowed("user_speech", t),
           Rowed("ai_speech", t)' = Rowed("ai_speech", t)
    PROVE  TurnIsTold(t)'
BY DEF TurnIsTold, RowKept, RowClosed, Ref, OpenStates

\* Each thing that can happen to the records keeps thread and rows in agreement.
LEMMA HistoryKept ==
    ASSUME TypeOK, TypeOK', HistoryMatchesTurns, AbsentIsSilent, RecordStep
    PROVE  HistoryMatchesTurns' /\ AbsentIsSilent'
<1>1. CASE QuietStep
  <2>1. \A k, t : Rowed(k, t)' = Rowed(k, t)
    BY <1>1 DEF QuietStep, Rowed
  <2>2. ASSUME NEW t \in Turns PROVE TurnIsTold(t)'
    <3>1. CASE RowKept(t) \/ RowClosed(t)
      BY <2>1, <3>1, ToldAsBefore DEF HistoryMatchesTurns
    <3>2. CASE RowReserved(t)
      BY <2>1, <3>2 DEF RowReserved, HistoryMatchesTurns, AbsentIsSilent, TurnIsTold, Ref
    <3> QED BY <1>1, <3>1, <3>2 DEF QuietStep
  <2>3. AbsentIsSilent'
    BY <1>1 DEF QuietStep, AbsentIsSilent, RowKept, RowClosed, RowReserved, OpenStates
  <2> QED BY <2>2, <2>3 DEF HistoryMatchesTurns
<1>2. ASSUME NEW u \in Turns, UserStep(u) PROVE HistoryMatchesTurns' /\ AbsentIsSilent'
  <2>1. Message("user_speech", u) \in Messages /\ messages \in Seq(Messages)
    BY DEF Message, Messages, TypeOK
  <2>2. \A k, t : Rowed(k, t)' = IF k = "user_speech" /\ t = u
                                 THEN Rowed(k, t) \cup {Len(messages) + 1}
                                 ELSE Rowed(k, t)
    BY <1>2, <2>1, RowedAppend, MessagesDiffer DEF UserStep
  <2>3. ASSUME NEW t \in Turns, t # u PROVE TurnIsTold(t)'
    BY <1>2, <2>2, <2>3, ToldAsBefore DEF HistoryMatchesTurns, UserStep
  <2>4. TurnIsTold(u)'
    <3>1. row[u].user = 0 /\ row[u].assistant = 0 /\ TurnIsTold(u)
      BY <1>2 DEF HistoryMatchesTurns, UserStep, TurnIsTold
    <3>2. Rowed("user_speech", u)' = {Len(messages) + 1} /\ Rowed("ai_speech", u)' = {}
      BY <2>2, <3>1 DEF TurnIsTold, Ref
    <3>3. Len(messages) + 1 # 0
      BY <2>1
    <3> QED BY <1>2, <3>1, <3>2, <3>3 DEF UserStep, TurnIsTold, Ref
  <2>5. AbsentIsSilent'
    BY <1>2 DEF UserStep, AbsentIsSilent, RowKept
  <2> QED BY <2>3, <2>4, <2>5 DEF HistoryMatchesTurns
<1>3. ASSUME NEW u \in Turns, ReplyStep(u) PROVE HistoryMatchesTurns' /\ AbsentIsSilent'
  <2>1. Message("ai_speech", u) \in Messages /\ messages \in Seq(Messages)
    BY DEF Message, Messages, TypeOK
  <2>2. \A k, t : Rowed(k, t)' = IF k = "ai_speech" /\ t = u
                                 THEN Rowed(k, t) \cup {Len(messages) + 1}
                                 ELSE Rowed(k, t)
    BY <1>3, <2>1, RowedAppend, MessagesDiffer DEF ReplyStep
  <2>3. ASSUME NEW t \in Turns, t # u PROVE TurnIsTold(t)'
    BY <1>3, <2>2, <2>3, ToldAsBefore DEF HistoryMatchesTurns, ReplyStep
  <2>4. TurnIsTold(u)'
    <3>1. row[u].user # 0 /\ row[u].assistant = 0 /\ TurnIsTold(u)
      BY <1>3 DEF HistoryMatchesTurns, ReplyStep, TurnIsTold
    <3>2. /\ Rowed("ai_speech", u)' = {Len(messages) + 1}
          /\ Rowed("user_speech", u)' = {row[u].user}
          /\ row[u].user \in 1..Len(messages)
      BY <2>2, <3>1 DEF TurnIsTold, Ref, Rowed
    <3>3. Len(messages) \in Nat
      BY <2>1
    <3> QED BY <1>3, <3>1, <3>2, <3>3 DEF ReplyStep, TurnIsTold, Ref
  <2>5. AbsentIsSilent'
    BY <1>3 DEF ReplyStep, AbsentIsSilent, RowKept
  <2> QED BY <2>3, <2>4, <2>5 DEF HistoryMatchesTurns
<1>4. CASE EndStep
  <2>1. Message("call_end", None) \in Messages /\ messages \in Seq(Messages)
    BY DEF Message, Messages, TypeOK
  <2>2. \A k \in {"user_speech", "ai_speech"}, t \in Turns : Rowed(k, t)' = Rowed(k, t)
    BY <1>4, <2>1, RowedAppend, MessagesDiffer DEF EndStep
  <2>3. ASSUME NEW t \in Turns PROVE TurnIsTold(t)'
    BY <1>4, <2>2, ToldAsBefore DEF HistoryMatchesTurns, EndStep
  <2>4. AbsentIsSilent'
    BY <1>4 DEF EndStep, AbsentIsSilent, RowKept, RowClosed, OpenStates
  <2> QED BY <2>3, <2>4 DEF HistoryMatchesTurns
<1> QED BY <1>1, <1>2, <1>3, <1>4 DEF RecordStep
-----------------------------------------------------------------------------
(* What the steps of the web server do to the records *)

\* A step that leaves the database alone.
LEMMA NothingRecorded ==
    ASSUME UNCHANGED durable
    PROVE  QuietStep
BY DEF durable, QuietStep, RowKept

\* _terminalize_stale_turn_if_needed closes an open row or leaves it alone.
LEMMA TerminalizeRecords ==
    ASSUME TypeOK, NEW t \in Turns, NEW view, NEW result,
           TerminalizeStale(t, view, result), messages' = messages
    PROVE  QuietStep
<1>1. CASE LooksStale(t, view) /\ StaleUpdateMatches(t, view)
  <2>1. row' = [row EXCEPT ![t] = Closed(t, "failed")] /\ row[t].state \in OpenStates
    BY <1>1 DEF TerminalizeStale, StaleUpdateMatches
  <2>2. RowClosed(t)
    BY <2>1, ClosedRowIsClosed DEF TypeOK
  <2>3. \A u \in Turns \ {t} : RowKept(u)
    BY <2>1 DEF RowKept, TypeOK
  <2> QED BY <2>2, <2>3 DEF QuietStep
<1>2. CASE ~(LooksStale(t, view) /\ StaleUpdateMatches(t, view))
  BY <1>2 DEF TerminalizeStale, QuietStep, RowKept
<1> QED BY <1>1, <1>2

\* A reservation, whether or not its stream learns that it was committed.
LEMMA ReservationRecords ==
    ASSUME TypeOK, NEW r, NEW t \in Turns, NEW x, ~ended, messages' = messages,
           row[t].state = "absent",
           row' = row \/ row' = [row EXCEPT ![t] = NewRow(r, x)]
    PROVE  QuietStep
<1>1. CASE row' = row
  BY <1>1 DEF QuietStep, RowKept
<1>2. CASE row' = [row EXCEPT ![t] = NewRow(r, x)]
  <2>1. RowReserved(t)
    BY <1>2 DEF RowReserved, NewRow, TypeOK
  <2>2. \A u \in Turns \ {t} : RowKept(u)
    BY <1>2 DEF RowKept, TypeOK
  <2> QED BY <2>1, <2>2 DEF QuietStep
<1> QED BY <1>1, <1>2

\* The commit of the user's words, by its stream or after its client went away.
LEMMA UserRecords ==
    ASSUME TypeOK, NEW t \in Turns, ~ended, serving, row[t].state = "reserved",
           messages' = Append(messages, Message("user_speech", t)),
           row' = [row EXCEPT ![t].state = "running", ![t].lease = "live",
                              ![t].user = Len(messages) + 1]
    PROVE  UserStep(t)
<1> DEFINE n == [row[t] EXCEPT !.state = "running", !.lease = "live",
                               !.user = Len(messages) + 1]
<1>1. row[t] \in Rows /\ Len(messages) + 1 \in Nat /\ "running" \in TurnStates
  BY DEF TypeOK, TurnStates, OpenStates
<1>2. n.state = "running" /\ n.user = Len(messages) + 1 /\ n.assistant = row[t].assistant
  BY <1>1, RowFields
<1>3. row' = [row EXCEPT ![t] = n]
  BY DEF TypeOK
<1> HIDE DEF n
<1>4. row'[t] = n /\ \A u \in Turns \ {t} : RowKept(u)
  BY <1>3 DEF TypeOK, RowKept
<1> QED BY <1>2, <1>4 DEF UserStep

\* The commit of the reply, by its stream or after its client went away.
LEMMA ReplyRecords ==
    ASSUME TypeOK, NEW t \in Turns, ~ended, serving, row[t].state = "running",
           AppendAssistant(t)
    PROVE  ReplyStep(t)
<1> DEFINE n == [Closed(t, "completed") EXCEPT !.assistant = Len(messages) + 1]
<1>1. row[t] \in Rows /\ Len(messages) + 1 \in Nat /\ "completed" \in TurnStates
  BY DEF TypeOK, TurnStates, TerminalStates
<1>2. n.state = "completed" /\ n.user = row[t].user /\ n.assistant = Len(messages) + 1
  BY <1>1, RowFields DEF Closed
<1>3. row' = [row EXCEPT ![t] = n] /\ messages' = Append(messages, Message("ai_speech", t))
  BY DEF AppendAssistant
<1> HIDE DEF n
<1>4. row'[t] = n /\ \A u \in Turns \ {t} : RowKept(u)
  BY <1>3 DEF TypeOK, RowKept
<1> QED BY <1>2, <1>3, <1>4 DEF ReplyStep

\* A working stream knows its turn, and how far it is.
LEMMA WorkingTurn ==
    ASSUME Inv, NEW r \in Requests, pc[r] \in Working \cup Cleanup \cup Polling
    PROVE  turnOf[r] \in Turns
BY DEF Inv, TurnKnown

\* finish_call_turn closes a row that is open and its own, and never as completed.
LEMMA FinishRecords ==
    ASSUME Inv, NEW r \in Requests, StreamAgrees(r), Finish(r)
    PROVE  QuietStep
<1> DEFINE t == turnOf[r]
<1>1. t \in Turns /\ pc[r] = "finally" /\ messages' = messages /\ TypeOK
  BY WorkingTurn DEF Finish, Cleanup, Inv
<1>2. CASE CanFinish(r)
  <2>1. row[t].state \in OpenStates
    BY <1>1, <1>2, FinishFindsOpenRow DEF Inv
  <2>2. verdict[r] \in {"failed", "cancelled"}
    BY <1>1, <2>1 DEF StreamAgrees, OpenStates, TypeOK, TerminalStates
  <2>3. row' = [row EXCEPT ![t] = Closed(t, verdict[r])]
    BY <1>2 DEF Finish
  <2>4. RowClosed(t)
    BY <1>1, <2>1, <2>2, <2>3, ClosedRowIsClosed DEF TypeOK
  <2>5. \A u \in Turns \ {t} : RowKept(u)
    BY <1>1, <2>3 DEF RowKept, TypeOK
  <2> QED BY <1>1, <2>4, <2>5 DEF QuietStep
<1>3. CASE ~CanFinish(r)
  BY <1>1, <1>3 DEF Finish, QuietStep, RowKept
<1> QED BY <1>2, <1>3

\* Every step of the web server is one of the four, a stream's append being its own.
LEMMA StreamRecords ==
    ASSUME Inv, NEW r \in Requests, StreamAgrees(r),
           Reserve(r) \/ Owner(r) \/ Duplicate(r) \/ Recover(r) \/ Abandon(r) \/ Disconnect(r)
    PROVE  \/ QuietStep
           \/ /\ turnOf[r] \in Turns /\ pc[r] \in Working
              /\ UserStep(turnOf[r]) \/ ReplyStep(turnOf[r])
<1> USE DEF Inv
<1>1. CASE Reserve(r)
  <2>1. CASE ReserveRejected(r)
    BY <2>1, NothingRecorded DEF ReserveRejected
  <2>2. ASSUME NEW t \in Turns, NEW x \in Texts, ReserveCreated(r, t, x) \/ ReserveFailed(r, t, x)
        PROVE  QuietStep
    <3>1. CASE ReserveCreated(r, t, x)
      BY <3>1, ReservationRecords DEF ReserveCreated
    <3>2. CASE ReserveFailed(r, t, x)
      BY <3>2, ReservationRecords DEF ReserveFailed
    <3> QED BY <2>2, <3>1, <3>2
  <2>3. ASSUME NEW t \in Turns, NEW x \in Texts, ReserveExisting(r, t, x)
        PROVE  QuietStep
    BY <2>3, TerminalizeRecords DEF ReserveExisting
  <2> QED BY <1>1, <2>1, <2>2, <2>3 DEF Reserve
<1>2. CASE Owner(r)
  <2>1. CASE RecordUser(r)
    <3>1. /\ pc[r] = "reserved" /\ serving /\ ~ended /\ turnOf[r] \in Turns
          /\ pc[r] \in Working
      BY <2>1, WorkingTurn DEF RecordUser, CanRun, Working
    <3>2. row[turnOf[r]].state = "reserved"
      BY <3>1 DEF StreamAgrees
    <3>3. /\ messages' = Append(messages, Message("user_speech", turnOf[r]))
          /\ row' = [row EXCEPT ![turnOf[r]].state = "running", ![turnOf[r]].lease = "live",
                                ![turnOf[r]].user = Len(messages) + 1]
      BY <2>1 DEF RecordUser
    <3> QED BY <3>1, <3>2, <3>3, UserRecords
  <2>2. CASE CommitAppend(r)
    <3>1. /\ pc[r] = "staged" /\ serving /\ ~ended /\ turnOf[r] \in Turns
          /\ pc[r] \in Working
      BY <2>2, WorkingTurn DEF CommitAppend, CanRun, Working
    <3>2. row[turnOf[r]].state = "running" /\ AppendAssistant(turnOf[r])
      BY <2>2, <3>1 DEF StreamAgrees, CommitAppend
    <3> QED BY <3>1, <3>2, ReplyRecords
  <2>3. CASE Finish(r)
    BY <2>3, FinishRecords
  <2>4. CASE ~RecordUser(r) /\ ~CommitAppend(r) /\ ~Finish(r)
    BY <1>2, <2>4, NothingRecorded
    DEF Owner, Played, GenerationEnds, ClaimAppend, ClaimRefused, StageAppend,
        AppendRolledBack, Unregister, CleanupAborted, CancelDelivered
  <2> QED BY <2>1, <2>2, <2>3, <2>4
<1>3. CASE Duplicate(r) \/ Abandon(r)
  <2>1. CASE StatusApply(r)
    <3>1. turnOf[r] \in Turns
      BY <2>1, WorkingTurn DEF StatusApply, Polling
    <3> QED BY <2>1, <3>1, TerminalizeRecords DEF StatusApply
  <2> QED BY <1>3, <2>1, NothingRecorded DEF Duplicate, StatusRead, Abandon
<1>4. CASE Recover(r)
  <2> DEFINE t == turnOf[r]
  <2>1. t \in Turns /\ messages' = messages
    BY <1>4 DEF Recover, TurnKnown
  <2>2. CASE row' = row
    BY <2>1, <2>2 DEF QuietStep, RowKept
  <2>3. ASSUME row[t].state \in OpenStates, NEW s \in {"failed", "cancelled"},
               row' = [row EXCEPT ![t] = Closed(t, s)]
        PROVE  QuietStep
    <3>1. RowClosed(t)
      BY <2>1, <2>3, ClosedRowIsClosed DEF TypeOK
    <3>2. \A u \in Turns \ {t} : RowKept(u)
      BY <2>1, <2>3 DEF RowKept, TypeOK
    <3> QED BY <2>1, <3>1, <3>2 DEF QuietStep
  <2> QED BY <1>4, <2>2, <2>3 DEF Recover
<1>5. CASE Disconnect(r)
  <2>1. pc[r] \in Working /\ serving /\ turnOf[r] \in Turns
    BY <1>5, WorkingTurn DEF Disconnect, CanRun
  <2>2. CASE UNCHANGED durable
    BY <2>2, NothingRecorded
  <2>3. CASE CommitInFlight(r)
    <3>1. CASE /\ pc[r] = "reserved" /\ ~ended
               /\ messages' = Append(messages, Message("user_speech", turnOf[r]))
               /\ row' = [row EXCEPT ![turnOf[r]].state = "running",
                                     ![turnOf[r]].lease = "live",
                                     ![turnOf[r]].user = Len(messages) + 1]
      <4>1. row[turnOf[r]].state = "reserved"
        BY <3>1 DEF StreamAgrees
      <4> QED BY <2>1, <3>1, <4>1, UserRecords
    <3>2. CASE pc[r] = "staged" /\ ~ended /\ AppendAssistant(turnOf[r])
      <4>1. row[turnOf[r]].state = "running"
        BY <3>2 DEF StreamAgrees, Working
      <4> QED BY <2>1, <3>2, <4>1, ReplyRecords
    <3> QED BY <2>3, <3>1, <3>2 DEF CommitInFlight
  <2> QED BY <1>5, <2>2, <2>3 DEF Disconnect
<1> QED BY <1>1, <1>2, <1>3, <1>4, <1>5

\* The steps that are no stream's: hangup, interrupt, time, reconciliation, a crash.
LEMMA OtherRecords ==
    ASSUME Inv,
           \/ \E e \in Enders : Hangup(e)
           \/ \E i \in Interrupters : Interrupt(i)
           \/ \E t \in Turns : LeaseExpires(t) \/ Reconcile(t)
           \/ Crash
    PROVE  QuietStep \/ EndStep
<1> USE DEF Inv
<1>1. ASSUME NEW e \in Enders, Hangup(e) PROVE QuietStep \/ EndStep
  <2>1. CASE CommitEnd(e) /\ row' = CancelOpenRows
             /\ messages' = Append(messages, Message("call_end", None))
    <3>1. ASSUME NEW t \in Turns, row[t].state \in OpenStates PROVE RowClosed(t)
      BY <2>1, <3>1, ClosedRowIsClosed DEF CancelOpenRows
    <3>2. ASSUME NEW t \in Turns, row[t].state \notin OpenStates PROVE RowKept(t)
      BY <2>1, <3>2 DEF CancelOpenRows, RowKept
    <3> QED BY <2>1, <3>1, <3>2 DEF EndStep
  <2>2. CASE UNCHANGED durable
    BY <2>2, NothingRecorded
  <2> QED BY <1>1, <2>1, <2>2
          DEF Hangup, BeginEnd, EndAgain, PublishEnd, MarkEnded, EndRaised, CommitEnd
<1>2. ASSUME NEW i \in Interrupters, Interrupt(i) PROVE QuietStep
  BY <1>2, NothingRecorded DEF Interrupt, CancelActiveTurns, TurnsCancelled
<1>3. ASSUME NEW t \in Turns, LeaseExpires(t) PROVE QuietStep
  <2> DEFINE n == [row[t] EXCEPT !.lease = "expired"]
  <2>1. row[t] \in Rows /\ "failed" \in TurnStates /\ 0 \in Nat
    BY DEF TypeOK, TurnStates, TerminalStates
  <2>2. n.state = row[t].state /\ n.user = row[t].user /\ n.assistant = row[t].assistant
    BY <2>1, RowFields
  <2>3. row' = [row EXCEPT ![t] = n] /\ messages' = messages
    BY <1>3 DEF LeaseExpires
  <2> HIDE DEF n
  <2> QED BY <2>2, <2>3 DEF QuietStep, RowKept, TypeOK
<1>4. ASSUME NEW t \in Turns, Reconcile(t) PROVE QuietStep
  <2>1. CASE serving
    BY <1>4, <2>1, TerminalizeRecords DEF Reconcile
  <2>2. CASE ~serving
    <3>1. /\ row' = [row EXCEPT ![t] = Closed(t, "failed")] /\ messages' = messages
          /\ row[t].state \in OpenStates
      BY <1>4, <2>2 DEF Reconcile
    <3>2. RowClosed(t)
      BY <3>1, ClosedRowIsClosed DEF TypeOK
    <3> QED BY <3>1, <3>2 DEF QuietStep, RowKept, TypeOK
  <2> QED BY <2>1, <2>2
<1>5. CASE Crash
  BY <1>5, NothingRecorded DEF Crash
<1> QED BY <1>1, <1>2, <1>3, <1>4, <1>5
-----------------------------------------------------------------------------
(* Streams and the rows of their turns *)

FinalRows == \A t \in Turns : row[t].state \in TerminalStates => row'[t] = row[t]

StreamUntouched(q) ==
    /\ pc'[q] = pc[q] /\ turnOf'[q] = turnOf[q] /\ told'[q] = told[q]
    /\ verdict'[q] = verdict[q] /\ seen'[q] = seen[q]

\* A stream that does nothing stays in agreement, whoever else writes the database.
LEMMA UntouchedAgrees ==
    ASSUME Inv, Inv', FinalRows, NEW q \in Requests, StreamAgrees(q), StreamUntouched(q),
           \/ QuietStep \/ EndStep
           \/ \E u \in Turns : /\ UserStep(u) \/ ReplyStep(u)
                               /\ pc[q] \in Working => turnOf[q] # u
    PROVE  StreamAgrees(q)'
<1> DEFINE t == turnOf[q]
<1>1. CASE pc[q] \in Working
  <2>1. t \in Turns /\ row[t].state \in OpenStates /\ row'[t].state \in OpenStates
    BY <1>1, WorkingTurn DEF Inv, WorkerHoldsTurn, StreamUntouched
  <2>2. RowKept(t)
    BY <1>1, <2>1 DEF QuietStep, EndStep, UserStep, ReplyStep, RowClosed, RowReserved,
                      OpenStates
  <2> QED BY <1>1, <2>2 DEF StreamAgrees, StreamUntouched, RowKept, Working, Cleanup
<1>2. CASE pc[q] \notin Working
  <2>1. pc[q] \in {"finally", "statusRead"} => t \in Turns
    BY WorkingTurn DEF Cleanup, Polling
  <2> QED BY <1>2, <2>1
          DEF StreamAgrees, StreamUntouched, FinalRows, Working, TerminalStates
<1> QED BY <1>1, <1>2

\* What a reservation or a poll goes on with is the row's state, if it is terminal.
LEMMA TerminalizeExact ==
    ASSUME TypeOK, NEW t \in Turns, NEW view, NEW result, TerminalizeStale(t, view, result),
           view.state \in TerminalStates => row[t].state = view.state
    PROVE  result \in TerminalStates => row'[t].state = result
<1>1. CASE LooksStale(t, view) /\ StaleUpdateMatches(t, view)
  <2>1. row' = [row EXCEPT ![t] = Closed(t, "failed")] /\ result = "failed"
    BY <1>1 DEF TerminalizeStale
  <2>2. Closed(t, "failed").state = "failed"
    BY ClosedFields DEF TurnStates, TerminalStates
  <2> QED BY <2>1, <2>2 DEF TypeOK
<1>2. CASE ~(LooksStale(t, view) /\ StaleUpdateMatches(t, view))
  BY <1>2 DEF TerminalizeStale, LooksStale
<1> QED BY <1>1, <1>2

\* A duplicate is answered what the row says.
LEMMA RejoinAgrees ==
    ASSUME TypeOK, NEW r \in Requests, NEW t \in Turns, NEW x, NEW state \in TurnStates,
           Rejoin(r, t, x, state), told[r] = "nothing", turnOf'[r] = t,
           state \in TerminalStates => row'[t].state = state
    PROVE  StreamAgrees(r)'
BY DEF Rejoin, StreamAgrees, TypeOK, TurnStates, OpenStates, TerminalStates, Working, Cleanup

\* The stream that acts stays in agreement with the row of its turn.
LEMMA ActorAgrees ==
    ASSUME Inv, Inv', FinalRows, NEW r \in Requests, StreamAgrees(r),
           Reserve(r) \/ Owner(r) \/ Duplicate(r) \/ Recover(r) \/ Abandon(r) \/ Disconnect(r)
    PROVE  StreamAgrees(r)'
<1> USE DEF Inv
<1>1. CASE Reserve(r)
  <2>1. told[r] = "nothing" /\ pc[r] = "idle"
    BY <1>1 DEF Reserve, ReserveRejected, ReserveCreated, ReserveFailed, ReserveExisting,
                CanReserve, StreamAgrees, Cleanup
  <2>2. CASE ReserveRejected(r)
    BY <2>2 DEF ReserveRejected, StreamAgrees, TypeOK, Working, Cleanup
  <2>3. ASSUME NEW t \in Turns, NEW x \in Texts, ReserveCreated(r, t, x)
        PROVE  StreamAgrees(r)'
    BY <2>1, <2>3
    DEF ReserveCreated, Submit, NewRow, StreamAgrees, TypeOK, Working, Cleanup
  <2>4. ASSUME NEW t \in Turns, NEW x \in Texts, ReserveFailed(r, t, x)
        PROVE  StreamAgrees(r)'
    BY <2>4 DEF ReserveFailed, StreamAgrees, TypeOK, Working, Cleanup
  <2>5. ASSUME NEW t \in Turns, NEW x \in Texts, ReserveExisting(r, t, x)
        PROVE  StreamAgrees(r)'
    <3>1. PICK result \in TurnStates :
             TerminalizeStale(t, View(t), result) /\ Rejoin(r, t, x, result)
      BY <2>5 DEF ReserveExisting
    <3>2. result \in TerminalStates => row'[t].state = result
      BY <3>1, TerminalizeExact DEF View
    <3>3. turnOf'[r] = t
      BY <2>5 DEF ReserveExisting, Submit, TypeOK
    <3> QED BY <2>1, <3>1, <3>2, <3>3, RejoinAgrees
  <2> QED BY <1>1, <2>2, <2>3, <2>4, <2>5 DEF Reserve
<1>2. CASE Owner(r)
  <2>0. turnOf[r] \in Turns
    BY <1>2, WorkingTurn
    DEF Owner, RecordUser, Played, GenerationEnds, ClaimAppend, ClaimRefused, StageAppend,
        CommitAppend, AppendRolledBack, Finish, Unregister, CleanupAborted,
        CancelDelivered, Working, Cleanup
  <2>1. CASE RecordUser(r)
    <3>1. UserStep(turnOf[r]) /\ pc'[r] = "generating" /\ pc[r] = "reserved"
      <4>1. row[turnOf[r]].state = "reserved"
        BY <2>1 DEF RecordUser, StreamAgrees
      <4> QED BY <2>0, <2>1, <4>1, UserRecords DEF RecordUser, CanRun, TypeOK
    <3> QED BY <2>1, <3>1 DEF RecordUser, StreamAgrees, UserStep, Working, Cleanup
  <2>2. CASE CommitAppend(r)
    <3>1. ReplyStep(turnOf[r]) /\ pc'[r] = "finally" /\ told'[r] = "ai_done"
      <4>1. row[turnOf[r]].state = "running"
        BY <2>2 DEF CommitAppend, StreamAgrees, Working
      <4> QED BY <2>0, <2>2, <4>1, ReplyRecords DEF CommitAppend, CanRun, TypeOK, Settle
    <3> QED BY <2>0, <2>2, <3>1
            DEF CommitAppend, StreamAgrees, ReplyStep, Working, Cleanup
  <2>3. CASE Finish(r)
    BY <2>0, <2>3 DEF Finish, StreamAgrees, FinalRows, TypeOK, Working, Cleanup, TerminalStates
  <2>4. CASE Played(r) \/ ClaimAppend(r) \/ StageAppend(r)
    BY <2>4 DEF Played, ClaimAppend, StageAppend, durable, StreamAgrees, TypeOK, Working,
                Cleanup
  <2>5. CASE GenerationEnds(r) \/ ClaimRefused(r) \/ AppendRolledBack(r) \/ CancelDelivered(r)
    <3>1. CASE GenerationEnds(r)
      BY <3>1 DEF GenerationEnds, Settle, durable, StreamAgrees, TypeOK, Working, Cleanup
    <3>2. CASE ClaimRefused(r)
      BY <3>2 DEF ClaimRefused, Settle, durable, StreamAgrees, TypeOK, Working, Cleanup
    <3>3. CASE AppendRolledBack(r)
      BY <3>3 DEF AppendRolledBack, Settle, durable, StreamAgrees, TypeOK, Working, Cleanup
    <3>4. CASE CancelDelivered(r)
      BY <3>4 DEF CancelDelivered, Settle, durable, StreamAgrees, TypeOK, Working, Cleanup
    <3> QED BY <2>5, <3>1, <3>2, <3>3, <3>4
  <2>6. CASE Unregister(r) \/ CleanupAborted(r)
    BY <2>6 DEF Unregister, CleanupAborted, durable, StreamAgrees, TypeOK, Working, Cleanup
  <2> QED BY <1>2, <2>1, <2>2, <2>3, <2>4, <2>5, <2>6 DEF Owner
<1>3. CASE StatusRead(r)
  <2>1. turnOf[r] \in Turns /\ View(turnOf[r]).state = row[turnOf[r]].state
    BY <1>3, WorkingTurn DEF StatusRead, Polling, View
  <2> QED BY <1>3, <2>1 DEF StatusRead, durable, StreamAgrees, TypeOK, Working, Cleanup
<1>4. CASE StatusApply(r)
  <2>1. PICK result \in TurnStates : /\ TerminalizeStale(turnOf[r], seen[r], result)
                                     /\ Rejoin(r, turnOf[r], textOf[r], result)
    BY <1>4 DEF StatusApply
  <2>2. /\ turnOf[r] \in Turns /\ turnOf' = turnOf /\ told[r] = "nothing"
        /\ seen[r].state \in TerminalStates => row[turnOf[r]].state = seen[r].state
    BY <1>4, WorkingTurn DEF StatusApply, Polling, StreamAgrees, Cleanup
  <2>3. result \in TerminalStates => row'[turnOf[r]].state = result
    BY <2>1, <2>2, TerminalizeExact
  <2> QED BY <2>1, <2>2, <2>3, RejoinAgrees
<1>5. CASE Abandon(r)
  BY <1>5 DEF Abandon, StreamAgrees, TypeOK, Working, Cleanup, Polling
<1>6. CASE Recover(r)
  <2>1. StreamUntouched(r) /\ pc[r] = "done" /\ turnOf[r] \in Turns
    BY <1>6 DEF Recover, streams, StreamUntouched, TaskPlaces, TurnKnown
  <2> QED BY <2>1 DEF StreamAgrees, StreamUntouched, FinalRows, Working, Cleanup, TerminalStates
<1>7. CASE Disconnect(r)
  <2>1. /\ turnOf[r] \in Turns /\ turnOf' = turnOf /\ told' = told
        /\ pc[r] \in Working
    BY <1>7, WorkingTurn DEF Disconnect
  <2>2. told[r] = "nothing"
    BY <2>1 DEF StreamAgrees, Working, Cleanup
  <2>3. \/ pc'[r] = "done"
        \/ pc'[r] = "finally" /\ verdict'[r] \in {"failed", "cancelled"}
    BY <1>7 DEF Disconnect, Settle, TypeOK
  <2> QED BY <2>1, <2>2, <2>3 DEF StreamAgrees, Working, Cleanup
<1> QED BY <1>1, <1>2, <1>3, <1>4, <1>5, <1>6, <1>7 DEF Duplicate

\* A stream's step touches no other stream.
LEMMA OthersUntouched ==
    ASSUME TypeOK, NEW r \in Requests, NEW q \in Requests, q # r,
           Reserve(r) \/ Owner(r) \/ Duplicate(r) \/ Recover(r) \/ Abandon(r) \/ Disconnect(r)
    PROVE  StreamUntouched(q)
<1>1. CASE Reserve(r)
  BY <1>1 DEF Reserve, ReserveRejected, ReserveCreated, ReserveFailed, ReserveExisting,
              Submit, Rejoin, StreamUntouched, TypeOK
<1>2. CASE Owner(r)
  BY <1>2
  DEF Owner, RecordUser, Played, GenerationEnds, ClaimAppend, ClaimRefused, StageAppend,
      CommitAppend, AppendRolledBack, Finish, Unregister, CleanupAborted, CancelDelivered,
      Settle, LeaveWork, StreamUntouched, TypeOK
<1>3. CASE Duplicate(r) \/ Abandon(r)
  BY <1>3 DEF Duplicate, StatusRead, StatusApply, Rejoin, Abandon, StreamUntouched, TypeOK
<1>4. CASE Recover(r)
  BY <1>4 DEF Recover, streams, StreamUntouched
<1>5. CASE Disconnect(r)
  BY <1>5 DEF Disconnect, Settle, LeaveWork, StreamUntouched, TypeOK
<1> QED BY <1>1, <1>2, <1>3, <1>4, <1>5

\* Every step keeps every stream in agreement with the row of its turn.
LEMMA AgreementKept ==
    ASSUME Inv, Inv', [Next]_vars, \A r \in Requests : StreamAgrees(r),
           NEW q \in Requests
    PROVE  StreamAgrees(q)'
<1>1. FinalRows
  BY FinalStep DEF FinalRows
<1>2. CASE UNCHANGED vars
  BY <1>2 DEF vars, durable, streams, StreamAgrees
<1>3. ASSUME NEW r \in Requests,
             Reserve(r) \/ Owner(r) \/ Duplicate(r) \/ Recover(r) \/ Abandon(r) \/ Disconnect(r)
      PROVE  StreamAgrees(q)'
  <2>1. CASE q = r
    BY <1>1, <1>3, <2>1, ActorAgrees
  <2>2. CASE q # r
    <3>1. StreamUntouched(q)
      BY <1>3, <2>2, OthersUntouched DEF Inv
    <3>2. \/ QuietStep
          \/ /\ turnOf[r] \in Turns /\ pc[r] \in Working
             /\ UserStep(turnOf[r]) \/ ReplyStep(turnOf[r])
      BY <1>3, StreamRecords
    <3>3. pc[q] \in Working /\ pc[r] \in Working => turnOf[q] # turnOf[r]
      BY <2>2 DEF Inv, WorkerHoldsTurn
    <3> QED BY <1>1, <3>1, <3>2, <3>3, UntouchedAgrees
  <2> QED BY <2>1, <2>2
<1>4. CASE Crash
  BY <1>4 DEF Crash, durable, StreamAgrees, Working, Cleanup, Inv, TypeOK
<1>5. CASE \/ \E e \in Enders : Hangup(e)
           \/ \E i \in Interrupters : Interrupt(i)
           \/ \E t \in Turns : LeaseExpires(t) \/ Reconcile(t)
  <2>1. UNCHANGED streams
    BY <1>5 DEF Hangup, BeginEnd, EndAgain, EndRaised, PublishEnd, MarkEnded, CommitEnd,
                Interrupt, CancelActiveTurns, TurnsCancelled, LeaseExpires, Reconcile
  <2>2. StreamUntouched(q)
    BY <2>1 DEF streams, StreamUntouched
  <2>3. QuietStep \/ EndStep
    BY <1>5, OtherRecords
  <2> QED BY <1>1, <2>2, <2>3, UntouchedAgrees
<1> QED BY <1>2, <1>3, <1>4, <1>5 DEF Next
-----------------------------------------------------------------------------
(* The end of the call *)

\* Every step is one of the things that can happen to the records.
LEMMA EveryStepRecords ==
    ASSUME Inv, [Next]_vars, \A r \in Requests : StreamAgrees(r)
    PROVE  RecordStep
<1>1. CASE UNCHANGED vars
  BY <1>1, NothingRecorded DEF vars, RecordStep
<1>2. ASSUME NEW r \in Requests,
             Reserve(r) \/ Owner(r) \/ Duplicate(r) \/ Recover(r) \/ Abandon(r) \/ Disconnect(r)
      PROVE  RecordStep
  BY <1>2, StreamRecords DEF RecordStep
<1> QED BY <1>1, <1>2, OtherRecords DEF Next, RecordStep

\* A call that ended or died stays so; a hangup begins by publishing the end, and the
\* "Call ended" row is recorded only by a hangup that did.
LEMMA EndProgress ==
    ASSUME Inv, [Next]_vars
    PROVE  /\ ended => ended'
           /\ ~serving => ~serving'
           /\ HangupBegun' => HangupBegun \/ ended' \/ ~serving'
           /\ endRecorded' => endRecorded \/ (EndStep /\ ended)
<1>1. CASE UNCHANGED vars
  BY <1>1 DEF vars, memory, controls, HangupBegun
<1>2. ASSUME NEW r \in Requests,
             Reserve(r) \/ Owner(r) \/ Duplicate(r) \/ Recover(r) \/ Abandon(r) \/ Disconnect(r)
      PROVE  UNCHANGED <<ended, serving, endRecorded, ctl>>
  <2>1. CASE Reserve(r)
    BY <2>1 DEF Reserve, ReserveRejected, ReserveCreated, ReserveFailed, ReserveExisting,
                memory, controls
  <2>2. CASE Owner(r)
    BY <2>2
    DEF Owner, RecordUser, Played, GenerationEnds, ClaimAppend, ClaimRefused, StageAppend,
        CommitAppend, AppendRolledBack, Finish, Unregister, CleanupAborted,
        CancelDelivered, memory, controls
  <2>3. CASE Duplicate(r) \/ Recover(r) \/ Abandon(r) \/ Disconnect(r)
    BY <2>3 DEF Duplicate, StatusRead, StatusApply, Recover, Abandon, Disconnect, memory,
                controls
  <2> QED BY <1>2, <2>1, <2>2, <2>3
<1>3. ASSUME NEW e \in Enders, Hangup(e)
      PROVE  /\ ended => ended'
             /\ serving' = serving
             /\ HangupBegun' => HangupBegun \/ ended'
             /\ endRecorded' => endRecorded \/ (EndStep /\ ended)
  <2>1. CASE \E from, to : PublishEnd(e, from, to)
    BY <2>1 DEF PublishEnd
  <2>2. CASE \E from \in {"gather", "gatherAgain"} : \E to : MarkEnded(e, from, to)
    BY <2>2 DEF MarkEnded, HangupBegun
  <2>3. CASE EndRaised(e)
    BY <2>3 DEF EndRaised, HangupBegun, memory
  <2>4. CASE CommitEnd(e)
    <3>1. ctl[e] = "commit" /\ ended /\ HangupBegun
      BY <2>4 DEF CommitEnd, HangupBegun, Inv, HangupProgress
    <3>2. endRecorded' => endRecorded \/ EndStep
      <4>1. CASE endRecorded' /\ ~endRecorded
        <5>1. row' = CancelOpenRows /\ messages' = Append(messages, Message("call_end", None))
          BY <2>4, <4>1 DEF CommitEnd
        <5>2. ASSUME NEW t \in Turns, row[t].state \in OpenStates PROVE RowClosed(t)
          BY <5>1, <5>2, ClosedRowIsClosed DEF CancelOpenRows, Inv
        <5>3. ASSUME NEW t \in Turns, row[t].state \notin OpenStates PROVE RowKept(t)
          BY <5>1, <5>3 DEF CancelOpenRows, RowKept
        <5> QED BY <5>1, <5>2, <5>3 DEF EndStep
      <4> QED BY <4>1 DEF Inv, TypeOK
    <3> QED BY <2>4, <3>1, <3>2 DEF CommitEnd
  <2> QED BY <1>3, <2>1, <2>2, <2>3, <2>4 DEF Hangup, BeginEnd, EndAgain
<1>4. ASSUME NEW i \in Interrupters, Interrupt(i)
      PROVE  UNCHANGED <<ended, serving, endRecorded>> /\ (HangupBegun' => HangupBegun)
  BY <1>4, ControlAssumption
  DEF Interrupt, CancelActiveTurns, TurnsCancelled, HangupBegun, memory, Inv, TypeOK,
      Controllers
<1>5. ASSUME NEW t \in Turns, LeaseExpires(t) \/ Reconcile(t)
      PROVE  UNCHANGED <<ended, serving, endRecorded, ctl>>
  BY <1>5 DEF LeaseExpires, Reconcile, memory, controls
<1>6. CASE Crash
  BY <1>6 DEF Crash
<1> QED BY <1>1, <1>2, <1>3, <1>4, <1>5, <1>6 DEF Next, HangupBegun

\* Once the end is recorded no record step opens a turn: what could needs ~ended.
LEMMA EndKept ==
    ASSUME Inv, [Next]_vars, RecordStep, EndedCallIsClosed, EndIsPublished
    PROVE  EndedCallIsClosed' /\ EndIsPublished'
<1>1. EndIsPublished'
  BY EndProgress DEF EndIsPublished
<1>2. ASSUME endRecorded', NEW t \in Turns PROVE row'[t].state \notin OpenStates
  <2>1. endRecorded \/ (EndStep /\ ended)
    BY <1>2, EndProgress
  <2>2. CASE EndStep
    BY <2>2 DEF EndStep, RowClosed, RowKept, OpenStates
  <2>3. CASE endRecorded /\ ~EndStep
    <3>1. ended /\ row[t].state \notin OpenStates
      BY <2>3 DEF EndIsPublished, EndedCallIsClosed
    <3>2. QuietStep
      BY <2>3, <3>1 DEF RecordStep, UserStep, ReplyStep
    <3> QED BY <3>1, <3>2 DEF QuietStep, RowKept, RowClosed
  <2> QED BY <2>1, <2>2, <2>3
<1> QED BY <1>1, <1>2 DEF EndedCallIsClosed
-----------------------------------------------------------------------------
\* The records are in order in every reachable state.
THEOREM RecordInvHolds == Spec => []RecordInv
<1>1. Init => RecordInv
  <2> SUFFICES ASSUME Init PROVE RecordInv
    OBVIOUS
  <2>1. \A t \in Turns : /\ row[t].state = "absent"
                         /\ row[t].user = 0 /\ row[t].assistant = 0
    BY DEF Init, AbsentRow
  <2>2. \A k \in {"user_speech", "ai_speech"}, t \in Turns : Rowed(k, t) = {}
    <3>1. Len(messages) = 1 /\ messages[1] = Message("call_start", None)
      BY DEF Init
    <3> QED BY <3>1, MessagesDiffer DEF Rowed
  <2>3. HistoryMatchesTurns /\ AbsentIsSilent
    BY <2>1, <2>2 DEF HistoryMatchesTurns, TurnIsTold, Ref, AbsentIsSilent
  <2>4. \A r \in Requests : StreamAgrees(r)
    BY DEF Init, StreamAgrees, Working, Cleanup
  <2>5. EndedCallIsClosed /\ EndIsPublished
    BY DEF Init, EndedCallIsClosed, EndIsPublished, HangupBegun, Controllers
  <2> QED BY <2>3, <2>4, <2>5 DEF RecordInv
<1>2. Inv /\ Inv' /\ RecordInv /\ [Next]_vars => RecordInv'
  <2> SUFFICES ASSUME Inv, Inv', RecordInv, [Next]_vars PROVE RecordInv'
    OBVIOUS
  <2>1. RecordStep
    BY EveryStepRecords DEF RecordInv
  <2>2. HistoryMatchesTurns' /\ AbsentIsSilent'
    BY <2>1, HistoryKept DEF RecordInv, Inv
  <2>3. \A r \in Requests : StreamAgrees(r)'
    BY AgreementKept DEF RecordInv
  <2>4. EndedCallIsClosed' /\ EndIsPublished'
    BY <2>1, EndKept DEF RecordInv
  <2> QED BY <2>2, <2>3, <2>4 DEF RecordInv
<1> QED BY <1>1, <1>2, InvHolds, PTL DEF Spec

\* The thread, the rows and what the clients were told tell one story, through cancelled
\* commits, rollbacks, recoveries, hangups and crashes: every message commits with the
\* state change that explains it (record_reserved_user_speech, record_completed_ai_speech).
THEOREM TheRecordsAgree == Spec => []RecordsAgree
<1>1. RecordInv => RecordsAgree
  BY DEF RecordInv, RecordsAgree, AnswersAreDurable, StreamAgrees
<1> QED BY <1>1, RecordInvHolds, PTL

\* A hangup is final: from the moment begin_end publishes it no speech joins the thread,
\* and once end_call has recorded it no turn is open or opens again.
THEOREM HangupsAreFinal == Spec => HangupIsFinal
<1>1. ASSUME Inv, RecordInv, [Next]_vars
      PROVE  [HangupBegun =>
                messages' \in {messages, Append(messages, Message("call_end", None))}]_vars
  <2>1. RecordStep /\ EndIsPublished
    BY <1>1, EveryStepRecords DEF RecordInv
  <2> QED BY <2>1 DEF RecordStep, QuietStep, UserStep, ReplyStep, EndStep, EndIsPublished
<1>2. RecordInv => EndedCallIsClosed
  BY DEF RecordInv
<1> QED BY <1>1, <1>2, InvHolds, RecordInvHolds, PTL
        DEF Spec, HangupIsFinal, HangupFreezesHistory
=============================================================================
