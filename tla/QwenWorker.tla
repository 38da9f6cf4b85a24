----------------------------- MODULE QwenWorker -----------------------------
(***************************************************************************)
(* The Qwen3 adapter of the AI backend (app/models/tts_qwen3.py), the      *)
(* worker process it supervises (tts_qwen3_worker.py) and the protocol     *)
(* between them (tts_qwen3_protocol.py).                                   *)
(*                                                                         *)
(* Threads of the backend call load, prewarm, stream, invalidate and       *)
(* unload, which serialise on _operation_lock, and cancel, which does not  *)
(* take it.  The worker has a main thread and a thread that reads its      *)
(* commands.  A line on a pipe is never lost or reordered; the process may *)
(* die, hang or print garbage at any time.  Request identifiers are        *)
(* unique, so an attempt is identified with its request.                   *)
(***************************************************************************)
EXTENDS Naturals, Sequences, FiniteSets

CONSTANTS
    Requests,      \* calls of stream()
    Controls,      \* calls of load(), prewarm(), invalidate() and unload()
    Does,          \* which of these each of them may be
    Cancels,       \* calls of cancel() from other threads
    Voices,        \* voice prompts
    MaxWorkers,    \* bound: processes that can be spawned, later spawns fail
    MaxChunks,     \* bound: chunks of one generation
    MaxEvents,     \* bound: calls that begin, chunks and faults, together
    PendingLimit,  \* size at which _PENDING_CANCELS is cleared
    None           \* Python's None

Kinds == {"load", "prewarm", "invalidate", "unload"}

ASSUME BoundAssumption ==
    /\ MaxWorkers \in Nat \ {0} /\ MaxChunks \in Nat /\ MaxEvents \in Nat
    /\ PendingLimit \in Nat \ {0}
ASSUME ControlAssumption == Does \in [Controls -> SUBSET Kinds]
ASSUME NameAssumption ==
    /\ Requests \cap Controls = {} /\ Cancels \cap (Requests \cup Controls) = {}
    /\ None \notin Requests \cup Controls \cup Cancels \cup Voices \cup BOOLEAN

Operations == Requests \cup Controls
Callers == Cancels \cup Controls     \* invalidate and unload call cancel too
Threads == Operations \cup Callers
Workers == 1..MaxWorkers

VARIABLES
    \* Qwen3TtsAdapter: _worker, loaded, _selected_voice_key, _operation_lock,
    \* _active_request_id and _recent_terminal_statuses
    worker, loaded, selected, oplock, active, statuses,
    \* every operation: where it is, what it is, its voice, the line queue its
    \* read waits on, and the chunks it yielded
    opc, kind, voice, src, got,
    \* every call of cancel: where it is, its request, what it returned
    cpc, target, result,
    \* the processes, for each of them the thread that is ending it, and the events so far
    w, killer, events

adapter == <<worker, loaded, selected, oplock, active, statuses>>
operation == <<opc, kind, voice, src, got>>
cancellation == <<cpc, target, result>>
vars == <<adapter, operation, cancellation, w, killer, events>>

Awaiting == {"loading", "prewarming", "streaming", "draining", "invalidating",
             "unloading"}
Active == {"registered", "streaming", "yielded", "finally", "abandoning", "draining",
           "stopping", "closing"}
OpPc == {"idle", "cancelling", "locking", "entered", "ready", "leaving", "done"}
            \cup Awaiting \cup Active
CancelPc == {"idle", "start", "send", "wait", "stop", "done"}
Ends == {"done", "cancelled", "refused", "failed"}

Command(op, o, v) == [op |-> op, req |-> o, voice |-> v]
Event(e, o) == [event |-> e, req |-> o]
Commands == [op : Kinds \cup {"generate", "cancel"}, req : Operations,
             voice : Voices \cup {None}]
Events == [event : Ends \cup {"loaded", "prompt_ready", "prompt_failed", "invalidated",
                              "absent", "chunk", "garbage"},
           req : Operations \cup {None}]

\* A process: its life, what is on its pipes, whether its reader thread runs,
\* and the globals of tts_qwen3_worker.py.  heard and forgotten are history: the
\* requests whose cancel line it has read, and those of them that a full
\* _PENDING_CANCELS threw away.
Unborn == [life |-> "unborn", stdin |-> <<>>, commands |-> <<>>, out |-> <<>>,
           reader |-> FALSE, runtime |-> FALSE, prompt |-> None, job |-> None,
           chunks |-> 0, cancel |-> FALSE, pending |-> {}, completed |-> {},
           heard |-> {}, forgotten |-> {}]
Process == [life : {"unborn", "alive", "dead"}, stdin : Seq(Commands),
            commands : Seq(Commands), out : Seq(Events), reader : BOOLEAN,
            runtime : BOOLEAN, prompt : Voices \cup {None}, job : Requests \cup {None},
            chunks : 0..MaxChunks, cancel : BOOLEAN, pending : SUBSET Requests,
            completed : SUBSET Requests, heard : SUBSET Requests,
            forgotten : SUBSET Requests]

TypeOK ==
    /\ worker \in 0..MaxWorkers /\ loaded \in BOOLEAN
    /\ selected \in Voices \cup {None}
    /\ oplock \in Operations \cup {None} /\ active \in Requests \cup {None}
    /\ statuses \in [Requests -> {"cancelled", "already_done", None}]
    /\ opc \in [Operations -> OpPc]
    /\ kind \in [Operations -> Kinds \cup {"stream", None}]
    /\ voice \in [Operations -> Voices \cup {None}]
    /\ src \in [Operations -> 0..MaxWorkers]
    /\ got \in [Requests -> 0..MaxChunks]
    /\ cpc \in [Callers -> CancelPc]
    /\ target \in [Callers -> Requests \cup {None}]
    /\ result \in [Callers -> BOOLEAN \cup {None}]
    /\ w \in [Workers -> Process]
    /\ killer \in [Workers -> Threads \cup {None}]
    /\ events \in 0..MaxEvents

Init ==
    /\ worker = 0 /\ loaded = FALSE /\ selected = None /\ oplock = None /\ active = None
    /\ statuses = [r \in Requests |-> None]
    /\ opc = [o \in Operations |-> "idle"]
    /\ kind = [o \in Operations |-> None] /\ voice = [o \in Operations |-> None]
    /\ src = [o \in Operations |-> 0]
    /\ got = [r \in Requests |-> 0]
    /\ cpc = [c \in Callers |-> "idle"] /\ target = [c \in Callers |-> None]
    /\ result = [c \in Callers |-> None]
    /\ w = [i \in Workers |-> Unborn]
    /\ killer = [i \in Workers |-> None]
    /\ events = 0
-----------------------------------------------------------------------------
(* The adapter's hold on the process *)

Running == worker # 0 /\ w[worker].life = "alive"
Spawnable == \E i \in Workers : w[i].life = "unborn"
Fresh == CHOOSE i \in Workers : w[i].life = "unborn"

\* _send_command: _ensure_worker spawns a process when there is none or when
\* poll() reports that it exited; the line is then in its pipe.
SendCommand(cmd) ==
    LET i == IF Running THEN worker ELSE Fresh IN
    /\ Running \/ Spawnable
    /\ worker' = i
    /\ w' = [w EXCEPT ![i].life = "alive", ![i].stdin = Append(@, cmd)]

\* What is left of a process that ended: the lines its reader thread delivers.
Remains(p) == [Unborn EXCEPT !.life = "dead", !.out = p.out]
Gone == [Unborn EXCEPT !.life = "dead"]

\* _stop_worker, first half: thread x forgets process, model and prompt (and wakes
\* every cancel that waits).  The process itself still lives.
StopWorker(x) ==
    /\ worker' = 0 /\ loaded' = FALSE /\ selected' = None
    /\ killer' = [i \in Workers |-> IF i = worker THEN x ELSE killer[i]]
    /\ UNCHANGED w

\* Second half: its pipe is closed, it is terminated, and killed when it has not
\* ended in time.  Until it is gone the thread that stops it does nothing else.  A
\* line queue that nobody reads any more is garbage.
Reap(i) ==
    /\ killer[i] # None
    /\ killer' = [killer EXCEPT ![i] = None]
    /\ w' = [w EXCEPT ![i] = IF \E o \in Operations : src[o] = i THEN Remains(@) ELSE Gone]
    /\ UNCHANGED <<adapter, operation, cancellation, events>>

\* The bound on a run.
Happens == events < MaxEvents /\ events' = events + 1

\* Thread x waits for no process to end.
Free(x) == \A i \in Workers : killer[i] # x

At(o, place) == opc' = [opc EXCEPT ![o] = place]
Return(o) == At(o, "done") /\ oplock' = None
-----------------------------------------------------------------------------
(* Operations: entry *)

BeginStream(r, v) ==
    /\ opc[r] = "idle" /\ Happens
    /\ At(r, "locking")
    /\ kind' = [kind EXCEPT ![r] = "stream"] /\ voice' = [voice EXCEPT ![r] = v]
    /\ UNCHANGED <<adapter, src, got, cancellation, w, killer>>

\* load and prewarm go for the lock at once; invalidate returns when the voice
\* is not selected, and like unload first cancels the active request.
BeginControl(o, k, v) ==
    /\ opc[o] = "idle" /\ Happens
    /\ kind' = [kind EXCEPT ![o] = k] /\ voice' = [voice EXCEPT ![o] = v]
    /\ \/ k \in {"load", "prewarm"} /\ At(o, "locking") /\ UNCHANGED cancellation
       \/ k = "invalidate" /\ selected # v /\ At(o, "done") /\ UNCHANGED cancellation
       \/ /\ k = "unload" \/ (k = "invalidate" /\ selected = v)
          /\ \/ active = None /\ At(o, "locking") /\ UNCHANGED cancellation
             \/ /\ active # None /\ At(o, "cancelling")
                /\ target' = [target EXCEPT ![o] = active]
                /\ cpc' = [cpc EXCEPT ![o] = "start"]
                /\ UNCHANGED result
    /\ UNCHANGED <<adapter, src, got, w, killer>>

CancelledFirst(o) ==
    /\ opc[o] = "cancelling" /\ cpc[o] = "done"
    /\ At(o, "locking")
    /\ UNCHANGED <<adapter, kind, voice, src, got, cancellation, w, killer, events>>

Lock(o) ==
    /\ opc[o] = "locking" /\ oplock = None
    /\ oplock' = o /\ At(o, "entered")
    /\ UNCHANGED <<worker, loaded, selected, active, statuses, kind, voice, src,
                   got, cancellation, w, killer, events>>
-----------------------------------------------------------------------------
(* Operations: the command *)

\* load() does nothing for a loaded worker that lives; stream and prewarm only
\* look at the flag.
NeedsLoad(o) == IF kind[o] = "load" THEN ~(loaded /\ Running) ELSE ~loaded

\* The load is over, or was not needed.
AtWork(o) == opc[o] = "ready" \/ (opc[o] = "entered" /\ loaded)

SendsLoad(o) ==
    opc[o] = "entered" /\ kind[o] \in {"load", "stream", "prewarm"} /\ NeedsLoad(o)
SendsPrewarm(o) == kind[o] = "prewarm" /\ AtWork(o)
SendsInvalidate(o) ==
    opc[o] = "entered" /\ kind[o] = "invalidate" /\ selected = voice[o] /\ loaded
SendsUnload(o) == opc[o] = "entered" /\ kind[o] = "unload" /\ Running /\ loaded

Issue(o, op, place) ==
    /\ SendCommand(Command(op, o, voice[o]))
    /\ At(o, place)
    /\ UNCHANGED <<loaded, oplock, active, statuses, kind, voice, src, got,
                   cancellation, killer, events>>

SendLoad(o) == SendsLoad(o) /\ Issue(o, "load", "loading") /\ UNCHANGED selected
SendPrewarm(o) == SendsPrewarm(o) /\ Issue(o, "prewarm", "prewarming") /\ selected' = None
SendInvalidate(o) ==
    SendsInvalidate(o) /\ Issue(o, "invalidate", "invalidating") /\ UNCHANGED selected
SendUnload(o) == SendsUnload(o) /\ Issue(o, "unload", "unloading") /\ UNCHANGED selected

\* A stream claims _active_request_id before its command is written.
Register(r) ==
    /\ kind[r] = "stream" /\ AtWork(r) /\ selected = voice[r]
    /\ active' = r /\ At(r, "registered")
    /\ UNCHANGED <<worker, loaded, selected, oplock, statuses, kind, voice, src, got,
                   cancellation, w, killer, events>>

SendGenerate(r) ==
    /\ opc[r] = "registered"
    /\ Issue(r, "generate", "streaming") /\ UNCHANGED selected

\* Ways to leave without a command: already loaded, or the runtime is not
\* installed; the voice of a stream is not the prepared one, or its text or the
\* reference of a prewarm is refused; the voice to invalidate is no longer
\* selected, or it is but the worker was stopped.
NothingToDo(o) ==
    /\ \/ opc[o] = "entered" /\ kind[o] = "load" /\ ~NeedsLoad(o) /\ UNCHANGED selected
       \/ SendsLoad(o) /\ UNCHANGED selected
       \/ kind[o] \in {"stream", "prewarm"} /\ AtWork(o) /\ UNCHANGED selected
       \/ /\ opc[o] = "entered" /\ kind[o] = "invalidate" /\ ~SendsInvalidate(o)
          /\ selected' = IF selected = voice[o] THEN None ELSE selected
    /\ Return(o)
    /\ UNCHANGED <<worker, loaded, active, statuses, kind, voice, src, got,
                   cancellation, w, killer, events>>

\* unload found no loaded worker; or a command needs a process and the spawn fails.
StopAtOnce(o) ==
    /\ \/ opc[o] = "entered" /\ kind[o] = "unload" /\ ~SendsUnload(o)
       \/ /\ SendsLoad(o) \/ SendsPrewarm(o) \/ SendsInvalidate(o)
          /\ ~Running /\ ~Spawnable
    /\ StopWorker(o) /\ At(o, "leaving")
    /\ UNCHANGED <<oplock, active, statuses, kind, voice, src, got, cancellation, events>>

\* The spawn fails under a stream, for its command or for the cancel it sends.
SpawnFails(r) ==
    /\ opc[r] \in {"registered", "abandoning"} /\ ~Running /\ ~Spawnable
    /\ StopWorker(r) /\ At(r, IF opc[r] = "registered" THEN "finally" ELSE "stopping")
    /\ UNCHANGED <<oplock, active, statuses, kind, voice, src, got, cancellation,
                   events>>
-----------------------------------------------------------------------------
(* Operations: the answer.  _read_event waits on the line queue of the process *)
(* that is current when it is called.                                        *)

Capture(o) ==
    /\ opc[o] \in Awaiting /\ src[o] = 0 /\ worker # 0
    /\ src' = [src EXCEPT ![o] = worker]
    /\ UNCHANGED <<adapter, opc, kind, voice, got, cancellation, w, killer, events>>

\* Where an operation goes when its read raises: a stream runs its finally, a
\* drain and unload swallow the error and stop the worker, the rest raise.
Raise(o) ==
    /\ src' = [src EXCEPT ![o] = 0]
    /\ \/ opc[o] = "streaming" /\ At(o, "finally")
       \/ opc[o] \in {"draining", "unloading"} /\ At(o, "stopping")
       \/ opc[o] \in {"loading", "prewarming", "invalidating"} /\ At(o, "leaving")

\* _worker_lines is None
NoQueue(o) ==
    /\ opc[o] \in Awaiting /\ src[o] = 0 /\ worker = 0
    /\ Raise(o)
    /\ UNCHANGED <<adapter, kind, voice, got, cancellation, w, killer, events>>

Lines(o) == IF src[o] = 0 THEN <<>> ELSE w[src[o]].out

Expected(o) ==
    LET names == [loading |-> {"loaded", "failed"},
                  prewarming |-> {"prompt_ready", "prompt_failed"},
                  streaming |-> {"chunk"} \cup Ends,
                  draining |-> {"chunk"} \cup Ends,
                  invalidating |-> {"invalidated"},
                  unloading |-> {"done"}]
    IN /\ Lines(o) # <<>> /\ Head(Lines(o)).req = o
       /\ Head(Lines(o)).event \in names[opc[o]]

\* Mutant: the read of a line has no deadline.
ReadFailsLate(o) ==
    /\ opc[o] \in Awaiting /\ src[o] # 0 /\ ~Expected(o)
    /\ Lines(o) # <<>> \/ w[src[o]].life = "dead"
    /\ StopWorker(o) /\ Raise(o)
    /\ UNCHANGED <<oplock, active, statuses, kind, voice, got, cancellation, events>>

\* Garbage, an event of another request, an event out of place, the end of the
\* stream of lines, or the deadline: the worker is stopped and the read raises.
ReadFails(o) ==
    /\ opc[o] \in Awaiting /\ src[o] # 0 /\ ~Expected(o)
    /\ StopWorker(o) /\ Raise(o)
    /\ UNCHANGED <<oplock, active, statuses, kind, voice, got, cancellation, events>>

\* The next line of o's queue is an expected event e.
Reads(o, e) ==
    /\ opc[o] \in Awaiting /\ Expected(o) /\ Head(Lines(o)).event = e
    /\ src' = [src EXCEPT ![o] = 0]

Took(o) == w' = [w EXCEPT ![src[o]].out = Tail(@)]

ReadLoaded(o) ==
    /\ Reads(o, "loaded") /\ Took(o)
    /\ loaded' = TRUE
    /\ \/ kind[o] = "load" /\ Return(o)
       \/ kind[o] # "load" /\ At(o, "ready") /\ UNCHANGED oplock
    /\ UNCHANGED <<worker, selected, active, statuses, kind, voice, got,
                   cancellation, killer, events>>

ReadLoadFailed(o) ==
    /\ opc[o] = "loading" /\ Reads(o, "failed")
    /\ StopWorker(o) /\ At(o, "leaving")
    /\ UNCHANGED <<oplock, active, statuses, kind, voice, got, cancellation, events>>

ReadPrompt(o) ==
    /\ \/ Reads(o, "prompt_ready") /\ selected' = voice[o]
       \/ Reads(o, "prompt_failed") /\ UNCHANGED selected
       \/ Reads(o, "invalidated") /\ selected' = None
    /\ Took(o) /\ Return(o)
    /\ UNCHANGED <<worker, loaded, active, statuses, kind, voice, got,
                   cancellation, killer, events>>

ReadUnloaded(o) ==
    /\ opc[o] = "unloading" /\ Reads(o, "done") /\ Took(o)
    /\ At(o, "stopping")
    /\ UNCHANGED <<adapter, kind, voice, got, cancellation, killer, events>>

\* A chunk is yielded to the consumer, or dropped when the stream is drained.
ReadChunk(r) ==
    /\ Reads(r, "chunk") /\ Took(r)
    /\ \/ opc[r] = "streaming" /\ got' = [got EXCEPT ![r] = @ + 1] /\ At(r, "yielded")
       \/ opc[r] = "draining" /\ UNCHANGED <<got, opc>>
    /\ UNCHANGED <<adapter, kind, voice, cancellation, killer, events>>

\* The terminal of a generation is recorded and resolves a cancel that waits; a
\* runtime failure also stops the worker, unless the stream is being drained.
ReadTerminal(r, e) ==
    /\ opc[r] \in {"streaming", "draining"} /\ Reads(r, e)
    /\ statuses' = [statuses EXCEPT ![r] = IF e = "cancelled" THEN e ELSE "already_done"]
    /\ At(r, "closing")
    /\ \/ e = "failed" /\ opc[r] = "streaming" /\ StopWorker(r)
       \/ /\ e # "failed" \/ opc[r] = "draining"
          /\ Took(r) /\ UNCHANGED <<worker, loaded, selected, killer>>
    /\ UNCHANGED <<oplock, active, kind, voice, got, cancellation, events>>

\* The consumer asks for the next chunk, or closes the generator.
Consume(r) ==
    /\ opc[r] = "yielded"
    /\ At(r, "streaming") \/ At(r, "finally")
    /\ UNCHANGED <<adapter, kind, voice, src, got, cancellation, w, killer, events>>
-----------------------------------------------------------------------------
(* Operations: the way out *)

\* Mutant: an abandoned stream is left to the worker.
FinallyNoDrain(r) ==
    /\ opc[r] = "finally"
    /\ At(r, "closing")
    /\ UNCHANGED <<adapter, kind, voice, src, got, cancellation, w, killer, events>>

\* The finally of a stream that saw no terminal: nothing to drain in a dead worker.
Finally(r) ==
    /\ opc[r] = "finally"
    /\ At(r, IF Running THEN "abandoning" ELSE "closing")
    /\ UNCHANGED <<adapter, kind, voice, src, got, cancellation, w, killer, events>>

Abandon(r) ==
    /\ opc[r] = "abandoning"
    /\ Issue(r, "cancel", "draining") /\ UNCHANGED selected

Stop(o) ==
    /\ opc[o] = "stopping" /\ StopWorker(o)
    /\ At(o, IF kind[o] = "unload" THEN "leaving" ELSE "closing")
    /\ UNCHANGED <<oplock, active, statuses, kind, voice, src, got, cancellation, events>>

\* A control whose last act was to stop the worker, or whose read raised.
Leave(o) ==
    /\ opc[o] = "leaving" /\ Return(o)
    /\ UNCHANGED <<worker, loaded, selected, active, statuses, kind, voice, src, got,
                   cancellation, w, killer, events>>

\* Mutant: _active_request_id is not reset.
CloseActive(r) ==
    /\ opc[r] = "closing"
    /\ Return(r)
    /\ UNCHANGED <<worker, loaded, selected, active, statuses, kind, voice, src, got,
                   cancellation, w, killer, events>>

Close(r) ==
    /\ opc[r] = "closing"
    /\ active' = None /\ Return(r)
    /\ UNCHANGED <<worker, loaded, selected, statuses, kind, voice, src, got,
                   cancellation, w, killer, events>>
-----------------------------------------------------------------------------
(* cancel *)

CancelAt(c, place) == cpc' = [cpc EXCEPT ![c] = place]
Answer(c, ok) == CancelAt(c, "done") /\ result' = [result EXCEPT ![c] = ok]
Forget(r) == statuses' = [statuses EXCEPT ![r] = None]

CancelBegin(c, r) ==
    /\ cpc[c] = "idle" /\ opc[r] # "idle" /\ Happens
    /\ CancelAt(c, "start") /\ target' = [target EXCEPT ![c] = r]
    /\ UNCHANGED <<adapter, operation, result, w, killer>>

CancelStart(c) ==
    /\ cpc[c] = "start"
    /\ \/ target[c] = active /\ CancelAt(c, "send") /\ UNCHANGED <<statuses, result>>
       \/ /\ target[c] # active
          /\ Answer(c, statuses[target[c]] # None) /\ Forget(target[c])
    /\ UNCHANGED <<worker, loaded, selected, oplock, active, operation, target, w,
                   killer, events>>

CancelSend(c) ==
    /\ cpc[c] = "send"
    /\ SendCommand(Command("cancel", target[c], None))
    /\ CancelAt(c, "wait")
    /\ UNCHANGED <<loaded, selected, oplock, active, statuses, operation, target,
                   result, killer, events>>

CancelNoWorker(c) ==
    /\ cpc[c] = "send" /\ ~Running /\ ~Spawnable
    /\ StopWorker(c) /\ Answer(c, FALSE)
    /\ UNCHANGED <<oplock, active, statuses, operation, target, events>>

\* Mutant: the end of the wait counts as the acknowledgement.
CancelPopBlind(c) ==
    /\ cpc[c] = "wait"
    /\ Forget(target[c]) /\ Answer(c, TRUE)
    /\ UNCHANGED <<worker, loaded, selected, oplock, active, operation, target, w,
                   killer, events>>

\* The wait ends with the acknowledgement or with its two seconds; what counts is the
\* terminal status that is recorded by then.
CancelPop(c) ==
    /\ cpc[c] = "wait"
    /\ Forget(target[c])
    /\ \/ statuses[target[c]] # None /\ Answer(c, TRUE)
       \/ statuses[target[c]] = None /\ CancelAt(c, "stop") /\ UNCHANGED result
    /\ UNCHANGED <<worker, loaded, selected, oplock, active, operation, target, w,
                   killer, events>>

CancelStop(c) ==
    /\ cpc[c] = "stop"
    /\ StopWorker(c) /\ Answer(c, FALSE)
    /\ UNCHANGED <<oplock, active, statuses, operation, target, events>>
-----------------------------------------------------------------------------
(* The worker process *)

\* A process that is being ended takes no step: what it may still do is nothing it
\* could not have done just before it was forgotten.
Became(i, p) ==
    /\ w[i].life = "alive" /\ killer[i] = None /\ w' = [w EXCEPT ![i] = p]
    /\ UNCHANGED <<adapter, operation, cancellation, killer>>

\* _signal_cancel: the active generation's event is set; a finished one is
\* ignored; any other identifier is kept for a generation yet to begin, and a
\* full _PENDING_CANCELS is emptied first.
SignalCancel(p, r) ==
    LET keeps == p.job # r /\ r \notin p.completed
        full == Cardinality(p.pending) >= PendingLimit
    IN [p EXCEPT !.cancel = @ \/ p.job = r,
                 !.pending = IF keeps THEN (IF full THEN {} ELSE @) \cup {r} ELSE @,
                 !.heard = @ \cup {r},
                 !.forgotten = (IF keeps /\ full THEN @ \cup p.pending ELSE @) \ {r}]

\* The main thread reads the first command itself; afterwards a thread reads.
ReadLine(i) ==
    LET p == w[i]
        cmd == Head(p.stdin)
        rest == [p EXCEPT !.stdin = Tail(@)]
    IN /\ p.stdin # <<>>
       /\ p.reader \/ p.commands = <<>>
       /\ Became(i, IF cmd.op = "cancel" THEN SignalCancel(rest, cmd.req)
                    ELSE [rest EXCEPT !.commands = Append(@, cmd)])
       /\ UNCHANGED events

\* The next command of _COMMANDS is op, and the main thread is free for it.
Dispatches(i, op) ==
    w[i].job = None /\ w[i].commands # <<>> /\ Head(w[i].commands).op = op

\* The process after it has served its next command with the event e.
Served(i, e) ==
    [w[i] EXCEPT !.commands = Tail(@), !.reader = TRUE,
                 !.out = Append(@, Event(e, Head(w[i].commands).req))]

DispatchLoad(i) ==
    /\ Dispatches(i, "load")
    /\ \/ Became(i, [Served(i, "loaded") EXCEPT !.runtime = TRUE])
       \/ Became(i, Served(i, "failed"))
    /\ UNCHANGED events

DispatchPrewarm(i) ==
    /\ Dispatches(i, "prewarm")
    /\ \/ /\ w[i].runtime
          /\ Became(i, [Served(i, "prompt_ready") EXCEPT
                            !.prompt = Head(w[i].commands).voice])
       \/ Became(i, [Served(i, "prompt_failed") EXCEPT
                        !.prompt = IF w[i].runtime THEN None ELSE @])
    /\ UNCHANGED events

DispatchGenerate(i) ==
    LET cmd == Head(w[i].commands) IN
    /\ Dispatches(i, "generate")
    /\ \/ /\ ~w[i].runtime \/ w[i].prompt # cmd.voice
          /\ Became(i, Served(i, "refused"))
       \/ /\ w[i].runtime /\ w[i].prompt = cmd.voice
          /\ Became(i, [w[i] EXCEPT !.commands = Tail(@), !.reader = TRUE,
                                    !.job = cmd.req, !.chunks = 0,
                                    !.cancel = cmd.req \in w[i].pending,
                                    !.pending = @ \ {cmd.req}])
    /\ UNCHANGED events

DispatchInvalidate(i) ==
    LET matched == w[i].prompt = Head(w[i].commands).voice IN
    /\ Dispatches(i, "invalidate")
    /\ Became(i, IF matched THEN [Served(i, "invalidated") EXCEPT !.prompt = None]
                            ELSE Served(i, "absent"))
    /\ UNCHANGED events

DispatchUnload(i) ==
    /\ Dispatches(i, "unload")
    /\ Became(i, Remains(Served(i, "done")))
    /\ UNCHANGED events

GenerateChunk(i) ==
    /\ w[i].job # None /\ ~w[i].cancel /\ w[i].chunks < MaxChunks
    /\ Became(i, [w[i] EXCEPT !.chunks = @ + 1, !.out = Append(@, Event("chunk", w[i].job))])
    /\ Happens

\* A generation ends: cancelled, by itself, at the ceiling, or by an error.
GenerateEnd(i, e) ==
    /\ w[i].job # None
    /\ e = "cancelled" => w[i].cancel
    /\ e \in {"done", "refused"} => ~w[i].cancel
    /\ Became(i, [w[i] EXCEPT !.job = None, !.cancel = FALSE,
                              !.completed = @ \cup {w[i].job},
                              !.out = Append(@, Event(e, w[i].job))])
    /\ UNCHANGED events

\* The process dies, or prints a line that does not parse.
Fault(i) ==
    /\ Happens
    /\ \/ Became(i, Remains(w[i]))
       \/ Became(i, [w[i] EXCEPT !.out = Append(@, Event("garbage", None))])
-----------------------------------------------------------------------------
StreamStep(r) ==
    \/ Register(r) \/ SendGenerate(r) \/ SpawnFails(r) \/ ReadChunk(r)
    \/ (\E e \in Ends : ReadTerminal(r, e))
    \/ Consume(r) \/ Finally(r) \/ Abandon(r) \/ Close(r)

OperationStep(o) ==
    \/ Lock(o) \/ SendLoad(o) \/ SendPrewarm(o) \/ NothingToDo(o) \/ StopAtOnce(o)
    \/ Capture(o) \/ NoQueue(o) \/ ReadFails(o) \/ ReadLoaded(o) \/ ReadLoadFailed(o)
    \/ ReadPrompt(o) \/ Stop(o) \/ Leave(o)

ControlStep(o) ==
    CancelledFirst(o) \/ SendInvalidate(o) \/ SendUnload(o) \/ ReadUnloaded(o)

CancelStep(c) ==
    \/ CancelStart(c) \/ CancelSend(c) \/ CancelNoWorker(c) \/ CancelPop(c)
    \/ CancelStop(c)

WorkerStep(i) ==
    \/ ReadLine(i) \/ DispatchLoad(i) \/ DispatchPrewarm(i) \/ DispatchGenerate(i)
    \/ DispatchInvalidate(i) \/ DispatchUnload(i) \/ GenerateChunk(i)
    \/ (\E e \in Ends : GenerateEnd(i, e))

Calls ==
    \/ \E r \in Requests, v \in Voices : BeginStream(r, v)
    \/ \E o \in Controls, v \in Voices : \E k \in Does[o] : BeginControl(o, k, v)
    \/ \E c \in Cancels, r \in Requests : CancelBegin(c, r)

Next ==
    \/ Calls
    \/ \E r \in Requests : Free(r) /\ StreamStep(r)
    \/ \E o \in Operations : Free(o) /\ OperationStep(o)
    \/ \E o \in Controls : Free(o) /\ ControlStep(o)
    \/ \E c \in Callers : Free(c) /\ CancelStep(c)
    \/ \E i \in Workers : WorkerStep(i) \/ Fault(i) \/ Reap(i)

\* A call of thread x is under way and does not wait for the lock.
Busy(x) ==
    \/ /\ x \in Operations /\ opc[x] \notin {"idle", "done"}
       /\ opc[x] = "locking" => oplock = None
    \/ x \in Callers /\ cpc[x] \notin {"idle", "done"}

\* What thread x does next, of its own accord.
ThreadStep(x) ==
    /\ Free(x) /\ Busy(x)
    /\ \/ x \in Requests /\ StreamStep(x)
       \/ x \in Operations /\ OperationStep(x)
       \/ x \in Controls /\ ControlStep(x)
       \/ x \in Callers /\ CancelStep(x)

\* Where a thread is, which each of its steps changes.
Place(x) ==
    <<IF x \in Operations THEN <<opc[x], src[x]>> ELSE None,
      IF x \in Callers THEN cpc[x] ELSE None>>

\* The threads of the backend run, every wait of theirs has a timeout, a killed
\* process ends, and a consumer of a stream takes the next chunk or closes it.
\* Nothing else is assumed of the worker, and nothing of the callers.
Fairness ==
    /\ \A x \in Threads : WF_(Place(x))(ThreadStep(x))
    /\ WF_killer(\E i \in Workers : Reap(i))

Spec == Init /\ [][Next]_vars
FairSpec == Spec /\ Fairness
-----------------------------------------------------------------------------
(* Properties *)

\* An answer never outlives its operation: what an operation finds in its line
\* queue, garbage apart, is for itself, so no generation meets the chunks or the
\* terminal of an earlier one.
OwnEvents ==
    \A o \in Operations : \A n \in DOMAIN Lines(o) :
        Lines(o)[n].event = "garbage" \/ Lines(o)[n].req = o

\* A cancel that its process has read is lost in one way only: a generation that
\* runs has its event set, even when the cancel was read before the generation
\* began, unless _PENDING_CANCELS was full meanwhile and was emptied, for which as
\* many other cancels had to be read.
CancelIsHeard ==
    \A i \in Workers :
        /\ w[i].job \in w[i].heard => w[i].cancel \/ w[i].job \in w[i].forgotten
        /\ w[i].forgotten # {} => Cardinality(w[i].heard) >= PendingLimit

\* Once cancel() has returned True no chunk of that request is yielded.
CancelMeansSilent ==
    [][\A c \in Callers : result[c] = TRUE => got'[target[c]] = got[target[c]]]_vars

\* The guard "generation is already active" of stream() never fires: the registered
\* request is the one that holds the operation lock, whatever cancel, failures and
\* abandoned iterators did before, so whoever gets the lock finds none.
OneGeneration == active # None => oplock = active

\* When invalidate() returns after it was admitted, successfully or not, no process
\* holds the voice's prompt, except one that a cancel() forgot and is still ending:
\* cancel() stops the worker without the operation lock, so the prompt is already
\* unselected while its process is on the way out.
EvictionIsComplete ==
    [][\A o \in Controls :
         kind[o] = "invalidate" /\ opc[o] \in {"entered", "invalidating", "leaving"}
           /\ opc'[o] = "done"
            => \A i \in Workers :
                  w'[i].life = "alive" /\ w'[i].prompt = voice[o]
                    => killer'[i] \in Callers \ {o}]_vars

\* Every call returns: whatever the worker does, nobody waits for ever on a lock, a
\* line, an acknowledgement or the end of the process.  A call that began is never
\* "idle" again.
CallsReturn ==
    /\ \A o \in Operations : []<>(opc[o] \in {"idle", "done"})
    /\ \A c \in Callers : []<>(cpc[c] \in {"idle", "done"} /\ Free(c))

\* The exchange with the worker is sound: an operation finds only its own answers, and a
\* cancel is lost on the way to its generation by the overflow alone.
PipesAreSound == TypeOK /\ OwnEvents /\ CancelIsHeard

\* A return value is the truth: True from cancel() means silence, and when invalidate()
\* is over the prompt is gone or on the way out with its process.
ReturnsAreHonest == CancelMeansSilent /\ EvictionIsComplete
=============================================================================
