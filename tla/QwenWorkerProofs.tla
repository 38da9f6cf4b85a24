-------------------------- MODULE QwenWorkerProofs --------------------------
(***************************************************************************)
(* Proofs about QwenWorker, for every set of requests, controls, cancels   *)
(* and voices and every bound on processes, chunks and events.             *)
(***************************************************************************)
EXTENDS QwenWorker, SequenceTheorems, FiniteSetTheorems, TLAPS

\* Where an operation is before it has the lock and after it gave it back.
Outside == {"idle", "cancelling", "locking", "done"}

\* The places only a stream reaches.
StreamOnly == Active \ {"stopping"}

\* The types of the variables that say who works.
TypeWork ==
    /\ opc \in [Operations -> OpPc]
    /\ kind \in [Operations -> Kinds \cup {"stream", None}]
    /\ oplock \in Operations \cup {None} /\ active \in Requests \cup {None}

\* Whoever is at work has the operation lock.
WorkersLock == \A o \in Operations : opc[o] \notin Outside => oplock = o

\* An operation is where its kind can take it, and the streams are the requests.
KindFits(o) ==
    /\ o \in Requests /\ opc[o] # "idle" => kind[o] = "stream"
    /\ o \in Controls /\ opc[o] # "idle" => kind[o] # "stream"
    /\ opc[o] \in StreamOnly => kind[o] = "stream"
    /\ opc[o] = "loading" => kind[o] \in {"load", "prewarm", "stream"}
    /\ opc[o] = "ready" => kind[o] \in {"prewarm", "stream"}
    /\ opc[o] = "prewarming" => kind[o] = "prewarm"
    /\ opc[o] = "invalidating" => kind[o] = "invalidate"
    /\ opc[o] = "unloading" => kind[o] = "unload"
    /\ opc[o] = "stopping" => kind[o] \in {"unload", "stream"}
KindsFit == \A o \in Operations : KindFits(o)

\* The registered request is a stream between its registration and its close.
ActiveStreams ==
    \A o \in Operations : active = o <=> (opc[o] \in Active /\ kind[o] = "stream")

WorkInv == TypeWork /\ WorkersLock /\ KindsFit /\ ActiveStreams

-----------------------------------------------------------------------------
(* What a step does to those who work.                                      *)

work == <<opc, kind, oplock, active>>

\* A call begins.
Begins(o, k, place) ==
    /\ opc[o] = "idle" /\ place \in {"locking", "cancelling", "done"}
    /\ k = "stream" \/ (o \in Controls /\ k \in Kinds)
    /\ o \in Requests => k = "stream"
    /\ o \in Controls => k # "stream"
    /\ opc' = [opc EXCEPT ![o] = place] /\ kind' = [kind EXCEPT ![o] = k]
    /\ UNCHANGED <<oplock, active>>

\* A caller of cancel goes on to the lock.
Queues(o) ==
    /\ opc[o] = "cancelling" /\ opc' = [opc EXCEPT ![o] = "locking"]
    /\ UNCHANGED <<kind, oplock, active>>

\* Whoever finds the lock free takes it.
Enters(o) ==
    /\ opc[o] = "locking" /\ oplock = None
    /\ oplock' = o /\ opc' = [opc EXCEPT ![o] = "entered"]
    /\ UNCHANGED <<kind, active>>

\* Whoever works goes on at a place of its kind, a registered stream as one.
GoesOn(o, place) ==
    /\ opc[o] \notin Outside /\ place \in OpPc \ Outside
    /\ opc' = [opc EXCEPT ![o] = place]
    /\ KindFits(o)'
    /\ (opc[o] \in Active /\ kind[o] = "stream") <=> (place \in Active /\ kind[o] = "stream")
    /\ UNCHANGED <<kind, oplock, active>>

\* Whoever is not a registered stream returns.
Leaves(o) ==
    /\ opc[o] \notin Outside /\ ~(opc[o] \in Active /\ kind[o] = "stream")
    /\ opc' = [opc EXCEPT ![o] = "done"] /\ oplock' = None
    /\ UNCHANGED <<kind, active>>

\* A stream registers, and closes.
Registers(o) ==
    /\ o \in Requests
    /\ opc[o] \notin Outside /\ kind[o] = "stream"
    /\ active' = o /\ opc' = [opc EXCEPT ![o] = "registered"]
    /\ UNCHANGED <<kind, oplock>>
Closes(o) ==
    /\ opc[o] = "closing" /\ active' = None
    /\ opc' = [opc EXCEPT ![o] = "done"] /\ oplock' = None
    /\ UNCHANGED kind

\* One of these, or nothing of the kind.
Works ==
    \/ UNCHANGED work
    \/ \E o \in Operations :
          \/ \E k \in Kinds \cup {"stream"} : \E place \in OpPc : Begins(o, k, place)
          \/ Queues(o) \/ Enters(o) \/ Leaves(o) \/ Registers(o) \/ Closes(o)
          \/ \E place \in OpPc : GoesOn(o, place)

\* Such a step keeps the invariant.
LEMMA WorksKeeps == ASSUME WorkInv, Works PROVE WorkInv'
<1> USE NameAssumption DEF Operations
<1>1. CASE UNCHANGED work
  BY <1>1 DEF work, WorkInv, TypeWork, WorkersLock, KindsFit, KindFits, ActiveStreams
<1> SUFFICES ASSUME NEW o \in Operations,
                    \/ \E k \in Kinds \cup {"stream"} : \E place \in OpPc : Begins(o, k, place)
                    \/ Queues(o) \/ Enters(o) \/ Leaves(o) \/ Registers(o) \/ Closes(o)
                    \/ \E place \in OpPc : GoesOn(o, place)
             PROVE  WorkInv'
  BY <1>1 DEF Works
<1> USE DEF WorkInv, TypeWork, OpPc, Outside, Active, Awaiting, Kinds, StreamOnly
<1>2. ASSUME NEW k \in Kinds \cup {"stream"}, NEW place \in OpPc, Begins(o, k, place)
      PROVE  WorkInv'
  <2>1. TypeWork' BY <1>2 DEF Begins
  <2>2. WorkersLock' BY <1>2 DEF Begins, WorkersLock
  <2>3. KindsFit' BY <1>2 DEF Begins, KindsFit, KindFits
  <2>4. ActiveStreams' BY <1>2 DEF Begins, ActiveStreams
  <2> QED BY <2>1, <2>2, <2>3, <2>4
<1>3. CASE Queues(o)
  <2>1. TypeWork' BY <1>3 DEF Queues
  <2>2. WorkersLock' BY <1>3 DEF Queues, WorkersLock
  <2>3. KindsFit' BY <1>3 DEF Queues, KindsFit, KindFits
  <2>4. ActiveStreams' BY <1>3 DEF Queues, ActiveStreams
  <2> QED BY <2>1, <2>2, <2>3, <2>4
<1>4. CASE Enters(o)
  <2>1. TypeWork' BY <1>4 DEF Enters
  <2>2. WorkersLock' BY <1>4 DEF Enters, WorkersLock
  <2>3. KindsFit' BY <1>4 DEF Enters, KindsFit, KindFits
  <2>4. ActiveStreams' BY <1>4 DEF Enters, ActiveStreams
  <2> QED BY <2>1, <2>2, <2>3, <2>4
<1>5. CASE Leaves(o)
  <2>1. TypeWork' BY <1>5 DEF Leaves
  <2>2. WorkersLock' BY <1>5 DEF Leaves, WorkersLock
  <2>3. KindsFit' BY <1>5 DEF Leaves, KindsFit, KindFits
  <2>4. ActiveStreams' BY <1>5 DEF Leaves, ActiveStreams
  <2> QED BY <2>1, <2>2, <2>3, <2>4
<1>6. CASE Registers(o)
  <2>1. TypeWork' BY <1>6 DEF Registers
  <2>2. WorkersLock' BY <1>6 DEF Registers, WorkersLock
  <2>3. KindsFit' BY <1>6 DEF Registers, KindsFit, KindFits
  <2>4. ActiveStreams' BY <1>6 DEF Registers, ActiveStreams, WorkersLock
  <2> QED BY <2>1, <2>2, <2>3, <2>4
<1>7. CASE Closes(o)
  <2>1. TypeWork' BY <1>7 DEF Closes
  <2>2. WorkersLock' BY <1>7 DEF Closes, WorkersLock
  <2>3. KindsFit' BY <1>7 DEF Closes, KindsFit, KindFits
  <2>4. ActiveStreams' BY <1>7 DEF Closes, ActiveStreams, WorkersLock
  <2> QED BY <2>1, <2>2, <2>3, <2>4
<1>8. ASSUME NEW place \in OpPc, GoesOn(o, place) PROVE WorkInv'
  <2>1. TypeWork' BY <1>8 DEF GoesOn
  <2>2. WorkersLock' BY <1>8 DEF GoesOn, WorkersLock
  <2>3. KindsFit' BY <1>8, SMTT(20) DEF GoesOn, KindsFit, KindFits
  <2>4. ActiveStreams' BY <1>8 DEF GoesOn, ActiveStreams
  <2> QED BY <2>1, <2>2, <2>3, <2>4
<1> QED BY <1>2, <1>3, <1>4, <1>5, <1>6, <1>7, <1>8

\* Every step is of one of these sorts.
LEMMA StepsWork == ASSUME WorkInv, ControlAssumption, Next PROVE Works
<1> USE NameAssumption DEF Operations
<1> USE DEF adapter, operation, cancellation, work, At, Return, Outside
<1>0. TypeWork /\ WorkersLock /\ KindsFit /\ ActiveStreams BY DEF WorkInv
<1>a. ASSUME NEW o \in Operations PROVE opc[o] \in OpPc /\ KindFits(o)
  BY <1>0, <1>a DEF TypeWork, KindsFit
<1>1. ASSUME NEW r \in Requests, NEW v \in Voices, BeginStream(r, v) PROVE Works
  <2>1. Begins(r, "stream", "locking") BY <1>1 DEF BeginStream, Begins
  <2> QED BY <2>1, <1>1 DEF Works, OpPc
<1>2. ASSUME NEW o \in Controls, NEW v \in Voices, NEW k \in Does[o], BeginControl(o, k, v)
      PROVE  Works
  <2>1. k \in Kinds BY <1>2, ControlAssumption DEF ControlAssumption
  <2>2. PICK place \in {"locking", "cancelling", "done"} : opc' = [opc EXCEPT ![o] = place]
    BY <1>2 DEF BeginControl
  <2>3. Begins(o, k, place) BY <1>2, <2>1, <2>2 DEF BeginControl, Begins, Kinds
  <2>4. place \in OpPc BY DEF OpPc
  <2> QED BY <2>1, <2>3, <2>4, <1>2 DEF Works
<1>3. ASSUME NEW c \in Cancels, NEW r \in Requests, CancelBegin(c, r) PROVE Works
  BY <1>3 DEF CancelBegin, Works
<1>4. ASSUME NEW r \in Requests, StreamStep(r) PROVE Works
  <2> USE <1>4
  <2>0. r \in Operations OBVIOUS
  <2>1. CASE Register(r)
    <3>1. Registers(r) BY <2>1, <2>0, <1>a DEF Register, Registers, AtWork
    <3> QED BY <2>0, <3>1 DEF Works
  <2>2. CASE SendGenerate(r)
    <3>1. GoesOn(r, "streaming")
      BY <2>2, <2>0, <1>0, <1>a DEF SendGenerate, Issue, GoesOn, KindFits, TypeWork, OpPc, Active, Awaiting, StreamOnly
    <3> QED BY <2>0, <3>1 DEF Works, OpPc, Active
  <2>3. CASE SpawnFails(r)
    <3>1. CASE opc[r] = "registered"
      <4>1. GoesOn(r, "finally")
        BY <3>1, <2>3, <2>0, <1>0, <1>a DEF SpawnFails, StopWorker, GoesOn, KindFits, TypeWork, OpPc, Active, Awaiting, StreamOnly
      <4> QED BY <2>0, <4>1 DEF Works, OpPc, Active
    <3>2. CASE opc[r] = "abandoning"
      <4>1. GoesOn(r, "stopping")
        BY <3>2, <2>3, <2>0, <1>0, <1>a DEF SpawnFails, StopWorker, GoesOn, KindFits, TypeWork, OpPc, Active, Awaiting, StreamOnly
      <4> QED BY <2>0, <4>1 DEF Works, OpPc, Active
    <3> QED BY <3>1, <3>2, <2>3 DEF SpawnFails
  <2>4. CASE ReadChunk(r)
    <3>1. CASE opc[r] = "streaming" /\ At(r, "yielded")
      <4>1. GoesOn(r, "yielded")
        BY <3>1, <2>4, <2>0, <1>0, <1>a DEF ReadChunk, Reads, GoesOn, KindFits, TypeWork, OpPc, Active, Awaiting, StreamOnly
      <4> QED BY <2>0, <4>1 DEF Works, OpPc, Active
    <3>2. CASE UNCHANGED opc
      BY <3>2, <2>4 DEF ReadChunk, Works
    <3> QED BY <3>1, <3>2, <2>4 DEF ReadChunk
  <2>5. ASSUME NEW e \in Ends, ReadTerminal(r, e) PROVE Works
    <3>1. GoesOn(r, "closing")
      BY <2>5, <2>0, <1>0, <1>a DEF ReadTerminal, StopWorker, GoesOn, KindFits, TypeWork, OpPc, Active, Awaiting, StreamOnly
    <3> QED BY <2>0, <3>1 DEF Works, OpPc, Active
  <2>6. CASE Consume(r)
    <3>1. PICK place \in {"streaming", "finally"} : opc' = [opc EXCEPT ![r] = place]
      BY <2>6 DEF Consume
    <3>2. GoesOn(r, place)
      BY <3>1, <2>6, <2>0, <1>0, <1>a DEF Consume, GoesOn, KindFits, TypeWork, OpPc, Active, Awaiting, StreamOnly
    <3> QED BY <2>0, <3>2 DEF Works, OpPc, Active
  <2>7. CASE Finally(r)
    <3>1. PICK place \in {"abandoning", "closing"} : opc' = [opc EXCEPT ![r] = place]
      BY <2>7 DEF Finally
    <3>2. GoesOn(r, place)
      BY <3>1, <2>7, <2>0, <1>0, <1>a DEF Finally, GoesOn, KindFits, TypeWork, OpPc, Active, Awaiting, StreamOnly
    <3> QED BY <2>0, <3>2 DEF Works, OpPc, Active
  <2>8. CASE Abandon(r)
    <3>1. GoesOn(r, "draining")
      BY <2>8, <2>0, <1>0, <1>a DEF Abandon, Issue, GoesOn, KindFits, TypeWork, OpPc, Active, Awaiting, StreamOnly
    <3> QED BY <2>0, <3>1 DEF Works, OpPc, Active
  <2>9. CASE Close(r)
    <3>1. Closes(r) BY <2>9 DEF Close, Closes
    <3> QED BY <2>0, <3>1 DEF Works
  <2> QED BY <2>1, <2>2, <2>3, <2>4, <2>5, <2>6, <2>7, <2>8, <2>9 DEF StreamStep
<1>5. ASSUME NEW o \in Operations, OperationStep(o) PROVE Works
  <2> USE <1>5
  <2>1. CASE Lock(o)
    <3>1. Enters(o) BY <2>1 DEF Lock, Enters
    <3> QED BY <3>1 DEF Works
  <2>2. CASE SendLoad(o)
    <3>1. GoesOn(o, "loading")
      BY <2>2, <1>0, <1>a DEF SendLoad, SendsLoad, Issue, GoesOn, KindFits, TypeWork, OpPc, Active, Awaiting, StreamOnly
    <3> QED BY <3>1 DEF Works, OpPc, Awaiting
  <2>3. CASE SendPrewarm(o)
    <3>1. GoesOn(o, "prewarming")
      BY <2>3, <1>0, <1>a DEF SendPrewarm, SendsPrewarm, AtWork, Issue, GoesOn, KindFits, TypeWork, OpPc, Active, Awaiting, StreamOnly
    <3> QED BY <3>1 DEF Works, OpPc, Awaiting
  <2>4. CASE NothingToDo(o)
    <3>1. opc[o] \in {"entered", "ready"}
      BY <2>4 DEF NothingToDo, SendsLoad, AtWork
    <3>2. Leaves(o) BY <3>1, <2>4 DEF NothingToDo, Leaves, Active
    <3> QED BY <3>2 DEF Works
  <2>5. CASE StopAtOnce(o)
    <3>1. opc[o] \in {"entered", "ready"}
      BY <2>5 DEF StopAtOnce, SendsLoad, SendsPrewarm, SendsInvalidate, AtWork
    <3>2. GoesOn(o, "leaving")
      BY <3>1, <2>5, <1>0, <1>a DEF StopAtOnce, StopWorker, GoesOn, KindFits, TypeWork, OpPc, Active, Awaiting, StreamOnly
    <3> QED BY <3>2 DEF Works, OpPc
  <2>6. CASE Capture(o) BY <2>6 DEF Capture, Works
  <2>r. ASSUME Raise(o), UNCHANGED <<kind, active, oplock>> PROVE Works
    <3>1. CASE opc[o] = "streaming" /\ At(o, "finally")
      <4>1. GoesOn(o, "finally")
        BY <3>1, <2>r, <1>0, <1>a DEF GoesOn, KindFits, TypeWork, OpPc, Active, Awaiting, StreamOnly
      <4> QED BY <4>1 DEF Works, OpPc, Active
    <3>2. CASE opc[o] \in {"draining", "unloading"} /\ At(o, "stopping")
      <4>1. GoesOn(o, "stopping")
        BY <3>2, <2>r, <1>0, <1>a DEF GoesOn, KindFits, TypeWork, OpPc, Active, Awaiting, StreamOnly
      <4> QED BY <4>1 DEF Works, OpPc, Active
    <3>3. CASE opc[o] \in {"loading", "prewarming", "invalidating"} /\ At(o, "leaving")
      <4>1. GoesOn(o, "leaving")
        BY <3>3, <2>r, <1>0, <1>a DEF GoesOn, KindFits, TypeWork, OpPc, Active, Awaiting, StreamOnly
      <4> QED BY <4>1 DEF Works, OpPc
    <3> QED BY <3>1, <3>2, <3>3, <2>r DEF Raise
  <2>7. CASE NoQueue(o) BY <2>7, <2>r DEF NoQueue
  <2>8. CASE ReadFails(o) BY <2>8, <2>r DEF ReadFails
  <2>9. CASE ReadLoaded(o)
    <3>1. opc[o] = "loading"
      <4>1. opc[o] \in Awaiting /\ Expected(o) /\ Head(Lines(o)).event = "loaded"
        BY <2>9 DEF ReadLoaded, Reads
      <4>2. "loaded" \in [loading |-> {"loaded", "failed"},
                  prewarming |-> {"prompt_ready", "prompt_failed"},
                  streaming |-> {"chunk"} \cup Ends,
                  draining |-> {"chunk"} \cup Ends,
                  invalidating |-> {"invalidated"},
                  unloading |-> {"done"}][opc[o]]
        BY <4>1, Zenon DEF Expected
      <4> QED BY <4>1, <4>2 DEF Awaiting, Ends
    <3>2. CASE kind[o] = "load" /\ Return(o)
      <4>1. Leaves(o) BY <3>1, <3>2, <2>9 DEF ReadLoaded, Leaves, Active
      <4> QED BY <4>1 DEF Works
    <3>3. CASE kind[o] # "load" /\ At(o, "ready") /\ UNCHANGED oplock
      <4>1. GoesOn(o, "ready")
        BY <3>1, <3>3, <2>9, <1>0, <1>a DEF ReadLoaded, GoesOn, KindFits, TypeWork, OpPc, Active, Awaiting, StreamOnly
      <4> QED BY <4>1 DEF Works, OpPc
    <3> QED BY <3>2, <3>3, <2>9 DEF ReadLoaded
  <2>10. CASE ReadLoadFailed(o)
    <3>1. GoesOn(o, "leaving")
      BY <2>10, <1>0, <1>a DEF ReadLoadFailed, StopWorker, GoesOn, KindFits, TypeWork, OpPc, Active, Awaiting, StreamOnly
    <3> QED BY <3>1 DEF Works, OpPc
  <2>11. CASE ReadPrompt(o)
    <3>1. opc[o] \in {"prewarming", "invalidating"}
      <4>1. PICK e \in {"prompt_ready", "prompt_failed", "invalidated"} : Reads(o, e)
        BY <2>11 DEF ReadPrompt
      <4>2. opc[o] \in Awaiting /\ Expected(o) /\ Head(Lines(o)).event = e
        BY <4>1 DEF Reads
      <4>3. e \in [loading |-> {"loaded", "failed"},
                  prewarming |-> {"prompt_ready", "prompt_failed"},
                  streaming |-> {"chunk"} \cup Ends,
                  draining |-> {"chunk"} \cup Ends,
                  invalidating |-> {"invalidated"},
                  unloading |-> {"done"}][opc[o]]
        BY <4>2, Zenon DEF Expected
      <4> QED BY <4>2, <4>3 DEF Awaiting, Ends
    <3>2. Leaves(o) BY <3>1, <2>11 DEF ReadPrompt, Leaves, Active
    <3> QED BY <3>2 DEF Works
  <2>12. CASE Stop(o)
    <3>1. CASE kind[o] = "unload" /\ At(o, "leaving")
      <4>1. GoesOn(o, "leaving")
        BY <3>1, <2>12, <1>0, <1>a DEF Stop, GoesOn, KindFits, TypeWork, OpPc, Active, Awaiting, StreamOnly
      <4> QED BY <4>1 DEF Works, OpPc
    <3>2. CASE kind[o] = "stream" /\ At(o, "closing")
      <4>1. GoesOn(o, "closing")
        BY <3>2, <2>12, <1>0, <1>a DEF Stop, GoesOn, KindFits, TypeWork, OpPc, Active, Awaiting, StreamOnly
      <4> QED BY <4>1 DEF Works, OpPc, Active
    <3>3. kind[o] \in {"unload", "stream"} BY <2>12, <1>a DEF Stop, KindFits
    <3> QED BY <3>1, <3>2, <3>3, <2>12 DEF Stop
  <2>13. CASE Leave(o)
    <3>1. Leaves(o) BY <2>13 DEF Leave, Leaves, Active
    <3> QED BY <3>1 DEF Works
  <2> QED BY <2>1, <2>2, <2>3, <2>4, <2>5, <2>6, <2>7, <2>8, <2>9, <2>10, <2>11, <2>12, <2>13
          DEF OperationStep
<1>6. ASSUME NEW o \in Controls, ControlStep(o) PROVE Works
  <2> USE <1>6
  <2>0. o \in Operations OBVIOUS
  <2>1. CASE CancelledFirst(o)
    <3>1. Queues(o) BY <2>1 DEF CancelledFirst, Queues
    <3> QED BY <2>0, <3>1 DEF Works
  <2>2. CASE SendInvalidate(o)
    <3>1. GoesOn(o, "invalidating")
      BY <2>2, <2>0, <1>0, <1>a DEF SendInvalidate, SendsInvalidate, Issue, GoesOn, KindFits, TypeWork, OpPc, Active, Awaiting, StreamOnly
    <3> QED BY <2>0, <3>1 DEF Works, OpPc, Awaiting
  <2>3. CASE SendUnload(o)
    <3>1. GoesOn(o, "unloading")
      BY <2>3, <2>0, <1>0, <1>a DEF SendUnload, SendsUnload, Issue, GoesOn, KindFits, TypeWork, OpPc, Active, Awaiting, StreamOnly
    <3> QED BY <2>0, <3>1 DEF Works, OpPc, Awaiting
  <2>4. CASE ReadUnloaded(o)
    <3>1. GoesOn(o, "stopping")
      BY <2>4, <2>0, <1>0, <1>a DEF ReadUnloaded, GoesOn, KindFits, TypeWork, OpPc, Active, Awaiting, StreamOnly
    <3> QED BY <2>0, <3>1 DEF Works, OpPc, Active
  <2> QED BY <2>1, <2>2, <2>3, <2>4 DEF ControlStep
<1>7. ASSUME NEW c \in Callers, CancelStep(c) PROVE Works
  BY <1>7 DEF CancelStep, CancelStart, CancelSend, CancelNoWorker, CancelPop, CancelStop, Works
<1>8. ASSUME NEW i \in Workers, WorkerStep(i) \/ Fault(i) \/ Reap(i) PROVE Works
  BY <1>8 DEF WorkerStep, Fault, Reap, ReadLine, DispatchLoad, DispatchPrewarm, DispatchGenerate,
     DispatchInvalidate, DispatchUnload, GenerateChunk, GenerateEnd, Became, Works
<1> QED BY <1>1, <1>2, <1>3, <1>4, <1>5, <1>6, <1>7, <1>8 DEF Next, Calls

\* Stuttering and every step keep the invariant.
LEMMA WorkKept == ASSUME WorkInv, ControlAssumption, [Next]_vars PROVE WorkInv'
<1>1. CASE Next BY <1>1, StepsWork, WorksKeeps
<1>2. CASE UNCHANGED vars
  <2>1. Works BY <1>2 DEF vars, adapter, operation, work, Works
  <2> QED BY <2>1, WorksKeeps
<1> QED BY <1>1, <1>2

\* The guard "generation is already active" of stream() never fires: the registered
\* request holds the operation lock.
THEOREM OneStream == Spec => []OneGeneration
<1>1. Init => WorkInv
  BY NameAssumption DEF Init, WorkInv, TypeWork, WorkersLock, KindsFit, KindFits, ActiveStreams,
     Operations, Outside, StreamOnly, Active, OpPc, Awaiting
<1>2. WorkInv /\ [Next]_vars => WorkInv'
  BY WorkKept, ControlAssumption
<1>3. WorkInv => OneGeneration
  BY DEF WorkInv, TypeWork, WorkersLock, ActiveStreams, OneGeneration, Active, Outside, Operations
<1> QED BY <1>1, <1>2, <1>3, PTL DEF Spec

-----------------------------------------------------------------------------
(* The exchange with a worker: one order at a time, and its answer.         *)

\* The types of the processes and of what is known of them, as wide as the proofs need.
Orders == [op : Kinds \cup {"generate", "cancel"}, req : Operations \cup {None},
           voice : Voices \cup {None}]
AnyProcess ==
    [life : {"unborn", "alive", "dead"}, stdin : Seq(Orders), commands : Seq(Orders),
     out : Seq(Events), reader : BOOLEAN, runtime : BOOLEAN, prompt : Voices \cup {None},
     job : Operations \cup {None}, chunks : Nat, cancel : BOOLEAN,
     pending : SUBSET (Operations \cup {None}), completed : SUBSET (Operations \cup {None}),
     heard : SUBSET (Operations \cup {None}), forgotten : SUBSET (Operations \cup {None})]
TypePipes ==
    /\ worker \in 0..MaxWorkers /\ w \in [Workers -> AnyProcess]
    /\ killer \in [Workers -> Threads \cup {None}]
    /\ src \in [Operations -> 0..MaxWorkers]
    /\ voice \in [Operations -> Voices \cup {None}]
    /\ target \in [Callers -> Requests \cup {None}]

IsAnswer(e) == e.event \notin {"chunk", "garbage"}
OnlyCancels(p) == \A n \in DOMAIN p.stdin : p.stdin[n].op = "cancel"
NoWord(p) == \A n \in DOMAIN p.out : p.out[n].event = "garbage"

\* No order is under way and no line but garbage is left of one.
Quiet(p) == OnlyCancels(p) /\ p.commands = <<>> /\ p.job = None /\ NoWord(p)

\* At most one order is under way: in the pipe, read, run or answered, and the
\* answer is the last word.
OneOrder(p) ==
    /\ \A m, n \in DOMAIN p.stdin :
          p.stdin[m].op # "cancel" /\ p.stdin[n].op # "cancel" => m = n
    /\ ~ OnlyCancels(p) => p.commands = <<>> /\ p.job = None /\ NoWord(p)
    /\ p.commands # <<>> => Tail(p.commands) = <<>> /\ p.job = None /\ NoWord(p)
    /\ \A n \in DOMAIN p.commands : p.commands[n].op # "cancel"
    /\ \A n \in DOMAIN p.out : IsAnswer(p.out[n]) =>
          p.job = None /\ \A m \in DOMAIN p.out : m > n => p.out[m].event = "garbage"

\* A prompt needs the runtime, and an answer that the prompt is gone is true.
PromptFits(p) ==
    /\ p.prompt # None => p.runtime
    /\ \A n \in DOMAIN p.out :
          p.out[n].event \in {"prompt_failed", "invalidated"} => p.prompt = None

Sound(p) == p \in AnyProcess /\ OneOrder(p) /\ PromptFits(p)

\* The order that is under way, if one is, is this one.
Serves(p, cmd) ==
    /\ \A n \in DOMAIN p.stdin : p.stdin[n].op # "cancel" => p.stdin[n] = cmd
    /\ \A n \in DOMAIN p.commands : p.commands[n] = cmd
    /\ p.job \in {None, cmd.req}
    /\ \A n \in DOMAIN p.out :
          /\ p.out[n].event # "garbage" => p.out[n].req = cmd.req
          /\ p.out[n].event = "prompt_ready" /\ p.life = "alive" => p.prompt = cmd.voice

\* An operation whose order may be under way, and that order.
Engaged(place) == place \in Awaiting \cup {"yielded", "finally", "abandoning"}
Asks(place) ==
    IF place = "loading" THEN "load" ELSE IF place = "prewarming" THEN "prewarm"
    ELSE IF place = "invalidating" THEN "invalidate"
    ELSE IF place = "unloading" THEN "unload" ELSE "generate"
OrderOf(o) == Command(Asks(opc[o]), o, voice[o])

\* Only the current process lives and those that are being ended, which are not
\* current, and one not born yet is empty.
OneLives ==
    \A i \in Workers : /\ w[i].life = "alive" => i = worker \/ killer[i] # None
                       /\ w[i].life = "unborn" => i # worker /\ w[i] = Unborn
                       /\ killer[i] # None => i # worker /\ w[i].life # "unborn"
AllSound == \A i \in Workers : Sound(w[i])

\* Whoever has an order under way is served by the current process, and by the
\* one whose lines it reads.  A process that replaced that one knows nothing.
EachServed ==
    \A o \in Operations :
        Engaged(opc[o]) =>
            /\ worker # 0 => Serves(w[worker], OrderOf(o))
            /\ src[o] # 0 =>
                  /\ Serves(w[src[o]], OrderOf(o))
                  /\ src[o] # worker /\ Running => Quiet(w[worker]) /\ ~w[worker].runtime
ReadersWait == \A o \in Operations : src[o] # 0 => opc[o] \in Awaiting
RestIsQuiet == Running => Quiet(w[worker]) \/ \E o \in Operations : Engaged(opc[o])

\* What the adapter believes of the model and the prompt of the process.
LoadedIsKnown ==
    Running /\ w[worker].runtime => loaded \/ \E o \in Operations : opc[o] = "loading"
PromptIsKnown ==
    Running /\ w[worker].prompt # None =>
        w[worker].prompt = selected \/ \E o \in Operations : opc[o] = "prewarming"

\* A control that stopped the worker finds at most one that a cancel spawned since.
LeavingIsClean ==
    \A o \in Operations : opc[o] = "leaving" /\ Running => w[worker].prompt = None

PipeInv ==
    /\ TypePipes /\ OneLives /\ AllSound /\ EachServed /\ ReadersWait /\ RestIsQuiet
    /\ LoadedIsKnown /\ PromptIsKnown /\ LeavingIsClean

-----------------------------------------------------------------------------
(* Lines of a pipe.                                                         *)

\* A line at the end of a pipe.
LEMMA Appended ==
  ASSUME NEW S, NEW s \in Seq(S), NEW e \in S
  PROVE  /\ Append(s, e) \in Seq(S)
         /\ \A n \in DOMAIN Append(s, e) :
               Append(s, e)[n] = IF n \in DOMAIN s THEN s[n] ELSE e
         /\ \A n \in DOMAIN Append(s, e), m \in DOMAIN s : n \notin DOMAIN s => n > m
         /\ \A n, m \in DOMAIN Append(s, e) : n \notin DOMAIN s /\ m \notin DOMAIN s => m = n
<1> DEFINE k == Len(s)
<1>1. k \in Nat /\ DOMAIN s = 1..k BY LenProperties
<1>2. Append(s, e) \in Seq(S) /\ Len(Append(s, e)) = k + 1
      /\ (\A i \in 1..k : Append(s, e)[i] = s[i]) /\ Append(s, e)[k + 1] = e
  BY AppendProperties
<1>3. DOMAIN Append(s, e) = 1..(k + 1) BY <1>2, LenProperties
<1> HIDE DEF k
<1> QED BY <1>1, <1>2, <1>3

\* The first line is taken from a pipe.
LEMMA Taken ==
  ASSUME NEW S, NEW s \in Seq(S), s # <<>>
  PROVE  /\ Tail(s) \in Seq(S) /\ 1 \in DOMAIN s /\ Head(s) = s[1] /\ Head(s) \in S
         /\ \A n \in DOMAIN s : n \in Nat
         /\ \A n \in DOMAIN Tail(s) : n \in Nat /\ n + 1 \in DOMAIN s /\ n + 1 > 1
                                      /\ Tail(s)[n] = s[n + 1]
<1> DEFINE k == Len(s)
<1>1. k \in Nat /\ DOMAIN s = 1..k /\ k # 0 BY LenProperties, EmptySeq
<1>2. Tail(s) \in Seq(S) /\ Len(Tail(s)) = k - 1 /\ Head(s) \in S /\ Head(s) = s[1]
      /\ \A i \in 1..Len(Tail(s)) : Tail(s)[i] = s[i + 1]
  BY HeadTailProperties
<1>3. DOMAIN Tail(s) = 1..(k - 1) BY <1>2, LenProperties
<1> HIDE DEF k
<1> QED BY <1>1, <1>2, <1>3

\* The first line of an empty pipe is the only one.
LEMMA Single ==
  ASSUME NEW S, NEW e \in S
  PROVE  /\ Append(<<>>, e) = <<e>> /\ Tail(<<e>>) = <<>> /\ Head(<<e>>) = e
         /\ <<e>> \in Seq(S) /\ DOMAIN <<e>> = {1} /\ <<e>>[1] = e
  OBVIOUS

-----------------------------------------------------------------------------
(* What can become of a process.                                            *)

\* The parts of a sound process, a fact each.
LEMMA Parts ==
  ASSUME NEW p, Sound(p)
  PROVE  /\ p \in AnyProcess /\ OneOrder(p) /\ PromptFits(p)
         /\ p.stdin \in Seq(Orders) /\ p.commands \in Seq(Orders) /\ p.out \in Seq(Events)
         /\ p.job \in Operations \cup {None} /\ p.prompt \in Voices \cup {None}
         /\ p.runtime \in BOOLEAN /\ p.life \in {"unborn", "alive", "dead"}
  BY DEF Sound, AnyProcess

\* A process before it is spawned, and what remains of one.
LEMMA UnbornIsSound == Sound(Unborn) /\ Quiet(Unborn) /\ ~Unborn.runtime
<1>1. Unborn \in AnyProcess
  <2>1. <<>> \in Seq(Orders) /\ <<>> \in Seq(Events) BY EmptySeq
  <2> QED BY <2>1 DEF Unborn, AnyProcess
<1>2. DOMAIN <<>> = {} OBVIOUS
<1> QED BY <1>1, <1>2 DEF Sound, OneOrder, PromptFits, Quiet, OnlyCancels, NoWord, Unborn

LEMMA RemainsAreSound ==
  ASSUME NEW p, Sound(p)
  PROVE  /\ Sound(Remains(p)) /\ Remains(p).life = "dead" /\ Remains(p).out = p.out
         /\ Quiet(p) => Quiet(Remains(p))
         /\ ~Remains(p).runtime /\ Remains(p).prompt = None
         /\ \A c \in Orders : Serves(p, c) => Serves(Remains(p), c)
<1> DEFINE q == Remains(p)
<1>1. <<>> \in Seq(Orders) /\ DOMAIN <<>> = {} BY EmptySeq
<1>2. p.out \in Seq(Events) /\ OneOrder(p) BY Parts
<1>3. Unborn \in AnyProcess BY UnbornIsSound DEF Sound
<1>4. q \in AnyProcess BY <1>2, <1>3 DEF AnyProcess, Remains
<1>5. /\ q.life = "dead" /\ q.stdin = <<>> /\ q.commands = <<>> /\ q.out = p.out
      /\ q.runtime = FALSE /\ q.prompt = None /\ q.job = None
  BY DEF Remains, Unborn
<1> HIDE DEF q
<1>6. OneOrder(q) BY <1>1, <1>2, <1>5 DEF OneOrder, OnlyCancels, IsAnswer
<1>7. PromptFits(q) BY <1>5 DEF PromptFits
<1>8. Quiet(p) => Quiet(q) BY <1>1, <1>5 DEF Quiet, OnlyCancels, NoWord
<1>9. \A c \in Orders : Serves(p, c) => Serves(q, c) BY <1>1, <1>5 DEF Serves
<1>10. Sound(q) BY <1>4, <1>6, <1>7 DEF Sound
<1> QED BY <1>5, <1>8, <1>9, <1>10 DEF q

\* A line is written to a process that runs or is spawned for it.
Told(p, q, cmd) ==
    /\ p.life # "dead"
    /\ p.life = "unborn" => p = Unborn
    /\ q = [p EXCEPT !.life = "alive", !.stdin = Append(@, cmd)]

LEMMA ToldFields ==
  ASSUME NEW p, NEW q, NEW cmd \in Orders, Sound(p), Told(p, q, cmd)
  PROVE  /\ q \in AnyProcess /\ q.life = "alive" /\ q.stdin = Append(p.stdin, cmd)
         /\ q.commands = p.commands /\ q.out = p.out /\ q.job = p.job
         /\ q.runtime = p.runtime /\ q.prompt = p.prompt
         /\ p.life # "alive" => p.out = <<>>
<1>1. Append(p.stdin, cmd) \in Seq(Orders) BY Parts, Appended
<1>2. q = [p EXCEPT !.life = "alive", !.stdin = Append(p.stdin, cmd)] BY DEF Told
<1>3. p.life # "alive" => p = Unborn BY Parts DEF Told
<1>4. p \in AnyProcess BY Parts
<1> DEFINE s == Append(p.stdin, cmd)
<1>5. s \in Seq(Orders) /\ q = [p EXCEPT !.life = "alive", !.stdin = s] /\ s = Append(p.stdin, cmd)
  BY <1>1, <1>2
<1> HIDE DEF s
<1>6. /\ q \in AnyProcess /\ q.life = "alive" /\ q.stdin = s
      /\ q.commands = p.commands /\ q.out = p.out /\ q.job = p.job
      /\ q.runtime = p.runtime /\ q.prompt = p.prompt
  BY <1>4, <1>5 DEF AnyProcess
<1>7. Unborn.out = <<>> BY DEF Unborn
<1> QED BY <1>3, <1>5, <1>6, <1>7

LEMMA CancelTold ==
  ASSUME NEW p, NEW q, NEW cmd \in Orders, Sound(p), Told(p, q, cmd), cmd.op = "cancel"
  PROVE  /\ Sound(q) /\ q.life = "alive"
         /\ Quiet(p) => Quiet(q)
         /\ q.runtime = p.runtime /\ q.prompt = p.prompt
         /\ \A c \in Orders : Serves(p, c) => Serves(q, c)
<1>1. /\ q \in AnyProcess /\ q.life = "alive" /\ q.stdin = Append(p.stdin, cmd)
      /\ q.commands = p.commands /\ q.out = p.out /\ q.job = p.job
      /\ q.runtime = p.runtime /\ q.prompt = p.prompt
      /\ p.life # "alive" => p.out = <<>>
  BY ToldFields
<1>2. \A n \in DOMAIN q.stdin : q.stdin[n] = IF n \in DOMAIN p.stdin THEN p.stdin[n] ELSE cmd
  BY <1>1, Parts, Appended
<1>3. DOMAIN <<>> = {} OBVIOUS
<1>4. OnlyCancels(p) => OnlyCancels(q) BY <1>2 DEF OnlyCancels
<1>5. NoWord(p) => NoWord(q) BY <1>1 DEF NoWord
<1>6. OneOrder(p) /\ PromptFits(p) BY Parts
<1>7. OneOrder(q) BY <1>1, <1>2, <1>4, <1>5, <1>6 DEF OneOrder
<1>8. PromptFits(q) BY <1>1, <1>6 DEF PromptFits
<1>9. Quiet(p) => Quiet(q) BY <1>1, <1>4, <1>5 DEF Quiet
<1>10. ASSUME NEW c \in Orders, Serves(p, c) PROVE Serves(q, c)
  BY <1>1, <1>2, <1>3, <1>10 DEF Serves
<1> QED BY <1>1, <1>7, <1>8, <1>9, <1>10 DEF Sound

LEMMA OrderTold ==
  ASSUME NEW p, NEW q, NEW cmd \in Orders, Sound(p), Told(p, q, cmd), cmd.op # "cancel", Quiet(p)
  PROVE  /\ Sound(q) /\ q.life = "alive" /\ Serves(q, cmd)
         /\ q.runtime = p.runtime /\ q.prompt = p.prompt
<1>1. /\ q \in AnyProcess /\ q.life = "alive" /\ q.stdin = Append(p.stdin, cmd)
      /\ q.commands = p.commands /\ q.out = p.out /\ q.job = p.job
      /\ q.runtime = p.runtime /\ q.prompt = p.prompt
      /\ p.life # "alive" => p.out = <<>>
  BY ToldFields
<1>2. /\ \A n \in DOMAIN q.stdin : q.stdin[n] = IF n \in DOMAIN p.stdin THEN p.stdin[n] ELSE cmd
      /\ \A n, m \in DOMAIN q.stdin : n \notin DOMAIN p.stdin /\ m \notin DOMAIN p.stdin => m = n
  BY <1>1, Parts, Appended
<1>3. DOMAIN <<>> = {} OBVIOUS
<1>4. OnlyCancels(p) /\ q.commands = <<>> /\ q.job = None /\ NoWord(q)
  BY <1>1 DEF Quiet, NoWord
<1>6. PromptFits(p) BY Parts
<1>7. OneOrder(q)
  <2>1. \A m, n \in DOMAIN q.stdin : q.stdin[m].op # "cancel" /\ q.stdin[n].op # "cancel" => m = n
    BY <1>2, <1>4 DEF OnlyCancels
  <2>2. \A n \in DOMAIN q.out : ~IsAnswer(q.out[n]) BY <1>4 DEF NoWord, IsAnswer
  <2> QED BY <2>1, <2>2, <1>3, <1>4 DEF OneOrder
<1>8. PromptFits(q) BY <1>1, <1>6 DEF PromptFits
<1>9. Serves(q, cmd)
  <2>1. \A n \in DOMAIN q.stdin : q.stdin[n].op # "cancel" => q.stdin[n] = cmd
    BY <1>2, <1>4 DEF OnlyCancels
  <2> QED BY <2>1, <1>3, <1>4 DEF Serves, NoWord
<1> QED BY <1>1, <1>7, <1>8, <1>9 DEF Sound

\* What a step of the process itself does to it.
Acts(p, q) ==
    /\ Sound(q) /\ q.life \in {"alive", "dead"}
    /\ Quiet(p) => Quiet(q)
    /\ \A c \in Orders : Serves(p, c) => Serves(q, c)
    /\ \/ q.runtime => p.runtime
       \/ ~Quiet(p) /\ \A c \in Orders : Serves(p, c) => c.op = "load"
    /\ \/ q.prompt \in {p.prompt, None}
       \/ ~Quiet(p) /\ \A c \in Orders : Serves(p, c) => c.op = "prewarm"

\* It reads a line of its commands: a cancel is signalled, an order is kept.
LEMMA CancelRead ==
  ASSUME NEW p, NEW q, Sound(p), p.life = "alive", q \in AnyProcess, p.stdin # <<>>,
         Head(p.stdin).op = "cancel",
         q.life = "alive", q.stdin = Tail(p.stdin), q.commands = p.commands, q.out = p.out,
         q.job = p.job, q.runtime = p.runtime, q.prompt = p.prompt
  PROVE  Acts(p, q)
<1>1. /\ 1 \in DOMAIN p.stdin /\ Head(p.stdin) = p.stdin[1]
      /\ \A n \in DOMAIN p.stdin : n \in Nat
      /\ \A n \in DOMAIN q.stdin : n \in Nat /\ n + 1 \in DOMAIN p.stdin /\ n + 1 > 1
                                   /\ q.stdin[n] = p.stdin[n + 1]
  BY Parts, Taken
<1>2. OneOrder(p) /\ PromptFits(p) BY Parts
<1>3. OnlyCancels(p) => OnlyCancels(q) BY <1>1 DEF OnlyCancels
<1>4. OnlyCancels(q) => OnlyCancels(p)
  <2> SUFFICES ASSUME OnlyCancels(q), NEW n \in DOMAIN p.stdin PROVE p.stdin[n].op = "cancel"
    BY DEF OnlyCancels
  <2>1. CASE n = 1 BY <1>1, <2>1
  <2>2. CASE n # 1
    <3>1. q.stdin \in Seq(Orders) /\ p.stdin \in Seq(Orders) BY Parts, Taken
    <3>2. Len(q.stdin) = Len(p.stdin) - 1 /\ Len(p.stdin) \in Nat /\ DOMAIN p.stdin = 1..Len(p.stdin)
          /\ DOMAIN q.stdin = 1..Len(q.stdin)
      BY <3>1, HeadTailProperties, LenProperties
    <3>3. n - 1 \in DOMAIN q.stdin BY <2>2, <3>2
    <3>4. q.stdin[n - 1] = p.stdin[n] BY <1>1, <3>3
    <3> QED BY <3>3, <3>4 DEF OnlyCancels
  <2> QED BY <2>1, <2>2
<1>5. NoWord(p) <=> NoWord(q) BY DEF NoWord
<1>6. OneOrder(q)
  <2>1. \A m, n \in DOMAIN q.stdin : q.stdin[m].op # "cancel" /\ q.stdin[n].op # "cancel" => m = n
    <3> TAKE m, n \in DOMAIN q.stdin
    <3>1. p.stdin[m + 1].op # "cancel" /\ p.stdin[n + 1].op # "cancel" => m + 1 = n + 1
      BY <1>1, <1>2 DEF OneOrder
    <3> QED BY <1>1, <3>1
  <2> QED BY <2>1, <1>2, <1>3, <1>4, <1>5 DEF OneOrder
<1>7. PromptFits(q) BY <1>2 DEF PromptFits
<1>8. Quiet(p) => Quiet(q) BY <1>3, <1>5 DEF Quiet
<1>9. ASSUME NEW c \in Orders, Serves(p, c) PROVE Serves(q, c)
  BY <1>1, <1>9 DEF Serves
<1> QED BY <1>6, <1>7, <1>8, <1>9 DEF Acts, Sound

LEMMA OrderRead ==
  ASSUME NEW p, NEW q, Sound(p), p.life = "alive", q \in AnyProcess, p.stdin # <<>>,
         Head(p.stdin).op # "cancel",
         q.life = "alive", q.stdin = Tail(p.stdin),
         q.commands = Append(p.commands, Head(p.stdin)), q.out = p.out,
         q.job = p.job, q.runtime = p.runtime, q.prompt = p.prompt
  PROVE  Acts(p, q)
<1>1. /\ 1 \in DOMAIN p.stdin /\ Head(p.stdin) = p.stdin[1] /\ Head(p.stdin) \in Orders
      /\ \A n \in DOMAIN p.stdin : n \in Nat
      /\ \A n \in DOMAIN q.stdin : n \in Nat /\ n + 1 \in DOMAIN p.stdin /\ n + 1 > 1
                                   /\ q.stdin[n] = p.stdin[n + 1]
  BY Parts, Taken
<1>2. OneOrder(p) /\ PromptFits(p) BY Parts
<1>3. ~OnlyCancels(p) /\ ~Quiet(p) BY <1>1 DEF OnlyCancels, Quiet
<1>4. p.commands = <<>> /\ p.job = None /\ NoWord(p) BY <1>2, <1>3 DEF OneOrder
<1>5. /\ q.commands = <<Head(p.stdin)>> /\ Tail(q.commands) = <<>> /\ DOMAIN q.commands = {1}
      /\ q.commands[1] = p.stdin[1]
  BY <1>1, <1>4, Single
<1>6. OnlyCancels(q)
  <2> SUFFICES ASSUME NEW n \in DOMAIN q.stdin PROVE q.stdin[n].op = "cancel"
    BY DEF OnlyCancels
  <2>1. p.stdin[n + 1].op # "cancel" => n + 1 = 1 BY <1>1, <1>2 DEF OneOrder
  <2> QED BY <1>1, <2>1
<1>7. NoWord(q) BY <1>4 DEF NoWord
<1>8. OneOrder(q)
  <2>1. \A n \in DOMAIN q.stdin : q.stdin[n].op = "cancel" BY <1>6 DEF OnlyCancels
  <2>2. \A n \in DOMAIN q.out : ~IsAnswer(q.out[n]) BY <1>7 DEF NoWord, IsAnswer
  <2> QED BY <1>1, <1>4, <1>5, <1>6, <1>7, <2>1, <2>2 DEF OneOrder
<1>9. PromptFits(q) BY <1>2 DEF PromptFits
<1>10. ASSUME NEW c \in Orders, Serves(p, c) PROVE Serves(q, c)
  <2>1. \A n \in DOMAIN q.stdin : q.stdin[n].op = "cancel" BY <1>6 DEF OnlyCancels
  <2>2. p.stdin[1] = c BY <1>1, <1>10 DEF Serves
  <2> QED BY <1>5, <1>10, <2>1, <2>2 DEF Serves
<1> QED BY <1>3, <1>8, <1>9, <1>10 DEF Acts, Sound

\* It serves the order it has read, and answers.
Answers(p, q, e) ==
    /\ q \in AnyProcess /\ p.commands # <<>>
    /\ q.stdin = p.stdin /\ q.commands = Tail(p.commands) /\ q.job = p.job
    /\ q.out = Append(p.out, Event(e, Head(p.commands).req))

LEMMA Answered ==
  ASSUME NEW p, NEW q, NEW e, e \notin {"chunk", "garbage"}, Sound(p), p.life = "alive",
         Event(e, Head(p.commands).req) \in Events, Answers(p, q, e)
  PROVE  /\ OneOrder(q) /\ ~Quiet(p)
         /\ \A c \in Orders : Serves(p, c) => c = Head(p.commands)
         /\ \A n \in DOMAIN q.out :
               q.out[n].event = "garbage" \/ q.out[n] = Event(e, Head(p.commands).req)
         /\ \A c \in Orders :
               /\ Serves(p, c)
               /\ e = "prompt_ready" /\ q.life = "alive" => q.prompt = c.voice
               => Serves(q, c)
<1> DEFINE x == Event(e, Head(p.commands).req)
<1>0. x.event = e /\ x.req = Head(p.commands).req /\ x \in Events BY DEF Event
<1>1. /\ 1 \in DOMAIN p.commands /\ Head(p.commands) = p.commands[1] BY Parts, Taken DEF Answers
<1>2. OneOrder(p) /\ PromptFits(p) BY Parts
<1>3. q.commands = <<>> /\ q.job = None /\ NoWord(p) /\ OnlyCancels(p) /\ ~Quiet(p)
  BY <1>2 DEF Answers, OneOrder, Quiet
<1>4. DOMAIN <<>> = {} OBVIOUS
<1>5. q.out = Append(p.out, x) /\ q.stdin = p.stdin BY DEF Answers
<1> HIDE DEF x
<1>6. /\ \A n \in DOMAIN q.out : q.out[n] = IF n \in DOMAIN p.out THEN p.out[n] ELSE x
      /\ \A n \in DOMAIN q.out, m \in DOMAIN p.out : n \notin DOMAIN p.out => n > m
      /\ \A n, m \in DOMAIN q.out : n \notin DOMAIN p.out /\ m \notin DOMAIN p.out => m = n
      /\ \A n \in DOMAIN q.out : n \in Nat
  <2>1. p.out \in Seq(Events) BY Parts
  <2>2. q.out \in Seq(Events) BY <1>0, <1>5, <2>1, Appended
  <2>3. \A n \in DOMAIN q.out : n \in Nat BY <2>2, LenProperties
  <2> QED BY <1>0, <1>5, <2>1, <2>3, Appended
<1>7. \A n \in DOMAIN p.out : n \in Nat /\ p.out[n].event = "garbage"
  <2>1. \A n \in DOMAIN p.out : n \in Nat BY Parts, LenProperties
  <2> QED BY <2>1, <1>3 DEF NoWord
<1>8. OneOrder(q)
  <2>1. OnlyCancels(q) BY <1>3, <1>5 DEF OnlyCancels
  <2>2. \A m, n \in DOMAIN q.stdin : q.stdin[m].op # "cancel" /\ q.stdin[n].op # "cancel" => m = n
    BY <2>1 DEF OnlyCancels
  <2>3. \A n, m \in DOMAIN q.out : IsAnswer(q.out[n]) /\ m > n => q.out[m].event = "garbage"
    <3> TAKE n, m \in DOMAIN q.out
    <3>1. n \in DOMAIN p.out => ~IsAnswer(q.out[n]) BY <1>6, <1>7 DEF IsAnswer
    <3>2. n \notin DOMAIN p.out /\ m \notin DOMAIN p.out => m = n BY <1>6
    <3>3. n \notin DOMAIN p.out /\ m \in DOMAIN p.out => q.out[m].event = "garbage" BY <1>6, <1>7
    <3> QED BY <1>6, <3>1, <3>2, <3>3
  <2> QED BY <2>1, <2>2, <2>3, <1>3, <1>4 DEF OneOrder
<1>9. ASSUME NEW c \in Orders, Serves(p, c) PROVE c = Head(p.commands)
  BY <1>1, <1>9 DEF Serves
<1>10. \A n \in DOMAIN q.out : q.out[n].event = "garbage" \/ q.out[n] = x
  BY <1>6, <1>7
<1>11. ASSUME NEW c \in Orders, Serves(p, c),
              e = "prompt_ready" /\ q.life = "alive" => q.prompt = c.voice
       PROVE Serves(q, c)
  <2>1. x.req = c.req BY <1>0, <1>9, <1>11
  <2>2. \A n \in DOMAIN q.out :
          /\ q.out[n].event # "garbage" => q.out[n].req = c.req
          /\ q.out[n].event = "prompt_ready" /\ q.life = "alive" => q.prompt = c.voice
    BY <2>1, <1>0, <1>10, <1>11
  <2> QED BY <1>3, <1>4, <1>5, <1>11, <2>2 DEF Serves
<1> QED BY <1>3, <1>8, <1>9, <1>10, <1>11 DEF x

\* It takes the order of a generation and runs it.
LEMMA Started ==
  ASSUME NEW p, NEW q, Sound(p), p.life = "alive", q \in AnyProcess, p.commands # <<>>,
         q.life = "alive", q.stdin = p.stdin, q.commands = Tail(p.commands), q.out = p.out,
         q.job = Head(p.commands).req, q.runtime = p.runtime, q.prompt = p.prompt
  PROVE  Acts(p, q)
<1>1. 1 \in DOMAIN p.commands /\ Head(p.commands) = p.commands[1] BY Parts, Taken
<1>2. OneOrder(p) /\ PromptFits(p) BY Parts
<1>3. q.commands = <<>> /\ NoWord(q) /\ OnlyCancels(q) /\ ~Quiet(p)
  BY <1>2 DEF OneOrder, Quiet, NoWord, OnlyCancels
<1>4. DOMAIN <<>> = {} OBVIOUS
<1>5. OneOrder(q)
  <2>1. \A n \in DOMAIN q.out : ~IsAnswer(q.out[n]) BY <1>3 DEF NoWord, IsAnswer
  <2>2. \A n \in DOMAIN q.stdin : q.stdin[n].op = "cancel" BY <1>3 DEF OnlyCancels
  <2> QED BY <2>1, <2>2, <1>3, <1>4 DEF OneOrder
<1>6. PromptFits(q) BY <1>2 DEF PromptFits
<1>7. ASSUME NEW c \in Orders, Serves(p, c) PROVE Serves(q, c)
  <2>1. q.job = c.req BY <1>1, <1>7 DEF Serves
  <2> QED BY <1>3, <1>4, <1>7, <2>1 DEF Serves
<1> QED BY <1>3, <1>5, <1>6, <1>7 DEF Acts, Sound

\* It prints a line that is no answer to an order.
LEMMA Printed ==
  ASSUME NEW p, NEW q, NEW x \in Events, Sound(p), p.life = "alive", q \in AnyProcess,
         \/ x.event = "garbage" /\ q.job = p.job
         \/ x.event = "chunk" /\ p.job # None /\ x.req = p.job /\ q.job = p.job
         \/ IsAnswer(x) /\ x.event \notin {"prompt_ready", "prompt_failed", "invalidated"}
            /\ p.job # None /\ x.req = p.job /\ q.job = None,
         q.life = "alive", q.stdin = p.stdin, q.commands = p.commands,
         q.out = Append(p.out, x), q.runtime = p.runtime, q.prompt = p.prompt
  PROVE  Acts(p, q)
<1>1. /\ \A n \in DOMAIN q.out : q.out[n] = IF n \in DOMAIN p.out THEN p.out[n] ELSE x
      /\ \A n \in DOMAIN q.out, m \in DOMAIN p.out : n \notin DOMAIN p.out => n > m
      /\ \A n, m \in DOMAIN q.out : n \notin DOMAIN p.out /\ m \notin DOMAIN p.out => m = n
      /\ \A n \in DOMAIN q.out : n \in Nat
      /\ \A n \in DOMAIN p.out : n \in Nat
  <2>1. p.out \in Seq(Events) BY Parts
  <2>2. q.out \in Seq(Events) BY <2>1, Appended
  <2>3. \A n \in DOMAIN q.out : n \in Nat BY <2>2, LenProperties
  <2>4. \A n \in DOMAIN p.out : n \in Nat BY <2>1, LenProperties
  <2> QED BY <2>1, <2>3, <2>4, Appended
<1>2. OneOrder(p) /\ PromptFits(p) BY Parts
<1>3. OnlyCancels(p) <=> OnlyCancels(q) BY DEF OnlyCancels
<1>4. x.event = "garbage" => (NoWord(p) => NoWord(q)) BY <1>1 DEF NoWord
<1>5. p.job # None => OnlyCancels(p) /\ p.commands = <<>>
                      /\ \A n \in DOMAIN p.out : ~IsAnswer(p.out[n])
  BY <1>2 DEF OneOrder
<1>6. OneOrder(q)
  <2>1. \A m, n \in DOMAIN q.stdin : q.stdin[m].op # "cancel" /\ q.stdin[n].op # "cancel" => m = n
    BY <1>2 DEF OneOrder
  <2>2. ~OnlyCancels(q) => q.commands = <<>> /\ q.job = None /\ NoWord(q)
    BY <1>2, <1>3, <1>4, <1>5 DEF OneOrder
  <2>3. q.commands # <<>> => Tail(q.commands) = <<>> /\ q.job = None /\ NoWord(q)
    BY <1>2, <1>4, <1>5 DEF OneOrder
  <2>4. ASSUME NEW n \in DOMAIN q.out, IsAnswer(q.out[n])
        PROVE  q.job = None /\ \A m \in DOMAIN q.out : m > n => q.out[m].event = "garbage"
    <3>1. CASE n \in DOMAIN p.out
      <4>1. IsAnswer(p.out[n]) BY <1>1, <2>4, <3>1
      <4>2. p.job = None /\ x.event = "garbage" BY <4>1, <3>1, <1>5, <1>2 DEF OneOrder
      <4>3. \A m \in DOMAIN p.out : m > n => p.out[m].event = "garbage"
        BY <4>1, <3>1, <1>2 DEF OneOrder
      <4> QED BY <4>2, <4>3, <1>1 DEF IsAnswer
    <3>2. CASE n \notin DOMAIN p.out
      <4>1. IsAnswer(x) BY <1>1, <2>4, <3>2
      <4>2. q.job = None BY <4>1 DEF IsAnswer
      <4>3. ASSUME NEW m \in DOMAIN q.out, m > n PROVE q.out[m].event = "garbage"
        BY <4>3, <3>2, <1>1
      <4> QED BY <4>2, <4>3
    <3> QED BY <3>1, <3>2
  <2>5. \A n \in DOMAIN q.commands : q.commands[n].op # "cancel" BY <1>2 DEF OneOrder
  <2> QED BY <2>1, <2>2, <2>3, <2>4, <2>5 DEF OneOrder
<1>7. PromptFits(q)
  <2>1. x.event \notin {"prompt_failed", "invalidated"} OBVIOUS
  <2> QED BY <1>1, <1>2, <2>1 DEF PromptFits
<1>8. Quiet(p) => Quiet(q) BY <1>3, <1>4 DEF Quiet
<1>9. ASSUME NEW c \in Orders, Serves(p, c) PROVE Serves(q, c)
  <2>1. x.event # "garbage" => x.req = c.req BY <1>9 DEF Serves
  <2>2. x.event # "prompt_ready" BY DEF IsAnswer
  <2>3. \A n \in DOMAIN q.out :
          /\ q.out[n].event # "garbage" => q.out[n].req = c.req
          /\ q.out[n].event = "prompt_ready" /\ q.life = "alive" => q.prompt = c.voice
    BY <2>1, <2>2, <1>1, <1>9 DEF Serves
  <2>4. q.job \in {None, c.req} BY <1>9 DEF Serves
  <2> QED BY <1>9, <2>3, <2>4 DEF Serves
<1> QED BY <1>6, <1>7, <1>8, <1>9 DEF Acts, Sound

\* The adapter takes the first line it printed; an answer is the last word of an order.
LosesLine(p, q) == p.out # <<>> /\ q = [p EXCEPT !.out = Tail(@)]

LEMMA LineTaken ==
  ASSUME NEW p, NEW q, Sound(p), LosesLine(p, q)
  PROVE  /\ Sound(q) /\ q.life = p.life /\ q.runtime = p.runtime /\ q.prompt = p.prompt
         /\ Quiet(p) => Quiet(q)
         /\ \A c \in Orders : Serves(p, c) => Serves(q, c)
         /\ IsAnswer(Head(p.out)) => Quiet(q)
         /\ Head(p.out).event \in {"prompt_failed", "invalidated"} => q.prompt = None
         /\ \A c \in Orders : Serves(p, c) /\ Head(p.out).event = "prompt_ready"
                              /\ p.life = "alive" => q.prompt = c.voice
<1> DEFINE t == Tail(p.out)
<1>1. /\ t \in Seq(Events) /\ 1 \in DOMAIN p.out /\ Head(p.out) = p.out[1]
      /\ \A n \in DOMAIN p.out : n \in Nat
      /\ \A n \in DOMAIN t : n \in Nat /\ n + 1 \in DOMAIN p.out /\ n + 1 > 1
                             /\ t[n] = p.out[n + 1]
  BY Parts, Taken DEF LosesLine
<1>2. p \in AnyProcess /\ OneOrder(p) /\ PromptFits(p) BY Parts
<1>3. q = [p EXCEPT !.out = t] BY DEF LosesLine
<1> HIDE DEF t
<1>4. /\ q \in AnyProcess /\ q.life = p.life /\ q.stdin = p.stdin /\ q.commands = p.commands
      /\ q.out = t /\ q.job = p.job /\ q.runtime = p.runtime /\ q.prompt = p.prompt
  BY <1>1, <1>2, <1>3 DEF AnyProcess
<1>5. OnlyCancels(p) <=> OnlyCancels(q) BY <1>4 DEF OnlyCancels
<1>6. NoWord(p) => NoWord(q) BY <1>1, <1>4 DEF NoWord
<1>7. OneOrder(q)
  <2>1. \A n \in DOMAIN q.out : IsAnswer(q.out[n]) =>
          q.job = None /\ \A m \in DOMAIN q.out : m > n => q.out[m].event = "garbage"
    <3> SUFFICES ASSUME NEW n \in DOMAIN t, IsAnswer(t[n])
                 PROVE  p.job = None /\ \A m \in DOMAIN t : m > n => t[m].event = "garbage"
      BY <1>4
    <3>1. IsAnswer(p.out[n + 1]) /\ n + 1 \in DOMAIN p.out BY <1>1
    <3>2. p.job = None /\ \A m \in DOMAIN p.out : m > n + 1 => p.out[m].event = "garbage"
      BY <3>1, <1>2 DEF OneOrder
    <3>3. ASSUME NEW m \in DOMAIN t, m > n PROVE t[m].event = "garbage"
      <4>1. m + 1 > n + 1 /\ m + 1 \in DOMAIN p.out BY <1>1, <3>3
      <4> QED BY <4>1, <3>2, <1>1
    <3> QED BY <3>2, <3>3
  <2> QED BY <2>1, <1>2, <1>4, <1>5, <1>6 DEF OneOrder
<1>8. PromptFits(q) BY <1>1, <1>2, <1>4 DEF PromptFits
<1>9. Quiet(p) => Quiet(q) BY <1>4, <1>5, <1>6 DEF Quiet
<1>10. ASSUME NEW c \in Orders, Serves(p, c) PROVE Serves(q, c)
  BY <1>1, <1>4, <1>10 DEF Serves
<1>11. ASSUME IsAnswer(Head(p.out)) PROVE Quiet(q)
  <2>1. \A m \in DOMAIN p.out : m > 1 => p.out[m].event = "garbage"
    BY <1>1, <1>2, <1>11 DEF OneOrder
  <2>2. NoWord(q) BY <2>1, <1>1, <1>4 DEF NoWord
  <2>3. p.job = None BY <1>1, <1>2, <1>11 DEF OneOrder
  <2>4. ~NoWord(p) BY <1>1, <1>11 DEF NoWord, IsAnswer
  <2>5. OnlyCancels(p) /\ p.commands = <<>> BY <2>4, <1>2 DEF OneOrder
  <2> QED BY <2>2, <2>3, <2>5, <1>4, <1>5 DEF Quiet
<1>12. Head(p.out).event \in {"prompt_failed", "invalidated"} => q.prompt = None
  BY <1>1, <1>2, <1>4 DEF PromptFits
<1>13. \A c \in Orders : Serves(p, c) /\ Head(p.out).event = "prompt_ready"
                         /\ p.life = "alive" => q.prompt = c.voice
  BY <1>1, <1>4 DEF Serves
<1> QED BY <1>4, <1>7, <1>8, <1>9, <1>10, <1>11, <1>12, <1>13 DEF Sound

\* Every step of a process is one of these.
LEMMA SignalActs ==
  ASSUME NEW p, Sound(p), p.life = "alive", p.stdin # <<>>, Head(p.stdin).op = "cancel"
  PROVE  Acts(p, SignalCancel([p EXCEPT !.stdin = Tail(@)], Head(p.stdin).req))
<1> DEFINE t == Tail(p.stdin)
           r == Head(p.stdin).req
           rest == [p EXCEPT !.stdin = t]
           q == SignalCancel(rest, r)
<1>1. t \in Seq(Orders) /\ r \in Operations \cup {None}
  <2>1. Tail(p.stdin) \in Seq(Orders) /\ Head(p.stdin) \in Orders BY Parts, Taken
  <2> QED BY <2>1 DEF Orders
<1>2. p \in AnyProcess BY Parts
<1>t. t = Tail(p.stdin) OBVIOUS
<1> HIDE DEF t, r
<1>3. /\ rest \in AnyProcess /\ rest.stdin = t /\ rest.life = p.life
      /\ rest.commands = p.commands /\ rest.out = p.out /\ rest.job = p.job
      /\ rest.runtime = p.runtime /\ rest.prompt = p.prompt
  BY <1>1, <1>2 DEF AnyProcess
<1> HIDE DEF rest
<1>4. PICK cc \in BOOLEAN, pp, hh, ff \in SUBSET (Operations \cup {None}) :
         q = [rest EXCEPT !.cancel = cc, !.pending = pp, !.heard = hh, !.forgotten = ff]
  <2> DEFINE keeps == rest.job # r /\ r \notin rest.completed
             full == Cardinality(rest.pending) >= PendingLimit
             cc == rest.cancel \/ rest.job = r
             pp == IF keeps THEN (IF full THEN {} ELSE rest.pending) \cup {r} ELSE rest.pending
             hh == rest.heard \cup {r}
             ff == (IF keeps /\ full THEN rest.forgotten \cup rest.pending ELSE rest.forgotten)
                      \ {r}
  <2>1. rest.cancel \in BOOLEAN /\ rest.pending \in SUBSET (Operations \cup {None})
        /\ rest.heard \in SUBSET (Operations \cup {None})
        /\ rest.forgotten \in SUBSET (Operations \cup {None})
    BY <1>3 DEF AnyProcess
  <2>2. q = [rest EXCEPT !.cancel = cc, !.pending = pp, !.heard = hh, !.forgotten = ff]
    BY DEF SignalCancel
  <2>3. cc \in BOOLEAN /\ pp \in SUBSET (Operations \cup {None})
        /\ hh \in SUBSET (Operations \cup {None}) /\ ff \in SUBSET (Operations \cup {None})
    BY <1>1, <2>1
  <2> HIDE DEF q, cc, pp, hh, ff
  <2> QED BY <2>2, <2>3
<1> HIDE DEF q
<1>5. /\ q \in AnyProcess /\ q.stdin = t /\ q.life = p.life
      /\ q.commands = p.commands /\ q.out = p.out /\ q.job = p.job
      /\ q.runtime = p.runtime /\ q.prompt = p.prompt
  BY <1>3, <1>4 DEF AnyProcess
<1>6. Acts(p, q) BY <1>5, <1>t, CancelRead
<1> QED BY <1>6 DEF q, rest, t, r

LEMMA KeepActs ==
  ASSUME NEW p, Sound(p), p.life = "alive", p.stdin # <<>>, Head(p.stdin).op # "cancel"
  PROVE  Acts(p, [[p EXCEPT !.stdin = Tail(@)] EXCEPT !.commands = Append(@, Head(p.stdin))])
<1> DEFINE t == Tail(p.stdin)
           k == Append(p.commands, Head(p.stdin))
           rest == [p EXCEPT !.stdin = t]
           q == [rest EXCEPT !.commands = k]
<1>1. t \in Seq(Orders) /\ k \in Seq(Orders)
  <2>1. Tail(p.stdin) \in Seq(Orders) /\ Head(p.stdin) \in Orders BY Parts, Taken
  <2>2. p.commands \in Seq(Orders) BY Parts
  <2> QED BY <2>1, <2>2, Appended
<1>2. p \in AnyProcess BY Parts
<1>t. t = Tail(p.stdin) /\ k = Append(p.commands, Head(p.stdin)) OBVIOUS
<1> HIDE DEF t, k
<1>3. /\ rest \in AnyProcess /\ rest.stdin = t /\ rest.life = p.life
      /\ rest.commands = p.commands /\ rest.out = p.out /\ rest.job = p.job
      /\ rest.runtime = p.runtime /\ rest.prompt = p.prompt
  BY <1>1, <1>2 DEF AnyProcess
<1>r. rest = [p EXCEPT !.stdin = t] OBVIOUS
<1> HIDE DEF rest
<1>4. /\ q \in AnyProcess /\ q.stdin = t /\ q.life = p.life
      /\ q.commands = k /\ q.out = p.out /\ q.job = p.job
      /\ q.runtime = p.runtime /\ q.prompt = p.prompt
  BY <1>1, <1>3 DEF AnyProcess
<1>q. q = [rest EXCEPT !.commands = k] OBVIOUS
<1> HIDE DEF q
<1>5. Acts(p, q) BY <1>4, <1>t, OrderRead
<1>6. rest.commands = p.commands BY <1>3
<1> QED BY <1>5 DEF q, rest, t, k

\* It answers e to the order it serves and is left with this runtime and prompt.
Replies(p, q, e, rt, pr) ==
    /\ q \in AnyProcess /\ q.life = p.life /\ q.stdin = p.stdin
    /\ q.commands = Tail(p.commands) /\ q.job = p.job
    /\ q.out = Append(p.out, Event(e, Head(p.commands).req))
    /\ q.runtime = rt /\ q.prompt = pr

Replied == {"loaded", "failed", "prompt_ready", "prompt_failed", "refused", "invalidated",
            "absent", "done"}

LEMMA ReplyActs ==
  ASSUME NEW p, NEW q, NEW e \in Replied, NEW rt, NEW pr,
         Sound(p), p.life = "alive", p.commands # <<>>, Replies(p, q, e, rt, pr),
         rt = p.runtime \/ (rt = TRUE /\ Head(p.commands).op = "load"),
         \/ pr = p.prompt
         \/ pr = None
         \/ p.runtime /\ Head(p.commands).op = "prewarm" /\ pr = Head(p.commands).voice,
         e = "prompt_ready" => pr = Head(p.commands).voice,
         e \in {"prompt_failed", "invalidated"} => pr = None
  PROVE  Acts(p, q)
<1> DEFINE x == Event(e, Head(p.commands).req)
<1>0. x \in Events /\ e \notin {"chunk", "garbage"}
  <2>1. Head(p.commands) \in Orders BY Parts, Taken
  <2> QED BY <2>1 DEF Orders, Events, Event, Ends, Replied
<1>2. p \in AnyProcess /\ PromptFits(p) BY Parts
<1>5. Answers(p, q, e) BY DEF Answers, Replies
<1>6. /\ OneOrder(q) /\ ~Quiet(p)
      /\ \A c \in Orders : Serves(p, c) => c = Head(p.commands)
      /\ \A n \in DOMAIN q.out : q.out[n].event = "garbage" \/ q.out[n] = x
      /\ \A c \in Orders :
            /\ Serves(p, c)
            /\ e = "prompt_ready" /\ q.life = "alive" => q.prompt = c.voice
            => Serves(q, c)
  BY <1>0, <1>5, Answered
<1>4. q.life = "alive" /\ q.runtime = rt /\ q.prompt = pr /\ q \in AnyProcess BY DEF Replies
<1>7. PromptFits(q)
  <2>1. x.event = e BY DEF Event
  <2>2. q.prompt # None => q.runtime BY <1>2, <1>4 DEF PromptFits
  <2>3. \A n \in DOMAIN q.out :
           q.out[n].event \in {"prompt_failed", "invalidated"} => q.prompt = None
    BY <2>1, <1>6, <1>4
  <2> QED BY <2>2, <2>3 DEF PromptFits
<1>8. \A c \in Orders : Serves(p, c) => Serves(q, c) BY <1>4, <1>6
<1>9. q.runtime => p.runtime \/ \A c \in Orders : Serves(p, c) => c.op = "load"
  BY <1>4, <1>6
<1>10. q.prompt \in {p.prompt, None} \/ \A c \in Orders : Serves(p, c) => c.op = "prewarm"
  BY <1>4, <1>6
<1> QED BY <1>4, <1>6, <1>7, <1>8, <1>9, <1>10 DEF Acts, Sound

\* What the next order becomes, in the words of the code.
LEMMA ServedReplies ==
  ASSUME NEW i \in Workers, Sound(w[i]), w[i].commands # <<>>, NEW e \in Replied,
         NEW rt \in BOOLEAN, NEW pr \in Voices \cup {None}
  PROVE  /\ Replies(w[i], Served(i, e), e, w[i].runtime, w[i].prompt)
         /\ Replies(w[i], [Served(i, e) EXCEPT !.runtime = rt], e, rt, w[i].prompt)
         /\ Replies(w[i], [Served(i, e) EXCEPT !.prompt = pr], e, w[i].runtime, pr)
<1> DEFINE p == w[i]
           k == Tail(p.commands)
           x == Event(e, Head(p.commands).req)
           u == Append(p.out, x)
           s == Served(i, e)
<1>0. x \in Events
  <2>1. Head(p.commands) \in Orders BY Parts, Taken
  <2> QED BY <2>1 DEF Orders, Events, Event, Ends, Replied
<1> HIDE DEF x
<1>1. k \in Seq(Orders) /\ u \in Seq(Events)
  <2>1. k \in Seq(Orders) /\ p.out \in Seq(Events) BY Parts, Taken
  <2> QED BY <2>1, <1>0, Appended
<1>2. s = [p EXCEPT !.commands = k, !.reader = TRUE, !.out = u] BY DEF Served, x
<1>t. k = Tail(p.commands) /\ u = Append(p.out, Event(e, Head(p.commands).req)) BY DEF x
<1>3. p \in AnyProcess BY Parts
<1> HIDE DEF k, u, s, p
<1>4. s \in AnyProcess /\ s.life = p.life /\ s.stdin = p.stdin /\ s.commands = k /\ s.out = u
      /\ s.job = p.job /\ s.runtime = p.runtime /\ s.prompt = p.prompt
  BY <1>1, <1>2, <1>3 DEF AnyProcess
<1> DEFINE s1 == [s EXCEPT !.runtime = rt]
           s2 == [s EXCEPT !.prompt = pr]
<1>5. s1 \in AnyProcess /\ s1.life = p.life /\ s1.stdin = p.stdin /\ s1.commands = k
      /\ s1.out = u /\ s1.job = p.job /\ s1.runtime = rt /\ s1.prompt = p.prompt
  BY <1>4 DEF AnyProcess
<1>6. s2 \in AnyProcess /\ s2.life = p.life /\ s2.stdin = p.stdin /\ s2.commands = k
      /\ s2.out = u /\ s2.job = p.job /\ s2.runtime = p.runtime /\ s2.prompt = pr
  BY <1>4 DEF AnyProcess
<1> HIDE DEF s1, s2
<1>7. /\ Replies(p, s, e, p.runtime, p.prompt) /\ Replies(p, s1, e, rt, p.prompt)
      /\ Replies(p, s2, e, p.runtime, pr)
  BY <1>t, <1>4, <1>5, <1>6 DEF Replies
<1> QED BY <1>7 DEF p, s, s1, s2

LEMMA WorkerActs ==
  ASSUME TypePipes, AllSound, NEW i \in Workers, WorkerStep(i) \/ Fault(i)
  PROVE  /\ w[i].life = "alive" /\ w' = [w EXCEPT ![i] = w'[i]] /\ Acts(w[i], w'[i])
         /\ killer[i] = None /\ UNCHANGED <<adapter, operation, cancellation, killer>>
<1> DEFINE p == w[i]
           Next_ == \E r : Became(i, r) /\ Acts(p, r)
<1>0. Sound(p) /\ p \in AnyProcess BY DEF AllSound, Sound
<1>b. ASSUME NEW r, Became(i, r)
      PROVE  /\ p.life = "alive" /\ w' = [w EXCEPT ![i] = w'[i]] /\ w'[i] = r
             /\ killer[i] = None /\ UNCHANGED <<adapter, operation, cancellation, killer>>
  BY <1>b DEF Became, TypePipes
<1> SUFFICES Next_
  BY <1>b
<1>1. ASSUME ReadLine(i) PROVE Next_
  <2>1. p.life = "alive" /\ p.stdin # <<>> BY <1>1 DEF ReadLine, Became
  <2>2. CASE Head(p.stdin).op = "cancel"
    <3>1. Became(i, SignalCancel([p EXCEPT !.stdin = Tail(@)], Head(p.stdin).req))
      BY <1>1, <2>2 DEF ReadLine
    <3> QED BY <3>1, <2>1, <2>2, <1>0, SignalActs
  <2>3. CASE Head(p.stdin).op # "cancel"
    <3>1. Became(i, [[p EXCEPT !.stdin = Tail(@)] EXCEPT !.commands = Append(@, Head(p.stdin))])
      BY <1>1, <2>3 DEF ReadLine
    <3> QED BY <3>1, <2>1, <2>3, <1>0, KeepActs
  <2> QED BY <2>2, <2>3
<1>d. ASSUME NEW op, Dispatches(i, op), p.life = "alive"
      PROVE  p.commands # <<>> /\ Head(p.commands).op = op
             /\ p.job = None /\ Head(p.commands) \in Orders
             /\ p.runtime \in BOOLEAN /\ p.prompt \in Voices \cup {None}
             /\ Head(p.commands).voice \in Voices \cup {None}
             /\ Head(p.commands).req \in Operations \cup {None}
  <2>1. p.commands # <<>> /\ Head(p.commands).op = op /\ p.job = None BY <1>d DEF Dispatches
  <2>2. Head(p.commands) \in Orders BY <2>1, <1>0, Parts, Taken
  <2>3. p.runtime \in BOOLEAN /\ p.prompt \in Voices \cup {None} BY <1>0, Parts
  <2> QED BY <2>1, <2>2, <2>3 DEF Orders
<1>2. ASSUME DispatchLoad(i) PROVE Next_
  <2>0. p.life = "alive" BY <1>2 DEF DispatchLoad, Became
  <2>1. p.commands # <<>> /\ Head(p.commands).op = "load" /\ p.runtime \in BOOLEAN
        /\ p.prompt \in Voices \cup {None}
    BY <1>2, <2>0, <1>d DEF DispatchLoad
  <2>2. /\ Replies(p, [Served(i, "loaded") EXCEPT !.runtime = TRUE], "loaded", TRUE, p.prompt)
        /\ Replies(p, Served(i, "failed"), "failed", p.runtime, p.prompt)
    BY <2>1, <1>0, ServedReplies DEF Replied
  <2>3. Acts(p, [Served(i, "loaded") EXCEPT !.runtime = TRUE]) /\ Acts(p, Served(i, "failed"))
    BY <2>0, <2>1, <2>2, <1>0, ReplyActs DEF Replied
  <2> QED BY <1>2, <2>3 DEF DispatchLoad
<1>3. ASSUME DispatchPrewarm(i) PROVE Next_
  <2> DEFINE v == Head(p.commands).voice
             v2 == IF p.runtime THEN None ELSE p.prompt
  <2>0. p.life = "alive" BY <1>3 DEF DispatchPrewarm, Became
  <2>1. p.commands # <<>> /\ Head(p.commands).op = "prewarm" /\ p.runtime \in BOOLEAN
        /\ p.prompt \in Voices \cup {None} /\ v \in Voices \cup {None}
    BY <1>3, <2>0, <1>d DEF DispatchPrewarm
  <2>2. p.prompt # None => p.runtime BY <1>0, Parts DEF PromptFits
  <2>4. v2 = None /\ v2 \in Voices \cup {None} BY <2>2
  <2> HIDE DEF v2
  <2>5. /\ Replies(p, [Served(i, "prompt_ready") EXCEPT !.prompt = v], "prompt_ready", p.runtime, v)
        /\ Replies(p, [Served(i, "prompt_failed") EXCEPT !.prompt = v2], "prompt_failed",
                   p.runtime, v2)
    BY <2>1, <2>4, <1>0, ServedReplies DEF Replied
  <2>6. /\ p.runtime => Acts(p, [Served(i, "prompt_ready") EXCEPT !.prompt = v])
        /\ Acts(p, [Served(i, "prompt_failed") EXCEPT !.prompt = v2])
    BY <2>0, <2>1, <2>4, <2>5, <1>0, ReplyActs DEF Replied
  <2>7. Served(i, "prompt_failed").prompt = p.prompt
    <3>1. Served(i, "prompt_failed") = [p EXCEPT !.commands = Tail(p.commands), !.reader = TRUE,
             !.out = Append(p.out, Event("prompt_failed", Head(p.commands).req))]
      BY DEF Served
    <3> QED BY <3>1, <1>0 DEF AnyProcess
  <2> QED BY <1>3, <2>6, <2>7 DEF DispatchPrewarm, v2
<1>4. ASSUME DispatchGenerate(i) PROVE Next_
  <2>0. p.life = "alive" BY <1>4 DEF DispatchGenerate, Became
  <2>1. p.commands # <<>> /\ p.runtime \in BOOLEAN /\ p.prompt \in Voices \cup {None}
        /\ Head(p.commands).req \in Operations \cup {None}
    BY <1>4, <2>0, <1>d DEF DispatchGenerate
  <2>2. CASE Became(i, Served(i, "refused"))
    <3>1. Replies(p, Served(i, "refused"), "refused", p.runtime, p.prompt)
      BY <2>1, <1>0, ServedReplies DEF Replied
    <3>2. Acts(p, Served(i, "refused")) BY <2>0, <2>1, <3>1, <1>0, ReplyActs DEF Replied
    <3> QED BY <2>2, <3>2
  <2> DEFINE k == Tail(p.commands)
             j == Head(p.commands).req
             cc == j \in p.pending
             pp == p.pending \ {j}
             q == [p EXCEPT !.commands = k, !.reader = TRUE, !.job = j, !.chunks = 0,
                            !.cancel = cc, !.pending = pp]
  <2>3. CASE Became(i, q)
    <3>1. k \in Seq(Orders) BY <2>1, <1>0, Parts, Taken
    <3>2. j \in Operations \cup {None} /\ cc \in BOOLEAN
          /\ pp \in SUBSET (Operations \cup {None})
      BY <2>1, <1>0 DEF AnyProcess
    <3>t. k = Tail(p.commands) /\ j = Head(p.commands).req OBVIOUS
    <3> HIDE DEF k, j, cc, pp
    <3>3. /\ q \in AnyProcess /\ q.life = p.life /\ q.stdin = p.stdin /\ q.commands = k
          /\ q.out = p.out /\ q.job = j /\ q.runtime = p.runtime /\ q.prompt = p.prompt
      BY <3>1, <3>2, <1>0 DEF AnyProcess
    <3> HIDE DEF q
    <3>4. Acts(p, q) BY <3>3, <3>t, <2>0, <2>1, <1>0, Started
    <3> QED BY <2>3, <3>4
  <2> QED BY <1>4, <2>2, <2>3 DEF DispatchGenerate
<1>5. ASSUME DispatchInvalidate(i) PROVE Next_
  <2>0. p.life = "alive" BY <1>5 DEF DispatchInvalidate, Became
  <2>1. p.commands # <<>> /\ p.runtime \in BOOLEAN /\ p.prompt \in Voices \cup {None}
    BY <1>5, <2>0, <1>d DEF DispatchInvalidate
  <2>2. /\ Replies(p, [Served(i, "invalidated") EXCEPT !.prompt = None], "invalidated",
                   p.runtime, None)
        /\ Replies(p, Served(i, "absent"), "absent", p.runtime, p.prompt)
    BY <2>1, <1>0, ServedReplies DEF Replied
  <2>3. Acts(p, [Served(i, "invalidated") EXCEPT !.prompt = None]) /\ Acts(p, Served(i, "absent"))
    BY <2>0, <2>1, <2>2, <1>0, ReplyActs DEF Replied
  <2> QED BY <1>5, <2>3 DEF DispatchInvalidate
<1>6. ASSUME DispatchUnload(i) PROVE Next_
  <2>0. p.life = "alive" BY <1>6 DEF DispatchUnload, Became
  <2>1. p.commands # <<>> /\ p.runtime \in BOOLEAN /\ p.prompt \in Voices \cup {None}
    BY <1>6, <2>0, <1>d DEF DispatchUnload
  <2>2. Replies(p, Served(i, "done"), "done", p.runtime, p.prompt)
    BY <2>1, <1>0, ServedReplies DEF Replied
  <2>3. Acts(p, Served(i, "done")) BY <2>0, <2>1, <2>2, <1>0, ReplyActs DEF Replied
  <2>4. Acts(p, Remains(Served(i, "done")))
    BY <2>3, RemainsAreSound DEF Acts
  <2> QED BY <1>6, <2>4 DEF DispatchUnload
<1>7. ASSUME GenerateChunk(i) PROVE Next_
  <2> DEFINE x == Event("chunk", p.job)
             u == Append(p.out, x)
             n == p.chunks + 1
             q == [p EXCEPT !.chunks = n, !.out = u]
  <2>0. p.life = "alive" /\ p.job # None /\ Became(i, q)
    BY <1>7 DEF GenerateChunk, Became
  <2>1. x \in Events /\ x.event = "chunk" /\ x.req = p.job /\ n \in Nat
    BY <1>0 DEF Event, Events, AnyProcess
  <2> HIDE DEF x, n
  <2>2. u \in Seq(Events) BY <2>1, <1>0, Parts, Appended
  <2>t. u = Append(p.out, x) OBVIOUS
  <2> HIDE DEF u
  <2>3. /\ q \in AnyProcess /\ q.life = p.life /\ q.stdin = p.stdin /\ q.commands = p.commands
        /\ q.out = u /\ q.job = p.job /\ q.runtime = p.runtime /\ q.prompt = p.prompt
    BY <2>1, <2>2, <1>0 DEF AnyProcess
  <2> HIDE DEF q
  <2>4. Acts(p, q) BY <2>0, <2>1, <2>3, <2>t, <1>0, Printed
  <2> QED BY <2>0, <2>4
<1>8. ASSUME NEW e \in Ends, GenerateEnd(i, e) PROVE Next_
  <2> DEFINE x == Event(e, p.job)
             u == Append(p.out, x)
             d == p.completed \cup {p.job}
             q == [p EXCEPT !.job = None, !.cancel = FALSE, !.completed = d, !.out = u]
  <2>0. p.life = "alive" /\ p.job # None /\ Became(i, q)
    BY <1>8 DEF GenerateEnd, Became
  <2>1. /\ x \in Events /\ x.event = e /\ x.req = p.job
        /\ d \in SUBSET (Operations \cup {None})
    BY <1>0 DEF Event, Events, AnyProcess
  <2>e. IsAnswer(x) /\ x.event \notin {"prompt_ready", "prompt_failed", "invalidated"}
    BY <2>1 DEF IsAnswer, Ends
  <2> HIDE DEF x, d
  <2>2. u \in Seq(Events) BY <2>1, <1>0, Parts, Appended
  <2>t. u = Append(p.out, x) OBVIOUS
  <2> HIDE DEF u
  <2>3. /\ q \in AnyProcess /\ q.life = p.life /\ q.stdin = p.stdin /\ q.commands = p.commands
        /\ q.out = u /\ q.job = None /\ q.runtime = p.runtime /\ q.prompt = p.prompt
    BY <2>1, <2>2, <1>0 DEF AnyProcess
  <2> HIDE DEF q
  <2>4. Acts(p, q) BY <2>0, <2>1, <2>e, <2>3, <2>t, <1>0, Printed
  <2> QED BY <2>0, <2>4
<1>9. ASSUME Fault(i) PROVE Next_
  <2>1. CASE Became(i, Remains(p))
    <3>1. Acts(p, Remains(p)) BY <1>0, RemainsAreSound DEF Acts
    <3> QED BY <2>1, <3>1
  <2> DEFINE x == Event("garbage", None)
             u == Append(p.out, x)
             q == [p EXCEPT !.out = u]
  <2>2. CASE Became(i, q)
    <3>0. p.life = "alive" BY <2>2 DEF Became
    <3>1. x \in Events /\ x.event = "garbage" BY DEF Event, Events
    <3> HIDE DEF x
    <3>2. u \in Seq(Events) BY <3>1, <1>0, Parts, Appended
    <3>t. u = Append(p.out, x) OBVIOUS
    <3> HIDE DEF u
    <3>3. /\ q \in AnyProcess /\ q.life = p.life /\ q.stdin = p.stdin /\ q.commands = p.commands
          /\ q.out = u /\ q.job = p.job /\ q.runtime = p.runtime /\ q.prompt = p.prompt
      BY <3>2, <1>0 DEF AnyProcess
    <3> HIDE DEF q
    <3>4. Acts(p, q) BY <3>0, <3>1, <3>3, <3>t, <1>0, Printed
    <3> QED BY <2>2, <3>4
  <2> QED BY <1>9, <2>1, <2>2 DEF Fault
<1> QED BY <1>1, <1>2, <1>3, <1>4, <1>5, <1>6, <1>7, <1>8, <1>9 DEF WorkerStep

-----------------------------------------------------------------------------
(* What a step does to the exchange.                                        *)

\* A quiet process serves whatever order.
LEMMA QuietServes == ASSUME NEW p, Quiet(p), NEW c PROVE Serves(p, c)
<1>1. DOMAIN <<>> = {} OBVIOUS
<1> QED BY <1>1 DEF Quiet, OnlyCancels, NoWord, Serves

\* At most one operation is engaged: the one that holds the lock.
LEMMA OneEngaged ==
  ASSUME WorkInv, NEW o \in Operations, NEW x \in Operations,
         opc[o] \notin Outside, Engaged(opc[x])
  PROVE  x = o
  BY DEF WorkInv, WorkersLock, Engaged, Awaiting, Outside

\* Orders that are asked are orders.
LEMMA OrdersAreOrders ==
  ASSUME NEW o \in Operations, NEW v \in Voices \cup {None}, NEW place
  PROVE  Command(Asks(place), o, v) \in Orders
  BY DEF Command, Asks, Orders, Kinds

\* Nobody begins to talk, and who talks goes on with the same order.
Talks ==
    \A o \in Operations :
        Engaged(opc'[o]) => Engaged(opc[o]) /\ Asks(opc'[o]) = Asks(opc[o]) /\ voice'[o] = voice[o]

\* The same of those who read.
ReadersTalk ==
    \A o \in Operations : Engaged(opc'[o]) /\ src'[o] # 0 =>
        Engaged(opc[o]) /\ Asks(opc'[o]) = Asks(opc[o]) /\ voice'[o] = voice[o]

\* The types of the next state that a step of the adapter has to keep.
NextTypes ==
    /\ src' \in [Operations -> 0..MaxWorkers]
    /\ voice' \in [Operations -> Voices \cup {None}]
    /\ target' \in [Callers -> Requests \cup {None}]
NextReaders == \A o \in Operations : src'[o] # 0 => opc'[o] \in Awaiting

\* The pipes are left alone.
Rests ==
    /\ UNCHANGED <<worker, w, loaded, killer>>
    /\ Talks /\ NextTypes /\ NextReaders
    /\ \A o \in Operations : src'[o] \in {src[o], worker}
    /\ Running =>
          /\ \A o \in Operations : Engaged(opc[o]) => Engaged(opc'[o])
          /\ selected' = selected \/ w[worker].prompt = None
          /\ \A o \in Operations : opc'[o] = "leaving" => opc[o] = "leaving"

LEMMA RestsKeep == ASSUME PipeInv, Rests PROVE PipeInv'
<1>t. TypePipes /\ OneLives /\ AllSound /\ EachServed /\ ReadersWait /\ RestIsQuiet
      /\ LoadedIsKnown /\ PromptIsKnown /\ LeavingIsClean
  BY DEF PipeInv
<1>0. \A o \in Operations : Engaged(opc'[o]) => OrderOf(o)' = OrderOf(o)
  BY DEF Rests, Talks, OrderOf
<1>1. TypePipes' BY <1>t DEF Rests, NextTypes, TypePipes
<1>2. OneLives' BY <1>t DEF Rests, OneLives
<1>3. AllSound' BY <1>t DEF Rests, AllSound
<1>4. EachServed'
  <2> SUFFICES ASSUME NEW o \in Operations, Engaged(opc'[o])
               PROVE  /\ worker # 0 => Serves(w[worker], OrderOf(o))
                      /\ src'[o] # 0 =>
                            /\ Serves(w[src'[o]], OrderOf(o))
                            /\ src'[o] # worker /\ Running => Quiet(w[worker]) /\ ~w[worker].runtime
    BY <1>0 DEF EachServed, Rests, Running
  <2>1. Engaged(opc[o]) /\ src'[o] \in {src[o], worker} BY DEF Rests, Talks
  <2> QED BY <2>1, <1>t DEF EachServed
<1>5. ReadersWait' BY DEF Rests, NextReaders, ReadersWait
<1>6. RestIsQuiet' BY <1>t DEF Rests, RestIsQuiet, Running
<1>a. ASSUME Running, NEW o \in Operations, Engaged(opc[o]) PROVE Asks(opc'[o]) = Asks(opc[o]) /\ Engaged(opc'[o])
  BY <1>a DEF Rests, Talks
<1>7. LoadedIsKnown'
  <2>1. \A o \in Operations : Running /\ opc[o] = "loading" => opc'[o] = "loading"
    BY <1>a DEF Engaged, Awaiting, Asks
  <2> QED BY <2>1, <1>t DEF Rests, LoadedIsKnown, Running
<1>8. PromptIsKnown'
  <2>1. \A o \in Operations : Running /\ opc[o] = "prewarming" => opc'[o] = "prewarming"
    BY <1>a DEF Engaged, Awaiting, Asks
  <2> QED BY <2>1, <1>t DEF Rests, PromptIsKnown, Running
<1>9. LeavingIsClean' BY <1>t DEF Rests, LeavingIsClean, Running
<1> QED BY <1>1, <1>2, <1>3, <1>4, <1>5, <1>6, <1>7, <1>8, <1>9 DEF PipeInv

\* There is no current process any more; what the last one printed can still be read.
Stops ==
    /\ worker' = 0 /\ w' = w
    /\ \E x \in Threads : killer' = [i \in Workers |-> IF i = worker THEN x ELSE killer[i]]
    /\ ReadersTalk /\ NextTypes /\ NextReaders
    /\ \A o \in Operations : src'[o] \in {src[o], 0}

LEMMA StopsKeep == ASSUME PipeInv, Stops PROVE PipeInv'
<1>t. TypePipes /\ OneLives /\ AllSound /\ EachServed BY DEF PipeInv
<1>0. \A o \in Operations :
         Engaged(opc'[o]) /\ src'[o] # 0 => Engaged(opc[o]) /\ OrderOf(o)' = OrderOf(o)
  BY DEF Stops, ReadersTalk, OrderOf
<1>w. w' = w /\ worker' = 0 BY DEF Stops
<1>k. PICK x \in Threads : killer' = [i \in Workers |-> IF i = worker THEN x ELSE killer[i]]
  BY DEF Stops
<1>x. x # None BY NameAssumption DEF Threads, Operations, Callers
<1>1. TypePipes'
  <2>1. killer' \in [Workers -> Threads \cup {None}] BY <1>k, <1>t DEF TypePipes
  <2>2. worker' \in 0..MaxWorkers BY <1>w, BoundAssumption
  <2> QED BY <2>1, <2>2, <1>w, <1>t DEF Stops, NextTypes, TypePipes
<1>2. OneLives' BY <1>t, <1>w, <1>k, <1>x DEF OneLives, Workers
<1>3. AllSound' BY <1>w, <1>t DEF AllSound
<1>4. EachServed'
  <2> SUFFICES ASSUME NEW o \in Operations, Engaged(opc'[o]), src'[o] # 0
               PROVE  Serves(w[src'[o]], OrderOf(o))
    BY <1>0, <1>w DEF EachServed, Running
  <2>1. Engaged(opc[o]) /\ src'[o] = src[o] BY <1>0 DEF Stops
  <2> QED BY <2>1, <1>t DEF EachServed
<1>5. ReadersWait' BY DEF Stops, NextReaders, ReadersWait
<1>6. ~Running' BY DEF Stops, Running
<1> QED BY <1>1, <1>2, <1>3, <1>4, <1>5, <1>6
        DEF PipeInv, RestIsQuiet, LoadedIsKnown, PromptIsKnown, LeavingIsClean

\* A process that was forgotten is gone; what it printed stays for whoever reads it.
LEMMA ReapsKeep == ASSUME PipeInv, NEW i \in Workers, Reap(i) PROVE PipeInv'
<1>t. TypePipes /\ OneLives /\ AllSound /\ EachServed BY DEF PipeInv
<1>k. /\ killer[i] # None /\ killer' = [killer EXCEPT ![i] = None]
      /\ UNCHANGED <<worker, loaded, selected, opc, voice, src, target>>
  BY DEF Reap, adapter, operation, cancellation
<1>i. i # worker /\ w[i].life # "unborn" BY <1>k, <1>t DEF OneLives
<1>g. Sound(Gone) /\ Gone.life = "dead"
  <2>1. Sound(Unborn) /\ Unborn \in AnyProcess BY UnbornIsSound DEF Sound
  <2>2. Unborn.out = <<>> BY DEF Unborn
  <2>3. Gone = Remains(Unborn) BY <2>1, <2>2 DEF Gone, Remains, AnyProcess, Unborn
  <2> QED BY <2>1, <2>3, RemainsAreSound
<1>w. /\ \A j \in Workers : j # i => w'[j] = w[j]
      /\ w'[i] = IF \E o \in Operations : src[o] = i THEN Remains(w[i]) ELSE Gone
      /\ w' = [w EXCEPT ![i] = w'[i]]
  BY <1>t DEF Reap, TypePipes
<1>s. /\ Sound(w'[i]) /\ w'[i].life = "dead"
      /\ \A o \in Operations : src[o] = i =>
            \A c \in Orders : Serves(w[i], c) => Serves(w'[i], c)
  <2>1. Sound(w[i]) BY <1>t DEF AllSound
  <2> HIDE DEF Gone, Remains
  <2> QED BY <2>1, <1>w, <1>g, RemainsAreSound
<1>r. Running' <=> Running
  <2>1. CASE worker = 0 BY <2>1, <1>k DEF Running
  <2>2. CASE worker # 0
    <3>1. worker \in Workers BY <2>2, <1>t DEF TypePipes, Workers
    <3> QED BY <3>1, <1>i, <1>k, <1>w DEF Running
  <2> QED BY <2>1, <2>2
<1>m. worker # 0 => w'[worker] = w[worker]
  BY <1>t, <1>i, <1>w DEF TypePipes, Workers
<1>1. TypePipes'
  <2>1. w' \in [Workers -> AnyProcess] BY <1>w, <1>s, <1>t DEF TypePipes, Sound
  <2>2. killer' \in [Workers -> Threads \cup {None}] BY <1>k, <1>t DEF TypePipes
  <2> QED BY <2>1, <2>2, <1>k, <1>t DEF TypePipes
<1>2. OneLives'
  <2>1. killer'[i] = None /\ \A j \in Workers : j # i => killer'[j] = killer[j]
    BY <1>k, <1>t DEF TypePipes
  <2> QED BY <2>1, <1>k, <1>w, <1>s, <1>t DEF OneLives
<1>3. AllSound' BY <1>w, <1>s, <1>t DEF AllSound
<1>4. EachServed'
  <2> SUFFICES ASSUME NEW o \in Operations, Engaged(opc[o])
               PROVE  /\ worker # 0 => Serves(w'[worker], OrderOf(o))
                      /\ src[o] # 0 =>
                            /\ Serves(w'[src[o]], OrderOf(o))
                            /\ src[o] # worker /\ Running =>
                                  Quiet(w'[worker]) /\ ~w'[worker].runtime
    BY <1>k, <1>r DEF EachServed, OrderOf
  <2>1. OrderOf(o) \in Orders BY <1>t, OrdersAreOrders DEF OrderOf, TypePipes
  <2>2. worker # 0 => Serves(w'[worker], OrderOf(o)) BY <1>m, <1>t DEF EachServed
  <2>3. ASSUME src[o] # 0 PROVE Serves(w'[src[o]], OrderOf(o))
    <3>1. src[o] \in Workers BY <2>3, <1>t DEF TypePipes, Workers
    <3>2. Serves(w[src[o]], OrderOf(o)) BY <2>3, <1>t DEF EachServed
    <3> QED BY <2>1, <3>1, <3>2, <1>w, <1>s
  <2>4. src[o] # 0 /\ src[o] # worker /\ Running => Quiet(w'[worker]) /\ ~w'[worker].runtime
    BY <1>m, <1>t DEF EachServed, Running
  <2> QED BY <2>2, <2>3, <2>4
<1> QED BY <1>1, <1>2, <1>3, <1>4, <1>k, <1>r, <1>m
        DEF PipeInv, ReadersWait, RestIsQuiet, LoadedIsKnown, PromptIsKnown, LeavingIsClean, Running

\* A command is written: the process that runs reads it, or a new one does.
LEMMA CommandSent ==
  ASSUME PipeInv, NEW cmd \in Orders, SendCommand(cmd)
  PROVE  /\ worker' \in Workers /\ Told(w[worker'], w'[worker'], cmd)
         /\ w' = [w EXCEPT ![worker'] = w'[worker']]
         /\ IF Running THEN worker' = worker ELSE w[worker'] = Unborn
         /\ killer[worker'] = None
<1>t. TypePipes /\ OneLives BY DEF PipeInv
<1> DEFINE i == worker'
<1>1. i \in Workers /\ w[i].life # "dead"
      /\ IF Running THEN i = worker ELSE w[i].life = "unborn"
  <2>1. CASE Running BY <2>1, <1>t DEF SendCommand, Running, TypePipes, Workers
  <2>2. CASE ~Running
    <3>1. Spawnable /\ i = Fresh BY <2>2 DEF SendCommand
    <3>2. Fresh \in Workers /\ w[Fresh].life = "unborn" BY <3>1 DEF Spawnable, Fresh
    <3> QED BY <2>2, <3>1, <3>2
  <2> QED BY <2>1, <2>2
<1>2. w[i].life = "unborn" => w[i] = Unborn BY <1>1, <1>t DEF OneLives
<1>3. w' = [w EXCEPT ![i].life = "alive", ![i].stdin = Append(@, cmd)]
  BY DEF SendCommand
<1>4. w' = [w EXCEPT ![i] = w'[i]] /\ w'[i] = [w[i] EXCEPT !.life = "alive", !.stdin = Append(@, cmd)]
  <2> DEFINE a == Append(w[i].stdin, cmd)
  <2>1. w' = [w EXCEPT ![i].life = "alive", ![i].stdin = a] BY <1>3
  <2> HIDE DEF a
  <2>2. w'[i] = [w[i] EXCEPT !.life = "alive", !.stdin = a]
    BY <2>1, <1>1, <1>t DEF TypePipes
  <2>3. w' = [w EXCEPT ![i] = w'[i]] BY <2>1, <2>2, <1>1, <1>t DEF TypePipes
  <2> QED BY <2>2, <2>3 DEF a
<1>5. Told(w[i], w'[i], cmd) BY <1>1, <1>2, <1>4 DEF Told
<1>6. killer[i] = None BY <1>1, <1>t DEF OneLives
<1> QED BY <1>1, <1>2, <1>4, <1>5, <1>6

\* A cancel is written, by whoever; the process that runs or a new one reads it.
CancelGoes(cmd) ==
    /\ SendCommand(cmd) /\ cmd \in Orders /\ cmd.op = "cancel"
    /\ UNCHANGED <<loaded, selected, src, killer>>
    /\ Talks /\ NextTypes /\ NextReaders
    /\ \A o \in Operations : Engaged(opc[o]) => Engaged(opc'[o])
    /\ \A o \in Operations : opc'[o] = "leaving" => opc[o] = "leaving"

LEMMA CancelsKeep == ASSUME PipeInv, NEW cmd, CancelGoes(cmd) PROVE PipeInv'
<1>t. TypePipes /\ OneLives /\ AllSound /\ EachServed /\ RestIsQuiet
      /\ LoadedIsKnown /\ PromptIsKnown /\ LeavingIsClean
  BY DEF PipeInv
<1> DEFINE i == worker'
           q == w'[i]
<1>c. cmd \in Orders /\ cmd.op = "cancel" BY DEF CancelGoes
<1>s. /\ i \in Workers /\ Told(w[i], q, cmd) /\ w' = [w EXCEPT ![i] = q]
      /\ IF Running THEN i = worker ELSE w[i] = Unborn
      /\ killer[i] = None
  BY <1>c, CommandSent DEF CancelGoes
<1>o. \A x \in Workers : x # i => w'[x] = w[x] BY <1>s, <1>t DEF TypePipes
<1>q. /\ Sound(q) /\ q.life = "alive"
      /\ Quiet(w[i]) => Quiet(q)
      /\ q.runtime = w[i].runtime /\ q.prompt = w[i].prompt
      /\ \A c \in Orders : Serves(w[i], c) => Serves(q, c)
  BY <1>s, <1>c, <1>t, CancelTold DEF AllSound
<1>f. ~Running => Quiet(q) /\ ~q.runtime
  BY <1>s, <1>q, UnbornIsSound
<1> HIDE DEF i, q
<1>i. i = worker' /\ q = w'[i] BY DEF i, q
<1>0. \A o \in Operations : Engaged(opc'[o]) => OrderOf(o)' = OrderOf(o) /\ OrderOf(o) \in Orders
  BY <1>t, OrdersAreOrders DEF CancelGoes, Talks, OrderOf, TypePipes
<1>k. killer' = killer BY DEF CancelGoes
<1>1. TypePipes'
  <2>1. w' \in [Workers -> AnyProcess] BY <1>s, <1>q, <1>t DEF TypePipes, Sound
  <2> QED BY <2>1, <1>s, <1>i, <1>k, <1>t DEF CancelGoes, NextTypes, TypePipes, Workers
<1>2. OneLives' BY <1>i, <1>k, <1>o, <1>q, <1>s, <1>t DEF OneLives, Running, Workers
<1>3. AllSound' BY <1>i, <1>o, <1>q, <1>t DEF AllSound
<1>4. EachServed'
  <2> SUFFICES ASSUME NEW o \in Operations, Engaged(opc'[o])
               PROVE  /\ Serves(q, OrderOf(o))
                      /\ src[o] # 0 =>
                            /\ Serves(w'[src[o]], OrderOf(o))
                            /\ src[o] # i => Quiet(q) /\ ~q.runtime
    BY <1>0, <1>i DEF EachServed, CancelGoes, Running
  <2>1. Engaged(opc[o]) /\ OrderOf(o) \in Orders BY <1>0 DEF CancelGoes, Talks
  <2>2. Serves(q, OrderOf(o))
    <3>1. CASE Running
      <4>1. Serves(w[worker], OrderOf(o)) BY <3>1, <2>1, <1>t DEF EachServed, Running
      <4> QED BY <3>1, <4>1, <2>1, <1>s, <1>q
    <3>2. CASE ~Running BY <3>2, <1>f, QuietServes
    <3> QED BY <3>1, <3>2
  <2>3. ASSUME src[o] # 0
        PROVE  /\ Serves(w'[src[o]], OrderOf(o))
               /\ src[o] # i => Quiet(q) /\ ~q.runtime
    <3>1. src[o] \in Workers BY <2>3, <1>t DEF TypePipes, Workers
    <3>2. Serves(w'[src[o]], OrderOf(o))
      <4>1. CASE src[o] = i BY <4>1, <2>2, <1>i
      <4>2. CASE src[o] # i BY <4>2, <3>1, <1>o, <2>1, <2>3, <1>t DEF EachServed
      <4> QED BY <4>1, <4>2
    <3>3. ASSUME src[o] # i PROVE Quiet(q) /\ ~q.runtime
      <4>1. CASE Running
        <5>1. Quiet(w[worker]) /\ ~w[worker].runtime
          BY <4>1, <3>3, <2>1, <2>3, <1>s, <1>t DEF EachServed
        <5> QED BY <4>1, <5>1, <1>s, <1>q
      <4>2. CASE ~Running BY <4>2, <1>f
      <4> QED BY <4>1, <4>2
    <3> QED BY <3>2, <3>3
  <2> QED BY <2>2, <2>3
<1>5. ReadersWait' BY DEF CancelGoes, NextReaders, ReadersWait
<1>a. ASSUME NEW o \in Operations, Engaged(opc[o]) PROVE Asks(opc'[o]) = Asks(opc[o]) /\ Engaged(opc'[o])
  BY <1>a DEF CancelGoes, Talks
<1>6. RestIsQuiet'
  <2>1. CASE Running
    <3>1. Quiet(w[worker]) \/ \E o \in Operations : Engaged(opc[o]) BY <2>1, <1>t DEF RestIsQuiet
    <3> QED BY <2>1, <3>1, <1>a, <1>s, <1>q, <1>i DEF RestIsQuiet
  <2>2. CASE ~Running BY <2>2, <1>f, <1>i DEF RestIsQuiet
  <2> QED BY <2>1, <2>2
<1>7. LoadedIsKnown'
  <2>1. \A o \in Operations : opc[o] = "loading" => opc'[o] = "loading"
    BY <1>a DEF Engaged, Awaiting, Asks
  <2>2. CASE Running BY <2>2, <2>1, <1>s, <1>q, <1>i, <1>t DEF LoadedIsKnown, CancelGoes
  <2>3. CASE ~Running BY <2>3, <1>f, <1>i DEF LoadedIsKnown
  <2> QED BY <2>2, <2>3
<1>8. PromptIsKnown'
  <2>1. \A o \in Operations : opc[o] = "prewarming" => opc'[o] = "prewarming"
    BY <1>a DEF Engaged, Awaiting, Asks
  <2>2. CASE Running BY <2>2, <2>1, <1>s, <1>q, <1>i, <1>t DEF PromptIsKnown, CancelGoes
  <2>3. CASE ~Running
    <3>1. q.prompt = None BY <2>3, <1>f, <1>q, Parts DEF PromptFits
    <3> QED BY <3>1, <1>i DEF PromptIsKnown
  <2> QED BY <2>2, <2>3
<1>9. LeavingIsClean'
  <2> SUFFICES ASSUME NEW o \in Operations, opc'[o] = "leaving" PROVE q.prompt = None
    BY <1>i DEF LeavingIsClean
  <2>1. opc[o] = "leaving" BY DEF CancelGoes
  <2>2. CASE Running BY <2>1, <2>2, <1>s, <1>q, <1>t DEF LeavingIsClean
  <2>3. CASE ~Running BY <2>3, <1>f, <1>q, Parts DEF PromptFits
  <2> QED BY <2>2, <2>3
<1> QED BY <1>1, <1>2, <1>3, <1>4, <1>5, <1>6, <1>7, <1>8, <1>9 DEF PipeInv

\* An operation that has the lock writes its order and waits for the answer.
OrderGoes(o, place) ==
    /\ SendCommand(Command(Asks(place), o, voice[o]))
    /\ opc[o] \notin Outside /\ ~Engaged(opc[o]) /\ place \in Awaiting
    /\ opc \in [Operations -> OpPc] /\ opc' = [opc EXCEPT ![o] = place]
    /\ UNCHANGED <<loaded, src, voice, target, killer>>
    /\ selected' = selected \/ place = "prewarming"

LEMMA OrdersKeep ==
  ASSUME WorkInv, PipeInv, NEW o \in Operations, NEW place, OrderGoes(o, place) PROVE PipeInv'
<1>t. TypePipes /\ OneLives /\ AllSound /\ EachServed /\ ReadersWait /\ RestIsQuiet
      /\ LoadedIsKnown /\ PromptIsKnown /\ LeavingIsClean
  BY DEF PipeInv
<1> DEFINE i == worker'
           q == w'[i]
           cmd == Command(Asks(place), o, voice[o])
<1>c. cmd \in Orders /\ cmd.op # "cancel"
  <2>1. cmd \in Orders BY <1>t, OrdersAreOrders DEF TypePipes
  <2> QED BY <2>1 DEF Command, Asks
<1>e. \A x \in Operations : ~Engaged(opc[x]) BY OneEngaged DEF OrderGoes
<1>p. /\ opc'[o] = place /\ Engaged(place)
      /\ \A x \in Operations : x # o => opc'[x] = opc[x] /\ ~Engaged(opc'[x])
  BY <1>e DEF OrderGoes, Engaged
<1>s. /\ i \in Workers /\ Told(w[i], q, cmd) /\ w' = [w EXCEPT ![i] = q]
      /\ IF Running THEN i = worker ELSE w[i] = Unborn
      /\ killer[i] = None
  BY <1>c, CommandSent DEF OrderGoes
<1>o. \A x \in Workers : x # i => w'[x] = w[x] BY <1>s, <1>t DEF TypePipes
<1>u. Quiet(w[i]) BY <1>s, <1>e, <1>t, UnbornIsSound DEF RestIsQuiet
<1>q. /\ Sound(q) /\ q.life = "alive" /\ Serves(q, cmd)
      /\ q.runtime = w[i].runtime /\ q.prompt = w[i].prompt
  BY <1>s, <1>c, <1>u, <1>t, OrderTold DEF AllSound
<1>r. OrderOf(o)' = cmd BY <1>p DEF OrderOf, OrderGoes
<1> HIDE DEF i, q, cmd
<1>i. i = worker' /\ q = w'[i] BY DEF i, q
<1>1. TypePipes'
  <2>1. w' \in [Workers -> AnyProcess] BY <1>s, <1>q, <1>t DEF TypePipes, Sound
  <2>2. worker' \in 0..MaxWorkers BY <1>s, <1>i, BoundAssumption DEF Workers
  <2>3. UNCHANGED <<src, voice, target, killer>> BY DEF OrderGoes
  <2> QED BY <2>1, <2>2, <2>3, <1>t DEF TypePipes
<1>k. killer' = killer BY DEF OrderGoes
<1>2. OneLives' BY <1>i, <1>k, <1>o, <1>q, <1>s, <1>t DEF OneLives, Running, Workers
<1>3. AllSound' BY <1>i, <1>o, <1>q, <1>t DEF AllSound
<1>z. src'[o] = 0
  <2>1. opc[o] \notin Awaiting BY DEF OrderGoes, Engaged
  <2> QED BY <2>1, <1>t DEF ReadersWait, OrderGoes
<1>4. EachServed' BY <1>p, <1>q, <1>r, <1>z, <1>i DEF EachServed
<1>5. ReadersWait'
  <2>1. \A x \in Operations : x # o => (src'[x] = src[x] /\ opc'[x] = opc[x]) BY <1>p DEF OrderGoes
  <2> QED BY <2>1, <1>z, <1>t DEF ReadersWait
<1>6. RestIsQuiet' BY <1>p DEF RestIsQuiet
<1>f. ~Running => ~q.runtime /\ q.prompt = None
  <2>1. ~Running => ~q.runtime BY <1>s, <1>q, UnbornIsSound
  <2> QED BY <2>1, <1>q, Parts DEF PromptFits
<1>n. \A x \in Operations : opc[x] # "loading" /\ opc[x] # "prewarming"
  BY <1>e DEF Engaged, Awaiting
<1>7. LoadedIsKnown'
  <2>1. q.runtime => loaded' BY <1>f, <1>n, <1>s, <1>q, <1>t DEF LoadedIsKnown, OrderGoes
  <2> QED BY <2>1, <1>i DEF LoadedIsKnown
<1>8. PromptIsKnown'
  <2>1. q.prompt # None => q.prompt = selected' \/ place = "prewarming"
    BY <1>f, <1>n, <1>s, <1>q, <1>t DEF PromptIsKnown, OrderGoes
  <2> QED BY <2>1, <1>i, <1>p DEF PromptIsKnown
<1>9. LeavingIsClean'
  <2> SUFFICES ASSUME NEW x \in Operations, opc'[x] = "leaving" PROVE FALSE
    BY DEF LeavingIsClean
  <2>1. x # o BY <1>p DEF OrderGoes, Awaiting
  <2>2. opc[x] \notin Outside /\ opc[o] \notin Outside BY <2>1, <1>p DEF OrderGoes, Outside
  <2> QED BY <2>1, <2>2 DEF WorkInv, WorkersLock
<1> QED BY <1>1, <1>2, <1>3, <1>4, <1>5, <1>6, <1>7, <1>8, <1>9 DEF PipeInv

\* An operation takes the first line of the process it reads.
Takes(o) ==
    /\ opc[o] \in Awaiting /\ src[o] # 0 /\ w[src[o]].out # <<>>
    /\ w' = [w EXCEPT ![src[o]].out = Tail(@)] /\ src' = [src EXCEPT ![o] = 0]
    /\ UNCHANGED <<worker, voice, target, killer>>
    /\ \A x \in Operations : x # o => opc'[x] = opc[x]
    /\ opc'[o] # "leaving"

\* A chunk: the operation goes on with its order.
TakesChunk(o) ==
    /\ Takes(o) /\ Engaged(opc'[o]) /\ Asks(opc'[o]) = Asks(opc[o])
    /\ UNCHANGED <<loaded, selected>>

\* An answer: the order is over, and what it says is believed.
TakesAnswer(o) ==
    /\ Takes(o) /\ IsAnswer(Head(w[src[o]].out)) /\ ~Engaged(opc'[o])
    /\ loaded' = IF opc[o] = "loading" THEN TRUE ELSE loaded
    /\ LET e == Head(w[src[o]].out).event IN
       \/ opc[o] # "prewarming" /\ selected' = selected
       \/ e = "invalidated"
       \/ e = "prompt_failed"
       \/ opc[o] = "prewarming" /\ e = "prompt_ready" /\ selected' = voice[o]

LEMMA TakesKeep ==
  ASSUME WorkInv, PipeInv, NEW o \in Operations, TakesChunk(o) \/ TakesAnswer(o)
  PROVE  PipeInv'
<1>t. TypePipes /\ OneLives /\ AllSound /\ EachServed /\ ReadersWait /\ RestIsQuiet
      /\ LoadedIsKnown /\ PromptIsKnown /\ LeavingIsClean
  BY DEF PipeInv
<1>a. Takes(o) BY DEF TakesChunk, TakesAnswer
<1>e. Engaged(opc[o]) /\ opc[o] \notin Outside BY <1>a DEF Takes, Engaged, Awaiting, Outside
<1>x. \A x \in Operations : x # o => ~Engaged(opc[x]) /\ ~Engaged(opc'[x])
  BY <1>a, <1>e, OneEngaged DEF Takes
<1> DEFINE i == src[o]
           q == w'[i]
           cmd == OrderOf(o)
<1>s. i \in Workers /\ Sound(w[i]) /\ w[i].out # <<>> /\ i # 0
  BY <1>a, <1>t DEF Takes, TypePipes, Workers, AllSound
<1>w. q = [w[i] EXCEPT !.out = Tail(@)] /\ w' = [w EXCEPT ![i] = q]
  <2> DEFINE t == Tail(w[i].out)
  <2>1. w' = [w EXCEPT ![i].out = t] BY <1>a DEF Takes
  <2>2. w \in [Workers -> AnyProcess] /\ i \in Workers BY <1>s, <1>t DEF TypePipes
  <2> HIDE DEF t, i
  <2>3. w'[i] = [w[i] EXCEPT !.out = t] BY <2>1, <2>2
  <2>4. w' = [w EXCEPT ![i] = w'[i]] BY <2>1, <2>2, <2>3
  <2> QED BY <2>3, <2>4 DEF t, i
<1>o. \A x \in Workers : x # i => w'[x] = w[x] BY <1>w, <1>t DEF TypePipes
<1>c. cmd \in Orders /\ cmd.voice = voice[o]
  <2>1. cmd \in Orders BY <1>t, OrdersAreOrders DEF TypePipes, OrderOf
  <2> QED BY <2>1 DEF OrderOf, Command
<1>v. Serves(w[i], cmd) BY <1>e, <1>s, <1>t DEF EachServed
<1> DEFINE e == Head(w[i].out).event
<1>q. /\ Sound(q) /\ q.life = w[i].life /\ q.runtime = w[i].runtime /\ q.prompt = w[i].prompt
      /\ Quiet(w[i]) => Quiet(q)
      /\ Serves(q, cmd)
      /\ IsAnswer(Head(w[i].out)) => Quiet(q)
      /\ e \in {"prompt_failed", "invalidated"} => q.prompt = None
      /\ e = "prompt_ready" /\ w[i].life = "alive" => q.prompt = voice[o]
  <2> DEFINE p == w[i]
  <2>1. Sound(p) /\ LosesLine(p, q) BY <1>s, <1>w DEF LosesLine
  <2> HIDE DEF p, q
  <2>2. /\ Sound(q) /\ q.life = p.life /\ q.runtime = p.runtime /\ q.prompt = p.prompt
        /\ Quiet(p) => Quiet(q)
        /\ \A c \in Orders : Serves(p, c) => Serves(q, c)
        /\ IsAnswer(Head(p.out)) => Quiet(q)
        /\ Head(p.out).event \in {"prompt_failed", "invalidated"} => q.prompt = None
        /\ \A c \in Orders : Serves(p, c) /\ Head(p.out).event = "prompt_ready"
                              /\ p.life = "alive" => q.prompt = c.voice
    BY <2>1, LineTaken
  <2>3. cmd \in Orders /\ Serves(p, cmd) /\ cmd.voice = voice[o] BY <1>c, <1>v DEF p
  <2> HIDE DEF cmd
  <2> QED BY <2>2, <2>3 DEF p
<1>l. Running' <=> Running
  <2>1. CASE worker = 0 BY <2>1, <1>a DEF Takes, Running
  <2>2. CASE worker # 0
    <3>1. worker \in Workers BY <2>2, <1>t DEF TypePipes, Workers
    <3>2. w'[worker].life = w[worker].life BY <3>1, <1>o, <1>q
    <3> QED BY <3>2, <1>a DEF Takes, Running
  <2> QED BY <2>1, <2>2
<1>r. Engaged(opc'[o]) => OrderOf(o)' = cmd
  BY <1>a DEF TakesChunk, TakesAnswer, OrderOf, Takes
<1>z. src'[o] = 0 /\ \A x \in Operations : x # o => src'[x] = src[x]
  BY <1>a, <1>t DEF Takes, TypePipes
<1>k. worker' = worker /\ voice' = voice /\ target' = target /\ killer' = killer
  BY <1>a DEF Takes
<1>m. worker # 0 => worker \in Workers BY <1>t DEF TypePipes, Workers
<1>b. src[o] # worker /\ Running => Quiet(w[worker]) /\ ~w[worker].runtime
  BY <1>e, <1>s, <1>t DEF EachServed
<1> HIDE DEF i, q, cmd, e
<1>i. i = src[o] /\ q = w'[i] /\ e = Head(w[i].out).event BY DEF i, q, e
<1>1. TypePipes'
  <2>1. w' \in [Workers -> AnyProcess] BY <1>w, <1>s, <1>q, <1>t DEF TypePipes, Sound
  <2>2. src' \in [Operations -> 0..MaxWorkers]
    <3>1. 0 \in 0..MaxWorkers BY BoundAssumption
    <3>2. src' = [src EXCEPT ![o] = 0] BY <1>a DEF Takes
    <3> QED BY <3>1, <3>2, <1>t DEF TypePipes
  <2> QED BY <2>1, <2>2, <1>k, <1>t DEF TypePipes
<1>2. OneLives'
  <2> SUFFICES ASSUME NEW x \in Workers
               PROVE  /\ w'[x].life = "alive" => x = worker \/ killer[x] # None
                      /\ w'[x].life = "unborn" => x # worker /\ w'[x] = Unborn
                      /\ killer[x] # None => x # worker /\ w'[x].life # "unborn"
    BY <1>k DEF OneLives
  <2>1. CASE x # i BY <2>1, <1>o, <1>t DEF OneLives
  <2>2. CASE x = i
    <3>1. Unborn.out = <<>> BY DEF Unborn
    <3>2. w[i].life # "unborn" BY <3>1, <1>s, <1>t DEF OneLives
    <3> QED BY <2>2, <3>2, <1>i, <1>q, <1>s, <1>t DEF OneLives
  <2> QED BY <2>1, <2>2
<1>3. AllSound' BY <1>i, <1>o, <1>q, <1>t DEF AllSound
<1>4. EachServed'
  <2> SUFFICES ASSUME Engaged(opc'[o]), worker # 0 PROVE Serves(w'[worker], cmd)
    BY <1>x, <1>r, <1>z, <1>k DEF EachServed
  <2>1. Serves(w[worker], cmd) BY <1>e, <1>t DEF EachServed, cmd
  <2> QED BY <2>1, <1>m, <1>o, <1>q, <1>i
<1>5. ReadersWait' BY <1>z, <1>a, <1>t DEF ReadersWait, Takes
<1>6. RestIsQuiet'
  <2> SUFFICES ASSUME Running, ~Engaged(opc'[o]) PROVE Quiet(w'[worker])
    BY <1>l, <1>k DEF RestIsQuiet
  <2>1. IsAnswer(Head(w[i].out)) BY <1>i DEF TakesChunk, TakesAnswer
  <2>2. CASE worker = i BY <2>1, <2>2, <1>q, <1>i
  <2>3. CASE worker # i BY <2>3, <1>b, <1>i, <1>m, <1>o DEF Running
  <2> QED BY <2>2, <2>3
<1>d. Running => w'[worker].runtime = w[worker].runtime /\ w'[worker].prompt = w[worker].prompt
  BY <1>m, <1>o, <1>q, <1>i DEF Running
<1>7. LoadedIsKnown'
  <2> SUFFICES ASSUME Running, w[worker].runtime
               PROVE  loaded' \/ \E x \in Operations : opc'[x] = "loading"
    BY <1>l, <1>k, <1>d DEF LoadedIsKnown
  <2>1. loaded \/ opc[o] = "loading"
    BY <1>t, <1>x DEF LoadedIsKnown, Engaged, Awaiting
  <2>2. CASE TakesAnswer(o) BY <2>1, <2>2 DEF TakesAnswer
  <2>3. CASE TakesChunk(o)
    <3>1. opc[o] = "loading" => opc'[o] = "loading"
      BY <2>3 DEF TakesChunk, Asks, Engaged, Awaiting
    <3> QED BY <2>1, <2>3, <3>1 DEF TakesChunk
  <2> QED BY <2>2, <2>3
<1>8. PromptIsKnown'
  <2> SUFFICES ASSUME Running, w'[worker].prompt # None
               PROVE  w'[worker].prompt = selected' \/ \E x \in Operations : opc'[x] = "prewarming"
    BY <1>l, <1>k DEF PromptIsKnown
  <2>0. w[worker].prompt # None /\ w'[worker].prompt = w[worker].prompt BY <1>d
  <2>1. w[worker].prompt = selected \/ opc[o] = "prewarming"
    BY <2>0, <1>t, <1>x DEF PromptIsKnown, Engaged, Awaiting
  <2>2. CASE TakesAnswer(o)
    <3>1. CASE worker = i
      <4>1. e \notin {"prompt_failed", "invalidated"} BY <3>1, <1>q, <1>i
      <4>2. \/ opc[o] # "prewarming" /\ selected' = selected
            \/ opc[o] = "prewarming" /\ e = "prompt_ready" /\ selected' = voice[o]
        BY <2>2, <4>1, <1>i DEF TakesAnswer
      <4>3. w[i].life = "alive" BY <3>1 DEF Running
      <4> QED BY <2>0, <2>1, <3>1, <4>2, <4>3, <1>q, <1>i
    <3>2. CASE worker # i
      <4>1. ~w[worker].runtime BY <3>2, <1>b, <1>i
      <4>2. PromptFits(w[worker]) BY <1>m, <1>t DEF Running, AllSound, Sound
      <4> QED BY <2>0, <4>1, <4>2 DEF PromptFits
    <3> QED BY <3>1, <3>2
  <2>3. CASE TakesChunk(o)
    <3>1. opc[o] = "prewarming" => opc'[o] = "prewarming"
      BY <2>3 DEF TakesChunk, Asks, Engaged, Awaiting
    <3> QED BY <2>0, <2>1, <2>3, <3>1 DEF TakesChunk
  <2> QED BY <2>2, <2>3
<1>9. LeavingIsClean'
  <2>1. \A x \in Operations : opc'[x] = "leaving" => opc[x] = "leaving" BY <1>a DEF Takes
  <2> QED BY <2>1, <1>d, <1>k, <1>l, <1>t DEF LeavingIsClean
<1> QED BY <1>1, <1>2, <1>3, <1>4, <1>5, <1>6, <1>7, <1>8, <1>9 DEF PipeInv

\* A process acts.
LEMMA ActsKeep ==
  ASSUME WorkInv, PipeInv, NEW i \in Workers, WorkerStep(i) \/ Fault(i) PROVE PipeInv'
<1>t. TypePipes /\ OneLives /\ AllSound /\ EachServed /\ ReadersWait /\ RestIsQuiet
      /\ LoadedIsKnown /\ PromptIsKnown /\ LeavingIsClean
  BY DEF PipeInv
<1> DEFINE q == w'[i]
<1>s. /\ w[i].life = "alive" /\ w' = [w EXCEPT ![i] = q] /\ Acts(w[i], q)
      /\ killer[i] = None /\ UNCHANGED <<adapter, operation, cancellation, killer>>
  BY <1>t, WorkerActs
<1>k. UNCHANGED <<worker, loaded, selected, opc, voice, src, target, killer>>
  BY <1>s DEF adapter, operation, cancellation
<1>i. i = worker /\ Running BY <1>s, <1>t DEF OneLives, Running, TypePipes, Workers
<1>o. \A x \in Workers : x # i => w'[x] = w[x] BY <1>s, <1>t DEF TypePipes
<1> HIDE DEF q
<1>d. q = w'[i] BY DEF q
<1>q. /\ Sound(q) /\ q.life \in {"alive", "dead"}
      /\ Quiet(w[i]) => Quiet(q)
      /\ \A c \in Orders : Serves(w[i], c) => Serves(q, c)
  BY <1>s DEF Acts
<1>c. \A o \in Operations : OrderOf(o)' = OrderOf(o) /\ OrderOf(o) \in Orders
  BY <1>k, <1>t, OrdersAreOrders DEF OrderOf, TypePipes
<1>1. TypePipes'
  <2>1. w' \in [Workers -> AnyProcess] BY <1>s, <1>q, <1>t DEF TypePipes, Sound
  <2> QED BY <2>1, <1>k, <1>t DEF TypePipes
<1>2. OneLives' BY <1>d, <1>i, <1>k, <1>o, <1>q, <1>s, <1>t DEF OneLives
<1>3. AllSound' BY <1>d, <1>o, <1>q, <1>t DEF AllSound
<1>4. EachServed'
  <2> SUFFICES ASSUME NEW o \in Operations, Engaged(opc[o])
               PROVE  /\ Serves(q, OrderOf(o))
                      /\ src[o] # 0 =>
                            /\ Serves(w'[src[o]], OrderOf(o))
                            /\ src[o] # worker => Quiet(q) /\ ~q.runtime
    BY <1>c, <1>d, <1>i, <1>k DEF EachServed
  <2>1. Serves(q, OrderOf(o)) BY <1>c, <1>i, <1>q, <1>t DEF EachServed, Running
  <2>2. ASSUME src[o] # 0
        PROVE  /\ Serves(w'[src[o]], OrderOf(o))
               /\ src[o] # worker => Quiet(q) /\ ~q.runtime
    <3>1. src[o] \in Workers BY <2>2, <1>t DEF TypePipes, Workers
    <3>2. Serves(w'[src[o]], OrderOf(o))
      BY <2>1, <2>2, <3>1, <1>c, <1>d, <1>o, <1>t DEF EachServed
    <3>3. ASSUME src[o] # worker PROVE Quiet(q) /\ ~q.runtime
      <4>1. Quiet(w[i]) /\ ~w[i].runtime BY <3>3, <2>2, <1>i, <1>t DEF EachServed
      <4> QED BY <4>1, <1>s, <1>q DEF Acts
    <3> QED BY <3>2, <3>3
  <2> QED BY <2>1, <2>2
<1>5. ReadersWait' BY <1>k, <1>t DEF ReadersWait
<1>6. RestIsQuiet' BY <1>d, <1>i, <1>k, <1>q, <1>t DEF RestIsQuiet
<1>n. ~Quiet(w[i]) => \E o \in Operations : Engaged(opc[o]) /\ Serves(w[i], OrderOf(o))
  BY <1>i, <1>t DEF RestIsQuiet, EachServed, Running
<1>a. \A o \in Operations : OrderOf(o).op = Asks(opc[o]) BY DEF OrderOf, Command
<1>7. LoadedIsKnown'
  <2> SUFFICES ASSUME q.runtime PROVE loaded \/ \E o \in Operations : opc[o] = "loading"
    BY <1>d, <1>i, <1>k DEF LoadedIsKnown
  <2>1. CASE w[i].runtime BY <2>1, <1>i, <1>t DEF LoadedIsKnown
  <2>2. CASE ~w[i].runtime
    <3>1. ~Quiet(w[i]) /\ \A c \in Orders : Serves(w[i], c) => c.op = "load"
      BY <2>2, <1>s DEF Acts
    <3>2. PICK o \in Operations : Asks(opc[o]) = "load" BY <3>1, <1>n, <1>a, <1>c
    <3> QED BY <3>2 DEF Asks
  <2> QED BY <2>1, <2>2
<1>8. PromptIsKnown'
  <2> SUFFICES ASSUME q.prompt # None
               PROVE  q.prompt = selected \/ \E o \in Operations : opc[o] = "prewarming"
    BY <1>d, <1>i, <1>k DEF PromptIsKnown
  <2>1. CASE q.prompt = w[i].prompt BY <2>1, <1>i, <1>t DEF PromptIsKnown
  <2>2. CASE q.prompt # w[i].prompt
    <3>1. ~Quiet(w[i]) /\ \A c \in Orders : Serves(w[i], c) => c.op = "prewarm"
      BY <2>2, <1>s DEF Acts
    <3>2. PICK o \in Operations : Asks(opc[o]) = "prewarm" BY <3>1, <1>n, <1>a, <1>c
    <3> QED BY <3>2 DEF Asks
  <2> QED BY <2>1, <2>2
<1>9. LeavingIsClean'
  <2> SUFFICES ASSUME NEW o \in Operations, opc[o] = "leaving" PROVE q.prompt = None
    BY <1>d, <1>i, <1>k DEF LeavingIsClean
  <2>1. \A x \in Operations : ~Engaged(opc[x])
    BY OneEngaged DEF Outside, Engaged, Awaiting
  <2>2. Quiet(w[i]) BY <2>1, <1>i, <1>t DEF RestIsQuiet
  <2>3. w[i].prompt = None BY <1>i, <1>t DEF LeavingIsClean
  <2> QED BY <2>2, <2>3, <1>s DEF Acts
<1> QED BY <1>1, <1>2, <1>3, <1>4, <1>5, <1>6, <1>7, <1>8, <1>9 DEF PipeInv

-----------------------------------------------------------------------------
(* Every step keeps the exchange in order.                                  *)

\* An operation moves to another place, and reads nothing new.
LEMMA PlaceMoved ==
  ASSUME WorkInv, PipeInv, NEW o \in Operations, NEW place,
         opc' = [opc EXCEPT ![o] = place], UNCHANGED <<voice, target>>,
         \/ src' = [src EXCEPT ![o] = 0]
         \/ src' = src /\ (opc[o] \notin Awaiting \/ place \in Awaiting)
  PROVE  /\ NextTypes /\ NextReaders
         /\ ~Engaged(place) \/ (Engaged(opc[o]) /\ Asks(place) = Asks(opc[o])) => Talks
         /\ \A x \in Operations : src'[x] \in {src[x], 0}
         /\ \A x \in Operations : x # o => opc'[x] = opc[x]
         /\ opc'[o] = place
<1>1. opc \in [Operations -> OpPc] BY DEF WorkInv, TypeWork
<1>2. TypePipes /\ ReadersWait BY DEF PipeInv
<1>3. opc'[o] = place /\ \A x \in Operations : x # o => opc'[x] = opc[x] BY <1>1
<1>4. src \in [Operations -> 0..MaxWorkers] /\ 0 \in 0..MaxWorkers
  BY <1>2, BoundAssumption DEF TypePipes
<1>5. NextTypes
  <2>1. src' \in [Operations -> 0..MaxWorkers] BY <1>4
  <2> QED BY <2>1, <1>2 DEF NextTypes, TypePipes
<1>6. ~Engaged(place) \/ (Engaged(opc[o]) /\ Asks(place) = Asks(opc[o])) => Talks
  BY <1>3 DEF Talks
<1>7. \A x \in Operations : src'[x] \in {src[x], 0} BY <1>4
<1>8. NextReaders
  <2>1. ASSUME NEW x \in Operations, src'[x] # 0 PROVE opc'[x] \in Awaiting
    <3>1. src'[x] = src[x] /\ src[x] # 0 BY <2>1, <1>7
    <3>2. opc[x] \in Awaiting BY <3>1, <1>2 DEF ReadersWait
    <3>3. CASE x # o BY <3>2, <3>3, <1>3
    <3>4. CASE x = o
      <4>1. src' # [src EXCEPT ![o] = 0] BY <2>1, <3>4, <1>4
      <4> QED BY <4>1, <3>2, <3>4, <1>3
    <3> QED BY <3>3, <3>4
  <2> QED BY <2>1 DEF NextReaders
<1> QED BY <1>3, <1>5, <1>6, <1>7, <1>8

\* Nobody moves.
LEMMA NobodyMoved ==
  ASSUME PipeInv, UNCHANGED <<opc, src, voice>>, target' \in [Callers -> Requests \cup {None}]
  PROVE  Talks /\ NextTypes /\ NextReaders
<1>2. TypePipes /\ ReadersWait BY DEF PipeInv
<1>3. Talks BY DEF Talks
<1>4. NextTypes BY <1>2 DEF TypePipes, NextTypes
<1>5. NextReaders BY <1>2 DEF NextReaders, ReadersWait
<1> QED BY <1>3, <1>4, <1>5

\* What a read finds, and where its reader is.
LEMMA ReadFinds ==
  ASSUME NEW o \in Operations, NEW e, Reads(o, e)
  PROVE  /\ opc[o] \in Awaiting /\ src[o] # 0 /\ w[src[o]].out # <<>>
         /\ Head(w[src[o]].out).event = e
         /\ e = "loaded" => opc[o] = "loading"
         /\ e \in {"prompt_ready", "prompt_failed"} => opc[o] = "prewarming"
         /\ e = "invalidated" => opc[o] = "invalidating"
<1>1. opc[o] \in Awaiting /\ Expected(o) /\ Head(Lines(o)).event = e BY DEF Reads
<1>2. e \in [loading |-> {"loaded", "failed"},
             prewarming |-> {"prompt_ready", "prompt_failed"},
             streaming |-> {"chunk"} \cup Ends,
             draining |-> {"chunk"} \cup Ends,
             invalidating |-> {"invalidated"},
             unloading |-> {"done"}][opc[o]]
  BY <1>1, Zenon DEF Expected
<1>3. /\ e = "loaded" => opc[o] = "loading"
      /\ e \in {"prompt_ready", "prompt_failed"} => opc[o] = "prewarming"
      /\ e = "invalidated" => opc[o] = "invalidating"
  BY <1>1, <1>2 DEF Awaiting, Ends
<1>4. Lines(o) # <<>> BY <1>1 DEF Expected
<1>5. src[o] # 0 /\ Lines(o) = w[src[o]].out BY <1>4 DEF Lines
<1> QED BY <1>1, <1>3, <1>4, <1>5

LEMMA TakesMoved ==
  ASSUME WorkInv, PipeInv, NEW o \in Operations, NEW e, Reads(o, e), Took(o),
         \/ \E place : place # "leaving" /\ opc' = [opc EXCEPT ![o] = place]
         \/ opc' = opc,
         UNCHANGED <<worker, voice, target, killer>>
  PROVE  Takes(o) /\ Head(w[src[o]].out).event = e
<1>1. opc \in [Operations -> OpPc] BY DEF WorkInv, TypeWork
<1>2. (\A x \in Operations : x # o => opc'[x] = opc[x]) /\ opc'[o] # "leaving"
  BY <1>1, ReadFinds DEF Awaiting
<1>3. src' = [src EXCEPT ![o] = 0] BY DEF Reads
<1>4. w' = [w EXCEPT ![src[o]].out = Tail(@)] BY DEF Took
<1> QED BY <1>2, <1>3, <1>4, ReadFinds DEF Takes

\* Calls begin.
LEMMA CallsKeep == ASSUME WorkInv, PipeInv, Calls PROVE PipeInv'
<1> SUFFICES ASSUME Calls PROVE Rests BY RestsKeep
<1> USE NameAssumption DEF Operations, Callers
<1>0. opc \in [Operations -> OpPc] /\ active \in Requests \cup {None}
  BY DEF WorkInv, TypeWork
<1>t. TypePipes /\ ReadersWait BY DEF PipeInv
<1>m. ASSUME NEW o \in Operations, NEW place \in {"locking", "done", "cancelling"},
             NEW v \in Voices, opc[o] = "idle",
             opc' = [opc EXCEPT ![o] = place], voice' = [voice EXCEPT ![o] = v],
             target' \in [Callers -> Requests \cup {None}],
             UNCHANGED <<worker, w, loaded, selected, src, killer>>
      PROVE  Rests
  <2>1. Talks
    <3>1. opc'[o] = place /\ ~Engaged(place) BY <1>m, <1>0 DEF Engaged, Awaiting
    <3>2. \A x \in Operations : x # o => opc'[x] = opc[x] /\ voice'[x] = voice[x]
      BY <1>m, <1>0, <1>t DEF TypePipes
    <3> QED BY <3>1, <3>2 DEF Talks
  <2>2. NextTypes
    <3>1. voice' \in [Operations -> Voices \cup {None}] BY <1>m, <1>t DEF TypePipes
    <3> QED BY <3>1, <1>m, <1>t DEF NextTypes, TypePipes
  <2>3. \A x \in Operations : opc[x] # "idle" => opc'[x] = opc[x] BY <1>m, <1>0
  <2>4. NextReaders
    <3>1. \A x \in Operations : src[x] # 0 => opc[x] \in Awaiting BY <1>t DEF ReadersWait
    <3>2. \A x \in Operations : src[x] # 0 => opc'[x] \in Awaiting
      BY <3>1, <2>3 DEF Awaiting
    <3> QED BY <3>2, <1>m DEF NextReaders
  <2>5. \A x \in Operations : Engaged(opc[x]) => Engaged(opc'[x])
    BY <2>3 DEF Engaged, Awaiting
  <2>6. \A x \in Operations : opc'[x] = "leaving" => opc[x] = "leaving" BY <1>m, <1>0
  <2> QED BY <2>1, <2>2, <2>4, <2>5, <2>6, <1>m DEF Rests
<1>1. ASSUME NEW r \in Requests, NEW v \in Voices, BeginStream(r, v) PROVE Rests
  BY <1>1, <1>m, <1>t DEF BeginStream, At, adapter, cancellation, TypePipes
<1>2. ASSUME NEW o \in Controls, NEW v \in Voices, NEW k \in Does[o], BeginControl(o, k, v)
      PROVE  Rests
  <2>1. PICK place \in {"locking", "cancelling", "done"} : opc' = [opc EXCEPT ![o] = place]
    BY <1>2 DEF BeginControl, At
  <2>2. target' \in [Callers -> Requests \cup {None}]
    BY <1>2, <1>0, <1>t DEF BeginControl, cancellation, TypePipes
  <2>3. UNCHANGED <<worker, w, loaded, selected, src, killer>> /\ opc[o] = "idle"
        /\ voice' = [voice EXCEPT ![o] = v]
    BY <1>2 DEF BeginControl, adapter
  <2> QED BY <2>1, <2>2, <2>3, <1>m
<1>3. ASSUME NEW c \in Cancels, NEW r \in Requests, CancelBegin(c, r) PROVE Rests
  <2>1. target' \in [Callers -> Requests \cup {None}] BY <1>3, <1>t DEF CancelBegin, TypePipes
  <2>2. UNCHANGED <<opc, src, voice, worker, w, loaded, selected, killer>>
    BY <1>3 DEF CancelBegin, adapter, operation
  <2>3. Talks /\ NextTypes /\ NextReaders BY <2>1, <2>2, NobodyMoved
  <2> QED BY <2>2, <2>3 DEF Rests
<1> QED BY <1>1, <1>2, <1>3 DEF Calls

\* Cancels go on.
LEMMA CancelStepKeeps == ASSUME WorkInv, PipeInv, NEW c \in Callers, CancelStep(c) PROVE PipeInv'
<1>t. TypePipes BY DEF PipeInv
<1>a. UNCHANGED <<opc, src, voice, target>>
  BY DEF CancelStep, CancelStart, CancelSend, CancelNoWorker, CancelPop, CancelStop, operation
<1>b. Talks /\ NextTypes /\ NextReaders BY <1>a, <1>t, NobodyMoved DEF TypePipes
<1>1. ASSUME UNCHANGED <<worker, w, loaded, selected, killer>> PROVE PipeInv'
  <2>1. Rests BY <1>1, <1>a, <1>b DEF Rests
  <2> QED BY <2>1, RestsKeep
<1>2. ASSUME StopWorker(c) PROVE PipeInv'
  <2>0. ReadersTalk BY <1>b DEF ReadersTalk, Talks
  <2>1. Stops BY <2>0, <1>2, <1>a, <1>b DEF Stops, StopWorker, Threads
  <2> QED BY <2>1, StopsKeep
<1>3. CASE CancelStart(c) \/ CancelPop(c)
  BY <1>3, <1>1 DEF CancelStart, CancelPop, adapter
<1>4. CASE CancelNoWorker(c) \/ CancelStop(c)
  BY <1>4, <1>2 DEF CancelNoWorker, CancelStop
<1>5. CASE CancelSend(c)
  <2>1. Command("cancel", target[c], None) \in Orders
    BY <1>t DEF TypePipes, Command, Orders, Operations
  <2>2. Command("cancel", target[c], None).op = "cancel" BY DEF Command
  <2>3. CancelGoes(Command("cancel", target[c], None))
    BY <2>1, <2>2, <1>5, <1>a, <1>b DEF CancelSend, CancelGoes
  <2> QED BY <2>3, CancelsKeep
<1> QED BY <1>3, <1>4, <1>5 DEF CancelStep

\* An operation moves where no pipe is concerned.
LEMMA PlaceRests ==
  ASSUME WorkInv, PipeInv, NEW o \in Operations, NEW place,
         opc' = [opc EXCEPT ![o] = place], place # "leaving",
         UNCHANGED <<voice, target, src, worker, w, loaded, killer>>,
         ~Engaged(place) \/ (Engaged(opc[o]) /\ Asks(place) = Asks(opc[o])),
         Running /\ Engaged(opc[o]) => Engaged(place),
         opc[o] \notin Awaiting,
         selected' = selected \/ (Running => w[worker].prompt = None)
  PROVE  PipeInv'
<1>1. /\ Talks /\ NextTypes /\ NextReaders
      /\ \A x \in Operations : x # o => opc'[x] = opc[x]
      /\ opc'[o] = place
  BY PlaceMoved
<1>2. Rests BY <1>1 DEF Rests
<1> QED BY <1>2, RestsKeep

\* An operation moves while the worker is stopped.
LEMMA PlaceStops ==
  ASSUME WorkInv, PipeInv, NEW o \in Operations, NEW place, StopWorker(o),
         opc' = [opc EXCEPT ![o] = place], UNCHANGED <<voice, target>>,
         \/ src' = [src EXCEPT ![o] = 0]
         \/ src' = src /\ opc[o] \notin Awaiting
  PROVE  PipeInv'
<1>1. /\ NextTypes /\ NextReaders
      /\ \A x \in Operations : src'[x] \in {src[x], 0}
      /\ \A x \in Operations : x # o => opc'[x] = opc[x]
  BY PlaceMoved
<1>2. src'[o] = 0
  <2>1. TypePipes /\ ReadersWait BY DEF PipeInv
  <2>2. CASE src' = [src EXCEPT ![o] = 0] BY <2>1, <2>2 DEF TypePipes
  <2>3. CASE src' = src /\ opc[o] \notin Awaiting BY <2>1, <2>3 DEF ReadersWait
  <2> QED BY <2>2, <2>3
<1>3. ReadersTalk BY <1>1, <1>2 DEF ReadersTalk
<1>4. Stops BY <1>1, <1>3 DEF Stops, StopWorker, Threads
<1> QED BY <1>4, StopsKeep

LEMMA StreamKeeps == ASSUME WorkInv, PipeInv, NEW r \in Requests, StreamStep(r) PROVE PipeInv'
<1> USE DEF At, Return, Engaged, Awaiting, Asks, Outside, cancellation
<1>0. r \in Operations BY DEF Operations
<1>t. TypePipes /\ ReadersWait /\ TypeWork BY DEF PipeInv, WorkInv
<1>1. CASE Register(r)
  BY <1>1, <1>0, PlaceRests DEF Register, AtWork
<1>2. CASE SendGenerate(r)
  <2>1. OrderGoes(r, "streaming")
    BY <1>2, <1>t DEF SendGenerate, Issue, OrderGoes, TypeWork
  <2> QED BY <2>1, <1>0, OrdersKeep
<1>3. CASE SpawnFails(r)
  <2>1. CASE opc[r] = "registered" BY <2>1, <1>0, <1>3, PlaceStops DEF SpawnFails
  <2>2. CASE opc[r] = "abandoning" BY <2>2, <1>0, <1>3, PlaceStops DEF SpawnFails
  <2> QED BY <2>1, <2>2, <1>3 DEF SpawnFails
<1>4. CASE ReadChunk(r)
  <2>1. /\ Reads(r, "chunk") /\ Took(r)
        /\ UNCHANGED <<worker, voice, target, loaded, selected, killer>>
    BY <1>4 DEF ReadChunk, adapter
  <2>2. (opc[r] = "streaming" /\ opc' = [opc EXCEPT ![r] = "yielded"]) \/ (opc[r] = "draining" /\ opc' = opc)
    BY <1>4 DEF ReadChunk
  <2>3. Takes(r) BY <2>1, <2>2, <1>0, TakesMoved
  <2>4. Engaged(opc'[r]) /\ Asks(opc'[r]) = Asks(opc[r]) BY <2>2, <1>0, <1>t DEF TypeWork
  <2>5. TakesChunk(r) BY <2>1, <2>3, <2>4 DEF TakesChunk
  <2> QED BY <2>5, <1>0, TakesKeep
<1>5. ASSUME NEW e \in Ends, ReadTerminal(r, e) PROVE PipeInv'
  <2>1. /\ opc[r] \in {"streaming", "draining"} /\ Reads(r, e)
        /\ opc' = [opc EXCEPT ![r] = "closing"] /\ UNCHANGED <<voice, target>>
        /\ src' = [src EXCEPT ![r] = 0]
    BY <1>5 DEF ReadTerminal, Reads
  <2>2. CASE StopWorker(r) BY <2>1, <2>2, <1>0, PlaceStops
  <2>3. CASE Took(r) /\ UNCHANGED <<worker, loaded, selected, killer>>
    <3>1. Takes(r) /\ Head(w[src[r]].out).event = e BY <2>1, <2>3, <1>0, TakesMoved
    <3>2. IsAnswer(Head(w[src[r]].out)) BY <3>1 DEF IsAnswer, Ends
    <3>3. ~Engaged(opc'[r]) BY <2>1, <1>0, <1>t DEF TypeWork
    <3>4. TakesAnswer(r) BY <2>1, <2>3, <3>1, <3>2, <3>3 DEF TakesAnswer
    <3> QED BY <3>4, <1>0, TakesKeep
  <2> QED BY <2>2, <2>3, <1>5 DEF ReadTerminal
<1>6. CASE Consume(r)
  <2>1. UNCHANGED <<voice, target, src, worker, w, loaded, selected, killer>> /\ opc[r] = "yielded"
    BY <1>6 DEF Consume, adapter
  <2>2. PICK place \in {"streaming", "finally"} : opc' = [opc EXCEPT ![r] = place]
    BY <1>6 DEF Consume
  <2> QED BY <2>1, <2>2, <1>0, PlaceRests
<1>7. CASE Finally(r)
  <2>1. UNCHANGED <<voice, target, src, worker, w, loaded, selected, killer>> /\ opc[r] = "finally"
    BY <1>7 DEF Finally, adapter
  <2>2. CASE Running
    <3>1. opc' = [opc EXCEPT ![r] = "abandoning"] BY <1>7, <2>2 DEF Finally
    <3> QED BY <2>1, <3>1, <1>0, PlaceRests
  <2>3. CASE ~Running
    <3>1. opc' = [opc EXCEPT ![r] = "closing"] BY <1>7, <2>3 DEF Finally
    <3> QED BY <2>1, <2>3, <3>1, <1>0, PlaceRests
  <2> QED BY <2>2, <2>3
<1>8. CASE Abandon(r)
  <2> DEFINE cmd == Command("cancel", r, voice[r])
  <2>1. cmd \in Orders /\ cmd.op = "cancel" BY <1>0, <1>t DEF TypePipes, Command, Orders
  <2>2. /\ SendCommand(cmd) /\ opc' = [opc EXCEPT ![r] = "draining"] /\ opc[r] = "abandoning"
        /\ UNCHANGED <<loaded, selected, src, voice, target, killer>>
    BY <1>8 DEF Abandon, Issue
  <2> HIDE DEF cmd
  <2>3. /\ Talks /\ NextTypes /\ NextReaders
        /\ \A x \in Operations : x # r => opc'[x] = opc[x]
        /\ opc'[r] = "draining"
    BY <2>2, <1>0, PlaceMoved
  <2>4. CancelGoes(cmd) BY <2>1, <2>2, <2>3 DEF CancelGoes
  <2> QED BY <2>4, CancelsKeep
<1>9. CASE Close(r)
  BY <1>9, <1>0, PlaceRests DEF Close
<1> QED BY <1>1, <1>2, <1>3, <1>4, <1>5, <1>6, <1>7, <1>8, <1>9 DEF StreamStep

LEMMA ControlKeeps == ASSUME WorkInv, PipeInv, NEW o \in Controls, ControlStep(o) PROVE PipeInv'
<1> USE DEF At, Return, Engaged, Awaiting, Asks, Outside, cancellation
<1>0. o \in Operations BY DEF Operations
<1>t. TypePipes /\ ReadersWait /\ TypeWork BY DEF PipeInv, WorkInv
<1>1. CASE CancelledFirst(o)
  BY <1>1, <1>0, PlaceRests DEF CancelledFirst, adapter
<1>2. CASE SendInvalidate(o)
  <2>1. OrderGoes(o, "invalidating")
    BY <1>2, <1>t DEF SendInvalidate, SendsInvalidate, Issue, OrderGoes, TypeWork
  <2> QED BY <2>1, <1>0, OrdersKeep
<1>3. CASE SendUnload(o)
  <2>1. OrderGoes(o, "unloading")
    BY <1>3, <1>t DEF SendUnload, SendsUnload, Issue, OrderGoes, TypeWork
  <2> QED BY <2>1, <1>0, OrdersKeep
<1>4. CASE ReadUnloaded(o)
  <2>1. /\ opc[o] = "unloading" /\ Reads(o, "done") /\ Took(o)
        /\ opc' = [opc EXCEPT ![o] = "stopping"]
        /\ UNCHANGED <<worker, loaded, selected, voice, target, killer>>
    BY <1>4 DEF ReadUnloaded, adapter
  <2>2. Takes(o) /\ Head(w[src[o]].out).event = "done" BY <2>1, <1>0, TakesMoved
  <2>3. IsAnswer(Head(w[src[o]].out)) BY <2>2 DEF IsAnswer
  <2>4. ~Engaged(opc'[o]) BY <2>1, <1>0, <1>t DEF TypeWork
  <2>5. TakesAnswer(o) BY <2>1, <2>2, <2>3, <2>4 DEF TakesAnswer
  <2> QED BY <2>5, <1>0, TakesKeep
<1> QED BY <1>1, <1>2, <1>3, <1>4 DEF ControlStep

LEMMA OperationKeeps ==
  ASSUME WorkInv, PipeInv, NEW o \in Operations, OperationStep(o) PROVE PipeInv'
<1> USE DEF At, Return, Engaged, Awaiting, Asks, Outside, cancellation
<1>t. TypePipes /\ ReadersWait /\ TypeWork BY DEF PipeInv, WorkInv
<1>1. CASE Lock(o)
  BY <1>1, PlaceRests DEF Lock
<1>2. CASE SendLoad(o)
  <2>1. OrderGoes(o, "loading")
    BY <1>2, <1>t DEF SendLoad, SendsLoad, Issue, OrderGoes, TypeWork
  <2> QED BY <2>1, OrdersKeep
<1>3. CASE SendPrewarm(o)
  <2>1. OrderGoes(o, "prewarming")
    BY <1>3, <1>t DEF SendPrewarm, SendsPrewarm, AtWork, Issue, OrderGoes, TypeWork
  <2> QED BY <2>1, OrdersKeep
<1>4. CASE NothingToDo(o)
  <2>1. opc[o] \in {"entered", "ready"} /\ opc' = [opc EXCEPT ![o] = "done"]
        /\ UNCHANGED <<voice, target, src, worker, w, loaded, killer>>
    BY <1>4 DEF NothingToDo, SendsLoad, AtWork
  <2>2. selected' = selected \/ (Running => w[worker].prompt = None)
    <3> SUFFICES ASSUME selected' # selected, Running, w[worker].prompt # None PROVE FALSE
      OBVIOUS
    <3>1. opc[o] = "entered" /\ ~loaded
      BY <1>4 DEF NothingToDo, SendsInvalidate
    <3>2. \A x \in Operations : opc[x] # "loading"
      BY <3>1, OneEngaged
    <3>3. worker \in Workers BY <1>t DEF Running, TypePipes, Workers
    <3>4. PromptFits(w[worker]) BY <3>3 DEF PipeInv, AllSound, Sound
    <3>5. w[worker].runtime BY <3>4 DEF PromptFits
    <3> QED BY <3>1, <3>2, <3>5 DEF PipeInv, LoadedIsKnown
  <2> QED BY <2>1, <2>2, PlaceRests
<1>5. CASE StopAtOnce(o)
  <2>1. opc[o] \in {"entered", "ready"}
    BY <1>5 DEF StopAtOnce, SendsLoad, SendsPrewarm, SendsInvalidate, AtWork
  <2> QED BY <2>1, <1>5, PlaceStops DEF StopAtOnce
<1>6. CASE Capture(o)
  <2>1. /\ opc[o] \in Awaiting /\ src' = [src EXCEPT ![o] = worker]
        /\ UNCHANGED <<worker, w, loaded, selected, opc, voice, target, killer>>
    BY <1>6 DEF Capture, adapter
  <2>2. src' \in [Operations -> 0..MaxWorkers] BY <2>1, <1>t DEF TypePipes
  <2>3. \A x \in Operations : src'[x] \in {src[x], worker} BY <2>1, <1>t DEF TypePipes
  <2>4. NextReaders
    <3>1. \A x \in Operations : x # o => src'[x] = src[x] BY <2>1, <1>t DEF TypePipes
    <3> QED BY <3>1, <2>1, <1>t DEF NextReaders, ReadersWait
  <2>5. Talks BY <2>1 DEF Talks
  <2>6. NextTypes BY <2>1, <2>2, <1>t DEF NextTypes, TypePipes
  <2>7. Rests BY <2>1, <2>3, <2>4, <2>5, <2>6 DEF Rests
  <2> QED BY <2>7, RestsKeep
<1>r. ASSUME Raise(o), UNCHANGED <<voice, target>>
      PROVE  \E place \in {"finally", "stopping", "leaving"} :
               /\ opc' = [opc EXCEPT ![o] = place]
               /\ src' = [src EXCEPT ![o] = 0]
               /\ ~Engaged(place) \/ (Engaged(opc[o]) /\ Asks(place) = Asks(opc[o]))
  BY <1>r DEF Raise
<1>7. CASE NoQueue(o)
  <2>1. worker = 0 /\ UNCHANGED <<worker, w, loaded, selected, voice, target, killer>> /\ Raise(o)
        /\ src[o] = 0
    BY <1>7 DEF NoQueue, adapter
  <2>2. PICK place \in {"finally", "stopping", "leaving"} :
               /\ opc' = [opc EXCEPT ![o] = place]
               /\ src' = [src EXCEPT ![o] = 0]
               /\ ~Engaged(place) \/ (Engaged(opc[o]) /\ Asks(place) = Asks(opc[o]))
    BY <2>1, <1>r
  <2>3. /\ Talks /\ NextTypes /\ NextReaders
        /\ \A x \in Operations : src'[x] \in {src[x], 0}
    BY <2>1, <2>2, PlaceMoved
  <2>4. ~Running BY <2>1 DEF Running
  <2>5. Rests BY <2>1, <2>2, <2>3, <2>4 DEF Rests
  <2> QED BY <2>5, RestsKeep
<1>8. CASE ReadFails(o)
  <2>1. StopWorker(o) /\ Raise(o) /\ UNCHANGED <<voice, target>> /\ src[o] # 0
    BY <1>8 DEF ReadFails
  <2>2. PICK place \in {"finally", "stopping", "leaving"} :
               /\ opc' = [opc EXCEPT ![o] = place]
               /\ src' = [src EXCEPT ![o] = 0]
               /\ ~Engaged(place) \/ (Engaged(opc[o]) /\ Asks(place) = Asks(opc[o]))
    BY <2>1, <1>r
  <2> QED BY <2>1, <2>2, PlaceStops
<1>9. CASE ReadLoaded(o)
  <2>1. /\ Reads(o, "loaded") /\ Took(o) /\ loaded' = TRUE
        /\ UNCHANGED <<worker, selected, voice, target, killer>>
    BY <1>9 DEF ReadLoaded
  <2>2. PICK place \in {"done", "ready"} : opc' = [opc EXCEPT ![o] = place]
    BY <1>9 DEF ReadLoaded
  <2>3. Takes(o) /\ Head(w[src[o]].out).event = "loaded" /\ opc[o] = "loading"
    BY <2>1, <2>2, TakesMoved, ReadFinds
  <2>4. IsAnswer(Head(w[src[o]].out)) BY <2>3 DEF IsAnswer
  <2>5. ~Engaged(opc'[o]) BY <2>2, <1>t DEF TypeWork
  <2>6. TakesAnswer(o) BY <2>1, <2>3, <2>4, <2>5 DEF TakesAnswer
  <2> QED BY <2>6, TakesKeep
<1>10. CASE ReadLoadFailed(o)
  <2>1. /\ StopWorker(o) /\ opc' = [opc EXCEPT ![o] = "leaving"] /\ UNCHANGED <<voice, target>>
        /\ src' = [src EXCEPT ![o] = 0] /\ Reads(o, "failed")
    BY <1>10 DEF ReadLoadFailed, Reads
  <2> QED BY <2>1, PlaceStops
<1>11. CASE ReadPrompt(o)
  <2>1. PICK e \in {"prompt_ready", "prompt_failed", "invalidated"} :
           /\ Reads(o, e)
           /\ e = "prompt_ready" => selected' = voice[o]
    BY <1>11 DEF ReadPrompt
  <2>2. /\ Took(o) /\ opc' = [opc EXCEPT ![o] = "done"]
        /\ UNCHANGED <<worker, loaded, voice, target, killer>>
    BY <1>11 DEF ReadPrompt
  <2>3. /\ Takes(o) /\ Head(w[src[o]].out).event = e
        /\ e \in {"prompt_ready", "prompt_failed"} => opc[o] = "prewarming"
        /\ e = "invalidated" => opc[o] = "invalidating"
    BY <2>1, <2>2, TakesMoved, ReadFinds
  <2>4. IsAnswer(Head(w[src[o]].out)) BY <2>3 DEF IsAnswer
  <2>5. ~Engaged(opc'[o]) BY <2>2, <1>t DEF TypeWork
  <2>6. TakesAnswer(o) BY <2>1, <2>2, <2>3, <2>4, <2>5 DEF TakesAnswer
  <2> QED BY <2>6, TakesKeep
<1>12. CASE Stop(o)
  <2>1. StopWorker(o) /\ opc[o] = "stopping" /\ UNCHANGED <<voice, target, src>>
    BY <1>12 DEF Stop
  <2>2. PICK place \in {"leaving", "closing"} : opc' = [opc EXCEPT ![o] = place]
    BY <1>12 DEF Stop
  <2> QED BY <2>1, <2>2, PlaceStops
<1>13. CASE Leave(o)
  BY <1>13, PlaceRests DEF Leave
<1> QED BY <1>1, <1>2, <1>3, <1>4, <1>5, <1>6, <1>7, <1>8, <1>9, <1>10, <1>11, <1>12, <1>13
        DEF OperationStep

LEMMA PipesKept == ASSUME WorkInv, PipeInv, [Next]_vars PROVE PipeInv'
<1>1. CASE UNCHANGED vars
  <2>1. UNCHANGED <<opc, src, voice, target, worker, w, loaded, selected, killer>>
    BY <1>1 DEF vars, adapter, operation, cancellation
  <2>2. target' \in [Callers -> Requests \cup {None}] BY <2>1 DEF PipeInv, TypePipes
  <2>3. Talks /\ NextTypes /\ NextReaders BY <2>1, <2>2, NobodyMoved
  <2>4. Rests BY <2>1, <2>3 DEF Rests
  <2> QED BY <2>4, RestsKeep
<1>2. CASE Next
  BY <1>2, CallsKeep, StreamKeeps, OperationKeeps, ControlKeeps, CancelStepKeeps, ActsKeep,
     ReapsKeep DEF Next
<1> QED BY <1>1, <1>2

LEMMA PipesAtStart == Init => PipeInv
<1> SUFFICES ASSUME Init PROVE PipeInv
  OBVIOUS
<1>0. /\ worker = 0 /\ src = [o \in Operations |-> 0] /\ opc = [o \in Operations |-> "idle"]
      /\ voice = [o \in Operations |-> None] /\ target = [c \in Callers |-> None]
      /\ w = [i \in Workers |-> Unborn] /\ killer = [i \in Workers |-> None]
  BY DEF Init
<1>1. Sound(Unborn) BY UnbornIsSound
<1>2. TypePipes
  <2>1. w \in [Workers -> AnyProcess] BY <1>0, <1>1 DEF Sound
  <2>2. 0 \in 0..MaxWorkers BY BoundAssumption
  <2> QED BY <1>0, <2>1, <2>2 DEF TypePipes
<1>3. OneLives
  <2>1. \A i \in Workers : w[i] = Unborn /\ i # 0 /\ killer[i] = None BY <1>0 DEF Workers
  <2>2. Unborn.life = "unborn" BY DEF Unborn
  <2> QED BY <1>0, <2>1, <2>2 DEF OneLives
<1>4. AllSound BY <1>0, <1>1 DEF AllSound
<1>5. ~Running /\ \A o \in Operations : ~Engaged(opc[o]) /\ src[o] = 0
  BY <1>0 DEF Running, Engaged, Awaiting
<1> QED BY <1>2, <1>3, <1>4, <1>5
        DEF PipeInv, EachServed, ReadersWait, RestIsQuiet, LoadedIsKnown, PromptIsKnown,
            LeavingIsClean

\* What the two invariants say together of the steps to come.
LEMMA ExchangeKept ==
  /\ Init => WorkInv /\ PipeInv
  /\ WorkInv /\ PipeInv /\ [Next]_vars => WorkInv' /\ PipeInv'
<1>1. Init => WorkInv
  BY NameAssumption DEF Init, WorkInv, TypeWork, WorkersLock, KindsFit, KindFits, ActiveStreams,
     Operations, Outside, StreamOnly, Active, OpPc, Awaiting
<1> QED BY <1>1, PipesAtStart, WorkKept, PipesKept, ControlAssumption

\* What an operation finds in its line queue, garbage apart, is for itself: an answer never
\* outlives its operation, not through a cancel that came late, a drained stream, a worker
\* that was stopped or one that replaced it.
THEOREM AnswersAreOwn == Spec => []OwnEvents
<1>1. WorkInv /\ PipeInv => OwnEvents
  <2> SUFFICES ASSUME PipeInv, NEW o \in Operations, NEW n \in DOMAIN Lines(o),
                      Lines(o)[n].event # "garbage"
               PROVE  Lines(o)[n].req = o
    BY DEF OwnEvents
  <2>1. src[o] # 0 /\ Lines(o) = w[src[o]].out
    <3>1. DOMAIN <<>> = {} OBVIOUS
    <3> QED BY <3>1 DEF Lines
  <2>2. Engaged(opc[o]) BY <2>1 DEF PipeInv, ReadersWait, Engaged
  <2>3. Serves(w[src[o]], OrderOf(o)) BY <2>1, <2>2 DEF PipeInv, EachServed
  <2>4. OrderOf(o).req = o BY DEF OrderOf, Command
  <2> HIDE DEF OrderOf
  <2> QED BY <2>1, <2>3, <2>4 DEF Serves
<1> QED BY <1>1, ExchangeKept, PTL DEF Spec

-----------------------------------------------------------------------------
(* What the calls return.                                                   *)

\* Where a stream is once nothing of it is yielded any more.
Over == {"closing", "done"}

\* How an admitted invalidation ends: without an order, with its answer, or after it has
\* waited for the end of the process that it stopped.
Resolves(o) == Free(o) /\ (NothingToDo(o) \/ ReadPrompt(o) \/ Leave(o))

\* Operations only go forward, with the voice they began with; a stream that is over yields
\* nothing.
Forward ==
    /\ got' \in [Requests -> Nat]
    /\ \A r \in Requests : opc[r] \in Over => opc'[r] \in Over /\ got'[r] = got[r]
    /\ \A o \in Operations : IF opc[o] # "idle" THEN opc'[o] # "idle" /\ voice'[o] = voice[o]
                             ELSE opc'[o] # "idle" => voice'[o] \in Voices
    /\ \A o \in Controls :
          kind[o] = "invalidate" /\ opc[o] \in {"entered", "invalidating", "leaving"}
             /\ opc'[o] = "done" => Resolves(o)

\* Such a step of one operation.
Moves(o, place) ==
    /\ opc' = [opc EXCEPT ![o] = place] /\ UNCHANGED <<voice, got>>
    /\ opc[o] # "idle" /\ place # "idle"
    /\ opc[o] \in Over => place \in Over
    /\ kind[o] = "invalidate" /\ opc[o] \in {"entered", "invalidating", "leaving"}
          /\ place = "done" => Resolves(o)

LEMMA MovesForward ==
  ASSUME WorkInv, got \in [Requests -> Nat], NEW o \in Operations, \E place : Moves(o, place)
  PROVE  Forward
<1>1. PICK place : Moves(o, place) OBVIOUS
<1>2. opc'[o] = place /\ \A x \in Operations : x # o => opc'[x] = opc[x]
  BY <1>1 DEF Moves, WorkInv, TypeWork
<1>3. \A r \in Requests : r \in Operations BY DEF Operations
<1>4. \A r \in Controls : r \in Operations BY DEF Operations
<1> QED BY <1>1, <1>2, <1>3, <1>4 DEF Moves, Forward

LEMMA NobodyForward ==
  ASSUME got \in [Requests -> Nat], UNCHANGED <<opc, voice, got>> PROVE Forward
BY DEF Forward

LEMMA StreamForward ==
  ASSUME WorkInv, got \in [Requests -> Nat], NEW r \in Requests, StreamStep(r)
  PROVE  Forward
<1> USE DEF At, Over, Moves
<1>0. r \in Operations BY DEF Operations
<1>1. CASE Register(r)
  <2>1. Moves(r, "registered") BY <1>1 DEF Register, AtWork
  <2> QED BY <2>1, <1>0, MovesForward
<1>2. CASE SendGenerate(r)
  <2>1. Moves(r, "streaming") BY <1>2 DEF SendGenerate, Issue
  <2> QED BY <2>1, <1>0, MovesForward
<1>3. CASE SpawnFails(r)
  <2>1. PICK place \in {"finally", "stopping"} : opc' = [opc EXCEPT ![r] = place]
    BY <1>3 DEF SpawnFails
  <2>2. Moves(r, place) BY <2>1, <1>3 DEF SpawnFails
  <2> QED BY <2>2, <1>0, MovesForward
<1>4. CASE ReadChunk(r)
  <2>1. CASE opc[r] = "draining" /\ UNCHANGED <<got, opc>>
    BY <1>4, <2>1, NobodyForward DEF ReadChunk
  <2>2. CASE opc[r] = "streaming" /\ got' = [got EXCEPT ![r] = @ + 1] /\ At(r, "yielded")
    <3>1. got' \in [Requests -> Nat] /\ \A x \in Requests : x # r => got'[x] = got[x]
      BY <2>2
    <3>2. /\ opc'[r] = "yielded" /\ voice' = voice
          /\ \A x \in Operations : x # r => opc'[x] = opc[x]
      BY <1>4, <2>2, <1>0 DEF ReadChunk, WorkInv, TypeWork
    <3>3. \A x \in Requests : x \in Operations BY DEF Operations
    <3>4. \A x \in Controls : x \in Operations /\ x # r BY NameAssumption DEF Operations
    <3> QED BY <2>2, <3>1, <3>2, <3>3, <3>4 DEF Forward
  <2> QED BY <1>4, <2>1, <2>2 DEF ReadChunk
<1>5. ASSUME NEW e \in Ends, ReadTerminal(r, e) PROVE Forward
  <2>1. Moves(r, "closing") BY <1>5 DEF ReadTerminal
  <2> QED BY <2>1, <1>0, MovesForward
<1>6. CASE Consume(r)
  <2>1. PICK place \in {"streaming", "finally"} : opc' = [opc EXCEPT ![r] = place]
    BY <1>6 DEF Consume
  <2>2. Moves(r, place) BY <2>1, <1>6 DEF Consume
  <2> QED BY <2>2, <1>0, MovesForward
<1>7. CASE Finally(r)
  <2>1. PICK place \in {"abandoning", "closing"} : opc' = [opc EXCEPT ![r] = place]
    BY <1>7 DEF Finally
  <2>2. Moves(r, place) BY <2>1, <1>7 DEF Finally
  <2> QED BY <2>2, <1>0, MovesForward
<1>8. CASE Abandon(r)
  <2>1. Moves(r, "draining") BY <1>8 DEF Abandon, Issue
  <2> QED BY <2>1, <1>0, MovesForward
<1>9. CASE Close(r)
  <2>1. Moves(r, "done") BY <1>9 DEF Close, Return
  <2> QED BY <2>1, <1>0, MovesForward
<1> QED BY <1>1, <1>2, <1>3, <1>4, <1>5, <1>6, <1>7, <1>8, <1>9 DEF StreamStep

LEMMA ControlForward ==
  ASSUME WorkInv, got \in [Requests -> Nat], NEW o \in Controls, ControlStep(o)
  PROVE  Forward
<1> USE DEF At, Over, Moves
<1>0. o \in Operations BY DEF Operations
<1>1. CASE CancelledFirst(o)
  <2>1. Moves(o, "locking") BY <1>1 DEF CancelledFirst
  <2> QED BY <2>1, <1>0, MovesForward
<1>2. CASE SendInvalidate(o)
  <2>1. Moves(o, "invalidating") BY <1>2 DEF SendInvalidate, SendsInvalidate, Issue
  <2> QED BY <2>1, <1>0, MovesForward
<1>3. CASE SendUnload(o)
  <2>1. Moves(o, "unloading") BY <1>3 DEF SendUnload, SendsUnload, Issue
  <2> QED BY <2>1, <1>0, MovesForward
<1>4. CASE ReadUnloaded(o)
  <2>1. Moves(o, "stopping") BY <1>4 DEF ReadUnloaded
  <2> QED BY <2>1, <1>0, MovesForward
<1> QED BY <1>1, <1>2, <1>3, <1>4 DEF ControlStep

LEMMA OperationForward ==
  ASSUME WorkInv, got \in [Requests -> Nat], NEW o \in Operations, Free(o), OperationStep(o)
  PROVE  Forward
<1> USE DEF At, Return, Over
<1>1. CASE Lock(o)
  <2>1. Moves(o, "entered") BY <1>1 DEF Lock, Moves
  <2> QED BY <2>1, MovesForward
<1>2. CASE SendLoad(o)
  <2>1. Moves(o, "loading") BY <1>2 DEF SendLoad, SendsLoad, Issue, Moves
  <2> QED BY <2>1, MovesForward
<1>3. CASE SendPrewarm(o)
  <2>1. Moves(o, "prewarming") BY <1>3 DEF SendPrewarm, SendsPrewarm, AtWork, Issue, Moves
  <2> QED BY <2>1, MovesForward
<1>4. CASE NothingToDo(o)
  <2>1. opc[o] # "idle" BY <1>4 DEF NothingToDo, SendsLoad, AtWork
  <2>2. opc' = [opc EXCEPT ![o] = "done"] /\ UNCHANGED <<voice, got>>
    BY <1>4 DEF NothingToDo
  <2>3. Moves(o, "done") BY <2>1, <2>2, <1>4 DEF Moves, Resolves
  <2> QED BY <2>3, MovesForward
<1>5. CASE StopAtOnce(o)
  <2>1. opc[o] \in {"entered", "ready"}
    BY <1>5 DEF StopAtOnce, SendsLoad, SendsPrewarm, SendsInvalidate, AtWork
  <2>2. Moves(o, "leaving") BY <2>1, <1>5 DEF StopAtOnce, Moves
  <2> QED BY <2>2, MovesForward
<1>6. CASE Capture(o)
  BY <1>6, NobodyForward DEF Capture
<1>r. ASSUME Raise(o), opc[o] \in Awaiting, UNCHANGED <<voice, got>> PROVE Forward
  <2>1. PICK place \in {"finally", "stopping", "leaving"} : opc' = [opc EXCEPT ![o] = place]
    BY <1>r DEF Raise
  <2>2. Moves(o, place) BY <2>1, <1>r DEF Moves, Awaiting
  <2> QED BY <2>2, MovesForward
<1>7. CASE NoQueue(o)
  BY <1>7, <1>r DEF NoQueue
<1>8. CASE ReadFails(o)
  BY <1>8, <1>r DEF ReadFails
<1>9. CASE ReadLoaded(o)
  <2>1. opc[o] = "loading" BY <1>9, ReadFinds DEF ReadLoaded
  <2>2. PICK place \in {"done", "ready"} : opc' = [opc EXCEPT ![o] = place]
    BY <1>9 DEF ReadLoaded
  <2>3. Moves(o, place) BY <2>1, <2>2, <1>9 DEF ReadLoaded, Moves
  <2> QED BY <2>3, MovesForward
<1>10. CASE ReadLoadFailed(o)
  <2>1. Moves(o, "leaving") BY <1>10 DEF ReadLoadFailed, Moves
  <2> QED BY <2>1, MovesForward
<1>11. CASE ReadPrompt(o)
  <2>1. opc[o] \in Awaiting BY <1>11 DEF ReadPrompt, Reads
  <2>2. opc' = [opc EXCEPT ![o] = "done"] /\ UNCHANGED <<voice, got>> BY <1>11 DEF ReadPrompt
  <2>3. Moves(o, "done") BY <2>1, <2>2, <1>11 DEF Moves, Awaiting, Resolves
  <2> QED BY <2>3, MovesForward
<1>12. CASE Stop(o)
  <2>1. PICK place \in {"leaving", "closing"} : opc' = [opc EXCEPT ![o] = place]
    BY <1>12 DEF Stop
  <2>2. Moves(o, place) BY <2>1, <1>12 DEF Stop, Moves
  <2> QED BY <2>2, MovesForward
<1>13. CASE Leave(o)
  <2>1. Moves(o, "done") BY <1>13 DEF Leave, Moves, Resolves
  <2> QED BY <2>1, MovesForward
<1> QED BY <1>1, <1>2, <1>3, <1>4, <1>5, <1>6, <1>7, <1>8, <1>9, <1>10, <1>11, <1>12, <1>13
        DEF OperationStep

LEMMA NextForward ==
  ASSUME WorkInv, PipeInv, got \in [Requests -> Nat], [Next]_vars PROVE Forward
<1>b. ASSUME NEW o \in Operations, NEW place \in {"locking", "cancelling", "done"}, NEW v \in Voices,
             opc[o] = "idle", opc' = [opc EXCEPT ![o] = place],
             voice' = [voice EXCEPT ![o] = v], UNCHANGED got
      PROVE  Forward
  <2>1. /\ opc'[o] = place /\ voice'[o] = v
        /\ \A x \in Operations : x # o => opc'[x] = opc[x] /\ voice'[x] = voice[x]
    BY <1>b DEF WorkInv, TypeWork, PipeInv, TypePipes
  <2>2. \A x \in Requests : x \in Operations BY DEF Operations
  <2>3. \A x \in Controls : x \in Operations BY DEF Operations
  <2> QED BY <2>1, <2>2, <2>3, <1>b DEF Forward, Over
<1>1. ASSUME NEW r \in Requests, NEW v \in Voices, BeginStream(r, v) PROVE Forward
  BY <1>1, <1>b DEF BeginStream, At, Operations
<1>2. ASSUME NEW o \in Controls, NEW v \in Voices, NEW k \in Does[o], BeginControl(o, k, v)
      PROVE  Forward
  <2>1. PICK place \in {"locking", "cancelling", "done"} : opc' = [opc EXCEPT ![o] = place]
    BY <1>2 DEF BeginControl, At
  <2> QED BY <2>1, <1>2, <1>b DEF BeginControl, Operations
<1>3. ASSUME NEW c \in Cancels, NEW r \in Requests, CancelBegin(c, r) PROVE Forward
  BY <1>3, NobodyForward DEF CancelBegin, operation
<1>4. ASSUME NEW c \in Callers, CancelStep(c) PROVE Forward
  BY <1>4, NobodyForward DEF CancelStep, CancelStart, CancelSend, CancelNoWorker, CancelPop,
     CancelStop, operation
<1>5. ASSUME NEW i \in Workers, WorkerStep(i) \/ Fault(i) \/ Reap(i) PROVE Forward
  <2>1. UNCHANGED operation
    BY <1>5 DEF WorkerStep, Fault, Reap, ReadLine, DispatchLoad, DispatchPrewarm, DispatchGenerate,
       DispatchInvalidate, DispatchUnload, GenerateChunk, GenerateEnd, Became
  <2> QED BY <2>1, NobodyForward DEF operation
<1>6. CASE UNCHANGED vars BY <1>6, NobodyForward DEF vars, operation
<1> QED BY <1>1, <1>2, <1>3, <1>4, <1>5, <1>6, StreamForward, OperationForward, ControlForward
        DEF Next, Calls

\* What is recorded of a stream is recorded at its end, and cancel() only says so.
TypeAnswers ==
    /\ got \in [Requests -> Nat]
    /\ statuses \in [Requests -> {"cancelled", "already_done", None}]
    /\ cpc \in [Callers -> CancelPc]
    /\ target \in [Callers -> Requests \cup {None}]
    /\ result \in [Callers -> BOOLEAN \cup {None}]
VoicesGiven == \A o \in Operations : opc[o] # "idle" => voice[o] \in Voices
RecordsAreEnds == \A r \in Requests : statuses[r] # None => opc[r] \in Over
CancelsAim == \A c \in Callers : cpc[c] # "idle" => target[c] \in Requests
CallersBegin == \A o \in Controls : opc[o] = "idle" => cpc[o] = "idle"
AnswerHolds(c) == result[c] = TRUE => cpc[c] = "done" /\ opc[target[c]] \in Over
AnswersHold == \A c \in Callers : AnswerHolds(c)

AnswerInv ==
    /\ TypeAnswers /\ VoicesGiven /\ RecordsAreEnds /\ CancelsAim /\ CallersBegin
    /\ AnswersHold

LEMMA AnswersAtStart == Init => AnswerInv
<1> SUFFICES ASSUME Init PROVE AnswerInv
  OBVIOUS
<1> USE DEF Init
<1>1. TypeAnswers BY DEF TypeAnswers, CancelPc
<1>2. VoicesGiven /\ RecordsAreEnds /\ CancelsAim BY DEF VoicesGiven, RecordsAreEnds, CancelsAim
<1>3. CallersBegin BY DEF CallersBegin, Operations, Callers
<1>4. AnswersHold BY NameAssumption DEF AnswersHold, AnswerHolds
<1> QED BY <1>1, <1>2, <1>3, <1>4 DEF AnswerInv

\* The voices, and what is known of the ends, keep in every step forward.
LEMMA ForwardKeeps ==
  ASSUME AnswerInv, Forward, UNCHANGED cancellation, statuses' \in [Requests -> {"cancelled", "already_done", None}],
         RecordsAreEnds'
  PROVE  AnswerInv'
<1>0. UNCHANGED <<cpc, target, result>> BY DEF cancellation
<1>1. TypeAnswers' BY <1>0 DEF AnswerInv, TypeAnswers, Forward
<1>2. VoicesGiven' BY DEF AnswerInv, VoicesGiven, Forward
<1>3. CancelsAim' BY <1>0 DEF AnswerInv, CancelsAim
<1>4. CallersBegin' BY <1>0 DEF AnswerInv, CallersBegin, Forward, Operations
<1>5. AnswersHold'
  <2> SUFFICES ASSUME NEW c \in Callers, result[c] = TRUE
               PROVE  cpc[c] = "done" /\ opc'[target[c]] \in Over
    BY <1>0 DEF AnswersHold, AnswerHolds
  <2>1. cpc[c] = "done" /\ opc[target[c]] \in Over BY DEF AnswerInv, AnswersHold, AnswerHolds
  <2>2. target[c] \in Requests BY <2>1 DEF AnswerInv, CancelsAim
  <2> QED BY <2>1, <2>2 DEF Forward
<1> QED BY <1>1, <1>2, <1>3, <1>4, <1>5 DEF AnswerInv

\* A call of cancel begins.
LEMMA AimKeeps ==
  ASSUME AnswerInv, Forward, NEW c \in Callers, NEW r \in Requests, cpc[c] = "idle",
         c \in Controls => opc'[c] # "idle",
         cpc' = [cpc EXCEPT ![c] = "start"], target' = [target EXCEPT ![c] = r],
         UNCHANGED <<statuses, result>>
  PROVE  AnswerInv'
<1>t. TypeAnswers BY DEF AnswerInv
<1>0. /\ cpc'[c] = "start" /\ target'[c] = r
      /\ \A x \in Callers : x # c => cpc'[x] = cpc[x] /\ target'[x] = target[x]
  BY <1>t DEF TypeAnswers
<1>1. TypeAnswers'
  <2>1. cpc' \in [Callers -> CancelPc] BY <1>t DEF TypeAnswers, CancelPc
  <2>2. target' \in [Callers -> Requests \cup {None}] BY <1>t DEF TypeAnswers
  <2> QED BY <2>1, <2>2, <1>t DEF TypeAnswers, Forward
<1>2. VoicesGiven' BY DEF AnswerInv, VoicesGiven, Forward
<1>3. RecordsAreEnds' BY DEF AnswerInv, RecordsAreEnds, Forward
<1>4. CancelsAim' BY <1>0 DEF AnswerInv, CancelsAim
<1>5. CallersBegin'
  <2> SUFFICES ASSUME NEW o \in Controls, opc'[o] = "idle" PROVE cpc'[o] = "idle"
    BY DEF CallersBegin
  <2>1. o \in Operations /\ o \in Callers BY DEF Operations, Callers
  <2>2. opc[o] = "idle" BY <2>1 DEF Forward
  <2>3. cpc[o] = "idle" BY <2>2 DEF AnswerInv, CallersBegin
  <2> QED BY <2>1, <2>3, <1>0
<1>6. AnswersHold'
  <2> SUFFICES ASSUME NEW x \in Callers, result[x] = TRUE
               PROVE  cpc'[x] = "done" /\ opc'[target'[x]] \in Over
    BY DEF AnswersHold, AnswerHolds
  <2>1. cpc[x] = "done" /\ opc[target[x]] \in Over BY DEF AnswerInv, AnswersHold, AnswerHolds
  <2>2. target[x] \in Requests /\ x # c BY <2>1 DEF AnswerInv, CancelsAim
  <2> QED BY <2>1, <2>2, <1>0 DEF Forward
<1> QED BY <1>1, <1>2, <1>3, <1>4, <1>5, <1>6 DEF AnswerInv

\* A call of cancel goes on.
LEMMA CancelAnswers == ASSUME AnswerInv, NEW c \in Callers, CancelStep(c) PROVE AnswerInv'
<1>t. TypeAnswers BY DEF AnswerInv
<1>0. /\ UNCHANGED <<opc, voice, got, target>> /\ cpc[c] \notin {"idle", "done"}
      /\ \E place \in CancelPc \ {"idle"} : cpc' = [cpc EXCEPT ![c] = place]
  BY DEF CancelStep, CancelStart, CancelSend, CancelNoWorker, CancelPop, CancelStop,
         operation, CancelAt, Answer, CancelPc
<1>r. target[c] \in Requests BY <1>0 DEF AnswerInv, CancelsAim
<1>1. \/ UNCHANGED statuses
      \/ statuses' = [statuses EXCEPT ![target[c]] = None]
  BY DEF CancelStep, CancelStart, CancelSend, CancelNoWorker, CancelPop, CancelStop,
         adapter, Forget
<1>2. \/ UNCHANGED result
      \/ /\ cpc' = [cpc EXCEPT ![c] = "done"]
         /\ \E ok \in BOOLEAN : /\ result' = [result EXCEPT ![c] = ok]
                                /\ ok = TRUE => statuses[target[c]] # None
  BY DEF CancelStep, CancelStart, CancelSend, CancelNoWorker, CancelPop, CancelStop,
         Answer, CancelAt
<1>p. PICK place \in CancelPc \ {"idle"} : cpc' = [cpc EXCEPT ![c] = place] BY <1>0
<1>q. cpc'[c] = place /\ \A x \in Callers : x # c => cpc'[x] = cpc[x]
  BY <1>p, <1>t DEF TypeAnswers
<1>3. TypeAnswers'
  <2>1. cpc' \in [Callers -> CancelPc] BY <1>p, <1>t DEF TypeAnswers
  <2>2. statuses' \in [Requests -> {"cancelled", "already_done", None}]
    BY <1>1, <1>r, <1>t DEF TypeAnswers
  <2>3. result' \in [Callers -> BOOLEAN \cup {None}] BY <1>2, <1>t DEF TypeAnswers
  <2> QED BY <2>1, <2>2, <2>3, <1>0, <1>t DEF TypeAnswers
<1>4. VoicesGiven' BY <1>0 DEF AnswerInv, VoicesGiven
<1>5. RecordsAreEnds' BY <1>0, <1>1, <1>t DEF AnswerInv, RecordsAreEnds, TypeAnswers
<1>6. CancelsAim' BY <1>0, <1>q, <1>r DEF AnswerInv, CancelsAim
<1>7. CallersBegin'
  <2> SUFFICES ASSUME NEW o \in Controls, opc[o] = "idle" PROVE cpc'[o] = "idle"
    BY <1>0 DEF CallersBegin
  <2>1. o \in Callers /\ cpc[o] = "idle" BY DEF AnswerInv, CallersBegin, Callers
  <2> QED BY <2>1, <1>0, <1>q
<1>8. AnswersHold'
  <2> SUFFICES ASSUME NEW x \in Callers, result'[x] = TRUE
               PROVE  cpc'[x] = "done" /\ opc[target[x]] \in Over
    BY <1>0 DEF AnswersHold, AnswerHolds
  <2>1. CASE result[x] = TRUE
    <3>1. cpc[x] = "done" /\ opc[target[x]] \in Over
      BY <2>1 DEF AnswerInv, AnswersHold, AnswerHolds
    <3> QED BY <3>1, <1>0, <1>q
  <2>2. CASE result[x] # TRUE
    <3>1. PICK ok \in BOOLEAN : /\ result' = [result EXCEPT ![c] = ok]
                                /\ ok = TRUE => statuses[target[c]] # None
                                /\ cpc' = [cpc EXCEPT ![c] = "done"]
      BY <2>2, <1>2
    <3>2. x = c /\ ok = TRUE BY <2>2, <3>1, <1>t DEF TypeAnswers
    <3>3. opc[target[c]] \in Over BY <3>1, <3>2, <1>r DEF AnswerInv, RecordsAreEnds
    <3> QED BY <3>1, <3>2, <3>3, <1>t DEF TypeAnswers
  <2> QED BY <2>1, <2>2
<1> QED BY <1>3, <1>4, <1>5, <1>6, <1>7, <1>8 DEF AnswerInv

LEMMA AnswersKept == ASSUME WorkInv, PipeInv, AnswerInv, [Next]_vars PROVE AnswerInv'
<1>t. TypeAnswers /\ RecordsAreEnds BY DEF AnswerInv
<1>f. Forward BY <1>t, NextForward DEF TypeAnswers
<1>k. ASSUME UNCHANGED cancellation, UNCHANGED statuses PROVE AnswerInv'
  <2>1. RecordsAreEnds' BY <1>k, <1>f, <1>t DEF RecordsAreEnds, Forward
  <2>2. statuses' \in [Requests -> {"cancelled", "already_done", None}]
    BY <1>k, <1>t DEF TypeAnswers
  <2> QED BY <2>1, <2>2, <1>f, <1>k, ForwardKeeps
<1>1. ASSUME NEW r \in Requests, NEW v \in Voices, BeginStream(r, v) PROVE AnswerInv'
  BY <1>1, <1>k DEF BeginStream, adapter
<1>2. ASSUME NEW o \in Controls, NEW v \in Voices, NEW k \in Does[o], BeginControl(o, k, v)
      PROVE  AnswerInv'
  <2>1. CASE UNCHANGED cancellation BY <1>2, <2>1, <1>k DEF BeginControl, adapter
  <2>2. CASE /\ active # None /\ At(o, "cancelling")
             /\ target' = [target EXCEPT ![o] = active]
             /\ cpc' = [cpc EXCEPT ![o] = "start"]
             /\ UNCHANGED result
    <3>1. o \in Callers /\ o \in Operations BY DEF Callers, Operations
    <3>2. active \in Requests BY <2>2 DEF WorkInv, TypeWork
    <3>3. opc[o] = "idle" /\ UNCHANGED statuses BY <1>2 DEF BeginControl, adapter
    <3>4. cpc[o] = "idle" BY <3>3 DEF AnswerInv, CallersBegin
    <3>5. opc'[o] # "idle" BY <2>2, <3>1 DEF At, WorkInv, TypeWork
    <3> QED BY <2>2, <3>1, <3>2, <3>3, <3>4, <3>5, <1>f, AimKeeps
  <2> QED BY <1>2, <2>1, <2>2 DEF BeginControl
<1>3. ASSUME NEW c \in Cancels, NEW r \in Requests, CancelBegin(c, r) PROVE AnswerInv'
  <2>1. c \in Callers /\ c \notin Controls BY NameAssumption DEF Callers
  <2>2. /\ cpc[c] = "idle" /\ cpc' = [cpc EXCEPT ![c] = "start"]
        /\ target' = [target EXCEPT ![c] = r] /\ UNCHANGED <<statuses, result>>
    BY <1>3 DEF CancelBegin, CancelAt, adapter
  <2> QED BY <2>1, <2>2, <1>f, AimKeeps
<1>4. ASSUME NEW c \in Callers, CancelStep(c) PROVE AnswerInv'
  BY <1>4, CancelAnswers
<1>5. ASSUME NEW i \in Workers, WorkerStep(i) \/ Fault(i) \/ Reap(i) PROVE AnswerInv'
  <2>1. UNCHANGED <<adapter, cancellation>>
    BY <1>5 DEF WorkerStep, Fault, Reap, ReadLine, DispatchLoad, DispatchPrewarm, DispatchGenerate,
       DispatchInvalidate, DispatchUnload, GenerateChunk, GenerateEnd, Became
  <2> QED BY <2>1, <1>k DEF adapter
<1>6. CASE UNCHANGED vars BY <1>6, <1>k DEF vars, adapter
<1>7. ASSUME NEW r \in Requests, StreamStep(r) PROVE AnswerInv'
  <2>1. ASSUME NEW e \in Ends, ReadTerminal(r, e) PROVE AnswerInv'
    <3>1. r \in Operations BY DEF Operations
    <3>2. PICK s \in {"cancelled", "already_done"} : statuses' = [statuses EXCEPT ![r] = s]
      BY <2>1 DEF ReadTerminal
    <3>3. statuses' \in [Requests -> {"cancelled", "already_done", None}]
      BY <3>2, <1>t DEF TypeAnswers
    <3>4. opc'[r] = "closing" BY <2>1, <3>1 DEF ReadTerminal, At, WorkInv, TypeWork
    <3>5. RecordsAreEnds'
      BY <3>2, <3>4, <1>f, <1>t DEF RecordsAreEnds, Forward, TypeAnswers, Over
    <3>6. UNCHANGED cancellation BY <2>1 DEF ReadTerminal
    <3> QED BY <3>3, <3>5, <3>6, <1>f, ForwardKeeps
  <2>2. CASE \/ Register(r) \/ SendGenerate(r) \/ SpawnFails(r) \/ ReadChunk(r)
             \/ Consume(r) \/ Finally(r) \/ Abandon(r) \/ Close(r)
    <3>1. UNCHANGED cancellation
      BY <2>2 DEF Register, SendGenerate, SpawnFails, ReadChunk, Consume, Finally, Abandon, Close,
         Issue
    <3>2. UNCHANGED statuses
      BY <2>2 DEF Register, SendGenerate, SpawnFails, ReadChunk, Consume, Finally, Abandon, Close,
         Issue, adapter
    <3> QED BY <3>1, <3>2, <1>k
  <2> QED BY <1>7, <2>1, <2>2 DEF StreamStep
<1>8. ASSUME NEW o \in Operations, OperationStep(o) PROVE AnswerInv'
  <2>1. UNCHANGED cancellation
    BY <1>8 DEF OperationStep, Lock, SendLoad, SendPrewarm, NothingToDo, StopAtOnce, Capture,
       NoQueue, ReadFails, ReadLoaded, ReadLoadFailed, ReadPrompt, Stop, Leave, Issue
  <2>2. UNCHANGED statuses
    BY <1>8 DEF OperationStep, Lock, SendLoad, SendPrewarm, NothingToDo, StopAtOnce, Capture,
       NoQueue, ReadFails, ReadLoaded, ReadLoadFailed, ReadPrompt, Stop, Leave, Issue, adapter
  <2> QED BY <2>1, <2>2, <1>k
<1>9. ASSUME NEW o \in Controls, ControlStep(o) PROVE AnswerInv'
  <2>1. UNCHANGED cancellation
    BY <1>9 DEF ControlStep, CancelledFirst, SendInvalidate, SendUnload, ReadUnloaded, Issue
  <2>2. UNCHANGED statuses
    BY <1>9 DEF ControlStep, CancelledFirst, SendInvalidate, SendUnload, ReadUnloaded, Issue,
       adapter
  <2> QED BY <2>1, <2>2, <1>k
<1> QED BY <1>1, <1>2, <1>3, <1>4, <1>5, <1>6, <1>7, <1>8, <1>9 DEF Next, Calls

\* A stream that stops the worker keeps the operation lock until the process is gone.
KillersWork == \A i \in Workers : killer[i] \in Requests => opc[killer[i]] \notin Outside

\* A step of one operation, which waits for no process to end.
StepsAlone(o) ==
    /\ Free(o) /\ \A x \in Operations : x # o => opc'[x] = opc[x]
    /\ UNCHANGED killer \/ (StopWorker(o) /\ opc'[o] \notin Outside)

LEMMA AloneKeeps ==
  ASSUME TypePipes, KillersWork, NEW o \in Operations, StepsAlone(o) PROVE KillersWork'
<1> SUFFICES ASSUME NEW i \in Workers, killer'[i] \in Requests PROVE opc'[killer'[i]] \notin Outside
  BY DEF KillersWork
<1>1. CASE killer'[i] = killer[i]
  <2>1. killer[i] # o BY DEF StepsAlone, Free
  <2>2. killer[i] \in Operations BY <1>1 DEF Operations
  <2> QED BY <1>1, <2>1, <2>2 DEF StepsAlone, KillersWork
<1>2. CASE killer'[i] # killer[i]
  <2>1. StopWorker(o) /\ opc'[o] \notin Outside BY <1>2 DEF StepsAlone
  <2>2. killer'[i] = o BY <1>2, <2>1 DEF StopWorker
  <2> QED BY <2>1, <2>2
<1> QED BY <1>1, <1>2

LEMMA KillersKept == ASSUME WorkInv, PipeInv, KillersWork, [Next]_vars PROVE KillersWork'
<1> USE NameAssumption
<1>t. opc \in [Operations -> OpPc] /\ TypePipes /\ (\A r \in Requests : r \in Operations)
  BY DEF WorkInv, TypeWork, PipeInv, Operations
<1>k. ASSUME UNCHANGED killer, \A x \in Requests : opc[x] # "idle" => opc'[x] = opc[x]
      PROVE  KillersWork'
  BY <1>k DEF KillersWork, Outside
<1>1. ASSUME NEW r \in Requests, NEW v \in Voices, BeginStream(r, v) PROVE KillersWork'
  BY <1>1, <1>k, <1>t DEF BeginStream, At
<1>2. ASSUME NEW o \in Controls, NEW v \in Voices, NEW k \in Does[o], BeginControl(o, k, v)
      PROVE  KillersWork'
  <2>1. PICK place : opc' = [opc EXCEPT ![o] = place] BY <1>2 DEF BeginControl, At
  <2>2. \A x \in Requests : x # o OBVIOUS
  <2> QED BY <2>1, <2>2, <1>2, <1>k, <1>t DEF BeginControl
<1>3. ASSUME NEW c \in Cancels, NEW r \in Requests, CancelBegin(c, r) PROVE KillersWork'
  BY <1>3, <1>k DEF CancelBegin, operation
<1>4. ASSUME NEW r \in Requests, Free(r), StreamStep(r) PROVE KillersWork'
  <2>0. r \in Operations BY <1>t
  <2>1. CASE \/ Register(r) \/ SendGenerate(r) \/ ReadChunk(r) \/ Consume(r) \/ Finally(r)
             \/ Abandon(r) \/ Close(r)
    <3>1. UNCHANGED killer
      BY <2>1 DEF Register, SendGenerate, ReadChunk, Consume, Finally, Abandon, Close, Issue
    <3>2. opc' = opc \/ \E place : opc' = [opc EXCEPT ![r] = place]
      BY <2>1 DEF Register, SendGenerate, ReadChunk, Consume, Finally, Abandon, Close, Issue, At,
         Return
    <3>3. \A x \in Operations : x # r => opc'[x] = opc[x] BY <3>2, <1>t
    <3> QED BY <2>0, <3>1, <3>3, <1>4, <1>t, AloneKeeps DEF StepsAlone
  <2>2. CASE SpawnFails(r)
    <3>1. PICK place \in {"finally", "stopping"} : opc' = [opc EXCEPT ![r] = place]
      BY <2>2 DEF SpawnFails, At
    <3>2. /\ \A x \in Operations : x # r => opc'[x] = opc[x]
          /\ opc'[r] \notin Outside
      BY <3>1, <2>0, <1>t DEF Outside
    <3>3. StopWorker(r) BY <2>2 DEF SpawnFails
    <3> QED BY <2>0, <3>2, <3>3, <1>4, <1>t, AloneKeeps DEF StepsAlone
  <2>3. ASSUME NEW e \in Ends, ReadTerminal(r, e) PROVE KillersWork'
    <3>1. opc' = [opc EXCEPT ![r] = "closing"] BY <2>3 DEF ReadTerminal, At
    <3>2. /\ \A x \in Operations : x # r => opc'[x] = opc[x]
          /\ opc'[r] \notin Outside
      BY <3>1, <2>0, <1>t DEF Outside
    <3>3. StopWorker(r) \/ UNCHANGED killer BY <2>3 DEF ReadTerminal
    <3> QED BY <2>0, <3>2, <3>3, <1>4, <1>t, AloneKeeps DEF StepsAlone
  <2> QED BY <2>1, <2>2, <2>3, <1>4 DEF StreamStep
<1>5. ASSUME NEW o \in Operations, Free(o), OperationStep(o) PROVE KillersWork'
  <2>1. CASE \/ Lock(o) \/ SendLoad(o) \/ SendPrewarm(o) \/ NothingToDo(o) \/ Capture(o)
             \/ NoQueue(o) \/ ReadLoaded(o) \/ ReadPrompt(o) \/ Leave(o)
    <3>1. UNCHANGED killer
      BY <2>1 DEF Lock, SendLoad, SendPrewarm, NothingToDo, Capture, NoQueue, ReadLoaded,
         ReadPrompt, Leave, Issue
    <3>2. opc' = opc \/ \E place : opc' = [opc EXCEPT ![o] = place]
      BY <2>1 DEF Lock, SendLoad, SendPrewarm, NothingToDo, Capture, NoQueue, ReadLoaded,
         ReadPrompt, Leave, Issue, At, Return, Raise
    <3>3. \A x \in Operations : x # o => opc'[x] = opc[x] BY <3>2, <1>t
    <3> QED BY <3>1, <3>3, <1>5, <1>t, AloneKeeps DEF StepsAlone
  <2>2. CASE StopAtOnce(o) \/ ReadFails(o) \/ ReadLoadFailed(o) \/ Stop(o)
    <3>1. PICK place \in {"leaving", "finally", "stopping", "closing"} :
             opc' = [opc EXCEPT ![o] = place]
      BY <2>2 DEF StopAtOnce, ReadFails, ReadLoadFailed, Stop, Raise, At
    <3>2. /\ \A x \in Operations : x # o => opc'[x] = opc[x]
          /\ opc'[o] \notin Outside
      BY <3>1, <1>t DEF Outside
    <3>3. StopWorker(o) BY <2>2 DEF StopAtOnce, ReadFails, ReadLoadFailed, Stop
    <3> QED BY <3>2, <3>3, <1>5, <1>t, AloneKeeps DEF StepsAlone
  <2> QED BY <2>1, <2>2, <1>5 DEF OperationStep
<1>6. ASSUME NEW o \in Controls, ControlStep(o) PROVE KillersWork'
  <2>1. UNCHANGED killer
    BY <1>6 DEF ControlStep, CancelledFirst, SendInvalidate, SendUnload, ReadUnloaded, Issue
  <2>2. \E place : opc' = [opc EXCEPT ![o] = place]
    BY <1>6 DEF ControlStep, CancelledFirst, SendInvalidate, SendUnload, ReadUnloaded, Issue, At
  <2>3. \A x \in Requests : x # o OBVIOUS
  <2> QED BY <2>1, <2>2, <2>3, <1>k, <1>t
<1>7. ASSUME NEW c \in Callers, CancelStep(c) PROVE KillersWork'
  <2>1. UNCHANGED opc
    BY <1>7 DEF CancelStep, CancelStart, CancelSend, CancelNoWorker, CancelPop, CancelStop, operation
  <2>2. c \notin Requests BY DEF Callers
  <2>3. UNCHANGED killer \/ StopWorker(c)
    BY <1>7 DEF CancelStep, CancelStart, CancelSend, CancelNoWorker, CancelPop, CancelStop
  <2>4. \A i \in Workers : killer'[i] \in {killer[i], c} BY <2>3 DEF StopWorker
  <2> QED BY <2>1, <2>2, <2>4 DEF KillersWork
<1>8. ASSUME NEW i \in Workers, WorkerStep(i) \/ Fault(i) PROVE KillersWork'
  <2>1. UNCHANGED <<operation, killer>> BY <1>8, <1>t, WorkerActs DEF PipeInv
  <2> QED BY <2>1, <1>k DEF operation
<1>9. ASSUME NEW i \in Workers, Reap(i) PROVE KillersWork'
  <2>1. UNCHANGED opc /\ killer' = [killer EXCEPT ![i] = None] BY <1>9 DEF Reap, operation
  <2>2. \A j \in Workers : killer'[j] \in {killer[j], None} BY <2>1, <1>t DEF TypePipes
  <2> QED BY <2>1, <2>2 DEF KillersWork
<1>10. CASE UNCHANGED vars BY <1>10, <1>k DEF vars, operation
<1> QED BY <1>1, <1>2, <1>3, <1>4, <1>5, <1>6, <1>7, <1>8, <1>9, <1>10 DEF Next, Calls

\* The prompt that an admitted invalidation found is gone when it ends, or its process is
\* being ended by a cancel.
LEMMA EvictionEnds ==
  ASSUME WorkInv, PipeInv, PipeInv', AnswerInv, KillersWork, Forward, NEW o \in Controls,
         kind[o] = "invalidate", opc[o] \in {"entered", "invalidating", "leaving"},
         opc'[o] = "done", NEW i \in Workers, w'[i].life = "alive", w'[i].prompt = voice[o]
  PROVE  killer'[i] \in Callers \ {o}
<1>0. o \in Operations BY DEF Operations
<1>t. TypePipes /\ OneLives /\ AllSound /\ EachServed /\ LoadedIsKnown /\ PromptIsKnown
      /\ LeavingIsClean
  BY DEF PipeInv
<1>v. voice[o] # None
  <2>1. voice[o] \in Voices BY <1>0 DEF AnswerInv, VoicesGiven
  <2> QED BY <2>1, NameAssumption
<1>r. Resolves(o) BY DEF Forward
<1>k. UNCHANGED <<killer, worker>> BY <1>r DEF Resolves, NothingToDo, ReadPrompt, Leave
<1>e. opc[o] \notin Outside BY DEF Outside
<1> SUFFICES i # worker
  <2> SUFFICES ASSUME i # worker PROVE killer[i] \in Callers \ {o}
    BY <1>k
  <2>1. killer[i] # None BY <1>k DEF PipeInv, OneLives
  <2>2. killer[i] # o BY <1>r DEF Resolves, Free
  <2>3. killer[i] \notin Requests
    <3> SUFFICES ASSUME killer[i] \in Requests PROVE FALSE
      OBVIOUS
    <3>1. killer[i] \in Operations /\ opc[killer[i]] \notin Outside BY DEF KillersWork, Operations
    <3> QED BY <3>1, <2>2, <1>0, <1>e DEF WorkInv, WorkersLock
  <2>4. killer[i] \in Threads BY <2>1, <1>t DEF TypePipes
  <2> QED BY <2>2, <2>3, <2>4 DEF Threads, Operations, Callers
<1> SUFFICES ASSUME i = worker PROVE FALSE
  OBVIOUS
<1>i. i = worker' /\ i # 0 BY <1>k DEF Workers
<1>1. CASE NothingToDo(o)
  <2>1. /\ opc[o] = "entered" /\ ~SendsInvalidate(o) /\ UNCHANGED <<worker, w>>
    BY <1>1 DEF NothingToDo, SendsLoad
  <2>2. selected # voice[o] \/ ~loaded BY <2>1 DEF SendsInvalidate
  <2>3. Running BY <2>1, <1>i DEF Running
  <2>4. \A x \in Operations : opc[x] # "loading" /\ opc[x] # "prewarming"
    BY <2>1, <1>0, <1>e, OneEngaged DEF Engaged, Awaiting
  <2>5. PromptFits(w[worker]) BY <2>1, <1>i, <1>t DEF AllSound, Sound
  <2>6. w[worker].prompt # None => w[worker].prompt = selected /\ loaded
    BY <2>3, <2>4, <2>5, <1>t DEF LoadedIsKnown, PromptIsKnown, PromptFits
  <2> QED BY <2>1, <2>2, <2>6, <1>i, <1>v
<1>2. CASE ReadPrompt(o)
  <2>1. PICK e \in {"prompt_ready", "prompt_failed", "invalidated"} : Reads(o, e)
    BY <1>2 DEF ReadPrompt
  <2>2. /\ Took(o) /\ UNCHANGED worker BY <1>2 DEF ReadPrompt
  <2>3. e = "invalidated" /\ src[o] # 0 /\ w[src[o]].out # <<>> /\ Head(w[src[o]].out).event = e
        /\ opc[o] = "invalidating"
    BY <2>1, <1>0, ReadFinds
  <2> DEFINE s == src[o]
             p == w[s]
             t == Tail(p.out)
             q == [p EXCEPT !.out = t]
  <2>4. s \in Workers BY <2>3, <1>0, <1>t DEF TypePipes, Workers
  <2>5. Sound(p) BY <2>4, <1>t DEF AllSound
  <2>6. LosesLine(p, q) BY <2>3 DEF LosesLine
  <2>7. q.prompt = None
    <3> HIDE DEF p, q
    <3> QED BY <2>3, <2>5, <2>6, LineTaken DEF p
  <2>8. w' = [w EXCEPT ![s].out = t] BY <2>2 DEF Took
  <2> HIDE DEF s, t
  <2>9. w'[s] = q /\ \A x \in Workers : x # s => w'[x] = w[x]
    BY <2>4, <2>8, <1>t DEF TypePipes
  <2>10. CASE i = s BY <2>7, <2>9, <2>10, <1>v
  <2>11. CASE i # s
    <3>1. w'[i] = w[i] /\ worker = i BY <2>2, <2>9, <2>11, <1>i
    <3>2. Running BY <3>1, <1>i DEF Running
    <3>3. ~w[i].runtime
      BY <2>3, <2>11, <3>1, <3>2, <1>0, <1>t DEF EachServed, Engaged, Awaiting, s
    <3>4. PromptFits(w[i]) BY <1>t DEF AllSound, Sound
    <3> QED BY <3>1, <3>3, <3>4, <1>v DEF PromptFits
  <2> QED BY <2>10, <2>11
<1>3. CASE Leave(o)
  <2>1. opc[o] = "leaving" /\ UNCHANGED <<worker, w>> BY <1>3 DEF Leave
  <2>2. Running BY <2>1, <1>i DEF Running
  <2> QED BY <2>1, <2>2, <1>0, <1>i, <1>v, <1>t DEF LeavingIsClean
<1> QED BY <1>1, <1>2, <1>3, <1>r DEF Resolves

\* A return value is the truth.  Once cancel() has returned True no chunk of its request is
\* yielded: True is only said of a recorded end, and a stream records one when it is over.
\* When an admitted invalidate() is over no process holds the voice's prompt, but one that a
\* cancel is ending without the lock: what the adapter believes of the process covers what it
\* holds, whoever spawned it, and whoever has the lock waits for the process that it stops.
THEOREM TheReturnsAreHonest == Spec => ReturnsAreHonest
<1> DEFINE Inv == WorkInv /\ PipeInv /\ AnswerInv /\ KillersWork
           Silent == \A c \in Callers : result[c] = TRUE => got'[target[c]] = got[target[c]]
           Evicted == \A o \in Controls :
               kind[o] = "invalidate" /\ opc[o] \in {"entered", "invalidating", "leaving"}
                 /\ opc'[o] = "done"
                 => \A i \in Workers :
                       w'[i].life = "alive" /\ w'[i].prompt = voice[o]
                         => killer'[i] \in Callers \ {o}
<1>1. Init => Inv
  <2>1. Init => KillersWork BY NameAssumption DEF Init, KillersWork
  <2> QED BY <2>1, ExchangeKept, AnswersAtStart
<1>2. Inv /\ [Next]_vars => Inv' BY ExchangeKept, AnswersKept, KillersKept
<1>3. Inv /\ [Next]_vars => Forward BY NextForward DEF AnswerInv, TypeAnswers
<1>4. Inv /\ [Next]_vars => Silent
  <2> SUFFICES ASSUME Inv, [Next]_vars, NEW c \in Callers, result[c] = TRUE
               PROVE  got'[target[c]] = got[target[c]]
    OBVIOUS
  <2>1. cpc[c] = "done" /\ opc[target[c]] \in Over BY DEF AnswerInv, AnswersHold, AnswerHolds
  <2>2. target[c] \in Requests BY <2>1 DEF AnswerInv, CancelsAim
  <2> QED BY <2>1, <2>2, <1>3 DEF Forward
<1>5. Inv /\ [Next]_vars => Evicted BY <1>2, <1>3, EvictionEnds
<1>6. Spec => []Inv
  <2> HIDE DEF Inv
  <2> QED BY <1>1, <1>2, PTL DEF Spec
<1>7. Inv /\ [Next]_vars => [Silent]_vars /\ [Evicted]_vars BY <1>4, <1>5
<1>8. Spec => [][Silent]_vars /\ [][Evicted]_vars
  <2> HIDE DEF Inv, Silent, Evicted
  <2> QED BY <1>6, <1>7, PTL DEF Spec
<1> QED BY <1>8 DEF ReturnsAreHonest, CancelMeansSilent, EvictionIsComplete

-----------------------------------------------------------------------------
(* What a process was asked and what it said, counted.                      *)

\* A stream whose generation was not written to any process yet.
Early == {"idle", "locking", "entered", "loading", "ready", "registered"}

Asked(s, r) == \E n \in DOMAIN s : s[n].op = "generate" /\ s[n].req = r
Spoken(p, r) == {n \in DOMAIN p.out : p.out[n] = Event("chunk", r)}

\* The process knows nothing of the generation of r but that it is cancelled.
Unmet(p, r) ==
    /\ ~Asked(p.stdin, r) /\ ~Asked(p.commands, r)
    /\ p.job # r /\ r \notin p.completed /\ Spoken(p, r) = {}

\* A generation is asked of a process once, and cancelled by its name.
NamesRequest(cmd) == cmd.op \in {"cancel", "generate"} => cmd.req \in Requests
Plain(p) ==
    /\ p \in Process
    /\ \A n \in DOMAIN p.stdin : NamesRequest(p.stdin[n])
    /\ \A n \in DOMAIN p.commands : NamesRequest(p.commands[n])
    /\ \A r \in Requests : Asked(p.stdin, r) \/ Asked(p.commands, r) => r \notin p.completed

\* n chunks were taken of r's generation, and with those still in the pipe they are not
\* more than it made.
Budgeted(p, r, n) ==
    /\ n + Cardinality(Spoken(p, r)) <= MaxChunks
    /\ p.job = r => n + Cardinality(Spoken(p, r)) <= p.chunks
    /\ Asked(p.stdin, r) \/ Asked(p.commands, r) => n = 0

AllPlain == \A i \in Workers : Plain(w[i])
AllBudgeted == \A i \in Workers, r \in Requests : Budgeted(w[i], r, got[r])
OneHome == \A i, j \in Workers, r \in Requests : Unmet(w[i], r) \/ Unmet(w[j], r) \/ i = j
EarlyUnmet ==
    \A r \in Requests : opc[r] \in Early => got[r] = 0 /\ \A i \in Workers : Unmet(w[i], r)
TypeFlags ==
    /\ loaded \in BOOLEAN /\ selected \in Voices \cup {None} /\ events \in 0..MaxEvents
MeterInv == TypeFlags /\ AllPlain /\ AllBudgeted /\ OneHome /\ EarlyUnmet

\* The fields of a process.
LEMMA PlainParts ==
  ASSUME NEW p, Plain(p)
  PROVE  /\ p \in Process
         /\ p.stdin \in Seq(Commands) /\ p.commands \in Seq(Commands) /\ p.out \in Seq(Events)
         /\ p.job \in Requests \cup {None} /\ p.chunks \in 0..MaxChunks /\ p.cancel \in BOOLEAN
         /\ p.pending \in SUBSET Requests /\ p.completed \in SUBSET Requests
         /\ p.heard \in SUBSET Requests /\ p.forgotten \in SUBSET Requests
         /\ p.prompt \in Voices \cup {None} /\ p.runtime \in BOOLEAN
  BY DEF Plain, Process

LEMMA SpokenCounts ==
  ASSUME NEW p, p.out \in Seq(Events), NEW r
  PROVE  IsFiniteSet(Spoken(p, r)) /\ Cardinality(Spoken(p, r)) \in Nat
<1>1. DOMAIN p.out = 1..Len(p.out) /\ Len(p.out) \in Nat BY LenProperties
<1>2. IsFiniteSet(1..Len(p.out)) BY <1>1, FS_Interval
<1>3. Spoken(p, r) \in SUBSET (1..Len(p.out)) BY <1>1 DEF Spoken
<1> QED BY <1>2, <1>3, FS_Subset, FS_CardinalityType

\* A line more.
LEMMA SpokenLater ==
  ASSUME NEW p, NEW q, NEW x \in Events, p.out \in Seq(Events), q.out = Append(p.out, x), NEW r
  PROVE  IF x = Event("chunk", r)
         THEN Cardinality(Spoken(q, r)) = Cardinality(Spoken(p, r)) + 1
         ELSE Spoken(q, r) = Spoken(p, r)
<1> DEFINE k == Len(p.out)
<1>1. /\ k \in Nat /\ DOMAIN p.out = 1..k /\ DOMAIN q.out = 1..(k + 1)
      /\ \A n \in 1..k : q.out[n] = p.out[n]
      /\ q.out[k + 1] = x
  BY AppendProperties, LenProperties
<1>2. k + 1 \notin Spoken(p, r) BY <1>1 DEF Spoken
<1>3. Spoken(q, r) = IF x = Event("chunk", r) THEN Spoken(p, r) \cup {k + 1} ELSE Spoken(p, r)
  BY <1>1 DEF Spoken
<1> HIDE DEF k
<1> QED BY <1>2, <1>3, SpokenCounts, FS_AddElement

\* A line less.
LEMMA SpokenTaken ==
  ASSUME NEW p, NEW q, p.out \in Seq(Events), p.out # <<>>, q.out = Tail(p.out), NEW r
  PROVE  Cardinality(Spoken(q, r)) =
            IF Head(p.out) = Event("chunk", r) THEN Cardinality(Spoken(p, r)) - 1
            ELSE Cardinality(Spoken(p, r))
<1> DEFINE k == Len(p.out)
           A == Spoken(q, r)
           B == Spoken(p, r) \ {1}
           f == [n \in A |-> n + 1]
<1>1. /\ k \in Nat /\ k # 0 /\ DOMAIN p.out = 1..k
      /\ Tail(p.out) \in Seq(Events) /\ Len(Tail(p.out)) = k - 1 /\ Head(p.out) = p.out[1]
      /\ \A n \in 1..Len(Tail(p.out)) : Tail(p.out)[n] = p.out[n + 1]
  BY LenProperties, EmptySeq, HeadTailProperties
<1>2. DOMAIN q.out = 1..(k - 1) /\ q.out \in Seq(Events)
      /\ \A n \in 1..(k - 1) : q.out[n] = p.out[n + 1]
  BY <1>1, LenProperties
<1>3. A \subseteq 1..(k - 1) /\ B \subseteq 2..k
  BY <1>1, <1>2 DEF Spoken
<1>4. \A n \in 1..(k - 1) : n \in A <=> n + 1 \in B
  BY <1>1, <1>2 DEF Spoken
<1> HIDE DEF k, A, B
<1>5. f \in [A -> B] /\ \A m, n \in A : f[m] = f[n] => m = n
  BY <1>1, <1>3, <1>4
<1>6. \A b \in B : \E a \in A : f[a] = b
  <2> TAKE b \in B
  <2>1. b - 1 \in 1..(k - 1) /\ (b - 1) + 1 = b BY <1>1, <1>3
  <2>2. b - 1 \in A BY <2>1, <1>4
  <2> QED BY <2>1, <2>2
<1>7. ExistsBijection(A, B)
  <2>1. f \in Bijection(A, B)
    BY <1>5, <1>6 DEF Bijection, Injection, Surjection, IsInjective
  <2> QED BY <2>1 DEF ExistsBijection
<1>8. IsFiniteSet(A) BY <1>2, SpokenCounts DEF A
<1>9. Cardinality(A) = Cardinality(B) BY <1>7, <1>8, FS_Bijection
<1>10. 1 \in Spoken(p, r) <=> Head(p.out) = Event("chunk", r) BY <1>1 DEF Spoken
<1>11. Cardinality(B) = IF 1 \in Spoken(p, r) THEN Cardinality(Spoken(p, r)) - 1
                        ELSE Cardinality(Spoken(p, r))
  BY SpokenCounts, FS_RemoveElement DEF B
<1> QED BY <1>9, <1>10, <1>11 DEF A

\* What a step of the process does to these counts.
MeterActs(p, q) ==
    /\ Plain(q)
    /\ \A r \in Requests : Unmet(p, r) => Unmet(q, r)
    /\ \A r \in Requests, n \in Nat : Budgeted(p, r, n) => Budgeted(q, r, n)

\* It asks nothing more of itself and says nothing of a generation.
LEMMA MeterRests ==
  ASSUME NEW p, NEW q, Plain(p), q \in Process,
         \A n \in DOMAIN q.stdin : NamesRequest(q.stdin[n]),
         \A n \in DOMAIN q.commands : NamesRequest(q.commands[n]),
         \A r \in Requests : Asked(q.stdin, r) \/ Asked(q.commands, r)
                                => Asked(p.stdin, r) \/ Asked(p.commands, r),
         \A r \in Requests : Spoken(q, r) = Spoken(p, r),
         q.completed \subseteq p.completed,
         q.job = None \/ (q.job = p.job /\ q.chunks = p.chunks)
  PROVE  MeterActs(p, q)
<1>1. Plain(q) BY DEF Plain
<1>2. None \notin Requests BY NameAssumption
<1>3. \A r \in Requests : Unmet(p, r) => Unmet(q, r) BY <1>2 DEF Unmet
<1>4. \A r \in Requests, n \in Nat : Budgeted(p, r, n) => Budgeted(q, r, n)
  BY <1>2 DEF Budgeted
<1> QED BY <1>1, <1>3, <1>4 DEF MeterActs

\* A line is read: a cancel, or an order that is kept.
LEMMA MeterLine ==
  ASSUME NEW p, NEW q, Plain(p), q \in Process, p.stdin # <<>>, q.stdin = Tail(p.stdin),
         \/ q.commands = p.commands
         \/ q.commands = Append(p.commands, Head(p.stdin)),
         q.out = p.out, q.completed = p.completed, q.job = p.job, q.chunks = p.chunks
  PROVE  MeterActs(p, q)
<1>1. /\ 1 \in DOMAIN p.stdin /\ Head(p.stdin) = p.stdin[1] /\ Head(p.stdin) \in Commands
      /\ \A n \in DOMAIN q.stdin : n + 1 \in DOMAIN p.stdin /\ q.stdin[n] = p.stdin[n + 1]
  BY PlainParts, Taken
<1>2. \A n \in DOMAIN q.commands : \/ n \in DOMAIN p.commands /\ q.commands[n] = p.commands[n]
                                   \/ q.commands[n] = p.stdin[1]
  <2>1. CASE q.commands = p.commands BY <2>1
  <2>2. CASE q.commands = Append(p.commands, Head(p.stdin))
    BY <2>2, <1>1, PlainParts, Appended
  <2> QED BY <2>1, <2>2
<1>3. \A n \in DOMAIN q.stdin : NamesRequest(q.stdin[n]) BY <1>1 DEF Plain
<1>4. \A n \in DOMAIN q.commands : NamesRequest(q.commands[n]) BY <1>1, <1>2 DEF Plain
<1>5. \A r \in Requests : Asked(q.stdin, r) \/ Asked(q.commands, r)
                             => Asked(p.stdin, r) \/ Asked(p.commands, r)
  BY <1>1, <1>2 DEF Asked
<1>6. \A r \in Requests : Spoken(q, r) = Spoken(p, r) BY DEF Spoken
<1> QED BY <1>3, <1>4, <1>5, <1>6, MeterRests

\* Something is said that is not a chunk; perhaps an order is served or the process ends.
LEMMA MeterSays ==
  ASSUME NEW p, NEW q, Plain(p), q \in Process, NEW x \in Events, x.event # "chunk",
         q.out = Append(p.out, x) \/ q.out = p.out,
         q.stdin \in {p.stdin, <<>>},
         q.commands \in {p.commands, <<>>} \/ (p.commands # <<>> /\ q.commands = Tail(p.commands)),
         q.completed \subseteq p.completed,
         q.job = None \/ (q.job = p.job /\ q.chunks = p.chunks)
  PROVE  MeterActs(p, q)
<1>0. DOMAIN <<>> = {} OBVIOUS
<1>1. \A n \in DOMAIN q.commands : \E m \in DOMAIN p.commands : q.commands[n] = p.commands[m]
  <2>1. CASE q.commands \in {p.commands, <<>>} BY <2>1, <1>0
  <2>2. CASE p.commands # <<>> /\ q.commands = Tail(p.commands) BY <2>2, PlainParts, Taken
  <2> QED BY <2>1, <2>2
<1>2. \A n \in DOMAIN q.stdin : n \in DOMAIN p.stdin /\ q.stdin[n] = p.stdin[n] BY <1>0
<1>3. \A n \in DOMAIN q.stdin : NamesRequest(q.stdin[n]) BY <1>2 DEF Plain
<1>4. \A n \in DOMAIN q.commands : NamesRequest(q.commands[n]) BY <1>1 DEF Plain
<1>5. \A r \in Requests : Asked(q.stdin, r) \/ Asked(q.commands, r)
                             => Asked(p.stdin, r) \/ Asked(p.commands, r)
  BY <1>1, <1>2 DEF Asked
<1>6. \A r \in Requests : Spoken(q, r) = Spoken(p, r)
  <2>1. CASE q.out = p.out BY <2>1 DEF Spoken
  <2>2. CASE q.out = Append(p.out, x)
    <3>1. \A r \in Requests : x # Event("chunk", r) BY DEF Event
    <3>2. p.out \in Seq(Events) BY PlainParts
    <3> QED BY <3>1, <3>2, <2>2, SpokenLater
  <2> QED BY <2>1, <2>2
<1> QED BY <1>3, <1>4, <1>5, <1>6, MeterRests

\* A generation begins: it was asked for, and nothing else is.
LEMMA MeterStarts ==
  ASSUME NEW p, NEW q, Plain(p), OneOrder(p), q \in Process,
         p.commands # <<>>, Head(p.commands).op = "generate",
         q.stdin = p.stdin, q.commands = Tail(p.commands), q.out = p.out,
         q.completed = p.completed, q.job = Head(p.commands).req, q.chunks = 0
  PROVE  MeterActs(p, q) /\ q.job \notin q.completed
<1>1. /\ 1 \in DOMAIN p.commands /\ Head(p.commands) = p.commands[1] BY PlainParts, Taken
<1>2. q.commands = <<>> /\ OnlyCancels(p) /\ NoWord(p) BY DEF OneOrder
<1>3. DOMAIN <<>> = {} OBVIOUS
<1>4. \A n \in DOMAIN q.stdin : NamesRequest(q.stdin[n]) BY DEF Plain
<1>5. \A r \in Requests : ~Asked(q.stdin, r) /\ ~Asked(q.commands, r)
  BY <1>2, <1>3 DEF Asked, OnlyCancels
<1>6. Plain(q) BY <1>2, <1>3, <1>4, <1>5 DEF Plain
<1>7. Asked(p.commands, q.job) BY <1>1 DEF Asked
<1>8. q.job \in Requests BY <1>1 DEF Plain, NamesRequest
<1>9. q.job \notin q.completed BY <1>7, <1>8 DEF Plain
<1>10. \A r \in Requests : Spoken(q, r) = {} /\ Spoken(p, r) = {}
  BY <1>2 DEF Spoken, NoWord, Event
<1>11. \A r \in Requests : Unmet(p, r) => Unmet(q, r) BY <1>5, <1>7, <1>10 DEF Unmet
<1>12. Cardinality({}) = 0 BY FS_EmptySet
<1>13. ASSUME NEW r \in Requests, NEW n \in Nat, Budgeted(p, r, n) PROVE Budgeted(q, r, n)
  <2>0. Cardinality(Spoken(p, r)) = 0 /\ Cardinality(Spoken(q, r)) = 0 BY <1>10, <1>12
  <2>1. n <= MaxChunks BY <1>13, <2>0, BoundAssumption DEF Budgeted
  <2>2. q.job = r => n = 0 BY <1>13, <1>7 DEF Budgeted
  <2> QED BY <2>0, <2>1, <2>2, <1>5, <1>13, BoundAssumption DEF Budgeted
<1> QED BY <1>6, <1>9, <1>11, <1>13 DEF MeterActs

\* It makes a chunk.
LEMMA MeterChunk ==
  ASSUME NEW p, NEW q, Plain(p), OneOrder(p), q \in Process, p.job # None,
         p.chunks < MaxChunks, q.chunks = p.chunks + 1,
         q.out = Append(p.out, Event("chunk", p.job)),
         q.stdin = p.stdin, q.commands = p.commands, q.completed = p.completed, q.job = p.job
  PROVE  MeterActs(p, q)
<1>0. p.chunks \in Nat /\ MaxChunks \in Nat /\ p.out \in Seq(Events)
  BY PlainParts, BoundAssumption
<1>1. p.job \in Requests BY PlainParts
<1>2. Event("chunk", p.job) \in Events BY <1>1 DEF Event, Events, Operations
<1>3. \A r \in Requests : Event("chunk", p.job) = Event("chunk", r) <=> p.job = r BY DEF Event
<1>4. \A r \in Requests :
         IF p.job = r THEN Cardinality(Spoken(q, r)) = Cardinality(Spoken(p, r)) + 1
         ELSE Spoken(q, r) = Spoken(p, r)
  <2> TAKE r \in Requests
  <2>1. IF Event("chunk", p.job) = Event("chunk", r)
        THEN Cardinality(Spoken(q, r)) = Cardinality(Spoken(p, r)) + 1
        ELSE Spoken(q, r) = Spoken(p, r)
    BY <1>0, <1>2, SpokenLater
  <2> QED BY <2>1, <1>3
<1>5. Plain(q) BY DEF Plain
<1>6. \A r \in Requests : Unmet(p, r) => Unmet(q, r) BY <1>4 DEF Unmet
<1>7. ASSUME NEW r \in Requests, NEW n \in Nat, Budgeted(p, r, n) PROVE Budgeted(q, r, n)
  <2>1. Cardinality(Spoken(p, r)) \in Nat BY <1>0, SpokenCounts
  <2>2. CASE p.job = r BY <1>0, <1>4, <1>7, <2>1, <2>2 DEF Budgeted
  <2>3. CASE p.job # r BY <1>4, <1>7, <2>3 DEF Budgeted
  <2> QED BY <2>2, <2>3
<1> QED BY <1>5, <1>6, <1>7 DEF MeterActs

\* It ends.
LEMMA MeterEnds ==
  ASSUME NEW p, NEW q, Plain(p), OneOrder(p), q \in Process, p.job # None,
         NEW x \in Events, x.event # "chunk", q.out = Append(p.out, x),
         q.stdin = p.stdin, q.commands = p.commands, q.completed = p.completed \cup {p.job},
         q.job = None
  PROVE  MeterActs(p, q)
<1>0. p.out \in Seq(Events) BY PlainParts
<1>1. OnlyCancels(p) /\ p.commands = <<>> BY DEF OneOrder
<1>2. DOMAIN <<>> = {} OBVIOUS
<1>3. \A r \in Requests : ~Asked(q.stdin, r) /\ ~Asked(q.commands, r)
  BY <1>1, <1>2 DEF Asked, OnlyCancels
<1>4. Plain(q) BY <1>3 DEF Plain
<1>5. \A r \in Requests : x # Event("chunk", r) BY DEF Event
<1>6. \A r \in Requests : Spoken(q, r) = Spoken(p, r) BY <1>0, <1>5, SpokenLater
<1>7. None \notin Requests BY NameAssumption
<1>8. \A r \in Requests : Unmet(p, r) => Unmet(q, r) BY <1>3, <1>6, <1>7 DEF Unmet
<1>9. \A r \in Requests, n \in Nat : Budgeted(p, r, n) => Budgeted(q, r, n)
  BY <1>3, <1>6, <1>7 DEF Budgeted
<1> QED BY <1>4, <1>8, <1>9 DEF MeterActs

\* Every cancel that was read waits for its generation, stopped it, came after it, or was
\* thrown away, which takes as many cancels as _PENDING_CANCELS may hold.
Heeds(p) ==
    /\ p.heard \subseteq p.pending \cup p.completed \cup {p.job} \cup p.forgotten
    /\ p.pending \subseteq p.heard /\ IsFiniteSet(p.heard)
    /\ p.job \in p.heard => p.cancel \/ p.job \in p.forgotten
    /\ p.forgotten # {} => Cardinality(p.heard) >= PendingLimit

LEMMA SignalHeeds ==
  ASSUME NEW p, Heeds(p), NEW r \in Requests, p \in Process
  PROVE  Heeds(SignalCancel(p, r))
<1> DEFINE keeps == p.job # r /\ r \notin p.completed
           full == Cardinality(p.pending) >= PendingLimit
           cc == p.cancel \/ p.job = r
           pp == IF keeps THEN (IF full THEN {} ELSE p.pending) \cup {r} ELSE p.pending
           hh == p.heard \cup {r}
           ff == (IF keeps /\ full THEN p.forgotten \cup p.pending ELSE p.forgotten) \ {r}
           q == SignalCancel(p, r)
<1>1. q = [p EXCEPT !.cancel = cc, !.pending = pp, !.heard = hh, !.forgotten = ff]
  BY DEF SignalCancel
<1>2. IsFiniteSet(p.heard) /\ p.pending \subseteq p.heard BY DEF Heeds
<1>3. /\ IsFiniteSet(hh) /\ Cardinality(hh) \in Nat /\ Cardinality(p.heard) \in Nat
      /\ Cardinality(p.heard) <= Cardinality(hh)
  <2>1. Cardinality(p.heard) \in Nat BY <1>2, FS_CardinalityType
  <2>2. /\ IsFiniteSet(hh)
        /\ Cardinality(hh) = IF r \in p.heard THEN Cardinality(p.heard)
                             ELSE Cardinality(p.heard) + 1
    BY <1>2, FS_AddElement
  <2> QED BY <2>1, <2>2
<1>4. Cardinality(p.pending) \in Nat /\ Cardinality(p.pending) <= Cardinality(p.heard)
  BY <1>2, FS_Subset, FS_CardinalityType
<1>5. ff # {} => Cardinality(hh) >= PendingLimit
  <2>1. CASE p.forgotten # {}
    <3>1. Cardinality(p.heard) >= PendingLimit BY <2>1 DEF Heeds
    <3> QED BY <3>1, <1>3, BoundAssumption
  <2>2. CASE full BY <2>2, <1>3, <1>4, BoundAssumption
  <2> QED BY <2>1, <2>2
<1>6. hh \subseteq pp \cup p.completed \cup {p.job} \cup ff BY DEF Heeds
<1>7. pp \subseteq hh BY <1>2
<1>8. p.job \in hh => cc \/ p.job \in ff BY DEF Heeds
<1> HIDE DEF cc, pp, hh, ff, q
<1>9. /\ q.cancel = cc /\ q.pending = pp /\ q.heard = hh /\ q.forgotten = ff
      /\ q.job = p.job /\ q.completed = p.completed
  BY <1>1 DEF Process
<1>10. Heeds(q) BY <1>3, <1>5, <1>6, <1>7, <1>8, <1>9 DEF Heeds
<1> QED BY <1>10 DEF q

\* The cancel of a line.
LEMMA SignalMeters ==
  ASSUME NEW p, Plain(p), p.stdin # <<>>, Head(p.stdin).op = "cancel"
  PROVE  LET q == SignalCancel([p EXCEPT !.stdin = Tail(@)], Head(p.stdin).req) IN
         MeterActs(p, q) /\ (Heeds(p) => Heeds(q))
<1> DEFINE t == Tail(p.stdin)
           r == Head(p.stdin).req
           rest == [p EXCEPT !.stdin = t]
           q == SignalCancel(rest, r)
<1>1. t \in Seq(Commands) /\ r \in Requests
  <2>1. Tail(p.stdin) \in Seq(Commands) /\ Head(p.stdin) = p.stdin[1] /\ 1 \in DOMAIN p.stdin
    BY PlainParts, Taken
  <2> QED BY <2>1 DEF Plain, NamesRequest
<1>2. p \in Process BY PlainParts
<1>t. t = Tail(p.stdin) OBVIOUS
<1> HIDE DEF t, r
<1>3. /\ rest \in Process /\ rest.stdin = t /\ rest.commands = p.commands /\ rest.out = p.out
      /\ rest.job = p.job /\ rest.chunks = p.chunks /\ rest.completed = p.completed
      /\ rest.cancel = p.cancel /\ rest.pending = p.pending /\ rest.heard = p.heard
      /\ rest.forgotten = p.forgotten
  BY <1>1, <1>2 DEF Process
<1> HIDE DEF rest
<1>4. MeterActs(p, rest) BY <1>3, <1>t, MeterLine
<1>5. Plain(rest) BY <1>4 DEF MeterActs
<1>6. Heeds(p) => Heeds(q)
  <2>1. Heeds(p) => Heeds(rest) BY <1>3 DEF Heeds
  <2> QED BY <2>1, <1>1, <1>3, SignalHeeds
<1> DEFINE keeps == rest.job # r /\ r \notin rest.completed
           full == Cardinality(rest.pending) >= PendingLimit
           cc == rest.cancel \/ rest.job = r
           pp == IF keeps THEN (IF full THEN {} ELSE rest.pending) \cup {r} ELSE rest.pending
           hh == rest.heard \cup {r}
           ff == (IF keeps /\ full THEN rest.forgotten \cup rest.pending
                                   ELSE rest.forgotten) \ {r}
<1>7. /\ rest.cancel \in BOOLEAN /\ rest.pending \in SUBSET Requests
      /\ rest.heard \in SUBSET Requests /\ rest.forgotten \in SUBSET Requests
  BY <1>5, PlainParts
<1>8. /\ cc \in BOOLEAN /\ pp \in SUBSET Requests /\ hh \in SUBSET Requests
      /\ ff \in SUBSET Requests
  BY <1>1, <1>7
<1>9. q = [rest EXCEPT !.cancel = cc, !.pending = pp, !.heard = hh, !.forgotten = ff]
  BY DEF SignalCancel
<1> HIDE DEF cc, pp, hh, ff, q
<1>10. /\ q \in Process /\ q.stdin = t /\ q.commands = p.commands /\ q.out = p.out
       /\ q.job = p.job /\ q.chunks = p.chunks /\ q.completed = p.completed
  BY <1>3, <1>8, <1>9 DEF Process
<1>11. MeterActs(p, q) BY <1>10, <1>t, MeterLine
<1> QED BY <1>6, <1>11 DEF q, rest, t, r

\* A step of a process that says and does no more than it may.
Measured(p, q) == MeterActs(p, q) /\ (Heeds(p) => Heeds(q))

\* An order is kept, served with an answer, or lost with the process.
LEMMA KeepMeters ==
  ASSUME NEW p, Plain(p), p.stdin # <<>>
  PROVE  Measured(p, [[p EXCEPT !.stdin = Tail(@)] EXCEPT !.commands = Append(@, Head(p.stdin))])
<1> DEFINE t == Tail(p.stdin)
           k == Append(p.commands, Head(p.stdin))
           rest == [p EXCEPT !.stdin = t]
           q == [rest EXCEPT !.commands = k]
<1>1. t \in Seq(Commands) /\ k \in Seq(Commands)
  <2>1. Tail(p.stdin) \in Seq(Commands) /\ Head(p.stdin) \in Commands BY PlainParts, Taken
  <2>2. p.commands \in Seq(Commands) BY PlainParts
  <2> QED BY <2>1, <2>2, Appended
<1>2. p \in Process BY PlainParts
<1>t. t = Tail(p.stdin) /\ k = Append(p.commands, Head(p.stdin)) OBVIOUS
<1> HIDE DEF t, k
<1>3. /\ q \in Process /\ q.stdin = t /\ q.commands = k /\ q.out = p.out
      /\ q.job = p.job /\ q.chunks = p.chunks /\ q.completed = p.completed
      /\ q.cancel = p.cancel /\ q.pending = p.pending /\ q.heard = p.heard
      /\ q.forgotten = p.forgotten
      /\ rest.commands = p.commands
  BY <1>1, <1>2 DEF Process
<1>q. q = [rest EXCEPT !.commands = k] OBVIOUS
<1> HIDE DEF q, rest
<1>4. MeterActs(p, q) BY <1>3, <1>t, MeterLine
<1>5. Heeds(p) => Heeds(q) BY <1>3 DEF Heeds
<1> QED BY <1>3, <1>4, <1>5 DEF Measured, q, rest, t, k

\* A process that was asked nothing and said nothing.
LEMMA BareMeters ==
  ASSUME NEW p, p.life \in {"unborn", "alive", "dead"}, p = [Unborn EXCEPT !.life = p.life]
  PROVE  /\ Plain(p) /\ Heeds(p) /\ \A r \in Requests : Unmet(p, r)
         /\ \A r \in Requests, n \in 0..MaxChunks : Budgeted(p, r, n)
<1>1. p \in Process
  <2>1. <<>> \in Seq(Commands) /\ <<>> \in Seq(Events) BY EmptySeq
  <2>2. 0 \in 0..MaxChunks BY BoundAssumption
  <2> QED BY <2>1, <2>2 DEF Process, Unborn
<1>2. /\ p.stdin = <<>> /\ p.commands = <<>> /\ p.out = <<>> /\ p.job = None
      /\ p.completed = {} /\ p.heard = {} /\ p.pending = {} /\ p.forgotten = {}
  BY DEF Unborn
<1>3. DOMAIN <<>> = {} OBVIOUS
<1>4. Plain(p) BY <1>1, <1>2, <1>3 DEF Plain, Asked
<1>5. None \notin Requests BY NameAssumption
<1>6. \A r \in Requests : Unmet(p, r) /\ Spoken(p, r) = {}
  BY <1>2, <1>3, <1>5 DEF Unmet, Asked, Spoken
<1>7. Cardinality({}) = 0 /\ IsFiniteSet({}) BY FS_EmptySet
<1>8. \A r \in Requests, n \in 0..MaxChunks : Budgeted(p, r, n)
  <2> SUFFICES ASSUME NEW r \in Requests, NEW n \in 0..MaxChunks PROVE Budgeted(p, r, n)
    OBVIOUS
  <2>1. Cardinality(Spoken(p, r)) = 0 BY <1>6, <1>7
  <2>2. p.job # r /\ ~Asked(p.stdin, r) /\ ~Asked(p.commands, r) BY <1>6 DEF Unmet
  <2>3. n + 0 <= MaxChunks BY BoundAssumption
  <2> QED BY <2>1, <2>2, <2>3 DEF Budgeted
<1>9. Heeds(p) BY <1>2, <1>7 DEF Heeds
<1> QED BY <1>4, <1>6, <1>8, <1>9

LEMMA RemainsMeter == ASSUME NEW p, Plain(p) PROVE Measured(p, Remains(p)) /\ Heeds(Remains(p))
<1> DEFINE q == Remains(p)
<1>1. <<>> \in Seq(Commands) /\ p.out \in Seq(Events) BY EmptySeq, PlainParts
<1>2. 0 \in 0..MaxChunks BY BoundAssumption
<1>3. q \in Process BY <1>1, <1>2 DEF Process, Remains, Unborn
<1>4. /\ q.stdin = <<>> /\ q.commands = <<>> /\ q.out = p.out /\ q.job = None
      /\ q.completed = {} /\ q.heard = {} /\ q.pending = {} /\ q.forgotten = {}
  BY DEF Remains, Unborn
<1>x. PICK x : x \in Events /\ x.event # "chunk"
  <2>1. Event("garbage", None) \in Events BY DEF Event, Events
  <2>2. Event("garbage", None).event = "garbage" BY DEF Event
  <2> QED BY <2>1, <2>2
<1> HIDE DEF q
<1>5. MeterActs(p, q) BY <1>3, <1>4, <1>x, MeterSays
<1>6. Heeds(q)
  <2>1. IsFiniteSet({}) BY FS_EmptySet
  <2> QED BY <2>1, <1>4 DEF Heeds
<1> QED BY <1>5, <1>6 DEF Measured, q

LEMMA GoneMeter == ASSUME NEW p, Plain(p) PROVE Measured(p, Gone)
<1> DEFINE q == Gone
<1>1. q.life = "dead" /\ q = [Unborn EXCEPT !.life = q.life] BY DEF Gone, Unborn
<1> HIDE DEF q
<1>2. /\ Plain(q) /\ Heeds(q) /\ \A r \in Requests : Unmet(q, r)
      /\ \A r \in Requests, n \in 0..MaxChunks : Budgeted(q, r, n)
  BY <1>1, BareMeters
<1>3. ASSUME NEW r \in Requests, NEW n \in Nat, Budgeted(p, r, n) PROVE n \in 0..MaxChunks
  <2>1. p.out \in Seq(Events) BY PlainParts
  <2>2. Cardinality(Spoken(p, r)) \in Nat BY <2>1, SpokenCounts
  <2>3. n + Cardinality(Spoken(p, r)) <= MaxChunks BY <1>3 DEF Budgeted
  <2> QED BY <2>2, <2>3, BoundAssumption
<1>4. MeterActs(p, q) BY <1>2, <1>3 DEF MeterActs
<1> QED BY <1>2, <1>4 DEF Measured, q

LEMMA ServedMeters ==
  ASSUME NEW i \in Workers, Plain(w[i]), w[i].commands # <<>>, NEW e \in Replied,
         NEW rt \in BOOLEAN, NEW pr \in Voices \cup {None}
  PROVE  /\ Measured(w[i], Served(i, e))
         /\ Measured(w[i], [Served(i, e) EXCEPT !.runtime = rt])
         /\ Measured(w[i], [Served(i, e) EXCEPT !.prompt = pr])
         /\ Measured(w[i], Remains(Served(i, e)))
<1> DEFINE p == w[i]
           k == Tail(p.commands)
           x == Event(e, Head(p.commands).req)
           u == Append(p.out, x)
           s == Served(i, e)
           s1 == [s EXCEPT !.runtime = rt]
           s2 == [s EXCEPT !.prompt = pr]
<1>0. x \in Events /\ x.event # "chunk"
  <2>1. Head(p.commands) \in Commands BY PlainParts, Taken
  <2> QED BY <2>1 DEF Commands, Events, Event, Ends, Replied
<1> HIDE DEF x
<1>1. k \in Seq(Commands) /\ u \in Seq(Events)
  <2>1. k \in Seq(Commands) /\ p.out \in Seq(Events) BY PlainParts, Taken
  <2> QED BY <2>1, <1>0, Appended
<1>2. s = [p EXCEPT !.commands = k, !.reader = TRUE, !.out = u] BY DEF Served, x
<1>t. k = Tail(p.commands) /\ u = Append(p.out, x) OBVIOUS
<1>3. p \in Process /\ Plain(p) /\ p.commands # <<>> BY PlainParts
<1> HIDE DEF k, u, p, s
<1>4. /\ s \in Process /\ s.stdin = p.stdin /\ s.commands = k /\ s.out = u /\ s.job = p.job
      /\ s.chunks = p.chunks /\ s.completed = p.completed
      /\ s.cancel = p.cancel /\ s.pending = p.pending /\ s.heard = p.heard
      /\ s.forgotten = p.forgotten
  BY <1>1, <1>2, <1>3 DEF Process
<1>5. /\ s1 \in Process /\ s1.stdin = p.stdin /\ s1.commands = k /\ s1.out = u /\ s1.job = p.job
      /\ s1.chunks = p.chunks /\ s1.completed = p.completed
      /\ s1.cancel = p.cancel /\ s1.pending = p.pending /\ s1.heard = p.heard
      /\ s1.forgotten = p.forgotten
  BY <1>4 DEF Process
<1>6. /\ s2 \in Process /\ s2.stdin = p.stdin /\ s2.commands = k /\ s2.out = u /\ s2.job = p.job
      /\ s2.chunks = p.chunks /\ s2.completed = p.completed
      /\ s2.cancel = p.cancel /\ s2.pending = p.pending /\ s2.heard = p.heard
      /\ s2.forgotten = p.forgotten
  BY <1>4 DEF Process
<1> HIDE DEF s1, s2
<1>m. ASSUME NEW q, q \in Process, q.stdin = p.stdin, q.commands = k, q.out = u, q.job = p.job,
             q.chunks = p.chunks, q.completed = p.completed, q.cancel = p.cancel,
             q.pending = p.pending, q.heard = p.heard, q.forgotten = p.forgotten
      PROVE  Measured(p, q)
  <2>1. MeterActs(p, q) BY <1>m, <1>0, <1>3, <1>t, MeterSays
  <2>2. Heeds(p) => Heeds(q) BY <1>m DEF Heeds
  <2> QED BY <2>1, <2>2 DEF Measured
<1>7. Measured(p, s) BY <1>4, <1>m
<1>8. Measured(p, s1) /\ Measured(p, s2) BY <1>5, <1>6, <1>m
<1>9. Measured(p, Remains(s))
  <2>1. Plain(s) BY <1>7 DEF Measured, MeterActs
  <2>2. Measured(s, Remains(s)) /\ Heeds(Remains(s)) BY <2>1, RemainsMeter
  <2>3. MeterActs(p, s) /\ MeterActs(s, Remains(s)) BY <1>7, <2>2 DEF Measured
  <2>4. MeterActs(p, Remains(s)) BY <2>3 DEF MeterActs
  <2> QED BY <2>2, <2>4 DEF Measured
<1> QED BY <1>7, <1>8, <1>9 DEF p, s, s1, s2

\* A generation begins, makes a chunk and ends.
LEMMA BeginMeters ==
  ASSUME NEW p, Plain(p), OneOrder(p), p.commands # <<>>, Head(p.commands).op = "generate",
         p.job = None
  PROVE  Measured(p, [p EXCEPT !.commands = Tail(@), !.reader = TRUE,
                               !.job = Head(p.commands).req, !.chunks = 0,
                               !.cancel = Head(p.commands).req \in p.pending,
                               !.pending = @ \ {Head(p.commands).req}])
<1> DEFINE k == Tail(p.commands)
           r == Head(p.commands).req
           cc == r \in p.pending
           pp == p.pending \ {r}
           q == [p EXCEPT !.commands = k, !.reader = TRUE, !.job = r, !.chunks = 0,
                          !.cancel = cc, !.pending = pp]
<1>1. k \in Seq(Commands) /\ Head(p.commands) = p.commands[1] /\ 1 \in DOMAIN p.commands
  BY PlainParts, Taken
<1>2. r \in Requests BY <1>1 DEF Plain, NamesRequest
<1>3. p \in Process /\ p.pending \in SUBSET Requests BY PlainParts
<1>4. cc \in BOOLEAN /\ pp \in SUBSET Requests /\ (cc <=> r \in p.pending) /\ pp = p.pending \ {r}
  BY <1>3
<1>t. k = Tail(p.commands) /\ r = Head(p.commands).req OBVIOUS
<1>5. 0 \in 0..MaxChunks BY BoundAssumption
<1>q. q = [p EXCEPT !.commands = k, !.reader = TRUE, !.job = r, !.chunks = 0,
                    !.cancel = cc, !.pending = pp]
  OBVIOUS
<1>v. q = [p EXCEPT !.commands = Tail(@), !.reader = TRUE, !.job = Head(p.commands).req,
                    !.chunks = 0, !.cancel = Head(p.commands).req \in p.pending,
                    !.pending = @ \ {Head(p.commands).req}]
  OBVIOUS
<1> HIDE DEF k, r, cc, pp, q
<1>6. /\ q \in Process /\ q.stdin = p.stdin /\ q.commands = k /\ q.out = p.out /\ q.job = r
      /\ q.chunks = 0 /\ q.completed = p.completed /\ q.cancel = cc /\ q.pending = pp
      /\ q.heard = p.heard
      /\ q.forgotten = p.forgotten
  BY <1>1, <1>2, <1>3, <1>4, <1>5, <1>q DEF Process
<1>7. MeterActs(p, q) /\ q.job \notin q.completed BY <1>6, <1>t, MeterStarts
<1>8. Heeds(p) => Heeds(q)
  <2>1. None \notin p.heard
    <3>1. p.heard \in SUBSET Requests BY PlainParts
    <3> QED BY <3>1, NameAssumption
  <2> QED BY <1>4, <1>6, <1>7, <2>1 DEF Heeds
<1>9. Measured(p, q) BY <1>7, <1>8 DEF Measured
<1> QED BY <1>9, <1>v

LEMMA ChunkMeters ==
  ASSUME NEW p, Plain(p), OneOrder(p), p.job # None, p.chunks < MaxChunks
  PROVE  Measured(p, [p EXCEPT !.chunks = @ + 1, !.out = Append(@, Event("chunk", p.job))])
<1> DEFINE n == p.chunks + 1
           u == Append(p.out, Event("chunk", p.job))
           q == [p EXCEPT !.chunks = n, !.out = u]
<1>1. p \in Process /\ p.job \in Requests /\ p.chunks \in 0..MaxChunks /\ p.out \in Seq(Events)
  BY PlainParts
<1>2. n \in 0..MaxChunks BY <1>1, BoundAssumption
<1>3. u \in Seq(Events)
  <2>1. Event("chunk", p.job) \in Events BY <1>1 DEF Event, Events, Operations
  <2> QED BY <2>1, <1>1, Appended
<1>t. n = p.chunks + 1 /\ u = Append(p.out, Event("chunk", p.job)) OBVIOUS
<1>q. q = [p EXCEPT !.chunks = @ + 1, !.out = Append(@, Event("chunk", p.job))] OBVIOUS
<1> HIDE DEF n, u
<1>4. /\ q \in Process /\ q.stdin = p.stdin /\ q.commands = p.commands /\ q.out = u
      /\ q.job = p.job /\ q.chunks = n /\ q.completed = p.completed /\ q.cancel = p.cancel
      /\ q.pending = p.pending /\ q.heard = p.heard
      /\ q.forgotten = p.forgotten
  BY <1>1, <1>2, <1>3 DEF Process
<1> HIDE DEF q
<1>5. MeterActs(p, q) BY <1>4, <1>t, MeterChunk
<1>6. Heeds(p) => Heeds(q) BY <1>4 DEF Heeds
<1>7. Measured(p, q) BY <1>5, <1>6 DEF Measured
<1> QED BY <1>7, <1>q

LEMMA EndMeters ==
  ASSUME NEW p, Plain(p), OneOrder(p), p.job # None, NEW e \in Ends
  PROVE  Measured(p, [p EXCEPT !.job = None, !.cancel = FALSE, !.completed = @ \cup {p.job},
                               !.out = Append(@, Event(e, p.job))])
<1> DEFINE x == Event(e, p.job)
           u == Append(p.out, x)
           d == p.completed \cup {p.job}
           q == [p EXCEPT !.job = None, !.cancel = FALSE, !.completed = d, !.out = u]
<1>1. /\ p \in Process /\ p.job \in Requests /\ p.out \in Seq(Events)
      /\ p.completed \in SUBSET Requests /\ p.heard \in SUBSET Requests
  BY PlainParts
<1>2. x \in Events /\ x.event # "chunk" BY <1>1 DEF Event, Events, Operations, Ends
<1>3. u \in Seq(Events) BY <1>1, <1>2, Appended
<1>4. d \in SUBSET Requests BY <1>1
<1>t. u = Append(p.out, x) /\ d = p.completed \cup {p.job} OBVIOUS
<1>q. q = [p EXCEPT !.job = None, !.cancel = FALSE, !.completed = @ \cup {p.job},
                    !.out = Append(@, Event(e, p.job))]
  OBVIOUS
<1> HIDE DEF x, u, d
<1>5. /\ q \in Process /\ q.stdin = p.stdin /\ q.commands = p.commands /\ q.out = u
      /\ q.job = None /\ q.completed = d /\ q.pending = p.pending /\ q.heard = p.heard
      /\ q.forgotten = p.forgotten
  BY <1>1, <1>3, <1>4 DEF Process
<1> HIDE DEF q
<1>6. MeterActs(p, q) BY <1>2, <1>5, <1>t, MeterEnds
<1>7. Heeds(p) => Heeds(q) BY <1>1, <1>5, <1>t, NameAssumption DEF Heeds
<1>8. Measured(p, q) BY <1>6, <1>7 DEF Measured
<1> QED BY <1>8, <1>q

LEMMA GarbageMeters ==
  ASSUME NEW p, Plain(p)
  PROVE  Measured(p, [p EXCEPT !.out = Append(@, Event("garbage", None))])
<1> DEFINE x == Event("garbage", None)
           u == Append(p.out, x)
           q == [p EXCEPT !.out = u]
<1>1. x \in Events /\ x.event # "chunk" BY DEF Event, Events
<1>2. p \in Process /\ p.out \in Seq(Events) BY PlainParts
<1>3. u \in Seq(Events) BY <1>1, <1>2, Appended
<1>t. u = Append(p.out, x) OBVIOUS
<1> HIDE DEF x, u
<1>4. /\ q \in Process /\ q.stdin = p.stdin /\ q.commands = p.commands /\ q.out = u
      /\ q.job = p.job /\ q.chunks = p.chunks /\ q.completed = p.completed
      /\ q.cancel = p.cancel /\ q.pending = p.pending /\ q.heard = p.heard
      /\ q.forgotten = p.forgotten
  BY <1>2, <1>3 DEF Process
<1> HIDE DEF q
<1>5. MeterActs(p, q) BY <1>1, <1>4, <1>t, MeterSays
<1>6. Heeds(p) => Heeds(q) BY <1>4 DEF Heeds
<1> QED BY <1>5, <1>6 DEF Measured, q, u, x

\* Every step of a process is one of these.
LEMMA WorkerMeters ==
  ASSUME TypePipes, AllSound, AllPlain, NEW i \in Workers, WorkerStep(i) \/ Fault(i)
  PROVE  Measured(w[i], w'[i])
<1> DEFINE p == w[i]
           Next_ == \E r : Became(i, r) /\ Measured(p, r)
<1>0. Plain(p) /\ OneOrder(p) /\ p \in Process BY PlainParts DEF AllPlain, AllSound, Sound
<1>v. p.prompt \in Voices \cup {None} /\ p.runtime \in BOOLEAN BY <1>0, PlainParts
<1>b. ASSUME NEW r, Became(i, r) PROVE w'[i] = r
  BY <1>b DEF Became, TypePipes
<1> SUFFICES Next_
  BY <1>b
<1>1. ASSUME ReadLine(i) PROVE Next_
  <2>1. p.stdin # <<>> BY <1>1 DEF ReadLine
  <2>2. CASE Head(p.stdin).op = "cancel"
    <3>1. Became(i, SignalCancel([p EXCEPT !.stdin = Tail(@)], Head(p.stdin).req))
      BY <1>1, <2>2 DEF ReadLine
    <3> QED BY <3>1, <2>1, <2>2, <1>0, SignalMeters DEF Measured
  <2>3. CASE Head(p.stdin).op # "cancel"
    <3>1. Became(i, [[p EXCEPT !.stdin = Tail(@)] EXCEPT !.commands = Append(@, Head(p.stdin))])
      BY <1>1, <2>3 DEF ReadLine
    <3> QED BY <3>1, <2>1, <1>0, KeepMeters
  <2> QED BY <2>2, <2>3
<1>2. ASSUME DispatchLoad(i) PROVE Next_
  <2>1. p.commands # <<>> BY <1>2 DEF DispatchLoad, Dispatches
  <2>2. Measured(p, [Served(i, "loaded") EXCEPT !.runtime = TRUE]) /\ Measured(p, Served(i, "failed"))
    BY <2>1, <1>0, <1>v, ServedMeters DEF Replied
  <2> QED BY <1>2, <2>2 DEF DispatchLoad
<1>3. ASSUME DispatchPrewarm(i) PROVE Next_
  <2> DEFINE v == Head(p.commands).voice
             v2 == IF p.runtime THEN None ELSE p.prompt
  <2>1. p.commands # <<>> BY <1>3 DEF DispatchPrewarm, Dispatches
  <2>2. v \in Voices \cup {None}
    <3>1. Head(p.commands) \in Commands BY <2>1, <1>0, PlainParts, Taken
    <3> QED BY <3>1 DEF Commands
  <2>3. v2 \in Voices \cup {None} BY <1>v
  <2> HIDE DEF v, v2
  <2>4. /\ Measured(p, [Served(i, "prompt_ready") EXCEPT !.prompt = v])
        /\ Measured(p, [Served(i, "prompt_failed") EXCEPT !.prompt = v2])
    BY <2>1, <2>2, <2>3, <1>0, <1>v, ServedMeters DEF Replied
  <2>5. Served(i, "prompt_failed").prompt = p.prompt
    <3>1. Served(i, "prompt_failed") = [p EXCEPT !.commands = Tail(p.commands), !.reader = TRUE,
             !.out = Append(p.out, Event("prompt_failed", Head(p.commands).req))]
      BY DEF Served
    <3> QED BY <3>1, <1>0 DEF Process
  <2> QED BY <1>3, <2>4, <2>5 DEF DispatchPrewarm, v, v2
<1>4. ASSUME DispatchGenerate(i) PROVE Next_
  <2>1. p.commands # <<>> /\ p.job = None /\ Head(p.commands).op = "generate"
    BY <1>4 DEF DispatchGenerate, Dispatches
  <2>2. Measured(p, Served(i, "refused")) BY <2>1, <1>0, <1>v, ServedMeters DEF Replied
  <2>3. Measured(p, [p EXCEPT !.commands = Tail(@), !.reader = TRUE,
                              !.job = Head(p.commands).req, !.chunks = 0,
                              !.cancel = Head(p.commands).req \in p.pending,
                              !.pending = @ \ {Head(p.commands).req}])
    BY <2>1, <1>0, BeginMeters
  <2> QED BY <1>4, <2>2, <2>3 DEF DispatchGenerate
<1>5. ASSUME DispatchInvalidate(i) PROVE Next_
  <2>1. p.commands # <<>> BY <1>5 DEF DispatchInvalidate, Dispatches
  <2>2. /\ Measured(p, [Served(i, "invalidated") EXCEPT !.prompt = None])
        /\ Measured(p, Served(i, "absent"))
    BY <2>1, <1>0, <1>v, ServedMeters DEF Replied
  <2> QED BY <1>5, <2>2 DEF DispatchInvalidate
<1>6. ASSUME DispatchUnload(i) PROVE Next_
  <2>1. p.commands # <<>> BY <1>6 DEF DispatchUnload, Dispatches
  <2>2. Measured(p, Remains(Served(i, "done"))) BY <2>1, <1>0, <1>v, ServedMeters DEF Replied
  <2> QED BY <1>6, <2>2 DEF DispatchUnload
<1>7. ASSUME GenerateChunk(i) PROVE Next_
  <2>1. Measured(p, [p EXCEPT !.chunks = @ + 1, !.out = Append(@, Event("chunk", p.job))])
    BY <1>7, <1>0, ChunkMeters DEF GenerateChunk
  <2> QED BY <1>7, <2>1 DEF GenerateChunk
<1>8. ASSUME NEW e \in Ends, GenerateEnd(i, e) PROVE Next_
  <2>1. Measured(p, [p EXCEPT !.job = None, !.cancel = FALSE, !.completed = @ \cup {p.job},
                              !.out = Append(@, Event(e, p.job))])
    BY <1>8, <1>0, EndMeters DEF GenerateEnd
  <2> QED BY <1>8, <2>1 DEF GenerateEnd
<1>9. ASSUME Fault(i) PROVE Next_
  BY <1>9, <1>0, RemainsMeter, GarbageMeters DEF Fault
<1> QED BY <1>1, <1>2, <1>3, <1>4, <1>5, <1>6, <1>7, <1>8, <1>9 DEF WorkerStep

-----------------------------------------------------------------------------
(* The counts of all processes.                                             *)

\* Nothing happens to a process, a line is written to it, or one is taken from it.
LEMMA IdleMeters == ASSUME NEW p, Plain(p) PROVE Measured(p, p)
  BY DEF Measured, MeterActs

LEMMA WrittenTo ==
  ASSUME NEW p, NEW q, NEW cmd \in Commands, Plain(p), Told(p, q, cmd)
  PROVE  /\ q \in Process /\ q.stdin = Append(p.stdin, cmd) /\ q.commands = p.commands
         /\ q.out = p.out /\ q.job = p.job /\ q.chunks = p.chunks /\ q.completed = p.completed
         /\ q.cancel = p.cancel /\ q.pending = p.pending /\ q.heard = p.heard
      /\ q.forgotten = p.forgotten
         /\ \A n \in DOMAIN q.stdin : q.stdin[n] = IF n \in DOMAIN p.stdin THEN p.stdin[n] ELSE cmd
<1> DEFINE s == Append(p.stdin, cmd)
<1>1. s \in Seq(Commands)
      /\ \A n \in DOMAIN s : s[n] = IF n \in DOMAIN p.stdin THEN p.stdin[n] ELSE cmd
  BY PlainParts, Appended
<1>2. q = [p EXCEPT !.life = "alive", !.stdin = s] BY DEF Told
<1>3. p \in Process BY PlainParts
<1>t. s = Append(p.stdin, cmd) OBVIOUS
<1> HIDE DEF s
<1>4. /\ q \in Process /\ q.stdin = s /\ q.commands = p.commands
      /\ q.out = p.out /\ q.job = p.job /\ q.chunks = p.chunks /\ q.completed = p.completed
      /\ q.cancel = p.cancel /\ q.pending = p.pending /\ q.heard = p.heard
      /\ q.forgotten = p.forgotten
  BY <1>1, <1>2, <1>3 DEF Process
<1> QED BY <1>1, <1>4, <1>t

LEMMA TellMeters ==
  ASSUME NEW p, NEW q, NEW cmd \in Commands, Plain(p), Told(p, q, cmd),
         cmd.op # "generate", NamesRequest(cmd)
  PROVE  Measured(p, q)
<1>1. /\ q \in Process /\ q.commands = p.commands
      /\ q.out = p.out /\ q.job = p.job /\ q.chunks = p.chunks /\ q.completed = p.completed
      /\ q.cancel = p.cancel /\ q.pending = p.pending /\ q.heard = p.heard
      /\ q.forgotten = p.forgotten
      /\ \A n \in DOMAIN q.stdin : q.stdin[n] = IF n \in DOMAIN p.stdin THEN p.stdin[n] ELSE cmd
  BY WrittenTo
<1>2. \A n \in DOMAIN q.stdin : NamesRequest(q.stdin[n]) BY <1>1 DEF Plain
<1>3. \A n \in DOMAIN q.commands : NamesRequest(q.commands[n]) BY <1>1 DEF Plain
<1>4. \A r \in Requests : Asked(q.stdin, r) \/ Asked(q.commands, r)
                             => Asked(p.stdin, r) \/ Asked(p.commands, r)
  BY <1>1 DEF Asked
<1>5. \A r \in Requests : Spoken(q, r) = Spoken(p, r) BY <1>1 DEF Spoken
<1>6. MeterActs(p, q) BY <1>1, <1>2, <1>3, <1>4, <1>5, MeterRests
<1>7. Heeds(p) => Heeds(q) BY <1>1 DEF Heeds
<1> QED BY <1>6, <1>7 DEF Measured

LEMMA TakeMeters ==
  ASSUME NEW p, Plain(p), p.out # <<>>
  PROVE  LET q == [p EXCEPT !.out = Tail(@)] IN
         /\ Measured(p, q)
         /\ \A r \in Requests, n \in Nat :
               Budgeted(p, r, n) /\ Head(p.out) = Event("chunk", r) /\ OneOrder(p)
                  => Budgeted(q, r, n + 1)
         /\ \A r \in Requests : Head(p.out) = Event("chunk", r) => ~Unmet(p, r)
<1> DEFINE t == Tail(p.out)
           q == [p EXCEPT !.out = t]
<1>1. p \in Process /\ p.out \in Seq(Events) /\ p.chunks \in Nat /\ MaxChunks \in Nat
  BY PlainParts, BoundAssumption
<1>2. t \in Seq(Events) /\ Head(p.out) = p.out[1] /\ 1 \in DOMAIN p.out
  BY <1>1, Taken
<1>t. t = Tail(p.out) OBVIOUS
<1> HIDE DEF t
<1>3. /\ q \in Process /\ q.stdin = p.stdin /\ q.commands = p.commands
      /\ q.out = t /\ q.job = p.job /\ q.chunks = p.chunks /\ q.completed = p.completed
      /\ q.cancel = p.cancel /\ q.pending = p.pending /\ q.heard = p.heard
      /\ q.forgotten = p.forgotten
  BY <1>1, <1>2 DEF Process
<1> HIDE DEF q
<1>4. \A r \in Requests :
         /\ Cardinality(Spoken(q, r)) = IF Head(p.out) = Event("chunk", r)
                                        THEN Cardinality(Spoken(p, r)) - 1
                                        ELSE Cardinality(Spoken(p, r))
         /\ Cardinality(Spoken(p, r)) \in Nat /\ Cardinality(Spoken(q, r)) \in Nat
         /\ IsFiniteSet(Spoken(q, r)) /\ IsFiniteSet(Spoken(p, r))
  BY <1>1, <1>2, <1>3, <1>t, SpokenTaken, SpokenCounts
<1>5. Plain(q) BY <1>3 DEF Plain
<1>6. ASSUME NEW r \in Requests, Unmet(p, r) PROVE Unmet(q, r)
  <2>1. Cardinality(Spoken(p, r)) = 0 BY <1>6, FS_EmptySet DEF Unmet
  <2>2. Cardinality(Spoken(q, r)) = 0 BY <2>1, <1>4
  <2>3. Spoken(q, r) = {} BY <2>2, <1>4, FS_EmptySet
  <2> QED BY <2>3, <1>3, <1>6 DEF Unmet
<1>7. ASSUME NEW r \in Requests, NEW n \in Nat, Budgeted(p, r, n) PROVE Budgeted(q, r, n)
  <2>1. Cardinality(Spoken(q, r)) <= Cardinality(Spoken(p, r))
        /\ Cardinality(Spoken(p, r)) \in Nat /\ Cardinality(Spoken(q, r)) \in Nat
    BY <1>4
  <2> QED BY <2>1, <1>1, <1>3, <1>7 DEF Budgeted
<1>8. ASSUME NEW r \in Requests, NEW n \in Nat, Budgeted(p, r, n), OneOrder(p),
             Head(p.out) = Event("chunk", r)
      PROVE  Budgeted(q, r, n + 1)
  <2>1. (n + 1) + Cardinality(Spoken(q, r)) = n + Cardinality(Spoken(p, r)) BY <1>4, <1>8
  <2>2. ~NoWord(p) BY <1>2, <1>8 DEF NoWord, Event
  <2>3. OnlyCancels(p) /\ p.commands = <<>> BY <2>2, <1>8 DEF OneOrder
  <2>4. DOMAIN <<>> = {} OBVIOUS
  <2>5. ~Asked(p.stdin, r) /\ ~Asked(p.commands, r) BY <2>3, <2>4 DEF Asked, OnlyCancels
  <2> QED BY <2>1, <2>5, <1>3, <1>8 DEF Budgeted
<1>9. \A r \in Requests : Head(p.out) = Event("chunk", r) => ~Unmet(p, r)
  BY <1>2 DEF Unmet, Spoken
<1>10. Heeds(p) => Heeds(q) BY <1>3 DEF Heeds
<1>11. Measured(p, q) BY <1>5, <1>6, <1>7, <1>10 DEF Measured, MeterActs
<1> QED BY <1>8, <1>9, <1>11 DEF q, t

Meters == AllPlain /\ AllBudgeted /\ OneHome /\ EarlyUnmet
AllHeed == \A i \in Workers : Heeds(w[i])
HeardKept == AllHeed => AllHeed'

\* A generation that was written is not taken back.
EarlyStays == \A r \in Requests : opc'[r] \in Early => opc[r] \in Early

\* No chunk is yielded, and the processes do what they may.
AllMeasured == \A i \in Workers : Measured(w[i], w'[i])

LEMMA MeasuredKeep ==
  ASSUME Meters, AllMeasured, EarlyStays, got \in [Requests -> Nat], got' = got
  PROVE  Meters' /\ HeardKept
<1>0. AllPlain /\ AllBudgeted /\ OneHome /\ EarlyUnmet BY DEF Meters
<1>m. ASSUME NEW i \in Workers
      PROVE  /\ Plain(w'[i]) /\ (Heeds(w[i]) => Heeds(w'[i]))
             /\ \A r \in Requests : Unmet(w[i], r) => Unmet(w'[i], r)
             /\ \A r \in Requests, n \in Nat : Budgeted(w[i], r, n) => Budgeted(w'[i], r, n)
  BY DEF AllMeasured, Measured, MeterActs
<1>1. AllPlain' BY <1>m DEF AllPlain
<1>2. AllBudgeted' BY <1>0, <1>m DEF AllBudgeted
<1>3. OneHome' BY <1>0, <1>m DEF OneHome
<1>4. EarlyUnmet' BY <1>0, <1>m DEF EarlyUnmet, EarlyStays
<1>5. HeardKept BY <1>m DEF HeardKept, AllHeed
<1> QED BY <1>1, <1>2, <1>3, <1>4, <1>5 DEF Meters

\* The steps of the adapter, by what they do to the processes.
LEMMA MeterReaps ==
  ASSUME TypePipes, AllPlain, NEW i \in Workers, Reap(i)
  PROVE  AllMeasured
<1>1. w'[i] \in {Remains(w[i]), Gone} /\ \A x \in Workers : x # i => w'[x] = w[x]
  BY DEF Reap, TypePipes
<1>2. Measured(w[i], w'[i]) BY <1>1, RemainsMeter, GoneMeter DEF AllPlain
<1> QED BY <1>1, <1>2, IdleMeters DEF AllMeasured, AllPlain

LEMMA MeterWrites ==
  ASSUME PipeInv, AllPlain, NEW cmd \in Commands, SendCommand(cmd), cmd.op # "generate",
         NamesRequest(cmd)
  PROVE  AllMeasured
<1>1. cmd \in Orders BY DEF Commands, Orders
<1>2. /\ worker' \in Workers /\ Told(w[worker'], w'[worker'], cmd)
      /\ w' = [w EXCEPT ![worker'] = w'[worker']]
  BY <1>1, CommandSent
<1>3. \A i \in Workers : i # worker' => w'[i] = w[i] BY <1>2 DEF PipeInv, TypePipes
<1>4. Measured(w[worker'], w'[worker']) BY <1>2, TellMeters DEF AllPlain
<1> QED BY <1>3, <1>4, IdleMeters DEF AllMeasured, AllPlain

LEMMA MeterTakes ==
  ASSUME PipeInv, AllPlain, NEW i \in Workers, w[i].out # <<>>,
         w' = [w EXCEPT ![i].out = Tail(@)]
  PROVE  AllMeasured /\ w'[i] = [w[i] EXCEPT !.out = Tail(@)]
<1>1. w'[i] = [w[i] EXCEPT !.out = Tail(@)] /\ \A x \in Workers : x # i => w'[x] = w[x]
  BY DEF PipeInv, TypePipes
<1>2. Measured(w[i], w'[i]) BY <1>1, TakeMeters DEF AllPlain
<1> QED BY <1>1, <1>2, IdleMeters DEF AllMeasured, AllPlain

\* A chunk is yielded.
LEMMA YieldKeeps ==
  ASSUME PipeInv, Meters, EarlyStays, got \in [Requests -> Nat],
         NEW r \in Requests, NEW i \in Workers, w[i].out # <<>>,
         Head(w[i].out) = Event("chunk", r),
         w' = [w EXCEPT ![i].out = Tail(@)], got' = [got EXCEPT ![r] = @ + 1]
  PROVE  Meters' /\ HeardKept
<1>0. AllPlain /\ AllBudgeted /\ OneHome /\ EarlyUnmet BY DEF Meters
<1>1. AllMeasured /\ w'[i] = [w[i] EXCEPT !.out = Tail(@)] BY <1>0, MeterTakes
<1>m. ASSUME NEW x \in Workers
      PROVE  /\ Plain(w'[x]) /\ (Heeds(w[x]) => Heeds(w'[x]))
             /\ \A s \in Requests : Unmet(w[x], s) => Unmet(w'[x], s)
             /\ \A s \in Requests, n \in Nat : Budgeted(w[x], s, n) => Budgeted(w'[x], s, n)
  BY <1>1 DEF AllMeasured, Measured, MeterActs
<1>g. got'[r] = got[r] + 1 /\ \A s \in Requests : s # r => got'[s] = got[s]
  OBVIOUS
<1>2. AllPlain' BY <1>m DEF AllPlain
<1>3. OneHome' BY <1>0, <1>m DEF OneHome
<1>4. ~Unmet(w[i], r) BY <1>0, TakeMeters DEF AllPlain
<1>5. opc[r] \notin Early BY <1>0, <1>4 DEF EarlyUnmet
<1>6. EarlyUnmet' BY <1>0, <1>m, <1>g, <1>5 DEF EarlyUnmet, EarlyStays
<1>7. \A x \in Workers : x # i => Unmet(w[x], r) BY <1>0, <1>4 DEF OneHome
<1>b. Budgeted(w'[i], r, got[r] + 1)
  <2> DEFINE p == w[i]
  <2>1. OneOrder(p) /\ Plain(p) BY <1>0 DEF PipeInv, AllSound, Sound, AllPlain
  <2>2. Budgeted(p, r, got[r]) /\ got[r] \in Nat BY <1>0 DEF AllBudgeted
  <2>3. \A n \in Nat : Budgeted(p, r, n) => Budgeted([p EXCEPT !.out = Tail(@)], r, n + 1)
    BY <2>1, TakeMeters
  <2> QED BY <2>2, <2>3, <1>1
<1>8. AllBudgeted'
  <2> SUFFICES ASSUME NEW x \in Workers, NEW s \in Requests PROVE Budgeted(w'[x], s, got'[s])
    BY DEF AllBudgeted
  <2>1. CASE s # r BY <2>1, <1>0, <1>m, <1>g DEF AllBudgeted
  <2>2. CASE s = r /\ x = i BY <2>2, <1>b, <1>g
  <2>3. CASE s = r /\ x # i
    <3>1. Unmet(w'[x], r) BY <2>3, <1>7, <1>m
    <3>2. Budgeted(w[i], r, got[r]) /\ got[r] \in Nat BY <1>0 DEF AllBudgeted
    <3>3. got[r] + 1 <= MaxChunks
      <4>3. Cardinality(Spoken(w'[i], r)) \in Nat
        <5>1. w'[i].out \in Seq(Events) BY <1>m, PlainParts
        <5> QED BY <5>1, SpokenCounts
      <4> QED BY <1>b, <4>3, <3>2, BoundAssumption DEF Budgeted
    <3>4. Cardinality(Spoken(w'[x], r)) = 0 BY <3>1, FS_EmptySet DEF Unmet
    <3> QED BY <2>3, <3>1, <3>2, <3>3, <3>4, <1>g, BoundAssumption DEF Budgeted, Unmet
  <2> QED BY <2>1, <2>2, <2>3
<1>9. HeardKept BY <1>m DEF HeardKept, AllHeed
<1> QED BY <1>2, <1>3, <1>6, <1>8, <1>9 DEF Meters

\* A generation is written to a process.
LEMMA GenerateKeeps ==
  ASSUME PipeInv, Meters, got \in [Requests -> Nat], got' = got,
         NEW r \in Requests, opc[r] \in Early, opc'[r] \notin Early, EarlyStays,
         NEW v \in Voices \cup {None}, SendCommand(Command("generate", r, v))
  PROVE  Meters' /\ HeardKept
<1> DEFINE cmd == Command("generate", r, v)
           i == worker'
<1>0. AllPlain /\ AllBudgeted /\ OneHome /\ EarlyUnmet BY DEF Meters
<1>c. cmd \in Commands /\ cmd \in Orders /\ cmd.op = "generate" /\ cmd.req = r /\ SendCommand(cmd)
  BY DEF Command, Commands, Orders, Operations
<1> HIDE DEF cmd
<1>1. i \in Workers /\ Told(w[i], w'[i], cmd) /\ w' = [w EXCEPT ![i] = w'[i]]
  BY <1>c, CommandSent
<1>2. \A x \in Workers : x # i => w'[x] = w[x] BY <1>1 DEF PipeInv, TypePipes
<1> HIDE DEF i
<1>3. /\ w'[i] \in Process /\ w'[i].commands = w[i].commands /\ w'[i].out = w[i].out
      /\ w'[i].job = w[i].job /\ w'[i].chunks = w[i].chunks /\ w'[i].completed = w[i].completed
      /\ w'[i].cancel = w[i].cancel /\ w'[i].pending = w[i].pending /\ w'[i].heard = w[i].heard
      /\ w'[i].forgotten = w[i].forgotten
      /\ \A n \in DOMAIN w'[i].stdin :
            w'[i].stdin[n] = IF n \in DOMAIN w[i].stdin THEN w[i].stdin[n] ELSE cmd
  BY <1>0, <1>1, <1>c, WrittenTo DEF AllPlain
<1>4. Plain(w[i]) BY <1>0, <1>1 DEF AllPlain
<1>5. got[r] = 0 /\ \A x \in Workers : Unmet(w[x], r) BY <1>0 DEF EarlyUnmet
<1>6. \A s \in Requests : s # r => (Asked(w'[i].stdin, s) => Asked(w[i].stdin, s))
  BY <1>3, <1>c DEF Asked
<1>7. \A s \in Requests : Spoken(w'[i], s) = Spoken(w[i], s) BY <1>3 DEF Spoken
<1>8. Plain(w'[i])
  <2>1. \A n \in DOMAIN w'[i].stdin : NamesRequest(w'[i].stdin[n])
    BY <1>3, <1>4, <1>c DEF Plain, NamesRequest
  <2>2. \A n \in DOMAIN w'[i].commands : NamesRequest(w'[i].commands[n])
    BY <1>3, <1>4 DEF Plain
  <2>3. \A s \in Requests : Asked(w'[i].stdin, s) \/ Asked(w'[i].commands, s)
                               => s \notin w'[i].completed
    BY <1>1, <1>3, <1>4, <1>5, <1>6 DEF Plain, Unmet
  <2> QED BY <1>3, <2>1, <2>2, <2>3 DEF Plain
<1>9. \A s \in Requests : s # r => (Unmet(w[i], s) => Unmet(w'[i], s))
  BY <1>3, <1>6, <1>7 DEF Unmet
<1>10. \A s \in Requests : s # r => Budgeted(w'[i], s, got[s])
  <2> SUFFICES ASSUME NEW s \in Requests, s # r PROVE Budgeted(w'[i], s, got[s])
    OBVIOUS
  <2>1. Budgeted(w[i], s, got[s]) BY <1>0, <1>1 DEF AllBudgeted
  <2> QED BY <2>1, <1>3, <1>6, <1>7 DEF Budgeted
<1>11. Budgeted(w'[i], r, got[r])
  <2>1. Budgeted(w[i], r, got[r]) BY <1>0, <1>1 DEF AllBudgeted
  <2> QED BY <2>1, <1>3, <1>5, <1>7 DEF Budgeted
<1>12. AllPlain' BY <1>0, <1>2, <1>8 DEF AllPlain
<1>13. AllBudgeted' BY <1>0, <1>2, <1>10, <1>11 DEF AllBudgeted
<1>14. OneHome' BY <1>0, <1>2, <1>5, <1>9 DEF OneHome
<1>15. EarlyUnmet' BY <1>0, <1>2, <1>9 DEF EarlyUnmet, EarlyStays
<1>16. Heeds(w[i]) => Heeds(w'[i]) BY <1>3 DEF Heeds
<1>17. HeardKept BY <1>2, <1>16 DEF HeardKept, AllHeed
<1> QED BY <1>12, <1>13, <1>14, <1>15, <1>17 DEF Meters

-----------------------------------------------------------------------------
(* Every step keeps the counts.                                             *)

MetersKept == TypeFlags' /\ Meters' /\ HeardKept

\* What the counts need of the other invariants.
LEMMA MeterFacts ==
  ASSUME WorkInv, PipeInv, AnswerInv, MeterInv
  PROVE  /\ opc \in [Operations -> OpPc] /\ active \in Requests \cup {None}
         /\ TypePipes /\ got \in [Requests -> Nat]
         /\ TypeFlags /\ Meters /\ AllPlain
BY DEF WorkInv, TypeWork, PipeInv, AnswerInv, TypeAnswers, MeterInv, Meters

LEMMA PlaceEarly ==
  ASSUME WorkInv, NEW o \in Operations, NEW place, opc' = [opc EXCEPT ![o] = place],
         o \in Requests /\ place \in Early => opc[o] \in Early
  PROVE  EarlyStays
<1>1. opc'[o] = place /\ \A x \in Operations : x # o => opc'[x] = opc[x]
  BY DEF WorkInv, TypeWork
<1> QED BY <1>1 DEF EarlyStays, Operations

\* No process is concerned, one is stopped, written to or read from.
LEMMA CountsRest ==
  ASSUME WorkInv, PipeInv, AnswerInv, MeterInv, w' = w, got' = got, EarlyStays, TypeFlags'
  PROVE  MetersKept
<1>1. AllMeasured BY MeterFacts, IdleMeters DEF AllMeasured, AllPlain
<1> QED BY <1>1, MeterFacts, MeasuredKeep DEF MetersKept

LEMMA CountsStop ==
  ASSUME WorkInv, PipeInv, AnswerInv, MeterInv, NEW x, StopWorker(x),
         UNCHANGED <<got, events>>, EarlyStays
  PROVE  MetersKept
<1>1. TypeFlags' BY MeterFacts DEF StopWorker, TypeFlags
<1> QED BY <1>1, CountsRest DEF StopWorker

LEMMA CountsReap ==
  ASSUME WorkInv, PipeInv, AnswerInv, MeterInv, NEW i \in Workers, Reap(i)
  PROVE  MetersKept
<1>1. AllMeasured BY MeterFacts, MeterReaps
<1>2. TypeFlags' BY MeterFacts DEF Reap, TypeFlags, adapter
<1>3. EarlyStays /\ got' = got BY DEF Reap, operation, EarlyStays
<1> QED BY <1>1, <1>2, <1>3, MeterFacts, MeasuredKeep DEF MetersKept

LEMMA CountsWrite ==
  ASSUME WorkInv, PipeInv, AnswerInv, MeterInv, NEW cmd \in Commands, SendCommand(cmd),
         cmd.op # "generate", NamesRequest(cmd), UNCHANGED <<loaded, got, events>>,
         selected' \in {selected, None}, EarlyStays
  PROVE  MetersKept
<1>1. TypeFlags' BY MeterFacts DEF TypeFlags
<1>2. AllMeasured BY MeterFacts, MeterWrites
<1> QED BY <1>1, <1>2, MeterFacts, MeasuredKeep DEF MetersKept

LEMMA CountsTake ==
  ASSUME WorkInv, PipeInv, AnswerInv, MeterInv, NEW o \in Operations, NEW e, Reads(o, e), Took(o),
         got' = got, EarlyStays, TypeFlags'
  PROVE  MetersKept
<1>1. src[o] \in Workers /\ w[src[o]].out # <<>>
  BY ReadFinds, MeterFacts DEF TypePipes, Workers
<1>2. AllMeasured BY <1>1, MeterFacts, MeterTakes DEF Took
<1> QED BY <1>2, MeterFacts, MeasuredKeep DEF MetersKept

LEMMA CallsCount ==
  ASSUME WorkInv, PipeInv, AnswerInv, MeterInv, Calls PROVE MetersKept
<1> USE NameAssumption DEF Early
<1>e. Happens => events' \in 0..MaxEvents
  BY MeterFacts, BoundAssumption DEF Happens, TypeFlags
<1>1. ASSUME NEW r \in Requests, NEW v \in Voices, BeginStream(r, v) PROVE MetersKept
  <2>1. EarlyStays BY <1>1, PlaceEarly DEF BeginStream, At, Operations
  <2>2. w' = w /\ got' = got /\ TypeFlags'
    BY <1>1, <1>e, MeterFacts DEF BeginStream, adapter, TypeFlags
  <2> QED BY <2>1, <2>2, CountsRest
<1>2. ASSUME NEW o \in Controls, NEW v \in Voices, NEW k \in Does[o], BeginControl(o, k, v)
      PROVE  MetersKept
  <2>1. PICK place : opc' = [opc EXCEPT ![o] = place] BY <1>2 DEF BeginControl, At
  <2>2. EarlyStays BY <2>1, PlaceEarly DEF Operations
  <2>3. w' = w /\ got' = got /\ TypeFlags'
    BY <1>2, <1>e, MeterFacts DEF BeginControl, adapter, TypeFlags
  <2> QED BY <2>2, <2>3, CountsRest
<1>3. ASSUME NEW c \in Cancels, NEW r \in Requests, CancelBegin(c, r) PROVE MetersKept
  <2>1. EarlyStays BY <1>3 DEF CancelBegin, operation, EarlyStays
  <2>2. w' = w /\ got' = got /\ TypeFlags'
    BY <1>3, <1>e, MeterFacts DEF CancelBegin, adapter, operation, TypeFlags
  <2> QED BY <2>1, <2>2, CountsRest
<1> QED BY <1>1, <1>2, <1>3 DEF Calls

LEMMA CancelCounts ==
  ASSUME WorkInv, PipeInv, AnswerInv, MeterInv, NEW c \in Callers, CancelStep(c) PROVE MetersKept
<1>a. UNCHANGED <<opc, got, events>>
  BY DEF CancelStep, CancelStart, CancelSend, CancelNoWorker, CancelPop, CancelStop, operation
<1>b. EarlyStays BY <1>a DEF EarlyStays
<1>1. CASE CancelStart(c) \/ CancelPop(c)
  <2>1. w' = w /\ UNCHANGED <<loaded, selected>>
    BY <1>1 DEF CancelStart, CancelPop, adapter
  <2>2. TypeFlags' BY <2>1, <1>a, MeterFacts DEF TypeFlags
  <2> QED BY <2>1, <2>2, <1>a, <1>b, CountsRest
<1>2. CASE CancelNoWorker(c) \/ CancelStop(c)
  BY <1>2, <1>a, <1>b, CountsStop DEF CancelNoWorker, CancelStop
<1>3. CASE CancelSend(c)
  <2> DEFINE cmd == Command("cancel", target[c], None)
  <2>1. target[c] \in Requests BY <1>3 DEF CancelSend, AnswerInv, CancelsAim
  <2>2. cmd \in Commands /\ cmd.op = "cancel" /\ NamesRequest(cmd)
    BY <2>1 DEF Command, Commands, Operations, NamesRequest
  <2>3. SendCommand(cmd) /\ UNCHANGED <<loaded, selected>> BY <1>3 DEF CancelSend
  <2> HIDE DEF cmd
  <2> QED BY <2>2, <2>3, <1>a, <1>b, CountsWrite
<1> QED BY <1>1, <1>2, <1>3 DEF CancelStep

LEMMA WorkerCounts ==
  ASSUME WorkInv, PipeInv, AnswerInv, MeterInv, NEW i \in Workers, WorkerStep(i) \/ Fault(i)
  PROVE  MetersKept
<1>t. TypePipes /\ AllSound BY DEF PipeInv
<1>1. w' = [w EXCEPT ![i] = w'[i]] /\ UNCHANGED <<adapter, operation>> BY <1>t, WorkerActs
<1>2. \A x \in Workers : x # i => w'[x] = w[x] BY <1>1, <1>t DEF TypePipes
<1>3. Measured(w[i], w'[i]) BY <1>t, MeterFacts, WorkerMeters
<1>4. AllMeasured BY <1>2, <1>3, MeterFacts, IdleMeters DEF AllMeasured, AllPlain
<1>5. EarlyStays /\ got' = got BY <1>1 DEF EarlyStays, operation
<1>6. events' \in 0..MaxEvents
  <2>1. events \in 0..MaxEvents BY MeterFacts DEF TypeFlags
  <2>2. events' = events \/ Happens
    BY DEF WorkerStep, ReadLine, DispatchLoad, DispatchPrewarm, DispatchGenerate,
       DispatchInvalidate, DispatchUnload, GenerateChunk, GenerateEnd, Fault
  <2> QED BY <2>1, <2>2, BoundAssumption DEF Happens
<1>7. TypeFlags' BY <1>1, <1>6, MeterFacts DEF adapter, TypeFlags
<1> QED BY <1>4, <1>5, <1>7, MeterFacts, MeasuredKeep DEF MetersKept

LEMMA StreamCounts ==
  ASSUME WorkInv, PipeInv, AnswerInv, MeterInv, NEW r \in Requests, StreamStep(r)
  PROVE  MetersKept
<1> USE DEF At, Early
<1>0. r \in Operations /\ TypeFlags /\ opc \in [Operations -> OpPc] BY MeterFacts DEF Operations
<1>1. CASE Register(r)
  <2>1. EarlyStays BY <1>0, <1>1, PlaceEarly DEF Register, AtWork
  <2>2. w' = w /\ got' = got /\ TypeFlags' BY <1>0, <1>1 DEF Register, TypeFlags
  <2> QED BY <2>1, <2>2, CountsRest
<1>2. CASE SendGenerate(r)
  <2>1. /\ opc[r] = "registered" /\ opc' = [opc EXCEPT ![r] = "streaming"]
        /\ SendCommand(Command("generate", r, voice[r]))
        /\ UNCHANGED <<loaded, selected, events, got>>
    BY <1>2 DEF SendGenerate, Issue
  <2>2. EarlyStays BY <2>1, <1>0, PlaceEarly
  <2>3. opc[r] \in Early /\ opc'[r] \notin Early BY <2>1, <1>0
  <2>4. voice[r] \in Voices \cup {None} BY <1>0, MeterFacts DEF TypePipes
  <2>5. TypeFlags' BY <2>1, <1>0 DEF TypeFlags
  <2>6. got' = got BY <2>1
  <2>7. Meters' /\ HeardKept BY <2>1, <2>2, <2>3, <2>4, <2>6, MeterFacts, GenerateKeeps
  <2> QED BY <2>5, <2>7 DEF MetersKept
<1>3. CASE SpawnFails(r)
  <2>1. PICK place \in {"finally", "stopping"} : opc' = [opc EXCEPT ![r] = place]
    BY <1>3 DEF SpawnFails
  <2>2. EarlyStays BY <2>1, <1>0, PlaceEarly
  <2> QED BY <2>2, <1>3, CountsStop DEF SpawnFails
<1>4. CASE ReadChunk(r)
  <2>1. Reads(r, "chunk") /\ Took(r) /\ UNCHANGED <<loaded, selected, events>>
    BY <1>4 DEF ReadChunk, adapter
  <2>2. TypeFlags' BY <2>1, <1>0 DEF TypeFlags
  <2>3. CASE opc[r] = "draining" /\ UNCHANGED <<got, opc>>
    <3>1. EarlyStays BY <2>3 DEF EarlyStays
    <3> QED BY <3>1, <2>1, <2>2, <2>3, <1>0, CountsTake
  <2>4. CASE opc[r] = "streaming" /\ got' = [got EXCEPT ![r] = @ + 1] /\ At(r, "yielded")
    <3>1. EarlyStays BY <2>4, <1>0, PlaceEarly
    <3>2. src[r] \in Workers /\ w[src[r]].out # <<>> /\ Head(w[src[r]].out).event = "chunk"
      BY <2>1, <1>0, ReadFinds, MeterFacts DEF TypePipes, Workers
    <3>3. Head(w[src[r]].out).req = r
      BY <2>1, <3>2 DEF Reads, Expected, Lines
    <3>4. Head(w[src[r]].out) \in Events
      <4>1. w[src[r]].out \in Seq(Events) BY <3>2, MeterFacts, PlainParts DEF AllPlain
      <4> QED BY <4>1, <3>2, Taken
    <3>5. Head(w[src[r]].out) = Event("chunk", r) BY <3>2, <3>3, <3>4 DEF Events, Event
    <3>6. w' = [w EXCEPT ![src[r]].out = Tail(@)] /\ got' = [got EXCEPT ![r] = @ + 1]
      BY <2>1, <2>4 DEF Took
    <3>7. Meters' /\ HeardKept BY <3>1, <3>2, <3>5, <3>6, MeterFacts, YieldKeeps
    <3> QED BY <3>7, <2>2 DEF MetersKept
  <2> QED BY <1>4, <2>3, <2>4 DEF ReadChunk
<1>5. ASSUME NEW e \in Ends, ReadTerminal(r, e) PROVE MetersKept
  <2>1. Reads(r, e) /\ opc' = [opc EXCEPT ![r] = "closing"] /\ UNCHANGED <<got, events>>
    BY <1>5 DEF ReadTerminal
  <2>2. EarlyStays BY <2>1, <1>0, PlaceEarly
  <2>3. CASE StopWorker(r) BY <2>1, <2>2, <2>3, CountsStop
  <2>4. CASE Took(r) /\ UNCHANGED <<worker, loaded, selected, killer>>
    <3>1. TypeFlags' BY <2>1, <2>4, <1>0 DEF TypeFlags
    <3> QED BY <3>1, <2>1, <2>2, <2>4, <1>0, CountsTake
  <2> QED BY <1>5, <2>3, <2>4 DEF ReadTerminal
<1>6. CASE Consume(r)
  <2>1. PICK place \in {"streaming", "finally"} : opc' = [opc EXCEPT ![r] = place]
    BY <1>6 DEF Consume
  <2>2. EarlyStays BY <2>1, <1>0, PlaceEarly
  <2>3. w' = w /\ got' = got /\ TypeFlags' BY <1>0, <1>6 DEF Consume, adapter, TypeFlags
  <2> QED BY <2>2, <2>3, CountsRest
<1>7. CASE Finally(r)
  <2>1. PICK place \in {"abandoning", "closing"} : opc' = [opc EXCEPT ![r] = place]
    BY <1>7 DEF Finally
  <2>2. EarlyStays BY <2>1, <1>0, PlaceEarly
  <2>3. w' = w /\ got' = got /\ TypeFlags' BY <1>0, <1>7 DEF Finally, adapter, TypeFlags
  <2> QED BY <2>2, <2>3, CountsRest
<1>8. CASE Abandon(r)
  <2> DEFINE cmd == Command("cancel", r, voice[r])
  <2>1. /\ SendCommand(cmd) /\ opc' = [opc EXCEPT ![r] = "draining"]
        /\ UNCHANGED <<loaded, selected, events, got>>
    BY <1>8 DEF Abandon, Issue
  <2>2. EarlyStays BY <2>1, <1>0, PlaceEarly
  <2>3. voice[r] \in Voices \cup {None} BY <1>0, MeterFacts DEF TypePipes
  <2>4. cmd \in Commands /\ cmd.op = "cancel" /\ NamesRequest(cmd)
    BY <2>3, <1>0 DEF Command, Commands, NamesRequest
  <2> HIDE DEF cmd
  <2> QED BY <2>1, <2>2, <2>4, CountsWrite
<1>9. CASE Close(r)
  <2>1. EarlyStays BY <1>0, <1>9, PlaceEarly DEF Close, Return
  <2>2. w' = w /\ got' = got /\ TypeFlags' BY <1>0, <1>9 DEF Close, TypeFlags
  <2> QED BY <2>1, <2>2, CountsRest
<1> QED BY <1>1, <1>2, <1>3, <1>4, <1>5, <1>6, <1>7, <1>8, <1>9 DEF StreamStep

\* An order of a control or of a stream that is not its generation.
LEMMA IssueCounts ==
  ASSUME WorkInv, PipeInv, AnswerInv, MeterInv, NEW o \in Operations, NEW op \in Kinds, NEW place,
         Issue(o, op, place), selected' \in {selected, None},
         o \in Requests /\ place \in Early => opc[o] \in Early
  PROVE  MetersKept
<1> DEFINE cmd == Command(op, o, voice[o])
<1>1. /\ SendCommand(cmd) /\ opc' = [opc EXCEPT ![o] = place]
      /\ UNCHANGED <<loaded, events, got>>
  BY DEF Issue, At
<1>2. EarlyStays BY <1>1, PlaceEarly
<1>3. voice[o] \in Voices \cup {None} BY MeterFacts DEF TypePipes
<1>4. cmd \in Commands /\ cmd.op # "generate" /\ NamesRequest(cmd)
  BY <1>3 DEF Command, Commands, NamesRequest, Kinds
<1> HIDE DEF cmd
<1> QED BY <1>1, <1>2, <1>4, CountsWrite

LEMMA ControlCounts ==
  ASSUME WorkInv, PipeInv, AnswerInv, MeterInv, NEW o \in Controls, ControlStep(o)
  PROVE  MetersKept
<1> USE DEF Early
<1>0. o \in Operations /\ o \notin Requests /\ TypeFlags
  BY NameAssumption, MeterFacts DEF Operations
<1>1. CASE CancelledFirst(o)
  <2>1. EarlyStays BY <1>0, <1>1, PlaceEarly DEF CancelledFirst, At
  <2>2. w' = w /\ got' = got /\ TypeFlags' BY <1>0, <1>1 DEF CancelledFirst, adapter, TypeFlags
  <2> QED BY <2>1, <2>2, CountsRest
<1>2. CASE SendInvalidate(o)
  BY <1>2, <1>0, IssueCounts DEF SendInvalidate, Kinds
<1>3. CASE SendUnload(o)
  BY <1>3, <1>0, IssueCounts DEF SendUnload, Kinds
<1>4. CASE ReadUnloaded(o)
  <2>1. Reads(o, "done") /\ Took(o) /\ got' = got BY <1>4 DEF ReadUnloaded
  <2>2. EarlyStays BY <1>0, <1>4, PlaceEarly DEF ReadUnloaded, At
  <2>3. TypeFlags' BY <1>0, <1>4 DEF ReadUnloaded, adapter, TypeFlags
  <2> QED BY <2>1, <2>2, <2>3, <1>0, CountsTake
<1> QED BY <1>1, <1>2, <1>3, <1>4 DEF ControlStep

LEMMA OperationCounts ==
  ASSUME WorkInv, PipeInv, AnswerInv, MeterInv, NEW o \in Operations, OperationStep(o)
  PROVE  MetersKept
<1> USE DEF At, Return, Early
<1>0. TypeFlags /\ opc \in [Operations -> OpPc] BY MeterFacts
<1>v. voice[o] \in Voices \cup {None} BY MeterFacts DEF TypePipes
<1>1. CASE Lock(o)
  <2>1. EarlyStays BY <1>1, PlaceEarly DEF Lock
  <2>2. w' = w /\ got' = got /\ TypeFlags' BY <1>0, <1>1 DEF Lock, TypeFlags
  <2> QED BY <2>1, <2>2, CountsRest
<1>2. CASE SendLoad(o)
  BY <1>2, IssueCounts DEF SendLoad, SendsLoad, Kinds
<1>3. CASE SendPrewarm(o)
  BY <1>3, IssueCounts DEF SendPrewarm, Kinds
<1>4. CASE NothingToDo(o)
  <2>1. EarlyStays BY <1>4, PlaceEarly DEF NothingToDo
  <2>2. w' = w /\ got' = got /\ UNCHANGED <<loaded, events>> BY <1>4 DEF NothingToDo
  <2>3. selected' \in {selected, None} BY <1>4 DEF NothingToDo
  <2>4. TypeFlags' BY <2>2, <2>3, <1>0 DEF TypeFlags
  <2> QED BY <2>1, <2>2, <2>4, CountsRest
<1>5. CASE StopAtOnce(o)
  <2>1. EarlyStays BY <1>5, PlaceEarly DEF StopAtOnce
  <2> QED BY <2>1, <1>5, CountsStop DEF StopAtOnce
<1>6. CASE Capture(o)
  <2>1. EarlyStays BY <1>6 DEF Capture, EarlyStays
  <2>2. w' = w /\ got' = got /\ TypeFlags' BY <1>0, <1>6 DEF Capture, adapter, TypeFlags
  <2> QED BY <2>1, <2>2, CountsRest
<1>r. ASSUME Raise(o) PROVE EarlyStays
  <2>1. PICK place \in {"finally", "stopping", "leaving"} : opc' = [opc EXCEPT ![o] = place]
    BY <1>r DEF Raise
  <2> QED BY <2>1, PlaceEarly
<1>7. CASE NoQueue(o)
  <2>1. EarlyStays BY <1>7, <1>r DEF NoQueue
  <2>2. w' = w /\ got' = got /\ TypeFlags' BY <1>0, <1>7 DEF NoQueue, adapter, TypeFlags
  <2> QED BY <2>1, <2>2, CountsRest
<1>8. CASE ReadFails(o)
  <2>1. EarlyStays BY <1>8, <1>r DEF ReadFails
  <2> QED BY <2>1, <1>8, CountsStop DEF ReadFails
<1>9. CASE ReadLoaded(o)
  <2>1. /\ Reads(o, "loaded") /\ Took(o) /\ loaded' = TRUE
        /\ UNCHANGED <<selected, got, events>>
    BY <1>9 DEF ReadLoaded
  <2>2. opc[o] = "loading" BY <2>1, ReadFinds
  <2>3. PICK place \in {"done", "ready"} : opc' = [opc EXCEPT ![o] = place]
    BY <1>9 DEF ReadLoaded
  <2>4. EarlyStays BY <2>2, <2>3, PlaceEarly
  <2>5. TypeFlags' BY <2>1, <1>0 DEF TypeFlags
  <2> QED BY <2>1, <2>4, <2>5, CountsTake
<1>10. CASE ReadLoadFailed(o)
  <2>1. EarlyStays BY <1>10, PlaceEarly DEF ReadLoadFailed
  <2> QED BY <2>1, <1>10, CountsStop DEF ReadLoadFailed
<1>11. CASE ReadPrompt(o)
  <2>1. PICK e : Reads(o, e) BY <1>11 DEF ReadPrompt
  <2>2. Took(o) /\ UNCHANGED <<loaded, got, events>> BY <1>11 DEF ReadPrompt
  <2>3. selected' \in {selected, voice[o], None} BY <1>11 DEF ReadPrompt
  <2>4. EarlyStays BY <1>11, PlaceEarly DEF ReadPrompt
  <2>5. TypeFlags' BY <2>2, <2>3, <1>0, <1>v DEF TypeFlags
  <2> QED BY <2>1, <2>2, <2>4, <2>5, CountsTake
<1>12. CASE Stop(o)
  <2>1. PICK place \in {"leaving", "closing"} : opc' = [opc EXCEPT ![o] = place]
    BY <1>12 DEF Stop
  <2>2. EarlyStays BY <2>1, PlaceEarly
  <2> QED BY <2>2, <1>12, CountsStop DEF Stop
<1>13. CASE Leave(o)
  <2>1. EarlyStays BY <1>13, PlaceEarly DEF Leave
  <2>2. w' = w /\ got' = got /\ TypeFlags' BY <1>0, <1>13 DEF Leave, TypeFlags
  <2> QED BY <2>1, <2>2, CountsRest
<1> QED BY <1>1, <1>2, <1>3, <1>4, <1>5, <1>6, <1>7, <1>8, <1>9, <1>10, <1>11, <1>12, <1>13
        DEF OperationStep

LEMMA CountsKept ==
  ASSUME WorkInv, PipeInv, AnswerInv, MeterInv, [Next]_vars PROVE MetersKept
<1>1. CASE UNCHANGED vars
  <2>1. EarlyStays BY <1>1 DEF vars, operation, EarlyStays
  <2>2. w' = w /\ got' = got /\ TypeFlags'
    BY <1>1, MeterFacts DEF vars, adapter, operation, TypeFlags
  <2> QED BY <2>1, <2>2, CountsRest
<1>2. CASE Next
  BY <1>2, CallsCount, StreamCounts, OperationCounts, ControlCounts, CancelCounts, WorkerCounts,
     CountsReap DEF Next
<1> QED BY <1>1, <1>2

LEMMA CountsAtStart == Init => MeterInv /\ AllHeed
<1> SUFFICES ASSUME Init PROVE MeterInv /\ AllHeed
  OBVIOUS
<1>0. /\ w = [i \in Workers |-> Unborn] /\ got = [r \in Requests |-> 0]
      /\ opc = [o \in Operations |-> "idle"]
  BY DEF Init
<1> DEFINE p == Unborn
<1>1. p.life = "unborn" /\ p = [Unborn EXCEPT !.life = p.life] BY DEF Unborn
<1>2. /\ Plain(p) /\ Heeds(p) /\ \A r \in Requests : Unmet(p, r)
      /\ \A r \in Requests, n \in 0..MaxChunks : Budgeted(p, r, n)
  <2> HIDE DEF p
  <2> QED BY <1>1, BareMeters
<1>3. 0 \in 0..MaxChunks BY BoundAssumption
<1>8. \A i \in Workers : w[i] = p BY <1>0 DEF p
<1>9. AllPlain /\ AllBudgeted /\ OneHome /\ EarlyUnmet
  <2> HIDE DEF p
  <2> QED BY <1>0, <1>2, <1>3, <1>8 DEF AllPlain, AllBudgeted, OneHome, EarlyUnmet
<1>10. AllHeed
  <2> HIDE DEF p
  <2> QED BY <1>2, <1>8 DEF AllHeed
<1>11. TypeFlags
  <2>1. loaded = FALSE /\ selected = None /\ events = 0 BY DEF Init
  <2>2. 0 \in 0..MaxEvents BY BoundAssumption
  <2> QED BY <2>1, <2>2 DEF TypeFlags
<1> QED BY <1>9, <1>10, <1>11 DEF MeterInv

\* What all these invariants say together.
ExchangeInv == WorkInv /\ PipeInv /\ AnswerInv /\ MeterInv

LEMMA CountsHold ==
  /\ Init => ExchangeInv /\ AllHeed
  /\ ExchangeInv /\ [Next]_vars => ExchangeInv' /\ HeardKept
<1>1. Init => ExchangeInv /\ AllHeed
  BY ExchangeKept, AnswersAtStart, CountsAtStart DEF ExchangeInv
<1>2. ASSUME ExchangeInv, [Next]_vars PROVE ExchangeInv' /\ HeardKept
  <2>1. WorkInv /\ PipeInv /\ AnswerInv /\ MeterInv BY <1>2 DEF ExchangeInv
  <2>2. WorkInv' /\ PipeInv' BY <2>1, <1>2, ExchangeKept
  <2>3. AnswerInv' BY <2>1, <1>2, AnswersKept
  <2>4. MetersKept BY <2>1, <1>2, CountsKept
  <2>5. MeterInv' BY <2>4 DEF MetersKept, Meters, MeterInv
  <2> QED BY <2>2, <2>3, <2>4, <2>5 DEF ExchangeInv, MetersKept
<1> QED BY <1>1, <1>2

\* They type every variable: what cannot be seen from one step is that a request is never
\* yielded more chunks than the bound of its generation, whatever process answers it, and
\* that only requests are cancelled and generated by a process.
LEMMA ExchangeTypes == ExchangeInv => TypeOK
<1> SUFFICES ASSUME ExchangeInv PROVE TypeOK
  OBVIOUS
<1>0. WorkInv /\ PipeInv /\ AnswerInv /\ MeterInv BY DEF ExchangeInv
<1>1. TypeWork /\ TypePipes /\ TypeAnswers /\ TypeFlags /\ AllPlain /\ AllBudgeted
  BY <1>0 DEF WorkInv, PipeInv, AnswerInv, MeterInv
<1>2. got \in [Requests -> 0..MaxChunks]
  <2> SUFFICES ASSUME NEW r \in Requests PROVE got[r] \in 0..MaxChunks
    BY <1>1 DEF TypeAnswers
  <2>1. 1 \in Workers /\ MaxChunks \in Nat BY BoundAssumption DEF Workers
  <2>2. got[r] \in Nat BY <1>1 DEF TypeAnswers
  <2>3. Cardinality(Spoken(w[1], r)) \in Nat
    <3>1. w[1].out \in Seq(Events) BY <2>1, <1>1, PlainParts DEF AllPlain
    <3> QED BY <3>1, SpokenCounts
  <2>4. got[r] + Cardinality(Spoken(w[1], r)) <= MaxChunks
    BY <2>1, <1>1 DEF AllBudgeted, Budgeted
  <2> QED BY <2>1, <2>2, <2>3, <2>4
<1>3. w \in [Workers -> Process] BY <1>1 DEF TypePipes, AllPlain, Plain
<1>4. /\ worker \in 0..MaxWorkers /\ src \in [Operations -> 0..MaxWorkers]
      /\ voice \in [Operations -> Voices \cup {None}]
      /\ target \in [Callers -> Requests \cup {None}]
      /\ killer \in [Workers -> Threads \cup {None}]
  BY <1>1 DEF TypePipes
<1>5. /\ statuses \in [Requests -> {"cancelled", "already_done", None}]
      /\ cpc \in [Callers -> CancelPc] /\ result \in [Callers -> BOOLEAN \cup {None}]
  BY <1>1 DEF TypeAnswers
<1>6. /\ opc \in [Operations -> OpPc] /\ kind \in [Operations -> Kinds \cup {"stream", None}]
      /\ oplock \in Operations \cup {None} /\ active \in Requests \cup {None}
  BY <1>1 DEF TypeWork
<1>7. /\ loaded \in BOOLEAN /\ selected \in Voices \cup {None} /\ events \in 0..MaxEvents
  BY <1>1 DEF TypeFlags
<1> QED BY <1>2, <1>3, <1>4, <1>5, <1>6, <1>7 DEF TypeOK

\* Every variable keeps its type: no read yields a chunk beyond the bound of its generation,
\* and the worker never takes None or a control for the request of a generation or a cancel.
THEOREM TypeCorrect == Spec => []TypeOK
BY CountsHold, ExchangeTypes, PTL DEF Spec

\* The exchange is sound, for any number of requests, controls and cancels.  What an
\* operation finds in its line queue is for itself, and a cancel that its process has read
\* waits for the generation it is for, stops it or came after it, unless _PENDING_CANCELS
\* was emptied in between, for which that process must have read the cancels of as many
\* requests as the set may hold.
THEOREM ThePipesAreSound == Spec => []PipesAreSound
<1>1. Spec => [](ExchangeInv /\ AllHeed) BY CountsHold, PTL DEF Spec, HeardKept
<1>2. AllHeed => CancelIsHeard BY DEF AllHeed, Heeds, CancelIsHeard
<1> QED BY <1>1, <1>2, ExchangeTypes, AnswersAreOwn, PTL DEF PipesAreSound

=============================================================================
