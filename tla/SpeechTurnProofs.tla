-------------------------- MODULE SpeechTurnProofs --------------------------
(***************************************************************************)
(* Proofs about SpeechTurn, for every queue capacity, reply length and     *)
(* number of cancellations; then about SpokenTurn, where the reply is      *)
(* spoken through Playout: that the peer hears it, and that a turn that    *)
(* was stopped is quiet.                                                   *)
(***************************************************************************)
EXTENDS SpokenTurn, SequenceTheorems, TLAPS

\* Nothing went wrong yet: the turn has no terminal and its worker was not cut off.
Healthy == terminal = None /\ ~killed

\* Segments between the backend's acceptance and the stream: with the worker, and
\* in a blocked put of the stream or of finalize.
Spoken == IF worker = "speaking" THEN 1 ELSE 0
Blocked == IF pc = "putting" \/ fin = "putting" THEN 1 ELSE 0

\* Where the stream and finalize are while the turn is healthy.
HealthyStream ==
    Healthy =>
        /\ worker # "done"
        /\ pc \in {"generating", "putting", "waiting", "done"}
        /\ pc = "done" => nextOrdinal = 0
        /\ pc \in {"generating", "putting", "done"} => fin = "none" /\ ~closed
        /\ pc = "waiting" => fin \in {"putting", "waiting"} /\ nextOrdinal > 0
        /\ pc = "putting" => held = [ordinal |-> nextOrdinal - 1, final |-> FALSE]

\* The segments of a healthy turn are in line without a gap: accepted by the
\* backend, with the worker, queued, blocked.
InLine ==
    Healthy =>
        /\ \A n \in 1..Len(accepted) : accepted[n] = n - 1
        /\ worker = "speaking" => item # None /\ item.ordinal = Len(accepted)
        /\ \A i \in 1..Len(queue) : queue[i].ordinal = Len(accepted) + Spoken + i - 1
        /\ nextOrdinal = Len(accepted) + Spoken + Len(queue) + Blocked

\* Only the last segment in line is the final chunk.
FinalIsLast ==
    Healthy =>
        /\ \A i \in 1..Len(queue) :
              queue[i].final => i = Len(queue) /\ fin = "waiting"
        /\ (worker = "speaking" /\ item.final) => queue = <<>> /\ fin = "waiting"

\* A normal terminal is the worker's, and the worker is gone.
NormalEnd ==
    terminal = "normal" =>
        /\ worker = "done" /\ ~killed
        /\ Len(accepted) = nextOrdinal
        /\ \A n \in 1..nextOrdinal : accepted[n] = n - 1

\* What a task that ended, or is ending, tells of the worker.
WorkerGone ==
    /\ (worker = "none") <=> (nextOrdinal = 0)
    /\ worker = "none" => ~killed /\ queue = <<>>
    /\ worker = "speaking" => item # None
    /\ terminal # None => worker \notin Live
    /\ pc \in {"awaiting", "recording", "done"} => worker \notin Live
    /\ fin = "done" => worker \notin Live
    /\ cancelTask # "none" => worker \notin Live /\ closed
    /\ pc \in {"gathering", "awaiting"} => closed
    /\ pc \in {"generating", "putting"} => fin = "none"

\* Bounds of the ordinals.
OrdinalBounds ==
    /\ pc \in {"generating", "putting"} => nextOrdinal <= MaxSegments
    /\ pc = "putting" => held # None /\ worker # "none"
    /\ fin = "putting" => nextOrdinal > 0

Inv ==
    /\ TypeOK /\ HealthyStream /\ InLine /\ FinalIsLast /\ NormalEnd
    /\ WorkerGone /\ OrdinalBounds
-----------------------------------------------------------------------------
(* Sequences *)

\* What Append does to a queue or to a log of ordinals.
LEMMA AppendFacts ==
    ASSUME NEW S, NEW q \in Seq(S), NEW e \in S
    PROVE  /\ Append(q, e) \in Seq(S)
           /\ Len(Append(q, e)) = Len(q) + 1
           /\ Append(q, e)[Len(q) + 1] = e
           /\ \A i \in 1..Len(q) : Append(q, e)[i] = q[i]
  OBVIOUS

\* What taking the head of a queue leaves.
LEMMA TailFacts ==
    ASSUME NEW S, NEW q \in Seq(S), q # <<>>
    PROVE  /\ Len(q) \in Nat /\ Len(q) > 0
           /\ Head(q) \in S /\ Head(q) = q[1]
           /\ Tail(q) \in Seq(S)
           /\ Len(Tail(q)) = Len(q) - 1
           /\ \A i \in 1..Len(Tail(q)) : Tail(q)[i] = q[i + 1]
  OBVIOUS

\* None is not a segment.
LEMMA NoneIsNoItem == None \notin Items
  BY NoneAssumption, SegmentsAssumption DEF Items

\* A queue with room takes one more segment.
LEMMA RoomForOne ==
    ASSUME TypeOK, Room, NEW e \in Items
    PROVE  Append(queue, e) \in Seq(Items) /\ Len(Append(queue, e)) <= QueueCapacity
<1>1. queue \in Seq(Items) /\ Len(queue) \in Nat /\ Len(queue) < QueueCapacity
  BY DEF TypeOK, Room
<1>2. Append(queue, e) \in Seq(Items) /\ Len(Append(queue, e)) = Len(queue) + 1
  BY <1>1, AppendFacts
<1> QED
  BY <1>1, <1>2, CapacityAssumption

\* A discarded queue is a queue.
LEMMA Discarded == <<>> \in Seq(Items) /\ Len(<<>>) <= QueueCapacity
  BY CapacityAssumption, EmptySeq

\* What cancel() leaves in the variables it sets.
LEMMA EnterCancelTypes ==
    ASSUME TypeOK, NEW f \in {"try", "handler", "finally"}, EnterCancel(f)
    PROVE  /\ closed' \in BOOLEAN /\ killed' \in BOOLEAN
           /\ frame' \in {"try", "handler", "finally"}
           /\ held' \in Items \cup {None}
           /\ cancelTask' \in {"none", "running", "done"}
           /\ pc' \in {"gathering", "awaiting"}
<1>1. killed' \in BOOLEAN
  BY DEF TypeOK, EnterCancel
<1>2. closed' \in BOOLEAN /\ frame' \in {"try", "handler", "finally"}
  BY DEF EnterCancel
<1>3. held' \in Items \cup {None} /\ pc' \in {"gathering", "awaiting"}
  BY DEF EnterCancel
<1>4. cancelTask' \in {"none", "running", "done"}
  BY DEF TypeOK, EnterCancel
<1> QED
  BY <1>1, <1>2, <1>3, <1>4

\* Every step keeps the types and the queue's capacity.
LEMMA TypeStep == Inv /\ [Next]_vars => TypeOK'
<1> SUFFICES ASSUME Inv, [Next]_vars PROVE TypeOK'
  OBVIOUS
<1>t. TypeOK /\ OrdinalBounds /\ WorkerGone
  BY DEF Inv
<1>n. None \notin Items
  BY NoneAssumption, SegmentsAssumption DEF Items
<1>1. CASE Segment
  <2>1. nextOrdinal' \in 0..(MaxSegments + 1) /\ NewSubmission(FALSE) \in Items
    BY <1>1, <1>t, SegmentsAssumption DEF Segment, TypeOK, NewSubmission, Items
  <2>2. CASE Room
    <3>1. queue' = Append(queue, NewSubmission(FALSE))
      BY <1>1, <2>2 DEF Segment, Put
    <3>2. queue' \in Seq(Items) /\ Len(queue') <= QueueCapacity
      BY <2>1, <2>2, <3>1, <1>t, RoomForOne
    <3>3. worker' \in {"none", "done"} \cup Live /\ UNCHANGED <<pc, held>>
      BY <1>1, <2>2, <1>t DEF Segment, Put, TypeOK, Live
    <3> QED
      BY <1>1, <2>1, <3>2, <3>3, <1>t DEF Segment, TypeOK, backend
  <2>3. CASE ~Room
    <3>1. pc' = "putting" /\ held' \in Items /\ UNCHANGED <<queue, worker>>
      BY <1>1, <2>1, <2>3 DEF Segment
    <3> QED
      BY <1>1, <2>1, <3>1, <1>t DEF Segment, TypeOK, backend
  <2> QED
    BY <2>2, <2>3
<1>2. CASE SegmentRefused
  BY <1>2, <1>t, EnterCancelTypes DEF SegmentRefused, TypeOK, backend
<1>3. CASE PutResumes
  <2>1. queue' = Append(queue, held) /\ held \in Items
    BY <1>3, <1>t, <1>n DEF PutResumes, TypeOK, OrdinalBounds
  <2>2. queue' \in Seq(Items) /\ Len(queue') <= QueueCapacity
    BY <1>3, <2>1, <1>t, RoomForOne DEF PutResumes
  <2>3. CASE terminal = None
    BY <1>3, <2>2, <2>3, <1>t DEF PutResumes, TypeOK, backend
  <2>4. CASE terminal # None
    <3>1. EnterCancel("handler")
      BY <1>3, <2>4 DEF PutResumes
    <3> QED
      BY <1>3, <2>2, <3>1, <1>t, EnterCancelTypes DEF PutResumes, TypeOK, backend
  <2> QED
    BY <2>3, <2>4
<1>4. CASE GenerationFails
  <2>1. CASE nextOrdinal = 0
    BY <1>4, <2>1, <1>t DEF GenerationFails, TypeOK, backend
  <2>2. CASE nextOrdinal # 0
    <3>1. EnterCancel("try")
      BY <1>4, <2>2 DEF GenerationFails
    <3> QED
      BY <1>4, <3>1, <1>t, EnterCancelTypes DEF GenerationFails, TypeOK, backend
  <2> QED
    BY <2>1, <2>2
<1>5. CASE GenerationEnds
  <2>1. CASE Open /\ Room
    <3>1. nextOrdinal' \in 0..(MaxSegments + 1) /\ NewSubmission(TRUE) \in Items
      BY <1>5, <2>1, <1>t, SegmentsAssumption
         DEF GenerationEnds, TypeOK, OrdinalBounds, NewSubmission, Items
    <3>2. queue' = Append(queue, NewSubmission(TRUE))
      BY <1>5, <2>1 DEF GenerationEnds, Put
    <3>3. queue' \in Seq(Items) /\ Len(queue') <= QueueCapacity
      BY <2>1, <3>1, <3>2, <1>t, RoomForOne
    <3>4. worker' \in {"none", "done"} \cup Live /\ closed' \in BOOLEAN
      BY <1>5, <2>1, <1>t DEF GenerationEnds, Put, TypeOK, Live
    <3> QED
      BY <1>5, <2>1, <3>1, <3>3, <3>4, <1>t DEF GenerationEnds, TypeOK, backend
  <2>2. CASE Open /\ ~Room
    <3>1. nextOrdinal' \in 0..(MaxSegments + 1)
      BY <1>5, <2>2, <1>t, SegmentsAssumption DEF GenerationEnds, TypeOK, OrdinalBounds
    <3> QED
      BY <1>5, <2>2, <3>1, <1>t DEF GenerationEnds, TypeOK, backend
  <2>3. CASE ~Open
    BY <1>5, <2>3, <1>t DEF GenerationEnds, TypeOK, backend
  <2> QED
    BY <2>1, <2>2, <2>3
<1>6. CASE FinalizePuts
  <2> DEFINE last == [ordinal |-> nextOrdinal - 1, final |-> TRUE]
  <2>1. queue' = Append(queue, last) /\ last \in Items
    BY <1>6, <1>t, SegmentsAssumption DEF FinalizePuts, TypeOK, OrdinalBounds, Items
  <2>2. queue' \in Seq(Items) /\ Len(queue') <= QueueCapacity
    <3> HIDE DEF last
    <3> QED
      BY <1>6, <2>1, <1>t, RoomForOne DEF FinalizePuts
  <2> QED
    BY <1>6, <2>2, <1>t DEF FinalizePuts, TypeOK, speaker, stream, backend
<1>7. CASE FinalizeReturns
  BY <1>7, <1>t DEF FinalizeReturns, TypeOK, speaker, stream, backend
<1>8. CASE WorkerStarts
  BY <1>8, <1>t DEF WorkerStarts, TypeOK, Live, turn, stream, backend
<1>9. CASE WorkerGets
  <2>1. /\ Head(queue) \in Items /\ Tail(queue) \in Seq(Items)
        /\ Len(Tail(queue)) <= QueueCapacity
    BY <1>9, <1>t, TailFacts, CapacityAssumption DEF WorkerGets, TypeOK
  <2>2. Append(sent, Head(queue).ordinal) \in Seq(0..MaxSegments)
    BY <2>1, <1>t DEF Items, TypeOK
  <2>3. CASE terminal # None
    <3>1. /\ queue' \in Seq(Items) /\ Len(queue') <= QueueCapacity
          /\ worker' = "done" /\ item' = None /\ terminal' = terminal /\ sent' = sent
      BY <1>9, <2>3, Discarded DEF WorkerGets, WorkerEnds
    <3> QED
      BY <1>9, <3>1, <1>t DEF WorkerGets, TypeOK, stream
  <2>4. CASE terminal = None
    <3>1. /\ queue' = Tail(queue) /\ item' = Head(queue) /\ worker' = "speaking"
          /\ terminal' = terminal /\ sent' = Append(sent, Head(queue).ordinal)
      BY <1>9, <2>4 DEF WorkerGets
    <3> QED
      BY <1>9, <2>1, <2>2, <3>1, <1>t DEF WorkerGets, TypeOK, Live, stream
  <2> QED
    BY <2>3, <2>4
<1>10. CASE WorkerCancelled
  <2>1. queue' \in Seq(Items) /\ Len(queue') <= QueueCapacity
    BY <1>10, <1>t, Discarded DEF WorkerCancelled, WorkerEnds, TypeOK
  <2> QED
    BY <1>10, <2>1, <1>t DEF WorkerCancelled, WorkerEnds, TypeOK, stream, backend
<1>11. CASE Poll
  <2>1. CASE fin = "done"
    BY <1>11, <2>1, <1>t DEF Poll, TypeOK, backend
  <2>2. CASE fin = "raised"
    <3>1. EnterCancel("handler")
      BY <1>11, <2>2 DEF Poll
    <3> QED
      BY <1>11, <3>1, <1>t, EnterCancelTypes DEF Poll, TypeOK, backend
  <2> QED
    BY <1>11, <2>1, <2>2 DEF Poll
<1>12. CASE Record
  BY <1>12, <1>t DEF Record, TypeOK, turn, speaker, backend
<1>13. CASE Gathered
  BY <1>13, <1>t DEF Gathered, TypeOK, turn, speaker, backend
<1>14. CASE CancelReturns
  <2>1. queue' \in Seq(Items) /\ Len(queue') <= QueueCapacity
    BY <1>14, Discarded DEF CancelReturns
  <2> QED
    BY <1>14, <2>1, <1>t DEF CancelReturns, TypeOK, speaker, backend
<1>15. CASE BackendCancelled
  BY <1>15, <1>t DEF BackendCancelled, TypeOK, turn, speaker, stream, backend
<1>16. CASE StreamCancelled
  <2>1. cancels' \in 0..MaxCancels
    BY <1>16, <1>t, CancelsAssumption DEF TypeOK, StreamCancelled, CanBeCancelled
  <2>2. CASE nextOrdinal = 0
    BY <1>16, <2>1, <2>2, <1>t DEF StreamCancelled, TypeOK, backend
  <2>3. CASE nextOrdinal # 0
    <3>1. EnterCancel("handler")
      BY <1>16, <2>3 DEF StreamCancelled
    <3> QED
      BY <1>16, <2>1, <3>1, <1>t, EnterCancelTypes DEF StreamCancelled, TypeOK, backend
  <2> QED
    BY <2>2, <2>3
<1>17. CASE StreamClosed
  <2>1. cancels' \in 0..MaxCancels
    BY <1>17, <1>t, CancelsAssumption DEF TypeOK, StreamClosed, CanBeCancelled
  <2>2. CASE nextOrdinal = 0 \/ terminal # None
    BY <1>17, <2>1, <2>2, <1>t DEF StreamClosed, Leave, TypeOK, backend
  <2>3. CASE ~(nextOrdinal = 0 \/ terminal # None)
    <3>1. EnterCancel("finally")
      BY <1>17, <2>3 DEF StreamClosed, Leave
    <3> QED
      BY <1>17, <2>1, <3>1, <1>t, EnterCancelTypes DEF StreamClosed, TypeOK, backend
  <2> QED
    BY <2>2, <2>3
<1>18. CASE GatherCancelled
  <2>1. cancels' \in 0..MaxCancels
    BY <1>18, <1>t, CancelsAssumption DEF TypeOK, GatherCancelled, CanBeCancelled
  <2>2. CASE pc' = "done" /\ UNCHANGED <<closed, held, frame, killed, cancelTask>>
    BY <1>18, <2>1, <2>2, <1>t DEF GatherCancelled, TypeOK, backend
  <2>3. CASE EnterCancel("handler") \/ EnterCancel("finally")
    BY <1>18, <2>1, <2>3, <1>t, EnterCancelTypes DEF GatherCancelled, TypeOK, backend
  <2> QED
    BY <1>18, <2>2, <2>3 DEF GatherCancelled, Leave
<1>19. CASE \E response \in {"normal", "cancelled", "error"} : WorkerSpoke(response)
  <2>1. PICK response \in {"normal", "cancelled", "error"} : WorkerSpoke(response)
    BY <1>19
  <2>2. item.ordinal \in 0..MaxSegments
    BY <2>1, <1>t DEF WorkerSpoke, TypeOK, WorkerGone, Items
  <2>3. accepted' \in Seq(0..MaxSegments)
    <3>1. accepted \in Seq(0..MaxSegments)
      BY <1>t DEF TypeOK
    <3>2. Append(accepted, item.ordinal) \in Seq(0..MaxSegments)
      BY <2>2, <3>1, AppendFacts
    <3> QED
      BY <2>1, <3>1, <3>2 DEF WorkerSpoke
  <2>4. CASE KeepsSpeaking(response)
    BY <2>1, <2>3, <2>4, <1>t DEF WorkerSpoke, TypeOK, Live, stream
  <2>5. CASE ~KeepsSpeaking(response)
    <3>1. /\ queue' \in Seq(Items) /\ Len(queue') <= QueueCapacity
          /\ worker' = "done" /\ item' = None /\ terminal' = response
      BY <2>1, <2>5, Discarded DEF WorkerSpoke, WorkerEnds
    <3> QED
      BY <2>1, <2>3, <3>1, <1>t DEF WorkerSpoke, TypeOK, stream
  <2> QED
    BY <2>4, <2>5
<1>20. CASE UNCHANGED vars
  BY <1>20, <1>t DEF TypeOK, vars, turn, speaker, stream, backend
<1> QED
  BY <1>1, <1>2, <1>3, <1>4, <1>5, <1>6, <1>7, <1>8, <1>9, <1>10, <1>11, <1>12, <1>13,
     <1>14, <1>15, <1>16, <1>17, <1>18, <1>19, <1>20
     DEF Next, Generation, Finalize, Worker, Leaving

\* A worker that ended stays ended: neither a late put nor finalize revives it.
LEMMA GoneStep == Inv /\ [Next]_vars => WorkerGone'
<1> SUFFICES ASSUME Inv, [Next]_vars PROVE WorkerGone'
  OBVIOUS
<1>t. /\ WorkerGone /\ nextOrdinal \in Nat /\ Len(<<>>) = 0 /\ QueueCapacity > 0
      /\ queue \in Seq(Items)
  BY CapacityAssumption, EmptySeq DEF Inv, TypeOK
<1>n. None \notin {"normal", "cancelled", "error"}  /\ None \notin Items
  BY NoneAssumption, SegmentsAssumption DEF Items
<1> USE <1>t, <1>n DEF WorkerGone, Live, turn, speaker, stream, backend
<1>1. CASE Segment
  <2>1. CASE Room
    BY <1>1, <2>1 DEF Segment, Put, Open
  <2>2. CASE ~Room
    <3>1. worker # "none"
      BY <2>2 DEF Room
    <3> QED
      BY <1>1, <2>2, <3>1 DEF Segment, Open
  <2> QED
    BY <2>1, <2>2
<1>2. CASE SegmentRefused
  BY <1>2 DEF SegmentRefused, EnterCancel, Open
<1>3. CASE PutResumes
  <2>1. worker # "none"
    BY <1>3 DEF Inv, OrdinalBounds, PutResumes
  <2> QED
    BY <1>3, <2>1 DEF PutResumes, EnterCancel
<1>4. CASE GenerationFails
  BY <1>4 DEF GenerationFails, EnterCancel
<1>5. CASE GenerationEnds
  <2>1. CASE Open /\ Room
    BY <1>5, <2>1 DEF GenerationEnds, Put, Open
  <2>2. CASE Open /\ ~Room
    <3>1. worker # "none"
      BY <2>2 DEF Room
    <3> QED
      BY <1>5, <2>2, <3>1 DEF GenerationEnds, Open
  <2>3. CASE ~Open
    BY <1>5, <2>3 DEF GenerationEnds
  <2> QED
    BY <2>1, <2>2, <2>3
<1>6. CASE FinalizePuts
  <2>1. worker # "none"
    BY <1>6 DEF Inv, OrdinalBounds, FinalizePuts
  <2> QED
    BY <1>6, <2>1 DEF FinalizePuts
<1>7. CASE FinalizeReturns
  BY <1>7 DEF FinalizeReturns
<1>8. CASE WorkerStarts
  BY <1>8 DEF WorkerStarts
<1>9. CASE WorkerGets
  <2>1. Head(queue) # None
    BY <1>9, TailFacts DEF WorkerGets
  <2> QED
    BY <1>9, <2>1 DEF WorkerGets, WorkerEnds
<1>10. CASE WorkerCancelled
  BY <1>10 DEF WorkerCancelled, WorkerEnds
<1>11. CASE Poll
  BY <1>11 DEF Poll, EnterCancel
<1>12. CASE Record
  BY <1>12 DEF Record
<1>13. CASE Gathered
  BY <1>13 DEF Gathered
<1>14. CASE CancelReturns
  BY <1>14 DEF CancelReturns
<1>15. CASE BackendCancelled
  BY <1>15 DEF BackendCancelled
<1>16. CASE StreamCancelled
  BY <1>16 DEF StreamCancelled, EnterCancel
<1>17. CASE StreamClosed
  BY <1>17 DEF StreamClosed, Leave, EnterCancel
<1>18. CASE GatherCancelled
  BY <1>18 DEF GatherCancelled, Leave, EnterCancel
<1>19. CASE \E response \in {"normal", "cancelled", "error"} : WorkerSpoke(response)
  BY <1>19 DEF WorkerSpoke, KeepsSpeaking, WorkerEnds
<1>20. CASE UNCHANGED vars
  BY <1>20 DEF vars
<1> QED
  BY <1>1, <1>2, <1>3, <1>4, <1>5, <1>6, <1>7, <1>8, <1>9, <1>10,
     <1>11, <1>12, <1>13, <1>14, <1>15, <1>16, <1>17, <1>18, <1>19, <1>20
     DEF Next, Generation, Finalize, Worker, Leaving

\* The ordinals stay within the bound of the reply.
LEMMA BoundsStep == Inv /\ [Next]_vars => OrdinalBounds'
<1> SUFFICES ASSUME Inv, [Next]_vars PROVE OrdinalBounds'
  OBVIOUS
<1>t. /\ OrdinalBounds /\ nextOrdinal \in Nat /\ Len(<<>>) = 0 /\ QueueCapacity > 0
      /\ MaxSegments \in Nat
  BY CapacityAssumption, SegmentsAssumption, EmptySeq DEF Inv, TypeOK
<1>w. worker = "none" => queue = <<>>
  BY DEF Inv, WorkerGone
<1> USE <1>t DEF OrdinalBounds, turn, speaker, stream, backend
<1>1. CASE Segment
  <2>1. CASE Room
    BY <1>1, <2>1 DEF Segment, Put
  <2>2. CASE ~Room
    <3>1. worker # "none"
      BY <2>2, <1>w DEF Room
    <3>2. NewSubmission(FALSE) \in [ordinal : Nat, final : BOOLEAN]
      BY DEF NewSubmission
    <3>3. held' # None
      BY <1>1, <2>2, <3>2, NoneAssumption DEF Segment
    <3>4. worker' # "none" /\ nextOrdinal' = nextOrdinal + 1 /\ nextOrdinal < MaxSegments
      BY <1>1, <2>2, <3>1 DEF Segment
    <3> QED
      BY <3>3, <3>4
  <2> QED
    BY <2>1, <2>2
<1>2. CASE SegmentRefused
  BY <1>2 DEF SegmentRefused, EnterCancel, Open
<1>3. CASE PutResumes
  BY <1>3 DEF PutResumes, EnterCancel
<1>4. CASE GenerationFails
  BY <1>4 DEF GenerationFails, EnterCancel
<1>5. CASE GenerationEnds
  <2>1. CASE Open
    BY <1>5, <2>1 DEF GenerationEnds
  <2>2. CASE ~Open
    BY <1>5, <2>2 DEF GenerationEnds
  <2> QED
    BY <2>1, <2>2
<1>6. CASE FinalizePuts
  BY <1>6 DEF FinalizePuts
<1>7. CASE FinalizeReturns
  BY <1>7 DEF FinalizeReturns
<1>8. CASE WorkerStarts
  BY <1>8 DEF WorkerStarts
<1>9. CASE WorkerGets
  BY <1>9 DEF WorkerGets, WorkerEnds
<1>10. CASE WorkerCancelled
  BY <1>10 DEF WorkerCancelled, WorkerEnds
<1>11. CASE Poll
  BY <1>11 DEF Poll, EnterCancel
<1>12. CASE Record
  BY <1>12 DEF Record
<1>13. CASE Gathered
  BY <1>13 DEF Gathered
<1>14. CASE CancelReturns
  BY <1>14 DEF CancelReturns
<1>15. CASE BackendCancelled
  BY <1>15 DEF BackendCancelled
<1>16. CASE StreamCancelled
  BY <1>16 DEF StreamCancelled, EnterCancel
<1>17. CASE StreamClosed
  BY <1>17 DEF StreamClosed, Leave, EnterCancel
<1>18. CASE GatherCancelled
  BY <1>18 DEF GatherCancelled, Leave, EnterCancel
<1>19. CASE \E response \in {"normal", "cancelled", "error"} : WorkerSpoke(response)
  BY <1>19 DEF WorkerSpoke, KeepsSpeaking, WorkerEnds
<1>20. CASE UNCHANGED vars
  BY <1>20 DEF vars
<1> QED
  BY <1>1, <1>2, <1>3, <1>4, <1>5, <1>6, <1>7, <1>8, <1>9, <1>10,
     <1>11, <1>12, <1>13, <1>14, <1>15, <1>16, <1>17, <1>18, <1>19, <1>20
     DEF Next, Generation, Finalize, Worker, Leaving

\* A step that the segments in line do not notice.
LineStays ==
    /\ UNCHANGED <<queue, nextOrdinal, closed, worker, item, held, fin, accepted>>
    /\ pc' = pc \/ (pc = "generating" /\ nextOrdinal = 0 /\ pc' = "done")

\* The steps after which a turn is still healthy: it was before, and everything
\* that cancels, fails or ends it is excluded.
LEMMA HealthySteps ==
    ASSUME Inv, [Next]_vars, Healthy'
    PROVE  /\ Healthy
           /\ \/ Segment \/ (PutResumes /\ pc' = "generating") \/ GenerationEnds
              \/ FinalizePuts \/ WorkerStarts \/ WorkerGets
              \/ WorkerSpoke("normal") /\ ~item.final
              \/ LineStays
<1>i. HealthyStream /\ WorkerGone /\ OrdinalBounds
  BY DEF Inv
<1>n. None \notin {"normal", "cancelled", "error"}
  BY NoneAssumption
<1>h. terminal' = None /\ ~killed'
  BY DEF Healthy
<1>w. worker \in {"none", "done"} \cup Live
  BY DEF Inv, TypeOK
<1> USE <1>i, <1>n, <1>h, <1>w
    DEF Healthy, HealthyStream, WorkerGone, OrdinalBounds, Live, LineStays
<1>1. CASE Segment
  BY <1>1 DEF Segment
<1>2. CASE SegmentRefused
  BY <1>2 DEF SegmentRefused, EnterCancel, Open, turn, speaker, backend
<1>3. CASE PutResumes
  <2>1. terminal = None
    BY <1>3 DEF PutResumes
  <2> QED
    BY <1>3, <2>1 DEF PutResumes
<1>4. CASE GenerationFails
  BY <1>4 DEF GenerationFails, EnterCancel, turn, speaker, backend
<1>5. CASE GenerationEnds
  BY <1>5 DEF GenerationEnds
<1>6. CASE FinalizePuts
  BY <1>6 DEF FinalizePuts, speaker
<1>7. CASE FinalizeReturns
  BY <1>7 DEF FinalizeReturns, speaker
<1>8. CASE WorkerStarts
  BY <1>8 DEF WorkerStarts, turn
<1>9. CASE WorkerGets
  <2>1. killed' = killed /\ terminal' = terminal
    BY <1>9 DEF WorkerGets, WorkerEnds
  <2> QED
    BY <1>9, <2>1
<1>10. CASE WorkerCancelled
  BY <1>10 DEF WorkerCancelled
<1>11. CASE Poll
  BY <1>11 DEF Poll, EnterCancel, turn, speaker, backend
<1>12. CASE Record
  BY <1>12 DEF Record, turn, speaker, backend
<1>13. CASE Gathered
  BY <1>13 DEF Gathered, turn, speaker, backend
<1>14. CASE CancelReturns
  BY <1>14 DEF CancelReturns, turn, speaker, backend
<1>15. CASE BackendCancelled
  BY <1>15 DEF BackendCancelled, stream, turn, speaker, backend
<1>16. CASE StreamCancelled
  BY <1>16 DEF StreamCancelled, EnterCancel, turn, speaker, backend
<1>17. CASE StreamClosed
  BY <1>17 DEF StreamClosed, Leave, EnterCancel, turn, speaker, backend
<1>18. CASE GatherCancelled
  BY <1>18 DEF GatherCancelled, Leave, EnterCancel, turn, speaker, backend
<1>19. CASE \E response \in {"normal", "cancelled", "error"} : WorkerSpoke(response)
  <2>1. PICK response \in {"normal", "cancelled", "error"} : WorkerSpoke(response)
    BY <1>19
  <2>2. KeepsSpeaking(response)
    BY <2>1 DEF WorkerSpoke, WorkerEnds
  <2>3. response = "normal" /\ ~item.final
    BY <2>2 DEF KeepsSpeaking
  <2>4. Healthy
    BY <2>1, <2>2 DEF WorkerSpoke
  <2> QED
    BY <2>1, <2>3, <2>4
<1>20. CASE UNCHANGED vars
  BY <1>20 DEF vars, turn, speaker, stream, backend
<1> QED
  BY <1>1, <1>2, <1>3, <1>4, <1>5, <1>6, <1>7, <1>8, <1>9, <1>10,
     <1>11, <1>12, <1>13, <1>14, <1>15, <1>16, <1>17, <1>18, <1>19, <1>20
     DEF Next, Generation, Finalize, Worker, Leaving

\* The stream and finalize of a healthy turn.
LEMMA StreamStep == Inv /\ [Next]_vars => HealthyStream'
<1> SUFFICES ASSUME Inv, [Next]_vars, Healthy'
             PROVE  /\ worker' # "done"
                    /\ pc' \in {"generating", "putting", "waiting", "done"}
                    /\ pc' = "done" => nextOrdinal' = 0
                    /\ pc' \in {"generating", "putting", "done"} => fin' = "none" /\ ~closed'
                    /\ pc' = "waiting" => fin' \in {"putting", "waiting"} /\ nextOrdinal' > 0
                    /\ pc' = "putting" =>
                          held' = [ordinal |-> nextOrdinal' - 1, final |-> FALSE]
  BY DEF HealthyStream
<1>i. /\ Healthy /\ HealthyStream /\ WorkerGone /\ nextOrdinal \in Nat
      /\ terminal' = None
  BY HealthySteps DEF Inv, TypeOK, Healthy
<1> USE <1>i DEF HealthyStream
<1>1. CASE Segment
  <2>1. CASE Room
    BY <1>1, <2>1 DEF Segment, Put
  <2>2. CASE ~Room
    <3>1. held' = [ordinal |-> nextOrdinal' - 1, final |-> FALSE]
      BY <1>1, <2>2 DEF Segment, NewSubmission
    <3> QED
      BY <1>1, <2>2, <3>1 DEF Segment
  <2> QED
    BY <2>1, <2>2
<1>2. CASE PutResumes /\ pc' = "generating"
  BY <1>2 DEF PutResumes, EnterCancel
<1>3. CASE GenerationEnds
  <2>1. Open
    BY <1>3 DEF GenerationEnds, Open, Healthy
  <2>2. pc' = "waiting" /\ nextOrdinal' = nextOrdinal + 1
    BY <1>3, <2>1 DEF GenerationEnds
  <2>3. worker' # "done" /\ fin' \in {"putting", "waiting"}
    BY <1>3, <2>1 DEF GenerationEnds, Put
  <2> QED
    BY <2>2, <2>3
<1>4. CASE FinalizePuts
  <2>1. pc = "waiting"
    BY <1>4 DEF FinalizePuts
  <2> QED
    BY <1>4, <2>1 DEF FinalizePuts, speaker, stream
<1>5. CASE WorkerStarts
  BY <1>5 DEF WorkerStarts, turn, stream
<1>6. CASE WorkerGets
  <2>1. terminal = None
    BY DEF Healthy
  <2> QED
    BY <1>6, <2>1 DEF WorkerGets, stream
<1>7. CASE WorkerSpoke("normal") /\ ~item.final
  BY <1>7 DEF WorkerSpoke, KeepsSpeaking, stream
<1>8. CASE LineStays
  BY <1>8 DEF LineStays
<1> QED
  BY <1>1, <1>2, <1>3, <1>4, <1>5, <1>6, <1>7, <1>8, HealthySteps

\* Segments of a healthy turn stay in line.
LEMMA LineStep == Inv /\ [Next]_vars => InLine'
<1> SUFFICES ASSUME Inv, [Next]_vars, Healthy'
             PROVE  /\ \A n \in 1..Len(accepted') : accepted'[n] = n - 1
                    /\ worker' = "speaking" => item' # None /\ item'.ordinal = Len(accepted')
                    /\ \A i \in 1..Len(queue') :
                          queue'[i].ordinal = Len(accepted') + Spoken' + i - 1
                    /\ nextOrdinal' = Len(accepted') + Spoken' + Len(queue') + Blocked'
  BY DEF InLine
<1>i. /\ Healthy /\ HealthyStream /\ InLine /\ WorkerGone /\ nextOrdinal \in Nat
      /\ queue \in Seq(Items) /\ Len(queue) \in Nat
      /\ accepted \in Seq(0..MaxSegments) /\ Len(accepted) \in Nat
  BY HealthySteps DEF Inv, TypeOK
<1> DEFINE k == Len(accepted)
<1>l. /\ \A n \in 1..k : accepted[n] = n - 1
      /\ worker = "speaking" => item # None /\ item.ordinal = k
      /\ \A i \in 1..Len(queue) : queue[i].ordinal = k + Spoken + i - 1
      /\ nextOrdinal = k + Spoken + Len(queue) + Blocked
      /\ Spoken \in {0, 1} /\ Blocked \in {0, 1}
  BY <1>i DEF InLine, Spoken, Blocked
\* A put of the next ordinal, when nothing else is blocked afterwards.
<1>p. ASSUME NEW e \in Items, queue' = Append(queue, e), e.ordinal = k + Spoken + Len(queue),
             UNCHANGED <<accepted, item>>, Spoken' = Spoken, Blocked' = 0,
             nextOrdinal' = k + Spoken + Len(queue) + 1,
             worker' = "speaking" => worker = "speaking"
      PROVE  /\ \A n \in 1..Len(accepted') : accepted'[n] = n - 1
             /\ worker' = "speaking" => item' # None /\ item'.ordinal = Len(accepted')
             /\ \A i \in 1..Len(queue') :
                   queue'[i].ordinal = Len(accepted') + Spoken' + i - 1
             /\ nextOrdinal' = Len(accepted') + Spoken' + Len(queue') + Blocked'
  <2>1. /\ Len(queue') = Len(queue) + 1
        /\ queue'[Len(queue) + 1] = e
        /\ \A i \in 1..Len(queue) : queue'[i] = queue[i]
    BY <1>i, <1>p, AppendFacts
  <2>2. Len(accepted') = k
    BY <1>p
  <2>3. \A i \in 1..Len(queue') : queue'[i].ordinal = k + Spoken + i - 1
    <3> TAKE i \in 1..Len(queue')
    <3>1. CASE i = Len(queue) + 1
      BY <2>1, <3>1, <1>p, <1>i, <1>l
    <3>2. CASE i # Len(queue) + 1
      <4>1. i \in 1..Len(queue)
        BY <2>1, <3>2, <1>i
      <4> QED
        BY <2>1, <4>1, <1>l
    <3> QED
      BY <3>1, <3>2
  <2>4. nextOrdinal' = k + Spoken + Len(queue') + Blocked'
    BY <2>1, <1>p, <1>i, <1>l
  <2> QED
    BY <2>2, <2>3, <2>4, <1>p, <1>l
<1>1. CASE Segment
  <2>1. Blocked = 0 /\ pc = "generating" /\ fin = "none" /\ fin' = "none"
    BY <1>1, <1>i DEF Segment, HealthyStream, Blocked
  <2>2. /\ UNCHANGED <<accepted, item>> /\ nextOrdinal' = nextOrdinal + 1
        /\ worker' = "speaking" <=> worker = "speaking"
    BY <1>1 DEF Segment, Put, backend
  <2>3. Spoken' = Spoken
    BY <2>2 DEF Spoken
  <2>4. CASE Room
    <3>1. NewSubmission(FALSE) \in Items /\ NewSubmission(FALSE).ordinal = nextOrdinal
      BY <1>1, <1>i, SegmentsAssumption DEF Segment, NewSubmission, Items
    <3>2. queue' = Append(queue, NewSubmission(FALSE)) /\ Blocked' = 0
      BY <1>1, <2>1, <2>4 DEF Segment, Put, Blocked
    <3>3. /\ nextOrdinal = k + Spoken + Len(queue)
          /\ nextOrdinal' = k + Spoken + Len(queue) + 1
      BY <2>1, <2>2, <1>l, <1>i
    <3> QED
      BY <1>p, <2>2, <2>3, <3>1, <3>2, <3>3
  <2>5. CASE ~Room
    <3>1. Blocked' = 1 /\ UNCHANGED <<queue, worker>>
      BY <1>1, <2>5 DEF Segment, Blocked
    <3> QED
      BY <2>1, <2>2, <2>3, <3>1, <1>l, <1>i
  <2> QED
    BY <2>4, <2>5
<1>2. CASE PutResumes /\ pc' = "generating"
  <2>1. /\ Blocked = 1 /\ Blocked' = 0 /\ fin = "none"
        /\ held = [ordinal |-> nextOrdinal - 1, final |-> FALSE]
    BY <1>2, <1>i DEF PutResumes, HealthyStream, Blocked
  <2>2. /\ UNCHANGED <<accepted, item, nextOrdinal, worker>>
        /\ queue' = Append(queue, held) /\ held \in Items
    BY <1>2, NoneAssumption DEF PutResumes, backend, Inv, TypeOK, OrdinalBounds
  <2>3. Spoken' = Spoken
    BY <2>2 DEF Spoken
  <2>4. /\ held.ordinal = k + Spoken + Len(queue)
        /\ nextOrdinal' = k + Spoken + Len(queue) + 1
    BY <2>1, <2>2, <1>l, <1>i
  <2> QED
    BY <1>p, <2>1, <2>2, <2>3, <2>4
<1>3. CASE GenerationEnds
  <2>1. Blocked = 0 /\ pc = "generating" /\ pc' = "waiting" /\ Open
    BY <1>3, <1>i DEF GenerationEnds, HealthyStream, Blocked, Open, Healthy
  <2>2. /\ UNCHANGED <<accepted, item>> /\ nextOrdinal' = nextOrdinal + 1
        /\ worker' = "speaking" <=> worker = "speaking"
    BY <1>3, <2>1 DEF GenerationEnds, Put, backend
  <2>3. Spoken' = Spoken
    BY <2>2 DEF Spoken
  <2>4. CASE Room
    <3>1. NewSubmission(TRUE) \in Items /\ NewSubmission(TRUE).ordinal = nextOrdinal
      BY <2>1, <1>i, SegmentsAssumption DEF NewSubmission, Items, Inv, OrdinalBounds
    <3>2. queue' = Append(queue, NewSubmission(TRUE)) /\ Blocked' = 0
      BY <1>3, <2>1, <2>4 DEF GenerationEnds, Put, Blocked
    <3>3. /\ nextOrdinal = k + Spoken + Len(queue)
          /\ nextOrdinal' = k + Spoken + Len(queue) + 1
      BY <2>1, <2>2, <1>l, <1>i
    <3> QED
      BY <1>p, <2>2, <2>3, <3>1, <3>2, <3>3
  <2>5. CASE ~Room
    <3>1. Blocked' = 1 /\ UNCHANGED <<queue, worker>>
      BY <1>3, <2>1, <2>5 DEF GenerationEnds, Blocked
    <3> QED
      BY <2>1, <2>2, <2>3, <3>1, <1>l, <1>i
  <2> QED
    BY <2>4, <2>5
<1>4. CASE FinalizePuts
  <2> DEFINE last == [ordinal |-> nextOrdinal - 1, final |-> TRUE]
  <2>1. /\ Blocked = 1 /\ Blocked' = 0 /\ nextOrdinal > 0
        /\ UNCHANGED <<accepted, item, nextOrdinal, worker>>
        /\ queue' = Append(queue, last)
    BY <1>4, <1>i DEF FinalizePuts, HealthyStream, Blocked, speaker, stream, backend
  <2>2. last \in Items /\ last.ordinal = nextOrdinal - 1
    BY <2>1, <1>i, SegmentsAssumption DEF Items, Inv, TypeOK
  <2>3. Spoken' = Spoken
    BY <2>1 DEF Spoken
  <2> HIDE DEF last
  <2>4. /\ last.ordinal = k + Spoken + Len(queue)
        /\ nextOrdinal' = k + Spoken + Len(queue) + 1
    BY <2>1, <2>2, <1>l, <1>i
  <2> QED
    BY <1>p, <2>1, <2>2, <2>3, <2>4
<1>5. CASE WorkerStarts
  <2>1. /\ UNCHANGED <<queue, nextOrdinal, accepted, item, pc, fin>>
        /\ worker = "created" /\ worker' = "getting"
    BY <1>5 DEF WorkerStarts, turn, stream, backend
  <2>2. Spoken' = Spoken /\ Blocked' = Blocked
    BY <2>1 DEF Spoken, Blocked
  <2> QED
    BY <2>1, <2>2, <1>l
<1>6. CASE WorkerGets
  <2>1. /\ queue # <<>> /\ queue' = Tail(queue) /\ item' = Head(queue)
        /\ worker = "getting" /\ worker' = "speaking"
        /\ UNCHANGED <<nextOrdinal, accepted, pc, fin>>
    BY <1>6, <1>i DEF WorkerGets, Healthy, stream
  <2>2. Spoken = 0 /\ Spoken' = 1 /\ Blocked' = Blocked
    BY <2>1 DEF Spoken, Blocked
  <2>3. /\ Len(queue) > 0 /\ Head(queue) \in Items /\ Head(queue) = queue[1]
        /\ Len(queue') = Len(queue) - 1
        /\ \A i \in 1..Len(queue') : queue'[i] = queue[i + 1]
    BY <2>1, <1>i, TailFacts
  <2>4. item' # None
    BY <2>1, <2>3, NoneIsNoItem
  <2>5. item'.ordinal = k
    BY <2>1, <2>2, <2>3, <1>l, <1>i
  <2>6. \A i \in 1..Len(queue') : queue'[i].ordinal = k + 1 + i - 1
    <3> TAKE i \in 1..Len(queue')
    <3>1. i + 1 \in 1..Len(queue) /\ queue'[i] = queue[i + 1]
      BY <2>3, <1>i
    <3>2. queue[i + 1].ordinal = k + Spoken + (i + 1) - 1
      BY <3>1, <1>l
    <3> QED
      BY <2>2, <3>1, <3>2, <1>i
  <2>7. nextOrdinal' = k + 1 + Len(queue') + Blocked'
    BY <2>1, <2>2, <2>3, <1>l, <1>i
  <2> QED
    BY <2>1, <2>2, <2>4, <2>5, <2>6, <2>7, <1>l
<1>7. CASE WorkerSpoke("normal") /\ ~item.final
  <2>1. /\ worker = "speaking" /\ worker' = "getting"
        /\ accepted' = Append(accepted, item.ordinal)
        /\ UNCHANGED <<queue, nextOrdinal, pc, fin>>
    BY <1>7 DEF WorkerSpoke, KeepsSpeaking, stream
  <2>2. Spoken = 1 /\ Spoken' = 0 /\ Blocked' = Blocked
    BY <2>1 DEF Spoken, Blocked
  <2>3. item.ordinal = k /\ item.ordinal \in 0..MaxSegments
    BY <2>1, <1>l DEF Inv, TypeOK, Items
  <2>4. /\ Len(accepted') = k + 1 /\ accepted'[k + 1] = item.ordinal
        /\ \A n \in 1..k : accepted'[n] = accepted[n]
    BY <2>1, <2>3, <1>i, AppendFacts
  <2>5. \A n \in 1..Len(accepted') : accepted'[n] = n - 1
    <3> TAKE n \in 1..Len(accepted')
    <3>1. CASE n = k + 1
      BY <2>3, <2>4, <3>1, <1>i
    <3>2. CASE n # k + 1
      <4>1. n \in 1..k
        BY <2>4, <3>2, <1>i
      <4> QED
        BY <2>4, <4>1, <1>l
    <3> QED
      BY <3>1, <3>2
  <2>6. \A i \in 1..Len(queue') : queue'[i].ordinal = (k + 1) + 0 + i - 1
    BY <2>1, <2>2, <1>l, <1>i
  <2>7. nextOrdinal' = (k + 1) + 0 + Len(queue') + Blocked'
    BY <2>1, <2>2, <1>l, <1>i
  <2> QED
    BY <2>1, <2>2, <2>4, <2>5, <2>6, <2>7
<1>8. CASE LineStays
  <2>1. Spoken' = Spoken /\ Blocked' = Blocked
    BY <1>8 DEF LineStays, Spoken, Blocked
  <2> QED
    BY <1>8, <2>1, <1>l DEF LineStays
<1> QED
  BY <1>1, <1>2, <1>3, <1>4, <1>5, <1>6, <1>7, <1>8, HealthySteps

\* The final chunk stays the last one in line.
LEMMA LastStep == Inv /\ [Next]_vars => FinalIsLast'
<1> SUFFICES ASSUME Inv, [Next]_vars, Healthy'
             PROVE  /\ \A i \in 1..Len(queue') :
                          queue'[i].final => i = Len(queue') /\ fin' = "waiting"
                    /\ (worker' = "speaking" /\ item'.final) =>
                          queue' = <<>> /\ fin' = "waiting"
  BY DEF FinalIsLast
<1>i. /\ Healthy /\ HealthyStream /\ WorkerGone
      /\ queue \in Seq(Items) /\ Len(queue) \in Nat
  BY HealthySteps DEF Inv, TypeOK
<1>l. /\ \A i \in 1..Len(queue) : queue[i].final => i = Len(queue) /\ fin = "waiting"
      /\ (worker = "speaking" /\ item.final) => queue = <<>> /\ fin = "waiting"
  BY <1>i DEF Inv, FinalIsLast
\* A put before the final chunk: nothing in line is final but what is put.
<1>p. ASSUME NEW e \in Items, queue' = Append(queue, e), fin # "waiting",
             item' = item, worker' = "speaking" => worker = "speaking",
             e.final => fin' = "waiting"
      PROVE  /\ \A i \in 1..Len(queue') :
                   queue'[i].final => i = Len(queue') /\ fin' = "waiting"
             /\ (worker' = "speaking" /\ item'.final) => queue' = <<>> /\ fin' = "waiting"
  <2>1. /\ Len(queue') = Len(queue) + 1
        /\ queue'[Len(queue) + 1] = e
        /\ \A i \in 1..Len(queue) : queue'[i] = queue[i]
    BY <1>i, <1>p, AppendFacts
  <2>2. \A i \in 1..Len(queue') : queue'[i].final => i = Len(queue') /\ fin' = "waiting"
    <3> TAKE i \in 1..Len(queue')
    <3>1. CASE i = Len(queue) + 1
      BY <2>1, <3>1, <1>p
    <3>2. CASE i # Len(queue) + 1
      <4>1. i \in 1..Len(queue)
        BY <2>1, <3>2, <1>i
      <4> QED
        BY <2>1, <4>1, <1>l, <1>p
    <3> QED
      BY <3>1, <3>2
  <2> QED
    BY <2>2, <1>l, <1>p
<1>1. CASE Segment
  <2>1. /\ fin = "none" /\ item' = item
        /\ worker' = "speaking" => worker = "speaking"
    BY <1>1, <1>i DEF Segment, Put, HealthyStream
  <2>2. CASE Room
    <3>1. NewSubmission(FALSE) \in Items /\ ~NewSubmission(FALSE).final
      BY <1>1 DEF Segment, NewSubmission, Items, Inv, OrdinalBounds, TypeOK
    <3>2. queue' = Append(queue, NewSubmission(FALSE))
      BY <1>1, <2>2 DEF Segment, Put
    <3> QED
      BY <1>p, <2>1, <3>1, <3>2
  <2>3. CASE ~Room
    BY <1>1, <2>1, <2>3, <1>l DEF Segment
  <2> QED
    BY <2>2, <2>3
<1>2. CASE PutResumes /\ pc' = "generating"
  <2>1. /\ fin = "none" /\ item' = item /\ worker' = worker
        /\ queue' = Append(queue, held)
        /\ held = [ordinal |-> nextOrdinal - 1, final |-> FALSE]
    BY <1>2, <1>i DEF PutResumes, HealthyStream
  <2>2. held \in Items
    BY <1>2, NoneIsNoItem DEF PutResumes, Inv, TypeOK, OrdinalBounds
  <2> QED
    BY <1>p, <2>1, <2>2
<1>3. CASE GenerationEnds
  <2>1. /\ fin = "none" /\ item' = item /\ Open
        /\ worker' = "speaking" => worker = "speaking"
    BY <1>3, <1>i DEF GenerationEnds, Put, HealthyStream, Healthy, Open
  <2>2. CASE Room
    <3>1. NewSubmission(TRUE) \in Items
      BY <1>3 DEF GenerationEnds, NewSubmission, Items, Inv, OrdinalBounds, TypeOK
    <3>2. queue' = Append(queue, NewSubmission(TRUE)) /\ fin' = "waiting"
      BY <1>3, <2>1, <2>2 DEF GenerationEnds, Put
    <3> QED
      BY <1>p, <2>1, <3>1, <3>2
  <2>3. CASE ~Room
    BY <1>3, <2>1, <2>3, <1>l DEF GenerationEnds
  <2> QED
    BY <2>2, <2>3
<1>4. CASE FinalizePuts
  <2> DEFINE last == [ordinal |-> nextOrdinal - 1, final |-> TRUE]
  <2>1. /\ queue' = Append(queue, last) /\ fin = "putting" /\ fin' = "waiting"
        /\ item' = item /\ worker' = worker
    BY <1>4 DEF FinalizePuts, speaker
  <2>2. last \in Items
    BY <1>4, SegmentsAssumption DEF FinalizePuts, Items, Inv, TypeOK, OrdinalBounds
  <2> QED
    BY <1>p, <2>1, <2>2
<1>5. CASE WorkerStarts
  BY <1>5, <1>l DEF WorkerStarts, turn
<1>6. CASE WorkerGets
  <2>1. /\ queue # <<>> /\ queue' = Tail(queue) /\ item' = Head(queue) /\ fin' = fin
    BY <1>6, <1>i DEF WorkerGets, Healthy
  <2>2. /\ Len(queue) > 0 /\ Head(queue) = queue[1]
        /\ queue' \in Seq(Items) /\ Len(queue') = Len(queue) - 1
        /\ \A i \in 1..Len(queue') : queue'[i] = queue[i + 1]
    BY <2>1, <1>i, TailFacts
  <2>3. \A i \in 1..Len(queue') : queue'[i].final => i = Len(queue') /\ fin' = "waiting"
    <3> TAKE i \in 1..Len(queue')
    <3>1. i + 1 \in 1..Len(queue) /\ queue'[i] = queue[i + 1]
      BY <2>2, <1>i
    <3>2. queue[i + 1].final => i + 1 = Len(queue) /\ fin = "waiting"
      BY <3>1, <1>l
    <3>3. i + 1 = Len(queue) => i = Len(queue')
      BY <2>2, <1>i
    <3> QED
      BY <2>1, <3>1, <3>2, <3>3
  <2>4. item'.final => Len(queue') = 0 /\ fin' = "waiting"
    <3>1. 1 \in 1..Len(queue) /\ (1 = Len(queue) => Len(queue') = 0)
      BY <2>2, <1>i
    <3>2. queue[1].final => 1 = Len(queue) /\ fin = "waiting"
      BY <3>1, <1>l
    <3> QED
      BY <2>1, <2>2, <3>1, <3>2
  <2>5. Len(queue') = 0 => queue' = <<>>
    BY <2>2, EmptySeq
  <2> QED
    BY <2>3, <2>4, <2>5
<1>7. CASE WorkerSpoke("normal") /\ ~item.final
  BY <1>7, <1>l DEF WorkerSpoke, KeepsSpeaking
<1>8. CASE LineStays
  BY <1>8, <1>l DEF LineStays
<1> QED
  BY <1>1, <1>2, <1>3, <1>4, <1>5, <1>6, <1>7, <1>8, HealthySteps

\* A turn that ended normally stays as it was when it ended.
LEMMA NormalStays ==
    ASSUME Inv, [Next]_vars, terminal = "normal"
    PROVE  UNCHANGED <<nextOrdinal, worker, killed, accepted>>
<1>i. worker = "done" /\ terminal # None
  BY NoneAssumption DEF Inv, NormalEnd
<1> USE <1>i DEF Live, turn, speaker, backend
<1>1. CASE Segment
  BY <1>1 DEF Segment, Open
<1>2. CASE SegmentRefused
  BY <1>2 DEF SegmentRefused, EnterCancel
<1>3. CASE PutResumes
  BY <1>3 DEF PutResumes, EnterCancel
<1>4. CASE GenerationFails
  BY <1>4 DEF GenerationFails, EnterCancel
<1>5. CASE GenerationEnds
  BY <1>5 DEF GenerationEnds, Open
<1>6. CASE FinalizePuts
  BY <1>6 DEF FinalizePuts
<1>7. CASE FinalizeReturns
  BY <1>7 DEF FinalizeReturns
<1>8. CASE WorkerStarts
  BY <1>8 DEF WorkerStarts
<1>9. CASE WorkerGets
  BY <1>9 DEF WorkerGets
<1>10. CASE WorkerCancelled
  BY <1>10 DEF WorkerCancelled
<1>11. CASE Poll
  BY <1>11 DEF Poll, EnterCancel
<1>12. CASE Record
  BY <1>12 DEF Record
<1>13. CASE Gathered
  BY <1>13 DEF Gathered
<1>14. CASE CancelReturns
  BY <1>14 DEF CancelReturns
<1>15. CASE BackendCancelled
  BY <1>15 DEF BackendCancelled
<1>16. CASE StreamCancelled
  BY <1>16 DEF StreamCancelled, EnterCancel
<1>17. CASE StreamClosed
  BY <1>17 DEF StreamClosed, Leave, EnterCancel
<1>18. CASE GatherCancelled
  BY <1>18 DEF GatherCancelled, Leave, EnterCancel
<1>19. CASE \E response \in {"normal", "cancelled", "error"} : WorkerSpoke(response)
  BY <1>19 DEF WorkerSpoke
<1>20. CASE UNCHANGED vars
  BY <1>20 DEF vars
<1> QED
  BY <1>1, <1>2, <1>3, <1>4, <1>5, <1>6, <1>7, <1>8, <1>9, <1>10,
     <1>11, <1>12, <1>13, <1>14, <1>15, <1>16, <1>17, <1>18, <1>19, <1>20
     DEF Next, Generation, Finalize, Worker, Leaving

\* Only the answer to the final chunk makes a terminal normal.
LEMMA BecomesNormal ==
    ASSUME Inv, [Next]_vars, terminal # "normal", terminal' = "normal"
    PROVE  WorkerSpoke("normal") /\ item.final
<1>n. None # "normal"
  BY NoneAssumption
<1> USE <1>n DEF turn, speaker, backend
<1>1. CASE Segment
  BY <1>1 DEF Segment
<1>2. CASE SegmentRefused
  BY <1>2 DEF SegmentRefused
<1>3. CASE PutResumes
  BY <1>3 DEF PutResumes
<1>4. CASE GenerationFails
  BY <1>4 DEF GenerationFails
<1>5. CASE GenerationEnds
  BY <1>5 DEF GenerationEnds
<1>6. CASE FinalizePuts
  BY <1>6 DEF FinalizePuts
<1>7. CASE FinalizeReturns
  BY <1>7 DEF FinalizeReturns
<1>8. CASE WorkerStarts
  BY <1>8 DEF WorkerStarts
<1>9. CASE WorkerGets
  BY <1>9 DEF WorkerGets, WorkerEnds
<1>10. CASE WorkerCancelled
  BY <1>10 DEF WorkerCancelled, WorkerEnds
<1>11. CASE Poll
  BY <1>11 DEF Poll
<1>12. CASE Record
  BY <1>12 DEF Record
<1>13. CASE Gathered
  BY <1>13 DEF Gathered
<1>14. CASE CancelReturns
  BY <1>14 DEF CancelReturns
<1>15. CASE BackendCancelled
  BY <1>15 DEF BackendCancelled
<1>16. CASE StreamCancelled
  BY <1>16 DEF StreamCancelled
<1>17. CASE StreamClosed
  BY <1>17 DEF StreamClosed
<1>18. CASE GatherCancelled
  BY <1>18 DEF GatherCancelled
<1>19. CASE \E response \in {"normal", "cancelled", "error"} : WorkerSpoke(response)
  BY <1>19 DEF WorkerSpoke, WorkerEnds, KeepsSpeaking
<1>20. CASE UNCHANGED vars
  BY <1>20 DEF vars
<1> QED
  BY <1>1, <1>2, <1>3, <1>4, <1>5, <1>6, <1>7, <1>8, <1>9, <1>10,
     <1>11, <1>12, <1>13, <1>14, <1>15, <1>16, <1>17, <1>18, <1>19, <1>20
     DEF Next, Generation, Finalize, Worker, Leaving

\* A normal terminal is reached only with the whole reply accepted.
LEMMA NormalStep == Inv /\ [Next]_vars => NormalEnd'
<1> SUFFICES ASSUME Inv, [Next]_vars, terminal' = "normal"
             PROVE  /\ worker' = "done" /\ ~killed'
                    /\ Len(accepted') = nextOrdinal'
                    /\ \A n \in 1..nextOrdinal' : accepted'[n] = n - 1
  BY DEF NormalEnd
<1>1. CASE terminal = "normal"
  BY <1>1, NormalStays DEF Inv, NormalEnd
<1>2. CASE terminal # "normal"
  <2>1. WorkerSpoke("normal") /\ item.final
    BY <1>2, BecomesNormal
  <2>2. /\ worker = "speaking" /\ ~killed /\ ~killed' /\ nextOrdinal' = nextOrdinal
        /\ worker' = "done" /\ accepted' = Append(accepted, item.ordinal)
    BY <2>1 DEF WorkerSpoke, KeepsSpeaking, WorkerEnds
  <2>3. Healthy
    BY <2>2 DEF Inv, WorkerGone, Healthy, Live
  <2>4. Spoken = 1 /\ queue = <<>> /\ fin = "waiting"
    BY <2>1, <2>2, <2>3 DEF Inv, FinalIsLast, Spoken
  <2>5. Blocked = 0
    BY <2>4 DEF Inv, WorkerGone, Blocked
  <2>6. /\ accepted \in Seq(0..MaxSegments) /\ Len(accepted) \in Nat
        /\ item.ordinal \in 0..MaxSegments
    BY <2>2 DEF Inv, TypeOK, WorkerGone, Items
  <2>7. /\ item.ordinal = Len(accepted) /\ nextOrdinal = Len(accepted) + 1
        /\ \A n \in 1..Len(accepted) : accepted[n] = n - 1
    BY <2>2, <2>3, <2>4, <2>5, <2>6, EmptySeq DEF Inv, InLine
  <2>8. /\ Len(accepted') = Len(accepted) + 1 /\ accepted'[Len(accepted) + 1] = item.ordinal
        /\ \A n \in 1..Len(accepted) : accepted'[n] = accepted[n]
    BY <2>2, <2>6, AppendFacts
  <2>9. \A n \in 1..nextOrdinal' : accepted'[n] = n - 1
    <3> TAKE n \in 1..nextOrdinal'
    <3>1. CASE n = Len(accepted) + 1
      BY <2>6, <2>7, <2>8, <3>1
    <3>2. CASE n # Len(accepted) + 1
      <4>1. n \in 1..Len(accepted)
        BY <2>2, <2>6, <2>7, <3>2
      <4> QED
        BY <2>7, <2>8, <4>1
    <3> QED
      BY <3>1, <3>2
  <2> QED
    BY <2>2, <2>7, <2>8, <2>9
<1> QED
  BY <1>1, <1>2
-----------------------------------------------------------------------------
(* The theorems *)

\* The initial state satisfies the invariant.
LEMMA InitInv == Init => Inv
<1> SUFFICES ASSUME Init PROVE Inv
  OBVIOUS
<1> USE DEF Init
<1>1. TypeOK
  <2>1. queue \in Seq(Items) /\ Len(queue) <= QueueCapacity
    BY Discarded
  <2>2. sent \in Seq(0..MaxSegments) /\ accepted \in Seq(0..MaxSegments)
    BY EmptySeq
  <2>3. nextOrdinal \in 0..(MaxSegments + 1) /\ cancels \in 0..MaxCancels
    BY SegmentsAssumption, CancelsAssumption
  <2> QED
    BY <2>1, <2>2, <2>3 DEF TypeOK
<1>2. WorkerGone /\ OrdinalBounds
  BY SegmentsAssumption DEF WorkerGone, OrdinalBounds, Live
<1>3. HealthyStream /\ NormalEnd
  BY NoneAssumption DEF HealthyStream, NormalEnd
<1>4. InLine /\ FinalIsLast
  <2>1. Len(queue) = 0 /\ Len(accepted) = 0
    BY EmptySeq
  <2> QED
    BY <2>1 DEF InLine, FinalIsLast, Spoken, Blocked
<1> QED
  BY <1>1, <1>2, <1>3, <1>4 DEF Inv

\* Every step keeps the invariant.
LEMMA InvStep == Inv /\ [Next]_vars => Inv'
BY TypeStep, GoneStep, BoundsStep, StreamStep, LineStep, LastStep, NormalStep DEF Inv

\* The strengthened invariant holds in every behaviour of a speech turn.
THEOREM InvHolds == Spec => []Inv
BY InitInv, InvStep, PTL DEF Spec

\* The types and the capacity of the queue, whatever put, discard or finalize races.
THEOREM TypeCorrect == Spec => []TypeOK
<1>1. Inv => TypeOK
  BY DEF Inv
<1> QED
  BY <1>1, InvHolds, PTL

\* A reply is reported as played only if the backend accepted all of it, in order,
\* for replies and queues of any length.
THEOREM RepliesAreWhole == Spec => []WholeReplySpoken
<1>1. Inv => WholeReplySpoken
  BY DEF Inv, NormalEnd, WholeReplySpoken
<1> QED
  BY <1>1, InvHolds, PTL

\* No worker outlives its stream, however many cancellations reach it.
THEOREM StreamsJoinTheirWorker == Spec => []WorkerEndsWithStream
<1>1. Inv => WorkerEndsWithStream
  BY DEF Inv, WorkerGone, WorkerEndsWithStream
<1> QED
  BY <1>1, InvHolds, PTL

\* After the backend was told to cancel the turn nothing of it is sent.
THEOREM CancelIsLast == Spec => NoSpeakAfterCancel
<1>1. Inv /\ [Next]_vars => [cancelTask # "none" => sent' = sent]_vars
  <2> SUFFICES ASSUME Inv, [Next]_vars, cancelTask # "none" PROVE sent' = sent
    OBVIOUS
  <2>1. worker \notin Live
    BY DEF Inv, WorkerGone
  <2>2. ~WorkerGets
    BY <2>1 DEF WorkerGets, Live
  <2> QED
    BY <2>2 DEF Next, Generation, Finalize, Worker, Leaving, Segment, SegmentRefused,
       PutResumes, GenerationFails, GenerationEnds, FinalizePuts, FinalizeReturns,
       WorkerStarts, WorkerCancelled, WorkerSpoke, Poll, Record, Gathered, CancelReturns,
       BackendCancelled, StreamCancelled, StreamClosed, GatherCancelled, vars, backend
<1> QED
  BY <1>1, InvHolds, PTL DEF Spec, NoSpeakAfterCancel

\* A turn ends clean: its worker is joined before the stream is over, and the backend hears
\* nothing of the turn after it was told to cancel it.
THEOREM TurnsEndClean == Spec => TurnEndsClean
BY StreamsJoinTheirWorker, CancelIsLast, PTL DEF TurnEndsClean
-----------------------------------------------------------------------------
(* Sequences of units *)

\* Units that follow each other up to n; units 1 to n.
LastUnits(s, n) == Len(s) <= n /\ \A i \in 1..Len(s) : s[i] = n - Len(s) + i
Upto(s, n) == Len(s) = n /\ \A i \in 1..n : s[i] = i

\* Rising units, and units that are none after the n-th.
Rising(s) == \A i \in 2..Len(s) : s[i - 1] < s[i]
Under(s, n) == \A i \in 1..Len(s) : s[i] <= n

\* What a concatenation consists of.
LEMMA JoinFacts ==
    ASSUME NEW s \in Seq(Nat), NEW t \in Seq(Nat)
    PROVE  /\ Len(s) \in Nat /\ Len(t) \in Nat
           /\ s \o t \in Seq(Nat)
           /\ Len(s \o t) = Len(s) + Len(t)
           /\ \A i \in 1..Len(s) : (s \o t)[i] = s[i]
           /\ \A i \in 1..Len(t) : (s \o t)[Len(s) + i] = t[i]
<1>1. Len(s) \in Nat /\ Len(t) \in Nat
  BY LenProperties
<1>2. /\ s \o t \in Seq(Nat) /\ Len(s \o t) = Len(s) + Len(t)
      /\ \A i \in 1..(Len(s) + Len(t)) :
            (s \o t)[i] = IF i <= Len(s) THEN s[i] ELSE t[i - Len(s)]
  BY ConcatProperties
<1>3. \A i \in 1..Len(s) : (s \o t)[i] = s[i]
  BY <1>1, <1>2
<1>4. \A i \in 1..Len(t) : (s \o t)[Len(s) + i] = t[i]
  <2> TAKE i \in 1..Len(t)
  <2>1. Len(s) + i \in 1..(Len(s) + Len(t)) /\ ~(Len(s) + i <= Len(s))
    BY <1>1
  <2>2. (Len(s) + i) - Len(s) = i
    BY <1>1
  <2> QED
    BY <1>2, <2>1, <2>2
<1> QED
  BY <1>1, <1>2, <1>3, <1>4

\* Concatenations may be grouped at will.
LEMMA JoinGroups ==
    ASSUME NEW s \in Seq(Nat), NEW t \in Seq(Nat), NEW u \in Seq(Nat)
    PROVE  (s \o t) \o u = s \o (t \o u)
  OBVIOUS

\* The first n units of s and the others.
LEMMA CutFacts ==
    ASSUME NEW s \in Seq(Nat), NEW n \in 0..Len(s)
    PROVE  /\ SubSeq(s, 1, n) \in Seq(Nat) /\ Len(SubSeq(s, 1, n)) = n
           /\ \A i \in 1..n : SubSeq(s, 1, n)[i] = s[i]
           /\ SubSeq(s, n + 1, Len(s)) \in Seq(Nat)
           /\ Len(SubSeq(s, n + 1, Len(s))) = Len(s) - n
           /\ \A i \in 1..(Len(s) - n) : SubSeq(s, n + 1, Len(s))[i] = s[n + i]
<1>1. Len(s) \in Nat /\ n \in Nat /\ n <= Len(s) /\ \A i \in 1..Len(s) : s[i] \in Nat
  BY LenProperties, ElementOfSeq
<1>2. \A i \in 1..n : s[i] \in Nat
  BY <1>1
<1>3. /\ SubSeq(s, 1, n) \in Seq(Nat) /\ Len(SubSeq(s, 1, n)) = (IF 1 <= n THEN n - 1 + 1 ELSE 0)
      /\ \A i \in 1..(n - 1 + 1) : SubSeq(s, 1, n)[i] = s[1 + i - 1]
  BY <1>1, <1>2, SubSeqProperties
<1>4. \A i \in (n + 1)..Len(s) : s[i] \in Nat
  BY <1>1
<1>5. /\ SubSeq(s, n + 1, Len(s)) \in Seq(Nat)
      /\ Len(SubSeq(s, n + 1, Len(s)))
            = (IF n + 1 <= Len(s) THEN Len(s) - (n + 1) + 1 ELSE 0)
      /\ \A i \in 1..(Len(s) - (n + 1) + 1) :
            SubSeq(s, n + 1, Len(s))[i] = s[(n + 1) + i - 1]
  BY <1>1, <1>4, SubSeqProperties
<1>6. Len(SubSeq(s, 1, n)) = n /\ \A i \in 1..n : SubSeq(s, 1, n)[i] = s[i]
  BY <1>1, <1>3
<1>7. /\ Len(SubSeq(s, n + 1, Len(s))) = Len(s) - n
      /\ \A i \in 1..(Len(s) - n) : SubSeq(s, n + 1, Len(s))[i] = s[n + i]
  BY <1>1, <1>5
<1> QED
  BY <1>3, <1>5, <1>6, <1>7

\* The two parts make up s.
LEMMA CutJoins ==
    ASSUME NEW s \in Seq(Nat), NEW n \in 0..Len(s)
    PROVE  SubSeq(s, 1, n) \o SubSeq(s, n + 1, Len(s)) = s
<1>1. Len(s) \in Nat
  BY LenProperties
<1>2. 1 \in 1..(Len(s) + 1) /\ n \in (1 - 1)..Len(s) /\ Len(s) \in n..Len(s)
  BY <1>1
<1>3. SubSeq(s, 1, n) \o SubSeq(s, n + 1, Len(s)) = SubSeq(s, 1, Len(s))
  BY <1>2, ConcatAdjacentSubSeq
<1> QED
  BY <1>3, SubSeqFull

\* Taking and dropping cut.
LEMMA TakeCuts ==
    ASSUME NEW s \in Seq(Nat), NEW k \in Nat
    PROVE  \E n \in 0..Len(s) :
              /\ n <= k /\ (n = k \/ n = Len(s))
              /\ Take(s, k) = SubSeq(s, 1, n)
              /\ n < Len(s) => Drop(s, k) = SubSeq(s, n + 1, Len(s))
              /\ n = Len(s) => Drop(s, k) = <<>>
<1>1. Len(s) \in Nat
  BY LenProperties
<1> DEFINE n == Least(k, Len(s))
<1>2. n \in 0..Len(s) /\ n <= k /\ (n = k \/ n = Len(s)) /\ Take(s, k) = SubSeq(s, 1, n)
  <2>1. n \in 0..Len(s) /\ n <= k /\ (n = k \/ n = Len(s))
    BY <1>1 DEF Least
  <2>2. Take(s, k) = SubSeq(s, 1, n)
    BY DEF Take
  <2> QED
    BY <2>1, <2>2
<1> HIDE DEF n
<1>3. n < Len(s) => Drop(s, k) = SubSeq(s, n + 1, Len(s))
  <2>1. n < Len(s) => n = k
    BY <1>1, <1>2
  <2> QED
    BY <2>1 DEF Drop
<1>4. n = Len(s) => Drop(s, k) = <<>>
  <2> SUFFICES ASSUME n = Len(s) PROVE Drop(s, k) = <<>>
    OBVIOUS
  <2>1. k + 1 \in Int /\ Len(s) \in Int /\ Len(s) < k + 1
    BY <1>1, <1>2
  <2> QED
    BY <2>1, SubSeqEmpty DEF Drop
<1> QED
  BY <1>2, <1>3, <1>4

\* A beginning of a beginning of s is one of s.
LEMMA CutTwice ==
    ASSUME NEW s \in Seq(Nat), NEW n \in 0..Len(s), NEW m \in 0..n
    PROVE  SubSeq(SubSeq(s, 1, n), 1, m) = SubSeq(s, 1, m)
<1>1. Len(s) \in Nat /\ m \in 0..Len(s)
  BY LenProperties
<1> DEFINE t == SubSeq(s, 1, n)
<1>2. t \in Seq(Nat) /\ Len(t) = n /\ \A i \in 1..n : t[i] = s[i]
  BY CutFacts
<1> HIDE DEF t
<1>3. m \in 0..Len(t)
  BY <1>2
<1>4. /\ SubSeq(t, 1, m) \in Seq(Nat) /\ Len(SubSeq(t, 1, m)) = m
      /\ \A i \in 1..m : SubSeq(t, 1, m)[i] = t[i]
  BY <1>2, <1>3, CutFacts
<1>5. /\ SubSeq(s, 1, m) \in Seq(Nat) /\ Len(SubSeq(s, 1, m)) = m
      /\ \A i \in 1..m : SubSeq(s, 1, m)[i] = s[i]
  BY <1>1, CutFacts
<1>6. \A i \in 1..m : SubSeq(t, 1, m)[i] = SubSeq(s, 1, m)[i]
  BY <1>1, <1>2, <1>4, <1>5
<1>7. SubSeq(t, 1, m) = SubSeq(s, 1, m)
  BY <1>4, <1>5, <1>6, SeqEqual
<1> QED
  BY <1>7 DEF t

\* The next units of a run, put behind units that come before it, keep what is known of
\* both: the order, the bound, and that none is missing.
LEMMA Loading ==
    ASSUME NEW p \in Seq(Nat), NEW s \in Seq(Nat), NEW m \in Nat, NEW n \in 0..Len(s),
           LastUnits(s, m), Rising(p), Under(p, m - Len(s))
    PROVE  /\ Rising(p \o SubSeq(s, 1, n))
           /\ Under(p \o SubSeq(s, 1, n), m - (Len(s) - n))
           /\ LastUnits(SubSeq(s, n + 1, Len(s)), m)
           /\ Upto(p, m - Len(s)) => Upto(p \o SubSeq(s, 1, n), m - (Len(s) - n))
<1> DEFINE t == SubSeq(s, 1, n)
           q == p \o t
           k == m - Len(s)
<1>1. /\ Len(s) \in Nat /\ n \in Nat /\ n <= Len(s) /\ Len(s) <= m
      /\ \A i \in 1..Len(s) : s[i] = m - Len(s) + i
  BY LenProperties DEF LastUnits
<1>2. t \in Seq(Nat) /\ Len(t) = n /\ \A i \in 1..n : t[i] = s[i]
  BY CutFacts
<1>3. k \in Nat /\ m - (Len(s) - n) = k + n /\ \A i \in 1..n : t[i] = k + i
  BY <1>1, <1>2
<1> HIDE DEF t
<1>4. /\ Len(p) \in Nat /\ q \in Seq(Nat) /\ Len(q) = Len(p) + n
      /\ \A i \in 1..Len(p) : q[i] = p[i]
      /\ \A i \in 1..n : q[Len(p) + i] = k + i
  BY <1>2, <1>3, JoinFacts
<1>5. /\ \A i \in 2..Len(p) : p[i - 1] < p[i]
      /\ \A i \in 1..Len(p) : p[i] <= k
      /\ \A i \in 1..Len(p) : p[i] \in Nat
  BY ElementOfSeq DEF Rising, Under
<1> HIDE DEF q, k
\* A unit of the whole is one of p or one of the new ones.
<1>6. \A i \in 1..Len(q) : i \in 1..Len(p) \/ i - Len(p) \in 1..n
  BY <1>1, <1>4
<1>7. ASSUME NEW i \in 1..Len(q), i - Len(p) \in 1..n
      PROVE  q[i] = k + (i - Len(p))
  <2>1. q[Len(p) + (i - Len(p))] = k + (i - Len(p))
    BY <1>4, <1>7
  <2>2. Len(p) + (i - Len(p)) = i
    BY <1>4, <1>7
  <2> QED
    BY <2>1, <2>2
<1>8. \A i \in 2..Len(q) : q[i - 1] < q[i]
  <2> TAKE i \in 2..Len(q)
  <2>1. i \in Nat /\ i - 1 \in 1..Len(q) /\ i \in 1..Len(q)
    BY <1>1, <1>4
  <2>2. CASE i \in 1..Len(p)
    <3>1. i \in 2..Len(p) /\ i - 1 \in 1..Len(p)
      BY <2>1, <2>2, <1>4
    <3>2. p[i - 1] < p[i]
      BY <3>1, <1>5
    <3> QED
      BY <3>1, <3>2, <2>2, <1>4
  <2>3. CASE i \notin 1..Len(p)
    <3>1. i - Len(p) \in 1..n
      BY <2>1, <2>3, <1>6
    <3>2. q[i] = k + (i - Len(p))
      BY <2>1, <3>1, <1>7
    <3>3. CASE i - 1 \in 1..Len(p)
      <4>1. q[i - 1] <= k /\ q[i - 1] \in Nat
        BY <3>3, <1>4, <1>5
      <4> QED
        BY <4>1, <3>1, <3>2, <1>3, <1>4
    <3>4. CASE i - 1 \notin 1..Len(p)
      <4>1. (i - 1) - Len(p) \in 1..n
        BY <2>1, <3>4, <1>6
      <4>2. q[i - 1] = k + ((i - 1) - Len(p))
        BY <2>1, <4>1, <1>7
      <4> QED
        BY <4>1, <4>2, <3>1, <3>2, <1>3, <1>4, <2>1
    <3> QED
      BY <3>3, <3>4
  <2> QED
    BY <2>2, <2>3
<1>9. \A i \in 1..Len(q) : q[i] <= k + n
  <2> TAKE i \in 1..Len(q)
  <2>1. CASE i \in 1..Len(p)
    <3>1. q[i] <= k /\ q[i] \in Nat
      BY <2>1, <1>4, <1>5
    <3> QED
      BY <3>1, <1>1, <1>3
  <2>2. CASE i \notin 1..Len(p)
    <3>1. i - Len(p) \in 1..n
      BY <2>2, <1>6
    <3>2. q[i] = k + (i - Len(p))
      BY <3>1, <1>7
    <3> QED
      BY <3>1, <3>2, <1>1, <1>3
  <2> QED
    BY <2>1, <2>2
<1>10. LastUnits(SubSeq(s, n + 1, Len(s)), m)
  <2> DEFINE r == SubSeq(s, n + 1, Len(s))
  <2>1. Len(r) = Len(s) - n /\ \A i \in 1..(Len(s) - n) : r[i] = s[n + i]
    BY CutFacts
  <2> HIDE DEF r
  <2>2. Len(r) <= m
    BY <2>1, <1>1
  <2>3. \A i \in 1..Len(r) : r[i] = m - Len(r) + i
    <3> TAKE i \in 1..Len(r)
    <3>1. n + i \in 1..Len(s) /\ r[i] = s[n + i]
      BY <2>1, <1>1
    <3>2. r[i] = m - Len(s) + (n + i)
      BY <3>1, <1>1
    <3> QED
      BY <3>1, <3>2, <2>1, <1>1
  <2>4. LastUnits(r, m)
    BY <2>2, <2>3 DEF LastUnits
  <2> QED
    BY <2>4 DEF r
<1>11. ASSUME Upto(p, k) PROVE Upto(q, k + n)
  <2>1. Len(p) = k /\ \A i \in 1..k : p[i] = i
    BY <1>11 DEF Upto
  <2>2. Len(q) = k + n
    BY <2>1, <1>4
  <2>3. \A i \in 1..(k + n) : q[i] = i
    <3> TAKE i \in 1..(k + n)
    <3>1. i \in 1..Len(q)
      BY <2>2
    <3>2. CASE i \in 1..Len(p)
      BY <3>2, <2>1, <1>4
    <3>3. CASE i \notin 1..Len(p)
      <4>1. i - Len(p) \in 1..n
        BY <3>1, <3>3, <1>6
      <4>2. q[i] = k + (i - Len(p))
        BY <3>1, <4>1, <1>7
      <4> QED
        BY <4>2, <2>1, <1>3, <1>4
    <3> QED
      BY <3>2, <3>3
  <2> QED
    BY <2>2, <2>3 DEF Upto
<1>12. Rising(q) /\ Under(q, k + n)
  BY <1>8, <1>9 DEF Rising, Under
<1> QED
  BY <1>3, <1>10, <1>11, <1>12 DEF q, k, t

\* The beginning of a rising sequence rises.
LEMMA BeginningRises ==
    ASSUME NEW p \in Seq(Nat), NEW q \in Seq(Nat), NEW m \in Int, Rising(p \o q), Under(p \o q, m)
    PROVE  Rising(p) /\ Under(p, m)
<1>1. /\ Len(p) \in Nat /\ Len(q) \in Nat /\ Len(p \o q) = Len(p) + Len(q)
      /\ \A i \in 1..Len(p) : (p \o q)[i] = p[i]
  BY JoinFacts
<1>2. \A i \in 2..Len(p) : p[i - 1] < p[i]
  <2> TAKE i \in 2..Len(p)
  <2>1. i \in 2..Len(p \o q) /\ i \in 1..Len(p) /\ i - 1 \in 1..Len(p)
    BY <1>1
  <2>2. (p \o q)[i - 1] < (p \o q)[i]
    BY <2>1 DEF Rising
  <2> QED
    BY <2>1, <2>2, <1>1
<1>3. \A i \in 1..Len(p) : p[i] <= m
  <2> TAKE i \in 1..Len(p)
  <2>1. i \in 1..Len(p \o q)
    BY <1>1
  <2>2. (p \o q)[i] <= m
    BY <2>1 DEF Under
  <2> QED
    BY <2>2, <1>1
<1> QED
  BY <1>2, <1>3 DEF Rising, Under

\* A weaker bound.
LEMMA UnderMore ==
    ASSUME NEW p \in Seq(Nat), NEW m \in Int, NEW n \in Int, m <= n, Under(p, m)
    PROVE  Under(p, n)
<1> SUFFICES ASSUME NEW i \in 1..Len(p) PROVE p[i] <= n
  BY DEF Under
<1>1. p[i] \in Nat /\ p[i] <= m
  BY ElementOfSeq DEF Under
<1> QED
  BY <1>1
-----------------------------------------------------------------------------
(* The audio of a chunk *)

\* The units of a new chunk are the next ones.
LEMMA NewUnitsFacts ==
    ASSUME made \in Nat
    PROVE  /\ NewUnits \in Seq(Nat) /\ Len(NewUnits) = ChunkSize
           /\ LastUnits(NewUnits, made + ChunkSize)
<1>1. ChunkSize \in Nat /\ ChunkSize > 0
  BY AudioAssumption
<1>2. \A i \in 1..ChunkSize : made + i \in Nat
  BY <1>1
<1>3. NewUnits \in [1..ChunkSize -> Nat] /\ \A i \in 1..ChunkSize : NewUnits[i] = made + i
  BY <1>2 DEF NewUnits
<1>4. NewUnits \in Seq(Nat) /\ Len(NewUnits) = ChunkSize
  BY <1>1, <1>3
<1>5. Len(NewUnits) <= made + ChunkSize
  BY <1>1, <1>4
<1>6. \A i \in 1..Len(NewUnits) : NewUnits[i] = (made + ChunkSize) - Len(NewUnits) + i
  BY <1>1, <1>3, <1>4
<1> QED
  BY <1>4, <1>5, <1>6 DEF LastUnits

\* A run of units goes on with the next ones.
LEMMA RunGoesOn ==
    ASSUME NEW s \in Seq(Nat), NEW t \in Seq(Nat), NEW m \in Nat, NEW n \in Nat,
           LastUnits(s, m), LastUnits(t, m + n), Len(t) = n
    PROVE  LastUnits(s \o t, m + n)
<1>1. /\ Len(s) \in Nat /\ Len(s) <= m /\ Len(s \o t) = Len(s) + n
      /\ \A i \in 1..Len(s) : (s \o t)[i] = m - Len(s) + i
  BY JoinFacts DEF LastUnits
<1>2. \A i \in 1..n : (s \o t)[Len(s) + i] = m + i
  <2> TAKE i \in 1..n
  <2>1. (s \o t)[Len(s) + i] = t[i]
    BY JoinFacts
  <2>2. t[i] = (m + n) - n + i
    BY DEF LastUnits
  <2> QED
    BY <2>1, <2>2
<1>3. Len(s \o t) <= m + n
  BY <1>1
<1>4. \A i \in 1..Len(s \o t) : (s \o t)[i] = (m + n) - Len(s \o t) + i
  <2> TAKE i \in 1..Len(s \o t)
  <2>1. CASE i <= Len(s)
    BY <2>1, <1>1
  <2>2. CASE ~(i <= Len(s))
    <3>1. i - Len(s) \in 1..n /\ Len(s) + (i - Len(s)) = i
      BY <2>2, <1>1
    <3>2. (s \o t)[Len(s) + (i - Len(s))] = m + (i - Len(s))
      BY <3>1, <1>2
    <3> QED
      BY <3>1, <3>2, <1>1
  <2> QED
    BY <2>1, <2>2
<1> QED
  BY <1>3, <1>4 DEF LastUnits

\* No units at all are the last ones up to any number.
LEMMA NoUnits ==
    ASSUME NEW m \in Nat
    PROVE  LastUnits(<<>>, m) /\ <<>> \in Seq(Nat) /\ Len(<<>>) = 0
<1>1. Len(<<>>) = 0 /\ <<>> \in Seq(Nat)
  BY EmptySeq
<1> QED
  BY <1>1 DEF LastUnits

\* What fits is a beginning of what is enqueued, within the credit.
LEMMA FittingFacts ==
    ASSUME line \in Seq(Nat), Len(line) <= Credit, NEW s \in Seq(Nat)
    PROVE  \E n \in 0..Len(s) :
              /\ Fitting(s) = SubSeq(s, 1, n)
              /\ Len(line) + n <= Credit
              /\ Len(Fitting(s)) = n
              /\ n = Len(Wanted(s)) => n = Len(s) \/ Marked
<1>1. Len(s) \in Nat /\ Len(line) \in Nat /\ Credit \in Nat /\ ChunkSize \in Nat \ {0}
  BY LenProperties, AudioAssumption
\* What is wanted is a beginning.
<1>2. \E w \in 0..Len(s) : Wanted(s) = SubSeq(s, 1, w) /\ (w = Len(s) \/ Marked)
  <2>1. CASE s # <<>> /\ Marked
    <3> DEFINE k == ChunkSize - ((s[1] - 1) % ChunkSize)
    <3>1. Len(s) # 0
      BY <2>1, EmptySeq
    <3>2. s[1] \in Nat
      BY <3>1, <1>1, ElementOfSeq
    <3>3. (s[1] - 1) % ChunkSize \in 0..(ChunkSize - 1)
      BY <3>2, <1>1
    <3>4. k \in Nat
      BY <3>3, <1>1
    <3> HIDE DEF k
    <3>5. \E w \in 0..Len(s) : Take(s, k) = SubSeq(s, 1, w)
      BY <3>4, TakeCuts
    <3>6. Wanted(s) = Take(s, k)
      BY <2>1 DEF Wanted, Chunk, k
    <3> QED
      BY <2>1, <3>5, <3>6
  <2>2. CASE ~(s # <<>> /\ Marked)
    <3>1. Wanted(s) = s /\ s = SubSeq(s, 1, Len(s)) /\ Len(s) \in 0..Len(s)
      BY <2>2, <1>1, SubSeqFull DEF Wanted
    <3> QED
      BY <3>1
  <2> QED
    BY <2>1, <2>2
<1>3. PICK w \in 0..Len(s) : Wanted(s) = SubSeq(s, 1, w) /\ (w = Len(s) \/ Marked)
  BY <1>2
<1>4. Len(Wanted(s)) = w /\ Wanted(s) \in Seq(Nat)
  BY <1>3, CutFacts
<1>5. CASE live /\ Len(line) < Credit
  <2>1. Credit - Len(line) \in Nat /\ Fitting(s) = Take(Wanted(s), Credit - Len(line))
    BY <1>1, <1>5 DEF Fitting
  <2>2. PICK n \in 0..Len(Wanted(s)) :
           n <= Credit - Len(line) /\ Take(Wanted(s), Credit - Len(line)) = SubSeq(Wanted(s), 1, n)
    BY <2>1, <1>4, TakeCuts
  <2>3. n \in 0..w /\ n \in 0..Len(s)
    BY <2>2, <1>1, <1>4
  <2>4. Fitting(s) = SubSeq(s, 1, n)
    BY <2>1, <2>2, <2>3, <1>3, CutTwice
  <2>5. Len(Fitting(s)) = n
    BY <2>3, <2>4, CutFacts
  <2>6. Len(line) + n <= Credit
    BY <2>2, <2>3, <1>1
  <2>7. n = Len(Wanted(s)) => n = Len(s) \/ Marked
    BY <1>3, <1>4
  <2> QED
    BY <2>3, <2>4, <2>5, <2>6, <2>7
<1>6. CASE ~(live /\ Len(line) < Credit)
  <2>1. Fitting(s) = <<>> /\ 0 \in 0..Len(s)
    BY <1>1, <1>6 DEF Fitting
  <2>2. SubSeq(s, 1, 0) = <<>> /\ Len(<<>>) = 0
    BY SubSeqEmpty, EmptySeq
  <2>3. Len(line) + 0 <= Credit
    BY <1>1
  <2>4. 0 = Len(Wanted(s)) => 0 = Len(s) \/ Marked
    BY <1>3, <1>4
  <2> QED
    BY <2>1, <2>2, <2>3, <2>4
<1> QED
  BY <1>5, <1>6
-----------------------------------------------------------------------------
(* What a step of the handler leaves *)

\* A handler of a part or of the end of a turn goes on with empty hands, or it answers.
Went(part) ==
    /\ job' \in Jobs /\ job'.rest = <<>> /\ job'.buffer = <<>> /\ ~job'.stale
    /\ owed' \in BOOLEAN
    /\ \/ /\ job'.at \in {"streaming", "draining"} /\ job'.part = part
          /\ answer' = answer
       \/ /\ job' = NoJob
          /\ \/ Marked /\ answer' = (IF caller THEN "cancelled" ELSE "none")
             \/ part = "part" /\ answer' = (IF caller THEN "queued" ELSE "none")

\* No handler is idle, with empty hands.
LEMMA NoJobFacts ==
    /\ NoJob \in Jobs /\ NoJob.at = "idle" /\ NoJob.part = "part"
    /\ NoJob.rest = <<>> /\ NoJob.buffer = <<>> /\ ~NoJob.stale
<1>1. <<>> \in Seq(Nat) /\ 0 \in 0..MaxChunks
  BY EmptySeq, AudioAssumption
<1> QED
  BY <1>1 DEF NoJob, Jobs

\* A new handler.
LEMMA JobFacts ==
    ASSUME NEW at \in Busy, NEW kind \in {"part", "final", "marker"}
    PROVE  /\ Job(at, kind) \in Jobs
           /\ Job(at, kind).at = at /\ Job(at, kind).part = kind
           /\ Job(at, kind).rest = <<>> /\ Job(at, kind).buffer = <<>> /\ ~Job(at, kind).stale
           /\ ~Job(at, kind).drained
<1>1. <<>> \in Seq(Nat) /\ 0 \in 0..MaxChunks
  BY EmptySeq, AudioAssumption
<1> QED
  BY <1>1 DEF NoJob, Job, Jobs

\* A handler with empty hands goes on.
LEMMA GoesFacts ==
    ASSUME NEW j \in Jobs, NEW b \in {"streaming", "joined", "draining"},
           j.rest = <<>>, j.buffer = <<>>, ~j.stale, owed \in BOOLEAN, Goes(j, b)
    PROVE  Went(j.part)
<1>1. j.part \in {"part", "final", "marker"}
  BY DEF Jobs
<1>2. CASE b = "streaming"
  <2>1. job' = [j EXCEPT !.at = "streaming"] /\ UNCHANGED <<answer, owed>>
    BY <1>2 DEF Goes, Waits
  <2>2. /\ job' \in Jobs /\ job'.rest = <<>> /\ job'.buffer = <<>> /\ ~job'.stale
        /\ job'.at = "streaming" /\ job'.part = j.part
    BY <2>1 DEF Jobs, Busy
  <2> QED
    BY <2>1, <2>2 DEF Went
<1>3. CASE b = "draining" \/ (b = "joined" /\ ~Marked /\ j.part # "part")
  <2>1. job' = Job("draining", j.part) /\ UNCHANGED <<answer, owed>>
    BY <1>3 DEF Goes, Waits
  <2>2. "draining" \in Busy
    BY DEF Busy
  <2> QED
    BY <2>1, <2>2, <1>1, JobFacts DEF Went
<1>4. CASE b = "joined" /\ Marked
  <2>1. job' = NoJob /\ owed' = owed /\ answer' = (IF caller THEN "cancelled" ELSE "none")
    BY <1>4 DEF Goes, Respond
  <2> QED
    BY <2>1, <1>4, NoJobFacts DEF Went
<1>5. CASE b = "joined" /\ ~Marked /\ j.part = "part"
  <2>1. job' = NoJob /\ owed' = TRUE /\ answer' = (IF caller THEN "queued" ELSE "none")
    BY <1>5 DEF Goes, Respond
  <2> QED
    BY <2>1, <1>5, NoJobFacts DEF Went
<1> QED
  BY <1>2, <1>3, <1>4, <1>5

\* Units s of a handler are enqueued: a beginning of them enters the line, and the handler
\* waits with the others or goes on.
Queued(part, s) ==
    \E n \in 0..Len(s) :
        /\ line' = line \o SubSeq(s, 1, n) /\ Len(line) + n <= Credit
        /\ late' = (IF silenced THEN late + n ELSE late)
        /\ \/ /\ job' \in Jobs /\ job'.at = "queueing" /\ job'.part = part
              /\ job'.rest = SubSeq(s, n + 1, Len(s)) /\ job'.buffer = <<>> /\ ~job'.stale
              /\ UNCHANGED <<answer, owed>>
           \/ (n = Len(s) \/ ~live \/ Marked) /\ Went(part)

\* An enqueue does so.
LEMMA EnqueueFacts ==
    ASSUME line \in Seq(Nat), Len(line) <= Credit, owed \in BOOLEAN, NEW j \in Jobs,
           j.buffer = <<>>, ~j.stale, NEW s \in Seq(Nat),
           NEW b \in {"streaming", "joined", "draining"}, Enqueue(j, s, b)
    PROVE  Queued(j.part, s)
<1> DEFINE in == Fitting(s)
           all == ~live \/ Len(in) = Len(Wanted(s))
           g == [j EXCEPT !.started = @ \/ ~Marked, !.rest = <<>>, !.stale = FALSE]
<1>1. PICK n \in 0..Len(s) :
         /\ in = SubSeq(s, 1, n) /\ Len(line) + n <= Credit /\ Len(in) = n
         /\ n = Len(Wanted(s)) => n = Len(s) \/ Marked
  BY FittingFacts
<1>2. /\ line' = line \o SubSeq(s, 1, n)
      /\ late' = (IF silenced THEN late + n ELSE late)
  BY <1>1 DEF Enqueue
<1>3. CASE all
  <2>1. Goes(g, b)
    BY <1>3 DEF Enqueue
  <2>2. g \in Jobs
    BY EmptySeq DEF Jobs
  <2>3. g.part = j.part /\ g.rest = <<>> /\ g.buffer = <<>> /\ ~g.stale
    BY DEF Jobs
  <2> HIDE DEF g
  <2>4. Went(j.part)
    BY <2>1, <2>2, <2>3, GoesFacts
  <2>5. n = Len(s) \/ ~live \/ Marked
    BY <1>1, <1>3
  <2> QED
    BY <1>1, <1>2, <2>4, <2>5 DEF Queued
<1>4. CASE ~all
  <2>1. /\ job' = [j EXCEPT !.at = "queueing", !.rest = Drop(s, Len(in)), !.back = b]
        /\ UNCHANGED <<answer, owed>>
    BY <1>4 DEF Enqueue, Waits
  <2>2. Drop(s, Len(in)) = SubSeq(s, n + 1, Len(s))
    BY <1>1 DEF Drop
  <2>3. SubSeq(s, n + 1, Len(s)) \in Seq(Nat)
    BY <1>1, CutFacts
  <2> DEFINE r == SubSeq(s, n + 1, Len(s))
  <2>4. job' = [j EXCEPT !.at = "queueing", !.rest = r, !.back = b] /\ r \in Seq(Nat)
    BY <2>1, <2>2, <2>3
  <2> HIDE DEF r
  <2>5. /\ job' \in Jobs /\ job'.at = "queueing" /\ job'.part = j.part
        /\ job'.rest = r /\ job'.buffer = <<>> /\ ~job'.stale
    BY <2>4 DEF Jobs, Busy
  <2> QED
    BY <1>1, <1>2, <2>1, <2>5 DEF Queued, r
<1> QED
  BY <1>3, <1>4
-----------------------------------------------------------------------------
(* The reply between the worker and the peer *)

\* The call of the speak endpoint is in one place: a request on its way, a handler or an
\* answer.  A worker that does not speak has none, and one that is done abandoned it.
TheCall ==
    /\ worker # "speaking" => ~caller /\ answer = "none"
    /\ worker = "speaking" => caller
    /\ worker \notin {"speaking", "done"} => mail = None /\ job = NoJob
    /\ mail # None => job = NoJob /\ answer = "none"
    /\ job # NoJob => answer = "none"
    /\ (worker = "speaking" /\ mail # None) => mail = item
    /\ (worker = "speaking" /\ job # NoJob /\ job.part = "part") => ~item.final
    /\ answer = "queued" => ~item.final
    /\ doomed => job # NoJob
    /\ job # NoJob => job.at # "idle"

\* What a handler has in its hands, and what was done to it.
Hands ==
    /\ job.buffer # <<>> => job.at \in {"streaming", "joining"}
    /\ job.rest # <<>> => job.at = "queueing"
    /\ job.stale => job.at = "queueing" /\ (Marked \/ stray \/ job.rest = <<>>)
    /\ (job.at = "emitting" /\ job.drained) => line = <<>>
    /\ \A c \in Cancellers : capt[c].turn => Marked
    /\ ~live => ctl["end"] # "idle"

\* The units in the handler's hands, and those it passed on.
Held == IF job.at = "queueing" THEN job.rest ELSE job.buffer
Told == heard \o line

\* The handler holds the last units made.
HoldsLast == LastUnits(Held, made)

\* What was passed on rises, up to what is held.
ToldInOrder == Rising(Told) /\ Under(Told, made - Len(Held))

\* As long as nothing failed no unit is missing.
Sound == worker # "done" /\ answer \in {"none", "queued", "done"}
NothingLost ==
    (Sound /\ live /\ ~Marked /\ ~stray) => Upto(Told, made - Len(Held))

\* A reply that was played out was heard.
PlayedOut ==
    ((answer = "done" \/ terminal = "normal") /\ ~stray) => line = <<>> /\ Upto(heard, made)

\* Nothing comes after a normal terminal.
NothingAfter == terminal = "normal" => worker = "done" /\ job = NoJob /\ mail = None

ReplyInv ==
    /\ SpokenTypeOK /\ TheCall /\ Hands /\ HoldsLast /\ ToldInOrder /\ NothingLost
    /\ PlayedOut /\ NothingAfter

\* What is held are units; nothing is held but in three places.
LEMMA HeldFacts ==
    ASSUME job \in Jobs, Hands
    PROVE  /\ Held \in Seq(Nat) /\ Len(Held) \in Nat
           /\ job.at \notin {"queueing", "streaming", "joining"} => Held = <<>>
           /\ job.at = "queueing" => Held = job.rest /\ job.buffer = <<>>
           /\ job.at # "queueing" => Held = job.buffer /\ job.rest = <<>>
<1>1. job.rest \in Seq(Nat) /\ job.buffer \in Seq(Nat)
  BY DEF Jobs
<1>2. Held \in Seq(Nat)
  BY <1>1 DEF Held
<1>3. Len(Held) \in Nat
  BY <1>2, LenProperties
<1> QED
  BY <1>2, <1>3 DEF Held, Hands
-----------------------------------------------------------------------------
(* A step of the handler *)

\* What may cost units: the call is over, or the reply is no normal one any more.
Excused ==
    \/ ~live \/ mark' # "none" \/ stray
    \/ worker = "done" \/ answer' \notin {"none", "queued", "done"}

\* Of the held and the new units the first enter the line; the others are held or lost.
Moves(s) ==
    \E n \in 0..Len(s) :
        /\ line' = line \o SubSeq(s, 1, n) /\ Len(line) + n <= Credit
        /\ late' = (IF silenced THEN late + n ELSE late)
        /\ \/ /\ job'.at = "queueing"
              /\ job'.rest = SubSeq(s, n + 1, Len(s)) /\ job'.buffer = <<>>
           \/ /\ job'.at \in {"streaming", "joining"}
              /\ job'.rest = <<>> /\ job'.buffer = SubSeq(s, n + 1, Len(s))
           \/ /\ job'.rest = <<>> /\ job'.buffer = <<>>
              /\ n = Len(s) \/ Excused

\* The handler goes on or answers.
GoesOn ==
    /\ job' \in Jobs /\ job'.at \in Busy /\ (job'.part = "part" => job.part = "part")
    /\ answer' = answer
AnswersWith(a) ==
    /\ job' = NoJob /\ answer' = (IF caller THEN a ELSE "none")
    /\ a = "queued" => job.part = "part"
    /\ a = "done" => /\ line = <<>> /\ live /\ ~Marked /\ Held = <<>>
                     /\ UNCHANGED <<line, made>>

AudioMoves ==
    /\ made' \in Nat
    /\ \E s \in Seq(Nat) :
          LastUnits(s, made') /\ Len(s) + made = Len(Held) + made' /\ Moves(s)

HandlerStep ==
    /\ job # NoJob
    /\ GoesOn \/ \E a \in Answers \ {"none"} : AnswersWith(a)
    /\ ~job'.stale /\ doomed' = FALSE
    /\ (job'.at = "emitting" /\ job'.drained) => line' = <<>>
    /\ mark' \in {mark, "cancelled"} /\ book' \in {"active", "cancelled", "completed"}
    /\ owed' \in BOOLEAN
    /\ UNCHANGED <<live, heard, silenced, stray, engine, ctl, capt, caller>>
    /\ AudioMoves

\* A handler that keeps what it holds, or drops it with a reason or for want of any.
LEMMA HoldsOn ==
    ASSUME line \in Seq(Nat), Len(line) <= Credit, made \in Nat, job \in Jobs, Hands, HoldsLast,
           UNCHANGED <<line, late, made>>, late \in Nat,
           \/ /\ job'.at \in {"streaming", "joining"} /\ job.at # "queueing"
              /\ job'.rest = <<>> /\ job'.buffer = job.buffer
           \/ job'.rest = <<>> /\ job'.buffer = <<>> /\ (Held = <<>> \/ Excused)
    PROVE  AudioMoves
<1>1. Held \in Seq(Nat) /\ Len(Held) \in Nat /\ LastUnits(Held, made)
  BY HeldFacts DEF HoldsLast
<1>2. SubSeq(Held, 1, 0) = <<>> /\ line \o <<>> = line /\ Len(line) \in Nat
  BY SubSeqEmpty, ConcatEmptySeq, LenProperties
<1>3. SubSeq(Held, 0 + 1, Len(Held)) = Held
  BY <1>1, SubSeqFull
<1>4. 0 \in 0..Len(Held) /\ Len(line) + 0 <= Credit /\ late + 0 = late
  BY <1>1, <1>2, AudioAssumption
<1>5. Held = <<>> => 0 = Len(Held)
  BY EmptySeq
<1>6. job.at # "queueing" => Held = job.buffer
  BY HeldFacts
<1>7. /\ line' = line \o SubSeq(Held, 1, 0)
      /\ late' = (IF silenced THEN late + 0 ELSE late)
  BY <1>2, <1>4
<1>8. Moves(Held)
  BY <1>3, <1>4, <1>5, <1>6, <1>7 DEF Moves
<1> QED
  BY <1>1, <1>8 DEF AudioMoves

\* A handler that enqueues what it holds and what is new.
LEMMA QueuesOn ==
    ASSUME made' \in Nat, NEW s \in Seq(Nat), LastUnits(s, made'),
           Len(s) + made = Len(Held) + made', Queued(job.part, s), UNCHANGED mark
    PROVE  AudioMoves
<1>1. PICK n \in 0..Len(s) :
         /\ line' = line \o SubSeq(s, 1, n) /\ Len(line) + n <= Credit
         /\ late' = (IF silenced THEN late + n ELSE late)
         /\ \/ /\ job'.at = "queueing"
               /\ job'.rest = SubSeq(s, n + 1, Len(s)) /\ job'.buffer = <<>>
            \/ (n = Len(s) \/ ~live \/ Marked) /\ Went(job.part)
  BY DEF Queued
<1>2. (n = Len(s) \/ ~live \/ Marked) => n = Len(s) \/ Excused
  BY DEF Excused, Marked
<1>3. Went(job.part) => job'.rest = <<>> /\ job'.buffer = <<>>
  BY DEF Went
<1>4. Moves(s)
  BY <1>1, <1>2, <1>3 DEF Moves
<1> QED
  BY <1>4 DEF AudioMoves

\* A handler that goes on after an enqueue, or ends its part.
LEMMA WentOn ==
    ASSUME NEW part \in {"part", "final", "marker"}, part = job.part, Went(part)
    PROVE  /\ GoesOn \/ \E a \in Answers \ {"none"} : AnswersWith(a)
           /\ ~job'.stale /\ job'.at # "emitting" /\ owed' \in BOOLEAN
<1>1. ~job'.stale /\ owed' \in BOOLEAN /\ job' \in Jobs
  BY DEF Went
<1>2. CASE job'.at \in {"streaming", "draining"} /\ job'.part = part /\ answer' = answer
  BY <1>1, <1>2 DEF GoesOn, Busy
<1>3. CASE job' = NoJob /\ answer' = (IF caller THEN "cancelled" ELSE "none")
  <2>1. AnswersWith("cancelled") /\ "cancelled" \in Answers \ {"none"}
    BY <1>3 DEF AnswersWith, Answers
  <2> QED
    BY <2>1, <1>1, <1>3, NoJobFacts
<1>4. CASE job' = NoJob /\ part = "part" /\ answer' = (IF caller THEN "queued" ELSE "none")
  <2>1. AnswersWith("queued") /\ "queued" \in Answers \ {"none"}
    BY <1>4 DEF AnswersWith, Answers
  <2> QED
    BY <2>1, <1>1, <1>4, NoJobFacts
<1> QED
  BY <1>2, <1>3, <1>4 DEF Went

\* ... or waits for room.
LEMMA QueuedOn ==
    ASSUME job \in Jobs, NEW s, Queued(job.part, s), owed \in BOOLEAN
    PROVE  /\ GoesOn \/ \E a \in Answers \ {"none"} : AnswersWith(a)
           /\ ~job'.stale /\ job'.at # "emitting" /\ owed' \in BOOLEAN
<1>1. job.part \in {"part", "final", "marker"}
  BY DEF Jobs
<1>2. CASE Went(job.part)
  BY <1>1, <1>2, WentOn
<1>3. CASE /\ job' \in Jobs /\ job'.at = "queueing" /\ job'.part = job.part /\ ~job'.stale
           /\ UNCHANGED <<answer, owed>>
  BY <1>3 DEF GoesOn, Busy
<1> QED
  BY <1>2, <1>3 DEF Queued

\* A handler that is at work is one.
LEMMA AtWork == ASSUME TheCall, NEW a \in Busy, job.at = a PROVE job # NoJob
  BY NoJobFacts DEF Busy

\* What a handler step may rely on.
Workable ==
    /\ line \in Seq(Nat) /\ Len(line) <= Credit /\ late \in Nat /\ made \in Nat
    /\ job \in Jobs /\ owed \in BOOLEAN /\ doomed \in BOOLEAN
    /\ book \in {"active", "cancelled", "completed"}
    /\ TheCall /\ Hands /\ HoldsLast

\* The invariant gives it.
LEMMA ReplyIsWorkable == ReplyInv => Workable
  BY DEF ReplyInv, SpokenTypeOK, PlayTypeOK, Workable

\* A handler that ends without an answer to its caller, or with a failure: the units it
\* held are lost with a reason.
LEMMA FailureExcuses ==
    ASSUME TheCall, job # NoJob, NEW a \in {"error", "cancelled", "discarded", "undone"},
           answer' = (IF caller THEN a ELSE "none")
    PROVE  Excused
<1>1. CASE caller
  BY <1>1 DEF Excused
<1>2. CASE ~caller
  <2>1. worker = "done"
    BY <1>2 DEF TheCall
  <2> QED
    BY <2>1 DEF Excused
<1> QED
  BY <1>1, <1>2

\* A handler that fails.
LEMMA FailureStep ==
    ASSUME Workable, job # NoJob, NEW a \in {"error", "cancelled", "discarded", "undone"},
           Respond(a), UNCHANGED <<made, owed, line, late>>, doomed' = FALSE,
           mark' \in {mark, "cancelled"}, book' \in {"active", "cancelled", "completed"},
           UNCHANGED <<live, heard, silenced, stray, engine, ctl, capt, caller>>
    PROVE  HandlerStep
<1>1. job' = NoJob /\ answer' = (IF caller THEN a ELSE "none")
  BY DEF Respond
<1>2. Excused
  BY <1>1, FailureExcuses DEF Workable
<1>3. AudioMoves
  BY <1>1, <1>2, NoJobFacts, HoldsOn DEF Workable
<1>4. AnswersWith(a) /\ a \in Answers \ {"none"}
  BY <1>1 DEF AnswersWith, Answers
<1>5. ~job'.stale /\ job'.at # "emitting" /\ owed' \in BOOLEAN
  BY <1>1, NoJobFacts DEF Workable
<1> QED
  BY <1>3, <1>4, <1>5 DEF HandlerStep

\* What a handler leaves alone, written out.
LEMMA RestFacts ==
    ASSUME Rest
    PROVE  UNCHANGED <<live, mark, book, doomed, ctl, capt, caller, heard, silenced, stray,
                       engine>>
  BY DEF Rest, controls

\* A handler that enqueues.
LEMMA QueueStep ==
    ASSUME Workable, job # NoJob, ~doomed, made' \in Nat, NEW s \in Seq(Nat),
           LastUnits(s, made'), Len(s) + made = Len(Held) + made', Rest,
           NEW j \in Jobs, j.part = job.part, j.buffer = <<>>, ~j.stale,
           NEW b \in {"streaming", "joined", "draining"}, Enqueue(j, s, b)
    PROVE  HandlerStep
<1>1. Queued(job.part, s)
  <2>1. Queued(j.part, s)
    BY EnqueueFacts DEF Workable
  <2> QED
    BY <2>1
<1>2. UNCHANGED <<live, mark, book, doomed, ctl, capt, caller, heard, silenced, stray, engine>>
  BY RestFacts
<1>3. AudioMoves
  BY <1>1, <1>2, QueuesOn
<1>4. /\ GoesOn \/ \E a \in Answers \ {"none"} : AnswersWith(a)
      /\ ~job'.stale /\ job'.at # "emitting" /\ owed' \in BOOLEAN
  BY <1>1, QueuedOn DEF Workable
<1> QED
  BY <1>2, <1>3, <1>4 DEF HandlerStep, Workable

\* The wait for credit ends.
LEMMA ResumeStep == ASSUME Workable, Resume PROVE HandlerStep
<1>1. job.at = "queueing" /\ ~doomed /\ made' = made /\ Rest
  BY DEF Resume
<1>2. /\ job \in Jobs /\ job.part \in {"part", "final", "marker"} /\ job.rest \in Seq(Nat)
      /\ job.back \in {"streaming", "joined", "draining"} /\ made \in Nat
      /\ job # NoJob /\ owed \in BOOLEAN /\ Hands /\ HoldsLast
      /\ job.buffer = <<>> /\ Held = job.rest
  BY <1>1, AtWork, HeldFacts DEF Workable, Jobs, Busy
<1>3. UNCHANGED <<live, mark, book, doomed, ctl, capt, caller, heard, silenced, stray, engine>>
  BY <1>1, RestFacts
<1>4. CASE /\ job.stale \/ ~live
           /\ Goes([job EXCEPT !.started = @ \/ ~Marked, !.rest = <<>>, !.stale = FALSE],
                   job.back)
           /\ Quiet
  <2> DEFINE g == [job EXCEPT !.started = @ \/ ~Marked, !.rest = <<>>, !.stale = FALSE]
  <2>1. /\ g \in Jobs /\ g.rest = <<>> /\ g.buffer = <<>> /\ ~g.stale
        /\ g.part = job.part
    BY <1>2, EmptySeq DEF Jobs
  <2>2. Goes(g, job.back)
    BY <1>4
  <2> HIDE DEF g
  <2>3. Went(job.part)
    BY <1>2, <2>1, <2>2, GoesFacts
  <2>4. Held = <<>> \/ Excused
    BY <1>2, <1>3, <1>4 DEF Hands, Excused, Marked
  <2>5. job'.rest = <<>> /\ job'.buffer = <<>>
    BY <2>3 DEF Went
  <2>6. AudioMoves
    BY <1>1, <1>4, <2>4, <2>5, HoldsOn DEF Workable, Quiet
  <2>7. /\ GoesOn \/ \E a \in Answers \ {"none"} : AnswersWith(a)
        /\ ~job'.stale /\ job'.at # "emitting" /\ owed' \in BOOLEAN
    BY <1>2, <2>3, WentOn
  <2> QED
    BY <1>1, <1>2, <1>3, <2>6, <2>7 DEF HandlerStep, Workable
<1>5. CASE ~job.stale /\ live /\ Len(line) < Credit /\ Enqueue(job, job.rest, job.back)
  <2>1. LastUnits(job.rest, made') /\ made' \in Nat
    BY <1>1, <1>2 DEF HoldsLast
  <2>2. Len(job.rest) + made = Len(Held) + made'
    BY <1>1, <1>2
  <2> QED
    BY <1>1, <1>2, <1>5, <2>1, <2>2, QueueStep
<1> QED
  BY <1>4, <1>5 DEF Resume

\* A handler that goes on elsewhere with what it holds.
LEMMA KeepStep ==
    ASSUME Workable, job # NoJob, ~doomed, job.at # "queueing", NEW j \in Jobs,
           j.at \in Busy, j.part = "part" => job.part = "part", ~j.stale,
           (j.at = "emitting" /\ j.drained) => line = <<>>,
           j.rest = <<>>,
           \/ j.buffer = job.buffer /\ j.at \in {"streaming", "joining"}
           \/ j.buffer = <<>> /\ Held = <<>>,
           job' = j, answer' = answer, owed' \in BOOLEAN, made' = made, Quiet, Rest
    PROVE  HandlerStep
<1>1. UNCHANGED <<live, mark, book, doomed, ctl, capt, caller, heard, silenced, stray, engine>>
  BY RestFacts
<1>2. AudioMoves
  BY HoldsOn DEF Workable, Quiet
<1>3. GoesOn
  BY DEF GoesOn
<1> QED
  BY <1>1, <1>2, <1>3 DEF HandlerStep, Workable, Quiet

\* What a handler holds that streams.
LEMMA Streaming ==
    ASSUME Workable, NEW a \in {"streaming", "joining"}, job.at = a
    PROVE  /\ job # NoJob /\ job.at # "queueing" /\ ~job.stale /\ job.rest = <<>>
           /\ job.buffer \in Seq(Nat) /\ Held = job.buffer
           /\ LastUnits(job.buffer, made) /\ Len(job.buffer) \in Nat
           /\ job.part \in {"part", "final", "marker"} /\ job.got \in Nat
<1>1. job # NoJob
  BY AtWork DEF Workable, Busy
<1>2. ~job.stale
  BY DEF Workable, Hands
<1>3. Held = job.buffer /\ job.rest = <<>> /\ Len(Held) \in Nat
  BY HeldFacts DEF Workable
<1>4. LastUnits(job.buffer, made)
  BY <1>3 DEF Workable, HoldsLast
<1>5. job.buffer \in Seq(Nat) /\ job.part \in {"part", "final", "marker"} /\ job.got \in Nat
  BY AudioAssumption DEF Workable, Jobs
<1> QED
  BY <1>1, <1>2, <1>3, <1>4, <1>5

\* A chunk of the stream comes.
LEMMA TakeChunkStep == ASSUME Workable, TakeChunk PROVE HandlerStep
<1>1. job.at = "streaming" /\ ~doomed /\ job.got < MaxChunks /\ Rest
  BY DEF TakeChunk
<1>2. /\ job # NoJob /\ ~job.stale /\ job.rest = <<>>
      /\ job.buffer \in Seq(Nat) /\ Held = job.buffer /\ LastUnits(job.buffer, made)
      /\ Len(job.buffer) \in Nat /\ job.got \in Nat
  BY <1>1, Streaming
<1>3. job \in Jobs /\ made \in Nat /\ owed \in BOOLEAN /\ ChunkSize \in Nat /\ MaxChunks \in Nat
  BY AudioAssumption DEF Workable
<1>4. CASE Marked
  <2> DEFINE j == [job EXCEPT !.at = "joining"]
  <2>1. job' = j /\ UNCHANGED <<answer, owed>> /\ Quiet /\ made' = made
    BY <1>4 DEF TakeChunk, Waits
  <2>2. /\ j \in Jobs /\ j.at = "joining" /\ j.part = job.part /\ ~j.stale /\ j.rest = <<>>
        /\ j.buffer = job.buffer
    BY <1>2, <1>3 DEF Jobs, Busy
  <2> HIDE DEF j
  <2>3. j.at \in Busy /\ owed' \in BOOLEAN
    BY <1>3, <2>1, <2>2 DEF Busy
  <2> QED
    BY <1>1, <1>2, <1>3, <2>1, <2>2, <2>3, KeepStep
<1>5. CASE ~Marked
  <2> DEFINE s == job.buffer \o NewUnits
             j == [job EXCEPT !.got = @ + 1, !.buffer = <<>>]
             k == [j EXCEPT !.buffer = s]
  <2>1. /\ made' = made + ChunkSize
        /\ \/ Enqueue(j, s, "streaming")
           \/ Waits(k) /\ Quiet
    BY <1>5 DEF TakeChunk
  <2>2. /\ NewUnits \in Seq(Nat) /\ Len(NewUnits) = ChunkSize
        /\ LastUnits(NewUnits, made + ChunkSize)
    BY <1>3, NewUnitsFacts
  <2>3. s \in Seq(Nat) /\ Len(s) = Len(job.buffer) + ChunkSize
    BY <1>2, <2>2, JoinFacts
  <2>4. LastUnits(s, made')
    BY <1>2, <1>3, <2>1, <2>2, RunGoesOn
  <2>5. made' \in Nat /\ Len(s) + made = Len(Held) + made'
    BY <1>2, <1>3, <2>1, <2>3
  <2> HIDE DEF s
  <2>6. /\ j \in Jobs /\ j.part = job.part /\ j.buffer = <<>> /\ ~j.stale /\ j.rest = <<>>
        /\ j.at = "streaming"
    <3>1. job.got + 1 \in 0..MaxChunks /\ <<>> \in Seq(Nat)
      BY <1>1, <1>2, <1>3, EmptySeq
    <3>2. j \in Jobs
      BY <1>3, <3>1 DEF Jobs
    <3>3. /\ j.part = job.part /\ j.buffer = <<>> /\ j.stale = job.stale /\ j.rest = job.rest
          /\ j.at = job.at
      BY <1>3 DEF Jobs
    <3> QED
      BY <1>1, <1>2, <3>2, <3>3
  <2> HIDE DEF j
  <2>7. CASE Enqueue(j, s, "streaming")
    BY <1>1, <1>2, <2>3, <2>4, <2>5, <2>6, <2>7, QueueStep
  <2>8. CASE Waits(k) /\ Quiet
    <3>1. /\ k \in Jobs /\ k.part = job.part /\ k.buffer = s /\ ~k.stale /\ k.rest = <<>>
          /\ k.at = "streaming"
      BY <2>3, <2>6 DEF Jobs
    <3>2. job' = k /\ UNCHANGED <<answer, owed, line, late>>
      BY <2>8 DEF Waits, Quiet
    <3> HIDE DEF k
    <3>3. UNCHANGED <<live, mark, book, doomed, ctl, capt, caller, heard, silenced, stray, engine>>
      BY <1>1, RestFacts
    <3>4. AudioMoves
      <4>1. /\ SubSeq(s, 1, 0) = <<>> /\ line \o <<>> = line /\ Len(line) \in Nat
            /\ SubSeq(s, 0 + 1, Len(s)) = s
        BY <2>3, SubSeqEmpty, SubSeqFull, ConcatEmptySeq, LenProperties DEF Workable
      <4>2. 0 \in 0..Len(s) /\ Len(line) + 0 <= Credit /\ late + 0 = late
        BY <1>2, <1>3, <2>3, <4>1, AudioAssumption DEF Workable
      <4>3. Moves(s)
        BY <3>1, <3>2, <4>1, <4>2 DEF Moves
      <4> QED
        BY <2>3, <2>4, <2>5, <4>3 DEF AudioMoves
    <3>5. GoesOn
      BY <3>1, <3>2 DEF GoesOn, Busy
    <3> QED
      BY <1>1, <1>2, <3>1, <3>2, <3>3, <3>4, <3>5 DEF HandlerStep, Workable
  <2> QED
    BY <2>1, <2>7, <2>8
<1> QED
  BY <1>4, <1>5

\* What was buffered too long is played.
LEMMA StartupTimeoutStep == ASSUME Workable, StartupTimeout PROVE HandlerStep
<1>1. /\ job.at = "streaming" /\ ~doomed /\ Rest /\ made' = made
      /\ Enqueue([job EXCEPT !.buffer = <<>>], job.buffer, "streaming")
  BY DEF StartupTimeout
<1>2. /\ job # NoJob /\ ~job.stale /\ job.buffer \in Seq(Nat) /\ Held = job.buffer
      /\ LastUnits(job.buffer, made)
  BY <1>1, Streaming
<1> DEFINE j == [job EXCEPT !.buffer = <<>>]
<1>3. j \in Jobs /\ j.part = job.part /\ j.buffer = <<>> /\ ~j.stale
  BY <1>2, EmptySeq DEF Workable, Jobs
<1>4. Enqueue(j, job.buffer, "streaming")
  BY <1>1
<1> HIDE DEF j
<1>5. LastUnits(job.buffer, made') /\ Len(job.buffer) + made = Len(Held) + made' /\ made' \in Nat
  BY <1>1, <1>2 DEF Workable
<1> QED
  BY <1>1, <1>2, <1>3, <1>4, <1>5, QueueStep

\* The stream of the producer ends.
LEMMA StreamEndsStep == ASSUME Workable, StreamEnds PROVE HandlerStep
<1>1. /\ job.at = "streaming" /\ ~doomed /\ Rest /\ made' = made /\ Quiet
      /\ job' = [job EXCEPT !.at = "joining"] /\ UNCHANGED <<answer, owed>>
  BY DEF StreamEnds, Waits
<1>2. job # NoJob /\ ~job.stale /\ job.rest = <<>>
  BY <1>1, Streaming
<1> DEFINE j == [job EXCEPT !.at = "joining"]
<1>3. /\ j \in Jobs /\ j.at = "joining" /\ j.part = job.part /\ ~j.stale /\ j.rest = <<>>
      /\ j.buffer = job.buffer
  BY <1>2 DEF Workable, Jobs, Busy
<1>4. job' = j
  BY <1>1
<1> HIDE DEF j
<1>5. j.at \in Busy /\ owed' \in BOOLEAN
  BY <1>1, <1>3 DEF Busy, Workable
<1> QED
  BY <1>1, <1>2, <1>3, <1>4, <1>5, KeepStep

\* Where a handler has empty hands.
LEMMA EmptyHanded ==
    ASSUME Workable, NEW a \in {"synth", "draining", "emitting"}, job.at = a
    PROVE  /\ job # NoJob /\ job.at # "queueing" /\ ~job.stale
           /\ job.rest = <<>> /\ job.buffer = <<>> /\ Held = <<>> /\ Len(Held) = 0
           /\ job.part \in {"part", "final", "marker"}
<1>1. job # NoJob
  BY AtWork DEF Workable, Busy
<1>2. ~job.stale
  BY DEF Workable, Hands
<1>3. Held = job.buffer /\ job.rest = <<>> /\ Held = <<>>
  BY HeldFacts DEF Workable
<1>4. Len(Held) = 0
  BY <1>3, EmptySeq
<1>5. job.part \in {"part", "final", "marker"}
  BY DEF Workable, Jobs
<1> QED
  BY <1>1, <1>2, <1>3, <1>4, <1>5

\* The synthesis fails.
LEMMA SynthesisFailsStep == ASSUME Workable, SynthesisFails PROVE HandlerStep
<1>1. /\ job.at \in {"streaming", "synth"} /\ ~doomed /\ Rest
      /\ UNCHANGED <<owed, made, line, late>>
      /\ Respond("cancelled") \/ Respond("error")
  BY DEF SynthesisFails, Quiet
<1>2. job # NoJob
  BY <1>1, AtWork DEF Workable, Busy
<1> QED
  BY <1>1, <1>2, RestFacts, FailureStep DEF Workable

\* The producer is gone: what it left is played.
LEMMA JoinStep == ASSUME Workable, Join PROVE HandlerStep
<1>1. job.at = "joining" /\ ~doomed /\ Rest /\ made' = made
  BY DEF Join
<1>2. /\ job # NoJob /\ ~job.stale /\ job.buffer \in Seq(Nat) /\ Held = job.buffer
      /\ LastUnits(job.buffer, made)
  BY <1>1, Streaming
<1>3. CASE job.got = 0
  <2>1. (Respond("cancelled") \/ Respond("error")) /\ UNCHANGED <<line, late, owed>>
    BY <1>3 DEF Join, Quiet
  <2> QED
    BY <1>1, <1>2, <2>1, RestFacts, FailureStep DEF Workable
<1>4. CASE job.got # 0
  <2> DEFINE j == [job EXCEPT !.buffer = <<>>]
  <2>1. Enqueue(j, job.buffer, "joined")
    BY <1>4 DEF Join
  <2>2. j \in Jobs /\ j.part = job.part /\ j.buffer = <<>> /\ ~j.stale
    BY <1>2, EmptySeq DEF Workable, Jobs
  <2> HIDE DEF j
  <2>3. /\ LastUnits(job.buffer, made') /\ made' \in Nat
        /\ Len(job.buffer) + made = Len(Held) + made'
    BY <1>1, <1>2 DEF Workable
  <2> QED
    BY <1>1, <1>2, <2>1, <2>2, <2>3, QueueStep
<1> QED
  BY <1>3, <1>4

\* A whole reply was synthesized.
LEMMA SynthesizedStep == ASSUME Workable, Synthesized PROVE HandlerStep
<1>1. job.at = "synth" /\ ~doomed /\ Rest
  BY DEF Synthesized
<1>2. /\ job # NoJob /\ ~job.stale /\ job.buffer = <<>> /\ Len(Held) = 0
  BY <1>1, EmptyHanded
<1>3. CASE mark = "cancelled"
  <2>1. Respond("cancelled") /\ UNCHANGED <<line, late, owed, made>>
    BY <1>3 DEF Synthesized, Quiet
  <2> QED
    BY <1>1, <1>2, <2>1, RestFacts, FailureStep DEF Workable
<1>4. CASE mark # "cancelled"
  <2>1. made' = made + ChunkSize /\ Enqueue(job, NewUnits, "draining")
    BY <1>4 DEF Synthesized
  <2>2. made \in Nat /\ ChunkSize \in Nat /\ job \in Jobs
    BY AudioAssumption DEF Workable
  <2>3. /\ NewUnits \in Seq(Nat) /\ LastUnits(NewUnits, made') /\ made' \in Nat
        /\ Len(NewUnits) + made = Len(Held) + made'
    BY <1>2, <2>1, <2>2, NewUnitsFacts
  <2> QED
    BY <1>1, <1>2, <2>1, <2>2, <2>3, QueueStep
<1> QED
  BY <1>3, <1>4

\* ... without samples.
LEMMA SynthesizedEmptyStep == ASSUME Workable, SynthesizedEmpty PROVE HandlerStep
<1>1. job.at = "synth" /\ ~doomed /\ Rest /\ Quiet /\ made' = made
  BY DEF SynthesizedEmpty
<1>2. /\ job # NoJob /\ job.at # "queueing" /\ Held = <<>> /\ job.buffer = <<>>
  BY <1>1, EmptyHanded
<1>3. CASE mark = "cancelled"
  <2>1. Respond("cancelled") /\ UNCHANGED <<line, late, owed, made>>
    BY <1>1, <1>3 DEF SynthesizedEmpty, Quiet
  <2> QED
    BY <1>1, <1>2, <2>1, RestFacts, FailureStep DEF Workable
<1>4. CASE mark # "cancelled"
  <2> DEFINE j == Job("emitting", "final")
  <2>1. job' = j /\ UNCHANGED <<answer, owed>>
    BY <1>4 DEF SynthesizedEmpty, Waits
  <2>2. /\ j \in Jobs /\ j.at = "emitting" /\ j.part = "final" /\ j.rest = <<>>
        /\ j.buffer = <<>> /\ ~j.stale /\ ~j.drained
    BY JobFacts DEF Busy
  <2> HIDE DEF j
  <2>3. j.at \in Busy /\ owed' \in BOOLEAN
    BY <2>1, <2>2 DEF Busy, Workable
  <2> QED
    BY <1>1, <1>2, <2>1, <2>2, <2>3, KeepStep
<1> QED
  BY <1>3, <1>4

\* The final wait ends.
LEMMA DrainedStep == ASSUME Workable, Drained PROVE HandlerStep
<1>1. job.at = "draining" /\ ~doomed /\ Rest /\ Quiet /\ made' = made
  BY DEF Drained
<1>2. /\ job # NoJob /\ job.at # "queueing" /\ Held = <<>> /\ job.buffer = <<>>
      /\ job.rest = <<>> /\ ~job.stale
  BY <1>1, EmptyHanded
<1>3. CASE Respond("cancelled") /\ UNCHANGED owed
  <2>1. UNCHANGED <<line, late>>
    BY <1>1 DEF Quiet
  <2> QED
    BY <1>1, <1>2, <1>3, <2>1, RestFacts, FailureStep DEF Workable
<1>4. CASE /\ job' = [job EXCEPT !.at = "emitting", !.drained = Idle]
           /\ owed' = (owed /\ engine # "stream")
           /\ UNCHANGED answer
  <2> DEFINE i == Idle
             j == [job EXCEPT !.at = "emitting", !.drained = i]
  <2>1. i \in BOOLEAN /\ (i => line = <<>>)
    BY DEF Idle, Workable
  <2>2. job' = j
    BY <1>4
  <2> HIDE DEF i
  <2>3. /\ j \in Jobs /\ j.at = "emitting" /\ j.part = job.part /\ ~j.stale /\ j.rest = <<>>
        /\ j.buffer = job.buffer /\ j.drained = i
    BY <1>2, <2>1 DEF Workable, Jobs, Busy
  <2> HIDE DEF j
  <2>4. j.at \in Busy /\ owed' \in BOOLEAN
    BY <1>4, <2>3 DEF Busy
  <2>5. (j.at = "emitting" /\ j.drained) => line = <<>>
    BY <2>1, <2>3
  <2> QED
    BY <1>1, <1>2, <1>4, <2>2, <2>3, <2>4, <2>5, KeepStep
<1> QED
  BY <1>3, <1>4 DEF Drained

\* The final event is delivered, or discarded.
LEMMA DeliverStep == ASSUME Workable, Deliver PROVE HandlerStep
<1>1. /\ job.at = "emitting" /\ ~doomed
      /\ UNCHANGED <<line, live, mark, owed, doomed, ctl, capt, caller, made, heard, silenced,
                     late, stray, engine>>
      /\ book' = IF book = "active" THEN "completed" ELSE book
  BY DEF Deliver, track, controls, ghosts
<1>2. /\ job # NoJob /\ job.at # "queueing" /\ Held = <<>> /\ job.buffer = <<>>
      /\ job.rest = <<>> /\ ~job.stale
  BY <1>1, EmptyHanded
<1>3. book' \in {"active", "cancelled", "completed"} /\ doomed' = FALSE
  BY <1>1 DEF Workable
<1>4. CASE Respond("discarded") \/ Respond("undone")
  BY <1>1, <1>2, <1>3, <1>4, FailureStep
<1>5. CASE Respond("done") /\ ~Marked /\ ctl["end"] = "idle" /\ job.drained
  <2>1. line = <<>> /\ live
    BY <1>1, <1>5 DEF Workable, Hands
  <2>2. job' = NoJob /\ answer' = (IF caller THEN "done" ELSE "none")
    BY <1>5 DEF Respond
  <2>3. AnswersWith("done") /\ "done" \in Answers \ {"none"}
    BY <1>1, <1>2, <1>5, <2>1, <2>2 DEF AnswersWith, Answers
  <2>4. AudioMoves
    BY <1>1, <1>2, <2>2, NoJobFacts, HoldsOn DEF Workable
  <2>5. ~job'.stale /\ job'.at # "emitting" /\ owed' \in BOOLEAN
    BY <1>1, <2>2, NoJobFacts DEF Workable
  <2> QED
    BY <1>1, <1>2, <1>3, <2>3, <2>4, <2>5 DEF HandlerStep
<1> QED
  BY <1>4, <1>5 DEF Deliver

\* The handler is cancelled.
LEMMA UnwindStep == ASSUME Workable, Unwind PROVE HandlerStep
<1>1. /\ doomed /\ doomed' = FALSE /\ mark' = "cancelled" /\ book' = "cancelled"
      /\ Respond("error")
      /\ UNCHANGED <<line, live, owed, ctl, capt, caller, made, heard, silenced, late, stray,
                     engine>>
  BY DEF Unwind, track, controls, ghosts
<1>2. job # NoJob
  BY <1>1 DEF Workable, TheCall
<1> QED
  BY <1>1, <1>2, FailureStep

\* Every step of the handler is one of these.
LEMMA HandlerSteps == ASSUME Workable, Handler PROVE HandlerStep
  BY ResumeStep, TakeChunkStep, StartupTimeoutStep, StreamEndsStep, SynthesisFailsStep,
     JoinStep, SynthesizedStep, SynthesizedEmptyStep, DrainedStep, DeliverStep, UnwindStep
     DEF Handler
-----------------------------------------------------------------------------
(* The handler keeps the invariant *)

\* The types.
LEMMA HandlerTypes ==
    ASSUME ReplyInv, HandlerStep, UNCHANGED <<mail, fault>>
    PROVE  SpokenTypeOK'
<1>t. SpokenTypeOK
  BY DEF ReplyInv
<1>1. line' \in Seq(Nat) /\ Len(line') <= Credit /\ late' \in Nat /\ made' \in Nat
  <2>1. line \in Seq(Nat) /\ Len(line) \in Nat /\ late \in Nat
    BY <1>t, LenProperties DEF SpokenTypeOK, PlayTypeOK
  <2>2. PICK s \in Seq(Nat) : Moves(s)
    BY DEF HandlerStep, AudioMoves
  <2>3. PICK n \in 0..Len(s) :
           /\ line' = line \o SubSeq(s, 1, n) /\ Len(line) + n <= Credit
           /\ late' = (IF silenced THEN late + n ELSE late)
    BY <2>2 DEF Moves
  <2>4. SubSeq(s, 1, n) \in Seq(Nat) /\ Len(SubSeq(s, 1, n)) = n /\ n \in Nat
    BY CutFacts
  <2>5. line' \in Seq(Nat) /\ Len(line') = Len(line) + n
    BY <2>1, <2>3, <2>4, JoinFacts
  <2>6. late' \in Nat
    BY <2>1, <2>3, <2>4
  <2> QED
    BY <2>3, <2>5, <2>6 DEF HandlerStep, AudioMoves
<1>2. job' \in Jobs
  BY NoJobFacts DEF HandlerStep, GoesOn, AnswersWith
<1>3. answer' \in Answers
  <2>1. answer \in Answers /\ "none" \in Answers
    BY <1>t DEF SpokenTypeOK, PlayTypeOK, Answers
  <2>2. CASE GoesOn
    BY <2>1, <2>2 DEF GoesOn
  <2>3. CASE \E a \in Answers \ {"none"} : AnswersWith(a)
    BY <2>1, <2>3 DEF AnswersWith
  <2> QED
    BY <2>2, <2>3 DEF HandlerStep
<1>4. /\ live' \in BOOLEAN /\ caller' \in BOOLEAN /\ silenced' \in BOOLEAN /\ stray' \in BOOLEAN
      /\ owed' \in BOOLEAN /\ doomed' \in BOOLEAN /\ engine' \in {"stream", "whole"}
      /\ heard' \in Seq(Nat)
  <2>1. /\ UNCHANGED <<live, heard, silenced, stray, engine, caller>>
        /\ owed' \in BOOLEAN /\ doomed' = FALSE
    BY DEF HandlerStep
  <2>2. doomed' \in BOOLEAN
    BY <2>1
  <2> QED
    BY <1>t, <2>1, <2>2 DEF SpokenTypeOK, PlayTypeOK
<1>5. /\ mark' \in {"none", "cancelling", "cancelled"}
      /\ book' \in {"active", "cancelled", "completed"}
      /\ ctl' \in [Cancellers -> {"idle", "ending", "stopping", "acking", "done"}]
      /\ capt' \in [Cancellers -> [turn : BOOLEAN, task : BOOLEAN, owed : BOOLEAN]]
  <2>1. UNCHANGED <<ctl, capt>> /\ mark' \in {mark, "cancelled"}
    BY DEF HandlerStep
  <2> QED
    BY <1>t, <2>1 DEF SpokenTypeOK, PlayTypeOK, HandlerStep
<1>6. mail' \in Items \cup {None} /\ fault' \in Faults
  BY <1>t DEF SpokenTypeOK
<1> QED
  BY <1>1, <1>2, <1>3, <1>4, <1>5, <1>6 DEF SpokenTypeOK, PlayTypeOK

\* The call is with the handler until it answers.
LEMMA HandlerKeepsCall ==
    ASSUME TheCall, HandlerStep, UNCHANGED <<worker, item, mail>>
    PROVE  TheCall'
<1>1. job # NoJob /\ answer = "none" /\ mail = None /\ caller' = caller /\ doomed' = FALSE
  BY DEF TheCall, HandlerStep
<1>2. CASE GoesOn
  <2>1. job'.at \in Busy /\ (job'.part = "part" => job.part = "part") /\ answer' = "none"
    BY <1>1, <1>2 DEF GoesOn
  <2>2. job' # NoJob /\ job'.at # "idle"
    BY <2>1, NoJobFacts DEF Busy
  <2> QED
    BY <1>1, <2>1, <2>2 DEF TheCall
<1>3. CASE \E a \in Answers \ {"none"} : AnswersWith(a)
  <2>1. PICK a \in Answers \ {"none"} : AnswersWith(a)
    BY <1>3
  <2>2. /\ job' = NoJob /\ answer' = (IF caller THEN a ELSE "none") /\ a # "none"
        /\ a = "queued" => job.part = "part"
    BY <2>1 DEF AnswersWith
  <2> QED
    BY <1>1, <2>2 DEF TheCall
<1> QED
  BY <1>2, <1>3 DEF HandlerStep

\* Its hands are full only where it waits.
LEMMA HandlerKeepsHands == ASSUME Hands, HandlerStep PROVE Hands'
<1>1. /\ ~job'.stale /\ mark' \in {mark, "cancelled"} /\ UNCHANGED <<live, ctl, capt>>
      /\ (job'.at = "emitting" /\ job'.drained) => line' = <<>>
  BY DEF HandlerStep
<1>2. PICK s : Moves(s)
  BY DEF HandlerStep, AudioMoves
<1>3. /\ job'.buffer # <<>> => job'.at \in {"streaming", "joining"}
      /\ job'.rest # <<>> => job'.at = "queueing"
  BY <1>2 DEF Moves
<1>4. \A c \in Cancellers : capt'[c].turn => mark' # "none"
  BY <1>1 DEF Hands, Marked
<1>5. ~live' => ctl'["end"] # "idle"
  BY <1>1 DEF Hands
<1> QED
  BY <1>1, <1>3, <1>4, <1>5 DEF Hands, Marked

\* The audio stays in order, and whole as long as nothing failed.
LEMMA HandlerKeepsAudio ==
    ASSUME ReplyInv, HandlerStep, UNCHANGED <<worker, terminal>>
    PROVE  HoldsLast' /\ ToldInOrder' /\ NothingLost'
<1>t. /\ line \in Seq(Nat) /\ heard \in Seq(Nat) /\ job \in Jobs /\ made \in Nat
      /\ Hands /\ TheCall /\ HoldsLast /\ ToldInOrder /\ NothingLost
  BY DEF ReplyInv, SpokenTypeOK, PlayTypeOK
<1>h. UNCHANGED <<live, heard, stray>> /\ mark' \in {mark, "cancelled"} /\ job # NoJob
      /\ made' \in Nat
  BY DEF HandlerStep, AudioMoves
<1>1. PICK s \in Seq(Nat) :
         LastUnits(s, made') /\ Len(s) + made = Len(Held) + made' /\ Moves(s)
  BY DEF HandlerStep, AudioMoves
<1>2. PICK n \in 0..Len(s) :
         /\ line' = line \o SubSeq(s, 1, n)
         /\ \/ /\ job'.at = "queueing"
               /\ job'.rest = SubSeq(s, n + 1, Len(s)) /\ job'.buffer = <<>>
            \/ /\ job'.at \in {"streaming", "joining"}
               /\ job'.rest = <<>> /\ job'.buffer = SubSeq(s, n + 1, Len(s))
            \/ /\ job'.rest = <<>> /\ job'.buffer = <<>>
               /\ n = Len(s) \/ Excused
  BY <1>1 DEF Moves
<1> DEFINE t == SubSeq(s, 1, n)
           r == SubSeq(s, n + 1, Len(s))
<1>3. /\ t \in Seq(Nat) /\ r \in Seq(Nat) /\ Len(r) = Len(s) - n
      /\ Len(s) \in Nat /\ n \in Nat /\ n <= Len(s) /\ Len(Held) \in Nat
  BY <1>t, CutFacts, LenProperties, HeldFacts
<1>4. Told \in Seq(Nat)
  BY <1>t, JoinFacts DEF Told
<1>5. Told' = Told \o t
  <2>1. heard \o (line \o t) = (heard \o line) \o t
    <3>1. heard \in Seq(Nat) /\ line \in Seq(Nat) /\ t \in Seq(Nat)
      BY <1>t, <1>3
    <3> HIDE DEF t
    <3> QED
      BY <3>1, JoinGroups
  <2>2. heard' = heard /\ line' = line \o t
    BY <1>2, <1>h
  <2>3. Told' = heard' \o line'
    BY DEF Told
  <2> QED
    BY <2>1, <2>2, <2>3 DEF Told
<1>6. made' - Len(s) = made - Len(Held) /\ Len(s) <= made'
  <2>1. made \in Nat /\ made' \in Nat /\ Len(s) \in Nat /\ Len(Held) \in Nat
    BY <1>3, <1>t, <1>h
  <2>2. Len(s) + made = Len(Held) + made' /\ Len(s) <= made'
    BY <1>1 DEF LastUnits
  <2> QED
    BY <2>1, <2>2
<1>7. Rising(Told) /\ Under(Told, made' - Len(s))
  BY <1>6, <1>t DEF ToldInOrder
<1>8. /\ Rising(Told') /\ Under(Told', made' - (Len(s) - n)) /\ LastUnits(r, made')
      /\ Upto(Told, made' - Len(s)) => Upto(Told', made' - (Len(s) - n))
  <2>1. /\ Rising(Told \o SubSeq(s, 1, n))
        /\ Under(Told \o SubSeq(s, 1, n), made' - (Len(s) - n))
        /\ LastUnits(SubSeq(s, n + 1, Len(s)), made')
        /\ Upto(Told, made' - Len(s)) =>
              Upto(Told \o SubSeq(s, 1, n), made' - (Len(s) - n))
    BY <1>1, <1>h, <1>4, <1>7, Loading
  <2> QED
    BY <2>1, <1>5
<1>9. (Sound' /\ live' /\ ~Marked' /\ ~stray') => Upto(Told', made' - (Len(s) - n)) /\ ~Excused
  <2> SUFFICES ASSUME Sound', live', ~Marked', ~stray'
               PROVE  Upto(Told', made' - (Len(s) - n)) /\ ~Excused
    OBVIOUS
  <2>1. worker # "done" /\ answer' \in {"none", "queued", "done"} /\ mark' = "none"
    BY DEF Sound, Marked
  <2>2. ~Excused
    BY <2>1, <1>h DEF Excused
  <2>3. Sound /\ live /\ ~Marked /\ ~stray
    BY <2>1, <1>h, <1>t DEF Sound, Marked, TheCall
  <2>4. Upto(Told, made - Len(Held))
    BY <2>3, <1>t DEF NothingLost
  <2> QED
    BY <2>2, <2>4, <1>6, <1>8
<1> HIDE DEF t, r
<1>10. Told' \in Seq(Nat)
  BY <1>3, <1>4, <1>5, JoinFacts
<1>11. CASE Held' = r
  <2>1. Len(Held') = Len(s) - n
    BY <1>3, <1>11
  <2> QED
    BY <2>1, <1>8, <1>9, <1>11 DEF HoldsLast, ToldInOrder, NothingLost
<1>12. CASE Held' = <<>> /\ (n = Len(s) \/ Excused)
  <2>1. Len(Held') = 0 /\ LastUnits(Held', made')
    BY <1>12, <1>h, NoUnits
  <2>2. Under(Told', made' - Len(Held'))
    <3>1. /\ made' - (Len(s) - n) \in Int /\ made' - 0 \in Int
          /\ made' - (Len(s) - n) <= made' - 0
      BY <1>3, <1>h
    <3>2. Under(Told', made' - 0)
      BY <3>1, <1>8, <1>10, UnderMore
    <3> QED
      BY <2>1, <3>2
  <2>3. n = Len(s) => made' - (Len(s) - n) = made' - 0
    BY <1>3, <1>h
  <2> QED
    BY <2>1, <2>2, <2>3, <1>8, <1>9, <1>12 DEF HoldsLast, ToldInOrder, NothingLost
<1>13. Held' = r \/ (Held' = <<>> /\ (n = Len(s) \/ Excused))
  BY <1>2 DEF Held, r
<1> QED
  BY <1>11, <1>12, <1>13

\* What it reports as played out was heard.
LEMMA HandlerPlaysOut ==
    ASSUME ReplyInv, HandlerStep, UNCHANGED <<worker, terminal>>
    PROVE  PlayedOut' /\ NothingAfter'
<1>t. /\ heard \in Seq(Nat) /\ TheCall /\ NothingLost /\ NothingAfter /\ made \in Nat
  BY DEF ReplyInv, SpokenTypeOK, PlayTypeOK
<1>h. UNCHANGED <<heard, stray>> /\ job # NoJob
  BY DEF HandlerStep
<1>1. terminal' # "normal"
  BY <1>t, <1>h DEF NothingAfter
<1>2. ASSUME answer' = "done", ~stray' PROVE line' = <<>> /\ Upto(heard', made')
  <2>1. answer = "none"
    BY <1>t, <1>h DEF TheCall
  <2>2. PICK a \in Answers \ {"none"} : AnswersWith(a)
    BY <2>1, <1>2 DEF HandlerStep, GoesOn
  <2>3. caller /\ a = "done"
    BY <2>2, <1>2 DEF AnswersWith
  <2>4. /\ line = <<>> /\ live /\ ~Marked /\ Held = <<>> /\ UNCHANGED <<line, made>>
    BY <2>2, <2>3 DEF AnswersWith
  <2>5. worker # "done"
    BY <2>3, <1>t DEF TheCall
  <2>6. Upto(Told, made - Len(Held))
    BY <2>1, <2>4, <2>5, <1>h, <1>2, <1>t DEF NothingLost, Sound
  <2>7. Told = heard /\ made - Len(Held) = made
    <3>1. heard \o <<>> = heard /\ Len(<<>>) = 0
      BY <1>t, ConcatEmptySeq, EmptySeq
    <3> QED
      BY <3>1, <2>4, <1>t DEF Told
  <2> QED
    BY <2>4, <2>6, <2>7, <1>h
<1> QED
  BY <1>1, <1>2 DEF PlayedOut, NothingAfter

\* Together.
LEMMA HandlerKeepsReply ==
    ASSUME ReplyInv, Handler, UNCHANGED <<vars, mail, fault>>
    PROVE  ReplyInv'
<1>1. UNCHANGED <<worker, item, terminal>>
  BY DEF vars, turn, speaker
<1>2. HandlerStep
  BY ReplyIsWorkable, HandlerSteps
<1>3. TheCall /\ Hands
  BY DEF ReplyInv
<1>4. SpokenTypeOK'
  BY <1>2, HandlerTypes
<1>5. TheCall' /\ Hands'
  BY <1>1, <1>2, <1>3, HandlerKeepsCall, HandlerKeepsHands
<1>6. HoldsLast' /\ ToldInOrder' /\ NothingLost' /\ PlayedOut' /\ NothingAfter'
  BY <1>1, <1>2, HandlerKeepsAudio, HandlerPlaysOut
<1> QED
  BY <1>4, <1>5, <1>6 DEF ReplyInv
-----------------------------------------------------------------------------
(* Steps of the web server *)

\* What the scheduler does to a worker that it does not let speak.
WorkerStays ==
    /\ \/ UNCHANGED <<worker, item>>
       \/ worker \notin {"speaking", "done"} /\ worker' # "speaking"
    /\ terminal' = "normal" => terminal = "normal"

\* cancel() leaves the worker and the terminal to those who run.
LEMMA EnterCancelStays ==
    ASSUME NEW f, EnterCancel(f), UNCHANGED <<terminal, worker, item>>
    PROVE  WorkerStays
  BY DEF WorkerStays

\* The stream, finalize and the start of the worker touch no call.
LEMMA SchedulerStays ==
    ASSUME Inv,
           \/ Generation \/ Finalize \/ WorkerStarts \/ Leaving \/ BackendCancelled
           \/ StreamCancelled \/ StreamClosed \/ GatherCancelled
    PROVE  WorkerStays
<1>1. CASE Segment \/ GenerationEnds
  <2>1. terminal' = terminal /\ item' = item
    BY <1>1 DEF Segment, GenerationEnds
  <2>2. worker' = worker \/ (worker = "none" /\ worker' = "created")
    BY <1>1 DEF Segment, GenerationEnds, Put
  <2> QED
    BY <2>1, <2>2 DEF WorkerStays
<1>2. CASE SegmentRefused \/ PutResumes \/ GenerationFails
  BY <1>2 DEF WorkerStays, SegmentRefused, PutResumes, GenerationFails
<1>3. CASE FinalizePuts \/ FinalizeReturns
  BY <1>3 DEF WorkerStays, FinalizePuts, FinalizeReturns, speaker
<1>4. CASE WorkerStarts
  BY <1>4 DEF WorkerStays, WorkerStarts, turn
<1>5. CASE Poll \/ Record \/ Gathered \/ CancelReturns
  BY <1>5 DEF WorkerStays, Poll, Record, Gathered, CancelReturns, turn, speaker
<1>6. CASE BackendCancelled
  BY <1>6 DEF WorkerStays, BackendCancelled, turn, speaker
<1>7. CASE StreamCancelled \/ StreamClosed \/ GatherCancelled
  BY <1>7 DEF WorkerStays, StreamCancelled, StreamClosed, GatherCancelled
<1> QED
  BY <1>1, <1>2, <1>3, <1>4, <1>5, <1>6, <1>7 DEF Generation, Finalize, Leaving

\* What the backend has does not depend on the rest of the web server.
LEMMA AudioStays ==
    ASSUME UNCHANGED playVars
    PROVE  /\ UNCHANGED <<line, live, job, answer, mark, book, owed, doomed, ctl, capt, caller,
                          made, heard, silenced, late, stray, engine>>
           /\ Hands => Hands'
           /\ HoldsLast => HoldsLast'
           /\ ToldInOrder => ToldInOrder'
           /\ PlayTypeOK => PlayTypeOK'
           /\ Held' = Held /\ Told' = Told /\ Marked' = Marked
<1>1. UNCHANGED <<line, live, job, answer, mark, book, owed, doomed, ctl, capt, caller,
                  made, heard, silenced, late, stray, engine>>
  BY DEF playVars, track, marks, controls, ghosts
<1>2. Held' = Held /\ Told' = Told /\ Marked' = Marked
  BY <1>1 DEF Held, Told, Marked
<1>3. Hands => Hands'
  BY <1>1, <1>2 DEF Hands
<1>4. (HoldsLast => HoldsLast') /\ (ToldInOrder => ToldInOrder')
  BY <1>1, <1>2 DEF HoldsLast, ToldInOrder
<1>5. PlayTypeOK => PlayTypeOK'
  BY <1>1 DEF PlayTypeOK
<1> QED
  BY <1>1, <1>2, <1>3, <1>4, <1>5

\* A step of the web server that sends and hears nothing.
LEMMA WebKeepsReply ==
    ASSUME ReplyInv, WorkerStays, UNCHANGED <<playVars, mail>>, fault' \in Faults
    PROVE  ReplyInv'
<1>1. UNCHANGED <<line, live, job, answer, doomed, caller, made, heard, stray>>
  BY AudioStays
<1>2. Held' = Held /\ Told' = Told /\ Marked' = Marked
  BY AudioStays
<1>3. SpokenTypeOK' /\ Hands' /\ HoldsLast' /\ ToldInOrder'
  <2>1. Hands' /\ HoldsLast' /\ ToldInOrder' /\ PlayTypeOK'
    BY AudioStays DEF ReplyInv, SpokenTypeOK
  <2>2. mail' \in Items \cup {None}
    BY DEF ReplyInv, SpokenTypeOK
  <2> QED
    BY <2>1, <2>2 DEF SpokenTypeOK
<1>4. TheCall'
  <2>1. TheCall
    BY DEF ReplyInv
  <2>2. CASE UNCHANGED <<worker, item>>
    BY <2>1, <2>2, <1>1 DEF TheCall
  <2>3. CASE worker \notin {"speaking", "done"} /\ worker' # "speaking"
    BY <2>1, <2>3, <1>1 DEF TheCall
  <2> QED
    BY <2>2, <2>3 DEF WorkerStays
<1>5. NothingLost'
  <2>1. NothingLost /\ (Sound' => Sound)
    BY <1>1 DEF ReplyInv, Sound, WorkerStays
  <2> QED
    BY <2>1, <1>1, <1>2 DEF NothingLost
<1>6. PlayedOut' /\ NothingAfter'
  BY <1>1 DEF ReplyInv, PlayedOut, NothingAfter, WorkerStays
<1> QED
  BY <1>3, <1>4, <1>5, <1>6 DEF ReplyInv

\* The backend does not notice who waits for it.
LEMMA BackendStays ==
    ASSUME UNCHANGED backendVars
    PROVE  /\ UNCHANGED <<line, live, job, mark, book, owed, doomed, ctl, capt,
                          made, heard, silenced, late, stray, engine>>
           /\ Hands => Hands'
           /\ HoldsLast => HoldsLast'
           /\ ToldInOrder => ToldInOrder'
           /\ (PlayTypeOK /\ answer' \in Answers /\ caller' \in BOOLEAN) => PlayTypeOK'
           /\ Held' = Held /\ Told' = Told /\ Marked' = Marked
<1>1. UNCHANGED <<line, live, job, mark, book, owed, doomed, ctl, capt,
                  made, heard, silenced, late, stray, engine>>
  BY DEF backendVars, track, marks, ghosts
<1>2. Held' = Held /\ Told' = Told /\ Marked' = Marked
  BY <1>1 DEF Held, Told, Marked
<1>3. Hands => Hands'
  BY <1>1, <1>2 DEF Hands
<1>4. (HoldsLast => HoldsLast') /\ (ToldInOrder => ToldInOrder')
  BY <1>1, <1>2 DEF HoldsLast, ToldInOrder
<1>5. (PlayTypeOK /\ answer' \in Answers /\ caller' \in BOOLEAN) => PlayTypeOK'
  BY <1>1 DEF PlayTypeOK
<1> QED
  BY <1>1, <1>2, <1>3, <1>4, <1>5

\* The worker sends its request: a call begins where there was none.
LEMMA SendKeepsReply == ASSUME Inv, ReplyInv, WorkerSends PROVE ReplyInv'
<1>1. /\ worker = "getting" /\ queue # <<>> /\ UNCHANGED <<backendVars, answer, fault>>
      /\ fault' \in Faults
  BY DEF WorkerSends, WorkerGets, ReplyInv, SpokenTypeOK
<1>2. CASE terminal # None
  <2>1. worker' = "done" /\ terminal' = terminal
    BY <1>2 DEF WorkerSends, WorkerGets, WorkerEnds
  <2>2. UNCHANGED <<mail, caller>>
    BY <2>1 DEF WorkerSends
  <2>3. UNCHANGED playVars
    BY <1>1, <2>2 DEF playVars, backendVars, controls
  <2>4. WorkerStays
    BY <1>1, <2>1 DEF WorkerStays
  <2> QED
    BY <1>1, <2>2, <2>3, <2>4, WebKeepsReply
<1>3. CASE terminal = None
  <2>1. worker' = "speaking" /\ terminal' = terminal /\ item' = Head(queue)
    BY <1>3 DEF WorkerSends, WorkerGets
  <2>2. mail' = item' /\ caller' = TRUE
    BY <2>1 DEF WorkerSends
  <2>3. mail' \in Items
    <3>1. queue \in Seq(Items)
      BY DEF Inv, TypeOK
    <3> QED
      BY <1>1, <2>1, <2>2, <3>1, TailFacts
  <2>4. job = NoJob /\ answer = "none" /\ ~doomed
    BY <1>1 DEF ReplyInv, TheCall
  <2>5. /\ UNCHANGED <<line, live, job, doomed, made, heard, stray>>
        /\ Held' = Held /\ Told' = Told /\ Marked' = Marked
    BY <1>1, BackendStays
  <2>6. SpokenTypeOK' /\ Hands' /\ HoldsLast' /\ ToldInOrder'
    <3>1. answer' \in Answers /\ caller' \in BOOLEAN
      BY <1>1, <2>2, <2>4 DEF Answers
    <3>2. Hands' /\ HoldsLast' /\ ToldInOrder' /\ PlayTypeOK'
      BY <1>1, <3>1, BackendStays DEF ReplyInv, SpokenTypeOK
    <3> QED
      BY <1>1, <2>3, <3>2 DEF SpokenTypeOK
  <2>7. TheCall'
    BY <1>1, <2>1, <2>2, <2>4, <2>5 DEF TheCall
  <2>8. NothingLost'
    <3>1. NothingLost /\ Sound
      BY <1>1, <2>4 DEF ReplyInv, Sound
    <3> QED
      BY <2>5, <3>1 DEF NothingLost
  <2>9. PlayedOut' /\ NothingAfter'
    <3>1. terminal' # "normal" /\ answer' # "done"
      BY <1>1, <1>3, <2>1, <2>4, NoneAssumption
    <3> QED
      BY <3>1 DEF PlayedOut, NothingAfter
  <2> QED
    BY <2>6, <2>7, <2>8, <2>9 DEF ReplyInv
<1> QED
  BY <1>2, <1>3

\* A worker that is gone leaves a call that nobody waits for.
LEMMA LeftAlone ==
    ASSUME ReplyInv, HangsUp, UNCHANGED mail, fault' \in Faults,
           worker' = "done", terminal' # "normal"
    PROVE  ReplyInv'
<1>1. answer' = "none" /\ caller' = FALSE /\ UNCHANGED backendVars
  BY DEF HangsUp
<1>2. /\ UNCHANGED <<line, live, job, doomed, made, heard, stray>>
      /\ Held' = Held /\ Told' = Told /\ Marked' = Marked
  BY <1>1, BackendStays
<1>3. SpokenTypeOK' /\ Hands' /\ HoldsLast' /\ ToldInOrder'
  <2>1. answer' \in Answers /\ caller' \in BOOLEAN
    BY <1>1 DEF Answers
  <2>2. Hands' /\ HoldsLast' /\ ToldInOrder' /\ PlayTypeOK'
    BY <1>1, <2>1, BackendStays DEF ReplyInv, SpokenTypeOK
  <2>3. mail' \in Items \cup {None}
    BY DEF ReplyInv, SpokenTypeOK
  <2> QED
    BY <2>2, <2>3 DEF SpokenTypeOK
<1>4. TheCall'
  BY <1>1, <1>2 DEF ReplyInv, TheCall
<1>5. NothingLost' /\ PlayedOut' /\ NothingAfter'
  BY <1>1 DEF NothingLost, Sound, PlayedOut, NothingAfter
<1> QED
  BY <1>3, <1>4, <1>5 DEF ReplyInv

\* The worker hears the answer: a reply becomes normal by "done" alone.
LEMMA HearsKeepsReply == ASSUME ReplyInv, WorkerHears PROVE ReplyInv'
<1>1. /\ answer # "none" /\ mail = None /\ WorkerSpoke(TerminalOf(answer)) /\ HangsUp
      /\ UNCHANGED <<mail, fault>> /\ fault' \in Faults
  BY DEF WorkerHears, ReplyInv, SpokenTypeOK
<1>2. worker = "speaking"
  BY <1>1 DEF WorkerSpoke
<1>3. job = NoJob /\ (answer = "queued" => ~item.final) /\ terminal # "normal"
  BY <1>1, <1>2 DEF ReplyInv, TheCall, NothingAfter
<1>4. answer \in {"queued", "done"} <=> TerminalOf(answer) = "normal"
  BY DEF TerminalOf
<1>5. CASE KeepsSpeaking(TerminalOf(answer)) \/ TerminalOf(answer) = "normal"
  <2>1. answer \in {"queued", "done"}
    BY <1>4, <1>5 DEF KeepsSpeaking
  <2>2. \/ worker' = "getting" /\ terminal' = terminal
        \/ worker' = "done" /\ terminal' = "normal" /\ answer = "done"
    BY <1>1, <1>3, <1>4, <2>1 DEF WorkerSpoke, KeepsSpeaking, WorkerEnds
  <2>3. answer' = "none" /\ caller' = FALSE /\ UNCHANGED backendVars
    BY <1>1 DEF HangsUp
  <2>4. /\ UNCHANGED <<line, live, job, doomed, made, heard, stray>>
        /\ Held' = Held /\ Told' = Told /\ Marked' = Marked
    BY <2>3, BackendStays
  <2>5. SpokenTypeOK' /\ Hands' /\ HoldsLast' /\ ToldInOrder'
    <3>1. answer' \in Answers /\ caller' \in BOOLEAN
      BY <2>3 DEF Answers
    <3>2. Hands' /\ HoldsLast' /\ ToldInOrder' /\ PlayTypeOK'
      BY <2>3, <3>1, BackendStays DEF ReplyInv, SpokenTypeOK
    <3>3. mail' \in Items \cup {None}
      BY <1>1 DEF ReplyInv, SpokenTypeOK
    <3> QED
      BY <1>1, <3>2, <3>3 DEF SpokenTypeOK
  <2>6. TheCall'
    BY <1>1, <1>3, <2>2, <2>3, <2>4 DEF ReplyInv, TheCall
  <2>7. NothingLost'
    <3>1. NothingLost /\ Sound
      BY <1>2, <2>1 DEF ReplyInv, Sound
    <3> QED
      BY <2>4, <3>1 DEF NothingLost
  <2>8. PlayedOut' /\ NothingAfter'
    BY <1>1, <1>3, <2>2, <2>3, <2>4 DEF ReplyInv, PlayedOut, NothingAfter
  <2> QED
    BY <2>5, <2>6, <2>7, <2>8 DEF ReplyInv
<1>6. CASE ~KeepsSpeaking(TerminalOf(answer)) /\ TerminalOf(answer) # "normal"
  <2>1. worker' = "done" /\ terminal' # "normal"
    BY <1>1, <1>6 DEF WorkerSpoke, WorkerEnds
  <2> QED
    BY <1>1, <2>1, LeftAlone
<1> QED
  BY <1>5, <1>6

\* The worker waits no more, or it is cancelled.
LEMMA LeavesKeepsReply == ASSUME ReplyInv, WorkerGivesUp \/ WorkerKilled PROVE ReplyInv'
<1>1. HangsUp /\ UNCHANGED mail
  BY DEF WorkerGivesUp, WorkerKilled
<1>2. fault' \in Faults
  BY DEF WorkerGivesUp, WorkerKilled, Fault, Faults, ReplyInv, SpokenTypeOK
<1>3. worker' = "done" /\ terminal' # "normal"
  <2>1. CASE WorkerGivesUp
    BY <2>1 DEF WorkerGivesUp, WorkerSpoke, KeepsSpeaking, WorkerEnds
  <2>2. CASE WorkerKilled
    <3>1. worker \in Live /\ terminal # "normal"
      BY <2>2 DEF WorkerKilled, WorkerCancelled, Live, ReplyInv, NothingAfter
    <3> QED
      BY <2>2, <3>1 DEF WorkerKilled, WorkerCancelled, WorkerEnds
  <2> QED
    BY <2>1, <2>2
<1> QED
  BY <1>1, <1>2, <1>3, LeftAlone
-----------------------------------------------------------------------------
(* The request *)

\* A request that arrived has a handler or an answer.
LEMMA ArriveFacts ==
    ASSUME NEW kind \in {"part", "final", "marker"}, Arrive(kind)
    PROVE  /\ job = NoJob
           /\ UNCHANGED <<line, live, mark, book, owed, doomed, ctl, capt, caller, made, heard,
                          silenced, late, stray, engine>>
           /\ \/ job' = NoJob /\ answer' = (IF caller THEN "error" ELSE "none")
              \/ /\ answer' = "none" /\ job' \in Jobs /\ job'.part = kind
                 /\ job'.at \in {"draining", "streaming", "synth"}
                 /\ job'.rest = <<>> /\ job'.buffer = <<>> /\ ~job'.stale
<1>1. /\ job = NoJob
      /\ UNCHANGED <<line, live, mark, book, owed, doomed, ctl, capt, caller, made, heard,
                     silenced, late, stray, engine>>
  BY DEF Arrive, Quiet, Rest, controls
<1>2. CASE book # "active" \/ (kind = "marker" /\ ~owed)
  BY <1>1, <1>2 DEF Arrive, Respond
<1>3. CASE ~(book # "active" \/ (kind = "marker" /\ ~owed))
  <2>1. PICK at \in {"draining", "streaming", "synth"} : job' = Job(at, kind) /\ answer' = "none"
    BY <1>3 DEF Arrive
  <2>2. at \in Busy
    BY DEF Busy
  <2> QED
    BY <1>1, <2>1, <2>2, JobFacts
<1> QED
  BY <1>2, <1>3

\* A request leaves the way to the backend: to a handler, or with an error.
LEMMA TakenKeepsReply ==
    ASSUME ReplyInv, mail # None, mail' = None, UNCHANGED vars, fault' \in Faults,
           UNCHANGED <<line, live, mark, book, owed, doomed, ctl, capt, caller, made, heard,
                       silenced, late, stray, engine>>,
           \/ job' = NoJob /\ answer' = (IF caller THEN "error" ELSE "none")
           \/ /\ answer' = "none" /\ job' \in Jobs
              /\ job'.at \in {"draining", "streaming", "synth"}
              /\ job'.rest = <<>> /\ job'.buffer = <<>> /\ ~job'.stale
              /\ job'.part = "part" => ~mail.final
    PROVE  ReplyInv'
<1>1. UNCHANGED <<worker, item, terminal>>
  BY DEF vars, turn, speaker
<1>2. /\ job = NoJob /\ answer = "none" /\ ~doomed /\ terminal # "normal"
      /\ worker \in {"speaking", "done"}
  <2>1. TheCall /\ NothingAfter
    BY DEF ReplyInv
  <2>2. job = NoJob /\ answer = "none" /\ worker \in {"speaking", "done"}
    BY <2>1 DEF TheCall
  <2>3. ~doomed /\ terminal # "normal"
    BY <2>1, <2>2 DEF TheCall, NothingAfter
  <2> QED
    BY <2>2, <2>3
<1>3. /\ job' \in Jobs /\ job'.rest = <<>> /\ job'.buffer = <<>> /\ ~job'.stale
      /\ job'.at # "queueing" /\ job'.at # "emitting"
  BY NoJobFacts
<1>4. Held = <<>> /\ Held' = <<>>
  BY <1>2, <1>3, NoJobFacts DEF Held
<1>5. Told' = Told /\ Marked' = Marked
  BY DEF Told, Marked
<1>6. SpokenTypeOK'
  <2>1. answer' \in Answers /\ mail' \in Items \cup {None}
    BY DEF Answers
  <2>2. PlayTypeOK'
    BY <1>3, <2>1 DEF ReplyInv, SpokenTypeOK, PlayTypeOK
  <2> QED
    BY <2>1, <2>2 DEF SpokenTypeOK
<1>7. Hands'
  BY <1>3, <1>5 DEF ReplyInv, Hands
<1>8. HoldsLast' /\ ToldInOrder'
  BY <1>4, <1>5 DEF ReplyInv, HoldsLast, ToldInOrder
<1>9. NothingLost'
  <2>1. NothingLost /\ (Sound' => Sound)
    BY <1>1, <1>2 DEF ReplyInv, Sound
  <2> QED
    BY <2>1, <1>4, <1>5 DEF NothingLost
<1>10. PlayedOut' /\ NothingAfter'
  <2>1. terminal' # "normal" /\ answer' # "done"
    BY <1>1, <1>2
  <2> QED
    BY <2>1 DEF PlayedOut, NothingAfter
<1>11. TheCall'
  <2>1. TheCall
    BY DEF ReplyInv
  <2>2. CASE job' = NoJob /\ answer' = (IF caller THEN "error" ELSE "none")
    BY <2>1, <2>2, <1>1, <1>2 DEF TheCall
  <2>3. CASE /\ answer' = "none" /\ job'.at \in {"draining", "streaming", "synth"}
             /\ job'.part = "part" => ~mail.final
    <3>1. worker = "speaking" => mail = item
      BY <2>1 DEF TheCall
    <3> QED
      BY <2>1, <2>3, <3>1, <1>1, <1>2 DEF TheCall
  <2> QED
    BY <2>2, <2>3
<1> QED
  BY <1>6, <1>7, <1>8, <1>9, <1>10, <1>11 DEF ReplyInv

\* A request arrives, or is lost.
LEMMA RequestKeepsReply == ASSUME ReplyInv, RequestArrives \/ RequestLost PROVE ReplyInv'
<1>1. mail # None /\ mail' = None /\ UNCHANGED vars
  BY DEF RequestArrives, RequestLost
<1>2. fault' \in Faults
  BY DEF RequestArrives, RequestLost, Fault, Faults, ReplyInv, SpokenTypeOK
<1>3. CASE RequestArrives
  <2>1. PICK kind \in {"part", "final", "marker"} : Arrive(kind) /\ (kind = "part" => ~mail.final)
    BY <1>3 DEF RequestArrives
  <2>2. \/ job' = NoJob /\ answer' = (IF caller THEN "error" ELSE "none")
        \/ /\ answer' = "none" /\ job' \in Jobs
           /\ job'.at \in {"draining", "streaming", "synth"}
           /\ job'.rest = <<>> /\ job'.buffer = <<>> /\ ~job'.stale
           /\ job'.part = "part" => ~mail.final
    BY <2>1, ArriveFacts
  <2>3. UNCHANGED <<line, live, mark, book, owed, doomed, ctl, capt, caller, made, heard,
                    silenced, late, stray, engine>>
    BY <2>1, ArriveFacts
  <2> QED
    BY <1>1, <1>2, <2>2, <2>3, TakenKeepsReply
<1>4. CASE RequestLost
  <2>1. job = NoJob
    BY <1>1 DEF ReplyInv, TheCall
  <2>2. /\ job' = NoJob /\ answer' = (IF caller THEN "error" ELSE "none")
        /\ UNCHANGED <<line, live, mark, book, owed, doomed, ctl, capt, caller, made, heard,
                       silenced, late, stray, engine>>
    BY <2>1, <1>4 DEF RequestLost, backendVars, track, marks, ghosts
  <2> QED
    BY <1>1, <1>2, <2>2, TakenKeepsReply
<1> QED
  BY <1>3, <1>4
-----------------------------------------------------------------------------
(* Cancellations *)

\* What a cancellation does to the audio: it may drop the line and make a blocked enqueue
\* stale, but not without a trace.
ControlStep ==
    /\ UNCHANGED <<answer, caller, made, heard, late, engine>>
    /\ job' = job \/ job' = [job EXCEPT !.stale = (job.at = "queueing")]
    /\ job'.stale => job.stale \/ Marked' \/ stray' \/ job.rest = <<>>
    /\ line' = line \/ (line' = <<>> /\ (line = <<>> \/ ~live' \/ Marked' \/ stray'))
    /\ (Marked => Marked') /\ (live' => live) /\ (stray => stray')
    /\ \A c \in Cancellers : capt'[c].turn => Marked'
    /\ ~live' => ctl'["end"] # "idle"
    /\ doomed' => job # NoJob
    /\ mark' \in {"none", "cancelling", "cancelled"}
    /\ book' \in {"active", "cancelled", "completed"}
    /\ live' \in BOOLEAN /\ owed' \in BOOLEAN /\ doomed' \in BOOLEAN
    /\ silenced' \in BOOLEAN /\ stray' \in BOOLEAN
    /\ ctl' \in [Cancellers -> {"idle", "ending", "stopping", "acking", "done"}]
    /\ capt' \in [Cancellers -> [turn : BOOLEAN, task : BOOLEAN, owed : BOOLEAN]]

\* A handler stays what it is.
LEMMA JobStays ==
    ASSUME job \in Jobs, TheCall, ControlStep
    PROVE  /\ job' \in Jobs /\ job'.at = job.at /\ job'.part = job.part
           /\ job'.rest = job.rest /\ job'.buffer = job.buffer /\ job'.drained = job.drained
           /\ job' = NoJob <=> job = NoJob
           /\ job'.stale => job.stale \/ job.at = "queueing"
<1>1. CASE job' = job
  BY <1>1
<1>2. CASE job' = [job EXCEPT !.stale = (job.at = "queueing")]
  <2>1. /\ job' \in Jobs /\ job'.at = job.at /\ job'.part = job.part
        /\ job'.rest = job.rest /\ job'.buffer = job.buffer /\ job'.drained = job.drained
        /\ job'.stale = (job.at = "queueing")
    BY <1>2 DEF Jobs
  <2>2. CASE job = NoJob
    <3>1. job.at = "idle" /\ job.stale = FALSE
      BY <2>2 DEF NoJob
    <3>2. job' = job
      BY <1>2, <3>1 DEF Jobs
    <3> QED
      BY <2>1, <2>2, <3>2
  <2>3. CASE job # NoJob
    <3>1. job.at # "idle" /\ NoJob.at = "idle"
      BY <2>3, NoJobFacts DEF TheCall
    <3> QED
      BY <2>1, <2>3, <3>1
  <2> QED
    BY <2>2, <2>3
<1> QED
  BY <1>1, <1>2 DEF ControlStep

\* Nothing of what the peer was sent is forgotten, and no loss goes unnoticed.
LEMMA ControlKeepsReply ==
    ASSUME ReplyInv, ControlStep, UNCHANGED <<vars, mail, fault>>
    PROVE  ReplyInv'
<1>1. UNCHANGED <<worker, item, terminal>>
  BY DEF vars, turn, speaker
<1>2. UNCHANGED <<answer, caller, made, heard, late, engine>>
  BY DEF ControlStep
<1>t. /\ line \in Seq(Nat) /\ heard \in Seq(Nat) /\ made \in Nat /\ job \in Jobs
      /\ TheCall /\ Hands /\ HoldsLast /\ ToldInOrder
  BY DEF ReplyInv, SpokenTypeOK, PlayTypeOK
<1>3. /\ job' \in Jobs /\ job'.at = job.at /\ job'.part = job.part
      /\ job'.rest = job.rest /\ job'.buffer = job.buffer /\ job'.drained = job.drained
      /\ job' = NoJob <=> job = NoJob
      /\ job'.stale => job.stale \/ job.at = "queueing"
  BY <1>t, JobStays
<1>4. Held' = Held
  BY <1>3 DEF Held
<1>5. line' = line \/ (line' = <<>> /\ (line = <<>> \/ ~live' \/ Marked' \/ stray'))
  BY DEF ControlStep
<1>6. line' \in Seq(Nat) /\ Len(line') <= Credit
  <2>1. Len(line) <= Credit
    BY DEF ReplyInv, SpokenTypeOK, PlayTypeOK
  <2>2. <<>> \in Seq(Nat) /\ Len(<<>>) <= Credit
    BY EmptySeq, AudioAssumption
  <2> QED
    BY <1>5, <1>t, <2>1, <2>2
<1>7. SpokenTypeOK'
  <2>1. /\ mark' \in {"none", "cancelling", "cancelled"}
        /\ book' \in {"active", "cancelled", "completed"}
        /\ live' \in BOOLEAN /\ owed' \in BOOLEAN /\ doomed' \in BOOLEAN
        /\ silenced' \in BOOLEAN /\ stray' \in BOOLEAN
        /\ ctl' \in [Cancellers -> {"idle", "ending", "stopping", "acking", "done"}]
        /\ capt' \in [Cancellers -> [turn : BOOLEAN, task : BOOLEAN, owed : BOOLEAN]]
    BY DEF ControlStep
  <2>2. /\ answer' \in Answers /\ caller' \in BOOLEAN /\ made' \in Nat /\ heard' \in Seq(Nat)
        /\ late' \in Nat /\ engine' \in {"stream", "whole"}
    BY <1>2 DEF ReplyInv, SpokenTypeOK, PlayTypeOK
  <2>3. mail' \in Items \cup {None} /\ fault' \in Faults
    BY DEF ReplyInv, SpokenTypeOK
  <2> QED
    BY <1>3, <1>6, <2>1, <2>2, <2>3 DEF SpokenTypeOK, PlayTypeOK
<1>8. TheCall'
  BY <1>1, <1>2, <1>3, <1>t DEF TheCall, ControlStep
<1>9. Hands'
  <2>1. /\ job'.buffer # <<>> => job'.at \in {"streaming", "joining"}
        /\ job'.rest # <<>> => job'.at = "queueing"
        /\ (job'.at = "emitting" /\ job'.drained) => line' = <<>>
    BY <1>3, <1>5, <1>t DEF Hands
  <2>2. job'.stale => job'.at = "queueing" /\ (Marked' \/ stray' \/ job'.rest = <<>>)
    BY <1>3, <1>t DEF Hands, ControlStep
  <2>3. /\ \A c \in Cancellers : capt'[c].turn => Marked'
        /\ ~live' => ctl'["end"] # "idle"
    BY DEF ControlStep
  <2> QED
    BY <2>1, <2>2, <2>3 DEF Hands
<1>10. /\ HoldsLast' /\ ToldInOrder'
       /\ Told' = Told \/ ~live' \/ Marked' \/ stray'
  <2>1. HoldsLast'
    BY <1>2, <1>4, <1>t DEF HoldsLast
  <2>2. CASE line' = line
    <3>1. Told' = Told
      BY <1>2, <2>2 DEF Told
    <3> QED
      BY <2>1, <3>1, <1>2, <1>4, <1>t DEF ToldInOrder
  <2>3. CASE line' = <<>> /\ (line = <<>> \/ ~live' \/ Marked' \/ stray')
    <3>1. Told' = heard
      <4>1. heard \o <<>> = heard
        BY <1>t, ConcatEmptySeq
      <4> QED
        BY <4>1, <1>2, <2>3 DEF Told
    <3>2. line = <<>> => Told = heard
      BY <1>t, ConcatEmptySeq DEF Told
    <3>3. made - Len(Held) \in Int
      BY <1>t, HeldFacts
    <3>4. Rising(heard \o line) /\ Under(heard \o line, made - Len(Held))
      BY <1>t DEF ToldInOrder, Told
    <3>5. Rising(heard) /\ Under(heard, made - Len(Held))
      BY <1>t, <3>3, <3>4, BeginningRises
    <3> QED
      BY <2>1, <2>3, <3>1, <3>2, <3>5, <1>2, <1>4 DEF ToldInOrder
  <2> QED
    BY <1>5, <2>2, <2>3
<1>11. NothingLost'
  <2>1. NothingLost /\ (Sound' => Sound)
    BY <1>1, <1>2 DEF ReplyInv, Sound
  <2>2. (Marked => Marked') /\ (live' => live) /\ (stray => stray')
    BY DEF ControlStep
  <2> QED
    BY <2>1, <2>2, <1>2, <1>4, <1>10 DEF NothingLost
<1>12. PlayedOut' /\ NothingAfter'
  <2>1. PlayedOut /\ NothingAfter /\ (stray => stray')
    BY DEF ReplyInv, ControlStep
  <2> QED
    BY <2>1, <1>1, <1>2, <1>3, <1>5 DEF PlayedOut, NothingAfter
<1> QED
  BY <1>7, <1>8, <1>9, <1>10, <1>11, <1>12 DEF ReplyInv

\* What a cancellation finds.
Controls ==
    /\ job \in Jobs /\ TheCall /\ Hands
    /\ mark \in {"none", "cancelling", "cancelled"}
    /\ book \in {"active", "cancelled", "completed"}
    /\ live \in BOOLEAN /\ owed \in BOOLEAN /\ doomed \in BOOLEAN
    /\ silenced \in BOOLEAN /\ stray \in BOOLEAN
    /\ ctl \in [Cancellers -> {"idle", "ending", "stopping", "acking", "done"}]
    /\ capt \in [Cancellers -> [turn : BOOLEAN, task : BOOLEAN, owed : BOOLEAN]]

\* The invariant gives it.
LEMMA ReplyIsControlled == ReplyInv => Controls
  BY DEF ReplyInv, SpokenTypeOK, PlayTypeOK, Controls

\* A turn that was captured is marked.
LEMMA CaptureFacts ==
    ASSUME Controls, NEW c \in Cancellers, Capture(c)
    PROVE  /\ UNCHANGED <<job, answer, caller, owed, doomed, made, heard, silenced, late, stray,
                          engine>>
           /\ mark' \in {"none", "cancelling", "cancelled"} /\ (Marked => Marked')
           /\ \A d \in Cancellers : capt'[d].turn => Marked'
           /\ capt' \in [Cancellers -> [turn : BOOLEAN, task : BOOLEAN, owed : BOOLEAN]]
<1>1. UNCHANGED <<job, answer, caller, owed, doomed, made, heard, silenced, late, stray, engine>>
  BY DEF Capture, ghosts
<1>2. /\ mark' \in {"none", "cancelling", "cancelled"} /\ (Marked => Marked')
      /\ Owns => Marked'
  BY DEF Capture, Controls, Marked
<1> DEFINE caught == [turn |-> Owns, task |-> Admitted, owed |-> owed]
<1>3. caught \in [turn : BOOLEAN, task : BOOLEAN, owed : BOOLEAN] /\ (caught.turn => Owns)
  <2>1. owed \in BOOLEAN
    BY DEF Controls
  <2>2. Admitted \in BOOLEAN
    BY DEF Admitted
  <2>3. Owns \in BOOLEAN
    BY DEF Owns
  <2> QED
    BY <2>1, <2>2, <2>3
<1>4. capt' = [capt EXCEPT ![c] = caught]
  BY DEF Capture
<1> HIDE DEF caught
<1>5. capt \in [Cancellers -> [turn : BOOLEAN, task : BOOLEAN, owed : BOOLEAN]]
  BY DEF Controls
<1>6. capt' \in [Cancellers -> [turn : BOOLEAN, task : BOOLEAN, owed : BOOLEAN]]
  BY <1>3, <1>4, <1>5
<1>7. \A d \in Cancellers : capt'[d] = IF d = c THEN caught ELSE capt[d]
  BY <1>4, <1>5
<1>8. \A d \in Cancellers : capt'[d].turn => Marked'
  <2>1. \A d \in Cancellers : capt[d].turn => Marked
    BY DEF Controls, Hands
  <2> QED
    BY <2>1, <1>2, <1>3, <1>7
<1> QED
  BY <1>1, <1>2, <1>6, <1>8

\* The state of a cancellation moves on, and never back to idle.
LEMMA MovesOn ==
    ASSUME Controls, NEW c \in Cancellers, NEW s \in {"ending", "stopping", "acking", "done"},
           ctl' = [ctl EXCEPT ![c] = s]
    PROVE  /\ ctl' \in [Cancellers -> {"idle", "ending", "stopping", "acking", "done"}]
           /\ ctl["end"] # "idle" => ctl'["end"] # "idle"
           /\ ctl'[c] # "idle"
  BY DEF Controls, Cancellers

\* What is no loss needs no reason.
LEMMA NoLoss ==
    ASSUME Controls, UNCHANGED <<line, live, job, silenced, stray, doomed>>,
           ctl["end"] # "idle" => ctl'["end"] # "idle"
    PROVE  /\ job' = job
           /\ job'.stale => job.stale
           /\ line' = line /\ (live' => live) /\ (stray => stray')
           /\ ~live' => ctl'["end"] # "idle"
           /\ doomed' => job # NoJob
           /\ live' \in BOOLEAN /\ doomed' \in BOOLEAN
           /\ silenced' \in BOOLEAN /\ stray' \in BOOLEAN
<1>1. /\ live \in BOOLEAN /\ doomed \in BOOLEAN
      /\ silenced \in BOOLEAN /\ stray \in BOOLEAN
  BY DEF Controls
<1>2. (~live => ctl["end"] # "idle") /\ (doomed => job # NoJob)
  BY DEF Controls, Hands, TheCall
<1> QED
  BY <1>1, <1>2

\* The cancel request, the interrupt button and the captures of the ending call.
LEMMA CaptureSteps ==
    ASSUME Controls, CancelTurn \/ Interrupt \/ (EndCaptures /\ Owns)
    PROVE  ControlStep
<1>1. PICK c \in Cancellers, s \in {"ending", "stopping", "acking", "done"} :
         Capture(c) /\ ctl' = [ctl EXCEPT ![c] = s]
  BY DEF CancelTurn, Interrupt, EndCaptures, Cancellers
<1>2. UNCHANGED <<line, live>> /\ book' \in {"active", "cancelled", "completed"}
  BY DEF CancelTurn, Interrupt, EndCaptures, CancelBook, track, Controls
<1>3. /\ UNCHANGED <<job, answer, caller, owed, doomed, made, heard, silenced, late, stray, engine>>
      /\ mark' \in {"none", "cancelling", "cancelled"} /\ (Marked => Marked')
      /\ \A d \in Cancellers : capt'[d].turn => Marked'
      /\ capt' \in [Cancellers -> [turn : BOOLEAN, task : BOOLEAN, owed : BOOLEAN]]
  BY <1>1, CaptureFacts
<1>4. /\ ctl' \in [Cancellers -> {"idle", "ending", "stopping", "acking", "done"}]
      /\ ctl["end"] # "idle" => ctl'["end"] # "idle"
  BY <1>1, MovesOn
<1>5. /\ job' = job /\ (job'.stale => job.stale)
      /\ line' = line /\ (live' => live) /\ (stray => stray')
      /\ ~live' => ctl'["end"] # "idle"
      /\ doomed' => job # NoJob
      /\ live' \in BOOLEAN /\ doomed' \in BOOLEAN
      /\ silenced' \in BOOLEAN /\ stray' \in BOOLEAN
  BY <1>2, <1>3, <1>4, NoLoss
<1>6. owed' \in BOOLEAN
  BY <1>3 DEF Controls
<1> QED
  BY <1>2, <1>3, <1>4, <1>5, <1>6 DEF ControlStep

\* The call ends.
LEMMA EndStep == ASSUME Controls, End PROVE ControlStep
<1>1. /\ UNCHANGED <<line, live, job, answer, mark, owed, doomed, capt, caller,
                     made, heard, silenced, late, stray, engine>>
      /\ ctl' = [ctl EXCEPT !["end"] = "ending"]
  BY DEF End, track, ghosts
<1>2. book' \in {"active", "cancelled", "completed"} /\ "end" \in Cancellers
  BY DEF End, CancelBook, Controls, Cancellers
<1>3. /\ ctl' \in [Cancellers -> {"idle", "ending", "stopping", "acking", "done"}]
      /\ ctl["end"] # "idle" => ctl'["end"] # "idle"
  BY <1>1, <1>2, MovesOn
<1>4. /\ job' = job /\ (job'.stale => job.stale)
      /\ line' = line /\ (live' => live) /\ (stray => stray')
      /\ ~live' => ctl'["end"] # "idle"
      /\ doomed' => job # NoJob
      /\ live' \in BOOLEAN /\ doomed' \in BOOLEAN
      /\ silenced' \in BOOLEAN /\ stray' \in BOOLEAN
  BY <1>1, <1>3, NoLoss
<1>5. /\ \A c \in Cancellers : capt'[c].turn => Marked'
      /\ owed' \in BOOLEAN /\ mark' \in {"none", "cancelling", "cancelled"}
      /\ capt' \in [Cancellers -> [turn : BOOLEAN, task : BOOLEAN, owed : BOOLEAN]]
      /\ Marked => Marked'
  BY <1>1 DEF Controls, Hands, Marked
<1> QED
  BY <1>1, <1>2, <1>3, <1>4, <1>5 DEF ControlStep

\* The end of a call without speech stops the track.
LEMMA EndStopsStep == ASSUME Controls, EndCaptures, ~Owns PROVE ControlStep
<1>1. /\ Capture("end") /\ UNCHANGED book /\ "end" \in Cancellers
      /\ ctl' = [ctl EXCEPT !["end"] = "done"] /\ live' = FALSE /\ line' = <<>>
  BY DEF EndCaptures, StopTrack, Discard, Cancellers
<1>2. /\ UNCHANGED <<job, answer, caller, owed, doomed, made, heard, silenced, late, stray, engine>>
      /\ mark' \in {"none", "cancelling", "cancelled"} /\ (Marked => Marked')
      /\ \A d \in Cancellers : capt'[d].turn => Marked'
      /\ capt' \in [Cancellers -> [turn : BOOLEAN, task : BOOLEAN, owed : BOOLEAN]]
  BY <1>1, CaptureFacts
<1>3. /\ ctl' \in [Cancellers -> {"idle", "ending", "stopping", "acking", "done"}]
      /\ ctl'["end"] # "idle"
  BY <1>1, MovesOn
<1>4. /\ doomed' => job # NoJob
      /\ doomed' \in BOOLEAN /\ owed' \in BOOLEAN /\ live' \in BOOLEAN
      /\ silenced' \in BOOLEAN /\ stray' \in BOOLEAN
      /\ book' \in {"active", "cancelled", "completed"}
  BY <1>1, <1>2 DEF Controls, TheCall
<1> QED
  BY <1>1, <1>2, <1>3, <1>4 DEF ControlStep

\* The playout is stopped: a turn that was captured is marked, and a drop that no capture
\* explains leaves stray.
LEMMA StopPlayoutStep ==
    ASSUME Controls, NEW c \in Cancellers, StopPlayout(c) PROVE ControlStep
<1>1. /\ UNCHANGED <<live, answer, mark, book, owed, doomed, capt, caller, made, heard, late,
                     engine>>
      /\ line' = <<>> /\ job' = [job EXCEPT !.stale = (job.at = "queueing")]
      /\ silenced' = (silenced \/ capt[c].turn)
      /\ stray' = (stray \/ (~capt[c].turn /\ (line # <<>> \/ job.rest # <<>>)))
  BY DEF StopPlayout, marks
<1>2. /\ ctl' \in [Cancellers -> {"idle", "ending", "stopping", "acking", "done"}]
      /\ ctl["end"] # "idle" => ctl'["end"] # "idle"
  <2>1. PICK s \in {"ending", "stopping", "acking", "done"} : ctl' = [ctl EXCEPT ![c] = s]
    BY DEF StopPlayout
  <2> QED
    BY <2>1, MovesOn
<1>3. Marked' = Marked /\ \A d \in Cancellers : capt[d].turn => Marked
  BY <1>1 DEF Marked, Controls, Hands
<1>4. Marked' \/ stray' \/ (line = <<>> /\ job.rest = <<>>)
  BY <1>1, <1>3
<1>5. stray => stray'
  BY <1>1
<1>6. silenced' \in BOOLEAN /\ stray' \in BOOLEAN
  <2>1. capt[c].turn \in BOOLEAN
    BY DEF Controls
  <2>2. silenced \in BOOLEAN /\ stray \in BOOLEAN
    BY DEF Controls
  <2>3. silenced' \in BOOLEAN
    BY <1>1, <2>1, <2>2
  <2>4. stray' \in BOOLEAN
    BY <1>1, <2>1, <2>2
  <2> QED
    BY <2>3, <2>4
<1>7. /\ mark' \in {"none", "cancelling", "cancelled"}
      /\ book' \in {"active", "cancelled", "completed"}
      /\ live' \in BOOLEAN /\ owed' \in BOOLEAN /\ doomed' \in BOOLEAN
      /\ capt' \in [Cancellers -> [turn : BOOLEAN, task : BOOLEAN, owed : BOOLEAN]]
  BY <1>1 DEF Controls
<1>8. (~live' => ctl'["end"] # "idle") /\ (doomed' => job # NoJob)
  BY <1>1, <1>2 DEF Controls, Hands, TheCall
<1>9. \A d \in Cancellers : capt'[d].turn => Marked'
  BY <1>1, <1>3
<1> QED
  BY <1>1, <1>2, <1>3, <1>4, <1>5, <1>6, <1>7, <1>8, <1>9 DEF ControlStep

\* The cancellation is finished; that of the end stops the track.
LEMMA FinishStep ==
    ASSUME Controls, NEW c \in Cancellers, Finish(c) PROVE ControlStep
<1>1. /\ UNCHANGED <<job, answer, caller, book, made, heard, silenced, late, stray, engine>>
      /\ mark' = (IF capt[c].turn THEN "cancelled" ELSE mark)
      /\ owed' = (owed /\ ~capt[c].owed)
      /\ doomed' = (doomed \/ (capt[c].task /\ job # NoJob))
      /\ ctl' = [ctl EXCEPT ![c] = "done"] /\ capt' = [capt EXCEPT ![c] = NoCapture]
  BY DEF Finish, ghosts
<1>2. \/ c = "end" /\ live' = FALSE /\ line' = <<>>
      \/ UNCHANGED <<live, line>>
  BY DEF Finish, StopTrack, Discard, track
<1>3. /\ ctl' \in [Cancellers -> {"idle", "ending", "stopping", "acking", "done"}]
      /\ ctl["end"] # "idle" => ctl'["end"] # "idle"
      /\ ctl'[c] # "idle"
  BY <1>1, MovesOn
<1>4. mark' \in {"none", "cancelling", "cancelled"} /\ (Marked => Marked')
  BY <1>1 DEF Controls, Marked
<1>5. /\ capt' \in [Cancellers -> [turn : BOOLEAN, task : BOOLEAN, owed : BOOLEAN]]
      /\ \A d \in Cancellers : capt'[d].turn => capt[d].turn
  BY <1>1 DEF Controls, NoCapture
<1>6. \A d \in Cancellers : capt'[d].turn => Marked'
  BY <1>4, <1>5 DEF Controls, Hands
<1>7. owed' \in BOOLEAN /\ doomed' \in BOOLEAN
  <2>1. capt[c].owed \in BOOLEAN /\ capt[c].task \in BOOLEAN
    BY DEF Controls
  <2>2. owed \in BOOLEAN /\ doomed \in BOOLEAN
    BY DEF Controls
  <2>3. owed' \in BOOLEAN
    BY <1>1, <2>1, <2>2
  <2>4. doomed' \in BOOLEAN
    BY <1>1, <2>1, <2>2
  <2> QED
    BY <2>3, <2>4
<1>8. doomed' => job # NoJob
  BY <1>1 DEF Controls, TheCall
<1>9. /\ live' \in BOOLEAN /\ silenced' \in BOOLEAN /\ stray' \in BOOLEAN
      /\ book' \in {"active", "cancelled", "completed"} /\ (live' => live)
      /\ ~live' => ctl'["end"] # "idle"
  <2>1. /\ live \in BOOLEAN /\ silenced \in BOOLEAN /\ stray \in BOOLEAN
        /\ book \in {"active", "cancelled", "completed"}
        /\ ~live => ctl["end"] # "idle"
    BY DEF Controls, Hands
  <2>2. live' = FALSE \/ live' = live
    BY <1>2
  <2>3. live' \in BOOLEAN /\ (live' => live)
    <3>1. CASE live' = FALSE
      BY <3>1
    <3>2. CASE live' = live
      BY <2>1, <3>2
    <3> QED
      BY <2>2, <3>1, <3>2
  <2>4. ~live' => ctl'["end"] # "idle"
    BY <2>1, <1>2, <1>3
  <2> QED
    BY <2>1, <2>3, <2>4, <1>1
<1>10. line' = line \/ (line' = <<>> /\ ~live')
  BY <1>2
<1>11. job' = job /\ (job'.stale => job.stale) /\ (stray => stray')
  BY <1>1
<1> QED
  BY <1>1, <1>3, <1>4, <1>5, <1>6, <1>7, <1>8, <1>9, <1>10, <1>11 DEF ControlStep

\* Every cancellation is such a step.
LEMMA CancellationSteps ==
    ASSUME Controls, CancelTurn \/ Interrupt \/ End \/ Cancelling PROVE ControlStep
<1>1. CASE CancelTurn \/ Interrupt
  BY <1>1, CaptureSteps
<1>2. CASE End
  BY <1>2, EndStep
<1>3. CASE EndCaptures
  BY <1>3, CaptureSteps, EndStopsStep
<1>4. CASE \E c \in Cancellers : StopPlayout(c) \/ Finish(c)
  BY <1>4, StopPlayoutStep, FinishStep
<1> QED
  BY <1>1, <1>2, <1>3, <1>4 DEF Cancelling

\* Together.
LEMMA CancellationKeepsReply ==
    ASSUME ReplyInv, CancelTurn \/ Interrupt \/ End \/ Cancelling, UNCHANGED <<vars, mail, fault>>
    PROVE  ReplyInv'
BY ReplyIsControlled, CancellationSteps, ControlKeepsReply
-----------------------------------------------------------------------------
(* The peer *)

\* The frame that is played passes from what waits to what was heard.
LEMMA PlayKeepsReply == ASSUME ReplyInv, FramePlayed PROVE ReplyInv'
<1>1. /\ line # <<>> /\ heard' = heard \o Take(line, FrameSize) /\ line' = Drop(line, FrameSize)
      /\ UNCHANGED <<live, job, answer, mark, book, owed, doomed, ctl, capt, caller, made,
                     silenced, late, stray, engine>>
  BY DEF FramePlayed, Play, marks, controls
<1>2. UNCHANGED <<worker, item, terminal, mail, fault>>
  BY DEF FramePlayed, vars, turn, speaker
<1>t. /\ line \in Seq(Nat) /\ Len(line) <= Credit /\ heard \in Seq(Nat) /\ made \in Nat
      /\ job \in Jobs /\ Len(line) \in Nat /\ FrameSize \in Nat /\ Credit \in Nat
  BY AudioAssumption, LenProperties DEF ReplyInv, SpokenTypeOK, PlayTypeOK
<1>3. PICK n \in 0..Len(line) :
         /\ Take(line, FrameSize) = SubSeq(line, 1, n)
         /\ n < Len(line) => Drop(line, FrameSize) = SubSeq(line, n + 1, Len(line))
         /\ n = Len(line) => Drop(line, FrameSize) = <<>>
  BY <1>t, TakeCuts
<1> DEFINE t == SubSeq(line, 1, n)
           r == SubSeq(line, n + 1, Len(line))
<1>4. /\ t \in Seq(Nat) /\ r \in Seq(Nat) /\ Len(r) = Len(line) - n /\ t \o r = line
  BY <1>t, CutFacts, CutJoins
<1>5. line' = r
  <2>1. CASE n < Len(line)
    BY <1>1, <1>3, <2>1
  <2>2. CASE n = Len(line)
    <3>1. Len(r) = 0
      BY <1>4, <1>t, <2>2
    <3>2. r = <<>>
      <4> HIDE DEF r
      <4> QED
        BY <1>4, <3>1, EmptySeq
    <3> QED
      BY <1>1, <1>3, <2>2, <3>2
  <2> QED
    BY <1>t, <2>1, <2>2
<1>6. heard' = heard \o t
  BY <1>1, <1>3
<1> HIDE DEF t, r
<1>7. Told' = Told
  <2>1. (heard \o t) \o r = heard \o (t \o r)
    BY <1>t, <1>4, JoinGroups
  <2> QED
    BY <2>1, <1>4, <1>5, <1>6 DEF Told
<1>8. heard' \in Seq(Nat) /\ line' \in Seq(Nat) /\ Len(line') <= Credit
  <2>1. heard \o t \in Seq(Nat)
    BY <1>t, <1>4, JoinFacts
  <2>2. Len(r) <= Credit
    BY <1>t, <1>4
  <2> QED
    BY <2>1, <2>2, <1>4, <1>5, <1>6
<1>9. SpokenTypeOK'
  <2>1. PlayTypeOK'
    BY <1>1, <1>8 DEF ReplyInv, SpokenTypeOK, PlayTypeOK
  <2> QED
    BY <2>1, <1>2 DEF ReplyInv, SpokenTypeOK
<1>10. Held' = Held /\ Marked' = Marked
  BY <1>1 DEF Held, Marked
<1>11. TheCall'
  BY <1>1, <1>2 DEF ReplyInv, TheCall
<1>12. Hands'
  BY <1>1, <1>10 DEF ReplyInv, Hands
<1>13. HoldsLast' /\ ToldInOrder' /\ NothingLost'
  BY <1>1, <1>2, <1>7, <1>10 DEF ReplyInv, HoldsLast, ToldInOrder, NothingLost, Sound
<1>14. PlayedOut' /\ NothingAfter'
  BY <1>1, <1>2 DEF ReplyInv, PlayedOut, NothingAfter
<1> QED
  BY <1>9, <1>11, <1>12, <1>13, <1>14 DEF ReplyInv
-----------------------------------------------------------------------------
(* The reply is heard *)

\* A step of the whole is one of SpeechTurn, or leaves it alone.
LEMMA ReplyIsATurn == SpokenNext \/ UNCHANGED spokenVars => [Next]_vars
<1>1. Incremental => Next
  BY DEF Incremental, Next, Generation
<1>2. WorkerSends => Next
  BY DEF WorkerSends, Next, Worker
<1>3. WorkerHears => Next
  <2> SUFFICES ASSUME WorkerHears PROVE Next
    OBVIOUS
  <2>1. TerminalOf(answer) \in {"normal", "cancelled", "error"}
    BY DEF TerminalOf
  <2> QED
    BY <2>1 DEF WorkerHears, Next, Worker
<1>4. WorkerGivesUp \/ WorkerKilled => Next
  BY DEF WorkerGivesUp, WorkerKilled, Next, Worker
<1>5. WebSteps \/ WebCancelled => Next
  BY DEF WebSteps, WebCancelled, Next, Generation, Worker
<1>6. CancelAnswered \/ CancelLost => Next
  BY DEF CancelAnswered, CancelLost, Next
<1>7. RequestArrives \/ RequestLost \/ CancelArrives \/ BackendSteps \/ FramePlayed
         \/ InterruptArrives \/ CallEnds => UNCHANGED vars
  BY DEF RequestArrives, RequestLost, CancelArrives, BackendSteps, FramePlayed,
         InterruptArrives, CallEnds
<1>8. UNCHANGED spokenVars => UNCHANGED vars
  BY DEF spokenVars
<1> QED
  BY <1>1, <1>2, <1>3, <1>4, <1>5, <1>6, <1>7, <1>8 DEF SpokenNext, Progress

\* Every step keeps the invariant of the reply.
LEMMA ReplyStep == Inv /\ ReplyInv /\ [SpokenNext]_spokenVars => ReplyInv'
<1> SUFFICES ASSUME Inv, ReplyInv, [SpokenNext]_spokenVars PROVE ReplyInv'
  OBVIOUS
<1>f. fault \in Faults
  BY DEF ReplyInv, SpokenTypeOK
<1>1. CASE Incremental \/ WebSteps \/ WebCancelled \/ CancelAnswered \/ CancelLost
  <2>1. UNCHANGED <<playVars, mail>> /\ fault' \in Faults
    BY <1>1, <1>f
       DEF Incremental, WebSteps, WebCancelled, CancelAnswered, CancelLost, Fault, Faults
  <2>2. \/ Generation \/ Finalize \/ WorkerStarts \/ Leaving \/ BackendCancelled
        \/ StreamCancelled \/ StreamClosed \/ GatherCancelled
    BY <1>1 DEF Incremental, WebSteps, WebCancelled, CancelAnswered, CancelLost, Generation
  <2>3. WorkerStays
    BY <2>2, SchedulerStays
  <2> QED
    BY <2>1, <2>3, WebKeepsReply
<1>2. CASE WorkerSends
  BY <1>2, SendKeepsReply
<1>3. CASE WorkerHears
  BY <1>3, HearsKeepsReply
<1>4. CASE WorkerGivesUp \/ WorkerKilled
  BY <1>4, LeavesKeepsReply
<1>5. CASE RequestArrives \/ RequestLost
  BY <1>5, RequestKeepsReply
<1>6. CASE BackendSteps
  <2>1. UNCHANGED <<vars, mail, fault>> /\ (Handler \/ Cancelling)
    BY <1>6 DEF BackendSteps
  <2> QED
    BY <2>1, HandlerKeepsReply, CancellationKeepsReply
<1>7. CASE CancelArrives \/ InterruptArrives \/ CallEnds
  <2>1. UNCHANGED <<vars, mail, fault>> /\ (CancelTurn \/ Interrupt \/ End)
    BY <1>7 DEF CancelArrives, InterruptArrives, CallEnds
  <2> QED
    BY <2>1, CancellationKeepsReply
<1>8. CASE FramePlayed
  BY <1>8, PlayKeepsReply
<1>9. CASE UNCHANGED spokenVars
  <2>1. UNCHANGED <<vars, playVars, mail, fault>>
    BY <1>9 DEF spokenVars
  <2>2. WorkerStays
    BY <2>1 DEF WorkerStays, vars, turn, speaker
  <2> QED
    BY <2>1, <2>2, <1>f, WebKeepsReply
<1> QED
  BY <1>1, <1>2, <1>3, <1>4, <1>5, <1>6, <1>7, <1>8, <1>9 DEF SpokenNext, Progress

\* Before the first segment there is nothing to lose.
LEMMA InitReply == SpokenInit => Inv /\ ReplyInv
<1> SUFFICES ASSUME SpokenInit PROVE Inv /\ ReplyInv
  OBVIOUS
<1>1. Inv
  BY InitInv DEF SpokenInit
<1>2. /\ worker = "none" /\ terminal = None /\ mail = None /\ fault = "none"
      /\ line = <<>> /\ live = TRUE /\ job = NoJob /\ answer = "none" /\ caller = FALSE
      /\ mark = "none" /\ book = "active" /\ owed = FALSE /\ doomed = FALSE
      /\ ctl = [c \in Cancellers |-> "idle"] /\ capt = [c \in Cancellers |-> NoCapture]
      /\ made = 0 /\ heard = <<>> /\ silenced = FALSE /\ late = 0 /\ stray = FALSE
      /\ engine \in {"stream", "whole"}
  BY DEF SpokenInit, Init, PlayInit
<1>3. <<>> \in Seq(Nat) /\ Len(<<>>) = 0 /\ Credit \in Nat
  BY EmptySeq, AudioAssumption
<1>4. PlayTypeOK
  <2>1. /\ ctl \in [Cancellers -> {"idle", "ending", "stopping", "acking", "done"}]
        /\ capt \in [Cancellers -> [turn : BOOLEAN, task : BOOLEAN, owed : BOOLEAN]]
    BY <1>2 DEF NoCapture
  <2>2. /\ line \in Seq(Nat) /\ Len(line) <= Credit /\ heard \in Seq(Nat)
        /\ made \in Nat /\ late \in Nat
    BY <1>2, <1>3
  <2>3. job \in Jobs /\ answer \in Answers
    BY <1>2, NoJobFacts DEF Answers
  <2> QED
    BY <1>2, <2>1, <2>2, <2>3 DEF PlayTypeOK
<1>5. SpokenTypeOK
  BY <1>2, <1>4 DEF SpokenTypeOK, Faults
<1>6. TheCall
  BY <1>2, NoJobFacts DEF TheCall
<1>7. Hands
  <2>1. \A c \in Cancellers : ~capt[c].turn
    BY <1>2 DEF NoCapture
  <2> QED
    BY <1>2, <2>1, NoJobFacts DEF Hands
<1>8. Held = <<>> /\ Told = <<>>
  <2>1. <<>> \o <<>> = <<>>
    BY <1>3, ConcatEmptySeq
  <2> QED
    BY <1>2, <2>1, NoJobFacts DEF Held, Told
<1>9. HoldsLast /\ ToldInOrder /\ NothingLost
  <2>1. Len(Held) = 0 /\ Len(Told) = 0 /\ made = 0 /\ made - Len(Held) = 0
    <3>1. Len(Held) = 0 /\ Len(Told) = 0
      BY <1>3, <1>8
    <3>2. made = 0
      BY <1>2
    <3> QED
      BY <3>1, <3>2
  <2>2. HoldsLast
    <3>1. LastUnits(<<>>, 0)
      BY NoUnits
    <3> QED
      BY <1>8, <2>1, <3>1 DEF HoldsLast
  <2>3. Rising(Told) /\ Under(Told, 0) /\ Upto(Told, 0)
    BY <2>1 DEF Rising, Under, Upto
  <2> QED
    BY <2>1, <2>2, <2>3 DEF ToldInOrder, NothingLost
<1>10. PlayedOut /\ NothingAfter
  BY <1>2, NoneAssumption DEF PlayedOut, NothingAfter
<1> QED
  BY <1>1, <1>5, <1>6, <1>7, <1>9, <1>10 DEF ReplyInv

\* The invariant holds from the first segment to the last frame.
LEMMA ReplyInvHolds == SpokenSpec => [](Inv /\ ReplyInv)
<1>1. SpokenInit => Inv /\ ReplyInv
  BY InitReply
<1>2. Inv /\ ReplyInv /\ [SpokenNext]_spokenVars => (Inv /\ ReplyInv)'
  <2> SUFFICES ASSUME Inv, ReplyInv, [SpokenNext]_spokenVars PROVE Inv' /\ ReplyInv'
    OBVIOUS
  <2>1. [Next]_vars
    BY ReplyIsATurn
  <2>2. Inv'
    BY <2>1, InvStep
  <2>3. ReplyInv'
    BY ReplyStep
  <2> QED
    BY <2>2, <2>3
<1> QED
  BY <1>1, <1>2, PTL DEF SpokenSpec

\* The peer hears the reply, for every credit, frame, chunk and queue size, every reply, and
\* whatever is lost, given up, cancelled or stopped on the way: what it was sent, what
\* waits for it and what the handler holds is in order and never repeated, and a reply that
\* enters the history as spoken was sent whole.
THEOREM TheReplyIsHeard == SpokenSpec => []ReplyIsHeard
<1>1. ReplyInv => NormalMeansHeard
  BY DEF ReplyInv, PlayedOut, Upto, NormalMeansHeard
<1>2. ReplyInv => AudioInOrder
  <2> SUFFICES ASSUME ReplyInv PROVE AudioInOrder
    OBVIOUS
  <2>1. /\ heard \in Seq(Nat) /\ line \in Seq(Nat) /\ made \in Nat /\ job \in Jobs
        /\ job.rest \in Seq(Nat) /\ job.buffer \in Seq(Nat)
    BY DEF ReplyInv, SpokenTypeOK, PlayTypeOK, Jobs
  <2>2. /\ Held \in Seq(Nat) /\ Len(Held) \in Nat
        /\ \/ Held = job.rest /\ job.buffer = <<>>
           \/ Held = job.buffer /\ job.rest = <<>>
    BY <2>1, HeldFacts DEF ReplyInv
  <2>3. Told \in Seq(Nat)
    BY <2>1, JoinFacts DEF Told
  <2>4. (Told \o job.rest) \o job.buffer = Told \o Held
    <3>1. Told \o job.rest \in Seq(Nat)
      BY <2>1, <2>3, JoinFacts
    <3>2. CASE Held = job.rest /\ job.buffer = <<>>
      BY <3>1, <3>2, ConcatEmptySeq
    <3>3. CASE Held = job.buffer /\ job.rest = <<>>
      <4>1. Told \o job.rest = Told
        BY <2>3, <3>3, ConcatEmptySeq
      <4> QED
        BY <4>1, <3>3
    <3> QED
      BY <2>2, <3>2, <3>3
  <2>5. Rising(Told \o Held)
    <3> DEFINE h == Len(Held)
    <3>1. Rising(Told) /\ Under(Told, made - h) /\ LastUnits(Held, made)
      BY DEF ReplyInv, ToldInOrder, HoldsLast
    <3>2. h \in 0..Len(Held) /\ SubSeq(Held, 1, h) = Held
      BY <2>2, SubSeqFull
    <3>3. Rising(Told \o SubSeq(Held, 1, h))
      BY <2>1, <2>2, <2>3, <3>1, <3>2, Loading
    <3> QED
      BY <3>2, <3>3
  <2> QED
    BY <2>4, <2>5 DEF AudioInOrder, Rising, Told
<1>3. ReplyInv => SpokenTypeOK
  BY DEF ReplyInv
<1> QED
  BY <1>1, <1>2, <1>3, ReplyInvHolds, PTL DEF ReplyIsHeard

\* With a backend that loses, delays and cancels the web server's turn is still a behaviour
\* of SpeechTurn, whose theorems hold of it.
THEOREM RepliesAreTurns == SpokenSpec => Spec
<1>1. SpokenInit => Init
  BY DEF SpokenInit
<1>2. [SpokenNext]_spokenVars => [Next]_vars
  BY ReplyIsATurn
<1> QED
  BY <1>1, <1>2, PTL DEF SpokenSpec, Spec
-----------------------------------------------------------------------------
(* A stopped turn is quiet *)

\* A turn that is marked or ended admits nothing; a marker waits for its playout only.
Refused ==
    /\ (ctl["web"] # "idle" \/ ctl["end"] # "idle" \/ Marked) => book # "active"
    /\ (book # "active" /\ job.at \in Talking) => Marked \/ ctl["end"] # "idle"
    /\ job.part = "marker" => job.at \in {"draining", "emitting"}
    /\ (job.part = "marker" /\ job.at = "draining") => owed \/ Marked

\* A handler that queues audio is captured with its turn, and cut off with it.
Caught ==
    /\ \A c \in Cancellers :
          /\ capt[c].owed => capt[c].turn
          /\ (capt[c].turn /\ ~capt[c].task /\ job # NoJob) => job.at \in {"draining", "emitting"}
    /\ (mark = "cancelled" /\ job # NoJob) => doomed \/ job.at \in {"draining", "emitting"}

\* Why the backend has a call of a worker that is done, and what an answered cancellation
\* did there.
Abandoned ==
    /\ (worker = "done" /\ (job # NoJob \/ mail # None)) => killed \/ fault = "gaveUp"
    /\ cancelTask = "done" => ctl["web"] # "idle" \/ ctl["end"] # "idle" \/ fault = "cancelLost"

\* What entered the line after the stop is the beginning of one chunk, and what is held
\* begins with the rest of it.
LateLeft ==
    /\ ~silenced => late = 0
    /\ silenced => Marked
    /\ late <= ChunkSize
    /\ (silenced /\ ~job.stale /\ Held # <<>>) => late <= (Held[1] - 1) % ChunkSize
    /\ (silenced /\ job.at = "synth") => late = 0

QuietInv == Refused /\ Caught /\ Abandoned /\ LateLeft

\* A remainder below c is the one.
LEMMA ModUnique ==
    ASSUME NEW c \in Nat \ {0}, NEW q \in Nat, NEW r \in Nat, r < c, NEW y \in Nat, y = c * q + r
    PROVE  y % c = r
<1> DEFINE p == y \div c
           t == y % c
<1>1. p \in Nat /\ t \in Nat /\ t < c /\ y = c * p + t
  OBVIOUS
<1> HIDE DEF p, t
<1>2. CASE q = p
  BY <1>1, <1>2 DEF t
<1>3. CASE q < p
  <2>1. c * p >= c * (q + 1)
    BY <1>1, <1>3
  <2>2. c * (q + 1) = c * q + c
    OBVIOUS
  <2> QED
    BY <1>1, <2>1, <2>2
<1>4. CASE p < q
  <2>1. c * q >= c * (p + 1)
    BY <1>1, <1>4
  <2>2. c * (p + 1) = c * p + c
    BY <1>1
  <2> QED
    BY <1>1, <2>1, <2>2
<1> QED
  BY <1>1, <1>2, <1>3, <1>4

\* Within a chunk the remainder counts on.
LEMMA ModAdds ==
    ASSUME NEW c \in Nat \ {0}, NEW x \in Nat, NEW n \in Nat, (x % c) + n < c
    PROVE  (x + n) % c = (x % c) + n
<1>1. x \div c \in Nat /\ x % c \in Nat /\ x = c * (x \div c) + (x % c)
  OBVIOUS
<1>2. x + n = c * (x \div c) + ((x % c) + n)
  BY <1>1
<1>3. (x % c) + n \in Nat /\ x + n \in Nat
  BY <1>1
<1> QED
  BY <1>1, <1>2, <1>3, ModUnique

\* Of a marked turn no more than the rest of a chunk fits.
LEMMA LateFits ==
    ASSUME NEW s \in Seq(Nat), s # <<>>, s[1] >= 1, Marked, line \in Seq(Nat), Len(line) <= Credit
    PROVE  \E n \in 0..Len(s) :
              /\ Fitting(s) = SubSeq(s, 1, n) /\ Len(Fitting(s)) = n
              /\ n + ((s[1] - 1) % ChunkSize) <= ChunkSize
              /\ (n # Len(Wanted(s)) /\ n < Len(s)) => n + ((s[1] - 1) % ChunkSize) < ChunkSize
              /\ n = Len(s) => n = Len(Wanted(s))
<1>1. /\ Len(s) \in Nat /\ Len(s) > 0 /\ Len(line) \in Nat /\ s[1] \in Nat
      /\ Credit \in Nat /\ ChunkSize \in Nat \ {0}
  <2>1. Len(s) \in Nat /\ Len(s) # 0 /\ Len(line) \in Nat
    BY LenProperties, EmptySeq
  <2>2. s[1] \in Nat
    BY <2>1, ElementOfSeq
  <2> QED
    BY <2>1, <2>2, AudioAssumption
<1> DEFINE m == (s[1] - 1) % ChunkSize
           k == ChunkSize - m
<1>2. m \in Nat /\ m < ChunkSize /\ k \in Nat
  <2>1. s[1] - 1 \in Nat
    BY <1>1
  <2> QED
    BY <2>1, <1>1
<1>3. Wanted(s) = Take(s, k)
  BY DEF Wanted, Chunk
<1> HIDE DEF k
<1>4. PICK w \in 0..Len(s) : w <= k /\ (w = k \/ w = Len(s)) /\ Take(s, k) = SubSeq(s, 1, w)
  BY <1>2, TakeCuts
<1>5. Wanted(s) \in Seq(Nat) /\ Len(Wanted(s)) = w
  BY <1>3, <1>4, CutFacts
<1>6. CASE live /\ Len(line) < Credit
  <2>1. Credit - Len(line) \in Nat
    BY <1>1
  <2>2. PICK n \in 0..Len(Wanted(s)) :
           /\ n = Credit - Len(line) \/ n = Len(Wanted(s))
           /\ Take(Wanted(s), Credit - Len(line)) = SubSeq(Wanted(s), 1, n)
    BY <1>5, <2>1, TakeCuts
  <2>3. Fitting(s) = SubSeq(Wanted(s), 1, n)
    BY <1>6, <2>2 DEF Fitting
  <2>4. n \in 0..w /\ n \in 0..Len(s) /\ n \in Nat /\ w \in Nat
    BY <1>1, <1>4, <1>5, <2>2
  <2>5. SubSeq(SubSeq(s, 1, w), 1, n) = SubSeq(s, 1, n)
    BY <2>4, CutTwice
  <2>6. Fitting(s) = SubSeq(s, 1, n) /\ Len(SubSeq(s, 1, n)) = n
    BY <1>3, <1>4, <2>3, <2>4, <2>5, CutFacts
  <2>7. n + m <= ChunkSize
    BY <1>1, <1>2, <1>4, <2>4 DEF k
  <2>8. n # w => n + m < ChunkSize
    BY <1>1, <1>2, <1>4, <2>4 DEF k
  <2>9. n = Len(s) => n = w
    BY <1>1, <1>4, <2>4
  <2> QED
    BY <1>5, <2>4, <2>6, <2>7, <2>8, <2>9
<1>7. CASE ~(live /\ Len(line) < Credit)
  <2>1. Fitting(s) = <<>>
    BY <1>7 DEF Fitting
  <2>2. SubSeq(s, 1, 0) = <<>> /\ Len(<<>>) = 0 /\ 0 \in 0..Len(s)
    BY <1>1, SubSeqEmpty, EmptySeq
  <2>3. 0 + m <= ChunkSize /\ 0 + m < ChunkSize /\ 0 # Len(s)
    BY <1>1, <1>2
  <2> QED
    BY <2>1, <2>2, <2>3
<1> QED
  BY <1>6, <1>7

\* What a step of the handler of a stopped turn leaves.
LateStep ==
    /\ late' <= ChunkSize
    /\ (~job'.stale /\ Held' # <<>>) => late' <= (Held'[1] - 1) % ChunkSize
    /\ job'.at # "synth"

\* An enqueue of a stopped turn ends with the chunk it begins with.
LEMMA LateEnqueue ==
    ASSUME line \in Seq(Nat), Len(line) <= Credit, owed \in BOOLEAN, late \in Nat, Marked, silenced,
           late <= ChunkSize, NEW m \in Nat, NEW j \in Jobs, j.buffer = <<>>, ~j.stale,
           NEW s \in Seq(Nat), LastUnits(s, m),
           s # <<>> => late <= (s[1] - 1) % ChunkSize,
           NEW b \in {"streaming", "joined", "draining"}, Enqueue(j, s, b)
    PROVE  LateStep
<1> DEFINE all == ~live \/ Len(Fitting(s)) = Len(Wanted(s))
           g == [j EXCEPT !.started = @ \/ ~Marked, !.rest = <<>>, !.stale = FALSE]
<1>1. late' = late + Len(Fitting(s))
  BY DEF Enqueue
<1>2. all => job'.at # "synth" /\ Held' = <<>>
  <2> SUFFICES ASSUME all PROVE job'.at # "synth" /\ Held' = <<>>
    OBVIOUS
  <2>1. Goes(g, b)
    BY DEF Enqueue
  <2>2. g \in Jobs /\ g.rest = <<>> /\ g.buffer = <<>> /\ ~g.stale
    BY EmptySeq DEF Jobs
  <2> HIDE DEF g
  <2>3. Went(g.part)
    BY <2>1, <2>2, GoesFacts
  <2> QED
    BY <2>3, NoJobFacts DEF Went, Held
<1>3. CASE s = <<>>
  <2>1. Wanted(s) = <<>> /\ (Fitting(s) = <<>> \/ Fitting(s) = Take(Wanted(s), Credit - Len(line)))
    BY <1>3 DEF Wanted, Fitting
  <2>2. Take(<<>>, Credit - Len(line)) = <<>> /\ Len(<<>>) = 0
    <3>1. Len(<<>>) = 0 /\ <<>> \in Seq(Nat) /\ Len(line) \in Nat /\ Credit \in Nat
      BY EmptySeq, LenProperties, AudioAssumption
    <3>2. Credit - Len(line) \in Nat
      BY <3>1
    <3>3. PICK n \in 0..Len(<<>>) : Take(<<>>, Credit - Len(line)) = SubSeq(<<>>, 1, n)
      BY <3>1, <3>2, TakeCuts
    <3>4. n = 0 /\ SubSeq(<<>>, 1, 0) = <<>>
      BY <3>1, <3>3, SubSeqEmpty
    <3> QED
      BY <3>1, <3>3, <3>4
  <2>3. Fitting(s) = <<>> /\ Len(Fitting(s)) = 0 /\ all
    BY <2>1, <2>2
  <2> QED
    BY <1>1, <1>2, <2>3 DEF LateStep
<1>4. CASE s # <<>>
  <2>1. /\ Len(s) \in Nat /\ Len(s) > 0 /\ ChunkSize \in Nat \ {0}
        /\ \A i \in 1..Len(s) : s[i] = m - Len(s) + i
        /\ Len(s) <= m
    BY <1>4, LenProperties, EmptySeq, AudioAssumption DEF LastUnits
  <2>2. s[1] \in Nat /\ s[1] >= 1 /\ s[1] - 1 \in Nat
    <3>1. s[1] = m - Len(s) + 1
      BY <2>1
    <3> QED
      BY <3>1, <2>1
  <2> DEFINE r == (s[1] - 1) % ChunkSize
  <2>3. r \in Nat /\ late <= r
    BY <1>4, <2>1, <2>2
  <2>4. PICK n \in 0..Len(s) :
           /\ Len(Fitting(s)) = n /\ n + r <= ChunkSize
           /\ (n # Len(Wanted(s)) /\ n < Len(s)) => n + r < ChunkSize
           /\ n = Len(s) => n = Len(Wanted(s))
    BY <1>4, <2>2, LateFits
  <2>5. n \in Nat /\ n <= Len(s) /\ late' = late + n
    BY <1>1, <2>1, <2>4
  <2>6. late' <= ChunkSize
    <3> HIDE DEF r
    <3> QED
      BY <2>1, <2>3, <2>4, <2>5
  <2>7. CASE all
    BY <1>2, <2>6, <2>7 DEF LateStep
  <2>8. CASE ~all
    <3>1. n < Len(s) /\ n + r < ChunkSize
      <4>1. n # Len(Wanted(s))
        BY <2>4, <2>8
      <4>2. n # Len(s)
        BY <2>4, <4>1
      <4>3. n < Len(s)
        BY <2>1, <2>5, <4>2
      <4> QED
        BY <2>4, <4>1, <4>3
    <3>2. job' = [j EXCEPT !.at = "queueing", !.rest = Drop(s, n), !.back = b]
      BY <2>4, <2>8 DEF Enqueue, Waits
    <3>3. job'.at = "queueing" /\ job'.rest = SubSeq(s, n + 1, Len(s))
      BY <3>2 DEF Drop, Jobs
    <3>4. Held' = SubSeq(s, n + 1, Len(s))
      BY <3>3 DEF Held
    <3>5. Held'[1] = s[n + 1]
      <4>1. \A i \in 1..(Len(s) - n) : SubSeq(s, n + 1, Len(s))[i] = s[n + i]
        BY CutFacts
      <4>2. 1 \in 1..(Len(s) - n)
        BY <2>1, <2>5, <3>1
      <4> QED
        BY <3>4, <4>1, <4>2
    <3>6. Held'[1] - 1 = (s[1] - 1) + n
      <4>1. s[1] = m - Len(s) + 1 /\ s[n + 1] = m - Len(s) + (n + 1)
        BY <2>1, <2>5, <3>1
      <4> QED
        BY <2>1, <2>5, <3>5, <4>1
    <3>7. ((s[1] - 1) + n) % ChunkSize = r + n
      <4>1. r + n < ChunkSize
        <5> HIDE DEF r
        <5> QED
          BY <2>1, <2>3, <2>5, <3>1
      <4> QED
        BY <2>1, <2>2, <2>5, <4>1, ModAdds
    <3> HIDE DEF r
    <3>8. late' <= (Held'[1] - 1) % ChunkSize
      BY <2>3, <2>5, <3>6, <3>7
    <3>9. job'.at # "synth"
      BY <3>3
    <3> QED
      BY <2>6, <3>8, <3>9 DEF LateStep
  <2> QED
    BY <2>7, <2>8
<1> QED
  BY <1>3, <1>4

\* A step that lets no audio in.
LEMMA LateStays ==
    ASSUME LateLeft, silenced, late' = late, job'.at # "synth",
           Held' = <<>> \/ (Held' = Held /\ ~job.stale)
    PROVE  LateStep
  BY DEF LateLeft, LateStep

\* The end of a handler is one.
LEMMA LateEnds == ASSUME LateLeft, silenced, late' = late, job' = NoJob PROVE LateStep
<1>1. Held' = <<>> /\ job'.at # "synth"
  BY NoJobFacts DEF Held
<1> QED
  BY <1>1, LateStays

\* Whatever the handler of a stopped turn does, it is the rest of one chunk.
LEMMA LateHandler == ASSUME Workable, LateLeft, silenced, Handler PROVE LateStep
<1>t. /\ line \in Seq(Nat) /\ Len(line) <= Credit /\ late \in Nat /\ made \in Nat
      /\ job \in Jobs /\ owed \in BOOLEAN /\ Hands /\ HoldsLast /\ Marked
      /\ late <= ChunkSize
      /\ (~job.stale /\ Held # <<>>) => late <= (Held[1] - 1) % ChunkSize
  BY DEF Workable, LateLeft
<1>1. CASE Resume
  <2>1. /\ job.at = "queueing" /\ job.rest \in Seq(Nat) /\ Held = job.rest /\ job.buffer = <<>>
        /\ job.back \in {"streaming", "joined", "draining"} /\ LastUnits(job.rest, made)
    <3>1. job.at = "queueing"
      BY <1>1 DEF Resume
    <3>2. job.rest \in Seq(Nat) /\ job.back \in {"streaming", "joined", "draining"}
      BY <1>t DEF Jobs
    <3>3. Held = job.rest /\ job.buffer = <<>>
      BY <1>t, <3>1, HeldFacts
    <3> QED
      BY <1>t, <3>1, <3>2, <3>3 DEF HoldsLast
  <2> DEFINE g == [job EXCEPT !.started = @ \/ ~Marked, !.rest = <<>>, !.stale = FALSE]
  <2>2. CASE Goes(g, job.back) /\ late' = late
    <3>1. g \in Jobs /\ g.rest = <<>> /\ g.buffer = <<>> /\ ~g.stale
      BY <1>t, <2>1, EmptySeq DEF Jobs
    <3> HIDE DEF g
    <3>2. Went(g.part)
      BY <1>t, <2>1, <2>2, <3>1, GoesFacts
    <3>3. Held' = <<>> /\ job'.at # "synth"
      BY <3>2, NoJobFacts DEF Went, Held
    <3> QED
      BY <2>2, <3>3, LateStays
  <2>3. CASE ~job.stale /\ Enqueue(job, job.rest, job.back)
    BY <1>t, <2>1, <2>3, LateEnqueue DEF LateLeft
  <2> QED
    BY <1>1, <2>2, <2>3 DEF Resume, Quiet
<1>2. CASE TakeChunk \/ StreamEnds
  <2>1. job.at = "streaming" /\ job' = [job EXCEPT !.at = "joining"] /\ late' = late
    BY <1>t, <1>2 DEF TakeChunk, StreamEnds, Waits, Quiet
  <2>2. job'.at = "joining" /\ job'.buffer = job.buffer
    BY <1>t, <2>1 DEF Jobs
  <2>3. Held' = Held /\ ~job.stale
    BY <1>t, <2>1, <2>2 DEF Held, Hands
  <2> QED
    BY <2>1, <2>2, <2>3, LateStays
<1>3. CASE StartupTimeout \/ (Join /\ job.got # 0)
  <2> DEFINE j == [job EXCEPT !.buffer = <<>>]
  <2>1. PICK a \in {"streaming", "joining"}, b \in {"streaming", "joined", "draining"} :
           job.at = a /\ Enqueue(j, job.buffer, b)
    BY <1>3 DEF StartupTimeout, Join
  <2>2. /\ ~job.stale /\ job.buffer \in Seq(Nat) /\ Held = job.buffer
        /\ LastUnits(job.buffer, made)
    BY <2>1, Streaming
  <2>3. j \in Jobs /\ j.buffer = <<>> /\ ~j.stale
    BY <1>t, <2>2, EmptySeq DEF Jobs
  <2> HIDE DEF j
  <2> QED
    BY <1>t, <2>1, <2>2, <2>3, LateEnqueue DEF LateLeft
<1>4. CASE Synthesized /\ mark # "cancelled"
  <2>1. job.at = "synth" /\ Enqueue(job, NewUnits, "draining")
    BY <1>4 DEF Synthesized
  <2>2. ~job.stale /\ job.buffer = <<>> /\ late = 0
    BY <2>1, EmptyHanded DEF LateLeft
  <2>3. /\ NewUnits \in Seq(Nat) /\ LastUnits(NewUnits, made + ChunkSize)
        /\ ChunkSize \in Nat \ {0} /\ made + ChunkSize \in Nat
    BY <1>t, NewUnitsFacts, AudioAssumption
  <2>4. NewUnits # <<>> => late <= (NewUnits[1] - 1) % ChunkSize
    <3>1. NewUnits[1] = made + 1
      BY <2>3 DEF NewUnits
    <3>2. (NewUnits[1] - 1) % ChunkSize = made % ChunkSize /\ made % ChunkSize \in Nat
      BY <1>t, <2>3, <3>1
    <3> QED
      BY <2>2, <3>2
  <2> HIDE DEF NewUnits
  <2> QED
    BY <1>t, <2>1, <2>2, <2>3, <2>4, LateEnqueue DEF LateLeft
<1>5. CASE SynthesizedEmpty /\ mark # "cancelled"
  <2>1. job' = Job("emitting", "final") /\ late' = late
    BY <1>5 DEF SynthesizedEmpty, Waits, Quiet
  <2>2. Held' = <<>> /\ job'.at # "synth"
    BY <2>1, JobFacts DEF Held, Busy
  <2> QED
    BY <2>1, <2>2, LateStays
<1>6. CASE Drained /\ job' # NoJob
  <2>1. job.at = "draining" /\ job' = [job EXCEPT !.at = "emitting", !.drained = Idle]
        /\ late' = late
    BY <1>6 DEF Drained, Respond, Quiet
  <2>2. job.buffer = <<>>
    BY <2>1, EmptyHanded
  <2>3. job'.at = "emitting" /\ job'.buffer = <<>>
    BY <1>t, <2>1, <2>2 DEF Jobs
  <2>4. Held' = <<>>
    BY <2>3 DEF Held
  <2> QED
    BY <2>1, <2>3, <2>4, LateStays
<1>7. CASE \/ SynthesisFails \/ (Join /\ job.got = 0)
           \/ (Synthesized /\ mark = "cancelled") \/ (SynthesizedEmpty /\ mark = "cancelled")
           \/ (Drained /\ job' = NoJob) \/ Deliver \/ Unwind
  <2>1. job' = NoJob /\ late' = late
    BY <1>7
       DEF SynthesisFails, Join, Synthesized, SynthesizedEmpty, Drained, Deliver, Unwind,
           Respond, Quiet, ghosts
  <2> QED
    BY <2>1, LateEnds
<1> QED
  BY <1>1, <1>2, <1>3, <1>4, <1>5, <1>6, <1>7 DEF Handler

\* Which way a handler goes: it ends, or it goes on with its turn and its part as they
\* are; one that waits for its playout queues nothing, and its final event is its end.
HandlerWay ==
    /\ \/ job' = NoJob
       \/ /\ UNCHANGED <<book, mark, doomed>> /\ ~doomed /\ job.at # "emitting"
          /\ job'.part = "marker" => job.part = "marker"
          /\ job.at = "draining" => job'.at = "emitting"
    /\ (doomed \/ job.at \in {"draining", "emitting"}) => UNCHANGED <<line, late>>
    /\ book' = "active" => UNCHANGED <<book, mark>>
    /\ mark' \in {mark, "cancelled"}
    /\ UNCHANGED <<ctl, capt, silenced>>

\* What an enqueue leaves of a handler's part.
LEMMA WayQueued ==
    ASSUME line \in Seq(Nat), Len(line) <= Credit, owed \in BOOLEAN, NEW j \in Jobs,
           j.buffer = <<>>, ~j.stale, NEW s \in Seq(Nat), j.part = job.part,
           NEW b \in {"streaming", "joined", "draining"}, Enqueue(j, s, b)
    PROVE  job' = NoJob \/ job'.part = job.part
<1>1. Queued(j.part, s)
  BY EnqueueFacts
<1> QED
  BY <1>1 DEF Queued, Went

\* A handler that waited or was given more.
LEMMA WayOn ==
    ASSUME Rest, ~doomed, job.at \notin {"draining", "emitting"},
           job' = NoJob \/ job'.part = job.part \/ job'.part = "final"
    PROVE  HandlerWay
<1>1. UNCHANGED <<mark, book, doomed, ctl, capt, silenced>>
  BY RestFacts
<1> QED
  BY <1>1 DEF HandlerWay

\* Every step of a handler goes one of these ways.
LEMMA HandlerWays == ASSUME Workable, Handler PROVE HandlerWay
<1>t. /\ line \in Seq(Nat) /\ Len(line) <= Credit /\ owed \in BOOLEAN /\ job \in Jobs
      /\ made \in Nat
  BY DEF Workable
<1>1. CASE Resume
  <2>1. job.at = "queueing" /\ ~doomed /\ Rest
    BY <1>1 DEF Resume
  <2>2. /\ job.rest \in Seq(Nat) /\ job.buffer = <<>>
        /\ job.back \in {"streaming", "joined", "draining"}
    <3>1. job.rest \in Seq(Nat) /\ job.back \in {"streaming", "joined", "draining"}
      BY <1>t DEF Jobs
    <3>2. job.buffer = <<>>
      BY <1>t, <2>1, HeldFacts DEF Workable
    <3> QED
      BY <3>1, <3>2
  <2> DEFINE g == [job EXCEPT !.started = @ \/ ~Marked, !.rest = <<>>, !.stale = FALSE]
  <2>3. CASE Goes(g, job.back)
    <3>1. g \in Jobs /\ g.rest = <<>> /\ g.buffer = <<>> /\ ~g.stale /\ g.part = job.part
      BY <1>t, <2>2, EmptySeq DEF Jobs
    <3> HIDE DEF g
    <3>2. Went(g.part)
      BY <1>t, <2>2, <2>3, <3>1, GoesFacts
    <3> QED
      BY <2>1, <3>1, <3>2, WayOn DEF Went
  <2>4. CASE ~job.stale /\ Enqueue(job, job.rest, job.back)
    <3>1. job' = NoJob \/ job'.part = job.part
      BY <1>t, <2>2, <2>4, WayQueued
    <3> QED
      BY <2>1, <3>1, WayOn
  <2> QED
    BY <1>1, <2>3, <2>4 DEF Resume
<1>2. CASE TakeChunk
  <2>1. job.at = "streaming" /\ ~doomed /\ Rest
    BY <1>2 DEF TakeChunk
  <2>2. ~job.stale /\ job.buffer \in Seq(Nat) /\ job.got \in Nat
    BY <2>1, Streaming
  <2> DEFINE s == job.buffer \o NewUnits
             j == [job EXCEPT !.got = @ + 1, !.buffer = <<>>]
  <2>3. s \in Seq(Nat)
    BY <1>t, <2>2, NewUnitsFacts, JoinFacts
  <2>4. j \in Jobs /\ j.buffer = <<>> /\ ~j.stale /\ j.part = job.part
    <3>1. job.got + 1 \in 0..MaxChunks
      BY <1>2, <2>2, AudioAssumption DEF TakeChunk
    <3> QED
      BY <1>t, <2>2, <3>1, EmptySeq DEF Jobs
  <2>5. CASE job' = [job EXCEPT !.at = "joining"]
    <3>1. job'.part = job.part
      BY <1>t, <2>5 DEF Jobs
    <3> QED
      BY <2>1, <3>1, WayOn
  <2>6. CASE job' = [j EXCEPT !.buffer = s]
    <3> HIDE DEF s, j
    <3>1. job'.part = job.part
      BY <2>4, <2>6 DEF Jobs
    <3> QED
      BY <2>1, <3>1, WayOn
  <2>7. CASE Enqueue(j, s, "streaming")
    <3> HIDE DEF s, j
    <3>1. job' = NoJob \/ job'.part = job.part
      BY <1>t, <2>3, <2>4, <2>7, WayQueued
    <3> QED
      BY <2>1, <3>1, WayOn
  <2> QED
    BY <1>2, <2>5, <2>6, <2>7 DEF TakeChunk, Waits
<1>3. CASE StartupTimeout \/ (Join /\ job.got # 0)
  <2> DEFINE j == [job EXCEPT !.buffer = <<>>]
  <2>1. PICK a \in {"streaming", "joining"}, b \in {"streaming", "joined", "draining"} :
           job.at = a /\ Enqueue(j, job.buffer, b) /\ ~doomed /\ Rest
    BY <1>3 DEF StartupTimeout, Join
  <2>2. ~job.stale /\ job.buffer \in Seq(Nat)
    BY <2>1, Streaming
  <2>3. j \in Jobs /\ j.buffer = <<>> /\ ~j.stale /\ j.part = job.part
    BY <1>t, <2>2, EmptySeq DEF Jobs
  <2> HIDE DEF j
  <2>4. job' = NoJob \/ job'.part = job.part
    BY <1>t, <2>1, <2>2, <2>3, WayQueued
  <2> QED
    BY <2>1, <2>4, WayOn
<1>4. CASE Synthesized /\ mark # "cancelled"
  <2>1. job.at = "synth" /\ ~doomed /\ Rest /\ Enqueue(job, NewUnits, "draining")
    BY <1>4 DEF Synthesized
  <2>2. ~job.stale /\ job.buffer = <<>>
    BY <2>1, EmptyHanded
  <2>3. NewUnits \in Seq(Nat)
    BY <1>t, NewUnitsFacts
  <2>4. job' = NoJob \/ job'.part = job.part
    <3> HIDE DEF NewUnits
    <3> QED
      BY <1>t, <2>1, <2>2, <2>3, WayQueued
  <2> QED
    BY <2>1, <2>4, WayOn
<1>5. CASE StreamEnds
  <2>1. job.at = "streaming" /\ ~doomed /\ Rest /\ job' = [job EXCEPT !.at = "joining"]
    BY <1>5 DEF StreamEnds, Waits
  <2>2. job'.part = job.part
    BY <1>t, <2>1 DEF Jobs
  <2> QED
    BY <2>1, <2>2, WayOn
<1>6. CASE SynthesizedEmpty /\ mark # "cancelled"
  <2>1. job.at = "synth" /\ ~doomed /\ Rest /\ job' = Job("emitting", "final")
    BY <1>6 DEF SynthesizedEmpty, Waits
  <2>2. job'.part = "final"
    BY <2>1, JobFacts DEF Busy
  <2> QED
    BY <2>1, <2>2, WayOn
<1>7. CASE \/ SynthesisFails \/ (Join /\ job.got = 0)
           \/ (Synthesized /\ mark = "cancelled") \/ (SynthesizedEmpty /\ mark = "cancelled")
  <2>1. job' = NoJob /\ ~doomed /\ Rest /\ job.at \notin {"draining", "emitting"}
    BY <1>7 DEF SynthesisFails, Join, Synthesized, SynthesizedEmpty, Respond
  <2> QED
    BY <2>1, WayOn
<1>8. CASE Drained
  <2>1. /\ job.at = "draining" /\ ~doomed /\ Rest /\ UNCHANGED <<line, late>>
        /\ job' = NoJob \/ job' = [job EXCEPT !.at = "emitting", !.drained = Idle]
    BY <1>8 DEF Drained, Respond, Quiet
  <2>2. job' = NoJob \/ (job'.at = "emitting" /\ job'.part = job.part)
    BY <1>t, <2>1 DEF Jobs
  <2>3. UNCHANGED <<mark, book, doomed, ctl, capt, silenced>>
    BY <2>1, RestFacts
  <2> QED
    BY <2>1, <2>2, <2>3 DEF HandlerWay
<1>9. CASE Deliver
  <2>1. /\ job' = NoJob /\ UNCHANGED <<line, late, mark, ctl, capt, silenced>>
        /\ book' = (IF book = "active" THEN "completed" ELSE book)
    BY <1>9 DEF Deliver, Respond, track, controls, ghosts
  <2> QED
    BY <2>1 DEF HandlerWay
<1>10. CASE Unwind
  <2>1. /\ job' = NoJob /\ UNCHANGED <<line, late, ctl, capt, silenced>>
        /\ book' = "cancelled" /\ mark' = "cancelled"
    BY <1>10 DEF Unwind, Respond, track, controls, ghosts
  <2> QED
    BY <2>1 DEF HandlerWay
<1> QED
  BY <1>1, <1>2, <1>3, <1>4, <1>5, <1>6, <1>7, <1>8, <1>9, <1>10 DEF Handler

\* The handler keeps a stopped turn quiet.
LEMMA HandlerKeepsQuiet ==
    ASSUME ReplyInv, QuietInv, Handler, UNCHANGED <<vars, mail, fault>>
    PROVE  QuietInv'
<1>1. Workable /\ job # NoJob
  BY ReplyIsWorkable, HandlerSteps DEF HandlerStep
<1>2. HandlerWay
  BY <1>1, HandlerWays
<1>3. job.at \in Busy
  BY <1>1 DEF Workable, TheCall, Jobs
<1>4. UNCHANGED <<ctl, capt, silenced>> /\ (Marked => Marked')
  BY <1>2 DEF HandlerWay, Marked
<1>5. CASE job' = NoJob
  <2>1. job'.at = "idle" /\ job'.part = "part"
    BY <1>5, NoJobFacts
  <2>2. book' = "active" => UNCHANGED <<book, mark>>
    BY <1>2 DEF HandlerWay
  <2>3. Refused'
    BY <1>4, <2>1, <2>2 DEF QuietInv, Refused, Talking, Busy, Marked
  <2>4. Caught'
    BY <1>4, <1>5 DEF QuietInv, Caught
  <2> QED
    <3>1. Refused' /\ Caught'
      BY <2>3, <2>4
    <3>2. Abandoned'
      BY <1>4, <1>5 DEF QuietInv, Abandoned, vars, speaker
    <3>3. LateLeft'
      <4>1. CASE silenced
        <5>1. LateStep
          BY <1>1, <4>1, LateHandler DEF QuietInv
        <5> QED
          BY <5>1, <1>4, <4>1, <2>1 DEF QuietInv, LateLeft, LateStep
      <4>2. CASE ~silenced
        <5>1. late' = late
          BY <4>2, <1>1, HandlerSteps DEF HandlerStep, AudioMoves, Moves
        <5> QED
          BY <5>1, <1>4, <4>2, AudioAssumption DEF QuietInv, LateLeft
      <4> QED
        BY <4>1, <4>2
    <3> QED
      BY <3>1, <3>2, <3>3 DEF QuietInv
<1>6. CASE job' # NoJob
  <2>1. /\ UNCHANGED <<book, mark, doomed>> /\ ~doomed /\ job.at # "emitting"
        /\ job'.part = "marker" => job.part = "marker"
        /\ job.at = "draining" => job'.at = "emitting"
    BY <1>2, <1>6 DEF HandlerWay
  <2>2. Refused'
    <3>1. job.at \in Talking
      BY <1>3, <2>1 DEF Talking
    <3>2. /\ job'.part = "marker" => job'.at = "emitting"
          /\ Marked' = Marked
      BY <2>1 DEF QuietInv, Refused, Marked
    <3> QED
      BY <1>4, <2>1, <3>1, <3>2 DEF QuietInv, Refused
  <2>3. Caught'
    BY <1>1, <1>4, <2>1 DEF QuietInv, Caught
  <2>4. Abandoned'
    BY <1>1, <1>4 DEF QuietInv, Abandoned, vars, speaker
  <2>5. LateLeft'
    <3>1. CASE silenced
      <4>1. LateStep
        BY <1>1, <3>1, LateHandler DEF QuietInv
      <4> QED
        BY <4>1, <1>4, <3>1 DEF QuietInv, LateLeft, LateStep
    <3>2. CASE ~silenced
      <4>1. late' = late
        BY <3>2, <1>1, HandlerSteps DEF HandlerStep, AudioMoves, Moves
      <4> QED
        BY <4>1, <1>4, <3>2, AudioAssumption DEF QuietInv, LateLeft
    <3> QED
      BY <3>1, <3>2
  <2> QED
    BY <2>2, <2>3, <2>4, <2>5 DEF QuietInv
<1> QED
  BY <1>5, <1>6

\* What a cancellation does to the turn and its handler.
ControlWay ==
    /\ book' = "active" =>
          /\ UNCHANGED <<book, mark>>
          /\ ctl'["web"] = ctl["web"] /\ ctl'["end"] = ctl["end"]
    /\ (book = "active" /\ book' # "active" /\ job.at \in Talking) =>
          Marked' \/ ctl'["end"] # "idle"
    /\ \A c \in {"web", "end"} : ctl[c] # "idle" => ctl'[c] # "idle"
    /\ owed => owed' \/ Marked'
    /\ Marked => Marked'
    /\ \A c \in Cancellers :
          /\ capt'[c].owed => capt'[c].turn
          /\ (capt'[c].turn /\ ~capt'[c].task /\ job # NoJob) => job.at \in {"draining", "emitting"}
    /\ (mark' = "cancelled" /\ job # NoJob) => doomed' \/ job.at \in {"draining", "emitting"}
    /\ (silenced => silenced') /\ (silenced' => silenced \/ Marked')

\* A handler that generates or plays audio has an owner.
LEMMA TalkIsOwned == ASSUME Refused, job \in Jobs, job.at \in Talking PROVE Owns \/ Marked
<1>1. job # NoJob
  BY NoJobFacts DEF Talking, Busy
<1>2. job.at # "emitting"
  BY DEF Talking
<1>3. job.part = "marker" => job.at = "draining"
  BY <1>2 DEF Refused
<1> QED
  BY <1>1, <1>2, <1>3 DEF Owns, Admitted, Refused

\* A capture takes the handler with its turn, unless it waits for its playout.
LEMMA WayCaught ==
    ASSUME Controls, Refused, Caught, NEW c \in Cancellers, Capture(c)
    PROVE  /\ \A d \in Cancellers :
                 /\ capt'[d].owed => capt'[d].turn
                 /\ (capt'[d].turn /\ ~capt'[d].task /\ job # NoJob) =>
                       job.at \in {"draining", "emitting"}
           /\ (mark' = "cancelled" /\ job # NoJob) => doomed' \/ job.at \in {"draining", "emitting"}
           /\ (Owns => Marked') /\ (~Owns => mark' = mark) /\ (Marked => Marked')
           /\ owed' = owed /\ silenced' = silenced
<1> DEFINE caught == [turn |-> Owns, task |-> Admitted, owed |-> owed]
<1>1. /\ capt' = [capt EXCEPT ![c] = caught]
      /\ mark' = (IF Owns /\ ~Marked THEN "cancelling" ELSE mark)
      /\ owed' = owed /\ doomed' = doomed /\ silenced' = silenced
  BY DEF Capture, ghosts
<1>2. caught.owed => caught.turn
  BY DEF Owns
<1>3. (caught.turn /\ ~caught.task /\ job # NoJob) => job.at \in {"draining", "emitting"}
  BY DEF Admitted, Refused
<1> HIDE DEF caught
<1>4. \A d \in Cancellers : capt'[d] = IF d = c THEN caught ELSE capt[d]
  BY <1>1 DEF Controls
<1>5. \A d \in Cancellers :
         /\ capt'[d].owed => capt'[d].turn
         /\ (capt'[d].turn /\ ~capt'[d].task /\ job # NoJob) =>
               job.at \in {"draining", "emitting"}
  BY <1>2, <1>3, <1>4 DEF Caught
<1>6. (Owns => Marked') /\ (~Owns => mark' = mark) /\ (Marked => Marked')
  BY <1>1 DEF Marked
<1>7. (mark' = "cancelled" /\ job # NoJob) => doomed' \/ job.at \in {"draining", "emitting"}
  BY <1>1 DEF Caught
<1> QED
  BY <1>1, <1>5, <1>6, <1>7

\* Every cancellation goes that way.
LEMMA ControlWays ==
    ASSUME Controls, Refused, Caught, CancelTurn \/ Interrupt \/ End \/ Cancelling
    PROVE  ControlWay
<1>t. /\ ctl \in [Cancellers -> {"idle", "ending", "stopping", "acking", "done"}]
      /\ {"web", "end"} \subseteq Cancellers /\ "button" \in Cancellers
      /\ job.at \in Talking => Owns \/ Marked
  BY TalkIsOwned DEF Controls, Cancellers
<1>1. CASE CancelTurn
  <2>1. /\ Capture("web") /\ book' # "active"
        /\ \E s \in {"stopping", "done"} : ctl' = [ctl EXCEPT !["web"] = s]
    BY <1>1 DEF CancelTurn, CancelBook
  <2>2. \A c \in {"web", "end"} : ctl[c] # "idle" => ctl'[c] # "idle"
    BY <1>t, <2>1
  <2> QED
    BY <1>t, <2>1, <2>2, WayCaught DEF ControlWay
<1>2. CASE Interrupt
  <2>1. /\ Capture("button") /\ ctl' = [ctl EXCEPT !["button"] = "stopping"]
        /\ Owns => book' # "active"
        /\ ~Owns => book' = book
    BY <1>2 DEF Interrupt, CancelBook
  <2>2. ctl'["web"] = ctl["web"] /\ ctl'["end"] = ctl["end"]
    BY <1>t, <2>1
  <2> QED
    BY <1>t, <2>1, <2>2, WayCaught DEF ControlWay
<1>3. CASE EndCaptures
  <2>1. /\ Capture("end") /\ book' = book /\ book # "active"
        /\ \E s \in {"stopping", "done"} : ctl' = [ctl EXCEPT !["end"] = s]
    BY <1>3 DEF EndCaptures, Refused
  <2>2. \A c \in {"web", "end"} : ctl[c] # "idle" => ctl'[c] # "idle"
    BY <1>t, <2>1
  <2> QED
    BY <1>t, <2>1, <2>2, WayCaught DEF ControlWay
<1>4. CASE End
  <2>1. /\ UNCHANGED <<mark, owed, doomed, capt, silenced>> /\ book' # "active"
        /\ ctl' = [ctl EXCEPT !["end"] = "ending"]
    BY <1>4 DEF End, CancelBook, ghosts
  <2>2. /\ \A c \in {"web", "end"} : ctl[c] # "idle" => ctl'[c] # "idle"
        /\ ctl'["end"] # "idle"
    BY <1>t, <2>1
  <2> QED
    BY <2>1, <2>2 DEF ControlWay, Caught, Marked
<1>5. CASE \E c \in Cancellers : StopPlayout(c)
  <2>1. PICK c \in Cancellers : StopPlayout(c)
    BY <1>5
  <2>2. /\ UNCHANGED <<mark, book, owed, doomed, capt>> /\ ctl[c] = "stopping"
        /\ silenced' = (silenced \/ capt[c].turn)
        /\ \E s \in {"acking", "done"} : ctl' = [ctl EXCEPT ![c] = s]
    BY <2>1 DEF StopPlayout, marks
  <2>3. \A d \in {"web", "end"} : ctl[d] # "idle" => ctl'[d] # "idle"
    BY <1>t, <2>2
  <2>4. book # "active"  => book' # "active"
    BY <2>2
  <2>5. book' = "active" => ctl'["web"] = ctl["web"] /\ ctl'["end"] = ctl["end"]
    <3>1. book = "active" => c \notin {"web", "end"}
      BY <2>2 DEF Refused
    <3> QED
      BY <1>t, <2>2, <3>1
  <2>6. capt[c].turn => Marked'
    BY <2>2 DEF Controls, Hands, Marked
  <2>7. (silenced => silenced') /\ (silenced' => silenced \/ Marked')
    BY <2>2, <2>6
  <2> QED
    BY <2>2, <2>3, <2>4, <2>5, <2>7 DEF ControlWay, Caught, Marked
<1>6. CASE \E c \in Cancellers : Finish(c)
  <2>1. PICK c \in Cancellers : Finish(c)
    BY <1>6
  <2>2. /\ UNCHANGED <<book, silenced>> /\ ctl[c] = "acking"
        /\ mark' = (IF capt[c].turn THEN "cancelled" ELSE mark)
        /\ owed' = (owed /\ ~capt[c].owed)
        /\ doomed' = (doomed \/ (capt[c].task /\ job # NoJob))
        /\ ctl' = [ctl EXCEPT ![c] = "done"] /\ capt' = [capt EXCEPT ![c] = NoCapture]
    BY <2>1 DEF Finish, ghosts
  <2>3. \A d \in {"web", "end"} : ctl[d] # "idle" => ctl'[d] # "idle"
    BY <1>t, <2>2
  <2>4. book = "active" => /\ mark' = mark
                           /\ ctl'["web"] = ctl["web"] /\ ctl'["end"] = ctl["end"]
    <3>1. book = "active" => c \notin {"web", "end"} /\ ~Marked
      BY <2>2 DEF Refused
    <3>2. capt[c].turn => Marked
      BY DEF Controls, Hands
    <3> QED
      BY <1>t, <2>2, <3>1, <3>2
  <2>5. (owed => owed' \/ Marked') /\ (Marked => Marked')
    <3>1. capt[c].owed => capt[c].turn
      BY DEF Caught
    <3>2. capt[c].turn => Marked'
      BY <2>2 DEF Marked
    <3>3. Marked => Marked'
      BY <2>2 DEF Marked
    <3> QED
      BY <2>2, <3>1, <3>2, <3>3
  <2>6. \A d \in Cancellers : capt'[d] = IF d = c THEN NoCapture ELSE capt[d]
    BY <2>2 DEF Controls
  <2>7. \A d \in Cancellers :
           /\ capt'[d].owed => capt'[d].turn
           /\ (capt'[d].turn /\ ~capt'[d].task /\ job # NoJob) =>
                 job.at \in {"draining", "emitting"}
    BY <2>6 DEF Caught, NoCapture
  <2>8. (mark' = "cancelled" /\ job # NoJob) => doomed' \/ job.at \in {"draining", "emitting"}
    BY <2>2 DEF Caught
  <2> QED
    BY <2>2, <2>3, <2>4, <2>5, <2>7, <2>8 DEF ControlWay
<1> QED
  BY <1>1, <1>2, <1>3, <1>4, <1>5, <1>6 DEF Cancelling

\* What a held unit leaves of its chunk is a number.
LEMMA HeadFacts ==
    ASSUME job \in Jobs, Hands, HoldsLast, made \in Nat, Held # <<>>
    PROVE  (Held[1] - 1) % ChunkSize \in Nat
<1>1. Held \in Seq(Nat) /\ Len(Held) \in Nat /\ Len(Held) # 0 /\ ChunkSize \in Nat \ {0}
  BY HeldFacts, EmptySeq, AudioAssumption
<1>2. Held[1] = made - Len(Held) + 1 /\ Len(Held) <= made
  BY <1>1 DEF HoldsLast, LastUnits
<1>3. Held[1] - 1 \in Nat
  BY <1>1, <1>2
<1> QED
  BY <1>1, <1>3

\* Cancellations keep the turn quiet.
LEMMA CancellationKeepsQuiet ==
    ASSUME ReplyInv, QuietInv, CancelTurn \/ Interrupt \/ End \/ Cancelling,
           UNCHANGED <<vars, mail, fault>>
    PROVE  QuietInv'
<1>1. Controls /\ ControlStep /\ ControlWay
  BY ReplyIsControlled, CancellationSteps, ControlWays DEF QuietInv
<1>t. /\ job \in Jobs /\ TheCall /\ Hands /\ HoldsLast /\ made \in Nat /\ ChunkSize \in Nat
  BY AudioAssumption DEF ReplyInv, SpokenTypeOK, PlayTypeOK
<1>2. /\ job'.at = job.at /\ job'.part = job.part /\ job'.rest = job.rest
      /\ job'.buffer = job.buffer /\ (job' = NoJob <=> job = NoJob)
  BY <1>1, <1>t, JobStays
<1>3. Held' = Held /\ late' = late
  BY <1>1, <1>2 DEF Held, ControlStep
<1>4. Refused'
  <2>1. (ctl'["web"] # "idle" \/ ctl'["end"] # "idle" \/ Marked') => book' # "active"
    BY <1>1 DEF ControlWay, QuietInv, Refused, Marked
  <2>2. (book' # "active" /\ job'.at \in Talking) => Marked' \/ ctl'["end"] # "idle"
    BY <1>1, <1>2 DEF ControlWay, QuietInv, Refused
  <2>3. /\ job'.part = "marker" => job'.at \in {"draining", "emitting"}
        /\ (job'.part = "marker" /\ job'.at = "draining") => owed' \/ Marked'
    BY <1>1, <1>2 DEF ControlWay, QuietInv, Refused
  <2> QED
    BY <2>1, <2>2, <2>3 DEF Refused
<1>5. Caught'
  BY <1>1, <1>2 DEF ControlWay, Caught
<1>6. Abandoned'
  BY <1>1, <1>2 DEF ControlWay, QuietInv, Abandoned, vars, speaker
<1>7. LateLeft'
  <2>1. /\ ~silenced' => late' = 0
        /\ silenced' => Marked'
        /\ late' <= ChunkSize
        /\ (silenced' /\ job'.at = "synth") => late' = 0
    BY <1>1, <1>2, <1>3 DEF ControlWay, QuietInv, LateLeft
  <2>2. (silenced' /\ ~job'.stale /\ Held' # <<>>) => late' <= (Held'[1] - 1) % ChunkSize
    <3> SUFFICES ASSUME ~job'.stale, Held # <<>> PROVE late <= (Held[1] - 1) % ChunkSize
      BY <1>3
    <3>1. CASE silenced
      <4>1. ~job.stale
        <5>1. CASE job' = job
          BY <5>1
        <5>2. CASE job' = [job EXCEPT !.stale = (job.at = "queueing")]
          <6>1. job'.stale = (job.at = "queueing")
            BY <5>2, <1>t DEF Jobs
          <6> QED
            BY <6>1, <1>t DEF Hands
        <5> QED
          BY <5>1, <5>2, <1>1 DEF ControlStep
      <4> QED
        BY <3>1, <4>1 DEF QuietInv, LateLeft
    <3>2. CASE ~silenced
      <4>1. late = 0 /\ (Held[1] - 1) % ChunkSize \in Nat
        BY <3>2, <1>t, HeadFacts DEF QuietInv, LateLeft
      <4> QED
        BY <4>1
    <3> QED
      BY <3>1, <3>2
  <2> QED
    BY <2>1, <2>2 DEF LateLeft
<1> QED
  BY <1>4, <1>5, <1>6, <1>7 DEF QuietInv

\* A request is admitted to an active turn only.
LEMMA ArriveKeepsQuiet == ASSUME ReplyInv, QuietInv, RequestArrives PROVE QuietInv'
<1>1. PICK kind \in {"part", "final", "marker"} : Arrive(kind)
  BY DEF RequestArrives
<1>2. UNCHANGED <<vars, fault>> /\ mail # None
  BY DEF RequestArrives
<1>3. /\ job = NoJob /\ Hands
      /\ UNCHANGED <<mark, book, owed, doomed, ctl, capt, silenced, late>>
  BY <1>1, ArriveFacts DEF ReplyInv
<1>4. Abandoned'
  BY <1>2, <1>3 DEF QuietInv, Abandoned, vars, speaker
<1>5. CASE job' = NoJob
  <2>1. Held' = <<>> /\ job'.at = "idle" /\ job'.part = "part"
    BY <1>5, NoJobFacts DEF Held
  <2>2. Refused'
    BY <1>3, <2>1 DEF QuietInv, Refused, Talking, Busy, Marked
  <2>3. Caught'
    BY <1>3, <1>5 DEF QuietInv, Caught
  <2>4. LateLeft'
    BY <1>3, <2>1 DEF QuietInv, LateLeft, Marked
  <2> QED
    BY <1>4, <2>2, <2>3, <2>4 DEF QuietInv
<1>6. CASE job' # NoJob
  <2>1. book = "active" /\ (kind = "marker" => owed)
    BY <1>1, <1>3, <1>6 DEF Arrive, Respond
  <2>2. /\ job' = Job(IF kind = "marker" THEN "draining"
                      ELSE IF engine = "stream" THEN "streaming" ELSE "synth", kind)
    BY <1>1, <2>1 DEF Arrive
  <2>3. job'.part = kind /\ (kind = "marker" => job'.at = "draining")
    BY <2>2, JobFacts DEF Busy
  <2>4. /\ ctl["web"] = "idle" /\ ctl["end"] = "idle" /\ ~Marked /\ ~silenced
        /\ \A c \in Cancellers : ~capt[c].turn
    BY <2>1, <1>3 DEF QuietInv, Refused, LateLeft, Hands
  <2>5. Refused'
    BY <1>3, <2>1, <2>3, <2>4 DEF Refused, Marked
  <2>6. Caught'
    BY <1>3, <2>4 DEF QuietInv, Caught, Marked
  <2>7. LateLeft'
    BY <1>3, <2>4 DEF QuietInv, LateLeft
  <2> QED
    BY <1>4, <2>5, <2>6, <2>7 DEF QuietInv
<1> QED
  BY <1>5, <1>6

\* A worker that was told to cancel stays so, and the backend's answer to a cancellation
\* is a step of its own.
LEMMA CancelStays ==
    ASSUME \/ Generation \/ Finalize \/ Worker \/ Leaving
           \/ StreamCancelled \/ StreamClosed \/ GatherCancelled
    PROVE  (killed => killed') /\ (cancelTask' = "done" => cancelTask = "done")
<1>1. \A f : EnterCancel(f) =>
         (killed => killed') /\ (cancelTask' = "done" => cancelTask = "done")
  <2> SUFFICES ASSUME NEW f, EnterCancel(f)
               PROVE  (killed => killed') /\ (cancelTask' = "done" => cancelTask = "done")
    OBVIOUS
  <2>1. CASE worker \in Live
    BY <2>1 DEF EnterCancel
  <2>2. CASE worker \notin Live
    <3>1. killed' = killed
      BY <2>2 DEF EnterCancel
    <3>2. cancelTask' = IF cancelTask = "none" THEN "running" ELSE cancelTask
      BY <2>2 DEF EnterCancel
    <3> QED
      BY <3>1, <3>2
  <2> QED
    BY <2>1, <2>2
<1>2. CASE Segment \/ SegmentRefused \/ PutResumes \/ GenerationFails \/ GenerationEnds
  <2>1. CASE Segment
    BY <2>1 DEF Segment
  <2>2. CASE SegmentRefused \/ GenerationFails
    BY <1>1, <2>2 DEF SegmentRefused, GenerationFails
  <2>3. CASE PutResumes
    BY <1>1, <2>3 DEF PutResumes
  <2>4. CASE GenerationEnds
    BY <1>1, <2>4 DEF GenerationEnds
  <2> QED
    BY <1>2, <2>1, <2>2, <2>3, <2>4
<1>3. CASE FinalizePuts \/ FinalizeReturns \/ WorkerStarts \/ WorkerGets \/ WorkerCancelled
  BY <1>3 DEF FinalizePuts, FinalizeReturns, WorkerStarts, WorkerGets, WorkerCancelled, speaker
<1>4. CASE \E response \in {"normal", "cancelled", "error"} : WorkerSpoke(response)
  BY <1>4 DEF WorkerSpoke
<1>5. CASE Poll \/ Record \/ Gathered \/ CancelReturns
  BY <1>1, <1>5 DEF Poll, Record, Gathered, CancelReturns, speaker
<1>6. CASE StreamCancelled \/ StreamClosed \/ GatherCancelled
  BY <1>1, <1>6 DEF StreamCancelled, StreamClosed, GatherCancelled, Leave
<1> QED
  BY <1>2, <1>3, <1>4, <1>5, <1>6 DEF Generation, Finalize, Worker, Leaving

\* The backend's part does not depend on the web server, on who waits, or on what was lost.
LEMMA BackendStaysQuiet ==
    ASSUME Refused, Caught, LateLeft, UNCHANGED backendVars PROVE Refused' /\ Caught' /\ LateLeft'
<1>1. /\ UNCHANGED <<job, mark, book, owed, doomed, ctl, capt, silenced, late>>
      /\ Held' = Held /\ Marked' = Marked
  BY BackendStays
<1> QED
  BY <1>1 DEF Refused, Caught, LateLeft

\* Steps of the web server, and the request that is lost.
LEMMA WebKeepsQuiet ==
    ASSUME Inv, ReplyInv, QuietInv,
           \/ Incremental \/ WebSteps \/ WebCancelled \/ CancelAnswered \/ CancelLost
           \/ WorkerSends \/ WorkerHears \/ WorkerGivesUp \/ WorkerKilled \/ RequestLost
    PROVE  QuietInv'
<1>1. UNCHANGED backendVars
  BY DEF Incremental, WebSteps, WebCancelled, CancelAnswered, CancelLost, WorkerSends,
         WorkerHears, WorkerGivesUp, WorkerKilled, RequestLost, HangsUp, playVars,
         backendVars, controls
<1>2. Refused' /\ Caught' /\ LateLeft'
  BY <1>1, BackendStaysQuiet DEF QuietInv
<1>3. job' = job /\ ctl' = ctl
  BY <1>1, BackendStays
<1>t. TheCall /\ Abandoned
  BY DEF ReplyInv, QuietInv
<1>4. fault = "gaveUp" => fault' = "gaveUp"
  BY DEF Incremental, WebSteps, WebCancelled, CancelAnswered, CancelLost, WorkerSends,
         WorkerHears, WorkerGivesUp, WorkerKilled, RequestLost, Fault, Untroubled
<1>5. fault = "cancelLost" => fault' = "cancelLost"
  BY DEF Incremental, WebSteps, WebCancelled, CancelAnswered, CancelLost, WorkerSends,
         WorkerHears, WorkerGivesUp, WorkerKilled, RequestLost, Fault, Untroubled
<1>6. (worker' = "done" /\ (job' # NoJob \/ mail' # None)) => killed' \/ fault' = "gaveUp"
  <2>1. CASE Incremental \/ WebSteps \/ WebCancelled \/ CancelAnswered \/ CancelLost
    <3>1. \/ Generation \/ Finalize \/ WorkerStarts \/ Leaving \/ BackendCancelled
          \/ StreamCancelled \/ StreamClosed \/ GatherCancelled
      BY <2>1 DEF Incremental, WebSteps, WebCancelled, CancelAnswered, CancelLost, Generation
    <3>2. WorkerStays /\ mail' = mail
      BY <2>1, <3>1, SchedulerStays
         DEF Incremental, WebSteps, WebCancelled, CancelAnswered, CancelLost
    <3>3. killed => killed'
      BY <3>1, CancelStays DEF BackendCancelled, speaker, Worker
    <3> QED
      BY <1>3, <1>4, <1>t, <3>2, <3>3 DEF WorkerStays, TheCall, Abandoned
  <2>2. CASE WorkerSends
    <3>1. worker = "getting" /\ (worker' = "done" => mail' = mail)
      BY <2>2 DEF WorkerSends, WorkerGets
    <3> QED
      BY <1>3, <1>t, <3>1 DEF TheCall
  <2>3. CASE WorkerHears
    BY <1>3, <1>t, <2>3 DEF WorkerHears, TheCall
  <2>4. CASE WorkerGivesUp
    BY <2>4 DEF WorkerGivesUp, Fault
  <2>5. CASE WorkerKilled
    BY <2>5 DEF WorkerKilled, WorkerCancelled
  <2>6. CASE RequestLost
    BY <1>3, <1>t, <2>6 DEF RequestLost, TheCall
  <2> QED
    BY <2>1, <2>2, <2>3, <2>4, <2>5, <2>6
<1>7. cancelTask' = "done" => ctl'["web"] # "idle" \/ ctl'["end"] # "idle" \/ fault' = "cancelLost"
  <2>1. CASE CancelAnswered \/ CancelLost
    BY <1>3, <2>1 DEF CancelAnswered, CancelLost, Fault
  <2>2. CASE \/ Incremental \/ WebSteps \/ WebCancelled
             \/ WorkerSends \/ WorkerHears \/ WorkerGivesUp \/ WorkerKilled
    <3>1. TerminalOf(answer) \in {"normal", "cancelled", "error"}
      BY DEF TerminalOf
    <3>2. \/ Generation \/ Finalize \/ Worker \/ Leaving
          \/ StreamCancelled \/ StreamClosed \/ GatherCancelled
      BY <2>2, <3>1 DEF Incremental, WebSteps, WebCancelled, WorkerSends, WorkerHears,
         WorkerGivesUp, WorkerKilled, Generation, Worker
    <3>3. cancelTask' = "done" => cancelTask = "done"
      BY <3>2, CancelStays
    <3> QED
      BY <1>3, <1>5, <1>t, <3>3 DEF Abandoned
  <2>3. CASE RequestLost
    BY <1>3, <1>5, <1>t, <2>3 DEF RequestLost, vars, Abandoned
  <2> QED
    BY <2>1, <2>2, <2>3
<1> QED
  BY <1>2, <1>6, <1>7 DEF QuietInv, Abandoned

\* Every step keeps a stopped turn quiet.
LEMMA QuietStep == Inv /\ ReplyInv /\ QuietInv /\ [SpokenNext]_spokenVars => QuietInv'
<1> SUFFICES ASSUME Inv, ReplyInv, QuietInv, [SpokenNext]_spokenVars PROVE QuietInv'
  OBVIOUS
<1>1. CASE \/ Incremental \/ WebSteps \/ WebCancelled \/ CancelAnswered \/ CancelLost
           \/ WorkerSends \/ WorkerHears \/ WorkerGivesUp \/ WorkerKilled \/ RequestLost
  BY <1>1, WebKeepsQuiet
<1>2. CASE RequestArrives
  BY <1>2, ArriveKeepsQuiet
<1>3. CASE BackendSteps
  <2>1. UNCHANGED <<vars, mail, fault>> /\ (Handler \/ Cancelling)
    BY <1>3 DEF BackendSteps
  <2> QED
    BY <2>1, HandlerKeepsQuiet, CancellationKeepsQuiet
<1>4. CASE CancelArrives \/ InterruptArrives \/ CallEnds
  <2>1. UNCHANGED <<vars, mail, fault>> /\ (CancelTurn \/ Interrupt \/ End)
    BY <1>4 DEF CancelArrives, InterruptArrives, CallEnds
  <2> QED
    BY <2>1, CancellationKeepsQuiet
<1>5. CASE FramePlayed \/ UNCHANGED spokenVars
  <2>1. /\ UNCHANGED <<job, mark, book, owed, doomed, ctl, capt, silenced, late, mail, fault>>
        /\ UNCHANGED vars
    BY <1>5 DEF FramePlayed, Play, marks, controls, spokenVars, playVars, ghosts
  <2>2. Held' = Held /\ Marked' = Marked
    BY <2>1 DEF Held, Marked
  <2>3. Refused' /\ Caught' /\ LateLeft'
    BY <2>1, <2>2 DEF QuietInv, Refused, Caught, LateLeft
  <2>4. Abandoned'
    BY <2>1 DEF QuietInv, Abandoned, vars, speaker
  <2> QED
    BY <2>3, <2>4 DEF QuietInv
<1> QED
  BY <1>1, <1>2, <1>3, <1>4, <1>5 DEF SpokenNext, Progress
-----------------------------------------------------------------------------
(* What is promised of a stopped turn *)

\* At the start nothing was stopped.
LEMMA InitQuiet == SpokenInit => QuietInv
<1> SUFFICES ASSUME SpokenInit PROVE QuietInv
  OBVIOUS
<1>1. /\ worker = "none" /\ cancelTask = "none" /\ mail = None /\ job = NoJob
      /\ mark = "none" /\ book = "active" /\ owed = FALSE
      /\ ctl = [c \in Cancellers |-> "idle"] /\ capt = [c \in Cancellers |-> NoCapture]
      /\ silenced = FALSE /\ late = 0
  BY DEF SpokenInit, Init, PlayInit
<1>2. /\ ctl["web"] = "idle" /\ ctl["end"] = "idle" /\ ~Marked
      /\ \A c \in Cancellers : capt[c] = NoCapture
      /\ job.at = "idle" /\ job.part = "part"
  BY <1>1, NoJobFacts DEF Cancellers, Marked
<1>3. Refused
  BY <1>1, <1>2 DEF Refused
<1>4. Caught
  BY <1>1, <1>2 DEF Caught, NoCapture
<1>5. Abandoned
  BY <1>1 DEF Abandoned
<1>6. LateLeft
  BY <1>1, <1>2, AudioAssumption DEF LateLeft
<1> QED
  BY <1>3, <1>4, <1>5, <1>6 DEF QuietInv

\* The invariants of the turn, of its audio and of its cancellations, together.
LEMMA QuietInvHolds == SpokenSpec => [](Inv /\ ReplyInv /\ QuietInv)
<1>1. SpokenInit => Inv /\ ReplyInv /\ QuietInv
  BY InitReply, InitQuiet
<1>2. Inv /\ ReplyInv /\ QuietInv /\ [SpokenNext]_spokenVars => (Inv /\ ReplyInv /\ QuietInv)'
  <2> SUFFICES ASSUME Inv, ReplyInv, QuietInv, [SpokenNext]_spokenVars
               PROVE  Inv' /\ ReplyInv' /\ QuietInv'
    OBVIOUS
  <2>1. Inv'
    BY ReplyIsATurn, InvStep
  <2>2. ReplyInv'
    BY ReplyStep
  <2>3. QuietInv'
    BY QuietStep
  <2> QED
    BY <2>1, <2>2, <2>3
<1> QED
  BY <1>1, <1>2, PTL DEF SpokenSpec

\* A turn the backend goes on with after the stream was not reached.
LEMMA TalkHasReasons == Inv /\ ReplyInv /\ QuietInv => TalkIsExplained
<1> SUFFICES ASSUME Inv, ReplyInv, QuietInv,
                    pc = "done", job.at \in Talking, mark = "none", ctl["end"] = "idle"
             PROVE  \/ fault \in {"gaveUp", "cancelLost"}
                    \/ cancelTask = "running" \/ (killed /\ cancelTask = "none")
  BY DEF TalkIsExplained
<1>1. job # NoJob /\ ~Marked
  BY NoJobFacts DEF Talking, Busy, Marked
<1>2. worker = "done"
  BY <1>1 DEF Inv, WorkerGone, Live, ReplyInv, TheCall
<1>3. killed \/ fault = "gaveUp"
  BY <1>1, <1>2 DEF QuietInv, Abandoned
<1>4. cancelTask \in {"none", "running", "done"}
  BY DEF Inv, TypeOK
<1>5. cancelTask = "done" => fault = "cancelLost"
  <2>1. book = "active"
    BY <1>1 DEF QuietInv, Refused
  <2>2. ctl["web"] = "idle"
    BY <2>1 DEF QuietInv, Refused
  <2> QED
    BY <2>2 DEF QuietInv, Abandoned
<1> QED
  BY <1>3, <1>4, <1>5

\* A frame leaves less to play.
LEMMA PlayShortens == ASSUME ReplyInv, Play PROVE Len(line') <= Len(line)
<1>1. line \in Seq(Nat) /\ line' = Drop(line, FrameSize) /\ Len(line) \in Nat /\ FrameSize \in Nat
  BY AudioAssumption, LenProperties DEF ReplyInv, SpokenTypeOK, PlayTypeOK, Play
<1>2. PICK n \in 0..Len(line) :
         /\ n < Len(line) => Drop(line, FrameSize) = SubSeq(line, n + 1, Len(line))
         /\ n = Len(line) => Drop(line, FrameSize) = <<>>
  BY <1>1, TakeCuts
<1>3. CASE n < Len(line)
  <2>1. Len(SubSeq(line, n + 1, Len(line))) = Len(line) - n
    BY <1>1, CutFacts
  <2> QED
    BY <1>1, <1>2, <1>3, <2>1
<1>4. CASE n = Len(line)
  <2>1. Len(line') = 0
    BY <1>1, <1>2, <1>4, EmptySeq
  <2> QED
    BY <1>1, <2>1
<1> QED
  BY <1>1, <1>3, <1>4

\* Once a cancellation is finished its handler is cut off or has queued all it will.
LEMMA CancelledQueuesNothing ==
    ASSUME ReplyInv, QuietInv, Handler, mark = "cancelled" PROVE line' = line
<1>1. Workable /\ job # NoJob
  BY ReplyIsWorkable, HandlerSteps DEF HandlerStep
<1>2. HandlerWay
  BY <1>1, HandlerWays
<1>3. doomed \/ job.at \in {"draining", "emitting"}
  BY <1>1 DEF QuietInv, Caught
<1> QED
  BY <1>2, <1>3 DEF HandlerWay

\* No step queues audio for a turn whose cancellation is finished.
LEMMA SilentStep ==
    Inv /\ ReplyInv /\ QuietInv /\ [SpokenNext]_spokenVars =>
        [mark = "cancelled" => Len(line') <= Len(line)]_spokenVars
<1> SUFFICES ASSUME ReplyInv, QuietInv, [SpokenNext]_spokenVars, mark = "cancelled"
             PROVE  Len(line') <= Len(line)
  OBVIOUS
<1>t. line \in Seq(Nat) /\ Len(line) \in Nat /\ Len(<<>>) = 0
  BY LenProperties, EmptySeq DEF ReplyInv, SpokenTypeOK, PlayTypeOK
<1>1. CASE \/ Incremental \/ WebSteps \/ WebCancelled \/ CancelAnswered \/ CancelLost
           \/ WorkerSends \/ WorkerHears \/ WorkerGivesUp \/ WorkerKilled \/ RequestLost
           \/ UNCHANGED spokenVars
  <2>1. line' = line
    BY <1>1 DEF Incremental, WebSteps, WebCancelled, CancelAnswered, CancelLost, WorkerSends,
         WorkerHears, WorkerGivesUp, WorkerKilled, RequestLost, HangsUp, spokenVars, playVars,
         backendVars, track, controls
  <2> QED
    BY <1>t, <2>1
<1>2. CASE RequestArrives
  <2>1. line' = line
    <3>1. PICK kind \in {"part", "final", "marker"} : Arrive(kind)
      BY <1>2 DEF RequestArrives
    <3> QED
      BY <3>1, ArriveFacts
  <2> QED
    BY <1>t, <2>1
<1>3. CASE Handler
  <2>1. line' = line
    BY <1>3, CancelledQueuesNothing
  <2> QED
    BY <1>t, <2>1
<1>4. CASE CancelTurn \/ Interrupt \/ End \/ Cancelling
  <2>1. line' = line \/ line' = <<>>
    BY <1>4, ReplyIsControlled, CancellationSteps DEF ControlStep
  <2> QED
    BY <1>t, <2>1
<1>5. CASE Play
  BY <1>5, PlayShortens
<1> QED
  BY <1>1, <1>2, <1>3, <1>4, <1>5
     DEF SpokenNext, Progress, BackendSteps, CancelArrives, FramePlayed,
         InterruptArrives, CallEnds

\* A turn that was stopped queues at most one chunk more and nothing once the cancellation
\* is finished, and a backend that talks on was not told: start_playback_from_buffer,
\* _interrupt_ai_turn and cancel() of the scheduler.
THEOREM TheStoppedAreQuiet == SpokenSpec => StoppedIsQuiet
<1>1. QuietInv => LateAudioIsOneChunk
  BY DEF QuietInv, LateLeft, LateAudioIsOneChunk
<1>2. Inv /\ ReplyInv /\ QuietInv => TalkIsExplained
  BY TalkHasReasons
<1>3. SpokenSpec => [](LateAudioIsOneChunk /\ TalkIsExplained)
  BY <1>1, <1>2, QuietInvHolds, PTL
<1>4. SpokenSpec => [][SpokenNext]_spokenVars
  BY PTL DEF SpokenSpec
<1>5. SpokenSpec => AcknowledgedIsSilent
  BY <1>4, SilentStep, QuietInvHolds, PTL DEF AcknowledgedIsSilent
<1> QED
  BY <1>3, <1>5 DEF StoppedIsQuiet
=============================================================================
