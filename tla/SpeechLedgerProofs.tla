-------------------------- MODULE SpeechLedgerProofs --------------------------
(***************************************************************************)
(* The segment ledger of a call's speech, for any turns, requests, bounds  *)
(* and cancellations: one speaker, commits in order, nothing claimed that  *)
(* nobody works on, and cancellations that hit what they are for.  As in   *)
(* CallTurnsProofs the steps are first sorted by what they do to the       *)
(* ledger (LedgerStep); the invariant is proved for each sort once.        *)
(***************************************************************************)
EXTENDS SpeechLedger, SequenceTheorems, TLAPS

Engaged == Working \cup {"unwinding"}
Success == {"queued", "ai_done"}

\* Requests that are remembered somewhere have been submitted.
Submitted ==
    /\ \A r \in Requests : pc[r] # "idle" => submission[r] # None
    /\ admission # None => pc[admission] # "idle"
    /\ \A i \in DOMAIN outbox : outbox[i] # "terminal" => pc[outbox[i]] # "idle"
    /\ \A c \in Cancels : captured[c].request # None => pc[captured[c].request] # "idle"
    /\ \A r \in Requests : pc[r] = "settling" => told[r] \in {"ai_done", "discarded"}

\* The entries of a turn: a committed prefix, at most one attempt behind it, then nothing.
\* Attempts of a turn that is not active any more are cancelled.
LedgerShape ==
    \A t \in Turns, n \in Ordinals :
        /\ segment[t][n].state = "committed" <=> n < nextOrdinal[t]
        /\ segment[t][n].state \in {"in_flight", "reserved", "cancelled"} => n = nextOrdinal[t]
        /\ segment[t][n].state \in {"in_flight", "reserved"} => ledger[t] = "active"
        /\ segment[t][n].state = "cancelled" => ledger[t] # "active"

\* Whoever is engaged works on a segment that is its own, one request per turn.
WorkersClaim ==
    /\ \A r \in Requests : pc[r] \in Engaged => Entry(r).state \in {"in_flight", "cancelled"}
    /\ \A r, q \in Requests :
          pc[r] \in Engaged /\ pc[q] \in Engaged /\ r # q => Turn(r) # Turn(q)

\* A cancellation under way has marked the turn it captured.
CapturedIsMarked ==
    \A c \in Cancels :
        ctl[c] \in {"stopping", "acking"} /\ captured[c].turn # None =>
            Cancelled(captured[c].turn)

Inv == /\ TypeOK /\ Submitted /\ LedgerShape /\ WorkersClaim /\ CapturedIsMarked
       /\ SingleSpeaker /\ InFlightIsOwned /\ AnswerIsLedgers
-----------------------------------------------------------------------------
(* What a step does to the ledger, the handlers and the admission *)

Alone(r) ==
    \A q \in Requests \ {r} :
        /\ pc'[q] = pc[q] /\ told'[q] = told[q] /\ submission'[q] = submission[q]

\* No entry but that of r changes.
OwnEntry(r) ==
    \A t \in Turns, n \in Ordinals :
        ~(t = Turn(r) /\ n = Ordinal(r)) => segment'[t][n] = segment[t][n]

EntryAfter(r) == segment'[Turn(r)][Ordinal(r)]

GivesBack(r) == admission' = IF admission = r THEN None ELSE admission

\* A request is submitted.
Enters(r) ==
    /\ pc[r] = "idle" /\ pc'[r] = "waiting"
    /\ submission'[r] \in Submissions[r] /\ told'[r] = told[r]
    /\ UNCHANGED <<book, admission>>

\* It is answered without work; a success is what the ledger has on record.
Outs(r) ==
    /\ pc[r] = "waiting" /\ pc'[r] = "done" /\ submission'[r] = submission[r]
    /\ told'[r] \in Success => Entry(r).state = "committed" /\ Entry(r).reply = told'[r]
    /\ UNCHANGED <<book, admission>>

\* It claims its segment, or reserves it in vain.
Claims(r) ==
    /\ pc[r] = "waiting" /\ submission'[r] = submission[r]
    /\ Claimable(r) /\ OwnEntry(r)
    /\ \/ EntryAfter(r).state = "in_flight" /\ pc'[r] \in {"streaming", "playout"}
       \/ EntryAfter(r).state = "reserved" /\ pc'[r] = "done" /\ told'[r] = "failed"
    /\ IF IsMarker(r) THEN admission' = admission ELSE admission = None /\ admission' = r
    /\ UNCHANGED <<ledger, nextOrdinal>>

\* It goes on with what it claimed.
Works(r) ==
    /\ pc[r] \in Engaged /\ pc'[r] \in Engaged /\ submission'[r] = submission[r]
    /\ pc'[r] = "settling" /\ pc[r] # "settling" => told'[r] \in {"ai_done", "discarded"}
    /\ pc[r] = "settling" => told'[r] = told[r]
    /\ UNCHANGED <<book, admission>>

\* It ends without success and its claim is released.
Releases(r) ==
    /\ pc[r] \in Engaged /\ pc'[r] = "done" /\ submission'[r] = submission[r]
    /\ told'[r] \notin Success
    /\ OwnEntry(r)
    /\ IF ledger[Turn(r)] = "active" /\ Entry(r).state = "in_flight"
       THEN EntryAfter(r).state = "reserved"
       ELSE EntryAfter(r) = Entry(r)
    /\ UNCHANGED <<ledger, nextOrdinal>>
    /\ GivesBack(r)

\* It ends with its segment committed.
Commits(r) ==
    /\ pc[r] \in Engaged /\ pc'[r] = "done" /\ submission'[r] = submission[r]
    /\ OwnEntry(r)
    /\ EntryAfter(r).state = "committed" /\ EntryAfter(r).reply = told'[r]
    /\ \A t \in Turns :
          /\ nextOrdinal'[t] = IF t = Turn(r) THEN Ordinal(r) + 1 ELSE nextOrdinal[t]
          /\ t # Turn(r) => ledger'[t] = ledger[t]
    /\ GivesBack(r)

\* The turns of T are cancelled, unless they are completed.
Drops(T) ==
    \A t \in Turns :
        /\ nextOrdinal'[t] = nextOrdinal[t]
        /\ ledger'[t] = IF t \in T /\ ledger[t] # "completed" THEN "cancelled" ELSE ledger[t]
        /\ \A n \in Ordinals :
              IF /\ t \in T /\ ledger[t] # "completed"
                 /\ segment[t][n].state \notin {"absent", "committed"}
              THEN segment'[t][n].state = "cancelled"
              ELSE segment'[t][n] = segment[t][n]

\* It ends and takes its turn with it.
Aborts(r) ==
    /\ pc[r] \in Engaged /\ pc'[r] = "done" /\ submission'[r] = submission[r]
    /\ told'[r] \notin Success
    /\ Drops({Turn(r)})
    /\ GivesBack(r)

RequestSort(r) ==
    /\ Alone(r)
    /\ \/ Enters(r) \/ Outs(r) \/ Claims(r) \/ Works(r)
       \/ Releases(r) \/ Commits(r) \/ Aborts(r)

LedgerStep ==
    \/ \E r \in Requests : RequestSort(r)
    \/ \E T \in SUBSET Turns : Drops(T) /\ UNCHANGED <<handlers, admission>>
    \/ UNCHANGED <<book, handlers, admission>>
-----------------------------------------------------------------------------
(* The operators of the ledger, entry by entry *)

\* A submitted request carries a turn, an ordinal and a kind.
LEMMA SubmissionFields ==
    ASSUME TypeOK, Submitted, NEW r \in Requests, pc[r] # "idle"
    PROVE  Turn(r) \in Turns /\ Ordinal(r) \in Ordinals /\ Kind(r) \in Kinds
<1>1. submission[r] \in Submissions[r] /\ Submissions[r] \subseteq
        [turn : Turns, ordinal : Ordinals, kind : Kinds]
  BY SubmissionAssumption DEF TypeOK, Submitted
<1> QED BY <1>1 DEF Turn, Ordinal, Kind

\* Updating one entry leaves the others alone.
LEMMA OneEntry ==
    ASSUME NEW seg \in [Turns -> [Ordinals -> Segments]],
           NEW t \in Turns, NEW n \in Ordinals, NEW e \in Segments,
           NEW new, new = [seg EXCEPT ![t][n] = e]
    PROVE  /\ new \in [Turns -> [Ordinals -> Segments]]
           /\ new[t][n] = e
           /\ \A u \in Turns, m \in Ordinals : ~(u = t /\ m = n) => new[u][m] = seg[u][m]
OBVIOUS

\* A claim sets state and kind of the entry of the request.
LEMMA ClaimedEntry ==
    ASSUME TypeOK, Submitted, NEW r \in Requests, pc[r] # "idle",
           NEW s \in {"in_flight", "reserved"}, segment' = Claimed(r, s)
    PROVE  /\ segment' \in [Turns -> [Ordinals -> Segments]]
           /\ OwnEntry(r) /\ EntryAfter(r).state = s
<1>1. /\ Turn(r) \in Turns /\ Ordinal(r) \in Ordinals /\ Kind(r) \in Kinds
      /\ segment \in [Turns -> [Ordinals -> Segments]]
  BY SubmissionFields DEF TypeOK
<1> DEFINE e == [Entry(r) EXCEPT !.state = s, !.kind = Kind(r)]
<1>2. Entry(r) \in Segments
  BY <1>1 DEF Entry
<1>3. e \in Segments /\ e.state = s
  BY <1>1, <1>2 DEF Segments
<1>4. segment' = [segment EXCEPT ![Turn(r)][Ordinal(r)] = e]
  BY <1>1, <1>2 DEF Claimed, Entry, Segments
<1> QED BY <1>1, <1>3, <1>4, OneEntry DEF OwnEntry, EntryAfter

\* A commit sets state and reply of the entry, and counts it.
LEMMA CommittedEntry ==
    ASSUME TypeOK, Submitted, NEW r \in Requests, pc[r] # "idle",
           NEW reply \in Replies, Commit(r, reply)
    PROVE  /\ segment' \in [Turns -> [Ordinals -> Segments]]
           /\ nextOrdinal' \in [Turns -> 0..(MaxOrdinal + 1)]
           /\ ledger' \in [Turns -> {"active", "cancelled", "completed"}]
           /\ OwnEntry(r) /\ EntryAfter(r).state = "committed" /\ EntryAfter(r).reply = reply
           /\ \A t \in Turns :
                 /\ nextOrdinal'[t] = IF t = Turn(r) THEN Ordinal(r) + 1 ELSE nextOrdinal[t]
                 /\ t # Turn(r) => ledger'[t] = ledger[t]
<1>1. /\ Turn(r) \in Turns /\ Ordinal(r) \in Ordinals
      /\ segment \in [Turns -> [Ordinals -> Segments]]
  BY SubmissionFields DEF TypeOK
<1> DEFINE e == [Entry(r) EXCEPT !.state = "committed", !.reply = reply]
<1>2. Entry(r) \in Segments
  BY <1>1 DEF Entry
<1>3. e \in Segments /\ e.state = "committed" /\ e.reply = reply
  BY <1>2 DEF Segments
<1>4. segment' = [segment EXCEPT ![Turn(r)][Ordinal(r)] = e]
  BY <1>1, <1>2 DEF Commit, Entry, Segments
<1>5. /\ segment' \in [Turns -> [Ordinals -> Segments]] /\ OwnEntry(r)
      /\ EntryAfter(r).state = "committed" /\ EntryAfter(r).reply = reply
  BY <1>1, <1>3, <1>4, OneEntry DEF OwnEntry, EntryAfter
<1>6. /\ nextOrdinal' \in [Turns -> 0..(MaxOrdinal + 1)]
      /\ \A t \in Turns :
            nextOrdinal'[t] = IF t = Turn(r) THEN Ordinal(r) + 1 ELSE nextOrdinal[t]
  BY <1>1, BoundAssumption DEF Commit, TypeOK, Ordinals
<1>7. /\ ledger' \in [Turns -> {"active", "cancelled", "completed"}]
      /\ \A t \in Turns : t # Turn(r) => ledger'[t] = ledger[t]
  BY <1>1 DEF Commit, TypeOK
<1> QED BY <1>5, <1>6, <1>7

\* A release sets an attempt in flight of an active turn back.
LEMMA ReleasedEntry ==
    ASSUME TypeOK, Submitted, NEW r \in Requests, pc[r] # "idle", segment' = Released(r)
    PROVE  /\ segment' \in [Turns -> [Ordinals -> Segments]]
           /\ OwnEntry(r)
           /\ IF ledger[Turn(r)] = "active" /\ Entry(r).state = "in_flight"
              THEN EntryAfter(r).state = "reserved"
              ELSE EntryAfter(r) = Entry(r)
<1>1. /\ Turn(r) \in Turns /\ Ordinal(r) \in Ordinals
      /\ segment \in [Turns -> [Ordinals -> Segments]]
  BY SubmissionFields DEF TypeOK
<1>2. CASE ledger[Turn(r)] = "active" /\ Entry(r).state = "in_flight"
  <2> DEFINE e == [Entry(r) EXCEPT !.state = "reserved"]
  <2>1. Entry(r) \in Segments
    BY <1>1 DEF Entry
  <2>2. e \in Segments /\ e.state = "reserved"
    BY <2>1 DEF Segments
  <2>3. segment' = [segment EXCEPT ![Turn(r)][Ordinal(r)] = e]
    BY <1>1, <1>2, <2>1 DEF Released, Entry, Segments
  <2> QED BY <1>1, <1>2, <2>2, <2>3, OneEntry DEF OwnEntry, EntryAfter
<1>3. CASE ~(ledger[Turn(r)] = "active" /\ Entry(r).state = "in_flight")
  BY <1>1, <1>3 DEF Released, OwnEntry, EntryAfter, Entry
<1> QED BY <1>2, <1>3

\* A cancellation of turns, ledger by ledger and entry by entry.
LEMMA CancelledEntries ==
    ASSUME TypeOK, NEW T, CancelLedgers(T)
    PROVE  /\ segment' \in [Turns -> [Ordinals -> Segments]]
           /\ nextOrdinal' = nextOrdinal
           /\ ledger' \in [Turns -> {"active", "cancelled", "completed"}]
           /\ Drops(T)
<1>1. /\ segment \in [Turns -> [Ordinals -> Segments]]
      /\ ledger \in [Turns -> {"active", "cancelled", "completed"}]
  BY DEF TypeOK
<1>2. ASSUME NEW e \in Segments
      PROVE  /\ [e EXCEPT !.state = "cancelled"] \in Segments
             /\ [e EXCEPT !.state = "cancelled"].state = "cancelled"
  BY <1>2 DEF Segments
<1>3. segment' = CancelSegments(T)
  BY DEF CancelLedgers
<1>4. segment' \in [Turns -> [Ordinals -> Segments]]
  BY <1>1, <1>2, <1>3 DEF CancelSegments
<1>5. \A t \in Turns, n \in Ordinals :
        IF /\ t \in T /\ ledger[t] # "completed"
           /\ segment[t][n].state \notin {"absent", "committed"}
        THEN segment'[t][n].state = "cancelled"
        ELSE segment'[t][n] = segment[t][n]
  BY <1>1, <1>2, <1>3 DEF CancelSegments
<1> QED BY <1>1, <1>4, <1>5 DEF CancelLedgers, Drops
-----------------------------------------------------------------------------
(* Every step is of one of these sorts *)

\* An answer concerns its request only.
LEMMA AnswersAlone ==
    ASSUME TypeOK, NEW r \in Requests, NEW reply, Answer(r, reply), submission' = submission
    PROVE  /\ Alone(r) /\ pc'[r] = "done" /\ told'[r] = reply
           /\ submission'[r] = submission[r]
BY DEF TypeOK, Answer, Alone

\* So does a move of its handler.
LEMMA MovesAlone ==
    ASSUME TypeOK, NEW r \in Requests, NEW p, pc' = [pc EXCEPT ![r] = p],
           told' = told, submission' = submission
    PROVE  /\ Alone(r) /\ pc'[r] = p /\ told'[r] = told[r]
           /\ submission'[r] = submission[r]
BY DEF TypeOK, Alone

\* A request that ends as cancelled takes its turn with it.
LEMMA EndsCancelled ==
    ASSUME TypeOK, NEW r \in Requests, pc[r] \in Engaged, submission' = submission,
           NEW reply \in {"cancelled", "failed"},
           CancelLedgers({Turn(r)}), ReleaseAdmission(r), Answer(r, reply)
    PROVE  RequestSort(r)
<1>1. Drops({Turn(r)})
  BY CancelledEntries
<1>2. /\ Alone(r) /\ pc'[r] = "done" /\ told'[r] = reply
      /\ submission'[r] = submission[r]
  BY AnswersAlone
<1> QED BY <1>1, <1>2 DEF RequestSort, Aborts, GivesBack, ReleaseAdmission, Success

\* One that fails releases its claim.
LEMMA EndsFailed ==
    ASSUME TypeOK, Submitted, NEW r \in Requests, pc[r] \in Engaged, submission' = submission,
           NEW reply \in {"discarded", "failed"}, EndFailed(r, reply)
    PROVE  RequestSort(r)
<1>1. pc[r] # "idle"
  BY DEF Engaged, Working, Streaming
<1>2. /\ OwnEntry(r)
      /\ IF ledger[Turn(r)] = "active" /\ Entry(r).state = "in_flight"
         THEN EntryAfter(r).state = "reserved"
         ELSE EntryAfter(r) = Entry(r)
  BY <1>1, ReleasedEntry DEF EndFailed
<1>3. /\ Alone(r) /\ pc'[r] = "done" /\ told'[r] = reply
      /\ submission'[r] = submission[r]
  BY AnswersAlone DEF EndFailed
<1>4. UNCHANGED <<ledger, nextOrdinal>> /\ ReleaseAdmission(r)
  BY DEF EndFailed
<1> QED BY <1>2, <1>3, <1>4 DEF RequestSort, Releases, GivesBack, ReleaseAdmission, Success

\* An exception in the stream is one or the other.
LEMMA EndsRaised ==
    ASSUME TypeOK, Submitted, NEW r \in Requests, pc[r] \in Engaged, submission' = submission,
           StreamRaised(r)
    PROVE  RequestSort(r)
BY EndsCancelled, EndsFailed DEF StreamRaised, EndCancelled

\* One that succeeds commits its segment with the answer it gives.
LEMMA EndsCommitted ==
    ASSUME TypeOK, Submitted, NEW r \in Requests, pc[r] \in Engaged, submission' = submission,
           NEW reply \in Replies, Commit(r, reply), ReleaseAdmission(r), Answer(r, reply)
    PROVE  RequestSort(r)
<1>1. pc[r] # "idle"
  BY DEF Engaged, Working, Streaming
<1>2. /\ OwnEntry(r) /\ EntryAfter(r).state = "committed" /\ EntryAfter(r).reply = reply
      /\ \A t \in Turns :
            /\ nextOrdinal'[t] = IF t = Turn(r) THEN Ordinal(r) + 1 ELSE nextOrdinal[t]
            /\ t # Turn(r) => ledger'[t] = ledger[t]
  BY <1>1, CommittedEntry
<1>3. /\ Alone(r) /\ pc'[r] = "done" /\ told'[r] = reply
      /\ submission'[r] = submission[r]
  BY AnswersAlone
<1> QED BY <1>2, <1>3 DEF RequestSort, Commits, GivesBack, ReleaseAdmission

\* The steps of a speak request.
LEMMA SpeakIsSorted ==
    ASSUME TypeOK, Submitted, NEW r \in Requests, Speak(r)
    PROVE  RequestSort(r) \/ UNCHANGED <<book, handlers, admission>>
<1>1. CASE Refused(r)
  <2>1. /\ Alone(r) /\ pc'[r] = "done" /\ told'[r] = "refused"
        /\ submission'[r] = submission[r]
    BY <1>1, AnswersAlone DEF Refused
  <2>2. pc[r] = "waiting" /\ UNCHANGED <<book, admission>>
    BY <1>1 DEF Refused, owner
  <2> QED BY <2>1, <2>2 DEF RequestSort, Outs, Success
<1>2. CASE Replay(r)
  <2>1. /\ Alone(r) /\ pc'[r] = "done" /\ told'[r] = Entry(r).reply
        /\ submission'[r] = submission[r]
    BY <1>2, AnswersAlone DEF Replay
  <2>2. /\ pc[r] = "waiting" /\ Entry(r).state = "committed"
        /\ UNCHANGED <<book, admission>>
    BY <1>2 DEF Replay, owner
  <2> QED BY <2>1, <2>2 DEF RequestSort, Outs
<1>3. CASE Admit(r)
  <2>1. /\ pc[r] = "waiting" /\ Claimable(r) /\ ~IsMarker(r) /\ admission = None
        /\ admission' = r /\ UNCHANGED <<ledger, nextOrdinal>>
        /\ segment' = Claimed(r, "in_flight")
    BY <1>3 DEF Admit, MayClaim
  <2>2. OwnEntry(r) /\ EntryAfter(r).state = "in_flight"
    BY <2>1, ClaimedEntry
  <2>3. /\ Alone(r) /\ pc'[r] = "streaming" /\ submission'[r] = submission[r]
    BY <1>3, MovesAlone DEF Admit
  <2> QED BY <2>1, <2>2, <2>3 DEF RequestSort, Claims
<1>4. CASE ClaimMarker(r)
  <2>1. /\ pc[r] = "waiting" /\ Claimable(r) /\ IsMarker(r)
        /\ UNCHANGED <<ledger, nextOrdinal, admission, submission>>
    BY <1>4 DEF ClaimMarker, owner
  <2>2. CASE pending = Turn(r)
    <3>1. /\ segment' = Claimed(r, "in_flight")
          /\ pc' = [pc EXCEPT ![r] = "playout"] /\ told' = told
      BY <1>4, <2>2 DEF ClaimMarker
    <3>2. OwnEntry(r) /\ EntryAfter(r).state = "in_flight"
      BY <2>1, <3>1, ClaimedEntry
    <3>3. /\ Alone(r) /\ pc'[r] = "playout" /\ submission'[r] = submission[r]
      BY <2>1, <3>1, MovesAlone
    <3> QED BY <2>1, <3>2, <3>3 DEF RequestSort, Claims
  <2>3. CASE pending # Turn(r)
    <3>1. segment' = Claimed(r, "reserved") /\ Answer(r, "failed")
      BY <1>4, <2>3 DEF ClaimMarker
    <3>2. OwnEntry(r) /\ EntryAfter(r).state = "reserved"
      BY <2>1, <3>1, ClaimedEntry
    <3>3. /\ Alone(r) /\ pc'[r] = "done" /\ told'[r] = "failed"
          /\ submission'[r] = submission[r]
      BY <2>1, <3>1, AnswersAlone
    <3> QED BY <2>1, <3>2, <3>3 DEF RequestSort, Claims
  <2> QED BY <2>2, <2>3
<1>5. CASE TakeChunk(r)
  <2>1. /\ pc[r] = "streaming" /\ UNCHANGED <<book, admission, told, submission>>
        /\ pc' = [pc EXCEPT ![r] = "joining"] \/ pc' = pc
    BY <1>5 DEF TakeChunk, owner
  <2>2. CASE pc' = pc
    BY <2>1, <2>2 DEF handlers
  <2>3. CASE pc' = [pc EXCEPT ![r] = "joining"]
    BY <2>1, <2>3, MovesAlone DEF RequestSort, Works, Engaged, Working, Streaming
  <2> QED BY <2>1, <2>2, <2>3
<1>6. CASE StartupTimeout(r)
  BY <1>6 DEF StartupTimeout, owner
<1>7. CASE TakeEnd(r)
  <2>1. /\ pc[r] = "streaming" /\ UNCHANGED <<book, admission, told, submission>>
        /\ pc' = [pc EXCEPT ![r] = "joining"]
    BY <1>7 DEF TakeEnd, owner
  <2>2. /\ Alone(r) /\ pc'[r] = "joining" /\ told'[r] = told[r]
        /\ submission'[r] = submission[r]
    BY <2>1, MovesAlone
  <2> QED BY <2>1, <2>2 DEF RequestSort, Works, Engaged, Working, Streaming
<1>8. CASE TakeError(r)
  BY <1>8, EndsRaised DEF TakeError, Engaged, Working, Streaming
<1>9. CASE Join(r)
  <2>1. /\ pc[r] = "joining" /\ pc[r] \in Engaged /\ submission' = submission
    BY <1>9 DEF Join, Engaged, Working, Streaming
  <2>2. CASE Cancelled(Turn(r))
    <3>1. EndCancelled(r)
      BY <1>9, <2>2 DEF Join
    <3> QED BY <2>1, <3>1, EndsCancelled DEF EndCancelled
  <2>3. CASE ~Cancelled(Turn(r)) /\ Kind(r) = "part"
    <3>1. Commit(r, "queued") /\ ReleaseAdmission(r) /\ Answer(r, "queued")
      BY <1>9, <2>3 DEF Join
    <3> QED BY <2>1, <3>1, EndsCommitted DEF Replies
  <2>4. CASE ~Cancelled(Turn(r)) /\ Kind(r) # "part"
    <3>1. pc' = [pc EXCEPT ![r] = "playout"] /\ UNCHANGED <<book, admission, told>>
      BY <1>9, <2>4 DEF Join, owner
    <3> QED BY <2>1, <3>1, MovesAlone DEF RequestSort, Works, Engaged, Working, Streaming
  <2> QED BY <2>2, <2>3, <2>4
<1>10. CASE JoinEmpty(r)
  BY <1>10, EndsRaised DEF JoinEmpty, Engaged, Working, Streaming
<1>11. CASE PlayoutEnds(r)
  <2>1. /\ pc[r] = "playout" /\ pc[r] \in Engaged /\ submission' = submission
    BY <1>11 DEF PlayoutEnds, Engaged, Working, Streaming
  <2>2. CASE ~IsMarker(r) /\ Cancelled(Turn(r))
    <3>1. EndCancelled(r)
      BY <1>11, <2>2 DEF PlayoutEnds
    <3> QED BY <2>1, <3>1, EndsCancelled DEF EndCancelled
  <2>3. CASE ~(~IsMarker(r) /\ Cancelled(Turn(r)))
    <3>1. pc' = [pc EXCEPT ![r] = "emitting"] /\ UNCHANGED <<book, admission, told>>
      BY <1>11, <2>3 DEF PlayoutEnds
    <3> QED BY <2>1, <3>1, MovesAlone DEF RequestSort, Works, Engaged, Working, Streaming
  <2> QED BY <2>2, <2>3
<1>12. CASE SettleFinal(r)
  <2>1. /\ pc[r] = "settling" /\ pc[r] \in Engaged /\ submission' = submission
        /\ told[r] \in {"ai_done", "discarded"}
    BY <1>12 DEF SettleFinal, Engaged, Working, Submitted
  <2>2. CASE IsMarker(r) \/ told[r] = "ai_done"
    <3>1. Commit(r, told[r]) /\ ReleaseAdmission(r) /\ Answer(r, told[r])
      BY <1>12, <2>2 DEF SettleFinal
    <3> QED BY <2>1, <3>1, EndsCommitted DEF Replies
  <2>3. CASE ~(IsMarker(r) \/ told[r] = "ai_done")
    <3>1. EndFailed(r, "discarded")
      BY <1>12, <2>3 DEF SettleFinal
    <3> QED BY <2>1, <3>1, EndsFailed
  <2> QED BY <2>2, <2>3
<1>13. CASE Unwind(r)
  <2>1. /\ pc[r] \in Working /\ UNCHANGED <<book, admission, told, submission>>
        /\ pc' = [pc EXCEPT ![r] = "unwinding"]
    BY <1>13 DEF Unwind
  <2>2. /\ Alone(r) /\ pc'[r] = "unwinding" /\ told'[r] = told[r]
        /\ submission'[r] = submission[r]
    BY <2>1, MovesAlone
  <2> QED BY <2>1, <2>2 DEF RequestSort, Works, Engaged
<1>14. CASE Unwound(r)
  BY <1>14, EndsCancelled DEF Unwound, Engaged
<1> QED BY <1>1, <1>2, <1>3, <1>4, <1>5, <1>6, <1>7, <1>8, <1>9, <1>10, <1>11, <1>12, <1>13,
           <1>14 DEF Speak

\* The steps that are no request's own.
LEMMA EveryStepIsSorted ==
    ASSUME TypeOK, Submitted, [Next]_vars
    PROVE  LedgerStep
<1>1. CASE UNCHANGED vars
  BY <1>1 DEF vars, owner, LedgerStep
<1>2. ASSUME NEW r \in Requests, NEW s \in Submissions[r], Submit(r, s) PROVE RequestSort(r)
  <2>1. /\ pc[r] = "idle" /\ submission' = [submission EXCEPT ![r] = s] /\ told' = told
        /\ pc' = [pc EXCEPT ![r] = "waiting"] /\ UNCHANGED <<book, admission>>
    BY <1>2 DEF Submit, owner
  <2>2. Alone(r) /\ submission'[r] = s /\ pc'[r] = "waiting"
    BY <2>1 DEF TypeOK, Alone
  <2> QED BY <1>2, <2>1, <2>2 DEF RequestSort, Enters
<1>3. ASSUME NEW r \in Requests, Speak(r) PROVE LedgerStep
  BY <1>3, SpeakIsSorted DEF LedgerStep
<1>4. ASSUME NEW r \in Requests, Produce(r) \/ ProducerEnds(r) PROVE LedgerStep
  BY <1>4 DEF Produce, ProducerEnds, owner, LedgerStep
<1>5. CASE TrackPlays \/ DeliverTerminal
  BY <1>5 DEF TrackPlays, DeliverTerminal, owner, LedgerStep
<1>6. CASE DeliverDone
  <2> DEFINE r == Head(outbox)
  <2>1. r \in Requests
    <3>1. outbox # <<>> /\ r # "terminal" /\ outbox \in Seq(Requests \cup {"terminal"})
      BY <1>6 DEF DeliverDone, TypeOK
    <3>2. r \in Requests \cup {"terminal"}
      BY <3>1, HeadTailProperties
    <3> QED BY <3>1, <3>2
  <2>2. UNCHANGED <<book, admission, submission>>
    BY <1>6 DEF DeliverDone, owner
  <2>3. CASE pc[r] # "emitting"
    <3>1. UNCHANGED <<pc, told>>
      BY <1>6, <2>3 DEF DeliverDone
    <3> QED BY <2>2, <3>1 DEF LedgerStep, handlers
  <2>4. CASE pc[r] = "emitting"
    <3>1. PICK reply \in {"discarded", "ai_done"} : told' = [told EXCEPT ![r] = reply]
      BY <1>6, <2>4 DEF DeliverDone
    <3>2. pc' = [pc EXCEPT ![r] = "settling"]
      BY <1>6, <2>4 DEF DeliverDone
    <3>3. /\ Alone(r) /\ pc'[r] = "settling" /\ told'[r] = reply
          /\ submission'[r] = submission[r]
      BY <2>1, <2>2, <3>1, <3>2 DEF TypeOK, Alone
    <3>4. Works(r)
      BY <2>2, <2>4, <3>3 DEF Works, Engaged, Working
    <3> QED BY <2>1, <3>3, <3>4 DEF RequestSort, LedgerStep
  <2> QED BY <2>3, <2>4
<1>7. ASSUME NEW T \in SUBSET Turns, CancelLedgers(T), UNCHANGED <<handlers, admission>>
      PROVE  LedgerStep
  BY <1>7, CancelledEntries DEF LedgerStep
<1>8. ASSUME NEW t \in Turns \cup {None}, NEW c, Capture(c, t) PROVE LedgerStep
  <2> DEFINE T == IF t = None THEN {} ELSE {t}
  <2>1. T \in SUBSET Turns
    OBVIOUS
  <2>2. CancelLedgers(T) /\ UNCHANGED <<handlers, admission>>
    BY <1>8 DEF Capture, owner
  <2> QED BY <1>7, <2>1, <2>2
<1>9. ActiveTurn \in Turns \cup {None}
  <2>1. admission # None => Turn(admission) \in Turns
    BY SubmissionFields DEF TypeOK, Submitted
  <2> QED BY <2>1 DEF ActiveTurn, TypeOK
<1>10. CASE End
  <2>1. CancelLedgers(Turns) /\ UNCHANGED <<handlers, admission>>
    BY <1>10 DEF End, owner
  <2> QED BY <1>7, <2>1
<1>11. CASE CloseSpeech
  BY <1>8, <1>9, <1>11 DEF CloseSpeech
<1>12. ASSUME NEW t \in Dropped, CancelSpeechTurn(t) PROVE LedgerStep
  <2>1. t \in Turns
    BY NameAssumption
  <2>2. CASE Capture(t, t)
    BY <1>8, <2>1, <2>2
  <2>3. CASE ~OwnsSpeech(t)
    <3>1. CancelLedgers({t}) /\ UNCHANGED <<handlers, admission>>
      BY <1>12, <2>3 DEF CancelSpeechTurn, owner
    <3> QED BY <1>7, <2>1, <3>1
  <2> QED BY <1>12, <2>2, <2>3 DEF CancelSpeechTurn
<1>13. ASSUME NEW i \in Interrupters, Interrupt(i) PROVE LedgerStep
  BY <1>8, <1>9, <1>13 DEF Interrupt
<1>14. ASSUME NEW c \in Cancels, CancelSteps(c) PROVE LedgerStep
  BY <1>14 DEF CancelSteps, StopSpeech, FinishCancel, LedgerStep
<1> QED BY <1>1, <1>2, <1>3, <1>4, <1>5, <1>6, <1>10, <1>11, <1>12, <1>13, <1>14
       DEF Next, Deliver, LedgerStep
-----------------------------------------------------------------------------
(* Each sort of step keeps the ledger sound *)

LedgerInv ==
    LedgerShape /\ WorkersClaim /\ SingleSpeaker /\ InFlightIsOwned /\ AnswerIsLedgers

\* What a request carries does not change behind its back.
LEMMA SameWork ==
    ASSUME NEW q \in Requests, submission'[q] = submission[q]
    PROVE  /\ Turn(q)' = Turn(q) /\ Ordinal(q)' = Ordinal(q)
           /\ IsMarker(q)' = IsMarker(q)
           /\ Entry(q)' = segment'[Turn(q)][Ordinal(q)]
BY DEF Turn, Ordinal, Kind, IsMarker, Entry

\* The entries of a request that was submitted, and what is known of them.
LEMMA Fields ==
    ASSUME TypeOK, Submitted
    PROVE  /\ \A q \in Requests : pc[q] # "idle" => Turn(q) \in Turns /\ Ordinal(q) \in Ordinals
           /\ Ordinals \subseteq Nat /\ \A t \in Turns : nextOrdinal[t] \in Nat
<1>1. \A q \in Requests : pc[q] # "idle" => Turn(q) \in Turns /\ Ordinal(q) \in Ordinals
  BY SubmissionFields
<1>2. Ordinals \subseteq Nat
  BY BoundAssumption DEF Ordinals
<1>3. \A t \in Turns : nextOrdinal[t] \in Nat
  BY BoundAssumption DEF TypeOK
<1> QED BY <1>1, <1>2, <1>3

\* Whoever is engaged works on the entry its turn expects next.
LEMMA EngagedIsNext ==
    ASSUME TypeOK, Submitted, LedgerInv, NEW q \in Requests, pc[q] \in Engaged
    PROVE  /\ Turn(q) \in Turns /\ Ordinal(q) \in Ordinals
           /\ Ordinal(q) = nextOrdinal[Turn(q)]
           /\ Entry(q).state \in {"in_flight", "cancelled"}
<1>1. pc[q] # "idle"
  BY DEF Engaged, Working, Streaming
<1>2. Turn(q) \in Turns /\ Ordinal(q) \in Ordinals
  BY <1>1, Fields
<1> QED BY <1>2 DEF LedgerInv, LedgerShape, WorkersClaim, Entry

\* Nothing happens to the ledger.
LEMMA IdleKeeps ==
    ASSUME LedgerInv, NEW r \in Requests, Alone(r), UNCHANGED <<book, admission>>,
           pc'[r] \notin Engaged, pc[r] \notin Engaged,
           pc'[r] = "done" /\ told'[r] \in Success =>
               /\ submission'[r] = submission[r]
               /\ Entry(r).state = "committed" /\ Entry(r).reply = told'[r]
    PROVE  LedgerInv'
<1>1. \A q \in Requests \ {r} :
        /\ Turn(q)' = Turn(q) /\ Ordinal(q)' = Ordinal(q) /\ IsMarker(q)' = IsMarker(q)
        /\ Entry(q)' = Entry(q) /\ pc'[q] = pc[q] /\ told'[q] = told[q]
  BY SameWork DEF Alone, book, Entry
<1>2. LedgerShape'
  BY DEF LedgerInv, LedgerShape, book
<1>3. WorkersClaim'
  BY <1>1 DEF LedgerInv, WorkersClaim
<1>4. SingleSpeaker'
  BY <1>1 DEF LedgerInv, SingleSpeaker, Engaged
<1>5. InFlightIsOwned'
  BY <1>1 DEF LedgerInv, InFlightIsOwned, Engaged, book
<1>6. AnswerIsLedgers'
  BY <1>1, SameWork DEF LedgerInv, AnswerIsLedgers, Success, Entry, book
<1> QED BY <1>2, <1>3, <1>4, <1>5, <1>6 DEF LedgerInv

\* A claim: nobody else works on the turn, so the entry and the turn were free.
LEMMA ClaimKeeps ==
    ASSUME TypeOK, Submitted, LedgerInv, NEW r \in Requests, Alone(r), Claims(r)
    PROVE  LedgerInv'
<1>1. /\ Turn(r) \in Turns /\ Ordinal(r) \in Ordinals /\ pc[r] \notin Engaged
      /\ Ordinals \subseteq Nat
  BY Fields DEF Claims, Engaged, Working, Streaming
<1>2. \A q \in Requests \ {r} :
        /\ Turn(q)' = Turn(q) /\ Ordinal(q)' = Ordinal(q) /\ IsMarker(q)' = IsMarker(q)
        /\ Entry(q)' = segment'[Turn(q)][Ordinal(q)]
        /\ pc'[q] = pc[q] /\ told'[q] = told[q]
  BY SameWork DEF Alone
<1>3. /\ Turn(r)' = Turn(r) /\ Ordinal(r)' = Ordinal(r) /\ IsMarker(r)' = IsMarker(r)
      /\ Entry(r)' = EntryAfter(r)
  BY SameWork DEF Claims, EntryAfter
<1>4. /\ Entry(r).state \in {"absent", "reserved"} /\ ledger[Turn(r)] = "active"
      /\ Ordinal(r) = nextOrdinal[Turn(r)]
  BY <1>1 DEF Claims, Claimable, ClaimRefused, LedgerInv, LedgerShape, Entry
<1>5. \A q \in Requests \ {r} : pc[q] \in Engaged => Turn(q) # Turn(r)
  <2> SUFFICES ASSUME NEW q \in Requests \ {r}, pc[q] \in Engaged, Turn(q) = Turn(r)
               PROVE  FALSE
    OBVIOUS
  <2>1. Ordinal(q) = nextOrdinal[Turn(q)] /\ Entry(q).state \in {"in_flight", "cancelled"}
    BY EngagedIsNext
  <2> QED BY <1>4, <2>1 DEF Entry
<1>6. /\ UNCHANGED <<ledger, nextOrdinal>>
      /\ EntryAfter(r).state \in {"in_flight", "reserved"}
      /\ \A t \in Turns, n \in Ordinals :
            ~(t = Turn(r) /\ n = Ordinal(r)) => segment'[t][n] = segment[t][n]
  BY DEF Claims, OwnEntry
<1>7. LedgerShape'
  <2> SUFFICES ASSUME NEW t \in Turns, NEW n \in Ordinals
               PROVE  /\ segment'[t][n].state = "committed" <=> n < nextOrdinal[t]
                      /\ segment'[t][n].state \in {"in_flight", "reserved", "cancelled"}
                            => n = nextOrdinal[t]
                      /\ segment'[t][n].state \in {"in_flight", "reserved"}
                            => ledger[t] = "active"
                      /\ segment'[t][n].state = "cancelled" => ledger[t] # "active"
    BY <1>6 DEF LedgerShape
  <2>1. CASE t = Turn(r) /\ n = Ordinal(r)
    BY <1>1, <1>4, <1>6, <2>1 DEF EntryAfter
  <2>2. CASE ~(t = Turn(r) /\ n = Ordinal(r))
    BY <1>6, <2>2 DEF LedgerInv, LedgerShape
  <2> QED BY <2>1, <2>2
<1>8. \A q \in Requests \ {r} : pc[q] \in Engaged =>
        Turn(q) \in Turns /\ Ordinal(q) \in Ordinals /\ Entry(q)' = Entry(q)
  BY <1>2, <1>5, <1>6, EngagedIsNext DEF Entry
<1>9. pc'[r] \in Engaged => EntryAfter(r).state = "in_flight"
  BY DEF Claims, Engaged, Working, Streaming
<1>10. WorkersClaim'
  <2>1. \A q \in Requests : pc'[q] \in Engaged => Entry(q)'.state \in {"in_flight", "cancelled"}
    BY <1>2, <1>3, <1>8, <1>9 DEF LedgerInv, WorkersClaim
  <2>2. \A p, q \in Requests :
          pc'[p] \in Engaged /\ pc'[q] \in Engaged /\ p # q => Turn(p)' # Turn(q)'
    BY <1>2, <1>3, <1>5 DEF LedgerInv, WorkersClaim
  <2> QED BY <2>1, <2>2 DEF WorkersClaim
<1>11. SingleSpeaker'
  BY <1>2, <1>3, NameAssumption DEF LedgerInv, SingleSpeaker, Claims, Engaged
<1>12. InFlightIsOwned'
  <2> SUFFICES ASSUME NEW t \in Turns, NEW n \in Ordinals, segment'[t][n].state = "in_flight"
               PROVE  \E q \in Requests : /\ pc'[q] \in Engaged
                                          /\ Turn(q)' = t /\ Ordinal(q)' = n
    BY DEF InFlightIsOwned, Engaged
  <2>1. CASE t = Turn(r) /\ n = Ordinal(r)
    <3>1. pc'[r] \in Engaged
      BY <2>1 DEF Claims, EntryAfter, Engaged, Working, Streaming
    <3> QED BY <1>3, <2>1, <3>1
  <2>2. CASE ~(t = Turn(r) /\ n = Ordinal(r))
    <3>1. PICK q \in Requests : pc[q] \in Engaged /\ Turn(q) = t /\ Ordinal(q) = n
      BY <1>6, <2>2 DEF LedgerInv, InFlightIsOwned, Engaged
    <3> QED BY <1>1, <1>2, <3>1
  <2> QED BY <2>1, <2>2
<1>13. AnswerIsLedgers'
  <2> SUFFICES ASSUME NEW q \in Requests, pc'[q] = "done", told'[q] \in Success
               PROVE  Entry(q)'.state = "committed" /\ Entry(q)'.reply = told'[q]
    BY DEF AnswerIsLedgers, Success
  <2>1. q # r
    BY DEF Claims, Success
  <2>2. Turn(q) \in Turns /\ Ordinal(q) \in Ordinals
    BY <1>2, <2>1, Fields
  <2>3. Entry(q).state = "committed" /\ Entry(q).reply = told[q]
    BY <1>2, <2>1 DEF LedgerInv, AnswerIsLedgers, Success
  <2>4. ~(Turn(q) = Turn(r) /\ Ordinal(q) = Ordinal(r))
    BY <1>4, <2>3 DEF Entry
  <2> QED BY <1>2, <1>6, <2>1, <2>2, <2>3, <2>4 DEF Entry
<1> QED BY <1>7, <1>10, <1>11, <1>12, <1>13 DEF LedgerInv

\* A worker goes on.
LEMMA WorkKeeps ==
    ASSUME LedgerInv, NEW r \in Requests, Alone(r), Works(r)
    PROVE  LedgerInv'
<1>1. \A q \in Requests :
        /\ Turn(q)' = Turn(q) /\ Ordinal(q)' = Ordinal(q) /\ IsMarker(q)' = IsMarker(q)
        /\ Entry(q)' = Entry(q)
        /\ pc'[q] \in Engaged <=> pc[q] \in Engaged
        /\ q # r => pc'[q] = pc[q] /\ told'[q] = told[q]
  BY SameWork DEF Alone, Works, book, Entry
<1>2. pc'[r] # "done" /\ UNCHANGED <<book, admission>>
  BY DEF Works, Engaged, Working, Streaming
<1>3. LedgerShape'
  BY <1>2 DEF LedgerInv, LedgerShape, book
<1>4. WorkersClaim'
  BY <1>1 DEF LedgerInv, WorkersClaim
<1>5. SingleSpeaker'
  BY <1>1, <1>2 DEF LedgerInv, SingleSpeaker, Engaged
<1>6. InFlightIsOwned'
  BY <1>1, <1>2 DEF LedgerInv, InFlightIsOwned, Engaged, book
<1>7. AnswerIsLedgers'
  BY <1>1, <1>2 DEF LedgerInv, AnswerIsLedgers
<1> QED BY <1>3, <1>4, <1>5, <1>6, <1>7 DEF LedgerInv

\* A worker ends and only its own entry changes; what holds of the others.
LEMMA OthersKeep ==
    ASSUME TypeOK, Submitted, LedgerInv, NEW r \in Requests, Alone(r), OwnEntry(r),
           pc[r] \in Engaged, pc'[r] = "done", submission'[r] = submission[r], GivesBack(r)
    PROVE  /\ WorkersClaim' /\ SingleSpeaker'
           /\ EntryAfter(r).state # "in_flight" => InFlightIsOwned'
           /\ (told'[r] \in Success =>
                 EntryAfter(r).state = "committed" /\ EntryAfter(r).reply = told'[r])
              => AnswerIsLedgers'
<1>1. /\ Turn(r) \in Turns /\ Ordinal(r) \in Ordinals
      /\ Entry(r).state \in {"in_flight", "cancelled"}
  BY EngagedIsNext
<1>2. \A q \in Requests \ {r} :
        /\ Turn(q)' = Turn(q) /\ Ordinal(q)' = Ordinal(q) /\ IsMarker(q)' = IsMarker(q)
        /\ Entry(q)' = segment'[Turn(q)][Ordinal(q)]
        /\ pc'[q] = pc[q] /\ told'[q] = told[q]
  BY SameWork DEF Alone
<1>3. pc'[r] \notin Engaged /\ Entry(r)' = EntryAfter(r)
  BY SameWork DEF Engaged, Working, Streaming, EntryAfter
<1>4. \A q \in Requests \ {r} : pc[q] \in Engaged => Entry(q)' = Entry(q)
  <2> SUFFICES ASSUME NEW q \in Requests \ {r}, pc[q] \in Engaged PROVE Entry(q)' = Entry(q)
    OBVIOUS
  <2>1. Turn(q) \in Turns /\ Ordinal(q) \in Ordinals
    BY EngagedIsNext
  <2>2. Turn(q) # Turn(r)
    BY DEF LedgerInv, WorkersClaim
  <2> QED BY <1>2, <2>1, <2>2 DEF OwnEntry, Entry
<1>5. WorkersClaim'
  BY <1>2, <1>3, <1>4 DEF LedgerInv, WorkersClaim
<1>6. SingleSpeaker'
  BY <1>2, <1>3 DEF LedgerInv, SingleSpeaker, GivesBack, Engaged
<1>7. ASSUME EntryAfter(r).state # "in_flight" PROVE InFlightIsOwned'
  <2> SUFFICES ASSUME NEW t \in Turns, NEW n \in Ordinals, segment'[t][n].state = "in_flight"
               PROVE  \E q \in Requests : /\ pc'[q] \in Engaged
                                          /\ Turn(q)' = t /\ Ordinal(q)' = n
    BY DEF InFlightIsOwned, Engaged
  <2>1. ~(t = Turn(r) /\ n = Ordinal(r))
    BY <1>7 DEF EntryAfter
  <2>2. PICK q \in Requests : pc[q] \in Engaged /\ Turn(q) = t /\ Ordinal(q) = n
    BY <2>1 DEF LedgerInv, InFlightIsOwned, Engaged, OwnEntry
  <2> QED BY <1>2, <2>1, <2>2
<1>8. ASSUME told'[r] \in Success =>
               EntryAfter(r).state = "committed" /\ EntryAfter(r).reply = told'[r]
      PROVE  AnswerIsLedgers'
  <2> SUFFICES ASSUME NEW q \in Requests, pc'[q] = "done", told'[q] \in Success
               PROVE  Entry(q)'.state = "committed" /\ Entry(q)'.reply = told'[q]
    BY DEF AnswerIsLedgers, Success
  <2>1. CASE q = r
    BY <1>3, <1>8, <2>1
  <2>2. CASE q # r
    <3>1. Turn(q) \in Turns /\ Ordinal(q) \in Ordinals
      BY <1>2, <2>2, Fields
    <3>2. Entry(q).state = "committed" /\ Entry(q).reply = told[q]
      BY <1>2, <2>2 DEF LedgerInv, AnswerIsLedgers, Success
    <3>3. ~(Turn(q) = Turn(r) /\ Ordinal(q) = Ordinal(r))
      BY <1>1, <3>2 DEF Entry
    <3> QED BY <1>2, <2>2, <3>1, <3>2, <3>3 DEF Entry, OwnEntry
  <2> QED BY <2>1, <2>2
<1> QED BY <1>5, <1>6, <1>7, <1>8

\* A released claim can be taken again.
LEMMA ReleaseKeeps ==
    ASSUME TypeOK, Submitted, LedgerInv, NEW r \in Requests, Alone(r), Releases(r)
    PROVE  LedgerInv'
<1>1. /\ Turn(r) \in Turns /\ Ordinal(r) \in Ordinals
      /\ Ordinal(r) = nextOrdinal[Turn(r)]
      /\ Entry(r).state \in {"in_flight", "cancelled"}
      /\ Ordinals \subseteq Nat
  BY EngagedIsNext, Fields DEF Releases
<1>2. Entry(r).state = "in_flight" => ledger[Turn(r)] = "active"
  BY <1>1 DEF LedgerInv, LedgerShape, Entry
<1>3. \/ EntryAfter(r).state = "reserved" /\ ledger[Turn(r)] = "active"
      \/ EntryAfter(r).state = "cancelled" /\ ledger[Turn(r)] # "active"
  BY <1>1, <1>2 DEF Releases, LedgerInv, LedgerShape, Entry
<1>4. LedgerShape'
  <2> SUFFICES ASSUME NEW t \in Turns, NEW n \in Ordinals
               PROVE  /\ segment'[t][n].state = "committed" <=> n < nextOrdinal[t]
                      /\ segment'[t][n].state \in {"in_flight", "reserved", "cancelled"}
                            => n = nextOrdinal[t]
                      /\ segment'[t][n].state \in {"in_flight", "reserved"}
                            => ledger[t] = "active"
                      /\ segment'[t][n].state = "cancelled" => ledger[t] # "active"
    BY DEF LedgerShape, Releases
  <2>1. CASE t = Turn(r) /\ n = Ordinal(r)
    BY <1>1, <1>3, <2>1 DEF EntryAfter
  <2>2. CASE ~(t = Turn(r) /\ n = Ordinal(r))
    BY <2>2 DEF LedgerInv, LedgerShape, Releases, OwnEntry
  <2> QED BY <2>1, <2>2
<1> QED BY <1>3, <1>4, OthersKeep DEF Releases, LedgerInv

\* A commit continues the prefix.
LEMMA CommitKeeps ==
    ASSUME TypeOK, Submitted, LedgerInv, NEW r \in Requests, Alone(r), Commits(r)
    PROVE  LedgerInv'
<1>1. /\ Turn(r) \in Turns /\ Ordinal(r) \in Ordinals
      /\ Ordinal(r) = nextOrdinal[Turn(r)]
      /\ Ordinals \subseteq Nat
  BY EngagedIsNext, Fields DEF Commits
<1>2. LedgerShape'
  <2> SUFFICES ASSUME NEW t \in Turns, NEW n \in Ordinals
               PROVE  /\ segment'[t][n].state = "committed" <=> n < nextOrdinal'[t]
                      /\ segment'[t][n].state \in {"in_flight", "reserved", "cancelled"}
                            => n = nextOrdinal'[t]
                      /\ segment'[t][n].state \in {"in_flight", "reserved"}
                            => ledger'[t] = "active"
                      /\ segment'[t][n].state = "cancelled" => ledger'[t] # "active"
    BY DEF LedgerShape
  <2>1. CASE t = Turn(r) /\ n = Ordinal(r)
    BY <1>1, <2>1 DEF EntryAfter, Commits
  <2>2. CASE t = Turn(r) /\ n # Ordinal(r)
    <3>1. /\ segment'[t][n] = segment[t][n] /\ nextOrdinal'[t] = nextOrdinal[t] + 1
          /\ n # nextOrdinal[t]
      BY <1>1, <2>2 DEF Commits, OwnEntry
    <3>2. /\ segment[t][n].state = "committed" <=> n < nextOrdinal[t]
          /\ segment[t][n].state \notin {"in_flight", "reserved", "cancelled"}
      BY <3>1 DEF LedgerInv, LedgerShape
    <3>3. n < nextOrdinal[t] <=> n < nextOrdinal[t] + 1
      BY <1>1, <2>2, <3>1
    <3> QED BY <3>1, <3>2, <3>3
  <2>3. CASE t # Turn(r)
    BY <2>3 DEF LedgerInv, LedgerShape, Commits, OwnEntry
  <2> QED BY <2>1, <2>2, <2>3
<1> QED BY <1>2, OthersKeep DEF Commits, LedgerInv

\* A cancellation leaves no attempt in flight in the turns it reaches.
LEMMA DropShape ==
    ASSUME TypeOK, LedgerInv, NEW T, Drops(T)
    PROVE  /\ LedgerShape'
           /\ \A t \in Turns, n \in Ordinals :
                 /\ segment[t][n].state \in {"committed", "absent"}
                       => segment'[t][n] = segment[t][n]
                 /\ segment[t][n].state \in {"in_flight", "cancelled"}
                       => segment'[t][n].state \in {"in_flight", "cancelled"}
                 /\ segment'[t][n].state = "in_flight"
                       => t \notin T /\ segment[t][n].state = "in_flight"
<1>1. \A t \in Turns, n \in Ordinals :
        /\ segment[t][n].state = "committed" <=> n < nextOrdinal[t]
        /\ segment[t][n].state \in {"in_flight", "reserved", "cancelled"}
              => n = nextOrdinal[t]
        /\ segment[t][n].state \in {"in_flight", "reserved"} => ledger[t] = "active"
        /\ segment[t][n].state = "cancelled" => ledger[t] # "active"
  BY DEF LedgerInv, LedgerShape
<1>2. \A t \in Turns : t \in T => ledger'[t] # "active"
  BY DEF Drops
<1>3. SUFFICES ASSUME NEW t \in Turns, NEW n \in Ordinals
               PROVE  /\ segment'[t][n].state = "committed" <=> n < nextOrdinal'[t]
                      /\ segment'[t][n].state \in {"in_flight", "reserved", "cancelled"}
                            => n = nextOrdinal'[t]
                      /\ segment'[t][n].state \in {"in_flight", "reserved"}
                            => ledger'[t] = "active"
                      /\ segment'[t][n].state = "cancelled" => ledger'[t] # "active"
                      /\ segment[t][n].state \in {"committed", "absent"}
                            => segment'[t][n] = segment[t][n]
                      /\ segment[t][n].state \in {"in_flight", "cancelled"}
                            => segment'[t][n].state \in {"in_flight", "cancelled"}
                      /\ segment'[t][n].state = "in_flight"
                            => t \notin T /\ segment[t][n].state = "in_flight"
  BY DEF LedgerShape
<1>4. CASE t \in T /\ ledger[t] # "completed"
  <2>1. nextOrdinal'[t] = nextOrdinal[t] /\ ledger'[t] = "cancelled"
    BY <1>4 DEF Drops
  <2>2. CASE segment[t][n].state \in {"absent", "committed"}
    BY <1>1, <1>4, <2>1, <2>2 DEF Drops
  <2>3. CASE segment[t][n].state \notin {"absent", "committed"}
    <3>1. segment'[t][n].state = "cancelled"
      BY <1>4, <2>3 DEF Drops
    <3>2. segment[t][n].state \in {"in_flight", "reserved", "cancelled"}
      BY <2>3 DEF TypeOK, Segments
    <3> QED BY <1>1, <2>1, <2>3, <3>1, <3>2
  <2> QED BY <2>2, <2>3
<1>5. CASE ~(t \in T /\ ledger[t] # "completed")
  <2>1. /\ segment'[t][n] = segment[t][n] /\ nextOrdinal'[t] = nextOrdinal[t]
        /\ ledger'[t] = ledger[t]
    BY <1>5 DEF Drops
  <2> QED BY <1>1, <1>5, <2>1
<1> QED BY <1>4, <1>5

\* The turns of T are cancelled while nobody moves.
LEMMA DropKeeps ==
    ASSUME TypeOK, Submitted, LedgerInv, NEW T \in SUBSET Turns, Drops(T),
           UNCHANGED <<handlers, admission>>
    PROVE  LedgerInv'
<1>1. \A q \in Requests :
        /\ Turn(q)' = Turn(q) /\ Ordinal(q)' = Ordinal(q) /\ IsMarker(q)' = IsMarker(q)
        /\ Entry(q)' = segment'[Turn(q)][Ordinal(q)]
        /\ pc'[q] = pc[q] /\ told'[q] = told[q]
  BY SameWork DEF handlers
<1>2. \A q \in Requests : pc[q] # "idle" => Turn(q) \in Turns /\ Ordinal(q) \in Ordinals
  BY Fields
<1>3. WorkersClaim'
  BY <1>1, <1>2, DropShape DEF LedgerInv, WorkersClaim, Entry, Engaged, Working, Streaming
<1>4. SingleSpeaker'
  BY <1>1 DEF LedgerInv, SingleSpeaker
<1>5. InFlightIsOwned'
  <2> SUFFICES ASSUME NEW t \in Turns, NEW n \in Ordinals, segment'[t][n].state = "in_flight"
               PROVE  \E q \in Requests : /\ pc'[q] \in Engaged
                                          /\ Turn(q)' = t /\ Ordinal(q)' = n
    BY DEF InFlightIsOwned, Engaged
  <2>1. segment[t][n].state = "in_flight"
    BY DropShape
  <2>2. PICK q \in Requests : pc[q] \in Engaged /\ Turn(q) = t /\ Ordinal(q) = n
    BY <2>1 DEF LedgerInv, InFlightIsOwned, Engaged
  <2> QED BY <1>1, <2>2
<1>6. AnswerIsLedgers'
  BY <1>1, <1>2, DropShape DEF LedgerInv, AnswerIsLedgers, Entry
<1> QED BY <1>3, <1>4, <1>5, <1>6, DropShape DEF LedgerInv

\* A worker ends and its turn is cancelled.
LEMMA AbortKeeps ==
    ASSUME TypeOK, Submitted, LedgerInv, NEW r \in Requests, Alone(r), Aborts(r)
    PROVE  LedgerInv'
<1>1. \A q \in Requests :
        /\ Turn(q)' = Turn(q) /\ Ordinal(q)' = Ordinal(q) /\ IsMarker(q)' = IsMarker(q)
        /\ Entry(q)' = segment'[Turn(q)][Ordinal(q)]
        /\ q # r => pc'[q] = pc[q] /\ told'[q] = told[q]
  BY SameWork DEF Alone, Aborts
<1>2. \A q \in Requests : pc[q] # "idle" => Turn(q) \in Turns /\ Ordinal(q) \in Ordinals
  BY Fields
<1>3. /\ pc'[r] \notin Engaged /\ told'[r] \notin Success /\ Drops({Turn(r)})
      /\ GivesBack(r)
  BY DEF Aborts, Engaged, Working, Streaming
<1>4. /\ LedgerShape'
      /\ \A t \in Turns, n \in Ordinals :
            /\ segment[t][n].state \in {"committed", "absent"} => segment'[t][n] = segment[t][n]
            /\ segment[t][n].state \in {"in_flight", "cancelled"}
                  => segment'[t][n].state \in {"in_flight", "cancelled"}
            /\ segment'[t][n].state = "in_flight"
                  => t # Turn(r) /\ segment[t][n].state = "in_flight"
  BY <1>3, DropShape
<1>5. WorkersClaim'
  <2>1. \A q \in Requests : pc'[q] \in Engaged => q # r /\ pc[q] \in Engaged /\ pc[q] # "idle"
    BY <1>1, <1>3 DEF Engaged, Working, Streaming
  <2>2. \A q \in Requests : pc'[q] \in Engaged => Entry(q)'.state \in {"in_flight", "cancelled"}
    BY <1>1, <1>2, <1>4, <2>1 DEF LedgerInv, WorkersClaim, Entry
  <2>3. \A p, q \in Requests :
          pc'[p] \in Engaged /\ pc'[q] \in Engaged /\ p # q => Turn(p)' # Turn(q)'
    BY <1>1, <2>1 DEF LedgerInv, WorkersClaim
  <2> QED BY <2>2, <2>3 DEF WorkersClaim
<1>6. SingleSpeaker'
  BY <1>1, <1>3 DEF LedgerInv, SingleSpeaker, GivesBack, Engaged
<1>7. InFlightIsOwned'
  <2> SUFFICES ASSUME NEW t \in Turns, NEW n \in Ordinals, segment'[t][n].state = "in_flight"
               PROVE  \E q \in Requests : /\ pc'[q] \in Engaged
                                          /\ Turn(q)' = t /\ Ordinal(q)' = n
    BY DEF InFlightIsOwned, Engaged
  <2>1. segment[t][n].state = "in_flight" /\ t # Turn(r)
    BY <1>4
  <2>2. PICK q \in Requests : pc[q] \in Engaged /\ Turn(q) = t /\ Ordinal(q) = n
    BY <2>1 DEF LedgerInv, InFlightIsOwned, Engaged
  <2> QED BY <1>1, <2>1, <2>2
<1>8. AnswerIsLedgers'
  <2> SUFFICES ASSUME NEW q \in Requests, pc'[q] = "done", told'[q] \in Success
               PROVE  Entry(q)'.state = "committed" /\ Entry(q)'.reply = told'[q]
    BY DEF AnswerIsLedgers, Success
  <2>1. q # r
    BY <1>3
  <2>2. Turn(q) \in Turns /\ Ordinal(q) \in Ordinals
    BY <1>1, <1>2, <2>1
  <2>3. Entry(q).state = "committed" /\ Entry(q).reply = told[q]
    BY <1>1, <2>1 DEF LedgerInv, AnswerIsLedgers, Success
  <2> QED BY <1>1, <1>4, <2>1, <2>2, <2>3 DEF Entry
<1> QED BY <1>4, <1>5, <1>6, <1>7, <1>8 DEF LedgerInv

\* Every sorted step keeps the ledger sound.
LEMMA LedgerStepKeeps ==
    ASSUME TypeOK, Submitted, LedgerInv, LedgerStep
    PROVE  LedgerInv'
<1>1. ASSUME NEW r \in Requests, RequestSort(r) PROVE LedgerInv'
  <2>1. CASE Enters(r) \/ Outs(r)
    <3>1. /\ Alone(r) /\ UNCHANGED <<book, admission>> /\ pc[r] \in {"idle", "waiting"}
          /\ pc'[r] \in {"waiting", "done"}
      BY <1>1, <2>1 DEF RequestSort, Enters, Outs
    <3>2. pc'[r] \notin Engaged /\ pc[r] \notin Engaged
      BY <3>1 DEF Engaged, Working, Streaming
    <3>3. pc'[r] = "done" /\ told'[r] \in Success =>
            /\ submission'[r] = submission[r]
            /\ Entry(r).state = "committed" /\ Entry(r).reply = told'[r]
      BY <2>1 DEF Enters, Outs
    <3> QED BY <3>1, <3>2, <3>3, IdleKeeps
  <2>2. CASE Claims(r)
    BY <1>1, <2>2, ClaimKeeps DEF RequestSort
  <2>3. CASE Works(r)
    BY <1>1, <2>3, WorkKeeps DEF RequestSort
  <2>4. CASE Releases(r)
    BY <1>1, <2>4, ReleaseKeeps DEF RequestSort
  <2>5. CASE Commits(r)
    BY <1>1, <2>5, CommitKeeps DEF RequestSort
  <2>6. CASE Aborts(r)
    BY <1>1, <2>6, AbortKeeps DEF RequestSort
  <2> QED BY <1>1, <2>1, <2>2, <2>3, <2>4, <2>5, <2>6 DEF RequestSort
<1>2. CASE UNCHANGED <<book, handlers, admission>>
  <2>1. \A q \in Requests : /\ Turn(q)' = Turn(q) /\ Ordinal(q)' = Ordinal(q)
                            /\ IsMarker(q)' = IsMarker(q) /\ Entry(q)' = Entry(q)
    BY <1>2, SameWork DEF handlers, book, Entry
  <2>2. UNCHANGED <<ledger, nextOrdinal, segment, pc, told, admission>>
    BY <1>2 DEF handlers, book
  <2>3. LedgerShape' /\ SingleSpeaker'
    BY <2>1, <2>2 DEF LedgerInv, LedgerShape, SingleSpeaker
  <2>4. WorkersClaim' /\ AnswerIsLedgers'
    BY <2>1, <2>2 DEF LedgerInv, WorkersClaim, AnswerIsLedgers
  <2>5. InFlightIsOwned'
    BY <2>1, <2>2 DEF LedgerInv, InFlightIsOwned
  <2> QED BY <2>3, <2>4, <2>5 DEF LedgerInv
<1> QED BY <1>1, <1>2, DropKeeps DEF LedgerStep

-----------------------------------------------------------------------------
(* The cancellations and the outbox *)

\* A speak request adds its own turn to the cancelled ones and itself to the outbox.
LEMMA SpeakMarks ==
    ASSUME NEW r \in Requests, Speak(r)
    PROVE  /\ UNCHANGED <<controls, cancelling>> /\ cancelled \subseteq cancelled'
           /\ outbox' = outbox \/ (pc[r] = "playout" /\ outbox' = Append(outbox, r))
<1>1. CASE Refused(r) \/ Replay(r) \/ Admit(r) \/ ClaimMarker(r)
  BY <1>1 DEF Refused, Replay, Admit, ClaimMarker, marks, session
<1>2. CASE TakeChunk(r) \/ StartupTimeout(r) \/ TakeEnd(r)
  BY <1>2 DEF TakeChunk, StartupTimeout, TakeEnd, marks, session
<1>3. CASE TakeError(r) \/ Join(r) \/ JoinEmpty(r)
  BY <1>3 DEF TakeError, Join, JoinEmpty, marks, session
<1>4. CASE PlayoutEnds(r) \/ SettleFinal(r)
  BY <1>4 DEF PlayoutEnds, SettleFinal, marks, session
<1>5. CASE Unwind(r) \/ Unwound(r)
  BY <1>5 DEF Unwind, Unwound, marks, session
<1> QED BY <1>1, <1>2, <1>3, <1>4, <1>5 DEF Speak

\* A cancellation: it marks what it captured, and keeps the mark until it is a fact.
Captures(c) ==
    /\ ctl' = [ctl EXCEPT ![c] = "stopping"]
    /\ \E t \in Turns \cup {None} :
          /\ captured' = [captured EXCEPT ![c] = CapturedCancellation(t)]
          /\ t # None => Cancelled(t)'

Advances(c) ==
    /\ \E p \in {"capture", "done"} : ctl' = [ctl EXCEPT ![c] = p]
    /\ captured' = captured

Stops(c) ==
    /\ ctl[c] = "stopping" /\ ctl' = [ctl EXCEPT ![c] = "acking"] /\ captured' = captured

Finishes(c) ==
    /\ ctl' = [ctl EXCEPT ![c] = "done"] /\ captured' = [captured EXCEPT ![c] = NoCapture]

ControlSort ==
    /\ \A t \in Turns : Cancelled(t) => Cancelled(t)'
    /\ \/ UNCHANGED controls
       \/ \E c \in Cancels : Captures(c) \/ Advances(c) \/ Stops(c) \/ Finishes(c)

\* Capturing is one of them.
LEMMA CaptureIsSorted ==
    ASSUME TypeOK, NEW c \in Cancels, NEW t \in Turns \cup {None}, Capture(c, t)
    PROVE  ControlSort /\ outbox' = outbox
<1> DEFINE T == IF t = None THEN {} ELSE {t}
<1>1. /\ captured' = [captured EXCEPT ![c] = CapturedCancellation(t)]
      /\ cancelling' = cancelling \cup T /\ cancelled' = cancelled
      /\ ctl' = [ctl EXCEPT ![c] = "stopping"] /\ outbox' = outbox
  BY DEF Capture, session
<1>2. t # None => Cancelled(t)'
  BY <1>1 DEF Cancelled
<1>3. \A u \in Turns : Cancelled(u) => Cancelled(u)'
  BY <1>1 DEF Cancelled
<1> QED BY <1>1, <1>2, <1>3 DEF ControlSort, Captures

\* The active turn is a turn.
LEMMA ActiveTurnType ==
    ASSUME TypeOK, Submitted PROVE ActiveTurn \in Turns \cup {None}
<1>1. admission # None => Turn(admission) \in Turns
  BY SubmissionFields DEF TypeOK, Submitted
<1> QED BY <1>1 DEF ActiveTurn, TypeOK

\* What a step does to the cancellations and to the outbox.
LEMMA EveryStepIsControlled ==
    ASSUME TypeOK, Submitted, [Next]_vars
    PROVE  /\ ControlSort
           /\ \/ outbox' = outbox
              \/ outbox # <<>> /\ outbox' = Tail(outbox)
              \/ outbox' = Append(outbox, "terminal")
              \/ \E r \in Requests : pc[r] = "playout" /\ outbox' = Append(outbox, r)
<1> DEFINE Goal == /\ ControlSort
                   /\ \/ outbox' = outbox
                      \/ outbox # <<>> /\ outbox' = Tail(outbox)
                      \/ outbox' = Append(outbox, "terminal")
                      \/ \E r \in Requests : pc[r] = "playout" /\ outbox' = Append(outbox, r)
<1>1. CASE UNCHANGED vars
  BY <1>1 DEF vars, controls, marks, session, ControlSort, Cancelled
<1>2. ASSUME NEW r \in Requests, NEW s \in Submissions[r], Submit(r, s) PROVE Goal
  BY <1>2 DEF Submit, marks, session, ControlSort, Cancelled
<1>3. ASSUME NEW r \in Requests, Speak(r) PROVE Goal
  BY <1>3, SpeakMarks DEF ControlSort, Cancelled
<1>4. ASSUME NEW r \in Requests, Produce(r) \/ ProducerEnds(r) PROVE Goal
  BY <1>4 DEF Produce, ProducerEnds, marks, session, ControlSort, Cancelled
<1>5. CASE TrackPlays \/ Deliver
  BY <1>5 DEF TrackPlays, Deliver, DeliverTerminal, DeliverDone, marks, session, ControlSort,
              Cancelled
<1>6. CASE End
  <2>1. /\ ctl' = [ctl EXCEPT ![Closer] = IF ActiveTurn # None THEN "capture" ELSE "done"]
        /\ UNCHANGED <<marks, captured>> /\ outbox' = Append(outbox, "terminal")
    BY <1>6 DEF End
  <2>2. Closer \in Cancels
    BY DEF Cancels
  <2>3. Advances(Closer)
    BY <2>1 DEF Advances
  <2> QED BY <2>1, <2>2, <2>3 DEF ControlSort, Cancelled, marks
<1>7. CASE CloseSpeech
  <2>1. Closer \in Cancels /\ Capture(Closer, ActiveTurn)
    BY <1>7 DEF CloseSpeech, Cancels
  <2> QED BY <2>1, CaptureIsSorted, ActiveTurnType
<1>8. ASSUME NEW t \in Dropped, CancelSpeechTurn(t) PROVE Goal
  <2>1. t \in Turns /\ t \in Cancels
    BY NameAssumption DEF Cancels
  <2>2. CASE Capture(t, t)
    BY <2>1, <2>2, CaptureIsSorted
  <2>3. CASE ~OwnsSpeech(t)
    <3>1. /\ ctl' = [ctl EXCEPT ![t] = "done"] /\ UNCHANGED <<marks, captured, outbox>>
      BY <1>8, <2>3 DEF CancelSpeechTurn, session
    <3> QED BY <2>1, <3>1 DEF ControlSort, Advances, Cancelled, marks
  <2> QED BY <1>8, <2>2, <2>3 DEF CancelSpeechTurn
<1>9. ASSUME NEW i \in Interrupters, Interrupt(i) PROVE Goal
  <2>1. i \in Cancels /\ Capture(i, ActiveTurn)
    BY <1>9 DEF Interrupt, Cancels
  <2> QED BY <2>1, CaptureIsSorted, ActiveTurnType
<1>10. ASSUME NEW c \in Cancels, StopSpeech(c) PROVE Goal
  <2>1. /\ ctl[c] = "stopping" /\ ctl' = [ctl EXCEPT ![c] = "acking"]
        /\ UNCHANGED <<captured, cancelled, cancelling, outbox>>
    BY <1>10 DEF StopSpeech, marks, session
  <2> QED BY <2>1 DEF ControlSort, Stops, Cancelled
<1>11. ASSUME NEW c \in Cancels, FinishCancel(c) PROVE Goal
  <2>1. /\ cancelled' = IF captured[c].turn = None THEN cancelled
                        ELSE cancelled \cup {captured[c].turn}
        /\ cancelling' = cancelling \ {captured[c].turn}
        /\ outbox' = outbox /\ Finishes(c)
    BY <1>11 DEF FinishCancel, session, Finishes
  <2>2. \A t \in Turns : Cancelled(t) => Cancelled(t)'
    BY <2>1, NameAssumption DEF Cancelled
  <2> QED BY <2>1, <2>2 DEF ControlSort
<1> QED BY <1>1, <1>2, <1>3, <1>4, <1>5, <1>6, <1>7, <1>8, <1>9, <1>10, <1>11
       DEF Next, CancelSteps

-----------------------------------------------------------------------------
(* What is remembered was submitted, and what was captured is marked *)

\* A submitted request stays submitted.
LEMMA HandlersProgress ==
    ASSUME TypeOK, Submitted, LedgerStep
    PROVE  /\ \A q \in Requests : /\ pc[q] # "idle" => pc'[q] # "idle"
                                  /\ pc'[q] # "idle" => submission'[q] # None
                                  /\ pc'[q] = "settling" => told'[q] \in {"ai_done", "discarded"}
           /\ admission' # None => admission' \in Requests /\ pc'[admission'] # "idle"
<1>1. ASSUME NEW r \in Requests, RequestSort(r)
      PROVE  /\ \A q \in Requests :
                   /\ pc[q] # "idle" => pc'[q] # "idle"
                   /\ pc'[q] # "idle" => submission'[q] # None
                   /\ pc'[q] = "settling" => told'[q] \in {"ai_done", "discarded"}
             /\ admission' # None => admission' \in Requests /\ pc'[admission'] # "idle"
  <2>1. \A q \in Requests \ {r} :
          /\ pc[q] # "idle" => pc'[q] # "idle"
          /\ pc'[q] # "idle" => submission'[q] # None
          /\ pc'[q] = "settling" => told'[q] \in {"ai_done", "discarded"}
    BY <1>1 DEF RequestSort, Alone, Submitted
  <2>2. /\ pc'[r] # "idle"
        /\ pc'[r] = "settling" => told'[r] \in {"ai_done", "discarded"}
    BY <1>1 DEF RequestSort, Enters, Outs, Claims, Works, Releases, Commits, Aborts, Engaged,
                Working, Streaming, Submitted
  <2>3. submission'[r] # None
    <3>1. CASE Enters(r)
      BY <3>1, NameAssumption DEF Enters
    <3>2. CASE submission'[r] = submission[r] /\ pc[r] # "idle"
      BY <3>2 DEF Submitted
    <3> QED BY <1>1, <3>1, <3>2 DEF RequestSort, Outs, Claims, Works, Releases, Commits, Aborts,
                Engaged, Working, Streaming
  <2>4. admission' \in {admission, None, r}
    BY <1>1 DEF RequestSort, Enters, Outs, Claims, Works, Releases, Commits, Aborts, GivesBack
  <2>5. admission # None => admission \in Requests /\ pc[admission] # "idle"
    BY DEF TypeOK, Submitted
  <2> QED BY <2>1, <2>2, <2>3, <2>4, <2>5
<1>2. CASE UNCHANGED <<handlers, admission>>
  BY <1>2 DEF handlers, Submitted, TypeOK
<1> QED BY <1>1, <1>2 DEF LedgerStep

\* An element of a queue was appended now or was there before.
LEMMA QueueElements ==
    ASSUME NEW S, NEW s \in Seq(S), NEW t, NEW e \in S,
           t = s \/ (s # <<>> /\ t = Tail(s)) \/ t = Append(s, e)
    PROVE  /\ t \in Seq(S)
           /\ \A i \in DOMAIN t : t[i] = e \/ \E j \in DOMAIN s : t[i] = s[j]
<1>1. CASE t = s
  BY <1>1
<1>2. CASE s # <<>> /\ t = Tail(s)
  <2>1. Len(s) \in Nat /\ DOMAIN s = 1..Len(s)
    BY LenProperties
  <2>2. /\ t \in Seq(S) /\ Len(t) = Len(s) - 1
        /\ \A i \in 1..Len(t) : t[i] = s[i + 1]
    BY <1>2, HeadTailProperties
  <2>3. DOMAIN t = 1..Len(t)
    BY <2>2, LenProperties
  <2> DEFINE m == Len(s)
             k == Len(t)
  <2>4. /\ m \in Nat /\ k = m - 1 /\ DOMAIN s = 1..m /\ DOMAIN t = 1..k
        /\ \A i \in 1..k : t[i] = s[i + 1]
    BY <2>1, <2>2, <2>3
  <2> HIDE DEF m, k
  <2>5. \A i \in 1..k : i + 1 \in 1..m
    BY <2>4
  <2> QED BY <2>2, <2>4, <2>5
<1>3. CASE t = Append(s, e)
  <2>1. Len(s) \in Nat /\ DOMAIN s = 1..Len(s)
    BY LenProperties
  <2>2. /\ t \in Seq(S) /\ Len(t) = Len(s) + 1 /\ t[Len(s) + 1] = e
        /\ \A i \in 1..Len(s) : t[i] = s[i]
    BY <1>3, AppendProperties
  <2>3. DOMAIN t = 1..Len(t)
    BY <2>2, LenProperties
  <2> DEFINE m == Len(s)
             k == Len(t)
  <2>4. /\ m \in Nat /\ k = m + 1 /\ DOMAIN s = 1..m /\ DOMAIN t = 1..k /\ t[k] = e
        /\ \A i \in 1..m : t[i] = s[i]
    BY <2>1, <2>2, <2>3
  <2> HIDE DEF m, k
  <2>5. \A i \in 1..k : i = k \/ i \in 1..m
    BY <2>4
  <2> QED BY <2>2, <2>4, <2>5
<1> QED BY <1>1, <1>2, <1>3

\* The outbox holds requests that were submitted.
LEMMA OutboxProgress ==
    ASSUME TypeOK, Submitted, [Next]_vars
    PROVE  /\ outbox' \in Seq(Requests \cup {"terminal"})
           /\ \A i \in DOMAIN outbox' : outbox'[i] # "terminal" => pc'[outbox'[i]] # "idle"
<1>1. /\ outbox \in Seq(Requests \cup {"terminal"})
      /\ \A i \in DOMAIN outbox : outbox[i] # "terminal" => pc[outbox[i]] # "idle"
  BY DEF TypeOK, Submitted
<1>2. \A i \in DOMAIN outbox : outbox[i] \in Requests \cup {"terminal"}
  BY <1>1
<1>3. \A q \in Requests : pc[q] # "idle" => pc'[q] # "idle"
  BY EveryStepIsSorted, HandlersProgress
<1>4. PICK e \in Requests \cup {"terminal"} :
        /\ outbox' = outbox \/ (outbox # <<>> /\ outbox' = Tail(outbox))
           \/ outbox' = Append(outbox, e)
        /\ e # "terminal" => pc[e] # "idle"
  <2>1. \/ outbox' = outbox
        \/ outbox # <<>> /\ outbox' = Tail(outbox)
        \/ outbox' = Append(outbox, "terminal")
        \/ \E r \in Requests : pc[r] = "playout" /\ outbox' = Append(outbox, r)
    BY EveryStepIsControlled
  <2>2. CASE \E r \in Requests : pc[r] = "playout" /\ outbox' = Append(outbox, r)
    BY <2>2
  <2>3. CASE ~\E r \in Requests : pc[r] = "playout" /\ outbox' = Append(outbox, r)
    <3> WITNESS "terminal" \in Requests \cup {"terminal"}
    <3> QED BY <2>1, <2>3
  <2> QED BY <2>2, <2>3
<1>5. /\ outbox' \in Seq(Requests \cup {"terminal"})
      /\ \A i \in DOMAIN outbox' : outbox'[i] = e \/ \E j \in DOMAIN outbox : outbox'[i] = outbox[j]
  BY <1>1, <1>4, QueueElements
<1>6. ASSUME NEW i \in DOMAIN outbox', outbox'[i] # "terminal" PROVE pc'[outbox'[i]] # "idle"
  <2>1. outbox'[i] \in Requests /\ pc[outbox'[i]] # "idle"
    BY <1>1, <1>2, <1>4, <1>5, <1>6
  <2> QED BY <1>3, <2>1
<1> QED BY <1>5, <1>6

\* The cancellation c is at p, and k is what it captured.
Moves(c, p, k) ==
    ctl' = [ctl EXCEPT ![c] = p] /\ captured' = [captured EXCEPT ![c] = k]

\* What it remembers is the admission or was remembered before, and is marked.
Marked(c, p, k) ==
    /\ k.request \in {captured[c].request, None, admission}
    /\ p \in {"stopping", "acking"} /\ k.turn # None => k.turn \in (cancelled \cup cancelling)'

\* What a cancellation captured was submitted and is marked.
LEMMA ControlProgress ==
    ASSUME TypeOK, Submitted, CapturedIsMarked, [Next]_vars
    PROVE  /\ \A c \in Cancels :
                 captured'[c].request # None => pc'[captured'[c].request] # "idle"
           /\ CapturedIsMarked'
<1>1. /\ captured \in [Cancels -> [turn : Turns \cup {None}, request : Requests \cup {None},
                                   pending : Turns \cup {None}]]
      /\ ctl \in [Cancels -> {"idle", "capture", "stopping", "acking", "done"}]
      /\ admission \in Requests \cup {None}
      /\ admission # None => pc[admission] # "idle"
  BY DEF TypeOK, Submitted
<1>2. \A q \in Requests : pc[q] # "idle" => pc'[q] # "idle"
  BY EveryStepIsSorted, HandlersProgress
<1>3. ControlSort
  BY EveryStepIsControlled
<1>4. /\ \A c \in Cancels : captured[c].request # None => pc'[captured[c].request] # "idle"
      /\ admission # None => pc'[admission] # "idle"
  BY <1>1, <1>2 DEF Submitted
<1>5. \A c \in Cancels : ctl[c] \in {"stopping", "acking"} /\ captured[c].turn # None =>
        captured[c].turn \in (cancelled \cup cancelling)'
  <2>1. \A c \in Cancels : captured[c].turn # None => captured[c].turn \in Turns
    BY <1>1
  <2> QED BY <1>3, <2>1 DEF ControlSort, CapturedIsMarked, Cancelled
<1> DEFINE Goal ==
      /\ \A d \in Cancels : captured'[d].request # None => pc'[captured'[d].request] # "idle"
      /\ CapturedIsMarked'
<1>6. UNCHANGED controls => Goal
  BY <1>4, <1>5 DEF controls, CapturedIsMarked, Cancelled
<1>7. ASSUME NEW c \in Cancels, NEW p, NEW k, Moves(c, p, k), Marked(c, p, k) PROVE Goal
  <2>1. /\ captured'[c] = k /\ ctl'[c] = p
        /\ \A d \in Cancels \ {c} : captured'[d] = captured[d] /\ ctl'[d] = ctl[d]
    BY <1>1, <1>7 DEF Moves
  <2>2. \A d \in Cancels : captured'[d].request # None => pc'[captured'[d].request] # "idle"
    BY <1>4, <1>7, <2>1 DEF Marked
  <2>3. CapturedIsMarked'
    BY <1>5, <1>7, <2>1 DEF CapturedIsMarked, Cancelled, Marked
  <2> QED BY <2>2, <2>3
<1> HIDE DEF Goal
<1>8. ASSUME NEW c \in Cancels, Captures(c) PROVE Goal
  <2>1. PICK t \in Turns \cup {None} : /\ Moves(c, "stopping", CapturedCancellation(t))
                                       /\ t # None => t \in (cancelled \cup cancelling)'
    BY <1>8 DEF Captures, Cancelled, Moves
  <2>2. Marked(c, "stopping", CapturedCancellation(t))
    BY <2>1 DEF CapturedCancellation, Marked
  <2> QED BY <1>7, <2>1, <2>2
<1>9. ASSUME NEW c \in Cancels, Advances(c) PROVE Goal
  <2>1. captured' = [captured EXCEPT ![c] = captured[c]]
    BY <1>1, <1>9 DEF Advances
  <2>2. PICK p \in {"capture", "done"} : Moves(c, p, captured[c])
    BY <1>9, <2>1 DEF Advances, Moves
  <2>3. Marked(c, p, captured[c])
    BY DEF Marked
  <2> QED BY <1>7, <2>2, <2>3
<1>10. ASSUME NEW c \in Cancels, Stops(c) PROVE Goal
  <2>1. captured' = [captured EXCEPT ![c] = captured[c]]
    BY <1>1, <1>10 DEF Stops
  <2>2. Moves(c, "acking", captured[c])
    BY <1>10, <2>1 DEF Stops, Moves
  <2>3. Marked(c, "acking", captured[c])
    BY <1>5, <1>10 DEF Marked, Stops
  <2> QED BY <1>7, <2>2, <2>3
<1>11. ASSUME NEW c \in Cancels, Finishes(c) PROVE Goal
  <2>1. Marked(c, "done", NoCapture)
    BY DEF NoCapture, Marked
  <2> QED BY <1>7, <1>11, <2>1 DEF Finishes, Moves
<1>12. UNCHANGED controls \/ \E c \in Cancels : Captures(c) \/ Advances(c) \/ Stops(c) \/ Finishes(c)
  BY <1>3 DEF ControlSort
<1>13. ASSUME NEW c \in Cancels, Captures(c) \/ Advances(c) \/ Stops(c) \/ Finishes(c) PROVE Goal
  BY <1>8, <1>9, <1>10, <1>11, <1>13
<1> QED BY <1>6, <1>12, <1>13 DEF Goal

-----------------------------------------------------------------------------
(* Type correctness, a group of variables at a time *)

TypeBook ==
    /\ ledger \in [Turns -> {"active", "cancelled", "completed"}]
    /\ nextOrdinal \in [Turns -> 0..(MaxOrdinal + 1)]
    /\ segment \in [Turns -> [Ordinals -> Segments]]

TypeMarks ==
    /\ cancelRequested \in BOOLEAN /\ pending \in Turns \cup {None}
    /\ cancelled \subseteq Turns /\ cancelling \subseteq Turns

TypeHandlers ==
    /\ pc \in [Requests -> Pcs]
    /\ DOMAIN submission = Requests
    /\ \A r \in Requests : submission[r] \in Submissions[r] \cup {None}
    /\ told \in [Requests -> Replies \cup {"refused", "cancelled", "failed"}]

TypeBridge ==
    /\ bridge \in [Requests -> Seq({"chunk", "end", "error"})]
    /\ \A r \in Requests : Len(bridge[r]) <= Capacity

TypeStreams ==
    /\ produced \in [Requests -> 0..MaxChunks]
    /\ stage \in [Requests -> {"empty", "buffered", "started", "dropped"}]
    /\ producing \subseteq Requests /\ stopped \subseteq Requests
    /\ killed \subseteq Requests /\ track \subseteq Requests
    /\ ended \in BOOLEAN /\ stateTerminal \in BOOLEAN /\ done \subseteq Turns

TypeControls ==
    /\ ctl \in [Cancels -> {"idle", "capture", "stopping", "acking", "done"}]
    /\ captured \in [Cancels -> [turn : Turns \cup {None}, request : Requests \cup {None},
                                 pending : Turns \cup {None}]]

\* These groups, the admission and the outbox are the type.
LEMMA Groups ==
    TypeOK <=> /\ TypeBook /\ TypeMarks /\ TypeHandlers /\ TypeBridge /\ TypeStreams
               /\ TypeControls /\ admission \in Requests \cup {None}
               /\ outbox \in Seq(Requests \cup {"terminal"})
BY DEF TypeOK, TypeBook, TypeMarks, TypeHandlers, TypeBridge, TypeStreams, TypeControls

\* The ledger stays typed.
LEMMA BookTyped ==
    ASSUME TypeOK, Submitted, [Next]_vars
    PROVE  TypeBook'
<1>1. CASE UNCHANGED book
  BY <1>1, Groups DEF TypeBook, book
<1>2. ASSUME NEW T, CancelLedgers(T) PROVE TypeBook'
  BY <1>2, CancelledEntries, Groups DEF TypeBook
<1>3. ASSUME NEW r \in Requests, pc[r] # "idle", NEW s \in {"in_flight", "reserved"},
             segment' = Claimed(r, s), UNCHANGED <<ledger, nextOrdinal>>
      PROVE  TypeBook'
  BY <1>3, ClaimedEntry, Groups DEF TypeBook
<1>4. ASSUME NEW r \in Requests, pc[r] # "idle", NEW reply, EndFailed(r, reply)
      PROVE  TypeBook'
  BY <1>4, ReleasedEntry, Groups DEF TypeBook, EndFailed
<1>5. ASSUME NEW r \in Requests, pc[r] # "idle", StreamRaised(r)
      PROVE  TypeBook'
  BY <1>2, <1>4, <1>5 DEF StreamRaised, EndCancelled
<1>6. ASSUME NEW r \in Requests, pc[r] # "idle", NEW reply \in Replies, Commit(r, reply)
      PROVE  TypeBook'
  BY <1>6, CommittedEntry DEF TypeBook
<1>7. ASSUME NEW r \in Requests, Speak(r) PROVE TypeBook'
  <2>1. CASE Refused(r) \/ Replay(r) \/ TakeChunk(r) \/ StartupTimeout(r) \/ TakeEnd(r) \/ Unwind(r)
    BY <1>1, <2>1 DEF Refused, Replay, TakeChunk, StartupTimeout, TakeEnd, Unwind
  <2>2. CASE Admit(r)
    BY <1>3, <2>2 DEF Admit
  <2>3. CASE ClaimMarker(r)
    <3>1. pc[r] # "idle" /\ UNCHANGED <<ledger, nextOrdinal>>
      BY <2>3 DEF ClaimMarker
    <3>2. segment' = Claimed(r, "in_flight") \/ segment' = Claimed(r, "reserved")
      BY <2>3 DEF ClaimMarker
    <3> QED BY <1>3, <3>1, <3>2
  <2>4. CASE TakeError(r) \/ JoinEmpty(r)
    BY <1>5, <2>4 DEF TakeError, JoinEmpty
  <2>5. CASE Join(r)
    <3>1. CancelLedgers({Turn(r)}) \/ Commit(r, "queued") \/ UNCHANGED book
      BY <2>5 DEF Join, EndCancelled
    <3>2. pc[r] # "idle" /\ "queued" \in Replies
      BY <2>5 DEF Join, Replies
    <3> QED BY <1>1, <1>2, <1>6, <3>1, <3>2
  <2>6. CASE PlayoutEnds(r)
    <3>1. CancelLedgers({Turn(r)}) \/ UNCHANGED book
      BY <2>6 DEF PlayoutEnds, EndCancelled
    <3> QED BY <1>1, <1>2, <3>1
  <2>7. CASE SettleFinal(r)
    <3>1. pc[r] # "idle" /\ told[r] \in Replies
      BY <2>7 DEF SettleFinal, Submitted, Replies
    <3>2. Commit(r, told[r]) \/ EndFailed(r, "discarded")
      BY <2>7 DEF SettleFinal
    <3> QED BY <1>4, <1>6, <3>1, <3>2
  <2>8. CASE Unwound(r)
    BY <1>2, <2>8 DEF Unwound
  <2> QED BY <1>7, <2>1, <2>2, <2>3, <2>4, <2>5, <2>6, <2>7, <2>8 DEF Speak
<1>8. ASSUME NEW r \in Requests, (\E s \in Submissions[r] : Submit(r, s)) \/ Produce(r)
             \/ ProducerEnds(r)
      PROVE  TypeBook'
  BY <1>1, <1>8 DEF Submit, Produce, ProducerEnds
<1>9. CASE UNCHANGED vars \/ TrackPlays \/ Deliver
  BY <1>1, <1>9 DEF vars, TrackPlays, Deliver, DeliverDone, DeliverTerminal
<1>10. CASE End \/ CloseSpeech
  BY <1>2, <1>10 DEF End, CloseSpeech, Capture
<1>11. CASE (\E t \in Dropped : CancelSpeechTurn(t)) \/ (\E i \in Interrupters : Interrupt(i))
  BY <1>2, <1>11 DEF CancelSpeechTurn, Interrupt, Capture
<1>12. CASE \E c \in Cancels : CancelSteps(c)
  BY <1>1, <1>12 DEF CancelSteps, StopSpeech, FinishCancel
<1> QED BY <1>7, <1>8, <1>9, <1>10, <1>11, <1>12 DEF Next

\* The handlers stay typed.
LEMMA HandlersTyped ==
    ASSUME TypeOK, Submitted, [Next]_vars
    PROVE  TypeHandlers'
<1>1. CASE UNCHANGED handlers
  BY <1>1, Groups DEF TypeHandlers, handlers
<1>2. ASSUME NEW r \in Requests, UNCHANGED submission,
             NEW reply \in Replies \cup {"refused", "cancelled", "failed"}, Answer(r, reply)
      PROVE  TypeHandlers'
  BY <1>2, Groups DEF TypeHandlers, Answer, Pcs
<1>3. ASSUME NEW r \in Requests, UNCHANGED <<submission, told>>, NEW p \in Pcs,
             pc' = [pc EXCEPT ![r] = p]
      PROVE  TypeHandlers'
  BY <1>3, Groups DEF TypeHandlers
<1>4. ASSUME NEW r \in Requests, UNCHANGED submission, StreamRaised(r)
      PROVE  TypeHandlers'
  BY <1>2, <1>4 DEF StreamRaised, EndCancelled, EndFailed
<1>5. /\ Streaming \subseteq Pcs /\ Working \subseteq Pcs /\ {"waiting", "unwinding"} \subseteq Pcs
      /\ {"streaming", "joining", "playout", "emitting", "settling"} \subseteq Pcs
  BY DEF Pcs, Working, Streaming
<1>6. {"nothing", "queued", "ai_done", "discarded"} \subseteq Replies
  BY DEF Replies
<1>7. ASSUME NEW r \in Requests, Speak(r) PROVE TypeHandlers'
  <2>1. CASE Refused(r)
    BY <1>2, <2>1 DEF Refused
  <2>2. CASE Replay(r)
    <3>1. UNCHANGED submission /\ Answer(r, Entry(r).reply) /\ pc[r] # "idle"
      BY <2>2 DEF Replay
    <3>2. Entry(r).reply \in Replies
      BY <3>1, SubmissionFields DEF TypeOK, Entry, Segments
    <3> QED BY <1>2, <3>1, <3>2
  <2>3. CASE Admit(r)
    BY <1>3, <1>5, <2>3 DEF Admit
  <2>4. CASE ClaimMarker(r)
    BY <1>2, <1>3, <1>5, <2>4 DEF ClaimMarker
  <2>5. CASE TakeChunk(r)
    <3>1. /\ pc' = [pc EXCEPT ![r] = "joining"] \/ pc' = pc
          /\ UNCHANGED <<submission, told>>
      BY <2>5 DEF TakeChunk
    <3> QED BY <1>1, <1>3, <1>5, <3>1 DEF handlers
  <2>6. CASE StartupTimeout(r)
    BY <1>1, <2>6 DEF StartupTimeout
  <2>7. CASE TakeEnd(r)
    BY <1>3, <1>5, <2>7 DEF TakeEnd
  <2>8. CASE TakeError(r) \/ JoinEmpty(r)
    BY <1>4, <2>8 DEF TakeError, JoinEmpty
  <2>9. CASE Join(r)
    <3>1. UNCHANGED submission
      BY <2>9 DEF Join
    <3>2. \/ Answer(r, "cancelled") \/ Answer(r, "queued")
          \/ pc' = [pc EXCEPT ![r] = "playout"] /\ told' = told
      BY <2>9 DEF Join, EndCancelled
    <3> QED BY <1>2, <1>3, <1>5, <1>6, <3>1, <3>2
  <2>10. CASE PlayoutEnds(r)
    <3>1. /\ UNCHANGED submission
          /\ Answer(r, "cancelled") \/ (pc' = [pc EXCEPT ![r] = "emitting"] /\ told' = told)
      BY <2>10 DEF PlayoutEnds, EndCancelled
    <3> QED BY <1>2, <1>3, <1>5, <3>1
  <2>11. CASE SettleFinal(r)
    <3>1. /\ UNCHANGED submission /\ told[r] \in {"ai_done", "discarded"}
          /\ Answer(r, told[r]) \/ Answer(r, "discarded")
      BY <2>11 DEF SettleFinal, EndFailed, Submitted
    <3> QED BY <1>2, <1>6, <3>1
  <2>12. CASE Unwind(r)
    BY <1>3, <1>5, <2>12 DEF Unwind
  <2>13. CASE Unwound(r)
    BY <1>2, <2>13 DEF Unwound
  <2> QED BY <1>7, <2>1, <2>2, <2>3, <2>4, <2>5, <2>6, <2>7, <2>8, <2>9, <2>10, <2>11, <2>12,
             <2>13 DEF Speak
<1>8. ASSUME NEW r \in Requests, NEW s \in Submissions[r], Submit(r, s) PROVE TypeHandlers'
  BY <1>5, <1>8, Groups DEF Submit, TypeHandlers
<1>9. ASSUME NEW r \in Requests, Produce(r) \/ ProducerEnds(r) PROVE TypeHandlers'
  BY <1>1, <1>9 DEF Produce, ProducerEnds
<1>10. CASE UNCHANGED vars \/ TrackPlays \/ DeliverTerminal
  BY <1>1, <1>10 DEF vars, TrackPlays, DeliverTerminal
<1>11. CASE DeliverDone
  <2> DEFINE r == Head(outbox)
  <2>1. /\ UNCHANGED submission
        /\ \/ UNCHANGED <<pc, told>>
           \/ \E reply \in {"discarded", "ai_done"} :
                 /\ pc' = [pc EXCEPT ![r] = "settling"] /\ told' = [told EXCEPT ![r] = reply]
    BY <1>11 DEF DeliverDone
  <2> HIDE DEF r
  <2> QED BY <1>5, <1>6, <2>1, Groups DEF TypeHandlers
<1>12. CASE End \/ CloseSpeech
  BY <1>1, <1>12 DEF End, CloseSpeech, Capture
<1>13. CASE (\E t \in Dropped : CancelSpeechTurn(t)) \/ (\E i \in Interrupters : Interrupt(i))
  BY <1>1, <1>13 DEF CancelSpeechTurn, Interrupt, Capture
<1>14. CASE \E c \in Cancels : CancelSteps(c)
  BY <1>1, <1>14 DEF CancelSteps, StopSpeech, FinishCancel
<1> QED BY <1>7, <1>8, <1>9, <1>10, <1>11, <1>12, <1>13, <1>14 DEF Next, Deliver

\* The admission's flags and the marks stay typed.
LEMMA MarksTyped ==
    ASSUME TypeOK, Submitted, [Next]_vars
    PROVE  TypeMarks'
<1>1. TypeMarks /\ TypeControls
  BY Groups
<1>2. CASE UNCHANGED <<cancelRequested, pending, marks>>
  BY <1>1, <1>2 DEF TypeMarks, marks
<1>3. ASSUME NEW r \in Requests, ReleaseAdmission(r), UNCHANGED marks,
             pending' \in Turns \cup {None}
      PROVE  TypeMarks'
  BY <1>1, <1>3 DEF TypeMarks, marks, ReleaseAdmission
<1>4. ASSUME NEW r \in Requests, StreamRaised(r), UNCHANGED marks PROVE TypeMarks'
  <2>1. ReleaseAdmission(r) /\ pending' = pending
    BY <1>4 DEF StreamRaised, EndCancelled, EndFailed
  <2> QED BY <1>1, <1>3, <1>4, <2>1 DEF TypeMarks
<1>5. ASSUME NEW r \in Requests, pc[r] # "idle" PROVE Turn(r) \in Turns
  BY <1>5, SubmissionFields
<1>6. ASSUME NEW r \in Requests, Speak(r) PROVE TypeMarks'
  <2>1. CASE Refused(r) \/ Replay(r) \/ ClaimMarker(r)
    BY <1>2, <2>1 DEF Refused, Replay, ClaimMarker, owner
  <2>2. CASE TakeChunk(r) \/ StartupTimeout(r) \/ TakeEnd(r)
    BY <1>2, <2>2 DEF TakeChunk, StartupTimeout, TakeEnd, owner
  <2>3. CASE Admit(r)
    BY <1>1, <2>3 DEF Admit, TypeMarks, marks
  <2>4. CASE TakeError(r) \/ JoinEmpty(r)
    BY <1>4, <2>4 DEF TakeError, JoinEmpty
  <2>5. CASE Join(r)
    <3>1. /\ UNCHANGED marks
          /\ \/ ReleaseAdmission(r) /\ (pending' = pending \/ pending' = Turn(r))
             \/ UNCHANGED owner
      BY <2>5 DEF Join, EndCancelled
    <3>2. Turn(r) \in Turns /\ pending \in Turns \cup {None}
      BY <1>1, <1>5, <2>5 DEF Join, TypeMarks
    <3> QED BY <1>2, <1>3, <3>1, <3>2 DEF owner
  <2>6. CASE PlayoutEnds(r)
    <3>1. /\ UNCHANGED marks
          /\ \/ ReleaseAdmission(r) /\ pending' = pending
             \/ cancelRequested' = cancelRequested /\ pending' = None
      BY <2>6 DEF PlayoutEnds, EndCancelled
    <3> QED BY <1>1, <1>3, <3>1 DEF TypeMarks, marks
  <2>7. CASE SettleFinal(r)
    <3>1. UNCHANGED marks /\ ReleaseAdmission(r) /\ pending' = pending
      BY <2>7 DEF SettleFinal, EndFailed
    <3> QED BY <1>1, <1>3, <3>1 DEF TypeMarks
  <2>8. CASE Unwind(r)
    <3>1. Turn(r) \in Turns
      BY <1>5, <2>8 DEF Unwind, Working, Streaming
    <3>2. /\ cancelled' = cancelled \cup {Turn(r)} /\ cancelRequested' = TRUE
          /\ UNCHANGED <<pending, cancelling>>
      BY <2>8 DEF Unwind
    <3> QED BY <1>1, <3>1, <3>2 DEF TypeMarks
  <2>9. CASE Unwound(r)
    <3>1. UNCHANGED marks /\ ReleaseAdmission(r) /\ pending' = pending
      BY <2>9 DEF Unwound
    <3> QED BY <1>1, <1>3, <3>1 DEF TypeMarks
  <2> QED BY <1>6, <2>1, <2>2, <2>3, <2>4, <2>5, <2>6, <2>7, <2>8, <2>9 DEF Speak
<1>7. ASSUME NEW r \in Requests, (\E s \in Submissions[r] : Submit(r, s)) \/ Produce(r)
             \/ ProducerEnds(r)
      PROVE  TypeMarks'
  BY <1>2, <1>7 DEF Submit, Produce, ProducerEnds, owner
<1>8. CASE UNCHANGED vars \/ TrackPlays \/ Deliver
  BY <1>2, <1>8 DEF vars, TrackPlays, Deliver, DeliverDone, DeliverTerminal, owner
<1>9. ASSUME NEW c, NEW t \in Turns \cup {None}, Capture(c, t) PROVE TypeMarks'
  <2>1. /\ cancelling' = cancelling \cup (IF t = None THEN {} ELSE {t})
        /\ UNCHANGED <<cancelRequested, pending, cancelled>>
    BY <1>9 DEF Capture, owner
  <2> QED BY <1>1, <2>1 DEF TypeMarks
<1>10. CASE End
  BY <1>2, <1>10 DEF End, owner
<1>11. CASE CloseSpeech \/ \E i \in Interrupters : Interrupt(i)
  BY <1>9, <1>11, ActiveTurnType DEF CloseSpeech, Interrupt
<1>12. ASSUME NEW t \in Dropped, CancelSpeechTurn(t) PROVE TypeMarks'
  <2>1. Capture(t, t) \/ UNCHANGED <<owner, marks>>
    BY <1>12 DEF CancelSpeechTurn
  <2>2. t \in Turns
    BY NameAssumption
  <2> QED BY <1>2, <1>9, <2>1, <2>2 DEF owner
<1>13. ASSUME NEW c \in Cancels, StopSpeech(c) PROVE TypeMarks'
  <2>1. \/ cancelRequested' = cancelRequested
        \/ \E r : cancelRequested' = (cancelRequested \/ r = admission)
    BY <1>13 DEF StopSpeech
  <2>2. UNCHANGED <<pending, marks>> /\ cancelRequested' \in BOOLEAN
    BY <1>1, <1>13, <2>1 DEF StopSpeech, TypeMarks
  <2> QED BY <1>1, <2>2 DEF TypeMarks, marks
<1>14. ASSUME NEW c \in Cancels, FinishCancel(c) PROVE TypeMarks'
  <2>1. captured[c].turn \in Turns \cup {None}
    BY <1>1 DEF TypeControls
  <2>2. /\ cancelled' = cancelled \/ (captured[c].turn # None
                                      /\ cancelled' = cancelled \cup {captured[c].turn})
        /\ cancelling' = cancelling \ {captured[c].turn}
        /\ pending' = pending \/ pending' = None
        /\ cancelRequested' = cancelRequested
    BY <1>14 DEF FinishCancel
  <2> QED BY <1>1, <2>1, <2>2 DEF TypeMarks
<1> QED BY <1>6, <1>7, <1>8, <1>10, <1>11, <1>12, <1>13, <1>14 DEF Next, CancelSteps

\* The bridge never holds more than its capacity.
LEMMA BridgeTyped ==
    ASSUME TypeOK, [Next]_vars
    PROVE  TypeBridge'
<1> DEFINE Items == {"chunk", "end", "error"}
<1>1. TypeBridge
  BY Groups
<1>2. CASE UNCHANGED bridge
  BY <1>1, <1>2 DEF TypeBridge
<1>3. ASSUME NEW r \in Requests, NEW item \in Items, Room(r),
             bridge' = [bridge EXCEPT ![r] = Append(@, item)]
      PROVE  TypeBridge'
  <2> DEFINE s == Append(bridge[r], item)
  <2>1. /\ bridge \in [Requests -> Seq(Items)] /\ bridge[r] \in Seq(Items)
        /\ \A q \in Requests : Len(bridge[q]) <= Capacity
    BY <1>1 DEF TypeBridge
  <2>2. s \in Seq(Items) /\ Len(s) = Len(bridge[r]) + 1 /\ Len(bridge[r]) \in Nat
    BY <2>1, AppendProperties, LenProperties
  <2>3. Len(s) <= Capacity
    BY <1>3, <2>2, BoundAssumption DEF Room
  <2> HIDE DEF s
  <2>4. bridge' = [bridge EXCEPT ![r] = s]
    BY <1>3 DEF s
  <2> QED BY <2>1, <2>2, <2>3, <2>4 DEF TypeBridge
<1>4. ASSUME NEW r \in Requests, bridge[r] # <<>>, bridge' = [bridge EXCEPT ![r] = Tail(@)]
      PROVE  TypeBridge'
  <2> DEFINE s == Tail(bridge[r])
  <2>1. /\ bridge \in [Requests -> Seq(Items)] /\ bridge[r] \in Seq(Items)
        /\ \A q \in Requests : Len(bridge[q]) <= Capacity
    BY <1>1 DEF TypeBridge
  <2>2. s \in Seq(Items) /\ Len(s) = Len(bridge[r]) - 1 /\ Len(bridge[r]) \in Nat
    BY <1>4, <2>1, HeadTailProperties, LenProperties
  <2>3. Len(s) <= Capacity
    BY <2>1, <2>2, BoundAssumption
  <2> HIDE DEF s
  <2>4. bridge' = [bridge EXCEPT ![r] = s]
    BY <1>4 DEF s
  <2> QED BY <2>1, <2>2, <2>3, <2>4 DEF TypeBridge
<1>5. ASSUME NEW r \in Requests, Speak(r) PROVE TypeBridge'
  <2>1. CASE Refused(r) \/ Replay(r) \/ Admit(r) \/ ClaimMarker(r) \/ StartupTimeout(r)
    BY <1>2, <2>1 DEF Refused, Replay, Admit, ClaimMarker, StartupTimeout, streams
  <2>2. CASE TakeChunk(r) \/ TakeEnd(r) \/ TakeError(r)
    BY <1>4, <2>2 DEF TakeChunk, TakeEnd, TakeError
  <2>3. CASE Join(r) \/ JoinEmpty(r) \/ PlayoutEnds(r) \/ SettleFinal(r)
    BY <1>2, <2>3 DEF Join, JoinEmpty, PlayoutEnds, SettleFinal, streams
  <2>4. CASE Unwind(r) \/ Unwound(r)
    BY <1>2, <2>4 DEF Unwind, Unwound
  <2> QED BY <1>5, <2>1, <2>2, <2>3, <2>4 DEF Speak
<1>6. ASSUME NEW r \in Requests, Produce(r) PROVE TypeBridge'
  BY <1>3, <1>6 DEF Produce
<1>7. ASSUME NEW r \in Requests, ProducerEnds(r) PROVE TypeBridge'
  BY <1>2, <1>3, <1>7 DEF ProducerEnds
<1>8. ASSUME NEW r \in Requests, NEW s \in Submissions[r], Submit(r, s) PROVE TypeBridge'
  BY <1>2, <1>8 DEF Submit, streams
<1>9. CASE UNCHANGED vars \/ TrackPlays \/ Deliver
  BY <1>2, <1>9 DEF vars, TrackPlays, Deliver, DeliverDone, DeliverTerminal, streams
<1>10. CASE End \/ CloseSpeech
  BY <1>2, <1>10 DEF End, CloseSpeech, Capture, streams
<1>11. CASE (\E t \in Dropped : CancelSpeechTurn(t)) \/ (\E i \in Interrupters : Interrupt(i))
  BY <1>2, <1>11 DEF CancelSpeechTurn, Interrupt, Capture, streams
<1>12. CASE \E c \in Cancels : CancelSteps(c)
  BY <1>2, <1>12 DEF CancelSteps, StopSpeech, FinishCancel
<1> QED BY <1>5, <1>6, <1>7, <1>8, <1>9, <1>10, <1>11, <1>12 DEF Next

\* The streams, the track and the session stay typed.
LEMMA StreamsTyped ==
    ASSUME TypeOK, Submitted, [Next]_vars
    PROVE  TypeStreams'
<1>1. TypeStreams /\ TypeControls
  BY Groups
<1>2. CASE UNCHANGED <<produced, stage, producing, stopped, killed, track, ended, stateTerminal, done>>
  BY <1>1, <1>2 DEF TypeStreams
<1>3. ASSUME NEW r \in Requests, Speak(r) PROVE TypeStreams'
  <2>1. CASE Refused(r) \/ Replay(r) \/ ClaimMarker(r) \/ TakeEnd(r) \/ SettleFinal(r)
    BY <1>2, <2>1 DEF Refused, Replay, ClaimMarker, TakeEnd, SettleFinal, streams, session
  <2>2. CASE Admit(r)
    BY <1>1, <2>2 DEF Admit, TypeStreams, session
  <2>3. CASE TakeChunk(r) \/ StartupTimeout(r)
    <3>1. /\ UNCHANGED <<produced, producing, stopped, killed, ended, done>>
          /\ track' \in {track, track \cup {r}}
          /\ \/ stage' = stage
             \/ \E p \in {"empty", "buffered", "started", "dropped"} :
                   stage' = [stage EXCEPT ![r] = p]
          /\ stateTerminal' \in {stateTerminal, FALSE}
      BY <2>3 DEF TakeChunk, StartupTimeout, StartPlayback
    <3> QED BY <1>1, <3>1 DEF TypeStreams
  <2>4. CASE TakeError(r) \/ JoinEmpty(r) \/ PlayoutEnds(r)
    <3>1. /\ UNCHANGED <<produced, stage, producing, stopped, killed, track, ended, done>>
          /\ stateTerminal' \in {stateTerminal, FALSE}
      BY <2>4 DEF TakeError, JoinEmpty, PlayoutEnds, StreamRaised, streams
    <3> QED BY <1>1, <3>1 DEF TypeStreams
  <2>5. CASE Join(r)
    <3>1. /\ UNCHANGED <<produced, producing, stopped, killed, ended, done>>
          /\ track' \in {track, track \cup {r}}
          /\ stage' \in {stage, [stage EXCEPT ![r] = "started"]}
          /\ stateTerminal' \in BOOLEAN
      BY <2>5 DEF Join
    <3> QED BY <1>1, <3>1 DEF TypeStreams
  <2>6. CASE Unwind(r)
    <3>1. /\ UNCHANGED <<produced, stage, producing, track, session>>
          /\ killed' = killed \ {r}
          /\ stopped' \in {stopped, stopped \cup {r}}
      BY <2>6 DEF Unwind
    <3> QED BY <1>1, <3>1 DEF TypeStreams, session
  <2>7. CASE Unwound(r)
    <3>1. /\ UNCHANGED <<produced, stage, producing, stopped, track, session>>
          /\ killed' = killed \ {r}
      BY <2>7 DEF Unwound
    <3> QED BY <1>1, <3>1 DEF TypeStreams, session
  <2> QED BY <1>3, <2>1, <2>2, <2>3, <2>4, <2>5, <2>6, <2>7 DEF Speak
<1>4. ASSUME NEW r \in Requests, Produce(r) PROVE TypeStreams'
  <2>1. /\ produced' = [produced EXCEPT ![r] = produced[r] + 1] /\ produced[r] < MaxChunks
        /\ UNCHANGED <<stage, producing, stopped, killed, track, session>>
    BY <1>4 DEF Produce
  <2> QED BY <1>1, <2>1, BoundAssumption DEF TypeStreams, session
<1>5. ASSUME NEW r \in Requests, ProducerEnds(r) PROVE TypeStreams'
  <2>1. /\ producing' = producing \ {r}
        /\ UNCHANGED <<produced, stage, stopped, killed, track, session>>
    BY <1>5 DEF ProducerEnds
  <2> QED BY <1>1, <2>1 DEF TypeStreams, session
<1>6. ASSUME NEW r \in Requests, NEW s \in Submissions[r], Submit(r, s) PROVE TypeStreams'
  BY <1>2, <1>6 DEF Submit, streams, session
<1>7. CASE UNCHANGED vars \/ DeliverTerminal
  BY <1>2, <1>7 DEF vars, DeliverTerminal, streams, session
<1>8. CASE TrackPlays
  BY <1>1, <1>8 DEF TrackPlays, streams, session, TypeStreams
<1>9. CASE DeliverDone
  <2> DEFINE r == Head(outbox)
  <2>1. r \in Requests /\ Turn(r) \in Turns
    <3>1. outbox # <<>> /\ r # "terminal" /\ outbox \in Seq(Requests \cup {"terminal"})
      BY <1>9 DEF DeliverDone, TypeOK
    <3>2. r \in Requests \cup {"terminal"} /\ r = outbox[1] /\ 1 \in DOMAIN outbox
      BY <3>1, HeadTailProperties, LenProperties, EmptySeq
    <3>3. r \in Requests /\ pc[r] # "idle"
      BY <3>1, <3>2 DEF Submitted
    <3> QED BY <3>3, SubmissionFields
  <2>2. /\ done' \in {done, done \cup {Turn(r)}}
        /\ UNCHANGED <<streams, track, ended, stateTerminal>>
    BY <1>9 DEF DeliverDone
  <2> QED BY <1>1, <2>1, <2>2 DEF TypeStreams, streams
<1>10. CASE End
  <2>1. ended' = TRUE /\ stateTerminal' = TRUE /\ UNCHANGED <<streams, track, done>>
    BY <1>10 DEF End
  <2> QED BY <1>1, <2>1 DEF TypeStreams, streams
<1>11. CASE CloseSpeech \/ \E i \in Interrupters : Interrupt(i)
  BY <1>2, <1>11 DEF CloseSpeech, Interrupt, Capture, streams, session
<1>12. CASE \E t \in Dropped : CancelSpeechTurn(t)
  BY <1>2, <1>12 DEF CancelSpeechTurn, Capture, streams, session
<1>13. ASSUME NEW c \in Cancels, StopSpeech(c) PROVE TypeStreams'
  <2>1. Target(c) \in Requests \cup {None}
    BY <1>1 DEF Target, TypeControls, TypeOK
  <2>2. /\ stopped' = stopped \/ (Target(c) # None /\ stopped' = stopped \cup {Target(c)})
        /\ track' = {} /\ UNCHANGED <<produced, stage, producing, killed, session>>
    BY <1>13 DEF StopSpeech
  <2> QED BY <1>1, <2>1, <2>2 DEF TypeStreams, session
<1>14. ASSUME NEW c \in Cancels, FinishCancel(c) PROVE TypeStreams'
  <2>1. captured[c].request \in Requests \cup {None}
    BY <1>1 DEF TypeControls
  <2>2. /\ \/ killed' = killed
           \/ captured[c].request # None /\ killed' = killed \cup {captured[c].request}
        /\ UNCHANGED <<produced, stage, producing, stopped, track, session>>
    BY <1>14 DEF FinishCancel
  <2> QED BY <1>1, <2>1, <2>2 DEF TypeStreams, session
<1> QED BY <1>3, <1>4, <1>5, <1>6, <1>7, <1>8, <1>9, <1>10, <1>11, <1>12, <1>13, <1>14
       DEF Next, Deliver, CancelSteps

\* The cancellations stay typed.
LEMMA ControlsTyped ==
    ASSUME TypeOK, Submitted, [Next]_vars
    PROVE  TypeControls'
<1>1. /\ TypeControls /\ admission \in Requests \cup {None} /\ pending \in Turns \cup {None}
  BY Groups DEF TypeMarks
<1>2. CASE UNCHANGED controls
  BY <1>1, <1>2 DEF TypeControls, controls
<1>3. ASSUME NEW c \in Cancels, Captures(c) PROVE TypeControls'
  <2>1. PICK t \in Turns \cup {None} :
          /\ ctl' = [ctl EXCEPT ![c] = "stopping"]
          /\ captured' = [captured EXCEPT ![c] = CapturedCancellation(t)]
    BY <1>3 DEF Captures
  <2> QED BY <1>1, <2>1 DEF TypeControls, CapturedCancellation
<1>4. ASSUME NEW c \in Cancels, Advances(c) PROVE TypeControls'
  BY <1>1, <1>4 DEF TypeControls, Advances
<1>5. ASSUME NEW c \in Cancels, Stops(c) PROVE TypeControls'
  BY <1>1, <1>5 DEF TypeControls, Stops
<1>6. ASSUME NEW c \in Cancels, Finishes(c) PROVE TypeControls'
  BY <1>1, <1>6 DEF TypeControls, Finishes, NoCapture
<1>7. UNCHANGED controls \/ \E c \in Cancels : Captures(c) \/ Advances(c) \/ Stops(c) \/ Finishes(c)
  BY EveryStepIsControlled DEF ControlSort
<1> QED BY <1>2, <1>3, <1>4, <1>5, <1>6, <1>7
-----------------------------------------------------------------------------
(* The invariant, and what follows from it *)

\* Initially nothing is claimed, owned or cancelled.
LEMMA InitInv ==
    ASSUME Init PROVE Inv
<1>1. TypeOK
  <2>1. TypeBook /\ TypeMarks /\ TypeHandlers /\ TypeStreams
    <3>1. NoSegment \in Segments
      BY DEF NoSegment, Segments, Replies
    <3>2. TypeBook
      BY <3>1, BoundAssumption DEF Init, TypeBook
    <3>3. TypeMarks
      BY DEF Init, TypeMarks
    <3>5. TypeHandlers
      <4>1. /\ pc \in [Requests -> Pcs]
            /\ told \in [Requests -> Replies \cup {"refused", "cancelled", "failed"}]
        BY DEF Init, Replies, Pcs
      <4>2. DOMAIN submission = Requests /\ \A r \in Requests : submission[r] = None
        BY DEF Init
      <4> QED BY <4>1, <4>2 DEF TypeHandlers
    <3>4. TypeStreams
      <4>1. produced \in [Requests -> 0..MaxChunks]
        BY BoundAssumption DEF Init
      <4>2. stage \in [Requests -> {"empty", "buffered", "started", "dropped"}]
        BY DEF Init
      <4> QED BY <4>1, <4>2 DEF Init, TypeStreams
    <3> QED BY <3>2, <3>3, <3>4, <3>5
  <2>2. <<>> \in Seq({"chunk", "end", "error"}) /\ Len(<<>>) = 0
        /\ <<>> \in Seq(Requests \cup {"terminal"})
    BY EmptySeq
  <2>3. TypeBridge
    BY <2>2, BoundAssumption DEF Init, TypeBridge
  <2>4. TypeControls
    BY DEF Init, TypeControls, NoCapture
  <2> QED BY <2>1, <2>2, <2>3, <2>4, Groups DEF Init
<1>2. Submitted
  <2>1. DOMAIN outbox = {}
    BY DEF Init
  <2> QED BY <2>1 DEF Init, Submitted, NoCapture
<1>3. LedgerShape
  BY BoundAssumption DEF Init, LedgerShape, NoSegment, Ordinals
<1>4. WorkersClaim /\ CapturedIsMarked /\ SingleSpeaker /\ AnswerIsLedgers
  BY DEF Init, WorkersClaim, CapturedIsMarked, SingleSpeaker, AnswerIsLedgers, Engaged, Working,
     Streaming
<1>5. InFlightIsOwned
  BY DEF Init, InFlightIsOwned, NoSegment
<1> QED BY <1>1, <1>2, <1>3, <1>4, <1>5 DEF Inv

\* Every step keeps it.
LEMMA NextInv ==
    ASSUME Inv, [Next]_vars PROVE Inv'
<1>1. TypeOK /\ Submitted /\ CapturedIsMarked /\ LedgerInv
  BY DEF Inv, LedgerInv
<1>2. LedgerStep
  BY <1>1, EveryStepIsSorted
<1>3. LedgerInv'
  BY <1>1, <1>2, LedgerStepKeeps
<1>4. TypeBook' /\ TypeMarks' /\ TypeHandlers' /\ TypeBridge' /\ TypeStreams' /\ TypeControls'
  BY <1>1, BookTyped, MarksTyped, HandlersTyped, BridgeTyped, StreamsTyped, ControlsTyped
<1>5. /\ \A q \in Requests : /\ pc'[q] # "idle" => submission'[q] # None
                             /\ pc'[q] = "settling" => told'[q] \in {"ai_done", "discarded"}
      /\ admission' # None => admission' \in Requests /\ pc'[admission'] # "idle"
  BY <1>1, <1>2, HandlersProgress
<1>6. /\ outbox' \in Seq(Requests \cup {"terminal"})
      /\ \A i \in DOMAIN outbox' : outbox'[i] # "terminal" => pc'[outbox'[i]] # "idle"
  BY <1>1, OutboxProgress
<1>7. /\ \A c \in Cancels : captured'[c].request # None => pc'[captured'[c].request] # "idle"
      /\ CapturedIsMarked'
  BY <1>1, ControlProgress
<1>8. TypeOK'
  <2>1. admission' \in Requests \cup {None}
    BY <1>5
  <2> QED BY <1>4, <1>6, <2>1
          DEF TypeOK, TypeBook, TypeMarks, TypeHandlers, TypeBridge, TypeStreams, TypeControls
<1>9. Submitted'
  BY <1>5, <1>6, <1>7 DEF Submitted
<1> QED BY <1>3, <1>7, <1>8, <1>9 DEF Inv, LedgerInv

\* What the invariant says of every state of the call.
LEMMA InvHolds == Spec => []Inv
<1>1. Inv /\ UNCHANGED vars => Inv'
  BY NextInv
<1> QED BY InitInv, NextInv, PTL DEF Spec

\* One utterance at a time: whoever streams, plays a final chunk or unwinds holds the
\* session's admission (_admit_tts_segment, _release_speech_admission).
THEOREM OneSpeaker == Spec => []SingleSpeaker
BY InvHolds, PTL DEF Inv

\* The segments of a turn commit in order without a gap, nothing in flight is without
\* somebody working on it, and a success that was told is on record (_claim_tts_segment_locked,
\* _commit_tts_segment, _release_tts_segment_attempt, _cancel_tts_turn_locked).
THEOREM TheLedgerIsSound == Spec => []LedgerIsSound
<1>1. Inv => LedgerIsSound
  <2> SUFFICES ASSUME Inv PROVE SegmentsInOrder
    BY DEF Inv, LedgerIsSound
  <2> QED BY DEF Inv, LedgerShape, SegmentsInOrder
<1> QED BY <1>1, InvHolds, PTL

\* A committed segment stays as it is: the sorts of steps touch one entry that was not
\* committed, or cancel entries that are not.
LEMMA CommittedStays ==
    ASSUME TypeOK, Submitted, LedgerInv, LedgerStep, NEW t \in Turns, NEW n \in Ordinals,
           segment[t][n].state = "committed"
    PROVE  segment'[t][n] = segment[t][n]
<1>1. ASSUME NEW r \in Requests, RequestSort(r) PROVE segment'[t][n] = segment[t][n]
  <2>1. CASE UNCHANGED book
    BY <2>1 DEF book
  <2>2. ASSUME OwnEntry(r), Turn(r) = t /\ Ordinal(r) = n => Entry(r).state # "committed"
        PROVE  segment'[t][n] = segment[t][n]
    BY <2>2 DEF OwnEntry, Entry
  <2>3. pc[r] \in Engaged => Entry(r).state # "committed"
    BY EngagedIsNext
  <2>4. Claims(r) => Entry(r).state # "committed"
    BY DEF Claims, Claimable
  <2>5. CASE Aborts(r)
    BY <2>5, DropShape DEF Aborts
  <2> QED BY <1>1, <2>1, <2>2, <2>3, <2>4, <2>5
          DEF RequestSort, Enters, Outs, Claims, Works, Releases, Commits
<1>2. ASSUME NEW T \in SUBSET Turns, Drops(T) PROVE segment'[t][n] = segment[t][n]
  BY <1>2, DropShape
<1>3. CASE UNCHANGED book
  BY <1>3 DEF book
<1> QED BY <1>1, <1>2, <1>3 DEF LedgerStep

\* The worker is told to stop by the unwinding of a killed task and by a cancellation.
LEMMA WhoStops ==
    ASSUME [Next]_vars, stopped' # stopped
    PROVE  \/ \E r \in Requests : Unwind(r)
           \/ \E c \in Cancels : StopSpeech(c)
<1>1. ASSUME NEW r \in Requests, Speak(r), ~Unwind(r) PROVE stopped' = stopped
  <2>1. CASE Refused(r) \/ Replay(r) \/ Admit(r) \/ ClaimMarker(r)
    BY <2>1 DEF Refused, Replay, Admit, ClaimMarker, streams
  <2>2. CASE TakeChunk(r) \/ StartupTimeout(r) \/ TakeEnd(r) \/ TakeError(r)
    BY <2>2 DEF TakeChunk, StartupTimeout, TakeEnd, TakeError
  <2>3. CASE Join(r) \/ JoinEmpty(r) \/ PlayoutEnds(r) \/ SettleFinal(r) \/ Unwound(r)
    BY <2>3 DEF Join, JoinEmpty, PlayoutEnds, SettleFinal, Unwound, streams
  <2> QED BY <1>1, <2>1, <2>2, <2>3 DEF Speak
<1>2. ASSUME NEW r \in Requests, (\E s \in Submissions[r] : Submit(r, s)) \/ Produce(r)
             \/ ProducerEnds(r)
      PROVE  stopped' = stopped
  BY <1>2 DEF Submit, Produce, ProducerEnds, streams
<1>3. CASE UNCHANGED vars \/ TrackPlays \/ Deliver \/ End \/ CloseSpeech
  BY <1>3 DEF vars, TrackPlays, Deliver, DeliverDone, DeliverTerminal, End, CloseSpeech, Capture,
              streams
<1>4. CASE (\E t \in Dropped : CancelSpeechTurn(t)) \/ (\E i \in Interrupters : Interrupt(i))
  BY <1>4 DEF CancelSpeechTurn, Interrupt, Capture, streams
<1>5. ASSUME NEW c \in Cancels, FinishCancel(c) PROVE stopped' = stopped
  BY <1>5 DEF FinishCancel
<1> QED BY <1>1, <1>2, <1>3, <1>4, <1>5 DEF Next, CancelSteps

\* A generation that is stopped belongs to a turn that is cancelled, unless it is stopped by
\* a cancellation that captured no generation of its own turn.
LEMMA StopsAreExact ==
    ASSUME Inv, [Next]_vars, NEW r \in stopped' \ stopped
    PROVE  \/ Cancelled(Turn(r))'
           \/ \E c \in Cancels :
                 /\ ctl[c] = "stopping"
                 /\ captured[c].request = None
                    \/ captured[c].turn # Turn(captured[c].request)
<1>1. CASE \E q \in Requests : Unwind(q)
  <2>1. PICK q \in Requests : Unwind(q)
    BY <1>1
  <2>2. stopped' \subseteq stopped \cup {q}
    BY <2>1 DEF Unwind
  <2>3. q = r /\ cancelled' = cancelled \cup {Turn(r)} /\ submission' = submission
    BY <2>1, <2>2 DEF Unwind
  <2> QED BY <2>3 DEF Cancelled, Turn
<1>2. CASE \E c \in Cancels : StopSpeech(c)
  <2>1. PICK c \in Cancels : StopSpeech(c)
    BY <1>2
  <2>2. /\ r = Target(c) /\ Target(c) # None /\ ctl[c] = "stopping"
        /\ UNCHANGED <<marks, submission>>
    BY <2>1 DEF StopSpeech, handlers
  <2>3. CASE captured[c].request = None \/ captured[c].turn # Turn(captured[c].request)
    BY <2>2, <2>3
  <2>4. CASE captured[c].request # None /\ captured[c].turn = Turn(captured[c].request)
    <3>1. r = captured[c].request /\ captured[c].turn = Turn(r) /\ r \in Requests
      BY <2>2, <2>4 DEF Target, Inv, TypeOK
    <3>2. Turn(r) \in Turns
      BY <2>4, <3>1, SubmissionFields DEF Inv, Submitted
    <3>3. Cancelled(Turn(r))
      BY <2>2, <3>1, <3>2, NameAssumption DEF Inv, CapturedIsMarked
    <3>4. Turn(r)' = Turn(r)
      BY <2>2 DEF Turn
    <3> QED BY <2>2, <3>3, <3>4 DEF Cancelled, marks
  <2> QED BY <2>3, <2>4
<1> QED BY <1>1, <1>2, WhoStops

\* A cancellation reaches what it is for and nothing else: not a segment that was committed
\* (_cancel_tts_turn_locked), and not the generation of a turn that nobody cancels
\* (_cancel_active_tts_generation), except where it found no generation of its own turn.
THEOREM CancellationsAreExact == Spec => CancellationIsExact
<1>1. ASSUME Inv, [Next]_vars
      PROVE  \A t \in Turns, n \in Ordinals :
                segment[t][n].state = "committed" => segment'[t][n] = segment[t][n]
  BY <1>1, EveryStepIsSorted, CommittedStays DEF Inv, LedgerInv
<1>2. ASSUME Inv, [Next]_vars
      PROVE  \A r \in stopped' \ stopped :
                \/ Cancelled(Turn(r))'
                \/ \E c \in Cancels :
                      /\ ctl[c] = "stopping"
                      /\ captured[c].request = None
                         \/ captured[c].turn # Turn(captured[c].request)
  BY <1>2, StopsAreExact
<1>3. Spec => CommittedIsFinal
  BY <1>1, InvHolds, PTL DEF Spec, CommittedIsFinal
<1>4. Spec => StopIsExact
  BY <1>2, InvHolds, PTL DEF Spec, StopIsExact
<1> QED BY <1>3, <1>4 DEF CancellationIsExact
=============================================================================
