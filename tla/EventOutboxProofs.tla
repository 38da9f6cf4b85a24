-------------------------- MODULE EventOutboxProofs --------------------------
(***************************************************************************)
(* The outbox implements the event log, and the end of the call is the     *)
(* last the browser hears of it, for any events, any number of channel     *)
(* changes and any sends that raise.  The invariant orders the events by   *)
(* their commits (CommitOrder) and accounts for each that is settled.      *)
(***************************************************************************)
EXTENDS EventOutbox, SequenceTheorems, TLAPS

\* An event is committed once, by an emitter that is no longer idle.
CommittedOnce ==
    /\ \A i, j \in DOMAIN CommitOrder : CommitOrder[i] = CommitOrder[j] => i = j
    /\ \A i \in DOMAIN CommitOrder : emitter[CommitOrder[i]] # "idle"

\* A terminal event is committed by the step that ends the call, and behind it come
\* only events of tasks that do not take the lock.
EndIsCommittedLast ==
    /\ \A t \in Terminal : emitter[t] # "idle" => call # "live"
    /\ \A i, j \in DOMAIN CommitOrder :
          i < j /\ CommitOrder[i] \in Terminal =>
              CommitOrder[j] \in Emitted /\ Kind[CommitOrder[j]] \in {"speech", "failure"}

\* What was sent, kept or handed over was settled, and only one of these happened.
Accounted ==
    /\ ToSet(inbox) \cup ToSet(handed) \cup ToSet(undelivered) \subseteq ToSet(settled)
    /\ ToSet(inbox) \cap ToSet(handed) = {}
    /\ ToSet(inbox) \cap ToSet(undelivered) = {}
    /\ ToSet(handed) \cap ToSet(undelivered) = {}
    /\ ToSet(undelivered) \subseteq Recoverable

\* Nobody expires or removes a session whose end request is still waiting.
WaitingIsLive == ender = "waiting" => registry = "live"

\* The terminal event becomes known when the cleanup is over, and the cleanup has
\* cancelled the turn that the records held.
EndCancels ==
    /\ call = "over" => turn # "held"
    /\ \A i \in DOMAIN outbox :
          outbox[i].ready /\ outbox[i].event \in Terminal => call = "over"
    /\ \A t \in Terminal : t \in ToSet(settled) => call = "over"

Inv == /\ TypeOK /\ CommittedOnce /\ EndIsCommittedLast /\ Accounted
       /\ WaitingIsLive /\ EndCancels /\ EndIsLast
-----------------------------------------------------------------------------
(* The order of the commits *)

Entries == [event : Events, ready : BOOLEAN]

\* The order is the settled events and then the waiting ones.
OrderShape ==
    /\ CommitOrder \in Seq(Events)
    /\ Len(CommitOrder) = Len(settled) + Len(outbox)
    /\ DOMAIN CommitOrder = 1 .. Len(CommitOrder)
    /\ \A i \in 1 .. Len(settled) : CommitOrder[i] = settled[i]
    /\ \A i \in 1 .. Len(outbox) : CommitOrder[Len(settled) + i] = outbox[i].event

\* The commit order lists what is settled and then what waits, entry by entry.
LEMMA OrderIsShaped == TypeOK => OrderShape
<1> SUFFICES ASSUME TypeOK PROVE OrderShape
  OBVIOUS
<1>0. outbox \in Seq(Entries) /\ settled \in Seq(Events)
  BY DEF TypeOK, Entries
<1>1. /\ outbox \in Seq(Entries) /\ Len(outbox) \in Nat
      /\ DOMAIN outbox = 1 .. Len(outbox)
      /\ \A i \in 1 .. Len(outbox) : outbox[i] \in Entries
      /\ settled \in Seq(Events) /\ Len(settled) \in Nat
  BY <1>0
<1>2. /\ Waiting \in Seq(Events) /\ Len(Waiting) = Len(outbox)
      /\ \A i \in 1 .. Len(outbox) : Waiting[i] = outbox[i].event
  <2>1. \A i \in 1 .. Len(outbox) : outbox[i].event \in Events
    BY <1>1 DEF Entries
  <2> QED BY <1>1, <2>1 DEF Waiting
<1>3. /\ CommitOrder \in Seq(Events)
      /\ Len(CommitOrder) = Len(settled) + Len(Waiting)
      /\ \A i \in 1 .. Len(settled) + Len(Waiting) :
            CommitOrder[i] = IF i <= Len(settled) THEN settled[i]
                             ELSE Waiting[i - Len(settled)]
  BY <1>1, <1>2, ConcatProperties DEF CommitOrder
<1>4. DOMAIN CommitOrder = 1 .. Len(CommitOrder)
  BY <1>3
<1>5. \A i \in 1 .. Len(settled) : CommitOrder[i] = settled[i]
  BY <1>1, <1>2, <1>3
<1>6. \A i \in 1 .. Len(outbox) : CommitOrder[Len(settled) + i] = outbox[i].event
  <2> TAKE i \in 1 .. Len(outbox)
  <2>1. /\ Len(settled) + i \in 1 .. Len(settled) + Len(Waiting)
        /\ ~(Len(settled) + i <= Len(settled)) /\ Len(settled) + i - Len(settled) = i
    BY <1>1, <1>2
  <2> QED BY <1>2, <1>3, <2>1
<1> QED BY <1>2, <1>3, <1>4, <1>5, <1>6 DEF OrderShape

\* _commit_event appends to the order.
LEMMA CommitAppends ==
    ASSUME TypeOK, TypeOK', NEW e \in Events, NEW ready \in BOOLEAN, Commit(e, ready),
           settled' = settled
    PROVE  CommitOrder' = Append(CommitOrder, e)
<1>1. OrderShape /\ OrderShape'
  BY OrderIsShaped, PTL
<1>2. /\ Len(outbox) \in Nat /\ Len(settled) \in Nat /\ outbox \in Seq(Entries)
      /\ [event |-> e, ready |-> ready] \in Entries
  BY DEF TypeOK, Entries
<1>3. /\ Len(outbox') = Len(outbox) + 1
      /\ \A i \in 1 .. Len(outbox) : outbox'[i] = outbox[i]
      /\ outbox'[Len(outbox) + 1].event = e
  BY <1>2 DEF Commit
<1>4. /\ Append(CommitOrder, e) \in Seq(Events)
      /\ Len(Append(CommitOrder, e)) = Len(CommitOrder) + 1
      /\ \A i \in 1 .. Len(CommitOrder) : Append(CommitOrder, e)[i] = CommitOrder[i]
      /\ Append(CommitOrder, e)[Len(CommitOrder) + 1] = e
  BY <1>1 DEF OrderShape
<1>5. Len(CommitOrder') = Len(CommitOrder) + 1
  BY <1>1, <1>2, <1>3 DEF OrderShape
<1>6. ASSUME NEW i \in 1 .. Len(CommitOrder')
      PROVE  CommitOrder'[i] = Append(CommitOrder, e)[i]
  <2>1. CASE i <= Len(settled)
    BY <1>1, <1>2, <1>4, <1>5, <2>1 DEF OrderShape
  <2>2. CASE i > Len(settled) /\ i <= Len(CommitOrder)
    <3> DEFINE k == i - Len(settled)
    <3>1. k \in 1 .. Len(outbox) /\ k \in 1 .. Len(outbox') /\ i = Len(settled) + k
      BY <1>1, <1>2, <1>3, <1>6, <2>2 DEF OrderShape
    <3>2. CommitOrder[i] = outbox[k].event /\ CommitOrder'[i] = outbox'[k].event
      BY <1>1, <3>1 DEF OrderShape
    <3> QED BY <1>2, <1>3, <1>4, <1>6, <2>2, <3>1, <3>2
  <2>3. CASE i = Len(CommitOrder) + 1
    <3> DEFINE k == Len(outbox) + 1
    <3>1. k \in 1 .. Len(outbox') /\ i = Len(settled) + k
      BY <1>1, <1>2, <1>3, <2>3 DEF OrderShape
    <3>2. CommitOrder'[i] = outbox'[k].event
      BY <1>1, <3>1 DEF OrderShape
    <3> QED BY <1>3, <1>4, <2>3, <3>2
  <2>4. /\ Len(settled) \in Nat /\ Len(CommitOrder) \in Nat
        /\ i \in Nat /\ i <= Len(CommitOrder) + 1
    BY <1>1, <1>2, <1>5, <1>6 DEF OrderShape
  <2> QED BY <2>1, <2>2, <2>3, <2>4
<1> QED BY <1>1, <1>4, <1>5, <1>6, SeqEqual DEF OrderShape

\* Making an entry ready leaves the order alone.
LEMMA PublishKeepsOrder ==
    ASSUME TypeOK, TypeOK', Publish
    PROVE  CommitOrder' = CommitOrder
<1>0. /\ outbox \in Seq(Entries) /\ settled' = settled
      /\ outbox' = [i \in DOMAIN outbox |->
                      [outbox[i] EXCEPT !.ready = @ \/ outbox[i].event = outcome]]
  BY DEF TypeOK, Entries, Publish, store
<1>1. /\ outbox \in Seq(Entries) /\ Len(outbox) \in Nat /\ DOMAIN outbox = 1 .. Len(outbox)
      /\ settled' = settled
      /\ outbox' = [i \in 1 .. Len(outbox) |->
                      [outbox[i] EXCEPT !.ready = @ \/ outbox[i].event = outcome]]
  BY <1>0
<1>2. DOMAIN outbox' = DOMAIN outbox
  BY <1>1
<1>3. \A i \in DOMAIN outbox : outbox'[i].event = outbox[i].event
  <2> TAKE i \in DOMAIN outbox
  <2>1. outbox[i] \in Entries
    BY <1>1
  <2> QED BY <1>1, <2>1 DEF Entries
<1>4. Waiting' = Waiting
  BY <1>2, <1>3 DEF Waiting
<1> QED BY <1>1, <1>4 DEF CommitOrder

\* _deliver_event_outbox settles the first waiting event.
LEMMA DeliverKeepsOrder ==
    ASSUME TypeOK, TypeOK', Deliver
    PROVE  /\ CommitOrder' = CommitOrder
           /\ Len(settled) \in Nat /\ Len(settled) + 1 \in DOMAIN CommitOrder
           /\ CommitOrder[Len(settled) + 1] = Head(outbox).event
<1>1. OrderShape /\ OrderShape'
  BY OrderIsShaped, PTL
<1>2. /\ outbox \in Seq(Entries) /\ outbox # <<>> /\ settled \in Seq(Events)
      /\ outbox' = Tail(outbox) /\ settled' = Append(settled, Head(outbox).event)
  BY DEF TypeOK, Entries, Deliver
<1>3. /\ Len(outbox) \in Nat \ {0} /\ Len(settled) \in Nat
      /\ Head(outbox) = outbox[1] /\ Head(outbox).event \in Events
  <2>1. /\ Len(outbox) \in Nat \ {0} /\ Len(settled) \in Nat
        /\ Head(outbox) = outbox[1] /\ Head(outbox) \in Entries
    BY <1>2
  <2> QED BY <2>1 DEF Entries
<1>4. /\ Len(outbox') = Len(outbox) - 1 /\ Len(settled') = Len(settled) + 1
      /\ \A k \in 1 .. Len(outbox') : outbox'[k] = outbox[k + 1]
      /\ \A i \in 1 .. Len(settled) : settled'[i] = settled[i]
      /\ settled'[Len(settled) + 1] = Head(outbox).event
  BY <1>2, <1>3
<1>5. 1 \in 1 .. Len(outbox)
  BY <1>3
<1>6. Len(settled) + 1 \in DOMAIN CommitOrder
  BY <1>1, <1>3 DEF OrderShape
<1>7. CommitOrder[Len(settled) + 1] = Head(outbox).event
  BY <1>1, <1>3, <1>5 DEF OrderShape
<1>8. Len(CommitOrder') = Len(CommitOrder) /\ Len(CommitOrder) \in Nat
  BY <1>1, <1>3, <1>4 DEF OrderShape
<1>9. ASSUME NEW i \in 1 .. Len(CommitOrder') PROVE CommitOrder'[i] = CommitOrder[i]
  <2>1. CASE i <= Len(settled)
    <3>1. i \in 1 .. Len(settled) /\ i \in 1 .. Len(settled')
      BY <1>3, <1>4, <1>8, <1>9, <2>1
    <3> QED BY <1>1, <1>4, <3>1 DEF OrderShape
  <2>2. CASE i = Len(settled) + 1
    <3>1. i \in 1 .. Len(settled')
      BY <1>3, <1>4, <2>2
    <3> QED BY <1>1, <1>4, <1>7, <2>2, <3>1 DEF OrderShape
  <2>3. CASE i > Len(settled) + 1
    <3> DEFINE k == i - Len(settled')
    <3>1. /\ k \in 1 .. Len(outbox') /\ k + 1 \in 1 .. Len(outbox)
          /\ i = Len(settled') + k /\ i = Len(settled) + (k + 1)
      BY <1>1, <1>3, <1>4, <1>8, <1>9, <2>3 DEF OrderShape
    <3>2. CommitOrder[i] = outbox[k + 1].event /\ CommitOrder'[i] = outbox'[k].event
      BY <1>1, <3>1 DEF OrderShape
    <3> QED BY <1>4, <3>1, <3>2
  <2> QED BY <1>3, <1>8, <1>9, <2>1, <2>2, <2>3
<1> QED BY <1>1, <1>3, <1>6, <1>7, <1>8, <1>9, SeqEqual DEF OrderShape

\* The members of sequences that grow.
LEMMA MembersOfAppend ==
    ASSUME NEW S, NEW s \in Seq(S), NEW e \in S
    PROVE  ToSet(Append(s, e)) = ToSet(s) \cup {e}
<1>1. /\ Len(s) \in Nat /\ DOMAIN s = 1 .. Len(s)
      /\ DOMAIN Append(s, e) = 1 .. Len(s) + 1
      /\ \A i \in 1 .. Len(s) : Append(s, e)[i] = s[i]
      /\ Append(s, e)[Len(s) + 1] = e
  OBVIOUS
<1>2. ASSUME NEW x PROVE x \in ToSet(Append(s, e)) => x \in ToSet(s) \cup {e}
  BY <1>1 DEF ToSet
<1>3. ASSUME NEW x PROVE x \in ToSet(s) => x \in ToSet(Append(s, e))
  BY <1>1 DEF ToSet
<1>4. e \in ToSet(Append(s, e))
  BY <1>1 DEF ToSet
<1> QED BY <1>2, <1>3, <1>4

\* A concatenation has the members of both its parts.
LEMMA MembersOfConcat ==
    ASSUME NEW S, NEW s \in Seq(S), NEW t \in Seq(S)
    PROVE  ToSet(s \o t) = ToSet(s) \cup ToSet(t)
<1>1. /\ s \o t \in Seq(S) /\ Len(s \o t) = Len(s) + Len(t)
      /\ Len(s) \in Nat /\ Len(t) \in Nat
      /\ DOMAIN s = 1 .. Len(s) /\ DOMAIN t = 1 .. Len(t)
      /\ \A i \in 1 .. Len(s) + Len(t) :
            (s \o t)[i] = IF i <= Len(s) THEN s[i] ELSE t[i - Len(s)]
  BY ConcatProperties
<1>2. DOMAIN (s \o t) = 1 .. Len(s) + Len(t)
  BY <1>1
<1>3. ASSUME NEW i \in DOMAIN s PROVE s[i] \in ToSet(s \o t)
  <2>1. i \in 1 .. Len(s) + Len(t) /\ i <= Len(s)
    BY <1>1, <1>3
  <2>2. (s \o t)[i] = s[i]
    BY <1>1, <2>1
  <2> QED BY <1>2, <2>1, <2>2 DEF ToSet
<1>4. ASSUME NEW i \in DOMAIN t PROVE t[i] \in ToSet(s \o t)
  <2> DEFINE k == Len(s) + i
  <2>1. k \in 1 .. Len(s) + Len(t) /\ ~(k <= Len(s)) /\ k - Len(s) = i
    BY <1>1, <1>4
  <2>2. (s \o t)[k] = t[k - Len(s)]
    BY <1>1, <2>1
  <2> QED BY <1>2, <2>1, <2>2 DEF ToSet
<1>5. ASSUME NEW k \in DOMAIN (s \o t) PROVE (s \o t)[k] \in ToSet(s) \cup ToSet(t)
  <2>1. CASE k <= Len(s)
    <3>1. k \in DOMAIN s /\ (s \o t)[k] = s[k]
      BY <1>1, <1>2, <1>5, <2>1
    <3> QED BY <3>1 DEF ToSet
  <2>2. CASE ~(k <= Len(s))
    <3>1. k - Len(s) \in DOMAIN t /\ (s \o t)[k] = t[k - Len(s)]
      BY <1>1, <1>2, <1>5, <2>2
    <3> QED BY <3>1 DEF ToSet
  <2> QED BY <2>1, <2>2
<1>6. \A x \in ToSet(s) \cup ToSet(t) : x \in ToSet(s \o t)
  BY <1>3, <1>4 DEF ToSet
<1>7. \A x \in ToSet(s \o t) : x \in ToSet(s) \cup ToSet(t)
  BY <1>5 DEF ToSet
<1> QED BY <1>6, <1>7

\* The members of a sequence of events are events.
LEMMA MembersAreTyped ==
    ASSUME NEW S, NEW s \in Seq(S)
    PROVE  ToSet(s) \subseteq S /\ ToSet(<<>>) = {}
BY DEF ToSet
-----------------------------------------------------------------------------
(* What the steps do to the log *)

\* The delivery keeps the types.
LEMMA DeliverTyped ==
    ASSUME TypeOK, Deliver
    PROVE  TypeOK'
<1> DEFINE e == Head(outbox).event
<1>1. /\ outbox # <<>> /\ outbox' = Tail(outbox) /\ worker /\ worker' = worker
      /\ settled' = Append(settled, e) /\ emitter' = [emitter EXCEPT ![e] = "returned"]
      /\ inbox' = inbox \/ inbox' = Append(inbox, e)
      /\ undelivered' = undelivered \/ undelivered' = Append(undelivered, e)
      /\ UNCHANGED <<session, browser, manager, handed>>
  BY DEF Deliver, Keep
<1>2. outbox' \in Seq(Entries) /\ Head(outbox) \in Entries
  <2>1. outbox \in Seq(Entries)
    BY DEF TypeOK, Entries
  <2> QED BY <1>1, <2>1, HeadTailProperties
<1>3. e \in Events
  BY <1>2 DEF Entries
<1> HIDE DEF e
<1>4. emitter' \in [Events -> {"idle", "waiting", "returned"}]
  BY <1>1, <1>3 DEF TypeOK
<1>5. \A s \in Seq(Events) : Append(s, e) \in Seq(Events)
  BY <1>3
<1>6. settled' \in Seq(Events) /\ inbox' \in Seq(Events) /\ undelivered' \in Seq(Events)
  BY <1>1, <1>5 DEF TypeOK
<1>7. faults' \in 0 .. MaxFaults
  BY BoundsAssumption DEF Deliver, TypeOK
<1> QED BY <1>1, <1>2, <1>4, <1>6, <1>7 DEF TypeOK, Entries, session, browser, manager

\* The events keep their types, and entries wait only while the delivery runs.
LEMMA TypeStep ==
    ASSUME TypeOK, [Next]_vars
    PROVE  TypeOK'
<1> USE DEF TypeOK
<1>1. CASE UNCHANGED vars
  BY <1>1 DEF vars
<1>2. ASSUME NEW e \in Events, NEW ready \in BOOLEAN, Commit(e, ready)
      PROVE  /\ outbox' \in Seq([event : Events, ready : BOOLEAN]) /\ worker' = TRUE
             /\ emitter' \in [Events -> {"idle", "waiting", "returned"}]
  BY <1>2 DEF Commit
<1>3. ASSUME NEW e \in Emitted, EmitLocked(e) \/ EmitSpeech(e) PROVE TypeOK'
  BY <1>2, <1>3 DEF EmitLocked, EmitSpeech, Events, session, browser, manager, store
<1>4. ASSUME NEW t \in Terminal, EnterTerminal(t), UNCHANGED <<browser, registry, store>>,
             ender' \in {"idle", "waiting", "done"}
      PROVE  TypeOK'
  BY <1>2, <1>4 DEF EnterTerminal, Events, browser, store
<1>5. CASE \/ SpeechReturns \/ CancelTurn \/ EndReturns \/ Expire \/ RemoveSession
          \/ WorkerEnds \/ ChannelChanges
  <2>1. CASE \/ SpeechReturns \/ CancelTurn \/ EndReturns \/ Expire \/ RemoveSession
             \/ WorkerEnds
    BY <2>1 DEF SpeechReturns, CancelTurn, EndReturns, Expire, RemoveSession, WorkerEnds, session, browser,
                manager, store
  <2>2. CASE ChannelChanges
    <3>1. changes' \in 0 .. MaxChannel /\ channel' \in {"none", "open", "closed"}
      BY <2>2, BoundsAssumption DEF ChannelChanges, ChannelOpens, ChannelCloses
    <3> QED BY <2>2, <3>1 DEF ChannelChanges, session, manager, store
  <2> QED BY <1>5, <2>1, <2>2
<1>6. CASE Publish
  <2>1. outbox' \in Seq([event : Events, ready : BOOLEAN]) /\ (outbox' # <<>> => outbox # <<>>)
    <3>1. /\ outbox \in Seq(Entries) /\ outcome \in Events \cup {None}
          /\ outbox' = [i \in DOMAIN outbox |->
                          [outbox[i] EXCEPT !.ready = @ \/ outbox[i].event = outcome]]
      BY <1>6 DEF Publish, Entries, Events
    <3>2. \A i \in DOMAIN outbox :
             [outbox[i] EXCEPT !.ready = @ \/ outbox[i].event = outcome] \in Entries
      <4> TAKE i \in DOMAIN outbox
      <4>1. outbox[i] \in Entries
        BY <3>1
      <4>2. (outbox[i].ready \/ outbox[i].event = outcome) \in BOOLEAN
        OBVIOUS
      <4> QED BY <4>1, <4>2 DEF Entries
    <3>3. Len(outbox) \in Nat /\ DOMAIN outbox = 1 .. Len(outbox)
      BY <3>1
    <3>4. outbox' \in Seq(Entries) /\ Len(outbox') = Len(outbox)
      BY <3>1, <3>2, <3>3
    <3> QED BY <3>1, <3>3, <3>4, EmptySeq DEF Entries
  <2> QED BY <1>6, <2>1 DEF Publish, browser, manager, store
<1>7. CASE Deliver
  BY <1>7, DeliverTyped
<1>8. CASE Drain
  BY <1>8, ConcatProperties, EmptySeq DEF Drain, session, browser, manager
<1> QED BY <1>1, <1>3, <1>4, <1>5, <1>6, <1>7, <1>8
        DEF Next, Delivery, CallLost, EndRequest, Terminal, session, browser, manager, store

recorded == <<settled, inbox, handed, undelivered>>

\* An event enters the log; a terminal one ends the call.
Enters(e) ==
    /\ emitter[e] = "idle" /\ emitter' = [emitter EXCEPT ![e] = "waiting"]
    /\ CommitOrder' = Append(CommitOrder, e)
    /\ UNCHANGED <<recorded, registry>>
    /\ \/ e \in Terminal /\ call = "live" /\ call' # "live"
       \/ e \in Emitted /\ call' = call /\ (Kind[e] \in {"speech", "failure"} \/ call = "live")

\* The first waiting event is settled.
Settles(e) ==
    /\ Len(settled) + 1 \in DOMAIN CommitOrder /\ e = CommitOrder[Len(settled) + 1]
    /\ settled' = Append(settled, e)
    /\ \/ ~Discarded(e) /\ inbox' = Append(inbox, e) /\ undelivered' = undelivered
       \/ inbox' = inbox /\ Keep(e)
       \/ Discarded(e) /\ inbox' = inbox /\ undelivered' = undelivered
    /\ emitter' = [emitter EXCEPT ![e] = "returned"]
    /\ UNCHANGED <<CommitOrder, handed, registry, call, turn>>

Hands ==
    /\ registry # "gone"
    /\ handed' = handed \o undelivered /\ undelivered' = <<>>
    /\ UNCHANGED <<CommitOrder, settled, inbox, registry, emitter, call>>

Leaves ==
    /\ registry # "gone" /\ registry' = "gone"
    /\ UNCHANGED <<CommitOrder, recorded, emitter, call>>

Stays ==
    /\ registry' = "gone" <=> registry = "gone"
    /\ call = "live" <=> call' = "live"
    /\ UNCHANGED <<CommitOrder, recorded, emitter>>

\* Every step of the session is one of these.
LogStep ==
    \/ \E e \in Events : Enters(e) \/ Settles(e)
    \/ Hands \/ Leaves \/ Stays

\* Every step of the outbox is of one of the sorts above: it lets entries in, settles the
\* front of the queue, hands events over, closes the session, or leaves the log alone.
LEMMA EveryStepIsLogged ==
    ASSUME TypeOK, TypeOK', EndIsCommittedLast, WaitingIsLive, [Next]_vars
    PROVE  LogStep
<1>1. outbox' = outbox /\ settled' = settled => CommitOrder' = CommitOrder
  BY DEF CommitOrder, Waiting
<1>2. CASE UNCHANGED vars
  <2>1. Stays
    BY <1>1, <1>2 DEF vars, Stays, recorded
  <2> QED BY <2>1 DEF LogStep
<1>3. ASSUME NEW e \in Emitted, EmitLocked(e) \/ EmitSpeech(e) PROVE Enters(e)
  <2>1. Commit(e, TRUE) /\ UNCHANGED <<call, browser, manager, store>>
    BY <1>3 DEF EmitLocked, EmitSpeech, session
  <2>2. CommitOrder' = Append(CommitOrder, e)
    BY <2>1, CommitAppends DEF Events, store
  <2> QED BY <1>3, <2>1, <2>2
          DEF EmitLocked, EmitSpeech, Enters, Commit, recorded, session, manager, store
<1>4. ASSUME NEW t \in Terminal, EnterTerminal(t), UNCHANGED <<browser, registry, store>>
      PROVE  Enters(t)
  <2>1. CommitOrder' = Append(CommitOrder, t)
    BY <1>4, CommitAppends DEF EnterTerminal, Events, store
  <2>2. emitter[t] = "idle"
    BY <1>4 DEF EnterTerminal, EndIsCommittedLast, TypeOK, Events
  <2> QED BY <1>4, <2>1, <2>2 DEF EnterTerminal, Enters, Commit, recorded, store
<1>5. CASE SpeechReturns \/ CancelTurn \/ WorkerEnds \/ ChannelChanges \/ EndReturns
  <2>1. UNCHANGED <<settled, inbox, handed, undelivered, outbox, emitter, call>>
    BY <1>5 DEF SpeechReturns, CancelTurn, WorkerEnds, ChannelChanges, EndReturns, session,
                store
  <2>2. registry' = "gone" <=> registry = "gone"
    <3>1. CASE SpeechReturns \/ CancelTurn \/ WorkerEnds \/ ChannelChanges
      BY <3>1 DEF SpeechReturns, CancelTurn, WorkerEnds, ChannelChanges, manager
    <3>2. CASE EndReturns
      BY <3>2 DEF EndReturns, WaitingIsLive
    <3> QED BY <1>5, <3>1, <3>2
  <2>3. Stays
    BY <1>1, <2>1, <2>2 DEF Stays, recorded
  <2> QED BY <2>3 DEF LogStep
<1>6. CASE Publish
  BY <1>6, PublishKeepsOrder DEF Publish, LogStep, Stays, recorded, manager, store
<1>7. CASE Expire \/ RemoveSession
  BY <1>1, <1>7 DEF Expire, RemoveSession, LogStep, Leaves, recorded, session, store
<1>8. CASE Deliver
  <2> DEFINE e == Head(outbox).event
  <2>1. /\ settled' = Append(settled, e) /\ emitter' = [emitter EXCEPT ![e] = "returned"]
        /\ \/ ~Discarded(e) /\ inbox' = Append(inbox, e) /\ undelivered' = undelivered
           \/ inbox' = inbox /\ Keep(e)
           \/ Discarded(e) /\ inbox' = inbox /\ undelivered' = undelivered
        /\ UNCHANGED <<session, manager, handed>>
    BY <1>8 DEF Deliver
  <2>2. /\ CommitOrder' = CommitOrder /\ Len(settled) + 1 \in DOMAIN CommitOrder
        /\ e = CommitOrder[Len(settled) + 1]
    BY <1>8, DeliverKeepsOrder
  <2>3. e \in Events
    BY <2>2, OrderIsShaped DEF OrderShape
  <2> HIDE DEF e
  <2> QED BY <2>1, <2>2, <2>3 DEF LogStep, Settles, session, manager
<1>9. CASE Drain
  BY <1>1, <1>9 DEF Drain, LogStep, Hands, session, manager
<1>10. CASE EndRequest
  <2>1. CASE EnterTerminal(Ended)
    BY <1>4, <1>10, <2>1 DEF EndRequest, Terminal, Events, LogStep
  <2>2. CASE UNCHANGED <<outbox, worker, emitter, session>>
    <3>1. Stays
      BY <1>1, <1>10, <2>2 DEF EndRequest, Stays, recorded, session, store
    <3> QED BY <3>1 DEF LogStep
  <2> QED BY <1>10, <2>1, <2>2 DEF EndRequest
<1>11. CASE \E t \in Terminal : CallLost(t)
  BY <1>4, <1>11 DEF CallLost, LogStep, Events, manager
<1> QED BY <1>2, <1>3, <1>5, <1>6, <1>7, <1>8, <1>9, <1>10, <1>11
        DEF Next, Delivery, LogStep, Events
-----------------------------------------------------------------------------
(* The invariant *)

\* The event that is settled next was not settled before.
LEMMA SettledBefore ==
    ASSUME TypeOK, CommittedOnce, NEW e, Settles(e)
    PROVE  e \notin ToSet(settled) /\ e \in Events /\ emitter[e] # "idle"
<1>1. OrderShape /\ Len(settled) \in Nat /\ DOMAIN settled = 1 .. Len(settled)
  BY OrderIsShaped DEF TypeOK
<1>2. ASSUME NEW i \in DOMAIN settled PROVE settled[i] # e
  <2>1. /\ i \in DOMAIN CommitOrder /\ Len(settled) + 1 \in DOMAIN CommitOrder
        /\ i # Len(settled) + 1 /\ CommitOrder[i] = settled[i]
    BY <1>1, <1>2 DEF OrderShape, Settles
  <2> QED BY <2>1 DEF CommittedOnce, Settles
<1>3. e \in Events /\ emitter[e] # "idle"
  <2>1. Len(settled) + 1 \in DOMAIN CommitOrder /\ e = CommitOrder[Len(settled) + 1]
    BY DEF Settles
  <2>2. \A i \in DOMAIN CommitOrder : CommitOrder[i] \in Events
    BY <1>1 DEF OrderShape
  <2>3. \A i \in DOMAIN CommitOrder : emitter[CommitOrder[i]] # "idle"
    BY DEF CommittedOnce
  <2> QED BY <2>1, <2>2, <2>3
<1> QED BY <1>2, <1>3 DEF ToSet

\* While the end request waits, the session stays registered.
LEMMA WaitingStep ==
    ASSUME WaitingIsLive, [Next]_vars
    PROVE  WaitingIsLive'
BY DEF WaitingIsLive, Next, Delivery, EmitLocked, EmitSpeech, SpeechReturns, CancelTurn, CallLost, Publish,
       EndRequest, EndReturns, Expire, RemoveSession, Deliver, WorkerEnds, Drain,
       ChannelChanges, manager, vars

\* No event is committed twice.
LEMMA OnceStep ==
    ASSUME TypeOK, CommittedOnce, EndIsCommittedLast, LogStep
    PROVE  CommittedOnce' /\ EndIsCommittedLast'
<1>1. OrderShape
  BY OrderIsShaped
<1>2. ASSUME NEW e \in Events, Enters(e) PROVE CommittedOnce' /\ EndIsCommittedLast'
  <2> DEFINE n == Len(CommitOrder)
  <2>1. /\ n \in Nat /\ DOMAIN CommitOrder = 1 .. n /\ DOMAIN CommitOrder' = 1 .. n + 1
        /\ \A i \in 1 .. n : CommitOrder'[i] = CommitOrder[i] /\ CommitOrder[i] \in Events
        /\ CommitOrder'[n + 1] = e
    BY <1>1, <1>2, AppendProperties DEF Enters, OrderShape
  <2>2. \A i \in 1 .. n : CommitOrder[i] # e
    BY <1>2, <2>1 DEF CommittedOnce, Enters
  <2>3. \A x \in Events : emitter'[x] = IF x = e THEN "waiting" ELSE emitter[x]
    BY <1>2 DEF Enters, TypeOK
  <2> HIDE DEF n
  <2>4. CommittedOnce'
    <3>1. \A i, j \in 1 .. n + 1 : CommitOrder'[i] = CommitOrder'[j] => i = j
      BY <2>1, <2>2 DEF CommittedOnce
    <3>2. \A i \in 1 .. n + 1 : emitter'[CommitOrder'[i]] # "idle"
      BY <2>1, <2>3 DEF CommittedOnce
    <3> QED BY <2>1, <3>1, <3>2 DEF CommittedOnce
  <2>5. \A t \in Terminal : emitter'[t] # "idle" => call' # "live"
    BY <1>2, <2>3, TerminalAssumption DEF EndIsCommittedLast, Enters, Events, Terminal
  <2>6. ASSUME NEW i \in 1 .. n + 1, NEW j \in 1 .. n + 1, i < j,
               CommitOrder'[i] \in Terminal
        PROVE  CommitOrder'[j] \in Emitted /\ Kind[CommitOrder'[j]] \in {"speech", "failure"}
    <3>1. i \in 1 .. n
      BY <2>1, <2>6
    <3>2. CommitOrder[i] \in Terminal /\ call # "live"
      BY <2>1, <2>6, <3>1 DEF CommittedOnce, EndIsCommittedLast
    <3>3. CASE j = n + 1
      BY <1>2, <2>1, <3>2, <3>3 DEF Enters
    <3>4. CASE j \in 1 .. n
      BY <2>1, <2>6, <3>1, <3>2, <3>4 DEF EndIsCommittedLast
    <3> QED BY <2>1, <2>6, <3>3, <3>4
  <2> QED BY <2>1, <2>4, <2>5, <2>6 DEF EndIsCommittedLast
<1>3. ASSUME NEW e \in Events, Settles(e) PROVE CommittedOnce' /\ EndIsCommittedLast'
  <2>1. /\ CommitOrder' = CommitOrder /\ call' = call /\ emitter[e] # "idle"
        /\ \A x \in Events : emitter'[x] = IF x = e THEN "returned" ELSE emitter[x]
    BY <1>3, SettledBefore DEF Settles, TypeOK
  <2>2. \A i \in DOMAIN CommitOrder : CommitOrder[i] \in Events
    BY <1>1 DEF OrderShape
  <2> QED BY <2>1, <2>2 DEF CommittedOnce, EndIsCommittedLast, Events
<1>4. CASE Hands \/ Leaves \/ Stays
  BY <1>4 DEF Hands, Leaves, Stays, CommittedOnce, EndIsCommittedLast
<1> QED BY <1>2, <1>3, <1>4 DEF LogStep

\* Whatever was sent, handed over or kept was settled, and in one way only.
LEMMA AccountStep ==
    ASSUME TypeOK, CommittedOnce, Accounted, LogStep
    PROVE  Accounted'
<1>1. ASSUME NEW e \in Events, Settles(e) PROVE Accounted'
  <2>0. /\ \A s \in Seq(Events) : ToSet(Append(s, e)) = ToSet(s) \cup {e}
        /\ settled \in Seq(Events) /\ inbox \in Seq(Events) /\ undelivered \in Seq(Events)
    BY <1>1, MembersOfAppend DEF TypeOK
  <2>1. e \notin ToSet(settled) /\ ToSet(settled') = ToSet(settled) \cup {e}
    <3>1. e \notin ToSet(settled) /\ settled' = Append(settled, e)
      BY <1>1, SettledBefore DEF Settles
    <3> QED BY <2>0, <3>1
  <2>2. ToSet(inbox') \in {ToSet(inbox), ToSet(inbox) \cup {e}}
    BY <1>1, <2>0 DEF Settles, Keep
  <2>3. /\ ToSet(undelivered') \in {ToSet(undelivered), ToSet(undelivered) \cup {e}}
        /\ inbox' = inbox \/ undelivered' = undelivered
        /\ undelivered' # undelivered => e \in Recoverable
    BY <1>1, <2>0 DEF Settles, Keep
  <2>4. handed' = handed
    BY <1>1 DEF Settles
  <2> QED BY <2>1, <2>2, <2>3, <2>4 DEF Accounted
<1>2. CASE Hands
  <2>1. /\ ToSet(handed') = ToSet(handed) \cup ToSet(undelivered)
        /\ ToSet(undelivered') = {} /\ settled' = settled /\ inbox' = inbox
    BY <1>2, MembersOfConcat, MembersAreTyped DEF Hands, TypeOK
  <2> QED BY <2>1 DEF Accounted
<1>3. CASE (\E e \in Events : Enters(e)) \/ Leaves \/ Stays
  BY <1>3 DEF Enters, Leaves, Stays, recorded, Accounted
<1> QED BY <1>1, <1>2, <1>3 DEF LogStep

\* A turn that is in no record any more is never cancelled.
LEMMA LooseStays ==
    ASSUME [Next]_vars
    PROVE  turn = "loose" => turn' = "loose"
BY DEF Next, Delivery, EmitLocked, EmitSpeech, SpeechReturns, CancelTurn, CallLost,
       EnterTerminal, Publish, EndRequest, EndReturns, Expire, RemoveSession, Deliver,
       WorkerEnds, Drain, ChannelChanges, session, vars

\* The terminal event is known, and settled, only when the turn is cancelled or loose.
LEMMA CancelsStep ==
    ASSUME TypeOK, EndCancels, [Next]_vars
    PROVE  EndCancels'
<1>0. outbox \in Seq(Entries) /\ DOMAIN outbox = 1 .. Len(outbox) /\ Len(outbox) \in Nat
  BY DEF TypeOK, Entries
<1>1. ASSUME NEW e \in Events, NEW ready \in BOOLEAN, Commit(e, ready), settled' = settled,
             ready => e \notin Terminal, call' = "over" <=> call = "over",
             turn' = turn
      PROVE  EndCancels'
  <2> DEFINE n == Len(outbox)
             new == [event |-> e, ready |-> ready]
  <2>1. /\ DOMAIN outbox' = 1 .. n + 1 /\ outbox'[n + 1] = new
        /\ \A i \in 1 .. n : outbox'[i] = outbox[i]
    <3>1. new \in Entries /\ outbox' = Append(outbox, new)
      BY <1>1 DEF Commit, Entries
    <3> HIDE DEF new
    <3> QED BY <1>0, <3>1, AppendProperties
  <2>2. new.event = e /\ new.ready = ready
    OBVIOUS
  <2> HIDE DEF new, n
  <2>3. \A i \in 1 .. n : outbox[i].ready /\ outbox[i].event \in Terminal => call = "over"
    BY <1>0 DEF EndCancels, n
  <2>4. n \in Nat
    BY <1>0 DEF n
  <2>5. \A i \in 1 .. n + 1 :
           outbox'[i].ready /\ outbox'[i].event \in Terminal => call' = "over"
    BY <1>1, <2>1, <2>2, <2>3, <2>4
  <2> QED BY <1>1, <2>1, <2>5 DEF EndCancels
<1>2. ASSUME outbox' = outbox, settled' = settled, call' = call, call = "over" => turn' # "held"
      PROVE  EndCancels'
  BY <1>2 DEF EndCancels
<1>3. ASSUME NEW e \in Emitted, EmitLocked(e) \/ EmitSpeech(e) PROVE EndCancels'
  <2>1. Commit(e, TRUE) /\ settled' = settled /\ call' = call /\ turn' = turn
    BY <1>3 DEF EmitLocked, EmitSpeech, session, store
  <2>2. e \in Events /\ e \notin Terminal
    BY TerminalAssumption DEF Events, Terminal
  <2> QED BY <1>1, <2>1, <2>2
<1>4. ASSUME NEW t \in Terminal, EnterTerminal(t), UNCHANGED store PROVE EndCancels'
  <2>1. /\ Commit(t, FALSE) /\ settled' = settled /\ turn' = turn
        /\ call' = "over" <=> call = "over"
    BY <1>4 DEF EnterTerminal, store
  <2> QED BY <1>1, <2>1 DEF Events
<1>5. CASE \/ SpeechReturns \/ CancelTurn \/ EndReturns \/ Expire \/ RemoveSession
          \/ WorkerEnds \/ Drain \/ ChannelChanges \/ UNCHANGED vars
  <2>1. outbox' = outbox /\ settled' = settled /\ call' = call
    BY <1>5 DEF SpeechReturns, CancelTurn, EndReturns, Expire, RemoveSession, WorkerEnds,
                Drain, ChannelChanges, session, store, vars
  <2>2. turn # "held" => turn' # "held"
    BY <1>5 DEF SpeechReturns, CancelTurn, EndReturns, Expire, RemoveSession, WorkerEnds,
                Drain, ChannelChanges, session, vars
  <2> QED BY <1>2, <2>1, <2>2 DEF EndCancels
<1>6. CASE Publish
  <2>1. call' = "over" /\ turn' # "held"
    BY <1>6 DEF Publish
  <2> QED BY <2>1 DEF EndCancels
<1>7. CASE Deliver
  <2> DEFINE e == Head(outbox).event
  <2>1. /\ outbox # <<>> /\ Head(outbox).ready /\ outbox' = Tail(outbox)
        /\ settled' = Append(settled, e) /\ call' = call /\ turn' = turn
    BY <1>7 DEF Deliver, session
  <2>2. /\ 1 \in DOMAIN outbox /\ Head(outbox) = outbox[1] /\ e \in Events
        /\ DOMAIN outbox' = 1 .. Len(outbox) - 1
        /\ \A i \in DOMAIN outbox' : i + 1 \in DOMAIN outbox /\ outbox'[i] = outbox[i + 1]
    <3>1. /\ Head(outbox) = outbox[1] /\ Head(outbox) \in Entries /\ 1 \in 1 .. Len(outbox)
          /\ DOMAIN outbox' = 1 .. Len(outbox) - 1
          /\ \A i \in 1 .. Len(outbox) - 1 : outbox'[i] = outbox[i + 1]
      BY <1>0, <2>1
    <3> QED BY <1>0, <3>1 DEF Entries
  <2>3. e \in Terminal => call = "over"
    BY <2>1, <2>2 DEF EndCancels
  <2> HIDE DEF e
  <2>4. ToSet(settled') = ToSet(settled) \cup {e}
    BY <2>1, <2>2, MembersOfAppend DEF TypeOK
  <2>5. \A i \in DOMAIN outbox' :
           outbox'[i].ready /\ outbox'[i].event \in Terminal => call' = "over"
    BY <2>1, <2>2 DEF EndCancels
  <2> QED BY <2>1, <2>3, <2>4, <2>5 DEF EndCancels
<1>8. CASE EndRequest
  <2>1. CASE EnterTerminal(Ended)
    BY <1>4, <1>8, <2>1 DEF EndRequest, Terminal
  <2>2. CASE UNCHANGED <<outbox, worker, emitter, session>>
    <3>1. outbox' = outbox /\ settled' = settled /\ call' = call /\ turn' = turn
      BY <1>8, <2>2 DEF EndRequest, session, store
    <3> QED BY <1>2, <3>1 DEF EndCancels
  <2> QED BY <1>8, <2>1, <2>2 DEF EndRequest
<1>9. CASE \E t \in Terminal : CallLost(t)
  BY <1>4, <1>9 DEF CallLost
<1> QED BY <1>3, <1>5, <1>6, <1>7, <1>8, <1>9 DEF Next, Delivery

\* The browser hears nothing behind the end but failures and a turn that nothing cancelled.
LEMMA LastStep ==
    ASSUME Inv, LogStep, turn = "loose" => turn' = "loose"
    PROVE  EndIsLast'
<1> USE DEF Inv
<1>1. ASSUME NEW e \in Events, Settles(e), ~Discarded(e), inbox' = Append(inbox, e)
      PROVE  EndIsLast'
  <2>1. /\ Len(inbox) \in Nat /\ DOMAIN inbox = 1 .. Len(inbox)
        /\ DOMAIN inbox' = 1 .. Len(inbox) + 1
        /\ \A i \in 1 .. Len(inbox) : inbox'[i] = inbox[i]
        /\ inbox'[Len(inbox) + 1] = e
    BY <1>1, AppendProperties DEF TypeOK
  <2>2. ASSUME NEW i \in 1 .. Len(inbox), inbox[i] \in Terminal
        PROVE  e \in Emitted /\ (Kind[e] = "failure" \/ (Kind[e] = "speech" /\ turn = "loose"))
    <3>1. OrderShape /\ Len(settled) \in Nat /\ DOMAIN settled = 1 .. Len(settled)
      BY OrderIsShaped DEF TypeOK
    <3>2. inbox[i] \in ToSet(settled)
      BY <2>1, <2>2 DEF Accounted, ToSet
    <3>3. PICK k \in 1 .. Len(settled) : settled[k] = inbox[i]
      BY <3>1, <3>2 DEF ToSet
    <3>4. /\ k \in DOMAIN CommitOrder /\ CommitOrder[k] \in Terminal /\ k < Len(settled) + 1
          /\ Len(settled) + 1 \in DOMAIN CommitOrder /\ CommitOrder[Len(settled) + 1] = e
      BY <1>1, <2>2, <3>1, <3>3 DEF OrderShape, Settles
    <3>5. e \in Emitted /\ Kind[e] \in {"speech", "failure"}
      BY <3>4 DEF EndIsCommittedLast
    <3>6. turn # "held" /\ turn \in {"held", "loose", "cancelled"}
      BY <2>2, <3>2 DEF EndCancels, TypeOK
    <3> QED BY <1>1, <3>5, <3>6 DEF Discarded
  <2>3. turn' = turn
    BY <1>1 DEF Settles
  <2> QED BY <2>1, <2>2, <2>3 DEF EndIsLast
<1>2. CASE inbox' = inbox
  BY <1>2 DEF EndIsLast
<1> QED BY <1>1, <1>2 DEF LogStep, Enters, Settles, Hands, Leaves, Stays, recorded

\* The types, the order and the accounts of the outbox.
THEOREM InvHolds == Spec => []Inv
<1>1. Init => Inv
  <2> SUFFICES ASSUME Init PROVE Inv
    OBVIOUS
  <2>1. TypeOK
    <3>1. \A S : <<>> \in Seq(S)
      BY EmptySeq
    <3>2. emitter \in [Events -> {"idle", "waiting", "returned"}]
      BY DEF Init
    <3>3. 0 \in 0 .. MaxChannel /\ 0 \in 0 .. MaxFaults
      BY BoundsAssumption
    <3> QED BY <3>1, <3>2, <3>3 DEF Init, TypeOK
  <2>2. CommitOrder = <<>>
    <3>1. OrderShape /\ Len(settled) = 0 /\ Len(outbox) = 0
      BY <2>1, OrderIsShaped, EmptySeq DEF Init
    <3> QED BY <3>1, EmptySeq DEF OrderShape
  <2>3. CommittedOnce /\ EndIsCommittedLast
    BY <2>2 DEF Init, CommittedOnce, EndIsCommittedLast, Events
  <2>4. Accounted /\ EndIsLast /\ EndCancels
    BY MembersAreTyped DEF Init, Accounted, EndIsLast, EndCancels, ToSet
  <2> QED BY <2>1, <2>3, <2>4 DEF Inv, WaitingIsLive, Init
<1>2. Inv /\ [Next]_vars => Inv'
  <2> SUFFICES ASSUME Inv, [Next]_vars PROVE Inv'
    OBVIOUS
  <2>1. TypeOK' /\ LogStep
    BY TypeStep, EveryStepIsLogged DEF Inv
  <2>2. EndCancels' /\ EndIsLast'
    BY <2>1, CancelsStep, LooseStays, LastStep DEF Inv
  <2> QED BY <2>1, <2>2, OnceStep, AccountStep, WaitingStep DEF Inv
<1> QED BY <1>1, <1>2, PTL DEF Spec

\* Behind the terminal event the browser hears of no user turn and no control, for the lock
\* orders their commits before it, and of no speech that the cleanup of the end cancelled,
\* though its task writes session.state over "ended": _deliver_event asks for the turn too.
THEOREM TheEndIsLast == Spec => []EndIsLast
BY InvHolds, PTL DEF Inv
-----------------------------------------------------------------------------
(* The refinement *)

\* The fates are told apart, because what happened to an event happened once.
FateShape ==
    /\ DOMAIN Fate = Events
    /\ \A e \in Events :
        /\ e \in ToSet(inbox) => Fate[e] = "sent"
        /\ e \in ToSet(handed) => Fate[e] = "handed"
        /\ e \in ToSet(undelivered) =>
              Fate[e] = IF registry = "gone" THEN "dropped" ELSE "kept"
        /\ e \in ToSet(settled) \ (ToSet(inbox) \cup ToSet(handed) \cup ToSet(undelivered)) =>
              Fate[e] = "dropped"
        /\ e \notin ToSet(settled) => Fate[e] = "none"

\* The fate of an event read off the variables of the outbox, one case per place it is in.
LEMMA FateIsShaped == TypeOK /\ Accounted => FateShape
<1> SUFFICES ASSUME TypeOK, Accounted PROVE FateShape
  OBVIOUS
<1>1. ToSet(inbox \o handed \o undelivered) =
        ToSet(inbox) \cup ToSet(handed) \cup ToSet(undelivered)
  <2>1. inbox \in Seq(Events) /\ handed \in Seq(Events) /\ undelivered \in Seq(Events)
    BY DEF TypeOK
  <2>2. inbox \o handed \in Seq(Events)
    BY <2>1, ConcatProperties
  <2>3. ToSet(inbox \o handed) = ToSet(inbox) \cup ToSet(handed)
    BY <2>1, MembersOfConcat
  <2> DEFINE kept == inbox \o handed
  <2>4. kept \in Seq(Events) /\ undelivered \in Seq(Events)
    BY <2>1, <2>2
  <2> HIDE DEF kept
  <2>5. ToSet(kept \o undelivered) = ToSet(kept) \cup ToSet(undelivered)
    BY <2>4, MembersOfConcat
  <2> QED BY <2>3, <2>5 DEF kept
<1> DEFINE B == ToSet(inbox)
           H == ToSet(handed)
           U == ToSet(undelivered)
           S == ToSet(settled)
<1>2. /\ B \cup H \cup U \subseteq S
      /\ B \cap H = {} /\ B \cap U = {} /\ H \cap U = {}
  BY DEF Accounted
<1>3. Fate = [e \in Events |->
                CASE e \in B -> "sent"
                  [] e \in H -> "handed"
                  [] e \in U -> IF registry = "gone" THEN "dropped" ELSE "kept"
                  [] e \in S \ (B \cup H \cup U) -> "dropped"
                  [] OTHER -> "none"]
  BY <1>1 DEF Fate
<1> HIDE DEF B, H, U, S
<1>4. FateShape
  <2>1. DOMAIN Fate = Events
    BY <1>3
  <2>2. ASSUME NEW e \in Events
        PROVE  /\ e \in B => Fate[e] = "sent"
               /\ e \in H => Fate[e] = "handed"
               /\ e \in U => Fate[e] = IF registry = "gone" THEN "dropped" ELSE "kept"
               /\ e \in S \ (B \cup H \cup U) => Fate[e] = "dropped"
               /\ e \notin S => Fate[e] = "none"
    BY <1>2, <1>3
  <2> QED BY <2>1, <2>2 DEF FateShape, B, H, U, S
<1> QED BY <1>4

\* Entering the log.
LEMMA EntersIsCommit ==
    ASSUME Inv, NEW e \in Events, Enters(e)
    PROVE  Log!Commit(e)
<1>1. \A i \in 1 .. Len(CommitOrder) : CommitOrder[i] # e
  BY OrderIsShaped DEF Inv, CommittedOnce, Enters, OrderShape
<1>2. Fate' = Fate
  BY DEF Enters, recorded, Fate
<1> QED BY <1>1, <1>2 DEF Enters, recorded, Log!Commit

\* Settling the first waiting event.
LEMMA SettlesIsSettle ==
    ASSUME Inv, Inv', NEW e \in Events, Settles(e)
    PROVE  Log!Settle
<1>1. /\ OrderShape /\ Len(settled) \in Nat
      /\ Len(settled) + 1 \in DOMAIN CommitOrder /\ e = CommitOrder[Len(settled) + 1]
      /\ CommitOrder' = CommitOrder /\ registry' = registry
  BY OrderIsShaped DEF Inv, TypeOK, Settles
<1>2. Len(settled) < Len(CommitOrder) /\ Len(settled') = Len(settled) + 1
  <2>1. Len(settled') = Len(settled) + 1
    BY AppendProperties DEF Settles, Inv, TypeOK
  <2> QED BY <1>1, <2>1 DEF OrderShape
<1>3. FateShape /\ FateShape'
  <2>1. TypeOK /\ Accounted /\ (TypeOK /\ Accounted)'
    BY DEF Inv
  <2> QED BY <2>1, FateIsShaped, PTL
<1>4. e \notin ToSet(settled) /\ ToSet(settled') = ToSet(settled) \cup {e}
  <2>1. e \notin ToSet(settled) /\ settled' = Append(settled, e)
    BY SettledBefore DEF Settles, Inv
  <2>2. settled \in Seq(Events)
    BY DEF Inv, TypeOK
  <2> QED BY <2>1, <2>2, MembersOfAppend
<1>5. \A s \in Seq(Events) : ToSet(Append(s, e)) = ToSet(s) \cup {e}
  BY MembersOfAppend
<1>6. inbox \in Seq(Events) /\ undelivered \in Seq(Events) /\ handed' = handed
  BY DEF Inv, TypeOK, Settles
<1>7. e \notin ToSet(inbox) /\ e \notin ToSet(handed) /\ e \notin ToSet(undelivered)
  BY <1>4 DEF Inv, Accounted
<1>8. ASSUME NEW x \in Events, x # e PROVE Fate'[x] = Fate[x]
  <2>1. inbox' \in {inbox, Append(inbox, e)}
    BY DEF Settles
  <2>2. undelivered' \in {undelivered, Append(undelivered, e)}
    BY DEF Settles, Keep
  <2>3. /\ ToSet(inbox') = ToSet(inbox) \/ ToSet(inbox') = ToSet(inbox) \cup {e}
        /\ ToSet(undelivered') = ToSet(undelivered)
             \/ ToSet(undelivered') = ToSet(undelivered) \cup {e}
    BY <1>5, <1>6, <2>1, <2>2
  <2>4. /\ x \in ToSet(inbox') <=> x \in ToSet(inbox)
        /\ x \in ToSet(undelivered') <=> x \in ToSet(undelivered)
        /\ x \in ToSet(settled') <=> x \in ToSet(settled)
        /\ ToSet(handed') = ToSet(handed)
    BY <1>4, <1>6, <1>8, <2>3
  <2> QED BY <1>1, <1>3, <1>8, <2>4 DEF FateShape
<1>9. Fate'[e] \in {"sent", IF e \in Recoverable /\ registry # "gone" THEN "kept" ELSE "dropped"}
  <2>1. CASE inbox' = Append(inbox, e)
    BY <1>3, <1>5, <1>6, <2>1 DEF FateShape
  <2>2. CASE inbox' = inbox /\ undelivered' = Append(undelivered, e) /\ e \in Recoverable
    BY <1>1, <1>3, <1>5, <1>6, <2>2 DEF FateShape
  <2>3. CASE inbox' = inbox /\ undelivered' = undelivered /\ e \notin Recoverable
    <3>1. e \in ToSet(settled') \ (ToSet(inbox') \cup ToSet(handed') \cup ToSet(undelivered'))
      BY <1>4, <1>6, <1>7, <2>3
    <3> QED BY <1>3, <2>3, <3>1 DEF FateShape
  <2>4. Discarded(e) => e \notin Recoverable
    BY TerminalAssumption DEF Discarded, Recoverable
  <2> QED BY <2>1, <2>2, <2>3, <2>4 DEF Settles, Keep
<1>10. Fate' = [Fate EXCEPT ![e] = Fate'[e]]
  <2>1. DOMAIN Fate = Events /\ DOMAIN Fate' = Events
    BY <1>3 DEF FateShape
  <2>2. Fate = [x \in Events |-> Fate[x]] /\ Fate' = [x \in Events |-> Fate'[x]]
    BY DEF Fate
  <2> DEFINE f == Fate
             g == Fate'
  <2>3. \A x \in Events : x # e => g[x] = f[x]
    BY <1>8
  <2> HIDE DEF f, g
  <2>4. g = [f EXCEPT ![e] = g[e]]
    BY <2>2, <2>3 DEF f, g
  <2> QED BY <2>4 DEF f, g
<1> QED BY <1>1, <1>2, <1>9, <1>10 DEF Log!Settle

\* A drain hands over whatever is kept.
LEMMA HandsIsHandOver ==
    ASSUME Inv, Inv', Hands
    PROVE  Log!HandOver
<1>1. FateShape /\ FateShape'
  <2>1. TypeOK /\ Accounted /\ (TypeOK /\ Accounted)'
    BY DEF Inv
  <2> QED BY <2>1, FateIsShaped, PTL
<1>2. /\ ToSet(handed') = ToSet(handed) \cup ToSet(undelivered)
      /\ ToSet(undelivered') = {}
      /\ ToSet(settled') = ToSet(settled) /\ ToSet(inbox') = ToSet(inbox)
  <2>1. handed \in Seq(Events) /\ undelivered \in Seq(Events)
    BY DEF Inv, TypeOK
  <2> QED BY <2>1, MembersOfConcat, MembersAreTyped DEF Hands
<1>3. ToSet(inbox) \cup ToSet(handed) \cup ToSet(undelivered) \subseteq ToSet(settled)
  BY DEF Inv, Accounted
<1>4. registry # "gone" /\ registry' # "gone"
  BY DEF Hands
<1>5. \A e \in Events : Fate'[e] = IF Fate[e] = "kept" THEN "handed" ELSE Fate[e]
  BY <1>1, <1>2, <1>3, <1>4 DEF FateShape
<1>6. Fate' = [e \in Events |-> IF Fate[e] = "kept" THEN "handed" ELSE Fate[e]]
  BY <1>5 DEF Fate
<1> QED BY <1>4, <1>6 DEF Hands, Log!HandOver, Log!Become

\* The session is forgotten, and what it kept with it.
LEMMA LeavesIsRetire ==
    ASSUME Inv, Inv', Leaves
    PROVE  Log!Retire
<1>1. FateShape /\ FateShape'
  <2>1. TypeOK /\ Accounted /\ (TypeOK /\ Accounted)'
    BY DEF Inv
  <2> QED BY <2>1, FateIsShaped, PTL
<1>2. ToSet(inbox) \cup ToSet(handed) \cup ToSet(undelivered) \subseteq ToSet(settled)
  BY DEF Inv, Accounted
<1>3. UNCHANGED recorded /\ registry # "gone" /\ registry' = "gone"
  BY DEF Leaves
<1>4. \A e \in Events : Fate'[e] = IF Fate[e] = "kept" THEN "dropped" ELSE Fate[e]
  BY <1>1, <1>2, <1>3 DEF FateShape, recorded
<1>5. Fate' = [e \in Events |-> IF Fate[e] = "kept" THEN "dropped" ELSE Fate[e]]
  BY <1>4 DEF Fate
<1> QED BY <1>3, <1>5 DEF Leaves, recorded, Log!Retire, Log!Become

\* The outbox is an event log: commit order, one settlement per event, and no recoverable
\* event dropped while the session can still be asked for it (_deliver_event,
\* drain_session_events, CallSessionManager's retention).
THEOREM OutboxIsALog == Spec => ImplementsLog
<1>1. Init => Log!Init
  <2> SUFFICES ASSUME Init PROVE Log!Init
    OBVIOUS
  <2>1. DOMAIN outbox = {} /\ Len(settled) = 0 /\ registry # "gone"
    BY DEF Init
  <2>2. CommitOrder = <<>>
    <3>1. Waiting = <<>>
      BY <2>1 DEF Waiting, Init
    <3> QED BY <3>1, ConcatEmptySeq, EmptySeq DEF CommitOrder, Init
  <2>3. Fate = [e \in Events |-> "none"]
    <3>1. ToSet(<<>>) = {} /\ <<>> \o <<>> = <<>>
      BY MembersAreTyped, ConcatEmptySeq, EmptySeq
    <3> QED BY <3>1 DEF Init, Fate
  <2> QED BY <2>1, <2>2, <2>3 DEF Log!Init
<1>2. Inv /\ Inv' /\ [Next]_vars => [Log!Next]_(Log!vars)
  <2> SUFFICES ASSUME Inv, Inv', [Next]_vars PROVE [Log!Next]_(Log!vars)
    OBVIOUS
  <2>1. LogStep
    BY EveryStepIsLogged DEF Inv
  <2>2. ASSUME NEW e \in Events, Enters(e) \/ Settles(e) PROVE Log!Next
    BY <2>2, EntersIsCommit, SettlesIsSettle DEF Log!Next
  <2>3. CASE Hands \/ Leaves
    BY <2>3, HandsIsHandOver, LeavesIsRetire DEF Log!Next
  <2>4. CASE Stays
    <3>1. Fate' = Fate
      BY <2>4 DEF Stays, recorded, Fate
    <3> QED BY <2>4, <3>1 DEF Stays, recorded, Log!vars
  <2> QED BY <2>1, <2>2, <2>3, <2>4 DEF LogStep
<1> QED BY <1>1, <1>2, InvHolds, PTL DEF Spec, ImplementsLog, Log!Spec
=============================================================================
