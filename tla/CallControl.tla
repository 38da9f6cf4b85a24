----------------------------- MODULE CallControl -----------------------------
(***************************************************************************)
(* The control requests of one call across its three hosts: the call page  *)
(* (routes/call/[threadId]/+page.svelte), the web server (api/calls.py and *)
(* call_service.py) and the AI backend (api/webrtc.py and CallSession).    *)
(* The page sends requests to the web server, whose handler asks the       *)
(* backend through AiBackendClient and answers the page.  Either side may  *)
(* stop waiting: the page aborts a mute request after its own deadline,    *)
(* the client gives up after its HTTP timeout, and the request it gave up  *)
(* may be lost or may still be carried out later.                          *)
(*                                                                         *)
(* Every accepted mute change gets the next revision; revision n is entry  *)
(* n of muteLog.  The backend also sends it to the page as an event, and   *)
(* the page applies a state only if it is not older than the one it has.   *)
(* An event that finds no open channel is dropped: a muted event is not    *)
(* kept for a drain (see EventOutbox), so a drain is no part of this.      *)
(***************************************************************************)
EXTENDS Naturals, FiniteSets, Sequences

CONSTANTS
  Requests,      \* slots for requests of the page that are under way
  MaxRevision,   \* bound on the mute changes of the call
  MaxPolls,      \* status polls of _prepare_call_voice
  None

ASSUME RequestsAssumption == IsFiniteSet(Requests) /\ Requests # {}
ASSUME BoundsAssumption == MaxRevision \in Nat /\ MaxPolls \in Nat \ {0}
ASSUME NoneAssumption == None \notin Requests

VARIABLES
  page,      \* the page: its stage, and what it shows of the mute state
  owner,     \* activeMuteRequest
  req,       \* the requests: handler, backend job and answer
  call,      \* ActiveCall: "none", "live" or "ended"
  session,   \* the CallSession of the backend
  muteLog,   \* the mute states the backend has accepted, by revision
  channel,   \* revisions whose event is on its way to the page
  wish,      \* history: the target of the last mute request of the user
  gaveUp,    \* history: the page has given up a request to unmute
  missed,    \* history: newest revision whose event was dropped, by either side
  leaks      \* history: how a session may have escaped the end of its call

vars == <<page, owner, req, call, session, muteLog, channel,
          wish, gaveUp, missed, leaks>>

Kinds == {"start", "offer", "mute", "end"}

Error == [ok |-> FALSE, muted |-> FALSE, rev |-> 0]
Done(muted, rev) == [ok |-> TRUE, muted |-> muted, rev |-> rev]

NoRequest == [kind |-> "none", muted |-> FALSE, st |-> "idle", job |-> "none",
              res |-> Error, polls |-> 0]

Muted == IF muteLog = <<>> THEN FALSE ELSE muteLog[Len(muteLog)]

Epoch(rev) ==
  Cardinality({n \in 1..rev : muteLog[n] /\ (n = 1 \/ ~muteLog[n - 1])})

Owners == [target : BOOLEAN, attempt : 1..2, stage : {"ask", "compensate"},
           req : Requests]

NewPage == [st |-> "idle", shown |-> FALSE, rev |-> 0, failed |-> FALSE, mic |-> FALSE]

Init ==
  /\ page = NewPage
  /\ owner = None
  /\ req = [r \in Requests |-> NoRequest]
  /\ call = "none" /\ session = "none"
  /\ muteLog = <<>> /\ channel = <<>>
  /\ wish = FALSE /\ gaveUp = FALSE /\ missed = 0 /\ leaks = {}

backendVars == <<session, muteLog, channel>>
historyVars == <<gaveUp, missed, leaks>>

-----------------------------------------------------------------------------
(* The page sends a request in a free slot. *)

Free(r) == req[r].st = "idle" /\ req[r].job = "none"

Sent(r, kind, muted) ==
  [req EXCEPT ![r] = [NoRequest EXCEPT !.kind = kind, !.muted = muted, !.st = "web"]]

PageStarts(r) ==
  /\ page.st = "idle" /\ Free(r)
  /\ page' = [page EXCEPT !.st = "starting"]
  /\ req' = Sent(r, "start", FALSE)
  /\ UNCHANGED <<owner, call, backendVars, wish, historyVars>>

\* The first offer, and the offers of a reconnect.
PageOffers(r) ==
  /\ page.st \in {"started", "oncall"} /\ Free(r)
  /\ \A q \in Requests : req[q].kind = "offer" => req[q].st = "idle"
  /\ page' = [page EXCEPT !.st = IF @ = "started" THEN "offering" ELSE @]
  /\ req' = Sent(r, "offer", FALSE)
  /\ UNCHANGED <<owner, call, backendVars, wish, historyVars>>

\* hangup, and the end after a failed setup: the page stops its media first.
StopBrowserMedia ==
  /\ page' = [NewPage EXCEPT !.st = "left"]
  /\ owner' = None
  /\ wish' = FALSE /\ gaveUp' = FALSE /\ missed' = 0

Leave(r) ==
  /\ Free(r)
  /\ StopBrowserMedia
  /\ req' = Sent(r, "end", FALSE)
  /\ UNCHANGED <<call, session, muteLog, channel, leaks>>

PageHangsUp(r) == page.st \in {"started", "offering", "oncall"} /\ Leave(r)

PageGoesAway ==
  /\ page.st \notin {"idle", "left"}
  /\ StopBrowserMedia
  /\ UNCHANGED <<req, call, session, muteLog, channel, leaks>>

-----------------------------------------------------------------------------
(* The mute control of the page. *)

ApplyMuteTarget(r, target) ==
  /\ page.st = "oncall" /\ owner = None /\ Free(r)
  /\ owner' = [target |-> target, attempt |-> 1, stage |-> "ask", req |-> r]
  /\ page' = [page EXCEPT !.shown = target, !.mic = FALSE]
  /\ req' = Sent(r, "mute", target)
  /\ wish' = target
  /\ UNCHANGED <<call, backendVars, historyVars>>

ToggleMute(r) == ~page.failed /\ ApplyMuteTarget(r, ~page.shown)

RetryMuteSynchronization(r) == page.failed /\ ApplyMuteTarget(r, TRUE)

\* Mutant: a state is applied in the order in which it arrives.
AcceptsAnyRevision(muted, rev) == TRUE

\* What applyAuthoritativeMuteState accepts.
Accepts(muted, rev) ==
  /\ Epoch(rev) >= Epoch(page.rev)
  /\ rev >= page.rev
  /\ rev = page.rev => muted = page.shown

Applied(muted, rev) ==
  [page EXCEPT !.shown = muted, !.rev = rev, !.failed = FALSE, !.mic = ~muted]

Settled(p) == [p EXCEPT !.mic = ~p.shown /\ ~p.failed]

\* The answer in slot q is done with; a job it left behind goes on.
Heard(q) ==
  [req EXCEPT ![q] = IF @.job = "none" THEN NoRequest
                     ELSE [@ EXCEPT !.st = "idle", !.res = Error, !.polls = 0]]

\* A further mute request, in slot r.
SendMute(r, base, muted) ==
  /\ base[r].st = "idle" /\ base[r].job = "none"
  /\ req' = [base EXCEPT ![r] = [NoRequest EXCEPT !.kind = "mute", !.muted = muted, !.st = "web"]]

\* The error path of applyMuteTarget: show muted, and ask for a mute.
MuteFails(r, base) ==
  /\ page' = [page EXCEPT !.shown = TRUE, !.failed = TRUE, !.mic = FALSE]
  /\ owner' = [owner EXCEPT !.stage = "compensate", !.req = r]
  /\ SendMute(r, base, TRUE)
  /\ gaveUp' = (gaveUp \/ ~owner.target)

\* The deadline of requestAuthoritativeMute: the request is aborted, which
\* its handler does not notice.
MuteTimesOut(r) ==
  /\ owner # None /\ owner.stage = "ask"
  /\ MuteFails(r, req)
  /\ UNCHANGED <<call, backendVars, wish, missed, leaks>>

CompensationTimesOut ==
  /\ owner # None /\ owner.stage = "compensate"
  /\ owner' = None
  /\ page' = Settled(page)
  /\ UNCHANGED <<req, call, backendVars, wish, historyVars>>

Owned(q) == owner # None /\ owner.req = q

\* requestAuthoritativeMute hears its own answer, in slot q: a state, or an
\* error or the state of somebody else, after which it asks once more.
HearMute(q, r) ==
  LET res == req[q].res
      authoritative == res.ok /\ res.muted = owner.target
  IN
  /\ req[q].kind = "mute" /\ req[q].st = "reply" /\ Owned(q) /\ owner.stage = "ask"
  /\ \/ /\ authoritative /\ Accepts(res.muted, res.rev) /\ r = q
        /\ page' = Applied(res.muted, res.rev)
        /\ owner' = None
        /\ req' = Heard(q)
        /\ UNCHANGED gaveUp
     \/ /\ ~authoritative /\ owner.attempt = 1
        /\ owner' = [owner EXCEPT !.attempt = 2, !.req = r]
        /\ SendMute(r, Heard(q), owner.target)
        /\ gaveUp' = (gaveUp \/ ~owner.target)
        /\ UNCHANGED page
     \/ /\ IF authoritative THEN ~Accepts(res.muted, res.rev) ELSE owner.attempt = 2
        /\ MuteFails(r, Heard(q))
  /\ UNCHANGED <<call, backendVars, wish, missed, leaks>>

HearCompensation(q) ==
  LET res == req[q].res
      usable == res.ok /\ res.muted /\ Accepts(TRUE, res.rev)
  IN
  /\ req[q].kind = "mute" /\ req[q].st = "reply" /\ Owned(q) /\ owner.stage = "compensate"
  /\ page' = Settled(IF usable THEN Applied(TRUE, res.rev) ELSE page)
  /\ owner' = None
  /\ req' = Heard(q)
  /\ UNCHANGED <<call, backendVars, wish, historyVars>>

\* The 'muted' branch of handleCallDataEvent.  An event that contradicts the
\* target of the request under way is dropped; an accepted one settles a
\* request that still asks, and changes the page while it compensates.
Newer(rev) == IF rev > missed /\ page.st # "left" THEN rev ELSE missed

Contradicts(rev) == owner # None /\ muteLog[rev] # owner.target

HandleMutedEvent(rev) ==
  LET applies == page.st = "oncall" /\ ~Contradicts(rev) /\ Accepts(muteLog[rev], rev) IN
  /\ page' = IF applies THEN Applied(muteLog[rev], rev) ELSE page
  /\ owner' = IF applies /\ owner # None /\ owner.stage = "ask" THEN None ELSE owner
  /\ missed' = IF page.st = "oncall" /\ Contradicts(rev) THEN Newer(rev) ELSE missed
  /\ UNCHANGED <<req, call, session, muteLog, wish, gaveUp, leaks>>

ChannelEvent ==
  /\ channel # <<>> /\ channel' = Tail(channel)
  /\ HandleMutedEvent(Head(channel))

\* _deliver_event finds no open channel, its send raises, or the transport breaks with the
\* event under way: the type is not in CALL_RECOVERABLE_EVENT_TYPES, nothing is kept.
EventDropped ==
  /\ channel # <<>> /\ channel' = Tail(channel)
  /\ missed' = Newer(Head(channel))
  /\ UNCHANGED <<page, owner, req, call, session, muteLog, wish, gaveUp, leaks>>

-----------------------------------------------------------------------------
(* The handlers of the web server. *)

\* session_for_call finds the call: one that has ended is still there.  (The
\* page learns the call's name from start, so the call is never unknown.)
ActiveCall == call # "none"

\* The handler asks the backend; start has no call yet, and end publishes
\* ended_at (begin_end) before it asks.
Ask(r) ==
  /\ req[r].st = "web" /\ (req[r].kind = "start" \/ ActiveCall)
  /\ req' = [req EXCEPT ![r].st = "waiting", ![r].job = "queued"]
  /\ UNCHANGED <<page, owner, backendVars, wish, historyVars>>

Handle(r) == req[r].kind # "end" /\ Ask(r) /\ UNCHANGED call
BeginEnd(r) == req[r].kind = "end" /\ Ask(r) /\ call' = "ended"

\* Refused before anything is asked: the thread or the character is gone, the voice
\* of the call is gone, changed or unreadable, or the prompt of an offer is beyond its limits.
Refuse(r) ==
  /\ req[r].st = "web"
  /\ req' = [req EXCEPT ![r].st = "reply"]
  /\ UNCHANGED <<page, owner, call, backendVars, wish, historyVars>>

VoiceUnavailable(r) == req[r].kind \in {"start", "offer"} /\ Refuse(r)
CharacterUnavailable(r) == req[r].kind = "start" /\ Refuse(r)

PreflightCallVoice(r) ==
  req[r].kind = "start" /\ (CharacterUnavailable(r) \/ VoiceUnavailable(r))
VoicePreparationForCall(r) == req[r].kind = "offer" /\ VoiceUnavailable(r)
PromptRefused(r) == req[r].kind = "offer" /\ Refuse(r)

StartCall(r) ==
  /\ req[r].kind = "start" /\ req[r].st = "waiting" /\ req[r].job = "done"
  /\ call' = IF req[r].res.ok THEN "live" ELSE call
  /\ req' = [req EXCEPT ![r].st = "reply", ![r].job = "none"]
  /\ UNCHANGED <<page, owner, backendVars, wish, historyVars>>

\* An accepted offer whose voice has to be prepared goes on to prepare it.
ReceiveOffer(r) ==
  /\ req[r].kind = "offer" /\ req[r].st = "waiting" /\ req[r].job = "done"
  /\ \E next \in IF req[r].res.ok THEN {"reply", "preparing"} ELSE {"reply"} :
       req' = [req EXCEPT ![r].st = next, ![r].job = "none"]
  /\ UNCHANGED <<page, owner, call, backendVars, wish, historyVars>>

\* One answer of prepare_call_speech or of a status poll.
PrepareCallVoice(r) ==
  /\ req[r].st = "preparing"
  /\ \E readiness \in {"ready", "failed", "prewarming"} :
       \/ /\ readiness = "ready"
          /\ req' = [req EXCEPT ![r].st = "reply"]
       \/ /\ readiness = "failed" \/ req[r].polls = MaxPolls
          /\ req' = [req EXCEPT ![r].st = "reply", ![r].res = Error]
       \/ /\ readiness = "prewarming" /\ req[r].polls < MaxPolls
          /\ req' = [req EXCEPT ![r].polls = @ + 1]
  /\ UNCHANGED <<page, owner, call, backendVars, wish, historyVars>>

\* mute_call hands the answer on; end_call swallows an error and records the end.
Forward(r, kind, res) ==
  /\ req[r].kind = kind /\ req[r].st = "waiting" /\ req[r].job = "done"
  /\ req' = [req EXCEPT ![r].st = "reply", ![r].job = "none", ![r].res = res]
  /\ UNCHANGED <<page, owner, call, backendVars, wish, historyVars>>

MuteCall(r) == Forward(r, "mute", req[r].res)
EndCall(r) == Forward(r, "end", Done(FALSE, 0))

\* AiBackendClient._request gives up: the request may never arrive, may
\* still be carried out, or its answer is lost.
GiveUp(r) ==
  /\ req[r].st = "waiting"
  /\ \E job \in CASE req[r].job = "queued"   -> {"queued", "none"}
                  [] req[r].job = "creating" -> {"creating"}
                  [] OTHER                   -> {"none"} :
       /\ req' = [req EXCEPT ![r].st = "reply", ![r].job = job, ![r].res = Error]
       /\ leaks' = IF req[r].kind = "end" /\ req[r].job = "queued" /\ job = "none"
                   THEN leaks \cup {"lost end"} ELSE leaks
  /\ UNCHANGED <<page, owner, call, backendVars, wish, gaveUp, missed>>

-----------------------------------------------------------------------------
(* The backend carries a request out, whether its client still waits or not. *)

\* The answer of a job: kept for a client that waits, otherwise lost.
Finish(r, res) ==
  req' = [req EXCEPT ![r].job = IF req[r].st = "waiting" THEN "done" ELSE "none",
                     ![r].res = IF req[r].st = "waiting" THEN res ELSE @]

Job(r, kind) == req[r].kind = kind /\ req[r].job = "queued"

WebrtcStatus(r) ==
  /\ Job(r, "start")
  /\ Finish(r, Done(FALSE, 0))
  /\ UNCHANGED <<page, owner, call, backendVars, wish, historyVars>>

\* create_webrtc_offer_answer: an unknown session is created and then
\* negotiated with; an open one gets a candidate peer (see CallPeers).
OfferCreates(r) ==
  /\ Job(r, "offer") /\ session = "none"
  /\ session' = "open" /\ muteLog' = <<>> /\ channel' = <<>>
  /\ req' = [req EXCEPT ![r].job = "creating"]
  /\ leaks' = IF call = "ended" THEN leaks \cup {"late offer"} ELSE leaks
  /\ UNCHANGED <<page, owner, call, wish, gaveUp, missed>>

OfferJoins(r) ==
  /\ Job(r, "offer") /\ session # "none"
  /\ \E res \in IF session = "open" THEN {Done(FALSE, 0), Error} ELSE {Error} :
       Finish(r, res)
  /\ UNCHANGED <<page, owner, call, backendVars, wish, historyVars>>

OfferNegotiated(r) ==
  /\ req[r].job = "creating"
  /\ Finish(r, Done(FALSE, 0))
  /\ UNCHANGED <<page, owner, call, backendVars, wish, historyVars>>

\* A failed or cancelled negotiation removes the session it created.
OfferFails(r) ==
  /\ req[r].job = "creating"
  /\ session' = "none"
  /\ Finish(r, Error)
  /\ UNCHANGED <<page, owner, call, muteLog, channel, wish, historyVars>>

\* Mutant: a request that changes nothing gets a revision but sends no event.
SetMutedQuietly(r) ==
  /\ Job(r, "mute") /\ session = "open" /\ Len(muteLog) < MaxRevision
  /\ muteLog' = Append(muteLog, req[r].muted)
  /\ channel' = IF req[r].muted = Muted THEN channel ELSE Append(channel, Len(muteLog) + 1)
  /\ req' = [req EXCEPT ![r].job = IF req[r].st = "waiting" THEN "accepted" ELSE "none",
                        ![r].res.rev = IF req[r].st = "waiting"
                                       THEN Len(muteLog) + 1 ELSE @]
  /\ UNCHANGED <<page, owner, call, session, wish, historyVars>>

\* CallSession.set_muted commits the state and its event ...
SetMuted(r) ==
  /\ Job(r, "mute") /\ session = "open" /\ Len(muteLog) < MaxRevision
  /\ muteLog' = Append(muteLog, req[r].muted)
  /\ channel' = Append(channel, Len(muteLog) + 1)
  /\ req' = [req EXCEPT ![r].job = IF req[r].st = "waiting" THEN "accepted" ELSE "none",
                        ![r].res.rev = IF req[r].st = "waiting"
                                       THEN Len(muteLog) + 1 ELSE @]
  /\ UNCHANGED <<page, owner, call, session, wish, historyVars>>

\* ... and mute_session answers with the state it finds afterwards.
MuteAnswers(r) ==
  /\ req[r].kind = "mute" /\ req[r].job = "accepted"
  /\ Finish(r, Done(Muted, req[r].res.rev))
  /\ UNCHANGED <<page, owner, call, backendVars, wish, historyVars>>

\* No session (404) or one that has ended (409, 410).
MuteRefused(r) ==
  /\ Job(r, "mute") /\ session # "open"
  /\ Finish(r, Error)
  /\ UNCHANGED <<page, owner, call, backendVars, wish, historyVars>>

\* end_session keeps the session for a while, ended before or not.
EndSession(r) ==
  /\ Job(r, "end")
  /\ session' = IF session = "none" THEN "none" ELSE "retained"
  /\ Finish(r, IF session = "none" THEN Error ELSE Done(FALSE, 0))
  /\ UNCHANGED <<page, owner, call, muteLog, channel, wish, historyVars>>

\* The grace of a lost transport runs out: see CallPeers.
TransportLost ==
  /\ session = "open"
  /\ session' = "ended"
  /\ UNCHANGED <<page, owner, req, call, muteLog, channel, wish, historyVars>>

\* _expire_retained_sessions forgets a session that a client ended.
Expire ==
  /\ session = "retained"
  /\ session' = "none"
  /\ UNCHANGED <<page, owner, req, call, muteLog, channel, wish, historyVars>>

-----------------------------------------------------------------------------
(* The page hears an answer. *)

HearStart(r) ==
  /\ req[r].kind = "start" /\ req[r].st = "reply" /\ page.st = "starting"
  /\ page' = [page EXCEPT !.st = IF req[r].res.ok THEN "started" ELSE "idle"]
  /\ req' = Heard(r)
  /\ UNCHANGED <<owner, call, backendVars, wish, historyVars>>

HearOffer(r) ==
  /\ req[r].kind = "offer" /\ req[r].st = "reply" /\ req[r].res.ok /\ page.st = "offering"
  /\ page' = [page EXCEPT !.st = "oncall", !.mic = TRUE]
  /\ req' = Heard(r)
  /\ UNCHANGED <<owner, call, backendVars, wish, historyVars>>

\* A setup that fails ends the call.
SetupFails(r, q) ==
  /\ req[q].kind = "offer" /\ req[q].st = "reply" /\ ~req[q].res.ok
  /\ page.st = "offering" /\ r # q
  /\ Leave(r)

\* An answer nobody waits for.
NobodyListens(r) ==
  /\ req[r].st = "reply"
  /\ \/ page.st = "left"
     \/ req[r].kind = "mute" /\ ~Owned(r)
     \/ req[r].kind = "offer" /\ page.st = "oncall"
  /\ req' = Heard(r)
  /\ UNCHANGED <<page, owner, call, backendVars, wish, historyVars>>

-----------------------------------------------------------------------------
Next ==
  \/ \E r \in Requests :
       \/ PageStarts(r) \/ PageOffers(r) \/ PageHangsUp(r)
       \/ ToggleMute(r) \/ RetryMuteSynchronization(r)
       \/ MuteTimesOut(r) \/ HearCompensation(r)
       \/ Handle(r) \/ BeginEnd(r) \/ PreflightCallVoice(r)
       \/ VoicePreparationForCall(r) \/ PromptRefused(r)
       \/ StartCall(r) \/ ReceiveOffer(r)
       \/ PrepareCallVoice(r) \/ MuteCall(r) \/ EndCall(r) \/ GiveUp(r)
       \/ WebrtcStatus(r) \/ OfferCreates(r) \/ OfferJoins(r)
       \/ OfferNegotiated(r) \/ OfferFails(r) \/ SetMuted(r) \/ MuteAnswers(r)
       \/ MuteRefused(r) \/ EndSession(r)
       \/ HearStart(r) \/ HearOffer(r) \/ NobodyListens(r)
  \/ \E q, r \in Requests : SetupFails(r, q) \/ HearMute(q, r)
  \/ PageGoesAway \/ CompensationTimesOut \/ ChannelEvent \/ EventDropped
  \/ TransportLost \/ Expire

Spec == Init /\ [][Next]_vars
-----------------------------------------------------------------------------
TypeOK ==
  /\ page \in [st : {"idle", "starting", "started", "offering", "oncall", "left"},
               shown : BOOLEAN, rev : 0..MaxRevision, failed : BOOLEAN, mic : BOOLEAN]
  /\ owner \in Owners \cup {None}
  /\ \A r \in Requests :
       /\ req[r].kind \in Kinds \cup {"none"}
       /\ req[r].st \in {"idle", "web", "waiting", "preparing", "reply"}
       /\ req[r].job \in {"none", "queued", "creating", "accepted", "done"}
       /\ req[r].polls \in 0..MaxPolls
  /\ call \in {"none", "live", "ended"}
  /\ session \in {"none", "open", "ended", "retained"}
  /\ muteLog \in Seq(BOOLEAN) /\ Len(muteLog) <= MaxRevision
  /\ missed \in 0..MaxRevision
  /\ leaks \subseteq {"lost end", "late offer"}

Idle == \A r \in Requests : Free(r)

\* The microphone transmits against the last request of the user only if the
\* page had given up an earlier request to unmute: stale events and answers
\* of older requests never turn it on.
MicObeysTheUser == page.mic /\ wish => gaveUp

\* When nothing is under way the page shows the state of the backend or warns that it lost
\* it, unless it heard nothing of the newest change: no answer it accepted, and the event
\* was dropped, for want of an open channel or for the mute request that it contradicted.
SettledPageAgrees ==
  Idle /\ owner = None /\ channel = <<>>
    /\ page.st = "oncall" /\ session = "open" /\ ~page.failed
  => \/ page.shown = Muted /\ page.rev = Len(muteLog)
     \/ page.rev < missed /\ missed = Len(muteLog)

\* A session survives the end of its call only if the request to end it was
\* lost, or an offer that had passed session_for_call before the hangup
\* created the session after it.
LeakIsExplained == call = "ended" /\ session = "open" /\ Idle => leaks # {}

\* When nothing is under way the three sides of a call agree on it, page, web server and
\* backend, or what made them differ is known.
SettledCallAgrees == TypeOK /\ SettledPageAgrees /\ LeakIsExplained
=============================================================================
