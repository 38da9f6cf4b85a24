------------------------------ MODULE CallPeers ------------------------------
(***************************************************************************)
(* The transport side of a CallSession of the AI backend: peers that are    *)
(* offered, promoted, switched, lost and closed (session.py, with the       *)
(* endpoints of api/webrtc.py that drive it), and the terminal transaction  *)
(* that ends a call and releases what it holds.                             *)
(*                                                                          *)
(* Each peer comes from one offer and carries the selection (voice engine)  *)
(* of that offer; its outbound track is named after it.  A section of       *)
(* _lifecycle_lock is one step.  Closing a peer, stopping a track,          *)
(* cancelling a turn or releasing the lease may fail or time out, at most   *)
(* MaxFaults times.                                                         *)
(***************************************************************************)
EXTENDS Naturals, FiniteSets

CONSTANTS Peers,          \* RTCPeerConnection objects
          FirstPeer,      \* the one the session was created with
          Config,         \* selections the offer of each peer may carry
          Backfills,      \* requests of the reconnect-audio endpoint
          RetryLimit,     \* CALL_TERMINAL_CLEANUP_RETRY_LIMIT
          FirstTries,     \* passes of the cleanup before the outcome is published
          MaxDrops,       \* transport losses in one behaviour
          MaxFaults,      \* failing or hanging cleanup steps in one behaviour
          None

Selections == {"qwen", "other"}
ASSUME PeersAssumption == /\ FirstPeer \in Peers /\ Config \in [Peers -> SUBSET Selections]
                          /\ None \notin Peers /\ IsFiniteSet(Peers)
ASSUME LimitsAssumption == /\ RetryLimit \in Nat \ {0} /\ FirstTries \in 1 .. RetryLimit
                           /\ MaxDrops \in Nat /\ MaxFaults \in Nat

Generations == 0 .. Cardinality(Peers)
Phases == {"stable", "reconnecting", "switching", "terminal"}
Lost == {"failed", "closed"}
Resource(kind, p) == [kind |-> kind, of |-> p]
Resources == [kind : {"cancel", "peer", "track", "lease"}, of : Peers \cup {None}]
Answers == {"committed", "failed", "rejected"}
SwitchSteps == {"old_track", "new_track", "old_peer", "cancel", "finish"}

\* _PendingPeerCandidate, _PeerSwitchTransaction, and the loss the grace waits on
Candidates == [peer : Peers, gen : Generations, epoch : Nat, config : Selections]
Switches == [peer : Peers, prev : Peers, gen : Generations, cancel : BOOLEAN, lease : BOOLEAN,
             config : Selections, step : SwitchSteps, errors : SUBSET Resources]
Losses == [peer : Peers, state : Lost]
ASSUME NoneAssumption == /\ None \notin Candidates /\ None \notin Switches /\ None \notin Losses
                         /\ None \notin {"ended", "failed"}

VARIABLES
    phase, epoch,       \* _PeerLifecycle.phase, .epoch
    active, activeGen,  \* peer_connection, active_generation
    candidate, lastGen, \* candidate (None or a record), candidate_generation
    switch,             \* switch_transaction with its task's place, or None
    decided,            \* last_switch_candidate_generation, last_switch_outcome
    lost,               \* grace_peer with terminal_state, or None
    grace,              \* the live grace_task: its epoch and peer, or None
    backfill,           \* place of each backfill request
    selection, speech,  \* accepted engine; engine the current speech was admitted for
    lease,              \* a prompt lease is installed
    conn, notified,     \* state of each transport; state changes not handled yet
    offer, genOf,       \* place of each offer's handler, its generation
    answers,            \* the decisions a generation's requests were told of
    closing, tries,     \* _owned_peer_cleanup_tasks and their attempts
    closed, unclosed,   \* peers closed by us; peers given up on
    outcome,            \* _terminal_outcome: target state, or None
    cleanup,            \* _TerminalCleanup: pending, todo of this pass, passes, timed out
    ending,             \* place of the terminal transaction
    drops, faults       \* bounds

Admitted == {b \in Backfills : backfill[b] = "admitted"}

life == <<phase, epoch, active, activeGen, candidate, lastGen, switch, decided, lost, grace>>
media == <<backfill, selection, speech, lease>>
net == <<conn, notified, drops>>
handlers == <<offer, genOf, answers>>
closes == <<closing, tries, closed, unclosed>>
terminal == <<outcome, cleanup, ending>>
vars == <<life, media, net, handlers, closes, terminal, faults>>

TypeOK ==
    /\ phase \in Phases /\ epoch \in Nat
    /\ active \in Peers /\ activeGen \in Generations /\ lastGen \in Generations
    /\ candidate \in Candidates \cup {None} /\ switch \in Switches \cup {None}
    /\ decided \in [gen : Generations, outcome : {"committed", "failed", "none"}]
    /\ lost \in Losses \cup {None}
    /\ grace \in [epoch : Nat, peer : Peers] \cup {None}
    /\ backfill \in [Backfills -> {"idle", "admitted", "done"}]
    /\ selection \in Selections /\ speech \in Selections \cup {None} /\ lease \in BOOLEAN
    /\ conn \in [Peers -> {"none", "new", "connected"} \cup Lost]
    /\ notified \subseteq Peers /\ drops \in 0 .. MaxDrops
    /\ offer \in [Peers -> {"idle", "negotiating", "answered", "gone"}]
    /\ genOf \in [Peers -> Generations]
    /\ answers \in [Generations -> SUBSET Answers]
    /\ closing \subseteq Peers /\ tries \in [Peers -> 0 .. RetryLimit]
    /\ closed \subseteq Peers /\ unclosed \subseteq Peers
    /\ outcome \in {"ended", "failed", None}
    /\ cleanup \in [pending : SUBSET Resources, todo : SUBSET Resources,
                    passes : 0 .. RetryLimit, timedOut : BOOLEAN]
    /\ ending \in {"none", "cleaning", "publishing", "retrying", "done"}
    /\ faults \in 0 .. MaxFaults

\* CallSession.__init__ for the first offer
Init ==
    /\ phase = "stable" /\ epoch = 0
    /\ active = FirstPeer /\ activeGen = 0 /\ candidate = None /\ lastGen = 0
    /\ switch = None /\ decided = [gen |-> 0, outcome |-> "none"]
    /\ lost = None /\ grace = None /\ backfill = [b \in Backfills |-> "idle"]
    /\ selection \in Config[FirstPeer] /\ speech = None /\ lease = FALSE
    /\ conn = [p \in Peers |-> IF p = FirstPeer THEN "connected" ELSE "none"]
    /\ notified = {} /\ drops = 0
    /\ offer = [p \in Peers |-> IF p = FirstPeer THEN "answered" ELSE "idle"]
    /\ genOf = [p \in Peers |-> 0]
    /\ answers = [g \in Generations |-> {}]
    /\ closing = {} /\ tries = [p \in Peers |-> 0] /\ closed = {} /\ unclosed = {}
    /\ outcome = None
    /\ cleanup = [pending |-> {}, todo |-> {}, passes |-> 0, timedOut |-> FALSE]
    /\ ending = "none" /\ faults = 0
-----------------------------------------------------------------------------
(* Cleanups.  A step of one succeeds, or costs a fault. *)

Fails == faults < MaxFaults /\ faults' = faults + 1
Succeeds == faults' = faults

\* The effect of close() on a peer: its transport closes, and says so; the handler of a
\* peer that is neither the active one nor the candidate returns at once.
ClosePeers(ps) ==
    /\ closed' = closed \cup ps
    /\ conn' = [p \in Peers |-> IF p \in ps THEN "closed" ELSE conn[p]]
    /\ notified' = notified \cup ({active} \cap {p \in ps : conn[p] # "closed"})
    /\ UNCHANGED drops

\* _start_owned_peer_cleanup
StartOwnedCleanup(ps) == closing' = closing \cup ps

\* _close_peer_until_resolved, one attempt
CloseOwned(p) ==
    /\ p \in closing
    /\ \/ /\ Succeeds /\ ClosePeers({p}) /\ closing' = closing \ {p}
          /\ UNCHANGED <<tries, unclosed>>
       \/ /\ Fails /\ tries' = [tries EXCEPT ![p] = @ + 1]
          /\ IF tries[p] + 1 < RetryLimit
             THEN UNCHANGED <<closing, unclosed>>
             ELSE closing' = closing \ {p} /\ unclosed' = unclosed \cup {p}
          /\ UNCHANGED <<net, closed>>
    /\ UNCHANGED <<life, media, handlers, terminal>>

\* fault: the candidate is dropped without being closed
TerminalWorkNoCandidate(act, extra) ==
    LET involved == (IF switch = None THEN {} ELSE {switch.peer, switch.prev})
    IN  {Resource("peer", p) : p \in {act} \cup involved} \cup extra

\* What a cleanup of the terminal transaction has to do when the active peer is act.
\* The extra peers and tracks are those of a switch and of a failed one.
TerminalWork(act, extra) ==
    LET involved == (IF switch = None THEN {} ELSE {switch.peer, switch.prev})
        pending == IF candidate = None THEN {} ELSE {candidate.peer}
    IN  {Resource("cancel", None) : x \in IF speech = None THEN {} ELSE {speech}}
        \cup {Resource("peer", p) : p \in {act} \cup involved \cup pending}
        \cup {Resource("track", p) : p \in involved \cup pending}
        \cup extra
        \cup (IF lease THEN {Resource("lease", None)} ELSE {})

\* _transition_terminal_locked past its guard: one outcome, the work it owns.
TransitionTerminal(target, act, extra) ==
    LET work == TerminalWork(act, extra) IN
    /\ phase' = "terminal" /\ epoch' = epoch + 1
    /\ active' = act
    /\ candidate' = None /\ lost' = None /\ grace' = None
    /\ outcome' = target /\ ending' = "cleaning"
    /\ cleanup' = [pending |-> work, todo |-> work, passes |-> 1, timedOut |-> FALSE]

\* The order of _run_terminal_cleanup.
Rank(x) == CASE x.kind = "cancel" -> 0
             [] x.kind = "peer" -> IF x.of = active THEN 1 ELSE 2
             [] x.kind = "track" -> 3
             [] x.kind = "lease" -> 4

\* _run_terminal_cleanup, one step
TerminalStep ==
    /\ cleanup.todo # {}
    /\ LET x == CHOOSE x \in cleanup.todo : \A y \in cleanup.todo : Rank(x) <= Rank(y) IN
            \/ /\ Succeeds
               /\ cleanup' = [cleanup EXCEPT !.todo = @ \ {x}, !.pending = @ \ {x}]
               /\ speech' = IF x.kind = "cancel" THEN None ELSE speech
               /\ lease' = (lease /\ x.kind # "lease")
               /\ ClosePeers(IF x.kind = "peer" THEN {x.of} ELSE {})
            \/ /\ Fails
               /\ \E timeout \in BOOLEAN :
                    cleanup' = [cleanup EXCEPT !.todo = @ \ {x},
                                               !.timedOut = @ \/ timeout]
               /\ UNCHANGED <<speech, lease, net, closed>>
    /\ UNCHANGED <<life, backfill, selection, handlers, closing, tries,
                   unclosed, outcome, ending>>

\* The loops of _run_terminal_transaction and _retry_terminal_cleanup_until_resolved
AnotherPass ==
    IF ending = "cleaning" THEN ~cleanup.timedOut /\ cleanup.passes < FirstTries
    ELSE cleanup.passes < RetryLimit

\* The end of a pass
PassEnds ==
    /\ ending \in {"cleaning", "retrying"} /\ cleanup.todo = {}
    /\ IF cleanup.pending # {} /\ AnotherPass
       THEN /\ cleanup' = [cleanup EXCEPT !.todo = cleanup.pending, !.passes = @ + 1,
                                          !.timedOut = FALSE]
            /\ UNCHANGED ending
       ELSE /\ ending' = IF ending = "cleaning" THEN "publishing" ELSE "done"
            /\ UNCHANGED cleanup
    /\ UNCHANGED <<life, media, net, handlers, closes, outcome, faults>>

\* _publish_terminal_outcome, then the retries for what is still pending
Publish ==
    /\ ending = "publishing"
    /\ ending' = IF cleanup.pending = {} THEN "done" ELSE "retrying"
    /\ UNCHANGED <<life, media, net, handlers, closes, outcome, cleanup, faults>>

\* end(), from the end endpoint
End ==
    /\ outcome = None
    /\ TransitionTerminal("ended", active, {})
    /\ UNCHANGED <<activeGen, lastGen, switch, decided, media, net, handlers, closes, faults>>
-----------------------------------------------------------------------------
(* Offers and decisions. *)

\* create_webrtc_offer_answer on an ended session, before or after the peer is made
OfferTerminal(p) ==
    /\ offer[p] = "idle" /\ outcome # None
    /\ offer' = [offer EXCEPT ![p] = "gone"]
    /\ \/ conn' = conn /\ Succeeds /\ UNCHANGED <<notified, drops, closes>>
       \/ Succeeds /\ ClosePeers({p}) /\ UNCHANGED <<closing, tries, unclosed>>
       \/ Fails /\ conn' = [conn EXCEPT ![p] = "new"] /\ unclosed' = unclosed \cup {p}
          /\ UNCHANGED <<notified, drops, closing, tries, closed>>
    /\ UNCHANGED <<life, media, genOf, answers, terminal>>

\* The offer is not one of audio, or its peer or track cannot be made: nothing is left that
\* has a transport.
OfferUnusable(p) ==
    /\ offer[p] = "idle" /\ offer' = [offer EXCEPT ![p] = "gone"]
    /\ UNCHANGED <<life, media, net, genOf, answers, closes, terminal, faults>>

\* mark_peer_connection_pending while a switch runs: 409, the new peer is closed
OfferDuringSwitch(p) ==
    /\ offer[p] = "idle" /\ phase = "switching"
    /\ offer' = [offer EXCEPT ![p] = "gone"]
    /\ conn' = [conn EXCEPT ![p] = "new"]
    /\ StartOwnedCleanup({p})
    /\ UNCHANGED <<life, media, notified, drops, genOf, answers, tries, closed, unclosed,
                   terminal, faults>>

\* mark_peer_connection_pending: a new candidate supersedes the one before
Offer(p) ==
    /\ offer[p] = "idle" /\ phase \in {"stable", "reconnecting"}
    /\ offer' = [offer EXCEPT ![p] = "negotiating"]
    /\ conn' = [conn EXCEPT ![p] = "new"]
    /\ lastGen' = lastGen + 1
    /\ genOf' = [genOf EXCEPT ![p] = lastGen + 1]
    /\ \E config \in Config[p] :
         candidate' = [peer |-> p, gen |-> lastGen + 1, epoch |-> epoch, config |-> config]
    /\ StartOwnedCleanup(IF candidate = None THEN {} ELSE {candidate.peer})
    /\ UNCHANGED <<phase, epoch, active, activeGen, switch, decided, lost, grace, media,
                   notified, drops, answers, tries, closed, unclosed, terminal, faults>>

\* is_peer_connection_pending
IsPending(p) == candidate # None /\ candidate.peer = p

\* reject_pending_peer_connection, for a peer that is pending
RejectPending(p) == candidate' = None /\ StartOwnedCleanup({p})

\* _negotiate_answer runs, and ends either way.
Negotiating(p) == offer[p] = "negotiating"

\* The answer is negotiated; an offer superseded meanwhile answers 409.
Negotiated(p) ==
    /\ Negotiating(p)
    /\ offer' = [offer EXCEPT ![p] = IF IsPending(p) THEN "answered" ELSE "gone"]
    /\ UNCHANGED <<life, media, net, genOf, answers, closes, terminal, faults>>

\* _restore_failed_offer_session
RestoreFailedOffer(p) ==
    IF IsPending(p) THEN RejectPending(p) ELSE UNCHANGED <<candidate, closing>>

\* The negotiation fails or the request is cancelled.
OfferFails(p) ==
    /\ Negotiating(p)
    /\ offer' = [offer EXCEPT ![p] = "gone"]
    /\ RestoreFailedOffer(p)
    /\ UNCHANGED <<phase, epoch, active, activeGen, lastGen, switch, decided, lost, grace,
                   media, net, genOf, answers, tries, closed, unclosed, terminal, faults>>

\* _expire_pending_peer_connection: the candidate's own timer
CandidateTimeout ==
    /\ candidate # None
    /\ RejectPending(candidate.peer)
    /\ UNCHANGED <<phase, epoch, active, activeGen, lastGen, switch, decided, lost, grace,
                   media, net, handlers, tries, closed, unclosed, terminal, faults>>

\* promote_call_peer of the web server: the decisions it passes on for each request.  One
\* that is not among them is an error to the page; "in_progress" is none yet.
Expected == [commit |-> {"committed", "failed"}, reject |-> {"rejected", "failed"}]
Answer(g, action, a) == answers' = [answers EXCEPT ![g] = @ \cup ({a} \cap Expected[action])]

\* fault: a switch that has begun is reported as committed
DurableOutcomeEarly(g) ==
    CASE activeGen = g \/ (phase = "switching" /\ switch.gen = g) -> "committed"
      [] activeGen # g /\ decided.gen = g -> decided.outcome
      [] OTHER -> None

\* _peer_switch_generation_outcome
DurableOutcome(g) ==
    CASE activeGen = g -> "committed"
      [] activeGen # g /\ decided.gen = g -> decided.outcome
      [] activeGen # g /\ decided.gen # g /\ phase = "switching" /\ switch.gen = g -> "in_progress"
      [] OTHER -> None

\* commit_pending_peer_generation or reject_pending_peer_generation of a generation
\* that was answered, when there is nothing to promote or to reject
DecisionAnswered(g) ==
    /\ g > 0 /\ \E p \in Peers : genOf[p] = g /\ offer[p] = "answered"
    /\ LET durable == DurableOutcome(g)
           isCandidate == candidate # None /\ candidate.gen = g
       IN  \E action \in DOMAIN Expected :
              \/ durable # None /\ Answer(g, action, durable)
              \/ durable = None /\ ~isCandidate /\ Answer(g, action, "stale")
              \/ /\ durable = None /\ isCandidate /\ conn[candidate.peer] # "connected"
                 /\ action = "commit" /\ Answer(g, action, "not_connected")
    /\ UNCHANGED <<life, media, net, offer, genOf, closes, terminal, faults>>

\* reject_pending_peer_generation
RejectDecision(g) ==
    /\ candidate # None /\ candidate.gen = g /\ offer[candidate.peer] = "answered"
    /\ DurableOutcome(g) = None
    /\ RejectPending(candidate.peer) /\ Answer(g, "reject", "rejected")
    /\ UNCHANGED <<phase, epoch, active, activeGen, lastGen, switch, decided, lost, grace,
                   media, net, offer, genOf, tries, closed, unclosed, terminal, faults>>

\* What accept_pending_peer_connection requires of the candidate of generation g.
Acceptable(g) ==
    /\ candidate # None /\ candidate.gen = g /\ offer[candidate.peer] = "answered"
    /\ DurableOutcome(g) = None
    /\ conn[candidate.peer] = "connected"
    /\ candidate.epoch = epoch /\ phase # "terminal"

\* accept_pending_peer_connection without a change of selection; the old peer is closed
\* inline, and nobody tries again if that fails
Promote(g) ==
    /\ Acceptable(g) /\ candidate.config = selection
    /\ active' = candidate.peer /\ activeGen' = g
    /\ candidate' = None
    /\ phase' = "stable" /\ lost' = None /\ grace' = None
    /\ \/ Succeeds /\ ClosePeers({active}) /\ Answer(g, "commit", "committed") /\ UNCHANGED unclosed
       \/ Fails /\ unclosed' = unclosed \cup {active} /\ UNCHANGED <<net, closed, answers>>
    /\ UNCHANGED <<epoch, lastGen, switch, decided, backfill, selection, speech, lease,
                   offer, genOf, closing, tries, terminal>>

\* accept_pending_peer_connection with another selection: the switch transaction
BeginSwitch(g) ==
    /\ Acceptable(g) /\ candidate.config # selection
    /\ switch' = [peer |-> candidate.peer, prev |-> active, gen |-> g,
                  cancel |-> speech # None,
                  lease |-> lease /\ selection = "qwen", config |-> candidate.config,
                  step |-> "old_track", errors |-> {}]
    /\ candidate' = None /\ phase' = "switching"
    /\ UNCHANGED <<epoch, active, activeGen, lastGen, decided, lost, grace, media, net,
                   handlers, closes, terminal, faults>>

NextStep == [old_track |-> "new_track", new_track |-> "old_peer", old_peer |-> "cancel",
             cancel |-> "finish"]

\* _run_peer_switch_cleanup, one step
SwitchStep ==
    /\ switch # None /\ switch.step # "finish"
    /\ LET step == switch.step
           x == CASE step = "old_track" -> Resource("track", switch.prev)
                  [] step = "new_track" -> Resource("track", switch.peer)
                  [] step = "old_peer" -> Resource("peer", switch.prev)
                  [] step = "cancel" -> Resource("cancel", None)
           skip == step = "cancel" /\ ~switch.cancel
       IN  \/ /\ Succeeds
              /\ switch' = [switch EXCEPT !.step = NextStep[step]]
              /\ ClosePeers(IF step = "old_peer" THEN {switch.prev} ELSE {})
              /\ speech' = IF step = "cancel" /\ ~skip THEN None ELSE speech
           \/ /\ ~skip /\ Fails
              /\ switch' = [switch EXCEPT !.step = NextStep[step], !.errors = @ \cup {x}]
              /\ UNCHANGED <<net, closed, speech>>
    /\ UNCHANGED <<phase, epoch, active, activeGen, candidate, lastGen, decided, lost, grace,
                   backfill, selection, lease, handlers, closing, tries,
                   unclosed, terminal>>

\* _apply_peer_configuration_locked
ApplyConfiguration(config) == selection' = config

\* _finish_peer_switch of a switch that is still owned and whose cleanup went well:
\* the lease goes first, under the lock, then the selection is published
CommitSwitch ==
    /\ phase = "switching" /\ switch.step = "finish" /\ switch.errors = {} /\ Succeeds
    /\ active' = switch.peer /\ activeGen' = switch.gen
    /\ decided' = [gen |-> switch.gen, outcome |-> "committed"]
    /\ ApplyConfiguration(switch.config)
    /\ lease' = (lease /\ ~switch.lease)
    /\ Answer(switch.gen, "commit", "committed")
    /\ phase' = "stable" /\ lost' = None /\ grace' = None /\ switch' = None
    /\ UNCHANGED <<epoch, candidate, lastGen, backfill, speech, net, offer, genOf,
                   closes, terminal>>

\* _finish_peer_switch after a failed step: the call fails, and the terminal cleanup
\* takes over both peers
FailSwitch ==
    /\ phase = "switching" /\ switch.step = "finish"
    /\ \/ switch.errors # {} /\ Succeeds
       \/ switch.errors = {} /\ switch.lease /\ Fails
    /\ decided' = [gen |-> switch.gen, outcome |-> "failed"]
    /\ Answer(switch.gen, "commit", "failed")
    /\ TransitionTerminal("failed", switch.peer,
                          {x \in switch.errors : x.kind \in {"peer", "track"}})
    /\ switch' = None
    /\ UNCHANGED <<activeGen, lastGen, backfill, selection, speech, lease, net,
                   offer, genOf, closes>>

\* _finish_peer_switch that finds the call ended: the terminal cleanup owns the peers
SwitchLost ==
    /\ phase = "terminal" /\ switch # None /\ switch.step = "finish"
    /\ decided' = [gen |-> switch.gen, outcome |-> "failed"]
    /\ Answer(switch.gen, "commit", "failed")
    /\ switch' = None
    /\ UNCHANGED <<phase, epoch, active, activeGen, candidate, lastGen, lost, grace, media,
                   net, offer, genOf, closes, terminal, faults>>
-----------------------------------------------------------------------------
(* The transport and the reconnect grace. *)

\* The transport of a peer comes up, or a lost one comes back.
TransportUp(p) ==
    /\ \/ conn[p] = "new"
       \/ conn[p] = "failed" /\ p = active
    /\ conn' = [conn EXCEPT ![p] = "connected"]
    /\ notified' = notified \cup ({p} \cap {active})
    /\ UNCHANGED <<life, media, drops, handlers, closes, terminal, faults>>

\* The transport of a peer fails, or the browser closes it.
TransportDown(p, state) ==
    /\ conn[p] \in {"new", "connected"} /\ drops < MaxDrops
    /\ conn' = [conn EXCEPT ![p] = state]
    /\ notified' = notified \cup {p} /\ drops' = drops + 1
    /\ UNCHANGED <<life, media, handlers, closes, terminal, faults>>

\* on_connectionstatechange of a candidate whose transport is lost
CandidateLost(p) ==
    /\ p \in notified /\ IsPending(p) /\ conn[p] \in Lost
    /\ notified' = notified \ {p} /\ RejectPending(p)
    /\ UNCHANGED <<phase, epoch, active, activeGen, lastGen, switch, decided, lost, grace,
                   media, conn, drops, handlers, tries, closed, unclosed, terminal, faults>>

\* A notification that concerns nobody: of a candidate that came up, of a peer that was
\* replaced or is being retired, or of a call that ended
NotificationIgnored(p) ==
    /\ p \in notified
    /\ \/ p # active /\ ~(IsPending(p) /\ conn[p] \in Lost)
       \/ p = active /\ phase \in {"switching", "terminal"}
       \/ p = active /\ conn[p] = "connected" /\ phase # "reconnecting"
    /\ notified' = notified \ {p}
    /\ UNCHANGED <<life, media, conn, drops, handlers, closes, terminal, faults>>

NewGrace(e, p) == grace' = IF grace = None THEN [epoch |-> e, peer |-> p] ELSE grace

\* _begin_transport_reconnect
BeginReconnect(p) ==
    /\ p \in notified /\ p = active /\ conn[p] \in Lost /\ phase \in {"stable", "reconnecting"}
    /\ notified' = notified \ {p}
    /\ IF phase = "stable"
       THEN /\ epoch' = epoch + 1
            /\ candidate' = IF candidate = None THEN None
                            ELSE [candidate EXCEPT !.epoch = epoch + 1]
       ELSE UNCHANGED <<epoch, candidate>>
    /\ phase' = "reconnecting"
    /\ lost' = IF conn[p] = "failed" \/ lost = None THEN [peer |-> p, state |-> conn[p]]
               ELSE lost
    /\ NewGrace(epoch', p)
    /\ UNCHANGED <<active, activeGen, lastGen, switch, decided, media, conn, drops, handlers,
                   closes, terminal, faults>>

\* fault: recovery forgets the grace
RecoverKeepsGrace(p) ==
    /\ p \in notified /\ p = active /\ conn[p] = "connected" /\ phase = "reconnecting"
    /\ notified' = notified \ {p}
    /\ UNCHANGED <<life, media, conn, drops, handlers, closes, terminal, faults>>

\* _recover_active_transport, _complete_transport_reconnect_locked
Recover(p) ==
    /\ p \in notified /\ p = active /\ conn[p] = "connected" /\ phase = "reconnecting"
    /\ notified' = notified \ {p}
    /\ phase' = "stable" /\ lost' = None /\ grace' = None
    /\ UNCHANGED <<epoch, active, activeGen, candidate, lastGen, switch, decided, media, conn,
                   drops, handlers, closes, terminal, faults>>

\* resolve_deferred_connection_state, from the grace task
GraceExpires ==
    /\ grace # None
    /\ IF phase # "reconnecting" \/ grace.epoch # epoch \/ grace.peer # lost.peer
       THEN grace' = None /\ UNCHANGED <<phase, epoch, active, candidate, lost, terminal>>
       ELSE IF Admitted # {}
       THEN grace' = None /\ UNCHANGED <<phase, epoch, active, candidate, lost, terminal>>
       ELSE TransitionTerminal(IF lost.state = "failed" THEN "failed" ELSE "ended", active, {})
    /\ UNCHANGED <<activeGen, lastGen, switch, decided, media, net, handlers, closes, faults>>

\* backfill_reconnect_audio: admission
BackfillAdmit(b) ==
    /\ backfill[b] = "idle" /\ outcome = None
    /\ backfill' = [backfill EXCEPT ![b] = "admitted"]
    /\ UNCHANGED <<life, selection, speech, lease, net, handlers, closes,
                   terminal, faults>>

\* fault: the end of a backfill does not arm the grace again
BackfillDoneNoRearm(b) ==
    /\ backfill[b] = "admitted" /\ backfill' = [backfill EXCEPT ![b] = "done"]
    /\ UNCHANGED <<life, selection, speech, lease, net, handlers, closes,
                   terminal, faults>>

\* The finally of backfill_reconnect_audio: the last one arms the grace again.
BackfillDone(b) ==
    /\ backfill[b] = "admitted" /\ backfill' = [backfill EXCEPT ![b] = "done"]
    /\ IF Admitted \subseteq {b} /\ phase = "reconnecting" THEN NewGrace(epoch, lost.peer)
       ELSE UNCHANGED grace
    /\ UNCHANGED <<phase, epoch, active, activeGen, candidate, lastGen, switch, decided, lost,
                   selection, speech, lease, net, handlers, closes, terminal,
                   faults>>
-----------------------------------------------------------------------------
(* Speech and the lease, as far as a switch concerns them. *)

\* reserve_accepted_speech_configuration and its validation at the admission
SpeechStarts ==
    /\ phase = "stable" /\ speech = None /\ speech' = selection
    /\ UNCHANGED <<life, backfill, selection, lease, net, handlers, closes,
                   terminal, faults>>

SpeechEnds ==
    /\ speech # None /\ speech' = None
    /\ UNCHANGED <<life, backfill, selection, lease, net, handlers, closes,
                   terminal, faults>>

\* _run_prompt_lease_handoff that installs
LeaseInstalled ==
    /\ phase = "stable" /\ selection = "qwen" /\ ~lease /\ lease' = TRUE
    /\ UNCHANGED <<life, backfill, selection, speech, net, handlers, closes,
                   terminal, faults>>

TransportEvent(p) ==
    \/ TransportUp(p) \/ \E state \in Lost : TransportDown(p, state)
Handle(p) == CandidateLost(p) \/ NotificationIgnored(p) \/ BeginReconnect(p) \/ Recover(p)
Decision(g) == DecisionAnswered(g) \/ RejectDecision(g) \/ Promote(g) \/ BeginSwitch(g)
Terminate == TerminalStep \/ PassEnds \/ Publish
SwitchTask == SwitchStep \/ CommitSwitch \/ FailSwitch \/ SwitchLost

Next ==
    \/ \E p \in Peers :
         \/ OfferUnusable(p) \/ OfferTerminal(p) \/ OfferDuringSwitch(p) \/ Offer(p)
         \/ Negotiated(p) \/ OfferFails(p)
         \/ TransportEvent(p) \/ Handle(p) \/ CloseOwned(p)
    \/ \E g \in Generations : Decision(g)
    \/ CandidateTimeout \/ SwitchTask \/ GraceExpires
    \/ \E b \in Backfills : BackfillAdmit(b) \/ BackfillDone(b)
    \/ SpeechStarts \/ SpeechEnds \/ LeaseInstalled
    \/ End \/ Terminate

Spec == Init /\ [][Next]_vars

\* The event loop runs every task that is ready, timers fire, and a cleanup step or a
\* backfill ends, if only by its timeout.
Fairness ==
    /\ \A p \in Peers : WF_vars(CloseOwned(p)) /\ WF_vars(Handle(p))
    /\ WF_vars(CandidateTimeout) /\ WF_vars(SwitchTask) /\ WF_vars(GraceExpires)
    /\ WF_vars(Terminate)
    /\ \A b \in Backfills : WF_vars(BackfillDone(b))
FairSpec == Spec /\ Fairness
-----------------------------------------------------------------------------
(* Properties *)

\* A peer in use (the active one of a running call, the candidate, the new peer of a
\* switch) was never closed by us: no late timeout, rejection or cleanup of an earlier
\* generation reaches it (session.py _expire_pending_peer_connection, reject_pending_...).
InUseIsOpen ==
    /\ phase \in {"stable", "reconnecting"} => active \notin closed \cup closing
    /\ candidate # None => candidate.peer \notin closed \cup closing
    /\ phase = "switching" => switch.peer \notin closed \cup closing

\* No peer is forgotten: every one that was created is in use, owned by a cleanup that is
\* still trying, closed, or on record as one that could not be closed (the owned cleanups
\* and _TerminalCleanup).
NoPeerIsForgotten ==
    \A p \in Peers :
        conn[p] # "none" =>
            \/ p \in closed \cup closing \cup unclosed
            \/ phase # "terminal" /\ (p = active \/ IsPending(p))
            \/ phase = "switching" /\ p = switch.peer
            \/ Resource("peer", p) \in cleanup.pending

\* Decisions agree: whatever commit and reject requests and their retries are answered,
\* a generation is never both committed and refused, a refused one is not the active one,
\* and a committed one was promoted (commit_pending_peer_generation, reject_...).
DecisionsAgree ==
    \A g \in Generations :
        /\ answers[g] \cap {"rejected", "failed"} # {} =>
               "committed" \notin answers[g] /\ (g = activeGen => g = 0)
        /\ "committed" \in answers[g] => g <= activeGen

\* Speech and the lease belong to the accepted engine: while the call is stable nothing
\* of the engine before a switch is left (the switch cancels and releases before it
\* publishes the selection).
EngineIsUniform ==
    phase = "stable" =>
        /\ speech \in {selection, None}
        /\ lease => selection = "qwen"

\* The reconnect grace ends a call only when its transport is really down, as far as the
\* session was told, and no recorded audio is being taken in
\* (resolve_deferred_connection_state).
GraceSparesLiveCalls ==
    [][(phase = "reconnecting" /\ phase' = "terminal" /\ ~End)
         => Admitted = {} /\ (conn[active] \in Lost \/ active \in notified)]_vars

CleanupIsOver == cleanup.pending = {} \/ cleanup.passes = RetryLimit

\* A call does not stay reconnecting or switching: the transport comes back, a candidate
\* takes over, or the call ends; and an ended call publishes its outcome and finishes its
\* cleanup, or records what it could not release.
CallSettles ==
    /\ []<>(phase \in {"stable", "terminal"})
    /\ []<>(outcome = None \/ (ending = "done" /\ CleanupIsOver))

\* Every peer is accounted for: those in use are open, and those out of use are closed,
\* being closed or on record.
PeersAreAccounted == TypeOK /\ InUseIsOpen /\ NoPeerIsForgotten

\* A switch of the peer is all or nothing: its decisions agree, and with it the engine of
\* the speech and of the lease changes as a whole.
SwitchIsAtomic == DecisionsAgree /\ EngineIsUniform
=============================================================================
