-------------------------- MODULE CallPeersProofs --------------------------
(***************************************************************************)
(* Proofs about CallPeers, for every finite set of peers, every selection  *)
(* their offers may carry, and every limit on retries, losses and faults.  *)
(***************************************************************************)
EXTENDS CallPeers, FiniteSetTheorems, TLAPS

\* We have closed a peer, are closing it or gave it up.
Retired(p) == p \in closed \cup closing \cup unclosed

\* What a phase says about the candidate, the switch and the terminal transaction.
PhaseFits ==
    /\ phase = "terminal" <=> outcome # None
    /\ phase = "switching" => switch # None
    /\ switch # None => phase \in {"switching", "terminal"}
    /\ phase \in {"switching", "terminal"} => candidate = None
    /\ phase = "reconnecting" => lost # None
    /\ phase # "terminal" => cleanup.pending = {} /\ cleanup.todo = {}

\* While the call runs a peer that was not offered yet is nobody's.
OffersFresh ==
    phase # "terminal" => \A p \in Peers : offer[p] = "idle" =>
        /\ p # active /\ ~IsPending(p) /\ ~Retired(p) /\ genOf[p] = 0
        /\ switch # None => p # switch.peer

\* Each generation belongs to a peer, so that there are no more of them than peers.
Offered == {p \in Peers : genOf[p] # 0}
GenerationsCounted == lastGen = Cardinality(Offered)

\* The peers in use are open and different ones; generations grow along them.
ActiveFits ==
    /\ activeGen <= lastGen
    /\ phase \in {"stable", "reconnecting"} => ~Retired(active)
CandidateFits ==
    candidate # None =>
        /\ candidate.gen = lastGen /\ activeGen < lastGen
        /\ candidate.peer # active /\ ~Retired(candidate.peer)
SwitchFits ==
    /\ switch # None => switch.gen = lastGen /\ activeGen < lastGen
    /\ phase = "switching" =>
          /\ active = switch.prev /\ switch.peer # active /\ ~Retired(switch.peer)
          /\ switch.step \in {"cancel", "finish"} =>
                switch.prev \in closed \/ Resource("peer", switch.prev) \in switch.errors

\* A cleanup that goes on has attempts left, and none was made for a peer not retired.
TriesFit ==
    \A p \in Peers : /\ p \in closing => tries[p] < RetryLimit
                     /\ ~Retired(p) => tries[p] = 0

\* A cleanup closes peers, and not what is no peer.
PeersNamed ==
    /\ \A x \in cleanup.pending \cup cleanup.todo : x.kind = "peer" => x.of \in Peers
    /\ switch # None => \A x \in switch.errors : x.kind = "peer" => x.of \in Peers

PeersInv ==
    /\ TypeOK /\ PhaseFits /\ OffersFresh /\ GenerationsCounted /\ ActiveFits /\ CandidateFits
    /\ SwitchFits /\ TriesFit /\ PeersNamed /\ NoPeerIsForgotten

\* The speech and the lease are of the accepted engine until the call ends; a switch gets
\* rid of both before it publishes its selection.
EngineFits ==
    phase # "terminal" => /\ speech \in {selection, None}
                          /\ lease => selection = "qwen"
SwitchClears ==
    phase = "switching" =>
        /\ lease => switch.lease
        /\ ~switch.cancel => speech = None
        /\ switch.step = "finish" /\ Resource("cancel", None) \notin switch.errors
              => speech = None
EngineInv == EngineFits /\ SwitchClears

\* What was told about a generation is final: a refused one is and becomes not the active one.
Refused(g) == answers[g] \cap {"rejected", "failed"} # {}
RefusalsHold ==
    \A g \in Generations : Refused(g) =>
        /\ g # activeGen /\ g <= lastGen /\ "committed" \notin answers[g]
        /\ candidate # None => g # candidate.gen
        /\ phase = "switching" => g # switch.gen
CommitsHold == \A g \in Generations : "committed" \in answers[g] => g <= activeGen
DecidedFits ==
    /\ decided.gen <= lastGen
    /\ decided.outcome = "committed" => decided.gen <= activeGen /\ ~Refused(decided.gen)
    /\ decided.outcome = "failed" => decided.gen > activeGen /\ phase = "terminal"
DecisionInv == RefusalsHold /\ CommitsHold /\ DecidedFits

\* While the call reconnects its transport is down, or the session has not been told yet.
GraceFits == phase = "reconnecting" => conn[active] \in Lost \/ active \in notified

\* The types of the life of the call, of the switch, of what is said and owned, of the
\* transports and offers, and of the cleanups and the end.
TypeLife ==
    /\ phase \in Phases /\ epoch \in Nat
    /\ active \in Peers /\ activeGen \in Generations /\ lastGen \in Generations
    /\ candidate \in Candidates \cup {None}
    /\ decided \in [gen : Generations, outcome : {"committed", "failed", "none"}]
    /\ lost \in Losses \cup {None}
    /\ grace \in [epoch : Nat, peer : Peers] \cup {None}
TypeSwitch == switch \in Switches \cup {None}
TypeMedia ==
    /\ backfill \in [Backfills -> {"idle", "admitted", "done"}]
    /\ selection \in Selections /\ speech \in Selections \cup {None} /\ lease \in BOOLEAN
TypeNet ==
    /\ conn \in [Peers -> {"none", "new", "connected"} \cup Lost]
    /\ notified \subseteq Peers /\ drops \in 0 .. MaxDrops
    /\ offer \in [Peers -> {"idle", "negotiating", "answered", "gone"}]
    /\ genOf \in [Peers -> Generations]
    /\ answers \in [Generations -> SUBSET Answers]
TypeCloses ==
    /\ closing \subseteq Peers /\ tries \in [Peers -> 0 .. RetryLimit]
    /\ closed \subseteq Peers /\ unclosed \subseteq Peers /\ faults \in 0 .. MaxFaults
TypeEnd ==
    /\ outcome \in {"ended", "failed", None}
    /\ cleanup \in [pending : SUBSET Resources, todo : SUBSET Resources,
                    passes : 0 .. RetryLimit, timedOut : BOOLEAN]
    /\ ending \in {"none", "cleaning", "publishing", "retrying", "done"}

LEMMA Types ==
  TypeOK <=> TypeLife /\ TypeSwitch /\ TypeMedia /\ TypeNet /\ TypeCloses /\ TypeEnd
BY DEF TypeOK, TypeLife, TypeSwitch, TypeMedia, TypeNet, TypeCloses, TypeEnd

\* Whoever may be the argument of a step is a peer, a generation or a selection.
TypedParts ==
    /\ candidate # None => /\ candidate.peer \in Peers /\ candidate.gen \in Generations
                           /\ candidate.config \in Selections
    /\ switch # None => /\ switch.peer \in Peers /\ switch.prev \in Peers
                        /\ switch.gen \in Generations /\ switch.config \in Selections
                        /\ switch.step \in SwitchSteps /\ switch.errors \subseteq Resources
    /\ lost # None => lost.peer \in Peers /\ lost.state \in Lost
    /\ cleanup.todo \subseteq Resources /\ cleanup.pending \subseteq Resources

LEMMA Parts == ASSUME TypeOK PROVE TypedParts
<1> USE DEF Candidates, Switches, Losses
<1>1. TypeLife /\ TypeSwitch /\ TypeEnd BY Types
<1>2. candidate # None => /\ candidate.peer \in Peers /\ candidate.gen \in Generations
                          /\ candidate.config \in Selections
  BY <1>1 DEF TypeLife
<1>3. switch # None => /\ switch.peer \in Peers /\ switch.prev \in Peers
                       /\ switch.gen \in Generations /\ switch.config \in Selections
                       /\ switch.step \in SwitchSteps /\ switch.errors \subseteq Resources
  BY <1>1 DEF TypeSwitch
<1>4. lost # None => lost.peer \in Peers /\ lost.state \in Lost BY <1>1 DEF TypeLife
<1>5. cleanup.todo \subseteq Resources /\ cleanup.pending \subseteq Resources
  BY <1>1 DEF TypeEnd
<1> QED BY <1>2, <1>3, <1>4, <1>5 DEF TypedParts

LEMMA ResourceTyped ==
  ASSUME NEW kind \in {"cancel", "peer", "track", "lease"}, NEW p \in Peers \cup {None}
  PROVE  Resource(kind, p) \in Resources
BY DEF Resource, Resources

\* The helpers of the steps.
LEMMA ClosesTyped ==
  ASSUME TypeOK, NEW ps \in SUBSET Peers, ClosePeers(ps)
  PROVE  /\ conn' \in [Peers -> {"none", "new", "connected"} \cup Lost]
         /\ notified' \subseteq Peers /\ drops' = drops /\ closed' \subseteq Peers
<1>1. conn \in [Peers -> {"none", "new", "connected"} \cup Lost] BY DEF TypeOK
<1>2. conn' = [p \in Peers |-> IF p \in ps THEN "closed" ELSE conn[p]] BY DEF ClosePeers
<1>3. conn' \in [Peers -> {"none", "new", "connected"} \cup Lost] BY <1>1, <1>2 DEF Lost
<1>4. notified \subseteq Peers /\ closed \subseteq Peers BY DEF TypeOK
<1> QED BY <1>3, <1>4 DEF ClosePeers

LEMMA AnswersTyped ==
  ASSUME TypeOK, NEW g \in Generations, NEW action \in {"commit", "reject"}, NEW a,
         Answer(g, action, a)
  PROVE  answers' \in [Generations -> SUBSET Answers]
<1>1. answers \in [Generations -> SUBSET Answers] BY DEF TypeOK
<1>2. Expected[action] \subseteq Answers BY DEF Expected, Answers
<1> HIDE DEF Answers
<1> QED BY <1>1, <1>2 DEF Answer

LEMMA WorkTyped ==
  ASSUME TypeOK, NEW act \in Peers, NEW extra \in SUBSET Resources
  PROVE  TerminalWork(act, extra) \subseteq Resources
<1>1. TypedParts BY Parts
<1> DEFINE involved == IF switch = None THEN {} ELSE {switch.peer, switch.prev}
           pending == IF candidate = None THEN {} ELSE {candidate.peer}
<1>2. involved \subseteq Peers /\ pending \subseteq Peers BY <1>1 DEF TypedParts
<1> HIDE DEF involved, pending
<1>3. {Resource("cancel", None) : x \in IF speech = None THEN {} ELSE {speech}} \subseteq Resources
  BY ResourceTyped
<1>4. {Resource("peer", p) : p \in {act} \cup involved \cup pending} \subseteq Resources
  BY <1>2, ResourceTyped
<1>5. {Resource("track", p) : p \in involved \cup pending} \subseteq Resources
  BY <1>2, ResourceTyped
<1>6. (IF lease THEN {Resource("lease", None)} ELSE {}) \subseteq Resources BY ResourceTyped
<1> QED BY <1>3, <1>4, <1>5, <1>6 DEF TerminalWork, involved, pending

LEMMA EndTyped ==
  ASSUME TypeOK, NEW target \in {"ended", "failed"}, NEW act \in Peers,
         NEW extra \in SUBSET Resources, TransitionTerminal(target, act, extra)
  PROVE  /\ TypeEnd' /\ phase' \in Phases /\ epoch' \in Nat /\ active' \in Peers
         /\ candidate' = None /\ lost' = None /\ grace' = None
<1>1. epoch \in Nat BY DEF TypeOK
<1>2. TerminalWork(act, extra) \subseteq Resources BY WorkTyped
<1> DEFINE work == TerminalWork(act, extra)
<1>3. /\ phase' = "terminal" /\ epoch' = epoch + 1 /\ active' = act
      /\ candidate' = None /\ lost' = None /\ grace' = None
      /\ outcome' = target /\ ending' = "cleaning"
      /\ cleanup' = [pending |-> work, todo |-> work, passes |-> 1, timedOut |-> FALSE]
  BY DEF TransitionTerminal
<1> HIDE DEF work
<1>4. work \subseteq Resources BY <1>2 DEF work
<1>5. 1 \in 0 .. RetryLimit BY LimitsAssumption
<1>6. TypeEnd' BY <1>3, <1>4, <1>5 DEF TypeEnd
<1> QED BY <1>1, <1>3, <1>6 DEF Phases

LEMMA GraceTyped ==
  ASSUME TypeOK, NEW e \in Nat, NEW p \in Peers, NewGrace(e, p)
  PROVE  grace' \in [epoch : Nat, peer : Peers] \cup {None}
BY DEF TypeOK, NewGrace

\* The cleanup of the end has something to do first while it has anything to do.
LEMMA FirstExists ==
  ASSUME NEW S \in SUBSET Resources, S # {}
  PROVE  (CHOOSE x \in S : \A y \in S : Rank(x) <= Rank(y)) \in S
<1>1. \A x \in S : Rank(x) \in {0, 1, 2, 3, 4} BY DEF Rank, Resources
<1> SUFFICES \E x \in S : \A y \in S : Rank(x) <= Rank(y)
  OBVIOUS
<1>2. CASE \E x \in S : Rank(x) = 0 BY <1>1, <1>2
<1>3. CASE ~(\E x \in S : Rank(x) = 0) /\ \E x \in S : Rank(x) = 1 BY <1>1, <1>3
<1>4. CASE ~(\E x \in S : Rank(x) \in {0, 1}) /\ \E x \in S : Rank(x) = 2 BY <1>1, <1>4
<1>5. CASE ~(\E x \in S : Rank(x) \in {0, 1, 2}) /\ \E x \in S : Rank(x) = 3 BY <1>1, <1>5
<1>6. CASE \A x \in S : Rank(x) = 4 BY <1>1, <1>6
<1> QED BY <1>1, <1>2, <1>3, <1>4, <1>5, <1>6

LEMMA TypesKept ==
  ASSUME PeersInv, lastGen' \in Generations, [Next]_vars PROVE TypeOK'
<1> USE PeersAssumption, LimitsAssumption, FS_CardinalityType
    DEF life, media, net, handlers, closes, terminal, Candidates, Switches, Losses
<1>t. TypeLife /\ TypeSwitch /\ TypeMedia /\ TypeNet /\ TypeCloses /\ TypeEnd
  BY Types DEF PeersInv
<1>o. TypeOK /\ TypedParts BY Parts DEF PeersInv
<1>y. PhaseFits /\ TriesFit /\ PeersNamed BY DEF PeersInv
<1>q. TypeLife' /\ TypeSwitch' /\ TypeMedia' /\ TypeNet' /\ TypeCloses' /\ TypeEnd' => TypeOK'
  BY DEF TypeOK, TypeLife, TypeSwitch, TypeMedia, TypeNet, TypeCloses, TypeEnd
<1>1. ASSUME NEW p \in Peers, OfferUnusable(p) PROVE TypeOK'
  <2>1. TypeNet' BY <1>1, <1>t DEF OfferUnusable, TypeNet
  <2>2. TypeLife' /\ TypeSwitch' /\ TypeMedia' /\ TypeCloses' /\ TypeEnd'
    BY <1>1, <1>t DEF OfferUnusable, TypeLife, TypeSwitch, TypeMedia, TypeCloses, TypeEnd
  <2> QED BY <2>1, <2>2, <1>q
<1>2. ASSUME NEW p \in Peers, OfferTerminal(p) PROVE TypeOK'
  <2>1. TypeNet'
    <3>1. CASE ClosePeers({p})
      BY <3>1, <1>2, <1>o, <1>t, ClosesTyped DEF OfferTerminal, TypeNet
    <3>2. CASE conn' = conn \/ conn' = [conn EXCEPT ![p] = "new"]
      BY <3>2, <1>2, <1>t, <1>o, ClosesTyped DEF OfferTerminal, TypeNet
    <3> QED BY <3>1, <3>2, <1>2 DEF OfferTerminal
  <2>2. TypeCloses'
    BY <1>2, <1>t, <1>o, ClosesTyped DEF OfferTerminal, Succeeds, Fails, TypeCloses
  <2>3. TypeLife' /\ TypeSwitch' /\ TypeMedia' /\ TypeEnd'
    BY <1>2, <1>t DEF OfferTerminal, TypeLife, TypeSwitch, TypeMedia, TypeEnd
  <2> QED BY <2>1, <2>2, <2>3, <1>q
<1>3. ASSUME NEW p \in Peers, OfferDuringSwitch(p) PROVE TypeOK'
  <2>1. TypeNet' BY <1>3, <1>t DEF OfferDuringSwitch, StartOwnedCleanup, TypeNet
  <2>2. TypeCloses' BY <1>3, <1>t DEF OfferDuringSwitch, StartOwnedCleanup, TypeCloses
  <2>3. TypeLife' /\ TypeSwitch' /\ TypeMedia' /\ TypeEnd'
    BY <1>3, <1>t DEF OfferDuringSwitch, TypeLife, TypeSwitch, TypeMedia, TypeEnd
  <2> QED BY <2>1, <2>2, <2>3, <1>q
<1>4. ASSUME NEW p \in Peers, Offer(p) PROVE TypeOK'
  <2>1. TypeLife'
    <3>1. PICK config \in Config[p] :
             candidate' = [peer |-> p, gen |-> lastGen + 1, epoch |-> epoch, config |-> config]
      BY <1>4 DEF Offer
    <3>2. lastGen' = lastGen + 1 BY <1>4 DEF Offer
    <3>3. config \in Selections OBVIOUS
    <3> QED BY <3>1, <3>2, <3>3, <1>4, <1>t DEF Offer, TypeLife
  <2>2. TypeNet' BY <1>4, <1>t DEF Offer, StartOwnedCleanup, TypeNet
  <2>3. TypeCloses'
    BY <1>4, <1>t, <1>o DEF Offer, StartOwnedCleanup, TypeCloses, TypedParts
  <2>4. TypeSwitch' /\ TypeMedia' /\ TypeEnd'
    BY <1>4, <1>t DEF Offer, TypeSwitch, TypeMedia, TypeEnd
  <2> QED BY <2>1, <2>2, <2>3, <2>4, <1>q
<1>5. ASSUME NEW p \in Peers, Negotiated(p) PROVE TypeOK'
  <2>1. TypeNet' BY <1>5, <1>t DEF Negotiated, TypeNet
  <2>2. TypeLife' /\ TypeSwitch' /\ TypeMedia' /\ TypeCloses' /\ TypeEnd'
    BY <1>5, <1>t DEF Negotiated, TypeLife, TypeSwitch, TypeMedia, TypeCloses, TypeEnd
  <2> QED BY <2>1, <2>2, <1>q
<1>6. ASSUME NEW p \in Peers, OfferFails(p) PROVE TypeOK'
  <2>1. TypeLife'
    BY <1>6, <1>t
    DEF OfferFails, RestoreFailedOffer, RejectPending, IsPending, StartOwnedCleanup,
        TypeLife, Phases
  <2>2. TypeNet'
    BY <1>6, <1>t
    DEF OfferFails, RestoreFailedOffer, RejectPending, IsPending, StartOwnedCleanup, TypeNet
  <2>3. TypeCloses'
    BY <1>6, <1>t
    DEF OfferFails, RestoreFailedOffer, RejectPending, IsPending, StartOwnedCleanup,
        TypeCloses
  <2>4. TypeSwitch' /\ TypeMedia' /\ TypeEnd'
    BY <1>6, <1>t DEF OfferFails, TypeSwitch, TypeMedia, TypeEnd
  <2> QED BY <2>1, <2>2, <2>3, <2>4, <1>q
<1>7. ASSUME NEW p \in Peers, TransportEvent(p) PROVE TypeOK'
  <2>1. TypeNet' BY <1>7, <1>t DEF TransportEvent, TransportUp, TransportDown, Lost, TypeNet
  <2>2. TypeLife' /\ TypeSwitch' /\ TypeMedia' /\ TypeCloses' /\ TypeEnd'
    BY <1>7, <1>t
    DEF TransportEvent, TransportUp, TransportDown, TypeLife, TypeSwitch, TypeMedia,
        TypeCloses, TypeEnd
  <2> QED BY <2>1, <2>2, <1>q
<1>8. ASSUME NEW p \in Peers, CandidateLost(p) PROVE TypeOK'
  <2>1. TypeLife'
    BY <1>8, <1>t
    DEF CandidateLost, RejectPending, IsPending, StartOwnedCleanup, Lost, TypeLife, Phases
  <2>2. TypeNet'
    BY <1>8, <1>t
    DEF CandidateLost, RejectPending, IsPending, StartOwnedCleanup, Lost, TypeNet
  <2>3. TypeCloses'
    BY <1>8, <1>t
    DEF CandidateLost, RejectPending, IsPending, StartOwnedCleanup, Lost, TypeCloses
  <2>4. TypeSwitch' /\ TypeMedia' /\ TypeEnd'
    BY <1>8, <1>t DEF CandidateLost, TypeSwitch, TypeMedia, TypeEnd
  <2> QED BY <2>1, <2>2, <2>3, <2>4, <1>q
<1>9. ASSUME NEW p \in Peers, NotificationIgnored(p) PROVE TypeOK'
  <2>1. TypeNet' BY <1>9, <1>t DEF NotificationIgnored, TypeNet
  <2>2. TypeLife' /\ TypeSwitch' /\ TypeMedia' /\ TypeCloses' /\ TypeEnd'
    BY <1>9, <1>t DEF NotificationIgnored, TypeLife, TypeSwitch, TypeMedia, TypeCloses, TypeEnd
  <2> QED BY <2>1, <2>2, <1>q
<1>10. ASSUME NEW p \in Peers, BeginReconnect(p) PROVE TypeOK'
  <2>1. TypeLife'
    <3>1. epoch' \in Nat /\ phase' \in Phases
      BY <1>10, <1>t DEF BeginReconnect, TypeLife, Phases
    <3>2. candidate' \in Candidates \cup {None}
      BY <1>10, <1>t DEF BeginReconnect, TypeLife
    <3>3. lost' \in Losses \cup {None}
      <4>1. conn[p] \in Lost BY <1>10 DEF BeginReconnect
      <4> QED BY <4>1, <1>10, <1>t DEF BeginReconnect, TypeLife
    <3>4. grace' \in [epoch : Nat, peer : Peers] \cup {None}
      BY <3>1, <1>10, <1>o, GraceTyped DEF BeginReconnect
    <3> QED BY <3>1, <3>2, <3>3, <3>4, <1>10, <1>t DEF BeginReconnect, TypeLife
  <2>2. TypeNet' BY <1>10, <1>t DEF BeginReconnect, NewGrace, Lost, TypeNet
  <2>3. TypeSwitch' /\ TypeMedia' /\ TypeCloses' /\ TypeEnd'
    BY <1>10, <1>t DEF BeginReconnect, TypeSwitch, TypeMedia, TypeCloses, TypeEnd
  <2> QED BY <2>1, <2>2, <2>3, <1>q
<1>11. ASSUME NEW p \in Peers, Recover(p) PROVE TypeOK'
  <2>1. TypeLife' BY <1>11, <1>t DEF Recover, TypeLife, Phases
  <2>2. TypeNet' BY <1>11, <1>t DEF Recover, TypeNet
  <2>3. TypeSwitch' /\ TypeMedia' /\ TypeCloses' /\ TypeEnd'
    BY <1>11, <1>t DEF Recover, TypeSwitch, TypeMedia, TypeCloses, TypeEnd
  <2> QED BY <2>1, <2>2, <2>3, <1>q
<1>12. ASSUME NEW p \in Peers, CloseOwned(p) PROVE TypeOK'
  <2>1. TypeNet'
    BY <1>12, <1>t, <1>o, ClosesTyped DEF CloseOwned, TypeNet
  <2>2. TypeCloses'
    <3>1. tries[p] < RetryLimit /\ tries[p] \in Nat
      BY <1>12, <1>y, <1>t DEF CloseOwned, TriesFit, TypeCloses
    <3>2. tries' = tries \/ tries' = [tries EXCEPT ![p] = tries[p] + 1]
      BY <1>12, <1>t DEF CloseOwned, TypeCloses
    <3>3. tries' \in [Peers -> 0 .. RetryLimit] BY <3>1, <3>2, <1>t DEF TypeCloses
    <3>4. closed' \subseteq Peers BY <1>12, <1>t, <1>o, ClosesTyped DEF CloseOwned, TypeCloses
    <3> QED BY <3>3, <3>4, <1>12, <1>t DEF CloseOwned, Succeeds, Fails, TypeCloses
  <2>3. TypeLife' /\ TypeSwitch' /\ TypeMedia' /\ TypeEnd'
    BY <1>12, <1>t DEF CloseOwned, TypeLife, TypeSwitch, TypeMedia, TypeEnd
  <2> QED BY <2>1, <2>2, <2>3, <1>q
<1>13. ASSUME NEW g \in Generations, DecisionAnswered(g) PROVE TypeOK'
  <2>1. TypeNet'
    <3>1. PICK action \in DOMAIN Expected : \E a : Answer(g, action, a)
      BY <1>13 DEF DecisionAnswered
    <3>2. action \in {"commit", "reject"} BY DEF Expected
    <3> QED BY <3>1, <3>2, <1>13, <1>t, <1>o, AnswersTyped DEF DecisionAnswered, TypeNet
  <2>2. TypeLife' /\ TypeSwitch' /\ TypeMedia' /\ TypeCloses' /\ TypeEnd'
    BY <1>13, <1>t DEF DecisionAnswered, TypeLife, TypeSwitch, TypeMedia, TypeCloses, TypeEnd
  <2> QED BY <2>1, <2>2, <1>q
<1>14. ASSUME NEW g \in Generations, RejectDecision(g) PROVE TypeOK'
  <2>1. TypeLife'
    BY <1>14, <1>t
    DEF RejectDecision, Answer, RejectPending, StartOwnedCleanup, TypeLife, Phases
  <2>2. TypeNet'
    BY <1>14, <1>t, <1>o, AnswersTyped DEF RejectDecision, TypeNet
  <2>3. TypeCloses'
    BY <1>14, <1>t, <1>o
    DEF RejectDecision, RejectPending, StartOwnedCleanup, TypeCloses, TypedParts
  <2>4. TypeSwitch' /\ TypeMedia' /\ TypeEnd'
    BY <1>14, <1>t DEF RejectDecision, TypeSwitch, TypeMedia, TypeEnd
  <2> QED BY <2>1, <2>2, <2>3, <2>4, <1>q
<1>15. ASSUME NEW g \in Generations, Promote(g) PROVE TypeOK'
  <2>0. candidate.peer \in Peers BY <1>15, <1>o DEF Promote, Acceptable, TypedParts
  <2>a. active \in Peers BY <1>t DEF TypeLife
  <2>1. TypeLife'
    BY <2>0, <1>15, <1>t DEF Promote, TypeLife, Phases
  <2>2. TypeNet'
    BY <2>a, <1>15, <1>t, <1>o, ClosesTyped, AnswersTyped DEF Promote, TypeNet
  <2>3. TypeCloses'
    BY <2>a, <1>15, <1>t, <1>o, ClosesTyped DEF Promote, Succeeds, Fails, TypeCloses
  <2>4. TypeSwitch' /\ TypeMedia' /\ TypeEnd'
    BY <1>15, <1>t DEF Promote, TypeSwitch, TypeMedia, TypeEnd
  <2> QED BY <2>1, <2>2, <2>3, <2>4, <1>q
<1>16. ASSUME NEW g \in Generations, BeginSwitch(g) PROVE TypeOK'
  <2>0. /\ candidate # None /\ candidate.peer \in Peers /\ candidate.config \in Selections
    BY <1>16, <1>o DEF BeginSwitch, Acceptable, TypedParts
  <2>a. active \in Peers /\ lease \in BOOLEAN BY <1>t DEF TypeLife, TypeMedia
  <2>1. TypeLife'
    BY <1>16, <1>t DEF BeginSwitch, TypeLife, Phases
  <2>2. TypeSwitch'
    <3> DEFINE cancels == speech # None
               gives == lease /\ selection = "qwen"
    <3>1. switch' = [peer |-> candidate.peer, prev |-> active, gen |-> g, cancel |-> cancels,
                     lease |-> gives, config |-> candidate.config,
                     step |-> "old_track", errors |-> {}]
      BY <1>16 DEF BeginSwitch
    <3>2. cancels \in BOOLEAN /\ gives \in BOOLEAN BY <2>a
    <3> HIDE DEF cancels, gives
    <3> QED BY <3>1, <3>2, <2>0, <2>a DEF TypeSwitch, SwitchSteps
  <2>3. TypeMedia' /\ TypeNet' /\ TypeCloses' /\ TypeEnd'
    BY <1>16, <1>t DEF BeginSwitch, TypeMedia, TypeNet, TypeCloses, TypeEnd
  <2> QED BY <2>1, <2>2, <2>3, <1>q
<1>17. CASE CandidateTimeout
  <2>1. TypeLife'
    BY <1>17, <1>t
    DEF CandidateTimeout, RejectPending, StartOwnedCleanup, TypeLife, Phases
  <2>2. TypeCloses'
    BY <1>17, <1>t, <1>o
    DEF CandidateTimeout, RejectPending, StartOwnedCleanup, TypeCloses, TypedParts
  <2>3. TypeSwitch' /\ TypeMedia' /\ TypeNet' /\ TypeEnd'
    BY <1>17, <1>t DEF CandidateTimeout, TypeSwitch, TypeMedia, TypeNet, TypeEnd
  <2> QED BY <2>1, <2>2, <2>3, <1>q
<1>18. CASE SwitchStep
  <2>0. /\ switch # None /\ switch.prev \in Peers /\ switch.peer \in Peers
        /\ switch.step \in SwitchSteps \ {"finish"}
    BY <1>18, <1>o DEF SwitchStep, TypedParts
  <2> DEFINE step == switch.step
             x == CASE step = "old_track" -> Resource("track", switch.prev)
                    [] step = "new_track" -> Resource("track", switch.peer)
                    [] step = "old_peer" -> Resource("peer", switch.prev)
                    [] step = "cancel" -> Resource("cancel", None)
  <2>a. NextStep[step] \in SwitchSteps BY <2>0 DEF NextStep, SwitchSteps
  <2>b. x \in Resources BY <2>0, ResourceTyped DEF SwitchSteps
  <2>c. \/ /\ switch' = [switch EXCEPT !.step = NextStep[step]] /\ Succeeds
           /\ \E ps \in SUBSET Peers : ClosePeers(ps)
           /\ speech' \in {speech, None}
        \/ /\ switch' = [switch EXCEPT !.step = NextStep[step], !.errors = @ \cup {x}] /\ Fails
           /\ UNCHANGED <<net, closed, speech>>
    BY <1>18, <2>0 DEF SwitchStep
  <2> HIDE DEF step, x
  <2>1. TypeSwitch'
    <3>1. switch \in Switches
      BY <2>0, <1>t DEF TypeSwitch
    <3> DEFINE next == NextStep[step]
               errors == switch.errors \cup {x}
    <3>2. next \in SwitchSteps /\ errors \in SUBSET Resources BY <3>1, <2>a, <2>b
    <3>3. \/ switch' = [switch EXCEPT !.step = next]
          \/ switch' = [switch EXCEPT !.step = next, !.errors = errors]
      BY <2>c
    <3> HIDE DEF next, errors
    <3> QED BY <3>1, <3>2, <3>3 DEF TypeSwitch
  <2>2. TypeMedia'
    BY <2>c, <1>18, <1>t DEF SwitchStep, TypeMedia
  <2>3. TypeNet'
    BY <2>c, <1>18, <1>t, <1>o, ClosesTyped DEF SwitchStep, TypeNet
  <2>4. TypeCloses'
    BY <2>c, <1>18, <1>t, <1>o, ClosesTyped DEF SwitchStep, Succeeds, Fails, TypeCloses
  <2>5. TypeLife' /\ TypeEnd'
    BY <1>18, <1>t DEF SwitchStep, TypeLife, TypeEnd
  <2> QED BY <2>1, <2>2, <2>3, <2>4, <2>5, <1>q
<1>19. CASE CommitSwitch
  <2>0. /\ switch.peer \in Peers /\ switch.gen \in Generations /\ switch.config \in Selections
    BY <1>19, <1>o, <1>y DEF CommitSwitch, TypedParts, PhaseFits
  <2>1. TypeLife'
    BY <2>0, <1>19, <1>t DEF CommitSwitch, TypeLife, Phases
  <2>2. TypeSwitch'
    BY <1>19, <1>t
    DEF CommitSwitch, Answer, ApplyConfiguration, Succeeds, TypeSwitch, SwitchSteps
  <2>3. TypeMedia'
    BY <2>0, <1>19, <1>t DEF CommitSwitch, ApplyConfiguration, TypeMedia
  <2>4. TypeNet'
    BY <2>0, <1>19, <1>t, <1>o, AnswersTyped DEF CommitSwitch, TypeNet
  <2>5. TypeCloses'
    BY <1>19, <1>t
    DEF CommitSwitch, Answer, ApplyConfiguration, Succeeds, TypeCloses
  <2>6. TypeEnd'
    BY <1>19, <1>t DEF CommitSwitch, TypeEnd
  <2> QED BY <2>1, <2>2, <2>3, <2>4, <2>5, <2>6, <1>q
<1>20. CASE FailSwitch
  <2>0. /\ switch.peer \in Peers /\ switch.gen \in Generations /\ switch.errors \subseteq Resources
    BY <1>20, <1>o, <1>y DEF FailSwitch, TypedParts, PhaseFits
  <2> DEFINE extra == {x \in switch.errors : x.kind \in {"peer", "track"}}
  <2>a. extra \in SUBSET Resources BY <2>0
  <2>b. TransitionTerminal("failed", switch.peer, extra) BY <1>20 DEF FailSwitch
  <2> HIDE DEF extra
  <2>c. /\ TypeEnd' /\ phase' \in Phases /\ epoch' \in Nat /\ active' \in Peers
        /\ candidate' = None /\ lost' = None /\ grace' = None
    BY <2>0, <2>a, <2>b, <1>o, EndTyped
  <2>1. TypeLife'
    BY <2>0, <2>c, <1>20, <1>t DEF FailSwitch, TypeLife
  <2>2. TypeSwitch'
    BY <1>20, <1>t
    DEF FailSwitch, Answer, TransitionTerminal, Succeeds, Fails, TypeSwitch, SwitchSteps
  <2>3. TypeNet'
    BY <2>0, <1>20, <1>t, <1>o, AnswersTyped DEF FailSwitch, TypeNet
  <2>4. TypeCloses'
    BY <1>20, <1>t
    DEF FailSwitch, Answer, TransitionTerminal, Succeeds, Fails, TypeCloses
  <2>5. TypeEnd'
    BY <2>c
  <2>6. TypeMedia'
    BY <1>20, <1>t DEF FailSwitch, TypeMedia
  <2> QED BY <2>1, <2>2, <2>3, <2>4, <2>5, <2>6, <1>q
<1>21. CASE SwitchLost
  <2>0. switch.gen \in Generations BY <1>21, <1>o DEF SwitchLost, TypedParts
  <2>1. TypeLife'
    BY <2>0, <1>21, <1>t DEF SwitchLost, TypeLife
  <2>2. TypeSwitch' BY <1>21, <1>t DEF SwitchLost, Answer, TypeSwitch, SwitchSteps
  <2>3. TypeNet'
    BY <2>0, <1>21, <1>t, <1>o, AnswersTyped DEF SwitchLost, TypeNet
  <2>4. TypeMedia' /\ TypeCloses' /\ TypeEnd'
    BY <1>21, <1>t DEF SwitchLost, TypeMedia, TypeCloses, TypeEnd
  <2> QED BY <2>1, <2>2, <2>3, <2>4, <1>q
<1>22. CASE GraceExpires
  <2>a. active \in Peers BY <1>t DEF TypeLife
  <2>0. ASSUME TransitionTerminal(IF lost.state = "failed" THEN "failed" ELSE "ended", active, {})
        PROVE  TypeLife' /\ TypeEnd'
    <3> DEFINE target == IF lost.state = "failed" THEN "failed" ELSE "ended"
    <3>1. target \in {"failed", "ended"} OBVIOUS
    <3>2. TransitionTerminal(target, active, {}) BY <2>0
    <3> HIDE DEF target
    <3>3. /\ TypeEnd' /\ phase' \in Phases /\ epoch' \in Nat /\ active' \in Peers
          /\ candidate' = None /\ lost' = None /\ grace' = None
      BY <3>1, <3>2, <2>a, <1>o, EndTyped
    <3> QED BY <3>3, <1>22, <1>t DEF GraceExpires, TypeLife
  <2>b. ASSUME grace' = None /\ UNCHANGED <<phase, epoch, active, candidate, lost, terminal>>
        PROVE  TypeLife' /\ TypeEnd'
    <3>1. TypeLife' BY <2>b, <1>22, <1>t DEF GraceExpires, TypeLife
    <3>2. TypeEnd' BY <2>b, <1>22, <1>t DEF GraceExpires, TypeEnd
    <3> QED BY <3>1, <3>2
  <2>1. TypeLife'
    BY <2>0, <2>b, <1>22 DEF GraceExpires
  <2>2. TypeEnd'
    BY <2>0, <2>b, <1>22 DEF GraceExpires
  <2>3. TypeSwitch' /\ TypeMedia' /\ TypeNet' /\ TypeCloses'
    BY <1>22, <1>t DEF GraceExpires, TypeSwitch, TypeMedia, TypeNet, TypeCloses
  <2> QED BY <2>1, <2>2, <2>3, <1>q
<1>23. ASSUME NEW b \in Backfills, BackfillAdmit(b) PROVE TypeOK'
  <2>1. TypeMedia' BY <1>23, <1>t DEF BackfillAdmit, TypeMedia
  <2>2. TypeLife' /\ TypeSwitch' /\ TypeNet' /\ TypeCloses' /\ TypeEnd'
    BY <1>23, <1>t DEF BackfillAdmit, TypeLife, TypeSwitch, TypeNet, TypeCloses, TypeEnd
  <2> QED BY <2>1, <2>2, <1>q
<1>24. ASSUME NEW b \in Backfills, BackfillDone(b) PROVE TypeOK'
  <2>1. TypeLife'
    <3>1. grace' \in [epoch : Nat, peer : Peers] \cup {None}
      <4>1. epoch \in Nat BY <1>t DEF TypeLife
      <4>2. CASE Admitted \subseteq {b} /\ phase = "reconnecting"
        <5>1. lost.peer \in Peers BY <4>2, <1>o, <1>y DEF TypedParts, PhaseFits
        <5> QED BY <4>1, <4>2, <5>1, <1>24, <1>o, GraceTyped DEF BackfillDone
      <4>3. CASE ~(Admitted \subseteq {b} /\ phase = "reconnecting")
        BY <4>3, <1>24, <1>t DEF BackfillDone, TypeLife
      <4> QED BY <4>2, <4>3
    <3> QED BY <3>1, <1>24, <1>t DEF BackfillDone, TypeLife
  <2>2. TypeMedia' BY <1>24, <1>t DEF BackfillDone, NewGrace, TypeMedia
  <2>3. TypeSwitch' /\ TypeNet' /\ TypeCloses' /\ TypeEnd'
    BY <1>24, <1>t DEF BackfillDone, TypeSwitch, TypeNet, TypeCloses, TypeEnd
  <2> QED BY <2>1, <2>2, <2>3, <1>q
<1>25. CASE SpeechStarts
  <2>1. TypeMedia' BY <1>25, <1>t DEF SpeechStarts, TypeMedia
  <2>2. TypeLife' /\ TypeSwitch' /\ TypeNet' /\ TypeCloses' /\ TypeEnd'
    BY <1>25, <1>t DEF SpeechStarts, TypeLife, TypeSwitch, TypeNet, TypeCloses, TypeEnd
  <2> QED BY <2>1, <2>2, <1>q
<1>26. CASE SpeechEnds
  <2>1. TypeMedia' BY <1>26, <1>t DEF SpeechEnds, TypeMedia
  <2>2. TypeLife' /\ TypeSwitch' /\ TypeNet' /\ TypeCloses' /\ TypeEnd'
    BY <1>26, <1>t DEF SpeechEnds, TypeLife, TypeSwitch, TypeNet, TypeCloses, TypeEnd
  <2> QED BY <2>1, <2>2, <1>q
<1>27. CASE LeaseInstalled
  <2>1. TypeMedia' BY <1>27, <1>t DEF LeaseInstalled, TypeMedia
  <2>2. TypeLife' /\ TypeSwitch' /\ TypeNet' /\ TypeCloses' /\ TypeEnd'
    BY <1>27, <1>t DEF LeaseInstalled, TypeLife, TypeSwitch, TypeNet, TypeCloses, TypeEnd
  <2> QED BY <2>1, <2>2, <1>q
<1>28. CASE End
  <2>0. /\ TypeEnd' /\ phase' \in Phases /\ epoch' \in Nat /\ active' \in Peers
        /\ candidate' = None /\ lost' = None /\ grace' = None
    <3>1. active \in Peers BY <1>t DEF TypeLife
    <3> QED BY <3>1, <1>28, <1>o, EndTyped DEF End
  <2>1. TypeLife'
    BY <2>0, <1>28, <1>t DEF End, TypeLife
  <2>2. TypeEnd'
    BY <2>0
  <2>3. TypeSwitch' /\ TypeMedia' /\ TypeNet' /\ TypeCloses'
    BY <1>28, <1>t DEF End, TypeSwitch, TypeMedia, TypeNet, TypeCloses
  <2> QED BY <2>1, <2>2, <2>3, <1>q
<1>29. CASE TerminalStep
  <2> DEFINE x == CHOOSE x \in cleanup.todo : \A y \in cleanup.todo : Rank(x) <= Rank(y)
             ps == IF x.kind = "peer" THEN {x.of} ELSE {}
  <2>0. \/ /\ Succeeds /\ speech' \in {speech, None} /\ lease' \in BOOLEAN /\ ClosePeers(ps)
           /\ cleanup' = [cleanup EXCEPT !.todo = @ \ {x}, !.pending = @ \ {x}]
        \/ /\ Fails /\ UNCHANGED <<speech, lease, net, closed>>
           /\ \E timeout \in BOOLEAN :
                cleanup' = [cleanup EXCEPT !.todo = @ \ {x}, !.timedOut = @ \/ timeout]
    BY <1>29, <1>t DEF TerminalStep, TypeMedia
  <2>a. x \in cleanup.todo BY <1>29, <1>o, FirstExists DEF TerminalStep, TypedParts
  <2>b. ps \in SUBSET Peers BY <2>a, <1>y DEF PeersNamed
  <2> HIDE DEF x, ps
  <2>1. TypeMedia'
    BY <2>0, <1>29, <1>t DEF TerminalStep, TypeMedia
  <2>2. TypeNet'
    BY <2>0, <2>b, <1>29, <1>t, <1>o, ClosesTyped DEF TerminalStep, TypeNet
  <2>3. TypeCloses'
    <3>0. Succeeds \/ Fails BY <2>0
    <3>1. closed' \subseteq Peers BY <2>0, <2>b, <1>t, <1>o, ClosesTyped DEF TypeCloses
    <3>2. faults' \in 0 .. MaxFaults BY <3>0, <1>t DEF Succeeds, Fails, TypeCloses
    <3> QED BY <3>1, <3>2, <1>29, <1>t DEF TerminalStep, TypeCloses
  <2>4. TypeEnd'
    <3> DEFINE todo == cleanup.todo \ {x}
               pending == cleanup.pending \ {x}
    <3>1. todo \in SUBSET Resources /\ pending \in SUBSET Resources BY <1>o DEF TypedParts
    <3>2. \/ cleanup' = [cleanup EXCEPT !.todo = todo, !.pending = pending]
          \/ \E timeout \in BOOLEAN :
                cleanup' = [cleanup EXCEPT !.todo = todo, !.timedOut = @ \/ timeout]
      BY <2>0
    <3> HIDE DEF todo, pending
    <3>3. CASE cleanup' = [cleanup EXCEPT !.todo = todo, !.pending = pending]
      BY <3>1, <3>3, <1>29, <1>t DEF TerminalStep, TypeEnd
    <3>4. CASE \E timeout \in BOOLEAN :
                  cleanup' = [cleanup EXCEPT !.todo = todo, !.timedOut = @ \/ timeout]
      BY <3>1, <3>4, <1>29, <1>t DEF TerminalStep, TypeEnd
    <3> QED BY <3>2, <3>3, <3>4
  <2>5. TypeLife' /\ TypeSwitch'
    BY <1>29, <1>t DEF TerminalStep, TypeLife, TypeSwitch
  <2> QED BY <2>1, <2>2, <2>3, <2>4, <2>5, <1>q
<1>30. CASE PassEnds
  <2>1. TypeEnd'
    <3>1. cleanup.passes \in 0 .. RetryLimit /\ cleanup.pending \in SUBSET Resources
      BY <1>t
      DEF TypeEnd
    <3>2. AnotherPass => cleanup.passes + 1 \in 0 .. RetryLimit BY <3>1 DEF AnotherPass
    <3>3. CASE /\ AnotherPass /\ UNCHANGED ending
               /\ cleanup' = [cleanup EXCEPT !.todo = cleanup.pending, !.passes = @ + 1,
                                             !.timedOut = FALSE]
      BY <3>1, <3>2, <3>3, <1>30, <1>t DEF PassEnds, TypeEnd
    <3>4. CASE UNCHANGED cleanup BY <3>4, <1>30, <1>t DEF PassEnds, TypeEnd
    <3> QED BY <3>3, <3>4, <1>30 DEF PassEnds
  <2>2. TypeLife' /\ TypeSwitch' /\ TypeMedia' /\ TypeNet' /\ TypeCloses'
    BY <1>30, <1>t DEF PassEnds, TypeLife, TypeSwitch, TypeMedia, TypeNet, TypeCloses
  <2> QED BY <2>1, <2>2, <1>q
<1>31. CASE Publish
  <2>1. TypeEnd' BY <1>31, <1>t DEF Publish, TypeEnd
  <2>2. TypeLife' /\ TypeSwitch' /\ TypeMedia' /\ TypeNet' /\ TypeCloses'
    BY <1>31, <1>t DEF Publish, TypeLife, TypeSwitch, TypeMedia, TypeNet, TypeCloses
  <2> QED BY <2>1, <2>2, <1>q
<1>32. CASE UNCHANGED vars
  BY <1>32, <1>t, <1>q DEF vars, TypeLife, TypeSwitch, TypeMedia, TypeNet, TypeCloses, TypeEnd
<1> QED BY <1>1, <1>2, <1>3, <1>4, <1>5, <1>6, <1>7, <1>8, <1>9, <1>10, <1>11, <1>12, <1>13,
           <1>14, <1>15, <1>16, <1>17, <1>18, <1>19, <1>20, <1>21, <1>22, <1>23, <1>24, <1>25,
           <1>26, <1>27, <1>28, <1>29, <1>30, <1>31, <1>32 DEF Next, Handle, Decision,
           Terminate, SwitchTask

-----------------------------------------------------------------------------
(* Every peer is accounted for.                                             *)

\* Nobody's place changes: what is in use, retired or to be cleaned up is the same.
Aside ==
    /\ phase' = phase \/ {phase, phase'} \subseteq {"stable", "reconnecting"}
    /\ phase' = "reconnecting" => lost' # None
    /\ candidate' = None <=> candidate = None
    /\ candidate # None => candidate'.peer = candidate.peer /\ candidate'.gen = candidate.gen
    /\ \A p \in Peers : /\ offer'[p] = "idle" => offer[p] = "idle"
                        /\ conn'[p] # "none" => conn[p] # "none"
    /\ cleanup'.pending = cleanup.pending
    /\ cleanup'.todo \subseteq cleanup.todo \cup cleanup.pending
    /\ UNCHANGED <<active, activeGen, lastGen, switch, outcome, closes, genOf>>

LEMMA AsideKeeps == ASSUME PeersInv, TypeOK', Aside PROVE PeersInv'
<1> USE DEF closes
<1>r. \A p : Retired(p)' <=> Retired(p) BY DEF Aside, Retired
<1>p. \A p : IsPending(p)' <=> IsPending(p) BY DEF Aside, IsPending
<1>1. PhaseFits' BY DEF PeersInv, PhaseFits, Aside
<1>2. OffersFresh' BY <1>r, <1>p DEF PeersInv, OffersFresh, Aside
<1>3. GenerationsCounted' BY DEF PeersInv, GenerationsCounted, Offered, Aside
<1>4. ActiveFits' BY <1>r DEF PeersInv, ActiveFits, Aside
<1>5. CandidateFits' BY <1>r DEF PeersInv, CandidateFits, Aside
<1>6. SwitchFits' BY <1>r DEF PeersInv, SwitchFits, Aside
<1>7. TriesFit' BY <1>r DEF PeersInv, TriesFit, Aside
<1>8. PeersNamed' BY DEF PeersInv, PeersNamed, Aside
<1>9. NoPeerIsForgotten' BY <1>p DEF PeersInv, NoPeerIsForgotten, Aside
<1> QED BY <1>1, <1>2, <1>3, <1>4, <1>5, <1>6, <1>7, <1>8, <1>9 DEF PeersInv

\* The candidate is refused: its cleanup takes it.
Rejects ==
    /\ candidate # None /\ candidate' = None /\ closing' = closing \cup {candidate.peer}
    /\ \A p \in Peers : /\ offer'[p] = "idle" => offer[p] = "idle"
                        /\ conn'[p] # "none" => conn[p] # "none"
    /\ UNCHANGED <<phase, lost, active, activeGen, lastGen, switch, outcome, tries, closed,
                   unclosed, genOf, cleanup>>

LEMMA RejectsKeep == ASSUME PeersInv, TypeOK', Rejects PROVE PeersInv'
<1>p. TypedParts BY Parts DEF PeersInv
<1>r. /\ candidate.peer \in Peers /\ ~Retired(candidate.peer) /\ candidate.peer # active
      /\ \A p : Retired(p)' <=> Retired(p) \/ p = candidate.peer
      /\ \A p : IsPending(p) <=> p = candidate.peer
      /\ \A p : ~IsPending(p)'
      /\ phase \notin {"switching", "terminal"} /\ switch = None
  BY <1>p DEF Rejects, Retired, PeersInv, CandidateFits, TypedParts, IsPending, PhaseFits
<1>1. PhaseFits' BY DEF PeersInv, PhaseFits, Rejects
<1>2. OffersFresh' BY <1>r DEF PeersInv, OffersFresh, Rejects
<1>3. GenerationsCounted' BY DEF PeersInv, GenerationsCounted, Offered, Rejects
<1>4. ActiveFits' BY <1>r DEF PeersInv, ActiveFits, Rejects
<1>5. CandidateFits' BY DEF CandidateFits, Rejects
<1>6. SwitchFits' BY <1>r DEF SwitchFits, Rejects
<1>7. TriesFit' BY <1>r, LimitsAssumption DEF PeersInv, TriesFit, Rejects
<1>8. PeersNamed' BY DEF PeersInv, PeersNamed, Rejects
<1>9. NoPeerIsForgotten' BY <1>r DEF PeersInv, NoPeerIsForgotten, Rejects
<1> QED BY <1>1, <1>2, <1>3, <1>4, <1>5, <1>6, <1>7, <1>8, <1>9 DEF PeersInv

\* An offer comes too late or during a switch: its peer is retired at once.
Declines(p) ==
    /\ phase \in {"switching", "terminal"} /\ offer[p] = "idle" /\ offer'[p] # "idle"
    /\ \A x \in Peers \ {p} : offer'[x] = offer[x] /\ (conn'[x] # "none" => conn[x] # "none")
    /\ \A x \in Peers \ {p} : /\ x \in closed' <=> x \in closed
                              /\ x \in closing' <=> x \in closing
                              /\ x \in unclosed' <=> x \in unclosed
    /\ conn'[p] # "none" => Retired(p)'
    /\ Retired(p) => Retired(p)'
    /\ phase = "terminal" => closing' = closing
    /\ UNCHANGED <<phase, lost, candidate, active, activeGen, lastGen, switch, outcome, tries,
                   genOf, cleanup>>

LEMMA DeclinesKeep ==
  ASSUME PeersInv, TypeOK', NEW p \in Peers, Declines(p) PROVE PeersInv'
<1>p. TypedParts BY Parts DEF PeersInv
<1>r. /\ \A x \in Peers \ {p} : Retired(x)' <=> Retired(x)
      /\ \A x : IsPending(x)' <=> IsPending(x)
      /\ candidate' = None
      /\ phase = "switching" => p # switch.peer /\ ~Retired(p) /\ p # active
  BY DEF Declines, Retired, PeersInv, OffersFresh, IsPending, PhaseFits
<1>1. PhaseFits' BY DEF PeersInv, PhaseFits, Declines
<1>2. OffersFresh' BY <1>r DEF PeersInv, OffersFresh, Declines
<1>3. GenerationsCounted' BY DEF PeersInv, GenerationsCounted, Offered, Declines
<1>4. ActiveFits' BY DEF PeersInv, ActiveFits, Declines
<1>5. CandidateFits' BY <1>r DEF CandidateFits
<1>6. SwitchFits'
  <2>1. CASE phase = "terminal" BY <2>1 DEF PeersInv, SwitchFits, Declines
  <2>2. CASE phase = "switching"
    <3>1. switch # None /\ switch.peer \in Peers \ {p} /\ switch.prev \in Peers \ {p}
      BY <2>2, <1>r, <1>p DEF PeersInv, PhaseFits, TypedParts, SwitchFits
    <3>2. /\ Retired(switch.peer)' => Retired(switch.peer)
          /\ switch.prev \in closed => switch.prev \in closed'
      <4>1. switch' = switch BY DEF Declines
      <4> QED BY <3>1, <4>1, <1>r DEF Declines, Retired
    <3> QED BY <2>2, <3>2 DEF PeersInv, SwitchFits, Declines
  <2> QED BY <2>1, <2>2 DEF Declines
<1>7. TriesFit'
  <2>1. \A x \in Peers \ {p} : (x \in closing' => x \in closing) /\ (Retired(x) => Retired(x)')
    BY <1>r DEF Declines
  <2>2. p \in closing' => tries[p] < RetryLimit
    BY <1>r, LimitsAssumption DEF PeersInv, TriesFit, Declines
  <2>3. ~Retired(p)' => tries[p] = 0 BY DEF PeersInv, TriesFit, Declines
  <2>4. \A x \in Peers \ {p} : /\ x \in closing' => tries[x] < RetryLimit
                               /\ ~Retired(x)' => tries[x] = 0
    BY <2>1 DEF PeersInv, TriesFit
  <2>5. tries' = tries BY DEF Declines
  <2> QED BY <2>2, <2>3, <2>4, <2>5 DEF TriesFit, Retired
<1>8. PeersNamed' BY DEF PeersInv, PeersNamed, Declines
<1>9. NoPeerIsForgotten' BY <1>r DEF PeersInv, NoPeerIsForgotten, Declines, Retired
<1> QED BY <1>1, <1>2, <1>3, <1>4, <1>5, <1>6, <1>7, <1>8, <1>9 DEF PeersInv

\* A cleanup of a peer makes an attempt.
LEMMA CloseKeeps ==
  ASSUME PeersInv, TypeOK', NEW p \in Peers, CloseOwned(p) PROVE PeersInv'
<1> USE DEF life, handlers, terminal, net
<1>y. TypeOK BY DEF PeersInv
<1>r. /\ \A x : Retired(x)' <=> Retired(x)
      /\ \A x : IsPending(x)' <=> IsPending(x)
      /\ closed \subseteq closed' /\ Retired(p)
      /\ \A x \in Peers : x # p /\ conn'[x] # "none" => conn[x] # "none"
  BY <1>y DEF CloseOwned, ClosePeers, Retired, IsPending, TypeOK
<1>1. PhaseFits' BY DEF PeersInv, PhaseFits, CloseOwned
<1>2. OffersFresh' BY <1>r DEF PeersInv, OffersFresh, CloseOwned
<1>3. GenerationsCounted' BY DEF PeersInv, GenerationsCounted, Offered, CloseOwned
<1>4. ActiveFits' BY <1>r DEF PeersInv, ActiveFits, CloseOwned
<1>5. CandidateFits' BY <1>r DEF PeersInv, CandidateFits, CloseOwned
<1>6. SwitchFits' BY <1>r DEF PeersInv, SwitchFits, CloseOwned
<1>7. TriesFit'
  <2>1. \A x \in Peers : x # p => tries'[x] = tries[x] /\ (x \in closing' <=> x \in closing)
    BY <1>y DEF CloseOwned, TypeOK
  <2>2. p \in closing' => tries'[p] < RetryLimit BY <1>y DEF CloseOwned, TypeOK
  <2> QED BY <2>1, <2>2, <1>r DEF PeersInv, TriesFit
<1>8. PeersNamed' BY DEF PeersInv, PeersNamed, CloseOwned
<1>9. NoPeerIsForgotten'
  <2> SUFFICES ASSUME NEW x \in Peers, conn'[x] # "none", ~Retired(x)
               PROVE  \/ phase # "terminal" /\ (x = active \/ IsPending(x))
                      \/ phase = "switching" /\ x = switch.peer
                      \/ Resource("peer", x) \in cleanup.pending
    BY <1>r DEF NoPeerIsForgotten, Retired, CloseOwned
  <2>1. conn[x] # "none" BY <1>r
  <2> QED BY <2>1 DEF PeersInv, NoPeerIsForgotten, Retired
<1> QED BY <1>1, <1>2, <1>3, <1>4, <1>5, <1>6, <1>7, <1>8, <1>9 DEF PeersInv

\* A new candidate: its generation is the next one, and there are not more than peers.
LEMMA OfferCounts ==
  ASSUME PeersInv, NEW p \in Peers, Offer(p)
  PROVE  lastGen + 1 \in Generations /\ GenerationsCounted'
<1>y. TypeOK /\ OffersFresh /\ GenerationsCounted BY DEF PeersInv
<1>1. IsFiniteSet(Peers) /\ Cardinality(Peers) \in Nat
  BY PeersAssumption, FS_CardinalityType
<1>2. Offered \subseteq Peers /\ IsFiniteSet(Offered) /\ Cardinality(Offered) \in Nat
  BY <1>1, FS_Subset, FS_CardinalityType DEF Offered
<1>3. genOf \in [Peers -> Generations] /\ lastGen \in Nat
  BY <1>1, <1>y DEF TypeOK, Generations
<1>4. p \notin Offered BY <1>y DEF Offer, OffersFresh, Offered
<1>5. Offered' = Offered \cup {p} BY <1>y, <1>2, <1>3 DEF Offer, Offered
<1>6. Cardinality(Offered \cup {p}) = Cardinality(Offered) + 1 BY <1>2, <1>4, FS_AddElement
<1>7. Cardinality(Offered \cup {p}) <= Cardinality(Peers) BY <1>1, <1>2, FS_Subset
<1>8. lastGen' = lastGen + 1 /\ lastGen = Cardinality(Offered)
  BY <1>y DEF Offer, GenerationsCounted
<1>9. GenerationsCounted' BY <1>5, <1>6, <1>8 DEF GenerationsCounted
<1>10. lastGen + 1 \in Generations BY <1>1, <1>2, <1>6, <1>7, <1>8 DEF Generations
<1> QED BY <1>9, <1>10

LEMMA OfferKeeps == ASSUME PeersInv, TypeOK', NEW p \in Peers, Offer(p) PROVE PeersInv'
<1> USE DEF media
<1>y. TypeOK /\ OffersFresh BY DEF PeersInv
<1>p. TypedParts BY Parts DEF PeersInv
<1>n. lastGen \in Nat /\ activeGen \in Nat
  BY <1>y, PeersAssumption, FS_CardinalityType DEF TypeOK, Generations
<1>1. /\ phase \in {"stable", "reconnecting"} /\ offer[p] = "idle"
      /\ offer'[p] = "negotiating" /\ conn'[p] = "new" /\ lastGen' = lastGen + 1
      /\ genOf'[p] = lastGen + 1
      /\ \A x \in Peers : x # p => offer'[x] = offer[x] /\ conn'[x] = conn[x] /\ genOf'[x] = genOf[x]
      /\ UNCHANGED <<phase, active, activeGen, switch, lost, tries, closed, unclosed, outcome, cleanup>>
  BY <1>y DEF Offer, TypeOK, terminal
<1>2. candidate' # None /\ candidate'.peer = p /\ candidate'.gen = lastGen + 1
  <2>1. PICK config \in Config[p] :
           candidate' = [peer |-> p, gen |-> lastGen + 1, epoch |-> epoch, config |-> config]
    BY DEF Offer
  <2>2. candidate' \in Candidates
    <3>1. config \in Selections BY <2>1, PeersAssumption
    <3> QED BY <2>1, <3>1, <1>y, OfferCounts DEF TypeOK, Candidates
  <2>3. candidate' # None BY <2>2, NoneAssumption
  <2> QED BY <2>1, <2>3
<1>3. /\ \A x : IsPending(x)' <=> x = p
      /\ \A x : Retired(x)' <=> Retired(x) \/ IsPending(x)
      /\ closing' = closing \cup (IF candidate = None THEN {} ELSE {candidate.peer})
  BY <1>1, <1>2 DEF IsPending, Retired, Offer, StartOwnedCleanup
<1>4. p # active /\ ~IsPending(p) /\ ~Retired(p) BY <1>1, <1>y DEF OffersFresh
<1>5. \A x : IsPending(x) => x # active /\ ~Retired(x)
  BY DEF PeersInv, CandidateFits, IsPending
<1>6. switch = None BY <1>1 DEF PeersInv, PhaseFits
<1>11. PhaseFits' BY <1>1, <1>6 DEF PeersInv, PhaseFits
<1>12. OffersFresh' BY <1>1, <1>3, <1>6 DEF PeersInv, OffersFresh
<1>13. GenerationsCounted' BY OfferCounts
<1>14. ActiveFits' BY <1>1, <1>3, <1>5, <1>n DEF PeersInv, ActiveFits
<1>15. CandidateFits' BY <1>1, <1>2, <1>3, <1>4, <1>n DEF PeersInv, CandidateFits, ActiveFits
<1>16. SwitchFits' BY <1>1, <1>6 DEF SwitchFits
<1>17. TriesFit'
  BY <1>1, <1>3, <1>5, LimitsAssumption DEF PeersInv, TriesFit, IsPending
<1>18. PeersNamed' BY <1>1 DEF PeersInv, PeersNamed
<1>19. NoPeerIsForgotten'
  <2> SUFFICES ASSUME NEW x \in Peers, conn'[x] # "none", ~Retired(x)', x # p
               PROVE  x = active \/ Resource("peer", x) \in cleanup.pending
    BY <1>1, <1>3 DEF NoPeerIsForgotten, Retired
  <2> QED BY <1>1, <1>3 DEF PeersInv, NoPeerIsForgotten, Retired
<1> QED BY <1>11, <1>12, <1>13, <1>14, <1>15, <1>16, <1>17, <1>18, <1>19 DEF PeersInv

\* The candidate takes over, with the selection of the call.
LEMMA PromoteKeeps ==
  ASSUME PeersInv, TypeOK', NEW g \in Generations, Promote(g) PROVE PeersInv'
<1> USE DEF terminal, closes
<1>y. TypeOK BY DEF PeersInv
<1>p. TypedParts BY Parts DEF PeersInv
<1>1. /\ candidate # None /\ candidate.gen = g /\ phase # "terminal"
      /\ active' = candidate.peer /\ activeGen' = g /\ candidate' = None
      /\ phase' = "stable"
      /\ UNCHANGED <<lastGen, switch, offer, genOf, closing, tries, outcome, cleanup>>
      /\ \/ closed' = closed \cup {active} /\ unclosed' = unclosed
         \/ closed' = closed /\ unclosed' = unclosed \cup {active}
      /\ \A x \in Peers : x # active /\ conn'[x] # "none" => conn[x] # "none"
  BY <1>y DEF Promote, Acceptable, ClosePeers, net
<1>2. /\ g = lastGen /\ candidate.peer # active /\ ~Retired(candidate.peer)
      /\ candidate.peer \in Peers /\ switch = None /\ phase # "switching"
  BY <1>1, <1>p DEF PeersInv, CandidateFits, TypedParts, PhaseFits
<1>3. /\ \A x : Retired(x)' <=> Retired(x) \/ x = active
      /\ \A x : ~IsPending(x)'
      /\ \A x : IsPending(x) <=> x = candidate.peer
  BY <1>1 DEF Retired, IsPending
<1>4. active \in Peers /\ ~Retired(active) /\ outcome = None /\ lastGen \in Nat
  BY <1>1, <1>2, <1>y, PeersAssumption, FS_CardinalityType
  DEF TypeOK, PeersInv, ActiveFits, PhaseFits, Phases, Generations
<1>11. PhaseFits' BY <1>1, <1>2, <1>4 DEF PeersInv, PhaseFits
<1>12. OffersFresh' BY <1>1, <1>2, <1>3 DEF PeersInv, OffersFresh
<1>13. GenerationsCounted' BY <1>1 DEF PeersInv, GenerationsCounted, Offered
<1>14. ActiveFits' BY <1>1, <1>2, <1>3, <1>4 DEF ActiveFits
<1>15. CandidateFits' BY <1>1 DEF CandidateFits
<1>16. SwitchFits' BY <1>1, <1>2 DEF SwitchFits
<1>17. TriesFit' BY <1>1, <1>3 DEF PeersInv, TriesFit
<1>18. PeersNamed' BY <1>1, <1>2 DEF PeersInv, PeersNamed
<1>19. NoPeerIsForgotten'
  <2> SUFFICES ASSUME NEW x \in Peers, conn'[x] # "none", ~Retired(x)'
               PROVE  x = candidate.peer \/ Resource("peer", x) \in cleanup.pending
    BY <1>1 DEF NoPeerIsForgotten, Retired
  <2> QED BY <1>1, <1>2, <1>3 DEF PeersInv, NoPeerIsForgotten, Retired
<1> QED BY <1>11, <1>12, <1>13, <1>14, <1>15, <1>16, <1>17, <1>18, <1>19 DEF PeersInv

\* The candidate becomes the new peer of a switch.
LEMMA BeginSwitchKeeps ==
  ASSUME PeersInv, TypeOK', NEW g \in Generations, BeginSwitch(g) PROVE PeersInv'
<1> USE DEF media, net, handlers, terminal, closes
<1>y. TypeOK BY DEF PeersInv
<1>p. TypedParts BY Parts DEF PeersInv
<1>1. /\ candidate # None /\ candidate.gen = g /\ phase # "terminal"
      /\ candidate' = None /\ phase' = "switching"
      /\ UNCHANGED <<active, activeGen, lastGen, lost, conn, offer, genOf, closed, closing,
                     unclosed, tries, outcome, cleanup>>
  BY DEF BeginSwitch, Acceptable
<1>2. /\ g = lastGen /\ candidate.peer # active /\ ~Retired(candidate.peer) /\ activeGen < lastGen
      /\ candidate.peer \in Peers /\ switch = None /\ phase # "switching"
  BY <1>1, <1>p DEF PeersInv, CandidateFits, TypedParts, PhaseFits
<1>s. switch' # None /\ switch'.peer = candidate.peer /\ switch'.prev = active
      /\ switch'.gen = g /\ switch'.step = "old_track" /\ switch'.errors = {}
  <2> DEFINE cancels == speech # None
             gives == lease /\ selection = "qwen"
  <2>1. switch' = [peer |-> candidate.peer, prev |-> active, gen |-> g, cancel |-> cancels,
                   lease |-> gives, config |-> candidate.config,
                   step |-> "old_track", errors |-> {}]
    BY DEF BeginSwitch
  <2> HIDE DEF cancels, gives
  <2>2. switch' \in Switches
    <3>1. cancels \in BOOLEAN /\ gives \in BOOLEAN BY <1>y DEF cancels, gives, TypeOK
    <3>2. candidate.config \in Selections /\ active \in Peers
      BY <1>1, <1>p, <1>y
      DEF TypedParts, TypeOK
    <3> QED BY <2>1, <1>2, <3>1, <3>2 DEF Switches, SwitchSteps
  <2>3. switch' # None BY <2>2, NoneAssumption
  <2> QED BY <2>1, <2>3
<1>3. /\ \A x : Retired(x)' <=> Retired(x)
      /\ \A x : ~IsPending(x)'
      /\ \A x : IsPending(x) <=> x = candidate.peer
  BY <1>1 DEF Retired, IsPending
<1>11. PhaseFits' BY <1>1, <1>2, <1>s DEF PeersInv, PhaseFits
<1>12. OffersFresh' BY <1>1, <1>2, <1>3, <1>s DEF PeersInv, OffersFresh
<1>13. GenerationsCounted' BY <1>1 DEF PeersInv, GenerationsCounted, Offered
<1>14. ActiveFits' BY <1>1, <1>2, <1>3 DEF PeersInv, ActiveFits
<1>15. CandidateFits' BY <1>1 DEF CandidateFits
<1>16. SwitchFits' BY <1>1, <1>2, <1>3, <1>s DEF SwitchFits
<1>17. TriesFit' BY <1>1, <1>3 DEF PeersInv, TriesFit
<1>18. PeersNamed' BY <1>1, <1>2, <1>s DEF PeersInv, PeersNamed
<1>19. NoPeerIsForgotten'
  <2> SUFFICES ASSUME NEW x \in Peers, conn[x] # "none", ~Retired(x)
               PROVE  x = active \/ x = candidate.peer \/ Resource("peer", x) \in cleanup.pending
    BY <1>1, <1>s DEF NoPeerIsForgotten, Retired
  <2> QED BY <1>1, <1>2, <1>3 DEF PeersInv, NoPeerIsForgotten, Retired
<1> QED BY <1>11, <1>12, <1>13, <1>14, <1>15, <1>16, <1>17, <1>18, <1>19 DEF PeersInv

\* What a step of the switch's cleanup works on, and what it makes of the switch.
SwitchWork ==
    CASE switch.step = "old_track" -> Resource("track", switch.prev)
      [] switch.step = "new_track" -> Resource("track", switch.peer)
      [] switch.step = "old_peer" -> Resource("peer", switch.prev)
      [] switch.step = "cancel" -> Resource("cancel", None)

LEMMA SwitchMoves ==
  ASSUME PeersInv, SwitchStep
  PROVE  /\ switch # None /\ switch' # None /\ switch.step # "finish"
         /\ phase \in {"switching", "terminal"} /\ phase' = phase
         /\ UNCHANGED <<switch.peer, switch.prev, switch.gen, switch.cancel, switch.lease>>
         /\ switch.step \in SwitchSteps /\ switch'.step = NextStep[switch.step]
         /\ \/ /\ switch'.errors = switch.errors
               /\ ClosePeers(IF switch.step = "old_peer" THEN {switch.prev} ELSE {})
               /\ speech' = IF switch.step = "cancel" /\ switch.cancel THEN None ELSE speech
            \/ /\ switch'.errors = switch.errors \cup {SwitchWork}
               /\ UNCHANGED <<conn, notified, closed, speech>>
<1>y. TypeOK BY DEF PeersInv
<1>p. TypedParts BY Parts DEF PeersInv
<1>1. switch # None /\ switch.step # "finish" /\ phase' = phase BY DEF SwitchStep
<1>2. /\ phase \in {"switching", "terminal"} /\ switch \in Switches
      /\ switch.errors \subseteq Resources /\ switch.step \in SwitchSteps
      /\ switch.prev \in Peers /\ switch.peer \in Peers
  BY <1>1, <1>p, <1>y DEF PeersInv, PhaseFits, TypedParts, TypeOK
<1> DEFINE n == NextStep[switch.step]
           es == switch.errors \cup {SwitchWork}
<1>3. n \in SwitchSteps BY <1>1, <1>2 DEF NextStep, SwitchSteps
<1>4. SwitchWork \in Resources BY <1>1, <1>2, ResourceTyped DEF SwitchSteps, SwitchWork
<1>5. es \in SUBSET Resources BY <1>2, <1>4
<1>6. \/ /\ switch' = [switch EXCEPT !.step = n]
         /\ ClosePeers(IF switch.step = "old_peer" THEN {switch.prev} ELSE {})
         /\ speech' = IF switch.step = "cancel" /\ switch.cancel THEN None ELSE speech
      \/ /\ switch' = [switch EXCEPT !.step = n, !.errors = es]
         /\ UNCHANGED <<conn, notified, closed, speech>>
  BY DEF SwitchStep, SwitchWork, net
<1> HIDE DEF n, es
<1>7. switch' \in Switches BY <1>2, <1>3, <1>5, <1>6 DEF Switches
<1>8. switch' # None BY <1>7, NoneAssumption
<1>9. /\ UNCHANGED <<switch.peer, switch.prev, switch.gen, switch.cancel, switch.lease>>
      /\ switch'.step = n
      /\ \/ /\ switch'.errors = switch.errors
            /\ ClosePeers(IF switch.step = "old_peer" THEN {switch.prev} ELSE {})
            /\ speech' = IF switch.step = "cancel" /\ switch.cancel THEN None ELSE speech
         \/ /\ switch'.errors = es
            /\ UNCHANGED <<conn, notified, closed, speech>>
  BY <1>2, <1>6 DEF Switches
<1> QED BY <1>1, <1>2, <1>8, <1>9 DEF n, es

\* A step of the switch's cleanup: what it retires is the old peer.
LEMMA SwitchStepKeeps == ASSUME PeersInv, TypeOK', SwitchStep PROVE PeersInv'
<1> USE DEF media, net, handlers, terminal, closes
<1>y. TypeOK BY DEF PeersInv
<1>p. TypedParts BY Parts DEF PeersInv
<1>1. /\ switch # None /\ switch.step # "finish"
      /\ UNCHANGED <<phase, lost, active, activeGen, candidate, lastGen, offer, genOf, closing,
                     unclosed, tries, outcome, cleanup>>
  BY DEF SwitchStep
<1>2. /\ phase \in {"switching", "terminal"} /\ candidate = None
      /\ switch.prev \in Peers /\ switch.peer \in Peers /\ switch.errors \subseteq Resources
      /\ switch.step \in SwitchSteps
  BY <1>1, <1>p DEF PeersInv, PhaseFits, TypedParts
<1>3. /\ switch' # None /\ switch'.peer = switch.peer /\ switch'.prev = switch.prev
      /\ switch'.gen = switch.gen /\ switch'.step = NextStep[switch.step]
      /\ \/ /\ switch'.errors = switch.errors
            /\ ClosePeers(IF switch.step = "old_peer" THEN {switch.prev} ELSE {})
         \/ /\ switch'.errors = switch.errors \cup {SwitchWork}
            /\ UNCHANGED <<conn, closed>>
  BY SwitchMoves
<1>4. \/ closed' = closed \/ closed' = closed \cup {switch.prev}
  BY <1>3 DEF ClosePeers
<1>5. \A x \in Peers : /\ conn'[x] # "none" => conn[x] # "none" \/ x \in closed'
  BY <1>3 DEF ClosePeers
<1>6. switch.step = "old_peer" =>
         switch.prev \in closed' \/ Resource("peer", switch.prev) \in switch'.errors
  BY <1>3 DEF ClosePeers, SwitchWork
<1>7. /\ \A x : IsPending(x)' <=> IsPending(x)
      /\ \A x : Retired(x) => Retired(x)'
      /\ \A x : x # switch.prev => (Retired(x)' <=> Retired(x))
  BY <1>1, <1>4 DEF Retired, IsPending
<1>8. phase = "switching" => active = switch.prev /\ switch.peer # active
  BY DEF PeersInv, SwitchFits
<1>11. PhaseFits' BY <1>1, <1>2, <1>3 DEF PeersInv, PhaseFits
<1>12. OffersFresh' BY <1>1, <1>2, <1>3, <1>7, <1>8 DEF PeersInv, OffersFresh
<1>13. GenerationsCounted' BY <1>1 DEF PeersInv, GenerationsCounted, Offered
<1>14. ActiveFits' BY <1>1, <1>2 DEF PeersInv, ActiveFits
<1>15. CandidateFits' BY <1>1, <1>2 DEF CandidateFits
<1>16. SwitchFits'
  <2>1. switch'.gen = lastGen' /\ activeGen' < lastGen' BY <1>1, <1>3 DEF PeersInv, SwitchFits
  <2>2. phase = "switching" => switch.peer \notin closed' \cup closing' \cup unclosed'
    BY <1>1, <1>4, <1>8 DEF PeersInv, SwitchFits, Retired
  <2>3. switch'.step \in {"cancel", "finish"} => switch.step \in {"old_peer", "cancel"}
    BY <1>1, <1>2, <1>3 DEF NextStep, SwitchSteps
  <2>4. /\ switch.prev \in closed => switch.prev \in closed'
        /\ switch.errors \subseteq switch'.errors
    BY <1>3, <1>4
  <2>5. phase = "switching" /\ switch'.step \in {"cancel", "finish"} =>
           switch.prev \in closed' \/ Resource("peer", switch.prev) \in switch'.errors
    BY <1>6, <2>3, <2>4 DEF PeersInv, SwitchFits
  <2>7. phase = "switching" =>
          /\ active' = switch'.prev /\ switch'.peer # active'
          /\ switch'.peer \notin closed' \cup closing' \cup unclosed'
    BY <1>1, <1>3, <1>8, <2>2
  <2> QED BY <1>1, <1>3, <2>1, <2>5, <2>7 DEF SwitchFits, Retired
<1>17. TriesFit' BY <1>1, <1>7 DEF PeersInv, TriesFit
<1>18. PeersNamed'
  <2>1. \A x \in switch'.errors : x \in switch.errors \/ x.of = switch.prev \/ x.kind # "peer"
    BY <1>1, <1>2, <1>3 DEF Resource, SwitchSteps, SwitchWork
  <2> QED BY <1>1, <1>2, <2>1 DEF PeersInv, PeersNamed
<1>19. NoPeerIsForgotten'
  <2> SUFFICES ASSUME NEW x \in Peers, conn'[x] # "none", ~Retired(x)'
               PROVE  \/ phase # "terminal" /\ (x = active \/ IsPending(x))
                      \/ phase = "switching" /\ x = switch.peer
                      \/ Resource("peer", x) \in cleanup.pending
    BY <1>1, <1>3, <1>7 DEF NoPeerIsForgotten, Retired
  <2>1. conn[x] # "none" /\ ~Retired(x) BY <1>5, <1>7 DEF Retired
  <2> QED BY <2>1 DEF PeersInv, NoPeerIsForgotten, Retired
<1> QED BY <1>11, <1>12, <1>13, <1>14, <1>15, <1>16, <1>17, <1>18, <1>19 DEF PeersInv

\* A switch that went well publishes its new peer.
LEMMA CommitSwitchKeeps == ASSUME PeersInv, TypeOK', CommitSwitch PROVE PeersInv'
<1> USE DEF net, terminal, closes
<1>y. TypeOK BY DEF PeersInv
<1>p. TypedParts BY Parts DEF PeersInv
<1>1. /\ phase = "switching" /\ switch.step = "finish" /\ switch.errors = {}
      /\ active' = switch.peer /\ activeGen' = switch.gen /\ phase' = "stable" /\ switch' = None
      /\ UNCHANGED <<candidate, lastGen, conn, offer, genOf, closed, closing, unclosed,
                     tries, outcome, cleanup>>
  BY DEF CommitSwitch
<1>2. /\ switch # None /\ switch.peer \in Peers /\ candidate = None /\ outcome = None
      /\ switch.gen = lastGen /\ ~Retired(switch.peer) /\ active = switch.prev
      /\ switch.prev \in closed /\ lastGen \in Nat
  BY <1>1, <1>p, <1>y, PeersAssumption, FS_CardinalityType
  DEF PeersInv, PhaseFits, TypedParts, SwitchFits, TypeOK, Generations
<1>3. /\ \A x : Retired(x)' <=> Retired(x)
      /\ \A x : IsPending(x)' <=> IsPending(x)
  BY <1>1 DEF Retired, IsPending
<1>11. PhaseFits' BY <1>1, <1>2 DEF PeersInv, PhaseFits
<1>12. OffersFresh' BY <1>1, <1>2, <1>3 DEF PeersInv, OffersFresh
<1>13. GenerationsCounted' BY <1>1 DEF PeersInv, GenerationsCounted, Offered
<1>14. ActiveFits' BY <1>1, <1>2, <1>3 DEF ActiveFits
<1>15. CandidateFits' BY <1>1, <1>2 DEF CandidateFits
<1>16. SwitchFits' BY <1>1 DEF SwitchFits
<1>17. TriesFit' BY <1>1, <1>3 DEF PeersInv, TriesFit
<1>18. PeersNamed' BY <1>1 DEF PeersInv, PeersNamed
<1>19. NoPeerIsForgotten'
  <2> SUFFICES ASSUME NEW x \in Peers, conn[x] # "none", ~Retired(x)
               PROVE  x = switch.peer \/ Resource("peer", x) \in cleanup.pending
    BY <1>1, <1>3 DEF NoPeerIsForgotten, Retired
  <2> QED BY <1>1, <1>2 DEF PeersInv, NoPeerIsForgotten, Retired, IsPending
<1> QED BY <1>11, <1>12, <1>13, <1>14, <1>15, <1>16, <1>17, <1>18, <1>19 DEF PeersInv

\* The call ends: the cleanup owns every peer that was in use.
Ends ==
    /\ phase # "terminal" /\ phase' = "terminal" /\ candidate' = None /\ outcome' # None
    /\ cleanup'.todo = cleanup'.pending
    /\ \A x \in cleanup'.pending : x.kind = "peer" => x.of \in Peers
    /\ \A p \in Peers : p = active \/ IsPending(p) \/ (switch # None /\ p = switch.peer)
                           => Resource("peer", p) \in cleanup'.pending
    /\ switch' \in {switch, None}
    /\ UNCHANGED <<activeGen, lastGen, conn, offer, genOf, closes>>

LEMMA EndsKeep == ASSUME PeersInv, TypeOK', Ends PROVE PeersInv'
<1> USE DEF closes
<1>r. \A p : Retired(p)' <=> Retired(p) BY DEF Ends, Retired
<1>1. PhaseFits' BY DEF PeersInv, PhaseFits, Ends
<1>2. OffersFresh' BY DEF OffersFresh, Ends
<1>3. GenerationsCounted' BY DEF PeersInv, GenerationsCounted, Offered, Ends
<1>4. ActiveFits' BY DEF PeersInv, ActiveFits, Ends
<1>5. CandidateFits' BY DEF CandidateFits, Ends
<1>6. SwitchFits' BY DEF PeersInv, SwitchFits, Ends
<1>7. TriesFit' BY <1>r DEF PeersInv, TriesFit, Ends
<1>8. PeersNamed' BY DEF PeersInv, PeersNamed, Ends
<1>9. NoPeerIsForgotten'
  <2> SUFFICES ASSUME NEW p \in Peers, conn[p] # "none", ~Retired(p)
               PROVE  Resource("peer", p) \in cleanup'.pending
    BY <1>r DEF NoPeerIsForgotten, Retired, Ends
  <2>1. cleanup.pending = {} BY DEF PeersInv, PhaseFits, Ends
  <2>2. p = active \/ IsPending(p) \/ (phase = "switching" /\ p = switch.peer)
    BY <2>1 DEF PeersInv, NoPeerIsForgotten, Retired
  <2> QED BY <2>2 DEF Ends, PeersInv, PhaseFits
<1> QED BY <1>1, <1>2, <1>3, <1>4, <1>5, <1>6, <1>7, <1>8, <1>9 DEF PeersInv

\* The work of the terminal transaction names peers, and all of those in use.
LEMMA WorkNames ==
  ASSUME TypeOK, NEW act \in Peers, NEW extra \in SUBSET Resources,
         \A x \in extra : x.kind = "peer" => x.of \in Peers
  PROVE  /\ \A x \in TerminalWork(act, extra) : x.kind = "peer" => x.of \in Peers
         /\ \A p \in Peers : p = act \/ IsPending(p) \/ (switch # None /\ p \in {switch.peer, switch.prev})
                               => Resource("peer", p) \in TerminalWork(act, extra)
<1>p. TypedParts BY Parts
<1> DEFINE involved == IF switch = None THEN {} ELSE {switch.peer, switch.prev}
           pending == IF candidate = None THEN {} ELSE {candidate.peer}
           cancels == {Resource("cancel", None) : x \in IF speech = None THEN {} ELSE {speech}}
           leases == IF lease THEN {Resource("lease", None)} ELSE {}
<1>1. TerminalWork(act, extra)
        = cancels \cup {Resource("peer", p) : p \in {act} \cup involved \cup pending}
          \cup {Resource("track", p) : p \in involved \cup pending} \cup extra \cup leases
  BY DEF TerminalWork
<1>2. involved \subseteq Peers /\ pending \subseteq Peers BY <1>p DEF TypedParts
<1>3. \A p \in Peers : p = act \/ IsPending(p) \/ (switch # None /\ p \in {switch.peer, switch.prev})
                         => p \in {act} \cup involved \cup pending
  BY DEF IsPending
<1>4. /\ \A x \in cancels : x.kind = "cancel"
      /\ \A x \in leases : x.kind = "lease"
  BY DEF Resource
<1> HIDE DEF involved, pending, cancels, leases
<1>5. ASSUME NEW x \in TerminalWork(act, extra), x.kind = "peer" PROVE x.of \in Peers
  <2>1. CASE x \in {Resource("peer", p) : p \in {act} \cup involved \cup pending}
    BY <2>1, <1>2 DEF Resource
  <2>2. CASE x \in {Resource("track", p) : p \in involved \cup pending}
    BY <2>2, <1>5 DEF Resource
  <2> QED BY <1>1, <1>4, <1>5, <2>1, <2>2
<1>6. \A p \in {act} \cup involved \cup pending : Resource("peer", p) \in TerminalWork(act, extra)
  BY <1>1
<1> QED BY <1>3, <1>5, <1>6

\* What a transition to the end does.
LEMMA TransitionEnds ==
  ASSUME PeersInv, phase # "terminal", NEW target \in {"ended", "failed"},
         NEW act \in Peers, NEW extra \in SUBSET Resources,
         \A x \in extra : x.kind = "peer" => x.of \in Peers,
         act = active \/ (switch # None /\ act = switch.peer /\ active = switch.prev),
         TransitionTerminal(target, act, extra), switch' \in {switch, None},
         UNCHANGED <<activeGen, lastGen, conn, offer, genOf, closes>>
  PROVE  Ends
<1>y. TypeOK BY DEF PeersInv
<1> DEFINE work == TerminalWork(act, extra)
<1>1. /\ phase' = "terminal" /\ candidate' = None /\ outcome' = target
      /\ cleanup' = [pending |-> work, todo |-> work, passes |-> 1, timedOut |-> FALSE]
  BY DEF TransitionTerminal
<1>2. /\ \A x \in work : x.kind = "peer" => x.of \in Peers
      /\ \A p \in Peers : p = act \/ IsPending(p) \/ (switch # None /\ p \in {switch.peer, switch.prev})
                            => Resource("peer", p) \in work
  BY <1>y, WorkNames
<1> HIDE DEF work
<1>3. cleanup'.pending = work /\ cleanup'.todo = work BY <1>1
<1>4. outcome' # None BY <1>1, NoneAssumption
<1>5. \A p \in Peers : p = active \/ IsPending(p) \/ (switch # None /\ p = switch.peer)
                          => Resource("peer", p) \in work
  BY <1>2
<1> QED BY <1>1, <1>2, <1>3, <1>4, <1>5 DEF Ends

\* A switch whose call ended leaves it to the cleanup.
LEMMA SwitchLostKeeps == ASSUME PeersInv, TypeOK', SwitchLost PROVE PeersInv'
<1> USE DEF net, closes, terminal
<1>1. /\ phase = "terminal" /\ switch' = None
      /\ UNCHANGED <<phase, lost, active, activeGen, candidate, lastGen, conn, offer, genOf,
                     closed, closing, unclosed, tries, outcome, cleanup>>
  BY DEF SwitchLost
<1>2. \A p : Retired(p)' <=> Retired(p) BY <1>1 DEF Retired
<1>11. PhaseFits' BY <1>1 DEF PeersInv, PhaseFits
<1>12. OffersFresh' BY <1>1 DEF OffersFresh
<1>13. GenerationsCounted' BY <1>1 DEF PeersInv, GenerationsCounted, Offered
<1>14. ActiveFits' BY <1>1 DEF PeersInv, ActiveFits
<1>15. CandidateFits' BY <1>1 DEF PeersInv, CandidateFits, PhaseFits
<1>16. SwitchFits' BY <1>1 DEF SwitchFits
<1>17. TriesFit' BY <1>1, <1>2 DEF PeersInv, TriesFit
<1>18. PeersNamed' BY <1>1 DEF PeersInv, PeersNamed
<1>19. NoPeerIsForgotten' BY <1>1 DEF PeersInv, NoPeerIsForgotten
<1> QED BY <1>11, <1>12, <1>13, <1>14, <1>15, <1>16, <1>17, <1>18, <1>19 DEF PeersInv

\* A step of the cleanup: a peer it is done with is closed.
LEMMA TerminalStepKeeps == ASSUME PeersInv, TypeOK', TerminalStep PROVE PeersInv'
<1> USE DEF life, net, handlers, closes
<1>y. TypeOK BY DEF PeersInv
<1>p. TypedParts BY Parts DEF PeersInv
<1> DEFINE x == CHOOSE x \in cleanup.todo : \A y \in cleanup.todo : Rank(x) <= Rank(y)
<1>1. /\ cleanup.todo # {}
      /\ UNCHANGED <<phase, lost, active, activeGen, candidate, lastGen, switch, offer, genOf,
                     closing, unclosed, tries, outcome>>
  BY DEF TerminalStep
<1>2. x \in cleanup.todo /\ x \in Resources
  BY <1>1, <1>p, FirstExists DEF TypedParts
<1>3. \/ /\ cleanup' = [cleanup EXCEPT !.todo = @ \ {x}, !.pending = @ \ {x}]
         /\ ClosePeers(IF x.kind = "peer" THEN {x.of} ELSE {})
      \/ /\ \E timeout \in BOOLEAN : cleanup' = [cleanup EXCEPT !.todo = @ \ {x},
                                                               !.timedOut = @ \/ timeout]
         /\ conn' = conn /\ closed' = closed
  BY DEF TerminalStep
<1> HIDE DEF x
<1>4. phase = "terminal" BY <1>1 DEF PeersInv, PhaseFits
<1>5. /\ cleanup'.todo = cleanup.todo \ {x}
      /\ \/ cleanup'.pending = cleanup.pending
         \/ cleanup'.pending = cleanup.pending \ {x} /\ (x.kind = "peer" => x.of \in closed')
  BY <1>3, <1>y DEF TypeOK, ClosePeers
<1>6. /\ \A p : Retired(p) => Retired(p)'
      /\ \A p \in Peers : conn'[p] # "none" => conn[p] # "none" \/ p \in closed'
  BY <1>1, <1>3 DEF Retired, ClosePeers
<1>11. PhaseFits' BY <1>1, <1>4 DEF PeersInv, PhaseFits
<1>12. OffersFresh' BY <1>1, <1>4 DEF OffersFresh
<1>13. GenerationsCounted' BY <1>1 DEF PeersInv, GenerationsCounted, Offered
<1>14. ActiveFits' BY <1>1, <1>4 DEF PeersInv, ActiveFits
<1>15. CandidateFits' BY <1>1, <1>4 DEF PeersInv, CandidateFits, PhaseFits
<1>16. SwitchFits' BY <1>1, <1>4 DEF PeersInv, SwitchFits
<1>17. TriesFit' BY <1>1, <1>6 DEF PeersInv, TriesFit
<1>18. PeersNamed' BY <1>1, <1>5 DEF PeersInv, PeersNamed
<1>19. NoPeerIsForgotten'
  <2> SUFFICES ASSUME NEW p \in Peers, conn'[p] # "none", ~Retired(p)'
               PROVE  Resource("peer", p) \in cleanup'.pending
    BY DEF NoPeerIsForgotten, Retired
  <2>1. conn[p] # "none" /\ ~Retired(p) /\ p \notin closed' BY <1>6 DEF Retired
  <2>2. Resource("peer", p) \in cleanup.pending
    BY <2>1, <1>4 DEF PeersInv, NoPeerIsForgotten, Retired
  <2>3. Resource("peer", p) = x => x.kind = "peer" /\ x.of = p BY DEF Resource
  <2> QED BY <2>1, <2>2, <2>3, <1>5
<1> QED BY <1>11, <1>12, <1>13, <1>14, <1>15, <1>16, <1>17, <1>18, <1>19 DEF PeersInv

\* Every step is of one of those sorts.
LEMMA PeersKept == ASSUME PeersInv, [Next]_vars PROVE PeersInv'
<1> USE DEF life, media, net, handlers, closes, terminal
<1>y. TypeOK BY DEF PeersInv
<1>p. TypedParts BY Parts DEF PeersInv
<1>g. lastGen' \in Generations
  <2>1. lastGen \in Generations BY <1>y DEF TypeOK
  <2>2. ASSUME NEW p \in Peers, Offer(p) PROVE lastGen' \in Generations
    BY <2>2, OfferCounts DEF Offer
  <2>3. ASSUME lastGen' # lastGen PROVE \E p \in Peers : Offer(p)
    <3> HIDE DEF life, media, net, handlers, closes, terminal
    <3>1. ASSUME NEW p \in Peers,
                 \/ OfferUnusable(p) \/ OfferTerminal(p) \/ OfferDuringSwitch(p)
                 \/ Negotiated(p) \/ OfferFails(p) \/ TransportEvent(p) \/ Handle(p) \/ CloseOwned(p)
          PROVE  lastGen' = lastGen
      BY <3>1 DEF OfferUnusable, OfferTerminal, OfferDuringSwitch, Negotiated, OfferFails,
                  TransportEvent, TransportUp, TransportDown, Handle, CandidateLost,
                  NotificationIgnored, BeginReconnect, Recover, CloseOwned, life
    <3>2. ASSUME NEW g \in Generations, Decision(g) PROVE lastGen' = lastGen
      BY <3>2 DEF Decision, DecisionAnswered, RejectDecision, Promote, BeginSwitch, life
    <3>3. ASSUME \/ CandidateTimeout \/ SwitchTask \/ GraceExpires \/ SpeechStarts \/ SpeechEnds
                 \/ LeaseInstalled \/ End \/ Terminate \/ UNCHANGED vars
                 \/ \E b \in Backfills : BackfillAdmit(b) \/ BackfillDone(b)
          PROVE  lastGen' = lastGen
      BY <3>3
      DEF CandidateTimeout, SwitchTask, SwitchStep, CommitSwitch, FailSwitch, SwitchLost,
                  GraceExpires, SpeechStarts, SpeechEnds, LeaseInstalled, End, Terminate,
                  TerminalStep, PassEnds, Publish, BackfillAdmit, BackfillDone, life, vars
    <3> QED BY <2>3, <3>1, <3>2, <3>3 DEF Next
  <2> QED BY <2>1, <2>2, <2>3
<1>t. TypeOK' BY <1>g, TypesKept
<1>1. ASSUME NEW p \in Peers, OfferUnusable(p) PROVE PeersInv'
  <2>1. Aside BY <1>1, <1>y DEF OfferUnusable, Aside, TypeOK, PeersInv, PhaseFits
  <2> QED BY <2>1, <1>t, AsideKeeps
<1>2. ASSUME NEW p \in Peers, OfferTerminal(p) PROVE PeersInv'
  <2>1. phase = "terminal" BY <1>2 DEF OfferTerminal, PeersInv, PhaseFits
  <2>2. offer'[p] # "idle" /\ \A x \in Peers \ {p} : offer'[x] = offer[x]
    BY <1>2, <1>y DEF OfferTerminal, TypeOK
  <2>3. CASE conn' = conn /\ UNCHANGED closes
    <3>1. Aside BY <1>2, <2>2, <2>3 DEF OfferTerminal, Aside, PeersInv, PhaseFits
    <3> QED BY <3>1, <1>t, AsideKeeps
  <2>4. CASE ClosePeers({p}) /\ UNCHANGED <<closing, tries, unclosed>>
    <3>1. Declines(p)
      BY <1>2, <2>1, <2>2, <2>4 DEF OfferTerminal, ClosePeers, Declines, Retired
    <3> QED BY <3>1, <1>t, DeclinesKeep
  <2>5. CASE /\ conn' = [conn EXCEPT ![p] = "new"] /\ unclosed' = unclosed \cup {p}
             /\ UNCHANGED <<closing, tries, closed>>
    <3>1. Declines(p)
      BY <1>2, <1>y, <2>1, <2>2, <2>5 DEF OfferTerminal, Declines, Retired, TypeOK
    <3> QED BY <3>1, <1>t, DeclinesKeep
  <2> QED BY <1>2, <2>3, <2>4, <2>5 DEF OfferTerminal
<1>3. ASSUME NEW p \in Peers, OfferDuringSwitch(p) PROVE PeersInv'
  <2>1. Declines(p)
    BY <1>3, <1>y DEF OfferDuringSwitch, StartOwnedCleanup, Declines, Retired, TypeOK
  <2> QED BY <2>1, <1>t, DeclinesKeep
<1>4. ASSUME NEW p \in Peers, Offer(p) PROVE PeersInv' BY <1>4, <1>t, OfferKeeps
<1>5. ASSUME NEW p \in Peers, Negotiated(p) PROVE PeersInv'
  <2>1. Aside BY <1>5, <1>y DEF Negotiated, Negotiating, Aside, TypeOK, PeersInv, PhaseFits
  <2> QED BY <2>1, <1>t, AsideKeeps
<1>6. ASSUME NEW p \in Peers, OfferFails(p) PROVE PeersInv'
  <2>1. \A x \in Peers : offer'[x] = "idle" => offer[x] = "idle"
    BY <1>6, <1>y DEF OfferFails, TypeOK
  <2>2. CASE IsPending(p)
    <3>1. Rejects
      BY <1>6, <2>1, <2>2
      DEF OfferFails, RestoreFailedOffer, RejectPending, StartOwnedCleanup, IsPending, Rejects
    <3> QED BY <3>1, <1>t, RejectsKeep
  <2>3. CASE ~IsPending(p)
    <3>1. Aside
      BY <1>6, <2>1, <2>3 DEF OfferFails, RestoreFailedOffer, Aside, PeersInv, PhaseFits
    <3> QED BY <3>1, <1>t, AsideKeeps
  <2> QED BY <2>2, <2>3
<1>7. ASSUME NEW p \in Peers, TransportEvent(p) PROVE PeersInv'
  <2>1. \A x \in Peers : conn'[x] # "none" => conn[x] # "none"
    BY <1>7, <1>y DEF TransportEvent, TransportUp, TransportDown, TypeOK, Lost
  <2>2. Aside
    BY <1>7, <2>1 DEF TransportEvent, TransportUp, TransportDown, Aside, PeersInv, PhaseFits
  <2> QED BY <2>2, <1>t, AsideKeeps
<1>8. ASSUME NEW p \in Peers, CandidateLost(p) PROVE PeersInv'
  <2>1. Rejects
    BY <1>8 DEF CandidateLost, RejectPending, StartOwnedCleanup, IsPending, Rejects
  <2> QED BY <2>1, <1>t, RejectsKeep
<1>9. ASSUME NEW p \in Peers, NotificationIgnored(p) PROVE PeersInv'
  <2>1. Aside BY <1>9 DEF NotificationIgnored, Aside, PeersInv, PhaseFits
  <2> QED BY <2>1, <1>t, AsideKeeps
<1>10. ASSUME NEW p \in Peers, BeginReconnect(p) PROVE PeersInv'
  <2>1. lost' # None
    <3>1. lost' = [peer |-> p, state |-> conn[p]] \/ (lost # None /\ lost' = lost)
      BY <1>10 DEF BeginReconnect
    <3>2. [peer |-> p, state |-> conn[p]] \in Losses BY <1>10 DEF BeginReconnect, Losses
    <3> QED BY <3>1, <3>2, NoneAssumption
  <2>2. /\ candidate' = None <=> candidate = None
        /\ candidate # None => candidate'.peer = candidate.peer /\ candidate'.gen = candidate.gen
    <3>1. CASE candidate' = candidate BY <3>1
    <3>2. CASE candidate # None /\ candidate' = [candidate EXCEPT !.epoch = epoch + 1]
      <4>1. candidate \in Candidates /\ epoch \in Nat BY <3>2, <1>y DEF TypeOK
      <4>2. epoch + 1 \in Nat BY <4>1
      <4>3. /\ candidate' \in Candidates
            /\ candidate'.peer = candidate.peer /\ candidate'.gen = candidate.gen
        BY <3>2, <4>1, <4>2 DEF Candidates
      <4> QED BY <3>2, <4>3, NoneAssumption
    <3> QED BY <1>10, <3>1, <3>2 DEF BeginReconnect
  <2>3. Aside BY <1>10, <2>1, <2>2 DEF BeginReconnect, Aside
  <2> QED BY <2>3, <1>t, AsideKeeps
<1>11. ASSUME NEW p \in Peers, Recover(p) PROVE PeersInv'
  <2>1. Aside BY <1>11 DEF Recover, Aside
  <2> QED BY <2>1, <1>t, AsideKeeps
<1>12. ASSUME NEW p \in Peers, CloseOwned(p) PROVE PeersInv' BY <1>12, <1>t, CloseKeeps
<1>13. ASSUME NEW g \in Generations, DecisionAnswered(g) PROVE PeersInv'
  <2>1. Aside BY <1>13 DEF DecisionAnswered, Aside, PeersInv, PhaseFits
  <2> QED BY <2>1, <1>t, AsideKeeps
<1>14. ASSUME NEW g \in Generations, RejectDecision(g) PROVE PeersInv'
  <2>1. Rejects
    BY <1>14 DEF RejectDecision, RejectPending, StartOwnedCleanup, Rejects
  <2> QED BY <2>1, <1>t, RejectsKeep
<1>15. ASSUME NEW g \in Generations, Promote(g) PROVE PeersInv' BY <1>15, <1>t, PromoteKeeps
<1>16. ASSUME NEW g \in Generations, BeginSwitch(g) PROVE PeersInv'
  BY <1>16, <1>t, BeginSwitchKeeps
<1>17. ASSUME CandidateTimeout PROVE PeersInv'
  <2>1. Rejects
    BY <1>17 DEF CandidateTimeout, RejectPending, StartOwnedCleanup, Rejects
  <2> QED BY <2>1, <1>t, RejectsKeep
<1>18. ASSUME SwitchStep PROVE PeersInv' BY <1>18, <1>t, SwitchStepKeeps
<1>19. ASSUME CommitSwitch PROVE PeersInv' BY <1>19, <1>t, CommitSwitchKeeps
<1>20. ASSUME FailSwitch PROVE PeersInv'
  <2> DEFINE extra == {x \in switch.errors : x.kind \in {"peer", "track"}}
  <2>1. /\ phase = "switching" /\ switch # None /\ active = switch.prev /\ switch.peer \in Peers
        /\ switch.errors \subseteq Resources
    BY <1>20, <1>p DEF FailSwitch, PeersInv, PhaseFits, SwitchFits, TypedParts
  <2>2. \A x \in switch.errors : x.kind = "peer" => x.of \in Peers
    BY <2>1 DEF PeersInv, PeersNamed
  <2>3. /\ TransitionTerminal("failed", switch.peer, extra) /\ switch' = None
        /\ UNCHANGED <<activeGen, lastGen, conn, offer, genOf, closes>>
    BY <1>20 DEF FailSwitch
  <2>4. extra \in SUBSET Resources /\ \A x \in extra : x.kind = "peer" => x.of \in Peers
    BY <2>1, <2>2
  <2> HIDE DEF extra
  <2>5. Ends BY <2>1, <2>3, <2>4, TransitionEnds
  <2> QED BY <2>5, <1>t, EndsKeep
<1>21. ASSUME SwitchLost PROVE PeersInv' BY <1>21, <1>t, SwitchLostKeeps
<1>22. ASSUME GraceExpires PROVE PeersInv'
  <2>1. CASE UNCHANGED <<phase, candidate, lost, active, terminal>>
    <3>1. Aside BY <1>22, <2>1 DEF GraceExpires, Aside, PeersInv, PhaseFits
    <3> QED BY <3>1, <1>t, AsideKeeps
  <2>2. CASE /\ phase = "reconnecting"
             /\ TransitionTerminal(IF lost.state = "failed" THEN "failed" ELSE "ended", active, {})
    <3>1. Ends
      <4> DEFINE target == IF lost.state = "failed" THEN "failed" ELSE "ended"
      <4>1. target \in {"ended", "failed"} /\ active \in Peers BY <1>y DEF TypeOK
      <4>2. TransitionTerminal(target, active, {}) BY <2>2
      <4>3. /\ phase # "terminal" /\ switch' = switch
            /\ UNCHANGED <<activeGen, lastGen, conn, offer, genOf, closes>>
        BY <1>22, <2>2 DEF GraceExpires
      <4> HIDE DEF target
      <4> QED BY <4>1, <4>2, <4>3, TransitionEnds
    <3> QED BY <3>1, <1>t, EndsKeep
  <2> QED BY <1>22, <2>1, <2>2 DEF GraceExpires
<1>23. ASSUME NEW b \in Backfills, BackfillAdmit(b) \/ BackfillDone(b) PROVE PeersInv'
  <2>1. Aside BY <1>23 DEF BackfillAdmit, BackfillDone, Aside, PeersInv, PhaseFits
  <2> QED BY <2>1, <1>t, AsideKeeps
<1>24. ASSUME SpeechStarts \/ SpeechEnds \/ LeaseInstalled PROVE PeersInv'
  <2>1. Aside BY <1>24 DEF SpeechStarts, SpeechEnds, LeaseInstalled, Aside, PeersInv, PhaseFits
  <2> QED BY <2>1, <1>t, AsideKeeps
<1>25. ASSUME End PROVE PeersInv'
  <2>1. /\ phase # "terminal" /\ active \in Peers /\ switch' = switch
        /\ TransitionTerminal("ended", active, {})
        /\ UNCHANGED <<activeGen, lastGen, conn, offer, genOf, closes>>
    BY <1>25, <1>y DEF End, PeersInv, PhaseFits, TypeOK
  <2>2. Ends BY <2>1, TransitionEnds
  <2> QED BY <2>2, <1>t, EndsKeep
<1>26. ASSUME TerminalStep PROVE PeersInv' BY <1>26, <1>t, TerminalStepKeeps
<1>27. ASSUME PassEnds PROVE PeersInv'
  <2>1. cleanup'.pending = cleanup.pending /\ cleanup'.todo \subseteq cleanup.todo \cup cleanup.pending
    <3>1. CASE cleanup' = cleanup BY <3>1
    <3>2. CASE cleanup' = [cleanup EXCEPT !.todo = cleanup.pending, !.passes = @ + 1,
                                          !.timedOut = FALSE]
      BY <3>2, <1>y DEF TypeOK
    <3> QED BY <1>27, <3>1, <3>2 DEF PassEnds
  <2>2. Aside BY <1>27, <2>1 DEF PassEnds, Aside, PeersInv, PhaseFits
  <2> QED BY <2>2, <1>t, AsideKeeps
<1>28. ASSUME Publish \/ UNCHANGED vars PROVE PeersInv'
  <2>1. Aside BY <1>28 DEF Publish, vars, Aside, PeersInv, PhaseFits
  <2> QED BY <2>1, <1>t, AsideKeeps
<1> HIDE DEF life, media, net, handlers, closes, terminal
<1>29. ASSUME NEW p \in Peers, Handle(p) PROVE PeersInv'
  BY <1>29, <1>8, <1>9, <1>10, <1>11 DEF Handle
<1>30. ASSUME NEW g \in Generations, Decision(g) PROVE PeersInv'
  BY <1>30, <1>13, <1>14, <1>15, <1>16 DEF Decision
<1> QED BY <1>1, <1>2, <1>3, <1>4, <1>5, <1>6, <1>7, <1>12, <1>17, <1>18, <1>19, <1>20, <1>21,
           <1>22, <1>23, <1>24, <1>25, <1>26, <1>27, <1>28, <1>29, <1>30
        DEF Next, SwitchTask, Terminate

LEMMA PeersStart == ASSUME Init PROVE PeersInv
<1> USE DEF Init
<1>1. 0 \in Generations BY PeersAssumption, FS_CardinalityType DEF Generations
<1>t. TypeOK
  <2>1. TypeLife BY <1>1, PeersAssumption DEF TypeLife, Phases
  <2>2. TypeSwitch BY DEF TypeSwitch
  <2>3. TypeMedia BY PeersAssumption DEF TypeMedia
  <2>4. TypeNet BY <1>1, PeersAssumption, LimitsAssumption DEF TypeNet
  <2>5. TypeCloses BY LimitsAssumption DEF TypeCloses
  <2>6. TypeEnd BY LimitsAssumption DEF TypeEnd
  <2> QED BY <2>1, <2>2, <2>3, <2>4, <2>5, <2>6, Types
<1>2. PhaseFits BY DEF PhaseFits
<1>3. OffersFresh BY DEF OffersFresh, IsPending, Retired
<1>4. GenerationsCounted
  <2>1. Offered = {} BY DEF Offered
  <2> QED BY <2>1, FS_EmptySet DEF GenerationsCounted
<1>5. ActiveFits BY DEF ActiveFits, Retired
<1>6. CandidateFits /\ SwitchFits BY DEF CandidateFits, SwitchFits
<1>7. TriesFit BY DEF TriesFit
<1>8. PeersNamed BY DEF PeersNamed
<1>9. NoPeerIsForgotten BY DEF NoPeerIsForgotten
<1> QED BY <1>t, <1>2, <1>3, <1>4, <1>5, <1>6, <1>7, <1>8, <1>9 DEF PeersInv

-----------------------------------------------------------------------------
(* A switch is atomic: its engine.                                          *)

\* A step that neither begins a switch nor works on one, and admits speech only while the
\* call is stable.
EngineAside ==
    /\ phase = "terminal" => phase' = "terminal"
    /\ phase' = "switching" => phase = "switching" /\ switch' = switch
    /\ speech' \in {speech, None} \/ (phase = "stable" /\ phase' = phase /\ speech' = selection)
    /\ UNCHANGED <<selection, lease>>

LEMMA EngineAsideKeeps == ASSUME EngineInv, EngineAside PROVE EngineInv'
<1>1. EngineFits' BY DEF EngineInv, EngineFits, EngineAside
<1>2. SwitchClears' BY DEF EngineInv, SwitchClears, EngineAside
<1> QED BY <1>1, <1>2 DEF EngineInv

LEMMA EngineKept == ASSUME PeersInv, EngineInv, [Next]_vars PROVE EngineInv'
<1> USE DEF life, media, net, handlers, closes, terminal
<1>y. TypeOK BY DEF PeersInv
<1>f. PhaseFits BY DEF PeersInv
<1>1. ASSUME NEW p \in Peers,
             \/ OfferUnusable(p) \/ OfferTerminal(p) \/ OfferDuringSwitch(p) \/ Offer(p)
             \/ Negotiated(p) \/ OfferFails(p) \/ TransportEvent(p) \/ CloseOwned(p)
      PROVE  EngineInv'
  <2>1. EngineAside
    BY <1>1 DEF OfferUnusable, OfferTerminal, OfferDuringSwitch, Offer, Negotiated, OfferFails,
                TransportEvent, TransportUp, TransportDown, CloseOwned, EngineAside
  <2> QED BY <2>1, EngineAsideKeeps
<1>2. ASSUME NEW p \in Peers, Handle(p) PROVE EngineInv'
  <2>1. EngineAside
    BY <1>2 DEF Handle, CandidateLost, NotificationIgnored, BeginReconnect, Recover, EngineAside
  <2> QED BY <2>1, EngineAsideKeeps
<1>3. ASSUME NEW g \in Generations, DecisionAnswered(g) \/ RejectDecision(g) \/ Promote(g)
      PROVE  EngineInv'
  <2>1. EngineAside
    BY <1>3 DEF DecisionAnswered, RejectDecision, Promote, Acceptable, EngineAside
  <2> QED BY <2>1, EngineAsideKeeps
<1>4. ASSUME NEW g \in Generations, BeginSwitch(g) PROVE EngineInv'
  <2>1. /\ phase # "terminal" /\ phase' = "switching"
        /\ UNCHANGED <<speech, lease, selection>>
    BY <1>4 DEF BeginSwitch, Acceptable
  <2>2. switch'.cancel = (speech # None) /\ switch'.lease = (lease /\ selection = "qwen")
        /\ switch'.step = "old_track"
    BY <1>4 DEF BeginSwitch
  <2>3. EngineFits' BY <2>1 DEF EngineInv, EngineFits
  <2>4. SwitchClears' BY <2>1, <2>2 DEF EngineInv, EngineFits, SwitchClears
  <2> QED BY <2>3, <2>4 DEF EngineInv
<1>5. ASSUME SwitchStep PROVE EngineInv'
  <2>1. /\ switch'.cancel = switch.cancel /\ switch'.lease = switch.lease
        /\ switch.step \in SwitchSteps /\ switch.step # "finish" /\ phase' = phase
        /\ switch'.step = NextStep[switch.step]
        /\ \/ speech' = IF switch.step = "cancel" /\ switch.cancel THEN None ELSE speech
           \/ speech' = speech /\ SwitchWork \in switch'.errors
    BY <1>5, SwitchMoves
  <2>2. UNCHANGED <<selection, lease>> BY <1>5 DEF SwitchStep
  <2>3. EngineFits' BY <2>1, <2>2 DEF EngineInv, EngineFits
  <2>4. switch.step = "cancel" \/ switch'.step # "finish"
    BY <2>1 DEF SwitchSteps, NextStep
  <2>5. SwitchClears'
    BY <2>1, <2>2, <2>4 DEF EngineInv, SwitchClears, SwitchWork
  <2> QED BY <2>3, <2>5 DEF EngineInv
<1>6. ASSUME CommitSwitch PROVE EngineInv'
  <2>1. /\ phase' = "stable" /\ speech' = speech /\ lease' = (lease /\ ~switch.lease)
        /\ phase = "switching" /\ switch.step = "finish" /\ switch.errors = {}
    BY <1>6 DEF CommitSwitch
  <2>2. speech = None /\ ~lease' BY <2>1 DEF EngineInv, SwitchClears
  <2> QED BY <2>1, <2>2 DEF EngineInv, EngineFits, SwitchClears
<1>7. ASSUME FailSwitch \/ SwitchLost \/ GraceExpires \/ End PROVE EngineInv'
  <2>1. EngineAside
    BY <1>7 DEF FailSwitch, SwitchLost, GraceExpires, End, TransitionTerminal, EngineAside
  <2> QED BY <2>1, EngineAsideKeeps
<1>8. ASSUME TerminalStep PROVE EngineInv'
  <2>1. phase = "terminal" /\ phase' = phase BY <1>8, <1>f DEF TerminalStep, PhaseFits
  <2> QED BY <2>1 DEF EngineInv, EngineFits, SwitchClears
<1>9. ASSUME \/ CandidateTimeout \/ PassEnds \/ Publish \/ UNCHANGED vars
             \/ \E b \in Backfills : BackfillAdmit(b) \/ BackfillDone(b)
             \/ SpeechStarts \/ SpeechEnds
      PROVE  EngineInv'
  <2>1. EngineAside
    BY <1>9 DEF CandidateTimeout, PassEnds, Publish, vars, BackfillAdmit, BackfillDone,
                SpeechStarts, SpeechEnds, EngineAside
  <2> QED BY <2>1, EngineAsideKeeps
<1>10. ASSUME LeaseInstalled PROVE EngineInv'
  BY <1>10 DEF LeaseInstalled, EngineInv, EngineFits, SwitchClears
<1> HIDE DEF life, media, net, handlers, closes, terminal
<1> QED BY <1>1, <1>2, <1>3, <1>4, <1>5, <1>6, <1>7, <1>8, <1>9, <1>10
        DEF Next, Decision, SwitchTask, Terminate

-----------------------------------------------------------------------------
(* A switch is atomic: its decisions.                                       *)

\* A step that tells nobody anything and decides nothing: a generation keeps its place, or
\* the candidate is a new one, or the candidate becomes that of the switch.
DecisionsAside ==
    /\ lastGen' >= lastGen
    /\ candidate' # None => \/ candidate'.gen > lastGen
                            \/ candidate # None /\ candidate'.gen = candidate.gen
    /\ phase' = "switching" => \/ phase = "switching" /\ switch'.gen = switch.gen
                               \/ candidate # None /\ switch'.gen = candidate.gen
    /\ phase = "terminal" => phase' = "terminal"
    /\ UNCHANGED <<answers, activeGen, decided>>

LEMMA GenerationsAreNaturals == ASSUME NEW g \in Generations PROVE g \in Nat
BY PeersAssumption, FS_CardinalityType DEF Generations

LEMMA DecisionsAsideKeep ==
  ASSUME PeersInv, TypeOK', DecisionInv, DecisionsAside PROVE DecisionInv'
<1>y. TypeOK BY DEF PeersInv
<1>n. lastGen \in Nat /\ lastGen' \in Nat /\ activeGen \in Nat /\ decided.gen \in Nat
  BY <1>y, GenerationsAreNaturals DEF TypeOK
<1>r. \A g : Refused(g)' <=> Refused(g) BY DEF DecisionsAside, Refused
<1>1. RefusalsHold'
  <2> SUFFICES ASSUME NEW g \in Generations, Refused(g)
               PROVE  /\ g # activeGen' /\ g <= lastGen' /\ "committed" \notin answers'[g]
                      /\ candidate' # None => g # candidate'.gen
                      /\ phase' = "switching" => g # switch'.gen
    BY <1>r DEF RefusalsHold
  <2>1. /\ g # activeGen /\ g <= lastGen /\ "committed" \notin answers[g]
        /\ candidate # None => g # candidate.gen
        /\ phase = "switching" => g # switch.gen
    BY DEF DecisionInv, RefusalsHold
  <2>2. g \in Nat BY GenerationsAreNaturals
  <2>3. ~(g > lastGen) BY <2>1, <2>2, <1>n
  <2>4. g <= lastGen' BY <2>1, <2>2, <1>n DEF DecisionsAside
  <2>5. candidate' # None => g # candidate'.gen BY <2>1, <2>3 DEF DecisionsAside
  <2> QED BY <2>1, <2>4, <2>5 DEF DecisionsAside
<1>2. CommitsHold' BY DEF DecisionInv, CommitsHold, DecisionsAside
<1>3. DecidedFits'
  <2>1. decided' = decided /\ activeGen' = activeGen /\ decided.gen <= lastGen'
    BY <1>n DEF DecisionInv, DecidedFits, DecisionsAside
  <2>2. Refused(decided.gen)' <=> Refused(decided.gen)
    BY DEF DecisionsAside, Refused
  <2> QED BY <2>1, <2>2 DEF DecisionInv, DecidedFits, DecisionsAside
<1> QED BY <1>1, <1>2, <1>3 DEF DecisionInv

\* A generation is told something.
LEMMA AnswerSays ==
  ASSUME TypeOK, NEW g \in Generations, NEW action, NEW a, Answer(g, action, a)
  PROVE  /\ answers'[g] = answers[g] \cup ({a} \cap Expected[action])
         /\ \A h \in Generations : h # g => answers'[h] = answers[h]
BY DEF TypeOK, Answer

\* The last generation, which the candidate or the switch has, is refused.
LEMMA RefusalKeeps ==
  ASSUME PeersInv, DecisionInv, NEW a \in {"rejected", "failed"}, NEW action,
         Answer(lastGen, action, a), activeGen < lastGen, lastGen' = lastGen,
         activeGen' = activeGen, candidate' = None, phase' # "switching",
         \/ decided' = decided /\ decided.outcome # "failed"
         \/ decided' = [gen |-> lastGen, outcome |-> "failed"] /\ phase' = "terminal"
  PROVE  DecisionInv'
<1>y. TypeOK BY DEF PeersInv
<1>n. lastGen \in Nat /\ activeGen \in Nat /\ lastGen \in Generations
  BY <1>y, GenerationsAreNaturals DEF TypeOK
<1>1. /\ answers'[lastGen] \subseteq answers[lastGen] \cup {"rejected", "failed"}
      /\ \A h \in Generations : h # lastGen => answers'[h] = answers[h]
  <2>1. /\ answers'[lastGen] = answers[lastGen] \cup ({a} \cap Expected[action])
        /\ \A h \in Generations : h # lastGen => answers'[h] = answers[h]
    BY <1>y, <1>n, AnswerSays
  <2>2. {a} \subseteq {"rejected", "failed"} OBVIOUS
  <2> QED BY <2>1, <2>2
<1>2. "committed" \notin answers[lastGen] BY <1>n DEF DecisionInv, CommitsHold
<1>3. \A h \in Generations : "committed" \in answers'[h] => "committed" \in answers[h] /\ h # lastGen
  BY <1>1, <1>2
<1>4. CommitsHold' BY <1>3 DEF DecisionInv, CommitsHold
<1>5. RefusalsHold'
  <2> SUFFICES ASSUME NEW h \in Generations, Refused(h)'
               PROVE  h # activeGen /\ h <= lastGen /\ "committed" \notin answers'[h]
    BY DEF RefusalsHold
  <2>1. CASE h = lastGen BY <2>1, <1>n, <1>3
  <2>2. CASE h # lastGen
    <3>1. Refused(h) BY <2>2, <1>1 DEF Refused
    <3> QED BY <3>1, <1>3 DEF DecisionInv, RefusalsHold
  <2> QED BY <2>1, <2>2
<1>6. DecidedFits'
  <2>1. CASE decided' = [gen |-> lastGen, outcome |-> "failed"] /\ phase' = "terminal"
    BY <2>1, <1>n DEF DecidedFits
  <2>2. CASE decided' = decided /\ decided.outcome # "failed"
    <3>1. decided.gen \in Generations /\ decided.gen \in Nat
      BY <1>y, GenerationsAreNaturals DEF TypeOK
    <3>2. decided.outcome = "committed" =>
             decided.gen # lastGen /\ answers'[decided.gen] = answers[decided.gen]
      BY <3>1, <1>1, <1>n DEF DecisionInv, DecidedFits
    <3> QED BY <2>2, <3>2 DEF DecisionInv, DecidedFits, Refused
  <2> QED BY <2>1, <2>2
<1> QED BY <1>4, <1>5, <1>6 DEF DecisionInv

\* The last generation is promoted, and may be told so.
LEMMA CommitKeeps ==
  ASSUME PeersInv, DecisionInv, ~Refused(lastGen), activeGen < lastGen, lastGen' = lastGen,
         activeGen' = lastGen, candidate' = None, phase' = "stable",
         answers' = answers \/ Answer(lastGen, "commit", "committed"),
         \/ decided' = decided /\ decided.outcome # "failed"
         \/ decided' = [gen |-> lastGen, outcome |-> "committed"]
  PROVE  DecisionInv'
<1>y. TypeOK BY DEF PeersInv
<1>n. lastGen \in Nat /\ activeGen \in Nat /\ lastGen \in Generations
  BY <1>y, GenerationsAreNaturals DEF TypeOK
<1>1. /\ answers[lastGen] \subseteq answers'[lastGen]
      /\ answers'[lastGen] \subseteq answers[lastGen] \cup {"committed"}
      /\ \A h \in Generations : h # lastGen => answers'[h] = answers[h]
  <2>1. CASE answers' = answers BY <2>1
  <2>2. CASE Answer(lastGen, "commit", "committed") BY <2>2, <1>y, <1>n, AnswerSays
  <2> QED BY <2>1, <2>2
<1>2. \A h \in Generations : Refused(h)' <=> Refused(h)
  <2> TAKE h \in Generations
  <2>1. CASE h = lastGen BY <2>1, <1>1 DEF Refused
  <2>2. CASE h # lastGen BY <2>2, <1>1 DEF Refused
  <2> QED BY <2>1, <2>2
<1>4. CommitsHold'
  <2> SUFFICES ASSUME NEW h \in Generations, "committed" \in answers'[h] PROVE h <= lastGen
    BY DEF CommitsHold
  <2>1. CASE h = lastGen BY <2>1, <1>n
  <2>2. CASE h # lastGen
    <3>1. h <= activeGen BY <2>2, <1>1 DEF DecisionInv, CommitsHold
    <3>2. h \in Nat BY GenerationsAreNaturals
    <3> QED BY <3>1, <3>2, <1>n
  <2> QED BY <2>1, <2>2
<1>5. RefusalsHold'
  <2> SUFFICES ASSUME NEW h \in Generations, Refused(h)
               PROVE  h # lastGen /\ h <= lastGen /\ "committed" \notin answers'[h]
    BY <1>2 DEF RefusalsHold
  <2> QED BY <1>1 DEF DecisionInv, RefusalsHold
<1>6. DecidedFits'
  <2>1. CASE decided' = [gen |-> lastGen, outcome |-> "committed"]
    <3>1. ~(answers'[lastGen] \cap {"rejected", "failed"} # {}) BY <1>1 DEF Refused
    <3> QED BY <2>1, <3>1, <1>n DEF DecidedFits, Refused
  <2>2. CASE decided' = decided /\ decided.outcome # "failed"
    <3>1. decided.gen \in Generations /\ decided.gen \in Nat
      BY <1>y, GenerationsAreNaturals DEF TypeOK
    <3>2. decided.gen <= lastGen /\ (decided.outcome = "committed" => ~Refused(decided.gen))
      BY DEF DecisionInv, DecidedFits
    <3>3. decided.outcome = "committed" =>
             ~(answers'[decided.gen] \cap {"rejected", "failed"} # {})
      BY <3>1, <3>2, <1>1 DEF Refused
    <3> QED BY <2>2, <3>2, <3>3 DEF DecidedFits, Refused
  <2> QED BY <2>1, <2>2
<1> QED BY <1>4, <1>5, <1>6 DEF DecisionInv

\* A request about a generation that was decided is told how.
LEMMA AnsweredKeeps ==
  ASSUME PeersInv, DecisionInv, NEW g \in Generations, DecisionAnswered(g)
  PROVE  DecisionInv'
<1> USE DEF life, handlers
<1>y. TypeOK /\ PhaseFits BY DEF PeersInv
<1>n. /\ lastGen \in Nat /\ activeGen \in Nat /\ g \in Nat
      /\ decided.gen \in Generations /\ decided.gen \in Nat
      /\ decided.outcome \in {"committed", "failed", "none"}
  BY <1>y, GenerationsAreNaturals DEF TypeOK
<1>1. /\ UNCHANGED <<phase, candidate, switch, activeGen, lastGen, decided>>
      /\ \E action \in DOMAIN Expected : \E a :
            /\ Answer(g, action, a)
            /\ (a = DurableOutcome(g) /\ a # None) \/ a \in {"stale", "not_connected"}
  BY DEF DecisionAnswered
<1>2. PICK action \in DOMAIN Expected : \E a :
            /\ Answer(g, action, a)
            /\ (a = DurableOutcome(g) /\ a # None) \/ a \in {"stale", "not_connected"}
  BY <1>1
<1>3. PICK a : /\ Answer(g, action, a)
               /\ (a = DurableOutcome(g) /\ a # None) \/ a \in {"stale", "not_connected"}
  BY <1>2
<1>4. /\ answers'[g] = answers[g] \cup ({a} \cap Expected[action])
      /\ \A h \in Generations : h # g => answers'[h] = answers[h]
  BY <1>3, <1>y, AnswerSays
<1>5. answers \in [Generations -> SUBSET Answers] /\ answers' \in [Generations -> SUBSET Answers]
  BY <1>3, <1>y DEF TypeOK, Answer, Expected, Answers
<1>6. CASE a \notin Expected[action]
  <2>1. \A h \in Generations : answers'[h] = answers[h] BY <1>4, <1>6
  <2>2. answers' = answers BY <2>1, <1>5
  <2> QED
    BY <1>1, <2>2 DEF DecisionInv, RefusalsHold, CommitsHold, DecidedFits, Refused
<1>7. CASE a \in Expected[action]
  <2>1. a \in {"committed", "failed", "rejected"} BY <1>2, <1>7 DEF Expected
  <2>2. a = DurableOutcome(g) /\ a # None BY <1>3, <2>1
  <2>3. \/ a = "committed" /\ (activeGen = g \/ (decided.gen = g /\ decided.outcome = "committed"))
        \/ a = "failed" /\ decided.gen = g /\ decided.outcome = "failed"
    BY <2>1, <2>2, <1>n DEF DurableOutcome
  <2>4. CASE a = "committed" /\ (activeGen = g \/ (decided.gen = g /\ decided.outcome = "committed"))
    <3>1. g <= activeGen /\ ~Refused(g)
      BY <2>4, <1>n DEF DecisionInv, RefusalsHold, DecidedFits
    <3>2. \A h \in Generations : Refused(h)' <=> Refused(h)
      <4> TAKE h \in Generations
      <4>1. CASE h = g BY <4>1, <1>4, <2>4 DEF Refused
      <4>2. CASE h # g BY <4>2, <1>4 DEF Refused
      <4> QED BY <4>1, <4>2
    <3>3. CommitsHold'
      BY <3>1, <1>1, <1>4, <2>4 DEF DecisionInv, CommitsHold
    <3>4. RefusalsHold'
      <4> SUFFICES ASSUME NEW h \in Generations, Refused(h)
                   PROVE  /\ h # activeGen /\ h <= lastGen /\ "committed" \notin answers'[h]
                          /\ candidate # None => h # candidate.gen
                          /\ phase = "switching" => h # switch.gen
        BY <3>2, <1>1 DEF RefusalsHold
      <4>1. answers'[h] = answers[h] BY <3>1, <1>4
      <4> QED BY <4>1 DEF DecisionInv, RefusalsHold
    <3>5. DecidedFits'
      <4>1. answers'[decided.gen] \cap {"rejected", "failed"} # {} <=> Refused(decided.gen)
        BY <3>2, <1>n, <1>1, <1>4, <2>4 DEF Refused
      <4> QED BY <4>1, <1>1 DEF DecisionInv, DecidedFits, Refused
    <3> QED BY <3>3, <3>4, <3>5 DEF DecisionInv
  <2>5. CASE a = "failed" /\ decided.gen = g /\ decided.outcome = "failed"
    <3>1. g > activeGen /\ phase = "terminal" /\ candidate = None /\ g <= lastGen
      BY <2>5, <1>y DEF DecisionInv, DecidedFits, PhaseFits
    <3>2. "committed" \notin answers[g] BY <3>1, <1>n DEF DecisionInv, CommitsHold
    <3>3. \A h \in Generations : "committed" \in answers'[h] => "committed" \in answers[h]
      BY <1>4, <2>5
    <3>4. CommitsHold' BY <3>3, <1>1 DEF DecisionInv, CommitsHold
    <3>5. RefusalsHold'
      <4> SUFFICES ASSUME NEW h \in Generations, Refused(h)'
                   PROVE  h # activeGen /\ h <= lastGen /\ "committed" \notin answers'[h]
        BY <3>1, <1>1 DEF RefusalsHold
      <4>1. CASE h = g BY <4>1, <3>1, <3>2, <3>3, <1>n
      <4>2. CASE h # g
        <5>1. Refused(h) BY <4>2, <1>4 DEF Refused
        <5> QED BY <5>1, <3>3 DEF DecisionInv, RefusalsHold
      <4> QED BY <4>1, <4>2
    <3>6. DecidedFits' BY <2>5, <1>1 DEF DecisionInv, DecidedFits
    <3> QED BY <3>4, <3>5, <3>6 DEF DecisionInv
  <2> QED BY <2>3, <2>4, <2>5
<1> QED BY <1>6, <1>7

LEMMA DecisionsKept ==
  ASSUME PeersInv, PeersInv', DecisionInv, [Next]_vars PROVE DecisionInv'
<1> USE DEF life, media, net, handlers, closes, terminal
<1>y. TypeOK /\ TypeOK' /\ PhaseFits BY DEF PeersInv
<1>n. /\ lastGen \in Nat /\ lastGen' \in Nat /\ lastGen' + 1 > lastGen' /\ lastGen + 1 > lastGen
      /\ activeGen \in Nat
  BY <1>y, GenerationsAreNaturals DEF TypeOK
<1>s. lastGen >= lastGen BY <1>n
<1>1. ASSUME NEW p \in Peers,
             \/ OfferUnusable(p) \/ OfferTerminal(p) \/ OfferDuringSwitch(p)
             \/ Negotiated(p) \/ OfferFails(p) \/ TransportEvent(p) \/ CloseOwned(p)
             \/ CandidateLost(p) \/ NotificationIgnored(p) \/ Recover(p)
      PROVE  DecisionInv'
  <2>1. DecisionsAside
    BY <1>1, <1>s
    DEF OfferUnusable, OfferTerminal, OfferDuringSwitch, Negotiated, OfferFails,
        RestoreFailedOffer, RejectPending, TransportEvent, TransportUp, TransportDown, CloseOwned,
        CandidateLost, NotificationIgnored, Recover, DecisionsAside
  <2> QED BY <2>1, <1>y, DecisionsAsideKeep
<1>2. ASSUME NEW p \in Peers, BeginReconnect(p) PROVE DecisionInv'
  <2>1. candidate' # None => candidate # None /\ candidate'.gen = candidate.gen
    <3>1. CASE candidate' = candidate BY <3>1
    <3>2. CASE candidate # None /\ candidate' = [candidate EXCEPT !.epoch = epoch + 1]
      <4>1. candidate \in Candidates BY <3>2, <1>y DEF TypeOK
      <4> QED BY <3>2, <4>1 DEF Candidates
    <3> QED BY <1>2, <3>1, <3>2 DEF BeginReconnect
  <2>2. DecisionsAside BY <1>2, <2>1, <1>s DEF BeginReconnect, DecisionsAside
  <2> QED BY <2>2, <1>y, DecisionsAsideKeep
<1>3. ASSUME NEW p \in Peers, Offer(p) PROVE DecisionInv'
  <2>1. lastGen' = lastGen + 1 /\ candidate'.gen = lastGen + 1
    BY <1>3 DEF Offer
  <2>2. lastGen' >= lastGen /\ candidate'.gen > lastGen BY <2>1, <1>n
  <2>3. DecisionsAside BY <1>3, <2>2 DEF Offer, DecisionsAside
  <2> QED BY <2>3, <1>y, DecisionsAsideKeep
<1>4. ASSUME NEW g \in Generations, RejectDecision(g) PROVE DecisionInv'
  <2>1. /\ candidate # None /\ g = lastGen /\ activeGen < lastGen /\ phase # "switching"
        /\ phase # "terminal"
    BY <1>4 DEF RejectDecision, PeersInv, CandidateFits, PhaseFits
  <2>2. decided.outcome # "failed" BY <2>1 DEF DecisionInv, DecidedFits
  <2>3. /\ Answer(lastGen, "reject", "rejected") /\ candidate' = None
        /\ UNCHANGED <<phase, activeGen, lastGen, decided>>
    BY <1>4, <2>1 DEF RejectDecision, RejectPending
  <2> QED BY <2>1, <2>2, <2>3, RefusalKeeps
<1>5. ASSUME NEW g \in Generations, Promote(g) PROVE DecisionInv'
  <2>1. /\ candidate # None /\ g = lastGen /\ activeGen < lastGen /\ candidate.gen = lastGen
        /\ phase # "terminal" /\ lastGen \in Generations
    BY <1>5, <1>y DEF Promote, Acceptable, PeersInv, CandidateFits, TypeOK
  <2>2. ~Refused(lastGen) /\ decided.outcome # "failed"
    BY <2>1 DEF DecisionInv, RefusalsHold, DecidedFits
  <2>3. /\ answers' = answers \/ Answer(lastGen, "commit", "committed")
        /\ candidate' = None /\ phase' = "stable" /\ activeGen' = lastGen
        /\ UNCHANGED <<lastGen, decided>>
    BY <1>5, <2>1 DEF Promote
  <2> QED BY <2>1, <2>2, <2>3, CommitKeeps
<1>6. ASSUME NEW g \in Generations, BeginSwitch(g) PROVE DecisionInv'
  <2>1. DecisionsAside
    BY <1>6, <1>s DEF BeginSwitch, Acceptable, DecisionsAside
  <2> QED BY <2>1, <1>y, DecisionsAsideKeep
<1>7. ASSUME SwitchStep PROVE DecisionInv'
  <2>1. phase' = phase /\ switch'.gen = switch.gen BY <1>7, SwitchMoves
  <2>2. UNCHANGED <<candidate, lastGen, answers, activeGen, decided>> BY <1>7 DEF SwitchStep
  <2>3. DecisionsAside BY <2>1, <2>2, <1>s DEF DecisionsAside
  <2> QED BY <2>3, <1>y, DecisionsAsideKeep
<1>8. ASSUME CommitSwitch PROVE DecisionInv'
  <2>1. /\ phase = "switching" /\ switch.gen = lastGen /\ activeGen < lastGen
        /\ candidate = None /\ lastGen \in Generations
    BY <1>8, <1>y DEF CommitSwitch, PeersInv, SwitchFits, PhaseFits, TypeOK
  <2>2. ~Refused(lastGen) BY <2>1 DEF DecisionInv, RefusalsHold
  <2>3. /\ Answer(lastGen, "commit", "committed") /\ candidate' = None /\ phase' = "stable"
        /\ activeGen' = lastGen /\ lastGen' = lastGen
        /\ decided' = [gen |-> lastGen, outcome |-> "committed"]
    BY <1>8, <2>1 DEF CommitSwitch
  <2> QED BY <2>1, <2>2, <2>3, CommitKeeps
<1>9. ASSUME FailSwitch \/ SwitchLost PROVE DecisionInv'
  <2>1. switch.gen = lastGen /\ activeGen < lastGen
    BY <1>9 DEF FailSwitch, SwitchLost, PeersInv, SwitchFits, PhaseFits
  <2>2. /\ Answer(lastGen, "commit", "failed") /\ candidate' = None /\ phase' = "terminal"
        /\ UNCHANGED <<activeGen, lastGen>>
        /\ decided' = [gen |-> lastGen, outcome |-> "failed"]
    BY <1>9, <2>1, <1>y DEF FailSwitch, SwitchLost, TransitionTerminal, PhaseFits
  <2> QED BY <2>1, <2>2, RefusalKeeps
<1>10. ASSUME GraceExpires \/ End PROVE DecisionInv'
  <2>1. DecisionsAside
    BY <1>10, <1>s, <1>y DEF GraceExpires, End, TransitionTerminal, DecisionsAside, PhaseFits
  <2> QED BY <2>1, <1>y, DecisionsAsideKeep
<1>11. ASSUME \/ CandidateTimeout \/ TerminalStep \/ PassEnds \/ Publish \/ UNCHANGED vars
              \/ \E b \in Backfills : BackfillAdmit(b) \/ BackfillDone(b)
              \/ SpeechStarts \/ SpeechEnds \/ LeaseInstalled
       PROVE  DecisionInv'
  <2>1. DecisionsAside
    BY <1>11, <1>s DEF CandidateTimeout, RejectPending, TerminalStep, PassEnds, Publish, vars,
       BackfillAdmit, BackfillDone, SpeechStarts, SpeechEnds, LeaseInstalled, DecisionsAside
  <2> QED BY <2>1, <1>y, DecisionsAsideKeep
<1>12. ASSUME NEW g \in Generations, Decision(g) PROVE DecisionInv'
  BY <1>12, <1>4, <1>5, <1>6, AnsweredKeeps DEF Decision
<1>13. ASSUME NEW p \in Peers, Handle(p) PROVE DecisionInv' BY <1>13, <1>1, <1>2 DEF Handle
<1> HIDE DEF life, media, net, handlers, closes, terminal
<1> QED BY <1>1, <1>3, <1>7, <1>8, <1>9, <1>10, <1>11, <1>12, <1>13
        DEF Next, SwitchTask, Terminate

-----------------------------------------------------------------------------
(* The reconnect grace.                                                     *)

\* A step after which the call reconnects only if it did: the active peer stays and its
\* transport does not come back unannounced.
GraceAside ==
    phase' = "reconnecting" =>
        /\ phase = "reconnecting" /\ active' = active
        /\ conn[active] \in Lost => conn'[active] \in Lost \/ active \in notified'
        /\ active \in notified => conn'[active] \in Lost \/ active \in notified'

LEMMA GraceKept == ASSUME PeersInv, GraceFits, [Next]_vars PROVE GraceFits'
<1> USE DEF life, media, net, handlers, closes, terminal
<1>y. TypeOK /\ PhaseFits /\ OffersFresh /\ CandidateFits BY DEF PeersInv
<1>c. active \in Peers /\ \A p : IsPending(p) => p # active
  BY <1>y DEF TypeOK, CandidateFits, IsPending
<1>a. ASSUME GraceAside PROVE GraceFits' BY <1>a DEF GraceAside, GraceFits
<1>1. ASSUME NEW p \in Peers, \/ OfferUnusable(p) \/ OfferTerminal(p) \/ OfferDuringSwitch(p)
                              \/ Negotiated(p) \/ OfferFails(p) \/ Recover(p)
      PROVE  GraceFits'
  <2>1. GraceAside
    BY <1>1, <1>y DEF OfferUnusable, OfferTerminal, OfferDuringSwitch, Negotiated, OfferFails,
       Recover, GraceAside, PhaseFits
  <2> QED BY <2>1, <1>a
<1>2. ASSUME NEW p \in Peers, Offer(p) PROVE GraceFits'
  <2>1. p # active BY <1>2, <1>y DEF Offer, OffersFresh
  <2>2. GraceAside BY <1>2, <2>1, <1>y DEF Offer, GraceAside, TypeOK
  <2> QED BY <2>2, <1>a
<1>3. ASSUME NEW p \in Peers, TransportEvent(p) PROVE GraceFits'
  <2>1. GraceAside
    BY <1>3, <1>c, <1>y DEF TransportEvent, TransportUp, TransportDown, GraceAside, TypeOK, Lost
  <2> QED BY <2>1, <1>a
<1>4. ASSUME NEW p \in Peers, CandidateLost(p) \/ NotificationIgnored(p) PROVE GraceFits'
  <2>1. GraceAside
    BY <1>4, <1>c DEF CandidateLost, NotificationIgnored, GraceAside, Lost
  <2> QED BY <2>1, <1>a
<1>5. ASSUME NEW p \in Peers, BeginReconnect(p) PROVE GraceFits'
  BY <1>5 DEF BeginReconnect, GraceFits
<1>6. ASSUME NEW p \in Peers, CloseOwned(p) PROVE GraceFits'
  <2>1. (conn' = conn /\ notified' = notified) \/ ClosePeers({p})
    BY <1>6 DEF CloseOwned
  <2>2. GraceAside BY <1>6, <2>1, <1>c DEF CloseOwned, ClosePeers, GraceAside, Lost
  <2> QED BY <2>2, <1>a
<1>7. ASSUME NEW g \in Generations, Decision(g) PROVE GraceFits'
  <2>1. GraceAside
    BY <1>7 DEF Decision, DecisionAnswered, RejectDecision, Promote, BeginSwitch, GraceAside
  <2> QED BY <2>1, <1>a
<1>8. ASSUME \/ SwitchTask \/ TerminalStep PROVE GraceFits'
  <2>1. GraceAside
    BY <1>8, <1>y
    DEF SwitchTask, SwitchStep, CommitSwitch, FailSwitch, SwitchLost, TerminalStep,
       TransitionTerminal, GraceAside, PhaseFits
  <2> QED BY <2>1, <1>a
<1>9. ASSUME \/ CandidateTimeout \/ GraceExpires \/ SpeechStarts \/ SpeechEnds \/ LeaseInstalled
             \/ End \/ PassEnds \/ Publish \/ UNCHANGED vars
             \/ \E b \in Backfills : BackfillAdmit(b) \/ BackfillDone(b)
      PROVE  GraceFits'
  <2>1. GraceAside
    BY <1>9 DEF CandidateTimeout, GraceExpires, SpeechStarts, SpeechEnds, LeaseInstalled, End,
       PassEnds, Publish, vars, BackfillAdmit, BackfillDone, TransitionTerminal, GraceAside
  <2> QED BY <2>1, <1>a
<1> HIDE DEF life, media, net, handlers, closes, terminal
<1> QED BY <1>1, <1>2, <1>3, <1>4, <1>5, <1>6, <1>7, <1>8, <1>9
        DEF Next, Handle, Terminate

LEMMA GraceSpares ==
  ASSUME PeersInv, GraceFits, [Next]_vars, phase = "reconnecting", phase' = "terminal", ~End
  PROVE  Admitted = {} /\ (conn[active] \in Lost \/ active \in notified)
<1>1. conn[active] \in Lost \/ active \in notified BY DEF GraceFits
<1>2. ASSUME NEW p \in Peers,
             \/ OfferUnusable(p) \/ OfferTerminal(p) \/ OfferDuringSwitch(p) \/ Offer(p)
             \/ Negotiated(p) \/ OfferFails(p) \/ TransportEvent(p) \/ Handle(p) \/ CloseOwned(p)
      PROVE  FALSE
  BY <1>2 DEF OfferUnusable, OfferTerminal, OfferDuringSwitch, Offer, Negotiated, OfferFails,
     TransportEvent, TransportUp, TransportDown, Handle, CandidateLost, NotificationIgnored,
     BeginReconnect, Recover, CloseOwned, life
<1>3. ASSUME NEW g \in Generations, Decision(g) PROVE FALSE
  BY <1>3 DEF Decision, DecisionAnswered, RejectDecision, Promote, BeginSwitch, life
<1>4. ASSUME \/ CandidateTimeout \/ SwitchTask \/ SpeechStarts \/ SpeechEnds \/ LeaseInstalled
             \/ Terminate \/ UNCHANGED vars
             \/ \E b \in Backfills : BackfillAdmit(b) \/ BackfillDone(b)
      PROVE  FALSE
  BY <1>4 DEF CandidateTimeout, SwitchTask, SwitchStep, CommitSwitch, FailSwitch, SwitchLost,
     SpeechStarts, SpeechEnds, LeaseInstalled, Terminate, TerminalStep, PassEnds, Publish,
     BackfillAdmit, BackfillDone, life, vars
<1>5. GraceExpires BY <1>2, <1>3, <1>4 DEF Next
<1>6. Admitted = {} BY <1>5 DEF GraceExpires
<1> QED BY <1>1, <1>6

-----------------------------------------------------------------------------
(* The theorems.                                                            *)

CallInv == PeersInv /\ EngineInv /\ DecisionInv /\ GraceFits

LEMMA CallStarts == ASSUME Init PROVE CallInv
<1>1. PeersInv BY PeersStart
<1>2. EngineInv BY DEF Init, EngineInv, EngineFits, SwitchClears
<1>3. DecisionInv
  <2>1. 0 \in Generations BY PeersAssumption, FS_CardinalityType DEF Generations
  <2>2. \A g \in Generations : ~Refused(g) /\ "committed" \notin answers[g]
    BY DEF Init, Refused
  <2>3. RefusalsHold /\ CommitsHold BY <2>2 DEF RefusalsHold, CommitsHold
  <2>4. DecidedFits BY DEF Init, DecidedFits
  <2> QED BY <2>3, <2>4 DEF DecisionInv
<1>4. GraceFits BY DEF Init, GraceFits
<1> QED BY <1>1, <1>2, <1>3, <1>4 DEF CallInv

LEMMA CallKept == ASSUME CallInv, [Next]_vars PROVE CallInv'
<1>1. PeersInv' BY PeersKept DEF CallInv
<1>2. EngineInv' BY EngineKept DEF CallInv
<1>3. DecisionInv' BY <1>1, DecisionsKept DEF CallInv
<1>4. GraceFits' BY GraceKept DEF CallInv
<1> QED BY <1>1, <1>2, <1>3, <1>4 DEF CallInv

LEMMA CallHolds == Spec => []CallInv
BY CallStarts, CallKept, PTL DEF Spec

\* However offers, timeouts, rejections, losses, switches and the end interleave, a peer in
\* use was not closed and none is being closed, and each peer that was made is in use, owned
\* by a cleanup, closed or on record (_PeerLifecycle, _owned_peer_cleanup_tasks,
\* _TerminalCleanup).
THEOREM ThePeersAreAccounted == Spec => []PeersAreAccounted
<1>1. CallInv => PeersAreAccounted
  <2> SUFFICES ASSUME CallInv PROVE PeersAreAccounted
    OBVIOUS
  <2>1. PeersInv BY DEF CallInv
  <2>2. InUseIsOpen
    BY <2>1 DEF PeersInv, ActiveFits, CandidateFits, SwitchFits, Retired, InUseIsOpen
  <2> QED BY <2>1, <2>2 DEF PeersInv, PeersAreAccounted
<1> QED BY <1>1, CallHolds, PTL

\* A switch of the peer changes the engine of the speech and of the lease as a whole, and
\* no generation is told both that it was committed and that it was refused
\* (_finish_peer_switch, _peer_switch_generation_outcome).
THEOREM TheSwitchIsAtomic == Spec => []SwitchIsAtomic
<1>1. CallInv => SwitchIsAtomic
  <2> SUFFICES ASSUME CallInv PROVE SwitchIsAtomic
    OBVIOUS
  <2>1. EngineIsUniform BY DEF CallInv, EngineInv, EngineFits, EngineIsUniform
  <2>2. DecisionsAgree
    <3> SUFFICES ASSUME NEW g \in Generations
                 PROVE  /\ Refused(g) => "committed" \notin answers[g] /\ g # activeGen
                        /\ "committed" \in answers[g] => g <= activeGen
      BY DEF DecisionsAgree, Refused
    <3> QED BY DEF CallInv, DecisionInv, RefusalsHold, CommitsHold
  <2> QED BY <2>1, <2>2 DEF SwitchIsAtomic
<1> QED BY <1>1, CallHolds, PTL

\* The grace ends a call only while its transport is down, as far as the session was told,
\* and no recorded audio is being taken in (resolve_deferred_connection_state).
THEOREM TheGraceSpares == Spec => GraceSparesLiveCalls
<1>1. CallInv /\ [Next]_vars =>
        [(phase = "reconnecting" /\ phase' = "terminal" /\ ~End)
           => Admitted = {} /\ (conn[active] \in Lost \/ active \in notified)]_vars
  BY GraceSpares DEF CallInv
<1> QED BY <1>1, CallHolds, PTL DEF Spec, GraceSparesLiveCalls

=============================================================================
