------------------------- MODULE PromptLeaseProofs -------------------------
(***************************************************************************)
(* Proofs about PromptLease, for every set of calls, requests, evictions   *)
(* and prompts and every limit on retries.                                 *)
(***************************************************************************)
EXTENDS PromptLease, TLAPS

\* A handoff belongs to a call, and its request is answered.
HandsFollow ==
    \A r \in Requests :
        hand[r] # "none" => asked[r].call \in Calls /\ pc[r] \in {"granted", "done"}

\* The cleanup of an end means an end, and a switch is under way in its phase only.
PhasesFit ==
    \A c \in Calls : /\ ending[c] # "none" => phase[c] = "terminal"
                     /\ switch[c].step # "none" => phase[c] = "switching"

\* A request that waits to prepare a prompt, or aligns one, has it in mind.
WantsFit ==
    \A r \in Requests : /\ pc[r] = "idle" => want[r] = None
                        /\ pc[r] \in {"waiting", "aligning"} => want[r] \in Prompts

LeaseInv == TypeOK /\ HandsFollow /\ PhasesFit /\ WantsFit /\ NoLeaseIsOrphaned

\* The types, of the manager with the adapter and the locks, of the requests, and of the calls.
TypeManager ==
    /\ resident \in {"qwen", "other", None}
    /\ selected \in [voice : Voices \cup {None},
                     state : {"none", "prewarming", "ready", "failed"}]
    /\ selKey \in Prompts \cup {None}
    /\ owners \subseteq Calls /\ leaseOf \in Prompts \cup {None}
    /\ held \in Prompts \cup {None} /\ streaming \in Calls \cup {None}
    /\ prepLock \in Requests \cup Evictions \cup {None}
    /\ switchLock \in Requests \cup {None}
TypePlaces ==
    /\ pc \in [Actors -> {"idle", "waiting", "aligning", "lock", "unloading", "unloaded",
                          "loading", "prewarming", "warmed", "refused",
                          "died", "granted", "preview", "contain", "evicting", "done"}]
    /\ want \in [Requests \cup Evictions -> Prompts \cup {None}]
TypeHands ==
    /\ asked \in [Requests -> [call : Calls \cup {None}, epoch : Nat]]
    /\ hand \in [Requests -> {"none", "pending", "installed", "releasing", "released",
                              "exhausted"}]
    /\ tries \in [Requests \cup Calls -> Nat]
TypeCalls ==
    /\ phase \in [Calls -> {"stable", "reconnecting", "switching", "terminal"}]
    /\ epoch \in [Calls -> Nat]
    /\ engine \in [Calls -> {"qwen", "other"}] /\ voice \in [Calls -> Voices]
    /\ installed \in [Calls -> Requests \cup {None}]
TypeSwitches ==
    /\ switch \in [Calls -> [step : {"none", "cleanup", "releasing"},
                             to : Configs, releaser : Requests \cup {None}]]
    /\ ending \in [Calls -> {"none", "pending", "released", "exhausted"}]
    /\ speech \in [Calls -> [step : {"idle", "checked", "speaking"},
                             prompt : Prompts \cup {None}]]

LEMMA Types == TypeOK <=> TypeManager /\ TypePlaces /\ TypeHands /\ TypeCalls /\ TypeSwitches
BY DEF TypeOK, TypeManager, TypePlaces, TypeHands, TypeCalls, TypeSwitches

\* What a call that ends, or whose switch is committed, keeps of its types
SwitchRecords == [step : {"none", "cleanup", "releasing"}, to : Configs,
                  releaser : Requests \cup {None}]

LEMMA NoSwitchFits == NoSwitch \in SwitchRecords
BY DEF NoSwitch, SwitchRecords, Configs

LEMMA EndTypes ==
  ASSUME TypeCalls, TypeSwitches, NEW c \in Calls, End(c), UNCHANGED speech
  PROVE  TypeCalls' /\ TypeSwitches'
<1>1. TypeCalls' BY DEF End, TypeCalls
<1>2. switch \in [Calls -> SwitchRecords] /\ ending \in [Calls -> {"none", "pending", "released", "exhausted"}]
  BY DEF TypeSwitches, SwitchRecords
<1>3. switch' \in [Calls -> SwitchRecords] BY <1>2, NoSwitchFits DEF End
<1>4. ending' \in [Calls -> {"none", "pending", "released", "exhausted"}] BY <1>2 DEF End
<1>5. TypeSwitches' BY <1>3, <1>4 DEF TypeSwitches, SwitchRecords
<1> QED BY <1>1, <1>5

LEMMA CommitTypes ==
  ASSUME TypeCalls, TypeSwitches, NEW c \in Calls, Commit(c), UNCHANGED speech,
         installed' \in [Calls -> Requests \cup {None}]
  PROVE  TypeCalls' /\ TypeSwitches'
<1>1. switch \in [Calls -> SwitchRecords] BY DEF TypeSwitches, SwitchRecords
<1>2. switch[c].to \in Configs BY <1>1 DEF SwitchRecords
<1>3. TypeCalls' BY <1>2 DEF Commit, TypeCalls, Configs
<1>4. switch' \in [Calls -> SwitchRecords] BY <1>1, NoSwitchFits DEF Commit
<1>5. TypeSwitches' BY <1>4 DEF Commit, TypeSwitches, SwitchRecords
<1> QED BY <1>3, <1>5

LEMMA TypesKept == ASSUME TypeOK, WantsFit, [Next]_vars PROVE TypeOK'
<1> USE LeaseConstants DEF manager, adapter, locks, requests, session, Actors
<1>t. TypeManager /\ TypePlaces /\ TypeHands /\ TypeCalls /\ TypeSwitches BY Types
<1>q. TypeManager' /\ TypePlaces' /\ TypeHands' /\ TypeCalls' /\ TypeSwitches' => TypeOK'
  BY DEF TypeOK, TypeManager, TypePlaces, TypeHands, TypeCalls, TypeSwitches
<1>1. ASSUME NEW r \in Requests, Reserve(r) PROVE TypeOK'
  <2>1. TypeManager' BY <1>1, <1>t DEF Reserve, TypeManager
  <2>2. TypePlaces' BY <1>1, <1>t DEF Reserve, TypePlaces
  <2>3. TypeHands'
    <3>1. PICK c \in Calls : asked' = [asked EXCEPT ![r] = [call |-> c, epoch |-> epoch[c]]]
      BY <1>1 DEF Reserve
    <3>2. [call |-> c, epoch |-> epoch[c]] \in [call : Calls \cup {None}, epoch : Nat]
      BY <1>t DEF TypeCalls
    <3>3. UNCHANGED <<hand, tries>> BY <1>1 DEF Reserve
    <3> QED BY <3>1, <3>2, <3>3, <1>t DEF TypeHands
  <2>4. TypeCalls' BY <1>1, <1>t DEF Reserve, TypeCalls
  <2>5. TypeSwitches' BY <1>1, <1>t DEF Reserve, TypeSwitches
  <2> QED BY <2>1, <2>2, <2>3, <2>4, <2>5, <1>q
<1>2. ASSUME NEW r \in Requests, AskPreview(r) PROVE TypeOK'
  <2>1. TypeManager' BY <1>2, <1>t DEF AskPreview, TypeManager
  <2>2. TypePlaces' BY <1>2, <1>t DEF AskPreview, TypePlaces
  <2>3. TypeHands' BY <1>2, <1>t DEF AskPreview, TypeHands
  <2>4. TypeCalls' BY <1>2, <1>t DEF AskPreview, TypeCalls
  <2>5. TypeSwitches' BY <1>2, <1>t DEF AskPreview, TypeSwitches
  <2> QED BY <2>1, <2>2, <2>3, <2>4, <2>5, <1>q
<1>3. ASSUME NEW r \in Requests, RefuseCompetitor(r) PROVE TypeOK'
  <2>1. TypeManager' BY <1>3, <1>t DEF RefuseCompetitor, TypeManager
  <2>2. TypePlaces' BY <1>3, <1>t DEF RefuseCompetitor, TypePlaces
  <2>3. TypeHands' BY <1>3, <1>t DEF RefuseCompetitor, TypeHands
  <2>4. TypeCalls' BY <1>3, <1>t DEF RefuseCompetitor, TypeCalls
  <2>5. TypeSwitches' BY <1>3, <1>t DEF RefuseCompetitor, TypeSwitches
  <2> QED BY <2>1, <2>2, <2>3, <2>4, <2>5, <1>q
<1>4. ASSUME NEW r \in Requests, AnswerReady(r) PROVE TypeOK'
  <2>1. TypeManager'
    <3>1. asked[r].call \in Calls \cup {None} /\ want[r] \in Prompts \cup {None}
      BY <1>t DEF TypeHands, TypePlaces
    <3> QED BY <1>4, <3>1, <1>t DEF AnswerReady, Grant, TypeManager
  <2>2. TypePlaces' BY <1>4, <1>t DEF AnswerReady, Grant, Answer, TypePlaces
  <2>3. TypeHands' BY <1>4, <1>t DEF AnswerReady, Grant, Answer, TypeHands
  <2>4. TypeCalls' BY <1>4, <1>t DEF AnswerReady, Grant, Answer, TypeCalls
  <2>5. TypeSwitches' BY <1>4, <1>t DEF AnswerReady, Grant, Answer, TypeSwitches
  <2> QED BY <2>1, <2>2, <2>3, <2>4, <2>5, <1>q
<1>5. ASSUME NEW r \in Requests, StartPreparation(r) PROVE TypeOK'
  <2>1. TypeManager' BY <1>5, <1>t DEF WantsFit, Voices, StartPreparation, TypeManager
  <2>2. TypePlaces' BY <1>5, <1>t DEF StartPreparation, TypePlaces
  <2>3. TypeHands' BY <1>5, <1>t DEF StartPreparation, TypeHands
  <2>4. TypeCalls' BY <1>5, <1>t DEF StartPreparation, TypeCalls
  <2>5. TypeSwitches' BY <1>5, <1>t DEF StartPreparation, TypeSwitches
  <2> QED BY <2>1, <2>2, <2>3, <2>4, <2>5, <1>q
<1>6. ASSUME NEW r \in Requests, AlignmentRefused(r) PROVE TypeOK'
  <2>1. TypeManager' BY <1>6, <1>t DEF AlignmentRefused, TypeManager
  <2>2. TypePlaces' BY <1>6, <1>t DEF AlignmentRefused, TypePlaces
  <2>3. TypeHands' BY <1>6, <1>t DEF AlignmentRefused, TypeHands
  <2>4. TypeCalls' BY <1>6, <1>t DEF AlignmentRefused, TypeCalls
  <2>5. TypeSwitches' BY <1>6, <1>t DEF AlignmentRefused, TypeSwitches
  <2> QED BY <2>1, <2>2, <2>3, <2>4, <2>5, <1>q
<1>7. ASSUME NEW r \in Requests, Aligned(r) PROVE TypeOK'
  <2>1. TypeManager' BY <1>7, <1>t DEF Aligned, TypeManager
  <2>2. TypePlaces' BY <1>7, <1>t DEF Aligned, TypePlaces
  <2>3. TypeHands' BY <1>7, <1>t DEF Aligned, TypeHands
  <2>4. TypeCalls' BY <1>7, <1>t DEF Aligned, TypeCalls
  <2>5. TypeSwitches' BY <1>7, <1>t DEF Aligned, TypeSwitches
  <2> QED BY <2>1, <2>2, <2>3, <2>4, <2>5, <1>q
<1>8. ASSUME NEW r \in Requests, Prewarm(r) PROVE TypeOK'
  <2>1. TypeManager' BY <1>8, <1>t DEF TypePlaces, TypeHands, Prewarm, TypeManager
  <2>2. TypePlaces' BY <1>8, <1>t DEF Prewarm, TypePlaces
  <2>3. TypeHands' BY <1>8, <1>t DEF Prewarm, TypeHands
  <2>4. TypeCalls' BY <1>8, <1>t DEF Prewarm, TypeCalls
  <2>5. TypeSwitches' BY <1>8, <1>t DEF Prewarm, TypeSwitches
  <2> QED BY <2>1, <2>2, <2>3, <2>4, <2>5, <1>q
<1>9. ASSUME NEW r \in Requests, Prepared(r) PROVE TypeOK'
  <2>1. TypeManager' BY <1>9, <1>t DEF TypePlaces, TypeHands, Prepared, Grant, Answer, TypeManager
  <2>2. TypePlaces' BY <1>9, <1>t DEF Prepared, Grant, Answer, TypePlaces
  <2>3. TypeHands' BY <1>9, <1>t DEF Prepared, Grant, Answer, TypeHands
  <2>4. TypeCalls' BY <1>9, <1>t DEF Prepared, Grant, Answer, TypeCalls
  <2>5. TypeSwitches' BY <1>9, <1>t DEF Prepared, Grant, Answer, TypeSwitches
  <2> QED BY <2>1, <2>2, <2>3, <2>4, <2>5, <1>q
<1>10. ASSUME NEW r \in Requests, PrewarmFailed(r) PROVE TypeOK'
  <2>1. TypeManager' BY <1>10, <1>t DEF PrewarmFailed, Contain, TypeManager
  <2>2. TypePlaces' BY <1>10, <1>t DEF PrewarmFailed, Contain, TypePlaces
  <2>3. TypeHands' BY <1>10, <1>t DEF PrewarmFailed, Contain, TypeHands
  <2>4. TypeCalls' BY <1>10, <1>t DEF PrewarmFailed, Contain, TypeCalls
  <2>5. TypeSwitches' BY <1>10, <1>t DEF PrewarmFailed, Contain, TypeSwitches
  <2> QED BY <2>1, <2>2, <2>3, <2>4, <2>5, <1>q
<1>11. ASSUME NEW r \in Requests, PreviewStream(r) PROVE TypeOK'
  <2>1. TypeManager' BY <1>11, <1>t DEF PreviewStream, TypeManager
  <2>2. TypePlaces' BY <1>11, <1>t DEF PreviewStream, TypePlaces
  <2>3. TypeHands' BY <1>11, <1>t DEF PreviewStream, TypeHands
  <2>4. TypeCalls' BY <1>11, <1>t DEF PreviewStream, TypeCalls
  <2>5. TypeSwitches' BY <1>11, <1>t DEF PreviewStream, TypeSwitches
  <2> QED BY <2>1, <2>2, <2>3, <2>4, <2>5, <1>q
<1>12. ASSUME NEW r \in Requests, PreviewContain(r) PROVE TypeOK'
  <2>1. TypeManager' BY <1>12, <1>t DEF PreviewContain, Contain, TypeManager
  <2>2. TypePlaces' BY <1>12, <1>t DEF PreviewContain, Contain, TypePlaces
  <2>3. TypeHands' BY <1>12, <1>t DEF PreviewContain, Contain, TypeHands
  <2>4. TypeCalls' BY <1>12, <1>t DEF PreviewContain, Contain, TypeCalls
  <2>5. TypeSwitches' BY <1>12, <1>t DEF PreviewContain, Contain, TypeSwitches
  <2> QED BY <2>1, <2>2, <2>3, <2>4, <2>5, <1>q
<1>13. ASSUME NEW r \in Requests, Install(r) PROVE TypeOK'
  <2>1. TypeManager' BY <1>13, <1>t DEF Install, TypeManager
  <2>2. TypePlaces' BY <1>13, <1>t DEF Install, TypePlaces
  <2>3. TypeHands' BY <1>13, <1>t DEF Install, TypeHands
  <2>4. TypeCalls' BY <1>13, <1>t DEF Install, TypeCalls
  <2>5. TypeSwitches' BY <1>13, <1>t DEF Install, TypeSwitches
  <2> QED BY <2>1, <2>2, <2>3, <2>4, <2>5, <1>q
<1>14. ASSUME NEW r \in Requests, Disown(r) PROVE TypeOK'
  <2>1. TypeManager' BY <1>14, <1>t DEF Disown, TypeManager
  <2>2. TypePlaces' BY <1>14, <1>t DEF Disown, TypePlaces
  <2>3. TypeHands' BY <1>14, <1>t DEF Disown, TypeHands
  <2>4. TypeCalls' BY <1>14, <1>t DEF Disown, TypeCalls
  <2>5. TypeSwitches' BY <1>14, <1>t DEF Disown, TypeSwitches
  <2> QED BY <2>1, <2>2, <2>3, <2>4, <2>5, <1>q
<1>15. ASSUME NEW r \in Requests, CleanupRelease(r) PROVE TypeOK'
  <2>1. TypeManager' BY <1>15, <1>t DEF CleanupRelease, Release, TypeManager
  <2>2. TypePlaces' BY <1>15, <1>t DEF CleanupRelease, Release, TypePlaces
  <2>3. TypeHands' BY <1>15, <1>t DEF CleanupRelease, Release, TypeHands
  <2>4. TypeCalls' BY <1>15, <1>t DEF CleanupRelease, Release, TypeCalls
  <2>5. TypeSwitches' BY <1>15, <1>t DEF CleanupRelease, Release, TypeSwitches
  <2> QED BY <2>1, <2>2, <2>3, <2>4, <2>5, <1>q
<1>16. ASSUME NEW r \in Requests, CleanupTimeout(r) PROVE TypeOK'
  <2>1. TypeManager' BY <1>16, <1>t DEF CleanupTimeout, TypeManager
  <2>2. TypePlaces' BY <1>16, <1>t DEF CleanupTimeout, TypePlaces
  <2>3. TypeHands' BY <1>16, <1>t DEF CleanupTimeout, TypeHands
  <2>4. TypeCalls' BY <1>16, <1>t DEF CleanupTimeout, TypeCalls
  <2>5. TypeSwitches' BY <1>16, <1>t DEF CleanupTimeout, TypeSwitches
  <2> QED BY <2>1, <2>2, <2>3, <2>4, <2>5, <1>q
<1>17. ASSUME NEW r \in Requests, AskSwitch(r) PROVE TypeOK'
  <2>1. TypeManager' BY <1>17, <1>t DEF AskSwitch, TypeManager
  <2>2. TypePlaces' BY <1>17, <1>t DEF AskSwitch, TypePlaces
  <2>3. TypeHands' BY <1>17, <1>t DEF AskSwitch, TypeHands
  <2>4. TypeCalls' BY <1>17, <1>t DEF AskSwitch, TypeCalls
  <2>5. TypeSwitches' BY <1>17, <1>t DEF AskSwitch, TypeSwitches
  <2> QED BY <2>1, <2>2, <2>3, <2>4, <2>5, <1>q
<1>18. ASSUME NEW r \in Requests, SwitchNothing(r) PROVE TypeOK'
  <2>1. TypeManager' BY <1>18, <1>t DEF TypePlaces, SwitchNothing, Switched, TypeManager
  <2>2. TypePlaces' BY <1>18, <1>t DEF SwitchNothing, Switched, TypePlaces
  <2>3. TypeHands' BY <1>18, <1>t DEF SwitchNothing, Switched, TypeHands
  <2>4. TypeCalls' BY <1>18, <1>t DEF SwitchNothing, Switched, TypeCalls
  <2>5. TypeSwitches' BY <1>18, <1>t DEF SwitchNothing, Switched, TypeSwitches
  <2> QED BY <2>1, <2>2, <2>3, <2>4, <2>5, <1>q
<1>19. ASSUME NEW r \in Requests, SwitchBegin(r) PROVE TypeOK'
  <2>1. TypeManager' BY <1>19, <1>t DEF SwitchBegin, TypeManager
  <2>2. TypePlaces' BY <1>19, <1>t DEF SwitchBegin, TypePlaces
  <2>3. TypeHands' BY <1>19, <1>t DEF SwitchBegin, TypeHands
  <2>4. TypeCalls' BY <1>19, <1>t DEF SwitchBegin, TypeCalls
  <2>5. TypeSwitches' BY <1>19, <1>t DEF SwitchBegin, TypeSwitches
  <2> QED BY <2>1, <2>2, <2>3, <2>4, <2>5, <1>q
<1>20. ASSUME NEW r \in Requests, SwitchUnload(r) PROVE TypeOK'
  <2>1. TypeManager' BY <1>20, <1>t DEF SwitchUnload, TypeManager
  <2>2. TypePlaces' BY <1>20, <1>t DEF SwitchUnload, TypePlaces
  <2>3. TypeHands' BY <1>20, <1>t DEF SwitchUnload, TypeHands
  <2>4. TypeCalls' BY <1>20, <1>t DEF SwitchUnload, TypeCalls
  <2>5. TypeSwitches' BY <1>20, <1>t DEF SwitchUnload, TypeSwitches
  <2> QED BY <2>1, <2>2, <2>3, <2>4, <2>5, <1>q
<1>21. ASSUME NEW r \in Requests, SwitchForget(r) PROVE TypeOK'
  <2>1. TypeManager' BY <1>21, <1>t DEF SwitchForget, NoPrompt, TypeManager
  <2>2. TypePlaces' BY <1>21, <1>t DEF SwitchForget, NoPrompt, TypePlaces
  <2>3. TypeHands' BY <1>21, <1>t DEF SwitchForget, NoPrompt, TypeHands
  <2>4. TypeCalls' BY <1>21, <1>t DEF SwitchForget, NoPrompt, TypeCalls
  <2>5. TypeSwitches' BY <1>21, <1>t DEF SwitchForget, NoPrompt, TypeSwitches
  <2> QED BY <2>1, <2>2, <2>3, <2>4, <2>5, <1>q
<1>22. ASSUME NEW r \in Requests, SwitchLoad(r) PROVE TypeOK'
  <2>1. TypeManager' BY <1>22, <1>t DEF SwitchLoad, Switched, Target, TypeManager
  <2>2. TypePlaces' BY <1>22, <1>t DEF SwitchLoad, Switched, Target, TypePlaces
  <2>3. TypeHands' BY <1>22, <1>t DEF SwitchLoad, Switched, Target, TypeHands
  <2>4. TypeCalls' BY <1>22, <1>t DEF SwitchLoad, Switched, Target, TypeCalls
  <2>5. TypeSwitches' BY <1>22, <1>t DEF SwitchLoad, Switched, Target, TypeSwitches
  <2> QED BY <2>1, <2>2, <2>3, <2>4, <2>5, <1>q
<1>23. ASSUME NEW e \in Evictions, AskEviction(e) PROVE TypeOK'
  <2>1. TypeManager' BY <1>23, <1>t DEF AskEviction, TypeManager
  <2>2. TypePlaces' BY <1>23, <1>t DEF AskEviction, TypePlaces
  <2>3. TypeHands' BY <1>23, <1>t DEF AskEviction, TypeHands
  <2>4. TypeCalls' BY <1>23, <1>t DEF AskEviction, TypeCalls
  <2>5. TypeSwitches' BY <1>23, <1>t DEF AskEviction, TypeSwitches
  <2> QED BY <2>1, <2>2, <2>3, <2>4, <2>5, <1>q
<1>24. ASSUME NEW e \in Evictions, Evict(e) PROVE TypeOK'
  <2>1. TypeManager' BY <1>24, <1>t DEF Evict, Contain, NoPrompt, TypeManager
  <2>2. TypePlaces' BY <1>24, <1>t DEF Evict, Contain, NoPrompt, TypePlaces
  <2>3. TypeHands' BY <1>24, <1>t DEF Evict, Contain, NoPrompt, TypeHands
  <2>4. TypeCalls' BY <1>24, <1>t DEF Evict, Contain, NoPrompt, TypeCalls
  <2>5. TypeSwitches' BY <1>24, <1>t DEF Evict, Contain, NoPrompt, TypeSwitches
  <2> QED BY <2>1, <2>2, <2>3, <2>4, <2>5, <1>q
<1>25. ASSUME NEW c \in Calls, LoseTransport(c) PROVE TypeOK'
  <2>1. TypeManager' BY <1>25, <1>t DEF LoseTransport, TypeManager
  <2>2. TypePlaces' BY <1>25, <1>t DEF LoseTransport, TypePlaces
  <2>3. TypeHands' BY <1>25, <1>t DEF LoseTransport, TypeHands
  <2>4. TypeCalls' BY <1>25, <1>t DEF LoseTransport, TypeCalls
  <2>5. TypeSwitches' BY <1>25, <1>t DEF LoseTransport, TypeSwitches
  <2> QED BY <2>1, <2>2, <2>3, <2>4, <2>5, <1>q
<1>26. ASSUME NEW c \in Calls, Reconnect(c) PROVE TypeOK'
  <2>1. TypeManager' BY <1>26, <1>t DEF Reconnect, TypeManager
  <2>2. TypePlaces' BY <1>26, <1>t DEF Reconnect, TypePlaces
  <2>3. TypeHands' BY <1>26, <1>t DEF Reconnect, TypeHands
  <2>4. TypeCalls' BY <1>26, <1>t DEF Reconnect, TypeCalls
  <2>5. TypeSwitches' BY <1>26, <1>t DEF Reconnect, TypeSwitches
  <2> QED BY <2>1, <2>2, <2>3, <2>4, <2>5, <1>q
<1>27. ASSUME NEW c \in Calls, BeginSwitch(c) PROVE TypeOK'
  <2>1. TypeManager' BY <1>27, <1>t DEF BeginSwitch, TypeManager
  <2>2. TypePlaces' BY <1>27, <1>t DEF BeginSwitch, TypePlaces
  <2>3. TypeHands' BY <1>27, <1>t DEF BeginSwitch, TypeHands
  <2>4. TypeCalls' BY <1>27, <1>t DEF BeginSwitch, TypeCalls
  <2>5. TypeSwitches'
    <3>1. PICK to \in Configs :
             switch' = [switch EXCEPT ![c] = [step |-> "cleanup", to |-> to,
                          releaser |-> IF to = None THEN installed[c] ELSE None]]
      BY <1>27 DEF BeginSwitch
    <3>2. installed[c] \in Requests \cup {None} BY <1>t DEF TypeCalls
    <3>3. [step |-> "cleanup", to |-> to, releaser |-> IF to = None THEN installed[c] ELSE None]
             \in SwitchRecords
      BY <3>2 DEF SwitchRecords
    <3>4. UNCHANGED <<ending, speech>> BY <1>27 DEF BeginSwitch
    <3>5. switch \in [Calls -> SwitchRecords] BY <1>t DEF TypeSwitches, SwitchRecords
    <3>6. switch' \in [Calls -> SwitchRecords] BY <3>1, <3>3, <3>5
    <3> QED BY <3>4, <3>6, <1>t DEF TypeSwitches, SwitchRecords
  <2> QED BY <2>1, <2>2, <2>3, <2>4, <2>5, <1>q
<1>28. ASSUME NEW c \in Calls, FinishSwitch(c) PROVE TypeOK'
  <2>1. TypeManager' BY <1>28, <1>t DEF FinishSwitch, End, Commit, NoSwitch, TypeManager
  <2>2. TypePlaces' BY <1>28, <1>t DEF FinishSwitch, End, Commit, NoSwitch, TypePlaces
  <2>3. TypeHands' BY <1>28, <1>t DEF FinishSwitch, End, Commit, NoSwitch, TypeHands
  <2>0. /\ \/ End(c)
           \/ Commit(c) /\ UNCHANGED installed
           \/ /\ switch' = [switch EXCEPT ![c].step = "releasing"]
              /\ UNCHANGED <<phase, epoch, engine, voice, installed, ending>>
        /\ UNCHANGED speech
        /\ switch[c].to \in Configs
    BY <1>28, <1>t DEF FinishSwitch, TypeSwitches
  <2>4. TypeCalls' /\ TypeSwitches'
    <3>1. CASE End(c) BY <3>1, <2>0, <1>t, EndTypes
    <3>2. CASE Commit(c) /\ UNCHANGED installed
      BY <3>2, <2>0, <1>t, CommitTypes DEF TypeCalls
    <3>3. CASE /\ switch' = [switch EXCEPT ![c].step = "releasing"]
               /\ UNCHANGED <<phase, epoch, engine, voice, installed, ending>>
      <4> DEFINE new == [switch[c] EXCEPT !.step = "releasing"]
      <4>1. switch \in [Calls -> SwitchRecords] BY <1>t DEF TypeSwitches, SwitchRecords
      <4>2. new \in SwitchRecords BY <4>1 DEF SwitchRecords
      <4>3. switch' = [switch EXCEPT ![c] = new] BY <3>3
      <4> HIDE DEF new
      <4>4. switch' \in [Calls -> SwitchRecords] BY <4>1, <4>2, <4>3
      <4>5. TypeSwitches' BY <4>4, <3>3, <2>0, <1>t DEF TypeSwitches, SwitchRecords
      <4>6. TypeCalls' BY <3>3, <1>t DEF TypeCalls
      <4> QED BY <4>5, <4>6
    <3> QED BY <2>0, <3>1, <3>2, <3>3
  <2> QED BY <2>1, <2>2, <2>3, <2>4, <1>q
<1>29. ASSUME NEW c \in Calls, SwitchRelease(c) PROVE TypeOK'
  <2>1. TypeManager' BY <1>29, <1>t DEF SwitchRelease, Release, Commit, NoSwitch, TypeManager
  <2>2. TypePlaces' BY <1>29, <1>t DEF SwitchRelease, Release, Commit, NoSwitch, TypePlaces
  <2>3. TypeHands' BY <1>29, <1>t DEF SwitchRelease, Release, Commit, NoSwitch, TypeHands
  <2>4. TypeCalls' /\ TypeSwitches'
    <3>1. installed' \in [Calls -> Requests \cup {None}]
      BY <1>29, <1>t DEF SwitchRelease, TypeCalls
    <3> QED BY <3>1, <1>29, <1>t, CommitTypes DEF SwitchRelease
  <2> QED BY <2>1, <2>2, <2>3, <2>4, <1>q
<1>30. ASSUME NEW c \in Calls, SwitchReleaseTimeout(c) PROVE TypeOK'
  <2>1. TypeManager' BY <1>30, <1>t DEF SwitchReleaseTimeout, End, NoSwitch, TypeManager
  <2>2. TypePlaces' BY <1>30, <1>t DEF SwitchReleaseTimeout, End, NoSwitch, TypePlaces
  <2>3. TypeHands' BY <1>30, <1>t DEF SwitchReleaseTimeout, End, NoSwitch, TypeHands
  <2>4. TypeCalls' /\ TypeSwitches' BY <1>30, <1>t, EndTypes DEF SwitchReleaseTimeout
  <2> QED BY <2>1, <2>2, <2>3, <2>4, <1>q
<1>31. ASSUME NEW c \in Calls, EndCall(c) PROVE TypeOK'
  <2>1. TypeManager' BY <1>31, <1>t DEF EndCall, End, NoSwitch, TypeManager
  <2>2. TypePlaces' BY <1>31, <1>t DEF EndCall, End, NoSwitch, TypePlaces
  <2>3. TypeHands' BY <1>31, <1>t DEF EndCall, End, NoSwitch, TypeHands
  <2>4. TypeCalls' /\ TypeSwitches' BY <1>31, <1>t, EndTypes DEF EndCall
  <2> QED BY <2>1, <2>2, <2>3, <2>4, <1>q
<1>32. ASSUME NEW c \in Calls, EndRelease(c) PROVE TypeOK'
  <2>1. TypeManager' BY <1>32, <1>t DEF EndRelease, Release, TypeManager
  <2>2. TypePlaces' BY <1>32, <1>t DEF EndRelease, Release, TypePlaces
  <2>3. TypeHands' BY <1>32, <1>t DEF EndRelease, Release, TypeHands
  <2>4. TypeCalls' BY <1>32, <1>t DEF EndRelease, Release, TypeCalls
  <2>5. TypeSwitches' BY <1>32, <1>t DEF EndRelease, Release, TypeSwitches
  <2> QED BY <2>1, <2>2, <2>3, <2>4, <2>5, <1>q
<1>33. ASSUME NEW c \in Calls, EndTimeout(c) PROVE TypeOK'
  <2>1. TypeManager' BY <1>33, <1>t DEF EndTimeout, TypeManager
  <2>2. TypePlaces' BY <1>33, <1>t DEF EndTimeout, TypePlaces
  <2>3. TypeHands' BY <1>33, <1>t DEF EndTimeout, TypeHands
  <2>4. TypeCalls' BY <1>33, <1>t DEF EndTimeout, TypeCalls
  <2>5. TypeSwitches' BY <1>33, <1>t DEF EndTimeout, TypeSwitches
  <2> QED BY <2>1, <2>2, <2>3, <2>4, <2>5, <1>q
<1>34. ASSUME NEW c \in Calls, AskSpeech(c) PROVE TypeOK'
  <2>1. TypeManager' BY <1>34, <1>t DEF AskSpeech, TypeManager
  <2>2. TypePlaces' BY <1>34, <1>t DEF AskSpeech, TypePlaces
  <2>3. TypeHands' BY <1>34, <1>t DEF AskSpeech, TypeHands
  <2>4. TypeCalls' BY <1>34, <1>t DEF AskSpeech, TypeCalls
  <2>5. TypeSwitches' BY <1>34, <1>t DEF AskSpeech, TypeSwitches
  <2> QED BY <2>1, <2>2, <2>3, <2>4, <2>5, <1>q
<1>35. ASSUME NEW c \in Calls, Generate(c) PROVE TypeOK'
  <2>1. TypeManager' BY <1>35, <1>t DEF Generate, TypeManager
  <2>2. TypePlaces' BY <1>35, <1>t DEF Generate, TypePlaces
  <2>3. TypeHands' BY <1>35, <1>t DEF Generate, TypeHands
  <2>4. TypeCalls' BY <1>35, <1>t DEF Generate, TypeCalls
  <2>5. TypeSwitches' BY <1>35, <1>t DEF Generate, TypeSwitches
  <2> QED BY <2>1, <2>2, <2>3, <2>4, <2>5, <1>q
<1>36. ASSUME NEW c \in Calls, SpeechRefused(c) PROVE TypeOK'
  <2>1. TypeManager' BY <1>36, <1>t DEF SpeechRefused, Silent, TypeManager
  <2>2. TypePlaces' BY <1>36, <1>t DEF SpeechRefused, Silent, TypePlaces
  <2>3. TypeHands' BY <1>36, <1>t DEF SpeechRefused, Silent, TypeHands
  <2>4. TypeCalls' BY <1>36, <1>t DEF SpeechRefused, Silent, TypeCalls
  <2>5. TypeSwitches' BY <1>36, <1>t DEF SpeechRefused, Silent, TypeSwitches
  <2> QED BY <2>1, <2>2, <2>3, <2>4, <2>5, <1>q
<1>37. ASSUME NEW c \in Calls, SpeechEnds(c) PROVE TypeOK'
  <2>1. TypeManager' BY <1>37, <1>t DEF SpeechEnds, Silent, TypeManager
  <2>2. TypePlaces' BY <1>37, <1>t DEF SpeechEnds, Silent, TypePlaces
  <2>3. TypeHands' BY <1>37, <1>t DEF SpeechEnds, Silent, TypeHands
  <2>4. TypeCalls' BY <1>37, <1>t DEF SpeechEnds, Silent, TypeCalls
  <2>5. TypeSwitches' BY <1>37, <1>t DEF SpeechEnds, Silent, TypeSwitches
  <2> QED BY <2>1, <2>2, <2>3, <2>4, <2>5, <1>q
<1>38. CASE UNCHANGED vars
  BY <1>38 DEF vars, TypeOK
<1> QED BY <1>1, <1>2, <1>3, <1>4, <1>5, <1>6, <1>7, <1>8, <1>9, <1>10, <1>11, <1>12, <1>13,
           <1>14, <1>15, <1>16, <1>17, <1>18, <1>19, <1>20, <1>21, <1>22, <1>23, <1>24, <1>25,
           <1>26, <1>27, <1>28, <1>29, <1>30, <1>31, <1>32, <1>33, <1>34, <1>35, <1>36, <1>37,
           <1>38 DEF Next

-----------------------------------------------------------------------------
(* No lease is orphaned.                                                    *)

\* A request, switcher or eviction that has no handoff goes on.
Walks ==
    /\ \E a \in Actors : /\ pc[a] \notin {"granted", "done"}
                         /\ \E place : /\ place \notin {"idle", "waiting"}
                                       /\ place = "aligning" => pc[a] = "waiting"
                                       /\ pc' = [pc EXCEPT ![a] = place]
    /\ \A r \in Requests : want'[r] = want[r]
    /\ UNCHANGED <<owners, asked, hand, phase, installed, switch, ending>>

LEMMA WalksKeep == ASSUME LeaseInv, TypeOK', Walks PROVE LeaseInv'
<1>0. PICK a \in Actors : /\ pc[a] \notin {"granted", "done"}
                          /\ \E place : /\ place \notin {"idle", "waiting"}
                                        /\ place = "aligning" => pc[a] = "waiting"
                                        /\ pc' = [pc EXCEPT ![a] = place]
  BY DEF Walks
<1>1. PICK place : /\ pc[a] \notin {"granted", "done"} /\ place \notin {"idle", "waiting"}
                   /\ place = "aligning" => pc[a] = "waiting"
                   /\ pc' = [pc EXCEPT ![a] = place]
  BY <1>0
<1>2. pc'[a] = place /\ \A r \in Requests : r # a => pc'[r] = pc[r]
  BY <1>1 DEF LeaseInv, TypeOK, Actors
<1>3. HandsFollow' BY <1>1, <1>2 DEF LeaseInv, HandsFollow, Walks
<1>4. PhasesFit' BY DEF LeaseInv, PhasesFit, Walks
<1>5. WantsFit' BY <1>1, <1>2 DEF LeaseInv, WantsFit, Walks
<1>6. NoLeaseIsOrphaned' BY DEF LeaseInv, NoLeaseIsOrphaned, Walks
<1> QED BY <1>3, <1>4, <1>5, <1>6 DEF LeaseInv

\* A call goes on that keeps its releaser and its cleanup, or the step is nobody's here.
Stays ==
    /\ UNCHANGED <<owners, pc, want, asked, hand, installed, ending>>
    /\ PhasesFit'

LEMMA StaysKeep == ASSUME LeaseInv, TypeOK', Stays PROVE LeaseInv'
BY DEF LeaseInv, HandsFollow, WantsFit, NoLeaseIsOrphaned, Stays

\* A request is made.
LEMMA AsksKeep ==
  ASSUME LeaseInv, TypeOK', NEW r \in Requests, Reserve(r) \/ AskPreview(r) PROVE LeaseInv'
<1> USE DEF manager, session
<1>t. TypeOK /\ HandsFollow BY DEF LeaseInv
<1>1. /\ pc[r] = "idle" /\ pc'[r] = "waiting" /\ \A x \in Requests : x # r => pc'[x] = pc[x]
      /\ UNCHANGED <<owners, hand, phase, installed, switch, ending>>
  BY <1>t DEF Reserve, AskPreview, TypeOK, Actors
<1>2. want'[r] \in Prompts /\ \A x \in Requests : x # r => want'[x] = want[x]
  <2>1. PICK p \in Wants[r] : want' = [want EXCEPT ![r] = p] BY DEF Reserve, AskPreview
  <2>2. p \in Prompts BY <2>1, LeaseConstants
  <2> QED BY <2>1, <2>2, <1>t DEF TypeOK
<1>3. \A x \in Requests : x # r => asked'[x] = asked[x]
  BY <1>t DEF Reserve, AskPreview, TypeOK
<1>4. hand[r] = "none" BY <1>1, <1>t DEF HandsFollow
<1>5. HandsFollow' BY <1>1, <1>3, <1>4, <1>t DEF HandsFollow
<1>6. PhasesFit' BY <1>1 DEF LeaseInv, PhasesFit
<1>7. WantsFit' BY <1>1, <1>2 DEF LeaseInv, WantsFit
<1>8. NoLeaseIsOrphaned'
  <2> SUFFICES ASSUME NEW c \in owners, installed[c] = None,
                      ending[c] \notin {"pending", "exhausted"}
               PROVE  \E x \in Requests :
                         asked'[x].call = c /\ hand[x] \in {"pending", "releasing", "exhausted"}
    BY <1>1 DEF NoLeaseIsOrphaned
  <2>1. PICK x \in Requests :
           asked[x].call = c /\ hand[x] \in {"pending", "releasing", "exhausted"}
    BY DEF LeaseInv, NoLeaseIsOrphaned
  <2> QED BY <2>1, <1>3, <1>4
<1> QED BY <1>5, <1>6, <1>7, <1>8 DEF LeaseInv

\* A lease is granted: whoever asked for it owns it, and a handoff is pending.
LEMMA GrantKeeps ==
  ASSUME LeaseInv, TypeOK', NEW r \in Requests, AnswerReady(r) \/ Prepared(r) PROVE LeaseInv'
<1> USE DEF session
<1>t. TypeOK /\ HandsFollow /\ NoLeaseIsOrphaned BY DEF LeaseInv
<1>1. /\ pc[r] \in {"waiting", "warmed"} /\ Grant(r) /\ Answer(r)
      /\ UNCHANGED <<want, asked, phase, installed, switch, ending>>
  BY DEF AnswerReady, Prepared
<1>2. hand[r] = "none" BY <1>1, <1>t DEF HandsFollow
<1>3. \A x \in Requests : x # r => pc'[x] = pc[x] /\ hand'[x] = hand[x]
  BY <1>1, <1>t DEF Answer, TypeOK, Actors
<1>4. PhasesFit' BY <1>1 DEF LeaseInv, PhasesFit
<1>5. CASE asked[r].call = None
  <2>1. owners' = owners /\ hand'[r] = "none" /\ pc'[r] = "preview"
    BY <1>1, <1>2, <1>5, <1>t DEF Grant, Answer, TypeOK, Actors
  <2>2. HandsFollow' BY <2>1, <1>1, <1>3, <1>t DEF HandsFollow
  <2>3. WantsFit' BY <2>1, <1>1, <1>3 DEF LeaseInv, WantsFit
  <2>4. NoLeaseIsOrphaned' BY <2>1, <1>1, <1>2, <1>3, <1>t DEF NoLeaseIsOrphaned
  <2> QED BY <2>2, <2>3, <2>4, <1>4 DEF LeaseInv
<1>6. CASE asked[r].call # None
  <2>1. /\ owners' \subseteq owners \cup {asked[r].call}
        /\ hand'[r] = "pending" /\ pc'[r] = "granted" /\ asked[r].call \in Calls
    BY <1>1, <1>6, <1>t DEF Grant, Answer, TypeOK, Actors
  <2>2. HandsFollow' BY <2>1, <1>1, <1>3, <1>t DEF HandsFollow
  <2>3. WantsFit' BY <2>1, <1>1, <1>3 DEF LeaseInv, WantsFit
  <2>4. NoLeaseIsOrphaned' BY <2>1, <1>1, <1>2, <1>3, <1>t DEF NoLeaseIsOrphaned
  <2> QED BY <2>2, <2>3, <2>4, <1>4 DEF LeaseInv
<1> QED BY <1>5, <1>6

\* A handoff installs its releaser, becomes the owner of the release, or does it.
LEMMA HandoffKeeps ==
  ASSUME LeaseInv, TypeOK', NEW r \in Requests,
         Install(r) \/ Disown(r) \/ CleanupRelease(r) \/ CleanupTimeout(r)
  PROVE  LeaseInv'
<1> USE DEF manager, session
<1>t. TypeOK /\ HandsFollow /\ NoLeaseIsOrphaned BY DEF LeaseInv
<1>1. /\ hand[r] \in {"pending", "releasing"}
      /\ UNCHANGED <<want, asked, phase, switch, ending>>
      /\ UNCHANGED hand \/ \E place : hand' = [hand EXCEPT ![r] = place]
      /\ UNCHANGED pc \/ pc' = [pc EXCEPT ![r] = "done"]
  BY DEF Install, Disown, CleanupRelease, CleanupTimeout
<1>2. pc[r] \in {"granted", "done"} /\ asked[r].call \in Calls BY <1>1, <1>t DEF HandsFollow
<1>3. /\ pc'[r] \in {"granted", "done"} /\ \A x \in Requests : x # r => pc'[x] = pc[x]
      /\ \A x \in Requests : x # r => hand'[x] = hand[x]
  BY <1>1, <1>2, <1>t DEF TypeOK, Actors
<1>4. HandsFollow' BY <1>1, <1>2, <1>3, <1>t DEF HandsFollow
<1>5. PhasesFit' BY <1>1 DEF LeaseInv, PhasesFit
<1>6. WantsFit' BY <1>1, <1>3 DEF LeaseInv, WantsFit
<1>7. CASE Install(r)
  <2>1. owners' = owners /\ installed' = [installed EXCEPT ![asked[r].call] = r]
    BY <1>7 DEF Install
  <2>2. /\ installed'[asked[r].call] = r /\ r # None
        /\ \A c \in Calls : c # asked[r].call => installed'[c] = installed[c]
    BY <2>1, <1>2, <1>t, LeaseConstants DEF TypeOK
  <2>3. NoLeaseIsOrphaned'
    <3> SUFFICES ASSUME NEW c \in owners, c # asked[r].call, installed[c] = None,
                        ending[c] \notin {"pending", "exhausted"}
                 PROVE  \E x \in Requests :
                           asked[x].call = c /\ hand'[x] \in {"pending", "releasing", "exhausted"}
      BY <1>1, <2>1, <2>2, <1>t DEF NoLeaseIsOrphaned, TypeOK
    <3>1. PICK x \in Requests :
             asked[x].call = c /\ hand[x] \in {"pending", "releasing", "exhausted"}
      BY <1>t DEF NoLeaseIsOrphaned
    <3> QED BY <3>1, <1>3
  <2> QED BY <2>3, <1>4, <1>5, <1>6 DEF LeaseInv
<1>8. CASE Disown(r) \/ CleanupTimeout(r)
  <2>1. owners' = owners /\ installed' = installed BY <1>8 DEF Disown, CleanupTimeout
  <2>2. hand'[r] \in {"releasing", "exhausted"}
    BY <1>8, <1>t DEF Disown, CleanupTimeout, TypeOK
  <2>3. NoLeaseIsOrphaned' BY <2>1, <2>2, <1>1, <1>3, <1>t DEF NoLeaseIsOrphaned
  <2> QED BY <2>3, <1>4, <1>5, <1>6 DEF LeaseInv
<1>9. CASE CleanupRelease(r)
  <2>1. owners' = owners \ {asked[r].call} /\ installed' = installed
    BY <1>9 DEF CleanupRelease, Release
  <2>2. NoLeaseIsOrphaned' BY <2>1, <1>1, <1>3, <1>t DEF NoLeaseIsOrphaned
  <2> QED BY <2>2, <1>4, <1>5, <1>6 DEF LeaseInv
<1> QED BY <1>7, <1>8, <1>9 DEF Install, Disown, CleanupRelease, CleanupTimeout

\* A call ends: its cleanup takes the releaser over.
LEMMA EndKeeps ==
  ASSUME LeaseInv, TypeOK', NEW c \in Calls, End(c), phase[c] # "terminal",
         UNCHANGED <<owners, pc, want, asked, hand>>
  PROVE  LeaseInv'
<1>t. TypeOK /\ PhasesFit /\ NoLeaseIsOrphaned BY DEF LeaseInv
<1>1. /\ phase'[c] = "terminal" /\ switch'[c] = NoSwitch /\ ending[c] = "none"
      /\ ending'[c] = IF installed[c] # None THEN "pending" ELSE "released"
      /\ \A x \in Calls : x # c => /\ phase'[x] = phase[x] /\ switch'[x] = switch[x]
                                   /\ ending'[x] = ending[x] /\ installed'[x] = installed[x]
  BY <1>t DEF End, TypeOK, PhasesFit
<1>2. PhasesFit' BY <1>1, <1>t DEF PhasesFit, NoSwitch
<1>3. HandsFollow' /\ WantsFit' BY DEF LeaseInv, HandsFollow, WantsFit
<1>4. NoLeaseIsOrphaned'
  <2> SUFFICES ASSUME NEW x \in owners, ending'[x] \notin {"pending", "exhausted"},
                      installed'[x] = None
               PROVE  \E r \in Requests :
                         asked[r].call = x /\ hand[r] \in {"pending", "releasing", "exhausted"}
    BY DEF NoLeaseIsOrphaned
  <2>1. x \in Calls BY <1>t DEF TypeOK
  <2>2. installed[x] = None /\ ending[x] \notin {"pending", "exhausted"} BY <2>1, <1>1
  <2> QED BY <2>2, <1>t DEF NoLeaseIsOrphaned
<1> QED BY <1>2, <1>3, <1>4 DEF LeaseInv

\* A call moves, switches and ends.
LEMMA CallKeeps ==
  ASSUME LeaseInv, TypeOK', NEW c \in Calls,
         \/ LoseTransport(c) \/ Reconnect(c) \/ BeginSwitch(c) \/ FinishSwitch(c)
         \/ SwitchRelease(c) \/ SwitchReleaseTimeout(c) \/ EndCall(c) \/ EndRelease(c)
         \/ EndTimeout(c) \/ AskSpeech(c) \/ Generate(c) \/ SpeechRefused(c) \/ SpeechEnds(c)
  PROVE  LeaseInv'
<1> USE DEF manager, requests, session
<1>t. TypeOK /\ PhasesFit /\ NoLeaseIsOrphaned BY DEF LeaseInv
<1>p. PhasesFit /\ phase' = phase /\ switch' = switch /\ ending' = ending => PhasesFit'
  BY DEF PhasesFit
<1>m. ASSUME NEW place, phase[c] # "terminal", phase[c] # "switching",
             phase' = [phase EXCEPT ![c] = place], UNCHANGED <<switch, ending>>
      PROVE  PhasesFit'
  BY <1>m, <1>t DEF PhasesFit, TypeOK
<1>s. ASSUME PhasesFit', UNCHANGED <<owners, pc, want, asked, hand, installed, ending>>
      PROVE  LeaseInv'
  BY <1>s, StaysKeep DEF Stays
<1>1. CASE LoseTransport(c) BY <1>1, <1>m, <1>s DEF LoseTransport
<1>2. CASE Reconnect(c) BY <1>2, <1>m, <1>s DEF Reconnect
<1>3. CASE AskSpeech(c) \/ Generate(c) \/ SpeechRefused(c) \/ SpeechEnds(c)
  BY <1>3, <1>p, <1>s, <1>t DEF AskSpeech, Generate, SpeechRefused, SpeechEnds
<1>4. CASE BeginSwitch(c)
  <2>1. PhasesFit' BY <1>4, <1>t DEF BeginSwitch, PhasesFit, TypeOK
  <2> QED BY <1>4, <2>1, <1>s DEF BeginSwitch
<1>c. ASSUME Commit(c), switch[c].step # "none" PROVE PhasesFit'
  <2>1. phase[c] = "switching" BY <1>c, <1>t DEF PhasesFit
  <2> QED BY <1>c, <2>1, <1>t DEF Commit, PhasesFit, TypeOK, NoSwitch
<1>5. CASE FinishSwitch(c)
  <2>0. /\ UNCHANGED <<owners, pc, want, asked, hand>> /\ switch[c].step = "cleanup"
        /\ phase[c] = "switching"
    BY <1>5, <1>t DEF FinishSwitch, PhasesFit
  <2>1. CASE End(c) BY <2>0, <2>1, EndKeeps
  <2>2. CASE Commit(c) /\ UNCHANGED installed BY <2>0, <2>2, <1>c, <1>s DEF Commit
  <2>3. CASE /\ switch' = [switch EXCEPT ![c].step = "releasing"]
             /\ UNCHANGED <<phase, epoch, engine, voice, installed, ending>>
    <3>1. \A x \in Calls : switch'[x].step # "none" => switch[x].step # "none"
      BY <2>0, <2>3, <1>t DEF TypeOK
    <3>2. PhasesFit' BY <2>3, <3>1, <1>t DEF PhasesFit
    <3> QED BY <2>0, <2>3, <3>2, <1>s
  <2> QED BY <1>5, <2>1, <2>2, <2>3 DEF FinishSwitch
<1>6. CASE SwitchReleaseTimeout(c)
  <2>1. phase[c] = "switching" BY <1>6, <1>t DEF SwitchReleaseTimeout, PhasesFit
  <2> QED BY <1>6, <2>1, EndKeeps DEF SwitchReleaseTimeout
<1>7. CASE EndCall(c) BY <1>7, EndKeeps DEF EndCall
<1>8. CASE SwitchRelease(c)
  <2>1. /\ owners' = owners \ {c} /\ Commit(c) /\ switch[c].step # "none"
        /\ UNCHANGED <<pc, want, asked, hand>>
    BY <1>8 DEF SwitchRelease, Release
  <2>2. \A x \in Calls : x # c => installed'[x] = installed[x]
    BY <1>8, <1>t DEF SwitchRelease, TypeOK
  <2>3. PhasesFit' BY <2>1, <1>c
  <2>4. HandsFollow' /\ WantsFit' BY <2>1 DEF LeaseInv, HandsFollow, WantsFit
  <2>5. ending' = ending BY <2>1 DEF Commit
  <2>6. NoLeaseIsOrphaned' BY <2>1, <2>2, <2>5, <1>t DEF NoLeaseIsOrphaned, TypeOK
  <2> QED BY <2>3, <2>4, <2>6 DEF LeaseInv
<1>9. CASE EndRelease(c) \/ EndTimeout(c)
  <2>1. /\ UNCHANGED <<pc, want, asked, hand, phase, installed, switch>>
        /\ ending[c] = "pending"
        /\ \A x \in Calls : x # c => ending'[x] = ending[x]
        /\ \/ owners' = owners \ {c}
           \/ owners' = owners /\ ending'[c] \in {"pending", "exhausted"}
    BY <1>9, <1>t DEF EndRelease, EndTimeout, Release, TypeOK
  <2>2. PhasesFit' BY <2>1, <1>t DEF PhasesFit
  <2>3. HandsFollow' /\ WantsFit' BY <2>1 DEF LeaseInv, HandsFollow, WantsFit
  <2>4. NoLeaseIsOrphaned' BY <2>1, <1>t DEF NoLeaseIsOrphaned, TypeOK
  <2> QED BY <2>2, <2>3, <2>4 DEF LeaseInv
<1> QED BY <1>1, <1>2, <1>3, <1>4, <1>5, <1>6, <1>7, <1>8, <1>9

LEMMA LeasesKept == ASSUME LeaseInv, [Next]_vars PROVE LeaseInv'
<1> USE DEF manager, adapter, locks, requests, session
<1>t. TypeOK /\ WantsFit BY DEF LeaseInv
<1>0. TypeOK' BY <1>t, TypesKept
<1>1. ASSUME NEW r \in Requests,
             \/ RefuseCompetitor(r) \/ StartPreparation(r) \/ AlignmentRefused(r) \/ Aligned(r)
             \/ Prewarm(r) \/ PrewarmFailed(r) \/ PreviewStream(r) \/ PreviewContain(r)
             \/ AskSwitch(r) \/ SwitchNothing(r) \/ SwitchBegin(r) \/ SwitchUnload(r)
             \/ SwitchForget(r) \/ SwitchLoad(r)
      PROVE  Walks
  <2> USE DEF Actors, Walks
  <2>1. CASE RefuseCompetitor(r) BY <2>1 DEF RefuseCompetitor
  <2>2. CASE StartPreparation(r) BY <2>2 DEF StartPreparation
  <2>3. CASE AlignmentRefused(r) BY <2>3 DEF AlignmentRefused
  <2>4. CASE Aligned(r) BY <2>4 DEF Aligned
  <2>5. CASE Prewarm(r) BY <2>5 DEF Prewarm
  <2>6. CASE PrewarmFailed(r) BY <2>6 DEF PrewarmFailed
  <2>7. CASE PreviewStream(r) BY <2>7 DEF PreviewStream
  <2>8. CASE PreviewContain(r) BY <2>8 DEF PreviewContain
  <2>9. CASE AskSwitch(r) BY <2>9 DEF AskSwitch
  <2>10. CASE SwitchNothing(r) BY <2>10 DEF SwitchNothing, Switched
  <2>11. CASE SwitchBegin(r) BY <2>11 DEF SwitchBegin
  <2>12. CASE SwitchUnload(r) BY <2>12 DEF SwitchUnload
  <2>13. CASE SwitchForget(r) BY <2>13 DEF SwitchForget
  <2>14. CASE SwitchLoad(r) BY <2>14 DEF SwitchLoad, Switched
  <2> QED BY <1>1, <2>1, <2>2, <2>3, <2>4, <2>5, <2>6, <2>7, <2>8, <2>9, <2>10, <2>11, <2>12,
             <2>13, <2>14
<1>2. ASSUME NEW e \in Evictions, AskEviction(e) \/ Evict(e) PROVE Walks
  <2>1. \A r \in Requests : want'[r] = want[r]
    BY <1>2, <1>t, LeaseConstants DEF AskEviction, Evict, TypeOK
  <2> QED BY <1>2, <2>1 DEF Walks, Actors, AskEviction, Evict
<1>3. CASE UNCHANGED vars
  <2>1. Stays BY <1>3 DEF Stays, vars, LeaseInv, PhasesFit
  <2> QED BY <2>1, <1>0, StaysKeep
<1> QED BY <1>0, <1>1, <1>2, <1>3, WalksKeep, AsksKeep, GrantKeeps, HandoffKeeps, CallKeeps DEF Next

LEMMA LeasesStart == Init => LeaseInv
<1> SUFFICES ASSUME Init PROVE LeaseInv
  OBVIOUS
<1>1. TypeOK BY DEF Init, TypeOK, NoSwitch, Silent, NoPrompt, Actors, Configs
<1> QED BY <1>1 DEF Init, LeaseInv, HandsFollow, PhasesFit, WantsFit, NoLeaseIsOrphaned, NoSwitch,
           Actors

\* No lease is orphaned: whoever is an owner has a releaser installed in a live call, or a
\* handoff, a switch or the end of the call has its release still to do, or one of them gave
\* up after its last attempt; whatever prepares, switches, loses its transport or ends.
THEOREM LeasesHaveReleasers == Spec => []NoLeaseIsOrphaned
<1>1. Init => LeaseInv BY LeasesStart
<1>2. LeaseInv /\ [Next]_vars => LeaseInv' BY LeasesKept
<1>3. LeaseInv => NoLeaseIsOrphaned BY DEF LeaseInv
<1> QED BY <1>1, <1>2, <1>3, PTL DEF Spec

-----------------------------------------------------------------------------
(* A call speaks with its own prompt.                                       *)

\* Where a preparation has the prepare lock.
Prepares(r) ==
    \/ pc[r] \in {"aligning", "prewarming", "warmed", "refused", "died"}
    \/ pc[r] \in {"lock", "unloading", "unloaded", "loading"} /\ want[r] # None
PreparersLock == \A r \in Requests : Prepares(r) <=> prepLock = r
EvictorsLock == \A e \in Evictions : pc[e] = "evicting" => prepLock = e

\* While a request prepares, no prompt is ready, and it was admitted: nobody else has a
\* lease on another prompt, since leases are given and taken back under the lock it has.
PreparersAdmitted ==
    prepLock \in Requests => selected.state # "ready" /\ ~Competes(prepLock)

\* What a prewarm brought is what its request wanted, until somebody drops it.
WarmedHolds == \A r \in Requests : pc[r] = "warmed" => held \in {want[r], None}

\* The adapter holds the leased prompt or none, unless the one owner of the lease has just
\* prepared another.
HeldIsLeased ==
    owners # {} => held \in {leaseOf, None} \/ \E r \in Requests : pc[r] = "warmed"

PromptInv ==
    /\ PreparersLock /\ EvictorsLock /\ PreparersAdmitted /\ WarmedHolds /\ HeldIsLeased
    /\ ReadyIsHeldOrLost

\* The requests that prepare are the same, and want the same.
SamePreparers ==
    \A r \in Requests : /\ Prepares(r)' <=> Prepares(r)
                        /\ pc'[r] = "warmed" <=> pc[r] = "warmed"
                        /\ Prepares(r) => want'[r] = want[r] /\ asked'[r] = asked[r]

\* Something is lost or given back, or the step is nobody's here.
Drops ==
    /\ prepLock' = prepLock /\ SamePreparers
    /\ \A e \in Evictions : pc'[e] = "evicting" => pc[e] = "evicting"
    /\ resident' = resident \/ resident' # "qwen"
    /\ UNCHANGED <<selected, selKey>> \/ selected'.state # "ready"
    /\ held' \in {held, None}
    /\ \/ UNCHANGED <<owners, leaseOf>>
       \/ prepLock = None /\ owners' \subseteq owners /\ (owners' = {} \/ leaseOf' = leaseOf)

LEMMA DropsKeep == ASSUME LeaseInv, PromptInv, Drops PROVE PromptInv'
<1>t. /\ PreparersLock /\ EvictorsLock /\ PreparersAdmitted /\ WarmedHolds /\ HeldIsLeased
      /\ ReadyIsHeldOrLost
  BY DEF PromptInv
<1>1. PreparersLock' BY <1>t DEF PreparersLock, Drops, SamePreparers
<1>2. EvictorsLock' BY <1>t DEF EvictorsLock, Drops
<1>3. PreparersAdmitted'
  <2> SUFFICES ASSUME prepLock \in Requests
               PROVE  selected'.state # "ready" /\ ~Competes(prepLock)'
    BY DEF Drops, PreparersAdmitted
  <2>1. selected.state # "ready" /\ ~Competes(prepLock) /\ Prepares(prepLock)
    BY <1>t DEF PreparersAdmitted, PreparersLock
  <2>2. UNCHANGED <<owners, leaseOf, prepLock>> BY LeaseConstants DEF Drops
  <2>3. want'[prepLock] = want[prepLock] /\ asked'[prepLock] = asked[prepLock]
    BY <2>1 DEF Drops, SamePreparers
  <2>4. selected'.state # "ready" BY <2>1 DEF Drops
  <2> QED BY <2>1, <2>2, <2>3, <2>4 DEF Competes
<1>4. WarmedHolds'
  <2> SUFFICES ASSUME NEW r \in Requests, pc'[r] = "warmed" PROVE held' \in {want'[r], None}
    BY DEF WarmedHolds
  <2>1. pc[r] = "warmed" /\ want'[r] = want[r] BY DEF Drops, SamePreparers, Prepares
  <2> QED BY <2>1, <1>t DEF Drops, WarmedHolds
<1>5. HeldIsLeased'
  <2> SUFFICES ASSUME owners' # {}, ~ \E r \in Requests : pc'[r] = "warmed"
               PROVE  held' \in {leaseOf', None}
    BY DEF HeldIsLeased
  <2>1. owners # {} /\ leaseOf' = leaseOf BY DEF Drops
  <2>2. ~ \E r \in Requests : pc[r] = "warmed" BY DEF Drops, SamePreparers
  <2> QED BY <2>1, <2>2, <1>t DEF HeldIsLeased, Drops
<1>6. ReadyIsHeldOrLost'
  <2> SUFFICES ASSUME NEW p \in Prompts, Ready(p)' PROVE held' \in {p, None}
    BY DEF ReadyIsHeldOrLost
  <2>1. Ready(p) BY DEF Ready, Drops
  <2> QED BY <2>1, <1>t DEF ReadyIsHeldOrLost, Drops
<1> QED BY <1>1, <1>2, <1>3, <1>4, <1>5, <1>6 DEF PromptInv

\* A preparation begins or goes on with the lock.
GoesOn(r) ==
    /\ prepLock' = r /\ (prepLock = r \/ (prepLock = None /\ ~Competes(r)))
    /\ Prepares(r)'
    /\ \A a \in Actors : a # r => pc'[a] = pc[a]
    /\ UNCHANGED <<owners, leaseOf, want, asked>>
    /\ selected'.state # "ready"
    /\ pc[r] # "warmed"
    /\ IF pc'[r] = "warmed" THEN held' = want[r] ELSE held' \in {held, None}

LEMMA GoesOnKeeps ==
  ASSUME LeaseInv, PromptInv, NEW r \in Requests, GoesOn(r) PROVE PromptInv'
<1> USE LeaseConstants DEF Actors
<1>t. /\ PreparersLock /\ EvictorsLock /\ PreparersAdmitted /\ WarmedHolds /\ HeldIsLeased
  BY DEF PromptInv
<1>0. \A x \in Requests : pc[x] # "warmed"
  BY <1>t DEF PreparersLock, Prepares, GoesOn
<1>1. PreparersLock'
  <2> SUFFICES ASSUME NEW x \in Requests PROVE Prepares(x)' <=> prepLock' = x
    BY DEF PreparersLock
  <2>1. CASE x = r BY <2>1 DEF GoesOn
  <2>2. CASE x # r
    <3>1. Prepares(x)' <=> Prepares(x) BY <2>2 DEF GoesOn, Prepares
    <3> QED BY <2>2, <3>1, <1>t DEF PreparersLock, GoesOn
  <2> QED BY <2>1, <2>2
<1>2. EvictorsLock' BY <1>t DEF EvictorsLock, GoesOn
<1>3. PreparersAdmitted'
  <2>1. ~Competes(r) BY <1>t DEF GoesOn, PreparersAdmitted
  <2>2. ~Competes(r)' BY <2>1 DEF GoesOn, Competes
  <2> QED BY <2>2 DEF GoesOn, PreparersAdmitted
<1>4. WarmedHolds' BY <1>0 DEF WarmedHolds, GoesOn
<1>5. HeldIsLeased' BY <1>0, <1>t DEF HeldIsLeased, GoesOn
<1>6. ReadyIsHeldOrLost'
  <2>1. \A p \in Prompts : ~Ready(p)' BY DEF Ready, GoesOn
  <2> QED BY <2>1 DEF ReadyIsHeldOrLost
<1> QED BY <1>1, <1>2, <1>3, <1>4, <1>5, <1>6 DEF PromptInv

\* A preparation fails.
GivesUp(r) ==
    /\ prepLock = r /\ prepLock' = None /\ pc[r] # "warmed"
    /\ pc' = [pc EXCEPT ![r] = "done"]
    /\ UNCHANGED <<owners, leaseOf, want, asked>>
    /\ selected'.state # "ready" /\ held' \in {held, None}

LEMMA GivesUpKeeps ==
  ASSUME LeaseInv, PromptInv, NEW r \in Requests, GivesUp(r) PROVE PromptInv'
<1> USE LeaseConstants DEF Actors
<1>t. /\ PreparersLock /\ EvictorsLock /\ PreparersAdmitted /\ WarmedHolds /\ HeldIsLeased
  BY DEF PromptInv
<1>p. pc'[r] = "done" /\ \A a \in Actors : a # r => pc'[a] = pc[a]
  BY DEF GivesUp, LeaseInv, TypeOK
<1>0. \A x \in Requests : pc[x] # "warmed" /\ (x # r => ~Prepares(x))
  BY <1>t DEF PreparersLock, Prepares, GivesUp
<1>1. PreparersLock' BY <1>0, <1>p DEF PreparersLock, GivesUp, Prepares
<1>2. EvictorsLock' BY <1>p, <1>t DEF EvictorsLock, GivesUp
<1>3. PreparersAdmitted' BY DEF GivesUp, PreparersAdmitted
<1>4. WarmedHolds' BY <1>0, <1>p DEF WarmedHolds, GivesUp
<1>5. HeldIsLeased' BY <1>0, <1>t DEF HeldIsLeased, GivesUp
<1>6. ReadyIsHeldOrLost'
  <2>1. \A p \in Prompts : ~Ready(p)' BY DEF Ready, GivesUp
  <2> QED BY <2>1 DEF ReadyIsHeldOrLost
<1> QED BY <1>1, <1>2, <1>3, <1>4, <1>5, <1>6 DEF PromptInv

\* The answers of a prepare: with the lock free and the prompt ready, or at its end.
LEMMA AnswerKeepsPrompt ==
  ASSUME LeaseInv, PromptInv, NEW r \in Requests, AnswerReady(r) \/ Prepared(r)
  PROVE  PromptInv'
<1> USE LeaseConstants DEF Actors, adapter
<1>t. /\ PreparersLock /\ EvictorsLock /\ PreparersAdmitted /\ WarmedHolds /\ HeldIsLeased
      /\ ReadyIsHeldOrLost
  BY DEF PromptInv
<1>y. TypeOK BY DEF LeaseInv
<1>0. /\ prepLock' = None /\ UNCHANGED <<want, asked, resident, held>>
      /\ held \in {want[r], None} /\ selKey' = want[r]
      /\ \A x \in Requests : x # r => pc[x] # "warmed" /\ ~Prepares(x)
      /\ \A e \in Evictions : pc[e] # "evicting"
  <2>1. CASE AnswerReady(r)
    <3>1. want[r] \in Prompts BY <2>1 DEF AnswerReady, LeaseInv, WantsFit
    <3>2. held \in {want[r], None} /\ selKey = want[r]
      BY <2>1, <3>1, <1>t DEF AnswerReady, ReadyIsHeldOrLost, Ready
    <3>3. \A x \in Requests : ~Prepares(x) BY <2>1, <1>t DEF AnswerReady, PreparersLock
    <3>4. \A e \in Evictions : pc[e] # "evicting" BY <2>1, <1>t DEF AnswerReady, EvictorsLock
    <3> QED BY <2>1, <3>2, <3>3, <3>4 DEF AnswerReady, locks, Prepares
  <2>2. CASE Prepared(r)
    <3>1. prepLock = r /\ held \in {want[r], None}
      BY <2>2, <1>t DEF Prepared, PreparersLock, WarmedHolds, Prepares
    <3>2. \A x \in Requests : x # r => ~Prepares(x) BY <3>1, <1>t DEF PreparersLock
    <3>3. \A e \in Evictions : pc[e] # "evicting" BY <3>1, <1>t DEF EvictorsLock
    <3> QED BY <2>2, <3>1, <3>2, <3>3 DEF Prepared, Prepares
  <2> QED BY <2>1, <2>2
<1>1. /\ pc'[r] \in {"preview", "granted"} /\ \A a \in Actors : a # r => pc'[a] = pc[a]
      /\ Grant(r)
  BY <1>y DEF AnswerReady, Prepared, Answer, TypeOK
<1>2. PreparersLock' BY <1>0, <1>1 DEF PreparersLock, Prepares
<1>3. EvictorsLock' BY <1>0, <1>1 DEF EvictorsLock
<1>4. PreparersAdmitted' BY <1>0 DEF PreparersAdmitted
<1>5. WarmedHolds' BY <1>0, <1>1 DEF WarmedHolds
<1>6. HeldIsLeased'
  <2>1. CASE asked[r].call # None
    <3>1. leaseOf' = want[r] BY <2>1, <1>1 DEF Grant
    <3> QED BY <3>1, <1>0 DEF HeldIsLeased
  <2>2. CASE asked[r].call = None
    <3>1. UNCHANGED <<owners, leaseOf>> BY <2>2, <1>1 DEF Grant
    <3>2. ~Competes(r)
      <4>1. CASE AnswerReady(r) BY <4>1 DEF AnswerReady
      <4>2. CASE Prepared(r) BY <4>2, <1>t DEF Prepared, PreparersLock, PreparersAdmitted, Prepares
      <4> QED BY <4>1, <4>2
    <3>3. owners = {} \/ leaseOf = want[r] BY <2>2, <3>2 DEF Competes
    <3> QED BY <3>1, <3>3, <1>0 DEF HeldIsLeased
  <2> QED BY <2>1, <2>2
<1>7. ReadyIsHeldOrLost' BY <1>0 DEF ReadyIsHeldOrLost, Ready
<1> QED BY <1>2, <1>3, <1>4, <1>5, <1>6, <1>7 DEF PromptInv

\* A voice is deleted.
LEMMA EvictionKeepsPrompt ==
  ASSUME LeaseInv, PromptInv, NEW e \in Evictions, AskEviction(e) \/ Evict(e)
  PROVE  PromptInv'
<1> USE LeaseConstants DEF Actors, adapter, manager
<1>t. /\ PreparersLock /\ EvictorsLock /\ PreparersAdmitted /\ WarmedHolds /\ HeldIsLeased
      /\ ReadyIsHeldOrLost
  BY DEF PromptInv
<1>y. TypeOK BY DEF LeaseInv
<1>0. /\ \A x \in Requests : pc'[x] = pc[x] /\ want'[x] = want[x]
      /\ UNCHANGED <<asked, owners, leaseOf>>
  BY <1>y DEF AskEviction, Evict, TypeOK, requests
<1>1. \A x \in Requests : Prepares(x)' <=> Prepares(x) BY <1>0 DEF Prepares
<1>2. prepLock \notin Requests /\ prepLock' \notin Requests
  <2>1. CASE AskEviction(e) BY <2>1 DEF AskEviction
  <2>2. CASE Evict(e)
    <3>1. prepLock = e BY <2>2, <1>t DEF Evict, EvictorsLock
    <3> QED BY <2>2, <3>1 DEF Evict
  <2> QED BY <2>1, <2>2
<1>3. PreparersLock' BY <1>1, <1>2, <1>t DEF PreparersLock
<1>4. EvictorsLock'
  <2>1. CASE AskEviction(e) BY <2>1, <1>t, <1>y DEF AskEviction, EvictorsLock, TypeOK
  <2>2. CASE Evict(e) BY <2>2, <1>t, <1>y DEF Evict, EvictorsLock, TypeOK
  <2> QED BY <2>1, <2>2
<1>5. PreparersAdmitted' BY <1>2 DEF PreparersAdmitted
<1>6. held' \in {held, None} BY DEF AskEviction, Evict, Contain
<1>7. WarmedHolds' BY <1>0, <1>6, <1>t DEF WarmedHolds
<1>8. HeldIsLeased' BY <1>0, <1>6, <1>t DEF HeldIsLeased
<1>9. ReadyIsHeldOrLost'
  <2> SUFFICES ASSUME NEW p \in Prompts, Ready(p)' PROVE held' \in {p, None}
    BY DEF ReadyIsHeldOrLost
  <2>1. resident' = resident \/ resident' # "qwen" BY DEF AskEviction, Evict, Contain
  <2>2. UNCHANGED <<selected, selKey>> \/ selected' = NoPrompt BY DEF AskEviction, Evict
  <2>3. Ready(p) BY <2>1, <2>2 DEF Ready, NoPrompt
  <2> QED BY <2>3, <1>6, <1>t DEF ReadyIsHeldOrLost
<1> QED BY <1>3, <1>4, <1>5, <1>7, <1>8, <1>9 DEF PromptInv

\* What the steps of a request are here.
LEMMA RequestKeepsPrompt ==
  ASSUME LeaseInv, PromptInv, NEW r \in Requests,
         \/ Reserve(r) \/ AskPreview(r) \/ RefuseCompetitor(r)
         \/ StartPreparation(r) \/ AlignmentRefused(r) \/ Aligned(r) \/ Prewarm(r)
         \/ PrewarmFailed(r) \/ PreviewStream(r) \/ PreviewContain(r)
         \/ Install(r) \/ Disown(r) \/ CleanupRelease(r) \/ CleanupTimeout(r)
         \/ AskSwitch(r)
  PROVE  PromptInv'
<1> USE LeaseConstants DEF Actors, adapter, manager, locks, requests
<1>t. PreparersLock /\ EvictorsLock /\ PreparersAdmitted BY DEF PromptInv
<1>y. TypeOK /\ WantsFit /\ HandsFollow BY DEF LeaseInv
<1>o. \A e \in Evictions : e # r OBVIOUS
<1>s. ASSUME NEW place, pc' = [pc EXCEPT ![r] = place], ~Prepares(r),
             place \notin {"aligning", "prewarming", "warmed", "refused", "died"},
             place = "lock" => want'[r] = None,
             place \notin {"unloading", "unloaded", "loading", "evicting"},
             \A x \in Requests : x # r => want'[x] = want[x] /\ asked'[x] = asked[x]
      PROVE  /\ SamePreparers
             /\ \A e \in Evictions : pc'[e] = "evicting" => pc[e] = "evicting"
  <2>1. pc'[r] = place /\ \A a \in Actors : a # r => pc'[a] = pc[a] BY <1>s, <1>y DEF TypeOK
  <2>2. ASSUME NEW x \in Requests
        PROVE  /\ Prepares(x)' <=> Prepares(x)
               /\ pc'[x] = "warmed" <=> pc[x] = "warmed"
               /\ Prepares(x) => want'[x] = want[x] /\ asked'[x] = asked[x]
    <3>1. CASE x = r BY <3>1, <2>1, <1>s DEF Prepares
    <3>2. CASE x # r BY <3>2, <2>1, <1>s DEF Prepares
    <3> QED BY <3>1, <3>2
  <2> QED BY <2>1, <2>2, <1>o DEF SamePreparers
<1>d. ASSUME SamePreparers, \A e \in Evictions : pc'[e] = "evicting" => pc[e] = "evicting",
             prepLock' = prepLock, resident' = resident \/ resident' # "qwen",
             UNCHANGED <<selected, selKey>>, held' \in {held, None},
             \/ UNCHANGED <<owners, leaseOf>>
             \/ prepLock = None /\ owners' \subseteq owners /\ (owners' = {} \/ leaseOf' = leaseOf)
      PROVE  PromptInv'
  BY <1>d, DropsKeep DEF Drops
<1>1. CASE Reserve(r)
  <2>1. pc' = [pc EXCEPT ![r] = "waiting"] /\ ~Prepares(r) BY <1>1 DEF Reserve, Prepares
  <2>2. \A x \in Requests : x # r => want'[x] = want[x] /\ asked'[x] = asked[x]
    BY <1>1, <1>y DEF Reserve, TypeOK
  <2> QED BY <1>1, <2>1, <2>2, <1>s, <1>d DEF Reserve
<1>2. CASE AskPreview(r)
  <2>1. pc' = [pc EXCEPT ![r] = "waiting"] /\ ~Prepares(r) BY <1>2 DEF AskPreview, Prepares
  <2>2. \A x \in Requests : x # r => want'[x] = want[x] /\ asked'[x] = asked[x]
    BY <1>2, <1>y DEF AskPreview, TypeOK
  <2> QED BY <1>2, <2>1, <2>2, <1>s, <1>d DEF AskPreview
<1>3. CASE RefuseCompetitor(r)
  <2>1. ~Prepares(r) BY <1>3 DEF RefuseCompetitor, Prepares
  <2> QED BY <1>3, <2>1, <1>s, <1>d DEF RefuseCompetitor
<1>4. CASE StartPreparation(r)
  <2>1. pc'[r] = "aligning" /\ \A a \in Actors : a # r => pc'[a] = pc[a]
    BY <1>4, <1>y DEF StartPreparation, TypeOK
  <2>2. GoesOn(r) BY <1>4, <2>1 DEF StartPreparation, GoesOn, Prepares
  <2> QED BY <2>2, GoesOnKeeps
<1>5. CASE AlignmentRefused(r)
  <2>1. prepLock = r BY <1>5, <1>t DEF AlignmentRefused, PreparersLock, Prepares
  <2>2. selected'.state # "ready" BY <1>5, <1>y DEF AlignmentRefused, TypeOK
  <2>3. GivesUp(r) BY <1>5, <2>1, <2>2 DEF AlignmentRefused, GivesUp
  <2> QED BY <2>3, GivesUpKeeps
<1>6. CASE Aligned(r)
  <2>1. prepLock = r BY <1>6, <1>t DEF Aligned, PreparersLock, Prepares
  <2>2. selected.state # "ready" /\ ~Competes(r) BY <2>1, <1>t DEF PreparersAdmitted
  <2>3. selected'.state # "ready" BY <1>6, <2>2, <1>y DEF Aligned, TypeOK
  <2>4. want[r] # None
    BY <1>6, <1>y DEF Aligned, WantsFit
  <2>5. pc'[r] \in {"prewarming", "lock"} /\ \A a \in Actors : a # r => pc'[a] = pc[a]
    BY <1>6, <1>y DEF Aligned, TypeOK
  <2>6. GoesOn(r) BY <1>6, <2>1, <2>3, <2>4, <2>5 DEF Aligned, GoesOn, Prepares
  <2> QED BY <2>6, GoesOnKeeps
<1>7. CASE Prewarm(r)
  <2>1. prepLock = r BY <1>7, <1>t DEF Prewarm, PreparersLock, Prepares
  <2>2. selected.state # "ready" BY <2>1, <1>t DEF PreparersAdmitted
  <2>3. /\ \A a \in Actors : a # r => pc'[a] = pc[a]
        /\ \/ pc'[r] = "warmed" /\ held' = want[r]
           \/ pc'[r] \in {"refused", "died"} /\ held' = None
    BY <1>7, <1>y DEF Prewarm, TypeOK
  <2>4. GoesOn(r) BY <1>7, <2>1, <2>2, <2>3 DEF Prewarm, GoesOn, Prepares
  <2> QED BY <2>4, GoesOnKeeps
<1>8. CASE PrewarmFailed(r)
  <2>1. prepLock = r BY <1>8, <1>t DEF PrewarmFailed, PreparersLock, Prepares
  <2>2. selected'.state # "ready" BY <1>8, <1>y DEF PrewarmFailed, TypeOK
  <2>3. GivesUp(r) BY <1>8, <2>1, <2>2 DEF PrewarmFailed, GivesUp, Contain
  <2> QED BY <2>3, GivesUpKeeps
<1>9. CASE PreviewStream(r)
  <2>1. PICK place \in {"done", "contain"} : pc' = [pc EXCEPT ![r] = place]
    BY <1>9 DEF PreviewStream
  <2>2. ~Prepares(r) BY <1>9 DEF PreviewStream, Prepares
  <2> QED BY <1>9, <2>1, <2>2, <1>s, <1>d DEF PreviewStream
<1>10. CASE PreviewContain(r)
  <2>1. ~Prepares(r) BY <1>10 DEF PreviewContain, Prepares
  <2>2. /\ SamePreparers
        /\ \A e \in Evictions : pc'[e] = "evicting" => pc[e] = "evicting"
    BY <1>10, <2>1, <1>s DEF PreviewContain
  <2>3. held' = None /\ resident' \in {resident, None} BY <1>10 DEF PreviewContain, Contain
  <2> QED BY <1>10, <2>2, <2>3, <1>d DEF PreviewContain
<1>11. CASE AskSwitch(r)
  <2>1. want[r] = None BY <1>11, <1>y DEF AskSwitch, WantsFit
  <2>2. ~Prepares(r) BY <1>11 DEF AskSwitch, Prepares
  <2> QED BY <1>11, <2>1, <2>2, <1>s, <1>d DEF AskSwitch
<1>12. CASE Install(r) \/ Disown(r) \/ CleanupRelease(r) \/ CleanupTimeout(r)
  <2>1. /\ hand[r] # "none"
        /\ UNCHANGED pc \/ pc' = [pc EXCEPT ![r] = "done"]
        /\ UNCHANGED <<want, asked, resident, selected, selKey, prepLock, held>>
        /\ \/ UNCHANGED <<owners, leaseOf>>
           \/ /\ prepLock = None /\ owners' \subseteq owners
              /\ owners' = {} \/ leaseOf' = leaseOf
    BY <1>12 DEF Install, Disown, CleanupRelease, CleanupTimeout, Release
  <2>2. ~Prepares(r) BY <2>1, <1>12, <1>y DEF HandsFollow, Prepares, Install, Disown,
     CleanupRelease, CleanupTimeout
  <2>3. /\ SamePreparers
        /\ \A e \in Evictions : pc'[e] = "evicting" => pc[e] = "evicting"
    <3>1. CASE UNCHANGED pc BY <3>1, <2>1 DEF SamePreparers, Prepares
    <3>2. CASE pc' = [pc EXCEPT ![r] = "done"] BY <3>2, <2>1, <2>2, <1>s
    <3> QED BY <2>1, <3>1, <3>2, <1>12 DEF Install, Disown, CleanupRelease, CleanupTimeout
  <2> QED BY <2>1, <2>3, <1>d
<1> QED BY <1>1, <1>2, <1>3, <1>4, <1>5, <1>6, <1>7, <1>8, <1>9, <1>10, <1>11, <1>12

\* The steps of the thread that switches the engine, for a preparation or for itself.
LEMMA SwitchKeepsPrompt ==
  ASSUME LeaseInv, PromptInv, NEW r \in Requests,
         \/ SwitchNothing(r) \/ SwitchBegin(r) \/ SwitchUnload(r) \/ SwitchForget(r)
         \/ SwitchLoad(r)
  PROVE  PromptInv'
<1> USE LeaseConstants DEF Actors, adapter, manager, locks
<1>t. PreparersLock /\ EvictorsLock /\ PreparersAdmitted BY DEF PromptInv
<1>y. TypeOK BY DEF LeaseInv
<1>0. /\ pc[r] \in {"lock", "unloading", "unloaded", "loading"}
      /\ UNCHANGED <<owners, leaseOf, want, asked>> /\ held' \in {held, None}
      /\ \E place \in {"unloading", "unloaded", "loading", "prewarming", "done"} :
            pc' = [pc EXCEPT ![r] = place]
  BY DEF SwitchNothing, SwitchBegin, SwitchUnload, SwitchForget, SwitchLoad, Switched
<1>1. /\ pc'[r] \in {"unloading", "unloaded", "loading", "prewarming", "done"}
      /\ \A a \in Actors : a # r => pc'[a] = pc[a]
  BY <1>0, <1>y DEF TypeOK
<1>2. CASE want[r] = None
  <2>1. Target(r) = "other" BY <1>2 DEF Target
  <2>2. /\ pc'[r] # "prewarming" /\ prepLock' = prepLock
        /\ resident' = resident \/ resident' # "qwen"
        /\ UNCHANGED <<selected, selKey>> \/ selected' = NoPrompt
    BY <2>1, <1>1, <1>y DEF SwitchNothing, SwitchBegin, SwitchUnload, SwitchForget, SwitchLoad,
       Switched, TypeOK
  <2>3. ~Prepares(r) /\ ~Prepares(r)'
    BY <1>0, <1>1, <1>2, <2>2 DEF Prepares
  <2>4. SamePreparers
    <3> SUFFICES ASSUME NEW x \in Requests
                 PROVE  /\ Prepares(x)' <=> Prepares(x)
                        /\ pc'[x] = "warmed" <=> pc[x] = "warmed"
      BY <1>0 DEF SamePreparers
    <3>1. CASE x = r BY <3>1, <2>3, <1>0, <1>1
    <3>2. CASE x # r BY <3>2, <1>0, <1>1 DEF Prepares
    <3> QED BY <3>1, <3>2
  <2>5. \A e \in Evictions : pc'[e] = "evicting" => pc[e] = "evicting" BY <1>1
  <2>6. UNCHANGED <<selected, selKey>> \/ selected'.state # "ready" BY <2>2 DEF NoPrompt
  <2> QED BY <1>0, <2>2, <2>4, <2>5, <2>6, DropsKeep DEF Drops
<1>3. CASE want[r] # None
  <2>1. Target(r) = "qwen" BY <1>3 DEF Target
  <2>2. prepLock = r BY <1>0, <1>3, <1>t DEF PreparersLock, Prepares
  <2>3. selected.state # "ready" BY <2>2, <1>t DEF PreparersAdmitted
  <2>4. /\ UNCHANGED selected \/ selected' = [selected EXCEPT !.state = "prewarming"]
        /\ \/ prepLock' = prepLock /\ pc'[r] # "done"
           \/ prepLock' = None /\ pc' = [pc EXCEPT ![r] = "done"]
    BY <2>1, <1>y DEF SwitchNothing, SwitchBegin, SwitchUnload, SwitchForget, SwitchLoad,
       Switched, TypeOK
  <2>5. selected'.state # "ready" BY <2>3, <2>4, <1>y DEF TypeOK
  <2>6. CASE prepLock' = prepLock /\ pc'[r] # "done"
    <3>1. Prepares(r)' BY <1>0, <1>1, <1>3, <2>6 DEF Prepares
    <3>2. GoesOn(r) BY <3>1, <1>0, <1>1, <2>2, <2>5, <2>6 DEF GoesOn
    <3> QED BY <3>2, GoesOnKeeps
  <2>7. CASE prepLock' = None /\ pc' = [pc EXCEPT ![r] = "done"]
    <3>1. GivesUp(r) BY <1>0, <2>2, <2>5, <2>7 DEF GivesUp
    <3> QED BY <3>1, GivesUpKeeps
  <2> QED BY <2>4, <2>6, <2>7
<1> QED BY <1>2, <1>3

\* A call may give its lease back and a stream may lose the prompt, no more.
LEMMA CallKeepsPrompt ==
  ASSUME LeaseInv, PromptInv, NEW c \in Calls,
         \/ LoseTransport(c) \/ Reconnect(c) \/ BeginSwitch(c) \/ FinishSwitch(c)
         \/ SwitchRelease(c) \/ SwitchReleaseTimeout(c) \/ EndCall(c) \/ EndRelease(c)
         \/ EndTimeout(c) \/ AskSpeech(c) \/ Generate(c) \/ SpeechRefused(c) \/ SpeechEnds(c)
  PROVE  PromptInv'
<1> USE DEF manager, adapter, locks, requests
<1>1. /\ UNCHANGED <<pc, want, asked, resident, selected, selKey, prepLock>>
      /\ held' \in {held, None}
      /\ \/ UNCHANGED <<owners, leaseOf>>
         \/ Release(c)
  BY DEF LoseTransport, Reconnect, BeginSwitch, FinishSwitch, SwitchRelease,
     SwitchReleaseTimeout, EndCall, EndRelease, EndTimeout, AskSpeech, Generate, SpeechRefused,
     SpeechEnds, Release
<1>2. \/ UNCHANGED <<owners, leaseOf>>
      \/ prepLock = None /\ owners' \subseteq owners /\ (owners' = {} \/ leaseOf' = leaseOf)
  BY <1>1 DEF Release
<1>3. SamePreparers BY <1>1 DEF SamePreparers, Prepares
<1> QED BY <1>1, <1>2, <1>3, DropsKeep DEF Drops

LEMMA PromptKept == ASSUME LeaseInv, PromptInv, [Next]_vars PROVE PromptInv'
<1>1. CASE UNCHANGED vars
  <2>1. Drops
    BY <1>1 DEF vars, manager, adapter, locks, requests, Drops, SamePreparers, Prepares
  <2> QED BY <2>1, DropsKeep
<1> QED BY <1>1, AnswerKeepsPrompt, EvictionKeepsPrompt, RequestKeepsPrompt, SwitchKeepsPrompt,
           CallKeepsPrompt DEF Next

\* What is generated under the lease is generated with its prompt.
LeasedStart ==
    \A c \in Calls :
        /\ streaming' = c /\ streaming # c
        /\ c \in owners /\ leaseOf = speech[c].prompt
        /\ \A r \in Requests : asked[r].call = c /\ want[r] # leaseOf => pc[r] # "warmed"
        => held = speech[c].prompt

LEMMA StartsAreLeased == ASSUME LeaseInv, PromptInv, [Next]_vars PROVE LeasedStart
<1> USE DEF manager, adapter, locks, requests
<1>t. PreparersLock /\ PreparersAdmitted /\ WarmedHolds /\ HeldIsLeased BY DEF PromptInv
<1>y. TypeOK BY DEF LeaseInv
<1> SUFFICES ASSUME NEW c \in Calls, streaming' = c, streaming # c, c \in owners,
                    leaseOf = speech[c].prompt,
                    \A r \in Requests : asked[r].call = c /\ want[r] # leaseOf => pc[r] # "warmed"
             PROVE  held = speech[c].prompt
  BY DEF LeasedStart
<1>1. c # None BY LeaseConstants
<1>2. Generate(c)
  <2>1. ASSUME NEW r \in Requests,
               \/ Reserve(r) \/ AskPreview(r) \/ RefuseCompetitor(r) \/ AnswerReady(r)
               \/ StartPreparation(r) \/ AlignmentRefused(r) \/ Aligned(r) \/ Prewarm(r)
               \/ Prepared(r) \/ PrewarmFailed(r) \/ PreviewStream(r) \/ PreviewContain(r)
               \/ Install(r) \/ Disown(r) \/ CleanupRelease(r) \/ CleanupTimeout(r)
               \/ AskSwitch(r) \/ SwitchNothing(r) \/ SwitchBegin(r) \/ SwitchUnload(r)
               \/ SwitchForget(r) \/ SwitchLoad(r)
        PROVE  streaming' = streaming
    BY <2>1 DEF Reserve, AskPreview, RefuseCompetitor, AnswerReady, StartPreparation,
       AlignmentRefused, Aligned, Prewarm, Prepared, PrewarmFailed, PreviewStream,
       PreviewContain, Install, Disown, CleanupRelease, CleanupTimeout, AskSwitch,
       SwitchNothing, SwitchBegin, SwitchUnload, SwitchForget, SwitchLoad, Release
  <2>2. ASSUME NEW e \in Evictions, AskEviction(e) \/ Evict(e) PROVE streaming' = streaming
    BY <2>2 DEF AskEviction, Evict
  <2>3. ASSUME NEW x \in Calls,
               \/ LoseTransport(x) \/ Reconnect(x) \/ BeginSwitch(x) \/ FinishSwitch(x)
               \/ SwitchRelease(x) \/ SwitchReleaseTimeout(x) \/ EndCall(x) \/ EndRelease(x)
               \/ EndTimeout(x) \/ AskSpeech(x) \/ SpeechRefused(x) \/ SpeechEnds(x)
        PROVE  streaming' \in {streaming, None}
    BY <2>3 DEF LoseTransport, Reconnect, BeginSwitch, FinishSwitch, SwitchRelease,
       SwitchReleaseTimeout, EndCall, EndRelease, EndTimeout, AskSpeech, SpeechRefused,
       SpeechEnds, Release
  <2>4. ASSUME NEW x \in Calls, Generate(x) PROVE x = c BY <2>4 DEF Generate
  <2>5. CASE UNCHANGED vars BY <2>5 DEF vars
  <2> QED BY <1>1, <2>1, <2>2, <2>3, <2>4, <2>5 DEF Next
<1>3. held # None BY <1>2 DEF Generate, HoldsVoice
<1>4. CASE ~ \E r \in Requests : pc[r] = "warmed"
  BY <1>3, <1>4, <1>t DEF HeldIsLeased
<1>5. CASE \E r \in Requests : pc[r] = "warmed"
  <2>1. PICK r \in Requests : pc[r] = "warmed" BY <1>5
  <2>2. held = want[r] BY <2>1, <1>3, <1>t DEF WarmedHolds
  <2>3. ~Competes(r) BY <2>1, <1>t DEF PreparersLock, PreparersAdmitted, Prepares
  <2>4. leaseOf = want[r] \/ asked[r].call = c BY <2>3 DEF Competes
  <2> QED BY <2>1, <2>2, <2>4
<1> QED BY <1>4, <1>5

\* A call speaks with its own prompt: what is reported ready is what the adapter holds, or
\* holds no more; and what is generated for a call under its lease is generated with the
\* prompt it asked for, although the adapter compares voice keys only.
THEOREM PromptsAreOwn == Spec => PromptIsOwn
<1>1. Init => LeaseInv /\ PromptInv
  <2> SUFFICES ASSUME Init PROVE LeaseInv /\ PromptInv
    OBVIOUS
  <2>1. LeaseInv BY LeasesStart
  <2>2. /\ \A a \in Actors : pc[a] = "idle"
        /\ owners = {} /\ prepLock = None /\ selected = NoPrompt
    BY DEF Init
  <2>3. PreparersLock /\ EvictorsLock /\ WarmedHolds
    BY <2>2, LeaseConstants DEF PreparersLock, EvictorsLock, WarmedHolds, Prepares, Actors
  <2>4. PreparersAdmitted /\ HeldIsLeased /\ ReadyIsHeldOrLost
    BY <2>2, LeaseConstants DEF PreparersAdmitted, HeldIsLeased, ReadyIsHeldOrLost, Ready, NoPrompt
  <2> QED BY <2>1, <2>3, <2>4 DEF PromptInv
<1>2. LeaseInv /\ PromptInv /\ [Next]_vars => (LeaseInv /\ PromptInv)'
  BY LeasesKept, PromptKept
<1>3. LeaseInv /\ PromptInv /\ [Next]_vars => [LeasedStart]_vars BY StartsAreLeased
<1>4. LeaseInv /\ PromptInv => TypeOK /\ ReadyIsHeldOrLost BY DEF LeaseInv, PromptInv
<1>5. Spec => [](TypeOK /\ ReadyIsHeldOrLost) BY <1>1, <1>2, <1>4, PTL DEF Spec
<1>6. Spec => [][LeasedStart]_vars BY <1>1, <1>2, <1>3, PTL DEF Spec
<1> QED BY <1>5, <1>6 DEF PromptIsOwn, LeasedSpeechIsOwn, LeasedStart

=============================================================================
