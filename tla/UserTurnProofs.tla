--------------------------- MODULE UserTurnProofs ---------------------------
(****************************************************************************)
(* Proofs about UserTurn, for any number of frames, losses, mutes and       *)
(* sends, and every length of a turn, of a silence and of an overlap.       *)
(****************************************************************************)
EXTENDS UserTurn, SequenceTheorems, FiniteSetTheorems, TLAPS

\* What is on hold was captured after the last mute.
Fresh(fs) == \A f \in ToSet(fs) : f.epoch = audioEpoch
HoldIsFresh == Fresh(held)

\* A call that ended says so, and no mute is uncounted.
EndFits == (Terminal => state = "ended") /\ audioEpoch <= controls

\* A transcription that has its result owns the state until it hands it to the settlement,
\* which leads to "thinking" only from there.
SettlementFits ==
    /\ fin # None /\ fin.pc = "transcribing" => fin.owns
    /\ fin # None /\ fin.pc = "settling" =>
          /\ settlement # None /\ settlement.success \in {"thinking", "listening"}
          /\ settlement.success = "thinking" => settlement.pending = "thinking"

\* Whoever is "understanding", or will be after a reconnect, has a transcription that is going
\* to change that, unless one came to its end meanwhile.
UnderstandingEnds ==
    "understanding" \in {state, before} =>
        \/ orphaned
        \/ /\ fin # None
           /\ fin.pc = "settling" => settlement.pending = "understanding"
           /\ fin.pc \in {"skipped", "finishing"} => fin.owns

\* What a transcription has heard of its turn: all that is loud.
LoudIsHeard ==
    fin # None /\ fin.pc \in {"settling", "finishing"} =>
        \A i \in DOMAIN fin.frames : fin.frames[i].loud => fin.frames[i] \in heard

TurnInv ==
    /\ TypeOK /\ HoldIsFresh /\ EndFits /\ SettlementFits /\ UnderstandingEnds
    /\ LoudIsHeard

-----------------------------------------------------------------------------
(* Sequences of frames *)

LEMMA EmptyTurn == <<>> \in Seq(Frames) /\ ToSet(<<>>) = {}
<1>1. <<>> \in Seq(Frames) /\ DOMAIN <<>> = {}
  OBVIOUS
<1> QED BY <1>1 DEF ToSet

LEMMA JoinedFrames ==
  ASSUME NEW b \in Seq(Frames), NEW fs \in Seq(Frames)
  PROVE  /\ b \o fs \in Seq(Frames)
         /\ ToSet(b \o fs) = ToSet(b) \cup ToSet(fs)
<1>1. /\ b \o fs \in Seq(Frames) /\ DOMAIN (b \o fs) = 1 .. Len(b) + Len(fs)
      /\ \A i \in 1 .. Len(b) + Len(fs) :
            (b \o fs)[i] = IF i <= Len(b) THEN b[i] ELSE fs[i - Len(b)]
  BY ConcatProperties
<1>2. Len(b) \in Nat /\ DOMAIN b = 1 .. Len(b) /\ Len(fs) \in Nat /\ DOMAIN fs = 1 .. Len(fs)
  OBVIOUS
<1>3. ASSUME NEW i \in DOMAIN (b \o fs) PROVE (b \o fs)[i] \in ToSet(b) \cup ToSet(fs)
  <2>1. CASE i <= Len(b)
    BY <1>1, <1>2, <1>3, <2>1 DEF ToSet
  <2>2. CASE ~(i <= Len(b))
    <3>1. i - Len(b) \in DOMAIN fs /\ (b \o fs)[i] = fs[i - Len(b)]
      BY <1>1, <1>2, <1>3, <2>2
    <3> QED BY <3>1 DEF ToSet
  <2> QED BY <2>1, <2>2
<1>4. ASSUME NEW i \in DOMAIN b PROVE b[i] \in ToSet(b \o fs)
  <2>1. i \in DOMAIN (b \o fs) /\ (b \o fs)[i] = b[i]
    BY <1>1, <1>2, <1>4
  <2> QED BY <2>1 DEF ToSet
<1>5. ASSUME NEW i \in DOMAIN fs PROVE fs[i] \in ToSet(b \o fs)
  <2>1. Len(b) + i \in DOMAIN (b \o fs) /\ (b \o fs)[Len(b) + i] = fs[i]
    BY <1>1, <1>2, <1>5
  <2> QED BY <2>1 DEF ToSet
<1>6. ToSet(b \o fs) \subseteq ToSet(b) \cup ToSet(fs)
  BY <1>3 DEF ToSet
<1>7. ToSet(b) \cup ToSet(fs) \subseteq ToSet(b \o fs)
  BY <1>4, <1>5 DEF ToSet
<1> QED BY <1>1, <1>6, <1>7

LEMMA OneFrame ==
  ASSUME NEW f \in Frames
  PROVE  <<f>> \in Seq(Frames) /\ ToSet(<<f>>) = {f}
<1>1. <<f>> \in Seq(Frames) /\ DOMAIN <<f>> = {1} /\ <<f>>[1] = f
  OBVIOUS
<1> QED BY <1>1 DEF ToSet

LEMMA PartOfFrames ==
  ASSUME NEW fs \in Seq(Frames), NEW m \in Nat, NEW n \in Nat, 0 < m, n <= Len(fs)
  PROVE  /\ SubSeq(fs, m, n) \in Seq(Frames)
         /\ ToSet(SubSeq(fs, m, n)) \subseteq ToSet(fs)
         /\ Len(SubSeq(fs, m, n)) = IF m <= n THEN n - m + 1 ELSE 0
<1>1. Len(fs) \in Nat /\ DOMAIN fs = 1 .. Len(fs) /\ \A i \in 1 .. Len(fs) : fs[i] \in Frames
  OBVIOUS
<1>2. \A i \in m .. n : fs[i] \in Frames
  BY <1>1
<1> DEFINE part == SubSeq(fs, m, n)
<1>3. /\ part \in Seq(Frames) /\ Len(part) = (IF m <= n THEN n - m + 1 ELSE 0)
      /\ \A i \in 1 .. n - m + 1 : part[i] = fs[m + i - 1]
  BY <1>2, SubSeqProperties
<1>4. DOMAIN part = 1 .. Len(part)
  BY <1>3
<1> HIDE DEF part
<1>5. ASSUME NEW i \in DOMAIN part PROVE part[i] \in ToSet(fs)
  <2>1. i \in 1 .. n - m + 1
    BY <1>3, <1>4, <1>5
  <2>2. m + i - 1 \in DOMAIN fs /\ part[i] = fs[m + i - 1]
    BY <1>1, <1>3, <2>1
  <2> QED BY <2>2 DEF ToSet
<1>6. ToSet(part) \subseteq ToSet(fs)
  BY <1>5 DEF ToSet
<1> QED BY <1>3, <1>6 DEF part

LEMMA LastFrames ==
  ASSUME NEW fs \in Seq(Frames), NEW n \in Nat
  PROVE  LastOf(fs, n) \in Seq(Frames) /\ Len(LastOf(fs, n)) <= n
<1>1. Len(fs) \in Nat
  OBVIOUS
<1> DEFINE m == IF Len(fs) > n THEN Len(fs) - n + 1 ELSE 1
<1>2. m \in Nat /\ 0 < m /\ m <= Len(fs) + 1 /\ Len(fs) - m + 1 <= n
  BY <1>1
<1>3. LastOf(fs, n) = SubSeq(fs, m, Len(fs))
  BY DEF LastOf
<1> HIDE DEF m
<1>4. /\ SubSeq(fs, m, Len(fs)) \in Seq(Frames)
      /\ Len(SubSeq(fs, m, Len(fs))) = IF m <= Len(fs) THEN Len(fs) - m + 1 ELSE 0
  BY <1>1, <1>2, PartOfFrames
<1> QED BY <1>1, <1>2, <1>3, <1>4

\* The quiet, and the soft, frames at the end of a turn.
QuietAt(fs) == {i \in DOMAIN fs : \A j \in i .. Len(fs) : ~fs[j].voice}
SoftAt(fs) == {i \in DOMAIN fs : \A j \in i .. Len(fs) : ~fs[j].loud}

LEMMA QuietCount ==
  ASSUME NEW fs \in Seq(Frames)
  PROVE  TrailingQuiet(fs) \in Nat
<1>1. Len(fs) \in Nat /\ DOMAIN fs = 1 .. Len(fs)
  OBVIOUS
<1>2. TrailingQuiet(fs) = Cardinality(QuietAt(fs))
  BY DEF TrailingQuiet, QuietAt
<1>3. QuietAt(fs) \in SUBSET (1 .. Len(fs)) /\ IsFiniteSet(1 .. Len(fs))
  BY <1>1, FS_Interval DEF QuietAt
<1> QED BY <1>2, <1>3, FS_Subset, FS_CardinalityType

\* Soft frames at the end come after each that is loud.
LEMMA SoftCount ==
  ASSUME NEW fs \in Seq(Frames)
  PROVE  /\ TrailingSoft(fs) \in Nat
         /\ \A i \in DOMAIN fs : fs[i].loud => TrailingSoft(fs) <= Len(fs) - i
<1>1. Len(fs) \in Nat /\ DOMAIN fs = 1 .. Len(fs)
  OBVIOUS
<1>2. TrailingSoft(fs) = Cardinality(SoftAt(fs))
  BY DEF TrailingSoft, SoftAt
<1>3. SoftAt(fs) \in SUBSET (1 .. Len(fs)) /\ IsFiniteSet(1 .. Len(fs))
  BY <1>1, FS_Interval DEF SoftAt
<1>4. TrailingSoft(fs) \in Nat
  BY <1>2, <1>3, FS_Subset, FS_CardinalityType
<1>5. ASSUME NEW i \in DOMAIN fs, fs[i].loud PROVE TrailingSoft(fs) <= Len(fs) - i
  <2>1. \A k \in SoftAt(fs) : k \in i + 1 .. Len(fs)
    BY <1>1, <1>5 DEF SoftAt
  <2>2. SoftAt(fs) \in SUBSET (i + 1 .. Len(fs))
    BY <2>1
  <2>3. i + 1 \in Int /\ Len(fs) \in Int /\ i <= Len(fs)
    BY <1>1, <1>5
  <2>4. /\ IsFiniteSet(i + 1 .. Len(fs))
        /\ Cardinality(i + 1 .. Len(fs)) = IF i + 1 > Len(fs) THEN 0 ELSE Len(fs) - (i + 1) + 1
    BY <2>3, FS_Interval
  <2>5. Cardinality(SoftAt(fs)) <= Cardinality(i + 1 .. Len(fs))
    BY <2>2, <2>4, FS_Subset
  <2> QED BY <1>1, <1>2, <1>4, <1>5, <2>3, <2>4, <2>5
<1> QED BY <1>4, <1>5

\* What is cut off the end of a turn is not loud.
LEMMA TrimmingKeepsLoud ==
  ASSUME NEW fs \in Seq(Frames)
  PROVE  /\ ToSet(TrimTrailingSilence(fs)) \subseteq ToSet(fs)
         /\ \A i \in DOMAIN fs : fs[i].loud => fs[i] \in ToSet(TrimTrailingSilence(fs))
<1>1. Len(fs) \in Nat /\ DOMAIN fs = 1 .. Len(fs) /\ \A i \in 1 .. Len(fs) : fs[i] \in Frames
  OBVIOUS
<1>2. KeepQuiet \in Nat
  BY LimitsAssumption
<1> DEFINE cut == TrailingSoft(fs) - KeepQuiet
<1>3. /\ TrailingSoft(fs) \in Nat /\ cut \in Int
      /\ \A i \in DOMAIN fs : fs[i].loud => cut <= Len(fs) - i
  BY <1>1, <1>2, SoftCount
<1>4. TrimTrailingSilence(fs)
        = IF cut > 0 /\ cut < Len(fs) THEN SubSeq(fs, 1, Len(fs) - cut) ELSE fs
  BY DEF TrimTrailingSilence
<1> HIDE DEF cut
<1>5. CASE ~(cut > 0 /\ cut < Len(fs))
  BY <1>4, <1>5 DEF ToSet
<1>6. CASE cut > 0 /\ cut < Len(fs)
  <2> DEFINE n == Len(fs) - cut
             part == SubSeq(fs, 1, n)
  <2>1. n \in Nat /\ n <= Len(fs)
    BY <1>1, <1>3, <1>6
  <2>2. ToSet(part) \subseteq ToSet(fs)
    BY <2>1, PartOfFrames
  <2>3. \A i \in 1 .. n : fs[i] \in Frames
    BY <1>1, <2>1
  <2>4. /\ part \in Seq(Frames) /\ Len(part) = (IF 1 <= n THEN n - 1 + 1 ELSE 0)
        /\ \A i \in 1 .. n - 1 + 1 : part[i] = fs[1 + i - 1]
    BY <2>1, <2>3, SubSeqProperties
  <2>5. DOMAIN part = 1 .. Len(part)
    BY <2>4
  <2>6. TrimTrailingSilence(fs) = part
    BY <1>4, <1>6
  <2>7. \A i \in DOMAIN fs : fs[i].loud => i \in 1 .. n
    BY <1>1, <1>3
  <2> HIDE DEF n, part
  <2>8. ASSUME NEW i \in DOMAIN fs, fs[i].loud PROVE fs[i] \in ToSet(part)
    <3>1. i \in DOMAIN part /\ part[i] = fs[i]
      BY <2>1, <2>4, <2>5, <2>7, <2>8
    <3> QED BY <3>1 DEF ToSet
  <2> QED BY <2>2, <2>6, <2>8
<1> QED BY <1>5, <1>6
-----------------------------------------------------------------------------
(* Frames enter the turn, which may be claimed by a transcription. *)

TurnOK == buffer \in Seq(Frames) /\ seen \in BOOLEAN /\ silence \in Nat

LEMMA AppendedFits ==
  ASSUME TurnOK, NEW fs \in Seq(Frames)
  PROVE  /\ Appended(buffer, fs).buffer = buffer \o fs
         /\ Appended(buffer, fs).buffer \in Seq(Frames)
         /\ Appended(buffer, fs).seen \in BOOLEAN /\ Appended(buffer, fs).silence \in Nat
<1> DEFINE all == buffer \o fs
           s == seen \/ Voiced(fs)
           q == TrailingQuiet(all)
<1>1. Appended(buffer, fs) = [buffer |-> all, seen |-> s, silence |-> IF s THEN q ELSE 0]
  BY DEF Appended
<1>2. all \in Seq(Frames)
  BY JoinedFrames DEF TurnOK
<1>3. q \in Nat
  BY <1>2, QuietCount
<1>4. s \in BOOLEAN
  BY DEF TurnOK, Voiced
<1> HIDE DEF all, s, q
<1>5. (IF s THEN q ELSE 0) \in Nat
  BY <1>3
<1>6. /\ Appended(buffer, fs).buffer = all /\ Appended(buffer, fs).seen = s
      /\ Appended(buffer, fs).silence = IF s THEN q ELSE 0
  BY <1>1
<1>7. Appended(buffer, fs).buffer = buffer \o fs
  BY <1>6 DEF all
<1> QED BY <1>2, <1>4, <1>5, <1>6, <1>7

\* A transcription that was just claimed
JustClaimed == /\ fin = None /\ fin' # None /\ fin'.pc = "transcribing" /\ fin'.owns = TRUE
               /\ state' = "understanding"

\* What becomes of the turn when frames enter it
TakesIn(fs, allow) ==
    \/ Claim(Appended(buffer, fs), allow)
    \/ SetTurn(Appended(buffer, fs)) /\ UNCHANGED <<fin, state>>

LEMMA TakingIn ==
  ASSUME TypeOK, NEW fs \in Seq(Frames), NEW allow \in BOOLEAN, TakesIn(fs, allow)
  PROVE  /\ TurnOK' /\ fin' \in Finalizations \cup {None}
         /\ InTurn' = InTurn \cup ToSet(fs)
         /\ JustClaimed \/ (fin' = fin /\ state' = state)
         /\ \/ buffer' = buffer \o fs /\ fin' = fin
            \/ buffer' = <<>> /\ JustClaimed /\ fin'.frames = buffer \o fs
<1> DEFINE a == Appended(buffer, fs)
<1>1. TurnOK
  BY DEF TypeOK, TurnOK
<1>2. /\ a.buffer = buffer \o fs /\ a.buffer \in Seq(Frames)
      /\ a.seen \in BOOLEAN /\ a.silence \in Nat
  BY <1>1, AppendedFits
<1>3. ToSet(a.buffer) = ToSet(buffer) \cup ToSet(fs)
  BY <1>1, <1>2, JoinedFrames DEF TurnOK
<1>4. Claim(a, allow) \/ (SetTurn(a) /\ UNCHANGED <<fin, state>>)
  BY DEF TakesIn
<1> HIDE DEF a
<1>5. fin \in Finalizations \cup {None} /\ epoch \in Nat
  BY DEF TypeOK
<1>6. CASE SetTurn(a) /\ UNCHANGED <<fin, state>>
  <2>1. buffer' = a.buffer /\ seen' = a.seen /\ silence' = a.silence
        /\ fin' = fin /\ state' = state
    BY <1>6 DEF SetTurn
  <2>2. InTurn' = InTurn \cup ToSet(fs)
    BY <1>3, <2>1 DEF InTurn
  <2> QED BY <1>2, <1>5, <2>1, <2>2 DEF TurnOK
<1>7. CASE Claim(a, allow) /\ fin # None
  <2>1. SetTurn(a) /\ UNCHANGED <<fin, state>>
    BY <1>7 DEF Claim
  <2> QED BY <1>6, <2>1
<1>8. CASE Claim(a, allow) /\ fin = None
  <2> DEFINE new == [frames |-> a.buffer, epoch |-> epoch, allow |-> allow, owns |-> TRUE,
                     pc |-> "transcribing"]
  <2>1. /\ fin' = new /\ state' = "understanding"
        /\ buffer' = <<>> /\ seen' = FALSE /\ silence' = 0
    BY <1>8 DEF Claim, ClearTurn
  <2>2. new \in Finalizations
    BY <1>2, <1>5 DEF Finalizations
  <2>3. /\ new.frames = a.buffer /\ new.pc = "transcribing" /\ new.owns = TRUE
    OBVIOUS
  <2> HIDE DEF new
  <2>4. new # None
    BY <2>2, NoneAssumption
  <2>5. TurnOK'
    BY <2>1, EmptyTurn DEF TurnOK
  <2>6. InTurn' = InTurn \cup ToSet(fs)
    BY <1>3, <1>8, <2>1, <2>3, <2>4, EmptyTurn DEF InTurn
  <2>7. JustClaimed
    BY <1>8, <2>1, <2>3, <2>4 DEF JustClaimed
  <2> QED BY <1>2, <2>1, <2>2, <2>3, <2>5, <2>6, <2>7
<1> QED BY <1>4, <1>6, <1>7, <1>8
-----------------------------------------------------------------------------
(* What a step does to the frames that wait *)

\* Nothing: the transcription goes on.
InputKept ==
    /\ UNCHANGED <<buffer, held, audioEpoch>>
    /\ fin' = fin \/ (fin # None /\ fin' # None /\ fin'.frames = fin.frames)

\* A mute clears the hold, and what is no turn yet.
InputMuted ==
    /\ muted' /\ fin' = fin
    /\ UNCHANGED <<held, audioEpoch>> \/ held' = <<>>
    /\ buffer' = buffer \/ (~seen /\ buffer' = <<>>)

\* The transcription is done.
InputDone ==
    /\ UNCHANGED <<buffer, held, audioEpoch>>
    /\ fin # None /\ fin.pc \in {"skipped", "finishing"} /\ fin' = None

\* One goes on hold.
InputHeld ==
    \E f \in Frames : /\ f.epoch = audioEpoch /\ held' = Append(held, f)
                      /\ UNCHANGED <<buffer, fin, audioEpoch>>

\* Some enter the turn.
InputTaken ==
    \E fs \in Seq(Frames), allow \in BOOLEAN :
        /\ Fresh(fs) /\ TakesIn(fs, allow) /\ audioEpoch' = audioEpoch
        /\ held' = held \/ (held' = <<>> /\ ToSet(held) \subseteq ToSet(fs))

Input == InputKept \/ InputMuted \/ InputDone \/ InputHeld \/ InputTaken

\* No loud frame goes but those that may (see VoicesAreTranscribed).
NoneIsLost ==
    \A f \in Kept \ Kept' :
        f.loud => \/ f \in heard
                  \/ fin # None /\ fin.pc = "skipped" /\ f \in ToSet(fin.frames)
                  \/ /\ muted'
                     /\ f \in ToSet(held) \cup (IF seen THEN {} ELSE ToSet(buffer))

\* Nothing but what is as new as the last mute comes in.
OnlyNewComesIn == \A f \in InTurn' \ InTurn : f.epoch = audioEpoch'

LEMMA InputKeptKeeps ==
  ASSUME HoldIsFresh, InputKept
  PROVE  HoldIsFresh' /\ NoneIsLost /\ OnlyNewComesIn
<1>1. HoldIsFresh'
  BY DEF InputKept, HoldIsFresh, Fresh
<1>2. InTurn' = InTurn
  BY DEF InputKept, InTurn
<1>3. Kept' = Kept
  BY <1>2 DEF InputKept, Kept
<1> QED BY <1>1, <1>2, <1>3 DEF NoneIsLost, OnlyNewComesIn

LEMMA InputMutedKeeps ==
  ASSUME HoldIsFresh, InputMuted
  PROVE  HoldIsFresh' /\ NoneIsLost /\ OnlyNewComesIn
<1>1. HoldIsFresh'
  <2>1. CASE UNCHANGED <<held, audioEpoch>>
    BY <2>1 DEF HoldIsFresh, Fresh
  <2>2. CASE held' = <<>>
    BY <2>2, EmptyTurn DEF HoldIsFresh, Fresh
  <2> QED BY <2>1, <2>2 DEF InputMuted
<1>2. InTurn' \subseteq InTurn
  BY EmptyTurn DEF InputMuted, InTurn
<1>3. ASSUME NEW f \in Kept \ Kept'
      PROVE  f \in ToSet(held) \cup (IF seen THEN {} ELSE ToSet(buffer))
  BY <1>3 DEF InputMuted, InTurn, Kept
<1>4. NoneIsLost
  BY <1>3 DEF NoneIsLost, InputMuted
<1> QED BY <1>1, <1>2, <1>4 DEF OnlyNewComesIn

LEMMA InputDoneKeeps ==
  ASSUME HoldIsFresh, LoudIsHeard, InputDone
  PROVE  HoldIsFresh' /\ NoneIsLost /\ OnlyNewComesIn
<1>1. HoldIsFresh'
  BY DEF InputDone, HoldIsFresh, Fresh
<1>2. InTurn' \subseteq InTurn
  BY DEF InputDone, InTurn
<1>3. ASSUME NEW f \in Kept \ Kept' PROVE f \in ToSet(fin.frames)
  BY <1>3 DEF InputDone, InTurn, Kept
<1>4. NoneIsLost
  <2> SUFFICES ASSUME NEW f \in Kept \ Kept', f.loud, fin.pc # "skipped" PROVE f \in heard
    BY <1>3 DEF NoneIsLost, InputDone
  <2>1. fin # None /\ fin.pc = "finishing"
    BY DEF InputDone
  <2>2. f \in ToSet(fin.frames)
    BY <1>3
  <2> QED BY <2>1, <2>2 DEF LoudIsHeard, ToSet
<1> QED BY <1>1, <1>2, <1>4 DEF OnlyNewComesIn

LEMMA InputHeldKeeps ==
  ASSUME TypeOK, HoldIsFresh, InputHeld
  PROVE  HoldIsFresh' /\ NoneIsLost /\ OnlyNewComesIn
<1>1. PICK f \in Frames : /\ f.epoch = audioEpoch /\ held' = Append(held, f)
                          /\ UNCHANGED <<buffer, fin, audioEpoch>>
  BY DEF InputHeld
<1>2. held \in Seq(Frames)
  BY DEF TypeOK
<1>3. ToSet(held') = ToSet(held) \cup {f}
  <2>1. <<f>> \in Seq(Frames) /\ ToSet(<<f>>) = {f}
    BY OneFrame
  <2>2. held' = held \o <<f>>
    BY <1>1, <1>2, AppendIsConcat
  <2> QED BY <1>2, <2>1, <2>2, JoinedFrames
<1>4. HoldIsFresh'
  BY <1>1, <1>3 DEF HoldIsFresh, Fresh
<1>5. InTurn' = InTurn
  BY <1>1 DEF InTurn
<1>6. Kept \subseteq Kept'
  BY <1>3, <1>5 DEF Kept
<1> QED BY <1>4, <1>5, <1>6 DEF NoneIsLost, OnlyNewComesIn

LEMMA InputTakenKeeps ==
  ASSUME TypeOK, HoldIsFresh, InputTaken
  PROVE  HoldIsFresh' /\ NoneIsLost /\ OnlyNewComesIn
<1>1. PICK fs \in Seq(Frames), allow \in BOOLEAN :
          /\ Fresh(fs) /\ TakesIn(fs, allow) /\ audioEpoch' = audioEpoch
          /\ held' = held \/ (held' = <<>> /\ ToSet(held) \subseteq ToSet(fs))
  BY DEF InputTaken
<1>2. InTurn' = InTurn \cup ToSet(fs)
  BY <1>1, TakingIn
<1>3. HoldIsFresh'
  BY <1>1, EmptyTurn DEF HoldIsFresh, Fresh
<1>4. Kept \subseteq Kept'
  BY <1>1, <1>2 DEF Kept
<1> QED BY <1>1, <1>2, <1>3, <1>4 DEF Fresh, NoneIsLost, OnlyNewComesIn

LEMMA InputKeeps ==
  ASSUME TypeOK, HoldIsFresh, LoudIsHeard, Input
  PROVE  HoldIsFresh' /\ NoneIsLost /\ OnlyNewComesIn
BY InputKeptKeeps, InputMutedKeeps, InputDoneKeeps, InputHeldKeeps, InputTakenKeeps DEF Input

\* The sequence that waits on the hold and the frame behind it
LEMMA HeldThenLive ==
  ASSUME TypeOK, HoldIsFresh, NEW f \in Frames, f.epoch = audioEpoch
  PROVE  held \o <<f>> \in Seq(Frames) /\ Fresh(held \o <<f>>)
<1>1. held \in Seq(Frames)
  BY DEF TypeOK
<1>2. <<f>> \in Seq(Frames) /\ ToSet(<<f>>) = {f}
  BY OneFrame
<1>3. held \o <<f>> \in Seq(Frames) /\ ToSet(held \o <<f>>) = ToSet(held) \cup ToSet(<<f>>)
  BY <1>1, <1>2, JoinedFrames
<1> QED BY <1>2, <1>3 DEF HoldIsFresh, Fresh

LEMMA CapturedIsFrame ==
  ASSUME TypeOK, NEW s \in Sounds, clock < MaxFrames
  PROVE  Captured(s) \in Frames /\ Captured(s).epoch = audioEpoch
BY LimitsAssumption, SoundsAssumption DEF TypeOK, Captured, Frames

LEMMA LiveInput ==
  ASSUME TypeOK, HoldIsFresh, NEW s \in Sounds, LiveFrame(s)
  PROVE  Input
<1> DEFINE f == Captured(s)
           fs == held \o <<f>>
<1>1. f \in Frames /\ f.epoch = audioEpoch
  BY CapturedIsFrame DEF LiveFrame, ReadFrame, Capture
<1>2. fs \in Seq(Frames) /\ Fresh(fs) /\ ToSet(held) \subseteq ToSet(fs)
  <2>1. <<f>> \in Seq(Frames) /\ held \in Seq(Frames)
    BY <1>1, OneFrame DEF TypeOK
  <2> QED BY <1>1, <2>1, HeldThenLive, JoinedFrames
<1>3. audioEpoch' = audioEpoch
  BY DEF LiveFrame, mic
<1>4. CASE held' = held /\ UNCHANGED <<turn, fin>>
  BY <1>3, <1>4 DEF InputKept, Input, turn
<1>5. CASE held' = Append(held, f) /\ UNCHANGED <<turn, fin>>
  BY <1>1, <1>3, <1>5 DEF InputHeld, Input, turn
<1>6. CASE held' = <<>> /\ TakesIn(fs, FALSE)
  BY <1>2, <1>3, <1>6 DEF InputTaken, Input
<1> QED BY <1>4, <1>5, <1>6 DEF LiveFrame, TakesIn

LEMMA SplicedFits ==
  ASSUME TypeOK, HoldIsFresh, BackfillFresh, NEW n \in Overlaps
  PROVE  /\ Spliced(n) \in Seq(Frames) /\ Fresh(Spliced(n))
         /\ record.final => ToSet(held) \subseteq ToSet(Spliced(n))
<1>1. record.frames \in Seq(Frames) /\ held \in Seq(Frames)
  BY DEF TypeOK, Recording
<1> DEFINE fs == record.frames
           rest == SubSeq(fs, n + 1, Len(fs))
           tail == IF record.final THEN held ELSE <<>>
<1>2. Len(fs) \in Nat /\ DOMAIN fs = 1 .. Len(fs)
  BY <1>1
<1>3. n \in Nat
  BY <1>2, LimitsAssumption DEF Overlaps
<1>4. Fresh(fs)
  BY DEF BackfillFresh, Fresh, ToSet
<1>5. rest \in Seq(Frames) /\ ToSet(rest) \subseteq ToSet(fs)
  BY <1>1, <1>2, <1>3, PartOfFrames
<1>6. tail \in Seq(Frames) /\ ToSet(tail) \subseteq ToSet(held)
      /\ (record.final => tail = held)
  BY <1>1, EmptyTurn
<1>7. Spliced(n) = rest \o tail
  BY DEF Spliced
<1> HIDE DEF fs, rest, tail
<1>8. rest \o tail \in Seq(Frames) /\ ToSet(rest \o tail) = ToSet(rest) \cup ToSet(tail)
  BY <1>5, <1>6, JoinedFrames
<1> QED BY <1>4, <1>5, <1>6, <1>7, <1>8 DEF HoldIsFresh, Fresh

\* What a recording that is taken does to the turn
LEMMA BackfillTakesIn ==
  ASSUME TypeOK, HoldIsFresh, BackfillTaken
  PROVE  \E fs \in Seq(Frames) : /\ Fresh(fs) /\ TakesIn(fs, TRUE)
                                 /\ record.final => ToSet(held) \subseteq ToSet(fs)
<1>1. PICK n \in Overlaps :
         LET a == Appended(buffer, Spliced(n))
         IN  IF EndsWith(a, Spliced(n), grace) THEN Claim(a, TRUE)
             ELSE SetTurn(a) /\ UNCHANGED <<fin, state>>
  BY DEF BackfillTaken
<1>2. TakesIn(Spliced(n), TRUE)
  BY <1>1 DEF TakesIn
<1>3. /\ Spliced(n) \in Seq(Frames) /\ Fresh(Spliced(n))
      /\ record.final => ToSet(held) \subseteq ToSet(Spliced(n))
  BY SplicedFits DEF BackfillTaken
<1> QED BY <1>2, <1>3

LEMMA BackfillInput ==
  ASSUME TypeOK, HoldIsFresh, Backfill
  PROVE  Input
<1>1. audioEpoch' = audioEpoch
  BY DEF Backfill, mic
<1>2. CASE Unforwarded \/ BackfillRefused
  BY <1>1, <1>2 DEF Unforwarded, BackfillRefused, InputKept, Input, turn, guard
<1>3. CASE BackfillTaken
  <2>1. PICK fs \in Seq(Frames) : /\ Fresh(fs) /\ TakesIn(fs, TRUE)
                                  /\ record.final => ToSet(held) \subseteq ToSet(fs)
    BY <1>3, BackfillTakesIn
  <2>2. held' = held \/ (held' = <<>> /\ record.final)
    BY <1>3 DEF BackfillTaken
  <2> QED BY <1>1, <2>1, <2>2 DEF InputTaken, Input
<1> QED BY <1>2, <1>3 DEF Backfill
-----------------------------------------------------------------------------
(* Types *)

LEMMA CaptureFits ==
  ASSUME TypeOK, NEW s \in Sounds, Capture(s)
  PROVE  /\ clock' \in 0 .. MaxFrames
         /\ rolling' \in Seq(Frames) /\ Len(rolling') <= Preroll
<1>1. rolling \in Seq(Frames) /\ Len(rolling) <= Preroll /\ clock \in 0 .. MaxFrames
  BY DEF TypeOK
<1>2. Captured(s) \in Frames
  BY CapturedIsFrame DEF Capture
<1>3. Append(rolling, Captured(s)) \in Seq(Frames)
  BY <1>1, <1>2
<1>4. Preroll \in Nat /\ MaxFrames \in Nat
  BY LimitsAssumption
<1>5. /\ LastOf(Append(rolling, Captured(s)), Preroll) \in Seq(Frames)
      /\ Len(LastOf(Append(rolling, Captured(s)), Preroll)) <= Preroll
  BY <1>3, <1>4, LastFrames
<1>6. clock' \in 0 .. MaxFrames
  BY <1>1, <1>4 DEF Capture
<1> QED BY <1>1, <1>5, <1>6 DEF Capture

LEMMA LiveTypes ==
  ASSUME TypeOK, HoldIsFresh, NEW s \in Sounds, LiveFrame(s)
  PROVE  TypeOK'
<1> DEFINE f == Captured(s)
           fs == held \o <<f>>
<1>1. f \in Frames /\ f.epoch = audioEpoch
  BY CapturedIsFrame DEF LiveFrame, ReadFrame, Capture
<1>2. fs \in Seq(Frames)
  BY <1>1, HeldThenLive
<1>3. Append(held, f) \in Seq(Frames)
  <2>1. held \in Seq(Frames)
    BY DEF TypeOK
  <2> QED BY <1>1, <2>1
<1>4. /\ clock' \in 0 .. MaxFrames
      /\ rolling' \in Seq(Frames) /\ Len(rolling') <= Preroll
  BY CaptureFits DEF LiveFrame, ReadFrame
<1>5. /\ UNCHANGED <<turn, fin, state>> \/ TakesIn(fs, FALSE)
      /\ receiver' \in {"idle", "blocked"}
      /\ \/ hold' \in {hold, "on"} /\ held' = held
         \/ hold' = "on" /\ held' = Append(held, f)
         \/ hold' = "off" /\ held' = <<>>
      /\ grace' \in {grace, "on"} /\ armed' \in {armed, "yes"}
  BY DEF LiveFrame, TakesIn, Started
<1>h. heard' = heard /\ heard \subseteq Frames
  BY DEF LiveFrame, TypeOK
<1>6. /\ TurnOK' /\ fin' \in Finalizations \cup {None} /\ heard' \subseteq Frames
      /\ state' \in States
  <2>1. CASE UNCHANGED <<turn, fin, state>>
    BY <1>h, <2>1 DEF TypeOK, TurnOK, turn
  <2>2. CASE TakesIn(fs, FALSE)
    <3>1. JustClaimed \/ state' = state
      BY <1>2, <2>2, TakingIn
    <3>2. state' \in States
      BY <3>1 DEF JustClaimed, TypeOK, States
    <3> QED BY <1>2, <1>h, <2>2, <3>2, TakingIn
  <2> QED BY <1>5, <2>1, <2>2
<1>7. held' \in Seq(Frames) /\ (held' # <<>> => hold' # "off") /\ hold' \in {"off", "on", "expired"}
  BY <1>3, <1>5, EmptyTurn DEF TypeOK
<1>8. /\ UNCHANGED <<phase, epoch, before, switch, mic, settlement, orphaned, link, record,
                     again, sends, applied, drops>>
  BY DEF LiveFrame
<1> HIDE DEF f, fs
<1>9. receiver' \in {"first", "idle", "blocked", "gone"} /\ grace' \in {"off", "pending", "on"}
      /\ armed' \in {"no", "may", "yes"}
  BY <1>5 DEF TypeOK
<1> QED BY <1>4, <1>5, <1>6, <1>7, <1>8, <1>9 DEF TypeOK, TurnOK, mic

LEMMA BackfillTypes ==
  ASSUME TypeOK, HoldIsFresh, Backfill
  PROVE  TypeOK'
<1>1. /\ sends' \in 0 .. MaxSends
      /\ UNCHANGED <<phase, epoch, before, switch, mic, receiver, settlement, orphaned, link,
                     heard, rolling, record, again, clock, drops>>
  BY LimitsAssumption DEF Backfill, BackfillRequest, TypeOK
<1>2. /\ \/ UNCHANGED <<turn, fin, state>>
         \/ \E fs \in Seq(Frames) : TakesIn(fs, TRUE)
      /\ UNCHANGED <<grace, armed>>
      /\ UNCHANGED <<hold, held>> \/ (hold' = "off" /\ held' = <<>>)
      /\ applied' \in BOOLEAN
  <2>1. CASE Unforwarded
    BY <2>1 DEF Unforwarded, guard, TypeOK
  <2>2. CASE BackfillRefused
    BY <2>2 DEF BackfillRefused, Noted, guard, TypeOK
  <2>3. CASE BackfillTaken
    <3>1. \E fs \in Seq(Frames) : TakesIn(fs, TRUE)
      BY <2>3, BackfillTakesIn
    <3> QED BY <2>3, <3>1 DEF BackfillTaken, Noted, TypeOK
  <2> QED BY <2>1, <2>2, <2>3 DEF Backfill
<1>3. /\ TurnOK' /\ fin' \in Finalizations \cup {None} /\ heard' \subseteq Frames
      /\ state' \in States
  <2>1. CASE UNCHANGED <<turn, fin, state>>
    BY <1>1, <2>1 DEF TypeOK, TurnOK, turn
  <2>2. CASE \E fs \in Seq(Frames) : TakesIn(fs, TRUE)
    <3>1. JustClaimed \/ state' = state
      BY <2>2, TakingIn
    <3>2. state' \in States
      BY <3>1 DEF JustClaimed, TypeOK, States
    <3>3. heard' \subseteq Frames
      BY <1>1 DEF TypeOK
    <3> QED BY <2>2, <3>2, <3>3, TakingIn
  <2> QED BY <1>2, <2>1, <2>2
<1>4. held' \in Seq(Frames) /\ (held' # <<>> => hold' # "off") /\ hold' \in {"off", "on", "expired"}
  BY <1>2, EmptyTurn DEF TypeOK
<1> QED BY <1>1, <1>2, <1>3, <1>4 DEF TypeOK, TurnOK, mic

\* What a transcription may change about itself
LEMMA FinSteps ==
  ASSUME NEW x \in Finalizations, NEW p \in {"settling", "skipped", "finishing"}
  PROVE  /\ LET y == [x EXCEPT !.pc = p] IN
              /\ y \in Finalizations /\ y.frames = x.frames /\ y.pc = p /\ y.owns = x.owns
         /\ LET y == [x EXCEPT !.pc = p, !.owns = FALSE] IN
              /\ y \in Finalizations /\ y.frames = x.frames /\ y.pc = p
<1> DEFINE S == Seq(Frames)
<1>1. Finalizations = [frames : S, epoch : Nat, allow : BOOLEAN, owns : BOOLEAN,
                       pc : {"transcribing", "settling", "skipped", "finishing"}]
  BY DEF Finalizations
<1> HIDE DEF S
<1> QED BY <1>1

LEMMA FinRenewed ==
  ASSUME NEW x \in Finalizations, NEW e \in Nat
  PROVE  LET y == [x EXCEPT !.epoch = e] IN
           /\ y \in Finalizations /\ y.frames = x.frames /\ y.pc = x.pc /\ y.owns = x.owns
<1> DEFINE S == Seq(Frames)
<1>1. Finalizations = [frames : S, epoch : Nat, allow : BOOLEAN, owns : BOOLEAN,
                       pc : {"transcribing", "settling", "skipped", "finishing"}]
  BY DEF Finalizations
<1> HIDE DEF S
<1> QED BY <1>1

LEMMA EnterReconnectFits ==
  ASSUME TypeOK, EnterReconnect \/ ReportLost
  PROVE  /\ phase' \in {"reconnecting", phase} /\ state' \in {"reconnecting", state}
         /\ epoch' \in Nat /\ before' \in {before, state} /\ phase' # "terminal"
         /\ \/ fin' = fin
            \/ /\ fin # None /\ fin' # None /\ fin' \in Finalizations
               /\ fin'.frames = fin.frames /\ fin'.pc = fin.pc /\ fin'.owns = fin.owns
<1>1. epoch \in Nat /\ fin \in Finalizations \cup {None}
  BY DEF TypeOK
<1>2. CASE EnterReconnect
  <2>1. CASE fin' = [fin EXCEPT !.epoch = epoch + 1] /\ fin # None
    <3>1. /\ fin' \in Finalizations
          /\ fin'.frames = fin.frames /\ fin'.pc = fin.pc /\ fin'.owns = fin.owns
      BY <1>1, <2>1, FinRenewed
    <3> QED BY <1>1, <1>2, <2>1, <3>1, NoneAssumption DEF EnterReconnect
  <2>2. CASE fin' = fin
    BY <1>1, <1>2, <2>2 DEF EnterReconnect
  <2> QED BY <1>2, <2>1, <2>2 DEF EnterReconnect
<1>3. CASE ReportLost
  BY <1>1, <1>2, <1>3 DEF ReportLost
<1> QED BY <1>2, <1>3
LEMMA RestoredFits ==
  ASSUME TypeOK
  PROVE  Restored(state) \in States /\ Restored(state) \in {state, before, "listening"}
BY DEF TypeOK, Restored, States

\* The steps of the transcription
SttFits ==
    /\ fin' \in Finalizations \cup {None} /\ orphaned' \in BOOLEAN
    /\ fin # None /\ heard \subseteq heard' /\ heard' \subseteq heard \cup ToSet(fin.frames)
    /\ \/ fin.pc \in {"skipped", "finishing"} /\ fin' = None
       \/ fin' # None /\ fin'.frames = fin.frames /\ fin'.pc # "transcribing"
    /\ settlement' \in Settlements \cup {None}
    /\ state' \in States /\ receiver' \in {receiver, "idle"}
    /\ UNCHANGED <<phase, epoch, before, switch, mic, turn, guard, client>>

LEMMA SttSteps ==
  ASSUME TypeOK, SettlementFits, LoudIsHeard, Stt
  PROVE  SttFits /\ LoudIsHeard'
<1>1. /\ fin \in Finalizations /\ fin # None /\ state \in States /\ orphaned \in BOOLEAN
      /\ settlement \in Settlements \cup {None} /\ fin.frames \in Seq(Frames)
  BY DEF TypeOK, Stt, SttResult, Settle, Finish, Finalizations
<1>2. orphaned' \in BOOLEAN
      /\ UNCHANGED <<phase, epoch, before, switch, mic, turn, guard, client>>
  BY <1>1 DEF Stt, SttResult, Settle, Finish
<1> DEFINE tr == TrimTrailingSilence(fin.frames)
<1>3. /\ ToSet(tr) \subseteq ToSet(fin.frames)
      /\ \A i \in DOMAIN fin.frames : fin.frames[i].loud => fin.frames[i] \in ToSet(tr)
  BY <1>1, TrimmingKeepsLoud
<1>4. ASSUME NEW o \in Outcomes, SttResult(o) PROVE SttFits /\ LoudIsHeard'
  <2>1. \/ fin' = [fin EXCEPT !.pc = "skipped"] /\ heard' = heard
        \/ fin' = [fin EXCEPT !.pc = "finishing"] /\ heard' = heard \cup ToSet(tr)
        \/ fin' = [fin EXCEPT !.pc = "settling", !.owns = FALSE] /\ heard' = heard \cup ToSet(tr)
    BY <1>4 DEF SttResult, Transcribed
  <2>2. /\ UNCHANGED <<state, settlement>>
        \/ /\ state' = IF o = "text" THEN "thinking" ELSE state
           /\ settlement' = [pending |-> state',
                             success |-> IF o = "text" THEN "thinking" ELSE "listening"]
    BY <1>4 DEF SttResult, Transcribed
  <2> HIDE DEF tr
  <2>3. /\ fin' \in Finalizations /\ fin'.frames = fin.frames
        /\ \/ fin'.pc = "skipped" /\ heard' = heard
           \/ fin'.pc \in {"settling", "finishing"} /\ heard' = heard \cup ToSet(tr)
    <3>1. CASE fin' = [fin EXCEPT !.pc = "skipped"] /\ heard' = heard
      BY <1>1, <3>1, FinSteps
    <3>2. CASE fin' = [fin EXCEPT !.pc = "finishing"] /\ heard' = heard \cup ToSet(tr)
      BY <1>1, <3>2, FinSteps
    <3>3. CASE /\ fin' = [fin EXCEPT !.pc = "settling", !.owns = FALSE]
               /\ heard' = heard \cup ToSet(tr)
      BY <1>1, <3>3, FinSteps
    <3> QED BY <2>1, <3>1, <3>2, <3>3
  <2>4. state' \in States /\ receiver' = receiver
    BY <1>1, <1>4, <2>2 DEF SttResult, States
  <2>5. settlement' \in Settlements \cup {None}
    BY <1>1, <2>2, <2>4 DEF Settlements, States
  <2>6. SttFits
    BY <1>1, <1>2, <1>3, <2>3, <2>4, <2>5, NoneAssumption DEF SttFits
  <2>7. LoudIsHeard'
    BY <1>3, <2>3 DEF LoudIsHeard
  <2> QED BY <2>6, <2>7
<1>5. ASSUME Settle PROVE SttFits /\ LoudIsHeard'
  <2>1. /\ fin' \in Finalizations /\ fin'.frames = fin.frames /\ fin'.pc = "finishing"
    BY <1>1, <1>5, FinSteps DEF Settle
  <2>2. settlement' = None /\ receiver' = receiver /\ heard' = heard /\ fin.pc = "settling"
    BY <1>5 DEF Settle
  <2>3. state' \in States
    BY <1>1, <1>5 DEF Settle, Settlements, SettlementFits
  <2>4. LoudIsHeard'
    BY <1>1, <2>1, <2>2 DEF LoudIsHeard
  <2> QED BY <1>1, <1>2, <2>1, <2>2, <2>3, <2>4, NoneAssumption DEF SttFits
<1>6. ASSUME Finish PROVE SttFits /\ LoudIsHeard'
  BY <1>1, <1>2, <1>6 DEF Finish, SttFits, States, LoudIsHeard
<1> QED BY <1>4, <1>5, <1>6 DEF Stt
\* The page's own state is typed by itself.
ClientOK ==
    /\ link \in {"up", "down", "offered"} /\ record \in Recording
    /\ rolling \in Seq(Frames) /\ Len(rolling) <= Preroll
    /\ sends \in 0 .. MaxSends /\ applied \in BOOLEAN /\ again \subseteq Frames
    /\ clock \in 0 .. MaxFrames /\ drops \in 0 .. MaxDrops

LEMMA ClientTypes ==
  ASSUME TypeOK, ClientOK', UNCHANGED <<lifecycle, mic, turn, grace, hold, held, stt>>,
         armed' \in {"no", "may", "yes"}
  PROVE  TypeOK'
BY DEF TypeOK, ClientOK, lifecycle, mic, turn, stt

LEMMA StepTypes ==
  ASSUME TypeOK, HoldIsFresh, EndFits, SettlementFits, LoudIsHeard, Next
  PROVE  TypeOK'
<1> DEFINE Limits == /\ MaxFrames \in Nat /\ MaxDrops \in Nat /\ MaxControls \in Nat
                     /\ MaxSends \in Nat /\ Preroll \in Nat
<1>1. Limits
  BY LimitsAssumption
<1>2. ASSUME NEW s \in Sounds, LiveFrame(s) PROVE TypeOK'
  BY <1>2, LiveTypes
<1>3. ASSUME NEW s \in Sounds, ReadGap(s) PROVE TypeOK'
  <2>1. /\ clock' \in 0 .. MaxFrames /\ rolling' \in Seq(Frames) /\ Len(rolling') <= Preroll
    BY <1>3, CaptureFits DEF ReadGap
  <2> QED BY <1>3, <2>1 DEF ReadGap, TypeOK, lifecycle, mic, turn, guard, stt
<1>4. ASSUME NEW s \in Sounds, BrowserRecords(s) PROVE TypeOK'
  <2>1. /\ clock' \in 0 .. MaxFrames /\ rolling' \in Seq(Frames) /\ Len(rolling') <= Preroll
    BY <1>4, CaptureFits DEF BrowserRecords
  <2>2. Captured(s) \in Frames
    BY <1>4, CapturedIsFrame DEF BrowserRecords, Capture
  <2>3. record.frames \in Seq(Frames) /\ record \in Recording
    BY DEF TypeOK, Recording
  <2>4. Append(record.frames, Captured(s)) \in Seq(Frames)
    BY <2>2, <2>3
  <2>5. record' \in Recording
    <3> DEFINE S == Seq(Frames)
               x == Append(record.frames, Captured(s))
    <3>1. record' = [record EXCEPT !.frames = x]
      BY <1>4 DEF BrowserRecords
    <3>2. Recording = [frames : S, from : 0 .. MaxFrames, final : BOOLEAN]
      BY DEF Recording
    <3>3. x \in S
      BY <2>4
    <3> HIDE DEF S, x
    <3> QED BY <2>3, <3>1, <3>2, <3>3
  <2> QED BY <1>4, <2>1, <2>5 DEF BrowserRecords, TypeOK, lifecycle, mic, turn, guard, stt
<1>5. ASSUME ReceiverGivesUp \/ BeginReconnect PROVE TypeOK'
  <2>1. /\ phase' \in {"reconnecting", phase} /\ state' \in {"reconnecting", state}
        /\ epoch' \in Nat /\ before' \in {before, state}
        /\ fin' = fin \/ fin' \in Finalizations
    BY <1>5, EnterReconnectFits DEF ReceiverGivesUp, BeginReconnect
  <2>2. state' \in States /\ before' \in States \cup {None}
        /\ phase' \in {"stable", "reconnecting", "switching", "terminal"}
        /\ fin' \in Finalizations \cup {None}
    BY <2>1 DEF TypeOK, States
  <2>3. receiver' \in {receiver, "gone"}
        /\ UNCHANGED <<switch, mic, turn, guard, settlement, heard, orphaned, client>>
    BY <1>5 DEF ReceiverGivesUp, BeginReconnect
  <2> QED BY <2>1, <2>2, <2>3 DEF TypeOK, mic, turn, guard, client
<1>6. ASSUME NEW m \in BOOLEAN, SetMuted(m) PROVE TypeOK'
  <2>1. UNCHANGED turn \/ ClearTurn
    BY <1>6 DEF SetMuted
  <2>2. buffer' \in Seq(Frames) /\ seen' \in BOOLEAN /\ silence' \in Nat
    <3>1. CASE UNCHANGED turn
      BY <3>1 DEF TypeOK, turn
    <3>2. CASE ClearTurn
      BY <3>2, EmptyTurn DEF ClearTurn
    <3> QED BY <2>1, <3>1, <3>2
  <2>3. controls' \in 0 .. MaxControls /\ audioEpoch' \in 0 .. MaxControls
    BY <1>1, <1>6 DEF SetMuted, Control, TypeOK, EndFits
  <2>4. /\ hold' \in {"off", "on", "expired"} /\ held' \in Seq(Frames)
        /\ (held' # <<>> => hold' # "off") /\ armed' \in {"no", "may", "yes"}
    BY <1>6, EmptyTurn DEF SetMuted, TypeOK
  <2>5. rolling' \in Seq(Frames) /\ Len(rolling') <= Preroll
    <3>1. Len(<<>>) <= Preroll
      BY <1>1
    <3>2. rolling' \in {rolling, <<>>}
      BY <1>6 DEF SetMuted
    <3> QED BY <3>1, <3>2, EmptyTurn DEF TypeOK
  <2>6. muted' \in BOOLEAN
        /\ UNCHANGED <<lifecycle, grace, stt, link, record, again, sends, applied, clock,
                       drops>>
    BY <1>6 DEF SetMuted
  <2> QED BY <2>2, <2>3, <2>4, <2>5, <2>6 DEF TypeOK, lifecycle, stt
<1>7. ASSUME HoldExpires \/ GraceExpires PROVE TypeOK'
  <2>1. /\ hold' \in {"off", "on", "expired"} /\ held' = held /\ (held' # <<>> => hold' # "off")
        /\ grace' \in {"off", "pending", "on"} /\ armed' \in {"no", "may", "yes"}
    BY <1>7 DEF HoldExpires, GraceExpires, TypeOK
  <2>2. UNCHANGED <<lifecycle, mic, turn, stt, client>>
    BY <1>7 DEF HoldExpires, GraceExpires
  <2> QED BY <2>1, <2>2 DEF TypeOK, lifecycle, mic, turn, stt, client
<1>8. ASSUME Backfill PROVE TypeOK'
  BY <1>8, BackfillTypes
<1>9. ASSUME Stt PROVE TypeOK'
  <2>1. SttFits
    BY <1>9, SttSteps
  <2>2. receiver' \in {"first", "idle", "blocked", "gone"}
    BY <2>1 DEF SttFits, TypeOK
  <2>3. heard' \subseteq Frames
    <3>1. heard \subseteq Frames /\ (fin # None => fin.frames \in Seq(Frames))
      BY DEF TypeOK, Finalizations
    <3> QED BY <2>1, <3>1 DEF SttFits, ToSet
  <2> QED BY <2>1, <2>2, <2>3 DEF SttFits, TypeOK, mic, turn, guard, client
<1>10. ASSUME LinkDown PROVE TypeOK'
  <2>1. rolling \in Seq(Frames) /\ Len(rolling) <= Preroll /\ clock \in 0 .. MaxFrames
    BY DEF TypeOK
  <2> DEFINE recent == {i \in DOMAIN rolling : rolling[i].epoch = audioEpoch}
  <2>2. Len(rolling) \in Nat /\ DOMAIN rolling = 1 .. Len(rolling)
    BY <2>1
  <2>3. recent \in SUBSET (1 .. Len(rolling)) /\ IsFiniteSet(1 .. Len(rolling))
    BY <2>2, FS_Interval
  <2>4. Cardinality(recent) \in Nat
    BY <2>3, FS_Subset, FS_CardinalityType
  <2>5. SelectBackfill \in Seq(Frames)
    BY <2>1, <2>4, LastFrames DEF SelectBackfill
  <2>6. record' \in Recording
    <3>1. PICK final \in BOOLEAN :
              record' \in {record, [frames |-> SelectBackfill, from |-> clock, final |-> final]}
      BY <1>10 DEF LinkDown
    <3>2. [frames |-> SelectBackfill, from |-> clock, final |-> final] \in Recording
      BY <2>1, <2>5 DEF Recording
    <3>3. record \in Recording
      BY DEF TypeOK
    <3> QED BY <3>1, <3>2, <3>3
  <2>7. rolling' \in Seq(Frames) /\ Len(rolling') <= Preroll
    <3>1. Len(<<>>) <= Preroll
      BY <1>1
    <3>2. rolling' \in {rolling, <<>>}
      BY <1>10 DEF LinkDown
    <3> QED BY <2>1, <3>1, <3>2, EmptyTurn
  <2>8. /\ link' = "down" /\ drops' \in 0 .. MaxDrops /\ sends' \in 0 .. MaxSends
        /\ applied' \in BOOLEAN /\ armed' \in {"no", "may", "yes"}
        /\ UNCHANGED <<lifecycle, mic, turn, grace, hold, held, stt, clock>>
    <3>1. sends' \in {sends, 0} /\ applied' \in {applied, FALSE}
      BY <1>10 DEF LinkDown
    <3>2. link' = "down" /\ drops' = drops + 1 /\ drops < MaxDrops
          /\ UNCHANGED <<lifecycle, mic, turn, grace, hold, held, stt, clock>>
          /\ armed' \in {"no", "may"}
      BY <1>10 DEF LinkDown
    <3>3. sends \in 0 .. MaxSends /\ applied \in BOOLEAN /\ drops \in 0 .. MaxDrops
      BY DEF TypeOK
    <3>4. drops' \in 0 .. MaxDrops
      BY <1>1, <3>2, <3>3
    <3>5. sends' \in 0 .. MaxSends
      BY <1>1, <3>1, <3>3
    <3>6. applied' \in BOOLEAN
      BY <3>1, <3>3, Zenon
    <3> QED BY <3>2, <3>4, <3>5, <3>6
  <2> HIDE DEF recent
  <2>10. again' \subseteq Frames
    <3>1. again' \subseteq again \cup ToSet(SelectBackfill)
      BY <1>10 DEF LinkDown
    <3>2. again \subseteq Frames
      BY DEF TypeOK
    <3> QED BY <2>5, <3>1, <3>2 DEF ToSet
  <2>9. ClientOK'
    BY <2>1, <2>6, <2>7, <2>8, <2>10 DEF ClientOK
  <2> QED BY <2>8, <2>9, ClientTypes
<1>11. ASSUME Offer PROVE TypeOK'
  BY <1>11 DEF Offer, TypeOK, lifecycle, mic, turn, stt
<1>12. ASSUME Recover \/ Promote \/ SwitchCommits PROVE TypeOK'
  <2>1. \/ state' \in States /\ before' = None /\ phase' = "stable"
        \/ UNCHANGED <<state, before, phase>>
    BY <1>12, RestoredFits DEF Recover, Promote, SwitchCommits, States
  <2>2. link' = "up" /\ receiver' \in {receiver, "first"} /\ switch' \in {switch, None}
        /\ UNCHANGED <<epoch, mic, turn, guard, fin, settlement, heard, orphaned, rolling,
                       record, again, sends, applied, clock, drops>>
    BY <1>12 DEF Recover, Promote, SwitchCommits, NewReceiver, stt
  <2> QED BY <2>1, <2>2 DEF TypeOK, mic, turn, guard
<1>13. ASSUME SwitchBegins PROVE TypeOK'
  <2>1. switch' \in Switches
    BY <1>13 DEF SwitchBegins, Switches
  <2> QED BY <1>13, <2>1 DEF SwitchBegins, TypeOK, mic, turn, guard, stt, client
<1>14. ASSUME ReplyStarts \/ ReplyEnds \/ Interrupt \/ Interrupted \/ CancelSpeech
       PROVE TypeOK'
  <2>1. state' \in {"speaking", "listening", "interrupted"} /\ controls' \in 0 .. MaxControls
        /\ UNCHANGED <<phase, epoch, before, switch, muted, audioEpoch, turn, guard, stt, client>>
    BY <1>1, <1>14 DEF ReplyStarts, ReplyEnds, Interrupt, Interrupted, CancelSpeech, Control,
                       mic, TypeOK
  <2>2. state' \in States
    BY <2>1 DEF States
  <2> QED BY <2>1, <2>2 DEF TypeOK, turn, guard, stt, client
<1>15. ASSUME End PROVE TypeOK'
  <2>1. state' \in States /\ epoch' \in Nat
    BY <1>15 DEF End, States, TypeOK
  <2> QED BY <1>15, <2>1 DEF End, TypeOK, mic, turn, guard, stt, client
<1> QED BY <1>2, <1>3, <1>4, <1>5, <1>6, <1>7, <1>8, <1>9, <1>10, <1>11, <1>12, <1>13,
           <1>14, <1>15 DEF Next
LEMMA StepInput ==
  ASSUME TypeOK, HoldIsFresh, SettlementFits, LoudIsHeard, Next
  PROVE  Input
<1>1. ASSUME NEW s \in Sounds, LiveFrame(s) PROVE Input
  BY <1>1, LiveInput
<1>2. ASSUME Backfill PROVE Input
  BY <1>2, BackfillInput
<1>3. ASSUME NEW s \in Sounds, ReadGap(s) \/ BrowserRecords(s) PROVE InputKept
  BY <1>3 DEF ReadGap, BrowserRecords, InputKept, mic, turn, guard, stt
<1>4. ASSUME ReceiverGivesUp \/ BeginReconnect PROVE InputKept
  <2>1. fin' = fin \/ (fin # None /\ fin' # None /\ fin'.frames = fin.frames)
    BY <1>4, EnterReconnectFits DEF ReceiverGivesUp, BeginReconnect
  <2> QED BY <1>4, <2>1 DEF ReceiverGivesUp, BeginReconnect, InputKept, mic, turn, guard
<1>5. ASSUME NEW m \in BOOLEAN, SetMuted(m) PROVE InputKept \/ InputMuted
  <2>1. CASE m
    BY <1>5, <2>1 DEF SetMuted, ClearTurn, InputMuted, turn, stt
  <2>2. CASE ~m
    BY <1>5, <2>2 DEF SetMuted, InputKept, turn, stt
  <2> QED BY <2>1, <2>2
<1>6. ASSUME Stt PROVE InputKept \/ InputDone
  BY <1>6, SttSteps DEF SttFits, InputKept, InputDone, mic, turn, guard
<1>7. ASSUME HoldExpires \/ GraceExpires \/ LinkDown \/ Offer PROVE InputKept
  BY <1>7 DEF HoldExpires, GraceExpires, LinkDown, Offer, InputKept, mic, turn, guard, stt
<1>8. ASSUME Recover \/ Promote \/ SwitchBegins \/ SwitchCommits PROVE InputKept
  BY <1>8 DEF Recover, Promote, SwitchBegins, SwitchCommits, InputKept, mic, turn, guard, stt
<1>9. ASSUME ReplyStarts \/ ReplyEnds \/ Interrupt \/ Interrupted \/ CancelSpeech \/ End
      PROVE InputKept
  BY <1>9 DEF ReplyStarts, ReplyEnds, Interrupt, Interrupted, CancelSpeech, End, InputKept,
              mic, turn, guard, stt
<1> QED BY <1>1, <1>2, <1>3, <1>4, <1>5, <1>6, <1>7, <1>8, <1>9 DEF Next, Input

\* Only the transcription hears.
LEMMA StepHeard ==
  ASSUME TypeOK, HoldIsFresh, SettlementFits, LoudIsHeard, Next
  PROVE  LoudIsHeard' /\ (heard' = heard \/ Stt)
<1>1. ASSUME NEW s \in Sounds, LiveFrame(s) PROVE LoudIsHeard' /\ heard' = heard
  <2>1. fin' = fin \/ JustClaimed
    <3> DEFINE fs == held \o <<Captured(s)>>
    <3>1. fs \in Seq(Frames)
      BY <1>1, CapturedIsFrame, HeldThenLive DEF LiveFrame, ReadFrame, Capture
    <3>2. fin' = fin \/ TakesIn(fs, FALSE)
      BY <1>1 DEF LiveFrame, TakesIn
    <3> QED BY <3>1, <3>2, TakingIn
  <2>2. heard' = heard
    BY <1>1 DEF LiveFrame
  <2> QED BY <2>1, <2>2 DEF LoudIsHeard, JustClaimed
<1>2. ASSUME Backfill PROVE LoudIsHeard' /\ heard' = heard
  <2>1. fin' = fin \/ JustClaimed
    <3>1. CASE Unforwarded \/ BackfillRefused
      BY <3>1 DEF Unforwarded, BackfillRefused
    <3>2. CASE BackfillTaken
      BY <3>2, BackfillTakesIn, TakingIn
    <3> QED BY <1>2, <3>1, <3>2 DEF Backfill
  <2>2. heard' = heard
    BY <1>2 DEF Backfill
  <2> QED BY <2>1, <2>2 DEF LoudIsHeard, JustClaimed
<1>3. ASSUME ReceiverGivesUp \/ BeginReconnect PROVE LoudIsHeard' /\ heard' = heard
  <2>1. fin' = fin \/ (fin # None /\ fin'.frames = fin.frames /\ fin'.pc = fin.pc)
    BY <1>3, EnterReconnectFits DEF ReceiverGivesUp, BeginReconnect
  <2>2. heard' = heard
    BY <1>3 DEF ReceiverGivesUp, BeginReconnect
  <2> QED BY <2>1, <2>2 DEF LoudIsHeard
<1>4. ASSUME Stt PROVE LoudIsHeard'
  BY <1>4, SttSteps
<1>5. ASSUME UNCHANGED <<fin, heard>> PROVE LoudIsHeard' /\ heard' = heard
  BY <1>5 DEF LoudIsHeard
<1>6. ASSUME NEW s \in Sounds, ReadGap(s) \/ BrowserRecords(s) PROVE UNCHANGED <<fin, heard>>
  BY <1>6 DEF ReadGap, BrowserRecords, stt
<1>7. ASSUME NEW m \in BOOLEAN, SetMuted(m) PROVE UNCHANGED <<fin, heard>>
  BY <1>7 DEF SetMuted, stt
<1>8. ASSUME \/ HoldExpires \/ GraceExpires \/ LinkDown \/ Offer
             \/ Recover \/ Promote \/ SwitchBegins \/ SwitchCommits
      PROVE  UNCHANGED <<fin, heard>>
  BY <1>8 DEF HoldExpires, GraceExpires, LinkDown, Offer, Recover, Promote, SwitchBegins,
              SwitchCommits, stt
<1>9. ASSUME ReplyStarts \/ ReplyEnds \/ Interrupt \/ Interrupted \/ CancelSpeech \/ End
      PROVE  UNCHANGED <<fin, heard>>
  BY <1>9 DEF ReplyStarts, ReplyEnds, Interrupt, Interrupted, CancelSpeech, End, stt
<1> QED BY <1>1, <1>2, <1>3, <1>4, <1>5, <1>6, <1>7, <1>8, <1>9 DEF Next
-----------------------------------------------------------------------------
(* What a step does to the state of the call *)

StateInv == EndFits /\ SettlementFits /\ UnderstandingEnds

\* "thinking" comes from an admitted result or from before a reconnect
Earned ==
    (state' = "thinking" /\ state # "thinking" /\ state # "reconnecting") =>
        fin # None /\ fin.epoch = epoch /\ ~Terminal

\* The counts of a step that is no mute
Uncounted == audioEpoch' = audioEpoch /\ controls' = controls

LEMMA StateKept ==
  ASSUME StateInv, UNCHANGED <<state, before, phase, fin, settlement, orphaned>>,
         audioEpoch' <= controls'
  PROVE  StateInv' /\ Earned
BY DEF StateInv, EndFits, SettlementFits, UnderstandingEnds, Terminal, Earned

\* A step that leaves the transcription alone and shows no state that anybody waits for
LEMMA StateMoves ==
  ASSUME StateInv, UNCHANGED <<fin, settlement, orphaned>>, audioEpoch' <= controls',
         "understanding" \in {state', before'} => "understanding" \in {state, before},
         Terminal' => state' = "ended",
         state' = "thinking" => state \in {"thinking", "reconnecting"}
  PROVE  StateInv' /\ Earned
BY DEF StateInv, EndFits, SettlementFits, UnderstandingEnds, Earned

LEMMA StateTaken ==
  ASSUME StateInv, JustClaimed, ~Terminal, Uncounted,
         UNCHANGED <<before, phase, settlement, orphaned>>
  PROVE  StateInv' /\ Earned
BY DEF StateInv, EndFits, SettlementFits, UnderstandingEnds, Terminal, JustClaimed, Earned,
       Uncounted

LEMMA LiveState ==
  ASSUME TypeOK, HoldIsFresh, StateInv, NEW s \in Sounds,
         LiveFrame(s)
  PROVE  StateInv' /\ Earned
<1> DEFINE f == Captured(s)
           fs == held \o <<f>>
<1>1. fs \in Seq(Frames)
  BY CapturedIsFrame, HeldThenLive DEF LiveFrame, ReadFrame, Capture
<1>2. ~Terminal /\ Uncounted /\ audioEpoch <= controls
      /\ UNCHANGED <<before, phase, settlement, orphaned>>
  BY DEF LiveFrame, ReadFrame, MediaAdmitted, Terminal, Uncounted, mic, StateInv, EndFits
<1>3. UNCHANGED <<fin, state>> \/ TakesIn(fs, FALSE)
  BY DEF LiveFrame, TakesIn
<1>4. UNCHANGED <<fin, state>> \/ JustClaimed
  BY <1>1, <1>3, TakingIn
<1> QED BY <1>2, <1>4, StateKept, StateTaken DEF Uncounted

LEMMA BackfillState ==
  ASSUME TypeOK, HoldIsFresh, StateInv, Backfill
  PROVE  StateInv' /\ Earned
<1>1. Uncounted /\ audioEpoch <= controls /\ UNCHANGED <<before, phase, settlement, orphaned>>
  BY DEF Backfill, Uncounted, mic, StateInv, EndFits
<1>2. CASE Unforwarded \/ BackfillRefused
  BY <1>1, <1>2, StateKept DEF Unforwarded, BackfillRefused, Uncounted
<1>3. CASE BackfillTaken
  <2>1. PICK fs \in Seq(Frames) : TakesIn(fs, TRUE)
    BY <1>3, BackfillTakesIn
  <2>2. UNCHANGED <<fin, state>> \/ JustClaimed
    BY <2>1, TakingIn
  <2>3. ~Terminal
    BY <1>3 DEF BackfillTaken
  <2> QED BY <1>1, <2>2, <2>3, StateKept, StateTaken DEF Uncounted
<1> QED BY <1>2, <1>3 DEF Backfill

LEMMA SttState ==
  ASSUME TypeOK, StateInv, Stt
  PROVE  StateInv' /\ Earned
<1>1. /\ fin \in Finalizations /\ fin # None /\ orphaned \in BOOLEAN /\ state \in States
      /\ settlement \in Settlements \cup {None}
  BY DEF TypeOK, Stt, SttResult, Settle, Finish
<1>2. Uncounted /\ audioEpoch <= controls /\ UNCHANGED <<before, phase>>
      /\ (before = "understanding" => orphaned' = TRUE) /\ (orphaned => orphaned' = TRUE)
  BY <1>1 DEF Stt, SttResult, Settle, Finish, mic, Uncounted, StateInv, EndFits
<1>3. ASSUME NEW o \in Outcomes, SttResult(o) PROVE StateInv' /\ Earned
  <2>1. CASE Stale \/ o = "quiet"
    <3>1. /\ \/ fin' = [fin EXCEPT !.pc = "finishing"]
             \/ fin' = [fin EXCEPT !.pc = "skipped"]
          /\ state' = state /\ settlement' = settlement /\ fin.pc = "transcribing"
      BY <1>3, <2>1 DEF SttResult, Transcribed
    <3>2. /\ fin' # None /\ fin'.pc \in {"skipped", "finishing"}
          /\ fin'.owns = fin.owns /\ fin.owns
      <4>1. fin.owns
        BY <1>1, <3>1 DEF StateInv, SettlementFits
      <4>2. CASE fin' = [fin EXCEPT !.pc = "finishing"]
        BY <1>1, <4>1, <4>2, FinSteps, NoneAssumption
      <4>3. CASE fin' = [fin EXCEPT !.pc = "skipped"]
        BY <1>1, <4>1, <4>3, FinSteps, NoneAssumption
      <4> QED BY <3>1, <4>2, <4>3
    <3> QED BY <1>2, <3>1, <3>2 DEF StateInv, EndFits, SettlementFits, UnderstandingEnds,
                                    Terminal, Earned, Uncounted
  <2>2. CASE ~Stale /\ o # "quiet"
    <3>1. /\ fin' = [fin EXCEPT !.pc = "settling", !.owns = FALSE]
          /\ state' = IF o = "text" THEN "thinking" ELSE state
          /\ settlement' = [pending |-> state',
                            success |-> IF o = "text" THEN "thinking" ELSE "listening"]
      BY <1>3, <2>2 DEF SttResult, Transcribed
    <3>2. fin' # None /\ fin'.pc = "settling"
      BY <1>1, <3>1, FinSteps, NoneAssumption
    <3>3. state' \in States
      BY <1>1, <3>1 DEF States
    <3>4. /\ settlement' \in Settlements /\ settlement'.pending = state'
          /\ settlement'.success = IF o = "text" THEN "thinking" ELSE "listening"
      BY <3>1, <3>3 DEF Settlements, States
    <3>5. settlement' # None
      BY <3>4, NoneAssumption
    <3>6. ~Terminal /\ fin.epoch = epoch
      BY <2>2 DEF Stale
    <3>7. EndFits' /\ Earned
      BY <1>1, <1>2, <3>6 DEF EndFits, Terminal, Earned, Uncounted
    <3>8. SettlementFits'
      BY <3>1, <3>2, <3>4, <3>5 DEF SettlementFits
    <3>9. UnderstandingEnds'
      BY <1>2, <3>2, <3>4 DEF UnderstandingEnds
    <3> QED BY <3>7, <3>8, <3>9 DEF StateInv
  <2> QED BY <2>1, <2>2
<1>4. ASSUME Settle PROVE StateInv' /\ Earned
  <2>1. /\ fin.pc = "settling" /\ fin' = [fin EXCEPT !.pc = "finishing"] /\ settlement' = None
        /\ state' = IF ~Terminal /\ state = settlement.pending THEN settlement.success ELSE state
    BY <1>4 DEF Settle
  <2>2. fin' # None /\ fin'.pc = "finishing"
    BY <1>1, <2>1, FinSteps, NoneAssumption
  <2>3. /\ settlement # None /\ settlement.success \in {"thinking", "listening"}
        /\ settlement.success = "thinking" => settlement.pending = "thinking"
    BY <1>1, <2>1 DEF StateInv, SettlementFits
  <2>4. Terminal => state = "ended"
    BY DEF StateInv, EndFits
  <2>5. EndFits'
    BY <1>2, <2>1, <2>4 DEF EndFits, Terminal, Uncounted
  <2>6. Earned
    BY <2>1, <2>3 DEF Earned
  <2>7. UnderstandingEnds'
    <3>1. ASSUME "understanding" \in {state', before'}, orphaned' # TRUE PROVE FALSE
      <4>1. before # "understanding" /\ ~orphaned /\ state' = "understanding"
        BY <1>2, <3>1
      <4>2. state = "understanding"
        BY <2>1, <2>3, <4>1
      <4>3. settlement.pending = "understanding"
        BY <2>1, <4>1, <4>2 DEF StateInv, UnderstandingEnds
      <4>4. ~Terminal
        BY <2>4, <4>2
      <4> QED BY <2>1, <2>3, <4>1, <4>2, <4>3, <4>4
    <3> QED BY <3>1 DEF UnderstandingEnds
  <2>8. SettlementFits'
    BY <2>2 DEF SettlementFits
  <2> QED BY <2>5, <2>6, <2>7, <2>8 DEF StateInv
<1>5. ASSUME Finish PROVE StateInv' /\ Earned
  <2>1. /\ fin.pc \in {"skipped", "finishing"} /\ fin' = None
        /\ state' = IF fin.owns /\ state = "understanding" /\ ~Terminal
                    THEN IF phase = "reconnecting" THEN "reconnecting" ELSE "listening"
                    ELSE state
    BY <1>5 DEF Finish
  <2>2. Terminal => state = "ended"
    BY DEF StateInv, EndFits
  <2>3. EndFits' /\ Earned /\ SettlementFits'
    BY <1>2, <2>1, <2>2 DEF EndFits, Terminal, Uncounted, Earned, SettlementFits
  <2>4. UnderstandingEnds'
    <3>1. ASSUME "understanding" \in {state', before'}, orphaned' # TRUE PROVE FALSE
      <4>1. before # "understanding" /\ ~orphaned /\ state' = "understanding"
        BY <1>2, <3>1
      <4>2. state = "understanding"
        BY <2>1, <4>1
      <4>3. fin.owns
        BY <2>1, <4>1, <4>2 DEF StateInv, UnderstandingEnds
      <4> QED BY <2>1, <2>2, <4>1, <4>2, <4>3
    <3> QED BY <3>1 DEF UnderstandingEnds
  <2> QED BY <2>3, <2>4 DEF StateInv
<1> QED BY <1>3, <1>4, <1>5 DEF Stt
LEMMA StepState ==
  ASSUME TypeOK, HoldIsFresh, StateInv, Next
  PROVE  StateInv' /\ Earned
<1>1. audioEpoch <= controls /\ (Terminal => state = "ended") /\ audioEpoch \in Nat
      /\ controls \in Nat
  BY LimitsAssumption DEF StateInv, EndFits, TypeOK
<1>2. ASSUME NEW s \in Sounds, LiveFrame(s) PROVE StateInv' /\ Earned
  BY <1>2, LiveState
<1>3. ASSUME Backfill PROVE StateInv' /\ Earned
  BY <1>3, BackfillState
<1>4. ASSUME Stt PROVE StateInv' /\ Earned
  BY <1>4, SttState
<1>5. ASSUME NEW s \in Sounds, ReadGap(s) \/ BrowserRecords(s)
      PROVE  StateInv' /\ Earned
  BY <1>1, <1>5, StateKept DEF ReadGap, BrowserRecords, lifecycle, mic, stt
<1>6. ASSUME ReceiverGivesUp \/ BeginReconnect PROVE StateInv' /\ Earned
  <2>1. /\ state' \in {"reconnecting", state} /\ before' \in {before, state}
        /\ phase' # "terminal"
        /\ \/ fin' = fin
           \/ /\ fin # None /\ fin' # None
              /\ fin'.pc = fin.pc /\ fin'.owns = fin.owns
    BY <1>6, EnterReconnectFits DEF ReceiverGivesUp, BeginReconnect
  <2>2. Uncounted /\ UNCHANGED <<settlement, orphaned>>
    BY <1>6 DEF ReceiverGivesUp, BeginReconnect, mic, Uncounted
  <2> QED BY <1>1, <2>1, <2>2 DEF StateInv, EndFits, SettlementFits, UnderstandingEnds,
                                  Terminal, Earned, Uncounted
<1>7. ASSUME NEW m \in BOOLEAN, SetMuted(m) PROVE StateInv' /\ Earned
  <2>1. audioEpoch' <= controls'
    BY <1>1, <1>7 DEF SetMuted, Control
  <2> QED BY <1>7, <2>1, StateKept DEF SetMuted, lifecycle, stt
<1>8. ASSUME HoldExpires \/ GraceExpires \/ LinkDown \/ Offer PROVE StateInv' /\ Earned
  BY <1>1, <1>8, StateKept DEF HoldExpires, GraceExpires, LinkDown, Offer, lifecycle, mic, stt
<1>9. ASSUME Recover \/ Promote \/ SwitchCommits PROVE StateInv' /\ Earned
  <2>1. \/ state' \in {Restored(state), "listening"} /\ before' = None
        \/ state' = state /\ before' = before
    BY <1>9 DEF Recover, Promote, SwitchCommits
  <2>2. "understanding" \in {state', before'} => "understanding" \in {state, before}
    BY <2>1, RestoredFits, NoneAssumption DEF States
  <2>3. state' = "thinking" => state \in {"thinking", "reconnecting"}
    BY <2>1 DEF Restored
  <2>4. phase' = "stable" /\ UNCHANGED <<fin, settlement, orphaned>> /\ Uncounted
    BY <1>9 DEF Recover, Promote, SwitchCommits, mic, stt, Uncounted
  <2> QED BY <1>1, <2>2, <2>3, <2>4, StateMoves DEF Uncounted, Terminal
<1>10. ASSUME SwitchBegins PROVE StateInv' /\ Earned
  <2>1. /\ UNCHANGED <<state, before, fin, settlement, orphaned>> /\ Uncounted
        /\ phase' = "switching"
    BY <1>10 DEF SwitchBegins, mic, stt, Uncounted
  <2>2. state' = "thinking" => state \in {"thinking", "reconnecting"}
    BY <2>1
  <2> QED BY <1>1, <2>1, <2>2, StateMoves DEF Uncounted, Terminal
<1>11. ASSUME ReplyStarts \/ ReplyEnds \/ Interrupt \/ Interrupted \/ CancelSpeech
       PROVE StateInv' /\ Earned
  <2>1. /\ state' \in {"speaking", "listening", "interrupted"} /\ before' = before
        /\ phase' = phase /\ ~Terminal /\ audioEpoch' = audioEpoch
        /\ controls' \in {controls, controls + 1} /\ UNCHANGED <<fin, settlement, orphaned>>
    BY <1>1, <1>11 DEF ReplyStarts, ReplyEnds, Interrupt, Interrupted, CancelSpeech, Control,
                       mic, stt, Terminal
  <2>2. audioEpoch' <= controls'
    BY <1>1, <2>1
  <2>3. "understanding" \in {state', before'} => "understanding" \in {state, before}
    BY <2>1
  <2> QED BY <2>1, <2>2, <2>3, StateMoves DEF Terminal
<1>12. ASSUME End PROVE StateInv' /\ Earned
  <2>1. /\ state' = "ended" /\ before' = None /\ Uncounted
        /\ UNCHANGED <<fin, settlement, orphaned>>
    BY <1>12 DEF End, mic, stt, Uncounted
  <2>2. before' # "understanding"
    BY <2>1, NoneAssumption DEF States
  <2> QED BY <1>1, <2>1, <2>2, StateMoves DEF Uncounted
<1> QED BY <1>2, <1>3, <1>4, <1>5, <1>6, <1>7, <1>8, <1>9, <1>10, <1>11, <1>12 DEF Next
-----------------------------------------------------------------------------
(* The invariant and the theorems *)

LEMMA InitInv ==
  ASSUME Init
  PROVE  TurnInv
<1>1. 0 \in 0 .. MaxFrames /\ 0 \in 0 .. MaxDrops /\ 0 \in 0 .. MaxControls
      /\ 0 \in 0 .. MaxSends /\ 0 <= Preroll
  BY LimitsAssumption
<1>2. ClientOK
  <2>1. record = [frames |-> <<>>, from |-> 0, final |-> TRUE] /\ rolling = <<>>
    BY DEF Init
  <2>2. record \in Recording
    BY <1>1, <2>1, EmptyTurn DEF Recording
  <2>3. rolling \in Seq(Frames) /\ Len(rolling) <= Preroll
    BY <1>1, <2>1, EmptyTurn
  <2> QED BY <1>1, <2>2, <2>3 DEF Init, ClientOK
<1>3. TypeOK
  BY <1>1, <1>2, EmptyTurn DEF Init, ClientOK, TypeOK, States
<1>4. HoldIsFresh
  BY EmptyTurn DEF Init, HoldIsFresh, Fresh
<1>5. EndFits /\ SettlementFits /\ UnderstandingEnds /\ LoudIsHeard
  BY NoneAssumption DEF Init, EndFits, Terminal, SettlementFits, UnderstandingEnds, LoudIsHeard,
                        States
<1> QED BY <1>3, <1>4, <1>5 DEF TurnInv

\* What a step may not do
StepFits == OnlyNewComesIn /\ NoneIsLost /\ Earned

LEMMA StepInv ==
  ASSUME TurnInv, Next
  PROVE  TurnInv' /\ StepFits
<1>1. /\ TypeOK /\ HoldIsFresh /\ EndFits /\ SettlementFits /\ UnderstandingEnds
      /\ LoudIsHeard
  BY DEF TurnInv
<1>2. TypeOK'
  BY <1>1, StepTypes
<1>3. StateInv' /\ Earned
  BY <1>1, StepState DEF StateInv
<1>4. HoldIsFresh' /\ NoneIsLost /\ OnlyNewComesIn
  BY <1>1, StepInput, InputKeeps
<1>5. LoudIsHeard'
  BY <1>1, StepHeard
<1> QED BY <1>2, <1>3, <1>4, <1>5 DEF TurnInv, StateInv, StepFits

LEMMA StutterInv ==
  ASSUME TurnInv, UNCHANGED vars
  PROVE  TurnInv' /\ StepFits
<1>1. /\ TypeOK /\ HoldIsFresh /\ EndFits /\ SettlementFits /\ UnderstandingEnds
      /\ LoudIsHeard
  BY DEF TurnInv
<1>2. UNCHANGED <<lifecycle, mic, turn, guard, stt, client>>
  BY DEF vars
<1>3. ClientOK'
  BY <1>1, <1>2 DEF TypeOK, ClientOK, client
<1>4. UNCHANGED <<grace, hold, held>> /\ armed' \in {"no", "may", "yes"}
  BY <1>1, <1>2 DEF TypeOK, guard
<1>5. TypeOK'
  BY <1>1, <1>2, <1>3, <1>4, ClientTypes
<1>6. UNCHANGED <<state, before, phase, fin, settlement, orphaned, audioEpoch, controls, buffer,
                  held, heard>>
  BY <1>2 DEF lifecycle, mic, turn, guard, stt
<1>7. StateInv' /\ Earned
  BY <1>1, <1>6, StateKept DEF StateInv, EndFits
<1>8. Input
  BY <1>6 DEF InputKept, Input
<1>9. HoldIsFresh' /\ NoneIsLost /\ OnlyNewComesIn
  BY <1>1, <1>8, InputKeeps
<1>10. LoudIsHeard'
  BY <1>1, <1>6 DEF LoudIsHeard
<1> QED BY <1>5, <1>7, <1>9, <1>10 DEF TurnInv, StateInv, StepFits

LEMMA InvHolds == Spec => []TurnInv
<1>1. TurnInv /\ [Next]_vars => TurnInv'
  BY StepInv, StutterInv
<1> QED BY <1>1, InitInv, PTL DEF Spec

\* What belongs to an earlier state of the call is refused, however many mutes, losses and
\* repeated recordings there are: a frame from before a mute never becomes part of a turn
\* after it (set_muted, _hold_reconnect_live_frame_if_needed, the epoch of a recording),
\* and "thinking" comes only from a transcription that was admitted in the current
\* lifecycle of a running call (_stale_stt_turn_response_locked).
THEOREM EarlierInputIsRefused == Spec => StaleInputIsRefused
<1>1. TurnInv /\ [Next]_vars =>
        [\A f \in InTurn' \ InTurn : f.epoch = audioEpoch']_<<buffer, fin>>
  BY StepInv, StutterInv DEF StepFits, OnlyNewComesIn
<1>2. TurnInv /\ [Next]_vars =>
        [(state' = "thinking" /\ state # "thinking" /\ state # "reconnecting") =>
            fin # None /\ fin.epoch = epoch /\ ~Terminal]_state
  BY StepInv, StutterInv DEF StepFits, Earned
<1>3. Spec => MutedStaysOut
  BY <1>1, InvHolds, PTL DEF Spec, MutedStaysOut
<1>4. Spec => ThinkingIsEarned
  BY <1>2, InvHolds, PTL DEF Spec, ThinkingIsEarned
<1> QED BY <1>3, <1>4 DEF StaleInputIsRefused

\* A call that says "understanding" has somebody who transcribes, or a transcription ended
\* while a reconnect had put its state aside (_release_stt_admission_locked,
\* _complete_transport_reconnect_locked): there is no other way to be deaf.
THEOREM DeafnessHasOneCause == Spec => []DeafOnlyByReconnect
<1>1. TurnInv => DeafOnlyByReconnect
  BY DEF TurnInv, UnderstandingEnds, DeafOnlyByReconnect
<1> QED BY <1>1, InvHolds, PTL

\* No loud frame that was taken into a turn or put on hold is lost before the transcription
\* has heard it, but by a mute and with a turn that is nearly silent: what is cut off the end
\* of a turn is not loud, what leaves the hold goes into the turn, and what leaves the turn
\* goes to the transcription (_trim_trailing_silence_for_stt, _append_turn_frame,
\* _finalize_user_turn_admitted, set_muted).
THEOREM NoVoiceIsLost == Spec => VoicesAreTranscribed
<1>1. TurnInv /\ [Next]_vars => [NoneIsLost]_<<buffer, held, fin>>
  BY StepInv, StutterInv DEF StepFits
<1>2. Spec => [][NoneIsLost]_<<buffer, held, fin>>
  BY <1>1, InvHolds, PTL DEF Spec
<1> QED BY <1>2 DEF NoneIsLost, VoicesAreTranscribed
-----------------------------------------------------------------------------
(* The order of the frames of a turn *)

\* What two sequences are together.
LEMMA JoinedAt ==
  ASSUME NEW b \in Seq(Frames), NEW fs \in Seq(Frames), NEW i \in DOMAIN (b \o fs)
  PROVE  \/ i \in DOMAIN b /\ (b \o fs)[i] = b[i]
         \/ i \notin DOMAIN b /\ i - Len(b) \in DOMAIN fs /\ (b \o fs)[i] = fs[i - Len(b)]
<1>1. /\ DOMAIN (b \o fs) = 1 .. Len(b) + Len(fs)
      /\ (b \o fs)[i] = IF i <= Len(b) THEN b[i] ELSE fs[i - Len(b)]
  BY ConcatProperties
<1>2. Len(b) \in Nat /\ DOMAIN b = 1 .. Len(b) /\ Len(fs) \in Nat /\ DOMAIN fs = 1 .. Len(fs)
  OBVIOUS
<1>3. i \in 1 .. Len(b) + Len(fs)
  BY <1>1
<1>4. CASE i <= Len(b)
  <2>1. i \in DOMAIN b
    BY <1>2, <1>3, <1>4
  <2> QED BY <1>1, <1>4, <2>1
<1>5. CASE ~(i <= Len(b))
  <2>1. i \notin DOMAIN b /\ i - Len(b) \in DOMAIN fs
    BY <1>2, <1>3, <1>5
  <2> QED BY <1>1, <1>5, <2>1
<1> QED BY <1>4, <1>5

\* The times are numbers.
LEMMA FrameTime == ASSUME NEW f \in Frames PROVE f.t \in Nat /\ f.t > 0
BY LimitsAssumption DEF Frames

LEMMA InTheSet ==
  ASSUME NEW fs \in Seq(Frames), NEW i \in DOMAIN fs
  PROVE  fs[i] \in ToSet(fs) /\ fs[i] \in Frames /\ i \in Nat /\ Len(fs) \in Nat
<1>1. fs[i] \in Frames /\ i \in Nat /\ Len(fs) \in Nat
  OBVIOUS
<1> QED BY <1>1 DEF ToSet

\* Two sequences in order, the second behind the first.
LEMMA JoinOrder ==
  ASSUME NEW b \in Seq(Frames), NEW fs \in Seq(Frames), NEW k \in Nat,
         InOrderSince(k, b), InOrderSince(k, fs),
         \A f \in ToSet(b), g \in ToSet(fs) : f.t > k /\ g.t > k => f.t < g.t
  PROVE  InOrderSince(k, b \o fs)
<1> DEFINE c == b \o fs
<1> SUFFICES ASSUME NEW i \in DOMAIN c, NEW j \in DOMAIN c, i < j, c[i].t > k, c[j].t > k
             PROVE  c[i].t < c[j].t
  BY DEF InOrderSince
<1>1. /\ \/ i \in DOMAIN b /\ c[i] = b[i]
         \/ i \notin DOMAIN b /\ i - Len(b) \in DOMAIN fs /\ c[i] = fs[i - Len(b)]
      /\ \/ j \in DOMAIN b /\ c[j] = b[j]
         \/ j \notin DOMAIN b /\ j - Len(b) \in DOMAIN fs /\ c[j] = fs[j - Len(b)]
  BY JoinedAt
<1>2. /\ i \in Nat /\ j \in Nat /\ Len(b) \in Nat /\ DOMAIN b = 1 .. Len(b)
  <2>1. c \in Seq(Frames) /\ Len(b) \in Nat /\ DOMAIN b = 1 .. Len(b)
    BY JoinedFrames
  <2> HIDE DEF c
  <2> QED BY <2>1, InTheSet
<1> HIDE DEF c
<1>3. CASE i \in DOMAIN b /\ j \in DOMAIN b
  BY <1>1, <1>3 DEF InOrderSince
<1>4. CASE i \in DOMAIN b /\ j \notin DOMAIN b
  BY <1>1, <1>4, InTheSet
<1>5. CASE i \notin DOMAIN b /\ j \notin DOMAIN b
  <2>1. i - Len(b) < j - Len(b)
    BY <1>2
  <2> QED BY <1>1, <1>5, <2>1 DEF InOrderSince
<1>6. ~(i \notin DOMAIN b /\ j \in DOMAIN b)
  <2>1. i >= 1
    <3>1. i \in DOMAIN b \/ i - Len(b) \in DOMAIN fs
      BY <1>1
    <3>2. CASE i \in DOMAIN b
      BY <1>2, <3>2
    <3>3. CASE i - Len(b) \in DOMAIN fs
      <4>1. i - Len(b) >= 1
        BY <3>3
      <4> QED BY <1>2, <4>1
    <3> QED BY <3>1, <3>2, <3>3
  <2> QED BY <1>2, <2>1
<1> QED BY <1>3, <1>4, <1>5, <1>6

\* A part of a sequence is in order.
LEMMA PartInOrder ==
  ASSUME NEW fs \in Seq(Frames), NEW m \in Nat, NEW k \in Nat, 0 < m, InOrderSince(k, fs)
  PROVE  InOrderSince(k, SubSeq(fs, m, Len(fs)))
<1>1. Len(fs) \in Nat /\ DOMAIN fs = 1 .. Len(fs) /\ \A i \in 1 .. Len(fs) : fs[i] \in Frames
  OBVIOUS
<1> DEFINE part == SubSeq(fs, m, Len(fs))
<1>2. \A i \in m .. Len(fs) : fs[i] \in Frames
  BY <1>1
<1>3. /\ part \in Seq(Frames)
      /\ Len(part) = (IF m <= Len(fs) THEN Len(fs) - m + 1 ELSE 0)
      /\ \A i \in 1 .. Len(fs) - m + 1 : part[i] = fs[m + i - 1]
  BY <1>1, <1>2, SubSeqProperties
<1>4. DOMAIN part = 1 .. Len(part)
  BY <1>3
<1> HIDE DEF part
<1> SUFFICES ASSUME NEW i \in DOMAIN part, NEW j \in DOMAIN part, i < j,
                    part[i].t > k, part[j].t > k
             PROVE  part[i].t < part[j].t
  BY DEF InOrderSince, part
<1>5. i \in 1 .. Len(fs) - m + 1 /\ j \in 1 .. Len(fs) - m + 1
  BY <1>1, <1>3, <1>4
<1>6. part[i] = fs[m + i - 1] /\ part[j] = fs[m + j - 1]
  BY <1>3, <1>5
<1>7. m + i - 1 \in 1 .. Len(fs) /\ m + j - 1 \in 1 .. Len(fs) /\ m + i - 1 < m + j - 1
  <2> DEFINE l == Len(fs)
  <2>1. l \in Nat /\ i \in 1 .. l - m + 1 /\ j \in 1 .. l - m + 1
    BY <1>1, <1>5
  <2> HIDE DEF l
  <2>2. m + i - 1 \in 1 .. l /\ m + j - 1 \in 1 .. l /\ m + i - 1 < m + j - 1
    BY <2>1
  <2> QED BY <2>2 DEF l
<1>8. DOMAIN fs = 1 .. Len(fs)
  BY <1>1
<1> QED BY <1>6, <1>7, <1>8 DEF InOrderSince

LEMMA EmptyInOrder ==
  ASSUME NEW k \in Nat
  PROVE  InOrderSince(k, <<>>)
<1>1. DOMAIN <<>> = {}
  OBVIOUS
<1> QED BY <1>1 DEF InOrderSince

LEMMA OneInOrder ==
  ASSUME NEW k \in Nat, NEW f \in Frames
  PROVE  InOrderSince(k, <<f>>)
<1>1. DOMAIN <<f>> = {1}
  OBVIOUS
<1> QED BY <1>1 DEF InOrderSince

\* Captured one after the other
InOrder(fs) == InOrderSince(0, fs)

LEMMA InOrderEver ==
  ASSUME NEW fs \in Seq(Frames), NEW k \in Nat, InOrder(fs)
  PROVE  InOrderSince(k, fs)
<1> SUFFICES ASSUME NEW i \in DOMAIN fs, NEW j \in DOMAIN fs, i < j PROVE fs[i].t < fs[j].t
  BY DEF InOrderSince
<1>1. fs[i].t > 0 /\ fs[j].t > 0
  BY InTheSet, FrameTime
<1> QED BY <1>1 DEF InOrder, InOrderSince

\* The newest frame goes last.
LEMMA NewestLast ==
  ASSUME NEW b \in Seq(Frames), NEW f \in Frames, NEW k \in Nat, InOrderSince(k, b),
         \A g \in ToSet(b) : g.t < f.t
  PROVE  InOrderSince(k, b \o <<f>>) /\ InOrderSince(k, Append(b, f))
<1>1. <<f>> \in Seq(Frames) /\ ToSet(<<f>>) = {f} /\ InOrderSince(k, <<f>>)
  BY OneFrame, OneInOrder
<1>2. \A g \in ToSet(b), h \in ToSet(<<f>>) : g.t > k /\ h.t > k => g.t < h.t
  BY <1>1
<1>3. InOrderSince(k, b \o <<f>>)
  BY <1>1, <1>2, JoinOrder
<1>4. Append(b, f) = b \o <<f>>
  BY AppendIsConcat
<1> QED BY <1>3, <1>4

LEMMA AppendedFrames ==
  ASSUME NEW b \in Seq(Frames), NEW f \in Frames
  PROVE  Append(b, f) \in Seq(Frames) /\ ToSet(Append(b, f)) = ToSet(b) \cup {f}
<1>1. <<f>> \in Seq(Frames) /\ ToSet(<<f>>) = {f}
  BY OneFrame
<1>2. Append(b, f) = b \o <<f>>
  BY AppendIsConcat
<1> QED BY <1>1, <1>2, JoinedFrames

\* The last frames of a sequence
LEMMA LastInOrder ==
  ASSUME NEW fs \in Seq(Frames), NEW n \in Nat, InOrder(fs)
  PROVE  InOrder(LastOf(fs, n)) /\ ToSet(LastOf(fs, n)) \subseteq ToSet(fs)
<1>1. Len(fs) \in Nat
  OBVIOUS
<1> DEFINE m == IF Len(fs) > n THEN Len(fs) - n + 1 ELSE 1
<1>2. m \in Nat /\ 0 < m
  BY <1>1
<1>3. LastOf(fs, n) = SubSeq(fs, m, Len(fs))
  BY DEF LastOf
<1> HIDE DEF m
<1>4. ToSet(SubSeq(fs, m, Len(fs))) \subseteq ToSet(fs)
  BY <1>1, <1>2, PartOfFrames
<1>5. InOrderSince(0, SubSeq(fs, m, Len(fs)))
  BY <1>2, PartInOrder DEF InOrder
<1> QED BY <1>3, <1>4, <1>5 DEF InOrder

\* No frame of a sequence is there twice, but for those of a set.
OnceBut(fs, R) == \A i, j \in DOMAIN fs : fs[i] = fs[j] => i = j \/ fs[i] \in R

LEMMA InOrderOnce ==
  ASSUME NEW fs \in Seq(Frames), NEW R, InOrder(fs)
  PROVE  OnceBut(fs, R)
<1>1. InOrderSince(0, fs)
  BY DEF InOrder
<1> SUFFICES ASSUME NEW i \in DOMAIN fs, NEW j \in DOMAIN fs, fs[i] = fs[j], i # j PROVE FALSE
  BY DEF OnceBut
<1>2. /\ i \in Nat /\ j \in Nat /\ fs[i] \in Frames /\ fs[j] \in Frames
  BY InTheSet
<1>3. fs[i].t \in Nat /\ fs[i].t > 0
  BY <1>2, FrameTime
<1>4. CASE i < j
  <2>1. fs[i].t < fs[j].t
    BY <1>1, <1>3, <1>4 DEF InOrderSince
  <2> QED BY <1>3, <2>1
<1>5. CASE j < i
  <2>1. fs[j].t < fs[i].t
    BY <1>1, <1>3, <1>5 DEF InOrderSince
  <2> QED BY <1>3, <2>1
<1> QED BY <1>2, <1>4, <1>5

LEMMA JoinOnce ==
  ASSUME NEW b \in Seq(Frames), NEW fs \in Seq(Frames), NEW R, OnceBut(b, R), OnceBut(fs, R),
         ToSet(b) \cap ToSet(fs) \subseteq R
  PROVE  OnceBut(b \o fs, R)
<1> DEFINE c == b \o fs
<1> SUFFICES ASSUME NEW i \in DOMAIN c, NEW j \in DOMAIN c, c[i] = c[j] PROVE i = j \/ c[i] \in R
  BY DEF OnceBut
<1>1. /\ \/ i \in DOMAIN b /\ c[i] = b[i]
         \/ i \notin DOMAIN b /\ i - Len(b) \in DOMAIN fs /\ c[i] = fs[i - Len(b)]
      /\ \/ j \in DOMAIN b /\ c[j] = b[j]
         \/ j \notin DOMAIN b /\ j - Len(b) \in DOMAIN fs /\ c[j] = fs[j - Len(b)]
  BY JoinedAt
<1>2. i \in Nat /\ j \in Nat /\ Len(b) \in Nat
  <2>1. c \in Seq(Frames) /\ Len(b) \in Nat
    BY JoinedFrames
  <2> HIDE DEF c
  <2> QED BY <2>1, InTheSet
<1> HIDE DEF c
<1>3. CASE i \in DOMAIN b /\ j \in DOMAIN b
  BY <1>1, <1>3 DEF OnceBut
<1>4. CASE i \in DOMAIN b /\ j \notin DOMAIN b
  <2>1. c[i] \in ToSet(b) /\ c[j] \in ToSet(fs)
    BY <1>1, <1>4, InTheSet
  <2> QED BY <2>1
<1>5. CASE i \notin DOMAIN b /\ j \in DOMAIN b
  <2>1. c[i] \in ToSet(fs) /\ c[j] \in ToSet(b)
    BY <1>1, <1>5, InTheSet
  <2> QED BY <2>1
<1>6. CASE i \notin DOMAIN b /\ j \notin DOMAIN b
  <2>1. i - Len(b) = j - Len(b) \/ c[i] \in R
    BY <1>1, <1>6 DEF OnceBut
  <2> QED BY <1>2, <2>1
<1> QED BY <1>3, <1>4, <1>5, <1>6

\* What enters behind a turn changes the count of none that it does not hold.
LEMMA JoinTimes ==
  ASSUME NEW b \in Seq(Frames), NEW fs \in Seq(Frames), NEW f, f \notin ToSet(fs)
  PROVE  Times(f, b \o fs) = Times(f, b)
<1> DEFINE c == b \o fs
<1>1. ASSUME NEW j \in DOMAIN c, c[j] = f PROVE j \in DOMAIN b /\ b[j] = f
  BY <1>1, JoinedAt, InTheSet
<1>2. ASSUME NEW j \in DOMAIN b, b[j] = f PROVE j \in DOMAIN c /\ c[j] = f
  <2>1. /\ DOMAIN c = 1 .. Len(b) + Len(fs)
        /\ \A i \in 1 .. Len(b) + Len(fs) : c[i] = IF i <= Len(b) THEN b[i] ELSE fs[i - Len(b)]
    BY ConcatProperties
  <2>2. Len(b) \in Nat /\ DOMAIN b = 1 .. Len(b) /\ Len(fs) \in Nat
    OBVIOUS
  <2>3. j \in 1 .. Len(b) + Len(fs) /\ j <= Len(b)
    BY <1>2, <2>2
  <2> HIDE DEF c
  <2> QED BY <1>2, <2>1, <2>3
<1> HIDE DEF c
<1>3. {j \in DOMAIN c : c[j] = f} = {j \in DOMAIN b : b[j] = f}
  BY <1>1, <1>2
<1> QED BY <1>3 DEF Times, c
-----------------------------------------------------------------------------
(* Losses of the transport *)

\* The recording and the frames of the microphone are in order, and old.  What the recording
\* took from before its loss may come again.
ClientOrder ==
    /\ InOrder(record.frames) /\ InOrder(rolling)
    /\ \A f \in ToSet(record.frames) \cup ToSet(rolling) : f.t <= clock
    /\ record.from <= clock /\ (sends = 0 => ~applied)
    /\ \A f \in ToSet(record.frames) : f.t > record.from \/ f \in again

\* What was ever taken into a turn that matters still.
TakenFrames == InTurn \cup heard
AllPast == \A f \in TakenFrames \cup ToSet(held) : f.t <= clock

\* The recording of the gap was not taken in before it is on record, and is not on hold.
GapFrames == {f \in ToSet(record.frames) : f.t > record.from}
GapIsNew ==
    /\ ~applied => GapFrames \cap TakenFrames = {}
    /\ GapFrames \cap ToSet(held) = {}

\* No frame has two places, but for those that may come again.
OnePlace ==
    /\ OnceBut(buffer, again) /\ OnceBut(Given, again) /\ InOrder(held)
    /\ ToSet(held) \cap TakenFrames \subseteq again
    /\ ToSet(buffer) \cap (ToSet(Given) \cup heard) \subseteq again
    /\ fin # None /\ fin.pc = "transcribing" => ToSet(fin.frames) \cap heard \subseteq again

OnceInv == ClientOrder /\ AllPast /\ GapIsNew /\ OnePlace

\* The hold is yet to be set for the new track: no frame of it was read.
Waiting == armed = "may" /\ (link # "up" \/ receiver = "first")
Guarded == armed = "yes"

\* What is on hold is newer than all that was taken in and all that was recorded.
HeldIsLatest == \A f \in ToSet(held), g \in TakenFrames \cup ToSet(record.frames) : g.t < f.t

\* In the turn, nothing but the recording is from after the loss.
OnlyGap == \A f \in ToSet(buffer) : f.t > record.from => f \in ToSet(record.frames)
TurnInOrder == InOrderSince(record.from, buffer) /\ InOrderSince(record.from, Given)

\* A hold that was set for the new track and not cut short is released by the recording.
GapOrder ==
    /\ phase = "switching" => link = "offered"
    /\ Waiting => held = <<>> /\ TurnInOrder /\ OnlyGap
    /\ Guarded =>
          /\ link = "up" /\ receiver # "first" /\ hold # "expired"
          /\ hold = "off" => applied \/ record.frames = <<>>
          /\ TurnInOrder /\ HeldIsLatest
          /\ hold = "on" => OnlyGap

GapInv == OnceInv /\ GapOrder

\* What the types say about the frames.
LEMMA TurnFrames ==
  ASSUME TypeOK
  PROVE  /\ buffer \in Seq(Frames) /\ held \in Seq(Frames) /\ rolling \in Seq(Frames)
         /\ record.frames \in Seq(Frames) /\ record.from \in Nat /\ clock \in Nat
         /\ Given \in Seq(Frames) /\ heard \subseteq Frames /\ again \subseteq Frames
         /\ InTurn = ToSet(buffer) \cup ToSet(Given)
         /\ TakenFrames \subseteq Frames /\ ToSet(held) \subseteq Frames
         /\ ToSet(record.frames) \subseteq Frames
         /\ hold = "off" => held = <<>>
<1>1. /\ buffer \in Seq(Frames) /\ held \in Seq(Frames) /\ rolling \in Seq(Frames)
      /\ heard \subseteq Frames /\ again \subseteq Frames
      /\ hold = "off" => held = <<>>
  BY DEF TypeOK
<1>2. /\ record.frames \in Seq(Frames) /\ record.from \in Nat
  BY LimitsAssumption DEF TypeOK, Recording
<1>3. clock \in Nat
  BY LimitsAssumption DEF TypeOK
<1>4. Given \in Seq(Frames)
  BY EmptyTurn DEF TypeOK, Finalizations, Given
<1>5. \A fs \in Seq(Frames) : ToSet(fs) \subseteq Frames
  BY DEF ToSet
<1>6. InTurn = ToSet(buffer) \cup ToSet(Given)
  BY EmptyTurn DEF InTurn, Given
<1>7. /\ TakenFrames \subseteq Frames /\ ToSet(held) \subseteq Frames
      /\ ToSet(record.frames) \subseteq Frames
  BY <1>1, <1>2, <1>4, <1>5, <1>6 DEF TakenFrames
<1> QED BY <1>1, <1>2, <1>3, <1>4, <1>6, <1>7

LEMMA OnceMore ==
  ASSUME NEW fs \in Seq(Frames), NEW R, NEW Q, R \subseteq Q, OnceBut(fs, R)
  PROVE  OnceBut(fs, Q)
BY DEF OnceBut

LEMMA EmptyOnce == ASSUME NEW R PROVE OnceBut(<<>>, R)
<1>1. DOMAIN <<>> = {}
  OBVIOUS
<1> QED BY <1>1 DEF OnceBut

\* A step that takes in nothing and leaves the recording alone
GapKept ==
    /\ UNCHANGED <<record, again, applied>> /\ clock' \in {clock, clock + 1}
    /\ buffer' \in {buffer, <<>>} /\ held' \in {held, <<>>} /\ Given' \in {Given, <<>>}
    /\ heard \subseteq heard' /\ heard' \subseteq heard \cup ToSet(Given)
    /\ fin' # None /\ fin'.pc = "transcribing" =>
          fin # None /\ fin.pc = "transcribing" /\ fin'.frames = fin.frames /\ heard' = heard

LEMMA KeptFrames ==
  ASSUME TypeOK, TypeOK', GapKept
  PROVE  /\ ToSet(buffer') \subseteq ToSet(buffer) /\ TakenFrames' \subseteq TakenFrames
         /\ ToSet(held') \subseteq ToSet(held) /\ ToSet(Given') \subseteq ToSet(Given)
<1>1. /\ ToSet(buffer') \subseteq ToSet(buffer) /\ ToSet(held') \subseteq ToSet(held)
      /\ ToSet(Given') \subseteq ToSet(Given)
  BY EmptyTurn DEF GapKept
<1>2. InTurn = ToSet(buffer) \cup ToSet(Given) /\ InTurn' = ToSet(buffer') \cup ToSet(Given')
  <2>1. InTurn' = ToSet(buffer') \cup ToSet(Given')
    BY EmptyTurn DEF InTurn, Given
  <2> QED BY <2>1, TurnFrames
<1>3. heard' \subseteq heard \cup ToSet(Given)
  BY DEF GapKept
<1> QED BY <1>1, <1>2, <1>3 DEF TakenFrames

LEMMA KeptOnce ==
  ASSUME TypeOK, TypeOK', OnceInv, GapKept, ClientOrder'
  PROVE  OnceInv'
<1>1. /\ ToSet(buffer') \subseteq ToSet(buffer) /\ TakenFrames' \subseteq TakenFrames
      /\ ToSet(held') \subseteq ToSet(held) /\ ToSet(Given') \subseteq ToSet(Given)
  BY KeptFrames
<1>2. AllPast'
  <2> SUFFICES ASSUME NEW f \in TakenFrames \cup ToSet(held) PROVE f.t <= clock'
    BY <1>1 DEF AllPast
  <2>1. f.t <= clock
    BY DEF OnceInv, AllPast
  <2>2. f.t \in Nat /\ clock \in Nat
    BY TurnFrames, FrameTime
  <2> QED BY <2>1, <2>2 DEF GapKept
<1>3. GapIsNew'
  <2>1. GapFrames' = GapFrames /\ applied' = applied
    BY DEF GapKept, GapFrames
  <2> QED BY <1>1, <2>1 DEF OnceInv, GapIsNew
<1>4. OnePlace'
  <2>1. again' = again /\ OnePlace
    BY DEF GapKept, OnceInv
  <2>2. OnceBut(buffer', again) /\ OnceBut(Given', again) /\ InOrder(held')
    BY <2>1, EmptyOnce, EmptyInOrder DEF GapKept, OnePlace, InOrder
  <2>3. ToSet(held') \cap TakenFrames' \subseteq again
    BY <1>1, <2>1 DEF OnePlace
  <2>4. ToSet(buffer') \cap (ToSet(Given') \cup heard') \subseteq again
    BY <1>1, <2>1 DEF OnePlace, GapKept
  <2>5. fin' # None /\ fin'.pc = "transcribing" => ToSet(fin'.frames) \cap heard' \subseteq again
    BY <2>1 DEF OnePlace, GapKept
  <2> QED BY <2>1, <2>2, <2>3, <2>4, <2>5 DEF OnePlace
<1> QED BY <1>2, <1>3, <1>4 DEF OnceInv

\* Frames that enter the turn
EntersOnce(fs) ==
    /\ UNCHANGED <<record, again, heard>> /\ clock' \in {clock, clock + 1}
    /\ held' \in {held, <<>>}
    /\ OnceBut(fs, again) /\ ToSet(fs) \cap TakenFrames \subseteq again
    /\ ToSet(fs) \cap ToSet(held') \subseteq again
    /\ \A f \in ToSet(fs) : f.t <= clock'
    /\ ~applied' => ~applied /\ GapFrames \cap ToSet(fs) = {}

LEMMA EntersKeeps ==
  ASSUME TypeOK, TypeOK', OnceInv, NEW fs \in Seq(Frames), NEW allow \in BOOLEAN,
         TakesIn(fs, allow), EntersOnce(fs), ClientOrder'
  PROVE  OnceInv'
<1>1. /\ InTurn' = InTurn \cup ToSet(fs)
      /\ \/ buffer' = buffer \o fs /\ fin' = fin
         \/ buffer' = <<>> /\ JustClaimed /\ fin'.frames = buffer \o fs
  BY TakingIn
<1>2. /\ again' = again /\ heard' = heard /\ ToSet(held') \subseteq ToSet(held)
      /\ TakenFrames' = TakenFrames \cup ToSet(fs)
  BY <1>1, EmptyTurn DEF EntersOnce, TakenFrames
<1>3. AllPast'
  <2> SUFFICES ASSUME NEW f \in TakenFrames \cup ToSet(held) PROVE f.t <= clock'
    BY <1>2 DEF AllPast, EntersOnce
  <2>1. f.t <= clock
    BY DEF OnceInv, AllPast
  <2>2. f.t \in Nat /\ clock \in Nat
    BY TurnFrames, FrameTime
  <2> QED BY <2>1, <2>2 DEF EntersOnce
<1>4. GapIsNew'
  <2>1. GapFrames' = GapFrames
    BY DEF EntersOnce, GapFrames
  <2> QED BY <1>2, <2>1 DEF OnceInv, GapIsNew, EntersOnce
<1>5. /\ buffer \in Seq(Frames) /\ InTurn = ToSet(buffer) \cup ToSet(Given)
      /\ ToSet(buffer \o fs) = ToSet(buffer) \cup ToSet(fs)
      /\ ToSet(fs) \cap (ToSet(buffer) \cup ToSet(Given) \cup heard) \subseteq again
      /\ OnePlace
  BY TurnFrames, JoinedFrames DEF EntersOnce, TakenFrames, OnceInv
<1>6. OnceBut(buffer \o fs, again)
  <2>1. ToSet(buffer) \cap ToSet(fs) \subseteq again /\ OnceBut(fs, again)
    BY <1>5 DEF EntersOnce
  <2> QED BY <1>5, <2>1, JoinOnce DEF OnePlace
<1>7. ToSet(held') \cap TakenFrames' \subseteq again /\ InOrder(held')
  BY <1>2, <1>5, EmptyInOrder DEF OnePlace, EntersOnce, InOrder
<1>8. CASE buffer' = buffer \o fs /\ fin' = fin
  <2>1. Given' = Given
    BY <1>8 DEF Given
  <2>2. ToSet(buffer') \cap (ToSet(Given) \cup heard) \subseteq again
    BY <1>5, <1>8 DEF OnePlace
  <2>3. OnePlace'
    BY <1>2, <1>5, <1>6, <1>7, <1>8, <2>1, <2>2 DEF OnePlace
  <2> QED BY <1>3, <1>4, <2>3 DEF OnceInv
<1>9. CASE buffer' = <<>> /\ JustClaimed /\ fin'.frames = buffer \o fs
  <2>1. Given' = buffer \o fs
    BY <1>9 DEF Given, JustClaimed
  <2>2. ToSet(buffer') = {} /\ OnceBut(buffer', again)
    BY <1>9, EmptyTurn, EmptyOnce
  <2>3. ToSet(fin'.frames) \cap heard \subseteq again
    BY <1>5, <1>9 DEF OnePlace
  <2>4. OnePlace'
    BY <1>2, <1>6, <1>7, <2>1, <2>2, <2>3 DEF OnePlace
  <2> QED BY <1>3, <1>4, <2>4 DEF OnceInv
<1> QED BY <1>1, <1>8, <1>9

\* A frame that is new goes on hold.
LEMMA HoldsOnce ==
  ASSUME TypeOK, TypeOK', OnceInv, NEW f \in Frames, f.t = clock + 1, clock' = clock + 1,
         held' = Append(held, f), UNCHANGED <<record, again, applied, buffer, fin, heard>>,
         ClientOrder'
  PROVE  OnceInv'
<1>t. /\ held \in Seq(Frames) /\ clock \in Nat /\ TakenFrames \subseteq Frames
      /\ ToSet(held) \subseteq Frames /\ ToSet(record.frames) \subseteq Frames
  BY TurnFrames
<1>1. ToSet(held') = ToSet(held) \cup {f}
  BY <1>t, AppendedFrames
<1>2. TakenFrames' = TakenFrames /\ Given' = Given /\ GapFrames' = GapFrames
  BY DEF TakenFrames, InTurn, Given, GapFrames
<1>3. \A g \in TakenFrames \cup ToSet(held) \cup ToSet(record.frames) :
         g.t < f.t /\ g.t <= clock' /\ g # f
  <2> SUFFICES ASSUME NEW g \in TakenFrames \cup ToSet(held) \cup ToSet(record.frames)
               PROVE  g.t < f.t /\ g.t <= clock'
    BY <1>t, FrameTime
  <2>1. g.t <= clock
    BY DEF OnceInv, AllPast, ClientOrder
  <2>2. g.t \in Nat
    BY <1>t, FrameTime
  <2> QED BY <1>t, <2>1, <2>2
<1>4. AllPast'
  BY <1>1, <1>2, <1>3, <1>t DEF AllPast
<1>5. GapIsNew'
  BY <1>1, <1>2, <1>3 DEF GapIsNew, GapFrames, OnceInv
<1>6. InOrder(held')
  BY <1>t, <1>3, NewestLast DEF InOrder, OnceInv, OnePlace
<1>7. OnePlace'
  BY <1>1, <1>2, <1>3, <1>6 DEF OnePlace, OnceInv
<1> QED BY <1>4, <1>5, <1>7 DEF OnceInv


\* A step that takes in nothing keeps the order, if it does not take the hold from under it.
LEMMA KeptOrder ==
  ASSUME TypeOK, TypeOK', GapOrder, GapKept, phase' = "switching" => link' = "offered",
         Waiting' => Waiting,
         Guarded' => Guarded /\ link' = "up" /\ receiver' # "first" /\ hold' = hold
  PROVE  GapOrder'
<1>1. /\ ToSet(buffer') \subseteq ToSet(buffer) /\ TakenFrames' \subseteq TakenFrames
      /\ ToSet(held') \subseteq ToSet(held) /\ record' = record /\ applied' = applied
  BY KeptFrames DEF GapKept
<1>2. TurnInOrder => TurnInOrder'
  <2>1. InOrderSince(record.from, <<>>)
    BY TurnFrames, EmptyInOrder
  <2> QED BY <1>1, <2>1 DEF GapKept, TurnInOrder
<1>3. (OnlyGap => OnlyGap') /\ (HeldIsLatest => HeldIsLatest')
  BY <1>1 DEF OnlyGap, HeldIsLatest
<1>4. held = <<>> => held' = <<>>
  BY DEF GapKept
<1> QED BY <1>1, <1>2, <1>3, <1>4 DEF GapOrder

LEMMA ClientKept ==
  ASSUME ClientOrder, UNCHANGED <<record, again, sends, applied, clock>>,
         rolling' \in {rolling, <<>>}
  PROVE  ClientOrder'
<1>1. InOrder(rolling') /\ ToSet(rolling') \subseteq ToSet(rolling)
  BY EmptyInOrder, EmptyTurn DEF ClientOrder, InOrder
<1>2. InOrder(record'.frames)
  BY DEF ClientOrder
<1>3. \A f \in ToSet(record'.frames) \cup ToSet(rolling') : f.t <= clock'
  BY <1>1 DEF ClientOrder
<1> QED BY <1>1, <1>2, <1>3 DEF ClientOrder, InOrder

\* The frame that is captured is the newest.
LEMMA CaptureOrder ==
  ASSUME TypeOK, ClientOrder, NEW s \in Sounds, Capture(s)
  PROVE  /\ Captured(s) \in Frames /\ Captured(s).t = clock + 1 /\ clock' = clock + 1
         /\ InOrder(rolling') /\ \A f \in ToSet(rolling') : f.t <= clock'
<1> DEFINE f == Captured(s)
           r == Append(rolling, f)
<1>1. f \in Frames /\ f.t = clock + 1 /\ clock' = clock + 1
  BY CapturedIsFrame DEF Capture, Captured
<1> HIDE DEF f
<1>2. rolling \in Seq(Frames) /\ clock \in Nat /\ Preroll \in Nat
  BY TurnFrames, LimitsAssumption
<1>3. InOrderSince(0, rolling) /\ \A g \in ToSet(rolling) : g.t <= clock /\ g.t \in Nat
  <2>1. ToSet(rolling) \subseteq Frames
    BY <1>2 DEF ToSet
  <2> QED BY <2>1, FrameTime DEF ClientOrder, InOrder
<1>4. r \in Seq(Frames) /\ ToSet(r) = ToSet(rolling) \cup {f}
  BY <1>1, <1>2, AppendedFrames
<1>5. InOrder(r)
  <2>1. \A g \in ToSet(rolling) : g.t < f.t
    BY <1>1, <1>2, <1>3
  <2> QED BY <1>1, <1>2, <1>3, <2>1, NewestLast DEF InOrder
<1>6. \A g \in ToSet(r) : g.t <= clock + 1
  BY <1>1, <1>2, <1>3, <1>4
<1>7. rolling' = rolling \/ rolling' = LastOf(r, Preroll)
  BY DEF Capture, f
<1> HIDE DEF r
<1>8. InOrder(LastOf(r, Preroll)) /\ ToSet(LastOf(r, Preroll)) \subseteq ToSet(r)
  BY <1>2, <1>4, <1>5, LastInOrder
<1>9. InOrder(rolling') /\ \A g \in ToSet(rolling') : g.t <= clock + 1
  BY <1>2, <1>3, <1>6, <1>7, <1>8 DEF InOrder
<1> QED BY <1>1, <1>9 DEF f

\* A frame is captured, and the recording stays as it is.
LEMMA CaptureClient ==
  ASSUME TypeOK, ClientOrder, NEW s \in Sounds, Capture(s),
         UNCHANGED <<record, again, sends, applied>>
  PROVE  ClientOrder'
<1>1. /\ clock' = clock + 1 /\ InOrder(rolling')
      /\ \A f \in ToSet(rolling') : f.t <= clock'
  BY CaptureOrder
<1>2. clock \in Nat /\ record.from \in Nat /\ ToSet(record.frames) \subseteq Frames
  BY TurnFrames
<1>3. \A f \in ToSet(record.frames) : f.t <= clock + 1
  <2>1. \A f \in Frames : f.t \in Nat
    BY FrameTime
  <2> QED BY <1>2, <2>1 DEF ClientOrder
<1>4. record.from <= clock + 1
  BY <1>2 DEF ClientOrder
<1> QED BY <1>1, <1>3, <1>4 DEF ClientOrder, InOrder

\* Frames enter in order if they are in order behind the turn.
LEMMA TakenInOrder ==
  ASSUME TypeOK, NEW fs \in Seq(Frames), NEW allow \in BOOLEAN, TakesIn(fs, allow),
         TurnInOrder, InOrder(fs), UNCHANGED record,
         \A f \in ToSet(buffer), g \in ToSet(fs) :
            f.t > record.from /\ g.t > record.from => f.t < g.t
  PROVE  TurnInOrder'
<1>1. buffer \in Seq(Frames) /\ record.from \in Nat
  BY TurnFrames
<1>2. InOrderSince(record.from, fs) /\ InOrderSince(record.from, buffer)
  BY <1>1, InOrderEver DEF TurnInOrder
<1>3. InOrderSince(record.from, buffer \o fs)
  BY <1>1, <1>2, JoinOrder
<1>4. InOrderSince(record.from, <<>>)
  BY <1>1, EmptyInOrder
<1>5. \/ buffer' = buffer \o fs /\ Given' = Given
      \/ buffer' = <<>> /\ Given' = buffer \o fs
  BY TakingIn DEF Given, JustClaimed
<1> QED BY <1>3, <1>4, <1>5 DEF TurnInOrder

\* A captured frame is newer than all that came before it.
LEMMA LatestFrame ==
  ASSUME TypeOK, OnceInv, NEW f \in Frames, f.t = clock + 1
  PROVE  \A g \in TakenFrames \cup ToSet(held) \cup ToSet(record.frames) : g.t < f.t
<1> SUFFICES ASSUME NEW g \in TakenFrames \cup ToSet(held) \cup ToSet(record.frames)
             PROVE  g.t < f.t
  OBVIOUS
<1>1. g.t <= clock
  BY DEF OnceInv, AllPast, ClientOrder
<1>2. g.t \in Nat /\ clock \in Nat
  BY TurnFrames, FrameTime
<1> QED BY <1>1, <1>2

\* A frame of the track: dropped, put on hold, or taken in behind what was on hold.
LEMMA LiveGap ==
  ASSUME TypeOK, TypeOK', GapInv, NEW s \in Sounds, LiveFrame(s)
  PROVE  GapInv'
<1> DEFINE f == Captured(s)
           fs == held \o <<f>>
           start == Started(receiver = "first")
<1>c. Capture(s) /\ link = "up" /\ link' = link
      /\ UNCHANGED <<phase, record, again, sends, applied, heard>>
  BY DEF LiveFrame, ReadFrame
<1>1. /\ f \in Frames /\ f.t = clock + 1 /\ clock' = clock + 1
      /\ ClientOrder'
  BY <1>c, CaptureOrder, CaptureClient DEF GapInv, OnceInv
<1>2. /\ receiver' \in {"idle", "blocked"}
      /\ armed' = IF start /\ armed = "may" THEN "yes" ELSE armed
      /\ \/ /\ hold' = (IF start THEN "on" ELSE hold) /\ held' = held
            /\ UNCHANGED <<buffer, fin>>
         \/ /\ (IF start THEN "on" ELSE hold) = "on" /\ hold' = "on" /\ held' = Append(held, f)
            /\ UNCHANGED <<buffer, fin>>
         \/ /\ ~start /\ hold # "on" /\ hold' = "off" /\ held' = <<>> /\ TakesIn(fs, FALSE)
  BY DEF LiveFrame, TakesIn, turn
<1>s. start => receiver = "first"
  BY DEF Started
<1> HIDE DEF f, start
<1>t. /\ buffer \in Seq(Frames) /\ held \in Seq(Frames) /\ clock \in Nat /\ record.from \in Nat
      /\ TakenFrames \subseteq Frames /\ ToSet(held) \subseteq Frames
      /\ ToSet(record.frames) \subseteq Frames
      /\ hold = "off" => held = <<>>
  BY TurnFrames
<1>n. \A g \in TakenFrames \cup ToSet(held) \cup ToSet(record.frames) : g.t < f.t /\ g # f
  BY <1>1, <1>t, LatestFrame DEF GapInv
<1>3. OnceInv /\ GapOrder
  BY DEF GapInv
<1>4. /\ ~Waiting' /\ link' = "up" /\ receiver' # "first"
      /\ phase' = "switching" => link' = "offered"
  BY <1>c, <1>2, <1>3 DEF Waiting, GapOrder
<1>5. Guarded' => (start /\ Waiting) \/ (~start /\ Guarded)
  BY <1>c, <1>2, <1>s, <1>3 DEF Guarded, Waiting, GapOrder
<1>6. CASE /\ hold' = (IF start THEN "on" ELSE hold) /\ held' = held
           /\ UNCHANGED <<buffer, fin>>
  <2>1. GapKept
    BY <1>c, <1>1, <1>6 DEF GapKept, Given
  <2>2. OnceInv'
    BY <1>1, <1>3, <2>1, KeptOnce
  <2>3. CASE ~start
    BY <1>3, <1>4, <1>5, <1>6, <2>1, <2>2, <2>3, KeptOrder DEF GapInv
  <2>4. CASE start
    <3>1. Guarded' => /\ hold' = "on" /\ held' = <<>>
                      /\ TurnInOrder' /\ HeldIsLatest' /\ OnlyGap'
      <4> SUFFICES ASSUME Guarded' PROVE /\ hold' = "on" /\ held' = <<>>
                                         /\ TurnInOrder' /\ HeldIsLatest' /\ OnlyGap'
        OBVIOUS
      <4>1. held = <<>> /\ TurnInOrder /\ OnlyGap
        BY <1>3, <1>5, <2>4 DEF GapOrder
      <4>2. TurnInOrder' /\ OnlyGap'
        BY <1>c, <1>6, <4>1 DEF TurnInOrder, OnlyGap, Given
      <4> QED BY <1>6, <2>4, <4>1, <4>2, EmptyTurn DEF HeldIsLatest
    <3> QED BY <1>4, <2>2, <3>1 DEF GapInv, GapOrder
  <2> QED BY <2>3, <2>4
<1>7. CASE /\ (IF start THEN "on" ELSE hold) = "on" /\ hold' = "on" /\ held' = Append(held, f)
           /\ UNCHANGED <<buffer, fin>>
  <2>1. OnceInv'
    BY <1>c, <1>1, <1>3, <1>7, HoldsOnce
  <2>2. Guarded' => TurnInOrder' /\ HeldIsLatest' /\ OnlyGap'
    <3> SUFFICES ASSUME Guarded' PROVE TurnInOrder' /\ HeldIsLatest' /\ OnlyGap'
      OBVIOUS
    <3>1. TurnInOrder /\ OnlyGap /\ HeldIsLatest
      <4>1. CASE start
        BY <1>3, <1>5, <4>1, EmptyTurn DEF GapOrder, HeldIsLatest
      <4>2. CASE ~start
        BY <1>3, <1>5, <1>7, <4>2 DEF GapOrder
      <4> QED BY <4>1, <4>2
    <3>2. TurnInOrder' /\ OnlyGap'
      BY <1>c, <1>7, <3>1 DEF TurnInOrder, OnlyGap, Given
    <3>3. ToSet(held') = ToSet(held) \cup {f} /\ TakenFrames' = TakenFrames
      <4>1. ToSet(Append(held, f)) = ToSet(held) \cup {f}
        BY <1>1, <1>t, AppendedFrames
      <4> QED BY <1>c, <1>7, <4>1 DEF TakenFrames, InTurn
    <3>4. HeldIsLatest'
      BY <1>c, <1>n, <3>1, <3>3 DEF HeldIsLatest
    <3> QED BY <3>2, <3>4
  <2> QED BY <1>4, <1>7, <2>1, <2>2 DEF GapInv, GapOrder
<1>8. CASE ~start /\ hold # "on" /\ hold' = "off" /\ held' = <<>> /\ TakesIn(fs, FALSE)
  <2>1. <<f>> \in Seq(Frames) /\ ToSet(<<f>>) = {f}
    BY <1>1, OneFrame
  <2>2. fs \in Seq(Frames) /\ ToSet(fs) = ToSet(held) \cup {f}
    BY <1>t, <2>1, JoinedFrames
  <2>3. InOrder(held) /\ OnePlace /\ AllPast
    BY <1>3 DEF OnceInv, OnePlace
  <2>4. InOrder(fs)
    BY <1>1, <1>n, <1>t, <2>3, NewestLast DEF InOrder
  <2> HIDE DEF fs
  <2>5. EntersOnce(fs)
    <3>1. OnceBut(fs, again)
      BY <2>2, <2>4, InOrderOnce
    <3>2. ToSet(fs) \cap TakenFrames \subseteq again
      BY <1>n, <2>2, <2>3 DEF OnePlace
    <3>3. ToSet(held') = {}
      BY <1>8, EmptyTurn
    <3>4. \A g \in ToSet(fs) : g.t <= clock'
      <4>1. \A g \in Frames : g.t \in Nat
        BY FrameTime
      <4> QED BY <1>1, <1>t, <2>2, <2>3, <4>1 DEF AllPast
    <3>5. GapFrames \cap ToSet(fs) = {}
      BY <1>3, <1>n, <2>2 DEF OnceInv, GapIsNew, GapFrames
    <3> QED BY <1>c, <1>1, <1>8, <3>1, <3>2, <3>3, <3>4, <3>5 DEF EntersOnce
  <2>6. OnceInv'
    BY <1>1, <1>3, <1>8, <2>2, <2>5, EntersKeeps
  <2>7. Guarded' => /\ applied' \/ record'.frames = <<>>
                    /\ TurnInOrder' /\ HeldIsLatest'
    <3> SUFFICES ASSUME Guarded' PROVE /\ applied' \/ record'.frames = <<>>
                                       /\ TurnInOrder' /\ HeldIsLatest'
      OBVIOUS
    <3>1. /\ hold # "expired" /\ TurnInOrder
          /\ hold = "off" => applied \/ record.frames = <<>>
      BY <1>3, <1>5, <1>8 DEF GapOrder
    <3>2. hold = "off" /\ held = <<>>
      BY <1>8, <1>t, <3>1 DEF TypeOK
    <3>3. ToSet(fs) = {f}
      BY <2>2, <3>2, EmptyTurn
    <3>4. \A g \in ToSet(buffer), h \in ToSet(fs) :
             g.t > record.from /\ h.t > record.from => g.t < h.t
      BY <1>n, <1>t, <3>3, TurnFrames DEF TakenFrames
    <3>5. TurnInOrder'
      BY <1>c, <1>8, <2>2, <2>4, <3>1, <3>4, TakenInOrder
    <3>6. HeldIsLatest'
      BY <1>8, EmptyTurn DEF HeldIsLatest
    <3> QED BY <1>c, <3>1, <3>2, <3>5, <3>6
  <2> QED BY <1>4, <1>8, <2>6, <2>7 DEF GapInv, GapOrder
<1> QED BY <1>2, <1>6, <1>7, <1>8

\* What is spliced into the turn: the rest of the recording and what was on hold.
LEMMA SplicedParts ==
  ASSUME TypeOK, NEW n \in Nat
  PROVE  LET rest == SubSeq(record.frames, n + 1, Len(record.frames))
             tail == IF record.final THEN held ELSE <<>>
         IN  /\ Spliced(n) = rest \o tail /\ rest \in Seq(Frames) /\ tail \in Seq(Frames)
             /\ ToSet(rest) \subseteq ToSet(record.frames)
             /\ ToSet(tail) = IF record.final THEN ToSet(held) ELSE {}
             /\ Spliced(n) \in Seq(Frames)
             /\ ToSet(Spliced(n)) = ToSet(rest) \cup ToSet(tail)
<1> DEFINE rest == SubSeq(record.frames, n + 1, Len(record.frames))
           tail == IF record.final THEN held ELSE <<>>
<1>1. record.frames \in Seq(Frames) /\ held \in Seq(Frames)
  BY TurnFrames
<1>2. rest \in Seq(Frames) /\ ToSet(rest) \subseteq ToSet(record.frames)
  <2>1. Len(record.frames) \in Nat /\ n + 1 \in Nat /\ 0 < n + 1
    BY <1>1
  <2> QED BY <1>1, <2>1, PartOfFrames
<1>3. tail \in Seq(Frames) /\ ToSet(tail) = IF record.final THEN ToSet(held) ELSE {}
  BY <1>1, EmptyTurn
<1>4. Spliced(n) = rest \o tail
  BY DEF Spliced
<1> HIDE DEF rest, tail
<1>5. rest \o tail \in Seq(Frames) /\ ToSet(rest \o tail) = ToSet(rest) \cup ToSet(tail)
  BY <1>2, <1>3, JoinedFrames
<1> QED BY <1>2, <1>3, <1>4, <1>5 DEF rest, tail

LEMMA SplicedInOrder ==
  ASSUME TypeOK, ClientOrder, InOrder(held), NEW n \in Nat,
         \A f \in ToSet(record.frames), g \in ToSet(held) : f.t < g.t
  PROVE  InOrder(Spliced(n))
<1> DEFINE rest == SubSeq(record.frames, n + 1, Len(record.frames))
           tail == IF record.final THEN held ELSE <<>>
<1>1. /\ Spliced(n) = rest \o tail /\ rest \in Seq(Frames) /\ tail \in Seq(Frames)
      /\ ToSet(rest) \subseteq ToSet(record.frames)
      /\ ToSet(tail) = IF record.final THEN ToSet(held) ELSE {}
  BY SplicedParts
<1>2. record.frames \in Seq(Frames) /\ InOrderSince(0, record.frames)
  BY TurnFrames DEF ClientOrder, InOrder
<1>3. InOrderSince(0, rest)
  BY <1>2, PartInOrder
<1>4. InOrderSince(0, tail)
  BY EmptyInOrder DEF InOrder
<1> HIDE DEF rest, tail
<1>5. \A f \in ToSet(rest), g \in ToSet(tail) : f.t < g.t
  BY <1>1
<1>6. InOrderSince(0, rest \o tail)
  BY <1>1, <1>3, <1>4, <1>5, JoinOrder
<1> QED BY <1>1, <1>6 DEF InOrder

\* None of it stands twice, in the turn or on hold, but what may come again.
LEMMA SplicedOnce ==
  ASSUME TypeOK, OnceInv, ~applied, NEW n \in Nat
  PROVE  /\ OnceBut(Spliced(n), again)
         /\ ToSet(Spliced(n)) \subseteq ToSet(record.frames) \cup ToSet(held)
         /\ ~record.final => ToSet(Spliced(n)) \subseteq ToSet(record.frames)
         /\ ToSet(Spliced(n)) \cap TakenFrames \subseteq again
         /\ ToSet(record.frames) \cap ToSet(held) \subseteq again
<1> DEFINE rest == SubSeq(record.frames, n + 1, Len(record.frames))
           tail == IF record.final THEN held ELSE <<>>
<1>1. /\ Spliced(n) = rest \o tail /\ rest \in Seq(Frames) /\ tail \in Seq(Frames)
      /\ ToSet(rest) \subseteq ToSet(record.frames)
      /\ ToSet(tail) = IF record.final THEN ToSet(held) ELSE {}
      /\ ToSet(Spliced(n)) = ToSet(rest) \cup ToSet(tail)
  BY SplicedParts
<1>2. ClientOrder /\ GapIsNew /\ OnePlace
  BY DEF OnceInv
<1>3. record.frames \in Seq(Frames) /\ InOrderSince(0, record.frames) /\ InOrderSince(0, held)
  BY <1>2, TurnFrames DEF ClientOrder, OnePlace, InOrder
<1>4. InOrder(rest) /\ InOrder(tail)
  BY <1>3, PartInOrder, EmptyInOrder DEF InOrder
<1>5. /\ ToSet(record.frames) \cap ToSet(held) \subseteq again
      /\ ToSet(record.frames) \cap TakenFrames \subseteq again
      /\ ToSet(held) \cap TakenFrames \subseteq again
  BY <1>2 DEF ClientOrder, GapIsNew, GapFrames, OnePlace
<1> HIDE DEF rest, tail
<1>6. OnceBut(rest, again) /\ OnceBut(tail, again)
  BY <1>1, <1>4, InOrderOnce
<1>7. ToSet(rest) \cap ToSet(tail) \subseteq again
  BY <1>1, <1>5
<1>8. OnceBut(rest \o tail, again)
  BY <1>1, <1>6, <1>7, JoinOnce
<1> QED BY <1>1, <1>5, <1>8

\* What the steps of a backfill leave.
LEMMA BackfillFrame ==
  ASSUME TypeOK, Backfill
  PROVE  /\ sends' # 0
         /\ UNCHANGED <<phase, armed, receiver, link, rolling, record, again, heard, clock>>
         /\ \/ UNCHANGED <<buffer, fin, hold, held>> /\ (applied => applied')
            \/ /\ ~applied /\ (record.frames = <<>> \/ applied')
               /\ IF record.final THEN hold' = "off" /\ held' = <<>> ELSE UNCHANGED <<hold, held>>
               /\ \E n \in Nat : TakesIn(Spliced(n), TRUE)
<1>1. sends' # 0
  <2>1. sends \in Nat
    BY LimitsAssumption DEF TypeOK
  <2> QED BY <2>1 DEF Backfill, BackfillRequest
<1>2. UNCHANGED <<phase, receiver, link, rolling, record, again, heard, clock>>
  BY DEF Backfill
<1>3. CASE Unforwarded
  BY <1>1, <1>2, <1>3 DEF Unforwarded, turn, guard
<1>4. CASE BackfillRefused
  <2>1. UNCHANGED <<buffer, fin, hold, held, armed>>
    BY <1>4 DEF BackfillRefused, turn, guard
  <2>2. applied => applied'
    BY <1>4 DEF BackfillRefused, Noted
  <2> QED BY <1>1, <1>2, <2>1, <2>2
<1>5. CASE BackfillTaken
  <2>1. PICK n \in Overlaps :
           LET a == Appended(buffer, Spliced(n))
           IN  IF EndsWith(a, Spliced(n), grace) THEN Claim(a, TRUE)
               ELSE SetTurn(a) /\ UNCHANGED <<fin, state>>
    BY <1>5 DEF BackfillTaken
  <2>2. n \in Nat
    <3>1. Len(record.frames) \in Nat
      BY TurnFrames
    <3> QED BY <3>1, LimitsAssumption DEF Overlaps
  <2>3. TakesIn(Spliced(n), TRUE)
    BY <2>1 DEF TakesIn
  <2>4. /\ ~applied /\ (record.frames = <<>> \/ applied')
        /\ IF record.final THEN hold' = "off" /\ held' = <<>> ELSE UNCHANGED <<hold, held>>
        /\ UNCHANGED armed
    BY <1>5 DEF BackfillTaken, Noted
  <2> QED BY <1>1, <1>2, <2>2, <2>3, <2>4
<1> QED BY <1>3, <1>4, <1>5 DEF Backfill

\* A recording is taken in once, in front of what is on hold.
LEMMA BackfillGap ==
  ASSUME TypeOK, TypeOK', GapInv, Backfill
  PROVE  GapInv'
<1>1. OnceInv /\ GapOrder /\ ClientOrder /\ AllPast /\ GapIsNew /\ OnePlace
  BY DEF GapInv, OnceInv
<1>2. /\ sends' # 0
      /\ UNCHANGED <<phase, armed, receiver, link, rolling, record, again, heard, clock>>
  BY BackfillFrame
<1>3. ClientOrder'
  BY <1>1, <1>2 DEF ClientOrder, InOrder, InOrderSince
<1>w. Waiting' = Waiting /\ Guarded' = Guarded /\ GapFrames' = GapFrames
  BY <1>2 DEF Waiting, Guarded, GapFrames
<1>4. CASE UNCHANGED <<buffer, fin, hold, held>> /\ (applied => applied')
  <2>1. TakenFrames' = TakenFrames /\ Given' = Given
    BY <1>2, <1>4 DEF TakenFrames, InTurn, Given
  <2>2. AllPast' /\ GapIsNew'
    BY <1>1, <1>2, <1>4, <1>w, <2>1 DEF AllPast, GapIsNew
  <2>3. OnePlace'
    BY <1>1, <1>2, <1>4, <2>1 DEF OnePlace
  <2>4. (TurnInOrder => TurnInOrder') /\ (OnlyGap => OnlyGap') /\ (HeldIsLatest => HeldIsLatest')
    BY <1>2, <1>4, <2>1 DEF TurnInOrder, OnlyGap, HeldIsLatest
  <2>5. GapOrder'
    BY <1>1, <1>2, <1>4, <1>w, <2>4 DEF GapOrder
  <2> QED BY <1>3, <2>2, <2>3, <2>5 DEF GapInv, OnceInv
<1>5. CASE /\ ~applied /\ (record.frames = <<>> \/ applied')
           /\ IF record.final THEN hold' = "off" /\ held' = <<>> ELSE UNCHANGED <<hold, held>>
           /\ \E n \in Nat : TakesIn(Spliced(n), TRUE)
  <2>1. PICK n \in Nat : TakesIn(Spliced(n), TRUE)
    BY <1>5
  <2> DEFINE fs == Spliced(n)
  <2>2. /\ fs \in Seq(Frames) /\ TakesIn(fs, TRUE)
        /\ OnceBut(fs, again)
        /\ ToSet(fs) \subseteq ToSet(record.frames) \cup ToSet(held)
        /\ ~record.final => ToSet(fs) \subseteq ToSet(record.frames)
        /\ ToSet(fs) \cap TakenFrames \subseteq again
        /\ ToSet(record.frames) \cap ToSet(held) \subseteq again
    BY <1>1, <1>5, <2>1, SplicedParts, SplicedOnce
  <2>3. (\A f \in ToSet(record.frames), g \in ToSet(held) : f.t < g.t) => InOrder(fs)
    BY <1>1, SplicedInOrder DEF OnePlace
  <2> HIDE DEF fs
  <2>4. /\ InTurn' = InTurn \cup ToSet(fs)
        /\ ToSet(buffer') \subseteq ToSet(buffer) \cup ToSet(fs)
    <3>1. /\ InTurn' = InTurn \cup ToSet(fs)
          /\ buffer' = buffer \o fs \/ buffer' = <<>>
      BY <2>2, TakingIn
    <3>2. ToSet(buffer \o fs) = ToSet(buffer) \cup ToSet(fs)
      BY <2>2, TurnFrames, JoinedFrames
    <3> QED BY <3>1, <3>2, EmptyTurn
  <2>5. EntersOnce(fs)
    <3>1. held' \in {held, <<>>} /\ ToSet(fs) \cap ToSet(held') \subseteq again
      BY <1>5, <2>2, EmptyTurn
    <3>2. \A f \in ToSet(fs) : f.t <= clock'
      BY <1>1, <1>2, <2>2 DEF AllPast, ClientOrder
    <3>3. ~applied' => GapFrames = {}
      BY <1>5, EmptyTurn DEF GapFrames
    <3> QED BY <1>2, <1>5, <2>2, <3>1, <3>2, <3>3 DEF EntersOnce
  <2>6. OnceInv'
    BY <1>1, <1>3, <2>2, <2>5, EntersKeeps
  <2>7. OnlyGap => \A f \in ToSet(buffer) : ~(f.t > record.from)
    BY <1>1, <1>5, TurnFrames DEF OnlyGap, GapIsNew, GapFrames, TakenFrames
  <2>8. ASSUME TurnInOrder, InOrder(fs), OnlyGap \/ ToSet(fs) = {}
        PROVE  TurnInOrder'
    BY <1>2, <2>2, <2>7, <2>8, TakenInOrder
  <2>9. OnlyGap /\ ToSet(fs) \subseteq ToSet(record.frames) => OnlyGap'
    BY <1>2, <2>4 DEF OnlyGap
  <2>10. Waiting => held' = <<>> /\ TurnInOrder' /\ OnlyGap'
    <3> SUFFICES ASSUME Waiting PROVE held' = <<>> /\ TurnInOrder' /\ OnlyGap'
      OBVIOUS
    <3>1. held = <<>> /\ TurnInOrder /\ OnlyGap
      BY <1>1 DEF GapOrder
    <3>2. ToSet(held) = {} /\ held' = <<>>
      BY <1>5, <3>1, EmptyTurn
    <3> QED BY <2>2, <2>3, <2>8, <2>9, <3>1, <3>2
  <2>11. Guarded => /\ hold' # "expired" /\ (hold' = "off" => applied' \/ record'.frames = <<>>)
                    /\ TurnInOrder' /\ HeldIsLatest' /\ (hold' = "on" => OnlyGap')
    <3> SUFFICES ASSUME Guarded
                 PROVE  /\ hold' # "expired"
                        /\ hold' = "off" => applied' \/ record'.frames = <<>>
                        /\ TurnInOrder' /\ HeldIsLatest' /\ (hold' = "on" => OnlyGap')
      OBVIOUS
    <3>1. /\ hold # "expired" /\ TurnInOrder /\ HeldIsLatest
          /\ hold = "off" => record.frames = <<>>
          /\ hold = "on" => OnlyGap
      BY <1>1, <1>5 DEF GapOrder
    <3>2. hold \in {"off", "on", "expired"} /\ (hold = "off" => held = <<>>)
      BY TurnFrames DEF TypeOK
    <3>3. InOrder(fs)
      BY <2>3, <3>1 DEF HeldIsLatest
    <3>4. TurnInOrder'
      BY <2>2, <2>8, <3>1, <3>2, <3>3, EmptyTurn
    <3>5. HeldIsLatest'
      <4>1. CASE record.final
        BY <1>5, <4>1, EmptyTurn DEF HeldIsLatest
      <4>2. CASE ~record.final
        BY <1>2, <1>5, <2>2, <2>4, <3>1, <4>2 DEF HeldIsLatest, TakenFrames
      <4> QED BY <4>1, <4>2
    <3>6. hold' = "on" => OnlyGap'
      BY <1>5, <2>2, <2>9, <3>1
    <3> QED BY <1>2, <1>5, <3>1, <3>4, <3>5, <3>6
  <2>12. GapOrder'
    BY <1>1, <1>2, <1>w, <2>10, <2>11 DEF GapOrder
  <2> QED BY <2>6, <2>12 DEF GapInv
<1> QED BY <1>4, <1>5, BackfillFrame

\* The browser records a frame: the hold waits for the new track.
LEMMA RecordsGap ==
  ASSUME TypeOK, TypeOK', GapInv, NEW s \in Sounds, BrowserRecords(s)
  PROVE  GapInv'
<1> DEFINE f == Captured(s)
           new == Append(record.frames, f)
<1>1. ClientOrder /\ AllPast /\ GapIsNew /\ OnePlace /\ GapOrder /\ OnceInv
  BY DEF GapInv, OnceInv
<1>2. /\ f \in Frames /\ f.t = clock + 1 /\ clock' = clock + 1
      /\ InOrder(rolling') /\ \A g \in ToSet(rolling') : g.t <= clock'
  BY <1>1, CaptureOrder DEF BrowserRecords
<1>3. /\ link # "up" /\ sends = 0 /\ link' = link
      /\ UNCHANGED <<phase, buffer, held, hold, armed, receiver, fin, heard, again, sends, applied>>
  BY DEF BrowserRecords, lifecycle, turn, guard, stt
<1>4. record'.frames = new /\ record'.from = record.from
  <2>1. record' = [record EXCEPT !.frames = new] /\ record \in Recording
    BY DEF BrowserRecords, TypeOK
  <2> HIDE DEF new
  <2> QED BY <2>1 DEF Recording
<1> HIDE DEF f
<1>t. /\ record.frames \in Seq(Frames) /\ record.from \in Nat /\ clock \in Nat
      /\ TakenFrames \subseteq Frames /\ ToSet(record.frames) \subseteq Frames
      /\ ToSet(held) \subseteq Frames
  BY TurnFrames
<1>5. new \in Seq(Frames) /\ ToSet(new) = ToSet(record.frames) \cup {f}
  BY <1>2, <1>t, AppendedFrames
<1>6. \A g \in TakenFrames \cup ToSet(held) \cup ToSet(record.frames) : g.t < f.t /\ g # f
  BY <1>1, <1>2, <1>t, LatestFrame
<1>7. InOrder(new)
  BY <1>1, <1>2, <1>6, <1>t, NewestLast DEF ClientOrder, InOrder
<1> HIDE DEF new
<1>8. record.from < f.t
  BY <1>1, <1>2, <1>t DEF ClientOrder
<1>9. \A g \in TakenFrames \cup ToSet(held) \cup ToSet(record.frames) : g.t <= clock'
  <2>1. \A g \in Frames : g.t \in Nat
    BY FrameTime
  <2> QED BY <1>1, <1>2, <1>t, <2>1 DEF AllPast, ClientOrder
<1>10. ClientOrder'
  <2>1. \A g \in ToSet(record'.frames) \cup ToSet(rolling') : g.t <= clock'
    BY <1>2, <1>4, <1>5, <1>9, <1>t
  <2>2. record'.from <= clock'
    BY <1>1, <1>2, <1>4, <1>t DEF ClientOrder
  <2>3. \A g \in ToSet(record'.frames) : g.t > record'.from \/ g \in again'
    BY <1>1, <1>3, <1>4, <1>5, <1>8 DEF ClientOrder
  <2> QED BY <1>1, <1>2, <1>3, <1>4, <1>7, <2>1, <2>2, <2>3 DEF ClientOrder, InOrder
<1>11. TakenFrames' = TakenFrames /\ Given' = Given
  BY <1>3 DEF TakenFrames, InTurn, Given
<1>12. AllPast'
  BY <1>3, <1>9, <1>11 DEF AllPast
<1>13. GapIsNew'
  <2>1. GapFrames' \subseteq GapFrames \cup {f}
    BY <1>4, <1>5 DEF GapFrames
  <2> QED BY <1>1, <1>3, <1>6, <1>11, <2>1 DEF GapIsNew
<1>14. OnePlace'
  BY <1>1, <1>3, <1>11 DEF OnePlace
<1>15. GapOrder'
  <2>1. Waiting' = Waiting /\ ~Guarded /\ ~Guarded'
    BY <1>1, <1>3 DEF Waiting, Guarded, GapOrder
  <2>2. TurnInOrder => TurnInOrder'
    BY <1>3, <1>4, <1>11 DEF TurnInOrder
  <2>3. OnlyGap => OnlyGap'
    BY <1>3, <1>4, <1>5 DEF OnlyGap
  <2> QED BY <1>1, <1>3, <2>1, <2>2, <2>3 DEF GapOrder
<1> QED BY <1>10, <1>12, <1>13, <1>14, <1>15 DEF GapInv, OnceInv

\* The transport is lost.  A new recording begins with frames of before, and the hold may
\* come to keep its place; with the recording of the loss before it does not.
LEMMA LossGap ==
  ASSUME TypeOK, TypeOK', GapInv, LinkDown
  PROVE  GapInv'
<1>1. ClientOrder /\ AllPast /\ GapIsNew /\ OnePlace /\ GapOrder /\ OnceInv
  BY DEF GapInv, OnceInv
<1>2. /\ link = "up" /\ phase # "switching" /\ rolling' \in {rolling, <<>>}
      /\ UNCHANGED <<phase, buffer, held, hold, receiver, fin, heard, clock>>
  BY <1>1 DEF LinkDown, lifecycle, turn, stt, GapOrder
<1>3. \/ armed' = "no" /\ UNCHANGED <<record, again, sends, applied>>
      \/ /\ record'.frames = SelectBackfill /\ record'.from = clock
         /\ again' = again \cup ToSet(SelectBackfill)
         /\ armed' = (IF held = <<>> THEN "may" ELSE "no")
         /\ sends' = 0 /\ applied' = FALSE
  <2>1. PICK same \in {FALSE, drops > 0}, final \in BOOLEAN :
           IF same THEN armed' = "no" /\ UNCHANGED <<record, again, sends, applied>>
           ELSE /\ record' = [frames |-> SelectBackfill, from |-> clock, final |-> final]
                /\ again' = again \cup ToSet(SelectBackfill)
                /\ armed' = IF held = <<>> THEN "may" ELSE "no"
                /\ sends' = 0 /\ applied' = FALSE
    BY DEF LinkDown
  <2>2. CASE same
    BY <2>1, <2>2
  <2>3. CASE ~same
    BY <2>1, <2>3
  <2> QED BY <2>2, <2>3
<1>4. CASE armed' = "no" /\ UNCHANGED <<record, again, sends, applied>>
  <2>1. GapKept
    BY <1>2, <1>4 DEF GapKept, Given
  <2>2. OnceInv'
    BY <1>1, <1>2, <1>4, <2>1, ClientKept, KeptOnce
  <2>3. ~Waiting' /\ ~Guarded' /\ phase' # "switching"
    BY <1>2, <1>4 DEF Waiting, Guarded
  <2> QED BY <2>2, <2>3 DEF GapInv, GapOrder
<1>5. CASE /\ record'.frames = SelectBackfill /\ record'.from = clock
           /\ again' = again \cup ToSet(SelectBackfill)
           /\ armed' = (IF held = <<>> THEN "may" ELSE "no")
           /\ sends' = 0 /\ applied' = FALSE
  <2>t. /\ buffer \in Seq(Frames) /\ Given \in Seq(Frames) /\ rolling \in Seq(Frames)
        /\ clock \in Nat /\ InTurn = ToSet(buffer) \cup ToSet(Given)
        /\ TakenFrames \subseteq Frames /\ ToSet(held) \subseteq Frames
    BY TurnFrames
  <2>1. InOrder(SelectBackfill) /\ ToSet(SelectBackfill) \subseteq ToSet(rolling)
    <3> DEFINE recent == {i \in DOMAIN rolling : rolling[i].epoch = audioEpoch}
    <3>1. Len(rolling) \in Nat /\ DOMAIN rolling = 1 .. Len(rolling)
      BY <2>t
    <3>2. recent \in SUBSET (1 .. Len(rolling)) /\ IsFiniteSet(1 .. Len(rolling))
      BY <3>1, FS_Interval
    <3>3. Cardinality(recent) \in Nat
      BY <3>2, FS_Subset, FS_CardinalityType
    <3>4. InOrder(rolling)
      BY <1>1 DEF ClientOrder
    <3> QED BY <2>t, <3>3, <3>4, LastInOrder DEF SelectBackfill
  <2>2. \A f \in TakenFrames \cup ToSet(rolling) : f.t \in Nat /\ f.t <= clock /\ ~(f.t > clock)
    <3>1. \A f \in Frames : f.t \in Nat
      BY FrameTime
    <3>2. ToSet(rolling) \subseteq Frames
      BY <2>t DEF ToSet
    <3>3. \A f \in TakenFrames \cup ToSet(rolling) : f.t <= clock /\ f.t \in Nat
      BY <1>1, <2>t, <3>1, <3>2 DEF ClientOrder, AllPast
    <3> QED BY <2>t, <3>3
  <2>3. TakenFrames' = TakenFrames /\ Given' = Given
    BY <1>2 DEF TakenFrames, InTurn, Given
  <2>4. ClientOrder'
    <3>1. InOrder(rolling') /\ ToSet(rolling') \subseteq ToSet(rolling)
      BY <1>1, <1>2, EmptyInOrder, EmptyTurn DEF ClientOrder, InOrder
    <3>2. \A f \in ToSet(record'.frames) \cup ToSet(rolling') : f.t <= clock'
      BY <1>2, <1>5, <2>1, <2>2, <3>1
    <3>3. record'.from <= clock'
      BY <1>2, <1>5, <2>t
    <3>4. \A f \in ToSet(record'.frames) : f \in again'
      BY <1>5
    <3> QED BY <1>5, <2>1, <3>1, <3>2, <3>3, <3>4 DEF ClientOrder, InOrder
  <2>5. AllPast'
    BY <1>1, <1>2, <2>3 DEF AllPast
  <2>6. GapIsNew'
    <3>1. \A f \in ToSet(record'.frames) : ~(f.t > record'.from)
      BY <1>5, <2>1, <2>2
    <3> QED BY <3>1 DEF GapIsNew, GapFrames
  <2>7. OnePlace'
    <3>1. again \subseteq again'
      BY <1>5
    <3>2. OnceBut(buffer, again') /\ OnceBut(Given, again')
      BY <1>1, <2>t, <3>1, OnceMore DEF OnePlace
    <3> QED BY <1>1, <1>2, <2>3, <3>1, <3>2 DEF OnePlace
  <2>8. GapOrder'
    <3>1. ToSet(buffer) \subseteq TakenFrames /\ ToSet(Given) \subseteq TakenFrames
      BY <2>t DEF TakenFrames
    <3>2. InOrderSince(clock, buffer) /\ InOrderSince(clock, Given)
      BY <2>2, <2>t, <3>1, InTheSet DEF InOrderSince
    <3>3. TurnInOrder' /\ OnlyGap'
      BY <1>2, <1>5, <2>2, <2>3, <3>1, <3>2 DEF TurnInOrder, OnlyGap
    <3>4. ~Guarded' /\ (Waiting' => held' = <<>>)
      BY <1>2, <1>5 DEF Waiting, Guarded
    <3> QED BY <1>2, <3>3, <3>4 DEF GapOrder
  <2> QED BY <2>4, <2>5, <2>6, <2>7, <2>8 DEF GapInv, OnceInv
<1> QED BY <1>3, <1>4, <1>5

\* What is on hold is discarded or released later; a frame is not read.
LEMMA HoldGap ==
  ASSUME TypeOK, TypeOK', GapInv,
         HoldExpires \/ (\E m \in BOOLEAN : SetMuted(m)) \/ (\E s \in Sounds : ReadGap(s))
  PROVE  GapInv'
<1>1. ClientOrder /\ OnceInv /\ GapOrder
  BY DEF GapInv, OnceInv
<1> DEFINE Same == UNCHANGED <<record, again, sends, applied, heard, fin, link, receiver, phase>>
<1>2. ASSUME Same, GapKept, ClientOrder',
             armed' = "no" \/ UNCHANGED <<hold, armed>>
      PROVE  GapInv'
  <2>1. OnceInv'
    BY <1>1, <1>2, KeptOnce
  <2>2. (Waiting' => Waiting) /\ (phase' = "switching" => link' = "offered")
    BY <1>1, <1>2 DEF Waiting, GapOrder
  <2>3. Guarded' => Guarded /\ link' = "up" /\ receiver' # "first" /\ hold' = hold
    BY <1>1, <1>2 DEF Guarded, GapOrder
  <2> QED BY <1>1, <1>2, <2>1, <2>2, <2>3, KeptOrder DEF GapInv
<1>3. CASE HoldExpires
  <2>1. Same /\ armed' = "no" /\ UNCHANGED <<clock, rolling, buffer, held>>
    BY <1>3 DEF HoldExpires, lifecycle, turn, stt, client
  <2>2. GapKept /\ ClientOrder'
    BY <1>1, <2>1, ClientKept DEF GapKept, Given
  <2> QED BY <1>2, <2>1, <2>2
<1>4. ASSUME NEW m \in BOOLEAN, SetMuted(m) PROVE GapInv'
  <2>1. /\ \/ held' = <<>> /\ armed' = "no"
           \/ UNCHANGED <<hold, held, armed>>
        /\ buffer' \in {buffer, <<>>} /\ rolling' \in {rolling, <<>>}
        /\ Same /\ clock' = clock
    BY <1>4 DEF SetMuted, lifecycle, turn, stt, ClearTurn
  <2>2. GapKept /\ ClientOrder'
    BY <1>1, <2>1, ClientKept DEF GapKept, Given
  <2> QED BY <1>2, <2>1, <2>2
<1>5. ASSUME NEW s \in Sounds, ReadGap(s) PROVE GapInv'
  <2>1. Same /\ UNCHANGED <<buffer, hold, held, armed>> /\ Capture(s)
    BY <1>5 DEF ReadGap, lifecycle, turn, guard, stt
  <2>2. clock' = clock + 1 /\ ClientOrder'
    BY <1>1, <2>1, CaptureOrder, CaptureClient
  <2>3. GapKept
    BY <2>1, <2>2 DEF GapKept, Given
  <2> QED BY <1>2, <2>1, <2>2, <2>3
<1> QED BY <1>3, <1>4, <1>5

\* A step that leaves what is on hold, takes in nothing, and does not take a transport away
\* from the receive loop that reads it.
CalmStep ==
    /\ UNCHANGED <<record, again, sends, applied, clock, rolling, buffer, held, hold, armed>>
    /\ heard \subseteq heard' /\ heard' \subseteq heard \cup ToSet(Given)
    /\ Given' \in {Given, <<>>}
    /\ fin' # None /\ fin'.pc = "transcribing" =>
          fin # None /\ fin.pc = "transcribing" /\ fin'.frames = fin.frames /\ heard' = heard
    /\ phase' = "switching" => link' = "offered"
    /\ link = "up" => link' = "up" /\ (receiver' = "first" => receiver = "first")

LEMMA CalmKeeps ==
  ASSUME TypeOK, TypeOK', GapInv, CalmStep
  PROVE  GapInv'
<1>1. ClientOrder /\ OnceInv /\ GapOrder
  BY DEF GapInv, OnceInv
<1>2. GapKept /\ ClientOrder'
  BY <1>1, ClientKept DEF CalmStep, GapKept
<1>3. (Waiting' => Waiting) /\ (phase' = "switching" => link' = "offered")
  BY DEF CalmStep, Waiting
<1>4. Guarded' => Guarded /\ link' = "up" /\ receiver' # "first" /\ hold' = hold
  BY <1>1 DEF CalmStep, Guarded, GapOrder
<1> QED BY <1>1, <1>2, <1>3, <1>4, KeptOnce, KeptOrder DEF GapInv

LEMMA OtherSteps ==
  ASSUME TypeOK, SettlementFits, LoudIsHeard, GapOrder,
         \/ ReceiverGivesUp \/ BeginReconnect \/ GraceExpires \/ Stt
         \/ Offer \/ Recover \/ Promote \/ SwitchBegins \/ SwitchCommits
         \/ ReplyStarts \/ ReplyEnds \/ Interrupt \/ Interrupted \/ CancelSpeech \/ End
         \/ UNCHANGED vars
  PROVE  CalmStep
<1>1. phase = "switching" => link = "offered"
  BY DEF GapOrder
<1> DEFINE Unheard == heard' = heard /\ fin' = fin
<1>u. ASSUME Unheard
      PROVE  /\ heard \subseteq heard' /\ heard' \subseteq heard \cup ToSet(Given)
             /\ Given' \in {Given, <<>>}
             /\ fin' # None /\ fin'.pc = "transcribing" =>
                  /\ fin # None /\ fin.pc = "transcribing" /\ fin'.frames = fin.frames
                  /\ heard' = heard
  BY <1>u DEF Given
<1>2. CASE ReceiverGivesUp \/ BeginReconnect
  <2>1. /\ fin' = fin \/ (fin # None /\ fin' # None /\ fin'.frames = fin.frames /\ fin'.pc = fin.pc)
        /\ phase' \in {"reconnecting", phase}
    BY <1>2, EnterReconnectFits DEF ReceiverGivesUp, BeginReconnect
  <2>2. /\ link # "up" /\ UNCHANGED <<turn, guard, heard, client>>
    BY <1>2 DEF ReceiverGivesUp, BeginReconnect
  <2>3. Given' = Given
    BY <2>1 DEF Given
  <2> QED BY <1>1, <2>1, <2>2, <2>3 DEF CalmStep, turn, guard, client
<1>3. CASE Stt
  <2>1. SttFits
    BY <1>3, SttSteps
  <2>2. Given = fin.frames /\ Given' \in {Given, <<>>}
    BY <2>1 DEF SttFits, Given
  <2>3. /\ heard \subseteq heard' /\ heard' \subseteq heard \cup ToSet(Given)
        /\ ~(fin' # None /\ fin'.pc = "transcribing")
    BY <2>1, <2>2 DEF SttFits
  <2>4. /\ UNCHANGED <<phase, turn, guard, client>>
        /\ receiver' = "first" => receiver = "first"
    BY <2>1 DEF SttFits
  <2> QED BY <1>1, <2>2, <2>3, <2>4 DEF CalmStep, turn, guard, client
<1>4. CASE GraceExpires \/ UNCHANGED vars
  <2>1. Unheard
    BY <1>4 DEF GraceExpires, vars, stt
  <2> QED BY <1>1, <1>4, <1>u, <2>1
          DEF GraceExpires, CalmStep, vars, lifecycle, turn, guard, stt, client
<1>5. CASE Offer \/ Recover \/ Promote
  <2>1. Unheard
    BY <1>5 DEF Offer, Recover, Promote, stt
  <2> QED BY <1>1, <1>5, <1>u, <2>1
          DEF Offer, Recover, Promote, NewReceiver, CalmStep, lifecycle, turn, guard, stt
<1>6. CASE SwitchBegins \/ SwitchCommits
  <2>1. Unheard
    BY <1>6 DEF SwitchBegins, SwitchCommits, stt
  <2> QED BY <1>1, <1>6, <1>u, <2>1
          DEF SwitchBegins, SwitchCommits, NewReceiver, CalmStep, turn, guard, stt, client
<1>7. CASE ReplyStarts \/ ReplyEnds \/ Interrupt \/ Interrupted \/ CancelSpeech \/ End
  <2>1. Unheard
    BY <1>7 DEF ReplyStarts, ReplyEnds, Interrupt, Interrupted, CancelSpeech, End, stt
  <2> QED BY <1>1, <1>7, <1>u, <2>1
          DEF ReplyStarts, ReplyEnds, Interrupt, Interrupted, CancelSpeech, End, CalmStep,
              turn, guard, stt, client
<1> QED BY <1>2, <1>3, <1>4, <1>5, <1>6, <1>7

LEMMA GapStep ==
  ASSUME TurnInv, TypeOK', GapInv, [Next]_vars
  PROVE  GapInv'
<1>1. TypeOK /\ SettlementFits /\ LoudIsHeard /\ GapOrder
  BY DEF TurnInv, GapInv
<1>2. ASSUME NEW s \in Sounds, LiveFrame(s) \/ ReadGap(s) \/ BrowserRecords(s)
      PROVE  GapInv'
  BY <1>1, <1>2, LiveGap, HoldGap, RecordsGap
<1>3. ASSUME Backfill \/ LinkDown PROVE GapInv'
  BY <1>1, <1>3, BackfillGap, LossGap
<1>4. ASSUME HoldExpires \/ \E m \in BOOLEAN : SetMuted(m) PROVE GapInv'
  BY <1>1, <1>4, HoldGap
<1>5. ASSUME CalmStep PROVE GapInv'
  BY <1>1, <1>5, CalmKeeps
<1> QED BY <1>1, <1>2, <1>3, <1>4, <1>5, OtherSteps DEF Next

LEMMA GapInit == ASSUME Init PROVE GapInv
<1>1. /\ record.frames = <<>> /\ record.from = 0 /\ rolling = <<>> /\ buffer = <<>> /\ held = <<>>
      /\ heard = {} /\ fin = None /\ clock = 0 /\ applied = FALSE
      /\ armed = "no" /\ phase = "stable"
  BY DEF Init
<1>2. ToSet(<<>>) = {} /\ InOrderSince(0, <<>>)
  BY EmptyTurn, EmptyInOrder
<1>3. TakenFrames = {} /\ Given = <<>> /\ GapFrames = {}
  BY <1>1, <1>2 DEF TakenFrames, InTurn, Given, GapFrames
<1>4. ClientOrder
  BY <1>1, <1>2 DEF ClientOrder, InOrder
<1>5. AllPast /\ GapIsNew
  BY <1>1, <1>2, <1>3 DEF AllPast, GapIsNew
<1>6. OnePlace
  BY <1>1, <1>2, <1>3, EmptyOnce DEF OnePlace, InOrder
<1>7. GapOrder
  BY <1>1 DEF GapOrder, Waiting, Guarded
<1> QED BY <1>4, <1>5, <1>6, <1>7 DEF GapInv, OnceInv

LEMMA GapHolds == Spec => [](TurnInv /\ GapInv)
<1>1. Init => TurnInv /\ GapInv
  BY InitInv, GapInit
<1>2. (TurnInv /\ GapInv) /\ [Next]_vars => (TurnInv /\ GapInv)'
  <2> SUFFICES ASSUME TurnInv, GapInv, [Next]_vars PROVE TurnInv' /\ GapInv'
    OBVIOUS
  <2>1. TurnInv'
    BY StepInv, StutterInv
  <2>2. TypeOK'
    BY <2>1 DEF TurnInv
  <2> QED BY <2>1, <2>2, GapStep
<1> QED BY <1>1, <1>2, PTL DEF Spec

\* A frame is heard, waits in the turn or is on hold, but for what may come again.
LEMMA GapHeardOnce ==
  ASSUME TypeOK, GapInv
  PROVE  HeardOnce
<1>1. OnePlace
  BY DEF GapInv, OnceInv
<1>2. held \in Seq(Frames)
  BY TurnFrames
<1>3. OnceBut(held, again)
  BY <1>1, <1>2, InOrderOnce DEF OnePlace
<1>4. Distinct(buffer) /\ Distinct(held) /\ Distinct(Given)
  BY <1>1, <1>3 DEF OnePlace, OnceBut, Distinct
<1> QED BY <1>1, <1>4 DEF HeardOnce, OnePlace, TakenFrames

LEMMA GapPlaced ==
  ASSUME GapInv
  PROVE  GapInPlace
BY DEF GapInv, GapOrder, Guarded, TurnInOrder, GapInPlace

\* The longest overlap is cut off: what is left of the recording is newer than all of it.
LEMMA OverlapCut ==
  ASSUME TypeOK, GapInv, NEW n \in MinOverlap .. Len(record.frames), n <= Len(buffer),
         n <= MaxOverlap, MustMatch(n), BackfillTaken
  PROVE  LET b == IF buffer' = <<>> THEN fin'.frames ELSE buffer'
         IN  \A i \in 1 .. n : record.frames[i] \notin ToSet(held) =>
                Times(record.frames[i], b) = Times(record.frames[i], buffer)
<1> DEFINE b == IF buffer' = <<>> THEN fin'.frames ELSE buffer'
           sizes == {k \in MinOverlap .. Len(record.frames) : k <= Len(buffer) /\ k <= MaxOverlap}
<1>1. ClientOrder
  BY DEF GapInv, OnceInv
<1>2. /\ buffer \in Seq(Frames) /\ record.frames \in Seq(Frames) /\ Len(buffer) \in Nat
      /\ Len(record.frames) \in Nat /\ MinOverlap \in Nat /\ MinOverlap > 0
  BY TurnFrames, LimitsAssumption
<1>3. PICK m \in Overlaps :
         LET a == Appended(buffer, Spliced(m))
         IN  IF EndsWith(a, Spliced(m), grace) THEN Claim(a, TRUE)
             ELSE SetTurn(a) /\ UNCHANGED <<fin, state>>
  BY DEF BackfillTaken
<1>4. n \in sizes
  OBVIOUS
<1>5. m \in sizes /\ \A k \in sizes : k > m => ~MustMatch(k)
  BY <1>4 DEF Overlaps
<1>6. n \in Nat /\ n > 0 /\ m \in Nat /\ n <= m /\ m <= Len(record.frames)
  <2>1. ~(n > m)
    BY <1>4, <1>5
  <2> QED BY <1>2, <1>5, <2>1
<1> DEFINE fs == Spliced(m)
<1>7. fs \in Seq(Frames) /\ TakesIn(fs, TRUE)
  BY <1>3, <1>6, SplicedParts DEF TakesIn
<1>8. b = buffer \o fs
  <2>1. buffer \o fs # <<>>
    <3>1. Len(buffer \o fs) = Len(buffer) + Len(fs) /\ Len(fs) \in Nat /\ Len(<<>>) = 0
      BY <1>2, <1>7, ConcatProperties
    <3>2. Len(buffer) > 0
      BY <1>2, <1>6
    <3> HIDE DEF fs
    <3> QED BY <1>2, <3>1, <3>2
  <2> HIDE DEF fs
  <2> QED BY <1>7, <2>1, TakingIn
<1>9. ASSUME NEW i \in 1 .. n, record.frames[i] \notin ToSet(held)
      PROVE  record.frames[i] \notin ToSet(fs)
  <2> DEFINE rest == SubSeq(record.frames, m + 1, Len(record.frames))
             tail == IF record.final THEN held ELSE <<>>
  <2>1. /\ ToSet(tail) = IF record.final THEN ToSet(held) ELSE {}
        /\ ToSet(fs) = ToSet(rest) \cup ToSet(tail)
    BY <1>6, SplicedParts
  <2>2. i \in DOMAIN record.frames /\ i <= m
    BY <1>2, <1>6
  <2>3. /\ record.frames[i] \in ToSet(record.frames) /\ record.frames[i] \in Frames
        /\ record.frames[i].t \in Nat /\ record.frames[i].t > 0
    BY <1>2, <2>2, InTheSet, FrameTime
  <2>5. record.frames[i] \notin ToSet(rest)
    <3> SUFFICES ASSUME NEW g \in ToSet(rest) PROVE record.frames[i].t < g.t
      BY <2>3
    <3>1. PICK j \in m + 1 .. Len(record.frames) : g = record.frames[j]
      <4>1. /\ Len(rest) = (IF m + 1 <= Len(record.frames) THEN Len(record.frames) - m ELSE 0)
            /\ \A k \in 1 .. Len(record.frames) - m : rest[k] = record.frames[m + k]
            /\ rest \in Seq(Frames)
        <5>1. \A k \in m + 1 .. Len(record.frames) : record.frames[k] \in Frames
          BY <1>2, <1>6
        <5>2. m + 1 \in Nat /\ 0 < m + 1
          BY <1>6
        <5>3. /\ rest \in Seq(Frames)
              /\ Len(rest) = (IF m + 1 <= Len(record.frames)
                              THEN Len(record.frames) - (m + 1) + 1 ELSE 0)
              /\ \A k \in 1 .. Len(record.frames) - (m + 1) + 1 :
                    rest[k] = record.frames[(m + 1) + k - 1]
          BY <1>2, <1>6, <5>1, <5>2, SubSeqProperties
        <5> HIDE DEF rest
        <5> QED BY <1>2, <1>6, <5>3
      <4>2. PICK k \in 1 .. Len(rest) : g = rest[k]
        <5>1. DOMAIN rest = 1 .. Len(rest)
          BY <4>1
        <5> HIDE DEF rest
        <5> QED BY <5>1 DEF ToSet
      <4> HIDE DEF rest
      <4>3. k \in 1 .. Len(record.frames) - m
        BY <1>2, <1>6, <4>1, <4>2
      <4>4. m + k \in m + 1 .. Len(record.frames)
        BY <1>2, <1>6, <4>3
      <4> QED BY <4>1, <4>2, <4>3, <4>4
    <3>2. j \in DOMAIN record.frames /\ i < j
      BY <1>2, <1>6, <2>2, <3>1
    <3>3. record.frames[j].t > 0
      BY <1>2, <3>2, InTheSet, FrameTime
    <3> QED BY <1>1, <2>2, <2>3, <3>1, <3>2, <3>3 DEF ClientOrder, InOrder, InOrderSince
  <2> HIDE DEF rest, tail, fs
  <2> QED BY <1>9, <2>1, <2>5
<1> HIDE DEF fs, b
<1>10. \A i \in 1 .. n : record.frames[i] \notin ToSet(held) =>
          Times(record.frames[i], b) = Times(record.frames[i], buffer)
  BY <1>2, <1>7, <1>8, <1>9, JoinTimes
<1> QED BY <1>10 DEF b

\* The turn is what the user said, whatever is captured, muted, repeated or refused, however
\* often the transport is lost and whenever a hold expires: no frame is heard twice but
\* those a recording took from before its loss and that no longer end the turn
\* (_reconnect_audio_backfill_ids, _trim_reconnect_backfill_overlap), the recording of the
\* gap comes before the frames of the new track while the hold keeps its place
\* (_hold_reconnect_live_frame_if_needed), and what is loud reaches the transcription
\* (_trim_trailing_silence_for_stt).
THEOREM TurnsAreWhole == Spec => TurnIsWhole
<1>1. TurnInv /\ GapInv => TypeOK /\ HeardOnce /\ GapInPlace
  BY GapHeardOnce, GapPlaced DEF TurnInv
<1> DEFINE Cut == \A n \in MinOverlap .. Len(record.frames) :
                    (Backfill /\ n <= Len(buffer) /\ n <= MaxOverlap /\ MustMatch(n)
                       /\ BackfillTaken) =>
                      LET b == IF buffer' = <<>> THEN fin'.frames ELSE buffer'
                      IN  \A i \in 1 .. n : record.frames[i] \notin ToSet(held) =>
                             Times(record.frames[i], b) = Times(record.frames[i], buffer)
<1>2. TurnInv /\ GapInv => Cut
  BY OverlapCut DEF TurnInv
<1>3. TurnInv /\ GapInv /\ [Next]_vars => [Cut]_sends
  BY <1>2
<1> HIDE DEF Cut
<1>4. Spec => [](TypeOK /\ HeardOnce /\ GapInPlace)
  BY <1>1, GapHolds, PTL
<1>5. Spec => [][Cut]_sends
  BY <1>3, GapHolds, PTL DEF Spec
<1>6. Spec => OverlapIsCut
  BY <1>5 DEF Cut, OverlapIsCut
<1> QED BY <1>4, <1>6, NoVoiceIsLost, PTL DEF TurnIsWhole
=============================================================================
