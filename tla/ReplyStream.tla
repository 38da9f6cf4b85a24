---------------------------- MODULE ReplyStream ----------------------------
(***************************************************************************)
(* The way of a reply from the language model to the speech queue of a     *)
(* call: the semantic attempts of _stream_text_tokens (llm_stream.py), the *)
(* PrefixRefusalGuard that holds the beginning of each attempt             *)
(* (refusal_guard.py), the token loop of create_call_turn (calls.py) and   *)
(* the CallTtsSegmenter that cuts what was accepted into phrases           *)
(* (call_tts_segments.py).                                                 *)
(*                                                                         *)
(* A text is a sequence of symbols: a letter "w", a blank " ", a sentence  *)
(* end ".", a phrase end ",", the stem of a direct refusal "r" and an      *)
(* apology "s" (any of the secondary reasons).  The model sends it in      *)
(* chunks cut anywhere.                                                    *)
(***************************************************************************)
EXTENDS Integers, Sequences, FiniteSets, SequencesExt

CONSTANTS
    MaxAttempts,    \* MAX_SEMANTIC_ATTEMPTS
    MaxPrefix,      \* REFUSAL_PREFIX_MAX_CHARACTERS
    MinVisible,     \* REFUSAL_SAFE_SENTENCE_MIN_VISIBLE_CHARACTERS
    MaxWords, MinWords,
    MaxText,        \* bound on the length of an attempt
    MaxChunk        \* bound on the length of a chunk

ASSUME StreamConstants ==
    /\ MaxAttempts \in Nat \ {0} /\ MaxPrefix \in Nat \ {0} /\ MinVisible \in Nat \ {0}
    /\ MinWords \in 1 .. MaxWords /\ MaxWords \in Nat /\ MaxText \in Nat
    /\ MaxChunk \in Nat \ {0}

VARIABLES
    attempt,    \* 1 .. MaxAttempts
    raw,        \* what the model sent in this attempt
    guard,      \* PrefixRefusalGuard: _state, _prefix and the held _chunks
    emitted,    \* what _stream_text_tokens yielded so far
    turn,       \* create_call_turn: pending_blank_tokens, accumulated, the
                \* segmenter's _buffer and the phrases submitted for speech
    outcome

vars == <<attempt, raw, guard, emitted, turn, outcome>>

Symbols == {"w", " ", ".", ",", "r", "s"}
NewGuard == [state |-> "holding", prefix |-> <<>>, held |-> <<>>]
NewTurn == [blanks |-> <<>>, text |-> <<>>, buffer |-> <<>>, phrases |-> <<>>]

TypeOK ==
    /\ attempt \in 1 .. MaxAttempts
    /\ {raw, emitted, guard.prefix, turn.blanks, turn.text, turn.buffer} \subseteq Seq(Symbols)
    /\ guard.state \in {"holding", "passthrough", "refused", "finished"}
    /\ guard.held \in Seq(Seq(Symbols) \ {<<>>}) /\ turn.phrases \in Seq(Seq(Symbols) \ {<<>>})
    /\ outcome \in {"streaming", "spoken", "exhausted", "empty", "failed", "timeout"}
    \* Only an undecided guard holds text, and never as much as the ceiling.
    /\ guard.held # <<>> => guard.state = "holding" /\ Len(guard.prefix) < MaxPrefix
    /\ outcome = "streaming" => guard.state \in {"holding", "passthrough"}

Init ==
    /\ attempt = 1 /\ raw = <<>> /\ guard = NewGuard
    /\ emitted = <<>> /\ turn = NewTurn
    /\ outcome = "streaming"

Has(t, x) == \E i \in DOMAIN t : t[i] = x
Visible(t) == SelectSeq(t, LAMBDA x : x # " ")

-----------------------------------------------------------------------------
(* refusal_guard.py.                                                        *)

\* The stem opens the text or a sentence, and a sentence end follows it, or the
\* end of the text once the model is done.
DirectRefusal(t, complete) ==
    {i \in DOMAIN t :
        LET before == Visible(SubSeq(t, 1, i - 1))
            after == Visible(SubSeq(t, i + 1, Len(t)))
        IN  /\ t[i] = "r"
            /\ IF before = <<>> THEN TRUE ELSE Last(before) = "."
            /\ IF after = <<>> THEN complete ELSE Head(after) = "."} # {}

\* _refusal_reason: a direct refusal, or a refusing verb with a second reason
\* (an identity disclaimer or a declarative policy refusal is such a pair).
Refusal(t, complete) == TRUE \in {DirectRefusal(t, complete), Has(t, "r") /\ Has(t, "s")}

\* _SENTENCE_BOUNDARY_RE: the end of the text counts as the blank after it.
SentenceEnds(t) == {i \in DOMAIN t : t[i] = "." /\ (i = Len(t) \/ t[i + 1] = " ")}

\* _should_release: a safe sentence, or the ceiling.
ShouldRelease(t) ==
    \/ /\ Len(Visible(t)) >= MinVisible
       /\ SentenceEnds(t) # {}
       /\ ~ Has(t, "s") /\ ~ Has(t, "r")
    \/ Len(t) >= MaxPrefix

\* Mutant: the ceiling is looked at first.
FeedReleasesFirst(g, chunk) ==
    LET p == g.prefix \o chunk IN
    IF g.state = "passthrough" THEN [guard |-> g, released |-> <<chunk>>]
    ELSE IF ShouldRelease(p)
    THEN [guard |-> [state |-> "passthrough", prefix |-> p, held |-> <<>>],
          released |-> Append(g.held, chunk)]
    ELSE IF Refusal(p, FALSE)
    THEN [guard |-> [state |-> "refused", prefix |-> p, held |-> <<>>], released |-> <<>>]
    ELSE [guard |-> [g EXCEPT !.prefix = p, !.held = Append(@, chunk)], released |-> <<>>]

\* feed: hold, refuse, or release everything held and let the rest pass.
Feed(g, chunk) ==
    LET p == g.prefix \o chunk IN
    IF g.state = "passthrough" THEN [guard |-> g, released |-> <<chunk>>]
    ELSE IF Refusal(p, FALSE)
    THEN [guard |-> [state |-> "refused", prefix |-> p, held |-> <<>>], released |-> <<>>]
    ELSE IF ShouldRelease(p)
    THEN [guard |-> [state |-> "passthrough", prefix |-> p, held |-> <<>>],
          released |-> Append(g.held, chunk)]
    ELSE [guard |-> [g EXCEPT !.prefix = p, !.held = Append(@, chunk)], released |-> <<>>]

\* finish: what is still held is refused or released.
FinishRefuses(g) == g.state = "holding" /\ Refusal(g.prefix, TRUE)

-----------------------------------------------------------------------------
(* call_tts_segments.py.                                                    *)

\* The last positions of the words of t.
WordEnds(t) == {i \in DOMAIN t : t[i] # " " /\ (i = Len(t) \/ t[i + 1] = " ")}
WordCount(t) == Cardinality(WordEnds(t))
WordsUpTo(t, i) == WordCount(SubSeq(t, 1, i))
NthWordEnd(t, n) == CHOOSE i \in WordEnds(t) : Cardinality({j \in WordEnds(t) : j <= i}) = n
PhraseEnds(t) == {i \in DOMAIN t : t[i] = "," /\ (i = Len(t) \/ t[i + 1] = " ")}

StripLeft(t) ==
    LET shown == {i \in DOMAIN t : t[i] # " "}
    IN  IF shown = {} THEN <<>> ELSE SubSeq(t, CHOOSE i \in shown : \A j \in shown : i <= j, Len(t))
Strip(t) ==
    LET shown == {i \in DOMAIN t : t[i] # " "}
    IN  IF shown = {} THEN <<>>
        ELSE StripLeft(SubSeq(t, 1, CHOOSE i \in shown : \A j \in shown : j <= i))

\* Not enough words to force a cut.
BelowCeiling(t) == WordCount(t) < MaxWords

\* _next_boundary: the first sentence end with enough words, unless it is too
\* far; else the last phrase end below the ceiling; else the ceiling.  0: none.
NextBoundary(t) ==
    LET hard == {i \in SentenceEnds(t) : WordsUpTo(t, i) >= MinWords}
        first == CHOOSE i \in hard : \A j \in hard : i <= j
        limit == NthWordEnd(t, MaxWords)
        soft == {i \in PhraseEnds(t) : i <= limit /\ WordsUpTo(t, i) >= MinWords}
    IN  IF hard # {} /\ WordsUpTo(t, first) <= MaxWords THEN first
        ELSE IF BelowCeiling(t) THEN 0
        ELSE IF soft # {} THEN CHOOSE i \in soft : \A j \in soft : j <= i
        ELSE limit

\* The loop of feed: cut until there is no boundary left.
RECURSIVE Segments(_)
Segments(t) ==
    LET b == NextBoundary(t)
    IN  IF b = 0 THEN [out |-> <<>>, rest |-> IF Visible(t) = <<>> THEN <<>> ELSE t]
        ELSE LET more == Segments(StripLeft(SubSeq(t, b + 1, Len(t))))
             IN  [out |-> <<Strip(SubSeq(t, 1, b))>> \o more.out, rest |-> more.rest]

-----------------------------------------------------------------------------
(* The token loop of create_call_turn.                                      *)

\* One token event: leading blank ones wait for the first visible one.
Receive(u, chunk) ==
    IF u.text = <<>> /\ Visible(chunk) = <<>>
    THEN [u EXCEPT !.blanks = @ \o chunk]
    ELSE LET token == u.blanks \o chunk
             cut == Segments(u.buffer \o token)
         IN  [blanks |-> <<>>, text |-> u.text \o token,
              buffer |-> cut.rest, phrases |-> u.phrases \o cut.out]

\* What the guard releases is yielded chunk by chunk.
Deliver(released) == FoldLeft(Receive, turn, released)

\* A new attempt has a new guard.
RetryGuard == NewGuard

\* A refused attempt: the next one, or LLMRefusalExhausted.
Refused ==
    IF attempt < MaxAttempts
    THEN /\ attempt' = attempt + 1 /\ raw' = <<>> /\ guard' = RetryGuard
         /\ UNCHANGED outcome
    ELSE outcome' = "exhausted" /\ UNCHANGED <<attempt, raw, guard>>

\* The model sends a chunk that the guard holds, releases or lets pass.
Chunk(chunk) ==
    LET d == Feed(guard, chunk)
    IN  /\ outcome = "streaming" /\ Len(raw) + Len(chunk) <= MaxText
        /\ d.guard.state # "refused"
        /\ raw' = raw \o chunk /\ guard' = d.guard
        /\ emitted' = emitted \o FlattenSeq(d.released)
        /\ turn' = Deliver(d.released)
        /\ UNCHANGED <<attempt, outcome>>

ChunkRefused(chunk) ==
    /\ outcome = "streaming" /\ Len(raw) + Len(chunk) <= MaxText
    /\ Feed(guard, chunk).guard.state = "refused"
    /\ Refused
    /\ UNCHANGED <<emitted, turn>>

\* The model is done and what is held is a refusal.
DoneRefused ==
    /\ outcome = "streaming" /\ FinishRefuses(guard)
    /\ Refused
    /\ UNCHANGED <<emitted, turn>>

\* Mutant: the tail of the segmenter is not flushed.
NoTail(t) == <<>>

\* finish: the tail of the segmenter, if it has one.
FinishTail(t) == IF Strip(t) = <<>> THEN <<>> ELSE <<Strip(t)>>

\* The model is done: the rest is released.  Without a visible text the attempt
\* raises LLMEmptyOutput; otherwise the turn submits the tail and ends.
DoneAccepted ==
    LET all == emitted \o FlattenSeq(guard.held)
        last == Deliver(guard.held)
    IN  /\ outcome = "streaming" /\ ~ FinishRefuses(guard)
        /\ guard' = [guard EXCEPT !.state = "finished", !.held = <<>>]
        /\ emitted' = all
        /\ IF Visible(all) = <<>>
           THEN outcome' = "empty" /\ turn' = last
           ELSE /\ outcome' = "spoken"
                /\ turn' = [last EXCEPT !.buffer = <<>>, !.phrases = @ \o FinishTail(last.buffer)]
        /\ UNCHANGED <<attempt, raw>>

\* The connection to the model breaks: an error event cancels the speech turn.
Broken ==
    /\ outcome = "streaming"
    /\ outcome' = "failed" /\ turn' = [turn EXCEPT !.blanks = <<>>]
    /\ UNCHANGED <<attempt, raw, guard, emitted>>

\* CALL_LLM_FIRST_EVENT_TIMEOUT_SECONDS, for all attempts together; no event
\* has been yielded yet.
FirstEventTimeout ==
    /\ outcome = "streaming" /\ emitted = <<>>
    /\ outcome' = "timeout"
    /\ UNCHANGED <<attempt, raw, guard, emitted, turn>>

Chunks == UNION {[1 .. n -> Symbols] : n \in 1 .. MaxChunk}

Next ==
    \/ \E c \in Chunks : Chunk(c) \/ ChunkRefused(c)
    \/ DoneRefused \/ DoneAccepted \/ Broken \/ FirstEventTimeout

Spec == Init /\ [][Next]_vars

-----------------------------------------------------------------------------
(* Properties.                                                              *)

\* What was yielded and what is held are exactly what the model sent in the
\* present attempt, in its order: nothing of a refused attempt is ever shown,
\* and a release loses and repeats nothing.
OneAttemptIsShown ==
    outcome = "streaming" => emitted \o FlattenSeq(guard.held) = raw

\* A refusal is never shown or spoken when the reply's opening, up to the
\* ceiling, is one: however it was cut into chunks, if a stem or an apology
\* comes before the first sentence end then no refusal was released.
OpeningRefusalIsHidden ==
    LET opening == SubSeq(emitted, 1, IF Len(emitted) < MaxPrefix THEN Len(emitted) ELSE MaxPrefix)
        suspect == \E i \in DOMAIN opening :
                       opening[i] \in {"r", "s"} /\ \A j \in 1 .. i : opening[j] # "."
    IN  suspect => ~ Refusal(opening, outcome = "spoken" /\ Len(emitted) < MaxPrefix)

\* The phrases are the reply: joined with what the segmenter still holds they
\* have the visible symbols of the accepted text, once each and in order, and
\* when the turn is spoken nothing is left.
PhrasesAreTheReply ==
    LET spoken == FlattenSeq(turn.phrases)
    IN  /\ Visible(spoken \o turn.buffer) = Visible(turn.text)
        /\ outcome # "failed" => turn.text \o turn.blanks = emitted
        /\ outcome = "spoken" => Visible(spoken) = Visible(emitted) /\ spoken # <<>>

\* Phrases are bounded: none is longer than the ceiling of words, and none but
\* the last one, when the reply is over, is shorter than the minimum.
PhrasesAreBounded ==
    \A i \in DOMAIN turn.phrases :
        /\ WordCount(turn.phrases[i]) \in 1 .. MaxWords
        /\ (i < Len(turn.phrases) \/ outcome # "spoken") => WordCount(turn.phrases[i]) >= MinWords

\* A reply that was refused, empty or too late leaves nothing: no phrase was
\* submitted and no text was shown in the call.
FailureIsSilent ==
    outcome \in {"exhausted", "empty", "timeout"} => turn.phrases = <<>> /\ turn.text = <<>>

\* The guard lets one attempt through, and no refusal: neither one that it could see nor
\* a trace of an attempt that failed.
GuardHolds == TypeOK /\ OneAttemptIsShown /\ OpeningRefusalIsHidden /\ FailureIsSilent

\* The segmenter cuts the reply into phrases of a bounded length and loses nothing of it.
PhrasesCutTheReply == PhrasesAreTheReply /\ PhrasesAreBounded
=============================================================================
