---------------------------- MODULE PromptBudget ----------------------------
(***************************************************************************)
(* From a thread to the messages on the wire: compose_prompt fits the      *)
(* history and the example dialogues into the context window               *)
(* (prompt_builder.py), build_generation_request serializes what is left   *)
(* for the model's adapter (generation_profiles.py), and the offer of a    *)
(* call checks the wire once more (calls.py).                              *)
(*                                                                         *)
(* Of a text only its length matters here.                                 *)
(***************************************************************************)
EXTENDS Integers, Sequences, FiniteSets, SequencesExt

CONSTANTS
    Margin,          \* safety_margin
    MaxTokens,       \* the configured max_tokens
    Limits,          \* context limits to choose from
    Overhead,        \* tokens of a message besides its text
    Lengths,         \* lengths of messages
    MaxHistory, MaxExamples,
    Correction, NoThink,     \* lengths of RETRY_CORRECTION and of "/no_think"
    OfferMessages, OfferLength   \* CALL_OFFER_MAX_MESSAGES and _CONTENT_LENGTH

ASSUME PromptConstants ==
    /\ {Margin, MaxTokens, Overhead, MaxHistory, MaxExamples, Correction, NoThink,
        OfferMessages, OfferLength} \subseteq Nat
    /\ Limits \subseteq Nat /\ Lengths \subseteq Nat \ {0}

VARIABLES
    build,      \* PromptBuildInput: what there is to say
    history,    \* retained_history: positions in build.history
    examples,   \* retained_examples: positions in build.examples
    verdict     \* how far the request is

pvars == <<build, history, examples, verdict>>

Upto(S, n) == UNION {[1 .. k -> S] : k \in 0 .. n}
Message(role, length) == [role |-> role, length |-> length]

\* send and call_turn add nothing here, continue may bring the text to go on
\* from, and an offer has limits of its own.  The post history instructions of
\* a custom profile may be empty.  The sections that describe the character are
\* one here.
Builds ==
    {b \in [history : Upto([role : {"user", "assistant"}, length : Lengths], MaxHistory),
            examples : Upto(Lengths, MaxExamples),
            main : Lengths, card : Lengths \cup {0}, phi : Lengths \cup {0},
            prefill : Lengths \cup {0},
            action : {"send", "continue", "call_offer"},
            qwen : BOOLEAN, limit : Limits] :
        b.prefill # 0 => b.action = "continue"}

\* What the variables hold when there is no prompt to build.
NoBuild == [history |-> <<>>, examples |-> <<>>, main |-> 0, card |-> 0, phi |-> 0, prefill |-> 0,
            action |-> "send", qwen |-> FALSE, limit |-> 0]

-----------------------------------------------------------------------------
(* compose_prompt *)

\* estimate_prompt_tokens: three bytes to a token, rounded up.
Estimate(n) == IF n = 0 THEN 0 ELSE (n + 2) \div 3 + Overhead
EstimatedTotal(ms) == FoldLeft(LAMBDA sum, m : sum + Estimate(m.length), 0, ms)

InputBudget(b) == b.limit - MaxTokens - Margin

Instruction == 1

\* A continuation without a text to go on from ends with an instruction.
History(b) ==
    IF b.action = "continue" /\ b.prefill = 0
    THEN Append(b.history, Message("user", Instruction)) ELSE b.history

\* newest_user_id: the one message of the history that stays.
Mandatory(h) ==
    {i \in DOMAIN h : h[i].role = "user" /\ \A j \in i + 1 .. Len(h) : h[j].role # "user"}

\* The sections in order; an empty one is no message.
Assembled(b, hs, es) ==
    SelectSeq(
        <<Message("system", b.main), Message("system", b.card)>>
          \o [k \in DOMAIN es |-> Message("user", b.examples[es[k]])]
          \o [k \in DOMAIN hs |-> History(b)[hs[k]]]
          \o <<Message("system", b.phi), Message("assistant", b.prefill)>>,
        LAMBDA m : m.length # 0)

MandatoryOnly(b) == Assembled(b, SetToSeq(Mandatory(History(b))), <<>>)

ViolatesOffer(ms) ==
    \/ Len(ms) > OfferMessages
    \/ \E k \in DOMAIN ms : ms[k].length > OfferLength

Assembly == Assembled(build, history, examples)

TooLarge == EstimatedTotal(Assembly) > InputBudget(build)
MustDrop == TooLarge \/ (build.action = "call_offer" /\ ViolatesOffer(Assembly))
Removable == {k \in DOMAIN history : history[k] \notin Mandatory(History(build))}

\* Mutant: the newest message goes first.
RemoveNewest(seq, S) == RemoveAt(seq, CHOOSE k \in S : \A l \in S : l <= k)

RemoveOldest(seq, S) == RemoveAt(seq, CHOOSE k \in S : \A l \in S : k <= l)

\* The oldest message that may go, from the history first.
DropHistory ==
    /\ verdict = "composing" /\ MustDrop /\ Removable # {}
    /\ history' = RemoveOldest(history, Removable)
    /\ UNCHANGED <<build, examples, verdict>>

\* Then the oldest group of examples.
DropExamples ==
    /\ verdict = "composing" /\ MustDrop /\ Removable = {} /\ examples # <<>>
    /\ examples' = Tail(examples)
    /\ UNCHANGED <<build, history, verdict>>

\* PromptBudgetExceeded.
Exceeded ==
    /\ verdict = "composing" /\ MustDrop /\ Removable = {} /\ examples = <<>>
    /\ verdict' = "exceeded"
    /\ UNCHANGED <<build, history, examples>>

Composed ==
    /\ verdict = "composing" /\ ~ MustDrop
    /\ verdict' = "composed"
    /\ UNCHANGED <<build, history, examples>>

-----------------------------------------------------------------------------
(* build_generation_request *)

\* The system messages that lead become one; a later one is sent as the user's.
Leading(ms) == {k \in DOMAIN ms : \A l \in 1 .. k : ms[l].role = "system"}
QwenBody(ms) ==
    LET n == Cardinality(Leading(ms))
        joined == FoldLeft(LAMBDA len, m : len + m.length + 2, 0 - 2, SubSeq(ms, 1, n))
        rest == [k \in 1 .. Len(ms) - n |->
                   [ms[n + k] EXCEPT !.role = IF @ = "system" THEN "user" ELSE @]]
    IN  (IF n = 0 THEN <<>> ELSE <<Message("system", joined)>>) \o rest

CorrectionRole(b) == IF b.qwen THEN "user" ELSE "system"

WithoutThinking(ms) ==
    LET users == {k \in DOMAIN ms : ms[k].role = "user"}
    IN  IF users = {} THEN ms
        ELSE [ms EXCEPT ![CHOOSE k \in users : \A l \in users : l <= k].length = @ + NoThink]

\* _serialize_messages: a final message of the assistant is a prefill and stays
\* last, behind the correction of a retry.
Wire(b, ms, attempt, disable) ==
    LET isPrefill == ms # <<>> /\ Last(ms).role = "assistant"
        front == IF isPrefill THEN Front(ms) ELSE ms
        body == IF b.qwen THEN QwenBody(front) ELSE front
        corrected == IF attempt > 1
                     THEN Append(body, Message(CorrectionRole(b), Correction)) ELSE body
        quiet == IF b.qwen /\ disable THEN WithoutThinking(corrected) ELSE corrected
    IN  IF isPrefill THEN Append(quiet, Last(ms)) ELSE quiet

\* _validate_call_offer_wire_request: joining may have made a message too long.
OfferRefused ==
    /\ verdict = "composed" /\ build.action = "call_offer"
    /\ ViolatesOffer(Wire(build, Assembly, 1, FALSE))
    /\ verdict' = "exceeded"
    /\ UNCHANGED <<build, history, examples>>

\* The request leaves: for the backend with an offer, for the model otherwise.
Sent ==
    /\ verdict = "composed"
    /\ build.action = "call_offer" => ~ ViolatesOffer(Wire(build, Assembly, 1, FALSE))
    /\ verdict' = IF build.action = "call_offer" THEN "offered" ELSE "sent"
    /\ UNCHANGED <<build, history, examples>>

-----------------------------------------------------------------------------
\* Mandatory sections that do not fit are refused before anything is dropped.
Hydrated(b) ==
    /\ build = b
    /\ history = [k \in DOMAIN History(b) |-> k]
    /\ examples = [k \in DOMAIN b.examples |-> k]
    /\ verdict = IF EstimatedTotal(MandatoryOnly(b)) > InputBudget(b)
                 THEN "exceeded" ELSE "composing"

PromptInit == \E b \in Builds : Hydrated(b)

PromptNext == DropHistory \/ DropExamples \/ Exceeded \/ Composed \/ OfferRefused \/ Sent

-----------------------------------------------------------------------------
(* Properties.                                                              *)

\* The prompt under construction is made of positions of the history and of the
\* examples, in their order, each once.
PromptTypeOK ==
    /\ build \in Builds \cup {NoBuild}
    /\ history \in Upto(1 .. MaxHistory + 1, MaxHistory + 1)
    /\ examples \in Upto(1 .. MaxExamples, MaxExamples)
    /\ \A seq \in {history, examples} : \A k \in 2 .. Len(seq) : seq[k - 1] < seq[k]
    /\ verdict \in {"composing", "composed", "exceeded", "offered", "sent", "asked"}

\* The reference: drop the first d of the messages that may go, then of the
\* example groups.
Without(b, d) ==
    LET h == History(b)
        free == Cardinality(DOMAIN h \ Mandatory(h))
        rank(i) == Cardinality({j \in 1 .. i : j \notin Mandatory(h)})
        hs == SelectSeq([k \in DOMAIN h |-> k], LAMBDA k : k \in Mandatory(h) \/ rank(k) > d)
        gone == IF d > free THEN d - free ELSE 0
        es == [k \in 1 .. Len(b.examples) - gone |-> k + gone]
    IN  Assembled(b, hs, es)

FitsWithout(b, d) ==
    /\ EstimatedTotal(Without(b, d)) <= InputBudget(b)
    /\ b.action = "call_offer" => ~ ViolatesOffer(Without(b, d))

Droppable(b) == Cardinality(DOMAIN History(b) \ Mandatory(History(b))) + Len(b.examples)

\* The loops of compose_prompt keep the most that fits: the prompt is the
\* reference with the smallest number of drops that satisfies the budget and,
\* for an offer, the limits of the backend; it is refused only when none does.
MostContextThatFits ==
    LET fits == {d \in 0 .. Droppable(build) : FitsWithout(build, d)}
    IN  /\ verdict \in {"composed", "offered", "sent"} =>
             \E d \in fits : /\ \A e \in fits : d <= e
                             /\ Assembly = Without(build, d)
        /\ verdict = "exceeded" =>
             fits = {} \/ (build.action = "call_offer" /\ ViolatesOffer(Wire(build, Assembly, 1, FALSE)))

\* Whatever is added after the budget was spent (the correction of a retry,
\* "/no_think", the blank lines between joined sections), the request and the
\* longest answer fit the context window: the safety margin pays for them.
WireFitsTheWindow ==
    verdict = "sent" =>
        \A attempt \in {1, 2}, disable \in BOOLEAN :
            EstimatedTotal(Wire(build, Assembly, attempt, disable)) + MaxTokens <= build.limit

\* The user's newest message is answered: it is never trimmed, and it is the
\* last of the user's own messages on the wire.
NewestUserIsSent ==
    verdict \in {"offered", "sent"} =>
        \A i \in DOMAIN History(build) :
            (/\ History(build)[i].role = "user"
             /\ \A j \in i + 1 .. Len(History(build)) : History(build)[j].role # "user")
            => \E k \in DOMAIN history : history[k] = i

\* The shape each adapter needs: Qwen's template takes one system message, at
\* the head; a text to go on from stays last on every attempt; and the model is
\* given one without being asked to continue only when a custom profile has no
\* post history instructions and the thread ends with the assistant.
WireShape ==
    verdict = "sent" =>
        \A attempt \in {1, 2}, disable \in BOOLEAN :
            LET w == Wire(build, Assembly, attempt, disable)
            IN  /\ build.qwen => \A k \in 2 .. Len(w) : w[k].role # "system"
                /\ build.prefill # 0 => Last(w) = Message("assistant", build.prefill)
                /\ Last(w).role = "assistant" => build.prefill # 0 \/ build.phi = 0

\* The prompt is the right one: as much context as fits, the newest message of the user
\* among it, within the window on every attempt and in the shape the model takes.
PromptIsRight ==
    /\ PromptTypeOK
    /\ MostContextThatFits /\ NewestUserIsSent
    /\ WireFitsTheWindow /\ WireShape
=============================================================================
