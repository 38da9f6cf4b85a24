----------------------------- MODULE CallReply -----------------------------
(***************************************************************************)
(* A reply of the assistant from the thread to the phrases: the prompt is  *)
(* composed and sent, then the model's answer is streamed, guarded and     *)
(* cut.  A prompt that does not fit ends the turn before the model is      *)
(* asked; the prompt is frozen while the answer comes, so what it held is  *)
(* dropped from the state once it was sent.                                *)
(***************************************************************************)
EXTENDS PromptBudget, ReplyStream

rvars == <<attempt, raw, guard, emitted, turn, outcome>>
cvars == <<pvars, rvars>>

CallReplyInit == PromptInit /\ Init

Compose == PromptNext /\ UNCHANGED rvars

\* The completion is requested with the prompt that was sent.
Ask ==
    /\ verdict = "sent" /\ verdict' = "asked"
    /\ build' = NoBuild /\ history' = <<>> /\ examples' = <<>>
    /\ UNCHANGED rvars

Stream ==
    /\ verdict = "asked"
    /\ Next
    /\ UNCHANGED pvars

CallReplyNext == Compose \/ Ask \/ Stream
CallReplySpec == CallReplyInit /\ [][CallReplyNext]_cvars
=============================================================================
