--------------------------- MODULE MCPromptLease ---------------------------
EXTENDS PromptLease, TLC

CONSTANTS v1, k1, k2, r1, r2, e1

\* One voice whose reference was edited: same voice key, two contents.  Which of
\* the two requests names which content first does not matter.
OneEditedVoice == {<<v1, k1>>, <<v1, k2>>}
EitherContent == r1 :> {<<v1, k1>>} @@ r2 :> OneEditedVoice @@ e1 :> {<<v1, k1>>}
=============================================================================
