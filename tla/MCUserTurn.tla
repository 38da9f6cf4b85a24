----------------------------- MODULE MCUserTurn -----------------------------
EXTENDS UserTurn

\* A low voice and a loud noise: the two detectors never agree.
LowVoiceLoudNoise == {[voice |-> TRUE, loud |-> FALSE], [voice |-> FALSE, loud |-> TRUE]}
=============================================================================
