--------------------------- MODULE MCSpeechLedger ---------------------------
(***************************************************************************)
(* An instance of SpeechLedger: the scripts a web client may submit.       *)
(***************************************************************************)
EXTENDS SpeechLedger, TLC

CONSTANTS a, b, r1, r2

Part(t, n) == [turn |-> t, ordinal |-> n, kind |-> "part"]
Final(t, n) == [turn |-> t, ordinal |-> n, kind |-> "final"]
Marker(t, n) == [turn |-> t, ordinal |-> n, kind |-> "marker"]

\* An incremental turn with its marker, and a turn of one final chunk that may be
\* submitted twice.  The requests arrive in any order.
TwoTurns == r1 :> {Part(a, 0), Final(b, 0)} @@ r2 :> {Marker(a, 1), Final(b, 0)}
=============================================================================
