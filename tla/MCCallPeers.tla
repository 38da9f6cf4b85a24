----------------------------- MODULE MCCallPeers -----------------------------
(* CallPeers with a first peer, a candidate with its selection or with         *)
(* another, and a third offer with no usable selection: it is refused as       *)
(* unusable, as arriving after the end, or as arriving during a switch.        *)
EXTENDS CallPeers

CONSTANTS p0, p1, p2, b1

MCConfig == [p \in Peers |-> IF p = FirstPeer THEN {"qwen"}
                             ELSE IF p = p1 THEN Selections ELSE {}]
=============================================================================
