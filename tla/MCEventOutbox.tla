---------------------------- MODULE MCEventOutbox ----------------------------
(* EventOutbox with one event of each kind. *)
EXTENDS EventOutbox

CONSTANTS mute, final, done, fault

MCKind == [e \in Emitted |-> CASE e = mute -> "control" [] e = final -> "user"
                               [] e = done -> "speech" [] e = fault -> "failure"]
=============================================================================
