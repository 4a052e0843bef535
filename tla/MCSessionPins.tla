---------------------------- MODULE MCSessionPins ---------------------------
(***************************************************************************)
(* Instances of SessionPins for TLC.                                       *)
(***************************************************************************)
EXTENDS SessionPins

Sessions == {"s", "t"}
Nobody == "nobody"

\* Two agent sessions start on a repository where one of them also pins.
Children == {"hs", "ht"}
Agent == {"us"}
Owners == [p \in {"hs", "ht", "us"} |-> IF p = "ht" THEN "t" ELSE "s"]

=============================================================================
