---------------------------- MODULE MCActuation ----------------------------
(***************************************************************************)
(* Two commands to one device with a lock and a fan.  The four settings    *)
(* are the ones the code's comments argue about: two commands that answer  *)
(* on the same key with different values, two that carry the same number   *)
(* on different keys, one over Modbus beside one over MQTT, and one that   *)
(* cannot be confirmed beside one the profile does not declare.            *)
(***************************************************************************)
EXTENDS Actuation, TLC

CONSTANTS c1, c2, lock, fan

Mqtt(k, v) == [key |-> k, value |-> v, modbus |-> FALSE, valid |-> TRUE]
Pair(a, b) == (c1 :> a) @@ (c2 :> b)

EveryPair ==
  { Pair(Mqtt(lock, 1), Mqtt(lock, 0)),
    Pair(Mqtt(lock, 1), Mqtt(fan, 1)),
    Pair([Mqtt(lock, 1) EXCEPT !.modbus = TRUE], Mqtt(lock, 1)),
    Pair(Mqtt(None, 1), [Mqtt(lock, 1) EXCEPT !.valid = FALSE]) }
=============================================================================
