----------------------------- MODULE CommandLog -----------------------------
(***************************************************************************)
(* What the myiotsan command log promises to whoever reads it, the         *)
(* operator's console above all: the life of one row of device_command as  *)
(* the lifecycle comment of the entity tells it.  A refused attempt is a   *)
(* row that never changes again, an accepted one is in flight until it is  *)
(* given a verdict, and it is always given one.                            *)
(*                                                                         *)
(* One thing the comment does not say is allowed here because the code     *)
(* does it: a verdict can be replaced by the other verdict (Overturn).     *)
(***************************************************************************)
CONSTANT Commands           \* the rows: one for each call of Issue

VARIABLE log

InFlight == {"pending", "sent"}
Verdicts == {"confirmed", "failed"}
Status == {"none", "refused"} \cup InFlight \cup Verdicts

LogTypeOK == log \in [Commands -> Status]

LogInit == log = [c \in Commands |-> "none"]

Becomes(c, s) == log' = [log EXCEPT ![c] = s]

Refuse(c) == log[c] = "none" /\ Becomes(c, "refused")
Record(c) == log[c] = "none" /\ Becomes(c, "pending")
Publish(c) == log[c] = "pending" /\ Becomes(c, "sent")
Rule(c) == log[c] \in InFlight /\ \E v \in Verdicts : Becomes(c, v)
Overturn(c) == log[c] \in Verdicts /\ \E v \in Verdicts : Becomes(c, v)

LogNext == \E c \in Commands : Refuse(c) \/ Record(c) \/ Publish(c)
                               \/ Rule(c) \/ Overturn(c)

LogSafeSpec == LogInit /\ [][LogNext]_log

\* "Nothing may sit in a non-terminal state forever" (device_command.go).
LogSpec == LogSafeSpec /\ \A c \in Commands : WF_log(Rule(c))
=============================================================================
