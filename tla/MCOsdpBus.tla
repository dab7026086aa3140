------------------------------ MODULE MCOsdpBus ------------------------------
(***************************************************************************)
(* One reader of every kind AddPD takes: none, optional and required       *)
(* encryption.  The backoff is one or two slots, long enough for ordinary  *)
(* traffic to come between two handshakes.                                 *)
(***************************************************************************)
EXTENDS OsdpBus

NoKey == [key |-> FALSE, required |-> FALSE]
Optional == [key |-> TRUE, required |-> FALSE]
Required == [key |-> TRUE, required |-> TRUE]
EveryConfig == {NoKey, Optional, Required}
OnlyRequired == {Required}
OnlyOptional == {Optional}
=============================================================================
