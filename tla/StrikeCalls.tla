---------------------------- MODULE StrikeCalls ----------------------------
(***************************************************************************)
(* What the bus promises to whoever asks for a strike, by the comments on  *)
(* Send and drainCommands: a request drives the strike at most once, and   *)
(* only between the call and the bus's answer.  Once the bus has answered, *)
(* with a reply or with an error, the request is over: an opening nobody   *)
(* is waiting for any more does not come later.  (A caller that hangs up   *)
(* on its context does not wait for the bus's answer; Site models that.)   *)
(***************************************************************************)
CONSTANT Requests           \* one for each call of Send

VARIABLES
  answer,                   \* what the bus answered each request
  fired                     \* the requests that drove the strike

calls == <<answer, fired>>

CallsInit ==
  /\ answer = [r \in Requests |-> "none"]
  /\ fired = {}

Call(r) ==
  /\ answer[r] = "none"
  /\ answer' = [answer EXCEPT ![r] = "waiting"]
  /\ UNCHANGED fired

Fire(r) ==
  /\ answer[r] = "waiting" /\ r \notin fired
  /\ fired' = fired \cup {r}
  /\ UNCHANGED answer

\* Several at once: the newest request displaces all the others.
Return(R, result) ==
  /\ \A r \in R : answer[r] = "waiting"
  /\ answer' = [r \in Requests |-> IF r \in R THEN result ELSE answer[r]]
  /\ UNCHANGED fired

CallsNext ==
  \/ \E r \in Requests : Call(r) \/ Fire(r)
  \/ \E R \in SUBSET Requests, result \in {"ok", "error"} : Return(R, result)

CallsSpec == CallsInit /\ [][CallsNext]_calls
=============================================================================
