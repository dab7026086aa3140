--------------------------- MODULE MCAccessDecision ---------------------------
(***************************************************************************)
(* Decisions over a week of three-minute days.  Every window of two days is *)
(* tried with a badge that passes online; every badge is tried at night.   *)
(***************************************************************************)
EXTENDS AccessDecision

CONSTANTS hours, always, gone,   \* schedules; "gone" was deleted
          staff, guards, ghosts  \* groups

TwoSchedules == {hours, always}
ThreeGroups == {staff, guards, ghosts}
GroupSchedules ==
  [g \in ThreeGroups |-> CASE g = staff -> hours [] g = guards -> always [] OTHER -> gone]

ThreeMinutes == 3
OneWindow(w) == [s \in TwoSchedules |-> IF s = hours THEN {w} ELSE {}]
\* Saturday and Sunday, where the week wraps, and a day in between.
WindowDays == {6, 0, 3}
EveryWindow ==
  {OneWindow([day |-> d, start |-> from, end |-> to]) :
     d \in WindowDays, from \in 0..ThreeMinutes - 1, to \in 0..ThreeMinutes}
Night == OneWindow([day |-> 6, start |-> 2, end |-> 1])

Good ==
  [ storeAnswers |-> TRUE, enrolled |-> TRUE, bound |-> TRUE, decoded |-> TRUE,
    enabled |-> TRUE, online |-> TRUE, sealedEnough |-> TRUE, lockdown |-> FALSE,
    card |-> "active", cardInDate |-> TRUE, holder |-> "active", holderInDate |-> TRUE,
    pinSet |-> TRUE, duressSet |-> TRUE, entered |-> "pin", passbackOK |-> TRUE,
    offline |-> FALSE, servesOffline |-> TRUE, stale |-> FALSE, allowedOffline |-> TRUE ]

\* The uplink: up, or down with each way an offline door refuses.
Down == [Good EXCEPT !.offline = TRUE]
Uplinks == { Good, Down, [Down EXCEPT !.servesOffline = FALSE], [Down EXCEPT !.stale = TRUE],
             [Down EXCEPT !.allowedOffline = FALSE] }

\* What was typed, on cards with and without PINs.
Pins(b) ==
  { [b EXCEPT !.pinSet = p[1], !.duressSet = p[2], !.entered = typed] :
      p \in {<<TRUE, TRUE>>, <<TRUE, FALSE>>, <<FALSE, FALSE>>},
      typed \in {"nothing", "pin", "duress", "other"} }

\* One thing wrong at a time, besides the uplink, the PIN and the grants.
OneWrong(b) ==
  { b, [b EXCEPT !.storeAnswers = FALSE], [b EXCEPT !.enrolled = FALSE],
    [b EXCEPT !.bound = FALSE], [b EXCEPT !.decoded = FALSE], [b EXCEPT !.enabled = FALSE],
    [b EXCEPT !.online = FALSE], [b EXCEPT !.sealedEnough = FALSE],
    [b EXCEPT !.lockdown = TRUE], [b EXCEPT !.cardInDate = FALSE],
    [b EXCEPT !.holderInDate = FALSE], [b EXCEPT !.passbackOK = FALSE] }
  \cup {[b EXCEPT !.card = c] : c \in {"unknown", "revoked", "lost", "other"}}
  \cup {[b EXCEPT !.holder = h] : h \in {"none", "other"}}

TriedBadges == UNION {Pins(b) \cup OneWrong(b) : b \in Uplinks}

\* Every window with a badge that passes, every badge with the night window.
MCInit ==
  /\ badge \in Badges
  /\ windows \in IF badge = Good THEN WindowSets ELSE {Night}
  /\ AccessInit

MCSpec == MCInit /\ [][AccessNext]_accessVars
=============================================================================
