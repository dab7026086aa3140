-------------------------------- MODULE MCSite --------------------------------
(***************************************************************************)
(* Two segments with one door each, both at address 1, as readers are      *)
(* numbered per segment.                                                   *)
(***************************************************************************)
EXTENDS Site, TLC

CONSTANTS b1, b2, d1, d2

TwoWired == (d1 :> b1) @@ (d2 :> b2)
BothFirst == (d1 :> 1) @@ (d2 :> 1)
OneWired == (d1 :> b1)
OnlyFirst == (d1 :> 1)
=============================================================================
