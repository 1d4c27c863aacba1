----------------------------- MODULE MCLocalizer -----------------------------
(* Instance of Localizer for TLC: a corridor with a pillar, three levels.  *)
EXTENDS Localizer

MCFactor == <<1, 2, 3>>
MCHomes == {[x |-> 10, t |-> 1]}
MCBeamMult == <<3, 2, 1>>
=============================================================================
