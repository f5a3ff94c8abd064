---------------------------- MODULE MCStreamGone ----------------------------
(* One stream and one candidate of StreamFallback.                          *)
EXTENDS StreamFallback

CONSTANT p1

OneCandidate == <<p1>>
=============================================================================
