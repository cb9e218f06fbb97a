--------------------------- MODULE MCLiveSession ---------------------------
(***************************************************************************)
(* LiveSession for TLC: two sources that load and one that does not, which *)
(* shares its revision label with one that does.                           *)
(***************************************************************************)
EXTENDS LiveSession, TLC

CONSTANTS s1, alpha, beta, broken

MCRevision == alpha :> 1 @@ beta :> 2 @@ broken :> 1
=============================================================================
