----------------------------- MODULE MC_Startup ------------------------------
(* Two images that share one document; each has one of its own. *)
EXTENDS Startup, TLC

MCDocsIn == 1 :> {1, 2} @@ 2 :> {2, 3}
=============================================================================
