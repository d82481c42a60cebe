--------------------------- MODULE MCProfileChoice ---------------------------
(* ProfileChoice on a small instance: one Sonarr with one episode file. *)
EXTENDS ProfileChoice, TLC

CONSTANTS sonarr, file

Kinds   == sonarr :> "sonarr"
Labels  == sonarr :> [t \in Tag |-> "x"]
Library == file :> sonarr

=============================================================================
