--------------------------- MODULE MCGsasDispatch ---------------------------
(* GsasDispatch with two clients, of different checkouts and different modes, *)
(* and up to two servers.                                                     *)
EXTENDS GsasDispatch, TLC

CONSTANTS auto, strict, here, there

MCClient    == {auto, strict}
MCCode      == {here, there}
MCCodeOf    == (auto :> here) @@ (strict :> there)
MCFallsBack == {auto}
=============================================================================
