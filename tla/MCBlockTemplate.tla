-------------------------- MODULE MCBlockTemplate --------------------------
(* Small instances of BlockTemplate for TLC.                                *)
EXTENDS BlockTemplate, TLC

CONSTANTS timer, session, u1, genesis, top, x, y

\* A chain of two blocks.
MCHeightOf == genesis :> 1 @@ top :> 2
=============================================================================
