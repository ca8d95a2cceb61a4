--------------------------- MODULE MCShareLedger ---------------------------
(* Small instances of ShareLedger for TLC.                                  *)
EXTENDS ShareLedger, TLC

CONSTANTS alice, bob, s1, s2, block, share, next, late, k1, k2

\* Two miners; a session each, so one work may be handled twice at once.
MCLoginOf == s1 :> alice @@ s2 :> bob

\* A block with a key of its own; a share, a block and a late share of another
\* key: one height up from the share, and as far as the window and a lag reach.
MCKeyOf == block :> k1 @@ share :> k2 @@ next :> k2 @@ late :> k2
MCHeightOf == block :> 4 @@ share :> 4 @@ next :> 5 @@ late :> 8
=============================================================================
