---------------------------- MODULE MCUpstreams ----------------------------
(* Small instances of Upstreams for TLC.                                    *)
EXTENDS Upstreams, TLC

CONSTANTS c1, c2
=============================================================================
