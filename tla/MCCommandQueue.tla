---------------------------- MODULE MCCommandQueue ----------------------------
(* Instances of CommandQueue for TLC.                                      *)
EXTENDS CommandQueue, TLC

CONSTANTS k1, k2, h1, h2

\* One kind of each route: carried out inline, gated and queued, queued without
\* a confirmation, queued for nobody.
OneOfEach == {"kill_switch.disarm", "autogrid.start", "autogrid.scan", "grid.stop"}

=============================================================================
