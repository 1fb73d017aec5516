---------------------------- MODULE MCClsyncMain ----------------------------
(* ClsyncMain on small instances for TLC.                                  *)
EXTENDS ClsyncMain
=============================================================================
