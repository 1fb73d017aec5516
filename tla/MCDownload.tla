----------------------------- MODULE MCDownload -----------------------------
(* Download on small instances for TLC.                                    *)
EXTENDS Download, TLC

CONSTANTS w1, w2, a, b

OwnTargets   == (w1 :> a) @@ (w2 :> b)
SharedTarget == (w1 :> a) @@ (w2 :> a)
=============================================================================
