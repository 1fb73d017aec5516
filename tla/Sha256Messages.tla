--------------------------- MODULE Sha256Messages ---------------------------
(* The messages the checks hash, the bytes 97, 98, 99, ... ("abc..."), and *)
(* the digests that the standard gives for some of them.                   *)
EXTENDS Integers, Sequences

Letters(k) == (97 + k) % 256

(* Known digests.                                                          *)
Known(n) ==
  CASE n = 0 -> << <<\he3b0, \hc442>>, <<\h98fc, \h1c14>>, <<\h9afb, \hf4c8>>, <<\h996f, \hb924>>,
               <<\h27ae, \h41e4>>, <<\h649b, \h934c>>, <<\ha495, \h991b>>, <<\h7852, \hb855>> >>
    [] n = 3 -> << <<\hba78, \h16bf>>, <<\h8f01, \hcfea>>, <<\h4141, \h40de>>, <<\h5dae, \h2223>>,
               <<\hb003, \h61a3>>, <<\h9617, \h7a9c>>, <<\hb410, \hff61>>, <<\hf200, \h15ad>> >>
    [] n = 55 -> << <<\h6493, \h8487>>, <<\hf49f, \h7264>>, <<\ha667, \ha999>>, <<\hc238, \ha8bf>>,
               <<\h7839, \h0f30>>, <<\h6bf1, \ha4fc>>, <<\h97c8, \h1103>>, <<\h56fb, \h593d>> >>
    [] n = 56 -> << <<\h162f, \hd87f>>, <<\hdb5a, \h2170>>, <<\hcfd6, \hc283>>, <<\hb44c, \h8c21>>,
               <<\h5bea, \hc666>>, <<\h36d5, \hd1a7>>, <<\hb78e, \h1fe5>>, <<\h46ba, \h0bae>> >>
    [] n = 64 -> << <<\hc071, \hfb5b>>, <<\h95d7, \h5606>>, <<\h16f6, \h3c0a>>, <<\h90d1, \hd462>>,
               <<\hb91f, \h1c99>>, <<\h2a49, \hcb60>>, <<\hdcb8, \h5c7e>>, <<\h0754, \h0e36>> >>
    [] n = 120 -> << <<\h10ef, \h24fe>>, <<\h5394, \h00db>>, <<\h8ba0, \h2fec>>, <<\h489b, \hcceb>>,
               <<\h23a7, \hfa2a>>, <<\h7813, \h96a0>>, <<\h2efd, \h267c>>, <<\hebd7, \h8131>> >>
KnownLengths == {0, 3, 55, 56, 64, 120}
=============================================================================
