--------------------------- MODULE MCConfBuilder ---------------------------
(***************************************************************************)
(* Two bootable systems that share a kernel, and one without an initrd.    *)
(***************************************************************************)
EXTENDS BuilderOnEsp, TLC

CONSTANTS s1, s2, s3, k1, i1, i2, n1, n2, n3, none, dflt, header

MCSystems == {s1, s2, s3}
MCStoreFiles == {k1, i1, i2}
MCNames == {n1, n2, n3}
MCCleanName == k1 :> n1 @@ i1 :> n2 @@ i2 :> n3
MCKernel == s1 :> k1 @@ s2 :> k1 @@ s3 :> k1
MCInitrd == s1 :> i1 @@ s2 :> i2 @@ s3 :> none
MCGens == 1 .. 2
============================================================================
