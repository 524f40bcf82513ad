----------------------------- MODULE MCBroadcast ----------------------------
(* Three objects: b and d are broadcast, u is for one object.              *)
EXTENDS Broadcast, TLC

CONSTANTS o1, o2, o3, b, d, u

FromDef == (b :> o1) @@ (d :> o2) @@ (u :> o1)
ToDef   == (b :> o1) @@ (d :> o1) @@ (u :> o3)
=============================================================================
