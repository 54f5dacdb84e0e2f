---------------------------- MODULE MCMediaGroup ----------------------------
(***************************************************************************)
(* MediaGroup with an album of two photos, the first of which is edited    *)
(* once, and two instances.                                                *)
(***************************************************************************)
EXTENDS MediaGroup

CONSTANTS f1, f2, i1, i2

MCPhotos      == {f1, f2}
MCInstances   == {i1, i2}
MCMaxArrivals == f1 :> 2 @@ f2 :> 1
=============================================================================
