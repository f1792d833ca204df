----------------------------- MODULE MCRayKernels -----------------------------
(***************************************************************************)
(* The kernels at their real size: a full rank and the main diagonal of    *)
(* the 8 x 8 board, filled in every way, walked in every direction, so     *)
(* that runs of all lengths from none to six occur; and the ends of three  *)
(* ranks, where a bit that wraps from file h to file a lands on a disc.    *)
(***************************************************************************)
EXTENDS RayKernels

FilesAToB == {0, 1} \X {4, 5}
FilesGToH == {<<6, 3>>, <<7, 3>>, <<7, 4>>}

MCRegions == {Coordinate \X {4}, {<<i, i>> : i \in Coordinate}, FilesAToB \cup FilesGToH}
=============================================================================
