--------------------------- MODULE MCFaceGallery ---------------------------
(* Instances of FaceGallery for TLC: track 1 is Ann's, and Ann and Bob are *)
(* both seen without a tracking-id.                                        *)
EXTENDS FaceGallery, TLC

CONSTANTS ann, bob

MCShows == (0 :> {ann, bob}) @@ (1 :> {ann})

ThreadSymmetry == Permutations(Threads)

=============================================================================
