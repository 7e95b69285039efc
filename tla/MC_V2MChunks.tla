---------------------------- MODULE MC_V2MChunks ----------------------------
(* Model-checking instance of V2MChunks: four virtual frames, six physical *)
(* frames, 4K and 2M-like pages, page lists of up to three pages.          *)
EXTENDS V2MChunks

MC_VFrames == 0..3
MC_PFrames == 0..5
MC_Sizes == {1, 2}
=============================================================================
