----------------------------- MODULE MC_GetcBuf -----------------------------
(***************************************************************************)
(* GetcBuf on every text of at most MaxLen characters of a small alphabet, *)
(* with comment markers, the ellipsis and a marker of one character.       *)
(***************************************************************************)
EXTENDS GetcBuf

CONSTANT MaxLen

MCChar == {"/", "*", "."}
MCStreams == UNION { [1..n -> MCChar] : n \in 0..MaxLen }
MCMarkers == { <<"/", "*">>, <<"*", "/">>, <<".", ".", ".">>, <<"*">> }
=============================================================================
