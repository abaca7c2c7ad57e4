---------------------------- MODULE GrowingFile ----------------------------
(***************************************************************************)
(* What ByteArray.c promises a writer: a file in memory.  A write replaces *)
(* what stands at the position and lengthens the file where it ends.       *)
(***************************************************************************)
EXTENDS Integers, Sequences

CONSTANT Cells

VARIABLES
  file,  \* the contents
  at     \* the position

FileInit == file = <<>> /\ at = 0

WriteAt(data) ==
  /\ at' = at + Len(data)
  /\ file' = SubSeq(file, 1, at) \o data \o SubSeq(file, at + Len(data) + 1, Len(file))

SeekTo(p) == p <= Len(file) /\ at' = p /\ UNCHANGED file

FileNext == (\E data \in Seq(Cells) : WriteAt(data)) \/ (\E p \in Nat : SeekTo(p))

FileSpec == FileInit /\ [][FileNext]_<<file, at>>
=============================================================================
