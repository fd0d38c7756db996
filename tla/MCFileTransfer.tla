-------------------------- MODULE MCFileTransfer --------------------------
(***************************************************************************)
(* Small instances of FileTransfer: one path, the empty file and a file of *)
(* two blocks to upload, a file that begins otherwise and is too           *)
(* large, and two frames of which a mixture is neither.                    *)
(***************************************************************************)
EXTENDS FileTransfer, TLC

CONSTANTS p1, a, b, c, t1, t2

MCPaths == {p1}
MCBlocks == {a, b, c}
MCContents == {<<a, b>>, << >>}
MCLarge == {<<c, a, b>>}
MCFrames == {<<a, c>>, <<b, b>>}
MCTransferIds == {t1, t2}

\* Transfer ids are only compared.
IdSymmetry == Permutations(MCTransferIds)
============================================================================
