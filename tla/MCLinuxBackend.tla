--------------------------- MODULE MCLinuxBackend ---------------------------
(***************************************************************************)
(* Instance of LinuxBackend: one content to upload, a PTY that takes fewer *)
(* units than one call may send.                                           *)
(***************************************************************************)
EXTENDS LinuxBackend

CONSTANT new

MCContents == {new}
=============================================================================
