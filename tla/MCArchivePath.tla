--------------------------- MODULE MCArchivePath ---------------------------
(***************************************************************************)
(* ArchivePath on a small instance.                                        *)
(***************************************************************************)
EXTENDS ArchivePath
=============================================================================
