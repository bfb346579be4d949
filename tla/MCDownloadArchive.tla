-------------------------- MODULE MCDownloadArchive --------------------------
(* Instances of DownloadArchive for TLC.                                   *)
EXTENDS DownloadArchive
=============================================================================
