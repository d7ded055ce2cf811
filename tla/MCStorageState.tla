--------------------------- MODULE MCStorageState ---------------------------
(* Small instances of StorageState for TLC. *)
EXTENDS StorageState, TLC

CONSTANTS s1, s2, s3
=============================================================================
