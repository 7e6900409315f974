------------------------ MODULE MCStorageReservations ------------------------
(* Small instance of StorageReservations for TLC. *)
EXTENDS StorageReservations, TLC

Symmetry == Permutations(CasUploads)
=============================================================================
