--------------------------- MODULE MCSnapshotService ---------------------------
(* One snapshot service, killed and restarted; MCSharedWorld checks the rest. *)
EXTENDS SnapshotService
=============================================================================
