--------------------------- MODULE MCEntryPipeline ---------------------------
(* EntryPipeline on a small instance. *)
EXTENDS EntryPipeline
=============================================================================
