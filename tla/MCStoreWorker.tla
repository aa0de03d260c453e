--------------------------- MODULE MCStoreWorker ---------------------------
(* StoreWorker over two runs of the service, against the record it keeps. *)
EXTENDS StoreWorker
=============================================================================
