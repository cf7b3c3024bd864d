--------------------------- MODULE MCWriteTuples ---------------------------
(* WriteTuples with the batch size of the code and lists up to two and a  *)
(* half batches long, so that requests mixing writes and deletes, full     *)
(* batches and a short last batch all occur.                               *)
EXTENDS WriteTuples

MCBatchSize == 10
MCMaxWrites == 25
MCMaxDeletes == 25
=============================================================================
