---------------------------- MODULE MCRecordFile ----------------------------
(* Blocks of three words, and records of up to two words of data: a record  *)
(* fills a block, crosses into the next, or leaves it partly filled.        *)
EXTENDS RecordFile

CONSTANTS w1, w2, r1

MCWriters == {w1, w2}

MCReaders == {r1}
=============================================================================
