------------------------------ MODULE MCIngest ------------------------------
(* Small instances of Ingest for TLC.                                      *)
EXTENDS Ingest

CONSTANTS S, T      \* the symbols
=============================================================================
