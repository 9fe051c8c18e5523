--------------------------- MODULE MCNdjsonWriter ---------------------------
(***************************************************************************)
(* Small instances of NdjsonWriter: a 10-byte buffer (80% mark at 8),      *)
(* lines of 3 and 5 bytes, and of 8, which is too long to be rendered.     *)
(***************************************************************************)
EXTENDS NdjsonWriter

CONSTANTS t1, t2, t3

MCThreads == {t1, t2, t3}
MCLens == {3, 5, 8}
MCOpens == BOOLEAN
=============================================================================
