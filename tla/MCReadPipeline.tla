--------------------------- MODULE MCReadPipeline ---------------------------
(* The instance of ReadPipeline for TLC has no definition of its own: every *)
(* constant is a number.                                                    *)
EXTENDS ReadPipeline
=============================================================================
