--------------------------- MODULE MCStdioClient ---------------------------
(* Instances of StdioClient for TLC.                                       *)
EXTENDS StdioClient

CONSTANTS c1, c2

=============================================================================
