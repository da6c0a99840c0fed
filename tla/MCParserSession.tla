-------------------------- MODULE MCParserSession --------------------------
(* The owners of ParserSession for TLC are model values.                   *)
EXTENDS ParserSession

CONSTANTS reader, first, second
=============================================================================
