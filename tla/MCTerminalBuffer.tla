-------------------------- MODULE MCTerminalBuffer --------------------------
(***************************************************************************)
(* Instance of TerminalBuffer: a grid of three columns and two rows, CSI   *)
(* sequences of at most three characters, and reads that return complete   *)
(* sequences, parts of sequences and plain text.                           *)
(***************************************************************************)
EXTENDS TerminalBuffer

MCChunks ==
  { <<"x">>, <<"y", "z">>, <<"LF", "CR">>, <<"BS", "TAB">>, <<"NUL", "ESC">>,
    <<"[">>, <<"2", ";">>, <<"H">>, <<"J">>, <<"]", "BEL", "\\">>,
    <<"ESC", "[", "?", "2", "5">>, <<"l">>,
    <<"ESC", "[", "3", "1", "m">>, <<"ESC", "[", "K", "x">>,
    <<"ESC", "[", "9">>, <<"A">>, <<"B", "ESC", "[", "C">>, <<"D">>, <<"G">>, <<"d">>,
    <<"SUP2", "1">> }
=============================================================================
