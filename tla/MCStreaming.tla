---------------------------- MODULE MCStreaming ----------------------------
(***************************************************************************)
(* Streaming for TLC: one ordinary text, one that contains the text of the *)
(* sentinel, and the text error.                                           *)
(***************************************************************************)
EXTENDS Streaming

CONSTANTS word, doneText, errorText
=============================================================================
