---------------------------- MODULE AnswerStream ----------------------------
(***************************************************************************)
(* What a streamed answer promises to the handler that returns it: while   *)
(* it is sent nothing is handed over for caching, it is handed over in the *)
(* step in which it is complete, and after its end nothing happens to it.  *)
(* Module Streaming keeps this promise, module Gateway relies on it.       *)
(***************************************************************************)
VARIABLES
    body,    \* how much of the answer was sent: "none", "part", "whole"
    handed,  \* was the answer handed over for caching?
    over     \* did the stream end?

vars == <<body, handed, over>>

Init == body = "none" /\ handed = FALSE /\ over = FALSE

Send ==
    /\ ~over
    /\ body' = "part"
    /\ UNCHANGED <<handed, over>>

Complete ==
    /\ ~over
    /\ over' = TRUE
    /\ body' = "whole"
    /\ handed' = TRUE

\* The provider fails, or the client hangs up: possibly before the first frame.
Break ==
    /\ ~over
    /\ over' = TRUE
    /\ body' \in {body, "part"}
    /\ UNCHANGED handed

Next == Send \/ Complete \/ Break

Spec == Init /\ [][Next]_vars
=============================================================================
