----------------------------- MODULE MCDisplay -----------------------------
(***************************************************************************)
(* Instances of Display for TLC: a screen of two columns and two rows, the *)
(* last column of which fits exactly.                                      *)
(***************************************************************************)
EXTENDS Display

Grant   == [code |-> "response", depth |-> 32, pointer |-> 53,
            width |-> SCREEN_WIDTH, height |-> SCREEN_HEIGHT]
Refusal == [Grant EXCEPT !.code = "error"]
Shallow == [Grant EXCEPT !.depth = 16]
Answers == {Grant, Refusal, Shallow, [Grant EXCEPT !.pointer = 0]}
=============================================================================
