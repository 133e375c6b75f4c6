------------------------ MODULE MCDoubleWriteBuffer ------------------------
(* Model-checking instance of DoubleWriteBuffer: A is a table and B an     *)
(* index that is created while the database runs.                          *)
EXTENDS DoubleWriteBuffer

CONSTANTS A, B

Pages == {<<A, 1>>, <<A, 2>>, <<B, 1>>, <<B, 2>>}
ThreePages == {<<A, 1>>, <<A, 2>>, <<B, 1>>}
TwoPagesOfIndex == {<<A, 1>>, <<B, 1>>, <<B, 2>>}

(* Two crashes of the process over pages of two versions; a shutdown, a    *)
(* failing write and a crash in any order; a power loss.                   *)
AllScenarios == {
    [pages |-> ThreePages, max_pages |-> 2, powerLoss |-> FALSE,
     versions |-> 2, crashes |-> 2, closes |-> 0, fails |-> 0],
    [pages |-> TwoPagesOfIndex, max_pages |-> 3, powerLoss |-> FALSE,
     versions |-> 1, crashes |-> 1, closes |-> 1, fails |-> 1],
    [pages |-> ThreePages, max_pages |-> 2, powerLoss |-> TRUE,
     versions |-> 1, crashes |-> 1, closes |-> 0, fails |-> 0]}
=============================================================================
