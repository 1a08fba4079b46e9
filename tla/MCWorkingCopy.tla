--------------------------- MODULE MCWorkingCopy ---------------------------
(***************************************************************************)
(* Small instances of WorkingCopy: two texts that mean the same (a file    *)
(* typed by hand and the way the application prints it), one that means    *)
(* something else, and one that does not compile.                          *)
(***************************************************************************)
EXTENDS WorkingCopy, TLC

CONSTANTS f1, f2, printed, typed, other, broken, M1, M2

FewTexts == {printed, other, broken}
TwoTexts == {printed, other}
GoodTexts == {printed, typed, other}
MCMeaning == [t \in Texts |-> CASE t \in {printed, typed} -> M1
                                [] t = other -> M2
                                [] t = broken -> None]
MCCanonical == (M1 :> printed) @@ (M2 :> other)
=============================================================================
