--------------------------- MODULE MCKeyboardEcho ---------------------------
(***************************************************************************)
(* Screens of two lines of two glyphs: with pixels left over at the right  *)
(* and the bottom, with none left over, and with a stride beyond the       *)
(* width.                                                                  *)
(***************************************************************************)
EXTENDS KeyboardEcho

Info(w, h, s) == [width |-> w, height |-> h, stride |-> s]

MCInfos == {Info(20, 31, 20), Info(18, 30, 18), Info(20, 31, 40), Info(9, 15, 9)}
=============================================================================
