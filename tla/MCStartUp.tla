----------------------------- MODULE MCStartUp -----------------------------
EXTENDS StartUp

(* Codes of characters; longer than the UART is deep. *)
MCTexts == {<<>>, <<97, 98, 99>>}
(* One, two and three digits, with every kind of digit. *)
MCValues == {0, 9, 10, 16, 175, 4095}
MCWidths == {0, 1, 2, 4}
=============================================================================
