----------------------------- MODULE MCCC3000SPI -----------------------------
(***************************************************************************)
(* A small instance of CC3000SPI: payloads of both parities and of no      *)
(* bytes at all, transfers that leave a rest, fill the frame and overrun   *)
(* it, and a bound on how often the caller transfers.                      *)
(***************************************************************************)
EXTENDS CC3000SPI

MCLengths == {0, 3, 4, 65534, 65535}
MCChunks == {1, 2, 7}
MCFrameLengths == {0, 4, 5}
MCMaxAsked == 14
=============================================================================
