----------------------------- MODULE MCCsvParser -----------------------------
(***************************************************************************)
(* Every document of up to seven characters over a digit, a letter, the    *)
(* quote, the delimiter and the line end, in a buffer of two characters    *)
(* and the zero: long enough for a field that does not fit, two fields, a  *)
(* line end and what follows it.                                           *)
(***************************************************************************)
EXTENDS CsvParser

MCChars == {"1", "x"}

(* atoi: skip white space, then the digits up to the first other char.     *)
MCAtoi(s) ==
  LET digits[i \in 1 .. Len(s) + 1, n \in Nat, first \in BOOLEAN] ==
        IF i > Len(s) THEN n
        ELSE IF s[i] = "1" THEN digits[i + 1, 10 * n + 1, FALSE]
        ELSE IF s[i] = Delimiter /\ first THEN digits[i + 1, n, TRUE]
        ELSE n
  IN  digits[1, 0, TRUE]
=============================================================================
