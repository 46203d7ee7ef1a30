------------------------------ MODULE MCKFifo ------------------------------
EXTENDS KFifo, SequencesExt

CONSTANTS a, b

MCValues == {a, b}
(* One element more than the ring holds. *)
MCBuffers == SeqOf(MCValues, Size + 1)
MCLengths == 0..Size+1
=============================================================================
