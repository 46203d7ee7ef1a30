----------------------------- MODULE MCCC3000HCI -----------------------------
(***************************************************************************)
(* Small instances of CC3000HCI: one call of each shape, receives of no    *)
(* and of some bytes, and, where the configuration asks for them, events   *)
(* the host has no case for, receive errors and read_buffer_size.          *)
(***************************************************************************)
EXTENDS CC3000HCI

(* One call of each shape.                                                 *)
MCCalls == {"socket", "send", "recv"}
MCAllShapes == {"socket", "send", "recv", "read_buffer_size"}

MCCounts == {0, 5}
MCErrorCounts == {-1, 5}
=============================================================================
