-------------------------- MODULE MCCC3000Commands --------------------------
(***************************************************************************)
(* Names and keys that make the parameter length of connect() and          *)
(* gethostbyname() 255, the most it can tell, and 256; buffers of both     *)
(* parities; files of no bytes, of one piece, of several, and with a rest; *)
(* a patch of no bytes, which is what the code sends, and of two pieces.   *)
(***************************************************************************)
EXTENDS CC3000Commands

MCTexts == {0, 1, 113, 114, 247, 248}
MCBuffers == {0, 1, 30}
MCFiles == {0, 1, 2, 5}
MCPatchLengths == {0, 3}
=============================================================================
