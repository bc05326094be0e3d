------------------------------ MODULE MCTransfer ------------------------------
(* A body of four bytes, a buffer of two or three, responses of up to three   *)
(* bytes with and without a NUL.                                              *)
EXTENDS Transfer

MCByte == 0 .. 9
MCBody == <<1, 2, 3, 4>>
MCResponses == {<<>>, <<7, 8, 9>>, <<7, 0, 9>>}
=============================================================================
