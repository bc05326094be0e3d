---------------------------- MODULE MCConversions -----------------------------
(* Bytes with bits set in every part a Base64 group is cut into, and the      *)
(* terminator; texts of up to five bytes: an empty one, one and two bytes, a  *)
(* full group, and a full group with each length of the tail.  Texts to decode *)
(* of up to five characters: letters, '=' at every place, a character that is  *)
(* not of the alphabet, and the terminator.  Messages of up                    *)
(* to seven bytes in lines of three: CR LF at the start, before, across and   *)
(* behind the end of a line, twice in a row, and at the end of the message.   *)
EXTENDS Conversions

MCByte == {0, 27, 155, 228}
MCCode == {0, 33, Pad, 81}
MCTraceByte == {CR, LF, 65}
=============================================================================
