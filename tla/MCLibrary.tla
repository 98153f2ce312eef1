----------------------------- MODULE MCLibrary ------------------------------
(***************************************************************************)
(* Inputs for TLC.  The numbers have the edges of one, two and three bytes *)
(* and numbers whose frames differ least; the packs are shorter than a     *)
(* block, one byte over and many blocks, so that the marker wraps.         *)
(***************************************************************************)
EXTENDS Library

MCStrengths == {NoRssi, -60}
MCShowings == {{"manufacturer"}, {"name", "manufacturer"}, {"service"}}
MCNumbers == {-1, 0, 1, 2, 3, 4, 5, 9, 10, 255, 256, 257, 3658, 59463, 65535, 65536, 16711935}

Blob(n) == [i \in 1 .. n |-> (37 * i) % 256]
MCBlobs == { Blob(n) : n \in {0, 1, 2, 10, 11} }

\* Two languages, one of them in two files and one under the code of the other.
MCRows ==
  [files : {"list", "text", "wrapped", "broken"}, lang : {"13"}, name : {"Francais"},
   code : {"FR"}, file : {"FR1", "FR2"}, md5 : {NoMd5, Blob(11)}]
  \cup [files : {"list"}, lang : {"3", "FR"}, name : {"Deutsch"}, code : {"DE"}, file : {"DE1"},
        md5 : {NoMd5, Blob(11)}]
=============================================================================
