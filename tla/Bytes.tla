------------------------------- MODULE Bytes --------------------------------
(***************************************************************************)
(* Python's integers as bytes: what int.to_bytes and the operator ^ do,    *)
(* for the frames of module Commands and the checksum of module VoicePack. *)
(* Bitwise of the community modules has ^^ as well, by a recursion that    *)
(* the provers cannot use; numbers of 16 bits do without.                  *)
(***************************************************************************)
EXTENDS Integers, Sequences

Byte == 0 .. 255
Word == { n \in Nat : n < 65536 }

\* The bit of n that counts p, a power of two.
Bit(n, p) == (n \div p) % 2

\* a ^ b, of words.
Xor(a, b) ==
    LET At(p) == p * ((Bit(a, p) + Bit(b, p)) % 2) IN
    At(1) + At(2) + At(4) + At(8) + At(16) + At(32) + At(64) + At(128)
    + At(256) + At(512) + At(1024) + At(2048) + At(4096) + At(8192) + At(16384) + At(32768)

\* n.to_bytes(2, "little") and n.to_bytes(2, "big"), of words.
LittleEndian(n) == <<n % 256, n \div 256>>
BigEndian(n)    == <<n \div 256, n % 256>>

\* n.to_bytes(4, "little"), of n below 2^32.
LittleEndian4(n) == LittleEndian(n % 65536) \o LittleEndian(n \div 65536)
=============================================================================
