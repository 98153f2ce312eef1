--------------------------- MODULE MCCloudAccount ---------------------------
(* A small instance of CloudAccount. *)
EXTENDS CloudAccount, TLC

CONSTANTS d1, d2, user

\* MACs: two bytes, one the other's reverse, and another.
SomeMacs == {<<1, 2>>}
Entries == <<d1, None, d2>>

SomeAccounts ==
  { [devices |-> SubSeq(Entries, 1, n), mac |-> mac, user |-> user] :
      n \in {0, 2, 3}, mac \in [{d1, d2} -> {<<1, 2>>, <<2, 1>>, <<3, 3>>}] }
  \cup { [devices |-> Entries, mac |-> [d \in {d1, d2} |-> None], user |-> None] }

Alike == Permutations(Threads)
=============================================================================
