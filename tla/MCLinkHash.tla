----------------------------- MODULE MCLinkHash -----------------------------
(* LinkHash with four keys in a table of three places that grows to six: the *)
(* keys collide in the first table, in both, or nowhere, and run over the    *)
(* last place.  The order of the keys does not matter, so the hash functions *)
(* are the ascending ones.                                                   *)
EXTENDS LinkHash

MCKey == 1 .. 4
MCHashes == {h \in [MCKey -> {0, 2, 5}] : \A i \in 1 .. 3 : h[i] <= h[i + 1]}
==============================================================================
