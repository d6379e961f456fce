---- MODULE MCEnclave ----
EXTENDS Enclave, TLC

Sym == Permutations(Objects) \cup Permutations(Threads)
====
