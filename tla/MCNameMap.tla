------------------------------ MODULE MCNameMap ------------------------------
EXTENDS NameMap, TLC

\* Runs without and with --delete, and with --delete-keys, which implies it.
MCOpts ==
  {[del |-> FALSE, delkey |-> FALSE],
   [del |-> TRUE,  delkey |-> FALSE],
   [del |-> TRUE,  delkey |-> TRUE]}

NoDelete == {o \in MCOpts : ~o.del}

\* The names are random: none is like another.
AnyNames == Permutations(Cipher)
=============================================================================
