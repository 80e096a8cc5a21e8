-------------------------- MODULE MCLedgerHistory --------------------------
(* TLC instances of LedgerHistory.                                         *)
EXTENDS LedgerHistory, TLC

\* The same tarball for every transfer of the image.
OneTarball == [t \in Transfers |-> CHOOSE h \in Hashes : TRUE]

PushSymmetry == Permutations(Pushes)
=============================================================================
