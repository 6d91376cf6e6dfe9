---------------------------- MODULE MCChatWindow -----------------------------
\* Module ChatWindow with its symmetry: ports are only compared.
EXTENDS ChatWindow

Symmetry == Permutations(Ports)
=============================================================================
