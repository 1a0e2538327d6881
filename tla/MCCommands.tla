----------------------------- MODULE MCCommands -----------------------------
EXTENDS Commands, MCKeyStore

CONSTANT b1

OneBox == {b1}
=============================================================================
