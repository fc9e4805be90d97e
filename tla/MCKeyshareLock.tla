--------------------------- MODULE MCKeyshareLock ---------------------------
(* Instances of KeyshareLock for TLC.                                      *)
EXTENDS KeyshareLock

CONSTANTS s1, s2

MCSignings == {s1, s2}

=============================================================================
