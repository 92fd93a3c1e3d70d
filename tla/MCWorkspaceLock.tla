--------------------------- MODULE MCWorkspaceLock ---------------------------
EXTENDS WorkspaceLock, TLC

CommandSymmetry == Permutations(Command)
=============================================================================
