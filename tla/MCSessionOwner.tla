--------------------------- MODULE MCSessionOwner ---------------------------
\* SessionOwner has no parameters: its state space is finite as it stands.
EXTENDS SessionOwner
=============================================================================
