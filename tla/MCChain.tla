------------------------------- MODULE MCChain -------------------------------
\* Two upstream buses that share one link; the cfg names them.
EXTENDS Chain
=============================================================================
