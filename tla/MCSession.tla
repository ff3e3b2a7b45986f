----------------------------- MODULE MCSession -----------------------------
\* Session for TLC: the accounts are model values of the configurations.
EXTENDS Session
============================================================================
