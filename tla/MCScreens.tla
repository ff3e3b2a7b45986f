----------------------------- MODULE MCScreens -----------------------------
\* Screens for TLC: every constant gets its value in the configuration.
EXTENDS Screens
============================================================================
