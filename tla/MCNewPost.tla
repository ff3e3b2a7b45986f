----------------------------- MODULE MCNewPost -----------------------------
\* NewPost for TLC: every constant gets its value in the configurations.
EXTENDS NewPost
============================================================================
