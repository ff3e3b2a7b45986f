----------------------------- MODULE MCPostFeed -----------------------------
EXTENDS PostFeed
============================================================================
