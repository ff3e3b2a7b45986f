-------------------------- MODULE MCTeammateFinder --------------------------
\* TeammateFinder for TLC.  The device that only looks may have two reads open,
\* so that the answer to the first can come after the second was made.
EXTENDS TeammateFinder

MCMaxReads == [d \in Devices |-> IF d \in Authors THEN 1 ELSE 2]
=============================================================================
