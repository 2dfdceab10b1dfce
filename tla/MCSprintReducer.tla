---------------------------- MODULE MCSprintReducer ----------------------------
EXTENDS SprintReducer

\* 1 and 2 start at once.  2, 3 and 4 write the same file, and 3 also waits
\* for 1: when 1 fails, 3 is closed while 2 may still be at work, and the
\* barrier of 4 is gone.
MCDeps == <<{}, {}, {1}, {}>>
MCWrites == <<{"x"}, {"p"}, {"p"}, {"p"}>>
================================================================================
