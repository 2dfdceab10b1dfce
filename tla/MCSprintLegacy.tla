---------------------------- MODULE MCSprintLegacy ----------------------------
EXTENDS SprintLegacy

\* No dependencies; 1 and 2 write the same file.  1 and 3 start at once, and
\* the queue holds 2, which the collision bars, and 4, which nothing bars.
MCDeps == <<{}, {}, {}, {}>>
MCWrites == <<{"p"}, {"p"}, {}, {}>>
===============================================================================
