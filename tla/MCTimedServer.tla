---------------------------- MODULE MCTimedServer ----------------------------
\* Small instances of TimedServer for TLC.
EXTENDS TimedServer
CONSTANTS c1, c2, c3

AllClients == {c1, c2, c3}
===============================================================================
