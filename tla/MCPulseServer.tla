---------------------------- MODULE MCPulseServer ----------------------------
\* Small instances of PulseServer for TLC.
EXTENDS PulseServer
CONSTANTS plain, reconnecting

TwoClients == {plain, reconnecting}
OneReconnects == {reconnecting}
===============================================================================
