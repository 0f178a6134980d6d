---------------------------- MODULE MCPinnacleBets ----------------------------
EXTENDS PinnacleBets
CONSTANTS x, y
MCSels == {x, y}
=============================================================================
