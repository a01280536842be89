--------------------------- MODULE MCTerminalTrial ---------------------------
EXTENDS TerminalTrial
CONSTANTS t1, t2, t3
=============================================================================
