------------------------------ MODULE MCDaemon ------------------------------
EXTENDS Daemon, TLC

CONSTANTS n1, n2

=============================================================================
