---------------------------- MODULE MCCredentials ----------------------------
EXTENDS Credentials, TLC

CONSTANTS p1, p2

=============================================================================
