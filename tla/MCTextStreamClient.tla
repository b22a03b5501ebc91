------------------------- MODULE MCTextStreamClient -------------------------
EXTENDS TextStreamClient, TLC

=============================================================================
