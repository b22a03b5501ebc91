--------------------------- MODULE MCAgentSession ---------------------------
EXTENDS AgentSession, TLC

=============================================================================
