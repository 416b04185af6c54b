--------------------------- MODULE MCAgentLifetime ---------------------------
EXTENDS AgentLifetime
=============================================================================
