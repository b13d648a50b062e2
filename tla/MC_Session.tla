----------------------------- MODULE MC_Session -----------------------------
\* Two sessions and three requests: turns of one session overlap, exceed
\* maxTurns, expire and are reset, across two restarts.
EXTENDS Session
=============================================================================
