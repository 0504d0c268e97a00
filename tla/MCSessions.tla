----------------------------- MODULE MCSessions -----------------------------
\* HttpSessions for TLC.  Liveness is checked, so there is no symmetry.
EXTENDS HttpSessions
=============================================================================
