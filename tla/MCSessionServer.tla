-------------------------- MODULE MCSessionServer --------------------------
\* The session server on a small instance.
EXTENDS SessionServer

============================================================================
