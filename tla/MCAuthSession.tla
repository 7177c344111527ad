---------------------------- MODULE MCAuthSession ----------------------------
\* AuthSession on a small instance.
EXTENDS AuthSession
=============================================================================
