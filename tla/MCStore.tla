------------------------------ MODULE MCStore ------------------------------
\* Store for TLC.
EXTENDS Store

=============================================================================
