-------------------------------- MODULE MCMig --------------------------------
EXTENDS Mig

\* A message with a transaction id that no query has.
MCStrayId == {Count}
\* malloc takes large arrays from fresh pages, which are zero.
MCUninitialized == {0}
=============================================================================
