------------------------------ MODULE MCDnstest ------------------------------
EXTENDS Dnstest

CONSTANTS w1, w2

MCWorker == {w1, w2}
=============================================================================
