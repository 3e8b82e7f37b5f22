------------------------------ MODULE MCProbe -------------------------------
EXTENDS Probe, TLC

MCReplySize == [q \in 0..(Count - 1) |-> 2] @@ (Body :> 1) @@ (Wrap :> 1)
MCUninitialized == {0}
MCGarbage == {Body}
=============================================================================
