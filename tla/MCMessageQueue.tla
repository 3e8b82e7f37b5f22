--------------------------- MODULE MCMessageQueue ---------------------------
EXTENDS MessageQueue, TLC

CONSTANTS a, b, c  \* a short, a middle and a long message

MCMessage == {a, b, c}
MCRecordSize == (a :> 1) @@ (b :> 2) @@ (c :> 4) @@ (Body :> 1) @@ (Wrap :> 1)
MCGarbage == {Body, Wrap}
=============================================================================
