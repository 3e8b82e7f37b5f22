------------------------------ MODULE MCServer ------------------------------
EXTENDS Server, TLC

CONSTANTS q1, q2, q3, q4

MCQuery == {q1, q2, q3, q4}
MCTwo == {q1, q2}
MCMalformed == {q4}
MCReplySize == [cell \in Query \cup {Body, Wrap} |->
                  CASE cell = q2 -> 3 [] cell \in {q1, q3} -> 2 [] OTHER -> 1]
MCGarbage == {Body}
=============================================================================
