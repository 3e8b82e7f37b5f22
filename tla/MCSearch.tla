------------------------------ MODULE MCSearch -------------------------------
EXTENDS Search

MCLimits == {7, 60, 95, 99, 100, 110, 120, 150, 300}
MCCapacities == {0, 57, 98, 104, 130, 240}
MCClientRates == {83, 104, 1000}
MCUnknown == -1
=============================================================================
