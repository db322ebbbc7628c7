------------------------------ MODULE MCSeeds ------------------------------
EXTENDS Seeds

\* Unset, not a number, and a number, for each variable.
MCEnv == [Keys -> {Unset, Value(<<Word>>), Value(<<Number(7)>>)}]

MCStartTimes == {100, 101}
=============================================================================
