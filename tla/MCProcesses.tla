---------------------------- MODULE MCProcesses ----------------------------
EXTENDS Processes

\* The descriptors in use when a program starts.
Using(open) == [d \in Descriptors |-> IF d \in open THEN "OPEN" ELSE "CLOSED"]

\* Standard input closed; enough open files to outgrow the table.
MCLaunches == {Using({}), Using({0, 1, 2})}

\* Standard input is a pipe that the writer has closed.
MCHungUp == {[Using({0}) EXCEPT ![0] = "HUNGUP"]}

MCTerminal == {Using({0})}
=============================================================================
