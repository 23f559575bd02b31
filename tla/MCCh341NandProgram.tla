---- MODULE MCCh341NandProgram ----
EXTENDS Ch341NandProgram
CONSTANTS x, y
MCData == {x, y, Blank}
MCImage == [p \in Pages |-> IF p = 1 THEN y ELSE x]
====
