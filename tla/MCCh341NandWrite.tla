---- MODULE MCCh341NandWrite ----
EXTENDS Ch341NandWrite
CONSTANTS x, y
MCData == {x, y, Blank}
MCImage == [p \in Pages |-> IF p = 1 THEN y ELSE IF p = NBlocks * PagesPerBlock - 1 THEN Blank ELSE x]
====
