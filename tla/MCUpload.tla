------------------------------ MODULE MCUpload ------------------------------
EXTENDS Upload

MCPages == {256, 4097}
MCOrder == <<256, 4097>>
MCOld   == [p \in MCPages |-> [i \in 0..1 |-> 1]]
MCImage == [p \in MCPages |->
               IF p = 256 THEN [i \in 0..1 |-> IF i = 0 THEN 100 ELSE 32]
               ELSE [i \in 0..1 |-> IF i = 0 THEN 85 ELSE 48]]
=============================================================================
