------------------------------ MODULE MCMemory ------------------------------
EXTENDS MemoryManager, TLC
MCOtherArrays == {[rows |-> 3, width |-> 2, maxaccess |-> 1], [rows |-> 1, width |-> 11, maxaccess |-> 1]}
MCFirstSlop == (PERMANENT :> 2) @@ (IMAGE :> 4)
MCExtraSlop == (PERMANENT :> 0) @@ (IMAGE :> 2)
=============================================================================
