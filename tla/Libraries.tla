------------------------------ MODULE Libraries ------------------------------
(***************************************************************************)
(* The libraries of src/src/mm and src/src/serialization side by side: the *)
(* block pool, the arena with its views, the reference counts of the       *)
(* collector, the two heaps; JSON texts and JSON values, the two binary  *)
(* formats and the OData service.  They share no state, so their steps     *)
(* commute and a behaviour of the whole is one of each: a run moves one    *)
(* part, picked in the initial state.                                      *)
(***************************************************************************)
EXTENDS Pool, MemoryView, Gc, SharedHeap, Tlsf, Json, JsonTree, Protobuf, Edf, Odata

CONSTANT Parts  \* the parts to move

VARIABLE part

vars == <<part, poolVars, viewVars, gcVars, heapVars, tlsfVars, jsonVars, treeVars, pbVars, edfVars, odataVars>>

mmVars == <<poolVars, viewVars, gcVars, heapVars, tlsfVars>>
textVars == <<jsonVars, treeVars, pbVars, edfVars, odataVars>>

Init == /\ part \in Parts
        /\ PoolInit /\ ViewInit /\ GcInit /\ HeapInit /\ TlsfInit
        /\ IF part = "json" THEN JsonInit ELSE JsonInit /\ jflags = {} /\ head = TextEnd
        /\ TreeInit
        /\ IF part = "protobuf" THEN PbInit ELSE PbInit /\ pcap = 0 /\ ~pgrows
        /\ IF part = "edf" THEN EdfInit ELSE EdfInit /\ ew.cap = 0 /\ ~ew.grows
        /\ OdataInit

Next == \/ part = "pool" /\ PoolNext /\ UNCHANGED <<part, viewVars, gcVars, heapVars, tlsfVars, textVars>>
        \/ part = "views" /\ ViewNext /\ UNCHANGED <<part, poolVars, gcVars, heapVars, tlsfVars, textVars>>
        \/ part = "gc" /\ RefStep /\ UNCHANGED <<part, poolVars, viewVars, heapVars, tlsfVars, textVars>>
        \/ part = "heap" /\ HeapNext /\ UNCHANGED <<part, poolVars, viewVars, gcVars, tlsfVars, textVars>>
        \/ part = "tlsf" /\ TlsfNext /\ UNCHANGED <<part, poolVars, viewVars, gcVars, heapVars, textVars>>
        \/ part = "json" /\ JsonNext
           /\ UNCHANGED <<part, mmVars, treeVars, pbVars, edfVars, odataVars>>
        \/ part = "tree" /\ TreeNext
           /\ UNCHANGED <<part, mmVars, jsonVars, pbVars, edfVars, odataVars>>
        \/ part = "protobuf" /\ PbNext
           /\ UNCHANGED <<part, mmVars, jsonVars, treeVars, edfVars, odataVars>>
        \/ part = "edf" /\ EdfNext
           /\ UNCHANGED <<part, mmVars, jsonVars, treeVars, pbVars, odataVars>>
        \/ part = "odata" /\ OdataNext
           /\ UNCHANGED <<part, mmVars, jsonVars, treeVars, pbVars, edfVars>>

Spec == Init /\ [][Next]_vars
=============================================================================
