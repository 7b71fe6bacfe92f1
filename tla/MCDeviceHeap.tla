---------------------------- MODULE MCDeviceHeap ----------------------------
(* Constants of the model checker's instance of DeviceHeap.  A failed first
   attempt of RA_Alloc is followed by an import that the second attempt need not
   use; a failed second attempt leaves its import. *)
EXTENDS DeviceHeap

MCLeakingFaults == {<<"imp1", c, 0>> : c \in SplitFaults}
    \cup {<<"imp2", c, 0>> : c \in {"front", "back"}}

(* Failures and the GPU's cache are explored in behaviours of their own. *)
MCLoads ==
    {[type |-> "shared", others |-> {}, ring |-> 0, faults |-> 1]}
    \cup {[type |-> t, others |-> Others, ring |-> 1, faults |-> 0] : t \in {"shared", "percontext"}}

MCRequests == {<<1, "rw", 1>>, <<2, "dummy", 4>>}
MCWraps == {<<2, 0, "contig">>, <<3, 0, "contig">>, <<2, 1, "scatter">>}
=============================================================================
