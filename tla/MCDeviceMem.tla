---------------------------- MODULE MCDeviceMem ----------------------------
(* Two processes and three memory infos: one is exported, mapped and mapped again;
   or one address is wrapped by both processes.  The processes are interchangeable. *)
EXTENDS DeviceMem, TLC

MCMems == 1..3
MCLoads == {[kinds |-> {"alloc", "map"}, mems |-> 3, open |-> 1, faults |-> 0],
            [kinds |-> {"alloc", "wrap"}, mems |-> 3, open |-> 1, faults |-> 0],
            [kinds |-> {"alloc", "map", "wrap"}, mems |-> 2, open |-> 2, faults |-> 1],
            [kinds |-> {"dc", "map", "sys"}, mems |-> 2, open |-> 2, faults |-> 1]}
MCRequests == {[heap |-> "own", sync |-> TRUE, resman |-> TRUE],
               [heap |-> "shared", sync |-> FALSE, resman |-> TRUE],
               [heap |-> "own", sync |-> TRUE, resman |-> FALSE]}
Symmetry == Permutations(Procs)
=============================================================================
