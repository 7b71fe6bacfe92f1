------------------------------ MODULE MCUserMap ------------------------------
EXTENDS UserMap

MCProcOf == (1 :> "p") @@ (2 :> "p") @@ (3 :> "q")

(* Two threads and a second handle; two processes, one heir of the other; parts of one
   import; wraps of a buffer and of what is mapped; memory of another process. *)
Load == [areas |-> 2, asks |-> 3, splits |-> 1, heir |-> FALSE,
         anon |-> [r \in Procs |-> <<>>], pages |-> {<<1>>, <<2>>}]
With(l, kinds, threads) == l @@ [kinds |-> kinds, threads |-> threads]
MCLoads ==
    {With(Load, {"multi", "ref"}, {1, 2}),
     With([Load EXCEPT !.areas = 1, !.heir = TRUE, !.splits = 2], {"single", "sync"}, {1, 3}),
     With([Load EXCEPT !.areas = 3, !.pages = {<<1, 2>>}, !.splits = 2], {"sub"}, {1, 3}),
     With([Load EXCEPT !.areas = 3, !.anon["p"] = <<1, 2>>], {"phys", "wrap"}, {1}),
     With([Load EXCEPT !.pages = {<<1, 2>>, <<1, 3>>}], {"single", "map"}, {1, 3})}
=============================================================================
