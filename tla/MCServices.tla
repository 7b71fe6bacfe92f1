----------------------------- MODULE MCServices -----------------------------
(* Constants for model-checking Services: every step of the start and stop *)
(* fails in some load; the clients' loads let the init server fail too.    *)
EXTENDS Services

CONSTANTS p1, p2, f1, f2, s1

MCLoads ==
    {[fault |-> f, client |-> "none"] : f \in Faults}
    \union {[fault |-> f, client |-> c] :
              f \in {"none", "ccbinfo"}, c \in {"pb", "events", "sleep"}}
    \union {[fault |-> "misrwq", client |-> "pb"]}

=============================================================================
