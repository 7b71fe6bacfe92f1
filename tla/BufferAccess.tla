---------------------------- MODULE BufferAccess ----------------------------
(***************************************************************************)
(* What the synchronisation objects of the driver promise to its clients:  *)
(* an operation announces the surfaces it will read and write when it is   *)
(* issued, and the operations that touch a surface are carried out on it   *)
(* one at a time, in the order in which they were issued.  Whether an      *)
(* operation is a render on the GPU or a flip of the display does not      *)
(* matter.  CommandQueue implements this specification with two pairs of   *)
(* counters per surface.                                                   *)
(***************************************************************************)
EXTENDS Naturals

CONSTANTS
  Syncs,   (* one synchronisation object per surface                       *)
  MaxOps   (* bound: operations issued in a behaviour                      *)

VARIABLES
  issued,  (* number of operations issued so far                           *)
  uses,    (* uses[o]: the surfaces operation o touches                    *)
  done     (* operations carried out                                       *)

accessVars == <<issued, uses, done>>

Ops == 1..MaxOps

Init ==
  /\ issued = 0
  /\ uses = [o \in Ops |-> {}]
  /\ done = {}

\* An operation enters the order of every surface in S at once.
Issue(S) ==
  /\ issued < MaxOps
  /\ issued' = issued + 1
  /\ uses' = [uses EXCEPT ![issued + 1] = S]
  /\ UNCHANGED done

\* An operation is carried out when nothing issued before it still has to
\* use one of its surfaces.
CarryOut(o) ==
  /\ o \in 1..issued
  /\ o \notin done
  /\ \A e \in 1..(o - 1) : uses[e] \cap uses[o] # {} => e \in done
  /\ done' = done \cup {o}
  /\ UNCHANGED <<issued, uses>>

Next ==
  \/ \E S \in SUBSET Syncs : Issue(S)
  \/ \E o \in Ops : CarryOut(o)

Spec == Init /\ [][Next]_accessVars
=============================================================================
