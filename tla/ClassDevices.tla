---------------------------- MODULE ClassDevices ----------------------------
(***************************************************************************)
(* deviceclass.c as a whole: display devices (DeviceClass) and buffer      *)
(* devices (BufferClass) in one driver.                                    *)
(*                                                                         *)
(* The two halves keep separate records and share only pvr_lock, which     *)
(* each models for itself, so that a step of one changes nothing of the    *)
(* other and what holds in the steps of one half holds in any interleaving *)
(* of both.  For this reason a behaviour loads one of the two providers;   *)
(* the environment of the other half plays no part.                        *)
(***************************************************************************)
EXTENDS DeviceClass, BufferClass

VARIABLE provider   (* bound: the provider that is loaded in this behaviour *)

classVars == <<vars, bcVars, provider>>

ClassInit ==
  /\ Init
  /\ BCInit
  /\ \/ provider = "omaplfb" /\ bcEnv = CHOOSE e \in BCEnvironments : TRUE
     \/ provider = "bc_cat" /\ env = CHOOSE e \in Environments : TRUE

ClassNext ==
  \/ provider = "omaplfb" /\ Next /\ UNCHANGED <<bcVars, provider>>
  \/ provider = "bc_cat" /\ BCNext /\ UNCHANGED <<vars, provider>>

ClassSpec == ClassInit /\ [][ClassNext]_classVars

\* Both halves keep to the types of their records; the counters of the driver
\* are unsigned and are never decremented below zero.
ClassTypeOK == TypeOK /\ BCTypeOK
=============================================================================
