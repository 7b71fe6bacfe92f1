---------------------------- MODULE SgxPowerProofs ----------------------------
(***************************************************************************)
(* SgxPower for every number of jobs, every size of the kernel CCB and     *)
(* whatever fails: the variables keep their types, and, if suspend and     *)
(* resume do not race with the driver, the GPU is never accessed without   *)
(* its clocks, is switched off only when it has read its ring, and is      *)
(* watched by the lock-up timer while it is on.                            *)
(*                                                                         *)
(* The first invariant is about the calls a thread still has to make:      *)
(* which may follow which, and what the call that is next finds.  The      *)
(* second adds what the steps of a power-down do to the ring, and the      *)
(* third where the timer's work item is.                                   *)
(***************************************************************************)
EXTENDS SgxPower, SequenceTheorems, TLAPS

PowerUps == {"D0", "MISR_D0", "queues_D0"}

\* Calls that are made only while the GPU is powered.
Powered == {"kick", "process", "HWR", "HWRecoveryResetSGX"}

\* May a thread make call b right after call a?
Follows(a, b) ==
  /\ b \in Powered => a \in PowerUps \/ (a = "pvr_dev_lock" /\ b = "HWRecoveryResetSGX")
  /\ b = "poll" <=> a = "SGXPrePowerState"
  /\ b = "SysDevicePrePowerState" <=> a = "poll"
  /\ b = "PostD3" <=> a = "SysDevicePrePowerState"
  /\ a = "queues_D0" => b = "process"
  /\ b # "pvr_dev_lock"

Linked(s) == \A i \in 1..(Len(s) - 1) : Follows(s[i], s[i + 1])

\* These calls are never the last.
Complete(s) == s # <<>> => s[Len(s)] \notin {"queues_D0", "SGXPrePowerState", "poll", "SysDevicePrePowerState"}

Good(s) == s \in Seq(Calls) /\ Linked(s) /\ Complete(s)

Shapes == \A t \in Threads : Good(todo[t])

-----------------------------------------------------------------------------
(***************************************************************************)
(* Sequences of calls.                                                     *)
(***************************************************************************)

\* What is left after a call.
LEMMA TailGood ==
  ASSUME NEW s, Good(s), s # <<>>
  PROVE  /\ Good(Tail(s)) /\ Head(s) = s[1] /\ <<>> \o Tail(s) = Tail(s)
         /\ s[1] \in {"queues_D0", "SGXPrePowerState", "poll", "SysDevicePrePowerState"} => Tail(s) # <<>>
         /\ Tail(s) # <<>> => Tail(s)[1] = s[2] /\ Len(s) > 1 /\ Follows(s[1], s[2])
<1>1. s \in Seq(Calls) /\ Len(s) \in Nat /\ Len(s) > 0
  BY EmptySeq, LenProperties DEF Good
<1>2. PICK r \in Seq(Calls) : /\ r = Tail(s) /\ Len(r) = Len(s) - 1
                              /\ \A i \in 1..Len(r) : r[i] = s[i + 1]
  BY <1>1, HeadTailProperties
<1>3. Linked(r)
  <2>1. SUFFICES ASSUME NEW i \in 1..(Len(r) - 1) PROVE Follows(r[i], r[i + 1])
    BY DEF Linked
  <2>2. Len(r) \in Nat /\ i \in 1..Len(r) /\ i + 1 \in 1..Len(r)
    BY <1>1, <1>2
  <2>3. r[i] = s[i + 1] /\ r[i + 1] = s[(i + 1) + 1] /\ i + 1 \in 1..(Len(s) - 1)
    BY <1>1, <1>2, <2>2
  <2> QED BY <2>3 DEF Good, Linked
<1>4. r # <<>> => r[1] = s[2] /\ Len(s) > 1 /\ Follows(s[1], s[2]) /\ r[Len(r)] = s[Len(s)]
  <2>1. SUFFICES ASSUME r # <<>>
                 PROVE  r[1] = s[2] /\ Len(s) > 1 /\ Follows(s[1], s[2]) /\ r[Len(r)] = s[Len(s)]
    OBVIOUS
  <2>2. Len(r) \in Nat /\ Len(r) > 0
    BY <2>1, EmptySeq
  <2>3. r[1] = s[2] /\ Len(s) > 1 /\ 1 \in 1..(Len(s) - 1)
    BY <1>1, <1>2, <2>2
  <2>4. Follows(s[1], s[1 + 1])
    BY <2>3 DEF Good, Linked
  <2>5. r[Len(r)] = s[Len(s)]
    BY <1>1, <1>2, <2>2
  <2> QED BY <2>3, <2>4, <2>5
<1>5. Complete(r)
  BY <1>4 DEF Good, Complete
<1>6. s[1] \in {"queues_D0", "SGXPrePowerState", "poll", "SysDevicePrePowerState"} => r # <<>>
  <2>1. ASSUME r = <<>> PROVE Len(s) = 1
    <3>1. Len(r) = 0
      BY <2>1, EmptySeq
    <3> QED BY <1>1, <1>2, <3>1
  <2> QED BY <2>1 DEF Good, Complete
<1>7. <<>> \o r = r
  BY ConcatEmptySeq
<1>8. Head(s) = s[1]
  BY <1>1
<1> QED BY <1>2, <1>3, <1>4, <1>5, <1>6, <1>7, <1>8 DEF Good

\* Calls put in front of others.
LEMMA Joined ==
  ASSUME NEW a, NEW b, Good(a), Good(b), a # <<>>, b # <<>> => Follows(a[Len(a)], b[1])
  PROVE  /\ Good(a \o b) /\ a \o b # <<>> /\ (a \o b)[1] = a[1]
         /\ Len(a) > 1 => Len(a \o b) > 1 /\ (a \o b)[2] = a[2]
         /\ b # <<>> => /\ Len(a \o b) > Len(a)
                        /\ (a \o b)[Len(a) + 1] = b[1]
                        /\ (a \o b)[Len(a \o b)] = b[Len(b)]
<1>1. /\ a \in Seq(Calls) /\ b \in Seq(Calls) /\ Len(a) \in Nat /\ Len(b) \in Nat /\ Len(a) > 0
      /\ b = <<>> <=> Len(b) = 0
  BY EmptySeq, LenProperties DEF Good
<1>2. PICK r \in Seq(Calls) :
        /\ r = a \o b /\ Len(r) = Len(a) + Len(b)
        /\ \A i \in 1..(Len(a) + Len(b)) : r[i] = IF i <= Len(a) THEN a[i] ELSE b[i - Len(a)]
  <2>1. /\ a \o b \in Seq(Calls) /\ Len(a \o b) = Len(a) + Len(b)
        /\ \A i \in 1..(Len(a) + Len(b)) :
              (a \o b)[i] = IF i <= Len(a) THEN a[i] ELSE b[i - Len(a)]
    BY <1>1, ConcatProperties
  <2> QED BY <2>1
<1>3. ASSUME NEW i \in 1..(Len(r) - 1) PROVE Follows(r[i], r[i + 1])
  <2>1. CASE i < Len(a)
    <3>1. r[i] = a[i] /\ r[i + 1] = a[i + 1] /\ i \in 1..(Len(a) - 1)
      BY <1>1, <1>2, <2>1
    <3> QED BY <3>1 DEF Good, Linked
  <2>2. CASE i = Len(a)
    <3>1. r[i] = a[Len(a)] /\ r[i + 1] = b[1] /\ b # <<>>
      BY <1>1, <1>2, <2>2
    <3> QED BY <3>1
  <2>3. CASE i > Len(a)
    <3>0. i - Len(a) \in 1..(Len(b) - 1)
      BY <1>1, <1>2, <2>3
    <3>1. PICK j \in 1..(Len(b) - 1) : j = i - Len(a)
      BY <3>0
    <3>2. r[i] = b[j] /\ r[i + 1] = b[j + 1]
      BY <1>1, <1>2, <2>3, <3>1
    <3> QED BY <3>2 DEF Good, Linked
  <2> QED BY <1>1, <2>1, <2>2, <2>3
<1>4. Complete(r)
  <2>1. CASE b = <<>>
    <3>1. r[Len(r)] = a[Len(a)]
      BY <1>1, <1>2, <2>1
    <3> QED BY <3>1 DEF Good, Complete
  <2>2. CASE b # <<>>
    <3>1. r[Len(r)] = b[Len(b)]
      BY <1>1, <1>2, <2>2
    <3> QED BY <2>2, <3>1 DEF Good, Complete
  <2> QED BY <2>1, <2>2
<1>5. r # <<>> /\ r[1] = a[1] /\ (Len(a) > 1 => Len(r) > 1 /\ r[2] = a[2])
  BY <1>1, <1>2
<1>6. b # <<>> => Len(r) > Len(a) /\ r[Len(a) + 1] = b[1] /\ r[Len(r)] = b[Len(b)]
  BY <1>1, <1>2
<1> QED BY <1>2, <1>3, <1>4, <1>5, <1>6 DEF Good, Linked

\* The calls an ioctl, the MISR, the timer or the power management brings with it.
LEMMA Written ==
  /\ \A c \in Calls \ {"queues_D0", "SGXPrePowerState", "poll", "SysDevicePrePowerState"} :
       Good(<<c>>) /\ <<c>> # <<>> /\ <<c>>[1] = c /\ Len(<<c>>) = 1
  /\ \A c \in {"kick", "HWR", "HWRecoveryResetSGX"}, d \in {"D0", "MISR_D0"} :
       LET s == <<d, c, "SGXTestActivePowerEvent">>
       IN  Good(s) /\ s # <<>> /\ s[1] = d /\ Len(s) = 3 /\ s[3] = "SGXTestActivePowerEvent"
  /\ LET s == <<"tick", "requeue">> IN Good(s) /\ s # <<>> /\ s[1] = "tick"
  /\ LET s == <<"queues_D0", "process">> 
     IN  Good(s) /\ s # <<>> /\ s[1] = "queues_D0" /\ Len(s) = 2 /\ s[2] = "process"
  /\ Good(PowerDown) /\ PowerDown # <<>> /\ PowerDown[1] = "SGXPrePowerState"
  /\ Len(PowerDown) = 4 /\ PowerDown[4] = "PostD3"
  /\ Good(<<>>)
<1> USE DEF Good, Linked, Complete, Follows, Calls, Powered, PowerUps
<1>1. \A c \in Calls \ {"queues_D0", "SGXPrePowerState", "poll", "SysDevicePrePowerState"} :
       Good(<<c>>) /\ <<c>> # <<>> /\ <<c>>[1] = c /\ Len(<<c>>) = 1
  OBVIOUS
<1>2. ASSUME NEW c \in {"kick", "HWR", "HWRecoveryResetSGX"}, NEW d \in {"D0", "MISR_D0"}
      PROVE  LET s == <<d, c, "SGXTestActivePowerEvent">>
             IN  Good(s) /\ s # <<>> /\ s[1] = d /\ Len(s) = 3 /\ s[3] = "SGXTestActivePowerEvent"
  OBVIOUS
<1>3. LET s == <<"tick", "requeue">> IN Good(s) /\ s # <<>> /\ s[1] = "tick"
  OBVIOUS
<1>4. LET s == <<"queues_D0", "process">> 
     IN  Good(s) /\ s # <<>> /\ s[1] = "queues_D0" /\ Len(s) = 2 /\ s[2] = "process"
  OBVIOUS
<1>5. Good(PowerDown) /\ PowerDown # <<>> /\ PowerDown[1] = "SGXPrePowerState"
      /\ Len(PowerDown) = 4 /\ PowerDown[4] = "PostD3"
  BY DEF PowerDown
<1>6. Good(<<>>)
  OBVIOUS
<1> QED BY <1>1, <1>2, <1>3, <1>4, <1>5, <1>6

-----------------------------------------------------------------------------
(***************************************************************************)
(* What a thread finds when it makes its next call.                        *)
(***************************************************************************)

powerVars == <<eCurrentPowerState, sSGXClocksEnabled, armed>>

\* The first of the calls s finds the GPU powered if it needs it to be, and the timer
\* cancelled once a power-down is under way.
HeadOK(s, power, on) ==
  s # <<>> =>
    /\ s[1] \in Powered \cup {"poll", "SysDevicePrePowerState"} => power = "D0"
    /\ s[1] \in {"poll", "SysDevicePrePowerState", "PostD3"} => ~on
    /\ s[1] = "pvr_dev_lock" /\ Len(s) > 1 /\ s[2] = "HWRecoveryResetSGX" => power = "D0"

\* The clocks are off, and eCurrentPowerState is about to say so.
Leaving(s) == s # <<>> /\ s[1] = "PostD3"

PowerInv ==
  /\ todo["lock"] = <<>> \/ todo["pm"] = <<>>
  /\ \A t \in Threads : HeadOK(todo[t], eCurrentPowerState, armed)
  /\ ArmedMeansPowered
  /\ eCurrentPowerState = "D0" => sSGXClocksEnabled \/ \E t \in Threads : Leaving(todo[t])

PInv == TypeOK /\ Shapes /\ (~PMRaces => PowerInv)

Typed == todo \in [Threads -> Seq(Calls)] /\ Shapes

Kept == Typed' /\ (~PMRaces /\ PowerInv => PowerInv')

\* Calls that are right whatever the state of the GPU.
Anytime(s) ==
  s # <<>> => s[1] \notin Powered \cup {"poll", "SysDevicePrePowerState", "PostD3", "pvr_dev_lock"}

\* A thread goes on with the calls r.
LEMMA Moved ==
  ASSUME Typed, NEW t \in Threads, todo[t] # <<>>, NEW r, Good(r),
         todo' = [todo EXCEPT ![t] = r],
         PowerInv => /\ HeadOK(r, eCurrentPowerState', armed')
                     /\ ArmedMeansPowered'
                     /\ eCurrentPowerState' = "D0" => sSGXClocksEnabled' \/ Leaving(r)
  PROVE  Kept
<1>1. r \in Seq(Calls)
  BY DEF Good
<1>2. todo' \in [Threads -> Seq(Calls)] /\ todo'[t] = r /\ \A u \in Threads \ {t} : todo'[u] = todo[u]
  BY <1>1 DEF Typed
<1>3. Shapes'
  BY <1>2 DEF Typed, Shapes
<1>4. ASSUME PowerInv PROVE PowerInv'
  <2>1. \A u \in Threads \ {t} : todo'[u] = <<>>
    BY <1>2, <1>4 DEF PowerInv, Threads
  <2>2. todo'["lock"] = <<>> \/ todo'["pm"] = <<>>
    BY <2>1 DEF Threads
  <2>3. \A u \in Threads : HeadOK(todo'[u], eCurrentPowerState', armed')
    BY <1>2, <1>4, <2>1 DEF HeadOK
  <2>4. eCurrentPowerState' = "D0" => sSGXClocksEnabled' \/ \E u \in Threads : Leaving(todo'[u])
    BY <1>2, <1>4
  <2> QED BY <1>4, <2>2, <2>3, <2>4 DEF PowerInv
<1> QED BY <1>2, <1>3, <1>4 DEF Kept, Typed

\* A thread that is inside the driver and not leaving D0 finds the clocks on.
LEMMA ClocksOn ==
  ASSUME PowerInv, NEW t \in Threads, todo[t] # <<>>, todo[t][1] # "PostD3",
         eCurrentPowerState = "D0"
  PROVE  sSGXClocksEnabled
BY DEF PowerInv, Leaving, Threads

\* A call that does not touch the power is over, and what comes next can wait.
LEMMA Replaced ==
  ASSUME Typed, NEW t \in Threads, todo[t] # <<>>, todo[t][1] # "PostD3",
         NEW r, Good(r), Anytime(r), todo' = [todo EXCEPT ![t] = r],
         UNCHANGED powerVars
  PROVE  Kept
<1>1. ASSUME PowerInv
      PROVE  /\ HeadOK(r, eCurrentPowerState', armed')
             /\ ArmedMeansPowered'
             /\ eCurrentPowerState' = "D0" => sSGXClocksEnabled' \/ Leaving(r)
  <2>1. HeadOK(r, eCurrentPowerState', armed')
    BY DEF HeadOK, Anytime
  <2>2. ArmedMeansPowered'
    BY <1>1 DEF PowerInv, ArmedMeansPowered, powerVars
  <2>3. eCurrentPowerState' = "D0" => sSGXClocksEnabled'
    BY <1>1, ClocksOn DEF powerVars
  <2> QED BY <2>1, <2>2, <2>3
<1> QED BY <1>1, Moved

\* A thread returns from a call that neither powers the GPU up nor down, or finds
\* it powered already.
LEMMA Returned ==
  ASSUME Typed, NEW t \in Threads, todo[t] # <<>>, Return(t, <<>>),
         todo[t][1] \notin {"SGXPrePowerState", "SysDevicePrePowerState", "PostD3"},
         todo[t][1] \in PowerUps => eCurrentPowerState = "D0",
         UNCHANGED powerVars
  PROVE  Kept
<1>1. PICK s : s = todo[t] /\ Good(s) /\ s # <<>>
  BY DEF Typed, Shapes
<1>2. PICK r : r = Tail(s)
  OBVIOUS
<1>3. Good(r) /\ (r # <<>> => r[1] = s[2] /\ Len(s) > 1 /\ Follows(s[1], s[2]))
  BY <1>1, <1>2, TailGood
<1>4. todo' = [todo EXCEPT ![t] = r]
  <2>1. todo' = [todo EXCEPT ![t] = <<>> \o Tail(s)]
    BY <1>1 DEF Return
  <2> QED BY <1>1, <1>2, <2>1, TailGood
<1>5. ASSUME PowerInv
      PROVE  /\ HeadOK(r, eCurrentPowerState', armed')
             /\ ArmedMeansPowered'
             /\ eCurrentPowerState' = "D0" => sSGXClocksEnabled' \/ Leaving(r)
  <2>1. HeadOK(s, eCurrentPowerState, armed)
    BY <1>1, <1>5 DEF PowerInv
  <2>2. HeadOK(r, eCurrentPowerState, armed)
    BY <1>1, <1>3, <2>1 DEF HeadOK, Follows, Powered, PowerUps
  <2>3. ArmedMeansPowered'
    BY <1>5 DEF PowerInv, ArmedMeansPowered, powerVars
  <2>4. eCurrentPowerState' = "D0" => sSGXClocksEnabled'
    BY <1>1, <1>5, ClocksOn DEF powerVars
  <2> QED BY <2>2, <2>3, <2>4 DEF powerVars
<1> QED BY <1>3, <1>4, <1>5, Moved

\* A call is over, and has made others necessary.
LEMMA Pushed ==
  ASSUME Typed, NEW t \in Threads, todo[t] # <<>>,
         todo[t][1] \notin PowerUps \cup {"SGXPrePowerState", "poll", "SysDevicePrePowerState",
                                          "PostD3", "pvr_dev_lock"},
         NEW cs, Good(cs), cs # <<>>, Return(t, cs),
         cs[Len(cs)] \notin PowerUps \cup {"SGXPrePowerState", "poll", "SysDevicePrePowerState"}
  PROVE  /\ Typed'
         /\ \E r : /\ Good(r) /\ r # <<>> /\ r[1] = cs[1] /\ todo' = [todo EXCEPT ![t] = r]
                   /\ Len(cs) > 1 => Len(r) > 1 /\ r[2] = cs[2]
<1>1. PICK s : s = todo[t] /\ Good(s) /\ s # <<>>
  BY DEF Typed, Shapes
<1>2. PICK r : r = Tail(s)
  OBVIOUS
<1>3. Good(r) /\ (r # <<>> => r[1] = s[2] /\ Len(s) > 1 /\ Follows(s[1], s[2]))
  BY <1>1, <1>2, TailGood
<1>4. r # <<>> => Follows(cs[Len(cs)], r[1])
  BY <1>1, <1>3 DEF Follows, Powered, PowerUps
<1>5. /\ Good(cs \o r) /\ cs \o r # <<>> /\ (cs \o r)[1] = cs[1]
      /\ Len(cs) > 1 => Len(cs \o r) > 1 /\ (cs \o r)[2] = cs[2]
  BY <1>3, <1>4, Joined
<1>6. todo' = [todo EXCEPT ![t] = cs \o r]
  BY <1>1, <1>2 DEF Return
<1>7. Typed'
  BY <1>5, <1>6 DEF Typed, Shapes, Good
<1> QED BY <1>5, <1>6, <1>7

\* A thread enters the driver.
LEMMA Entered ==
  ASSUME Typed, NEW t \in Threads, ~PMRaces => \A u \in Threads : todo[u] = <<>>,
         NEW r, Good(r), r # <<>>, todo' = [todo EXCEPT ![t] = r],
         \/ Anytime(r)
         \/ r[1] = "pvr_dev_lock" /\ Len(r) > 1 /\ r[2] # "HWRecoveryResetSGX",
         UNCHANGED powerVars
  PROVE  Kept
<1>1. Typed'
  BY DEF Typed, Shapes, Good
<1>2. ASSUME ~PMRaces, PowerInv PROVE PowerInv'
  <2>1. todo'[t] = r /\ \A u \in Threads \ {t} : todo'[u] = <<>>
    BY <1>2 DEF Typed
  <2>2. todo'["lock"] = <<>> \/ todo'["pm"] = <<>>
    BY <2>1 DEF Threads
  <2>3. HeadOK(r, eCurrentPowerState', armed')
    BY DEF HeadOK, Anytime, Powered
  <2>4. \A u \in Threads : HeadOK(todo'[u], eCurrentPowerState', armed')
    BY <2>1, <2>3 DEF HeadOK
  <2>5. ArmedMeansPowered'
    BY <1>2 DEF PowerInv, ArmedMeansPowered, powerVars
  <2>6. eCurrentPowerState' = "D0" => sSGXClocksEnabled'
    BY <1>2 DEF PowerInv, Leaving, powerVars
  <2> QED BY <2>2, <2>4, <2>5, <2>6 DEF PowerInv
<1> QED BY <1>1, <1>2 DEF Kept

\* Whoever takes pvr_dev_lock first makes good calls.
LEMMA LockedGood ==
  ASSUME NEW cs, Good(cs), cs # <<>>, Len(cs) \in Nat,
         cs[1] \notin {"kick", "process", "HWR", "poll", "SysDevicePrePowerState", "PostD3",
                       "pvr_dev_lock"},
         cs[Len(cs)] \notin {"queues_D0", "SGXPrePowerState", "poll", "SysDevicePrePowerState"}
  PROVE  /\ Good(Locked(cs)) /\ Locked(cs) # <<>> /\ Locked(cs)[1] = "pvr_dev_lock"
         /\ Len(Locked(cs)) > 1 /\ Locked(cs)[2] = cs[1]
         /\ Locked(cs)[Len(Locked(cs))] = "pvr_dev_unlock"
<1>1. PICK a : a = <<"pvr_dev_lock">> /\ Good(a) /\ a # <<>> /\ a[1] = "pvr_dev_lock" /\ Len(a) = 1
  BY Written DEF Calls
<1>2. PICK b : b = <<"pvr_dev_unlock">> /\ Good(b) /\ b # <<>> /\ b[1] = "pvr_dev_unlock" /\ Len(b) = 1
  BY Written DEF Calls
<1>3. Follows(a[Len(a)], cs[1])
  BY <1>1 DEF Follows, Powered, PowerUps
<1>4. PICK r : /\ r = a \o cs /\ Good(r) /\ r # <<>> /\ r[1] = "pvr_dev_lock"
               /\ Len(r) > 1 /\ r[2] = cs[1] /\ r[Len(r)] = cs[Len(cs)]
  <2>1. /\ Good(a \o cs) /\ a \o cs # <<>> /\ (a \o cs)[1] = a[1]
        /\ Len(a \o cs) > Len(a) /\ (a \o cs)[Len(a) + 1] = cs[1]
        /\ (a \o cs)[Len(a \o cs)] = cs[Len(cs)]
    BY <1>1, <1>3, Joined
  <2>2. Len(a) + 1 = 2
    BY <1>1
  <2> QED BY <1>1, <2>1, <2>2
<1>5. /\ Follows(r[Len(r)], b[1]) /\ Good(r) /\ r # <<>> /\ Len(r) > 1 /\ Good(b) /\ b # <<>>
  BY <1>2, <1>4 DEF Follows, Powered, PowerUps
<1>6. /\ Good(r \o b) /\ r \o b # <<>> /\ (r \o b)[1] = r[1]
      /\ Len(r \o b) > 1 /\ (r \o b)[2] = r[2]
      /\ (r \o b)[Len(r \o b)] = b[Len(b)]
  BY <1>5, Joined
<1>7. Locked(cs) = r \o b
  BY <1>1, <1>2, <1>4 DEF Locked
<1>8. b[Len(b)] = "pvr_dev_unlock"
  BY <1>2
<1> QED BY <1>4, <1>6, <1>7, <1>8

-----------------------------------------------------------------------------
(***************************************************************************)
(* The steps.                                                              *)
(***************************************************************************)

\* The call a thread makes is the first of its calls.
LEMMA CallingFirst ==
  ASSUME Typed, NEW t \in Threads, NEW call, Calling(t, call)
  PROVE  todo[t] # <<>> /\ todo[t][1] = call /\ Good(todo[t])
<1>1. Good(todo[t]) /\ todo[t] # <<>>
  BY DEF Typed, Shapes, Calling
<1> QED BY <1>1, TailGood DEF Calling

\* A failed call leaves nothing to do but to release the lock.
LEMMA AbortKeeps ==
  ASSUME Typed, NEW t \in Threads, todo[t] # <<>>, todo[t][1] # "PostD3", Abort(t)
  PROVE  \E r : Good(r) /\ Anytime(r) /\ todo' = [todo EXCEPT ![t] = r]
<1>1. PICK r : r = IF dev = t THEN <<"pvr_dev_unlock">> ELSE <<>>
  OBVIOUS
<1>2. Good(r) /\ Anytime(r)
  BY <1>1, Written DEF Calls, Anytime, Powered
<1> QED BY <1>1, <1>2 DEF Abort

\* Taking and releasing pvr_dev_lock.
LEMMA LockKeeps ==
  ASSUME Typed, NEW t \in Threads, pvr_dev_lock(t) \/ pvr_dev_unlock(t)
  PROVE  Kept
<1>1. PICK call \in {"pvr_dev_lock", "pvr_dev_unlock"} : Calling(t, call)
  BY DEF pvr_dev_lock, pvr_dev_unlock
<1>2. todo[t] # <<>> /\ todo[t][1] = call
  BY <1>1, CallingFirst
<1>3. Return(t, <<>>) /\ UNCHANGED powerVars
  BY DEF pvr_dev_lock, pvr_dev_unlock, hostVars, timerVars, powerVars
<1> QED BY <1>1, <1>2, <1>3, Returned DEF PowerUps

\* A power-up that fails is not followed by an access to the GPU.
LEMMA PowerUpFailsKeeps ==
  ASSUME Typed, NEW t \in Threads, todo[t] # <<>>, todo[t][1] \in PowerUps, PowerUpFails(t)
  PROVE  \E r : Good(r) /\ Anytime(r) /\ todo' = [todo EXCEPT ![t] = r]
<1>1. PICK s : s = todo[t] /\ Good(s) /\ s # <<>> /\ Head(s) = s[1]
  BY TailGood DEF Typed, Shapes
<1>2. CASE s[1] = "D0"
  <2>1. Abort(t)
    BY <1>1, <1>2 DEF PowerUpFails
  <2>2. todo[t][1] # "PostD3"
    BY <1>1, <1>2
  <2> QED BY <2>1, <2>2, AbortKeeps
<1>3. CASE s[1] = "MISR_D0"
  <2>1. todo' = [todo EXCEPT ![t] = <<"BUG">>]
    BY <1>1, <1>3 DEF PowerUpFails
  <2>2. Good(<<"BUG">>) /\ Anytime(<<"BUG">>)
    BY Written DEF Calls, Anytime, Powered
  <2> QED BY <2>1, <2>2
<1>4. CASE s[1] = "queues_D0"
  <2>1. PICK p : p = Tail(s) /\ Good(p) /\ p # <<>> /\ p[1] = "process"
    <3>1. Good(Tail(s)) /\ Tail(s) # <<>> /\ Tail(s)[1] = s[2] /\ Follows(s[1], s[2])
      BY <1>1, <1>4, TailGood
    <3>2. s[2] = "process"
      BY <1>4, <3>1 DEF Follows
    <3> QED BY <3>1, <3>2
  <2>2. PICK r : r = Tail(p) /\ Good(r) /\ (r # <<>> => r[1] = p[2] /\ Follows(p[1], p[2]))
    BY <2>1, TailGood
  <2>3. Anytime(r)
    BY <2>1, <2>2 DEF Follows, Anytime, Powered, PowerUps
  <2>4. todo' = [todo EXCEPT ![t] = r]
    BY <1>1, <1>4, <2>1, <2>2 DEF PowerUpFails
  <2> QED BY <2>2, <2>3, <2>4
<1> QED BY <1>1, <1>2, <1>3, <1>4 DEF PowerUps

\* The power-up: the clocks run before eCurrentPowerState says D0.
LEMMA SetD0Keeps ==
  ASSUME Typed, NEW t \in Threads, SetD0(t)
  PROVE  Kept
<1>1. PICK call \in {"D0", "MISR_D0", "queues_D0"} : Calling(t, call)
  BY DEF SetD0
<1>2. todo[t] # <<>> /\ todo[t][1] \in PowerUps /\ todo[t][1] # "PostD3" /\ Good(todo[t])
  BY <1>1, CallingFirst DEF PowerUps
<1>3. CASE eCurrentPowerState = "D0" /\ Return(t, <<>>) /\ UNCHANGED powerVars
  BY <1>2, <1>3, Returned DEF PowerUps
<1>4. CASE /\ eCurrentPowerState = "D3" /\ PowerUpFails(t)
           /\ UNCHANGED <<eCurrentPowerState, armed>>
  <2>1. PICK r : Good(r) /\ Anytime(r) /\ todo' = [todo EXCEPT ![t] = r]
    BY <1>2, <1>4, PowerUpFailsKeeps
  <2>2. ASSUME PowerInv
        PROVE  /\ HeadOK(r, eCurrentPowerState', armed')
               /\ ArmedMeansPowered'
               /\ eCurrentPowerState' = "D0" => sSGXClocksEnabled' \/ Leaving(r)
    <3>1. HeadOK(r, eCurrentPowerState', armed')
      BY <2>1 DEF HeadOK, Anytime
    <3>2. eCurrentPowerState' # "D0"
      BY <1>4
    <3>3. ArmedMeansPowered'
      BY <1>4, <2>2 DEF PowerInv, ArmedMeansPowered
    <3> QED BY <3>1, <3>2, <3>3
  <2> QED BY <1>2, <2>1, <2>2, Moved
<1>5. CASE /\ eCurrentPowerState' = "D0" /\ sSGXClocksEnabled' = TRUE /\ Return(t, <<>>)
  <2>1. PICK r : r = Tail(todo[t]) /\ Good(r) /\ <<>> \o r = r
                 /\ (r # <<>> => r[1] = todo[t][2] /\ Follows(todo[t][1], todo[t][2]))
    BY <1>2, TailGood
  <2>2. HeadOK(r, eCurrentPowerState', armed')
    BY <1>2, <1>5, <2>1 DEF HeadOK, Follows, PowerUps
  <2>3. todo' = [todo EXCEPT ![t] = r]
    BY <1>5, <2>1 DEF Return
  <2>4. ArmedMeansPowered'
    BY <1>5 DEF ArmedMeansPowered
  <2> QED BY <1>2, <1>5, <2>1, <2>2, <2>3, <2>4, Moved
<1> QED BY <1>3, <1>4, <1>5 DEF SetD0, hostVars, timerVars, powerVars, EnableSGXClocks

\* The first step of a power-down cancels the timer, or skips the rest of it.
LEMMA PrePowerKeeps ==
  ASSUME Typed, NEW t \in Threads, SGXPrePowerState(t)
  PROVE  Kept
<1>1. PICK s : s = todo[t] /\ Good(s) /\ s # <<>> /\ s[1] = "SGXPrePowerState"
  BY CallingFirst DEF SGXPrePowerState
<1>2. UNCHANGED <<eCurrentPowerState, sSGXClocksEnabled>>
  BY DEF SGXPrePowerState
<1>3. ASSUME PowerInv PROVE eCurrentPowerState = "D0" => sSGXClocksEnabled
  BY <1>1, <1>3, ClocksOn
<1>4. CASE /\ eCurrentPowerState = "D3" /\ UNCHANGED armed
           /\ todo' = [todo EXCEPT ![t] = SubSeq(@, 4, Len(@))]
  <2>1. PICK r : r = SubSeq(s, 4, Len(s))
    OBVIOUS
  <2>2. s \in Seq(Calls) /\ Len(s) \in Nat
    BY <1>1 DEF Good
  <2>3. CASE Len(s) < 4
    <3>1. r = <<>>
      BY <2>1, <2>2, <2>3, SubSeqEmpty
    <3> QED BY <1>1, <1>2, <1>4, <2>1, <3>1, Replaced, Written DEF Anytime, powerVars
  <2>4. CASE Len(s) >= 4
    <3>1. /\ r \in Seq(Calls) /\ Len(r) = Len(s) - 3
          /\ \A i \in 1..(Len(s) - 3) : r[i] = s[i + 3]
      <4>1. \A i \in 4..Len(s) : s[i] \in Calls
        BY <2>2
      <4>2. 4 \in Int /\ Len(s) \in Int
        BY <2>2
      <4>3. /\ r \in Seq(Calls) /\ Len(r) = IF 4 <= Len(s) THEN (Len(s) - 4) + 1 ELSE 0
            /\ \A i \in 1..((Len(s) - 4) + 1) : r[i] = s[(4 + i) - 1]
        BY <2>1, <4>1, <4>2, SubSeqProperties
      <4> QED BY <2>2, <2>4, <4>3
    <3>2. Linked(r)
      <4>1. SUFFICES ASSUME NEW i \in 1..(Len(r) - 1) PROVE Follows(r[i], r[i + 1])
        BY DEF Linked
      <4>2. r[i] = s[i + 3] /\ r[i + 1] = s[(i + 3) + 1] /\ i + 3 \in 1..(Len(s) - 1)
        BY <2>2, <2>4, <3>1
      <4> QED BY <1>1, <4>2 DEF Good, Linked
    <3>3. r[Len(r)] = s[Len(s)] /\ r[1] = s[4] /\ r # <<>>
      BY <2>2, <2>4, <3>1
    <3>4. Good(r)
      BY <1>1, <3>1, <3>2, <3>3 DEF Good, Complete
    <3>5. r[1] = "PostD3"
      <4>1. Follows(s[1], s[1 + 1]) /\ Follows(s[2], s[2 + 1]) /\ Follows(s[3], s[3 + 1])
        <5>1. 1 \in 1..(Len(s) - 1) /\ 2 \in 1..(Len(s) - 1) /\ 3 \in 1..(Len(s) - 1)
          BY <2>2, <2>4
        <5> QED BY <1>1, <5>1 DEF Good, Linked
      <4>2. s[2] = "poll" /\ s[3] = "SysDevicePrePowerState" /\ s[4] = "PostD3"
        BY <1>1, <4>1 DEF Follows
      <4> QED BY <3>3, <4>2
    <3>6. ASSUME PowerInv
          PROVE  /\ HeadOK(r, eCurrentPowerState', armed')
                 /\ ArmedMeansPowered'
                 /\ eCurrentPowerState' = "D0" => sSGXClocksEnabled' \/ Leaving(r)
      <4>1. ~armed /\ ~armed'
        BY <1>4, <3>6 DEF PowerInv, ArmedMeansPowered
      <4> QED BY <1>2, <1>4, <3>5, <4>1 DEF HeadOK, ArmedMeansPowered, Powered
    <3>7. todo' = [todo EXCEPT ![t] = r]
      BY <1>1, <1>4, <2>1
    <3> QED BY <1>1, <3>4, <3>6, <3>7, Moved
  <2> QED BY <2>2, <2>3, <2>4
<1>5. CASE eCurrentPowerState = "D0" /\ SGXOSTimerCancel /\ Return(t, <<>>)
  <2>1. PICK r : r = Tail(s) /\ Good(r) /\ <<>> \o r = r
                 /\ (r # <<>> => r[1] = s[2] /\ Follows(s[1], s[2]))
    BY <1>1, TailGood
  <2>2. HeadOK(r, eCurrentPowerState', armed')
    BY <1>1, <1>2, <1>5, <2>1 DEF HeadOK, Follows, Powered, PowerUps, SGXOSTimerCancel
  <2>3. todo' = [todo EXCEPT ![t] = r]
    BY <1>1, <1>5, <2>1 DEF Return
  <2>4. ArmedMeansPowered'
    BY <1>5 DEF ArmedMeansPowered, SGXOSTimerCancel
  <2> QED BY <1>1, <1>2, <1>3, <2>1, <2>2, <2>3, <2>4, Moved
<1>6. CASE eCurrentPowerState = "D0" /\ SGXOSTimerCancel /\ Abort(t)
  <2>1. PICK r : Good(r) /\ Anytime(r) /\ todo' = [todo EXCEPT ![t] = r]
    BY <1>1, <1>6, AbortKeeps
  <2>2. HeadOK(r, eCurrentPowerState', armed')
    BY <2>1 DEF HeadOK, Anytime
  <2>3. ArmedMeansPowered'
    BY <1>6 DEF ArmedMeansPowered, SGXOSTimerCancel
  <2> QED BY <1>1, <1>2, <1>3, <2>1, <2>2, <2>3, Moved
<1> QED BY <1>4, <1>5, <1>6 DEF SGXPrePowerState

\* The rest of a power-down: nothing is left that would need the clocks when they
\* go off, and the timer stays cancelled.
LEMMA PowerDownKeeps ==
  ASSUME Typed, NEW t \in Threads,
         PollPowerOff(t) \/ SysDevicePrePowerState(t) \/ PostD3(t)
  PROVE  Kept
<1>1. CASE PollPowerOff(t)
  <2>1. todo[t] # <<>> /\ todo[t][1] = "poll"
    BY <1>1, CallingFirst DEF PollPowerOff
  <2>2. UNCHANGED powerVars
    BY <1>1 DEF PollPowerOff, hostVars, timerVars, powerVars
  <2>3. CASE Return(t, <<>>)
    BY <2>1, <2>2, <2>3, Returned DEF PowerUps
  <2>4. CASE Abort(t)
    <3>1. PICK r : Good(r) /\ Anytime(r) /\ todo' = [todo EXCEPT ![t] = r]
      BY <2>1, <2>4, AbortKeeps
    <3> QED BY <2>1, <2>2, <3>1, Replaced
  <2> QED BY <1>1, <2>3, <2>4 DEF PollPowerOff
<1>2. CASE SysDevicePrePowerState(t) \/ PostD3(t)
  <2>1. PICK s : /\ s = todo[t] /\ Good(s) /\ s # <<>>
                 /\ SysDevicePrePowerState(t) => s[1] = "SysDevicePrePowerState"
                 /\ PostD3(t) => s[1] = "PostD3"
    BY <1>2, CallingFirst DEF SysDevicePrePowerState, PostD3
  <2>2. PICK r : /\ r = Tail(s) /\ Good(r) /\ <<>> \o r = r
                 /\ s[1] = "SysDevicePrePowerState" => r # <<>>
                 /\ r # <<>> => r[1] = s[2] /\ Follows(s[1], s[2])
    BY <2>1, TailGood
  <2>3. todo' = [todo EXCEPT ![t] = r]
    BY <1>2, <2>1, <2>2 DEF Return, SysDevicePrePowerState, PostD3
  <2>4. armed' = armed /\ (PowerInv => ~armed)
    <3>1. PowerInv => HeadOK(s, eCurrentPowerState, armed)
      BY <2>1 DEF PowerInv
    <3> QED BY <1>2, <2>1, <3>1 DEF HeadOK, SysDevicePrePowerState, PostD3, timerVars
  <2>5. PowerInv => ArmedMeansPowered'
    BY <2>4 DEF ArmedMeansPowered
  <2>6. CASE SysDevicePrePowerState(t)
    <3>1. r # <<>> /\ r[1] = "PostD3"
      BY <2>1, <2>2, <2>6 DEF Follows
    <3>2. PowerInv => HeadOK(r, eCurrentPowerState', armed')
      BY <2>4, <3>1 DEF HeadOK, Powered
    <3> QED BY <2>1, <2>2, <2>3, <2>5, <3>1, <3>2, Moved DEF Leaving
  <2>7. CASE PostD3(t)
    <3>1. HeadOK(r, eCurrentPowerState', armed')
      BY <2>1, <2>2, <2>7 DEF HeadOK, Follows, Powered, PowerUps
    <3>2. eCurrentPowerState' # "D0"
      BY <2>7 DEF PostD3
    <3> QED BY <2>1, <2>2, <2>3, <2>5, <3>1, <3>2, Moved
  <2> QED BY <1>2, <2>6, <2>7
<1> QED BY <1>1, <1>2

\* A call is over and has made others necessary that find what they need.
LEMMA PushedKeeps ==
  ASSUME Typed, NEW t \in Threads, todo[t] # <<>>,
         todo[t][1] \notin PowerUps \cup {"SGXPrePowerState", "poll", "SysDevicePrePowerState",
                                          "PostD3", "pvr_dev_lock"},
         NEW cs, Good(cs), cs # <<>>, Return(t, cs),
         cs[Len(cs)] \notin PowerUps \cup {"SGXPrePowerState", "poll", "SysDevicePrePowerState"},
         \/ Anytime(cs)
         \/ cs[1] = "HWRecoveryResetSGX" /\ (PowerInv => eCurrentPowerState = "D0")
         \/ cs[1] = "pvr_dev_lock" /\ Len(cs) > 1
              /\ (PowerInv => cs[2] # "HWRecoveryResetSGX" \/ eCurrentPowerState = "D0"),
         UNCHANGED powerVars
  PROVE  Kept
<1>1. PICK r : /\ Good(r) /\ r # <<>> /\ r[1] = cs[1] /\ todo' = [todo EXCEPT ![t] = r]
               /\ Len(cs) > 1 => Len(r) > 1 /\ r[2] = cs[2]
  BY Pushed
<1>2. ASSUME PowerInv
      PROVE  /\ HeadOK(r, eCurrentPowerState', armed')
             /\ ArmedMeansPowered'
             /\ eCurrentPowerState' = "D0" => sSGXClocksEnabled' \/ Leaving(r)
  <2>1. HeadOK(r, eCurrentPowerState, armed)
    BY <1>1, <1>2 DEF HeadOK, Anytime, Powered
  <2>2. ArmedMeansPowered'
    BY <1>2 DEF PowerInv, ArmedMeansPowered, powerVars
  <2>3. todo[t][1] # "PostD3"
    OBVIOUS
  <2>4. eCurrentPowerState' = "D0" => sSGXClocksEnabled'
    BY <1>2, <2>3, ClocksOn DEF powerVars
  <2> QED BY <2>1, <2>2, <2>4 DEF powerVars
<1> QED BY <1>1, <1>2, Moved

\* SGXScheduleProcessQueues powers the GPU up before it posts its command.
LEMMA ScheduleKeeps ==
  ASSUME Typed, NEW t \in Threads, SGXScheduleProcessQueues(t) \/ PostProcess(t)
  PROVE  Kept
<1>1. UNCHANGED powerVars
  BY DEF SGXScheduleProcessQueues, PostProcess, hostVars, timerVars, powerVars
<1>2. PICK call \in {"SGXScheduleProcessQueues", "process"} :
         todo[t] # <<>> /\ todo[t][1] = call
  BY CallingFirst DEF SGXScheduleProcessQueues, PostProcess
<1>3. CASE Return(t, <<>>)
  BY <1>1, <1>2, <1>3, Returned DEF PowerUps
<1>4. CASE Return(t, <<"queues_D0", "process">>) /\ SGXScheduleProcessQueues(t)
  <2>1. PICK cs : /\ cs = <<"queues_D0", "process">> /\ Good(cs) /\ cs # <<>>
                  /\ cs[1] = "queues_D0" /\ cs[Len(cs)] = "process"
    BY Written
  <2>2. todo[t][1] = "SGXScheduleProcessQueues"
    BY <1>4, CallingFirst DEF SGXScheduleProcessQueues
  <2>3. Return(t, cs) /\ Good(cs) /\ cs # <<>> /\ Anytime(cs)
    BY <1>4, <2>1 DEF Anytime, Powered
  <2>4. cs[Len(cs)] \notin PowerUps \cup {"SGXPrePowerState", "poll", "SysDevicePrePowerState"}
    BY <2>1 DEF PowerUps
  <2> QED BY <1>1, <1>2, <2>2, <2>3, <2>4, PushedKeeps DEF PowerUps
<1> QED BY <1>3, <1>4 DEF SGXScheduleProcessQueues, PostProcess

\* The calls that only the holder of pvr_lock makes and that need no power-up.
LEMMA LockCallsKeep ==
  ASSUME Typed, \/ Requeue \/ \E j \in Jobs : Kick(j)
                \/ SGXTestActivePowerEvent \/ SGXPostActivePowerEvent
                \/ TestHWR \/ HWRecoveryResetSGX
  PROVE  Kept
<1>0. "lock" \in Threads
  BY DEF Threads
<1>1. UNCHANGED powerVars
  BY DEF Requeue, Kick, SGXTestActivePowerEvent, SGXPostActivePowerEvent, TestHWR,
         HWRecoveryResetSGX, hostVars, timerVars, powerVars
<1>2. PICK call \in {"requeue", "kick", "SGXTestActivePowerEvent", "SGXPostActivePowerEvent",
                     "HWR", "HWRecoveryResetSGX"} :
         /\ todo["lock"] # <<>> /\ todo["lock"][1] = call
         /\ call = "HWR" => TestHWR
         /\ TestHWR => call = "HWR"
  BY <1>0, CallingFirst DEF Requeue, Kick, SGXTestActivePowerEvent, SGXPostActivePowerEvent,
         TestHWR, HWRecoveryResetSGX
<1>3. CASE Return("lock", <<>>)
  BY <1>0, <1>1, <1>2, <1>3, Returned DEF PowerUps
<1>4. todo["lock"][1] \notin PowerUps \cup {"SGXPrePowerState", "poll", "SysDevicePrePowerState",
                                            "PostD3", "pvr_dev_lock"}
  BY <1>2 DEF PowerUps
<1>5. CASE Return("lock", PowerDown \o <<"SGXPostActivePowerEvent">>)
  <2>1. PICK a : /\ a = PowerDown /\ Good(a) /\ a # <<>> /\ a[1] = "SGXPrePowerState"
                 /\ Len(a) = 4 /\ a[4] = "PostD3"
    BY Written
  <2>2. PICK b : /\ b = <<"SGXPostActivePowerEvent">> /\ Good(b) /\ b # <<>>
                 /\ b[1] = "SGXPostActivePowerEvent" /\ Len(b) = 1
    BY Written DEF Calls
  <2>3. Good(a) /\ Good(b) /\ a # <<>> /\ Follows(a[Len(a)], b[1]) /\ b # <<>>
    BY <2>1, <2>2 DEF Follows, Powered, PowerUps
  <2>4. PICK cs : cs = a \o b
    OBVIOUS
  <2>5. Good(cs) /\ cs # <<>> /\ cs[1] = a[1] /\ cs[Len(cs)] = b[Len(b)]
    BY <2>3, <2>4, Joined
  <2>6. Return("lock", cs) /\ Anytime(cs)
    BY <1>5, <2>1, <2>2, <2>4, <2>5 DEF Anytime, Powered
  <2>7. cs[Len(cs)] \notin PowerUps \cup {"SGXPrePowerState", "poll", "SysDevicePrePowerState"}
    BY <2>2, <2>5 DEF PowerUps
  <2> QED BY <1>0, <1>1, <1>2, <1>4, <2>5, <2>6, <2>7, PushedKeeps
<1>6. ASSUME NEW c \in {"SGXScheduleProcessQueues", "HWRecoveryResetSGX"}, Return("lock", <<c>>),
             c = "HWRecoveryResetSGX" => TestHWR
      PROVE  Kept
  <2>1. PICK cs : cs = <<c>> /\ Good(cs) /\ cs # <<>> /\ cs[1] = c /\ Len(cs) = 1
    BY Written DEF Calls
  <2>2. Return("lock", cs)
    BY <1>6, <2>1
  <2>3. cs[Len(cs)] \notin PowerUps \cup {"SGXPrePowerState", "poll", "SysDevicePrePowerState"}
    BY <2>1 DEF PowerUps
  <2>4. CASE c = "SGXScheduleProcessQueues"
    <3>1. Good(cs) /\ cs # <<>> /\ Anytime(cs)
      BY <2>1, <2>4 DEF Anytime, Powered
    <3> QED BY <1>0, <1>1, <1>2, <1>4, <2>2, <2>3, <3>1, PushedKeeps
  <2>5. CASE c = "HWRecoveryResetSGX"
    <3>1. Good(cs) /\ cs # <<>> /\ cs[1] = "HWRecoveryResetSGX"
      BY <2>1, <2>5
    <3>2. PowerInv => eCurrentPowerState = "D0"
      BY <1>0, <1>2, <1>6, <2>5 DEF PowerInv, HeadOK, Powered
    <3> QED BY <1>0, <1>1, <1>2, <1>4, <2>2, <2>3, <3>1, <3>2, PushedKeeps
  <2> QED BY <2>4, <2>5
<1> QED BY <1>3, <1>5, <1>6 DEF Requeue, Kick, SGXTestActivePowerEvent, SGXPostActivePowerEvent,
         TestHWR, HWRecoveryResetSGX

\* The lock-up timer calls for a recovery only while the GPU is powered.
LEMMA TickKeeps ==
  ASSUME Typed, Tick
  PROVE  Kept
<1>0. "lock" \in Threads
  BY DEF Threads
<1>1. UNCHANGED powerVars
  BY DEF Tick, powerVars
<1>2. todo["lock"] # <<>> /\ todo["lock"][1] = "tick"
  BY <1>0, CallingFirst DEF Tick
<1>3. CASE Return("lock", <<>>)
  BY <1>0, <1>1, <1>2, <1>3, Returned DEF PowerUps
<1>4. CASE Return("lock", Locked(<<"HWRecoveryResetSGX">>)) /\ eCurrentPowerState = "D0"
  <2>1. PICK c : /\ c = <<"HWRecoveryResetSGX">> /\ Good(c) /\ c # <<>>
                 /\ c[1] = "HWRecoveryResetSGX" /\ Len(c) = 1
    BY Written DEF Calls
  <2>2. /\ Good(c) /\ c # <<>> /\ Len(c) \in Nat
        /\ c[1] \notin {"kick", "process", "HWR", "poll", "SysDevicePrePowerState", "PostD3",
                        "pvr_dev_lock"}
        /\ c[Len(c)] \notin {"queues_D0", "SGXPrePowerState", "poll", "SysDevicePrePowerState"}
    BY <2>1
  <2>3. PICK cs : cs = Locked(c)
    OBVIOUS
  <2>4. /\ Good(cs) /\ cs # <<>> /\ cs[1] = "pvr_dev_lock" /\ Len(cs) > 1
        /\ cs[Len(cs)] = "pvr_dev_unlock"
    BY <2>2, <2>3, LockedGood
  <2>5. cs[Len(cs)] \notin PowerUps \cup {"SGXPrePowerState", "poll", "SysDevicePrePowerState"}
    BY <2>4 DEF PowerUps
  <2>6. Return("lock", cs)
    BY <1>4, <2>1, <2>3
  <2>7. todo["lock"][1] \notin PowerUps \cup {"SGXPrePowerState", "poll", "SysDevicePrePowerState",
                                              "PostD3", "pvr_dev_lock"}
    BY <1>2 DEF PowerUps
  <2> QED BY <1>0, <1>1, <1>2, <1>4, <2>4, <2>5, <2>6, <2>7, PushedKeeps
<1> QED BY <1>3, <1>4 DEF Tick

\* The end of a suspend or a resume.
LEMMA SystemKeeps ==
  ASSUME Typed, SystemPostPowerState
  PROVE  Kept
<1>0. "pm" \in Threads
  BY DEF Threads
<1>1. UNCHANGED powerVars
  BY DEF SystemPostPowerState, timerVars, powerVars
<1>2. PICK call \in {"SystemD3", "SystemD0"} : todo["pm"] # <<>> /\ todo["pm"][1] = call
  BY <1>0, CallingFirst DEF SystemPostPowerState
<1>3. CASE Return("pm", <<>>)
  BY <1>0, <1>1, <1>2, <1>3, Returned DEF PowerUps
<1>4. CASE Return("pm", Locked(<<"SGXScheduleProcessQueues">>))
  <2>1. PICK c : /\ c = <<"SGXScheduleProcessQueues">> /\ Good(c) /\ c # <<>>
                 /\ c[1] = "SGXScheduleProcessQueues" /\ Len(c) = 1
    BY Written DEF Calls
  <2>2. /\ Good(c) /\ c # <<>> /\ Len(c) \in Nat
        /\ c[1] \notin {"kick", "process", "HWR", "poll", "SysDevicePrePowerState", "PostD3",
                        "pvr_dev_lock"}
        /\ c[Len(c)] \notin {"queues_D0", "SGXPrePowerState", "poll", "SysDevicePrePowerState"}
    BY <2>1
  <2>3. PICK cs : cs = Locked(c)
    OBVIOUS
  <2>4. /\ Good(cs) /\ cs # <<>> /\ cs[1] = "pvr_dev_lock" /\ Len(cs) > 1
        /\ cs[2] = c[1] /\ cs[Len(cs)] = "pvr_dev_unlock"
    BY <2>2, <2>3, LockedGood
  <2>5. /\ cs[Len(cs)] \notin PowerUps \cup {"SGXPrePowerState", "poll", "SysDevicePrePowerState"}
        /\ cs[2] # "HWRecoveryResetSGX"
    BY <2>1, <2>4 DEF PowerUps
  <2>6. Return("pm", cs)
    BY <1>4, <2>1, <2>3
  <2>7. todo["pm"][1] \notin PowerUps \cup {"SGXPrePowerState", "poll", "SysDevicePrePowerState",
                                            "PostD3", "pvr_dev_lock"}
    BY <1>2 DEF PowerUps
  <2> QED BY <1>0, <1>1, <1>2, <2>4, <2>5, <2>6, <2>7, PushedKeeps
<1> QED BY <1>3, <1>4 DEF SystemPostPowerState

\* An ioctl, the MISR, the lock-up timer, debugfs, a suspend or a resume enters the
\* driver.
LEMMA EntriesKeep ==
  ASSUME Typed,
         \/ \E j \in Jobs, waits \in BOOLEAN : SGXScheduleCCBCommandKM(j, waits)
         \/ \E j \in Jobs : FlipCompletes(j)
         \/ SGX_MISRHandler \/ pvr_debugfs_reset \/ pvr_suspend \/ pvr_resume
         \/ SGXOSTimer
  PROVE  Kept \/ UNCHANGED <<todo, powerVars>>
<1>0. /\ "lock" \in Threads /\ "pm" \in Threads
      /\ Idle \/ PMStart => (~PMRaces => \A u \in Threads : todo[u] = <<>>)
  BY DEF Threads, Idle, PMStart
<1>1. UNCHANGED powerVars
  BY DEF SGXScheduleCCBCommandKM, FlipCompletes, SGX_MISRHandler, pvr_debugfs_reset, pvr_suspend,
         pvr_resume, SGXOSTimer, hostVars, timerVars, powerVars
<1>2. ASSUME NEW c \in {"D0", "MISR_D0", "SGXScheduleProcessQueues"},
             NEW cs, Good(cs), cs # <<>>, cs[1] = c, Len(cs) \in Nat,
             cs[Len(cs)] \in {"SGXTestActivePowerEvent", "SGXScheduleProcessQueues"},
             Enter(Locked(cs))
      PROVE  Kept
  <2>1. PICK r : r = Locked(cs)
    OBVIOUS
  <2>2. /\ cs[1] \notin {"kick", "process", "HWR", "poll", "SysDevicePrePowerState", "PostD3",
                         "pvr_dev_lock"}
        /\ cs[Len(cs)] \notin {"queues_D0", "SGXPrePowerState", "poll", "SysDevicePrePowerState"}
    BY <1>2
  <2>3. Good(r) /\ r # <<>> /\ r[1] = "pvr_dev_lock" /\ Len(r) > 1 /\ r[2] = c
    BY <1>2, <2>1, <2>2, LockedGood
  <2>4. todo' = [todo EXCEPT !["lock"] = r] /\ Idle
    BY <1>2, <2>1 DEF Enter
  <2>5. r[2] # "HWRecoveryResetSGX"
    BY <2>3
  <2> QED BY <1>0, <1>1, <2>3, <2>4, <2>5, Entered
<1>3. ASSUME NEW c \in {"kick", "HWR"}, NEW d \in {"D0", "MISR_D0"},
             Enter(Locked(<<d, c, "SGXTestActivePowerEvent">>))
      PROVE  Kept
  <2>1. PICK cs : /\ cs = <<d, c, "SGXTestActivePowerEvent">> /\ Good(cs) /\ cs # <<>> /\ cs[1] = d
                  /\ Len(cs) = 3 /\ cs[3] = "SGXTestActivePowerEvent"
    BY Written
  <2>2. Len(cs) \in Nat /\ cs[Len(cs)] = "SGXTestActivePowerEvent" /\ Enter(Locked(cs))
    BY <1>3, <2>1
  <2> QED BY <1>2, <2>1, <2>2
<1>4. ASSUME Enter(Locked(<<"SGXScheduleProcessQueues">>)) PROVE Kept
  <2>1. PICK cs : /\ cs = <<"SGXScheduleProcessQueues">> /\ Good(cs) /\ cs # <<>>
                  /\ cs[1] = "SGXScheduleProcessQueues" /\ Len(cs) = 1
    BY Written DEF Calls
  <2>2. Len(cs) \in Nat /\ cs[Len(cs)] = "SGXScheduleProcessQueues" /\ Enter(Locked(cs))
    BY <1>4, <2>1
  <2> QED BY <1>2, <2>1, <2>2
<1>5. ASSUME Enter(<<"D0", "HWRecoveryResetSGX", "SGXTestActivePowerEvent">>) PROVE Kept
  <2>1. PICK r : /\ r = <<"D0", "HWRecoveryResetSGX", "SGXTestActivePowerEvent">> /\ Good(r)
                 /\ r # <<>> /\ r[1] = "D0"
    BY Written
  <2>2. todo' = [todo EXCEPT !["lock"] = r] /\ Idle /\ Anytime(r)
    BY <1>5, <2>1 DEF Enter, Anytime, Powered
  <2>3. Good(r) /\ r # <<>>
    BY <2>1
  <2> QED BY <1>0, <1>1, <2>2, <2>3, Entered
<1>6. CASE SGXOSTimer
  <2>1. CASE todo' = [todo EXCEPT !["lock"] = <<"tick", "requeue">>]
    <3>1. PICK r : r = <<"tick", "requeue">> /\ Good(r) /\ r # <<>> /\ r[1] = "tick"
      BY Written
    <3>2. todo' = [todo EXCEPT !["lock"] = r] /\ Idle /\ Anytime(r)
      BY <1>6, <2>1, <3>1 DEF SGXOSTimer, Anytime, Powered
    <3>3. Good(r) /\ r # <<>>
      BY <3>1
    <3> QED BY <1>0, <1>1, <3>2, <3>3, Entered
  <2> QED BY <1>1, <1>6, <2>1 DEF SGXOSTimer
<1>7. ASSUME NEW c \in {"SystemD3", "SystemD0"}, PMStart,
             todo' = [todo EXCEPT !["pm"] = PowerDown \o <<c>>]
      PROVE  Kept
  <2>1. PICK a : /\ a = PowerDown /\ Good(a) /\ a # <<>> /\ a[1] = "SGXPrePowerState"
                 /\ Len(a) = 4 /\ a[4] = "PostD3"
    BY Written
  <2>2. PICK b : b = <<c>> /\ Good(b) /\ b # <<>> /\ b[1] = c
    BY Written DEF Calls
  <2>3. Good(a) /\ Good(b) /\ a # <<>> /\ Follows(a[Len(a)], b[1])
    BY <2>1, <2>2 DEF Follows, Powered, PowerUps
  <2>4. PICK r : r = a \o b
    OBVIOUS
  <2>5. Good(r) /\ r # <<>> /\ r[1] = a[1]
    BY <2>3, <2>4, Joined
  <2>6. todo' = [todo EXCEPT !["pm"] = r] /\ Anytime(r)
    BY <1>7, <2>1, <2>2, <2>4, <2>5 DEF Anytime, Powered
  <2> QED BY <1>0, <1>1, <1>7, <2>5, <2>6, Entered
<1> QED BY <1>1, <1>3, <1>4, <1>5, <1>6, <1>7
        DEF SGXScheduleCCBCommandKM, FlipCompletes, SGX_MISRHandler, pvr_debugfs_reset, pvr_suspend,
            pvr_resume

\* Every step leaves good calls, and a GPU whose clocks run where they are needed.
LEMMA NextKeeps ==
  ASSUME Typed, [Next]_vars
  PROVE  Kept
<1>1. ASSUME UNCHANGED <<todo, powerVars>> PROVE Kept
  <2>1. Typed'
    BY <1>1 DEF Typed, Shapes
  <2>2. PowerInv => PowerInv'
    BY <1>1 DEF PowerInv, ArmedMeansPowered, powerVars
  <2> QED BY <2>1, <2>2 DEF Kept
<1>2. "lock" \in Threads /\ "pm" \in Threads
  BY DEF Threads
<1>3. ASSUME NEW t \in Threads, Step(t) PROVE Kept
  BY <1>3, LockKeeps, SetD0Keeps, PrePowerKeeps, PowerDownKeeps, ScheduleKeeps DEF Step
<1>4. CASE LockStep
  BY <1>2, <1>3, <1>4, TickKeeps, LockCallsKeep DEF LockStep
<1>5. CASE PMStep
  BY <1>2, <1>3, <1>5, SystemKeeps DEF PMStep
<1>6. CASE Timer \/ GPU \/ \E j \in Jobs : GPUHang(j)
  <2>1. UNCHANGED <<todo, powerVars>>
    BY <1>6 DEF Timer, GPU, GPUHang, TimerExpires, WorkerStarts, GPURead, GPURest, GPURun,
                hostVars, timerVars, powerVars
  <2> QED BY <1>1, <2>1
<1>7. CASE UNCHANGED vars
  BY <1>1, <1>7 DEF vars, hostVars, timerVars, powerVars
<1> QED BY <1>1, <1>4, <1>5, <1>6, <1>7, EntriesKeep DEF Next

-----------------------------------------------------------------------------
(***************************************************************************)
(* Types.                                                                  *)
(***************************************************************************)

\* TypeOK but for todo, in three parts.
HostTyped ==
  /\ dev \in {"none", "lock", "pm"}
  /\ sysPower \in {"D0", "D3"}
  /\ eCurrentPowerState \in {"D0", "D3"}
  /\ work \in {"none", "timer", "queued"}
  /\ worker \in {"none", "waiting", "running"}
  /\ lockups \in 0..2
  /\ events \in 0..MaxEvents

FlagsTyped ==
  /\ sSGXClocksEnabled \in BOOLEAN /\ armed \in BOOLEAN /\ pvr_disabled \in BOOLEAN
  /\ misr \in BOOLEAN /\ act \in BOOLEAN /\ actClear \in BOOLEAN /\ hwr \in BOOLEAN
  /\ look \in BOOLEAN /\ seen \in BOOLEAN

GPUTyped ==
  /\ ccb \in Seq(Commands)
  /\ ui32PowerStatus \in SUBSET {"NO_WORK", "POWEROFF_COMPLETE", "RESTART_IMMEDIATE"}
  /\ gpu \in {"off", "on", "halted", "hung"}
  /\ job \in [Jobs -> {"none", "kick", "ccb", "held", "done", "lost"}]
  /\ met \in [Jobs -> BOOLEAN]

\* What may become of the kernel CCB.
LEMMA RingTyped ==
  ASSUME GPUTyped
  PROVE  /\ ccb' = ccb => ccb' \in Seq(Commands)
         /\ ccb' = <<>> => ccb' \in Seq(Commands)
         /\ \A c \in Commands : ccb' = Append(ccb, c) => ccb' \in Seq(Commands)
         /\ ccb # <<>> /\ ccb' = Tail(ccb) => ccb' \in Seq(Commands)
<1>1. ccb \in Seq(Commands) /\ <<>> \in Seq(Commands)
  BY EmptySeq DEF GPUTyped
<1>2. \A c \in Commands : Append(ccb, c) \in Seq(Commands)
  BY <1>1
<1>3. ccb # <<>> => Tail(ccb) \in Seq(Commands)
  BY <1>1, HeadTailProperties
<1> QED BY <1>1, <1>2, <1>3

\* The calls of either thread.
LEMMA StepTyped ==
  ASSUME NEW t \in Threads, Step(t)
  PROVE  /\ HostTyped => HostTyped'
         /\ FlagsTyped => FlagsTyped'
         /\ GPUTyped => GPUTyped'
<1> USE DEF Step, pvr_dev_lock, pvr_dev_unlock, SetD0, SGXPrePowerState, PollPowerOff,
            SysDevicePrePowerState, PostD3, SGXScheduleProcessQueues, PostProcess,
            hostVars, timerVars, flagVars, gpuVars, jobVars, EnableSGXClocks, DisableSGXClocks,
            SGXPostPowerState, SGXInitialise, SGXOSTimerEnable, SGXOSTimerCancel
<1>1. HostTyped => HostTyped'
  BY DEF HostTyped, Threads
<1>2. ASSUME FlagsTyped PROVE FlagsTyped'
  <2>1. armed' \in BOOLEAN
    BY <1>2, Zenon DEF FlagsTyped
  <2>2. act' \in BOOLEAN /\ actClear' \in BOOLEAN /\ hwr' \in BOOLEAN
    BY <1>2, Zenon DEF FlagsTyped
  <2>3. sSGXClocksEnabled' \in BOOLEAN /\ pvr_disabled' \in BOOLEAN /\ misr' \in BOOLEAN
    BY <1>2, Zenon DEF FlagsTyped
  <2>4. look' \in BOOLEAN /\ seen' \in BOOLEAN
    BY <1>2, Zenon DEF FlagsTyped
  <2> QED BY <2>1, <2>2, <2>3, <2>4 DEF FlagsTyped
<1>3. ASSUME GPUTyped PROVE GPUTyped'
  <2>1. Process \in Commands /\ PowerOff \in Commands
    BY PowerAssumption DEF Process, PowerOff, Commands
  <2>2. ccb' \in Seq(Commands)
    <3>1. \/ ccb' = ccb \/ ccb' = <<>>
          \/ \E c \in Commands : ccb' = Append(ccb, c)
      BY <2>1 DEF Post
    <3> QED BY <1>3, <3>1, RingTyped
  <2>3. job' \in [Jobs -> {"none", "kick", "ccb", "held", "done", "lost"}]
    BY <1>3 DEF GPUTyped
  <2>4. ui32PowerStatus' \in SUBSET {"NO_WORK", "POWEROFF_COMPLETE", "RESTART_IMMEDIATE"}
    BY <1>3 DEF GPUTyped
  <2>5. gpu' \in {"off", "on", "halted", "hung"} /\ met' \in [Jobs -> BOOLEAN]
    BY <1>3 DEF GPUTyped
  <2> QED BY <2>2, <2>3, <2>4, <2>5 DEF GPUTyped
<1> QED BY <1>1, <1>2, <1>3

\* The calls of the holder of pvr_lock, and the end of a suspend or a resume.
LEMMA LockTyped ==
  ASSUME \/ Tick \/ Requeue
         \/ \E j \in Jobs : Kick(j)
         \/ SGXTestActivePowerEvent \/ SGXPostActivePowerEvent
         \/ TestHWR \/ HWRecoveryResetSGX
         \/ SystemPostPowerState
  PROVE  /\ HostTyped => HostTyped'
         /\ FlagsTyped => FlagsTyped'
         /\ GPUTyped => GPUTyped'
<1> USE DEF Tick, Requeue, Kick, SGXTestActivePowerEvent, SGXPostActivePowerEvent, TestHWR,
            HWRecoveryResetSGX, SystemPostPowerState, SGXInitialise,
            hostVars, timerVars, flagVars, gpuVars, jobVars
<1>1. HostTyped => HostTyped'
  BY DEF HostTyped
<1>2. ASSUME FlagsTyped PROVE FlagsTyped'
  <2>1. armed' \in BOOLEAN /\ sSGXClocksEnabled' \in BOOLEAN /\ pvr_disabled' \in BOOLEAN
    BY <1>2, Zenon DEF FlagsTyped
  <2>2. act' \in BOOLEAN /\ actClear' \in BOOLEAN /\ hwr' \in BOOLEAN
    BY <1>2, Zenon DEF FlagsTyped
  <2>3. misr' \in BOOLEAN /\ look' \in BOOLEAN /\ seen' \in BOOLEAN
    BY <1>2, Zenon DEF FlagsTyped
  <2> QED BY <2>1, <2>2, <2>3 DEF FlagsTyped
<1>3. ASSUME GPUTyped PROVE GPUTyped'
  <2>1. Jobs \subseteq Commands
    BY PowerAssumption DEF Jobs, Commands
  <2>2. ccb' \in Seq(Commands)
    <3>1. \/ ccb' = ccb \/ ccb' = <<>>
          \/ \E c \in Commands : ccb' = Append(ccb, c)
      BY <2>1 DEF Post
    <3> QED BY <1>3, <3>1, RingTyped
  <2>3. job' \in [Jobs -> {"none", "kick", "ccb", "held", "done", "lost"}]
    BY <1>3 DEF GPUTyped
  <2>4. ui32PowerStatus' \in SUBSET {"NO_WORK", "POWEROFF_COMPLETE", "RESTART_IMMEDIATE"}
    BY <1>3 DEF GPUTyped
  <2>5. gpu' \in {"off", "on", "halted", "hung"} /\ met' \in [Jobs -> BOOLEAN]
    BY <1>3 DEF GPUTyped
  <2> QED BY <2>2, <2>3, <2>4, <2>5 DEF GPUTyped
<1> QED BY <1>1, <1>2, <1>3

\* Everything else.
LEMMA OtherTyped ==
  ASSUME \/ \E j \in Jobs, waits \in BOOLEAN : SGXScheduleCCBCommandKM(j, waits)
         \/ \E j \in Jobs : FlipCompletes(j) \/ GPUHang(j)
         \/ SGX_MISRHandler
         \/ pvr_debugfs_reset
         \/ pvr_suspend \/ pvr_resume
         \/ Timer \/ SGXOSTimer
         \/ GPU
  PROVE  /\ HostTyped => HostTyped'
         /\ FlagsTyped => FlagsTyped'
         /\ GPUTyped => GPUTyped'
<1> USE DEF SGXScheduleCCBCommandKM, FlipCompletes, GPUHang, SGX_MISRHandler, pvr_debugfs_reset,
            pvr_suspend, pvr_resume, Timer, TimerExpires, WorkerStarts, SGXOSTimer, GPU, GPURead,
            GPURest, GPURun, hostVars, timerVars, flagVars, gpuVars, jobVars
<1>1. HostTyped => HostTyped'
  BY PowerAssumption DEF HostTyped
<1>2. ASSUME FlagsTyped PROVE FlagsTyped'
  <2>1. armed' \in BOOLEAN /\ sSGXClocksEnabled' \in BOOLEAN /\ pvr_disabled' \in BOOLEAN
    BY <1>2, Zenon DEF FlagsTyped
  <2>2. act' \in BOOLEAN /\ actClear' \in BOOLEAN /\ hwr' \in BOOLEAN
    BY <1>2, Zenon DEF FlagsTyped
  <2>3. misr' \in BOOLEAN /\ look' \in BOOLEAN /\ seen' \in BOOLEAN
    BY <1>2, Zenon DEF FlagsTyped
  <2> QED BY <2>1, <2>2, <2>3 DEF FlagsTyped
<1>3. ASSUME GPUTyped PROVE GPUTyped'
  <2>2. ccb' \in Seq(Commands)
    <3>1. ccb' = ccb \/ (ccb # <<>> /\ ccb' = Tail(ccb))
      OBVIOUS
    <3> QED BY <1>3, <3>1, RingTyped
  <2>3. job' \in [Jobs -> {"none", "kick", "ccb", "held", "done", "lost"}]
    BY <1>3 DEF GPUTyped
  <2>4. ui32PowerStatus' \in SUBSET {"NO_WORK", "POWEROFF_COMPLETE", "RESTART_IMMEDIATE"}
    BY <1>3 DEF GPUTyped
  <2>5. gpu' \in {"off", "on", "halted", "hung"}
    BY <1>3 DEF GPUTyped
  <2>6. met' \in [Jobs -> BOOLEAN]
    <3>1. met' = met \/ \E j \in Jobs, b \in BOOLEAN : met' = [met EXCEPT ![j] = b]
      BY Zenon
    <3> QED BY <1>3, <3>1 DEF GPUTyped
  <2> QED BY <2>2, <2>3, <2>4, <2>5, <2>6 DEF GPUTyped
<1> QED BY <1>1, <1>2, <1>3

\* The invariant holds at the start and is kept.
THEOREM Invariance == Spec => []PInv
<1>1. Init => PInv
  <2>1. ASSUME Init PROVE TypeOK
    <3>1. todo \in [Threads -> Seq(Calls)] /\ ccb \in Seq(Commands)
      BY <2>1, EmptySeq DEF Init
    <3>2. HostTyped
      BY <2>1, PowerAssumption DEF Init, HostTyped
    <3>3. FlagsTyped
      BY <2>1 DEF Init, FlagsTyped
    <3>4. GPUTyped
      BY <2>1, <3>1 DEF Init, GPUTyped
    <3> QED BY <3>1, <3>2, <3>3, <3>4 DEF TypeOK, HostTyped, FlagsTyped, GPUTyped
  <2>2. ASSUME Init PROVE Shapes
    <3>1. \A t \in Threads : todo[t] = <<>>
      BY <2>2 DEF Init
    <3> QED BY <3>1, Written DEF Shapes
  <2>3. ASSUME Init PROVE PowerInv
    BY <2>3 DEF Init, PowerInv, HeadOK, ArmedMeansPowered, Threads
  <2> QED BY <2>1, <2>2, <2>3 DEF PInv
<1>2. PInv /\ [Next]_vars => PInv'
  <2>1. SUFFICES ASSUME PInv, [Next]_vars PROVE PInv'
    OBVIOUS
  <2>2. Typed /\ HostTyped /\ FlagsTyped /\ GPUTyped
    BY <2>1 DEF PInv, TypeOK, Typed, HostTyped, FlagsTyped, GPUTyped
  <2>3. Kept
    BY <2>1, <2>2, NextKeeps
  <2>4. HostTyped' /\ FlagsTyped' /\ GPUTyped'
    <3>1. CASE UNCHANGED vars
      BY <2>2, <3>1 DEF vars, HostTyped, FlagsTyped, GPUTyped, hostVars, timerVars, flagVars,
                        gpuVars, jobVars
    <3>2. CASE Next
      BY <2>2, <3>2, StepTyped, LockTyped, OtherTyped DEF Next, LockStep, PMStep, Threads
    <3> QED BY <2>1, <3>1, <3>2
  <2>5. TypeOK'
    BY <2>3, <2>4 DEF Kept, Typed, TypeOK, HostTyped, FlagsTyped, GPUTyped
  <2> QED BY <2>1, <2>3, <2>5 DEF Kept, Typed, PInv
<1> QED BY <1>1, <1>2, PTL DEF Spec

\* The variables keep their types, even when suspend and resume race with the
\* driver.
THEOREM KeepsTypes == Spec => []TypeOK
<1>1. PInv => TypeOK
  BY DEF PInv
<1> QED BY <1>1, Invariance, PTL

\* If nobody is in the driver when a suspend or a resume starts, then, whatever fails on
\* the way up or down, however often the GPU locks up, and although the work item
\* of the timer may run late, the timer is armed only while the GPU is powered, and no call
\* accesses the GPU without its clocks.
THEOREM KeepsClocks == Spec => [](~PMRaces => ClocksFollowPower)
<1>1. PInv => (~PMRaces => ClocksFollowPower)
  <2>1. SUFFICES ASSUME PInv, ~PMRaces PROVE ClocksFollowPower
    OBVIOUS
  <2>2. PowerInv /\ Typed /\ eCurrentPowerState \in {"D0", "D3"}
    BY <2>1 DEF PInv, TypeOK, Typed
  <2>3. ASSUME NEW t \in Threads, todo[t] # <<>>, ~sSGXClocksEnabled,
               Head(todo[t]) \in {"SGXPrePowerState", "tick", "poll", "process", "kick",
                                  "HWRecoveryResetSGX"}
        PROVE  Head(todo[t]) \in {"SGXPrePowerState", "tick"} /\ eCurrentPowerState = "D3"
    <3>1. Head(todo[t]) = todo[t][1]
      BY <2>2, <2>3, TailGood DEF Typed, Shapes
    <3>2. eCurrentPowerState = "D3"
      BY <2>2, <2>3, <3>1, ClocksOn
    <3>3. HeadOK(todo[t], eCurrentPowerState, armed)
      BY <2>2 DEF PowerInv
    <3> QED BY <2>3, <3>1, <3>2, <3>3 DEF HeadOK, Powered
  <2>4. ClocksOnAtAccess
    BY <2>3 DEF ClocksOnAtAccess
  <2> QED BY <2>2, <2>4 DEF PowerInv, ClocksFollowPower
<1> QED BY <1>1, Invariance, PTL

-----------------------------------------------------------------------------
(***************************************************************************)
(* A GPU at rest: off with an empty ring, or on and watched by the timer.  *)
(*                                                                         *)
(* The start of the GPU may fail, and it may lock up; its clocks stop when *)
(* they are told to, a recovery succeeds, and suspend and resume do not    *)
(* race with the driver.                                                   *)
(***************************************************************************)

Orderly == ~PMRaces /\ "deinit" \notin Fails /\ "recover" \notin Fails

Makes(s) == {s[i] : i \in 1..Len(s)}

\* What is left of a power-down after its first call.
DownCalls == {"poll", "SysDevicePrePowerState", "PostD3"}

At(c) == \E t \in Threads : todo[t] # <<>> /\ todo[t][1] = c

Going == \E c \in DownCalls : At(c)

NoPowerOff(s) == \A i \in 1..Len(s) : s[i] # PowerOff

EndsInPowerOff(s) ==
  s # <<>> /\ s[Len(s)] = PowerOff /\ \A i \in 1..(Len(s) - 1) : s[i] # PowerOff

\* The GPU reads its ring.
Reading == gpu = "on" /\ "POWEROFF_COMPLETE" \notin ui32PowerStatus

Stopped == gpu = "halted" /\ ccb = <<>>

Off == gpu = "off" /\ ccb = <<>>

\* How the ring is emptied by the steps of a power-down.
RingStage ==
  /\ eCurrentPowerState = "D3" => Off
  /\ eCurrentPowerState = "D0" =>
       /\ ~Going => Reading /\ NoPowerOff(ccb)
       /\ At("poll") => (Reading /\ EndsInPowerOff(ccb)) \/ Stopped
       /\ At("SysDevicePrePowerState") => Stopped
       /\ At("PostD3") => Off

\* A kick is in the ring once, and until the microkernel reads it.
KicksOnce ==
  /\ \A i \in 1..Len(ccb) : ccb[i] \in Jobs => job[ccb[i]] = "ccb"
  /\ \A i, k \in 1..Len(ccb) : ccb[i] = ccb[k] /\ ccb[i] \in Jobs => i = k

RingInv == KicksOnce /\ (Orderly => SomethingLost \/ RingStage)

\* The calls of the lock-up timer.
TickCalls == {"tick", "requeue", "pvr_dev_lock", "pvr_dev_unlock", "HWRecoveryResetSGX",
              "SGXScheduleProcessQueues", "queues_D0", "process"}

\* The timer is armed in D0 up to a power-down, and an armed timer has a work item or
\* a worker; no power-down comes between its tick and its requeue.
TimerInv ==
  /\ ~pvr_disabled
  /\ eCurrentPowerState = "D0" => armed \/ Going
  /\ ~armed => work = "none"
  /\ armed => work # "none" \/ worker # "none"
  /\ "requeue" \in Makes(todo["lock"]) => armed /\ Makes(todo["lock"]) \subseteq TickCalls

\* The power command finds a slot in the kernel CCB, or a GPU that reads it.
RoomForPower ==
  \A t \in Threads :
    todo[t] # <<>> /\ todo[t][1] = "SGXPrePowerState" /\ eCurrentPowerState = "D0" => ~PostFails

-----------------------------------------------------------------------------
(***************************************************************************)
(* Which calls a step leaves.                                              *)
(***************************************************************************)

\* The calls of a sequence written out, of two sequences and of what is left of one.
LEMMA MakesParts ==
  /\ Makes(<<>>) = {}
  /\ \A c : Makes(<<c>>) = {c}
  /\ \A c, d : Makes(<<c, d>>) = {c, d}
  /\ \A c, d, e : Makes(<<c, d, e>>) = {c, d, e}
  /\ \A c, d, e, f : Makes(<<c, d, e, f>>) = {c, d, e, f}
<1> USE DEF Makes
<1>1. Makes(<<>>) = {}
  OBVIOUS
<1>2. ASSUME NEW c PROVE Makes(<<c>>) = {c}
  OBVIOUS
<1>3. ASSUME NEW c, NEW d PROVE Makes(<<c, d>>) = {c, d}
  OBVIOUS
<1>4. ASSUME NEW c, NEW d, NEW e PROVE Makes(<<c, d, e>>) = {c, d, e}
  OBVIOUS
<1>5. ASSUME NEW c, NEW d, NEW e, NEW f PROVE Makes(<<c, d, e, f>>) = {c, d, e, f}
  OBVIOUS
<1> QED BY <1>1, <1>2, <1>3, <1>4, <1>5

\* Of two sequences one after the other.
LEMMA MakesJoined ==
  ASSUME NEW a \in Seq(Calls), NEW b \in Seq(Calls)
  PROVE  Makes(a \o b) \subseteq Makes(a) \cup Makes(b) /\ a \o b \in Seq(Calls)
<1>1. /\ a \o b \in Seq(Calls) /\ Len(a \o b) = Len(a) + Len(b)
      /\ \A i \in 1..(Len(a) + Len(b)) :
            (a \o b)[i] = IF i <= Len(a) THEN a[i] ELSE b[i - Len(a)]
      /\ Len(a) \in Nat /\ Len(b) \in Nat
  BY ConcatProperties
<1>2. ASSUME NEW i \in 1..(Len(a) + Len(b)) PROVE (a \o b)[i] \in Makes(a) \cup Makes(b)
  <2>1. CASE i <= Len(a)
    BY <1>1, <2>1 DEF Makes
  <2>2. CASE i > Len(a)
    <3>1. PICK k \in 1..Len(b) : k = i - Len(a)
      BY <1>1, <2>2
    <3>2. (a \o b)[i] = b[k]
      BY <1>1, <2>2, <3>1
    <3> QED BY <3>1, <3>2 DEF Makes
  <2> QED BY <1>1, <2>1, <2>2
<1>3. ASSUME NEW c \in Makes(a \o b) PROVE c \in Makes(a) \cup Makes(b)
  <2>1. PICK i \in 1..Len(a \o b) : c = (a \o b)[i]
    BY <1>3 DEF Makes
  <2> QED BY <1>1, <1>2, <2>1
<1> QED BY <1>1, <1>3

\* Of what is left of a sequence.
LEMMA MakesRest ==
  ASSUME NEW s \in Seq(Calls), s # <<>>
  PROVE  /\ Makes(Tail(s)) \subseteq Makes(s) /\ s[1] \in Makes(s) /\ Tail(s) \in Seq(Calls)
         /\ Makes(SubSeq(s, 4, Len(s))) \subseteq Makes(s)
<1>1. Len(s) \in Nat /\ Len(s) > 0
  BY EmptySeq, LenProperties
<1>2. PICK r \in Seq(Calls) : /\ r = Tail(s) /\ Len(r) = Len(s) - 1
                              /\ \A i \in 1..Len(r) : r[i] = s[i + 1]
  BY <1>1, HeadTailProperties
<1>3. Makes(r) \subseteq Makes(s)
  BY <1>1, <1>2 DEF Makes
<1>4. Makes(SubSeq(s, 4, Len(s))) \subseteq Makes(s)
  <2>1. PICK q : q = SubSeq(s, 4, Len(s))
    OBVIOUS
  <2>2. CASE Len(s) < 4
    <3>1. q = <<>>
      BY <1>1, <2>1, <2>2, SubSeqEmpty
    <3> QED BY <2>1, <3>1, MakesParts
  <2>3. CASE Len(s) >= 4
    <3>1. \A i \in 4..Len(s) : s[i] \in Calls
      BY <1>1
    <3>2. 4 \in Int /\ Len(s) \in Int
      BY <1>1
    <3>3. /\ Len(q) = IF 4 <= Len(s) THEN (Len(s) - 4) + 1 ELSE 0
          /\ \A i \in 1..((Len(s) - 4) + 1) : q[i] = s[(4 + i) - 1]
      BY <2>1, <3>1, <3>2, SubSeqProperties
    <3>4. \A i \in 1..Len(q) : q[i] = s[(4 + i) - 1] /\ (4 + i) - 1 \in 1..Len(s)
      BY <1>1, <2>3, <3>3
    <3>5. Makes(q) \subseteq Makes(s)
      BY <3>4 DEF Makes
    <3> QED BY <2>1, <3>5
  <2> QED BY <1>1, <2>2, <2>3
<1>5. s[1] \in Makes(s)
  BY <1>1 DEF Makes
<1> QED BY <1>2, <1>3, <1>4, <1>5

\* A thread goes on after a call that is not part of a power-down.
Ordinary(t, r) ==
  /\ todo[t] # <<>> /\ todo[t][1] \notin DownCalls \cup {"SGXPrePowerState"}
  /\ todo' = [todo EXCEPT ![t] = r]
  /\ r # <<>> => r[1] \notin DownCalls
  /\ "requeue" \in Makes(r) => "requeue" \in Makes(todo[t])
  /\ todo[t][1] \in TickCalls => Makes(r) \subseteq Makes(todo[t]) \cup TickCalls

\* Such a call returns.
LEMMA OverOrdinary ==
  ASSUME Typed, NEW t \in Threads, todo[t] # <<>>,
         todo[t][1] \notin DownCalls \cup {"SGXPrePowerState"}, Return(t, <<>>)
  PROVE  \E r : Ordinary(t, r)
<1>1. PICK s : s = todo[t] /\ Good(s) /\ s # <<>> /\ s \in Seq(Calls)
  BY DEF Typed, Shapes, Good
<1>2. PICK r : r = Tail(s)
  OBVIOUS
<1>3. /\ r # <<>> => r[1] = s[2] /\ Follows(s[1], s[2])
      /\ <<>> \o r = r
  BY <1>1, <1>2, TailGood
<1>4. todo' = [todo EXCEPT ![t] = r]
  <2>1. todo' = [todo EXCEPT ![t] = <<>> \o Tail(s)]
    BY <1>1 DEF Return
  <2> QED BY <1>2, <1>3, <2>1
<1>5. Makes(r) \subseteq Makes(s)
  BY <1>1, <1>2, MakesRest
<1>6. r # <<>> => r[1] \notin DownCalls
  BY <1>1, <1>3 DEF Follows, DownCalls
<1> QED BY <1>1, <1>4, <1>5, <1>6 DEF Ordinary

\* Such a call makes others necessary.
LEMMA PushOrdinary ==
  ASSUME Typed, NEW t \in Threads, todo[t] # <<>>,
         todo[t][1] \notin DownCalls \cup {"SGXPrePowerState"},
         NEW cs, Good(cs), cs # <<>>, Return(t, cs), cs[1] \notin DownCalls,
         "requeue" \notin Makes(cs), todo[t][1] \in TickCalls => Makes(cs) \subseteq TickCalls
  PROVE  \E r : Ordinary(t, r)
<1>1. PICK s : s = todo[t] /\ Good(s) /\ s # <<>> /\ s \in Seq(Calls)
  BY DEF Typed, Shapes, Good
<1>2. PICK b \in Seq(Calls) : b = Tail(s) /\ Makes(b) \subseteq Makes(s)
  BY <1>1, MakesRest
<1>3. cs \in Seq(Calls)
  BY DEF Good
<1>4. PICK r : r = cs \o b
  OBVIOUS
<1>5. Makes(r) \subseteq Makes(cs) \cup Makes(s)
  BY <1>2, <1>3, <1>4, MakesJoined
<1>6. r[1] = cs[1]
  <2>1. /\ Len(cs) \in Nat /\ Len(b) \in Nat /\ Len(cs) > 0
        /\ \A i \in 1..(Len(cs) + Len(b)) :
              (cs \o b)[i] = IF i <= Len(cs) THEN cs[i] ELSE b[i - Len(cs)]
    BY <1>2, <1>3, ConcatProperties, EmptySeq, LenProperties
  <2>2. 1 \in 1..(Len(cs) + Len(b)) /\ 1 <= Len(cs)
    BY <2>1
  <2> QED BY <1>4, <2>1, <2>2
<1>7. todo' = [todo EXCEPT ![t] = r]
  BY <1>1, <1>2, <1>4 DEF Return
<1> QED BY <1>1, <1>5, <1>6, <1>7 DEF Ordinary


\* A failed power-up leaves only calls that were there before.
LEMMA PowerUpFailsOrdinary ==
  ASSUME Typed, NEW t \in Threads, todo[t] # <<>>, todo[t][1] \in PowerUps, PowerUpFails(t),
         todo[t][1] \notin TickCalls \/ todo[t][1] = "queues_D0"
  PROVE  \E r : Ordinary(t, r)
<1>1. PICK s : s = todo[t] /\ Good(s) /\ s # <<>> /\ Head(s) = s[1] /\ s \in Seq(Calls)
  BY TailGood DEF Typed, Shapes, Good
<1>2. s[1] \notin DownCalls \cup {"SGXPrePowerState"}
  BY <1>1 DEF PowerUps, DownCalls
<1>3. CASE s[1] = "D0"
  <2>1. PICK r : r = (IF dev = t THEN <<"pvr_dev_unlock">> ELSE <<>>)
    OBVIOUS
  <2>2. todo' = [todo EXCEPT ![t] = r]
    BY <1>1, <1>3, <2>1 DEF PowerUpFails, Abort
  <2>3. Makes(r) \subseteq {"pvr_dev_unlock"} /\ (r # <<>> => r[1] = "pvr_dev_unlock")
    BY <2>1, MakesParts
  <2> QED BY <1>1, <1>2, <1>3, <2>2, <2>3 DEF Ordinary, DownCalls, TickCalls
<1>4. CASE s[1] = "MISR_D0"
  <2>1. PICK r : r = <<"BUG">>
    OBVIOUS
  <2>2. todo' = [todo EXCEPT ![t] = r]
    BY <1>1, <1>4, <2>1 DEF PowerUpFails
  <2>3. Makes(r) \subseteq {"BUG"} /\ r[1] = "BUG"
    BY <2>1, MakesParts
  <2> QED BY <1>1, <1>2, <1>4, <2>2, <2>3 DEF Ordinary, DownCalls, TickCalls
<1>5. CASE s[1] = "queues_D0"
  <2>1. PICK p : p = Tail(s) /\ Good(p) /\ p # <<>> /\ p[1] = "process" /\ p \in Seq(Calls)
                 /\ Makes(p) \subseteq Makes(s)
    <3>1. Good(Tail(s)) /\ Tail(s) # <<>> /\ Tail(s)[1] = s[2] /\ Follows(s[1], s[2])
      BY <1>1, <1>5, TailGood
    <3>2. s[2] = "process"
      BY <1>5, <3>1 DEF Follows
    <3> QED BY <1>1, <3>1, <3>2, MakesRest DEF Good
  <2>2. PICK r : r = Tail(p)
    OBVIOUS
  <2>3. (r # <<>> => r[1] = p[2] /\ Follows(p[1], p[2])) /\ Makes(r) \subseteq Makes(p)
    BY <2>1, <2>2, TailGood, MakesRest
  <2>4. r # <<>> => r[1] \notin DownCalls
    BY <2>1, <2>3 DEF Follows, DownCalls
  <2>5. todo' = [todo EXCEPT ![t] = r]
    BY <1>1, <1>5, <2>1, <2>2 DEF PowerUpFails
  <2> QED BY <1>1, <1>2, <2>1, <2>3, <2>4, <2>5 DEF Ordinary
<1> QED BY <1>1, <1>3, <1>4, <1>5 DEF PowerUps

\* The calls of a power-down come one after the other.
LEMMA DownStep ==
  ASSUME Typed, NEW t \in Threads, todo[t] # <<>>, NEW c, todo[t][1] = c, Return(t, <<>>),
         c \in {"SGXPrePowerState", "poll", "SysDevicePrePowerState", "PostD3"}
  PROVE  \E r : /\ todo' = [todo EXCEPT ![t] = r] /\ Makes(r) \subseteq Makes(todo[t])
                /\ c = "SGXPrePowerState" => r # <<>> /\ r[1] = "poll"
                /\ c = "poll" => r # <<>> /\ r[1] = "SysDevicePrePowerState"
                /\ c = "SysDevicePrePowerState" => r # <<>> /\ r[1] = "PostD3"
                /\ c = "PostD3" /\ r # <<>> => r[1] \notin DownCalls
<1>1. PICK s : s = todo[t] /\ Good(s) /\ s # <<>> /\ s \in Seq(Calls)
  BY DEF Typed, Shapes, Good
<1>2. PICK r : r = Tail(s)
  OBVIOUS
<1>3. /\ r # <<>> => r[1] = s[2] /\ Follows(s[1], s[2])
      /\ <<>> \o r = r
      /\ s[1] \in {"queues_D0", "SGXPrePowerState", "poll", "SysDevicePrePowerState"} => r # <<>>
  BY <1>1, <1>2, TailGood
<1>4. todo' = [todo EXCEPT ![t] = r]
  <2>1. todo' = [todo EXCEPT ![t] = <<>> \o Tail(s)]
    BY <1>1 DEF Return
  <2> QED BY <1>2, <1>3, <2>1
<1>5. Makes(r) \subseteq Makes(s)
  BY <1>1, <1>2, MakesRest
<1>6. c = s[1]
  BY <1>1
<1>7. /\ c = "SGXPrePowerState" => r # <<>> /\ r[1] = "poll"
      /\ c = "poll" => r # <<>> /\ r[1] = "SysDevicePrePowerState"
      /\ c = "SysDevicePrePowerState" => r # <<>> /\ r[1] = "PostD3"
      /\ c = "PostD3" /\ r # <<>> => r[1] \notin DownCalls
  BY <1>3, <1>6 DEF Follows, DownCalls
<1> QED BY <1>1, <1>4, <1>5, <1>7

\* A thread enters an empty driver.
Enters(t, r) ==
  /\ \A u \in Threads : todo[u] = <<>>
  /\ todo' = [todo EXCEPT ![t] = r]
  /\ r # <<>> => r[1] \notin DownCalls
  /\ "requeue" \in Makes(r) => armed /\ Makes(r) \subseteq TickCalls

\* The other thread is at rest: where a power-down is can be read off the thread that
\* acts.
LEMMA WhoActs ==
  ASSUME Typed, PowerInv, NEW t \in Threads, todo[t] # <<>>
  PROVE  /\ \A c : At(c) <=> todo[t][1] = c
         /\ Going <=> todo[t][1] \in DownCalls
         /\ t # "lock" => todo["lock"] = <<>>
BY DEF PowerInv, At, Going, Threads

\* ... and where it will be.
LEMMA WhoActed ==
  ASSUME Typed, PowerInv, NEW t \in Threads,
         todo[t] # <<>> \/ \A u \in Threads : todo[u] = <<>>,
         NEW r, todo' = [todo EXCEPT ![t] = r]
  PROVE  /\ \A c : At(c)' <=> r # <<>> /\ r[1] = c
         /\ Going' <=> r # <<>> /\ r[1] \in DownCalls
         /\ todo'["lock"] = IF t = "lock" THEN r ELSE <<>>
<1>1. todo'[t] = r /\ \A u \in Threads \ {t} : todo'[u] = <<>>
  BY DEF Typed, PowerInv, Threads
<1>2. \A c : At(c)' <=> r # <<>> /\ r[1] = c
  BY <1>1 DEF At
<1>3. todo'["lock"] = IF t = "lock" THEN r ELSE <<>>
  BY <1>1 DEF Threads
<1> QED BY <1>2, <1>3 DEF Going

\* Nobody is in the driver: no power-down is under way.
LEMMA NobodyActs ==
  ASSUME \A u \in Threads : todo[u] = <<>>
  PROVE  ~Going /\ (\A c : ~At(c))
BY DEF Going, At


\* The calls between taking and releasing pvr_dev_lock.
LEMMA LockedMakes ==
  ASSUME NEW cs \in Seq(Calls)
  PROVE  /\ Makes(Locked(cs)) \subseteq Makes(cs) \cup {"pvr_dev_lock", "pvr_dev_unlock"}
         /\ Locked(cs)[1] = "pvr_dev_lock"
<1>0. PICK a : a = <<"pvr_dev_lock">> /\ Makes(a) = {"pvr_dev_lock"}
  BY MakesParts
<1>1. a \in Seq(Calls) /\ a[1] = "pvr_dev_lock" /\ Len(a) = 1
  BY <1>0 DEF Calls
<1>2. PICK b : b = <<"pvr_dev_unlock">> /\ Makes(b) = {"pvr_dev_unlock"} /\ b \in Seq(Calls)
  BY MakesParts, Written DEF Calls, Good
<1>3. PICK r : r = a \o cs /\ Makes(r) \subseteq Makes(a) \cup Makes(cs) /\ r \in Seq(Calls)
  BY <1>0, <1>1, MakesJoined
<1>4. Makes(r \o b) \subseteq Makes(r) \cup Makes(b)
  BY <1>2, <1>3, MakesJoined
<1>5. Locked(cs) = r \o b
  BY <1>0, <1>2, <1>3 DEF Locked
<1>6. r[1] = "pvr_dev_lock" /\ Len(r) \in Nat /\ Len(r) >= 1
  <2>1. /\ Len(cs) \in Nat /\ Len(a \o cs) = Len(a) + Len(cs)
        /\ \A i \in 1..(Len(a) + Len(cs)) :
              (a \o cs)[i] = IF i <= Len(a) THEN a[i] ELSE cs[i - Len(a)]
    BY <1>1, ConcatProperties, LenProperties
  <2>2. 1 \in 1..(Len(a) + Len(cs)) /\ 1 <= Len(a)
    BY <1>1, <2>1
  <2> QED BY <1>1, <1>3, <2>1, <2>2
<1>7. (r \o b)[1] = r[1]
  BY <1>2, <1>3, <1>6, ConcatProperties, LenProperties
<1> QED BY <1>0, <1>2, <1>3, <1>4, <1>5, <1>6, <1>7

\* An ioctl, the MISR, the lock-up timer, debugfs, a suspend or a resume starts with
\* a call that is not in the middle of a power-down; only an armed timer requeues
\* itself.
LEMMA EntriesEnter ==
  ASSUME Typed, ~PMRaces,
         \/ \E j \in Jobs, waits \in BOOLEAN : SGXScheduleCCBCommandKM(j, waits)
         \/ \E j \in Jobs : FlipCompletes(j)
         \/ SGX_MISRHandler \/ pvr_debugfs_reset \/ pvr_suspend \/ pvr_resume
         \/ SGXOSTimer
  PROVE  (\E t \in Threads : \E r : Enters(t, r)) \/ UNCHANGED todo
<1>0. /\ "lock" \in Threads /\ "pm" \in Threads
      /\ Idle \/ PMStart => \A u \in Threads : todo[u] = <<>>
  BY DEF Threads, Idle, PMStart
<1>1. ASSUME NEW cs, Good(cs), "requeue" \notin Makes(cs), Enter(Locked(cs))
      PROVE  \E t \in Threads : \E r : Enters(t, r)
  <2>1. PICK r : /\ r = Locked(cs) /\ r[1] = "pvr_dev_lock"
                 /\ Makes(r) \subseteq Makes(cs) \cup {"pvr_dev_lock", "pvr_dev_unlock"}
    BY <1>1, LockedMakes DEF Good
  <2>2. todo' = [todo EXCEPT !["lock"] = r] /\ Idle
    BY <1>1, <2>1 DEF Enter
  <2>3. "requeue" \notin Makes(r)
    BY <1>1, <2>1
  <2> QED BY <1>0, <2>1, <2>2, <2>3 DEF Enters, DownCalls
<1>2. ASSUME NEW j, NEW waits, SGXScheduleCCBCommandKM(j, waits)
      PROVE  \E t \in Threads : \E r : Enters(t, r)
  <2>1. PICK cs : /\ cs = <<"D0", "kick", "SGXTestActivePowerEvent">> /\ Good(cs)
                  /\ Makes(cs) = {"D0", "kick", "SGXTestActivePowerEvent"}
    BY MakesParts, Written DEF Calls
  <2> QED BY <1>1, <1>2, <2>1 DEF SGXScheduleCCBCommandKM
<1>3. ASSUME NEW j, FlipCompletes(j) PROVE \E t \in Threads : \E r : Enters(t, r)
  <2>1. PICK cs : /\ cs = <<"SGXScheduleProcessQueues">> /\ Good(cs)
                  /\ Makes(cs) = {"SGXScheduleProcessQueues"}
    BY MakesParts, Written DEF Calls
  <2> QED BY <1>1, <1>3, <2>1 DEF FlipCompletes
<1>4. ASSUME SGX_MISRHandler PROVE (\E t \in Threads : \E r : Enters(t, r)) \/ UNCHANGED todo
  <2>1. PICK cs : /\ cs = <<"MISR_D0", "HWR", "SGXTestActivePowerEvent">> /\ Good(cs)
                  /\ Makes(cs) = {"MISR_D0", "HWR", "SGXTestActivePowerEvent"}
    BY MakesParts, Written DEF Calls
  <2> QED BY <1>1, <1>4, <2>1 DEF SGX_MISRHandler
<1>5. ASSUME pvr_debugfs_reset PROVE \E t \in Threads : \E r : Enters(t, r)
  <2>1. PICK r : /\ r = <<"D0", "HWRecoveryResetSGX", "SGXTestActivePowerEvent">> /\ r[1] = "D0"
                 /\ Makes(r) = {"D0", "HWRecoveryResetSGX", "SGXTestActivePowerEvent"}
    BY MakesParts, Written
  <2>2. todo' = [todo EXCEPT !["lock"] = r] /\ Idle
    BY <1>5, <2>1 DEF pvr_debugfs_reset, Enter
  <2>3. "requeue" \notin Makes(r) /\ r[1] \notin DownCalls
    BY <2>1 DEF DownCalls
  <2> QED BY <1>0, <2>2, <2>3 DEF Enters
<1>6. ASSUME NEW c \in {"SystemD3", "SystemD0"}, PMStart,
             todo' = [todo EXCEPT !["pm"] = PowerDown \o <<c>>]
      PROVE  \E t \in Threads : \E r : Enters(t, r)
  <2>1. PICK a : /\ a = PowerDown /\ a[1] = "SGXPrePowerState" /\ Good(a) /\ a # <<>>
                 /\ Len(a) = 4 /\ a[4] = "PostD3"
                 /\ Makes(a) = {"SGXPrePowerState", "poll", "SysDevicePrePowerState", "PostD3"}
    <3>1. Makes(PowerDown) = {"SGXPrePowerState", "poll", "SysDevicePrePowerState", "PostD3"}
      BY MakesParts DEF PowerDown
    <3> QED BY <3>1, Written
  <2>2. PICK b : b = <<c>> /\ Makes(b) = {c} /\ Good(b) /\ b[1] = c
    <3>1. c \in Calls
      BY DEF Calls
    <3>2. PICK b : b = <<c>>
      OBVIOUS
    <3>3. Makes(b) = {c} /\ b[1] = c
      BY <3>2, MakesParts
    <3>4. b \in Seq(Calls) /\ Len(b) = 1
      BY <3>1, <3>2
    <3>5. Good(b)
      BY <3>3, <3>4 DEF Good, Linked, Complete
    <3> QED BY <3>2, <3>3, <3>5
  <2>3. PICK r : r = a \o b
    OBVIOUS
  <2>4. Makes(r) \subseteq Makes(a) \cup Makes(b)
    BY <2>1, <2>2, <2>3, MakesJoined DEF Good
  <2>5. r[1] = a[1]
    <3>1. Follows(a[Len(a)], b[1])
      BY <2>1, <2>2 DEF Follows, Powered, PowerUps
    <3> QED BY <2>1, <2>2, <2>3, <3>1, Joined
  <2>6. todo' = [todo EXCEPT !["pm"] = r]
    BY <1>6, <2>1, <2>2, <2>3
  <2>7. "requeue" \notin Makes(r) /\ r[1] \notin DownCalls
    BY <2>1, <2>2, <2>4, <2>5 DEF DownCalls
  <2> QED BY <1>0, <1>6, <2>6, <2>7 DEF Enters
<1>7. ASSUME SGXOSTimer PROVE (\E t \in Threads : \E r : Enters(t, r)) \/ UNCHANGED todo
  <2>1. CASE armed /\ todo' = [todo EXCEPT !["lock"] = <<"tick", "requeue">>]
    <3>1. PICK r : r = <<"tick", "requeue">> /\ r[1] = "tick" /\ Makes(r) = {"tick", "requeue"}
      BY MakesParts
    <3>2. todo' = [todo EXCEPT !["lock"] = r] /\ Idle /\ armed
      BY <1>7, <2>1, <3>1 DEF SGXOSTimer
    <3> QED BY <1>0, <3>1, <3>2 DEF Enters, DownCalls, TickCalls
  <2> QED BY <1>7, <2>1 DEF SGXOSTimer
<1> QED BY <1>2, <1>3, <1>4, <1>5, <1>6, <1>7 DEF pvr_suspend, pvr_resume

\* The calls that either thread makes outside a power-down.
LEMMA StepOrdinary ==
  ASSUME Typed, NEW t \in Threads,
         pvr_dev_lock(t) \/ pvr_dev_unlock(t) \/ SGXScheduleProcessQueues(t) \/ PostProcess(t)
  PROVE  \E r : Ordinary(t, r)
<1>1. PICK call \in {"pvr_dev_lock", "pvr_dev_unlock", "SGXScheduleProcessQueues", "process"} :
         todo[t] # <<>> /\ todo[t][1] = call
  BY CallingFirst DEF pvr_dev_lock, pvr_dev_unlock, SGXScheduleProcessQueues, PostProcess
<1>2. todo[t][1] \notin DownCalls \cup {"SGXPrePowerState"} /\ todo[t][1] \in TickCalls
  BY <1>1 DEF DownCalls, TickCalls
<1>3. PICK cs : /\ cs = <<"queues_D0", "process">> /\ Good(cs) /\ cs # <<>>
                /\ cs[1] = "queues_D0" /\ Makes(cs) = {"queues_D0", "process"}
  BY Written, MakesParts
<1>4. CASE Return(t, cs)
  <2>1. cs[1] \notin DownCalls /\ "requeue" \notin Makes(cs) /\ Makes(cs) \subseteq TickCalls
    BY <1>3 DEF DownCalls, TickCalls
  <2> QED BY <1>1, <1>2, <1>3, <1>4, <2>1, PushOrdinary
<1>5. Return(t, <<>>) \/ Return(t, cs)
  BY <1>3 DEF pvr_dev_lock, pvr_dev_unlock, SGXScheduleProcessQueues, PostProcess
<1> QED BY <1>1, <1>2, <1>4, <1>5, OverOrdinary

\* The calls that only the holder of pvr_lock makes.
LEMMA LockOrdinary ==
  ASSUME Typed, \/ Tick \/ Requeue \/ \E j \in Jobs : Kick(j)
                \/ SGXTestActivePowerEvent \/ SGXPostActivePowerEvent
                \/ TestHWR \/ HWRecoveryResetSGX
  PROVE  \E r : Ordinary("lock", r)
<1>0. "lock" \in Threads
  BY DEF Threads
<1>1. PICK call \in {"tick", "requeue", "kick", "SGXTestActivePowerEvent", "SGXPostActivePowerEvent",
                     "HWR", "HWRecoveryResetSGX"} :
         /\ todo["lock"] # <<>> /\ todo["lock"][1] = call
         /\ SGXTestActivePowerEvent => call = "SGXTestActivePowerEvent"
  BY <1>0, CallingFirst DEF Tick, Requeue, Kick, SGXTestActivePowerEvent, SGXPostActivePowerEvent,
         TestHWR, HWRecoveryResetSGX
<1>2. todo["lock"][1] \notin DownCalls \cup {"SGXPrePowerState"}
  BY <1>1 DEF DownCalls
<1>3. CASE Return("lock", <<>>)
  BY <1>0, <1>1, <1>2, <1>3, OverOrdinary
<1>4. ASSUME NEW c \in {"SGXScheduleProcessQueues", "HWRecoveryResetSGX"}, Return("lock", <<c>>)
      PROVE  \E r : Ordinary("lock", r)
  <2>1. PICK cs : /\ cs = <<c>> /\ Good(cs) /\ cs # <<>> /\ cs[1] = c /\ Makes(cs) = {c}
    BY Written, MakesParts DEF Calls
  <2>2. /\ Return("lock", cs) /\ cs[1] \notin DownCalls
        /\ "requeue" \notin Makes(cs) /\ Makes(cs) \subseteq TickCalls
    BY <1>4, <2>1 DEF DownCalls, TickCalls
  <2> QED BY <1>0, <1>1, <1>2, <2>1, <2>2, PushOrdinary
<1>5. ASSUME Return("lock", Locked(<<"HWRecoveryResetSGX">>))
      PROVE  \E r : Ordinary("lock", r)
  <2>1. PICK c : /\ c = <<"HWRecoveryResetSGX">> /\ Good(c) /\ c # <<>> /\ Makes(c) = {"HWRecoveryResetSGX"}
                 /\ c[1] = "HWRecoveryResetSGX" /\ Len(c) = 1 /\ c \in Seq(Calls)
    BY Written, MakesParts DEF Calls, Good
  <2>2. /\ Good(c) /\ c # <<>> /\ Len(c) \in Nat
        /\ c[1] \notin {"kick", "process", "HWR", "poll", "SysDevicePrePowerState", "PostD3",
                        "pvr_dev_lock"}
        /\ c[Len(c)] \notin {"queues_D0", "SGXPrePowerState", "poll", "SysDevicePrePowerState"}
    BY <2>1
  <2>3. PICK cs : cs = Locked(c)
    OBVIOUS
  <2>4. /\ Good(cs) /\ cs # <<>> /\ cs[1] = "pvr_dev_lock"
        /\ Makes(cs) \subseteq Makes(c) \cup {"pvr_dev_lock", "pvr_dev_unlock"}
    BY <2>1, <2>2, <2>3, LockedGood, LockedMakes
  <2>5. /\ Return("lock", cs) /\ cs[1] \notin DownCalls
        /\ "requeue" \notin Makes(cs) /\ Makes(cs) \subseteq TickCalls
    BY <1>5, <2>1, <2>3, <2>4 DEF DownCalls, TickCalls
  <2> QED BY <1>0, <1>1, <1>2, <2>4, <2>5, PushOrdinary
<1>6. ASSUME Return("lock", PowerDown \o <<"SGXPostActivePowerEvent">>), SGXTestActivePowerEvent
      PROVE  \E r : Ordinary("lock", r)
  <2>1. PICK a : /\ a = PowerDown /\ Good(a) /\ a # <<>> /\ a[1] = "SGXPrePowerState"
                 /\ Len(a) = 4 /\ a[4] = "PostD3" /\ a \in Seq(Calls)
                 /\ Makes(a) = {"SGXPrePowerState", "poll", "SysDevicePrePowerState", "PostD3"}
    <3>1. Makes(PowerDown) = {"SGXPrePowerState", "poll", "SysDevicePrePowerState", "PostD3"}
      BY MakesParts DEF PowerDown
    <3> QED BY <3>1, Written DEF Good
  <2>2. PICK b : /\ b = <<"SGXPostActivePowerEvent">> /\ Good(b) /\ b # <<>> /\ b \in Seq(Calls)
                 /\ b[1] = "SGXPostActivePowerEvent" /\ Makes(b) = {"SGXPostActivePowerEvent"}
    BY Written, MakesParts DEF Calls, Good
  <2>3. Good(a) /\ Good(b) /\ a # <<>> /\ Follows(a[Len(a)], b[1]) /\ b # <<>>
    BY <2>1, <2>2 DEF Follows, Powered, PowerUps
  <2>4. PICK cs : cs = a \o b
    OBVIOUS
  <2>5. Good(cs) /\ cs # <<>> /\ cs[1] = a[1]
    BY <2>3, <2>4, Joined
  <2>6. Makes(cs) \subseteq Makes(a) \cup Makes(b)
    BY <2>1, <2>2, <2>4, MakesJoined
  <2>7. /\ Return("lock", cs) /\ cs[1] \notin DownCalls /\ "requeue" \notin Makes(cs)
    BY <1>6, <2>1, <2>2, <2>4, <2>5, <2>6 DEF DownCalls
  <2>8. todo["lock"][1] \notin TickCalls
    BY <1>1, <1>6 DEF TickCalls
  <2> QED BY <1>0, <1>1, <1>2, <2>5, <2>7, <2>8, PushOrdinary
<1> QED BY <1>3, <1>4, <1>5, <1>6
        DEF Tick, Requeue, Kick, SGXTestActivePowerEvent, SGXPostActivePowerEvent, TestHWR,
            HWRecoveryResetSGX

\* The end of a suspend or a resume.
LEMMA SystemOrdinary ==
  ASSUME Typed, SystemPostPowerState
  PROVE  \E r : Ordinary("pm", r)
<1>0. "pm" \in Threads
  BY DEF Threads
<1>1. PICK call \in {"SystemD3", "SystemD0"} : todo["pm"] # <<>> /\ todo["pm"][1] = call
  BY <1>0, CallingFirst DEF SystemPostPowerState
<1>2. todo["pm"][1] \notin DownCalls \cup {"SGXPrePowerState"} /\ todo["pm"][1] \notin TickCalls
  BY <1>1 DEF DownCalls, TickCalls
<1>3. CASE Return("pm", <<>>)
  BY <1>0, <1>1, <1>2, <1>3, OverOrdinary
<1>4. CASE Return("pm", Locked(<<"SGXScheduleProcessQueues">>))
  <2>1. PICK c : /\ c = <<"SGXScheduleProcessQueues">> /\ Good(c) /\ c # <<>>
                 /\ Makes(c) = {"SGXScheduleProcessQueues"}
                 /\ c[1] = "SGXScheduleProcessQueues" /\ Len(c) = 1 /\ c \in Seq(Calls)
    BY Written, MakesParts DEF Calls, Good
  <2>2. /\ Good(c) /\ c # <<>> /\ Len(c) \in Nat
        /\ c[1] \notin {"kick", "process", "HWR", "poll", "SysDevicePrePowerState", "PostD3",
                        "pvr_dev_lock"}
        /\ c[Len(c)] \notin {"queues_D0", "SGXPrePowerState", "poll", "SysDevicePrePowerState"}
    BY <2>1
  <2>3. PICK cs : cs = Locked(c)
    OBVIOUS
  <2>4. /\ Good(cs) /\ cs # <<>> /\ cs[1] = "pvr_dev_lock"
        /\ Makes(cs) \subseteq Makes(c) \cup {"pvr_dev_lock", "pvr_dev_unlock"}
    BY <2>1, <2>2, <2>3, LockedGood, LockedMakes
  <2>5. Return("pm", cs) /\ cs[1] \notin DownCalls /\ "requeue" \notin Makes(cs)
    BY <1>4, <2>1, <2>3, <2>4 DEF DownCalls
  <2> QED BY <1>0, <1>1, <1>2, <2>4, <2>5, PushOrdinary
<1> QED BY <1>3, <1>4 DEF SystemPostPowerState


-----------------------------------------------------------------------------
(***************************************************************************)
(* Kicks in the ring.                                                      *)
(***************************************************************************)

\* What a step may do to the ring and the jobs.
JobStep ==
  \/ /\ UNCHANGED job
     /\ \/ ccb' = ccb \/ ccb' = <<>>
        \/ \E c \in Commands \ Jobs : ccb' = Append(ccb, c)
        \/ ccb # <<>> /\ ccb' = Tail(ccb)
  \/ ccb' = <<>> /\ job' = [j \in Jobs |-> IF job[j] = "ccb" THEN "held" ELSE job[j]]
  \/ ccb' = ccb /\ job' = [j \in Jobs |-> IF job[j] = "kick" THEN "lost" ELSE job[j]]
  \/ \E j \in Jobs : /\ job[j] \in {"none", "kick", "held"}
                     /\ ccb' = ccb /\ \E v : job' = [job EXCEPT ![j] = v]
  \/ \E j \in Jobs : /\ job[j] = "kick"
                     /\ ccb' = Append(ccb, j) /\ job' = [job EXCEPT ![j] = "ccb"]
  \/ /\ ccb # <<>> /\ ccb' = Tail(ccb)
     /\ job' = [j \in Jobs |-> IF j = Head(ccb) THEN "held" ELSE job[j]]

\* Every step is one of these.
LEMMA EveryJobStep ==
  ASSUME [Next]_vars
  PROVE  JobStep
<1>0. Process \in Commands \ Jobs /\ PowerOff \in Commands \ Jobs
  BY PowerAssumption DEF Process, PowerOff, Commands, Jobs
<1>1. ASSUME NEW t, Step(t) PROVE JobStep
  <2>1. CASE SetD0(t)
    <3> USE DEF SetD0, jobVars, SGXPostPowerState, SGXInitialise
    <3> QED BY <2>1 DEF JobStep
  <2>2. CASE SGXPrePowerState(t)
    BY <1>0, <2>2 DEF JobStep, SGXPrePowerState, Post, jobVars
  <2>3. CASE PostProcess(t)
    BY <1>0, <2>3 DEF JobStep, PostProcess, Post, jobVars
  <2> QED BY <1>1, <2>1, <2>2, <2>3
          DEF Step, JobStep, pvr_dev_lock, pvr_dev_unlock, PollPowerOff, SysDevicePrePowerState, PostD3,
              SGXScheduleProcessQueues, jobVars
<1>2. CASE LockStep
  <2>1. ASSUME NEW j \in Jobs, Kick(j) PROVE JobStep
    BY <2>1 DEF JobStep, Kick, Post
  <2>2. CASE HWRecoveryResetSGX
    BY <2>2 DEF JobStep, HWRecoveryResetSGX, SGXInitialise
  <2> QED BY <1>1, <1>2, <2>1, <2>2
          DEF LockStep, JobStep, Tick, Requeue, SGXTestActivePowerEvent, SGXPostActivePowerEvent,
              TestHWR, jobVars
<1>3. CASE PMStep
  BY <1>1, <1>3 DEF PMStep, SystemPostPowerState, JobStep, jobVars
<1>4. CASE GPU
  <2>1. CASE GPURead
    BY <2>1 DEF GPURead, JobStep
  <2>2. ASSUME NEW j \in Jobs, GPURun(j) PROVE JobStep
    BY <2>2 DEF GPURun, Runnable, JobStep
  <2> QED BY <1>4, <2>1, <2>2 DEF GPU, GPURest, JobStep, jobVars
<1>5. ASSUME NEW j \in Jobs, GPUHang(j) PROVE JobStep
  BY <1>5 DEF GPUHang, Runnable, JobStep
<1>6. ASSUME NEW j \in Jobs, NEW waits, SGXScheduleCCBCommandKM(j, waits) PROVE JobStep
  BY <1>6 DEF SGXScheduleCCBCommandKM, JobStep
<1>7. ASSUME NEW j \in Jobs, FlipCompletes(j) PROVE JobStep
  BY <1>7 DEF FlipCompletes, JobStep
<1>8. CASE SGX_MISRHandler \/ pvr_debugfs_reset \/ pvr_suspend \/ pvr_resume
  BY <1>8 DEF SGX_MISRHandler, pvr_debugfs_reset, pvr_suspend, pvr_resume, JobStep, jobVars
<1>9. CASE Timer \/ SGXOSTimer \/ UNCHANGED vars
  BY <1>9 DEF Timer, TimerExpires, WorkerStarts, SGXOSTimer, vars, JobStep, jobVars
<1> QED BY <1>2, <1>3, <1>4, <1>5, <1>6, <1>7, <1>8, <1>9 DEF Next

\* No kick comes into the ring twice, and no job that is lost is found again.
LEMMA KicksStay ==
  ASSUME GPUTyped, GPUTyped', KicksOnce, JobStep
  PROVE  KicksOnce' /\ (SomethingLost => SomethingLost')
<1>0. /\ job \in [Jobs -> {"none", "kick", "ccb", "held", "done", "lost"}]
      /\ ccb \in Seq(Commands) /\ Len(ccb) \in Nat
  BY LenProperties DEF GPUTyped
<1>1. CASE UNCHANGED job
  <2>1. CASE ccb' = ccb
    BY <1>1, <2>1 DEF KicksOnce, SomethingLost
  <2>2. CASE ccb' = <<>>
    BY <1>1, <2>2 DEF KicksOnce, SomethingLost
  <2>3. ASSUME NEW c \in Commands \ Jobs, ccb' = Append(ccb, c)
        PROVE  KicksOnce' /\ (SomethingLost => SomethingLost')
    <3>1. /\ Len(ccb') = Len(ccb) + 1 /\ ccb'[Len(ccb) + 1] \notin Jobs
          /\ \A i \in 1..Len(ccb) : ccb'[i] = ccb[i]
      BY <1>0, <2>3, AppendProperties
    <3>2. \A i \in 1..Len(ccb') : ccb'[i] \in Jobs => i \in 1..Len(ccb)
      BY <1>0, <3>1
    <3> QED BY <1>0, <1>1, <3>1, <3>2 DEF KicksOnce, SomethingLost
  <2>4. CASE ccb # <<>> /\ ccb' = Tail(ccb)
    <3>1. Len(ccb) > 0 /\ Len(ccb') = Len(ccb) - 1 /\ \A i \in 1..Len(ccb') : ccb'[i] = ccb[i + 1]
      BY <1>0, <2>4, HeadTailProperties, EmptySeq
    <3>2. \A i \in 1..Len(ccb') : i + 1 \in 1..Len(ccb)
      BY <1>0, <3>1
    <3>3. \A i \in 1..Len(ccb') : ccb'[i] \in Jobs => job'[ccb'[i]] = "ccb"
      BY <1>1, <3>1, <3>2 DEF KicksOnce
    <3>4. ASSUME NEW i \in 1..Len(ccb'), NEW k \in 1..Len(ccb'), ccb'[i] = ccb'[k], ccb'[i] \in Jobs
          PROVE  i = k
      <4>1. i + 1 = k + 1
        BY <3>1, <3>2, <3>4 DEF KicksOnce
      <4> QED BY <4>1
    <3> QED BY <1>1, <3>3, <3>4 DEF KicksOnce, SomethingLost
  <2>5. \/ ccb' = ccb \/ ccb' = <<>>
        \/ \E c \in Commands \ Jobs : ccb' = Append(ccb, c)
        \/ ccb # <<>> /\ ccb' = Tail(ccb)
    <3>1. ASSUME NEW j \in Jobs, job[j] = "kick", job' = [job EXCEPT ![j] = "ccb"] PROVE FALSE
      BY <1>0, <1>1, <3>1
    <3> QED BY <3>1 DEF JobStep
  <2> QED BY <1>1, <2>1, <2>2, <2>3, <2>4, <2>5
<1>2. CASE ccb' = <<>> /\ job' = [j \in Jobs |-> IF job[j] = "ccb" THEN "held" ELSE job[j]]
  BY <1>2 DEF KicksOnce, SomethingLost
<1>3. CASE ccb' = ccb /\ job' = [j \in Jobs |-> IF job[j] = "kick" THEN "lost" ELSE job[j]]
  BY <1>3 DEF KicksOnce, SomethingLost
<1>4. ASSUME NEW j \in Jobs, job[j] \in {"none", "kick", "held"}, ccb' = ccb,
             NEW v, job' = [job EXCEPT ![j] = v]
      PROVE  KicksOnce' /\ (SomethingLost => SomethingLost')
  <2>1. \A k \in Jobs \ {j} : job'[k] = job[k]
    BY <1>0, <1>4
  <2>2. \A i \in 1..Len(ccb) : ccb[i] # j
    BY <1>4 DEF KicksOnce
  <2> QED BY <1>0, <1>4, <2>1, <2>2 DEF KicksOnce, SomethingLost
<1>5. ASSUME NEW j \in Jobs, job[j] = "kick", ccb' = Append(ccb, j), job' = [job EXCEPT ![j] = "ccb"]
      PROVE  KicksOnce' /\ (SomethingLost => SomethingLost')
  <2>1. /\ Len(ccb') = Len(ccb) + 1 /\ ccb'[Len(ccb) + 1] = j
        /\ \A i \in 1..Len(ccb) : ccb'[i] = ccb[i]
    BY <1>0, <1>5, AppendProperties DEF Jobs, Commands
  <2>2. (\A k \in Jobs \ {j} : job'[k] = job[k]) /\ job'[j] = "ccb"
    BY <1>0, <1>5
  <2>3. \A i \in 1..Len(ccb) : ccb[i] # j
    BY <1>5 DEF KicksOnce
  <2>4. \A i \in 1..Len(ccb') : i \in 1..Len(ccb) \/ i = Len(ccb) + 1
    BY <1>0, <2>1
  <2>5. \A i \in 1..Len(ccb') : ccb'[i] \in Jobs => job'[ccb'[i]] = "ccb"
    BY <2>1, <2>2, <2>3, <2>4 DEF KicksOnce
  <2>6. \A i, k \in 1..Len(ccb') : ccb'[i] = ccb'[k] /\ ccb'[i] \in Jobs => i = k
    BY <2>1, <2>3, <2>4 DEF KicksOnce
  <2> QED BY <1>5, <2>2, <2>5, <2>6 DEF KicksOnce, SomethingLost
<1>6. ASSUME ccb # <<>>, ccb' = Tail(ccb),
             job' = [j \in Jobs |-> IF j = Head(ccb) THEN "held" ELSE job[j]]
      PROVE  KicksOnce' /\ (SomethingLost => SomethingLost')
  <2>1. /\ Len(ccb) > 0 /\ Len(ccb') = Len(ccb) - 1 /\ Head(ccb) = ccb[1]
        /\ \A i \in 1..Len(ccb') : ccb'[i] = ccb[i + 1]
    BY <1>0, <1>6, HeadTailProperties, EmptySeq
  <2>2. \A i \in 1..Len(ccb') : i + 1 \in 1..Len(ccb) /\ i + 1 # 1
    BY <1>0, <2>1
  <2>3. 1 \in 1..Len(ccb)
    BY <1>0, <2>1
  <2>4. \A k \in Jobs : k # ccb[1] => job'[k] = job[k]
    BY <1>6, <2>1
  <2>5. \A i \in 1..Len(ccb') : ccb'[i] \in Jobs => ccb'[i] # ccb[1]
    BY <2>1, <2>2, <2>3 DEF KicksOnce
  <2>6. \A i \in 1..Len(ccb') : ccb'[i] \in Jobs => job'[ccb'[i]] = "ccb"
    BY <2>1, <2>2, <2>4, <2>5 DEF KicksOnce
  <2>7. ASSUME NEW i \in 1..Len(ccb'), NEW k \in 1..Len(ccb'), ccb'[i] = ccb'[k], ccb'[i] \in Jobs
        PROVE  i = k
    <3>1. i + 1 = k + 1
      BY <2>1, <2>2, <2>7 DEF KicksOnce
    <3> QED BY <3>1
  <2>8. SomethingLost => SomethingLost'
    BY <2>3, <2>4 DEF KicksOnce, SomethingLost
  <2> QED BY <2>6, <2>7, <2>8 DEF KicksOnce
<1> QED BY <1>1, <1>2, <1>3, <1>4, <1>5, <1>6 DEF JobStep

-----------------------------------------------------------------------------
(***************************************************************************)
(* The ring and the power-down.                                            *)
(***************************************************************************)

\* Outside a power-down.
LEMMA CalmStep ==
  ASSUME Typed, PowerInv, NEW t \in Threads, NEW r, Ordinary(t, r) \/ Enters(t, r)
  PROVE  ~Going /\ ~Going'
<1>1. CASE Ordinary(t, r)
  BY <1>1, WhoActs, WhoActed DEF Ordinary
<1>2. CASE Enters(t, r)
  BY <1>2, NobodyActs, WhoActed DEF Enters
<1> QED BY <1>1, <1>2

\* A command other than the power command is posted, or none.
LEMMA RingCalm ==
  ASSUME GPUTyped, RingStage, ~Going, ~Going', UNCHANGED <<eCurrentPowerState, gpu, ui32PowerStatus>>,
         \/ ccb' = ccb
         \/ eCurrentPowerState = "D0" /\ \E c \in Commands \ {PowerOff} : ccb' = Append(ccb, c)
  PROVE  RingStage'
<1>1. \A c \in DownCalls : ~At(c)'
  BY DEF Going
<1>2. eCurrentPowerState = "D0" => NoPowerOff(ccb')
  <2>1. SUFFICES ASSUME eCurrentPowerState = "D0" PROVE NoPowerOff(ccb')
    OBVIOUS
  <2>2. NoPowerOff(ccb) /\ ccb \in Seq(Commands) /\ Len(ccb) \in Nat
    BY <2>1, LenProperties DEF RingStage, GPUTyped
  <2>3. ASSUME NEW c \in Commands \ {PowerOff}, ccb' = Append(ccb, c) PROVE NoPowerOff(ccb')
    <3>1. /\ Len(ccb') = Len(ccb) + 1 /\ ccb'[Len(ccb) + 1] = c
          /\ \A i \in 1..Len(ccb) : ccb'[i] = ccb[i]
      BY <2>2, <2>3, AppendProperties
    <3>2. \A i \in 1..Len(ccb') : i \in 1..Len(ccb) \/ i = Len(ccb) + 1
      BY <2>2, <3>1
    <3> QED BY <2>2, <2>3, <3>1, <3>2 DEF NoPowerOff
  <2> QED BY <2>2, <2>3
<1>3. eCurrentPowerState = "D3" => Off'
  BY DEF RingStage, Off
<1>4. eCurrentPowerState = "D0" => Reading'
  BY DEF RingStage, Reading
<1> QED BY <1>1, <1>2, <1>3, <1>4 DEF RingStage, DownCalls

\* Nothing that matters to the ring happens.
LEMMA RingSame ==
  ASSUME RingStage, UNCHANGED <<todo, eCurrentPowerState, gpu, ui32PowerStatus, ccb>>
  PROVE  RingStage'
<1>1. (\A c : At(c)' <=> At(c)) /\ (Going' <=> Going)
  BY DEF At, Going
<1>2. (Off' <=> Off) /\ (Stopped' <=> Stopped) /\ (Reading' <=> Reading)
  BY DEF Off, Stopped, Reading
<1> QED BY <1>1, <1>2 DEF RingStage

\* The GPU is powered up, or not.
LEMMA RingPowerUp ==
  ASSUME Typed, PowerInv, GPUTyped, RingStage, NEW t \in Threads, SetD0(t)
  PROVE  RingStage'
<1>1. PICK call \in {"D0", "MISR_D0", "queues_D0"} : Calling(t, call)
  BY DEF SetD0
<1>2. todo[t] # <<>> /\ todo[t][1] \in PowerUps /\ todo[t][1] \notin DownCalls \cup {"SGXPrePowerState"}
  BY <1>1, CallingFirst DEF PowerUps, DownCalls
<1>3. ASSUME Return(t, <<>>) PROVE ~Going /\ ~Going'
  BY <1>2, <1>3, OverOrdinary, CalmStep
<1>4. CASE /\ eCurrentPowerState = "D0" /\ Return(t, <<>>)
           /\ UNCHANGED <<eCurrentPowerState, gpu, ui32PowerStatus, ccb>>
  BY <1>3, <1>4, RingCalm
<1>5. CASE eCurrentPowerState = "D3" /\ UNCHANGED <<eCurrentPowerState, gpu, ccb>>
  BY <1>5 DEF RingStage, Off
<1>6. CASE /\ eCurrentPowerState' = "D0" /\ Return(t, <<>>)
           /\ ui32PowerStatus' = {} /\ gpu' = "on" /\ ccb' = <<>>
  <2>1. \A c \in DownCalls : ~At(c)'
    BY <1>3, <1>6 DEF Going
  <2>2. Reading' /\ NoPowerOff(ccb')
    BY <1>6 DEF Reading, NoPowerOff
  <2> QED BY <1>6, <2>1, <2>2 DEF RingStage, DownCalls
<1> QED BY <1>4, <1>5, <1>6
        DEF SetD0, SGXPostPowerState, SGXInitialise, hostVars, flagVars, gpuVars

\* The GPU is powered down: its last command is the power command, it reads its ring
\* to the end, and is switched off.
LEMMA RingPowerDown ==
  ASSUME Typed, PowerInv, GPUTyped, eCurrentPowerState \in {"D0", "D3"}, Orderly, RingStage,
         NEW t \in Threads,
         SGXPrePowerState(t) \/ PollPowerOff(t) \/ SysDevicePrePowerState(t) \/ PostD3(t)
  PROVE  RingStage'
<1>1. ASSUME NEW c \in {"SGXPrePowerState", "poll", "SysDevicePrePowerState", "PostD3"},
             Calling(t, c)
      PROVE  /\ todo[t] # <<>> /\ todo[t][1] = c /\ HeadOK(todo[t], eCurrentPowerState, armed)
             /\ At(c) /\ (Going <=> c \in DownCalls)
  BY <1>1, CallingFirst, WhoActs DEF PowerInv
<1>2. CASE SGXPrePowerState(t)
  <2>1. todo[t] # <<>> /\ todo[t][1] = "SGXPrePowerState" /\ ~Going
    BY <1>1, <1>2 DEF SGXPrePowerState, DownCalls
  <2>2. UNCHANGED <<eCurrentPowerState, gpu, ui32PowerStatus>>
    BY <1>2 DEF SGXPrePowerState, gpuVars, flagVars
  <2>3. CASE eCurrentPowerState = "D3" /\ UNCHANGED ccb
    BY <2>2, <2>3 DEF RingStage, Off
  <2>4. ASSUME eCurrentPowerState = "D0", ccb' = Append(ccb, PowerOff), Return(t, <<>>)
        PROVE  RingStage'
    <3>1. PICK r : todo' = [todo EXCEPT ![t] = r] /\ r # <<>> /\ r[1] = "poll"
      BY <2>1, <2>4, DownStep
    <3>2. \A c : At(c)' <=> c = "poll"
      BY <2>1, <3>1, WhoActed
    <3>3. Going'
      BY <3>2 DEF Going, DownCalls
    <3>4. Reading /\ NoPowerOff(ccb) /\ ccb \in Seq(Commands) /\ Len(ccb) \in Nat
      BY <2>1, <2>4, LenProperties DEF RingStage, GPUTyped
    <3>5. PowerOff \in Commands
      BY PowerAssumption DEF PowerOff, Commands
    <3>6. /\ Len(ccb') = Len(ccb) + 1 /\ ccb'[Len(ccb) + 1] = PowerOff
          /\ \A i \in 1..Len(ccb) : ccb'[i] = ccb[i]
      BY <2>4, <3>4, <3>5, AppendProperties
    <3>7. Len(ccb') - 1 = Len(ccb) /\ ccb' # <<>>
      BY <3>4, <3>6
    <3>8. EndsInPowerOff(ccb')
      BY <3>4, <3>6, <3>7 DEF EndsInPowerOff, NoPowerOff
    <3>9. Reading'
      BY <2>2, <3>4 DEF Reading
    <3> QED BY <2>2, <2>4, <3>2, <3>3, <3>8, <3>9 DEF RingStage
  <2>5. eCurrentPowerState = "D0" => ~PostFails
    BY <2>1 DEF RingStage, Reading, PostFails
  <2> QED BY <1>2, <2>3, <2>4, <2>5 DEF SGXPrePowerState, Post
<1>3. CASE PollPowerOff(t)
  <2>1. todo[t] # <<>> /\ todo[t][1] = "poll" /\ At("poll") /\ eCurrentPowerState = "D0"
    BY <1>1, <1>3 DEF PollPowerOff, HeadOK
  <2>2. UNCHANGED <<eCurrentPowerState, gpu, ui32PowerStatus, ccb>> /\ Return(t, <<>>)
    BY <1>3 DEF PollPowerOff, gpuVars, flagVars, hostVars, Orderly
  <2>3. PICK r : todo' = [todo EXCEPT ![t] = r] /\ r # <<>> /\ r[1] = "SysDevicePrePowerState"
    BY <2>1, <2>2, DownStep
  <2>4. \A c : At(c)' <=> c = "SysDevicePrePowerState"
    BY <2>1, <2>3, WhoActed
  <2>5. Going'
    BY <2>4 DEF Going, DownCalls
  <2>6. Stopped
    BY <1>3, <2>1 DEF PollPowerOff, RingStage, Reading
  <2>7. Stopped'
    BY <2>2, <2>6 DEF Stopped
  <2> QED BY <2>1, <2>2, <2>4, <2>5, <2>7 DEF RingStage
<1>4. CASE SysDevicePrePowerState(t)
  <2>1. /\ todo[t] # <<>> /\ todo[t][1] = "SysDevicePrePowerState" /\ At("SysDevicePrePowerState")
        /\ eCurrentPowerState = "D0"
    BY <1>1, <1>4 DEF SysDevicePrePowerState, HeadOK
  <2>2. UNCHANGED <<eCurrentPowerState, ccb>> /\ gpu' = "off" /\ Return(t, <<>>)
    BY <1>4 DEF SysDevicePrePowerState, DisableSGXClocks
  <2>3. PICK r : todo' = [todo EXCEPT ![t] = r] /\ r # <<>> /\ r[1] = "PostD3"
    BY <2>1, <2>2, DownStep
  <2>4. \A c : At(c)' <=> c = "PostD3"
    BY <2>1, <2>3, WhoActed
  <2>5. Going'
    BY <2>4 DEF Going, DownCalls
  <2>6. Off'
    BY <2>1, <2>2 DEF RingStage, Stopped, Off
  <2> QED BY <2>1, <2>2, <2>4, <2>5, <2>6 DEF RingStage
<1>5. CASE PostD3(t)
  <2>1. At("PostD3")
    BY <1>1, <1>5 DEF PostD3
  <2>2. eCurrentPowerState' = "D3" /\ UNCHANGED <<gpu, ccb>>
    BY <1>5 DEF PostD3, gpuVars
  <2>3. Off'
    BY <2>1, <2>2 DEF RingStage, Off
  <2> QED BY <2>2, <2>3 DEF RingStage
<1> QED BY <1>2, <1>3, <1>4, <1>5

\* The GPU reads its ring.
LEMMA RingRead ==
  ASSUME GPUTyped, eCurrentPowerState \in {"D0", "D3"}, RingStage, GPURead
  PROVE  RingStage'
<1>1. UNCHANGED <<todo, eCurrentPowerState>> /\ gpu = "on" /\ ccb # <<>> /\ ccb' = Tail(ccb)
  BY DEF GPURead, hostVars
<1>2. (\A c : At(c)' <=> At(c)) /\ (Going' <=> Going)
  BY <1>1 DEF At, Going
<1>3. eCurrentPowerState = "D0" /\ ~At("SysDevicePrePowerState") /\ ~At("PostD3")
  BY <1>1 DEF RingStage, Off, Stopped
<1>4. Going <=> At("poll")
  BY <1>3 DEF Going, DownCalls
<1>5. /\ Len(ccb) \in Nat /\ Len(ccb) > 0 /\ Head(ccb) = ccb[1]
      /\ Len(ccb') = Len(ccb) - 1 /\ \A i \in 1..Len(ccb') : ccb'[i] = ccb[i + 1]
      /\ ccb' \in Seq(Commands)
  BY <1>1, HeadTailProperties, EmptySeq, LenProperties DEF GPUTyped
<1>6. ccb[1] # PowerOff => UNCHANGED <<gpu, ui32PowerStatus>>
  BY <1>5 DEF GPURead
<1>7. ccb[1] = PowerOff => gpu' = "halted"
  BY <1>5 DEF GPURead
<1>8. CASE ~Going
  <2>1. Reading /\ NoPowerOff(ccb)
    BY <1>3, <1>8 DEF RingStage
  <2>2. ccb[1] # PowerOff
    BY <1>5, <2>1 DEF NoPowerOff
  <2>3. Reading'
    BY <1>6, <2>1, <2>2 DEF Reading
  <2>4. \A i \in 1..Len(ccb') : i + 1 \in 1..Len(ccb)
    BY <1>5
  <2>5. NoPowerOff(ccb')
    BY <1>5, <2>1, <2>4 DEF NoPowerOff
  <2> QED BY <1>1, <1>2, <1>3, <1>4, <1>8, <2>3, <2>5 DEF RingStage
<1>9. CASE Going
  <2>1. Reading /\ EndsInPowerOff(ccb)
    BY <1>1, <1>3, <1>4, <1>9 DEF RingStage, Stopped
  <2>2. CASE Len(ccb) = 1
    <3>1. ccb' = <<>>
      BY <1>5, <2>2, EmptySeq
    <3>2. Stopped'
      BY <1>7, <2>1, <2>2, <3>1 DEF EndsInPowerOff, Stopped
    <3> QED BY <1>1, <1>2, <1>3, <1>9, <3>2 DEF RingStage
  <2>3. CASE Len(ccb) > 1
    <3>1. 1 \in 1..(Len(ccb) - 1)
      BY <1>5, <2>3
    <3>2. Reading'
      BY <1>6, <2>1, <3>1 DEF EndsInPowerOff, Reading
    <3>3. \A i \in 1..(Len(ccb') - 1) : i \in 1..Len(ccb') /\ i + 1 \in 1..(Len(ccb) - 1)
      BY <1>5, <2>3
    <3>4. ccb'[Len(ccb')] = ccb[Len(ccb)] /\ ccb' # <<>>
      BY <1>5, <2>3
    <3>5. EndsInPowerOff(ccb')
      BY <1>5, <2>1, <3>3, <3>4 DEF EndsInPowerOff
    <3> QED BY <1>1, <1>2, <1>3, <1>9, <3>2, <3>5 DEF RingStage
  <2> QED BY <1>5, <2>2, <2>3
<1> QED BY <1>8, <1>9

\* The calls outside a power-down post their commands to a GPU that is powered.
LEMMA RingCalls ==
  ASSUME Typed, PowerInv, GPUTyped, Orderly, RingStage,
         \/ \E t \in Threads : \/ pvr_dev_lock(t) \/ pvr_dev_unlock(t)
                               \/ SGXScheduleProcessQueues(t) \/ PostProcess(t)
         \/ Tick \/ Requeue \/ \E j \in Jobs : Kick(j)
         \/ SGXTestActivePowerEvent \/ SGXPostActivePowerEvent \/ TestHWR \/ HWRecoveryResetSGX
         \/ SystemPostPowerState
  PROVE  RingStage'
<1>0. /\ Process \in Commands \ {PowerOff} /\ \A j \in Jobs : j \in Commands \ {PowerOff}
      /\ "lock" \in Threads /\ "pm" \in Threads
  BY PowerAssumption DEF Process, PowerOff, Commands, Jobs, Threads
<1>1. ~Going /\ ~Going'
  BY <1>0, StepOrdinary, LockOrdinary, SystemOrdinary, CalmStep
<1>2. ASSUME NEW t \in Threads, NEW c \in {"process", "kick", "HWRecoveryResetSGX"}, Calling(t, c)
      PROVE  eCurrentPowerState = "D0"
  <2>1. todo[t] # <<>> /\ todo[t][1] = c /\ HeadOK(todo[t], eCurrentPowerState, armed)
    BY <1>2, CallingFirst DEF PowerInv
  <2> QED BY <2>1 DEF HeadOK, Powered
<1>3. ASSUME UNCHANGED <<eCurrentPowerState, gpu, ui32PowerStatus>>,
             \/ ccb' = ccb
             \/ eCurrentPowerState = "D0" /\ \E c \in Commands \ {PowerOff} : ccb' = Append(ccb, c)
      PROVE  RingStage'
  BY <1>1, <1>3, RingCalm
<1>4. ASSUME NEW t \in Threads, PostProcess(t) PROVE RingStage'
  BY <1>0, <1>2, <1>3, <1>4 DEF PostProcess, Post, hostVars, gpuVars, flagVars
<1>5. ASSUME NEW j \in Jobs, Kick(j) PROVE RingStage'
  BY <1>0, <1>2, <1>3, <1>5 DEF Kick, Post, hostVars, gpuVars, flagVars
<1>6. CASE HWRecoveryResetSGX
  <2>1. eCurrentPowerState = "D0" /\ Reading
    BY <1>0, <1>1, <1>2, <1>6 DEF HWRecoveryResetSGX, RingStage
  <2>2. UNCHANGED <<eCurrentPowerState, ui32PowerStatus>> /\ gpu' = "on" /\ ccb' = <<>>
    BY <1>6 DEF HWRecoveryResetSGX, SGXInitialise, Orderly
  <2>3. Reading' /\ NoPowerOff(ccb')
    BY <2>1, <2>2 DEF Reading, NoPowerOff
  <2>4. \A c \in DownCalls : ~At(c)'
    BY <1>1 DEF Going
  <2> QED BY <2>1, <2>2, <2>3, <2>4 DEF RingStage, DownCalls
<1>7. ASSUME NEW t \in Threads, pvr_dev_lock(t) \/ pvr_dev_unlock(t) \/ SGXScheduleProcessQueues(t)
      PROVE  RingStage'
  BY <1>3, <1>7 DEF pvr_dev_lock, pvr_dev_unlock, SGXScheduleProcessQueues, hostVars, gpuVars, flagVars
<1>8. CASE \/ Tick \/ Requeue \/ SGXTestActivePowerEvent \/ SGXPostActivePowerEvent \/ TestHWR
           \/ SystemPostPowerState
  BY <1>3, <1>8 DEF Tick, Requeue, SGXTestActivePowerEvent, SGXPostActivePowerEvent, TestHWR,
                    SystemPostPowerState, hostVars, gpuVars, flagVars
<1> QED BY <1>4, <1>5, <1>6, <1>7, <1>8

\* The ring is emptied by every power-down.
LEMMA RingKept ==
  ASSUME PInv, Orderly, RingStage, ~SomethingLost', GPUTyped', [Next]_vars
  PROVE  RingStage'
<1>1. Typed /\ GPUTyped /\ PowerInv /\ eCurrentPowerState \in {"D0", "D3"} /\ ~PMRaces
  BY DEF PInv, TypeOK, Typed, GPUTyped, Orderly
<1>2. ASSUME NEW t \in Threads, Step(t) PROVE RingStage'
  BY <1>1, <1>2, RingPowerUp, RingPowerDown, RingCalls DEF Step
<1>3. "lock" \in Threads /\ "pm" \in Threads
  BY DEF Threads
<1>4. CASE LockStep \/ PMStep
  BY <1>1, <1>2, <1>3, <1>4, RingCalls DEF LockStep, PMStep
<1>5. ASSUME NEW j \in Jobs, GPUHang(j) PROVE FALSE
  <2>1. job'[j] = "lost"
    BY <1>1, <1>5 DEF GPUHang, GPUTyped
  <2> QED BY <2>1 DEF SomethingLost
<1>6. CASE GPU \/ Timer \/ UNCHANGED vars
  <2>1. CASE GPURead
    BY <1>1, <2>1, RingRead
  <2>2. CASE \/ GPURest \/ (\E j \in Jobs : GPURun(j)) \/ TimerExpires \/ WorkerStarts
             \/ UNCHANGED vars
    <3>1. UNCHANGED <<todo, eCurrentPowerState, gpu, ui32PowerStatus, ccb>>
      BY <2>2 DEF GPURest, GPURun, TimerExpires, WorkerStarts, vars, hostVars, gpuVars, flagVars
    <3> QED BY <3>1, RingSame
  <2> QED BY <1>6, <2>1, <2>2 DEF GPU, Timer
<1>7. CASE \/ \E j \in Jobs, waits \in BOOLEAN : SGXScheduleCCBCommandKM(j, waits)
           \/ \E j \in Jobs : FlipCompletes(j)
           \/ SGX_MISRHandler \/ pvr_debugfs_reset \/ pvr_suspend \/ pvr_resume
           \/ SGXOSTimer
  <2>1. UNCHANGED <<eCurrentPowerState, gpu, ui32PowerStatus, ccb>>
    BY <1>7 DEF SGXScheduleCCBCommandKM, FlipCompletes, SGX_MISRHandler, pvr_debugfs_reset,
                pvr_suspend, pvr_resume, SGXOSTimer, hostVars, gpuVars, flagVars
  <2>2. CASE UNCHANGED todo
    BY <2>1, <2>2, RingSame
  <2>3. ASSUME NEW t \in Threads, NEW r, Enters(t, r) PROVE RingStage'
    BY <1>1, <2>1, <2>3, CalmStep, RingCalm
  <2> QED BY <1>1, <1>7, <2>2, <2>3, EntriesEnter
<1> QED BY <1>4, <1>5, <1>6, <1>7 DEF Next

-----------------------------------------------------------------------------
(***************************************************************************)
(* The lock-up timer.                                                      *)
(***************************************************************************)

\* No power-down comes between the tick and the requeue.
TicksAlone ==
  "requeue" \in Makes(todo["lock"]) => armed /\ Makes(todo["lock"]) \subseteq TickCalls

\* A call outside a power-down, or an entry, brings none in between.
LEMMA CalmTicks ==
  ASSUME Typed, PowerInv, TicksAlone, armed => armed',
         NEW t \in Threads, NEW r, Ordinary(t, r) \/ Enters(t, r)
  PROVE  TicksAlone'
<1>1. todo'["lock"] = IF t = "lock" THEN r ELSE <<>>
  BY WhoActed DEF Ordinary, Enters
<1>2. CASE t # "lock"
  <2>1. Makes(todo'["lock"]) = {}
    BY <1>1, <1>2, MakesParts
  <2> QED BY <2>1 DEF TicksAlone
<1>3. CASE t = "lock" /\ Enters(t, r)
  BY <1>1, <1>3 DEF Enters, TicksAlone
<1>4. CASE t = "lock" /\ Ordinary(t, r)
  <2>1. SUFFICES ASSUME "requeue" \in Makes(r) PROVE armed' /\ Makes(r) \subseteq TickCalls
    BY <1>1, <1>4 DEF TicksAlone
  <2>2. armed /\ Makes(todo[t]) \subseteq TickCalls
    BY <1>4, <2>1 DEF Ordinary, TicksAlone
  <2>3. todo[t] \in Seq(Calls) /\ todo[t] # <<>>
    BY <1>4 DEF Typed, Ordinary
  <2>4. todo[t][1] \in Makes(todo[t])
    BY <2>3, MakesRest
  <2>5. Makes(r) \subseteq TickCalls
    BY <1>4, <2>2, <2>4 DEF Ordinary
  <2> QED BY <2>2, <2>5
<1> QED BY <1>2, <1>3, <1>4

\* The calls of a power-down are not among those of the timer.
LEMMA DownTicks ==
  ASSUME Typed, PowerInv, TicksAlone, NEW t \in Threads, todo[t] # <<>>,
         todo[t][1] \in DownCalls \cup {"SGXPrePowerState"},
         NEW r, todo' = [todo EXCEPT ![t] = r], Makes(r) \subseteq Makes(todo[t])
  PROVE  TicksAlone'
<1>1. todo'["lock"] = IF t = "lock" THEN r ELSE <<>>
  BY WhoActed
<1>2. CASE t # "lock"
  <2>1. Makes(todo'["lock"]) = {}
    BY <1>1, <1>2, MakesParts
  <2> QED BY <2>1 DEF TicksAlone
<1>3. CASE t = "lock"
  <2>1. todo[t][1] \in Makes(todo[t])
    BY MakesRest DEF Typed
  <2>2. todo[t][1] \notin TickCalls
    BY DEF TickCalls, DownCalls
  <2>3. "requeue" \notin Makes(todo[t])
    BY <1>3, <2>1, <2>2 DEF TicksAlone
  <2>4. "requeue" \notin Makes(todo'["lock"])
    BY <1>1, <1>3, <2>3
  <2> QED BY <2>4 DEF TicksAlone
<1> QED BY <1>2, <1>3

\* A step outside a power-down that leaves the timer alone.
LEMMA TimerCalm ==
  ASSUME Typed, PowerInv, TimerInv, NEW t \in Threads, NEW r, Ordinary(t, r) \/ Enters(t, r),
         UNCHANGED <<eCurrentPowerState, armed, work, worker, pvr_disabled>>
  PROVE  TimerInv'
<1>1. ~Going
  BY CalmStep
<1>2. TicksAlone'
  BY CalmTicks DEF TimerInv, TicksAlone
<1> QED BY <1>1, <1>2 DEF TimerInv, TicksAlone

\* The timer is armed when the GPU is powered up.
LEMMA TimerPowerUp ==
  ASSUME Typed, PowerInv, TimerInv, NEW t \in Threads, SetD0(t)
  PROVE  TimerInv'
<1>1. PICK call \in {"D0", "MISR_D0", "queues_D0"} : Calling(t, call)
  BY DEF SetD0
<1>2. /\ todo[t] # <<>> /\ todo[t][1] \in PowerUps
      /\ todo[t][1] \notin DownCalls \cup {"SGXPrePowerState"}
      /\ todo[t][1] \notin TickCalls \/ todo[t][1] = "queues_D0"
  BY <1>1, CallingFirst DEF PowerUps, DownCalls, TickCalls
<1>3. PICK r : Ordinary(t, r)
  <2>1. Return(t, <<>>) \/ PowerUpFails(t)
    BY DEF SetD0
  <2> QED BY <1>2, <2>1, OverOrdinary, PowerUpFailsOrdinary
<1>4. CASE UNCHANGED <<eCurrentPowerState, armed, work, worker, pvr_disabled>>
  BY <1>3, <1>4, TimerCalm
<1>5. CASE /\ eCurrentPowerState = "D3" /\ SGXOSTimerEnable /\ UNCHANGED <<worker, pvr_disabled>>
  <2>1. ~armed /\ work = "none"
    BY <1>5 DEF PowerInv, ArmedMeansPowered, TimerInv
  <2>2. armed' /\ work' = "timer"
    BY <1>5, <2>1 DEF SGXOSTimerEnable
  <2>3. TicksAlone'
    BY <1>3, <2>2, CalmTicks DEF TimerInv, TicksAlone
  <2> QED BY <1>5, <2>2, <2>3 DEF TimerInv, TicksAlone
<1> QED BY <1>4, <1>5 DEF SetD0, SGXPostPowerState, hostVars, timerVars

\* The timer and its work item are cancelled by a power-down, which goes on to the end.
LEMMA TimerPowerDown ==
  ASSUME Typed, PowerInv, Orderly, CancelQueued, TimerInv, RoomForPower, NEW t \in Threads,
         SGXPrePowerState(t) \/ PollPowerOff(t) \/ SysDevicePrePowerState(t) \/ PostD3(t)
  PROVE  TimerInv'
<1>1. ASSUME NEW c \in {"SGXPrePowerState", "poll", "SysDevicePrePowerState", "PostD3"},
             Calling(t, c), Return(t, <<>>)
      PROVE  /\ TicksAlone'
             /\ c # "PostD3" => Going'
  <2>1. todo[t] # <<>> /\ todo[t][1] = c
    BY <1>1, CallingFirst
  <2>2. PICK r : /\ todo' = [todo EXCEPT ![t] = r] /\ Makes(r) \subseteq Makes(todo[t])
                 /\ c # "PostD3" => r # <<>> /\ r[1] \in DownCalls
    BY <1>1, <2>1, DownStep DEF DownCalls
  <2>3. todo[t][1] \in DownCalls \cup {"SGXPrePowerState"}
    BY <2>1 DEF DownCalls
  <2>4. TicksAlone'
    BY <2>1, <2>2, <2>3, DownTicks DEF TimerInv, TicksAlone
  <2>5. c # "PostD3" => Going'
    BY <2>1, <2>2, WhoActed
  <2> QED BY <2>4, <2>5
<1>2. CASE SGXPrePowerState(t)
  <2>1. todo[t] # <<>> /\ todo[t][1] = "SGXPrePowerState" /\ Calling(t, "SGXPrePowerState")
    BY <1>2, CallingFirst DEF SGXPrePowerState
  <2>2. UNCHANGED <<eCurrentPowerState, worker, pvr_disabled>>
    BY <1>2 DEF SGXPrePowerState
  <2>3. CASE /\ eCurrentPowerState = "D3" /\ UNCHANGED <<armed, work>>
             /\ todo' = [todo EXCEPT ![t] = SubSeq(@, 4, Len(@))]
    <3>1. PICK r : r = SubSeq(todo[t], 4, Len(todo[t]))
      OBVIOUS
    <3>2. todo' = [todo EXCEPT ![t] = r] /\ Makes(r) \subseteq Makes(todo[t])
      BY <2>1, <2>3, <3>1, MakesRest DEF Typed
    <3>3. TicksAlone'
      BY <2>1, <3>2, DownTicks DEF TimerInv, TicksAlone
    <3> QED BY <2>2, <2>3, <3>3 DEF TimerInv, TicksAlone
  <2>4. CASE eCurrentPowerState = "D0" /\ SGXOSTimerCancel /\ Return(t, <<>>)
    <3>1. ~armed' /\ work' = "none"
      BY <2>4 DEF SGXOSTimerCancel
    <3>2. TicksAlone' /\ Going'
      BY <1>1, <2>1, <2>4
    <3> QED BY <2>2, <3>1, <3>2 DEF TimerInv, TicksAlone
  <2>5. eCurrentPowerState = "D0" => ~PostFails
    BY <2>1 DEF RoomForPower
  <2> QED BY <1>2, <2>3, <2>4, <2>5 DEF SGXPrePowerState
<1>3. CASE PollPowerOff(t) \/ SysDevicePrePowerState(t)
  <2>1. UNCHANGED <<eCurrentPowerState, armed, work, worker, pvr_disabled>>
    BY <1>3 DEF PollPowerOff, SysDevicePrePowerState, hostVars, timerVars
  <2>2. TicksAlone' /\ Going'
    BY <1>1, <1>3 DEF PollPowerOff, SysDevicePrePowerState, Orderly
  <2> QED BY <2>1, <2>2 DEF TimerInv, TicksAlone
<1>4. CASE PostD3(t)
  <2>1. UNCHANGED <<armed, work, worker, pvr_disabled>> /\ eCurrentPowerState' = "D3"
    BY <1>4 DEF PostD3, timerVars
  <2>2. TicksAlone'
    BY <1>1, <1>4 DEF PostD3
  <2> QED BY <2>1, <2>2 DEF TimerInv, TicksAlone
<1> QED BY <1>2, <1>3, <1>4

\* The calls outside a power-down: only the requeue touches the timer.
LEMMA TimerCalls ==
  ASSUME Typed, PowerInv, Orderly, TimerInv,
         \/ \E t \in Threads : \/ pvr_dev_lock(t) \/ pvr_dev_unlock(t)
                               \/ SGXScheduleProcessQueues(t) \/ PostProcess(t)
         \/ Tick \/ Requeue \/ \E j \in Jobs : Kick(j)
         \/ SGXTestActivePowerEvent \/ SGXPostActivePowerEvent \/ TestHWR \/ HWRecoveryResetSGX
         \/ SystemPostPowerState
  PROVE  TimerInv'
<1>0. "lock" \in Threads /\ "pm" \in Threads
  BY DEF Threads
<1>1. PICK t \in Threads : \E r : Ordinary(t, r)
  BY <1>0, StepOrdinary, LockOrdinary, SystemOrdinary
<1>2. PICK r : Ordinary(t, r)
  BY <1>1
<1>3. CASE Requeue
  <2>1. todo["lock"] # <<>> /\ todo["lock"][1] = "requeue"
    BY <1>0, <1>3, CallingFirst DEF Requeue
  <2>2. "requeue" \in Makes(todo["lock"])
    BY <1>0, <2>1, MakesRest DEF Typed
  <2>3. armed /\ armed' = armed /\ work' # "none" /\ UNCHANGED <<eCurrentPowerState, pvr_disabled>>
    BY <1>3, <2>2 DEF TimerInv, Requeue
  <2>4. TicksAlone'
    BY <1>2, <2>3, CalmTicks DEF TimerInv, TicksAlone
  <2> QED BY <2>3, <2>4 DEF TimerInv, TicksAlone
<1>4. CASE UNCHANGED <<eCurrentPowerState, armed, work, worker, pvr_disabled>>
  BY <1>2, <1>4, TimerCalm
<1>5. CASE \E u \in Threads : \/ pvr_dev_lock(u) \/ pvr_dev_unlock(u)
                              \/ SGXScheduleProcessQueues(u) \/ PostProcess(u)
  BY <1>4, <1>5 DEF pvr_dev_lock, pvr_dev_unlock, SGXScheduleProcessQueues, PostProcess, hostVars,
                    timerVars
<1>6. CASE \/ Tick \/ (\E j \in Jobs : Kick(j))
           \/ SGXTestActivePowerEvent \/ SGXPostActivePowerEvent \/ TestHWR \/ HWRecoveryResetSGX
           \/ SystemPostPowerState
  BY <1>4, <1>6 DEF Tick, Kick, SGXTestActivePowerEvent, SGXPostActivePowerEvent, TestHWR,
                    HWRecoveryResetSGX, SystemPostPowerState, hostVars, timerVars, Orderly
<1> QED BY <1>3, <1>5, <1>6

\* The timer stays armed while the GPU is powered.
LEMMA TimerKept ==
  ASSUME PInv, Orderly, CancelQueued, TimerInv, RoomForPower, [Next]_vars
  PROVE  TimerInv'
<1>1. Typed /\ PowerInv /\ ~PMRaces
  BY DEF PInv, TypeOK, Typed, Orderly
<1>2. ASSUME NEW t \in Threads, Step(t) PROVE TimerInv'
  BY <1>1, <1>2, TimerPowerUp, TimerPowerDown, TimerCalls DEF Step
<1>3. "lock" \in Threads /\ "pm" \in Threads
  BY DEF Threads
<1>4. CASE LockStep \/ PMStep
  BY <1>1, <1>2, <1>3, <1>4, TimerCalls DEF LockStep, PMStep
<1>5. ASSUME UNCHANGED <<todo, eCurrentPowerState, armed, pvr_disabled>>,
             ~armed => work' = "none",
             armed => work' # "none" \/ worker' # "none"
      PROVE  TimerInv'
  <2>1. Going' <=> Going
    BY <1>5 DEF Going, At
  <2> QED BY <1>5, <2>1 DEF TimerInv
<1>6. CASE GPU \/ (\E j \in Jobs : GPUHang(j)) \/ UNCHANGED vars
  <2>1. UNCHANGED <<todo, eCurrentPowerState, armed, work, worker, pvr_disabled>>
    BY <1>6 DEF GPU, GPURead, GPURest, GPURun, GPUHang, vars, hostVars, timerVars
  <2> QED BY <1>5, <2>1 DEF TimerInv
<1>7. CASE Timer
  BY <1>5, <1>7 DEF Timer, TimerExpires, WorkerStarts, TimerInv
<1>8. CASE SGXOSTimer
  <2>1. CASE armed /\ worker' = "running"
    <3>1. UNCHANGED <<eCurrentPowerState, armed, work, pvr_disabled>>
      BY <1>8 DEF SGXOSTimer
    <3>2. CASE UNCHANGED todo
      BY <1>5, <2>1, <3>1, <3>2
    <3>3. ASSUME NEW t \in Threads, NEW r, Enters(t, r) PROVE TimerInv'
      <4>1. TicksAlone'
        BY <1>1, <3>1, <3>3, CalmTicks DEF TimerInv, TicksAlone
      <4> QED BY <2>1, <3>1, <4>1 DEF TimerInv, TicksAlone
    <3> QED BY <1>1, <1>8, <3>2, <3>3, EntriesEnter
  <2>2. CASE ~armed /\ UNCHANGED todo
    BY <1>5, <1>8, <2>2 DEF SGXOSTimer, TimerInv
  <2> QED BY <1>8, <2>1, <2>2 DEF SGXOSTimer, TimerInv
<1>9. CASE \/ \E j \in Jobs, waits \in BOOLEAN : SGXScheduleCCBCommandKM(j, waits)
           \/ \E j \in Jobs : FlipCompletes(j)
           \/ SGX_MISRHandler \/ pvr_debugfs_reset \/ pvr_suspend \/ pvr_resume
  <2>1. UNCHANGED <<eCurrentPowerState, armed, work, worker, pvr_disabled>>
    BY <1>9 DEF SGXScheduleCCBCommandKM, FlipCompletes, SGX_MISRHandler, pvr_debugfs_reset,
                pvr_suspend, pvr_resume, hostVars, timerVars
  <2>2. CASE UNCHANGED todo
    BY <1>5, <2>1, <2>2 DEF TimerInv
  <2>3. ASSUME NEW t \in Threads, NEW r, Enters(t, r) PROVE TimerInv'
    BY <1>1, <2>1, <2>3, TimerCalm
  <2> QED BY <1>1, <1>9, <2>2, <2>3, EntriesEnter
<1> QED BY <1>4, <1>6, <1>7, <1>8, <1>9 DEF Next

-----------------------------------------------------------------------------
(***************************************************************************)
(* A GPU at rest.                                                          *)
(***************************************************************************)

\* A GPU that has not locked up, and every job of which was taken, is watched too.
RestInv == RingInv /\ (Orderly /\ CancelQueued => SomethingLost \/ TimerInv)

\* The invariant of the ring and the timer: until a job is lost every power-down empties
\* the ring, and the timer watches the GPU up to it.
THEOREM RestInvariance == Spec => []RestInv
<1>1. Init => RestInv
  <2>1. SUFFICES ASSUME Init PROVE RestInv
    OBVIOUS
  <2>2. KicksOnce
    BY <2>1 DEF Init, KicksOnce
  <2>3. RingStage
    BY <2>1 DEF Init, RingStage, Off
  <2>4. todo["lock"] = <<>>
    BY <2>1 DEF Init, Threads
  <2>5. Makes(todo["lock"]) = {}
    BY <2>4, MakesParts
  <2>6. TimerInv
    BY <2>1, <2>5 DEF Init, TimerInv
  <2> QED BY <2>2, <2>3, <2>6 DEF RestInv, RingInv
<1>2. PInv /\ PInv' /\ RestInv /\ [Next]_vars => RestInv'
  <2>1. SUFFICES ASSUME PInv, PInv', RestInv, [Next]_vars PROVE RestInv'
    OBVIOUS
  <2>2. GPUTyped /\ GPUTyped'
    BY <2>1 DEF PInv, TypeOK, GPUTyped
  <2>3. KicksOnce' /\ (SomethingLost => SomethingLost')
    BY <2>1, <2>2, EveryJobStep, KicksStay DEF RestInv, RingInv
  <2>4. ASSUME Orderly, ~SomethingLost'
        PROVE  RingStage' /\ (CancelQueued => TimerInv')
    <3>1. RingStage /\ ~SomethingLost
      BY <2>1, <2>3, <2>4 DEF RestInv, RingInv
    <3>2. RingStage'
      BY <2>1, <2>2, <2>4, <3>1, RingKept
    <3>3. RoomForPower
      <4>1. SUFFICES ASSUME NEW t \in Threads, todo[t] # <<>>, todo[t][1] = "SGXPrePowerState",
                            eCurrentPowerState = "D0"
                     PROVE  ~PostFails
        BY DEF RoomForPower
      <4>2. Typed /\ PowerInv
        BY <2>1, <2>4 DEF PInv, TypeOK, Typed, Orderly
      <4>3. ~Going
        BY <4>1, <4>2, WhoActs DEF DownCalls
      <4> QED BY <3>1, <4>1, <4>3 DEF RingStage, Reading, PostFails
    <3>4. ASSUME CancelQueued PROVE TimerInv'
      BY <2>1, <2>4, <3>1, <3>3, <3>4, TimerKept DEF RestInv
    <3> QED BY <3>2, <3>4
  <2> QED BY <2>3, <2>4 DEF RestInv, RingInv
<1> QED BY <1>1, <1>2, Invariance, PTL DEF Spec

\* What the ring's stages and the timer's invariant say of a GPU at rest.
LEMMA AtRest ==
  ASSUME PInv
  PROVE  /\ RingStage => RingDrained
         /\ TimerInv => TimerRuns
<1>1. ASSUME RingStage, gpu = "off" PROVE ccb = <<>>
  <2>1. eCurrentPowerState \in {"D0", "D3"}
    BY DEF PInv, TypeOK
  <2>2. CASE eCurrentPowerState = "D3"
    BY <1>1, <2>2 DEF RingStage, Off
  <2>3. CASE eCurrentPowerState = "D0"
    <3>1. At("PostD3")
      BY <1>1, <2>3 DEF RingStage, Reading, Stopped, Going, DownCalls
    <3> QED BY <1>1, <2>3, <3>1 DEF RingStage, Off
  <2> QED BY <2>1, <2>2, <2>3
<1>2. TimerInv => TimerRuns
  BY NobodyActs DEF TimerInv, TimerRuns, Threads
<1> QED BY <1>1, <1>2 DEF RingDrained

\* A GPU that is switched off has read every command of its ring, as the PVR_ASSERT at
\* the end of SGXInitialise says, or it had locked up or lost a kick: for every size of
\* the ring, whatever fails on the way up, and although the timer may run late.
THEOREM DrainsRing == Spec => [](Orderly => RingDrained)
<1>1. PInv /\ RestInv => (Orderly => RingDrained)
  BY AtRest DEF RestInv, RingInv, RingDrained
<1> QED BY <1>1, Invariance, RestInvariance, PTL

\* The driver leaves the GPU off with an empty ring, or powered and watched by the
\* lock-up timer, if the power command always finds a slot of the ring or a GPU that
\* reads; lock-ups are no exception.
THEOREM RestsSafely == Spec /\ []RoomForPower => [](Orderly /\ CancelQueued => RestIsSafe)
<1>1. Init => (Orderly /\ CancelQueued => TimerInv)
  <2>1. SUFFICES ASSUME Init PROVE TimerInv
    OBVIOUS
  <2>2. todo["lock"] = <<>>
    BY <2>1 DEF Init, Threads
  <2>3. Makes(todo["lock"]) = {}
    BY <2>2, MakesParts
  <2> QED BY <2>1, <2>3 DEF Init, TimerInv
<1>2. /\ PInv /\ RoomForPower /\ (Orderly /\ CancelQueued => TimerInv) /\ [Next]_vars
      => (Orderly /\ CancelQueued => TimerInv)'
  BY TimerKept
<1>3. /\ PInv /\ (Orderly => RingDrained) /\ (Orderly /\ CancelQueued => TimerInv)
      => (Orderly /\ CancelQueued => RestIsSafe)
  BY AtRest DEF RestIsSafe
<1> QED BY <1>1, <1>2, <1>3, Invariance, DrainsRing, PTL DEF Spec

\* As long as no job has locked the GPU up or was given up, nothing at all is asked of
\* the ring: the power command finds a GPU that reads.
THEOREM RestsSafelyUnlost ==
  Spec => [](Orderly /\ CancelQueued /\ ~SomethingLost => RestIsSafe)
<1>1. PInv /\ RestInv => (Orderly /\ CancelQueued /\ ~SomethingLost => RestIsSafe)
  BY AtRest DEF RestInv, RingInv, RestIsSafe
<1> QED BY <1>1, Invariance, RestInvariance, PTL
=============================================================================
