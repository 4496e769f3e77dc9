----------------------------- MODULE UplinkProofs -----------------------------
(***************************************************************************)
(* What holds of Uplink for every number of instances of iwag-d, every     *)
(* setting of max_w4n_fails and every number of attempts.                  *)
(***************************************************************************)
EXTENDS Uplink, TLAPS

Instances == [pc : {"off", "ask", "sleep", "done"}, tried : 0..Attempts]

LEMMA NoLoopType == NoLoop \in [Loops -> Instances]
<1>1. [pc |-> "off", tried |-> 0] \in Instances
  BY UplinkAssumption DEF Instances
<1> QED BY <1>1 DEF NoLoop

\* TypeOK but for the instances of iwag-d.
RestOK ==
    /\ lease \in BOOLEAN /\ inet \in BOOLEAN /\ mesh \in BOOLEAN
    /\ role \in {"gateway", "repeater"}
    /\ phase \in {"dhcp", "inet", "route", "up"}
    /\ udhcpc \in BOOLEAN /\ stray \in BOOLEAN
    /\ check \in {"idle", "udhcpc", "uplink", "update", "stuck"}
    /\ failures \in 0..MaxMarks
    /\ reasons \subseteq Reasons
    /\ events \in 0..MaxEvents

LEMMA TypeParts == /\ TypeOK <=> RestOK /\ loop \in [Loops -> Instances]
                   /\ TypeOK' <=> RestOK' /\ loop' \in [Loops -> Instances]
  BY Zenon DEF TypeOK, RestOK, Instances

LEMMA Marks == /\ 0 \in 0..MaxMarks /\ 0 \in 0..MaxEvents
               /\ RestOK => Marked \in 0..MaxMarks
  BY UplinkAssumption DEF MaxMarks, Marked, RestOK

LEMMA TypeInit == Init => TypeOK
<1> SUFFICES ASSUME Init PROVE RestOK
  BY NoLoopType, TypeParts DEF Init
<1> QED BY Marks DEF Init, RestOK

LEMMA BootType == RestOK /\ Boot => RestOK' /\ loop' = loop
<1> SUFFICES ASSUME RestOK, Boot PROVE RestOK' /\ loop' = loop
  OBVIOUS
<1> USE DEF RestOK, world, node, DoReboot, Reasons
<1>1. CASE DetectLease
  BY <1>1 DEF DetectLease
<1>2. CASE DetectInet
  BY <1>2 DEF DetectInet
<1>3. CASE RouteFound
  BY <1>3 DEF RouteFound
<1>4. CASE RouteTimeout
  BY <1>4 DEF RouteTimeout
<1> QED BY <1>1, <1>2, <1>3, <1>4 DEF Boot

LEMMA CheckType == RestOK /\ Check => RestOK' /\ (GatewayBad \/ loop' = loop)
<1> SUFFICES ASSUME RestOK, Check PROVE RestOK' /\ (GatewayBad \/ loop' = loop)
  OBVIOUS
<1> USE Marks DEF RestOK, world, node, DoReboot, Reasons
<1>1. CASE CheckStart
  BY <1>1 DEF CheckStart
<1>2. CASE UdhcpcTest
  BY <1>2 DEF UdhcpcTest
<1>3. CASE UplinkGood
  BY <1>3 DEF UplinkGood
<1>4. CASE GatewayBad
  BY <1>4 DEF GatewayBad
<1>5. CASE RepeaterBad
  BY <1>5 DEF RepeaterBad
<1>6. CASE Update
  BY <1>6 DEF Update
<1> QED BY <1>1, <1>2, <1>3, <1>4, <1>5, <1>6 DEF Check

LEMMA EventType == RestOK /\ Event => events' \in 0..MaxEvents
  BY UplinkAssumption DEF RestOK, Event

\* The outside world, and cron's test on a repeater.
LEMMA WorldType ==
    ASSUME RestOK, IwagTest \/ WorldChanges \/ UdhcpcDies \/ BadLease \/ CheckKill
    PROVE  RestOK' /\ loop' = loop
<1> USE EventType DEF RestOK, world, node, DoReboot, Reasons
<1>1. CASE IwagTest
  BY <1>1 DEF IwagTest
<1>2. CASE WorldChanges
  <2>1. lease' \in BOOLEAN /\ inet' \in BOOLEAN /\ mesh' \in BOOLEAN
    BY <1>2, Zenon DEF WorldChanges
  <2> QED BY <1>2, <2>1 DEF WorldChanges
<1>3. CASE UdhcpcDies
  BY <1>3 DEF UdhcpcDies
<1>4. CASE BadLease
  BY <1>4 DEF BadLease
<1>5. CASE CheckKill
  BY <1>5 DEF CheckKill
<1> QED BY <1>1, <1>2, <1>3, <1>4, <1>5

LEMMA RestartType ==
    ASSUME RestOK, Restart, events' \in 0..MaxEvents
    PROVE  RestOK' /\ loop' = NoLoop
  BY Marks DEF RestOK, Restart, world

\* An instance of iwag-d that is started, asks or sleeps.
LEMMA LoopType ==
    ASSUME TypeOK, \/ GatewayBad
                   \/ \E i \in Loops : Iwag(i)
    PROVE  loop' \in [Loops -> Instances]
<1>0. loop \in [Loops -> Instances]
  BY DEF TypeOK, Instances
<1>1. ASSUME NEW i \in Loops, NEW pc \in {"off", "ask", "sleep", "done"}
      PROVE  [loop EXCEPT ![i].pc = pc] \in [Loops -> Instances]
  <2>1. [loop[i] EXCEPT !.pc = pc] \in Instances
    BY <1>0 DEF Instances
  <2> QED BY <1>0, <2>1
<1>2. CASE GatewayBad
  <2>1. loop' = loop \/ \E i \in Loops : loop' = [loop EXCEPT ![i].pc = "ask"]
    BY <1>2 DEF GatewayBad
  <2> QED BY <1>0, <1>1, <2>1
<1>3. ASSUME NEW i \in Loops, IwagAsk(i) PROVE loop' \in [Loops -> Instances]
  <2>1. CASE lease \/ loop[i].tried = Attempts
    BY <1>1, <1>3, <2>1 DEF IwagAsk
  <2>2. CASE ~lease /\ loop[i].tried # Attempts
    <3>1. loop[i].tried + 1 \in 0..Attempts
      BY <1>0, <2>2, UplinkAssumption DEF Instances
    <3>2. [loop[i] EXCEPT !.pc = "sleep", !.tried = @ + 1] \in Instances
      BY <1>0, <3>1 DEF Instances
    <3>3. loop' = [loop EXCEPT ![i] = [loop[i] EXCEPT !.pc = "sleep", !.tried = @ + 1]]
      BY <1>0, <1>3, <2>2 DEF IwagAsk
    <3> QED BY <1>0, <3>2, <3>3
  <2> QED BY <2>1, <2>2
<1>4. ASSUME NEW i \in Loops, IwagSleep(i) PROVE loop' \in [Loops -> Instances]
  BY <1>1, <1>4 DEF IwagSleep
<1> QED BY <1>2, <1>3, <1>4 DEF Iwag

LEMMA TypeStep == TypeOK /\ [Next]_vars => TypeOK'
<1> SUFFICES ASSUME TypeOK, [Next]_vars PROVE TypeOK'
  OBVIOUS
<1>0. RestOK /\ loop \in [Loops -> Instances]
  BY TypeParts
<1>1. CASE GatewayBad
  BY <1>0, <1>1, CheckType, LoopType, TypeParts DEF Check
<1>2. CASE Boot \/ Check \/ IwagTest \/ WorldChanges \/ UdhcpcDies \/ BadLease \/ CheckKill
  BY <1>0, <1>1, <1>2, BootType, CheckType, WorldType, TypeParts
<1>3. ASSUME NEW i \in Loops, Iwag(i) PROVE TypeOK'
  <2>1. reasons' \subseteq Reasons
    BY <1>0, <1>3 DEF Iwag, IwagAsk, IwagSleep, DoReboot, RestOK, Reasons
  <2>2. UNCHANGED <<world, node, check, failures, events>>
    BY <1>3 DEF Iwag, IwagAsk, IwagSleep
  <2>3. RestOK'
    BY <1>0, <2>1, <2>2 DEF RestOK, world, node
  <2> QED BY <1>3, <2>3, LoopType, TypeParts
<1>4. CASE UNCHANGED vars
  BY <1>0, <1>4, TypeParts DEF vars, RestOK
<1>5. CASE Reboot \/ PowerCycle
  <2>1. Restart /\ events' \in 0..MaxEvents
    BY <1>0, <1>5, EventType DEF Reboot, PowerCycle, RestOK
  <2> QED BY <1>0, <2>1, RestartType, NoLoopType, TypeParts
<1> QED BY <1>2, <1>3, <1>4, <1>5 DEF Next

-----------------------------------------------------------------------------
(* Watchdogs and reboots *)

\* A watchdog acts only on a node of the role it was written for: iwag-d and
\* the tests of the DHCP client on gateways, the search for a gateway and the
\* return to being one on repeaters.  None outlives the boot that took its
\* role.
WatchdogsFitRole ==
    /\ (\E i \in Loops : loop[i].pc # "off") \/ reasons \cap {"bad lease", "udhcpc failure"} # {}
          => Up /\ role = "gateway"
    /\ reasons \cap {"no inet", "restore gateway role"} # {} => Up /\ role = "repeater"

\* An instance of iwag-d has ended, if at all, in REBOOT.
EndedInReboot == \A i \in Loops : loop[i].pc = "done" => reasons # {}

\* As long as a node boots no watchdog has run; only the search for a route
\* can have asked for a reboot.
Quiet == check = "idle" /\ failures = 0 /\ loop = NoLoop /\ reasons \subseteq {"external"}
QuietBoot == ~Up => Quiet

IInv == TypeOK /\ EndedInReboot /\ QuietBoot /\ GivingUpEndsInReboot /\ WatchdogsFitRole

\* A reboot is asked for, or some iwag-d was started.
Ending == reasons # {} \/ \E i \in Loops : loop[i].pc # "off"

LEMMA EndingIs == ASSUME TypeOK, EndedInReboot, Ending
                  PROVE  reasons # {} \/ \E i \in Loops : loop[i].pc \in {"ask", "sleep"}
<1>1. \A i \in Loops : loop[i].pc \in {"off", "ask", "sleep", "done"}
  BY DEF TypeOK
<1> QED BY <1>1 DEF Ending, EndedInReboot

LEMMA NoLoopIs == \A i \in Loops : NoLoop[i].pc = "off"
  BY DEF NoLoop

\* A node that boots, or has just booted.
LEMMA QuietHolds == TypeOK /\ Quiet => IInv
<1> SUFFICES ASSUME TypeOK, Quiet PROVE IInv
  OBVIOUS
<1> USE DEF Quiet
<1>1. ~GivenUp
  BY UplinkAssumption DEF GivenUp
<1>2. \A i \in Loops : loop[i].pc = "off"
  BY NoLoopIs
<1>3. EndedInReboot /\ QuietBoot /\ GivingUpEndsInReboot
  BY <1>1, <1>2 DEF EndedInReboot, QuietBoot, GivingUpEndsInReboot
<1>4. WatchdogsFitRole
  BY <1>2 DEF WatchdogsFitRole
<1> QED BY <1>3, <1>4 DEF IInv

\* What a running node does without starting an iwag-d: it keeps its role, and
\* forgets no reboot.
LEMMA RunningHolds ==
    ASSUME IInv, TypeOK', Up, phase' = phase, role' = role, loop' = loop, reasons \subseteq reasons',
           GivenUp' => GivenUp \/ reasons' # {},
           reasons' \cap {"bad lease", "udhcpc failure"} # {} =>
              reasons \cap {"bad lease", "udhcpc failure"} # {} \/ role = "gateway",
           reasons' \cap {"no inet", "restore gateway role"} # {} =>
              reasons \cap {"no inet", "restore gateway role"} # {} \/ role = "repeater"
    PROVE  IInv'
<1>1. EndedInReboot' /\ QuietBoot'
  BY DEF IInv, EndedInReboot, QuietBoot, Up
<1>2. GivingUpEndsInReboot'
  BY DEF IInv, GivingUpEndsInReboot
<1>3. WatchdogsFitRole'
  BY DEF IInv, WatchdogsFitRole, Up
<1> QED BY <1>1, <1>2, <1>3 DEF IInv

LEMMA CheckHolds ==
    ASSUME IInv, TypeOK', Check
    PROVE  IInv'
<1>0. TypeOK
  BY DEF IInv
<1>1. ASSUME check # "idle" PROVE Up
  BY <1>1 DEF IInv, QuietBoot, Quiet
<1>2. CASE CheckStart
  BY <1>2, RunningHolds DEF CheckStart, node, GivenUp
<1>3. CASE UdhcpcTest
  <2>1. Up /\ phase' = phase /\ role' = role /\ loop' = loop /\ failures' = failures
    BY <1>1, <1>3 DEF UdhcpcTest
  <2>2. CASE reasons' = reasons /\ check' = "uplink"
    BY <2>1, <2>2, RunningHolds DEF GivenUp
  <2>3. CASE reasons' = reasons \cup {"udhcpc failure"} /\ role # "repeater"
    <3>1. role = "gateway"
      BY <1>0, <2>3 DEF TypeOK
    <3> QED BY <2>1, <2>3, <3>1, RunningHolds
  <2> QED BY <1>3, <2>2, <2>3 DEF UdhcpcTest, DoReboot
<1>4. CASE UplinkGood
  <2>1. ~GivenUp'
    BY <1>4, UplinkAssumption DEF UplinkGood, GivenUp
  <2> QED BY <1>1, <1>4, <2>1, RunningHolds DEF UplinkGood, node
<1>5. CASE GatewayBad
  <2>1. Up /\ role = "gateway" /\ phase' = phase /\ role' = role /\ reasons' = reasons
    BY <1>1, <1>5 DEF GatewayBad, node
  <2>2. CASE failures' > 1
    <3>1. PICK i \in Loops : loop'[i].pc # "off"
      <4>1. ASSUME NEW i \in Loops, loop' = [loop EXCEPT ![i].pc = "ask"]
            PROVE  loop'[i].pc # "off"
        BY <1>0, <4>1 DEF TypeOK
      <4> QED BY <1>5, <2>2, <4>1, UplinkAssumption DEF GatewayBad
    <3>2. \A j \in Loops : loop'[j].pc = loop[j].pc \/ loop'[j].pc = "ask"
      BY <1>0, <1>5, <2>2 DEF GatewayBad, TypeOK
    <3>3. EndedInReboot'
      BY <2>1, <3>2 DEF IInv, EndedInReboot
    <3>4. Ending'
      BY <3>1 DEF Ending
    <3>5. GivingUpEndsInReboot'
      BY <3>3, <3>4, EndingIs, PTL DEF GivingUpEndsInReboot
    <3>6. WatchdogsFitRole' /\ QuietBoot'
      BY <2>1 DEF IInv, WatchdogsFitRole, QuietBoot, Up
    <3> QED BY <3>3, <3>5, <3>6 DEF IInv
  <2>3. CASE ~(failures' > 1)
    <3>1. loop' = loop /\ ~GivenUp'
      BY <1>5, <2>1, <2>3 DEF GatewayBad, GivenUp
    <3> QED BY <2>1, <3>1, RunningHolds
  <2> QED BY <2>2, <2>3
<1>6. CASE RepeaterBad
  <2>1. Up /\ role = "repeater" /\ phase' = phase /\ role' = role /\ loop' = loop
    BY <1>1, <1>6 DEF RepeaterBad, node
  <2>2. CASE failures' > MaxFails
    BY <1>6, <2>1, <2>2, RunningHolds DEF RepeaterBad, DoReboot
  <2>3. CASE ~(failures' > MaxFails)
    <3>1. reasons' = reasons /\ ~GivenUp'
      BY <1>6, <2>1, <2>3 DEF RepeaterBad, GivenUp
    <3> QED BY <2>1, <3>1, RunningHolds
  <2> QED BY <2>2, <2>3
<1>7. CASE Update
  BY <1>1, <1>7, RunningHolds DEF Update, node, GivenUp
<1> QED BY <1>2, <1>3, <1>4, <1>5, <1>6, <1>7 DEF Check

\* What an iwag-d i does to an instance j.
Goes(i, j) ==
    \/ loop'[j].pc = loop[j].pc
    \/ j = i /\ loop'[j].pc \in {"ask", "sleep"}
    \/ j = i /\ loop'[j].pc = "done" /\ reasons' # {}

LEMMA IwagHolds ==
    ASSUME IInv, TypeOK', NEW i \in Loops, Iwag(i)
    PROVE  IInv'
<1>0. TypeOK
  BY DEF IInv
<1>1. UNCHANGED <<role, phase, check, failures>> /\ loop[i].pc \in {"ask", "sleep"}
  BY DEF Iwag, IwagAsk, IwagSleep, node
<1>2. Up /\ role = "gateway"
  BY <1>1 DEF IInv, WatchdogsFitRole
<1>3. /\ reasons \subseteq reasons' /\ reasons' \subseteq reasons \cup {"external"}
      /\ \A j \in Loops : Goes(i, j)
  <2>0. ASSUME NEW pc, loop' = [loop EXCEPT ![i].pc = pc]
        PROVE  \A j \in Loops : loop'[j].pc = IF j = i THEN pc ELSE loop[j].pc
    BY <1>0, <2>0 DEF TypeOK
  <2>1. CASE IwagSleep(i)
    <3>1. \A j \in Loops : loop'[j].pc = IF j = i THEN "ask" ELSE loop[j].pc
      BY <2>0, <2>1 DEF IwagSleep
    <3>2. \A j \in Loops : Goes(i, j)
      BY <3>1 DEF Goes
    <3>3. reasons' = reasons
      BY <2>1 DEF IwagSleep
    <3> QED BY <3>2, <3>3
  <2>2. CASE IwagAsk(i)
    <3>1. CASE lease \/ loop[i].tried = Attempts
      <4>1. \A j \in Loops : loop'[j].pc = IF j = i THEN "done" ELSE loop[j].pc
        BY <2>0, <2>2, <3>1 DEF IwagAsk
      <4>2. reasons' = reasons \cup {"external"}
        BY <2>2, <3>1 DEF IwagAsk, DoReboot
      <4>3. reasons' # {}
        BY <4>2
      <4>4. \A j \in Loops : Goes(i, j)
        BY <4>1, <4>3 DEF Goes
      <4> QED BY <4>2, <4>4
    <3>2. CASE ~(lease \/ loop[i].tried = Attempts)
      BY <1>0, <2>2, <3>2 DEF IwagAsk, TypeOK, Goes
    <3> QED BY <3>1, <3>2
  <2> QED BY <2>1, <2>2 DEF Iwag
<1>4. EndedInReboot'
  BY <1>3 DEF IInv, EndedInReboot, Goes
<1>5. Ending'
  BY <1>1, <1>3 DEF Ending, Goes
<1>6. GivingUpEndsInReboot'
  BY <1>4, <1>5, EndingIs, PTL DEF GivingUpEndsInReboot
<1>7. QuietBoot' /\ WatchdogsFitRole'
  BY <1>1, <1>2, <1>3 DEF IInv, QuietBoot, WatchdogsFitRole, Up
<1> QED BY <1>4, <1>6, <1>7 DEF IInv

LEMMA HoldsStep == IInv /\ [Next]_vars => IInv'
<1> SUFFICES ASSUME IInv, [Next]_vars PROVE IInv'
  OBVIOUS
<1>0. TypeOK /\ TypeOK'
  BY TypeStep DEF IInv
<1>1. CASE Boot
  <2>1. ~Up
    BY <1>1 DEF Boot, DetectLease, DetectInet, RouteFound, RouteTimeout, Up
  <2>2. Quiet
    BY <2>1 DEF IInv, QuietBoot
  <2>3. UNCHANGED <<check, failures, loop>> /\ reasons' \subseteq reasons \cup {"external"}
    BY <1>1 DEF Boot, DetectLease, DetectInet, RouteFound, RouteTimeout, DoReboot
  <2>4. Quiet'
    BY <2>2, <2>3 DEF Quiet
  <2> QED BY <1>0, <2>4, QuietHolds, PTL
<1>2. CASE Reboot \/ PowerCycle
  <2>1. Quiet'
    BY <1>2 DEF Reboot, PowerCycle, Restart, Quiet
  <2> QED BY <1>0, <2>1, QuietHolds, PTL
<1>3. CASE Check
  BY <1>0, <1>3, CheckHolds
<1>4. ASSUME NEW i \in Loops, Iwag(i) PROVE IInv'
  BY <1>0, <1>4, IwagHolds
<1>5. CASE IwagTest
  BY <1>0, <1>5, RunningHolds DEF IwagTest, node, DoReboot, Up
<1>6. CASE WorldChanges \/ UdhcpcDies \/ UNCHANGED vars
  <2>1. UNCHANGED <<role, phase, check, failures, loop, reasons>>
    BY <1>6 DEF WorldChanges, UdhcpcDies, vars, node
  <2> QED
    BY <1>0, <2>1 DEF IInv, EndedInReboot, QuietBoot, GivingUpEndsInReboot, WatchdogsFitRole, GivenUp, Up, Quiet
<1>7. CASE BadLease
  <2>1. Up
    BY <1>7 DEF IInv, QuietBoot, Quiet, BadLease
  <2> QED BY <1>0, <1>7, <2>1, RunningHolds DEF BadLease, node, DoReboot
<1>8. CASE CheckKill
  <2>1. Up
    BY <1>8 DEF IInv, QuietBoot, Quiet, CheckKill
  <2> QED BY <1>0, <1>8, <2>1, RunningHolds DEF CheckKill, node, GivenUp
<1> QED BY <1>1, <1>2, <1>3, <1>4, <1>5, <1>6, <1>7, <1>8 DEF Next

LEMMA HoldsInit == Init => IInv
  BY TypeInit, QuietHolds DEF Init, Quiet

LEMMA IInvHolds == Spec => []IInv
  BY HoldsInit, HoldsStep, PTL DEF Spec

\* The state of a node keeps to its types: the marks stop counting, and an
\* instance of iwag-d gives up after its last attempt (/sbin/iwag-d).
THEOREM TypeCorrect == Spec => []TypeOK
BY TypeInit, TypeStep, PTL DEF Spec

\* A node never waits for ever after a watchdog gave up: while no reboot is
\* asked for, an iwag-d goes on to one, although the check-ins that go on
\* beside it (iwag-d stops nothing) wipe marks, start it again or are killed.
THEOREM AlwaysEndsInReboot == Spec => []GivingUpEndsInReboot
<1>1. IInv => GivingUpEndsInReboot
  BY DEF IInv
<1> QED BY <1>1, IInvHolds, PTL

\* No watchdog of one role acts on a node of the other, and none outlives the
\* boot that took the role (watchout4node, iwag-d, iwag-test.sh).
THEOREM RoleIsWatched == Spec => []WatchdogsFitRole
<1>1. IInv => WatchdogsFitRole
  BY DEF IInv
<1> QED BY <1>1, IInvHolds, PTL

=============================================================================
