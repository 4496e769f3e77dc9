------------------------ MODULE ChannelSwitchProofs ------------------------
(***************************************************************************)
(* What holds of ChannelSwitch for every set of channels and checkers, any *)
(* delay and any number of outside events.                                 *)
(***************************************************************************)
EXTENDS ChannelSwitch, TLAPS

LEMMA TtsType == Off \in Tts /\ Delay \in Tts
  BY ChannelAssumption DEF Tts

LEMMA SettledRadioType ==
    ASSUME NEW c \in Channels
    PROVE  [current |-> c, alternate |-> c, tts |-> Off] \in Radios
  BY TtsType DEF Radios

LEMMA BootRadioType ==
    ASSUME radio \in Radios, old \in File
    PROVE  BootRadio \in Radios
<1>1. CASE old = Empty
  BY <1>1 DEF BootRadio
<1>2. CASE old # Empty
  <2>1. (IF old = NoRecord THEN Default ELSE old) \in Channels
    BY <1>2, ChannelAssumption DEF File
  <2> QED BY <1>2, <2>1, SettledRadioType DEF BootRadio
<1> QED BY <1>1, <1>2

LEMMA IdleTypes ==
    /\ Idle \in Checks
    /\ [pc |-> "idle", value |-> Default] \in Updates
  BY ChannelAssumption DEF Idle, Checks, Updates

\* Moving a checker to another line keeps the type of its record.
LEMMA CheckGotoType ==
    ASSUME check \in [Checkers -> Checks], NEW c \in Checkers, NEW k \in Checks,
           check' = [check EXCEPT ![c] = k]
    PROVE  check' \in [Checkers -> Checks]
  OBVIOUS

LEMMA BootType == TypeOK /\ Boot /\ faults' \in 0..MaxFaults => TypeOK'
<1> SUFFICES ASSUME TypeOK, Boot, faults' \in 0..MaxFaults PROVE TypeOK'
  OBVIOUS
<1> USE DEF TypeOK, Boot
<1>1. radio' \in Radios /\ real' \in Channels
  BY BootRadioType DEF Radios
<1>2. update' \in Updates /\ check' \in [Checkers -> Checks]
  BY IdleTypes
<1>3. rescue' \in {"waiting", "lost", "scan", "choose", "hung", "up"}
  OBVIOUS
<1>4. cron' \in BOOLEAN /\ rebooting' \subseteq Reasons /\ drifted' \in BOOLEAN
  OBVIOUS
<1> QED BY <1>1, <1>2, <1>3, <1>4

LEMMA CheckinType == TypeOK /\ Checkin => TypeOK'
<1> SUFFICES ASSUME TypeOK, Checkin PROVE TypeOK'
  OBVIOUS
<1> USE DEF TypeOK
<1>1. CASE CheckinReply
  <2>1. received' \in File
    BY <1>1, ChannelAssumption DEF CheckinReply, File
  <2> QED BY <1>1, <2>1 DEF CheckinReply, Updates
<1>2. CASE CheckinEnd
  BY <1>2 DEF CheckinEnd, Updates
<1>3. CASE KeepReply
  BY <1>3 DEF KeepReply, Updates
<1>4. CASE SplitReply
  BY <1>4 DEF SplitReply, Updates
<1>5. CASE ReadRadio
  <2>1. section # Empty => section \in Channels
    OBVIOUS
  <2>2. update' \in Updates
    BY <1>5, <2>1 DEF ReadRadio, Updates
  <2> QED BY <1>5, <2>2 DEF ReadRadio
<1>6. CASE ScheduleSwitch
  <2>1. radio' \in Radios
    BY <1>6, TtsType DEF ScheduleSwitch, Radios, Updates
  <2>2. update' \in Updates
    BY <1>6 DEF ScheduleSwitch, Updates
  <2> QED BY <1>6, <2>1, <2>2 DEF ScheduleSwitch
<1>7. CASE CheckinFlags
  <2>1. rebooting' \subseteq Reasons
    BY <1>7 DEF CheckinFlags, Reasons
  <2> QED BY <1>7, <2>1 DEF CheckinFlags, Updates
<1> QED BY <1>1, <1>2, <1>3, <1>4, <1>5, <1>6, <1>7 DEF Checkin

LEMMA CheckType ==
    ASSUME TypeOK, NEW c \in Checkers, Check(c)
    PROVE  TypeOK'
<1> USE DEF TypeOK
<1>0. check[c] \in Checks
  OBVIOUS
<1>1. CASE CheckStart(c)
  <2>1. [pc |-> "drift", cur |-> radio.current, alt |-> radio.alternate] \in Checks
    BY DEF Radios, Checks
  <2> QED BY <1>1, <2>1 DEF CheckStart
<1>2. CASE CheckDrift(c)
  <2>1. check' \in [Checkers -> Checks]
    <3>1. check' = [check EXCEPT ![c].pc = "hung"] \/ check' = [check EXCEPT ![c].pc = "missed"]
      BY <1>2 DEF CheckDrift
    <3> QED BY <1>0, <3>1 DEF Checks
  <2>2. rebooting' \subseteq Reasons
    BY <1>2 DEF CheckDrift, Reasons
  <2> QED BY <1>2, <2>1, <2>2 DEF CheckDrift
<1>3. CASE CheckMissed(c)
  <2>1. CASE received \in Channels /\ received # check[c].alt
    <3>1. check' \in [Checkers -> Checks]
      <4>1. check' = [check EXCEPT ![c].pc = "adopt", ![c].alt = received]
        BY <1>3, <2>1 DEF CheckMissed
      <4> QED BY <1>0, <2>1, <4>1 DEF Checks
    <3>2. radio' \in Radios
      BY <1>3, <2>1 DEF CheckMissed, Radios
    <3> QED BY <1>3, <3>1, <3>2 DEF CheckMissed
  <2>2. CASE ~(received \in Channels /\ received # check[c].alt)
    <3>1. check' \in [Checkers -> Checks]
      <4>1. check' = [check EXCEPT ![c].pc = "due"]
        BY <1>3, <2>2 DEF CheckMissed
      <4> QED BY <1>0, <4>1 DEF Checks
    <3> QED BY <1>3, <2>2, <3>1 DEF CheckMissed
  <2> QED BY <2>1, <2>2
<1>4. CASE CheckAdopt(c)
  <2>1. check' \in [Checkers -> Checks]
    BY <1>0, <1>4 DEF CheckAdopt, Checks
  <2>2. radio' \in Radios
    BY <1>0, <1>4, TtsType DEF CheckAdopt, Checks, Radios
  <2>3. rebooting' \subseteq Reasons
    BY <1>4 DEF CheckAdopt, Reasons
  <2> QED BY <1>4, <2>1, <2>2, <2>3 DEF CheckAdopt
<1>5. CASE CheckDue(c)
  <2>1. check' \in [Checkers -> Checks]
    <3>1. check' = [check EXCEPT ![c].pc = "hung"] \/ check' = [check EXCEPT ![c].pc = "idle"]
      BY <1>5 DEF CheckDue
    <3> QED BY <1>0, <3>1 DEF Checks
  <2>2. radio' \in Radios
    <3>1. radio' = radio \/ radio' = [radio EXCEPT !.current = check[c].alt, !.tts = Off]
      BY <1>5 DEF CheckDue
    <3> QED BY <1>0, <3>1, TtsType DEF Checks, Radios
  <2>3. rebooting' \subseteq Reasons
    BY <1>5 DEF CheckDue, Reasons
  <2>4. rescue' \in {"waiting", "lost", "scan", "choose", "hung", "up"}
    <3>1. rescue' = "scan" \/ rescue' = rescue
      BY <1>5 DEF CheckDue
    <3> QED BY <3>1
  <2> QED BY <1>5, <2>1, <2>2, <2>3, <2>4 DEF CheckDue
<1> QED BY <1>1, <1>2, <1>3, <1>4, <1>5 DEF Check

LEMMA RescueType == TypeOK /\ RescueChoose => TypeOK'
<1> SUFFICES ASSUME TypeOK, RescueChoose PROVE TypeOK'
  OBVIOUS
<1> USE DEF TypeOK, RescueChoose
<1>1. radio' \in Radios
  <2>1. CASE radio.current # radio.alternate
    BY <2>1, TtsType DEF Radios
  <2>2. CASE radio.current = radio.alternate
    BY <2>2, SettledRadioType
  <2> QED BY <2>1, <2>2
<1>2. rebooting' \subseteq Reasons
  BY DEF Reasons
<1>3. rescue' \in {"waiting", "lost", "scan", "choose", "hung", "up"}
  OBVIOUS
<1> QED BY <1>1, <1>2, <1>3

LEMMA FaultsStep ==
    ASSUME faults \in 0..MaxFaults, faults < MaxFaults
    PROVE  faults + 1 \in 0..MaxFaults
  BY ChannelAssumption

LEMMA TypeStep == TypeOK /\ [Next]_vars => TypeOK'
<1> SUFFICES ASSUME TypeOK, [Next]_vars PROVE TypeOK'
  OBVIOUS
<1>1. CASE Reboot
  <2>1. faults' \in 0..MaxFaults
    BY <1>1 DEF Reboot, TypeOK
  <2> QED BY <1>1, <2>1, BootType DEF Reboot
<1>2. CASE CheckinStart
  BY <1>2 DEF CheckinStart, TypeOK, Updates, File
<1>3. CASE CheckinKill
  BY <1>3, FaultsStep DEF CheckinKill, TypeOK, Updates, File
<1>4. CASE Checkin
  BY <1>4, CheckinType
<1>5. ASSUME NEW c \in Checkers, Check(c) PROVE TypeOK'
  BY <1>5, CheckType
<1>6. CASE RouteFound
  BY <1>6 DEF RouteFound, TypeOK
<1>16. CASE OlsrdRestart
  BY <1>16, FaultsStep DEF OlsrdRestart, TypeOK
<1>7. CASE RouteLost
  BY <1>7, FaultsStep DEF RouteLost, TypeOK
<1>8. CASE RescueScan
  BY <1>8 DEF RescueScan, TypeOK
<1>9. CASE RescueChoose
  BY <1>9, RescueType
<1>10. CASE ManualSwitch
  <2>1. radio' \in Radios
    BY <1>10 DEF ManualSwitch, TypeOK, Radios
  <2>2. rebooting' \subseteq Reasons
    BY <1>10 DEF ManualSwitch, TypeOK, Reasons
  <2> QED BY <1>10, <2>1, <2>2, FaultsStep DEF ManualSwitch, TypeOK
<1>11. CASE PowerCycle
  <2>1. faults' \in 0..MaxFaults
    BY <1>11, FaultsStep DEF PowerCycle, TypeOK
  <2> QED BY <1>11, <2>1, BootType DEF PowerCycle
<1>12. CASE EditChannel
  BY <1>12, FaultsStep DEF EditChannel, TypeOK
<1>13. CASE Drift
  BY <1>13, FaultsStep DEF Drift, TypeOK
<1>14. CASE Tick
  <2>1. radio.tts - 1 \in Tts
    BY <1>14, ChannelAssumption DEF Tick, Tts
  <2>2. radio' \in Radios
    BY <1>14, <2>1 DEF Tick, TypeOK, Radios
  <2> QED BY <1>14, <2>2 DEF Tick, TypeOK
<1>15. CASE UNCHANGED vars
  BY <1>15 DEF vars, TypeOK
<1> QED BY <1>1, <1>2, <1>3, <1>4, <1>5, <1>6, <1>7, <1>8, <1>9, <1>10, <1>11, <1>12,
          <1>13, <1>14, <1>15, <1>16 DEF Next

LEMMA TypeInit == Init => TypeOK
<1> SUFFICES ASSUME Init PROVE TypeOK
  OBVIOUS
<1> USE DEF Init
<1>1. radio \in Radios /\ real \in Channels /\ dash \in Channels
  BY SettledRadioType, ChannelAssumption
<1>2. update \in Updates /\ check \in [Checkers -> Checks]
  BY IdleTypes
<1>3. received \in File /\ old \in File /\ section \in Channels \cup {Empty}
  BY DEF File
<1>4. rescue \in {"waiting", "lost", "scan", "choose", "hung", "up"}
  OBVIOUS
<1>5. cron \in BOOLEAN /\ rebooting \subseteq Reasons /\ drifted \in BOOLEAN
  OBVIOUS
<1>6. faults \in 0..MaxFaults
  BY ChannelAssumption
<1> QED BY <1>1, <1>2, <1>3, <1>4, <1>5, <1>6 DEF TypeOK

\* The state of the scripts and of package radio keeps its type.
THEOREM TypeCorrect == Spec => []TypeOK
<1> QED BY TypeInit, TypeStep, PTL DEF Spec

-----------------------------------------------------------------------------
LEMMA BootTuned == Boot => TunedAsConfigured'
  BY DEF Boot, TunedAsConfigured

LEMMA CheckTuned ==
    ASSUME TypeOK, TunedAsConfigured, NEW c \in Checkers, Check(c)
    PROVE  TunedAsConfigured'
<1> USE DEF TypeOK, TunedAsConfigured, Radios
<1>1. CASE CheckStart(c)
  BY <1>1 DEF CheckStart
<1>2. CASE CheckDrift(c)
  BY <1>2 DEF CheckDrift
<1>3. CASE CheckMissed(c)
  BY <1>3 DEF CheckMissed
<1>4. CASE CheckAdopt(c)
  BY <1>4 DEF CheckAdopt
<1>5. CASE CheckDue(c)
  BY <1>5 DEF CheckDue
<1> QED BY <1>1, <1>2, <1>3, <1>4, <1>5 DEF Check

\* Every write of "current" comes with a do_reboot, and a boot tunes the radio
\* to it; everything else leaves the two alone.
LEMMA TunedStep == TypeOK /\ TunedAsConfigured /\ [Next]_vars => TunedAsConfigured'
<1> SUFFICES ASSUME TypeOK, TunedAsConfigured, [Next]_vars PROVE TunedAsConfigured'
  OBVIOUS
<1>1. CASE Reboot
  BY <1>1, BootTuned DEF Reboot
<1>2. CASE CheckinStart
  BY <1>2 DEF CheckinStart, TunedAsConfigured
<1>3. CASE CheckinKill
  BY <1>3 DEF CheckinKill, TunedAsConfigured
<1>4. CASE Checkin
  <2>1. radio'.current = radio.current
    BY <1>4 DEF Checkin, CheckinReply, CheckinEnd, KeepReply, SplitReply, ReadRadio,
                ScheduleSwitch, CheckinFlags, TypeOK, Radios
  <2>2. real' = real /\ drifted' = drifted /\ rebooting \subseteq rebooting'
    BY <1>4 DEF Checkin, CheckinReply, CheckinEnd, KeepReply, SplitReply, ReadRadio,
                ScheduleSwitch, CheckinFlags
  <2> QED BY <2>1, <2>2 DEF TunedAsConfigured
<1>5. ASSUME NEW c \in Checkers, Check(c) PROVE TunedAsConfigured'
  BY <1>5, CheckTuned
<1>6. CASE RouteFound
  BY <1>6 DEF RouteFound, TunedAsConfigured
<1>16. CASE OlsrdRestart
  BY <1>16 DEF OlsrdRestart, TunedAsConfigured
<1>7. CASE RouteLost
  BY <1>7 DEF RouteLost, TunedAsConfigured
<1>8. CASE RescueScan
  BY <1>8 DEF RescueScan, TunedAsConfigured
<1>9. CASE RescueChoose
  <2>1. rebooting' # {}
    BY <1>9 DEF RescueChoose
  <2> QED BY <2>1 DEF TunedAsConfigured
<1>10. CASE ManualSwitch
  <2>1. rebooting' # {}
    BY <1>10 DEF ManualSwitch
  <2> QED BY <2>1 DEF TunedAsConfigured
<1>11. CASE PowerCycle
  BY <1>11, BootTuned DEF PowerCycle
<1>12. CASE EditChannel
  BY <1>12 DEF EditChannel, TunedAsConfigured
<1>13. CASE Drift
  BY <1>13 DEF Drift, TunedAsConfigured
<1>14. CASE Tick
  BY <1>14 DEF Tick, TunedAsConfigured, TypeOK, Radios
<1>15. CASE UNCHANGED vars
  BY <1>15 DEF vars, TunedAsConfigured
<1> QED BY <1>1, <1>2, <1>3, <1>4, <1>5, <1>6, <1>7, <1>8, <1>9, <1>10, <1>11, <1>12,
          <1>13, <1>14, <1>15, <1>16 DEF Next

\* The radio leaves the configured channel only by drifting, however many
\* instances of tts-check.sh, check-ins, rescues and reboots interleave.
THEOREM RadioIsTuned == Spec => []TunedAsConfigured
<1>1. Init => TunedAsConfigured
  BY DEF Init, TunedAsConfigured
<1> QED BY <1>1, TypeInit, TypeStep, TunedStep, PTL DEF Spec
=============================================================================
