---------------------------- MODULE TimingProofs ----------------------------
(***************************************************************************)
(* What holds of Timing for all rates, hours and reboot schedules, and any *)
(* number of kills, power cuts and losses of the mesh.                     *)
(***************************************************************************)
EXTENDS Timing, TLAPS

\* The script runs on a file, and for a boot only while the boot runs it.
Running == update.pc \notin {"idle", "checkin"}
RunInv == (Running => file \in Files) /\ (update.boot => phase = "settings")

IInv == TypeOK /\ RunInv /\ WatchdogFed /\ CronIsComing /\ CrontabFollows /\ NoStaleSchedule

LEMMA IdleType == Idle \in Updates /\ ~Idle.boot /\ Idle.pc = "idle"
  BY DEF Idle, Updates, PCs

LEMMA TabTypes ==
    ASSUME conf \in Confs, hw \in BOOLEAN
    PROVE  TimingJobs \in Tabs /\ HeartbeatOnly \in Tabs /\ NoJobs \in Tabs
  BY DEF Confs, Tabs, TimingJobs, HeartbeatOnly, NoJobs

\* What "timing start" leaves, whatever was there.
LEMMA StartLeaves ==
    ASSUME conf \in Confs, hw \in BOOLEAN, TimingStart
    PROVE  /\ tab' \in Tabs /\ crond' = TRUE /\ torn' = {}
           /\ tab'.core = <<conf.rate, conf.window>> /\ tab'.core # None
           /\ tab'.heartbeat = hw /\ tab'.reboot = None
  BY TabTypes, TimingAssumption DEF TimingStart, TimingJobs, Confs

\* What "timing stop" leaves.
LEMMA StopLeaves ==
    ASSUME tab \in Tabs, conf \in Confs, hw \in BOOLEAN, TimingStop
    PROVE  /\ tab' \in Tabs /\ crond' = hw
           /\ hw => tab'.core = None /\ tab'.heartbeat /\ tab'.reboot = None
           /\ ~hw => tab' = tab
  BY TabTypes DEF TimingStop, HeartbeatOnly

\* Moving the script to another line.
LEMMA GotoType ==
    ASSUME update \in Updates, NEW pc \in PCs, Goto(pc)
    PROVE  update' \in Updates /\ update'.pc = pc /\ update'.boot = update.boot
           /\ update'.k = update.k /\ update'.todo = update.todo
  BY DEF Goto, Updates

\* An option that was looked at.
LEMMA DoneType ==
    ASSUME update \in Updates, NEW option
    PROVE  Done(option) \in Updates /\ Done(option).pc = update.pc
           /\ Done(option).boot = update.boot /\ Done(option).k = update.k
  BY DEF Done, Updates

LEMMA BootType == TypeOK /\ Boot => TypeOK'
<1> SUFFICES ASSUME TypeOK, Boot PROVE TypeOK'
  OBVIOUS
<1> USE DEF TypeOK, count
<1>1. CASE Preup
  <2>1. tab' \in Tabs
    BY <1>1, TabTypes DEF Preup
  <2>2. update' \in Updates
    BY <1>1, IdleType DEF Preup, Updates, PCs
  <2> QED BY <1>1, <2>1, <2>2 DEF Preup
<1>2. CASE SettingsDone
  BY <1>2 DEF SettingsDone
<1>3. CASE RouteFound
  BY <1>3, StartLeaves DEF RouteFound
<1>4. CASE CronSync
  BY <1>4, StartLeaves DEF CronSync
<1> QED BY <1>1, <1>2, <1>3, <1>4 DEF Boot

LEMMA EventType == TypeOK /\ Event => events' \in 0..MaxEvents /\ kills' \in 0..MaxKills
  BY TimingAssumption DEF TypeOK, Event

\* Reboots, power cuts, the rescue and what cron starts.
LEMMA OutsideType ==
    TypeOK /\ (Reboot \/ PowerCycle \/ RescueStops \/ RescueReboots \/ CronCheckin \/ CronReboot
               \/ Wake)
    => TypeOK'
<1> SUFFICES ASSUME TypeOK,
                    Reboot \/ PowerCycle \/ RescueStops \/ RescueReboots \/ CronCheckin
                    \/ CronReboot \/ Wake
             PROVE  TypeOK'
  OBVIOUS
<1> USE TimingAssumption DEF TypeOK, count
<1>1. CASE Reboot
  BY <1>1, IdleType DEF Reboot, Restart
<1>2. CASE PowerCycle
  BY <1>2, IdleType, EventType DEF PowerCycle, Restart
<1>3. CASE RescueStops
  BY <1>3, StopLeaves, EventType DEF RescueStops
<1>4. CASE RescueReboots
  BY <1>4 DEF RescueReboots
<1>5. CASE CronCheckin
  BY <1>5 DEF CronCheckin
<1>6. CASE CronReboot
  BY <1>6 DEF CronReboot
<1>7. CASE Wake
  <2>1. update' \in Updates
    BY <1>7 DEF Wake, Idle, Updates, PCs
  <2>2. torn' \subseteq {"stopped", "untold", "force"} /\ kills' \in 0..MaxKills
    BY <1>7 DEF Wake, Torn
  <2> QED BY <1>7, <2>1, <2>2 DEF Wake
<1> QED BY <1>1, <1>2, <1>3, <1>4, <1>5, <1>6, <1>7

LEMMA ScheduleType == TypeOK => Schedule \in Valid \cup {None}
  BY DEF TypeOK, Schedule, Tabs

LEMMA ScriptType == TypeOK /\ RunInv /\ Script => TypeOK'
<1> SUFFICES ASSUME TypeOK, RunInv, Script PROVE TypeOK'
  OBVIOUS
<1> USE DEF TypeOK, count
<1>0. At("lines") => file \in Files
  BY DEF RunInv, Running, At
<1>1. CASE NoReply
  BY <1>1, IdleType DEF NoReply
<1>2. CASE Reply
  BY <1>2 DEF Reply, Updates, PCs
<1>3. CASE RateLine
  <2>1. conf' \in Confs
    BY <1>0, <1>3 DEF RateLine, Confs, Files
  <2>2. update' \in Updates
    BY <1>3, DoneType DEF RateLine, Updates, PCs
  <2> QED BY <1>3, <2>1, <2>2 DEF RateLine
<1>4. CASE StopCron
  <2>1. update' \in Updates
    BY <1>4, GotoType DEF StopCron, PCs
  <2> QED BY <1>4, <2>1, StopLeaves DEF StopCron
<1>5. CASE StartCron
  <2>1. update' \in Updates
    BY <1>5, GotoType DEF StartCron, PCs
  <2> QED BY <1>5, <2>1, StartLeaves DEF StartCron
<1>6. CASE ForceLine
  <2>1. conf' \in Confs
    BY <1>0, <1>6 DEF ForceLine, Confs, Files
  <2>2. update' \in Updates
    BY <1>6, DoneType DEF ForceLine, Updates, PCs
  <2> QED BY <1>6, <2>1, <2>2 DEF ForceLine
<1>7. CASE SchedReboot
  <2>1. update' \in Updates
    BY <1>7, GotoType DEF SchedReboot, PCs
  <2>2. tab' \in Tabs
    BY <1>7, ScheduleType DEF SchedReboot, Tabs
  <2> QED BY <1>7, <2>1, <2>2 DEF SchedReboot
<1>8. CASE RestartLine
  <2>1. file' \in Files
    BY <1>0, <1>8 DEF RestartLine, Files
  <2>2. update' \in Updates
    BY <1>0, <1>8, DoneType DEF RestartLine, Updates, Files
  <2> QED BY <1>8, <2>1, <2>2 DEF RestartLine
<1>9. CASE WindowLine
  <2>1. conf' \in Confs
    BY <1>0, <1>9 DEF WindowLine, Confs, Files
  <2>2. update' \in Updates
    BY <1>9, GotoType DEF WindowLine, PCs
  <2> QED BY <1>9, <2>1, <2>2 DEF WindowLine
<1>10. CASE SetFlag
  <2>1. update' \in Updates
    BY <1>10, IdleType DEF SetFlag, Updates, PCs
  <2>2. flag' \in BOOLEAN
    BY <1>10 DEF SetFlag
  <2> QED BY <1>10, <2>1, <2>2 DEF SetFlag
<1>11. CASE CheckFlags
  BY <1>11, IdleType DEF CheckFlags
<1> QED BY <1>1, <1>2, <1>3, <1>4, <1>5, <1>6, <1>7, <1>8, <1>9, <1>10, <1>11 DEF Script

-----------------------------------------------------------------------------
\* The part of the invariant that is not about types.
Safe == RunInv /\ WatchdogFed /\ CronIsComing /\ CrontabFollows /\ NoStaleSchedule

\* "timing start" makes everything right, whatever went before.
LEMMA StartIsSafe ==
    ASSUME TypeOK, TimingStart, RunInv', UNCHANGED <<hw, conf>>
    PROVE  Safe'
<1>1. crond' = TRUE /\ tab'.core = <<conf'.rate, conf'.window>> /\ tab'.core # None
      /\ tab'.heartbeat = hw' /\ tab'.reboot = None
  BY StartLeaves DEF TypeOK
<1>2. WatchdogFed' /\ CronIsComing'
  BY <1>1 DEF WatchdogFed, CronIsComing
<1>3. CrontabFollows' /\ NoStaleSchedule'
  BY <1>1 DEF CrontabFollows, NoStaleSchedule
<1> QED BY <1>2, <1>3 DEF Safe

\* A boot that has not found its route: only the hardware watchdog counts.
LEMMA NotBooted ==
    ASSUME ~Booted', RunInv', WatchdogFed'
    PROVE  Safe'
  BY DEF Safe, CronIsComing, CrontabFollows, NoStaleSchedule

\* "timing stop" keeps the hardware watchdog fed and makes no entry.
LEMMA StopIsSafe ==
    ASSUME TypeOK, Safe, TimingStop, UNCHANGED <<hw, conf>>
    PROVE  /\ WatchdogFed'
           /\ ~(crond' /\ tab'.core # None)
           /\ tab'.reboot \in {None, tab.reboot}
  BY StopLeaves DEF TypeOK, Safe, WatchdogFed

LEMMA BootSafe == IInv /\ Boot => Safe'
<1> SUFFICES ASSUME TypeOK, Safe, Boot PROVE Safe'
  BY DEF IInv, Safe
<1>1. CASE Preup
  <2>1. ~Booted' /\ WatchdogFed'
    BY <1>1 DEF Preup, Booted, WatchdogFed, HeartbeatOnly
  <2>2. RunInv'
    BY <1>1 DEF Preup, TypeOK, RunInv, Running, Idle
  <2> QED BY <2>1, <2>2, NotBooted
<1>2. CASE SettingsDone
  <2>1. ~Booted' /\ WatchdogFed' /\ RunInv'
    BY <1>2 DEF SettingsDone, Booted, Safe, WatchdogFed, RunInv, Running
  <2> QED BY <2>1, NotBooted
<1>3. CASE RouteFound
  <2>1. RunInv'
    BY <1>3 DEF RouteFound, Safe, RunInv, Running
  <2> QED BY <1>3, <2>1, StartIsSafe DEF RouteFound
<1>4. CASE CronSync
  <2>1. RunInv'
    BY <1>4 DEF CronSync, Safe, RunInv, Running
  <2>2. CASE crond
    BY <1>4, <2>1, <2>2 DEF CronSync, Safe, WatchdogFed, CronIsComing, CrontabFollows,
        NoStaleSchedule, Booted, At
  <2>3. CASE ~crond
    BY <1>4, <2>1, <2>3, StartIsSafe DEF CronSync
  <2> QED BY <2>2, <2>3
<1> QED BY <1>1, <1>2, <1>3, <1>4 DEF Boot

LEMMA RestartSafe == IInv /\ Restart => Safe'
<1> SUFFICES ASSUME Restart PROVE Safe'
  OBVIOUS
<1>1. ~Booted' /\ WatchdogFed' /\ RunInv'
  BY DEF Restart, Booted, WatchdogFed, RunInv, Running, Idle
<1> QED BY <1>1, NotBooted

LEMMA OutsideSafe ==
    IInv /\ (RescueStops \/ RescueReboots \/ CronCheckin \/ CronReboot) => Safe'
<1> SUFFICES ASSUME TypeOK, Safe,
                    RescueStops \/ RescueReboots \/ CronCheckin \/ CronReboot
             PROVE  Safe'
  BY DEF IInv, Safe
<1>1. CASE RescueStops
  <2>1. WatchdogFed' /\ CrontabFollows' /\ tab'.reboot \in {None, tab.reboot}
    BY <1>1, StopIsSafe DEF RescueStops, CrontabFollows
  <2>2. RunInv' /\ CronIsComing' /\ NoStaleSchedule'
    BY <1>1, <2>1 DEF RescueStops, Safe, RunInv, Running, CronIsComing, NoStaleSchedule, Booted, At
  <2> QED BY <2>1, <2>2 DEF Safe
<1>2. CASE RescueReboots \/ CronCheckin \/ CronReboot
  BY <1>2 DEF RescueReboots, CronCheckin, CronReboot, Safe, RunInv, Running, WatchdogFed,
      CronIsComing, CrontabFollows, NoStaleSchedule, Booted, At
<1> QED BY <1>1, <1>2

\* A kill is remembered for just the properties that it breaks.
LEMMA WakeSafe == IInv /\ Wake => Safe'
<1> SUFFICES ASSUME TypeOK, Safe, Wake PROVE Safe'
  BY DEF IInv, Safe
<1>1. /\ update'.pc = "checkin" /\ ~update'.boot
      /\ UNCHANGED <<hw, crond, tab, conf, file, flag, phase, rescue, rebooting>>
  BY DEF Wake, Idle
<1>2. torn \subseteq torn'
  BY DEF Wake
<1>3. /\ update.pc \in {"rateStopped", "windowStopped"} => "stopped" \in torn'
      /\ update.pc \in {"rate", "window", "flag"} => "untold" \in torn'
      /\ update.pc = "force" => "force" \in torn'
  <2>1. update.pc # "idle" => torn' = torn \cup Torn
    BY DEF Wake, At
  <2> QED BY <2>1 DEF Torn, At
<1>4. RunInv' /\ WatchdogFed'
  BY <1>1 DEF Safe, RunInv, Running, WatchdogFed
<1>5. CronIsComing'
  BY <1>1, <1>2, <1>3 DEF Safe, CronIsComing, Booted
<1>6. CrontabFollows'
  BY <1>1, <1>2, <1>3 DEF Safe, CrontabFollows, Booted
<1>7. NoStaleSchedule'
  BY <1>1, <1>2, <1>3 DEF Safe, NoStaleSchedule, Booted, At
<1> QED BY <1>4, <1>5, <1>6, <1>7 DEF Safe

\* A line that leaves cron and the settings alone.
LEMMA QuietLine ==
    ASSUME Safe, RunInv',
           update.pc \notin {"rate", "rateStopped", "window", "windowStopped", "force"},
           update.pc = "flag" /\ update.k /\ Booted => flag',
           flag => flag', rebooting => rebooting',
           UNCHANGED <<hw, crond, tab, conf, phase, rescue, torn>>
    PROVE  Safe'
  BY DEF Safe, WatchdogFed, CronIsComing, CrontabFollows, NoStaleSchedule, Booted, At

LEMMA ScriptSafe == IInv /\ Script => Safe'
<1> SUFFICES ASSUME TypeOK, Safe, Script PROVE Safe'
  BY DEF IInv, Safe
<1> USE DEF At
<1>0. update \in Updates
  BY DEF TypeOK
<1>1. CASE NoReply
  <2>1. RunInv'
    BY <1>1 DEF NoReply, RunInv, Running, Idle
  <2> QED BY <1>1, <2>1, QuietLine DEF NoReply
<1>2. CASE Reply
  <2>1. RunInv'
    BY <1>0, <1>2 DEF Reply, Safe, RunInv, Running, Updates
  <2> QED BY <1>2, <2>1, QuietLine DEF Reply
<1>3. CASE RateLine
  <2>1. update'.pc \in {"lines", "rate"} /\ update'.boot = update.boot
    BY <1>0, <1>3, DoneType DEF RateLine, Updates
  <2>2. RunInv'
    BY <1>3, <2>1 DEF RateLine, Safe, RunInv, Running
  <2>3. WatchdogFed' /\ CronIsComing'
    BY <1>3, <2>1 DEF RateLine, Safe, WatchdogFed, CronIsComing, Booted
  <2>4. conf' = conf \/ update'.pc = "rate"
    BY <1>0, <1>3, DoneType DEF RateLine, Updates
  <2>5. CrontabFollows'
    BY <1>3, <2>4 DEF RateLine, Safe, CrontabFollows, Booted
  <2>6. conf'.force = conf.force
    BY <1>3 DEF RateLine, TypeOK, Confs
  <2>7. NoStaleSchedule'
    BY <1>3, <2>6 DEF RateLine, Safe, NoStaleSchedule, Booted
  <2> QED BY <2>2, <2>3, <2>5, <2>7 DEF Safe
<1>4. CASE StopCron
  <2>1. update'.pc \in {"rateStopped", "windowStopped"} /\ update'.boot = update.boot
    BY <1>0, <1>4, GotoType DEF StopCron, PCs
  <2>2. RunInv'
    BY <1>4, <2>1 DEF StopCron, Safe, RunInv, Running
  <2>3. WatchdogFed' /\ CrontabFollows' /\ tab'.reboot \in {None, tab.reboot}
    BY <1>4, StopIsSafe DEF StopCron, CrontabFollows
  <2>4. CronIsComing'
    BY <2>1 DEF CronIsComing
  <2>5. NoStaleSchedule'
    BY <1>4, <2>3 DEF StopCron, Safe, NoStaleSchedule, Booted
  <2> QED BY <2>2, <2>3, <2>4, <2>5 DEF Safe
<1>5. CASE StartCron
  <2>1. update'.boot = update.boot
    BY <1>0, <1>5, GotoType DEF StartCron, PCs
  <2>2. RunInv'
    BY <1>5, <2>1 DEF StartCron, Safe, RunInv, Running
  <2> QED BY <1>5, <2>2, StartIsSafe DEF StartCron
<1>6. CASE ForceLine
  <2>1. update'.pc \in {"lines", "force"} /\ update'.boot = update.boot
    BY <1>0, <1>6, DoneType DEF ForceLine, Updates
  <2>2. RunInv'
    BY <1>6, <2>1 DEF ForceLine, Safe, RunInv, Running
  <2>3. WatchdogFed' /\ CronIsComing'
    BY <1>6, <2>1 DEF ForceLine, Safe, WatchdogFed, CronIsComing, Booted
  <2>4. conf'.rate = conf.rate /\ conf'.window = conf.window
    BY <1>6 DEF ForceLine, TypeOK, Confs
  <2>5. CrontabFollows'
    BY <1>6, <2>4 DEF ForceLine, Safe, CrontabFollows, Booted
  <2>6. conf' = conf \/ update'.pc = "force"
    BY <1>0, <1>6, DoneType DEF ForceLine, Updates
  <2>7. NoStaleSchedule'
    BY <1>6, <2>6 DEF ForceLine, Safe, NoStaleSchedule, Booted
  <2> QED BY <2>2, <2>3, <2>5, <2>7 DEF Safe
<1>7. CASE SchedReboot
  <2>1. update'.pc = "lines" /\ update'.boot = update.boot
    BY <1>0, <1>7, GotoType DEF SchedReboot, PCs
  <2>2. RunInv'
    BY <1>7, <2>1 DEF SchedReboot, Safe, RunInv, Running
  <2>3. tab'.core = tab.core /\ tab'.heartbeat = tab.heartbeat /\ tab'.reboot = Schedule
    BY <1>7 DEF SchedReboot, TypeOK, Tabs
  <2>4. \A t \in {"stopped", "untold"} : t \in torn => t \in torn'
    BY <1>7 DEF SchedReboot
  <2>5. WatchdogFed' /\ CronIsComing' /\ CrontabFollows'
    BY <1>7, <2>3, <2>4 DEF SchedReboot, Safe, WatchdogFed, CronIsComing, CrontabFollows, Booted
  <2>6. NoStaleSchedule'
    BY <1>7, <2>3 DEF SchedReboot, Schedule, NoStaleSchedule
  <2> QED BY <2>2, <2>5, <2>6 DEF Safe
<1>8. CASE RestartLine
  <2>1. update'.pc = "lines" /\ update'.boot = update.boot
    BY <1>0, <1>8, DoneType DEF RestartLine, Updates
  <2>2. file' \in Files
    BY <1>8 DEF RestartLine, Safe, RunInv, Running, Files
  <2>3. RunInv'
    BY <1>8, <2>1, <2>2 DEF RestartLine, Safe, RunInv
  <2> QED BY <1>8, <2>1, <2>3, QuietLine DEF RestartLine
<1>9. CASE WindowLine
  <2>1. /\ update'.pc \in {"flag", "window"} /\ UNCHANGED <<update.boot, update.k>>
        /\ conf.window = file.window \/ update.k \/ update'.pc = "window"
    BY <1>0, <1>9, GotoType DEF WindowLine, PCs
  <2>2. RunInv'
    BY <1>9, <2>1 DEF WindowLine, Safe, RunInv, Running
  <2>3. WatchdogFed' /\ CronIsComing'
    BY <1>9 DEF WindowLine, Safe, WatchdogFed, CronIsComing, Booted
  <2>4. /\ conf'.rate = conf.rate /\ conf'.force = conf.force
        /\ conf.window = file.window => conf'.window = conf.window
    BY <1>9 DEF WindowLine, TypeOK, Confs
  <2>5. CrontabFollows'
    BY <1>9, <2>1, <2>4 DEF WindowLine, Safe, CrontabFollows, Booted
  <2>6. NoStaleSchedule'
    BY <1>9, <2>4 DEF WindowLine, Safe, NoStaleSchedule, Booted
  <2> QED BY <2>2, <2>3, <2>5, <2>6 DEF Safe
<1>10. CASE SetFlag
  <2>1. update'.pc \in {"idle", "end"} /\ ~update'.boot
    BY <1>0, <1>10 DEF SetFlag, Updates, Idle
  <2>2. RunInv'
    BY <1>10, <2>1 DEF SetFlag, Safe, RunInv, Running
  <2>3. update.k /\ Booted => flag'
    BY <1>10 DEF SetFlag, Safe, RunInv, Booted
  <2>4. flag => flag'
    BY <1>10 DEF SetFlag
  <2>5. update.pc = "flag"
    BY <1>10 DEF SetFlag
  <2> QED BY <1>10, <2>2, <2>3, <2>4, <2>5, QuietLine DEF SetFlag
<1>11. CASE CheckFlags
  <2>1. RunInv'
    BY <1>11 DEF CheckFlags, RunInv, Running, Idle
  <2> QED BY <1>11, <2>1, QuietLine DEF CheckFlags
<1> QED BY <1>1, <1>2, <1>3, <1>4, <1>5, <1>6, <1>7, <1>8, <1>9, <1>10, <1>11 DEF Script

-----------------------------------------------------------------------------
LEMMA InitIInv == Init => IInv
<1> SUFFICES ASSUME Init PROVE IInv
  OBVIOUS
<1>1. TypeOK
  <2>1. conf \in Confs /\ hw \in BOOLEAN
    BY TimingAssumption DEF Init, Confs
  <2>2. kills \in 0..MaxKills /\ events \in 0..MaxEvents
    BY TimingAssumption DEF Init
  <2> QED BY <2>1, <2>2, IdleType, TabTypes DEF Init, TypeOK
<1>2. RunInv /\ WatchdogFed /\ CronIsComing /\ CrontabFollows /\ NoStaleSchedule
  BY DEF Init, RunInv, Running, Idle, WatchdogFed, CronIsComing, CrontabFollows, NoStaleSchedule,
     Booted
<1> QED BY <1>1, <1>2 DEF IInv

LEMMA NextIInv == IInv /\ [Next]_vars => IInv'
<1> SUFFICES ASSUME IInv, [Next]_vars PROVE TypeOK' /\ Safe'
  BY DEF IInv, Safe
<1>0. TypeOK /\ RunInv /\ Safe
  BY DEF IInv, Safe
<1>1. CASE Boot
  BY <1>0, <1>1, BootType, BootSafe
<1>2. CASE Reboot \/ PowerCycle
  BY <1>0, <1>2, OutsideType, RestartSafe DEF Reboot, PowerCycle
<1>3. CASE RescueStops \/ RescueReboots \/ CronCheckin \/ CronReboot
  BY <1>0, <1>3, OutsideType, OutsideSafe
<1>4. CASE Wake
  BY <1>0, <1>4, OutsideType, WakeSafe
<1>5. CASE Script
  BY <1>0, <1>5, ScriptType, ScriptSafe
<1>6. CASE UNCHANGED vars
  BY <1>0, <1>6 DEF vars, TypeOK, Safe, RunInv, Running, WatchdogFed, CronIsComing, CrontabFollows,
     NoStaleSchedule, Booted, At
<1> QED BY <1>1, <1>2, <1>3, <1>4, <1>5, <1>6 DEF Next

\* The types of the cron daemon, its crontab and the scripts that change them.
THEOREM TypeCorrect == Spec => []TypeOK
<1>1. IInv => TypeOK
  BY DEF IInv
<1> QED BY <1>1, InitIInv, NextIInv, PTL DEF Spec

\* "keep hardware watchdog alive and stop the other scheduled tasks": a board
\* with a watchdog always has a crond that feeds it, from the first lines of
\* a boot to the next one, whatever "timing stop" a kill leaves alone.
THEOREM HardwareWatchdogFed == Spec => []WatchdogFed
<1>1. IInv => WatchdogFed
  BY DEF IInv
<1> QED BY <1>1, InitIInv, NextIInv, PTL DEF Spec

\* A node without its jobs is about to get them back; the kill between
\* "timing stop" and "timing start" is the only way to lose them.
THEOREM JobsComeBack == Spec => []CronIsComing
<1>1. IInv => CronIsComing
  BY DEF IInv
<1> QED BY <1>1, InitIInv, NextIInv, PTL DEF Spec

\* The crontab has the committed rate and hours, or update-management.sh or a
\* flagged reboot is about to make a new one, or a kill fell in between.
THEOREM JobsFollowSettings == Spec => []CrontabFollows
<1>1. IInv => CrontabFollows
  BY DEF IInv
<1> QED BY <1>1, InitIInv, NextIInv, PTL DEF Spec

\* The crontab's reboot entry is the one that was set last, as long as
\* sched-reboot.sh can read the setting.
THEOREM NoOlderSchedule == Spec => []NoStaleSchedule
<1>1. IInv => NoStaleSchedule
  BY DEF IInv
<1> QED BY <1>1, InitIInv, NextIInv, PTL DEF Spec
=============================================================================
