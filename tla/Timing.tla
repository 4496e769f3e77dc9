------------------------------- MODULE Timing -------------------------------
(***************************************************************************)
(* The cron daemon and its crontab, on which everything else of the node   *)
(* depends: check-ins, watchdogs, channel switches, scheduled reboots.     *)
(*                                                                         *)
(*   init.d/timing            start: rewrites the crontab (the jobs) and     *)
(*                            starts crond; stop: crond is gone, or runs   *)
(*                            with the heartbeat of the hardware watchdog  *)
(*                            only,                                        *)
(*   update-management.sh     stops and starts it when the rate of the     *)
(*                            check-ins or the hours for upgrades change,  *)
(*   sched-reboot.sh          puts a scheduled reboot into the crontab,    *)
(*   10_hw_watchdog.sh, 60_settings.sh, 30_cron_sync                       *)
(*                            the parts of a boot that do any of this,     *)
(*   sbin/auto-rescue         stops cron and ends in a reboot.             *)
(*                                                                         *)
(* Cron starts dashboard_checkin.sh, which first sleeps up to five minutes *)
(* and then kills the check-in before it (preupdate): "update-management"  *)
(* is one of the names it looks for, "timing" is not.                      *)
(***************************************************************************)
EXTENDS Naturals

CONSTANTS
    Rates,      \* management.enable.update_rate, 5 to 30
    Windows,    \* management.enable.upgrade_f and upgrade_t, valid ones
    Forces,     \* management.enable.force_reboot
    Never,      \* ... no scheduled reboot
    Valid,      \* ... those sched-reboot.sh makes a crontab entry of
    None,       \* no such entry
    MaxKills,   \* how many check-ins are killed
    MaxEvents   \* how often the power is cut or the mesh is lost

ASSUME TimingAssumption ==
    /\ Valid \subseteq Forces /\ Never \in Forces \ Valid
    /\ None \notin Forces /\ None \notin Rates \X Windows
    /\ MaxKills \in Nat /\ MaxEvents \in Nat

VARIABLES
    hw,         \* node.general.hw_watchdog: the board has a watchdog to feed
    crond,      \* crond runs
    tab,        \* its crontab
    conf,       \* uci management
    file,       \* /etc/update/management, from the last reply; "restart": it
                \* has another option that is not committed and needs a reboot
    flag,       \* flags.restart.system
    phase,      \* of the boot
    sleeping,   \* a check-in sleeps its delay
    update,     \* update-management.sh: line, caller, options to look at, k_restart
    rescue,     \* auto-rescue is scanning
    rebooting,
    torn,       \* history: what a kill left half done
    kills, events

count == <<kills, events>>
vars == <<hw, crond, tab, conf, file, flag, phase, sleeping, update, rescue,
          rebooting, torn, kills, events>>

Tabs == [core : (Rates \X Windows) \cup {None}, heartbeat : BOOLEAN,
         reboot : Valid \cup {None}]
Confs == [rate : Rates, window : Windows, force : Forces]
Files == [rate : Rates, window : Windows, force : Forces, restart : BOOLEAN]

Options == {"rate", "force", "restart"}
PCs == {"idle", "checkin", "lines", "rate", "rateStopped", "force", "window",
        "windowStopped", "flag", "end"}

Updates == [pc : PCs, boot : BOOLEAN, todo : SUBSET Options, k : BOOLEAN]

TypeOK ==
    /\ hw \in BOOLEAN /\ crond \in BOOLEAN
    /\ tab \in Tabs /\ conf \in Confs
    /\ file \in Files \cup {None}
    /\ flag \in BOOLEAN
    /\ phase \in {"preup", "settings", "route", "endboot", "up"}
    /\ sleeping \in BOOLEAN
    /\ update \in Updates
    /\ rescue \in BOOLEAN /\ rebooting \in BOOLEAN
    /\ torn \subseteq {"stopped", "untold", "force"}
    /\ kills \in 0..MaxKills /\ events \in 0..MaxEvents

Idle == [pc |-> "idle", boot |-> FALSE, todo |-> {}, k |-> FALSE]
\* nobody reads the crontab the firmware is shipped with: crond first runs
\* after timing or 10_hw_watchdog.sh has made a new one
NoJobs == [core |-> None, heartbeat |-> FALSE, reboot |-> None]

Init ==
    /\ hw \in BOOLEAN
    /\ crond = FALSE /\ tab = NoJobs
    /\ conf \in [rate : Rates, window : Windows, force : {Never}]
    /\ file = None /\ flag = FALSE
    /\ phase = "preup" /\ sleeping = FALSE /\ update = Idle
    /\ rescue = FALSE /\ rebooting = FALSE
    /\ torn = {} /\ kills = 0 /\ events = 0

At(pc) == update.pc = pc
Goto(pc) == update' = [update EXCEPT !.pc = pc]
Event == events < MaxEvents /\ events' = events + 1 /\ UNCHANGED kills

(***************************************************************************)
(* init.d/timing                                                           *)
(***************************************************************************)
HeartbeatOnly == [core |-> None, heartbeat |-> TRUE, reboot |-> None]

\* Mutant of TimingJobs: without 20_hw_watchdog.
TimingJobsNoHeartbeat ==
    [core |-> <<conf.rate, conf.window>>, heartbeat |-> FALSE, reboot |-> None]

\* 10_core_jobs makes a new crontab, 20_hw_watchdog adds to it
TimingJobs == [core |-> <<conf.rate, conf.window>>, heartbeat |-> hw, reboot |-> None]

\* Mutant of TimingStart: a crond that runs is left alone.
TimingStartIfDown ==
    /\ IF crond THEN UNCHANGED tab ELSE tab' = TimingJobs
    /\ crond' = TRUE
    /\ torn' = {}

TimingStart ==
    /\ tab' = TimingJobs
    /\ crond' = TRUE
    /\ torn' = {}

TimingStop ==
    /\ tab' = IF hw THEN HeartbeatOnly ELSE tab
    /\ crond' = hw

(***************************************************************************)
(* Boot                                                                    *)
(***************************************************************************)

\* 10_hw_watchdog.sh and 40_blank_flags.sh; 60_settings.sh then runs
\* update-management.sh on the file of the last reply
Preup ==
    /\ phase = "preup" /\ phase' = "settings"
    /\ tab' = IF hw THEN HeartbeatOnly ELSE tab
    /\ crond' = hw
    /\ flag' = FALSE
    /\ update' = IF file = None THEN Idle
                 ELSE [Idle EXCEPT !.pc = "lines", !.boot = TRUE, !.todo = Options]
    /\ UNCHANGED <<hw, conf, file, sleeping, rescue, rebooting, torn, count>>

SettingsDone ==
    /\ phase = "settings" /\ ~update.boot
    /\ phase' = "route"
    /\ UNCHANGED <<hw, crond, tab, conf, file, flag, sleeping, update, rescue, rebooting, torn, count>>

\* a default route: S74olsrd is done, S76timing starts cron
RouteFound ==
    /\ phase = "route" /\ ~rescue
    /\ phase' = "endboot"
    /\ TimingStart
    /\ UNCHANGED <<hw, conf, file, flag, sleeping, update, rescue, rebooting, count>>

\* 30_cron_sync: start cron unless it runs
CronSync ==
    /\ phase = "endboot" /\ phase' = "up"
    /\ IF crond THEN UNCHANGED <<crond, tab, torn>> ELSE TimingStart
    /\ UNCHANGED <<hw, conf, file, flag, sleeping, update, rescue, rebooting, count>>

Restart ==
    /\ phase' = "preup" /\ crond' = FALSE
    /\ sleeping' = FALSE /\ update' = Idle
    /\ rescue' = FALSE /\ rebooting' = FALSE /\ torn' = {}
    /\ UNCHANGED <<hw, tab, conf, file, flag>>

Reboot == rebooting /\ Restart /\ UNCHANGED count
PowerCycle == Event /\ Restart

\* no default route, at boot or when 40_olsrd starts olsrd again: auto-rescue
\* stops cron, scans, and reboots
RescueStops ==
    /\ phase \in {"route", "up"} /\ ~rescue /\ rescue' = TRUE
    /\ TimingStop
    /\ Event
    /\ UNCHANGED <<hw, conf, file, flag, phase, sleeping, update, rebooting, torn>>

RescueReboots ==
    /\ rescue /\ ~rebooting /\ rebooting' = TRUE
    /\ UNCHANGED <<hw, crond, tab, conf, file, flag, phase, sleeping, update, rescue, torn, count>>

(***************************************************************************)
(* What cron starts                                                        *)
(***************************************************************************)
CronCheckin ==
    /\ crond /\ tab.core # None /\ ~sleeping
    /\ sleeping' = TRUE
    /\ UNCHANGED <<hw, crond, tab, conf, file, flag, phase, update, rescue, rebooting, torn, count>>

CronReboot ==
    /\ crond /\ tab.reboot # None
    /\ rebooting' = TRUE
    /\ UNCHANGED <<hw, crond, tab, conf, file, flag, phase, sleeping, update, rescue, torn, count>>

\* What a kill leaves undone: cron stopped, or not told, or a schedule not made.
Torn == CASE update.pc \in {"rateStopped", "windowStopped"} -> {"stopped"}
          [] update.pc \in {"rate", "window", "flag"} -> {"untold"}
          [] At("force") -> {"force"}
          [] OTHER -> {}

\* dashboard_checkin.sh wakes up: preupdate kills the check-in before it
Wake ==
    /\ sleeping /\ sleeping' = FALSE
    /\ IF At("idle") THEN UNCHANGED <<kills, torn>>
       ELSE /\ kills < MaxKills /\ kills' = kills + 1
            /\ torn' = torn \cup Torn
    /\ update' = [Idle EXCEPT !.pc = "checkin"]
    /\ UNCHANGED <<hw, crond, tab, conf, file, flag, phase, rescue, rebooting, events>>

(***************************************************************************)
(* update-management.sh                                                    *)
(***************************************************************************)

\* the watchdogs, and the reply of the dashboard
NoReply ==
    /\ At("checkin") /\ update' = Idle
    /\ UNCHANGED <<hw, crond, tab, conf, file, flag, phase, sleeping, rescue, rebooting, torn, count>>

Reply ==
    /\ At("checkin")
    /\ file' \in Files
    /\ update' = [update EXCEPT !.pc = "lines", !.todo = Options]
    /\ UNCHANGED <<hw, crond, tab, conf, flag, phase, sleeping, rescue, rebooting, torn, count>>

Done(option) == [update EXCEPT !.todo = @ \ {option}]

\* enable.update_rate
RateLine ==
    /\ At("lines") /\ "rate" \in update.todo
    /\ IF conf.rate = file.rate
       THEN update' = Done("rate") /\ UNCHANGED conf
       ELSE /\ conf' = [conf EXCEPT !.rate = file.rate]
            /\ update' = [Done("rate") EXCEPT !.pc = "rate"]
    /\ UNCHANGED <<hw, crond, tab, file, flag, phase, sleeping, rescue, rebooting, torn, count>>

\* "timing stop", and after some seconds "timing start"
StopCron ==
    /\ \/ At("rate") /\ Goto("rateStopped")
       \/ At("window") /\ Goto("windowStopped")
    /\ TimingStop
    /\ UNCHANGED <<hw, conf, file, flag, phase, sleeping, rescue, rebooting, torn, count>>

\* Mutant of StartCron: not when a reboot will follow anyway.
StartCronUnlessRestart ==
    /\ \/ At("rateStopped") /\ Goto("lines")
       \/ At("windowStopped") /\ Goto("flag")
    /\ IF update.k THEN UNCHANGED <<crond, tab, torn>> ELSE TimingStart
    /\ UNCHANGED <<hw, conf, file, flag, phase, sleeping, rescue, rebooting, count>>

StartCron ==
    /\ \/ At("rateStopped") /\ Goto("lines")
       \/ At("windowStopped") /\ Goto("flag")
    /\ TimingStart
    /\ UNCHANGED <<hw, conf, file, flag, phase, sleeping, rescue, rebooting, count>>

\* enable.force_reboot
ForceLine ==
    /\ At("lines") /\ "force" \in update.todo
    /\ IF conf.force = file.force
       THEN update' = Done("force") /\ UNCHANGED conf
       ELSE /\ conf' = [conf EXCEPT !.force = file.force]
            /\ update' = [Done("force") EXCEPT !.pc = "force"]
    /\ UNCHANGED <<hw, crond, tab, file, flag, phase, sleeping, rescue, rebooting, torn, count>>

\* Mutants of Schedule: "never" is not looked at; every setting makes an entry.
ScheduleKeepsOld == IF conf.force \in Valid THEN conf.force ELSE tab.reboot
ScheduleUnchecked == IF conf.force = Never THEN None ELSE conf.force

\* the entry sched-reboot.sh leaves; of a setting it cannot read, the old one
Schedule == IF conf.force = Never THEN None
            ELSE IF conf.force \in Valid THEN conf.force ELSE tab.reboot

SchedReboot ==
    /\ At("force") /\ Goto("lines")
    /\ tab' = [tab EXCEPT !.reboot = Schedule]
    /\ torn' = torn \ {"force"}
    /\ UNCHANGED <<hw, crond, conf, file, flag, phase, sleeping, rescue, rebooting, count>>

\* enable.bridge, ap2hidden, shaper, proxy, local_domain, country_code
RestartLine ==
    /\ At("lines") /\ "restart" \in update.todo
    /\ file' = [file EXCEPT !.restart = FALSE]
    /\ update' = [Done("restart") EXCEPT !.k = file.restart]
    /\ UNCHANGED <<hw, crond, tab, conf, flag, phase, sleeping, rescue, rebooting, torn, count>>

\* Mutant of WindowLine: cron is not started again.
WindowLineNoTiming ==
    /\ At("lines") /\ update.todo = {}
    /\ conf' = [conf EXCEPT !.window = file.window]
    /\ Goto("flag")
    /\ UNCHANGED <<hw, crond, tab, file, flag, phase, sleeping, rescue, rebooting, torn, count>>

\* the end of the script: upgrade_f and upgrade_t.  Cron is left alone when a
\* reboot will follow.
WindowLine ==
    /\ At("lines") /\ update.todo = {}
    /\ conf' = [conf EXCEPT !.window = file.window]
    /\ Goto(IF conf.window = file.window \/ update.k THEN "flag" ELSE "window")
    /\ UNCHANGED <<hw, crond, tab, file, flag, phase, sleeping, rescue, rebooting, torn, count>>

\* flags.restart.system, not at boot
SetFlag ==
    /\ At("flag")
    /\ flag' = (flag \/ (update.k /\ ~update.boot))
    /\ update' = IF update.boot THEN Idle ELSE [update EXCEPT !.pc = "end"]
    /\ UNCHANGED <<hw, crond, tab, conf, file, phase, sleeping, rescue, rebooting, torn, count>>

\* the end of update
CheckFlags ==
    /\ At("end") /\ update' = Idle
    /\ rebooting' = (rebooting \/ flag)
    /\ UNCHANGED <<hw, crond, tab, conf, file, flag, phase, sleeping, rescue, torn, count>>

Boot == Preup \/ SettingsDone \/ RouteFound \/ CronSync
Script == NoReply \/ Reply \/ RateLine \/ StopCron \/ StartCron \/ ForceLine \/ SchedReboot
          \/ RestartLine \/ WindowLine \/ SetFlag \/ CheckFlags

Next == Boot \/ Reboot \/ PowerCycle \/ RescueStops \/ RescueReboots
        \/ CronCheckin \/ CronReboot \/ Wake \/ Script

Spec == Init /\ [][Next]_vars

\* A boot and the scripts go on, crond does what its crontab says, a reboot
\* that was asked for happens.
FairSpec ==
    /\ Spec
    /\ WF_vars(Boot) /\ WF_vars(Reboot) /\ WF_vars(RescueReboots)
    /\ WF_vars(CronCheckin) /\ WF_vars(Wake) /\ WF_vars(Script)

-----------------------------------------------------------------------------
Booted == phase \in {"endboot", "up"}

\* A node without its jobs gets them back: while cron does not run, or runs
\* for the heartbeat only, whoever stopped it is about to start it again or to
\* reboot -- unless a kill fell into update-management.sh right there.
CronIsComing ==
    Booted /\ ~(crond /\ tab.core # None)
    => update.pc \in {"rateStopped", "windowStopped"} \/ rescue \/ rebooting \/ "stopped" \in torn

\* Cron works with the settings that are committed, or is about to be told,
\* or the node to reboot.
CrontabFollows ==
    Booted /\ crond /\ tab.core \notin {None, <<conf.rate, conf.window>>}
    => \/ update.pc \in {"rate", "window"}
       \/ update.k /\ update.pc = "flag"
       \/ flag \/ "untold" \in torn

\* keep the "hardware watchdog alive and stop the other scheduled tasks":
\* between the boot's first lines and the next reboot it is always fed.
WatchdogFed == hw /\ phase # "preup" => crond /\ tab.heartbeat

\* A node reboots on the schedule that was set last, and on no older one.
NoStaleSchedule ==
    Booted /\ tab.reboot \notin {None, conf.force}
    => At("force") \/ "force" \in torn \/ conf.force \notin Valid \cup {Never}

\* "Repeated every 5 minutes": there is always another check-in.
CheckinsRepeat == []<>At("checkin")
=============================================================================
