---------------------------- MODULE ChannelSwitch ----------------------------
(***************************************************************************)
(* The radio channel of ONE node and every shell script that touches it:   *)
(*                                                                         *)
(*   /sbin/update            fetches the dashboard reply and keeps it,     *)
(*   update-radio.sh         schedules a switch 25 minutes ahead ("tts"),  *)
(*   lib/robin/tts-check.sh  run by cron every 2 minutes, and by the boot  *)
(*                           of olsrd while there is no default route,     *)
(*   /sbin/auto-rescue       looks for another channel when the mesh is    *)
(*                           lost,                                         *)
(*   /sbin/channel           the manual switch,                            *)
(*   preup/50_set_channel.sh sets the channel at every boot.               *)
(*                                                                         *)
(* The scripts share the uci package "radio" and the files of /etc/update; *)
(* nothing locks either, so every script is a process that reads, decides  *)
(* and writes in separate steps.  A write is the whole "uci set ... uci    *)
(* commit" group: before the commit nothing survives a reboot.             *)
(***************************************************************************)
EXTENDS Naturals

CONSTANTS
    Channels,   \* radio channels
    Default,    \* channel of a new node, and of a boot whose kept reply names none
    Delay,      \* ticks between scheduling a switch and doing it (1500 s)
    Checkers,   \* concurrent invocations of tts-check.sh
    Boot0,      \* the checker that init.d/olsrd runs before auto-rescue
    Partial,    \* what it may answer besides its channel: NoRecord, Empty
    NoRecord,   \* a reply that holds no channel.alternate record
    Empty,      \* a zero-size or missing file
    Off,        \* tts = "0": no switch is scheduled
    MaxFaults   \* bound on outside events: faults and dashboard changes

ASSUME ChannelAssumption ==
    /\ Default \in Channels
    /\ Delay \in Nat \ {0}
    /\ Boot0 \in Checkers
    /\ NoRecord \notin Channels
    /\ Empty \notin Channels \cup {NoRecord}
    /\ Off \notin Nat
    /\ Partial \subseteq {NoRecord, Empty}
    /\ MaxFaults \in Nat

VARIABLES
    dash,       \* the channel the dashboard holds for the network
    radio,      \* uci package radio: current, alternate, tts
    real,       \* the channel the radio is tuned to (iwgetid -rc)
    received,   \* /etc/update/received
    old,        \* /etc/update/received.old
    section,    \* /etc/update/radio, written by pre_process_reply
    update,     \* the check-in process and what update-radio.sh found
    check,      \* per checker: program counter and what it read at its start
    rescue,     \* olsrd's start and the auto-rescue it falls into
    cron,       \* init.d/timing is running
    rebooting,  \* the reasons of the do_reboot calls that wait in /sbin/REBOOT
    drifted,    \* the driver left the configured channel by itself
    faults      \* outside events so far

vars == <<dash, radio, real, received, old, section, update, check, rescue, cron,
          rebooting, drifted, faults>>

Tts == {Off} \cup 0..Delay         \* Off, or the ticks left until AT
File == Channels \cup {NoRecord, Empty}
Due == radio.tts \in {Off, 0}      \* [ "$NOW" -ge "$AT" ]

\* 10 channel drift, 13 channel switch, 91 reboot needed after update, 00
Reasons == {"drift", "switch", "update", "other"}

Idle == [pc |-> "idle", cur |-> Default, alt |-> Default]

Radios == [current : Channels, alternate : Channels, tts : Tts]
Updates == [pc : {"idle", "wget", "fetched", "kept", "split", "schedule", "flags"},
            value : Channels]
Checks == [pc : {"idle", "drift", "missed", "adopt", "due", "hung"},
           cur : Channels, alt : Channels]

TypeOK ==
    /\ dash \in Channels
    /\ radio \in Radios
    /\ real \in Channels
    /\ received \in File /\ old \in File /\ section \in Channels \cup {Empty}
    /\ update \in Updates
    /\ check \in [Checkers -> Checks]
    /\ rescue \in {"waiting", "lost", "scan", "choose", "hung", "up"}
    /\ cron \in BOOLEAN /\ rebooting \subseteq Reasons /\ drifted \in BOOLEAN
    /\ faults \in 0..MaxFaults

(***************************************************************************)
(* Booting.  Shells and RAM are gone; 50_set_channel.sh runs before any of *)
(* them restarts and, when a reply was ever kept, forces its channel.      *)
(***************************************************************************)
\* Mutant of BootRadio: what the kept reply names is not looked at.
BootRadioDefault ==
    IF old = Empty THEN radio ELSE [current |-> Default, alternate |-> Default, tts |-> Off]

BootRadio ==
    IF old = Empty THEN radio
    ELSE LET c == IF old = NoRecord THEN Default ELSE old
         IN [current |-> c, alternate |-> c, tts |-> Off]

Boot ==
    /\ radio' = BootRadio
    /\ real' = BootRadio.current
    /\ update' = [pc |-> "idle", value |-> Default]
    /\ check' = [c \in Checkers |-> Idle]
    /\ rescue' = "waiting"
    /\ cron' = FALSE
    /\ rebooting' = {} /\ drifted' = FALSE
    /\ UNCHANGED <<dash, received, old, section>>

Init ==
    /\ dash \in Channels
    /\ radio = [current |-> Default, alternate |-> Default, tts |-> Off]
    /\ real = Default
    /\ received = Empty /\ old = Empty /\ section = Empty
    /\ update = [pc |-> "idle", value |-> Default]
    /\ check = [c \in Checkers |-> Idle]
    /\ rescue = "waiting" /\ cron = FALSE
    /\ rebooting = {} /\ drifted = FALSE
    /\ faults = 0

\* /sbin/REBOOT got past its wait for jffs2 and runs "busybox reboot -f".
Reboot ==
    /\ rebooting # {}
    /\ Boot
    /\ UNCHANGED faults

(***************************************************************************)
(* Check-in: dashboard_checkin.sh, /sbin/update and update-radio.sh.       *)
(***************************************************************************)

\* wget truncates its output file before the request goes out.
CheckinStart ==
    /\ cron /\ update.pc = "idle"
    /\ update' = [update EXCEPT !.pc = "wget"]
    /\ received' = Empty
    /\ UNCHANGED <<dash, radio, real, old, section, check, rescue, cron, rebooting, drifted, faults>>

\* A new instance kills the one in progress wherever it is (preupdate).
CheckinKill ==
    /\ cron /\ update.pc # "idle" /\ faults < MaxFaults
    /\ update' = [update EXCEPT !.pc = "wget"]
    /\ received' = Empty
    /\ faults' = faults + 1
    /\ UNCHANGED <<dash, radio, real, old, section, check, rescue, cron, rebooting, drifted>>

\* The dashboard answers: the channel is in the reply, or the reply is about
\* other sections, or empty.
CheckinReply ==
    /\ update.pc = "wget"
    /\ received' \in {dash} \cup Partial
    /\ update' = [update EXCEPT !.pc = "fetched"]
    /\ UNCHANGED <<dash, radio, real, old, section, check, rescue, cron, rebooting, drifted, faults>>

\* Primary and fallback address failed: exit; an empty reply: nothing to do; a
\* page without '#@#', which somebody else sent: request_full_reply, exit.
CheckinEnd ==
    /\ \/ update.pc = "wget"
       \/ update.pc = "fetched" /\ received \in {Empty, NoRecord}
    /\ update' = [update EXCEPT !.pc = "idle"]
    /\ UNCHANGED <<dash, radio, real, received, old, section, check, rescue, cron, rebooting, drifted, faults>>

\* cp -f received received.old
KeepReply ==
    /\ update.pc = "fetched" /\ received # Empty
    /\ old' = received
    /\ update' = [update EXCEPT !.pc = "kept"]
    /\ UNCHANGED <<dash, radio, real, received, section, check, rescue, cron, rebooting, drifted, faults>>

\* Mutant of SplitReply: the section file is written whatever the reply names.
SplitReplyAlways ==
    /\ update.pc = "kept"
    /\ section' = old
    /\ update' = [update EXCEPT !.pc = "split"]
    /\ UNCHANGED <<dash, radio, real, received, old, check, rescue, cron, rebooting, drifted, faults>>

\* pre_process_reply rewrites the section files the reply names, and no other.
SplitReply ==
    /\ update.pc = "kept"
    /\ section' = IF old \in Channels THEN old ELSE section
    /\ update' = [update EXCEPT !.pc = "split"]
    /\ UNCHANGED <<dash, radio, real, received, old, check, rescue, cron, rebooting, drifted, faults>>

\* Mutant of ShouldChange: it compares with the working channel.
ShouldChangeUntilThere(value) == radio.current # value

\* The change update-radio.sh looks for: another alternate, or the same one
\* although no switch is scheduled and the radio works elsewhere.
ShouldChange(value) ==
    \/ radio.alternate # value
    \/ radio.tts = Off /\ real # value

\* update-radio.sh reads its section file and compares.
ReadRadio ==
    /\ update.pc = "split"
    /\ update' = IF section # Empty /\ ShouldChange(section)
                 THEN [pc |-> "schedule", value |-> section]
                 ELSE [update EXCEPT !.pc = "flags"]
    /\ UNCHANGED <<dash, radio, real, received, old, section, check, rescue, cron, rebooting, drifted, faults>>

\* ... and schedules the switch it decided on.
ScheduleSwitch ==
    /\ update.pc = "schedule"
    /\ radio' = [radio EXCEPT !.alternate = update.value, !.tts = Delay]
    /\ update' = [update EXCEPT !.pc = "flags"]
    /\ UNCHANGED <<dash, real, received, old, section, check, rescue, cron, rebooting, drifted, faults>>

\* End of update: other sections may have asked for a reboot (reason 91).
CheckinFlags ==
    /\ update.pc = "flags"
    /\ update' = [update EXCEPT !.pc = "idle"]
    /\ rebooting' \in {rebooting, rebooting \cup {"update"}}
    /\ UNCHANGED <<dash, radio, real, received, old, section, check, rescue, cron, drifted, faults>>

(***************************************************************************)
(* tts-check.sh                                                            *)
(***************************************************************************)
CheckStart(c) ==
    /\ check[c].pc = "idle"
    /\ IF c = Boot0 THEN rescue = "lost" ELSE cron
    /\ check' = [check EXCEPT ![c] = [pc |-> "drift", cur |-> radio.current,
                                      alt |-> radio.alternate]]
    /\ UNCHANGED <<dash, radio, real, received, old, section, update, rescue, cron, rebooting, drifted, faults>>

\* check channel drift
CheckDrift(c) ==
    /\ check[c].pc = "drift"
    /\ IF check[c].cur # real
       THEN check' = [check EXCEPT ![c].pc = "hung"] /\ rebooting' = rebooting \cup {"drift"}
       ELSE check' = [check EXCEPT ![c].pc = "missed"] /\ UNCHANGED rebooting
    /\ UNCHANGED <<dash, radio, real, received, old, section, update, rescue, cron, drifted, faults>>

\* check missed channel switch signal: the last reply fetched names another
\* alternate than the one this script read when it started
CheckMissed(c) ==
    /\ check[c].pc = "missed"
    /\ IF received \in Channels /\ received # check[c].alt
       THEN /\ radio' = [radio EXCEPT !.alternate = received]
            /\ check' = [check EXCEPT ![c].pc = "adopt", ![c].alt = received]
       ELSE /\ check' = [check EXCEPT ![c].pc = "due"]
            /\ UNCHANGED radio
    /\ UNCHANGED <<dash, real, received, old, section, update, rescue, cron, rebooting, drifted, faults>>

\* switch_channel() at once, then on to the rest of the script
CheckAdopt(c) ==
    /\ check[c].pc = "adopt"
    /\ radio' = [radio EXCEPT !.current = check[c].alt, !.tts = Off]
    /\ check' = [check EXCEPT ![c].pc = "hung"]
    /\ rebooting' = rebooting \cup {"switch"}
    /\ UNCHANGED <<dash, real, received, old, section, update, rescue, cron, drifted, faults>>

\* Mutant of CheckDue: the switch without its reboot.
CheckDueNoReboot(c) ==
    /\ check[c].pc = "due"
    /\ check' = [check EXCEPT ![c].pc = "idle"]
    /\ IF check[c].cur # check[c].alt /\ Due
       THEN radio' = [radio EXCEPT !.current = check[c].alt, !.tts = Off]
       ELSE UNCHANGED radio
    /\ rescue' = IF c = Boot0 /\ rescue = "lost" THEN "scan" ELSE rescue
    /\ UNCHANGED <<dash, real, received, old, section, update, cron, drifted, faults, rebooting>>

\* switch working channel, when its time has come
CheckDue(c) ==
    /\ check[c].pc = "due"
    /\ IF check[c].cur # check[c].alt /\ Due
       THEN /\ radio' = [radio EXCEPT !.current = check[c].alt, !.tts = Off]
            /\ check' = [check EXCEPT ![c].pc = "hung"]
            /\ rebooting' = rebooting \cup {"switch"}
       ELSE /\ check' = [check EXCEPT ![c].pc = "idle"]
            /\ UNCHANGED <<radio, rebooting>>
    /\ rescue' = IF c = Boot0 /\ rescue = "lost" /\ check'[c].pc = "idle" THEN "scan" ELSE rescue
    /\ UNCHANGED <<dash, real, received, old, section, update, cron, drifted, faults>>

(***************************************************************************)
(* init.d/olsrd waits for a default route; without one it falls into       *)
(* tts-check.sh and auto-rescue.                                           *)
(***************************************************************************)
\* at boot cron starts after it: S74olsrd, S76timing
RouteFound ==
    /\ rescue = "waiting"
    /\ rescue' = "up"
    /\ cron' = TRUE
    /\ UNCHANGED <<dash, radio, real, received, old, section, update, check, rebooting, drifted, faults>>

\* watchout/40_olsrd finds no olsrd and starts it again
OlsrdRestart ==
    /\ rescue = "up" /\ faults < MaxFaults
    /\ rescue' = "waiting" /\ faults' = faults + 1
    /\ UNCHANGED <<dash, radio, real, received, old, section, update, check, cron, rebooting, drifted>>

RouteLost ==
    /\ rescue = "waiting" /\ faults < MaxFaults
    /\ rescue' = "lost" /\ faults' = faults + 1
    /\ UNCHANGED <<dash, radio, real, received, old, section, update, check, cron, rebooting, drifted>>

\* auto-rescue stops cron -- not the scripts cron has started -- and scans
RescueScan ==
    /\ rescue = "scan"
    /\ cron' = FALSE
    /\ rescue' = "choose"
    /\ UNCHANGED <<dash, radio, real, received, old, section, update, check, rebooting, drifted, faults>>

\* a switch that was scheduled and forgotten is done now; else the channel of
\* a gateway, or of anybody, on the air; else reboot and hope
RescueChoose ==
    /\ rescue = "choose"
    /\ IF radio.current # radio.alternate
       THEN /\ radio' = [radio EXCEPT !.current = radio.alternate, !.tts = Off]
            /\ rebooting' = rebooting \cup {"switch"}
       ELSE \/ /\ \E c \in Channels \ {real} : radio' = [current |-> c, alternate |-> c, tts |-> Off]
               /\ rebooting' = rebooting \cup {"switch"}
            \/ /\ rebooting' = rebooting \cup {"other"}
               /\ UNCHANGED radio
    /\ rescue' = "hung"
    /\ UNCHANGED <<dash, real, received, old, section, update, check, cron, drifted, faults>>

(***************************************************************************)
(* The outside world.                                                      *)
(***************************************************************************)

\* /sbin/channel, run by hand: switches now, and leaves tts as it is
ManualSwitch ==
    /\ radio.current # radio.alternate /\ faults < MaxFaults
    /\ radio' = [radio EXCEPT !.current = radio.alternate]
    /\ rebooting' = rebooting \cup {"switch"} /\ faults' = faults + 1
    /\ UNCHANGED <<dash, real, received, old, section, update, check, rescue, cron, drifted>>

PowerCycle ==
    /\ faults < MaxFaults
    /\ faults' = faults + 1
    /\ Boot

\* the operator moves the network to another channel
EditChannel ==
    /\ faults < MaxFaults
    /\ dash' \in Channels \ {dash}
    /\ faults' = faults + 1
    /\ UNCHANGED <<radio, real, received, old, section, update, check, rescue, cron, rebooting, drifted>>

Drift ==
    /\ faults < MaxFaults
    /\ \E c \in Channels \ {real} : real' = c
    /\ drifted' = TRUE /\ faults' = faults + 1
    /\ UNCHANGED <<dash, radio, received, old, section, update, check, rescue, cron, rebooting>>

Tick ==
    /\ radio.tts \in 1..Delay
    /\ radio' = [radio EXCEPT !.tts = @ - 1]
    /\ UNCHANGED <<dash, real, received, old, section, update, check, rescue, cron, rebooting, drifted, faults>>

Checkin == CheckinReply \/ CheckinEnd \/ KeepReply \/ SplitReply \/ ReadRadio
           \/ ScheduleSwitch \/ CheckinFlags

Check(c) == CheckStart(c) \/ CheckDrift(c) \/ CheckMissed(c) \/ CheckAdopt(c) \/ CheckDue(c)

Next ==
    \/ Reboot \/ CheckinStart \/ CheckinKill \/ Checkin
    \/ \E c \in Checkers : Check(c)
    \/ RouteFound \/ OlsrdRestart \/ RouteLost \/ RescueScan \/ RescueChoose
    \/ ManualSwitch \/ PowerCycle \/ EditChannel \/ Drift \/ Tick

Spec == Init /\ [][Next]_vars

\* Cron and the shells it starts make progress, time passes, a requested reboot
\* happens, and a default route is found sooner or later.  The strong
\* conditions: the minute of update is random after each boot, so tts-check.sh
\* does not reboot the node each time before a check-in starts, or between the
\* wget and the cp of its reply; the dashboard names its channel again and again.
FairSpec ==
    /\ Spec
    /\ WF_vars(Reboot) /\ WF_vars(Tick) /\ WF_vars(RouteFound) /\ WF_vars(RescueScan) /\ WF_vars(RescueChoose)
    /\ SF_vars(CheckinStart) /\ WF_vars(Checkin)
    /\ SF_vars(CheckinReply /\ received' = dash) /\ SF_vars(KeepReply /\ received = dash)
    /\ \A c \in Checkers : WF_vars(Check(c))

-----------------------------------------------------------------------------
\* The radio leaves the configured channel only by drifting: a script that
\* moves "current" is on its way to a reboot, so nothing keeps working with
\* a configuration the radio does not have (do_reboot 13 follows each write).
TunedAsConfigured ==
    radio.current # real => drifted \/ rebooting # {}

\* "switch working channel": a switch that was scheduled is done, or called
\* off, whatever reboots, kills and replies come between.
ScheduledSwitchHappens ==
    radio.current # radio.alternate ~> radio.current = radio.alternate

\* When the operator stops, the radio ends up on the dashboard's channel, if
\* from some time on the replies that are kept name it: a boot takes the
\* channel from the reply kept last, and 5 if that does not name one.
Settles == <>[](old \in Channels) => <>[](radio.current = dash)
=============================================================================
