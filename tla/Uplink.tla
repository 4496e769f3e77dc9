------------------------------- MODULE Uplink -------------------------------
(***************************************************************************)
(* Whether a node is a gateway or a repeater, and what it does when its    *)
(* uplink goes away or comes back:                                         *)
(*                                                                         *)
(*   preup/55_detect_role.sh    takes the role at boot: a gateway has a    *)
(*                              lease on its WAN port and the internet     *)
(*                              behind it,                                 *)
(*   init.d/olsrd               keeps the boot of a repeater waiting for a *)
(*                              default route, and ends in auto-rescue,    *)
(*   /sbin/watchout4node        at every check-in: 30_udhcpc, then         *)
(*                              80_gateway_to_inet or 70_repeater_to_...,  *)
(*                              and /sbin/update when they are content,    *)
(*   /sbin/iwag-d               "I was a gateway": asks for a lease until  *)
(*                              it can reboot,                             *)
(*   lib/robin/iwag-test.sh     run by cron on repeaters: would this node  *)
(*                              be a gateway?                              *)
(*                                                                         *)
(* A role is taken at boot only; every change of it is a reboot.  do_reboot*)
(* does not return, but until /sbin/REBOOT is through everything else goes *)
(* on.  A check-in that is stuck is killed by the next one; the programs   *)
(* it has started are not.                                                 *)
(***************************************************************************)
EXTENDS Naturals, FiniteSets

CONSTANTS
    Predef,     \* installation.node.predef_role: -1, 0 or 2
    Loops,      \* instances of iwag-d that can run at a time
    MaxFails,   \* management.enable.max_w4n_fails
    Attempts,   \* how often iwag-d asks before it gives up (360)
    MaxEvents   \* bound on what happens from outside

ASSUME UplinkAssumption ==
    /\ Predef \in {"auto", "repeater", "static"}
    /\ Loops # {}
    /\ MaxFails \in Nat /\ Attempts \in Nat /\ MaxEvents \in Nat

VARIABLES
    lease, inet, mesh,  \* the DHCP server, the internet, a gateway on the air
    role,       \* node.general.role
    phase,      \* of the boot: "dhcp", "inet", "route", "up"
    udhcpc,     \* the DHCP client of the WAN port runs
    stray,      \* a repeater keeps the default route of its killed DHCP client
    check,      \* the check-in: "idle", "udhcpc", "uplink", "update", "stuck"
    failures,   \* marks in /tmp/inet.failures or /tmp/w4n.failures
    loop,       \* per instance of iwag-d: what it does, its attempts so far
    reasons,    \* of the do_reboot calls that wait in /sbin/REBOOT
    events

world == <<lease, inet, mesh>>
node == <<role, phase, udhcpc, stray>>
vars == <<lease, inet, mesh, role, phase, udhcpc, stray, check, failures, loop, reasons, events>>

Reasons == {"no inet", "bad lease", "udhcpc failure", "restore gateway role", "external"}

\* 80_gateway_to_inet gives up on the second mark, 70_repeater_to_gateway on
\* the one after MaxFails; counting stops there.
MaxMarks == MaxFails + 2

TypeOK ==
    /\ lease \in BOOLEAN /\ inet \in BOOLEAN /\ mesh \in BOOLEAN
    /\ role \in {"gateway", "repeater"}
    /\ phase \in {"dhcp", "inet", "route", "up"}
    /\ udhcpc \in BOOLEAN /\ stray \in BOOLEAN
    /\ check \in {"idle", "udhcpc", "uplink", "update", "stuck"}
    /\ failures \in 0..MaxMarks
    /\ loop \in [Loops -> [pc : {"off", "ask", "sleep", "done"}, tried : 0..Attempts]]
    /\ reasons \subseteq Reasons
    /\ events \in 0..MaxEvents

NoLoop == [i \in Loops |-> [pc |-> "off", tried |-> 0]]

Init ==
    /\ lease \in BOOLEAN /\ inet \in BOOLEAN /\ mesh \in BOOLEAN
    /\ role = "repeater"
    /\ phase = "dhcp" /\ udhcpc = FALSE /\ stray = FALSE
    /\ check = "idle" /\ failures = 0 /\ loop = NoLoop
    /\ reasons = {} /\ events = 0

Up == phase = "up"
DoReboot(reason) == reasons' = reasons \cup {reason}

(***************************************************************************)
(* Boot                                                                    *)
(***************************************************************************)

\* RAM, and with it the marks and every process, is gone.
Restart ==
    /\ phase' = "dhcp" /\ udhcpc' = FALSE /\ stray' = FALSE
    /\ check' = "idle" /\ failures' = 0 /\ loop' = NoLoop
    /\ reasons' = {}
    /\ UNCHANGED <<world, role>>

Reboot == reasons # {} /\ Restart /\ UNCHANGED events

\* 55_detect_role.sh: ask for a lease, unless the node is a repeater by decree
DetectLease ==
    /\ phase = "dhcp"
    /\ IF Predef # "repeater" /\ lease
       THEN phase' = "inet" /\ udhcpc' = TRUE /\ UNCHANGED role
       ELSE phase' = "route" /\ role' = "repeater" /\ UNCHANGED udhcpc
    /\ UNCHANGED <<world, stray, check, failures, loop, reasons, events>>

\* ... and with a lease, inet-test.sh.  A repeater kills its DHCP client with
\* "kill -9": its default route stays, unless init.d/network clears it.
DetectInet ==
    /\ phase = "inet"
    /\ IF inet THEN role' = "gateway" /\ phase' = "up"
               ELSE role' = "repeater" /\ phase' = "route"
    /\ udhcpc' = inet
    /\ stray' \in {FALSE, ~inet}
    /\ UNCHANGED <<world, check, failures, loop, reasons, events>>

\* init.d/olsrd: a default route, and the boot goes on to start cron
RouteFound ==
    /\ phase = "route" /\ (mesh \/ stray)
    /\ phase' = "up"
    /\ UNCHANGED <<world, role, udhcpc, stray, check, failures, loop, reasons, events>>

\* ... or, after five minutes without one, auto-rescue and its reboot
RouteTimeout ==
    /\ phase = "route" /\ ~mesh /\ ~stray
    /\ DoReboot("external")
    /\ UNCHANGED <<world, node, check, failures, loop, events>>

(***************************************************************************)
(* The check-in: dashboard_checkin.sh and watchout4node                    *)
(***************************************************************************)
CheckStart ==
    /\ Up /\ check \in {"idle", "stuck"}
    /\ check' = "udhcpc"
    /\ UNCHANGED <<world, node, failures, loop, reasons, events>>

\* running DHCP clients: the one of the boot, and those of iwag-d
Clients == (IF udhcpc THEN 1 ELSE 0)
           + Cardinality({i \in Loops : loop[i].pc \in {"ask", "done"}})

\* 30_udhcpc: no client is started, three times, then the node reboots; of
\* more than one it gets rid by a reboot
UdhcpcTest ==
    /\ check = "udhcpc"
    /\ IF role = "repeater" \/ Predef = "static" \/ Clients = 1
       THEN check' = "uplink" /\ UNCHANGED <<udhcpc, reasons>>
       ELSE IF Clients = 0 /\ lease
       THEN check' = "uplink" /\ udhcpc' = TRUE /\ UNCHANGED reasons
       ELSE check' = "stuck" /\ DoReboot("udhcpc failure") /\ UNCHANGED udhcpc
    /\ UNCHANGED <<world, role, phase, stray, failures, loop, events>>

Marked == IF failures < MaxMarks THEN failures + 1 ELSE failures

\* either test: no marks any more, and /sbin/update
UplinkGood ==
    /\ check = "uplink"
    /\ IF role = "gateway" THEN inet ELSE mesh
    /\ failures' = 0
    /\ check' = "update"
    /\ UNCHANGED <<world, node, loop, reasons, events>>

\* Mutant of GatewayBad: the marks are wiped by every failed test.
GatewayBadForgets ==
    /\ check = "uplink" /\ role = "gateway" /\ ~inet
    /\ failures' = 0
    /\ IF Marked > 1
       THEN /\ check' = "stuck"
            /\ \E i \in Loops : loop[i].pc = "off" /\ loop' = [loop EXCEPT ![i].pc = "ask"]
       ELSE check' = "idle" /\ UNCHANGED loop
    /\ UNCHANGED <<world, node, reasons, events>>

\* 80_gateway_to_inet: a mark; with the second one iwag-d, which does not
\* return.  (No further instance is counted once all of Loops run.)
GatewayBad ==
    /\ check = "uplink" /\ role = "gateway" /\ ~inet
    /\ failures' = Marked
    /\ IF failures' > 1
       THEN /\ check' = "stuck"
            /\ \/ \E i \in Loops : loop[i].pc = "off" /\ loop' = [loop EXCEPT ![i].pc = "ask"]
               \/ (\A i \in Loops : loop[i].pc # "off") /\ UNCHANGED loop
       ELSE check' = "idle" /\ UNCHANGED loop
    /\ UNCHANGED <<world, node, reasons, events>>

\* Mutant of RepeaterBad: the marks are wiped by every failed test.
RepeaterBadForgets ==
    /\ check = "uplink" /\ role = "repeater" /\ ~mesh
    /\ failures' = 0
    /\ IF Marked > MaxFails
       THEN check' = "stuck" /\ DoReboot("no inet")
       ELSE check' = "idle" /\ UNCHANGED reasons
    /\ UNCHANGED <<world, node, loop, events>>

\* 70_repeater_to_gateway: a mark; with one too many a reboot
RepeaterBad ==
    /\ check = "uplink" /\ role = "repeater" /\ ~mesh
    /\ failures' = Marked
    /\ IF failures' > MaxFails
       THEN check' = "stuck" /\ DoReboot("no inet")
       ELSE check' = "idle" /\ UNCHANGED reasons
    /\ UNCHANGED <<world, node, loop, events>>

\* /sbin/update
Update ==
    /\ check = "update"
    /\ check' = "idle"
    /\ UNCHANGED <<world, node, failures, loop, reasons, events>>

(***************************************************************************)
(* I was a gateway                                                         *)
(***************************************************************************)
\* Mutant of IwagAsk: after the last attempt it ends without REBOOT.
IwagAskGivesUp(i) ==
    /\ loop[i].pc = "ask"
    /\ \/ lease /\ loop' = [loop EXCEPT ![i].pc = "done"] /\ DoReboot("external")
       \/ /\ ~lease /\ loop[i].tried = Attempts
          /\ loop' = [loop EXCEPT ![i].pc = "done"] /\ UNCHANGED reasons
       \/ /\ ~lease /\ loop[i].tried # Attempts
          /\ loop' = [loop EXCEPT ![i].pc = "sleep", ![i].tried = @ + 1] /\ UNCHANGED reasons
    /\ UNCHANGED <<world, node, check, failures, events>>

\* iwag-d: a lease, or one attempt too many, and it reboots
IwagAsk(i) ==
    /\ loop[i].pc = "ask"
    /\ IF lease \/ loop[i].tried = Attempts
       THEN loop' = [loop EXCEPT ![i].pc = "done"] /\ DoReboot("external")
       ELSE loop' = [loop EXCEPT ![i].pc = "sleep", ![i].tried = @ + 1] /\ UNCHANGED reasons
    /\ UNCHANGED <<world, node, check, failures, events>>

IwagSleep(i) ==
    /\ loop[i].pc = "sleep"
    /\ loop' = [loop EXCEPT ![i].pc = "ask"]
    /\ UNCHANGED <<world, node, check, failures, reasons, events>>

\* Mutant of IwagTest: cron runs it on gateways.
IwagTestOnGateways ==
    /\ Up /\ Predef # "repeater" /\ role = "gateway"
    /\ lease
    /\ DoReboot("restore gateway role")
    /\ UNCHANGED <<world, node, check, failures, loop, events>>

\* iwag-test.sh, on the repeaters jobs/30_iwag_check has put it in the crontab
\* of: with a lease, whatever is behind it, the node reboots
IwagTest ==
    /\ Up /\ Predef # "repeater" /\ role = "repeater"
    /\ lease
    /\ DoReboot("restore gateway role")
    /\ UNCHANGED <<world, node, check, failures, loop, events>>

(***************************************************************************)
(* The outside world                                                       *)
(***************************************************************************)
Event == events < MaxEvents /\ events' = events + 1

WorldChanges ==
    /\ Event
    /\ \/ lease' = ~lease /\ UNCHANGED <<inet, mesh>>
       \/ inet' = ~inet /\ UNCHANGED <<lease, mesh>>
       \/ mesh' = ~mesh /\ UNCHANGED <<lease, inet>>
    /\ UNCHANGED <<node, check, failures, loop, reasons>>

UdhcpcDies ==
    /\ Event
    /\ udhcpc /\ udhcpc' = FALSE
    /\ UNCHANGED <<world, role, phase, stray, check, failures, loop, reasons>>

\* 30_udhcpc: the lease is of a network that another node made for its users
BadLease ==
    /\ Event
    /\ check = "udhcpc" /\ role = "gateway" /\ Predef # "static" /\ Clients = 1
    /\ check' = "stuck" /\ DoReboot("bad lease")
    /\ UNCHANGED <<world, node, failures, loop>>

\* preupdate kills a check-in that is late, but not stuck
CheckKill ==
    /\ Event
    /\ check \in {"uplink", "update"} /\ check' = "udhcpc"
    /\ UNCHANGED <<world, node, failures, loop, reasons>>

PowerCycle == Event /\ Restart

Boot == DetectLease \/ DetectInet \/ RouteFound \/ RouteTimeout
Check == CheckStart \/ UdhcpcTest \/ UplinkGood \/ GatewayBad \/ RepeaterBad \/ Update
Iwag(i) == IwagAsk(i) \/ IwagSleep(i)

Next ==
    \/ Boot \/ Reboot \/ Check
    \/ \E i \in Loops : Iwag(i)
    \/ IwagTest
    \/ WorldChanges \/ UdhcpcDies \/ BadLease \/ CheckKill \/ PowerCycle

Spec == Init /\ [][Next]_vars

\* The shells run, cron runs the check-in and iwag-test.sh, a reboot that was
\* asked for happens.
FairSpec ==
    /\ Spec
    /\ WF_vars(Boot) /\ WF_vars(Reboot) /\ WF_vars(Check) /\ WF_vars(IwagTest)
    /\ \A i \in Loops : WF_vars(Iwag(i))

-----------------------------------------------------------------------------
\* A check-in has given up: it hangs in do_reboot or in iwag-d, or its uplink
\* has failed once more than it may.
GivenUp ==
    \/ check = "stuck"
    \/ IF role = "gateway" THEN failures > 1 ELSE failures > MaxFails

\* Giving up never leaves a node to itself: as long as no reboot is asked for,
\* an iwag-d is on its way to one, whichever check-ins run beside it, are
\* killed or start it again.
GivingUpEndsInReboot ==
    GivenUp => reasons # {} \/ \E i \in Loops : loop[i].pc \in {"ask", "sleep"}

\* A node with a lasting uplink becomes a gateway and stays one, whatever the
\* watchdogs have done to it before.
GatewayComesBack == <>[](lease /\ inet) => <>[](role = "gateway")

\* A node that has lost the internet for good stops advertising a way to it.
GatewayFallsBack == <>[]~inet => <>[](role = "repeater")

\* A repeater that finds no gateway does not sit there for ever: it goes on
\* to reboot (and to look for another channel, see ChannelSwitch).
StrandedRetries == <>[](~mesh /\ role = "repeater") => []<>(reasons # {})
=============================================================================
