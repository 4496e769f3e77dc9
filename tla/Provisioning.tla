---------------------------- MODULE Provisioning ----------------------------
(***************************************************************************)
(* The check-in of one node with the dashboard: /sbin/update with          *)
(* checkin-functions.sh and the plugin 10_node_status, the update-X.sh     *)
(* scripts it runs in the order of /etc/update/uci-files, the restart      *)
(* flags those set, and what a boot does with the result.                  *)
(*                                                                         *)
(* A section is one "X" of uci-files; its settings are one value, which a  *)
(* script compares, commits and makes count as a whole.  For each section *)
(*                                                                         *)
(*     dash      is what the dashboard holds,                              *)
(*     believed  what the dashboard thinks the node was given,             *)
(*     file      what the last reply naming it left in /etc/update/X,      *)
(*     conf      what the node committed (uci, or the cached copy the      *)
(*               script compares with),                                    *)
(*     live      what the running node works with.                         *)
(*                                                                         *)
(* "kill -9" is part of normal operation: every check-in kills the one     *)
(* that is still running (preupdate), at whatever line it is.              *)
(***************************************************************************)
EXTENDS Naturals, Sequences

CONSTANTS
    Order,      \* the sections, in the order of uci-files
    Reboots,    \* those whose script sets flags.restart.system on a change
    Portal,     \* those whose script sets flags.restart.cps
    Level,      \* the Portal sections compared with the running portal
    Reread,     \* those the scripts of rc.c read again when they restart
    AtBoot,     \* those preup/60_settings.sh processes again at boot
    Values,     \* the settings a section may have
    Factory,    \* the settings of a new node
    NoFile,     \* no section file yet
    Empty,      \* a zero-size reply
    Faults,     \* kinds of faults that may happen
    MaxFaults,  \* how many of them ("hang" is not counted)
    MaxEdits    \* how often the operator edits the dashboard

Sections == {Order[i] : i \in DOMAIN Order}

FaultKinds == {"kill", "lost", "down", "garbage", "power", "hang"}

ASSUME ProvisioningAssumption ==
    /\ Order \in Seq(Sections)
    /\ \A i, j \in DOMAIN Order : Order[i] = Order[j] => i = j
    /\ Reboots \subseteq Sections /\ Portal \subseteq Sections
    /\ Reboots \cap Portal = {}
    /\ Level \subseteq Portal
    /\ Portal \subseteq Reread /\ Reread \subseteq Sections
    /\ AtBoot \subseteq Sections
    /\ Factory \in Values /\ NoFile \notin Values
    /\ Faults \subseteq FaultKinds
    /\ MaxFaults \in Nat /\ MaxEdits \in Nat

VARIABLES
    dash, believed,   \* the dashboard
    reply,            \* the reply being processed (received, received.old)
    file, conf, live, \* the node's sections
    flags,            \* flags.status.RR, flags.restart.system, flags.restart.cps
    portalUp,         \* the scripts of rc.c run
    update,           \* the running /sbin/update
    rebooting,        \* do_reboot 91 was called
    torn,             \* history: sections whose script was killed after its commit
    faults, edits     \* what happened so far

board == <<dash, believed>>
node == <<file, conf, live>>
hist == <<torn, faults, edits>>
vars == <<dash, believed, reply, file, conf, live, flags, portalUp, update,
          rebooting, torn, faults, edits>>

\* A full or partial reply: new settings for some of the sections.
Settings == UNION {[D -> Values] : D \in SUBSET Sections}

\* A zero-size reply is told from one with settings in it.
ASSUME EmptyAssumption == Empty \notin Settings

\* pc of /sbin/update; "commit" and "effect" are the two halves of the script
\* of section Order[at], "custom0" is custom_update after an empty reply.
PCs == {"idle", "status", "wget", "fetched", "split", "write", "commit",
        "effect", "custom", "flags", "stopped", "started", "custom0"}

Updates == [pc : PCs, at : 1..Len(Order)+1, rr : BOOLEAN, try : 0..1]

TypeOK ==
    /\ dash \in [Sections -> Values] /\ believed \in [Sections -> Values]
    /\ reply \in Settings \cup {Empty}
    /\ file \in [Sections -> Values \cup {NoFile}]
    /\ conf \in [Sections -> Values] /\ live \in [Sections -> Values]
    /\ flags \in [rr : BOOLEAN, system : BOOLEAN, cps : BOOLEAN]
    /\ portalUp \in BOOLEAN
    /\ update \in Updates
    /\ rebooting \in BOOLEAN
    /\ torn \subseteq Sections
    /\ faults \in 0..MaxFaults /\ edits \in 0..MaxEdits

Idle == [pc |-> "idle", at |-> 1, rr |-> FALSE, try |-> 0]

Init ==
    /\ dash = [s \in Sections |-> Factory] /\ believed = dash
    /\ reply = Empty
    /\ file = [s \in Sections |-> NoFile]
    /\ conf = [s \in Sections |-> Factory] /\ live = conf
    /\ flags = [rr |-> TRUE, system |-> FALSE, cps |-> FALSE]
    /\ portalUp = TRUE
    /\ update = Idle
    /\ rebooting = FALSE /\ torn = {}
    /\ faults = 0 /\ edits = 0

At(pc) == update.pc = pc
Goto(pc) == update' = [update EXCEPT !.pc = pc]
Exit == update' = Idle
Restart == update' = [Idle EXCEPT !.pc = "status"]
Fault(kind) == kind \in Faults /\ faults < MaxFaults /\ faults' = faults + 1

(***************************************************************************)
(* Start of a check-in                                                     *)
(***************************************************************************)

\* cron starts dashboard_checkin.sh; nothing is running
Start ==
    /\ At("idle")
    /\ Restart
    /\ UNCHANGED <<board, reply, node, flags, portalUp, rebooting, hist>>

\* preupdate: the previous instance, and the update-X.sh it is in, are killed
Kill ==
    /\ ~At("idle") /\ Fault("kill")
    /\ torn' = IF At("effect") THEN torn \cup {Order[update.at]} ELSE torn
    /\ Restart
    /\ UNCHANGED <<board, reply, node, flags, portalUp, rebooting, edits>>

\* Mutant of ReadStatus: it blanks the restart flags as well.
ReadStatusBlanksFlags ==
    /\ At("status")
    /\ update' = [update EXCEPT !.pc = "wget", !.rr = flags.rr]
    /\ flags' = [rr |-> FALSE, system |-> FALSE, cps |-> FALSE]
    /\ UNCHANGED <<board, reply, node, portalUp, rebooting, hist>>

\* 10_node_status: the request for a full reply goes into the status string,
\* and is forgotten before that string is sent
ReadStatus ==
    /\ At("status")
    /\ update' = [update EXCEPT !.pc = "wget", !.rr = flags.rr]
    /\ flags' = [flags EXCEPT !.rr = FALSE]
    /\ UNCHANGED <<board, reply, node, portalUp, rebooting, hist>>

(***************************************************************************)
(* do_checkin: wget to the dashboard, then to its fallback address.  The   *)
(* dashboard (not in this repository) answers in full when asked to, and   *)
(* otherwise with at least the sections it changed since it last answered. *)
(***************************************************************************)
Changed == {s \in Sections : dash[s] # believed[s]}

Answer ==
    /\ At("wget")
    /\ \E D \in SUBSET Sections :
         /\ IF update.rr THEN D = Sections ELSE Changed \subseteq D
         /\ reply' = IF D = {} THEN Empty ELSE [s \in D |-> dash[s]]
    /\ believed' = dash
    /\ Goto("fetched")
    /\ UNCHANGED <<dash, node, flags, portalUp, rebooting, hist>>

\* the fallback address is tried once, then the script exits
Retry == IF update.try = 0 THEN update' = [update EXCEPT !.try = 1] ELSE Exit

\* no connection
WgetDown ==
    /\ At("wget") /\ Fault("down")
    /\ reply' = Empty
    /\ Retry
    /\ UNCHANGED <<board, node, flags, portalUp, rebooting, torn, edits>>

\* the dashboard answered, the answer did not arrive
WgetLost ==
    /\ At("wget") /\ Fault("lost")
    /\ believed' = dash
    /\ reply' = Empty
    /\ Retry
    /\ UNCHANGED <<dash, node, flags, portalUp, rebooting, torn, edits>>

\* somebody else answered: no '#@#' in it, request_full_reply
Garbage ==
    /\ At("wget") /\ Fault("garbage")
    /\ flags' = [flags EXCEPT !.rr = TRUE]
    /\ Exit
    /\ UNCHANGED <<board, reply, node, portalUp, rebooting, torn, edits>>

(***************************************************************************)
(* Applying a reply                                                        *)
(***************************************************************************)
KeepReply ==
    /\ At("fetched") /\ reply # Empty
    /\ Goto("split")
    /\ UNCHANGED <<board, reply, node, flags, portalUp, rebooting, hist>>

\* pre_process_reply: one file per section the reply names; the old one is
\* removed first.  The file of a section it does not name stays, and its
\* script will run on it again.
SplitReply ==
    /\ At("split")
    /\ IF update.at > Len(Order)
       THEN update' = [update EXCEPT !.pc = "commit", !.at = 1] /\ UNCHANGED file
       ELSE IF Order[update.at] \in DOMAIN reply
       THEN file' = [file EXCEPT ![Order[update.at]] = NoFile] /\ Goto("write")
       ELSE update' = [update EXCEPT !.at = @ + 1] /\ UNCHANGED file
    /\ UNCHANGED <<board, reply, conf, live, flags, portalUp, rebooting, hist>>

WriteSection ==
    /\ At("write")
    /\ file' = [file EXCEPT ![Order[update.at]] = reply[Order[update.at]]]
    /\ update' = [update EXCEPT !.pc = "split", !.at = @ + 1]
    /\ UNCHANGED <<board, reply, conf, live, flags, portalUp, rebooting, hist>>

NextScript == [update EXCEPT !.pc = "commit", !.at = @ + 1]

\* Mutants of Differs: the script runs without its file; it does not compare.
DiffersWithoutFile(s) == file[s] # conf[s]
DiffersAlways(s) == file[s] # NoFile

Differs(s) == file[s] # NoFile /\ file[s] # IF s \in Level THEN live[s] ELSE conf[s]

\* update-X.sh: compare, and commit what differs
Commit ==
    /\ At("commit") /\ update.at <= Len(Order)
    /\ LET s == Order[update.at]
       IN IF Differs(s)
          THEN conf' = [conf EXCEPT ![s] = file[s]] /\ Goto("effect")
          ELSE update' = NextScript /\ UNCHANGED conf
    /\ UNCHANGED <<board, reply, file, live, flags, portalUp, rebooting, hist>>

\* ... then make the change count: a restart flag, or the change itself
Effect ==
    /\ At("effect")
    /\ LET s == Order[update.at]
       IN /\ flags' = [flags EXCEPT !.system = @ \/ s \in Reboots,
                                    !.cps = @ \/ s \in Portal]
          /\ live' = IF s \in Reboots \cup Portal THEN live ELSE [live EXCEPT ![s] = conf[s]]
          /\ torn' = torn \ {s}
    /\ update' = NextScript
    /\ UNCHANGED <<board, reply, file, conf, portalUp, rebooting, faults, edits>>

LastScript ==
    /\ At("commit") /\ update.at > Len(Order)
    /\ Goto("custom")
    /\ UNCHANGED <<board, reply, node, flags, portalUp, rebooting, hist>>

\* an empty reply: only the custom update and the heartbeat
NothingNew ==
    /\ At("fetched") /\ reply = Empty
    /\ Goto("custom0")
    /\ UNCHANGED <<board, reply, node, flags, portalUp, rebooting, hist>>

\* custom_update and heartbeat
Custom ==
    /\ \/ At("custom") /\ Goto("flags")
       \/ At("custom0") /\ Exit
    /\ UNCHANGED <<board, reply, node, flags, portalUp, rebooting, hist>>

\* the wget of custom_update has no timeout: the next check-in kills it
CustomKilled ==
    /\ "hang" \in Faults
    /\ At("custom") \/ At("custom0")
    /\ Restart
    /\ UNCHANGED <<board, reply, node, flags, portalUp, rebooting, hist>>

(***************************************************************************)
(* The flags                                                               *)
(***************************************************************************)
\* Mutant of CheckFlags: the flag is cleared before the portal is restarted.
CheckFlagsClearsFirst ==
    /\ At("flags")
    /\ IF flags.system THEN rebooting' = TRUE /\ Exit /\ UNCHANGED <<portalUp, flags>>
       ELSE /\ IF flags.cps THEN Goto("stopped") /\ portalUp' = FALSE
                            ELSE Exit /\ UNCHANGED portalUp
            /\ flags' = [flags EXCEPT !.cps = FALSE]
            /\ UNCHANGED rebooting
    /\ UNCHANGED <<board, reply, node, hist>>

CheckFlags ==
    /\ At("flags")
    /\ IF flags.system THEN rebooting' = TRUE /\ Exit /\ UNCHANGED portalUp
       ELSE /\ IF flags.cps THEN Goto("stopped") /\ portalUp' = FALSE
                            ELSE Exit /\ UNCHANGED portalUp
            /\ UNCHANGED rebooting
    /\ UNCHANGED <<board, reply, node, flags, hist>>

\* after "sleep 3" the scripts of rc.c start again and read their settings
StartPortal ==
    /\ At("stopped")
    /\ portalUp' = TRUE
    /\ live' = [s \in Sections |-> IF s \in Reread THEN conf[s] ELSE live[s]]
    /\ torn' = torn \ Reread
    /\ Goto("started")
    /\ UNCHANGED <<board, reply, file, conf, flags, rebooting, faults, edits>>

ClearPortalFlag ==
    /\ At("started")
    /\ flags' = [flags EXCEPT !.cps = FALSE]
    /\ Exit
    /\ UNCHANGED <<board, reply, node, portalUp, rebooting, hist>>

(***************************************************************************)
(* Boot: 40_blank_flags, 60_settings, then every service starts on conf.   *)
(* update-nodog.sh sets its flag at boot too.                              *)
(***************************************************************************)
BootConf == [s \in Sections |-> IF s \in AtBoot /\ file[s] # NoFile THEN file[s] ELSE conf[s]]
\* Mutant of BootFlags: a boot does not ask for a full reply.
BootFlagsNoRequest == [rr |-> FALSE, system |-> FALSE, cps |-> FALSE]

BootFlags == [rr |-> TRUE, system |-> FALSE,
              cps |-> \E s \in Level \cap AtBoot : Differs(s)]

Boot ==
    /\ conf' = BootConf /\ live' = conf'
    /\ flags' = BootFlags
    /\ portalUp' = TRUE
    /\ torn' = {}
    /\ update' = Idle /\ rebooting' = FALSE
    /\ UNCHANGED <<board, reply, file, edits>>

Reboot == rebooting /\ Boot /\ UNCHANGED faults
PowerCycle == Fault("power") /\ Boot

Edit ==
    /\ edits < MaxEdits /\ edits' = edits + 1
    /\ \E s \in Sections, v \in Values : dash' = [dash EXCEPT ![s] = v]
    /\ UNCHANGED <<believed, reply, node, flags, portalUp, update, rebooting, torn, faults>>

Step == \/ ReadStatus \/ Answer
        \/ KeepReply \/ SplitReply \/ WriteSection \/ Commit \/ Effect \/ LastScript
        \/ NothingNew \/ Custom \/ CustomKilled
        \/ CheckFlags \/ StartPortal \/ ClearPortalFlag

Next == Start \/ Step \/ Kill \/ WgetDown \/ WgetLost \/ Garbage
        \/ Reboot \/ PowerCycle \/ Edit

Spec == Init /\ [][Next]_vars

\* cron starts a check-in every few minutes, the shell runs on, and a reboot
\* that was asked for happens.
FairSpec == Spec /\ WF_vars(Start) /\ WF_vars(Step) /\ WF_vars(Reboot)

-----------------------------------------------------------------------------
Flagged(s) == \/ s \in Reboots /\ (flags.system \/ rebooting)
              \/ s \in Portal /\ flags.cps
InEffect(s) == At("effect") /\ Order[update.at] = s

\* No committed change is forgotten: while the node still runs with other
\* settings than it has committed, the restart that will bring them in is
\* flagged, or the script that will do it is running -- unless that script
\* was killed between its "uci commit" and what comes after it.  Every other
\* line of update may be killed.
ChangeIsPending ==
    \A s \in Sections : conf[s] # live[s] => Flagged(s) \/ InEffect(s) \/ s \in torn

\* A captive portal that update has stopped is still flagged for a restart,
\* wherever update is killed (the flag is cleared last).
StoppedPortalIsFlagged == ~portalUp => flags.cps

\* "zero-size reply: assuming that current config is correct (in sync with
\* dashboard)": whoever gets one runs what the dashboard thinks it runs,
\* or is about to reboot into it.
EmptyReplyMeansInSync == At("custom0") /\ ~rebooting => live = believed

\* When the operator stops editing, the node ends up with the dashboard's
\* settings, and stays there (no reboot loop).
Converges == <>[](live = dash /\ ~rebooting)
=============================================================================
