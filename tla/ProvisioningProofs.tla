------------------------- MODULE ProvisioningProofs -------------------------
(***************************************************************************)
(* What holds of Provisioning for every list of sections, every set of     *)
(* values, every kind and number of faults.                                *)
(***************************************************************************)
EXTENDS Provisioning, TLAPS

LEMMA LenOrder == Len(Order) \in Nat
  BY ProvisioningAssumption

LEMMA SectionAt ==
    ASSUME NEW i \in 1..Len(Order)
    PROVE  Order[i] \in Sections
  BY ProvisioningAssumption DEF Sections

LEMMA IdleType == Idle \in Updates
<1>1. "idle" \in PCs
  BY DEF PCs
<1>2. 1 \in 1..Len(Order)+1
  BY LenOrder
<1> QED BY <1>1, <1>2 DEF Idle, Updates

\* Moving to another line of update keeps the type of its record.
LEMMA GotoType ==
    ASSUME NEW u \in Updates, NEW pc \in PCs
    PROVE  [u EXCEPT !.pc = pc] \in Updates
  BY DEF Updates

LEMMA RestartType == [Idle EXCEPT !.pc = "status"] \in Updates
<1>1. "status" \in PCs
  BY DEF PCs
<1> QED BY <1>1, IdleType, GotoType

LEMMA NextScriptType ==
    ASSUME update \in Updates, update.at <= Len(Order)
    PROVE  NextScript \in Updates
<1>1. "commit" \in PCs
  BY DEF PCs
<1>2. update.at + 1 \in 1..Len(Order)+1
  BY LenOrder DEF Updates
<1> QED BY <1>1, <1>2 DEF NextScript, Updates

-----------------------------------------------------------------------------
\* A script only takes effect for a section of the list, only a reply with
\* something in it is split, and only what it names is written.
TypeInv == /\ TypeOK
           /\ At("effect") => update.at <= Len(Order)
           /\ At("split") => reply \in Settings
           /\ At("write") => /\ update.at <= Len(Order)
                             /\ reply \in Settings /\ Order[update.at] \in DOMAIN reply

LEMMA TypeInvStep == TypeInv /\ [Next]_vars => TypeInv'
  <1> SUFFICES ASSUME TypeInv, [Next]_vars PROVE TypeInv'
    OBVIOUS
  <1> USE DEF TypeInv, TypeOK, At, Goto, Exit, Restart, board, node, hist
  <1>0. Idle.pc = "idle" /\ [Idle EXCEPT !.pc = "status"].pc = "status"
    BY DEF Idle
  <1>1. CASE Start
    BY <1>1, <1>0, RestartType DEF Start
  <1>2. CASE Step
    <2>1. CASE ReadStatus
      <3>1. "wget" \in PCs
        BY DEF PCs
      <3> QED BY <2>1, <3>1 DEF ReadStatus, Updates
    <2>2. CASE Answer
      <3>1. "fetched" \in PCs
        BY DEF PCs
      <3>2. update' \in Updates /\ update'.pc = "fetched"
        BY <2>2, <3>1, GotoType DEF Answer, Updates
      <3>3. reply' \in Settings \cup {Empty}
        BY <2>2 DEF Answer, Settings
      <3> QED BY <2>2, <3>2, <3>3 DEF Answer
    <2>3. CASE KeepReply
      <3>1. "split" \in PCs
        BY DEF PCs
      <3> QED BY <2>3, <3>1, GotoType DEF KeepReply, Updates
    <2>4. CASE SplitReply
      <3>1. "commit" \in PCs /\ "write" \in PCs /\ 1 \in 1..Len(Order)+1
        BY LenOrder DEF PCs
      <3>2. CASE update.at > Len(Order)
        <4>1. update' \in Updates /\ update'.pc = "commit"
          BY <2>4, <3>1, <3>2 DEF SplitReply, Updates
        <4> QED BY <2>4, <3>2, <4>1 DEF SplitReply
      <3>3. CASE update.at <= Len(Order)
        <4>1. update.at \in 1..Len(Order) /\ update.at + 1 \in 1..Len(Order)+1
          BY <3>3, LenOrder DEF Updates
        <4>2. CASE Order[update.at] \in DOMAIN reply
          <5>1. update' \in Updates /\ update'.pc = "write" /\ update'.at = update.at
            BY <2>4, <3>1, <4>1, <4>2, GotoType DEF SplitReply, Updates
          <5>2. file' \in [Sections -> Values \cup {NoFile}]
            BY <2>4, <4>1, <4>2, SectionAt DEF SplitReply
          <5> QED BY <2>4, <3>3, <4>2, <5>1, <5>2 DEF SplitReply
        <4>3. CASE Order[update.at] \notin DOMAIN reply
          <5>1. update' \in Updates /\ update'.pc = "split" /\ UNCHANGED file
            BY <2>4, <4>1, <4>3 DEF SplitReply, Updates
          <5> QED BY <2>4, <5>1 DEF SplitReply
        <4> QED BY <4>2, <4>3
      <3>4. update.at <= Len(Order) \/ update.at > Len(Order)
        BY LenOrder DEF Updates
      <3> QED BY <3>2, <3>3, <3>4
    <2>14. CASE WriteSection
      <3>1. "split" \in PCs
        BY DEF PCs
      <3>2. update.at \in 1..Len(Order) /\ update.at + 1 \in 1..Len(Order)+1
        BY <2>14, LenOrder DEF WriteSection, Updates
      <3>3. update' \in Updates /\ update'.pc = "split"
        BY <2>14, <3>1, <3>2 DEF WriteSection, Updates
      <3>4. reply[Order[update.at]] \in Values
        BY <2>14 DEF WriteSection, Settings
      <3>5. file' \in [Sections -> Values \cup {NoFile}]
        BY <2>14, <3>2, <3>4, SectionAt DEF WriteSection
      <3> QED BY <2>14, <3>3, <3>5 DEF WriteSection
    <2>5. CASE Commit
      <3>1. "effect" \in PCs /\ "commit" # "effect"
        BY DEF PCs
      <3>2. update.at \in 1..Len(Order)
        BY <2>5, LenOrder DEF Commit, Updates
      <3>3. update' \in Updates /\ (update'.pc = "effect" => update'.at <= Len(Order))
                               /\ update'.pc \notin {"split", "write"}
        <4>1. CASE Differs(Order[update.at])
          BY <2>5, <3>1, <3>2, <4>1, GotoType DEF Commit, Updates
        <4>2. CASE ~Differs(Order[update.at])
          BY <2>5, <3>1, <3>2, <4>2, NextScriptType DEF Commit, Updates, NextScript
        <4> QED BY <4>1, <4>2
      <3>4. conf' \in [Sections -> Values]
        BY <2>5, <3>2, SectionAt DEF Commit, Differs
      <3> QED BY <2>5, <3>3, <3>4 DEF Commit
    <2>6. CASE Effect
      <3>1. update.at \in 1..Len(Order)
        BY <2>6, LenOrder DEF Effect, Updates
      <3>2. update' \in Updates /\ update'.pc = "commit"
        BY <2>6, <3>1, NextScriptType DEF Effect, NextScript, Updates
      <3>3. flags' \in [rr : BOOLEAN, system : BOOLEAN, cps : BOOLEAN]
        BY <2>6 DEF Effect
      <3>4. live' \in [Sections -> Values]
        BY <2>6, <3>1, SectionAt DEF Effect
      <3>5. torn' \subseteq Sections
        BY <2>6 DEF Effect
      <3> QED BY <2>6, <3>2, <3>3, <3>4, <3>5 DEF Effect
    <2>7. CASE LastScript
      <3>1. "custom" \in PCs
        BY DEF PCs
      <3> QED BY <2>7, <3>1, GotoType DEF LastScript, Updates
    <2>8. CASE NothingNew
      <3>1. "custom0" \in PCs
        BY DEF PCs
      <3> QED BY <2>8, <3>1, GotoType DEF NothingNew, Updates
    <2>9. CASE Custom
      <3>1. "flags" \in PCs
        BY DEF PCs
      <3> QED BY <2>9, <3>1, <1>0, IdleType, GotoType DEF Custom, Updates
    <2>10. CASE CustomKilled
      BY <2>10, <1>0, RestartType DEF CustomKilled
    <2>11. CASE CheckFlags
      <3>1. "stopped" \in PCs
        BY DEF PCs
      <3>2. update' \in Updates /\ update'.pc \in {"idle", "stopped"}
        BY <2>11, <3>1, <1>0, IdleType, GotoType DEF CheckFlags, Updates
      <3> QED BY <2>11, <3>2 DEF CheckFlags
    <2>12. CASE StartPortal
      <3>1. "started" \in PCs
        BY DEF PCs
      <3>2. update' \in Updates /\ update'.pc = "started"
        BY <2>12, <3>1, GotoType DEF StartPortal, Updates
      <3> QED BY <2>12, <3>2 DEF StartPortal
    <2>13. CASE ClearPortalFlag
      BY <2>13, <1>0, IdleType DEF ClearPortalFlag
    <2> QED
      BY <1>2, <2>1, <2>2, <2>3, <2>4, <2>5, <2>6, <2>7, <2>8, <2>9, <2>10, <2>11, <2>12, <2>13, <2>14
      DEF Step
  <1>3. CASE Kill
    <2>1. update' \in Updates /\ update'.pc = "status"
      BY <1>3, <1>0, RestartType DEF Kill
    <2>2. torn' \subseteq Sections
      <3>1. CASE At("effect")
        <4>1. update.at \in 1..Len(Order)
          BY <3>1, LenOrder DEF Updates
        <4> QED BY <1>3, <3>1, <4>1, SectionAt DEF Kill
      <3>2. CASE ~At("effect")
        BY <1>3, <3>2 DEF Kill
      <3> QED BY <3>1, <3>2
    <2> QED BY <1>3, <2>1, <2>2, ProvisioningAssumption DEF Kill, Fault
  <1>4. ASSUME Retry, At("wget")
        PROVE  update' \in Updates /\ update'.pc \in {"idle", "wget"}
    <2>1. CASE update.try = 0
      BY <1>4, <2>1 DEF Retry, Updates
    <2>2. CASE update.try # 0
      BY <1>4, <2>2, <1>0, IdleType DEF Retry
    <2> QED BY <2>1, <2>2
  <1>5. CASE WgetDown
    BY <1>5, <1>4, ProvisioningAssumption DEF WgetDown, Fault
  <1>6. CASE WgetLost
    BY <1>6, <1>4, ProvisioningAssumption DEF WgetLost, Fault
  <1>7. CASE Garbage
    <2>1. flags' \in [rr : BOOLEAN, system : BOOLEAN, cps : BOOLEAN]
      BY <1>7 DEF Garbage
    <2>2. faults' \in 0..MaxFaults
      BY <1>7, ProvisioningAssumption DEF Garbage, Fault
    <2> QED BY <1>7, <1>0, <2>1, <2>2, IdleType DEF Garbage
  <1>8. ASSUME Boot, faults' \in 0..MaxFaults PROVE TypeInv'
    <2>1. conf' \in [Sections -> Values]
      BY <1>8 DEF Boot, BootConf
    <2>2. flags' \in [rr : BOOLEAN, system : BOOLEAN, cps : BOOLEAN]
      BY <1>8 DEF Boot, BootFlags
    <2> QED BY <1>8, <1>0, <2>1, <2>2, IdleType DEF Boot
  <1>9. CASE Reboot
    BY <1>9, <1>8 DEF Reboot
  <1>10. CASE PowerCycle
    BY <1>10, <1>8, ProvisioningAssumption DEF PowerCycle, Fault
  <1>11. CASE Edit
    <2>1. dash' \in [Sections -> Values]
      BY <1>11 DEF Edit
    <2>2. edits' \in 0..MaxEdits
      BY <1>11, ProvisioningAssumption DEF Edit
    <2> QED BY <1>11, <2>1, <2>2 DEF Edit
  <1>12. CASE UNCHANGED vars
    BY <1>12 DEF vars
  <1> QED
    BY <1>1, <1>2, <1>3, <1>5, <1>6, <1>7, <1>9, <1>10, <1>11, <1>12 DEF Next

LEMMA TypeInvInit == Init => TypeInv
  <1> SUFFICES ASSUME Init PROVE TypeInv
    OBVIOUS
  <1>1. Idle.pc = "idle"
    BY DEF Idle
  <1>2. Factory \in Values /\ 0 \in 0..MaxFaults /\ 0 \in 0..MaxEdits
    BY ProvisioningAssumption
  <1> QED BY <1>1, <1>2, IdleType DEF Init, TypeInv, TypeOK, At

\* The state of the node and of its check-in always has its type.
THEOREM TypeCorrect == Spec => []TypeOK
<1>1. TypeInv => TypeOK
  BY DEF TypeInv
<1> QED BY TypeInvInit, TypeInvStep, <1>1, PTL DEF Spec

-----------------------------------------------------------------------------
\* The conjunct that ChangeIsPending needs at the last line of update: the
\* flag is cleared when the portal runs with what is committed.
Restarted == At("started") => portalUp /\ \A s \in Reread : conf[s] = live[s]

IInv == TypeInv /\ Restarted /\ ChangeIsPending /\ StoppedPortalIsFlagged

LEMMA IInvInit == Init => IInv
<1> SUFFICES ASSUME Init PROVE IInv
  OBVIOUS
<1>1. Idle.pc = "idle"
  BY DEF Idle
<1> QED
  BY <1>1, TypeInvInit DEF Init, IInv, Restarted, ChangeIsPending, StoppedPortalIsFlagged, At

\* Steps that leave conf, live, torn and the portal alone, keep what is
\* flagged flagged and do not leave a script half done.
LEMMA QuietStep ==
    ASSUME IInv, TypeInv', UNCHANGED <<conf, live, torn, portalUp>>,
           flags.system => flags'.system, flags.cps => flags'.cps,
           rebooting => rebooting',
           ~At("effect"), update'.pc # "started"
    PROVE  IInv'
<1>1. ASSUME NEW s \in Sections, conf'[s] # live'[s]
      PROVE  Flagged(s)' \/ InEffect(s)' \/ s \in torn'
  <2>1. Flagged(s) \/ s \in torn
    BY <1>1 DEF IInv, ChangeIsPending, InEffect
  <2> QED BY <2>1 DEF Flagged
<1>2. ChangeIsPending'
  BY <1>1 DEF ChangeIsPending
<1>3. StoppedPortalIsFlagged'
  BY DEF IInv, StoppedPortalIsFlagged
<1>4. Restarted'
  BY DEF Restarted, At
<1> QED BY <1>2, <1>3, <1>4 DEF IInv

LEMMA IInvStep == IInv /\ [Next]_vars => IInv'
<1> SUFFICES ASSUME IInv, [Next]_vars PROVE IInv'
  OBVIOUS
<1>0. TypeInv'
  BY TypeInvStep DEF IInv
<1>a. Idle.pc = "idle" /\ [Idle EXCEPT !.pc = "status"].pc = "status"
  BY DEF Idle
<1>b. /\ flags \in [rr : BOOLEAN, system : BOOLEAN, cps : BOOLEAN]
      /\ update \in Updates
      /\ conf \in [Sections -> Values] /\ live \in [Sections -> Values]
  BY DEF IInv, TypeInv, TypeOK
<1> USE DEF At, Goto, Exit, Restart, board, node, hist
<1>1. CASE Start
  BY <1>0, <1>1, <1>a, QuietStep DEF Start
<1>2. CASE Step
  <2>1. CASE ReadStatus
    BY <2>1, <1>0, <1>b, QuietStep DEF ReadStatus, Updates
  <2>2. CASE Answer \/ KeepReply \/ LastScript \/ NothingNew
    BY <2>2, <1>0, <1>b, QuietStep DEF Answer, KeepReply, LastScript, NothingNew, Updates
  <2>3. CASE SplitReply \/ WriteSection
    <3>1. /\ update'.pc \in {"commit", "split", "write"} /\ ~At("effect")
          /\ UNCHANGED <<conf, live, torn, portalUp, flags, rebooting>>
      BY <2>3, <1>b DEF SplitReply, WriteSection, Updates
    <3> QED BY <3>1, <1>0, QuietStep
  <2>4. CASE Commit
    <3> DEFINE s == Order[update.at]
    <3>1. CASE Differs(s)
      <4>1. /\ conf' = [conf EXCEPT ![s] = file[s]] /\ update'.pc = "effect"
            /\ update'.at = update.at
            /\ UNCHANGED <<live, flags, portalUp, rebooting, torn>>
        BY <2>4, <3>1, <1>b DEF Commit, Updates
      <4>2. ASSUME NEW r \in Sections, conf'[r] # live'[r]
            PROVE  Flagged(r)' \/ InEffect(r)' \/ r \in torn'
        <5>1. CASE r = s
          BY <4>1, <5>1 DEF InEffect
        <5>2. CASE r # s
          <6>1. conf[r] # live[r]
            BY <4>1, <4>2, <5>2, <1>b
          <6>2. Flagged(r) \/ r \in torn
            BY <6>1, <2>4 DEF IInv, ChangeIsPending, InEffect, Commit
          <6> QED BY <6>2, <4>1 DEF Flagged
        <5> QED BY <5>1, <5>2
      <4> QED
        BY <4>1, <4>2, <1>0 DEF IInv, ChangeIsPending, StoppedPortalIsFlagged, Restarted
    <3>2. CASE ~Differs(s)
      BY <2>4, <3>2, <1>0, <1>b, QuietStep DEF Commit, NextScript, Updates
    <3> QED BY <3>1, <3>2
  <2>5. CASE Effect
    <3> DEFINE s == Order[update.at]
    <3>1. /\ update'.pc = "commit"
          /\ UNCHANGED <<conf, portalUp, rebooting>>
          /\ torn' = torn \ {s}
      BY <2>5, <1>b DEF Effect, NextScript, Updates
    <3>2. /\ flags.system => flags'.system
          /\ flags.cps => flags'.cps
          /\ s \in Reboots => flags'.system
          /\ s \in Portal => flags'.cps
      BY <2>5, <1>b DEF Effect
    <3>3. ASSUME NEW r \in Sections, conf'[r] # live'[r]
          PROVE  Flagged(r)' \/ InEffect(r)' \/ r \in torn'
      <4>1. CASE r = s
        <5>1. r \in Reboots \cup Portal
          BY <2>5, <3>1, <3>3, <4>1, <1>b DEF Effect
        <5> QED BY <5>1, <4>1, <3>2 DEF Flagged
      <4>2. CASE r # s
        <5>1. live'[r] = live[r]
          BY <2>5, <4>2, <1>b DEF Effect
        <5>2. Flagged(r) \/ r \in torn
          BY <5>1, <4>2, <3>1, <3>3 DEF IInv, ChangeIsPending, InEffect
        <5> QED BY <5>2, <4>2, <3>1, <3>2 DEF Flagged
      <4> QED BY <4>1, <4>2
    <3> QED
      BY <3>1, <3>2, <3>3, <1>0 DEF IInv, ChangeIsPending, StoppedPortalIsFlagged, Restarted
  <2>6. CASE Custom \/ CustomKilled
    <3>1. ~At("effect") /\ update'.pc \in {"flags", "idle", "status"}
      BY <2>6, <1>a, <1>b DEF Custom, CustomKilled, Updates
    <3> QED BY <2>6, <3>1, <1>0, QuietStep DEF Custom, CustomKilled
  <2>7. CASE CheckFlags
    <3>1. CASE ~flags.system /\ flags.cps
      <4>1. /\ update'.pc = "stopped" /\ portalUp' = FALSE
            /\ UNCHANGED <<conf, live, torn, flags, rebooting>>
        BY <2>7, <3>1, <1>b DEF CheckFlags, Updates
      <4>2. ASSUME NEW r \in Sections, conf'[r] # live'[r]
            PROVE  Flagged(r)' \/ InEffect(r)' \/ r \in torn'
        BY <2>7, <4>1, <4>2 DEF IInv, ChangeIsPending, InEffect, Flagged, CheckFlags
      <4> QED
        BY <3>1, <4>1, <4>2, <1>0 DEF IInv, ChangeIsPending, StoppedPortalIsFlagged, Restarted
    <3>2. CASE flags.system \/ ~flags.cps
      BY <2>7, <3>2, <1>0, <1>a, <1>b, QuietStep DEF CheckFlags, Updates
    <3> QED BY <3>1, <3>2
  <2>8. CASE StartPortal
    <3>1. /\ update'.pc = "started" /\ portalUp'
          /\ UNCHANGED <<conf, flags, rebooting>> /\ torn' = torn \ Reread
          /\ live' = [s \in Sections |-> IF s \in Reread THEN conf[s] ELSE live[s]]
      BY <2>8, <1>b DEF StartPortal, Updates
    <3>2. ASSUME NEW r \in Sections, conf'[r] # live'[r]
          PROVE  Flagged(r)' \/ InEffect(r)' \/ r \in torn'
      <4>1. r \notin Reread /\ live'[r] = live[r]
        BY <3>1, <3>2
      <4>2. Flagged(r) \/ r \in torn
        BY <4>1, <3>1, <3>2, <2>8 DEF IInv, ChangeIsPending, InEffect, StartPortal
      <4> QED BY <4>1, <4>2, <3>1 DEF Flagged
    <3>3. Restarted'
      BY <3>1, ProvisioningAssumption DEF Restarted
    <3> QED
      BY <3>1, <3>2, <3>3, <1>0 DEF IInv, ChangeIsPending, StoppedPortalIsFlagged
  <2>9. CASE ClearPortalFlag
    <3>1. /\ UNCHANGED <<conf, live, torn, portalUp, rebooting>>
          /\ flags'.system = flags.system /\ update'.pc = "idle"
      BY <2>9, <1>a, <1>b DEF ClearPortalFlag
    <3>2. portalUp /\ \A s \in Reread : conf[s] = live[s]
      BY <2>9 DEF IInv, Restarted, ClearPortalFlag
    <3>3. ASSUME NEW r \in Sections, conf'[r] # live'[r]
          PROVE  Flagged(r)' \/ InEffect(r)' \/ r \in torn'
      <4>1. r \notin Portal
        BY <3>1, <3>2, <3>3, ProvisioningAssumption
      <4>2. Flagged(r) \/ r \in torn
        BY <3>1, <3>3, <2>9 DEF IInv, ChangeIsPending, InEffect, ClearPortalFlag
      <4> QED BY <4>1, <4>2, <3>1 DEF Flagged
    <3> QED
      BY <3>1, <3>2, <3>3, <1>0 DEF IInv, ChangeIsPending, StoppedPortalIsFlagged, Restarted
  <2> QED
    BY <1>2, <2>1, <2>2, <2>3, <2>4, <2>5, <2>6, <2>7, <2>8, <2>9 DEF Step
<1>3. CASE Kill
  <2>1. /\ update'.pc = "status"
        /\ UNCHANGED <<conf, live, flags, portalUp, rebooting>>
        /\ torn' = IF At("effect") THEN torn \cup {Order[update.at]} ELSE torn
    BY <1>3, <1>a DEF Kill
  <2>2. ASSUME NEW r \in Sections, conf'[r] # live'[r]
        PROVE  Flagged(r)' \/ InEffect(r)' \/ r \in torn'
    BY <2>1, <2>2 DEF IInv, ChangeIsPending, InEffect, Flagged
  <2> QED
    BY <2>1, <2>2, <1>0 DEF IInv, ChangeIsPending, StoppedPortalIsFlagged, Restarted
<1>4. CASE WgetDown \/ WgetLost
  BY <1>4, <1>0, <1>a, <1>b, QuietStep DEF WgetDown, WgetLost, Retry, Updates
<1>5. CASE Garbage
  BY <1>5, <1>0, <1>a, <1>b, QuietStep DEF Garbage
<1>6. CASE Boot
  <2>1. live' = conf' /\ portalUp' /\ update'.pc = "idle"
    BY <1>6, <1>a DEF Boot
  <2> QED
    BY <2>1, <1>0 DEF IInv, ChangeIsPending, StoppedPortalIsFlagged, Restarted
<1>7. CASE Edit
  <2>1. UNCHANGED <<conf, live, flags, portalUp, update, rebooting, torn>>
    BY <1>7 DEF Edit
  <2> QED
    BY <2>1, <1>0 DEF IInv, ChangeIsPending, StoppedPortalIsFlagged, Restarted, Flagged, InEffect
<1>8. CASE UNCHANGED vars
  BY <1>8, <1>0 DEF vars, IInv, ChangeIsPending, StoppedPortalIsFlagged, Restarted, Flagged, InEffect
<1> QED
  BY <1>1, <1>2, <1>3, <1>4, <1>5, <1>6, <1>7, <1>8 DEF Next, Reboot, PowerCycle

\* Whatever is killed, lost or restarted: a committed change is flagged, being
\* made, or belongs to a script killed between its commit and its flag.
THEOREM NoChangeForgotten == Spec => []ChangeIsPending
<1>1. IInv => ChangeIsPending
  BY DEF IInv
<1> QED BY IInvInit, IInvStep, <1>1, PTL DEF Spec

\* A captive portal stopped by update stays flagged until it runs again.
THEOREM PortalComesBack == Spec => []StoppedPortalIsFlagged
<1>1. IInv => StoppedPortalIsFlagged
  BY DEF IInv
<1> QED BY IInvInit, IInvStep, <1>1, PTL DEF Spec

-----------------------------------------------------------------------------
(* What an empty reply means.  A check-in that nobody kills either gets     *)
(* through with a reply or leaves the node as the dashboard believes it to  *)
(* be; a boot asks for a full reply.  The request is forgotten when it was  *)
(* put into the status string, so both addresses of one check-in must not   *)
(* be down: with two of these faults, and a reboot before them, the empty   *)
(* reply of the next check-in finds a node that is not in sync.             *)

\* The section is what the dashboard believes, with nothing left to do.
Kept(s) == live[s] = believed[s] /\ conf[s] = believed[s] /\ file[s] \in {NoFile, believed[s]}

\* The reply has what the dashboard believes, or there is nothing to say.
Answered(s) ==
    IF s \in DOMAIN reply THEN reply[s] = believed[s] ELSE Kept(s)

\* The file has what the dashboard believes, or there is nothing to do.
Filed(s) == conf[s] = live[s] /\ (file[s] = believed[s] \/ Kept(s))

\* The script has run: what is not in effect yet is flagged.
Settled(s) ==
    /\ file[s] \in {NoFile, believed[s]} /\ conf[s] = believed[s]
    /\ \/ live[s] = believed[s]
       \/ s \in Reboots /\ flags.system
       \/ s \in Portal /\ flags.cps

\* How far the node follows the dashboard, line by line of update.
Follows ==
    /\ \A s \in Sections :
        /\ update.pc \in {"idle", "status", "wget", "fetched", "split", "write"} =>
              conf[s] = live[s]
        /\ update.pc \in {"idle", "status"} => flags.rr \/ Kept(s)
        /\ At("wget") => update.rr \/ Kept(s)
        /\ At("fetched") => IF reply = Empty THEN Kept(s) ELSE Answered(s)
        /\ update.pc \in {"split", "write"} => Answered(s)
        /\ update.pc \in {"custom", "flags"} => Settled(s)
        /\ At("stopped") => /\ file[s] \in {NoFile, believed[s]} /\ conf[s] = believed[s]
                            /\ live[s] = believed[s] \/ s \in Portal
        /\ update.pc \in {"started", "custom0"} => Kept(s)
    /\ \A i \in 1..Len(Order) :
        /\ update.pc \in {"split", "write"} /\ i < update.at => Filed(Order[i])
        /\ update.pc \in {"commit", "effect"} /\ i < update.at => Settled(Order[i])
        /\ At("commit") /\ i >= update.at => Filed(Order[i])
        /\ At("effect") /\ i > update.at => Filed(Order[i])
        /\ At("effect") /\ i = update.at => /\ conf[Order[i]] = believed[Order[i]]
                                            /\ file[Order[i]] = believed[Order[i]]

SyncInv ==
    /\ TypeInv
    /\ ~rebooting => Follows
    /\ update.pc \in {"idle", "status", "wget", "fetched"} => update.at = 1
    /\ update.try = 1 => faults > 0

\* No check-in is killed, no answer is lost on its way, and at most one of
\* the two addresses of a check-in is down.
SparseFaults ==
    /\ Faults \cap {"kill", "lost", "hang"} = {}
    /\ "down" \in Faults => MaxFaults <= 1

LEMMA SyncInit == Init => SyncInv
<1> SUFFICES ASSUME Init PROVE SyncInv
  OBVIOUS
<1>1. TypeInv
  BY TypeInvInit
<1>2. Idle.pc = "idle" /\ Idle.try = 0 /\ Idle.at = 1
  BY DEF Idle
<1> QED BY <1>1, <1>2 DEF Init, SyncInv, Follows, Kept, At

\* Every section is one of those the loop has been over at its end.
LEMMA AllAt ==
    ASSUME NEW s \in Sections
    PROVE  \E i \in 1..Len(Order) : Order[i] = s
  BY ProvisioningAssumption DEF Sections

\* The list has no section twice.
LEMMA OnceInOrder ==
    ASSUME NEW i \in 1..Len(Order), NEW j \in 1..Len(Order), Order[i] = Order[j]
    PROVE  i = j
  BY ProvisioningAssumption

\* The loop of pre_process_reply, one section further.
LEMMA SplitFollows ==
    ASSUME TypeInv, Follows, SplitReply \/ WriteSection
    PROVE  Follows'
<1> DEFINE n == update.at
<1>0. /\ Len(Order) \in Nat /\ n \in 1..Len(Order)+1 /\ update.pc \in {"split", "write"}
      /\ UNCHANGED <<believed, reply, conf, live, flags>>
  BY LenOrder DEF SplitReply, WriteSection, Updates, TypeInv, TypeOK, At, board
<1>1. \A s \in Sections : conf[s] = live[s] /\ Answered(s)
  BY <1>0 DEF Follows
<1>2. \A i \in 1..Len(Order) : i < n => Filed(Order[i])
  BY <1>0 DEF Follows
<1>3. CASE SplitReply /\ n > Len(Order)
  <2>1. file' = file /\ update'.pc = "commit" /\ update'.at = 1
    BY <1>3 DEF SplitReply, TypeInv, TypeOK, Updates
  <2>2. \A i \in 1..Len(Order) : Filed(Order[i])
    BY <1>0, <1>2, <1>3
  <2> QED BY <2>1, <2>2, <1>0 DEF Follows, At, Filed, Kept
<1>4. CASE SplitReply /\ ~(n > Len(Order)) /\ Order[n] \in DOMAIN reply
  <2>1. /\ file' = [file EXCEPT ![Order[n]] = NoFile]
        /\ update'.pc = "write" /\ update'.at = n
    BY <1>4 DEF SplitReply, TypeInv, TypeOK, Updates, Goto
  <2>2. n \in 1..Len(Order)
    BY <1>0, <1>4
  <2>3. \A s \in Sections : s # Order[n] => file'[s] = file[s]
    BY <2>1 DEF TypeInv, TypeOK
  <2>4. \A s \in Sections : Answered(s)'
    BY <2>3, <1>0, <1>1, <1>4 DEF Answered, Kept
  <2>5. \A i \in 1..Len(Order) : i < n => Filed(Order[i])'
    BY <2>2, <2>3, <1>0, <1>2, OnceInOrder, SectionAt DEF Filed, Kept
  <2> QED BY <2>1, <2>4, <2>5, <1>0, <1>1 DEF Follows, At
<1>5. CASE SplitReply /\ ~(n > Len(Order)) /\ Order[n] \notin DOMAIN reply
  <2>1. file' = file /\ update'.pc = update.pc /\ update'.at = n + 1
    BY <1>5 DEF SplitReply, TypeInv, TypeOK, Updates
  <2>2. n \in 1..Len(Order)
    BY <1>0, <1>5
  <2>3. Filed(Order[n])
    BY <2>2, <1>1, <1>5, SectionAt DEF Answered, Filed
  <2>4. \A i \in 1..Len(Order) : i < n + 1 => Filed(Order[i])
    BY <2>3, <1>2, <1>0
  <2> QED BY <2>1, <2>4, <1>0, <1>1 DEF Follows, At, Filed, Kept, Answered
<1>6. CASE WriteSection
  <2>1. /\ file' = [file EXCEPT ![Order[n]] = reply[Order[n]]]
        /\ update'.pc = "split" /\ update'.at = n + 1
    BY <1>6 DEF WriteSection, TypeInv, TypeOK, Updates
  <2>2. n \in 1..Len(Order) /\ Order[n] \in DOMAIN reply /\ Order[n] \in Sections
    BY <1>0, <1>6, SectionAt DEF WriteSection, TypeInv, At
  <2>3. \A s \in Sections : s # Order[n] => file'[s] = file[s]
    BY <2>1 DEF TypeInv, TypeOK
  <2>4. file'[Order[n]] = believed[Order[n]]
    BY <2>1, <2>2, <1>1 DEF TypeInv, TypeOK, Answered
  <2>5. \A s \in Sections : Answered(s)'
    BY <2>2, <2>3, <1>0, <1>1 DEF Answered, Kept
  <2>6. \A i \in 1..Len(Order) : i < n + 1 => Filed(Order[i])'
    <3> SUFFICES ASSUME NEW i \in 1..Len(Order), i < n + 1 PROVE Filed(Order[i])'
      OBVIOUS
    <3>1. CASE i = n
      BY <3>1, <2>2, <2>4, <1>0, <1>1 DEF Filed
    <3>2. CASE i < n
      BY <3>2, <2>2, <2>3, <1>0, <1>2, OnceInOrder, SectionAt DEF Filed, Kept
    <3> QED BY <3>1, <3>2, <1>0
  <2> QED BY <2>1, <2>5, <2>6, <1>0, <1>1 DEF Follows, At
<1> QED BY <1>3, <1>4, <1>5, <1>6

\* The loop over the scripts, half a script further: what is compared is what
\* the dashboard believes, and what differs is committed and then flagged.
LEMMA ScriptFollows ==
    ASSUME TypeInv, Follows, Commit \/ Effect
    PROVE  Follows'
<1>a. PICK n \in 1..Len(Order), s \in Sections : n = update.at /\ s = Order[n]
  BY LenOrder, SectionAt DEF Commit, Effect, Updates, TypeInv, TypeOK, At
<1>0. /\ Len(Order) \in Nat /\ n \in 1..Len(Order) /\ s \in Sections
      /\ n = update.at /\ s = Order[n] /\ believed[s] # NoFile
      /\ UNCHANGED <<believed, reply, file>>
  BY <1>a, LenOrder, ProvisioningAssumption DEF Commit, Effect, TypeInv, TypeOK, board
<1>1. \A i \in 1..Len(Order) : /\ i < n => Settled(Order[i])
                               /\ i > n => Filed(Order[i])
  BY <1>0 DEF Follows, Commit, Effect, At
<1>2. \A i \in 1..Len(Order) : i # n => Order[i] # s
  BY <1>0, OnceInOrder
<1>3. CASE Commit
  <2>1. Filed(s) /\ UNCHANGED <<live, flags>>
    BY <1>0, <1>3 DEF Follows, Commit, At
  <2>2. CASE Differs(s)
    <3>1. conf' = [conf EXCEPT ![s] = file[s]] /\ update'.pc = "effect" /\ update'.at = n
      BY <1>0, <1>3, <2>2 DEF Commit, Goto, TypeInv, TypeOK, Updates
    <3>2. file[s] = believed[s] /\ conf'[s] = believed[s]
      BY <1>0, <2>1, <2>2, <3>1 DEF Filed, Kept, Differs, TypeInv, TypeOK
    <3>3. \A r \in Sections : r # s => conf'[r] = conf[r]
      BY <3>1 DEF TypeInv, TypeOK
    <3>4. \A i \in 1..Len(Order) : /\ i < n => Settled(Order[i])'
                                   /\ i > n => Filed(Order[i])'
      BY <1>0, <1>1, <1>2, <2>1, <3>3, SectionAt DEF Settled, Filed, Kept
    <3> QED BY <1>0, <3>1, <3>2, <3>4 DEF Follows, At
  <2>3. CASE ~Differs(s)
    <3>1. conf' = conf /\ update'.pc = "commit" /\ update'.at = n + 1
      BY <1>0, <1>3, <2>3 DEF Commit, NextScript, TypeInv, TypeOK, Updates
    <3>2. Settled(s)
      <4>1. /\ file[s] \in {NoFile, believed[s]} /\ conf[s] = believed[s]
            /\ live[s] = believed[s]
        BY <1>0, <2>1, <2>3 DEF Filed, Kept, Differs
      <4> QED BY <4>1, Zenon DEF Settled
    <3>3. \A i \in 1..Len(Order) : /\ i < n + 1 => Settled(Order[i])
                                   /\ i >= n + 1 => Filed(Order[i])
      BY <1>0, <1>1, <3>2
    <3>4. \A i \in 1..Len(Order) : /\ i < n + 1 => Settled(Order[i])'
                                   /\ i >= n + 1 => Filed(Order[i])'
      BY <1>0, <2>1, <3>1, <3>3 DEF Settled, Filed, Kept
    <3> QED BY <3>1, <3>4 DEF Follows, At
  <2> QED BY <2>2, <2>3
<1>4. CASE Effect
  <2>1. /\ update'.pc = "commit" /\ update'.at = n + 1 /\ conf' = conf
        /\ flags.system => flags'.system
        /\ flags.cps => flags'.cps
        /\ s \in Reboots => flags'.system
        /\ s \in Portal => flags'.cps
        /\ live' = IF s \in Reboots \cup Portal THEN live ELSE [live EXCEPT ![s] = conf[s]]
    BY <1>0, <1>4 DEF Effect, NextScript, TypeInv, TypeOK, Updates
  <2>2. conf[s] = believed[s] /\ file[s] = believed[s]
    BY <1>0, <1>4 DEF Follows, Effect, At
  <2>3. \A r \in Sections : r # s => live'[r] = live[r]
    BY <2>1 DEF TypeInv, TypeOK
  <2>4. Settled(s)'
    <3>1. file'[s] \in {NoFile, believed'[s]} /\ conf'[s] = believed'[s]
      BY <1>0, <2>1, <2>2
    <3>2. CASE s \in Reboots
      BY <3>1, <3>2, <2>1, Zenon DEF Settled
    <3>3. CASE s \in Portal
      BY <3>1, <3>3, <2>1, Zenon DEF Settled
    <3>4. CASE s \notin Reboots \cup Portal
      <4>1. live'[s] = believed'[s]
        BY <1>0, <2>1, <2>2, <3>4 DEF TypeInv, TypeOK
      <4> QED BY <3>1, <4>1, Zenon DEF Settled
    <3> QED BY <3>2, <3>3, <3>4
  <2>5. \A i \in 1..Len(Order) : i < n + 1 => Settled(Order[i])'
    <3> SUFFICES ASSUME NEW i \in 1..Len(Order), i < n + 1 PROVE Settled(Order[i])'
      OBVIOUS
    <3>1. CASE i = n
      BY <3>1, <2>4, <1>0, Zenon
    <3>2. CASE i < n
      <4>1. Settled(Order[i]) /\ Order[i] # s /\ Order[i] \in Sections
        BY <3>2, <1>0, <1>1, <1>2, SectionAt
      <4>2. live'[Order[i]] = live[Order[i]]
        BY <4>1, <2>3
      <4> QED BY <4>1, <4>2, <1>0, <2>1, Zenon DEF Settled
    <3> QED BY <3>1, <3>2, <1>0
  <2>6. \A i \in 1..Len(Order) : i >= n + 1 => Filed(Order[i])'
    BY <1>0, <1>1, <1>2, <2>1, <2>3, SectionAt DEF Filed, Kept
  <2> QED BY <2>1, <2>5, <2>6 DEF Follows, At
<1> QED BY <1>3, <1>4

\* The lines of update from the request to the reply.
LEMMA RequestFollows ==
    ASSUME SparseFaults, SyncInv, ~rebooting,
           ReadStatus \/ Answer \/ WgetDown \/ Garbage
    PROVE  Follows'
<1>0. Follows /\ TypeInv /\ Idle.pc = "idle"
  BY DEF SyncInv, Idle
<1>1. CASE ReadStatus
  <2>1. /\ update'.pc = "wget" /\ update'.rr = flags.rr /\ At("status")
        /\ UNCHANGED <<board, node, reply>>
    BY <1>0, <1>1 DEF ReadStatus, TypeInv, TypeOK, Updates
  <2>2. \A s \in Sections : conf[s] = live[s] /\ (flags.rr \/ Kept(s))
    BY <1>0, <2>1 DEF Follows, At
  <2> QED BY <2>1, <2>2 DEF Follows, At, Kept, board, node
<1>2. CASE Answer
  <2>1. /\ update'.pc = "fetched" /\ At("wget") /\ believed' = dash
        /\ UNCHANGED node
    BY <1>0, <1>2 DEF Answer, Goto, TypeInv, TypeOK, Updates
  <2>2. PICK D \in SUBSET Sections :
            /\ IF update.rr THEN D = Sections ELSE Changed \subseteq D
            /\ reply' = IF D = {} THEN Empty ELSE [s \in D |-> dash[s]]
    BY <1>2 DEF Answer
  <2>3. \A s \in Sections : conf[s] = live[s] /\ (update.rr \/ Kept(s))
    BY <1>0, <2>1 DEF Follows, At
  <2>4. \A s \in Sections : s \notin D => Kept(s)'
    BY <2>1, <2>2, <2>3 DEF Changed, Kept, node
  <2>5. CASE D = {}
    BY <2>1, <2>2, <2>3, <2>4, <2>5 DEF Follows, At, node
  <2>6. CASE D # {}
    <3>1. reply' \in Settings /\ reply' = [s \in D |-> dash[s]]
      BY <1>0, <2>2, <2>6 DEF TypeInv, TypeOK, Settings
    <3>2. reply' # Empty
      BY <3>1, EmptyAssumption
    <3>3. \A s \in Sections : Answered(s)'
      BY <2>1, <2>4, <3>1 DEF Answered
    <3> QED BY <2>1, <2>3, <3>2, <3>3 DEF Follows, At, node
  <2> QED BY <2>5, <2>6
<1>3. CASE WgetDown
  <2>1. At("wget") /\ UNCHANGED <<board, node, flags>> /\ "down" \in Faults /\ faults < MaxFaults
    BY <1>3 DEF WgetDown, Fault
  <2>2. faults = 0
    BY <1>0, <2>1, ProvisioningAssumption DEF SparseFaults, TypeInv, TypeOK
  <2>3. update.try = 0
    BY <1>0, <2>2 DEF SyncInv, TypeInv, TypeOK, Updates
  <2>4. update'.pc = "wget" /\ update'.rr = update.rr
    BY <1>0, <1>3, <2>1, <2>3 DEF WgetDown, Retry, TypeInv, TypeOK, Updates, At
  <2>5. \A s \in Sections : conf[s] = live[s] /\ (update.rr \/ Kept(s))
    BY <1>0, <2>1 DEF Follows, At
  <2> QED BY <2>1, <2>4, <2>5 DEF Follows, At, Kept, board, node
<1>4. CASE Garbage
  <2>1. At("wget") /\ UNCHANGED <<board, node>> /\ update'.pc = "idle" /\ flags'.rr
    BY <1>0, <1>4 DEF Garbage, Exit, TypeInv, TypeOK
  <2>2. \A s \in Sections : conf[s] = live[s]
    BY <1>0, <2>1 DEF Follows, At
  <2> QED BY <2>1, <2>2 DEF Follows, At, node
<1> QED BY <1>1, <1>2, <1>3, <1>4

\* The lines of update after its scripts, up to the restarts.
LEMMA FlagsFollow ==
    ASSUME TypeInv, Follows, ~rebooting', CheckFlags \/ StartPortal \/ ClearPortalFlag
    PROVE  Follows'
<1>0. Idle.pc = "idle"
  BY DEF Idle
<1>1. CASE CheckFlags
  <2>1. At("flags") /\ UNCHANGED <<board, node, flags>> /\ ~flags.system
    BY <1>1 DEF CheckFlags
  <2>2. \A s \in Sections : /\ file[s] \in {NoFile, believed[s]} /\ conf[s] = believed[s]
                            /\ live[s] = believed[s] \/ (s \in Portal /\ flags.cps)
    BY <2>1 DEF Follows, At, Settled
  <2>3. CASE flags.cps
    <3>1. update'.pc = "stopped"
      BY <1>1, <2>1, <2>3 DEF CheckFlags, Goto, TypeInv, TypeOK, Updates
    <3> QED BY <2>1, <2>2, <3>1 DEF Follows, At, board, node
  <2>4. CASE ~flags.cps
    <3>1. update'.pc = "idle"
      BY <1>0, <1>1, <2>1, <2>4 DEF CheckFlags, Exit
    <3> QED BY <2>1, <2>2, <2>4, <3>1 DEF Follows, At, Kept, board, node
  <2> QED BY <2>3, <2>4
<1>2. CASE StartPortal
  <2>1. /\ At("stopped") /\ UNCHANGED <<board, conf, file>> /\ update'.pc = "started"
        /\ live' = [s \in Sections |-> IF s \in Reread THEN conf[s] ELSE live[s]]
    BY <1>2 DEF StartPortal, Goto, TypeInv, TypeOK, Updates
  <2>2. \A s \in Sections : Kept(s)'
    BY <2>1, ProvisioningAssumption DEF Follows, At, Kept, board
  <2> QED BY <2>1, <2>2 DEF Follows, At
<1>3. CASE ClearPortalFlag
  <2>1. At("started") /\ UNCHANGED <<board, node>> /\ update'.pc = "idle"
    BY <1>0, <1>3 DEF ClearPortalFlag, Exit
  <2>2. \A s \in Sections : Kept(s)
    BY <2>1 DEF Follows, At
  <2> QED BY <2>1, <2>2 DEF Follows, At, Kept, board, node
<1> QED BY <1>1, <1>2, <1>3

\* The steps that only move update along.
LEMMA MoveFollows ==
    ASSUME SyncInv, Follows, Start \/ KeepReply \/ LastScript \/ NothingNew \/ Custom
    PROVE  Follows'
<1>0. /\ Idle.pc = "idle" /\ TypeInv
      /\ Restart => update'.pc = "status"
      /\ UNCHANGED <<board, reply, node, flags>>
  BY DEF SyncInv, Idle, Restart, Start, KeepReply, LastScript, NothingNew, Custom
<1>1. CASE Start
  <2>1. At("idle") /\ update'.pc = "status"
    BY <1>0, <1>1 DEF Start
  <2> QED BY <1>0, <2>1 DEF Follows, At, Kept, board, node
<1>2. CASE KeepReply
  <2>1. At("fetched") /\ reply # Empty /\ update'.pc = "split" /\ update'.at = update.at
    BY <1>0, <1>2 DEF KeepReply, Goto, TypeInv, TypeOK, Updates
  <2>2. update.at = 1
    BY <2>1 DEF SyncInv, At
  <2>3. \A s \in Sections : Answered(s) /\ conf[s] = live[s]
    BY <2>1 DEF Follows, At
  <2> QED BY <1>0, <2>1, <2>2, <2>3 DEF Follows, At, Answered, Kept, board, node
<1>3. CASE LastScript
  <2>1. At("commit") /\ update.at > Len(Order) /\ update'.pc = "custom"
    BY <1>0, <1>3 DEF LastScript, Goto, TypeInv, TypeOK, Updates
  <2>2. \A i \in 1..Len(Order) : Settled(Order[i])
    BY <1>0, <2>1, LenOrder DEF Follows, At, TypeInv, TypeOK, Updates
  <2>3. \A s \in Sections : Settled(s)
    BY <2>2, AllAt
  <2> QED BY <1>0, <2>1, <2>3 DEF Follows, At, Settled, board, node
<1>4. CASE NothingNew
  <2>1. At("fetched") /\ reply = Empty /\ update'.pc = "custom0"
    BY <1>0, <1>4 DEF NothingNew, Goto, TypeInv, TypeOK, Updates
  <2> QED BY <1>0, <2>1 DEF Follows, At, Kept, board, node
<1>5. CASE Custom /\ At("custom")
  <2>1. update'.pc = "flags"
    BY <1>0, <1>5 DEF Custom, Goto, At, TypeInv, TypeOK, Updates
  <2>2. \A s \in Sections : Settled(s)
    BY <1>5 DEF Follows, At
  <2> QED BY <1>0, <2>1, <2>2 DEF Follows, At, Settled, board, node
<1>6. CASE Custom /\ At("custom0")
  <2>1. update'.pc = "idle"
    BY <1>0, <1>6 DEF Custom, Exit, At
  <2> QED BY <1>0, <1>6, <2>1 DEF Follows, At, Kept, board, node
<1> QED BY <1>1, <1>2, <1>3, <1>4, <1>5, <1>6 DEF Custom

\* One attempt has failed before the second, and a check-in starts at the
\* first section.
LEMMA TryCounted ==
    ASSUME SyncInv, [Next]_vars
    PROVE  /\ update'.try = 1 => faults' > 0
           /\ update'.pc \in {"idle", "status", "wget", "fetched"} => update'.at = 1
<1>0. /\ Idle.try = 0 /\ [Idle EXCEPT !.pc = "status"].try = 0
      /\ Idle.at = 1 /\ [Idle EXCEPT !.pc = "status"].at = 1
  BY DEF Idle
<1>1. update \in Updates /\ faults \in Nat /\ (update.try = 1 => faults > 0)
  BY ProvisioningAssumption DEF SyncInv, TypeInv, TypeOK
<1>2. UNCHANGED update \/ update'.try \in {0, update.try}
      \/ (WgetDown \/ WgetLost)
  BY <1>0, <1>1 DEF Next, Step, vars, Start, Restart, ReadStatus, Answer, Goto, KeepReply,
     SplitReply, WriteSection, Commit, Effect, NextScript, LastScript, NothingNew, Custom,
     Exit, CustomKilled, CheckFlags, StartPortal, ClearPortalFlag, Kill, Garbage,
     Reboot, PowerCycle, Boot, Edit, Updates
<1>3. faults' = faults \/ faults' = faults + 1
  BY DEF Next, Step, vars, Start, ReadStatus, Answer, KeepReply, Fault, hist,
     SplitReply, WriteSection, Commit, Effect, LastScript, NothingNew, Custom,
     CustomKilled, CheckFlags, StartPortal, ClearPortalFlag, Kill, Garbage,
     WgetDown, WgetLost, Reboot, PowerCycle, Boot, Edit
<1>4. WgetDown \/ WgetLost => faults' = faults + 1
  BY DEF WgetDown, WgetLost, Fault
<1>5. update'.pc \in {"idle", "status", "wget", "fetched"} => update'.at = 1
  BY <1>0, <1>1 DEF SyncInv, Next, Step, vars, Start, Restart, ReadStatus, Answer, Goto,
     KeepReply, SplitReply, WriteSection, Commit, Effect, NextScript, LastScript,
     NothingNew, Custom, Exit, CustomKilled, CheckFlags, StartPortal, ClearPortalFlag, At,
     Kill, Garbage, WgetDown, WgetLost, Retry, Reboot, PowerCycle, Boot, Edit, Updates
<1> QED BY <1>1, <1>2, <1>3, <1>4, <1>5

\* Whatever else happens, Follows holds after the step if no reboot is under way.
LEMMA SyncStep == SparseFaults /\ SyncInv /\ [Next]_vars => SyncInv'
<1> SUFFICES ASSUME SparseFaults, SyncInv, [Next]_vars, ~rebooting' PROVE Follows'
  BY TypeInvStep, TryCounted DEF SyncInv
<1>0. TypeInv /\ Idle.pc = "idle" /\ (~rebooting => Follows)
  BY DEF SyncInv, Idle
<1>1. CASE Boot
  <2>1. conf' = live' /\ flags'.rr /\ update'.pc = "idle"
    BY <1>0, <1>1 DEF Boot, BootFlags
  <2> QED BY <2>1 DEF Follows, At
<1>2. CASE UNCHANGED vars \/ Edit
  <2>1. UNCHANGED <<believed, reply, node, flags, update, rebooting>>
    BY <1>2 DEF vars, Edit, node
  <2>2. Follows
    BY <1>0, <2>1
  <2> QED BY <2>1, <2>2 DEF Follows, At, Filed, Settled, Answered, Kept, node
<1>3. CASE Step \/ Start \/ WgetDown \/ Garbage
  <2>1. ~rebooting
    BY <1>3 DEF Step, Start, WgetDown, Garbage, ReadStatus, Answer, KeepReply, SplitReply,
       WriteSection, Commit, Effect, LastScript, NothingNew, Custom, CustomKilled,
       CheckFlags, StartPortal, ClearPortalFlag
  <2>2. ~CustomKilled
    BY DEF SparseFaults, CustomKilled
  <2> QED BY <1>0, <1>3, <2>1, <2>2, RequestFollows, MoveFollows, SplitFollows,
             ScriptFollows, FlagsFollow DEF Step
<1>4. ~Kill /\ ~WgetLost
  BY DEF SparseFaults, Kill, WgetLost, Fault
<1> QED BY <1>1, <1>2, <1>3, <1>4 DEF Next, Reboot, PowerCycle

\* With no check-in killed, no answer lost and at most one address down: whoever
\* gets an empty reply runs what the dashboard thinks it runs, or is about to
\* reboot ("assuming that current config is correct", /sbin/update).
THEOREM EmptyReplyIsRight ==
    ASSUME SparseFaults
    PROVE  Spec => []EmptyReplyMeansInSync
<1>1. SyncInv => EmptyReplyMeansInSync
  <2> SUFFICES ASSUME SyncInv, At("custom0"), ~rebooting PROVE live = believed
    BY DEF EmptyReplyMeansInSync
  <2>1. \A s \in Sections : live[s] = believed[s]
    BY DEF SyncInv, Follows, Kept, At
  <2> QED BY <2>1 DEF SyncInv, TypeInv, TypeOK
<1>2. SyncInv /\ [Next]_vars => SyncInv'
  BY SyncStep
<1>3. Init => SyncInv
  BY SyncInit
<1> QED BY <1>1, <1>2, <1>3, PTL DEF Spec

=============================================================================
