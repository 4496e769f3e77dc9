------------------------- MODULE CertificatesProofs -------------------------
(***************************************************************************)
(* Proofs about Certificates, for all chains and stores.                   *)
(*                                                                         *)
(* The field valid of a certificate below pos is settled for the rest of   *)
(* the message; the one at pos belongs to the step that is running.  The   *)
(* invariants below say what a settled certificate is worth (Signed,       *)
(* Settled), that the walk is at the last certificate once authorities are *)
(* asked (Position), and that the signature there is untouched as long as  *)
(* no authority with the right name has been tried (Untouched).            *)
(***************************************************************************)
EXTENDS Certificates, TLAPS

Walked == {"authority", "judge", "accepted"}

Position ==
    /\ phase \in Walked => pos = Len(chain) /\ valid[pos] \in {-1, 1}
    /\ phase = "parse" => pos = 1
    /\ anon => callback = "anonymous"
    /\ phase \in {"parse", "link", "authority"} => ic \in DOMAIN store \cup {Len(store) + 1}

\* The walk goes past a certificate only when the next one signed it.
Settled == phase # "refused" => \A n \in DOMAIN chain : n < pos => valid[n] = 1

Signed(n) ==
    \/ \E i \in Issuers(n) : Genuine(chain[n], i)
    \/ n = Last /\ store = <<>> /\ chain[n].by = chain[n].key

\* Authority k signed the last certificate and no one before it has its name.
FirstNamesake(k) ==
    /\ Genuine(chain[Last], store[k])
    /\ \A j \in 1 .. k - 1 : store[j].subject # store[k].subject

Untouched ==
    /\ phase \in {"parse", "link"} =>
           ic = 1 /\ \A n \in DOMAIN chain : n >= pos => whole[n]
    /\ phase = "authority" =>
           ((\A j \in 1 .. ic - 1 : ~NamedBy(chain[Last], store[j])) => whole[Last])
    /\ phase = "authority" => \A k \in DOMAIN store : k < ic => ~FirstNamesake(k)

-----------------------------------------------------------------------------

LEMMA ChainLength ==
    TypeOK =>
        /\ Len(chain) \in Nat \ {0}
        /\ Len(store) \in Nat
        /\ DOMAIN chain = 1 .. Len(chain)
        /\ DOMAIN store = 1 .. Len(store)
        /\ \A n \in 1 .. Len(chain) : chain[n] \in Certs
        /\ \A n \in 1 .. Len(store) : store[n] \in Certs
  BY DEF TypeOK

\* A step that tries or skips a signature keeps the types of what it writes.
LEMMA TryTypes ==
    ASSUME TypeOK, NEW STATE i, Try(i)
    PROVE  /\ valid' \in [1 .. Len(chain) -> {-1, 0, 1}]
           /\ whole' \in [1 .. Len(chain) -> BOOLEAN]
           /\ sigOut' \in Certs \cup {Junk}
           /\ unread' \in BOOLEAN
  <1>1. chain[pos] \in Certs
    BY ChainLength DEF TypeOK
  <1>2. valid' \in [1 .. Len(chain) -> {-1, 0, 1}]
    BY DEF TypeOK, Try
  <1>3. whole' \in [1 .. Len(chain) -> BOOLEAN]
    BY DEF TypeOK, Try
  <1>4. sigOut' \in Certs \cup {Junk}
    BY <1>1 DEF TypeOK, Try, Decrypted
  <1>5. unread' \in BOOLEAN
    BY DEF TypeOK, Try
  <1> QED BY <1>2, <1>3, <1>4, <1>5

LEMMA SkipTypes ==
    ASSUME TypeOK, Skip
    PROVE  /\ valid' \in [1 .. Len(chain) -> {-1, 0, 1}]
           /\ whole' \in [1 .. Len(chain) -> BOOLEAN]
           /\ sigOut' \in Certs \cup {Junk}
           /\ unread' \in BOOLEAN
  BY DEF TypeOK, Skip

LEMMA InitTypes == Init => TypeOK
  <1> SUFFICES ASSUME Init PROVE TypeOK OBVIOUS
  <1>1. chain \in Seq(Certs) \ {<<>>} /\ store \in Seq(Certs)
    BY ChainsAssumption DEF Init
  <1>2. Len(chain) \in Nat \ {0} /\ Len(store) \in Nat
    BY <1>1
  <1>3. pos \in 1 .. Len(chain) /\ ic \in 1 .. Len(store) + 1
    BY <1>2 DEF Init
  <1>4. /\ valid \in [1 .. Len(chain) -> {-1, 0, 1}]
        /\ whole \in [1 .. Len(chain) -> BOOLEAN]
    BY <1>2 DEF Init
  <1>5. phase \in Phases /\ callback \in Callbacks
    BY DEF Init, Phases
  <1>6. sigOut \in Certs \cup {Junk} /\ unread \in BOOLEAN /\ anon \in BOOLEAN
    BY DEF Init
  <1> QED BY <1>1, <1>3, <1>4, <1>5, <1>6 DEF TypeOK

LEMMA StepTypes == TypeOK /\ [Next]_vars => TypeOK'
  <1> SUFFICES ASSUME TypeOK, [Next]_vars PROVE TypeOK' OBVIOUS
  <1> USE ChainLength
  <1>1. CASE Parse
    BY <1>1 DEF TypeOK, Parse, Refused, Phases
  <1>2. CASE Link
    <2>1. chain' = chain /\ store' = store /\ callback' = callback /\ ic' = ic
      BY <1>2 DEF Link
    <2>2. phase' \in Phases /\ pos' \in 1 .. Len(chain) /\ anon' \in BOOLEAN
      BY <1>2 DEF Link, TypeOK, Refused, Phases
    <2>3. /\ valid' \in [1 .. Len(chain) -> {-1, 0, 1}]
          /\ whole' \in [1 .. Len(chain) -> BOOLEAN]
          /\ sigOut' \in Certs \cup {Junk}
          /\ unread' \in BOOLEAN
      BY <1>2, TryTypes, SkipTypes DEF Link
    <2> QED BY <2>1, <2>2, <2>3 DEF TypeOK
  <1>3. CASE ChainDone
    BY <1>3 DEF TypeOK, ChainDone, Phases
  <1>4. CASE SelfSigned
    <2>1. /\ chain' = chain /\ store' = store /\ callback' = callback
          /\ ic' = ic /\ pos' = pos
      BY <1>4 DEF SelfSigned
    <2>2. phase' \in Phases /\ anon' \in BOOLEAN
      BY <1>4 DEF SelfSigned, TypeOK, Refused, Phases
    <2>3. /\ valid' \in [1 .. Len(chain) -> {-1, 0, 1}]
          /\ whole' \in [1 .. Len(chain) -> BOOLEAN]
          /\ sigOut' \in Certs \cup {Junk}
          /\ unread' \in BOOLEAN
      BY <1>4, TryTypes, SkipTypes DEF SelfSigned
    <2> QED BY <2>1, <2>2, <2>3 DEF TypeOK
  <1>5. CASE Authority
    <2>1. /\ chain' = chain /\ store' = store /\ callback' = callback
          /\ anon' = anon /\ pos' = pos
      BY <1>5 DEF Authority
    <2>2. phase' \in Phases /\ ic' \in 1 .. Len(store) + 1
      BY <1>5 DEF Authority, TypeOK, Phases
    <2>3. /\ valid' \in [1 .. Len(chain) -> {-1, 0, 1}]
          /\ whole' \in [1 .. Len(chain) -> BOOLEAN]
          /\ sigOut' \in Certs \cup {Junk}
          /\ unread' \in BOOLEAN
      BY <1>5, TryTypes, SkipTypes DEF Authority
    <2> QED BY <2>1, <2>2, <2>3 DEF TypeOK
  <1>6. CASE NoAuthorityLeft
    BY <1>6 DEF TypeOK, NoAuthorityLeft, Phases
  <1>7. CASE Judge
    BY <1>7 DEF TypeOK, Judge, Refused, Phases
  <1>8. CASE UNCHANGED vars
    BY <1>8 DEF TypeOK, vars
  <1> QED BY <1>1, <1>2, <1>3, <1>4, <1>5, <1>6, <1>7, <1>8 DEF Next

\* The variables keep their types, so pos never leaves the chain and ic never
\* goes further than one behind the list of authorities.
THEOREM TypeCorrect == Spec => []TypeOK
  BY InitTypes, StepTypes, PTL DEF Spec

-----------------------------------------------------------------------------
(* What a step writes into valid *)

\* A signature that was tried leaves 1 or -1; with 1 and no unnoticed failure
\* the key that was tried is the one that signed.
LEMMA TryResult ==
    ASSUME TypeOK, NEW STATE i, Try(i)
    PROVE  /\ valid'[pos] \in {-1, 1}
           /\ valid'[pos] = 1 <=> Confirms(i)
           /\ \A n \in DOMAIN chain : n # pos => valid'[n] = valid[n]
           /\ \A n \in DOMAIN chain : n # pos => whole'[n] = whole[n]
           /\ ~unread' => ~unread /\ (Confirms(i) => chain[pos].by = i.key)
  <1>1. pos \in DOMAIN valid /\ pos \in DOMAIN whole
    BY DEF TypeOK
  <1>2. valid' = [valid EXCEPT ![pos] = IF Confirms(i) THEN 1 ELSE -1]
    BY DEF Try
  <1>3. DOMAIN valid = DOMAIN chain /\ DOMAIN whole = DOMAIN chain
    BY ChainLength DEF TypeOK
  <1>4. valid'[pos] = IF Confirms(i) THEN 1 ELSE -1
    BY <1>1, <1>2
  <1>5. valid'[pos] \in {-1, 1} /\ (valid'[pos] = 1 <=> Confirms(i))
    BY <1>4
  <1>6. \A n \in DOMAIN chain : n # pos => valid'[n] = valid[n]
    BY <1>1, <1>2, <1>3
  <1>7. \A n \in DOMAIN chain : n # pos => whole'[n] = whole[n]
    BY <1>1, <1>3 DEF Try
  <1>8. ~unread' => ~unread /\ (Confirms(i) => chain[pos].by = i.key)
    BY DEF Try, Decrypts
  <1> QED BY <1>5, <1>6, <1>7, <1>8

LEMMA SkipResult ==
    ASSUME TypeOK, Skip
    PROVE  /\ valid'[pos] = -1
           /\ \A n \in DOMAIN chain : n # pos => valid'[n] = valid[n]
           /\ whole' = whole /\ unread' = unread
  BY ChainLength DEF TypeOK, Skip

-----------------------------------------------------------------------------
(* Where the walk is *)

LEMMA InitWalk == Init => Position /\ Settled
  BY ChainsAssumption DEF Init, Position, Settled, Walked

LEMMA StepWalk == TypeOK /\ Position /\ Settled /\ [Next]_vars => Position' /\ Settled'
  <1> SUFFICES ASSUME TypeOK, Position, Settled, [Next]_vars
               PROVE  Position' /\ Settled'
    OBVIOUS
  <1> USE ChainLength
  <1>1. CASE Parse
    BY <1>1 DEF Parse, Refused, Position, Settled, Walked, TypeOK
  <1>2. CASE Link
    <2> USE <1>2 DEF Link, Refused
    <2>1. CASE phase' = "refused"
      BY <2>1 DEF Position, Settled, Walked
    <2>2. CASE phase' # "refused"
      <3>1. /\ phase' = "link" /\ pos' = pos + 1 /\ anon' = anon
            /\ Try(chain[pos + 1]) /\ Confirms(chain[pos + 1])
        BY <2>2
      <3>2. valid'[pos] = 1 /\ \A n \in DOMAIN chain : n # pos => valid'[n] = valid[n]
        BY <3>1, TryResult
      <3>3. Settled'
        BY <3>1, <3>2 DEF Settled, TypeOK
      <3>4. Position'
        BY <3>1 DEF Position, Walked
      <3> QED BY <3>3, <3>4
    <2> QED BY <2>1, <2>2
  <1>3. CASE ChainDone
    BY <1>3 DEF ChainDone, Position, Settled, Walked, TypeOK
  <1>4. CASE SelfSigned
    <2> USE <1>4 DEF SelfSigned, Refused
    <2>1. CASE phase' = "refused"
      BY <2>1 DEF Position, Settled, Walked
    <2>2. CASE phase' # "refused"
      <3>1. phase' = "judge" /\ anon' = anon /\ Try(chain[pos])
        BY <2>2
      <3>2. /\ valid'[pos] \in {-1, 1}
            /\ \A n \in DOMAIN chain : n # pos => valid'[n] = valid[n]
        BY <3>1, TryResult
      <3>3. Settled'
        BY <3>1, <3>2 DEF Settled, TypeOK
      <3>4. Position'
        BY <3>1, <3>2 DEF Position, Walked
      <3> QED BY <3>3, <3>4
    <2> QED BY <2>1, <2>2
  <1>5. CASE Authority
    <2> DEFINE i == store[ic]
    <2>1. /\ phase = "authority" /\ pos' = pos /\ chain' = chain /\ anon' = anon
          /\ store' = store /\ callback' = callback
      BY <1>5 DEF Authority
    <2>2. Try(i) \/ Skip
      BY <1>5 DEF Authority
    <2>3. /\ valid'[pos] \in {-1, 1}
          /\ \A n \in DOMAIN chain : n # pos => valid'[n] = valid[n]
      BY <2>2, TryResult, SkipResult
    <2>4. phase' \in {"authority", "judge", "refused"}
      BY <1>5 DEF Authority
    <2>5. Settled'
      BY <2>1, <2>3, <2>4 DEF Settled, TypeOK
    <2>6. ic' \in DOMAIN store \cup {Len(store) + 1}
      BY <1>5 DEF Authority, TypeOK
    <2>7. Position'
      BY <2>1, <2>3, <2>4, <2>6 DEF Position, Walked
    <2> QED BY <2>5, <2>7
  <1>6. CASE NoAuthorityLeft
    BY <1>6 DEF NoAuthorityLeft, Position, Settled, Walked
  <1>7. CASE Judge
    BY <1>7 DEF Judge, Refused, Position, Settled, Walked
  <1>8. CASE UNCHANGED vars
    BY <1>8 DEF vars, Position, Settled, Walked
  <1> QED BY <1>1, <1>2, <1>3, <1>4, <1>5, <1>6, <1>7, <1>8 DEF Next

\* Without an application's callback a chain is accepted only if all of its
\* certificates were verified, and with any callback only if there is no hole
\* in the path; a handshake is anonymous only by the callback's will.
THEOREM AcceptedChains == Spec => []AcceptedIsVerified
  <1>1. TypeOK /\ Position /\ Settled /\ phase # "accepted" => AcceptedIsVerified
    BY DEF AcceptedIsVerified
  <1> DEFINE Judged == phase = "accepted" /\ callback = "none" => valid[pos] = 1
  <1>2. Init => Judged
    BY DEF Init
  <1>3. TypeOK /\ Position /\ Judged /\ [Next]_vars => Judged'
    <2> SUFFICES ASSUME TypeOK, Position, Judged, [Next]_vars PROVE Judged' OBVIOUS
    <2>1. CASE Judge
      BY <2>1 DEF Judge, Refused, Position, Walked
    <2>2. CASE Parse \/ Link \/ ChainDone \/ SelfSigned \/ Authority \/ NoAuthorityLeft
      BY <2>2 DEF Parse, Link, ChainDone, SelfSigned, Authority, NoAuthorityLeft, Refused
    <2>3. CASE UNCHANGED vars
      BY <2>3 DEF vars
    <2> QED BY <2>1, <2>2, <2>3 DEF Next
  <1>4. TypeOK /\ Position /\ Settled /\ Judged => AcceptedIsVerified
    BY ChainLength DEF Position, Settled, Walked, AcceptedIsVerified, Last
  <1> HIDE DEF Judged
  <1> QED BY InitTypes, StepTypes, InitWalk, StepWalk, <1>2, <1>3, <1>4, PTL DEF Spec

-----------------------------------------------------------------------------
(* What a verified certificate is worth *)

\* A signature that was tried and found good makes the certificate signed.
LEMMA TrySigned ==
    ASSUME TypeOK, VerifiedIsSigned, NEW STATE i, Try(i),
           chain' = chain, store' = store,
           chain[pos].by = i.key => Signed(pos)
    PROVE  VerifiedIsSigned'
  <1> SUFFICES ASSUME ~unread', NEW n \in DOMAIN chain, valid'[n] = 1
               PROVE  Signed(n)'
    BY DEF VerifiedIsSigned, Signed
  <1>1. Signed(n)' <=> Signed(n)
    BY DEF Signed, Issuers, Last
  <1>2. CASE n = pos
    BY <1>1, <1>2, TryResult
  <1>3. CASE n # pos
    BY <1>1, <1>3, TryResult DEF VerifiedIsSigned, Signed
  <1> QED BY <1>2, <1>3

LEMMA SkipSigned ==
    ASSUME TypeOK, VerifiedIsSigned, Skip, chain' = chain, store' = store
    PROVE  VerifiedIsSigned'
  <1>1. ASSUME NEW n \in DOMAIN chain, valid'[n] = 1
        PROVE  valid[n] = 1
    BY <1>1, SkipResult
  <1> QED BY <1>1, SkipResult DEF VerifiedIsSigned, Issuers, Last

LEMMA StepSigned ==
    TypeOK /\ Position /\ VerifiedIsSigned /\ [Next]_vars => VerifiedIsSigned'
  <1> SUFFICES ASSUME TypeOK, Position, VerifiedIsSigned, [Next]_vars
               PROVE  VerifiedIsSigned'
    OBVIOUS
  <1>1. CASE Parse \/ NoAuthorityLeft \/ Judge
    BY <1>1 DEF Parse, NoAuthorityLeft, Judge, VerifiedIsSigned, Issuers, Last
  <1>2. CASE Link
    <2> DEFINE i == chain[pos + 1]
    <2>1. chain' = chain /\ store' = store
      BY <1>2 DEF Link
    <2>2. CASE MaySign(i) /\ NamedBy(chain[pos], i) /\ Supported(chain[pos])
      <3>1. Try(i)
        BY <1>2, <2>2 DEF Link
      <3>2. i \in Issuers(pos)
        BY <1>2, ChainLength DEF Link, Issuers, Last, TypeOK
      <3>3. chain[pos].by = i.key => Genuine(chain[pos], i)
        BY <2>2 DEF MaySign, NamedBy, Supported, Genuine
      <3>4. chain[pos].by = i.key => Signed(pos)
        BY <3>2, <3>3 DEF Signed
      <3> QED BY <2>1, <3>1, <3>4, TrySigned
    <2>3. CASE ~(MaySign(i) /\ NamedBy(chain[pos], i) /\ Supported(chain[pos]))
      BY <1>2, <2>1, <2>3, SkipSigned DEF Link
    <2> QED BY <2>2, <2>3
  <1>3. CASE ChainDone
    <2>1. /\ chain' = chain /\ store' = store /\ unread' = unread
          /\ \A n \in DOMAIN chain : valid'[n] = 1 => valid[n] = 1
      BY <1>3, ChainLength DEF ChainDone, TypeOK
    <2> QED BY <2>1 DEF VerifiedIsSigned, Issuers, Last
  <1>4. CASE SelfSigned
    <2>1. chain' = chain /\ store' = store
      BY <1>4 DEF SelfSigned
    <2>2. CASE Supported(chain[pos])
      <3>1. Try(chain[pos])
        BY <1>4, <2>2 DEF SelfSigned
      <3>2. chain[pos].by = chain[pos].key => Signed(pos)
        BY <1>4 DEF SelfSigned, Signed, Position, Walked, Last
      <3> QED BY <2>1, <3>1, <3>2, TrySigned
    <2>3. CASE ~Supported(chain[pos])
      BY <1>4, <2>1, <2>3, SkipSigned DEF SelfSigned
    <2> QED BY <2>2, <2>3
  <1>5. CASE Authority
    <2> DEFINE i == store[ic]
    <2>1. chain' = chain /\ store' = store
      BY <1>5 DEF Authority
    <2>2. CASE MaySign(i) /\ NamedBy(chain[pos], i) /\ Supported(chain[pos])
      <3>1. Try(i)
        BY <1>5, <2>2 DEF Authority
      <3>2. i \in Issuers(pos)
        BY <1>5, ChainLength DEF Authority, Issuers, Last, Position, Walked
      <3>3. chain[pos].by = i.key => Genuine(chain[pos], i)
        BY <2>2 DEF MaySign, NamedBy, Supported, Genuine
      <3>4. chain[pos].by = i.key => Signed(pos)
        BY <3>2, <3>3 DEF Signed
      <3> QED BY <2>1, <3>1, <3>4, TrySigned
    <2>3. CASE ~(MaySign(i) /\ NamedBy(chain[pos], i) /\ Supported(chain[pos]))
      BY <1>5, <2>1, <2>3, SkipSigned DEF Authority
    <2> QED BY <2>2, <2>3
  <1>6. CASE UNCHANGED vars
    BY <1>6 DEF vars, VerifiedIsSigned, Issuers, Last
  <1> QED BY <1>1, <1>2, <1>3, <1>4, <1>5, <1>6 DEF Next

\* A certificate shown as verified was signed by the next one of the chain,
\* by an authority of this side, or by itself where there are no authorities,
\* unless a failed decryption went unnoticed.
THEOREM VerifiedCertificates == Spec => []VerifiedIsSigned
  <1>1. Init => VerifiedIsSigned
    BY ChainsAssumption DEF Init, VerifiedIsSigned
  <1> QED BY InitTypes, StepTypes, InitWalk, StepWalk, <1>1, StepSigned, PTL DEF Spec

-----------------------------------------------------------------------------
(* The first authority with the right name *)

LEMMA InitUntouched == Init => Untouched
  BY ChainsAssumption DEF Init, Untouched

LEMMA StepUntouched ==
    TypeOK /\ Position /\ Untouched /\ FirstNamesakeCounts /\ [Next]_vars
        => Untouched' /\ FirstNamesakeCounts'
  <1> SUFFICES ASSUME TypeOK, Position, Untouched, FirstNamesakeCounts, [Next]_vars
               PROVE  Untouched' /\ FirstNamesakeCounts'
    OBVIOUS
  <1> USE ChainLength
  <1>1. CASE Parse
    BY <1>1 DEF Parse, Refused, Untouched, FirstNamesakeCounts
  <1>2. CASE Link
    <2>1. phase' \in {"link", "refused"} /\ chain' = chain /\ store' = store /\ ic' = ic
      BY <1>2 DEF Link, Refused
    <2>2. FirstNamesakeCounts'
      BY <2>1 DEF FirstNamesakeCounts
    <2>3. CASE phase' = "refused"
      BY <2>2, <2>3 DEF Untouched
    <2>4. CASE phase' = "link"
      <3>1. pos' = pos + 1 /\ Try(chain[pos + 1])
        BY <1>2, <2>4 DEF Link, Refused
      <3>2. \A n \in DOMAIN chain : n # pos => whole'[n] = whole[n]
        BY <3>1, TryResult
      <3>3. \A n \in DOMAIN chain : n >= pos + 1 => whole'[n]
        BY <1>2, <3>2 DEF Link, Untouched, TypeOK
      <3> QED BY <1>2, <2>1, <2>2, <2>4, <3>1, <3>3 DEF Link, Untouched
    <2> QED BY <2>1, <2>3, <2>4
  <1>3. CASE ChainDone
    BY <1>3 DEF ChainDone, Untouched, FirstNamesakeCounts, Last, TypeOK
  <1>4. CASE SelfSigned
    BY <1>4 DEF SelfSigned, Refused, Untouched, FirstNamesakeCounts
  <1>5. CASE Authority
    <2> DEFINE i == store[ic]
    <2>1. /\ phase = "authority" /\ chain' = chain /\ store' = store
          /\ pos' = pos /\ pos = Last /\ ic \in DOMAIN store /\ Last \in DOMAIN chain
      BY <1>5 DEF Authority, Position, Walked, Last
    <2>2. \A k \in DOMAIN store : k < ic => ~FirstNamesake(k)
      BY <2>1 DEF Untouched
    <2>3. CASE ~(MaySign(i) /\ NamedBy(chain[pos], i))
      <3>1. Skip /\ ic' = ic + 1 /\ phase' = "authority"
        BY <1>5, <2>1, <2>3 DEF Authority
      <3>2. ~FirstNamesake(ic)
        BY <2>1, <2>3 DEF FirstNamesake, Genuine, MaySign, NamedBy
      <3>3. \A k \in DOMAIN store : k < ic + 1 => ~FirstNamesake(k)
        BY <2>1, <2>2, <3>2
      <3>4. whole' = whole
        BY <3>1, SkipResult
      <3>5. (\A j \in 1 .. ic : ~NamedBy(chain[Last], store[j])) => whole[Last]
        BY <2>1 DEF Untouched
      <3> QED
        BY <2>1, <3>1, <3>3, <3>4, <3>5
        DEF Untouched, FirstNamesakeCounts, FirstNamesake, NamedBy, Last, Genuine
    <2>4. CASE MaySign(i) /\ NamedBy(chain[pos], i) /\ ~Supported(chain[pos])
      BY <1>5, <2>4 DEF Authority, Untouched, FirstNamesakeCounts
    <2>5. CASE MaySign(i) /\ NamedBy(chain[pos], i) /\ Supported(chain[pos])
      <3>1. Try(i) /\ (IF Confirms(i) THEN ic' = ic /\ phase' = "judge"
                                      ELSE ic' = ic + 1 /\ phase' = "authority")
        BY <1>5, <2>1, <2>5 DEF Authority
      <3>2. CASE Confirms(i)
        <4>1. valid'[Last] = 1
          BY <2>1, <3>1, <3>2, TryResult
        <4> QED BY <2>1, <3>1, <3>2, <4>1 DEF Untouched, FirstNamesakeCounts, Last
      <3>3. CASE ~Confirms(i)
        <4>1. ~Decrypts(i)
          BY <3>3 DEF Confirms, Decrypted
        <4>2. FirstNamesake(ic) =>
                  chain[Last].by = i.key /\ \A j \in 1 .. ic - 1 : ~NamedBy(chain[Last], store[j])
          BY <2>1 DEF FirstNamesake, Genuine, NamedBy
        <4>3. ~FirstNamesake(ic)
          BY <2>1, <4>1, <4>2 DEF Decrypts, Untouched
        <4>4. \A k \in DOMAIN store : k < ic + 1 => ~FirstNamesake(k)
          BY <2>1, <2>2, <4>3
        <4>5. NamedBy(chain[Last], store[ic])
          BY <2>1, <2>5
        <4>6. ic' = ic + 1 /\ phase' = "authority"
          BY <3>1, <3>3
        <4>7. ~(\A j \in 1 .. ic : ~NamedBy(chain[Last], store[j]))
          BY <2>1, <4>5
        <4> QED
          BY <2>1, <4>4, <4>6, <4>7
          DEF Untouched, FirstNamesakeCounts, FirstNamesake, NamedBy, Last, Genuine
      <3> QED BY <3>2, <3>3
    <2> QED BY <2>3, <2>4, <2>5
  <1>6. CASE NoAuthorityLeft
    <2>1. \A k \in DOMAIN store : ~FirstNamesake(k)
      BY <1>6 DEF NoAuthorityLeft, Untouched
    <2> QED BY <1>6, <2>1 DEF NoAuthorityLeft, Untouched, FirstNamesakeCounts,
                              FirstNamesake, Last, Genuine
  <1>7. CASE Judge
    BY <1>7 DEF Judge, Refused, Untouched, FirstNamesakeCounts, Last, Genuine
  <1>8. CASE UNCHANGED vars
    BY <1>8 DEF vars, Untouched, FirstNamesakeCounts, NamedBy, FirstNamesake, Last, Genuine
  <1> QED BY <1>1, <1>2, <1>3, <1>4, <1>5, <1>6, <1>7, <1>8 DEF Next

\* The first authority with the issuer's name is tried with the signature as
\* it was received: if it signed the certificate, that is found.
THEOREM FirstNamesakes == Spec => []FirstNamesakeCounts
  <1>1. Init => FirstNamesakeCounts
    BY DEF Init, FirstNamesakeCounts
  <1> QED BY InitTypes, StepTypes, InitWalk, StepWalk, InitUntouched, <1>1,
             StepUntouched, PTL DEF Spec

=============================================================================
