---------------------------- MODULE Certificates ----------------------------
(***************************************************************************)
(* What becomes of the certificates of a Certificate message: they are     *)
(* parsed one after another, each is checked against the next one          *)
(* (matrixX509ValidateCertChain), the last one against the authorities of  *)
(* this side (matrixX509ValidateCert), and the application's callback has  *)
(* the last word (sslDecode.c, x509.c).                                    *)
(*                                                                         *)
(* A certificate is what the checks look at: whether it parses, its        *)
(* version, the flag of its basic constraints, the hashes of its two       *)
(* names, its own key, the key that signed it and with which digest.  What *)
(* is between the bytes and these fields is in Asn1.                       *)
(*                                                                         *)
(* Two things of the code are kept although no caller means them: the      *)
(* decryption of a signature overwrites the signature (rsa.c works in      *)
(* place), and the result of that decryption is not looked at, so that the *)
(* digest which is then compared may be the one an earlier check has left  *)
(* in the same place of the stack.                                         *)
(***************************************************************************)
EXTENDS Integers, Sequences

CONSTANTS
    Names, Keys,    \* hashes of names; RSA keys
    KeySize,        \* the size of each key in bytes
    Chains,         \* the sequences of certificates a message may carry
    Stores,         \* the lists of authorities this side may hold
    Junk            \* contents of sigOut that are no digest of a certificate

Digests == {"md5", "sha1", "other"}

Certs == [parses : BOOLEAN, v3 : BOOLEAN, ca : BOOLEAN, issuer : Names,
          subject : Names, key : Keys, by : Keys, alg : Digests]

ASSUME ChainsAssumption ==
    /\ Chains \subseteq Seq(Certs) \ {<<>>}
    /\ Stores \subseteq Seq(Certs)
    /\ Junk \notin Certs

VARIABLES
    chain,      \* ssl->sec.cert and its next pointers
    store,      \* ssl->keys->caCerts, <<>> for NULL
    callback,   \* ssl->sec.validateCert: what it answers, "none" for NULL
    phase,      \* where the handler is
    pos,        \* subjectCert, an index of chain
    ic,         \* the authority that is tried, an index of store
    valid,      \* the field valid of each certificate of the chain
    whole,      \* whether the signature of each is as it was received
    sigOut,     \* the certificate whose digest sigOut holds, or Junk
    unread,     \* history: a failed decryption was followed by a match
    anon        \* ssl->sec.anon

vars == <<chain, store, callback, phase, pos, ic, valid, whole, sigOut,
          unread, anon>>

Callbacks == {"none", "accept", "anonymous", "refuse"}
Phases == {"parse", "link", "authority", "judge", "accepted", "refused"}

TypeOK ==
    /\ chain \in Seq(Certs) \ {<<>>}
    /\ store \in Seq(Certs)
    /\ callback \in Callbacks
    /\ phase \in Phases
    /\ pos \in 1 .. Len(chain)
    /\ ic \in 1 .. Len(store) + 1
    /\ valid \in [1 .. Len(chain) -> {-1, 0, 1}]
    /\ whole \in [1 .. Len(chain) -> BOOLEAN]
    /\ sigOut \in Certs \cup {Junk}
    /\ unread \in BOOLEAN
    /\ anon \in BOOLEAN

Init ==
    /\ chain \in Chains
    /\ store \in Stores
    /\ callback \in Callbacks
    /\ phase = "parse"
    /\ pos = 1
    /\ ic = 1
    /\ valid = [i \in 1 .. Len(chain) |-> 0]
    /\ whole = [i \in 1 .. Len(chain) |-> TRUE]
    /\ sigOut = Junk
    /\ unread = FALSE
    /\ anon = FALSE

Refused == phase' = "refused" /\ anon' = anon

-----------------------------------------------------------------------------
(* One pass of the loop of matrixX509ValidateCertInternal: the subject is  *)
(* the certificate at pos, i the certificate its issuer may be.            *)

\* (mutant) The flag counts for certificates older than version 3.
MutantMaySign(i) == i.ca \/ i.v3

\* Certificates of version 3 sign others only with the flag; older ones are
\* not asked.
MaySign(i) == i.v3 => i.ca
NamedBy(s, i) == s.issuer = i.subject

Supported(s) == s.alg \in {"md5", "sha1"}

\* matrixRsaDecryptPub: a signature of another size than the key is left
\* alone; otherwise the signature is overwritten with its own decryption,
\* unless it is a larger number than the modulus, which the key that made it
\* never sees.
Decrypts(i) == whole[pos] /\ chain[pos].by = i.key
Overwrites(i) ==
    IF KeySize[chain[pos].by] # KeySize[i.key] THEN {FALSE}
    ELSE IF Decrypts(i) THEN {TRUE} ELSE BOOLEAN

\* The decryption puts the digest into sigOut or leaves sigOut alone, and
\* psAsnConfirmSignature compares sigOut in either case.
Decrypted(i) == IF Decrypts(i) THEN chain[pos] ELSE sigOut
Confirms(i) == Decrypted(i) = chain[pos]

\* The signature of the subject is tried with the key of i.
Try(i) ==
    /\ \E gone \in Overwrites(i) :
            whole' = [whole EXCEPT ![pos] = @ /\ ~gone]
    /\ sigOut' = Decrypted(i)
    /\ unread' = (unread \/ (Confirms(i) /\ ~Decrypts(i)))
    /\ valid' = [valid EXCEPT ![pos] = IF Confirms(i) THEN 1 ELSE -1]

\* (mutant) The signature is decrypted before the names are compared.
MutantSkip ==
    /\ whole' = [whole EXCEPT ![pos] = FALSE]
    /\ valid' = [valid EXCEPT ![pos] = -1]
    /\ UNCHANGED <<sigOut, unread>>

\* The pass ends before the signature.
Skip == UNCHANGED <<whole, sigOut, unread>> /\ valid' = [valid EXCEPT ![pos] = -1]

-----------------------------------------------------------------------------
\* The certificates are parsed; one that does not parse ends the handshake.
Parse ==
    /\ phase = "parse"
    /\ IF \A i \in DOMAIN chain : chain[i].parses
       THEN phase' = "link" /\ anon' = anon
       ELSE Refused
    /\ UNCHANGED <<chain, store, callback, pos, ic, valid, whole, sigOut, unread>>

\* matrixX509ValidateCertChain: no hole in the path is allowed.
Link ==
    /\ phase = "link"
    /\ pos < Len(chain)
    /\ LET i == chain[pos + 1] IN
       IF MaySign(i) /\ NamedBy(chain[pos], i) /\ Supported(chain[pos])
       THEN /\ Try(i)
            /\ IF Confirms(i)
               THEN pos' = pos + 1 /\ phase' = "link" /\ anon' = anon
               ELSE pos' = pos /\ Refused
       ELSE Skip /\ pos' = pos /\ Refused
    /\ UNCHANGED <<chain, store, callback, ic>>

\* (mutant) The walk ends behind the last certificate instead of at it.
MutantChainDone ==
    /\ phase = "link"
    /\ pos = Len(chain)
    /\ phase' = "authority"
    /\ pos' = pos + 1
    /\ UNCHANGED <<chain, store, callback, ic, valid, whole, sigOut, unread, anon>>

ChainDone ==
    /\ phase = "link"
    /\ pos = Len(chain)
    /\ phase' = "authority"
    /\ valid' = [valid EXCEPT ![pos] = -1]
    /\ UNCHANGED <<chain, store, callback, pos, ic, whole, sigOut, unread, anon>>

\* matrixX509ValidateCert without authorities: the last certificate must
\* have signed itself; its name and its flag are not looked at.
SelfSigned ==
    /\ phase = "authority"
    /\ store = <<>>
    /\ IF Supported(chain[pos])
       THEN Try(chain[pos]) /\ phase' = "judge" /\ anon' = anon
       ELSE Skip /\ Refused
    /\ UNCHANGED <<chain, store, callback, pos, ic>>

\* (mutant) An authority of another name is not stepped over.
MutantAuthority ==
    /\ phase = "authority"
    /\ ic \in DOMAIN store
    /\ anon' = anon
    /\ LET i == store[ic] IN
       IF ~(MaySign(i) /\ NamedBy(chain[pos], i))
       THEN Skip /\ ic' = ic /\ phase' = phase
       ELSE IF ~Supported(chain[pos])
       THEN Skip /\ ic' = ic /\ phase' = "refused"
       ELSE /\ Try(i)
            /\ IF Confirms(i) THEN ic' = ic /\ phase' = "judge"
                              ELSE ic' = ic + 1 /\ phase' = phase
    /\ UNCHANGED <<chain, store, callback, pos>>

\* ... with authorities: they are tried in the order of the list until one
\* confirms the signature.
Authority ==
    /\ phase = "authority"
    /\ ic \in DOMAIN store
    /\ anon' = anon
    /\ LET i == store[ic] IN
       IF ~(MaySign(i) /\ NamedBy(chain[pos], i))
       THEN Skip /\ ic' = ic + 1 /\ phase' = phase
       ELSE IF ~Supported(chain[pos])
       THEN Skip /\ ic' = ic /\ phase' = "refused"
       ELSE /\ Try(i)
            /\ IF Confirms(i) THEN ic' = ic /\ phase' = "judge"
                              ELSE ic' = ic + 1 /\ phase' = phase
    /\ UNCHANGED <<chain, store, callback, pos>>

NoAuthorityLeft ==
    /\ phase = "authority"
    /\ store # <<>>
    /\ ic = Len(store) + 1
    /\ phase' = "judge"
    /\ UNCHANGED <<chain, store, callback, pos, ic, valid, whole, sigOut, unread, anon>>

\* (mutant) Only the callback decides, NULL accepts.
MutantJudge ==
    /\ phase = "judge"
    /\ IF callback = "refuse" THEN Refused
       ELSE phase' = "accepted" /\ anon' = (callback = "anonymous")
    /\ UNCHANGED <<chain, store, callback, pos, ic, valid, whole, sigOut, unread>>

\* Without a callback an unconfirmed certificate is refused; with one the
\* callback decides (matrixX509UserValidator), whatever was found.
Judge ==
    /\ phase = "judge"
    /\ IF callback = "refuse" \/ (callback = "none" /\ valid[pos] < 0)
       THEN Refused
       ELSE phase' = "accepted" /\ anon' = (callback = "anonymous")
    /\ UNCHANGED <<chain, store, callback, pos, ic, valid, whole, sigOut, unread>>

Next == Parse \/ Link \/ ChainDone \/ SelfSigned \/ Authority
            \/ NoAuthorityLeft \/ Judge

Spec == Init /\ [][Next]_vars

\* The handler runs to its end: it waits for nothing.
FairSpec == Spec /\ WF_vars(Next)

-----------------------------------------------------------------------------
(* Properties *)

Last == Len(chain)
Genuine(s, i) ==
    /\ s.by = i.key /\ s.issuer = i.subject
    /\ i.v3 => i.ca
    /\ s.alg # "other"

\* Who may have signed certificate n of the chain.
Issuers(n) ==
    IF n < Last THEN {chain[n + 1]} ELSE {store[k] : k \in DOMAIN store}

\* A certificate the application is shown as verified (x509.c, the field
\* valid) really was signed by the next one of the chain, the last one by an
\* authority of this side or, without authorities, by itself - unless a
\* failed decryption went unnoticed.
VerifiedIsSigned ==
    ~unread =>
        \A n \in DOMAIN chain : valid[n] = 1 =>
            \/ \E i \in Issuers(n) : Genuine(chain[n], i)
            \/ n = Last /\ store = <<>> /\ chain[n].by = chain[n].key

\* Whatever the callback answers, a handshake goes on only with a chain
\* without holes; and without a callback only with a last certificate that
\* was verified, too (sslDecode.c, the warning before the callback).
AcceptedIsVerified ==
    phase = "accepted" =>
        /\ \A n \in DOMAIN chain : n < Last => valid[n] = 1
        /\ callback = "none" => valid[Last] = 1
        /\ anon => callback = "anonymous"

\* Of the authorities with the issuer's name the first one is always tried
\* with the signature as it was received: if it signed the certificate, the
\* certificate is shown as verified.  (A second one under the same name is
\* tried with a signature the first attempt has overwritten, x509.c:1533.)
FirstNamesakeCounts ==
    phase \in {"judge", "accepted"} =>
        \A k \in DOMAIN store :
            /\ Genuine(chain[Last], store[k])
            /\ \A j \in 1 .. k - 1 : store[j].subject # store[k].subject
            => valid[Last] = 1

\* Every message is decided: the loops over the chain and the authorities
\* end.
Decided == <>(phase \in {"accepted", "refused"})

=============================================================================
