-------------------------------- MODULE X509 --------------------------------
(***************************************************************************)
(* The parts of a certificate and of a private key, and the DigestInfo in  *)
(* an opened signature, as MatrixSSL reads them (pki/x509.c,               *)
(* pki/rsaPki.c) with the readers of Asn1.                                 *)
(***************************************************************************)
EXTENDS Asn1

-----------------------------------------------------------------------------
(* Names *)

COMMON_NAME == 3
COUNTRY_NAME == 6
LOCALITY == 7
STATE_PROVINCE == 8
ORGANIZATION == 10
ORG_UNIT == 11
Attributes == {COMMON_NAME, COUNTRY_NAME, LOCALITY, STATE_PROVINCE, ORGANIZATION, ORG_UNIT}

\* A name: the text of each attribute and the digest over all of them.
NoName == [text |-> [a \in Attributes |-> <<>>], hash |-> <<>>]

\* An attribute under id-at: the later text of an attribute replaces the
\* earlier one, but both are in the digest; the length of a text that cannot
\* be read is the length read before, that of the whole sequence.
WithText(name, id, s) ==
    IF id \notin Attributes THEN name
    ELSE [text |-> [name.text EXCEPT ![id] = s], hash |-> name.hash \o s]
KnownAttribute(b, p, end, arcLen, llen, name) ==
    LET read == asnParseLength(b, p + 4, end - (p + 4))
        t == IF read.ok THEN read ELSE Read(p + 4, llen)
    IN IF arcLen # 3 \/ end - (p + 2) < 2 THEN Error
       ELSE IF end - t.p < t.v \/ b[p + 3] \notin Texts THEN Error
       ELSE Read(t.p + t.v, WithText(name, b[p + 2], Slice(b, t.p, t.v)))

\* An attribute under any other identifier is stepped over.
ForeignAttribute(b, p, end, arcLen, name) ==
    LET t == Fits(asnParseLength(b, p + arcLen + 1, end - (p + arcLen + 1)), end)
    IN IF end - p < arcLen + 1 \/ ~t.ok THEN Error ELSE Read(t.p + t.v, name)

\* A set with one attribute after the other; a second one in the same set is
\* not expected.
Attribute(b, o, end, llen, name) ==
    IF ~o.ok \/ end - o.p < o.v \/ end - o.p < 2 THEN Error
    ELSE IF b[o.p] = 85 /\ b[o.p + 1] = 4
    THEN KnownAttribute(b, o.p, end, o.v, llen, name)
    ELSE ForeignAttribute(b, o.p, end, o.v, name)
SequenceInSet(b, p, end) ==
    LET set == getSet(b, p, end - p)
    IN IF set.ok THEN getSequence(b, set.p, end - set.p) ELSE Error
AttributeIn(b, s, end, name) ==
    IF s.ok THEN Attribute(b, Header(b, s.p, end - s.p, OID), end, s.v, name) ELSE Error

RECURSIVE NameFrom(_, _, _)
NameFrom(b, so, end) ==
    IF ~so.ok \/ so.p >= end THEN so
    ELSE NameFrom(b, AttributeIn(b, SequenceInSet(b, so.p, end), end, so.v), end)

NameIn(b, s, name) == IF s.ok THEN NameFrom(b, Read(s.p, name), s.p + s.v) ELSE Error
getDNAttributes(b, p, len, attribs) ==
    NameIn(b, getSequence(b, p, len), [attribs EXCEPT !.hash = <<>>])

-----------------------------------------------------------------------------
(* Extensions of version 3 *)

KEY_USAGE == 15
ALT_SUBJECT_NAME == 17
BASIC_CONSTRAINTS == 19
SUBJ_KEY_ID == 14
AUTH_KEY_ID == 35
Extensions == {KEY_USAGE, ALT_SUBJECT_NAME, BASIC_CONSTRAINTS, SUBJ_KEY_ID, AUTH_KEY_ID}

NoExtensions ==
    [ca |-> 0, pathLenConstraint |-> 0, dns |-> <<>>, uri |-> <<>>, email |-> <<>>,
     keyUsage |-> <<>>, sk |-> <<>>, keyId |-> <<>>, attribs |-> NoName,
     serialNum |-> <<>>]

\* The table holds the digests of the identifiers id-ce 14, 15, 17, 19, 35.
lookupExt(oid) ==
    IF Len(oid) = 3 /\ oid[1] = 85 /\ oid[2] = 29 /\ oid[3] \in Extensions
    THEN oid[3] ELSE -1

\* An empty sequence is one way to say that the owner is no authority.
PathLength(i, x) == IF i.ok THEN Read(i.p, [x EXCEPT !.pathLenConstraint = i.v]) ELSE Error
ConstraintsIn(b, s, end, x) ==
    IF ~s.ok THEN Error
    ELSE IF s.v = 0 THEN Read(s.p, x)
    ELSE IF end - s.p < 3 THEN Error
    ELSE IF b[s.p] # BOOL \/ b[s.p + 1] # 1 THEN Error
    ELSE IF b[s.p + 3] # INTEGER
    THEN Read(s.p + 3, [x EXCEPT !.ca = b[s.p + 2], !.pathLenConstraint = -1])
    ELSE PathLength(getInteger(b, s.p + 3, end - (s.p + 3)), [x EXCEPT !.ca = b[s.p + 2]])
BasicConstraints(b, p, end, x) == ConstraintsIn(b, getSequence(b, p, end - p), end, x)

\* (mutant) The tag and the length of a name are not counted.
MutantAltNames(b, p, len, end, x) ==
    IF len <= 0 THEN Read(p, x)
    ELSE IF end - (p + 2) < b[p + 1] THEN Error
    ELSE Read(p + 2 + b[p + 1], x)

\* The names of a subject, each with a length of one byte; only the last one
\* of a kind is kept.
RECURSIVE AltNames(_, _, _, _, _)
AltNames(b, p, len, end, x) ==
    LET n == b[p + 1]
        s == Slice(b, p + 2, n)
        y == CASE b[p] = PRIMITIVE + 2 -> [x EXCEPT !.dns = s]
               [] b[p] = PRIMITIVE + 6 -> [x EXCEPT !.uri = s]
               [] b[p] = PRIMITIVE + 1 -> [x EXCEPT !.email = s]
               [] OTHER -> x
    IN IF len <= 0 THEN Read(p, x)
       ELSE IF end - (p + 2) < n THEN Error
       ELSE AltNames(b, p + 2 + n, len - (n + 2), end, y)

AltSubjectName(b, p, end, x) ==
    LET s == getSequence(b, p, end - p)
    IN IF s.ok THEN AltNames(b, s.p, s.v, end, x) ELSE Error

\* The three parts of the identifier of an authority's key are optional; each
\* goes on with what has been read so far.
KeyIdentifier(b, so, end) ==
    LET h == Fits(asnParseLength(b, so.p + 1, end - (so.p + 1)), end)
    IN IF b[so.p] # PRIMITIVE THEN so
       ELSE IF h.ok THEN Read(h.p + h.v, [so.v EXCEPT !.keyId = Slice(b, h.p, h.v)])
       ELSE Error
DirectoryName(b, h, end) ==
    IF ~h.ok \/ h.v < 1 THEN Error
    ELSE IF b[h.p] # EXPLICIT + 4 THEN Error
    ELSE Fits(asnParseLength(b, h.p + 1, end - (h.p + 1)), end)
DirectoryIn(b, n, end, attribs) ==
    IF n.ok THEN getDNAttributes(b, n.p, end - n.p, attribs) ELSE Error
Issued(x, dn) == IF dn.ok THEN Read(dn.p, [x EXCEPT !.attribs = dn.v]) ELSE Error
AuthorityName(b, so, end) ==
    IF ~so.ok \/ b[so.p] # EXPLICIT + 1 THEN so
    ELSE Issued(so.v,
             DirectoryIn(b,
                 DirectoryName(b, Fits(asnParseLength(b, so.p + 1, end - (so.p + 1)), end), end),
                 end, so.v.attribs))
AuthoritySerial(b, so, end) ==
    LET n == getSerialNum(b, so.p, end - so.p)
    IN IF ~so.ok \/ b[so.p] \notin {PRIMITIVE + 2, INTEGER} THEN so
       ELSE IF n.ok THEN Read(n.p, [so.v EXCEPT !.serialNum = n.v]) ELSE Error
AuthorityIn(b, s, end, x) ==
    IF ~s.ok THEN Error
    ELSE IF s.v = 0 THEN Read(s.p, x)
    ELSE AuthoritySerial(b, AuthorityName(b, KeyIdentifier(b, Read(s.p, x), end), end), end)
AuthKeyId(b, p, end, x) == AuthorityIn(b, getSequence(b, p, end - p), end, x)

\* Key usage and the identifier of the subject's key are set aside as bytes.
KeyUsage(b, p, end, x) ==
    LET h == Fits(Header(b, p, end - p, BIT_STRING), end)
    IN IF h.ok THEN Read(h.p + h.v, [x EXCEPT !.keyUsage = Slice(b, h.p, h.v)]) ELSE Error
SubjKeyId(b, p, end, x) ==
    LET h == Fits(Header(b, p, end - p, OCTET_STRING), end)
    IN IF h.ok THEN Read(h.p + h.v, [x EXCEPT !.sk = Slice(b, h.p, h.v)]) ELSE Error

\* Whether an extension is critical is read and, other than one comment says,
\* not looked at: one that is not known is stepped over.
ExtensionValue(b, h, noid, full, end, x) ==
    IF ~h.ok THEN Error
    ELSE CASE noid = BASIC_CONSTRAINTS -> BasicConstraints(b, h.p, end, x)
           [] noid = ALT_SUBJECT_NAME -> AltSubjectName(b, h.p, end, x)
           [] noid = AUTH_KEY_ID -> AuthKeyId(b, h.p, end, x)
           [] noid = KEY_USAGE -> KeyUsage(b, h.p, end, x)
           [] noid = SUBJ_KEY_ID -> SubjKeyId(b, h.p, end, x)
           [] OTHER -> Read(full.p + full.v, x)
ExtensionBody(b, next, end) ==
    IF b[next] # BOOL THEN Fits(Header(b, next, end - next, OCTET_STRING), end)
    ELSE IF b[next + 1] # 1 THEN Error
    ELSE Fits(Header(b, next + 3, end - (next + 3), OCTET_STRING), end)
ExtensionOf(b, full, o, end, x) ==
    IF ~o.ok THEN Error
    ELSE ExtensionValue(b, ExtensionBody(b, o.p + o.v, end), lookupExt(Slice(b, o.p, o.v)),
                        full, end, x)
Extension(b, full, end, x) ==
    IF ~full.ok THEN Error
    ELSE ExtensionOf(b, full, Fits(Header(b, full.p, end - full.p, OID), end), end, x)

RECURSIVE ExtensionsFrom(_, _, _)
ExtensionsFrom(b, so, end) ==
    IF ~so.ok \/ so.p = end \/ b[so.p] # SEQUENCE THEN so
    ELSE ExtensionsFrom(b, Extension(b, getSequence(b, so.p, end - so.p), end, so.v), end)

ExtensionSequence(b, p, len) ==
    LET h == Fits(asnParseLength(b, p + 1, len - 1), p + len)
    IN IF h.ok THEN getSequence(b, h.p, p + len - h.p) ELSE Error
ExtensionsIn(b, s) ==
    IF s.ok THEN ExtensionsFrom(b, Read(s.p, NoExtensions), s.p + s.v) ELSE Error
getExplicitExtensions(b, p, len) ==
    IF len < 1 THEN Error
    ELSE IF b[p] # EXPLICIT + 3 THEN Read(p, NoExtensions)
    ELSE ExtensionsIn(b, ExtensionSequence(b, p, len))

-----------------------------------------------------------------------------
(* Certificates *)

\* What may follow the public key: two unique identifiers and extensions,
\* unless the next element is the signature's algorithm.
UniqueIdentifiers(b, p, end) ==
    LET i == getImplicitBitString(b, p, end - p, 1)
    IN IF i.ok THEN getImplicitBitString(b, i.p, end - i.p, 2) ELSE Error
Optional(b, p, end) ==
    LET u == UniqueIdentifiers(b, p, end)
    IN IF b[p] = SEQUENCE THEN Read(p, NoExtensions)
       ELSE IF u.ok THEN getExplicitExtensions(b, u.p, end - u.p) ELSE Error

\* The parts of a certificate in their order.  What has been read so far is,
\* by part, what its reader gave.
Parts == <<"outer", "tbs", "version", "serial", "alg", "issuer", "validity", "subject",
           "info", "keyAlg", "key", "extensions", "sigAlg", "sig">>
Part(b, so, part, end) ==
    CASE part \in {"outer", "tbs", "info"} -> getSequence(b, so.p, end - so.p)
      [] part = "version" -> getExplicitVersion(b, so.p, end - so.p)
      [] part = "serial" -> getSerialNum(b, so.p, end - so.p)
      [] part \in {"alg", "keyAlg"} ->
             getAlgorithmIdentifier(b, so.p, end - so.p, part = "keyAlg")
      [] part \in {"issuer", "subject"} -> getDNAttributes(b, so.p, end - so.p, NoName)
      [] part = "validity" -> getValidity(b, so.p, end - so.p)
      [] part = "key" -> getPubKey(b, so.p, end - so.p)
      [] part = "extensions" -> Optional(b, so.p, end)
      [] part = "sigAlg" ->
             IF so.p # so.v["tbs"].p + so.v["tbs"].v THEN Error
             ELSE getAlgorithmIdentifier(b, so.p, end - so.p, FALSE)
      [] part = "sig" ->
             IF so.v["sigAlg"].v # so.v["alg"].v THEN Error
             ELSE getSignature(b, so.p, end - so.p)
WithPart(so, part, r) == IF r.ok THEN Read(r.p, (part :> r) @@ so.v) ELSE Error

RECURSIVE PartsFrom(_, _, _, _)
PartsFrom(b, so, parts, end) ==
    IF ~so.ok \/ parts = <<>> THEN so
    ELSE PartsFrom(b, WithPart(so, Head(parts), Part(b, so, Head(parts), end)),
                   Tail(parts), end)

\* One certificate of a buffer.  It must end where its length says; the two
\* algorithms must agree; what was signed is set aside for MD5 and SHA1.
Assembled(b, so) ==
    [version |-> so["version"].v, serialNumber |-> so["serial"].v,
     certAlgorithm |-> so["alg"].v, issuer |-> so["issuer"].v,
     notBefore |-> so["validity"].v[1], notAfter |-> so["validity"].v[2],
     subject |-> so["subject"].v, publicKey |-> so["key"].v,
     extensions |-> so["extensions"].v,
     sigHash |-> IF so["alg"].v \in {OID_RSA_MD5, OID_RSA_SHA1}
                 THEN Slice(b, so["outer"].p, so["extensions"].p - so["outer"].p)
                 ELSE <<>>,
     signature |-> so["sig"].v]
Completed(b, so) == IF so.ok THEN Read(so.p, Assembled(b, so.v)) ELSE Error
Certificate(b, p, end) == Completed(b, PartsFrom(b, Read(p, <<>>), Parts, end))

\* The certificates of a buffer, one behind the other.
RECURSIVE CertificatesFrom(_, _, _)
Behind(b, so, c) ==
    IF ~c.ok THEN Error
    ELSE IF c.p = Len(b) + 1 THEN Read(c.p, Append(so, c.v))
    ELSE CertificatesFrom(b, c.p, Append(so, c.v))
CertificatesFrom(b, p, so) == Behind(b, so, Certificate(b, p, Len(b) + 1))
matrixX509ParseCert(b, p) == CertificatesFrom(b, p, <<>>)

\* An opened signature against the digest of what was signed.
OID_SHA1 == 88
OID_MD5 == 649
OID_MD2 == 646
DigestOfSize(a, h) ==
    IF \/ a.v \in {OID_MD5, OID_MD2} /\ Len(h.v) = 16
       \/ a.v = OID_SHA1 /\ Len(h.v) = 20
    THEN h ELSE Error
DigestAfter(b, a, end) ==
    IF a.ok THEN DigestOfSize(a, Contents(b, Fits(Header(b, a.p, end - a.p, OCTET_STRING), end)))
    ELSE Error
DigestIn(b, s, end) ==
    IF s.ok THEN DigestAfter(b, getAlgorithmIdentifier(b, s.p, end - s.p, FALSE), end)
    ELSE Error
Confirms(d, sigHash) == d.ok /\ d.v = SubSeq(sigHash, 1, Len(d.v))
psAsnConfirmSignature(sigHash, sigOut) ==
    Confirms(DigestIn(sigOut, getSequence(sigOut, 1, Len(sigOut)), Len(sigOut) + 1), sigHash)

-----------------------------------------------------------------------------
(* Private keys *)

\* Version, eight numbers and nothing else; all parts are there, so that the
\* private operation goes through the two primes.
KeyParts == <<"N", "e", "d", "p", "q", "dP", "dQ", "qP">>
NoKey == [N |-> <<>>, e |-> <<>>, d |-> <<>>, p |-> <<>>, q |-> <<>>, dP |-> <<>>,
          dQ |-> <<>>, qP |-> <<>>, optimized |-> TRUE, size |-> 0]
WithNumber(so, part, n) ==
    IF n.ok THEN Read(n.p, [so.v EXCEPT ![part] = n.v]) ELSE Error

RECURSIVE NumbersFrom(_, _, _, _)
NumbersFrom(b, so, parts, end) ==
    IF ~so.ok \/ parts = <<>> THEN so
    ELSE NumbersFrom(b, WithNumber(so, Head(parts), getBig(b, so.p, end - so.p)),
                     Tail(parts), end)

AfterVersion(version) ==
    IF version.ok /\ version.v = 0 THEN Read(version.p, NoKey) ELSE Error
KeyEndingAt(key, end) ==
    IF key.ok /\ key.p = end THEN Read(end, [key.v EXCEPT !.size = Len(key.v.N)]) ELSE Error
PrivateKeyIn(b, s, end) ==
    IF s.ok
    THEN KeyEndingAt(NumbersFrom(b, AfterVersion(getInteger(b, s.p, end - s.p)), KeyParts, end),
                     s.p + s.v)
    ELSE Error
psAsnParsePrivateKey(b) == PrivateKeyIn(b, getSequence(b, 1, Len(b)), Len(b) + 1)

=============================================================================
