-------------------------------- MODULE Asn1 --------------------------------
(***************************************************************************)
(* How MatrixSSL reads the DER encoding of certificates and private keys   *)
(* (pki/asn1.c, pki/rsaPki.c, pki/x509.c): with pointers into one buffer   *)
(* and the number of bytes that may be left.                               *)
(*                                                                         *)
(* A reader takes the buffer b, the index p of the next byte and the       *)
(* number of bytes len the caller allows, and gives the index behind what  *)
(* it has read and the value.  A number is its bytes without leading       *)
(* zeros, a digest of some bytes is these bytes.  Nothing is allocated.    *)
(* A byte behind the end of the buffer is never evaluated: TLC would stop. *)
(***************************************************************************)
EXTENDS Integers, Sequences, SequencesExt

INTEGER == 2
BIT_STRING == 3
OCTET_STRING == 4
NULL == 5
OID == 6
BOOL == 1
SEQUENCE == 48              \* ASN_SEQUENCE | ASN_CONSTRUCTED
SET == 49                   \* ASN_SET | ASN_CONSTRUCTED
UTCTIME == 23
GENERALIZEDTIME == 24
Texts == {12, 19, 20, 22, 30}   \* UTF8, printable, T61, IA5 and BMP strings
PRIMITIVE == 128            \* ASN_CONTEXT_SPECIFIC | ASN_PRIMITIVE
EXPLICIT == 160             \* ASN_CONTEXT_SPECIFIC | ASN_CONSTRUCTED

OID_RSA_MD5 == 648
OID_RSA_SHA1 == 649

\* What a reader returns.
Read(p, v) == [ok |-> TRUE, p |-> p, v |-> v]
Error == [ok |-> FALSE, p |-> 0, v |-> <<>>]

Slice(b, p, n) == SubSeq(b, p, p + n - 1)
Sum256(bytes) ==
    LET sum[i \in 0 .. Len(bytes)] == IF i = 0 THEN 0 ELSE 256 * sum[i - 1] + bytes[i]
    IN sum[Len(bytes)]
Total(bytes) ==
    LET sum[i \in 0 .. Len(bytes)] == IF i = 0 THEN 0 ELSE sum[i - 1] + bytes[i]
    IN sum[Len(bytes)]

RECURSIVE Stripped(_)
Stripped(bytes) ==
    IF bytes # <<>> /\ Head(bytes) = 0 THEN Stripped(Tail(bytes)) ELSE bytes

-----------------------------------------------------------------------------
(* Elements *)

\* The length of an element: one byte, or the number of bytes it takes, at
\* most four and not negative as an int32.  80 (indefinite) is refused.
asnParseLength(b, p, size) ==
    IF size < 1 \/ b[p] = 128 THEN Error
    ELSE IF b[p] < 128 THEN Read(p + 1, b[p])
    ELSE LET n == b[p] - 128
         IN IF n > 4 \/ size - 1 < n \/ (n = 4 /\ b[p + 1] >= 128) THEN Error
            ELSE Read(p + 1 + n, Sum256(Slice(b, p + 1, n)))

\* The header of an element with this tag; the index is that of its contents.
Header(b, p, len, tag) ==
    IF len < 1 \/ b[p] # tag THEN Error ELSE asnParseLength(b, p + 1, len - 1)

\* The header of an element that ends before end.
Fits(h, end) == IF h.ok /\ end - h.p >= h.v THEN h ELSE Error

\* The bytes of the contents of an element; how many are left is not asked.
Contents(b, h) == IF h.ok THEN Read(h.p + h.v, Slice(b, h.p, h.v)) ELSE Error

\* The length of a sequence or a set is compared with all that was left.
Within(h, len) == IF h.ok /\ h.v <= len THEN h ELSE Error
getSequence(b, p, len) == Within(Header(b, p, len, SEQUENCE), len)
getSet(b, p, len) == Within(Header(b, p, len, SET), len)

\* An INTEGER of any size; the numbers of a key are never negative.
getBig(b, p, len) ==
    LET c == Contents(b, Header(b, p, len, INTEGER))
    IN IF c.ok THEN Read(c.p, Stripped(c.v)) ELSE Error

\* An INTEGER of at most four bytes, negative in two's complement.
IntegerOf(b, h) ==
    IF ~h.ok \/ h.v > 4 THEN Error
    ELSE Read(h.p + h.v,
              IF b[h.p] >= 128
              THEN -(Sum256([i \in 1 .. h.v |-> 255 - b[h.p + i - 1]]) + 1)
              ELSE Sum256(Slice(b, h.p, h.v)))
getInteger(b, p, len) == IntegerOf(b, Fits(Header(b, p, len, INTEGER), p + len))

\* The serial number, which may be any string of bytes.
getSerialNum(b, p, len) ==
    Contents(b, Header(b, p, len, IF b[p] = PRIMITIVE + 2 THEN b[p] ELSE INTEGER))

\* An optional version; without it the value is that of version 1.
getExplicitVersion(b, p, len) ==
    IF len < 1 THEN Error
    ELSE IF b[p] # EXPLICIT THEN Read(p, 0)
    ELSE LET h == asnParseLength(b, p + 1, len - 1)
         IN IF ~h.ok \/ len - 1 < h.v THEN Error ELSE getInteger(b, h.p, h.v)

\* An object identifier is known by the sum of its bytes; parameters are
\* only stepped over when they are NULL.
Parameters(b, next, end, sum) ==
    IF b[next] # NULL THEN Read(next, sum)
    ELSE IF end - next < 2 THEN Error
    ELSE Read(next + 2, sum)
AlgorithmOf(b, s, o, end, isPubKey) ==
    IF ~o.ok \/ s.v < o.v \/ end - o.p < 2 THEN Error
    ELSE IF isPubKey /\ b[o.p] # 42 /\ b[o.p + 1] # 134 THEN Error
    ELSE Parameters(b, o.p + o.v, end, Total(Slice(b, o.p, o.v)))
AlgorithmIn(b, s, end, isPubKey) ==
    IF s.ok THEN AlgorithmOf(b, s, Header(b, s.p, end - s.p, OID), end, isPubKey) ELSE Error
getAlgorithmIdentifier(b, p, len, isPubKey) ==
    AlgorithmIn(b, getSequence(b, p, len), p + len, isPubKey)

\* The two times of a validity are set aside and never compared.
getTime(b, p, end, room) ==
    IF end - p < 1 THEN Error
    ELSE IF b[p] \notin {UTCTIME, GENERALIZEDTIME} THEN Error
    ELSE Contents(b, Fits(asnParseLength(b, p + 1, room), end))
UntilTime(from, to) == IF to.ok THEN Read(to.p, <<from.v, to.v>>) ELSE Error
FromTime(b, s, from, end) ==
    IF from.ok THEN UntilTime(from, getTime(b, from.p, end, s.v - Len(from.v))) ELSE Error
TimesIn(b, s, end) ==
    IF s.ok THEN FromTime(b, s, getTime(b, s.p, end, s.v), end) ELSE Error
getValidity(b, p, len) ==
    TimesIn(b, Fits(Header(b, p, len, SEQUENCE), p + len), p + len)

\* The number of ignored bits, which is not used, and the bits.
getSignature(b, p, len) ==
    LET h == Fits(Header(b, p, len, BIT_STRING), p + len)
    IN IF h.ok THEN Read(h.p + h.v, Slice(b, h.p + 1, h.v - 1)) ELSE Error

\* An optional unique identifier.  Its tag is primitive in a certificate;
\* the one that is looked for is not, so that it is left unread.
getImplicitBitString(b, p, len, n) ==
    IF len < 1 THEN Error
    ELSE IF b[p] # EXPLICIT + n THEN Read(p, <<>>)
    ELSE LET h == asnParseLength(b, p + 1, len)
         IN IF h.ok THEN Contents(b, Read(h.p + 1, h.v)) ELSE Error

\* The BIT STRING of a public key; the size is that of the modulus.
KeySequence(b, p, len) ==
    LET h == Header(b, p, len, BIT_STRING)
    IN IF h.ok /\ len - 1 >= h.v THEN getSequence(b, h.p + 1, h.v) ELSE Error
WithExponent(n, e) ==
    IF e.ok THEN Read(e.p, [N |-> n.v, e |-> e.v, size |-> Len(n.v)]) ELSE Error
WithModulus(b, n, room) ==
    IF n.ok THEN WithExponent(n, getBig(b, n.p, room)) ELSE Error
KeyIn(b, s) == IF s.ok THEN WithModulus(b, getBig(b, s.p, s.v), s.v) ELSE Error
getPubKey(b, p, len) == KeyIn(b, KeySequence(b, p, len))

=============================================================================
