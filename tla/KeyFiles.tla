------------------------------ MODULE KeyFiles ------------------------------
(***************************************************************************)
(* How MatrixSSL comes to the certificates and the private key it works    *)
(* with (pki/x509.c, pki/rsaPki.c, crypto/peersec/base64.c): from PEM      *)
(* files, or from DER in memory.                                           *)
(*                                                                         *)
(* A file is a sequence of pieces: "certificate" and "key" from BEGIN to   *)
(* END, "space", and any other "text".  A character of base64 is its value *)
(* in the code's table, 254 for =, 255 for all that is stepped over; a     *)
(* hexadecimal digit is its value.  Files is what can be opened, by name;  *)
(* a list of names is a sequence.                                          *)
(***************************************************************************)
EXTENDS X509, Ciphers

CONSTANTS Files, MAX_CHAIN_LENGTH

ASSUME ChainAssumption == MAX_CHAIN_LENGTH \in Nat \ {0}

-----------------------------------------------------------------------------
(* Text *)

EQUALS == 254
OTHERS == 255

\* A byte less for each = of the last group, which has one byte at least.
Trimmed(n, equals) == IF equals = 3 THEN n - 2 ELSE n - equals

\* Four characters make three bytes; = stands for a byte less and is followed
\* by nothing but =; a group must be complete.
ps_base64_decode(in) ==
    LET chars == SelectSeq(in, LAMBDA c : c # OTHERS)
        equals == Len(SelectSeq(chars, LAMBDA c : c = EQUALS))
        Six(i) == IF chars[i] = EQUALS THEN 0 ELSE chars[i]
        \* the k-th byte takes bits of two characters
        Byte(k) == LET i == 4 * ((k - 1) \div 3) + ((k - 1) % 3) + 1
                   IN CASE k % 3 = 1 -> 4 * Six(i) + Six(i + 1) \div 16
                        [] k % 3 = 2 -> 16 * (Six(i) % 16) + Six(i + 1) \div 4
                        [] k % 3 = 0 -> 64 * (Six(i) % 4) + Six(i + 1)
    IN [ok |-> /\ Len(chars) % 4 = 0
               /\ equals <= 3
               /\ \A i \in 1 .. Len(chars) - equals : chars[i] # EQUALS,
        v |-> [k \in 1 .. Trimmed(3 * (Len(chars) \div 4), equals) |-> Byte(k)]]

\* Two digits to a byte, the high one first.
hexToBinary(hex, n) ==
    [ok |-> \A i \in 1 .. 2 * n : hex[i] \in 0 .. 15,
     v |-> [i \in 1 .. n |-> 16 * hex[2 * i - 1] + hex[2 * i]]]

-----------------------------------------------------------------------------
(* Files *)

Failed == Error
Done(v) == [ok |-> TRUE, v |-> v]

IsKind(kind, piece) == piece.kind = kind

\* The certificates of a file behind those read before.  Text in front of one
\* is stepped over, text behind the last one is refused; so is the last
\* place of the chain.
RECURSIVE ReadPieces(_, _)
Joined(chain, der, pieces) ==
    IF ~der.ok \/ Len(chain) + 1 = MAX_CHAIN_LENGTH THEN Failed
    ELSE ReadPieces(pieces, Append(chain, der.v))
ReadPieces(pieces, chain) ==
    LET found == {i \in DOMAIN pieces : IsKind("certificate", pieces[i])}
        First == CHOOSE n \in found : \A m \in found : n <= m
        Spaces(i) == CHOOSE n \in i .. Len(pieces) :
                         /\ \A m \in i + 1 .. n : IsKind("space", pieces[m])
                         /\ n < Len(pieces) => ~IsKind("space", pieces[n + 1])
    IN IF pieces = <<>> THEN Done(chain)
       ELSE IF found = {} THEN Failed
       ELSE Joined(chain, ps_base64_decode(pieces[First].body),
                   SubSeq(pieces, Spaces(First) + 1, Len(pieces)))

\* The certificates of all files of a list.
matrixX509ReadCert(names) ==
    Folded(LAMBDA s, name :
                 IF ~s.ok \/ name \notin DOMAIN Files THEN Failed
                 ELSE ReadPieces(Files[name], s.v),
             Done(<<>>), names)

\* A length of zero ends the chain.
UpToEmpty(chain) ==
    SubSeq(chain, 1, CHOOSE n \in 0 .. Len(chain) :
                         /\ \A i \in 1 .. n : chain[i] # <<>>
                         /\ n < Len(chain) => chain[n + 1] = <<>>)

readCertChain(names) ==
    LET c == matrixX509ReadCert(names) IN [c EXCEPT !.v = UpToEmpty(@)]

\* The text of a private key; with a password it is decrypted, if it has whole
\* blocks: whether that went well is not asked.
Unlocked(password, salt, der) ==
    IF ~salt.ok \/ ~der.ok THEN Failed
    ELSE IF Len(der.v) % BLOCKLEN # 0 THEN der
    ELSE Done(matrix3desDecrypt(matrix3desInit(salt.v, generate3DESKey(password, salt.v)),
                                der.v).out)
KeyText(key, password) ==
    IF ~key.encrypted THEN ps_base64_decode(key.body)
    ELSE IF password = <<>> \/ ~key.des3 THEN Failed
    ELSE Unlocked(password, hexToBinary(key.salt, BLOCKLEN), ps_base64_decode(key.body))
matrixRsaReadPrivKey(name, password) ==
    IF name \notin DOMAIN Files THEN Failed
    ELSE LET found == {i \in DOMAIN Files[name] : IsKind("key", Files[name][i])}
         IN IF found = {} THEN Failed
            ELSE KeyText(Files[name][CHOOSE n \in found : \A m \in found : n <= m], password)

\* The certificates of the authorities in the order of the files: one that
\* cannot be parsed is left out.  Each list is hung behind the head of the
\* one before.
Linked(lists) ==
    [i \in 1 .. Len(lists) - 1 |-> Head(lists[i])]
        \o (IF lists = <<>> THEN <<>> ELSE Last(lists))
Parsed(ders) == [i \in DOMAIN ders |-> matrixX509ParseCert(ders[i], 1)]
Values(reads) == [i \in DOMAIN reads |-> reads[i].v]

\* (mutant) One certificate that cannot be parsed ends the list.
MutantAuthorities(parsed) ==
    Linked(Values(SubSeq(parsed, 1, CHOOSE m \in 0 .. Len(parsed) :
                                        /\ \A i \in 1 .. m : parsed[i].ok
                                        /\ m < Len(parsed) => ~parsed[m + 1].ok)))

Authorities(parsed) == Linked(Values(SelectSeq(parsed, LAMBDA r : r.ok)))

\* Chain, private key and authorities; each may be left out (<<>>).
Keys(certs, key, cas) ==
    IF certs.ok /\ key.ok /\ cas.ok
    THEN Done([cert |-> certs.v, privKey |-> key.v, caCerts |-> cas.v])
    ELSE Failed
SomeAuthority(cas) == IF cas = <<>> THEN Failed ELSE Done(cas)
KeyOf(text) == IF text.ok THEN psAsnParsePrivateKey(text.v) ELSE Failed
TrustedOf(chain) ==
    IF chain.ok THEN SomeAuthority(Authorities(Parsed(chain.v))) ELSE Failed
matrixRsaReadKeysEx(certFiles, privFile, password, trustedCAFiles) ==
    Keys(readCertChain(certFiles),
         IF privFile = <<>> THEN Done(<<>>)
         ELSE KeyOf(matrixRsaReadPrivKey(Head(privFile), password)),
         IF trustedCAFiles = <<>> THEN Done(<<>>) ELSE TrustedOf(readCertChain(trustedCAFiles)))

-----------------------------------------------------------------------------
(* Memory *)

\* A stream of DER is cut by the lengths it begins with.
RECURSIVE CutFrom(_, _)
CutOff(s, b, chain) ==
    IF s.ok THEN CutFrom(SubSeq(b, s.p + s.v, Len(b)), Append(chain, SubSeq(b, 1, s.p + s.v - 1)))
    ELSE Failed
CutFrom(b, chain) ==
    IF b = <<>> THEN Done(chain) ELSE CutOff(getSequence(b, 1, Len(b)), b, chain)
CutUp(b) == CutFrom(b, <<>>)

\* Here one authority that cannot be parsed is one too many.
AllAuthorities(parsed) ==
    IF \A i \in DOMAIN parsed : parsed[i].ok THEN Done(Linked(Values(parsed))) ELSE Failed
ParsedAll(chain) == IF chain.ok THEN AllAuthorities(Parsed(chain.v)) ELSE Failed
matrixRsaParseKeysMem(certBuf, privBuf, trustedCABuf) ==
    Keys(CutUp(certBuf),
         IF privBuf = <<>> THEN Done(<<>>) ELSE psAsnParsePrivateKey(privBuf),
         ParsedAll(CutUp(trustedCABuf)))

=============================================================================
