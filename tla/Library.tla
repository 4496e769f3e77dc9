------------------------------- MODULE Library -------------------------------
(***************************************************************************)
(* One call into the parts of MatrixSSL that compute and keep no state of  *)
(* their own between calls of their users: the numbers and RSA, the        *)
(* readers of certificates and keys, digests and ciphers.  A behaviour is  *)
(* one input and what comes out; the properties compare that with what     *)
(* arithmetic, the written form or the unbroken stream say.                *)
(*                                                                         *)
(* The constants are the inputs: Pairs of integers, Powers <<G, X, P>>,    *)
(* RsaInputs (a key, a message, random bytes), Certificates (descriptions, *)
(* see Written below), FileCalls (lists of names, of files whose contents  *)
(* Described gives) and Streams (an algorithm, a key, a message and where  *)
(* it is cut).                                                             *)
(***************************************************************************)
EXTENDS Rsa, KeyFiles

CONSTANTS Pairs, Powers, RsaInputs, Certificates, FileCalls, Described, Streams

VARIABLES
    operation,  \* which part is called
    input,      \* with what
    done,       \* whether it has returned
    result      \* what it has returned

vars == <<operation, input, done, result>>

-----------------------------------------------------------------------------
(* How certificates and keys are written (DER, the reference) *)

Element(tag, contents) ==
    LET n == Len(contents)
    IN <<tag>> \o (IF n < 128 THEN <<n>>
                   ELSE IF n < 256 THEN <<129, n>> ELSE <<130, n \div 256, n % 256>>)
       \o contents

\* A number from its bytes; a leading zero keeps it positive.
WrittenInteger(bytes) ==
    Element(INTEGER, IF bytes = <<>> \/ bytes[1] >= 128 THEN <<0>> \o bytes ELSE bytes)

Algorithm(last) == Element(SEQUENCE, Element(OID, last) \o <<NULL, 0>>)
RSA_ENCRYPTION == <<42, 134, 72, 134, 247, 13, 1, 1, 1>>
MD5_WITH_RSA == <<42, 134, 72, 134, 247, 13, 1, 1, 4>>
SHA1_WITH_RSA == <<42, 134, 72, 134, 247, 13, 1, 1, 5>>

\* A name is a sequence of <<attribute, tag of the text, text>>; attribute 0
\* is one of another family, 25 under 9 instead of id-at.
WrittenAttribute(a) ==
    Element(SET, Element(SEQUENCE,
        Element(OID, IF a[1] = 0 THEN <<9, 25>> ELSE <<85, 4, a[1]>>)
            \o Element(a[2], a[3])))
WrittenName(name) ==
    Element(SEQUENCE, FlattenSeq([i \in DOMAIN name |-> WrittenAttribute(name[i])]))

\* The last text of each attribute, and all texts in their order.
NameOf(name) ==
    LET Texts1(a) == SelectSeq(name, LAMBDA t : t[1] = a)
        known == SelectSeq(name, LAMBDA t : t[1] \in Attributes)
    IN [text |-> [a \in Attributes |-> IF Texts1(a) = <<>> THEN <<>> ELSE Last(Texts1(a))[3]],
        hash |-> FlattenSeq([i \in DOMAIN known |-> known[i][3]])]

\* An extension is <<identifier, contents, critical>>.
WrittenExtension(e) ==
    Element(SEQUENCE, Element(OID, <<85, 29, e[1]>>)
        \o (IF e[3] THEN Element(BOOL, <<255>>) ELSE <<>>)
        \o Element(OCTET_STRING, e[2]))

\* What an extension says: its contents, and what they are to become.
Constraints(ca, path) ==
    [id |-> BASIC_CONSTRAINTS,
     body |-> Element(SEQUENCE, Element(BOOL, <<ca>>)
                  \o (IF path = -1 THEN <<>> ELSE Element(INTEGER, <<path>>))),
     x |-> [NoExtensions EXCEPT !.ca = ca, !.pathLenConstraint = path]]
NoConstraints ==
    [id |-> BASIC_CONSTRAINTS, body |-> Element(SEQUENCE, <<>>), x |-> NoExtensions]
Names(dns, uri, email) ==
    [id |-> ALT_SUBJECT_NAME,
     body |-> Element(SEQUENCE, Element(PRIMITIVE + 7, <<10, 0, 0, 1>>)
                  \o Element(PRIMITIVE + 2, <<1, 2>>) \o Element(PRIMITIVE + 2, dns)
                  \o Element(PRIMITIVE + 6, uri) \o Element(PRIMITIVE + 1, email)),
     x |-> [NoExtensions EXCEPT !.dns = dns, !.uri = uri, !.email = email]]
Usage(bits) ==
    [id |-> KEY_USAGE, body |-> Element(BIT_STRING, bits),
     x |-> [NoExtensions EXCEPT !.keyUsage = bits]]
Subject(id) ==
    [id |-> SUBJ_KEY_ID, body |-> Element(OCTET_STRING, id),
     x |-> [NoExtensions EXCEPT !.sk = id]]
Authority(id, name, serial) ==
    [id |-> AUTH_KEY_ID,
     body |-> Element(SEQUENCE,
                  (IF id = <<>> THEN <<>> ELSE Element(PRIMITIVE, id))
                  \o (IF name = <<>> THEN <<>>
                      ELSE Element(EXPLICIT + 1, Element(EXPLICIT + 4, WrittenName(name))))
                  \o (IF serial = <<>> THEN <<>> ELSE Element(PRIMITIVE + 2, serial))),
     x |-> [NoExtensions EXCEPT !.keyId = id, !.attribs = NameOf(name), !.serialNum = serial]]
Unknown == [id |-> 31, body |-> Element(SEQUENCE, <<5, 0>>), x |-> NoExtensions]

\* Every second extension of a list is written as critical.
Critical(i) == i % 2 = 0
\* Each extension of a certificate says something about fields of its own.
Together(extensions) ==
    [f \in DOMAIN NoExtensions |->
        LET saying == {i \in DOMAIN extensions : extensions[i].x[f] # NoExtensions[f]}
        IN IF saying = {} THEN NoExtensions[f]
           ELSE extensions[CHOOSE i \in saying : TRUE].x[f]]

WrittenPart(c) ==
    Element(SEQUENCE,
        (IF c.version = 0 THEN <<>> ELSE Element(EXPLICIT, Element(INTEGER, <<c.version>>)))
        \o Element(INTEGER, c.serial)
        \o Algorithm(c.algorithm) \o WrittenName(c.issuer)
        \o Element(SEQUENCE, Element(UTCTIME, c.from) \o Element(GENERALIZEDTIME, c.to))
        \o WrittenName(c.subject)
        \o Element(SEQUENCE, Algorithm(RSA_ENCRYPTION)
               \o Element(BIT_STRING, <<0>> \o Element(SEQUENCE,
                      WrittenInteger(c.N) \o WrittenInteger(c.e))))
        \o (IF c.extensions = <<>> THEN <<>>
            ELSE Element(EXPLICIT + 3, Element(SEQUENCE,
                     FlattenSeq([i \in DOMAIN c.extensions |->
                         WrittenExtension(<<c.extensions[i].id, c.extensions[i].body,
                                            Critical(i)>>)])))))
WrittenCertificate(c) ==
    Element(SEQUENCE, WrittenPart(c) \o Algorithm(c.signedWith)
                          \o Element(BIT_STRING, <<0>> \o c.signature))

\* The certificate of a description, as its reader should see it.
CertificateOf(c) ==
    [version |-> c.version, serialNumber |-> c.serial,
     certAlgorithm |-> Total(c.algorithm), issuer |-> NameOf(c.issuer),
     notBefore |-> c.from, notAfter |-> c.to, subject |-> NameOf(c.subject),
     publicKey |-> [N |-> c.N, e |-> c.e, size |-> Len(c.N)],
     extensions |-> Together(c.extensions), sigHash |-> WrittenPart(c),
     signature |-> c.signature]

WrittenKey(key) ==
    Element(SEQUENCE, Element(INTEGER, <<0>>)
        \o FlattenSeq([i \in DOMAIN KeyParts |-> WrittenInteger(key[KeyParts[i]])]))

\* Base64, with a line end after every fourth group.
SixBits(bytes) ==
    LET t == 65536 * bytes[1] + (IF Len(bytes) > 1 THEN 256 * bytes[2] ELSE 0)
             + (IF Len(bytes) > 2 THEN bytes[3] ELSE 0)
    IN <<t \div 262144, (t \div 4096) % 64,
         IF Len(bytes) > 1 THEN (t \div 64) % 64 ELSE EQUALS,
         IF Len(bytes) > 2 THEN t % 64 ELSE EQUALS>>
Base64(bytes) ==
    FlattenSeq([i \in 1 .. (Len(bytes) + 2) \div 3 |->
        SixBits(SubSeq(bytes, 3 * i - 2, Shorter(3 * i, Len(bytes))))
            \o IF i % 4 = 0 THEN <<OTHERS>> ELSE <<>>])

\* A piece of a file is described by its kind and by what is in it: a
\* certificate, one that cannot be parsed ("broken"), a key under a password.
Garbage == <<48, 3, 2, 1, 1>>
DerOf(p) ==
    CASE p.kind = "certificate" -> WrittenCertificate(p.of)
      [] p.kind = "broken" -> Garbage
      [] p.kind = "key" -> WrittenKey(p.of)
Salt == <<9, 8, 7, 10>>
SaltBytes == <<152, 122>>
WrittenPiece(p) ==
    CASE p.kind \in {"certificate", "broken"} ->
             [kind |-> "certificate", body |-> Base64(DerOf(p))]
      [] p.kind = "key" /\ p.password = <<>> ->
             [kind |-> "key", encrypted |-> FALSE, des3 |-> FALSE, salt |-> <<>>,
              body |-> Base64(DerOf(p))]
      [] p.kind = "key" /\ p.password # <<>> ->
             LET der == DerOf(p)
                 padding == BLOCKLEN - (Len(der) % BLOCKLEN)
                 ctx == matrix3desInit(SaltBytes, generate3DESKey(p.password, SaltBytes))
             IN [kind |-> "key", encrypted |-> TRUE, des3 |-> TRUE, salt |-> Salt,
                 body |-> Base64(matrix3desEncrypt(ctx,
                              der \o [i \in 1 .. padding |-> padding]).out)]
      [] OTHER -> [kind |-> p.kind]
WrittenFile(pieces) == [i \in DOMAIN pieces |-> WrittenPiece(pieces[i])]

KeyBytes(names) == IF names = <<>> THEN <<>> ELSE DerOf(Described[names[1]][1])

\* What the files of a list hold.
CertificatePieces(names) ==
    SelectSeq(FlattenSeq([i \in DOMAIN names |->
                  IF names[i] \in DOMAIN Described THEN Described[names[i]] ELSE <<>>]),
              LAMBDA p : p.kind \in {"certificate", "broken"})
DerList(names) ==
    LET ps == CertificatePieces(names) IN [i \in DOMAIN ps |-> DerOf(ps[i])]
Whole(names) ==
    LET ps == SelectSeq(CertificatePieces(names), LAMBDA p : p.kind = "certificate")
    IN [i \in DOMAIN ps |-> CertificateOf(ps[i].of)]

-----------------------------------------------------------------------------
(* What is called *)

Arithmetic(a, b) ==
    [add |-> mp_add(a, b), sub |-> mp_sub(a, b), mul |-> mp_mul(a, b),
     cmp |-> mp_cmp(a, b), div |-> mp_div(a, b), mod |-> mp_mod(a, b),
     addmod |-> mp_addmod(a, b, mp_add(mp_abs(b), mp_set(1))),
     sqr |-> mp_sqr(mp_abs(a)), mul_2 |-> mp_mul_2(a), div_2 |-> mp_div_2(a),
     mul_2d |-> mp_mul_2d(a, Used(b)), div_2d |-> mp_div_2d(a, Used(b)),
     mod_2d |-> mp_mod_2d(a, Used(b)), mul_d |-> mp_mul_d(a, Digit(b, 0)),
     add_d |-> mp_add_d(a, Digit(b, 0)), sub_d |-> mp_sub_d(a, Digit(b, 0)),
     cmp_d |-> mp_cmp_d(a, Digit(b, 0)),
     bytes |-> mp_to_unsigned_bin(a), size |-> mp_unsigned_bin_size(a),
     back |-> mp_read_unsigned_bin(<<0>> \o mp_to_unsigned_bin(a))]

Modular(G, X, P) ==
    LET rho == mp_montgomery_setup(P).rho
    IN [power |-> mp_exptmod(G, X, P),
        inverse |-> IF mp_iszero(mp_mod(G, P).value) THEN MP_VAL ELSE mp_invmodSSH(G, P),
        even |-> IF mp_iszero(mp_mod(G, mp_mul_2(P)).value) THEN MP_VAL
                 ELSE mp_invmodSSH(G, mp_mul_2(P)),
        reduced |-> fast_mp_montgomery_reduce(
                        mp_mul(mp_mod(G, P).value, mp_mod(X, P).value), P, rho),
        radix |-> mp_montgomery_calc_normalization(P)]

\* A message to the owner of the key, with and without its primes, and one
\* signed by the owner; and the two read with the wrong type of block.
Answers(key, msg, c, signed, swapped) ==
    [decrypted |-> matrixRsaDecryptPriv(key, c.out, Len(msg)),
     slowly |-> matrixRsaDecryptPriv([key EXCEPT !.optimized = FALSE], c.out, Len(msg)),
     opened |-> matrixRsaDecryptPub(key, signed.out, Len(msg)),
     swapped |-> matrixRsaDecryptPriv(key, swapped.out, Len(msg)),
     short |-> matrixRsaDecryptPriv(key, c.out, Len(msg) - 1)]
Rsa(key, msg, random) ==
    LET public == sslPadRSA(msg, key.size, PUBLIC, random).out
    IN Answers(key, msg,
               matrixRsaEncryptPub(key, msg, key.size, random),
               ssl_rsa_crypt(public, key.size, key, PRIVATE),
               ssl_rsa_crypt(public, key.size, key, PUBLIC))

\* A stream of certificates; the digest of the first one in a signature, and
\* that of something else.
DigestOf(algorithm, bytes) ==
    DigestBytes(<<bytes>>, IF algorithm = OID_RSA_MD5 THEN 16 ELSE 20)
SignedInfo(algorithm, bytes) ==
    Element(SEQUENCE,
        Algorithm(IF algorithm = OID_RSA_MD5 THEN <<42, 134, 72, 134, 247, 13, 2, 5>>
                                             ELSE <<43, 14, 3, 2, 26>>)
        \o Element(OCTET_STRING, DigestOf(algorithm, bytes)))
Confirmed(c, signed) ==
    psAsnConfirmSignature(DigestOf(c.certAlgorithm, c.sigHash),
                          SignedInfo(c.certAlgorithm, signed))
Confirmation(certs) ==
    [certs |-> certs,
     confirmed |-> certs.ok /\ Confirmed(certs.v[1], certs.v[1].sigHash),
     other |-> certs.ok /\ Confirmed(certs.v[1], <<0>>)]
Parsing(b) == Confirmation(matrixX509ParseCert(b, 1))

\* The bytes in as many calls as there are cuts, in ascending order.
Chunks(msg, cuts) ==
    LET ends == <<0>> \o cuts \o <<Len(msg)>>
    IN [i \in 1 .. Len(cuts) + 1 |-> SubSeq(msg, ends[i] + 1, ends[i + 1])]

\* A cipher's answers to successive calls, with the context handed on.
InTurn(Crypt(_, _), ctx, chunks) ==
    Folded(LAMBDA s, chunk :
                 LET c == Crypt(s.ctx, chunk)
                 IN [ctx |-> c.ctx, out |-> s.out \o c.out, ok |-> s.ok /\ c.ok],
             [ctx |-> ctx, out |-> <<>>, ok |-> TRUE], chunks)
Always(c) == c @@ [ok |-> TRUE]

Encrypt(ctx, pt) == Always(matrix3desEncrypt(ctx, pt))
Decrypt(ctx, ct) == Always(matrix3desDecrypt(ctx, ct))
ReadBack(sent, Crypt(_, _), ctx, cuts) ==
    IF sent.ok THEN InTurn(Crypt, ctx, Chunks(sent.out, cuts)) ELSE sent

Streamed(s) ==
    LET there == Chunks(s.msg, s.cuts)
        iv == SubSeq(s.key, 1, BLOCKLEN)
    IN CASE s.algorithm = "md5" ->
               matrixMd5Final(Folded(matrixMd5Update, matrixMd5Init, there))
         [] s.algorithm = "sha1" ->
               matrixSha1Final(Folded(matrixSha1Update, matrixSha1Init, there))
         [] s.algorithm = "rc4" ->
               ReadBack(InTurn(matrixArc4, matrixArc4Init(s.key), there),
                        matrixArc4, matrixArc4Init(s.key), s.otherCuts)
         [] s.algorithm = "3des" ->
               ReadBack(InTurn(Encrypt, matrix3desInit(iv, s.key), there),
                        Decrypt, matrix3desInit(iv, s.key), s.otherCuts)

-----------------------------------------------------------------------------
(* Behaviours *)

Init ==
    /\ done = FALSE
    /\ result = <<>>
    /\ \/ operation = "arithmetic" /\ input \in Pairs
       \/ operation = "modular" /\ input \in Powers
       \/ operation = "rsa" /\ input \in RsaInputs
       \/ operation = "parse" /\ input \in Certificates
       \/ operation = "load" /\ input \in FileCalls
       \/ operation = "stream" /\ input \in Streams

Returns(name, value) ==
    /\ ~done
    /\ operation = name
    /\ done' = TRUE
    /\ result' = value
    /\ UNCHANGED <<operation, input>>

Compute == Returns("arithmetic", Arithmetic(Number(input[1]), Number(input[2])))
Exponentiate ==
    Returns("modular", Modular(Number(input[1]), Number(input[2]), Number(input[3])))
Crypt == Returns("rsa", Rsa(input[1], input[2], input[3]))
Parse ==
    Returns("parse", Parsing(FlattenSeq([i \in DOMAIN input |-> WrittenCertificate(input[i])])))
Load ==
    Returns("load",
        [files |-> matrixRsaReadKeysEx(input.certs, input.key, input.password, input.trusted),
         memory |-> matrixRsaParseKeysMem(FlattenSeq(DerList(input.certs)), KeyBytes(input.key),
                                          FlattenSeq(DerList(input.trusted)))])
Stream == Returns("stream", Streamed(input))

Next == Compute \/ Exponentiate \/ Crypt \/ Parse \/ Load \/ Stream

Spec == Init /\ [][Next]_vars

-----------------------------------------------------------------------------
(* Properties *)

Abs(v) == IF v < 0 THEN -v ELSE v
Signed(v, n) == IF v < 0 THEN -n ELSE n

\* The numbers of mpi.c compute what the integers do: sums, products, a
\* quotient towards zero with its remainder, shifts of the magnitude, and
\* back from bytes, whatever carries, borrows and corrections of the guessed
\* digits happen on the way; and what they return has no leading zero and no
\* negative zero, which mp_cmp relies on.  (mp_add_d and mp_sub_d may return
\* a negative zero; nothing in the program compares their results.)
ArithmeticIsRight ==
    done /\ operation = "arithmetic" =>
        LET a == input[1]
            b == input[2]
            d == Digit(Number(b), 0)
            shift == 2 ^ Used(Number(b))
            modulus == Abs(b) + 1
        IN /\ Value(result.add) = a + b
           /\ Value(result.sub) = a - b
           /\ Value(result.mul) = a * b
           /\ result.cmp = (IF a < b THEN MP_LT ELSE IF a = b THEN MP_EQ ELSE MP_GT)
           /\ result.cmp_d = (IF a < d THEN MP_LT ELSE IF a = d THEN MP_EQ ELSE MP_GT)
           /\ (result.div.res = "MP_OKAY") = (b # 0)
           /\ b # 0 => /\ Value(result.div.q) = Signed(b, Signed(a, Abs(a) \div Abs(b)))
                       /\ Value(result.div.r) = Signed(a, Abs(a) % Abs(b))
                       /\ Canonical(result.div.r)
           /\ b > 0 => Value(result.mod.value) = a % b
           /\ Value(result.addmod.value) = (a + b) % modulus
           /\ Value(result.sqr) = a * a
           /\ Value(result.mul_2) = 2 * a
           /\ Value(result.div_2) = Signed(a, Abs(a) \div 2)
           /\ Value(result.mul_2d) = a * shift
           /\ Value(result.div_2d) = Signed(a, Abs(a) \div shift)
           /\ b # 0 => Value(result.mod_2d) = Signed(a, Abs(a) % shift)
           /\ Value(result.mul_d) = a * d
           /\ Value(result.add_d) = a + d
           /\ Value(result.sub_d) = a - d
           /\ Value(result.back) = Abs(a)
           /\ result.size = Len(result.bytes)
           /\ \A f \in {"add", "sub", "mul", "sqr", "mul_2", "div_2", "mul_2d", "div_2d",
                         "mod_2d", "mul_d", "back"} : Canonical(result[f])

PowerOf(G, X, P) ==
    LET p[n \in Nat] == IF n = 0 THEN 1
                        ELSE LET half == p[n \div 2]
                             IN (((half * half) % P) * (IF n % 2 = 1 THEN G % P ELSE 1)) % P
    IN p[X] % P
Coprime(a, b) == \A d \in 2 .. b : ~(a % d = 0 /\ b % d = 0)
IsInverse(r, a, b) ==
    IF Coprime(a, b) THEN r.res = "MP_OKAY" /\ (Value(r.value) * a) % b = 1
    ELSE r.res = "MP_VAL"

\* The sliding window of mp_exptmod over Montgomery's representation is the
\* power modulo an odd number, with a negative exponent that of the inverse;
\* the binary algorithm of Euclid finds an inverse exactly when there is one,
\* for odd and for even moduli; a reduction divides by the power of the radix
\* and stays below the modulus.
PowersAreRight ==
    done /\ operation = "modular" =>
        LET G == input[1]
            X == input[2]
            P == input[3]
            R == Radix ^ Used(Number(P))
        IN /\ X >= 0 => /\ result.power.res = "MP_OKAY"
                        /\ Value(result.power.value) = PowerOf(G, X, P)
           /\ X < 0 => IF Coprime(G, P)
                       THEN (Value(result.power.value) * PowerOf(G, -X, P)) % P = 1
                       ELSE result.power.res = "MP_VAL"
           /\ G % P # 0 => IsInverse(result.inverse, G, P)
           /\ G % (2 * P) # 0 => IsInverse(result.even, G, 2 * P)
           /\ Value(result.reduced) \in 0 .. P - 1
           /\ (Value(result.reduced) * (R % P)) % P = ((G % P) * (X % P)) % P
           /\ Value(result.radix) = R % P

\* What a public key has encrypted its owner reads, with the two primes as
\* well as without, and the other way round; a block of the wrong type and a
\* message of another length than expected are refused.
RsaInverts ==
    done /\ operation = "rsa" =>
        /\ result.decrypted = Gives(input[2])
        /\ result.slowly = Gives(input[2])
        /\ result.opened = Gives(input[2])
        /\ ~result.swapped.ok
        /\ ~result.short.ok

\* What the reader of extensions is known not to do: a critical extension that
\* it has no case for, and an alternative name whose length takes more than
\* one byte.
UnsupportedCritical(c) ==
    \E i \in DOMAIN c.extensions : Critical(i) /\ c.extensions[i].id \notin Extensions
NameKinds == {"dns", "uri", "email"}
LongName(c) ==
    \E i \in DOMAIN c.extensions, kind \in NameKinds : Len(c.extensions[i].x[kind]) >= 128

\* Every part of a certificate arrives where it belongs, whatever optional
\* parts, lengths of one to three bytes and unknown extensions are in between;
\* a stream of certificates is read to its end, unless the two algorithms of
\* one differ.  The digest in a signature is confirmed, another one is not.
\* Nothing is said of certificates with an alternative name of 128 bytes or
\* more, which the code misreads (x509.c:1217), and of those with a critical
\* extension that is not supported: the comment at x509.c:1128 calls that a
\* failure, the code accepts it and the comment at 1397 defends that.
ReadsWhatWasWritten ==
    done /\ operation = "parse" =>
        IF \E i \in DOMAIN input : input[i].signedWith # input[i].algorithm
        THEN ~result.certs.ok
        ELSE (\A i \in DOMAIN input : ~LongName(input[i]) /\ ~UnsupportedCritical(input[i])) =>
                 /\ result.certs.ok
                 /\ result.certs.v = [i \in DOMAIN input |-> CertificateOf(input[i])]
                 /\ result.confirmed
                 /\ ~result.other

\* A list of names can be opened, nothing but space is behind the last
\* certificate of a file, and there is a place left in the chain.
Readable(names) ==
    /\ \A i \in DOMAIN names : names[i] \in DOMAIN Described
    /\ \A i \in DOMAIN names :
           LET black == SelectSeq(Described[names[i]], LAMBDA p : p.kind # "space")
           IN black # <<>> => Last(black).kind \in {"certificate", "broken"}
    /\ Len(CertificatePieces(names)) < MAX_CHAIN_LENGTH

\* Keys are loaded from files exactly when all of them can be read and at
\* least one authority can be parsed, and then hold the chain and all
\* authorities that can be parsed, in the order of the files ("Don't allow one
\* bad cert to ruin the whole bunch", x509.c:245), and the private key; from
\* memory one bad authority is refused.  An encrypted key needs its password.
LoadsAllThatIsGood ==
    done /\ operation = "load" =>
        LET f == result.files
            m == result.memory
            piece == Described[input.key[1]][1]
            keyIsRead == input.key = <<>> \/ piece.password \in {<<>>, input.password}
            cas == Whole(input.trusted)
        IN /\ f.ok <=> /\ Readable(input.certs)
                       /\ Readable(input.trusted)
                       /\ keyIsRead
                       /\ input.trusted # <<>> => cas # <<>>
           /\ f.ok => /\ f.v.cert = DerList(input.certs)
                      /\ f.v.caCerts = cas
                      /\ input.key # <<>> =>
                             \A part \in ToSet(KeyParts) : f.v.privKey[part] = piece.of[part]
           /\ m.ok <=> Len(cas) = Len(CertificatePieces(input.trusted))
           /\ m.ok => m.v.caCerts = cas /\ m.v.cert = DerList(input.certs)

\* The digest of a message padded as a whole.
Padded(msg, length) ==
    LET zeros == CHOOSE n \in 0 .. HASH_BLOCK - 1 :
                     (Len(msg) + 1 + n + HASH_LENGTH) % HASH_BLOCK = 0
        all == ZerosTo(Append(msg, 128), Len(msg) + 1 + zeros) \o length
    IN [i \in 1 .. Len(all) \div HASH_BLOCK |->
            SubSeq(all, HASH_BLOCK * (i - 1) + 1, HASH_BLOCK * i)]

\* Into which calls a message is cut makes no difference: a digest is that of
\* the padded message, and a receiver whose records are cut otherwise than the
\* sender's calls reads what was written.  RC4 ends with ARC4_MAX_BYTES.
SplitsDoNotMatter ==
    done /\ operation = "stream" =>
        LET bits == 8 * Len(input.msg)
        IN CASE input.algorithm = "md5" ->
                    result = Padded(input.msg, LittleEndian(bits, HASH_LENGTH))
             [] input.algorithm = "sha1" ->
                    result = Padded(input.msg, BigEndian(bits, HASH_LENGTH))
             [] input.algorithm = "3des" -> result.out = input.msg
             [] input.algorithm = "rc4" ->
                    /\ result.ok <=> Len(input.msg) <= ARC4_MAX_BYTES
                    /\ result.ok => result.out = input.msg

=============================================================================
