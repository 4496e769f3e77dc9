-------------------------------- MODULE Rsa --------------------------------
(***************************************************************************)
(* The RSA operations of MatrixSSL (crypto/peersec/rsa.c) on the numbers   *)
(* of Bignum: padding after PKCS#1 v1.5, the power modulo N or, with all   *)
(* parts of a private key, modulo its two primes, and the check of the     *)
(* padding.  Byte strings are sequences of 0 .. 2^BYTE - 1.                *)
(*                                                                         *)
(* A key is a record of the mp_ints N, e, d, p, q, dP, dQ, qP, the flag    *)
(* optimized and the size of N in bytes; a public key uses N, e and size.  *)
(***************************************************************************)
EXTENDS Bignum

Bytes == 0 .. 2 ^ BYTE - 1
FF == 2 ^ BYTE - 1
PUBLIC == 1
PRIVATE == 2

\* A type of block is a byte that is neither zero nor FF.
ASSUME TypeByteAssumption == PUBLIC < FF /\ PRIVATE < FF

\* What an operation returns: success and its bytes.
Gives(bytes) == [ok |-> TRUE, out |-> bytes]
Refusal == [ok |-> FALSE, out |-> <<>>]

Repeat(b, n) == [i \in 1 .. n |-> b]

\* The caller's random bytes for a block of size bytes around the message.
PadRoom(msg, size) == size - 3 - Len(msg)

\* sslPadRSA: 00 <type> <padding> 00 <message>.  The padding is FF for a
\* public block and random otherwise, with every zero replaced by one.
sslPadRSA(msg, size, type, random) ==
    IF PadRoom(msg, size) < 8 THEN Refusal
    ELSE Gives(<<0, type>>
               \o [i \in 1 .. PadRoom(msg, size) |->
                       IF type = PUBLIC THEN FF
                       ELSE IF random[i] = 0 THEN 1 ELSE random[i]]
               \o <<0>> \o msg)

\* (mutant) The padding ends where the expected message begins.
MutantUnpad(in, outlen, type) ==
    IF Len(in) < outlen + 10 \/ in[1] # 0 \/ in[2] # type THEN Refusal
    ELSE Gives(SubSeq(in, Len(in) - outlen + 1, Len(in)))

\* sslUnpadRSA: the padding ends at the first zero; FF is all a public block
\* may have before; what is behind must have the length the caller expects.
sslUnpadRSA(in, outlen, type) ==
    LET zero == CHOOSE z \in 3 .. Len(in) + 1 :
                    /\ z <= Len(in) => in[z] = 0
                    /\ \A i \in 3 .. z - 1 : in[i] # 0
    IN IF \/ Len(in) < outlen + 10
          \/ in[1] # 0
          \/ in[2] # type
          \/ type = PUBLIC /\ \E i \in 3 .. zero - 1 : in[i] # FF
          \/ Len(in) - zero # outlen
       THEN Refusal
       ELSE Gives(SubSeq(in, zero + 1, Len(in)))

\* The Chinese remainder: h = (a - b) * qP mod p, then h * q + b.
Combined(a, b, key) ==
    mp_add(mp_mul(mp_mulmod(mp_sub(a, b), key.qP, key.p).value, key.q), b)

BothPowers(a, b, key) ==
    IF a.res # "MP_OKAY" \/ b.res # "MP_OKAY" THEN MP_VAL
    ELSE Okay(Combined(a.value, b.value, key))
PrivatePower(c, key) ==
    IF ~key.optimized THEN mp_exptmod(c, key.d, key.N)
    ELSE BothPowers(mp_exptmod(c, key.dP, key.p), mp_exptmod(c, key.dQ, key.q), key)

\* ssl_rsa_crypt: a number above the modulus is refused (the modulus itself
\* is not); the result is filled up with zeros in front to the size of N.
Sized(out, size) == Gives(Repeat(0, size - Len(out)) \o out)
Output(r, outlen, key) ==
    LET x == mp_unsigned_bin_size(key.N)
    IN IF r.res # "MP_OKAY" \/ x > outlen THEN Refusal
       ELSE Sized(mp_to_unsigned_bin(r.value), Larger(x, key.size))
Crypted(c, outlen, key, type) ==
    IF mp_cmp(key.N, c) = MP_LT THEN Refusal
    ELSE Output(IF type = PRIVATE THEN PrivatePower(c, key) ELSE mp_exptmod(c, key.e, key.N),
                outlen, key)
ssl_rsa_crypt(in, outlen, key, type) ==
    Crypted(mp_read_unsigned_bin(in), outlen, key, type)

\* The client encrypts the premaster secret.
OfSize(c, key) == IF c.ok /\ Len(c.out) = key.size THEN c ELSE Refusal
Encrypted(block, outlen, key) ==
    IF block.ok THEN OfSize(ssl_rsa_crypt(block.out, outlen, key, PUBLIC), key) ELSE Refusal
matrixRsaEncryptPub(key, msg, outlen, random) ==
    IF outlen < key.size THEN Refusal
    ELSE Encrypted(sslPadRSA(msg, key.size, PRIVATE, random), outlen, key)

Unpadded(block, outlen, type) == IF block.ok THEN sslUnpadRSA(block.out, outlen, type) ELSE Refusal

\* The server decrypts it.
matrixRsaDecryptPriv(key, in, outlen) ==
    IF Len(in) # key.size THEN Refusal
    ELSE Unpadded(OfSize(ssl_rsa_crypt(in, Len(in), key, PRIVATE), key), outlen, PRIVATE)

\* A signature is opened.
matrixRsaDecryptPub(key, in, outlen) ==
    IF Len(in) # key.size THEN Refusal
    ELSE Unpadded(OfSize(ssl_rsa_crypt(in, Len(in), key, PUBLIC), key), outlen, PUBLIC)

=============================================================================
