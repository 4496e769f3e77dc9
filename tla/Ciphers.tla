------------------------------- MODULE Ciphers -------------------------------
(***************************************************************************)
(* The digests and ciphers of MatrixSSL (crypto/peersec: md5.c, sha1.c,    *)
(* arc4.c, des3.c) as far as they are streams: a caller hands over its     *)
(* bytes in any number of calls, a context is all that is kept in between. *)
(*                                                                         *)
(* What turns a block into noise is abstract: a chaining value is the      *)
(* blocks that went into it, the S-boxes are the function SP, the          *)
(* selection of key bits is RoundKey.  The constants scale the rest down:  *)
(* HASH_BLOCK, HASH_LENGTH: bytes of a block and of the length, 64 and 8;  *)
(* ROUNDS: of DES, 16;  ARC4_STATE: permuted numbers, 256;                 *)
(* ARC4_MAX_BYTES: 2^30.  A word of DES has 8 bits, a block two of them.   *)
(***************************************************************************)
EXTENDS Integers, Sequences, SequencesExt, Bitwise

CONSTANTS HASH_BLOCK, HASH_LENGTH, ROUNDS, SP, ARC4_STATE, ARC4_MAX_BYTES

ASSUME HashAssumption == HASH_LENGTH \in 1 .. HASH_BLOCK - 1
ASSUME RoundsAssumption == ROUNDS \in Nat /\ ROUNDS % 2 = 0
ASSUME SPAssumption == SP \in [0 .. 255 -> 0 .. 255]
ASSUME Arc4Assumption == ARC4_STATE \in Nat \ {0} /\ ARC4_MAX_BYTES \in Nat

\* FoldLeft without its sets.
Folded(Op(_, _), base, s) ==
    LET f[i \in 0 .. Len(s)] == IF i = 0 THEN base ELSE Op(f[i - 1], s[i])
    IN f[Len(s)]

Shorter(m, n) == IF m < n THEN m ELSE n
Suffix(s, n) == SubSeq(s, n + 1, Len(s))
Added(s, t) == [i \in DOMAIN s |-> s[i] ^^ t[i]]

-----------------------------------------------------------------------------
(* Digests *)

HashInit == [state |-> <<>>, buf |-> <<>>, length |-> 0]
matrixMd5Init == HashInit
matrixSha1Init == HashInit

Compress(md, block) ==
    [state |-> Append(md.state, block), buf |-> <<>>, length |-> md.length]

\* As many bytes as the buffer takes; a full one is digested at once.
RECURSIVE Absorb(_, _)
Absorb(md, in) ==
    LET n == Shorter(Len(in), HASH_BLOCK - Len(md.buf))
        filled == [md EXCEPT !.buf = @ \o SubSeq(in, 1, n)]
    IN IF in = <<>> THEN md
       ELSE Absorb(IF Len(filled.buf) < HASH_BLOCK THEN filled
                   ELSE [Compress(md, filled.buf) EXCEPT !.length = @ + 8 * HASH_BLOCK],
                   Suffix(in, n))
matrixMd5Update(md, in) == Absorb(md, in)
matrixSha1Update(md, in) == Absorb(md, in)

\* STORE64L and STORE64H.
LittleEndian(n, size) == [i \in 1 .. size |-> (n \div 256 ^ (i - 1)) % 256]
BigEndian(n, size) == Reverse(LittleEndian(n, size))

ZerosTo(buf, n) == buf \o [i \in 1 .. n - Len(buf) |-> 0]

\* The bit behind the message, zeros, and its length at the end of a block;
\* a block of its own when the length no longer fits.
Final(md, length) ==
    LET room == HASH_BLOCK - HASH_LENGTH
        ended == Append(md.buf, 128)
        last == IF Len(ended) <= room THEN [md EXCEPT !.buf = ended]
                ELSE Compress(md, ZerosTo(ended, HASH_BLOCK))
    IN Compress(last, ZerosTo(last.buf, room) \o length).state
BitLength(md) == md.length + 8 * Len(md.buf)
matrixMd5Final(md) == Final(md, LittleEndian(BitLength(md), HASH_LENGTH))
matrixSha1Final(md) == Final(md, BigEndian(BitLength(md), HASH_LENGTH))

-----------------------------------------------------------------------------
(* RC4 *)

Exchanged(state, x, y) == [state EXCEPT ![x] = state[y], ![y] = state[x]]

matrixArc4Init(key) ==
    LET Mixed(s, i) ==
            LET j == (key[(i % Len(key)) + 1] + s.state[i] + s.j) % ARC4_STATE
            IN [state |-> Exchanged(s.state, i, j), j |-> j]
        start == [state |-> [i \in 0 .. ARC4_STATE - 1 |-> i], j |-> 0]
    IN [state |-> Folded(Mixed, start, [i \in 1 .. ARC4_STATE |-> i - 1]).state,
        x |-> 0, y |-> 0, byteCount |-> 0]

\* The bytes of a refused call count as well.
matrixArc4(ctx, in) ==
    LET Crypted(c, byte) ==
            LET x == (c.x + 1) % ARC4_STATE
                y == (c.state[x] + c.y) % ARC4_STATE
                state == Exchanged(c.state, x, y)
            IN [c EXCEPT !.x = x, !.y = y, !.state = state,
                         !.out = Append(@, byte ^^ state[(state[x] + state[y]) % ARC4_STATE])]
        count == ctx.byteCount + Len(in)
        end == Folded(Crypted, [state |-> ctx.state, x |-> ctx.x, y |-> ctx.y,
                                  out |-> <<>>], in)
    IN IF count > ARC4_MAX_BYTES
       THEN [ok |-> FALSE, ctx |-> [ctx EXCEPT !.byteCount = count], out |-> <<>>]
       ELSE [ok |-> TRUE, out |-> end.out,
             ctx |-> [state |-> end.state, x |-> end.x, y |-> end.y, byteCount |-> count]]

-----------------------------------------------------------------------------
(* 3DES in CBC mode *)

EN0 == 0
DE1 == 1

\* The bits of the key that round i uses.
RoundKey(key, i) == (key[(i % Len(key)) + 1] + i) % 256

\* The round keys, for decryption in reverse.
deskey(key, edf) ==
    [i \in 1 .. ROUNDS |-> RoundKey(key, IF edf = DE1 THEN ROUNDS - i ELSE i - 1)]

\* One step of the initial permutation exchanges the bits of the mask in one
\* word with the bits shift places higher in the other.
Delta(high, low, shift, mask) ==
    LET work == ((high \div 2 ^ shift) ^^ low) & mask
    IN [high |-> high ^^ (work * 2 ^ shift), low |-> low ^^ work]
ROL1(v) == ((v * 2) % 256) + (v \div 128)
ROR1(v) == (v \div 2) + ((v % 2) * 128)

\* Every second bit is exchanged between the words, one of them turned.
OddTurned(right, left) ==
    [left |-> ROL1(left ^^ ((left ^^ right) & 170)), right |-> right ^^ ((left ^^ right) & 170)]
OddTurnedBack(b, right) ==
    [high |-> ROR1(b.left ^^ ((b.left ^^ right) & 170)),
     low |-> right ^^ ((b.left ^^ right) & 170)]
Crossed(b) == Delta(b.low, b.high, 2, 51)
Turned(b) == OddTurned(ROL1(b.high), b.low)
InitialPermutation(b) == Turned(Crossed(Delta(b.left, b.right, 4, 15)))

CrossedBack(b) == Delta(b.high, b.low, 2, 51)
Uncrossed(b) == Delta(b.low, b.high, 4, 15)
Words(b) == [left |-> b.high, right |-> b.low]
FinalPermutation(b) == Words(Uncrossed(CrossedBack(OddTurnedBack(b, ROR1(b.right)))))

\* The rounds; the code does two of them at a time and so needs no exchange
\* in between.
Feistel(b, keys) ==
    Folded(LAMBDA c, k : [left |-> c.right, right |-> c.left ^^ SP[c.right ^^ k]],
             b, keys)

\* A block under one key: the words of the result are exchanged.
desfunc(b, keys) == FinalPermutation(Feistel(InitialPermutation(b), keys))

\* Three keys of eight bytes: encrypt, decrypt, encrypt, and the other way
\* round from the last to the first.
des3_setup(key) ==
    LET k1 == SubSeq(key, 1, 8)
        k2 == SubSeq(key, 9, 16)
        k3 == SubSeq(key, 17, 24)
    IN [ek |-> <<deskey(k1, EN0), deskey(k2, DE1), deskey(k3, EN0)>>,
        dk |-> <<deskey(k3, DE1), deskey(k2, EN0), deskey(k1, DE1)>>]

\* des3_ecb_encrypt, des3_ecb_decrypt
BytesOf(b) == <<b.left, b.right>>
Thrice(bytes, keys) ==
    BytesOf(Folded(desfunc, [left |-> bytes[1], right |-> bytes[2]], keys))
des3_ecb_encrypt(pt, ctx) == Thrice(pt, ctx.ek)
des3_ecb_decrypt(ct, ctx) == Thrice(ct, ctx.dk)

BLOCKLEN == 2

matrix3desInit(IV, key) == des3_setup(key) @@ [IV |-> IV]

\* Each block is added to the one before it, in the ciphertext, that of the
\* last call included.
Before(block, rest) == [ctx |-> rest.ctx, out |-> block \o rest.out]
RECURSIVE matrix3desEncrypt(_, _)
WithBlock(ctx, ct, pt) == Before(ct, matrix3desEncrypt([ctx EXCEPT !.IV = ct], pt))
matrix3desEncrypt(ctx, pt) ==
    IF pt = <<>> THEN [ctx |-> ctx, out |-> <<>>]
    ELSE WithBlock(ctx, des3_ecb_encrypt(Added(SubSeq(pt, 1, BLOCKLEN), ctx.IV), ctx),
                   Suffix(pt, BLOCKLEN))

Block(s, i) == SubSeq(s, BLOCKLEN * (i - 1) + 1, BLOCKLEN * i)

Decrypted(ctx, ct) ==
    FlattenSeq([i \in 1 .. Len(ct) \div BLOCKLEN |->
        Added(des3_ecb_decrypt(Block(ct, i), ctx),
              IF i = 1 THEN ctx.IV ELSE Block(ct, i - 1))])

\* (mutant) The last block of a call is not kept for the next one.
MutantDecrypt(ctx, ct) == [ctx |-> ctx, out |-> Decrypted(ctx, ct)]

\* explicitIV, under which the first block would be dropped, is never set.
matrix3desDecrypt(ctx, ct) ==
    [ctx |-> IF Len(ct) < BLOCKLEN THEN ctx
             ELSE [ctx EXCEPT !.IV = Block(ct, Len(ct) \div BLOCKLEN)],
     out |-> Decrypted(ctx, ct)]

\* n bytes of a digest: some function of what was digested.
Mix(s) == Folded(LAMBDA acc, x : (31 * acc + x + 7) % 65521, 1, s)
DigestBytes(digest, n) ==
    LET all == FlattenSeq(digest)
        row(i) == SubSeq(all, 16 * i + 1, Shorter(16 * (i + 1), Len(all)))
        sum == Mix([i \in 1 .. (Len(all) + 15) \div 16 |-> Mix(row(i - 1))])
    IN [i \in 1 .. n |-> ((sum \div 256 ^ (i % 2)) + i) % 256]

\* The key of a password: a digest of it and the salt, and half of the digest
\* of that digest, the password and the salt.
generate3DESKey(pass, salt) ==
    LET md5 == DigestBytes(matrixMd5Final(Absorb(Absorb(matrixMd5Init, pass), salt)), 16)
        more == matrixMd5Final(Absorb(Absorb(Absorb(matrixMd5Init, md5), pass), salt))
    IN md5 \o DigestBytes(more, 8)

=============================================================================
