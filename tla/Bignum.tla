------------------------------- MODULE Bignum -------------------------------
(***************************************************************************)
(* The multiple precision integers of MatrixSSL (crypto/peersec/mpi.c) at  *)
(* the level of their digits, for a digit of DIGIT_BIT bits and a byte of  *)
(* BYTE bits instead of 28 and 8.                                          *)
(*                                                                         *)
(* An mp_int is its sign and the digits below used, the lowest first.  The *)
(* array behind it is left out: that it is grown in time (mp_grow,         *)
(* mp_shrink, mp_init_size), that allocation may fail, and the digits at   *)
(* and above used, which every routine leaves zero.  A function whose      *)
(* argument it could change in place returns the new value.                *)
(***************************************************************************)
EXTENDS Integers, Sequences, SequencesExt

CONSTANTS DIGIT_BIT, BYTE

\* mp_div guesses a digit of the quotient from digits that use all bits but
\* the last one; below three bits the guess is too rough.
ASSUME DigitAssumption == DIGIT_BIT \in Nat /\ DIGIT_BIT >= 3
ASSUME ByteAssumption == BYTE \in 1 .. DIGIT_BIT

Radix == 2 ^ DIGIT_BIT

MP_ZPOS == 0
MP_NEG == 1
MP_LT == -1
MP_EQ == 0
MP_GT == 1

MpInt(sign, dp) == [sign |-> sign, dp |-> dp]
Zero == MpInt(MP_ZPOS, <<>>)

Used(a) == Len(a.dp)

\* a->dp[i], the digits at and above used are zero.
Digit(a, i) == IF i < Used(a) THEN a.dp[i + 1] ELSE 0

Smaller(m, n) == IF m < n THEN m ELSE n
Larger(m, n) == IF m < n THEN n ELSE m

\* What a routine with an error code returns.
Okay(v) == [res |-> "MP_OKAY", value |-> v]
MP_VAL == [res |-> "MP_VAL", value |-> Zero]

mp_iszero(a) == a.dp = <<>>
mp_iseven(a) == Used(a) > 0 /\ a.dp[1] % 2 = 0
mp_isodd(a) == Used(a) > 0 /\ a.dp[1] % 2 = 1

\* The value an mp_int stands for, and the mp_int of a value (the reference).
RECURSIVE Magnitude(_)
Magnitude(dp) == IF dp = <<>> THEN 0 ELSE Head(dp) + Radix * Magnitude(Tail(dp))
Value(a) == IF a.sign = MP_NEG THEN -Magnitude(a.dp) ELSE Magnitude(a.dp)

RECURSIVE Written(_)
Written(v) == IF v = 0 THEN <<>> ELSE <<v % Radix>> \o Written(v \div Radix)
Number(v) == IF v < 0 THEN MpInt(MP_NEG, Written(-v)) ELSE MpInt(MP_ZPOS, Written(v))

\* No leading zero, no negative zero: what every comparison relies on.
Canonical(a) ==
    /\ \A i \in DOMAIN a.dp : a.dp[i] \in 0 .. Radix - 1
    /\ a.dp # <<>> => Last(a.dp) # 0
    /\ a.dp = <<>> => a.sign = MP_ZPOS

-----------------------------------------------------------------------------
(* Copying, comparing, shifting *)

mp_clamp(a) ==
    LET used == CHOOSE n \in 0 .. Used(a) :
                    /\ n > 0 => a.dp[n] # 0
                    /\ \A i \in n + 1 .. Used(a) : a.dp[i] = 0
    IN MpInt(IF used = 0 THEN MP_ZPOS ELSE a.sign, SubSeq(a.dp, 1, used))

mp_abs(a) == [a EXCEPT !.sign = MP_ZPOS]

\* First the number of digits counts, then the highest digit that differs.
mp_cmp_mag(a, b) ==
    IF Used(a) # Used(b) THEN IF Used(a) > Used(b) THEN MP_GT ELSE MP_LT
    ELSE IF a.dp = b.dp THEN MP_EQ
    ELSE LET i == CHOOSE n \in DOMAIN a.dp :
                      /\ a.dp[n] # b.dp[n]
                      /\ \A m \in n + 1 .. Used(a) : a.dp[m] = b.dp[m]
         IN IF a.dp[i] > b.dp[i] THEN MP_GT ELSE MP_LT

mp_cmp(a, b) ==
    IF a.sign # b.sign THEN IF a.sign = MP_NEG THEN MP_LT ELSE MP_GT
    ELSE IF a.sign = MP_NEG THEN mp_cmp_mag(b, a) ELSE mp_cmp_mag(a, b)

mp_cmp_d(a, d) ==
    IF a.sign = MP_NEG THEN MP_LT
    ELSE IF Used(a) > 1 \/ Digit(a, 0) > d THEN MP_GT
    ELSE IF Digit(a, 0) < d THEN MP_LT ELSE MP_EQ

\* The number of bits of a digit.
Width(d) == CHOOSE n \in 0 .. DIGIT_BIT : d < 2 ^ n /\ (n > 0 => d >= 2 ^ (n - 1))

mp_count_bits(a) ==
    IF Used(a) = 0 THEN 0 ELSE (Used(a) - 1) * DIGIT_BIT + Width(Last(a.dp))

mp_unsigned_bin_size(a) ==
    LET size == mp_count_bits(a)
    IN size \div BYTE + (IF size % BYTE # 0 THEN 1 ELSE 0)

\* mp_set masks the digit and has no digit for zero.
mp_set(d) == IF d % Radix = 0 THEN Zero ELSE MpInt(MP_ZPOS, <<d % Radix>>)

Zeros(n) == [i \in 1 .. n |-> 0]

\* 2^b, put down as one bit.
mp_2expt(b) ==
    MpInt(MP_ZPOS, Append(Zeros(b \div DIGIT_BIT), 2 ^ (b % DIGIT_BIT)))

\* Whole digits up, also of a zero, which then has leading zeros; and down.
mp_lshd(a, n) == IF n <= 0 THEN a ELSE [a EXCEPT !.dp = Zeros(n) \o @]
mp_rshd(a, n) ==
    IF n <= 0 THEN a
    ELSE IF Used(a) <= n THEN Zero
    ELSE [a EXCEPT !.dp = SubSeq(@, n + 1, Used(a))]

\* n columns W[0..n-1] of any size become digits: each keeps its low bits and
\* passes the rest on.  Carry(n, W)[i] is what comes into column i.
Carry(n, W) ==
    LET c[i \in 0 .. n] == IF i = 0 THEN 0 ELSE (W[i - 1] + c[i - 1]) \div Radix
    IN c
Carried(n, W) ==
    LET c == Carry(n, W) IN [k \in 1 .. n |-> (W[k - 1] + c[k - 1]) % Radix]

\* A digit more for the last carry.
CarriedOut(n, W) == Append(Carried(n, W), Carry(n, W)[n])

mp_mul_2d(a, b) ==
    LET c == mp_lshd(a, b \div DIGIT_BIT)
        d == b % DIGIT_BIT
    IN mp_clamp(IF d = 0 THEN c
                ELSE [c EXCEPT !.dp = CarriedOut(Used(c),
                                   [i \in 0 .. Used(c) |-> Digit(c, i) * 2 ^ d])])

\* A set bit carried out of the highest digit is a digit of its own.
mp_mul_2(a) ==
    LET dp == CarriedOut(Used(a), [i \in 0 .. Used(a) |-> 2 * Digit(a, i)])
    IN [a EXCEPT !.dp = IF Last(dp) # 0 THEN dp ELSE Front(dp)]

\* The bits that leave a digit below come in above in the one before it.
ShiftedDown(a, d) ==
    [a EXCEPT !.dp = [k \in 1 .. Used(a) |->
        (Digit(a, k - 1) \div 2 ^ d) + (Digit(a, k) % 2 ^ d) * 2 ^ (DIGIT_BIT - d)]]

mp_div_2(a) == mp_clamp(ShiftedDown(a, 1))

\* The quotient of mp_div_2d.
mp_div_2d(a, b) ==
    IF b <= 0 THEN a
    ELSE LET c == mp_rshd(a, b \div DIGIT_BIT)
         IN mp_clamp(IF b % DIGIT_BIT = 0 THEN c ELSE ShiftedDown(c, b % DIGIT_BIT))

\* ... and its remainder: the digits above are cut off, the one in which the
\* cut falls is masked.
mp_mod_2d(a, b) ==
    IF b <= 0 THEN Zero
    ELSE IF b >= Used(a) * DIGIT_BIT THEN a
    ELSE LET n == b \div DIGIT_BIT
         IN mp_clamp([a EXCEPT !.dp =
                Append(SubSeq(@, 1, n), @[n + 1] % 2 ^ (b % DIGIT_BIT))])

-----------------------------------------------------------------------------
(* Bytes *)

\* Each byte is shifted in below and put into the lowest digit; used is then
\* one too many until the clamp.
RECURSIVE ReadBytes(_, _)
ReadBytes(a, bytes) ==
    IF bytes = <<>> THEN a
    ELSE LET s == mp_mul_2d(a, BYTE)
             t == MpInt(s.sign, <<Digit(s, 0) + Head(bytes)>>
                                  \o SubSeq(s.dp, 2, Used(s)) \o <<0>>)
         IN ReadBytes(IF Used(s) = 0 THEN MpInt(s.sign, <<Head(bytes)>>) ELSE t,
                      Tail(bytes))
mp_read_unsigned_bin(bytes) == mp_clamp(ReadBytes(Zero, bytes))

\* The lowest byte is taken off until nothing is left (bn_reverse puts the
\* highest first).
RECURSIVE mp_to_unsigned_bin(_)
mp_to_unsigned_bin(a) ==
    IF mp_iszero(a) THEN <<>>
    ELSE Append(mp_to_unsigned_bin(mp_div_2d(a, BYTE)), Digit(a, 0) % 2 ^ BYTE)

-----------------------------------------------------------------------------
(* Sums and differences *)

\* The magnitudes are added, under the sign the caller has set.
s_mp_add(a, b, sign) ==
    LET n == Larger(Used(a), Used(b))
    IN mp_clamp(MpInt(sign, CarriedOut(n, [i \in 0 .. n |-> Digit(a, i) + Digit(b, i)])))

\* ... subtracted, |a| >= |b|: the borrow is the top bit of the word, here
\* the carry of a negative column.
s_mp_sub(a, b, sign) ==
    mp_clamp(MpInt(sign, Carried(Used(a), [i \in 0 .. Used(a) |-> Digit(a, i) - Digit(b, i)])))

mp_add(a, b) ==
    IF a.sign = b.sign THEN s_mp_add(a, b, a.sign)
    ELSE IF mp_cmp_mag(a, b) = MP_LT THEN s_mp_sub(b, a, b.sign)
    ELSE s_mp_sub(a, b, a.sign)

mp_sub(a, b) ==
    IF a.sign # b.sign THEN s_mp_add(a, b, a.sign)
    ELSE IF mp_cmp_mag(a, b) # MP_LT THEN s_mp_sub(a, b, a.sign)
    ELSE s_mp_sub(b, a, 1 - a.sign)

\* One digit more or less.  The two call each other for negative numbers,
\* with the sign put back afterwards, also to a zero.
AddPositive(a, d) ==
    IF Used(a) = 0 THEN mp_clamp(MpInt(MP_ZPOS, <<d % Radix>>))
    ELSE mp_clamp(MpInt(MP_ZPOS,
        CarriedOut(Used(a),
                   [i \in 0 .. Used(a) |-> Digit(a, i) + IF i = 0 THEN d ELSE 0])))
SubPositive(a, d) ==
    IF Used(a) = 0 \/ (Used(a) = 1 /\ Digit(a, 0) <= d)
    THEN mp_clamp(MpInt(MP_NEG, <<d - Digit(a, 0)>>))
    ELSE mp_clamp(MpInt(MP_ZPOS,
        Carried(Used(a), [i \in 0 .. Used(a) |-> Digit(a, i) - IF i = 0 THEN d ELSE 0])))
mp_add_d(a, d) ==
    IF a.sign = MP_ZPOS THEN AddPositive(a, d)
    ELSE IF Used(a) > 1 \/ Digit(a, 0) >= d
    THEN [SubPositive(mp_abs(a), d) EXCEPT !.sign = MP_NEG]
    ELSE mp_clamp(MpInt(MP_ZPOS, <<d - Digit(a, 0)>>))
mp_sub_d(a, d) ==
    IF a.sign = MP_NEG THEN [AddPositive(mp_abs(a), d) EXCEPT !.sign = MP_NEG]
    ELSE SubPositive(a, d)

-----------------------------------------------------------------------------
(* Products *)

\* The products of the k-th digit of a and the (i-k)-th of b, for k from 0 to n.
Products(a, b, i, n) ==
    LET s[k \in -1 .. n] == IF k = -1 THEN 0 ELSE Digit(a, k) * Digit(b, i - k) + s[k - 1]
    IN s[n]

\* Column i of the product of the magnitudes.
Column(a, b, i) == Products(a, b, i, i)

\* fast_s_mp_mul_digs: all columns, with the carries on the way.
ProductSign(c, a, b) ==
    [c EXCEPT !.sign = IF mp_iszero(c) \/ a.sign = b.sign THEN MP_ZPOS ELSE MP_NEG]
mp_mul(a, b) ==
    LET n == Used(a) + Used(b)
    IN ProductSign(mp_clamp(MpInt(MP_ZPOS, Carried(n, [i \in 0 .. n |-> Column(a, b, i)]))),
                   a, b)

\* fast_s_mp_sqr adds every product of two different digits once and doubles
\* the column.  The sign is not touched: all callers square in place, and
\* only residues.
SquareColumn(a, i) ==
    2 * Products(a, a, i, (i + 1) \div 2 - 1)
        + IF i % 2 = 0 THEN Digit(a, i \div 2) * Digit(a, i \div 2) ELSE 0
mp_sqr(a) ==
    mp_clamp(MpInt(a.sign, Carried(2 * Used(a),
                                  [i \in 0 .. 2 * Used(a) |-> SquareColumn(a, i)])))

mp_mul_d(a, d) ==
    mp_clamp(MpInt(a.sign, CarriedOut(Used(a), [i \in 0 .. Used(a) |-> Digit(a, i) * d])))

-----------------------------------------------------------------------------
(* Division *)

\* (mutant) The guess is not tried against the second digit of the divisor.
MutantCorrected(g, y, x) == g

\* A guess g is lowered until g times the two highest digits of y is no more
\* than the three digits of x.  The length of the product counts before its
\* digits, and the right hand side always has three.
RECURSIVE Corrected(_, _, _)
Corrected(g, y, x) ==
    IF mp_cmp_mag(mp_mul_d(MpInt(MP_ZPOS, y), g), MpInt(MP_ZPOS, x)) = MP_GT
    THEN Corrected((g - 1) % Radix, y, x)
    ELSE g

Below(a, i) == IF i < 0 THEN 0 ELSE Digit(a, i)

\* One digit of the quotient, q{i-t-1}.
Taken(s, y, i, g, rest) ==
    IF rest.sign = MP_NEG
    THEN [x |-> mp_add(rest, mp_lshd(y, i - Used(y))),
          q |-> [s.q EXCEPT ![i - Used(y) + 1] = (g - 1) % Radix]]
    ELSE [x |-> rest, q |-> [s.q EXCEPT ![i - Used(y) + 1] = g]]
Subtracted(s, y, i, g) ==
    Taken(s, y, i, g, mp_sub(s.x, mp_lshd(mp_mul_d(y, g), i - Used(y))))
QuotientDigit(s, y, i) ==
    LET t == Used(y) - 1
        xi == Digit(s.x, i)
        tops == xi * Radix + Digit(s.x, i - 1)
        guess == IF xi = Digit(y, t) THEN Radix - 1
                 ELSE Smaller(tops \div Digit(y, t), Radix - 1)
    IN IF i > Used(s.x) THEN s
       ELSE Subtracted(s, y, i,
                       Corrected(guess, <<Below(y, t - 1), Digit(y, t)>>,
                                 <<Below(s.x, i - 2), Digit(s.x, i - 1), xi>>))

\* The highest digit of the quotient counts how often y fits at the top.
RECURSIVE TopDigit(_, _, _)
TopDigit(s, y, k) ==
    IF mp_cmp(s.x, y) = MP_LT THEN s
    ELSE TopDigit([x |-> mp_sub(s.x, y), q |-> [s.q EXCEPT ![k] = @ + 1]], y, k)

RECURSIVE DownFrom(_, _, _)
DownFrom(i, s, y) ==
    IF i < Used(y) THEN s ELSE DownFrom(i - 1, QuotientDigit(s, y, i), y)

\* Both are shifted until the highest digit of y uses all bits but one; the
\* quotient is the same then and the remainder is shifted back.
Quotient(a, b, norm, end) ==
    [res |-> "MP_OKAY",
     q |-> [mp_clamp(MpInt(MP_ZPOS, end.q)) EXCEPT !.sign =
                IF a.sign = b.sign THEN MP_ZPOS ELSE MP_NEG],
     r |-> mp_div_2d([end.x EXCEPT !.sign = IF Used(end.x) = 0 THEN MP_ZPOS ELSE a.sign],
                     norm)]
LongDivision(x, y, size) ==
    LET k == Used(x) - Used(y)
    IN DownFrom(Used(x) - 1,
                TopDigit([x |-> x, q |-> Zeros(size)], mp_lshd(y, k), k + 1), y)
mp_div(a, b) ==
    LET bits == mp_count_bits(b) % DIGIT_BIT
        norm == IF bits < DIGIT_BIT - 1 THEN DIGIT_BIT - 1 - bits ELSE 0
    IN IF mp_iszero(b) THEN [res |-> "MP_VAL", q |-> Zero, r |-> Zero]
       ELSE IF mp_cmp_mag(a, b) = MP_LT THEN [res |-> "MP_OKAY", q |-> Zero, r |-> a]
       ELSE Quotient(a, b, norm,
                   LongDivision(mp_mul_2d(mp_abs(a), norm), mp_mul_2d(mp_abs(b), norm),
                                Used(a) + 2))

\* The remainder gets the sign of the modulus.
Modulo(t, b) ==
    IF t.res # "MP_OKAY" THEN MP_VAL
    ELSE Okay(IF t.r.sign # b.sign THEN mp_add(b, t.r) ELSE t.r)
mp_mod(a, b) == Modulo(mp_div(a, b), b)

mp_addmod(a, b, c) == mp_mod(mp_add(a, b), c)
mp_mulmod(a, b, c) == mp_mod(mp_mul(a, b), c)

-----------------------------------------------------------------------------
(* Montgomery's reduction, R = Radix^used of the modulus *)

\* -1/n modulo the radix, by doubling the number of bits that are right.
mp_montgomery_setup(n) ==
    LET b == Digit(n, 0)
        Doubled(x) == (x * (2 - b * x)) % Radix
        x == (((b + 2) \div 4) % 2) * 8 + b
    IN IF b % 2 = 0 THEN [res |-> "MP_VAL", rho |-> 0]
       ELSE [res |-> "MP_OKAY",
             rho |-> (Radix - Doubled(Doubled(Doubled(x)))) % Radix]

\* The columns from the lowest upwards are made multiples of the radix by
\* adding a multiple of n; what is above goes into the next column.
RECURSIVE Eliminated(_, _, _, _)
Eliminated(W, i, n, rho) ==
    IF i = Used(n) THEN W
    ELSE LET mu == ((W[i] % Radix) * rho) % Radix
             V == [k \in DOMAIN W |-> W[k] +
                     IF k \in i .. i + Used(n) - 1 THEN mu * Digit(n, k - i) ELSE 0]
         IN Eliminated([V EXCEPT ![i + 1] = @ + V[i] \div Radix], i + 1, n, rho)

\* x/R mod n, for x < n*R.
fast_mp_montgomery_reduce(x, n, rho) ==
    LET W == Eliminated([k \in 0 .. 2 * Used(n) |-> Digit(x, k)], 0, n, rho)
        r == mp_clamp(MpInt(x.sign,
                 Carried(Used(n) + 1, [k \in 0 .. Used(n) |-> W[Used(n) + k]])))
    IN IF mp_cmp_mag(r, n) # MP_LT THEN s_mp_sub(r, n, r.sign) ELSE r

RECURSIVE DoubledMod(_, _, _)
DoubledMod(a, b, times) ==
    IF times = 0 THEN a
    ELSE LET d == mp_mul_2(a)
         IN DoubledMod(IF mp_cmp_mag(d, b) # MP_LT THEN s_mp_sub(d, b, d.sign) ELSE d,
                       b, times - 1)

\* R mod b, from the highest power of two that is below b.
mp_montgomery_calc_normalization(b) ==
    LET bits == mp_count_bits(b) % DIGIT_BIT
    IN IF Used(b) > 1
       THEN DoubledMod(mp_2expt((Used(b) - 1) * DIGIT_BIT + bits - 1), b,
                       DIGIT_BIT - bits + 1)
       ELSE DoubledMod(mp_set(1), b, DIGIT_BIT)

-----------------------------------------------------------------------------
(* Powers *)

\* The number of bits of the exponent that are used at once (MP_LOW_MEM).
WindowSize(X) ==
    LET x == mp_count_bits(X)
    IN IF x <= 7 THEN 2 ELSE IF x <= 36 THEN 3 ELSE IF x <= 140 THEN 4 ELSE 5

\* The bits of all digits of the exponent, the highest first, leading zeros
\* included.
Bits(X) ==
    [k \in 1 .. Used(X) * DIGIT_BIT |->
        LET n == Used(X) * DIGIT_BIT - k
        IN (Digit(X, n \div DIGIT_BIT) \div 2 ^ (n % DIGIT_BIT)) % 2]

\* What the loops of the exponentiation share: modulus, rho and window size.
Product(a, b, env) == fast_mp_montgomery_reduce(mp_mul(a, b), env.P, env.rho)
Square(a, env) == fast_mp_montgomery_reduce(mp_sqr(a), env.P, env.rho)

RECURSIVE Squared(_, _, _)
Squared(a, times, env) ==
    IF times = 0 THEN a ELSE Squared(Square(a, env), times - 1, env)

\* M[1] and the upper half of the table: M[k] is G^k * R mod P.
RECURSIVE Power(_, _, _)
Power(M1, k, env) ==
    IF k = 2 ^ (env.winsize - 1) THEN Squared(M1, env.winsize - 1, env)
    ELSE Product(Power(M1, k - 1, env), M1, env)
Table(M1, env) ==
    [k \in {1} \cup 2 ^ (env.winsize - 1) .. 2 ^ env.winsize - 1 |->
        IF k = 1 THEN M1 ELSE Power(M1, k, env)]

\* (mutant) A window is taken over without a square for its last bit.
MutantWindow(s, y, M, env) ==
    LET full == s.buf + y
    IN IF s.mode = 0 /\ y = 0 THEN s
       ELSE IF s.mode = 1 /\ y = 0 THEN [s EXCEPT !.acc = Square(@, env)]
       ELSE IF s.cpy + 1 = env.winsize
       THEN [acc |-> Product(Squared(s.acc, env.winsize - 1, env), M[full], env),
             mode |-> 1, cpy |-> 0, buf |-> 0]
       ELSE [s EXCEPT !.mode = 2, !.cpy = @ + 1,
                      !.buf = @ + y * 2 ^ (env.winsize - (s.cpy + 1))]

\* One bit of the exponent: leading zeros are skipped, zeros between two
\* windows square, the others fill the window; a full window is multiplied
\* in after as many squares as it has bits.
Window(s, y, M, env) ==
    LET full == s.buf + y
    IN IF s.mode = 0 /\ y = 0 THEN s
       ELSE IF s.mode = 1 /\ y = 0 THEN [s EXCEPT !.acc = Square(@, env)]
       ELSE IF s.cpy + 1 = env.winsize
       THEN [acc |-> Product(Squared(s.acc, env.winsize, env), M[full], env),
             mode |-> 1, cpy |-> 0, buf |-> 0]
       ELSE [s EXCEPT !.mode = 2, !.cpy = @ + 1,
                      !.buf = @ + y * 2 ^ (env.winsize - (s.cpy + 1))]

RECURSIVE Windows(_, _, _, _)
Windows(s, bits, M, env) ==
    IF bits = <<>> THEN s ELSE Windows(Window(s, Head(bits), M, env), Tail(bits), M, env)

\* The bits left in an unfilled window, one by one.
RECURSIVE LeftBits(_, _, _, _, _)
LeftBits(acc, buf, n, M, env) ==
    IF n = 0 THEN acc
    ELSE LET sq == Square(acc, env)
             shifted == 2 * buf
             set == (shifted \div 2 ^ env.winsize) % 2 = 1
         IN LeftBits(IF set THEN Product(sq, M[1], env) ELSE sq, shifted, n - 1, M, env)

\* G^X mod P for odd P.
LastWindow(s, M, env) ==
    IF s.mode = 2 THEN LeftBits(s.acc, s.buf, s.cpy, M, env) ELSE s.acc
FromTable(one, X, M, env) ==
    LastWindow(Windows([acc |-> one, mode |-> 0, cpy |-> 0, buf |-> 0], Bits(X), M, env),
               M, env)
Powered(one, G, X, env) ==
    FromTable(one, X, Table(mp_mulmod(G, one, env.P).value, env), env)
mp_exptmod_fast(G, X, P) ==
    LET env == [P |-> P, rho |-> mp_montgomery_setup(P).rho,
                winsize |-> WindowSize(X)]
    IN fast_mp_montgomery_reduce(
           Powered(mp_montgomery_calc_normalization(P), G, X, env), P, env.rho)

-----------------------------------------------------------------------------
(* Inverses, by the binary algorithm of Euclid *)

\* u is halved while it is even; the coefficients that go with it are made
\* even first by adding the modulus to one and taking x from the other.
RECURSIVE Halved(_, _)
Halved(s, x) ==
    IF ~mp_iseven(s.u) THEN s
    ELSE Halved([u |-> mp_div_2(s.u),
                 B |-> mp_div_2(IF mp_isodd(s.B) THEN mp_sub(s.B, x) ELSE s.B)], x)

Minus(s, t) == [u |-> mp_sub(s.u, t.u), B |-> mp_sub(s.B, t.B)]

\* One round per comparison of u and v.  A v of zero, when the modulus
\* divides the number, would keep the loop running for ever.
RECURSIVE Euclid(_, _, _)
Again(u, v, x) == IF mp_iszero(u.u) THEN v ELSE Euclid(u, v, x)
Round(u, v, x) ==
    IF mp_cmp(u.u, v.u) = MP_LT THEN Again(u, Minus(v, u), x) ELSE Again(Minus(u, v), v, x)
Euclid(U, V, x) == Round(Halved(U, x), Halved(V, x), x)

RECURSIVE Raised(_, _)
Raised(D, b) == IF D.sign = MP_NEG THEN Raised(mp_add(D, b), b) ELSE D

\* 1/a mod b for odd b; the sign of a is put on the result.
FromOdd(end, a, b) ==
    IF mp_cmp_d(end.u, 1) # MP_EQ THEN MP_VAL
    ELSE Okay([Raised(end.B, b) EXCEPT !.sign = a.sign])
fast_mp_invmod(a, b) ==
    IF mp_iseven(b) THEN MP_VAL
    ELSE FromOdd(Euclid([u |-> b, B |-> Zero],
                        [u |-> mp_mod(a, b).value, B |-> mp_set(1)], b), a, b)

\* For an even modulus both coefficients are kept: A with y, B with x.
RECURSIVE HalvedBoth(_, _, _)
HalvedBoth(s, x, y) ==
    IF ~mp_iseven(s.u) THEN s
    ELSE LET odd == mp_isodd(s.A) \/ mp_isodd(s.B)
         IN HalvedBoth([u |-> mp_div_2(s.u),
                        A |-> mp_div_2(IF odd THEN mp_add(s.A, y) ELSE s.A),
                        B |-> mp_div_2(IF odd THEN mp_sub(s.B, x) ELSE s.B)], x, y)

MinusBoth(s, t) ==
    [u |-> mp_sub(s.u, t.u), A |-> mp_sub(s.A, t.A), B |-> mp_sub(s.B, t.B)]

RECURSIVE EuclidBoth(_, _, _, _)
AgainBoth(u, v, x, y) == IF mp_iszero(u.u) THEN v ELSE EuclidBoth(u, v, x, y)
RoundBoth(u, v, x, y) ==
    IF mp_cmp(u.u, v.u) = MP_LT THEN AgainBoth(u, MinusBoth(v, u), x, y)
    ELSE AgainBoth(MinusBoth(u, v), v, x, y)
EuclidBoth(U, V, x, y) == RoundBoth(HalvedBoth(U, x, y), HalvedBoth(V, x, y), x, y)

RECURSIVE Lowered(_, _)
Lowered(C, b) ==
    IF mp_cmp_mag(C, b) # MP_LT THEN Lowered(mp_sub(C, b), b) ELSE C

FromEven(end, b) ==
    IF mp_cmp_d(end.u, 1) # MP_EQ THEN MP_VAL ELSE Okay(Lowered(Raised(end.A, b), b))
mp_invmodSSH(a, b) ==
    IF b.sign = MP_NEG \/ mp_iszero(b) THEN MP_VAL
    ELSE IF mp_isodd(b) THEN fast_mp_invmod(a, b)
    ELSE IF mp_iseven(a) THEN MP_VAL
    ELSE FromEven(EuclidBoth([u |-> a, A |-> mp_set(1), B |-> Zero],
                             [u |-> b, A |-> Zero, B |-> mp_set(1)], a, b), b)

\* No power for a negative or an even modulus; a negative exponent turns the
\* base over.
PowerOfBase(base, X, P) ==
    IF base.res # "MP_OKAY" THEN MP_VAL
    ELSE Okay(mp_exptmod_fast(base.value, mp_abs(X), P))
mp_exptmod(G, X, P) ==
    IF P.sign = MP_NEG THEN MP_VAL
    ELSE PowerOfBase(IF X.sign = MP_NEG THEN fast_mp_invmod(G, P)
                     ELSE IF mp_isodd(P) THEN Okay(G) ELSE MP_VAL, X, P)

=============================================================================
