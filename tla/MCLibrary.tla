------------------------------ MODULE MCLibrary ------------------------------
(* Inputs for Library: every carry, borrow and correction within a few     *)
(* digits of three bits, keys of twelve and thirteen "bytes" of two bits,  *)
(* names, extensions and lengths of every form the readers know.           *)
EXTENDS Library

MCSP == [v \in 0 .. 255 |-> (5 * v * v + 3 * v + (v \div 7)) % 256]

MCPairs ==
    ((-40 .. 40) \X (-40 .. 40))
        \cup ({-32767, -4096, -513, -512, -511, 511, 512, 513, 2047, 4095, 9000, 21845,
              23456, 28087, 32766, 32767} \X (-2 .. 130))
        \cup ((400 .. 800) \X {32, 33, 36, 63, 64, 65, 127, 255})

\* The inverse of a multiple of the modulus is never asked for: mp_invmodSSH
\* would not return.
MCPowers ==
    {t \in ((1 .. 9) \cup {11, 14, 16, 19, 24}) \X (-3 .. 9) \X {3, 7, 9, 13, 15, 21} : t[2] >= 0 \/ t[1] % t[3] # 0}
    \cup ({1, 5, 100, 511, 700} \X {0, 1, 127, 128, 129, 500, 513} \X {63, 65, 511, 513})

Inverse1(a, b) == CHOOSE x \in 1 .. b - 1 : (a * x) % b = 1

Key(p, q, e) ==
    LET phi == (p - 1) * (q - 1)
        k == CHOOSE n \in 0 .. e - 1 : (1 + n * phi) % e = 0
        d == (1 + k * phi) \div e
        N == Number(p * q)
    IN [N |-> N, e |-> Number(e), d |-> Number(d), p |-> Number(p), q |-> Number(q),
        dP |-> Number(d % (p - 1)), dQ |-> Number(d % (q - 1)),
        qP |-> Number(Inverse1(q % p, p)), optimized |-> TRUE,
        size |-> mp_unsigned_bin_size(N)]

RsaKeys == {Key(2609, 2153, 3), Key(5003, 3257, 5), Key(5519, 4793, 17)}
Random == [i \in 1 .. 16 |-> (i * 7) % 4]
MCRsaInputs ==
    {<<k, m, Random>> : k \in RsaKeys, m \in {<<0>>, <<1>>, <<2>>, <<3>>}}
        \cup {<<Key(5519, 4793, 17), m, [i \in 1 .. 16 |-> i % 3]>> :
                m \in {<<2>>, <<0, 0>>, <<0, 3>>, <<3, 1>>}}

Filled(n, b) == [i \in 1 .. n |-> (b + 3 * i) % 256]

IssuerNames == {<<>>, <<<<COMMON_NAME, 19, <<67, 65>>>>>>,
                <<<<COUNTRY_NAME, 19, <<83>>>>, <<0, 22, <<1, 2, 3>>>>,
                  <<ORG_UNIT, 12, <<65>>>>, <<ORG_UNIT, 12, <<66>>>>,
                  <<46, 19, <<9>>>>, <<COMMON_NAME, 20, Filled(140, 7)>>>>}
SubjectName == <<<<LOCALITY, 30, <<1>>>>, <<STATE_PROVINCE, 12, <<>>>>,
                 <<ORGANIZATION, 22, <<65, 66>>>>>>

ExtensionLists ==
    LET known == {Constraints(255, -1), Constraints(255, 2), Constraints(0, -1), NoConstraints}
        others == {<<>>, <<Unknown>>, <<Usage(<<7, 6, 0>>), Subject(<<4, 4>>)>>,
                   <<Names(<<97>>, <<98, 99>>, <<>>), Unknown>>,
                   <<Authority(<<1, 2>>, <<>>, <<>>)>>,
                   <<Authority(<<>>, SubjectName, <<0, 200>>), Usage(<<3, 8>>)>>,
                   <<Authority(<<1>>, SubjectName, <<7>>), Names(<<>>, <<>>, Filled(127, 1))>>}
    IN {<<k>> \o o : k \in known, o \in others} \cup {o \o <<k>> : k \in known, o \in others}
           \cup others

Description(version, alg, issuer, N, extensions) ==
    [version |-> version, serial |-> <<0, 129>>, algorithm |-> alg, signedWith |-> alg,
     issuer |-> issuer, subject |-> SubjectName, from |-> <<48, 49>>, to |-> <<50>>,
     N |-> N, e |-> <<1, 0, 1>>, extensions |-> extensions, signature |-> Filled(130, 5)]

Singles ==
    {Description(2, MD5_WITH_RSA, <<>>, <<200, 1>>, x) : x \in ExtensionLists}
        \cup {Description(v, a, i, n, x) :
                v \in {0, 1, 2}, a \in {MD5_WITH_RSA, SHA1_WITH_RSA}, i \in IssuerNames,
                n \in {<<1>>, <<255, 255>>, Filled(128, 130), Filled(260, 9)},
                x \in {<<>>, <<Unknown, Constraints(255, -1)>>}}
Plain == Description(2, SHA1_WITH_RSA, SubjectName, <<200, 1>>, <<Constraints(255, 0)>>)
Old == Description(0, MD5_WITH_RSA, <<>>, <<77>>, <<>>)
Differing == [Plain EXCEPT !.signedWith = MD5_WITH_RSA]
MCCertificates == {<<c>> : c \in Singles} \cup {<<a, b>> : a, b \in {Plain, Old, Differing}}
                      \cup {<<Old, Plain, Old>>}

KeyNumbers ==
    [N |-> Filled(5, 130), e |-> <<3>>, d |-> <<128, 1>>, p |-> <<250>>, q |-> <<127>>,
     dP |-> <<1, 0>>, dQ |-> <<2>>, qP |-> <<255, 255>>]
Small(serial, x) ==
    [Plain EXCEPT !.serial = <<serial>>, !.subject = <<>>, !.issuer = <<>>,
                  !.signature = <<1, 2>>, !.extensions = x]
Cert(c) == [kind |-> "certificate", of |-> c]
Broken == [kind |-> "broken"]
Space == [kind |-> "space"]
Text == [kind |-> "text"]
MCDescribed ==
    [chain |-> <<Text, Cert(Small(1, <<Constraints(255, 0)>>)), Space, Text, Cert(Small(2, <<>>)), Space>>,
     one |-> <<Cert(Small(2, <<>>))>>,
     none |-> <<>>,
     trailing |-> <<Cert(Small(2, <<>>)), Text>>,
     bad |-> <<Broken>>,
     mixed |-> <<Broken, Cert(Small(1, <<Constraints(255, 0)>>)), Broken, Cert(Small(2, <<>>))>>,
     key |-> <<[kind |-> "key", of |-> KeyNumbers, password |-> <<>>]>>,
     locked |-> <<[kind |-> "key", of |-> KeyNumbers, password |-> <<112, 119>>]>>]
MCFiles == [f \in DOMAIN MCDescribed |-> WrittenFile(MCDescribed[f])]

Lists == {<<>>, <<"chain">>, <<"none">>, <<"trailing">>, <<"bad">>,
          <<"missing">>, <<"bad", "one">>, <<"none", "mixed">>,
          <<"mixed", "one">>, <<"chain", "chain", "one">>}
MCFileCalls ==
    [certs : Lists, trusted : Lists, key : {<<>>}, password : {<<>>}]
        \cup [certs : {<<>>, <<"one", "chain">>}, trusted : {<<>>, <<"mixed">>},
              key : {<<"key">>, <<"locked">>}, password : {<<>>, <<112, 119>>, <<112>>}]

Message(n) == [i \in 1 .. n |-> (37 * i + 11) % 256]
Byte24 == [i \in 1 .. 24 |-> (53 * i + 5) % 256]
Cuts(n) == {<<>>} \cup {<<i>> : i \in 0 .. n}
               \cup {c \in (0 .. n) \X (0 .. n) : c[1] <= c[2]}
MCStreams ==
    UNION {{[algorithm |-> a, key |-> <<>>, msg |-> Message(n), cuts |-> c,
             otherCuts |-> <<>>] : a \in {"md5", "sha1"}, c \in Cuts(n)} :
           n \in {0, 4, 5, 6, 7, 8, 13, 14, 17}}
        \cup {[algorithm |-> "rc4", key |-> k, msg |-> Message(n), cuts |-> c, otherCuts |-> o] :
                k \in {<<5>>, <<200, 3, 9>>}, n \in {4, 6, 7}, c \in Cuts(4), o \in Cuts(4)}
        \cup {[algorithm |-> "3des", key |-> Byte24, msg |-> Message(6),
               cuts |-> c, otherCuts |-> o] :
                c \in {<<>>, <<2>>, <<4>>, <<2, 4>>}, o \in {<<>>, <<2>>, <<4>>, <<2, 4>>}}
=============================================================================
