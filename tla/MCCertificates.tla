--------------------------- MODULE MCCertificates ---------------------------
EXTENDS Certificates

Cert(issuer, subject, key, by) ==
    [parses |-> TRUE, v3 |-> TRUE, ca |-> TRUE, issuer |-> issuer,
     subject |-> subject, key |-> key, by |-> by, alg |-> "sha1"]

\* A root, its successor under the same name, an intermediate authority, and
\* the certificate of a server signed by it.
Root == Cert("root", "root", "k1", "k1")
NewRoot == Cert("root", "root", "k2", "k2")
Middle == Cert("root", "middle", "k3", "k2")
Leaf == [Cert("middle", "leaf", "k4", "k3") EXCEPT !.ca = FALSE]

Some == {Root, NewRoot, Middle, Leaf,
         [Middle EXCEPT !.ca = FALSE], [Middle EXCEPT !.ca = FALSE, !.v3 = FALSE],
         [Leaf EXCEPT !.alg = "other"], [Leaf EXCEPT !.parses = FALSE],
         [Leaf EXCEPT !.by = "k4"], [Leaf EXCEPT !.issuer = "root", !.by = "k1"]}

Seqs(S, n) == UNION {[1 .. m -> S] : m \in 0 .. n}
SomeChains == Seqs(Some, 3) \ {<<>>}
SomeStores == Seqs({Root, NewRoot, Middle, [NewRoot EXCEPT !.ca = FALSE]}, 2)
Sizes == [k \in {"k1", "k2", "k3", "k4"} |-> IF k = "k4" THEN 64 ELSE 128]
=============================================================================
