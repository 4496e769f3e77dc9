---------------------------- MODULE SecureChannel ----------------------------
(***************************************************************************)
(* What a pair of MatrixSSL connections promises to the applications at    *)
(* its ends: the records of one end reach the other in the order they were *)
(* sent, each once, with none left out; the last ones may never arrive.    *)
(* Handshake.tla is shown to implement it.                                 *)
(***************************************************************************)
EXTENDS Naturals

CONSTANT Ends, Other(_)

VARIABLES
    sent,   \* sent[e]: records that e has given to matrixSslEncode
    got     \* got[e]: number of the last record that e got from matrixSslDecode

Init ==
    /\ sent = [e \in Ends |-> 0]
    /\ got = [e \in Ends |-> 0]

Send(e) ==
    /\ sent' = [sent EXCEPT ![e] = @ + 1]
    /\ UNCHANGED got

Deliver(e) ==
    /\ got[e] < sent[Other(e)]
    /\ got' = [got EXCEPT ![e] = @ + 1]
    /\ UNCHANGED sent

Next == \E e \in Ends : Send(e) \/ Deliver(e)

Spec == Init /\ [][Next]_<<sent, got>>

=============================================================================
