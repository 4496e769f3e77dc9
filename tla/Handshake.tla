------------------------------ MODULE Handshake ------------------------------
(***************************************************************************)
(* Two MatrixSSL connections, a client "c" and a server "s": the record    *)
(* layer and the SSL 3.0 handshake of sslDecode.c and sslEncode.c, with    *)
(* rehandshakes of either side, resumed sessions, answers that do not fit  *)
(* in the caller's buffer (SSL_FULL), application data and closure.        *)
(*                                                                         *)
(* One action is one call of the application into the library.  The wire   *)
(* of an end holds the records on their way to it.  TCP keeps them in      *)
(* order; the record layer does not count on it, and so the wire may also  *)
(* lose, repeat or swap records.                                           *)
(*                                                                         *)
(* Abstractions.  Randoms, premaster and session ids are numbers: the n-th *)
(* hello of an end carries random n, the premaster has the number of the   *)
(* client's random, the id that of the server's.  A master secret is the   *)
(* triple it is derived from; a key block is a master secret, two randoms  *)
(* and a cipher.  A record carries the key block and the sequence number   *)
(* its MAC was made with; read with others it parses as nothing.  The hash *)
(* of the handshake is the sequence of its messages.  Certificates are     *)
(* valid (Certificates judges them); a client that has one keeps it until  *)
(* Finished.  The session table is a set of sessions, and a lookup or a    *)
(* registration may fail (SessionCache says when).                         *)
(***************************************************************************)
EXTENDS Integers, SequencesExt

CONSTANTS
    Ciphers,        \* cipher suites, records [name, mac, block]
    CertLen,        \* bytes of the server's certificates
    KeyLen,         \* bytes of its public key
    Free,           \* free bytes a caller may have in its buffer for an answer
    MaxEvents,      \* bound: hellos, requests, application records, faults
    MaxIgnored      \* SSL_MAX_IGNORED_MESSAGE_COUNT

ASSUME FreeAssumption == Free \subseteq Nat

\* The ciphers of cipherSuite.c have MACs of at most 20 bytes and no larger
\* block than that of 3DES.
ASSUME CipherAssumption ==
    /\ Ciphers # {}
    /\ \A c \in Ciphers : c.mac \in 0 .. 20 /\ c.block \in 0 .. 8

ASSUME BoundAssumption ==
    CertLen \in Nat /\ KeyLen \in Nat /\ MaxEvents \in Nat /\ MaxIgnored \in Nat

VARIABLES
    end,        \* the ssl_t of each end
    wire,       \* wire[e]: records on their way to e
    sessions,   \* the server's session table
    requests,   \* HelloRequests sent
    faults,     \* faults of the wire
    excuses     \* history: why an end may have refused what the other sent

vars == <<end, wire, sessions, requests, faults, excuses>>

\* crossed: a HelloRequest met a client that was not done; stale: a resumed
\* connection was rehandshaked with a session that is not found; ignored: too
\* many empty records; cut: of an answer that begins with ServerHello a part
\* was written and the rest did not fit, so that the next call begins it again.
Excuses == {"crossed", "stale", "ignored", "cut"}

Ends == {"c", "s"}
Other(e) == IF e = "c" THEN "s" ELSE "c"

NoSecret == <<0, 0, 0>>
NoKeys == [ms |-> NoSecret, cr |-> 0, sr |-> 0, cipher |-> "null"]
Plain == [keys |-> NoKeys, seq |-> 0]       \* neither READ_ nor WRITE_SECURE
Secure(s) == s.keys # NoKeys

\* sizes of sslEncode.c, in bytes
RecordHead == 5
HandshakeHead == 4
ServerHelloLen == 38
IdLen == 32
FinishedLen == 36
MaxMac == 20
MaxBlock == 16
MaxPlaintext == 16384       \* SSL_MAX_PLAINTEXT_LEN

NewEnd(state) ==
    [hs |-> state,              \* hsState: the message it expects, or "DONE"
     resumed |-> FALSE, error |-> FALSE, closed |-> FALSE,      \* SSL_FLAGS_*
     alert |-> FALSE,           \* err # SSL_ALERT_NONE
     room |-> -1,               \* NEED_ENCODE: the buffer that was too small
     id |-> 0, cipher |-> "null", cr |-> 0, sr |-> 0,
     ms |-> NoSecret, keys |-> NoKeys,      \* masterSecret, keyBlock
     rd |-> Plain, wr |-> Plain,            \* live keys and sequence numbers
     log |-> <<>>,                          \* msgHashMd5, msgHashSha1
     ignored |-> 0,                         \* ignoredMessageCount
     empty |-> 0, sent |-> 0, got |-> 0,    \* records: empty, sent, last one got
     final |-> -1]                          \* sent when it said closure

\* A session the client kept from an earlier connection.  The server's
\* randoms start after it.
OldSession == [id |-> 1, ms |-> <<0, 0, 1>>, cipher |-> (CHOOSE c \in Ciphers : TRUE).name]

\* matrixSslNewSession, for the two ends.
Client(s) == IF s = {} THEN NewEnd("ServerHello")
             ELSE [NewEnd("ServerHello") EXCEPT !.id = OldSession.id, !.ms = OldSession.ms,
                                                !.cipher = OldSession.cipher]
Server == [NewEnd("ClientHello") EXCEPT !.sr = 1]

Init ==
    /\ sessions \in {{}, {OldSession}}
    /\ end = [e \in Ends |-> IF e = "c" THEN Client(sessions) ELSE Server]
    /\ wire = [e \in Ends |-> <<>>]
    /\ requests = 0
    /\ faults = 0
    /\ excuses = {}

-----------------------------------------------------------------------------
(* Writing *)

Suite(name) == CHOOSE c \in Ciphers : c.name = name
MacLen(s) == IF Secure(s) THEN Suite(s.keys.cipher).mac ELSE 0
BlockLen(s) == IF Secure(s) THEN Suite(s.keys.cipher).block ELSE 1
PadLen(n, block) == IF block <= 1 THEN 0 ELSE block - (n % block)

\* writeRecordHeader: the size of a record with n bytes of content.
RecordSize(s, n) ==
    RecordHead + n + MacLen(s) + (IF Secure(s) THEN PadLen(n + MacLen(s), BlockLen(s)) ELSE 0)

\* secureWriteAdditions
Additions(s, records) ==
    IF Secure(s) THEN records * (MacLen(s) + BlockLen(s) - 1) ELSE 0

ContentLen(k, item) ==
    CASE item = "ClientHello" -> HandshakeHead + 37 + (IF k.id = 0 THEN 8 ELSE IdLen + 4)
      [] item = "ServerHello" -> HandshakeHead + ServerHelloLen + (IF k.id = 0 THEN 0 ELSE IdLen)
      [] item = "Certificate" -> HandshakeHead + 6 + CertLen
      [] item = "ServerHelloDone" -> HandshakeHead
      [] item = "ClientKeyExchange" -> HandshakeHead + KeyLen
      [] item = "Finished" -> HandshakeHead + FinishedLen
      [] item = "ChangeCipherSpec" -> 1
      [] item = "Alert" -> 2

\* sslDeriveKeys, createKeyBlock: a resumed connection keeps its secret.
Derived(k, premaster) ==
    LET secret == IF k.resumed THEN k.ms ELSE <<premaster, k.cr, k.sr>>
    IN  [k EXCEPT !.ms = secret,
                  !.keys = [ms |-> secret, cr |-> k.cr, sr |-> k.sr, cipher |-> k.cipher]]

Body(e, k, item) ==
    CASE item = "ClientHello" -> [msg |-> item, random |-> k.cr, id |-> k.id, cipher |-> k.cipher]
      [] item = "ServerHello" -> [msg |-> item, random |-> k.sr, id |-> k.id, cipher |-> k.cipher]
      [] item = "ClientKeyExchange" -> [msg |-> item, premaster |-> k.cr]
      [] item = "Finished" -> [msg |-> item, from |-> e, ms |-> k.ms, log |-> k.log]
      [] OTHER -> [msg |-> item]

\* writeRecordHeader and encryptRecord: the record, and the end after it.
Record(s, type, body) == [type |-> type, keys |-> s.keys, seq |-> s.seq, body |-> body]
Counted(s) == IF Secure(s) THEN [s EXCEPT !.seq = @ + 1] ELSE s

\* One of the write functions: w has the end, the records written, the room
\* left in the buffer and whether a record did not fit.  ChangeCipherSpec ends
\* with sslActivateWriteCipher.
Written(e, w, item) ==
    LET k == w.end
        body == Body(e, k, item)
        type == CASE item = "ChangeCipherSpec" -> "ccs" [] item = "Alert" -> "alert"
                  [] OTHER -> "hs"
        after == [k EXCEPT !.wr = Counted(@), !.log = IF type = "hs" THEN Append(@, body) ELSE @]
    IN  [end |-> CASE item = "ChangeCipherSpec" -> [k EXCEPT !.wr = [keys |-> k.keys, seq |-> 0]]
                   [] item = "ClientKeyExchange" -> Derived(after, k.cr)
                   [] item = "ServerHello" /\ k.resumed -> Derived(after, 0)
                   [] OTHER -> after,
         out |-> Append(w.out, Record(k.wr, type, body)),
         room |-> w.room - RecordSize(k.wr, ContentLen(k, item)),
         full |-> FALSE]

Put(e, ws, item) ==
    {IF w.full \/ RecordSize(w.end.wr, ContentLen(w.end, item)) > w.room
     THEN [w EXCEPT !.full = TRUE]
     ELSE Written(e, w, item) : w \in ws}

Blank(k, room) == [end |-> k, out |-> <<>>, room |-> room, full |-> FALSE]

\* No flight has more than three records.
WriteAll(e, ws, items) ==
    CASE Len(items) = 1 -> Put(e, ws, items[1])
      [] Len(items) = 2 -> Put(e, Put(e, ws, items[1]), items[2])
      [] Len(items) = 3 -> Put(e, Put(e, Put(e, ws, items[1]), items[2]), items[3])

\* The flight of sslEncodeResponse, and the room it asks for before it
\* writes.
Flight(e, k) ==
    CASE k.alert -> <<"Alert">>
      [] ~k.alert /\ k.hs = "ClientKeyExchange" ->
            <<"ServerHello", "Certificate", "ServerHelloDone">>
      [] ~k.alert /\ k.hs = "DONE" -> <<"ChangeCipherSpec", "Finished">>
      [] ~k.alert /\ k.hs = "Finished" /\ e = "s" ->
            <<"ServerHello", "ChangeCipherSpec", "Finished">>
      [] ~k.alert /\ k.hs = "Finished" /\ e = "c" ->
            <<"ClientKeyExchange", "ChangeCipherSpec", "Finished">>
      [] ~k.alert /\ k.hs = "HelloRequest" -> <<"ClientHello">>

RoomAsked(e, k) ==
    CASE k.alert \/ k.hs = "HelloRequest" -> 0     \* only their own header asks
      [] ~k.alert /\ k.hs = "ClientKeyExchange" ->
            3 * RecordHead + 3 * HandshakeHead + ServerHelloLen + IdLen
              + 6 + CertLen + Additions(k.wr, 3)
      [] ~k.alert /\ k.hs = "DONE" ->
            2 * RecordHead + HandshakeHead + 1 + FinishedLen + Additions(k.wr, 2)
      [] ~k.alert /\ k.hs = "Finished" /\ e = "s" ->
            3 * RecordHead + 2 * HandshakeHead + ServerHelloLen + IdLen + 1
              + FinishedLen + Additions(k.wr, 3)
      [] ~k.alert /\ k.hs = "Finished" /\ e = "c" ->
            3 * RecordHead + 2 * HandshakeHead + KeyLen + 1 + FinishedLen
              + MaxMac + MaxBlock - 1 + Additions(k.wr, 2)

\* matrixSslEncodeClientHello before it writes: a new random, a new hash, and
\* RESUMED only with an id.
Hello(k) ==
    [k EXCEPT !.cr = @ + 1, !.log = <<>>, !.resumed = @ /\ k.id # 0]

\* writeServerHello before it writes: a new random and, unless the session is
\* resumed, a new session, for which there may be no slot.
Greetings(k) ==
    {[k EXCEPT !.sr = @ + 1, !.id = id] :
        id \in IF k.resumed THEN {k.id} ELSE {k.sr + 1, 0}}

Opened(k, item) ==
    CASE item = "ClientHello" -> {Hello(k)}
      [] item = "ServerHello" -> Greetings(k)
      [] OTHER -> {k}

\* encodeResponse: the answers of an end in a buffer with that much room.  An
\* end that has answered ClientHello to HelloRequest waits for ServerHello; one
\* that has sent its alert is not used any more.  An answer that does not fit
\* sets NEED_ENCODE, whatever of it has been written.
Attempt(e, k, room, items) ==
    IF RoomAsked(e, k) > room
    THEN {[Blank(k, room) EXCEPT !.full = TRUE]}
    ELSE WriteAll(e, {Blank(x, room) : x \in Opened(k, items[1])}, items)

\* An answer that does not fit is forgotten.
MutantEnded(k, room, w) ==
    [end |-> [w.end EXCEPT !.error = @ \/ k.alert,
                           !.hs = IF @ = "HelloRequest" THEN "ServerHello" ELSE @],
     out |-> w.out]
Ended(k, room, w) ==
    IF w.full
    THEN [end |-> [(IF k.hs = "HelloRequest" THEN k ELSE w.end) EXCEPT !.room = room],
          out |-> w.out]
    ELSE [end |-> [w.end EXCEPT !.room = -1, !.error = @ \/ k.alert,
                                !.hs = IF @ = "HelloRequest" THEN "ServerHello" ELSE @],
          out |-> w.out]

Answers(e, k, rooms) ==
    UNION {{Ended(x, f, w) : w \in Attempt(e, x, f, Flight(e, x))} :
                x \in {k}, f \in rooms}

-----------------------------------------------------------------------------
(* Reading: matrixSslDecode and parseSSLHandshake. *)

\* NEED_ENCODE, ERROR and CLOSED all keep an end from reading.  While an
\* answer is pending the caller does nothing else with the end but call
\* again with a larger buffer.
Usable(e) == ~end[e].error /\ ~end[e].closed /\ end[e].room = -1
Reads(e) == Usable(e) /\ wire[e] # <<>>
HeadOf(e) == Head(wire[e])

\* The MAC verifies, or the reader does not check one yet.
MutantGenuine(k, r) == r.keys = k.rd.keys    \* without the sequence number
Genuine(k, r) == r.keys = k.rd.keys /\ r.seq = k.rd.seq

\* The end once the MAC of a record is checked.
Checked(e) == [end[e] EXCEPT !.rd = Counted(@)]

\* The end after a record that needs no answer, and after one that does.
Take(e, k) ==
    /\ end' = [end EXCEPT ![e] = k]
    /\ wire' = [wire EXCEPT ![e] = Tail(@)]
Reply(e, k) ==
    \E a \in Answers(e, k, Free) :
        /\ end' = [end EXCEPT ![e] = a.end]
        /\ wire' = [wire EXCEPT ![e] = Tail(@), ![Other(e)] = @ \o a.out]

\* The message is the one expected, or one of the two that may come instead:
\* ClientHello and HelloRequest on a connection that is done.
InOrder(e, k, m) ==
    \/ m.msg = k.hs
    \/ k.hs = "DONE" /\ m.msg = (IF e = "s" THEN "ClientHello" ELSE "HelloRequest")

\* A Finished is compared with the hash of everything before it, the secret
\* and the sender.
Verifies(e, k, m) ==
    m.msg = "Finished" => Secure(k.rd) /\ m.from = Other(e) /\ m.ms = k.ms /\ m.log = k.log

\* Application data only when the handshake is complete.
MutantAcceptable(e, k, r) ==
    /\ Genuine(k, r)
    /\ CASE r.type = "ccs" -> k.hs = "Finished"
         [] r.type = "alert" -> TRUE
         [] r.type = "data" -> k.hs = "DONE" /\ (r.body = 0 => k.ignored < MaxIgnored)
         [] r.type = "hs" -> InOrder(e, k, r.body) /\ Verifies(e, k, r.body)
\* Empty records without end.
MutantAcceptableEmpty(e, k, r) ==
    /\ Genuine(k, r)
    /\ CASE r.type = "ccs" -> k.hs = "Finished"
         [] r.type = "alert" -> TRUE
         [] r.type = "data" -> k.hs \in {"DONE", "ServerHello"} /\ Secure(k.rd)
         [] r.type = "hs" -> InOrder(e, k, r.body) /\ Verifies(e, k, r.body)
Acceptable(e, k, r) ==
    /\ Genuine(k, r)
    /\ CASE r.type = "ccs" -> k.hs = "Finished"
         [] r.type = "alert" -> TRUE
         [] r.type = "data" -> /\ k.hs \in {"DONE", "ServerHello"}
                               /\ Secure(k.rd)
                               /\ r.body = 0 => k.ignored < MaxIgnored
         [] r.type = "hs" -> InOrder(e, k, r.body) /\ Verifies(e, k, r.body)

Excuse(e, k, r) ==
    CASE r.type = "hs" /\ r.body.msg = "HelloRequest" /\ ~InOrder(e, k, r.body) -> {"crossed"}
      [] r.type = "data" /\ r.body = 0 /\ k.ignored = MaxIgnored -> {"ignored"}
      [] OTHER -> {}

\* A record that does not verify, is out of order or does not parse is
\* answered with an alert; a connection that reads its records in the clear
\* takes any bytes for an alert, and its application gives up.
Refuse(e) ==
    /\ Reads(e)
    /\ ~Acceptable(e, end[e], HeadOf(e))
    /\ IF HeadOf(e).type = "alert" /\ ~Secure(end[e].rd)
       THEN Take(e, [end[e] EXCEPT !.error = TRUE])
       ELSE Reply(e, [end[e] EXCEPT !.alert = TRUE])
    /\ excuses' = excuses \cup Excuse(e, end[e], HeadOf(e))
    /\ UNCHANGED <<sessions, requests, faults>>

Receives(e, type) ==
    /\ Reads(e)
    /\ HeadOf(e).type = type
    /\ Acceptable(e, end[e], HeadOf(e))
    /\ UNCHANGED <<requests, faults>>

\* sslActivateReadCipher
ChangeCipherSpec(e) ==
    /\ Receives(e, "ccs")
    /\ Take(e, [end[e] EXCEPT !.rd = [keys |-> end[e].keys, seq |-> 0]])
    /\ UNCHANGED <<sessions, excuses>>

Alert(e) ==
    /\ Receives(e, "alert")
    /\ IF HeadOf(e).body.msg = "Closure"
       THEN Take(e, [Checked(e) EXCEPT !.closed = TRUE])
       ELSE Take(e, [Checked(e) EXCEPT !.error = TRUE])
    /\ UNCHANGED <<sessions, excuses>>

\* An empty record is counted and not given to the application.
Data(e) ==
    /\ Receives(e, "data")
    /\ LET n == HeadOf(e).body
       IN  Take(e, IF n = 0
                   THEN [Checked(e) EXCEPT !.ignored = @ + 1]
                   ELSE [Checked(e) EXCEPT !.ignored = IF @ > 0 THEN @ - 1 ELSE 0,
                                           !.got = n])
    /\ UNCHANGED <<sessions, excuses>>

Message(e, msg) ==
    /\ Receives(e, "hs")
    /\ HeadOf(e).body.msg = msg

\* The end once the message is in the hash.
Hashed(e) == [Checked(e) EXCEPT !.log = Append(@, HeadOf(e).body)]

\* The server's part of ClientHello that deals with the session: a session
\* that is found is resumed with its secret and cipher; one that is not found
\* leaves RESUMED as it was; without an id RESUMED is cleared.
Lookups(k, m) ==
    IF m.id = 0 THEN {[k EXCEPT !.id = 0, !.resumed = FALSE]}
    ELSE {[k EXCEPT !.id = 0]}
            \cup {[k EXCEPT !.id = s.id, !.resumed = TRUE, !.ms = s.ms, !.cipher = s.cipher] :
                    s \in {t \in sessions : t.id = m.id}}

\* Whether the server's answer has just been cut so: NEED_ENCODE is set though
\* records of the answer are in the buffer.
CutShort ==
    IF /\ end'["s"].room >= 0
       /\ ~end'["s"].alert
       /\ end'["s"].hs \in {"ClientKeyExchange", "Finished"}
       /\ wire'["c"] # wire["c"]
    THEN {"cut"} ELSE {}

ClientHelloMessage ==
    LET m == HeadOf("s").body
    IN  /\ Message("s", "ClientHello")
        /\ \E k \in Lookups([Checked("s") EXCEPT !.log = <<m>>, !.cr = m.random], m) :
            /\ IF k.resumed /\ k.cipher # m.cipher
               THEN Reply("s", [k EXCEPT !.alert = TRUE])
               ELSE Reply("s", [k EXCEPT !.cipher = m.cipher,
                                         !.hs = IF k.resumed THEN "Finished"
                                                ELSE "ClientKeyExchange"])
            /\ excuses' = excuses \cup CutShort
                             \cup (IF m.id # 0 /\ k.id = 0 /\ k.resumed THEN {"stale"} ELSE {})
        /\ UNCHANGED sessions

ClientKeyExchangeMessage ==
    LET k == Derived(Hashed("s"), HeadOf("s").body.premaster)
    IN  /\ Message("s", "ClientKeyExchange")
        /\ Take("s", [k EXCEPT !.hs = "Finished"])
        /\ sessions' = IF k.id = 0 THEN sessions
                       ELSE {s \in sessions : s.id # k.id}
                                \cup {[id |-> k.id, ms |-> k.ms, cipher |-> k.cipher]}
        /\ UNCHANGED excuses

\* Finished is the last message for the client of a full handshake and the
\* server of a resumed one; the others answer with theirs.
MutantFinishedMessage(e) ==     \* the cases are swapped
    LET k == [Hashed(e) EXCEPT !.hs = "DONE"]
    IN  /\ Message(e, "Finished")
        /\ IF k.resumed = (e = "s") THEN Reply(e, k) ELSE Take(e, k)
        /\ UNCHANGED <<sessions, excuses>>
FinishedMessage(e) ==
    LET k == [Hashed(e) EXCEPT !.hs = "DONE"]
    IN  /\ Message(e, "Finished")
        /\ IF k.resumed = (e = "c") THEN Reply(e, k) ELSE Take(e, k)
        /\ UNCHANGED <<sessions, excuses>>

HelloRequestMessage ==
    /\ Message("c", "HelloRequest")
    /\ Reply("c", [Hashed("c") EXCEPT !.hs = "HelloRequest"])
    /\ UNCHANGED <<sessions, excuses>>

\* The client's session after the id of ServerHello: the one it asked for is
\* resumed; any other replaces it and leaves no secret.
WithServerId(k, id) ==
    IF id # 0 /\ id = k.id THEN [k EXCEPT !.resumed = TRUE]
    ELSE [k EXCEPT !.resumed = @ /\ k.id = 0, !.id = id,
                   !.ms = IF k.id = 0 THEN @ ELSE NoSecret]

ServerHelloMessage ==
    LET m == HeadOf("c").body
        k == WithServerId([Hashed("c") EXCEPT !.sr = m.random], m.id)
    IN  /\ Message("c", "ServerHello")
        /\ IF k.resumed
           THEN IF k.cipher = m.cipher
                THEN Take("c", [Derived(k, 0) EXCEPT !.hs = "Finished"])
                ELSE Reply("c", [k EXCEPT !.alert = TRUE])
           ELSE Take("c", [k EXCEPT !.cipher = m.cipher, !.hs = "Certificate"])
        /\ UNCHANGED <<sessions, excuses>>

CertificateMessage ==
    /\ Message("c", "Certificate")
    /\ Take("c", [Hashed("c") EXCEPT !.hs = "ServerHelloDone"])
    /\ UNCHANGED <<sessions, excuses>>

ServerHelloDoneMessage ==
    /\ Message("c", "ServerHelloDone")
    /\ Reply("c", [Hashed("c") EXCEPT !.hs = "Finished"])
    /\ UNCHANGED <<sessions, excuses>>

Decode(e) ==
    \/ ChangeCipherSpec(e) \/ Alert(e) \/ Data(e)
    \/ e = "s" /\ (ClientKeyExchangeMessage \/ ClientHelloMessage)
    \/ e = "c" /\ (ServerHelloMessage \/ CertificateMessage
                    \/ ServerHelloDoneMessage \/ HelloRequestMessage)
    \/ FinishedMessage(e) \/ Refuse(e)

\* The caller comes back with a larger buffer.
Retry(e) ==
    /\ ~end[e].error
    /\ ~end[e].closed
    /\ end[e].room >= 0
    /\ \E a \in Answers(e, end[e], {f \in Free : f > end[e].room}) :
        /\ end' = [end EXCEPT ![e] = a.end]
        /\ wire' = [wire EXCEPT ![Other(e)] = @ \o a.out]
    /\ excuses' = excuses \cup CutShort
    /\ UNCHANGED <<sessions, requests, faults>>

-----------------------------------------------------------------------------
(* What the applications call of themselves.  A call that finds no room has *)
(* no lasting effect and is repeated.                                      *)

Said(k) == k.sent + k.empty + (IF k.final = -1 THEN 0 ELSE 1)
MayHappen == end["c"].cr + requests + Said(end["c"]) + Said(end["s"]) + faults < MaxEvents

Emit(e, k, type, body) ==
    /\ end' = [end EXCEPT ![e] = [k EXCEPT !.wr = Counted(@)]]
    /\ wire' = [wire EXCEPT ![Other(e)] = Append(@, Record(k.wr, type, body))]

\* matrixSslEncodeClientHello: the first hello, or a rehandshake.  A session
\* is offered with its own cipher.
ClientHello(c) ==
    LET k == Hello(IF end["c"].id = 0 THEN [end["c"] EXCEPT !.cipher = c.name] ELSE end["c"])
    IN  /\ Usable("c")
        /\ \/ end["c"].hs = "DONE"
           \/ end["c"].hs = "ServerHello" /\ end["c"].cr = 0
        /\ MayHappen
        /\ \E w \in Put("c", {Blank(k, MaxPlaintext)}, "ClientHello") :
            /\ end' = [end EXCEPT !["c"] = [w.end EXCEPT !.hs = "ServerHello"]]
            /\ wire' = [wire EXCEPT !["s"] = @ \o w.out]
        /\ UNCHANGED <<sessions, requests, faults, excuses>>

HelloRequest ==
    /\ Usable("s")
    /\ end["s"].hs = "DONE"
    /\ MayHappen
    /\ LET m == [msg |-> "HelloRequest"]
       IN  Emit("s", [end["s"] EXCEPT !.log = Append(@, m)], "hs", m)
    /\ requests' = requests + 1
    /\ UNCHANGED <<sessions, faults, excuses>>

\* matrixSslEncode
SendData(e) ==
    /\ Usable(e)
    /\ end[e].hs = "DONE"
    /\ MayHappen
    /\ Emit(e, [end[e] EXCEPT !.sent = @ + 1], "data", end[e].sent + 1)
    /\ UNCHANGED <<sessions, requests, faults, excuses>>

\* matrixSslEncode of no bytes.
SendEmpty(e) ==
    /\ Usable(e)
    /\ end[e].hs = "DONE"
    /\ MayHappen
    /\ Emit(e, [end[e] EXCEPT !.empty = @ + 1], "data", 0)
    /\ UNCHANGED <<sessions, requests, faults, excuses>>

\* matrixSslEncodeClosureAlert
SendClosure(e) ==
    /\ Usable(e)
    /\ MayHappen
    /\ end[e].final = -1
    /\ Emit(e, [end[e] EXCEPT !.final = end[e].sent], "alert", [msg |-> "Closure"])
    /\ UNCHANGED <<sessions, requests, faults, excuses>>

\* matrixSslSetSessionOption(SSL_OPTION_DELETE_SESSION) on a connection that
\* is up: the server's entry goes with its RESUMED.
DeleteOption(e) ==
    /\ Usable(e)
    /\ end[e].hs = "DONE"
    /\ end[e].id # 0
    /\ end' = [end EXCEPT ![e].id = 0,
                          ![e].resumed = IF e = "s" THEN FALSE ELSE @]
    /\ sessions' = IF e = "s" THEN {s \in sessions : s.id # end[e].id} ELSE sessions
    /\ UNCHANGED <<wire, requests, faults, excuses>>

-----------------------------------------------------------------------------
(* The wire. *)

Fault(e, records) ==
    /\ MayHappen
    /\ faults' = faults + 1
    /\ wire' = [wire EXCEPT ![e] = records]
    /\ UNCHANGED <<end, sessions, requests, excuses>>

Lose(e, i) == Fault(e, RemoveAt(wire[e], i))
Repeat(e, i) == Fault(e, InsertAt(wire[e], i, wire[e][i]))
Swap(e, i) ==
    /\ i < Len(wire[e])
    /\ Fault(e, [wire[e] EXCEPT ![i] = wire[e][i + 1], ![i + 1] = wire[e][i]])

Next ==
    \/ \E e \in Ends :
        \/ Decode(e) \/ Retry(e)
        \/ SendData(e) \/ SendEmpty(e) \/ SendClosure(e) \/ DeleteOption(e)
        \/ \E i \in DOMAIN wire[e] : Lose(e, i) \/ Repeat(e, i) \/ Swap(e, i)
    \/ \E c \in Ciphers : ClientHello(c)
    \/ HelloRequest

\* The applications read what has arrived and come back with larger buffers.
\* Nothing is asked of them once the wire had a fault or there is an excuse.
Undisturbed == faults = 0 /\ excuses = {}
Fairness == \A e \in Ends : /\ WF_vars(Undisturbed /\ Decode(e))
                            /\ WF_vars(Undisturbed /\ Retry(e))

Spec == Init /\ [][Next]_vars /\ Fairness

-----------------------------------------------------------------------------
(* Properties *)

TypeOK ==
    \A e \in Ends :
        /\ end[e].room \in {-1} \cup Free
        /\ end[e].cr \in Nat /\ end[e].sr \in Nat
        /\ end[e].ms \in Nat \X Nat \X Nat
        /\ end[e].rd.seq \in Nat /\ end[e].wr.seq \in Nat
        /\ end[e].ignored \in 0 .. MaxIgnored
        /\ end[e].final \in -1 .. end[e].sent
        /\ \A i \in DOMAIN wire[e] : wire[e][i].type \in {"ccs", "alert", "data", "hs"}
        /\ excuses \subseteq Excuses

\* An end whose handshake is complete has the keys of the other end, and both
\* of its directions use them, whatever was resumed, rehandshaked, cut short
\* by a full buffer or lost on the wire (matrixSslHandshakeIsComplete).
DoneMeansAgreed ==
    \A e \in Ends : end[e].hs = "DONE" =>
        /\ end[e].keys # NoKeys
        /\ end[e].keys = end[Other(e)].keys
        /\ end[e].rd.keys = end[e].keys
        /\ end[e].room = -1 => end[e].wr.keys = end[e].keys

\* Two MatrixSSL ends on a wire without faults never refuse what the other
\* sends, in any order of handshakes, data and closures and for any room in
\* the buffers, except for the reasons that excuses names.  One of them is the
\* server's answer that a full buffer cut after its ServerHello: the next call
\* sends that message again, and the client refuses it (see Transactional).
NoSpuriousFailure ==
    Undisturbed => \A e \in Ends : ~end[e].error /\ ~end[e].alert

\* An end that is told of a closure has got every record the other sent
\* before it, even when the wire loses records.
ClosedAfterAll ==
    \A e \in Ends : end[e].closed => end[e].got = end[Other(e)].final

\* Records reach the other application in order, once each and with none left
\* out, over every change of keys.
Channel == INSTANCE SecureChannel WITH
    sent <- [e \in Ends |-> end[e].sent],
    got <- [e \in Ends |-> end[e].got]
InOrderOnce == Channel!Spec

\* A handshake that was started comes to an end on both sides, or the
\* connection is closed, or the wire had a fault, or there is one of the
\* reasons that excuses names: a HelloRequest or a session that crossed the
\* handshake, too many empty records, or a server's answer cut by a full buffer
\* after its ServerHello.  An answer that was refused room before anything of
\* it was written, and a Finished cut after its ChangeCipherSpec, do complete.
HandshakeCompletes ==
    end["c"].cr > 0 ~>
        \/ \A e \in Ends : end[e].hs = "DONE" /\ end[e].room = -1
        \/ \E e \in Ends : end[e].closed
        \/ ~Undisturbed

\* "We have to pre-verify the size of the outgoing buffer against all the
\* messages to make the routine transactional": an answer that does not fit
\* leaves nothing on the wire and the write cipher as it was.
Transactional ==
    [][\A e \in Ends : end'[e].room > end[e].room =>
            wire'[Other(e)] = wire[Other(e)] /\ end'[e].wr = end[e].wr]_vars

=============================================================================
