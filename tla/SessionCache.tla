---------------------------- MODULE SessionCache ----------------------------
(***************************************************************************)
(* The session table of a MatrixSSL server (matrixSsl.c) and the           *)
(* connections that use it.  The table has Size entries shared by every    *)
(* connection of the process; a connection finds its entry by the four     *)
(* bytes of its session id that name the slot, and most of the functions   *)
(* look at nothing else of the id.                                         *)
(*                                                                         *)
(* One action is one call into the library: the process is one thread (the *)
(* package is built without USE_MULTITHREADING), so calls do not overlap,  *)
(* but the calls of different connections come in any order.  Of a         *)
(* handshake the module keeps the steps that touch the table: ClientHello, *)
(* the ServerHello that registers a session, ClientKeyExchange, Finished.  *)
(*                                                                         *)
(* Abstractions.  The full handshakes of the process are numbered; the     *)
(* number stands for the random bytes of the session id and for the master *)
(* secret the two ends derive, so the right secret of id [slot, serial] is *)
(* serial, and 0 is the zeroed secret.  Time is a clock that the calls     *)
(* read; that its milliseconds wrap is left out.  An id offered with fewer *)
(* than 32 bytes is compared by the bytes it has: if they match, it does   *)
(* what the slot's bytes alone do, if not, it is an unknown one, so ids    *)
(* are whole or short.  A table of up to 256 entries is assumed: a single  *)
(* byte then names a slot.  The versions of an entry                       *)
(* are left out: only 3.0 is spoken.  The value of the resumption flag is  *)
(* left out, what its accessors do to the entry is not.                    *)
(***************************************************************************)
EXTENDS Integers

CONSTANTS
    Conns,          \* connections the server may have open
    Size,           \* SSL_SESSION_TABLE_SIZE
    MaxAge,         \* age after which an entry is not resumed (86400 s)
    MaxHandshakes,  \* bound: full handshakes of the process
    MaxTime         \* bound: readings of the clock

ASSUME SizeAssumption == Size \in Nat \ {0}
ASSUME BoundsAssumption ==
    MaxAge \in Nat /\ MaxHandshakes \in Nat /\ MaxTime \in Nat

VARIABLES
    table,      \* sessionTable
    conn,       \* the ssl_t of each connection
    made,       \* full handshakes started so far
    now,        \* the clock
    orderly     \* history: no step named in "Disorder" below has happened

vars == <<table, conn, made, now, orderly>>

Slots == 0 .. Size - 1

\* A session id: the slot in its first four bytes, and the rest.  A slot of
\* Size stands for every number that is not in the table.
Ids == [slot : 0 .. Size, serial : 0 .. MaxHandshakes]
ZeroId == [slot |-> 0, serial |-> 0]

\* What a client offers: the session it has, and by its whole id or by the
\* bytes of the slot only.
Offers == [slot : 0 .. Size, serial : 0 .. MaxHandshakes, short : BOOLEAN]

Entries == [cipher : BOOLEAN,       \* cipher # NULL
            secret : 0 .. MaxHandshakes, inUse : BOOLEAN, id : Ids,
            start : 0 .. MaxTime, access : 0 .. MaxTime]

EmptyEntry == [cipher |-> FALSE, secret |-> 0, inUse |-> FALSE,
               id |-> ZeroId, start |-> 0, access |-> 0]

Steps == {"none", "hello", "key", "finished", "done"}

Connections == [hs : Steps,         \* hsState; "none": there is no ssl_t
                sid : Ids, hasId : BOOLEAN,     \* sessionId, sessionIdLen > 0
                resumed : BOOLEAN, error : BOOLEAN,  \* SSL_FLAGS_*
                needEncode : BOOLEAN,   \* the answer waits for a larger buffer
                secret : 0 .. MaxHandshakes,    \* sec.masterSecret
                agreed : BOOLEAN,       \* resuming: the client has that secret
                number : 0 .. MaxHandshakes]    \* of the full handshake it is in

NoConn == [hs |-> "none", sid |-> ZeroId, hasId |-> FALSE, resumed |-> FALSE,
           error |-> FALSE, needEncode |-> FALSE, secret |-> 0, agreed |-> FALSE, number |-> 0]

TypeOK ==
    /\ table \in [Slots -> Entries]
    /\ conn \in [Conns -> Connections]
    /\ made \in 0 .. MaxHandshakes
    /\ now \in 0 .. MaxTime
    /\ orderly \in BOOLEAN

\* matrixSslOpen: the table is zeroed.
Init ==
    /\ table = [i \in Slots |-> EmptyEntry]
    /\ conn = [c \in Conns |-> NoConn]
    /\ made = 0
    /\ now = 0
    /\ orderly = TRUE

-----------------------------------------------------------------------------
(* The functions on the table.  Each one takes the table and the           *)
(* connection and gives the new value of the one it changes.               *)

\* The slot a new session gets: the first empty entry; otherwise the loop
\* keeps the last entry not in use whose access time is not later than the
\* ones kept before it, starting from the access time of entry 0, which may
\* itself be in use.  Size stands for none.
MutantUnused(t) == Slots    \* inUse is not looked at
Unused(t) == {i \in Slots : ~t[i].inUse}
FirstEmpty(t) == {i \in Slots : ~t[i].cipher /\ \A k \in 0 .. i - 1 : t[k].cipher}
Oldest(t) == {i \in Unused(t) : /\ t[i].access <= t[0].access
                                /\ \A k \in Unused(t) : t[i].access <= t[k].access}
LastOldest(t) == {i \in Oldest(t) : \A k \in Oldest(t) : k <= i}
\* The index of "none" is used as if it were a slot.
MutantFreeSlot(t) ==
    IF FirstEmpty(t) # {} THEN CHOOSE i \in FirstEmpty(t) : TRUE
    ELSE IF LastOldest(t) # {} THEN CHOOSE i \in LastOldest(t) : TRUE
    ELSE -1
FreeSlot(t) ==
    IF FirstEmpty(t) # {} THEN CHOOSE i \in FirstEmpty(t) : TRUE
    ELSE IF LastOldest(t) # {} THEN CHOOSE i \in LastOldest(t) : TRUE
    ELSE Size

\* matrixRegisterSession, for the handshake numbered n.
Registered(t, c, n) ==
    LET i == FreeSlot(t)
    IN  [t EXCEPT ![i] = [cipher |-> TRUE, secret |-> c.secret, inUse |-> TRUE,
                          id |-> [slot |-> i, serial |-> n],
                          start |-> now, access |-> now]]

\* matrixClearSession(ssl, 0), from sslResetContext: nothing without an id.
Released(t, c) ==
    IF c.hasId /\ c.sid.slot \in Slots
    THEN [t EXCEPT ![c.sid.slot].inUse = FALSE]
    ELSE t

\* matrixResumeSession reads the clock into the entry before it looks at the
\* rest of the id.
Touched(t, id) ==
    IF id.slot \in Slots /\ t[id.slot].cipher
    THEN [t EXCEPT ![id.slot].access = now]
    ELSE t

Resumable(t, id) ==
    /\ id.slot \in Slots
    /\ t[id.slot].cipher
    /\ t[id.slot].id.slot = id.slot
    /\ id.short \/ t[id.slot].id.serial = id.serial    \* memcmp of its length
    /\ now - t[id.slot].start <= MaxAge
    /\ ~t[id.slot].inUse

\* matrixUpdateSession.  sessionId is an array, never NULL: a connection
\* without a session has the slot of whatever its sessionId still holds.
\* The entry stays in use when its connection closes.
MutantUpdatedInUse(t, c, closed) ==
    LET i == c.sid.slot
    IN  IF i \notin Slots THEN t
        ELSE [t EXCEPT ![i].inUse = TRUE,
                       ![i].secret = IF c.error THEN 0 ELSE c.secret,
                       ![i].cipher = ~c.error]
\* An error clears the secret and leaves the cipher.
MutantUpdatedValid(t, c, closed) ==
    LET i == c.sid.slot
    IN  IF i \notin Slots THEN t
        ELSE [t EXCEPT ![i].inUse = ~closed,
                       ![i].secret = IF c.error THEN 0 ELSE c.secret]
Updated(t, c, closed) ==
    LET i == c.sid.slot
    IN  IF i \notin Slots THEN t
        ELSE [t EXCEPT ![i].inUse = ~closed,
                       ![i].secret = IF c.error THEN 0 ELSE c.secret,
                       ![i].cipher = ~c.error]

-----------------------------------------------------------------------------
(* Disorder: the steps after which the table is no longer kept straight.   *)
(* A full handshake that finds no slot keeps the slot of its old sessionId *)
(* (0 at first) and ClientKeyExchange writes to it; a hello refused before *)
(* its session id is read leaves an established connection with an id it   *)
(* has just released; one refused for the length of its id leaves that     *)
(* length with the old bytes of sessionId, which the closure then takes    *)
(* for a session; a connection closed after ServerHello and before         *)
(* ClientKeyExchange stores a secret nobody negotiated; an accessor of the *)
(* resumption flag on a connection without a session marks another entry.  *)

Refused(t) == FreeSlot(t) = Size

\* writeServerHello: the session is registered unless it is resumed.  c is
\* the connection after its hello.
ServerHello(c, t, k) ==
    IF k.resumed
    THEN /\ table' = t
         /\ conn' = [conn EXCEPT ![c] = [k EXCEPT !.needEncode = FALSE]]
         /\ UNCHANGED <<made, orderly>>
    ELSE LET n == made + 1
         IN  /\ made < MaxHandshakes
             /\ made' = n
             /\ \/ /\ Refused(t)
                   /\ table' = t
                   /\ conn' = [conn EXCEPT ![c] =
                                 [k EXCEPT !.number = n, !.needEncode = FALSE]]
                   /\ orderly' = FALSE
                \/ /\ ~Refused(t)
                   /\ table' = Registered(t, k, n)
                   /\ conn' = [conn EXCEPT ![c] =
                                 [k EXCEPT !.number = n, !.needEncode = FALSE,
                                           !.hasId = TRUE,
                                           !.sid = [slot |-> FreeSlot(t), serial |-> n]]]
                   /\ UNCHANGED orderly

\* The connection k after the part of ClientHello that deals with the
\* session: an id that is found is resumed, one that is not is zeroed and
\* leaves RESUMED as it was; without an id RESUMED is cleared and sessionId
\* keeps its bytes.  A short id overwrites only as many bytes of sessionId:
\* what the server looks at later is the slot, so the connection is given the
\* id of the entry.
WithoutId(k) == [k EXCEPT !.hasId = FALSE, !.resumed = FALSE, !.hs = "key"]
NotFound(k) ==
    [k EXCEPT !.sid = ZeroId, !.hasId = FALSE,
              !.hs = IF k.resumed THEN "finished" ELSE "key"]
Found(k, t, id) ==
    [k EXCEPT !.sid = t[id.slot].id, !.hasId = TRUE, !.resumed = TRUE,
              !.hs = "finished", !.secret = t[id.slot].secret,
              !.agreed = t[id.slot].secret = id.serial]

\* What the hello leaves of the table and the connection.
HelloTable(t, id) ==
    IF Resumable(t, id)
    THEN [Touched(t, id) EXCEPT ![id.slot].inUse = TRUE]
    ELSE Touched(t, id)
HelloConn(k, t, id) ==
    IF Resumable(t, id) THEN Found(k, t, id) ELSE NotFound(k)

-----------------------------------------------------------------------------
(* The calls of one connection. *)

MayDecode(c, steps) ==
    conn[c].hs \in steps /\ ~conn[c].error /\ ~conn[c].needEncode

NewSession(c) ==
    /\ conn[c].hs = "none"
    /\ conn' = [conn EXCEPT ![c] = [NoConn EXCEPT !.hs = "hello"]]
    /\ UNCHANGED <<table, made, now, orderly>>

\* A connection that is done is being rehandshaked: sslResetContext first.
BeforeHello(c) ==
    IF conn[c].hs = "done" THEN Released(table, conn[c]) ELSE table

\* The hello is answered in the same call, or the answer does not fit in the
\* caller's buffer (SSL_FULL) and a later call writes it.
Answer(c, t, k) ==
    \/ ServerHello(c, t, k)
    \/ /\ table' = t
       /\ conn' = [conn EXCEPT ![c] = [k EXCEPT !.needEncode = TRUE]]
       /\ UNCHANGED <<made, orderly>>

\* (Also a hello of SSL 2.0, which can only be the first of a connection.)
FreshHello(c) ==
    /\ MayDecode(c, {"hello", "done"})
    /\ Answer(c, BeforeHello(c), WithoutId(conn[c]))
    /\ UNCHANGED now

ResumingHello(c, id) ==
    /\ MayDecode(c, {"hello", "done"})
    /\ LET t == BeforeHello(c)
       IN  Answer(c, HelloTable(t, id), HelloConn(conn[c], t, id))
    /\ UNCHANGED now

\* The answer after SSL_FULL.
Retry(c) ==
    /\ conn[c].needEncode
    /\ ~conn[c].error
    /\ ServerHello(c, table, conn[c])
    /\ UNCHANGED now

\* No cipher suite in common, or a length that does not fit, found after the
\* session was looked up.
Failed(c, t, k) ==
    /\ MayDecode(c, {"hello", "done"})
    /\ table' = t
    /\ conn' = [conn EXCEPT ![c] =
                  [k EXCEPT !.error = TRUE, !.agreed = FALSE, !.hs = "hello"]]
    /\ UNCHANGED <<made, now, orderly>>
FreshFailed(c) == Failed(c, BeforeHello(c), WithoutId(conn[c]))
ResumingFailed(c, id) ==
    LET t == BeforeHello(c)
    IN  Failed(c, HelloTable(t, id), HelloConn(conn[c], t, id))

\* A version the server does not take or a hello too short to have an id.
HelloRefused(c) ==
    /\ MayDecode(c, {"hello", "done"})
    /\ table' = BeforeHello(c)
    /\ conn' = [conn EXCEPT ![c].error = TRUE, ![c].hs = "hello"]
    /\ orderly' = (orderly /\ ~conn[c].hasId)
    /\ UNCHANGED <<made, now>>

\* An id that is too long, or longer than the message, or one in a hello of
\* SSL 2.0: its length is stored before it is refused, and sessionId keeps its
\* bytes.
IdRefused(c) ==
    /\ MayDecode(c, {"hello", "done"})
    /\ table' = BeforeHello(c)
    /\ conn' = [conn EXCEPT ![c].error = TRUE, ![c].hs = "hello", ![c].hasId = TRUE]
    /\ orderly' = FALSE
    /\ UNCHANGED <<made, now>>

ClientKeyExchange(c) ==
    /\ MayDecode(c, {"key"})
    /\ LET k == [conn[c] EXCEPT !.secret = conn[c].number, !.number = 0,
                              !.hs = "finished"]
       IN  /\ conn' = [conn EXCEPT ![c] = k]
           /\ table' = Updated(table, k, FALSE)
    /\ UNCHANGED <<made, now, orderly>>

\* The two Finished messages verify only when both ends have one secret and
\* the client agrees that the session is resumed: it knows by the id, and has
\* the secret of the session it offered.
Finished(c) ==
    /\ MayDecode(c, {"finished"})
    /\ conn[c].resumed => conn[c].hasId /\ conn[c].agreed
    /\ conn' = [conn EXCEPT ![c].hs = "done", ![c].agreed = FALSE]
    /\ UNCHANGED <<table, made, now, orderly>>

\* A fatal alert, or a record or a message that is refused.
Fail(c) ==
    /\ conn[c].hs # "none"
    /\ ~conn[c].error
    /\ conn' = [conn EXCEPT ![c].error = TRUE, ![c].agreed = FALSE]
    /\ UNCHANGED <<table, made, now, orderly>>

\* matrixSslDeleteSession
DeleteSession(c) ==
    /\ conn[c].hs # "none"
    /\ table' = IF conn[c].hasId THEN Updated(table, conn[c], TRUE) ELSE table
    /\ conn' = [conn EXCEPT ![c] = NoConn]
    /\ orderly' = (orderly /\ ~(conn[c].hasId /\ ~conn[c].error /\ conn[c].hs = "key"))
    /\ UNCHANGED <<made, now>>

\* matrixSslSetSessionOption(SSL_OPTION_DELETE_SESSION), documented for a
\* connection that is already up: matrixClearSession(ssl, 1).
DeleteOption(c) ==
    /\ conn[c].hs = "done"
    /\ table' = IF conn[c].hasId /\ conn[c].sid.slot \in Slots
                THEN [table EXCEPT ![conn[c].sid.slot] = EmptyEntry]
                ELSE table
    /\ conn' = [conn EXCEPT ![c].sid = ZeroId, ![c].hasId = FALSE,
                            ![c].resumed = @ /\ ~conn[c].hasId]
    /\ UNCHANGED <<made, now, orderly>>

\* matrixSslSetResumptionFlag and matrixSslGetResumptionFlag: both mark the
\* entry of the connection's slot as in use before anything else.
ResumptionFlag(c) ==
    /\ conn[c].hs # "none"
    /\ conn[c].sid.slot \in Slots
    /\ table' = [table EXCEPT ![conn[c].sid.slot].inUse = TRUE]
    /\ orderly' = (orderly /\ conn[c].hasId)
    /\ UNCHANGED <<conn, made, now>>

Tick ==
    /\ now < MaxTime
    /\ now' = now + 1
    /\ UNCHANGED <<table, conn, made, orderly>>

\* The ids a client may offer: whole, those of sessions of this process and
\* those the server does not know (serial 0), kept from before it was
\* restarted; short, any slot, with the secret of any session.
Whole(id) == [slot |-> id.slot, serial |-> id.serial, short |-> FALSE]
Offered ==
    {Whole([slot |-> i, serial |-> 0]) : i \in 0 .. Size}
        \cup {Whole(table[i].id) : i \in Slots}
        \cup {Whole(conn[c].sid) : c \in Conns}
        \cup [slot : 0 .. Size, serial : 0 .. made, short : {TRUE}]

Next ==
    \/ \E c \in Conns :
        \/ NewSession(c) \/ FreshHello(c) \/ Retry(c)
        \/ HelloRefused(c) \/ IdRefused(c) \/ FreshFailed(c)
        \/ ClientKeyExchange(c) \/ Finished(c) \/ Fail(c)
        \/ DeleteSession(c) \/ DeleteOption(c) \/ ResumptionFlag(c)
        \/ \E id \in Offered : ResumingHello(c, id) \/ ResumingFailed(c, id)
    \/ Tick

Spec == Init /\ [][Next]_vars

-----------------------------------------------------------------------------
(* Properties *)

Holds(c) == conn[c].hs # "none" /\ conn[c].hasId

\* A connection that has a session holds its entry, alone: nobody replaces,
\* resumes or releases an entry while its connection lives, whatever is
\* registered, resumed, rehandshaked and closed around it.
SessionIsHeld ==
    orderly => \A c \in Conns : Holds(c) =>
        /\ conn[c].sid.slot \in Slots
        /\ table[conn[c].sid.slot].id = conn[c].sid
        /\ table[conn[c].sid.slot].cipher
        /\ table[conn[c].sid.slot].inUse
        /\ \A d \in Conns : Holds(d) /\ conn[d].sid.slot = conn[c].sid.slot => d = c

\* An entry in use belongs to a live connection: none is lost to the table
\* when connections fail, are refused or are rehandshaked.
InUseHasOwner ==
    orderly => \A i \in Slots : table[i].inUse =>
        \E c \in Conns : Holds(c) /\ conn[c].sid.slot = i

\* An entry that a later hello could resume, by its whole id or by a few bytes
\* of it, has the secret that was negotiated under its id, and not the one its
\* connection had before.
ResumesItsOwnSecret ==
    orderly => \A id \in Offers : Resumable(table, id) =>
        table[id.slot].secret = table[id.slot].id.serial

=============================================================================
