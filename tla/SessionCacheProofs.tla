------------------------- MODULE SessionCacheProofs -------------------------
(***************************************************************************)
(* Proofs about SessionCache, for every number of connections and entries. *)
(* The inductive invariant Straight relates the table to the connections;  *)
(* it is stated of any table t and any function f of connections, so that  *)
(* a call that changes the table twice (release the old entry, then resume *)
(* or register another) is the composition of two lemmas.                  *)
(***************************************************************************)
EXTENDS SessionCache, TLAPS

Holding(f, c) == f[c].hs # "none" /\ f[c].hasId

Held(t, f) ==
    \A c \in Conns : Holding(f, c) =>
        /\ f[c].sid.slot \in Slots
        /\ t[f[c].sid.slot].id = f[c].sid
        /\ t[f[c].sid.slot].cipher
        /\ t[f[c].sid.slot].inUse
        /\ \A d \in Conns : Holding(f, d) /\ f[d].sid.slot = f[c].sid.slot => d = c

Owned(t, f) ==
    \A i \in Slots : t[i].inUse => \E c \in Conns : Holding(f, c) /\ f[c].sid.slot = i

\* A connection has the secret of its session, or will get it from the
\* number of the handshake it is in.
Agreed(f) ==
    \A c \in Conns : Holding(f, c) =>
        IF f[c].hs = "key" THEN f[c].number = f[c].sid.serial
        ELSE f[c].secret = f[c].sid.serial

Stored(t, f) ==
    \A i \in Slots : t[i].cipher =>
        \/ t[i].secret = t[i].id.serial
        \/ \E c \in Conns : Holding(f, c) /\ f[c].hs = "key" /\ f[c].sid.slot = i

\* Where in the handshake a connection has no session yet: one that waits for
\* a hello, unless its hello was refused after its session was found.
Steady(f) ==
    \A c \in Conns :
        /\ f[c].hs = "hello" => ~f[c].hasId \/ f[c].error
        /\ f[c].needEncode =>
             /\ f[c].hs \in {"key", "finished"}
             /\ f[c].resumed \/ (f[c].hs = "key" /\ ~f[c].hasId)

Straight(t, f) ==
    Held(t, f) /\ Owned(t, f) /\ Agreed(f) /\ Stored(t, f) /\ Steady(f)

Typed(t, f) == t \in [Slots -> Entries] /\ f \in [Conns -> Connections]

\* A full handshake that goes on has its session.
HasSession(k) == ~k.resumed /\ (k.hasId \/ k.needEncode \/ k.error)
Keyed ==
    \A c \in Conns : conn[c].hs = "key" => HasSession(conn[c])

Inv == TypeOK /\ (orderly => Straight(table, conn) /\ Keyed)

-----------------------------------------------------------------------------
(* The slot of a new session is free. *)

LEMMA FreeSlotIsFree ==
    ASSUME NEW t
    PROVE  /\ FreeSlot(t) \in 0 .. Size
           /\ FreeSlot(t) # Size => /\ FreeSlot(t) \in Slots
                                    /\ ~t[FreeSlot(t)].cipher \/ ~t[FreeSlot(t)].inUse
<1>1. CASE FirstEmpty(t) # {}
  <2>1. PICK i \in FirstEmpty(t) : FreeSlot(t) = i
    BY <1>1 DEF FreeSlot
  <2> QED BY <2>1, SizeAssumption DEF FirstEmpty, Slots
<1>2. CASE FirstEmpty(t) = {} /\ LastOldest(t) # {}
  <2>1. PICK i \in LastOldest(t) : FreeSlot(t) = i
    BY <1>2 DEF FreeSlot
  <2> QED BY <2>1, SizeAssumption DEF LastOldest, Oldest, Unused, Slots
<1>3. CASE FirstEmpty(t) = {} /\ LastOldest(t) = {}
  BY <1>3, SizeAssumption DEF FreeSlot
<1> QED BY <1>1, <1>2, <1>3

-----------------------------------------------------------------------------
(* What each of the functions on the table keeps of Straight. *)

\* A connection without a session takes any value without a session.
LEMMA WithoutSession ==
    ASSUME NEW t, NEW f, Typed(t, f), Straight(t, f), NEW c \in Conns,
           ~Holding(f, c), NEW k \in Connections, ~k.hasId,
           k.needEncode => k.hs = "key" \/ (k.hs = "finished" /\ k.resumed)
    PROVE  Straight(t, [f EXCEPT ![c] = k])
BY DEF Typed, Straight, Held, Owned, Agreed, Stored, Steady, Holding

\* A connection goes on, or fails, with the session and the secret it has.
LEMMA GoesOn ==
    ASSUME NEW t, NEW f, Typed(t, f), Straight(t, f), NEW c \in Conns,
           NEW k \in Connections, k.hasId = f[c].hasId, k.sid = f[c].sid,
           k.secret = f[c].secret, k.number = f[c].number,
           f[c].error => k.error,
           \/ k.hs = f[c].hs
           \/ f[c].hs = "finished" /\ (k.hs = "done" \/ (k.hs = "hello" /\ k.error)),
           k.needEncode => f[c].needEncode /\ k.hs = f[c].hs /\ k.resumed = f[c].resumed
    PROVE  Straight(t, [f EXCEPT ![c] = k])
BY DEF Typed, Straight, Held, Owned, Agreed, Stored, Steady, Holding

LEMMA TouchedKeeps ==
    ASSUME NEW t, NEW f, Typed(t, f), Straight(t, f), NEW id \in Offers,
           now \in 0 .. MaxTime
    PROVE  Typed(Touched(t, id), f) /\ Straight(Touched(t, id), f)
BY DEF Typed, Touched, Entries, Straight, Held, Owned, Agreed, Stored, Steady, Holding

LEMMA ReleasedKeeps ==
    ASSUME NEW t, NEW f, Typed(t, f), Straight(t, f), NEW c \in Conns,
           f[c].hs = "done"
    PROVE  /\ Typed(Released(t, f[c]), [f EXCEPT ![c].hasId = FALSE])
           /\ Straight(Released(t, f[c]), [f EXCEPT ![c].hasId = FALSE])
<1> DEFINE u == Released(t, f[c])
           g == [f EXCEPT ![c].hasId = FALSE]
<1>0. t \in [Slots -> Entries] /\ f \in [Conns -> Connections] /\ f[c] \in Connections
  BY DEF Typed
<1>1. Typed(u, g)
  <2>1. [f[c] EXCEPT !.hasId = FALSE] \in Connections
    BY <1>0 DEF Connections
  <2>2. g = [f EXCEPT ![c] = [f[c] EXCEPT !.hasId = FALSE]]
    BY <1>0
  <2>3. g \in [Conns -> Connections]
    BY <1>0, <2>1, <2>2
  <2>4. ASSUME NEW i \in Slots PROVE [t EXCEPT ![i].inUse = FALSE] \in [Slots -> Entries]
    <3>1. t[i] \in Entries
      BY <1>0
    <3>2. [t[i] EXCEPT !.inUse = FALSE] \in Entries
      BY <3>1 DEF Entries
    <3> QED BY <1>0, <3>2
  <2>5. u \in [Slots -> Entries]
    BY <1>0, <2>4 DEF Released
  <2> QED BY <2>3, <2>5 DEF Typed
<1>a. ~g[c].hasId /\ \A d \in Conns : d # c => g[d] = f[d]
  BY <1>0 DEF Connections
<1>b. \A i \in Slots : /\ u[i].id = t[i].id /\ u[i].cipher = t[i].cipher
                       /\ u[i].inUse # t[i].inUse => f[c].hasId /\ i = f[c].sid.slot
  BY <1>0 DEF Released, Entries
<1>2. Held(u, g)
  BY <1>0, <1>a, <1>b DEF Straight, Held, Holding
<1>3. Owned(u, g)
  BY DEF Typed, Straight, Held, Owned, Holding, Released, Entries, Connections
<1>4. Agreed(g)
  BY DEF Typed, Straight, Agreed, Holding, Connections
<1>5. Stored(u, g)
  BY DEF Typed, Straight, Stored, Holding, Released, Entries, Connections
<1>6. Steady(g)
  BY DEF Typed, Straight, Steady, Connections
<1> QED BY <1>1, <1>2, <1>3, <1>4, <1>5, <1>6 DEF Straight

\* A table with one entry replaced.
LEMMA Replaced ==
    ASSUME NEW t \in [Slots -> Entries], NEW i \in Slots, NEW e \in Entries
    PROVE  /\ [t EXCEPT ![i] = e] \in [Slots -> Entries]
           /\ [t EXCEPT ![i] = e][i] = e
           /\ \A j \in Slots : j # i => [t EXCEPT ![i] = e][j] = t[j]
  OBVIOUS

LEMMA ConnReplaced ==
    ASSUME NEW f \in [Conns -> Connections], NEW c \in Conns, NEW k \in Connections
    PROVE  /\ [f EXCEPT ![c] = k] \in [Conns -> Connections]
           /\ [f EXCEPT ![c] = k][c] = k
           /\ \A d \in Conns : d # c => [f EXCEPT ![c] = k][d] = f[d]
  OBVIOUS

\* The entry that is not in use has no holder; a connection takes it.
LEMMA TakenOver ==
    ASSUME NEW t, NEW f, Typed(t, f), Straight(t, f), NEW c \in Conns,
           ~Holding(f, c), NEW i \in Slots, ~t[i].cipher \/ ~t[i].inUse,
           NEW e \in Entries, e.cipher, e.inUse, e.id.slot = i,
           NEW k \in Connections, k.hasId, k.sid = e.id,
           \/ k.hs = "key" /\ k.number = e.id.serial /\ ~k.needEncode
           \/ /\ k.hs = "finished" /\ k.resumed
              /\ e.secret = e.id.serial /\ k.secret = e.id.serial
    PROVE  /\ Typed([t EXCEPT ![i] = e], [f EXCEPT ![c] = k])
           /\ Straight([t EXCEPT ![i] = e], [f EXCEPT ![c] = k])
<1> DEFINE u == [t EXCEPT ![i] = e]
           g == [f EXCEPT ![c] = k]
<1>0. t \in [Slots -> Entries] /\ f \in [Conns -> Connections]
  BY DEF Typed
<1>1. u \in [Slots -> Entries] /\ u[i] = e /\ \A j \in Slots : j # i => u[j] = t[j]
  BY <1>0, Replaced
<1>2. g \in [Conns -> Connections] /\ g[c] = k /\ \A d \in Conns : d # c => g[d] = f[d]
  BY <1>0, ConnReplaced
<1> HIDE DEF u, g
<1>3. \A d \in Conns : Holding(f, d) => f[d].sid.slot # i
  BY DEF Straight, Held
<1>4. \A d \in Conns : d # c => (Holding(g, d) <=> Holding(f, d))
  BY <1>2 DEF Holding
<1>5. Holding(g, c) /\ g[c].sid.slot = i
  BY <1>2 DEF Holding
<1>6. Held(u, g)
  BY <1>1, <1>2, <1>3, <1>4, <1>5 DEF Straight, Held
<1>7. Owned(u, g)
  BY <1>1, <1>2, <1>3, <1>4, <1>5 DEF Straight, Owned
<1>8. Agreed(g)
  BY <1>1, <1>2, <1>3, <1>4, <1>5 DEF Straight, Agreed
<1>9. Stored(u, g)
  BY <1>1, <1>2, <1>3, <1>4, <1>5 DEF Straight, Stored
<1>10. Steady(g)
  BY <1>1, <1>2, <1>3, <1>4, <1>5 DEF Straight, Steady
<1> QED BY <1>1, <1>2, <1>6, <1>7, <1>8, <1>9, <1>10 DEF Typed, Straight, u, g

\* A connection that has a session replaces what its own entry holds.
LEMMA KeepsItsOwn ==
    ASSUME NEW t, NEW f, Typed(t, f), Straight(t, f), NEW c \in Conns,
           Holding(f, c), NEW i \in Slots, i = f[c].sid.slot,
           NEW e \in Entries, e.cipher, e.inUse, e.id = f[c].sid,
           NEW k \in Connections, k.hasId, k.sid = f[c].sid, ~k.needEncode,
           k.hs = "finished", k.secret = k.sid.serial, e.secret = k.sid.serial
    PROVE  /\ Typed([t EXCEPT ![i] = e], [f EXCEPT ![c] = k])
           /\ Straight([t EXCEPT ![i] = e], [f EXCEPT ![c] = k])
<1> DEFINE u == [t EXCEPT ![i] = e]
           g == [f EXCEPT ![c] = k]
<1>0. t \in [Slots -> Entries] /\ f \in [Conns -> Connections]
  BY DEF Typed
<1>1. u \in [Slots -> Entries] /\ u[i] = e /\ \A j \in Slots : j # i => u[j] = t[j]
  BY <1>0, Replaced
<1>2. g \in [Conns -> Connections] /\ g[c] = k /\ \A d \in Conns : d # c => g[d] = f[d]
  BY <1>0, ConnReplaced
<1> HIDE DEF u, g
<1>3. \A d \in Conns : Holding(f, d) /\ d # c => f[d].sid.slot # i
  BY DEF Straight, Held
<1>4. \A d \in Conns : d # c => (Holding(g, d) <=> Holding(f, d))
  BY <1>2 DEF Holding
<1>5. Holding(g, c) /\ g[c].sid.slot = i
  BY <1>2 DEF Holding
<1>6. Held(u, g)
  BY <1>1, <1>2, <1>3, <1>4, <1>5 DEF Straight, Held
<1>7. Owned(u, g)
  BY <1>1, <1>2, <1>3, <1>4, <1>5 DEF Straight, Owned
<1>8. Agreed(g)
  BY <1>1, <1>2, <1>3, <1>4, <1>5 DEF Straight, Agreed
<1>9. Stored(u, g)
  BY <1>1, <1>2, <1>3, <1>4, <1>5 DEF Straight, Stored
<1>10. Steady(g)
  BY <1>1, <1>2, <1>3, <1>4, <1>5 DEF Straight, Steady
<1> QED BY <1>1, <1>2, <1>6, <1>7, <1>8, <1>9, <1>10 DEF Typed, Straight, u, g

\* A connection that has a session gives its entry back: nobody has it, and
\* what it holds is gone or is the right secret.
LEMMA GivesBack ==
    ASSUME NEW t, NEW f, Typed(t, f), Straight(t, f), NEW c \in Conns,
           Holding(f, c), NEW i \in Slots, i = f[c].sid.slot,
           NEW e \in Entries, ~e.inUse, e.cipher => e.secret = e.id.serial,
           NEW k \in Connections, ~k.hasId, ~k.needEncode
    PROVE  /\ Typed([t EXCEPT ![i] = e], [f EXCEPT ![c] = k])
           /\ Straight([t EXCEPT ![i] = e], [f EXCEPT ![c] = k])
<1> DEFINE u == [t EXCEPT ![i] = e]
           g == [f EXCEPT ![c] = k]
<1>0. t \in [Slots -> Entries] /\ f \in [Conns -> Connections]
  BY DEF Typed
<1>1. u \in [Slots -> Entries] /\ u[i] = e /\ \A j \in Slots : j # i => u[j] = t[j]
  BY <1>0, Replaced
<1>2. g \in [Conns -> Connections] /\ g[c] = k /\ \A d \in Conns : d # c => g[d] = f[d]
  BY <1>0, ConnReplaced
<1> HIDE DEF u, g
<1>3. \A d \in Conns : Holding(f, d) /\ d # c => f[d].sid.slot # i
  BY DEF Straight, Held
<1>4. \A d \in Conns : d # c => (Holding(g, d) <=> Holding(f, d))
  BY <1>2 DEF Holding
<1>5. ~Holding(g, c)
  BY <1>2 DEF Holding
<1>6. Held(u, g)
  BY <1>1, <1>2, <1>3, <1>4, <1>5 DEF Straight, Held
<1>7. Owned(u, g)
  BY <1>1, <1>2, <1>3, <1>4, <1>5 DEF Straight, Owned
<1>8. Agreed(g)
  BY <1>1, <1>2, <1>3, <1>4, <1>5 DEF Straight, Agreed
<1>9. Stored(u, g)
  BY <1>1, <1>2, <1>3, <1>4, <1>5 DEF Straight, Stored
<1>10. Steady(g)
  BY <1>1, <1>2, <1>3, <1>4, <1>5 DEF Straight, Steady
<1> QED BY <1>1, <1>2, <1>6, <1>7, <1>8, <1>9, <1>10 DEF Typed, Straight, u, g

-----------------------------------------------------------------------------
(* Type correctness *)

LEMMA Records ==
    /\ ZeroId \in Ids
    /\ Whole(ZeroId) \in Offers
    /\ EmptyEntry \in Entries
    /\ NoConn \in Connections
<1>1. ZeroId \in Ids
  BY SizeAssumption, BoundsAssumption DEF ZeroId, Ids
<1>4. Whole(ZeroId) \in Offers
  BY <1>1 DEF ZeroId, Ids, Whole, Offers
<1>2. EmptyEntry \in Entries
  BY <1>1, BoundsAssumption DEF EmptyEntry, Entries
<1>3. NoConn \in Connections
  BY <1>1, BoundsAssumption DEF NoConn, Connections, Steps
<1> QED BY <1>1, <1>2, <1>3, <1>4

LEMMA TableTypes ==
    ASSUME TypeOK, NEW t \in [Slots -> Entries], NEW k \in Connections, NEW id \in Offers
    PROVE  /\ Released(t, k) \in [Slots -> Entries]
           /\ Touched(t, id) \in [Slots -> Entries]
           /\ HelloTable(t, id) \in [Slots -> Entries]
           /\ \A closed \in BOOLEAN : Updated(t, k, closed) \in [Slots -> Entries]
<1>1. ASSUME NEW i \in Slots, NEW u \in [Slots -> Entries], NEW b \in BOOLEAN
      PROVE  [u EXCEPT ![i].inUse = b] \in [Slots -> Entries]
  <2>1. [u[i] EXCEPT !.inUse = b] \in Entries
    BY DEF Entries
  <2> QED BY <2>1
<1>2. ASSUME NEW i \in Slots
      PROVE  [t EXCEPT ![i].access = now] \in [Slots -> Entries]
  <2>1. [t[i] EXCEPT !.access = now] \in Entries
    BY DEF Entries, TypeOK
  <2> QED BY <2>1
<1>3. Touched(t, id) \in [Slots -> Entries]
  BY <1>2 DEF Touched
<1>4. Released(t, k) \in [Slots -> Entries]
  BY <1>1 DEF Released
<1>5. HelloTable(t, id) \in [Slots -> Entries]
  BY <1>1, <1>3 DEF HelloTable, Resumable
<1>6. ASSUME NEW closed \in BOOLEAN
      PROVE  Updated(t, k, closed) \in [Slots -> Entries]
  <2>1. CASE k.sid.slot \notin Slots
    BY <2>1 DEF Updated
  <2>2. CASE k.sid.slot \in Slots
    <3> DEFINE i == k.sid.slot
               e == [t[i] EXCEPT !.inUse = ~closed,
                                 !.secret = IF k.error THEN 0 ELSE k.secret,
                                 !.cipher = ~k.error]
    <3>a. 0 \in 0 .. MaxHandshakes
      BY BoundsAssumption
    <3>b. t[i] \in Entries /\ (~closed) \in BOOLEAN /\ (~k.error) \in BOOLEAN
      BY <2>2
    <3>c. (IF k.error THEN 0 ELSE k.secret) \in 0 .. MaxHandshakes
      BY <3>a DEF Connections
    <3>1. e \in Entries
      BY <3>b, <3>c DEF Entries
    <3>2. Updated(t, k, closed) = [t EXCEPT ![i] = e]
      BY <2>2 DEF Updated
    <3> QED BY <2>2, <3>1, <3>2
  <2> QED BY <2>1, <2>2
<1> QED BY <1>3, <1>4, <1>5, <1>6

\* The entry a registration writes.
NewEntry(t, k, n) ==
    [cipher |-> TRUE, secret |-> k.secret, inUse |-> TRUE,
     id |-> [slot |-> FreeSlot(t), serial |-> n], start |-> now, access |-> now]

LEMMA RegisteredType ==
    ASSUME TypeOK, NEW t \in [Slots -> Entries], NEW k \in Connections,
           NEW n \in 0 .. MaxHandshakes, ~Refused(t)
    PROVE  /\ FreeSlot(t) \in Slots
           /\ ~t[FreeSlot(t)].cipher \/ ~t[FreeSlot(t)].inUse
           /\ NewEntry(t, k, n).id \in Ids
           /\ NewEntry(t, k, n) \in Entries
           /\ Registered(t, k, n) = [t EXCEPT ![FreeSlot(t)] = NewEntry(t, k, n)]
           /\ Registered(t, k, n) \in [Slots -> Entries]
<1>1. FreeSlot(t) \in Slots /\ (~t[FreeSlot(t)].cipher \/ ~t[FreeSlot(t)].inUse)
  BY FreeSlotIsFree DEF Refused
<1>2. NewEntry(t, k, n).id \in Ids
  BY <1>1, SizeAssumption DEF NewEntry, Ids, Slots
<1>3. NewEntry(t, k, n) \in Entries
  BY <1>2 DEF NewEntry, Entries, Connections, TypeOK
<1>4. Registered(t, k, n) = [t EXCEPT ![FreeSlot(t)] = NewEntry(t, k, n)]
  BY DEF Registered, NewEntry
<1> QED BY <1>1, <1>2, <1>3, <1>4

LEMMA HelloTypes ==
    ASSUME NEW t \in [Slots -> Entries], NEW k \in Connections, NEW id \in Offers
    PROVE  WithoutId(k) \in Connections /\ HelloConn(k, t, id) \in Connections
<1>1. WithoutId(k) \in Connections
  BY DEF WithoutId, Connections, Steps
<1>2. NotFound(k) \in Connections
  BY Records DEF NotFound, Connections, Steps
<1>3. ASSUME Resumable(t, id) PROVE Found(k, t, id) \in Connections
  <2>1. t[id.slot].secret \in 0 .. MaxHandshakes /\ t[id.slot].id \in Ids
    BY <1>3 DEF Resumable, Entries
  <2> QED BY <2>1 DEF Found, Connections, Steps
<1> QED BY <1>1, <1>2, <1>3 DEF HelloConn

LEMMA OfferedType == TypeOK => Offered \subseteq Offers
<1> SUFFICES ASSUME TypeOK PROVE Offered \subseteq Offers
  OBVIOUS
<1>1. \A id \in Ids : Whole(id) \in Offers
  BY DEF Ids, Whole, Offers
<1>2. \A i \in 0 .. Size : [slot |-> i, serial |-> 0] \in Ids
  BY BoundsAssumption DEF Ids
<1>3. \A i \in Slots : table[i].id \in Ids
  BY DEF TypeOK, Entries
<1>4. \A c \in Conns : conn[c].sid \in Ids
  BY DEF TypeOK, Connections
<1>5. [slot : 0 .. Size, serial : 0 .. made, short : {TRUE}] \subseteq Offers
  <2>1. 0 .. made \subseteq 0 .. MaxHandshakes
    BY BoundsAssumption DEF TypeOK
  <2>2. {TRUE} \subseteq BOOLEAN
    OBVIOUS
  <2> QED BY <2>1, <2>2 DEF Offers
<1> QED BY <1>1, <1>2, <1>3, <1>4, <1>5 DEF Offered

LEMMA AnswerType ==
    ASSUME TypeOK, NEW c \in Conns, NEW t \in [Slots -> Entries],
           NEW k \in Connections, ServerHello(c, t, k) \/ Answer(c, t, k), now' = now
    PROVE  TypeOK'
<1>1. [k EXCEPT !.needEncode = FALSE] \in Connections
      /\ [k EXCEPT !.needEncode = TRUE] \in Connections
  BY DEF Connections
<1>2. CASE ServerHello(c, t, k)
  <2>1. CASE k.resumed
    BY <1>1, <1>2, <2>1 DEF ServerHello, TypeOK
  <2>2. CASE ~k.resumed
    <3> DEFINE n == made + 1
    <3>1. n \in 0 .. MaxHandshakes /\ made' = n
      BY <1>2, <2>2, BoundsAssumption DEF ServerHello, TypeOK
    <3>2. CASE Refused(t)
      <4>1. [k EXCEPT !.number = n, !.needEncode = FALSE] \in Connections
        BY <3>1 DEF Connections
      <4> QED BY <1>2, <2>2, <3>1, <3>2, <4>1 DEF ServerHello, TypeOK
    <3>3. CASE ~Refused(t)
      <4>1. [k EXCEPT !.number = n, !.needEncode = FALSE, !.hasId = TRUE,
                      !.sid = [slot |-> FreeSlot(t), serial |-> n]] \in Connections
        BY <3>1, <3>3, RegisteredType DEF Connections, NewEntry
      <4>2. Registered(t, k, n) \in [Slots -> Entries]
        BY <3>1, <3>3, RegisteredType
      <4> QED BY <1>2, <2>2, <3>1, <3>3, <4>1, <4>2 DEF ServerHello, TypeOK
    <3> QED BY <3>2, <3>3
  <2> QED BY <2>1, <2>2
<1>3. CASE ~ServerHello(c, t, k)
  BY <1>1, <1>3 DEF Answer, TypeOK
<1> QED BY <1>2, <1>3

LEMMA NextType == TypeOK /\ [Next]_vars => TypeOK'
<1> SUFFICES ASSUME TypeOK, [Next]_vars PROVE TypeOK'
  OBVIOUS
<1>0. table \in [Slots -> Entries] /\ \A c \in Conns : conn[c] \in Connections
  BY DEF TypeOK
<1>1. ASSUME NEW c \in Conns, NewSession(c) PROVE TypeOK'
  <2>1. [NoConn EXCEPT !.hs = "hello"] \in Connections
    BY Records DEF Connections, Steps
  <2> QED BY <1>1, <2>1 DEF NewSession, TypeOK
<1>2. ASSUME NEW c \in Conns PROVE BeforeHello(c) \in [Slots -> Entries]
  BY <1>0, TableTypes, Records DEF BeforeHello
<1>3. ASSUME NEW c \in Conns, FreshHello(c) PROVE TypeOK'
  BY <1>0, <1>2, <1>3, HelloTypes, AnswerType, Records DEF FreshHello
<1>4. ASSUME NEW c \in Conns, Retry(c) PROVE TypeOK'
  BY <1>0, <1>4, AnswerType DEF Retry
<1>a. ASSUME NEW c \in Conns, NEW t \in [Slots -> Entries], NEW k \in Connections,
             Failed(c, t, k)
      PROVE  TypeOK'
  <2>1. [k EXCEPT !.error = TRUE, !.agreed = FALSE, !.hs = "hello"] \in Connections
    BY DEF Connections, Steps
  <2> QED BY <1>a, <2>1 DEF Failed, TypeOK
<1>b. ASSUME NEW c \in Conns, FreshFailed(c) PROVE TypeOK'
  BY <1>0, <1>2, <1>a, <1>b, HelloTypes, Records DEF FreshFailed
<1>5. ASSUME NEW c \in Conns, NEW id \in Offered,
             ResumingHello(c, id) \/ ResumingFailed(c, id)
      PROVE  TypeOK'
  <2>0. id \in Offers
    BY OfferedType
  <2> DEFINE t == BeforeHello(c)
             k == HelloConn(conn[c], t, id)
  <2>1. t \in [Slots -> Entries] /\ HelloTable(t, id) \in [Slots -> Entries]
        /\ k \in Connections
    BY <1>0, <1>2, <2>0, TableTypes, HelloTypes
  <2>2. CASE ResumingHello(c, id)
    BY <2>1, <2>2, AnswerType DEF ResumingHello
  <2>3. CASE ResumingFailed(c, id)
    BY <1>a, <2>1, <2>3 DEF ResumingFailed
  <2> QED BY <1>5, <2>2, <2>3
<1>6. ASSUME NEW c \in Conns, HelloRefused(c) PROVE TypeOK'
  <2>1. [conn[c] EXCEPT !.error = TRUE, !.hs = "hello"] \in Connections
    BY <1>0 DEF Connections, Steps
  <2>2. conn' = [conn EXCEPT ![c] = [conn[c] EXCEPT !.error = TRUE, !.hs = "hello"]]
    BY <1>6 DEF HelloRefused, TypeOK
  <2>3. orderly' \in BOOLEAN
    BY <1>6 DEF HelloRefused, TypeOK
  <2> QED BY <1>2, <1>6, <2>1, <2>2, <2>3 DEF HelloRefused, TypeOK
<1>c. ASSUME NEW c \in Conns, IdRefused(c) PROVE TypeOK'
  <2> DEFINE k == [conn[c] EXCEPT !.error = TRUE, !.hs = "hello", !.hasId = TRUE]
  <2>1. k \in Connections
    BY <1>0 DEF Connections, Steps
  <2>2. conn' = [conn EXCEPT ![c] = k]
    BY <1>c DEF IdRefused, TypeOK
  <2> QED BY <1>2, <1>c, <2>1, <2>2 DEF IdRefused, TypeOK
<1>7. ASSUME NEW c \in Conns, ClientKeyExchange(c) PROVE TypeOK'
  <2>1. [conn[c] EXCEPT !.secret = conn[c].number, !.number = 0, !.hs = "finished"]
          \in Connections
    <3>1. 0 \in 0 .. MaxHandshakes
      BY BoundsAssumption
    <3>2. conn[c].number \in 0 .. MaxHandshakes
      BY <1>0 DEF Connections
    <3> QED BY <1>0, <3>1, <3>2 DEF Connections, Steps
  <2> QED BY <1>0, <1>7, <2>1, TableTypes, Records DEF ClientKeyExchange, TypeOK
<1>8. ASSUME NEW c \in Conns, Finished(c) PROVE TypeOK'
  <2>1. [conn[c] EXCEPT !.hs = "done", !.agreed = FALSE] \in Connections
    BY <1>0 DEF Connections, Steps
  <2>2. conn' = [conn EXCEPT ![c] = [conn[c] EXCEPT !.hs = "done", !.agreed = FALSE]]
    BY <1>8 DEF Finished, TypeOK
  <2> QED BY <1>8, <2>1, <2>2 DEF Finished, TypeOK
<1>9. ASSUME NEW c \in Conns, Fail(c) PROVE TypeOK'
  <2>1. [conn[c] EXCEPT !.error = TRUE, !.agreed = FALSE] \in Connections
    BY <1>0 DEF Connections, Steps
  <2>2. conn' = [conn EXCEPT ![c] = [conn[c] EXCEPT !.error = TRUE, !.agreed = FALSE]]
    BY <1>9 DEF Fail, TypeOK
  <2> QED BY <1>9, <2>1, <2>2 DEF Fail, TypeOK
<1>10. ASSUME NEW c \in Conns, DeleteSession(c) PROVE TypeOK'
  <2>1. table' \in [Slots -> Entries]
    BY <1>0, <1>10, TableTypes, Records DEF DeleteSession
  <2>2. orderly' \in BOOLEAN
    BY <1>10 DEF DeleteSession, TypeOK
  <2> QED BY <1>10, <2>1, <2>2, Records DEF DeleteSession, TypeOK
<1>11. ASSUME NEW c \in Conns, DeleteOption(c) PROVE TypeOK'
  <2>1. [conn[c] EXCEPT !.sid = ZeroId, !.hasId = FALSE,
                        !.resumed = @ /\ ~conn[c].hasId] \in Connections
    BY <1>0, Records DEF Connections
  <2>2. conn' = [conn EXCEPT ![c] = [conn[c] EXCEPT !.sid = ZeroId, !.hasId = FALSE,
                                         !.resumed = @ /\ ~conn[c].hasId]]
    BY <1>11 DEF DeleteOption, TypeOK
  <2> QED BY <1>11, <2>1, <2>2, Records DEF DeleteOption, TypeOK
<1>12. ASSUME NEW c \in Conns, ResumptionFlag(c) PROVE TypeOK'
  <2>1. [table[conn[c].sid.slot] EXCEPT !.inUse = TRUE] \in Entries
    BY <1>0, <1>12 DEF ResumptionFlag, Entries
  <2>2. orderly' \in BOOLEAN
    BY <1>12 DEF ResumptionFlag, TypeOK
  <2> QED BY <1>12, <2>1, <2>2 DEF ResumptionFlag, TypeOK
<1>13. CASE Tick
  BY <1>13, BoundsAssumption DEF Tick, TypeOK
<1>14. CASE UNCHANGED vars
  BY <1>14 DEF vars, TypeOK
<1> QED BY <1>1, <1>3, <1>4, <1>5, <1>6, <1>7, <1>8, <1>9, <1>10, <1>11, <1>12,
           <1>13, <1>14, <1>b, <1>c DEF Next

LEMMA InitType == Init => TypeOK
<1> SUFFICES ASSUME Init PROVE TypeOK
  OBVIOUS
<1>1. table \in [Slots -> Entries] /\ conn \in [Conns -> Connections]
  BY Records DEF Init
<1> QED BY <1>1, BoundsAssumption DEF Init, TypeOK

\* The state of the table and of the connections has its type, disorder or
\* not: in particular every slot written is in the table.
THEOREM TypeCorrect == Spec => []TypeOK
  BY InitType, NextType, PTL DEF Spec

-----------------------------------------------------------------------------
(* The table and the connections stay straight. *)

\* The answers that are possible while the table is in order: the connection
\* k of f is answered with what the table t has for it.
Answered(t, f, c, k) ==
    \/ conn' = [f EXCEPT ![c] = [k EXCEPT !.needEncode = TRUE]] /\ table' = t
    \/ /\ k.resumed /\ table' = t
       /\ conn' = [f EXCEPT ![c] = [k EXCEPT !.needEncode = FALSE]]
    \/ /\ ~k.resumed /\ ~Refused(t) /\ made < MaxHandshakes
       /\ table' = Registered(t, k, made + 1)
       /\ conn' = [f EXCEPT ![c] = [k EXCEPT
             !.number = made + 1, !.needEncode = FALSE, !.hasId = TRUE,
             !.sid = [slot |-> FreeSlot(t), serial |-> made + 1]]]

\* Answering: either the connection k stays as it is, without a slot, or an
\* entry is registered for it.
LEMMA AnswerStraight ==
    ASSUME TypeOK, NEW c \in Conns, NEW t, NEW f, Typed(t, f), Straight(t, f),
           NEW k \in Connections, f[c] = k,
           ~k.resumed => k.hs = "key" /\ ~k.hasId,
           k.hs \in {"key", "finished"},
           Answered(t, f, c, k)
    PROVE  Straight(table', conn')
<1>0. t \in [Slots -> Entries] /\ f \in [Conns -> Connections]
  BY DEF Typed
<1>a. /\ [k EXCEPT !.needEncode = FALSE] \in Connections
      /\ [k EXCEPT !.needEncode = TRUE] \in Connections
  BY DEF Connections
<1>1. CASE conn' = [f EXCEPT ![c] = [k EXCEPT !.needEncode = TRUE]] /\ table' = t
  <2> DEFINE h == [k EXCEPT !.needEncode = TRUE]
  <2>1. /\ h.hs = k.hs /\ h.hasId = k.hasId /\ h.sid = k.sid /\ h.secret = k.secret
        /\ h.number = k.number /\ h.resumed = k.resumed /\ h.needEncode
    BY DEF Connections
  <2>2. [f EXCEPT ![c] = h][c] = h /\ \A d \in Conns : d # c => [f EXCEPT ![c] = h][d] = f[d]
    BY <1>0
  <2> HIDE DEF h
  <2>3. \A d \in Conns : Holding([f EXCEPT ![c] = h], d) <=> Holding(f, d)
    BY <2>1, <2>2 DEF Holding
  <2> DEFINE g == [f EXCEPT ![c] = h]
  <2>g. g[c] = h /\ \A d \in Conns : d # c => g[d] = f[d]
    BY <2>2
  <2>h. \A d \in Conns : Holding(g, d) <=> Holding(f, d)
    BY <2>3
  <2> HIDE DEF g
  <2>s. \A d \in Conns : /\ g[d].sid = f[d].sid /\ g[d].hs = f[d].hs
                        /\ g[d].number = f[d].number /\ g[d].secret = f[d].secret
    BY <2>1, <2>g
  <2>4. Held(t, g)
    BY <2>h, <2>s DEF Straight, Held
  <2>5. Owned(t, g)
    BY <2>h, <2>s DEF Straight, Owned
  <2>6. Agreed(g)
    BY <2>h, <2>s DEF Straight, Agreed
  <2>7. Stored(t, g)
    BY <2>h, <2>s DEF Straight, Stored
  <2>8. Steady(g)
    BY <2>1, <2>g DEF Straight, Steady
  <2> QED BY <1>1, <2>4, <2>5, <2>6, <2>7, <2>8 DEF Straight, g, h
<1>2. CASE /\ k.resumed /\ table' = t
           /\ conn' = [f EXCEPT ![c] = [k EXCEPT !.needEncode = FALSE]]
  <2> DEFINE h == [k EXCEPT !.needEncode = FALSE]
  <2>1. /\ h.hs = k.hs /\ h.hasId = k.hasId /\ h.sid = k.sid /\ h.secret = k.secret
        /\ h.number = k.number /\ h.resumed = k.resumed /\ ~h.needEncode
        /\ h.error = k.error
    BY DEF Connections
  <2>2. Straight(t, [f EXCEPT ![c] = h])
    BY <1>a, <2>1, GoesOn
  <2> QED BY <1>2, <2>2
<1>3. CASE /\ ~k.resumed /\ ~Refused(t) /\ made < MaxHandshakes
           /\ table' = Registered(t, k, made + 1)
           /\ conn' = [f EXCEPT ![c] = [k EXCEPT
                    !.number = made + 1, !.needEncode = FALSE, !.hasId = TRUE,
                    !.sid = [slot |-> FreeSlot(t), serial |-> made + 1]]]
  <2> DEFINE n == made + 1
             i == FreeSlot(t)
             e == NewEntry(t, k, n)
             h == [k EXCEPT !.number = n, !.needEncode = FALSE, !.hasId = TRUE,
                            !.sid = [slot |-> i, serial |-> n]]
  <2>1. n \in 0 .. MaxHandshakes
    BY <1>3, BoundsAssumption DEF TypeOK
  <2>2. /\ i \in Slots /\ (~t[i].cipher \/ ~t[i].inUse)
        /\ e.id \in Ids /\ e \in Entries
        /\ Registered(t, k, n) = [t EXCEPT ![i] = e]
    BY <1>0, <1>3, <2>1, RegisteredType
  <2>3. e.cipher /\ e.inUse /\ e.id = [slot |-> i, serial |-> n]
    BY DEF NewEntry
  <2>4. h \in Connections /\ h.hasId /\ h.sid = e.id /\ ~h.needEncode
        /\ h.hs = k.hs /\ h.number = n
    <3>1. [slot |-> i, serial |-> n] \in Ids
      BY <2>2, <2>3
    <3> QED BY <2>1, <2>3, <3>1 DEF Connections
  <2>5. k.hs = "key" /\ ~Holding(f, c)
    BY <1>3 DEF Holding
  <2> HIDE DEF e, h, i, n
  <2>6. e.id.slot = i /\ e.id.serial = n
    BY <2>3
  <2>7. Straight([t EXCEPT ![i] = e], [f EXCEPT ![c] = h])
    BY <2>2, <2>3, <2>4, <2>5, <2>6, TakenOver
  <2> QED BY <1>3, <2>2, <2>7 DEF h, i, n
<1> QED BY <1>1, <1>2, <1>3 DEF Answered

\* Before a hello is read the old session is given back.
LEMMA BeforeHelloStraight ==
    ASSUME TypeOK, Straight(table, conn), NEW c \in Conns, MayDecode(c, {"hello", "done"})
    PROVE  LET f == [conn EXCEPT ![c].hasId = FALSE]
           IN  Typed(BeforeHello(c), f) /\ Straight(BeforeHello(c), f)
<1>1. Typed(table, conn)
  BY DEF TypeOK, Typed
<1>2. CASE conn[c].hs = "done"
  BY <1>1, <1>2, ReleasedKeeps DEF BeforeHello
<1>3. CASE conn[c].hs = "hello"
  <2>1. ~conn[c].hasId
    BY <1>3 DEF Straight, Steady, MayDecode
  <2>2. [conn EXCEPT ![c].hasId = FALSE] = conn
    <3>1. conn \in [Conns -> Connections] /\ conn[c] \in Connections
      BY DEF TypeOK
    <3>2. [conn[c] EXCEPT !.hasId = FALSE] = conn[c]
      BY <2>1, <3>1 DEF Connections
    <3> QED BY <3>1, <3>2
  <2> QED BY <1>1, <1>3, <2>2 DEF BeforeHello
<1> QED BY <1>2, <1>3 DEF MayDecode

\* A hello without an id, or with one that is looked up.
LEMMA HelloStraight ==
    ASSUME TypeOK, NEW c \in Conns, NEW t, NEW f, Typed(t, f), Straight(t, f),
           ~Holding(f, c), NEW k \in Connections, NEW id \in Offers, ~k.needEncode
    PROVE  LET g == [f EXCEPT ![c] = WithoutId(k)]
               h == [f EXCEPT ![c] = HelloConn(k, t, id)]
           IN  /\ Typed(t, g) /\ Straight(t, g)
               /\ Typed(HelloTable(t, id), h) /\ Straight(HelloTable(t, id), h)
<1>0. t \in [Slots -> Entries] /\ f \in [Conns -> Connections] /\ now \in 0 .. MaxTime
  BY DEF Typed, TypeOK
<1>1. /\ WithoutId(k) \in Connections /\ HelloConn(k, t, id) \in Connections
      /\ HelloTable(t, id) \in [Slots -> Entries]
  BY <1>0, HelloTypes, TableTypes
<1>2. /\ Typed(t, [f EXCEPT ![c] = WithoutId(k)])
      /\ Typed(HelloTable(t, id), [f EXCEPT ![c] = HelloConn(k, t, id)])
  BY <1>0, <1>1 DEF Typed
<1>3. Straight(t, [f EXCEPT ![c] = WithoutId(k)])
  <2>1. ~WithoutId(k).hasId /\ ~WithoutId(k).needEncode
    BY DEF WithoutId, Connections
  <2> QED BY <1>1, <2>1, WithoutSession
<1>4. Typed(Touched(t, id), f) /\ Straight(Touched(t, id), f)
  BY <1>0, TouchedKeeps
<1>5. CASE ~Resumable(t, id)
  <2>1. HelloConn(k, t, id) = NotFound(k) /\ HelloTable(t, id) = Touched(t, id)
    BY <1>5 DEF HelloConn, HelloTable
  <2>2. ~NotFound(k).hasId /\ ~NotFound(k).needEncode
    BY DEF NotFound, Connections
  <2> QED BY <1>1, <1>2, <1>3, <1>4, <2>1, <2>2, WithoutSession
<1>6. CASE Resumable(t, id)
  <2> DEFINE i == id.slot
             e == [t[i] EXCEPT !.access = now, !.inUse = TRUE]
             h == Found(k, t, id)
  <2>1. /\ i \in Slots /\ t[i].cipher /\ t[i].id.slot = i /\ ~t[i].inUse
    BY <1>6 DEF Resumable
  <2>2. e \in Entries /\ e.cipher /\ e.inUse /\ e.id = t[i].id /\ e.secret = t[i].secret
    <3>1. t[i] \in Entries
      BY <1>0, <2>1
    <3> QED BY <1>0, <2>1, <3>1 DEF Entries
  <2>3. HelloTable(t, id) = [t EXCEPT ![i] = e]
    BY <1>0, <1>6, <2>1 DEF HelloTable, Touched, Entries
  <2>4. t[i].secret = t[i].id.serial
    BY <2>1 DEF Straight, Stored, Held
  <2>5. /\ h \in Connections /\ h.hasId /\ h.sid = t[i].id /\ h.hs = "finished"
        /\ h.resumed /\ h.secret = t[i].secret
    BY <1>1, <1>6 DEF HelloConn, Found, Connections
  <2>6. HelloConn(k, t, id) = h
    BY <1>6 DEF HelloConn
  <2> HIDE DEF e, h, i
  <2>7. e.id.slot = i /\ e.secret = e.id.serial /\ h.secret = e.id.serial /\ h.sid = e.id
    BY <2>1, <2>2, <2>4, <2>5
  <2>8. Straight([t EXCEPT ![i] = e], [f EXCEPT ![c] = h])
    BY <2>1, <2>2, <2>5, <2>7, TakenOver
  <2> QED BY <1>2, <1>3, <2>3, <2>6, <2>8
<1> QED BY <1>5, <1>6

LEMMA Replaces ==
    ASSUME NEW f \in [Conns -> Connections], NEW c \in Conns, NEW k
    PROVE  [[f EXCEPT ![c].hasId = FALSE] EXCEPT ![c] = k] = [f EXCEPT ![c] = k]
  OBVIOUS

\* In order, the refusal of a registration is no case.
LEMMA AnswerCases ==
    ASSUME orderly', NEW c \in Conns, NEW t, NEW k, NEW f,
           Answer(c, t, k), \A x : [f EXCEPT ![c] = x] = [conn EXCEPT ![c] = x]
    PROVE  Answered(t, f, c, k)
<1>1. CASE ServerHello(c, t, k)
  BY <1>1 DEF ServerHello, Answered
<1>2. CASE ~ServerHello(c, t, k)
  BY <1>2 DEF Answer, Answered
<1> QED BY <1>1, <1>2

LEMMA HelloStepStraight ==
    ASSUME TypeOK, Straight(table, conn), orderly', NEW c \in Conns, NEW id \in Offers,
           \/ FreshHello(c) \/ ResumingHello(c, id)
           \/ FreshFailed(c) \/ ResumingFailed(c, id)
    PROVE  Straight(table', conn')
<1> DEFINE t == BeforeHello(c)
           f == [conn EXCEPT ![c].hasId = FALSE]
           u == HelloTable(t, id)
           k == WithoutId(conn[c])
           h == HelloConn(conn[c], t, id)
           g1 == [conn EXCEPT ![c] = k]
           g2 == [conn EXCEPT ![c] = h]
<1>0. conn \in [Conns -> Connections] /\ conn[c] \in Connections
  BY DEF TypeOK
<1>1. MayDecode(c, {"hello", "done"}) /\ ~conn[c].needEncode
  BY DEF FreshHello, ResumingHello, FreshFailed, ResumingFailed, Failed, MayDecode
<1>2. Typed(t, f) /\ Straight(t, f)
  BY <1>1, BeforeHelloStraight
<1>3. ~Holding(f, c)
  BY <1>0 DEF Holding, Connections
<1>4. [f EXCEPT ![c] = k] = g1 /\ [f EXCEPT ![c] = h] = g2
  BY <1>0, Replaces
<1>5. Typed(t, g1) /\ Straight(t, g1) /\ Typed(u, g2) /\ Straight(u, g2)
  <2> HIDE DEF t, f
  <2> QED BY <1>0, <1>1, <1>2, <1>3, <1>4, HelloStraight
<1>6. k \in Connections /\ h \in Connections
  BY <1>0, <1>2, HelloTypes DEF Typed
<1>7. /\ k.hs = "key" /\ ~k.hasId /\ ~k.resumed /\ ~k.needEncode
      /\ h.hs \in {"key", "finished"} /\ ~h.needEncode
      /\ ~h.resumed => h.hs = "key" /\ ~h.hasId
      /\ h.hasId => h.hs = "finished"
  BY <1>0, <1>1 DEF WithoutId, HelloConn, Found, NotFound, Connections
<1>8. g1[c] = k /\ g2[c] = h
  BY <1>0
<1>9. \A x : /\ [g1 EXCEPT ![c] = x] = [conn EXCEPT ![c] = x]
             /\ [g2 EXCEPT ![c] = x] = [conn EXCEPT ![c] = x]
  BY <1>0
<1> HIDE DEF t, f, u, k, h, g1, g2
<1>10. CASE FreshHello(c)
  <2>1. Answer(c, t, k)
    BY <1>10 DEF FreshHello, t, k
  <2>2. Answered(t, g1, c, k)
    BY <1>9, <2>1, AnswerCases
  <2> QED BY <1>5, <1>6, <1>7, <1>8, <2>2, AnswerStraight
<1>11. CASE ResumingHello(c, id)
  <2>1. Answer(c, u, h)
    BY <1>11 DEF ResumingHello, t, u, h
  <2>2. Answered(u, g2, c, h)
    BY <1>9, <2>1, AnswerCases
  <2> QED BY <1>5, <1>6, <1>7, <1>8, <2>2, AnswerStraight
\* The connection x fails, with or without a session.
<1>a. ASSUME NEW y, NEW g, NEW x \in Connections, Typed(y, g), Straight(y, g), g[c] = x,
             ~x.needEncode, x.hasId => x.hs = "finished",
             \A z : [g EXCEPT ![c] = z] = [conn EXCEPT ![c] = z], Failed(c, y, x)
      PROVE  Straight(table', conn')
  <2> DEFINE e == [x EXCEPT !.error = TRUE, !.agreed = FALSE, !.hs = "hello"]
  <2>1. table' = y /\ conn' = [g EXCEPT ![c] = e]
    BY <1>a DEF Failed
  <2>2. /\ e \in Connections /\ e.hasId = x.hasId /\ e.sid = x.sid
        /\ e.secret = x.secret /\ e.number = x.number /\ e.hs = "hello"
        /\ ~e.needEncode /\ e.error
    BY <1>a DEF Connections, Steps
  <2> HIDE DEF e
  <2>3. CASE x.hasId
    BY <1>a, <2>1, <2>2, <2>3, GoesOn
  <2>4. CASE ~x.hasId
    BY <1>a, <2>1, <2>2, <2>4, WithoutSession DEF Holding
  <2> QED BY <2>3, <2>4
<1>12. CASE FreshFailed(c)
  <2>1. Failed(c, t, k)
    BY <1>12 DEF FreshFailed, t, k
  <2> QED BY <1>5, <1>6, <1>7, <1>8, <1>9, <1>a, <2>1
<1>13. CASE ResumingFailed(c, id)
  <2>1. Failed(c, u, h)
    BY <1>13 DEF ResumingFailed, t, u, h
  <2> QED BY <1>5, <1>6, <1>7, <1>8, <1>9, <1>a, <2>1
<1> QED BY <1>10, <1>11, <1>12, <1>13

LEMMA CallStraight ==
    ASSUME TypeOK, TypeOK', Straight(table, conn), Keyed, orderly', NEW c \in Conns,
           \/ NewSession(c) \/ Retry(c) \/ HelloRefused(c)
           \/ ClientKeyExchange(c) \/ Finished(c) \/ Fail(c)
           \/ DeleteSession(c) \/ DeleteOption(c) \/ ResumptionFlag(c)
    PROVE  Straight(table', conn')
<1>0. /\ conn \in [Conns -> Connections] /\ conn[c] \in Connections
      /\ table \in [Slots -> Entries] /\ Typed(table, conn)
  BY DEF TypeOK, Typed
<1> DEFINE i == conn[c].sid.slot
<1>i. ASSUME conn[c].hasId, conn[c].hs # "none"
      PROVE  /\ Holding(conn, c) /\ i \in Slots /\ table[i] \in Entries
             /\ table[i].id = conn[c].sid /\ table[i].inUse /\ table[i].cipher
             /\ IF conn[c].hs = "key" THEN conn[c].number = conn[c].sid.serial
                ELSE conn[c].secret = conn[c].sid.serial
  BY <1>0, <1>i DEF Holding, Straight, Held, Agreed
<1> HIDE DEF i
<1>1. CASE NewSession(c)
  <2>1. [NoConn EXCEPT !.hs = "hello"] \in Connections
    BY Records DEF Connections, Steps
  <2>2. ~Holding(conn, c)
    BY <1>1 DEF NewSession, Holding
  <2> QED BY <1>0, <1>1, <2>1, <2>2, WithoutSession DEF NewSession, NoConn
<1>2. CASE Retry(c)
  <2>1. /\ conn[c].hs \in {"key", "finished"}
        /\ ~conn[c].resumed => conn[c].hs = "key" /\ ~conn[c].hasId
    BY <1>2 DEF Retry, Straight, Steady
  <2> QED BY <1>0, <1>2, <2>1, AnswerStraight DEF Retry, ServerHello, Answered
<1>3. CASE HelloRefused(c)
  <2> DEFINE e == [conn[c] EXCEPT !.error = TRUE, !.hs = "hello"]
  <2>1. ~conn[c].hasId /\ ~conn[c].needEncode
    BY <1>3 DEF HelloRefused, MayDecode
  <2>2. table' = table
    BY <1>3, <2>1 DEF HelloRefused, BeforeHello, Released
  <2>3. e \in Connections /\ ~e.hasId /\ ~e.needEncode
    BY <1>0, <2>1 DEF Connections, Steps
  <2>4. conn' = [conn EXCEPT ![c] = e]
    BY <1>0, <1>3 DEF HelloRefused
  <2> QED BY <1>0, <2>1, <2>2, <2>3, <2>4, WithoutSession DEF Holding
<1>4. CASE ClientKeyExchange(c)
  <2> DEFINE k == [conn[c] EXCEPT !.secret = conn[c].number, !.number = 0,
                                  !.hs = "finished"]
             e == [table[i] EXCEPT !.inUse = TRUE, !.secret = k.secret, !.cipher = TRUE]
  <2>1. k \in Connections
    <3>1. conn'[c] = k
      BY <1>0, <1>4 DEF ClientKeyExchange
    <3> QED BY <3>1 DEF TypeOK
  <2>2. /\ conn' = [conn EXCEPT ![c] = k] /\ table' = Updated(table, k, FALSE)
        /\ conn[c].hs = "key" /\ ~conn[c].error /\ ~conn[c].needEncode
    BY <1>4 DEF ClientKeyExchange, MayDecode
  <2>3. /\ k.hs = "finished" /\ k.secret = conn[c].number /\ k.sid = conn[c].sid
        /\ k.hasId = conn[c].hasId /\ ~k.needEncode /\ ~k.error
    BY <1>0, <2>2 DEF Connections
  <2>4. conn[c].hasId
    BY <2>2 DEF Keyed, HasSession
  <2>5. k.secret \in 0 .. MaxHandshakes
    BY <2>1 DEF Connections
  <2>6. /\ e \in Entries /\ e.cipher /\ e.inUse /\ e.id = conn[c].sid
        /\ e.secret = k.secret
    <3> HIDE DEF k
    <3> QED BY <1>i, <2>2, <2>4, <2>5 DEF Entries
  <2>7. table' = [table EXCEPT ![i] = e]
    <3>1. k.sid.slot = i /\ i \in Slots /\ ~k.error
      BY <1>i, <2>2, <2>3, <2>4 DEF i
    <3>2. (IF k.error THEN 0 ELSE k.secret) = k.secret /\ (~k.error) = TRUE /\ (~FALSE) = TRUE
      BY <3>1
    <3> HIDE DEF k
    <3> QED BY <2>2, <3>1, <3>2 DEF Updated
  <2> HIDE DEF e, k
  <2>8. Straight([table EXCEPT ![i] = e], [conn EXCEPT ![c] = k])
    BY <1>0, <1>i, <2>1, <2>2, <2>3, <2>4, <2>6, KeepsItsOwn DEF i
  <2> QED BY <2>2, <2>7, <2>8
<1>5. CASE Finished(c)
  <2> DEFINE k == [conn[c] EXCEPT !.hs = "done", !.agreed = FALSE]
  <2>1. /\ k \in Connections /\ k.hs = "done" /\ k.hasId = conn[c].hasId
        /\ k.sid = conn[c].sid /\ k.secret = conn[c].secret /\ k.number = conn[c].number
        /\ k.error = conn[c].error /\ k.needEncode = conn[c].needEncode
    BY <1>0 DEF Connections, Steps
  <2>2. /\ conn' = [conn EXCEPT ![c] = k] /\ table' = table
        /\ conn[c].hs = "finished" /\ ~conn[c].needEncode
    BY <1>0, <1>5 DEF Finished, MayDecode
  <2> HIDE DEF k
  <2> QED BY <1>0, <2>1, <2>2, GoesOn
<1>6. CASE Fail(c)
  <2> DEFINE k == [conn[c] EXCEPT !.error = TRUE, !.agreed = FALSE]
  <2>1. /\ k \in Connections /\ k.hs = conn[c].hs /\ k.hasId = conn[c].hasId
        /\ k.sid = conn[c].sid /\ k.secret = conn[c].secret /\ k.number = conn[c].number
        /\ k.error /\ k.needEncode = conn[c].needEncode /\ k.resumed = conn[c].resumed
    BY <1>0 DEF Connections
  <2>2. conn' = [conn EXCEPT ![c] = k] /\ table' = table
    BY <1>0, <1>6 DEF Fail
  <2> HIDE DEF k
  <2> QED BY <1>0, <2>1, <2>2, GoesOn
<1>7. CASE DeleteSession(c)
  <2>0. NoConn \in Connections /\ ~NoConn.hasId /\ ~NoConn.needEncode
    BY Records DEF NoConn
  <2>1. CASE ~conn[c].hasId
    <3>1. ~Holding(conn, c)
      BY <2>1 DEF Holding
    <3> QED BY <1>0, <1>7, <2>0, <2>1, <3>1, WithoutSession DEF DeleteSession
  <2>2. CASE conn[c].hasId
    <3> DEFINE e == [table[i] EXCEPT !.inUse = FALSE,
                          !.secret = IF conn[c].error THEN 0 ELSE conn[c].secret,
                          !.cipher = ~conn[c].error]
    <3>1. conn[c].hs # "none" /\ (~conn[c].error => conn[c].hs # "key")
      BY <1>7, <2>2 DEF DeleteSession
    <3>2. 0 \in 0 .. MaxHandshakes /\ conn[c].secret \in 0 .. MaxHandshakes
      BY <1>0, BoundsAssumption DEF Connections
    <3>3. (IF conn[c].error THEN 0 ELSE conn[c].secret) \in 0 .. MaxHandshakes
      BY <3>2
    <3>4. /\ e \in Entries /\ ~e.inUse /\ e.cipher = ~conn[c].error
          /\ e.secret = (IF conn[c].error THEN 0 ELSE conn[c].secret)
          /\ e.id = conn[c].sid
      BY <1>0, <1>i, <2>2, <3>1, <3>3 DEF Entries
    <3>5. e.cipher => e.secret = e.id.serial
      BY <1>i, <2>2, <3>1, <3>4
    <3>6. table' = [table EXCEPT ![i] = e]
      BY <1>i, <1>7, <2>2, <3>1 DEF DeleteSession, Updated, i
    <3> HIDE DEF e
    <3>7. Straight([table EXCEPT ![i] = e], [conn EXCEPT ![c] = NoConn])
      BY <1>0, <1>i, <2>0, <2>2, <3>1, <3>4, <3>5, GivesBack DEF i
    <3> QED BY <1>7, <3>6, <3>7 DEF DeleteSession
  <2> QED BY <2>1, <2>2
<1>8. CASE DeleteOption(c)
  <2> DEFINE k == [conn[c] EXCEPT !.sid = ZeroId, !.hasId = FALSE,
                                  !.resumed = @ /\ ~conn[c].hasId]
  <2>1. conn' = [conn EXCEPT ![c] = k] /\ conn[c].hs = "done"
    BY <1>0, <1>8 DEF DeleteOption
  <2>2. k \in Connections
    <3>1. conn'[c] = k
      BY <1>0, <2>1
    <3> QED BY <3>1 DEF TypeOK
  <2>3. ~conn[c].needEncode
    BY <2>1 DEF Straight, Steady
  <2>4. ~k.hasId /\ ~k.needEncode
    BY <1>0, <2>3 DEF Connections
  <2> HIDE DEF k
  <2>5. CASE ~conn[c].hasId
    <3>1. ~Holding(conn, c)
      BY <2>5 DEF Holding
    <3>2. table' = table
      BY <1>8, <2>5 DEF DeleteOption
    <3>3. Straight(table, [conn EXCEPT ![c] = k])
      BY <1>0, <2>2, <2>4, <3>1, WithoutSession
    <3> QED BY <2>1, <3>2, <3>3
  <2>6. CASE conn[c].hasId
    <3>1. EmptyEntry \in Entries /\ ~EmptyEntry.inUse /\ ~EmptyEntry.cipher
      BY Records DEF EmptyEntry
    <3>2. table' = [table EXCEPT ![i] = EmptyEntry]
      BY <1>i, <1>8, <2>1, <2>6 DEF DeleteOption, i
    <3>3. Straight([table EXCEPT ![i] = EmptyEntry], [conn EXCEPT ![c] = k])
      BY <1>0, <1>i, <2>1, <2>2, <2>4, <2>6, <3>1, GivesBack DEF i
    <3> QED BY <2>1, <3>2, <3>3
  <2> QED BY <2>5, <2>6
<1>9. CASE ResumptionFlag(c)
  <2>1. conn[c].hasId /\ conn[c].hs # "none"
    BY <1>9 DEF ResumptionFlag
  <2>2. [table[i] EXCEPT !.inUse = TRUE] = table[i]
    BY <1>i, <2>1 DEF Entries
  <2>3. table' = table /\ conn' = conn
    BY <1>0, <1>9, <2>2 DEF ResumptionFlag, i
  <2> QED BY <2>3
<1> QED BY <1>1, <1>2, <1>3, <1>4, <1>5, <1>6, <1>7, <1>8, <1>9

\* After a hello the connection is answered, waits for its answer, or failed.
LEMMA KeyedStep == TypeOK /\ Keyed /\ Next /\ orderly' => Keyed'
<1> SUFFICES ASSUME TypeOK, Keyed, Next, orderly', NEW d \in Conns, conn'[d].hs = "key"
    PROVE  HasSession(conn'[d])
  BY DEF Keyed
<1>0. /\ conn \in [Conns -> Connections] /\ \A c \in Conns : conn[c] \in Connections
      /\ conn[d].hs = "key" => HasSession(conn[d])
  BY DEF TypeOK, Keyed
\* One connection is replaced.
<1>r. ASSUME NEW c \in Conns, NEW k, conn' = [conn EXCEPT ![c] = k],
             k.hs = "key" => HasSession(k)
      PROVE  HasSession(conn'[d])
  BY <1>0, <1>r
<1>1. ASSUME NEW c \in Conns, NEW t, NEW k \in Connections, k.hs = "key" => ~k.resumed,
             Answer(c, t, k) \/ ServerHello(c, t, k)
      PROVE  HasSession(conn'[d])
  <2>1. CASE conn' = [conn EXCEPT ![c] = [k EXCEPT !.needEncode = TRUE]]
    <3> DEFINE h == [k EXCEPT !.needEncode = TRUE]
    <3>1. h.needEncode /\ h.resumed = k.resumed /\ h.hs = k.hs
      BY <1>1 DEF Connections
    <3> HIDE DEF h
    <3>2. h.hs = "key" => HasSession(h)
      BY <1>1, <3>1 DEF HasSession
    <3> QED BY <1>r, <2>1, <3>2 DEF h
  <2>2. CASE k.resumed /\ conn' = [conn EXCEPT ![c] = [k EXCEPT !.needEncode = FALSE]]
    <3> DEFINE h == [k EXCEPT !.needEncode = FALSE]
    <3>1. h.hs = k.hs
      BY <1>1 DEF Connections
    <3> HIDE DEF h
    <3> QED BY <1>1, <1>r, <2>2, <3>1 DEF h
  <2> DEFINE n == made + 1
             h == [k EXCEPT !.number = n, !.needEncode = FALSE, !.hasId = TRUE,
                            !.sid = [slot |-> FreeSlot(t), serial |-> n]]
  <2>3. CASE ~k.resumed /\ conn' = [conn EXCEPT ![c] = h]
    <3>1. h.hasId /\ h.resumed = k.resumed
      BY <1>1 DEF Connections
    <3> HIDE DEF h
    <3>2. HasSession(h)
      BY <2>3, <3>1 DEF HasSession
    <3> QED BY <1>r, <2>3, <3>2
  <2>4. ServerHello(c, t, k) => \/ k.resumed /\ conn' = [conn EXCEPT ![c] = [k EXCEPT !.needEncode = FALSE]]
                                \/ ~k.resumed /\ conn' = [conn EXCEPT ![c] = h]
    BY DEF ServerHello
  <2> HIDE DEF h
  <2> QED BY <1>1, <2>1, <2>2, <2>3, <2>4 DEF Answer
<1>2. ASSUME NEW c \in Conns, FreshHello(c) PROVE HasSession(conn'[d])
  <2>1. WithoutId(conn[c]) \in Connections /\ ~WithoutId(conn[c]).resumed
    BY DEF TypeOK, WithoutId, Connections, Steps
  <2> QED BY <1>1, <1>2, <2>1 DEF FreshHello
<1>3. ASSUME NEW c \in Conns, NEW id \in Offered, ResumingHello(c, id)
      PROVE  HasSession(conn'[d])
  <2> DEFINE t == BeforeHello(c)
             h == HelloConn(conn[c], t, id)
  <2>0. id \in Offers /\ t \in [Slots -> Entries]
    BY <1>0, OfferedType, TableTypes, Records DEF BeforeHello, TypeOK
  <2>1. h \in Connections
    BY <1>0, <2>0, HelloTypes
  <2>2. h.hs = "key" => ~h.resumed
    BY <1>0 DEF HelloConn, Found, NotFound, Connections
  <2>3. Answer(c, HelloTable(t, id), h)
    BY <1>3 DEF ResumingHello
  <2> QED BY <1>1, <2>1, <2>2, <2>3
<1>a. ASSUME NEW c \in Conns, NEW t, NEW k \in Connections, Failed(c, t, k)
      PROVE  HasSession(conn'[d])
  <2> DEFINE e == [k EXCEPT !.error = TRUE, !.agreed = FALSE, !.hs = "hello"]
  <2>1. e.hs = "hello" /\ conn' = [conn EXCEPT ![c] = e]
    BY <1>a DEF Failed, Connections
  <2> HIDE DEF e
  <2> QED BY <1>r, <2>1
<1>b. ASSUME NEW c \in Conns, FreshFailed(c) PROVE HasSession(conn'[d])
  <2>1. WithoutId(conn[c]) \in Connections
    BY <1>0 DEF WithoutId, Connections, Steps
  <2> QED BY <1>a, <1>b, <2>1 DEF FreshFailed
<1>c. ASSUME NEW c \in Conns, NEW id \in Offered, ResumingFailed(c, id)
      PROVE  HasSession(conn'[d])
  <2>1. id \in Offers /\ BeforeHello(c) \in [Slots -> Entries]
    BY <1>0, OfferedType, TableTypes, Records DEF BeforeHello, TypeOK
  <2>2. HelloConn(conn[c], BeforeHello(c), id) \in Connections
    BY <1>0, <2>1, HelloTypes
  <2> QED BY <1>a, <1>c, <2>2 DEF ResumingFailed
<1>4. ASSUME NEW c \in Conns, Retry(c) PROVE HasSession(conn'[d])
  <2>1. conn[c].hs = "key" => ~conn[c].resumed
    BY DEF Keyed, HasSession
  <2> QED BY <1>0, <1>1, <1>4, <2>1 DEF Retry
<1>5. ASSUME NEW c \in Conns, NewSession(c) PROVE HasSession(conn'[d])
  BY <1>5, <1>r DEF NewSession, NoConn
<1>6. ASSUME NEW c \in Conns, HelloRefused(c) PROVE HasSession(conn'[d])
  BY <1>0, <1>6 DEF HelloRefused, Connections
<1>7. ASSUME NEW c \in Conns, ClientKeyExchange(c) PROVE HasSession(conn'[d])
  BY <1>0, <1>7 DEF ClientKeyExchange, Connections
<1>8. ASSUME NEW c \in Conns, Finished(c) PROVE HasSession(conn'[d])
  BY <1>0, <1>8 DEF Finished, Connections
<1>9. ASSUME NEW c \in Conns, Fail(c) PROVE HasSession(conn'[d])
  <2>1. CASE d = c
    <3>1. /\ conn'[d].hs = conn[d].hs /\ conn'[d].resumed = conn[d].resumed
          /\ conn'[d].error
      BY <1>0, <1>9, <2>1 DEF Fail, Connections
    <3> QED BY <1>0, <3>1 DEF HasSession
  <2>2. CASE d # c
    BY <1>0, <1>9, <2>2 DEF Fail
  <2> QED BY <2>1, <2>2
<1>10. ASSUME NEW c \in Conns, DeleteSession(c) PROVE HasSession(conn'[d])
  BY <1>10, <1>r DEF DeleteSession, NoConn
<1>11. ASSUME NEW c \in Conns, DeleteOption(c) PROVE HasSession(conn'[d])
  BY <1>0, <1>11 DEF DeleteOption, Connections
<1>12. ASSUME NEW c \in Conns, ResumptionFlag(c) PROVE HasSession(conn'[d])
  BY <1>0, <1>12 DEF ResumptionFlag
<1>13. CASE Tick
  BY <1>0, <1>13 DEF Tick
<1>14. ~\E c \in Conns : IdRefused(c)
  BY DEF IdRefused
<1> QED BY <1>2, <1>3, <1>4, <1>5, <1>6, <1>7, <1>8, <1>9, <1>10, <1>11, <1>12,
           <1>13, <1>14, <1>b, <1>c DEF Next

LEMMA InvStep == Inv /\ [Next]_vars => Inv'
<1> SUFFICES ASSUME Inv, [Next]_vars PROVE Inv'
  OBVIOUS
<1>1. TypeOK /\ TypeOK'
  BY NextType DEF Inv
<1>2. CASE UNCHANGED vars
  BY <1>2, <1>1 DEF Inv, vars, Keyed
<1>3. CASE Next
  <2> SUFFICES ASSUME orderly' PROVE Straight(table', conn') /\ Keyed'
    BY <1>1 DEF Inv
  <2>1. orderly
    BY <1>1, <1>3 DEF TypeOK, Next, NewSession, FreshHello, ResumingHello, Retry,
         FreshFailed, ResumingFailed, Failed, HelloRefused, IdRefused, ClientKeyExchange, Finished, Fail,
         DeleteSession, DeleteOption, ResumptionFlag, Tick, Answer, ServerHello
  <2>2. Straight(table, conn) /\ Keyed
    BY <2>1 DEF Inv
  <2>3. Keyed'
    BY <1>1, <1>3, <2>2, KeyedStep
  <2>4. Whole(ZeroId) \in Offers /\ Offered \subseteq Offers
    BY <1>1, Records, OfferedType
  <2>5. ASSUME NEW c \in Conns, FreshHello(c) \/ FreshFailed(c) PROVE Straight(table', conn')
    BY <1>1, <2>2, <2>4, <2>5, HelloStepStraight
  <2>6. ASSUME NEW c \in Conns, NEW id \in Offered,
               ResumingHello(c, id) \/ ResumingFailed(c, id)
        PROVE  Straight(table', conn')
    BY <1>1, <2>2, <2>4, <2>6, HelloStepStraight
  <2>7. CASE Tick
    BY <2>2, <2>3, <2>7 DEF Tick
  <2>8. ~\E c \in Conns : IdRefused(c)
    BY DEF IdRefused
  <2> QED BY <1>1, <1>3, <2>2, <2>3, <2>5, <2>6, <2>7, <2>8, CallStraight DEF Next
<1> QED BY <1>2, <1>3

LEMMA InvInit == Init => Inv
<1> SUFFICES ASSUME Init PROVE Straight(table, conn) /\ Keyed
  BY InitType DEF Inv
<1> QED BY DEF Init, NoConn, EmptyEntry, Straight, Held, Owned, Agreed, Stored,
           Steady, Holding, Keyed

LEMMA InvHolds == Spec => []Inv
BY InvInit, InvStep, PTL DEF Spec

\* As long as the calls come in order, a connection that a session was
\* promised to (matrixRegisterSession, matrixResumeSession) finds it in its
\* entry, and the entry in use by it alone.
THEOREM SessionHeld == Spec => []SessionIsHeld
<1>1. Inv => SessionIsHeld
  BY DEF Inv, Straight, Held, SessionIsHeld, Holding, Holds
<1> QED BY <1>1, InvHolds, PTL

\* As long as the calls come in order, an entry that is marked in use has a
\* connection that will clear it: no slot leaks.
THEOREM InUseOwned == Spec => []InUseHasOwner
<1>1. Inv => InUseHasOwner
  BY DEF Inv, Straight, Owned, InUseHasOwner, Holding, Holds
<1> QED BY <1>1, InvHolds, PTL

\* As long as the calls come in order, an entry that matrixResumeSession can
\* find, by all or by some bytes of its id, holds the secret that was
\* negotiated under that id.
THEOREM SecretIsItsOwn == Spec => []ResumesItsOwnSecret
<1>1. Inv => ResumesItsOwnSecret
  BY DEF Inv, Straight, Held, Stored, ResumesItsOwnSecret, Resumable
<1> QED BY <1>1, InvHolds, PTL

=============================================================================
