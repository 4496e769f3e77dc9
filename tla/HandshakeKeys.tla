--------------------------- MODULE HandshakeKeys ---------------------------
(***************************************************************************)
(* The inductive invariant of Handshake and what preserves it, for all     *)
(* ciphers, lengths, buffers and bounds.                                   *)
(*                                                                         *)
(* Keys(p, c, q, s, X, Y) is its core.  It relates a client c in phase p,  *)
(* a server s in phase q and the sets X and Y of records on their way to   *)
(* them; it is stated of any ends and records because one call of the      *)
(* application reads a record and writes up to three, which is a chain of  *)
(* small steps with ends in between that no state of the specification     *)
(* shows.  Records only ever leave a set X by being read or lost, so that  *)
(* order and number on the wire do not matter to it.                       *)
(*                                                                         *)
(* Flow(a, b, X) adds the data to it: that the records X on their way from *)
(* a to b bring all that a has sent and b has not got.  For that it gives  *)
(* every record number of every key block the amount of data sent before   *)
(* it (a Tally).                                                           *)
(*                                                                         *)
(* The actions themselves, and the theorems, are in HandshakeProofs.       *)
(***************************************************************************)
EXTENDS Handshake, TLAPS

-----------------------------------------------------------------------------
(* Types *)

Fields ==
    {"hs", "resumed", "error", "closed", "alert", "room", "id", "cipher", "cr", "sr", "ms",
     "keys", "rd", "wr", "log", "ignored", "empty", "sent", "got", "final"}

IsEnd(k) == k = [f \in Fields |-> k[f]]

\* n is an end that differs from k at most in the fields F.
Differs(k, n, F) == IsEnd(n) /\ \A f \in Fields \ F : n[f] = k[f]

Names == {c.name : c \in Ciphers}
Secrets == Nat \X Nat \X Nat
KeyBlocks == {NoKeys} \cup [ms : Secrets, cr : Nat, sr : Nat, cipher : Names]
States == [keys : KeyBlocks, seq : Nat]

Expected ==
    {"ClientHello", "ServerHello", "Certificate", "ServerHelloDone", "ClientKeyExchange",
     "Finished", "DONE", "HelloRequest"}

EndOK(k) ==
    /\ IsEnd(k)
    /\ k.hs \in Expected
    /\ k.resumed \in BOOLEAN /\ k.error \in BOOLEAN /\ k.closed \in BOOLEAN /\ k.alert \in BOOLEAN
    /\ k.room \in {-1} \cup Free
    /\ k.id \in Nat /\ k.cr \in Nat /\ k.sr \in Nat
    /\ k.ms \in Secrets /\ k.keys \in KeyBlocks /\ k.rd \in States /\ k.wr \in States
    /\ k.ignored \in 0 .. MaxIgnored
    /\ k.empty \in Nat /\ k.sent \in Nat /\ k.got \in Nat /\ k.final \in -1 .. k.sent

\* When an end has a cipher.
ClientNamed(c) ==
    /\ c.cr > 0 \/ c.id # 0 => c.cipher \in Names
    /\ c.hs = "ServerHello" /\ c.id = 0 => ~c.resumed
ServerNamed(s) == s.hs # "ClientHello" => s.cipher \in Names

IsMsg(r, m) == r.type = "hs" /\ r.body.msg = m

RecordOK(r) ==
    /\ r.type \in {"ccs", "alert", "data", "hs"}
    /\ r.keys \in KeyBlocks
    /\ r.seq \in Nat
    /\ r.type = "data" => r.body \in Nat
    /\ IsMsg(r, "ClientHello") \/ IsMsg(r, "ServerHello") =>
          r.body.random \in Nat /\ r.body.id \in Nat /\ r.body.cipher \in Names
    /\ IsMsg(r, "ClientKeyExchange") => r.body.premaster \in Nat

\* Application data, and the closure.
Gives(r) == r.type = "data" /\ r.body > 0
Closes(r) == r.type = "alert" /\ r.body.msg = "Closure"

SessionOK(x) == x.id \in Nat /\ x.ms \in Secrets /\ x.cipher \in Names

\* A sequence, of whatever records.
Listed(w) == w \in Seq(ToSet(w))

-----------------------------------------------------------------------------
(* Records on the wire *)

LEMMA ListedSeq == ASSUME NEW S, NEW w \in Seq(S) PROVE Listed(w) /\ ToSet(w) \subseteq S
  BY DEF Listed, ToSet

LEMMA TailRecords ==
    ASSUME NEW w, Listed(w), w # <<>>
    PROVE  Listed(Tail(w)) /\ ToSet(Tail(w)) \subseteq ToSet(w) /\ Head(w) \in ToSet(w)
<1>1. Tail(w) \in Seq(ToSet(w)) /\ Head(w) = w[1] /\ 1 \in DOMAIN w
  BY DEF Listed
<1> QED
  BY <1>1, ListedSeq DEF ToSet

LEMMA ConcatRecords ==
    ASSUME NEW v, NEW w, Listed(v), Listed(w)
    PROVE  Listed(v \o w) /\ ToSet(v \o w) \subseteq ToSet(v) \cup ToSet(w)
<1>1. v \in Seq(ToSet(v) \cup ToSet(w)) /\ w \in Seq(ToSet(v) \cup ToSet(w))
  BY DEF Listed, ToSet
<1>2. v \o w \in Seq(ToSet(v) \cup ToSet(w))
  BY <1>1
<1> QED
  BY <1>2, ListedSeq

LEMMA NoRecords == Listed(<<>>) /\ ToSet(<<>>) = {}
  BY DEF Listed, ToSet

LEMMA AppendRecords ==
    ASSUME NEW w, Listed(w), NEW r
    PROVE  Listed(Append(w, r)) /\ ToSet(Append(w, r)) \subseteq ToSet(w) \cup {r}
<1>1. w \in Seq(ToSet(w) \cup {r})
  BY DEF Listed, ToSet
<1>2. Append(w, r) \in Seq(ToSet(w) \cup {r})
  BY <1>1
<1> QED
  BY <1>2, ListedSeq

\* A fault makes no records.
Faulted(w, i, v) ==
    \/ v = RemoveAt(w, i)
    \/ v = InsertAt(w, i, w[i])
    \/ i < Len(w) /\ v = [w EXCEPT ![i] = w[i + 1], ![i + 1] = w[i]]

LEMMA FaultRecords ==
    ASSUME NEW w, Listed(w), NEW i \in DOMAIN w, NEW v, Faulted(w, i, v)
    PROVE  Listed(v) /\ ToSet(v) \subseteq ToSet(w)
<1> DEFINE S == ToSet(w)
<1>1. w \in Seq(S) /\ i \in 1 .. Len(w) /\ w[i] \in S
  BY DEF Listed, ToSet
<1> HIDE DEF S
<1>2. RemoveAt(w, i) \in Seq(S)
  <2>1. SubSeq(w, 1, i - 1) \in Seq(S) /\ SubSeq(w, i + 1, Len(w)) \in Seq(S)
    BY <1>1
  <2> QED BY <2>1 DEF RemoveAt
<1>3. InsertAt(w, i, w[i]) \in Seq(S)
  <2>1. SubSeq(w, 1, i - 1) \in Seq(S) /\ SubSeq(w, i, Len(w)) \in Seq(S) /\ <<w[i]>> \in Seq(S)
    BY <1>1
  <2> QED BY <2>1 DEF InsertAt
<1>4. ASSUME i < Len(w) PROVE [w EXCEPT ![i] = w[i + 1], ![i + 1] = w[i]] \in Seq(S)
  BY <1>1, <1>4
<1>5. v \in Seq(S)
  BY <1>2, <1>3, <1>4 DEF Faulted
<1> QED
  BY <1>5, ListedSeq DEF S

-----------------------------------------------------------------------------
(* What a writer does to its end *)

\* Written does the same to an end whatever was written before; these are the
\* end after one record, the record, and the room it takes.
Wrote(e, k, item) == Written(e, Blank(k, 0), item).end
Made(e, k, item) ==
    Record(k.wr,
           CASE item = "ChangeCipherSpec" -> "ccs" [] item = "Alert" -> "alert" [] OTHER -> "hs",
           Body(e, k, item))
Size(k, item) == RecordSize(k.wr, ContentLen(k, item))

LEMMA WrittenIs ==
    ASSUME NEW e, NEW w, NEW item
    PROVE  Written(e, w, item) =
             [end |-> Wrote(e, w.end, item), out |-> Append(w.out, Made(e, w.end, item)),
              room |-> w.room - Size(w.end, item), full |-> FALSE]
  BY DEF Written, Wrote, Made, Size, Blank

IsWriter(w) == w = [f \in {"end", "out", "room", "full"} |-> w[f]]

\* A record is written whole or not at all.
Puts(e, w, item, v) ==
    \/ w.full /\ v.full /\ v.end = w.end /\ v.out = w.out
    \/ ~w.full /\ Size(w.end, item) > w.room /\ v.full /\ v.end = w.end /\ v.out = w.out
    \/ /\ ~w.full /\ ~(Size(w.end, item) > w.room) /\ ~v.full
       /\ v.end = Wrote(e, w.end, item)
       /\ v.out = Append(w.out, Made(e, w.end, item))
       /\ v.room = w.room - Size(w.end, item)

LEMMA PutIs ==
    ASSUME NEW e, NEW ws, \A w \in ws : IsWriter(w), NEW item, NEW v \in Put(e, ws, item)
    PROVE  IsWriter(v) /\ \E w \in ws : Puts(e, w, item, v)
<1>1. PICK w \in ws :
         v = IF w.full \/ Size(w.end, item) > w.room
             THEN [w EXCEPT !.full = TRUE] ELSE Written(e, w, item)
  BY DEF Put, Size
<1>2. CASE w.full \/ Size(w.end, item) > w.room
  <2>1. v = [w EXCEPT !.full = TRUE]
    BY <1>1, <1>2
  <2>2. IsWriter(v) /\ v.full /\ v.end = w.end /\ v.out = w.out
    BY <2>1 DEF IsWriter
  <2> QED
    BY <1>2, <2>2 DEF Puts
<1>3. CASE ~w.full /\ ~(Size(w.end, item) > w.room)
  <2>1. v = Written(e, w, item)
    BY <1>1, <1>3
  <2>2. IsWriter(v) /\ ~v.full
    BY <2>1, WrittenIs DEF IsWriter
  <2>3. /\ v.end = Wrote(e, w.end, item) /\ v.out = Append(w.out, Made(e, w.end, item))
        /\ v.room = w.room - Size(w.end, item)
    BY <2>1, WrittenIs
  <2> QED
    BY <1>3, <2>2, <2>3 DEF Puts
<1> QED
  BY <1>2, <1>3

-----------------------------------------------------------------------------
(* Answers, record by record *)

Cut(k, room) == [k EXCEPT !.room = room]
Over(k, n) ==
    [n EXCEPT !.room = -1, !.error = @ \/ k.alert,
              !.hs = IF @ = "HelloRequest" THEN "ServerHello" ELSE @]
Answer(n, out) == [end |-> n, out |-> out]

LEMMA EndedIs ==
    ASSUME NEW k, NEW room, NEW w
    PROVE  /\ w.full /\ k.hs # "HelloRequest" =>
                Ended(k, room, w) = Answer(Cut(w.end, room), w.out)
           /\ w.full /\ k.hs = "HelloRequest" =>
                Ended(k, room, w) = Answer(Cut(k, room), w.out)
           /\ ~w.full => Ended(k, room, w) = Answer(Over(k, w.end), w.out)
  BY DEF Ended, Answer, Cut, Over

\* A blank writer.
Starts(b, x, room) == IsWriter(b) /\ b.end = x /\ b.out = <<>> /\ b.room = room /\ ~b.full

LEMMA BlankStarts == ASSUME NEW x, NEW room PROVE Starts(Blank(x, room), x, room)
  BY DEF Starts, IsWriter, Blank

\* An attempt of an answer is given up before anything is done, or begun.
Begins(e, k, room, items, i, a) ==
    \E bs : /\ \A b \in bs : \E x \in Opened(k, i) : Starts(b, x, room)
            /\ \E w \in WriteAll(e, bs, items) : a = Ended(k, room, w)

LEMMA Attempts ==
    ASSUME NEW e, NEW k, NEW rooms, NEW a \in Answers(e, k, rooms),
           NEW items, items = Flight(e, k), NEW i, i = items[1]
    PROVE  \E room \in rooms :
              \/ a = Answer(Cut(k, room), <<>>)
              \/ ~(RoomAsked(e, k) > room) /\ Begins(e, k, room, items, i, a)
<1>1. PICK room \in rooms : \E w \in Attempt(e, k, room, items) : a = Ended(k, room, w)
  BY DEF Answers
<1>2. PICK w \in Attempt(e, k, room, items) : a = Ended(k, room, w)
  BY <1>1
<1>3. CASE RoomAsked(e, k) > room
  <2>1. w = [Blank(k, room) EXCEPT !.full = TRUE]
    BY <1>3 DEF Attempt
  <2>2. w.full /\ w.end = k /\ w.out = <<>>
    BY <2>1 DEF Blank
  <2> QED
    BY <1>2, <2>2, EndedIs
<1>4. CASE ~(RoomAsked(e, k) > room)
  <2> DEFINE bs == {Blank(x, room) : x \in Opened(k, i)}
  <2>1. w \in WriteAll(e, bs, items)
    BY <1>2, <1>4 DEF Attempt
  <2>2. \A b \in bs : \E x \in Opened(k, i) : Starts(b, x, room)
    BY BlankStarts
  <2> HIDE DEF bs
  <2>3. Begins(e, k, room, items, i, a)
    BY <1>2, <2>1, <2>2 DEF Begins
  <2> QED
    BY <1>4, <2>3
<1> QED
  BY <1>3, <1>4

\* What comes of a flight of one record.
Flight1(e, k, i) == Len(Flight(e, k)) = 1 /\ i = Flight(e, k)[1]
Outcome1(e, k, rooms, i, a) ==
    \E room \in rooms :
       \/ a = Answer(Cut(k, room), <<>>)
       \/ \E x \in Opened(k, i) :
            \/ k.hs # "HelloRequest" /\ a = Answer(Cut(x, room), <<>>)
            \/ a = Answer(Over(k, Wrote(e, x, i)), Append(<<>>, Made(e, x, i)))

LEMMA Answer1 ==
    ASSUME NEW e, NEW k, NEW rooms, NEW a \in Answers(e, k, rooms), NEW i, Flight1(e, k, i)
    PROVE  Outcome1(e, k, rooms, i, a)
<1>0. PICK items : items = Flight(e, k) /\ Len(items) = 1 /\ i = items[1]
  BY DEF Flight1
<1>1. PICK room \in rooms :
         a = Answer(Cut(k, room), <<>>) \/ Begins(e, k, room, items, i, a)
  BY <1>0, Attempts
<1>2. ASSUME Begins(e, k, room, items, i, a)
      PROVE  \/ a = Answer(Cut(k, room), <<>>)
             \/ \E x \in Opened(k, i) :
                  \/ k.hs # "HelloRequest" /\ a = Answer(Cut(x, room), <<>>)
                  \/ a = Answer(Over(k, Wrote(e, x, i)), Append(<<>>, Made(e, x, i)))
  <2>1. PICK bs : /\ \A b \in bs : \E x \in Opened(k, i) : Starts(b, x, room)
                  /\ \E w \in WriteAll(e, bs, items) : a = Ended(k, room, w)
    BY <1>2 DEF Begins
  <2>2. PICK w \in Put(e, bs, i) : a = Ended(k, room, w)
    BY <1>0, <2>1 DEF WriteAll
  <2>3. PICK b \in bs : Puts(e, b, i, w)
    BY <2>1, PutIs DEF Starts
  <2>4. PICK x \in Opened(k, i) : Starts(b, x, room)
    BY <2>1
  <2>5. CASE w.full /\ w.end = x /\ w.out = <<>>
    BY <2>2, <2>5, EndedIs
  <2>6. CASE ~w.full /\ w.end = Wrote(e, x, i) /\ w.out = Append(<<>>, Made(e, x, i))
    BY <2>2, <2>6, EndedIs
  <2> QED
    BY <2>3, <2>4, <2>5, <2>6 DEF Puts, Starts
<1> QED
  BY <1>1, <1>2 DEF Outcome1

\* Of two records.
Flight2(e, k, i, j) ==
    /\ Len(Flight(e, k)) = 2 /\ i = Flight(e, k)[1] /\ j = Flight(e, k)[2]
    /\ k.hs # "HelloRequest"
Outcome2(e, k, rooms, i, j, a) ==
    \E room \in rooms :
       \/ a = Answer(Cut(k, room), <<>>)
       \/ \E x \in Opened(k, i) :
            LET k1 == Wrote(e, x, i)
                k2 == Wrote(e, k1, j)
                out1 == Append(<<>>, Made(e, x, i))
            IN  \/ a = Answer(Cut(x, room), <<>>)
                \/ a = Answer(Cut(k1, room), out1)
                \/ a = Answer(Over(k, k2), Append(out1, Made(e, k1, j)))

LEMMA Answer2 ==
    ASSUME NEW e, NEW k, NEW rooms, NEW a \in Answers(e, k, rooms),
           NEW i, NEW j, Flight2(e, k, i, j)
    PROVE  Outcome2(e, k, rooms, i, j, a)
<1>0. /\ k.hs # "HelloRequest"
      /\ \E items : items = Flight(e, k) /\ Len(items) = 2 /\ i = items[1] /\ j = items[2]
  BY DEF Flight2
<1> PICK items : items = Flight(e, k) /\ Len(items) = 2 /\ i = items[1] /\ j = items[2]
  BY <1>0
<1>1. PICK room \in rooms :
         a = Answer(Cut(k, room), <<>>) \/ Begins(e, k, room, items, i, a)
  BY Attempts
<1>2. ASSUME Begins(e, k, room, items, i, a)
      PROVE  \E x \in Opened(k, i) :
                LET k1 == Wrote(e, x, i)
                    k2 == Wrote(e, k1, j)
                    out1 == Append(<<>>, Made(e, x, i))
                IN  \/ a = Answer(Cut(x, room), <<>>)
                    \/ a = Answer(Cut(k1, room), out1)
                    \/ a = Answer(Over(k, k2), Append(out1, Made(e, k1, j)))
  <2>1. PICK bs : /\ \A b \in bs : \E x \in Opened(k, i) : Starts(b, x, room)
                  /\ \E w \in WriteAll(e, bs, items) : a = Ended(k, room, w)
    BY <1>2 DEF Begins
  <2>2. PICK w \in Put(e, Put(e, bs, i), j) : a = Ended(k, room, w)
    BY <2>1 DEF WriteAll
  <2>3. \A w1 \in Put(e, bs, i) : IsWriter(w1) /\ \E b \in bs : Puts(e, b, i, w1)
    BY <2>1, PutIs DEF Starts
  <2>4. PICK w1 \in Put(e, bs, i) : Puts(e, w1, j, w)
    BY <2>2, <2>3, PutIs
  <2>5. PICK b \in bs : Puts(e, b, i, w1)
    BY <2>3
  <2>6. PICK x \in Opened(k, i) : Starts(b, x, room)
    BY <2>1
  <2> DEFINE k1 == Wrote(e, x, i)
             out1 == Append(<<>>, Made(e, x, i))
  <2>7. \/ w.full /\ w.end = x /\ w.out = <<>>
        \/ w.full /\ w.end = k1 /\ w.out = out1
        \/ ~w.full /\ w.end = Wrote(e, k1, j) /\ w.out = Append(out1, Made(e, k1, j))
    BY <2>4, <2>5, <2>6 DEF Puts, Starts
  <2> HIDE DEF k1, out1
  <2>8. CASE w.full /\ w.end = x /\ w.out = <<>>
    BY <1>0, <2>2, <2>8, EndedIs
  <2>9. CASE w.full /\ w.end = k1 /\ w.out = out1
    BY <1>0, <2>2, <2>9, EndedIs DEF k1, out1
  <2>10. CASE ~w.full /\ w.end = Wrote(e, k1, j) /\ w.out = Append(out1, Made(e, k1, j))
    BY <2>2, <2>10, EndedIs DEF k1, out1
  <2> QED
    BY <2>7, <2>8, <2>9, <2>10
<1> QED
  BY <1>1, <1>2 DEF Outcome2

\* Of three, and the room that is left when one does not fit.
Flight3(e, k, i, j, l) ==
    /\ Len(Flight(e, k)) = 3
    /\ i = Flight(e, k)[1] /\ j = Flight(e, k)[2] /\ l = Flight(e, k)[3]
    /\ k.hs # "HelloRequest"
Outcome3(e, k, rooms, i, j, l, a) ==
    \E room \in rooms :
       \/ a = Answer(Cut(k, room), <<>>)
       \/ /\ ~(RoomAsked(e, k) > room)
          /\ \E x \in Opened(k, i) :
               LET k1 == Wrote(e, x, i)
                   k2 == Wrote(e, k1, j)
                   k3 == Wrote(e, k2, l)
                   out1 == Append(<<>>, Made(e, x, i))
                   out2 == Append(out1, Made(e, k1, j))
               IN  \/ /\ Size(x, i) > room
                      /\ a = Answer(Cut(x, room), <<>>)
                   \/ /\ Size(k1, j) > room - Size(x, i)
                      /\ a = Answer(Cut(k1, room), out1)
                   \/ /\ Size(k2, l) > room - Size(x, i) - Size(k1, j)
                      /\ a = Answer(Cut(k2, room), out2)
                   \/ a = Answer(Over(k, k3), Append(out2, Made(e, k2, l)))

LEMMA Answer3 ==
    ASSUME NEW e, NEW k, NEW rooms, NEW a \in Answers(e, k, rooms),
           NEW i, NEW j, NEW l, Flight3(e, k, i, j, l)
    PROVE  Outcome3(e, k, rooms, i, j, l, a)
<1>0. /\ k.hs # "HelloRequest"
      /\ \E items : /\ items = Flight(e, k) /\ Len(items) = 3
                     /\ i = items[1] /\ j = items[2] /\ l = items[3]
  BY DEF Flight3
<1> PICK items : /\ items = Flight(e, k) /\ Len(items) = 3
                 /\ i = items[1] /\ j = items[2] /\ l = items[3]
  BY <1>0
<1>1. PICK room \in rooms :
         \/ a = Answer(Cut(k, room), <<>>)
         \/ ~(RoomAsked(e, k) > room) /\ Begins(e, k, room, items, i, a)
  BY Attempts
<1>2. ASSUME Begins(e, k, room, items, i, a)
      PROVE  \E x \in Opened(k, i) :
                LET k1 == Wrote(e, x, i)
                    k2 == Wrote(e, k1, j)
                    k3 == Wrote(e, k2, l)
                    out1 == Append(<<>>, Made(e, x, i))
                    out2 == Append(out1, Made(e, k1, j))
                IN  \/ /\ Size(x, i) > room
                       /\ a = Answer(Cut(x, room), <<>>)
                    \/ /\ Size(k1, j) > room - Size(x, i)
                       /\ a = Answer(Cut(k1, room), out1)
                    \/ /\ Size(k2, l) > room - Size(x, i) - Size(k1, j)
                       /\ a = Answer(Cut(k2, room), out2)
                    \/ a = Answer(Over(k, k3), Append(out2, Made(e, k2, l)))
  <2>1. PICK bs : /\ \A b \in bs : \E x \in Opened(k, i) : Starts(b, x, room)
                  /\ \E w \in WriteAll(e, bs, items) : a = Ended(k, room, w)
    BY <1>2 DEF Begins
  <2>2. PICK w \in Put(e, Put(e, Put(e, bs, i), j), l) : a = Ended(k, room, w)
    BY <2>1 DEF WriteAll
  <2>3. \A w1 \in Put(e, bs, i) : IsWriter(w1) /\ \E b \in bs : Puts(e, b, i, w1)
    BY <2>1, PutIs DEF Starts
  <2>4. \A w2 \in Put(e, Put(e, bs, i), j) :
           IsWriter(w2) /\ \E w1 \in Put(e, bs, i) : Puts(e, w1, j, w2)
    BY <2>3, PutIs
  <2>5. PICK w2 \in Put(e, Put(e, bs, i), j) : Puts(e, w2, l, w)
    BY <2>2, <2>4, PutIs
  <2>6. PICK w1 \in Put(e, bs, i) : Puts(e, w1, j, w2)
    BY <2>4
  <2>7. PICK b \in bs : Puts(e, b, i, w1)
    BY <2>3
  <2>8. PICK x \in Opened(k, i) : Starts(b, x, room)
    BY <2>1
  <2> DEFINE k1 == Wrote(e, x, i)
             k2 == Wrote(e, k1, j)
             out1 == Append(<<>>, Made(e, x, i))
             out2 == Append(out1, Made(e, k1, j))
  <2>9. \/ w1.full /\ w1.end = x /\ w1.out = <<>> /\ Size(x, i) > room
        \/ ~w1.full /\ w1.end = k1 /\ w1.out = out1 /\ w1.room = room - Size(x, i)
    BY <2>7, <2>8 DEF Puts, Starts
  <2> HIDE DEF k1, out1
  <2>10. \/ w2.full /\ w2.end = x /\ w2.out = <<>> /\ Size(x, i) > room
         \/ w2.full /\ w2.end = k1 /\ w2.out = out1 /\ Size(k1, j) > room - Size(x, i)
         \/ /\ ~w2.full /\ w2.end = k2 /\ w2.out = out2
            /\ w2.room = room - Size(x, i) - Size(k1, j)
    BY <2>6, <2>9 DEF Puts
  <2> HIDE DEF k2, out2
  <2>11. \/ w.full /\ w.end = x /\ w.out = <<>> /\ Size(x, i) > room
         \/ w.full /\ w.end = k1 /\ w.out = out1 /\ Size(k1, j) > room - Size(x, i)
         \/ /\ w.full /\ w.end = k2 /\ w.out = out2
            /\ Size(k2, l) > room - Size(x, i) - Size(k1, j)
         \/ ~w.full /\ w.end = Wrote(e, k2, l) /\ w.out = Append(out2, Made(e, k2, l))
    BY <2>5, <2>10 DEF Puts
  <2>12. CASE w.full /\ w.end = x /\ w.out = <<>> /\ Size(x, i) > room
    BY <1>0, <2>2, <2>12, EndedIs
  <2>13. CASE w.full /\ w.end = k1 /\ w.out = out1 /\ Size(k1, j) > room - Size(x, i)
    BY <1>0, <2>2, <2>13, EndedIs DEF k1, out1
  <2>14. CASE /\ w.full /\ w.end = k2 /\ w.out = out2
              /\ Size(k2, l) > room - Size(x, i) - Size(k1, j)
    <3>1. a = Answer(Cut(k2, room), out2)
      BY <1>0, <2>2, <2>14, EndedIs
    <3> QED
      BY <2>14, <3>1 DEF k2, out2, k1, out1
  <2>15. CASE ~w.full /\ w.end = Wrote(e, k2, l) /\ w.out = Append(out2, Made(e, k2, l))
    <3>1. a = Answer(Over(k, Wrote(e, k2, l)), Append(out2, Made(e, k2, l)))
      BY <2>2, <2>15, EndedIs
    <3> QED
      BY <3>1 DEF k2, out2, k1, out1
  <2> QED
    BY <2>11, <2>12, <2>13, <2>14, <2>15
<1> QED
  BY <1>1, <1>2 DEF Outcome3

-----------------------------------------------------------------------------
(* One record: its fields, its end and their types *)

Advances(x, y) == y.keys = x.keys /\ y.seq = IF Secure(x) THEN x.seq + 1 ELSE x.seq
Switches(y, keys) == y.keys = keys /\ y.seq = 0

LEMMA CountedIs ==
    ASSUME NEW x \in States
    PROVE  Counted(x) \in States /\ Advances(x, Counted(x))
  BY DEF Counted, States, Advances

LEMMA SwitchedIs ==
    ASSUME NEW keys \in KeyBlocks, NEW x, x = [keys |-> keys, seq |-> 0]
    PROVE  x \in States /\ Switches(x, keys)
  BY DEF States, Switches

PlainItems == {"ClientHello", "Certificate", "ServerHelloDone", "Finished", "Alert"}

LEMMA WrotePlain ==
    ASSUME NEW e, NEW k, IsEnd(k), NEW item,
           item \in PlainItems \/ (item = "ServerHello" /\ ~k.resumed),
           NEW n, n = Wrote(e, k, item)
    PROVE  Differs(k, n, {"wr", "log"}) /\ n.wr = Counted(k.wr)
<1>1. PICK body : body = Body(e, k, item)
  OBVIOUS
<1>2. \E log : n = [k EXCEPT !.wr = Counted(@), !.log = log]
  <2>1. CASE item = "Alert"
    BY <2>1 DEF Wrote, Written, Blank
  <2>2. CASE item # "Alert"
    BY <2>2, <1>1 DEF Wrote, Written, Blank, PlainItems
  <2> QED
    BY <2>1, <2>2
<1>3. PICK log : n = [k EXCEPT !.wr = Counted(@), !.log = log]
  BY <1>2
<1> QED
  BY <1>3 DEF Differs, IsEnd, Fields

LEMMA WroteCcs ==
    ASSUME NEW e, NEW k, IsEnd(k), NEW n, n = Wrote(e, k, "ChangeCipherSpec")
    PROVE  Differs(k, n, {"wr"}) /\ n.wr = [keys |-> k.keys, seq |-> 0]
<1>1. n = [k EXCEPT !.wr = [keys |-> k.keys, seq |-> 0]]
  BY DEF Wrote, Written, Blank
<1> QED
  BY <1>1 DEF Differs, IsEnd, Fields

\* n has the secret and the keys that sslDeriveKeys makes for k.
Derives(k, n, premaster) ==
    /\ n.ms = IF k.resumed THEN k.ms ELSE <<premaster, k.cr, k.sr>>
    /\ n.keys = [ms |-> n.ms, cr |-> k.cr, sr |-> k.sr, cipher |-> k.cipher]

LEMMA DerivedIs ==
    ASSUME NEW k, IsEnd(k), NEW premaster, NEW n, n = Derived(k, premaster)
    PROVE  Differs(k, n, {"ms", "keys"}) /\ Derives(k, n, premaster)
  BY DEF Differs, IsEnd, Fields, Derived, Derives

LEMMA DerivesKeys ==
    ASSUME NEW k, NEW n, NEW premaster \in Nat, Derives(k, n, premaster),
           k.ms \in Secrets, k.cr \in Nat, k.sr \in Nat, k.cipher \in Names
    PROVE  /\ n.ms \in Secrets /\ n.keys \in KeyBlocks
           /\ n.keys.cr = k.cr /\ n.keys.sr = k.sr
  BY DEF Derives, Secrets, KeyBlocks

LEMMA WroteDerived ==
    ASSUME NEW e, NEW k, IsEnd(k), NEW item,
           item = "ClientKeyExchange" \/ (item = "ServerHello" /\ k.resumed),
           NEW n, n = Wrote(e, k, item)
    PROVE  /\ Differs(k, n, {"wr", "log", "ms", "keys"})
           /\ n.wr = Counted(k.wr)
           /\ Derives(k, n, k.cr)
<1>1. PICK body : body = Body(e, k, item)
  OBVIOUS
<1>2. PICK m : m = [k EXCEPT !.wr = Counted(@), !.log = Append(@, body)]
  OBVIOUS
<1>3. Differs(k, m, {"wr", "log"}) /\ m.wr = Counted(k.wr)
  BY <1>2 DEF Differs, IsEnd, Fields
<1>4. PICK premaster :
         n = Derived(m, premaster) /\ (item = "ClientKeyExchange" => premaster = k.cr)
  <2>1. CASE item = "ClientKeyExchange"
    BY <1>1, <1>2, <2>1 DEF Wrote, Written, Blank
  <2>2. CASE item = "ServerHello" /\ k.resumed
    BY <1>1, <1>2, <2>2 DEF Wrote, Written, Blank
  <2> QED
    BY <2>1, <2>2
<1>5. /\ m.resumed = k.resumed /\ m.ms = k.ms /\ m.cr = k.cr /\ m.sr = k.sr
      /\ m.cipher = k.cipher
  BY <1>3 DEF Differs, Fields
<1>6. Differs(m, n, {"ms", "keys"}) /\ Derives(m, n, premaster)
  BY <1>3, <1>4, DerivedIs DEF Differs
<1>7. Differs(k, n, {"wr", "log", "ms", "keys"}) /\ n.wr = m.wr
  BY <1>3, <1>6 DEF Differs, Fields
<1>8. Derives(k, n, k.cr)
  BY <1>4, <1>5, <1>6 DEF Derives
<1> QED
  BY <1>3, <1>7, <1>8

Items == PlainItems \cup {"ServerHello", "ClientKeyExchange", "ChangeCipherSpec"}

LEMMA MadeIs ==
    ASSUME NEW e, NEW k, EndOK(k), NEW item \in Items,
           item \in {"ClientHello", "ServerHello"} => k.cipher \in Names,
           NEW r, r = Made(e, k, item)
    PROVE  /\ RecordOK(r)
           /\ r.keys = k.wr.keys /\ r.seq = k.wr.seq
           /\ item = "ChangeCipherSpec" <=> r.type = "ccs"
           /\ item = "Alert" <=> r.type = "alert"
           /\ item \notin {"ChangeCipherSpec", "Alert"} => IsMsg(r, item)
           /\ item = "ClientHello" => r.body.random = k.cr
           /\ item = "ServerHello" => r.body.random = k.sr
           /\ ~Gives(r) /\ ~Closes(r)
<1>1. /\ r.keys = k.wr.keys /\ r.seq = k.wr.seq
      /\ item = "ChangeCipherSpec" <=> r.type = "ccs"
      /\ item = "Alert" <=> r.type = "alert"
      /\ item \notin {"ChangeCipherSpec", "Alert"} => r.type = "hs"
      /\ r.body = Body(e, k, item)
  BY DEF Made, Record
<1>2. r.type \in {"ccs", "alert", "hs"}
  BY DEF Made, Record
<1>3. r.keys \in KeyBlocks /\ r.seq \in Nat
  BY <1>1 DEF EndOK, States
<1>4. ~Gives(r) /\ ~Closes(r)
  <2>1. item = "Alert" => r.body.msg = "Alert"
    BY <1>1 DEF Body
  <2> QED
    BY <1>1, <1>2, <2>1 DEF Gives, Closes
<1>5. CASE item = "ClientHello"
  BY <1>1, <1>2, <1>3, <1>4, <1>5 DEF Body, RecordOK, IsMsg, EndOK
<1>6. CASE item = "ServerHello"
  BY <1>1, <1>2, <1>3, <1>4, <1>6 DEF Body, RecordOK, IsMsg, EndOK
<1>7. CASE item = "ClientKeyExchange"
  BY <1>1, <1>2, <1>3, <1>4, <1>7 DEF Body, RecordOK, IsMsg, EndOK
<1>8. CASE item \in {"ChangeCipherSpec", "Alert"}
  BY <1>1, <1>2, <1>3, <1>4, <1>8 DEF RecordOK, IsMsg
<1>9. CASE item \in {"Certificate", "ServerHelloDone", "Finished"}
  <2>1. r.body.msg = item
    BY <1>1, <1>9 DEF Body
  <2> QED
    BY <1>1, <1>2, <1>3, <1>4, <1>9, <2>1 DEF RecordOK, IsMsg
<1> QED
  BY <1>5, <1>6, <1>7, <1>8, <1>9 DEF Items, PlainItems

LEMMA WroteOK ==
    ASSUME NEW e, NEW k, EndOK(k), NEW item \in Items,
           item = "ClientKeyExchange" \/ item = "ServerHello" => k.cipher \in Names,
           NEW n, n = Wrote(e, k, item)
    PROVE  EndOK(n)
<1>1. k.wr \in States /\ k.keys \in KeyBlocks /\ IsEnd(k)
  BY DEF EndOK
<1>2. CASE item \in PlainItems \/ (item = "ServerHello" /\ ~k.resumed)
  <2>1. Differs(k, n, {"wr", "log"}) /\ n.wr \in States
    BY <1>1, <1>2, WrotePlain, CountedIs
  <2> QED
    BY <2>1 DEF EndOK, Differs, Fields
<1>3. CASE item = "ChangeCipherSpec"
  <2>1. Differs(k, n, {"wr"}) /\ n.wr \in States
    BY <1>1, <1>3, WroteCcs, SwitchedIs
  <2> QED
    BY <2>1 DEF EndOK, Differs, Fields
<1>4. CASE item = "ClientKeyExchange" \/ (item = "ServerHello" /\ k.resumed)
  <2>1. Differs(k, n, {"wr", "log", "ms", "keys"}) /\ n.wr \in States /\ Derives(k, n, k.cr)
    BY <1>1, <1>4, WroteDerived, CountedIs
  <2>2. n.ms \in Secrets /\ n.keys \in KeyBlocks
    BY <1>4, <2>1, DerivesKeys DEF EndOK
  <2> QED
    BY <2>1, <2>2 DEF EndOK, Differs, Fields
<1> QED
  BY <1>2, <1>3, <1>4 DEF Items

-----------------------------------------------------------------------------
(* The inductive invariant *)

\* The phase of an end is the message it expects, or the answer it has to
\* finish first.
Pending(k) ==
    CASE k.alert -> k.hs
      [] ~k.alert /\ k.hs = "ClientKeyExchange" -> "greeting"
      [] ~k.alert /\ k.hs = "Finished" -> "switching"
      [] ~k.alert /\ k.hs = "DONE" -> "finishing"
      [] ~k.alert /\ k.hs = "HelloRequest" -> "asked"
      [] OTHER -> "none"
Phase(k) == IF k.room >= 0 THEN Pending(k) ELSE k.hs

Waiting == {"ServerHello", "Certificate", "ServerHelloDone"}
ClientDone == {"DONE", "finishing", "asked"}
ServerDone == {"DONE", "finishing"}

\* Key blocks are numbered by both randoms; 0 is for none, and without keys
\* nothing is counted.
Numbered(keys) == (keys.cr = 0 <=> keys = NoKeys) /\ (keys.sr = 0 <=> keys = NoKeys)
Shaped(k) ==
    /\ Numbered(k.keys) /\ Numbered(k.rd.keys) /\ Numbered(k.wr.keys)
    /\ ~Secure(k.rd) => k.rd.seq = 0
    /\ ~Secure(k.wr) => k.wr.seq = 0

\* Except between ChangeCipherSpec and Finished, something was read with the
\* keys: a second Finished, whose number is 0, would not be read.
Fresh(p, k) ==
    Secure(k.rd) /\ (p # "Finished" \/ k.rd.keys.cr # k.cr) => k.rd.seq >= 1

\* An end that is done reads with its keys and writes with them, or is about
\* to write ChangeCipherSpec or Finished.
DoneKeys(p, k) ==
    /\ k.rd.keys = k.keys
    /\ Secure(k.rd)
    /\ k.wr.keys # k.keys => p = "finishing" /\ k.wr.keys.cr < k.keys.cr
    /\ p = "finishing" /\ k.wr.keys = k.keys => k.wr.seq = 0

\* The client: which keys it has, reads and writes with in each phase.
ClientKeys(p, c) ==
    /\ p \in Waiting \cup {"switching", "Finished"} \cup ClientDone
    /\ c.keys.cr <= c.cr
    /\ \A x \in {c.rd, c.wr} :
          /\ x.keys.cr <= c.keys.cr
          /\ x.keys.cr >= c.cr - 1
          /\ x.keys.cr = c.keys.cr => x.keys = c.keys
    /\ p \in Waiting \cup {"switching"} =>
          /\ c.rd.keys = c.keys /\ c.wr.keys = c.keys
          /\ IF c.cr = 0 THEN p = "ServerHello" ELSE c.keys.cr = c.cr - 1
    /\ p \in {"Certificate", "ServerHelloDone", "switching"} => ~c.resumed /\ c.sr > 0
    /\ p = "Finished" =>
          /\ c.cr > 0
          /\ c.keys.cr = c.cr
          /\ IF c.resumed THEN c.wr.keys.cr < c.cr ELSE c.wr.keys = c.keys
    /\ p \in ClientDone => c.cr > 0 /\ c.keys.cr = c.cr /\ DoneKeys(p, c)
    /\ Fresh(p, c)

\* The server, whose keys are ordered by its own random.
ServerKeys(q, s) ==
    /\ q \in {"ClientHello", "greeting", "ClientKeyExchange", "switching", "Finished"}
             \cup ServerDone
    /\ s.keys.cr <= s.cr /\ s.keys.sr <= s.sr
    /\ \A x \in {s.rd, s.wr} :
          /\ x.keys.sr <= s.keys.sr
          /\ x.keys.cr <= s.keys.cr
          /\ x.keys.sr = s.keys.sr => x.keys = s.keys
    /\ q = "ClientHello" => s.keys = NoKeys /\ (~s.alert => s.cr = 0)
    /\ q \in {"greeting", "ClientKeyExchange"} =>
          /\ ~s.resumed
          /\ s.keys.cr < s.cr
          /\ s.rd.keys = s.keys /\ s.wr.keys = s.keys
    /\ q = "ClientKeyExchange" => s.keys.sr < s.sr
    /\ q = "switching" => s.resumed /\ s.rd.keys.cr < s.cr
    /\ q = "Finished" =>
          /\ s.keys.cr = s.cr /\ s.keys.sr = s.sr
          /\ s.rd.keys.cr = s.cr => s.rd.keys = s.keys
          /\ IF s.resumed THEN s.wr.keys = s.keys ELSE s.wr.keys.cr < s.cr
    /\ q \in ServerDone =>
          /\ s.keys.sr = s.sr
          /\ ~s.alert => s.keys.cr = s.cr
          /\ DoneKeys(q, s)
    /\ Fresh(q, s)

\* The two: at most one hello of the client is not yet known to the server;
\* an end that is done has the keys of the other; all older keys are the same.
\* The reader of a direction is never ahead of its writer.
Joint(p, c, q, s) ==
    /\ s.cr \in {c.cr - 1, c.cr} /\ s.cr >= 0
    /\ s.cr < c.cr => p = "ServerHello" /\ c.keys = s.keys /\ q # "switching"
    /\ p \in ClientDone \/ q \in ServerDone => c.keys = s.keys
    /\ q \in ServerDone /\ s.keys.cr < c.cr => p = "ServerHello"
    /\ q = "switching" => c.cr = s.cr /\ p \notin ClientDone
    /\ c.cr = s.cr =>
          \A k, m \in {c.rd.keys, c.wr.keys, c.keys, s.rd.keys, s.wr.keys, s.keys} :
             k.cr < c.cr /\ m.cr < c.cr => k = m
    /\ c.rd.keys.cr <= s.wr.keys.cr /\ s.rd.keys.cr <= c.wr.keys.cr
    /\ c.rd.keys = s.wr.keys => c.rd.seq <= s.wr.seq
    /\ s.rd.keys = c.wr.keys => s.rd.seq <= c.wr.seq
    /\ c.rd.seq >= 1 => c.rd.keys.sr <= s.wr.keys.sr

\* A record made with the keys its writer has now was counted by it; a
\* ChangeCipherSpec never was, and goes out under the same keys again only when
\* its Finished did not fit.
Counts(k, X) ==
    \A r \in X :
        /\ ~Secure(r) => r.seq = 0
        /\ IsMsg(r, "Finished") => Secure(r) /\ r.seq = 0
        /\ r.keys = k.wr.keys /\ Secure(r) =>
              IF r.type = "ccs" THEN r.seq = 0 ELSE r.seq < k.wr.seq

\* What is on its way to the server and to the client.
ToServer(c, Y) ==
    /\ \A r \in Y :
          /\ r.keys.cr <= c.wr.keys.cr
          /\ r.keys.cr = c.wr.keys.cr => r.keys = c.wr.keys
          /\ r.type = "ccs" /\ r.keys = c.wr.keys => Secure(r)
          /\ IsMsg(r, "ClientHello") => r.keys.cr < r.body.random /\ r.body.random <= c.cr
    /\ Counts(c, Y)
ToClient(q, s, X) ==
    /\ \A r \in X :
          /\ r.keys.cr <= s.wr.keys.cr /\ r.keys.sr <= s.wr.keys.sr
          /\ r.keys.sr = s.wr.keys.sr => r.keys = s.wr.keys
          /\ r.type = "ccs" /\ r.keys = s.wr.keys => Secure(r)
          /\ IsMsg(r, "ServerHello") =>
                r.keys.sr < r.body.random /\ r.body.random <= s.sr /\ s.cr > 0
          /\ IsMsg(r, "Finished") =>
                /\ r.keys.cr <= s.keys.cr
                /\ r.keys.cr = s.keys.cr => r.keys = s.keys
                /\ q = "switching" => r.keys.cr < s.cr
    /\ Counts(s, X)

\* A random of the server that the client knows is no newer than those the
\* server has, and has switched to if it has keys for the client's random: a
\* ServerHello that is not written with the server's keys was sent before they
\* were switched to.  The server reads with keys at most one handshake old.
Behind(p, c, s, X) ==
    /\ c.keys.sr <= s.sr
    /\ c.rd.keys.sr <= s.wr.keys.sr
    /\ c.keys.cr = s.wr.keys.cr => c.keys.sr <= s.wr.keys.sr
    /\ p \in {"Certificate", "ServerHelloDone", "switching"} =>
          c.sr <= s.sr /\ (c.cr = s.wr.keys.cr => c.sr <= s.wr.keys.sr)
    /\ s.rd.keys.cr >= s.cr - 1
    /\ \A r \in X :
          IsMsg(r, "ServerHello") /\ r.keys # s.wr.keys => r.body.random <= s.wr.keys.sr

Keys(p, c, q, s, X, Y) ==
    /\ Shaped(c) /\ Shaped(s)
    /\ ClientKeys(p, c)
    /\ ServerKeys(q, s)
    /\ Joint(p, c, q, s)
    /\ Behind(p, c, s, X)
    /\ ToServer(c, Y)
    /\ ToClient(q, s, X)

\* How much data went before the n-th record of a key block: one number for
\* every key block and sequence number, of which only those matter that a
\* record on its way, the writer or the reader has.
Tallies == [KeyBlocks \X Nat -> Nat]
Before(F, keys, n) == F[<<keys, n>>]
At(F, x) == Before(F, x.keys, x.seq)

\* What the record r from a to b says of the data before it, and does to it.  A
\* ChangeCipherSpec that b may read with the keys of its handshake is one of an
\* answer that was given up and begun again.
Carries(F, a, b, r) ==
    /\ Gives(r) =>
          /\ Secure(r)
          /\ At(F, r) = r.body - 1 /\ Before(F, r.keys, r.seq + 1) = r.body
          /\ r.body <= a.sent
    /\ Closes(r) => At(F, r) = a.final
    /\ Secure(r) /\ r.type # "ccs" /\ ~Gives(r) => Before(F, r.keys, r.seq + 1) = At(F, r)
    /\ r.type = "ccs" /\ r.keys.cr = b.cr => At(F, r) = Before(F, r.keys, 0)

\* The keys in use from a to b, and the ChangeCipherSpecs that b can still
\* read: no data is lost between one of them and what follows it.
InUse(a, X) == {a.wr.keys} \cup {r.keys : r \in X}
Awaited(b, r) == r.type = "ccs" /\ r.keys = b.rd.keys /\ r.seq >= b.rd.seq
Leads(F, a, b, X) ==
    \A r \in X : Awaited(b, r) =>
        \A keys \in InUse(a, X) : keys.cr = r.keys.cr + 1 => Before(F, keys, 0) = At(F, r)

Tally(F, a, b, X) ==
    /\ At(F, a.wr) = a.sent
    /\ At(F, b.rd) = b.got
    /\ a.hs = "Finished" /\ a.wr.keys.cr = a.cr => Before(F, a.wr.keys, 0) = a.sent
    /\ b.closed => b.got = a.final
    /\ \A r \in X : Carries(F, a, b, r)
    /\ Leads(F, a, b, X)

\* The records X from a to b bring all the data that a has sent and b has not.
Flow(a, b, X) == \E F \in Tallies : Tally(F, a, b, X)

\* Both directions of an end.
Flows(a, b, In, Out) == Flow(a, b, Out) /\ Flow(b, a, In)

Typed(c, s, X, Y) ==
    /\ EndOK(c) /\ ClientNamed(c) /\ EndOK(s) /\ ServerNamed(s)
    /\ \A r \in X \cup Y : RecordOK(r)

Fine(p, c, q, s, X, Y) ==
    Typed(c, s, X, Y) /\ Keys(p, c, q, s, X, Y) /\ Flows(c, s, X, Y)

\* An end that is to send an alert has sent it or has its room.
Told(k) == k.alert => k.error \/ k.room >= 0
Rest ==
    /\ \A x \in sessions : SessionOK(x)
    /\ requests \in Nat /\ faults \in Nat /\ excuses \subseteq Excuses
Pair(f, x, y) == f = [e \in Ends |-> f[e]] /\ f["c"] = x /\ f["s"] = y

\* What holds of a state with the ends c and s and the records x and y.
View(c, s, x, y) ==
    /\ Pair(end, c, s) /\ Pair(wire, x, y)
    /\ Listed(x) /\ Listed(y)
    /\ Told(c) /\ Told(s)
    /\ Rest
    /\ Fine(Phase(c), c, Phase(s), s, ToSet(x), ToSet(y))

IInv == View(end["c"], end["s"], wire["c"], wire["s"])

-----------------------------------------------------------------------------
(* The data on its way *)

\* The numbers in ends and records, for the leaves below.
Numeric(k) ==
    /\ k.cr \in Nat /\ k.keys.cr \in Nat /\ k.rd.keys.cr \in Nat /\ k.wr.keys.cr \in Nat
    /\ k.sr \in Nat /\ k.keys.sr \in Nat /\ k.rd.keys.sr \in Nat /\ k.wr.keys.sr \in Nat
    /\ k.rd.seq \in Nat /\ k.wr.seq \in Nat
    /\ k.resumed \in BOOLEAN /\ k.alert \in BOOLEAN
Numerics(X) ==
    \A r \in X :
        /\ r.keys.cr \in Nat /\ r.keys.sr \in Nat /\ r.seq \in Nat
        /\ IsMsg(r, "ClientHello") \/ IsMsg(r, "ServerHello") => r.body.random \in Nat

LEMMA NoKeysNumbers == NoKeys.cr = 0 /\ NoKeys.sr = 0
  BY DEF NoKeys

LEMMA NumericKeys == ASSUME NEW k \in KeyBlocks PROVE k.cr \in Nat /\ k.sr \in Nat
  BY NoKeysNumbers DEF KeyBlocks

LEMMA NumericEnd == ASSUME NEW k, EndOK(k) PROVE Numeric(k)
<1>1. k.keys \in KeyBlocks /\ k.rd.keys \in KeyBlocks /\ k.wr.keys \in KeyBlocks
  BY DEF EndOK, States
<1>2. k.rd.seq \in Nat /\ k.wr.seq \in Nat
  BY DEF EndOK, States
<1> QED
  BY <1>1, <1>2, NumericKeys DEF EndOK, Numeric

LEMMA NumericRecords == ASSUME NEW X, \A r \in X : RecordOK(r) PROVE Numerics(X)
  BY NumericKeys DEF RecordOK, Numerics

\* One value of a tally is changed.
Recounted(F, G, keys, n, v) ==
    \A k \in KeyBlocks, m \in Nat :
        Before(G, k, m) = IF k = keys /\ m = n THEN v ELSE Before(F, k, m)

LEMMA Recount ==
    ASSUME NEW F \in Tallies, NEW keys \in KeyBlocks, NEW n \in Nat, NEW v \in Nat
    PROVE  \E G \in Tallies : Recounted(F, G, keys, n, v)
<1>1. PICK G : G = [F EXCEPT ![<<keys, n>>] = v]
  OBVIOUS
<1>2. G \in Tallies
  BY <1>1 DEF Tallies
<1>3. ASSUME NEW k \in KeyBlocks, NEW m \in Nat
      PROVE  Before(G, k, m) = IF k = keys /\ m = n THEN v ELSE Before(F, k, m)
  BY <1>1 DEF Tallies, Before
<1> QED
  BY <1>2, <1>3 DEF Recounted

LEMMA BeforeIs ==
    ASSUME NEW F \in Tallies, NEW keys \in KeyBlocks, NEW n \in Nat
    PROVE  Before(F, keys, n) \in Nat
  BY DEF Tallies, Before

\* What the lemmas below need to know of a writer a, a reader b and the
\* records X between them.
Way(a, b, X) ==
    /\ EndOK(a) /\ EndOK(b) /\ \A r \in X : RecordOK(r)
    /\ ~Secure(a.wr) => a.wr.seq = 0
    /\ Counts(a, X)
    /\ \A r \in X : r.keys.cr <= a.wr.keys.cr
    /\ b.rd.keys = a.wr.keys => b.rd.seq <= a.wr.seq

WayNumbers(a, b, X) ==
    /\ a.wr.keys \in KeyBlocks /\ a.wr.seq \in Nat /\ a.wr.keys.cr \in Nat /\ a.cr \in Nat
    /\ b.rd.keys \in KeyBlocks /\ b.rd.seq \in Nat /\ b.rd.keys.cr \in Nat /\ b.cr \in Nat
    /\ a.sent \in Nat /\ b.got \in Nat /\ a.final \in Int
    /\ \A r \in X : r.keys \in KeyBlocks /\ r.seq \in Nat /\ r.keys.cr \in Nat

LEMMA WayIs ==
    ASSUME NEW a, NEW b, NEW X, Way(a, b, X)
    PROVE  WayNumbers(a, b, X)
<1>1. /\ a.wr \in States /\ a.cr \in Nat /\ a.sent \in Nat /\ a.final \in -1 .. a.sent
      /\ b.rd \in States /\ b.cr \in Nat /\ b.got \in Nat
  BY DEF Way, EndOK
<1>2. /\ a.wr.keys \in KeyBlocks /\ a.wr.seq \in Nat
      /\ b.rd.keys \in KeyBlocks /\ b.rd.seq \in Nat
      /\ a.final \in Int
  BY <1>1 DEF States
<1>3. \A r \in X : r.keys \in KeyBlocks /\ r.seq \in Nat
  BY DEF Way, RecordOK
<1> QED
  BY <1>1, <1>2, <1>3, NumericKeys DEF WayNumbers

\* n writes on with nothing else of its data changed.
Kept(k, n) == n.sent = k.sent /\ n.got = k.got /\ n.final = k.final /\ n.closed = k.closed
Steady(k, n) ==
    n.hs = "Finished" /\ n.wr.keys.cr = n.cr => k.hs = "Finished" /\ k.wr.keys.cr = k.cr

\* Nothing of the data changes, and records are lost.
LEMMA FlowStays ==
    ASSUME NEW a, NEW b, NEW X, Flow(a, b, X),
           NEW n, n.wr = a.wr /\ n.sent = a.sent /\ n.final = a.final, Steady(a, n),
           NEW m, m.rd = b.rd /\ m.got = b.got /\ m.closed = b.closed,
           NEW Z, Z \subseteq X,
           \A r \in Z : r.type = "ccs" /\ r.keys.cr = m.cr => m.cr = b.cr
    PROVE  Flow(n, m, Z)
<1>1. PICK F \in Tallies : Tally(F, a, b, X)
  BY DEF Flow
<1>2. \A r \in Z : Carries(F, n, m, r)
  BY <1>1 DEF Tally, Carries
<1>3. Leads(F, n, m, Z)
  BY <1>1 DEF Tally, Leads, InUse, Awaited
<1>4. Tally(F, n, m, Z)
  BY <1>1, <1>2, <1>3 DEF Tally, Steady
<1> QED
  BY <1>4 DEF Flow

\* A record that is neither application data nor a closure, application data,
\* or the closure.
Adds(a, n, w) ==
    \/ n.sent = a.sent /\ n.final = a.final /\ ~Gives(w) /\ ~Closes(w)
    \/ /\ n.sent = a.sent + 1 /\ n.final = a.final /\ n.hs # "Finished"
       /\ Gives(w) /\ ~Closes(w) /\ Secure(a.wr) /\ w.body = a.sent + 1
    \/ n.sent = a.sent /\ n.final = a.sent /\ a.final = -1 /\ ~Gives(w) /\ Closes(w)

\* What is written is counted where the writer is.
LEMMA FlowWrites ==
    ASSUME NEW a, NEW b, NEW X, Way(a, b, X), Flow(a, b, X),
           NEW w, w.keys = a.wr.keys, w.seq = a.wr.seq, w.type # "ccs",
           NEW n, EndOK(n), Advances(a.wr, n.wr), Steady(a, n), Adds(a, n, w)
    PROVE  Flow(n, b, X \cup {w})
<1>1. PICK F \in Tallies : Tally(F, a, b, X)
  BY DEF Flow
<1>2. WayNumbers(a, b, X) /\ n.sent \in Nat
  BY WayIs DEF EndOK
<1>3. PICK G \in Tallies :
         IF Secure(a.wr) THEN Recounted(F, G, a.wr.keys, a.wr.seq + 1, n.sent) ELSE G = F
  <2>1. a.wr.keys \in KeyBlocks /\ a.wr.seq + 1 \in Nat /\ n.sent \in Nat
    BY <1>2 DEF WayNumbers
  <2>2. \E G \in Tallies : Recounted(F, G, a.wr.keys, a.wr.seq + 1, n.sent)
    BY <2>1, Recount
  <2>3. CASE Secure(a.wr)
    BY <2>2, <2>3
  <2>4. CASE ~Secure(a.wr)
    BY <2>4
  <2> QED
    BY <2>3, <2>4
<1>4. ASSUME NEW keys \in KeyBlocks, NEW m \in Nat,
             keys = a.wr.keys /\ Secure(a.wr) => m <= a.wr.seq
      PROVE  Before(G, keys, m) = Before(F, keys, m)
  BY <1>2, <1>3, <1>4 DEF WayNumbers, Recounted
<1>5. At(G, a.wr) = a.sent /\ At(G, n.wr) = n.sent
  <2>1. At(G, a.wr) = a.sent
    BY <1>1, <1>2, <1>4 DEF Tally, At, WayNumbers
  <2>2. CASE Secure(a.wr)
    BY <1>2, <1>3, <2>1, <2>2 DEF Recounted, At, Advances, WayNumbers
  <2>3. CASE ~Secure(a.wr)
    BY <2>1, <2>3 DEF At, Advances, Adds
  <2> QED
    BY <2>1, <2>2, <2>3
<1>6. At(G, b.rd) = b.got
  <2>1. At(G, b.rd) = At(F, b.rd)
    BY <1>2, <1>4 DEF At, WayNumbers, Way
  <2> QED
    BY <1>1, <2>1 DEF Tally
<1>7. n.hs = "Finished" /\ n.wr.keys.cr = n.cr => Before(G, n.wr.keys, 0) = n.sent
  <2>1. Before(G, a.wr.keys, 0) = Before(F, a.wr.keys, 0)
    BY <1>2, <1>4 DEF WayNumbers
  <2> QED
    BY <1>1, <2>1 DEF Tally, Advances, Steady, Adds
<1>8. b.closed => b.got = n.final
  BY <1>1, <1>2 DEF Tally, Adds, WayNumbers
<1>9. ASSUME NEW r \in X PROVE Carries(G, n, b, r)
  <2>1. Carries(F, a, b, r) /\ r.keys \in KeyBlocks /\ r.seq \in Nat
    BY <1>1, <1>2 DEF Tally, WayNumbers
  <2>2. At(G, r) = At(F, r) /\ Before(G, r.keys, 0) = Before(F, r.keys, 0)
    BY <1>2, <1>4, <2>1 DEF At, Way, WayNumbers, Counts, Secure
  <2>3. Secure(r) /\ r.type # "ccs" =>
           Before(G, r.keys, r.seq + 1) = Before(F, r.keys, r.seq + 1)
    BY <1>2, <1>4, <2>1 DEF Way, WayNumbers, Counts
  <2>4. At(F, r) \in Nat
    BY <2>1, BeforeIs DEF At
  <2>5. Gives(r) => r.type # "ccs" /\ r.body \in Nat
    BY DEF Gives, Way, RecordOK
  <2>6. Closes(r) => n.final = a.final
    BY <2>1, <2>4 DEF Carries, Adds
  <2> QED
    BY <1>2, <2>1, <2>2, <2>3, <2>5, <2>6 DEF Carries, Adds, WayNumbers
<1>10. Carries(G, n, b, w)
  <2>1. At(G, w) = a.sent
    BY <1>5 DEF At
  <2>2. Secure(w) => Before(G, w.keys, w.seq + 1) = n.sent
    BY <1>5 DEF At, Advances, Secure
  <2> QED
    BY <1>2, <2>1, <2>2 DEF Carries, Adds, WayNumbers, Secure
<1>11. Leads(G, n, b, X \cup {w})
  <2>1. InUse(n, X \cup {w}) = InUse(a, X)
    BY DEF InUse, Advances
  <2>2. ASSUME NEW r \in X, r.type = "ccs", NEW keys \in InUse(a, X)
        PROVE  At(G, r) = At(F, r) /\ Before(G, keys, 0) = Before(F, keys, 0)
    BY <1>2, <1>4, <2>2 DEF At, Way, WayNumbers, Counts, Secure, InUse
  <2> QED
    BY <1>1, <2>1, <2>2 DEF Tally, Leads, Awaited
<1>12. Tally(G, n, b, X \cup {w})
  BY <1>5, <1>6, <1>7, <1>8, <1>9, <1>10, <1>11 DEF Tally
<1> QED
  BY <1>12 DEF Flow

\* What is read was counted by the writer.
LEMMA FlowReads ==
    ASSUME NEW a, NEW b, NEW X, Way(a, b, X), Flow(a, b, X),
           NEW r \in X, r.keys = b.rd.keys, r.seq = b.rd.seq, r.type # "ccs",
           NEW n, Advances(b.rd, n.rd),
           n.got = IF Gives(r) THEN r.body ELSE b.got,
           n.closed => Closes(r) \/ (b.closed /\ n.got = b.got),
           \A x \in X : x.type = "ccs" /\ x.keys.cr = n.cr => n.cr = b.cr
    PROVE  Flow(a, n, X)
<1>1. PICK F \in Tallies : Tally(F, a, b, X)
  BY DEF Flow
<1>2. WayNumbers(a, b, X)
  BY WayIs
<1>3. Carries(F, a, b, r) /\ At(F, b.rd) = b.got /\ At(F, r) = b.got
  BY <1>1 DEF Tally, At
<1>4. At(F, n.rd) = n.got
  BY <1>2, <1>3 DEF WayNumbers, Carries, At, Advances, Secure
<1>5. n.closed => n.got = a.final
  <2>1. Closes(r) => ~Gives(r)
    BY DEF Closes, Gives
  <2> QED
    BY <1>1, <1>3, <2>1 DEF Tally, Carries
<1>6. \A x \in X : Carries(F, a, n, x)
  BY <1>1 DEF Tally, Carries
<1>7. Leads(F, a, n, X)
  BY <1>1, <1>2 DEF Tally, Leads, Awaited, Advances, WayNumbers
<1>8. Tally(F, a, n, X)
  BY <1>1, <1>4, <1>5, <1>6, <1>7 DEF Tally
<1> QED
  BY <1>8 DEF Flow

\* Application data is the next of what was sent.
LEMMA Delivered ==
    ASSUME NEW a, NEW b, NEW X, Way(a, b, X), Flow(a, b, X),
           NEW r \in X, r.keys = b.rd.keys, r.seq = b.rd.seq, Gives(r)
    PROVE  r.body = b.got + 1 /\ b.got < a.sent
<1>1. PICK F \in Tallies : Tally(F, a, b, X)
  BY DEF Flow
<1>2. Carries(F, a, b, r) /\ At(F, r) = b.got
  BY <1>1 DEF Tally, At
<1>3. b.got \in Nat /\ a.sent \in Nat /\ r.body \in Nat
  BY DEF Way, EndOK, RecordOK, Gives
<1> QED
  BY <1>2, <1>3 DEF Carries

\* sslActivateWriteCipher: the new keys begin where the old ones end.
LEMMA FlowSwitches ==
    ASSUME NEW a, NEW b, NEW X, Way(a, b, X), Flow(a, b, X),
           NEW w, w.keys = a.wr.keys, w.seq = a.wr.seq, w.type = "ccs",
           NEW keys \in KeyBlocks, keys # a.wr.keys, keys # b.rd.keys,
           \A r \in X : r.keys # keys,
           a.wr.keys.cr = b.cr => a.hs = "Finished" /\ a.cr = b.cr,
           keys.cr = b.rd.keys.cr + 1 =>
              IF b.rd.keys = a.wr.keys THEN Secure(b.rd) => b.rd.seq >= 1
              ELSE a.wr.keys.cr = keys.cr /\ a.hs = "Finished" /\ a.cr = keys.cr,
           NEW n, Switches(n.wr, keys), n.sent = a.sent, n.final = a.final
    PROVE  Flow(n, b, X \cup {w})
<1>1. PICK F \in Tallies : Tally(F, a, b, X)
  BY DEF Flow
<1>2. WayNumbers(a, b, X)
  BY WayIs
<1>3. PICK G \in Tallies : Recounted(F, G, keys, 0, a.sent)
  BY <1>2, Recount DEF WayNumbers
<1>4. ASSUME NEW k \in KeyBlocks, NEW m \in Nat, k # keys
      PROVE  Before(G, k, m) = Before(F, k, m)
  BY <1>3, <1>4 DEF Recounted
<1>5. Before(G, keys, 0) = a.sent
  BY <1>3 DEF Recounted
<1>6. At(G, a.wr) = a.sent /\ At(G, b.rd) = b.got
  BY <1>1, <1>2, <1>4 DEF Tally, At, WayNumbers
<1>7. ASSUME NEW r \in X PROVE Carries(G, n, b, r)
  <2>1. Carries(F, a, b, r) /\ r.keys \in KeyBlocks /\ r.seq \in Nat
    BY <1>1, <1>2 DEF Tally, WayNumbers
  <2>2. /\ At(G, r) = At(F, r) /\ Before(G, r.keys, 0) = Before(F, r.keys, 0)
        /\ Before(G, r.keys, r.seq + 1) = Before(F, r.keys, r.seq + 1)
    BY <1>4, <2>1 DEF At
  <2> QED
    BY <2>1, <2>2 DEF Carries
<1>8. Carries(G, n, b, w)
  <2>1. a.wr.keys.cr = b.cr => Before(G, a.wr.keys, 0) = a.sent
    BY <1>1, <1>2, <1>4 DEF Tally, WayNumbers
  <2>2. At(G, w) = a.sent
    BY <1>6 DEF At
  <2> QED
    BY <2>1, <2>2 DEF Carries, Gives, Closes
<1>9. ASSUME NEW r \in X \cup {w}, Awaited(b, r),
             NEW k \in InUse(n, X \cup {w}), k.cr = r.keys.cr + 1
      PROVE  Before(G, k, 0) = At(G, r)
  <2>1. k = keys \/ k \in InUse(a, X)
    BY DEF InUse, Switches
  <2>2. r.keys \in KeyBlocks /\ r.seq \in Nat /\ r.keys = b.rd.keys /\ r.keys # keys
        /\ r.type = "ccs"
    BY <1>2, <1>9 DEF WayNumbers, Awaited
  <2>3. At(G, r) = At(F, r)
    BY <1>4, <2>2 DEF At
  <2>4. CASE r = w
    <3>1. k = keys
      BY <1>2, <1>9, <2>1, <2>4 DEF Way, WayNumbers, InUse
    <3> QED
      BY <1>5, <1>6, <2>4, <3>1 DEF At
  <2>5. CASE r \in X /\ k # keys
    <3>1. Before(F, k, 0) = At(F, r)
      BY <1>1, <1>9, <2>1, <2>5 DEF Tally, Leads
    <3>2. k \in KeyBlocks
      BY <1>2, <2>1, <2>5 DEF WayNumbers, InUse
    <3> QED
      BY <1>4, <2>3, <2>5, <3>1, <3>2
  <2>6. CASE r \in X /\ k = keys /\ b.rd.keys = a.wr.keys
    <3>1. ~Secure(r)
      BY <1>2, <1>9, <2>2, <2>6 DEF Way, WayNumbers, Counts, Secure, Awaited
    <3>2. r.seq = 0 /\ a.wr.seq = 0
      BY <2>2, <2>6, <3>1 DEF Way, Counts, Secure
    <3> QED
      BY <1>5, <1>6, <2>2, <2>6, <3>2 DEF At
  <2>7. CASE r \in X /\ k = keys /\ b.rd.keys # a.wr.keys
    <3>1. a.wr.keys.cr = r.keys.cr + 1 /\ a.hs = "Finished" /\ a.wr.keys.cr = a.cr
      BY <1>9, <2>2, <2>7
    <3>2. Before(F, a.wr.keys, 0) = At(F, r) /\ Before(F, a.wr.keys, 0) = a.sent
      BY <1>1, <1>9, <2>7, <3>1 DEF Tally, Leads, InUse
    <3> QED
      BY <1>5, <2>3, <2>7, <3>2
  <2> QED
    BY <2>4, <2>5, <2>6, <2>7
<1>10. At(G, n.wr) = n.sent /\ Before(G, n.wr.keys, 0) = n.sent
  BY <1>5 DEF At, Switches
<1>11. b.closed => b.got = n.final
  BY <1>1 DEF Tally
<1>12. Tally(G, n, b, X \cup {w})
  BY <1>6, <1>7, <1>8, <1>9, <1>10, <1>11 DEF Tally, Leads
<1> QED
  BY <1>12 DEF Flow

\* ChangeCipherSpec is sent again, after a Finished that did not fit.
LEMMA FlowRepeats ==
    ASSUME NEW a, NEW b, NEW X, Way(a, b, X), Flow(a, b, X),
           NEW w, w.keys = a.wr.keys, w.seq = a.wr.seq, w.type = "ccs", a.wr.seq = 0,
           NEW n, Switches(n.wr, a.wr.keys), n.sent = a.sent, n.final = a.final, Steady(a, n)
    PROVE  Flow(n, b, X \cup {w})
<1>1. PICK F \in Tallies : Tally(F, a, b, X)
  BY DEF Flow
<1>2. WayNumbers(a, b, X)
  BY WayIs
<1>3. At(F, n.wr) = n.sent
  BY <1>1 DEF Tally, At, Switches
<1>4. \A r \in X \cup {w} : Carries(F, n, b, r)
  BY <1>1 DEF Tally, Carries, At, Gives, Closes
<1>5. Leads(F, n, b, X \cup {w})
  <2>1. InUse(n, X \cup {w}) = InUse(a, X)
    BY DEF InUse, Switches
  <2>2. \A keys \in InUse(a, X) : keys.cr # w.keys.cr + 1
    BY <1>2 DEF Way, WayNumbers, InUse
  <2> QED
    BY <1>1, <2>1, <2>2 DEF Tally, Leads
<1>6. Tally(F, n, b, X \cup {w})
  BY <1>1, <1>3, <1>4, <1>5 DEF Tally, Switches, Steady
<1> QED
  BY <1>6 DEF Flow

\* sslActivateReadCipher: no data is between ChangeCipherSpec and what
\* follows it.
LEMMA FlowTurns ==
    ASSUME NEW a, NEW b, NEW X, Way(a, b, X), Flow(a, b, X),
           NEW r \in X, r.keys = b.rd.keys, r.seq = b.rd.seq, r.type = "ccs",
           NEW keys \in KeyBlocks, a.wr.keys.cr <= keys.cr,
           IF keys = b.rd.keys THEN keys.cr = b.cr ELSE keys.cr = b.rd.keys.cr + 1,
           NEW n, Switches(n.rd, keys), n.got = b.got, n.closed = b.closed, n.cr = b.cr
    PROVE  Flow(a, n, X)
<1>1. PICK F \in Tallies : Tally(F, a, b, X)
  BY DEF Flow
<1>2. WayNumbers(a, b, X) /\ keys.cr \in Nat
  BY WayIs, NumericKeys
<1>3. Carries(F, a, b, r) /\ At(F, r) = b.got /\ Awaited(b, r)
  BY <1>1, <1>2 DEF Tally, At, Awaited, WayNumbers
<1>4. PICK G \in Tallies :
         /\ Before(G, keys, 0) = b.got
         /\ \A k \in InUse(a, X), m \in Nat : Before(G, k, m) = Before(F, k, m)
  <2>1. CASE keys \in InUse(a, X)
    <3>1. Before(F, keys, 0) = b.got
      BY <1>1, <1>3, <2>1 DEF Tally, Leads, Carries
    <3> QED
      BY <3>1
  <2>2. CASE keys \notin InUse(a, X)
    <3>1. PICK G \in Tallies : Recounted(F, G, keys, 0, b.got)
      BY <1>2, Recount DEF WayNumbers
    <3>2. InUse(a, X) \subseteq KeyBlocks
      BY <1>2 DEF WayNumbers, InUse
    <3> QED
      BY <2>2, <3>1, <3>2 DEF Recounted
  <2> QED
    BY <2>1, <2>2
<1>5. At(G, a.wr) = a.sent /\ Before(G, a.wr.keys, 0) = Before(F, a.wr.keys, 0)
  BY <1>1, <1>2, <1>4 DEF Tally, At, InUse, WayNumbers
<1>6. At(G, n.rd) = n.got
  BY <1>4 DEF At, Switches
<1>7. ASSUME NEW x \in X PROVE Carries(G, a, n, x)
  <2>1. Carries(F, a, b, x) /\ x.keys \in InUse(a, X) /\ x.seq \in Nat
    BY <1>1, <1>2 DEF Tally, WayNumbers, InUse
  <2>2. /\ At(G, x) = At(F, x) /\ Before(G, x.keys, 0) = Before(F, x.keys, 0)
        /\ Before(G, x.keys, x.seq + 1) = Before(F, x.keys, x.seq + 1)
    BY <1>4, <2>1 DEF At
  <2> QED
    BY <2>1, <2>2 DEF Carries
<1>8. Leads(G, a, n, X)
  <2>1. \A k \in InUse(a, X) : k.cr \in Nat /\ k.cr <= keys.cr
    BY <1>2 DEF Way, WayNumbers, InUse
  <2> QED
    BY <1>2, <2>1 DEF Leads, Awaited, Switches
<1>9. Tally(G, a, n, X)
  BY <1>1, <1>5, <1>6, <1>7, <1>8 DEF Tally
<1> QED
  BY <1>9 DEF Flow

-----------------------------------------------------------------------------
(* Steps of the client *)

\* An alert, a closed connection, or data or a message that changes no key.
LEMMA ClientKeeps ==
    ASSUME NEW p, NEW c, NEW q, NEW s, NEW X, NEW Y, Fine(p, c, q, s, X, Y),
           NEW n, EndOK(n),
           n.rd = c.rd /\ n.cr = c.cr /\ n.keys = c.keys /\ n.wr = c.wr,
           (n.resumed = c.resumed /\ n.sr = c.sr) \/ p = "ServerHello"
    PROVE  Keys(p, n, q, s, X, Y)
<1>1. Numeric(c) /\ Numeric(s) /\ Numeric(n) /\ Numerics(X) /\ Numerics(Y)
  BY NumericEnd, NumericRecords DEF Fine, Typed
<1>2. Shaped(n)
  BY DEF Fine, Keys, Shaped
<1>3. ClientKeys(p, n)
  BY DEF Fine, Keys, Fresh, DoneKeys, ClientKeys
<1>4. Joint(p, n, q, s)
  BY DEF Fine, Keys, Joint
<1>5. ToServer(n, Y)
  BY DEF Fine, Keys, Counts, ToServer
<1>6. Behind(p, n, s, X)
  BY DEF Fine, Keys, Behind
<1> QED
  BY <1>2, <1>3, <1>4, <1>5, <1>6 DEF Fine, Keys

\* Any record but ChangeCipherSpec is counted.
LEMMA ClientReads ==
    ASSUME NEW p, NEW c, NEW q, NEW s, NEW X, NEW Y, Fine(p, c, q, s, X, Y),
           NEW r \in X, r.keys = c.rd.keys, r.seq = c.rd.seq, r.type # "ccs",
           NEW n, EndOK(n),
           Advances(c.rd, n.rd),
           n.cr = c.cr /\ n.keys = c.keys /\ n.wr = c.wr,
           (n.resumed = c.resumed /\ n.sr = c.sr) \/ p = "ServerHello"
    PROVE  Keys(p, n, q, s, X, Y)
<1>1. Numeric(c) /\ Numeric(s) /\ Numeric(n) /\ Numerics(X) /\ Numerics(Y)
  BY NumericEnd, NumericRecords DEF Fine, Typed
<1>2. Shaped(n)
  BY DEF Fine, Keys, Shaped, Secure, Advances
<1>3. ClientKeys(p, n)
  BY <1>1 DEF Numeric, Fine, Keys, Secure, Fresh, DoneKeys, ClientKeys, Advances
<1>4. Joint(p, n, q, s)
  BY <1>1 DEF Numeric, Fine, Keys, Secure, Joint, Counts, ToClient, Advances
<1>5. ToServer(n, Y)
  BY DEF Fine, Keys, Counts, ToServer
<1>6. Behind(p, n, s, X)
  BY DEF Fine, Keys, Advances, Behind
<1> QED
  BY <1>2, <1>3, <1>4, <1>5, <1>6 DEF Fine, Keys

\* sslActivateReadCipher
LEMMA ClientReadsCcs ==
    ASSUME NEW p, NEW c, NEW q, NEW s, NEW X, NEW Y, Fine(p, c, q, s, X, Y),
           NEW r \in X, r.keys = c.rd.keys, r.seq = c.rd.seq, r.type = "ccs", p = "Finished",
           NEW n, EndOK(n),
           Switches(n.rd, c.keys),
           n.cr = c.cr /\ n.sr = c.sr /\ n.keys = c.keys /\ n.wr = c.wr /\ n.resumed = c.resumed
    PROVE  Keys(p, n, q, s, X, Y)
<1>1. Numeric(c) /\ Numeric(s) /\ Numeric(n) /\ Numerics(X) /\ Numerics(Y)
  BY NumericEnd, NumericRecords DEF Fine, Typed
<1>2. Shaped(n)
  BY DEF Fine, Keys, Shaped, Switches
<1>3. ClientKeys(p, n)
  BY <1>1 DEF Numeric, Fine, Keys, Fresh, ClientDone, ClientKeys, Switches
<1>4. Joint(p, n, q, s)
  BY <1>1 DEF Numeric, Fine, Keys, Secure, Fresh, ClientKeys, Joint, Counts, ToClient, Switches
<1>5. ToServer(n, Y)
  BY DEF Fine, Keys, Counts, ToServer
<1>6. n.rd.keys = n.keys /\ n.rd.keys.cr <= s.wr.keys.cr /\ s.wr.keys.cr <= n.keys.cr
  BY <1>1, <1>4 DEF Numeric, Fine, Keys, ClientKeys, ServerKeys, Joint, Switches
<1>7. Behind(p, n, s, X)
  BY <1>1, <1>6 DEF Numeric, Fine, Keys, Behind
<1> QED
  BY <1>2, <1>3, <1>4, <1>5, <1>7 DEF Fine, Keys

\* A ServerHello that resumes the session: the keys are derived at once.
LEMMA ClientReadsHelloResumed ==
    ASSUME NEW p, NEW c, NEW q, NEW s, NEW X, NEW Y, Fine(p, c, q, s, X, Y),
           NEW r \in X, r.keys = c.rd.keys, r.seq = c.rd.seq,
           IsMsg(r, "ServerHello"), p = "ServerHello",
           NEW n, EndOK(n),
           Advances(c.rd, n.rd),
           n.cr = c.cr /\ n.wr = c.wr,
           n.resumed, n.keys.cr = c.cr, n.keys.sr = r.body.random
    PROVE  Keys("Finished", n, q, s, X, Y)
<1>1. Numeric(c) /\ Numeric(s) /\ Numeric(n) /\ Numerics(X) /\ Numerics(Y)
  BY NumericEnd, NumericRecords DEF Fine, Typed
<1>2. Shaped(n)
  BY <1>1, NoKeysNumbers
     DEF Numeric, Fine, Keys, Shaped, Numbered, Secure, Joint, ToClient, Advances
<1>3. ClientKeys("Finished", n)
  BY <1>1
     DEF Numeric, Fine, Keys, Secure, Fresh, Waiting, ClientDone, ClientKeys, Joint, ToClient,
         Advances
<1>4. Joint("Finished", n, q, s)
  BY <1>1, NoKeysNumbers
     DEF Numeric, Fine, Keys, Secure, ClientDone, ClientKeys, ServerKeys, Joint, Counts,
         ToClient, IsMsg, Advances
<1>5. ToServer(n, Y)
  BY DEF Fine, Keys, Counts, ToServer
<1>6. Behind("Finished", n, s, X)
  BY <1>1, NoKeysNumbers DEF Numeric, Fine, Keys, Waiting, ClientKeys, ServerKeys, Joint, ToClient, Advances, Behind
<1> QED
  BY <1>2, <1>3, <1>4, <1>5, <1>6 DEF Fine, Keys

\* A ServerHello of a full handshake: the server is waiting with its old keys.
LEMMA ClientReadsHello ==
    ASSUME NEW p, NEW c, NEW q, NEW s, NEW X, NEW Y, Fine(p, c, q, s, X, Y),
           NEW r \in X, r.keys = c.rd.keys, r.seq = c.rd.seq,
           IsMsg(r, "ServerHello"), p = "ServerHello",
           NEW n, EndOK(n),
           Advances(c.rd, n.rd),
           n.cr = c.cr /\ n.wr = c.wr /\ n.keys = c.keys,
           ~n.resumed, n.sr = r.body.random
    PROVE  Keys("Certificate", n, q, s, X, Y)
<1>1. Numeric(c) /\ Numeric(s) /\ Numeric(n) /\ Numerics(X) /\ Numerics(Y)
  BY NumericEnd, NumericRecords DEF Fine, Typed
<1>2. r.keys.sr < s.sr /\ s.cr > 0 /\ c.keys = r.keys /\ c.cr > 0 /\ c.keys.cr = c.cr - 1
  BY <1>1 DEF Numeric, Fine, Keys, ToClient, ClientKeys, Joint, Waiting
<1>3. s.cr = c.cr
  BY <1>1, <1>2, NoKeysNumbers DEF Numeric, Fine, Keys, ServerKeys, Joint
<1>4. q \notin ServerDone
  BY <1>1, <1>2 DEF Numeric, Fine, Keys, ServerKeys, Joint
<1>5. Shaped(n)
  BY DEF Fine, Keys, Shaped, Secure, Advances
<1>6. ClientKeys("Certificate", n)
  BY <1>1, <1>3
     DEF Numeric, Fine, Keys, Secure, Fresh, Waiting, ClientDone, ClientKeys, ToClient, Advances
<1>7. Joint("Certificate", n, q, s)
  BY <1>1, <1>3, <1>4
     DEF Numeric, Fine, Keys, Secure, ClientDone, Joint, Counts, ToClient, IsMsg, Advances
<1>8. ToServer(n, Y)
  BY DEF Fine, Keys, Counts, ToServer
<1>9. Behind("Certificate", n, s, X)
  BY <1>1, NoKeysNumbers DEF Numeric, Fine, Keys, Waiting, ClientKeys, ServerKeys, Joint, ToClient, Advances, Behind
<1> QED
  BY <1>5, <1>6, <1>7, <1>8, <1>9 DEF Fine, Keys

\* Messages of a full handshake that only move the client on.
LEMMA ClientReadsCertificate ==
    ASSUME NEW p, NEW c, NEW q, NEW s, NEW X, NEW Y, Fine(p, c, q, s, X, Y),
           NEW r \in X, r.keys = c.rd.keys, r.seq = c.rd.seq,
           IsMsg(r, "Certificate"), p = "Certificate",
           NEW n, EndOK(n),
           Advances(c.rd, n.rd),
           n.cr = c.cr /\ n.sr = c.sr /\ n.wr = c.wr /\ n.keys = c.keys /\ n.resumed = c.resumed
    PROVE  Keys("ServerHelloDone", n, q, s, X, Y)
<1>1. Numeric(c) /\ Numeric(s) /\ Numeric(n) /\ Numerics(X) /\ Numerics(Y)
  BY NumericEnd, NumericRecords DEF Fine, Typed
<1>2. Shaped(n)
  BY DEF Fine, Keys, Shaped, Secure, Advances
<1>3. ClientKeys("ServerHelloDone", n)
  BY <1>1 DEF Numeric, Fine, Keys, Secure, Fresh, Waiting, ClientDone, ClientKeys, Advances
<1>4. Joint("ServerHelloDone", n, q, s)
  BY <1>1 DEF Numeric, Fine, Keys, Secure, ClientDone, Joint, Counts, ToClient, IsMsg, Advances
<1>5. ToServer(n, Y)
  BY DEF Fine, Keys, Counts, ToServer
<1>6. Behind("ServerHelloDone", n, s, X)
  BY DEF Fine, Keys, Advances, Behind
<1> QED
  BY <1>2, <1>3, <1>4, <1>5, <1>6 DEF Fine, Keys

LEMMA ClientReadsHelloDone ==
    ASSUME NEW p, NEW c, NEW q, NEW s, NEW X, NEW Y, Fine(p, c, q, s, X, Y),
           NEW r \in X, r.keys = c.rd.keys, r.seq = c.rd.seq,
           IsMsg(r, "ServerHelloDone"), p = "ServerHelloDone",
           NEW n, EndOK(n),
           Advances(c.rd, n.rd),
           n.cr = c.cr /\ n.sr = c.sr /\ n.wr = c.wr /\ n.keys = c.keys /\ n.resumed = c.resumed
    PROVE  Keys("switching", n, q, s, X, Y)
<1>1. Numeric(c) /\ Numeric(s) /\ Numeric(n) /\ Numerics(X) /\ Numerics(Y)
  BY NumericEnd, NumericRecords DEF Fine, Typed
<1>2. Shaped(n)
  BY DEF Fine, Keys, Shaped, Secure, Advances
<1>3. ClientKeys("switching", n)
  BY <1>1 DEF Numeric, Fine, Keys, Secure, Fresh, ClientDone, ClientKeys, Advances
<1>4. Joint("switching", n, q, s)
  BY <1>1 DEF Numeric, Fine, Keys, Secure, ClientDone, Joint, Counts, ToClient, IsMsg, Advances
<1>5. ToServer(n, Y)
  BY DEF Fine, Keys, Counts, ToServer
<1>6. Behind("switching", n, s, X)
  BY DEF Fine, Keys, Advances, Behind
<1> QED
  BY <1>2, <1>3, <1>4, <1>5, <1>6 DEF Fine, Keys

\* The Finished of the server: both ends have the same keys now.
LEMMA ClientReadsFinished ==
    ASSUME NEW p, NEW c, NEW q, NEW s, NEW X, NEW Y, Fine(p, c, q, s, X, Y),
           NEW r \in X, r.keys = c.rd.keys, r.seq = c.rd.seq,
           IsMsg(r, "Finished"), p = "Finished", Secure(c.rd),
           NEW n, EndOK(n),
           Advances(c.rd, n.rd),
           n.cr = c.cr /\ n.sr = c.sr /\ n.wr = c.wr /\ n.keys = c.keys /\ n.resumed = c.resumed
    PROVE  Keys(IF n.resumed THEN "finishing" ELSE "DONE", n, q, s, X, Y)
<1>1. Numeric(c) /\ Numeric(s) /\ Numeric(n) /\ Numerics(X) /\ Numerics(Y)
  BY NumericEnd, NumericRecords DEF Fine, Typed
<1>2. Shaped(n)
  BY DEF Fine, Keys, Shaped, Secure, Advances
<1>3. ClientKeys(IF n.resumed THEN "finishing" ELSE "DONE", n)
  BY <1>1
     DEF Numeric, Fine, Keys, Secure, Fresh, DoneKeys, Waiting, ClientDone, ClientKeys, Counts,
         ToClient, Advances
<1>4. Joint(IF n.resumed THEN "finishing" ELSE "DONE", n, q, s)
  BY <1>1
     DEF Numeric, Fine, Keys, Fresh, ClientKeys, ServerKeys, Joint, Counts, ToClient, IsMsg,
         Advances
<1>5. ToServer(n, Y)
  BY DEF Fine, Keys, Counts, ToServer
<1>6. Behind(IF n.resumed THEN "finishing" ELSE "DONE", n, s, X)
  BY DEF Fine, Keys, Advances, Behind
<1> QED
  BY <1>2, <1>3, <1>4, <1>5, <1>6 DEF Fine, Keys

\* A HelloRequest to a client that is done.
LEMMA ClientReadsHelloRequest ==
    ASSUME NEW p, NEW c, NEW q, NEW s, NEW X, NEW Y, Fine(p, c, q, s, X, Y),
           NEW r \in X, r.keys = c.rd.keys, r.seq = c.rd.seq, IsMsg(r, "HelloRequest"), p = "DONE",
           NEW n, EndOK(n),
           Advances(c.rd, n.rd),
           n.cr = c.cr /\ n.sr = c.sr /\ n.wr = c.wr /\ n.keys = c.keys /\ n.resumed = c.resumed
    PROVE  Keys("asked", n, q, s, X, Y)
<1>1. Numeric(c) /\ Numeric(s) /\ Numeric(n) /\ Numerics(X) /\ Numerics(Y)
  BY NumericEnd, NumericRecords DEF Fine, Typed
<1>2. Shaped(n)
  BY DEF Fine, Keys, Shaped, Secure, Advances
<1>3. ClientKeys("asked", n)
  BY <1>1
     DEF Numeric, Fine, Keys, Secure, Fresh, DoneKeys, Waiting, ClientDone, ClientKeys, Advances
<1>4. Joint("asked", n, q, s)
  BY <1>1 DEF Numeric, Fine, Keys, Secure, ClientDone, Joint, Counts, ToClient, IsMsg, Advances
<1>5. ToServer(n, Y)
  BY DEF Fine, Keys, Counts, ToServer
<1>6. Behind("asked", n, s, X)
  BY DEF Fine, Keys, Advances, Behind
<1> QED
  BY <1>2, <1>3, <1>4, <1>5, <1>6 DEF Fine, Keys

\* Application data, alerts.
LEMMA ClientWrites ==
    ASSUME NEW p, NEW c, NEW q, NEW s, NEW X, NEW Y, Fine(p, c, q, s, X, Y),
           p # "finishing",
           NEW n, EndOK(n),
           Advances(c.wr, n.wr),
           n.cr = c.cr /\ n.sr = c.sr /\ n.keys = c.keys /\ n.rd = c.rd /\ n.resumed = c.resumed,
           NEW w, RecordOK(w), w.keys = c.wr.keys, w.seq = c.wr.seq,
           w.type # "ccs", ~IsMsg(w, "Finished"), ~IsMsg(w, "ClientHello")
    PROVE  Keys(p, n, q, s, X, Y \cup {w})
<1>1. Numeric(c) /\ Numeric(s) /\ Numeric(n) /\ Numerics(X) /\ Numerics(Y)
  BY NumericEnd, NumericRecords DEF Fine, Typed
<1>2. Shaped(n)
  BY DEF Fine, Keys, Shaped, Secure, Advances
<1>3. ClientKeys(p, n)
  BY DEF Fine, Keys, Fresh, DoneKeys, ClientKeys, Advances
<1>4. Joint(p, n, q, s)
  BY <1>1 DEF Numeric, Fine, Keys, Joint, Advances
<1>5. ToServer(n, Y \cup {w})
  BY <1>1 DEF Numeric, Numerics, Fine, Keys, Shaped, Secure, Counts, ToServer, Advances
<1>6. Behind(p, n, s, X)
  BY DEF Fine, Keys, Behind
<1> QED
  BY <1>2, <1>3, <1>4, <1>5, <1>6 DEF Fine, Keys

\* A hello has a random of its own; nothing else changes until ServerHello.
LEMMA ClientWritesHello ==
    ASSUME NEW p, NEW c, NEW q, NEW s, NEW X, NEW Y, Fine(p, c, q, s, X, Y),
           p \in {"DONE", "asked"} \/ (p = "ServerHello" /\ c.cr = 0),
           NEW n, EndOK(n),
           Advances(c.wr, n.wr),
           n.keys = c.keys /\ n.rd = c.rd,
           n.cr = c.cr + 1,
           NEW w, RecordOK(w), w.keys = c.wr.keys, w.seq = c.wr.seq,
           IsMsg(w, "ClientHello"), w.body.random = n.cr
    PROVE  Keys("ServerHello", n, q, s, X, Y \cup {w})
<1>1. Numeric(c) /\ Numeric(s) /\ Numeric(n) /\ Numerics(X) /\ Numerics(Y)
  BY NumericEnd, NumericRecords DEF Fine, Typed
<1>2. s.cr = c.cr
  BY <1>1 DEF Numeric, Fine, Keys, Joint
<1>3. c.keys = s.keys /\ q # "switching"
  BY <1>1, <1>2, NoKeysNumbers
     DEF Numeric, Fine, Keys, Shaped, Numbered, ClientKeys, ServerKeys, Joint, ClientDone
<1>4. Shaped(n)
  BY DEF Fine, Keys, Shaped, Secure, Advances
<1>5. ClientKeys("ServerHello", n)
  <2>1. /\ Shaped(c) /\ ClientKeys(p, c)
        /\ c.keys.cr = c.cr /\ c.rd.keys = c.keys /\ c.wr.keys = c.keys
    BY <1>1, NoKeysNumbers
       DEF Numeric, Fine, Keys, Shaped, Numbered, DoneKeys, Waiting, ClientDone, ClientKeys
  <2>2. Fresh("ServerHello", n)
    BY <2>1 DEF ClientKeys, Fresh
  <2> QED
    BY <1>1, <2>1, <2>2 DEF Numeric, Waiting, ClientDone, ClientKeys, Advances
<1>6. Joint("ServerHello", n, q, s)
  BY <1>1, <1>3 DEF Numeric, Fine, Keys, Joint, Advances
<1>7. ToServer(n, Y \cup {w})
  BY <1>1
     DEF Numeric, Numerics, Fine, Keys, Shaped, Secure, ClientKeys, Counts, ToServer, IsMsg,
         Advances
<1>8. Behind("ServerHello", n, s, X)
  BY DEF Fine, Keys, Behind
<1> QED
  BY <1>4, <1>5, <1>6, <1>7, <1>8 DEF Fine, Keys

\* The end of a resumed handshake, record by record.
LEMMA ClientWritesCcs ==
    ASSUME NEW p, NEW c, NEW q, NEW s, NEW X, NEW Y, Fine(p, c, q, s, X, Y),
           p = "finishing",
           NEW n, EndOK(n),
           Switches(n.wr, n.keys),
           n.cr = c.cr /\ n.sr = c.sr /\ n.keys = c.keys /\ n.rd = c.rd /\ n.resumed = c.resumed,
           NEW w, RecordOK(w), w.keys = c.wr.keys, w.seq = c.wr.seq,
           w.type = "ccs"
    PROVE  Keys(p, n, q, s, X, Y \cup {w})
<1>1. Numeric(c) /\ Numeric(s) /\ Numeric(n) /\ Numerics(X) /\ Numerics(Y)
  BY NumericEnd, NumericRecords DEF Fine, Typed
<1>2. Shaped(n)
  BY DEF Fine, Keys, Shaped, Switches
<1>3. ClientKeys(p, n)
  BY DEF Fine, Keys, Fresh, DoneKeys, ClientKeys, Switches
<1>4. Joint(p, n, q, s)
  BY <1>1 DEF Numeric, Fine, Keys, DoneKeys, ClientDone, ClientKeys, Joint, Switches
<1>5. ToServer(n, Y \cup {w})
  BY <1>1
     DEF Numeric, Numerics, Fine, Keys, Shaped, Secure, DoneKeys, ClientDone, ClientKeys, Counts,
         ToServer, IsMsg, Switches
<1>6. Behind(p, n, s, X)
  BY DEF Fine, Keys, Behind
<1> QED
  BY <1>2, <1>3, <1>4, <1>5, <1>6 DEF Fine, Keys

\* The Finished that follows ChangeCipherSpec.
LEMMA ClientWritesFinished ==
    ASSUME NEW p, NEW c, NEW q, NEW s, NEW X, NEW Y, Fine(p, c, q, s, X, Y),
           p = "finishing", c.wr.keys = c.keys,
           NEW n, EndOK(n),
           Advances(c.wr, n.wr),
           n.cr = c.cr /\ n.sr = c.sr /\ n.keys = c.keys /\ n.rd = c.rd /\ n.resumed = c.resumed,
           NEW w, RecordOK(w), w.keys = c.wr.keys, w.seq = c.wr.seq,
           IsMsg(w, "Finished")
    PROVE  Keys("DONE", n, q, s, X, Y \cup {w})
<1>1. Numeric(c) /\ Numeric(s) /\ Numeric(n) /\ Numerics(X) /\ Numerics(Y)
  BY NumericEnd, NumericRecords DEF Fine, Typed
<1>2. Shaped(n)
  BY DEF Fine, Keys, Shaped, Secure, Advances
<1>3. ClientKeys("DONE", n)
  BY DEF Fine, Keys, Fresh, DoneKeys, Waiting, ClientDone, ClientKeys, Advances
<1>4. Joint("DONE", n, q, s)
  BY <1>1 DEF Numeric, Fine, Keys, ClientDone, Joint, Advances
<1>5. ToServer(n, Y \cup {w})
  BY <1>1
     DEF Numerics, Fine, Keys, Secure, DoneKeys, ClientDone, ClientKeys, Counts, ToServer, IsMsg,
         Advances
<1>6. Behind("DONE", n, s, X)
  BY DEF Fine, Keys, Behind
<1> QED
  BY <1>2, <1>3, <1>4, <1>5, <1>6 DEF Fine, Keys

\* The three records of the client's key exchange: all of them, or none.
LEMMA ClientSwitches ==
    ASSUME NEW c, NEW q, NEW s, NEW X, NEW Y, Fine("switching", c, q, s, X, Y),
           NEW n, EndOK(n), n.cr = c.cr /\ n.rd = c.rd /\ n.resumed = c.resumed,
           n.keys.cr = c.cr, n.keys.sr = c.sr, n.wr.keys = n.keys, n.wr.seq = 1,
           NEW w1, w1.keys = c.wr.keys, w1.seq = c.wr.seq, IsMsg(w1, "ClientKeyExchange"),
           NEW m \in States, Advances(c.wr, m),
           NEW w2, w2.keys = m.keys, w2.seq = m.seq, w2.type = "ccs",
           NEW w3, w3.keys = n.keys, w3.seq = 0, IsMsg(w3, "Finished"),
           RecordOK(w1), RecordOK(w2), RecordOK(w3)
    PROVE  Keys("Finished", n, q, s, X, Y \cup {w1, w2, w3})
<1>1. Numeric(c) /\ Numeric(s) /\ Numeric(n) /\ Numerics(X) /\ Numerics(Y) /\ m.seq \in Nat
  BY NumericEnd, NumericRecords DEF Fine, Typed, States
<1>2. n.keys.cr > 0 /\ n.keys.sr > 0 /\ n.keys # NoKeys
  BY <1>1, NoKeysNumbers DEF Numeric, Fine, Keys, ClientKeys
<1>3. c.wr.keys.cr < c.cr /\ s.rd.keys.cr < c.cr
  BY <1>1 DEF Numeric, Fine, Keys, ClientKeys, Joint
<1>4. Shaped(n)
  BY <1>2 DEF Fine, Keys, Shaped, Numbered, Secure
<1>5. ClientKeys("Finished", n)
  BY <1>1 DEF Numeric, Fine, Keys, Fresh, Waiting, ClientDone, ClientKeys
<1>6. Joint("Finished", n, q, s)
  BY <1>3 DEF Fine, Keys, ClientDone, ClientKeys, Joint
<1>7. ToServer(n, Y \cup {w1, w2, w3})
  BY <1>1, <1>2, <1>3
     DEF Numeric, Numerics, Fine, Keys, Shaped, Secure, Counts, ToServer, IsMsg, Advances
<1>8. Behind("Finished", n, s, X)
  BY DEF Fine, Keys, Behind
<1> QED
  BY <1>4, <1>5, <1>6, <1>7, <1>8 DEF Fine, Keys

-----------------------------------------------------------------------------
(* Steps of the server *)

\* An alert, a closed connection, or a session that is deleted.
LEMMA ServerKeeps ==
    ASSUME NEW p, NEW c, NEW q, NEW s, NEW X, NEW Y, Fine(p, c, q, s, X, Y),
           NEW n, EndOK(n),
           n.rd = s.rd /\ n.cr = s.cr /\ n.sr = s.sr /\ n.keys = s.keys /\ n.wr = s.wr,
           s.alert => n.alert,
           n.resumed = s.resumed \/ q \in {"ClientHello", "DONE"}
    PROVE  Keys(p, c, q, n, X, Y)
<1>1. Numeric(c) /\ Numeric(s) /\ Numeric(n) /\ Numerics(X) /\ Numerics(Y)
  BY NumericEnd, NumericRecords DEF Fine, Typed
<1>2. Shaped(n)
  BY DEF Fine, Keys, Shaped
<1>3. ServerKeys(q, n)
  BY DEF Fine, Keys, Fresh, DoneKeys, ServerKeys
<1>4. Joint(p, c, q, n)
  BY DEF Fine, Keys, Joint
<1>5. ToClient(q, n, X)
  BY DEF Fine, Keys, Counts, ToClient
<1>6. Behind(p, c, n, X)
  BY DEF Fine, Keys, Behind
<1> QED
  BY <1>2, <1>3, <1>4, <1>5, <1>6 DEF Fine, Keys

\* Any record but ChangeCipherSpec is counted.
LEMMA ServerReads ==
    ASSUME NEW p, NEW c, NEW q, NEW s, NEW X, NEW Y, Fine(p, c, q, s, X, Y),
           NEW r \in Y, r.keys = s.rd.keys, r.seq = s.rd.seq, r.type # "ccs",
           NEW n, EndOK(n),
           Advances(s.rd, n.rd),
           n.cr = s.cr /\ n.sr = s.sr /\ n.keys = s.keys /\ n.wr = s.wr /\ n.resumed = s.resumed,
           s.alert => n.alert
    PROVE  Keys(p, c, q, n, X, Y)
<1>1. Numeric(c) /\ Numeric(s) /\ Numeric(n) /\ Numerics(X) /\ Numerics(Y)
  BY NumericEnd, NumericRecords DEF Fine, Typed
<1>2. Shaped(n)
  BY DEF Fine, Keys, Shaped, Secure, Advances
<1>3. ServerKeys(q, n)
  BY <1>1 DEF Numeric, Fine, Keys, Secure, Fresh, DoneKeys, ServerKeys, Advances
<1>4. Joint(p, c, q, n)
  BY <1>1 DEF Numeric, Fine, Keys, Secure, Joint, Counts, ToServer, Advances
<1>5. ToClient(q, n, X)
  BY DEF Fine, Keys, Counts, ToClient
<1>6. Behind(p, c, n, X)
  BY DEF Fine, Keys, Advances, Behind
<1> QED
  BY <1>2, <1>3, <1>4, <1>5, <1>6 DEF Fine, Keys

\* sslActivateReadCipher
LEMMA ServerReadsCcs ==
    ASSUME NEW p, NEW c, NEW q, NEW s, NEW X, NEW Y, Fine(p, c, q, s, X, Y),
           NEW r \in Y, r.keys = s.rd.keys, r.seq = s.rd.seq, r.type = "ccs", q = "Finished",
           NEW n, EndOK(n),
           Switches(n.rd, s.keys),
           n.cr = s.cr /\ n.sr = s.sr /\ n.keys = s.keys /\ n.wr = s.wr /\ n.resumed = s.resumed
    PROVE  Keys(p, c, q, n, X, Y)
<1>1. Numeric(c) /\ Numeric(s) /\ Numeric(n) /\ Numerics(X) /\ Numerics(Y)
  BY NumericEnd, NumericRecords DEF Fine, Typed
<1>2. Shaped(n)
  BY DEF Fine, Keys, Shaped, Switches
<1>3. ServerKeys(q, n)
  BY DEF Fine, Keys, Fresh, ServerDone, ServerKeys, Switches
<1>4. Joint(p, c, q, n)
  BY <1>1
     DEF Numeric, Fine, Keys, Secure, Fresh, ClientKeys, ServerKeys, Joint, Counts, ToServer,
         Switches
<1>5. ToClient(q, n, X)
  BY DEF Fine, Keys, Counts, ToClient
<1>6. Behind(p, c, n, X)
  BY <1>1, NoKeysNumbers DEF Numeric, Fine, Keys, ServerKeys, Switches, Behind
<1> QED
  BY <1>2, <1>3, <1>4, <1>5, <1>6 DEF Fine, Keys

\* The client's hello follows the handshake the server has done.
LEMMA HelloIsNext ==
    ASSUME NEW p, NEW c, NEW q, NEW s, NEW X, NEW Y, Fine(p, c, q, s, X, Y),
           NEW r \in Y, r.keys = s.rd.keys, IsMsg(r, "ClientHello"),
           q \in {"ClientHello", "DONE"}, ~s.alert
    PROVE  /\ p = "ServerHello" /\ r.body.random = c.cr /\ s.cr = c.cr - 1
           /\ s.keys.cr = s.cr /\ s.rd.keys = s.keys /\ s.wr.keys = s.keys
           /\ c.keys = s.keys /\ c.rd.keys = s.keys /\ c.wr.keys = s.keys
<1>1. Numeric(c) /\ Numeric(s) /\ Numerics(Y)
  BY NumericEnd, NumericRecords DEF Fine, Typed
<1>2. s.keys.cr = s.cr /\ s.rd.keys = s.keys /\ s.wr.keys = s.keys
  BY <1>1, NoKeysNumbers
     DEF Numeric, Fine, Keys, Shaped, Numbered, DoneKeys, ServerDone, ServerKeys
<1>3. r.body.random = c.cr /\ s.cr = c.cr - 1
  BY <1>1, <1>2 DEF Numeric, Numerics, Fine, Keys, Joint, ToServer
<1>4. p = "ServerHello" /\ c.keys = s.keys
  BY <1>1, <1>3 DEF Numeric, Fine, Keys, Joint
<1>5. c.rd.keys = c.keys /\ c.wr.keys = c.keys
  BY <1>4 DEF Fine, Keys, ClientKeys, Waiting
<1> QED
  BY <1>2, <1>3, <1>4, <1>5

\* A hello that is answered with an alert, a session or a new handshake.
LEMMA ServerReadsHelloRefused ==
    ASSUME NEW p, NEW c, NEW q, NEW s, NEW X, NEW Y, Fine(p, c, q, s, X, Y),
           NEW r \in Y, r.keys = s.rd.keys, r.seq = s.rd.seq, IsMsg(r, "ClientHello"),
           q \in {"ClientHello", "DONE"}, ~s.alert,
           NEW n, EndOK(n),
           Advances(s.rd, n.rd),
           n.sr = s.sr /\ n.keys = s.keys /\ n.wr = s.wr,
           n.cr = r.body.random, n.alert
    PROVE  Keys(p, c, q, n, X, Y)
<1>1. Numeric(c) /\ Numeric(s) /\ Numeric(n) /\ Numerics(X) /\ Numerics(Y)
  BY NumericEnd, NumericRecords DEF Fine, Typed
<1>2. Shaped(n)
  BY DEF Fine, Keys, Shaped, Secure, Advances
<1>3. ServerKeys(q, n)
  BY <1>1 DEF Numeric, Fine, Keys, Secure, Fresh, DoneKeys, ServerKeys, ToServer, Advances
<1>4. Joint(p, c, q, n)
  BY <1>1, HelloIsNext DEF Numeric, Fine, Keys, Secure, Joint, Counts, ToServer, IsMsg, Advances
<1>5. ToClient(q, n, X)
  BY <1>1 DEF Numeric, Fine, Keys, Counts, ToServer, ToClient
<1>6. Behind(p, c, n, X)
  BY <1>1, HelloIsNext DEF Numeric, Fine, Keys, Advances, Behind
<1> QED
  BY <1>2, <1>3, <1>4, <1>5, <1>6 DEF Fine, Keys

\* A hello that resumes a session is answered from the phase switching.
LEMMA ServerReadsHelloResumed ==
    ASSUME NEW p, NEW c, NEW q, NEW s, NEW X, NEW Y, Fine(p, c, q, s, X, Y),
           NEW r \in Y, r.keys = s.rd.keys, r.seq = s.rd.seq, IsMsg(r, "ClientHello"),
           q \in {"ClientHello", "DONE"}, ~s.alert,
           NEW n, EndOK(n),
           Advances(s.rd, n.rd),
           n.sr = s.sr /\ n.keys = s.keys /\ n.wr = s.wr,
           n.cr = r.body.random, n.resumed
    PROVE  Keys(p, c, "switching", n, X, Y)
<1>1. Numeric(c) /\ Numeric(s) /\ Numeric(n) /\ Numerics(X) /\ Numerics(Y)
  BY NumericEnd, NumericRecords DEF Fine, Typed
<1>2. Shaped(n)
  BY DEF Fine, Keys, Shaped, Secure, Advances
<1>3. ServerKeys("switching", n)
  BY <1>1
     DEF Numeric, Fine, Keys, Secure, Fresh, DoneKeys, ServerDone, ServerKeys, ToServer,
         Advances
<1>4. Joint(p, c, "switching", n)
  BY <1>1, HelloIsNext DEF Numeric, Fine, Keys, Secure, ClientDone, ServerDone, Joint, Counts, ToServer, IsMsg, Advances
<1>5. ToClient("switching", n, X)
  BY <1>1, NoKeysNumbers DEF Numerics, Fine, Keys, DoneKeys, ServerKeys, Counts, ToServer, ToClient
<1>6. Behind(p, c, n, X)
  BY <1>1, HelloIsNext DEF Numeric, Fine, Keys, Advances, Behind
<1> QED
  BY <1>2, <1>3, <1>4, <1>5, <1>6 DEF Fine, Keys

\* A hello that does not, from the phase greeting.
LEMMA ServerReadsHello ==
    ASSUME NEW p, NEW c, NEW q, NEW s, NEW X, NEW Y, Fine(p, c, q, s, X, Y),
           NEW r \in Y, r.keys = s.rd.keys, r.seq = s.rd.seq, IsMsg(r, "ClientHello"),
           q \in {"ClientHello", "DONE"}, ~s.alert,
           NEW n, EndOK(n),
           Advances(s.rd, n.rd),
           n.sr = s.sr /\ n.keys = s.keys /\ n.wr = s.wr,
           n.cr = r.body.random, ~n.resumed
    PROVE  Keys(p, c, "greeting", n, X, Y)
<1>1. Numeric(c) /\ Numeric(s) /\ Numeric(n) /\ Numerics(X) /\ Numerics(Y)
  BY NumericEnd, NumericRecords DEF Fine, Typed
<1>2. Shaped(n)
  BY DEF Fine, Keys, Shaped, Secure, Advances
<1>3. ServerKeys("greeting", n)
  BY <1>1, NoKeysNumbers
     DEF Numeric, Fine, Keys, Secure, Fresh, DoneKeys, ServerDone, ServerKeys, ToServer,
         Advances
<1>4. Joint(p, c, "greeting", n)
  BY <1>1, HelloIsNext DEF Numeric, Fine, Keys, Secure, Joint, Counts, ToServer, IsMsg, Advances
<1>5. ToClient("greeting", n, X)
  BY <1>1 DEF Numeric, Fine, Keys, Counts, ToServer, ToClient
<1>6. Behind(p, c, n, X)
  BY <1>1, HelloIsNext DEF Numeric, Fine, Keys, Advances, Behind
<1> QED
  BY <1>2, <1>3, <1>4, <1>5, <1>6 DEF Fine, Keys

\* The keys are derived; they have the random of the hello and of its answer.
LEMMA ServerReadsKeyExchange ==
    ASSUME NEW p, NEW c, NEW q, NEW s, NEW X, NEW Y, Fine(p, c, q, s, X, Y),
           NEW r \in Y, r.keys = s.rd.keys, r.seq = s.rd.seq,
           IsMsg(r, "ClientKeyExchange"), q = "ClientKeyExchange",
           NEW n, EndOK(n),
           Advances(s.rd, n.rd),
           n.cr = s.cr /\ n.sr = s.sr /\ n.wr = s.wr /\ n.resumed = s.resumed,
           n.keys.cr = s.cr, n.keys.sr = s.sr
    PROVE  Keys(p, c, "Finished", n, X, Y)
<1>1. Numeric(c) /\ Numeric(s) /\ Numeric(n) /\ Numerics(X) /\ Numerics(Y)
  BY NumericEnd, NumericRecords DEF Fine, Typed
<1>2. Shaped(n)
  BY <1>1, NoKeysNumbers DEF Numeric, Fine, Keys, Shaped, Numbered, Secure, ServerKeys, Advances
<1>3. ServerKeys("Finished", n)
  BY <1>1 DEF Numeric, Fine, Keys, Secure, Fresh, ServerDone, ServerKeys, Advances
<1>4. Joint(p, c, "Finished", n)
  BY <1>1
     DEF Numeric, Fine, Keys, Secure, DoneKeys, ServerDone, ClientKeys, ServerKeys, Joint,
         Counts, ToServer, IsMsg, Advances
<1>5. ToClient("Finished", n, X)
  BY <1>1 DEF Numeric, Numerics, Fine, Keys, ServerKeys, Counts, ToClient
<1>6. Behind(p, c, n, X)
  BY DEF Fine, Keys, Advances, Behind
<1> QED
  BY <1>2, <1>3, <1>4, <1>5, <1>6 DEF Fine, Keys

\* The Finished of the client: both ends have the same keys now.
LEMMA ServerReadsFinished ==
    ASSUME NEW p, NEW c, NEW q, NEW s, NEW X, NEW Y, Fine(p, c, q, s, X, Y),
           NEW r \in Y, r.keys = s.rd.keys, r.seq = s.rd.seq,
           IsMsg(r, "Finished"), q = "Finished", Secure(s.rd),
           ~s.alert,
           NEW n, EndOK(n),
           Advances(s.rd, n.rd),
           n.cr = s.cr /\ n.sr = s.sr /\ n.wr = s.wr /\ n.keys = s.keys /\ n.resumed = s.resumed
    PROVE  Keys(p, c, IF n.resumed THEN "DONE" ELSE "finishing", n, X, Y)
<1>1. Numeric(c) /\ Numeric(s) /\ Numeric(n) /\ Numerics(X) /\ Numerics(Y)
  BY NumericEnd, NumericRecords DEF Fine, Typed
<1>2. Shaped(n)
  BY DEF Fine, Keys, Shaped, Secure, Advances
<1>3. ServerKeys(IF n.resumed THEN "DONE" ELSE "finishing", n)
  BY <1>1
     DEF Numeric, Fine, Keys, Secure, Fresh, DoneKeys, ServerDone, ServerKeys, Counts, ToServer,
         Advances
<1>4. Joint(p, c, IF n.resumed THEN "DONE" ELSE "finishing", n)
  BY <1>1
     DEF Numeric, Fine, Keys, Fresh, ClientKeys, ServerKeys, Joint, Counts, ToServer, IsMsg,
         Advances
<1>5. ToClient(IF n.resumed THEN "DONE" ELSE "finishing", n, X)
  BY DEF Fine, Keys, Counts, ToClient
<1>6. Behind(p, c, n, X)
  BY DEF Fine, Keys, Advances, Behind
<1> QED
  BY <1>2, <1>3, <1>4, <1>5, <1>6 DEF Fine, Keys

\* Application data, alerts, HelloRequest, Certificate and ServerHelloDone.
LEMMA ServerWrites ==
    ASSUME NEW p, NEW c, NEW q, NEW s, NEW X, NEW Y, Fine(p, c, q, s, X, Y),
           q # "finishing",
           NEW n, EndOK(n),
           Advances(s.wr, n.wr),
           n.cr = s.cr /\ n.sr = s.sr /\ n.keys = s.keys /\ n.rd = s.rd,
           n.resumed = s.resumed /\ n.alert = s.alert,
           NEW w, RecordOK(w), w.keys = s.wr.keys, w.seq = s.wr.seq,
           w.type # "ccs", ~IsMsg(w, "Finished"), ~IsMsg(w, "ServerHello")
    PROVE  Keys(p, c, q, n, X \cup {w}, Y)
<1>1. Numeric(c) /\ Numeric(s) /\ Numeric(n) /\ Numerics(X) /\ Numerics(Y)
  BY NumericEnd, NumericRecords DEF Fine, Typed
<1>2. Shaped(n)
  BY DEF Fine, Keys, Shaped, Secure, Advances
<1>3. ServerKeys(q, n)
  BY DEF Fine, Keys, Fresh, DoneKeys, ServerKeys, Advances
<1>4. Joint(p, c, q, n)
  BY <1>1 DEF Numeric, Fine, Keys, Joint, Advances
<1>5. ToClient(q, n, X \cup {w})
  BY <1>1 DEF Numeric, Numerics, Fine, Keys, Shaped, Secure, Counts, ToClient, Advances
<1>6. Behind(p, c, n, X \cup {w})
  BY DEF Fine, Keys, Advances, Behind
<1> QED
  BY <1>2, <1>3, <1>4, <1>5, <1>6 DEF Fine, Keys

\* An answer to ClientHello begins with a new random.
LEMMA ServerOpens ==
    ASSUME NEW p, NEW c, NEW q, NEW s, NEW X, NEW Y, Fine(p, c, q, s, X, Y),
           q \in {"greeting", "switching"},
           NEW n, EndOK(n),
           n.cr = s.cr /\ n.keys = s.keys /\ n.rd = s.rd /\ n.wr = s.wr,
           n.resumed = s.resumed /\ n.alert = s.alert,
           n.sr = s.sr + 1
    PROVE  Keys(p, c, q, n, X, Y)
<1>1. Numeric(c) /\ Numeric(s) /\ Numeric(n) /\ Numerics(X) /\ Numerics(Y)
  BY NumericEnd, NumericRecords DEF Fine, Typed
<1>2. Shaped(n)
  BY DEF Fine, Keys, Shaped
<1>3. ServerKeys(q, n)
  BY <1>1 DEF Numeric, Fine, Keys, Fresh, ServerDone, ServerKeys
<1>4. Joint(p, c, q, n)
  BY DEF Fine, Keys, Joint
<1>5. ToClient(q, n, X)
  BY <1>1 DEF Numeric, Numerics, Fine, Keys, Counts, ToClient
<1>6. Behind(p, c, n, X)
  BY <1>1, NoKeysNumbers DEF Numeric, Fine, Keys, Behind
<1> QED
  BY <1>2, <1>3, <1>4, <1>5, <1>6 DEF Fine, Keys

\* The ServerHello of a full handshake.
LEMMA ServerWritesHello ==
    ASSUME NEW p, NEW c, NEW q, NEW s, NEW X, NEW Y, Fine(p, c, q, s, X, Y),
           q = "greeting", s.sr > s.keys.sr,
           NEW n, EndOK(n),
           Advances(s.wr, n.wr),
           n.cr = s.cr /\ n.sr = s.sr /\ n.keys = s.keys /\ n.rd = s.rd,
           n.resumed = s.resumed /\ n.alert = s.alert,
           NEW w, RecordOK(w), w.keys = s.wr.keys, w.seq = s.wr.seq,
           IsMsg(w, "ServerHello"), w.body.random = s.sr
    PROVE  Keys(p, c, q, n, X \cup {w}, Y)
<1>1. Numeric(c) /\ Numeric(s) /\ Numeric(n) /\ Numerics(X) /\ Numerics(Y)
  BY NumericEnd, NumericRecords DEF Fine, Typed
<1>2. Shaped(n)
  BY DEF Fine, Keys, Shaped, Secure, Advances
<1>3. ServerKeys(q, n)
  BY <1>1 DEF Numeric, Fine, Keys, Fresh, ServerKeys, Advances
<1>4. Joint(p, c, q, n)
  BY <1>1 DEF Numeric, Fine, Keys, Joint, Advances
<1>5. ToClient(q, n, X \cup {w})
  BY <1>1
     DEF Numeric, Numerics, Fine, Keys, Shaped, Secure, ServerKeys, Counts, ToClient, IsMsg,
         Advances
<1>6. Behind(p, c, n, X \cup {w})
  BY DEF Fine, Keys, Advances, Behind
<1> QED
  BY <1>2, <1>3, <1>4, <1>5, <1>6 DEF Fine, Keys

\* The last message of the greeting.
LEMMA ServerGreeted ==
    ASSUME NEW p, NEW c, NEW q, NEW s, NEW X, NEW Y, Fine(p, c, q, s, X, Y),
           q = "greeting", s.sr > s.keys.sr,
           NEW n, EndOK(n),
           n.cr = s.cr /\ n.sr = s.sr /\ n.keys = s.keys /\ n.rd = s.rd /\ n.wr = s.wr,
           n.resumed = s.resumed /\ n.alert = s.alert
    PROVE  Keys(p, c, "ClientKeyExchange", n, X, Y)
<1>1. Numeric(c) /\ Numeric(s) /\ Numeric(n) /\ Numerics(X) /\ Numerics(Y)
  BY NumericEnd, NumericRecords DEF Fine, Typed
<1>2. Shaped(n)
  BY DEF Fine, Keys, Shaped
<1>3. ServerKeys("ClientKeyExchange", n)
  BY DEF Fine, Keys, Fresh, ServerDone, ServerKeys
<1>4. Joint(p, c, "ClientKeyExchange", n)
  BY DEF Fine, Keys, ServerDone, Joint
<1>5. ToClient("ClientKeyExchange", n, X)
  BY DEF Fine, Keys, Counts, ToClient
<1>6. Behind(p, c, n, X)
  BY DEF Fine, Keys, Behind
<1> QED
  BY <1>2, <1>3, <1>4, <1>5, <1>6 DEF Fine, Keys

\* The answer to a hello that resumes a session, record by record.
LEMMA ServerWritesHelloResumed ==
    ASSUME NEW p, NEW c, NEW q, NEW s, NEW X, NEW Y, Fine(p, c, q, s, X, Y),
           q = "switching", s.sr > s.keys.sr,
           NEW n, EndOK(n),
           Advances(s.wr, n.wr),
           n.cr = s.cr /\ n.sr = s.sr /\ n.rd = s.rd,
           n.resumed = s.resumed /\ n.alert = s.alert,
           n.keys.cr = s.cr, n.keys.sr = s.sr,
           NEW w, RecordOK(w), w.keys = s.wr.keys, w.seq = s.wr.seq,
           IsMsg(w, "ServerHello"), w.body.random = s.sr
    PROVE  Keys(p, c, q, n, X \cup {w}, Y)
<1>1. Numeric(c) /\ Numeric(s) /\ Numeric(n) /\ Numerics(X) /\ Numerics(Y)
  BY NumericEnd, NumericRecords DEF Fine, Typed
<1>2. n.keys.cr > 0 /\ n.keys.sr > 0 /\ n.keys # NoKeys
  BY <1>1, NoKeysNumbers DEF Numeric, Fine, Keys, ServerKeys
<1>3. Shaped(n)
  BY <1>2 DEF Fine, Keys, Shaped, Numbered, Secure, Advances
<1>4. ServerKeys(q, n)
  BY <1>1 DEF Numeric, Fine, Keys, Fresh, ServerKeys, Advances
<1>5. Joint(p, c, q, n)
  BY <1>1 DEF Numeric, Fine, Keys, ServerDone, Joint, Advances
<1>6. ToClient(q, n, X \cup {w})
  BY <1>1
     DEF Numeric, Numerics, Fine, Keys, Shaped, Secure, ServerKeys, Counts, ToClient, IsMsg,
         Advances
<1>7. Behind(p, c, n, X \cup {w})
  BY DEF Fine, Keys, Advances, Behind
<1> QED
  BY <1>3, <1>4, <1>5, <1>6, <1>7 DEF Fine, Keys

\* ChangeCipherSpec: what follows is written with the new keys.
LEMMA ServerSwitches ==
    ASSUME NEW p, NEW c, NEW q, NEW s, NEW X, NEW Y, Fine(p, c, q, s, X, Y),
           q = "switching", s.keys.cr = s.cr, s.keys.sr = s.sr, s.wr.keys.sr < s.keys.sr,
           NEW n, EndOK(n),
           Switches(n.wr, n.keys),
           n.cr = s.cr /\ n.sr = s.sr /\ n.keys = s.keys /\ n.rd = s.rd,
           n.resumed = s.resumed /\ n.alert = s.alert,
           NEW w, RecordOK(w), w.keys = s.wr.keys, w.seq = s.wr.seq,
           w.type = "ccs"
    PROVE  Keys(p, c, q, n, X \cup {w}, Y)
<1>1. Numeric(c) /\ Numeric(s) /\ Numeric(n) /\ Numerics(X) /\ Numerics(Y)
  BY NumericEnd, NumericRecords DEF Fine, Typed
<1>2. Shaped(n)
  BY DEF Fine, Keys, Shaped, Switches
<1>3. ServerKeys(q, n)
  BY DEF Fine, Keys, Fresh, ServerDone, ServerKeys, Switches
<1>4. Joint(p, c, q, n)
  BY <1>1 DEF Numeric, Fine, Keys, ServerKeys, Joint, Switches
<1>5. ToClient(q, n, X \cup {w})
  BY <1>1
     DEF Numeric, Numerics, Fine, Keys, Shaped, Secure, ServerKeys, Counts, ToClient, IsMsg,
         Switches
<1>6. Behind(p, c, n, X \cup {w})
  BY <1>1, NoKeysNumbers DEF Numeric, Numerics, Fine, Keys, ToClient, IsMsg, Switches, Behind
<1> QED
  BY <1>2, <1>3, <1>4, <1>5, <1>6 DEF Fine, Keys

\* The Finished that follows ChangeCipherSpec when a session is resumed.
LEMMA ServerSwitched ==
    ASSUME NEW p, NEW c, NEW q, NEW s, NEW X, NEW Y, Fine(p, c, q, s, X, Y),
           q = "switching", s.keys.cr = s.cr, s.keys.sr = s.sr, s.wr.keys = s.keys, s.wr.seq = 0,
           NEW n, EndOK(n),
           Advances(s.wr, n.wr),
           n.cr = s.cr /\ n.sr = s.sr /\ n.keys = s.keys /\ n.rd = s.rd,
           n.resumed = s.resumed /\ n.alert = s.alert,
           NEW w, RecordOK(w), w.keys = s.wr.keys, w.seq = s.wr.seq,
           IsMsg(w, "Finished")
    PROVE  Keys(p, c, "Finished", n, X \cup {w}, Y)
<1>1. Numeric(c) /\ Numeric(s) /\ Numeric(n) /\ Numerics(X) /\ Numerics(Y)
  BY NumericEnd, NumericRecords DEF Fine, Typed
<1>2. Shaped(n)
  BY DEF Fine, Keys, Shaped, Secure, Advances
<1>3. ServerKeys("Finished", n)
  BY <1>1 DEF Numeric, Fine, Keys, Fresh, ServerDone, ServerKeys, Advances
<1>4. Joint(p, c, "Finished", n)
  BY <1>1 DEF Numeric, Fine, Keys, ServerDone, Joint, Advances
<1>5. ToClient("Finished", n, X \cup {w})
  BY <1>1, NoKeysNumbers
     DEF Numeric, Numerics, Fine, Keys, Secure, ServerKeys, Counts, ToClient, IsMsg, Advances
<1>6. Behind(p, c, n, X \cup {w})
  BY DEF Fine, Keys, Advances, IsMsg, Behind
<1> QED
  BY <1>2, <1>3, <1>4, <1>5, <1>6 DEF Fine, Keys

\* The end of a full handshake, record by record.
LEMMA ServerWritesCcs ==
    ASSUME NEW p, NEW c, NEW q, NEW s, NEW X, NEW Y, Fine(p, c, q, s, X, Y),
           q = "finishing",
           NEW n, EndOK(n),
           Switches(n.wr, n.keys),
           n.cr = s.cr /\ n.sr = s.sr /\ n.keys = s.keys /\ n.rd = s.rd,
           n.resumed = s.resumed /\ n.alert = s.alert,
           NEW w, RecordOK(w), w.keys = s.wr.keys, w.seq = s.wr.seq,
           w.type = "ccs"
    PROVE  Keys(p, c, q, n, X \cup {w}, Y)
<1>1. Numeric(c) /\ Numeric(s) /\ Numeric(n) /\ Numerics(X) /\ Numerics(Y)
  BY NumericEnd, NumericRecords DEF Fine, Typed
<1>2. Shaped(n)
  BY DEF Fine, Keys, Shaped, Switches
<1>3. ServerKeys(q, n)
  BY DEF Fine, Keys, Fresh, DoneKeys, ServerKeys, Switches
<1>4. Joint(p, c, q, n)
  BY <1>1 DEF Numeric, Fine, Keys, DoneKeys, ServerKeys, Joint, Switches
<1>5. ToClient(q, n, X \cup {w})
  BY <1>1
     DEF Numeric, Numerics, Fine, Keys, Shaped, Secure, DoneKeys, ServerKeys, Counts, ToClient,
         IsMsg, Switches
<1>6. Behind(p, c, n, X \cup {w})
  BY <1>1, NoKeysNumbers DEF Numeric, Numerics, Fine, Keys, ServerDone, DoneKeys, ServerKeys, ToClient, IsMsg, Switches, Behind
<1> QED
  BY <1>2, <1>3, <1>4, <1>5, <1>6 DEF Fine, Keys

\* The Finished that follows ChangeCipherSpec.
LEMMA ServerWritesFinished ==
    ASSUME NEW p, NEW c, NEW q, NEW s, NEW X, NEW Y, Fine(p, c, q, s, X, Y),
           q = "finishing", s.wr.keys = s.keys,
           NEW n, EndOK(n),
           Advances(s.wr, n.wr),
           n.cr = s.cr /\ n.sr = s.sr /\ n.keys = s.keys /\ n.rd = s.rd,
           n.resumed = s.resumed /\ n.alert = s.alert,
           NEW w, RecordOK(w), w.keys = s.wr.keys, w.seq = s.wr.seq,
           IsMsg(w, "Finished")
    PROVE  Keys(p, c, "DONE", n, X \cup {w}, Y)
<1>1. Numeric(c) /\ Numeric(s) /\ Numeric(n) /\ Numerics(X) /\ Numerics(Y)
  BY NumericEnd, NumericRecords DEF Fine, Typed
<1>2. Shaped(n)
  BY DEF Fine, Keys, Shaped, Secure, Advances
<1>3. ServerKeys("DONE", n)
  BY DEF Fine, Keys, Fresh, DoneKeys, ServerDone, ServerKeys, Advances
<1>4. Joint(p, c, "DONE", n)
  BY <1>1 DEF Numeric, Fine, Keys, ServerDone, Joint, Advances
<1>5. ToClient("DONE", n, X \cup {w})
  BY <1>1 DEF Numerics, Fine, Keys, Secure, DoneKeys, ServerKeys, Counts, ToClient, IsMsg, Advances
<1>6. Behind(p, c, n, X \cup {w})
  BY DEF Fine, Keys, Advances, IsMsg, Behind
<1> QED
  BY <1>2, <1>3, <1>4, <1>5, <1>6 DEF Fine, Keys

-----------------------------------------------------------------------------
(* The data in both directions *)

\* Nothing but the alert or the state of an end changes, and records are lost.
LEMMA EndKeeps ==
    ASSUME NEW a, NEW b, NEW In, NEW Out, Flows(a, b, In, Out),
           NEW n, n.rd = a.rd /\ n.wr = a.wr /\ n.cr = a.cr, Kept(a, n), Steady(a, n),
           NEW I, I \subseteq In, NEW O, O \subseteq Out
    PROVE  Flows(n, b, I, O)
<1>1. Flow(n, b, O)
  <2>1. n.wr = a.wr /\ n.sent = a.sent /\ n.final = a.final
    BY DEF Kept
  <2> QED
    BY <2>1, FlowStays DEF Flows
<1>2. Flow(b, n, I)
  <2>1. n.rd = a.rd /\ n.got = a.got /\ n.closed = a.closed /\ Steady(b, b)
    BY DEF Kept, Steady
  <2> QED
    BY <2>1, FlowStays DEF Flows
<1> QED
  BY <1>1, <1>2 DEF Flows

\* An end reads a record that changes no keys.
LEMMA EndReads ==
    ASSUME NEW a, NEW b, NEW In, NEW Out, Flows(a, b, In, Out), Way(b, a, In),
           NEW r \in In, r.keys = a.rd.keys, r.seq = a.rd.seq, r.type # "ccs",
           NEW n, Advances(a.rd, n.rd), n.wr = a.wr /\ n.sent = a.sent /\ n.final = a.final,
           Steady(a, n),
           n.got = IF Gives(r) THEN r.body ELSE a.got,
           n.closed => Closes(r) \/ (a.closed /\ n.got = a.got),
           \A x \in In : x.type = "ccs" /\ x.keys.cr = n.cr => n.cr = a.cr
    PROVE  Flows(n, b, In, Out)
<1>1. Flow(n, b, Out)
  BY FlowStays DEF Flows
<1>2. Flow(b, n, In)
  BY FlowReads DEF Flows
<1> QED
  BY <1>1, <1>2 DEF Flows

\* An end writes a record that changes no keys.
LEMMA EndWrites ==
    ASSUME NEW a, NEW b, NEW In, NEW Out, Flows(a, b, In, Out), Way(a, b, Out),
           NEW w, w.keys = a.wr.keys, w.seq = a.wr.seq, w.type # "ccs",
           NEW n, EndOK(n), Advances(a.wr, n.wr), Steady(a, n), Adds(a, n, w),
           n.rd = a.rd /\ n.got = a.got /\ n.closed = a.closed,
           \A x \in In : x.type = "ccs" /\ x.keys.cr = n.cr => n.cr = a.cr
    PROVE  Flows(n, b, In, Out \cup {w})
<1>1. Flow(n, b, Out \cup {w})
  BY FlowWrites DEF Flows
<1>2. Flow(b, n, In)
  BY FlowStays DEF Flows, Steady
<1> QED
  BY <1>1, <1>2 DEF Flows

LEMMA WaysAre ==
    ASSUME NEW p, NEW c, NEW q, NEW s, NEW X, NEW Y, Fine(p, c, q, s, X, Y)
    PROVE  Way(c, s, Y) /\ Way(s, c, X)
<1>1. EndOK(c) /\ EndOK(s) /\ \A r \in X \cup Y : RecordOK(r)
  BY DEF Fine, Typed
<1>2. (~Secure(c.wr) => c.wr.seq = 0) /\ (~Secure(s.wr) => s.wr.seq = 0)
  BY DEF Fine, Keys, Shaped
<1>3. /\ Counts(c, Y) /\ \A r \in Y : r.keys.cr <= c.wr.keys.cr
      /\ Counts(s, X) /\ \A r \in X : r.keys.cr <= s.wr.keys.cr
  BY DEF Fine, Keys, ToServer, ToClient
<1>4. /\ s.rd.keys = c.wr.keys => s.rd.seq <= c.wr.seq
      /\ c.rd.keys = s.wr.keys => c.rd.seq <= s.wr.seq
  BY DEF Fine, Keys, Joint
<1> QED
  BY <1>1, <1>2, <1>3, <1>4 DEF Way

\* A message of the handshake.
LEMMA ClientHeeds ==
    ASSUME NEW p, NEW c, NEW q, NEW s, NEW X, NEW Y, Fine(p, c, q, s, X, Y),
           NEW r \in X, r.keys = c.rd.keys, r.seq = c.rd.seq, NEW msg, IsMsg(r, msg),
           NEW n, Advances(c.rd, n.rd), n.wr = c.wr, n.cr = c.cr, Kept(c, n), Steady(c, n)
    PROVE  Flows(n, s, X, Y)
<1>1. r.type # "ccs" /\ ~Gives(r)
  BY DEF IsMsg, Gives
<1>2. /\ n.sent = c.sent /\ n.final = c.final /\ n.got = c.got
      /\ n.closed => c.closed
  BY DEF Kept
<1>3. Flows(c, s, X, Y) /\ Way(s, c, X)
  BY WaysAre DEF Fine
<1> QED
  BY <1>1, <1>2, <1>3, EndReads

LEMMA ServerHeeds ==
    ASSUME NEW p, NEW c, NEW q, NEW s, NEW X, NEW Y, Fine(p, c, q, s, X, Y),
           NEW r \in Y, r.keys = s.rd.keys, r.seq = s.rd.seq, NEW msg, IsMsg(r, msg),
           NEW n, Advances(s.rd, n.rd), n.wr = s.wr, n.cr = s.cr, Kept(s, n), Steady(s, n)
    PROVE  Flows(c, n, X, Y)
<1>1. r.type # "ccs" /\ ~Gives(r)
  BY DEF IsMsg, Gives
<1>2. /\ n.sent = s.sent /\ n.final = s.final /\ n.got = s.got
      /\ n.closed => s.closed
  BY DEF Kept
<1>3. Flows(s, c, Y, X) /\ Way(c, s, Y)
  BY WaysAre DEF Fine, Flows
<1>4. Flows(n, c, Y, X)
  BY <1>1, <1>2, <1>3, EndReads
<1> QED
  BY <1>4 DEF Flows

\* The numbers of the key blocks: what the server uses is no newer than what
\* the client does, until the server switches.
LEMMA ClientOrder ==
    ASSUME NEW p, NEW c, NEW q, NEW s, NEW X, NEW Y, Fine(p, c, q, s, X, Y)
    PROVE  /\ Numeric(c) /\ Numeric(s) /\ Numerics(X) /\ Numerics(Y)
           /\ s.cr <= c.cr /\ s.wr.keys.cr <= s.cr /\ s.rd.keys.cr <= s.cr /\ s.keys.cr <= s.cr
           /\ c.wr.keys.cr <= c.keys.cr /\ c.rd.keys.cr <= c.keys.cr /\ c.keys.cr <= c.cr
<1>1. Numeric(c) /\ Numeric(s) /\ Numerics(X) /\ Numerics(Y)
  BY NumericEnd, NumericRecords DEF Fine, Typed
<1>2. s.keys.cr <= s.cr /\ s.wr.keys.cr <= s.keys.cr /\ s.rd.keys.cr <= s.keys.cr
  BY DEF Fine, Keys, ServerKeys
<1>3. c.wr.keys.cr <= c.keys.cr /\ c.rd.keys.cr <= c.keys.cr /\ c.keys.cr <= c.cr
  BY DEF Fine, Keys, ClientKeys
<1>4. s.cr \in {c.cr - 1, c.cr}
  BY DEF Fine, Keys, Joint
<1> QED
  BY <1>1, <1>2, <1>3, <1>4 DEF Numeric

\* sslActivateReadCipher, of the client and of the server.
LEMMA ClientTurns ==
    ASSUME NEW p, NEW c, NEW q, NEW s, NEW X, NEW Y, Fine(p, c, q, s, X, Y),
           NEW r \in X, r.keys = c.rd.keys, r.seq = c.rd.seq, r.type = "ccs", p = "Finished",
           NEW n, Switches(n.rd, c.keys), n.wr = c.wr, n.cr = c.cr, Kept(c, n), Steady(c, n)
    PROVE  Flows(n, s, X, Y)
<1>1. Way(s, c, X) /\ Flow(s, c, X) /\ Flow(c, s, Y)
  BY WaysAre DEF Fine, Flows
<1>2. /\ c.keys.cr = c.cr /\ c.rd.keys.cr >= c.cr - 1
      /\ c.rd.keys.cr = c.keys.cr => c.rd.keys = c.keys
  BY DEF Fine, Keys, ClientKeys
<1>3. /\ c.keys \in KeyBlocks /\ s.wr.keys.cr <= c.keys.cr
      /\ IF c.keys = c.rd.keys THEN c.keys.cr = c.cr ELSE c.keys.cr = c.rd.keys.cr + 1
  <2>1. c.keys \in KeyBlocks
    BY DEF Fine, Typed, EndOK
  <2> QED
    BY <1>2, <2>1, ClientOrder DEF Numeric
<1>4. /\ n.sent = c.sent /\ n.final = c.final
      /\ n.got = c.got /\ n.closed = c.closed
  BY DEF Kept
<1>5. Flow(s, n, X)
  BY <1>1, <1>3, <1>4, FlowTurns
<1>6. Flow(n, s, Y)
  BY <1>1, <1>4, FlowStays
<1> QED
  BY <1>5, <1>6 DEF Flows

LEMMA ServerTurns ==
    ASSUME NEW p, NEW c, NEW q, NEW s, NEW X, NEW Y, Fine(p, c, q, s, X, Y),
           NEW r \in Y, r.keys = s.rd.keys, r.seq = s.rd.seq, r.type = "ccs", q = "Finished",
           NEW n, Switches(n.rd, s.keys), n.wr = s.wr, n.cr = s.cr, Kept(s, n), Steady(s, n)
    PROVE  Flows(c, n, X, Y)
<1>1. Way(c, s, Y) /\ Flow(s, c, X) /\ Flow(c, s, Y)
  BY WaysAre DEF Fine, Flows
<1>2. /\ s.keys.cr = s.cr /\ s.rd.keys.cr >= s.cr - 1
      /\ s.rd.keys.cr = s.cr => s.rd.keys = s.keys
      /\ s.cr \in {c.cr - 1, c.cr} /\ (s.cr < c.cr => c.keys = s.keys)
  BY DEF Fine, Keys, ServerKeys, Behind, Joint
<1>3. /\ s.keys \in KeyBlocks /\ c.wr.keys.cr <= s.keys.cr
      /\ IF s.keys = s.rd.keys THEN s.keys.cr = s.cr ELSE s.keys.cr = s.rd.keys.cr + 1
  <2>1. s.keys \in KeyBlocks
    BY DEF Fine, Typed, EndOK
  <2> QED
    BY <1>2, <2>1, ClientOrder DEF Numeric
<1>4. /\ n.sent = s.sent /\ n.final = s.final
      /\ n.got = s.got /\ n.closed = s.closed
  BY DEF Kept
<1>5. Flow(c, n, Y)
  BY <1>1, <1>3, <1>4, FlowTurns
<1>6. Flow(n, c, X)
  BY <1>1, <1>4, FlowStays
<1> QED
  BY <1>5, <1>6 DEF Flows

\* ClientHello is written with a random that is newer than all keys in use.
LEMMA ClientSaysHello ==
    ASSUME NEW p, NEW c, NEW q, NEW s, NEW X, NEW Y, Fine(p, c, q, s, X, Y),
           NEW n, EndOK(n), Advances(c.wr, n.wr), n.rd = c.rd, n.cr = c.cr + 1, Kept(c, n),
           NEW w, w.keys = c.wr.keys, w.seq = c.wr.seq, NEW msg, IsMsg(w, msg)
    PROVE  Flows(n, s, X, Y \cup {w})
<1>1. Flows(c, s, X, Y) /\ Way(c, s, Y) /\ Way(s, c, X)
  BY WaysAre DEF Fine
<1>2. w.type # "ccs" /\ ~Gives(w) /\ ~Closes(w)
  BY DEF IsMsg, Gives, Closes
<1>3. Adds(c, n, w) /\ n.got = c.got /\ n.closed = c.closed
  BY <1>2 DEF Kept, Adds
<1>4. Steady(c, n)
  BY ClientOrder DEF Steady, Advances, Numeric
<1>5. \A x \in X : x.keys.cr # n.cr
  <2>1. \A x \in X : x.keys.cr \in Nat /\ x.keys.cr <= s.wr.keys.cr
    BY <1>1, ClientOrder DEF Way, Numerics
  <2> QED
    BY <2>1, ClientOrder DEF Numeric
<1> QED
  BY <1>1, <1>2, <1>3, <1>4, <1>5, EndWrites

LEMMA ServerHeedsHello ==
    ASSUME NEW p, NEW c, NEW q, NEW s, NEW X, NEW Y, Fine(p, c, q, s, X, Y),
           NEW r \in Y, r.keys = s.rd.keys, r.seq = s.rd.seq, IsMsg(r, "ClientHello"),
           q \in {"ClientHello", "DONE"}, ~s.alert,
           NEW n, Advances(s.rd, n.rd), n.wr = s.wr, n.cr = r.body.random, Kept(s, n)
    PROVE  Flows(c, n, X, Y)
<1>1. Flows(s, c, Y, X) /\ Way(c, s, Y)
  BY WaysAre DEF Fine, Flows
<1>2. r.type # "ccs" /\ ~Gives(r)
  BY DEF IsMsg, Gives
<1>3. /\ n.sent = s.sent /\ n.final = s.final /\ n.got = s.got
      /\ n.closed => s.closed
  BY DEF Kept
<1>4. n.cr = s.cr + 1 /\ c.wr.keys.cr = s.cr /\ s.wr.keys.cr = s.cr
  BY HelloIsNext, ClientOrder DEF Numeric
<1>5. Steady(s, n)
  BY <1>4, ClientOrder DEF Steady, Numeric
<1>6. \A x \in Y : x.keys.cr # n.cr
  BY <1>1, <1>4, ClientOrder DEF Way, Numerics, Numeric
<1>7. Flows(n, c, Y, X)
  BY <1>1, <1>2, <1>3, <1>5, <1>6, EndReads
<1> QED
  BY <1>7 DEF Flows

\* A client that begins to write with the keys of its handshake: the server
\* reads with those of the handshake before.  b is the client, or what the
\* records before ChangeCipherSpec have made of it.
LEMMA ClientBegins ==
    ASSUME NEW p, NEW c, NEW q, NEW s, NEW X, NEW Y, Fine(p, c, q, s, X, Y),
           p # "ServerHello", c.wr.keys.cr = c.cr - 1,
           NEW keys \in KeyBlocks, keys.cr = c.cr,
           NEW b, NEW Z, Way(b, s, Z), Flow(b, s, Z), b.wr.keys = c.wr.keys,
           NEW w, w.keys = b.wr.keys, w.seq = b.wr.seq, w.type = "ccs",
           NEW n, Switches(n.wr, keys), n.sent = b.sent, n.final = b.final
    PROVE  Flow(n, s, Z \cup {w})
<1>1. Numeric(c) /\ Numeric(s) /\ c.cr = s.cr
  BY ClientOrder DEF Fine, Keys, Joint, Numeric
<1>2. /\ s.rd.keys.cr <= c.wr.keys.cr
      /\ s.rd.keys.cr < c.cr => s.rd.keys = c.wr.keys
      /\ Secure(s.rd) /\ s.rd.keys.cr < c.cr => s.rd.seq >= 1
  <2>1. s.rd.keys.cr <= c.wr.keys.cr /\ c.wr.keys.cr < c.cr
    BY <1>1 DEF Fine, Keys, Joint, Numeric
  <2>2. s.rd.keys.cr < c.cr => s.rd.keys = c.wr.keys
    BY <1>1, <2>1 DEF Fine, Keys, Joint
  <2>3. Secure(s.rd) /\ s.rd.keys.cr < c.cr => s.rd.seq >= 1
    BY <1>1 DEF Fine, Keys, ServerKeys, Fresh, Numeric
  <2> QED
    BY <2>1, <2>2, <2>3
<1>3. keys # b.wr.keys /\ keys # s.rd.keys /\ \A r \in Z : r.keys # keys
  <2>1. \A r \in Z : r.keys.cr <= b.wr.keys.cr
    BY DEF Way
  <2> QED
    BY <1>1, <1>2, <2>1 DEF Numeric
<1>4. b.wr.keys.cr # s.cr
  BY <1>1 DEF Numeric
<1>5. keys.cr = s.rd.keys.cr + 1 =>
         b.wr.keys = s.rd.keys /\ (Secure(s.rd) => s.rd.seq >= 1)
  BY <1>1, <1>2 DEF Numeric
<1> QED
  BY <1>3, <1>4, <1>5, FlowSwitches

\* The end of the client's key exchange.
LEMMA ClientSwitchesFlows ==
    ASSUME NEW c, NEW q, NEW s, NEW X, NEW Y, Fine("switching", c, q, s, X, Y),
           NEW k1, EndOK(k1), Advances(c.wr, k1.wr), Kept(c, k1), k1.hs = c.hs, k1.cr = c.cr,
           c.hs = "Finished",
           NEW w1, RecordOK(w1), w1.keys = c.wr.keys, w1.seq = c.wr.seq,
           IsMsg(w1, "ClientKeyExchange"),
           NEW k2, EndOK(k2), Kept(k1, k2), k2.hs = c.hs, k2.cr = c.cr,
           NEW keys \in KeyBlocks, keys.cr = c.cr, Switches(k2.wr, keys),
           NEW w2, RecordOK(w2), w2.keys = k1.wr.keys, w2.seq = k1.wr.seq, w2.type = "ccs",
           NEW n, EndOK(n), Advances(k2.wr, n.wr), Kept(k2, n), n.rd = c.rd, n.cr = c.cr,
           NEW w3, w3.keys = k2.wr.keys, w3.seq = k2.wr.seq, IsMsg(w3, "Finished")
    PROVE  Flows(n, s, X, Y \cup {w1, w2, w3})
<1>1. Flow(c, s, Y) /\ Flow(s, c, X) /\ Way(c, s, Y)
  BY WaysAre DEF Fine, Flows
<1>2. Numeric(c) /\ c.wr.keys.cr = c.cr - 1 /\ c.cr > 0
  BY ClientOrder DEF Fine, Keys, ClientKeys, Waiting, Numeric
<1>3. Flow(k1, s, Y \cup {w1}) /\ Way(k1, s, Y \cup {w1})
  <2>1. w1.type # "ccs" /\ ~Gives(w1) /\ ~Closes(w1) /\ ~IsMsg(w1, "Finished")
    BY DEF IsMsg, Gives, Closes
  <2>2. Adds(c, k1, w1) /\ Steady(c, k1)
    BY <2>1 DEF Kept, Adds, Steady, Advances
  <2>3. Flow(k1, s, Y \cup {w1})
    BY <1>1, <2>1, <2>2, FlowWrites
  <2>4. Way(k1, s, Y \cup {w1})
    <3>1. \A r \in Y \cup {w1} : RecordOK(r) /\ r.keys.cr <= k1.wr.keys.cr
      BY <1>1, <1>2 DEF Way, Advances, Numeric
    <3>2. /\ EndOK(s) /\ (~Secure(k1.wr) => k1.wr.seq = 0)
          /\ s.rd.keys = k1.wr.keys => s.rd.seq <= k1.wr.seq
      BY <1>1, <1>2, ClientOrder DEF Way, Advances, Secure, Numeric
    <3>3. \A r \in Y : r.seq \in Nat
      BY <1>1 DEF Way, RecordOK
    <3>4. Counts(k1, Y \cup {w1})
      BY <1>1, <1>2, <2>1, <3>3 DEF Way, Counts, Advances, Secure, Numeric
    <3> QED
      BY <3>1, <3>2, <3>4 DEF Way
  <2> QED
    BY <2>3, <2>4
<1>4. Flow(k2, s, (Y \cup {w1}) \cup {w2})
  <2>1. k1.wr.keys = c.wr.keys /\ k2.sent = k1.sent /\ k2.final = k1.final
    BY DEF Advances, Kept
  <2> QED
    BY <1>2, <1>3, <2>1, ClientBegins
<1>5. Way(k2, s, (Y \cup {w1}) \cup {w2})
  <2>1. \A r \in (Y \cup {w1}) \cup {w2} : RecordOK(r) /\ r.keys.cr <= c.wr.keys.cr
    BY <1>1, <1>2, <1>3 DEF Way, Advances, Numeric
  <2>2. \A r \in (Y \cup {w1}) \cup {w2} : r.keys # k2.wr.keys
    BY <1>2, <2>1 DEF Switches, Numeric
  <2>3. s.rd.keys # k2.wr.keys
    <3>1. s.rd.keys.cr <= c.wr.keys.cr
      BY DEF Fine, Keys, Joint
    <3> QED
      BY <1>2, <3>1, ClientOrder DEF Switches, Numeric
  <2>4. \A r \in (Y \cup {w1}) \cup {w2} :
           /\ ~Secure(r) => r.seq = 0
           /\ IsMsg(r, "Finished") => Secure(r) /\ r.seq = 0
    BY <1>3 DEF Way, Counts, Secure, IsMsg
  <2>5. Counts(k2, (Y \cup {w1}) \cup {w2})
    BY <2>2, <2>4 DEF Counts
  <2>6. \A r \in (Y \cup {w1}) \cup {w2} : r.keys.cr <= k2.wr.keys.cr
    <3>1. \A r \in (Y \cup {w1}) \cup {w2} : r.keys.cr \in Nat
      BY <2>1, NumericKeys DEF RecordOK
    <3> QED
      BY <1>2, <2>1, <3>1 DEF Switches, Numeric
  <2>7. EndOK(s) /\ (~Secure(k2.wr) => k2.wr.seq = 0)
    BY <1>1 DEF Way, Switches
  <2> QED
    BY <2>1, <2>3, <2>5, <2>6, <2>7 DEF Way
<1>6. Flow(n, s, ((Y \cup {w1}) \cup {w2}) \cup {w3})
  <2>1. w3.type # "ccs" /\ ~Gives(w3) /\ ~Closes(w3)
    BY DEF IsMsg, Gives, Closes
  <2>2. Adds(k2, n, w3) /\ Steady(k2, n)
    BY <2>1 DEF Kept, Adds, Steady, Advances, Switches
  <2> QED
    BY <1>4, <1>5, <2>1, <2>2, FlowWrites
<1>7. Flow(s, n, X)
  <2>1. n.got = c.got /\ n.closed = c.closed /\ Steady(s, s)
    BY DEF Kept, Steady
  <2> QED
    BY <1>1, <2>1, FlowStays
<1>8. ((Y \cup {w1}) \cup {w2}) \cup {w3} = Y \cup {w1, w2, w3}
  OBVIOUS
<1> QED
  BY <1>6, <1>7, <1>8 DEF Flows

\* ChangeCipherSpec of a client that finishes, for the first time or again.
LEMMA ClientFinishesFlows ==
    ASSUME NEW p, NEW c, NEW q, NEW s, NEW X, NEW Y, Fine(p, c, q, s, X, Y), p = "finishing",
           NEW w, w.keys = c.wr.keys, w.seq = c.wr.seq, w.type = "ccs",
           NEW n, Switches(n.wr, c.keys), n.rd = c.rd, n.cr = c.cr, n.hs = c.hs, Kept(c, n)
    PROVE  Flows(n, s, X, Y \cup {w})
<1>1. Flow(c, s, Y) /\ Flow(s, c, X) /\ Way(c, s, Y)
  BY WaysAre DEF Fine, Flows
<1>2. n.sent = c.sent /\ n.final = c.final /\ n.got = c.got /\ n.closed = c.closed
  BY DEF Kept
<1>3. /\ c.keys.cr = c.cr /\ c.wr.keys.cr >= c.cr - 1
      /\ c.wr.keys # c.keys => c.wr.keys.cr < c.keys.cr
      /\ c.wr.keys = c.keys => c.wr.seq = 0
  BY DEF Fine, Keys, ClientKeys, DoneKeys, ClientDone
<1>4. Flow(n, s, Y \cup {w})
  <2>1. CASE c.wr.keys = c.keys
    <3>1. Steady(c, n)
      BY <2>1 DEF Steady, Switches
    <3> QED
      BY <1>1, <1>2, <1>3, <2>1, <3>1, FlowRepeats
  <2>2. CASE c.wr.keys # c.keys
    <3>1. c.wr.keys.cr = c.cr - 1 /\ c.keys \in KeyBlocks
      BY <1>3, <2>2, ClientOrder DEF Numeric, Fine, Typed, EndOK
    <3> QED
      BY <1>1, <1>2, <1>3, <3>1, ClientBegins
  <2> QED
    BY <2>1, <2>2
<1>5. Flow(s, n, X)
  <2>1. Steady(s, s)
    BY DEF Steady
  <2> QED
    BY <1>1, <1>2, <2>1, FlowStays
<1> QED
  BY <1>4, <1>5 DEF Flows

\* ChangeCipherSpec of a server that resumes a session.
LEMMA ServerSwitchesFlows ==
    ASSUME NEW p, NEW c, NEW q, NEW s, NEW X, NEW Y, Fine(p, c, q, s, X, Y),
           q = "switching", s.keys.cr = s.cr, s.keys.sr = s.sr, s.wr.keys.sr < s.keys.sr,
           s.hs = "Finished",
           NEW w, w.keys = s.wr.keys, w.seq = s.wr.seq, w.type = "ccs",
           NEW n, Switches(n.wr, s.keys), n.rd = s.rd, n.cr = s.cr, Kept(s, n)
    PROVE  Flows(c, n, X \cup {w}, Y)
<1>1. Flow(c, s, Y) /\ Flow(s, c, X) /\ Way(s, c, X) /\ s.keys \in KeyBlocks
  BY WaysAre DEF Fine, Flows, Typed, EndOK
<1>2. n.sent = s.sent /\ n.final = s.final /\ n.got = s.got /\ n.closed = s.closed
  BY DEF Kept
<1>3. Numeric(c) /\ Numeric(s) /\ c.cr = s.cr /\ s.wr.keys.cr <= s.cr
  BY ClientOrder DEF Fine, Keys, Joint
<1>4. s.keys # s.wr.keys /\ s.keys # c.rd.keys /\ \A r \in X : r.keys # s.keys
  <2>1. c.rd.keys.sr <= s.wr.keys.sr /\ \A r \in X : r.keys.sr <= s.wr.keys.sr
    BY DEF Fine, Keys, Behind, ToClient
  <2> QED
    BY <1>3, <2>1 DEF Numeric
<1>5. s.keys.cr = c.rd.keys.cr + 1 =>
         IF c.rd.keys = s.wr.keys THEN Secure(c.rd) => c.rd.seq >= 1
         ELSE s.wr.keys.cr = s.keys.cr
  <2>1. HAVE s.keys.cr = c.rd.keys.cr + 1
  <2>2. c.rd.keys.cr < c.cr /\ c.rd.keys.cr # c.cr
    BY <1>3, <2>1 DEF Numeric
  <2>3. Secure(c.rd) => c.rd.seq >= 1
    BY <2>2 DEF Fine, Keys, ClientKeys, Fresh
  <2>4. s.wr.keys.cr < c.cr => c.rd.keys = s.wr.keys
    BY <1>3, <2>2 DEF Fine, Keys, Joint
  <2> QED
    BY <1>3, <2>3, <2>4 DEF Numeric
<1>6. Flow(n, c, X \cup {w})
  BY <1>1, <1>2, <1>3, <1>4, <1>5, FlowSwitches
<1>7. Flow(c, n, Y)
  <2>1. Steady(c, c)
    BY DEF Steady
  <2> QED
    BY <1>1, <1>2, <2>1, FlowStays
<1> QED
  BY <1>6, <1>7 DEF Flows

\* ChangeCipherSpec of a server that finishes, for the first time or again.
LEMMA ServerFinishesFlows ==
    ASSUME NEW p, NEW c, NEW q, NEW s, NEW X, NEW Y, Fine(p, c, q, s, X, Y), q = "finishing",
           ~s.alert,
           NEW w, w.keys = s.wr.keys, w.seq = s.wr.seq, w.type = "ccs",
           NEW n, Switches(n.wr, s.keys), n.rd = s.rd, n.cr = s.cr, n.hs = s.hs, Kept(s, n)
    PROVE  Flows(c, n, X \cup {w}, Y)
<1>1. Flow(c, s, Y) /\ Flow(s, c, X) /\ Way(s, c, X) /\ s.keys \in KeyBlocks
  BY WaysAre DEF Fine, Flows, Typed, EndOK
<1>2. n.sent = s.sent /\ n.final = s.final /\ n.got = s.got /\ n.closed = s.closed
  BY DEF Kept
<1>3. /\ s.keys.cr = s.cr
      /\ s.wr.keys # s.keys => s.wr.keys.cr < s.keys.cr
      /\ s.wr.keys = s.keys => s.wr.seq = 0
  BY DEF Fine, Keys, ServerKeys, DoneKeys, ServerDone
<1>4. Flow(n, c, X \cup {w})
  <2>1. CASE s.wr.keys = s.keys
    <3>1. Steady(s, n)
      BY <2>1 DEF Steady, Switches
    <3> QED
      BY <1>1, <1>2, <1>3, <2>1, <3>1, FlowRepeats
  <2>2. CASE s.wr.keys # s.keys
    <3>1. Numeric(c) /\ Numeric(s) /\ s.cr <= c.cr /\ s.wr.keys.cr < s.cr
      BY <1>3, <2>2, ClientOrder
    <3>2. c.rd.keys.cr <= s.wr.keys.cr /\ \A r \in X : r.keys.cr <= s.wr.keys.cr
      BY DEF Fine, Keys, Joint, ToClient
    <3>3. s.keys # s.wr.keys /\ s.keys # c.rd.keys /\ \A r \in X : r.keys # s.keys
      BY <1>3, <3>1, <3>2 DEF Numeric
    <3>4. s.keys.cr = c.rd.keys.cr + 1 =>
             c.rd.keys = s.wr.keys /\ (Secure(c.rd) => c.rd.seq >= 1)
      <4>1. HAVE s.keys.cr = c.rd.keys.cr + 1
      <4>2. c.cr = s.cr
        <5>1. s.cr < c.cr => p = "ServerHello" /\ c.keys = s.keys
          BY DEF Fine, Keys, Joint
        <5>2. p = "ServerHello" => c.rd.keys = c.keys
          BY DEF Fine, Keys, ClientKeys, Waiting
        <5> QED
          BY <3>1, <3>3, <5>1, <5>2 DEF Numeric
      <4>3. c.rd.keys.cr < c.cr /\ s.wr.keys.cr < c.cr /\ c.rd.keys.cr # c.cr
        BY <1>3, <3>1, <4>1, <4>2 DEF Numeric
      <4>4. c.rd.keys = s.wr.keys
        BY <4>2, <4>3 DEF Fine, Keys, Joint
      <4> QED
        BY <4>3, <4>4 DEF Fine, Keys, ClientKeys, Fresh
    <3>5. s.wr.keys.cr # c.cr
      BY <3>1 DEF Numeric
    <3> QED
      BY <1>1, <1>2, <3>3, <3>4, <3>5, FlowSwitches
  <2> QED
    BY <2>1, <2>2
<1>5. Flow(c, n, Y)
  <2>1. Steady(c, c)
    BY DEF Steady
  <2> QED
    BY <1>1, <1>2, <2>1, FlowStays
<1> QED
  BY <1>4, <1>5 DEF Flows

-----------------------------------------------------------------------------
(* The room a client's key exchange takes *)

\* BlockLen and MacLen of an end that is in the clear are not asked.
LEMMA CipherIs ==
    ASSUME NEW x \in States, Secure(x)
    PROVE  MacLen(x) \in 0 .. 20 /\ BlockLen(x) \in 0 .. 8
<1>1. x.keys.cipher \in Names
  BY DEF States, KeyBlocks, Secure
<1>2. Suite(x.keys.cipher) \in Ciphers
  BY <1>1 DEF Suite, Names
<1> QED
  BY <1>2, CipherAssumption DEF MacLen, BlockLen

LEMMA PadLenIs ==
    ASSUME NEW n \in Nat, NEW block \in 0 .. 8
    PROVE  PadLen(n, block) \in 0 .. 8 /\ PadLen(n, block) <= block
<1>1. CASE block <= 1
  BY <1>1 DEF PadLen
<1>2. CASE block \in 2 .. 8
  <2>1. n % block \in 0 .. block - 1
    BY <1>2
  <2> QED
    BY <1>2, <2>1 DEF PadLen
<1> QED
  BY <1>1, <1>2

LEMMA RecordSizeIs ==
    ASSUME NEW x \in States, NEW n \in Nat
    PROVE  /\ RecordSize(x, n) \in Nat
           /\ RecordSize(x, n) <= 33 + n
           /\ 2 * RecordSize(x, n) <= 10 + 2 * n + Additions(x, 2) + 2
<1>1. CASE ~Secure(x)
  BY <1>1 DEF RecordSize, MacLen, Additions, RecordHead
<1>2. CASE Secure(x)
  <2>1. MacLen(x) \in 0 .. 20 /\ BlockLen(x) \in 0 .. 8
    BY <1>2, CipherIs
  <2>2. PICK pad \in 0 .. 8 :
          pad <= BlockLen(x) /\ RecordSize(x, n) = 5 + n + MacLen(x) + pad
    BY <1>2, <2>1, PadLenIs DEF RecordSize, RecordHead
  <2>3. Additions(x, 2) = 2 * (MacLen(x) + BlockLen(x) - 1)
    BY <1>2 DEF Additions
  <2> QED
    BY <2>1, <2>2, <2>3
<1> QED
  BY <1>1, <1>2

\* The room that is asked for before the three records are written is enough
\* for all of them, whatever the old and the new cipher.
LEMMA KeyExchangeFits ==
    ASSUME NEW k, EndOK(k), k.hs = "Finished", ~k.alert, k.cipher \in Names,
           NEW room \in Nat, ~(RoomAsked("c", k) > room),
           NEW e, NEW i, NEW j, NEW l,
           i = "ClientKeyExchange", j = "ChangeCipherSpec", l = "Finished",
           NEW k1, k1 = Wrote(e, k, i), NEW k2, k2 = Wrote(e, k1, j)
    PROVE  /\ ~(Size(k, i) > room)
           /\ ~(Size(k1, j) > room - Size(k, i))
           /\ ~(Size(k2, l) > room - Size(k, i) - Size(k1, j))
<1>1. EndOK(k1) /\ EndOK(k2)
  BY WroteOK DEF Items
<1>2. k.wr \in States /\ k1.wr \in States /\ k2.wr \in States /\ k1.wr.keys = k.wr.keys
  <2>1. k.wr \in States /\ k1.wr \in States /\ k2.wr \in States /\ IsEnd(k)
    BY <1>1 DEF EndOK
  <2>3. k1.wr = Counted(k.wr)
    BY <2>1, WroteDerived
  <2> QED
    BY <2>1, <2>3, CountedIs DEF Advances
<1>3. Additions(k1.wr, 2) = Additions(k.wr, 2) /\ Additions(k.wr, 2) \in Int
  BY <1>2, CipherIs DEF Additions, MacLen, BlockLen, Secure
<1>4. RoomAsked("c", k) = 95 + KeyLen + Additions(k.wr, 2)
  BY <1>3, BoundAssumption
     DEF RoomAsked, RecordHead, HandshakeHead, FinishedLen, MaxMac, MaxBlock
<1>5. /\ Size(k, i) = RecordSize(k.wr, 4 + KeyLen)
      /\ Size(k1, j) = RecordSize(k1.wr, 1)
      /\ Size(k2, l) = RecordSize(k2.wr, 40)
  BY DEF Size, ContentLen, HandshakeHead, FinishedLen
<1>6. /\ Size(k, i) \in Nat
      /\ 2 * Size(k, i) <= 10 + 2 * (4 + KeyLen) + Additions(k.wr, 2) + 2
  <2>1. 4 + KeyLen \in Nat
    BY BoundAssumption
  <2> QED
    BY <1>2, <1>5, <2>1, RecordSizeIs
<1>7. \A n \in Nat :
         /\ RecordSize(k1.wr, n) \in Nat
         /\ 2 * RecordSize(k1.wr, n) <= 10 + 2 * n + Additions(k.wr, 2) + 2
         /\ RecordSize(k2.wr, n) \in Nat /\ RecordSize(k2.wr, n) <= 33 + n
  BY <1>2, <1>3, RecordSizeIs
<1>8. PICK n \in Nat, m \in Nat : n = 1 /\ m = 40
  OBVIOUS
<1>9. 95 + KeyLen + Additions(k.wr, 2) <= room
  BY <1>3, <1>4, BoundAssumption
<1>10. /\ Size(k1, j) \in Nat /\ 2 * Size(k1, j) <= 14 + Additions(k.wr, 2)
       /\ Size(k2, l) \in Nat /\ Size(k2, l) <= 73
  BY <1>3, <1>5, <1>7, <1>8
<1> QED
  BY <1>3, <1>6, <1>9, <1>10, BoundAssumption

-----------------------------------------------------------------------------
(* Answers of the client *)

\* A record that is read or lost takes nothing from what holds of the others.
LEMMA Fewer ==
    ASSUME NEW p, NEW c, NEW q, NEW s, NEW X, NEW Y, Fine(p, c, q, s, X, Y),
           NEW X2, NEW Y2, X2 \subseteq X, Y2 \subseteq Y
    PROVE  Fine(p, c, q, s, X2, Y2)
<1>1. Typed(c, s, X2, Y2)
  BY DEF Fine, Typed
<1>2. ToServer(c, Y2)
  BY DEF Fine, Keys, ToServer, Counts
<1>3. ToClient(q, s, X2)
  BY DEF Fine, Keys, ToClient, Counts
<1>4. Behind(p, c, s, X2)
  BY DEF Fine, Keys, Behind
<1>5. Flows(c, s, X2, Y2)
  BY EndKeeps DEF Fine, Kept, Steady
<1> QED
  BY <1>1, <1>2, <1>3, <1>4, <1>5 DEF Fine, Keys

LEMMA CutIs ==
    ASSUME NEW k, EndOK(k), NEW room \in Free, NEW n, n = Cut(k, room)
    PROVE  EndOK(n) /\ Differs(k, n, {"room"}) /\ n.room = room /\ Kept(k, n)
<1>1. Differs(k, n, {"room"}) /\ n.room = room
  BY DEF Cut, EndOK, Differs, IsEnd, Fields
<1> QED
  BY <1>1 DEF EndOK, Differs, Fields, Kept

LEMMA OverIs ==
    ASSUME NEW k, k.alert \in BOOLEAN, NEW m, EndOK(m), NEW n, n = Over(k, m)
    PROVE  /\ EndOK(n) /\ Differs(m, n, {"room", "error", "hs"})
           /\ n.room = -1 /\ Kept(m, n)
           /\ k.alert => n.error
           /\ n.hs = IF m.hs = "HelloRequest" THEN "ServerHello" ELSE m.hs
<1>1. PICK error \in BOOLEAN :
         error = (m.error \/ k.alert)
  OBVIOUS
<1>2. PICK hs : hs = IF m.hs = "HelloRequest" THEN "ServerHello" ELSE m.hs
  OBVIOUS
<1>3. n = [m EXCEPT !.room = -1, !.error = error, !.hs = hs]
  BY <1>1, <1>2 DEF Over
<1>4. /\ Differs(m, n, {"room", "error", "hs"})
      /\ n.room = -1 /\ n.error = error /\ n.hs = hs
  BY <1>3 DEF EndOK, Differs, IsEnd, Fields
<1>5. hs \in Expected
  BY <1>2 DEF EndOK, Expected
<1>6. EndOK(n)
  BY <1>4, <1>5 DEF EndOK, Differs, Fields
<1>7. Kept(m, n)
  BY <1>4 DEF Differs, Fields, Kept
<1> QED
  BY <1>1, <1>2, <1>4, <1>6, <1>7

\* What is left of an end that a short buffer has stopped, and what one that
\* has finished its answer becomes.
LEMMA ClientCut ==
    ASSUME NEW p, NEW c, NEW q, NEW s, NEW X, NEW Y, Fine(p, c, q, s, X, Y),
           NEW room \in Free, NEW n, n = Cut(c, room)
    PROVE  /\ Fine(p, n, q, s, X, Y)
           /\ n.room = room /\ n.alert = c.alert /\ n.hs = c.hs /\ Kept(c, n)
<1>1. EndOK(n) /\ Differs(c, n, {"room"}) /\ n.room = room /\ Kept(c, n)
  BY CutIs DEF Fine, Typed
<1>2. /\ n.rd = c.rd /\ n.cr = c.cr /\ n.keys = c.keys /\ n.wr = c.wr /\ n.sr = c.sr
      /\ n.resumed = c.resumed /\ n.alert = c.alert /\ n.hs = c.hs /\ n.id = c.id
      /\ n.cipher = c.cipher
  BY <1>1 DEF Differs, Fields
<1>3. Keys(p, n, q, s, X, Y)
  BY <1>1, <1>2, ClientKeeps
<1>4. Steady(c, n)
  BY <1>2 DEF Steady
<1>5. Flows(n, s, X, Y)
  BY <1>1, <1>2, <1>4, EndKeeps DEF Fine
<1> QED
  BY <1>1, <1>2, <1>3, <1>5 DEF Fine, Typed, ClientNamed

LEMMA ClientOver ==
    ASSUME NEW p, NEW c, NEW q, NEW s, NEW X, NEW Y, Fine(p, c, q, s, X, Y),
           c.hs = "HelloRequest" /\ c.id = 0 => ~c.resumed,
           NEW k, k.alert \in BOOLEAN, NEW n, n = Over(k, c)
    PROVE  /\ Fine(p, n, q, s, X, Y)
           /\ Kept(c, n)
           /\ n.room = -1 /\ n.alert = c.alert /\ (k.alert => n.error)
           /\ n.hs = IF c.hs = "HelloRequest" THEN "ServerHello" ELSE c.hs
<1>1. /\ EndOK(n) /\ Differs(c, n, {"room", "error", "hs"})
      /\ Kept(c, n)
      /\ n.room = -1 /\ (k.alert => n.error)
      /\ n.hs = IF c.hs = "HelloRequest" THEN "ServerHello" ELSE c.hs
  BY OverIs DEF Fine, Typed
<1>2. /\ n.rd = c.rd /\ n.cr = c.cr /\ n.keys = c.keys /\ n.wr = c.wr /\ n.sr = c.sr
      /\ n.resumed = c.resumed /\ n.alert = c.alert /\ n.id = c.id /\ n.cipher = c.cipher
  BY <1>1 DEF Differs, Fields
<1>3. Keys(p, n, q, s, X, Y)
  BY <1>1, <1>2, ClientKeeps
<1>4. Steady(c, n)
  BY <1>1, <1>2 DEF Steady
<1>5. Flows(n, s, X, Y)
  BY <1>1, <1>2, <1>4, EndKeeps DEF Fine
<1> QED
  BY <1>1, <1>2, <1>3, <1>5 DEF Fine, Typed, ClientNamed

\* One record that changes no keys.
PlainItem(k, item) ==
    /\ item \in PlainItems \/ (item = "ServerHello" /\ ~k.resumed)
    /\ item \in {"ClientHello", "ServerHello"} => k.cipher \in Names
Sent(k, n) ==
    /\ n.hs = k.hs /\ n.resumed = k.resumed /\ n.alert = k.alert /\ n.room = k.room
    /\ n.id = k.id /\ n.cipher = k.cipher /\ n.cr = k.cr /\ n.sr = k.sr /\ n.rd = k.rd
    /\ Kept(k, n)
RecordOf(k, item, w) ==
    /\ RecordOK(w) /\ w.keys = k.wr.keys /\ w.seq = k.wr.seq
    /\ item = "ChangeCipherSpec" <=> w.type = "ccs"
    /\ item = "Alert" <=> w.type = "alert"
    /\ item \notin {"ChangeCipherSpec", "Alert"} => IsMsg(w, item)
    /\ item = "ClientHello" => w.body.random = k.cr
    /\ item = "ServerHello" => w.body.random = k.sr
    /\ ~Gives(w) /\ ~Closes(w)

LEMMA SendsPlain ==
    ASSUME NEW e, NEW k, EndOK(k), NEW item, PlainItem(k, item),
           NEW n, n = Wrote(e, k, item), NEW w, w = Made(e, k, item)
    PROVE  /\ EndOK(n) /\ Sent(k, n) /\ Advances(k.wr, n.wr) /\ n.keys = k.keys
           /\ RecordOf(k, item, w)
<1>1. item \in Items /\ item # "ChangeCipherSpec" /\ item # "ClientKeyExchange"
  BY DEF PlainItem, Items, PlainItems
<1>2. EndOK(n)
  BY <1>1, WroteOK DEF PlainItem
<1>3. Differs(k, n, {"wr", "log"}) /\ n.wr = Counted(k.wr)
  BY WrotePlain DEF EndOK, PlainItem
<1>4. Advances(k.wr, n.wr)
  BY <1>3, CountedIs DEF EndOK
<1>5. Sent(k, n) /\ n.keys = k.keys
  BY <1>3 DEF Sent, Kept, Differs, Fields
<1>6. RecordOf(k, item, w)
  BY <1>1, MadeIs DEF PlainItem, RecordOf
<1> QED
  BY <1>2, <1>4, <1>5, <1>6

\* ChangeCipherSpec.
LEMMA SendsCcs ==
    ASSUME NEW e, NEW k, EndOK(k), NEW item, item = "ChangeCipherSpec",
           NEW n, n = Wrote(e, k, item), NEW w, w = Made(e, k, item)
    PROVE  /\ EndOK(n) /\ Sent(k, n) /\ Switches(n.wr, k.keys) /\ n.keys = k.keys
           /\ RecordOf(k, item, w)
<1>1. item \in Items
  BY DEF Items
<1>2. EndOK(n)
  BY <1>1, WroteOK
<1>3. Differs(k, n, {"wr"}) /\ n.wr = [keys |-> k.keys, seq |-> 0]
  BY WroteCcs DEF EndOK
<1>4. Switches(n.wr, k.keys)
  BY <1>3, SwitchedIs DEF EndOK
<1>5. Sent(k, n) /\ n.keys = k.keys
  BY <1>3 DEF Sent, Kept, Differs, Fields
<1>6. RecordOf(k, item, w)
  BY <1>1, MadeIs DEF RecordOf
<1> QED
  BY <1>2, <1>4, <1>5, <1>6

\* The records with which the keys are derived.
LEMMA SendsDerived ==
    ASSUME NEW e, NEW k, EndOK(k), k.cipher \in Names, NEW item,
           item = "ClientKeyExchange" \/ (item = "ServerHello" /\ k.resumed),
           NEW n, n = Wrote(e, k, item), NEW w, w = Made(e, k, item)
    PROVE  /\ EndOK(n) /\ Sent(k, n) /\ Advances(k.wr, n.wr)
           /\ n.keys.cr = k.cr /\ n.keys.sr = k.sr
           /\ RecordOf(k, item, w)
<1>1. item \in Items
  BY DEF Items
<1>2. EndOK(n)
  BY <1>1, WroteOK
<1>3. /\ Differs(k, n, {"wr", "log", "ms", "keys"})
      /\ n.wr = Counted(k.wr)
      /\ Derives(k, n, k.cr)
  BY WroteDerived DEF EndOK
<1>4. Advances(k.wr, n.wr)
  BY <1>3, CountedIs DEF EndOK
<1>5. Sent(k, n)
  BY <1>3 DEF Sent, Kept, Differs, Fields
<1>6. n.keys.cr = k.cr /\ n.keys.sr = k.sr
  BY <1>3, DerivesKeys DEF EndOK
<1>7. RecordOf(k, item, w)
  BY <1>1, MadeIs DEF RecordOf
<1> QED
  BY <1>2, <1>4, <1>5, <1>6, <1>7

\* A record of the handshake that changes no keys in use.
LEMMA SentFlows ==
    ASSUME NEW a, NEW b, NEW In, NEW Out, Flows(a, b, In, Out), Way(a, b, Out),
           NEW n, EndOK(n), Sent(a, n), Advances(a.wr, n.wr),
           NEW item, item # "ChangeCipherSpec", NEW w, RecordOf(a, item, w)
    PROVE  Flows(n, b, In, Out \cup {w})
<1>1. w.keys = a.wr.keys /\ w.seq = a.wr.seq /\ w.type # "ccs" /\ ~Gives(w) /\ ~Closes(w)
  BY DEF RecordOf
<1>2. n.hs = a.hs /\ n.cr = a.cr /\ n.rd = a.rd /\ Kept(a, n)
  BY DEF Sent
<1>3. Steady(a, n)
  BY <1>2 DEF Steady, Advances
<1>4. Adds(a, n, w) /\ n.got = a.got /\ n.closed = a.closed
  BY <1>1, <1>2 DEF Adds, Kept
<1> QED
  BY <1>1, <1>2, <1>3, <1>4, EndWrites

LEMMA ClientPuts ==
    ASSUME NEW p, NEW c, NEW q, NEW s, NEW X, NEW Y, Fine(p, c, q, s, X, Y),
           NEW n, EndOK(n), Sent(c, n), Advances(c.wr, n.wr),
           NEW item, item # "ChangeCipherSpec", NEW w, RecordOf(c, item, w)
    PROVE  Flows(n, s, X, Y \cup {w})
<1>1. Flows(c, s, X, Y) /\ Way(c, s, Y)
  BY WaysAre DEF Fine
<1> QED
  BY <1>1, SentFlows

LEMMA ServerPuts ==
    ASSUME NEW p, NEW c, NEW q, NEW s, NEW X, NEW Y, Fine(p, c, q, s, X, Y),
           NEW n, EndOK(n), Sent(s, n), Advances(s.wr, n.wr),
           NEW item, item # "ChangeCipherSpec", NEW w, RecordOf(s, item, w)
    PROVE  Flows(c, n, X \cup {w}, Y)
<1>1. Flows(s, c, Y, X) /\ Way(s, c, X)
  BY WaysAre DEF Fine, Flows
<1>2. Flows(n, c, Y, X \cup {w})
  BY <1>1, SentFlows
<1> QED
  BY <1>2 DEF Flows

LEMMA KeptSame == ASSUME NEW k PROVE Kept(k, k)
  BY DEF Kept

\* What an answer of the client leaves.
ClientAnswered(c, a, q, s, X, Y) ==
    /\ Listed(a.out)
    /\ Kept(c, a.end)
    /\ Told(a.end)
    /\ Fine(Phase(a.end), a.end, q, s, X, Y \cup ToSet(a.out))

LEMMA ClientStops ==
    ASSUME NEW x, NEW q, NEW s, NEW X, NEW Z, Fine(Pending(x), x, q, s, X, Z),
           NEW Y, NEW out, Listed(out), Y \cup ToSet(out) \subseteq Z,
           NEW c, Kept(c, x), NEW room \in Free, NEW a, a = Answer(Cut(x, room), out)
    PROVE  ClientAnswered(c, a, q, s, X, Y)
<1>1. a.end = Cut(x, room) /\ a.out = out
  BY DEF Answer
<1>2. /\ Fine(Pending(x), a.end, q, s, X, Z)
      /\ a.end.room = room /\ a.end.alert = x.alert /\ a.end.hs = x.hs /\ Kept(x, a.end)
  BY <1>1, ClientCut
<1>3. Pending(x) = Pending(a.end)
  BY <1>2 DEF Pending
<1>4. a.end.room >= 0
  BY <1>2, FreeAssumption
<1>5. Phase(a.end) = Pending(x)
  BY <1>3, <1>4 DEF Phase
<1>6. Fine(Pending(x), a.end, q, s, X, Y \cup ToSet(out))
  BY <1>2, Fewer
<1> QED
  BY <1>1, <1>2, <1>4, <1>5, <1>6 DEF ClientAnswered, Told, Kept

\* The phase after an answer that was made whole.
Answered(x) == IF x.hs = "HelloRequest" THEN "ServerHello" ELSE x.hs
MayEnd(k, x) ==
    /\ k.alert \in BOOLEAN
    /\ Kept(k, x)
    /\ x.alert => k.alert
    /\ x.hs = "HelloRequest" /\ x.id = 0 => ~x.resumed

LEMMA ClientEnds ==
    ASSUME NEW p, NEW x, NEW q, NEW s, NEW X, NEW Z, Fine(p, x, q, s, X, Z), p = Answered(x),
           NEW Y, NEW out, Listed(out), Y \cup ToSet(out) \subseteq Z,
           NEW c, MayEnd(c, x), NEW a, a = Answer(Over(c, x), out)
    PROVE  ClientAnswered(c, a, q, s, X, Y)
<1>1. a.end = Over(c, x) /\ a.out = out
  BY DEF Answer
<1>2. /\ Fine(p, a.end, q, s, X, Z)
      /\ a.end.room = -1 /\ a.end.alert = x.alert /\ (c.alert => a.end.error)
      /\ Kept(x, a.end) /\ a.end.hs = p
  BY <1>1, ClientOver DEF MayEnd, Answered
<1>3. Phase(a.end) = p
  BY <1>2 DEF Phase
<1>4. Fine(p, a.end, q, s, X, Y \cup ToSet(out))
  BY <1>2, Fewer
<1> QED
  BY <1>1, <1>2, <1>3, <1>4 DEF ClientAnswered, MayEnd, Told, Kept

LEMMA ClientAlerts ==
    ASSUME NEW c, NEW q, NEW s, NEW X, NEW Y, Fine(Pending(c), c, q, s, X, Y), c.alert,
           NEW rooms, rooms \subseteq Free, NEW e, e = "c", NEW a \in Answers(e, c, rooms)
    PROVE  ClientAnswered(c, a, q, s, X, Y)
<1>1. PICK i : i = "Alert"
  OBVIOUS
<1>2. Flight1(e, c, i)
  BY <1>1 DEF Flight, Flight1
<1>3. Pending(c) = c.hs /\ EndOK(c) /\ c.hs # "HelloRequest" /\ c.hs # "finishing"
  BY DEF Pending, Fine, Typed, EndOK, Expected, Keys, ClientKeys, Waiting, ClientDone
<1>4. PICK n, w, out : n = Wrote(e, c, i) /\ w = Made(e, c, i) /\ out = Append(<<>>, w)
  OBVIOUS
<1>5. PICK room \in rooms : a = Answer(Cut(c, room), <<>>) \/ a = Answer(Over(c, n), out)
  <2>1. \A x \in Opened(c, i) : x = c
    BY <1>1 DEF Opened
  <2>2. Outcome1(e, c, rooms, i, a)
    BY <1>2, Answer1
  <2> QED
    BY <1>4, <2>1, <2>2 DEF Outcome1
<1>6. CASE a = Answer(Cut(c, room), <<>>)
  BY <1>5, <1>6, ClientStops, NoRecords, KeptSame
<1>7. CASE a = Answer(Over(c, n), out)
  <2>1. PlainItem(c, i)
    BY <1>1 DEF PlainItem, PlainItems
  <2>2. /\ EndOK(n) /\ Sent(c, n) /\ Advances(c.wr, n.wr) /\ n.keys = c.keys
        /\ RecordOf(c, i, w)
    BY <1>3, <1>4, <2>1, SendsPlain
  <2>3. Listed(out) /\ Y \cup ToSet(out) \subseteq Y \cup {w}
    BY <1>4, NoRecords, AppendRecords
  <2>4. Keys(c.hs, n, q, s, X, Y \cup {w})
    BY <1>1, <1>3, <2>2, ClientWrites DEF Sent, RecordOf, IsMsg
  <2>5. Fine(c.hs, n, q, s, X, Y \cup {w})
    <3>1. Flows(n, s, X, Y \cup {w})
      BY <1>1, <2>2, ClientPuts
    <3> QED
      BY <1>3, <2>2, <2>4, <3>1 DEF Fine, Typed, ClientNamed, Sent, RecordOf
  <2>6. MayEnd(c, n) /\ c.hs = Answered(n)
    BY <1>3, <2>2 DEF EndOK, Sent, MayEnd, Answered
  <2> QED
    BY <1>7, <2>3, <2>5, <2>6, ClientEnds
<1> QED
  BY <1>5, <1>6, <1>7

LEMMA OneRecord ==
    ASSUME NEW w, NEW out, out = Append(<<>>, w)
    PROVE  Listed(out) /\ ToSet(out) \subseteq {w}
  BY NoRecords, AppendRecords

LEMMA TwoRecords ==
    ASSUME NEW w1, NEW w2, NEW out, out = Append(Append(<<>>, w1), w2)
    PROVE  Listed(out) /\ ToSet(out) \subseteq {w1, w2}
<1>1. PICK v : v = Append(<<>>, w1)
  OBVIOUS
<1>2. Listed(v) /\ ToSet(v) \subseteq {w1}
  BY <1>1, OneRecord
<1>3. Listed(Append(v, w2)) /\ ToSet(Append(v, w2)) \subseteq ToSet(v) \cup {w2}
  BY <1>2, AppendRecords
<1> QED
  BY <1>1, <1>2, <1>3

LEMMA ThreeRecords ==
    ASSUME NEW w1, NEW w2, NEW v, v = Append(Append(<<>>, w1), w2),
           NEW w3, NEW out, out = Append(v, w3)
    PROVE  Listed(out) /\ ToSet(out) \subseteq {w1, w2, w3}
<1>1. Listed(v) /\ ToSet(v) \subseteq {w1, w2}
  BY TwoRecords
<1>2. Listed(out) /\ ToSet(out) \subseteq ToSet(v) \cup {w3}
  BY <1>1, AppendRecords
<1> QED
  BY <1>1, <1>2

\* The key exchange of a full handshake: there is room for all of it or it is
\* not begun.
LEMMA ClientExchanges ==
    ASSUME NEW c, NEW q, NEW s, NEW X, NEW Y, Fine(Pending(c), c, q, s, X, Y),
           ~c.alert, c.hs = "Finished",
           NEW rooms, rooms \subseteq Free, NEW e, e = "c", NEW a \in Answers(e, c, rooms)
    PROVE  ClientAnswered(c, a, q, s, X, Y)
<1>1. PICK i, j, l : i = "ClientKeyExchange" /\ j = "ChangeCipherSpec" /\ l = "Finished"
  OBVIOUS
<1>2. Flight3(e, c, i, j, l)
  BY <1>1 DEF Flight, Flight3
<1>3. Pending(c) = "switching" /\ EndOK(c)
  BY DEF Pending, Fine, Typed
<1>4. c.cr \in Nat /\ c.cr > 0 /\ c.cipher \in Names
  BY <1>3 DEF Fine, Typed, EndOK, ClientNamed, Keys, ClientKeys, Waiting
<1>5. PICK k1, w1 : k1 = Wrote(e, c, i) /\ w1 = Made(e, c, i)
  OBVIOUS
<1>6. PICK k2, w2 : k2 = Wrote(e, k1, j) /\ w2 = Made(e, k1, j)
  OBVIOUS
<1>7. PICK n, w3 : n = Wrote(e, k2, l) /\ w3 = Made(e, k2, l)
  OBVIOUS
<1>8. PICK v, out : v = Append(Append(<<>>, w1), w2) /\ out = Append(v, w3)
  OBVIOUS
<1>9. PICK room \in rooms :
         \/ a = Answer(Cut(c, room), <<>>)
         \/ /\ ~(RoomAsked(e, c) > room)
            /\ \/ Size(c, i) > room
               \/ Size(k1, j) > room - Size(c, i)
               \/ Size(k2, l) > room - Size(c, i) - Size(k1, j)
               \/ a = Answer(Over(c, n), out)
  <2>1. \A x \in Opened(c, i) : x = c
    BY <1>1 DEF Opened
  <2>2. Outcome3(e, c, rooms, i, j, l, a)
    BY <1>2, Answer3
  <2> QED
    BY <1>5, <1>6, <1>7, <1>8, <2>1, <2>2 DEF Outcome3
<1>10. a = Answer(Cut(c, room), <<>>) \/ a = Answer(Over(c, n), out)
  <2>1. room \in Nat
    BY FreeAssumption
  <2> QED
    BY <1>1, <1>3, <1>4, <1>5, <1>6, <1>9, <2>1, KeyExchangeFits
<1>11. CASE a = Answer(Cut(c, room), <<>>)
  BY <1>11, ClientStops, NoRecords, KeptSame
<1>12. CASE a = Answer(Over(c, n), out)
  <2>1. /\ EndOK(k1) /\ Sent(c, k1) /\ Advances(c.wr, k1.wr)
        /\ k1.keys.cr = c.cr /\ k1.keys.sr = c.sr
        /\ RecordOf(c, i, w1)
    BY <1>1, <1>3, <1>4, <1>5, SendsDerived
  <2>2. /\ EndOK(k2) /\ Sent(k1, k2) /\ Switches(k2.wr, k1.keys) /\ k2.keys = k1.keys
        /\ RecordOf(k1, j, w2)
    BY <1>1, <1>6, <2>1, SendsCcs
  <2>3. PlainItem(k2, l)
    BY <1>1 DEF PlainItem, PlainItems
  <2>4. /\ EndOK(n) /\ Sent(k2, n) /\ Advances(k2.wr, n.wr) /\ n.keys = k2.keys
        /\ RecordOf(k2, l, w3)
    BY <1>7, <2>2, <2>3, SendsPlain
  <2>5. Sent(c, n) /\ n.keys.cr = c.cr /\ n.keys.sr = c.sr
    BY <2>1, <2>2, <2>4 DEF Sent, Kept
  <2>6. n.wr.keys = n.keys /\ n.wr.seq = 1
    BY <1>4, <2>2, <2>4, <2>5, NoKeysNumbers DEF Switches, Advances, Secure
  <2>7. /\ w1.keys = c.wr.keys /\ w1.seq = c.wr.seq /\ IsMsg(w1, "ClientKeyExchange")
        /\ k1.wr \in States /\ w2.keys = k1.wr.keys /\ w2.seq = k1.wr.seq /\ w2.type = "ccs"
        /\ w3.keys = n.keys /\ w3.seq = 0 /\ IsMsg(w3, "Finished")
        /\ RecordOK(w1) /\ RecordOK(w2) /\ RecordOK(w3)
    BY <1>1, <2>1, <2>2, <2>4 DEF RecordOf, Switches, EndOK
  <2>8. Keys("Finished", n, q, s, X, Y \cup {w1, w2, w3})
    BY <1>3, <2>1, <2>4, <2>5, <2>6, <2>7, ClientSwitches DEF Sent
  <2>9. Fine("Finished", n, q, s, X, Y \cup {w1, w2, w3})
    <3>1. /\ Kept(c, k1) /\ k1.hs = c.hs /\ k1.cr = c.cr
          /\ Kept(k1, k2) /\ k2.hs = c.hs /\ k2.cr = c.cr
          /\ Kept(k2, n) /\ n.rd = c.rd /\ n.cr = c.cr
      BY <2>1, <2>2, <2>4 DEF Sent
    <3>2. /\ k1.keys \in KeyBlocks
          /\ w2.keys = k1.wr.keys /\ w2.seq = k1.wr.seq
          /\ w3.keys = k2.wr.keys /\ w3.seq = k2.wr.seq
      BY <2>1, <2>2, <2>4 DEF EndOK, RecordOf
    <3>3. Flows(n, s, X, Y \cup {w1, w2, w3})
      BY <1>3, <2>1, <2>2, <2>4, <2>7, <3>1, <3>2, ClientSwitchesFlows
    <3> QED
      BY <2>4, <2>5, <2>7, <2>8, <3>3 DEF Fine, Typed, ClientNamed, Sent
  <2>10. MayEnd(c, n) /\ Answered(n) = "Finished"
    BY <1>3, <2>5 DEF EndOK, Sent, MayEnd, Answered
  <2>11. Listed(out) /\ ToSet(out) \subseteq {w1, w2, w3}
    BY <1>8, ThreeRecords
  <2>12. Y \cup ToSet(out) \subseteq Y \cup {w1, w2, w3}
    BY <2>11
  <2> QED
    BY <1>12, <2>9, <2>10, <2>11, <2>12, ClientEnds
<1> QED
  BY <1>10, <1>11, <1>12

\* The end of a resumed handshake, which may stop between its two records.
LEMMA ClientFinishes ==
    ASSUME NEW c, NEW q, NEW s, NEW X, NEW Y, Fine(Pending(c), c, q, s, X, Y),
           ~c.alert, c.hs = "DONE",
           NEW rooms, rooms \subseteq Free, NEW e, e = "c", NEW a \in Answers(e, c, rooms)
    PROVE  ClientAnswered(c, a, q, s, X, Y)
<1>1. PICK i, j : i = "ChangeCipherSpec" /\ j = "Finished"
  OBVIOUS
<1>2. Flight2(e, c, i, j)
  BY <1>1 DEF Flight, Flight2
<1>3. Pending(c) = "finishing" /\ EndOK(c)
  BY DEF Pending, Fine, Typed
<1>4. PICK k1, w1 : k1 = Wrote(e, c, i) /\ w1 = Made(e, c, i)
  OBVIOUS
<1>5. PICK n, w2 : n = Wrote(e, k1, j) /\ w2 = Made(e, k1, j)
  OBVIOUS
<1>6. PICK out1, out : out1 = Append(<<>>, w1) /\ out = Append(Append(<<>>, w1), w2)
  OBVIOUS
<1>7. PICK room \in rooms :
         \/ a = Answer(Cut(c, room), <<>>)
         \/ a = Answer(Cut(k1, room), out1)
         \/ a = Answer(Over(c, n), out)
  <2>1. \A x \in Opened(c, i) : x = c
    BY <1>1 DEF Opened
  <2>2. Outcome2(e, c, rooms, i, j, a)
    BY <1>2, Answer2
  <2> QED
    BY <1>4, <1>5, <1>6, <2>1, <2>2 DEF Outcome2
<1>8. /\ EndOK(k1) /\ Sent(c, k1) /\ Switches(k1.wr, c.keys) /\ k1.keys = c.keys
      /\ RecordOf(c, i, w1)
  BY <1>1, <1>3, <1>4, SendsCcs
<1>9. Fine("finishing", k1, q, s, X, Y \cup {w1})
  <2>1. Keys("finishing", k1, q, s, X, Y \cup {w1})
    BY <1>1, <1>3, <1>8, ClientWritesCcs DEF Sent, RecordOf
  <2>2. Flows(k1, s, X, Y \cup {w1})
    BY <1>1, <1>3, <1>8, ClientFinishesFlows DEF Sent, RecordOf
  <2> QED
    BY <1>3, <1>8, <2>1, <2>2 DEF Fine, Typed, ClientNamed, Sent, RecordOf
<1>10. CASE a = Answer(Cut(c, room), <<>>)
  BY <1>7, <1>10, ClientStops, NoRecords, KeptSame
<1>11. CASE a = Answer(Cut(k1, room), out1)
  <2>1. Pending(k1) = "finishing"
    BY <1>8 DEF Pending, Sent
  <2>2. Listed(out1) /\ ToSet(out1) \subseteq {w1}
    BY <1>6, OneRecord
  <2>3. Y \cup ToSet(out1) \subseteq Y \cup {w1}
    BY <2>2
  <2>4. Kept(c, k1)
    BY <1>8 DEF Sent
  <2> QED
    BY <1>7, <1>9, <1>11, <2>1, <2>2, <2>3, <2>4, ClientStops
<1>12. CASE a = Answer(Over(c, n), out)
  <2>1. PlainItem(k1, j)
    BY <1>1 DEF PlainItem, PlainItems
  <2>2. /\ EndOK(n) /\ Sent(k1, n) /\ Advances(k1.wr, n.wr) /\ n.keys = k1.keys
        /\ RecordOf(k1, j, w2)
    BY <1>5, <1>8, <2>1, SendsPlain
  <2>3. Keys("DONE", n, q, s, X, (Y \cup {w1}) \cup {w2})
    BY <1>1, <1>8, <1>9, <2>2, ClientWritesFinished DEF Sent, RecordOf, Switches
  <2>4. Fine("DONE", n, q, s, X, (Y \cup {w1}) \cup {w2})
    <3>1. Flows(n, s, X, (Y \cup {w1}) \cup {w2})
      BY <1>1, <1>9, <2>2, ClientPuts
    <3> QED
      BY <1>8, <1>9, <2>2, <2>3, <3>1 DEF Fine, Typed, ClientNamed, Sent, RecordOf
  <2>5. MayEnd(c, n) /\ Answered(n) = "DONE"
    BY <1>3, <1>8, <2>2 DEF EndOK, Sent, Kept, MayEnd, Answered
  <2>6. Listed(out) /\ ToSet(out) \subseteq {w1, w2}
    BY <1>6, TwoRecords
  <2>7. Y \cup ToSet(out) \subseteq (Y \cup {w1}) \cup {w2}
    BY <2>6
  <2> QED
    BY <1>12, <2>4, <2>5, <2>6, <2>7, ClientEnds
<1> QED
  BY <1>7, <1>10, <1>11, <1>12

\* ClientHello, as an answer to HelloRequest.
LEMMA HelloIs ==
    ASSUME NEW k, EndOK(k), NEW n, n = Hello(k)
    PROVE  /\ EndOK(n) /\ n.cr = k.cr + 1
           /\ n.hs = k.hs /\ n.alert = k.alert /\ n.room = k.room /\ n.id = k.id
           /\ n.cipher = k.cipher /\ n.sr = k.sr /\ n.rd = k.rd /\ n.wr = k.wr
           /\ n.keys = k.keys /\ Kept(k, n)
           /\ n.id = 0 => ~n.resumed
<1>1. PICK resumed \in BOOLEAN : resumed = (k.resumed /\ k.id # 0)
  OBVIOUS
<1>2. n = [k EXCEPT !.cr = @ + 1, !.log = <<>>, !.resumed = resumed]
  BY <1>1 DEF Hello
<1>3. /\ Differs(k, n, {"cr", "log", "resumed"})
      /\ n.cr = k.cr + 1 /\ n.resumed = resumed
  BY <1>2 DEF EndOK, Differs, IsEnd, Fields
<1>4. EndOK(n)
  BY <1>3 DEF EndOK, Differs, Fields
<1>5. /\ n.hs = k.hs /\ n.alert = k.alert /\ n.room = k.room /\ n.id = k.id
      /\ n.cipher = k.cipher /\ n.sr = k.sr /\ n.rd = k.rd /\ n.wr = k.wr
      /\ n.keys = k.keys /\ Kept(k, n)
  BY <1>3 DEF Differs, Fields, Kept
<1> QED
  BY <1>1, <1>3, <1>4, <1>5

LEMMA ClientAsked ==
    ASSUME NEW c, NEW q, NEW s, NEW X, NEW Y, Fine(Pending(c), c, q, s, X, Y),
           ~c.alert, c.hs = "HelloRequest",
           NEW rooms, rooms \subseteq Free, NEW e, e = "c", NEW a \in Answers(e, c, rooms)
    PROVE  ClientAnswered(c, a, q, s, X, Y)
<1>1. PICK i : i = "ClientHello"
  OBVIOUS
<1>2. Flight1(e, c, i)
  BY <1>1 DEF Flight, Flight1
<1>3. Pending(c) = "asked" /\ EndOK(c) /\ c.cipher \in Names
  <2>1. Pending(c) = "asked" /\ EndOK(c) /\ ClientNamed(c)
    BY DEF Pending, Fine, Typed
  <2>2. c.cr > 0
    BY <2>1 DEF Fine, Keys, ClientKeys, ClientDone
  <2> QED
    BY <2>1, <2>2 DEF ClientNamed
<1>4. PICK x : x = Hello(c)
  OBVIOUS
<1>5. PICK n, w, out : n = Wrote(e, x, i) /\ w = Made(e, x, i) /\ out = Append(<<>>, w)
  OBVIOUS
<1>6. PICK room \in rooms : a = Answer(Cut(c, room), <<>>) \/ a = Answer(Over(c, n), out)
  <2>1. \A y \in Opened(c, i) : y = x
    BY <1>1, <1>4 DEF Opened
  <2>2. Outcome1(e, c, rooms, i, a)
    BY <1>2, Answer1
  <2> QED
    BY <1>5, <2>1, <2>2 DEF Outcome1
<1>7. CASE a = Answer(Cut(c, room), <<>>)
  BY <1>6, <1>7, ClientStops, NoRecords, KeptSame
<1>8. CASE a = Answer(Over(c, n), out)
  <2>1. /\ EndOK(x) /\ x.cr = c.cr + 1
        /\ x.hs = c.hs /\ x.alert = c.alert /\ x.room = c.room /\ x.id = c.id
        /\ x.cipher = c.cipher /\ x.sr = c.sr /\ x.rd = c.rd /\ x.wr = c.wr
        /\ x.keys = c.keys /\ Kept(c, x)
        /\ x.id = 0 => ~x.resumed
    BY <1>3, <1>4, HelloIs
  <2>2. PlainItem(x, i)
    BY <1>1, <1>3, <2>1 DEF PlainItem, PlainItems
  <2>3. /\ EndOK(n) /\ Sent(x, n) /\ Advances(x.wr, n.wr) /\ n.keys = x.keys
        /\ RecordOf(x, i, w)
    BY <1>5, <2>1, <2>2, SendsPlain
  <2>4. Listed(out) /\ ToSet(out) \subseteq {w}
    BY <1>5, OneRecord
  <2>5. Keys("ServerHello", n, q, s, X, Y \cup {w})
    BY <1>1, <1>3, <2>1, <2>3, ClientWritesHello DEF Sent, RecordOf
  <2>6. Fine("ServerHello", n, q, s, X, Y \cup {w})
    <3>1. Kept(c, n)
      BY <2>1, <2>3 DEF Sent, Kept
    <3>2. Flows(n, s, X, Y \cup {w})
      BY <1>1, <2>1, <2>3, <3>1, ClientSaysHello DEF Sent, RecordOf
    <3> QED
      BY <1>3, <2>1, <2>3, <2>5, <3>2 DEF Fine, Typed, ClientNamed, Sent, RecordOf
  <2>7. MayEnd(c, n) /\ Answered(n) = "ServerHello"
    BY <1>3, <2>1, <2>3 DEF EndOK, Sent, Kept, MayEnd, Answered
  <2>8. Y \cup ToSet(out) \subseteq Y \cup {w}
    BY <2>4
  <2> QED
    BY <1>8, <2>4, <2>6, <2>7, <2>8, ClientEnds
<1> QED
  BY <1>6, <1>7, <1>8

\* Whatever the client has to answer, in whatever room.
LEMMA ClientAnswers ==
    ASSUME NEW c, NEW q, NEW s, NEW X, NEW Y, Fine(Pending(c), c, q, s, X, Y),
           NEW rooms, rooms \subseteq Free, NEW e, e = "c", NEW a \in Answers(e, c, rooms)
    PROVE  ClientAnswered(c, a, q, s, X, Y)
<1>1. c.alert \/ c.hs \in {"Finished", "DONE", "HelloRequest"}
  BY DEF Pending, Fine, Keys, ClientKeys, Waiting, ClientDone
<1> QED
  BY <1>1, ClientAlerts, ClientExchanges, ClientFinishes, ClientAsked

-----------------------------------------------------------------------------
(* Answers of the server *)

LEMMA ServerCut ==
    ASSUME NEW p, NEW c, NEW q, NEW s, NEW X, NEW Y, Fine(p, c, q, s, X, Y),
           NEW room \in Free, NEW n, n = Cut(s, room)
    PROVE  /\ Fine(p, c, q, n, X, Y)
           /\ n.room = room /\ n.alert = s.alert /\ n.hs = s.hs /\ Kept(s, n)
<1>1. EndOK(n) /\ Differs(s, n, {"room"}) /\ n.room = room /\ Kept(s, n)
  BY CutIs DEF Fine, Typed
<1>2. /\ n.rd = s.rd /\ n.cr = s.cr /\ n.keys = s.keys /\ n.wr = s.wr /\ n.sr = s.sr
      /\ n.resumed = s.resumed /\ n.alert = s.alert /\ n.hs = s.hs /\ n.cipher = s.cipher
  BY <1>1 DEF Differs, Fields
<1>3. Keys(p, c, q, n, X, Y)
  BY <1>1, <1>2, ServerKeeps
<1>4. Steady(s, n)
  BY <1>2 DEF Steady
<1>5. Flows(c, n, X, Y)
  <2>1. Flows(s, c, Y, X)
    BY DEF Fine, Flows
  <2>2. Flows(n, c, Y, X)
    BY <1>1, <1>2, <1>4, <2>1, EndKeeps
  <2> QED
    BY <2>2 DEF Flows
<1> QED
  BY <1>1, <1>2, <1>3, <1>5 DEF Fine, Typed, ServerNamed

LEMMA ServerOver ==
    ASSUME NEW p, NEW c, NEW q, NEW s, NEW X, NEW Y, Fine(p, c, q, s, X, Y),
           NEW k, k.alert \in BOOLEAN, NEW n, n = Over(k, s)
    PROVE  /\ Fine(p, c, q, n, X, Y)
           /\ Kept(s, n)
           /\ n.room = -1 /\ n.alert = s.alert /\ (k.alert => n.error)
           /\ n.hs = IF s.hs = "HelloRequest" THEN "ServerHello" ELSE s.hs
<1>1. /\ EndOK(n) /\ Differs(s, n, {"room", "error", "hs"})
      /\ Kept(s, n)
      /\ n.room = -1 /\ (k.alert => n.error)
      /\ n.hs = IF s.hs = "HelloRequest" THEN "ServerHello" ELSE s.hs
  BY OverIs DEF Fine, Typed
<1>2. /\ n.rd = s.rd /\ n.cr = s.cr /\ n.keys = s.keys /\ n.wr = s.wr /\ n.sr = s.sr
      /\ n.resumed = s.resumed /\ n.alert = s.alert /\ n.cipher = s.cipher
  BY <1>1 DEF Differs, Fields
<1>3. Keys(p, c, q, n, X, Y)
  BY <1>1, <1>2, ServerKeeps
<1>4. Steady(s, n)
  BY <1>1, <1>2 DEF Steady
<1>5. Flows(c, n, X, Y)
  <2>1. Flows(s, c, Y, X)
    BY DEF Fine, Flows
  <2>2. Flows(n, c, Y, X)
    BY <1>1, <1>2, <1>4, <2>1, EndKeeps
  <2> QED
    BY <2>2 DEF Flows
<1> QED
  BY <1>1, <1>2, <1>3, <1>5 DEF Fine, Typed, ServerNamed

\* What an answer of the server leaves.
ServerAnswered(p, c, s, a, X, Y) ==
    /\ Listed(a.out)
    /\ Kept(s, a.end)
    /\ Told(a.end)
    /\ Fine(p, c, Phase(a.end), a.end, X \cup ToSet(a.out), Y)

LEMMA ServerStops ==
    ASSUME NEW p, NEW c, NEW x, NEW Z, NEW Y, Fine(p, c, Pending(x), x, Z, Y),
           NEW X, NEW out, Listed(out), X \cup ToSet(out) \subseteq Z,
           NEW s, Kept(s, x), NEW room \in Free, NEW a, a = Answer(Cut(x, room), out)
    PROVE  ServerAnswered(p, c, s, a, X, Y)
<1>1. a.end = Cut(x, room) /\ a.out = out
  BY DEF Answer
<1>2. /\ Fine(p, c, Pending(x), a.end, Z, Y)
      /\ a.end.room = room /\ a.end.alert = x.alert /\ a.end.hs = x.hs /\ Kept(x, a.end)
  BY <1>1, ServerCut
<1>3. Pending(x) = Pending(a.end)
  BY <1>2 DEF Pending
<1>4. a.end.room >= 0
  BY <1>2, FreeAssumption
<1>5. Phase(a.end) = Pending(x)
  BY <1>3, <1>4 DEF Phase
<1>6. Fine(p, c, Pending(x), a.end, X \cup ToSet(out), Y)
  BY <1>2, Fewer
<1> QED
  BY <1>1, <1>2, <1>4, <1>5, <1>6 DEF ServerAnswered, Told, Kept

LEMMA ServerEnds ==
    ASSUME NEW p, NEW c, NEW q, NEW x, NEW Z, NEW Y, Fine(p, c, q, x, Z, Y), q = Answered(x),
           NEW X, NEW out, Listed(out), X \cup ToSet(out) \subseteq Z,
           NEW s, MayEnd(s, x), NEW a, a = Answer(Over(s, x), out)
    PROVE  ServerAnswered(p, c, s, a, X, Y)
<1>1. a.end = Over(s, x) /\ a.out = out
  BY DEF Answer
<1>2. /\ Fine(p, c, q, a.end, Z, Y)
      /\ a.end.room = -1 /\ a.end.alert = x.alert /\ (s.alert => a.end.error)
      /\ Kept(x, a.end) /\ a.end.hs = q
  BY <1>1, ServerOver DEF MayEnd, Answered
<1>3. Phase(a.end) = q
  BY <1>2 DEF Phase
<1>4. Fine(p, c, q, a.end, X \cup ToSet(out), Y)
  BY <1>2, Fewer
<1> QED
  BY <1>1, <1>2, <1>3, <1>4 DEF ServerAnswered, MayEnd, Told, Kept

LEMMA ServerAlerts ==
    ASSUME NEW p, NEW c, NEW s, NEW X, NEW Y, Fine(p, c, Pending(s), s, X, Y), s.alert,
           NEW rooms, rooms \subseteq Free, NEW e, e = "s", NEW a \in Answers(e, s, rooms)
    PROVE  ServerAnswered(p, c, s, a, X, Y)
<1>1. PICK i : i = "Alert"
  OBVIOUS
<1>2. Flight1(e, s, i)
  BY <1>1 DEF Flight, Flight1
<1>3. Pending(s) = s.hs /\ EndOK(s) /\ s.hs # "HelloRequest" /\ s.hs # "finishing"
  BY DEF Pending, Fine, Typed, EndOK, Expected, Keys, ServerKeys, ServerDone
<1>4. PICK n, w, out : n = Wrote(e, s, i) /\ w = Made(e, s, i) /\ out = Append(<<>>, w)
  OBVIOUS
<1>5. PICK room \in rooms : a = Answer(Cut(s, room), <<>>) \/ a = Answer(Over(s, n), out)
  <2>1. \A x \in Opened(s, i) : x = s
    BY <1>1 DEF Opened
  <2>2. Outcome1(e, s, rooms, i, a)
    BY <1>2, Answer1
  <2> QED
    BY <1>4, <2>1, <2>2 DEF Outcome1
<1>6. CASE a = Answer(Cut(s, room), <<>>)
  BY <1>5, <1>6, ServerStops, NoRecords, KeptSame
<1>7. CASE a = Answer(Over(s, n), out)
  <2>1. PlainItem(s, i)
    BY <1>1 DEF PlainItem, PlainItems
  <2>2. /\ EndOK(n) /\ Sent(s, n) /\ Advances(s.wr, n.wr) /\ n.keys = s.keys
        /\ RecordOf(s, i, w)
    BY <1>3, <1>4, <2>1, SendsPlain
  <2>3. Listed(out) /\ ToSet(out) \subseteq {w}
    BY <1>4, OneRecord
  <2>4. X \cup ToSet(out) \subseteq X \cup {w}
    BY <2>3
  <2>5. Keys(p, c, s.hs, n, X \cup {w}, Y)
    BY <1>1, <1>3, <2>2, ServerWrites DEF Sent, RecordOf, IsMsg
  <2>6. Fine(p, c, s.hs, n, X \cup {w}, Y)
    <3>1. Flows(c, n, X \cup {w}, Y)
      BY <1>1, <2>2, ServerPuts
    <3> QED
      BY <1>3, <2>2, <2>5, <3>1 DEF Fine, Typed, ServerNamed, Sent, RecordOf
  <2>7. MayEnd(s, n) /\ s.hs = Answered(n)
    BY <1>3, <2>2 DEF EndOK, Sent, MayEnd, Answered
  <2> QED
    BY <1>7, <2>3, <2>4, <2>6, <2>7, ServerEnds
<1> QED
  BY <1>5, <1>6, <1>7

LEMMA GreetingIs ==
    ASSUME NEW k, EndOK(k), NEW n \in Greetings(k)
    PROVE  /\ EndOK(n) /\ n.sr = k.sr + 1
           /\ n.hs = k.hs /\ n.alert = k.alert /\ n.room = k.room /\ n.resumed = k.resumed
           /\ n.cipher = k.cipher /\ n.cr = k.cr /\ n.rd = k.rd /\ n.wr = k.wr
           /\ n.keys = k.keys /\ Kept(k, n)
<1>1. PICK id \in IF k.resumed THEN {k.id} ELSE {k.sr + 1, 0} :
         n = [k EXCEPT !.sr = @ + 1, !.id = id]
  BY DEF Greetings
<1>2. Differs(k, n, {"sr", "id"}) /\ n.sr = k.sr + 1 /\ n.id = id
  BY <1>1 DEF EndOK, Differs, IsEnd, Fields
<1>3. EndOK(n)
  <2>1. id \in Nat
    BY DEF EndOK
  <2> QED
    BY <1>2, <2>1 DEF EndOK, Differs, Fields
<1>4. /\ n.hs = k.hs /\ n.alert = k.alert /\ n.room = k.room /\ n.resumed = k.resumed
      /\ n.cipher = k.cipher /\ n.cr = k.cr /\ n.rd = k.rd /\ n.wr = k.wr
      /\ n.keys = k.keys /\ Kept(k, n)
  BY <1>2 DEF Differs, Fields, Kept
<1> QED
  BY <1>2, <1>3, <1>4

\* An answer to ClientHello begins with a new random, which is above that of
\* the keys, and maybe a new id.
LEMMA ServerOpened ==
    ASSUME NEW p, NEW c, NEW q, NEW s, NEW X, NEW Y, Fine(p, c, q, s, X, Y),
           q \in {"greeting", "switching"}, s.hs # "ClientHello", NEW x \in Greetings(s)
    PROVE  /\ Fine(p, c, q, x, X, Y)
           /\ x.sr > x.keys.sr /\ x.cipher \in Names
           /\ x.hs = s.hs /\ x.alert = s.alert /\ x.resumed = s.resumed /\ Kept(s, x)
<1>1. /\ EndOK(x) /\ x.sr = s.sr + 1
      /\ x.hs = s.hs /\ x.alert = s.alert /\ x.room = s.room /\ x.resumed = s.resumed
      /\ x.cipher = s.cipher /\ x.cr = s.cr /\ x.rd = s.rd /\ x.wr = s.wr
      /\ x.keys = s.keys /\ Kept(s, x)
  BY GreetingIs DEF Fine, Typed
<1>2. Keys(p, c, q, x, X, Y)
  BY <1>1, ServerOpens
<1>3. x.cipher \in Names
  BY <1>1 DEF Fine, Typed, ServerNamed
<1>4. Fine(p, c, q, x, X, Y)
  <2>1. Flows(s, c, Y, X) /\ Steady(s, x)
    BY <1>1 DEF Fine, Flows, Steady
  <2>2. Flows(x, c, Y, X)
    BY <1>1, <2>1, EndKeeps
  <2>3. Flows(c, x, X, Y)
    BY <2>2 DEF Flows
  <2> QED
    BY <1>1, <1>2, <1>3, <2>3 DEF Fine, Typed, ServerNamed
<1>5. x.sr > x.keys.sr
  <2>1. Numeric(s) /\ s.keys.sr <= s.sr
    BY NumericEnd DEF Fine, Typed, Keys, ServerKeys
  <2> QED
    BY <1>1, <2>1 DEF Numeric
<1> QED
  BY <1>1, <1>3, <1>4, <1>5

\* Where a flight of three records ends.
Three(e, k, x, room, i, j, l, a) ==
    LET k1 == Wrote(e, x, i)
        k2 == Wrote(e, k1, j)
        k3 == Wrote(e, k2, l)
        out1 == Append(<<>>, Made(e, x, i))
        out2 == Append(out1, Made(e, k1, j))
    IN  \/ a = Answer(Cut(x, room), <<>>)
        \/ a = Answer(Cut(k1, room), out1)
        \/ a = Answer(Cut(k2, room), out2)
        \/ a = Answer(Over(k, k3), Append(out2, Made(e, k2, l)))

\* ServerHello, Certificate and ServerHelloDone.
LEMMA ServerGreets ==
    ASSUME NEW p, NEW c, NEW s, NEW X, NEW Y, Fine(p, c, Pending(s), s, X, Y),
           ~s.alert, s.hs = "ClientKeyExchange",
           NEW rooms, rooms \subseteq Free, NEW e, e = "s", NEW a \in Answers(e, s, rooms)
    PROVE  ServerAnswered(p, c, s, a, X, Y)
<1>1. PICK i, j, l : i = "ServerHello" /\ j = "Certificate" /\ l = "ServerHelloDone"
  OBVIOUS
<1>2. Flight3(e, s, i, j, l)
  BY <1>1 DEF Flight, Flight3
<1>3. Pending(s) = "greeting" /\ EndOK(s) /\ ~s.resumed
  BY DEF Pending, Fine, Typed, Keys, ServerKeys
<1>4. PICK room \in rooms :
         \/ a = Answer(Cut(s, room), <<>>)
         \/ \E x \in Greetings(s) : Three(e, s, x, room, i, j, l, a)
  <2>1. Opened(s, i) = Greetings(s)
    BY <1>1 DEF Opened
  <2>2. Outcome3(e, s, rooms, i, j, l, a)
    BY <1>2, Answer3
  <2> QED
    BY <2>1, <2>2 DEF Outcome3, Three
<1>5. CASE a = Answer(Cut(s, room), <<>>)
  BY <1>4, <1>5, ServerStops, NoRecords, KeptSame
<1>6. ASSUME NEW x \in Greetings(s), Three(e, s, x, room, i, j, l, a)
      PROVE  ServerAnswered(p, c, s, a, X, Y)
  <2>a. PICK k1, w1 : k1 = Wrote(e, x, i) /\ w1 = Made(e, x, i)
    OBVIOUS
  <2>b. PICK k2, w2 : k2 = Wrote(e, k1, j) /\ w2 = Made(e, k1, j)
    OBVIOUS
  <2>c. PICK n, w3 : n = Wrote(e, k2, l) /\ w3 = Made(e, k2, l)
    OBVIOUS
  <2>d. PICK out1, out2 : out1 = Append(<<>>, w1) /\ out2 = Append(Append(<<>>, w1), w2)
    OBVIOUS
  <2>e. PICK out : out = Append(out2, w3)
    OBVIOUS
  <2>f. \/ a = Answer(Cut(x, room), <<>>)
        \/ a = Answer(Cut(k1, room), out1)
        \/ a = Answer(Cut(k2, room), out2)
        \/ a = Answer(Over(s, n), out)
    BY <1>6, <2>a, <2>b, <2>c, <2>d, <2>e DEF Three
  <2>1. /\ Fine(p, c, "greeting", x, X, Y) /\ x.sr > x.keys.sr /\ x.cipher \in Names
        /\ x.hs = "ClientKeyExchange" /\ ~x.alert /\ ~x.resumed /\ Kept(s, x)
    BY <1>3, ServerOpened
  <2>2. PlainItem(x, i) /\ EndOK(x) /\ ServerNamed(x)
    BY <1>1, <2>1 DEF PlainItem, PlainItems, Fine, Typed
  <2>3. /\ EndOK(k1) /\ Sent(x, k1) /\ Advances(x.wr, k1.wr) /\ k1.keys = x.keys
        /\ RecordOf(x, i, w1)
    BY <2>a, <2>2, SendsPlain
  <2>4. Fine(p, c, "greeting", k1, X \cup {w1}, Y)
    <3>1. Keys(p, c, "greeting", k1, X \cup {w1}, Y)
      BY <1>1, <2>1, <2>3, ServerWritesHello DEF Sent, RecordOf
    <3>2. Flows(c, k1, X \cup {w1}, Y)
      BY <1>1, <2>1, <2>3, ServerPuts
    <3> QED
      BY <2>1, <2>2, <2>3, <3>1, <3>2 DEF Fine, Typed, ServerNamed, Sent, RecordOf
  <2>5. PlainItem(k1, j)
    BY <1>1 DEF PlainItem, PlainItems
  <2>6. /\ EndOK(k2) /\ Sent(k1, k2) /\ Advances(k1.wr, k2.wr) /\ k2.keys = k1.keys
        /\ RecordOf(k1, j, w2)
    BY <2>b, <2>3, <2>5, SendsPlain
  <2>7. Fine(p, c, "greeting", k2, (X \cup {w1}) \cup {w2}, Y)
    <3>1. Keys(p, c, "greeting", k2, (X \cup {w1}) \cup {w2}, Y)
      BY <1>1, <2>4, <2>6, ServerWrites DEF Sent, RecordOf, IsMsg
    <3>2. Flows(c, k2, (X \cup {w1}) \cup {w2}, Y)
      BY <1>1, <2>4, <2>6, ServerPuts
    <3> QED
      BY <2>4, <2>6, <3>1, <3>2 DEF Fine, Typed, ServerNamed, Sent, RecordOf
  <2>8. PlainItem(k2, l)
    BY <1>1 DEF PlainItem, PlainItems
  <2>9. /\ EndOK(n) /\ Sent(k2, n) /\ Advances(k2.wr, n.wr) /\ n.keys = k2.keys
        /\ RecordOf(k2, l, w3)
    BY <2>c, <2>6, <2>8, SendsPlain
  <2>10. Fine(p, c, "ClientKeyExchange", n, ((X \cup {w1}) \cup {w2}) \cup {w3}, Y)
    <3>1. Keys(p, c, "greeting", n, ((X \cup {w1}) \cup {w2}) \cup {w3}, Y)
      BY <1>1, <2>7, <2>9, ServerWrites DEF Sent, RecordOf, IsMsg
    <3>2. Fine(p, c, "greeting", n, ((X \cup {w1}) \cup {w2}) \cup {w3}, Y)
      <4>1. Flows(c, n, ((X \cup {w1}) \cup {w2}) \cup {w3}, Y)
        BY <1>1, <2>7, <2>9, ServerPuts
      <4> QED
        BY <2>7, <2>9, <3>1, <4>1 DEF Fine, Typed, ServerNamed, Sent, RecordOf
    <3>3. n.sr > n.keys.sr
      BY <2>1, <2>3, <2>6, <2>9 DEF Sent
    <3>4. Keys(p, c, "ClientKeyExchange", n, ((X \cup {w1}) \cup {w2}) \cup {w3}, Y)
      BY <2>9, <3>2, <3>3, ServerGreeted
    <3> QED
      BY <3>2, <3>4 DEF Fine
  <2>11. /\ Pending(x) = "greeting" /\ Pending(k1) = "greeting" /\ Pending(k2) = "greeting"
         /\ MayEnd(s, n) /\ Answered(n) = "ClientKeyExchange"
    BY <1>3, <2>1, <2>3, <2>6, <2>9 DEF Pending, Sent, MayEnd, Kept, Answered, EndOK
  <2>g. Kept(s, k1) /\ Kept(s, k2)
    BY <2>1, <2>3, <2>6 DEF Sent, Kept
  <2>12. CASE a = Answer(Cut(x, room), <<>>)
    BY <1>4, <2>1, <2>11, <2>12, ServerStops, NoRecords, KeptSame
  <2>13. CASE a = Answer(Cut(k1, room), out1)
    <3>1. Listed(out1) /\ ToSet(out1) \subseteq {w1}
      BY <2>d, OneRecord
    <3>2. X \cup ToSet(out1) \subseteq X \cup {w1}
      BY <3>1
    <3> QED
      BY <1>4, <2>4, <2>11, <2>13, <2>g, <3>1, <3>2, ServerStops
  <2>14. CASE a = Answer(Cut(k2, room), out2)
    <3>1. Listed(out2) /\ ToSet(out2) \subseteq {w1, w2}
      BY <2>d, TwoRecords
    <3>2. X \cup ToSet(out2) \subseteq (X \cup {w1}) \cup {w2}
      BY <3>1
    <3> QED
      BY <1>4, <2>7, <2>11, <2>14, <2>g, <3>1, <3>2, ServerStops
  <2>15. CASE a = Answer(Over(s, n), out)
    <3>1. Listed(out) /\ ToSet(out) \subseteq {w1, w2, w3}
      BY <2>d, <2>e, ThreeRecords
    <3>2. X \cup ToSet(out) \subseteq ((X \cup {w1}) \cup {w2}) \cup {w3}
      BY <3>1
    <3> QED
      BY <2>10, <2>11, <2>15, <3>1, <3>2, ServerEnds
  <2> QED
    BY <2>f, <2>12, <2>13, <2>14, <2>15
<1> QED
  BY <1>4, <1>5, <1>6

\* ServerHello, ChangeCipherSpec and Finished.
LEMMA ServerResumes ==
    ASSUME NEW p, NEW c, NEW s, NEW X, NEW Y, Fine(p, c, Pending(s), s, X, Y),
           ~s.alert, s.hs = "Finished",
           NEW rooms, rooms \subseteq Free, NEW e, e = "s", NEW a \in Answers(e, s, rooms)
    PROVE  ServerAnswered(p, c, s, a, X, Y)
<1>1. PICK i, j, l : i = "ServerHello" /\ j = "ChangeCipherSpec" /\ l = "Finished"
  OBVIOUS
<1>2. Flight3(e, s, i, j, l)
  BY <1>1 DEF Flight, Flight3
<1>3. Pending(s) = "switching" /\ EndOK(s) /\ s.resumed
  BY DEF Pending, Fine, Typed, Keys, ServerKeys
<1>4. PICK room \in rooms :
         \/ a = Answer(Cut(s, room), <<>>)
         \/ \E x \in Greetings(s) : Three(e, s, x, room, i, j, l, a)
  <2>1. Opened(s, i) = Greetings(s)
    BY <1>1 DEF Opened
  <2>2. Outcome3(e, s, rooms, i, j, l, a)
    BY <1>2, Answer3
  <2> QED
    BY <2>1, <2>2 DEF Outcome3, Three
<1>5. CASE a = Answer(Cut(s, room), <<>>)
  BY <1>4, <1>5, ServerStops, NoRecords, KeptSame
<1>6. ASSUME NEW x \in Greetings(s), Three(e, s, x, room, i, j, l, a)
      PROVE  ServerAnswered(p, c, s, a, X, Y)
  <2>a. PICK k1, w1 : k1 = Wrote(e, x, i) /\ w1 = Made(e, x, i)
    OBVIOUS
  <2>b. PICK k2, w2 : k2 = Wrote(e, k1, j) /\ w2 = Made(e, k1, j)
    OBVIOUS
  <2>c. PICK n, w3 : n = Wrote(e, k2, l) /\ w3 = Made(e, k2, l)
    OBVIOUS
  <2>d. PICK out1, out2 : out1 = Append(<<>>, w1) /\ out2 = Append(Append(<<>>, w1), w2)
    OBVIOUS
  <2>e. PICK out : out = Append(out2, w3)
    OBVIOUS
  <2>f. \/ a = Answer(Cut(x, room), <<>>)
        \/ a = Answer(Cut(k1, room), out1)
        \/ a = Answer(Cut(k2, room), out2)
        \/ a = Answer(Over(s, n), out)
    BY <1>6, <2>a, <2>b, <2>c, <2>d, <2>e DEF Three
  <2>1. /\ Fine(p, c, "switching", x, X, Y) /\ x.sr > x.keys.sr /\ x.cipher \in Names
        /\ x.hs = "Finished" /\ ~x.alert /\ x.resumed /\ Kept(s, x)
    BY <1>3, ServerOpened
  <2>2. EndOK(x) /\ ServerNamed(x)
    BY <2>1 DEF Fine, Typed
  <2>3. /\ EndOK(k1) /\ Sent(x, k1) /\ Advances(x.wr, k1.wr)
        /\ k1.keys.cr = x.cr /\ k1.keys.sr = x.sr
        /\ RecordOf(x, i, w1)
    BY <1>1, <2>a, <2>1, <2>2, SendsDerived
  <2>4. Fine(p, c, "switching", k1, X \cup {w1}, Y)
    <3>1. Keys(p, c, "switching", k1, X \cup {w1}, Y)
      BY <1>1, <2>1, <2>3, ServerWritesHelloResumed DEF Sent, RecordOf
    <3>2. Flows(c, k1, X \cup {w1}, Y)
      BY <1>1, <2>1, <2>3, ServerPuts
    <3> QED
      BY <2>1, <2>2, <2>3, <3>1, <3>2 DEF Fine, Typed, ServerNamed, Sent, RecordOf
  <2>5. k1.keys.cr = k1.cr /\ k1.keys.sr = k1.sr /\ k1.wr.keys.sr < k1.keys.sr
    <3>1. Numeric(x) /\ x.wr.keys.sr <= x.keys.sr
      BY <2>1, <2>2, NumericEnd DEF Fine, Keys, ServerKeys
    <3> QED
      BY <2>1, <2>3, <3>1 DEF Sent, Advances, Numeric
  <2>6. /\ EndOK(k2) /\ Sent(k1, k2) /\ Switches(k2.wr, k1.keys) /\ k2.keys = k1.keys
        /\ RecordOf(k1, j, w2)
    BY <1>1, <2>b, <2>3, SendsCcs
  <2>7. Fine(p, c, "switching", k2, (X \cup {w1}) \cup {w2}, Y)
    <3>1. Keys(p, c, "switching", k2, (X \cup {w1}) \cup {w2}, Y)
      BY <1>1, <2>4, <2>5, <2>6, ServerSwitches DEF Sent, RecordOf
    <3>2. Flows(c, k2, (X \cup {w1}) \cup {w2}, Y)
      BY <1>1, <2>1, <2>3, <2>4, <2>5, <2>6, ServerSwitchesFlows DEF Sent, RecordOf
    <3> QED
      BY <2>4, <2>6, <3>1, <3>2 DEF Fine, Typed, ServerNamed, Sent, RecordOf
  <2>8. PlainItem(k2, l)
    BY <1>1 DEF PlainItem, PlainItems
  <2>9. /\ EndOK(n) /\ Sent(k2, n) /\ Advances(k2.wr, n.wr) /\ n.keys = k2.keys
        /\ RecordOf(k2, l, w3)
    BY <2>c, <2>6, <2>8, SendsPlain
  <2>10. Fine(p, c, "Finished", n, ((X \cup {w1}) \cup {w2}) \cup {w3}, Y)
    <3>1. k2.keys.cr = k2.cr /\ k2.keys.sr = k2.sr /\ k2.wr.keys = k2.keys /\ k2.wr.seq = 0
      BY <2>5, <2>6 DEF Sent, Switches
    <3>2. Keys(p, c, "Finished", n, ((X \cup {w1}) \cup {w2}) \cup {w3}, Y)
      BY <1>1, <2>7, <2>9, <3>1, ServerSwitched DEF Sent, RecordOf
    <3>3. Flows(c, n, ((X \cup {w1}) \cup {w2}) \cup {w3}, Y)
      BY <1>1, <2>7, <2>9, ServerPuts
    <3> QED
      BY <2>7, <2>9, <3>2, <3>3 DEF Fine, Typed, ServerNamed, Sent, RecordOf
  <2>11. /\ Pending(x) = "switching" /\ Pending(k1) = "switching" /\ Pending(k2) = "switching"
         /\ MayEnd(s, n) /\ Answered(n) = "Finished"
    BY <1>3, <2>1, <2>3, <2>6, <2>9 DEF Pending, Sent, MayEnd, Kept, Answered, EndOK
  <2>g. Kept(s, k1) /\ Kept(s, k2)
    BY <2>1, <2>3, <2>6 DEF Sent, Kept
  <2>12. CASE a = Answer(Cut(x, room), <<>>)
    BY <1>4, <2>1, <2>11, <2>12, ServerStops, NoRecords, KeptSame
  <2>13. CASE a = Answer(Cut(k1, room), out1)
    <3>1. Listed(out1) /\ ToSet(out1) \subseteq {w1}
      BY <2>d, OneRecord
    <3>2. X \cup ToSet(out1) \subseteq X \cup {w1}
      BY <3>1
    <3> QED
      BY <1>4, <2>4, <2>11, <2>13, <2>g, <3>1, <3>2, ServerStops
  <2>14. CASE a = Answer(Cut(k2, room), out2)
    <3>1. Listed(out2) /\ ToSet(out2) \subseteq {w1, w2}
      BY <2>d, TwoRecords
    <3>2. X \cup ToSet(out2) \subseteq (X \cup {w1}) \cup {w2}
      BY <3>1
    <3> QED
      BY <1>4, <2>7, <2>11, <2>14, <2>g, <3>1, <3>2, ServerStops
  <2>15. CASE a = Answer(Over(s, n), out)
    <3>1. Listed(out) /\ ToSet(out) \subseteq {w1, w2, w3}
      BY <2>d, <2>e, ThreeRecords
    <3>2. X \cup ToSet(out) \subseteq ((X \cup {w1}) \cup {w2}) \cup {w3}
      BY <3>1
    <3> QED
      BY <2>10, <2>11, <2>15, <3>1, <3>2, ServerEnds
  <2> QED
    BY <2>f, <2>12, <2>13, <2>14, <2>15
<1> QED
  BY <1>4, <1>5, <1>6

\* The end of a full handshake, which may stop between its two records.
LEMMA ServerFinishes ==
    ASSUME NEW p, NEW c, NEW s, NEW X, NEW Y, Fine(p, c, Pending(s), s, X, Y),
           ~s.alert, s.hs = "DONE",
           NEW rooms, rooms \subseteq Free, NEW e, e = "s", NEW a \in Answers(e, s, rooms)
    PROVE  ServerAnswered(p, c, s, a, X, Y)
<1>1. PICK i, j : i = "ChangeCipherSpec" /\ j = "Finished"
  OBVIOUS
<1>2. Flight2(e, s, i, j)
  BY <1>1 DEF Flight, Flight2
<1>3. Pending(s) = "finishing" /\ EndOK(s)
  BY DEF Pending, Fine, Typed
<1>4. PICK k1, w1 : k1 = Wrote(e, s, i) /\ w1 = Made(e, s, i)
  OBVIOUS
<1>5. PICK n, w2 : n = Wrote(e, k1, j) /\ w2 = Made(e, k1, j)
  OBVIOUS
<1>6. PICK out1, out : out1 = Append(<<>>, w1) /\ out = Append(Append(<<>>, w1), w2)
  OBVIOUS
<1>7. PICK room \in rooms :
         \/ a = Answer(Cut(s, room), <<>>)
         \/ a = Answer(Cut(k1, room), out1)
         \/ a = Answer(Over(s, n), out)
  <2>1. \A x \in Opened(s, i) : x = s
    BY <1>1 DEF Opened
  <2>2. Outcome2(e, s, rooms, i, j, a)
    BY <1>2, Answer2
  <2> QED
    BY <1>4, <1>5, <1>6, <2>1, <2>2 DEF Outcome2
<1>8. /\ EndOK(k1) /\ Sent(s, k1) /\ Switches(k1.wr, s.keys) /\ k1.keys = s.keys
      /\ RecordOf(s, i, w1)
  BY <1>1, <1>3, <1>4, SendsCcs
<1>9. Fine(p, c, "finishing", k1, X \cup {w1}, Y)
  <2>1. Keys(p, c, "finishing", k1, X \cup {w1}, Y)
    BY <1>1, <1>3, <1>8, ServerWritesCcs DEF Sent, RecordOf
  <2>2. Flows(c, k1, X \cup {w1}, Y)
    BY <1>1, <1>3, <1>8, ServerFinishesFlows DEF Sent, RecordOf
  <2> QED
    BY <1>3, <1>8, <2>1, <2>2 DEF Fine, Typed, ServerNamed, Sent, RecordOf
<1>10. CASE a = Answer(Cut(s, room), <<>>)
  BY <1>7, <1>10, ServerStops, NoRecords, KeptSame
<1>11. CASE a = Answer(Cut(k1, room), out1)
  <2>1. Pending(k1) = "finishing"
    BY <1>8 DEF Pending, Sent
  <2>2. Listed(out1) /\ ToSet(out1) \subseteq {w1}
    BY <1>6, OneRecord
  <2>3. X \cup ToSet(out1) \subseteq X \cup {w1}
    BY <2>2
  <2>4. Kept(s, k1)
    BY <1>8 DEF Sent
  <2> QED
    BY <1>7, <1>9, <1>11, <2>1, <2>2, <2>3, <2>4, ServerStops
<1>12. CASE a = Answer(Over(s, n), out)
  <2>1. PlainItem(k1, j)
    BY <1>1 DEF PlainItem, PlainItems
  <2>2. /\ EndOK(n) /\ Sent(k1, n) /\ Advances(k1.wr, n.wr) /\ n.keys = k1.keys
        /\ RecordOf(k1, j, w2)
    BY <1>5, <1>8, <2>1, SendsPlain
  <2>3. Keys(p, c, "DONE", n, (X \cup {w1}) \cup {w2}, Y)
    BY <1>1, <1>8, <1>9, <2>2, ServerWritesFinished DEF Sent, RecordOf, Switches
  <2>4. Fine(p, c, "DONE", n, (X \cup {w1}) \cup {w2}, Y)
    <3>1. Flows(c, n, (X \cup {w1}) \cup {w2}, Y)
      BY <1>1, <1>9, <2>2, ServerPuts
    <3> QED
      BY <1>8, <1>9, <2>2, <2>3, <3>1 DEF Fine, Typed, ServerNamed, Sent, RecordOf
  <2>5. MayEnd(s, n) /\ Answered(n) = "DONE"
    BY <1>3, <1>8, <2>2 DEF EndOK, Sent, Kept, MayEnd, Answered
  <2>6. Listed(out) /\ ToSet(out) \subseteq {w1, w2}
    BY <1>6, TwoRecords
  <2>7. X \cup ToSet(out) \subseteq (X \cup {w1}) \cup {w2}
    BY <2>6
  <2> QED
    BY <1>12, <2>4, <2>5, <2>6, <2>7, ServerEnds
<1> QED
  BY <1>7, <1>10, <1>11, <1>12

\* Whatever the server has to answer, in whatever room.
LEMMA ServerAnswers ==
    ASSUME NEW p, NEW c, NEW s, NEW X, NEW Y, Fine(p, c, Pending(s), s, X, Y),
           NEW rooms, rooms \subseteq Free, NEW e, e = "s", NEW a \in Answers(e, s, rooms)
    PROVE  ServerAnswered(p, c, s, a, X, Y)
<1>1. s.alert \/ s.hs \in {"ClientKeyExchange", "Finished", "DONE"}
  BY DEF Pending, Fine, Keys, ServerKeys, ServerDone
<1> QED
  BY <1>1, ServerAlerts, ServerGreets, ServerResumes, ServerFinishes

=============================================================================
