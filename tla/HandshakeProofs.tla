-------------------------- MODULE HandshakeProofs --------------------------
(***************************************************************************)
(* Every action of Handshake preserves the invariant IInv of               *)
(* HandshakeKeys and is a step of SecureChannel or none: first those of    *)
(* the client, then those of the server, then the faults of the wire; and  *)
(* the theorems: its types; that an end whose handshake is complete has    *)
(* the keys of the other; that a closure comes after all the data; and     *)
(* that the whole implements SecureChannel.                                *)
(***************************************************************************)
EXTENDS HandshakeKeys

-----------------------------------------------------------------------------
(* States *)

\* What the applications have been given, as SecureChannel counts it.
Totals == <<[e \in Ends |-> end[e].sent], [e \in Ends |-> end[e].got]>>

\* What is proved of every step: it preserves the invariant, and is a step of
\* SecureChannel or none.
Onward == IInv' /\ [Channel!Next]_Totals

\* Nothing is sent and nothing got, or one record is: the next of those that
\* the other end, o, has sent.
Conveys(k, n, o) ==
    \/ n.sent = k.sent /\ n.got = k.got
    \/ n.sent = k.sent + 1 /\ n.got = k.got
    \/ n.sent = k.sent /\ n.got = k.got + 1 /\ k.got < o.sent

LEMMA Conveyed ==
    ASSUME NEW c, NEW s, Pair(end, c, s), NEW n, NEW m, Pair(end, n, m)',
           (m = s /\ Conveys(c, n, s)) \/ (n = c /\ Conveys(s, m, c))
    PROVE  [Channel!Next]_Totals
<1>1. /\ end["c"] = c /\ end["s"] = s /\ end'["c"] = n /\ end'["s"] = m
      /\ Other("c") = "s" /\ Other("s") = "c"
  BY DEF Pair, Other
<1>2. \A e \in Ends : e = "c" \/ e = "s"
  BY DEF Ends
<1>3. "c" \in Ends /\ "s" \in Ends /\ "c" # "s"
  BY DEF Ends
<1>4. CASE \A e \in Ends : end'[e].sent = end[e].sent /\ end'[e].got = end[e].got
  BY <1>4 DEF Totals
<1>5. ASSUME NEW e \in Ends, end'[e].sent = end[e].sent + 1, end'[e].got = end[e].got,
             end'[Other(e)] = end[Other(e)]
      PROVE  Channel!Send(e)
  BY <1>5, <1>1, <1>2, <1>3 DEF Channel!Send
<1>6. ASSUME NEW e \in Ends, end'[e].got = end[e].got + 1, end'[e].sent = end[e].sent,
             end[e].got < end[Other(e)].sent, end'[Other(e)] = end[Other(e)]
      PROVE  Channel!Deliver(e)
  BY <1>6, <1>1, <1>2, <1>3 DEF Channel!Deliver
<1> QED
  BY <1>1, <1>2, <1>3, <1>4, <1>5, <1>6 DEF Conveys, Channel!Next

LEMMA Established ==
    ASSUME NEW c, NEW s, NEW x, NEW y, View(c, s, x, y),
           NEW n, NEW m, NEW v, NEW w, View(n, m, v, w)',
           (m = s /\ Conveys(c, n, s)) \/ (n = c /\ Conveys(s, m, c))
    PROVE  Onward
<1>1. end'["c"] = n /\ end'["s"] = m /\ wire'["c"] = v /\ wire'["s"] = w
  BY DEF View, Pair
<1>2. Pair(end, c, s) /\ Pair(end, n, m)'
  BY DEF View
<1> QED
  BY <1>1, <1>2, Conveyed DEF IInv, Onward

LEMMA KeptConveys ==
    ASSUME NEW k, NEW n, Kept(k, n), NEW o
    PROVE  Conveys(k, n, o)
  BY DEF Kept, Conveys

LEMMA PairIs ==
    ASSUME NEW f, NEW a, NEW b, Pair(f, a, b), NEW n
    PROVE  /\ Pair([f EXCEPT !["c"] = n], n, b)
           /\ Pair([f EXCEPT !["s"] = n], a, n)
  BY DEF Pair, Ends

\* An end that the application may use is not about to alert.
LEMMA UsableClient ==
    ASSUME NEW c, NEW s, NEW x, NEW y, View(c, s, x, y), NEW e, e = "c", Usable(e)
    PROVE  /\ end[e] = c /\ wire[e] = x /\ Other(e) = "s"
           /\ c.room = -1 /\ ~c.alert /\ ~c.error /\ ~c.closed
           /\ EndOK(c) /\ ClientNamed(c)
           /\ Fine(c.hs, c, Phase(s), s, ToSet(x), ToSet(y))
<1>1. end[e] = c /\ wire[e] = x /\ Other(e) = "s"
  BY DEF View, Pair, Other
<1>2. c.room = -1 /\ ~c.error /\ ~c.closed
  BY <1>1 DEF Usable
<1>3. ~c.alert /\ Phase(c) = c.hs
  BY <1>2 DEF View, Told, Phase
<1> QED
  BY <1>1, <1>2, <1>3 DEF View, Fine, Typed

LEMMA UsableServer ==
    ASSUME NEW c, NEW s, NEW x, NEW y, View(c, s, x, y), NEW e, e = "s", Usable(e)
    PROVE  /\ end[e] = s /\ wire[e] = y /\ Other(e) = "c"
           /\ s.room = -1 /\ ~s.alert /\ ~s.error /\ ~s.closed
           /\ EndOK(s) /\ ServerNamed(s)
           /\ Fine(Phase(c), c, s.hs, s, ToSet(x), ToSet(y))
<1>1. end[e] = s /\ wire[e] = y /\ Other(e) = "c"
  BY DEF View, Pair, Other
<1>2. s.room = -1 /\ ~s.error /\ ~s.closed
  BY <1>1 DEF Usable
<1>3. ~s.alert /\ Phase(s) = s.hs
  BY <1>2 DEF View, Told, Phase
<1> QED
  BY <1>1, <1>2, <1>3 DEF View, Fine, Typed

\* A record is read and needs no answer.
LEMMA ClientTakes ==
    ASSUME NEW c, NEW s, NEW x, NEW y, View(c, s, x, y), NEW e, e = "c", Reads(e),
           NEW k, Take(e, k), Told(k), Rest', Kept(c, k) \/ Conveys(c, k, s),
           Fine(Phase(k), k, Phase(s), s, ToSet(x), ToSet(y))
    PROVE  Onward
<1>1. Pair(end', k, s)
  BY PairIs DEF View, Take
<1>2. wire["c"] = x /\ x # <<>> /\ Pair(wire', Tail(x), y)
  BY DEF View, Take, Pair, Reads, Ends
<1>3. Listed(x) /\ Listed(Tail(x)) /\ ToSet(Tail(x)) \subseteq ToSet(x)
  BY <1>2, TailRecords DEF View
<1>4. Fine(Phase(k), k, Phase(s), s, ToSet(Tail(x)), ToSet(y))
  BY <1>3, Fewer
<1>5. View(k, s, Tail(x), y)'
  BY <1>1, <1>2, <1>3, <1>4 DEF View
<1> QED
  BY <1>5, KeptConveys, Established

LEMMA ServerTakes ==
    ASSUME NEW c, NEW s, NEW x, NEW y, View(c, s, x, y), NEW e, e = "s", Reads(e),
           NEW k, Take(e, k), Told(k), Rest', Kept(s, k) \/ Conveys(s, k, c),
           Fine(Phase(c), c, Phase(k), k, ToSet(x), ToSet(y))
    PROVE  Onward
<1>1. Pair(end', c, k)
  BY PairIs DEF View, Take
<1>2. wire["s"] = y /\ y # <<>> /\ Pair(wire', x, Tail(y))
  BY DEF View, Take, Pair, Reads, Ends
<1>3. Listed(y) /\ Listed(Tail(y)) /\ ToSet(Tail(y)) \subseteq ToSet(y)
  BY <1>2, TailRecords DEF View
<1>4. Fine(Phase(c), c, Phase(k), k, ToSet(x), ToSet(Tail(y)))
  BY <1>3, Fewer
<1>5. View(c, k, x, Tail(y))'
  BY <1>1, <1>2, <1>3, <1>4 DEF View
<1> QED
  BY <1>5, KeptConveys, Established

\* A record is read and answered.
LEMMA ClientReplies ==
    ASSUME NEW c, NEW s, NEW x, NEW y, View(c, s, x, y), NEW e, e = "c", Reads(e),
           NEW k, Reply(e, k), Rest', Kept(c, k),
           Fine(Pending(k), k, Phase(s), s, ToSet(x), ToSet(y))
    PROVE  Onward
<1>1. PICK a \in Answers(e, k, Free) :
         /\ end' = [end EXCEPT ![e] = a.end]
         /\ wire' = [wire EXCEPT ![e] = Tail(@), ![Other(e)] = @ \o a.out]
  BY DEF Reply
<1>2. PICK out : out = a.out
  OBVIOUS
<1>3. Pair(end', a.end, s)
  BY <1>1, PairIs DEF View
<1>4. wire["c"] = x /\ x # <<>> /\ Pair(wire', Tail(x), y \o out)
  BY <1>1, <1>2 DEF View, Pair, Reads, Other, Ends
<1>5. Listed(x) /\ Listed(y) /\ Listed(Tail(x)) /\ ToSet(Tail(x)) \subseteq ToSet(x)
  BY <1>4, TailRecords DEF View
<1>6. /\ Listed(out) /\ Told(a.end) /\ Kept(k, a.end)
      /\ Fine(Phase(a.end), a.end, Phase(s), s, ToSet(x), ToSet(y) \cup ToSet(out))
  BY <1>2, ClientAnswers DEF ClientAnswered
<1>7. Listed(y \o out) /\ ToSet(y \o out) \subseteq ToSet(y) \cup ToSet(out)
  BY <1>5, <1>6, ConcatRecords
<1>8. Fine(Phase(a.end), a.end, Phase(s), s, ToSet(Tail(x)), ToSet(y \o out))
  BY <1>5, <1>6, <1>7, Fewer
<1>9. View(a.end, s, Tail(x), y \o out)'
  BY <1>3, <1>4, <1>5, <1>6, <1>7, <1>8 DEF View
<1>10. Conveys(c, a.end, s)
  BY <1>6, KeptConveys DEF Kept
<1> QED
  BY <1>9, <1>10, Established

LEMMA ServerReplies ==
    ASSUME NEW c, NEW s, NEW x, NEW y, View(c, s, x, y), NEW e, e = "s", Reads(e),
           NEW k, Reply(e, k), Rest', Kept(s, k),
           Fine(Phase(c), c, Pending(k), k, ToSet(x), ToSet(y))
    PROVE  Onward
<1>1. PICK a \in Answers(e, k, Free) :
         /\ end' = [end EXCEPT ![e] = a.end]
         /\ wire' = [wire EXCEPT ![e] = Tail(@), ![Other(e)] = @ \o a.out]
  BY DEF Reply
<1>2. PICK out : out = a.out
  OBVIOUS
<1>3. Pair(end', c, a.end)
  BY <1>1, PairIs DEF View
<1>4. wire["s"] = y /\ y # <<>> /\ Pair(wire', x \o out, Tail(y))
  BY <1>1, <1>2 DEF View, Pair, Reads, Other, Ends
<1>5. Listed(x) /\ Listed(y) /\ Listed(Tail(y)) /\ ToSet(Tail(y)) \subseteq ToSet(y)
  BY <1>4, TailRecords DEF View
<1>6. /\ Listed(out) /\ Told(a.end) /\ Kept(k, a.end)
      /\ Fine(Phase(c), c, Phase(a.end), a.end, ToSet(x) \cup ToSet(out), ToSet(y))
  BY <1>2, ServerAnswers DEF ServerAnswered
<1>7. Listed(x \o out) /\ ToSet(x \o out) \subseteq ToSet(x) \cup ToSet(out)
  BY <1>5, <1>6, ConcatRecords
<1>8. Fine(Phase(c), c, Phase(a.end), a.end, ToSet(x \o out), ToSet(Tail(y)))
  BY <1>5, <1>6, <1>7, Fewer
<1>9. View(c, a.end, x \o out, Tail(y))'
  BY <1>3, <1>4, <1>5, <1>6, <1>7, <1>8 DEF View
<1>10. Conveys(s, a.end, c)
  BY <1>6, KeptConveys DEF Kept
<1> QED
  BY <1>9, <1>10, Established

-----------------------------------------------------------------------------
(* Actions of the client *)

LEMMA CheckedIs ==
    ASSUME NEW e, NEW k, end[e] = k, EndOK(k), NEW n, n = Checked(e)
    PROVE  EndOK(n) /\ Differs(k, n, {"rd"}) /\ Advances(k.rd, n.rd) /\ Kept(k, n)
<1>1. Counted(k.rd) \in States /\ Advances(k.rd, Counted(k.rd))
  BY CountedIs DEF EndOK
<1>2. n = [k EXCEPT !.rd = Counted(k.rd)]
  BY DEF Checked
<1>3. Differs(k, n, {"rd"}) /\ n.rd = Counted(k.rd)
  BY <1>2 DEF EndOK, Differs, IsEnd, Fields
<1> QED
  BY <1>1, <1>3 DEF EndOK, Differs, Fields, Kept

LEMMA HashedIs ==
    ASSUME NEW e, NEW k, end[e] = k, EndOK(k), NEW n, n = Hashed(e)
    PROVE  EndOK(n) /\ Differs(k, n, {"rd", "log"}) /\ Advances(k.rd, n.rd) /\ Kept(k, n)
<1>1. PICK m : m = Checked(e)
  OBVIOUS
<1>2. EndOK(m) /\ Differs(k, m, {"rd"}) /\ Advances(k.rd, m.rd)
  BY <1>1, CheckedIs
<1>3. PICK log : n = [m EXCEPT !.log = log]
  BY <1>1 DEF Hashed
<1>4. Differs(m, n, {"log"})
  BY <1>2, <1>3 DEF EndOK, Differs, IsEnd, Fields
<1> QED
  BY <1>2, <1>4 DEF EndOK, Differs, Fields, Kept

\* A record that is read was made with the keys and the number it is read with.
LEMMA ReadingClient ==
    ASSUME NEW c, NEW s, NEW x, NEW y, View(c, s, x, y), NEW e, e = "c",
           NEW type, Receives(e, type), NEW r, r = HeadOf(e)
    PROVE  /\ Reads(e) /\ Usable(e)
           /\ r \in ToSet(x) /\ RecordOK(r)
           /\ r.type = type /\ r.keys = c.rd.keys /\ r.seq = c.rd.seq
           /\ requests' = requests /\ faults' = faults
           /\ Acceptable(e, c, r)
<1>1. Reads(e) /\ Usable(e) /\ r.type = type /\ requests' = requests /\ faults' = faults
  BY DEF Receives, Reads
<1>2. end[e] = c /\ wire[e] = x
  BY <1>1, UsableClient
<1>3. Acceptable(e, c, r)
  BY <1>2 DEF Receives
<1>4. r.keys = c.rd.keys /\ r.seq = c.rd.seq
  BY <1>3 DEF Acceptable, Genuine
<1>5. r \in ToSet(x)
  BY <1>1, <1>2, TailRecords DEF Reads, HeadOf, View
<1>6. RecordOK(r)
  BY <1>5 DEF View, Fine, Typed
<1> QED
  BY <1>1, <1>3, <1>4, <1>5, <1>6

LEMMA ReadingServer ==
    ASSUME NEW c, NEW s, NEW x, NEW y, View(c, s, x, y), NEW e, e = "s",
           NEW type, Receives(e, type), NEW r, r = HeadOf(e)
    PROVE  /\ Reads(e) /\ Usable(e)
           /\ r \in ToSet(y) /\ RecordOK(r)
           /\ r.type = type /\ r.keys = s.rd.keys /\ r.seq = s.rd.seq
           /\ requests' = requests /\ faults' = faults
           /\ Acceptable(e, s, r)
<1>1. Reads(e) /\ Usable(e) /\ r.type = type /\ requests' = requests /\ faults' = faults
  BY DEF Receives, Reads
<1>2. end[e] = s /\ wire[e] = y
  BY <1>1, UsableServer
<1>3. Acceptable(e, s, r)
  BY <1>2 DEF Receives
<1>4. r.keys = s.rd.keys /\ r.seq = s.rd.seq
  BY <1>3 DEF Acceptable, Genuine
<1>5. r \in ToSet(y)
  BY <1>1, <1>2, TailRecords DEF Reads, HeadOf, View
<1>6. RecordOK(r)
  BY <1>5 DEF View, Fine, Typed
<1> QED
  BY <1>1, <1>3, <1>4, <1>5, <1>6

\* An end whose ciphers do not move keeps what it has of the data.
LEMMA ClientRests ==
    ASSUME NEW p, NEW c, NEW q, NEW s, NEW X, NEW Y, Fine(p, c, q, s, X, Y),
           NEW n, n.rd = c.rd /\ n.wr = c.wr /\ n.cr = c.cr /\ n.hs = c.hs, Kept(c, n)
    PROVE  Flows(n, s, X, Y)
<1>1. Flows(c, s, X, Y) /\ Steady(c, n)
  BY DEF Fine, Steady
<1> QED
  BY <1>1, EndKeeps

LEMMA ServerRests ==
    ASSUME NEW p, NEW c, NEW q, NEW s, NEW X, NEW Y, Fine(p, c, q, s, X, Y),
           NEW n, n.rd = s.rd /\ n.wr = s.wr /\ n.cr = s.cr /\ n.hs = s.hs, Kept(s, n)
    PROVE  Flows(c, n, X, Y)
<1>1. Flows(s, c, Y, X) /\ Steady(s, n)
  BY DEF Fine, Flows, Steady
<1>2. Flows(n, c, Y, X)
  BY <1>1, EndKeeps
<1> QED
  BY <1>2 DEF Flows

LEMMA ClientCcsStep ==
    ASSUME NEW c, NEW s, NEW x, NEW y, View(c, s, x, y), NEW e, e = "c", ChangeCipherSpec(e)
    PROVE  Onward
<1>1. PICK r : r = HeadOf(e)
  OBVIOUS
<1>2. Receives(e, "ccs") /\ Rest'
  BY DEF ChangeCipherSpec, Receives, View, Rest
<1>3. /\ Reads(e) /\ Usable(e) /\ r \in ToSet(x) /\ r.type = "ccs"
      /\ r.keys = c.rd.keys /\ r.seq = c.rd.seq /\ Acceptable(e, c, r)
  BY <1>1, <1>2, ReadingClient
<1>4. /\ end[e] = c /\ c.room = -1 /\ ~c.alert /\ EndOK(c) /\ ClientNamed(c)
      /\ Fine(c.hs, c, Phase(s), s, ToSet(x), ToSet(y))
  BY <1>3, UsableClient
<1>5. c.hs = "Finished"
  BY <1>3 DEF Acceptable
<1>6. PICK k : k = [c EXCEPT !.rd = [keys |-> c.keys, seq |-> 0]]
  OBVIOUS
<1>7. Take(e, k)
  BY <1>4, <1>6 DEF ChangeCipherSpec
<1>8. Differs(c, k, {"rd"}) /\ k.rd = [keys |-> c.keys, seq |-> 0]
  BY <1>4, <1>6 DEF EndOK, Differs, IsEnd, Fields
<1>9. k.rd \in States /\ Switches(k.rd, c.keys)
  BY <1>4, <1>8, SwitchedIs DEF EndOK
<1>10. EndOK(k)
  BY <1>4, <1>8, <1>9 DEF EndOK, Differs, Fields
<1>11. /\ k.cr = c.cr /\ k.sr = c.sr /\ k.keys = c.keys /\ k.wr = c.wr /\ k.hs = c.hs
       /\ k.resumed = c.resumed /\ k.room = -1 /\ ~k.alert /\ k.id = c.id /\ k.cipher = c.cipher
       /\ Kept(c, k) /\ Steady(c, k)
  BY <1>4, <1>8 DEF Differs, Fields, Kept, Steady
<1>12. Keys(c.hs, k, Phase(s), s, ToSet(x), ToSet(y))
  BY <1>3, <1>4, <1>5, <1>9, <1>10, <1>11, ClientReadsCcs
<1>13. Fine(c.hs, k, Phase(s), s, ToSet(x), ToSet(y))
  <2>1. Flows(k, s, ToSet(x), ToSet(y))
    BY <1>3, <1>4, <1>5, <1>9, <1>11, ClientTurns
  <2> QED
    BY <1>4, <1>10, <1>11, <1>12, <2>1 DEF Fine, Typed, ClientNamed
<1>14. Phase(k) = c.hs /\ Told(k)
  BY <1>11 DEF Phase, Told
<1> QED
  BY <1>2, <1>3, <1>7, <1>11, <1>13, <1>14, ClientTakes

\* A record that changes neither the phase nor the keys.
LEMMA ClientCounts ==
    ASSUME NEW c, NEW q, NEW s, NEW X, NEW Y, Fine(c.hs, c, q, s, X, Y), c.room = -1, ~c.alert,
           NEW r \in X, r.keys = c.rd.keys, r.seq = c.rd.seq, r.type # "ccs",
           NEW n, EndOK(n), Differs(c, n, {"rd", "error", "closed", "ignored", "got"}),
           Advances(c.rd, n.rd),
           n.got = IF Gives(r) THEN r.body ELSE c.got,
           n.closed => Closes(r) \/ (c.closed /\ n.got = c.got)
    PROVE  Fine(Phase(n), n, q, s, X, Y) /\ Told(n) /\ Conveys(c, n, s)
<1>1. /\ n.cr = c.cr /\ n.sr = c.sr /\ n.keys = c.keys /\ n.wr = c.wr /\ n.hs = c.hs
      /\ n.resumed = c.resumed /\ n.room = -1 /\ ~n.alert /\ n.id = c.id /\ n.cipher = c.cipher
      /\ n.sent = c.sent /\ n.final = c.final /\ Steady(c, n)
  BY DEF Differs, Fields, Steady
<1>2. Keys(c.hs, n, q, s, X, Y)
  BY <1>1, ClientReads
<1>3. Phase(n) = c.hs /\ Told(n)
  BY <1>1 DEF Phase, Told
<1>4. Flows(c, s, X, Y) /\ Way(s, c, X)
  BY WaysAre DEF Fine
<1>5. Flows(n, s, X, Y)
  BY <1>1, <1>4, EndReads
<1>6. Conveys(c, n, s)
  <2>1. Gives(r) => r.body = c.got + 1 /\ c.got < s.sent
    BY <1>4, Delivered DEF Flows
  <2> QED
    BY <1>1, <2>1 DEF Conveys
<1> QED
  BY <1>1, <1>2, <1>3, <1>5, <1>6 DEF Fine, Typed, ClientNamed

LEMMA ClientAlertStep ==
    ASSUME NEW c, NEW s, NEW x, NEW y, View(c, s, x, y), NEW e, e = "c", Alert(e)
    PROVE  Onward
<1>1. PICK r : r = HeadOf(e)
  OBVIOUS
<1>2. Receives(e, "alert") /\ Rest'
  BY DEF Alert, Receives, View, Rest
<1>3. /\ Reads(e) /\ Usable(e) /\ r \in ToSet(x) /\ r.type = "alert"
      /\ r.keys = c.rd.keys /\ r.seq = c.rd.seq
  BY <1>1, <1>2, ReadingClient
<1>4. /\ end[e] = c /\ c.room = -1 /\ ~c.alert /\ EndOK(c)
      /\ Fine(c.hs, c, Phase(s), s, ToSet(x), ToSet(y))
  BY <1>3, UsableClient
<1>5. PICK m : m = Checked(e)
  OBVIOUS
<1>6. EndOK(m) /\ Differs(c, m, {"rd"}) /\ Advances(c.rd, m.rd) /\ Kept(c, m)
  BY <1>4, <1>5, CheckedIs
<1>7. PICK n : /\ Take(e, n)
               /\ \/ n = [m EXCEPT !.closed = TRUE] /\ r.body.msg = "Closure"
                  \/ n = [m EXCEPT !.error = TRUE]
  BY <1>1, <1>5 DEF Alert
<1>8. /\ Differs(m, n, {"closed", "error"})
      /\ n.closed \in BOOLEAN /\ n.error \in BOOLEAN
      /\ n.closed => m.closed \/ r.body.msg = "Closure"
  BY <1>6, <1>7 DEF EndOK, Differs, IsEnd, Fields
<1>9. EndOK(n) /\ Differs(c, n, {"rd", "error", "closed", "ignored", "got"})
      /\ Advances(c.rd, n.rd)
  BY <1>6, <1>8 DEF EndOK, Differs, Fields
<1>10. /\ n.got = IF Gives(r) THEN r.body ELSE c.got
       /\ n.closed => Closes(r) \/ (c.closed /\ n.got = c.got)
  <2>1. n.got = c.got /\ (n.closed => c.closed \/ r.body.msg = "Closure")
    BY <1>6, <1>8 DEF Differs, Fields, Kept
  <2> QED
    BY <1>3, <2>1 DEF Gives, Closes
<1>11. r.type # "ccs"
  BY <1>3
<1>12. Fine(Phase(n), n, Phase(s), s, ToSet(x), ToSet(y)) /\ Told(n)
       /\ Conveys(c, n, s)
  BY <1>3, <1>4, <1>9, <1>10, <1>11, ClientCounts
<1> QED
  BY <1>2, <1>3, <1>7, <1>12, ClientTakes

\* The end after a record of data.
Given(m, b) ==
    IF b = 0 THEN [m EXCEPT !.ignored = @ + 1]
    ELSE [m EXCEPT !.ignored = IF @ > 0 THEN @ - 1 ELSE 0, !.got = b]

LEMMA GivenIs ==
    ASSUME NEW m, EndOK(m), NEW b \in Nat, b = 0 => m.ignored < MaxIgnored,
           NEW n, n = Given(m, b)
    PROVE  /\ EndOK(n) /\ Differs(m, n, {"ignored", "got"})
           /\ n.got = IF b = 0 THEN m.got ELSE b
<1>1. m.ignored \in 0 .. MaxIgnored /\ m.got \in Nat
  BY DEF EndOK
<1>2. PICK i, g : n = [m EXCEPT !.ignored = i, !.got = g]
                  /\ i \in 0 .. MaxIgnored /\ g \in Nat /\ g = IF b = 0 THEN m.got ELSE b
  <2>1. CASE b = 0
    <3>1. n = [m EXCEPT !.ignored = m.ignored + 1, !.got = m.got]
      BY <2>1 DEF Given, EndOK, IsEnd, Fields
    <3>2. m.ignored + 1 \in 0 .. MaxIgnored
      BY <1>1, <2>1, BoundAssumption
    <3> QED
      BY <1>1, <2>1, <3>1, <3>2
  <2>2. CASE b # 0
    <3>1. PICK i : i = IF m.ignored > 0 THEN m.ignored - 1 ELSE 0
      OBVIOUS
    <3>2. n = [m EXCEPT !.ignored = i, !.got = b]
      BY <2>2, <3>1 DEF Given
    <3>3. i \in 0 .. MaxIgnored
      BY <1>1, <3>1, BoundAssumption
    <3> QED
      BY <2>2, <3>2, <3>3
  <2> QED
    BY <2>1, <2>2
<1>3. Differs(m, n, {"ignored", "got"}) /\ n.ignored = i /\ n.got = g
  BY <1>2 DEF EndOK, Differs, IsEnd, Fields
<1> QED
  BY <1>2, <1>3 DEF EndOK, Differs, Fields

LEMMA ClientDataStep ==
    ASSUME NEW c, NEW s, NEW x, NEW y, View(c, s, x, y), NEW e, e = "c", Data(e)
    PROVE  Onward
<1>1. PICK r : r = HeadOf(e)
  OBVIOUS
<1>2. Receives(e, "data") /\ Rest'
  BY DEF Data, Receives, View, Rest
<1>3. /\ Reads(e) /\ Usable(e) /\ r \in ToSet(x) /\ r.type = "data" /\ RecordOK(r)
      /\ r.keys = c.rd.keys /\ r.seq = c.rd.seq /\ Acceptable(e, c, r)
  BY <1>1, <1>2, ReadingClient
<1>4. /\ end[e] = c /\ c.room = -1 /\ ~c.alert /\ ~c.closed /\ EndOK(c)
      /\ Fine(c.hs, c, Phase(s), s, ToSet(x), ToSet(y))
  BY <1>3, UsableClient
<1>5. PICK b \in Nat : b = r.body /\ (b = 0 => c.ignored < MaxIgnored)
  BY <1>3 DEF RecordOK, Acceptable
<1>6. PICK m : m = Checked(e)
  OBVIOUS
<1>7. /\ EndOK(m) /\ Differs(c, m, {"rd"}) /\ Advances(c.rd, m.rd) /\ Kept(c, m)
      /\ m.ignored = c.ignored
  <2>1. EndOK(m) /\ Differs(c, m, {"rd"}) /\ Advances(c.rd, m.rd) /\ Kept(c, m)
    BY <1>4, <1>6, CheckedIs
  <2> QED
    BY <2>1 DEF Differs, Fields
<1>8. PICK n : n = Given(m, b) /\ Take(e, n)
  BY <1>1, <1>5, <1>6 DEF Data, Given
<1>9. /\ EndOK(n) /\ Differs(m, n, {"ignored", "got"})
      /\ n.got = IF b = 0 THEN m.got ELSE b
  BY <1>5, <1>7, <1>8, GivenIs
<1>10. Differs(c, n, {"rd", "error", "closed", "ignored", "got"}) /\ Advances(c.rd, n.rd)
  BY <1>7, <1>9 DEF Differs, Fields
<1>11. Fine(Phase(n), n, Phase(s), s, ToSet(x), ToSet(y)) /\ Told(n)
       /\ Conveys(c, n, s)
  <2>1. n.got = IF Gives(r) THEN r.body ELSE c.got
    BY <1>3, <1>5, <1>7, <1>9 DEF Gives, Kept
  <2>2. ~n.closed
    BY <1>4, <1>7, <1>9 DEF Kept, Differs, Fields
  <2>3. r.type # "ccs"
    BY <1>3
  <2> QED
    BY <1>3, <1>4, <1>9, <1>10, <2>1, <2>2, <2>3, ClientCounts
<1> QED
  BY <1>2, <1>3, <1>8, <1>11, ClientTakes

\* A message of the handshake, once it is in the hash.
LEMMA ClientHears ==
    ASSUME NEW c, NEW s, NEW x, NEW y, View(c, s, x, y), NEW e, e = "c",
           NEW msg, Message(e, msg), NEW r, r = HeadOf(e), NEW m, m = Hashed(e)
    PROVE  /\ Reads(e) /\ r \in ToSet(x) /\ RecordOK(r) /\ IsMsg(r, msg)
           /\ r.keys = c.rd.keys /\ r.seq = c.rd.seq /\ Acceptable(e, c, r)
           /\ c.hs = msg \/ (c.hs = "DONE" /\ msg = "HelloRequest")
           /\ c.room = -1 /\ ~c.alert
           /\ EndOK(c) /\ ClientNamed(c)
           /\ Fine(c.hs, c, Phase(s), s, ToSet(x), ToSet(y))
           /\ EndOK(m) /\ Differs(c, m, {"rd", "log"}) /\ Advances(c.rd, m.rd) /\ Kept(c, m)
           /\ requests' = requests /\ faults' = faults
<1>1. Receives(e, "hs") /\ r.body.msg = msg
  BY DEF Message
<1>2. /\ Reads(e) /\ Usable(e) /\ r \in ToSet(x) /\ RecordOK(r) /\ r.type = "hs"
      /\ r.keys = c.rd.keys /\ r.seq = c.rd.seq /\ Acceptable(e, c, r)
      /\ requests' = requests /\ faults' = faults
  BY <1>1, ReadingClient
<1>3. /\ end[e] = c /\ c.room = -1 /\ ~c.alert /\ EndOK(c) /\ ClientNamed(c)
      /\ Fine(c.hs, c, Phase(s), s, ToSet(x), ToSet(y))
  BY <1>2, UsableClient
<1>4. EndOK(m) /\ Differs(c, m, {"rd", "log"}) /\ Advances(c.rd, m.rd) /\ Kept(c, m)
  BY <1>3, HashedIs
<1>5. IsMsg(r, msg)
  BY <1>1, <1>2 DEF IsMsg
<1>6. c.hs = msg \/ (c.hs = "DONE" /\ msg = "HelloRequest")
  BY <1>1, <1>2 DEF Acceptable, InOrder
<1> QED
  BY <1>2, <1>3, <1>4, <1>5, <1>6

\* The state the message leads to.
LEMMA MovedIs ==
    ASSUME NEW k, EndOK(k), NEW hs \in Expected, NEW n, n = [k EXCEPT !.hs = hs]
    PROVE  EndOK(n) /\ Differs(k, n, {"hs"}) /\ n.hs = hs
<1>1. Differs(k, n, {"hs"}) /\ n.hs = hs
  BY DEF EndOK, Differs, IsEnd, Fields
<1> QED
  BY <1>1 DEF EndOK, Differs, Fields

LEMMA ClientFinishedStep ==
    ASSUME NEW c, NEW s, NEW x, NEW y, View(c, s, x, y), NEW e, e = "c", FinishedMessage(e)
    PROVE  Onward
<1>1. PICK msg, r, m, hs : msg = "Finished" /\ r = HeadOf(e) /\ m = Hashed(e) /\ hs = "DONE"
  OBVIOUS
<1>2. Message(e, msg) /\ Rest'
  BY <1>1 DEF FinishedMessage, Message, Receives, View, Rest
<1>3. /\ Reads(e) /\ r \in ToSet(x) /\ IsMsg(r, msg)
      /\ r.keys = c.rd.keys /\ r.seq = c.rd.seq /\ Acceptable(e, c, r)
      /\ c.hs = msg /\ c.room = -1 /\ ~c.alert /\ ClientNamed(c)
      /\ Fine(c.hs, c, Phase(s), s, ToSet(x), ToSet(y))
      /\ EndOK(m) /\ Differs(c, m, {"rd", "log"}) /\ Advances(c.rd, m.rd) /\ Kept(c, m)
  BY <1>1, <1>2, ClientHears
<1>4. Secure(c.rd)
  BY <1>1, <1>3 DEF Acceptable, Verifies, IsMsg
<1>5. PICK n : n = [m EXCEPT !.hs = hs]
  OBVIOUS
<1>6. EndOK(n) /\ Differs(m, n, {"hs"}) /\ n.hs = hs
  BY <1>1, <1>3, <1>5, MovedIs DEF Expected
<1>7. /\ Advances(c.rd, n.rd) /\ n.cr = c.cr /\ n.sr = c.sr /\ n.wr = c.wr /\ n.keys = c.keys
      /\ n.resumed = c.resumed /\ n.id = c.id /\ n.cipher = c.cipher
      /\ n.room = -1 /\ ~n.alert /\ Kept(c, n)
  BY <1>3, <1>6 DEF Differs, Fields, Kept
<1>8. PICK p : p = IF n.resumed THEN "finishing" ELSE "DONE"
  OBVIOUS
<1>9. Keys(p, n, Phase(s), s, ToSet(x), ToSet(y))
  BY <1>1, <1>3, <1>4, <1>6, <1>7, <1>8, ClientReadsFinished
<1>10. Fine(p, n, Phase(s), s, ToSet(x), ToSet(y))
  <2>1. Steady(c, n)
    BY <1>1, <1>6 DEF Steady
  <2>2. Flows(n, s, ToSet(x), ToSet(y))
    BY <1>3, <1>7, <2>1, ClientHeeds
  <2> QED
    BY <1>1, <1>3, <1>6, <1>7, <1>9, <2>2 DEF Fine, Typed, ClientNamed
<1>11. IF n.resumed THEN Reply(e, n) ELSE Take(e, n)
  <2>1. IF n.resumed = (e = "c") THEN Reply(e, n) ELSE Take(e, n)
    BY <1>1, <1>5 DEF FinishedMessage
  <2>2. n.resumed \in BOOLEAN
    BY <1>6 DEF EndOK
  <2>3. n.resumed = (e = "c") <=> n.resumed
    BY <2>2
  <2> QED
    BY <2>1, <2>3
<1>12. CASE n.resumed
  <2>1. p = Pending(n)
    BY <1>1, <1>6, <1>7, <1>8, <1>12 DEF Pending
  <2> QED
    BY <1>2, <1>3, <1>7, <1>10, <1>11, <1>12, <2>1, ClientReplies
<1>13. CASE ~n.resumed
  <2>1. p = Phase(n) /\ Told(n)
    BY <1>1, <1>6, <1>7, <1>8, <1>13 DEF Phase, Told
  <2> QED
    BY <1>2, <1>3, <1>7, <1>10, <1>11, <1>13, <2>1, ClientTakes
<1> QED
  BY <1>12, <1>13

LEMMA ClientCertificateStep ==
    ASSUME NEW c, NEW s, NEW x, NEW y, View(c, s, x, y), CertificateMessage
    PROVE  Onward
<1>0. PICK e : e = "c"
  OBVIOUS
<1>1. PICK msg, r, m, hs :
         msg = "Certificate" /\ r = HeadOf(e) /\ m = Hashed(e) /\ hs = "ServerHelloDone"
  OBVIOUS
<1>2. Message(e, msg) /\ Rest'
  BY <1>0, <1>1 DEF CertificateMessage, Message, Receives, View, Rest
<1>3. /\ Reads(e) /\ r \in ToSet(x) /\ IsMsg(r, msg)
      /\ r.keys = c.rd.keys /\ r.seq = c.rd.seq
      /\ c.hs = msg /\ c.room = -1 /\ ~c.alert /\ ClientNamed(c)
      /\ Fine(c.hs, c, Phase(s), s, ToSet(x), ToSet(y))
      /\ EndOK(m) /\ Differs(c, m, {"rd", "log"}) /\ Advances(c.rd, m.rd) /\ Kept(c, m)
  BY <1>0, <1>1, <1>2, ClientHears
<1>4. PICK n : n = [m EXCEPT !.hs = hs]
  OBVIOUS
<1>5. EndOK(n) /\ Differs(m, n, {"hs"}) /\ n.hs = hs
  BY <1>1, <1>3, <1>4, MovedIs DEF Expected
<1>6. /\ Advances(c.rd, n.rd) /\ n.cr = c.cr /\ n.sr = c.sr /\ n.wr = c.wr /\ n.keys = c.keys
      /\ n.resumed = c.resumed /\ n.id = c.id /\ n.cipher = c.cipher
      /\ n.room = -1 /\ ~n.alert /\ Kept(c, n)
  BY <1>3, <1>5 DEF Differs, Fields, Kept
<1>7. Keys(hs, n, Phase(s), s, ToSet(x), ToSet(y))
  BY <1>1, <1>3, <1>5, <1>6, ClientReadsCertificate
<1>8. Fine(hs, n, Phase(s), s, ToSet(x), ToSet(y))
  <2>1. Steady(c, n)
    BY <1>1, <1>5 DEF Steady
  <2>2. Flows(n, s, ToSet(x), ToSet(y))
    BY <1>3, <1>6, <2>1, ClientHeeds
  <2> QED
    BY <1>1, <1>3, <1>5, <1>6, <1>7, <2>2 DEF Fine, Typed, ClientNamed
<1>9. Phase(n) = hs /\ Told(n)
  BY <1>5, <1>6 DEF Phase, Told
<1>10. Take(e, n)
  BY <1>0, <1>1, <1>4 DEF CertificateMessage
<1> QED
  BY <1>0, <1>2, <1>3, <1>6, <1>8, <1>9, <1>10, ClientTakes

LEMMA ClientHelloDoneStep ==
    ASSUME NEW c, NEW s, NEW x, NEW y, View(c, s, x, y), ServerHelloDoneMessage
    PROVE  Onward
<1>0. PICK e : e = "c"
  OBVIOUS
<1>1. PICK msg, r, m, hs :
         msg = "ServerHelloDone" /\ r = HeadOf(e) /\ m = Hashed(e) /\ hs = "Finished"
  OBVIOUS
<1>2. Message(e, msg) /\ Rest'
  BY <1>0, <1>1 DEF ServerHelloDoneMessage, Message, Receives, View, Rest
<1>3. /\ Reads(e) /\ r \in ToSet(x) /\ IsMsg(r, msg)
      /\ r.keys = c.rd.keys /\ r.seq = c.rd.seq
      /\ c.hs = msg /\ c.room = -1 /\ ~c.alert /\ ClientNamed(c)
      /\ Fine(c.hs, c, Phase(s), s, ToSet(x), ToSet(y))
      /\ EndOK(m) /\ Differs(c, m, {"rd", "log"}) /\ Advances(c.rd, m.rd) /\ Kept(c, m)
  BY <1>0, <1>1, <1>2, ClientHears
<1>4. PICK n : n = [m EXCEPT !.hs = hs]
  OBVIOUS
<1>5. EndOK(n) /\ Differs(m, n, {"hs"}) /\ n.hs = hs
  BY <1>1, <1>3, <1>4, MovedIs DEF Expected
<1>6. /\ Advances(c.rd, n.rd) /\ n.cr = c.cr /\ n.sr = c.sr /\ n.wr = c.wr /\ n.keys = c.keys
      /\ n.resumed = c.resumed /\ n.id = c.id /\ n.cipher = c.cipher
      /\ n.room = -1 /\ ~n.alert /\ Kept(c, n)
  BY <1>3, <1>5 DEF Differs, Fields, Kept
<1>7. Keys("switching", n, Phase(s), s, ToSet(x), ToSet(y))
  BY <1>1, <1>3, <1>5, <1>6, ClientReadsHelloDone
<1>8. Fine("switching", n, Phase(s), s, ToSet(x), ToSet(y))
  <2>0. c.wr.keys.cr # c.cr
    BY <1>1, <1>3, ClientOrder DEF Fine, Keys, ClientKeys, Waiting, Numeric
  <2>1. Steady(c, n)
    BY <1>6, <2>0 DEF Steady
  <2>2. Flows(n, s, ToSet(x), ToSet(y))
    BY <1>3, <1>6, <2>1, ClientHeeds
  <2> QED
    BY <1>1, <1>3, <1>5, <1>6, <1>7, <2>2 DEF Fine, Typed, ClientNamed
<1>9. Pending(n) = "switching"
  BY <1>1, <1>5, <1>6 DEF Pending
<1>10. Reply(e, n)
  BY <1>0, <1>1, <1>4 DEF ServerHelloDoneMessage
<1> QED
  BY <1>0, <1>2, <1>3, <1>6, <1>8, <1>9, <1>10, ClientReplies

LEMMA ClientRequestStep ==
    ASSUME NEW c, NEW s, NEW x, NEW y, View(c, s, x, y), HelloRequestMessage
    PROVE  Onward
<1>0. PICK e : e = "c"
  OBVIOUS
<1>1. PICK msg, r, m, hs :
         msg = "HelloRequest" /\ r = HeadOf(e) /\ m = Hashed(e) /\ hs = "HelloRequest"
  OBVIOUS
<1>2. Message(e, msg) /\ Rest'
  BY <1>0, <1>1 DEF HelloRequestMessage, Message, Receives, View, Rest
<1>3. /\ Reads(e) /\ r \in ToSet(x) /\ IsMsg(r, msg)
      /\ r.keys = c.rd.keys /\ r.seq = c.rd.seq
      /\ c.room = -1 /\ ~c.alert /\ ClientNamed(c)
      /\ c.hs = msg \/ c.hs = "DONE"
      /\ Fine(c.hs, c, Phase(s), s, ToSet(x), ToSet(y))
      /\ EndOK(m) /\ Differs(c, m, {"rd", "log"}) /\ Advances(c.rd, m.rd) /\ Kept(c, m)
  BY <1>0, <1>1, <1>2, ClientHears
<1>4. c.hs = "DONE"
  BY <1>1, <1>3 DEF Fine, Keys, ClientKeys, Waiting, ClientDone
<1>5. PICK n : n = [m EXCEPT !.hs = hs]
  OBVIOUS
<1>6. EndOK(n) /\ Differs(m, n, {"hs"}) /\ n.hs = hs
  BY <1>1, <1>3, <1>5, MovedIs DEF Expected
<1>7. /\ Advances(c.rd, n.rd) /\ n.cr = c.cr /\ n.sr = c.sr /\ n.wr = c.wr /\ n.keys = c.keys
      /\ n.resumed = c.resumed /\ n.id = c.id /\ n.cipher = c.cipher
      /\ n.room = -1 /\ ~n.alert /\ Kept(c, n)
  BY <1>3, <1>6 DEF Differs, Fields, Kept
<1>8. Keys("asked", n, Phase(s), s, ToSet(x), ToSet(y))
  BY <1>1, <1>3, <1>4, <1>6, <1>7, ClientReadsHelloRequest
<1>9. Fine("asked", n, Phase(s), s, ToSet(x), ToSet(y))
  <2>1. Steady(c, n)
    BY <1>1, <1>6 DEF Steady
  <2>2. Flows(n, s, ToSet(x), ToSet(y))
    BY <1>3, <1>7, <2>1, ClientHeeds
  <2> QED
    BY <1>1, <1>3, <1>6, <1>7, <1>8, <2>2 DEF Fine, Typed, ClientNamed
<1>10. Pending(n) = "asked"
  BY <1>1, <1>6, <1>7 DEF Pending
<1>11. Reply(e, n)
  BY <1>0, <1>1, <1>5 DEF HelloRequestMessage
<1> QED
  BY <1>0, <1>2, <1>3, <1>7, <1>9, <1>10, <1>11, ClientReplies

\* The client's end once it has the server's random and id.
LEMMA WithServerIdIs ==
    ASSUME NEW k, EndOK(k), NEW id \in Nat, NEW random \in Nat,
           NEW n, n = WithServerId([k EXCEPT !.sr = random], id)
    PROVE  /\ EndOK(n) /\ Differs(k, n, {"sr", "resumed", "id", "ms"})
           /\ n.sr = random /\ n.id = id
           /\ n.resumed => (id # 0 /\ id = k.id) \/ (k.resumed /\ k.id = 0)
<1>1. PICK m : m = [k EXCEPT !.sr = random]
  OBVIOUS
<1>2. EndOK(m) /\ Differs(k, m, {"sr"}) /\ m.sr = random
  <2>1. Differs(k, m, {"sr"}) /\ m.sr = random
    BY <1>1 DEF EndOK, Differs, IsEnd, Fields
  <2> QED
    BY <2>1 DEF EndOK, Differs, Fields
<1>3. m.id = k.id /\ m.resumed = k.resumed /\ NoSecret \in Secrets
  BY <1>2 DEF Differs, Fields, NoSecret, Secrets
<1>4. PICK b \in BOOLEAN, ms \in Secrets :
         /\ n = [m EXCEPT !.resumed = b, !.id = id, !.ms = ms]
         /\ b => (id # 0 /\ id = k.id) \/ (k.resumed /\ k.id = 0)
  <2>1. CASE id # 0 /\ id = k.id
    <3>1. PICK b \in BOOLEAN : b
      OBVIOUS
    <3>2. WithServerId(m, id) = [m EXCEPT !.resumed = b]
      BY <1>3, <2>1, <3>1 DEF WithServerId
    <3>3. [m EXCEPT !.resumed = b] = [m EXCEPT !.resumed = b, !.id = id, !.ms = m.ms]
      BY <1>2, <1>3, <2>1 DEF EndOK, IsEnd, Fields
    <3>4. m.ms \in Secrets
      BY <1>2 DEF EndOK
    <3> QED
      BY <1>1, <2>1, <3>2, <3>3, <3>4
  <2>2. CASE ~(id # 0 /\ id = k.id)
    <3>1. PICK b \in BOOLEAN : b = (m.resumed /\ m.id = 0)
      OBVIOUS
    <3>2. PICK ms \in Secrets : ms = IF m.id = 0 THEN m.ms ELSE NoSecret
      BY <1>2, <1>3 DEF EndOK
    <3>3. WithServerId(m, id) = [m EXCEPT !.resumed = b, !.id = id, !.ms = ms]
      BY <1>3, <2>2, <3>1, <3>2 DEF WithServerId
    <3> QED
      BY <1>1, <1>3, <3>1, <3>3
  <2> QED
    BY <2>1, <2>2
<1>5. Differs(m, n, {"resumed", "id", "ms"}) /\ n.resumed = b /\ n.id = id /\ n.ms = ms
  BY <1>2, <1>4 DEF EndOK, Differs, IsEnd, Fields
<1>6. EndOK(n) /\ n.sr = m.sr
  BY <1>2, <1>5 DEF EndOK, Differs, Fields
<1>7. Differs(k, n, {"sr", "resumed", "id", "ms"})
  BY <1>2, <1>5 DEF Differs, Fields
<1> QED
  BY <1>2, <1>4, <1>5, <1>6, <1>7

\* An end that has derived its keys, and what it expects next.
Deriving(k, premaster, hs) == [Derived(k, premaster) EXCEPT !.hs = hs]

LEMMA DerivingIs ==
    ASSUME NEW k, EndOK(k), k.cipher \in Names,
           NEW premaster \in Nat, NEW hs \in Expected, NEW n, n = Deriving(k, premaster, hs)
    PROVE  /\ EndOK(n) /\ Differs(k, n, {"ms", "keys", "hs"}) /\ n.hs = hs
           /\ n.keys.cr = k.cr /\ n.keys.sr = k.sr
<1>1. PICK m : m = Derived(k, premaster)
  OBVIOUS
<1>2. Differs(k, m, {"ms", "keys"}) /\ Derives(k, m, premaster)
  BY <1>1, DerivedIs DEF EndOK
<1>3. m.ms \in Secrets /\ m.keys \in KeyBlocks /\ m.keys.cr = k.cr /\ m.keys.sr = k.sr
  BY <1>2, DerivesKeys DEF EndOK
<1>4. EndOK(m)
  BY <1>2, <1>3 DEF EndOK, Differs, Fields
<1>5. n = [m EXCEPT !.hs = hs]
  BY <1>1 DEF Deriving
<1>6. EndOK(n) /\ Differs(m, n, {"hs"}) /\ n.hs = hs
  BY <1>4, <1>5, MovedIs
<1>7. Differs(k, n, {"ms", "keys", "hs"}) /\ n.keys = m.keys
  BY <1>2, <1>6 DEF Differs, Fields
<1> QED
  BY <1>3, <1>6, <1>7

LEMMA AlertedIs ==
    ASSUME NEW k, EndOK(k), NEW n, n = [k EXCEPT !.alert = TRUE]
    PROVE  EndOK(n) /\ Differs(k, n, {"alert"}) /\ n.alert
<1>1. PICK b \in BOOLEAN : b
  OBVIOUS
<1>2. n = [k EXCEPT !.alert = b]
  BY <1>1
<1>3. Differs(k, n, {"alert"}) /\ n.alert = b
  BY <1>2 DEF EndOK, Differs, IsEnd, Fields
<1> QED
  BY <1>1, <1>3 DEF EndOK, Differs, Fields

\* ServerHello of a new session: the server's choice of cipher.
Chosen(k, cipher, hs) == [k EXCEPT !.cipher = cipher, !.hs = hs]

LEMMA ChosenIs ==
    ASSUME NEW k, EndOK(k), NEW cipher, NEW hs \in Expected,
           NEW n, n = Chosen(k, cipher, hs)
    PROVE  EndOK(n) /\ Differs(k, n, {"cipher", "hs"}) /\ n.cipher = cipher /\ n.hs = hs
<1>1. Differs(k, n, {"cipher", "hs"}) /\ n.cipher = cipher /\ n.hs = hs
  BY DEF Chosen, EndOK, Differs, IsEnd, Fields
<1> QED
  BY <1>1 DEF EndOK, Differs, Fields

LEMMA ServerHelloStep ==
    ASSUME NEW c, NEW s, NEW x, NEW y, View(c, s, x, y), ServerHelloMessage
    PROVE  Onward
<1>0. PICK e : e = "c"
  OBVIOUS
<1>1. PICK msg, r, m : msg = "ServerHello" /\ r = HeadOf(e) /\ m = Hashed(e)
  OBVIOUS
<1>2. Message(e, msg) /\ Rest'
  BY <1>0, <1>1 DEF ServerHelloMessage, Message, Receives, View, Rest
<1>3. /\ Reads(e) /\ r \in ToSet(x) /\ RecordOK(r) /\ IsMsg(r, msg)
      /\ r.keys = c.rd.keys /\ r.seq = c.rd.seq
      /\ c.hs = msg /\ c.room = -1 /\ ~c.alert /\ EndOK(c) /\ ClientNamed(c)
      /\ Fine(c.hs, c, Phase(s), s, ToSet(x), ToSet(y))
      /\ EndOK(m) /\ Differs(c, m, {"rd", "log"}) /\ Advances(c.rd, m.rd) /\ Kept(c, m)
  BY <1>0, <1>1, <1>2, ClientHears
<1>4. PICK id \in Nat, random \in Nat, cipher \in Names :
         id = r.body.id /\ random = r.body.random /\ cipher = r.body.cipher
  BY <1>1, <1>3 DEF RecordOK
<1>5. PICK k : k = WithServerId([m EXCEPT !.sr = random], id)
  OBVIOUS
<1>6. /\ EndOK(k) /\ Differs(m, k, {"sr", "resumed", "id", "ms"})
      /\ k.sr = random /\ k.id = id
      /\ k.resumed => (id # 0 /\ id = m.id) \/ (m.resumed /\ m.id = 0)
  BY <1>3, <1>5, WithServerIdIs
<1>7. /\ Advances(c.rd, k.rd) /\ k.cr = c.cr /\ k.wr = c.wr /\ k.keys = c.keys
      /\ m.id = c.id /\ m.resumed = c.resumed /\ k.cipher = c.cipher
      /\ k.hs = c.hs /\ k.room = -1 /\ ~k.alert /\ Kept(c, k)
  BY <1>3, <1>6 DEF Differs, Fields, Kept
<1>8. k.resumed => id # 0 /\ id = c.id /\ k.cipher \in Names
  BY <1>1, <1>3, <1>6, <1>7 DEF ClientNamed
<1>9. IF k.resumed
      THEN IF k.cipher = cipher
           THEN Take(e, [Derived(k, 0) EXCEPT !.hs = "Finished"])
           ELSE Reply(e, [k EXCEPT !.alert = TRUE])
      ELSE Take(e, [k EXCEPT !.cipher = cipher, !.hs = "Certificate"])
  BY <1>0, <1>1, <1>4, <1>5 DEF ServerHelloMessage
<1>10. CASE k.resumed /\ k.cipher = cipher
  <2>1. PICK hs \in Expected : hs = "Finished"
    BY DEF Expected
  <2>2. PICK zero, n : zero \in Nat /\ zero = 0 /\ n = Deriving(k, zero, hs)
    OBVIOUS
  <2>3. /\ EndOK(n) /\ Differs(k, n, {"ms", "keys", "hs"}) /\ n.hs = hs
        /\ n.keys.cr = k.cr /\ n.keys.sr = k.sr
    BY <1>6, <1>8, <1>10, <2>2, DerivingIs
  <2>4. /\ Advances(c.rd, n.rd) /\ n.cr = c.cr /\ n.wr = c.wr /\ n.resumed = k.resumed
        /\ n.id = id /\ n.cipher = k.cipher /\ n.room = -1 /\ ~n.alert /\ Kept(c, n)
    BY <1>6, <1>7, <2>3 DEF Differs, Fields, Kept
  <2>5. Keys("Finished", n, Phase(s), s, ToSet(x), ToSet(y))
    BY <1>1, <1>3, <1>4, <1>6, <1>7, <1>10, <2>3, <2>4, ClientReadsHelloResumed
  <2>6. Fine("Finished", n, Phase(s), s, ToSet(x), ToSet(y))
    <3>1. c.wr.keys.cr # c.cr
      <4>1. s.cr > 0
        BY <1>1, <1>3 DEF Fine, Keys, ToClient
      <4>2. c.cr > 0
        BY <1>3, <4>1, ClientOrder DEF Numeric
      <4> QED
        BY <1>1, <1>3, <4>2, ClientOrder DEF Fine, Keys, ClientKeys, Waiting, Numeric
    <3>2. Steady(c, n)
      BY <2>4, <3>1 DEF Steady
    <3>3. Flows(n, s, ToSet(x), ToSet(y))
      BY <1>3, <2>4, <3>2, ClientHeeds
    <3> QED
      BY <1>3, <1>8, <1>10, <2>1, <2>3, <2>4, <2>5, <3>3 DEF Fine, Typed, ClientNamed
  <2>7. Phase(n) = "Finished" /\ Told(n)
    BY <2>1, <2>3, <2>4 DEF Phase, Told
  <2>8. Take(e, n)
    BY <1>9, <1>10, <2>1, <2>2 DEF Deriving
  <2> QED
    BY <1>0, <1>2, <1>3, <2>4, <2>6, <2>7, <2>8, ClientTakes
<1>11. CASE k.resumed /\ k.cipher # cipher
  <2>1. PICK n : n = [k EXCEPT !.alert = TRUE]
    OBVIOUS
  <2>2. EndOK(n) /\ Differs(k, n, {"alert"}) /\ n.alert
    BY <1>6, <2>1, AlertedIs
  <2>3. /\ Advances(c.rd, n.rd) /\ n.cr = c.cr /\ n.wr = c.wr /\ n.keys = c.keys
        /\ n.id = id /\ n.cipher = k.cipher /\ n.hs = c.hs /\ Kept(c, n)
    BY <1>6, <1>7, <2>2 DEF Differs, Fields, Kept
  <2>4. Keys(c.hs, n, Phase(s), s, ToSet(x), ToSet(y))
    BY <1>1, <1>3, <2>2, <2>3, ClientReads DEF IsMsg
  <2>5. Fine(c.hs, n, Phase(s), s, ToSet(x), ToSet(y))
    <3>1. Steady(c, n)
      BY <2>3 DEF Steady
    <3>2. Flows(n, s, ToSet(x), ToSet(y))
      BY <1>3, <2>3, <3>1, ClientHeeds
    <3> QED
      BY <1>3, <1>8, <1>11, <2>2, <2>3, <2>4, <3>2 DEF Fine, Typed, ClientNamed
  <2>6. Pending(n) = c.hs
    BY <2>2, <2>3 DEF Pending
  <2>7. Reply(e, n)
    BY <1>9, <1>11, <2>1
  <2> QED
    BY <1>0, <1>2, <1>3, <2>3, <2>5, <2>6, <2>7, ClientReplies
<1>12. CASE ~k.resumed
  <2>1. PICK hs \in Expected : hs = "Certificate"
    BY DEF Expected
  <2>2. PICK n : n = Chosen(k, cipher, hs)
    OBVIOUS
  <2>3. EndOK(n) /\ Differs(k, n, {"cipher", "hs"}) /\ n.cipher = cipher /\ n.hs = hs
    BY <1>6, <2>2, ChosenIs
  <2>4. /\ Advances(c.rd, n.rd) /\ n.cr = c.cr /\ n.wr = c.wr /\ n.keys = c.keys
        /\ n.resumed = k.resumed /\ n.sr = random /\ n.room = -1 /\ ~n.alert /\ Kept(c, n)
    BY <1>6, <1>7, <2>3 DEF Differs, Fields, Kept
  <2>5. Keys("Certificate", n, Phase(s), s, ToSet(x), ToSet(y))
    BY <1>1, <1>3, <1>4, <1>12, <2>3, <2>4, ClientReadsHello
  <2>6. Fine("Certificate", n, Phase(s), s, ToSet(x), ToSet(y))
    <3>1. Steady(c, n)
      BY <2>1, <2>3 DEF Steady
    <3>2. Flows(n, s, ToSet(x), ToSet(y))
      BY <1>3, <2>4, <3>1, ClientHeeds
    <3> QED
      BY <1>3, <1>4, <2>1, <2>3, <2>4, <2>5, <3>2 DEF Fine, Typed, ClientNamed
  <2>7. Phase(n) = "Certificate" /\ Told(n)
    BY <2>1, <2>3, <2>4 DEF Phase, Told
  <2>8. Take(e, n)
    BY <1>9, <1>12, <2>1, <2>2 DEF Chosen
  <2> QED
    BY <1>0, <1>2, <1>3, <2>4, <2>6, <2>7, <2>8, ClientTakes
<1> QED
  BY <1>10, <1>11, <1>12

\* A record that is refused: an alert, or the end of a connection that has no
\* keys yet.
LEMMA ClientRefuses ==
    ASSUME NEW c, NEW s, NEW x, NEW y, View(c, s, x, y), NEW e, e = "c", Refuse(e)
    PROVE  Onward
<1>1. Reads(e) /\ Usable(e)
  BY DEF Refuse, Reads
<1>2. /\ end[e] = c /\ c.room = -1 /\ ~c.alert /\ EndOK(c) /\ ClientNamed(c)
      /\ Fine(c.hs, c, Phase(s), s, ToSet(x), ToSet(y))
  BY <1>1, UsableClient
<1>3. Rest'
  <2>1. Excuse(e, end[e], HeadOf(e)) \subseteq Excuses
    BY DEF Excuse, Excuses
  <2> QED
    BY <2>1 DEF Refuse, View, Rest
<1>4. PICK n, m : n = [c EXCEPT !.error = TRUE] /\ m = [c EXCEPT !.alert = TRUE]
  OBVIOUS
<1>5. Take(e, n) \/ Reply(e, m)
  BY <1>2, <1>4 DEF Refuse
<1>6. CASE Take(e, n)
  <2>1. Differs(c, n, {"error"}) /\ n.error \in BOOLEAN
    BY <1>2, <1>4 DEF EndOK, Differs, IsEnd, Fields
  <2>2. EndOK(n)
    BY <1>2, <2>1 DEF EndOK, Differs, Fields
  <2>3. /\ n.rd = c.rd /\ n.cr = c.cr /\ n.sr = c.sr /\ n.keys = c.keys /\ n.wr = c.wr
        /\ n.resumed = c.resumed /\ n.hs = c.hs /\ n.id = c.id /\ n.cipher = c.cipher
        /\ n.room = -1 /\ ~n.alert /\ Kept(c, n)
    BY <1>2, <2>1 DEF Differs, Fields, Kept
  <2>4. Keys(c.hs, n, Phase(s), s, ToSet(x), ToSet(y))
    BY <1>2, <2>2, <2>3, ClientKeeps
  <2>5. Fine(c.hs, n, Phase(s), s, ToSet(x), ToSet(y))
    <3>1. Flows(n, s, ToSet(x), ToSet(y))
      BY <1>2, <2>3, ClientRests
    <3> QED
      BY <1>2, <2>2, <2>3, <2>4, <3>1 DEF Fine, Typed, ClientNamed
  <2>6. Phase(n) = c.hs /\ Told(n)
    BY <2>3 DEF Phase, Told
  <2> QED
    BY <1>1, <1>3, <1>6, <2>3, <2>5, <2>6, ClientTakes
<1>7. CASE Reply(e, m)
  <2>1. EndOK(m) /\ Differs(c, m, {"alert"}) /\ m.alert
    BY <1>2, <1>4, AlertedIs
  <2>2. /\ m.rd = c.rd /\ m.cr = c.cr /\ m.sr = c.sr /\ m.keys = c.keys /\ m.wr = c.wr
        /\ m.resumed = c.resumed /\ m.hs = c.hs /\ m.id = c.id /\ m.cipher = c.cipher
        /\ Kept(c, m)
    BY <2>1 DEF Differs, Fields, Kept
  <2>3. Keys(c.hs, m, Phase(s), s, ToSet(x), ToSet(y))
    BY <1>2, <2>1, <2>2, ClientKeeps
  <2>4. Fine(c.hs, m, Phase(s), s, ToSet(x), ToSet(y))
    <3>1. Flows(m, s, ToSet(x), ToSet(y))
      BY <1>2, <2>2, ClientRests
    <3> QED
      BY <1>2, <2>1, <2>2, <2>3, <3>1 DEF Fine, Typed, ClientNamed
  <2>5. Pending(m) = c.hs
    BY <2>1, <2>2 DEF Pending
  <2> QED
    BY <1>1, <1>3, <1>7, <2>2, <2>4, <2>5, ClientReplies
<1> QED
  BY <1>5, <1>6, <1>7

LEMMA CutShortIs == CutShort \subseteq {"cut"}
<1>1. CutShort = {"cut"} \/ CutShort = {}
  BY Zenon DEF CutShort
<1> QED
  BY <1>1

LEMMA RetryRest == ASSUME Rest, NEW e, Retry(e) PROVE Rest'
<1>1. excuses' = excuses \cup CutShort
  BY Zenon DEF Retry
<1>2. sessions' = sessions /\ requests' = requests /\ faults' = faults
  BY Zenon DEF Retry
<1> QED
  BY <1>1, <1>2, CutShortIs DEF Rest, Excuses

LEMMA ClientRetries ==
    ASSUME NEW c, NEW s, NEW x, NEW y, View(c, s, x, y), NEW e, e = "c", Retry(e)
    PROVE  Onward
<1>1. end[e] = c
  BY DEF View, Pair
<1>2. PICK rooms : rooms = {f \in Free : f > end[e].room}
  OBVIOUS
<1>3. PICK a \in Answers(e, c, rooms) :
         end' = [end EXCEPT ![e] = a.end] /\ wire' = [wire EXCEPT ![Other(e)] = @ \o a.out]
  <2>1. \E a \in Answers(e, end[e], rooms) :
           /\ end' = [end EXCEPT ![e] = a.end]
           /\ wire' = [wire EXCEPT ![Other(e)] = @ \o a.out]
    BY <1>2 DEF Retry
  <2> QED
    BY <1>1, <2>1
<1>4. rooms \subseteq Free
  BY <1>2
<1>5. Fine(Pending(c), c, Phase(s), s, ToSet(x), ToSet(y)) /\ Listed(x) /\ Listed(y)
  BY <1>1 DEF Retry, View, Phase
<1>6. PICK out : out = a.out
  OBVIOUS
<1>7. /\ Listed(out) /\ Told(a.end) /\ Kept(c, a.end)
      /\ Fine(Phase(a.end), a.end, Phase(s), s, ToSet(x), ToSet(y) \cup ToSet(out))
  BY <1>4, <1>5, <1>6, ClientAnswers DEF ClientAnswered
<1>8. Listed(y \o out) /\ ToSet(y \o out) \subseteq ToSet(y) \cup ToSet(out)
  BY <1>5, <1>7, ConcatRecords
<1>9. Fine(Phase(a.end), a.end, Phase(s), s, ToSet(x), ToSet(y \o out))
  BY <1>7, <1>8, Fewer
<1>10. Pair(end', a.end, s) /\ Pair(wire', x, y \o out) /\ Rest'
  <2>1. Pair(end', a.end, s) /\ Pair(wire', x, y \o out)
    BY <1>3, <1>6 DEF View, Pair, Ends, Other
  <2> QED
    BY <2>1, RetryRest DEF View
<1>11. View(a.end, s, x, y \o out)'
  BY <1>5, <1>7, <1>8, <1>9, <1>10 DEF View
<1> QED
  BY <1>7, <1>11, KeptConveys, Established

\* What the application has sent.
Emits(type, body) ==
    \/ type = "data" /\ body \in Nat
    \/ type = "alert"
    \/ type = "hs" /\ body.msg = "HelloRequest"
Emitted(k) == [k EXCEPT !.wr = Counted(@)]

LEMMA EmittedIs ==
    ASSUME NEW k, EndOK(k), NEW type, NEW body, Emits(type, body),
           NEW n, n = Emitted(k), NEW w, w = Record(k.wr, type, body)
    PROVE  /\ EndOK(n) /\ Differs(k, n, {"wr"}) /\ Advances(k.wr, n.wr)
           /\ RecordOK(w) /\ w.keys = k.wr.keys /\ w.seq = k.wr.seq
           /\ w.type # "ccs" /\ ~IsMsg(w, "Finished")
           /\ ~IsMsg(w, "ClientHello") /\ ~IsMsg(w, "ServerHello")
<1>1. Counted(k.wr) \in States /\ Advances(k.wr, Counted(k.wr))
  BY CountedIs DEF EndOK
<1>2. Differs(k, n, {"wr"}) /\ n.wr = Counted(k.wr)
  BY DEF Emitted, EndOK, Differs, IsEnd, Fields
<1>3. EndOK(n) /\ Advances(k.wr, n.wr)
  BY <1>1, <1>2 DEF EndOK, Differs, Fields
<1>4. w.type = type /\ w.keys = k.wr.keys /\ w.seq = k.wr.seq /\ w.body = body
  BY DEF Record
<1>5. w.keys \in KeyBlocks /\ w.seq \in Nat
  BY <1>4 DEF EndOK, States
<1>6. /\ w.type # "ccs" /\ ~IsMsg(w, "Finished") /\ ~IsMsg(w, "ClientHello")
      /\ ~IsMsg(w, "ServerHello") /\ ~IsMsg(w, "ClientKeyExchange")
  BY <1>4 DEF IsMsg, Emits
<1> QED
  BY <1>2, <1>3, <1>4, <1>5, <1>6 DEF RecordOK, Emits

LEMMA ClientEmits ==
    ASSUME NEW c, NEW s, NEW x, NEW y, View(c, s, x, y), NEW e, e = "c", Usable(e), Rest',
           NEW k, EndOK(k), Differs(c, k, {"sent", "empty", "final"}),
           NEW type, NEW body, Emits(type, body), Emit(e, k, type, body),
           NEW w, w = Record(c.wr, type, body), Adds(c, k, w)
    PROVE  Onward
<1>1. /\ c.room = -1 /\ ~c.alert /\ EndOK(c) /\ ClientNamed(c)
      /\ Fine(c.hs, c, Phase(s), s, ToSet(x), ToSet(y))
  BY UsableClient
<1>2. PICK n : n = Emitted(k) /\ w = Record(k.wr, type, body)
  BY DEF Differs, Fields
<1>3. /\ EndOK(n) /\ Differs(k, n, {"wr"}) /\ Advances(k.wr, n.wr)
      /\ RecordOK(w) /\ w.keys = k.wr.keys /\ w.seq = k.wr.seq
      /\ w.type # "ccs" /\ ~IsMsg(w, "Finished") /\ ~IsMsg(w, "ClientHello")
  BY <1>2, EmittedIs
<1>4. /\ Advances(c.wr, n.wr) /\ n.cr = c.cr /\ n.sr = c.sr /\ n.keys = c.keys
      /\ n.rd = c.rd /\ n.resumed = c.resumed /\ k.wr = c.wr /\ n.hs = c.hs
      /\ n.id = c.id /\ n.cipher = c.cipher /\ n.room = -1 /\ ~n.alert
  BY <1>1, <1>3 DEF Differs, Fields
<1>5. c.hs # "finishing"
  BY <1>1 DEF EndOK, Expected
<1>6. /\ Adds(c, n, w) /\ Steady(c, n) /\ Conveys(c, n, s)
      /\ n.got = c.got /\ n.closed = c.closed
  <2>1. /\ n.sent = k.sent /\ n.final = k.final /\ n.hs = k.hs
        /\ n.got = c.got /\ n.closed = c.closed
    BY <1>3 DEF Differs, Fields
  <2>2. Steady(c, n)
    BY <1>4 DEF Steady, Advances
  <2> QED
    BY <2>1, <2>2 DEF Adds, Conveys
<1>7. Keys(c.hs, n, Phase(s), s, ToSet(x), ToSet(y) \cup {w})
  BY <1>1, <1>3, <1>4, <1>5, ClientWrites
<1>8. Fine(c.hs, n, Phase(s), s, ToSet(x), ToSet(y) \cup {w})
  <2>1. Flows(n, s, ToSet(x), ToSet(y) \cup {w})
    <3>1. Flows(c, s, ToSet(x), ToSet(y)) /\ Way(c, s, ToSet(y))
      BY <1>1, WaysAre DEF Fine
    <3> QED
      BY <1>3, <1>4, <1>6, <3>1, EndWrites
  <2> QED
    BY <1>1, <1>3, <1>4, <1>7, <2>1 DEF Fine, Typed, ClientNamed
<1>9. PICK v : v = Append(y, w)
  OBVIOUS
<1>10. Listed(x) /\ Listed(v) /\ ToSet(v) \subseteq ToSet(y) \cup {w}
  BY <1>9, AppendRecords DEF View
<1>11. Fine(Phase(n), n, Phase(s), s, ToSet(x), ToSet(v))
  <2>1. Phase(n) = c.hs
    BY <1>4 DEF Phase
  <2> QED
    BY <1>8, <1>10, <2>1, Fewer
<1>12. Pair(end', n, s) /\ Pair(wire', x, v)
  BY <1>2, <1>9 DEF View, Pair, Ends, Other, Emit, Emitted
<1>13. View(n, s, x, v)'
  BY <1>4, <1>10, <1>11, <1>12 DEF View, Told
<1> QED
  BY <1>6, <1>13, Established

\* The next record of data, an empty one, or the closure.
Sends(k, n, type, body) ==
    \/ n = [k EXCEPT !.sent = @ + 1] /\ k.hs = "DONE" /\ type = "data" /\ body = k.sent + 1
    \/ n = [k EXCEPT !.empty = @ + 1] /\ k.hs = "DONE" /\ type = "data" /\ body = 0
    \/ n = [k EXCEPT !.final = k.sent] /\ k.final = -1 /\ type = "alert" /\ body.msg = "Closure"

LEMMA SentIs ==
    ASSUME NEW k, EndOK(k), k.hs = "DONE" => Secure(k.wr),
           NEW n, NEW type, NEW body, Sends(k, n, type, body),
           NEW w, w = Record(k.wr, type, body)
    PROVE  /\ EndOK(n) /\ Differs(k, n, {"sent", "empty", "final"})
           /\ Emits(type, body) /\ Adds(k, n, w)
<1>1. k.sent \in Nat /\ k.empty \in Nat /\ k.final \in -1 .. k.sent
  BY DEF EndOK
<1>2. w.type = type /\ w.body = body
  BY DEF Record
<1>3. /\ Differs(k, n, {"sent", "empty", "final"})
      /\ n.sent \in Nat /\ n.empty \in Nat /\ n.final \in -1 .. n.sent
      /\ Emits(type, body) /\ Adds(k, n, w)
  <2>1. CASE /\ n = [k EXCEPT !.sent = @ + 1] /\ k.hs = "DONE"
             /\ type = "data" /\ body = k.sent + 1
    <3>1. Differs(k, n, {"sent", "empty", "final"}) /\ n.sent = k.sent + 1
          /\ n.empty = k.empty /\ n.final = k.final /\ n.hs = k.hs
      BY <2>1 DEF EndOK, Differs, IsEnd, Fields
    <3>2. Gives(w) /\ ~Closes(w) /\ w.body = k.sent + 1 /\ Emits(type, body)
      BY <1>1, <1>2, <2>1 DEF Gives, Closes, Emits
    <3> QED
      BY <1>1, <2>1, <3>1, <3>2 DEF Adds
  <2>2. CASE n = [k EXCEPT !.empty = @ + 1] /\ type = "data" /\ body = 0
    <3>1. Differs(k, n, {"sent", "empty", "final"}) /\ n.sent = k.sent
          /\ n.empty = k.empty + 1 /\ n.final = k.final
      BY <2>2 DEF EndOK, Differs, IsEnd, Fields
    <3>2. ~Gives(w) /\ ~Closes(w) /\ Emits(type, body)
      BY <1>2, <2>2 DEF Gives, Closes, Emits
    <3> QED
      BY <1>1, <3>1, <3>2 DEF Adds
  <2>3. CASE /\ n = [k EXCEPT !.final = k.sent] /\ k.final = -1
             /\ type = "alert" /\ body.msg = "Closure"
    <3>1. Differs(k, n, {"sent", "empty", "final"}) /\ n.sent = k.sent
          /\ n.empty = k.empty /\ n.final = k.sent
      BY <2>3 DEF EndOK, Differs, IsEnd, Fields
    <3>2. ~Gives(w) /\ Closes(w) /\ Emits(type, body)
      BY <1>2, <2>3 DEF Gives, Closes, Emits
    <3> QED
      BY <1>1, <2>3, <3>1, <3>2 DEF Adds
  <2> QED
    BY <2>1, <2>2, <2>3 DEF Sends
<1> QED
  BY <1>3 DEF EndOK, Differs, Fields

LEMMA ClientSends ==
    ASSUME NEW c, NEW s, NEW x, NEW y, View(c, s, x, y), NEW e, e = "c",
           SendData(e) \/ SendEmpty(e) \/ SendClosure(e)
    PROVE  Onward
<1>1. Usable(e) /\ Rest'
  BY DEF SendData, SendEmpty, SendClosure, View, Rest
<1>2. /\ end[e] = c /\ EndOK(c)
      /\ c.hs = "DONE" => Secure(c.wr)
  <2>1. end[e] = c /\ EndOK(c) /\ Fine(c.hs, c, Phase(s), s, ToSet(x), ToSet(y))
    BY <1>1, UsableClient
  <2>2. c.hs = "DONE" => Secure(c.wr)
    BY <2>1 DEF Fine, Keys, ClientKeys, ClientDone, DoneKeys, Secure
  <2> QED
    BY <2>1, <2>2
<1>3. PICK k, type, body : Emit(e, k, type, body) /\ Sends(c, k, type, body)
  <2>1. CASE SendData(e)
    <3>1. PICK k, type, body :
             k = [c EXCEPT !.sent = @ + 1] /\ type = "data" /\ body = c.sent + 1
      OBVIOUS
    <3> QED
      BY <1>2, <2>1, <3>1 DEF SendData, Sends
  <2>2. CASE SendEmpty(e)
    <3>1. PICK k, type, body :
             k = [c EXCEPT !.empty = @ + 1] /\ type = "data" /\ body = 0
      OBVIOUS
    <3> QED
      BY <1>2, <2>2, <3>1 DEF SendEmpty, Sends
  <2>3. CASE SendClosure(e)
    <3>1. PICK k, type, body :
             k = [c EXCEPT !.final = c.sent] /\ type = "alert" /\ body = [msg |-> "Closure"]
      OBVIOUS
    <3> QED
      BY <1>2, <2>3, <3>1 DEF SendClosure, Sends
  <2> QED
    BY <2>1, <2>2, <2>3
<1>4. PICK w : w = Record(c.wr, type, body)
  OBVIOUS
<1>5. /\ EndOK(k) /\ Differs(c, k, {"sent", "empty", "final"})
      /\ Emits(type, body) /\ Adds(c, k, w)
  BY <1>2, <1>3, <1>4, SentIs
<1> QED
  BY <1>1, <1>3, <1>4, <1>5, ClientEmits

LEMMA ClientDeletes ==
    ASSUME NEW c, NEW s, NEW x, NEW y, View(c, s, x, y), NEW e, e = "c", DeleteOption(e)
    PROVE  Onward
<1>1. Usable(e) /\ sessions' = sessions /\ wire' = wire /\ Rest'
  BY DEF DeleteOption, View, Rest
<1>2. /\ end[e] = c /\ c.room = -1 /\ ~c.alert /\ EndOK(c) /\ ClientNamed(c)
      /\ Fine(c.hs, c, Phase(s), s, ToSet(x), ToSet(y))
  BY <1>1, UsableClient
<1>3. PICK n : n = [c EXCEPT !.id = 0]
  OBVIOUS
<1>4. Differs(c, n, {"id"}) /\ n.id = 0
  BY <1>2, <1>3 DEF EndOK, Differs, IsEnd, Fields
<1>5. EndOK(n)
  BY <1>2, <1>4 DEF EndOK, Differs, Fields
<1>6. /\ n.rd = c.rd /\ n.cr = c.cr /\ n.sr = c.sr /\ n.keys = c.keys /\ n.wr = c.wr
      /\ n.resumed = c.resumed /\ n.hs = c.hs /\ n.cipher = c.cipher
      /\ n.room = -1 /\ ~n.alert /\ Kept(c, n)
  BY <1>2, <1>4 DEF Differs, Fields, Kept
<1>7. Keys(c.hs, n, Phase(s), s, ToSet(x), ToSet(y))
  BY <1>2, <1>5, <1>6, ClientKeeps
<1>8. c.hs = "DONE"
  BY <1>2 DEF DeleteOption
<1>9. ClientNamed(n)
  BY <1>2, <1>4, <1>6, <1>8 DEF ClientNamed
<1>10. Fine(Phase(n), n, Phase(s), s, ToSet(x), ToSet(y))
  <2>1. Phase(n) = c.hs
    BY <1>6 DEF Phase
  <2>2. Flows(n, s, ToSet(x), ToSet(y))
    BY <1>2, <1>6, ClientRests
  <2> QED
    BY <1>2, <1>5, <1>7, <1>9, <2>1, <2>2 DEF Fine, Typed
<1>11. end' = [end EXCEPT !["c"] = n]
  <2>1. end' = [end EXCEPT !["c"] = [c EXCEPT !.id = 0, !.resumed = c.resumed]]
    BY <1>2 DEF DeleteOption, View, Pair, Ends
  <2>2. [c EXCEPT !.id = 0, !.resumed = c.resumed] = n
    BY <1>2, <1>3 DEF EndOK, IsEnd, Fields
  <2> QED
    BY <2>1, <2>2
<1>12. Pair(end', n, s) /\ Pair(wire', x, y)
  BY <1>1, <1>11, PairIs DEF View
<1>13. View(n, s, x, y)'
  BY <1>1, <1>6, <1>10, <1>12 DEF View, Told
<1> QED
  BY <1>6, <1>13, KeptConveys, Established

\* ClientHello is far smaller than the buffer it is written to.
LEMMA HelloFits ==
    ASSUME NEW k, EndOK(k), NEW item, item = "ClientHello"
    PROVE  Size(k, item) \in Nat /\ Size(k, item) <= MaxPlaintext
<1>1. PICK n \in Nat : n <= 77 /\ ContentLen(k, item) = n
  <2>1. CASE k.id = 0
    BY <2>1 DEF ContentLen, HandshakeHead
  <2>2. CASE k.id # 0
    BY <2>2 DEF ContentLen, HandshakeHead, IdLen
  <2> QED
    BY <2>1, <2>2
<1>2. RecordSize(k.wr, n) \in Nat /\ RecordSize(k.wr, n) <= 33 + n
  BY RecordSizeIs DEF EndOK
<1> QED
  BY <1>1, <1>2 DEF Size, MaxPlaintext

\* The end that says hello: its cipher, unless it offers a session.
Offering(k, name) == IF k.id = 0 THEN [k EXCEPT !.cipher = name] ELSE k

LEMMA OfferingIs ==
    ASSUME NEW k, EndOK(k), ClientNamed(k), NEW name \in Names, NEW n, n = Offering(k, name)
    PROVE  EndOK(n) /\ Differs(k, n, {"cipher"}) /\ n.cipher \in Names /\ Kept(k, n)
<1>1. CASE k.id = 0
  <2>1. n = [k EXCEPT !.cipher = name]
    BY <1>1 DEF Offering
  <2>2. Differs(k, n, {"cipher"}) /\ n.cipher = name
    BY <2>1 DEF EndOK, Differs, IsEnd, Fields
  <2> QED
    BY <2>2 DEF EndOK, Differs, Fields, Kept
<1>2. CASE k.id # 0
  <2>1. n = k
    BY <1>2 DEF Offering
  <2> QED
    BY <1>2, <2>1 DEF EndOK, Differs, ClientNamed, Kept
<1> QED
  BY <1>1, <1>2

LEMMA ClientGreets ==
    ASSUME NEW c, NEW s, NEW x, NEW y, View(c, s, x, y), NEW suite \in Ciphers,
           ClientHello(suite)
    PROVE  Onward
<1>1. PICK e, i : e = "c" /\ i = "ClientHello"
  OBVIOUS
<1>2. /\ Usable(e) /\ Rest'
      /\ end["c"].hs = "DONE" \/ (end["c"].hs = "ServerHello" /\ end["c"].cr = 0)
  BY <1>1 DEF ClientHello, View, Rest
<1>3. /\ end[e] = c /\ c.room = -1 /\ ~c.alert /\ EndOK(c) /\ ClientNamed(c)
      /\ Fine(c.hs, c, Phase(s), s, ToSet(x), ToSet(y))
  BY <1>1, <1>2, UsableClient
<1>4. PICK m : m = Offering(c, suite.name)
  OBVIOUS
<1>5. EndOK(m) /\ Differs(c, m, {"cipher"}) /\ m.cipher \in Names /\ Kept(c, m)
  BY <1>3, <1>4, OfferingIs DEF Names
<1>6. PICK k : k = Hello(m)
  OBVIOUS
<1>7. /\ EndOK(k) /\ k.cr = m.cr + 1
      /\ k.alert = m.alert /\ k.room = m.room /\ k.cipher = m.cipher
      /\ k.wr = m.wr /\ k.rd = m.rd /\ k.keys = m.keys /\ Kept(m, k)
      /\ k.id = 0 => ~k.resumed
  BY <1>5, <1>6, HelloIs
<1>8. /\ m.cr = c.cr /\ m.alert = c.alert /\ m.room = c.room
      /\ m.wr = c.wr /\ m.rd = c.rd /\ m.keys = c.keys
  BY <1>5 DEF Differs, Fields
<1>9. PICK room, ws : ws = {Blank(k, room)} /\ room = MaxPlaintext
  OBVIOUS
<1>10. PICK v \in Put(e, ws, i) :
          /\ end' = [end EXCEPT !["c"] = [v.end EXCEPT !.hs = "ServerHello"]]
          /\ wire' = [wire EXCEPT !["s"] = @ \o v.out]
  BY <1>1, <1>3, <1>4, <1>6, <1>9 DEF ClientHello, Offering
<1>11. PICK n, w, out : n = Wrote(e, k, i) /\ w = Made(e, k, i) /\ out = Append(<<>>, w)
  OBVIOUS
<1>12. v.end = n /\ v.out = out
  <2>1. \A b \in ws : IsWriter(b) /\ b.end = k /\ b.out = <<>> /\ b.room = room /\ ~b.full
    BY <1>9, BlankStarts DEF Starts
  <2>2. PICK b \in ws : Puts(e, b, i, v)
    BY <2>1, PutIs
  <2>3. Size(k, i) \in Nat /\ Size(k, i) <= room
    BY <1>1, <1>7, <1>9, HelloFits
  <2>4. ~(Size(k, i) > room)
    BY <1>9, <2>3 DEF MaxPlaintext
  <2> QED
    BY <1>11, <2>1, <2>2, <2>4 DEF Puts
<1>13. PlainItem(k, i)
  BY <1>1, <1>5, <1>7 DEF PlainItem, PlainItems
<1>14. /\ EndOK(n) /\ Sent(k, n) /\ Advances(k.wr, n.wr) /\ n.keys = k.keys
       /\ RecordOf(k, i, w)
  BY <1>7, <1>11, <1>13, SendsPlain
<1>15. PICK hs \in Expected : hs = "ServerHello"
  BY DEF Expected
<1>16. PICK z : z = [n EXCEPT !.hs = hs]
  OBVIOUS
<1>17. EndOK(z) /\ Differs(n, z, {"hs"}) /\ z.hs = hs
  BY <1>14, <1>16, MovedIs
<1>18. /\ z.cr = c.cr + 1 /\ Advances(c.wr, z.wr) /\ z.keys = c.keys /\ z.rd = c.rd
       /\ z.id = k.id /\ z.resumed = k.resumed /\ z.cipher = k.cipher
       /\ z.room = -1 /\ ~z.alert /\ Kept(c, z)
  BY <1>3, <1>5, <1>7, <1>8, <1>14, <1>17 DEF Sent, Kept, Differs, Fields
<1>19. c.hs = "DONE" \/ (c.hs = "ServerHello" /\ c.cr = 0)
  BY <1>1, <1>2, <1>3
<1>20. /\ RecordOK(w) /\ w.keys = c.wr.keys /\ w.seq = c.wr.seq
       /\ IsMsg(w, "ClientHello") /\ w.body.random = z.cr
  BY <1>1, <1>7, <1>8, <1>14, <1>18 DEF RecordOf
<1>21. Keys("ServerHello", z, Phase(s), s, ToSet(x), ToSet(y) \cup {w})
  BY <1>3, <1>17, <1>18, <1>19, <1>20, ClientWritesHello
<1>22. Fine("ServerHello", z, Phase(s), s, ToSet(x), ToSet(y) \cup {w})
  <2>1. Flows(z, s, ToSet(x), ToSet(y) \cup {w})
    BY <1>3, <1>17, <1>18, <1>20, ClientSaysHello
  <2> QED
    BY <1>3, <1>5, <1>7, <1>15, <1>17, <1>18, <1>20, <1>21, <2>1 DEF Fine, Typed, ClientNamed
<1>23. Listed(x) /\ Listed(y \o out) /\ ToSet(y \o out) \subseteq ToSet(y) \cup {w}
  <2>1. Listed(x) /\ Listed(y) /\ Listed(out) /\ ToSet(out) \subseteq {w}
    BY <1>11, OneRecord DEF View
  <2>2. Listed(y \o out) /\ ToSet(y \o out) \subseteq ToSet(y) \cup ToSet(out)
    BY <2>1, ConcatRecords
  <2> QED
    BY <2>1, <2>2
<1>24. Fine(Phase(z), z, Phase(s), s, ToSet(x), ToSet(y \o out))
  <2>1. Phase(z) = "ServerHello"
    BY <1>15, <1>17, <1>18 DEF Phase
  <2> QED
    BY <1>22, <1>23, <2>1, Fewer
<1>25. Pair(end', z, s) /\ Pair(wire', x, y \o out)
  <2>1. end' = [end EXCEPT !["c"] = z]
    BY <1>10, <1>12, <1>15, <1>16
  <2>2. wire' = [wire EXCEPT !["s"] = y \o out]
    BY <1>10, <1>12 DEF View, Pair, Ends
  <2> QED
    BY <2>1, <2>2, PairIs DEF View
<1>26. View(z, s, x, y \o out)'
  BY <1>2, <1>18, <1>23, <1>24, <1>25 DEF View, Told
<1> QED
  BY <1>18, <1>26, KeptConveys, Established

-----------------------------------------------------------------------------
(* Actions of the server *)

LEMMA ServerCcsStep ==
    ASSUME NEW c, NEW s, NEW x, NEW y, View(c, s, x, y), NEW e, e = "s", ChangeCipherSpec(e)
    PROVE  Onward
<1>1. PICK r : r = HeadOf(e)
  OBVIOUS
<1>2. Receives(e, "ccs") /\ Rest'
  BY DEF ChangeCipherSpec, Receives, View, Rest
<1>3. /\ Reads(e) /\ Usable(e) /\ r \in ToSet(y) /\ r.type = "ccs"
      /\ r.keys = s.rd.keys /\ r.seq = s.rd.seq /\ Acceptable(e, s, r)
  BY <1>1, <1>2, ReadingServer
<1>4. /\ end[e] = s /\ s.room = -1 /\ ~s.alert /\ EndOK(s) /\ ServerNamed(s)
      /\ Fine(Phase(c), c, s.hs, s, ToSet(x), ToSet(y))
  BY <1>3, UsableServer
<1>5. s.hs = "Finished"
  BY <1>3 DEF Acceptable
<1>6. PICK k : k = [s EXCEPT !.rd = [keys |-> s.keys, seq |-> 0]]
  OBVIOUS
<1>7. Take(e, k)
  BY <1>4, <1>6 DEF ChangeCipherSpec
<1>8. Differs(s, k, {"rd"}) /\ k.rd = [keys |-> s.keys, seq |-> 0]
  BY <1>4, <1>6 DEF EndOK, Differs, IsEnd, Fields
<1>9. k.rd \in States /\ Switches(k.rd, s.keys)
  BY <1>4, <1>8, SwitchedIs DEF EndOK
<1>10. EndOK(k)
  BY <1>4, <1>8, <1>9 DEF EndOK, Differs, Fields
<1>11. /\ k.cr = s.cr /\ k.sr = s.sr /\ k.keys = s.keys /\ k.wr = s.wr /\ k.hs = s.hs
       /\ k.resumed = s.resumed /\ k.room = -1 /\ ~k.alert /\ k.id = s.id /\ k.cipher = s.cipher
       /\ Kept(s, k) /\ Steady(s, k)
  BY <1>4, <1>8 DEF Differs, Fields, Kept, Steady
<1>12. Keys(Phase(c), c, s.hs, k, ToSet(x), ToSet(y))
  BY <1>3, <1>4, <1>5, <1>9, <1>10, <1>11, ServerReadsCcs
<1>13. Fine(Phase(c), c, s.hs, k, ToSet(x), ToSet(y))
  <2>1. Flows(c, k, ToSet(x), ToSet(y))
    BY <1>3, <1>4, <1>5, <1>9, <1>11, ServerTurns
  <2> QED
    BY <1>4, <1>10, <1>11, <1>12, <2>1 DEF Fine, Typed, ServerNamed
<1>14. Phase(k) = s.hs /\ Told(k)
  BY <1>11 DEF Phase, Told
<1> QED
  BY <1>2, <1>3, <1>7, <1>11, <1>13, <1>14, ServerTakes

\* A record that changes neither the phase nor the keys.
LEMMA ServerCounts ==
    ASSUME NEW p, NEW c, NEW s, NEW X, NEW Y, Fine(p, c, s.hs, s, X, Y), s.room = -1, ~s.alert,
           NEW r \in Y, r.keys = s.rd.keys, r.seq = s.rd.seq, r.type # "ccs",
           NEW n, EndOK(n), Differs(s, n, {"rd", "error", "closed", "ignored", "got"}),
           Advances(s.rd, n.rd),
           n.got = IF Gives(r) THEN r.body ELSE s.got,
           n.closed => Closes(r) \/ (s.closed /\ n.got = s.got)
    PROVE  Fine(p, c, Phase(n), n, X, Y) /\ Told(n) /\ Conveys(s, n, c)
<1>1. /\ n.cr = s.cr /\ n.sr = s.sr /\ n.keys = s.keys /\ n.wr = s.wr /\ n.hs = s.hs
      /\ n.resumed = s.resumed /\ n.room = -1 /\ ~n.alert /\ n.id = s.id /\ n.cipher = s.cipher
      /\ n.sent = s.sent /\ n.final = s.final /\ Steady(s, n)
  BY DEF Differs, Fields, Steady
<1>2. Keys(p, c, s.hs, n, X, Y)
  BY <1>1, ServerReads
<1>3. Phase(n) = s.hs /\ Told(n)
  BY <1>1 DEF Phase, Told
<1>4. Flows(s, c, Y, X) /\ Way(c, s, Y)
  BY WaysAre DEF Fine, Flows
<1>5. Flows(c, n, X, Y)
  <2>1. Flows(n, c, Y, X)
    BY <1>1, <1>4, EndReads
  <2> QED
    BY <2>1 DEF Flows
<1>6. Conveys(s, n, c)
  <2>1. Gives(r) => r.body = s.got + 1 /\ s.got < c.sent
    BY <1>4, Delivered DEF Flows
  <2> QED
    BY <1>1, <2>1 DEF Conveys
<1> QED
  BY <1>1, <1>2, <1>3, <1>5, <1>6 DEF Fine, Typed, ServerNamed

LEMMA ServerAlertStep ==
    ASSUME NEW c, NEW s, NEW x, NEW y, View(c, s, x, y), NEW e, e = "s", Alert(e)
    PROVE  Onward
<1>1. PICK r : r = HeadOf(e)
  OBVIOUS
<1>2. Receives(e, "alert") /\ Rest'
  BY DEF Alert, Receives, View, Rest
<1>3. /\ Reads(e) /\ Usable(e) /\ r \in ToSet(y) /\ r.type = "alert"
      /\ r.keys = s.rd.keys /\ r.seq = s.rd.seq
  BY <1>1, <1>2, ReadingServer
<1>4. /\ end[e] = s /\ s.room = -1 /\ ~s.alert /\ EndOK(s)
      /\ Fine(Phase(c), c, s.hs, s, ToSet(x), ToSet(y))
  BY <1>3, UsableServer
<1>5. PICK m : m = Checked(e)
  OBVIOUS
<1>6. EndOK(m) /\ Differs(s, m, {"rd"}) /\ Advances(s.rd, m.rd) /\ Kept(s, m)
  BY <1>4, <1>5, CheckedIs
<1>7. PICK n : /\ Take(e, n)
               /\ \/ n = [m EXCEPT !.closed = TRUE] /\ r.body.msg = "Closure"
                  \/ n = [m EXCEPT !.error = TRUE]
  BY <1>1, <1>5 DEF Alert
<1>8. /\ Differs(m, n, {"closed", "error"})
      /\ n.closed \in BOOLEAN /\ n.error \in BOOLEAN
      /\ n.closed => m.closed \/ r.body.msg = "Closure"
  BY <1>6, <1>7 DEF EndOK, Differs, IsEnd, Fields
<1>9. EndOK(n) /\ Differs(s, n, {"rd", "error", "closed", "ignored", "got"})
      /\ Advances(s.rd, n.rd)
  BY <1>6, <1>8 DEF EndOK, Differs, Fields
<1>10. /\ n.got = IF Gives(r) THEN r.body ELSE s.got
       /\ n.closed => Closes(r) \/ (s.closed /\ n.got = s.got)
  <2>1. n.got = s.got /\ (n.closed => s.closed \/ r.body.msg = "Closure")
    BY <1>6, <1>8 DEF Differs, Fields, Kept
  <2> QED
    BY <1>3, <2>1 DEF Gives, Closes
<1>11. r.type # "ccs"
  BY <1>3
<1>12. Fine(Phase(c), c, Phase(n), n, ToSet(x), ToSet(y)) /\ Told(n)
       /\ Conveys(s, n, c)
  BY <1>3, <1>4, <1>9, <1>10, <1>11, ServerCounts
<1> QED
  BY <1>2, <1>3, <1>7, <1>12, ServerTakes

LEMMA ServerDataStep ==
    ASSUME NEW c, NEW s, NEW x, NEW y, View(c, s, x, y), NEW e, e = "s", Data(e)
    PROVE  Onward
<1>1. PICK r : r = HeadOf(e)
  OBVIOUS
<1>2. Receives(e, "data") /\ Rest'
  BY DEF Data, Receives, View, Rest
<1>3. /\ Reads(e) /\ Usable(e) /\ r \in ToSet(y) /\ r.type = "data" /\ RecordOK(r)
      /\ r.keys = s.rd.keys /\ r.seq = s.rd.seq /\ Acceptable(e, s, r)
  BY <1>1, <1>2, ReadingServer
<1>4. /\ end[e] = s /\ s.room = -1 /\ ~s.alert /\ ~s.closed /\ EndOK(s)
      /\ Fine(Phase(c), c, s.hs, s, ToSet(x), ToSet(y))
  BY <1>3, UsableServer
<1>5. PICK b \in Nat : b = r.body /\ (b = 0 => s.ignored < MaxIgnored)
  BY <1>3 DEF RecordOK, Acceptable
<1>6. PICK m : m = Checked(e)
  OBVIOUS
<1>7. /\ EndOK(m) /\ Differs(s, m, {"rd"}) /\ Advances(s.rd, m.rd) /\ Kept(s, m)
      /\ m.ignored = s.ignored
  <2>1. EndOK(m) /\ Differs(s, m, {"rd"}) /\ Advances(s.rd, m.rd) /\ Kept(s, m)
    BY <1>4, <1>6, CheckedIs
  <2> QED
    BY <2>1 DEF Differs, Fields
<1>8. PICK n : n = Given(m, b) /\ Take(e, n)
  BY <1>1, <1>5, <1>6 DEF Data, Given
<1>9. /\ EndOK(n) /\ Differs(m, n, {"ignored", "got"})
      /\ n.got = IF b = 0 THEN m.got ELSE b
  BY <1>5, <1>7, <1>8, GivenIs
<1>10. Differs(s, n, {"rd", "error", "closed", "ignored", "got"}) /\ Advances(s.rd, n.rd)
  BY <1>7, <1>9 DEF Differs, Fields
<1>11. Fine(Phase(c), c, Phase(n), n, ToSet(x), ToSet(y)) /\ Told(n)
       /\ Conveys(s, n, c)
  <2>1. n.got = IF Gives(r) THEN r.body ELSE s.got
    BY <1>3, <1>5, <1>7, <1>9 DEF Gives, Kept
  <2>2. ~n.closed
    BY <1>4, <1>7, <1>9 DEF Kept, Differs, Fields
  <2>3. r.type # "ccs"
    BY <1>3
  <2> QED
    BY <1>3, <1>4, <1>9, <1>10, <2>1, <2>2, <2>3, ServerCounts
<1> QED
  BY <1>2, <1>3, <1>8, <1>11, ServerTakes

\* A message of the handshake, once it is in the hash.
LEMMA ServerHears ==
    ASSUME NEW c, NEW s, NEW x, NEW y, View(c, s, x, y), NEW e, e = "s",
           NEW msg, Message(e, msg), NEW r, r = HeadOf(e), NEW m, m = Hashed(e)
    PROVE  /\ Reads(e) /\ r \in ToSet(y) /\ RecordOK(r) /\ IsMsg(r, msg)
           /\ r.keys = s.rd.keys /\ r.seq = s.rd.seq /\ Acceptable(e, s, r)
           /\ s.hs = msg \/ (s.hs = "DONE" /\ msg = "ClientHello")
           /\ s.room = -1 /\ ~s.alert
           /\ EndOK(s) /\ ServerNamed(s)
           /\ Fine(Phase(c), c, s.hs, s, ToSet(x), ToSet(y))
           /\ EndOK(m) /\ Differs(s, m, {"rd", "log"}) /\ Advances(s.rd, m.rd) /\ Kept(s, m)
           /\ requests' = requests /\ faults' = faults
<1>1. Receives(e, "hs") /\ r.body.msg = msg
  BY DEF Message
<1>2. /\ Reads(e) /\ Usable(e) /\ r \in ToSet(y) /\ RecordOK(r) /\ r.type = "hs"
      /\ r.keys = s.rd.keys /\ r.seq = s.rd.seq /\ Acceptable(e, s, r)
      /\ requests' = requests /\ faults' = faults
  BY <1>1, ReadingServer
<1>3. /\ end[e] = s /\ s.room = -1 /\ ~s.alert /\ EndOK(s) /\ ServerNamed(s)
      /\ Fine(Phase(c), c, s.hs, s, ToSet(x), ToSet(y))
  BY <1>2, UsableServer
<1>4. EndOK(m) /\ Differs(s, m, {"rd", "log"}) /\ Advances(s.rd, m.rd) /\ Kept(s, m)
  BY <1>3, HashedIs
<1>5. IsMsg(r, msg)
  BY <1>1, <1>2 DEF IsMsg
<1>6. s.hs = msg \/ (s.hs = "DONE" /\ msg = "ClientHello")
  BY <1>1, <1>2 DEF Acceptable, InOrder
<1> QED
  BY <1>2, <1>3, <1>4, <1>5, <1>6

LEMMA ServerFinishedStep ==
    ASSUME NEW c, NEW s, NEW x, NEW y, View(c, s, x, y), NEW e, e = "s", FinishedMessage(e)
    PROVE  Onward
<1>1. PICK msg, r, m, hs : msg = "Finished" /\ r = HeadOf(e) /\ m = Hashed(e) /\ hs = "DONE"
  OBVIOUS
<1>2. Message(e, msg) /\ Rest'
  BY <1>1 DEF FinishedMessage, Message, Receives, View, Rest
<1>3. /\ Reads(e) /\ r \in ToSet(y) /\ IsMsg(r, msg)
      /\ r.keys = s.rd.keys /\ r.seq = s.rd.seq /\ Acceptable(e, s, r)
      /\ s.hs = msg /\ s.room = -1 /\ ~s.alert /\ ServerNamed(s)
      /\ Fine(Phase(c), c, s.hs, s, ToSet(x), ToSet(y))
      /\ EndOK(m) /\ Differs(s, m, {"rd", "log"}) /\ Advances(s.rd, m.rd) /\ Kept(s, m)
  BY <1>1, <1>2, ServerHears
<1>4. Secure(s.rd)
  BY <1>1, <1>3 DEF Acceptable, Verifies, IsMsg
<1>5. PICK n : n = [m EXCEPT !.hs = hs]
  OBVIOUS
<1>6. EndOK(n) /\ Differs(m, n, {"hs"}) /\ n.hs = hs
  BY <1>1, <1>3, <1>5, MovedIs DEF Expected
<1>7. /\ Advances(s.rd, n.rd) /\ n.cr = s.cr /\ n.sr = s.sr /\ n.wr = s.wr /\ n.keys = s.keys
      /\ n.resumed = s.resumed /\ n.id = s.id /\ n.cipher = s.cipher
      /\ n.room = -1 /\ ~n.alert /\ Kept(s, n)
  BY <1>3, <1>6 DEF Differs, Fields, Kept
<1>8. PICK q : q = IF n.resumed THEN "DONE" ELSE "finishing"
  OBVIOUS
<1>9. Keys(Phase(c), c, q, n, ToSet(x), ToSet(y))
  BY <1>1, <1>3, <1>4, <1>6, <1>7, <1>8, ServerReadsFinished
<1>10. Fine(Phase(c), c, q, n, ToSet(x), ToSet(y))
  <2>1. Steady(s, n)
    BY <1>1, <1>6 DEF Steady
  <2>2. Flows(c, n, ToSet(x), ToSet(y))
    BY <1>3, <1>7, <2>1, ServerHeeds
  <2> QED
    BY <1>1, <1>3, <1>6, <1>7, <1>9, <2>2 DEF Fine, Typed, ServerNamed
<1>11. IF n.resumed THEN Take(e, n) ELSE Reply(e, n)
  <2>1. IF n.resumed = (e = "c") THEN Reply(e, n) ELSE Take(e, n)
    BY <1>1, <1>5 DEF FinishedMessage
  <2>2. n.resumed \in BOOLEAN
    BY <1>6 DEF EndOK
  <2>3. n.resumed = (e = "c") <=> ~n.resumed
    BY <2>2
  <2> QED
    BY <2>1, <2>3
<1>12. CASE ~n.resumed
  <2>1. q = Pending(n)
    BY <1>1, <1>6, <1>7, <1>8, <1>12 DEF Pending
  <2> QED
    BY <1>2, <1>3, <1>7, <1>10, <1>11, <1>12, <2>1, ServerReplies
<1>13. CASE n.resumed
  <2>1. q = Phase(n) /\ Told(n)
    BY <1>1, <1>6, <1>7, <1>8, <1>13 DEF Phase, Told
  <2> QED
    BY <1>2, <1>3, <1>7, <1>10, <1>11, <1>13, <2>1, ServerTakes
<1> QED
  BY <1>12, <1>13

LEMMA ServerRefuses ==
    ASSUME NEW c, NEW s, NEW x, NEW y, View(c, s, x, y), NEW e, e = "s", Refuse(e)
    PROVE  Onward
<1>1. Reads(e) /\ Usable(e)
  BY DEF Refuse, Reads
<1>2. /\ end[e] = s /\ s.room = -1 /\ ~s.alert /\ EndOK(s) /\ ServerNamed(s)
      /\ Fine(Phase(c), c, s.hs, s, ToSet(x), ToSet(y))
  BY <1>1, UsableServer
<1>3. Rest'
  <2>1. Excuse(e, end[e], HeadOf(e)) \subseteq Excuses
    BY DEF Excuse, Excuses
  <2> QED
    BY <2>1 DEF Refuse, View, Rest
<1>4. PICK n, m : n = [s EXCEPT !.error = TRUE] /\ m = [s EXCEPT !.alert = TRUE]
  OBVIOUS
<1>5. Take(e, n) \/ Reply(e, m)
  BY <1>2, <1>4 DEF Refuse
<1>6. CASE Take(e, n)
  <2>1. Differs(s, n, {"error"}) /\ n.error \in BOOLEAN
    BY <1>2, <1>4 DEF EndOK, Differs, IsEnd, Fields
  <2>2. EndOK(n)
    BY <1>2, <2>1 DEF EndOK, Differs, Fields
  <2>3. /\ n.rd = s.rd /\ n.cr = s.cr /\ n.sr = s.sr /\ n.keys = s.keys /\ n.wr = s.wr
        /\ n.resumed = s.resumed /\ n.hs = s.hs /\ n.id = s.id /\ n.cipher = s.cipher
        /\ n.room = -1 /\ ~n.alert /\ Kept(s, n)
    BY <1>2, <2>1 DEF Differs, Fields, Kept
  <2>4. Keys(Phase(c), c, s.hs, n, ToSet(x), ToSet(y))
    BY <1>2, <2>2, <2>3, ServerKeeps
  <2>5. Fine(Phase(c), c, s.hs, n, ToSet(x), ToSet(y))
    <3>1. Flows(c, n, ToSet(x), ToSet(y))
      BY <1>2, <2>3, ServerRests
    <3> QED
      BY <1>2, <2>2, <2>3, <2>4, <3>1 DEF Fine, Typed, ServerNamed
  <2>6. Phase(n) = s.hs /\ Told(n)
    BY <2>3 DEF Phase, Told
  <2> QED
    BY <1>1, <1>3, <1>6, <2>3, <2>5, <2>6, ServerTakes
<1>7. CASE Reply(e, m)
  <2>1. EndOK(m) /\ Differs(s, m, {"alert"}) /\ m.alert
    BY <1>2, <1>4, AlertedIs
  <2>2. /\ m.rd = s.rd /\ m.cr = s.cr /\ m.sr = s.sr /\ m.keys = s.keys /\ m.wr = s.wr
        /\ m.resumed = s.resumed /\ m.hs = s.hs /\ m.id = s.id /\ m.cipher = s.cipher
        /\ Kept(s, m)
    BY <2>1 DEF Differs, Fields, Kept
  <2>3. Keys(Phase(c), c, s.hs, m, ToSet(x), ToSet(y))
    BY <1>2, <2>1, <2>2, ServerKeeps
  <2>4. Fine(Phase(c), c, s.hs, m, ToSet(x), ToSet(y))
    <3>1. Flows(c, m, ToSet(x), ToSet(y))
      BY <1>2, <2>2, ServerRests
    <3> QED
      BY <1>2, <2>1, <2>2, <2>3, <3>1 DEF Fine, Typed, ServerNamed
  <2>5. Pending(m) = s.hs
    BY <2>1, <2>2 DEF Pending
  <2> QED
    BY <1>1, <1>3, <1>7, <2>2, <2>4, <2>5, ServerReplies
<1> QED
  BY <1>5, <1>6, <1>7

LEMMA ServerRetries ==
    ASSUME NEW c, NEW s, NEW x, NEW y, View(c, s, x, y), NEW e, e = "s", Retry(e)
    PROVE  Onward
<1>1. end[e] = s
  BY DEF View, Pair
<1>2. PICK rooms : rooms = {f \in Free : f > end[e].room}
  OBVIOUS
<1>3. PICK a \in Answers(e, s, rooms) :
         end' = [end EXCEPT ![e] = a.end] /\ wire' = [wire EXCEPT ![Other(e)] = @ \o a.out]
  <2>1. \E a \in Answers(e, end[e], rooms) :
           /\ end' = [end EXCEPT ![e] = a.end]
           /\ wire' = [wire EXCEPT ![Other(e)] = @ \o a.out]
    BY <1>2 DEF Retry
  <2> QED
    BY <1>1, <2>1
<1>4. rooms \subseteq Free
  BY <1>2
<1>5. Fine(Phase(c), c, Pending(s), s, ToSet(x), ToSet(y)) /\ Listed(y) /\ Listed(x)
  BY <1>1 DEF Retry, View, Phase
<1>6. PICK out : out = a.out
  OBVIOUS
<1>7. /\ Listed(out) /\ Told(a.end) /\ Kept(s, a.end)
      /\ Fine(Phase(c), c, Phase(a.end), a.end, ToSet(x) \cup ToSet(out), ToSet(y))
  BY <1>4, <1>5, <1>6, ServerAnswers DEF ServerAnswered
<1>8. Listed(x \o out) /\ ToSet(x \o out) \subseteq ToSet(x) \cup ToSet(out)
  BY <1>5, <1>7, ConcatRecords
<1>9. Fine(Phase(c), c, Phase(a.end), a.end, ToSet(x \o out), ToSet(y))
  BY <1>7, <1>8, Fewer
<1>10. Pair(end', c, a.end) /\ Pair(wire', x \o out, y) /\ Rest'
  <2>1. Pair(end', c, a.end) /\ Pair(wire', x \o out, y)
    BY <1>3, <1>6 DEF View, Pair, Ends, Other
  <2> QED
    BY <2>1, RetryRest DEF View
<1>11. View(c, a.end, x \o out, y)'
  BY <1>5, <1>7, <1>8, <1>9, <1>10 DEF View
<1> QED
  BY <1>7, <1>11, KeptConveys, Established

LEMMA ServerEmits ==
    ASSUME NEW c, NEW s, NEW x, NEW y, View(c, s, x, y), NEW e, e = "s", Usable(e), Rest',
           NEW k, EndOK(k), Differs(s, k, {"sent", "empty", "final", "log"}),
           NEW type, NEW body, Emits(type, body), Emit(e, k, type, body),
           NEW w, w = Record(s.wr, type, body), Adds(s, k, w)
    PROVE  Onward
<1>1. /\ s.room = -1 /\ ~s.alert /\ EndOK(s) /\ ServerNamed(s)
      /\ Fine(Phase(c), c, s.hs, s, ToSet(x), ToSet(y))
  BY UsableServer
<1>2. PICK n : n = Emitted(k) /\ w = Record(k.wr, type, body)
  BY DEF Differs, Fields
<1>3. /\ EndOK(n) /\ Differs(k, n, {"wr"}) /\ Advances(k.wr, n.wr)
      /\ RecordOK(w) /\ w.keys = k.wr.keys /\ w.seq = k.wr.seq
      /\ w.type # "ccs" /\ ~IsMsg(w, "Finished") /\ ~IsMsg(w, "ServerHello")
  BY <1>2, EmittedIs
<1>4. /\ Advances(s.wr, n.wr) /\ n.cr = s.cr /\ n.sr = s.sr /\ n.keys = s.keys
      /\ n.rd = s.rd /\ n.resumed = s.resumed /\ k.wr = s.wr /\ n.hs = s.hs
      /\ n.id = s.id /\ n.cipher = s.cipher /\ n.room = -1 /\ ~n.alert
      /\ n.alert = s.alert
  BY <1>1, <1>3 DEF Differs, Fields
<1>5. s.hs # "finishing"
  BY <1>1 DEF EndOK, Expected
<1>6. /\ Adds(s, n, w) /\ Steady(s, n) /\ Conveys(s, n, c)
      /\ n.got = s.got /\ n.closed = s.closed
  <2>1. /\ n.sent = k.sent /\ n.final = k.final /\ n.hs = k.hs
        /\ n.got = s.got /\ n.closed = s.closed
    BY <1>3 DEF Differs, Fields
  <2>2. Steady(s, n)
    BY <1>4 DEF Steady, Advances
  <2> QED
    BY <2>1, <2>2 DEF Adds, Conveys
<1>7. Keys(Phase(c), c, s.hs, n, ToSet(x) \cup {w}, ToSet(y))
  BY <1>1, <1>3, <1>4, <1>5, ServerWrites
<1>8. Fine(Phase(c), c, s.hs, n, ToSet(x) \cup {w}, ToSet(y))
  <2>1. Flows(c, n, ToSet(x) \cup {w}, ToSet(y))
    <3>1. Flows(s, c, ToSet(y), ToSet(x)) /\ Way(s, c, ToSet(x))
      BY <1>1, WaysAre DEF Fine, Flows
    <3>2. Flows(n, c, ToSet(y), ToSet(x) \cup {w})
      BY <1>3, <1>4, <1>6, <3>1, EndWrites
    <3> QED
      BY <3>2 DEF Flows
  <2> QED
    BY <1>1, <1>3, <1>4, <1>7, <2>1 DEF Fine, Typed, ServerNamed
<1>9. PICK v : v = Append(x, w)
  OBVIOUS
<1>10. Listed(y) /\ Listed(v) /\ ToSet(v) \subseteq ToSet(x) \cup {w}
  BY <1>9, AppendRecords DEF View
<1>11. Fine(Phase(c), c, Phase(n), n, ToSet(v), ToSet(y))
  <2>1. Phase(n) = s.hs
    BY <1>4 DEF Phase
  <2> QED
    BY <1>8, <1>10, <2>1, Fewer
<1>12. Pair(end', c, n) /\ Pair(wire', v, y)
  BY <1>2, <1>9 DEF View, Pair, Ends, Other, Emit, Emitted
<1>13. View(c, n, v, y)'
  BY <1>4, <1>10, <1>11, <1>12 DEF View, Told
<1> QED
  BY <1>6, <1>13, Established

LEMMA ServerSends ==
    ASSUME NEW c, NEW s, NEW x, NEW y, View(c, s, x, y), NEW e, e = "s",
           SendData(e) \/ SendEmpty(e) \/ SendClosure(e)
    PROVE  Onward
<1>1. Usable(e) /\ Rest'
  BY DEF SendData, SendEmpty, SendClosure, View, Rest
<1>2. /\ end[e] = s /\ EndOK(s)
      /\ s.hs = "DONE" => Secure(s.wr)
  <2>1. end[e] = s /\ EndOK(s) /\ Fine(Phase(c), c, s.hs, s, ToSet(x), ToSet(y))
    BY <1>1, UsableServer
  <2>2. s.hs = "DONE" => Secure(s.wr)
    BY <2>1 DEF Fine, Keys, ServerKeys, ServerDone, DoneKeys, Secure
  <2> QED
    BY <2>1, <2>2
<1>3. PICK k, type, body : Emit(e, k, type, body) /\ Sends(s, k, type, body)
  <2>1. CASE SendData(e)
    <3>1. PICK k, type, body :
             k = [s EXCEPT !.sent = @ + 1] /\ type = "data" /\ body = s.sent + 1
      OBVIOUS
    <3> QED
      BY <1>2, <2>1, <3>1 DEF SendData, Sends
  <2>2. CASE SendEmpty(e)
    <3>1. PICK k, type, body :
             k = [s EXCEPT !.empty = @ + 1] /\ type = "data" /\ body = 0
      OBVIOUS
    <3> QED
      BY <1>2, <2>2, <3>1 DEF SendEmpty, Sends
  <2>3. CASE SendClosure(e)
    <3>1. PICK k, type, body :
             k = [s EXCEPT !.final = s.sent] /\ type = "alert" /\ body = [msg |-> "Closure"]
      OBVIOUS
    <3> QED
      BY <1>2, <2>3, <3>1 DEF SendClosure, Sends
  <2> QED
    BY <2>1, <2>2, <2>3
<1>4. PICK w : w = Record(s.wr, type, body)
  OBVIOUS
<1>5. /\ EndOK(k) /\ Differs(s, k, {"sent", "empty", "final"})
      /\ Emits(type, body) /\ Adds(s, k, w)
  BY <1>2, <1>3, <1>4, SentIs
<1>6. Differs(s, k, {"sent", "empty", "final", "log"})
  BY <1>5 DEF Differs
<1> QED
  BY <1>1, <1>3, <1>4, <1>5, <1>6, ServerEmits

LEMMA ServerDeletes ==
    ASSUME NEW c, NEW s, NEW x, NEW y, View(c, s, x, y), NEW e, e = "s", DeleteOption(e)
    PROVE  Onward
<1>1. Usable(e) /\ wire' = wire /\ Rest'
  BY DEF DeleteOption, View, Rest
<1>2. /\ end[e] = s /\ s.room = -1 /\ ~s.alert /\ EndOK(s) /\ ServerNamed(s)
      /\ Fine(Phase(c), c, s.hs, s, ToSet(x), ToSet(y))
  BY <1>1, UsableServer
<1>a. PICK b \in BOOLEAN : ~b
  OBVIOUS
<1>3. PICK n : n = [s EXCEPT !.id = 0, !.resumed = b]
  OBVIOUS
<1>4. Differs(s, n, {"id", "resumed"}) /\ n.id = 0 /\ n.resumed = b
  BY <1>2, <1>3 DEF EndOK, Differs, IsEnd, Fields
<1>5. EndOK(n)
  BY <1>2, <1>4 DEF EndOK, Differs, Fields
<1>6. /\ n.rd = s.rd /\ n.cr = s.cr /\ n.sr = s.sr /\ n.keys = s.keys /\ n.wr = s.wr
      /\ n.hs = s.hs /\ n.cipher = s.cipher
      /\ n.room = -1 /\ ~n.alert /\ Kept(s, n)
  BY <1>2, <1>4 DEF Differs, Fields, Kept
<1>7. s.hs = "DONE"
  BY <1>2 DEF DeleteOption
<1>8. Keys(Phase(c), c, s.hs, n, ToSet(x), ToSet(y))
  BY <1>2, <1>5, <1>6, <1>7, ServerKeeps
<1>9. ServerNamed(n)
  BY <1>2, <1>6 DEF ServerNamed
<1>10. Fine(Phase(c), c, Phase(n), n, ToSet(x), ToSet(y))
  <2>1. Phase(n) = s.hs
    BY <1>6 DEF Phase
  <2>2. Flows(c, n, ToSet(x), ToSet(y))
    BY <1>2, <1>6, ServerRests
  <2> QED
    BY <1>2, <1>5, <1>8, <1>9, <2>1, <2>2 DEF Fine, Typed
<1>11. end' = [end EXCEPT !["s"] = n]
  <2>1. end' = [end EXCEPT !["s"] = [s EXCEPT !.id = 0, !.resumed = FALSE]]
    BY <1>2 DEF DeleteOption, View, Pair, Ends
  <2>2. [s EXCEPT !.id = 0, !.resumed = FALSE] = n
    BY <1>2, <1>a, <1>3
  <2> QED
    BY <2>1, <2>2
<1>12. Pair(end', c, n) /\ Pair(wire', x, y)
  BY <1>1, <1>11, PairIs DEF View
<1>13. View(c, n, x, y)'
  BY <1>1, <1>6, <1>10, <1>12 DEF View, Told
<1> QED
  BY <1>6, <1>13, KeptConveys, Established

LEMMA ServerAsks ==
    ASSUME NEW c, NEW s, NEW x, NEW y, View(c, s, x, y), HelloRequest
    PROVE  Onward
<1>1. PICK e : e = "s"
  OBVIOUS
<1>2. Usable(e) /\ Rest'
  BY <1>1 DEF HelloRequest, View, Rest
<1>3. end[e] = s /\ EndOK(s)
  BY <1>1, <1>2, UsableServer
<1>4. PICK m, type : m = [msg |-> "HelloRequest"] /\ type = "hs"
  OBVIOUS
<1>5. PICK log, k : log = Append(s.log, m) /\ k = [s EXCEPT !.log = log]
  OBVIOUS
<1>6. Differs(s, k, {"log"})
  BY <1>3, <1>5 DEF EndOK, Differs, IsEnd, Fields
<1>7. EndOK(k) /\ Differs(s, k, {"sent", "empty", "final", "log"})
  BY <1>3, <1>6 DEF EndOK, Differs, Fields
<1>8. Emits(type, m)
  BY <1>4 DEF Emits
<1>9. Emit(e, k, type, m)
  BY <1>1, <1>3, <1>4, <1>5 DEF HelloRequest
<1>10. PICK w : w = Record(s.wr, type, m)
  OBVIOUS
<1>11. Adds(s, k, w)
  <2>1. ~Gives(w) /\ ~Closes(w)
    BY <1>4, <1>10 DEF Record, Gives, Closes
  <2> QED
    BY <1>6, <2>1 DEF Adds, Differs, Fields
<1> QED
  BY <1>1, <1>2, <1>7, <1>8, <1>9, <1>10, <1>11, ServerEmits

LEMMA KeyExchangeStep ==
    ASSUME NEW c, NEW s, NEW x, NEW y, View(c, s, x, y), ClientKeyExchangeMessage
    PROVE  Onward
<1>0. PICK e : e = "s"
  OBVIOUS
<1>1. PICK msg, r, m, hs :
         msg = "ClientKeyExchange" /\ r = HeadOf(e) /\ m = Hashed(e) /\ hs = "Finished"
  OBVIOUS
<1>2. Message(e, msg) /\ requests' = requests /\ faults' = faults /\ excuses' = excuses
  BY <1>0, <1>1 DEF ClientKeyExchangeMessage, Message, Receives
<1>3. /\ Reads(e) /\ r \in ToSet(y) /\ RecordOK(r) /\ IsMsg(r, msg)
      /\ r.keys = s.rd.keys /\ r.seq = s.rd.seq
      /\ s.hs = msg /\ s.room = -1 /\ ~s.alert /\ ServerNamed(s)
      /\ Fine(Phase(c), c, s.hs, s, ToSet(x), ToSet(y))
      /\ EndOK(m) /\ Differs(s, m, {"rd", "log"}) /\ Advances(s.rd, m.rd) /\ Kept(s, m)
  BY <1>0, <1>1, <1>2, ServerHears
<1>4. m.cipher = s.cipher /\ s.cipher \in Names
  BY <1>1, <1>3 DEF ServerNamed, Differs, Fields
<1>5. PICK premaster \in Nat : premaster = r.body.premaster
  BY <1>1, <1>3 DEF RecordOK
<1>6. PICK n : n = Deriving(m, premaster, hs)
  OBVIOUS
<1>7. /\ EndOK(n) /\ Differs(m, n, {"ms", "keys", "hs"}) /\ n.hs = hs
      /\ n.keys.cr = m.cr /\ n.keys.sr = m.sr
  BY <1>1, <1>3, <1>4, <1>6, DerivingIs DEF Expected
<1>8. /\ m.cr = s.cr /\ m.sr = s.sr
      /\ Advances(s.rd, n.rd) /\ n.cr = s.cr /\ n.sr = s.sr /\ n.wr = s.wr
      /\ n.resumed = s.resumed /\ n.cipher = s.cipher /\ n.room = -1 /\ ~n.alert /\ Kept(s, n)
  BY <1>3, <1>7 DEF Differs, Fields, Kept
<1>9. Keys(Phase(c), c, hs, n, ToSet(x), ToSet(y))
  BY <1>1, <1>3, <1>7, <1>8, ServerReadsKeyExchange
<1>10. Fine(Phase(c), c, hs, n, ToSet(x), ToSet(y))
  <2>0. s.wr.keys.cr # s.cr
    BY <1>1, <1>3, ClientOrder DEF Fine, Keys, ServerKeys, Numeric
  <2>1. Steady(s, n)
    BY <1>8, <2>0 DEF Steady
  <2>2. Flows(c, n, ToSet(x), ToSet(y))
    BY <1>3, <1>8, <2>1, ServerHeeds
  <2> QED
    BY <1>3, <1>4, <1>7, <1>8, <1>9, <2>2 DEF Fine, Typed, ServerNamed
<1>11. Phase(n) = hs /\ Told(n)
  BY <1>7, <1>8 DEF Phase, Told
<1>12. Take(e, n)
  BY <1>0, <1>1, <1>5, <1>6 DEF ClientKeyExchangeMessage, Deriving
<1>13. Rest'
  <2>1. PICK k : k = Derived(m, premaster)
    OBVIOUS
  <2>2. n = [k EXCEPT !.hs = hs]
    BY <1>6, <2>1 DEF Deriving
  <2>3. Differs(m, k, {"ms", "keys"})
    BY <1>3, <2>1, DerivedIs DEF EndOK
  <2>4. k.id = n.id /\ k.ms = n.ms /\ k.cipher = s.cipher
    BY <1>4, <2>2, <2>3 DEF Differs, IsEnd, Fields
  <2>5. k.id \in Nat /\ k.ms \in Secrets /\ k.cipher \in Names
    BY <1>4, <1>7, <2>4 DEF EndOK
  <2>6. PICK z : z = [id |-> k.id, ms |-> k.ms, cipher |-> k.cipher]
    OBVIOUS
  <2>7. SessionOK(z)
    BY <2>5, <2>6 DEF SessionOK
  <2>8. \A t \in sessions' : t \in sessions \/ t = z
    BY <1>0, <1>1, <1>5, <2>1, <2>6 DEF ClientKeyExchangeMessage
  <2> QED
    BY <1>2, <2>7, <2>8 DEF View, Rest
<1> QED
  BY <1>0, <1>3, <1>8, <1>10, <1>11, <1>12, <1>13, ServerTakes

\* What the session table has of the id of a ClientHello.
LEMMA LookupIs ==
    ASSUME NEW k, EndOK(k), \A z \in sessions : SessionOK(z), NEW m, NEW n \in Lookups(k, m)
    PROVE  /\ EndOK(n) /\ Differs(k, n, {"id", "resumed", "ms", "cipher"})
           /\ n.cipher = k.cipher \/ n.cipher \in Names
<1>1. CASE n = [k EXCEPT !.id = 0, !.resumed = FALSE]
  <2>1. PICK b \in BOOLEAN : ~b
    OBVIOUS
  <2>2. n = [k EXCEPT !.id = 0, !.resumed = b]
    BY <1>1, <2>1
  <2>3. Differs(k, n, {"id", "resumed"}) /\ n.id = 0 /\ n.resumed = b
    BY <2>2 DEF EndOK, Differs, IsEnd, Fields
  <2> QED
    BY <2>3 DEF EndOK, Differs, Fields
<1>2. CASE n = [k EXCEPT !.id = 0]
  <2>1. Differs(k, n, {"id"}) /\ n.id = 0
    BY <1>2 DEF EndOK, Differs, IsEnd, Fields
  <2> QED
    BY <2>1 DEF EndOK, Differs, Fields
<1>3. ASSUME NEW z \in sessions,
             n = [k EXCEPT !.id = z.id, !.resumed = TRUE, !.ms = z.ms, !.cipher = z.cipher]
      PROVE  /\ EndOK(n) /\ Differs(k, n, {"id", "resumed", "ms", "cipher"})
             /\ n.cipher \in Names
  <2>1. PICK b \in BOOLEAN : b
    OBVIOUS
  <2>2. n = [k EXCEPT !.id = z.id, !.resumed = b, !.ms = z.ms, !.cipher = z.cipher]
    BY <1>3, <2>1
  <2>3. /\ Differs(k, n, {"id", "resumed", "ms", "cipher"})
        /\ n.id = z.id /\ n.resumed = b /\ n.ms = z.ms /\ n.cipher = z.cipher
    BY <2>2 DEF EndOK, Differs, IsEnd, Fields
  <2>4. n.id \in Nat /\ n.ms \in Secrets /\ n.cipher \in Names
    BY <2>3 DEF SessionOK
  <2> QED
    BY <2>3, <2>4 DEF EndOK, Differs, Fields
<1> QED
  BY <1>1, <1>2, <1>3 DEF Lookups

\* The hash of a handshake starts with its ClientHello.
Greeted(k, random, m) == [k EXCEPT !.log = <<m>>, !.cr = random]

LEMMA GreetedIs ==
    ASSUME NEW k, EndOK(k), NEW random \in Nat, NEW m, NEW n, n = Greeted(k, random, m)
    PROVE  EndOK(n) /\ Differs(k, n, {"log", "cr"}) /\ n.cr = random
<1>1. PICK log : log = <<m>>
  OBVIOUS
<1>2. n = [k EXCEPT !.log = log, !.cr = random]
  BY <1>1 DEF Greeted
<1>3. Differs(k, n, {"log", "cr"}) /\ n.cr = random
  BY <1>2 DEF EndOK, Differs, IsEnd, Fields
<1> QED
  BY <1>3 DEF EndOK, Differs, Fields

LEMMA ClientHelloStep ==
    ASSUME NEW c, NEW s, NEW x, NEW y, View(c, s, x, y), ClientHelloMessage
    PROVE  Onward
<1>0. PICK e : e = "s"
  OBVIOUS
<1>1. PICK msg, r, body, m : msg = "ClientHello" /\ r = HeadOf(e) /\ body = r.body /\ m = Checked(e)
  OBVIOUS
<1>2. Message(e, msg)
  BY <1>0, <1>1 DEF ClientHelloMessage
<1>3. /\ Reads(e) /\ Usable(e) /\ r \in ToSet(y) /\ RecordOK(r) /\ IsMsg(r, msg)
      /\ r.keys = s.rd.keys /\ r.seq = s.rd.seq
      /\ s.hs \in {"ClientHello", "DONE"} /\ s.room = -1 /\ ~s.alert
      /\ EndOK(s) /\ ServerNamed(s)
      /\ Fine(Phase(c), c, s.hs, s, ToSet(x), ToSet(y))
      /\ requests' = requests /\ faults' = faults
  <2>1. PICK z : z = Hashed(e)
    OBVIOUS
  <2> QED
    BY <1>0, <1>1, <1>2, <2>1, ServerHears DEF Reads
<1>4. EndOK(m) /\ Differs(s, m, {"rd"}) /\ Advances(s.rd, m.rd) /\ Kept(s, m)
  BY <1>0, <1>1, <1>3, UsableServer, CheckedIs
<1>5. PICK random \in Nat, cipher \in Names : random = body.random /\ cipher = body.cipher
  BY <1>1, <1>3 DEF RecordOK
<1>6. PICK g : g = Greeted(m, random, body)
  OBVIOUS
<1>7. EndOK(g) /\ Differs(m, g, {"log", "cr"}) /\ g.cr = random
  BY <1>4, <1>6, GreetedIs
<1>8. PICK k \in Lookups(g, body) :
         /\ IF k.resumed /\ k.cipher # cipher
            THEN Reply(e, [k EXCEPT !.alert = TRUE])
            ELSE Reply(e, [k EXCEPT !.cipher = cipher,
                                    !.hs = IF k.resumed THEN "Finished"
                                           ELSE "ClientKeyExchange"])
         /\ excuses' \subseteq excuses \cup {"cut", "stale"}
         /\ sessions' = sessions
  BY <1>0, <1>1, <1>5, <1>6, CutShortIs DEF ClientHelloMessage, Greeted
<1>9. Rest'
  BY <1>3, <1>8 DEF View, Rest, Excuses
<1>10. /\ EndOK(k) /\ Differs(g, k, {"id", "resumed", "ms", "cipher"})
       /\ k.cipher = g.cipher \/ k.cipher \in Names
  BY <1>7, <1>8, LookupIs DEF View, Rest
<1>11. /\ Advances(s.rd, k.rd) /\ k.cr = random /\ k.sr = s.sr /\ k.keys = s.keys
       /\ k.wr = s.wr /\ k.hs = s.hs /\ k.room = -1 /\ ~k.alert /\ g.cipher = s.cipher
       /\ Kept(s, k)
  BY <1>3, <1>4, <1>7, <1>10 DEF Differs, Fields, Kept
<1>12. CASE k.resumed /\ k.cipher # cipher
  <2>1. PICK n : n = [k EXCEPT !.alert = TRUE]
    OBVIOUS
  <2>2. EndOK(n) /\ Differs(k, n, {"alert"}) /\ n.alert
    BY <1>10, <2>1, AlertedIs
  <2>3. /\ Advances(s.rd, n.rd) /\ n.cr = random /\ n.sr = s.sr /\ n.keys = s.keys
        /\ n.wr = s.wr /\ n.hs = s.hs /\ n.cipher = k.cipher
        /\ Kept(s, n)
    BY <1>11, <2>2 DEF Differs, Fields, Kept
  <2>4. Keys(Phase(c), c, s.hs, n, ToSet(x), ToSet(y))
    BY <1>1, <1>3, <1>5, <2>2, <2>3, ServerReadsHelloRefused
  <2>5. ServerNamed(n)
    BY <1>3, <1>10, <1>11, <2>3 DEF ServerNamed
  <2>6. Fine(Phase(c), c, s.hs, n, ToSet(x), ToSet(y))
    <3>1. Flows(c, n, ToSet(x), ToSet(y))
      BY <1>1, <1>3, <1>5, <2>3, ServerHeedsHello
    <3> QED
      BY <1>3, <2>2, <2>4, <2>5, <3>1 DEF Fine, Typed
  <2>7. Pending(n) = s.hs
    BY <2>2, <2>3 DEF Pending
  <2>8. Reply(e, n)
    BY <1>8, <1>12, <2>1
  <2> QED
    BY <1>0, <1>3, <1>9, <2>3, <2>6, <2>7, <2>8, ServerReplies
<1>13. CASE ~(k.resumed /\ k.cipher # cipher)
  <2>1. PICK hs \in Expected : hs = IF k.resumed THEN "Finished" ELSE "ClientKeyExchange"
    BY DEF Expected
  <2>2. PICK n : n = Chosen(k, cipher, hs)
    OBVIOUS
  <2>3. EndOK(n) /\ Differs(k, n, {"cipher", "hs"}) /\ n.cipher = cipher /\ n.hs = hs
    BY <1>10, <2>2, ChosenIs
  <2>4. /\ Advances(s.rd, n.rd) /\ n.cr = random /\ n.sr = s.sr /\ n.keys = s.keys
        /\ n.wr = s.wr /\ n.resumed = k.resumed /\ n.room = -1 /\ ~n.alert
        /\ Kept(s, n)
    BY <1>11, <2>3 DEF Differs, Fields, Kept
  <2>5. PICK q : q = IF k.resumed THEN "switching" ELSE "greeting"
    OBVIOUS
  <2>6. Keys(Phase(c), c, q, n, ToSet(x), ToSet(y))
    <3>1. CASE k.resumed
      BY <1>1, <1>3, <1>5, <2>3, <2>4, <2>5, <3>1, ServerReadsHelloResumed
    <3>2. CASE ~k.resumed
      BY <1>1, <1>3, <1>5, <2>3, <2>4, <2>5, <3>2, ServerReadsHello
    <3> QED
      BY <3>1, <3>2
  <2>7. Fine(Phase(c), c, q, n, ToSet(x), ToSet(y))
    <3>1. Flows(c, n, ToSet(x), ToSet(y))
      BY <1>1, <1>3, <1>5, <2>4, ServerHeedsHello
    <3> QED
      BY <1>3, <1>5, <2>3, <2>6, <3>1 DEF Fine, Typed, ServerNamed
  <2>8. Pending(n) = q
    BY <2>1, <2>3, <2>4, <2>5 DEF Pending
  <2>9. Reply(e, n)
    BY <1>8, <1>13, <2>1, <2>2 DEF Chosen
  <2> QED
    BY <1>0, <1>3, <1>9, <2>4, <2>7, <2>8, <2>9, ServerReplies
<1> QED
  BY <1>12, <1>13

-----------------------------------------------------------------------------
(* The wire, the start and every step *)

LEMMA WireFaults ==
    ASSUME IInv, NEW e \in Ends, NEW i \in DOMAIN wire[e],
           Lose(e, i) \/ Repeat(e, i) \/ Swap(e, i)
    PROVE  Onward
<1>1. PICK c, s, x, y, w : View(c, s, x, y) /\ w = wire[e]
  BY DEF IInv
<1>2. PICK v : /\ wire' = [wire EXCEPT ![e] = v] /\ end' = end /\ faults' = faults + 1
               /\ UNCHANGED <<sessions, requests, excuses>>
               /\ Faulted(w, i, v)
  BY <1>1 DEF Lose, Repeat, Swap, Fault, Faulted
<1>3. w = IF e = "c" THEN x ELSE y
  BY <1>1 DEF View, Pair, Ends
<1>4. Listed(w)
  BY <1>1, <1>3 DEF View
<1>5. Listed(v) /\ ToSet(v) \subseteq ToSet(w)
  BY <1>1, <1>2, <1>4, FaultRecords
<1>6. Rest'
  BY <1>1, <1>2 DEF View, Rest
<1>7. Conveys(c, c, s)
  BY DEF Conveys
<1>8. CASE e = "c"
  <2>1. Fine(Phase(c), c, Phase(s), s, ToSet(v), ToSet(y))
    BY <1>1, <1>3, <1>5, <1>8, Fewer DEF View
  <2>2. Pair(end', c, s) /\ Pair(wire', v, y)
    BY <1>1, <1>2, <1>8, PairIs DEF View
  <2>3. View(c, s, v, y)'
    BY <1>1, <1>5, <1>6, <2>1, <2>2 DEF View
  <2> QED
    BY <1>1, <1>7, <2>3, Established
<1>9. CASE e = "s"
  <2>1. Fine(Phase(c), c, Phase(s), s, ToSet(x), ToSet(v))
    BY <1>1, <1>3, <1>5, <1>9, Fewer DEF View
  <2>2. Pair(end', c, s) /\ Pair(wire', x, v)
    BY <1>1, <1>2, <1>9, PairIs DEF View
  <2>3. View(c, s, x, v)'
    BY <1>1, <1>5, <1>6, <2>1, <2>2 DEF View
  <2> QED
    BY <1>1, <1>7, <2>3, Established
<1> QED
  BY <1>8, <1>9 DEF Ends

\* An end that has sent nothing and got nothing.
Silent(k) == k.sent = 0 /\ k.got = 0 /\ k.final = -1 /\ ~k.closed

LEMMA NewEndIs ==
    ASSUME NEW state \in Expected, NEW k, k = NewEnd(state)
    PROVE  /\ EndOK(k) /\ k.hs = state
           /\ ~k.resumed /\ ~k.alert /\ k.room = -1 /\ k.id = 0 /\ k.cr = 0 /\ k.sr = 0
           /\ k.keys = NoKeys /\ k.rd = Plain /\ k.wr = Plain /\ Silent(k)
<1>1. IsEnd(k)
  BY DEF NewEnd, IsEnd, Fields
<1>2. /\ k.hs = state /\ ~k.resumed /\ ~k.alert /\ k.room = -1 /\ k.id = 0
      /\ k.cr = 0 /\ k.sr = 0 /\ k.keys = NoKeys /\ k.rd = Plain /\ k.wr = Plain
      /\ k.resumed \in BOOLEAN /\ k.error \in BOOLEAN /\ k.closed \in BOOLEAN /\ ~k.closed
      /\ k.alert \in BOOLEAN
      /\ k.ms = NoSecret /\ k.ignored = 0 /\ k.empty = 0 /\ k.sent = 0 /\ k.got = 0
      /\ k.final = -1
  BY DEF NewEnd
<1>3. NoSecret \in Secrets /\ NoKeys \in KeyBlocks /\ Plain \in States
  BY DEF NoSecret, Secrets, KeyBlocks, Plain, States
<1>4. 0 \in 0 .. MaxIgnored
  BY BoundAssumption
<1> QED
  BY <1>1, <1>2, <1>3, <1>4 DEF EndOK, Silent

LEMMA OldSessionOK == SessionOK(OldSession)
<1>1. OldSession.cipher \in Names
  <2>1. (CHOOSE z \in Ciphers : TRUE) \in Ciphers
    BY CipherAssumption
  <2> QED
    BY <2>1 DEF OldSession, Names
<1>2. OldSession.id = 1 /\ OldSession.ms = <<0, 0, 1>>
  BY DEF OldSession
<1> QED
  BY <1>1, <1>2 DEF SessionOK, Secrets

LEMMA ClientIs ==
    ASSUME \A z \in sessions : SessionOK(z), NEW c, c = Client(sessions),
           sessions \in {{}, {OldSession}}
    PROVE  /\ EndOK(c) /\ ClientNamed(c) /\ c.hs = "ServerHello"
           /\ ~c.resumed /\ ~c.alert /\ c.room = -1 /\ c.cr = 0
           /\ c.keys = NoKeys /\ c.rd = Plain /\ c.wr = Plain /\ Silent(c)
<1>1. PICK state, k : state \in Expected /\ state = "ServerHello" /\ k = NewEnd(state)
  BY DEF Expected
<1>2. /\ EndOK(k) /\ k.hs = "ServerHello"
      /\ ~k.resumed /\ ~k.alert /\ k.room = -1 /\ k.id = 0 /\ k.cr = 0
      /\ k.keys = NoKeys /\ k.rd = Plain /\ k.wr = Plain /\ Silent(k)
  BY <1>1, NewEndIs
<1>3. CASE sessions = {}
  <2>1. c = k
    BY <1>1, <1>3 DEF Client
  <2> QED
    BY <1>2, <2>1 DEF ClientNamed
<1>4. CASE sessions = {OldSession}
  <2>1. PICK id, ms, cipher :
           id = OldSession.id /\ ms = OldSession.ms /\ cipher = OldSession.cipher
    OBVIOUS
  <2>2. c = [k EXCEPT !.id = id, !.ms = ms, !.cipher = cipher]
    BY <1>1, <1>4, <2>1 DEF Client
  <2>3. id \in Nat /\ ms \in Secrets /\ cipher \in Names
    BY <2>1, OldSessionOK DEF SessionOK
  <2>4. Differs(k, c, {"id", "ms", "cipher"}) /\ c.id = id /\ c.ms = ms /\ c.cipher = cipher
    BY <1>2, <2>2 DEF EndOK, Differs, IsEnd, Fields
  <2>5. EndOK(c)
    BY <1>2, <2>3, <2>4 DEF EndOK, Differs, Fields
  <2> QED
    BY <1>2, <2>3, <2>4, <2>5 DEF ClientNamed, Differs, Fields, Silent
<1> QED
  BY <1>3, <1>4

LEMMA ServerIs ==
    ASSUME NEW s, s = Server
    PROVE  /\ EndOK(s) /\ ServerNamed(s) /\ s.hs = "ClientHello"
           /\ ~s.resumed /\ ~s.alert /\ s.room = -1 /\ s.cr = 0 /\ s.sr \in Nat
           /\ s.keys = NoKeys /\ s.rd = Plain /\ s.wr = Plain /\ Silent(s)
<1>1. PICK state, k : state \in Expected /\ state = "ClientHello" /\ k = NewEnd(state)
  BY DEF Expected
<1>2. /\ EndOK(k) /\ k.hs = "ClientHello"
      /\ ~k.resumed /\ ~k.alert /\ k.room = -1 /\ k.cr = 0
      /\ k.keys = NoKeys /\ k.rd = Plain /\ k.wr = Plain /\ Silent(k)
  BY <1>1, NewEndIs
<1>3. PICK n \in Nat : n = 1
  OBVIOUS
<1>4. s = [k EXCEPT !.sr = n]
  BY <1>1, <1>3 DEF Server
<1>5. Differs(k, s, {"sr"}) /\ s.sr = n
  BY <1>2, <1>4 DEF EndOK, Differs, IsEnd, Fields
<1>6. EndOK(s)
  BY <1>2, <1>5 DEF EndOK, Differs, Fields
<1> QED
  BY <1>2, <1>5, <1>6 DEF ServerNamed, Differs, Fields, Silent

\* No data is on its way.
LEMMA FlowBegins ==
    ASSUME NEW a, NEW b, EndOK(a), EndOK(b), Silent(a), Silent(b), a.hs # "Finished"
    PROVE  Flow(a, b, {})
<1>1. PICK F : F = [z \in KeyBlocks \X Nat |-> 0]
  OBVIOUS
<1>2. F \in Tallies
  BY <1>1 DEF Tallies
<1>3. /\ a.wr.keys \in KeyBlocks /\ a.wr.seq \in Nat
      /\ b.rd.keys \in KeyBlocks /\ b.rd.seq \in Nat
  BY DEF EndOK, States
<1>4. At(F, a.wr) = 0 /\ At(F, b.rd) = 0
  BY <1>1, <1>3 DEF At, Before
<1>5. Leads(F, a, b, {})
  BY DEF Leads
<1>6. Tally(F, a, b, {})
  BY <1>4, <1>5 DEF Tally, Silent
<1> QED
  BY <1>2, <1>6 DEF Flow

LEMMA InitHolds == ASSUME Init PROVE IInv /\ Channel!Init
<1>1. PICK c, s : c = Client(sessions) /\ s = Server
  OBVIOUS
<1>2. sessions \in {{}, {OldSession}} /\ \A z \in sessions : SessionOK(z)
  BY OldSessionOK DEF Init
<1>3. /\ EndOK(c) /\ ClientNamed(c) /\ c.hs = "ServerHello"
      /\ ~c.resumed /\ ~c.alert /\ c.room = -1 /\ c.cr = 0
      /\ c.keys = NoKeys /\ c.rd = Plain /\ c.wr = Plain /\ Silent(c)
  BY <1>1, <1>2, ClientIs
<1>4. /\ EndOK(s) /\ ServerNamed(s) /\ s.hs = "ClientHello"
      /\ ~s.resumed /\ ~s.alert /\ s.room = -1 /\ s.cr = 0 /\ s.sr \in Nat
      /\ s.keys = NoKeys /\ s.rd = Plain /\ s.wr = Plain /\ Silent(s)
  BY <1>1, ServerIs
<1>5. Plain.keys = NoKeys /\ Plain.seq = 0
  BY DEF Plain
<1>6. Keys("ServerHello", c, "ClientHello", s, {}, {})
  <2>1. Shaped(c) /\ Shaped(s)
    BY <1>3, <1>4, <1>5, NoKeysNumbers DEF Shaped, Numbered, Secure
  <2>2. ClientKeys("ServerHello", c)
    BY <1>3, <1>5, NoKeysNumbers DEF ClientKeys, Waiting, ClientDone, Fresh, Secure
  <2>3. ServerKeys("ClientHello", s)
    BY <1>4, <1>5, NoKeysNumbers DEF ServerKeys, ServerDone, Fresh, Secure
  <2>4. Joint("ServerHello", c, "ClientHello", s)
    BY <1>3, <1>4, <1>5, NoKeysNumbers DEF Joint, ClientDone, ServerDone
  <2>5. ToServer(c, {}) /\ ToClient("ClientHello", s, {})
    BY DEF ToServer, ToClient, Counts
  <2>6. Behind("ServerHello", c, s, {})
    BY <1>3, <1>4, <1>5, NoKeysNumbers DEF Behind
  <2> QED
    BY <2>1, <2>2, <2>3, <2>4, <2>5, <2>6 DEF Keys
<1>7. PICK w : w = <<>>
  OBVIOUS
<1>8. Listed(w) /\ ToSet(w) = {}
  BY <1>7, NoRecords
<1>9. Fine(Phase(c), c, Phase(s), s, ToSet(w), ToSet(w))
  <2>1. Flows(c, s, {}, {})
    BY <1>3, <1>4, FlowBegins DEF Flows
  <2> QED
    BY <1>3, <1>4, <1>6, <1>8, <2>1 DEF Fine, Typed, Phase
<1>10. Pair(end, c, s) /\ Pair(wire, w, w)
  BY <1>1, <1>7 DEF Init, Pair, Ends
<1>11. Rest
  BY <1>2 DEF Init, Rest
<1>12. View(c, s, w, w)
  BY <1>3, <1>4, <1>8, <1>9, <1>10, <1>11 DEF View, Told
<1>13. end["c"] = c /\ end["s"] = s /\ wire["c"] = w /\ wire["s"] = w
  BY <1>10 DEF Pair
<1>14. Channel!Init
  BY <1>3, <1>4, <1>13 DEF Channel!Init, Silent, Ends
<1> QED
  BY <1>12, <1>13, <1>14 DEF IInv

LEMMA ClientDecodes ==
    ASSUME IInv, NEW e, e = "c",
           ChangeCipherSpec(e) \/ Alert(e) \/ Data(e) \/ FinishedMessage(e) \/ Refuse(e)
    PROVE  Onward
<1>1. PICK c, s, x, y : View(c, s, x, y)
  BY DEF IInv
<1>2. CASE ChangeCipherSpec(e)
  BY <1>1, <1>2, ClientCcsStep
<1>3. CASE Alert(e)
  BY <1>1, <1>3, ClientAlertStep
<1>4. CASE Data(e)
  BY <1>1, <1>4, ClientDataStep
<1>5. CASE FinishedMessage(e)
  BY <1>1, <1>5, ClientFinishedStep
<1>6. CASE Refuse(e)
  BY <1>1, <1>6, ClientRefuses
<1> QED
  BY <1>2, <1>3, <1>4, <1>5, <1>6

LEMMA ServerDecodes ==
    ASSUME IInv, NEW e, e = "s",
           ChangeCipherSpec(e) \/ Alert(e) \/ Data(e) \/ FinishedMessage(e) \/ Refuse(e)
    PROVE  Onward
<1>1. PICK c, s, x, y : View(c, s, x, y)
  BY DEF IInv
<1>2. CASE ChangeCipherSpec(e)
  BY <1>1, <1>2, ServerCcsStep
<1>3. CASE Alert(e)
  BY <1>1, <1>3, ServerAlertStep
<1>4. CASE Data(e)
  BY <1>1, <1>4, ServerDataStep
<1>5. CASE FinishedMessage(e)
  BY <1>1, <1>5, ServerFinishedStep
<1>6. CASE Refuse(e)
  BY <1>1, <1>6, ServerRefuses
<1> QED
  BY <1>2, <1>3, <1>4, <1>5, <1>6

LEMMA DecodeStep ==
    ASSUME IInv, NEW e \in Ends, Decode(e)
    PROVE  Onward
<1>1. PICK c, s, x, y : View(c, s, x, y)
  BY DEF IInv
<1>2. CASE ChangeCipherSpec(e) \/ Alert(e) \/ Data(e) \/ FinishedMessage(e) \/ Refuse(e)
  BY <1>2, ClientDecodes, ServerDecodes DEF Ends
<1>3. CASE ClientKeyExchangeMessage
  BY <1>1, <1>3, KeyExchangeStep
<1>4. CASE ClientHelloMessage
  BY <1>1, <1>4, ClientHelloStep
<1>5. CASE ServerHelloMessage
  BY <1>1, <1>5, ServerHelloStep
<1>6. CASE CertificateMessage
  BY <1>1, <1>6, ClientCertificateStep
<1>7. CASE ServerHelloDoneMessage
  BY <1>1, <1>7, ClientHelloDoneStep
<1>8. CASE HelloRequestMessage
  BY <1>1, <1>8, ClientRequestStep
<1> QED
  BY <1>2, <1>3, <1>4, <1>5, <1>6, <1>7, <1>8 DEF Decode

LEMMA NextHolds == ASSUME IInv, [Next]_vars PROVE Onward
<1>1. PICK c, s, x, y : View(c, s, x, y)
  BY DEF IInv
<1>2. ASSUME NEW e \in Ends, Decode(e) PROVE Onward
  BY <1>2, DecodeStep
<1>3. ASSUME NEW e \in Ends, Retry(e) PROVE Onward
  BY <1>1, <1>3, ClientRetries, ServerRetries DEF Ends
<1>4. ASSUME NEW e \in Ends, SendData(e) \/ SendEmpty(e) \/ SendClosure(e) PROVE Onward
  BY <1>1, <1>4, ClientSends, ServerSends DEF Ends
<1>5. ASSUME NEW e \in Ends, DeleteOption(e) PROVE Onward
  BY <1>1, <1>5, ClientDeletes, ServerDeletes DEF Ends
<1>6. ASSUME NEW e \in Ends, NEW i \in DOMAIN wire[e], Lose(e, i) \/ Repeat(e, i) \/ Swap(e, i)
      PROVE  Onward
  BY <1>6, WireFaults
<1>7. ASSUME NEW suite \in Ciphers, ClientHello(suite) PROVE Onward
  BY <1>1, <1>7, ClientGreets
<1>8. ASSUME HelloRequest PROVE Onward
  BY <1>1, <1>8, ServerAsks
<1>9. ASSUME UNCHANGED vars PROVE Onward
  <2>1. View(c, s, x, y)'
    BY <1>1, <1>9 DEF vars, View, Rest
  <2>2. Conveys(c, c, s)
    BY DEF Conveys
  <2> QED
    BY <1>1, <2>1, <2>2, Established
<1> QED
  BY <1>2, <1>3, <1>4, <1>5, <1>6, <1>7, <1>8, <1>9 DEF Next

LEMMA IInvHolds == Spec => []IInv
<1>1. Init => IInv
  BY InitHolds
<1>2. IInv /\ [Next]_vars => IInv'
  BY NextHolds DEF Onward
<1> QED
  BY <1>1, <1>2, PTL DEF Spec

-----------------------------------------------------------------------------
(* What follows for the specification *)

LEMMA IInvTypes == ASSUME IInv PROVE TypeOK
<1>1. PICK c, s, x, y : View(c, s, x, y)
  BY DEF IInv
<1>2. ASSUME NEW k, EndOK(k)
      PROVE  /\ k.room \in {-1} \cup Free
             /\ k.cr \in Nat /\ k.sr \in Nat
             /\ k.ms \in Nat \X Nat \X Nat
             /\ k.rd.seq \in Nat /\ k.wr.seq \in Nat
             /\ k.ignored \in 0 .. MaxIgnored
             /\ k.final \in -1 .. k.sent
  BY <1>2 DEF EndOK, States, Secrets
<1>3. ASSUME NEW w, Listed(w), \A r \in ToSet(w) : RecordOK(r)
      PROVE  \A i \in DOMAIN w : w[i].type \in {"ccs", "alert", "data", "hs"}
  BY <1>3 DEF ToSet, RecordOK
<1>4. EndOK(c) /\ EndOK(s) /\ Listed(x) /\ Listed(y)
  BY <1>1 DEF View, Fine, Typed
<1>5. (\A r \in ToSet(x) : RecordOK(r)) /\ (\A r \in ToSet(y) : RecordOK(r))
  BY <1>1 DEF View, Fine, Typed
<1>6. end["c"] = c /\ end["s"] = s /\ wire["c"] = x /\ wire["s"] = y /\ excuses \subseteq Excuses
  BY <1>1 DEF View, Pair, Rest
<1>7. /\ \A i \in DOMAIN x : x[i].type \in {"ccs", "alert", "data", "hs"}
      /\ \A i \in DOMAIN y : y[i].type \in {"ccs", "alert", "data", "hs"}
  BY <1>3, <1>4, <1>5
<1> QED
  BY <1>2, <1>4, <1>6, <1>7 DEF TypeOK, Ends

\* An end that is done, whether or not it has a Finished of its own to write.
LEMMA DoneIs ==
    ASSUME NEW k, EndOK(k), k.hs = "DONE"
    PROVE  /\ Phase(k) \in {"DONE", "finishing"}
           /\ k.room = -1 => Phase(k) = "DONE"
<1>1. Pending(k) \in {"DONE", "finishing"}
  BY DEF EndOK, Pending
<1> QED
  BY <1>1 DEF EndOK, Phase

LEMMA DoneKeysAre ==
    ASSUME NEW k, EndOK(k), k.hs = "DONE", DoneKeys(Phase(k), k)
    PROVE  /\ k.keys # NoKeys /\ k.rd.keys = k.keys
           /\ k.room = -1 => k.wr.keys = k.keys
  BY DoneIs DEF DoneKeys, Secure

LEMMA IInvAgreed == ASSUME IInv PROVE DoneMeansAgreed
<1>1. PICK c, s, x, y : View(c, s, x, y)
  BY DEF IInv
<1>2. end["c"] = c /\ end["s"] = s /\ EndOK(c) /\ EndOK(s)
  BY <1>1 DEF View, Pair, Fine, Typed
<1>3. Keys(Phase(c), c, Phase(s), s, ToSet(x), ToSet(y))
  BY <1>1 DEF View, Fine
<1>4. Phase(c) \in ClientDone \/ Phase(s) \in ServerDone => c.keys = s.keys
  BY <1>3 DEF Keys, Joint
<1>5. ASSUME c.hs = "DONE"
      PROVE  /\ c.keys # NoKeys /\ c.keys = s.keys /\ c.rd.keys = c.keys
             /\ c.room = -1 => c.wr.keys = c.keys
  <2>1. Phase(c) \in ClientDone
    BY <1>2, <1>5, DoneIs DEF ClientDone
  <2>2. DoneKeys(Phase(c), c)
    BY <1>3, <2>1 DEF Keys, ClientKeys
  <2> QED
    BY <1>2, <1>4, <1>5, <2>1, <2>2, DoneKeysAre
<1>6. ASSUME s.hs = "DONE"
      PROVE  /\ s.keys # NoKeys /\ s.keys = c.keys /\ s.rd.keys = s.keys
             /\ s.room = -1 => s.wr.keys = s.keys
  <2>1. Phase(s) \in ServerDone
    BY <1>2, <1>6, DoneIs DEF ServerDone
  <2>2. DoneKeys(Phase(s), s)
    BY <1>3, <2>1 DEF Keys, ServerKeys
  <2> QED
    BY <1>2, <1>4, <1>6, <2>1, <2>2, DoneKeysAre
<1> QED
  BY <1>2, <1>5, <1>6 DEF DoneMeansAgreed, Ends, Other

LEMMA IInvClosed == ASSUME IInv PROVE ClosedAfterAll
<1>1. PICK c, s, x, y : View(c, s, x, y)
  BY DEF IInv
<1>2. end["c"] = c /\ end["s"] = s
  BY <1>1 DEF View, Pair
<1>3. Flow(c, s, ToSet(y)) /\ Flow(s, c, ToSet(x))
  BY <1>1 DEF View, Fine, Flows
<1>4. (s.closed => s.got = c.final) /\ (c.closed => c.got = s.final)
  BY <1>3 DEF Flow, Tally
<1> QED
  BY <1>2, <1>4 DEF ClosedAfterAll, Ends, Other

\* The types of both ends, of the records on the wire and of the history: an
\* end never has a number, a sequence number or a buffer that its ssl_t cannot
\* hold, whatever the ciphers, the lengths of certificates and keys and the
\* sizes of buffers the caller offers.
THEOREM TypeCorrect == Spec => []TypeOK
<1>1. IInv => TypeOK
  BY IInvTypes
<1> QED
  BY <1>1, IInvHolds, PTL

\* matrixSslHandshakeIsComplete speaks of both ends: an end whose state is
\* SSL_HS_DONE has the keys of the other end, reads with them and, once its
\* answers fit, writes with them.  It holds after any number of full, resumed
\* and repeated handshakes, for any buffers, and with any loss, repetition or
\* exchange of records on the wire.
THEOREM DoneAgreed == Spec => []DoneMeansAgreed
<1>1. IInv => DoneMeansAgreed
  BY IInvAgreed
<1> QED
  BY <1>1, IInvHolds, PTL

\* An end that is told of a closure has got every record of data that the other
\* sent before it: a closure that overtakes data, or that is told after data
\* was lost, is refused, however often the keys have changed since.
THEOREM ClosedComplete == Spec => []ClosedAfterAll
<1>1. IInv => ClosedAfterAll
  BY IInvClosed
<1> QED
  BY <1>1, IInvHolds, PTL

\* The handshakes, alerts and records implement the channel of SecureChannel:
\* what one application has got is at every moment the beginning of what the
\* other has sent, in its order, without a gap and without a record given
\* twice, over any number of changes of keys and whatever the wire loses,
\* repeats or exchanges.
THEOREM ImplementsChannel == Spec => InOrderOnce
<1>1. Init => IInv /\ Channel!Init
  BY InitHolds
<1>2. IInv /\ [Next]_vars => IInv' /\ [Channel!Next]_Totals
  BY NextHolds DEF Onward
<1> QED
  BY <1>1, <1>2, PTL DEF Spec, InOrderOnce, Channel!Spec, Totals

=============================================================================
