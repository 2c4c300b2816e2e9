------------------------------ MODULE ProxyProofs ------------------------------
(***************************************************************************)
(* Both streams of a proxied connection arrive in order, and a bridge that *)
(* ends undisturbed has delivered all of both, for any data and any limit  *)
(* on the head of a request.                                               *)
(*                                                                         *)
(* The invariant says, for each place the task can be at, how much it has  *)
(* read and what the two sides have been sent: of the client's stream,     *)
(* what was read and not passed on is in `buf` until the bridge, and       *)
(* nothing is while the bridge runs; of the server's, what was drained has *)
(* been written.  Once a write is refused (the session is over, or one     *)
(* side has gone) what was given remains a part of what should be.         *)
(***************************************************************************)
EXTENDS Proxy, SequenceTheorems, TLAPS

-----------------------------------------------------------------------------
(* The alphabet: the words of the protocols, and what Data is made of. *)
Words ==
  {"greeting", "request", "line", "blank", "junk",
   "method", "ok", "none", "refused", "head"}

Pieces == Words \cup Range(Data)

(* What comes before either side's own data. *)
Preface == IF proto = "forward" THEN <<"head">> ELSE <<>>

Welcome ==
  CASE proto = "socks" -> <<"method", "ok">>
    [] proto = "connect" -> <<"ok">>
    [] proto = "forward" -> <<>>

(* The server has what the first k pieces of the client's stream make,     *)
(* after the two of the greeting; the client, the first k of the server's. *)
Given(k) == given = Preface \o SubSeq(sent, 3, k)

Got(k) == got = Welcome \o SubSeq(Data, 1, k)

(* What is written to the channel reaches the server. *)
Intact == ssh = "open" /\ serverEnd # "close"

TypesOK ==
  /\ proto \in {"socks", "connect", "forward"}
  /\ pc \in {"spawned", "open", "done"} \cup Handshake \cup Opened
  /\ sent \in Seq(Pieces) /\ buf \in Seq(Pieces)
  /\ clientEnd \in {"no", "fin", "reset"}
  /\ serverEnd \in {"no", "eof", "close"}
  /\ ssh \in {"open", "closed"}
  /\ taken \in 0..Len(sent)
  /\ answered \in 0..Len(Data) /\ drained \in 0..answered
  /\ woken => dead

(* The server has nothing, and the bridge has not begun. *)
NothingYet == given = <<>> /\ drained = 0 /\ ~tcpDone /\ ~chanDone

(* Reading the request: only the HTTP head is kept while it grows. *)
AtHandshake ==
  /\ pc \in {"spawned", "greet"} =>
       taken = 0 /\ buf = <<>> /\ got = <<>> /\ NothingYet
  /\ pc = "greet" => proto = "socks"
  /\ pc = "request" =>
       /\ proto = "socks"
       /\ taken = 1 /\ buf = <<>> /\ got = <<"method">> /\ NothingYet
  /\ pc = "head" =>
       /\ proto # "socks"
       /\ buf = SubSeq(sent, 1, taken) /\ got = <<>> /\ NothingYet

(* The request was accepted: what was read beyond it is in buf. *)
AtOpening ==
  /\ pc \in {"open", "reply"} =>
       /\ taken >= 2 /\ buf = SubSeq(sent, 3, taken)
       /\ got = IF proto = "socks" THEN <<"method">> ELSE <<>>
       /\ NothingYet
  /\ pc = "leftover" =>
       /\ taken >= 2 /\ buf = SubSeq(sent, 3, taken)
       /\ Got(0) /\ (Given(2) \/ (given = <<>> /\ serverEnd = "close"))
       /\ drained = 0 /\ ~tcpDone /\ ~chanDone

(* All that was read was passed on, unless the channel or the client is    *)
(* gone; a direction that is over without that has no more to bring.       *)
AtBridge ==
  pc = "bridge" =>
    /\ taken >= 2
    /\ Intact => Given(taken)
    /\ given = <<>> \/ \E k \in 2..taken : Given(k)
    /\ clientEnd # "reset" => Got(drained)
    /\ \E k \in 0..drained : Got(k)
    /\ tcpDone /\ Intact /\ clientEnd # "reset" =>
         clientEnd = "fin" /\ taken = Len(sent) /\ eofGiven
    /\ chanDone /\ Intact /\ clientEnd # "reset" =>
         serverEnd = "eof" /\ drained = answered

(* Each side has a part of its stream; or the client has the refusal. *)
Delivered ==
  /\ given = <<>> \/ \E k \in 2..taken : Given(k)
  /\ \/ got \in Refusals /\ given = <<>>
     \/ got = <<>>
     \/ proto = "socks" /\ got = <<"method">>
     \/ \E k \in 0..answered : Got(k)

AtEnd == pc = "done" => Delivered

Inv == TypesOK /\ AtHandshake /\ AtOpening /\ AtBridge /\ AtEnd

-----------------------------------------------------------------------------
(* What a sequence is extended by leaves it a prefix. *)
LEMMA PrefixOfConcat ==
  ASSUME NEW S, NEW s \in Seq(S), NEW t \in Seq(S)
  PROVE  IsPrefix(s, s \o t)
<1>1. /\ s \o t \in Seq(S)
      /\ Len(s \o t) = Len(s) + Len(t)
      /\ \A i \in 1..Len(s) + Len(t) :
           (s \o t)[i] = IF i <= Len(s) THEN s[i] ELSE t[i - Len(s)]
  BY ConcatProperties
<1>2. Len(s) \in Nat /\ Len(t) \in Nat
  BY LenProperties
<1>3. SubSeq(s, 1, Len(s)) = s
  BY SubSeqFull
<1>4. SubSeq(s \o t, 1, Len(s)) = s
  <2> DEFINE p == SubSeq(s \o t, 1, Len(s))
  <2>1. \A i \in 1..Len(s) : (s \o t)[i] \in S
    BY <1>1, <1>2, ElementOfSeq
  <2>2. /\ p \in Seq(S)
        /\ Len(p) = Len(s)
        /\ \A i \in 1..Len(s) : p[i] = (s \o t)[i]
    BY <2>1, <1>2, SubSeqProperties
  <2>3. \A i \in 1..Len(p) : p[i] = s[i]
    BY <2>2, <1>1, <1>2
  <2> QED
    BY <2>2, <2>3, SeqEqual
<1> QED
  BY <1>1, <1>2, <1>3, <1>4 DEF IsPrefix

(* SubSeqProperties for a part that may be empty. *)
LEMMA PartOfSeq ==
  ASSUME NEW S, NEW s \in Seq(S), NEW m \in Nat \ {0}, NEW n \in 0..Len(s)
  PROVE  /\ SubSeq(s, m, n) \in Seq(S)
         /\ Len(SubSeq(s, m, n)) = IF m <= n THEN n - m + 1 ELSE 0
         /\ \A i \in 1..n - m + 1 : SubSeq(s, m, n)[i] = s[m + i - 1]
<1>1. Len(s) \in Nat
  BY LenProperties
<1>2. \A i \in m..n : s[i] \in S
  BY <1>1, ElementOfSeq
<1> QED
  BY <1>1, <1>2, SubSeqProperties

(* A part of a sequence stays what it is when the sequence grows. *)
LEMMA PartStays ==
  ASSUME NEW S, NEW s \in Seq(S), NEW e \in S,
         NEW m \in Nat \ {0}, NEW n \in 0..Len(s)
  PROVE  SubSeq(Append(s, e), m, n) = SubSeq(s, m, n)
<1> DEFINE p == SubSeq(s, m, n)
           q == SubSeq(Append(s, e), m, n)
<1>1. Len(s) \in Nat
  BY LenProperties
<1>2. /\ Append(s, e) \in Seq(S)
      /\ Len(Append(s, e)) = Len(s) + 1
      /\ \A i \in 1..Len(s) : Append(s, e)[i] = s[i]
  BY AppendProperties
<1>3. /\ p \in Seq(S)
      /\ Len(p) = IF m <= n THEN n - m + 1 ELSE 0
      /\ \A i \in 1..n - m + 1 : p[i] = s[m + i - 1]
  BY PartOfSeq
<1>4. /\ q \in Seq(S)
      /\ Len(q) = IF m <= n THEN n - m + 1 ELSE 0
      /\ \A i \in 1..n - m + 1 : q[i] = Append(s, e)[m + i - 1]
  BY <1>1, <1>2, PartOfSeq
<1>5. \A i \in 1..Len(p) : p[i] = q[i]
  BY <1>1, <1>2, <1>3, <1>4
<1> QED
  BY <1>3, <1>4, <1>5, SeqEqual

(* The first n pieces of what follows the first k. *)
LEMMA PartOfPart ==
  ASSUME NEW S, NEW s \in Seq(S), NEW k \in 0..Len(s),
         NEW n \in 1..Len(SubSeq(s, k + 1, Len(s)))
  PROVE  /\ k + n \in 0..Len(s)
         /\ SubSeq(SubSeq(s, k + 1, Len(s)), 1, n) = SubSeq(s, k + 1, k + n)
<1> DEFINE r == SubSeq(s, k + 1, Len(s))
<1>1. Len(s) \in Nat
  BY LenProperties
<1>2. Len(r) = IF k + 1 <= Len(s) THEN Len(s) - k ELSE 0
  BY <1>1, PartOfSeq
<1>3. k + n \in 0..Len(s)
  BY <1>1, <1>2
<1>4. /\ k + 1 \in 1..Len(s) /\ Len(s) \in 1..Len(s)
      /\ 1 \in 1..Len(s) - (k + 1) + 1 /\ n \in 1..Len(s) - (k + 1) + 1
  BY <1>1, <1>2
<1>5. SubSeq(r, 1, n) = SubSeq(s, k + 1 + 1 - 1, k + 1 + n - 1)
  BY <1>4, SubSeqOfSubSeq
<1>6. k + 1 + 1 - 1 = k + 1 /\ k + 1 + n - 1 = k + n
  BY <1>1
<1> QED
  BY <1>3, <1>5, <1>6

(* Append on a sequence of one, for the replies of two pieces. *)
LEMMA AppendToOne ==
  ASSUME NEW a, NEW b
  PROVE  Append(<<a>>, b) = <<a, b>>
<1> DEFINE S == {a, b}
           s == Append(<<a>>, b)
<1>1. <<a>> \in Seq(S) /\ Len(<<a>>) = 1 /\ <<a>>[1] = a
  OBVIOUS
<1>2. <<a, b>> \in Seq(S) /\ Len(<<a, b>>) = 2
      /\ <<a, b>>[1] = a /\ <<a, b>>[2] = b
  OBVIOUS
<1>3. s \in Seq(S) /\ Len(s) = 2 /\ s[1] = a /\ s[2] = b
  BY <1>1, AppendProperties
<1>4. \A i \in 1..2 : s[i] = <<a, b>>[i]
  BY <1>2, <1>3
<1> QED
  BY <1>2, <1>3, <1>4, SeqEqual

(* Data is made of the alphabet's pieces. *)
LEMMA DataOK == Data \in Seq(Pieces)
<1>1. Data \in Seq(Range(Data))
  BY ProxyAssumption, SeqOfRange
<1> QED
  BY <1>1, SeqMonotonic DEF Pieces

-----------------------------------------------------------------------------
(* ConcatAssociative for pieces. *)
LEMMA Regroup ==
  ASSUME NEW a \in Seq(Pieces), NEW b \in Seq(Pieces), NEW c \in Seq(Pieces)
  PROVE  (a \o b) \o c = a \o (b \o c)
BY ConcatAssociative

(* What a read brings continues what had been read, without a gap. *)
LEMMA ReadsOn ==
  ASSUME TypesOK, NEW n \in 1..Len(Unread)
  PROVE  /\ taken + n \in 0..Len(sent)
         /\ SubSeq(Unread, 1, n) \in Seq(Pieces)
         /\ \A m \in 1..taken + 1 :
              SubSeq(sent, m, taken) \o SubSeq(Unread, 1, n)
                = SubSeq(sent, m, taken + n)
<1>1. sent \in Seq(Pieces) /\ taken \in 0..Len(sent)
  BY DEF TypesOK
<1>2. Len(sent) \in Nat
  BY <1>1, LenProperties
<1>3. /\ taken + n \in 0..Len(sent)
      /\ SubSeq(Unread, 1, n) = SubSeq(sent, taken + 1, taken + n)
  BY <1>1, PartOfPart DEF Unread
<1>4. SubSeq(Unread, 1, n) \in Seq(Pieces)
  <2>1. taken + 1 \in Nat \ {0}
    BY <1>1, <1>2
  <2>2. SubSeq(sent, taken + 1, taken + n) \in Seq(Pieces)
    BY <1>1, <1>3, <2>1, PartOfSeq
  <2> QED
    BY <1>3, <2>2
<1>5. ASSUME NEW m \in 1..taken + 1
      PROVE  SubSeq(sent, m, taken) \o SubSeq(Unread, 1, n)
               = SubSeq(sent, m, taken + n)
  <2>1. /\ m \in 1..Len(sent) + 1 /\ taken \in m - 1..Len(sent)
        /\ taken + n \in taken..Len(sent)
    BY <1>1, <1>2, <1>3
  <2> QED
    BY <1>1, <1>3, <2>1, ConcatAdjacentSubSeq
<1> QED
  BY <1>3, <1>4, <1>5

(* There is one more piece to read when something is unread. *)
LEMMA ReadsOne ==
  ASSUME TypesOK, Unread # <<>>
  PROVE  taken + 1 \in 0..Len(sent)
<1>1. sent \in Seq(Pieces) /\ taken \in 0..Len(sent)
  BY DEF TypesOK
<1>2. Len(sent) \in Nat
  BY <1>1, LenProperties
<1>3. Unread \in Seq(Pieces)
  BY <1>1, <1>2, PartOfSeq DEF Unread
<1>4. Len(Unread) \in Nat \ {0}
  BY <1>3, EmptySeq
<1> QED
  BY <1>4, ReadsOn

(* What comes first is a sequence of pieces, on either side. *)
LEMMA PrefaceOK ==
  ASSUME TypesOK
  PROVE  Preface \in Seq(Pieces) /\ Welcome \in Seq(Pieces)
<1>1. /\ <<>> \in Seq(Pieces) /\ <<"head">> \in Seq(Pieces)
      /\ <<"ok">> \in Seq(Pieces) /\ <<"method", "ok">> \in Seq(Pieces)
  <2>1. "head" \in Pieces /\ "ok" \in Pieces /\ "method" \in Pieces
    BY DEF Pieces, Words
  <2>2. \A a \in Pieces : <<a>> \in Seq(Pieces)
    OBVIOUS
  <2>3. \A a \in Pieces : \A b \in Pieces : <<a, b>> \in Seq(Pieces)
    OBVIOUS
  <2>4. <<"head">> \in Seq(Pieces) /\ <<"ok">> \in Seq(Pieces)
    BY <2>1, <2>2, Zenon
  <2>5. <<"method", "ok">> \in Seq(Pieces)
    BY <2>1, <2>3, Zenon
  <2> QED
    BY <2>4, <2>5, EmptySeq
<1> QED
  BY <1>1 DEF TypesOK, Preface, Welcome

(* Passing on what was read: the server then has all that was. *)
LEMMA PassesOn ==
  ASSUME TypesOK, NEW n \in 1..Len(Unread), taken >= 2, Given(taken)
  PROVE  given \o SubSeq(Unread, 1, n) = Preface \o SubSeq(sent, 3, taken + n)
<1> DEFINE old == SubSeq(sent, 3, taken)
           new == SubSeq(Unread, 1, n)
<1>1. sent \in Seq(Pieces) /\ taken \in 0..Len(sent)
  BY DEF TypesOK
<1>2. Preface \in Seq(Pieces)
  BY PrefaceOK
<1>3. old \in Seq(Pieces)
  BY <1>1, PartOfSeq
<1>4. new \in Seq(Pieces) /\ 3 \in 1..taken + 1
  BY <1>1, LenProperties, ReadsOn
<1>5. old \o new = SubSeq(sent, 3, taken + n)
  BY <1>4, ReadsOn
<1>6. (Preface \o old) \o new = Preface \o (old \o new)
  BY <1>2, <1>3, <1>4, Regroup
<1> QED
  BY <1>5, <1>6 DEF Given

(* The same for the next piece the server has sent. *)
LEMMA RepliesOn ==
  ASSUME TypesOK, drained < answered, Got(drained)
  PROVE  Append(got, Data[drained + 1])
           = Welcome \o SubSeq(Data, 1, drained + 1)
<1> DEFINE old == SubSeq(Data, 1, drained)
           piece == Data[drained + 1]
           last == <<piece>>
<1>1. /\ Data \in Seq(Pieces)
      /\ answered \in 0..Len(Data) /\ drained \in 0..answered
  BY DataOK DEF TypesOK
<1>2. Len(Data) \in Nat
  BY <1>1, LenProperties
<1>3. drained + 1 \in 1..Len(Data) /\ 1 \in 1..Len(Data)
  BY <1>1, <1>2
<1>4. piece \in Pieces /\ last \in Seq(Pieces)
  BY <1>1, <1>3, ElementOfSeq
<1>5. old \in Seq(Pieces)
  BY <1>1, <1>2, PartOfSeq
<1>6. SubSeq(Data, 1, drained + 1) = SubSeq(Data, 1, drained + 1 - 1) \o last
  BY <1>1, <1>3, SubSeqRecursiveSecond
<1>7. drained + 1 - 1 = drained
  BY <1>1, <1>2
<1>8. Welcome \in Seq(Pieces)
  BY PrefaceOK
<1>9. Welcome \o old \in Seq(Pieces)
  BY <1>5, <1>8, ConcatProperties
<1>10. Append(got, piece) = (Welcome \o old) \o last
  BY <1>4, <1>9, AppendIsConcat DEF Got
<1>11. (Welcome \o old) \o last = Welcome \o (old \o last)
  BY <1>4, <1>5, <1>8, Regroup
<1> QED
  BY <1>6, <1>7, <1>10, <1>11

(* Before any data there is only what comes first. *)
LEMMA Nothing ==
  ASSUME TypesOK
  PROVE  /\ Preface \o SubSeq(sent, 3, 2) = Preface
         /\ Welcome \o SubSeq(Data, 1, 0) = Welcome
<1>1. SubSeq(sent, 3, 2) = <<>> /\ SubSeq(Data, 1, 0) = <<>>
  BY SubSeqEmpty
<1> QED
  BY <1>1, PrefaceOK, ConcatEmptySeq

-----------------------------------------------------------------------------
(* The environment's steps. *)
(* The client sends more: what was read of its stream stays a part of it. *)
LEMMA ClientSendsKeeps ==
  ASSUME Inv, ClientSends
  PROVE  Inv'
<1> USE DEF Inv
<1>1. Data \in Seq(Pieces) /\ Len(Data) \in Nat
  BY DataOK, LenProperties
<1>2. sent \in Seq(Pieces) /\ Len(sent) \in Nat /\ taken \in 0..Len(sent)
  BY LenProperties DEF TypesOK
<1>3. PICK e \in Pieces : sent' = Append(sent, e)
  <2>1. Len(Greeting) = 2 /\ Greeting[1] \in Words /\ Greeting[2] \in Words
    BY DEF Greeting, Words
  <2>2. "junk" \in Words /\ Words \subseteq Pieces
    BY DEF Words, Pieces
  <2>3. CASE Len(sent) + 1 <= Len(Greeting)
    <3>1. Len(sent) + 1 \in 1..2
      BY <1>2, <2>1, <2>3
    <3> QED
      BY <2>1, <2>2, <2>3, <3>1 DEF ClientSends
  <2>4. CASE ~(Len(sent) + 1 <= Len(Greeting))
    <3>1. Len(sent) + 1 - Len(Greeting) \in 1..Len(Data)
      BY <1>1, <1>2, <2>1, <2>4 DEF ClientSends
    <3>2. Data[Len(sent) + 1 - Len(Greeting)] \in Pieces
      BY <1>1, <3>1, ElementOfSeq
    <3> QED
      BY <2>4, <3>2 DEF ClientSends
  <2> QED
    BY <2>3, <2>4
<1>4. sent' \in Seq(Pieces) /\ Len(sent') = Len(sent) + 1
  BY <1>2, <1>3, AppendProperties
<1>5. \A m \in Nat \ {0}, k \in 0..Len(sent) :
        SubSeq(sent', m, k) = SubSeq(sent, m, k)
  BY <1>2, <1>3, PartStays
<1>6. clientEnd = "no"
      /\ UNCHANGED <<proto, clientEnd, server, session, reading, writing,
                     bridge, pc>>
  BY DEF ClientSends
<1>7. SubSeq(sent', 1, taken) = SubSeq(sent, 1, taken)
      /\ \A k \in 0..taken : SubSeq(sent', 3, k) = SubSeq(sent, 3, k)
  BY <1>2, <1>5
<1>8. \A k \in 0..taken : Given(k)' <=> Given(k)
  BY <1>6, <1>7 DEF Given, Preface, writing
<1>9. \A k \in Nat : Got(k)' <=> Got(k)
  BY <1>6 DEF Got, Welcome, writing
<1>10. TypesOK'
  BY <1>2, <1>4, <1>6 DEF TypesOK, server, session, reading, writing, bridge
<1>11. AtHandshake'
  BY <1>6, <1>7 DEF AtHandshake, NothingYet, server, reading, writing, bridge
<1>12. AtOpening'
  BY <1>2, <1>6, <1>7, <1>8, <1>9
  DEF AtOpening, NothingYet, server, reading, writing, bridge
<1>13. AtBridge'
  BY <1>2, <1>6, <1>7, <1>8, <1>9
  DEF AtBridge, TypesOK, Intact, server, session, reading, writing, bridge
<1>14. AtEnd'
  BY <1>2, <1>6, <1>8, <1>9
  DEF AtEnd, Delivered, TypesOK, server, reading, writing
<1> QED
  BY <1>10, <1>11, <1>12, <1>13, <1>14

(* What else the client, the server and the session do touches neither     *)
(* stream; a side that goes away only makes the bridge's promises weaker.  *)
LEMMA OthersKeep ==
  ASSUME Inv,
         ClientEnds \/ ServerSends \/ ServerEnds \/ SshCloses \/ Dead
  PROVE  Inv'
<1> USE DEF Inv
<1>1. Data \in Seq(Pieces) /\ Len(Data) \in Nat
  BY DataOK, LenProperties
<1>2. sent \in Seq(Pieces) /\ Len(sent) \in Nat
  BY LenProperties DEF TypesOK
<1>3. UNCHANGED <<proto, sent, reading, writing, bridge, pc>>
  BY DEF ClientEnds, ServerSends, ServerEnds, SshCloses, Dead, client
<1>4. \A k \in Nat : (Given(k)' <=> Given(k)) /\ (Got(k)' <=> Got(k))
  BY <1>3 DEF Given, Got, Preface, Welcome, writing
<1>5. /\ clientEnd' \in {"no", "fin", "reset"}
      /\ clientEnd' = clientEnd \/ clientEnd' = "reset" \/ clientEnd = "no"
  BY DEF ClientEnds, ServerSends, ServerEnds, SshCloses, Dead, client, TypesOK
<1>6. /\ serverEnd' \in {"no", "eof", "close"}
      /\ serverEnd' = serverEnd \/ serverEnd' = "close" \/ serverEnd = "no"
  BY DEF ClientEnds, ServerSends, ServerEnds, SshCloses, Dead, server, TypesOK
<1>7. ssh' \in {"open", "closed"} /\ (ssh' = ssh \/ ssh' = "closed")
  BY DEF ClientEnds, ServerSends, ServerEnds, SshCloses, Dead, session, TypesOK
<1>8. /\ answered' \in 0..Len(Data) /\ drained \in 0..answered'
      /\ 0..answered \subseteq 0..answered'
  BY <1>1 DEF ClientEnds, ServerSends, ServerEnds, SshCloses, Dead, server,
              TypesOK
<1>9. /\ answered' = answered \/ serverEnd = "no"
      /\ answered' = answered \/ pc \in Opened
  BY DEF ClientEnds, ServerSends, ServerEnds, SshCloses, Dead, server
<1>10. woken' => dead'
  BY DEF ClientEnds, ServerSends, ServerEnds, SshCloses, Dead, session, TypesOK
<1>11. TypesOK'
  BY <1>3, <1>5, <1>6, <1>7, <1>8, <1>10 DEF TypesOK, reading, bridge
<1>12. AtHandshake'
  BY <1>3 DEF AtHandshake, NothingYet, reading, writing, bridge
<1>13. AtOpening'
  BY <1>3, <1>4, <1>6 DEF AtOpening, NothingYet, reading, writing, bridge
<1>14. AtBridge'
  <2> SUFFICES ASSUME pc' = "bridge"
               PROVE  AtBridge'
    BY DEF AtBridge
  <2>1. pc = "bridge" /\ taken' = taken /\ drained' = drained /\ taken \in Nat
        /\ drained \in Nat
    BY <1>1, <1>2, <1>3 DEF reading, bridge, TypesOK
  <2>2. Intact' => Intact
    BY <1>6, <1>7 DEF Intact, TypesOK
  <2>3. clientEnd' # "reset" => clientEnd # "reset"
    BY <1>5
  <2>4. /\ taken' >= 2
        /\ Intact' => Given(taken)'
        /\ given' = <<>> \/ \E k \in 2..taken' : Given(k)'
    BY <1>3, <1>4, <2>1, <2>2 DEF AtBridge, writing
  <2>5. /\ clientEnd' # "reset" => Got(drained)'
        /\ \E k \in 0..drained' : Got(k)'
    BY <1>4, <2>1, <2>3 DEF AtBridge
  <2>6. tcpDone /\ Intact' /\ clientEnd' # "reset" =>
          clientEnd' = "fin" /\ taken' = Len(sent') /\ eofGiven
    BY <1>3, <1>5, <2>1, <2>2, <2>3 DEF AtBridge
  <2>7. chanDone /\ Intact' /\ clientEnd' # "reset" =>
          serverEnd' = "eof" /\ drained' = answered'
    BY <1>6, <1>9, <2>1, <2>2, <2>3 DEF AtBridge, Intact
  <2> QED
    BY <1>3, <2>4, <2>5, <2>6, <2>7 DEF AtBridge, writing, bridge
<1>15. AtEnd'
  BY <1>1, <1>2, <1>3, <1>4, <1>8
  DEF AtEnd, Delivered, TypesOK, reading, writing
<1> QED
  BY <1>11, <1>12, <1>13, <1>14, <1>15

-----------------------------------------------------------------------------
(* The steps of the connection's task. *)
(* Wherever the task is, each side has a part of its stream. *)
LEMMA AlwaysDelivered ==
  ASSUME Inv
  PROVE  Delivered
<1> USE DEF Inv
<1>1. /\ taken \in Nat
      /\ answered \in Nat
      /\ drained \in 0..answered
  BY DataOK, LenProperties DEF TypesOK
<1>2. CASE pc \in {"spawned", "greet", "request", "head", "open", "reply"}
  BY <1>2 DEF AtHandshake, AtOpening, NothingYet, Delivered
<1>3. CASE pc = "leftover"
  BY <1>1, <1>3 DEF AtOpening, Delivered
<1>4. CASE pc = "bridge"
  BY <1>1, <1>4 DEF AtBridge, Delivered
<1>5. CASE pc = "done"
  BY <1>5 DEF AtEnd
<1> QED
  BY <1>2, <1>3, <1>4, <1>5 DEF TypesOK, Handshake, Opened

(* And keeps it while nothing is written. *)
LEMMA StaysDelivered ==
  ASSUME TypesOK, Delivered, UNCHANGED <<proto, sent, answered, got, given>>,
         taken' \in taken..Len(sent)
  PROVE  Delivered'
<1>1. taken \in Nat /\ Len(sent) \in Nat
  BY LenProperties DEF TypesOK
<1>2. \A k : (Given(k)' <=> Given(k)) /\ (Got(k)' <=> Got(k))
  BY DEF Given, Got, Preface, Welcome
<1>3. 2..taken \subseteq 2..taken'
  BY <1>1
<1> QED
  BY <1>2, <1>3 DEF Delivered

(* The task ends without a word. *)
LEMMA EndKeeps ==
  ASSUME Inv, End, UNCHANGED <<client, server, session, writing, drained>>,
         taken' \in taken..Len(sent), buf' \in Seq(Pieces)
  PROVE  Inv'
<1> USE DEF Inv
<1>1. Delivered'
  BY AlwaysDelivered, StaysDelivered DEF client, server, writing
<1>2. taken' \in 0..Len(sent)
  BY LenProperties DEF TypesOK
<1>3. TypesOK'
  BY <1>2 DEF TypesOK, End, client, server, session
<1> QED
  BY <1>1, <1>3
  DEF End, AtHandshake, AtOpening, AtBridge, AtEnd, Handshake, Opened

(* The task refuses the request and ends. *)
LEMMA RepliesKeeps ==
  ASSUME Inv, NEW piece, Replies(piece, "done"),
         given = <<>>, Append(got, piece) \in Refusals,
         UNCHANGED <<client, server, session, drained>>,
         taken' \in taken..Len(sent), buf' \in Seq(Pieces)
  PROVE  Inv'
<1> USE DEF Inv
<1>1. CASE clientEnd = "reset"
  BY <1>1, EndKeeps DEF Replies
<1>2. CASE clientEnd # "reset"
  <2>1. pc' = "done" /\ got' \in Refusals /\ given' = <<>>
    BY <1>2 DEF Replies
  <2>2. Delivered'
    BY <2>1 DEF Delivered, Refusals
  <2>3. taken' \in 0..Len(sent)
    BY LenProperties DEF TypesOK
  <2>4. TypesOK'
    BY <2>1, <2>3 DEF TypesOK, client, server, session
  <2> QED
    BY <2>1, <2>2, <2>4
    DEF AtHandshake, AtOpening, AtBridge, AtEnd, Handshake, Opened
<1> QED
  BY <1>1, <1>2

(* The task is polled for the first time. *)
LEMMA SpawnedKeeps ==
  ASSUME Inv, Spawned
  PROVE  Inv'
<1> USE DEF Inv
<1>1. SubSeq(sent, 1, 0) = <<>>
  BY SubSeqEmpty
<1>2. /\ pc = "spawned"
      /\ IF proto = "socks" THEN pc' = "greet" ELSE pc' = "head"
      /\ UNCHANGED <<client, server, session, reading, writing, bridge>>
  BY DEF Spawned
<1>3. TypesOK'
  BY <1>2 DEF TypesOK, Handshake, client, server, session, reading, bridge
<1>4. AtHandshake'
  BY <1>1, <1>2
  DEF AtHandshake, NothingYet, client, reading, writing, bridge
<1> QED
  BY <1>2, <1>3, <1>4 DEF AtOpening, AtBridge, AtEnd

(* The session or the handshake's time is over. *)
LEMMA StopsKeep ==
  ASSUME Inv, SessionEnded \/ HandshakeFails
  PROVE  Inv'
<1>1. /\ End
      /\ UNCHANGED <<client, server, session, writing, drained>>
      /\ taken' = taken /\ buf' = buf
  BY DEF SessionEnded, HandshakeFails, reading, bridge
<1>2. taken' \in taken..Len(sent) /\ buf' \in Seq(Pieces)
  BY <1>1, LenProperties DEF Inv, TypesOK
<1> QED
  BY <1>1, <1>2, EndKeeps

(* SOCKS reads one part of its handshake at a time, so nothing is left. *)
LEMMA SocksGreetKeeps ==
  ASSUME Inv, SocksGreet
  PROVE  Inv'
<1> USE DEF Inv
<1>1. /\ pc = "greet" /\ proto = "socks"
      /\ taken = 0 /\ buf = <<>> /\ got = <<>> /\ NothingYet
  BY DEF SocksGreet, AtHandshake
<1>2. taken' = 1 /\ taken' \in 0..Len(sent) /\ taken' \in taken..Len(sent)
  BY <1>1, ReadsOne DEF SocksGreet
<1>3. UNCHANGED <<client, server, session, buf, bridge>>
  BY DEF SocksGreet
<1>4. buf' \in Seq(Pieces)
  BY <1>3 DEF TypesOK
<1>5. CASE End /\ UNCHANGED writing
  BY <1>2, <1>3, <1>4, <1>5, EndKeeps DEF bridge
<1>6. CASE Replies("none", "done")
  <2>1. Append(got, "none") \in Refusals
    BY <1>1 DEF Refusals
  <2> QED
    BY <1>1, <1>2, <1>3, <1>4, <1>6, <2>1, RepliesKeeps DEF NothingYet, bridge
<1>7. CASE clientEnd # "reset" /\ Replies("method", "request")
  <2>1. /\ got' = <<"method">> /\ pc' = "request"
        /\ UNCHANGED <<shut, given, eofGiven>>
    BY <1>1, <1>7 DEF Replies
  <2>2. TypesOK'
    BY <1>2, <1>3, <2>1
    DEF TypesOK, Handshake, client, server, session, bridge
  <2>3. AtHandshake'
    BY <1>1, <1>2, <1>3, <2>1
    DEF AtHandshake, NothingYet, client, server, bridge
  <2> QED
    BY <2>1, <2>2, <2>3 DEF AtOpening, AtBridge, AtEnd
<1> QED
  BY <1>5, <1>6, <1>7 DEF SocksGreet, Replies, Silent

(* The same for the request. *)
LEMMA SocksRequestKeeps ==
  ASSUME Inv, SocksRequest
  PROVE  Inv'
<1> USE DEF Inv
<1>1. /\ pc = "request" /\ proto = "socks"
      /\ taken = 1 /\ buf = <<>> /\ got = <<"method">> /\ NothingYet
  BY DEF SocksRequest, AtHandshake
<1>2. taken' = 2 /\ taken' \in 0..Len(sent) /\ taken' \in taken..Len(sent)
  BY <1>1, ReadsOne DEF SocksRequest
<1>3. UNCHANGED <<client, server, session, buf, bridge>>
  BY DEF SocksRequest
<1>4. buf' \in Seq(Pieces)
  BY <1>3 DEF TypesOK
<1>5. CASE End /\ UNCHANGED writing
  BY <1>2, <1>3, <1>4, <1>5, EndKeeps DEF bridge
<1>6. CASE Replies("refused", "done")
  <2>1. Append(got, "refused") \in Refusals
    BY <1>1, AppendToOne DEF Refusals
  <2> QED
    BY <1>1, <1>2, <1>3, <1>4, <1>6, <2>1, RepliesKeeps DEF NothingYet, bridge
<1>7. CASE pc' = "open" /\ UNCHANGED writing
  <2>1. SubSeq(sent, 3, 2) = <<>>
    BY SubSeqEmpty
  <2>2. TypesOK'
    BY <1>2, <1>3, <1>7 DEF TypesOK, client, server, session, bridge
  <2>3. AtOpening'
    BY <1>1, <1>2, <1>3, <1>7, <2>1
    DEF AtOpening, NothingYet, client, server, writing, bridge
  <2> QED
    BY <1>7, <2>2, <2>3 DEF AtHandshake, AtBridge, AtEnd
<1> QED
  BY <1>5, <1>6, <1>7 DEF SocksRequest, Silent

(* An accepted head is the greeting, so its blank line is the second       *)
(* piece, and what is kept is what the client sent after it.               *)
LEMMA HttpHeadKeeps ==
  ASSUME Inv, HttpHead
  PROVE  Inv'
<1> USE DEF Inv
<1>1. /\ pc = "head" /\ proto # "socks"
      /\ buf = SubSeq(sent, 1, taken) /\ got = <<>> /\ NothingYet
  BY DEF HttpHead, AtHandshake
<1>2. sent \in Seq(Pieces) /\ Len(sent) \in Nat /\ taken \in 0..Len(sent)
  BY LenProperties DEF TypesOK
<1>3. UNCHANGED <<client, server, session, bridge>>
  BY DEF HttpHead
<1> DEFINE all(n) == buf \o SubSeq(Unread, 1, n)
           blanks(n) == {i \in 1..Len(all(n)) : all(n)[i] = "blank"}
<1>4. PICK n \in 1..Len(Unread) :
        /\ taken' = taken + n
        /\ \/ Silent /\ UNCHANGED buf
           \/ buf' = all(n) /\ UNCHANGED <<pc, writing>>
           \/ \E end \in blanks(n) :
                /\ buf' = SubSeq(all(n), end + 1, Len(all(n)))
                /\ IF Accepted(SubSeq(all(n), 1, end))
                   THEN pc' = "open" /\ UNCHANGED writing
                   ELSE Replies("refused", "done")
  BY DEF HttpHead
<1> DEFINE k == taken + n
<1>5. k \in 1..Len(sent) /\ k \in taken..Len(sent) /\ taken' = k
  BY <1>2, <1>4, ReadsOn
<1>6. all(n) = SubSeq(sent, 1, k)
  <2>1. TypesOK /\ 1 \in 1..taken + 1
    BY <1>2
  <2>2. SubSeq(sent, 1, taken) \o SubSeq(Unread, 1, n) = SubSeq(sent, 1, k)
    BY <2>1, ReadsOn
  <2> QED
    BY <1>1, <2>2
<1>7. all(n) \in Seq(Pieces) /\ Len(all(n)) = k
  <2>1. k \in 0..Len(sent)
    BY <1>2, <1>5
  <2>2. SubSeq(sent, 1, k) \in Seq(Pieces) /\ Len(SubSeq(sent, 1, k)) = k
    <3> HIDE DEF k
    <3> QED
      BY <1>2, <1>5, <2>1, PartOfSeq
  <2> HIDE DEF all
  <2> QED
    BY <1>6, <2>2
<1>8. CASE Silent /\ UNCHANGED buf
  BY <1>3, <1>5, <1>8, EndKeeps DEF TypesOK, Silent, bridge
<1>9. CASE buf' = all(n) /\ UNCHANGED <<pc, writing>>
  <2>1. TypesOK'
    BY <1>2, <1>3, <1>5, <1>7, <1>9
    DEF TypesOK, client, server, session, bridge
  <2>2. AtHandshake'
    BY <1>1, <1>3, <1>5, <1>6, <1>9
    DEF AtHandshake, NothingYet, client, writing, bridge
  <2> QED
    BY <1>1, <1>9, <2>1, <2>2 DEF AtOpening, AtBridge, AtEnd
<1>10. ASSUME NEW end \in blanks(n),
              buf' = SubSeq(all(n), end + 1, Len(all(n))),
              IF Accepted(SubSeq(all(n), 1, end))
              THEN pc' = "open" /\ UNCHANGED writing
              ELSE Replies("refused", "done")
       PROVE  Inv'
  <2> HIDE DEF all, k
  <2>1. end \in 1..k
    BY <1>7, <1>10
  <2>2. SubSeq(all(n), end + 1, k) \in Seq(Pieces)
        /\ Len(SubSeq(all(n), 1, end)) = end
    BY <1>5, <1>7, <2>1, PartOfSeq
  <2>3. buf' \in Seq(Pieces)
    BY <1>7, <1>10, <2>2
  <2>4. CASE Accepted(SubSeq(all(n), 1, end))
    <3>1. end = 2
      BY <1>1, <2>2, <2>4 DEF Accepted, Greeting
    <3>2. SubSeq(all(n), 3, k) = SubSeq(sent, 3, k)
      <4>1. CASE k = 2
        BY <4>1, SubSeqEmpty
      <4>2. CASE k >= 3
        <5>1. /\ 1 \in 1..Len(sent) /\ k \in 1..Len(sent)
              /\ 3 \in 1..k - 1 + 1 /\ k \in 1..k - 1 + 1
          BY <1>2, <1>5, <4>2
        <5>2. SubSeq(SubSeq(sent, 1, k), 3, k)
                = SubSeq(sent, 1 + 3 - 1, 1 + k - 1)
          BY <1>2, <5>1, SubSeqOfSubSeq
        <5> QED
          BY <1>2, <1>5, <1>6, <5>2
      <4> QED
        BY <2>1, <3>1, <1>5, <4>1, <4>2
    <3>3. /\ pc' = "open" /\ UNCHANGED writing
          /\ taken' >= 2 /\ buf' = SubSeq(sent, 3, taken')
      BY <1>5, <1>7, <1>10, <2>1, <2>4, <3>1, <3>2
    <3>4. TypesOK'
      BY <1>2, <1>3, <1>5, <2>3, <3>3
      DEF TypesOK, client, server, session, bridge
    <3>5. AtOpening'
      BY <1>1, <1>3, <3>3
      DEF AtOpening, NothingYet, client, writing, bridge
    <3> QED
      BY <3>3, <3>4, <3>5 DEF AtHandshake, AtBridge, AtEnd
  <2>5. CASE ~Accepted(SubSeq(all(n), 1, end))
    <3>1. Replies("refused", "done")
      BY <1>10, <2>5
    <3>2. Append(got, "refused") \in Refusals
      BY <1>1 DEF Refusals
    <3> QED
      BY <1>1, <1>3, <1>5, <2>3, <3>1, <3>2, RepliesKeeps
      DEF NothingYet, bridge
  <2> QED
    BY <2>4, <2>5
<1> QED
  BY <1>4, <1>8, <1>9, <1>10

(* The channel opens, or the client is refused. *)
LEMMA OpenKeeps ==
  ASSUME Inv, Open
  PROVE  Inv'
<1> USE DEF Inv
<1>1. /\ pc = "open"
      /\ taken >= 2 /\ buf = SubSeq(sent, 3, taken)
      /\ got = IF proto = "socks" THEN <<"method">> ELSE <<>>
      /\ NothingYet
  BY DEF Open, AtOpening
<1>2. UNCHANGED <<client, server, session, reading, bridge>>
  BY DEF Open
<1>3. CASE pc' = "reply" /\ UNCHANGED writing
  <2>1. TypesOK'
    BY <1>2, <1>3
    DEF TypesOK, Opened, client, server, session, reading, bridge
  <2>2. AtOpening'
    BY <1>1, <1>2, <1>3
    DEF AtOpening, NothingYet, client, reading, writing, bridge
  <2> QED
    BY <1>3, <2>1, <2>2 DEF AtHandshake, AtBridge, AtEnd
<1>4. CASE Replies("refused", "done")
  <2>1. Append(got, "refused") \in Refusals
    <3>1. CASE proto = "socks"
      <4>1. got = <<"method">>
        BY <1>1, <3>1
      <4>2. Append(got, "refused") = <<"method", "refused">>
        BY <4>1, AppendToOne
      <4> QED
        BY <4>2 DEF Refusals
    <3>2. CASE proto # "socks"
      BY <1>1, <3>2 DEF Refusals
    <3> QED
      BY <3>1, <3>2
  <2>2. taken' \in taken..Len(sent) /\ buf' \in Seq(Pieces)
    BY <1>2, LenProperties DEF TypesOK, reading
  <2> QED
    BY <1>1, <1>2, <1>4, <2>1, <2>2, RepliesKeeps DEF NothingYet, bridge
<1> QED
  BY <1>3, <1>4 DEF Open

(* The reply, or the head of a forwarded request. *)
LEMMA ReplyKeeps ==
  ASSUME Inv, Reply
  PROVE  Inv'
<1> USE DEF Inv
<1>1. /\ pc = "reply"
      /\ taken >= 2 /\ buf = SubSeq(sent, 3, taken)
      /\ got = IF proto = "socks" THEN <<"method">> ELSE <<>>
      /\ NothingYet
  BY DEF Reply, AtOpening
<1>2. UNCHANGED <<client, server, session, reading, bridge>>
  BY DEF Reply
<1>3. taken' \in taken..Len(sent) /\ buf' \in Seq(Pieces)
  BY <1>2, LenProperties DEF TypesOK, reading
<1>4. CASE End /\ UNCHANGED writing
  BY <1>2, <1>3, <1>4, EndKeeps DEF bridge
<1>5. CASE /\ pc' = "leftover" /\ got' = Welcome
           /\ given' = Preface \/ (given' = <<>> /\ serverEnd = "close")
  <2>1. Got(0)' /\ (Given(2)' \/ (given' = <<>> /\ serverEnd' = "close"))
    BY <1>2, <1>5, Nothing DEF Got, Given, Welcome, Preface, client, server
  <2>2. TypesOK'
    BY <1>2, <1>5
    DEF TypesOK, Opened, client, server, session, reading, bridge
  <2>3. AtOpening'
    BY <1>1, <1>2, <1>5, <2>1
    DEF AtOpening, NothingYet, client, reading, bridge
  <2> QED
    BY <1>5, <2>2, <2>3 DEF AtHandshake, AtBridge, AtEnd
<1>6. CASE proto = "forward"
  <2>1. CASE DataPasses(<<"head">>) /\ pc' = "leftover"
    <3>1. <<>> \o <<"head">> = <<"head">>
      OBVIOUS
    <3>2. got' = Welcome
      BY <1>1, <1>6, <2>1 DEF DataPasses, Welcome
    <3>3. given' = Preface \/ (given' = <<>> /\ serverEnd = "close")
      BY <1>1, <1>6, <2>1, <3>1 DEF DataPasses, Preface, NothingYet
    <3> QED
      BY <1>5, <2>1, <3>2, <3>3
  <2>2. CASE DataFails /\ End
    BY <1>4, <2>2 DEF DataFails
  <2> QED
    BY <1>6, <2>1, <2>2 DEF Reply, Gives
<1>7. CASE proto # "forward" /\ clientEnd # "reset"
  <2>1. /\ got' = Append(got, "ok") /\ pc' = "leftover"
        /\ given' = <<>>
    BY <1>1, <1>7 DEF Reply, Replies, NothingYet
  <2>2. given' = Preface
    BY <1>7, <2>1 DEF Preface
  <2>3. got' = Welcome
    <3>1. CASE proto = "socks"
      <4>1. got = <<"method">>
        BY <1>1, <3>1
      <4>2. Append(got, "ok") = <<"method", "ok">>
        BY <4>1, AppendToOne
      <4> QED
        BY <2>1, <3>1, <4>2 DEF Welcome
    <3>2. CASE proto = "connect"
      BY <1>1, <2>1, <3>2 DEF Welcome
    <3> QED
      BY <1>7, <3>1, <3>2 DEF TypesOK
  <2> QED
    BY <1>5, <2>1, <2>2, <2>3
<1> QED
  BY <1>4, <1>6, <1>7 DEF Reply, Replies

(* What came with the head is passed on before the bridge starts. *)
LEMMA LeftoverKeeps ==
  ASSUME Inv, Leftover
  PROVE  Inv'
<1> USE DEF Inv
<1>1. /\ pc = "leftover" /\ taken >= 2 /\ buf = SubSeq(sent, 3, taken)
      /\ Got(0) /\ (Given(2) \/ (given = <<>> /\ serverEnd = "close"))
      /\ drained = 0 /\ ~tcpDone /\ ~chanDone
  BY DEF Leftover, AtOpening
<1>2. UNCHANGED <<client, server, session, reading, bridge>>
  BY DEF Leftover
<1>3. sent \in Seq(Pieces) /\ Len(sent) \in Nat /\ taken \in 2..Len(sent)
  BY <1>1, LenProperties DEF TypesOK
<1>4. CASE End /\ UNCHANGED writing
  <2>1. taken' \in taken..Len(sent) /\ buf' \in Seq(Pieces)
    BY <1>2, <1>3 DEF TypesOK, reading
  <2> QED
    BY <1>2, <1>4, <2>1, EndKeeps DEF bridge
<1>5. CASE /\ pc' = "bridge" /\ got' = got
           /\ \/ Given(taken)'
              \/ ~Intact' /\ (given' = <<>> \/ Given(2)')
  <2>1. Got(0)'
    BY <1>1, <1>2, <1>5 DEF Got, Welcome, client
  <2>2. taken' = taken /\ drained' = 0 /\ ~tcpDone' /\ ~chanDone'
    BY <1>1, <1>2 DEF reading, bridge
  <2>3. TypesOK'
    BY <1>2, <1>5
    DEF TypesOK, Opened, client, server, session, reading, bridge
  <2>4. given' = <<>> \/ \E k \in 2..taken' : Given(k)'
    <3>1. taken \in 2..taken /\ 2 \in 2..taken
      BY <1>3
    <3>2. Given(taken)' => \E k \in 2..taken' : Given(k)'
      BY <2>2, <3>1 DEF Given
    <3> QED
      BY <1>5, <2>2, <3>1, <3>2
  <2>5. AtBridge'
    BY <1>3, <1>5, <2>1, <2>2, <2>4 DEF AtBridge
  <2> QED
    BY <1>5, <2>3, <2>5 DEF AtHandshake, AtOpening, AtEnd
<1>6. CASE buf = <<>> /\ pc' = "bridge" /\ UNCHANGED writing
  <2>1. taken = 2
    <3>1. Len(SubSeq(sent, 3, taken)) = IF 3 <= taken THEN taken - 3 + 1 ELSE 0
      BY <1>3, PartOfSeq
    <3>2. Len(buf) = 0
      BY <1>6
    <3> QED
      BY <1>1, <1>3, <3>1, <3>2
  <2>2. Given(2) => Given(taken)'
    BY <1>2, <1>6, <2>1 DEF Given, Preface, client, reading, writing
  <2>3. given = <<>> /\ serverEnd = "close" => ~Intact' /\ given' = <<>>
    BY <1>2, <1>6 DEF Intact, server, writing
  <2> QED
    BY <1>1, <1>5, <1>6, <2>2, <2>3 DEF writing
<1>7. CASE DataPasses(buf) /\ pc' = "bridge"
  <2>1. CASE serverEnd = "close"
    <3>1. ~Intact' /\ given' = given /\ got' = got
      BY <1>2, <1>7, <2>1 DEF DataPasses, Intact, server
    <3>2. Given(2) => Given(2)'
      BY <1>2, <3>1 DEF Given, Preface, client
    <3> QED
      BY <1>1, <1>5, <1>7, <3>1, <3>2
  <2>2. CASE serverEnd # "close"
    <3>1. given = Preface
      BY <1>1, <2>2, Nothing DEF Given
    <3>2. given' = Preface \o SubSeq(sent, 3, taken) /\ got' = got
      BY <1>1, <1>7, <2>2, <3>1 DEF DataPasses
    <3>3. Given(taken)'
      BY <1>2, <3>2 DEF Given, Preface, client, reading
    <3> QED
      BY <1>5, <1>7, <3>2, <3>3
  <2> QED
    BY <2>1, <2>2
<1>8. CASE DataFails /\ End
  BY <1>4, <1>8 DEF DataFails
<1> QED
  BY <1>6, <1>7, <1>8 DEF Leftover, Gives

(* The bridge passes on what it reads, or finds that it cannot. *)
LEMMA FromClientKeeps ==
  ASSUME Inv, FromClient
  PROVE  Inv'
<1> USE DEF Inv
<1>1. /\ pc = "bridge" /\ ~tcpDone /\ clientEnd # "reset"
      /\ UNCHANGED <<client, server, session, buf, drained, pc>>
  BY DEF FromClient, Bridge
<1>2. PICK n \in 1..Len(Unread) :
        /\ taken' = taken + n
        /\ \/ /\ DataPasses(SubSeq(Unread, 1, n))
              /\ UNCHANGED <<tcpDone, chanDone>>
           \/ DataFails /\ BothDone
  BY DEF FromClient
<1>3. sent \in Seq(Pieces) /\ Len(sent) \in Nat /\ taken \in 2..Len(sent)
  BY <1>1, LenProperties DEF TypesOK, AtBridge
<1>4. taken' \in 0..Len(sent) /\ taken' > taken
  BY <1>2, <1>3, ReadsOn
<1>5. TypesOK'
  BY <1>1, <1>4 DEF TypesOK, client, server, session
<1>6. got' = got
  BY <1>2 DEF DataPasses, DataFails, writing
<1>7. \A k : Got(k)' <=> Got(k)
  BY <1>1, <1>6 DEF Got, Welcome, client
<1>8. Got(drained)' /\ \E k \in 0..drained' : Got(k)'
  BY <1>1, <1>7 DEF AtBridge, Got
<1>9. ASSUME given' = given
      PROVE  given' = <<>> \/ \E k \in 2..taken' : Given(k)'
  <2>1. given = <<>> \/ \E k \in 2..taken : Given(k)
    BY <1>1 DEF AtBridge
  <2>2. \A k : Given(k) => Given(k)'
    BY <1>1, <1>9 DEF Given, Preface, client
  <2>3. 2..taken \subseteq 2..taken'
    BY <1>3, <1>4
  <2> QED
    BY <1>9, <2>1, <2>2, <2>3
<1>10. CASE ~Intact /\ given' = given
            /\ (UNCHANGED <<tcpDone, chanDone>> \/ BothDone)
  <2>1. ~Intact'
    BY <1>1, <1>10 DEF Intact, server, session
  <2>2. given' = <<>> \/ \E k \in 2..taken' : Given(k)'
    BY <1>9, <1>10
  <2>3. taken' >= 2
    BY <1>3, <1>4
  <2>4. AtBridge'
    BY <1>8, <2>1, <2>2, <2>3 DEF AtBridge
  <2> QED
    BY <1>1, <1>5, <2>4 DEF AtHandshake, AtOpening, AtEnd
<1>11. CASE /\ Intact /\ DataPasses(SubSeq(Unread, 1, n))
            /\ UNCHANGED <<tcpDone, chanDone>>
  <2>1. Given(taken)
    BY <1>1, <1>11 DEF AtBridge
  <2>2. given' = Preface \o SubSeq(sent, 3, taken + n)
    <3>1. taken >= 2
      BY <1>3
    <3>2. given \o SubSeq(Unread, 1, n)
            = Preface \o SubSeq(sent, 3, taken + n)
      BY <2>1, <3>1, PassesOn
    <3> QED
      BY <1>11, <3>2 DEF DataPasses, Intact
  <2>3. Given(taken)'
    BY <1>1, <1>2, <2>2 DEF Given, Preface, client
  <2>4. \E k \in 2..taken' : Given(k)'
    <3>1. taken' \in 2..taken'
      BY <1>3, <1>4
    <3> QED
      BY <2>3, <3>1 DEF Given
  <2>5. chanDone' /\ Intact' /\ clientEnd' # "reset" =>
          serverEnd' = "eof" /\ drained' = answered'
    BY <1>1, <1>11 DEF AtBridge, Intact, client, server, session
  <2>6. AtBridge'
    BY <1>1, <1>3, <1>4, <1>8, <1>11, <2>3, <2>4, <2>5 DEF AtBridge
  <2> QED
    BY <1>1, <1>5, <2>6 DEF AtHandshake, AtOpening, AtEnd
<1> QED
  <2>1. CASE DataFails /\ BothDone
    BY <1>10, <2>1 DEF DataFails, Intact, writing
  <2>2. CASE /\ DataPasses(SubSeq(Unread, 1, n))
             /\ UNCHANGED <<tcpDone, chanDone>>
    BY <1>10, <1>11, <2>2 DEF DataPasses, Intact
  <2> QED
    BY <1>2, <2>1, <2>2

(* An end of the client's stream is seen after all that came before it. *)
LEMMA ClientEndedKeeps ==
  ASSUME Inv, ClientEnded
  PROVE  Inv'
<1> USE DEF Inv
<1>1. /\ pc = "bridge" /\ eofGiven' = TRUE
      /\ UNCHANGED <<client, server, session, reading, got, shut, given,
                     drained, chanDone, pc>>
  BY DEF ClientEnded, Bridge
<1>2. sent \in Seq(Pieces) /\ Len(sent) \in Nat /\ taken \in 2..Len(sent)
  BY <1>1, LenProperties DEF TypesOK, AtBridge
<1>3. clientEnd # "reset" => clientEnd = "fin" /\ taken = Len(sent)
  <2> SUFFICES ASSUME clientEnd = "fin", Unread = <<>>
               PROVE  taken = Len(sent)
    BY DEF ClientEnded
  <2>1. taken + 1 \in Nat \ {0} /\ Len(sent) \in 0..Len(sent)
    BY <1>2
  <2>2. Len(Unread) = IF taken + 1 <= Len(sent)
                      THEN Len(sent) - (taken + 1) + 1 ELSE 0
    BY <1>2, <2>1, PartOfSeq DEF Unread
  <2>3. Len(Unread) = 0
    OBVIOUS
  <2> QED
    BY <1>2, <2>2, <2>3
<1>4. \A k : (Given(k)' <=> Given(k)) /\ (Got(k)' <=> Got(k))
  BY <1>1 DEF Given, Got, Preface, Welcome, client
<1>5. TypesOK'
  BY <1>1 DEF TypesOK, client, server, session, reading
<1>6. AtBridge'
  <2>1. /\ Intact' => Given(taken)'
        /\ given' = <<>> \/ \E k \in 2..taken' : Given(k)'
    BY <1>1, <1>4
    DEF AtBridge, Intact, Given, server, session, reading
  <2>2. /\ clientEnd' # "reset" => Got(drained)'
        /\ \E k \in 0..drained' : Got(k)'
    BY <1>1, <1>4 DEF AtBridge, Got, client
  <2>3. chanDone' /\ Intact' /\ clientEnd' # "reset" =>
          serverEnd' = "eof" /\ drained' = answered'
    BY <1>1 DEF AtBridge, Intact, client, server, session
  <2> QED
    BY <1>1, <1>2, <1>3, <2>1, <2>2, <2>3 DEF AtBridge, client, reading
<1> QED
  BY <1>1, <1>5, <1>6 DEF AtHandshake, AtOpening, AtEnd

(* The bridge writes what it drains, or finds the client gone. *)
LEMMA FromServerKeeps ==
  ASSUME Inv, FromServer
  PROVE  Inv'
<1> USE DEF Inv
<1>1. /\ pc = "bridge" /\ ~chanDone /\ drained < answered
      /\ drained' = drained + 1
      /\ UNCHANGED <<client, server, session, reading, shut, given, eofGiven,
                     pc>>
  BY DEF FromServer, Bridge
<1>2. /\ Len(Data) \in Nat
      /\ answered \in 0..Len(Data) /\ drained \in 0..answered
      /\ drained' \in 0..answered
  BY <1>1, DataOK, LenProperties DEF TypesOK
<1>3. TypesOK'
  BY <1>1, <1>2 DEF TypesOK, client, server, session, reading
<1>4. \A k : Given(k)' <=> Given(k)
  BY <1>1 DEF Given, Preface, client
<1>5. /\ taken' >= 2
      /\ Intact' => Given(taken)'
      /\ given' = <<>> \/ \E k \in 2..taken' : Given(k)'
  BY <1>1, <1>4
  DEF AtBridge, Intact, Given, server, session, reading
<1>6. CASE clientEnd = "reset"
  <2>1. got' = got /\ clientEnd' = "reset"
    BY <1>1, <1>6 DEF FromServer, client
  <2>2. \E k \in 0..drained' : Got(k)'
    <3>1. \E k \in 0..drained : Got(k)
      BY <1>1 DEF AtBridge
    <3>2. 0..drained \subseteq 0..drained'
      BY <1>1, <1>2
    <3>3. \A k : Got(k) => Got(k)'
      BY <1>1, <2>1 DEF Got, Welcome, client
    <3> QED
      BY <3>1, <3>2, <3>3
  <2>3. AtBridge'
    BY <1>5, <2>1, <2>2 DEF AtBridge
  <2> QED
    BY <1>1, <1>3, <2>3 DEF AtHandshake, AtOpening, AtEnd
<1>7. CASE clientEnd # "reset"
  <2>1. /\ got' = Append(got, Data[drained + 1])
        /\ UNCHANGED <<tcpDone, chanDone>>
    BY <1>7 DEF FromServer
  <2>2. Got(drained)
    BY <1>1, <1>7 DEF AtBridge
  <2>3. got' = Welcome \o SubSeq(Data, 1, drained + 1)
    BY <1>1, <2>1, <2>2, RepliesOn
  <2>4. Got(drained)'
    BY <1>1, <2>3 DEF Got, Welcome, client
  <2>5. \E k \in 0..drained' : Got(k)'
    <3>1. drained' \in 0..drained'
      BY <1>1, <1>2
    <3> QED
      BY <2>4, <3>1 DEF Got
  <2>6. tcpDone' /\ Intact' /\ clientEnd' # "reset" =>
          clientEnd' = "fin" /\ taken' = Len(sent') /\ eofGiven'
    BY <1>1, <2>1 DEF AtBridge, Intact, client, server, session, reading
  <2>7. AtBridge'
    BY <1>1, <1>5, <2>1, <2>4, <2>5, <2>6 DEF AtBridge
  <2> QED
    BY <1>1, <1>3, <2>7 DEF AtHandshake, AtOpening, AtEnd
<1> QED
  BY <1>6, <1>7

(* An end of the server's stream is seen after all that came before it. *)
LEMMA ServerEndedKeeps ==
  ASSUME Inv, ServerEnded
  PROVE  Inv'
<1> USE DEF Inv
<1>1. /\ pc = "bridge" /\ drained = answered
      /\ serverEnd # "no" \/ ssh = "closed"
      /\ UNCHANGED <<client, server, session, reading, got, given, eofGiven,
                     drained, tcpDone, pc>>
  BY DEF ServerEnded, Bridge
<1>2. TypesOK'
  BY <1>1 DEF TypesOK, client, server, session, reading
<1>3. \A k : (Given(k)' <=> Given(k)) /\ (Got(k)' <=> Got(k))
  BY <1>1 DEF Given, Got, Preface, Welcome, client
<1>4. AtBridge'
  <2>1. /\ taken' >= 2
        /\ Intact' => Given(taken)'
        /\ given' = <<>> \/ \E k \in 2..taken' : Given(k)'
    BY <1>1, <1>3
    DEF AtBridge, Intact, Given, server, session, reading
  <2>2. /\ clientEnd' # "reset" => Got(drained)'
        /\ \E k \in 0..drained' : Got(k)'
    BY <1>1, <1>3 DEF AtBridge, Got, client
  <2>3. tcpDone' /\ Intact' /\ clientEnd' # "reset" =>
          clientEnd' = "fin" /\ taken' = Len(sent') /\ eofGiven'
    BY <1>1 DEF AtBridge, Intact, client, server, session, reading
  <2>4. Intact' => serverEnd' = "eof" /\ drained' = answered'
    BY <1>1 DEF TypesOK, Intact, server, session
  <2> QED
    BY <2>1, <2>2, <2>3, <2>4 DEF AtBridge
<1> QED
  BY <1>1, <1>2, <1>4 DEF AtHandshake, AtOpening, AtEnd

(* The bridge ends with what was delivered by then. *)
LEMMA BridgeEndsKeeps ==
  ASSUME Inv, BridgeEnds
  PROVE  Inv'
<1> USE DEF Inv
<1>1. /\ pc = "bridge" /\ End
      /\ UNCHANGED <<client, server, session, reading, got, given, eofGiven,
                     bridge>>
  BY DEF BridgeEnds
<1>2. Delivered'
  <2>1. taken' \in taken..Len(sent)
    BY <1>1, LenProperties DEF TypesOK, reading
  <2> QED
    BY <1>1, <2>1, AlwaysDelivered, StaysDelivered DEF client, server
<1>3. TypesOK'
  BY <1>1 DEF TypesOK, End, client, server, session, reading, bridge
<1> QED
  BY <1>1, <1>2, <1>3
  DEF End, AtHandshake, AtOpening, AtBridge, AtEnd, Handshake, Opened

-----------------------------------------------------------------------------
(* The invariant holds: each step of the code, and of its environment,     *)
(* keeps it (socks.rs and http.rs handle_conn, tunnel.rs bridge).          *)
THEOREM Inductive == Spec => []Inv
<1>1. Init => Inv
  <2> SUFFICES ASSUME Init
               PROVE  Inv
    OBVIOUS
  <2>1. Len(Data) \in Nat
    BY DataOK, LenProperties
  <2>2. <<>> \in Seq(Pieces) /\ Len(<<>>) = 0
    BY EmptySeq
  <2>3. TypesOK
    BY <2>1, <2>2 DEF Init, TypesOK
  <2>4. AtHandshake
    BY DEF Init, AtHandshake, NothingYet
  <2> QED
    BY <2>3, <2>4 DEF Init, Inv, AtOpening, AtBridge, AtEnd
<1>2. Inv /\ [Next]_vars => Inv'
  <2> SUFFICES ASSUME Inv, [Next]_vars
               PROVE  Inv'
    OBVIOUS
  <2>1. CASE Environment
    BY <2>1, ClientSendsKeeps, OthersKeep DEF Environment
  <2>2. CASE Spawned \/ SessionEnded
    BY <2>2, SpawnedKeeps, StopsKeep
  <2>3. CASE Conversing
    BY <2>3, SocksGreetKeeps, SocksRequestKeeps, HttpHeadKeeps, StopsKeep,
       OpenKeeps, ReplyKeeps, LeftoverKeeps
    DEF Conversing
  <2>4. CASE Bridging
    BY <2>4, FromClientKeeps, ClientEndedKeeps, FromServerKeeps,
       ServerEndedKeeps, BridgeEndsKeeps
    DEF Bridging
  <2>5. CASE UNCHANGED vars
    <3>1. UNCHANGED <<client, server, session, reading, writing, bridge, pc>>
      BY <2>5 DEF vars
    <3>2. \A k : (Given(k)' <=> Given(k)) /\ (Got(k)' <=> Got(k))
      BY <3>1 DEF Given, Got, Preface, Welcome, client, writing
    <3>3. TypesOK'
      BY <3>1
      DEF Inv, TypesOK, client, server, session, reading, bridge
    <3>4. AtHandshake' /\ AtOpening'
      BY <3>1, <3>2
      DEF Inv, AtHandshake, AtOpening, NothingYet, client, server, reading,
          writing, bridge
    <3>5. AtBridge'
      BY <3>1, <3>2
      DEF Inv, AtBridge, Intact, Given, Got, client, server, session,
          reading, writing, bridge
    <3>6. AtEnd'
      BY <3>1, <3>2
      DEF Inv, AtEnd, Delivered, client, server, reading, writing
    <3> QED
      BY <3>3, <3>4, <3>5, <3>6 DEF Inv
  <2> QED
    BY <2>1, <2>2, <2>3, <2>4, <2>5 DEF Next
<1> QED
  BY <1>1, <1>2, PTL DEF Spec

(* A longer part of a stream has the shorter one as a prefix. *)
LEMMA PrefixOfPart ==
  ASSUME NEW S, NEW p \in Seq(S), NEW s \in Seq(S),
         NEW m \in Nat \ {0}, NEW n \in 0..Len(s), NEW k \in m - 1..n
  PROVE  IsPrefix(p \o SubSeq(s, m, k), p \o SubSeq(s, m, n))
<1> DEFINE a == SubSeq(s, m, k)
           b == SubSeq(s, k + 1, n)
<1>1. Len(s) \in Nat
  BY LenProperties
<1>2. k \in 0..Len(s) /\ k + 1 \in Nat \ {0}
  BY <1>1
<1>3. a \in Seq(S) /\ b \in Seq(S)
  BY <1>2, PartOfSeq
<1>4. a \o b = SubSeq(s, m, n)
  <2>1. m \in 1..Len(s) + 1 /\ k \in m - 1..Len(s) /\ n \in k..Len(s)
    BY <1>1
  <2> QED
    BY <2>1, ConcatAdjacentSubSeq
<1>5. p \o a \in Seq(S) /\ IsPrefix(p \o a, (p \o a) \o b)
  <2> HIDE DEF a, b
  <2> QED
    BY <1>3, ConcatProperties, PrefixOfConcat
<1>6. (p \o a) \o b = p \o (a \o b)
  <2> HIDE DEF a, b
  <2> QED
    BY <1>3, ConcatAssociative, SMTT(30)
<1> QED
  BY <1>4, <1>5, <1>6

(* What each side is to get, in the invariant's terms. *)
LEMMA StreamsOK ==
  ASSUME TypesOK
  PROVE  /\ ForServer = Preface \o SubSeq(sent, 3, Len(sent))
         /\ ForClient = Welcome \o SubSeq(Data, 1, answered)
<1>1. Len(Greeting) + 1 = 3
  BY DEF Greeting
<1>2. CASE proto = "socks"
  BY <1>1, <1>2 DEF ForServer, ForClient, Payload, Preface, Welcome
<1>3. CASE proto = "connect"
  BY <1>1, <1>3 DEF ForServer, ForClient, Payload, Preface, Welcome
<1>4. CASE proto = "forward"
  BY <1>1, <1>4 DEF ForServer, ForClient, Payload, Preface, Welcome
<1> QED
  BY <1>2, <1>3, <1>4 DEF TypesOK

(* Each side gets what the other sent, in order, without a gap and nothing *)
(* twice, after the replies of the protocol; a refused client gets the     *)
(* refusal only (http.rs 104-106, 133-138; tunnel.rs bridge).              *)
THEOREM StreamsInOrder == Spec => []InOrder
<1>1. Inv => InOrder
  <2> SUFFICES ASSUME Inv
               PROVE  InOrder
    OBVIOUS
  <2>1. /\ sent \in Seq(Pieces) /\ Len(sent) \in Nat /\ taken \in 0..Len(sent)
        /\ Data \in Seq(Pieces) /\ Len(Data) \in Nat
        /\ answered \in 0..Len(Data)
        /\ Preface \in Seq(Pieces) /\ Welcome \in Seq(Pieces)
    BY DataOK, PrefaceOK, LenProperties DEF Inv, TypesOK
  <2>2. /\ ForServer = Preface \o SubSeq(sent, 3, Len(sent))
        /\ ForClient = Welcome \o SubSeq(Data, 1, answered)
    BY StreamsOK DEF Inv
  <2>3. Delivered
    BY AlwaysDelivered
  <2>4. ForServer \in Seq(Pieces) /\ ForClient \in Seq(Pieces)
    <3>1. /\ SubSeq(sent, 3, Len(sent)) \in Seq(Pieces)
          /\ SubSeq(Data, 1, answered) \in Seq(Pieces)
      BY <2>1, PartOfSeq
    <3> QED
      BY <2>1, <2>2, <3>1, ConcatProperties
  <2>5. IsPrefix(<<>>, ForServer) /\ IsPrefix(<<>>, ForClient)
    <3>1. \A s \in Seq(Pieces) : <<>> \o s = s /\ <<>> \in Seq(Pieces)
      BY ConcatEmptySeq, EmptySeq
    <3> QED
      BY <2>4, <3>1, PrefixOfConcat
  <2>6. ASSUME NEW k \in 2..taken, Given(k)
        PROVE  IsPrefix(given, ForServer)
    <3>1. k \in 3 - 1..Len(sent) /\ Len(sent) \in 0..Len(sent)
      BY <2>1
    <3> QED
      <4>1. 3 \in Nat \ {0} /\ sent \in Seq(Pieces) /\ Preface \in Seq(Pieces)
        BY <2>1
      <4>2. IsPrefix(Preface \o SubSeq(sent, 3, k),
                     Preface \o SubSeq(sent, 3, Len(sent)))
        BY <3>1, <4>1, PrefixOfPart
      <4> QED
        BY <2>2, <2>6, <4>2 DEF Given
  <2>7. ASSUME NEW k \in 0..answered, Got(k)
        PROVE  IsPrefix(got, ForClient)
    <3>1. k \in 1 - 1..answered
      BY <2>1
    <3> QED
      BY <2>1, <2>2, <2>7, <3>1, PrefixOfPart DEF Got
  <2>8. ASSUME proto = "socks", got = <<"method">>
        PROVE  IsPrefix(got, ForClient)
    <3> DEFINE rest == <<"ok">>
               more == SubSeq(Data, 1, answered)
    <3>1. "method" \in Pieces /\ "ok" \in Pieces
      BY DEF Pieces, Words
    <3>2. got \in Seq(Pieces) /\ rest \in Seq(Pieces)
      BY <2>8, <3>1
    <3>3. more \in Seq(Pieces)
      BY <2>1, PartOfSeq
    <3>4. got \o rest = Welcome
      <4>1. Append(got, "ok") = got \o rest
        BY <3>1, <3>2, AppendIsConcat
      <4>2. Append(got, "ok") = <<"method", "ok">>
        BY <2>8, AppendToOne
      <4> QED
        BY <2>8, <4>1, <4>2 DEF Welcome
    <3> HIDE DEF rest, more
    <3>5. (got \o rest) \o more = got \o (rest \o more)
      BY <3>2, <3>3, Regroup
    <3>6. rest \o more \in Seq(Pieces)
      BY <3>2, <3>3, ConcatProperties
    <3>7. ForClient = got \o (rest \o more)
      BY <2>2, <3>4, <3>5 DEF more
    <3> QED
      BY <3>2, <3>6, <3>7, PrefixOfConcat
  <2> QED
    BY <2>3, <2>5, <2>6, <2>7, <2>8 DEF InOrder, Delivered
<1> QED
  BY <1>1, Inductive, PTL

(* With nothing going wrong a bridge ends only when both sides have, and   *)
(* all that either sent has reached the other (tunnel.rs 399-402, 421-424, *)
(* 456-458).                                                               *)
THEOREM BothHaveAll == Spec => HalfClose
<1> DEFINE A == pc = "bridge" /\ pc' = "done" /\ Undisturbed' =>
                  /\ clientEnd = "fin" /\ serverEnd = "eof"
                  /\ given = ForServer /\ eofGiven
                  /\ got = ForClient
<1>1. ASSUME Inv, [Next]_vars
      PROVE  [A]_vars
  <2> SUFFICES ASSUME Next, pc = "bridge", pc' = "done", Undisturbed'
               PROVE  /\ clientEnd = "fin" /\ serverEnd = "eof"
                      /\ given = ForServer /\ eofGiven
                      /\ got = ForClient
    BY <1>1
  <2>1. SessionEnded \/ BridgeEnds
    BY DEF Next, Environment, Conversing, Bridging, ClientSends, ClientEnds,
           ServerSends, ServerEnds, SshCloses, Dead, Spawned, SocksGreet,
           SocksRequest, HttpHead, HandshakeFails, Handshake, Open, Reply,
           Leftover, FromClient, ClientEnded, FromServer, ServerEnded
  <2>2. BridgeEnds
    <3>1. SessionEnded => dead'
      BY <1>1 DEF SessionEnded, session, Inv, TypesOK
    <3> QED
      BY <2>1, <3>1 DEF Undisturbed
  <2>3. tcpDone /\ chanDone /\ Undisturbed
    BY <2>2 DEF BridgeEnds, Undisturbed, client, server, session
  <2>4. /\ clientEnd = "fin" /\ taken = Len(sent) /\ eofGiven
        /\ serverEnd = "eof" /\ drained = answered
        /\ Given(taken) /\ Got(drained)
    BY <1>1, <2>3 DEF Inv, AtBridge, Undisturbed, Intact
  <2>5. given = ForServer /\ got = ForClient
    BY <1>1, <2>4, StreamsOK DEF Inv, Given, Got
  <2> QED
    BY <2>4, <2>5
<1> QED
  BY <1>1, Inductive, PTL DEF Spec, HalfClose
=============================================================================
