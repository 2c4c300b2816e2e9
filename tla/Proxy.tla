--------------------------------- MODULE Proxy ---------------------------------
(***************************************************************************)
(* One connection of a client to one of the two proxies: the task that     *)
(* socks.rs or http.rs spawns for it (handle_conn), the handshake, the SSH *)
(* channel (tunnel::open_channel) and the bridge between them              *)
(* (tunnel::bridge), with the client, the server behind the channel and    *)
(* the end of the SSH session as the environment.                          *)
(*                                                                         *)
(* Tunnel has the listeners and the watchdog; its `dead` is a tokio Notify *)
(* whose notify_waiters wakes the futures that exist by then, and the task *)
(* creates its own when it is first polled.                                *)
(*                                                                         *)
(* A stream is a sequence of pieces: the parts of the handshake, then      *)
(* those of Data.  A read returns any pieces that have arrived.            *)
(***************************************************************************)
EXTENDS Naturals, Sequences, SequencesExt

CONSTANTS
  Data,     \* what either side sends, in pieces; its length is a bound
  MaxHead   \* MAX_HEAD_BYTES, in pieces

ASSUME ProxyAssumption == Data \in Seq(STRING) /\ MaxHead \in Nat \ {0}

VARIABLES
  proto,      \* "socks", "connect" or "forward" (a plain HTTP request)
  pc,         \* where the connection's task is
  sent,       \* all the client has sent
  clientEnd,  \* "no", "fin" (it only reads) or "reset"
  taken,      \* how much of `sent` the task has read
  buf,        \* HTTP: what it has read of the head, then what came after it
  got,        \* all the client has been sent
  shut,       \* our half of the client's socket is shut
  given,      \* all the channel has been given
  eofGiven,   \* the channel has been given an end of file
  answered,   \* how many pieces the server has sent
  serverEnd,  \* "no", "eof" or "close"
  drained,    \* how many of them the task has read
  tcpDone,    \* bridge: no more from the client
  chanDone,   \* bridge: no more from the channel
  ssh,        \* the session: "open" or "closed"
  dead,       \* `dead` has been notified
  woken       \* the task's future has been woken

client == <<proto, sent, clientEnd>>
server == <<answered, serverEnd>>
session == <<ssh, dead, woken>>
reading == <<taken, buf>>
writing == <<got, shut, given, eofGiven>>
bridge == <<drained, tcpDone, chanDone>>
vars == <<client, server, session, reading, writing, bridge, pc>>

-----------------------------------------------------------------------------
(* What the client should send first, and where a mistake shows. *)
Greeting ==
  IF proto = "socks" THEN <<"greeting", "request">> ELSE <<"line", "blank">>

Payload == SubSeq(sent, Len(Greeting) + 1, Len(sent))

Unread == SubSeq(sent, taken + 1, Len(sent))

Handshake == {"greet", "request", "head"}
Opened == {"reply", "leftover", "bridge"}

Init ==
  /\ proto \in {"socks", "connect", "forward"}
  /\ pc = "spawned"
  /\ sent = <<>> /\ clientEnd = "no" /\ taken = 0 /\ buf = <<>>
  /\ got = <<>> /\ shut = FALSE /\ given = <<>> /\ eofGiven = FALSE
  /\ answered = 0 /\ serverEnd = "no" /\ drained = 0
  /\ tcpDone = FALSE /\ chanDone = FALSE
  /\ ssh = "open" /\ dead = FALSE /\ woken = FALSE

-----------------------------------------------------------------------------
(* The environment.  A client's mistake is in the handshake. *)
ClientSends ==
  /\ clientEnd = "no"
  /\ Len(sent) < Len(Greeting) + Len(Data)
  /\ LET n == Len(sent) + 1
     IN  IF n <= Len(Greeting)
         THEN \E piece \in {Greeting[n], "junk"} : sent' = Append(sent, piece)
         ELSE sent' = Append(sent, Data[n - Len(Greeting)])
  /\ UNCHANGED <<proto, clientEnd, server, session, reading, writing, bridge,
                 pc>>

ClientEnds ==
  /\ \/ clientEnd = "no" /\ clientEnd' = "fin"
     \/ clientEnd # "reset" /\ clientEnd' = "reset"
  /\ UNCHANGED <<proto, sent, server, session, reading, writing, bridge, pc>>

ServerSends ==
  /\ pc \in Opened /\ serverEnd = "no" /\ ssh = "open"
  /\ answered < Len(Data)
  /\ answered' = answered + 1
  /\ UNCHANGED <<client, serverEnd, session, reading, writing, bridge, pc>>

ServerEnds ==
  /\ pc \in Opened /\ ssh = "open"
  /\ \/ serverEnd = "no" /\ serverEnd' = "eof"
     \/ serverEnd # "close" /\ serverEnd' = "close"
  /\ UNCHANGED <<client, answered, session, reading, writing, bridge, pc>>

SshCloses ==
  /\ ssh = "open"
  /\ ssh' = "closed"
  /\ UNCHANGED <<client, server, dead, woken, reading, writing, bridge, pc>>

(* Mutant: a task past its handshake is not woken. *)
DeadInHandshake ==
  /\ ~dead
  /\ dead' = TRUE
  /\ woken' = (pc \in Handshake)
  /\ UNCHANGED <<client, server, ssh, reading, writing, bridge, pc>>

(* The watchdog's notify_waiters: a task not polled yet has no future. *)
Dead ==
  /\ ~dead
  /\ dead' = TRUE
  /\ woken' = (pc \notin {"spawned", "done"})
  /\ UNCHANGED <<client, server, ssh, reading, writing, bridge, pc>>

-----------------------------------------------------------------------------
(* The task ends: it drops the socket and the channel. *)
End == pc' = "done"

Spawned ==
  /\ pc = "spawned"
  /\ pc' = IF proto = "socks" THEN "greet" ELSE "head"
  /\ UNCHANGED <<client, server, session, reading, writing, bridge>>

(* The select! around handle_conn takes the other branch. *)
SessionEnded ==
  /\ woken /\ pc # "done"
  /\ End
  /\ UNCHANGED <<client, server, session, reading, writing, bridge>>

(* HANDSHAKE_TIMEOUT, the end of the client's stream, or a read error. *)
HandshakeFails ==
  /\ pc \in Handshake
  /\ End
  /\ UNCHANGED <<client, server, session, reading, writing, bridge>>

(* A reply to the client, if it is still there, and what comes next. *)
Replies(piece, next) ==
  IF clientEnd = "reset"
  THEN End /\ UNCHANGED writing
  ELSE /\ got' = Append(got, piece)
       /\ pc' = next
       /\ UNCHANGED <<shut, given, eofGiven>>

Silent == End /\ UNCHANGED writing

(* read_socks5_request reads exactly what it needs, nothing beyond it.     *)
SocksGreet ==
  /\ pc = "greet"
  /\ Unread # <<>>
  /\ taken' = taken + 1
  /\ IF Unread[1] = "greeting"
     THEN Replies("method", "request")
     ELSE Silent \/ Replies("none", "done")
  /\ UNCHANGED <<client, server, session, buf, bridge>>

SocksRequest ==
  /\ pc = "request"
  /\ Unread # <<>>
  /\ taken' = taken + 1
  /\ IF Unread[1] = "request"
     THEN pc' = "open" /\ UNCHANGED writing
     ELSE Silent \/ Replies("refused", "done")
  /\ UNCHANGED <<client, server, session, buf, bridge>>

(* Mutant: what came with the head is dropped. *)
HttpHeadAlone ==
  /\ pc = "head"
  /\ \E n \in 1..Len(Unread) :
       LET all == buf \o SubSeq(Unread, 1, n)
           head == SubSeq(all, 1, 2)
       IN  /\ taken' = taken + n
           /\ IF Len(all) > MaxHead
              THEN Silent /\ buf' = <<>>
              ELSE IF Len(all) < 2
              THEN buf' = all /\ UNCHANGED <<pc, writing>>
              ELSE /\ buf' = <<>>
                   /\ IF head = Greeting
                      THEN pc' = "open" /\ UNCHANGED writing
                      ELSE Replies("refused", "done")
  /\ UNCHANGED <<client, server, session, bridge>>

(* The verdict of parse_request; what it makes of a plain request's head   *)
(* is one piece for the server.                                            *)
Accepted(head) == head = Greeting

(* read_head and parse_request: reads go on until the blank line is there, *)
(* and what a read brings beyond it is kept, and counts for the limit.     *)
HttpHead ==
  /\ pc = "head"
  /\ \E n \in 1..Len(Unread) :
       LET all == buf \o SubSeq(Unread, 1, n)
           blanks == {i \in 1..Len(all) : all[i] = "blank"}
       IN  /\ taken' = taken + n
           /\ \/ /\ Len(all) > MaxHead
                 /\ Silent /\ UNCHANGED buf
              \/ /\ Len(all) <= MaxHead /\ blanks = {}
                 /\ buf' = all /\ UNCHANGED <<pc, writing>>
              \/ /\ Len(all) <= MaxHead
                 /\ \E end \in blanks :
                      /\ \A i \in blanks : end <= i
                      /\ buf' = SubSeq(all, end + 1, Len(all))
                      /\ IF Accepted(SubSeq(all, 1, end))
                         THEN pc' = "open" /\ UNCHANGED writing
                         ELSE Replies("refused", "done")
  /\ UNCHANGED <<client, server, session, bridge>>

(* open_channel; its failure is the SSH server's, or the session is over.  *)
Open ==
  /\ pc = "open"
  /\ \/ ssh = "open" /\ pc' = "reply" /\ UNCHANGED writing
     \/ Replies("refused", "done")
  /\ UNCHANGED <<client, server, session, reading, bridge>>

-----------------------------------------------------------------------------
(* Channel::data: an error once the session is over; with the channel      *)
(* closed by the server the data goes nowhere, with or without an error.   *)
DataPasses(pieces) ==
  /\ ssh = "open"
  /\ given' = IF serverEnd = "close" THEN given ELSE given \o pieces
  /\ UNCHANGED <<got, shut, eofGiven>>

DataFails ==
  /\ ssh = "closed" \/ serverEnd = "close"
  /\ UNCHANGED writing

Gives(pieces, next) ==
  \/ DataPasses(pieces) /\ pc' = next
  \/ DataFails /\ End

(* The client's success reply; or the rewritten head for the server. *)
Reply ==
  /\ pc = "reply"
  /\ IF proto = "forward"
     THEN Gives(<<"head">>, "leftover")
     ELSE Replies("ok", "leftover")
  /\ UNCHANGED <<client, server, session, reading, bridge>>

(* What came with the head goes first. *)
Leftover ==
  /\ pc = "leftover"
  /\ IF buf = <<>>
     THEN pc' = "bridge" /\ UNCHANGED writing
     ELSE Gives(buf, "bridge")
  /\ UNCHANGED <<client, server, session, reading, bridge>>

-----------------------------------------------------------------------------
(* The bridge: one task, so a write on one side keeps it from reading on   *)
(* the other.                                                              *)
Bridge == pc = "bridge" /\ ~(tcpDone /\ chanDone)

(* Tearing down, after a write that failed. *)
BothDone == tcpDone' = TRUE /\ chanDone' = TRUE

FromClient ==
  /\ Bridge /\ ~tcpDone
  /\ clientEnd # "reset"
  /\ \E n \in 1..Len(Unread) :
       /\ taken' = taken + n
       /\ \/ /\ DataPasses(SubSeq(Unread, 1, n))
             /\ UNCHANGED <<tcpDone, chanDone>>
          \/ DataFails /\ BothDone
  /\ UNCHANGED <<client, server, session, buf, drained, pc>>

(* Mutant: the other direction ends too. *)
ClientEndsBoth ==
  /\ Bridge /\ ~tcpDone
  /\ clientEnd = "reset" \/ (clientEnd = "fin" /\ Unread = <<>>)
  /\ eofGiven' = TRUE
  /\ BothDone
  /\ UNCHANGED <<client, server, session, reading, got, shut, given, drained,
                 pc>>

(* The end of the client's stream, or a read error: the channel goes on.   *)
ClientEnded ==
  /\ Bridge /\ ~tcpDone
  /\ clientEnd = "reset" \/ (clientEnd = "fin" /\ Unread = <<>>)
  /\ eofGiven' = TRUE
  /\ tcpDone' = TRUE
  /\ UNCHANGED <<client, server, session, reading, got, shut, given, drained,
                 chanDone, pc>>

(* A write to a client that has reset the connection fails. *)
FromServer ==
  /\ Bridge /\ ~chanDone
  /\ drained < answered
  /\ drained' = drained + 1
  /\ IF clientEnd = "reset"
     THEN BothDone /\ UNCHANGED got
     ELSE /\ got' = Append(got, Data[drained + 1])
          /\ UNCHANGED <<tcpDone, chanDone>>
  /\ UNCHANGED <<client, server, session, reading, shut, given, eofGiven, pc>>

(* Mutant: an end of file is not an end; only a close is. *)
ServerClosed ==
  /\ Bridge /\ ~chanDone
  /\ drained = answered
  /\ serverEnd = "close" \/ ssh = "closed"
  /\ shut' = TRUE
  /\ chanDone' = TRUE
  /\ UNCHANGED <<client, server, session, reading, got, given, eofGiven,
                 drained, tcpDone, pc>>

(* Eof, Close or the end of the channel, after what came before it: the    *)
(* client's socket is half shut, and the client may go on.                 *)
ServerEnded ==
  /\ Bridge /\ ~chanDone
  /\ drained = answered
  /\ serverEnd # "no" \/ ssh = "closed"
  /\ shut' = TRUE
  /\ chanDone' = TRUE
  /\ UNCHANGED <<client, server, session, reading, got, given, eofGiven,
                 drained, tcpDone, pc>>

BridgeEnds ==
  /\ pc = "bridge" /\ tcpDone /\ chanDone
  /\ shut' = TRUE
  /\ End
  /\ UNCHANGED <<client, server, session, reading, got, given, eofGiven,
                 bridge>>

Conversing ==
  \/ SocksGreet \/ SocksRequest \/ HttpHead \/ HandshakeFails
  \/ Open \/ Reply \/ Leftover

Bridging ==
  \/ FromClient \/ ClientEnded \/ FromServer \/ ServerEnded \/ BridgeEnds

Environment ==
  \/ ClientSends \/ ClientEnds \/ ServerSends \/ ServerEnds
  \/ SshCloses \/ Dead

Next == Environment \/ Spawned \/ SessionEnded \/ Conversing \/ Bridging

(* The runtime polls a task that can move, and select! picks at random     *)
(* among the branches that are ready.  The bridge's writes have no time    *)
(* limit: a client or a server that has stopped reading would hold it, so  *)
(* both are assumed to read what they are sent; nothing obliges them to    *)
(* send or to end, nor the network, nor `dead` to come.                    *)
Fairness ==
  /\ WF_vars(SessionEnded)
  /\ WF_vars(FromClient)
  /\ WF_vars(ClientEnded)
  /\ WF_vars(FromServer)
  /\ WF_vars(ServerEnded)
  /\ WF_vars(BridgeEnds)

Spec == Init /\ [][Next]_vars /\ Fairness

-----------------------------------------------------------------------------
(* What the server is to get: the rewritten request first. *)
ForServer == (IF proto = "forward" THEN <<"head">> ELSE <<>>) \o Payload

(* What the client is to get: the replies first. *)
ForClient ==
  (CASE proto = "socks" -> <<"method", "ok">>
     [] proto = "connect" -> <<"ok">>
     [] proto = "forward" -> <<>>) \o SubSeq(Data, 1, answered)

Refusals == {<<"none">>, <<"refused">>, <<"method", "refused">>}

(* Each side gets what the other sent, in order, without a gap and nothing *)
(* twice, after the replies of the protocol: what the client sent along    *)
(* with its request comes first (http.rs 104-106, 133-138), and a refused  *)
(* client gets the refusal and nothing else.                               *)
InOrder ==
  /\ IsPrefix(given, ForServer)
  /\ IsPrefix(got, ForClient) \/ (got \in Refusals /\ given = <<>>)

Undisturbed ==
  ssh = "open" /\ ~dead /\ clientEnd # "reset" /\ serverEnd # "close"

(* Half-close: with nothing going wrong a bridge ends only when both sides *)
(* have, and all that either sent has reached the other (tunnel.rs         *)
(* 399-402, 421-424, 456-458).                                             *)
HalfClose ==
  [][pc = "bridge" /\ pc' = "done" /\ Undisturbed' =>
       /\ clientEnd = "fin" /\ serverEnd = "eof"
       /\ given = ForServer /\ eofGiven
       /\ got = ForClient]_vars

(* A bridge whose two sides have ended does not linger. *)
EndsWithBoth ==
  (pc = "bridge" /\ clientEnd # "no" /\ serverEnd # "no") ~> pc = "done"

(* A bridge does not hold its socket after the session: one that was at    *)
(* work when `dead` was notified ends, whatever its client does (socks.rs  *)
(* 62-64, http.rs 81-82).                                                  *)
EndsWithSession ==
  [](pc = "bridge" /\ ~dead => []~dead \/ <>(pc = "done"))
=============================================================================
