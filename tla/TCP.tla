-------------------------------- MODULE TCP ---------------------------------
(***************************************************************************)
(* The kernel's TCP client (net/tcp.c), the link it polls and a server.    *)
(*                                                                         *)
(* A frame is a record; its payload is the interval of stream positions it *)
(* carries, so a byte is named by its connection and its place in the      *)
(* stream.  Initial sequence numbers are 0 on both sides: the client only  *)
(* ever adds to the uint32_t numbers and never compares them, so wrapping  *)
(* does not matter.  recv_tcp_frame polls the card: it drops frames of     *)
(* other connections, returns the first one of this connection, or times   *)
(* out at any moment, an answer already on its way included.               *)
(*                                                                         *)
(* The server is the environment: one connection per client port, in-order *)
(* delivery, a response of StreamLen bytes once the request is complete.   *)
(***************************************************************************)
EXTENDS Integers, Sequences, SequencesExt

CONSTANTS
    Ports, NoPort,  \* ephemeral ports, one per connection
    MSS,            \* TCP_TX_MSS
    RequestLen,     \* bytes of the request passed to tcp_send
    StreamLen,      \* bytes of the response
    MaxLens,        \* max_len arguments of tcp_recv
    SynTries,       \* attempts in tcp_connect
    CloseTries,     \* frames tcp_close waits for
    MaxFaults,      \* frames lost, duplicated or retransmitted by the server
    MaxInFlight     \* frames one direction of the link holds

ASSUME TCPAssumption ==
    /\ NoPort \notin Ports
    /\ {MSS, RequestLen, StreamLen, SynTries, CloseTries} \subseteq Nat \ {0}
    /\ MaxLens \subseteq Nat \ {0}
    /\ {MaxFaults, MaxInFlight} \subseteq Nat

VARIABLES
    conn,       \* the tcp_conn_t: state, port, seq_num, ack_num
    call,       \* the call in progress: its name, loop counter, max_len and total
    inbox,      \* bytes handed to the caller on this connection
    c2s, s2c,   \* the two directions of the link
    srv,        \* per port, the server's end
    used,       \* ports already used
    faults

vars == <<conn, call, inbox, c2s, s2c, srv, used, faults>>

Idle == [name |-> "idle", tries |-> 0, max |-> 0, total |-> 0]
Frame(p, flags, seq, ack, len) == [port |-> p, flags |-> flags, seq |-> seq, ack |-> ack, len |-> len]

Least(a, b) == IF a < b THEN a ELSE b

\* The bytes of port p from stream position i, n of them (position 0 is the SYN).
Bytes(p, i, n) == [k \in 1 .. n |-> <<p, i + k - 1>>]

\* Segments of at most MSS bytes that carry len bytes from seq on.
Segments_WholeOnly(p, flags, seq, ack, len) ==
    [k \in 1 .. len \div MSS |-> Frame(p, flags, seq + (k - 1) * MSS, ack, MSS)]
Segments(p, flags, seq, ack, len) ==
    [k \in 1 .. (len + MSS - 1) \div MSS |->
        Frame(p, flags, seq + (k - 1) * MSS, ack, Least(MSS, len - (k - 1) * MSS))]

-----------------------------------------------------------------------------
(* The client. *)

send_tcp_frame(c, flags) == c2s' = Append(c2s, Frame(c.port, flags, c.seq, c.ack, 0))

Return(c) == /\ conn' = c
             /\ call' = Idle

\* While it polls for the ARP reply, arp_resolve throws away the other frames the
\* card holds.
arp_resolve == \E k \in 0 .. Len(s2c) : s2c' = SubSeq(s2c, k + 1, Len(s2c))

\* tcp_connect up to its first SYN; when ARP fails the connection stays closed.
tcp_connect(p) ==
    /\ call = Idle /\ conn.state = "CLOSED" /\ p \notin used
    /\ used' = used \cup {p}
    /\ inbox' = <<>>
    /\ arp_resolve
    /\ LET c == [state |-> "CLOSED", port |-> p, seq |-> 0, ack |-> 0]
       IN  \/ Return(c) /\ UNCHANGED c2s
           \/ /\ conn' = [c EXCEPT !.state = "SYN_SENT", !.seq = 1]
              /\ call' = [Idle EXCEPT !.name = "connect"]
              /\ send_tcp_frame(c, {"SYN"})
    /\ UNCHANGED <<srv, faults>>

\* One more attempt of the handshake loop is used up.
NextTry(c) ==
    IF call.tries + 1 = SynTries
    THEN Return([c EXCEPT !.state = "CLOSED"])
    ELSE conn' = c /\ call' = [call EXCEPT !.tries = @ + 1]

connect_timeout ==
    /\ call.name = "connect"
    /\ send_tcp_frame([conn EXCEPT !.seq = @ - 1], {"SYN"})
    /\ NextTry(conn)
    /\ UNCHANGED <<inbox, s2c, srv, used, faults>>

\* recv_tcp_frame skips a frame of another connection.
Mine_Any(f) == TRUE
Mine(f) == f.port = conn.port
recv_skip ==
    /\ call # Idle /\ s2c # <<>> /\ ~Mine(Head(s2c))
    /\ s2c' = Tail(s2c)
    /\ UNCHANGED <<conn, call, inbox, c2s, srv, used, faults>>

\* recv_tcp_frame returns f.
Received(f) == /\ s2c # <<>> /\ f = Head(s2c) /\ Mine(f)
               /\ s2c' = Tail(s2c)

connect_frame(f) ==
    /\ call.name = "connect" /\ Received(f)
    /\ \/ /\ "RST" \in f.flags
          /\ Return([conn EXCEPT !.state = "CLOSED"])
          /\ UNCHANGED c2s
       \/ /\ "RST" \notin f.flags /\ {"SYN", "ACK"} \subseteq f.flags
          /\ LET c == [conn EXCEPT !.state = "ESTABLISHED", !.ack = f.seq + 1]
             IN  send_tcp_frame(c, {"ACK"}) /\ Return(c)
       \/ /\ "RST" \notin f.flags /\ ~({"SYN", "ACK"} \subseteq f.flags)
          /\ NextTry(conn)
          /\ UNCHANGED c2s
    /\ UNCHANGED <<inbox, srv, used, faults>>

tcp_send ==
    /\ call = Idle /\ conn.state = "ESTABLISHED" /\ conn.seq = 1   \* one request
    /\ c2s' = c2s \o Segments(conn.port, {"PSH", "ACK"}, conn.seq, conn.ack, RequestLen)
    /\ conn' = [conn EXCEPT !.seq = @ + RequestLen]
    /\ UNCHANGED <<call, inbox, s2c, srv, used, faults>>

tcp_recv(max) ==
    /\ call = Idle /\ conn.state \in {"ESTABLISHED", "CLOSE_WAIT"}
    /\ call' = [name |-> "recv", tries |-> 0, max |-> max, total |-> 0]
    /\ UNCHANGED <<conn, inbox, c2s, s2c, srv, used, faults>>

\* The poll timeout with data in hand, or the deadline, ends the call.
recv_return ==
    /\ call.name = "recv"
    /\ Return(conn)
    /\ UNCHANGED <<inbox, c2s, s2c, srv, used, faults>>

\* The payload is acknowledged whole and copied as far as the buffer reaches.
Copied(f) == Least(f.len, call.max - call.total)
Acked(f) == f.seq + f.len
recv_frame(f) ==
    /\ call.name = "recv" /\ Received(f)
    /\ \/ /\ "RST" \in f.flags
          /\ Return([conn EXCEPT !.state = "CLOSED"])
          /\ UNCHANGED <<inbox, c2s>>
       \/ /\ "RST" \notin f.flags /\ "FIN" \in f.flags
          /\ inbox' = inbox \o Bytes(f.port, f.seq, Copied(f))
          /\ LET c == [conn EXCEPT !.state = "CLOSE_WAIT", !.ack = Acked(f) + 1]
             IN  send_tcp_frame(c, {"ACK"}) /\ Return(c)
       \/ /\ f.flags \cap {"RST", "FIN"} = {}
          /\ inbox' = inbox \o Bytes(f.port, f.seq, Copied(f))
          /\ LET c == IF f.len > 0 THEN [conn EXCEPT !.ack = Acked(f)] ELSE conn
             IN  /\ IF f.len > 0 THEN send_tcp_frame(c, {"ACK"}) ELSE UNCHANGED c2s
                 /\ IF call.total + Copied(f) = call.max
                    THEN Return(c)
                    ELSE conn' = c /\ call' = [call EXCEPT !.total = @ + Copied(f)]
    /\ UNCHANGED <<srv, used, faults>>

\* Closing an idle or failed connection only resets the state.
tcp_close ==
    /\ call = Idle /\ conn.state \in {"ESTABLISHED", "CLOSE_WAIT"}
    /\ send_tcp_frame(conn, {"FIN", "ACK"})
    /\ IF conn.state = "ESTABLISHED"
       THEN /\ conn' = [conn EXCEPT !.seq = @ + 1, !.state = "FIN_WAIT_1"]
            /\ call' = [Idle EXCEPT !.name = "close"]
       ELSE /\ conn' = [conn EXCEPT !.seq = @ + 1]
            /\ call' = [Idle EXCEPT !.name = "last_ack"]
    /\ UNCHANGED <<inbox, s2c, srv, used, faults>>

\* One of the frames tcp_close waits for came or timed out.
CloseTry_NotCounted(c) == conn' = c /\ call' = call
CloseTry(c) ==
    IF call.name = "last_ack" \/ call.tries + 1 = CloseTries
    THEN Return([c EXCEPT !.state = "CLOSED"])
    ELSE conn' = c /\ call' = [call EXCEPT !.tries = @ + 1]

close_timeout ==
    /\ call.name \in {"close", "last_ack"}
    /\ CloseTry(conn)
    /\ UNCHANGED <<inbox, c2s, s2c, srv, used, faults>>

close_frame(f) ==
    /\ call.name \in {"close", "last_ack"} /\ Received(f)
    /\ \/ /\ call.name = "close" /\ "RST" \in f.flags
          /\ Return([conn EXCEPT !.state = "CLOSED"])
          /\ UNCHANGED c2s
       \/ /\ call.name = "close" /\ "RST" \notin f.flags /\ "FIN" \in f.flags
          /\ LET c == [conn EXCEPT !.ack = f.seq + 1, !.state = "CLOSED"]
             IN  send_tcp_frame(c, {"ACK"}) /\ Return(c)
       \/ /\ call.name = "close" /\ f.flags \cap {"RST", "FIN"} = {}
          /\ CloseTry(IF "ACK" \in f.flags THEN [conn EXCEPT !.state = "FIN_WAIT_2"] ELSE conn)
          /\ UNCHANGED c2s
       \/ /\ call.name = "last_ack"
          /\ CloseTry(conn)
          /\ UNCHANGED c2s
    /\ UNCHANGED <<inbox, srv, used, faults>>

ClientStep ==
    \/ connect_timeout \/ recv_skip \/ recv_return \/ close_timeout
    \/ \E f \in ToSet(s2c) : connect_frame(f) \/ recv_frame(f) \/ close_frame(f)

ClientCall ==
    \/ \E p \in Ports : tcp_connect(p)
    \/ tcp_send
    \/ \E m \in MaxLens : tcp_recv(m)
    \/ tcp_close

-----------------------------------------------------------------------------
(* The server and the link. *)

Listening == [state |-> "LISTEN", rcv |-> 0, nxt |-> 0, una |-> 0]

\* The next frame reaches the server.  A SYN may be refused; data and FIN count
\* only in order, and everything but a pure ACK is answered.
ServerReply(p, s, flags) ==
    /\ srv' = [srv EXCEPT ![p] = s]
    /\ s2c' = Append(s2c, Frame(p, flags, s.nxt, s.rcv, 0))

server_syn(f) ==
    /\ f.flags = {"SYN"}
    /\ \/ /\ srv[f.port].state = "LISTEN"
          /\ \/ /\ srv' = [srv EXCEPT ![f.port] = [state |-> "SYN_RCVD", rcv |-> 1, nxt |-> 1, una |-> 0]]
                /\ s2c' = Append(s2c, Frame(f.port, {"SYN", "ACK"}, 0, 1, 0))
             \/ ServerReply(f.port, [Listening EXCEPT !.state = "REFUSED"], {"RST", "ACK"})
       \/ /\ srv[f.port].state = "SYN_RCVD"
          /\ s2c' = Append(s2c, Frame(f.port, {"SYN", "ACK"}, 0, 1, 0))
          /\ UNCHANGED srv
       \/ /\ srv[f.port].state \notin {"LISTEN", "SYN_RCVD"}
          /\ UNCHANGED <<srv, s2c>>

server_segment(f) ==
    /\ f.flags # {"SYN"}
    /\ LET s == srv[f.port]
           inOrder == f.seq = s.rcv
           fin == "FIN" \in f.flags
           t == [s EXCEPT !.una = IF f.ack > @ /\ f.ack <= s.nxt THEN f.ack ELSE @,
                          !.rcv = IF inOrder THEN @ + f.len + (IF fin THEN 1 ELSE 0) ELSE @,
                          !.state = IF @ = "SYN_RCVD" /\ f.ack >= 1 THEN "ESTABLISHED" ELSE @]
       IN  IF s.state \in {"LISTEN", "REFUSED"} THEN UNCHANGED <<srv, s2c>>
           ELSE IF fin /\ inOrder /\ t.state = "ESTABLISHED"
           THEN /\ srv' = [srv EXCEPT ![f.port] = [t EXCEPT !.state = "FIN_SENT", !.nxt = @ + 1]]
                /\ s2c' = Append(s2c, Frame(f.port, {"FIN", "ACK"}, t.nxt, t.rcv, 0))
           ELSE IF f.len > 0 \/ fin
           THEN ServerReply(f.port, t, {"ACK"})
           ELSE srv' = [srv EXCEPT ![f.port] = t] /\ UNCHANGED s2c

ServerReceive ==
    /\ c2s # <<>>
    /\ LET f == Head(c2s) IN server_syn(f) \/ server_segment(f)
    /\ c2s' = Tail(c2s)
    /\ UNCHANGED <<conn, call, inbox, used, faults>>

\* The response: data up to StreamLen, then a FIN.
Response(p, from) ==
    LET last == IF srv[p].state = "FIN_SENT" THEN srv[p].nxt - 2 ELSE StreamLen
    IN  IF from <= last
        THEN Frame(p, {"PSH", "ACK"}, from, srv[p].rcv, Least(MSS, last - from + 1))
        ELSE Frame(p, {"FIN", "ACK"}, from, srv[p].rcv, 0)

ServerSend(p) ==
    /\ srv[p].state = "ESTABLISHED" /\ srv[p].rcv = 1 + RequestLen
    /\ Len(s2c) < MaxInFlight
    /\ LET f == Response(p, srv[p].nxt)
       IN  /\ s2c' = Append(s2c, f)
           /\ srv' = [srv EXCEPT ![p].nxt = IF "FIN" \in f.flags THEN @ + 1 ELSE @ + f.len,
                                 ![p].state = IF "FIN" \in f.flags THEN "FIN_SENT" ELSE @]
    /\ UNCHANGED <<conn, call, inbox, c2s, used, faults>>

\* The retransmission timer of the server fires.
ServerResend(p) ==
    /\ faults < MaxFaults /\ Len(s2c) < MaxInFlight
    /\ srv[p].state \in {"SYN_RCVD", "ESTABLISHED", "FIN_SENT"} /\ srv[p].una < srv[p].nxt
    /\ s2c' = Append(s2c, IF srv[p].una = 0 THEN Frame(p, {"SYN", "ACK"}, 0, 1, 0)
                          ELSE Response(p, srv[p].una))
    /\ faults' = faults + 1
    /\ UNCHANGED <<conn, call, inbox, c2s, srv, used>>

\* The link loses a frame or delivers it twice.
Faulty(q) == {RemoveAt(q, i) : i \in 1 .. Len(q)} \cup {InsertAt(q, i, q[i]) : i \in 1 .. Len(q)}
LinkFault ==
    /\ faults < MaxFaults
    /\ \/ c2s' \in Faulty(c2s) /\ UNCHANGED s2c
       \/ s2c' \in Faulty(s2c) /\ UNCHANGED c2s
    /\ faults' = faults + 1
    /\ UNCHANGED <<conn, call, inbox, srv, used>>

Init ==
    /\ conn = [state |-> "CLOSED", port |-> NoPort, seq |-> 0, ack |-> 0]
    /\ call = Idle
    /\ inbox = <<>>
    /\ c2s = <<>> /\ s2c = <<>>
    /\ srv = [p \in Ports |-> Listening]
    /\ used = {}
    /\ faults = 0

Next ==
    \/ ClientCall
    \/ ClientStep
    \/ ServerReceive
    \/ \E p \in Ports : ServerSend(p) \/ ServerResend(p)
    \/ LinkFault

\* The calls poll: the client takes its steps, timeouts included.  Frames in
\* flight arrive, and the server answers.
Fairness ==
    /\ WF_vars(ClientStep)
    /\ WF_vars(ServerReceive)
    /\ \A p \in Ports : WF_vars(ServerSend(p))

Spec == Init /\ [][Next]_vars /\ Fairness

-----------------------------------------------------------------------------
(* Properties. *)

\* No byte of an earlier connection, whose frames may still be queued in the card
\* when the next one opens, reaches the caller of the next one.  The client
\* acknowledges only what the server sent, whatever the link does, and believes in
\* a connection only if the server accepted its SYN.  And as long as no frame was
\* lost or repeated, tcp_recv hands the caller the response exactly as sent, no
\* byte missing, repeated or out of place, and acknowledges what it handed over and
\* no more (buffers hold whole segments, see MaxLens).
StreamIntact ==
    /\ \A i \in 1 .. Len(inbox) : inbox[i][1] = conn.port
    /\ conn.port # NoPort =>
        /\ conn.ack <= srv[conn.port].nxt
        /\ conn.state \in {"ESTABLISHED", "CLOSE_WAIT"} => srv[conn.port].state \notin {"LISTEN", "REFUSED"}
    /\ faults = 0 =>
        /\ \A i \in 1 .. Len(inbox) : inbox[i][2] = i
        /\ conn.state = "ESTABLISHED" /\ call.name # "close" => conn.ack = Len(inbox) + 1

\* Every call returns, whatever the link and the server do: each wait of
\* tcp_connect, tcp_recv and tcp_close is bounded by its timeout and loop count.
CallsReturn == call # Idle ~> call = Idle

\* On a link that loses nothing a request passed to tcp_send reaches the server.
RequestArrives ==
    [](faults = 0) =>
        \A p \in Ports : (conn.port = p /\ conn.state = "ESTABLISHED" /\ conn.seq = 1 + RequestLen)
                           ~> srv[p].rcv > RequestLen
=============================================================================
