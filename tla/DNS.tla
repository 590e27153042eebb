-------------------------------- MODULE DNS ---------------------------------
(***************************************************************************)
(* dns_resolve (net/dns.c): one question, one wait of five seconds, no     *)
(* retry.  The transaction number is the low half of the clock and the     *)
(* source port is taken from it, so both may come up again in a later      *)
(* call, while answers to earlier questions are still under way.  A reply  *)
(* is a record: its number, whether it is a response, the error code and   *)
(* the records of its answer section; a reply that is cut short has fewer  *)
(* of them than it counts.                                                 *)
(***************************************************************************)
EXTENDS Naturals, Sequences, SequencesExt

CONSTANTS
    Names,          \* host names asked for; the address of a host is its name
    Ids,            \* 0 .. 2^16 - 1: what the clock gives as transaction number
    PortWrap,       \* 2^14: source ports depend on the number modulo this
    MaxCalls,       \* bound: calls of dns_resolve
    MaxCopies       \* bound: replies to one question

VARIABLES
    at,             \* "idle", "arp" or "wait"
    name, txid,     \* of the call in progress or the last one
    rc, out_ip,     \* what the last call returned
    asked,          \* questions on their way to the server
    replies,        \* replies on their way back
    calls,          \* calls made
    drawn,          \* history: the transaction numbers of all questions
    copies          \* history: replies sent

vars == <<at, name, txid, rc, out_ip, asked, replies, calls, drawn, copies>>

Port(id) == id % PortWrap
NoAddress == "none"

Init ==
    /\ at = "idle" /\ name = NoAddress /\ txid = 0
    /\ rc = "none" /\ out_ip = NoAddress
    /\ asked = {} /\ replies = {} /\ calls = 0 /\ drawn = <<>> /\ copies = 0

Return(status) == rc' = status /\ at' = "idle"

\* Up to arp_resolve, which polls the card and throws away what it holds.
dns_resolve(n) ==
    /\ at = "idle" /\ calls < MaxCalls
    /\ calls' = calls + 1
    /\ name' = n /\ at' = "arp"
    /\ rc' = "none" /\ out_ip' = NoAddress
    /\ \E rest \in SUBSET replies : replies' = rest
    /\ UNCHANGED <<txid, asked, drawn, copies>>

arp_fails ==
    /\ at = "arp"
    /\ Return("TIMEOUT")
    /\ UNCHANGED <<name, txid, out_ip, asked, replies, calls, drawn, copies>>

send_query(id) ==
    /\ at = "arp"
    /\ txid' = id
    /\ asked' = asked \cup {[id |-> id, name |-> name]}
    /\ drawn' = Append(drawn, id)
    /\ at' = "wait"
    /\ UNCHANGED <<name, rc, out_ip, replies, calls, copies>>

\* The tests that make the loop go on to the next frame.
IsAnswer_AnyId(m) == Port(m.id) = Port(txid) /\ m.response
IsAnswer(m) == Port(m.id) = Port(txid) /\ m.id = txid /\ m.response

\* The first A record that lies within the packet.
Addresses(m) == SelectSeq(m.answers, LAMBDA a : a.type = "A")

recv_other(m) ==
    /\ at = "wait" /\ ~IsAnswer(m)
    /\ replies' = replies \ {m}
    /\ UNCHANGED <<at, name, txid, rc, out_ip, asked, calls, drawn, copies>>

recv_answer(m) ==
    /\ at = "wait" /\ IsAnswer(m)
    /\ replies' = replies \ {m}
    /\ IF m.rcode # 0 \/ Addresses(m) = <<>>
       THEN Return("ERROR") /\ UNCHANGED out_ip
       ELSE Return("OK") /\ out_ip' = Head(Addresses(m)).ip
    /\ UNCHANGED <<name, txid, asked, calls, drawn, copies>>

recv_timeout ==
    /\ at = "wait"
    /\ Return("TIMEOUT")
    /\ UNCHANGED <<name, txid, out_ip, asked, replies, calls, drawn, copies>>

-----------------------------------------------------------------------------
(* The server and the network. *)

\* What a server may answer to a question for n: the address, behind an alias or
\* not, an alias alone (the address did not fit), nothing, or an error.  Frames
\* that are not responses come in as well.
Answers(n) ==
    LET a == [type |-> "A", ip |-> n]
        alias == [type |-> "CNAME", ip |-> NoAddress]
    IN  {<<>>, <<alias>>, <<a>>, <<alias, a>>}
Replies(q) ==
    [id : {q.id}, of : {q.name}, response : BOOLEAN, rcode : {0}, answers : Answers(q.name)]
        \cup [id : {q.id}, of : {q.name}, response : {TRUE}, rcode : {3}, answers : {<<>>}]

server_replies(q) ==
    /\ copies < MaxCopies
    /\ \E m \in Replies(q) : replies' = replies \cup {m}
    /\ copies' = copies + 1
    /\ UNCHANGED <<at, name, txid, rc, out_ip, asked, calls, drawn>>

-----------------------------------------------------------------------------
Polling == \/ \E m \in replies : recv_other(m) \/ recv_answer(m)
           \/ recv_timeout \/ arp_fails \/ \E id \in Ids : send_query(id)
Finished == at = "idle" /\ calls = MaxCalls /\ UNCHANGED vars
Next ==
    \/ \E n \in Names : dns_resolve(n)
    \/ Polling
    \/ \E q \in asked : server_replies(q)
    \/ Finished

\* The call polls until its five seconds are over.
Fairness == WF_vars(Polling)
Spec == Init /\ [][Next]_vars /\ Fairness

-----------------------------------------------------------------------------
\* HAL_OK comes with the address of the host that was asked for, although answers
\* to earlier questions may still come in: as long as no two calls drew the same
\* number (the name in the reply is not compared).
ResolvedIsAsked == rc = "OK" /\ IsInjective(drawn) => out_ip = name

CallReturns == at # "idle" ~> at = "idle"
=============================================================================
