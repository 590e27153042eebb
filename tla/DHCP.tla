-------------------------------- MODULE DHCP --------------------------------
(***************************************************************************)
(* Getting an address: dhcp_discover (net/dhcp.c), the retries and the     *)
(* cached configuration around it (kernel/dhcp.c), and the two callers     *)
(* that configure the TCP stack with the result: dhcp_init, called by      *)
(* start_network and the shell, and ai_bootstrap, which runs a second      *)
(* exchange of its own.  Frames may be lost, duplicated, reordered and     *)
(* late; several servers may answer.                                       *)
(*                                                                         *)
(* A server is its address; the address it leases is named after it.       *)
(* Which of the servers are on this link is open.                          *)
(***************************************************************************)
EXTENDS Integers, FiniteSets

CONSTANTS
    Servers,
    Static,         \* the fallback address of ai_bootstrap
    MaxRetries,     \* DHCP_MAX_RETRIES
    MaxCalls,       \* bound: calls of dhcp_init and ai_bootstrap
    MaxFaults,      \* bound: frames lost, duplicated or late, and refusals
    MaxExpiries     \* bound: leases that run out

VARIABLES
    pc,             \* "idle", or the reply dhcp_discover waits for
    caller,         \* "init" or "bootstrap"
    attempt,        \* the loop variable of dhcp_init
    xid,            \* the transaction of the current dhcp_discover
    lease,          \* local of dhcp_discover: the server that answered
    g_config,       \* valid, and the address
    tcp_ip,         \* what tcp_init was last given
    rc,             \* what the last call returned
    up, down,       \* frames on their way to the servers and to the client
    alive,          \* the servers on this link
    bound,          \* the servers that hold a lease for this machine
    calls, faults, expiries

client == <<pc, caller, attempt, xid, lease, g_config, tcp_ip, rc, calls>>
vars == <<client, alive, up, down, bound, faults, expiries>>

None == Static                   \* no server
Msg(type, s) == [type |-> type, xid |-> xid, server |-> s]

-----------------------------------------------------------------------------
(* The client. *)

NextXid == xid + 1

\* dhcp_discover up to the broadcast of DISCOVER.
Discover ==
    /\ xid' = NextXid
    /\ lease' = None
    /\ up' = up \cup {[type |-> "DISCOVER", xid |-> NextXid, server |-> None]}
    /\ pc' = "OFFER"

dhcp_init ==
    /\ pc = "idle" /\ calls < MaxCalls
    /\ calls' = calls + 1
    /\ caller' = "init" /\ attempt' = 0
    /\ Discover
    /\ UNCHANGED <<g_config, tcp_ip, rc, down, bound, faults, expiries, alive>>

ai_bootstrap ==
    /\ pc = "idle" /\ calls < MaxCalls
    /\ calls' = calls + 1
    /\ caller' = "bootstrap" /\ attempt' = 0
    /\ Discover
    /\ UNCHANGED <<g_config, tcp_ip, rc, down, bound, faults, expiries, alive>>

\* dhcp_discover fails: dhcp_init tries again, and after the last attempt gives
\* up; ai_bootstrap goes on with the static address.
MoreAttempts == attempt + 1 < MaxRetries

Failed ==
    \/ /\ caller = "init" /\ MoreAttempts
       /\ attempt' = attempt + 1
       /\ Discover
       /\ UNCHANGED <<g_config, tcp_ip, rc>>
    \/ /\ caller = "init" /\ ~MoreAttempts
       /\ g_config' = [g_config EXCEPT !.valid = FALSE]
       /\ rc' = "FAILED" /\ pc' = "idle"
       /\ UNCHANGED <<attempt, xid, lease, tcp_ip, up>>
    \/ /\ caller = "bootstrap"
       /\ tcp_ip' = Static
       /\ rc' = "FAILED" /\ pc' = "idle"
       /\ UNCHANGED <<attempt, xid, lease, g_config, up>>

\* The lease is stored and the stack configured.
Acquired(s) ==
    /\ tcp_ip' = s
    /\ g_config' = IF caller = "init" THEN [valid |-> TRUE, ip |-> s] ELSE g_config
    /\ rc' = "OK" /\ pc' = "idle"
    /\ UNCHANGED <<attempt, xid, lease, up>>

\* recv_dhcp: a frame of another transaction is read and dropped.
Mine(m) == m.xid = xid
recv_other(m) ==
    /\ pc # "idle" /\ ~Mine(m)
    /\ down' = down \ {m}
    /\ UNCHANGED <<client, up, bound, faults, expiries, alive>>

\* OFFER: answer with a REQUEST to its server.  Anything else fails the attempt.
IsOffer(m) == m.type = "OFFER"
recv_offer(m) ==
    /\ pc = "OFFER" /\ Mine(m)
    /\ down' = down \ {m}
    /\ IF IsOffer(m)
       THEN /\ lease' = m.server
            /\ up' = up \cup {Msg("REQUEST", m.server)}
            /\ pc' = "ACK"
            /\ UNCHANGED <<attempt, xid, g_config, tcp_ip, rc>>
       ELSE Failed
    /\ UNCHANGED <<caller, calls, bound, faults, expiries, alive>>

IsAck_OrOffer(m) == m.type \in {"ACK", "OFFER"}
IsAck(m) == m.type = "ACK"
recv_ack(m) ==
    /\ pc = "ACK" /\ Mine(m)
    /\ down' = down \ {m}
    /\ IF IsAck(m) THEN Acquired(m.server) ELSE Failed
    /\ UNCHANGED <<caller, calls, bound, faults, expiries, alive>>

\* Five seconds without a reply.  While an answer can still come, it is a fault.
AnswerComing ==
    \/ \E m \in down : m.xid = xid
    \/ /\ alive # {}
       /\ \E m \in up : m.xid = xid /\ (m.type = "DISCOVER" <=> pc = "OFFER")
recv_timeout ==
    /\ pc # "idle"
    /\ AnswerComing => faults < MaxFaults
    /\ faults' = IF AnswerComing THEN faults + 1 ELSE faults
    /\ Failed
    /\ UNCHANGED <<caller, calls, down, bound, expiries, alive>>

\* A millisecond without a frame.
recv_poll == pc # "idle" /\ down = {} /\ UNCHANGED vars

-----------------------------------------------------------------------------
(* The servers and the link. *)

\* Every server on the link answers a DISCOVER.
ServersOffer(m) ==
    /\ m.type = "DISCOVER"
    /\ up' = up \ {m}
    /\ down' = down \cup {[m EXCEPT !.type = "OFFER", !.server = s] : s \in alive}
    /\ UNCHANGED <<client, bound, faults, expiries, alive>>

\* The server named in a REQUEST commits the lease, or refuses.
ServerAck(m) ==
    /\ m.type = "REQUEST"
    /\ up' = up \ {m}
    /\ \/ /\ bound' = bound \cup {m.server}
          /\ down' = down \cup {[m EXCEPT !.type = "ACK"]}
          /\ UNCHANGED faults
       \/ /\ faults < MaxFaults /\ faults' = faults + 1
          /\ down' = down \cup {[m EXCEPT !.type = "NAK"]}
          /\ UNCHANGED bound
    /\ UNCHANGED <<client, expiries, alive>>

LinkFault ==
    /\ faults < MaxFaults /\ faults' = faults + 1
    /\ \/ \E m \in up : up' = up \ {m} /\ UNCHANGED down
       \/ \E m \in down : down' = down \ {m} /\ UNCHANGED up
       \/ \E s \in Servers : /\ lease = s /\ down' = down \cup {Msg("OFFER", s)}
                             /\ UNCHANGED up
    /\ UNCHANGED <<client, bound, expiries, alive>>

\* The lease time is over: the server gives the address to someone else.
LeaseExpires(s) ==
    /\ s \in bound /\ expiries < MaxExpiries
    /\ bound' = bound \ {s}
    /\ expiries' = expiries + 1
    /\ UNCHANGED <<client, up, down, faults, alive>>

-----------------------------------------------------------------------------
Init ==
    /\ pc = "idle" /\ caller = "init" /\ attempt = 0 /\ xid = 0 /\ lease = None
    /\ g_config = [valid |-> FALSE, ip |-> None] /\ tcp_ip = None /\ rc = "NONE"
    /\ up = {} /\ down = {} /\ bound = {} /\ alive \in SUBSET Servers
    /\ calls = 0 /\ faults = 0 /\ expiries = 0

Receive == \E m \in down : recv_other(m) \/ recv_offer(m) \/ recv_ack(m)
Network == \E m \in up : ServersOffer(m) \/ ServerAck(m)
Finished == pc = "idle" /\ calls = MaxCalls /\ UNCHANGED vars
Next ==
    \/ dhcp_init \/ ai_bootstrap
    \/ Receive \/ recv_timeout \/ recv_poll
    \/ Network \/ LinkFault
    \/ \E s \in Servers : LeaseExpires(s)
    \/ Finished

\* The client polls until its timer ends.
Spec == Init /\ [][Next]_vars /\ WF_vars(Receive \/ recv_timeout) /\ WF_vars(Network)

-----------------------------------------------------------------------------
\* The address the machine takes as its own is one its server has committed to
\* it: not one that was only offered, or answered in an earlier transaction.
\* (Nothing renews a lease: once one runs out, the claim ends.)  And with one server
\* on the link, dhcp_init succeeds as long as fewer frames are lost, late,
\* duplicated or refused than it has attempts.
LeaseObtained ==
    /\ expiries = 0 /\ g_config.valid => g_config.ip \in bound
    /\ Cardinality(alive) = 1 /\ faults < MaxRetries =>
           ~(rc = "FAILED" /\ caller = "init" /\ pc = "idle")

\* Every call returns, with or without a server.
CallReturns == pc # "idle" ~> pc = "idle"
=============================================================================
