------------------------------- MODULE MCNet --------------------------------
(***************************************************************************)
(* The network clients of the kernel, one of them in each behaviour: TCP,  *)
(* DHCP and the resolver.                                                  *)
(***************************************************************************)
EXTENDS TCP

CONSTANTS Servers, Static, MaxRetries, MaxDHCPCalls, MaxExpiries,
          Names, Ids, PortWrap, MaxDNSCalls, MaxCopies

VARIABLES part,
          pc, caller, attempt, xid, lease, g_config, tcp_ip, rc, up, down, alive, bound,
          calls, failures, expiries,
          at, name, txid, status, out_ip, asked, replies, questions, drawn, copies

D == INSTANCE DHCP WITH MaxCalls <- MaxDHCPCalls, faults <- failures
N == INSTANCE DNS WITH MaxCalls <- MaxDNSCalls, rc <- status, calls <- questions

dhcp == <<pc, caller, attempt, xid, lease, g_config, tcp_ip, rc, up, down, alive, bound,
          calls, failures, expiries>>
dns == <<at, name, txid, status, out_ip, asked, replies, questions, drawn, copies>>
all == <<part, vars, dhcp, dns>>

\* The caller's buffers hold whole segments.
OneSegment == {MSS}

MCInit ==
    /\ part \in {"tcp", "dhcp", "dns"}
    /\ Init /\ D!Init /\ N!Init
    /\ part # "dhcp" => alive = {}

TCPStep == part = "tcp" /\ UNCHANGED <<part, dhcp, dns>>
DHCPStep == part = "dhcp" /\ UNCHANGED <<part, vars, dns>>
DNSStep == part = "dns" /\ UNCHANGED <<part, vars, dhcp>>

MCNext == (TCPStep /\ Next) \/ (DHCPStep /\ D!Next) \/ (DNSStep /\ N!Next)

\* The fairness of the three specifications: clients poll until their timers end,
\* frames arrive and servers answer.
MCSpec ==
    /\ MCInit /\ [][MCNext]_all
    /\ WF_all(TCPStep /\ ClientStep) /\ WF_all(TCPStep /\ ServerReceive)
    /\ \A p \in Ports : WF_all(TCPStep /\ ServerSend(p))
    /\ WF_all(DHCPStep /\ (D!Receive \/ D!recv_timeout)) /\ WF_all(DHCPStep /\ D!Network)
    /\ WF_all(DNSStep /\ N!Polling)

-----------------------------------------------------------------------------
\* The address dhcp_init takes as the machine's own is one its server has committed
\* to it, and with one server on the link dhcp_init gets one as long as fewer frames
\* are lost, late, duplicated or refused than it has attempts.
LeaseObtained == D!LeaseObtained

\* dns_resolve returns HAL_OK only with the address of the host that was asked for,
\* although answers to earlier questions may still come in, as long as no two
\* calls drew the same transaction number.
ResolvedIsAsked == N!ResolvedIsAsked

\* Every call of tcp_connect, tcp_recv, tcp_close, dhcp_init, ai_bootstrap and
\* dns_resolve returns, whatever the link and the servers do: each wait is bounded
\* by its timeout and loop count.
NetCallsReturn ==
    LET busy == call # Idle \/ pc # "idle" \/ at # "idle"
    IN  busy ~> ~busy
=============================================================================
