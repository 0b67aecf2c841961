------------------------------ MODULE DhcpServer -----------------------------
(***************************************************************************)
(* The DHCP server of the micro-AP (middleware/dhcpd): which address it    *)
(* offers and grants to whom, the eight addresses it remembers, and how it *)
(* is started, stopped and lost.  It has no leases: a remembered address   *)
(* stays with its client until dhcp_server_init forgets everything, so the *)
(* clients of an earlier run of the server hold addresses this one has     *)
(* never heard of.                                                         *)
(*                                                                         *)
(* Abstractions.  An address is its host part, 0 the network and Size - 1  *)
(* the broadcast address; Foreign stands for the addresses outside the     *)
(* subnet.  The clients are the other end of the protocol and not in the   *)
(* repository: they ask, take the first offer, request it, renew it, send  *)
(* again what was not answered, and may leave or start over at any moment. *)
(* Datagrams are lost, delayed and overtaken; a repeated request is sent   *)
(* by the client.  The DNS socket, the options of a reply and failures of  *)
(* dhcp_server_init are left out.                                          *)
(***************************************************************************)
EXTENDS Naturals, Sequences, FiniteSets

CONSTANTS
    Clients,   \* hardware addresses
    None, Foreign,
    Size,      \* addresses of the subnet, one more than the host mask
    MyIp,      \* the server's own
    CacheSize, \* MAC_IP_CACHE_SIZE
    Wanted,    \* addresses clients may bring from elsewhere
    MaxNet,    \* bound on the datagrams in flight
    MaxLives,  \* bound on the starts of the server
    MaxLeaves  \* bound on the clients' departures

Addrs == 0 .. Size - 1

ASSUME DhcpAssumption ==
    /\ Size \in Nat \ {0} /\ MyIp \in Addrs
    /\ None \notin Addrs /\ Foreign \notin Addrs /\ None # Foreign
    /\ CacheSize \in Nat \ {0} /\ Wanted \subseteq Addrs \cup {Foreign}
    /\ MaxNet \in Nat /\ MaxLives \in Nat /\ MaxLeaves \in Nat

VARIABLES
    server,  \* dhcps and `running', the thread, `life' counts the starts
    clients, \* per client its state, its address and who granted it
    net,     \* datagrams in flight
    leaves

vars == <<server, clients, net, leaves>>

Datagram(kind, mac, ip, life) == [kind |-> kind, mac |-> mac, ip |-> ip, life |-> life]
Questions == [kind : {"discover", "request", "decline"}, mac : Clients,
              ip : Addrs \cup {Foreign, None}, life : {0}]
Answers == [kind : {"offer", "ack", "nak"}, mac : Clients,
            ip : Addrs \cup {None}, life : 0 .. MaxLives]

\* What is in flight besides m; any of it may be lost meanwhile.
Carries(old, m) ==
    \E some \in SUBSET old : Cardinality(some) < MaxNet /\ net' = some \cup {m}
----------------------------------------------------------------------------
(* The addresses the server remembers (ac_...) and gives out               *)

\* Mutant: the last entry is not looked at.
LookupMacButLast(s, mac) ==
    LET at == {i \in DOMAIN s.cache : i < Len(s.cache) /\ s.cache[i].mac = mac}
    IN  IF at = {} THEN None
        ELSE s.cache[CHOOSE i \in at : \A j \in at : i <= j].ip

LookupMac(s, mac) ==
    LET at == {i \in DOMAIN s.cache : s.cache[i].mac = mac}
    IN  IF at = {} THEN None
        ELSE s.cache[CHOOSE i \in at : \A j \in at : i <= j].ip

ValidIp(s, ip) ==
    /\ ip \in Addrs \ {0, MyIp, Size - 1}
    /\ \A i \in DOMAIN s.cache : s.cache[i].ip # ip

\* A full cache does not take another entry.
Add(s, mac, ip) ==
    IF Len(s.cache) < CacheSize
    THEN [s EXCEPT !.cache = Append(@, [mac |-> mac, ip |-> ip])] ELSE s

\* Mutant: what is granted to others is not looked at.
GrantsTaken(s, mac, ip) ==
    /\ ip \in Addrs \ {0, MyIp, Size - 1}
    /\ LookupMac(s, mac) \in {None, ip}

\* Mutant: only what is remembered is granted.
GrantsWithRoom(s, mac, ip) ==
    /\ ip \in Addrs
    /\ IF LookupMac(s, mac) # None THEN LookupMac(s, mac) = ip
       ELSE ValidIp(s, ip) /\ Len(s.cache) < CacheSize

\* got_ip: the client's own address, or one nobody is remembered with.
Grants(s, mac, ip) ==
    /\ ip \in Addrs
    /\ IF LookupMac(s, mac) # None THEN LookupMac(s, mac) = ip ELSE ValidIp(s, ip)

\* An address in any datagram, a discover or decline included, is remembered
\* for the client that has none.
Note(s, mac, ip) ==
    IF LookupMac(s, mac) = None /\ Grants(s, mac, ip) THEN Add(s, mac, ip) ELSE s

\* The turns after which next_yiaddr may stop.
Hits(s) == {k \in 1 .. Size : ValidIp(s, (s.current + k) % Size)}

\* make_response(DHCP_MESSAGE_OFFER): the loop of next_yiaddr ends at the first
\* free address after the last one, or not at all.
Offers(s, m) ==
    \/ /\ LookupMac(s, m.mac) # None
       /\ server' = s
       /\ Carries(net \ {m}, Datagram("offer", m.mac, LookupMac(s, m.mac), s.life))
    \/ /\ LookupMac(s, m.mac) = None /\ Hits(s) = {}
       /\ server' = [s EXCEPT !.thread = "searching"]
       /\ net' = net \ {m}
    \/ /\ LookupMac(s, m.mac) = None
       /\ \E k \in Hits(s) :
            /\ \A j \in Hits(s) : k <= j
            /\ LET ip == (s.current + k) % Size
               IN  /\ server' = Add([s EXCEPT !.current = ip], m.mac, ip)
                   /\ Carries(net \ {m}, Datagram("offer", m.mac, ip, s.life))

\* process_dhcp_message
Process(c, kind) ==
    /\ server.thread = "serving"
    /\ \E m \in net : m.kind = kind /\ m.mac = c
         /\ LET s == Note(server, c, m.ip)
            IN  CASE kind = "discover" -> Offers(s, m)
                  [] kind = "decline"  -> server' = s /\ net' = net \ {m}
                  [] kind = "request"  ->
                       /\ server' = s
                       /\ Carries(net \ {m},
                            IF Grants(server, c, m.ip) THEN Datagram("ack", c, m.ip, s.life)
                            ELSE Datagram("nak", c, None, s.life))
    /\ UNCHANGED <<clients, leaves>>
----------------------------------------------------------------------------
(* The server's thread *)

\* dhcp_server_start: dhcp_server_init forgets all addresses.
Start ==
    /\ ~server.running /\ server.life < MaxLives
    /\ server' = [thread |-> "starting", running |-> TRUE, cache |-> <<>>,
                  current |-> 0, life |-> server.life + 1]
    /\ UNCHANGED <<clients, net, leaves>>

Serves ==
    /\ server.thread = "starting"
    /\ server' = [server EXCEPT !.thread = "serving"]
    /\ UNCHANGED <<clients, net, leaves>>

\* select fails, or a socket cannot be had: nobody clears `running'.
Ends ==
    /\ server.thread \in {"starting", "serving"}
    /\ server' = [server EXCEPT !.thread = "ended"]
    /\ UNCHANGED <<clients, net, leaves>>

\* dhcp_server_stop gives up without a control socket, which the thread opens
\* and closes, and waits for dhcp_mutex while the thread searches.
Stop ==
    /\ server.running /\ server.thread = "serving"
    /\ server' = [server EXCEPT !.thread = "down", !.running = FALSE]
    /\ UNCHANGED <<clients, net, leaves>>
----------------------------------------------------------------------------
(* The clients *)

Becomes(c, st, ip, life) ==
    clients' = [clients EXCEPT ![c] = [st |-> st, ip |-> ip, life |-> life]]

Question(c) ==
    Datagram(IF clients[c].st = "selecting" THEN "discover" ELSE "request",
             c, clients[c].ip, 0)

\* A client looks for a server, with or without the address it would like.
Discover(c) ==
    /\ clients[c].st = "init"
    /\ \E ip \in {None, clients[c].ip} :
         /\ Becomes(c, "selecting", ip, clients[c].life)
         /\ Carries(net, Datagram("discover", c, ip, 0))
    /\ UNCHANGED <<server, leaves>>

\* It asks for the address it had, or for a longer lease of the one it has.
Request(c) ==
    /\ clients[c].st = "bound" \/ (clients[c].st = "init" /\ clients[c].ip # None)
    /\ Becomes(c, IF clients[c].st = "bound" THEN "renewing" ELSE "requesting",
               clients[c].ip, clients[c].life)
    /\ Carries(net, Datagram("request", c, clients[c].ip, 0))
    /\ UNCHANGED <<server, leaves>>

SendAgain(c) ==
    /\ clients[c].st \in {"selecting", "requesting", "renewing"}
    /\ Carries(net, Question(c))
    /\ UNCHANGED <<server, clients, leaves>>

TakeOffer(c) ==
    /\ clients[c].st = "selecting"
    /\ \E m \in net : m.kind = "offer" /\ m.mac = c
         /\ Becomes(c, "requesting", m.ip, clients[c].life)
         /\ Carries(net \ {m}, Datagram("request", c, m.ip, 0))
    /\ UNCHANGED <<server, leaves>>

TakeAck(c) ==
    /\ clients[c].st \in {"requesting", "renewing"}
    /\ \E m \in net : m.kind = "ack" /\ m.mac = c /\ m.ip = clients[c].ip
         /\ Becomes(c, "bound", m.ip, m.life)
         /\ net' = net \ {m}
    /\ UNCHANGED <<server, leaves>>

TakeNak(c) ==
    /\ clients[c].st \in {"requesting", "renewing"}
    /\ \E m \in net : m.kind = "nak" /\ m.mac = c
         /\ Becomes(c, "init", None, 0)
         /\ net' = net \ {m}
    /\ UNCHANGED <<server, leaves>>

\* Its lease ends, it starts over, or finds its new address in use.
Leave(c) ==
    /\ clients[c].st # "init" /\ leaves < MaxLeaves
    /\ leaves' = leaves + 1
    /\ Becomes(c, "init", clients[c].ip, 0)
    /\ \/ UNCHANGED net
       \/ clients[c].st = "bound" /\ Carries(net, Datagram("decline", c, clients[c].ip, 0))
    /\ UNCHANGED server
----------------------------------------------------------------------------
Init ==
    /\ server = [thread |-> "down", running |-> FALSE, cache |-> <<>>,
                 current |-> 0, life |-> 0]
    /\ clients \in [Clients -> [st : {"init"}, ip : Wanted \cup {None}, life : {0}]]
    /\ net = {} /\ leaves = 0

Next ==
    \/ Start \/ Serves \/ Ends \/ Stop
    \/ \E c \in Clients :
         \/ \E kind \in {"discover", "request", "decline"} : Process(c, kind)
         \/ Discover(c) \/ Request(c) \/ SendAgain(c)
         \/ TakeOffer(c) \/ TakeAck(c) \/ TakeNak(c) \/ Leave(c)

Spec == Init /\ [][Next]_vars

\* Clients go on asking and renewing; what is sent again and again arrives.
FairSpec ==
    /\ Spec
    /\ \A c \in Clients :
         /\ WF_vars(Discover(c) \/ Request(c) \/ SendAgain(c))
         /\ SF_vars(\E kind \in {"discover", "request"} : Process(c, kind))
         /\ SF_vars(TakeOffer(c) \/ TakeAck(c) \/ TakeNak(c))
----------------------------------------------------------------------------
(* Properties *)

Threads == {"down", "starting", "serving", "searching", "ended"}
Entries == [mac : Clients, ip : Addrs]

TypeOK ==
    /\ server \in [thread : Threads, running : BOOLEAN, cache : Seq(Entries),
                   current : Addrs, life : 0 .. MaxLives]
    /\ Len(server.cache) <= CacheSize
    /\ clients \in [Clients -> [st : {"init", "selecting", "requesting", "bound", "renewing"},
                                ip : Addrs \cup {Foreign, None}, life : 0 .. MaxLives]]
    /\ net \subseteq Questions \cup Answers
    /\ leaves \in 0 .. MaxLeaves

\* The client uses an address this run of the server has granted.
Holds(c) == clients[c].st \in {"bound", "renewing"} /\ clients[c].life = server.life

(* What the server has offered or granted it stands by: a request for it   *)
(* is not refused, however late it comes and whoever asked in between.     *)
LeaseStands ==
    /\ \A m \in net : m.kind \in {"offer", "ack"} /\ m.life = server.life
           => Grants(server, m.mac, m.ip)
    /\ \A c \in Clients : Holds(c) => Grants(server, c, clients[c].ip)

(* A client the server remembers shares its address with no other client   *)
(* of this run of the server, remembered or not.                           *)
RememberedAlone ==
    \A c, d \in Clients :
        Holds(c) /\ Holds(d) /\ c # d /\ clients[c].ip = clients[d].ip
            => LookupMac(server, c) = None

(* When the server stays up, all clients end up, and stay, with addresses  *)
(* of this run: also those that came with an older or a foreign one, and   *)
(* those there is no room to remember.                                     *)
AskersServed ==
    \A c \in Clients : <>[](server.thread = "serving") => <>[]Holds(c)

(* dhcp-server.c:533-536: an address is granted when it is "not assigned   *)
(* to any other client".                                                   *)
NotAssignedToOthers ==
    \A c, d \in Clients :
        Holds(c) /\ Holds(d) /\ c # d => clients[c].ip # clients[d].ip

(* next_yiaddr finds an address.                                           *)
SearchEnds == server.thread # "searching"
=============================================================================
