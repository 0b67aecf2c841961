-------------------------- MODULE DhcpServerProofs ---------------------------
(***************************************************************************)
(* Proofs about DhcpServer, for all clients, subnets and cache sizes.      *)
(* Grants alone is not inductive: what is granted to a client that is not  *)
(* remembered could be given to the next one.  It cannot, because such a   *)
(* client exists only when the cache is full, and a full cache never       *)
(* changes again; a promise says which of the two holds.                   *)
(***************************************************************************)
EXTENDS DhcpServer, TLAPS

Servers == [thread : Threads, running : BOOLEAN, cache : Seq(Entries),
            current : Addrs, life : 0 .. MaxLives]

\* One address per client, one client per address, all usable.
Sound(s) ==
    /\ s \in Servers /\ Len(s.cache) <= CacheSize
    /\ \A i \in DOMAIN s.cache : s.cache[i].ip \notin {0, MyIp, Size - 1}
    /\ \A i, j \in DOMAIN s.cache :
         s.cache[i].mac = s.cache[j].mac \/ s.cache[i].ip = s.cache[j].ip => i = j

Promised(s, c, ip) ==
    \/ ip \in Addrs /\ LookupMac(s, c) = ip
    \/ LookupMac(s, c) = None /\ Len(s.cache) = CacheSize /\ ValidIp(s, ip)

Keeps(s, t) ==
    /\ Sound(t) /\ t.life = s.life
    /\ \A d \in Clients : \A x \in Addrs : Promised(s, d, x) => Promised(t, d, x)

Standing ==
    /\ \A m \in net : m.life <= server.life
    /\ \A m \in net : m.kind \in {"offer", "ack"} /\ m.life = server.life
           => m.ip \in Addrs /\ Promised(server, m.mac, m.ip)
    /\ \A c \in Clients : clients[c].life <= server.life
    /\ \A c \in Clients : Holds(c) =>
           clients[c].ip \in Addrs /\ Promised(server, c, clients[c].ip)

IInv == TypeOK /\ Sound(server) /\ Standing
----------------------------------------------------------------------------
(* The cache *)

LEMMA Found ==
    ASSUME NEW s, Sound(s), NEW i \in DOMAIN s.cache
    PROVE  /\ LookupMac(s, s.cache[i].mac) = s.cache[i].ip
           /\ s.cache[i] \in Entries /\ s.cache[i].ip \in Addrs
           /\ ~ValidIp(s, s.cache[i].ip)
<1> DEFINE at == {j \in DOMAIN s.cache : s.cache[j].mac = s.cache[i].mac}
<1>1. s.cache \in Seq(Entries)
  BY DEF Sound, Servers
<1>2. at = {i}
  BY DEF Sound
<1>3. i \in Nat
  BY <1>1
<1>4. (CHOOSE k \in at : \A j \in at : k <= j) = i
  BY <1>2, <1>3
<1>5. s.cache[i] \in Entries
  BY <1>1
<1> HIDE DEF at
<1>6. LookupMac(s, s.cache[i].mac) = s.cache[CHOOSE k \in at : \A j \in at : k <= j].ip
  BY <1>2 DEF LookupMac, at
<1>7. ~ValidIp(s, s.cache[i].ip)
  BY DEF ValidIp
<1>8. s.cache[i].ip \in Addrs
  BY <1>5 DEF Entries
<1> QED
  BY <1>4, <1>5, <1>6, <1>7, <1>8

LEMMA Unknown ==
    ASSUME NEW s, Sound(s), NEW c
    PROVE  /\ LookupMac(s, c) = None <=> \A i \in DOMAIN s.cache : s.cache[i].mac # c
           /\ LookupMac(s, c) # None =>
                \E i \in DOMAIN s.cache : s.cache[i].mac = c /\ LookupMac(s, c) = s.cache[i].ip
<1>1. CASE \A i \in DOMAIN s.cache : s.cache[i].mac # c
  BY <1>1 DEF LookupMac
<1>2. ASSUME NEW i \in DOMAIN s.cache, s.cache[i].mac = c
      PROVE  LookupMac(s, c) = s.cache[i].ip /\ LookupMac(s, c) # None
  BY <1>2, Found, DhcpAssumption
<1> QED
  BY <1>1, <1>2

LEMMA AddKeeps ==
    ASSUME NEW s, Sound(s), NEW c \in Clients, NEW ip \in Addrs,
           LookupMac(s, c) = None, ValidIp(s, ip)
    PROVE  Keeps(s, Add(s, c, ip)) /\ Promised(Add(s, c, ip), c, ip)
<1> DEFINE e == [mac |-> c, ip |-> ip]
           t == Add(s, c, ip)
<1>0. s \in Servers /\ s.cache \in Seq(Entries) /\ Len(s.cache) \in Nat
      /\ Len(s.cache) <= CacheSize /\ CacheSize \in Nat /\ e \in Entries
  BY DhcpAssumption DEF Sound, Servers, Entries
<1>1. CASE Len(s.cache) = CacheSize
  <2>1. t = s
    BY <1>0, <1>1 DEF Add
  <2> QED
    BY <1>1, <2>1 DEF Keeps, Promised
<1>2. CASE Len(s.cache) < CacheSize
  <2>1. t = [s EXCEPT !.cache = Append(s.cache, e)]
    BY <1>2 DEF Add
  <2>2. t \in Servers /\ t.cache = Append(s.cache, e) /\ t.life = s.life
    BY <1>0, <2>1 DEF Servers
  <2>3. /\ Len(t.cache) = Len(s.cache) + 1 /\ DOMAIN t.cache = 1 .. Len(s.cache) + 1
        /\ DOMAIN s.cache = 1 .. Len(s.cache)
        /\ t.cache[Len(s.cache) + 1] = e
        /\ \A i \in DOMAIN s.cache : t.cache[i] = s.cache[i]
    BY <1>0, <2>2
  <2>4. \A i \in DOMAIN s.cache : s.cache[i].mac # c /\ s.cache[i].ip # ip
    BY Unknown DEF ValidIp
  <2>5. Sound(t)
    <3>1. Len(t.cache) <= CacheSize
      BY <1>0, <1>2, <2>3
    <3>2. ASSUME NEW i \in DOMAIN t.cache PROVE t.cache[i].ip \notin {0, MyIp, Size - 1}
      <4>1. CASE i \in DOMAIN s.cache
        BY <2>3, <4>1 DEF Sound
      <4>2. CASE i = Len(s.cache) + 1
        BY <2>3, <4>2 DEF ValidIp
      <4> QED
        BY <1>0, <2>3, <4>1, <4>2
    <3>3. ASSUME NEW i \in DOMAIN t.cache, NEW j \in DOMAIN t.cache,
                 t.cache[i].mac = t.cache[j].mac \/ t.cache[i].ip = t.cache[j].ip
          PROVE  i = j
      <4>1. CASE i \in DOMAIN s.cache /\ j \in DOMAIN s.cache
        BY <2>3, <3>3, <4>1 DEF Sound
      <4>2. CASE i = Len(s.cache) + 1 \/ j = Len(s.cache) + 1
        BY <1>0, <2>3, <2>4, <3>3, <4>2
      <4> QED
        BY <1>0, <2>3, <4>1, <4>2
    <3> QED
      BY <2>2, <3>1, <3>2, <3>3 DEF Sound
  <2>6. ASSUME NEW d \in Clients, NEW x \in Addrs, Promised(s, d, x) PROVE Promised(t, d, x)
    <3>1. LookupMac(s, d) = x /\ x # None
      BY <1>0, <1>2, <2>6, DhcpAssumption DEF Promised
    <3>2. PICK i \in DOMAIN s.cache : s.cache[i].mac = d /\ s.cache[i].ip = x
      BY <3>1, Unknown
    <3>3. i \in DOMAIN t.cache /\ t.cache[i] = s.cache[i]
      BY <1>0, <2>3
    <3> QED
      BY <2>5, <3>2, <3>3, Found DEF Promised
  <2>7. Promised(t, c, ip)
    <3>1. Len(s.cache) + 1 \in DOMAIN t.cache
      BY <1>0, <2>3
    <3> QED
      BY <2>3, <2>5, <3>1, Found DEF Promised
  <2> QED
    BY <2>2, <2>5, <2>6, <2>7 DEF Keeps
<1> QED
  BY <1>0, <1>1, <1>2

LEMMA PromisedGranted ==
    ASSUME NEW s, NEW c, NEW ip \in Addrs, Promised(s, c, ip)
    PROVE  Grants(s, c, ip)
BY DhcpAssumption DEF Promised, Grants

LEMMA NoteKeeps ==
    ASSUME NEW s, Sound(s), NEW c \in Clients, NEW ip
    PROVE  /\ Keeps(s, Note(s, c, ip))
           /\ Grants(s, c, ip) => ip \in Addrs /\ Promised(Note(s, c, ip), c, ip)
<1>1. CASE LookupMac(s, c) = None /\ Grants(s, c, ip)
  BY <1>1, AddKeeps DEF Note, Grants
<1>2. CASE ~(LookupMac(s, c) = None /\ Grants(s, c, ip))
  <2>1. Note(s, c, ip) = s
    BY <1>2 DEF Note
  <2>2. Keeps(s, s)
    BY DEF Keeps
  <2> QED
    BY <1>2, <2>1, <2>2 DEF Grants, Promised
<1> QED
  BY <1>1, <1>2
----------------------------------------------------------------------------
(* The answers *)

\* What the server sends, it has promised.
Answered(m) ==
    /\ m \in Answers /\ m.life = server.life
    /\ m.kind \in {"offer", "ack"} => m.ip \in Addrs /\ Promised(server', m.mac, m.ip)

LEMMA KeepsBoth ==
    ASSUME NEW s, NEW t, NEW u, Keeps(s, t), Keeps(t, u)
    PROVE  Keeps(s, u)
BY DEF Keeps

LEMMA Carried ==
    ASSUME NEW old, NEW m, Carries(old, m)
    PROVE  net' \subseteq old \cup {m}
BY DEF Carries

LEMMA OffersKeep ==
    ASSUME TypeOK, NEW s, Sound(s), s.life = server.life,
           NEW m \in net, m.mac \in Clients, Offers(s, m)
    PROVE  Keeps(s, server') /\ \A n \in net' : n \in net \/ Answered(n)
<1>0. s \in Servers /\ s.life \in 0 .. MaxLives /\ Keeps(s, s)
  BY DEF Sound, Servers, Keeps
<1>1. CASE LookupMac(s, m.mac) # None /\ server' = s
           /\ Carries(net \ {m}, Datagram("offer", m.mac, LookupMac(s, m.mac), s.life))
  <2>1. LookupMac(s, m.mac) \in Addrs
    BY <1>1, Unknown, Found
  <2>2. Answered(Datagram("offer", m.mac, LookupMac(s, m.mac), s.life))
    BY <1>0, <1>1, <2>1 DEF Answered, Answers, Datagram, Promised
  <2> QED
    BY <1>0, <1>1, <2>2, Carried
<1>2. CASE server' = [s EXCEPT !.thread = "searching"] /\ net' = net \ {m}
  <2>1. server' \in Servers /\ server'.cache = s.cache /\ server'.life = s.life
    BY <1>0, <1>2 DEF Servers, Threads
  <2>2. Keeps(s, server')
    BY <2>1 DEF Keeps, Sound, Promised, LookupMac, ValidIp
  <2> QED
    BY <1>2, <2>2
<1>3. ASSUME LookupMac(s, m.mac) = None, NEW k \in Hits(s),
             server' = Add([s EXCEPT !.current = (s.current + k) % Size], m.mac,
                           (s.current + k) % Size),
             Carries(net \ {m}, Datagram("offer", m.mac, (s.current + k) % Size, s.life))
      PROVE  Keeps(s, server') /\ \A n \in net' : n \in net \/ Answered(n)
  <2> DEFINE ip == (s.current + k) % Size
             t  == [s EXCEPT !.current = ip]
  <2>1. ip \in Addrs /\ ValidIp(s, ip)
    BY DEF Hits, ValidIp
  <2> HIDE DEF ip
  <2>2. t \in Servers /\ t.cache = s.cache /\ t.life = s.life
    BY <1>0, <2>1 DEF Servers
  <2>3. Keeps(s, t)
    BY <2>2 DEF Keeps, Sound, Promised, LookupMac, ValidIp
  <2>4. LookupMac(t, m.mac) = None /\ ValidIp(t, ip)
    BY <1>3, <2>1, <2>2 DEF LookupMac, ValidIp
  <2>5. server' = Add(t, m.mac, ip)
    BY <1>3 DEF ip
  <2>6. Keeps(t, server') /\ Promised(server', m.mac, ip)
    BY <2>1, <2>3, <2>4, <2>5, AddKeeps DEF Keeps
  <2>7. Answered(Datagram("offer", m.mac, ip, s.life))
    BY <1>0, <2>1, <2>6 DEF Answered, Answers, Datagram
  <2> QED
    BY <1>3, <2>3, <2>6, <2>7, Carried, KeepsBoth DEF ip
<1> QED
  BY <1>1, <1>2, <1>3 DEF Offers

LEMMA ProcessKeeps ==
    ASSUME IInv, NEW c \in Clients, NEW kind \in {"discover", "request", "decline"},
           Process(c, kind)
    PROVE  Keeps(server, server') /\ \A n \in net' : n \in net \/ Answered(n)
<1>1. PICK m \in net : m.kind = kind /\ m.mac = c
         /\ LET s == Note(server, c, m.ip)
            IN  CASE kind = "discover" -> Offers(s, m)
                  [] kind = "decline"  -> server' = s /\ net' = net \ {m}
                  [] kind = "request"  ->
                       /\ server' = s
                       /\ Carries(net \ {m},
                            IF Grants(server, c, m.ip) THEN Datagram("ack", c, m.ip, s.life)
                            ELSE Datagram("nak", c, None, s.life))
  BY DEF Process
<1> DEFINE s == Note(server, c, m.ip)
<1>2. Keeps(server, s) /\ (Grants(server, c, m.ip) => m.ip \in Addrs /\ Promised(s, c, m.ip))
  BY NoteKeeps DEF IInv
<1>3. s.life = server.life /\ Sound(s) /\ s.life \in 0 .. MaxLives
  BY <1>2 DEF Keeps, Sound, Servers
<1> HIDE DEF s
<1>4. CASE kind = "discover"
  <2>1. Offers(s, m)
    BY <1>1, <1>4 DEF s
  <2>2. Keeps(s, server') /\ \A n \in net' : n \in net \/ Answered(n)
    BY <1>1, <1>3, <2>1, OffersKeep DEF IInv
  <2> QED
    BY <1>2, <2>2, KeepsBoth
<1>5. CASE kind = "decline"
  <2>1. server' = s /\ net' = net \ {m}
    BY <1>1, <1>5 DEF s
  <2> QED
    BY <1>2, <2>1
<1>6. CASE kind = "request"
  <2> DEFINE a == IF Grants(server, c, m.ip) THEN Datagram("ack", c, m.ip, s.life)
                  ELSE Datagram("nak", c, None, s.life)
  <2>1. server' = s /\ Carries(net \ {m}, a)
    BY <1>1, <1>6 DEF s
  <2>2. Answered(a)
    BY <1>2, <1>3, <2>1 DEF Answered, Answers, Datagram
  <2> HIDE DEF a
  <2>3. net' \subseteq (net \ {m}) \cup {a}
    BY <2>1, Carried
  <2> QED
    BY <1>2, <2>1, <2>2, <2>3
<1> QED
  BY <1>4, <1>5, <1>6
----------------------------------------------------------------------------
(* The invariant *)

ClientStates == {"init", "selecting", "requesting", "bound", "renewing"}
ClientRecords == [st : ClientStates, ip : Addrs \cup {Foreign, None}, life : 0 .. MaxLives]

\* A client's step: it becomes r and sends nothing but questions.
LEMMA ClientKeeps ==
    ASSUME IInv, NEW c \in Clients, NEW r \in ClientRecords,
           clients' = [clients EXCEPT ![c] = r], r.life <= server.life,
           r.st \in {"bound", "renewing"} /\ r.life = server.life
               => r.ip \in Addrs /\ Promised(server, c, r.ip),
           \A n \in net' : n \in net \/ (n \in Questions /\ n.life <= server.life),
           server' = server, leaves' \in 0 .. MaxLeaves
    PROVE  IInv'
<1>1. clients \in [Clients -> ClientRecords] /\ net \subseteq Questions \cup Answers
  BY DEF IInv, TypeOK, ClientRecords, ClientStates
<1>2. clients' \in [Clients -> ClientRecords] /\ net' \subseteq Questions \cup Answers
  BY <1>1
<1>3. TypeOK'
  BY <1>2 DEF IInv, TypeOK, ClientRecords, ClientStates
<1>4. \A n \in Questions : n.kind \notin {"offer", "ack"}
  BY DEF Questions
<1>5. Sound(server)'
  BY DEF IInv, Sound
<1>6. clients'[c] = r /\ \A d \in Clients \ {c} : clients'[d] = clients[d]
  BY <1>1
<1>7. Standing'
  <2>1. \A m \in net' : m.life <= server.life
    BY DEF IInv, Standing
  <2>2. \A m \in net' : m.kind \in {"offer", "ack"} /\ m.life = server.life
           => m.ip \in Addrs /\ Promised(server, m.mac, m.ip)
    BY <1>4 DEF IInv, Standing
  <2>3. \A d \in Clients : clients'[d].life <= server.life
    BY <1>6 DEF IInv, Standing
  <2>4. \A d \in Clients : Holds(d)' =>
           clients'[d].ip \in Addrs /\ Promised(server, d, clients'[d].ip)
    BY <1>6 DEF IInv, Standing, Holds
  <2> QED
    BY <2>1, <2>2, <2>3, <2>4 DEF Standing
<1> QED
  BY <1>3, <1>5, <1>7 DEF IInv

\* A step of the server: what it had promised stands, what it sends is new.
ServerStep ==
    /\ Keeps(server, server') /\ UNCHANGED <<clients, leaves>>
    /\ \A n \in net' : n \in net \/ Answered(n)

LEMMA ServerKeeps ==
    ASSUME IInv, ServerStep
    PROVE  IInv'
<1>1. Sound(server') /\ server'.life = server.life
      /\ \A d \in Clients : \A x \in Addrs : Promised(server, d, x) => Promised(server', d, x)
  BY DEF ServerStep, Keeps
<1>2. net' \subseteq Questions \cup Answers
  BY DEF ServerStep, Answered, IInv, TypeOK
<1>3. TypeOK'
  BY <1>1, <1>2 DEF ServerStep, IInv, TypeOK, Sound, Servers
<1>4. \A m \in Questions \cup Answers : m.mac \in Clients
  BY DEF Questions, Answers
<1>5. \A m \in net' : m.life <= server'.life
  BY <1>1 DEF ServerStep, Answered, IInv, Standing, Sound, Servers
<1>6. \A m \in net' : m.kind \in {"offer", "ack"} /\ m.life = server'.life
         => m.ip \in Addrs /\ Promised(server', m.mac, m.ip)
  BY <1>1, <1>2, <1>4 DEF ServerStep, Answered, IInv, Standing
<1>7. \A c \in Clients : clients'[c].life <= server'.life
  BY <1>1 DEF ServerStep, IInv, Standing
<1>8. \A c \in Clients : Holds(c)' =>
         clients'[c].ip \in Addrs /\ Promised(server', c, clients'[c].ip)
  BY <1>1 DEF ServerStep, IInv, Standing, Holds
<1>9. Standing' /\ Sound(server)'
  BY <1>1, <1>5, <1>6, <1>7, <1>8 DEF Standing, Sound, Promised, LookupMac, ValidIp
<1> QED
  BY <1>3, <1>9 DEF IInv

LEMMA StartKeeps ==
    ASSUME IInv, Start
    PROVE  IInv'
<1>1. server.life \in 0 .. MaxLives /\ MaxLives \in Nat
  BY DhcpAssumption DEF IInv, Sound, Servers
<1>2. server' = [thread |-> "starting", running |-> TRUE, cache |-> <<>>,
                 current |-> 0, life |-> server.life + 1]
      /\ server.life < MaxLives /\ UNCHANGED <<clients, net, leaves>>
  BY DEF Start
<1>3. 0 \in Addrs
  BY DhcpAssumption DEF Addrs
<1>4. server' \in Servers /\ server'.life = server.life + 1 /\ server'.cache = <<>>
  BY <1>1, <1>2, <1>3 DEF Servers, Threads
<1>5. Sound(server')
  BY <1>4, DhcpAssumption DEF Sound
<1>6. TypeOK'
  BY <1>2, <1>4, <1>5 DEF IInv, TypeOK, Servers, Sound
<1>7. \A m \in net : m.life \in 0 .. MaxLives /\ m.life <= server.life
  BY DhcpAssumption DEF IInv, TypeOK, Standing, Questions, Answers
<1>8. \A c \in Clients : clients[c].life \in 0 .. MaxLives /\ clients[c].life <= server.life
  BY DEF IInv, TypeOK, Standing
<1>9. Standing'
  BY <1>1, <1>2, <1>4, <1>7, <1>8 DEF Standing, Holds
<1> QED
  BY <1>5, <1>6, <1>9 DEF IInv, Sound

LEMMA ThreadKeeps ==
    ASSUME IInv, Serves \/ Ends \/ Stop
    PROVE  IInv'
<1>1. PICK th \in Threads, b \in BOOLEAN :
         server' = [server EXCEPT !.thread = th, !.running = b]
  <2>1. server \in Servers
    BY DEF IInv, Sound
  <2>2. CASE Serves \/ Ends
    <3>1. server = [server EXCEPT !.running = server.running] /\ server.running \in BOOLEAN
      BY <2>1 DEF Servers
    <3>2. PICK th \in Threads : server' = [server EXCEPT !.thread = th]
      BY <2>2 DEF Serves, Ends, Threads
    <3>3. server' = [server EXCEPT !.thread = th, !.running = server.running]
      BY <2>1, <3>2 DEF Servers
    <3> QED
      BY <3>1, <3>3
  <2>3. CASE Stop
    BY <2>3 DEF Stop, Threads
  <2> QED
    BY <2>2, <2>3
<1>2. UNCHANGED <<clients, net, leaves>>
  BY DEF Serves, Ends, Stop
<1>3. server' \in Servers /\ server'.cache = server.cache /\ server'.life = server.life
  BY <1>1 DEF IInv, Sound, Servers
<1>4. Keeps(server, server')
  BY <1>3 DEF Keeps, IInv, Sound, Promised, LookupMac, ValidIp
<1> QED
  BY <1>2, <1>4, ServerKeeps DEF ServerStep

LEMMA ClientsKeep ==
    ASSUME IInv, NEW c \in Clients,
           \/ Discover(c) \/ Request(c) \/ SendAgain(c)
           \/ TakeOffer(c) \/ TakeAck(c) \/ TakeNak(c) \/ Leave(c)
    PROVE  IInv'
<1> DEFINE r == clients[c]
<1>0. /\ clients \in [Clients -> ClientRecords] /\ r \in ClientRecords
      /\ net \subseteq Questions \cup Answers /\ leaves \in 0 .. MaxLeaves
      /\ server.life \in 0 .. MaxLives /\ MaxLives \in Nat /\ MaxLeaves \in Nat
      /\ r.life <= server.life
  BY DhcpAssumption DEF IInv, TypeOK, Standing, Sound, Servers, ClientRecords, ClientStates
<1>1. r.ip \in Addrs \cup {Foreign, None} /\ r.life \in 0 .. MaxLives /\ r.st \in ClientStates
      /\ r = [st |-> r.st, ip |-> r.ip, life |-> r.life]
  BY <1>0 DEF ClientRecords
<1>2. ASSUME NEW old, old \subseteq net, NEW kind \in {"discover", "request", "decline"},
             NEW ip \in Addrs \cup {Foreign, None}, Carries(old, Datagram(kind, c, ip, 0))
      PROVE  \A n \in net' : n \in net \/ (n \in Questions /\ n.life <= server.life)
  <2>1. net' \subseteq old \cup {Datagram(kind, c, ip, 0)}
    BY <1>2, Carried
  <2>2. Datagram(kind, c, ip, 0) \in Questions /\ Datagram(kind, c, ip, 0).life <= server.life
    BY <1>0 DEF Datagram, Questions
  <2> QED
    BY <1>2, <2>1, <2>2
<1>3. r.st \in {"bound", "renewing"} /\ r.life = server.life
          => r.ip \in Addrs /\ Promised(server, c, r.ip)
  BY DEF IInv, Standing, Holds
<1>4. CASE Discover(c)
  <2>1. PICK ip \in {None, r.ip} :
          /\ Becomes(c, "selecting", ip, r.life)
          /\ Carries(net, Datagram("discover", c, ip, 0))
    BY <1>4 DEF Discover
  <2> DEFINE q == [st |-> "selecting", ip |-> ip, life |-> r.life]
  <2>2. q \in ClientRecords /\ clients' = [clients EXCEPT ![c] = q]
    BY <1>0, <1>1, <2>1 DEF ClientRecords, ClientStates, Becomes
  <2>3. \A n \in net' : n \in net \/ (n \in Questions /\ n.life <= server.life)
    BY <1>1, <1>2, <2>1
  <2> QED
    BY <1>0, <1>4, <2>2, <2>3, ClientKeeps DEF Discover
<1>5. CASE Request(c)
  <2> DEFINE q == [st |-> IF r.st = "bound" THEN "renewing" ELSE "requesting",
                   ip |-> r.ip, life |-> r.life]
  <2>1. q \in ClientRecords /\ clients' = [clients EXCEPT ![c] = q]
    BY <1>0, <1>1, <1>5 DEF Request, ClientRecords, ClientStates, Becomes
  <2>2. \A n \in net' : n \in net \/ (n \in Questions /\ n.life <= server.life)
    BY <1>1, <1>2, <1>5 DEF Request
  <2>3. q.st \in {"bound", "renewing"} => r.st = "bound"
    OBVIOUS
  <2> QED
    BY <1>0, <1>3, <1>5, <2>1, <2>2, <2>3, ClientKeeps DEF Request
<1>6. CASE SendAgain(c)
  <2>1. clients' = [clients EXCEPT ![c] = r]
    BY <1>0, <1>6 DEF SendAgain
  <2>2. Carries(net, Datagram(IF r.st = "selecting" THEN "discover" ELSE "request", c, r.ip, 0))
    BY <1>6 DEF SendAgain, Question
  <2>3. \A n \in net' : n \in net \/ (n \in Questions /\ n.life <= server.life)
    BY <1>1, <1>2, <2>2
  <2> QED
    BY <1>0, <1>3, <1>6, <2>1, <2>3, ClientKeeps DEF SendAgain
<1>7. CASE TakeOffer(c)
  <2>1. PICK m \in net :
          /\ m.kind = "offer" /\ m.mac = c
          /\ Becomes(c, "requesting", m.ip, r.life)
          /\ Carries(net \ {m}, Datagram("request", c, m.ip, 0))
    BY <1>7 DEF TakeOffer
  <2> DEFINE q == [st |-> "requesting", ip |-> m.ip, life |-> r.life]
  <2>2. m.ip \in Addrs \cup {Foreign, None}
    BY <1>0, <2>1 DEF Questions, Answers
  <2>3. q \in ClientRecords /\ clients' = [clients EXCEPT ![c] = q]
    BY <1>0, <1>1, <2>1, <2>2 DEF ClientRecords, ClientStates, Becomes
  <2>4. \A n \in net' : n \in net \/ (n \in Questions /\ n.life <= server.life)
    BY <1>2, <2>1, <2>2
  <2> QED
    BY <1>0, <1>7, <2>3, <2>4, ClientKeeps DEF TakeOffer
<1>8. CASE TakeAck(c)
  <2>1. PICK m \in net :
          /\ m.kind = "ack" /\ m.mac = c /\ m.ip = r.ip
          /\ Becomes(c, "bound", m.ip, m.life)
          /\ net' = net \ {m}
    BY <1>8 DEF TakeAck
  <2> DEFINE q == [st |-> "bound", ip |-> r.ip, life |-> m.life]
  <2>2. m.life \in 0 .. MaxLives
    BY <1>0, <2>1, DhcpAssumption DEF Questions, Answers
  <2>3. q \in ClientRecords /\ clients' = [clients EXCEPT ![c] = q]
    BY <1>0, <1>1, <2>1, <2>2 DEF ClientRecords, ClientStates, Becomes
  <2>4. m.life <= server.life
    BY <2>1 DEF IInv, Standing
  <2>5. m.life = server.life => r.ip \in Addrs /\ Promised(server, c, r.ip)
    BY <2>1 DEF IInv, Standing
  <2>6. server' = server /\ leaves' \in 0 .. MaxLeaves
        /\ \A n \in net' : n \in net \/ (n \in Questions /\ n.life <= server.life)
    BY <1>0, <1>8, <2>1 DEF TakeAck
  <2> QED
    BY <2>3, <2>4, <2>5, <2>6, ClientKeeps
<1>9. CASE TakeNak(c)
  <2> DEFINE q == [st |-> "init", ip |-> None, life |-> 0]
  <2>1. q \in ClientRecords /\ q.life <= server.life
    BY <1>0 DEF ClientRecords, ClientStates
  <2> QED
    BY <1>0, <1>9, <2>1, ClientKeeps DEF TakeNak, Becomes
<1>10. CASE Leave(c)
  <2> DEFINE q == [st |-> "init", ip |-> r.ip, life |-> 0]
  <2>1. q \in ClientRecords /\ clients' = [clients EXCEPT ![c] = q] /\ q.life <= server.life
    BY <1>0, <1>1, <1>10 DEF Leave, ClientRecords, ClientStates, Becomes
  <2>2. \A n \in net' : n \in net \/ (n \in Questions /\ n.life <= server.life)
    BY <1>1, <1>2, <1>10 DEF Leave
  <2>3. leaves' \in 0 .. MaxLeaves /\ server' = server
    BY <1>0, <1>10 DEF Leave
  <2> QED
    BY <2>1, <2>2, <2>3, ClientKeeps
<1> QED
  BY <1>4, <1>5, <1>6, <1>7, <1>8, <1>9, <1>10

LEMMA InitHolds == Init => IInv
<1> SUFFICES ASSUME Init PROVE IInv
  OBVIOUS
<1>1. 0 \in Addrs /\ CacheSize \in Nat /\ MaxLives \in Nat /\ MaxLeaves \in Nat
      /\ Wanted \subseteq Addrs \cup {Foreign}
  BY DhcpAssumption DEF Addrs
<1>2. server \in Servers /\ server.cache = <<>> /\ server.life = 0
  BY <1>1 DEF Init, Servers, Threads
<1>3. Sound(server)
  BY <1>1, <1>2 DEF Sound
<1>4. TypeOK
  BY <1>1, <1>2, <1>3 DEF Init, TypeOK, Sound, Servers
<1>5. Standing
  BY <1>2 DEF Init, Standing, Holds
<1> QED
  BY <1>3, <1>4, <1>5 DEF IInv

LEMMA NextKeeps == IInv /\ [Next]_vars => IInv'
<1> SUFFICES ASSUME IInv, [Next]_vars PROVE IInv'
  OBVIOUS
<1>1. CASE Start
  BY <1>1, StartKeeps
<1>2. CASE Serves \/ Ends \/ Stop
  BY <1>2, ThreadKeeps
<1>3. ASSUME NEW c \in Clients, NEW kind \in {"discover", "request", "decline"}, Process(c, kind)
      PROVE  IInv'
  <2>1. UNCHANGED <<clients, leaves>>
    BY <1>3 DEF Process
  <2> QED
    BY <1>3, <2>1, ProcessKeeps, ServerKeeps DEF ServerStep
<1>4. ASSUME NEW c \in Clients,
             \/ Discover(c) \/ Request(c) \/ SendAgain(c)
             \/ TakeOffer(c) \/ TakeAck(c) \/ TakeNak(c) \/ Leave(c)
      PROVE  IInv'
  BY <1>4, ClientsKeep
<1>5. CASE UNCHANGED vars
  <2>1. server' = server /\ clients' = clients /\ net' = net /\ leaves' = leaves
    BY <1>5 DEF vars
  <2>2. TypeOK' /\ Sound(server)'
    BY <2>1 DEF IInv, TypeOK, Sound
  <2>3. Standing'
    BY <2>1 DEF IInv, Standing, Holds
  <2> QED
    BY <2>2, <2>3 DEF IInv
<1> QED
  BY <1>1, <1>2, <1>3, <1>4, <1>5 DEF Next

LEMMA Invariance == Spec => []IInv
  BY InitHolds, NextKeeps, PTL DEF Spec
----------------------------------------------------------------------------
(* The properties *)

(* Type correctness.                                                       *)
THEOREM TypeCorrect == Spec => []TypeOK
<1>1. IInv => TypeOK
  BY DEF IInv
<1> QED
  BY <1>1, Invariance, PTL

(* Process grants what Offers has offered, and grants it again, however    *)
(* many clients, addresses and entries there are.                          *)
THEOREM LeasesStand == Spec => []LeaseStands
<1>1. IInv => LeaseStands
  BY PromisedGranted DEF IInv, Standing, LeaseStands
<1> QED
  BY <1>1, Invariance, PTL

(* The cache never gives a remembered client's address to another one.     *)
THEOREM RememberedOnesAlone == Spec => []RememberedAlone
<1>1. ASSUME IInv, NEW c \in Clients, NEW d \in Clients,
             Holds(c), Holds(d), c # d, clients[c].ip = clients[d].ip
      PROVE  LookupMac(server, c) = None
  <2> DEFINE x == clients[c].ip
  <2>1. x \in Addrs /\ Promised(server, c, x) /\ Promised(server, d, x) /\ Sound(server)
    BY <1>1 DEF IInv, Standing
  <2>2. SUFFICES ASSUME LookupMac(server, c) # None PROVE FALSE
    OBVIOUS
  <2>3. PICK i \in DOMAIN server.cache : server.cache[i].mac = c /\ server.cache[i].ip = x
    BY <2>1, <2>2, Unknown DEF Promised
  <2>4. ~ValidIp(server, x)
    BY <2>1, <2>3, Found
  <2>5. PICK j \in DOMAIN server.cache : server.cache[j].mac = d /\ server.cache[j].ip = x
    BY <2>1, <2>4, Unknown, DhcpAssumption DEF Promised
  <2>6. i = j
    BY <2>1, <2>3, <2>5 DEF Sound
  <2> QED
    BY <1>1, <2>3, <2>5, <2>6
<1>2. IInv => RememberedAlone
  BY <1>1 DEF RememberedAlone
<1> QED
  BY <1>2, Invariance, PTL
=============================================================================
