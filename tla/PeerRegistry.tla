----------------------------- MODULE PeerRegistry -----------------------------
(***************************************************************************)
(* The registry of peers (internal/network/peer_registry.go) and all who    *)
(* change it: the readers of mDNS browse sessions (mdns_discovery.go), the  *)
(* probes of the health checker (peer_health.go), and the API, which adds   *)
(* and deletes peers and switches discovery (mdns_controller.go, api/       *)
(* handlers/network.go, peers.go).  Fingerprint, architecture and status    *)
(* are told to others and steer nothing here; of LastSeen the registry asks *)
(* whether it is more than 60 seconds ago.                                  *)
(***************************************************************************)
EXTENDS Naturals, FiniteSets, Functions

CONSTANTS
    Peers,          \* the other nodes, by the name they broadcast
    Static,         \* the names given to the addresses of BALEEN_PEERS
    Manual,         \* the names manual-<second> given to peers a user adds
    Addresses, Home, StaticAddress, \* where peers are at first, and static ones configured
    Readers,        \* goroutines that read the entries of a browse session
    Clients,        \* handlers of POST /api/network/settings
    None,           \* no reader, no name, no address
    MaxProbes,      \* bound: probes at a time
    MaxChanges,     \* bound: changes of the network
    MaxRequests     \* bound: requests of the user

Names == Peers \cup Static \cup Manual

ASSUME NamesAssumption ==
    /\ Peers \cap Static = {} /\ Peers \cap Manual = {} /\ Static \cap Manual = {}
ASSUME NoneAssumption == None \notin Names /\ None \notin Addresses /\ None \notin Readers
ASSUME HomeAssumption ==
    /\ Home \in [Peers -> Addresses] /\ StaticAddress \in [Static -> Addresses]
    /\ \A g, h \in Peers : Home[g] = Home[h] => g = h
    /\ \A g, h \in Static : StaticAddress[g] = StaticAddress[h] => g = h

VARIABLES
    nodes,      \* name -> address
    metadata,   \* name -> source, and whether LastSeen is 60 seconds ago
    enabled,    \* discoveryEnabled
    session,    \* the reader of the running browse session
    reader,     \* the entry each reader is dialling
    client,     \* how far each handler is
    probes,     \* the goroutines of the health checker
    mode,       \* of each peer: broadcasting, hidden or down
    at,         \* its address
    changes, requests,
    overtaken,  \* history: the peers that were being dialled at the last clear
    unsteady    \* history: peers that hid, moved, or did not answer

registry  == <<nodes, metadata>>
discovery == <<enabled, session, reader, client, overtaken>>
network   == <<mode, at, changes, unsteady>>
vars      == <<registry, discovery, network, probes, requests>>

Idle == [pc |-> "idle", name |-> None, addr |-> None]

Init ==
    /\ nodes = StaticAddress
    /\ metadata = [s \in Static |-> [source |-> "static", old |-> FALSE]]
    /\ enabled \in BOOLEAN
    /\ session = None
    /\ reader = [r \in Readers |-> Idle]
    /\ client = [c \in Clients |-> "idle"]
    /\ probes = {}
    /\ mode = [h \in Peers |-> "shown"]
    /\ at = Home
    /\ changes = 0 /\ requests = 0
    /\ overtaken = {} /\ unsteady = {}

-----------------------------------------------------------------------------
(* The registry.  Each operation is one critical section.                   *)

Put(f, x, v) == [y \in DOMAIN f \cup {x} |-> IF y = x THEN v ELSE f[y]]

Delete(S) ==
    /\ nodes' = Restrict(nodes, DOMAIN nodes \ S)
    /\ metadata' = Restrict(metadata, DOMAIN metadata \ S)

\* Mutant: the entry another name has at the address stays.
RegisterBeside(n, a, meta) ==
    /\ nodes' = Put(nodes, n, a)
    /\ metadata' = Put(metadata, n, meta)

\* The name takes the address, which any other name loses.
Register(n, a, meta) ==
    LET others == {x \in DOMAIN nodes : nodes[x] = a /\ x # n}
    IN  /\ nodes' = Put(Restrict(nodes, DOMAIN nodes \ others), n, a)
        /\ metadata' = Put(Restrict(metadata, DOMAIN metadata \ others), n, meta)

AddPeer(n, a) ==
    Register(n, a, [source |-> IF n \in DOMAIN metadata THEN metadata[n].source ELSE "mdns",
                    old |-> FALSE])

AddCustomPeer(n, a, source) == Register(n, a, [source |-> source, old |-> FALSE])

FromMDNS == {n \in DOMAIN metadata : metadata[n].source = "mdns"}

Dialling == {r \in Readers : reader[r].pc = "dial"}

ClearMDNSPeers == Delete(FromMDNS) /\ overtaken' = {reader[r].name : r \in Dialling}

\* A minute passes without an entry of n.
Age(n) ==
    /\ n \in DOMAIN metadata /\ ~metadata[n].old
    /\ metadata' = [metadata EXCEPT ![n].old = TRUE]
    /\ UNCHANGED <<nodes, discovery, network, probes, requests>>

-----------------------------------------------------------------------------
(* Discovery.                                                               *)

\* DiscoverPeers finds discovery enabled; each session has a reader of its own.
StartSession(r) ==
    /\ session = None /\ enabled /\ r \notin Dialling
    /\ session' = r
    /\ UNCHANGED <<registry, enabled, reader, client, overtaken, network, probes, requests>>

\* The ticker sees discovery disabled, the node is renamed, or Browse fails.
\* The reader finishes its entry; nobody waits for it.
EndSession ==
    /\ session # None /\ session' = None
    /\ UNCHANGED <<registry, enabled, reader, client, overtaken, network, probes, requests>>

\* Mutant: the flag is read when the session starts, not for each entry.
TakeEntryUnasked(r) ==
    \E h \in Peers :
        /\ session = r /\ r \notin Dialling /\ mode[h] = "shown"
        /\ reader' = [reader EXCEPT ![r] = [pc |-> "dial", name |-> h, addr |-> at[h]]]
        /\ UNCHANGED <<registry, enabled, session, client, overtaken, network, probes, requests>>

\* Mutant: an entry without an address is not skipped.
TakeEntryBlank(r) ==
    \E h \in Peers, a \in Addresses \cup {None} :
        /\ session = r /\ enabled /\ r \notin Dialling /\ mode[h] = "shown"
        /\ a \in {at[h], None}
        /\ reader' = [reader EXCEPT ![r] = [pc |-> "dial", name |-> h, addr |-> a]]
        /\ UNCHANGED <<registry, enabled, session, client, overtaken, network, probes, requests>>

\* An entry arrives, the flag is read, and the reader begins to dial.
TakeEntry(r) ==
    \E h \in Peers :
        /\ session = r /\ enabled /\ r \notin Dialling /\ mode[h] = "shown"
        /\ reader' = [reader EXCEPT ![r] = [pc |-> "dial", name |-> h, addr |-> at[h]]]
        /\ UNCHANGED <<registry, enabled, session, client, overtaken, network, probes, requests>>

\* Dialled or not, the peer is added.
AddEntry(r) ==
    /\ r \in Dialling
    /\ AddPeer(reader[r].name, reader[r].addr)
    /\ reader' = [reader EXCEPT ![r] = Idle]
    /\ UNCHANGED <<enabled, session, client, overtaken, network, probes, requests>>

-----------------------------------------------------------------------------
(* The API.                                                                 *)

Request == requests < MaxRequests /\ requests' = requests + 1

\* SetDiscovery swaps the flag; if that changed it to off, it clears.
Switch(c, on) ==
    /\ client[c] = "idle" /\ Request
    /\ enabled' = on
    /\ client' = [client EXCEPT ![c] = IF on THEN "idle" ELSE IF enabled THEN "clear" ELSE "again"]
    /\ UNCHANGED <<registry, session, reader, overtaken, network, probes>>

\* ... and the handler clears in any case.
Clear(c) ==
    /\ client[c] \in {"clear", "again"}
    /\ client' = [client EXCEPT ![c] = IF @ = "clear" THEN "again" ELSE "idle"]
    /\ ClearMDNSPeers
    /\ UNCHANGED <<enabled, session, reader, network, probes, requests>>

\* POST /api/peers: two adds in one second share a name.
AddManual(n, a) ==
    /\ Request /\ AddCustomPeer(n, a, "manual")
    /\ UNCHANGED <<discovery, network, probes>>

\* DELETE /api/peers/{name}
RemovePeer(n) ==
    /\ Request /\ n \in DOMAIN nodes /\ Delete({n})
    /\ UNCHANGED <<discovery, network, probes>>

-----------------------------------------------------------------------------
(* The health checker.  Every round starts a probe of each entry it copied. *)

HostsAt(a) == {h \in Peers : at[h] = a /\ mode[h] # "down"}
LiveAt(a) == HostsAt(a) # {}
HiddenAt(a) == \E h \in HostsAt(a) : mode[h] = "hidden"

Becomes(p, pc) == probes' = (probes \ {p}) \cup {[p EXCEPT !.pc = pc]}
Ends(p) == probes' = probes \ {p}

StartProbe(n) ==
    /\ n \in DOMAIN nodes /\ Cardinality(probes) < MaxProbes
    /\ probes' = probes \cup {[name |-> n, addr |-> nodes[n], pc |-> "ask"]}
    /\ UNCHANGED <<registry, discovery, network, requests>>

\* Something that is up does not answer in time.
Fails(a) ==
    /\ changes < MaxChanges /\ changes' = changes + 1
    /\ unsteady' = unsteady \cup HostsAt(a)
    /\ UNCHANGED <<mode, at>>

\* Mutant: the answer "hidden" is not looked at.
AskNothing(p) ==
    /\ p.pc = "ask" /\ Becomes(p, "ping") /\ UNCHANGED network
    /\ UNCHANGED <<registry, discovery, requests>>

\* The /status of the metadata server.
Ask(p) ==
    /\ p.pc = "ask"
    /\ \/ HiddenAt(p.addr) /\ Becomes(p, "evict") /\ UNCHANGED network
       \/ HiddenAt(p.addr) /\ Becomes(p, "ping") /\ Fails(p.addr)
       \/ ~HiddenAt(p.addr) /\ Becomes(p, "ping") /\ UNCHANGED network
    /\ UNCHANGED <<registry, discovery, requests>>

\* Mutant: a peer that answers is evicted too.
PingAnyway(p) ==
    /\ p.pc = "ping"
    /\ Becomes(p, "lost") /\ UNCHANGED network
    /\ UNCHANGED <<registry, discovery, requests>>

\* The TCP dial.  Success sets the status and leaves LastSeen as it is.
Ping(p) ==
    /\ p.pc = "ping"
    /\ \/ LiveAt(p.addr) /\ Ends(p) /\ UNCHANGED network
       \/ LiveAt(p.addr) /\ Becomes(p, "lost") /\ Fails(p.addr)
       \/ ~LiveAt(p.addr) /\ Becomes(p, "lost") /\ UNCHANGED network
    /\ UNCHANGED <<registry, discovery, requests>>

\* Under the lock, which is released before RemovePeer takes it again.
Conclude(p) ==
    /\ p.pc = "lost"
    /\ IF p.name \in {n \in DOMAIN metadata : metadata[n].source # "static" /\ metadata[n].old}
       THEN Becomes(p, "evict")
       ELSE Ends(p)
    /\ UNCHANGED <<registry, discovery, network, requests>>

Evict(p) ==
    /\ p.pc = "evict" /\ Ends(p)
    /\ Delete({p.name})
    /\ UNCHANGED <<discovery, network, requests>>

-----------------------------------------------------------------------------
(* The other nodes: they hide or show themselves, stop, start and move.     *)

Change(h, m, a) ==
    /\ changes < MaxChanges /\ changes' = changes + 1
    /\ <<m, a>> # <<mode[h], at[h]>>
    /\ m # "down" => HostsAt(a) \subseteq {h}
    /\ mode' = [mode EXCEPT ![h] = m] /\ at' = [at EXCEPT ![h] = a]
    /\ unsteady' = unsteady \cup {h}
    /\ UNCHANGED <<registry, discovery, probes, requests>>

-----------------------------------------------------------------------------
ProbeStep(p) == Ask(p) \/ Ping(p) \/ Conclude(p) \/ Evict(p)

Next ==
    \/ \E n \in Names : Age(n) \/ StartProbe(n) \/ RemovePeer(n)
    \/ EndSession
    \/ \E r \in Readers : StartSession(r) \/ TakeEntry(r) \/ AddEntry(r)
    \/ \E c \in Clients : Clear(c) \/ \E on \in BOOLEAN : Switch(c, on)
    \/ \E n \in Manual, a \in Addresses : AddManual(n, a)
    \/ \E p \in probes : ProbeStep(p)
    \/ \E h \in Peers, m \in {"shown", "hidden", "down"}, a \in Addresses : Change(h, m, a)

\* Time passes, what runs gets on, and every round has its turn at every name.
Fairness ==
    /\ \A n \in Names : WF_vars(Age(n)) /\ SF_vars(StartProbe(n))
    /\ WF_vars(\E p \in probes : ProbeStep(p))
    /\ \A r \in Readers : WF_vars(AddEntry(r))
    /\ \A c \in Clients : WF_vars(Clear(c))

Spec     == Init /\ [][Next]_vars
FairSpec == Spec /\ Fairness

-----------------------------------------------------------------------------
(* Properties.                                                              *)

Sources == {"mdns", "static", "manual"}
TypeOK ==
    /\ DOMAIN nodes \subseteq Names /\ nodes \in [DOMAIN nodes -> Addresses]
    /\ DOMAIN metadata \subseteq Names
    /\ metadata \in [DOMAIN metadata -> [source : Sources, old : BOOLEAN]]
    /\ enabled \in BOOLEAN /\ session \in Readers \cup {None}
    /\ reader \in [Readers -> [pc : {"idle", "dial"}, name : Peers \cup {None},
                               addr : Addresses \cup {None}]]
    /\ client \in [Clients -> {"idle", "clear", "again"}]
    /\ probes \subseteq [name : Names, addr : Addresses, pc : {"ask", "ping", "lost", "evict"}]
    /\ mode \in [Peers -> {"shown", "hidden", "down"}] /\ at \in [Peers -> Addresses]
    /\ overtaken \subseteq Peers /\ unsteady \subseteq Peers

\* The two maps have the same names and no address has two, so that a push to a
\* name and one to its address mean the same peer (AddPeer removes the other name).
OneNameEach ==
    /\ DOMAIN nodes = DOMAIN metadata
    /\ \A m, n \in DOMAIN nodes : nodes[m] = nodes[n] => m = n

\* "the peer list clears at once": once discovery is off and the handlers are done,
\* a discovered peer in the list is one that a reader was dialling when the list
\* was cleared: one for each browse session at most, and none that came later.
OnlyOvertakenStay ==
    ~enabled /\ (\A c \in Clients : client[c] = "idle")
        => FromMDNS \subseteq overtaken

\* The health checker, whose probes know a peer by name and act on what an address
\* said earlier, is never about to evict a peer that has been there all the time.
SteadyIsKept ==
    \A p \in probes : p.pc = "evict" /\ p.name \in DOMAIN nodes \ Manual =>
        \A h \in Peers \ unsteady : nodes[p.name] # at[h]

\* Who stays hidden, or does not answer any more, leaves the list for good,
\* whatever entry was on its way; static peers stay while they are only silent.
GoneAreForgotten ==
    \A a \in Addresses :
        /\ <>[]HiddenAt(a) => <>[](\A n \in DOMAIN nodes : nodes[n] # a)
        /\ <>[](~LiveAt(a)) => <>[](\A n \in DOMAIN nodes \ Static : nodes[n] # a)
=============================================================================
