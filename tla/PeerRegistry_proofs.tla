------------------------- MODULE PeerRegistry_proofs -------------------------
(***************************************************************************)
(* Safety of the registry for any peers, sessions, handlers and probes.     *)
(***************************************************************************)
EXTENDS PeerRegistry, TLAPS

Entry == [source : Sources, old : BOOLEAN]
Probe == [name : Names, addr : Addresses, pc : {"ask", "ping", "lost", "evict"}]
Reading == [pc : {"idle", "dial"}, name : Peers \cup {None}, addr : Addresses \cup {None}]

\* A reader that dials has an entry.
Entries == \A r \in Dialling : reader[r].name \in Peers /\ reader[r].addr \in Addresses

-----------------------------------------------------------------------------
\* What Register does to each name: the name is at the address, the others keep
\* theirs unless it is that one.
LEMMA Registered ==
  ASSUME NEW n, NEW a, NEW meta, Register(n, a, meta)
  PROVE  /\ \A x : x \in DOMAIN nodes' <=> x = n \/ (x \in DOMAIN nodes /\ nodes[x] # a)
         /\ \A x : x \in DOMAIN metadata' <=>
              x = n \/ (x \in DOMAIN metadata /\ ~(x \in DOMAIN nodes /\ nodes[x] = a))
         /\ nodes'[n] = a /\ metadata'[n] = meta
         /\ \A x \in DOMAIN nodes' \ {n} : nodes'[x] = nodes[x]
         /\ \A x \in DOMAIN metadata' \ {n} : metadata'[x] = metadata[x]
         /\ nodes' = [x \in DOMAIN nodes' |-> nodes'[x]]
         /\ metadata' = [x \in DOMAIN metadata' |-> metadata'[x]]
  BY DEF Register, Put, Restrict

\* What Delete does: the names are gone, the others are as they were.
LEMMA Deleted ==
  ASSUME NEW S, Delete(S)
  PROVE  /\ DOMAIN nodes' = DOMAIN nodes \ S
         /\ DOMAIN metadata' = DOMAIN metadata \ S
         /\ \A x \in DOMAIN nodes' : nodes'[x] = nodes[x]
         /\ \A x \in DOMAIN metadata' : metadata'[x] = metadata[x]
         /\ nodes' = [x \in DOMAIN nodes' |-> nodes'[x]]
         /\ metadata' = [x \in DOMAIN metadata' |-> metadata'[x]]
  BY DEF Delete, Restrict

MapType ==
    /\ DOMAIN nodes \subseteq Names /\ nodes \in [DOMAIN nodes -> Addresses]
    /\ DOMAIN metadata \subseteq Names /\ metadata \in [DOMAIN metadata -> Entry]

\* Registering a name keeps the types of the two maps.
LEMMA RegisterType ==
  ASSUME MapType, NEW n \in Names, NEW a \in Addresses, NEW meta \in Entry,
         Register(n, a, meta)
  PROVE  MapType'
<1>1. DOMAIN nodes' \subseteq Names /\ DOMAIN metadata' \subseteq Names
  BY Registered DEF MapType
<1>2. \A x \in DOMAIN nodes' : nodes'[x] \in Addresses
  BY Registered DEF MapType
<1>3. \A x \in DOMAIN metadata' : metadata'[x] \in Entry
  BY Registered DEF MapType
<1>4. nodes' \in [DOMAIN nodes' -> Addresses] /\ metadata' \in [DOMAIN metadata' -> Entry]
  <2>1. nodes' = [x \in DOMAIN nodes' |-> nodes'[x]] /\ metadata' = [x \in DOMAIN metadata' |-> metadata'[x]]
    BY Registered
  <2> QED
    BY <1>2, <1>3, <2>1
<1> QED
  BY <1>1, <1>4 DEF MapType

\* Deleting names does.
LEMMA DeleteType ==
  ASSUME MapType, NEW S, Delete(S)
  PROVE  MapType'
  BY Deleted DEF MapType

\* AddPeer keeps them: the source is the one the name had, or mDNS.
LEMMA AddPeerType ==
  ASSUME MapType, NEW n \in Names, NEW a \in Addresses, AddPeer(n, a)
  PROVE  MapType'
<1> DEFINE meta == [source |-> IF n \in DOMAIN metadata THEN metadata[n].source ELSE "mdns",
                    old |-> FALSE]
<1>1. meta \in Entry
  BY DEF MapType, Entry, Sources
<1>2. Register(n, a, meta)
  BY DEF AddPeer
<1> HIDE DEF meta
<1> QED
  BY <1>1, <1>2, RegisterType

RestType ==
    /\ enabled \in BOOLEAN /\ session \in Readers \cup {None}
    /\ reader \in [Readers -> Reading] /\ Entries
    /\ client \in [Clients -> {"idle", "clear", "again"}]
    /\ probes \subseteq Probe
    /\ mode \in [Peers -> {"shown", "hidden", "down"}] /\ at \in [Peers -> Addresses]
    /\ overtaken \subseteq Peers /\ unsteady \subseteq Peers

\* The type invariant is the two together, with what a dialling reader has.
TypeInv == MapType /\ RestType

\* The initial states have the types.
LEMMA InitType == Init => TypeInv
<1> SUFFICES ASSUME Init PROVE TypeInv
  OBVIOUS
<1>1. MapType
  BY HomeAssumption DEF Init, MapType, Entry, Sources, Names
<1>2. RestType
  BY HomeAssumption DEF Init, RestType, Entries, Dialling, Reading, Idle
<1> QED
  BY <1>1, <1>2 DEF TypeInv

\* Every step keeps the types.
LEMMA StepType == TypeInv /\ [Next]_vars => TypeInv'
<1> SUFFICES ASSUME TypeInv, [Next]_vars PROVE TypeInv'
  OBVIOUS
<1> USE DEF TypeInv
<1> USE DEF registry, discovery, network
<1>1. ASSUME NEW n \in Names, Age(n) PROVE TypeInv'
  <2>1. MapType'
    BY <1>1 DEF Age, MapType, Entry
  <2> QED
    BY <1>1, <2>1 DEF Age, RestType, Entries, Dialling
<1>2. ASSUME NEW n \in Names, StartProbe(n) PROVE TypeInv'
  <2>1. probes' \subseteq Probe
    BY <1>2 DEF StartProbe, MapType, RestType, Probe
  <2> QED
    BY <1>2, <2>1 DEF StartProbe, MapType, RestType, Entries, Dialling
<1>3. ASSUME NEW n \in Names, RemovePeer(n) PROVE TypeInv'
  BY <1>3, DeleteType DEF RemovePeer, RestType, Entries, Dialling
<1>4. CASE EndSession
  BY <1>4 DEF EndSession, MapType, RestType, Entries, Dialling
<1>5. ASSUME NEW r \in Readers, StartSession(r) PROVE TypeInv'
  BY <1>5 DEF StartSession, MapType, RestType, Entries, Dialling
<1>6. ASSUME NEW r \in Readers, TakeEntry(r) PROVE TypeInv'
  <2>1. PICK h \in Peers : reader' = [reader EXCEPT ![r] = [pc |-> "dial", name |-> h, addr |-> at[h]]]
    BY <1>6 DEF TakeEntry
  <2>2. at[h] \in Addresses
    BY DEF RestType
  <2>3. reader' \in [Readers -> Reading] /\ Entries'
    BY <2>1, <2>2 DEF RestType, Entries, Dialling, Reading
  <2> QED
    BY <1>6, <2>3 DEF TakeEntry, MapType, RestType
<1>7. ASSUME NEW r \in Readers, AddEntry(r) PROVE TypeInv'
  <2>1. MapType'
    BY <1>7, AddPeerType DEF AddEntry, RestType, Entries, Names
  <2>2. reader' \in [Readers -> Reading] /\ Entries'
    BY <1>7 DEF AddEntry, RestType, Entries, Dialling, Reading, Idle
  <2> QED
    BY <1>7, <2>1, <2>2 DEF AddEntry, RestType
<1>8. ASSUME NEW c \in Clients, Clear(c) PROVE TypeInv'
  <2>1. MapType'
    BY <1>8, DeleteType DEF Clear, ClearMDNSPeers
  <2>2. overtaken' \subseteq Peers
    BY <1>8 DEF Clear, ClearMDNSPeers, RestType, Entries
  <2> QED
    BY <1>8, <2>1, <2>2 DEF Clear, RestType, Entries, Dialling
<1>9. ASSUME NEW c \in Clients, NEW on \in BOOLEAN, Switch(c, on) PROVE TypeInv'
  BY <1>9 DEF Switch, MapType, RestType, Entries, Dialling
<1>10. ASSUME NEW n \in Manual, NEW a \in Addresses, AddManual(n, a) PROVE TypeInv'
  <2>1. [source |-> "manual", old |-> FALSE] \in Entry
    BY DEF Entry, Sources
  <2>2. MapType'
    BY <1>10, <2>1, RegisterType DEF AddManual, AddCustomPeer, Names
  <2> QED
    BY <1>10, <2>2 DEF AddManual, RestType, Entries, Dialling
<1>11. ASSUME NEW p \in probes, ProbeStep(p) PROVE TypeInv'
  <2>1. p \in Probe
    BY DEF RestType
  <2>2. \A pc \in {"ask", "ping", "lost", "evict"} : [p EXCEPT !.pc = pc] \in Probe
    BY <2>1 DEF Probe
  <2>3. CASE Ask(p)
    BY <2>2, <2>3 DEF Ask, Becomes, Fails, HostsAt, MapType, RestType, Entries, Dialling
  <2>4. CASE Ping(p)
    BY <2>2, <2>4 DEF Ping, Becomes, Ends, Fails, HostsAt, MapType, RestType, Entries, Dialling
  <2>5. CASE Conclude(p)
    BY <2>2, <2>5 DEF Conclude, Becomes, Ends, MapType, RestType, Entries, Dialling
  <2>6. CASE Evict(p)
    BY <2>6, DeleteType DEF Evict, Ends, RestType, Entries, Dialling
  <2> QED
    BY <1>11, <2>3, <2>4, <2>5, <2>6 DEF ProbeStep
<1>12. ASSUME NEW h \in Peers, NEW m \in {"shown", "hidden", "down"}, NEW a \in Addresses,
             Change(h, m, a)
       PROVE  TypeInv'
  BY <1>12 DEF Change, MapType, RestType, Entries, Dialling
<1>13. CASE UNCHANGED vars
  BY <1>13 DEF vars, MapType, RestType, Entries, Dialling
<1> QED
  BY <1>1, <1>2, <1>3, <1>4, <1>5, <1>6, <1>7, <1>8, <1>9, <1>10, <1>11, <1>12, <1>13 DEF Next

\* The types hold in every state.
LEMMA TypeAlways == Spec => []TypeInv
  BY InitType, StepType, PTL DEF Spec

\* Type correctness: the maps hold known names, addresses and sources, and whoever
\* dials has an entry with an address.
THEOREM TypeCorrect == Spec => []TypeOK
<1>1. TypeInv => TypeOK
  BY DEF TypeInv, TypeOK, MapType, RestType, Entry, Probe, Reading
<1> QED
  BY <1>1, TypeAlways, PTL

-----------------------------------------------------------------------------
\* A registration leaves one name at the address, and one address to the name.
LEMMA RegisterOneName ==
  ASSUME OneNameEach, NEW n, NEW a, NEW meta, Register(n, a, meta)
  PROVE  OneNameEach'
<1>1. DOMAIN nodes' = DOMAIN metadata'
  BY Registered DEF OneNameEach
<1>2. \A k, m \in DOMAIN nodes' : nodes'[k] = nodes'[m] => k = m
  <2> SUFFICES ASSUME NEW k \in DOMAIN nodes', NEW m \in DOMAIN nodes', nodes'[k] = nodes'[m]
               PROVE  k = m
    OBVIOUS
  <2>1. CASE k = n \/ m = n
    BY <2>1, Registered
  <2>2. CASE k # n /\ m # n
    BY <2>2, Registered DEF OneNameEach
  <2> QED
    BY <2>1, <2>2
<1> QED
  BY <1>1, <1>2 DEF OneNameEach

\* A deletion takes names from both maps.
LEMMA DeleteOneName ==
  ASSUME OneNameEach, NEW S, Delete(S)
  PROVE  OneNameEach'
<1>1. DOMAIN nodes' = DOMAIN metadata'
  BY Deleted DEF OneNameEach
<1>2. \A k, m \in DOMAIN nodes' : nodes'[k] = nodes'[m] => k = m
  <2>1. DOMAIN nodes' \subseteq DOMAIN nodes /\ \A k \in DOMAIN nodes' : nodes'[k] = nodes[k]
    BY Deleted
  <2>2. \A k, m \in DOMAIN nodes : nodes[k] = nodes[m] => k = m
    BY DEF OneNameEach
  <2> QED
    BY ONLY <2>1, <2>2
<1> QED
  BY <1>1, <1>2 DEF OneNameEach

\* Every step changes the maps by one of the two, or not, or ages an entry.
LEMMA StepOneName == OneNameEach /\ [Next]_vars => OneNameEach'
<1> SUFFICES ASSUME OneNameEach, [Next]_vars PROVE OneNameEach'
  OBVIOUS
<1> USE DEF registry, discovery, network
<1>1. ASSUME UNCHANGED registry PROVE OneNameEach'
  BY <1>1 DEF OneNameEach
<1>2. ASSUME NEW n \in Names, Age(n) PROVE OneNameEach'
  BY <1>2 DEF Age, OneNameEach
<1>3. ASSUME NEW n \in Names, RemovePeer(n) PROVE OneNameEach'
  BY <1>3, DeleteOneName DEF RemovePeer
<1>4. ASSUME NEW r \in Readers, AddEntry(r) PROVE OneNameEach'
  BY <1>4, RegisterOneName DEF AddEntry, AddPeer
<1>5. ASSUME NEW c \in Clients, Clear(c) PROVE OneNameEach'
  BY <1>5, DeleteOneName DEF Clear, ClearMDNSPeers
<1>6. ASSUME NEW n \in Manual, NEW a \in Addresses, AddManual(n, a) PROVE OneNameEach'
  BY <1>6, RegisterOneName DEF AddManual, AddCustomPeer
<1>7. ASSUME NEW p \in probes, ProbeStep(p) PROVE OneNameEach'
  BY <1>7, <1>1, DeleteOneName DEF ProbeStep, Ask, Ping, Conclude, Evict
<1> QED
  BY <1>1, <1>2, <1>3, <1>4, <1>5, <1>6, <1>7
  DEF Next, vars, StartProbe, EndSession, StartSession, TakeEntry, Switch, Change

\* The registry never has two names for an address, nor a name in one map only,
\* whatever readers, probes and handlers do to it.
THEOREM OneName == Spec => []OneNameEach
<1>1. Init => OneNameEach
  BY HomeAssumption DEF Init, OneNameEach
<1> QED
  BY <1>1, StepOneName, PTL DEF Spec

-----------------------------------------------------------------------------
\* While discovery is off, a handler has yet to clear the list, or only overtaken
\* peers are in it or on their way to it.
LateInv ==
    ~enabled => \/ \E c \in Clients : client[c] \in {"clear", "again"}
                \/ /\ FromMDNS \subseteq overtaken
                   /\ \A r \in Dialling : reader[r].name \in overtaken

\* AddPeer makes a discovered entry of its own name at most.
LEMMA AddPeerSources ==
  ASSUME NEW n, NEW a, AddPeer(n, a)
  PROVE  FromMDNS' \subseteq FromMDNS \cup {n}
  BY Registered DEF AddPeer, FromMDNS

\* A peer the user adds makes none.
LEMMA CustomSources ==
  ASSUME NEW n, NEW a, AddCustomPeer(n, a, "manual")
  PROVE  FromMDNS' \subseteq FromMDNS
  BY Registered DEF AddCustomPeer, FromMDNS

\* Nor does a deletion.
LEMMA DeleteSources ==
  ASSUME NEW S, Delete(S)
  PROVE  FromMDNS' \subseteq FromMDNS \ S
  BY Deleted DEF FromMDNS

\* Every step keeps the late invariant.
LEMMA StepLate == TypeInv /\ LateInv /\ [Next]_vars => LateInv'
<1> SUFFICES ASSUME TypeInv, LateInv, [Next]_vars PROVE LateInv'
  OBVIOUS
<1> USE DEF registry, discovery, network
<1>1. ASSUME FromMDNS' \subseteq FromMDNS, UNCHANGED discovery PROVE LateInv'
  BY <1>1 DEF LateInv, Dialling
<1>2. ASSUME UNCHANGED metadata PROVE FromMDNS' \subseteq FromMDNS
  BY <1>2 DEF FromMDNS
<1>3. ASSUME NEW n \in Names, Age(n) PROVE LateInv'
  <2>1. FromMDNS' \subseteq FromMDNS
    BY <1>3 DEF Age, FromMDNS, TypeInv, MapType, Entry
  <2> QED
    BY <1>1, <1>3, <2>1 DEF Age
<1>4. ASSUME NEW n \in Names, RemovePeer(n) PROVE LateInv'
  BY <1>1, <1>4, DeleteSources DEF RemovePeer
<1>5. ASSUME NEW r \in Readers, StartSession(r) PROVE LateInv'
  BY <1>2, <1>5 DEF StartSession, LateInv, Dialling
<1>6. CASE EndSession
  BY <1>2, <1>6 DEF EndSession, LateInv, Dialling
<1>7. ASSUME NEW r \in Readers, TakeEntry(r) PROVE LateInv'
  BY <1>7 DEF TakeEntry, LateInv
<1>8. ASSUME NEW r \in Readers, AddEntry(r) PROVE LateInv'
  <2>1. FromMDNS' \subseteq FromMDNS \cup {reader[r].name}
    BY <1>8, AddPeerSources DEF AddEntry
  <2>2. Dialling' \subseteq Dialling /\ \A k \in Dialling' : reader'[k] = reader[k]
    BY <1>8 DEF AddEntry, Dialling, Idle, TypeInv, RestType, Reading
  <2> QED
    BY <1>8, <2>1, <2>2 DEF AddEntry, LateInv
<1>9. ASSUME NEW c \in Clients, Clear(c) PROVE LateInv'
  <2>1. FromMDNS' = {}
    BY <1>9, DeleteSources DEF Clear, ClearMDNSPeers
  <2>2. \A r \in Dialling' : reader'[r].name \in overtaken'
    BY <1>9 DEF Clear, ClearMDNSPeers, Dialling
  <2> QED
    BY <2>1, <2>2 DEF LateInv
<1>10. ASSUME NEW c \in Clients, NEW on \in BOOLEAN, Switch(c, on) PROVE LateInv'
  BY <1>10 DEF Switch, LateInv, TypeInv, RestType
<1>11. ASSUME NEW n \in Manual, NEW a \in Addresses, AddManual(n, a) PROVE LateInv'
  BY <1>1, <1>11, CustomSources DEF AddManual
<1>12. ASSUME NEW n \in Names, StartProbe(n) PROVE LateInv'
  BY <1>1, <1>2, <1>12 DEF StartProbe
<1>13. ASSUME NEW p \in probes, ProbeStep(p) PROVE LateInv'
  BY <1>1, <1>2, <1>13, DeleteSources DEF ProbeStep, Ask, Ping, Conclude, Evict
<1>14. ASSUME NEW h \in Peers, NEW m \in {"shown", "hidden", "down"}, NEW a \in Addresses,
              Change(h, m, a)
       PROVE  LateInv'
  BY <1>1, <1>2, <1>14 DEF Change
<1>15. CASE UNCHANGED vars
  BY <1>1, <1>2, <1>15 DEF vars
<1> QED
  BY <1>3, <1>4, <1>5, <1>6, <1>7, <1>8, <1>9, <1>10, <1>11, <1>12, <1>13, <1>14, <1>15 DEF Next

\* Once discovery is off and the handlers are done, the list has no discovered peer
\* but those a reader was dialling at the last clear, for any number of sessions
\* and of handlers that switch at once.
THEOREM OnlyOvertaken == Spec => []OnlyOvertakenStay
<1>1. Init => LateInv
  BY DEF Init, LateInv, FromMDNS, Dialling, Idle
<1>2. TypeInv /\ LateInv => OnlyOvertakenStay
  BY DEF LateInv, OnlyOvertakenStay
<1> QED
  BY <1>1, <1>2, StepLate, TypeAlways, PTL DEF Spec

-----------------------------------------------------------------------------
\* What is known of a peer that has been there all the time: the list, the readers
\* and the probes have its name at its address and no other peer there, and no
\* probe of its address has failed.
Steady(h) ==
    /\ mode[h] = "shown"
    /\ \A g \in Peers \ {h} : mode[g] # "down" => at[g] # at[h]
    /\ \A g \in Peers \cap DOMAIN nodes : nodes[g] = at[h] <=> g = h
    /\ \A r \in Dialling : reader[r].addr = at[h] <=> reader[r].name = h
    /\ \A p \in probes : p.name = h => p.addr = at[h]
    /\ \A p \in probes : p.pc \in {"lost", "evict"} => p.addr # at[h]

\* A static name is where it was configured, or nowhere.
StaticInv ==
    /\ \A s \in Static \cap DOMAIN nodes : nodes[s] = StaticAddress[s]
    /\ \A p \in probes : p.name \in Static => p.addr = StaticAddress[p.name]

SteadyInv == StaticInv /\ \A h \in Peers \ unsteady : Steady(h)

\* A registration of a peer at its address, or of another name, leaves static names
\* where they are.
LEMMA RegisterStatic ==
  ASSUME StaticInv, NEW n, n \notin Static, NEW a, NEW meta, Register(n, a, meta), probes' = probes
  PROVE  StaticInv'
  BY Registered DEF StaticInv

\* Deletions do.
LEMMA DeleteStatic ==
  ASSUME StaticInv, NEW S, Delete(S), probes' \subseteq probes
  PROVE  StaticInv'
  BY Deleted DEF StaticInv

\* A deletion keeps what is known of a steady peer.
LEMMA DeleteSteady ==
  ASSUME NEW h, Steady(h), NEW S, Delete(S), UNCHANGED <<mode, at>>, Dialling' = Dialling,
         reader' = reader, probes' \subseteq probes
  PROVE  Steady(h)'
<1>1. DOMAIN nodes' \subseteq DOMAIN nodes /\ \A x \in DOMAIN nodes' : nodes'[x] = nodes[x]
  BY Deleted
<1>2. \A g \in Peers \cap DOMAIN nodes : nodes[g] = at[h] <=> g = h
  BY DEF Steady
<1>3. \A g \in Peers \cap DOMAIN nodes' : nodes'[g] = at[h] <=> g = h
  BY ONLY <1>1, <1>2
<1>4. \A g \in Peers \cap DOMAIN nodes' : nodes'[g] = at'[h] <=> g = h
  BY <1>3
<1>5. \A p \in probes : /\ p.name = h => p.addr = at[h]
                       /\ p.pc \in {"lost", "evict"} => p.addr # at[h]
  BY DEF Steady
<1>6. \A p \in probes' : /\ p.name = h => p.addr = at'[h]
                        /\ p.pc \in {"lost", "evict"} => p.addr # at'[h]
  BY <1>5
<1>7. \A r \in Dialling' : reader'[r].addr = at'[h] <=> reader'[r].name = h
  BY DEF Steady
<1>8. mode'[h] = "shown" /\ \A g \in Peers \ {h} : mode'[g] # "down" => at'[g] # at'[h]
  BY DEF Steady
<1> QED
  BY <1>6, <1>7, <1>8, <1>4 DEF Steady

\* A change of probes does, when those of the peer and those that failed are right.
LEMMA ProbesSteady ==
  ASSUME NEW h, Steady(h), UNCHANGED <<nodes, reader, mode, at>>,
         \A p \in probes' \ probes : /\ p.name = h => p.addr = at[h]
                                     /\ p.pc \in {"lost", "evict"} => p.addr # at[h]
  PROVE  Steady(h)'
  BY DEF Steady, Dialling

\* Every step keeps the invariant.
LEMMA StepSteady == TypeInv /\ SteadyInv /\ [Next]_vars => SteadyInv'
<1> SUFFICES ASSUME TypeInv, SteadyInv, [Next]_vars PROVE SteadyInv'
  OBVIOUS
<1> USE DEF registry, discovery, network
<1>1. ASSUME UNCHANGED <<nodes, reader, network, probes>> PROVE SteadyInv'
  BY <1>1 DEF SteadyInv, StaticInv, Steady, Dialling
<1>2. ASSUME NEW n \in Names, StartProbe(n) PROVE SteadyInv'
  <2>1. StaticInv'
    BY <1>2 DEF StartProbe, SteadyInv, StaticInv
  <2>2. ASSUME NEW h \in Peers \ unsteady PROVE Steady(h)'
    <3>1. Steady(h) /\ \A p \in probes' \ probes : p.name = n /\ p.addr = nodes[n] /\ p.pc = "ask"
      BY <1>2 DEF StartProbe, SteadyInv
    <3>2. \A p \in probes' \ probes : p.name = h => p.addr = at[h]
      BY <1>2, <3>1 DEF StartProbe, Steady
    <3> QED
      BY <1>2, <3>1, <3>2, ProbesSteady DEF StartProbe
  <2> QED
    BY <1>2, <2>1, <2>2 DEF StartProbe, SteadyInv
<1>3. ASSUME NEW n \in Names, RemovePeer(n) PROVE SteadyInv'
  BY <1>3, DeleteStatic, DeleteSteady DEF RemovePeer, SteadyInv, Dialling
<1>4. ASSUME NEW r \in Readers, TakeEntry(r) PROVE SteadyInv'
  <2>1. PICK g \in Peers : /\ mode[g] = "shown"
                           /\ reader' = [reader EXCEPT ![r] = [pc |-> "dial", name |-> g, addr |-> at[g]]]
    BY <1>4 DEF TakeEntry
  <2>2. StaticInv'
    BY <1>4 DEF TakeEntry, SteadyInv, StaticInv
  <2>3. ASSUME NEW h \in Peers \ unsteady PROVE Steady(h)'
    <3>1. \A k \in Dialling' : reader'[k].addr = at[h] <=> reader'[k].name = h
      BY <2>1 DEF SteadyInv, Steady, Dialling, TypeInv, RestType
    <3> QED
      BY <1>4, <3>1 DEF TakeEntry, SteadyInv, Steady
  <2> QED
    BY <1>4, <2>2, <2>3 DEF TakeEntry, SteadyInv
<1>5. ASSUME NEW r \in Readers, AddEntry(r) PROVE SteadyInv'
  <2>1. reader[r].name \in Peers
    BY <1>5 DEF AddEntry, TypeInv, RestType, Entries
  <2>2. StaticInv'
    BY <1>5, <2>1, RegisterStatic, NamesAssumption DEF AddEntry, AddPeer, SteadyInv
  <2>3. ASSUME NEW h \in Peers \ unsteady PROVE Steady(h)'
    <3>1. \A k \in Dialling' : k \in Dialling /\ reader'[k] = reader[k]
      BY <1>5 DEF AddEntry, Dialling, Idle, TypeInv, RestType, Reading
    <3>2. \A g \in Peers \cap DOMAIN nodes' : nodes'[g] = at[h] <=> g = h
      BY <1>5, Registered DEF AddEntry, AddPeer, SteadyInv, Steady
    <3> QED
      BY <1>5, <3>1, <3>2 DEF AddEntry, SteadyInv, Steady
  <2> QED
    BY <1>5, <2>2, <2>3 DEF AddEntry, SteadyInv
<1>6. ASSUME NEW c \in Clients, Clear(c) PROVE SteadyInv'
  BY <1>6, DeleteStatic, DeleteSteady DEF Clear, ClearMDNSPeers, SteadyInv, Dialling
<1>7. ASSUME NEW n \in Manual, NEW a \in Addresses, AddManual(n, a) PROVE SteadyInv'
  <2>1. n \notin Static /\ n \notin Peers
    BY NamesAssumption
  <2>2. StaticInv'
    BY <1>7, <2>1, RegisterStatic DEF AddManual, AddCustomPeer, SteadyInv
  <2>3. ASSUME NEW h \in Peers \ unsteady PROVE Steady(h)'
    <3>1. \A g \in Peers \cap DOMAIN nodes' : nodes'[g] = at[h] <=> g = h
      BY <1>7, <2>1, Registered DEF AddManual, AddCustomPeer, SteadyInv, Steady
    <3> QED
      BY <1>7, <3>1 DEF AddManual, SteadyInv, Steady, Dialling
  <2> QED
    BY <1>7, <2>2, <2>3 DEF AddManual, SteadyInv
<1>8. ASSUME NEW p \in probes, ProbeStep(p) PROVE SteadyInv'
  <2>1. p \in Probe
    BY DEF TypeInv, RestType
  <2>2. ASSUME NEW pc, Becomes(p, pc) \/ Ends(p)
        PROVE  \A q \in probes' \ probes : q.name = p.name /\ q.addr = p.addr /\ q.pc = pc
    BY <2>1, <2>2 DEF Probe, Becomes, Ends
  <2>3. unsteady \subseteq unsteady' /\ UNCHANGED <<mode, at, reader>>
    BY <1>8 DEF ProbeStep, Ask, Ping, Conclude, Evict, Fails
  <2>4. CASE Evict(p)
    BY <2>3, <2>4, DeleteStatic, DeleteSteady DEF Evict, Ends, SteadyInv, Dialling
  <2>5. CASE ~Evict(p)
    <3>1. nodes' = nodes
      BY <1>8, <2>5 DEF ProbeStep, Ask, Ping, Conclude
    <3>2. \A q \in probes' \ probes : q.name = p.name /\ q.addr = p.addr
      BY <1>8, <2>2, <2>5 DEF ProbeStep, Ask, Ping, Conclude
    <3>3. StaticInv'
      BY <3>1, <3>2 DEF SteadyInv, StaticInv
    <3>4. ASSUME NEW h \in Peers \ unsteady' PROVE Steady(h)'
      <4>1. Steady(h)
        BY <2>3, <3>4 DEF SteadyInv
      <4>2. ASSUME p.addr = at[h] PROVE HostsAt(p.addr) = {h}
        BY <4>1, <4>2 DEF HostsAt, Steady
      <4>3. \A q \in probes' \ probes : q.pc \in {"lost", "evict"} => p.addr # at[h]
        <5>1. CASE Ask(p)
          <6>1. CASE Becomes(p, "evict") /\ HiddenAt(p.addr)
            BY <4>1, <4>2, <6>1 DEF HiddenAt, Steady
          <6>2. CASE Becomes(p, "ping")
            BY <6>2, <2>2
          <6> QED
            BY <5>1, <6>1, <6>2 DEF Ask
        <5>2. CASE Ping(p)
          BY <5>2, <4>1, <4>2, <2>2 DEF Ping, LiveAt, Fails, Steady
        <5>3. CASE Conclude(p)
          BY <5>3, <4>1, <2>2 DEF Conclude, Steady
        <5> QED
          BY <1>8, <2>5, <5>1, <5>2, <5>3 DEF ProbeStep
      <4>4. p.name = h => p.addr = at[h]
        BY <4>1 DEF Steady
      <4> QED
        BY <2>3, <3>1, <3>2, <4>1, <4>3, <4>4, ProbesSteady
    <3> QED
      BY <3>3, <3>4 DEF SteadyInv
  <2> QED
    BY <2>4, <2>5
<1>9. ASSUME NEW h \in Peers, NEW m \in {"shown", "hidden", "down"}, NEW a \in Addresses,
             Change(h, m, a)
      PROVE  SteadyInv'
  <2>1. StaticInv'
    BY <1>9 DEF Change, SteadyInv, StaticInv
  <2>2. ASSUME NEW k \in Peers \ unsteady' PROVE Steady(k)'
    <3>1. k \in Peers \ unsteady /\ k # h /\ Steady(k)
      BY <1>9 DEF Change, SteadyInv
    <3>2. mode'[k] = "shown" /\ at'[k] = at[k]
      BY <1>9, <3>1 DEF Change, Steady, TypeInv, RestType
    <3>3. m # "down" => a # at[k]
      BY <1>9, <3>1 DEF Change, HostsAt, Steady
    <3>4. \A g \in Peers \ {k} : mode'[g] # "down" => at'[g] # at'[k]
      BY <1>9, <3>1, <3>2, <3>3 DEF Change, Steady, TypeInv, RestType
    <3> QED
      BY <1>9, <3>1, <3>2, <3>4 DEF Change, Steady, Dialling
  <2> QED
    BY <2>1, <2>2 DEF SteadyInv
<1> QED
  BY <1>1, <1>2, <1>3, <1>4, <1>5, <1>6, <1>7, <1>8, <1>9
  DEF Next, vars, Age, EndSession, StartSession, Switch

\* The health checker never is about to evict a peer, static or discovered, whose
\* address a peer has answered at without a break, for any peers and any overlap of
\* probes with entries, moves and restarts of others.
THEOREM SteadyKept == Spec => []SteadyIsKept
<1>1. Init => SteadyInv
  BY HomeAssumption, NamesAssumption DEF Init, SteadyInv, StaticInv, Steady, Dialling, Idle
<1>2. TypeInv /\ SteadyInv => SteadyIsKept
  <2> SUFFICES ASSUME TypeInv, SteadyInv, NEW p \in probes, p.pc = "evict",
                      p.name \in DOMAIN nodes \ Manual, NEW h \in Peers \ unsteady,
                      nodes[p.name] = at[h]
               PROVE  FALSE
    BY DEF SteadyIsKept
  <2>1. Steady(h) /\ p.addr # at[h] /\ p.name \in Names
    BY DEF SteadyInv, Steady, TypeInv, RestType, Probe
  <2>2. CASE p.name \in Static
    BY <2>1, <2>2 DEF SteadyInv, StaticInv
  <2>3. CASE p.name \in Peers
    BY <2>1, <2>3 DEF Steady
  <2> QED
    BY <2>1, <2>2, <2>3 DEF Names
<1> QED
  BY <1>1, <1>2, StepSteady, TypeAlways, PTL DEF Spec
-----------------------------------------------------------------------------
(* The safety half of GoneAreForgotten: what has gone does not come back but  *)
(* by entries that were on their way, and the probes get on with it.          *)

\* Nobody answers at the address, or who does asks to be hidden.
GoneFrom(a) == HiddenAt(a) \/ ~LiveAt(a)

NamesAt(a) == {n \in DOMAIN nodes : nodes[n] = a}
FreshAt(a) == {n \in NamesAt(a) : ~metadata[n].old}
LateFor(a) == {r \in Dialling : reader[r].addr = a}

\* Once a peer is gone from its address no further entry of it is taken, and a name
\* comes to that address, or is refreshed there, only when the user adds it or a
\* reader is done that was dialling it: as often, without the user, as readers were.
OnlyLateEntriesReturn ==
    [][\A a \in Addresses : GoneFrom(a) =>
          /\ LateFor(a)' \subseteq LateFor(a)
          /\ \/ NamesAt(a)' \subseteq NamesAt(a) /\ FreshAt(a)' \subseteq FreshAt(a)
             \/ requests' = requests + 1
             \/ LateFor(a)' # LateFor(a)]_vars

\* No two nodes that are up share an address.
OneHost == \A g, h \in Peers : mode[g] # "down" /\ mode[h] # "down" /\ at[g] = at[h] => g = h

\* Only Change moves or starts a node, and never where another one is.
LEMMA StepOneHost == TypeInv /\ OneHost /\ [Next]_vars => OneHost'
<1> SUFFICES ASSUME TypeInv, OneHost, [Next]_vars PROVE OneHost'
  OBVIOUS
<1> USE DEF registry, discovery, network
<1>1. ASSUME UNCHANGED <<mode, at>> PROVE OneHost'
  BY <1>1 DEF OneHost
<1>2. ASSUME NEW p \in probes, ProbeStep(p) PROVE UNCHANGED <<mode, at>>
  BY <1>2 DEF ProbeStep, Ask, Ping, Conclude, Evict, Fails
<1>3. ASSUME NEW h \in Peers, NEW m \in {"shown", "hidden", "down"}, NEW a \in Addresses,
             Change(h, m, a)
      PROVE  OneHost'
  <2>1. mode' = [mode EXCEPT ![h] = m] /\ at' = [at EXCEPT ![h] = a]
    BY <1>3 DEF Change
  <2>2. \A g \in Peers \ {h} : mode'[g] = mode[g] /\ at'[g] = at[g]
    BY <2>1 DEF TypeInv, RestType
  <2>3. mode'[h] = m /\ at'[h] = a
    BY <2>1 DEF TypeInv, RestType
  <2>4. ASSUME m # "down", NEW g \in Peers \ {h}, mode[g] # "down" PROVE at[g] # a
    BY <1>3, <2>4 DEF Change, HostsAt
  <2> QED
    BY <2>2, <2>3, <2>4 DEF OneHost
<1> QED
  BY <1>1, <1>2, <1>3
  DEF Next, vars, Age, StartProbe, RemovePeer, EndSession, StartSession, TakeEntry, AddEntry,
      Clear, Switch, AddManual

\* Where a peer is gone none broadcasts: the one that hides is the only one there.
LEMMA GoneIsQuiet ==
  ASSUME TypeInv, OneHost, NEW a, GoneFrom(a)
  PROVE  \A h \in Peers : at[h] = a => mode[h] # "shown"
  BY DEF TypeInv, RestType, OneHost, GoneFrom, HiddenAt, LiveAt, HostsAt

\* A registration brings its own name to its own address, and refreshes no other.
LEMMA RegisterBrings ==
  ASSUME TypeInv, OneNameEach, NEW n, NEW b, NEW meta, Register(n, b, meta), NEW a, a # b
  PROVE  NamesAt(a)' \subseteq NamesAt(a) /\ FreshAt(a)' \subseteq FreshAt(a)
<1>1. ASSUME NEW x \in NamesAt(a)' PROVE x # n /\ x \in NamesAt(a) /\ metadata'[x] = metadata[x]
  <2>1. x \in DOMAIN nodes' /\ nodes'[x] = a /\ x # n
    BY <1>1, Registered DEF NamesAt
  <2>2. x \in DOMAIN nodes /\ nodes[x] # b /\ nodes[x] = a
    BY <2>1, Registered
  <2>3. x \in DOMAIN metadata'
    BY <2>2, Registered DEF OneNameEach
  <2> QED
    BY <2>1, <2>2, <2>3, Registered DEF NamesAt
<1> QED
  BY <1>1 DEF FreshAt

\* A deletion brings none.
LEMMA DeleteBrings ==
  ASSUME OneNameEach, NEW S, Delete(S), NEW a
  PROVE  NamesAt(a)' \subseteq NamesAt(a) /\ FreshAt(a)' \subseteq FreshAt(a)
<1>1. ASSUME NEW x \in NamesAt(a)' PROVE x \in NamesAt(a) /\ metadata'[x] = metadata[x]
  BY <1>1, Deleted DEF NamesAt, OneNameEach
<1> QED
  BY <1>1 DEF FreshAt

\* What has gone from its address is not taken up again there, and with that the
\* safety half of GoneAreForgotten holds: only what was under way, or the user,
\* brings a name back, for any number of peers, sessions, handlers and probes.
THEOREM GoneDoNotReturn == Spec => OnlyLateEntriesReturn
<1> DEFINE Brings(a) == /\ LateFor(a)' \subseteq LateFor(a)
                        /\ \/ NamesAt(a)' \subseteq NamesAt(a) /\ FreshAt(a)' \subseteq FreshAt(a)
                           \/ requests' = requests + 1
                           \/ LateFor(a)' # LateFor(a)
<1>1. ASSUME TypeInv, OneNameEach, OneHost, [Next]_vars, NEW a \in Addresses, GoneFrom(a)
      PROVE  Brings(a)
  <2> USE DEF registry, discovery, network
  <2>1. ASSUME UNCHANGED reader PROVE LateFor(a)' = LateFor(a)
    BY <2>1 DEF LateFor, Dialling
  <2>2. ASSUME UNCHANGED registry
        PROVE  NamesAt(a)' \subseteq NamesAt(a) /\ FreshAt(a)' \subseteq FreshAt(a)
    BY <2>2 DEF NamesAt, FreshAt
  <2>3. ASSUME NEW n \in Names, Age(n) PROVE Brings(a)
    <3>1. NamesAt(a)' = NamesAt(a) /\ reader' = reader
      BY <2>3 DEF Age, NamesAt
    <3>2. \A x \in DOMAIN metadata : metadata[x].old => metadata'[x].old
      BY <2>3 DEF Age, TypeInv, MapType, Entry
    <3>3. FreshAt(a)' \subseteq FreshAt(a)
      BY <1>1, <3>1, <3>2 DEF FreshAt, NamesAt, OneNameEach
    <3> QED
      BY <2>1, <3>1, <3>3
  <2>4. ASSUME NEW n \in Names, StartProbe(n) PROVE Brings(a)
    BY <2>1, <2>2, <2>4 DEF StartProbe
  <2>5. ASSUME NEW n \in Names, RemovePeer(n) PROVE Brings(a)
    BY <1>1, <2>1, <2>5, DeleteBrings DEF RemovePeer
  <2>6. CASE EndSession
    BY <2>1, <2>2, <2>6 DEF EndSession
  <2>7. ASSUME NEW r \in Readers, StartSession(r) PROVE Brings(a)
    BY <2>1, <2>2, <2>7 DEF StartSession
  <2>8. ASSUME NEW r \in Readers, TakeEntry(r) PROVE Brings(a)
    <3>1. PICK h \in Peers : /\ mode[h] = "shown"
                             /\ reader' = [reader EXCEPT ![r] = [pc |-> "dial", name |-> h, addr |-> at[h]]]
      BY <2>8 DEF TakeEntry
    <3>2. at[h] # a
      BY <1>1, <3>1, GoneIsQuiet
    <3>3. LateFor(a)' \subseteq LateFor(a)
      BY <1>1, <3>1, <3>2 DEF LateFor, Dialling, TypeInv, RestType
    <3> QED
      BY <2>2, <2>8, <3>3 DEF TakeEntry
  <2>9. ASSUME NEW r \in Readers, AddEntry(r) PROVE Brings(a)
    <3>1. Dialling' = Dialling \ {r} /\ \A k \in Dialling' : reader'[k] = reader[k]
      BY <1>1, <2>9 DEF AddEntry, Dialling, Idle, TypeInv, RestType
    <3>2. LateFor(a)' \subseteq LateFor(a)
      BY <3>1 DEF LateFor
    <3>3. CASE reader[r].addr = a
      <4>1. r \in LateFor(a) /\ r \notin LateFor(a)'
        BY <2>9, <3>1, <3>3 DEF AddEntry, LateFor
      <4> QED
        BY <3>2, <4>1
    <3>4. CASE reader[r].addr # a
      <4>1. NamesAt(a)' \subseteq NamesAt(a) /\ FreshAt(a)' \subseteq FreshAt(a)
        BY <1>1, <2>9, <3>4, RegisterBrings DEF AddEntry, AddPeer
      <4> QED
        BY <3>2, <4>1
    <3> QED
      BY <3>3, <3>4
  <2>10. ASSUME NEW c \in Clients, Clear(c) PROVE Brings(a)
    BY <1>1, <2>1, <2>10, DeleteBrings DEF Clear, ClearMDNSPeers
  <2>11. ASSUME NEW c \in Clients, NEW on \in BOOLEAN, Switch(c, on) PROVE Brings(a)
    BY <2>1, <2>2, <2>11 DEF Switch
  <2>12. ASSUME NEW n \in Manual, NEW b \in Addresses, AddManual(n, b) PROVE Brings(a)
    BY <2>1, <2>12 DEF AddManual, Request
  <2>13. ASSUME NEW p \in probes, ProbeStep(p) PROVE Brings(a)
    <3>1. reader' = reader
      BY <2>13 DEF ProbeStep, Ask, Ping, Conclude, Evict
    <3>2. UNCHANGED registry \/ \E S : Delete(S)
      BY <2>13 DEF ProbeStep, Ask, Ping, Conclude, Evict
    <3> QED
      BY <1>1, <2>1, <2>2, <3>1, <3>2, DeleteBrings
  <2>14. ASSUME NEW h \in Peers, NEW m \in {"shown", "hidden", "down"}, NEW b \in Addresses,
                Change(h, m, b)
         PROVE  Brings(a)
    BY <2>1, <2>2, <2>14 DEF Change
  <2>15. CASE UNCHANGED vars
    BY <2>1, <2>2, <2>15 DEF vars
  <2> HIDE DEF Brings
  <2> QED
    BY <1>1, <2>3, <2>4, <2>5, <2>6, <2>7, <2>8, <2>9, <2>10, <2>11, <2>12, <2>13, <2>14, <2>15 DEF Next
<1>2. TypeInv /\ OneNameEach /\ OneHost /\ [Next]_vars =>
        [\A a \in Addresses : GoneFrom(a) => Brings(a)]_vars
  BY <1>1
<1>3. Init => OneHost
  BY HomeAssumption DEF Init, OneHost
<1>4. Spec => []OneHost
  BY <1>3, StepOneHost, TypeAlways, PTL DEF Spec
<1> QED
  BY <1>2, <1>4, TypeAlways, OneName, PTL DEF Spec, OnlyLateEntriesReturn

\* Where a probe goes from where it is.
Later(p) == {[p EXCEPT !.pc = to] :
                to \in CASE p.pc = "ask" -> {"ping", "evict"} [] p.pc = "ping" -> {"lost"}
                         [] p.pc = "lost" -> {"evict"} [] OTHER -> {}}

\* A probe ends with its name off the list, unless something is up at the address it
\* dials, or the name is a static one or was refreshed within the minute.  Who hides
\* is not dialled at all, unless it fails to say so.
ProbesFinish ==
    [][\A p \in probes \ probes' :
          \/ \E q \in Later(p) \cap probes' :
                HiddenAt(p.addr) /\ p.pc = "ask" => q.pc = "evict" \/ changes' = changes + 1
          \/ p.name \notin DOMAIN nodes'
          \/ p.pc = "ping" /\ LiveAt(p.addr)
          \/ p.pc = "lost" /\ (p.name \in Static \/ ~metadata[p.name].old)]_vars

\* The source "static" is that of static names alone.
StaticSources == \A n \in DOMAIN metadata : metadata[n].source = "static" => n \in Static

\* AddPeer keeps the source a name had, and the user's peers are "manual".
LEMMA StepStaticSources == TypeInv /\ StaticSources /\ [Next]_vars => StaticSources'
<1> SUFFICES ASSUME TypeInv, StaticSources, [Next]_vars PROVE StaticSources'
  OBVIOUS
<1> USE DEF registry, discovery, network
<1>1. ASSUME UNCHANGED metadata PROVE StaticSources'
  BY <1>1 DEF StaticSources
<1>2. ASSUME NEW S, Delete(S) PROVE StaticSources'
  BY <1>2, Deleted DEF StaticSources
<1>3. ASSUME NEW n \in Names, Age(n) PROVE StaticSources'
  <2>1. \A x \in DOMAIN metadata' : x \in DOMAIN metadata /\ metadata'[x].source = metadata[x].source
    BY <1>3 DEF Age, TypeInv, MapType, Entry
  <2> QED
    BY <2>1 DEF StaticSources
<1>4. ASSUME NEW r \in Readers, AddEntry(r) PROVE StaticSources'
  BY <1>4, Registered DEF AddEntry, AddPeer, StaticSources
<1>5. ASSUME NEW n \in Manual, NEW a \in Addresses, AddManual(n, a) PROVE StaticSources'
  BY <1>5, Registered DEF AddManual, AddCustomPeer, StaticSources
<1>6. ASSUME NEW p \in probes, ProbeStep(p) PROVE StaticSources'
  BY <1>1, <1>2, <1>6 DEF ProbeStep, Ask, Ping, Conclude, Evict
<1> QED
  BY <1>1, <1>2, <1>3, <1>4, <1>5, <1>6
  DEF Next, vars, StartProbe, RemovePeer, EndSession, StartSession, TakeEntry, Clear,
      ClearMDNSPeers, Switch, Change

\* The health checker does its part of GoneAreForgotten: each probe gets from stage to
\* stage and no probe of a dead address gives up on an entry a minute old.
THEOREM ProbesEvict == Spec => ProbesFinish
<1> DEFINE Done(p) ==
          \/ \E q \in Later(p) \cap probes' :
                HiddenAt(p.addr) /\ p.pc = "ask" => q.pc = "evict" \/ changes' = changes + 1
          \/ p.name \notin DOMAIN nodes'
          \/ p.pc = "ping" /\ LiveAt(p.addr)
          \/ p.pc = "lost" /\ (p.name \in Static \/ ~metadata[p.name].old)
<1>1. ASSUME TypeInv, OneNameEach, StaticSources, [Next]_vars, NEW p \in probes \ probes'
      PROVE  Done(p)
  <2>1. PICK q \in probes : ProbeStep(q)
    BY <1>1 DEF Next, vars, registry, discovery, network, Age, StartProbe, RemovePeer, EndSession,
       StartSession, TakeEntry, AddEntry, Clear, Switch, AddManual, Change
  <2>2. q = p
    BY <1>1, <2>1 DEF ProbeStep, Ask, Ping, Conclude, Evict, Becomes, Ends
  <2>3. CASE Ask(p)
    <3>1. [p EXCEPT !.pc = "ping"] \in Later(p) /\ [p EXCEPT !.pc = "evict"] \in Later(p)
      BY <2>3 DEF Ask, Later
    <3>2. CASE HiddenAt(p.addr) /\ Becomes(p, "evict")
      <4>1. [p EXCEPT !.pc = "evict"] \in probes' /\ [p EXCEPT !.pc = "evict"].pc = "evict"
        BY <1>1, <3>2 DEF Becomes, TypeInv, RestType, Probe
      <4> QED
        BY <3>1, <4>1
    <3>3. CASE Becomes(p, "ping") /\ (~HiddenAt(p.addr) \/ changes' = changes + 1)
      <4>1. [p EXCEPT !.pc = "ping"] \in probes'
        BY <3>3 DEF Becomes
      <4> QED
        BY <3>1, <3>3, <4>1
    <3> QED
      BY <2>3, <3>2, <3>3 DEF Ask, Fails
  <2>4. CASE Ping(p)
    BY <2>4 DEF Ping, Becomes, Ends, Later
  <2>5. CASE Conclude(p)
    <3>1. CASE p.name \in {n \in DOMAIN metadata : metadata[n].source # "static" /\ metadata[n].old}
      BY <2>5, <3>1 DEF Conclude, Becomes, Later
    <3>2. CASE p.name \notin DOMAIN nodes
      BY <2>5, <3>2 DEF Conclude, registry
    <3>3. CASE p.name \in DOMAIN nodes /\ ~(metadata[p.name].source # "static" /\ metadata[p.name].old)
      BY <1>1, <2>5, <3>3 DEF Conclude, StaticSources, OneNameEach
    <3> QED
      BY <1>1, <3>1, <3>2, <3>3 DEF OneNameEach
  <2>6. CASE Evict(p)
    <3>1. Delete({p.name})
      BY <2>6 DEF Evict
    <3>2. p.name \notin DOMAIN nodes'
      BY <3>1 DEF Delete, Restrict
    <3> QED
      BY <3>2
  <2> HIDE DEF Done
  <2> QED
    BY <2>1, <2>2, <2>3, <2>4, <2>5, <2>6 DEF ProbeStep
<1>2. TypeInv /\ OneNameEach /\ StaticSources /\ [Next]_vars =>
        [\A p \in probes \ probes' : Done(p)]_vars
  BY <1>1
<1>3. Init => StaticSources
  BY DEF Init, StaticSources
<1>4. Spec => []StaticSources
  BY <1>3, StepStaticSources, TypeAlways, PTL DEF Spec
<1> QED
  BY <1>2, <1>4, TypeAlways, OneName, PTL DEF Spec, ProbesFinish

-----------------------------------------------------------------------------
(* The peers of BALEEN_PEERS                                                *)

\* A static name keeps its source, so no clear takes it for a discovered one.
StaticAreStatic == \A s \in Static \cap DOMAIN metadata : metadata[s].source = "static"

\* Entries and the user's peers have other names.
LEMMA StepStaticNames == TypeInv /\ StaticAreStatic /\ [Next]_vars => StaticAreStatic'
<1> SUFFICES ASSUME TypeInv, StaticAreStatic, [Next]_vars PROVE StaticAreStatic'
  OBVIOUS
<1> USE DEF registry, discovery, network
<1>1. ASSUME UNCHANGED metadata PROVE StaticAreStatic'
  BY <1>1 DEF StaticAreStatic
<1>2. ASSUME NEW S, Delete(S) PROVE StaticAreStatic'
  BY <1>2, Deleted DEF StaticAreStatic
<1>3. ASSUME NEW n \in Names, Age(n) PROVE StaticAreStatic'
  <2>1. \A x \in DOMAIN metadata' : x \in DOMAIN metadata /\ metadata'[x].source = metadata[x].source
    BY <1>3 DEF Age, TypeInv, MapType, Entry
  <2> QED
    BY <2>1 DEF StaticAreStatic
<1>4. ASSUME NEW n, n \notin Static, NEW a, NEW meta, Register(n, a, meta) PROVE StaticAreStatic'
  BY <1>4, Registered DEF StaticAreStatic
<1>5. ASSUME NEW r \in Readers, AddEntry(r) PROVE StaticAreStatic'
  <2>1. reader[r].name \notin Static
    BY <1>5, NamesAssumption DEF AddEntry, TypeInv, RestType, Entries
  <2> QED
    BY <1>4, <1>5, <2>1 DEF AddEntry, AddPeer
<1>6. ASSUME NEW n \in Manual, NEW a \in Addresses, AddManual(n, a) PROVE StaticAreStatic'
  <2>1. n \notin Static
    BY NamesAssumption
  <2> QED
    BY <1>4, <1>6, <2>1 DEF AddManual, AddCustomPeer
<1>7. ASSUME NEW p \in probes, ProbeStep(p) PROVE StaticAreStatic'
  BY <1>1, <1>2, <1>7 DEF ProbeStep, Ask, Ping, Conclude, Evict
<1>8. ASSUME NEW c \in Clients, Clear(c) PROVE StaticAreStatic'
  BY <1>2, <1>8 DEF Clear, ClearMDNSPeers
<1>9. ASSUME NEW n \in Names, RemovePeer(n) PROVE StaticAreStatic'
  BY <1>2, <1>9 DEF RemovePeer
<1> QED
  BY <1>1, <1>3, <1>5, <1>6, <1>7, <1>8, <1>9
  DEF Next, vars, StartProbe, EndSession, StartSession, TakeEntry, Switch, Change

\* A static peer leaves the list only when the user asks, an entry on its way takes
\* over its address, or a probe evicts it; and a probe comes to that only at the
\* word of the node at the configured address: silence, however long, never does it.
StaticGoes ==
    [][/\ \A s \in Static \cap DOMAIN nodes : s \notin DOMAIN nodes' =>
            \/ requests' = requests + 1
            \/ \E r \in Dialling \ Dialling' : reader[r].addr = StaticAddress[s]
            \/ \E p \in probes \ probes' : p.name = s /\ p.pc = "evict"
       /\ \A p \in probes' \ probes : p.name \in Static /\ p.pc = "evict" =>
            HiddenAt(StaticAddress[p.name])]_vars

\* Switching discovery off clears no static peer, and the health checker's verdict
\* "lost" (checkPeer) never evicts one, for any peers and any overlap of probes.
THEOREM StaticPeersStay == Spec => StaticGoes
<1> DEFINE Leaves(s) == \/ requests' = requests + 1
                        \/ \E r \in Dialling \ Dialling' : reader[r].addr = StaticAddress[s]
                        \/ \E p \in probes \ probes' : p.name = s /\ p.pc = "evict"
<1>1. ASSUME TypeInv, OneNameEach, StaticInv, StaticAreStatic, Next,
             NEW s \in Static \cap DOMAIN nodes, s \notin DOMAIN nodes'
      PROVE  Leaves(s)
  <2> USE DEF registry, discovery, network
  <2>1. nodes' # nodes
    BY <1>1
  <2>2. ASSUME NEW r \in Readers, AddEntry(r) PROVE Leaves(s)
    <3>1. r \in Dialling /\ r \notin Dialling'
      BY <1>1, <2>2 DEF AddEntry, Dialling, Idle, TypeInv, RestType
    <3>2. nodes[s] = reader[r].addr
      BY <1>1, <2>2, Registered DEF AddEntry, AddPeer
    <3>3. nodes[s] = StaticAddress[s]
      BY <1>1 DEF StaticInv
    <3> QED
      BY <3>1, <3>2, <3>3
  <2>3. ASSUME NEW c \in Clients, Clear(c) PROVE FALSE
    <3>1. s \in FromMDNS
      BY <1>1, <2>3, Deleted DEF Clear, ClearMDNSPeers
    <3> QED
      BY <1>1, <3>1 DEF FromMDNS, StaticAreStatic
  <2>4. ASSUME NEW p \in probes, ProbeStep(p) PROVE Leaves(s)
    <3>1. Evict(p)
      BY <2>1, <2>4 DEF ProbeStep, Ask, Ping, Conclude
    <3>2. s = p.name
      <4>1. Delete({p.name})
        BY <3>1 DEF Evict
      <4>2. DOMAIN nodes' = DOMAIN nodes \ {p.name}
        BY ONLY <4>1, Deleted
      <4> QED
        BY ONLY <1>1, <4>2, s \in DOMAIN nodes
    <3>3. p.pc = "evict" /\ p \notin probes'
      BY <3>1 DEF Evict, Ends
    <3> QED
      BY <3>2, <3>3
  <2>5. ASSUME NEW n \in Names, RemovePeer(n) PROVE Leaves(s)
    BY <2>5 DEF RemovePeer, Request
  <2>6. ASSUME NEW n \in Manual, NEW a \in Addresses, AddManual(n, a) PROVE Leaves(s)
    BY <2>6 DEF AddManual, Request
  <2> HIDE DEF Leaves
  <2> QED
    BY <1>1, <2>1, <2>2, <2>3, <2>4, <2>5, <2>6
    DEF Next, Age, StartProbe, EndSession, StartSession, TakeEntry, Switch, Change
<1>2. ASSUME TypeInv, OneNameEach, StaticInv, StaticAreStatic, Next,
             NEW q \in probes' \ probes, q.name \in Static, q.pc = "evict"
      PROVE  HiddenAt(StaticAddress[q.name])
  <2>1. \A n \in Names : ~StartProbe(n)
    BY <1>2 DEF StartProbe
  <2>2. PICK p \in probes : ProbeStep(p)
    BY <1>2, <2>1 DEF Next, registry, discovery, network, Age, RemovePeer, EndSession,
       StartSession, TakeEntry, AddEntry, Clear, Switch, AddManual, Change
  <2>3. p \in Probe
    BY <1>2 DEF TypeInv, RestType
  <2>4. ASSUME NEW to, Becomes(p, to) PROVE q.name = p.name /\ q.addr = p.addr /\ q.pc = to
    BY <1>2, <2>3, <2>4 DEF Becomes, Probe
  <2>5. CASE Ask(p)
    <3>1. HiddenAt(p.addr) /\ Becomes(p, "evict")
      BY <1>2, <2>4, <2>5 DEF Ask
    <3>2. p.addr = StaticAddress[p.name] /\ q.name = p.name
      BY <1>2, <2>4, <3>1 DEF StaticInv
    <3> QED
      BY <3>1, <3>2
  <2>6. CASE Ping(p)
    BY <1>2, <2>4, <2>6 DEF Ping, Ends
  <2>7. CASE Conclude(p)
    <3>1. CASE Ends(p)
      BY <1>2, <3>1 DEF Ends
    <3>2. CASE Becomes(p, "evict")
      <4>1. p.name \in DOMAIN metadata /\ metadata[p.name].source # "static"
        BY <1>2, <2>7, <3>2 DEF Conclude, Ends
      <4>2. p.name \in Static
        BY <1>2, <2>4, <3>2
      <4> QED
        BY <1>2, <4>1, <4>2 DEF StaticAreStatic
    <3> QED
      BY <2>7, <3>1, <3>2 DEF Conclude
  <2>8. CASE Evict(p)
    BY <1>2, <2>8 DEF Evict, Ends
  <2> QED
    BY <2>2, <2>5, <2>6, <2>7, <2>8 DEF ProbeStep
<1>3. ASSUME TypeInv, OneNameEach, StaticInv, StaticAreStatic, [Next]_vars
      PROVE  [/\ \A s \in Static \cap DOMAIN nodes : s \notin DOMAIN nodes' => Leaves(s)
              /\ \A p \in probes' \ probes : p.name \in Static /\ p.pc = "evict" =>
                   HiddenAt(StaticAddress[p.name])]_vars
  <2> HIDE DEF Leaves
  <2> QED
    BY <1>1, <1>2, <1>3
<1>4. Init => StaticAreStatic /\ SteadyInv
  BY HomeAssumption, NamesAssumption DEF Init, StaticAreStatic, SteadyInv, StaticInv, Steady, Dialling, Idle
<1>5. SteadyInv => StaticInv
  BY DEF SteadyInv
<1> QED
  BY <1>3, <1>4, <1>5, StepStaticNames, StepSteady, TypeAlways, OneName, PTL DEF Spec, StaticGoes
=============================================================================
