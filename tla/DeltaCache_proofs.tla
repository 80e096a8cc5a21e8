------------------------- MODULE DeltaCache_proofs -------------------------
(***************************************************************************)
(* Theorems of DeltaCache, for any handlers, archives and digests.         *)
(*                                                                         *)
(* CacheInv says, of each handler, what its tarball and its pending writes *)
(* account for, in terms of its own variables and the files alone; a step  *)
(* of another handler only matters to it through the files, and no step    *)
(* removes one.                                                            *)
(***************************************************************************)
EXTENDS DeltaCache, DeltaTarball_proofs

All(t) == getLayersFromTarball(t)
ListedIn(t) == {All(t)[i] : i \in DOMAIN All(t)}
Names(es) == {e.name : e \in es}

\* What differs from the sender's archive is a torn layer that was not sent.
Confined(t, own, rdy) == \A e \in rdy \ t.entries :
    e.data = Torn /\ \E d \in own : e.name = PathOf(t, All(t), d)

\* The names in place and those still to be stitched in are the archive's.
Covered(t, td, rdy) == Names(t.entries) = Names(rdy) \cup {PathOf(t, All(t), d) : d \in td}

\* A layer that was missing has a file, or is about to be written to one.
Accounted(t, own, rst, f) == \A d \in ListedIn(t) \ own :
    f[d] # None \/ \E e \in rst : DigestOf(t, All(t), e.name) = d

Stitching == {"stitch", "copy"}
Caching == {"cache", "write"}

\* A handler at p with archive t, over the files f.
Fits(p, t, own, td, c, s, rdy, rst, f) ==
    /\ own \subseteq ListedIn(t) /\ \A d \in own : f[d] # None
    /\ p \in Stitching \cup Caching \cup {"completed"} =>
         CountsMatch(t, All(t)) /\ Confined(t, own, rdy)
    /\ p \in Stitching => td \subseteq own /\ Covered(t, td, rdy)
    /\ p = "copy" => c \in td
    /\ p \in Caching \cup {"completed"} => Covered(t, {}, rdy)
    /\ p \in Caching => /\ CanExtract(t, All(t))
                        /\ rst \subseteq {e \in rdy : IsLayerPath(t, e.name)}
                        /\ Accounted(t, own, rst, f)
    /\ p = "write" => c \in Digests /\ s \in {c, Torn} /\ f[c] # None

HandlerOK(h) == Fits(pc[h], tar[h], owned[h], todo[h], cur[h], seen[h], ready[h], rest[h], file)

FilesOK == \A d \in Digests :
    /\ file[d] \in {d, Torn, None} /\ mix[d] \subseteq {d, Torn}
    /\ d \in known => file[d] # None

CacheInv == TypeOK /\ FilesOK /\ \A h \in Handlers : HandlerOK(h)

-----------------------------------------------------------------------------
(* Facts about one archive                                                 *)

\* What a genuine archive lists.
LEMMA ListedTyped ==
    ASSUME NEW t \in Tarball, CountsMatch(t, All(t))
    PROVE  ListedIn(t) \subseteq Digests
BY MainTyped DEF All, ListedIn

\* A listed digest has a path, and the whole layer goes there.
LEMMA PathOfListed ==
    ASSUME NEW t \in Tarball, Genuine(t), CountsMatch(t, All(t)), NEW d \in ListedIn(t)
    PROVE  PathOf(t, All(t), d) \in Paths /\ Injected(t, All(t), d, d) \in t.entries
<1>1. PICK i \in DOMAIN All(t) : d = All(t)[i]
  BY DEF ListedIn
<1>2. PathOf(t, All(t), d) = MainLayers(t)[i] /\ Injected(t, All(t), d, d) \in t.entries
  BY <1>1, PathOfEntry DEF All
<1>3. MainLayers(t)[i] \in Paths
  <2>1. MainLayers(t) \in Seq(Paths) /\ i \in 1..Len(MainLayers(t))
    BY MainTyped DEF All, CountsMatch
  <2> QED
    BY <2>1, ElementOfSeq
<1> QED
  BY <1>2, <1>3

\* PruneTarball leaves what stitching will put back, and nothing foreign.
LEMMA Pruned ==
    ASSUME NEW t \in Tarball, Genuine(t), CountsMatch(t, All(t)),
           NEW own, own \subseteq ListedIn(t),
           NEW rdy, rdy = PruneTarball(t, All(t), ListedIn(t) \ own).entries
    PROVE  /\ rdy \subseteq t.entries /\ Confined(t, own, rdy) /\ Covered(t, own, rdy)
<1>1. rdy \subseteq t.entries
  BY DEF PruneTarball, Tarball
<1>2. {All(t)[i] : i \in DOMAIN All(t)} \ (ListedIn(t) \ own) = own
  BY DEF ListedIn
<1>3. rdy \cup {Injected(t, All(t), d, d) : d \in own} = t.entries
  BY <1>2, RoundTrip DEF All
<1>4. \A d \in own : Injected(t, All(t), d, d).name = PathOf(t, All(t), d)
  BY DEF Injected
<1>5. Covered(t, own, rdy)
  BY <1>3, <1>4 DEF Covered, Names
<1> QED
  BY <1>1, <1>5 DEF Confined

\* Stitching a layer in: its name is accounted for, and only a torn file
\* brings in what the sender did not have.
LEMMA InjectedOne ==
    ASSUME NEW t \in Tarball, Genuine(t), CountsMatch(t, All(t)),
           NEW own, own \subseteq ListedIn(t), NEW td, td \subseteq own, NEW d \in td,
           NEW x \in {d, Torn}, NEW rdy, Confined(t, own, rdy), Covered(t, td, rdy),
           NEW new, new = rdy \cup {Injected(t, All(t), d, x)}
    PROVE  Confined(t, own, new) /\ Covered(t, td \ {d}, new)
<1>1. Injected(t, All(t), d, x).name = PathOf(t, All(t), d) /\ Injected(t, All(t), d, x).data = x
  BY DEF Injected
<1>2. x = d => Injected(t, All(t), d, x) \in t.entries
  BY PathOfListed
<1>3. Confined(t, own, new)
  BY <1>1, <1>2 DEF Confined
<1>4. Names(new) = Names(rdy) \cup {PathOf(t, All(t), d)}
  BY <1>1 DEF Names
<1> QED
  BY <1>3, <1>4 DEF Covered

\* The cache files are named by listed digests.
LEMMA DigestOfListed ==
    ASSUME NEW t \in Tarball, CountsMatch(t, All(t)), CanExtract(t, All(t)),
           NEW name, IsLayerPath(t, name)
    PROVE  DigestOf(t, All(t), name) \in ListedIn(t)
<1> DEFINE S == {i \in DOMAIN LayersAt(t, 1) : LayersAt(t, 1)[i] = name}
<1>1. DOMAIN LayersAt(t, 1) = 1..Len(All(t)) /\ DOMAIN All(t) = 1..Len(All(t)) /\ Len(All(t)) \in Nat
  BY MainTyped, ExtractUsesMain DEF All
<1>2. Max(S) \in S
  BY <1>1, LastIndex DEF IsLayerPath
<1> QED
  BY <1>1, <1>2 DEF DigestOf, ListedIn

\* A layer is cached under its own digest, or torn.
LEMMA CachedData ==
    ASSUME NEW t \in Tarball, Genuine(t), CountsMatch(t, All(t)), CanExtract(t, All(t)),
           NEW own, NEW rdy, Confined(t, own, rdy), NEW e \in rdy, IsLayerPath(t, e.name)
    PROVE  e.data \in {DigestOf(t, All(t), e.name), Torn}
BY DigestOfEntry DEF Confined, All

\* Every listed layer is among those to be cached.
LEMMA AllCached ==
    ASSUME NEW t \in Tarball, Genuine(t), CountsMatch(t, All(t)), CanExtract(t, All(t)),
           NEW rdy, Covered(t, {}, rdy), NEW d \in ListedIn(t)
    PROVE  \E e \in rdy : IsLayerPath(t, e.name) /\ DigestOf(t, All(t), e.name) = d
<1>1. PICK i \in DOMAIN All(t) : d = All(t)[i]
  BY DEF ListedIn
<1> DEFINE f == [name |-> MainLayers(t)[i], data |-> All(t)[i]]
<1>2. f \in t.entries
  BY DEF Genuine, All
<1>3. LayersAt(t, 1) = MainLayers(t) /\ i \in DOMAIN MainLayers(t)
  BY ExtractUsesMain, MainTyped DEF All
<1>4. IsLayerPath(t, f.name)
  BY <1>3 DEF IsLayerPath
<1>5. DigestOf(t, All(t), f.name) = d
  BY <1>1, <1>2, <1>4, DigestOfEntry DEF All
<1>6. PICK e \in rdy : e.name = f.name
  BY <1>2 DEF Covered, Names
<1> QED
  BY <1>4, <1>5, <1>6

\* Files that appear or change do not disturb a handler's accounts.
LEMMA FitsKept ==
    ASSUME NEW p, NEW t, NEW own, NEW td, NEW c, NEW s, NEW rdy, NEW rst, NEW f, NEW g,
           Fits(p, t, own, td, c, s, rdy, rst, f), \A d : f[d] # None => g[d] # None
    PROVE  Fits(p, t, own, td, c, s, rdy, rst, g)
BY Zenon DEF Fits, Accounted

-----------------------------------------------------------------------------
(* The invariant                                                           *)

\* Facts the steps share: what the archives are, and Listed in other words.
LEMMA TarGenuine ==
    ASSUME TypeOK, NEW h \in Handlers
    PROVE  /\ tar[h] \in Tarball /\ Genuine(tar[h])
           /\ Layers(h) = All(tar[h]) /\ Listed(h) = ListedIn(tar[h])
           /\ Missing(h) = ListedIn(tar[h]) \ owned[h]
BY TarballAssumption DEF TypeOK, Layers, Listed, Missing, All, ListedIn

\* A step of handler h that removes no file leaves the accounts of the others.
LEMMA OthersFit ==
    ASSUME CacheInv, NEW h \in Handlers,
           \A g \in Handlers \ {h} :
              /\ pc'[g] = pc[g] /\ tar'[g] = tar[g] /\ owned'[g] = owned[g] /\ todo'[g] = todo[g]
              /\ cur'[g] = cur[g] /\ seen'[g] = seen[g] /\ ready'[g] = ready[g] /\ rest'[g] = rest[g],
           \A d : file[d] # None => file'[d] # None,
           HandlerOK(h)'
    PROVE  \A g \in Handlers : HandlerOK(g)'
<1>1. ASSUME NEW g \in Handlers \ {h}
      PROVE  HandlerOK(g)'
  <2>1. Fits(pc[g], tar[g], owned[g], todo[g], cur[g], seen[g], ready[g], rest[g], file)
    BY DEF CacheInv, HandlerOK
  <2>2. Fits(pc[g], tar[g], owned[g], todo[g], cur[g], seen[g], ready[g], rest[g], file')
    BY <2>1, FitsKept
  <2> QED
    BY <2>2 DEF HandlerOK
<1> QED
  BY <1>1

\* The initial states satisfy the invariant.
LEMMA CacheInit ==
    ASSUME Init
    PROVE  CacheInv
<1>1. TypeOK
  BY DataAssumption DEF Init, TypeOK, Data, Running, Stored
<1>2. FilesOK
  BY DataAssumption DEF Init, FilesOK
<1>3. \A h \in Handlers : HandlerOK(h)
  BY DEF Init, HandlerOK, Fits, Stitching, Caching
<1> QED
  BY <1>1, <1>2, <1>3 DEF CacheInv

\* Which layers are sent.
LEMMA NegotiateKeeps ==
    ASSUME CacheInv, NEW h \in Handlers, Negotiate(h)
    PROVE  CacheInv'
<1>1. TypeOK'
  BY DEF CacheInv, TypeOK, Negotiate, partitionLayers, Goto, Disturb, OthersRun, Running
<1>2. FilesOK'
  BY DEF CacheInv, FilesOK, Negotiate
<1>3. HandlerOK(h)'
  <2>1. pc'[h] = "waiting" /\ owned'[h] = Listed(h) \cap known /\ tar' = tar /\ file' = file
    BY DEF CacheInv, TypeOK, Negotiate, partitionLayers, Goto
  <2>2. known \subseteq Digests /\ Listed(h) = ListedIn(tar[h])
    BY TarGenuine DEF CacheInv, TypeOK
  <2>3. \A d \in owned'[h] : file'[d] # None
    BY <2>1, <2>2 DEF CacheInv, FilesOK
  <2> QED
    BY <2>1, <2>2, <2>3 DEF HandlerOK, Fits, Stitching, Caching
<1>4. \A g \in Handlers : HandlerOK(g)'
  BY <1>3, OthersFit DEF Negotiate, CacheInv, TypeOK, Goto
<1> QED
  BY <1>1, <1>2, <1>4 DEF CacheInv

\* The pruned tarball arrives.
LEMMA ReceiveKeeps ==
    ASSUME CacheInv, NEW h \in Handlers, Receive(h)
    PROVE  CacheInv'
<1> DEFINE t == tar[h]
           own == owned[h]
           rdy == ready'[h]
<1>0. /\ t \in Tarball /\ Genuine(t) /\ CountsMatch(t, All(t)) /\ own \subseteq ListedIn(t)
      /\ rdy = PruneTarball(t, All(t), ListedIn(t) \ own).entries
      /\ todo'[h] = own /\ pc'[h] = "stitch" /\ tar' = tar /\ owned' = owned /\ file' = file
  BY TarGenuine DEF Receive, CacheInv, TypeOK, HandlerOK, Fits, Goto
<1>1. rdy \subseteq t.entries /\ Confined(t, own, rdy) /\ Covered(t, own, rdy)
  BY <1>0, Pruned
<1>2. TypeOK'
  <2>1. rdy \subseteq Stored
    BY <1>0, <1>1 DEF Tarball, Stored, Data
  <2> QED
    BY <2>1 DEF CacheInv, TypeOK, Receive, Goto, Running
<1>3. FilesOK'
  BY DEF CacheInv, FilesOK, Receive
<1>4. HandlerOK(h)'
  <2>1. own \subseteq ListedIn(t) /\ \A d \in own : file[d] # None
    BY DEF CacheInv, HandlerOK, Fits
  <2> QED
    BY <1>0, <1>1, <2>1 DEF HandlerOK, Fits, Stitching, Caching
<1>5. \A g \in Handlers : HandlerOK(g)'
  BY <1>4, OthersFit DEF Receive, CacheInv, TypeOK, Goto
<1> QED
  BY <1>2, <1>3, <1>5 DEF CacheInv

\* A transfer that ends early.
LEMMA FailingKeeps ==
    ASSUME CacheInv, NEW h \in Handlers, TransferFails(h) \/ CopyFails(h)
    PROVE  CacheInv'
<1>1. TypeOK'
  BY DEF CacheInv, TypeOK, TransferFails, CopyFails, Goto
<1>2. FilesOK'
  BY DEF CacheInv, FilesOK, TransferFails, CopyFails
<1>3. HandlerOK(h)'
  BY DEF CacheInv, TypeOK, HandlerOK, Fits, Stitching, Caching, TransferFails, CopyFails, Goto
<1>4. \A g \in Handlers : HandlerOK(g)'
  BY <1>3, OthersFit DEF TransferFails, CopyFails, CacheInv, TypeOK, Goto
<1> QED
  BY <1>1, <1>2, <1>4 DEF CacheInv

\* A layer's file is opened.
LEMMA OpenLayerKeeps ==
    ASSUME CacheInv, NEW h \in Handlers, OpenLayer(h)
    PROVE  CacheInv'
<1>0. PICK d \in todo[h] :
         /\ cur' = [cur EXCEPT ![h] = d]
         /\ \/ /\ file[d] # None
               /\ seen' = [seen EXCEPT ![h] = file[d]]
               /\ Goto(h, "copy")
            \/ /\ file[d] = None
               /\ Goto(h, "failed")
               /\ UNCHANGED seen
  BY DEF OpenLayer
<1>1. pc[h] = "stitch" /\ d \in Digests
      /\ UNCHANGED <<known, file, mix, tar, owned, todo, ready, rest, disturbed>>
  BY DEF OpenLayer, CacheInv, TypeOK
<1>2. TypeOK'
  <2>1. file[d] \in Data \cup {None}
    BY <1>1 DEF CacheInv, TypeOK
  <2> QED
    BY <1>0, <1>1, <2>1 DEF CacheInv, TypeOK, Goto, Running
<1>3. FilesOK'
  BY <1>1 DEF CacheInv, FilesOK
<1>4. HandlerOK(h)'
  BY <1>0, <1>1 DEF CacheInv, TypeOK, HandlerOK, Fits, Stitching, Caching, Goto
<1>5. \A g \in Handlers : HandlerOK(g)'
  BY <1>0, <1>1, <1>4, OthersFit DEF CacheInv, TypeOK, Goto
<1> QED
  BY <1>2, <1>3, <1>5 DEF CacheInv

\* A layer is stitched in.
LEMMA CopyLayerKeeps ==
    ASSUME CacheInv, NEW h \in Handlers, CopyLayer(h)
    PROVE  CacheInv'
<1> DEFINE t == tar[h]
           own == owned[h]
           d == cur[h]
           x == file[d]
           new == ready'[h]
<1>0. /\ t \in Tarball /\ Genuine(t) /\ CountsMatch(t, All(t)) /\ own \subseteq ListedIn(t)
      /\ todo[h] \subseteq own /\ d \in todo[h]
      /\ Confined(t, own, ready[h]) /\ Covered(t, todo[h], ready[h])
  BY TarGenuine DEF CacheInv, HandlerOK, Fits, Stitching, CopyLayer
<1>1. x \in {d, Torn} /\ d \in Digests
  BY <1>0 DEF CacheInv, TypeOK, FilesOK, HandlerOK, Fits
<1>2. /\ new = ready[h] \cup {Injected(t, All(t), d, x)}
      /\ todo'[h] = todo[h] \ {d} /\ pc'[h] = "stitch"
      /\ tar' = tar /\ owned' = owned /\ file' = file
  BY TarGenuine DEF CacheInv, TypeOK, CopyLayer, Goto
<1>3. Confined(t, own, new) /\ Covered(t, todo'[h], new)
  <2> DEFINE td == todo[h]
  <2>1. /\ t \in Tarball /\ Genuine(t) /\ CountsMatch(t, All(t)) /\ own \subseteq ListedIn(t)
        /\ td \subseteq own /\ d \in td /\ x \in {d, Torn}
        /\ Confined(t, own, ready[h]) /\ Covered(t, td, ready[h])
        /\ new = ready[h] \cup {Injected(t, All(t), d, x)}
    BY <1>0, <1>1, <1>2
  <2> HIDE DEF t, own, d, x, new, td
  <2>2. Confined(t, own, new) /\ Covered(t, td \ {d}, new)
    BY <2>1, InjectedOne
  <2>3. todo'[h] = td \ {d}
    BY <1>2 DEF td
  <2> QED
    BY <2>2, <2>3
<1>4. TypeOK'
  <2>1. PathOf(t, All(t), d) \in Paths
    BY <1>0, PathOfListed
  <2>2. Injected(t, All(t), d, x) \in Stored
    BY <1>1, <2>1 DEF Injected, Stored, Data
  <2>3. new \subseteq Stored
    BY <1>2, <2>2 DEF CacheInv, TypeOK
  <2> QED
    BY <2>3 DEF CacheInv, TypeOK, CopyLayer, Goto, Running
<1>5. FilesOK'
  BY DEF CacheInv, FilesOK, CopyLayer
<1>6. HandlerOK(h)'
  <2>1. \A y \in own : file[y] # None
    BY DEF CacheInv, HandlerOK, Fits
  <2> QED
    BY <1>0, <1>2, <1>3, <2>1 DEF HandlerOK, Fits, Stitching, Caching
<1>7. \A g \in Handlers : HandlerOK(g)'
  BY <1>6, OthersFit DEF CopyLayer, CacheInv, TypeOK, Goto
<1> QED
  BY <1>4, <1>5, <1>7 DEF CacheInv

\* The tarball is stitched: every missing layer is among those to be cached.
LEMMA StitchedKeeps ==
    ASSUME CacheInv, NEW h \in Handlers, Stitched(h)
    PROVE  CacheInv'
<1> DEFINE t == tar[h]
           rdy == ready[h]
<1>0. /\ t \in Tarball /\ Genuine(t) /\ CountsMatch(t, All(t)) /\ owned[h] \subseteq ListedIn(t)
      /\ Confined(t, owned[h], rdy) /\ Covered(t, {}, rdy) /\ \A d \in owned[h] : file[d] # None
  BY TarGenuine DEF CacheInv, HandlerOK, Fits, Stitching, Stitched
<1>1. /\ tar' = tar /\ owned' = owned /\ file' = file /\ ready' = ready
      /\ \/ /\ pc'[h] = "cache" /\ CanExtract(t, All(t))
            /\ rest'[h] = {e \in rdy : IsLayerPath(t, e.name)}
         \/ pc'[h] = "completed"
  BY TarGenuine DEF CacheInv, TypeOK, Stitched, Goto
<1>2. TypeOK'
  BY DEF CacheInv, TypeOK, Stitched, Goto, Running
<1>3. FilesOK'
  BY DEF CacheInv, FilesOK, Stitched
<1>4. pc'[h] = "cache" => Accounted(t, owned[h], rest'[h], file)
  <2> HIDE DEF t, rdy
  <2> QED
    BY <1>0, <1>1, AllCached DEF Accounted
<1>5. HandlerOK(h)'
  BY <1>0, <1>1, <1>4 DEF HandlerOK, Fits, Stitching, Caching
<1>6. \A g \in Handlers : HandlerOK(g)'
  BY <1>5, OthersFit DEF Stitched, CacheInv, TypeOK, Goto
<1> QED
  BY <1>2, <1>3, <1>6 DEF CacheInv

\* A cache file is truncated.
LEMMA CreateFileKeeps ==
    ASSUME CacheInv, NEW h \in Handlers, CreateFile(h)
    PROVE  CacheInv'
<1> DEFINE t == tar[h]
           own == owned[h]
<1>0. /\ t \in Tarball /\ Genuine(t) /\ CountsMatch(t, All(t)) /\ CanExtract(t, All(t))
      /\ own \subseteq ListedIn(t) /\ Confined(t, own, ready[h]) /\ Covered(t, {}, ready[h])
      /\ rest[h] \subseteq {e \in ready[h] : IsLayerPath(t, e.name)}
      /\ Accounted(t, own, rest[h], file)
  BY TarGenuine DEF CacheInv, HandlerOK, Fits, Caching, CreateFile
<1>1. PICK e \in rest[h] :
         LET d == DigestOf(t, All(t), e.name) IN
         /\ rest' = [rest EXCEPT ![h] = @ \ {e}]
         /\ cur' = [cur EXCEPT ![h] = d]
         /\ seen' = [seen EXCEPT ![h] = e.data]
         /\ file' = [file EXCEPT ![d] = Torn]
         /\ mix' = [mix EXCEPT ![d] = {e.data} \cup IF OthersWrite(h, d) THEN @ ELSE {}]
  BY TarGenuine DEF CreateFile, CacheInv
<1> DEFINE d == DigestOf(t, All(t), e.name)
<1>2. d \in Digests
  BY <1>0, <1>1, DigestOfListed, ListedTyped
<1>3. e.data \in {d, Torn}
  <2> HIDE DEF t, own
  <2> QED
    BY <1>0, <1>1, CachedData
<1> HIDE DEF d
<1>4. /\ pc' = [pc EXCEPT ![h] = "write"]
      /\ UNCHANGED <<known, tar, owned, todo, ready, disturbed>>
  BY DEF CreateFile, Goto
<1>5. /\ rest' = [rest EXCEPT ![h] = @ \ {e}] /\ cur' = [cur EXCEPT ![h] = d]
      /\ seen' = [seen EXCEPT ![h] = e.data] /\ file' = [file EXCEPT ![d] = Torn]
      /\ mix' = [mix EXCEPT ![d] = {e.data} \cup IF OthersWrite(h, d) THEN @ ELSE {}]
  BY <1>1 DEF d
<1>6. TypeOK'
  BY <1>2, <1>3, <1>4, <1>5 DEF CacheInv, TypeOK, Data, Running
<1>7. FilesOK'
  BY <1>2, <1>3, <1>4, <1>5, DataAssumption DEF CacheInv, TypeOK, FilesOK
<1>8. \A y : file[y] # None => file'[y] # None
  BY <1>2, <1>5, DataAssumption DEF CacheInv, TypeOK
<1>9. HandlerOK(h)'
  <2>1. /\ pc'[h] = "write" /\ tar'[h] = t /\ owned'[h] = own /\ cur'[h] = d /\ seen'[h] = e.data
        /\ ready'[h] = ready[h] /\ rest'[h] = rest[h] \ {e} /\ file'[d] = Torn
    BY <1>2, <1>4, <1>5 DEF CacheInv, TypeOK
  <2>2. Accounted(t, own, rest[h] \ {e}, file')
    BY <1>0, <1>8, <2>1, DataAssumption DEF Accounted, d
  <2>3. \A y \in own : file'[y] # None
    BY <1>8 DEF CacheInv, HandlerOK, Fits
  <2> QED
    BY <1>0, <1>2, <1>3, <2>1, <2>2, <2>3, DataAssumption DEF HandlerOK, Fits, Stitching, Caching
<1>10. \A g \in Handlers : HandlerOK(g)'
  <2>1. \A g \in Handlers \ {h} :
              /\ pc'[g] = pc[g] /\ tar'[g] = tar[g] /\ owned'[g] = owned[g] /\ todo'[g] = todo[g]
              /\ cur'[g] = cur[g] /\ seen'[g] = seen[g] /\ ready'[g] = ready[g] /\ rest'[g] = rest[g]
    BY <1>4, <1>5 DEF CacheInv, TypeOK
  <2> QED
    BY <1>8, <1>9, <2>1, OthersFit
<1> QED
  BY <1>6, <1>7, <1>10 DEF CacheInv

\* A cache file is written out.
LEMMA WriteOutKeeps ==
    ASSUME CacheInv, NEW h \in Handlers, WriteOut(h)
    PROVE  CacheInv'
<1> DEFINE d == cur[h]
<1>0. d \in Digests /\ seen[h] \in {d, Torn} /\ mix[d] \subseteq {d, Torn}
  BY DEF CacheInv, HandlerOK, Fits, Caching, WriteOut, FilesOK
<1>1. PICK x \in {d, Torn} : file' = [file EXCEPT ![d] = x]
  BY <1>0 DEF WriteOut
<1>2. /\ pc' = [pc EXCEPT ![h] = "cache"]
      /\ UNCHANGED <<known, mix, tar, owned, todo, cur, seen, ready, rest, disturbed>>
  BY DEF WriteOut, Goto
<1>3. TypeOK'
  BY <1>0, <1>1, <1>2 DEF CacheInv, TypeOK, Data, Running
<1>4. FilesOK'
  BY <1>0, <1>1, <1>2, DataAssumption DEF CacheInv, TypeOK, FilesOK
<1>5. \A y : file[y] # None => file'[y] # None
  BY <1>0, <1>1, DataAssumption DEF CacheInv, TypeOK
<1>6. HandlerOK(h)'
  <2>1. Fits("write", tar[h], owned[h], todo[h], cur[h], seen[h], ready[h], rest[h], file)
    BY DEF CacheInv, HandlerOK, WriteOut
  <2>2. Fits("write", tar[h], owned[h], todo[h], cur[h], seen[h], ready[h], rest[h], file')
    BY <1>5, <2>1, FitsKept
  <2>3. pc'[h] = "cache"
    BY <1>2 DEF CacheInv, TypeOK
  <2> QED
    BY <1>2, <2>2, <2>3 DEF HandlerOK, Fits, Stitching, Caching
<1>7. \A g \in Handlers : HandlerOK(g)'
  <2>1. \A g \in Handlers \ {h} : pc'[g] = pc[g]
    BY <1>2 DEF CacheInv, TypeOK
  <2> QED
    BY <1>2, <1>5, <1>6, <2>1, OthersFit
<1> QED
  BY <1>3, <1>4, <1>7 DEF CacheInv

\* An extraction that ends early, or ends with the layers marked.
LEMMA EndingKeeps ==
    ASSUME CacheInv, NEW h \in Handlers, CacheFails(h) \/ WriteFails(h) \/ MarkLayersAsOwned(h)
    PROVE  CacheInv'
<1> DEFINE t == tar[h]
<1>0. /\ t \in Tarball /\ CountsMatch(t, All(t)) /\ Accounted(t, owned[h], rest[h], file)
      /\ Missing(h) = ListedIn(t) \ owned[h]
  BY TarGenuine DEF CacheInv, HandlerOK, Fits, Caching, CacheFails, WriteFails, MarkLayersAsOwned
<1>1. /\ pc' = [pc EXCEPT ![h] = "completed"] /\ disturbed' \in BOOLEAN
      /\ UNCHANGED <<file, tar, owned, todo, cur, seen, ready, rest>>
  BY DEF CacheInv, TypeOK, CacheFails, WriteFails, MarkLayersAsOwned, Goto, Disturb
<1>2. known' \subseteq Digests /\ \A d \in known' : file[d] # None
  <2>1. Missing(h) \subseteq Digests
    BY <1>0, ListedTyped
  <2>2. \A d \in known : file[d] # None
    BY DEF CacheInv, TypeOK, FilesOK
  <2>3. MarkLayersAsOwned(h) => \A d \in Missing(h) : file[d] # None
    BY <1>0 DEF MarkLayersAsOwned, Accounted
  <2> QED
    BY <2>1, <2>2, <2>3 DEF CacheInv, TypeOK, CacheFails, WriteFails, MarkLayersAsOwned
<1>3. mix' \in [Digests -> SUBSET Data] /\ \A d \in Digests : mix'[d] \subseteq {d, Torn}
  <2>1. mix \in [Digests -> SUBSET Data] /\ \A d \in Digests : mix[d] \subseteq {d, Torn}
    BY DEF CacheInv, TypeOK, FilesOK
  <2>2. CASE UNCHANGED mix
    BY <2>1, <2>2
  <2>3. CASE WriteFails(h)
    <3>1. cur[h] \in Digests /\ mix' = [mix EXCEPT ![cur[h]] = @ \cup {Torn}]
      BY <2>3 DEF CacheInv, HandlerOK, Fits, Caching, WriteFails
    <3> QED
      BY <2>1, <3>1 DEF Data
  <2> QED
    BY <2>2, <2>3 DEF CacheFails, MarkLayersAsOwned
<1>4. TypeOK'
  BY <1>1, <1>2, <1>3 DEF CacheInv, TypeOK, Running
<1>5. FilesOK'
  BY <1>1, <1>2, <1>3 DEF CacheInv, FilesOK
<1>6. HandlerOK(h)'
  <2>1. pc[h] \in Caching /\ pc'[h] = "completed"
    BY <1>1 DEF CacheInv, TypeOK, Caching, CacheFails, WriteFails, MarkLayersAsOwned
  <2> QED
    BY <1>1, <2>1 DEF CacheInv, HandlerOK, Fits, Stitching, Caching
<1>7. \A g \in Handlers : HandlerOK(g)'
  <2>1. \A g \in Handlers \ {h} : pc'[g] = pc[g]
    BY <1>1 DEF CacheInv, TypeOK
  <2> QED
    BY <1>1, <1>6, <2>1, OthersFit
<1> QED
  BY <1>4, <1>5, <1>7 DEF CacheInv

\* The daemon stops, or the bucket is emptied: the files stay.
LEMMA RestKeeps ==
    ASSUME CacheInv, Stop \/ ClearCacheMemory \/ UNCHANGED vars
    PROVE  CacheInv'
<1>1. TypeOK'
  BY DEF CacheInv, TypeOK, Stop, ClearCacheMemory, vars, Disturb, Running
<1>2. FilesOK'
  BY DEF CacheInv, FilesOK, Stop, ClearCacheMemory, vars
<1>3. ASSUME NEW h \in Handlers
      PROVE  HandlerOK(h)'
  <2>1. pc'[h] = pc[h] \/ pc'[h] = "failed"
    BY DEF CacheInv, TypeOK, Stop, ClearCacheMemory, vars
  <2>2. UNCHANGED <<file, tar, owned, todo, cur, seen, ready, rest>>
    BY DEF Stop, ClearCacheMemory, vars
  <2> QED
    BY <2>1, <2>2 DEF CacheInv, HandlerOK, Fits, Stitching, Caching
<1> QED
  BY <1>1, <1>2, <1>3 DEF CacheInv

\* The invariant holds in every reachable state.
LEMMA CacheHolds == Spec => []CacheInv
<1>1. Init => CacheInv
  BY CacheInit
<1>2. CacheInv /\ [Next]_vars => CacheInv'
  BY NegotiateKeeps, ReceiveKeeps, FailingKeeps, OpenLayerKeeps, CopyLayerKeeps, StitchedKeeps,
     CreateFileKeeps, WriteOutKeeps, EndingKeeps, RestKeeps DEF Next, Transfer
<1> QED
  BY <1>1, <1>2, PTL DEF Spec

-----------------------------------------------------------------------------
(* What holds whatever fails, stops or overlaps                            *)

\* Type correctness: in particular what is stitched in has a path of the
\* archive, and a cache file the name of a listed digest.
THEOREM TypeCorrect == Spec => []TypeOK
<1>1. CacheInv => TypeOK
  BY DEF CacheInv
<1> QED
  BY <1>1, CacheHolds, PTL

\* A layer that HasLayer reported can be opened (MarkLayersAsOwned comes after
\* the files, and nothing removes one).
THEOREM OwnedFilesExist == Spec => []OwnedOpens
<1>1. CacheInv => OwnedOpens
  BY DEF CacheInv, HandlerOK, Fits, OwnedOpens
<1> QED
  BY <1>1, CacheHolds, PTL

\* What StitchTarball hands to Docker differs from the sender's archive only in
\* layers that were not sent and whose cached file was torn.
THEOREM DamageIsConfined == Spec => []DamageConfined
<1>1. CacheInv => DamageConfined
  <2> SUFFICES ASSUME CacheInv, NEW h \in Handlers, pc[h] = "completed"
               PROVE  /\ {e.name : e \in ready[h]} = {e.name : e \in tar[h].entries}
                      /\ \A e \in ready[h] \ tar[h].entries :
                           e.data = Torn /\ \E d \in owned[h] : e.name = PathOf(tar[h], Layers(h), d)
    BY DEF DamageConfined
  <2>1. Confined(tar[h], owned[h], ready[h]) /\ Covered(tar[h], {}, ready[h])
    BY DEF CacheInv, HandlerOK, Fits
  <2> QED
    BY <2>1 DEF Confined, Covered, Names, Layers, All
<1> QED
  BY <1>1, CacheHolds, PTL

\* A transfer that took no layer from the cache hands Docker exactly what the
\* sender exported, whatever other handlers do to the cache, fail at or are
\* stopped in (the full transfer of a first pull, or of one after a collection).
THEOREM FullTransfersAreWhole ==
    Spec => [](\A h \in Handlers : pc[h] = "completed" /\ owned[h] = {} => ready[h] = tar[h].entries)
<1> DEFINE Full == \A h \in Handlers : pc[h] = "completed" /\ owned[h] = {} => ready[h] = tar[h].entries
<1>1. CacheInv => Full
  <2> SUFFICES ASSUME CacheInv, NEW h \in Handlers, pc[h] = "completed", owned[h] = {}
               PROVE  ready[h] = tar[h].entries
    OBVIOUS
  <2>1. Confined(tar[h], {}, ready[h]) /\ Covered(tar[h], {}, ready[h]) /\ Genuine(tar[h])
    BY TarGenuine DEF CacheInv, HandlerOK, Fits
  <2>2. ready[h] \subseteq tar[h].entries
    BY <2>1 DEF Confined
  <2>3. ASSUME NEW e \in tar[h].entries
        PROVE  e \in ready[h]
    <3>1. PICK f \in ready[h] : f.name = e.name
      BY <2>1 DEF Covered, Names
    <3>2. f \in tar[h].entries
      BY <2>2
    <3> QED
      BY <2>1, <3>1, <3>2 DEF Genuine
  <2> QED
    BY <2>2, <2>3
<1> HIDE DEF Full
<1>2. Spec => []Full
  BY <1>1, CacheHolds, PTL
<1> QED
  BY <1>2 DEF Full

\* updateCacheAndLedger marks what its own transfer was missing, and nothing
\* else adds to the bucket.
THEOREM MarkedWereSent == Spec => OnlySentIsMarked
<1>1. CacheInv /\ [Next]_vars =>
        [\A d \in known' \ known :
           \E h \in Handlers : d \in Missing(h) /\ pc[h] = "cache" /\ pc'[h] = "completed"]_vars
  <2> SUFFICES ASSUME CacheInv, Next
               PROVE  \A d \in known' \ known :
                        \E h \in Handlers : d \in Missing(h) /\ pc[h] = "cache" /\ pc'[h] = "completed"
    OBVIOUS
  <2>1. ASSUME NEW h \in Handlers, MarkLayersAsOwned(h)
        PROVE  known' = known \cup Missing(h) /\ pc[h] = "cache" /\ pc'[h] = "completed"
    BY <2>1 DEF MarkLayersAsOwned, Goto, CacheInv, TypeOK
  <2>2. ASSUME NEW h \in Handlers, Transfer(h), ~MarkLayersAsOwned(h)
        PROVE  known' = known
    BY <2>2 DEF Transfer, Negotiate, Receive, TransferFails, OpenLayer, CopyLayer, CopyFails,
       Stitched, CreateFile, WriteOut, WriteFails, CacheFails
  <2>3. ClearCacheMemory \/ Stop => known' \subseteq known
    BY DEF ClearCacheMemory, Stop
  <2> QED
    BY <2>1, <2>2, <2>3 DEF Next
<1> QED
  BY <1>1, CacheHolds, PTL DEF Spec, OnlySentIsMarked

-----------------------------------------------------------------------------
(* What holds as long as no handler met another or was cut short           *)

\* Alone, a handler stitches whole layers and writes whole ones back; a missing
\* layer is written, being written or still to be written.
Alone(h) ==
    /\ \A g \in Handlers : pc[g] \in Running /\ pc[h] \in Running => g = h
    /\ pc[h] \in {"waiting"} \cup Stitching => \A d \in owned[h] : file[d] = d
    /\ pc[h] \in Stitching \cup Caching \cup {"completed"} => ready[h] \subseteq tar[h].entries
    /\ pc[h] = "write" => seen[h] = cur[h] /\ mix[cur[h]] = {cur[h]}
    /\ pc[h] \in Caching => \A d \in Missing(h) :
         \/ file[d] = d
         \/ pc[h] = "write" /\ cur[h] = d
         \/ \E e \in rest[h] : DigestOf(tar[h], All(tar[h]), e.name) = d

CalmInv == ~disturbed => KnownIsWhole /\ \A h \in Handlers : Alone(h)

\* A step inside a transfer that touches neither the bucket nor the files.
LEMMA CalmInside ==
    ASSUME CacheInv, CalmInv, NEW h \in Handlers,
           Receive(h) \/ TransferFails(h) \/ OpenLayer(h) \/ CopyLayer(h) \/ CopyFails(h) \/ Stitched(h)
    PROVE  CalmInv'
<1> SUFFICES ASSUME ~disturbed'
             PROVE  KnownIsWhole' /\ \A g \in Handlers : Alone(g)'
  BY DEF CalmInv
<1>0. /\ UNCHANGED <<known, file, mix, tar, owned, disturbed>>
      /\ pc[h] \in {"waiting"} \cup Stitching
      /\ \E l \in Stitching \cup {"failed", "completed", "cache"} : pc' = [pc EXCEPT ![h] = l]
  BY DEF Receive, TransferFails, OpenLayer, CopyLayer, CopyFails, Stitched, Goto, Stitching
<1>1. KnownIsWhole /\ \A g \in Handlers : Alone(g)
  BY <1>0 DEF CalmInv
<1>2. KnownIsWhole'
  <2>1. \A g \in Handlers : pc[g] = "write" => pc'[g] = "write" /\ cur'[g] = cur[g]
    BY <1>0 DEF Receive, TransferFails, OpenLayer, CopyLayer, CopyFails, Stitched, Stitching, CacheInv, TypeOK
  <2> QED
    BY <1>0, <1>1, <2>1 DEF KnownIsWhole
<1>3. \A g \in Handlers : pc'[g] \in Running => pc[g] \in Running
  BY <1>0 DEF Running, Stitching, CacheInv, TypeOK
<1>4. ASSUME NEW g \in Handlers \ {h}
      PROVE  Alone(g)'
  <2>1. /\ pc'[g] = pc[g] /\ cur'[g] = cur[g] /\ seen'[g] = seen[g]
        /\ ready'[g] = ready[g] /\ rest'[g] = rest[g]
    BY DEF CacheInv, TypeOK, Receive, TransferFails, OpenLayer, CopyLayer, CopyFails, Stitched, Goto
  <2>2. Missing(g)' = Missing(g)
    BY <1>0 DEF Missing, Listed, Layers
  <2> QED
    BY <1>0, <1>1, <1>3, <2>1, <2>2 DEF Alone
<1>5. ready'[h] \subseteq tar[h].entries \/ pc'[h] = "failed"
  <2>1. CASE Receive(h)
    BY <2>1, TarGenuine DEF Receive, CacheInv, TypeOK, PruneTarball, Tarball
  <2>2. CASE CopyLayer(h)
    <3> DEFINE t == tar[h]
               d == cur[h]
    <3>1. /\ t \in Tarball /\ Genuine(t) /\ CountsMatch(t, All(t))
          /\ d \in owned[h] /\ d \in ListedIn(t)
      BY <2>2, TarGenuine DEF CacheInv, HandlerOK, Fits, Stitching, CopyLayer
    <3>2. file[d] = d /\ ready[h] \subseteq t.entries
      BY <1>1, <2>2, <3>1 DEF Alone, Stitching, CopyLayer
    <3>3. ready'[h] = ready[h] \cup {Injected(t, All(t), d, d)}
      BY <2>2, <3>2, TarGenuine DEF CopyLayer, CacheInv, TypeOK
    <3>4. Injected(t, All(t), d, d) \in t.entries
      BY <3>1, PathOfListed
    <3> QED
      BY <3>2, <3>3, <3>4
  <2>3. CASE OpenLayer(h) \/ Stitched(h)
    BY <1>1, <2>3 DEF OpenLayer, Stitched, Alone, Stitching
  <2>4. CASE TransferFails(h) \/ CopyFails(h)
    BY <2>4 DEF TransferFails, CopyFails, Goto, CacheInv, TypeOK
  <2> QED
    BY <2>1, <2>2, <2>3, <2>4
<1>6. pc'[h] = "cache" =>
        \A d \in Missing(h) : \E e \in rest'[h] : DigestOf(tar[h], All(tar[h]), e.name) = d
  <2> SUFFICES ASSUME pc'[h] = "cache"
               PROVE  \A d \in Missing(h) : \E e \in rest'[h] : DigestOf(tar[h], All(tar[h]), e.name) = d
    OBVIOUS
  <2>1. Stitched(h)
    BY DEF Receive, TransferFails, OpenLayer, CopyLayer, CopyFails, Goto, CacheInv, TypeOK
  <2>2. /\ CountsMatch(tar[h], All(tar[h])) /\ CanExtract(tar[h], All(tar[h]))
        /\ Covered(tar[h], {}, ready[h])
        /\ rest'[h] = {e \in ready[h] : IsLayerPath(tar[h], e.name)}
    <3>1. /\ pc[h] = "stitch" /\ todo[h] = {} /\ CanExtract(tar[h], Layers(h))
          /\ rest' = [rest EXCEPT ![h] = {e \in ready[h] : IsLayerPath(tar[h], e.name)}]
      BY <2>1 DEF Stitched, Goto, CacheInv, TypeOK
    <3>2. HandlerOK(h) /\ rest'[h] = {e \in ready[h] : IsLayerPath(tar[h], e.name)}
      BY <3>1 DEF CacheInv, TypeOK
    <3>3. CountsMatch(tar[h], All(tar[h])) /\ Covered(tar[h], {}, ready[h])
      BY <3>1, <3>2 DEF HandlerOK, Fits, Stitching
    <3> QED
      BY <3>1, <3>2, <3>3, TarGenuine DEF CacheInv
  <2> QED
    BY <2>2, TarGenuine, AllCached DEF CacheInv
<1>7. Alone(h)'
  <2>1. pc'[h] \in Stitching \cup {"failed", "completed", "cache"}
    BY <1>0 DEF CacheInv, TypeOK
  <2>2. \A d \in owned[h] : file[d] = d
    BY <1>0, <1>1 DEF Alone
  <2>3. Missing(h)' = Missing(h)
    BY <1>0 DEF Missing, Listed, Layers
  <2>4. \A g \in Handlers : pc'[g] \in Running /\ pc'[h] \in Running => g = h
    BY <1>1, <1>3 DEF Alone
  <2> QED
    BY <1>0, <1>5, <1>6, <2>1, <2>2, <2>3, <2>4 DEF Alone, Stitching, Caching
<1> QED
  BY <1>2, <1>4, <1>7

\* A handler that starts while no other runs counts on whole layers only.
LEMMA CalmNegotiate ==
    ASSUME CacheInv, CalmInv, NEW h \in Handlers, Negotiate(h)
    PROVE  CalmInv'
<1> SUFFICES ASSUME ~disturbed'
             PROVE  KnownIsWhole' /\ \A g \in Handlers : Alone(g)'
  BY DEF CalmInv
<1>0. /\ ~disturbed /\ \A g \in Handlers \ {h} : pc[g] \notin Running
      /\ pc[h] = "idle" /\ pc' = [pc EXCEPT ![h] = "waiting"]
      /\ owned' = [owned EXCEPT ![h] = Listed(h) \cap known]
      /\ UNCHANGED <<known, file, mix, tar, todo, cur, seen, ready, rest>>
  BY DEF Negotiate, Disturb, OthersRun, Goto, partitionLayers
<1>1. KnownIsWhole /\ \A g \in Handlers : Alone(g)
  BY <1>0 DEF CalmInv
<1>2. \A d \in known : file[d] = d
  BY <1>0, <1>1 DEF KnownIsWhole, Running
<1>3. KnownIsWhole'
  BY <1>0, <1>2 DEF KnownIsWhole
<1>4. ASSUME NEW g \in Handlers \ {h}
      PROVE  Alone(g)'
  <2>1. pc'[g] = pc[g] /\ pc[g] \notin Running
    BY <1>0 DEF CacheInv, TypeOK
  <2> QED
    BY <1>0, <1>1, <2>1 DEF Alone, Running, Stitching, Caching
<1>5. Alone(h)'
  <2>1. pc'[h] = "waiting" /\ owned'[h] \subseteq known
    BY <1>0 DEF CacheInv, TypeOK
  <2>2. \A g \in Handlers : pc'[g] \in Running => g = h
    BY <1>0 DEF CacheInv, TypeOK
  <2> QED
    BY <1>0, <1>2, <2>1, <2>2 DEF Alone, Stitching, Caching
<1> QED
  BY <1>3, <1>4, <1>5

\* Alone, a handler creates a file for a whole layer.
LEMMA CalmCreate ==
    ASSUME CacheInv, CalmInv, NEW h \in Handlers, CreateFile(h)
    PROVE  CalmInv'
<1> SUFFICES ASSUME ~disturbed'
             PROVE  KnownIsWhole' /\ \A g \in Handlers : Alone(g)'
  BY DEF CalmInv
<1> DEFINE t == tar[h]
<1>0. /\ t \in Tarball /\ Genuine(t) /\ CountsMatch(t, All(t)) /\ CanExtract(t, All(t))
      /\ rest[h] \subseteq {e \in ready[h] : IsLayerPath(t, e.name)}
  BY TarGenuine DEF CacheInv, HandlerOK, Fits, Caching, CreateFile
<1>1. PICK e \in rest[h] :
         LET d == DigestOf(t, All(t), e.name) IN
         /\ rest' = [rest EXCEPT ![h] = @ \ {e}]
         /\ cur' = [cur EXCEPT ![h] = d]
         /\ seen' = [seen EXCEPT ![h] = e.data]
         /\ file' = [file EXCEPT ![d] = Torn]
         /\ mix' = [mix EXCEPT ![d] = {e.data} \cup IF OthersWrite(h, d) THEN @ ELSE {}]
  BY TarGenuine DEF CreateFile, CacheInv
<1> DEFINE d == DigestOf(t, All(t), e.name)
<1>2. d \in Digests
  BY <1>0, <1>1, DigestOfListed, ListedTyped
<1>3. /\ pc[h] = "cache" /\ pc' = [pc EXCEPT ![h] = "write"] /\ ~disturbed
      /\ UNCHANGED <<known, tar, owned, todo, ready>>
  BY DEF CreateFile, Goto
<1>4. KnownIsWhole /\ \A g \in Handlers : Alone(g)
  BY <1>3 DEF CalmInv
<1>5. e.data = d
  BY <1>0, <1>1, <1>3, <1>4, DigestOfEntry DEF Alone, Caching, All
<1>6. \A g \in Handlers \ {h} : pc[g] \notin Running
  BY <1>3, <1>4 DEF Alone, Running
<1>7. ~OthersWrite(h, d)
  BY <1>6 DEF OthersWrite, Running
<1>8. /\ rest' = [rest EXCEPT ![h] = @ \ {e}] /\ cur' = [cur EXCEPT ![h] = d]
      /\ seen' = [seen EXCEPT ![h] = d] /\ file' = [file EXCEPT ![d] = Torn]
      /\ mix' = [mix EXCEPT ![d] = {d}]
  BY <1>1, <1>5, <1>7
<1>9. \A y \in Missing(h) : file[y] = y \/ \E f \in rest[h] : DigestOf(t, All(t), f.name) = y
  BY <1>3, <1>4 DEF Alone, Caching
<1>10. \A y \in Missing(h) : y = d \/ file[y] = y \/ \E f \in rest[h] \ {e} : DigestOf(t, All(t), f.name) = y
  BY <1>9
<1> HIDE DEF d
<1>11. pc'[h] = "write" /\ cur'[h] = d /\ seen'[h] = d /\ mix'[d] = {d} /\ rest'[h] = rest[h] \ {e}
       /\ \A y \in Digests \ {d} : file'[y] = file[y]
  BY <1>2, <1>3, <1>8 DEF CacheInv, TypeOK
<1>12. KnownIsWhole'
  <2>1. \A y \in known : file[y] = y
    BY <1>3, <1>4, <1>6 DEF KnownIsWhole, Running
  <2>2. known \subseteq Digests
    BY DEF CacheInv, TypeOK
  <2> QED
    BY <1>3, <1>11, <2>1, <2>2 DEF KnownIsWhole
<1>13. ASSUME NEW g \in Handlers \ {h}
       PROVE  Alone(g)'
  <2>1. pc'[g] = pc[g] /\ pc[g] \notin Running
    BY <1>3, <1>6 DEF CacheInv, TypeOK
  <2> QED
    BY <1>3, <1>4, <2>1 DEF Alone, Running, Stitching, Caching
<1>14. Alone(h)'
  <2>1. \A g \in Handlers : pc'[g] \in Running => g = h
    BY <1>3, <1>6 DEF CacheInv, TypeOK
  <2>2. Missing(h)' = Missing(h) /\ Missing(h) \subseteq Digests
    BY <1>0, <1>3, TarGenuine, ListedTyped DEF CacheInv, Missing, Listed, Layers
  <2>3. ready[h] \subseteq tar[h].entries
    BY <1>3, <1>4 DEF Alone, Caching
  <2> QED
    BY <1>3, <1>10, <1>11, <2>1, <2>2, <2>3 DEF Alone, Stitching, Caching
<1> QED
  BY <1>12, <1>13, <1>14

\* Alone, a handler's file is whole once written out.
LEMMA CalmWriteOut ==
    ASSUME CacheInv, CalmInv, NEW h \in Handlers, WriteOut(h)
    PROVE  CalmInv'
<1> SUFFICES ASSUME ~disturbed'
             PROVE  KnownIsWhole' /\ \A g \in Handlers : Alone(g)'
  BY DEF CalmInv
<1> DEFINE d == cur[h]
<1>0. /\ pc[h] = "write" /\ pc' = [pc EXCEPT ![h] = "cache"] /\ ~disturbed
      /\ UNCHANGED <<known, mix, tar, owned, todo, cur, seen, ready, rest>>
  BY DEF WriteOut, Goto
<1>1. KnownIsWhole /\ \A g \in Handlers : Alone(g)
  BY <1>0 DEF CalmInv
<1>2. \A g \in Handlers \ {h} : pc[g] \notin Running
  BY <1>0, <1>1 DEF Alone, Running
<1>3. ~OthersWrite(h, d) /\ d \in Digests /\ seen[h] = d /\ mix[d] = {d}
  BY <1>0, <1>1, <1>2 DEF OthersWrite, Running, Alone, CacheInv, HandlerOK, Fits, Caching
<1>4. file' = [file EXCEPT ![d] = d]
  BY <1>3 DEF WriteOut
<1>5. pc'[h] = "cache" /\ file'[d] = d /\ \A y \in Digests \ {d} : file'[y] = file[y]
  BY <1>0, <1>3, <1>4 DEF CacheInv, TypeOK
<1>6. KnownIsWhole'
  <2>1. \A g \in Handlers : pc[g] = "write" => g = h
    BY <1>2 DEF Running
  <2>2. \A y \in known : file[y] = y \/ y = d
    BY <1>0, <1>1, <2>1 DEF KnownIsWhole
  <2>3. known \subseteq Digests
    BY DEF CacheInv, TypeOK
  <2> QED
    BY <1>0, <1>5, <2>2, <2>3 DEF KnownIsWhole
<1>7. ASSUME NEW g \in Handlers \ {h}
      PROVE  Alone(g)'
  <2>1. pc'[g] = pc[g] /\ pc[g] \notin Running
    BY <1>0, <1>2 DEF CacheInv, TypeOK
  <2> QED
    BY <1>0, <1>1, <2>1 DEF Alone, Running, Stitching, Caching
<1>8. Alone(h)'
  <2>1. \A g \in Handlers : pc'[g] \in Running => g = h
    BY <1>0, <1>2 DEF CacheInv, TypeOK
  <2>2. Missing(h)' = Missing(h) /\ Missing(h) \subseteq Digests
    <3>1. CountsMatch(tar[h], All(tar[h]))
      BY <1>0 DEF CacheInv, HandlerOK, Fits, Caching
    <3> QED
      BY <1>0, <3>1, TarGenuine, ListedTyped DEF CacheInv, Missing, Listed, Layers
  <2>3. ready[h] \subseteq tar[h].entries
    BY <1>0, <1>1 DEF Alone, Caching
  <2>4. \A y \in Missing(h) :
          file'[y] = y \/ \E e \in rest[h] : DigestOf(tar[h], All(tar[h]), e.name) = y
    BY <1>0, <1>1, <1>5, <2>2 DEF Alone, Caching
  <2> QED
    BY <1>0, <1>5, <2>1, <2>2, <2>3, <2>4 DEF Alone, Stitching, Caching
<1> QED
  BY <1>6, <1>7, <1>8

\* What is marked was written whole.
LEMMA CalmEnd ==
    ASSUME CacheInv, CalmInv, NEW h \in Handlers, CacheFails(h) \/ MarkLayersAsOwned(h)
    PROVE  CalmInv'
<1> SUFFICES ASSUME ~disturbed'
             PROVE  KnownIsWhole' /\ \A g \in Handlers : Alone(g)'
  BY DEF CalmInv
<1>0. /\ pc[h] = "cache" /\ pc' = [pc EXCEPT ![h] = "completed"] /\ ~disturbed
      /\ UNCHANGED <<file, mix, tar, owned, todo, cur, seen, ready, rest>>
  BY DEF CacheFails, MarkLayersAsOwned, Goto
<1>1. KnownIsWhole /\ \A g \in Handlers : Alone(g)
  BY <1>0 DEF CalmInv
<1>2. \A g \in Handlers \ {h} : pc[g] \notin Running
  BY <1>0, <1>1 DEF Alone, Running
<1>3. \A d \in known : file[d] = d
  BY <1>0, <1>1, <1>2 DEF KnownIsWhole, Running
<1>4. MarkLayersAsOwned(h) => \A d \in Missing(h) : file[d] = d
  BY <1>0, <1>1 DEF MarkLayersAsOwned, Alone, Caching
<1>5. \A d \in known' : file[d] = d
  BY <1>3, <1>4 DEF CacheFails, MarkLayersAsOwned
<1>6. KnownIsWhole'
  BY <1>0, <1>5 DEF KnownIsWhole
<1>7. ASSUME NEW g \in Handlers
      PROVE  Alone(g)'
  <2>1. (pc'[g] = pc[g] /\ pc[g] \notin Running) \/ (g = h /\ pc'[g] = "completed")
    BY <1>0, <1>2 DEF CacheInv, TypeOK
  <2>2. ready[h] \subseteq tar[h].entries
    BY <1>0, <1>1 DEF Alone, Caching
  <2> QED
    BY <1>0, <1>1, <2>1, <2>2 DEF Alone, Running, Stitching, Caching
<1> QED
  BY <1>6, <1>7

\* Calm holds in every reachable state.
LEMMA CalmHolds == Spec => []CalmInv
<1>1. Init => CalmInv
  BY DEF Init, CalmInv, KnownIsWhole, Alone, Running, Stitching, Caching
<1>2. CacheInv /\ CalmInv /\ [Next]_vars => CalmInv'
  <2> SUFFICES ASSUME CacheInv, CalmInv, [Next]_vars
               PROVE  CalmInv'
    OBVIOUS
  <2>1. ASSUME NEW h \in Handlers, WriteFails(h) \/ Stop
        PROVE  CalmInv'
    BY <2>1 DEF WriteFails, Stop, Disturb, CalmInv
  <2>2. CASE ClearCacheMemory
    BY <2>2 DEF ClearCacheMemory, CalmInv, KnownIsWhole, Alone, Missing, Listed, Layers
  <2>3. CASE UNCHANGED vars
    BY <2>3 DEF vars, CalmInv, KnownIsWhole, Alone, Missing, Listed, Layers
  <2>4. Stop => \E h \in Handlers : TRUE
    BY DEF Stop
  <2> QED
    BY <2>1, <2>2, <2>3, <2>4, CalmInside, CalmNegotiate, CalmCreate, CalmWriteOut, CalmEnd
    DEF Next, Transfer
<1> QED
  BY <1>1, <1>2, CacheHolds, PTL DEF Spec

\* What the bucket knows is whole, or being written again (writeCachedLayer and
\* MarkLayersAsOwned, as long as no handler met another or was cut short).
THEOREM WhatIsKnownIsWhole == Spec => []KnownIsWhole
<1>1. CalmInv => KnownIsWhole
  BY DEF CalmInv, KnownIsWhole
<1> QED
  BY <1>1, CalmHolds, PTL

\* Pruning and stitching give Docker what the sender exported, as long as no
\* handler met another or was cut short.
THEOREM CalmTransfersAreWhole == Spec => []WholeIfUndisturbed
<1>1. CacheInv /\ CalmInv => WholeIfUndisturbed
  <2> SUFFICES ASSUME CacheInv, CalmInv, ~disturbed, NEW h \in Handlers, pc[h] = "completed"
               PROVE  ready[h] = tar[h].entries
    BY DEF WholeIfUndisturbed, LoadedIsWhole
  <2>1. ready[h] \subseteq tar[h].entries
    BY DEF CalmInv, Alone
  <2>2. Covered(tar[h], {}, ready[h]) /\ Genuine(tar[h])
    BY TarGenuine DEF CacheInv, HandlerOK, Fits
  <2>3. ASSUME NEW e \in tar[h].entries
        PROVE  e \in ready[h]
    <3>1. PICK f \in ready[h] : f.name = e.name
      BY <2>2 DEF Covered, Names
    <3> QED
      BY <2>1, <2>2, <3>1 DEF Genuine
  <2> QED
    BY <2>1, <2>3
<1> QED
  BY <1>1, CacheHolds, CalmHolds, PTL
=============================================================================
