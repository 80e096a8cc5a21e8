----------------------------- MODULE DeltaCache -----------------------------
(***************************************************************************)
(* The receiver's layer cache (internal/transfer: receiver.go, stitch.go,  *)
(* cache.go) under the handlers that share it.                             *)
(*                                                                         *)
(* Every connection has a goroutine. It asks the KnownLayers bucket which  *)
(* layers are owned, receives the others, stitches the owned ones in from  *)
(* their files, writes EVERY layer of the result back to its file, and     *)
(* only then marks the layers it was missing. The bucket is transactional, *)
(* the files are truncated in place, and nothing orders the handlers.      *)
(* The temporary tarballs are named after the image's hash; two handlers   *)
(* that run at once are taken to have different images.                    *)
(* A layer file is its digest (whole), Torn (cut short, or with a hole) or *)
(* None.                                                                   *)
(***************************************************************************)
EXTENDS DeltaTarball

CONSTANTS Handlers,   \* connections, each with its goroutine
          Tarballs,   \* what the peers may send
          None,       \* a layer file that does not exist
          Torn,       \* data cut short or not yet all written
          MayFail     \* may writes fail and the daemon stop?

ASSUME TarballAssumption == Tarballs \subseteq {t \in Tarball : Genuine(t)}
ASSUME DataAssumption == /\ None \notin Digests /\ Torn \notin Digests /\ None # Torn
                         /\ MayFail \in BOOLEAN

VARIABLES known,      \* the bucket KnownLayers
          file,       \* layers/<digest>/layer.tar
          mix,        \* what has been written to it since nobody was writing
          pc,         \* where each handler is
          tar,        \* the sender's full tarball
          owned,      \* alreadyOwnedLayers
          todo,       \* the owned layers not yet stitched in
          cur, seen,  \* the layer at hand, and its file when it was opened
          ready,      \* the entries of the reconstructed tarball
          rest,       \* those not yet written to the cache
          disturbed   \* history: handlers met, a write failed or the daemon stopped

vars == <<known, file, mix, pc, tar, owned, todo, cur, seen, ready, rest, disturbed>>

Data == Digests \cup {Torn}
Running == {"waiting", "stitch", "copy", "cache", "write"}
Stored == [name : Paths, data : Data]

Layers(h) == getLayersFromTarball(tar[h])
Listed(h) == {Layers(h)[i] : i \in DOMAIN Layers(h)}
Missing(h) == Listed(h) \ owned[h]
OthersRun(h) == \E g \in Handlers \ {h} : pc[g] \in Running
OthersWrite(h, d) == \E g \in Handlers \ {h} : pc[g] = "write" /\ cur[g] = d
Goto(h, l) == pc' = [pc EXCEPT ![h] = l]
Disturb(happened) == disturbed' = (disturbed \/ happened)

TypeOK ==
    /\ known \subseteq Digests
    /\ file \in [Digests -> Data \cup {None}]
    /\ mix \in [Digests -> SUBSET Data]
    /\ pc \in [Handlers -> Running \cup {"idle", "completed", "failed"}]
    /\ tar \in [Handlers -> Tarballs]
    /\ owned \in [Handlers -> SUBSET Digests]
    /\ todo \in [Handlers -> SUBSET Digests]
    /\ cur \in [Handlers -> Digests \cup {None}]
    /\ seen \in [Handlers -> Data]
    /\ ready \in [Handlers -> SUBSET Stored]
    /\ rest \in [Handlers -> SUBSET Stored]
    /\ disturbed \in BOOLEAN

\* A daemon that starts after transfers that all went well.
Init ==
    /\ known \in SUBSET Digests
    /\ file = [d \in Digests |-> IF d \in known THEN d ELSE None]
    /\ mix = [d \in Digests |-> {}]
    /\ pc = [h \in Handlers |-> "idle"]
    /\ tar \in [Handlers -> Tarballs]
    /\ owned = [h \in Handlers |-> {}]
    /\ todo = owned
    /\ cur = [h \in Handlers |-> None]
    /\ seen = [h \in Handlers |-> Torn]
    /\ ready = [h \in Handlers |-> {}]
    /\ rest = ready
    /\ disturbed = FALSE

-----------------------------------------------------------------------------
(* Which layers are sent                                                   *)

\* partitionLayers: one HasLayer for each layer of the request.
partitionLayers(h) == Listed(h) \cap known

Negotiate(h) ==
    /\ pc[h] = "idle"
    /\ \A g \in Handlers \ {h} : pc[g] \in Running => tar[g] # tar[h]
    /\ owned' = [owned EXCEPT ![h] = partitionLayers(h)]
    /\ Goto(h, "waiting")
    /\ Disturb(OthersRun(h))
    /\ UNCHANGED <<known, file, mix, tar, todo, cur, seen, ready, rest>>

\* The sender prunes and sends, and the receiver has copied the entries of
\* the pruned tarball; or the layer counts do not match and nothing comes.
Receive(h) ==
    /\ pc[h] = "waiting"
    /\ CountsMatch(tar[h], Layers(h))
    /\ ready' = [ready EXCEPT ![h] = PruneTarball(tar[h], Layers(h), Missing(h)).entries]
    /\ todo' = [todo EXCEPT ![h] = owned[h]]
    /\ Goto(h, "stitch")
    /\ UNCHANGED <<known, file, mix, tar, owned, cur, seen, rest, disturbed>>

\* So ends every error before the cache is written.
TransferFails(h) ==
    /\ \/ pc[h] = "waiting" /\ ~CountsMatch(tar[h], Layers(h))
       \/ pc[h] \in {"waiting", "stitch", "copy"} /\ MayFail
    /\ Goto(h, "failed")
    /\ UNCHANGED <<known, file, mix, tar, owned, todo, cur, seen, ready, rest, disturbed>>

-----------------------------------------------------------------------------
(* Stitching                                                               *)

\* injectOneLayer opens the file and takes its size for the header.
OpenLayer(h) ==
    /\ pc[h] = "stitch"
    /\ \E d \in todo[h] :
        /\ cur' = [cur EXCEPT ![h] = d]
        /\ \/ /\ file[d] # None
              /\ seen' = [seen EXCEPT ![h] = file[d]]
              /\ Goto(h, "copy")
           \/ /\ file[d] = None
              /\ Goto(h, "failed")
              /\ UNCHANGED seen
    /\ UNCHANGED <<known, file, mix, tar, owned, todo, ready, rest, disturbed>>

\* io.Copy into an entry of the size seen. A file cut short copies well;
\* one that shrank since is only noticed when another entry follows, one
\* that grew always is.
CopyLayer(h) ==
    LET d == cur[h] IN
    /\ pc[h] = "copy"
    /\ ready' = [ready EXCEPT ![h] = @ \cup {Injected(tar[h], Layers(h), d, file[d])}]
    /\ todo' = [todo EXCEPT ![h] = @ \ {d}]
    /\ Goto(h, "stitch")
    /\ UNCHANGED <<known, file, mix, tar, owned, cur, seen, rest, disturbed>>

CopyFails(h) ==
    /\ pc[h] = "copy"
    /\ seen[h] # file[cur[h]] \/ OthersWrite(h, cur[h])
    /\ Goto(h, "failed")
    /\ UNCHANGED <<known, file, mix, tar, owned, todo, cur, seen, ready, rest, disturbed>>

\* updateCacheAndLedger: with nothing missing, or with a manifest whose
\* first item is not the image, the cache is left alone.
Stitched(h) ==
    /\ pc[h] = "stitch"
    /\ todo[h] = {}
    /\ \/ /\ Missing(h) # {} /\ CanExtract(tar[h], Layers(h))
          /\ rest' = [rest EXCEPT ![h] = {e \in ready[h] : IsLayerPath(tar[h], e.name)}]
          /\ Goto(h, "cache")
       \/ /\ Missing(h) = {} \/ ~CanExtract(tar[h], Layers(h))
          /\ Goto(h, "completed")
          /\ UNCHANGED rest
    /\ UNCHANGED <<known, file, mix, tar, owned, todo, cur, seen, ready, disturbed>>

-----------------------------------------------------------------------------
(* Writing the cache                                                       *)

\* os.Create truncates what is there, owned or not.
CreateFile(h) ==
    /\ pc[h] = "cache"
    /\ \E e \in rest[h] :
         LET d == DigestOf(tar[h], Layers(h), e.name) IN
         /\ rest' = [rest EXCEPT ![h] = @ \ {e}]
         /\ cur' = [cur EXCEPT ![h] = d]
         /\ seen' = [seen EXCEPT ![h] = e.data]
         /\ file' = [file EXCEPT ![d] = Torn]
         /\ mix' = [mix EXCEPT ![d] = {e.data} \cup IF OthersWrite(h, d) THEN @ ELSE {}]
    /\ Goto(h, "write")
    /\ UNCHANGED <<known, tar, owned, todo, ready, disturbed>>

\* Handlers that write the same layer share one file: it is whole when the
\* last is done and all wrote the same.
WriteOut(h) ==
    LET d == cur[h] IN
    /\ pc[h] = "write"
    /\ \E x \in IF OthersWrite(h, d) THEN {Torn}
                ELSE IF mix[d] = {seen[h]} THEN {seen[h]} ELSE mix[d] \cup {Torn} :
         file' = [file EXCEPT ![d] = x]
    /\ Goto(h, "cache")
    /\ UNCHANGED <<known, mix, tar, owned, todo, cur, seen, ready, rest, disturbed>>

\* Mutant: an extraction error that does not return.
CacheFailsMarked(h) ==
    /\ MayFail
    /\ pc[h] = "cache"
    /\ known' = known \cup Missing(h)
    /\ Goto(h, "completed")
    /\ UNCHANGED <<file, mix, tar, owned, todo, cur, seen, ready, rest, disturbed>>

\* An error only ends the extraction; the transfer completes unmarked.
CacheFails(h) ==
    /\ MayFail
    /\ pc[h] = "cache"
    /\ Goto(h, "completed")
    /\ UNCHANGED <<known, file, mix, tar, owned, todo, cur, seen, ready, rest, disturbed>>

WriteFails(h) ==
    /\ MayFail
    /\ pc[h] = "write"
    /\ mix' = [mix EXCEPT ![cur[h]] = @ \cup {Torn}]
    /\ Goto(h, "completed")
    /\ Disturb(TRUE)
    /\ UNCHANGED <<known, file, tar, owned, todo, cur, seen, ready, rest>>

\* Mutants: marking before the files are written; marking what was owned too.
MarkEarly(h) ==
    /\ pc[h] = "cache"
    /\ known' = known \cup Missing(h)
    /\ Goto(h, "completed")
    /\ UNCHANGED <<file, mix, tar, owned, todo, cur, seen, ready, rest, disturbed>>

MarkAll(h) ==
    /\ pc[h] = "cache"
    /\ rest[h] = {}
    /\ known' = known \cup Listed(h)
    /\ Goto(h, "completed")
    /\ UNCHANGED <<file, mix, tar, owned, todo, cur, seen, ready, rest, disturbed>>

\* MarkLayersAsOwned, in one transaction.
MarkLayersAsOwned(h) ==
    /\ pc[h] = "cache"
    /\ rest[h] = {}
    /\ known' = known \cup Missing(h)
    /\ Goto(h, "completed")
    /\ UNCHANGED <<file, mix, tar, owned, todo, cur, seen, ready, rest, disturbed>>

-----------------------------------------------------------------------------
(* The rest of the daemon                                                  *)

\* Garbage collection of everything: the bucket is emptied, the files stay.
ClearCacheMemory ==
    /\ known # {}
    /\ known' = {}
    /\ UNCHANGED <<file, mix, pc, tar, owned, todo, cur, seen, ready, rest, disturbed>>

\* The daemon does not wait for its handlers when it stops.
Stop ==
    /\ MayFail
    /\ \E h \in Handlers : pc[h] \in Running
    /\ pc' = [h \in Handlers |-> IF pc[h] \in Running THEN "failed" ELSE pc[h]]
    /\ Disturb(TRUE)
    /\ UNCHANGED <<known, file, mix, tar, owned, todo, cur, seen, ready, rest>>

Transfer(h) ==
    \/ Negotiate(h) \/ Receive(h) \/ TransferFails(h)
    \/ OpenLayer(h) \/ CopyLayer(h) \/ CopyFails(h) \/ Stitched(h)
    \/ CreateFile(h) \/ WriteOut(h) \/ WriteFails(h) \/ CacheFails(h) \/ MarkLayersAsOwned(h)
Next == (\E h \in Handlers : Transfer(h)) \/ ClearCacheMemory \/ Stop

Spec == Init /\ [][Next]_vars

-----------------------------------------------------------------------------
(* Properties                                                              *)

\* A layer a handler counts on has a file: it was marked only after every
\* file was written, and no garbage collection removes one.
OwnedOpens == \A h \in Handlers :
    pc[h] \in {"waiting", "stitch", "copy"} => \A d \in owned[h] : file[d] # None

\* Whatever else runs, fails or stops, a tarball handed to Docker has every
\* layer of the sender's under its own path, and can differ from it only in
\* layers that were not sent and whose cached file was torn.
DamageConfined == \A h \in Handlers :
    pc[h] = "completed" =>
        /\ {e.name : e \in ready[h]} = {e.name : e \in tar[h].entries}
        /\ \A e \in ready[h] \ tar[h].entries :
             /\ e.data = Torn
             /\ \E d \in owned[h] : e.name = PathOf(tar[h], Layers(h), d)

\* "stitches the full tarball back together": what is handed to Docker is
\* what the sender exported.
LoadedIsWhole == \A h \in Handlers :
    pc[h] = "completed" => ready[h] = tar[h].entries

\* It is, as long as handlers never met and none was cut short ...
WholeIfUndisturbed == ~disturbed => LoadedIsWhole

\* ... and then what the bucket knows is whole, or being written again.
KnownIsWhole == ~disturbed =>
    \A d \in known : file[d] = d \/ \E h \in Handlers : pc[h] = "write" /\ cur[h] = d

\* A layer becomes known only by the handler that was sent it.
OnlySentIsMarked == [][\A d \in known' \ known :
    \E h \in Handlers : d \in Missing(h) /\ pc[h] = "cache" /\ pc'[h] = "completed"]_vars
=============================================================================
