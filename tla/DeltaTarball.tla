---------------------------- MODULE DeltaTarball ----------------------------
(***************************************************************************)
(* The delta engine's pure part (internal/transfer: manifest.go,           *)
(* tarball.go, prune.go, stitch.go, cache.go): which entries of an image   *)
(* tarball are left out for a peer, and how they are put back.             *)
(*                                                                         *)
(* A tarball is a record:                                                  *)
(*   manifest  a sequence of items; item.layers are the paths of the       *)
(*             item's layers, item.diffIDs the digests its config file     *)
(*             lists (<<>> when that file cannot be read)                  *)
(*   entries   the layer entries, a set of [name, data]; data is the       *)
(*             digest of the layer stored there                            *)
(* The order of a tar's entries is Docker's choice and nothing here        *)
(* depends on it; entries that are no layers are always copied.            *)
(***************************************************************************)
EXTENDS Naturals, Sequences, FiniteSetsExt

CONSTANTS Paths,    \* names of tar entries
          Digests   \* diff ids: a digest stands for the content it names

Tarball == [manifest : Seq([layers : Seq(Paths), diffIDs : Seq(Digests)]),
            entries : SUBSET [name : Paths, data : Digests]]

\* manifests[i].Layers
LayersAt(t, i) == t.manifest[i].layers

\* GetMainManifestItem fails when no item has a layer.
HasMain(t) == \E i \in DOMAIN t.manifest : LayersAt(t, i) # <<>>

\* GetMainManifestItem: the first of the items with the most layers.
IsMain(t, i) ==
    \A j \in DOMAIN t.manifest :
        /\ Len(LayersAt(t, j)) <= Len(LayersAt(t, i))
        /\ Len(LayersAt(t, j)) = Len(LayersAt(t, i)) => i <= j
GetMainManifestItem(t) == t.manifest[CHOOSE i \in DOMAIN t.manifest : IsMain(t, i)]
MainLayers(t) == GetMainManifestItem(t).layers

\* inspectTarball: an archive whose layers cannot be listed is announced
\* with none.
getLayersFromTarball(t) == IF HasMain(t) THEN GetMainManifestItem(t).diffIDs ELSE <<>>

\* The check of PruneTarball and of buildDigestToPathMap.
CountsMatch(t, all) == HasMain(t) /\ Len(MainLayers(t)) = Len(all)

-----------------------------------------------------------------------------
(* Sender: PruneTarball                                                    *)

\* Mutant: the set turned round.
SkipMissing(t, all, missing) ==
    {MainLayers(t)[i] : i \in {k \in DOMAIN MainLayers(t) : all[k] \in missing}}

buildSkipSet(t, all, missing) ==
    {MainLayers(t)[i] : i \in {k \in DOMAIN MainLayers(t) : all[k] \notin missing}}

PruneTarball(t, all, missing) ==
    [t EXCEPT !.entries = {e \in @ : e.name \notin buildSkipSet(t, all, missing)}]

-----------------------------------------------------------------------------
(* Receiver: StitchTarball and ExtractAndCacheLayers                       *)

\* buildDigestToPathMap assigns in order, so a digest that is listed twice
\* keeps its last path.
PathOf(t, all, d) == MainLayers(t)[Max({i \in DOMAIN all : all[i] = d})]

\* The entry injectOneLayer appends.
Injected(t, all, d, data) == [name |-> PathOf(t, all, d), data |-> data]

\* Mutants: no check of the count; the path taken for the digest.
CanExtractAny(t, all) == t.manifest # <<>>
DigestOfPath(t, all, name) == name

\* buildLayerDigestMap reads the first item of the manifest, not the main one.
CanExtract(t, all) == t.manifest # <<>> /\ Len(LayersAt(t, 1)) = Len(all)
IsLayerPath(t, name) == \E i \in DOMAIN LayersAt(t, 1) : LayersAt(t, 1)[i] = name
DigestOf(t, all, name) == all[Max({i \in DOMAIN LayersAt(t, 1) : LayersAt(t, 1)[i] = name})]

-----------------------------------------------------------------------------
(* What is assumed of an image archive                                     *)

\* Every layer the config lists is stored once, at the path the manifest
\* gives it, and a digest listed twice has one path (archives that name
\* layers by digest do; the older layout, which repeats a layer as a link
\* under a second path, does not).
Genuine(t) ==
    /\ \A e, f \in t.entries : e.name = f.name => e = f
    /\ CountsMatch(t, getLayersFromTarball(t)) =>
         LET all == getLayersFromTarball(t) IN
         /\ \A i \in DOMAIN all : [name |-> MainLayers(t)[i], data |-> all[i]] \in t.entries
         /\ \A i, j \in DOMAIN all : all[i] = all[j] => MainLayers(t)[i] = MainLayers(t)[j]
=============================================================================
