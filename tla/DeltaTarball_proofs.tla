------------------------ MODULE DeltaTarball_proofs ------------------------
(***************************************************************************)
(* What the delta engine's operators do to any archive.                    *)
(***************************************************************************)
EXTENDS DeltaTarball, FiniteSetTheorems, SequenceTheorems, WellFoundedInduction, TLAPS

\* A non-empty set of indices has a greatest one, which Max returns.
LEMMA LastIndex ==
    ASSUME NEW n \in Nat, NEW S \in SUBSET (1..n), S # {}
    PROVE  Max(S) \in S /\ \A i \in S : i <= Max(S)
<1> DEFINE T == {n - i : i \in S}
<1>0. PICK s \in S : TRUE
  OBVIOUS
<1>a. n - s \in T
  BY <1>0
<1>1. T \subseteq Nat /\ T # {}
  <2>1. T \subseteq Nat
    OBVIOUS
  <2> QED BY <1>a, <2>1
<1> HIDE DEF T
<1>2. PICK k \in T : \A j \in T : ~(<<j, k>> \in OpToRel(<, Nat))
  BY <1>1, WFMin, NatLessThanWellFounded, Zenon
<1>3. \A j \in T : ~(j < k)
  BY <1>1, <1>2, Zenon DEF OpToRel
<1>4. PICK i \in S : k = n - i
  BY <1>2 DEF T
<1>5. \A j \in S : n - j \in T
  BY DEF T
<1>6. \A j \in S : ~(n - j < n - i)
  BY <1>3, <1>4, <1>5
<1>7. \A j \in S : i >= j
  BY <1>6
<1> QED
  BY <1>7 DEF Max

\* Among finitely many indices one has the longest sequence, and is the first
\* such: those that beat or tie it are fewest.
LEMMA FirstLongest ==
    ASSUME NEW m \in Nat, m # 0, NEW len \in [1..m -> Nat]
    PROVE  \E i \in 1..m : \A j \in 1..m :
              len[j] <= len[i] /\ (len[j] = len[i] => i <= j)
<1> DEFINE D == 1..m
           Up(i) == {j \in D : len[j] > len[i] \/ (len[j] = len[i] /\ j <= i)}
           Ups == {Up(i) : i \in D}
<1>1. IsFiniteSet(D)
  BY FS_Interval
<1>2. Ups \subseteq FiniteSubsetsOf(D)
  BY <1>1, FS_Subset, FS_FiniteSubsetsOfFinite
<1>3. Ups # {}
  <2>1. Up(1) \in Ups
    OBVIOUS
  <2> QED BY <2>1
<1>4. PICK A \in Ups : \A B \in Ups : ~(<<B, A>> \in StrictSubsetOrdering(D))
  <2> HIDE DEF Ups, D
  <2> QED BY <1>2, <1>3, FS_StrictSubsetOrderingWellFounded, WFMin, Zenon
<1>5. PICK i \in D : A = Up(i)
  BY <1>4
<1>6. ASSUME NEW j \in D, len[j] > len[i] \/ (len[j] = len[i] /\ j < i)
      PROVE  FALSE
  <2>1. Up(j) \subseteq Up(i) /\ i \in Up(i) /\ i \notin Up(j)
    BY <1>6
  <2>2. Up(j) \in Ups /\ Up(j) \subseteq D /\ Up(i) \subseteq D
    OBVIOUS
  <2> HIDE DEF Up, Ups, D
  <2>3. <<Up(j), Up(i)>> \in StrictSubsetOrdering(D)
    BY <2>1, <2>2 DEF StrictSubsetOrdering
  <2> QED
    BY <1>4, <1>5, <2>2, <2>3
<1>7. \A j \in D : len[j] <= len[i] /\ (len[j] = len[i] => i <= j)
  <2> SUFFICES ASSUME NEW j \in D PROVE len[j] <= len[i] /\ (len[j] = len[i] => i <= j)
    OBVIOUS
  <2>1. ~(len[j] > len[i]) /\ ~(len[j] = len[i] /\ j < i)
    BY <1>6
  <2>2. len[i] \in Nat /\ len[j] \in Nat /\ i \in Nat /\ j \in Nat
    BY <1>5
  <2> QED
    BY ONLY <2>1, <2>2
<1> QED
  BY <1>5, <1>7

\* An archive with layers has a main item, one of its manifest.
LEMMA MainExists ==
    ASSUME NEW t \in Tarball, HasMain(t)
    PROVE  \E i \in DOMAIN t.manifest : IsMain(t, i) /\ GetMainManifestItem(t) = t.manifest[i]
<1> DEFINE m == Len(t.manifest)
           len == [i \in 1..m |-> Len(LayersAt(t, i))]
<1>1. t.manifest \in Seq([layers : Seq(Paths), diffIDs : Seq(Digests)])
  BY DEF Tarball
<1>2. m \in Nat /\ DOMAIN t.manifest = 1..m /\ m # 0
  BY <1>1 DEF HasMain
<1>3. \A i \in 1..m : LayersAt(t, i) \in Seq(Paths)
  <2>1. \A i \in 1..m : t.manifest[i] \in [layers : Seq(Paths), diffIDs : Seq(Digests)]
    BY <1>1, ElementOfSeq
  <2> QED
    BY <2>1, Zenon DEF LayersAt
<1>4. len \in [1..m -> Nat]
  BY <1>3
<1>5. \E i \in 1..m : IsMain(t, i)
  <2> HIDE DEF len
  <2>1. PICK i \in 1..m : \A j \in 1..m : len[j] <= len[i] /\ (len[j] = len[i] => i <= j)
    BY <1>2, <1>4, FirstLongest
  <2> QED
    BY <1>2, <2>1 DEF IsMain, len
<1> QED
  BY <1>2, <1>5 DEF GetMainManifestItem

\* What an archive that passes the count check is made of.
LEMMA MainTyped ==
    ASSUME NEW t \in Tarball, NEW all, all = getLayersFromTarball(t), CountsMatch(t, all)
    PROVE  /\ MainLayers(t) \in Seq(Paths) /\ all \in Seq(Digests)
           /\ Len(all) \in Nat
           /\ DOMAIN MainLayers(t) = 1..Len(all) /\ DOMAIN all = 1..Len(all)
<1>1. HasMain(t)
  BY DEF CountsMatch
<1>2. PICK i \in DOMAIN t.manifest : GetMainManifestItem(t) = t.manifest[i]
  BY <1>1, MainExists
<1>3. GetMainManifestItem(t) \in [layers : Seq(Paths), diffIDs : Seq(Digests)]
  <2>1. t.manifest \in Seq([layers : Seq(Paths), diffIDs : Seq(Digests)])
    BY DEF Tarball
  <2>2. i \in 1..Len(t.manifest)
    BY <2>1
  <2>3. t.manifest[i] \in [layers : Seq(Paths), diffIDs : Seq(Digests)]
    BY <2>1, <2>2, ElementOfSeq
  <2> QED
    BY <1>2, <2>3
<1>4. MainLayers(t) \in Seq(Paths) /\ all \in Seq(Digests)
  BY <1>1, <1>3 DEF MainLayers, getLayersFromTarball
<1> QED
  BY <1>4 DEF CountsMatch

\* The digest a receiver asks to inject goes to a path that holds that digest.
LEMMA PathOfEntry ==
    ASSUME NEW t \in Tarball, Genuine(t), NEW all, all = getLayersFromTarball(t),
           CountsMatch(t, all), NEW i \in DOMAIN all
    PROVE  PathOf(t, all, all[i]) = MainLayers(t)[i] /\ Injected(t, all, all[i], all[i]) \in t.entries
<1> DEFINE S == {j \in DOMAIN all : all[j] = all[i]}
<1>1. Max(S) \in S
  BY MainTyped, LastIndex
<1>2. /\ [name |-> MainLayers(t)[i], data |-> all[i]] \in t.entries
      /\ \A j \in DOMAIN all : all[i] = all[j] => MainLayers(t)[i] = MainLayers(t)[j]
  BY DEF Genuine
<1> QED
  BY <1>1, <1>2 DEF PathOf, Injected

\* "Smart layer pruning and stitching": whatever layers the receiver lacks, what the
\* sender prunes for it and it stitches with whole layers has the entries of the
\* sender's archive (PruneTarball and StitchTarball undo each other).
THEOREM RoundTrip ==
    ASSUME NEW t \in Tarball, Genuine(t), NEW all, all = getLayersFromTarball(t),
           CountsMatch(t, all), NEW missing
    PROVE  PruneTarball(t, all, missing).entries
             \cup {Injected(t, all, d, d) : d \in {all[i] : i \in DOMAIN all} \ missing}
           = t.entries
<1> DEFINE pruned == PruneTarball(t, all, missing).entries
           inserted == {Injected(t, all, d, d) : d \in {all[i] : i \in DOMAIN all} \ missing}
<1>1. pruned = {e \in t.entries : e.name \notin buildSkipSet(t, all, missing)}
  BY DEF PruneTarball, Tarball
<1>2. inserted \subseteq t.entries
  BY PathOfEntry
<1>3. ASSUME NEW e \in t.entries, e.name \in buildSkipSet(t, all, missing)
      PROVE  e \in inserted
  <2>1. PICK i \in DOMAIN all : e.name = MainLayers(t)[i] /\ all[i] \notin missing
    BY <1>3, MainTyped DEF buildSkipSet
  <2>2. /\ Injected(t, all, all[i], all[i]) \in t.entries
        /\ Injected(t, all, all[i], all[i]).name = e.name
    BY <2>1, PathOfEntry DEF Injected
  <2>3. e = Injected(t, all, all[i], all[i])
    BY <2>2 DEF Genuine
  <2> QED
    BY <2>1, <2>3
<1> QED
  BY <1>1, <1>2, <1>3

\* What PruneTarball sends: of the main item's layers exactly the missing ones
\* (a layer in two places of the list is not lost to the skip set, none is
\* sent for nothing), and every entry that is no such layer.
THEOREM PrunedSendsMissing ==
    ASSUME NEW t \in Tarball, Genuine(t), NEW all, all = getLayersFromTarball(t),
           CountsMatch(t, all), NEW missing, NEW e \in t.entries
    PROVE  e \in PruneTarball(t, all, missing).entries
             <=> \/ e.data \in missing
                 \/ \A i \in DOMAIN MainLayers(t) : MainLayers(t)[i] # e.name
<1> DEFINE skip == buildSkipSet(t, all, missing)
<1>1. e \in PruneTarball(t, all, missing).entries <=> e.name \notin skip
  BY DEF PruneTarball, Tarball
<1>2. DOMAIN MainLayers(t) = DOMAIN all
  BY MainTyped
<1>3. ASSUME NEW i \in DOMAIN all, MainLayers(t)[i] = e.name PROVE all[i] = e.data
  <2>1. [name |-> MainLayers(t)[i], data |-> all[i]] \in t.entries
    BY DEF Genuine
  <2>2. [name |-> MainLayers(t)[i], data |-> all[i]] = e
    BY <1>3, <2>1 DEF Genuine
  <2> QED
    BY <2>2
<1>4. e.name \in skip <=> \E i \in DOMAIN MainLayers(t) : all[i] \notin missing /\ MainLayers(t)[i] = e.name
  BY Zenon DEF buildSkipSet
<1> HIDE DEF skip
<1>5. e.name \in skip <=> /\ e.data \notin missing
                          /\ \E i \in DOMAIN MainLayers(t) : MainLayers(t)[i] = e.name
  <2>1. ASSUME e.name \in skip
        PROVE  e.data \notin missing /\ \E i \in DOMAIN MainLayers(t) : MainLayers(t)[i] = e.name
    <3>1. PICK i \in DOMAIN MainLayers(t) : all[i] \notin missing /\ MainLayers(t)[i] = e.name
      BY <1>4, <2>1, Zenon
    <3>2. all[i] = e.data
      BY <1>2, <1>3, <3>1, Zenon
    <3> QED
      BY <3>1, <3>2, Zenon
  <2>2. ASSUME e.data \notin missing, NEW i \in DOMAIN MainLayers(t), MainLayers(t)[i] = e.name
        PROVE  e.name \in skip
    <3>1. all[i] = e.data
      BY <1>2, <1>3, <2>2, Zenon
    <3> QED
      BY <1>4, <2>2, <3>1, Zenon
  <2> QED
    BY <2>1, <2>2, Zenon
<1> QED
  BY <1>1, <1>5, Zenon

\* The first manifest item has as many layers as the main one only if it is the main
\* one, so the cache is filled by the paths the delta was computed with.
LEMMA ExtractUsesMain ==
    ASSUME NEW t \in Tarball, NEW all, all = getLayersFromTarball(t),
           CountsMatch(t, all), CanExtract(t, all)
    PROVE  LayersAt(t, 1) = MainLayers(t)
<1>1. HasMain(t)
  BY DEF CountsMatch
<1>2. PICK i \in DOMAIN t.manifest : IsMain(t, i) /\ GetMainManifestItem(t) = t.manifest[i]
  BY <1>1, MainExists
<1>3. 1 \in DOMAIN t.manifest /\ i >= 1 /\ i \in Nat
  BY <1>2 DEF CanExtract, Tarball
<1>4. Len(LayersAt(t, 1)) = Len(LayersAt(t, i))
  BY <1>2 DEF CanExtract, CountsMatch, MainLayers, LayersAt
<1>5. i <= 1
  BY <1>2, <1>3, <1>4 DEF IsMain
<1> QED
  BY <1>2, <1>3, <1>5 DEF MainLayers, LayersAt

\* A layer is cached under the digest of what it holds, though the cache reads
\* the first manifest item (buildLayerDigestMap) and the delta the main one.
THEOREM DigestOfEntry ==
    ASSUME NEW t \in Tarball, Genuine(t), NEW all, all = getLayersFromTarball(t),
           CountsMatch(t, all), CanExtract(t, all),
           NEW e \in t.entries, IsLayerPath(t, e.name)
    PROVE  DigestOf(t, all, e.name) = e.data
<1> DEFINE S == {i \in DOMAIN LayersAt(t, 1) : LayersAt(t, 1)[i] = e.name}
<1>1. LayersAt(t, 1) = MainLayers(t)
  BY ExtractUsesMain
<1>2. DOMAIN MainLayers(t) = 1..Len(all) /\ DOMAIN all = 1..Len(all) /\ Len(all) \in Nat
  BY MainTyped
<1>3. S \in SUBSET (1..Len(all)) /\ S # {}
  BY <1>1, <1>2 DEF IsLayerPath
<1>4. Max(S) \in S
  BY <1>2, <1>3, LastIndex
<1> DEFINE i == Max(S)
<1>5. [name |-> MainLayers(t)[i], data |-> all[i]] \in t.entries /\ MainLayers(t)[i] = e.name
  BY <1>1, <1>2, <1>4 DEF Genuine
<1>6. e = [name |-> MainLayers(t)[i], data |-> all[i]]
  BY <1>5 DEF Genuine
<1> QED
  BY <1>6 DEF DigestOf
=============================================================================
