----------------------------- MODULE MCDeltaCache -----------------------------
(* Image archives for TLC: two images that share a layer, one that lists a *)
(* layer twice, one with a larger second image, one without a config.      *)
EXTENDS DeltaCache

CONSTANTS p1, p2, p3, a, b, c

Archive(manifest, entries) == [manifest |-> manifest, entries |-> entries]
Item(layers, diffIDs) == [layers |-> layers, diffIDs |-> diffIDs]
At(p, d) == [name |-> p, data |-> d]

Base == Archive(<<Item(<<p1, p2>>, <<a, b>>)>>, {At(p1, a), At(p2, b)})
Derived == Archive(<<Item(<<p1, p3>>, <<a, c>>)>>, {At(p1, a), At(p3, c)})
Repeated == Archive(<<Item(<<p1, p2, p1>>, <<a, b, a>>)>>, {At(p1, a), At(p2, b)})
Second == Archive(<<Item(<<p3>>, <<c>>), Item(<<p2, p1>>, <<b, a>>)>>,
                  {At(p1, a), At(p2, b), At(p3, c)})
NoConfig == Archive(<<Item(<<p1>>, <<>>)>>, {At(p1, a)})

MCTarballs == {Base, Derived, Repeated, Second, NoConfig}
MCTwo == {Base, Derived}
===============================================================================
