---- MODULE MCFrontEnd ----
\* Two sessions of the game; small archives, byte by byte; three assets.
EXTENDS FrontEnd

Word32(n) == <<n % 256, (n \div 256) % 256, 0, 0>>
Up1(s) == [i \in DOMAIN s |-> s[i] + 1]

\* "art\x", "art\xcart", "art" and "b": one that has the marker twice, one that
\* is nothing else, one that has none.
Art == <<97, 114, 116>>
Names == {Art \o <<92, 120>>, Art \o <<92, 120, 99>> \o Art, Art, <<98>>}
Sigs == {[i \in 1..4 |-> 7], [i \in 1..15 |-> 7], [i \in 1..16 |-> 7]}
Datas == {<<5, 6>>, <<1, 2, 3>>, Up1(Art), EndOfList \o <<9>>}

File == [name : Names, sig : Sigs, data : Datas]
ListLength(fs) == FoldLeft(LAMBDA n, f : n + 4 + Len(f.name) + Len(f.sig) + 8, 4, fs)
Offset(fs, k) == ListLength(fs) + FoldLeft(LAMBDA n, f : n + Len(f.data), 0, SubSeq(fs, 1, k - 1))
Listed(fs, k) ==
    Word32(Len(fs[k].name)) \o Up1(fs[k].name) \o fs[k].sig
    \o Word32(Len(fs[k].data)) \o Word32(Offset(fs, k))
Pack(fs) ==
    [magic |-> TRUE,
     bytes |-> FoldLeft(LAMBDA s, k : s \o Listed(fs, k), <<>>, [k \in DOMAIN fs |-> k])
               \o EndOfList \o <<0>> \o FoldLeft(LAMBDA s, f : s \o f.data, <<>>, fs),
     entries |-> [k \in DOMAIN fs |-> [name |-> fs[k].name, data |-> fs[k].data,
                                      at |-> ListLength(SubSeq(fs, 1, k - 1)) - 4]],
     first |-> ListLength(fs)]

\* Two files with every pair of names and signatures, or with every pair of
\* data; and a file that is no archive.
Pairs ==
    {g \in [1..2 -> File] : g[1].name # g[2].name /\ g[1].data # Up1(Art)
        /\ \/ g[1].data = <<5, 6>> /\ g[2].data = <<5, 6>> /\ g[1].sig = g[2].sig
           \/ g[1].data = <<1, 2, 3>> /\ g[2].data = <<5, 6>>
              /\ g[1].name = Art \o <<92, 120>> /\ g[2].name = Art
           \/ g[1].sig = g[2].sig /\ Len(g[1].sig) = 4
              /\ g[1].name = <<98>> /\ g[2].name = Art}
MCArchives ==
    {Pack(fs) : fs \in Pairs}
    \cup {[Pack(<<[name |-> Art, sig |-> <<7>>, data |-> <<5>>]>>) EXCEPT !.magic = FALSE]}

MCFontSets == {{"arial", "sylfaen"}, {"arial"}, {"sylfaen"}}
MCListings == {<<"axeman", "bomb", "tree">>, <<"tree">>, <<>>}
MCTargets == <<"sunlight", "bomb">>
\* A unit whose scene controllers play from the start and that has clips of a
\* .kfm; one with two clips; one without players.
Players(c, p) == [clips |-> c, plays |-> p]
MCScenes ==
    [axeman |-> [meshes |-> {"body", "axe"}, bones |-> TRUE,
                 players |-> <<Players(<<"scene">>, "scene"), Players(<<"walk">>, None)>>],
     bomb |-> [meshes |-> {"body"}, bones |-> FALSE, players |-> <<Players(<<"fall", "lie">>, None)>>],
     tree |-> [meshes |-> {"body"}, bones |-> FALSE, players |-> <<>>]]
====
