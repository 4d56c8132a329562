---- MODULE MCNif ----
\* The NIF files of the model-checking runs: most are about the scene and have
\* nothing to animate, the last family is about controllers, materials and
\* animations.
EXTENDS NifAnimation

MCObj == 1..6

\* Trees of six objects, by GetParent.
Ups == {<<0, 1, 2, 2, 2, 1>>, <<0, 1, 2, 3, 1, 5>>, <<0, 1, 2, 3, 2, 1>>,
        <<0, 1, 2, 3, 4, 2>>, <<0, 1, 2, 2, 4, 4>>}

\* A tree: every object's parent, and every object over o, o included.
Tree(up) ==
    LET over[o \in MCObj] == IF up[o] = 0 THEN {o} ELSE {o} \cup over[up[o]]
    IN  [up |-> up, over |-> over]
Trees == {Tree(up) : up \in Ups}
Inner(t) == {t.up[o] : o \in MCObj} \ {0}
Leaves(t) == MCObj \ Inner(t)

\* Two skinned shapes on one skeleton; the bones of the first below its root,
\* those of the second any two nodes below it or the root itself, in either order.
\* A second skin without data has one bone.
BoneSeqs(S) == {<<b>> : b \in S} \cup {s \in S \X S : s[1] # s[2]}
Skin(r, s, d) == [root |-> r, bones |-> s, data |-> d]
Skins(t, r, a, b) ==
    LET below  == {n \in MCObj : r \in t.over[n] /\ n # r} \ {a, b}
        first  == {Skin(r, s, TRUE) : s \in BoneSeqs(below)}
        second == first \cup {Skin(r, <<r, n>>, TRUE) : n \in below}
                  \cup {Skin(r, <<n>>, d) : n \in below \cup {r}, d \in BOOLEAN}
    IN  {[o \in MCObj |-> IF o = a THEN s ELSE IF o = b THEN u ELSE NoSkin] :
            s \in first, u \in second}

KindsOf(t, shapes, special, kind, leaf) ==
    [o \in MCObj |-> IF o \in shapes THEN "shape"
                     ELSE IF o = special THEN kind
                     ELSE IF o \in Leaves(t) THEN leaf ELSE "node"]

Vfs == [external |-> TRUE, mask |-> FALSE, loads |-> {"vfs"}]
Mask(places) == [external |-> TRUE, mask |-> TRUE, loads |-> places]
Alpha(b, t, n) == [blend |-> b, test |-> t, threshold |-> n]
Opaque == Alpha(FALSE, FALSE, 0)
Look(base, decal, alpha) ==
    [base |-> base, detail |-> NoTexture, decal |-> decal, alpha |-> alpha]

\* A file with nothing empty, nothing turned and nothing animated; the second
\* child is active.
Plain(t, kind, skin) ==
    [up |-> t.up, over |-> t.over, kind |-> kind, skin |-> skin, active |-> 2,
     empty |-> [o \in MCObj |-> FALSE], prefix |-> [o \in MCObj |-> 0],
     mismatch |-> {}, turn |-> [o \in MCObj |-> 0],
     ctrl |-> [o \in MCObj |-> <<>>],
     props |-> [o \in MCObj |-> Look(Vfs, NoTexture, Opaque)], shader |-> FALSE, kfm |-> <<>>]

Pairs(t) == {<<a, b>> \in Leaves(t) \X Leaves(t) : a < b}
Roots(t, a, b) == t.over[a] \cap t.over[b]

\* Shared skeletons: every choice of bones, the other leaves nodes.
SharedFiles ==
    UNION {UNION {
        LET k == KindsOf(t, {p[1], p[2]}, 0, "node", "node")
        IN  {Plain(t, k, s) : s \in UNION {Skins(t, r, p[1], p[2]) : r \in Roots(t, p[1], p[2])}} :
        p \in Pairs(t)} : t \in Trees}

\* LODs, switches and billboards; the shapes are skinned or not, one may be
\* empty; the other leaves are lights.
OneBone(r, n) == Skin(r, <<n>>, TRUE)
SkinChoices(a, b) ==
    {[o \in MCObj |-> IF o = a THEN s ELSE IF o = b THEN u ELSE NoSkin] :
        s \in {NoSkin, OneBone(1, 2)}, u \in {NoSkin, OneBone(1, 2),
                               [OneBone(2, 3) EXCEPT !.data = FALSE]}}
SkinsInPlace(f) == \A o \in MCObj : f.skin[o].root \in f.over[o] \cup {0}
LevelFiles ==
    UNION {UNION {
        {[Plain(t, KindsOf(t, {p[1], p[2]}, n, k, "light"), s)
                EXCEPT !.empty[p[1]] = e, !.active = i] :
            e \in BOOLEAN, i \in {1, 2}, n \in Inner(t),
            k \in {"lod", "switch", "billboard"}, s \in SkinChoices(p[1], p[2])} :
        p \in Pairs(t)} : t \in Trees}

\* Two skeletons, the second perhaps on a bone of the first.
TwoFiles ==
    UNION {UNION {
        {Plain(t, KindsOf(t, {p[1], p[2]}, 0, "node", "node"),
               [o \in MCObj |-> IF o = p[1] THEN OneBone(r, m)
                                ELSE IF o = p[2] THEN OneBone(3 - r, n) ELSE NoSkin]) :
            r \in {1, 2}, m \in MCObj \ {1, p[1], p[2]}, n \in MCObj \ {1, p[1], p[2]}} :
        p \in Pairs(t)} : t \in Trees}

\* The rotation correction: three shapes on one skeleton, two of them on one
\* node; the prefix of a node, the mismatch of a shape and its R vary.
Turning == Tree(<<0, 1, 2, 2, 1, 5>>)
TurnFiles ==
    {[Plain(Turning, KindsOf(Turning, {3, 4, 6}, 0, "node", "node"),
            [o \in MCObj |-> IF o \in {3, 4, 6} THEN OneBone(1, IF o = 6 THEN 5 ELSE 2)
                             ELSE NoSkin])
        EXCEPT !.prefix[2] = x, !.prefix[5] = y, !.mismatch = m,
               !.turn[3] = v, !.turn[6] = u] :
        x \in {0, 10, 40}, y \in {0, 10, 40}, m \in SUBSET {3, 6},
        v \in {0, 20}, u \in {0, 20, 40}}

\* Animations: node 2 is a bone, with an attachment and a shape below it, or an
\* LOD; both shapes may be skinned.  The last child of the root is a light.
Animated == Tree(<<0, 1, 2, 2, 1, 1>>)
NoSkins == [o \in MCObj |-> NoSkin]
Layouts ==
    {[kind |-> <<"node", k, x, "shape", "shape", "light">>, skin |-> s] :
        k \in {"node", "lod"}, x \in {"node", "shape"},
        s \in {NoSkins, [NoSkins EXCEPT ![4] = OneBone(1, 2)],
               [NoSkins EXCEPT ![4] = OneBone(2, 3)],
               [NoSkins EXCEPT ![4] = OneBone(1, 2), ![5] = OneBone(1, 3)],
               [NoSkins EXCEPT ![4] = OneBone(2, 3), ![5] = OneBone(1, 2)]}}
GoodLayouts == {l \in Layouts : l.kind[3] = "node" \/ \A o \in MCObj : l.skin[o].bones # <<3>>}

\* Opaque, blended and cut out; a team colour mask that loads, over either, and
\* one that does not.
Looks ==
    {Look(Vfs, NoTexture, a) : a \in {Opaque, Alpha(TRUE, FALSE, 0), Alpha(TRUE, TRUE, 128)}}
    \cup {Look(Mask({"nif"}), Vfs, Opaque), Look(Mask({"nif"}), Vfs, Alpha(TRUE, FALSE, 0)),
          Look(Mask({}), Vfs, Opaque)}

C(t, d) == [type |-> t, data |-> d]
Ctrls ==
    {[o \in MCObj |-> IF o = 2 THEN n ELSE IF o \in {4, 5} THEN g ELSE <<>>] :
        n \in {<<>>, <<C("vis", TRUE)>>, <<C("transform", TRUE), C("alpha", TRUE)>>},
        g \in {<<>>, <<C("flip", FALSE)>>, <<C("alpha", TRUE), C("color", TRUE)>>}}

L(o, t) == [target |-> o, type |-> t, data |-> TRUE]
MaterialLinks ==
    <<[ok |-> FALSE, links |-> <<>>],
      [ok |-> TRUE, links |-> <<L(3, "transform"), L(1, "point"), L(4, "float"), L(3, "blend")>>]>>
Kfms ==
    {<<>>,
     <<[ok |-> TRUE, links |-> <<L(2, "transform"), L(3, "transform"), L(2, "bool"), L(0, "float")>>]>>,
     MaterialLinks}

AnimatedFile(l, c, p, s, k) ==
    [Plain(Animated, l.kind, l.skin)
        EXCEPT !.active = 1, !.ctrl = c, !.props = [o \in MCObj |-> p], !.shader = s, !.kfm = k]
\* Every look with the links that animate a shape's material, every list of
\* links with an opaque look.
AnimatedFiles ==
    {AnimatedFile(l, c, Look(Vfs, NoTexture, Opaque), FALSE, k) :
        l \in GoodLayouts, c \in Ctrls, k \in Kfms}
    \cup {AnimatedFile(l, c, p, s, MaterialLinks) :
        l \in GoodLayouts, c \in Ctrls, p \in Looks, s \in BOOLEAN}

MCFiles ==
    {f \in SharedFiles \cup LevelFiles \cup TwoFiles \cup TurnFiles \cup AnimatedFiles : SkinsInPlace(f)}
====
