----------------------------- MODULE NifMaterial -----------------------------
(***************************************************************************)
(* nif_materials.cpp: how a texture is found and which material a shape's   *)
(* properties become.  Colours and factors are left out; the slots, the     *)
(* transparency mode, the culled faces and the kind of material are kept.   *)
(***************************************************************************)
EXTENDS Integers, Sequences

\* A texture slot of a NiTexturingProperty: whether the source is a file of
\* its own, whether its name holds "teamcolor", and where it loads from.
NoTexture == [external |-> FALSE, mask |-> FALSE, loads |-> {}]

\* load_dds_texture: the VFS, then the directory of the NIF, Assets and the
\* game's root.  A file that exists but does not load is passed over.  The
\* cache repeats the answer, also the empty one.
Places == <<"vfs", "nif", "assets", "base">>
LoadDds(t) == SelectSeq(Places, LAMBDA p : p \in t.loads)
Loaded(t) == t.external /\ LoadDds(t) # <<>>

\* TeamColor in the base map counts only beside a decal.
MaskedBase(p) == p.base.external /\ p.base.mask /\ p.decal # NoTexture
DarkMap(p) == MaskedBase(p) /\ Loaded(p.base)

AlbedoSlots(p) ==
    IF MaskedBase(p) THEN <<"detail", "decal">> ELSE <<"base", "detail", "decal">>
\* The first slot whose texture loads, or "none".
Albedo(p) ==
    LET ok == SelectSeq(AlbedoSlots(p), LAMBDA s : Loaded(p[s]))
    IN  IF ok = <<>> THEN "none" ELSE Head(ok)

Transparency(p) ==
    IF p.alpha.test /\ p.alpha.threshold > 0 THEN "scissor"
    ELSE IF p.alpha.blend /\ ~p.alpha.test /\ ~DarkMap(p) THEN "alpha"
    ELSE "disabled"

\* What NiStencilProperty sets is set again before the material is returned.
Cull(p) == "back"

\* A shape with a team colour mask gets the shader, if the shader loads.
Material(p, shaderLoads) ==
    IF DarkMap(p) /\ shaderLoads
    THEN [kind |-> "shader", albedo |-> Albedo(p), transparency |-> "shader", cull |-> "shader"]
    ELSE [kind |-> "standard", albedo |-> Albedo(p),
          transparency |-> Transparency(p), cull |-> Cull(p)]
=============================================================================
