-------------------------------- MODULE MCVFS --------------------------------
(* An instance of VFS: two installs; a file that is in several archives, once *)
(* spelled differently; a name that three paths share; a directory whose name *)
(* begins with another's; a path that is in no archive.                       *)
EXTENDS VFS, TLC

MCPaths == {"art/a", "ART\\A", "ui/a", "a", "art2/a", "art/c"}
MCNorm == [p \in MCPaths |-> IF p = "ART\\A" THEN "art/a" ELSE p]
MCFileName == [p \in MCPaths |-> IF p = "art/c" THEN "c" ELSE "a"]
MCFpk == [i \in {"bts", "patched"} |->
    IF i = "bts"
    THEN (0 :> <<"art/a">>) @@ (1 :> <<"art2/a", "ui/a">>) @@ (2 :> <<>>) @@ (3 :> <<"ART\\A">>)
    ELSE (0 :> <<"art/a", "ui/a">>) @@ (1 :> <<"art/a">>) @@ (2 :> <<>>) @@ (3 :> <<>>)]
MCPrefixed == [d \in {"art"} |-> {"art/a", "art/c", "art2/a"}]
MCBelow == [d \in {"art"} |-> {"art/a", "art/c"}]
=============================================================================
