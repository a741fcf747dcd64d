---------------------------- MODULE MCMetadataTree ----------------------------
(* MetadataTree on small namespaces: the name "b" is "ab" without its first   *)
(* character.                                                                 *)
EXTENDS MetadataTree

Cuts == [n \in Names |-> IF n = "ab" THEN "b" ELSE ""]

Deep == (<<"b">> :> DIR) @@ (<<"b", "b">> :> DIR) @@ (<<"b", "b", "b">> :> FILE) @@ (<<"b", "ab">> :> DIR)
Wide == (<<"b">> :> DIR) @@ (<<"b", "b">> :> DIR) @@ (<<"b", "b", "b">> :> FILE) @@ (<<"b", "b", "ab">> :> FILE)
Flat == (<<"b">> :> DIR) @@ (<<"b", "b">> :> FILE) @@ (<<"ab">> :> DIR)
================================================================================
