----------------------------- MODULE MCRegistry -----------------------------
(***************************************************************************)
(* Registry for three categories, one of them in two versions, and a check *)
(* slug that two categories share.                                         *)
(***************************************************************************)
EXTENDS Registry

Check(slug, bullet) == [slug |-> slug, bullet |-> bullet]
MCPackages == {[slug |-> "indexing", checks |-> {Check("unused", 1), Check("gin", 2)}],
               [slug |-> "indexing", checks |-> {Check("gin", 2), Check("partial", 7)}],
               [slug |-> "search", checks |-> {Check("gin", 1)}],
               [slug |-> "security", checks |-> {Check("roles", 1)}]}
=============================================================================
