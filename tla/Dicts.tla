------------------------------- MODULE Dicts -------------------------------
(***************************************************************************)
(* Python dictionaries, which every component keeps its tables in: a       *)
(* dictionary is a function whose domain is the set of the present keys.   *)
(***************************************************************************)
EXTENDS Functions

(* f[k] = v                                                                *)
Assoc(f, k, v) == [x \in DOMAIN f \cup {k} |-> IF x = k THEN v ELSE f[x]]

(* del f[k] (also f.pop(k, None): nothing happens if k is absent)          *)
Without(f, k) == Restrict(f, DOMAIN f \ {k})

(* f.get(k, default)                                                       *)
Lookup(f, k, default) == IF k \in DOMAIN f THEN f[k] ELSE default
=============================================================================
