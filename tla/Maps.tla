---------------------------------- MODULE Maps ----------------------------------
(***************************************************************************)
(* Storage maps as functions of the keys that have an entry.                *)
(***************************************************************************)

Nothing == [x \in {} |-> 0]
Put(f, x, value) == [y \in DOMAIN f \cup {x} |-> IF y = x THEN value ELSE f[y]]
Drop(f, x) == [y \in DOMAIN f \ {x} |-> f[y]]
================================================================================
