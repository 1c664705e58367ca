------------------------------- MODULE Dict -------------------------------
(***************************************************************************)
(* Python dicts and JavaScript Maps as functions whose domain is the set   *)
(* of keys present.  Every store of the system is one of these.            *)
(***************************************************************************)
EXTENDS Functions

\* The dict without a single key.
Empty == [k \in {} |-> k]

\* d[k] = v : a new key is added, an old one is overwritten.
With(d, k, v) == [x \in DOMAIN d \cup {k} |-> IF x = k THEN v ELSE d[x]]

\* d.pop(k, None)
Without(d, k) == Restrict(d, DOMAIN d \ {k})
=============================================================================
