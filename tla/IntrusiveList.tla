--------------------------- MODULE IntrusiveList ---------------------------
(***************************************************************************)
(* The lk/list.h lists of the services, as sequences.  The list library is *)
(* not part of this repository; it is modelled from how hwkey_srv.c and    *)
(* hwrng_srv.c use it: list_add_tail is Append, a walk visits the entries  *)
(* in order, and list_delete, also from inside list_for_every_entry_safe,  *)
(* leaves the other entries in their order.                                *)
(*                                                                         *)
(* Results are sets with at most one element (the first match, the list    *)
(* that remains), so that an action quantifies over them and a proof never *)
(* has to show first that the element exists.                              *)
(***************************************************************************)
EXTENDS Naturals, Sequences

\* The smallest index in I: where list_for_every_entry stops when it returns
\* at the first entry that satisfies a test.
FirstOf(I) == {i \in I : \A j \in I : i <= j}

\* The increasing enumerations of the index set K, K \subseteq 1..n.
Enumerations(K, n) ==
    {f \in UNION {[1..m -> K] : m \in 0..n} :
        /\ \A i, j \in DOMAIN f : i < j => f[i] < f[j]
        /\ \A k \in K : \E i \in DOMAIN f : f[i] = k}

\* The list that remains of s when exactly the entries at indices K stay.
Keeping(s, K) ==
    {[i \in DOMAIN f |-> s[f[i]]] : f \in Enumerations(K, Len(s))}
=============================================================================
