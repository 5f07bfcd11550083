---------------------------- MODULE IntentFilter ----------------------------
(***************************************************************************)
(* FilterObject, which cuts an object down to the fields the controller has  *)
(* an opinion on before it is applied, and FilterIntent, the recursion over  *)
(* nested maps it is made of (also used on the managed fields of an object). *)
(*                                                                         *)
(* An object is the set of its field paths, closed under prefixes, together  *)
(* with those of them that are maps; a value that is no map is a leaf.  The   *)
(* algorithm is compared with a definition that looks at whole paths, on      *)
(* every small object.                                                       *)
(***************************************************************************)
EXTENDS Naturals, Sequences, FiniteSets, SequencesExt

-----------------------------------------------------------------------------
(* contract.Path                                                             *)

IsParentOf(p, q) == Len(p) < Len(q) /\ \A i \in DOMAIN p : p[i] = q[i]

Overlaps(p, q) == q = p \/ IsParentOf(q, p) \/ IsParentOf(p, q)

IsPathAllowed(paths, p) == \E q \in paths : Overlaps(p, q)
IsPathIgnored(paths, p) == p \in paths

-----------------------------------------------------------------------------

ChildrenOf(o, p) == {q \in o.nodes : Len(q) = Len(p) + 1 /\ IsParentOf(p, q)}

\* For the map at path p: what is left below it, and whether it lost a field of
\* its own.  A map that lost its last field goes too.  shouldFilter is the set of
\* paths for which the code's function of that name says yes.
FilterIntent(o, shouldFilter) ==
  LET filter[p \in o.nodes \cup {<<>>}] ==
        LET out     == ChildrenOf(o, p) \cap shouldFilter
            emptied == {q \in ChildrenOf(o, p) \ out : filter[q].deletions /\ filter[q].left = {}}
            kept    == ChildrenOf(o, p) \ (out \cup emptied)
        IN  [deletions |-> out \cup emptied # {},
             left |-> kept \cup UNION {filter[q].left : q \in kept}]
  IN  [nodes |-> filter[<<>>].left, maps |-> o.maps \cap filter[<<>>].left]

\* An empty list of allowed or ignored paths means no filter.
FilterObject(o, allow, ignore) ==
  LET notAllowed == {p \in o.nodes : ~IsPathAllowed(allow, p)}
      ignored == {p \in o.nodes : IsPathIgnored(ignore, p)}
      first == IF allow = {} THEN o ELSE FilterIntent(o, notAllowed)
  IN  IF ignore = {} THEN first ELSE FilterIntent(first, ignored)

-----------------------------------------------------------------------------

(* The reference.                                                            *)

MapsOf(nodes) == {p \in nodes : \E q \in nodes : IsParentOf(p, q)}

\* A value stays if no path down to it is ignored and one that is allowed leads
\* to it or starts from it; a map with fields stays with the values in it.
Wanted(allow, ignore, p) ==
  /\ allow # {} => \E q \in allow : IsPrefix(p, q) \/ IsPrefix(q, p)
  /\ ~\E q \in ignore : IsPrefix(q, p)

Reference(o, allow, ignore) ==
  LET left == {p \in o.nodes : \E q \in o.nodes \ MapsOf(o.nodes) :
                 Wanted(allow, ignore, q) /\ IsPrefix(p, q)}
  IN  [nodes |-> left, maps |-> o.maps \cap left]

SmallPaths == {p \in UNION {[1 .. n -> {"f", "g"}] : n \in 1 .. 3} : p[1] = "f"}

SmallObjects ==
  {o \in [nodes : SUBSET SmallPaths, maps : SUBSET SmallPaths] :
     /\ \A q \in o.nodes, p \in SmallPaths : IsParentOf(p, q) => p \in o.nodes
     /\ MapsOf(o.nodes) \subseteq o.maps /\ o.maps \subseteq o.nodes}

(* FilterObject keeps exactly the values the controller has an opinion on,    *)
(* and leaves no map behind that it emptied (filterintent.go 38-99).          *)
ASSUME FilterKeepsOpinions ==
  \A o \in SmallObjects,
     allow \in SUBSET {p \in SmallPaths : Len(p) < 3},
     ignore \in {{}} \cup {{p} : p \in SmallPaths} :
    FilterObject(o, allow, ignore) = Reference(o, allow, ignore)
=============================================================================
