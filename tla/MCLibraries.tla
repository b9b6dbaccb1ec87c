----------------------------- MODULE MCLibraries -----------------------------
(***************************************************************************)
(* A small instance of every service library.                              *)
(***************************************************************************)
EXTENDS Libraries, TLC

CONSTANTS f1, f2, g1, g2, k1, k2, n1, n2, w1, p1, p2, p3, parent, child,
          h1, h2

MCFiles == {f1, f2}
MCGroups == {g1, g2}
MCAttributeNumbers == {n1}

MCKeywords == {k1, k2}
MCNumbers == {n1, n2}
MCWords == {w1}
MCAsBool == n1 :> Yes @@ n2 :> No @@ w1 :> Unreadable @@ Yes :> Yes @@ No :> No
MCInputFiles ==
    {[dos |-> FALSE, text |-> k1 :> a @@ k2 :> b] : <<a, b>> \in
        {<< <<n1>>, <<w1>> >>, << <<>>, <<n2, n1>> >>, << <<>>, <<>> >>,
         << <<Yes>>, <<n1, w1>> >>}}
    \cup {[dos |-> TRUE, text |-> k1 :> <<n1>> @@ k2 :> <<>>]}

MCCallers == {p1, p2, p3}

(* Bound: defaults registered at a time. *)
FewDefaults == Cardinality({p \in DOMAIN registry : registry[p] # Missing}) <= 2

MCHosts == {h1, h2}

(* Bound: attributes in the files with a value that this program wrote. *)
FewWrites ==
    Cardinality({<<f, p>> \in {f \in Files : disk[f] # None} \X (Groups \X Attributes) :
                    disk[f].attrs[p] \notin {None, Old}}) <= 1

(* Bound: files open, or last open, for reading only. *)
OneReadonly == Cardinality(readonly) <= 1

(* Saves are alike, and hosts are: save 1 starts first, and is on h1. *)
SavesInOrder ==
    /\ \A s \in Saves :
          s + 1 \in Saves /\ saving[s] = "exists" => saving[s + 1] = "exists"
    /\ library = "log" => host[1] = h1

Representative == FewDefaults /\ FewWrites /\ OneReadonly /\ SavesInOrder

Symmetry == Permutations({f1, f2}) \cup Permutations({g1, g2})
=============================================================================
