-------------------------- MODULE CatalogRegister --------------------------
(* What the Catalog promises its readers: one value that is replaced as a   *)
(* whole.  An ingestion replaces it by a snapshot without annotations, an   *)
(* enrichment by an annotated copy of the very snapshot it replaces.        *)
CONSTANTS
    Versions,      \* records with a field "annotation"
    Annotations,   \* what a model may annotate a snapshot with
    None           \* no annotation, and no Catalog

VARIABLE catalog   \* what readers get

TypeOK == catalog \in Versions \cup {None}

Init == catalog \in Versions \cup {None}

Ingest == catalog' \in {v \in Versions : v.annotation = None}

Enrich ==
    /\ catalog # None
    /\ \E a \in Annotations : catalog' = [catalog EXCEPT !.annotation = a]

Next == Ingest \/ Enrich

Spec == Init /\ [][Next]_catalog
=============================================================================
