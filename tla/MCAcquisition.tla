--------------------------- MODULE MCAcquisition ---------------------------
(* Instances of Acquisition for TLC. *)
EXTENDS Acquisition

Shape(form, valid, finite, inArea, relation) ==
    [form |-> form, valid |-> valid, finite |-> finite, inArea |-> inArea,
     relation |-> relation]

\* One shape for every way through the builders.
EveryShape ==
    {Shape("null", TRUE, TRUE, TRUE, "within"),
     Shape("malformed", TRUE, TRUE, TRUE, "within"),
     Shape("empty", TRUE, TRUE, TRUE, "outside"),
     Shape("empty", FALSE, TRUE, TRUE, "outside"),
     Shape("proper", FALSE, FALSE, FALSE, "outside"),
     Shape("proper", FALSE, TRUE, TRUE, "within"),
     Shape("proper", TRUE, FALSE, TRUE, "within"),
     Shape("proper", TRUE, TRUE, FALSE, "within"),
     Shape("proper", TRUE, TRUE, TRUE, "within"),
     Shape("proper", TRUE, TRUE, TRUE, "boundary"),
     Shape("proper", TRUE, TRUE, TRUE, "outside")}

Kind(shape, identity, validity) ==
    [shape |-> shape, identity |-> identity, validity |-> validity]

Sound == Shape("proper", TRUE, TRUE, TRUE, "within")

\* Every shape with one identity, and a sound shape with every other
\* identity and validity.
FirstIdentity == CHOOSE i \in Identities : TRUE

Usual == Kind(Sound, FirstIdentity, "active")

Unusual ==
    {Kind(g, FirstIdentity, "active") : g \in EveryShape \ {Sound}} \cup
    {Kind(Sound, i, "active") : i \in (Identities \cup {None}) \ {FirstIdentity}} \cup
    {Kind(Sound, FirstIdentity, v) : v \in {"inactive", "missing"}}

\* All features are usual but one, or but two in their identity or validity:
\* what happens to a record depends on no more of the others.
EveryOne ==
    {[f \in Features |-> IF f = a THEN x ELSE Usual] :
        x \in Unusual \cup {Usual}, a \in Features}

EveryPair ==
    EveryOne \cup
    {[f \in Features |-> IF f = a THEN Usual ELSE x] :
        x \in {u \in Unusual : u.shape = Sound}, a \in Features}
=============================================================================
