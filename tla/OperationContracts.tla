------------------------- MODULE OperationContracts -------------------------
(***************************************************************************)
(* The allow-listed operations: their contracts                            *)
(* (geoqa_agent/tool_registry.py), the columns the validator expects of    *)
(* them (geoqa_agent/column_flow.py) and the columns the runners write     *)
(* (geopandas_runner.py, rasterio_runner.py, gee_runner.py).               *)
(*                                                                         *)
(* Every operation has a main input, whose rows or pixels its output has   *)
(* (the polygons of countpointsinpolygon, the zones of zonalstatistics,    *)
(* the points of samplepoints), and possibly another one.  A column is the *)
(* sequence of the parts its name is put together from.  The geometry      *)
(* column goes without saying, and measurement scales and geometry kinds,  *)
(* by which the validator rejects more, are left out.                      *)
(***************************************************************************)
EXTENDS Sequences

CONSTANTS
    None,     \* a parameter that is not bound
    Null,     \* a parameter bound to JSON null
    Template  \* a parameter bound to a template with a placeholder

Kinds == {"vector", "raster", "image_collection", "image"}

\* An operation on one vector input that has nothing to configure.  Of the
\* configuration, only what names columns is kept: "field" (the columns an
\* operation reads, as the set of the names that a list or an expression
\* holds), "key" (the one it joins or groups by), "new" (the one it writes)
\* and "prefix".
Operation ==
    [main |-> "vector",    \* the data kind of the main input
     other |-> None,       \* of the other one
     optional |-> FALSE,   \* the other input may be left out
     reads |-> None,       \* the input that "field" is read from
     keys |-> None,        \* the input that "key" is read from
     several |-> FALSE,    \* "field" may name any number of columns
     takes |-> {},         \* the configuration it has
     needs |-> {},         \* the configuration it requires
     out |-> "vector",     \* the data kind of its outputs
     effect |-> "keep",    \* what it does to columns
     second |-> FALSE,     \* it also writes what did not match
     counts |-> FALSE]     \* it also reports counts, which are no files

VectorAlgorithms ==
    {"geopandas:filterbyexpression", "geopandas:selectbylocation",
     "geopandas:selectwithindistance", "geopandas:clip", "geopandas:buffer",
     "geopandas:overlay", "geopandas:dissolve", "geopandas:mergelayers",
     "geopandas:centroids", "geopandas:calculatefield",
     "geopandas:addgeometryattributes", "geopandas:renamefield",
     "geopandas:orderby", "geopandas:joinattributes", "geopandas:sjoin",
     "geopandas:countpointsinpolygon", "geopandas:sjoinnearest",
     "geopandas:aggregate"}
RasterAlgorithms ==
    {"rasterio:clip", "rasterio:bandmath", "rasterio:zonalstatistics",
     "rasterio:samplepoints"}
ImageAlgorithms ==
    {"gee:filter", "gee:composite", "gee:bandmath", "gee:reduceregions",
     "gee:export"}
AllAlgorithms == VectorAlgorithms \cup RasterAlgorithms \cup ImageAlgorithms

\* Operations that select, reshape or reorder features.
FeatureContract(a) ==
    CASE a = "geopandas:filterbyexpression" ->
            [Operation EXCEPT !.reads = "main", !.several = TRUE, !.takes = {"field"},
                              !.needs = {"field"}, !.second = TRUE]
      [] a \in {"geopandas:selectbylocation", "geopandas:selectwithindistance"} ->
            [Operation EXCEPT !.other = "vector", !.second = TRUE]
      [] a = "geopandas:clip" -> [Operation EXCEPT !.other = "vector"]
      [] a \in {"geopandas:buffer", "geopandas:centroids"} -> Operation
      [] a = "geopandas:overlay" ->
            [Operation EXCEPT !.other = "vector", !.effect = "overlay"]
      [] a = "geopandas:dissolve" ->
            [Operation EXCEPT !.reads = "main", !.takes = {"field"}]
      [] a = "geopandas:mergelayers" ->
            [Operation EXCEPT !.other = "vector", !.effect = "merge"]
      [] a = "geopandas:orderby" ->
            [Operation EXCEPT !.reads = "main", !.takes = {"field"}, !.needs = {"field"}]

\* Operations that add, rename, join or aggregate attributes.
AttributeContract(a) ==
    CASE a = "geopandas:calculatefield" ->
            [Operation EXCEPT !.reads = "main", !.several = TRUE,
                              !.takes = {"field", "new"}, !.needs = {"field", "new"},
                              !.effect = "add"]
      [] a = "geopandas:addgeometryattributes" -> [Operation EXCEPT !.effect = "measure"]
      [] a = "geopandas:renamefield" ->
            [Operation EXCEPT !.reads = "main", !.takes = {"field", "new"},
                              !.needs = {"field", "new"}, !.effect = "rename"]
      [] a = "geopandas:joinattributes" ->
            [Operation EXCEPT !.other = "vector", !.reads = "main", !.keys = "other",
                              !.takes = {"field", "key", "prefix"},
                              !.needs = {"field", "key"}, !.effect = "merge on key"]
      [] a = "geopandas:sjoin" ->
            [Operation EXCEPT !.other = "vector", !.reads = "other", !.several = TRUE,
                              !.takes = {"field", "prefix"}, !.effect = "join",
                              !.second = TRUE, !.counts = TRUE]
      [] a = "geopandas:countpointsinpolygon" ->
            [Operation EXCEPT !.other = "vector", !.reads = "other",
                              !.takes = {"field", "new"}, !.needs = {"new"},
                              !.effect = "add"]
      [] a = "geopandas:sjoinnearest" ->
            [Operation EXCEPT !.other = "vector", !.reads = "other", !.several = TRUE,
                              !.takes = {"field", "new", "prefix"}, !.needs = {"new"},
                              !.effect = "nearest", !.second = TRUE, !.counts = TRUE]
      [] a = "geopandas:aggregate" ->
            [Operation EXCEPT !.reads = "main", !.keys = "main",
                              !.takes = {"field", "key", "new"},
                              !.needs = {"field", "new"}, !.effect = "aggregate"]

\* Band arithmetic reads bands of both inputs, by an expression.  The runner of
\* rasterio:clip writes the first band only, and the Catalog's rasters have no
\* other, so that clipping keeps them.
RasterContract(a) ==
    CASE a = "rasterio:clip" ->
            [Operation EXCEPT !.main = "raster", !.other = "vector", !.out = "raster"]
      [] a = "rasterio:bandmath" ->
            [Operation EXCEPT !.main = "raster", !.other = "raster", !.optional = TRUE,
                              !.reads = "both", !.several = TRUE,
                              !.takes = {"field", "new"}, !.needs = {"field"},
                              !.out = "raster", !.effect = "replace"]
      [] a \in {"rasterio:zonalstatistics", "rasterio:samplepoints"} ->
            [Operation EXCEPT !.other = "raster", !.reads = "other",
                              !.takes = {"field", "new"}, !.effect = "add"]

ImageContract(a) ==
    CASE a = "gee:filter" ->
            [Operation EXCEPT !.main = "image_collection", !.out = "image_collection"]
      [] a = "gee:composite" ->
            [Operation EXCEPT !.main = "image_collection", !.out = "image"]
      [] a = "gee:bandmath" ->
            [Operation EXCEPT !.main = "image", !.other = "image", !.optional = TRUE,
                              !.reads = "both", !.several = TRUE,
                              !.takes = {"field", "new"}, !.needs = {"field"},
                              !.out = "image", !.effect = "replace"]
      [] a = "gee:reduceregions" ->
            [Operation EXCEPT !.other = "image", !.reads = "other",
                              !.takes = {"field", "new"}, !.effect = "add"]
      [] a = "gee:export" ->
            [Operation EXCEPT !.main = "image", !.reads = "main", !.takes = {"field"},
                              !.out = "raster", !.effect = "band"]

Contract(a) ==
    CASE a \in RasterAlgorithms -> RasterContract(a)
      [] a \in ImageAlgorithms -> ImageContract(a)
      [] a \in {"geopandas:calculatefield", "geopandas:addgeometryattributes",
                "geopandas:renamefield", "geopandas:joinattributes",
                "geopandas:sjoin", "geopandas:countpointsinpolygon",
                "geopandas:sjoinnearest", "geopandas:aggregate"} -> AttributeContract(a)
      [] OTHER -> FeatureContract(a)

Bound(value) == value \notin {None, Null}

Optional(value) == IF Bound(value) THEN {value} ELSE {}

\* The column that is named where one is expected: a list of several is taken
\* for the name of one, which no column has.
Named(field) == IF Bound(field) THEN {c \in field : field = {c}} ELSE {}

\* Every column of a set, its name preceded by the prefix if there is one.
Prefixed(prefix, columns) ==
    IF Bound(prefix) THEN {<<prefix>> \o c : c \in columns} ELSE columns

\* Every column of a set, the shared ones with a suffix.
Suffixed(columns, shared, suffix) ==
    {IF c \in shared THEN Append(c, suffix) ELSE c : c \in columns}

\* The band an image is reduced to: the one that is named, or its first one.
Band(bands, field) == IF Bound(field) THEN Named(field) ELSE {CHOOSE b \in bands : TRUE}

-----------------------------------------------------------------------------
(***************************************************************************)
(* column_flow.apply: the columns of the output, from the columns main and *)
(* other of the inputs.                                                    *)
(***************************************************************************)

\* Mutant: only the left side of a join is given its suffix.
JoinedOnLeft(left, right, keep, suffixes) ==
    Suffixed(left, (left \cap right) \ keep, suffixes[1]) \cup right

Joined(left, right, keep, suffixes) ==
    LET shared == (left \cap right) \ keep IN
    Suffixed(left, shared, suffixes[1]) \cup Suffixed(right, shared, suffixes[2])

\* Mutant: the columns to copy are not restricted.
UnrestrictedTo(columns, field) == columns

RestrictedTo(columns, field) == IF Bound(field) THEN columns \cap field ELSE columns

\* A default stands in for null, and a template for itself.
ExpectedName(step) ==
    CASE step.new = Template -> <<"{retrieved_at}">>
      [] Bound(step.new) /\ step.new # Template -> step.new
      [] ~Bound(step.new) -> <<"value">>

ExpectedColumns(step, main, other) ==
    LET effect == Contract(step.algorithm).effect
        copied == Prefixed(step.prefix, RestrictedTo(other, step.field))
        keyed == Prefixed(step.prefix, other \ {step.key}) \cup (other \cap {step.key})
        same == Named(step.field) \cap {step.key}
    IN
    CASE effect = "keep" -> main
      [] effect = "overlay" -> other \cup main
      [] effect = "merge" -> other \cup main
      [] effect = "measure" -> main \cup {<<"area">>, <<"perimeter">>}
      [] effect = "add" -> main \cup {ExpectedName(step)}
      [] effect = "rename" -> (main \ Named(step.field)) \cup {ExpectedName(step)}
      [] effect = "merge on key" -> Joined(main, keyed, same, <<"_x", "_y">>)
      [] effect = "join" -> Joined(main, copied, {}, <<"_left", "_right">>)
      [] effect = "nearest" ->
            Joined(main, copied, {}, <<"_left", "_right">>) \cup {ExpectedName(step)}
      [] effect = "aggregate" -> Optional(step.key) \cup {ExpectedName(step)}
      [] effect = "replace" -> {ExpectedName(step)}
      [] effect = "band" -> Band(main, step.field)

-----------------------------------------------------------------------------
(***************************************************************************)
(* The runners.  Pandas and GeoPandas are external; what a merge, a        *)
(* spatial join, an overlay and a dissolve do to columns is theirs.        *)
(***************************************************************************)

\* Columns of a merge: overlapping names are told apart by the suffixes.
Merged(left, right, on, suffixes) ==
    LET overlap == (left \cap right) \ on IN
    ((left \cup right) \ overlap)
    \cup {Append(c, suffixes[1]) : c \in overlap}
    \cup {Append(c, suffixes[2]) : c \in overlap}

\* A suffixed name meets a column that has that name already.
Clash(left, right, on, suffixes) ==
    LET overlap == (left \cap right) \ on IN
    \E c \in overlap, i \in {1, 2} :
        Append(c, suffixes[i]) \in (left \cup right) \ overlap

\* str(None) where the parameter is null, its default where it is absent, and
\* the value of the placeholder.
WrittenName(step) ==
    CASE step.new = Template -> <<"2025-06-01">>
      [] step.new = Null -> <<"None">>
      [] step.new = None -> <<"value">>
      [] step.new \notin {Template, Null, None} -> step.new

\* The columns an operation picks from its other input before it joins them.
Picked(step, other) ==
    Prefixed(step.prefix, IF Bound(step.field) THEN step.field ELSE other)

\* joinattributes prefixes every attribute but the one it joins on.
Attributes(step, other) ==
    {IF c = step.key \/ ~Bound(step.prefix) THEN c ELSE <<step.prefix>> \o c : c \in other}

\* The key that both sides of a merge name alike.
SharedKey(step) == {step.key} \cap Named(step.field)

\* The output would have two columns of one name, which no file can have.
Duplicates(step, main, other) ==
    LET effect == Contract(step.algorithm).effect IN
    \/ effect = "rename" /\ WrittenName(step) \in main \ Named(step.field)
    \/ /\ effect = "merge on key"
       /\ \/ Clash(main, Attributes(step, other), SharedKey(step), <<"_x", "_y">>)
          \/ Bound(step.prefix) /\ \E c \in other : <<step.prefix>> \o c = step.key
    \/ /\ effect \in {"join", "nearest"}
       /\ Clash(main, Picked(step, other), {}, <<"_left", "_right">>)
    \/ effect = "overlay" /\ Clash(main, other, {}, <<"_1", "_2">>)
    \/ /\ effect = "aggregate"
       /\ Bound(step.key)
       /\ step.key \in Named(step.field) \cup {WrittenName(step)}

\* The columns of the file an operation may write.  A difference keeps the
\* columns of its first layer, every other overlay those of both.  Input rows
\* without a match, where there are any, keep their columns unsuffixed.
WrittenColumns(step, main, other, unmatched) ==
    LET effect == Contract(step.algorithm).effect
        name == WrittenName(step)
        joined == Merged(main, Picked(step, other), {}, <<"_left", "_right">>)
        outer == IF unmatched THEN {{}, main} ELSE {{}}
    IN
    CASE effect = "keep" -> {main}
      [] effect = "overlay" -> {main, Merged(main, other, {}, <<"_1", "_2">>)}
      [] effect = "merge" -> {main \cup other}
      [] effect = "measure" -> {main \cup {<<"area">>, <<"perimeter">>}}
      [] effect = "add" -> {main \cup {name}}
      [] effect = "rename" -> {{IF c \in Named(step.field) THEN name ELSE c : c \in main}}
      [] effect = "merge on key" ->
            {Merged(main, Attributes(step, other), SharedKey(step), <<"_x", "_y">>)}
      [] effect = "join" -> {joined \cup rest : rest \in outer}
      [] effect = "nearest" -> {joined \cup {name} \cup rest : rest \in outer}
      [] effect = "aggregate" -> {Optional(step.key) \cup {name}}
      [] effect = "replace" -> {{name}}
      [] effect = "band" -> {Band(main, step.field)}
=============================================================================
