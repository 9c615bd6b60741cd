---------------------------- MODULE ObjectStore ----------------------------
(* One object of the store that the ingestion jobs, the administrator's     *)
(* scripts and the sandbox API share: its data and the token for its        *)
(* conditional replacement.  The Azure adapter gives every write a token of *)
(* its own, here a number; an absent object has the token 0.                *)
EXTENDS Naturals

CONSTANTS NoData    \* the data of an object that is not stored

Absent == [data |-> NoData, etag |-> 0]

ObjectsOf(Data) ==
    {Absent} \cup [data : Data, etag : Nat \ {0}]

Stored(object) == object # Absent

\* Mutant: whoever finds the object stored goes on with data of its own.
PutAlways(object, data) == TRUE

\* put_immutable creates an object and accepts one that holds the same data;
\* anything else raises ValueError.
PutAccepted(object, data) == Stored(object) => object.data = data

Put(object, data) ==
    IF Stored(object) THEN object ELSE [data |-> data, etag |-> 1]

\* Mutant: the last writer wins.
SwapAlways(object, etag) == TRUE

\* compare_and_swap raises ConcurrentPublicationError unless the object still
\* has the token that the caller read, or is still absent.
SwapAccepted(object, etag) == object.etag = etag

Swap(object, data) == [data |-> data, etag |-> object.etag + 1]
=============================================================================
