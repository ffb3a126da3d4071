-------------------------- MODULE MCResourceTable --------------------------
(***************************************************************************)
(* Model-checking instances of ResourceTable.                              *)
(* The last two formulas are ones that the code does not keep: README.md   *)
(* (Departures) says how they fail.                                        *)
(***************************************************************************)
EXTENDS ResourceTable

R(id, type) == [id |-> id, type |-> type]

(* Client 1 has window 1 with a subwindow 2, a drawable of the direct      *)
(* rendering interface, and has selected ShapeNotify on it with 3; client  *)
(* 2 has a subwindow 4 and a passive grab 5 of it.                         *)
Window == R(1, "window")           Child == R(2, "window")
DriDrawable == R(1, "driDrawable") ShapeEvents == R(1, "shapeEvents")
ShapeClient == R(3, "shapeClient") Subwindow == R(4, "window")
Grab == R(5, "grab")

MCCreations == {<<Window>>, <<Child>>, <<DriDrawable>>, <<ShapeClient, ShapeEvents>>,
                <<ShapeClient>>, <<Subwindow>>, <<Grab>>}
MCOwner == (1 :> 1) @@ (2 :> 1) @@ (3 :> 1) @@ (4 :> 2) @@ (5 :> 2)
MCNeeds ==
    (Window :> {}) @@ (Child :> {Window}) @@ (DriDrawable :> {Window})
      @@ (ShapeEvents :> {Window}) @@ (ShapeClient :> {ShapeEvents})
      @@ (Subwindow :> {Window}) @@ (Grab :> {Window})
MCDependents ==
    (Window :> <<FreeResourceCall(2, "window"), FreeResourceCall(4, "window"),
                 FreeResourceCall(5, RT_NONE)>>)
      @@ (ShapeEvents :> <<FreeResourceCall(3, "shapeClient")>>)
      @@ (Child :> <<>>) @@ (DriDrawable :> <<>>) @@ (ShapeClient :> <<>>)
      @@ (Subwindow :> <<>>) @@ (Grab :> <<>>)

(* Window 1 and its subwindow stay in one chain, the entry 3 leaves it     *)
(* when the table is rebuilt for the second time.                          *)
Buckets24(two, four) == (1 :> 0) @@ (2 :> two) @@ (4 :> four)
MCHashOf == (1 :> Buckets24(1, 1)) @@ (2 :> Buckets24(1, 1)) @@ (3 :> Buckets24(1, 3))
              @@ (4 :> Buckets24(0, 2)) @@ (5 :> Buckets24(0, 0))

(* Ids of two chains come together when the table is rebuilt.              *)
MCHashOfMixed == [MCHashOf EXCEPT ![3] = Buckets24(0, 1)]

(* "For now, preserve insertion order": the chains are newest first.       *)
ChainsNewestFirst ==
    \A c \in Clients : \A b \in 0 .. Buckets(c) - 1 :
        LET chain == clientTable[c].resources[b]
        IN \A i, j \in DOMAIN chain : i < j =>
             Place(added, chain[j]) < Place(added, chain[i])

(* elements says how many resources there are.                             *)
ElementsCounted ==
    ~Running => \A c \in Clients :
        Buckets(c) > 0 => clientTable[c].elements
                            = Cardinality({r \in Range(added) : Owner[r.id] = c})
=============================================================================
