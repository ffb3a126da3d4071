--------------------------- MODULE ResourceTable ---------------------------
(***************************************************************************)
(* The table of each client's resources of dix/resource.c: a hash table    *)
(* of chains, newest first, that is rebuilt when it is full.  A resource   *)
(* is freed by its type's delete function, which may free others, of the   *)
(* same chain too: a window takes its subtree and the grabs on it along    *)
(* (dix/window.c, dix/events.c); the list of those that selected its       *)
(* ShapeNotify events, a resource of the window's id, takes the resources  *)
(* by which they would be taken from it (Xext/shape.c).                    *)
(* So the loops over the chains nest, and a chain changes under a loop.    *)
(*                                                                         *)
(* The loops look at one resource of a chain in a step.  Delete functions  *)
(* that add resources are not modelled: of those above none does.          *)
(***************************************************************************)
EXTENDS Integers, Sequences, FiniteSets, SequencesExt

CONSTANTS
    Clients,
    Creations,      \* sequences of resources that one request adds
    Owner,          \* the client whose id it is, of each id
    HashOf,         \* the bucket of each id, by the number of buckets
    Dependents,     \* what the delete function of a resource frees
    Needs,          \* the resources that must be there to add another
    NeverRetained,  \* types that are freed although the client is retained
    None,           \* no resource, no pointer but that of the head
    INITBUCKETS, MAXBUCKETS,
    MaxElements,    \* bound: elements counted when one is added
    Load            \* elements per bucket of a full table, 4 in the code

Resources == UNION {Range(s) : s \in Creations}
Ids == {r.id : r \in Resources}

FreeResourceCall(id, skip) == [op |-> "FreeResource", id |-> id, type |-> skip]
FreeByTypeCall(id, type) == [op |-> "FreeResourceByType", id |-> id, type |-> type]
RT_NONE == "none"

Types == {r.type : r \in Resources}

(* The numbers of buckets there may be.                                    *)
Sizes == {n \in 1 .. MAXBUCKETS : \A id \in Ids : n \in DOMAIN HashOf[id]}

ASSUME ResourceTableAssumption ==
    /\ \A s \in Creations : s \in Seq(Resources) /\ IsInjective(s)
    /\ \A id \in Ids : Owner[id] \in Clients
    /\ \A r \in Resources : Needs[r] \subseteq Resources
    /\ \A id \in Ids : \A n \in Sizes : HashOf[id][n] \in 0 .. n - 1
    /\ INITBUCKETS \in Sizes /\ \A n \in Sizes : n < MAXBUCKETS => 2 * n \in Sizes
    /\ MAXBUCKETS \in Nat /\ MaxElements \in Nat /\ Load \in Nat \ {0}
    /\ None \notin Resources /\ RT_NONE \notin Types

(* What the delete functions free they free with FreeResource, which       *)
(* counts; those of the types that are never retained free nothing.        *)
ASSUME DependentsAssumption ==
    \A r \in Resources :
        /\ Dependents[r] \in Seq([op : {"FreeResource"}, id : Ids, type : Types \cup {RT_NONE}])
        /\ r.type \in NeverRetained => Dependents[r] = <<>>

(* What cannot be without another resource is freed with it: it has the    *)
(* other's id, by which they are freed together, or the other's delete     *)
(* function frees it; and if that is skipped, the function that skips it.  *)
Frees(s, r) == \E i \in DOMAIN Dependents[s] : Dependents[s][i].id = r.id

ASSUME NeedsAssumption ==
    \A r \in Resources : \A s \in Needs[r] :
        /\ r.id # s.id => Frees(s, r)
        /\ r.id = s.id => s.type \notin NeverRetained \cup {"driDrawable"}
        /\ \A q \in Resources : \A i \in DOMAIN Dependents[q] :
             Dependents[q][i].id = s.id /\ Dependents[q][i].type = s.type =>
               r.id = s.id \/ Frees(q, r)

VARIABLES
    clientTable, \* of each client: resources (the chains), elements, buckets
    added,       \* history: the resources of the table, in the order added
    stack,       \* the loops and delete functions that run, innermost first
    retained     \* clients that are gone and whose resources are retained

vars == <<clientTable, added, stack, retained>>

---------------------------------------------------------------------------
(* The table.                                                              *)

Place(s, r) == CHOOSE i \in DOMAIN s : s[i] = r
Without(s, r) == IF r \in Range(s) THEN RemoveAt(s, Place(s, r)) ELSE s

Hash(id, buckets) == HashOf[id][buckets]

EmptyTable(buckets) ==
    [resources |-> [b \in 0 .. buckets - 1 |-> <<>>], elements |-> 0, buckets |-> buckets]

InTable(t, r) ==
    /\ t[Owner[r.id]].buckets > 0
    /\ r \in Range(t[Owner[r.id]].resources[Hash(r.id, t[Owner[r.id]].buckets)])

Present(r) == InTable(clientTable, r)

(* A resource goes to the end of its new chain, of n; so do all of an old  *)
(* chain.                                                                  *)
Moved(chains, r, n) == [chains EXCEPT ![Hash(r.id, n)] = Append(@, r)]

Distributed(chains, chain, n) ==
    LET upTo[k \in 0 .. Len(chain)] ==
          IF k = 0 THEN chains ELSE Moved(upTo[k - 1], chain[k], n)
    IN upTo[Len(chain)]

RebuildTable(t) ==
    LET n == 2 * t.buckets
        upTo[b \in 0 .. t.buckets] ==
          IF b = 0 THEN EmptyTable(n).resources
          ELSE Distributed(upTo[b - 1], t.resources[b - 1], n)
    IN [t EXCEPT !.buckets = n, !.resources = upTo[t.buckets]]

AddResource(t, r) ==
    LET c == Owner[r.id]
        t1 == IF t[c].elements >= Load * t[c].buckets /\ t[c].buckets < MAXBUCKETS
              THEN RebuildTable(t[c]) ELSE t[c]
    IN [t EXCEPT ![c] =
          [resources |-> [t1.resources EXCEPT ![Hash(r.id, t1.buckets)] = <<r>> \o @],
           elements |-> t1.elements + 1, buckets |-> t1.buckets]]

(* The resources of a sequence, one after the other.                       *)
AddResources(t, s) ==
    LET upTo[k \in 0 .. Len(s)] == IF k = 0 THEN t ELSE AddResource(upTo[k - 1], s[k])
    IN upTo[Len(s)]

---------------------------------------------------------------------------
(* The loops over a chain.  A frame holds what FreeResource and the others *)
(* have in their variables: the chain, prev, the resource whose delete     *)
(* function runs and the elements there were when it was called; or, of a  *)
(* delete function, the calls that it still makes.                         *)

Frame(op, cid, bucket, id, type) ==
    [op |-> op, cid |-> cid, bucket |-> bucket, id |-> id, type |-> type,
     prev |-> None, res |-> None, elements |-> 0, calls |-> <<>>]

Running == stack # <<>>
Top == Head(stack)
Buckets(c) == clientTable[c].buckets

(* FreeResource and FreeResourceByType of an id: the loop, unless the      *)
(* table of its client is gone.                                            *)
Call(call) ==
    LET c == Owner[call.id]
    IN IF Buckets(c) = 0 THEN <<>>
       ELSE <<Frame(call.op, c, Hash(call.id, Buckets(c)), call.id, call.type)>>

Scanning == Running /\ Top.op # "delete" /\ Top.res = None
Chain == clientTable[Top.cid].resources[Top.bucket]

(* What prev points at and what follows; after a resource that is not in   *)
(* the chain any more, whatever is in the freed memory: nothing, here.     *)
Rest ==
    IF Top.prev = None THEN Chain
    ELSE IF Top.prev \in Range(Chain)
    THEN SubSeq(Chain, Place(Chain, Top.prev) + 1, Len(Chain)) ELSE <<>>

Matches(f, r) ==
    CASE f.op = "FreeResource"       -> r.id = f.id
      [] f.op = "FreeResourceByType" -> r.id = f.id /\ r.type = f.type
      [] f.op = "NeverRetain"        -> r.type \in NeverRetained
      [] f.op = "ClientResources"    -> TRUE

NextResource ==
    /\ Scanning /\ Rest # <<>> /\ ~Matches(Top, Head(Rest))
    /\ stack' = [stack EXCEPT ![1] = [Top EXCEPT !.prev = Head(Rest)]]
    /\ UNCHANGED <<clientTable, added, retained>>

(* mutant of Skipped: the wrong way round *)
SkippedOthers(r) == Top.op = "FreeResource" /\ r.type # Top.type

(* The delete function of r is skipped: FreeResource's skipDeleteFuncType. *)
(* (FreeResourceByType is called with skipFree by FreeDamageExt only, for  *)
(* resources that nothing adds.)                                           *)
Skipped(r) == Top.op = "FreeResource" /\ r.type = Top.type

DeleteFunc(r) ==
    IF Skipped(r) THEN <<>>
    ELSE <<[Frame("delete", Top.cid, Top.bucket, r.id, r.type) EXCEPT
              !.res = r, !.calls = Dependents[r]]>>

(* mutant of Unlinked: the resource stays in its chain *)
UnlinkedNot(t, r) == t

(* Only FreeResource counts.                                               *)
Unlinked(t, r) ==
    [resources |-> [t.resources EXCEPT ![Top.bucket] = Without(@, r)],
     elements |-> t.elements - (IF Top.op = "FreeResource" THEN 1 ELSE 0),
     buckets |-> t.buckets]

Unlink ==
    /\ Scanning /\ Rest # <<>> /\ Matches(Top, Head(Rest))
    /\ LET r == Head(Rest)
           t == Unlinked(clientTable[Top.cid], r)
       IN /\ clientTable' = [clientTable EXCEPT ![Top.cid] = t]
          /\ added' = Without(added, r)
          /\ stack' = DeleteFunc(r) \o
                [stack EXCEPT ![1] = [Top EXCEPT !.res = r, !.elements = t.elements]]
    /\ UNCHANGED retained

(* mutant of PrevAgain: prev is kept *)
PrevKept(f, elements) == f.prev

(* "prev may no longer be valid".                                          *)
PrevAgain(f, elements) ==
    IF f.op = "FreeResource" /\ elements # f.elements THEN None ELSE f.prev

(* The delete function has returned.  FreeResourceByType frees one.        *)
Freed ==
    /\ Running /\ Top.op # "delete" /\ Top.res # None
    /\ stack' = IF Top.op = "FreeResourceByType" THEN Tail(stack)
                ELSE [stack EXCEPT ![1] = [Top EXCEPT !.res = None,
                        !.prev = PrevAgain(Top, clientTable[Top.cid].elements)]]
    /\ UNCHANGED <<clientTable, added, retained>>

(* The end of a chain: of the loop, or of one of its buckets.              *)
LastBucket == Top.bucket = Buckets(Top.cid) - 1

EndOfChain ==
    /\ Scanning /\ Rest = <<>>
    /\ Top.op \in {"NeverRetain", "ClientResources"} => ~LastBucket
    /\ stack' = IF Top.op \in {"NeverRetain", "ClientResources"}
                THEN [stack EXCEPT ![1] = [Top EXCEPT !.bucket = @ + 1, !.prev = None]]
                ELSE Tail(stack)
    /\ UNCHANGED <<clientTable, added, retained>>

EndOfTable ==
    /\ Scanning /\ Rest = <<>> /\ LastBucket
    /\ \/ /\ Top.op = "ClientResources"
          /\ clientTable' = [clientTable EXCEPT ![Top.cid] = EmptyTable(0)]
          /\ retained' = retained \ {Top.cid}
       \/ /\ Top.op = "NeverRetain"
          /\ retained' = retained \cup {Top.cid}
          /\ UNCHANGED clientTable
    /\ stack' = Tail(stack)
    /\ UNCHANGED added

---------------------------------------------------------------------------
(* The delete functions.                                                   *)

(* The code walks over the subwindows and the grabs that are left; a call  *)
(* for one that is not finds nothing.                                      *)
DeleteCalls ==
    /\ Running /\ Top.op = "delete" /\ Top.calls # <<>>
    /\ stack' = Call(Head(Top.calls)) \o
                  [stack EXCEPT ![1] = [Top EXCEPT !.calls = Tail(@)]]
    /\ UNCHANGED <<clientTable, added, retained>>

DeleteReturns ==
    /\ Running /\ Top.op = "delete" /\ Top.calls = <<>>
    /\ stack' = Tail(stack)
    /\ UNCHANGED <<clientTable, added, retained>>

---------------------------------------------------------------------------
(* The requests.                                                           *)

Connected(c) == Buckets(c) > 0 /\ c \notin retained

Create(s) ==
    /\ ~Running
    /\ \A i \in DOMAIN s : /\ Connected(Owner[s[i].id]) /\ ~Present(s[i])
                           /\ clientTable[Owner[s[i].id]].elements < MaxElements
                           /\ \A r \in Needs[s[i]] : Present(r) \/ r \in Range(s)
    /\ clientTable' = AddResources(clientTable, s)
    /\ added' = added \o s
    /\ UNCHANGED <<stack, retained>>

(* DestroyWindow, UngrabButton, ShapeSelectInput ...                       *)
Destroy(id) ==
    /\ ~Running /\ \E r \in Resources : r.id = id /\ Present(r)
    /\ stack' = Call(FreeResourceCall(id, RT_NONE))
    /\ UNCHANGED <<clientTable, added, retained>>

(* XF86DRIDestroyDrawable.                                                 *)
DRIDestroyDrawable(r) ==
    /\ ~Running /\ r.type = "driDrawable" /\ Present(r)
    /\ stack' = Call(FreeByTypeCall(r.id, r.type))
    /\ UNCHANGED <<clientTable, added, retained>>

(* CloseDownClient: all resources are freed, or some and the others when   *)
(* the retained client is killed.                                          *)
CloseDownClient(c) ==
    /\ ~Running /\ Buckets(c) > 0
    /\ \/ stack' = <<Frame("ClientResources", c, 0, None, None)>>
       \/ /\ c \notin retained
          /\ stack' = <<Frame("NeverRetain", c, 0, None, None)>>
    /\ UNCHANGED <<clientTable, added, retained>>

InitClientResources(c) ==
    /\ ~Running /\ Buckets(c) = 0
    /\ clientTable' = [clientTable EXCEPT ![c] = EmptyTable(INITBUCKETS)]
    /\ UNCHANGED <<added, stack, retained>>

Init ==
    /\ clientTable = [c \in Clients |-> EmptyTable(0)]
    /\ added = <<>> /\ stack = <<>> /\ retained = {}

Step == NextResource \/ Unlink \/ Freed \/ EndOfChain \/ EndOfTable
          \/ DeleteCalls \/ DeleteReturns

Next ==
    \/ Step
    \/ \E s \in Creations : Create(s)
    \/ \E id \in Ids : Destroy(id)
    \/ \E r \in Resources : DRIDestroyDrawable(r)
    \/ \E c \in Clients : CloseDownClient(c) \/ InitClientResources(c)

Spec == Init /\ [][Next]_vars /\ WF_vars(Step)

---------------------------------------------------------------------------
(* Properties.                                                             *)

(* Every variable has its type: a resource is in one chain, its own, once. *)
TypeOK ==
    /\ \A c \in Clients :
         /\ Buckets(c) \in 0 .. MAXBUCKETS
         /\ DOMAIN clientTable[c].resources = 0 .. Buckets(c) - 1
         /\ \A b \in 0 .. Buckets(c) - 1 :
              LET chain == clientTable[c].resources[b]
              IN /\ IsInjective(chain)
                 /\ \A r \in Range(chain) : /\ r \in Resources /\ Owner[r.id] = c
                                            /\ Hash(r.id, Buckets(c)) = b
    /\ Range(added) = {r \in Resources : Present(r)} /\ IsInjective(added)
    /\ retained \subseteq Clients

(* No loop goes on from a resource that a delete function freed meanwhile. *)
PrevIsInChain ==
    \A i \in DOMAIN stack :
        LET f == stack[i]
        IN f.op # "delete" /\ f.res = None /\ f.prev # None =>
             f.prev \in Range(clientTable[f.cid].resources[f.bucket])

(* The delete function of a resource is not called again while it runs,    *)
(* and its resource can not be found any more.                             *)
DeletedOnce ==
    \A i \in DOMAIN stack : stack[i].op = "delete" =>
        /\ ~Present(stack[i].res)
        /\ \A j \in DOMAIN stack : stack[j].op = "delete" /\ j # i =>
             stack[j].res # stack[i].res

(* The resources of an id are freed in the opposite order of their         *)
(* creation: the newest comes first in the chain, before and after the     *)
(* table is rebuilt.                                                       *)
NewestFirst ==
    \A c \in Clients : \A b \in 0 .. Buckets(c) - 1 :
        LET chain == clientTable[c].resources[b]
        IN \A i, j \in DOMAIN chain : i < j /\ chain[i].id = chain[j].id =>
             Place(added, chain[j]) < Place(added, chain[i])

(* The invariant of the table: chains are whole and newest first, a loop   *)
(* goes on from a resource that is there, and none is deleted twice.       *)
ResourceTableInv == TypeOK /\ PrevIsInChain /\ DeletedOnce /\ NewestFirst

(* Between requests nothing is left of what a resource takes along: no     *)
(* subwindow and no grab of a window that is gone, whoever owned it and    *)
(* in whatever order the resources of a client were freed.                 *)
NoOrphans ==
    ~Running => \A r \in Range(added) : \A s \in Needs[r] : Present(s)

(* Of a client whose resources were freed none is left, and of one that is *)
(* retained none of those that never are.                                  *)
ClientEmptied ==
    \A c \in Clients : /\ Buckets(c) = 0 => \A r \in Range(added) : Owner[r.id] # c
                       /\ c \in retained => \A r \in Range(added) :
                                              Owner[r.id] = c => r.type \notin NeverRetained

(* Nothing is left of what was freed: neither of a client's resources nor  *)
(* of what a resource takes along.                                         *)
NothingLeft == NoOrphans /\ ClientEmptied

(* Every loop ends, although what it runs over changes under it.           *)
FreeingEnds == Running ~> ~Running
=============================================================================
