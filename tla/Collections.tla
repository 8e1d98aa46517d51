---------------------------- MODULE Collections -----------------------------
(***************************************************************************)
(* Registering and reading collections (service/collections.go).           *)
(***************************************************************************)
EXTENDS ServiceState

CONSTANT RegisterRequests    \* the RegisterCollection calls clients may make

RegisterRequest ==
  [op : {"RegisterCollection"}, id : OptID, name : Text, description : Text,
   actor : Actor, key : OptKey]

ASSUME RegisterAssumption == RegisterRequests \subseteq RegisterRequest

collectionExists(id) == id \in DOMAIN collections

registerNew(req, id) ==
  LET col == [id |-> id, name |-> req.name, description |-> req.description,
              createdAt |-> clock]
  IN  /\ collections' = Put(collections, id, col)
      /\ appendAudit(<<Event("collection.created", req.actor, id, NoID, req.key,
                             [name |-> req.name,
                              description |-> req.description])>>)
      /\ Return(req, Ok(col))
      /\ UNCHANGED <<documents, history, locks, clock>>

(* A registered identifier is returned as it is, whatever the request      *)
(* says about it, and no event is logged.                                  *)
returnExisting(req, id) ==
  /\ Return(req, Ok(collections[id]))
  /\ UNCHANGED <<stored, clock>>

RegisterCollection(req) ==
  LET malformed == TrimSpace[req.name] = Empty
  IN  \/ TurnAway(malformed)
      \/ ~ malformed /\ Replay(req)
      \/ /\ ~ malformed
         /\ FirstUse(req)
         /\ \/ Panic(req)
            \/ \E id \in NewIDs(req.id) :
                 \/ collectionExists(id) /\ returnExisting(req, id)
                 \/ ~ collectionExists(id) /\ registerNew(req, id)

GetCollection(id) ==
  IF collectionExists(id) THEN Ok(collections[id]) ELSE Fail("collection_not_found")

(* Sorted by ID in the code; the order is not modelled.                    *)
ListCollections == Range(collections)
=============================================================================
