-------------------------------- MODULE Keys --------------------------------
(***************************************************************************)
(* The composite keys of the service's maps.  The code stores a document,  *)
(* its history and its lock under the string collectionID + "/" +          *)
(* documentID, lists a collection by the string prefix collectionID + "/", *)
(* and recovers the collection from a key by cutting at the first "/".     *)
(*                                                                         *)
(* An identifier is modelled as the sequence of the segments a "/" splits  *)
(* it into: "docs" is <<"docs">>, "a/b" is <<"a", "b">>.  Joining two      *)
(* identifiers with a "/" concatenates their segments, and cutting at the  *)
(* first "/" keeps the first segment, so the ambiguity of the string form  *)
(* is kept without spelling strings out.                                   *)
(***************************************************************************)
EXTENDS Sequences, Integers

CONSTANT Segment      \* the "/"-free pieces identifiers are made of

ID == Seq(Segment) \ {<<>>}

(* What the README requires of a collection identifier ("Collection IDs    *)
(* must not contain /") and no code enforces: one segment.                 *)
SlashFree(id) == Len(id) = 1

-----------------------------------------------------------------------------
(* Seeded fault: the key forgets the collection.                           *)
DocumentOnlyKey(collectionID, documentID) == documentID

documentKey(collectionID, documentID) == collectionID \o documentID

(* strings.HasPrefix(key, collectionID + "/")                              *)
HasCollectionPrefix(key, collectionID) ==
  /\ Len(collectionID) < Len(key)
  /\ \A i \in 1 .. Len(collectionID) : key[i] = collectionID[i]

(* Seeded fault: the key is cut at its last "/".                           *)
AllButLastSegment(key) == SubSeq(key, 1, Len(key) - 1)

collectionIDFromKey(key) == <<key[1]>>
=============================================================================
