----------------------------- MODULE MCDocuments -----------------------------
(***************************************************************************)
(* Versions and keys: racing updates and batches of two documents, one of  *)
(* which has a "/" in its identifier, a document of the same identifier in *)
(* a second collection, and a malformed request of every kind.             *)
(***************************************************************************)
EXTENDS MCService

MCRegister == {Register(docs, "a", "ann", NoKey), Register(wiki, "b", "ann", NoKey),
               Register(docs, " ", "ann", NoKey)}

MCCreate == {Create(docs, d1, "a", <<" a", "a", "">>, "ann", NoKey),
             Create(docs, dx, "a", <<>>, "ann", NoKey),
             Create(wiki, d1, "b", <<"b">>, "bob", NoKey),
             Create(docs, d1, " ", <<>>, "bob", NoKey)}

MCUpdate == {Update(docs, d1, 1, "b", Nil, "ann", NoKey),
             Update(docs, d1, 1, Nil, <<>>, "bob", NoKey),
             Update(docs, d1, 2, Nil, <<"b", " a">>, "bob", NoKey),
             Update(docs, d1, 0, Nil, Nil, "bob", NoKey)}

MCBatch ==
  {Batch(docs, items, "bob", NoKey) :
     items \in {<<>>,
                <<Item(d1, 1, "b", <<"b">>), Item(dx, 1, Nil, Nil)>>,
                <<Item(d1, 1, "b", Nil), Item(d1, 1, "a", Nil)>>,
                <<Item(d1, 1, "b", Nil), Item(dx, 2, Nil, Nil), Item(dx, 0, Nil, Nil)>>}}

NoRequests == {}
=============================================================================
