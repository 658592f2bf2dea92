-------------------------- MODULE MCStoreProjections --------------------------
(* Constants of StoreProjections for TLC. *)
EXTENDS StoreProjections, TLC

CONSTANTS c1, c2, w1, w2, fts, vec, mem, book, rows

(* c1 was opened first, and has no sections. *)
MCOpenedAt == c1 :> 1 @@ c2 :> 2

MCMaxRows == c1 :> 0 @@ c2 :> 2

MCKind ==
  fts :> "fts5" @@ vec :> "vector-sqlite" @@ mem :> "vector" @@ book :> "outline"
    @@ rows :> "miniapp"

(* Two processes share an index, or a book, or one of two indexes; or the    *)
(* other keeps embeddings in memory and tells the index nothing; or only one *)
(* of them writes to a remote table.                                         *)
MCSetups ==
  {w1 :> <<fts>> @@ w2 :> <<fts>>,
   w1 :> <<book>> @@ w2 :> <<book>>,
   w1 :> <<vec, fts>> @@ w2 :> <<vec>>,
   w1 :> <<fts>> @@ w2 :> <<mem>>,
   w1 :> <<rows>> @@ w2 :> <<mem>>}
=============================================================================
