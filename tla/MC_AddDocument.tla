--------------------------- MODULE MC_AddDocument ---------------------------
(***************************************************************************)
(* Model values and small inputs for AddDocument.                          *)
(*                                                                         *)
(* Schema: title FULLTEXT SORTABLE (slot 1), price NUMERIC SORTABLE        *)
(* (slot 2), loc GEO, tags TAG, rank NUMERIC SORTABLE NOINDEX (slot 3).    *)
(* junk is a name the schema does not know.  Texts: w1 a word, wlong a     *)
(* text of 1100 bytes, wmid one of 600 bytes (two of them cross the        *)
(* 1024-byte threshold), n1 and n2 numbers, tg the text "red,blue"         *)
(* (two tags, and a valid geo text since it holds a comma).                *)
(***************************************************************************)
EXTENDS AddDocument

CONSTANTS title, price, loc, tags, rank, junk, w1, wlong, wmid, n1, n2, tg, r1, r2

MCReqs      == {r1, r2}
MCFields    == {title, price, loc, tags, rank}
MCTypes     == (title :> {"FULLTEXT"}) @@ (price :> {"NUMERIC"}) @@ (loc :> {"GEO"})
               @@ (tags :> {"TAG"}) @@ (rank :> {"NUMERIC"})
MCSortable  == {title, price, rank}
MCNoIndex   == {rank}
MCSortIdx   == (title :> 1) @@ (price :> 2) @@ (rank :> 3)
MCSchema    == <<title, price, loc, tags, rank>>
MCTexts     == {w1, wlong, wmid, n1, n2, tg}
MCNumeric   == {n1, n2}
MCGeo       == {tg}
MCSize      == (w1 :> 2) @@ (wlong :> 1100) @@ (wmid :> 600) @@ (n1 :> 2)
               @@ (n2 :> 2) @@ (tg :> 8)
MCTagsOf    == (w1 :> {"w1"}) @@ (wlong :> {"wlong"}) @@ (wmid :> {"wmid"}) @@ (n1 :> {"n1"})
               @@ (n2 :> {"n2"}) @@ (tg :> {"red", "blue"})

Fld(n, t)   == [name |-> n, text |-> t, indexAs |-> {}]
Doc(fs, o)  == [fields |-> fs, opts |-> o, score |-> 1]

\* Full adds: a complete document, blocking and NOBLOCK; a large document
\* (worker pool), also NOBLOCK (inline); two mid-size fields that together
\* cross the threshold; failures in each preprocessor and
\* in SetDocument; a document of NOINDEX fields only.
FullDoc     == <<Fld(title, w1), Fld(price, n1), Fld(loc, tg), Fld(tags, tg)>>
IngestInputs ==
  { Doc(FullDoc, {}),
    Doc(FullDoc, {"NOBLOCK"}),
    Doc(<<Fld(junk, w1), Fld(title, wlong), Fld(tags, tg)>>, {}),
    Doc(<<Fld(title, wlong), Fld(price, n2)>>, {"NOBLOCK"}),
    Doc(<<Fld(title, wlong), Fld(price, w1)>>, {}),
    Doc(<<Fld(junk, w1), Fld(loc, w1)>>, {"NOBLOCK"}),
    Doc(<<Fld(title, w1), Fld(title, n1)>>, {}),
    Doc(<<[name |-> title, text |-> w1, indexAs |-> {"NUMERIC"}]>>, {}),
    Doc(<<Fld(rank, n1)>>, {}),
    Doc(<<Fld(title, wmid), Fld(tags, wmid)>>, {}) }

\* A full add, then a PARTIAL update of an indexable field (ReplaceMerge).
ReindexInputs ==
  { Doc(<<Fld(title, w1), Fld(price, n1)>>, {}),
    Doc(<<Fld(price, n2)>>, {"PARTIAL"}) }

NoPreload   == None

\* Two valid full adds of one key: a large document (worker pool) and a
\* small one (inline).
ReorderInputs ==
  { Doc(<<Fld(title, wlong), Fld(price, n1)>>, {}),
    Doc(<<Fld(title, w1), Fld(price, n2)>>, {}) }

\* A full add, then a PARTIAL update of the NOINDEX sortable rank only
\* (UpdateNoIndex).
MetadataInputs ==
  { Doc(<<Fld(title, w1), Fld(rank, n1)>>, {}),
    Doc(<<Fld(rank, n2)>>, {"PARTIAL"}) }

\* The key already holds {title: w1, rank: n1}; one PARTIAL update of rank.
StoredDoc   == [f \in MCFields |-> IF f = title THEN w1 ELSE IF f = rank THEN n1 ELSE None]
OneReq      == {r1}
RankUpdate  == { Doc(<<Fld(rank, n2)>>, {"PARTIAL"}) }
\* The same update with a value of rank that is not a number.
BadRankUpdate == { Doc(<<Fld(rank, w1)>>, {"PARTIAL"}) }

=============================================================================
