---------------------------- MODULE DocumentStore ----------------------------
(***************************************************************************)
(* ai-orchestrator, rag: document_chunks, the searches over it, and the    *)
(* ingestion that fills it.                                                *)
(*                                                                         *)
(* A text stands for its chunks, and a chunk for its embedding: a vector   *)
(* of integers.  Left out: the content, the metadata, and deleteByDocument *)
(* Id, which nothing in the service calls.                                 *)
(***************************************************************************)
EXTENDS Integers, Sequences, FiniteSetsExt

CONSTANTS
    Texts,      \* the documents an administrator may post: source, chunks
    DocIds,     \* document ids (randomUUID)
    Ingesters,  \* ingestions that can be in flight at the same time
    Null

Source == {"policy:", "other"}

ASSUME TextsAssumption == Texts \subseteq [source : Source, parts : Seq(Seq(Int))]
ASSUME DocIdsAssumption == Null \notin DocIds /\ Null \notin Texts

VARIABLES
    chunks,   \* the rows of document_chunks
    ingest,   \* the ingestions in flight
    reported  \* history: the documents a client was told are ingested

storeVars == <<chunks, ingest, reported>>

dot(a, b) == MapThenSumSet(LAMBDA i : a[i] * b[i], DOMAIN a)

\* The cosine as a fraction, squared and with its sign: the order is the same.
cosineSimilarity(a, b) ==
    IF Len(a) # Len(b) \/ a = <<>> \/ dot(a, a) = 0 \/ dot(b, b) = 0
    THEN <<0, 1>>
    ELSE <<IF dot(a, b) < 0 THEN -dot(a, b) * dot(a, b) ELSE dot(a, b) * dot(a, b),
           dot(a, a) * dot(b, b)>>

AtLeast(x, y) == x[1] * y[2] >= y[1] * x[2]

\* What a LIMIT k can leave of S: k elements, or all there are.
First(k, S) == {T \in SUBSET S : Cardinality(T) = Min({k, Cardinality(S)})}

\* Those nearest to the embedding: ties go either way.
similaritySearch(embedding, topK, prefix) ==
    LET found == {c \in chunks : c.source = prefix} IN
    {T \in First(topK, found) : \A c \in T, d \in found \ T :
        AtLeast(cosineSimilarity(embedding, c.embedding),
                cosineSimilarity(embedding, d.embedding))}

Row == [documentId : DocIds, source : Source, part : Nat \ {0}, embedding : Seq(Int)]

\* Row i of document d.
Chunk(d, text, i) ==
    [documentId |-> d, source |-> text.source, part |-> i, embedding |-> text.parts[i]]
Whole(d, text) == {Chunk(d, text, i) : i \in DOMAIN text.parts}

\* An ingestion of a text as document d whose next row is the next one.
Ingesting(d, text, next) == [doc |-> d, text |-> text, next |-> next]
NoIngest == Ingesting(Null, Null, 0)

StoreInit ==
    /\ chunks = {}
    /\ ingest = [g \in Ingesters |-> NoIngest]
    /\ reported = {}

-----------------------------------------------------------------------------

\* ingest() up to the embeddings: a text without chunks is refused.
StartIngest(g, d, text) ==
    /\ ingest[g] = NoIngest
    /\ text.parts # <<>>
    /\ \A c \in chunks : c.documentId # d
    /\ \A k \in Ingesters : ingest[k].doc # d
    /\ ingest' = [ingest EXCEPT ![g] = Ingesting(d, text, 1)]
    /\ UNCHANGED <<chunks, reported>>

\* Mutant: the ids are returned without waiting for the last insert.
InsertChunk_Early(g) ==
    LET q == ingest[g] IN
    /\ q # NoIngest
    /\ chunks' = chunks \cup {Chunk(q.doc, q.text, q.next)}
    /\ IF q.next >= Len(q.text.parts) - 1
       THEN /\ reported' = reported \cup {[doc |-> q.doc, text |-> q.text]}
            /\ ingest' = [ingest EXCEPT ![g] = NoIngest]
       ELSE /\ ingest' = [ingest EXCEPT ![g] = Ingesting(q.doc, q.text, q.next + 1)]
            /\ UNCHANGED reported

\* insertChunks(): one statement per chunk, no transaction around them; after
\* the last one the ids are returned.
InsertChunk(g) ==
    LET q == ingest[g] IN
    /\ q # NoIngest
    /\ q.text.parts[q.next] # <<>>
    /\ chunks' = chunks \cup {Chunk(q.doc, q.text, q.next)}
    /\ IF q.next = Len(q.text.parts)
       THEN /\ reported' = reported \cup {[doc |-> q.doc, text |-> q.text]}
            /\ ingest' = [ingest EXCEPT ![g] = NoIngest]
       ELSE /\ ingest' = [ingest EXCEPT ![g] = Ingesting(q.doc, q.text, q.next + 1)]
            /\ UNCHANGED reported

\* Mutant: a failed ingestion takes back what it has inserted.
IngestFails_Deletes(g) ==
    /\ ingest[g] # NoIngest
    /\ ingest' = [ingest EXCEPT ![g] = NoIngest]
    /\ chunks' = {c \in chunks : c.documentId # ingest[g].doc}
    /\ UNCHANGED reported

\* The embeddings, toVectorLiteral() or an insert throws, or the replica dies:
\* the rows inserted so far stay.
IngestFails(g) ==
    /\ ingest[g] # NoIngest
    /\ ingest' = [ingest EXCEPT ![g] = NoIngest]
    /\ UNCHANGED <<chunks, reported>>

StoreNext ==
    \/ \E g \in Ingesters, d \in DocIds, text \in Texts : StartIngest(g, d, text)
    \/ \E g \in Ingesters : InsertChunk(g) \/ IngestFails(g)

-----------------------------------------------------------------------------
(* Properties *)

\* Whoever was given a document's id and chunk ids finds all of it stored, and
\* of no document are there rows with a gap before them, whatever ingestions
\* overlap or die on the way (insertChunks() without a transaction).
IngestedWhole ==
    /\ \A r \in reported : Whole(r.doc, r.text) \subseteq chunks
    /\ \A c \in chunks : \A i \in 1..(c.part - 1) :
          \E b \in chunks : b.documentId = c.documentId /\ b.part = i
===============================================================================
