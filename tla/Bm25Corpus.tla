----------------------------- MODULE Bm25Corpus -----------------------------
(***************************************************************************)
(* The BM25 embedder (internal/adapter/embedder/bm25.go): a corpus that     *)
(* Index keeps under a mutex, a vocabulary rebuilt when it is stale, and    *)
(* Embed, which copies what it needs under the mutex and computes its       *)
(* vectors after letting go of it.                                          *)
(*                                                                         *)
(* A term is a number, in the alphabetical order of the terms; a text is    *)
(* the sequence of its tokens. A Go map is a reference: maps holds the term *)
(* indexes that were ever built, and vocabIdx says which one is current.    *)
(* A weight is the tuple of what it is computed from, <<tf, df, n, total,   *)
(* length>>, and is positive when tf > 0 and df <= n (the logarithm of more *)
(* than 1); the absence of a weight is the zero of the vector.              *)
(***************************************************************************)
EXTENDS Naturals, Sequences, FiniteSets, SequencesExt

CONSTANTS
  Docs,       \* the identifiers documents are indexed under
  Terms,      \* the terms, numbers in alphabetical order
  Texts,      \* the token sequences that are indexed
  Batches,    \* the sequences of texts that are embedded
  MaxDims,    \* the length of every vector
  Embedders,  \* the goroutines that call Embed
  MaxIndexes, \* bound: calls of Index
  MaxEmbeds   \* bound: calls of Embed

ASSUME CorpusAssumption ==
  /\ Terms \subseteq Nat /\ Texts \subseteq Seq(Terms)
  /\ Batches \subseteq Seq(Seq(Terms))
  /\ {MaxDims, MaxIndexes, MaxEmbeds} \subseteq Nat \ {0}

VARIABLES
  docs,      \* the tokens of each indexed document
  df,        \* how many documents a term is counted in, for the terms the map has
  totalLen,  \* the sum of the document lengths
  maps,      \* every term index built so far: term -> position
  vocabIdx,  \* the current one; 0 before the first is built
  dirty,     \* the corpus changed since it was built
  emb,       \* what each Embed in flight has copied and computed
  seen,      \* ghost: the documents when each Embed copied
  indexes, embeds

vars == << docs, df, totalLen, maps, vocabIdx, dirty, emb, seen, indexes, embeds >>

TermsOf(text) == ToSet(text)
Occurrences(t, text) == Cardinality({ i \in DOMAIN text : text[i] = t })

Idle == [pc |-> "idle"]

\* A new embedder is empty, and dirty.
Init ==
  /\ docs = << >> /\ df = << >> /\ totalLen = 0
  /\ maps = << >> /\ vocabIdx = 0 /\ dirty = TRUE
  /\ emb = [e \in Embedders |-> Idle]
  /\ seen = [e \in Embedders |-> << >>]
  /\ indexes = 0 /\ embeds = 0

-----------------------------------------------------------------------------
(* The counters, term by term.                                             *)

Count(counts, t) == IF t \in DOMAIN counts THEN counts[t] ELSE 0

\* df[t]-- for each distinct term, and the entry is deleted at zero.
Discounted(counts, text) ==
  [ t \in DOMAIN counts \ { u \in TermsOf(text) : counts[u] = 1 } |->
      IF t \in TermsOf(text) THEN counts[t] - 1 ELSE counts[t] ]

\* df[t]++ for each distinct term.
Counted(counts, text) ==
  [ t \in DOMAIN counts \cup TermsOf(text) |->
      Count(counts, t) + IF t \in TermsOf(text) THEN 1 ELSE 0 ]

OldText(id) == IF id \in DOMAIN docs THEN docs[id] ELSE << >>

\* Mutant: Index leaves what the document counted for before in the counters.
IndexForgetsOld(id, text) ==
  /\ indexes < MaxIndexes
  /\ docs' = [ d \in DOMAIN docs \cup {id} |-> IF d = id THEN text ELSE docs[d] ]
  /\ df' = Counted(df, text)
  /\ totalLen' = totalLen + Len(text)
  /\ dirty' = TRUE
  /\ indexes' = indexes + 1
  /\ UNCHANGED << maps, vocabIdx, emb, seen, embeds >>

\* Index adds or replaces a document, under the mutex from end to end.
Index(id, text) ==
  /\ indexes < MaxIndexes
  /\ docs' = [ d \in DOMAIN docs \cup {id} |-> IF d = id THEN text ELSE docs[d] ]
  /\ df' = Counted(Discounted(df, OldText(id)), text)
  /\ totalLen' = (totalLen - Len(OldText(id))) + Len(text)
  /\ dirty' = TRUE
  /\ indexes' = indexes + 1
  /\ UNCHANGED << maps, vocabIdx, emb, seen, embeds >>

-----------------------------------------------------------------------------
(* Embed.                                                                  *)

\* The rarer term first, ties in alphabetical order.
Before(t, u) == df[t] < df[u] \/ (df[t] = df[u] /\ t < u)

SortedTerms ==
  LET terms == { t \in DOMAIN df : df[t] > 0 } IN
  CHOOSE s \in [1 .. Cardinality(terms) -> terms] :
    \A i, j \in DOMAIN s : i < j => Before(s[i], s[j])

\* The term index over the terms that keep their place under the cap.
BuiltVocab ==
  LET kept == SubSeq(SortedTerms, 1,
                     IF Len(SortedTerms) > MaxDims THEN MaxDims ELSE Len(SortedTerms))
  IN [ t \in ToSet(kept) |-> CHOOSE i \in DOMAIN kept : kept[i] = t ]

\* What Embed copies: the reference of the term index, and the counters.
Snapshot(texts, ref) ==
  [pc |-> "computing", texts |-> texts, idx |-> ref, n |-> Cardinality(DOMAIN docs),
   total |-> totalLen, df |-> df, vectors |-> << >>]

\* Mutant: the index is rebuilt in place, in the map that is shared.
EmbedInPlace(e, texts) ==
  /\ emb[e].pc = "idle" /\ embeds < MaxEmbeds
  /\ maps' = IF dirty THEN << BuiltVocab >> ELSE maps
  /\ vocabIdx' = 1
  /\ dirty' = FALSE
  /\ emb' = [emb EXCEPT ![e] = Snapshot(texts, vocabIdx')]
  /\ seen' = [seen EXCEPT ![e] = docs]
  /\ embeds' = embeds + 1
  /\ UNCHANGED << docs, df, totalLen, indexes >>

\* Under the mutex: rebuild the index if the corpus changed, and copy.
EmbedLocked(e, texts) ==
  /\ emb[e].pc = "idle" /\ embeds < MaxEmbeds
  /\ maps' = IF dirty THEN Append(maps, BuiltVocab) ELSE maps
  /\ vocabIdx' = Len(maps')
  /\ dirty' = FALSE
  /\ emb' = [emb EXCEPT ![e] = Snapshot(texts, vocabIdx')]
  /\ seen' = [seen EXCEPT ![e] = docs]
  /\ embeds' = embeds + 1
  /\ UNCHANGED << docs, df, totalLen, indexes >>

\* The vector of a text: a weight at the position of each term of the index
\* the text holds.
Vector(s, text) ==
  LET idx == maps[s.idx]
      held == { t \in DOMAIN idx : Occurrences(t, text) > 0 }
  IN [ i \in { idx[t] : t \in held } |->
         LET t == CHOOSE u \in held : idx[u] = i
         IN << Occurrences(t, text), Count(s.df, t), s.n, s.total, Len(text) >> ]

\* One text, without the mutex.
EmbedText(e) ==
  /\ emb[e].pc = "computing" /\ Len(emb[e].vectors) < Len(emb[e].texts)
  /\ emb' = [emb EXCEPT ![e].vectors =
               Append(@, Vector(emb[e], emb[e].texts[Len(@) + 1]))]
  /\ UNCHANGED << docs, df, totalLen, maps, vocabIdx, dirty, seen, indexes, embeds >>

\* The context was cancelled before the next text: no vectors at all.
EmbedCancelled(e) ==
  /\ emb[e].pc = "computing" /\ Len(emb[e].vectors) < Len(emb[e].texts)
  /\ emb' = [emb EXCEPT ![e] = Idle]
  /\ seen' = [seen EXCEPT ![e] = << >>]
  /\ UNCHANGED << docs, df, totalLen, maps, vocabIdx, dirty, indexes, embeds >>

EmbedReturns(e) ==
  /\ emb[e].pc = "computing" /\ Len(emb[e].vectors) = Len(emb[e].texts)
  /\ emb' = [emb EXCEPT ![e] = Idle]
  /\ seen' = [seen EXCEPT ![e] = << >>]
  /\ UNCHANGED << docs, df, totalLen, maps, vocabIdx, dirty, indexes, embeds >>

Next ==
  \/ \E id \in Docs, text \in Texts : Index(id, text)
  \/ \E e \in Embedders :
       \/ \E texts \in Batches : EmbedLocked(e, texts)
       \/ EmbedText(e)
       \/ EmbedCancelled(e)
       \/ EmbedReturns(e)

Spec == Init /\ [][Next]_vars

-----------------------------------------------------------------------------
(* Properties. The definitions below read the documents only, never the     *)
(* counters or the index the code keeps.                                    *)

TypeOK ==
  /\ DOMAIN docs \subseteq Docs /\ \A d \in DOMAIN docs : docs[d] \in Texts
  /\ DOMAIN df \subseteq Terms /\ \A t \in DOMAIN df : df[t] \in Nat
  /\ totalLen \in Nat /\ dirty \in BOOLEAN
  /\ vocabIdx \in 0 .. Len(maps)
  /\ \A i \in DOMAIN maps :
       DOMAIN maps[i] \subseteq Terms /\ \A t \in DOMAIN maps[i] : maps[i][t] \in 1 .. MaxDims
  /\ \A e \in Embedders : emb[e].pc \in {"idle", "computing"}
  /\ indexes \in 0 .. MaxIndexes /\ embeds \in 0 .. MaxEmbeds

Holding(corpus, t) == { d \in DOMAIN corpus : t \in TermsOf(corpus[d]) }
CorpusTerms(corpus) == UNION { TermsOf(corpus[d]) : d \in DOMAIN corpus }
\* Where the tokens of the corpus stand: as many places as all documents are long.
Tokens(corpus) == UNION { {d} \X DOMAIN corpus[d] : d \in DOMAIN corpus }

\* The place of a term among the terms of the corpus, the rarest first.
Rank(corpus, t) ==
  1 + Cardinality({ u \in CorpusTerms(corpus) :
        LET du == Cardinality(Holding(corpus, u))
            dt == Cardinality(Holding(corpus, t))
        IN du < dt \/ (du = dt /\ u < t) })

\* The vector of a text in a corpus, from the definition of Okapi BM25.
VectorIn(corpus, text) ==
  LET held == { t \in CorpusTerms(corpus) \cap TermsOf(text) : Rank(corpus, t) <= MaxDims }
  IN [ i \in { Rank(corpus, t) : t \in held } |->
         LET t == CHOOSE u \in held : Rank(corpus, u) = i
         IN << Occurrences(t, text), Cardinality(Holding(corpus, t)),
               Cardinality(DOMAIN corpus), Cardinality(Tokens(corpus)), Len(text) >> ]

\* However often a document was replaced, a term is counted in exactly the
\* documents that hold it, and has an entry only if one does (Index subtracts
\* what the document it replaces had added).
CountsMatchCorpus ==
  /\ DOMAIN df = CorpusTerms(docs)
  /\ \A t \in DOMAIN df : df[t] = Cardinality(Holding(docs, t))
  /\ totalLen = Cardinality(Tokens(docs))

\* Every vector an Embed in flight has computed is the one its text has in the
\* corpus as it was when Embed held the mutex, whatever was indexed, and
\* whichever index was rebuilt, since: positions, frequencies and lengths all
\* come from that one corpus, and from no other history of it. In particular no
\* weight is the logarithm of one or less, and a text with a term of the
\* vocabulary never has the zero vector, which the vector store would refuse.
VectorsOfOneCorpus ==
  \A e \in Embedders : emb[e].pc = "computing" =>
    \A i \in DOMAIN emb[e].vectors :
      emb[e].vectors[i] = VectorIn(seen[e], emb[e].texts[i])
=============================================================================
