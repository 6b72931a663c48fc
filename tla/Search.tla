-------------------------------- MODULE Search --------------------------------
(***************************************************************************)
(* One search, from the tool call to its answer: the handlers              *)
(* (internal/adapter/mcp/handlers.go, cmd/tahu/main.go), SearchService     *)
(* (internal/usecase/search.go) and HNSWStore.Search                       *)
(* (internal/adapter/vectorstore/hnsw.go), over any content of the vector  *)
(* store.  The store's read lock is held from the fetch to the result, so  *)
(* the content does not change (module VectorIndex).                       *)
(*                                                                         *)
(* Each concept has one chunk; a chunk in the store has a similarity to    *)
(* the query.  The graph library is external and approximate: it answers   *)
(* with any nodes, at most as many as it is asked for.  The properties     *)
(* that need the nearest ones say so (GraphWasExact).                      *)
(*                                                                         *)
(* Addresses - scopes (internal/domain/chunk.go), references of concepts   *)
(* and the Source of a result - are strings: a string is the sequence of   *)
(* its letters and its separators, ":" and "/".                            *)
(***************************************************************************)
EXTENDS Naturals, Sequences, FiniteSets, SequencesExt, FiniteSetsExt

CONSTANTS
  Letters,      \* what addresses are written with, ":" and "/" among it
  Concepts,     \* concepts: records of an alias and a path
  Texts,        \* scope arguments callers send
  TopKs,        \* top_k arguments callers send
  MinScores,    \* min_score arguments callers send
  Absent,       \* no chunk in the store; also an argument left out
  MaxScore,     \* bound: similarities are 0 .. MaxScore
  Oversample,   \* oversampleFactor (20 in the code)
  DefaultTopK,  \* top_k of search_semantic and search_keyword when left out (10)
  RagDefault,   \* top_k of search_rag and the CLI when left out (5)
  RagMax        \* what search_rag clamps top_k to (20)

ASSUME ConstantsAssumption ==
  /\ IsFiniteSet(Concepts)
  /\ \A c \in Concepts :
       /\ DOMAIN c = {"alias", "path"}
       /\ c.alias \in Seq(Letters) /\ c.path \in Seq(Letters)
  /\ Texts \subseteq Seq(Letters) /\ {":", "/"} \subseteq Letters
  /\ TopKs \ {Absent} \subseteq Int
  /\ MaxScore \in Nat /\ MinScores \subseteq 0 .. MaxScore
  /\ Absent \notin 0 .. MaxScore
  /\ {Oversample, DefaultTopK, RagDefault, RagMax} \subseteq Nat \ {0}

-----------------------------------------------------------------------------
Colon == << ":" >>
Slash == << "/" >>
Malformed == [kind |-> "malformed"]

\* strings.Index(s, ":"), counted from 1; 0 when there is none.
FirstColon(s) ==
  IF \E i \in DOMAIN s : s[i] = ":"
  THEN CHOOSE i \in DOMAIN s : s[i] = ":" /\ \A j \in 1 .. i - 1 : s[j] # ":"
  ELSE 0

Before(s) == SubSeq(s, 1, FirstColon(s) - 1)
After(s) == SubSeq(s, FirstColon(s) + 1, Len(s))

\* The alias of a bundle scope is all that follows; a path scope is cut at its
\* first colon.
ParseScope(s) ==
  LET rest == After(s) IN
  CASE s = << "global" >> -> [kind |-> "global"]
    [] IsPrefix(<< "bundle", ":" >>, s) /\ rest # << >> ->
         [kind |-> "bundle", alias |-> rest]
    [] IsPrefix(<< "path", ":" >>, s) /\ FirstColon(rest) > 1 /\ After(rest) # << >> ->
         [kind |-> "path", alias |-> Before(rest), sub |-> After(rest)]
    [] OTHER -> Malformed

\* Mutant: a reference is cut at its last colon.
ParseConceptRefLast(s) ==
  LET last == Max({0} \cup { i \in DOMAIN s : s[i] = ":" }) IN
  IF last > 1
  THEN [kind |-> "ref", alias |-> SubSeq(s, 1, last - 1),
        path |-> SubSeq(s, last + 1, Len(s))]
  ELSE Malformed

\* parseConceptRef cuts at the first colon as well.
ParseConceptRef(s) ==
  IF FirstColon(s) > 1
  THEN [kind |-> "ref", alias |-> Before(s), path |-> After(s)]
  ELSE Malformed

Source(c) == c.alias \o Colon \o c.path

\* Mutant: a bare prefix, which takes "nb/x" to be in "n".
ChunkMatchesPrefix(c, scope) ==
  \/ scope.kind = "global"
  \/ scope.kind = "bundle" /\ c.alias = scope.alias
  \/ scope.kind = "path" /\ c.alias = scope.alias /\ IsPrefix(scope.sub, c.path)

\* A concept is in a path scope if it is that path or lies under it.
ChunkMatchesScope(c, scope) ==
  \/ scope.kind = "global"
  \/ scope.kind = "bundle" /\ c.alias = scope.alias
  \/ /\ scope.kind = "path" /\ c.alias = scope.alias
     /\ c.path = scope.sub \/ IsPrefix(scope.sub \o Slash, c.path)
-----------------------------------------------------------------------------
VARIABLES
  score,    \* the similarity of each chunk in the store to the query
  ask,      \* the call: tool, scope text, top_k, min_score
  scope, topK,
  nan,      \* whether the query is a zero vector: no similarity is a number
  nodes,    \* what the graph returned
  out,      \* the results so far
  reply,    \* the shape of the answer: a list, null or an error
  pc

vars == << score, ask, scope, topK, nan, nodes, out, reply, pc >>

Tools == {"search_semantic", "search_keyword", "search_rag", "cli"}
Held == { c \in Concepts : score[c] # Absent }
NoAsk == [tool |-> "none"]

\* The handlers' defaults and clamps; the CLI hands top_k on as it is.
TopK(tool, k) ==
  CASE tool \in {"search_semantic", "search_keyword"} ->
         IF k = Absent THEN DefaultTopK ELSE Max({k, 1})
    [] tool = "search_rag" -> IF k = Absent THEN RagDefault ELSE Min({Max({k, 1}), RagMax})
    [] tool = "cli" -> IF k = Absent THEN RagDefault ELSE k

\* Mutant: no over-fetch when the results are filtered by scope.
FetchKPlain == topK

FetchK == IF scope.kind = "global" THEN topK ELSE topK * Oversample

Init ==
  /\ score \in [Concepts -> 0 .. MaxScore \cup {Absent}]
  /\ ask = NoAsk /\ scope = Malformed /\ topK = 0 /\ nan = FALSE
  /\ nodes = {} /\ out = << >> /\ reply = "none" /\ pc = "call"

\* A tool is called, with or without min_score.
Call ==
  /\ pc = "call"
  /\ \E tool \in Tools, text \in Texts, k \in TopKs, min \in MinScores :
       /\ tool # "search_rag" => min = 0
       /\ ask' = [tool |-> tool, text |-> text, topK |-> k, min |-> min]
       /\ scope' = ParseScope(text)
       /\ topK' = TopK(tool, k)
  /\ IF scope' = Malformed THEN reply' = "error" /\ pc' = "done"
     ELSE pc' = "embed" /\ UNCHANGED reply
  /\ UNCHANGED << score, nan, nodes, out >>

Embed ==
  /\ pc = "embed"
  /\ nan' \in BOOLEAN
  /\ pc' = "store"
  /\ UNCHANGED << score, ask, scope, topK, nodes, out, reply >>

EmbedFails ==
  /\ pc = "embed"
  /\ reply' = "error" /\ pc' = "done"
  /\ UNCHANGED << score, ask, scope, topK, nan, nodes, out >>

\* Nothing to fetch: the store returns a nil slice.
FetchNothing ==
  /\ pc = "store"
  /\ topK <= 0 \/ Held = {}
  /\ reply' = "null" /\ pc' = "filter"
  /\ UNCHANGED << score, ask, scope, topK, nan, nodes, out >>

Fetch ==
  /\ pc = "store"
  /\ topK > 0 /\ Held # {}
  /\ nodes' \in { N \in SUBSET Held : Cardinality(N) <= FetchK }
  /\ reply' = "list" /\ pc' = "rank"
  /\ UNCHANGED << score, ask, scope, topK, nan, out >>

\* Scope filter, scores that are not a number, stable sort, cut to topK.
Candidates == IF nan THEN {} ELSE { c \in nodes : ChunkMatchesScope(c, scope) }

Ranked(S) ==
  { s \in [1 .. Cardinality(S) -> S] :
      /\ \A i, j \in DOMAIN s : i < j => s[i] # s[j]
      /\ \A i, j \in DOMAIN s : i < j => score[s[i]] >= score[s[j]] }

\* Mutant: cut first, sort afterwards.
RankCutFirst ==
  /\ pc = "rank"
  /\ \E T \in kSubset(Min({topK, Cardinality(Candidates)}), Candidates) : out' \in Ranked(T)
  /\ pc' = "filter"
  /\ UNCHANGED << score, ask, scope, topK, nan, nodes, reply >>

Rank ==
  /\ pc = "rank"
  /\ \E s \in Ranked(Candidates) : out' = SubSeq(s, 1, Min({topK, Len(s)}))
  /\ pc' = "filter"
  /\ UNCHANGED << score, ask, scope, topK, nan, nodes, reply >>

\* RAGSearch keeps the results with at least min_score, in their order and in a
\* slice of its own.
Enough == { i \in DOMAIN out : score[out[i]] >= ask.min }

Filter ==
  /\ pc = "filter"
  /\ IF ask.tool \in {"search_rag", "cli"}
     THEN /\ \E kept \in [1 .. Cardinality(Enough) -> Enough] :
               /\ \A i, j \in DOMAIN kept : i < j => kept[i] < kept[j]
               /\ out' = [i \in DOMAIN kept |-> out[kept[i]]]
          /\ reply' = "list"
     ELSE UNCHANGED << out, reply >>
  /\ pc' = "done"
  /\ UNCHANGED << score, ask, scope, topK, nan, nodes >>

Next == Call \/ Embed \/ EmbedFails \/ FetchNothing \/ Fetch \/ Rank \/ Filter

Spec == Init /\ [][Next]_vars
-----------------------------------------------------------------------------
TypeOK ==
  /\ score \in [Concepts -> 0 .. MaxScore \cup {Absent}]
  /\ topK \in Int /\ nan \in BOOLEAN
  /\ nodes \subseteq Held
  /\ out \in Seq(nodes)
  /\ reply \in {"none", "list", "null", "error"}
  /\ pc \in {"call", "embed", "store", "rank", "filter", "done"}

Answered == pc = "done" /\ reply # "error" /\ ~nan
Returned == ToSet(out)

\* The graph found the nearest nodes, as many as it was asked for or all.
GraphWasExact ==
  topK > 0 =>
    /\ Cardinality(nodes) = Min({FetchK, Cardinality(Held)})
    /\ \A c \in nodes, d \in Held \ nodes : score[c] >= score[d]

\* What a caller is after: the chunks of the bundle, at the path or in the
\* directory of that name, that are near enough.
InDirectory(path, sub) ==
  path = sub \/ \E i \in DOMAIN path : path[i] = "/" /\ SubSeq(path, 1, i - 1) = sub
Wanted ==
  { c \in Held :
      /\ scope.kind # "global" => c.alias = scope.alias
      /\ scope.kind = "path" => InDirectory(c.path, scope.sub)
      /\ score[c] >= ask.min }

\* Whatever nodes the approximate graph comes up with: only chunks in scope and
\* above the threshold are returned, none of them twice, in descending order,
\* and no more than asked for (hnsw.go:141-164, search.go:91-96).
AnswersAreWanted ==
  Answered =>
    /\ Returned \subseteq Wanted
    /\ Cardinality(Returned) = Len(out)
    /\ \A i, j \in DOMAIN out : i < j => score[out[i]] >= score[out[j]]
    /\ Len(out) <= Max({topK, 0})

\* The over-fetch, the scope filter, the sort, the cut and the threshold
\* together never pass over a chunk for one that is further away: unless the
\* graph did, no wanted chunk left out is nearer than one returned
\* (hnsw.go:128-164).
NoneNearerLeftOut ==
  Answered /\ GraphWasExact => \A c \in Returned, d \in Wanted \ Returned : score[c] >= score[d]

\* As many as asked for, if there are as many: the scope filter costs no result
\* while the store holds at most oversampleFactor chunks for each one asked for
\* (hnsw.go:115-116, 128-131).
FullWhenItFits ==
  /\ Answered /\ GraphWasExact
  /\ scope.kind # "global" => Cardinality(Held) <= topK * Oversample
  => Len(out) = Min({Max({topK, 0}), Cardinality(Wanted)})

\* The Source of a result is a reference concept_read takes: it leads back to
\* the bundle and the path of the chunk (hnsw.go:169, domain/chunk.go:22,
\* handlers.go:423-433), also when the path has colons in it.
SourceLeadsBack ==
  \A c \in Returned :
    ParseConceptRef(Source(c)) = [kind |-> "ref", alias |-> c.alias, path |-> c.path]
=============================================================================
