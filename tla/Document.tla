------------------------------ MODULE Document ------------------------------
(***************************************************************************)
(* An OKF document as text and as a concept                                 *)
(* (internal/adapter/okf/parser.go).                                        *)
(*                                                                         *)
(* A text is the non-empty sequence of its lines, what strings.Split(s,     *)
(* "\n") makes of it: the empty text is one empty line, and a text that     *)
(* ends with a newline has an empty last line. A frontmatter is the set of  *)
(* its YAML lines, of which at most one is a type line; yaml.v3 accepts a   *)
(* block of such lines and refuses a key twice or a line that is no YAML.   *)
(* It writes no line that is a delimiter.                                   *)
(*                                                                         *)
(* The values of type, title, description, resource and tags are written   *)
(* as plain scalars without a tag. yaml.v3 reads a plain "null" or "~" as   *)
(* null, and leaves what it decodes into untouched: a line with such a      *)
(* value is read as if it were not there.                                   *)
(***************************************************************************)
EXTENDS Naturals, Sequences, FiniteSets, SequencesExt, FiniteSetsExt

CONSTANTS
  Delimiters,  \* "---", with any number of carriage returns after it
  TypeLines,   \* "type: ..." lines, one for each type
  ExtraLines,  \* lines of the other keys
  NullLines    \* those of them whose value is read as null

ASSUME LinesAssumption ==
  /\ "---" \in Delimiters /\ "" \notin Delimiters
  /\ (Delimiters \cup {""}) \cap (TypeLines \cup ExtraLines) = {}
  /\ TypeLines \cap ExtraLines = {}
  /\ NullLines \subseteq TypeLines \cup ExtraLines
  /\ {""} \cup Delimiters \cup TypeLines \cup ExtraLines \subseteq STRING

EmptyText == << "" >>
EndsWithNewline(text) == Len(text) > 1 /\ Last(text) = ""
Delimiter(line) == line \in Delimiters

\* strings.Join of no lines is the empty text.
Lines(seq) == IF seq = << >> THEN EmptyText ELSE seq

\* strings.TrimPrefix(body, "\n")
TrimNewline(text) == IF Len(text) > 1 /\ Head(text) = "" THEN Tail(text) ELSE text

\* Mutant: the last line of dashes ends the frontmatter.
splitFrontmatterLast(text) ==
  LET closing == { i \in 2 .. Len(text) : Delimiter(text[i]) } IN
  IF Len(text) < 2 \/ ~Delimiter(text[1]) \/ closing = {}
  THEN [head |-> << >>, body |-> text]
  ELSE [head |-> SubSeq(text, 2, Max(closing) - 1),
        body |-> TrimNewline(Lines(SubSeq(text, Max(closing) + 1, Len(text))))]

\* The first two lines of dashes delimit the frontmatter; without them the
\* whole text is body.
splitFrontmatter(text) ==
  LET closing == { i \in 2 .. Len(text) : Delimiter(text[i]) } IN
  IF Len(text) < 2 \/ ~Delimiter(text[1]) \/ closing = {}
  THEN [head |-> << >>, body |-> text]
  ELSE [head |-> SubSeq(text, 2, Min(closing) - 1),
        body |-> TrimNewline(Lines(SubSeq(text, Min(closing) + 1, Len(text))))]

TypeOf(fm) == fm \cap TypeLines

\* Blank is the empty frontmatter; a key twice, two types and a line that is no
\* YAML are errors; a null value is none.
parseFrontmatter(head) ==
  { lines \ NullLines
    : lines \in { lines \in { ToSet(head) \ {""} } :
        /\ lines \subseteq TypeLines \cup ExtraLines
        /\ \A i, j \in 1 .. Len(head) : i # j /\ head[i] = head[j] => head[i] = ""
        /\ \A t, u \in TypeOf(lines) : t = u } }

\* The concept of a text, if its frontmatter parses.
ParseConcept(text) ==
  { [fm |-> fm, body |-> splitFrontmatter(text).body]
    : fm \in parseFrontmatter(splitFrontmatter(text).head) }

\* The string "null" is a type, though it is read back as none.
ValidateFrontmatter(fm) == TypeOf(fm) # {}

\* The type first, then the other keys in any order: those the domain knows have
\* one, the rest come out of a Go map. Only what has a type is serialized.
Encodings(fm) ==
  UNION { { << type >> \o extra : extra \in SetToSeqs(fm \cap ExtraLines) }
          : type \in TypeOf(fm) }

\* A body that is not empty ends with a newline.
withNewline(body) ==
  IF body = EmptyText \/ EndsWithNewline(body) THEN body ELSE Append(body, "")

\* The texts a concept may be written as.
SerializeConcept(concept) ==
  { << "---" >> \o fm \o << "---" >> \o withNewline(concept.body)
    : fm \in Encodings(concept.fm) }
=============================================================================
