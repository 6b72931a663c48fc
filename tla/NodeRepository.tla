--------------------------- MODULE NodeRepository ---------------------------
(***************************************************************************)
(* The file-backed repository of concepts (internal/adapter/okf/            *)
(* repository.go) with its path resolver, its documents and its links       *)
(* (linker.go), over a file tree that people edit by hand.                  *)
(*                                                                         *)
(* A call checks its path first and touches the files after: every step in  *)
(* between is open to the other calls and to a hand. ConceptWrites models   *)
(* what the use case does around Put (index.md, log.md, torn reads).        *)
(***************************************************************************)
EXTENDS Naturals, Sequences, FiniteSets, PathResolver, Document

CONSTANTS
  Callers,     \* goroutines
  RootOf,      \* the registered root of each alias, as it was given
  Tree,        \* the file tree at the start
  Hands,       \* what a hand may do: [path, node], or [path, gone |-> TRUE]
  Refs,        \* the spellings callers use for a concept
  Subs,        \* the spellings callers use for a directory
  Logs,        \* the spellings the use cases use for a reserved file
  Concepts,    \* the concepts callers put: [fm, body]
  LinkOf,      \* the target of each body line that is a link to a file (no URL): [abs, to]
  Md,          \* the names that end with ".md"
  MaxLines,    \* maxFileBytes, in lines
  MaxCalls,    \* bound: calls
  MaxHands,    \* bound: edits by hand
  MaxFaults    \* bound: failures of the disk

\* The links there may be: those of the tree, and those made by hand.
Links ==
  { [at |-> p, to |-> Tree[p].to] : p \in { p \in DOMAIN Tree : Tree[p].kind = "link" } }
  \cup { [at |-> edit.path, to |-> edit.node.to]
         : edit \in { e \in Hands : "gone" \notin DOMAIN e /\ e.node.kind = "link" } }

IsNode(node) ==
  node.kind \in {"dir", "file", "link"} /\ (node.kind = "link" => node.to \in Paths)
IsTree(tree) ==
  \A p \in DOMAIN tree :
    /\ p \in Paths \ {<< >>} /\ IsNode(tree[p])
    /\ Len(p) > 1 => IsKind(tree, Front(p), "dir")
IsConcept(concept) ==
  /\ IsFiniteSet(concept.fm) /\ concept.fm \subseteq TypeLines \cup ExtraLines
  /\ \A t, u \in TypeOf(concept.fm) : t = u
  /\ concept.body \in Seq(STRING) \ {<< >>}

\* A link carries a real path: no link stands on the way to where one leads. The
\* use cases spell the reserved files by their names.
ASSUME ConstantsAssumption ==
  /\ IsTree(Tree) /\ \A l, m \in Links : ~IsPrefix(l.at, m.to)
  /\ Reserved \subseteq Names
  /\ \A edit \in Hands :
       edit.path \in Paths \ {<< >>} /\ ("gone" \in DOMAIN edit \/ IsNode(edit.node))
  /\ \A alias \in DOMAIN RootOf : RootOf[alias] \in Paths
  /\ Refs \cup Subs \cup Logs \subseteq Spellings \ {<< >>}
  /\ \A rel \in Logs : Last(rel) \in Reserved
  /\ \A concept \in Concepts : IsConcept(concept)
  /\ \A line \in DOMAIN LinkOf : LinkOf[line].abs \in BOOLEAN /\ LinkOf[line].to \in Spellings
  /\ {MaxLines, MaxCalls, MaxHands, MaxFaults} \subseteq Nat

VARIABLES
  fs,      \* the file tree
  mu,      \* the caller that holds the write mutex, if any
  call,    \* what each caller is at
  put,     \* ghost: the documents as they were last put and acknowledged
  raced,   \* ghost: the calls a hand has interfered with
  calls, hands, faults

vars == << fs, mu, call, put, raced, calls, hands, faults >>

Idle == [pc |-> "idle"]
With(f, at, value) == [ x \in DOMAIN f \cup {at} |-> IF x = at THEN value ELSE f[x] ]
Dir == [kind |-> "dir"]
File(text) == [kind |-> "file", text |-> text]

Init ==
  /\ fs = Tree /\ mu = {} /\ put = << >> /\ raced = {}
  /\ call = [c \in Callers |-> Idle]
  /\ calls = 0 /\ hands = 0 /\ faults = 0

\* A call enters its next step, or starts.
Goto(c, record) == call' = [call EXCEPT ![c] = record]
Started(c) ==
  /\ call[c].pc = "idle" /\ calls < MaxCalls
  /\ calls' = calls + 1 /\ raced' = raced \ {c}
  /\ UNCHANGED << fs, mu, put, hands, faults >>

-----------------------------------------------------------------------------
(* The file system.                                                        *)

Missing(path) == { q \in { SubSeq(path, 1, i) : i \in 1 .. Len(path) } : ~Exists(fs, q) }

\* os.MkdirAll: no component is a file or a link that leads nowhere.
CanMake(path) ==
  /\ \A i \in 1 .. Len(path) : ~IsFile(fs, SubSeq(path, 1, i))
  /\ \A q \in Missing(path) : Follow(fs, q) = Append(Follow(fs, Front(q)), Last(q))
Made(path) ==
  [ p \in DOMAIN fs \cup { Follow(fs, q) : q \in Missing(path) } |->
      IF p \in DOMAIN fs THEN fs[p] ELSE Dir ]

\* os.WriteFile follows links, and makes the file if its directory is there.
CanWrite(path) ==
  LET at == Follow(fs, path) IN
  /\ at # << >> /\ ~IsKind(fs, at, "dir") /\ IsDir(fs, Front(at))
Written(path, text) == With(fs, Follow(fs, path), File(text))

\* checkFileSize and os.ReadFile: the text of a file of an accepted size.
TextAt(path) ==
  { text \in IF IsFile(fs, path) THEN { fs[Follow(fs, path)].text } ELSE {} :
      Len(text) <= MaxLines }

-----------------------------------------------------------------------------
(* Put and WriteReserved.                                                  *)

\* Put resolves, validates and serializes before it takes the mutex.
Put(c, alias, rel, concept) ==
  /\ Started(c)
  /\ \/ \E path \in ResolveNew(fs, RootOf[alias], rel), text \in SerializeConcept(concept) :
          /\ ValidateFrontmatter(concept.fm)
          /\ Goto(c, [pc |-> "mkdir", op |-> "put", alias |-> alias, text |-> text,
                      path |-> path, concept |-> concept])
     \/ /\ ResolveNew(fs, RootOf[alias], rel) = {} \/ ~ValidateFrontmatter(concept.fm)
        /\ UNCHANGED call

\* WriteReserved writes what it is given.
WriteReserved(c, alias, rel, text) ==
  /\ Started(c)
  /\ \/ \E path \in ResolveReserved(fs, RootOf[alias], rel) :
          Goto(c, [pc |-> "mkdir", op |-> "write_reserved", alias |-> alias,
                   text |-> text, path |-> path])
     \/ ResolveReserved(fs, RootOf[alias], rel) = {} /\ UNCHANGED call

Unlock(c) == mu' = mu \ {c} /\ Goto(c, Idle)

\* Mutant: the mutex is not waited for.
MkdirAllUnlocked(c) ==
  /\ call[c].pc = "mkdir"
  /\ LET dir == Front(call[c].path) IN
     \/ /\ CanMake(dir)
        /\ fs' = Made(dir)
        /\ mu' = mu \cup {c}
        /\ Goto(c, [call[c] EXCEPT !.pc = "write"])
     \/ ~CanMake(dir) /\ Goto(c, Idle) /\ UNCHANGED << fs, mu >>
  /\ UNCHANGED << put, raced, calls, hands, faults >>

\* Under the mutex, first the directory. What was made stays if it fails.
MkdirAll(c) ==
  /\ call[c].pc = "mkdir" /\ mu = {}
  /\ LET dir == Front(call[c].path) IN
     \/ /\ CanMake(dir)
        /\ fs' = Made(dir)
        /\ mu' = {c}
        /\ Goto(c, [call[c] EXCEPT !.pc = "write"])
     \/ ~CanMake(dir) /\ Goto(c, Idle) /\ UNCHANGED << fs, mu >>
  /\ UNCHANGED << put, raced, calls, hands, faults >>

Acknowledged(c, at) ==
  IF call[c].op = "put" THEN With(put, at, call[c].concept) ELSE put

\* Then the file.
WriteFile(c) ==
  /\ call[c].pc = "write"
  /\ \/ /\ CanWrite(call[c].path)
        /\ fs' = Written(call[c].path, call[c].text)
        /\ put' = Acknowledged(c, Follow(fs, call[c].path))
     \/ ~CanWrite(call[c].path) /\ UNCHANGED << fs, put >>
  /\ Unlock(c)
  /\ UNCHANGED << raced, calls, hands, faults >>

\* The disk refuses the bytes after the file was truncated.
WriteFileFails(c) ==
  /\ call[c].pc = "write" /\ CanWrite(call[c].path) /\ faults < MaxFaults
  /\ fs' = Written(call[c].path, EmptyText)
  /\ put' = [ p \in DOMAIN put \ { Follow(fs, call[c].path) } |-> put[p] ]
  /\ Unlock(c)
  /\ faults' = faults + 1
  /\ UNCHANGED << raced, calls, hands >>

-----------------------------------------------------------------------------
(* Get.                                                                    *)

\* Mutant: a link that starts with a slash is looked up below the concept.
ExtractLinksFromDir(root, dir, body) ==
  { line \in ToSet(body) \cap DOMAIN LinkOf : ~Exists(fs, Join(dir, LinkOf[line].to)) }

\* The links of a body that lead nowhere: from the root of the bundle when the
\* target starts with a slash, else from the directory of the concept.
ExtractLinks(root, dir, body) ==
  { line \in ToSet(body) \cap DOMAIN LinkOf :
      ~Exists(fs, Join(IF LinkOf[line].abs THEN root ELSE dir, LinkOf[line].to)) }

\* What Get makes of the file at a path, if it can be read and parsed.
GetAt(alias, path) ==
  { [fm |-> concept.fm, body |-> concept.body,
     broken |-> ExtractLinks(RootOf[alias], Front(path), concept.body)]
    : concept \in UNION { ParseConcept(text) : text \in TextAt(path) } }

Get(c, alias, rel) ==
  /\ Started(c)
  /\ \/ \E path \in Resolve(fs, RootOf[alias], rel) :
          Goto(c, [pc |-> "get", alias |-> alias, rel |-> rel, path |-> path])
     \/ Resolve(fs, RootOf[alias], rel) = {} /\ UNCHANGED call

GetRead(c) ==
  /\ call[c].pc = "get"
  /\ Goto(c, [pc |-> "got", alias |-> call[c].alias, rel |-> call[c].rel,
              answer |-> GetAt(call[c].alias, call[c].path)])
  /\ UNCHANGED << fs, mu, put, raced, calls, hands, faults >>

ReadReserved(c, alias, rel) ==
  /\ Started(c)
  /\ \/ \E path \in ResolveReserved(fs, RootOf[alias], rel) :
          Goto(c, [pc |-> "read_reserved", path |-> path])
     \/ ResolveReserved(fs, RootOf[alias], rel) = {} /\ UNCHANGED call

ReadReservedText(c) ==
  /\ call[c].pc = "read_reserved"
  /\ Goto(c, [pc |-> "read", answer |-> TextAt(call[c].path)])
  /\ UNCHANGED << fs, mu, put, raced, calls, hands, faults >>

-----------------------------------------------------------------------------
(* List and ListTypes.                                                     *)

\* filepath.WalkDir does not follow the last name of the path it starts at,
\* nor any link it meets, and passes over a path that does not exist.
WalkRoot(path) == IF path = << >> THEN path ELSE Append(Follow(fs, Front(path)), Last(path))

\* Mutant: the walk does not go below the directory it is given.
ListedFlat(alias, sub) ==
  LET top == Join(RootOf[alias], sub) IN
  { SubSeq(top, Len(RootOf[alias]) + 1, Len(top)) \o SubSeq(q, Len(WalkRoot(top)) + 1, Len(q))
    : q \in { q \in DOMAIN fs : /\ IsPrefix(WalkRoot(top), q) /\ fs[q].kind # "dir"
                                /\ Len(q) = Len(WalkRoot(top)) + 1
                                /\ Last(q) \in Md \ Reserved } }

\* The references, relative to the root, of all that is no directory, is called
\* .md and is not reserved. The walk starts from the root as registered.
Listed(alias, sub) ==
  LET top == Join(RootOf[alias], sub) IN
  { SubSeq(top, Len(RootOf[alias]) + 1, Len(top)) \o SubSeq(q, Len(WalkRoot(top)) + 1, Len(q))
    : q \in { q \in DOMAIN fs : /\ IsPrefix(WalkRoot(top), q) /\ fs[q].kind # "dir"
                                /\ Last(q) \in Md \ Reserved } }

\* An empty sub-path is not resolved.
MayList(alias, sub) == sub = << "" >> \/ ResolveReserved(fs, RootOf[alias], sub) # {}

List(c, alias, sub) ==
  /\ Started(c)
  /\ IF MayList(alias, sub) THEN Goto(c, [pc |-> "list", alias |-> alias, sub |-> sub])
     ELSE UNCHANGED call

ListWalk(c) ==
  /\ call[c].pc = "list"
  /\ Goto(c, [pc |-> "listed", answer |-> Listed(call[c].alias, call[c].sub)])
  /\ UNCHANGED << fs, mu, put, raced, calls, hands, faults >>

\* Mutant: a file that cannot be read or parsed ends the listing of types.
TypesOfFileStops(alias, rel) ==
  LET concepts == UNION { ParseConcept(text) : text \in TextAt(Join(RootOf[alias], rel)) } IN
  IF concepts = {} THEN TypeLines ELSE UNION { TypeOf(concept.fm) : concept \in concepts }

\* A listed file is read where it is listed; what cannot be read, or parsed, or
\* has no type, is skipped.
TypesOfFile(alias, rel) ==
  UNION { TypeOf(concept.fm)
          : concept \in UNION { ParseConcept(text) : text \in TextAt(Join(RootOf[alias], rel)) } }

ListTypes(c, alias) ==
  /\ Started(c)
  /\ Goto(c, [pc |-> "types", alias |-> alias, todo |-> Listed(alias, << "" >>),
              types |-> {}])

\* One listed file after another.
ListTypesNext(c) ==
  /\ call[c].pc = "types"
  /\ \E rel \in call[c].todo :
       Goto(c, [call[c] EXCEPT !.todo = @ \ {rel},
                               !.types = @ \cup TypesOfFile(call[c].alias, rel)])
  /\ UNCHANGED << fs, mu, put, raced, calls, hands, faults >>

\* The caller takes the answer.
Return(c) ==
  /\ \/ call[c].pc \in {"got", "read", "listed"}
     \/ call[c].pc = "types" /\ call[c].todo = {}
  /\ Goto(c, Idle)
  /\ UNCHANGED << fs, mu, put, raced, calls, hands, faults >>

-----------------------------------------------------------------------------

\* A hand replaces a path and all below it, or takes it away.
ByHand(edit) ==
  /\ hands < MaxHands
  /\ IsKind(fs, Front(edit.path), "dir")
  /\ LET rest == [ p \in { q \in DOMAIN fs : ~IsPrefix(edit.path, q) } |-> fs[p] ] IN
     fs' = IF "gone" \in DOMAIN edit THEN rest ELSE With(rest, edit.path, edit.node)
  /\ put' = [ p \in { q \in DOMAIN put : ~IsPrefix(edit.path, q) } |-> put[p] ]
  /\ raced' = { c \in Callers : call[c].pc # "idle" }
  /\ hands' = hands + 1
  /\ UNCHANGED << mu, call, calls, faults >>

\* Mutant: path.Dir is taken as it is, "." for the root of the bundle.
conceptDirDot(rel) ==
  LET dir == Clean(Front(rel)) IN
  IF Len(rel) > 1 /\ Head(rel) = "" THEN << "" >> \o (IF dir = << >> THEN << "" >> ELSE dir)
  ELSE IF dir = << >> THEN << "." >> ELSE dir

\* The directory the use case regenerates after a Put (concept.go): "" for the
\* root of the bundle, "/" when the reference starts with its only slash.
conceptDir(rel) ==
  LET dir == Clean(Front(rel)) IN
  IF Len(rel) > 1 /\ Head(rel) = "" THEN << "" >> \o (IF dir = << >> THEN << "" >> ELSE dir)
  ELSE IF dir = << >> THEN << "" >> ELSE dir

Step(c) ==
  \/ \E alias \in DOMAIN RootOf :
       \/ \E rel \in Refs, concept \in Concepts : Put(c, alias, rel, concept)
       \/ \E rel \in Refs : Get(c, alias, rel)
       \/ \E sub \in Subs : List(c, alias, sub)
       \/ ListTypes(c, alias)
       \/ \E rel \in Logs : ReadReserved(c, alias, rel)
       \/ \E rel \in Logs : WriteReserved(c, alias, rel, EmptyText)
  \/ MkdirAll(c) \/ WriteFile(c) \/ WriteFileFails(c)
  \/ GetRead(c) \/ ReadReservedText(c) \/ ListWalk(c) \/ ListTypesNext(c)
  \/ Return(c)

Next == \/ \E c \in Callers : Step(c)
        \/ \E edit \in Hands : ByHand(edit)

Spec == Init /\ [][Next]_vars

-----------------------------------------------------------------------------
(* Properties.                                                             *)

TypeOK ==
  /\ IsTree(fs)
  /\ mu \subseteq Callers /\ Cardinality(mu) <= 1
  /\ \A c \in Callers :
       call[c].pc \in {"idle", "mkdir", "write", "get", "got", "read_reserved", "read",
                      "list", "listed", "types"}
  /\ \A p \in DOMAIN put : p \in DOMAIN fs /\ put[p] \in Concepts
  /\ raced \subseteq Callers
  /\ calls \in 0 .. MaxCalls /\ hands \in 0 .. MaxHands /\ faults \in 0 .. MaxFaults

Canon(alias) == Follow(fs, RootOf[alias])
HasLinks(alias) == \E p \in DOMAIN fs : Below(p, Canon(alias)) /\ fs[p].kind = "link"
Changed(p) == p \in DOMAIN fs' /\ (p \in DOMAIN fs => fs'[p] # fs[p])

\* Between the check of a path and the last step of a write everything may
\* change. Unless a hand changed the tree in that time, whatever a write makes
\* or changes, directories included, is below the real root of its bundle, and
\* a Put changes no file that is called index.md or log.md, however its
\* reference was spelled.
WritesStayInside ==
  [][\A c \in Callers :
       call[c].pc \in {"mkdir", "write"} /\ call'[c] # call[c] /\ c \notin raced =>
         \A p \in DOMAIN fs' : Changed(p) =>
           /\ Below(p, Canon(call[c].alias))
           /\ call[c].op = "put" /\ fs'[p].kind = "file" => Last(p) \notin Reserved]_vars

Blank == {<< >>, EmptyText}

\* A document that was put is read back under every spelling of its reference,
\* whatever its body holds, lines of dashes included: the same frontmatter but
\* for the values YAML takes for null, which are gone, and no more than them;
\* and the same body but for one blank line at its start and the newline at its
\* end. A file larger than maxFileBytes is the one exception: Put writes it (the
\* limit on a body does not count the frontmatter), and Get refuses it.
PutIsRead ==
  \A alias \in DOMAIN RootOf, rel \in Refs :
    LET p == Join(Canon(alias), rel) IN
    p \in DOMAIN put /\ Below(p, Canon(alias)) /\ Len(fs[p].text) <= MaxLines =>
      \E path \in Resolve(fs, RootOf[alias], rel) :
        \E concept \in GetAt(alias, path) :
          /\ concept.fm = put[p].fm \ NullLines
          /\ \E start, end \in Blank : put[p].body \o end = start \o concept.body

\* "The daemon must enforce OKF write invariants (reserved filenames, required
\* type)" (documents/arch-decisions-record.md:42): what a Put has acknowledged has
\* a type when it is read.
PutIsTyped ==
  \A alias \in DOMAIN RootOf, p \in DOMAIN put :
    \A concept \in GetAt(alias, p) : TypeOf(concept.fm) # {}

\* A listing leads to the documents and the documents are in the listings: a
\* document that was put under a name that ends with .md is listed for the
\* bundle and for every directory it is under, though the walk starts from the
\* root as it was registered and the write from the real root; and in a bundle
\* with no links every listed reference can be resolved for reading.
ListingLeadsBack ==
  \A alias \in DOMAIN RootOf :
    LET canon == Canon(alias)
        rel(p) == SubSeq(p, Len(canon) + 1, Len(p))
    IN /\ \A p \in DOMAIN put, sub \in Subs :
            /\ Below(p, canon) /\ Last(p) \in Md
            /\ MayList(alias, sub) /\ IsPrefix(Join(canon, sub), p)
            => rel(p) \in Listed(alias, sub)
       /\ ~HasLinks(alias) =>
            \A sub \in Subs : \A ref \in Listed(alias, sub) :
              Resolve(fs, RootOf[alias], ref) # {}

\* In a bundle with no links the types listed are those of the documents that
\* can be read: a file that is too big, or is no document, costs only its own.
TypesAreThoseRead ==
  \A alias \in DOMAIN RootOf : ~HasLinks(alias) =>
    UNION { TypesOfFile(alias, rel) : rel \in Listed(alias, << "" >>) }
      = UNION { TypeOf(concept.fm) :
          concept \in UNION { GetAt(alias, p) : p \in { q \in DOMAIN fs :
            Below(q, Canon(alias)) /\ Last(q) \in Md \ Reserved } } }

\* A link to a place in the bundle is marked broken exactly when nothing is
\* there, in a bundle with no links of the file system: targets that start with
\* a slash are looked up from the root as registered, the others from the real
\* directory of the concept.
BrokenIsMissing ==
  \A alias \in DOMAIN RootOf : ~HasLinks(alias) =>
    \A p \in DOMAIN put : \A concept \in GetAt(alias, p) :
      \A line \in ToSet(concept.body) \cap DOMAIN LinkOf :
        LET from == IF LinkOf[line].abs THEN Canon(alias) ELSE Front(p)
            target == Join(from, LinkOf[line].to)
        IN Below(p, Canon(alias)) /\ Below(target, Canon(alias)) =>
             (line \in concept.broken <=> target \notin DOMAIN fs)

\* After a document was put under a reference a handler accepts (no ".."), the
\* rest of the write can follow: its directory, as the use case derives it from
\* the reference, can be listed, and index.md can be written in it ("After any
\* write: index.md is regenerated for the affected directory").
IndexFollows ==
  \A alias \in DOMAIN RootOf, rel \in { r \in Refs : ".." \notin ToSet(r) } :
    Join(Canon(alias), rel) \in DOMAIN put =>
      /\ MayList(alias, conceptDir(rel))
      /\ \E path \in ResolveReserved(fs, RootOf[alias], conceptDir(rel) \o << "index.md" >>) :
           CanWrite(path)
=============================================================================
