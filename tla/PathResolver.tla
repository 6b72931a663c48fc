---------------------------- MODULE PathResolver ----------------------------
(***************************************************************************)
(* How (bundle root, relative path) becomes an absolute path                *)
(* (internal/adapter/okf/pathresolver.go), over a file tree with symbolic   *)
(* links.                                                                   *)
(*                                                                         *)
(* An absolute path is the sequence of its names. A spelling is what a      *)
(* caller writes: the components between its slashes, "" where a slash      *)
(* leads, trails or is doubled, "." and ".." included. A tree is a function *)
(* from the paths that exist to their nodes; a link carries the real path   *)
(* it leads to, which may not exist. A path that is resolved is returned as *)
(* the set of it, a refusal as the empty set. What goes along a path name   *)
(* by name is a recursive function of how far it has come.                  *)
(***************************************************************************)
EXTENDS Naturals, Sequences, SequencesExt

CONSTANT Names  \* the names of files and directories

ASSUME NamesAssumption == {"", ".", ".."} \cap Names = {}

Paths == Seq(Names)
Spellings == Seq(Names \cup {"", ".", ".."})

\* filepath.Clean of an absolute path, one component after the other.
Cleaned(path, c) ==
  CASE c \in {"", "."}            -> path
    [] c = ".." /\ path = << >>   -> path
    [] c = ".." /\ path # << >>   -> Front(path)
    [] OTHER                      -> Append(path, c)
Clean(spelling) ==
  LET at[i \in 0 .. Len(spelling)] == IF i = 0 THEN << >> ELSE Cleaned(at[i - 1], spelling[i])
  IN at[Len(spelling)]

\* filepath.Join cleans what it joins.
Join(path, spelling) == Clean(path \o spelling)

Below(path, dir) == IsStrictPrefix(dir, path)

\* The file system, as os and filepath see it.
IsKind(fs, path, kind) == path \in DOMAIN fs /\ fs[path].kind = kind

\* Where a path leads when the links on it, the last included, are followed,
\* one name after the other.
Entered(fs, at, c) ==
  IF IsKind(fs, Append(at, c), "link") THEN fs[Append(at, c)].to ELSE Append(at, c)
Follow(fs, path) ==
  LET at[i \in 0 .. Len(path)] == IF i = 0 THEN << >> ELSE Entered(fs, at[i - 1], path[i])
  IN at[Len(path)]

Exists(fs, path) == Follow(fs, path) \in DOMAIN fs \cup {<< >>}
IsDir(fs, path) == Follow(fs, path) = << >> \/ IsKind(fs, Follow(fs, path), "dir")
IsFile(fs, path) == IsKind(fs, Follow(fs, path), "file")

\* ENOTDIR: the path goes on below a file.
ThroughFile(fs, path) ==
  \E i \in 1 .. Len(path) - 1 : IsFile(fs, SubSeq(path, 1, i))

-----------------------------------------------------------------------------

\* The bundle's root with its links resolved; it must exist.
canonicalRoot(fs, root) == { p \in { Follow(fs, root) } : Exists(fs, root) }

\* The cleaned path must be strictly below the root.
containedPath(canon, rel) == { p \in { Join(canon, rel) } : Below(p, canon) }

Reserved == {"index.md", "log.md"}

\* A path that exists must lead to the bundle; one that does not is let through.
symGuardExisting(fs, path, canon) ==
  /\ ~ThroughFile(fs, path)
  /\ Exists(fs, path) => IsPrefix(canon, Follow(fs, path))

\* No component below the root is a link, as far as the path exists.
symGuardNew(fs, path, canon) ==
  /\ ~ThroughFile(fs, path)
  /\ \A i \in Len(canon) + 1 .. Len(path) : ~IsKind(fs, SubSeq(path, 1, i), "link")

\* For reading a concept.
Resolve(fs, root, rel) ==
  UNION { { p \in containedPath(canon, rel) :
              Last(p) \notin Reserved /\ symGuardExisting(fs, p, canon) }
          : canon \in canonicalRoot(fs, root) }

\* Mutant: the name is looked at as it is spelled, before the path is cleaned.
ResolveNewBySpelling(fs, root, rel) ==
  UNION { { p \in containedPath(canon, rel) :
              Last(rel) \notin Reserved /\ symGuardNew(fs, p, canon) }
          : canon \in canonicalRoot(fs, root) }

\* For writing a concept.
ResolveNew(fs, root, rel) ==
  UNION { { p \in containedPath(canon, rel) :
              Last(p) \notin Reserved /\ symGuardNew(fs, p, canon) }
          : canon \in canonicalRoot(fs, root) }

\* For index.md and log.md, and for the directory of a listing.
ResolveReserved(fs, root, rel) ==
  UNION { { p \in containedPath(canon, rel) : symGuardNew(fs, p, canon) }
          : canon \in canonicalRoot(fs, root) }
=============================================================================
