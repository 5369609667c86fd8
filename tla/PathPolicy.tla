------------------------------ MODULE PathPolicy ------------------------------
(***************************************************************************)
(* Which path an agent's tool may touch: parsing and policy                *)
(* (crates/domain/src/path_policy.rs) and confinement to the worktree      *)
(* (crates/infrastructure/src/paths.rs).                                   *)
(*                                                                         *)
(* A path is a sequence of segments.  A file tree maps the paths that exist*)
(* to a directory, to a file with its content or to a link with the path it*)
(* names.  Which paths a glob matches is given by the constants.           *)
(***************************************************************************)
EXTENDS Naturals, Sequences, SequencesExt

CONSTANTS
  Root,        \* the worktree
  Sensitive,   \* relative paths that match a sensitive pattern
  Protected,   \* relative paths that match a protected pattern
  Approved     \* approved_protected_paths

Dir == [kind |-> "dir"]
File(content) == [kind |-> "file", content |-> content]
Link(target) == [kind |-> "link", target |-> target]

NoPath == << >>

\* RelativeWorkspacePath::parse.  A raw path has what it starts with, whether it has a
\* control character, and its segments; the result is NoPath where parse fails.
Parse(raw) ==
  LET kept == SelectSeq(raw.segments, LAMBDA s : s \notin {"", "."})
  IN  IF raw.lead # "relative" \/ raw.control \/ Contains(raw.segments, "..") THEN NoPath
      ELSE kept

\* evaluate_path
Permits(rel, access) ==
  /\ rel \notin Sensitive
  /\ access = "read" \/ rel \in Approved \/ rel \notin Protected

(***************************************************************************)
(* File trees.                                                             *)
(***************************************************************************)
Parents(path) == {SubSeq(path, 1, n) : n \in 1..Len(path) - 1}
Links(tree) == {p \in DOMAIN tree : tree[p].kind = "link"}

\* What a file system keeps: only a directory has entries.  A link names a path without
\* links, and no path runs through two of them.
IsTree(tree) ==
  /\ DOMAIN tree \subseteq Seq(STRING) \ {NoPath}
  /\ \A p \in DOMAIN tree :
       /\ tree[p].kind \in {"dir", "file", "link"} /\ (tree[p].kind = "dir" => tree[p] = Dir)
       /\ \A d \in Parents(p) : d \in DOMAIN tree /\ tree[d] = Dir
  /\ \A p \in Links(tree) :
       /\ tree[p].target \in Seq(STRING)
       /\ \A q \in Links(tree) : ~IsPrefix(tree[p].target, q) /\ ~IsPrefix(q, tree[p].target)

\* canonicalize: the link on a path is replaced by what it names.
Canonical(tree, path) ==
  LET isLink(n) == SubSeq(path, 1, n) \in DOMAIN tree /\ tree[SubSeq(path, 1, n)].kind = "link"
      links     == {n \in 1..Len(path) : isLink(n)}
  IN  IF links = {} THEN path
      ELSE LET n == CHOOSE n \in links : TRUE
           IN  tree[SubSeq(path, 1, n)].target \o SubSeq(path, n + 1, Len(path))

Exists(tree, path) == Canonical(tree, path) \in DOMAIN tree

IsInside(path) == IsPrefix(Root, path)

\* nearest_existing_ancestor
Ancestor(tree, path) ==
  LET n == CHOOSE n \in 0..Len(path) :
             /\ n = 0 \/ Exists(tree, SubSeq(path, 1, n))
             /\ \A m \in n + 1..Len(path) : ~Exists(tree, SubSeq(path, 1, m))
  IN  SubSeq(path, 1, n)

\* resolve_without_escape: the nearest ancestor that exists decides.  NoPath is a refusal.
\* Mutant: the joined path is compared with the root before links are resolved.
JoinsWithoutResolving(tree, path) == IF IsInside(path) THEN path ELSE NoPath
Resolve(tree, path) ==
  LET known    == Ancestor(tree, path)
      resolved == Canonical(tree, known)
  IN  IF IsInside(resolved) THEN resolved \o SubSeq(path, Len(known) + 1, Len(path))
      ELSE NoPath

\* confine: the absolute path, or NoPath.
Confine(tree, raw, access) ==
  LET rel == Parse(raw)
  IN  IF rel = NoPath \/ ~Permits(rel, access) THEN NoPath
      ELSE Resolve(tree, Root \o rel)

\* confined_working_directory: a link is never entered.
WorkingDirectory(tree, raw) ==
  LET rel  == Parse(raw)
      path == Root \o rel
  IN  IF rel = NoPath \/ (path \in DOMAIN tree /\ tree[path].kind = "link") THEN NoPath
      ELSE LET found == Resolve(tree, path)
           IN  IF found \in DOMAIN tree /\ tree[found] = Dir THEN found ELSE NoPath
=============================================================================
