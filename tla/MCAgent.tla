------------------------------- MODULE MCAgent -------------------------------
(***************************************************************************)
(* A repository with a source directory, a protected and a sensitive file, *)
(* a link out of the worktree, one that names nothing, one to a directory  *)
(* inside and one to the sensitive file.                                   *)
(***************************************************************************)
EXTENDS AgentProperties

MCRoot == << "wt" >>
MCTree ==
  LET dirs  == {<< "wt" >>, << "wt", "src" >>, << "wt", "ci" >>, << "out" >>}
      files == {<< "wt", "src", "a" >>, << "wt", "ci", "w" >>, << "wt", "key" >>, << "out", "x" >>}
      links == {<< "wt", "link" >>, << "wt", "dead" >>, << "wt", "alias" >>, << "wt", "notes" >>}
  IN  [p \in dirs \cup files \cup links |->
         IF p \in dirs THEN Dir
         ELSE IF p \in files THEN File("base")
         ELSE IF p = << "wt", "link" >> THEN Link(<< "out" >>)
         ELSE IF p = << "wt", "alias" >> THEN Link(<< "wt", "src" >>)
         ELSE IF p = << "wt", "notes" >> THEN Link(<< "wt", "key" >>)
         ELSE Link(<< "out", "gone" >>)]

MCProtected == {<< "ci", "w" >>}
MCSensitive == {<< "key" >>}
MCRawPaths ==
  {Plain(s) : s \in {<< "alias", "a" >>, << "ci", ".", "w" >>, << "key" >>, << "link", "x" >>,
                     << "dead" >>, << "notes" >>, << "..", "out", "x" >>}}
  \cup {[Plain(<< "out", "x" >>) EXCEPT !.lead = "absolute"]}

Change(from, to) == [from |-> from, to |-> to]
MCPatches ==
  {[links |-> FALSE, changes |-> c] :
     c \in {{Change(<< "src", "a" >>, << "src", "n", "a" >>)},
            {Change(<< "ci", "w" >>, << "src", "w" >>)},
            {Change(<< "src", "a" >>, << "ci", "v", "a" >>), Change(NoPath, << "link", "y" >>)}}}
  \cup {[links |-> TRUE, changes |-> {Change(NoPath, << "src", "l" >>)}]}
MCSubdirectory == Plain(<< "src" >>)
MCWorkFiles == {<< "wt", "src", "a" >>}
=============================================================================
