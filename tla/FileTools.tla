------------------------------- MODULE FileTools ------------------------------
(***************************************************************************)
(* path_allowed of crates/sa-core-types/policy.rs and the three ways of the *)
(* agent to a file: read_file and write_file (sa-tools/lib.rs), which ask   *)
(* it, and code that the kernel confines (sa-exec/landlock_linux.rs), which *)
(* does not.  A path is absolute, the sequence of its components; `.`       *)
(* disappears in Path::components.  A tree maps the real place of           *)
(* everything that exists to what is there.                                *)
(***************************************************************************)
EXTENDS Naturals, SequencesExt

CONSTANTS
  Name,       \* the names of files and directories
  Tree,       \* the trees that the tools may find
  Roots,      \* the read_roots and write_roots that may be configured
  Depth,      \* bound: the components of a path that is asked for
  MaxNodes    \* bound: what a tree may grow to

Dir == [is |-> "dir", to |-> <<>>]
File == [is |-> "file", to |-> <<>>]
Written == [is |-> "written", to |-> <<>>]
LinkTo(place) == [is |-> "link", to |-> place]

None == <<"none">>

Node == [is : {"dir", "file", "written", "link"}, to : Seq(Name)]

\* What exists is in a directory that exists; a link leads to the real place of
\* something that exists.
IsTree(fs) ==
  /\ fs \in [DOMAIN fs -> Node] /\ DOMAIN fs \subseteq Seq(Name)
  /\ <<>> \in DOMAIN fs /\ fs[<<>>] = Dir
  /\ \A p \in DOMAIN fs \ {<<>>} : Front(p) \in DOMAIN fs /\ fs[Front(p)] = Dir
  /\ \A p \in DOMAIN fs :
       IF fs[p].is = "link" THEN fs[p].to \in DOMAIN fs /\ fs[fs[p].to].is # "link"
       ELSE fs[p] \in {Dir, File, Written}

\* Of the constants; MCExchanges assumes it.
FileToolsAssumption ==
  /\ Name \cap {"none", ".."} = {}
  /\ \A fs \in Tree : IsTree(fs)
  /\ \A roots \in Roots : roots \subseteq Seq(Name \cup {".."})
  /\ Depth \in Nat /\ MaxNodes \in Nat

VARIABLES
  read_roots, write_roots,   \* the policy
  nodes,                     \* the tree
  text                       \* the place whose text the last call returned, or None

vars == <<read_roots, write_roots, nodes, text>>

Request == UNION {[1..n -> Name \cup {".."}] : n \in 1..Depth}
-----------------------------------------------------------------------------
(* The kernel.                                                             *)

\* The place that component c leads to from the place `at`.
Enter(fs, at, c) ==
  IF at = None \/ fs[at].is # "dir" THEN None
  ELSE IF c = ".." THEN IF at = <<>> THEN at ELSE Front(at)
  ELSE IF Append(at, c) \notin DOMAIN fs THEN None
  ELSE IF fs[Append(at, c)].is = "link" THEN fs[Append(at, c)].to
  ELSE Append(at, c)

\* The real places of the first k components of a path, None where there is
\* nothing.
Places(path) ==
  LET at[k \in 0..Len(path)] == IF k = 0 THEN <<>> ELSE Enter(nodes, at[k - 1], path[k])
  IN  at

canonicalize(path) == Places(path)[Len(path)]

Exists(path) == canonicalize(path) # None

Beneath(place, roots) ==
  \E r \in roots : Exists(r) /\ IsPrefix(canonicalize(r), place)

With(fs, place, node) ==
  [p \in DOMAIN fs \cup {place} |-> IF p = place THEN node ELSE fs[p]]

\* One directory of create_dir_all.
MakeDir(made, c) ==
  IF made.at # None /\ c # ".." /\ made.fs[made.at] = Dir
     /\ Append(made.at, c) \notin DOMAIN made.fs
  THEN [fs |-> With(made.fs, Append(made.at, c), Dir), at |-> Append(made.at, c)]
  ELSE [made EXCEPT !.at = Enter(made.fs, made.at, c)]

create_dir_all(path) ==
  LET made[k \in 0..Len(path)] ==
        IF k = 0 THEN [fs |-> nodes, at |-> <<>>] ELSE MakeDir(made[k - 1], path[k])
  IN  made[Len(path)]
-----------------------------------------------------------------------------
(* The policy.                                                             *)

\* `..` takes away the component before it, and fails above the root.
normalize(path) ==
  LET norm[k \in 0..Len(path)] ==
        IF k = 0 THEN <<>>
        ELSE IF norm[k - 1] = None THEN None
        ELSE IF path[k] # ".." THEN Append(norm[k - 1], path[k])
        ELSE IF norm[k - 1] = <<>> THEN None ELSE Front(norm[k - 1])
  IN  norm[Len(path)]

LexicallyIn(root, path) ==
  LET norm == normalize(path)
  IN  norm # None /\ normalize(root) # None /\ IsPrefix(normalize(root), norm)

\* The longest existing ancestor, resolved, with the rest behind it; file_name
\* is None for a rest with `..` in it.
resolves_within(root, path) ==
  LET at == Places(path)
      existing == Max({k \in 0..Len(path) : at[k] # None})
      remainder == SubSeq(path, existing + 1, Len(path))
  IN  /\ ".." \notin ToSet(remainder)
      /\ IsPrefix(canonicalize(root), at[existing] \o remainder)

\* An operator named Mut... is a faulty variant of a definition after it, kept
\* to show that a property would notice the fault.
MutLexicalOnly(path, write) ==
  LET roots == IF write THEN write_roots ELSE read_roots
  IN  \E r \in roots : LexicallyIn(r, path)

\* For a write, a root that exists must hold the resolved path; a root that
\* does not is compared as text.
path_allowed(path, write) ==
  LET roots == IF write THEN write_roots ELSE read_roots
  IN  /\ \E r \in roots : LexicallyIn(r, path)
      /\ write => \E r \in roots : IF Exists(r) THEN resolves_within(r, path)
                                                ELSE LexicallyIn(r, path)
-----------------------------------------------------------------------------
Init ==
  /\ read_roots \in Roots
  /\ write_roots \in Roots
  /\ nodes \in Tree
  /\ text = None

Refuses(path, write) ==
  /\ ~path_allowed(path, write)
  /\ text' = None
  /\ UNCHANGED nodes

\* read_file: read_to_string fails for a directory and for nothing.
ReadFile(path) ==
  /\ \/ Refuses(path, FALSE)
     \/ /\ path_allowed(path, FALSE)
        /\ LET place == canonicalize(path)
           IN  text' = IF place # None /\ nodes[place].is # "dir" THEN place ELSE None
        /\ UNCHANGED nodes
  /\ UNCHANGED <<read_roots, write_roots>>

\* write_file: the parent directories, and then the file; directories that
\* were made stay when the write fails.
WriteFile(path) ==
  /\ \/ Refuses(path, TRUE)
     \/ /\ path_allowed(path, TRUE)
        /\ LET made == create_dir_all(Front(path))
               name == Last(path)
               there == Enter(made.fs, made.at, name)
               place == IF there # None THEN there ELSE Append(made.at, name)
           IN  /\ Cardinality(DOMAIN made.fs) < MaxNodes
               /\ IF made.at # None /\ made.fs[made.at] = Dir
                     /\ (IF there # None THEN made.fs[there] # Dir ELSE name # "..")
                  THEN nodes' = With(made.fs, place, Written)
                  ELSE nodes' = made.fs
        /\ text' = None
  /\ UNCHANGED <<read_roots, write_roots>>
-----------------------------------------------------------------------------
(* Confined code: apply_landlock grants what lies beneath the write roots    *)
(* that exist, wherever the path to it leads.                               *)

\* The code makes a directory, a file or a link; a link leads to something
\* that exists.
ConfinedMakes(path, node) ==
  /\ Cardinality(DOMAIN nodes) < MaxNodes
  /\ LET at == canonicalize(Front(path))
         place == Append(at, Last(path))
     IN  /\ Last(path) # ".." /\ at # None
         /\ nodes[at] = Dir /\ Beneath(at, write_roots)
         /\ place \notin DOMAIN nodes
         /\ nodes' = With(nodes, place, node)
  /\ text' = None
  /\ UNCHANGED <<read_roots, write_roots>>

\* The code writes a file that is there.
ConfinedWrites(path) ==
  /\ Exists(path) /\ nodes[canonicalize(path)] = File
  /\ Beneath(canonicalize(path), write_roots)
  /\ nodes' = [nodes EXCEPT ![canonicalize(path)] = Written]
  /\ text' = None
  /\ UNCHANGED <<read_roots, write_roots>>

Target == {place \in DOMAIN nodes : nodes[place].is # "link"}

Next ==
  \E path \in Request :
    \/ ReadFile(path) \/ WriteFile(path) \/ ConfinedWrites(path)
    \/ \E node \in {Dir, Written} \cup {LinkTo(place) : place \in Target} :
         ConfinedMakes(path, node)

Spec == Init /\ [][Next]_vars
-----------------------------------------------------------------------------
Same(place) ==
  /\ place \in DOMAIN nodes \cap DOMAIN nodes'
  /\ nodes'[place] = nodes[place]

\* Whatever links confined code has left, a tool changes nothing outside the
\* real places of the write roots while these exist (policy.rs:20-26), and in a
\* tree without links, where `..` means what it says, read_file returns no text
\* from outside the read roots, if these are written without it.
Contained ==
  /\ (\A r \in write_roots : Exists(r)) =>
       \A place \in DOMAIN nodes \cup DOMAIN nodes' :
         Same(place) \/ Beneath(place, write_roots)
  /\ /\ text' # None /\ \A p \in DOMAIN nodes : nodes[p].is # "link"
     /\ \A r \in read_roots : ".." \notin ToSet(r)
     => Beneath(text', read_roots)

PathsContained == [][Contained]_vars
=============================================================================
