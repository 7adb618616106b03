----------------------------- MODULE SchemaPaths ------------------------------
(***************************************************************************)
(* config/types: where the schema of a merged configuration is.  Each of   *)
(* the files may name one, as seen from its own directory; the merged file *)
(* is to lie somewhere else, and the reference is rewritten for there.     *)
(*                                                                         *)
(* A path is absolute, a sequence of names, or relative: so many directo-  *)
(* ries up, and then names.  Directories are absolute.                     *)
(***************************************************************************)
EXTENDS SequencesExt, Integers

VARIABLES
  files,       \* the files to be merged, [dir, schema, config]: never changed
  target,      \* schemaLocationRebaseReference: never changed
  reached,     \* how many of the files are merged
  schema       \* targetFileSchemaPath

schemaVars == <<files, target, reached, schema>>

NoSchema == [kind |-> "none"]      \* the file has no $schema
Blank    == [kind |-> "blank"]     \* the file has an empty one
Abs(s)   == [kind |-> "abs", path |-> s]
Rel(u, s) == [kind |-> "rel", up |-> u, down |-> s]

\* filepath.Join of a directory and a path, cleaned: up from the root is the root.
Join(dir, p) ==
  IF p.kind = "abs" THEN p.path
  ELSE SubSeq(dir, 1, IF p.up < Len(dir) THEN Len(dir) - p.up ELSE 0) \o p.down

\* filepath.Rel: up to what both have in common, and down again.
RelTo(dir, goal) ==
  LET shared == LongestCommonPrefix({dir, goal})
  IN  Rel(Len(dir) - Len(shared), SubSeq(goal, Len(shared) + 1, Len(goal)))

ResolveSchemaPath(p, from, to) ==
  IF p.kind = "rel" THEN RelTo(to, Join(from, p)) ELSE p

\* A file that names none leaves what an earlier one has named.
NextSchema ==
  /\ reached < Len(files)
  /\ reached' = reached + 1
  /\ LET f == files[reached + 1]
     IN  schema' = IF f.schema = NoSchema THEN schema
                   ELSE ResolveSchemaPath(f.schema, f.dir, target)
  /\ UNCHANGED <<files, target>>

-----------------------------------------------------------------------------
\* Of the files that are merged, i is the last to name a schema.
Decides(i) ==
  /\ files[i].schema \notin {NoSchema, Blank}
  /\ \A k \in i + 1 .. reached : files[k].schema = NoSchema

(***************************************************************************)
(* Seen from where the merged file is to lie, the reference means what the *)
(* last file that names a schema means, seen from that file's directory.   *)
(***************************************************************************)
SchemaMeans ==
  \A i \in 1 .. reached :
    Decides(i) => Join(target, schema) = Join(files[i].dir, files[i].schema)

\* What schemas and directories are made of.
IsPath(p, Entries) ==
  \/ p \in {NoSchema, Blank}
  \/ \E s \in Seq(Entries) : p = Abs(s)
  \/ \E u \in Nat, s \in Seq(Entries) : p = Rel(u, s)

SchemaInit(Entries) ==
  /\ target \in Seq(Entries) /\ \E F : files \in Seq(F)
  /\ \A i \in DOMAIN files : files[i].dir \in Seq(Entries) /\ IsPath(files[i].schema, Entries)
  /\ reached = 0 /\ schema = NoSchema

SchemaSpec(Entries) == SchemaInit(Entries) /\ [][NextSchema]_schemaVars
=============================================================================
