----------------------------- MODULE ChangeSet -------------------------------
(***************************************************************************)
(* scripts/sandbox_driver.py: what the builder has changed.                *)
(*                                                                         *)
(* The baseline is taken from the bytes of the snapshot tar; after the     *)
(* last process of the builder is gone, walk_tree describes the working    *)
(* tree by records, and compute_changes turns records and baseline into a  *)
(* change set, or refuses.  A path is a sequence of names; the body of a   *)
(* file is a number that is its size as well, and that of a directory .git *)
(* is how many entries lie beneath it.  Names are sorted in the code,      *)
(* which only decides the reason that is given first: here their order is  *)
(* fixed.                                                                  *)
(***************************************************************************)
EXTENDS Naturals, FiniteSets, SequencesExt

CONSTANTS
  Path,        \* the paths of the model
  Git,         \* a name that is .git in some case
  NotUtf8,     \* paths that are not UTF-8
  NotPlain     \* paths that are not printable ASCII

VARIABLES
  input,       \* the tar, the tree, generated and withheld paths, the caps
  pc,
  stack,       \* directories to open
  todo,        \* entries of the open directory
  count, sent, \* entries and bytes against the caps
  records,     \* what the helper has written
  whole,       \* the records were read to the end record
  result

vars == <<input, pc, stack, todo, count, sent, records, whole, result>>

-----------------------------------------------------------------------------
(* Generated and withheld paths *)

\* The states of the pattern that `states` reaches without a segment.
Closure(states, pat) ==
  {j \in 0..Len(pat) : \E i \in states : i <= j /\ \A k \in i + 1..j : pat[k] = "**"}

SegmentsMatch(pat, segs) ==
  LET step(states, seg) ==
        Closure({i \in states : i < Len(pat) /\ pat[i + 1] = "**"}
                \cup {i + 1 : i \in {i \in states : i < Len(pat) /\ pat[i + 1] \in {"*", seg}}}, pat)
  IN Len(pat) \in FoldLeft(step, Closure({0}, pat), segs)

GeneratedMatch(patterns, p) == \E pat \in patterns : SegmentsMatch(pat, p)

UnderAny(prefixes, p) == \E q \in prefixes : IsPrefix(q, p)

GitComponent(p) == \E i \in DOMAIN p : p[i] = Git

Generated(p) == GeneratedMatch(input.generated, p)
Withheld(p)  == UnderAny(input.withheld, p)

-----------------------------------------------------------------------------
(* The baseline: a tar is a set of members *)

\* The members baseline_from_tar takes into `files`; the others beneath a
\* withheld path are noted and not extracted.
BaselineFiles(tar) == {m \in tar : m.kind = "file" /\ ~Withheld(m.path)}

BaselineDirs(tar) ==
  {p \in Path : \E m \in tar : /\ ~Withheld(m.path)
                               /\ IsPrefix(p, m.path) /\ (p # m.path \/ m.kind = "dir")}

BaselineError(tar) ==
  \/ \E m \in tar : m.kind \notin {"file", "dir"} \/ GitComponent(m.path)
  \/ \E m, n \in tar : m # n /\ m.path = n.path

Base       == {m.path : m \in BaselineFiles(input.tar)}
Based(p)   == CHOOSE m \in BaselineFiles(input.tar) : m.path = p

-----------------------------------------------------------------------------
(* The walk *)

Lives(p)      == input.tree[p].kind # "none"
Children(dir) == {p \in Path : Front(p) = dir /\ Lives(p)}
Record(kind, p, size) ==
  [kind |-> kind, path |-> p, size |-> size, body |-> input.tree[p].body, exec |-> input.tree[p].exec]
EndRecord(kind) == [kind |-> kind, path |-> <<>>, size |-> 0, body |-> 0, exec |-> FALSE]

TypeOK ==
  /\ pc \in {"walk", "read", "compute", "done"}
  /\ Range(stack) \subseteq Path \cup {<<>>} /\ todo \subseteq Path
  /\ count \in Nat /\ sent \in Nat /\ whole \in BOOLEAN
  /\ \A r \in records : r.kind \in {"D", "F", "S", "L", "O", "G", "W", "B", "C", "T", "E"}
  /\ result.status \in {"none", "ok", "refused", "infrastructure"}

NoResult(s) == [status |-> s, changes |-> {}, excluded |-> {}]

InitWith(inputs) ==
  /\ input \in inputs
  /\ pc = (IF BaselineError(input.tar) THEN "done" ELSE "walk")
  /\ stack = <<<<>>>> /\ todo = {} /\ count = 0 /\ sent = 0
  /\ records = {} /\ whole = FALSE
  /\ result = NoResult(IF BaselineError(input.tar) THEN "infrastructure" ELSE "none")

\* One record, and whether it is the last but the end record.
Emit(r)  == records' = records \cup {r}
Stop(r)  == Emit(r) /\ pc' = "read" /\ UNCHANGED <<stack, todo, sent>>

\* The next directory: its D record tells how many entries it has; the root has
\* none.  A directory that cannot be listed ends the walk.
OpenDir ==
  /\ pc = "walk" /\ todo = {} /\ stack # <<>>
  /\ LET dir == Last(stack) IN
     /\ \/ /\ stack' = Front(stack) /\ todo' = Children(dir)
           /\ IF dir = <<>> THEN UNCHANGED records
              ELSE Emit(Record("D", dir, Cardinality(Children(dir))))
           /\ UNCHANGED <<pc, sent>>
        \/ Stop(EndRecord("E"))
     /\ UNCHANGED <<input, count, whole, result>>

\* Mutant: what lies in a repository of the builder is not counted.
CountNothing(p) == 0

\* _count_beneath: entries beneath a directory .git, up to what the cap leaves;
\* one that cannot be listed counts as more than that.
CountBeneath(p) ==
  LET left == input.caps.entries - (count + 1)
  IN IF input.tree[p].kind # "dir" THEN 0
     ELSE IF input.tree[p].body > left THEN left + 1 ELSE input.tree[p].body

SkipsGenerated(p) == input.tree[p].kind = "file" /\ p \notin Base /\ Generated(p)

\* One entry of the open directory, in the order of walk_tree's conditions.
Visit ==
  /\ pc = "walk" /\ todo # {}
  /\ LET p    == CHOOSE q \in todo : TRUE
         node == input.tree[p]
         size == node.body
         next == todo' = todo \ {p} /\ UNCHANGED <<pc, stack>>
     IN
     IF count + 1 > input.caps.entries
     THEN Stop(EndRecord("C")) /\ count' = count + 1
     ELSE
       /\ count' = count + 1 + (IF ~Withheld(p) /\ Last(p) = Git THEN CountBeneath(p) ELSE 0)
       /\ IF Withheld(p)
          THEN Emit(Record("W", p, 0)) /\ next /\ UNCHANGED sent
          ELSE IF Last(p) = Git
          THEN IF count' > input.caps.entries THEN Stop(EndRecord("C"))
               ELSE Emit(Record("G", p, CountBeneath(p))) /\ next /\ UNCHANGED sent
          ELSE IF node.kind \in {"link", "special"}
          THEN Emit(Record(IF node.kind = "link" THEN "L" ELSE "O", p, 0)) /\ next /\ UNCHANGED sent
          ELSE IF node.kind = "dir"
          THEN /\ stack' = Append(stack, p) /\ todo' = todo \ {p}
               /\ UNCHANGED <<pc, sent, records>>
          ELSE IF SkipsGenerated(p)
          THEN Emit(Record("S", p, size)) /\ next /\ UNCHANGED sent
          ELSE IF size > input.caps.file_bytes
          THEN Emit(Record("B", p, size)) /\ next /\ UNCHANGED sent
          ELSE IF sent + size > input.caps.total_bytes
          THEN Stop(EndRecord("T"))
          ELSE \/ Emit(Record("F", p, size)) /\ next /\ sent' = sent + size
               \/ Stop(EndRecord("E"))      \* it cannot be read, or is another inode
  /\ UNCHANGED <<input, whole, result>>

EndWalk ==
  /\ pc = "walk" /\ todo = {} /\ stack = <<>>
  /\ pc' = "read"
  /\ UNCHANGED <<input, stack, todo, count, sent, records, whole, result>>

\* run_walk: all of it arrives and parses; or the helper is late or writes too
\* much and is killed, or dies, and nothing it wrote is used.
ReadRecords ==
  /\ pc = "read" /\ pc' = "compute"
  /\ \/ whole' = TRUE /\ UNCHANGED records
     \/ whole' = FALSE /\ records' = {}
  /\ UNCHANGED <<input, stack, todo, count, sent, result>>

-----------------------------------------------------------------------------
(* compute_changes *)

\* The sum of the second members: the units of all pairs, counted.
Units(pairs) == UNION {{<<pair, n>> : n \in 1..pair[2]} : pair \in pairs}
Total(pairs) == Cardinality(Units(pairs))

Of(kinds) == {r \in records : r.kind \in kinds}

Unwanted(r) == r.path \notin Base /\ Generated(r.path)

RefusesWalk ==
  \/ ~whole \/ Cardinality(records) > input.caps.entries
  \/ Of({"C", "T", "E", "W", "B"}) # {}
  \/ \E r \in records : r.path \in NotUtf8
  \/ \E r \in Of({"L", "O", "S"}) : ~Unwanted(r)
  \/ \E r \in Of({"F"}) : r.size > input.caps.file_bytes
  \/ Total({<<r.path, r.size>> : r \in Of({"F"})}) > input.caps.total_bytes

Excluded ==
  {[path |-> r.path, reason |-> "git", entries |-> r.size + 1] : r \in Of({"G"})}
  \cup {[path |-> r.path, reason |-> "generated", entries |-> 1] :
          r \in {r \in Of({"L", "O", "S", "F"}) : Unwanted(r)}}
  \cup {[path |-> r.path, entries |-> 1,
         reason |-> IF Generated(r.path) THEN "generated" ELSE "empty_dir"] :
          r \in {r \in Of({"D"}) : r.size = 0 /\ r.path \notin Base \cup BaselineDirs(input.tar)}}

Sent == {r \in Of({"F"}) : ~Unwanted(r)}

Entry(op, r) == [op |-> op, path |-> r.path, body |-> r.body, exec |-> r.exec]

Changes ==
  {Entry("added", r) : r \in {r \in Sent : r.path \notin Base}}
  \cup {Entry("modified", r) : r \in {r \in Sent : r.path \in Base /\ r.body # Based(r.path).body}}
  \cup {Entry("mode", r) : r \in {r \in Sent : /\ r.path \in Base /\ r.body = Based(r.path).body
                                               /\ r.exec # Based(r.path).exec}}
  \cup {Entry("deleted", Based(p)) : p \in Base \ {r.path : r \in Sent}}

RefusesChanges ==
  \/ Cardinality({c \in Changes : c.op = "added"}) > input.caps.added_files
  \/ \E c \in Changes : c.path \in NotPlain

ComputeChanges ==
  /\ pc = "compute" /\ pc' = "done"
  /\ result' = (IF RefusesWalk \/ RefusesChanges THEN NoResult("refused")
                ELSE [status |-> "ok", changes |-> Changes, excluded |-> Excluded])
  /\ UNCHANGED <<input, stack, todo, count, sent, records, whole>>

Next == OpenDir \/ Visit \/ EndWalk \/ ReadRecords \/ ComputeChanges

-----------------------------------------------------------------------------
(* What a change set has to be, said of the trees *)

\* What the walk may see: nothing beneath a .git or a withheld path.
Seen(p)  == /\ Lives(p) /\ ~UnderAny(input.withheld, Front(p)) /\ ~GitComponent(Front(p))
Plain(p) == Seen(p) /\ Last(p) # Git /\ ~Withheld(p)

\* The regular files a change set speaks of.
Tracked == {p \in Path : Plain(p) /\ input.tree[p].kind = "file" /\ (p \in Base \/ ~Generated(p))}

\* What the baseline becomes when the changes are applied to it.
Patched ==
  LET gone == {c.path : c \in result.changes}
  IN {[path |-> p, body |-> Based(p).body, exec |-> Based(p).exec] : p \in Base \ gone}
     \cup {[path |-> c.path, body |-> c.body, exec |-> c.exec] : c \in {c \in result.changes : c.op # "deleted"}}

\* Applied to the baseline, the change set gives the files of the working tree
\* and no others, bytes and modes; what it leaves out was never in the baseline,
\* and everything else alive is named in it or excluded.
PatchRebuilds ==
  result.status = "ok" =>
    /\ Patched = {[path |-> p, body |-> input.tree[p].body, exec |-> input.tree[p].exec] : p \in Tracked}
    /\ \A e \in result.excluded : e.path \notin Base
    /\ \A c \in result.changes : ~Withheld(c.path) /\ ~GitComponent(c.path)
    /\ \A p \in Path : Seen(p) /\ input.tree[p].kind # "dir" =>
         p \in Tracked \cup {e.path : e \in result.excluded}

\* A tree that must be refused: with a withheld path in it or a name that is no
\* UTF-8, with something that is no regular file where one could be tracked, with
\* a tracked file over its cap; or over one of the caps on a whole tree.
Entries == {p \in Path : Seen(p)}
Unfit ==
  \/ \E p \in Entries : Withheld(p) \/ p \in NotUtf8
  \/ \E p \in Entries : Plain(p) /\ input.tree[p].kind \in {"link", "special"} /\ (p \in Base \/ ~Generated(p))
  \/ \E p \in Tracked : input.tree[p].body > input.caps.file_bytes
Beneath == Total({<<p, input.tree[p].body>> : p \in {p \in Entries : Last(p) = Git /\ ~Withheld(p) /\ input.tree[p].kind = "dir"}})
Improper ==
  \/ Unfit
  \/ Cardinality(Entries) + Beneath > input.caps.entries
  \/ Total({<<p, input.tree[p].body>> : p \in Tracked}) > input.caps.total_bytes
  \/ Cardinality(Tracked \ Base) > input.caps.added_files

\* No improper tree becomes a change set, and a proper one that was read to its
\* end is refused only for the name of a changed path: the walk and the driver
\* count the same entries and bytes against the caps, to the last one.
CapsAgree ==
  pc = "done" /\ result.status # "infrastructure" =>
    /\ Improper => result.status = "refused"
    /\ ~Improper /\ whole /\ Of({"E"}) = {} /\ result.status = "refused" =>
         \E c \in Changes : c.path \in NotPlain

ChangeSetExact == PatchRebuilds /\ CapsAgree
=============================================================================
