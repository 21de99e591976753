----------------------------- MODULE ReviewMirror -----------------------------
(* src/scripts/review_mirror.py: builds, prunes and verifications of one       *)
(* container, which may die at any step; a person deletes the lock of a dead   *)
(* one. The clock and the scope file may say anything at any time. Who changes *)
(* the files of the repository during a copy is outside the source's claims,   *)
(* so a file has no content here.                                              *)
EXTENDS Naturals, FiniteSets, Sequences, SequencesExt, FiniteSetsExt

CONSTANTS
  Proc, Free,     \* the processes, and nobody
  Gen,            \* the names of generations
  File, Scopes,   \* what may be listed, and what the scope file may list
  MaxClock        \* the clock says 1..MaxClock

VARIABLES
  lock,       \* the holder of .lock, or Free
  gens,       \* the container: [dir, files, receipt], by name
  published,  \* the generations in the order of their receipts (for properties)
  pc, mine    \* a process: [scope, gen, ns, todo, found]

vars == <<lock, gens, published, pc, mine>>

NoReceipt == [state |-> "none", scope |-> {}, ns |-> 0, manifest |-> {}]
Torn      == [NoReceipt EXCEPT !.state = "torn"]
Absent    == [dir |-> FALSE, files |-> {}, receipt |-> NoReceipt]
Blank     == [scope |-> {}, gen |-> Free, ns |-> 0, todo |-> {}, found |-> {}]

Init ==
  /\ lock = Free
  /\ gens = [g \in Gen |-> Absent]
  /\ published = <<>>
  /\ pc = [p \in Proc |-> "idle"]
  /\ mine = [p \in Proc |-> Blank]

Goto(p, l) == pc' = [pc EXCEPT ![p] = l]

\* The end of a process, which gives the lock back if it has it.
Leave(p) ==
  /\ Goto(p, "idle")
  /\ mine' = [mine EXCEPT ![p] = Blank]
  /\ lock' = IF lock = p THEN Free ELSE lock

-----------------------------------------------------------------------------
\* The scope is read once, and the sources are looked at, before the lock.
CaptureScope(p) ==
  /\ pc[p] = "idle"
  /\ \E s \in Scopes : mine' = [mine EXCEPT ![p].scope = s]
  /\ \E l \in {"build", "prune", "verify"} : Goto(p, l)
  /\ UNCHANGED <<lock, gens, published>>

\* Whoever finds the lock is refused, and so is one who cannot write it.
TakeLock(p) ==
  /\ pc[p] \in {"build", "prune"}
  /\ \/ /\ lock = Free
        /\ lock' = p
        /\ Goto(p, IF pc[p] = "build" THEN "stamp" ELSE "choose")
        /\ UNCHANGED mine
     \/ Leave(p)
  /\ UNCHANGED <<gens, published>>

\* A receipt in the making is no JSON; a receipt that cannot be read is none.
ReceiptOf(g) == gens[g].receipt
Readable(g)  == gens[g].dir /\ ReceiptOf(g).state = "whole"

\* Mutant: the clock alone.
ClockNs(t) == t

NextCreatedNs(t) ==
  LET best == Max({0} \cup {ReceiptOf(g).ns : g \in {h \in Gen : Readable(h)}})
  IN  Max({t, best + 1})

\* Names are random and mean nothing: any that was never published is a new one.
NewNames == {g \in Gen : ~gens[g].dir /\ ~Contains(published, g)}

Stamp(p) ==
  /\ pc[p] = "stamp" /\ NewNames # {}
  /\ \E t \in 1..MaxClock :
       LET g == CHOOSE h \in NewNames : TRUE
       IN  /\ mine' = [mine EXCEPT ![p].gen = g, ![p].ns = NextCreatedNs(t), ![p].todo = mine[p].scope]
           /\ gens' = [gens EXCEPT ![g].dir = TRUE]
  /\ Goto(p, "copy")
  /\ UNCHANGED <<lock, published>>

Copy(p) ==
  /\ pc[p] = "copy"
  /\ \E f \in mine[p].todo :
       /\ gens' = [gens EXCEPT ![mine[p].gen].files = @ \cup {f}]
       /\ mine' = [mine EXCEPT ![p].todo = @ \ {f}]
  /\ UNCHANGED <<lock, published, pc>>

\* A copy that failed, or a tree with anything that is forbidden, or an
\* exception: what was made is deleted again.
BuildFails(p) ==
  /\ pc[p] \in {"copy", "receipt"}
  /\ mine' = [mine EXCEPT ![p].gen = Free, ![p].todo = {mine[p].gen}] /\ Goto(p, "delete")
  /\ UNCHANGED <<lock, gens, published>>

\* validate_tree finds every entry of the scope and nothing else.
Validate(p) ==
  /\ pc[p] = "copy" /\ mine[p].todo = {}
  /\ gens[mine[p].gen].files = mine[p].scope
  /\ gens' = [gens EXCEPT ![mine[p].gen].receipt = Torn]
  /\ Goto(p, "receipt")
  /\ UNCHANGED <<lock, published, mine>>

Receipt(p) ==
  [state |-> "whole", scope |-> mine[p].scope, ns |-> mine[p].ns, manifest |-> gens[mine[p].gen].files]

WriteReceipt(p) ==
  /\ pc[p] = "receipt"
  /\ gens' = [gens EXCEPT ![mine[p].gen].receipt = Receipt(p)]
  /\ published' = Append(published, mine[p].gen)
  /\ Leave(p)

-----------------------------------------------------------------------------
(* Verification, which takes no lock *)

Mismatch(g, names, s) == ReceiptOf(g).scope # s \/ ReceiptOf(g).manifest # names

ReadReceipt(p) ==
  /\ pc[p] = "verify"
  /\ \E g \in Gen :
       IF Readable(g) /\ ReceiptOf(g).scope = mine[p].scope
       THEN /\ Goto(p, "list")
            /\ mine' = [mine EXCEPT ![p].gen = g, ![p].found = ReceiptOf(g).manifest]
            /\ UNCHANGED lock
       ELSE Leave(p)
  /\ UNCHANGED <<gens, published>>

ListTree(p) ==
  /\ pc[p] = "list"
  /\ IF gens[mine[p].gen].files = mine[p].found
     THEN Goto(p, "read") /\ mine' = [mine EXCEPT ![p].todo = mine[p].found] /\ UNCHANGED lock
     ELSE Leave(p)
  /\ UNCHANGED <<gens, published>>

ReadFile(p) ==
  /\ pc[p] = "read"
  /\ \E f \in mine[p].todo :
       IF f \in gens[mine[p].gen].files
       THEN mine' = [mine EXCEPT ![p].todo = @ \ {f}] /\ UNCHANGED <<pc, lock>>
       ELSE Leave(p)
  /\ UNCHANGED <<gens, published>>

VerifyOk(p) ==
  /\ pc[p] = "read" /\ mine[p].todo = {}
  /\ Goto(p, "verified")
  /\ UNCHANGED <<lock, gens, published, mine>>

Report(p) == pc[p] = "verified" /\ Leave(p) /\ UNCHANGED <<gens, published>>

-----------------------------------------------------------------------------
(* Pruning *)

Verifies(g, s) == Readable(g) /\ ~Mismatch(g, gens[g].files, s)

Candidates == {g \in Gen : Readable(g)}
Newest(S)  == CHOOSE g \in S : \A h \in S : ReceiptOf(h).ns <= ReceiptOf(g).ns

\* Under the lock, and before anything is deleted. Generations that share a
\* stamp, or none that verifies, end the prune.
Choose(p) ==
  /\ pc[p] = "choose"
  /\ LET verified == {g \in Candidates : Verifies(g, mine[p].scope)}
     IN  IF verified # {} /\ \A g, h \in verified : ReceiptOf(g).ns = ReceiptOf(h).ns => g = h
         THEN /\ mine' = [mine EXCEPT ![p].gen = Newest(verified),
                                      ![p].todo = Candidates \ {Newest(verified)}]
              /\ Goto(p, "delete") /\ UNCHANGED lock
         ELSE Leave(p)
  /\ UNCHANGED <<gens, published>>

\* One generation after another in the order of their stamps, which one whose
\* receipt is gone already has no more; _rmtree_nofollow takes the entries of a
\* directory in any order, then itself.
First(S) == CHOOSE g \in S : \A h \in S : ReceiptOf(g).ns <= ReceiptOf(h).ns

DeleteNext(p) ==
  /\ pc[p] = "delete" /\ mine[p].todo # {}
  /\ LET g == First(mine[p].todo)
     IN  \/ /\ \E f \in gens[g].files : gens' = [gens EXCEPT ![g].files = @ \ {f}]
            /\ UNCHANGED mine
         \/ /\ ReceiptOf(g).state # "none"
            /\ gens' = [gens EXCEPT ![g].receipt = NoReceipt]
            /\ UNCHANGED mine
         \/ /\ gens[g].files = {} /\ ReceiptOf(g).state = "none"
            /\ gens' = [gens EXCEPT ![g].dir = FALSE]
            /\ mine' = [mine EXCEPT ![p].todo = @ \ {g}]
  /\ UNCHANGED <<lock, published, pc>>

\* The end of a prune or of a build that failed; a removal that fails ends both.
Deleted(p) ==
  /\ pc[p] = "delete"
  /\ Leave(p)
  /\ UNCHANGED <<gens, published>>

-----------------------------------------------------------------------------
\* One that dies without the lock leaves nothing: it may as well leave.
Crash(p) ==
  /\ lock = p /\ pc[p] # "dead"
  /\ Goto(p, "dead")
  /\ mine' = [mine EXCEPT ![p] = Blank]
  /\ UNCHANGED <<lock, gens, published>>

\* A person deletes the lock of a process that is gone.
FreeLock(p) ==
  /\ lock = p /\ pc[p] = "dead"
  /\ lock' = Free
  /\ UNCHANGED <<gens, published, pc, mine>>

Step(p) ==
  \/ CaptureScope(p) \/ TakeLock(p) \/ Stamp(p) \/ Copy(p) \/ BuildFails(p) \/ Validate(p)
  \/ WriteReceipt(p) \/ ReadReceipt(p) \/ ListTree(p) \/ ReadFile(p) \/ VerifyOk(p)
  \/ Report(p) \/ Choose(p) \/ DeleteNext(p) \/ Deleted(p)

Next == \E p \in Proc : Step(p) \/ Crash(p) \/ FreeLock(p)

-----------------------------------------------------------------------------
TypeOK ==
  /\ lock \in Proc \cup {Free}
  /\ \A g \in Gen : gens[g].files \subseteq File /\ ReceiptOf(g).state \in {"none", "torn", "whole"}
  /\ \A p \in Proc : mine[p].scope \in Scopes \cup {{}} /\ mine[p].gen \in Gen \cup {Free}
  /\ IsInjective(published)

Position(g) == CHOOSE i \in 1..Len(published) : published[i] = g

\* A verification passes only what was published whole, with the scope it asked
\* for: a build in the making or one that died never does, nor does one that is
\* being deleted while it is read (review_mirror.py:773).
VerifiedWasPublished ==
  \A p \in Proc : pc[p] = "verified" =>
    Contains(published, mine[p].gen) /\ mine[p].found = mine[p].scope

\* What a prune keeps verifies until it ends, and is the last one published of
\* those that do, whatever the clock said when they were built.
NewestIsKept ==
  \A p \in Proc : pc[p] = "delete" /\ mine[p].gen # Free =>
    /\ Verifies(mine[p].gen, mine[p].scope)
    /\ \A g \in Candidates : Verifies(g, mine[p].scope) => Position(g) <= Position(mine[p].gen)
=============================================================================
