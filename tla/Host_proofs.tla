----------------------------- MODULE Host_proofs ------------------------------
(***************************************************************************)
(* Proofs about ReviewMirror, as the part "mirror" of Host: for any        *)
(* number of builds, prunes and verifications, any names, any clock and    *)
(* crashes at any step; and the types of all parts of Host.                *)
(*                                                                         *)
(* The lock is the center: while a build or a prune holds it, nobody else  *)
(* changes a generation (LockIsHeld).  A receipt can then be taken at its  *)
(* word (ReceiptsTrue); a build in the making is newer than every receipt  *)
(* there is (Making), so that the stamps follow the order of publication   *)
(* (InOrder), whatever the clock says; and what a prune has compared stays *)
(* as it was, except for what the prune itself deletes (Pruning).          *)
(***************************************************************************)
EXTENDS HostRun_proofs, Verdict_proofs, WellFoundedInduction, TLAPS

-----------------------------------------------------------------------------
(* Least and greatest elements *)

\* Every set of naturals that is not empty has a least element.
LEMMA LeastExists ==
  ASSUME NEW S, S \subseteq Nat, S # {}
  PROVE  \E n \in S : \A m \in S : n <= m
<1> DEFINE R == {ss \in Nat \X Nat : ss[1] < ss[2]}
<1>1. IsWellFoundedOn(R, Nat)
  BY NatLessThanWellFounded, Zenon DEF OpToRel
<1>2. PICK x \in S : \A y \in S : ~(<<y, x>> \in R)
  BY <1>1, WFMin, Zenon
<1>3. \A y \in S : ~(y < x)
  BY <1>2
<1> QED
  BY <1>3

\* Every bounded set of naturals that is not empty has a greatest element.
LEMMA GreatestExists ==
  ASSUME NEW S, S \subseteq Nat, S # {}, NEW b \in Nat, \A n \in S : n <= b
  PROVE  \E n \in S : \A m \in S : m <= n
<1> DEFINE Gaps == {b - n : n \in S}
<1>1. Gaps \subseteq Nat /\ Gaps # {}
  <2>1. \A n \in S : b - n \in Nat
    OBVIOUS
  <2>2. PICK n \in S : TRUE
    OBVIOUS
  <2>3. b - n \in Gaps
    OBVIOUS
  <2> QED
    BY <2>1, <2>3
<1>2. PICK d \in Gaps : \A e \in Gaps : d <= e
  <2> HIDE DEF Gaps
  <2> QED
    BY <1>1, LeastExists
<1>3. PICK n \in S : d = b - n
  OBVIOUS
<1>4. \A m \in S : b - n <= b - m
  BY <1>2, <1>3
<1> QED
  BY <1>4
LEMMA MaxIs ==
  ASSUME NEW S, S \subseteq Nat, S # {}, NEW b \in Nat, \A n \in S : n <= b
  PROVE  Mirror!Max(S) \in S /\ \A n \in S : n <= Mirror!Max(S)
  BY GreatestExists DEF Mirror!Max

-----------------------------------------------------------------------------
(* The invariant *)

UnderLock == {"stamp", "copy", "receipt", "choose", "delete"}
Reading == {"list", "read", "verified"}
Places  == UnderLock \cup Reading \cup {"idle", "build", "prune", "verify", "dead"}

GensTyped ==
  gens \in [Gen -> [dir : BOOLEAN, files : SUBSET File,
                    receipt : [state : {"none", "torn", "whole"}, scope : SUBSET File,
                               ns : Nat, manifest : SUBSET File]]]
LocalsTyped ==
  mine \in [Proc -> [scope : Scopes \cup {{}}, gen : Gen \cup {Free}, ns : Nat,
                     todo : SUBSET (File \cup Gen), found : SUBSET File]]
MirrorTyped == lock \in Proc \cup {Free} /\ pc \in [Proc -> Places] /\ published \in Seq(Gen)
Typed == MirrorTyped /\ GensTyped /\ LocalsTyped

\* Who builds or prunes holds the lock.
LockIsHeld == \A p \in Proc : pc[p] \in UnderLock => lock = p

Whole(g) == gens[g].receipt.state = "whole"
Ns(g)    == gens[g].receipt.ns

\* A receipt that can be read was published, and tells what the directory holds
\* until a prune deletes it.
ReceiptsTrue ==
  \A g \in Gen : Whole(g) =>
    /\ gens[g].dir /\ Mirror!Contains(published, g)
    /\ gens[g].receipt.manifest = gens[g].receipt.scope
    /\ gens[g].files \subseteq gens[g].receipt.manifest

\* There is a greatest stamp.
NsBounded ==
  \E b \in Nat : (\A g \in Gen : Ns(g) <= b) /\ (\A p \in Proc : mine[p].ns <= b)

OnceEach == \A i, j \in 1..Len(published) : published[i] = published[j] => i = j

\* The stamps that can be read follow the order of publication.
InOrder ==
  \A i, j \in 1..Len(published) :
    i < j /\ Whole(published[i]) /\ Whole(published[j]) => Ns(published[i]) < Ns(published[j])

\* A build writes below a name of its own, and is newer than all there is.
Making ==
  \A p \in Proc : pc[p] \in {"copy", "receipt"} =>
    /\ mine[p].gen \in Gen /\ gens[mine[p].gen].dir
    /\ ~Mirror!Contains(published, mine[p].gen)
    /\ \A g \in Gen : Whole(g) => Ns(g) < mine[p].ns
    /\ pc[p] = "copy" => mine[p].todo \subseteq File
    /\ pc[p] = "receipt" => gens[mine[p].gen].files = mine[p].scope

\* A verification goes on only with a generation that was published whole.
Verifying ==
  \A p \in Proc : pc[p] \in Reading =>
    Mirror!Contains(published, mine[p].gen) /\ mine[p].found = mine[p].scope

\* What a prune keeps verifies, is none of what it deletes, and has the greatest
\* stamp of those that verify; a build that failed deletes what it made.
Pruning ==
  \A p \in Proc : pc[p] = "delete" =>
    /\ mine[p].todo \subseteq Gen /\ mine[p].gen \notin mine[p].todo
    /\ mine[p].gen # Free =>
         /\ Mirror!Verifies(mine[p].gen, mine[p].scope)
         /\ \A g \in Gen : Mirror!Verifies(g, mine[p].scope) => Ns(g) <= Ns(mine[p].gen)

MirrorInv ==
  /\ Typed /\ LockIsHeld /\ ReceiptsTrue /\ NsBounded /\ OnceEach /\ InOrder
  /\ Making /\ Verifying /\ Pruning

MirrorIsKept == part = "mirror" => MirrorInv

-----------------------------------------------------------------------------
(* The steps *)

\* What a process does that leaves the container as it is.
Quiet(p) ==
  \/ Mirror!CaptureScope(p) \/ Mirror!TakeLock(p) \/ Mirror!BuildFails(p)
  \/ Mirror!ReadReceipt(p) \/ Mirror!ListTree(p) \/ Mirror!ReadFile(p) \/ Mirror!VerifyOk(p)
  \/ Mirror!Report(p) \/ Mirror!Choose(p) \/ Mirror!Deleted(p)
  \/ Mirror!Crash(p) \/ Mirror!FreeLock(p)

Writing(p) ==
  \/ Mirror!Stamp(p) \/ Mirror!Copy(p) \/ Mirror!Validate(p) \/ Mirror!WriteReceipt(p)
  \/ Mirror!DeleteNext(p)

LEMMA MirrorStepKinds == Mirror!Next <=> \E p \in Proc : Quiet(p) \/ Writing(p)
  BY DEF Mirror!Next, Mirror!Step, Quiet, Writing

LEMMA QuietKeeps == ASSUME NEW p \in Proc, Quiet(p) PROVE UNCHANGED <<gens, published>>
  BY DEF Quiet, Mirror!CaptureScope, Mirror!TakeLock, Mirror!BuildFails, Mirror!ReadReceipt,
         Mirror!ListTree, Mirror!ReadFile, Mirror!VerifyOk, Mirror!Report, Mirror!Choose,
         Mirror!Deleted, Mirror!Crash, Mirror!FreeLock

\* What a process does when it leaves.
LEMMA LeaveEffect ==
  ASSUME Typed, NEW p \in Proc, Mirror!Leave(p)
  PROVE  /\ pc' \in [Proc -> Places] /\ pc'[p] = "idle"
         /\ LocalsTyped' /\ mine'[p] = Mirror!Blank
         /\ lock' \in Proc \cup {Free}
         /\ lock' = IF lock = p THEN Free ELSE lock
         /\ \A r \in Proc : r # p => pc'[r] = pc[r] /\ mine'[r] = mine[r]
<1>1. Mirror!Blank \in [scope : Scopes \cup {{}}, gen : Gen \cup {Free}, ns : Nat,
                        todo : SUBSET (File \cup Gen), found : SUBSET File]
  BY DEF Mirror!Blank
<1> QED
  BY <1>1 DEF Typed, MirrorTyped, LocalsTyped, Places, Mirror!Leave, Mirror!Goto

\* What a step does to the other processes: nothing.
LEMMA OthersStay ==
  ASSUME Typed, NEW p \in Proc, Quiet(p) \/ Writing(p), NEW r \in Proc, r # p
  PROVE  pc'[r] = pc[r] /\ mine'[r] = mine[r]
<1> USE DEF Typed, MirrorTyped, LocalsTyped, Mirror!Goto, Mirror!Leave
<1>1. CASE Quiet(p)
  BY <1>1 DEF Quiet, Mirror!CaptureScope, Mirror!TakeLock, Mirror!BuildFails, Mirror!ReadReceipt,
              Mirror!ListTree, Mirror!ReadFile, Mirror!VerifyOk, Mirror!Report, Mirror!Choose,
              Mirror!Deleted, Mirror!Crash, Mirror!FreeLock
<1>2. CASE Writing(p)
  BY <1>2 DEF Writing, Mirror!Stamp, Mirror!Copy, Mirror!Validate, Mirror!WriteReceipt, Mirror!DeleteNext
<1> QED
  BY <1>1, <1>2

\* Who writes holds the lock, so nobody else is at a place where it is held.
LEMMA WriterIsAlone ==
  ASSUME LockIsHeld, NEW p \in Proc, Writing(p)
  PROVE  pc[p] \in UnderLock /\ lock = p /\ \A r \in Proc : r # p => pc[r] \notin UnderLock
<1>1. pc[p] \in UnderLock
  BY DEF Writing, UnderLock, Mirror!Stamp, Mirror!Copy, Mirror!Validate, Mirror!WriteReceipt,
         Mirror!DeleteNext
<1> QED
  BY <1>1 DEF LockIsHeld

LEMMA LockIsHeldStep ==
  ASSUME Typed, LockIsHeld, NEW p \in Proc, Quiet(p) \/ Writing(p)
  PROVE  LockIsHeld'
<1>1. \A r \in Proc : r # p => pc'[r] = pc[r]
  BY OthersStay
<1>2. lock' # lock => lock' = p \/ (lock = p /\ lock' = Free)
  BY DEF Quiet, Mirror!CaptureScope, Mirror!TakeLock, Mirror!BuildFails, Mirror!ReadReceipt,
         Mirror!ListTree, Mirror!ReadFile, Mirror!VerifyOk, Mirror!Report, Mirror!Choose,
         Mirror!Deleted, Mirror!Crash, Mirror!FreeLock, Writing, Mirror!Stamp, Mirror!Copy,
         Mirror!Validate, Mirror!WriteReceipt, Mirror!DeleteNext, Mirror!Leave
<1>3. lock' = p /\ lock' # lock => lock = Free
  BY DEF Quiet, Mirror!CaptureScope, Mirror!TakeLock, Mirror!BuildFails, Mirror!ReadReceipt,
         Mirror!ListTree, Mirror!ReadFile, Mirror!VerifyOk, Mirror!Report, Mirror!Choose,
         Mirror!Deleted, Mirror!Crash, Mirror!FreeLock, Writing, Mirror!Stamp, Mirror!Copy,
         Mirror!Validate, Mirror!WriteReceipt, Mirror!DeleteNext, Mirror!Leave
<1>4. pc'[p] \in UnderLock => lock' = p
  <2> USE DEF Typed, MirrorTyped, Mirror!Goto
  <2>1. CASE Writing(p)
    <3>1. lock = p
      BY <2>1, WriterIsAlone
    <3> QED
      BY <2>1, <3>1 DEF Writing, Mirror!Stamp, Mirror!Copy, Mirror!Validate, Mirror!WriteReceipt,
                        Mirror!DeleteNext, Mirror!Leave, UnderLock
  <2>2. CASE Mirror!CaptureScope(p) \/ Mirror!TakeLock(p)
    BY <2>2 DEF Mirror!CaptureScope, Mirror!TakeLock, Mirror!Leave, UnderLock
  <2>3. CASE Mirror!BuildFails(p) \/ Mirror!Choose(p) \/ Mirror!Deleted(p)
    BY <2>3 DEF Mirror!BuildFails, Mirror!Choose, Mirror!Deleted, Mirror!Leave, UnderLock, LockIsHeld
  <2>4. CASE Mirror!ReadReceipt(p) \/ Mirror!ListTree(p) \/ Mirror!ReadFile(p)
    BY <2>4 DEF Mirror!ReadReceipt, Mirror!ListTree, Mirror!ReadFile, Mirror!Leave, UnderLock
  <2>5. CASE Mirror!VerifyOk(p) \/ Mirror!Report(p) \/ Mirror!Crash(p) \/ Mirror!FreeLock(p)
    BY <2>5 DEF Mirror!VerifyOk, Mirror!Report, Mirror!Crash, Mirror!FreeLock, Mirror!Leave, UnderLock
  <2> QED
    BY <2>1, <2>2, <2>3, <2>4, <2>5 DEF Quiet
<1> QED
  BY <1>1, <1>2, <1>3, <1>4, MirrorAssumption DEF LockIsHeld

-----------------------------------------------------------------------------
(* What the program picks by the stamps *)

\* _next_created_ns is greater than every stamp that can be read.
LEMMA StampIsNewest ==
  ASSUME Typed, NsBounded, ReceiptsTrue, NEW t \in 1..MaxClock
  PROVE  /\ Mirror!NextCreatedNs(t) \in Nat
         /\ \A g \in Gen : Whole(g) => Ns(g) < Mirror!NextCreatedNs(t)
<1> DEFINE Stamps == {0} \cup {Mirror!ReceiptOf(g).ns : g \in {h \in Gen : Mirror!Readable(h)}}
           best   == Mirror!Max(Stamps)
<1>1. \A g \in Gen : Mirror!ReceiptOf(g).ns = Ns(g) /\ Ns(g) \in Nat
  BY DEF Typed, GensTyped, Mirror!ReceiptOf, Ns
<1>2. PICK b \in Nat : \A g \in Gen : Ns(g) <= b
  BY DEF NsBounded
<1>3. Stamps \subseteq Nat /\ Stamps # {} /\ \A n \in Stamps : n <= b
  BY <1>1, <1>2
<1>4. best \in Stamps /\ \A n \in Stamps : n <= best
  <2> HIDE DEF Stamps
  <2> QED
    BY <1>3, MaxIs
<1>5. best \in Nat
  BY <1>3, <1>4
<1>6. \A g \in Gen : Whole(g) => Ns(g) \in Stamps
  BY <1>1 DEF ReceiptsTrue, Whole, Mirror!Readable, Mirror!ReceiptOf
<1> DEFINE two == {t, best + 1}
<1>7. Mirror!Max(two) \in two /\ \A n \in two : n <= Mirror!Max(two)
  <2> HIDE DEF best, Stamps
  <2>1. two \subseteq Nat /\ two # {} /\ t + best + 1 \in Nat /\ \A n \in two : n <= t + best + 1
    BY <1>5, MirrorAssumption
  <2> HIDE DEF two
  <2> QED
    BY <2>1, MaxIs
<1>8. Mirror!NextCreatedNs(t) = Mirror!Max(two)
  BY DEF Mirror!NextCreatedNs
<1>9. Mirror!Max(two) \in Nat /\ best + 1 <= Mirror!Max(two)
  <2> HIDE DEF best, Stamps
  <2> QED
    BY <1>5, <1>7, MirrorAssumption
<1> QED
  <2> HIDE DEF two, best
  <2>1. \A g \in Gen : Whole(g) => Ns(g) < Mirror!Max(two)
    <3> HIDE DEF Stamps
    <3> QED
      BY <1>1, <1>4, <1>5, <1>6, <1>9
  <2> QED
    BY <1>8, <1>9, <2>1

\* prune deletes the oldest first.
LEMMA FirstIs ==
  ASSUME Typed, NEW S, S \subseteq Gen, S # {}
  PROVE  Mirror!First(S) \in S
<1> DEFINE Stamps == {Ns(g) : g \in S}
<1>1. \A g \in S : Mirror!ReceiptOf(g).ns = Ns(g) /\ Ns(g) \in Nat
  BY DEF Typed, GensTyped, Mirror!ReceiptOf, Ns
<1>2. Stamps \subseteq Nat /\ Stamps # {}
  BY <1>1
<1>3. PICK n \in Stamps : \A m \in Stamps : n <= m
  <2> HIDE DEF Stamps
  <2> QED
    BY <1>2, LeastExists
<1>4. \E g \in S : \A h \in S : Mirror!ReceiptOf(g).ns <= Mirror!ReceiptOf(h).ns
  BY <1>1, <1>3
<1> QED
  BY <1>4 DEF Mirror!First

\* It keeps the one with the greatest stamp.
LEMMA NewestIs ==
  ASSUME Typed, NsBounded, NEW S, S \subseteq Gen, S # {}
  PROVE  Mirror!Newest(S) \in S /\ \A h \in S : Ns(h) <= Ns(Mirror!Newest(S))
<1> DEFINE Stamps == {Ns(g) : g \in S}
<1>1. \A g \in S : Mirror!ReceiptOf(g).ns = Ns(g) /\ Ns(g) \in Nat
  BY DEF Typed, GensTyped, Mirror!ReceiptOf, Ns
<1>2. PICK b \in Nat : \A g \in Gen : Ns(g) <= b
  BY DEF NsBounded
<1>3. Stamps \subseteq Nat /\ Stamps # {} /\ \A n \in Stamps : n <= b
  BY <1>1, <1>2
<1>4. PICK n \in Stamps : \A m \in Stamps : m <= n
  <2> HIDE DEF Stamps
  <2> QED
    BY <1>3, GreatestExists
<1>5. \E g \in S : \A h \in S : Mirror!ReceiptOf(h).ns <= Mirror!ReceiptOf(g).ns
  BY <1>1, <1>4
<1>6. Mirror!Newest(S) \in S /\ \A h \in S : Mirror!ReceiptOf(h).ns <= Mirror!ReceiptOf(Mirror!Newest(S)).ns
  BY <1>5 DEF Mirror!Newest
<1> QED
  BY <1>1, <1>6

-----------------------------------------------------------------------------
(* Types *)

\* The locals of a process after an assignment to some of them.
LEMMA UpdateTyped ==
  ASSUME Typed, NEW p \in Proc, NEW g \in Gen \cup {Free}, NEW s \in SUBSET (File \cup Gen), NEW n \in Nat,
         \/ mine' = [mine EXCEPT ![p].gen = g, ![p].ns = n, ![p].todo = s]
         \/ mine' = [mine EXCEPT ![p].gen = g, ![p].todo = s]
  PROVE  /\ LocalsTyped'
         /\ mine'[p].gen = g /\ mine'[p].todo = s
         /\ mine'[p].scope = mine[p].scope /\ mine'[p].found = mine[p].found
         /\ mine'[p].ns \in {n, mine[p].ns}
<1> DEFINE Locals == [scope : Scopes \cup {{}}, gen : Gen \cup {Free}, ns : Nat,
                      todo : SUBSET (File \cup Gen), found : SUBSET File]
<1>1. PICK r \in Locals :
        /\ mine' = [mine EXCEPT ![p] = r]
        /\ r.gen = g /\ r.todo = s /\ r.scope = mine[p].scope /\ r.found = mine[p].found
        /\ r.ns \in {n, mine[p].ns}
  <2>1. mine[p] \in Locals /\ mine \in [Proc -> Locals]
    BY DEF Typed, LocalsTyped
  <2>2. mine' = [mine EXCEPT ![p] = [mine[p] EXCEPT !.gen = g, !.ns = n, !.todo = s]]
        \/ mine' = [mine EXCEPT ![p] = [mine[p] EXCEPT !.gen = g, !.todo = s]]
    BY <2>1
  <2>3. /\ [mine[p] EXCEPT !.gen = g, !.ns = n, !.todo = s] \in Locals
        /\ [mine[p] EXCEPT !.gen = g, !.todo = s] \in Locals
    BY <2>1
  <2> QED
    BY <2>2, <2>3
<1> QED
  BY <1>1 DEF Typed, LocalsTyped

\* The place where a build starts to write.
LEMMA StampEffect ==
  ASSUME Typed, NsBounded, ReceiptsTrue, NEW p \in Proc, Mirror!Stamp(p)
  PROVE  \E g \in Gen, n \in Nat :
           /\ ~gens[g].dir /\ ~Mirror!Contains(published, g)
           /\ \A h \in Gen : Whole(h) => Ns(h) < n
           /\ gens' = [gens EXCEPT ![g].dir = TRUE]
           /\ LocalsTyped' /\ mine'[p].gen = g /\ mine'[p].ns = n
           /\ mine'[p].scope = mine[p].scope /\ mine'[p].todo = mine[p].scope
           /\ pc[p] = "stamp" /\ pc' = [pc EXCEPT ![p] = "copy"]
           /\ lock' = lock /\ published' = published
<1> DEFINE g == CHOOSE h \in Mirror!NewNames : TRUE
<1>1. g \in Mirror!NewNames
  BY DEF Mirror!Stamp
<1>2. g \in Gen /\ ~gens[g].dir /\ ~Mirror!Contains(published, g)
  BY <1>1 DEF Mirror!NewNames
<1>3. PICK t \in 1..MaxClock :
        /\ mine' = [mine EXCEPT ![p].gen = g, ![p].ns = Mirror!NextCreatedNs(t), ![p].todo = mine[p].scope]
        /\ gens' = [gens EXCEPT ![g].dir = TRUE]
  BY DEF Mirror!Stamp
<1>4. /\ Mirror!NextCreatedNs(t) \in Nat
      /\ \A h \in Gen : Whole(h) => Ns(h) < Mirror!NextCreatedNs(t)
  BY StampIsNewest
<1>5. pc[p] = "stamp" /\ pc' = [pc EXCEPT ![p] = "copy"] /\ lock' = lock /\ published' = published
  BY DEF Mirror!Stamp, Mirror!Goto
<1> HIDE DEF g
<1>6. mine[p].scope \in SUBSET (File \cup Gen)
  BY MirrorAssumption DEF Typed, LocalsTyped
<1>7. ASSUME NEW n \in Nat, mine' = [mine EXCEPT ![p].gen = g, ![p].ns = n, ![p].todo = mine[p].scope]
      PROVE  /\ LocalsTyped' /\ mine'[p].gen = g /\ mine'[p].ns = n
             /\ mine'[p].scope = mine[p].scope /\ mine'[p].todo = mine[p].scope
  <2>1. PICK s \in SUBSET (File \cup Gen) : s = mine[p].scope
    BY <1>6
  <2>2. mine' = [mine EXCEPT ![p].gen = g, ![p].ns = n, ![p].todo = s]
    BY <1>7, <2>1
  <2>3. LocalsTyped' /\ mine'[p].gen = g /\ mine'[p].todo = s /\ mine'[p].scope = mine[p].scope
    BY <1>2, <2>2, UpdateTyped
  <2>4. mine'[p].ns = n
    BY <1>7 DEF Typed, LocalsTyped
  <2> QED
    BY <2>1, <2>3, <2>4
<1>8. \E n \in Nat :
        /\ \A h \in Gen : Whole(h) => Ns(h) < n
        /\ LocalsTyped' /\ mine'[p].gen = g /\ mine'[p].ns = n
        /\ mine'[p].scope = mine[p].scope /\ mine'[p].todo = mine[p].scope
  <2>1. PICK n \in Nat :
          /\ n = Mirror!NextCreatedNs(t)
          /\ \A h \in Gen : Whole(h) => Ns(h) < n
    BY <1>4
  <2>2. mine' = [mine EXCEPT ![p].gen = g, ![p].ns = n, ![p].todo = mine[p].scope]
    BY <1>3, <2>1
  <2> QED
    BY <1>7, <2>1, <2>2
<1> QED
  BY <1>2, <1>3, <1>5, <1>8

\* What a prune decides.
LEMMA ChooseEffect ==
  ASSUME Typed, NsBounded, NEW p \in Proc, Mirror!Choose(p)
  PROVE  \/ Mirror!Leave(p)
         \/ \E g \in Gen :
              /\ Mirror!Verifies(g, mine[p].scope)
              /\ \A h \in Gen : Mirror!Verifies(h, mine[p].scope) => Ns(h) <= Ns(g)
              /\ mine' = [mine EXCEPT ![p].gen = g, ![p].todo = Mirror!Candidates \ {g}]
              /\ pc' = [pc EXCEPT ![p] = "delete"] /\ lock' = lock
<1> DEFINE verified == {g \in Mirror!Candidates : Mirror!Verifies(g, mine[p].scope)}
<1> SUFFICES ASSUME ~Mirror!Leave(p)
             PROVE  \E g \in Gen :
                      /\ Mirror!Verifies(g, mine[p].scope)
                      /\ \A h \in Gen : Mirror!Verifies(h, mine[p].scope) => Ns(h) <= Ns(g)
                      /\ mine' = [mine EXCEPT ![p].gen = g, ![p].todo = Mirror!Candidates \ {g}]
                      /\ pc' = [pc EXCEPT ![p] = "delete"] /\ lock' = lock
  OBVIOUS
<1>1. /\ verified # {}
      /\ mine' = [mine EXCEPT ![p].gen = Mirror!Newest(verified),
                              ![p].todo = Mirror!Candidates \ {Mirror!Newest(verified)}]
      /\ pc' = [pc EXCEPT ![p] = "delete"] /\ lock' = lock
  BY DEF Mirror!Choose, Mirror!Goto
<1>2. verified \subseteq Gen /\ \A h \in Gen : Mirror!Verifies(h, mine[p].scope) => h \in verified
  BY DEF Mirror!Candidates, Mirror!Verifies
<1>3. Mirror!Newest(verified) \in verified /\ \A h \in verified : Ns(h) <= Ns(Mirror!Newest(verified))
  <2> HIDE DEF verified
  <2> QED
    BY <1>1, <1>2, NewestIs
<1>4. Mirror!Newest(verified) \in Gen /\ Mirror!Verifies(Mirror!Newest(verified), mine[p].scope)
  BY <1>2, <1>3
<1> HIDE DEF verified
<1> QED
  BY <1>1, <1>2, <1>3, <1>4

\* What a deletion takes: one thing of one generation on its list.
LEMMA DeleteEffect ==
  ASSUME Typed, Pruning, NEW p \in Proc, Mirror!DeleteNext(p)
  PROVE  \E g \in mine[p].todo :
           /\ g \in Gen
           /\ \/ \E f \in gens[g].files : gens' = [gens EXCEPT ![g].files = @ \ {f}] /\ mine' = mine
              \/ gens' = [gens EXCEPT ![g].receipt = Mirror!NoReceipt] /\ mine' = mine
              \/ /\ gens[g].files = {} /\ gens[g].receipt.state = "none"
                 /\ gens' = [gens EXCEPT ![g].dir = FALSE]
                 /\ mine' = [mine EXCEPT ![p].todo = @ \ {g}]
           /\ lock' = lock /\ published' = published /\ pc' = pc /\ pc[p] = "delete"
<1> DEFINE g == Mirror!First(mine[p].todo)
<1>1. mine[p].todo \subseteq Gen /\ mine[p].todo # {} /\ pc[p] = "delete"
  BY DEF Mirror!DeleteNext, Pruning
<1>2. g \in mine[p].todo /\ g \in Gen
  BY <1>1, FirstIs
<1>3. \/ \E f \in gens[g].files : gens' = [gens EXCEPT ![g].files = @ \ {f}] /\ mine' = mine
      \/ gens' = [gens EXCEPT ![g].receipt = Mirror!NoReceipt] /\ mine' = mine
      \/ /\ gens[g].files = {} /\ gens[g].receipt.state = "none"
         /\ gens' = [gens EXCEPT ![g].dir = FALSE]
         /\ mine' = [mine EXCEPT ![p].todo = @ \ {g}]
  BY DEF Mirror!DeleteNext, Mirror!ReceiptOf
<1>4. lock' = lock /\ published' = published /\ pc' = pc
  BY DEF Mirror!DeleteNext
<1> HIDE DEF g
<1> QED
  BY <1>1, <1>2, <1>3, <1>4

LEMMA ControlTypedStep ==
  ASSUME Typed, Pruning, Making, NEW p \in Proc, Quiet(p) \/ Writing(p)
  PROVE  MirrorTyped'
<1> USE DEF Typed, MirrorTyped, Mirror!Goto
<1>1. pc' \in [Proc -> Places] /\ lock' \in Proc \cup {Free}
  <2>1. CASE Mirror!Leave(p)
    BY <2>1, LeaveEffect
  <2>2. CASE ~Mirror!Leave(p)
    BY <2>2 DEF Quiet, Mirror!CaptureScope, Mirror!TakeLock, Mirror!BuildFails, Mirror!ReadReceipt,
         Mirror!ListTree, Mirror!ReadFile, Mirror!VerifyOk, Mirror!Report, Mirror!Choose,
         Mirror!Deleted, Mirror!Crash, Mirror!FreeLock, Writing, Mirror!Stamp, Mirror!Copy,
         Mirror!Validate, Mirror!WriteReceipt, Mirror!DeleteNext, Places, UnderLock, Reading
  <2> QED
    BY <2>1, <2>2
<1>2. published' \in Seq(Gen)
  <2>1. CASE Mirror!WriteReceipt(p)
    <3>1. mine[p].gen \in Gen
      BY <2>1 DEF Making, Mirror!WriteReceipt
    <3> QED
      BY <2>1, <3>1 DEF Mirror!WriteReceipt
  <2>2. CASE ~Mirror!WriteReceipt(p)
    BY <2>2, QuietKeeps DEF Writing, Mirror!Stamp, Mirror!Copy, Mirror!Validate, Mirror!DeleteNext
  <2> QED
    BY <2>1, <2>2
<1> QED
  BY <1>1, <1>2

LEMMA MineTypedStep ==
  ASSUME Typed, Pruning, Making, NsBounded, ReceiptsTrue, NEW p \in Proc, Quiet(p) \/ Writing(p)
  PROVE  LocalsTyped'
<1>1. CASE Mirror!Leave(p)
  BY <1>1, LeaveEffect
<1>2. CASE Mirror!CaptureScope(p)
  <2>1. PICK s \in Scopes : mine' = [mine EXCEPT ![p].scope = s]
    BY <1>2 DEF Mirror!CaptureScope
  <2> QED
    BY <2>1, MirrorAssumption DEF Typed, LocalsTyped
<1>8. CASE Mirror!TakeLock(p) /\ ~Mirror!Leave(p)
  BY <1>8 DEF Typed, LocalsTyped, Mirror!TakeLock
<1>9. CASE Mirror!BuildFails(p)
  <2>1. mine[p].gen \in Gen
    BY <1>9 DEF Making, Mirror!BuildFails
  <2> QED
    BY <1>9, <2>1 DEF Typed, LocalsTyped, Mirror!BuildFails
<1>10. CASE (Mirror!ListTree(p) \/ Mirror!ReadFile(p) \/ Mirror!Copy(p)) /\ ~Mirror!Leave(p)
  <2>1. \E s \in SUBSET (File \cup Gen) : mine' = [mine EXCEPT ![p].todo = s]
    <3>1. mine[p].found \in SUBSET File /\ mine[p].todo \in SUBSET (File \cup Gen)
      BY DEF Typed, LocalsTyped
    <3> QED
      BY <1>10, <3>1 DEF Mirror!ListTree, Mirror!ReadFile, Mirror!Copy
  <2> QED
    BY <2>1 DEF Typed, LocalsTyped
<1>11. CASE Mirror!VerifyOk(p) \/ Mirror!FreeLock(p) \/ Mirror!Validate(p)
  BY <1>11 DEF Typed, LocalsTyped, Mirror!VerifyOk, Mirror!FreeLock, Mirror!Validate
<1>12. CASE Mirror!Report(p) \/ Mirror!Deleted(p) \/ Mirror!WriteReceipt(p)
  BY <1>1, <1>12 DEF Mirror!Report, Mirror!Deleted, Mirror!WriteReceipt
<1>3. CASE Mirror!Stamp(p)
  BY <1>3, StampEffect
<1>4. CASE Mirror!Choose(p) /\ ~Mirror!Leave(p)
  <2>1. PICK g \in Gen : mine' = [mine EXCEPT ![p].gen = g, ![p].todo = Mirror!Candidates \ {g}]
    BY <1>4, ChooseEffect
  <2>2. Mirror!Candidates \ {g} \in SUBSET (File \cup Gen)
    BY DEF Mirror!Candidates
  <2> QED
    BY <2>1, <2>2, UpdateTyped
<1>5. CASE Mirror!DeleteNext(p)
  <2>1. mine' = mine \/ \E s \in SUBSET (File \cup Gen) : mine' = [mine EXCEPT ![p].todo = s]
    <3>1. mine[p].todo \in SUBSET (File \cup Gen)
      BY DEF Typed, LocalsTyped
    <3>2. PICK g : mine' = mine \/ mine' = [mine EXCEPT ![p].todo = @ \ {g}]
      BY <1>5, DeleteEffect
    <3>3. mine[p].todo \ {g} \in SUBSET (File \cup Gen)
      BY <3>1
    <3> QED
      BY <3>2, <3>3
  <2> QED
    BY <2>1 DEF Typed, LocalsTyped
<1>6. CASE Mirror!Crash(p)
  BY <1>6 DEF Typed, LocalsTyped, Mirror!Crash, Mirror!Blank
<1>7. CASE Mirror!ReadReceipt(p) /\ ~Mirror!Leave(p)
  BY <1>7 DEF Typed, LocalsTyped, GensTyped, Mirror!ReadReceipt, Mirror!ReceiptOf
<1> QED
  BY <1>1, <1>2, <1>3, <1>4, <1>5, <1>6, <1>7, <1>8, <1>9, <1>10, <1>11, <1>12 DEF Quiet, Writing

LEMMA GensTypedStep ==
  ASSUME Typed, Pruning, Making, NsBounded, ReceiptsTrue, NEW p \in Proc, Quiet(p) \/ Writing(p)
  PROVE  GensTyped'
<1>1. CASE Quiet(p)
  BY <1>1, QuietKeeps DEF Typed, GensTyped
<1>2. CASE Mirror!Stamp(p)
  <2>1. PICK g \in Gen : gens' = [gens EXCEPT ![g].dir = TRUE]
    BY <1>2, StampEffect
  <2> QED
    BY <2>1 DEF Typed, GensTyped
<1>3. CASE Mirror!Copy(p)
  <2>1. mine[p].todo \subseteq File /\ mine[p].gen \in Gen
    BY <1>3 DEF Mirror!Copy, Making
  <2>2. PICK f \in File : gens' = [gens EXCEPT ![mine[p].gen].files = @ \cup {f}]
    BY <1>3, <2>1 DEF Mirror!Copy
  <2>3. gens[mine[p].gen].files \cup {f} \in SUBSET File
    BY <2>1, <2>2 DEF Typed, GensTyped
  <2> QED
    BY <2>1, <2>2, <2>3 DEF Typed, GensTyped
<1>4. CASE Mirror!Validate(p)
  <2>1. mine[p].gen \in Gen
    BY <1>4 DEF Mirror!Validate, Making
  <2>2. Mirror!Torn \in [state : {"none", "torn", "whole"}, scope : SUBSET File, ns : Nat, manifest : SUBSET File]
    BY DEF Mirror!Torn, Mirror!NoReceipt
  <2> QED
    BY <1>4, <2>1, <2>2 DEF Typed, GensTyped, Mirror!Validate
<1>5. CASE Mirror!WriteReceipt(p)
  <2>1. mine[p].gen \in Gen
    BY <1>5 DEF Making, Mirror!WriteReceipt
  <2> QED
    <3>1. mine[p].scope \in SUBSET File /\ mine[p].ns \in Nat
      BY MirrorAssumption DEF Typed, LocalsTyped
    <3> QED
      BY <1>5, <2>1, <3>1 DEF Typed, GensTyped, Mirror!WriteReceipt, Mirror!Receipt
<1>6. CASE Mirror!DeleteNext(p)
  <2>1. PICK g \in Gen :
          \/ \E f : gens' = [gens EXCEPT ![g].files = @ \ {f}]
          \/ gens' = [gens EXCEPT ![g].receipt = Mirror!NoReceipt]
          \/ gens' = [gens EXCEPT ![g].dir = FALSE]
    BY <1>6, DeleteEffect
  <2>2. Mirror!NoReceipt \in [state : {"none", "torn", "whole"}, scope : SUBSET File, ns : Nat, manifest : SUBSET File]
    BY DEF Mirror!NoReceipt
  <2>3. \A f : gens[g].files \ {f} \in SUBSET File
    BY DEF Typed, GensTyped
  <2>4. ASSUME NEW f, gens' = [gens EXCEPT ![g].files = @ \ {f}] PROVE GensTyped'
    BY <2>3, <2>4 DEF Typed, GensTyped
  <2>5. ASSUME gens' = [gens EXCEPT ![g].receipt = Mirror!NoReceipt] PROVE GensTyped'
    BY <2>2, <2>5 DEF Typed, GensTyped
  <2>6. ASSUME gens' = [gens EXCEPT ![g].dir = FALSE] PROVE GensTyped'
    BY <2>6 DEF Typed, GensTyped
  <2> QED
    BY <2>1, <2>4, <2>5, <2>6
<1> QED
  BY <1>1, <1>2, <1>3, <1>4, <1>5, <1>6 DEF Writing

-----------------------------------------------------------------------------
(* Receipts and stamps *)

LEMMA ContainsAppend ==
  ASSUME NEW s \in Seq(Gen), NEW g \in Gen, NEW h
  PROVE  Mirror!Contains(Append(s, g), h) <=> Mirror!Contains(s, h) \/ h = g
<1>1. Len(Append(s, g)) = Len(s) + 1 /\ Len(s) \in Nat
  OBVIOUS
<1>2. \A i \in 1..Len(s) : Append(s, g)[i] = s[i]
  OBVIOUS
<1>3. Append(s, g)[Len(s) + 1] = g
  OBVIOUS
<1> QED
  BY <1>1, <1>2, <1>3 DEF Mirror!Contains

\* What the last step of a build does.
LEMMA WriteReceiptEffect ==
  ASSUME Typed, ReceiptsTrue, Making, NEW p \in Proc, Mirror!WriteReceipt(p)
  PROVE  LET g == mine[p].gen
         IN  /\ g \in Gen /\ pc[p] = "receipt" /\ gens[g].dir /\ gens[g].files = mine[p].scope
             /\ ~Mirror!Contains(published, g) /\ ~Whole(g)
             /\ \A h \in Gen : Whole(h) => Ns(h) < mine[p].ns
             /\ gens'[g].dir = gens[g].dir /\ gens'[g].files = gens[g].files
             /\ gens'[g].receipt = Mirror!Receipt(p)
             /\ \A h \in Gen : h # g => gens'[h] = gens[h]
             /\ published' = Append(published, g)
             /\ Mirror!Leave(p)
<1>1. pc[p] = "receipt" /\ mine[p].gen \in Gen
  BY DEF Mirror!WriteReceipt, Making
<1>2. gens' = [gens EXCEPT ![mine[p].gen].receipt = Mirror!Receipt(p)]
  BY DEF Mirror!WriteReceipt
<1>3. /\ gens'[mine[p].gen].dir = gens[mine[p].gen].dir
      /\ gens'[mine[p].gen].files = gens[mine[p].gen].files
      /\ gens'[mine[p].gen].receipt = Mirror!Receipt(p)
      /\ \A h \in Gen : h # mine[p].gen => gens'[h] = gens[h]
  BY <1>1, <1>2 DEF Typed, GensTyped
<1> QED
  BY <1>1, <1>3 DEF Mirror!WriteReceipt, Making, ReceiptsTrue

\* Only that step makes a receipt that can be read; the others leave it or
\* delete it.
LEMMA OtherReceipts ==
  ASSUME Typed, Pruning, Making, NsBounded, ReceiptsTrue,
         NEW p \in Proc, Quiet(p) \/ Writing(p), ~Mirror!WriteReceipt(p)
  PROVE  /\ published' = published
         /\ \A g \in Gen : gens'[g].receipt \in {gens[g].receipt, Mirror!NoReceipt, Mirror!Torn}
         /\ \A g \in Gen : Whole(g)' => Whole(g) /\ gens'[g].receipt = gens[g].receipt
<1>1. published' = published
  BY QuietKeeps DEF Writing, Mirror!Stamp, Mirror!Copy, Mirror!Validate, Mirror!DeleteNext
<1>2. \A g \in Gen : gens'[g].receipt \in {gens[g].receipt, Mirror!NoReceipt, Mirror!Torn}
  <2>1. CASE Quiet(p)
    BY <2>1, QuietKeeps
  <2>2. CASE Mirror!Stamp(p)
    <3>1. PICK g \in Gen : gens' = [gens EXCEPT ![g].dir = TRUE]
      BY <2>2, StampEffect
    <3> QED
      BY <3>1 DEF Typed, GensTyped
  <2>3. CASE Mirror!Copy(p)
    BY <2>3 DEF Typed, GensTyped, Mirror!Copy
  <2>4. CASE Mirror!Validate(p)
    BY <2>4 DEF Typed, GensTyped, Mirror!Validate
  <2>5. CASE Mirror!DeleteNext(p)
    <3>1. PICK g \in Gen :
            \/ \E f : gens' = [gens EXCEPT ![g].files = @ \ {f}]
            \/ gens' = [gens EXCEPT ![g].receipt = Mirror!NoReceipt]
            \/ gens' = [gens EXCEPT ![g].dir = FALSE]
      BY <2>5, DeleteEffect
    <3> QED
      BY <3>1 DEF Typed, GensTyped
  <2> QED
    BY <2>1, <2>2, <2>3, <2>4, <2>5 DEF Writing
<1>3. Mirror!NoReceipt.state = "none" /\ Mirror!Torn.state = "torn"
  BY DEF Mirror!NoReceipt, Mirror!Torn
<1> QED
  BY <1>1, <1>2, <1>3 DEF Whole

LEMMA ReceiptsTrueStep ==
  ASSUME Typed, Pruning, Making, NsBounded, ReceiptsTrue, NEW p \in Proc, Quiet(p) \/ Writing(p)
  PROVE  ReceiptsTrue'
<1>1. CASE Mirror!WriteReceipt(p)
  <2>1. PICK new \in Gen :
          /\ gens[new].dir /\ gens[new].files = mine[p].scope
          /\ gens'[new].dir = gens[new].dir /\ gens'[new].files = gens[new].files
          /\ gens'[new].receipt.manifest = mine[p].scope /\ gens'[new].receipt.scope = mine[p].scope
          /\ \A h \in Gen : h # new => gens'[h] = gens[h]
          /\ published' = Append(published, new)
    <3>1. gens[mine[p].gen].files = mine[p].scope
      BY <1>1, WriteReceiptEffect
    <3>2. Mirror!Receipt(p).manifest = mine[p].scope /\ Mirror!Receipt(p).scope = mine[p].scope
      BY <3>1 DEF Mirror!Receipt
    <3>3. /\ mine[p].gen \in Gen
          /\ gens[mine[p].gen].dir /\ gens'[mine[p].gen].dir = gens[mine[p].gen].dir
          /\ gens'[mine[p].gen].files = gens[mine[p].gen].files
          /\ gens'[mine[p].gen].receipt = Mirror!Receipt(p)
          /\ \A h \in Gen : h # mine[p].gen => gens'[h] = gens[h]
          /\ published' = Append(published, mine[p].gen)
      BY <1>1, WriteReceiptEffect
    <3> QED
      BY <3>1, <3>2, <3>3
  <2>2. \A h : Mirror!Contains(published, h)' <=> Mirror!Contains(published, h) \/ h = new
    <3>1. published \in Seq(Gen)
      BY DEF Typed, MirrorTyped
    <3> QED
      BY <2>1, <3>1, ContainsAppend DEF Mirror!Contains
  <2>3. ASSUME NEW g \in Gen, Whole(g)', g # new
        PROVE  /\ gens'[g].dir /\ Mirror!Contains(published, g)'
               /\ gens'[g].receipt.manifest = gens'[g].receipt.scope
               /\ gens'[g].files \subseteq gens'[g].receipt.manifest
    BY <2>1, <2>2, <2>3 DEF ReceiptsTrue, Whole
  <2>4. /\ gens'[new].dir /\ Mirror!Contains(published, new)'
        /\ gens'[new].receipt.manifest = gens'[new].receipt.scope
        /\ gens'[new].files \subseteq gens'[new].receipt.manifest
    BY <2>1, <2>2
  <2> QED
    BY <2>3, <2>4 DEF ReceiptsTrue
<1>2. CASE ~Mirror!WriteReceipt(p)
  <2>1. /\ published' = published
        /\ \A g \in Gen : Whole(g)' => Whole(g) /\ gens'[g].receipt = gens[g].receipt
    BY <1>2, OtherReceipts
  <2>2. ASSUME NEW g \in Gen, Whole(g), Whole(g)' PROVE gens'[g].dir /\ gens'[g].files \subseteq gens[g].files
    <3>1. gens[g].dir
      BY <2>2 DEF ReceiptsTrue
    <3>2. CASE Quiet(p)
      BY <3>1, <3>2, QuietKeeps
    <3>3. CASE Mirror!Stamp(p)
      <4>1. PICK h \in Gen : gens' = [gens EXCEPT ![h].dir = TRUE]
        BY <3>3, StampEffect
      <4> QED
        BY <3>1, <4>1 DEF Typed, GensTyped
    <3>4. CASE Mirror!Copy(p)
      <4>1. mine[p].gen # g
        BY <2>2, <3>4 DEF Mirror!Copy, Making, ReceiptsTrue
      <4>2. PICK f : gens' = [gens EXCEPT ![mine[p].gen].files = @ \cup {f}]
        BY <3>4 DEF Mirror!Copy
      <4>3. gens'[g] = gens[g]
        BY <4>1, <4>2 DEF Typed, GensTyped
      <4> QED
        BY <3>1, <4>3
    <3>5. CASE Mirror!Validate(p)
      BY <3>1, <3>5 DEF Typed, GensTyped, Mirror!Validate
    <3>6. CASE Mirror!DeleteNext(p)
      <4>1. PICK h \in Gen :
              \/ \E f : gens' = [gens EXCEPT ![h].files = @ \ {f}]
              \/ gens' = [gens EXCEPT ![h].receipt = Mirror!NoReceipt]
              \/ gens' = [gens EXCEPT ![h].dir = FALSE] /\ gens[h].receipt.state = "none"
        BY <3>6, DeleteEffect
      <4> QED
        BY <2>2, <3>1, <4>1 DEF Typed, GensTyped, Whole
    <3> QED
      BY <1>2, <3>2, <3>3, <3>4, <3>5, <3>6 DEF Writing
  <2>3. ASSUME NEW g \in Gen, Whole(g)'
        PROVE  /\ gens'[g].dir /\ Mirror!Contains(published, g)'
               /\ gens'[g].receipt.manifest = gens'[g].receipt.scope
               /\ gens'[g].files \subseteq gens'[g].receipt.manifest
    <3>1. Whole(g) /\ gens'[g].receipt = gens[g].receipt
      BY <2>1, <2>3
    <3>2. gens'[g].dir /\ gens'[g].files \subseteq gens[g].files
      BY <2>2, <2>3, <3>1
    <3> QED
      BY <2>1, <3>1, <3>2 DEF ReceiptsTrue, Mirror!Contains
  <2> QED
    BY <2>3 DEF ReceiptsTrue
<1> QED
  BY <1>1, <1>2

\* A process takes a new stamp in Stamp only.
LEMMA OtherStamps ==
  ASSUME Typed, NsBounded, NEW p \in Proc, Quiet(p) \/ Writing(p), ~Mirror!Stamp(p)
  PROVE  mine'[p].ns \in {mine[p].ns, 0}
<1> USE DEF Typed, LocalsTyped
<1>1. CASE Mirror!Leave(p)
  BY <1>1, LeaveEffect DEF Mirror!Blank
<1>2. CASE Mirror!Choose(p) /\ ~Mirror!Leave(p)
  <2>1. PICK g \in Gen : mine' = [mine EXCEPT ![p].gen = g, ![p].todo = Mirror!Candidates \ {g}]
    BY <1>2, ChooseEffect
  <2> QED
    BY <2>1
<1>3. CASE Mirror!CaptureScope(p) \/ Mirror!BuildFails(p) \/ Mirror!ListTree(p) \/ Mirror!ReadFile(p)
  <2>1. CASE Mirror!CaptureScope(p)
    BY <2>1 DEF Mirror!CaptureScope
  <2>2. CASE Mirror!BuildFails(p)
    BY <2>2 DEF Mirror!BuildFails
  <2>3. CASE (Mirror!ListTree(p) \/ Mirror!ReadFile(p)) /\ ~Mirror!Leave(p)
    BY <2>3 DEF Mirror!ListTree, Mirror!ReadFile
  <2> QED
    BY <1>1, <1>3, <2>1, <2>2, <2>3
<1>6. CASE Mirror!ReadReceipt(p) /\ ~Mirror!Leave(p)
  BY <1>6 DEF Mirror!ReadReceipt
<1>7. CASE Mirror!Crash(p)
  BY <1>7 DEF Mirror!Crash, Mirror!Blank
<1>8. CASE ~Mirror!Leave(p) /\ (Mirror!TakeLock(p) \/ Mirror!VerifyOk(p) \/ Mirror!Report(p)
                                \/ Mirror!Deleted(p) \/ Mirror!FreeLock(p))
  BY <1>8 DEF Mirror!TakeLock, Mirror!VerifyOk, Mirror!Report, Mirror!Deleted, Mirror!FreeLock
<1>4. CASE ~Mirror!Leave(p) /\ (Mirror!Copy(p) \/ Mirror!Validate(p) \/ Mirror!WriteReceipt(p))
  BY <1>4 DEF Mirror!Copy, Mirror!Validate, Mirror!WriteReceipt
<1>5. CASE Mirror!DeleteNext(p)
  <2>1. \E S : mine' = mine \/ mine' = [mine EXCEPT ![p].todo = S]
    BY <1>5 DEF Mirror!DeleteNext
  <2> QED
    BY <2>1
<1> QED
  BY <1>1, <1>2, <1>3, <1>4, <1>5, <1>6, <1>7, <1>8 DEF Quiet, Writing

LEMMA NsBoundedStep ==
  ASSUME Typed, Typed', Pruning, Making, NsBounded, ReceiptsTrue, NEW p \in Proc, Quiet(p) \/ Writing(p)
  PROVE  NsBounded'
<1>1. PICK b \in Nat : (\A g \in Gen : Ns(g) <= b) /\ (\A r \in Proc : mine[r].ns <= b)
  BY DEF NsBounded
<1>2. \A g \in Gen : Ns(g)' <= b
  <2>1. CASE Mirror!WriteReceipt(p)
    <3>1. PICK new \in Gen :
            gens'[new].receipt = Mirror!Receipt(p) /\ \A h \in Gen : h # new => gens'[h] = gens[h]
      BY <2>1, WriteReceiptEffect
    <3>2. Mirror!Receipt(p).ns <= b
      BY <1>1 DEF Mirror!Receipt
    <3> QED
      BY <1>1, <3>1, <3>2 DEF Ns
  <2>2. CASE ~Mirror!WriteReceipt(p)
    <3>1. \A g \in Gen : gens'[g].receipt \in {gens[g].receipt, Mirror!NoReceipt, Mirror!Torn}
      BY <2>2, OtherReceipts
    <3>2. Mirror!NoReceipt.ns = 0 /\ Mirror!Torn.ns = 0
      BY DEF Mirror!NoReceipt, Mirror!Torn
    <3> QED
      BY <1>1, <3>1, <3>2 DEF Ns
  <2> QED
    BY <2>1, <2>2
<1>3. \A r \in Proc : mine'[r].ns <= b \/ (r = p /\ Mirror!Stamp(p))
  BY <1>1, OtherStamps, OthersStay DEF Typed, LocalsTyped
<1>4. mine'[p].ns \in Nat /\ \A g \in Gen : Ns(g)' \in Nat
  BY DEF Typed, LocalsTyped, GensTyped, Ns
<1>5. \A r \in Proc : mine'[r].ns \in Nat
  BY DEF Typed, LocalsTyped
<1> DEFINE c == b + mine'[p].ns
<1>6. c \in Nat /\ b <= c /\ mine'[p].ns <= c
  BY <1>4
<1>7. \A g \in Gen : Ns(g)' <= c
  <2> HIDE DEF c
  <2> QED
    BY <1>2, <1>4, <1>6
<1>8. \A r \in Proc : mine'[r].ns <= c
  <2> HIDE DEF c
  <2> QED
    BY <1>3, <1>5, <1>6
<1> HIDE DEF c
<1> QED
  BY <1>6, <1>7, <1>8 DEF NsBounded

\* A generation is published once, and after those with smaller stamps.
LEMMA OrderStep ==
  ASSUME Typed, Pruning, Making, NsBounded, ReceiptsTrue, OnceEach, InOrder,
         NEW p \in Proc, Quiet(p) \/ Writing(p)
  PROVE  OnceEach' /\ InOrder'
<1>1. CASE Mirror!WriteReceipt(p)
  <2>1. PICK new \in Gen :
          /\ new = mine[p].gen
          /\ ~Mirror!Contains(published, new)
          /\ \A h \in Gen : Whole(h) => Ns(h) < mine[p].ns
          /\ gens'[new].receipt = Mirror!Receipt(p)
          /\ \A h \in Gen : h # new => gens'[h] = gens[h]
          /\ published' = Append(published, new)
    BY <1>1, WriteReceiptEffect
  <2>2. gens'[new].receipt.ns = mine[p].ns
    BY <2>1 DEF Mirror!Receipt
  <2> DEFINE n == Len(published)
  <2>3. n \in Nat /\ published \in Seq(Gen)
    BY DEF Typed, MirrorTyped
  <2>4. /\ Len(published') = n + 1 /\ published'[n + 1] = new
        /\ \A i \in 1..n : published'[i] = published[i] /\ published[i] \in Gen /\ published[i] # new
    BY <2>1, <2>3 DEF Mirror!Contains
  <2>5. OnceEach'
    BY <2>3, <2>4 DEF OnceEach
  <2>6. ASSUME NEW i \in 1..(n + 1), NEW j \in 1..(n + 1), i < j,
               gens'[published'[i]].receipt.state = "whole", gens'[published'[j]].receipt.state = "whole"
        PROVE  gens'[published'[i]].receipt.ns < gens'[published'[j]].receipt.ns
    <3>1. i \in 1..n /\ published'[i] = published[i] /\ gens'[published[i]] = gens[published[i]]
      BY <2>1, <2>3, <2>4, <2>6
    <3>2. CASE j = n + 1
      BY <2>1, <2>2, <2>4, <2>6, <3>1, <3>2 DEF Whole, Ns
    <3>3. CASE j # n + 1
      <4>1. j \in 1..n /\ published'[j] = published[j] /\ gens'[published[j]] = gens[published[j]]
        BY <2>1, <2>3, <2>4, <3>3
      <4> QED
        BY <2>3, <2>6, <3>1, <4>1 DEF InOrder, Whole, Ns
    <3> QED
      BY <3>2, <3>3
  <2> QED
    BY <2>4, <2>5, <2>6 DEF InOrder, Whole, Ns
<1>2. CASE ~Mirror!WriteReceipt(p)
  <2>1. /\ published' = published
        /\ \A g \in Gen : Whole(g)' => Whole(g) /\ gens'[g].receipt = gens[g].receipt
    BY <1>2, OtherReceipts
  <2>2. \A i \in 1..Len(published) : published[i] \in Gen
    BY DEF Typed, MirrorTyped
  <2> QED
    BY <2>1, <2>2 DEF OnceEach, InOrder, Whole, Ns
<1> QED
  BY <1>1, <1>2

-----------------------------------------------------------------------------
(* What each kind of process relies on *)

\* One that holds the lock finds everything as it was when somebody else moves.
LEMMA HolderUndisturbed ==
  ASSUME Typed, LockIsHeld, NEW p \in Proc, Quiet(p) \/ Writing(p),
         NEW r \in Proc, r # p, pc[r] \in UnderLock
  PROVE  UNCHANGED <<gens, published>> /\ mine'[r] = mine[r] /\ pc'[r] = pc[r]
  BY OthersStay, WriterIsAlone, QuietKeeps

\* Where a process arrives, and by which step.
LEMMA Arrivals ==
  ASSUME Typed, NEW p \in Proc, Quiet(p) \/ Writing(p)
  PROVE  /\ pc'[p] \in {"copy", "receipt"} => Mirror!Stamp(p) \/ Mirror!Copy(p) \/ Mirror!Validate(p)
         /\ pc'[p] \in Reading =>
              \/ Mirror!ReadReceipt(p) /\ ~Mirror!Leave(p)
              \/ mine'[p].gen = mine[p].gen /\ mine'[p].found = mine[p].found
                 /\ mine'[p].scope = mine[p].scope /\ pc[p] \in Reading
         /\ pc'[p] = "delete" =>
              \/ Mirror!BuildFails(p) \/ Mirror!DeleteNext(p)
              \/ Mirror!Choose(p) /\ ~Mirror!Leave(p)
<1> USE DEF Typed, MirrorTyped, LocalsTyped, Mirror!Goto
<1>1. CASE Mirror!Leave(p)
  BY <1>1 DEF Mirror!Leave, Reading
<1>2. CASE ~Mirror!Leave(p) /\ (Mirror!CaptureScope(p) \/ Mirror!TakeLock(p) \/ Mirror!Report(p)
                                \/ Mirror!Deleted(p) \/ Mirror!Crash(p) \/ Mirror!FreeLock(p)
                                \/ Mirror!WriteReceipt(p))
  BY <1>2 DEF Reading, Mirror!CaptureScope, Mirror!TakeLock, Mirror!Report, Mirror!Deleted,
              Mirror!Crash, Mirror!FreeLock, Mirror!WriteReceipt
<1>3. CASE ~Mirror!Leave(p) /\ (Mirror!ListTree(p) \/ Mirror!ReadFile(p) \/ Mirror!VerifyOk(p))
  BY <1>3 DEF Reading, Mirror!ListTree, Mirror!ReadFile, Mirror!VerifyOk
<1>4. CASE ~Mirror!Leave(p) /\ (Mirror!ReadReceipt(p) \/ Mirror!Choose(p))
  BY <1>4 DEF Reading, Mirror!ReadReceipt, Mirror!Choose
<1>5. CASE Mirror!Stamp(p) \/ Mirror!Validate(p) \/ Mirror!BuildFails(p)
  BY <1>5 DEF Reading, Mirror!Stamp, Mirror!Validate, Mirror!BuildFails
<1>6. CASE Mirror!Copy(p) \/ Mirror!DeleteNext(p)
  BY <1>6 DEF Reading, Mirror!Copy, Mirror!DeleteNext
<1> QED
  BY <1>1, <1>2, <1>3, <1>4, <1>5, <1>6 DEF Quiet, Writing

MakingOf(p) ==
  /\ mine[p].gen \in Gen /\ gens[mine[p].gen].dir
  /\ ~Mirror!Contains(published, mine[p].gen)
  /\ \A g \in Gen : Whole(g) => Ns(g) < mine[p].ns
  /\ pc[p] = "copy" => mine[p].todo \subseteq File
  /\ pc[p] = "receipt" => gens[mine[p].gen].files = mine[p].scope

LEMMA MakingNext ==
  ASSUME NEW p \in Proc, NEW g \in Gen, mine'[p].gen = g, gens'[g].dir,
         published' = published, ~Mirror!Contains(published, g),
         \A h \in Gen : gens'[h].receipt.state = "whole" => gens'[h].receipt.ns < mine'[p].ns,
         pc'[p] = "copy" => mine'[p].todo \subseteq File,
         pc'[p] = "receipt" => gens'[g].files = mine'[p].scope
  PROVE  MakingOf(p)'
<1>1. ~Mirror!Contains(published', mine'[p].gen)
  OBVIOUS
<1>2. ~Mirror!Contains(published, mine[p].gen)'
  BY <1>1 DEF Mirror!Contains
<1> QED
  BY <1>2 DEF MakingOf, Whole, Ns

LEMMA MakingStep ==
  ASSUME Typed, Typed', LockIsHeld, Pruning, Making, NsBounded, ReceiptsTrue,
         NEW p \in Proc, Quiet(p) \/ Writing(p)
  PROVE  Making'
<1>1. ASSUME NEW r \in Proc, r # p, pc'[r] \in {"copy", "receipt"} PROVE MakingOf(r)'
  <2>1. pc'[r] = pc[r]
    BY <1>1, OthersStay
  <2>2. UNCHANGED <<gens, published>> /\ mine'[r] = mine[r]
    BY <1>1, <2>1, HolderUndisturbed DEF UnderLock
  <2>3. MakingOf(r)
    BY <1>1, <2>1 DEF Making, MakingOf
  <2> QED
    BY <2>1, <2>2, <2>3 DEF MakingOf, Whole, Ns, Mirror!Contains
<1>2. ASSUME Mirror!Stamp(p) PROVE MakingOf(p)'
  <2>1. PICK g \in Gen, n \in Nat :
          /\ ~Mirror!Contains(published, g) /\ \A h \in Gen : Whole(h) => Ns(h) < n
          /\ gens' = [gens EXCEPT ![g].dir = TRUE]
          /\ mine'[p].gen = g /\ mine'[p].ns = n /\ mine'[p].todo = mine[p].scope
          /\ pc'= [pc EXCEPT ![p] = "copy"] /\ published' = published
    BY <1>2, StampEffect
  <2>2. gens'[g].dir /\ \A h \in Gen : gens'[h].receipt = gens[h].receipt
    BY <2>1 DEF Typed, GensTyped
  <2>3. pc'[p] = "copy" /\ mine'[p].todo \subseteq File
    BY <2>1, MirrorAssumption DEF Typed, MirrorTyped, LocalsTyped
  <2>4. \A h \in Gen : gens'[h].receipt.state = "whole" => gens'[h].receipt.ns < mine'[p].ns
    BY <2>1, <2>2 DEF Whole, Ns
  <2> QED
    BY <2>1, <2>2, <2>3, <2>4, MakingNext
<1>3. ASSUME Mirror!Copy(p) PROVE MakingOf(p)'
  <2>1. PICK g \in Gen :
          /\ g = mine[p].gen /\ gens[g].dir /\ ~Mirror!Contains(published, g)
          /\ \A h \in Gen : Whole(h) => Ns(h) < mine[p].ns
          /\ mine[p].todo \subseteq File
    BY <1>3 DEF Making, Mirror!Copy
  <2>2. PICK f : /\ gens' = [gens EXCEPT ![g].files = @ \cup {f}]
                 /\ mine' = [mine EXCEPT ![p].todo = @ \ {f}]
    BY <1>3, <2>1 DEF Mirror!Copy
  <2>3. pc[p] = "copy" /\ pc' = pc /\ published' = published
    BY <1>3 DEF Mirror!Copy
  <2>4. mine'[p].gen = g /\ mine'[p].ns = mine[p].ns /\ mine'[p].todo = mine[p].todo \ {f}
    BY <2>1, <2>2 DEF Typed, LocalsTyped
  <2>5. gens'[g].dir /\ \A h \in Gen : gens'[h].receipt = gens[h].receipt
    BY <2>1, <2>2 DEF Typed, GensTyped
  <2>6. mine'[p].todo \subseteq File
    BY <2>1, <2>4
  <2>7. \A h \in Gen : gens'[h].receipt.state = "whole" => gens'[h].receipt.ns < mine'[p].ns
    BY <2>1, <2>4, <2>5 DEF Whole, Ns
  <2> QED
    BY <2>1, <2>3, <2>4, <2>5, <2>6, <2>7, MakingNext
<1>4. ASSUME Mirror!Validate(p) PROVE MakingOf(p)'
  <2>1. PICK g \in Gen :
          /\ g = mine[p].gen /\ gens[g].dir /\ ~Mirror!Contains(published, g)
          /\ \A h \in Gen : Whole(h) => Ns(h) < mine[p].ns
    BY <1>4 DEF Making, Mirror!Validate
  <2>2. /\ gens[g].files = mine[p].scope /\ mine' = mine /\ published' = published
        /\ gens' = [gens EXCEPT ![g].receipt = Mirror!Torn]
        /\ pc' = [pc EXCEPT ![p] = "receipt"]
    BY <1>4, <2>1 DEF Mirror!Validate, Mirror!Goto
  <2>3. \A h \in Gen : Whole(h)' => Whole(h) /\ gens'[h].receipt = gens[h].receipt
    BY <2>2 DEF Typed, GensTyped, Whole, Mirror!Torn
  <2>4. gens'[g].dir /\ gens'[g].files = gens[g].files /\ pc'[p] = "receipt"
    BY <2>1, <2>2 DEF Typed, GensTyped, MirrorTyped
  <2>5. \A h \in Gen : gens'[h].receipt.state = "whole" => gens'[h].receipt.ns < mine'[p].ns
    BY <2>1, <2>2, <2>3 DEF Whole, Ns
  <2> QED
    BY <2>1, <2>2, <2>4, <2>5, MakingNext
<1>5. ASSUME pc'[p] \in {"copy", "receipt"} PROVE MakingOf(p)'
  <2>1. Mirror!Stamp(p) \/ Mirror!Copy(p) \/ Mirror!Validate(p)
    BY <1>5, Arrivals
  <2> QED
    BY <1>2, <1>3, <1>4, <2>1
<1> QED
  BY <1>1, <1>5 DEF Making, MakingOf

LEMMA VerifyingStep ==
  ASSUME Typed, Pruning, Making, NsBounded, ReceiptsTrue, Verifying, NEW p \in Proc, Quiet(p) \/ Writing(p)
  PROVE  Verifying'
<1>1. \A g : Mirror!Contains(published, g) => Mirror!Contains(published', g)
  <2>1. CASE Mirror!WriteReceipt(p)
    <3>1. published' = Append(published, mine[p].gen) /\ mine[p].gen \in Gen /\ published \in Seq(Gen)
      BY <2>1, WriteReceiptEffect DEF Typed, MirrorTyped
    <3> QED
      BY <3>1, ContainsAppend
  <2>2. CASE ~Mirror!WriteReceipt(p)
    BY <2>2, OtherReceipts
  <2> QED
    BY <2>1, <2>2
<1>2. ASSUME NEW r \in Proc, pc'[r] \in Reading
      PROVE  Mirror!Contains(published', mine'[r].gen) /\ mine'[r].found = mine'[r].scope
  <2>1. CASE r # p
    <3>1. pc'[r] = pc[r] /\ mine'[r] = mine[r]
      BY <2>1, OthersStay
    <3> QED
      BY <1>1, <1>2, <3>1 DEF Verifying
  <2>2. CASE r = p /\ Mirror!ReadReceipt(p) /\ ~Mirror!Leave(p)
    <3>1. PICK g \in Gen :
            /\ Mirror!Readable(g) /\ Mirror!ReceiptOf(g).scope = mine[p].scope
            /\ mine' = [mine EXCEPT ![p].gen = g, ![p].found = Mirror!ReceiptOf(g).manifest]
      BY <2>2 DEF Mirror!ReadReceipt
    <3>2. Whole(g) /\ gens[g].receipt.scope = mine[p].scope
      BY <3>1 DEF Mirror!Readable, Mirror!ReceiptOf, Whole
    <3>3. Mirror!Contains(published, g) /\ gens[g].receipt.manifest = mine[p].scope
      BY <3>2 DEF ReceiptsTrue
    <3>4. mine'[p].gen = g /\ mine'[p].found = gens[g].receipt.manifest /\ mine'[p].scope = mine[p].scope
      BY <3>1 DEF Typed, LocalsTyped, Mirror!ReceiptOf
    <3> QED
      BY <1>1, <2>2, <3>3, <3>4
  <2>3. CASE r = p /\ ~(Mirror!ReadReceipt(p) /\ ~Mirror!Leave(p))
    <3>1. /\ mine'[p].gen = mine[p].gen /\ mine'[p].found = mine[p].found
          /\ mine'[p].scope = mine[p].scope /\ pc[p] \in Reading
      BY <1>2, <2>3, Arrivals
    <3> QED
      BY <1>1, <2>3, <3>1 DEF Verifying
  <2> QED
    BY <2>1, <2>2, <2>3
<1> QED
  BY <1>2 DEF Verifying, Mirror!Contains

\* What a prune relies on, for its list, what it keeps, and its scope.
PruningOf(todo, g, s) ==
  /\ todo \subseteq Gen /\ g \notin todo
  /\ g # Free =>
       /\ Mirror!Verifies(g, s)
       /\ \A h \in Gen : Mirror!Verifies(h, s) => Ns(h) <= Ns(g)

\* A deletion leaves what is kept, and makes nothing verify.
LEMMA DeletionKeeps ==
  ASSUME Typed, Pruning, ReceiptsTrue, NEW p \in Proc, Mirror!DeleteNext(p), NEW s
  PROVE  /\ mine[p].gen \in Gen => gens'[mine[p].gen] = gens[mine[p].gen]
         /\ mine'[p].gen = mine[p].gen /\ mine'[p].scope = mine[p].scope
         /\ mine'[p].todo \subseteq mine[p].todo
         /\ \A h \in Gen : Mirror!Verifies(h, s)' => Mirror!Verifies(h, s) /\ gens'[h].receipt = gens[h].receipt
<1>1. PICK g \in mine[p].todo :
        /\ g \in Gen /\ pc[p] = "delete"
        /\ \/ \E f \in gens[g].files : gens' = [gens EXCEPT ![g].files = @ \ {f}] /\ mine' = mine
           \/ gens' = [gens EXCEPT ![g].receipt = Mirror!NoReceipt] /\ mine' = mine
           \/ /\ gens' = [gens EXCEPT ![g].dir = FALSE]
              /\ mine' = [mine EXCEPT ![p].todo = @ \ {g}]
  BY DeleteEffect
<1>2. mine[p].gen # g
  BY <1>1 DEF Pruning
<1>3. \A h \in Gen : h # g => gens'[h] = gens[h]
  BY <1>1 DEF Typed, GensTyped
<1>4. /\ mine'[p].gen = mine[p].gen /\ mine'[p].scope = mine[p].scope
      /\ mine'[p].todo \subseteq mine[p].todo
  BY <1>1 DEF Typed, LocalsTyped
<1>5. ASSUME NEW f \in gens[g].files, gens' = [gens EXCEPT ![g].files = @ \ {f}]
      PROVE  ~Mirror!Verifies(g, s)'
  <2>1. gens'[g].files = gens[g].files \ {f} /\ gens'[g].receipt = gens[g].receipt
    BY <1>1, <1>5 DEF Typed, GensTyped
  <2>2. CASE ~Whole(g)
    BY <2>1, <2>2 DEF Whole, Mirror!Verifies, Mirror!Readable, Mirror!ReceiptOf
  <2>3. CASE Whole(g)
    <3>1. f \in gens[g].receipt.manifest
      BY <1>1, <1>5, <2>3 DEF ReceiptsTrue
    <3> QED
      BY <2>1, <3>1 DEF Mirror!Verifies, Mirror!Mismatch, Mirror!ReceiptOf
  <2> QED
    BY <2>2, <2>3
<1>6. ASSUME gens' = [gens EXCEPT ![g].receipt = Mirror!NoReceipt] \/ gens' = [gens EXCEPT ![g].dir = FALSE]
      PROVE  ~Mirror!Verifies(g, s)'
  BY <1>1, <1>6 DEF Typed, GensTyped, Mirror!Verifies, Mirror!Readable, Mirror!ReceiptOf, Mirror!NoReceipt
<1>7. ~Mirror!Verifies(g, s)'
  BY <1>1, <1>5, <1>6
<1>8. ASSUME NEW h \in Gen, h # g
      PROVE  Mirror!Verifies(h, s)' => Mirror!Verifies(h, s) /\ gens'[h].receipt = gens[h].receipt
  BY <1>3, <1>8 DEF Mirror!Verifies, Mirror!Readable, Mirror!ReceiptOf, Mirror!Mismatch
<1> QED
  BY <1>2, <1>3, <1>4, <1>7, <1>8

LEMMA PruningStep ==
  ASSUME Typed, LockIsHeld, Pruning, Making, NsBounded, ReceiptsTrue, NEW p \in Proc, Quiet(p) \/ Writing(p)
  PROVE  Pruning'
<1>1. ASSUME NEW r \in Proc, r # p, pc'[r] = "delete"
      PROVE  PruningOf(mine[r].todo, mine[r].gen, mine[r].scope)'
  <2>1. pc'[r] = pc[r]
    BY <1>1, OthersStay
  <2>2. UNCHANGED <<gens, published>> /\ mine'[r] = mine[r]
    BY <1>1, <2>1, HolderUndisturbed DEF UnderLock
  <2>3. PruningOf(mine[r].todo, mine[r].gen, mine[r].scope)
    BY <1>1, <2>1 DEF Pruning, PruningOf
  <2> QED
    BY <2>2, <2>3 DEF PruningOf, Ns, Mirror!Verifies, Mirror!Readable, Mirror!ReceiptOf, Mirror!Mismatch
<1>2. ASSUME Mirror!BuildFails(p)
      PROVE  PruningOf(mine[p].todo, mine[p].gen, mine[p].scope)'
  <2>1. PICK g \in Gen : mine' = [mine EXCEPT ![p].gen = Free, ![p].todo = {g}]
    BY <1>2 DEF Mirror!BuildFails, Making
  <2>2. mine'[p].gen = Free /\ mine'[p].todo = {g}
    BY <2>1 DEF Typed, LocalsTyped
  <2> QED
    BY <2>2, MirrorAssumption DEF PruningOf
<1>3. ASSUME Mirror!Choose(p), ~Mirror!Leave(p)
      PROVE  PruningOf(mine[p].todo, mine[p].gen, mine[p].scope)'
  <2>1. PICK g \in Gen :
          /\ Mirror!Verifies(g, mine[p].scope)
          /\ \A h \in Gen : Mirror!Verifies(h, mine[p].scope) => Ns(h) <= Ns(g)
          /\ mine' = [mine EXCEPT ![p].gen = g, ![p].todo = Mirror!Candidates \ {g}]
    BY <1>3, ChooseEffect
  <2>2. /\ mine'[p].gen = g /\ mine'[p].todo = Mirror!Candidates \ {g}
        /\ mine'[p].scope = mine[p].scope
    BY <2>1 DEF Typed, LocalsTyped
  <2>3. gens' = gens
    BY <1>3 DEF Mirror!Choose
  <2>4. mine'[p].todo \subseteq Gen /\ g \notin mine'[p].todo
    BY <2>2 DEF Mirror!Candidates
  <2>5. Mirror!Verifies(g, mine[p].scope)' /\ \A h \in Gen : Mirror!Verifies(h, mine[p].scope)' => Ns(h)' <= Ns(g)'
    BY <2>1, <2>2, <2>3 DEF Ns, Mirror!Verifies, Mirror!Readable, Mirror!ReceiptOf, Mirror!Mismatch
  <2> QED
    BY <2>2, <2>4, <2>5 DEF PruningOf, Ns, Mirror!Verifies, Mirror!Readable, Mirror!ReceiptOf, Mirror!Mismatch
<1>4. ASSUME Mirror!DeleteNext(p)
      PROVE  PruningOf(mine[p].todo, mine[p].gen, mine[p].scope)'
  <2>1. PICK s : s = mine[p].scope
    OBVIOUS
  <2>2. PICK g : g = mine[p].gen
    OBVIOUS
  <2>3. pc[p] = "delete"
    BY <1>4 DEF Mirror!DeleteNext
  <2>4. /\ mine[p].todo \subseteq Gen /\ g \notin mine[p].todo
        /\ g # Free => /\ Mirror!Verifies(g, s)
                       /\ \A h \in Gen : Mirror!Verifies(h, s) => Ns(h) <= Ns(g)
    BY <2>1, <2>2, <2>3 DEF Pruning
  <2>5. /\ g \in Gen => gens'[g] = gens[g]
        /\ mine'[p].gen = g /\ mine'[p].scope = s /\ mine'[p].todo \subseteq mine[p].todo
        /\ \A h \in Gen : Mirror!Verifies(h, s)' => Mirror!Verifies(h, s) /\ gens'[h].receipt = gens[h].receipt
    BY <1>4, <2>1, <2>2, DeletionKeeps
  <2>6. mine'[p].todo \subseteq Gen /\ g \notin mine'[p].todo
    BY <2>4, <2>5
  <2>7. CASE g = Free
    BY <2>5, <2>6, <2>7 DEF PruningOf
  <2>8. CASE g # Free
    <3>1. g \in Gen
      BY <2>2, <2>8 DEF Typed, LocalsTyped
    <3>2. gens'[g] = gens[g] /\ Mirror!Verifies(g, s)'
      BY <2>4, <2>5, <2>8, <3>1 DEF Mirror!Verifies, Mirror!Readable, Mirror!ReceiptOf, Mirror!Mismatch
    <3>3. ASSUME NEW h \in Gen, Mirror!Verifies(h, s)' PROVE Ns(h)' <= Ns(g)'
      BY <2>4, <2>5, <2>8, <3>2, <3>3 DEF Ns
    <3>4. Mirror!Verifies(g, mine[p].scope)' /\ \A h \in Gen : Mirror!Verifies(h, mine[p].scope)' => Mirror!Verifies(h, s)'
      BY <2>5, <3>2 DEF Mirror!Verifies, Mirror!Readable, Mirror!ReceiptOf, Mirror!Mismatch
    <3>5. \A h \in Gen : Mirror!Verifies(h, mine[p].scope)' => Ns(h)' <= gens'[g].receipt.ns
      BY <3>3, <3>4 DEF Ns
    <3> QED
      BY <2>5, <2>6, <3>4, <3>5 DEF PruningOf, Ns, Mirror!Verifies, Mirror!Readable, Mirror!ReceiptOf, Mirror!Mismatch
  <2> QED
    BY <2>7, <2>8
<1>5. ASSUME pc'[p] = "delete" PROVE PruningOf(mine[p].todo, mine[p].gen, mine[p].scope)'
  <2>1. \/ Mirror!BuildFails(p) \/ Mirror!DeleteNext(p)
        \/ Mirror!Choose(p) /\ ~Mirror!Leave(p)
    BY <1>5, Arrivals
  <2> QED
    BY <1>2, <1>3, <1>4, <2>1
<1> QED
  BY <1>1, <1>5 DEF Pruning, PruningOf

-----------------------------------------------------------------------------
(* The invariant holds always *)

LEMMA MirrorInit == Mirror!Init => MirrorInv
<1> SUFFICES ASSUME Mirror!Init PROVE MirrorInv
  OBVIOUS
<1>1. /\ lock = Free /\ gens = [g \in Gen |-> Mirror!Absent] /\ published = <<>>
      /\ pc = [p \in Proc |-> "idle"] /\ mine = [p \in Proc |-> Mirror!Blank]
  BY DEF Mirror!Init
<1>2. /\ Mirror!Absent \in [dir : BOOLEAN, files : SUBSET File,
                            receipt : [state : {"none", "torn", "whole"}, scope : SUBSET File,
                                       ns : Nat, manifest : SUBSET File]]
      /\ Mirror!Absent.receipt.state = "none" /\ Mirror!Absent.receipt.ns = 0
  BY DEF Mirror!Absent, Mirror!NoReceipt
<1>3. /\ Mirror!Blank \in [scope : Scopes \cup {{}}, gen : Gen \cup {Free}, ns : Nat,
                           todo : SUBSET (File \cup Gen), found : SUBSET File]
      /\ Mirror!Blank.ns = 0
  BY DEF Mirror!Blank
<1>4. Typed
  BY <1>1, <1>2, <1>3 DEF Typed, MirrorTyped, GensTyped, LocalsTyped, Places
<1>5. ReceiptsTrue
  BY <1>1, <1>2 DEF ReceiptsTrue, Whole
<1>6. NsBounded
  BY <1>1, <1>2, <1>3 DEF NsBounded, Ns
<1>7. Len(published) = 0
  BY <1>1
<1>8. OnceEach /\ InOrder
  BY <1>7 DEF OnceEach, InOrder
<1>9. LockIsHeld /\ Making /\ Verifying /\ Pruning
  BY <1>1 DEF LockIsHeld, UnderLock, Making, Verifying, Reading, Pruning
<1> QED
  BY <1>4, <1>5, <1>6, <1>8, <1>9 DEF MirrorInv

LEMMA MirrorStep == MirrorInv /\ Mirror!Next => MirrorInv'
<1> SUFFICES ASSUME MirrorInv, Mirror!Next PROVE MirrorInv'
  OBVIOUS
<1> USE DEF MirrorInv
<1>1. PICK p \in Proc : Quiet(p) \/ Writing(p)
  BY MirrorStepKinds
<1>2. MirrorTyped' /\ GensTyped' /\ LocalsTyped'
  BY <1>1, ControlTypedStep, GensTypedStep, MineTypedStep
<1>3. Typed'
  BY <1>2 DEF Typed
<1>4. LockIsHeld' /\ ReceiptsTrue' /\ Verifying' /\ Pruning'
  BY <1>1, LockIsHeldStep, ReceiptsTrueStep, VerifyingStep, PruningStep
<1>5. OnceEach' /\ InOrder'
  BY <1>1, OrderStep
<1>6. NsBounded' /\ Making'
  BY <1>1, <1>3, NsBoundedStep, MakingStep
<1> QED
  BY <1>3, <1>4, <1>5, <1>6

LEMMA MirrorStutter == MirrorInv /\ UNCHANGED <<lock, gens, published, pc, mine>> => MirrorInv'
<1> SUFFICES ASSUME MirrorInv, UNCHANGED <<lock, gens, published, pc, mine>> PROVE MirrorInv'
  OBVIOUS
<1>1. Typed' /\ LockIsHeld' /\ NsBounded'
  BY DEF MirrorInv, Typed, MirrorTyped, GensTyped, LocalsTyped, LockIsHeld, NsBounded, Ns
<1>2. ReceiptsTrue' /\ OnceEach' /\ InOrder'
  BY DEF MirrorInv, ReceiptsTrue, OnceEach, InOrder, Whole, Ns, Mirror!Contains
<1>3. Making' /\ Verifying'
  BY DEF MirrorInv, Making, Verifying, Whole, Ns, Mirror!Contains
<1>4. Pruning'
  BY DEF MirrorInv, Pruning, Ns, Mirror!Verifies, Mirror!Readable, Mirror!ReceiptOf, Mirror!Mismatch
<1> QED
  BY <1>1, <1>2, <1>3, <1>4 DEF MirrorInv

\* A behaviour of another part says nothing of the mirror.
THEOREM MirrorInductive == Spec => []MirrorIsKept
<1>1. Init => MirrorIsKept
  <2> SUFFICES ASSUME Init, part = "mirror" PROVE MirrorInv
    BY DEF MirrorIsKept
  <2>1. Mirror!Init
    BY DEF Init
  <2> QED
    BY <2>1, MirrorInit
<1>2. MirrorIsKept /\ [Next]_vars => MirrorIsKept'
  <2> SUFFICES ASSUME MirrorIsKept, [Next]_vars, part' = "mirror" PROVE MirrorInv'
    BY DEF MirrorIsKept
  <2>1. part' = part
    BY DEF Next, vars
  <2>2. Mirror!Next \/ UNCHANGED <<lock, gens, published, pc, mine>>
    BY <2>1 DEF Next, vars, mirrorOnly
  <2> QED
    BY <2>1, <2>2, MirrorStep, MirrorStutter DEF MirrorIsKept
<1> QED
  BY <1>1, <1>2, PTL DEF Spec

LEMMA MirrorIsTyped == MirrorInv => Mirror!TypeOK
<1> SUFFICES ASSUME MirrorInv PROVE Mirror!TypeOK
  OBVIOUS
<1>1. Mirror!IsInjective(published)
  BY DEF MirrorInv, Typed, MirrorTyped, OnceEach, Mirror!IsInjective
<1>2. \A g \in Gen : gens[g].files \subseteq File /\ Mirror!ReceiptOf(g).state \in {"none", "torn", "whole"}
  BY DEF MirrorInv, Typed, GensTyped, Mirror!ReceiptOf
<1> QED
  BY <1>1, <1>2 DEF MirrorInv, Typed, MirrorTyped, LocalsTyped, Mirror!TypeOK

\* The stamps of verified generations put the kept one last in the order of
\* publication, since no other that verifies has a greater stamp.
LEMMA KeptIsLast == MirrorInv => Mirror!NewestIsKept
<1> SUFFICES ASSUME MirrorInv, NEW p \in Proc, pc[p] = "delete", mine[p].gen # Free
             PROVE  /\ Mirror!Verifies(mine[p].gen, mine[p].scope)
                    /\ \A g \in Mirror!Candidates :
                         Mirror!Verifies(g, mine[p].scope) => Mirror!Position(g) <= Mirror!Position(mine[p].gen)
  BY DEF Mirror!NewestIsKept
<1>1. /\ Mirror!Verifies(mine[p].gen, mine[p].scope)
      /\ \A g \in Gen : Mirror!Verifies(g, mine[p].scope) => Ns(g) <= Ns(mine[p].gen)
  BY DEF MirrorInv, Pruning
<1>2. mine[p].gen \in Gen
  BY DEF MirrorInv, Typed, LocalsTyped
<1>3. ASSUME NEW g \in Gen, Mirror!Verifies(g, mine[p].scope)
      PROVE  /\ Whole(g) /\ Mirror!Position(g) \in 1..Len(published)
             /\ published[Mirror!Position(g)] = g
  <2>1. Whole(g)
    BY <1>3 DEF Mirror!Verifies, Mirror!Readable, Mirror!ReceiptOf, Whole
  <2>2. \E i \in 1..Len(published) : published[i] = g
    BY <2>1 DEF MirrorInv, ReceiptsTrue, Mirror!Contains
  <2> QED
    BY <2>1, <2>2 DEF Mirror!Position
<1>4. ASSUME NEW g \in Gen, Mirror!Verifies(g, mine[p].scope)
      PROVE  Mirror!Position(g) <= Mirror!Position(mine[p].gen)
  <2>1. PICK i \in 1..Len(published) : i = Mirror!Position(g) /\ published[i] = g /\ Whole(g)
    BY <1>3, <1>4
  <2>2. PICK j \in 1..Len(published) :
          j = Mirror!Position(mine[p].gen) /\ published[j] = mine[p].gen /\ Whole(mine[p].gen)
    BY <1>1, <1>2, <1>3
  <2>3. Ns(g) \in Nat /\ Ns(mine[p].gen) \in Nat /\ Len(published) \in Nat
    BY <1>2 DEF MirrorInv, Typed, GensTyped, MirrorTyped, Ns
  <2>4. j < i => Ns(mine[p].gen) < Ns(g)
    BY <2>1, <2>2 DEF MirrorInv, InOrder
  <2>5. Ns(g) <= Ns(mine[p].gen)
    BY <1>1, <1>4
  <2> QED
    BY <2>1, <2>2, <2>3, <2>4, <2>5
<1> QED
  BY <1>1, <1>4 DEF Mirror!Candidates

\* verify passes only what a build published whole with the same scope, and prune
\* keeps the last published generation that verifies, whatever the clock said,
\* whoever builds, verifies, crashes or deletes the lock of a dead process.
THEOREM MirrorIsSound == Spec => []GenerationsSound
<1>1. MirrorIsKept => GenerationsSound
  <2>1. MirrorInv => Mirror!VerifiedWasPublished
    BY DEF MirrorInv, Verifying, Reading, Mirror!VerifiedWasPublished
  <2> QED
    BY <2>1, KeptIsLast DEF MirrorIsKept, GenerationsSound
<1> QED
  BY <1>1, MirrorInductive, PTL

-----------------------------------------------------------------------------
(* The parts together *)

Parts == {"run", "fetch", "osv", "mirror", "codex", "turn", "rollout", "hunt", "record"}

\* Every part is of its types, for any values of the constants: what a sweep, a
\* download, a query, a mirror, a call, a stream, a rollout, a hunt and a record
\* keep stays within what their programs handle.
THEOREM TypesOfHost == Spec => []TypeOK
<1>1. Init => part \in Parts
  BY DEF Init, Parts
<1>2. part \in Parts /\ [Next]_vars => (part \in Parts)'
  BY DEF Next, vars, Parts
<1>3. Spec => [](part \in Parts)
  BY <1>1, <1>2, PTL DEF Spec
<1>4. part \in Parts /\ JobsInv /\ MirrorIsKept /\ VerdictInv => TypeOK
  BY RunIsTyped, JobIsTyped, QueryIsTyped, MirrorIsTyped, TurnIsTyped, RollIsTyped, HuntIsTyped,
     RecordIsTyped, CodexIsTyped
     DEF Parts, JobsInv, MirrorIsKept, VerdictInv, TypeOK
<1> QED
  BY <1>3, <1>4, JobsInductive, MirrorInductive, VerdictInductive, PTL
=============================================================================
