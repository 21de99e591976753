------------------------ MODULE FallbackReview_proofs ------------------------
(***************************************************************************)
(* Proofs about FallbackReview, for any number of runs, files and          *)
(* reviewers.                                                              *)
(*                                                                         *)
(* The argument comes in layers.  TypeOK is the first.  LockInv then ties  *)
(* a run's idea of its locks to the lock files: what it has taken is there *)
(* and is its own, it has all of it while it reviews, and nothing once it  *)
(* is over, so that a person who deletes the locks of runs that are over   *)
(* takes no lock from a run that is not.  OneWriter follows, and with it   *)
(* every statement about one run's outputs survives the steps of the       *)
(* others: NoStaleVerdict and WholeEntries.  ExitMeansRecorded needs no    *)
(* lock.  LockInv also makes the owner of a file unique, and the locks     *)
(* implement ExclusiveOutputs.  Last, the order of the locks: the run with *)
(* the greatest of them is not turned away (SomeoneAhead), so SomeoneGetsIn*)
(* holds.                                                                  *)
(***************************************************************************)
EXTENDS FallbackReview, FiniteSetTheorems, WellFoundedInduction, TLAPS

-----------------------------------------------------------------------------
(* The outputs of a run *)

\* A run has at least one output, and all of its outputs are files.
LEMMA OutputsAreFiles ==
  ASSUME NEW r \in Runs
  PROVE  /\ Outputs(r) \subseteq Files
         /\ LogOf[r] \in Outputs(r) /\ LogOf[r] \in Files
         /\ OutOf[r] # NoFile => OutOf[r] \in Outputs(r) /\ OutOf[r] \in Files
  BY FilesAssumption DEF Outputs

-----------------------------------------------------------------------------
(* Types *)

\* The counter of attempts is not yet used up while a reviewer is asked.
AttemptsLeft == \A r \in Runs : pc[r] \in {"preflight", "request"} => attempts[r] > 0

Typed == TypeOK /\ AttemptsLeft

\* A run turns to no more reviewers than there are.
LEMMA TurnsBound == Turns \in 0..Candidates
  BY ChainAssumption DEF Turns

\* The places a run can be at.
Places == Before \cup Holding \cup Leaving \cup Over

\* What Goto does to one run, and to the others.
LEMMA GotoEffect ==
  ASSUME TypeOK, NEW r \in Runs, NEW from, NEW to \in Places, Goto(r, from, to)
  PROVE  /\ pc[r] = from /\ pc'[r] = to
         /\ pc' \in [Runs -> Places]
         /\ \A s \in Runs : s # r => pc'[s] = pc[s]
  BY DEF TypeOK, Places, Goto

\* What Leave does besides.
LEMMA LeaveEffect ==
  ASSUME TypeOK, NEW r \in Runs, NEW from, NEW code \in 0..3, Leave(r, from, code)
  PROVE  /\ pc[r] = from /\ pc'[r] = "release"
         /\ pc' \in [Runs -> Places]
         /\ \A s \in Runs : s # r => pc'[s] = pc[s]
         /\ exit' \in [Runs -> 0..3]
         /\ exit'[r] = code
         /\ \A s \in Runs : s # r => exit'[s] = exit[s]
<1>1. "release" \in Places
  BY DEF Places, Leaving
<1>2. Goto(r, from, "release")
  BY DEF Leave
<1> QED
  BY <1>1, <1>2, GotoEffect DEF Leave, TypeOK

\* What Forget does.
LEMMA ForgetEffect ==
  ASSUME TypeOK, NEW r \in Runs, Forget(r)
  PROVE  /\ candidate' \in [Runs -> 0..Candidates]
         /\ retried' \in [Runs -> BOOLEAN]
         /\ attempts' \in [Runs -> 0..2]
         /\ valid' \in [Runs -> BOOLEAN]
         /\ \A s \in Runs : s # r => attempts'[s] = attempts[s]
  BY ChainAssumption DEF TypeOK, Forget

\* The initial state has the types.
LEMMA TypedInit == Init => Typed
<1> SUFFICES ASSUME Init PROVE Typed
  OBVIOUS
<1>1. log \in [Files -> Seq(Runs \X {"head", "tail"})]
  BY DEF Init
<1>2. candidate \in [Runs -> 0..Candidates]
  BY ChainAssumption DEF Init
<1>3. AttemptsLeft
  BY DEF Init, AttemptsLeft
<1>4. pc \in [Runs -> Places]
  BY DEF Init, Places, Before
<1>5. locks \in [Files -> Runs \cup {NoRun}] /\ verdict \in [Files -> Runs \cup {NoRun, Earlier}]
  BY DEF Init
<1>6. taken \in [Runs -> SUBSET Files] /\ exit \in [Runs -> 0..3]
  BY DEF Init
<1>7. retried \in [Runs -> BOOLEAN] /\ attempts \in [Runs -> 0..2] /\ valid \in [Runs -> BOOLEAN]
  BY DEF Init
<1>8. stuck \in BOOLEAN
  BY DEF Init
<1> QED
  BY <1>1, <1>2, <1>3, <1>4, <1>5, <1>6, <1>7, <1>8 DEF Typed, TypeOK, Places

\* The steps that take and give back locks keep the types.
LEMMA TypedLocks ==
  ASSUME Typed, NEW r \in Runs,
         Refuse(r) \/ Begin(r) \/ Lock(r) \/ LockFails(r) \/ Busy(r) \/ BackOut(r) \/ Release(r)
  PROVE  Typed'
<1> USE DEF Typed
<1> DEFINE LocksTyped == locks \in [Files -> Runs \cup {NoRun}] /\ taken \in [Runs -> SUBSET Files]
           RoundTyped == /\ candidate \in [Runs -> 0..Candidates] /\ retried \in [Runs -> BOOLEAN]
                         /\ attempts \in [Runs -> 0..2] /\ valid \in [Runs -> BOOLEAN]
           RestTyped  == /\ stuck \in BOOLEAN
                         /\ verdict \in [Files -> Runs \cup {NoRun, Earlier}]
                         /\ log \in [Files -> Seq(Runs \X {"head", "tail"})]
                         /\ exit \in [Runs -> 0..3]
           PcTyped    == pc \in [Runs -> Places]
<1>0. LocksTyped /\ RoundTyped /\ RestTyped /\ PcTyped
  BY DEF TypeOK, Places
<1>1. SUFFICES LocksTyped' /\ RoundTyped' /\ RestTyped' /\ PcTyped' /\ AttemptsLeft'
  BY DEF TypeOK, Places
<1>2. CASE Refuse(r) \/ Begin(r) \/ Busy(r)
  <2>1. \E from \in {"start", "locking"}, to \in {"done", "locking", "backOut"} :
          Goto(r, from, to) /\ to \in Places
    BY <1>2 DEF Refuse, Begin, Busy, Places, Before, Leaving, Over
  <2>2. PcTyped' /\ pc'[r] \in {"done", "locking", "backOut"} /\ \A s \in Runs : s # r => pc'[s] = pc[s]
    BY <2>1, GotoEffect
  <2>3. UNCHANGED <<locks, taken, stuck, files, round, exit>>
    BY <1>2 DEF Refuse, Begin, Busy
  <2>4. LocksTyped' /\ RoundTyped' /\ RestTyped'
    BY <2>3, <1>0 DEF files, round
  <2> QED
    BY <2>2, <2>3, <2>4 DEF AttemptsLeft, round
<1>3. CASE Lock(r)
  <2>1. PICK f \in Files : IsNext(r, f) /\ locks[f] = NoRun /\ Own(r, f)
    BY <1>3 DEF Lock
  <2>2. UNCHANGED <<stuck, files, round, exit>> /\ pc[r] = "locking"
    BY <1>3 DEF Lock
  <2>3. LocksTyped'
    BY <2>1, <1>0 DEF Own
  <2>4. PcTyped' /\ pc'[r] \in {"clear", "locking"} /\ \A s \in Runs : s # r => pc'[s] = pc[s]
    <3>1. CASE Goto(r, "locking", "clear")
      BY <3>1, GotoEffect DEF Places, Holding
    <3>2. CASE UNCHANGED pc
      BY <3>2, <2>2, <1>0
    <3> QED
      BY <3>1, <3>2, <2>1 DEF Own
  <2>5. RoundTyped' /\ RestTyped'
    BY <2>2, <1>0 DEF files, round
  <2> QED
    BY <2>2, <2>3, <2>4, <2>5 DEF AttemptsLeft, round
<1>4. CASE LockFails(r)
  <2>1. LocksTyped'
    <3>1. PICK f \in Files : \/ UNCHANGED <<locks, taken>>
                             \/ /\ locks' = [locks EXCEPT ![f] = r]
                                /\ taken' = [taken EXCEPT ![r] = @ \cup {f}]
      BY <1>4 DEF LockFails
    <3>2. CASE UNCHANGED <<locks, taken>>
      BY <3>2, <1>0
    <3>3. CASE locks' = [locks EXCEPT ![f] = r] /\ taken' = [taken EXCEPT ![r] = @ \cup {f}]
      BY <3>3, <1>0
    <3> QED
      BY <3>1, <3>2, <3>3
  <2>2. Leave(r, "locking", 2) /\ UNCHANGED <<stuck, files, round>>
    BY <1>4 DEF LockFails
  <2>3. PcTyped' /\ exit' \in [Runs -> 0..3] /\ pc'[r] = "release" /\ \A s \in Runs : s # r => pc'[s] = pc[s]
    BY <2>2, LeaveEffect
  <2>4. RoundTyped' /\ RestTyped'
    BY <2>2, <2>3, <1>0 DEF files, round
  <2> QED
    BY <2>1, <2>2, <2>3, <2>4 DEF AttemptsLeft, round
<1>5. ASSUME NEW from, NEW to \in {"busy", "done"}, Unlock(r, from, to), UNCHANGED <<files, exit>>,
             from \notin {"preflight", "request"}
      PROVE  LocksTyped' /\ RoundTyped' /\ RestTyped' /\ PcTyped' /\ AttemptsLeft'
  <2>1. CASE taken[r] = {} /\ Goto(r, from, to) /\ Forget(r) /\ UNCHANGED <<locks, stuck, taken>>
    <3>1. to \in Places
      BY DEF Places, Over
    <3>2. PcTyped' /\ pc'[r] = to /\ \A s \in Runs : s # r => pc'[s] = pc[s]
      BY <2>1, <3>1, GotoEffect
    <3>3. RoundTyped' /\ \A s \in Runs : s # r => attempts'[s] = attempts[s]
      BY <2>1, ForgetEffect
    <3>4. LocksTyped' /\ RestTyped'
      BY <2>1, <1>5, <1>0 DEF files
    <3> QED
      BY <3>2, <3>3, <3>4 DEF AttemptsLeft
  <2>2. CASE /\ \E f \in taken[r] :
                  /\ taken' = [taken EXCEPT ![r] = @ \ {f}]
                  /\ \/ locks' = [locks EXCEPT ![f] = NoRun] /\ UNCHANGED stuck
                     \/ stuck' = TRUE /\ UNCHANGED locks
             /\ UNCHANGED <<pc, round>>
    <3>1. LocksTyped' /\ stuck' \in BOOLEAN
      BY <2>2, <1>0
    <3> QED
      BY <3>1, <2>2, <1>5, <1>0 DEF files, round, AttemptsLeft
  <2> QED
    BY <1>5, <2>1, <2>2 DEF Unlock
<1> QED
  BY <1>2, <1>3, <1>4, <1>5 DEF BackOut, Release

\* The steps of the review itself leave the locks alone, and a run that is in
\* it stays in it or leaves it for the finally clause.
LEMMA ReviewEffect ==
  ASSUME Typed, NEW r \in Runs, Review(r)
  PROVE  /\ UNCHANGED <<locks, stuck, taken>>
         /\ pc[r] \in Holding
         /\ pc'[r] \in (Holding \ {"clear"}) \cup {"release"}
         /\ pc' \in [Runs -> Places]
         /\ \A s \in Runs : s # r => pc'[s] = pc[s]
         /\ exit' \in [Runs -> 0..3]
         /\ \A s \in Runs : s # r => exit'[s] = exit[s]
<1> DEFINE Stays(from, to) == Goto(r, from, to) /\ UNCHANGED exit
           Waits(from) == pc[r] = from /\ UNCHANGED <<pc, exit>>
           Goal == /\ pc[r] \in Holding
                   /\ pc'[r] \in (Holding \ {"clear"}) \cup {"release"}
                   /\ pc' \in [Runs -> Places]
                   /\ \A s \in Runs : s # r => pc'[s] = pc[s]
                   /\ exit' \in [Runs -> 0..3]
                   /\ \A s \in Runs : s # r => exit'[s] = exit[s]
<1>1. UNCHANGED <<locks, stuck, taken>>
  BY DEF Review, Clear, Choose, Preflight, Request, Stage, Publish, OpenLog, AppendHead, AppendTail, Fails
<1>2. ASSUME NEW from \in Holding, NEW to \in Holding \ {"clear"}, Stays(from, to) PROVE Goal
  <2>1. to \in Places
    BY DEF Places
  <2> QED
    BY <1>2, <2>1, GotoEffect DEF Typed, TypeOK
<1>3. ASSUME NEW from \in Holding \ {"clear"}, Waits(from) PROVE Goal
  BY <1>3 DEF Typed, TypeOK, Places
<1>4. ASSUME NEW from \in Holding, NEW code \in 0..3, Leave(r, from, code) PROVE Goal
  BY <1>4, LeaveEffect DEF Typed
<1>5. Goal
  <2> USE DEF Holding
  <2>1. CASE Clear(r)
    BY <2>1, <1>2 DEF Clear
  <2>2. CASE Choose(r)
    BY <2>2, <1>2, <1>3, <1>4 DEF Choose
  <2>3. CASE Preflight(r)
    BY <2>3, <1>2, <1>3, <1>4 DEF Preflight
  <2>4. CASE Request(r)
    BY <2>4, <1>2, <1>3, <1>4 DEF Request
  <2>5. CASE Stage(r)
    BY <2>5, <1>2, <1>3, <1>4 DEF Stage
  <2>6. CASE Publish(r)
    BY <2>6, <1>2, <1>4 DEF Publish
  <2>7. CASE OpenLog(r)
    BY <2>7, <1>2, <1>4 DEF OpenLog
  <2>8. CASE AppendHead(r)
    BY <2>8, <1>2 DEF AppendHead
  <2>9. CASE AppendTail(r)
    BY <2>9, <1>4 DEF AppendTail
  <2>10. CASE Fails(r)
    BY <2>10, <1>4 DEF Fails
  <2> QED
    BY <2>1, <2>2, <2>3, <2>4, <2>5, <2>6, <2>7, <2>8, <2>9, <2>10 DEF Review
<1> QED
  BY <1>1, <1>5

\* The steps of the review keep the types.
LEMMA TypedReview ==
  ASSUME Typed, NEW r \in Runs, Review(r)
  PROVE  Typed'
<1> USE DEF Typed
<1> DEFINE FilesTyped == /\ verdict \in [Files -> Runs \cup {NoRun, Earlier}]
                         /\ log \in [Files -> Seq(Runs \X {"head", "tail"})]
           RoundTyped == /\ candidate \in [Runs -> 0..Candidates] /\ retried \in [Runs -> BOOLEAN]
                         /\ attempts \in [Runs -> 0..2] /\ valid \in [Runs -> BOOLEAN]
<1>0. FilesTyped /\ RoundTyped
  BY DEF TypeOK
<1>1. SUFFICES FilesTyped' /\ RoundTyped' /\ AttemptsLeft'
  <2>1. /\ UNCHANGED <<locks, stuck, taken>>
        /\ pc' \in [Runs -> Places]
        /\ exit' \in [Runs -> 0..3]
    BY ReviewEffect
  <2> QED
    BY <2>1 DEF TypeOK, Places
<1>2. \A s \in Runs : s # r => pc'[s] = pc[s]
  BY ReviewEffect
<1>3. CASE Clear(r)
  <2>1. FilesTyped' /\ RoundTyped'
    BY <1>3, <1>0 DEF Clear, round
  <2>2. pc'[r] = "choose" /\ UNCHANGED attempts
    BY <1>3, GotoEffect DEF Clear, round, Places, Holding
  <2> QED
    BY <2>1, <2>2, <1>2 DEF AttemptsLeft
<1>4. CASE Choose(r)
  <2>1. FilesTyped' /\ UNCHANGED valid
    BY <1>4, <1>0 DEF Choose, files
  <2>2. CASE /\ candidate[r] < Turns
             /\ candidate' = [candidate EXCEPT ![r] = @ + 1]
             /\ retried' = [retried EXCEPT ![r] = FALSE]
             /\ attempts' = [attempts EXCEPT ![r] = 2]
    <3>1. candidate[r] + 1 \in 0..Candidates
      BY <2>2, <1>0, TurnsBound, ChainAssumption
    <3>2. RoundTyped'
      BY <2>1, <2>2, <3>1, <1>0
    <3>3. attempts'[r] = 2 /\ \A s \in Runs : s # r => attempts'[s] = attempts[s]
      BY <2>2, <1>0
    <3>4. ASSUME NEW s \in Runs, pc'[s] \in {"preflight", "request"} PROVE attempts'[s] > 0
      <4>1. CASE s = r
        BY <4>1, <3>3
      <4>2. CASE s # r
        BY <4>2, <3>3, <3>4, <1>2 DEF AttemptsLeft
      <4> QED
        BY <4>1, <4>2
    <3> QED
      BY <2>1, <3>2, <3>4 DEF AttemptsLeft
  <2>3. CASE Leave(r, "choose", 2) /\ UNCHANGED <<candidate, retried, attempts>>
    <3>1. pc'[r] = "release"
      BY <2>3, LeaveEffect
    <3> QED
      BY <2>1, <2>3, <3>1, <1>0, <1>2 DEF AttemptsLeft
  <2> QED
    BY <1>4, <2>2, <2>3 DEF Choose
<1>5. CASE Preflight(r)
  <2>1. FilesTyped' /\ UNCHANGED <<candidate, attempts, valid>>
    BY <1>5, <1>0 DEF Preflight, files
  <2>2. retried' \in [Runs -> BOOLEAN] /\ pc[r] = "preflight"
    BY <1>5, <1>0 DEF Preflight, Goto
  <2> QED
    BY <2>1, <2>2, <1>0, <1>2 DEF AttemptsLeft
<1>6. CASE Request(r)
  <2>1. FilesTyped' /\ UNCHANGED <<candidate, retried>>
    BY <1>6, <1>0 DEF Request, files
  <2>2. pc[r] = "request" /\ attempts[r] \in 1..2 /\ attempts' = [attempts EXCEPT ![r] = @ - 1]
    BY <1>6, <1>0 DEF Request, Goto, AttemptsLeft
  <2>3. attempts' \in [Runs -> 0..2]
    BY <2>2, <1>0
  <2>4. valid' \in [Runs -> BOOLEAN]
    BY <1>6, <1>0 DEF Request
  <2>5. pc'[r] \in {"preflight", "request"} => attempts'[r] > 0
    <3>1. CASE MayRetry(r)
      BY <3>1, <2>2, <1>0 DEF MayRetry
    <3>2. CASE ~MayRetry(r)
      <4>1. \E to \in {"stage", "choose"} : Goto(r, "request", to)
        BY <1>6, <3>2 DEF Request
      <4>2. pc'[r] \in {"stage", "choose"}
        BY <4>1, GotoEffect DEF Places, Holding
      <4> QED
        BY <4>2
    <3> QED
      BY <3>1, <3>2
  <2> QED
    BY <2>1, <2>2, <2>3, <2>4, <2>5, <1>0, <1>2 DEF AttemptsLeft
<1>7. CASE Stage(r) \/ Publish(r) \/ OpenLog(r) \/ AppendHead(r) \/ AppendTail(r) \/ Fails(r)
  <2>1. UNCHANGED round
    BY <1>7 DEF Stage, Publish, OpenLog, AppendHead, AppendTail, Fails
  <2>2. verdict' \in [Files -> Runs \cup {NoRun, Earlier}]
    BY <1>7, <1>0 DEF Stage, Publish, OpenLog, AppendHead, AppendTail, Fails, files
  <2>3. log' \in [Files -> Seq(Runs \X {"head", "tail"})]
    <3>1. CASE UNCHANGED log
      BY <3>1, <1>0
    <3>2. CASE \E part \in {"head", "tail"} : Entry(r, part)
      <4>1. LogOf[r] \in Files
        BY OutputsAreFiles
      <4>2. PICK part \in {"head", "tail"} : log' = [log EXCEPT ![LogOf[r]] = Append(@, <<r, part>>)]
        BY <3>2 DEF Entry
      <4>3. Append(log[LogOf[r]], <<r, part>>) \in Seq(Runs \X {"head", "tail"})
        BY <4>1, <1>0
      <4> QED
        BY <4>1, <4>2, <4>3, <1>0
    <3> QED
      BY <1>7, <3>1, <3>2 DEF Stage, Publish, OpenLog, AppendHead, AppendTail, Fails, files
  <2>4. pc'[r] \notin {"preflight", "request"} \/ pc'[r] = pc[r]
    <3>1. ASSUME NEW from, NEW code \in 0..3, Leave(r, from, code) PROVE pc'[r] = "release"
      BY <3>1, LeaveEffect
    <3>2. ASSUME NEW from, NEW to \in {"publish", "open", "head", "tail"}, Goto(r, from, to) PROVE pc'[r] = to
      BY <3>2, GotoEffect DEF Places, Holding
    <3> QED
      BY <1>7, <3>1, <3>2 DEF Stage, Publish, OpenLog, AppendHead, AppendTail, Fails
  <2> QED
    BY <2>1, <2>2, <2>3, <2>4, <1>0, <1>2 DEF round, AttemptsLeft
<1> QED
  BY <1>3, <1>4, <1>5, <1>6, <1>7 DEF Review

\* A crash and the deletion of a lock keep the types.
LEMMA TypedAround ==
  ASSUME Typed, (\E r \in Runs : Crash(r)) \/ (\E f \in Files : ByHand(f))
  PROVE  Typed'
<1> USE DEF Typed
<1>1. ASSUME NEW r \in Runs, Crash(r) PROVE Typed'
  <2>1. pc' \in [Runs -> Places] /\ pc'[r] = "crashed" /\ \A s \in Runs : s # r => pc'[s] = pc[s]
    BY <1>1 DEF Crash, TypeOK, Places, Over
  <2>2. taken' \in [Runs -> SUBSET Files] /\ UNCHANGED <<locks, stuck, files, exit>>
    BY <1>1 DEF Crash, TypeOK
  <2>3. /\ candidate' \in [Runs -> 0..Candidates] /\ retried' \in [Runs -> BOOLEAN]
        /\ attempts' \in [Runs -> 0..2] /\ valid' \in [Runs -> BOOLEAN]
        /\ \A s \in Runs : s # r => attempts'[s] = attempts[s]
    BY <1>1, ForgetEffect DEF Crash
  <2> QED
    BY <2>1, <2>2, <2>3 DEF TypeOK, Places, AttemptsLeft, files
<1>2. ASSUME NEW f \in Files, ByHand(f) PROVE Typed'
  <2>1. locks' \in [Files -> Runs \cup {NoRun}]
    BY <1>2 DEF ByHand, TypeOK
  <2> QED
    BY <1>2, <2>1 DEF ByHand, TypeOK, AttemptsLeft, files, round
<1> QED
  BY <1>1, <1>2

\* No step changes a type.
LEMMA TypedNext == Typed /\ [Next]_vars => Typed'
<1> SUFFICES ASSUME Typed, [Next]_vars PROVE Typed'
  OBVIOUS
<1>1. CASE UNCHANGED vars
  BY <1>1 DEF vars, files, round, Typed, TypeOK, AttemptsLeft
<1> QED
  BY <1>1, TypedLocks, TypedReview, TypedAround DEF Next, Step

\* Every variable keeps its type: no step of a run, of a crash or of the
\* person who deletes locks leaves the states the code can be in.
THEOREM TypeCorrect == Spec => []TypeOK
<1>1. Spec => []Typed
  BY TypedInit, TypedNext, PTL DEF Spec
<1> QED
  BY <1>1, PTL DEF Typed

-----------------------------------------------------------------------------
(* The locks *)

LockInv ==
  /\ \A r \in Runs : \A f \in taken[r] : locks[f] = r
  /\ \A r \in Runs : pc[r] \in Holding => taken[r] = Outputs(r)
  /\ \A r \in Runs : pc[r] \in Over \cup {"start"} => taken[r] = {}

\* A step of one run keeps LockInv when it changes only locks that are free
\* or that it gives back, and its own part of the invariant holds.
LEMMA LockInvOfOne ==
  ASSUME Typed, LockInv, NEW r \in Runs,
         \A s \in Runs : s # r => taken'[s] = taken[s] /\ pc'[s] = pc[s],
         \A f \in Files : locks'[f] = locks[f] \/ locks[f] = NoRun \/ f \in taken[r],
         \A f \in taken'[r] : locks'[f] = r,
         pc'[r] \in Holding => taken'[r] = Outputs(r),
         pc'[r] \in Over \cup {"start"} => taken'[r] = {}
  PROVE  LockInv'
<1>1. taken \in [Runs -> SUBSET Files]
  BY DEF Typed, TypeOK
<1>2. ASSUME NEW s \in Runs, NEW f \in taken'[s] PROVE locks'[f] = s
  <2>1. CASE s = r
    BY <2>1, <1>2
  <2>2. CASE s # r
    <3>1. f \in taken[s] /\ f \in Files /\ locks[f] = s /\ s # NoRun
      BY <1>1, <1>2, <2>2, RunsAssumption DEF LockInv
    <3>2. f \notin taken[r]
      BY <3>1, <2>2 DEF LockInv
    <3> QED
      BY <3>1, <3>2
  <2> QED
    BY <2>1, <2>2
<1>3. ASSUME NEW s \in Runs, pc'[s] \in Holding PROVE taken'[s] = Outputs(s)
  <2>1. CASE s = r
    BY <2>1, <1>3
  <2>2. CASE s # r
    BY <2>2, <1>3 DEF LockInv
  <2> QED
    BY <2>1, <2>2
<1>4. ASSUME NEW s \in Runs, pc'[s] \in Over \cup {"start"} PROVE taken'[s] = {}
  <2>1. CASE s = r
    BY <2>1, <1>4
  <2>2. CASE s # r
    BY <2>2, <1>4 DEF LockInv
  <2> QED
    BY <2>1, <2>2
<1>5. (\A s \in Runs : pc[s] \in Holding => taken[s] = Outputs(s))'
  BY <1>3 DEF Outputs
<1> QED
  BY <1>2, <1>4, <1>5 DEF LockInv

\* Unlocking keeps it: the locks that go are the run's own.
LEMMA LockInvUnlock ==
  ASSUME Typed, LockInv, NEW r \in Runs, NEW from \in Leaving, NEW to \in {"busy", "done"},
         Unlock(r, from, to)
  PROVE  LockInv'
<1> USE DEF Typed
<1>0. taken \in [Runs -> SUBSET Files] /\ locks \in [Files -> Runs \cup {NoRun}]
  BY DEF TypeOK
<1>1. CASE taken[r] = {} /\ Goto(r, from, to) /\ UNCHANGED <<locks, taken>>
  <2>1. to \in Places /\ to \notin Holding
    BY DEF Places, Over, Holding
  <2>2. pc'[r] = to /\ \A s \in Runs : s # r => pc'[s] = pc[s]
    BY <1>1, <2>1, GotoEffect
  <2> QED
    BY <1>1, <2>1, <2>2, LockInvOfOne
<1>2. CASE /\ pc[r] = from /\ UNCHANGED pc
           /\ \E f \in taken[r] :
                /\ taken' = [taken EXCEPT ![r] = @ \ {f}]
                /\ locks' = [locks EXCEPT ![f] = NoRun] \/ UNCHANGED locks
  <2>1. PICK f \in taken[r] : /\ taken' = [taken EXCEPT ![r] = @ \ {f}]
                              /\ locks' = [locks EXCEPT ![f] = NoRun] \/ UNCHANGED locks
    BY <1>2
  <2>2. \A g \in Files : locks'[g] = locks[g] \/ g \in taken[r]
    BY <2>1, <1>0
  <2>3. taken'[r] = taken[r] \ {f} /\ \A s \in Runs : s # r => taken'[s] = taken[s]
    BY <2>1, <1>0
  <2>4. \A g \in taken'[r] : locks'[g] = r
    <3> SUFFICES ASSUME NEW g \in taken'[r] PROVE locks'[g] = r
      OBVIOUS
    <3>1. g \in taken[r] /\ g # f /\ g \in Files /\ locks[g] = r
      BY <2>3, <1>0 DEF LockInv
    <3> QED
      BY <3>1, <2>1, <1>0
  <2>5. pc[r] \notin Holding /\ pc[r] \notin Over \cup {"start"}
    BY <1>2 DEF Holding, Over, Leaving
  <2> QED
    BY <1>2, <2>2, <2>3, <2>4, <2>5, LockInvOfOne
<1> QED
  BY <1>1, <1>2 DEF Unlock

\* The steps that take and give back locks keep it.
LEMMA LockInvLocks ==
  ASSUME Typed, LockInv, NEW r \in Runs,
         Refuse(r) \/ Begin(r) \/ Lock(r) \/ LockFails(r) \/ Busy(r) \/ BackOut(r) \/ Release(r)
  PROVE  LockInv'
<1> USE DEF Typed
<1>0. /\ locks \in [Files -> Runs \cup {NoRun}] /\ taken \in [Runs -> SUBSET Files]
      /\ pc \in [Runs -> Places]
  BY DEF TypeOK, Places
<1>1. CASE Refuse(r) \/ Begin(r) \/ Busy(r)
  <2>1. \E from, to : /\ Goto(r, from, to) /\ to \in Places \ Holding
                      /\ to \in Over \cup {"start"} => from = "start"
    BY <1>1 DEF Refuse, Begin, Busy, Places, Before, Holding, Leaving, Over
  <2>2. PICK from, to : /\ Goto(r, from, to) /\ to \in Places \ Holding
                        /\ to \in Over \cup {"start"} => from = "start"
    BY <2>1
  <2>3. pc[r] = from /\ pc'[r] = to /\ \A s \in Runs : s # r => pc'[s] = pc[s]
    BY <2>2, GotoEffect
  <2>4. UNCHANGED <<locks, taken>>
    BY <1>1 DEF Refuse, Begin, Busy
  <2>5. \A f \in taken'[r] : locks'[f] = r
    BY <2>4 DEF LockInv
  <2>6. pc'[r] \in Over \cup {"start"} => taken'[r] = {}
    BY <2>2, <2>3, <2>4 DEF LockInv
  <2> QED
    BY <2>2, <2>3, <2>4, <2>5, <2>6, LockInvOfOne
<1>2. ASSUME NEW f \in Files, locks[f] = NoRun,
             locks' = [locks EXCEPT ![f] = r], taken' = [taken EXCEPT ![r] = @ \cup {f}]
      PROVE  /\ \A g \in Files : locks'[g] = locks[g] \/ locks[g] = NoRun
             /\ \A g \in taken'[r] : locks'[g] = r
             /\ \A s \in Runs : s # r => taken'[s] = taken[s]
  <2>1. taken'[r] = taken[r] \cup {f} /\ \A s \in Runs : s # r => taken'[s] = taken[s]
    BY <1>2, <1>0
  <2>2. \A g \in taken'[r] : locks'[g] = r
    BY <2>1, <1>2, <1>0 DEF LockInv
  <2> QED
    BY <2>1, <2>2, <1>2, <1>0
<1>3. CASE Lock(r)
  <2>1. PICK f \in Files : locks[f] = NoRun /\ Own(r, f)
    BY <1>3 DEF Lock
  <2>2. locks' = [locks EXCEPT ![f] = r] /\ taken' = [taken EXCEPT ![r] = @ \cup {f}]
    BY <2>1 DEF Own
  <2>3. CASE taken'[r] = Outputs(r) /\ Goto(r, "locking", "clear")
    <3>1. pc'[r] = "clear" /\ \A s \in Runs : s # r => pc'[s] = pc[s]
      BY <2>3, GotoEffect DEF Places, Holding
    <3>2. pc'[r] \notin Over \cup {"start"}
      BY <3>1 DEF Over
    <3> QED
      BY <1>2, <2>1, <2>2, <2>3, <3>1, <3>2, LockInvOfOne
  <2>4. CASE UNCHANGED pc
    <3>1. pc'[r] \notin Holding /\ pc'[r] \notin Over \cup {"start"}
      BY <1>3, <2>4 DEF Lock, Holding, Over
    <3> QED
      BY <1>2, <2>1, <2>2, <2>4, <3>1, LockInvOfOne
  <2> QED
    BY <2>1, <2>3, <2>4 DEF Own
<1>4. CASE LockFails(r)
  <2>1. pc'[r] = "release" /\ \A s \in Runs : s # r => pc'[s] = pc[s]
    BY <1>4, LeaveEffect DEF LockFails
  <2>2. pc'[r] \notin Holding /\ pc'[r] \notin Over \cup {"start"}
    BY <2>1 DEF Holding, Over
  <2>3. PICK f \in Files : /\ locks[f] = NoRun
                           /\ \/ UNCHANGED <<locks, taken>>
                              \/ /\ locks' = [locks EXCEPT ![f] = r]
                                 /\ taken' = [taken EXCEPT ![r] = @ \cup {f}]
    BY <1>4 DEF LockFails
  <2>4. CASE UNCHANGED <<locks, taken>>
    <3>1. \A g \in taken'[r] : locks'[g] = r
      BY <2>4 DEF LockInv
    <3> QED
      BY <2>1, <2>2, <2>4, <3>1, LockInvOfOne
  <2>5. CASE locks' = [locks EXCEPT ![f] = r] /\ taken' = [taken EXCEPT ![r] = @ \cup {f}]
    BY <1>2, <2>1, <2>2, <2>3, <2>5, LockInvOfOne
  <2> QED
    BY <2>3, <2>4, <2>5
<1>5. CASE BackOut(r) \/ Release(r)
  BY <1>5, LockInvUnlock DEF BackOut, Release, Leaving
<1> QED
  BY <1>1, <1>3, <1>4, <1>5

\* The review, a crash and the person who deletes locks keep it.
LEMMA LockInvOthers ==
  ASSUME Typed, LockInv,
         \/ \E r \in Runs : Review(r) \/ Crash(r)
         \/ \E f \in Files : ByHand(f)
  PROVE  LockInv'
<1> USE DEF Typed
<1>0. /\ locks \in [Files -> Runs \cup {NoRun}] /\ taken \in [Runs -> SUBSET Files]
      /\ pc \in [Runs -> Places]
  BY DEF TypeOK, Places
<1>1. ASSUME NEW r \in Runs, Review(r) PROVE LockInv'
  <2>1. /\ UNCHANGED <<locks, taken>> /\ pc[r] \in Holding
        /\ pc'[r] \in (Holding \ {"clear"}) \cup {"release"}
        /\ \A s \in Runs : s # r => pc'[s] = pc[s]
    BY <1>1, ReviewEffect
  <2>2. pc'[r] \notin Over \cup {"start"}
    BY <2>1 DEF Holding, Over
  <2>3. taken'[r] = Outputs(r) /\ \A f \in taken'[r] : locks'[f] = r
    BY <2>1 DEF LockInv
  <2> QED
    BY <2>1, <2>2, <2>3, LockInvOfOne
<1>2. ASSUME NEW r \in Runs, Crash(r) PROVE LockInv'
  <2>1. pc'[r] = "crashed" /\ taken'[r] = {} /\ UNCHANGED locks
    BY <1>2, <1>0 DEF Crash
  <2>2. \A s \in Runs : s # r => pc'[s] = pc[s] /\ taken'[s] = taken[s]
    BY <1>2, <1>0 DEF Crash
  <2>3. pc'[r] \notin Holding
    BY <2>1 DEF Holding
  <2> QED
    BY <2>1, <2>2, <2>3, LockInvOfOne
<1>3. ASSUME NEW f \in Files, ByHand(f) PROVE LockInv'
  <2>1. /\ locks' = [locks EXCEPT ![f] = NoRun] /\ UNCHANGED <<pc, taken>>
        /\ locks[f] \in Runs /\ pc[locks[f]] \in Over
    BY <1>3 DEF ByHand
  <2>2. ASSUME NEW r \in Runs, NEW g \in taken[r] PROVE locks'[g] = r
    <3>1. locks[g] = r /\ g \in Files
      BY <2>2, <1>0 DEF LockInv
    <3>2. g # f
      BY <2>1, <2>2, <3>1 DEF LockInv
    <3> QED
      BY <2>1, <3>1, <3>2, <1>0
  <2>3. (\A r \in Runs : pc[r] \in Holding => taken[r] = Outputs(r))'
    BY <2>1 DEF LockInv, Outputs
  <2> QED
    BY <2>1, <2>2, <2>3 DEF LockInv
<1> QED
  BY <1>1, <1>2, <1>3

\* LockInv holds throughout.
LEMMA LockInvAlways == Spec => [](Typed /\ LockInv)
<1>1. Init => Typed /\ LockInv
  <2> SUFFICES ASSUME Init PROVE LockInv
    BY TypedInit
  <2> QED
    BY DEF Init, LockInv, Holding
<1>2. Typed /\ LockInv /\ [Next]_vars => (Typed /\ LockInv)'
  <2> SUFFICES ASSUME Typed, LockInv, [Next]_vars PROVE LockInv'
    BY TypedNext
  <2>1. CASE UNCHANGED vars
    BY <2>1 DEF vars, LockInv, Outputs
  <2> QED
    BY <2>1, LockInvLocks, LockInvOthers DEF Next, Step
<1> QED
  BY <1>1, <1>2, PTL DEF Spec

\* Two runs that share an output are not both in their review.
LEMMA Exclusion == Typed /\ LockInv => OneWriter
<1> SUFFICES ASSUME Typed, LockInv, NEW r \in Runs, NEW s \in Runs, r # s,
                    pc[r] \in Holding, pc[s] \in Holding, NEW f \in Outputs(r) \cap Outputs(s)
             PROVE  FALSE
  BY DEF OneWriter
<1>1. f \in taken[r] /\ f \in taken[s]
  BY DEF LockInv
<1> QED
  BY <1>1 DEF LockInv

\* The files beside the outputs exclude: runs that remove, replace or append
\* to their outputs at the same time have none in common, whatever locks
\* crashed runs have left and whenever a person deletes those.
THEOREM WritersExclude == Spec => []OneWriter
  BY LockInvAlways, Exclusion, PTL

-----------------------------------------------------------------------------
(* The verdict *)

\* Only the steps of the review change a verdict or lead on in it.
LEMMA OnlyTheReview ==
  ASSUME Typed, NEW r \in Runs,
         \/ Refuse(r) \/ Begin(r) \/ Lock(r) \/ LockFails(r) \/ Busy(r) \/ BackOut(r) \/ Release(r)
         \/ Crash(r)
  PROVE  /\ UNCHANGED <<verdict, log>>
         /\ pc'[r] \notin Holding \ {"clear"}
         /\ \A s \in Runs : s # r => pc'[s] = pc[s]
<1> USE DEF Typed
<1>0. pc \in [Runs -> Places]
  BY DEF TypeOK, Places
<1>1. UNCHANGED <<verdict, log>>
  BY DEF Refuse, Begin, Lock, LockFails, Busy, BackOut, Release, Crash, files
<1>2. ASSUME NEW from, NEW to \in Places, Goto(r, from, to), to \notin Holding \ {"clear"}
      PROVE  pc'[r] \notin Holding \ {"clear"} /\ \A s \in Runs : s # r => pc'[s] = pc[s]
  BY <1>2, GotoEffect
<1>3. ASSUME UNCHANGED pc, pc[r] \in {"locking", "backOut", "release"}
      PROVE  pc'[r] \notin Holding \ {"clear"} /\ \A s \in Runs : s # r => pc'[s] = pc[s]
  BY <1>3 DEF Holding
<1>4. CASE Refuse(r) \/ Begin(r) \/ LockFails(r) \/ Busy(r)
  BY <1>1, <1>2, <1>4 DEF Refuse, Begin, LockFails, Leave, Busy, Places, Before, Holding, Leaving, Over
<1>5. CASE Lock(r)
  BY <1>1, <1>2, <1>3, <1>5 DEF Lock, Own, Places, Before, Holding
<1>6. CASE BackOut(r) \/ Release(r)
  BY <1>1, <1>2, <1>3, <1>6 DEF BackOut, Release, Unlock, Places, Holding, Over
<1>7. CASE Crash(r)
  BY <1>1, <1>7, <1>0 DEF Crash, Holding
<1> QED
  BY <1>4, <1>5, <1>6, <1>7

\* What the review does to the verdict: it clears or replaces the run's own.
LEMMA VerdictEffect ==
  ASSUME Typed, NEW r \in Runs, Review(r)
  PROVE  /\ \A f \in Files : f # OutOf[r] => verdict'[f] = verdict[f]
         /\ OutOf[r] # NoFile /\ pc'[r] # "release" =>
              \/ verdict'[OutOf[r]] \in {r, NoRun}
              \/ UNCHANGED verdict /\ pc[r] # "clear"
<1> USE DEF Typed
<1>1. verdict \in [Files -> Runs \cup {NoRun, Earlier}]
  BY DEF TypeOK
<1>2. OutOf[r] # NoFile => OutOf[r] \in Files
  BY OutputsAreFiles
<1>3. CASE Clear(r)
  BY <1>1, <1>2, <1>3 DEF Clear
<1>4. CASE Publish(r)
  <2>1. pc[r] = "publish"
    BY <1>4 DEF Publish, Goto, Leave
  <2>2. CASE verdict' = [verdict EXCEPT ![OutOf[r]] = r]
    BY <2>2, <1>1, <1>2
  <2>3. CASE UNCHANGED verdict
    BY <2>1, <2>3
  <2> QED
    BY <1>4, <2>2, <2>3 DEF Publish
<1>5. CASE Choose(r) \/ Preflight(r) \/ Request(r) \/ Stage(r) \/ OpenLog(r) \/ AppendHead(r) \/ AppendTail(r)
  <2>1. UNCHANGED verdict
    BY <1>5 DEF Choose, Preflight, Request, Stage, OpenLog, AppendHead, AppendTail, files
  <2>2. pc[r] # "clear"
    BY <1>5 DEF Choose, Preflight, Request, Stage, OpenLog, AppendHead, AppendTail, Goto, Leave
  <2> QED
    BY <2>1, <2>2
<1>6. CASE Fails(r)
  <2>1. pc'[r] = "release"
    BY <1>6, LeaveEffect DEF Fails
  <2> QED
    BY <2>1, <1>6 DEF Fails, files
<1> QED
  BY <1>3, <1>4, <1>5, <1>6 DEF Review

\* A step keeps NoStaleVerdict: the run that takes it looks after its own
\* verdict, and the runs it shares an output with are not in their review.
LEMMA NoStaleVerdictNext ==
  ASSUME Typed, LockInv, NoStaleVerdict, [Next]_vars
  PROVE  NoStaleVerdict'
<1> USE DEF Typed
<1>1. ASSUME NEW r \in Runs, Review(r) PROVE NoStaleVerdict'
  <2> SUFFICES ASSUME NEW s \in Runs, pc'[s] \in Holding \ {"clear"}, OutOf[s] # NoFile
               PROVE  verdict'[OutOf[s]] \in {s, NoRun}
    BY DEF NoStaleVerdict
  <2>0. OutOf[s] \in Files /\ OutOf[s] \in Outputs(s)
    BY OutputsAreFiles
  <2>1. CASE s = r
    <3>1. pc'[r] # "release"
      BY <2>1 DEF Holding
    <3>2. pc[r] \in Holding
      BY <1>1, ReviewEffect
    <3> QED
      BY <1>1, <2>1, <3>1, <3>2, VerdictEffect DEF NoStaleVerdict
  <2>2. CASE s # r
    <3>1. pc'[s] = pc[s] /\ pc[r] \in Holding
      BY <1>1, <2>2, ReviewEffect
    <3>2. Outputs(r) \cap Outputs(s) = {}
      BY <2>2, <3>1, Exclusion DEF OneWriter
    <3>3. OutOf[s] # OutOf[r]
      BY <3>2, <2>0, OutputsAreFiles
    <3> QED
      BY <1>1, <2>0, <3>1, <3>3, VerdictEffect DEF NoStaleVerdict
  <2> QED
    BY <2>1, <2>2
<1>2. ASSUME NEW r \in Runs, Crash(r) \/ (Step(r) /\ ~Review(r)) PROVE NoStaleVerdict'
  BY <1>2, OnlyTheReview DEF NoStaleVerdict, Step
<1>3. ASSUME NEW f \in Files, ByHand(f) PROVE NoStaleVerdict'
  BY <1>3 DEF ByHand, files, NoStaleVerdict
<1>4. CASE UNCHANGED vars
  BY <1>4 DEF vars, files, NoStaleVerdict
<1> QED
  BY <1>1, <1>2, <1>3, <1>4 DEF Next, Step

\* Once a run has cleared --out, what stands there until it leaves is its own
\* verdict or nothing: no other run, crash, failed write or deleted lock puts
\* the verdict of another round back.
THEOREM VerdictIsOwn == Spec => []NoStaleVerdict
<1>1. Init => NoStaleVerdict
  BY DEF Init, NoStaleVerdict, Holding
<1> QED
  BY <1>1, LockInvAlways, NoStaleVerdictNext, PTL DEF Spec

-----------------------------------------------------------------------------
(* The review log *)

\* What the review does to the log, and with which exit code it ends.
LEMMA LogEffect ==
  ASSUME Typed, NEW r \in Runs, Review(r)
  PROVE  \/ /\ UNCHANGED log /\ pc'[r] # "tail"
            /\ IF pc'[r] = "release" THEN exit'[r] \in {1, 2} ELSE UNCHANGED exit
         \/ /\ Entry(r, "head") /\ pc[r] = "head" /\ pc'[r] = "tail" /\ UNCHANGED exit
         \/ /\ Entry(r, "tail") /\ pc[r] = "tail" /\ pc'[r] = "release" /\ exit'[r] \in {0, 3}
<1> USE DEF Typed
<1> DEFINE Kept == /\ pc'[r] # "tail"
                   /\ IF pc'[r] = "release" THEN exit'[r] \in {1, 2} ELSE UNCHANGED exit
<1>1. ASSUME NEW from, NEW to \in Holding \ {"tail"}, Goto(r, from, to), UNCHANGED exit PROVE Kept
  BY <1>1, GotoEffect DEF Places, Holding
<1>2. ASSUME NEW from, NEW code \in {1, 2}, Leave(r, from, code) PROVE Kept
  BY <1>2, LeaveEffect
<1>3. ASSUME UNCHANGED <<pc, exit>>, pc[r] \in {"choose", "preflight", "request"} PROVE Kept
  BY <1>3
<1>4. CASE Clear(r) \/ Choose(r) \/ Preflight(r)
  <2>1. UNCHANGED log
    BY <1>4 DEF Clear, Choose, Preflight, files
  <2>2. Kept
    BY <1>1, <1>2, <1>3, <1>4 DEF Clear, Choose, Preflight, Holding
  <2> QED
    BY <2>1, <2>2
<1>5. CASE Request(r) \/ Stage(r) \/ Publish(r) \/ OpenLog(r)
  <2>1. UNCHANGED log
    BY <1>5 DEF Request, Stage, Publish, OpenLog, files
  <2>2. Kept
    BY <1>1, <1>2, <1>3, <1>5 DEF Request, Stage, Publish, OpenLog, Holding
  <2> QED
    BY <2>1, <2>2
<1>6. CASE AppendHead(r)
  BY <1>6, GotoEffect DEF AppendHead, Places, Holding
<1>7. CASE AppendTail(r)
  <2>1. PICK code \in {0, 3} : Leave(r, "tail", code) /\ Entry(r, "tail")
    BY <1>7 DEF AppendTail
  <2> QED
    BY <2>1, LeaveEffect
<1>8. CASE Fails(r)
  BY <1>2, <1>8 DEF Fails, files
<1> QED
  BY <1>4, <1>5, <1>6, <1>7, <1>8 DEF Review

\* What is in a file after a piece has been appended to it.
LEMMA EntryEffect ==
  ASSUME Typed, NEW r \in Runs, NEW part \in {"head", "tail"}, Entry(r, part)
  PROVE  /\ \A f \in Files : f # LogOf[r] => log'[f] = log[f]
         /\ log[LogOf[r]] \in Seq(Runs \X {"head", "tail"})
         /\ log'[LogOf[r]] = Append(log[LogOf[r]], <<r, part>>)
  BY OutputsAreFiles DEF Entry, Typed, TypeOK

\* A run that has appended the head of its entry, and not yet the tail, finds
\* the head at the end of the log.
Halfway(r) ==
  pc[r] = "tail" => /\ log[LogOf[r]] # <<>>
                    /\ log[LogOf[r]][Len(log[LogOf[r]])] = <<r, "head">>

LogInv == WholeEntries /\ \A r \in Runs : Halfway(r)

\* A step of the review keeps the entries whole.
LEMMA LogInvReview ==
  ASSUME Typed, LockInv, LogInv, NEW r \in Runs, Review(r)
  PROVE  LogInv'
<1> USE DEF Typed
<1>1. /\ pc[r] \in Holding /\ \A s \in Runs : s # r => pc'[s] = pc[s]
  BY ReviewEffect
<1>2. LogOf[r] \in Files
  BY OutputsAreFiles
<1>3. ASSUME NEW s \in Runs, s # r, \A f \in Files : f # LogOf[r] => log'[f] = log[f] PROVE Halfway(s)'
  <2> SUFFICES ASSUME pc'[s] = "tail" PROVE log'[LogOf[s]] = log[LogOf[s]] /\ Halfway(s) /\ pc[s] = "tail"
    BY DEF Halfway
  <2>1. pc[s] = "tail" /\ pc[s] \in Holding
    BY <1>1, <1>3 DEF Holding
  <2>2. Outputs(r) \cap Outputs(s) = {}
    BY <1>1, <1>3, <2>1, Exclusion DEF OneWriter
  <2>3. LogOf[s] # LogOf[r] /\ LogOf[s] \in Files
    BY <2>2, OutputsAreFiles
  <2> QED
    BY <1>3, <2>1, <2>3 DEF LogInv
<1>4. CASE UNCHANGED log /\ pc'[r] # "tail"
  <2>1. WholeEntries'
    BY <1>4 DEF LogInv, WholeEntries
  <2>2. Halfway(r)'
    BY <1>4 DEF Halfway
  <2> QED
    BY <1>3, <1>4, <2>1, <2>2 DEF LogInv
<1>5. ASSUME NEW part \in {"head", "tail"}, Entry(r, part), part = "tail" => Halfway(r) /\ pc[r] = "tail",
             part = "tail" => pc'[r] # "tail"
      PROVE  LogInv'
  <2> DEFINE l == log[LogOf[r]]
             m == log'[LogOf[r]]
  <2>1. /\ \A f \in Files : f # LogOf[r] => log'[f] = log[f]
        /\ l \in Seq(Runs \X {"head", "tail"})
        /\ m = Append(l, <<r, part>>)
    BY <1>5, EntryEffect
  <2>2. /\ Len(l) \in Nat /\ DOMAIN l = 1..Len(l)
        /\ Len(m) = Len(l) + 1 /\ DOMAIN m = 1..(Len(l) + 1)
        /\ m[Len(l) + 1] = <<r, part>>
        /\ \A n \in 1..Len(l) : m[n] = l[n]
    BY <2>1
  <2>3. ASSUME NEW n \in DOMAIN m, m[n][2] = "tail" PROVE n > 1 /\ m[n - 1] = <<m[n][1], "head">>
    <3>1. CASE n \in 1..Len(l)
      <4>1. l[n][2] = "tail"
        BY <2>2, <2>3, <3>1
      <4>2. n > 1 /\ l[n - 1] = <<l[n][1], "head">>
        BY <1>2, <2>2, <3>1, <4>1 DEF LogInv, WholeEntries
      <4>3. n - 1 \in 1..Len(l) /\ m[n] = l[n]
        BY <2>2, <3>1, <4>2
      <4>4. m[n - 1] = l[n - 1]
        BY <2>2, <4>3
      <4> QED
        BY <4>2, <4>3, <4>4
    <3>2. CASE n = Len(l) + 1
      <4>1. part = "tail" /\ m[n][1] = r
        BY <2>2, <2>3, <3>2
      <4>2. l # <<>> /\ l[Len(l)] = <<r, "head">>
        BY <1>5, <4>1 DEF Halfway
      <4>3. Len(l) > 0
        BY <2>1, <4>2
      <4> QED
        BY <2>2, <3>2, <4>1, <4>2, <4>3
    <3> QED
      BY <2>2, <2>3, <3>1, <3>2
  <2>4. WholeEntries'
    <3> SUFFICES ASSUME NEW f \in Files, NEW n \in DOMAIN log'[f], log'[f][n][2] = "tail"
                 PROVE  n > 1 /\ log'[f][n - 1] = <<log'[f][n][1], "head">>
      BY DEF WholeEntries
    <3>1. CASE f = LogOf[r]
      BY <2>3, <3>1
    <3>2. CASE f # LogOf[r]
      BY <2>1, <3>2 DEF LogInv, WholeEntries
    <3> QED
      BY <3>1, <3>2
  <2>5. Halfway(r)'
    <3>1. ASSUME part = "head" PROVE m # <<>> /\ m[Len(m)] = <<r, "head">>
      <4>1. m[Len(m)] = <<r, "head">>
        BY <2>2, <3>1
      <4>2. Len(m) # 0
        BY <2>2
      <4>3. m # <<>>
        BY <4>2
      <4> QED
        BY <4>1, <4>3
    <3> QED
      BY <1>5, <3>1 DEF Halfway
  <2> QED
    BY <1>3, <2>1, <2>4, <2>5 DEF LogInv
<1> QED
  BY <1>4, <1>5, LogEffect DEF LogInv

\* The entries of the review log stay whole: whatever runs append to it at the
\* same time, the tail of an entry stands right after its head.
THEOREM EntriesAreWhole == Spec => []WholeEntries
<1>1. Init => LogInv
  BY DEF Init, LogInv, WholeEntries, Halfway
<1>2. Typed /\ LockInv /\ LogInv /\ [Next]_vars => LogInv'
  <2> SUFFICES ASSUME Typed, LockInv, LogInv, [Next]_vars PROVE LogInv'
    OBVIOUS
  <2>1. ASSUME NEW r \in Runs, Crash(r) \/ (Step(r) /\ ~Review(r)) PROVE LogInv'
    <3>1. /\ UNCHANGED log /\ pc'[r] \notin Holding \ {"clear"}
          /\ \A s \in Runs : s # r => pc'[s] = pc[s]
      BY <2>1, OnlyTheReview DEF Step
    <3> QED
      BY <3>1 DEF LogInv, WholeEntries, Halfway, Holding
  <2>2. ASSUME NEW f \in Files, ByHand(f) PROVE LogInv'
    BY <2>2 DEF ByHand, files, LogInv, WholeEntries, Halfway
  <2>3. CASE UNCHANGED vars
    BY <2>3 DEF vars, files, LogInv, WholeEntries, Halfway
  <2> QED
    BY <2>1, <2>2, <2>3, LogInvReview DEF Next, Step
<1>3. LogInv => WholeEntries
  BY DEF LogInv
<1> QED
  BY <1>1, <1>2, <1>3, LockInvAlways, PTL DEF Spec

-----------------------------------------------------------------------------
(* The exit code *)

\* The entry of a run stands in its log.
Recorded(r) == \E n \in DOMAIN log[LogOf[r]] : log[LogOf[r]][n] = <<r, "tail">>

Unfinished == Places \ {"release", "done", "crashed"}

RecordOf(r) ==
  /\ pc[r] \in {"release", "done"} => (exit[r] \in {0, 3} <=> Recorded(r))
  /\ pc[r] \in Unfinished => exit[r] = 2 /\ ~Recorded(r)

RecordInv == \A r \in Runs : RecordOf(r)

\* A piece appended to a log records the run whose tail it is, and no other.
LEMMA RecordEffect ==
  ASSUME Typed, NEW r \in Runs, NEW part \in {"head", "tail"}, Entry(r, part), NEW s \in Runs
  PROVE  Recorded(s)' <=> Recorded(s) \/ (s = r /\ part = "tail")
<1> DEFINE l == log[LogOf[r]]
           m == log'[LogOf[r]]
<1>0. LogOf[s] \in Files
  BY OutputsAreFiles
<1>1. /\ \A f \in Files : f # LogOf[r] => log'[f] = log[f]
      /\ l \in Seq(Runs \X {"head", "tail"})
      /\ m = Append(l, <<r, part>>)
  BY EntryEffect
<1>2. /\ Len(l) \in Nat /\ DOMAIN l = 1..Len(l)
      /\ DOMAIN m = 1..(Len(l) + 1)
      /\ m[Len(l) + 1] = <<r, part>>
      /\ \A n \in 1..Len(l) : m[n] = l[n]
  BY <1>1
<1>3. CASE LogOf[s] # LogOf[r]
  BY <1>0, <1>1, <1>3 DEF Recorded
<1>4. CASE LogOf[s] = LogOf[r]
  <2>1. ASSUME Recorded(s) PROVE Recorded(s)'
    <3>1. PICK n \in DOMAIN l : l[n] = <<s, "tail">>
      BY <1>4, <2>1 DEF Recorded
    <3>2. n \in DOMAIN m /\ m[n] = <<s, "tail">>
      BY <1>2, <3>1
    <3> QED
      BY <1>4, <3>2 DEF Recorded
  <2>2. ASSUME s = r, part = "tail" PROVE Recorded(s)'
    <3>1. Len(l) + 1 \in DOMAIN m /\ m[Len(l) + 1] = <<s, "tail">>
      BY <1>2, <2>2
    <3> QED
      BY <1>4, <3>1 DEF Recorded
  <2>3. ASSUME Recorded(s)' PROVE Recorded(s) \/ (s = r /\ part = "tail")
    <3>1. PICK n \in DOMAIN m : m[n] = <<s, "tail">>
      BY <1>4, <2>3 DEF Recorded
    <3>2. CASE n \in 1..Len(l)
      <4>1. n \in DOMAIN l /\ l[n] = <<s, "tail">>
        BY <1>2, <3>1, <3>2
      <4> QED
        BY <1>4, <4>1 DEF Recorded
    <3>3. CASE n = Len(l) + 1
      BY <1>2, <3>1, <3>3
    <3> QED
      BY <1>2, <3>2, <3>3
  <2> QED
    BY <2>1, <2>2, <2>3
<1> QED
  BY <1>3, <1>4

\* A step of the review keeps exit code and record together.
LEMMA RecordInvReview ==
  ASSUME Typed, RecordInv, NEW r \in Runs, Review(r)
  PROVE  RecordInv'
<1> USE DEF Typed
<1>1. /\ pc[r] \in Holding /\ pc'[r] \in Holding \cup {"release"}
      /\ \A s \in Runs : s # r => pc'[s] = pc[s] /\ exit'[s] = exit[s]
  BY ReviewEffect
<1>2. exit[r] = 2 /\ ~Recorded(r)
  BY <1>1 DEF RecordInv, RecordOf, Unfinished, Places, Holding
<1>3. pc'[r] \in Holding => pc'[r] \in Unfinished /\ pc'[r] # "release"
  BY DEF Unfinished, Places, Holding
<1>4. ASSUME NEW s \in Runs, s # r, Recorded(s)' <=> Recorded(s) PROVE RecordOf(s)'
  BY <1>1, <1>4 DEF RecordInv, RecordOf
<1>5. CASE UNCHANGED log /\ (IF pc'[r] = "release" THEN exit'[r] \in {1, 2} ELSE UNCHANGED exit)
  <2>1. \A s \in Runs : Recorded(s)' <=> Recorded(s)
    BY <1>5 DEF Recorded
  <2>2. RecordOf(r)'
    <3>1. CASE pc'[r] = "release"
      BY <1>2, <1>5, <2>1, <3>1 DEF RecordOf, Unfinished
    <3>2. CASE pc'[r] \in Holding
      <4>1. exit'[r] = 2
        BY <1>2, <1>5, <3>2 DEF Holding
      <4> QED
        BY <1>2, <1>3, <2>1, <3>2, <4>1 DEF RecordOf, Unfinished
    <3> QED
      BY <1>1, <3>1, <3>2
  <2> QED
    BY <1>4, <2>1, <2>2 DEF RecordInv
<1>6. CASE Entry(r, "head") /\ pc'[r] = "tail" /\ UNCHANGED exit
  <2>1. \A s \in Runs : Recorded(s)' <=> Recorded(s)
    BY <1>6, RecordEffect
  <2>2. RecordOf(r)'
    BY <1>2, <1>6, <2>1 DEF RecordOf
  <2> QED
    BY <1>4, <2>1, <2>2 DEF RecordInv
<1>7. CASE Entry(r, "tail") /\ pc'[r] = "release" /\ exit'[r] \in {0, 3}
  <2>1. Recorded(r)' /\ \A s \in Runs : s # r => (Recorded(s)' <=> Recorded(s))
    BY <1>7, RecordEffect
  <2>2. RecordOf(r)'
    BY <1>7, <2>1 DEF RecordOf, Unfinished
  <2> QED
    BY <1>4, <2>1, <2>2 DEF RecordInv
<1> QED
  BY <1>5, <1>6, <1>7, LogEffect

\* The other steps leave the log alone, and those that end a run do so with
\* the exit code it has, or 2.
LEMMA RecordInvOthers ==
  ASSUME Typed, RecordInv, NEW r \in Runs,
         \/ Refuse(r) \/ Begin(r) \/ Lock(r) \/ LockFails(r) \/ Busy(r) \/ BackOut(r) \/ Release(r)
         \/ Crash(r)
  PROVE  RecordInv'
<1> USE DEF Typed
<1>0. pc \in [Runs -> Places]
  BY DEF TypeOK, Places
<1>1. /\ \A s \in Runs : Recorded(s)' <=> Recorded(s)
      /\ \A s \in Runs : s # r => pc'[s] = pc[s]
  BY OnlyTheReview DEF Recorded
<1>2. SUFFICES (\A s \in Runs : s # r => exit'[s] = exit[s]) /\ RecordOf(r)'
  BY <1>1 DEF RecordInv, RecordOf
<1>3. CASE Refuse(r) \/ Begin(r) \/ Busy(r)
  <2>1. \E to \in {"done", "locking", "backOut"} : Goto(r, pc[r], to) /\ to \in Places
    BY <1>3 DEF Refuse, Begin, Busy, Goto, Places, Before, Leaving, Over
  <2>2. pc'[r] \in {"done", "locking", "backOut"}
    BY <2>1, GotoEffect
  <2>3. UNCHANGED exit /\ pc[r] \in Unfinished
    BY <1>3 DEF Refuse, Begin, Busy, Goto, Unfinished, Places, Before
  <2> QED
    BY <1>1, <2>2, <2>3 DEF RecordInv, RecordOf, Unfinished
<1>4. CASE Lock(r)
  <2>1. UNCHANGED exit /\ pc[r] = "locking"
    BY <1>4 DEF Lock
  <2>2. pc'[r] \in {"locking", "clear"}
    <3>1. CASE Goto(r, "locking", "clear")
      BY <3>1, GotoEffect DEF Places, Holding
    <3> QED
      BY <1>4, <2>1, <3>1 DEF Lock, Own
  <2>3. pc[r] \in Unfinished
    BY <2>1 DEF Unfinished, Places, Before
  <2> QED
    BY <1>1, <2>1, <2>2, <2>3 DEF RecordInv, RecordOf
<1>5. CASE LockFails(r)
  <2>1. /\ pc[r] = "locking" /\ pc'[r] = "release" /\ exit'[r] = 2
        /\ \A s \in Runs : s # r => exit'[s] = exit[s]
    BY <1>5, LeaveEffect DEF LockFails
  <2>2. pc[r] \in Unfinished
    BY <2>1 DEF Unfinished, Places, Before
  <2> QED
    BY <1>1, <2>1, <2>2 DEF RecordInv, RecordOf, Unfinished
<1>6. ASSUME NEW from, NEW to, Unlock(r, from, to), UNCHANGED exit,
             \/ from = "backOut" /\ to = "busy"
             \/ from = "release" /\ to = "done"
      PROVE  RecordOf(r)'
  <2>1. CASE Goto(r, from, to)
    <3>1. pc[r] = from /\ pc'[r] = to
      BY <1>6, <2>1, GotoEffect DEF Places, Over
    <3> QED
      BY <1>1, <1>6, <3>1 DEF RecordInv, RecordOf, Unfinished, Places, Leaving
  <2>2. CASE UNCHANGED pc
    BY <1>1, <1>6, <2>2 DEF RecordInv, RecordOf
  <2> QED
    BY <1>6, <2>1, <2>2 DEF Unlock
<1>7. CASE BackOut(r) \/ Release(r)
  BY <1>6, <1>7 DEF BackOut, Release
<1>8. CASE Crash(r)
  <2>1. pc'[r] = "crashed" /\ UNCHANGED exit
    BY <1>0, <1>8 DEF Crash
  <2> QED
    BY <2>1 DEF RecordOf, Unfinished
<1> QED
  BY <1>3, <1>4, <1>5, <1>7, <1>8

\* A run that comes to its end by itself exits with 0 or 3 exactly when its
\* round stands in the review log.
THEOREM ExitIsRecorded == Spec => []ExitMeansRecorded
<1>1. Init => RecordInv
  <2> SUFFICES ASSUME Init, NEW r \in Runs PROVE RecordOf(r)
    BY DEF RecordInv
  <2>1. LogOf[r] \in Files
    BY OutputsAreFiles
  <2>2. log[LogOf[r]] = <<>>
    BY <2>1 DEF Init
  <2>3. pc[r] = "start" /\ exit[r] = 2
    BY DEF Init
  <2>4. ~Recorded(r)
    BY <2>2 DEF Recorded
  <2> QED
    BY <2>3, <2>4 DEF RecordOf
<1>2. Typed /\ RecordInv /\ [Next]_vars => RecordInv'
  <2> SUFFICES ASSUME Typed, RecordInv, [Next]_vars PROVE RecordInv'
    OBVIOUS
  <2>1. ASSUME NEW f \in Files, ByHand(f) PROVE RecordInv'
    BY <2>1 DEF ByHand, files, RecordInv, RecordOf, Recorded
  <2>2. CASE UNCHANGED vars
    BY <2>2 DEF vars, files, RecordInv, RecordOf, Recorded
  <2> QED
    BY <2>1, <2>2, RecordInvReview, RecordInvOthers DEF Next, Step
<1>3. RecordInv => ExitMeansRecorded
  BY DEF RecordInv, RecordOf, ExitMeansRecorded, Recorded
<1> QED
  BY <1>1, <1>2, <1>3, LockInvAlways, PTL DEF Spec

-----------------------------------------------------------------------------
(* The locks implement ownership *)

\* Owner, said without CHOOSE: no two runs own the same file.
OwnerIs ==
  /\ Owner \in [Files -> Runs \cup {NoRun}]
  /\ \A f \in Files : \A r \in Runs : Owner[f] = r <=> Owns(r) /\ f \in Outputs(r)

\* Two runs that own the same file would both have its lock.
LEMMA OwnerUnique == Typed /\ LockInv => OwnerIs
<1> SUFFICES ASSUME Typed, LockInv PROVE OwnerIs
  OBVIOUS
<1>1. ASSUME NEW f \in Files, NEW r \in Runs, NEW s \in Runs,
             Owns(r), f \in Outputs(r), Owns(s), f \in Outputs(s)
      PROVE  r = s
  BY <1>1 DEF Owns, LockInv
<1>2. ASSUME NEW f \in Files, NEW r \in Runs, Owns(r), f \in Outputs(r) PROVE Owner[f] = r
  <2> DEFINE c == CHOOSE s \in Runs : Owns(s) /\ f \in Outputs(s)
  <2>1. c \in Runs /\ Owns(c) /\ f \in Outputs(c)
    BY <1>2
  <2>2. Owner[f] = c
    BY <1>2 DEF Owner
  <2> QED
    BY <1>1, <1>2, <2>1, <2>2
<1>3. ASSUME NEW f \in Files, ~\E r \in Runs : Owns(r) /\ f \in Outputs(r) PROVE Owner[f] = NoRun
  BY <1>3 DEF Owner
<1>4. \A f \in Files : Owner[f] \in Runs \cup {NoRun}
  BY <1>2, <1>3
<1>5. Owner = [f \in Files |-> Owner[f]]
  BY DEF Owner
<1>6. Owner \in [Files -> Runs \cup {NoRun}]
  BY <1>4, <1>5
<1> QED
  BY <1>2, <1>3, <1>6, RunsAssumption DEF OwnerIs

\* Who owns what after a step in which at most one run changes its standing:
\* the run takes all of its outputs, drops all of them, or nothing changes.
LEMMA OwnerAfter ==
  ASSUME OwnerIs, OwnerIs', NEW r \in Runs,
         \A s \in Runs : s # r => (Owns(s)' <=> Owns(s))
  PROVE  /\ (Owns(r)' <=> Owns(r)) => Owner' = Owner
         /\ ~Owns(r) /\ Owns(r)' =>
              /\ \A f \in Outputs(r) : Owner[f] = NoRun
              /\ Owner' = [f \in Files |-> IF f \in Outputs(r) THEN r ELSE Owner[f]]
         /\ Owns(r) /\ ~Owns(r)' =>
              Owner' = [f \in Files |-> IF Owner[f] = r THEN NoRun ELSE Owner[f]]
<1>1. /\ Owner \in [Files -> Runs \cup {NoRun}] /\ Owner' \in [Files -> Runs \cup {NoRun}]
      /\ \A f \in Files : \A s \in Runs : Owner[f] = s <=> Owns(s) /\ f \in Outputs(s)
      /\ \A f \in Files : \A s \in Runs : Owner'[f] = s <=> Owns(s)' /\ f \in Outputs(s)
  BY DEF OwnerIs, Outputs
<1>2. \A s \in Runs : s # NoRun
  BY RunsAssumption
<1>3. ASSUME Owns(r)' <=> Owns(r) PROVE Owner' = Owner
  <2>1. \A f \in Files : \A s \in Runs : Owner'[f] = s <=> Owner[f] = s
    BY <1>1, <1>3
  <2>2. \A f \in Files : Owner'[f] = Owner[f]
    BY <1>1, <1>2, <2>1
  <2> QED
    BY <1>1, <2>2
<1>4. ASSUME ~Owns(r), Owns(r)'
      PROVE  /\ \A f \in Outputs(r) : Owner[f] = NoRun
             /\ Owner' = [f \in Files |-> IF f \in Outputs(r) THEN r ELSE Owner[f]]
  <2>1. ASSUME NEW f \in Outputs(r) PROVE Owner[f] = NoRun /\ Owner'[f] = r
    <3>1. f \in Files
      BY OutputsAreFiles
    <3>2. Owner'[f] = r
      BY <1>1, <1>4, <3>1
    <3>3. ASSUME NEW s \in Runs, Owner[f] = s PROVE FALSE
      <4>1. s # r /\ Owns(s) /\ f \in Outputs(s)
        BY <1>1, <1>4, <3>1, <3>3
      <4>2. Owner'[f] = s
        BY <1>1, <3>1, <4>1
      <4> QED
        BY <3>2, <4>1, <4>2
    <3> QED
      BY <1>1, <3>1, <3>2, <3>3
  <2>2. ASSUME NEW f \in Files, f \notin Outputs(r) PROVE Owner'[f] = Owner[f]
    <3>1. \A s \in Runs : Owner'[f] = s <=> Owner[f] = s
      BY <1>1, <2>2
    <3> QED
      BY <1>1, <1>2, <3>1
  <2> QED
    BY <1>1, <2>1, <2>2
<1>5. ASSUME Owns(r), ~Owns(r)'
      PROVE  Owner' = [f \in Files |-> IF Owner[f] = r THEN NoRun ELSE Owner[f]]
  <2>1. ASSUME NEW f \in Files PROVE Owner'[f] = IF Owner[f] = r THEN NoRun ELSE Owner[f]
    <3>1. \A s \in Runs : Owner'[f] = s <=> s # r /\ Owner[f] = s
      BY <1>1, <1>5
    <3> QED
      BY <1>1, <1>2, <3>1
  <2> QED
    BY <1>1, <2>1
<1> QED
  BY <1>3, <1>4, <1>5

\* A step of one run that leaves the contents alone takes, drops or keeps the
\* ownership of its outputs.
LEMMA StandingRefines ==
  ASSUME OwnerIs, OwnerIs', NEW r \in Runs, UNCHANGED <<verdict, log>>,
         \A s \in Runs : s # r => pc'[s] = pc[s] /\ taken'[s] = taken[s]
  PROVE  [Exclusive!Next]_<<Owner, verdict, log>>
<1>1. \A s \in Runs : s # r => (Owns(s)' <=> Owns(s))
  BY DEF Owns, Outputs
<1>2. Outputs(r) \subseteq Files /\ Outputs(r) # {}
  BY OutputsAreFiles
<1>3. CASE Owns(r)' <=> Owns(r)
  BY <1>1, <1>3, OwnerAfter
<1>4. CASE ~Owns(r) /\ Owns(r)'
  <2>1. Exclusive!Owned(r) = {}
    BY <1>4 DEF Exclusive!Owned, OwnerIs
  <2>2. Exclusive!Take(r)
    BY <1>1, <1>2, <1>4, <2>1, OwnerAfter DEF Exclusive!Take
  <2> QED
    BY <2>2 DEF Exclusive!Next
<1>5. CASE Owns(r) /\ ~Owns(r)'
  <2>1. LogOf[r] \in Exclusive!Owned(r)
    BY <1>5, OutputsAreFiles DEF Exclusive!Owned, OwnerIs
  <2>2. Exclusive!Drop(r)
    BY <1>1, <1>5, <2>1, OwnerAfter DEF Exclusive!Drop
  <2> QED
    BY <2>2 DEF Exclusive!Next
<1> QED
  BY <1>3, <1>4, <1>5

\* A step of the review changes one of the two contents at most, and only
\* where the run is the owner.
LEMMA ReviewRefines ==
  ASSUME Typed, LockInv, OwnerIs, OwnerIs', NEW r \in Runs, Review(r)
  PROVE  [Exclusive!Next]_<<Owner, verdict, log>>
<1> USE DEF Typed
<1>1. /\ UNCHANGED taken /\ pc[r] \in Holding /\ pc'[r] \in Holding \cup {"release"}
      /\ \A s \in Runs : s # r => pc'[s] = pc[s]
  BY ReviewEffect
<1>2. \A s \in Runs : s # r => (Owns(s)' <=> Owns(s))
  BY <1>1 DEF Owns, Outputs
<1>3. Owns(r)
  BY <1>1 DEF Owns, LockInv
<1>4. Owns(r)'
  BY <1>1 DEF Owns, LockInv, Outputs
<1>5. Owner' = Owner
  BY <1>2, <1>3, <1>4, OwnerAfter
<1>6. \A f \in Outputs(r) : f \in Exclusive!Owned(r)
  BY <1>3, OutputsAreFiles DEF Exclusive!Owned, OwnerIs
<1>7. verdict \in [Files -> Runs \cup {NoRun, Earlier}]
  BY DEF TypeOK
<1>8. ASSUME NEW v \in {r, NoRun}, verdict' = [verdict EXCEPT ![OutOf[r]] = v], UNCHANGED log
      PROVE  [Exclusive!Next]_<<Owner, verdict, log>>
  <2>1. CASE OutOf[r] = NoFile
    <3>1. UNCHANGED verdict
      BY <1>7, <1>8, <2>1, FilesAssumption
    <3> QED
      BY <1>5, <1>8, <3>1
  <2>2. CASE OutOf[r] # NoFile
    <3>1. OutOf[r] \in Exclusive!Owned(r)
      BY <1>6, <2>2, OutputsAreFiles
    <3>2. Exclusive!Publish(r)
      BY <1>5, <1>8, <3>1 DEF Exclusive!Publish
    <3> QED
      BY <3>2 DEF Exclusive!Next
  <2> QED
    BY <2>1, <2>2
<1>9. ASSUME NEW part \in {"head", "tail"}, Entry(r, part), UNCHANGED verdict
      PROVE  [Exclusive!Next]_<<Owner, verdict, log>>
  <2>1. LogOf[r] \in Exclusive!Owned(r)
    BY <1>6, OutputsAreFiles
  <2>2. Exclusive!Write(r)
    BY <1>5, <1>9, <2>1 DEF Exclusive!Write, Entry
  <2> QED
    BY <2>2 DEF Exclusive!Next
<1>10. ASSUME UNCHANGED <<verdict, log>> PROVE [Exclusive!Next]_<<Owner, verdict, log>>
  BY <1>5, <1>10
<1>11. CASE Clear(r) \/ Publish(r)
  BY <1>8, <1>10, <1>11 DEF Clear, Publish
<1>12. CASE AppendHead(r) \/ AppendTail(r)
  BY <1>9, <1>12 DEF AppendHead, AppendTail
<1>13. CASE Choose(r) \/ Preflight(r) \/ Request(r) \/ Stage(r) \/ OpenLog(r) \/ Fails(r)
  BY <1>10, <1>13 DEF Choose, Preflight, Request, Stage, OpenLog, Fails, files
<1> QED
  BY <1>11, <1>12, <1>13 DEF Review

\* The steps around the review change nothing of another run's.
LEMMA OthersKeepTheirs ==
  ASSUME Typed, NEW r \in Runs, Crash(r) \/ (Step(r) /\ ~Review(r))
  PROVE  \A s \in Runs : s # r => pc'[s] = pc[s] /\ taken'[s] = taken[s]
<1>1. taken \in [Runs -> SUBSET Files]
  BY DEF Typed, TypeOK
<1>2. \A s \in Runs : s # r => pc'[s] = pc[s]
  BY OnlyTheReview DEF Step
<1>3. UNCHANGED taken \/ \E S : taken' = [taken EXCEPT ![r] = S]
  <2>1. CASE Refuse(r) \/ Begin(r) \/ Busy(r)
    BY <2>1 DEF Refuse, Begin, Busy
  <2>2. CASE Lock(r) \/ LockFails(r)
    BY <2>2 DEF Lock, LockFails, Own
  <2>3. CASE BackOut(r) \/ Release(r)
    BY <2>3 DEF BackOut, Release, Unlock
  <2>4. CASE Crash(r)
    BY <2>4 DEF Crash
  <2> QED
    BY <2>1, <2>2, <2>3, <2>4 DEF Step
<1> QED
  BY <1>1, <1>2, <1>3

\* The locks, taken one by one in sorted order and given back one by one,
\* implement a run that owns all of its outputs or none: every step of the
\* code is a step of ExclusiveOutputs, or none.
THEOREM OwnershipImplemented == Spec => OwnsOutputs
<1>1. Init => Exclusive!Init
  <2> SUFFICES ASSUME Init PROVE Exclusive!Init
    OBVIOUS
  <2>1. \A r \in Runs : ~Owns(r)
    BY DEF Init, Owns, Holding
  <2>2. Owner = [f \in Files |-> NoRun]
    BY <2>1 DEF Owner
  <2> QED
    BY <2>2 DEF Exclusive!Init, Init
<1>2. Typed /\ LockInv /\ OwnerIs /\ OwnerIs' /\ [Next]_vars => [Exclusive!Next]_<<Owner, verdict, log>>
  <2> SUFFICES ASSUME Typed, LockInv, OwnerIs, OwnerIs', [Next]_vars
               PROVE  [Exclusive!Next]_<<Owner, verdict, log>>
    OBVIOUS
  <2>1. ASSUME NEW r \in Runs, Crash(r) \/ (Step(r) /\ ~Review(r))
        PROVE  [Exclusive!Next]_<<Owner, verdict, log>>
    <3>1. UNCHANGED <<verdict, log>>
      BY <2>1, OnlyTheReview DEF Step
    <3> QED
      BY <2>1, <3>1, StandingRefines, OthersKeepTheirs
  <2>2. ASSUME UNCHANGED <<verdict, log, pc, taken>> PROVE UNCHANGED <<Owner, verdict, log>>
    BY <2>2 DEF Owner, Owns, Outputs
  <2>3. CASE (\E f \in Files : ByHand(f)) \/ UNCHANGED vars
    BY <2>2, <2>3 DEF ByHand, vars, files
  <2> QED
    BY <2>1, <2>3, ReviewRefines DEF Next, Step
<1>3. Spec => []OwnerIs
  BY LockInvAlways, OwnerUnique, PTL
<1> QED
  BY <1>1, <1>2, <1>3, LockInvAlways, PTL DEF Spec, OwnsOutputs, Exclusive!Spec

-----------------------------------------------------------------------------
(* Somebody gets in *)

\* Every set of naturals that is not empty has a least element.
LEMMA LeastExists ==
  ASSUME NEW S, S \subseteq Nat, S # {}
  PROVE  \E n \in S : \A m \in S : n <= m
<1> DEFINE R == {ss \in Nat \X Nat : ss[1] < ss[2]}
<1>1. IsWellFoundedOn(R, Nat)
  BY NatLessThanWellFounded, Zenon DEF OpToRel
<1>2. PICK x \in S : \A y \in S : ~(<<y, x>> \in R)
  BY <1>1, WFMin, Zenon
<1>3. \A y \in S : ~(y < x)
  BY <1>2
<1> QED
  BY <1>3

\* There is a greatest file.
LEMMA FilesAreBounded == \E b \in Nat : \A f \in Files : f <= b
<1>1. PICK n \in Nat : ExistsSurjection(1..n, Files)
  BY FilesAssumption, FS_NatSurjection
<1>2. PICK s \in [1..n -> Files] : \A f \in Files : \E i \in 1..n : s[i] = f
  BY <1>1 DEF ExistsSurjection, Surjection
<1>3. \A i \in 1..n : s[i] \in Nat
  BY <1>2, FilesAssumption
<1> DEFINE Bounds(m, b) == b \in Nat /\ \A i \in 1..m : s[i] <= b
           Open == {m \in 0..n : ~\E b : Bounds(m, b)}
<1>4. \A m, b : Bounds(m, b) <=> b \in Nat /\ \A i \in 1..m : s[i] <= b
  OBVIOUS
<1> HIDE DEF Bounds
<1>5. ASSUME NEW m \in 0..n, \A k \in 0..n : k < m => \E b : Bounds(k, b)
      PROVE  \E b : Bounds(m, b)
  <2>1. CASE m = 0
    <3>1. Bounds(0, 0)
      BY <1>4
    <3> QED
      BY <2>1, <3>1
  <2>2. CASE m # 0
    <3>1. m - 1 \in 0..n /\ m - 1 < m /\ m \in 1..n
      BY <2>2
    <3>2. PICK b : Bounds(m - 1, b)
      BY <1>5, <3>1
    <3>3. b \in Nat /\ s[m] \in Nat /\ \A i \in 1..m - 1 : s[i] \in Nat /\ s[i] <= b
      BY <1>3, <1>4, <3>1, <3>2
    <3>4. \A i \in 1..m : s[i] <= b + s[m]
      BY <3>1, <3>3
    <3>5. Bounds(m, b + s[m])
      BY <1>4, <3>3, <3>4
    <3> QED
      BY <3>5
  <2> QED
    BY <2>1, <2>2
<1>6. Open = {}
  <2> SUFFICES ASSUME Open # {} PROVE FALSE
    OBVIOUS
  <2>1. Open \subseteq Nat
    OBVIOUS
  <2>2. PICK m \in Open : \A k \in Open : m <= k
    <3> HIDE DEF Open
    <3> QED
      BY <2>1, LeastExists
  <2>3. \A k \in 0..n : k < m => k \notin Open
    <3> HIDE DEF Open
    <3> QED
      BY <2>1, <2>2
  <2>4. m \in 0..n /\ (~\E b : Bounds(m, b)) /\ \A k \in 0..n : k < m => \E b : Bounds(k, b)
    BY <2>2, <2>3
  <2> QED
    BY <1>5, <2>4
<1>7. PICK b : Bounds(n, b)
  <2>1. n \in 0..n
    OBVIOUS
  <2> QED
    BY <1>6, <2>1
<1> QED
  BY <1>2, <1>4, <1>7

LEMMA GreatestFile ==
  ASSUME NEW S, S \subseteq Files, S # {}
  PROVE  \E f \in S : \A g \in S : g <= f
<1>1. PICK b \in Nat : \A f \in Files : f <= b
  BY FilesAreBounded
<1> DEFINE Gaps == {b - f : f \in S}
<1>2. S \subseteq Nat /\ \A f \in S : b - f \in Nat
  BY <1>1, FilesAssumption
<1>3. PICK d \in Gaps : \A e \in Gaps : d <= e
  <2>1. Gaps \subseteq Nat /\ Gaps # {}
    BY <1>2
  <2> HIDE DEF Gaps
  <2> QED
    BY <2>1, LeastExists
<1>4. PICK f \in S : d = b - f
  BY <1>3
<1>5. \A g \in S : b - f <= b - g
  BY <1>3, <1>4
<1> QED
  BY <1>2, <1>5

\* A run that was turned away, or is about to be.
TurnedAway == {"backOut", "busy"}

\* Nobody is past its locks.
AllContend == \A r \in Runs : pc[r] \in Before \cup TurnedAway

\* A lock that somebody has behind all locks of those who back out.
Ahead(s, h) ==
  /\ pc[s] = "locking" /\ h \in taken[s]
  /\ \A t \in Runs : pc[t] = "backOut" => \A f \in taken[t] : f < h

\* Locks are taken in order, and stay with a run that lives, unless one could not be
\* removed.  As long as nobody got in, the run with the greatest lock is not turned
\* away: nobody holds the next one it needs.
Sorted ==
  \A r \in Runs : pc[r] = "locking" => \A f \in taken[r], g \in Outputs(r) \ taken[r] : f < g
Accountable ==
  \A f \in Files : locks[f] \in Runs => f \in taken[locks[f]] \/ stuck = TRUE \/ pc[locks[f]] = "crashed"
SomeoneAhead ==
  stuck = FALSE /\ AllContend /\ (\E r \in Runs : pc[r] \in TurnedAway) =>
    \E s \in Runs : \E h \in Files : Ahead(s, h)

OrderInv == Sorted /\ Accountable /\ SomeoneAhead

LEMMA OrderGives == Typed /\ OrderInv => SomeoneGetsIn
<1> SUFFICES ASSUME Typed, OrderInv, Runs # {}, \A r \in Runs : pc[r] = "busy", stuck = FALSE
             PROVE  FALSE
  BY DEF SomeoneGetsIn, Typed, TypeOK
<1>1. AllContend /\ \E r \in Runs : pc[r] \in TurnedAway
  BY DEF AllContend, TurnedAway
<1> QED
  BY <1>1 DEF OrderInv, SomeoneAhead, Ahead

\* The shapes of a step of one run, as far as the order of the locks goes.
Moves(r) ==
  /\ UNCHANGED <<locks, taken, stuck>>
  /\ \A s \in Runs : s # r => pc'[s] = pc[s]
  /\ pc[r] # "crashed" /\ pc'[r] \notin {"crashed", "start"} \cup TurnedAway
  /\ pc'[r] = "locking" => taken[r] = {} /\ pc[r] = "start"
  /\ pc'[r] \in Before => pc[r] \in Before
Locks(r, f) ==
  /\ pc[r] = "locking" /\ IsNext(r, f) /\ locks[f] = NoRun
  /\ locks' = [locks EXCEPT ![f] = r] /\ taken' = [taken EXCEPT ![r] = @ \cup {f}] /\ UNCHANGED stuck
  /\ \A s \in Runs : s # r => pc'[s] = pc[s]
  /\ pc'[r] \in {"locking", "clear", "release"}
Yields(r) ==
  /\ pc[r] = "locking" /\ pc'[r] = "backOut" /\ UNCHANGED <<locks, taken, stuck>>
  /\ \A s \in Runs : s # r => pc'[s] = pc[s]
  /\ \E f \in Files : IsNext(r, f) /\ locks[f] # NoRun
Returns(r) ==
  /\ pc[r] \in Leaving
  /\ \A s \in Runs : s # r => pc'[s] = pc[s]
  /\ \/ /\ taken[r] = {} /\ UNCHANGED <<locks, taken, stuck>>
        /\ pc'[r] = (IF pc[r] = "backOut" THEN "busy" ELSE "done")
     \/ /\ UNCHANGED pc
        /\ \E f \in taken[r] :
             /\ taken' = [taken EXCEPT ![r] = @ \ {f}]
             /\ \/ locks' = [locks EXCEPT ![f] = NoRun] /\ UNCHANGED stuck
                \/ stuck' = TRUE /\ UNCHANGED locks
Dies(r) ==
  /\ pc' = [pc EXCEPT ![r] = "crashed"] /\ taken' = [taken EXCEPT ![r] = {}] /\ UNCHANGED <<locks, stuck>>

LEMMA OrderShapes ==
  ASSUME Typed, LockInv, NEW r \in Runs, Step(r) \/ Crash(r)
  PROVE  Moves(r) \/ (\E f \in Files : Locks(r, f)) \/ Yields(r) \/ Returns(r) \/ Dies(r)
<1> USE DEF Typed
<1>1. CASE Refuse(r) \/ Begin(r)
  <2>1. \E to \in {"done", "locking"} : Goto(r, "start", to)
    BY <1>1 DEF Refuse, Begin
  <2>2. PICK to \in {"done", "locking"} : Goto(r, "start", to)
    BY <2>1
  <2>3. pc[r] = "start" /\ pc'[r] = to /\ \A s \in Runs : s # r => pc'[s] = pc[s]
    BY <2>2, GotoEffect DEF Places, Before, Over
  <2>4. UNCHANGED <<locks, taken, stuck>> /\ taken[r] = {}
    BY <1>1, <2>3 DEF Refuse, Begin, LockInv
  <2> QED
    BY <2>2, <2>3, <2>4 DEF Moves, Before, TurnedAway
<1>2. CASE Lock(r)
  <2>1. PICK f \in Files : IsNext(r, f) /\ locks[f] = NoRun /\ Own(r, f)
    BY <1>2 DEF Lock
  <2>2. pc[r] = "locking" /\ UNCHANGED stuck
    BY <1>2 DEF Lock
  <2>3. pc'[r] \in {"locking", "clear"} /\ \A s \in Runs : s # r => pc'[s] = pc[s]
    BY <2>1, <2>2, GotoEffect DEF Own, Places, Holding
  <2> QED
    BY <2>1, <2>2, <2>3 DEF Locks, Own
<1>3. CASE LockFails(r)
  <2>1. pc[r] = "locking" /\ pc'[r] = "release" /\ \A s \in Runs : s # r => pc'[s] = pc[s]
    BY <1>3, LeaveEffect DEF LockFails
  <2>2. UNCHANGED stuck
    BY <1>3 DEF LockFails
  <2>3. PICK f \in Files : /\ IsNext(r, f) /\ locks[f] = NoRun
                           /\ \/ UNCHANGED <<locks, taken>>
                              \/ /\ locks' = [locks EXCEPT ![f] = r]
                                 /\ taken' = [taken EXCEPT ![r] = @ \cup {f}]
    BY <1>3 DEF LockFails
  <2> QED
    BY <2>1, <2>2, <2>3 DEF Locks, Moves, Before, TurnedAway
<1>4. CASE Busy(r)
  <2>1. pc[r] = "locking" /\ pc'[r] = "backOut" /\ \A s \in Runs : s # r => pc'[s] = pc[s]
    BY <1>4, GotoEffect DEF Busy, Places, Leaving
  <2> QED
    BY <1>4, <2>1 DEF Busy, Yields
<1>5. ASSUME NEW from \in Leaving, NEW to, to = (IF from = "backOut" THEN "busy" ELSE "done"), Unlock(r, from, to)
      PROVE  Returns(r)
  <2>1. to \in Places
    BY <1>5 DEF Places, Over
  <2>2. CASE taken[r] = {} /\ Goto(r, from, to) /\ UNCHANGED <<locks, stuck, taken>>
    <3>1. pc[r] = from /\ pc'[r] = to /\ \A s \in Runs : s # r => pc'[s] = pc[s]
      BY <2>1, <2>2, GotoEffect
    <3> QED
      BY <1>5, <2>2, <3>1 DEF Returns
  <2>3. CASE /\ pc[r] = from /\ UNCHANGED pc
             /\ \E f \in taken[r] :
                  /\ taken' = [taken EXCEPT ![r] = @ \ {f}]
                  /\ \/ locks' = [locks EXCEPT ![f] = NoRun] /\ UNCHANGED stuck
                     \/ stuck' = TRUE /\ UNCHANGED locks
    BY <2>3 DEF Returns
  <2> QED
    BY <1>5, <2>2, <2>3 DEF Unlock
<1>6. CASE BackOut(r) \/ Release(r)
  BY <1>5, <1>6 DEF BackOut, Release, Leaving
<1>7. CASE Review(r)
  <2>1. /\ UNCHANGED <<locks, stuck, taken>> /\ \A s \in Runs : s # r => pc'[s] = pc[s]
        /\ pc'[r] \in (Holding \ {"clear"}) \cup {"release"}
    BY <1>7, ReviewEffect
  <2>2. pc[r] # "crashed" /\ pc'[r] # "crashed" /\ pc'[r] \notin TurnedAway /\ pc'[r] \notin Before
    BY <1>7, <2>1, ReviewEffect DEF Holding, TurnedAway, Before
  <2> QED
    BY <2>1, <2>2 DEF Moves, Before
<1>8. CASE Crash(r)
  BY <1>8 DEF Crash, Dies
<1> QED
  BY <1>1, <1>2, <1>3, <1>4, <1>6, <1>7, <1>8 DEF Step

\* What is sorted stays sorted: the next lock is the least of those missing.
LEMMA SortedStep ==
  ASSUME Typed, Sorted, NEW r \in Runs,
         Moves(r) \/ (\E f \in Files : Locks(r, f)) \/ Yields(r) \/ Returns(r) \/ Dies(r)
  PROVE  Sorted'
<1>0. taken \in [Runs -> SUBSET Files] /\ pc \in [Runs -> Places] /\ Files \subseteq Nat
  BY FilesAssumption DEF Typed, TypeOK, Places
<1> SUFFICES ASSUME NEW s \in Runs, pc'[s] = "locking", NEW f \in taken'[s], NEW g \in Outputs(s) \ taken'[s]
             PROVE  f < g
  BY DEF Sorted, Outputs
<1>1. CASE taken'[s] = taken[s] /\ pc[s] = "locking"
  BY <1>1 DEF Sorted
<1>2. CASE Moves(r)
  BY <1>1, <1>2 DEF Moves
<1>3. ASSUME NEW h \in Files, Locks(r, h) PROVE f < g
  <2>1. CASE s # r
    BY <1>0, <1>1, <1>3, <2>1 DEF Locks
  <2>2. CASE s = r
    <3>1. taken'[s] = taken[s] \cup {h} /\ pc[s] = "locking"
      BY <1>0, <1>3, <2>2 DEF Locks
    <3>2. h \in Outputs(s) \ taken[s] /\ \A o \in Outputs(s) \ taken[s] : h <= o
      BY <1>3, <2>2 DEF Locks, IsNext
    <3>3. g # h /\ g \in Outputs(s) \ taken[s] /\ g \in Nat /\ h \in Nat
      BY <1>0, <3>1, OutputsAreFiles
    <3>4. CASE f = h
      BY <3>2, <3>3, <3>4
    <3>5. CASE f # h
      BY <3>1, <3>3, <3>5 DEF Sorted
    <3> QED
      BY <3>4, <3>5
  <2> QED
    BY <2>1, <2>2
<1>4. CASE Yields(r)
  BY <1>1, <1>4 DEF Yields
<1>5. CASE Returns(r)
  <2>1. s # r
    BY <1>5 DEF Returns, Leaving
  <2>2. pc'[s] = pc[s] /\ taken'[s] = taken[s]
    BY <1>0, <1>5, <2>1 DEF Returns
  <2> QED
    BY <1>1, <2>2
<1>6. CASE Dies(r)
  <2>1. s # r
    BY <1>0, <1>6 DEF Dies
  <2> QED
    BY <1>0, <1>1, <1>6, <2>1 DEF Dies
<1> QED
  BY <1>2, <1>3, <1>4, <1>5, <1>6

\* Whose lock is there, can still be told.
LEMMA AccountableStep ==
  ASSUME Typed, LockInv, Accountable, NEW r \in Runs,
         Moves(r) \/ (\E f \in Files : Locks(r, f)) \/ Yields(r) \/ Returns(r) \/ Dies(r)
  PROVE  Accountable'
<1>0. /\ taken \in [Runs -> SUBSET Files] /\ pc \in [Runs -> Places] /\ locks \in [Files -> Runs \cup {NoRun}]
      /\ NoRun \notin Runs
  BY RunsAssumption DEF Typed, TypeOK, Places
<1> SUFFICES ASSUME NEW f \in Files, locks'[f] \in Runs, stuck' # TRUE
             PROVE  f \in taken'[locks'[f]] \/ pc'[locks'[f]] = "crashed"
  BY DEF Accountable
<1>1. ASSUME locks'[f] = locks[f], stuck' = stuck
      PROVE  f \in taken[locks'[f]] \/ pc[locks'[f]] = "crashed"
  BY <1>1 DEF Accountable
<1>2. ASSUME Moves(r) \/ Yields(r) PROVE f \in taken'[locks'[f]] \/ pc'[locks'[f]] = "crashed"
  <2>1. UNCHANGED <<locks, taken, stuck>> /\ \A s \in Runs : s # r => pc'[s] = pc[s]
    BY <1>2 DEF Moves, Yields
  <2>2. CASE f \in taken[locks'[f]]
    BY <2>1, <2>2
  <2>3. CASE f \notin taken[locks'[f]]
    <3>1. pc[locks'[f]] = "crashed"
      BY <1>1, <2>1, <2>3
    <3>2. CASE locks'[f] # r
      BY <2>1, <3>1, <3>2
    <3>3. CASE locks'[f] = r
      BY <1>2, <3>1, <3>3 DEF Moves, Yields
    <3> QED
      BY <3>2, <3>3
  <2> QED
    BY <2>2, <2>3
<1>3. ASSUME NEW h \in Files, Locks(r, h) PROVE f \in taken'[locks'[f]] \/ pc'[locks'[f]] = "crashed"
  <2>1. /\ locks' = [locks EXCEPT ![h] = r] /\ taken' = [taken EXCEPT ![r] = @ \cup {h}] /\ stuck' = stuck
        /\ \A s \in Runs : s # r => pc'[s] = pc[s]
        /\ pc[r] = "locking"
    BY <1>3 DEF Locks
  <2>2. CASE f = h
    BY <1>0, <2>1, <2>2
  <2>3. CASE f # h
    <3>1. locks'[f] = locks[f]
      BY <1>0, <2>1, <2>3
    <3>2. f \in taken[locks'[f]] \/ (pc[locks'[f]] = "crashed" /\ locks'[f] # r)
      BY <1>1, <2>1, <3>1
    <3> QED
      BY <1>0, <2>1, <3>1, <3>2
  <2> QED
    BY <2>2, <2>3
<1>4. ASSUME Returns(r) PROVE f \in taken'[locks'[f]] \/ pc'[locks'[f]] = "crashed"
  <2>1. pc[r] # "crashed" /\ \A s \in Runs : s # r => pc'[s] = pc[s]
    BY <1>4 DEF Returns, Leaving
  <2>2. CASE UNCHANGED <<locks, taken, stuck>>
    BY <1>1, <2>1, <2>2
  <2>3. CASE \E h \in taken[r] :
               /\ taken' = [taken EXCEPT ![r] = @ \ {h}]
               /\ locks' = [locks EXCEPT ![h] = NoRun] /\ UNCHANGED stuck
    <3>1. PICK h \in taken[r] : /\ taken' = [taken EXCEPT ![r] = @ \ {h}]
                                /\ locks' = [locks EXCEPT ![h] = NoRun] /\ UNCHANGED stuck
      BY <2>3
    <3>2. f # h /\ locks'[f] = locks[f]
      BY <1>0, <3>1
    <3>3. f \in taken[locks'[f]] \/ (pc[locks'[f]] = "crashed" /\ locks'[f] # r)
      BY <1>1, <2>1, <3>1, <3>2
    <3> QED
      BY <1>0, <2>1, <3>1, <3>2, <3>3
  <2> QED
    BY <1>4, <2>2, <2>3 DEF Returns
<1>5. ASSUME Dies(r) PROVE f \in taken'[locks'[f]] \/ pc'[locks'[f]] = "crashed"
  BY <1>0, <1>1, <1>5 DEF Dies
<1> QED
  BY <1>2, <1>3, <1>4, <1>5

\* Once somebody got in, somebody got in.
LEMMA ContendBefore ==
  ASSUME Typed, NEW r \in Runs, AllContend',
         Moves(r) \/ (\E f \in Files : Locks(r, f)) \/ Yields(r) \/ Returns(r) \/ Dies(r)
  PROVE  AllContend /\ ~Dies(r)
<1>0. pc \in [Runs -> Places] /\ \A s \in Runs : pc'[s] \in Before \cup TurnedAway
  BY DEF Typed, TypeOK, Places, AllContend
<1>1. ~Dies(r)
  BY <1>0 DEF Dies, Before, TurnedAway
<1>2. \A s \in Runs : s # r => pc'[s] = pc[s]
  BY <1>1 DEF Moves, Locks, Yields, Returns
<1>3. pc[r] \in Before \cup TurnedAway
  <2>1. CASE Moves(r)
    BY <1>0, <2>1 DEF Moves, Before, TurnedAway
  <2>2. CASE (\E f \in Files : Locks(r, f)) \/ Yields(r)
    BY <2>2 DEF Locks, Yields, Before
  <2>3. CASE Returns(r)
    BY <1>0, <2>3 DEF Returns, Leaving, Before, TurnedAway
  <2> QED
    BY <1>1, <2>1, <2>2, <2>3
<1> QED
  BY <1>0, <1>1, <1>2, <1>3 DEF AllContend

\* Somebody stays ahead when another one does a step that turns nobody away.
LEMMA StaysAhead ==
  ASSUME NEW s \in Runs, NEW h \in Files, Ahead(s, h),
         pc'[s] = "locking", h \in taken'[s],
         \A t \in Runs : pc'[t] = "backOut" => pc[t] = "backOut" /\ taken'[t] \subseteq taken[t]
  PROVE  \E z \in Runs : \E k \in Files : Ahead(z, k)'
BY DEF Ahead

\* A run that is turned away is not the one with the greatest lock: what it missed
\* is behind all it has, and whoever has that lock has not been turned away.
LEMMA AnotherIsAhead ==
  ASSUME Typed, LockInv, OrderInv, stuck = FALSE, AllContend, NEW r \in Runs, Yields(r)
  PROVE  \E s \in Runs : \E h \in Files : Ahead(s, h)'
<1>0. taken \in [Runs -> SUBSET Files] /\ locks \in [Files -> Runs \cup {NoRun}] /\ Files \subseteq Nat
  BY FilesAssumption DEF Typed, TypeOK
<1> DEFINE Has(s, f) == pc[s] = "locking" /\ f \in taken[s]
           Held == {f \in Files : \E s \in Runs : Has(s, f)}
<1>1. PICK g \in Files : IsNext(r, g) /\ locks[g] # NoRun
  BY DEF Yields
<1>2. pc[r] = "locking" /\ g \in Outputs(r) \ taken[r] /\ locks[g] \in Runs
  BY <1>0, <1>1 DEF Yields, IsNext
<1>3. g \in taken[locks[g]]
  BY <1>2 DEF OrderInv, Accountable, AllContend, Before, TurnedAway
<1>4. \A f \in taken[r] : f < g
  BY <1>2 DEF OrderInv, Sorted
<1>5. Has(locks[g], g) \/ pc[locks[g]] = "backOut"
  BY <1>2, <1>3 DEF AllContend, Before, TurnedAway, LockInv, Over
<1>6. \/ \A t \in Runs : pc[t] # "backOut"
      \/ \E s \in Runs : \E h \in Files : Ahead(s, h)
  BY DEF OrderInv, SomeoneAhead, TurnedAway
<1>7. Held # {} /\ Held \subseteq Files
  BY <1>2, <1>5, <1>6 DEF Ahead
<1>8. PICK k \in Held : \A f \in Held : f <= k
  <2> HIDE DEF Held
  <2> QED
    BY <1>7, GreatestFile
<1>9. \A t \in Runs : pc[t] = "backOut" => \A f \in taken[t] : f < k
  <2> SUFFICES ASSUME NEW t \in Runs, pc[t] = "backOut", NEW f \in taken[t]
               PROVE  f < k
    OBVIOUS
  <2>1. PICK s \in Runs, h \in Files : Ahead(s, h)
    BY <1>6
  <2>2. h \in Held /\ f < h
    BY <2>1 DEF Ahead
  <2>3. f \in Nat /\ h \in Nat /\ k \in Nat /\ h <= k
    BY <1>0, <1>8, <2>2
  <2> QED
    BY <2>2, <2>3
<1>10. PICK s \in Runs : Has(s, k)
  BY <1>8
<1>11. s # r
  <2> SUFFICES ASSUME s = r PROVE FALSE
    OBVIOUS
  <2>1. k < g /\ k \in Nat /\ g \in Nat
    BY <1>0, <1>4, <1>8, <1>10
  <2>2. CASE Has(locks[g], g)
    <3>1. g \in Held
      BY <1>2, <2>2
    <3> QED
      BY <1>8, <2>1, <3>1
  <2>3. CASE pc[locks[g]] = "backOut"
    BY <1>2, <1>3, <1>9, <2>1, <2>3
  <2> QED
    BY <1>5, <2>2, <2>3
<1>12. UNCHANGED taken /\ \A t \in Runs : t # r => pc'[t] = pc[t]
  BY DEF Yields
<1>13. \A f \in taken[r] : f < k
  <2> SUFFICES ASSUME NEW f \in taken[r] PROVE f < k
    OBVIOUS
  <2>1. f \in Held
    BY <1>0, <1>2
  <2>2. f # k
    BY <1>10, <1>11 DEF LockInv
  <2> QED
    BY <1>0, <1>8, <2>1, <2>2
<1> QED
  BY <1>8, <1>9, <1>10, <1>11, <1>12, <1>13 DEF Ahead

LEMMA SomeoneAheadStep ==
  ASSUME Typed, LockInv, OrderInv, NEW r \in Runs,
         Moves(r) \/ (\E f \in Files : Locks(r, f)) \/ Yields(r) \/ Returns(r) \/ Dies(r)
  PROVE  SomeoneAhead'
<1>0. taken \in [Runs -> SUBSET Files] /\ pc \in [Runs -> Places] /\ stuck \in BOOLEAN
  BY DEF Typed, TypeOK, Places
<1> SUFFICES ASSUME stuck' = FALSE, AllContend', NEW q \in Runs, pc'[q] \in TurnedAway
             PROVE  \E s \in Runs : \E h \in Files : Ahead(s, h)'
  BY DEF SomeoneAhead
<1>1. AllContend /\ ~Dies(r)
  BY ContendBefore
<1>2. stuck = FALSE /\ \A s \in Runs : s # r => pc'[s] = pc[s]
  <2>1. CASE Moves(r) \/ Yields(r) \/ \E f \in Files : Locks(r, f)
    BY <2>1 DEF Moves, Yields, Locks
  <2>2. CASE Returns(r)
    BY <2>2 DEF Returns
  <2> QED
    BY <1>1, <2>1, <2>2
<1>3. ASSUME pc[q] \in TurnedAway PROVE \E s \in Runs : \E h \in Files : Ahead(s, h)
  BY <1>1, <1>2, <1>3 DEF OrderInv, SomeoneAhead
<1>4. CASE Moves(r)
  <2>1. q # r
    BY <1>4 DEF Moves, TurnedAway
  <2>2. PICK s \in Runs, h \in Files : Ahead(s, h)
    BY <1>2, <1>3, <2>1
  <2>3. s # r
    <3>1. pc'[r] \in Before \cup TurnedAway
      BY DEF AllContend
    <3> QED
      BY <1>4, <2>2, <3>1 DEF Ahead, Moves, Before
  <2> QED
    BY <1>2, <1>4, <2>2, <2>3, StaysAhead DEF Ahead, Moves, TurnedAway
<1>5. ASSUME NEW f \in Files, Locks(r, f) PROVE \E s \in Runs : \E h \in Files : Ahead(s, h)'
  <2>1. pc'[r] = "locking" /\ pc[r] = "locking"
    BY <1>5 DEF Locks, AllContend, Before, TurnedAway
  <2>2. q # r
    BY <2>1 DEF TurnedAway
  <2>3. PICK s \in Runs, h \in Files : Ahead(s, h)
    BY <1>2, <1>3, <2>2
  <2>4. /\ h \in taken'[s] /\ pc'[s] = "locking"
        /\ \A t \in Runs : pc'[t] = "backOut" => pc[t] = "backOut" /\ taken'[t] \subseteq taken[t]
    BY <1>0, <1>2, <1>5, <2>1, <2>3 DEF Ahead, Locks
  <2> QED
    BY <2>3, <2>4, StaysAhead
<1>6. CASE Yields(r)
  BY <1>1, <1>2, <1>6, AnotherIsAhead
<1>7. CASE Returns(r)
  <2>1. pc[r] = "backOut"
    BY <1>1, <1>7 DEF Returns, AllContend, Leaving, Before, TurnedAway
  <2>2. PICK s \in Runs, h \in Files : Ahead(s, h)
    BY <1>1, <1>2, <2>1 DEF OrderInv, SomeoneAhead, TurnedAway
  <2>3. s # r /\ taken'[s] = taken[s] /\ taken'[r] \subseteq taken[r] /\ \A t \in Runs : t # r => taken'[t] = taken[t]
    BY <1>0, <1>7, <2>1, <2>2 DEF Ahead, Returns
  <2>4. /\ h \in taken'[s] /\ pc'[s] = "locking"
        /\ \A t \in Runs : pc'[t] = "backOut" => pc[t] = "backOut" /\ taken'[t] \subseteq taken[t]
    BY <1>2, <2>1, <2>2, <2>3 DEF Ahead
  <2> QED
    BY <2>2, <2>4, StaysAhead
<1> QED
  BY <1>1, <1>4, <1>5, <1>6, <1>7

LEMMA OrderInvNext == Typed /\ LockInv /\ OrderInv /\ [Next]_vars => OrderInv'
<1> SUFFICES ASSUME Typed, LockInv, OrderInv, [Next]_vars PROVE OrderInv'
  OBVIOUS
<1>1. ASSUME NEW r \in Runs, Step(r) \/ Crash(r) PROVE OrderInv'
  <2>1. Moves(r) \/ (\E f \in Files : Locks(r, f)) \/ Yields(r) \/ Returns(r) \/ Dies(r)
    BY <1>1, OrderShapes
  <2>2. Sorted'
    BY <2>1, SortedStep DEF OrderInv
  <2>3. Accountable'
    BY <2>1, AccountableStep DEF OrderInv
  <2>4. SomeoneAhead'
    BY <2>1, SomeoneAheadStep
  <2> QED
    BY <2>2, <2>3, <2>4 DEF OrderInv
<1>2. ASSUME NEW h \in Files, ByHand(h) PROVE OrderInv'
  <2>1. UNCHANGED <<stuck, pc, taken>> /\ locks' = [locks EXCEPT ![h] = NoRun]
    BY <1>2 DEF ByHand
  <2>2. Sorted' /\ SomeoneAhead'
    BY <2>1 DEF OrderInv, Sorted, SomeoneAhead, Ahead, AllContend, Outputs
  <2>3. Accountable'
    <3>1. locks \in [Files -> Runs \cup {NoRun}] /\ NoRun \notin Runs
      BY RunsAssumption DEF Typed, TypeOK
    <3>2. ASSUME NEW f \in Files, locks'[f] \in Runs PROVE locks'[f] = locks[f]
      BY <2>1, <3>1, <3>2
    <3> QED
      BY <2>1, <3>2 DEF OrderInv, Accountable
  <2> QED
    BY <2>2, <2>3 DEF OrderInv
<1>3. CASE UNCHANGED vars
  BY <1>3 DEF vars, OrderInv, Sorted, SomeoneAhead, Ahead, AllContend, Outputs, Accountable
<1> QED
  BY <1>1, <1>2, <1>3 DEF Next

\* Runs that compete for outputs are not all turned away: the sorted order in
\* which _acquire_locks takes the locks lets one in, for any number of runs and
\* any outputs, unless a lock of one that was turned away could not be removed.
THEOREM SomebodyGetsIn == Spec => []SomeoneGetsIn
<1>1. Init => OrderInv
  <2> SUFFICES ASSUME Init PROVE OrderInv
    OBVIOUS
  <2>1. \A r \in Runs : pc[r] = "start" /\ taken[r] = {}
    BY DEF Init
  <2>2. \A f \in Files : locks[f] \notin Runs
    BY RunsAssumption DEF Init
  <2> QED
    BY <2>1, <2>2 DEF OrderInv, Sorted, Accountable, SomeoneAhead, TurnedAway
<1> QED
  BY <1>1, OrderInvNext, OrderGives, LockInvAlways, PTL DEF Spec
=============================================================================
