--------------------------- MODULE FallbackReview ----------------------------
(***************************************************************************)
(* scripts/fallback_review.py: a review round by another provider.         *)
(*                                                                         *)
(* Several runs may be started at the same time and name the same output   *)
(* files.  A run creates one lock file beside each of its outputs, in      *)
(* sorted order and without ever waiting; then it removes the old verdict, *)
(* walks its providers, publishes the new verdict by a rename and appends  *)
(* the round to the review log.  A run may crash at any point; its locks   *)
(* stay until a person deletes them.                                       *)
(***************************************************************************)
EXTENDS Naturals, Sequences, FiniteSets

CONSTANTS
  Runs,         \* the runs of the script
  Files,        \* the output files; their order is that of their lock names
  OutOf,        \* --out of a run, or NoFile
  LogOf,        \* --append-log of a run
  NoFile,       \* no --out
  NoRun,        \* no run
  Earlier,      \* a run before all of these
  Chain,        \* --chain
  Candidates    \* how many reviewers a run may try

ASSUME RunsAssumption == NoRun \notin Runs /\ Earlier \notin Runs /\ NoRun # Earlier
ASSUME FilesAssumption ==
  /\ Files \subseteq Nat /\ IsFiniteSet(Files) /\ NoFile \notin Files
  /\ OutOf \in [Runs -> Files \cup {NoFile}]
  /\ LogOf \in [Runs -> Files]
ASSUME ChainAssumption == Chain \in BOOLEAN /\ Candidates \in Nat

VARIABLES
  locks,     \* the lock file of a file: the run that created it, or NoRun
  stuck,     \* history: a lock could not be removed
  verdict,   \* the verdict at a file: the run it is from, or NoRun
  log,       \* the pieces appended to a file
  pc,        \* where a run is
  taken,     \* _acquire_locks: the locks a run counts as its own
  candidate, \* how many reviewers it has turned to
  retried,   \* the preflight of this reviewer has been repeated
  attempts,  \* attempts left with this reviewer
  valid,     \* the reply passed validate()
  exit       \* the exit code, meaningful once the run is over

files == <<verdict, log>>
round == <<candidate, retried, attempts, valid>>
vars == <<locks, stuck, files, pc, taken, round, exit>>

Outputs(r) == ({OutOf[r]} \ {NoFile}) \cup {LogOf[r]}

Before  == {"start", "locking"}
Holding == {"clear", "choose", "preflight", "request", "stage", "publish", "open", "head", "tail"}
Leaving == {"backOut", "release"}
Over    == {"busy", "done", "crashed"}

TypeOK ==
  /\ locks \in [Files -> Runs \cup {NoRun}]
  /\ stuck \in BOOLEAN
  /\ verdict \in [Files -> Runs \cup {NoRun, Earlier}]
  /\ log \in [Files -> Seq(Runs \X {"head", "tail"})]
  /\ pc \in [Runs -> Before \cup Holding \cup Leaving \cup Over]
  /\ taken \in [Runs -> SUBSET Files]
  /\ candidate \in [Runs -> 0..Candidates]
  /\ retried \in [Runs -> BOOLEAN]
  /\ attempts \in [Runs -> 0..2]
  /\ valid \in [Runs -> BOOLEAN]
  /\ exit \in [Runs -> 0..3]

Init ==
  /\ locks = [f \in Files |-> NoRun]
  /\ stuck = FALSE
  /\ verdict = [f \in Files |-> Earlier]
  /\ log = [f \in Files |-> <<>>]
  /\ pc = [r \in Runs |-> "start"]
  /\ taken = [r \in Runs |-> {}]
  /\ candidate = [r \in Runs |-> 0]
  /\ retried = [r \in Runs |-> FALSE]
  /\ attempts = [r \in Runs |-> 0]
  /\ valid = [r \in Runs |-> FALSE]
  /\ exit = [r \in Runs |-> 2]

Goto(r, from, to) == pc[r] = from /\ pc' = [pc EXCEPT ![r] = to]

\* What the process knew ends with it.
Forget(r) ==
  /\ candidate' = [candidate EXCEPT ![r] = 0]
  /\ retried' = [retried EXCEPT ![r] = FALSE]
  /\ attempts' = [attempts EXCEPT ![r] = 0]
  /\ valid' = [valid EXCEPT ![r] = FALSE]

\* Leave _review with an exit code; the finally clause releases the locks.
Leave(r, from, code) ==
  /\ Goto(r, from, "release")
  /\ exit' = [exit EXCEPT ![r] = code]

-----------------------------------------------------------------------------
(* The locks *)

\* _refuse_outputs: the two outputs are one file, or a name is not usable.
Refuse(r) ==
  /\ Goto(r, "start", "done")
  /\ UNCHANGED <<locks, stuck, files, taken, round, exit>>

Begin(r) ==
  /\ OutOf[r] # LogOf[r]
  /\ Goto(r, "start", "locking")
  /\ UNCHANGED <<locks, stuck, files, taken, round, exit>>

\* Mutant: the lock of --out comes first, whatever its name.
OutFirst(r, f) ==
  /\ f \in Outputs(r) \ taken[r]
  /\ OutOf[r] \in Files \ taken[r] => f = OutOf[r]

\* The next lock in sorted order.
IsNext(r, f) ==
  /\ f \in Outputs(r) \ taken[r]
  /\ \A g \in Outputs(r) \ taken[r] : f <= g

\* The lock is the run's own from the moment it exists; with the last one the
\* review begins.
Own(r, f) ==
  /\ locks' = [locks EXCEPT ![f] = r]
  /\ taken' = [taken EXCEPT ![r] = @ \cup {f}]
  /\ IF taken'[r] = Outputs(r) THEN Goto(r, "locking", "clear") ELSE UNCHANGED pc

\* Mutant: a lock that exists is overwritten.
LockRegardless(r) ==
  /\ pc[r] = "locking"
  /\ \E f \in Files : IsNext(r, f) /\ Own(r, f)
  /\ UNCHANGED <<stuck, files, round, exit>>

\* Mutant: the review begins with the first lock.
LockOne(r) ==
  /\ \E f \in Files :
       /\ IsNext(r, f) /\ locks[f] = NoRun
       /\ locks' = [locks EXCEPT ![f] = r]
       /\ taken' = [taken EXCEPT ![r] = @ \cup {f}]
  /\ Goto(r, "locking", "clear")
  /\ UNCHANGED <<stuck, files, round, exit>>

\* O_CREAT | O_EXCL
Lock(r) ==
  /\ pc[r] = "locking"
  /\ \E f \in Files : IsNext(r, f) /\ locks[f] = NoRun /\ Own(r, f)
  /\ UNCHANGED <<stuck, files, round, exit>>

\* The lock cannot be created, or not written once it has been.
LockFails(r) ==
  /\ \E f \in Files :
       /\ IsNext(r, f) /\ locks[f] = NoRun
       /\ \/ UNCHANGED <<locks, taken>>
          \/ /\ locks' = [locks EXCEPT ![f] = r]
             /\ taken' = [taken EXCEPT ![r] = @ \cup {f}]
  /\ Leave(r, "locking", 2)
  /\ UNCHANGED <<stuck, files, round>>

\* Mutant: the run waits for the lock.
WaitForLock(r) == FALSE

\* The lock exists: OutputBusy, without waiting.
Busy(r) ==
  /\ \E f \in Files : IsNext(r, f) /\ locks[f] # NoRun
  /\ Goto(r, "locking", "backOut")
  /\ UNCHANGED <<locks, stuck, files, taken, round, exit>>

\* _release_locks, one unlink after the other.  One that fails is reported and
\* leaves its lock behind; a lock that is gone is let pass.
Unlock(r, from, to) ==
  \/ /\ taken[r] = {}
     /\ Goto(r, from, to)
     /\ Forget(r)
     /\ UNCHANGED <<locks, stuck, taken>>
  \/ /\ pc[r] = from
     /\ \E f \in taken[r] :
          /\ \A g \in taken[r] : f <= g
          /\ taken' = [taken EXCEPT ![r] = @ \ {f}]
          /\ \/ locks' = [locks EXCEPT ![f] = NoRun] /\ UNCHANGED stuck
             \/ stuck' = TRUE /\ UNCHANGED locks
     /\ UNCHANGED <<pc, round>>

BackOut(r) == Unlock(r, "backOut", "busy") /\ UNCHANGED <<files, exit>>
Release(r) == Unlock(r, "release", "done") /\ UNCHANGED <<files, exit>>

-----------------------------------------------------------------------------
(* The review *)

\* Mutant: the old verdict stays until there is a new one.
KeepOld(r) ==
  /\ Goto(r, "clear", "choose")
  /\ UNCHANGED <<locks, stuck, files, taken, round, exit>>

\* The verdict of an earlier round goes before anything can fail.
Clear(r) ==
  /\ Goto(r, "clear", "choose")
  /\ verdict' = IF OutOf[r] = NoFile THEN verdict ELSE [verdict EXCEPT ![OutOf[r]] = NoRun]
  /\ UNCHANGED <<locks, stuck, log, taken, round, exit>>

\* How many reviewers a run turns to: the chain, or the first.
Turns == IF Chain \/ Candidates = 0 THEN Candidates ELSE 1

\* The next reviewer.  A profile that is not complete is passed over in a
\* chain and ends the run otherwise; so does the end of the chain.
Choose(r) ==
  /\ UNCHANGED <<locks, stuck, files, taken, valid>>
  /\ \/ /\ candidate[r] < Turns
        /\ candidate' = [candidate EXCEPT ![r] = @ + 1]
        /\ retried' = [retried EXCEPT ![r] = FALSE]
        /\ attempts' = [attempts EXCEPT ![r] = 2]
        /\ \/ Goto(r, "choose", "preflight") /\ UNCHANGED exit
           \/ Chain /\ pc[r] = "choose" /\ UNCHANGED <<pc, exit>>
           \/ ~Chain /\ Leave(r, "choose", 2)
     \/ /\ candidate[r] = Turns
        /\ Leave(r, "choose", 2)
        /\ UNCHANGED <<candidate, retried, attempts>>

\* preflight; in a chain an unreachable reviewer gets one more.
Preflight(r) ==
  /\ UNCHANGED <<locks, stuck, files, taken, candidate, attempts, valid>>
  /\ \/ Goto(r, "preflight", "request") /\ UNCHANGED <<retried, exit>>
     \/ Goto(r, "preflight", "choose") /\ UNCHANGED <<retried, exit>>
     \/ /\ Chain /\ ~retried[r] /\ pc[r] = "preflight"
        /\ retried' = [retried EXCEPT ![r] = TRUE]
        /\ UNCHANGED <<pc, exit>>

\* Mutant: the attempt that is being made is not counted.
MayRetryOnceMore(r) == attempts[r] > 0

MayRetry(r) == attempts[r] > 1

\* run_review: a reply, a terminal error, or a transient one that is retried
\* once with the same reviewer.
Request(r) ==
  /\ UNCHANGED <<locks, stuck, files, taken, candidate, retried, exit>>
  /\ attempts' = [attempts EXCEPT ![r] = @ - 1]
  /\ \/ Goto(r, "request", "stage") /\ \E v \in BOOLEAN : valid' = [valid EXCEPT ![r] = v]
     \/ Goto(r, "request", "choose") /\ UNCHANGED valid
     \/ MayRetry(r) /\ pc[r] = "request" /\ UNCHANGED <<pc, valid>>

\* write_atomically: into a file of the run's own making, or nothing at all.
Stage(r) ==
  /\ \/ OutOf[r] # NoFile /\ Goto(r, "stage", "publish") /\ UNCHANGED exit
     \/ OutOf[r] = NoFile /\ Goto(r, "stage", "open") /\ UNCHANGED exit
     \/ OutOf[r] # NoFile /\ Leave(r, "stage", 2)
  /\ UNCHANGED <<locks, stuck, files, taken, round>>

\* ... and the rename.
Publish(r) ==
  /\ \/ Goto(r, "publish", "open") /\ verdict' = [verdict EXCEPT ![OutOf[r]] = r] /\ UNCHANGED exit
     \/ Leave(r, "publish", 2) /\ UNCHANGED verdict
  /\ UNCHANGED <<locks, stuck, log, taken, round>>

\* _open_append refuses a log that has become unsafe to write through.
OpenLog(r) ==
  /\ \/ Goto(r, "open", "head") /\ UNCHANGED exit
     \/ Leave(r, "open", 2)
  /\ UNCHANGED <<locks, stuck, files, taken, round>>

Entry(r, part) == log' = [log EXCEPT ![LogOf[r]] = Append(@, <<r, part>>)]

\* Mutant: the entry counts as written before it is.
AppendHeadOnly(r) ==
  /\ Leave(r, "head", IF valid[r] THEN 0 ELSE 3)
  /\ Entry(r, "head")
  /\ UNCHANGED <<locks, stuck, verdict, taken, round>>

\* The entry reaches the log in pieces.
AppendHead(r) ==
  /\ Goto(r, "head", "tail")
  /\ Entry(r, "head")
  /\ UNCHANGED <<locks, stuck, verdict, taken, round, exit>>

AppendTail(r) ==
  /\ Leave(r, "tail", IF valid[r] THEN 0 ELSE 3)
  /\ Entry(r, "tail")
  /\ UNCHANGED <<locks, stuck, verdict, taken, round>>

\* An exception leaves _review: a failed unlink or write, Ctrl-C.
Fails(r) ==
  /\ pc[r] \in Holding
  /\ Leave(r, pc[r], 1)
  /\ UNCHANGED <<locks, stuck, files, taken, round>>

Review(r) ==
  \/ Clear(r) \/ Choose(r) \/ Preflight(r) \/ Request(r) \/ Stage(r) \/ Publish(r)
  \/ OpenLog(r) \/ AppendHead(r) \/ AppendTail(r) \/ Fails(r)

-----------------------------------------------------------------------------
(* The world around *)

\* The process is killed, or Ctrl-C reaches _acquire_locks or _release_locks.
Crash(r) ==
  /\ pc[r] \notin Over
  /\ pc' = [pc EXCEPT ![r] = "crashed"]
  /\ taken' = [taken EXCEPT ![r] = {}]
  /\ Forget(r)
  /\ UNCHANGED <<locks, stuck, files, exit>>

\* "If no run is active the lock is left over from a crash -- check, then
\* delete it by hand."
ByHand(f) ==
  /\ locks[f] \in Runs
  /\ pc[locks[f]] \in Over
  /\ locks' = [locks EXCEPT ![f] = NoRun]
  /\ UNCHANGED <<stuck, files, pc, taken, round, exit>>

Step(r) == Refuse(r) \/ Begin(r) \/ Lock(r) \/ LockFails(r) \/ Busy(r) \/ BackOut(r) \/ Release(r) \/ Review(r)

Next ==
  \/ \E r \in Runs : Step(r) \/ Crash(r)
  \/ \E f \in Files : ByHand(f)

Spec == Init /\ [][Next]_vars

\* A process that is not killed goes on: each of its requests has a timeout.
FairSpec == Spec /\ \A r \in Runs : WF_vars(Step(r))

-----------------------------------------------------------------------------
(* Properties *)

\* Two runs that touch their outputs at the same time share none of them.
OneWriter ==
  \A r, s \in Runs :
    r # s /\ pc[r] \in Holding /\ pc[s] \in Holding => Outputs(r) \cap Outputs(s) = {}

\* A run that has the locks and has removed the old verdict finds at --out
\* its own verdict or none: no failure leaves the verdict of another round.
NoStaleVerdict ==
  \A r \in Runs :
    pc[r] \in Holding \ {"clear"} /\ OutOf[r] # NoFile => verdict[OutOf[r]] \in {r, NoRun}

\* The pieces of an entry stand next to each other in the log, also when
\* several runs append to it and some of them crash in the middle.
WholeEntries ==
  \A f \in Files : \A n \in DOMAIN log[f] :
    log[f][n][2] = "tail" => n > 1 /\ log[f][n - 1] = <<log[f][n][1], "head">>

\* The exit code of a run tells whether the review log holds its round.
ExitMeansRecorded ==
  \A r \in Runs :
    pc[r] = "done" =>
      (exit[r] \in {0, 3} <=> \E n \in DOMAIN log[LogOf[r]] : log[LogOf[r]][n] = <<r, "tail">>)

\* Runs that compete are not all turned away: the sorted order lets one in,
\* unless the lock of one that was turned away could not be removed.
SomeoneGetsIn ==
  (Runs # {} /\ \A r \in Runs : pc[r] = "busy") => stuck

\* A run never waits for another: it comes to an end, whatever locks exist.
EveryRunEnds == \A r \in Runs : <>(pc[r] \in Over)

\* The locks, taken one by one, implement ownership of all outputs at once.
Owns(r) == pc[r] \in Holding \cup {"release"} /\ taken[r] = Outputs(r)

Owner == [f \in Files |->
            IF \E r \in Runs : Owns(r) /\ f \in Outputs(r)
            THEN CHOOSE r \in Runs : Owns(r) /\ f \in Outputs(r)
            ELSE NoRun]

Exclusive == INSTANCE ExclusiveOutputs WITH owner <- Owner

OwnsOutputs == Exclusive!Spec
=============================================================================
