------------------------------- MODULE CodexRun -------------------------------
(* src/scripts/codex_ro.py: calls of the wrapper that may name each other's     *)
(* files, from the refusals to the exit code, with the Codex each one starts.   *)
(* Codex runs in a session of its own: it outlives a wrapper that is killed or  *)
(* interrupted, and a kill that fails. The directory of all files may be        *)
(* missing. A file is the set of calls that have written it.                    *)
EXTENDS Naturals, FiniteSets, FiniteSetsExt

CONSTANTS
  Wrapper, Free,
  Names           \* what --out-file and --err-file may name, 1..Names; the
                  \* stream that belongs to the answer o is Names + o

VARIABLES
  pc, exit, mine, \* a call: its step, its exit code, its targets and what it holds
  child,          \* its Codex
  dir,            \* the directory of the outputs: "missing" or "there"
  file,           \* the outputs, and
  lock            \* who created the lock beside each of them, or Free

vars == <<pc, exit, mine, child, dir, file, lock>>

Path    == 1..(2 * Names)
Absent  == {}
Past    == Free       \* a call of the past
Blank   == [out |-> 0, err |-> 0, made |-> FALSE, taken |-> {}]

Stream(w)  == Names + mine[w].out
Targets(w) == {mine[w].out, mine[w].err, Stream(w)}

\* An empty file is one nobody wrote; it is told from one that is not there
\* where that matters, at the answer.
Init ==
  /\ pc = [w \in Wrapper |-> "start"]
  /\ exit = [w \in Wrapper |-> "none"]
  /\ mine = [w \in Wrapper |-> Blank]
  /\ child = [w \in Wrapper |-> "none"]
  /\ lock = [p \in Path |-> Free]
  /\ \/ dir = "missing" /\ file = [p \in Path |-> Absent]
     \/ dir = "there" /\ file = [p \in Path |-> {Past}]

Goto(w, l)   == pc' = [pc EXCEPT ![w] = l]
End(w, code) == Goto(w, "end") /\ exit' = [exit EXCEPT ![w] = code]

\* An exit inside the locked region passes through its finally clause.
Leave(w, code) == Goto(w, "release") /\ exit' = [exit EXCEPT ![w] = code]

-----------------------------------------------------------------------------
(* Before the locks *)

\* The overrides, the model, the thread id, the directory, a project config.
CheckArguments(w) ==
  /\ pc[w] = "start"
  /\ \/ Goto(w, "paths") /\ UNCHANGED exit
     \/ End(w, "refused")
  /\ UNCHANGED <<mine, child, dir, file, lock>>

\* The files inside the roots, the prompt, the binary.
ResolvePaths(w) ==
  /\ pc[w] = "paths"
  /\ \/ \E o, e \in 1..Names :
          mine' = [mine EXCEPT ![w].out = o, ![w].err = e] /\ Goto(w, "probe") /\ UNCHANGED exit
     \/ \E code \in {"refused", "no_codex"} : End(w, code) /\ UNCHANGED mine
  /\ UNCHANGED <<child, dir, file, lock>>

\* A probe that hangs is killed, one that says too much is not believed.
ProbeCliVersion == {"none", "old", "new"}
MayRun(minimum, version) == minimum => version = "new"

CheckModelCli(w) ==
  /\ pc[w] = "probe"
  /\ \E minimum \in BOOLEAN, version \in ProbeCliVersion :
       IF MayRun(minimum, version) /\ Cardinality(Targets(w)) = 3
       THEN Goto(w, "prepare") /\ UNCHANGED exit
       ELSE End(w, "refused")
  /\ UNCHANGED <<mine, child, dir, file, lock>>

\* Every target is a plain file or absent; the directory is made if it is not there.
PrepareTargets(w) ==
  /\ pc[w] = "prepare"
  /\ \/ /\ dir' = "there"
        /\ mine' = [mine EXCEPT ![w].made = dir = "missing"]
        /\ Goto(w, "lock")
     \/ Goto(w, "remove") /\ UNCHANGED <<dir, mine>>
  /\ UNCHANGED <<exit, child, file, lock>>

\* Mutant: only the answer is locked.
LockAnswer(w) == {mine[w].out} \ mine[w].taken

Missing(w) == Targets(w) \ mine[w].taken

\* The locks in their order. An exception that is no refusal (the lock exists,
\* its content cannot be written) passes every clause that would return them.
AcquireNext(w) ==
  /\ pc[w] = "lock" /\ Missing(w) # {}
  /\ LET p == Min(Missing(w))
     IN  \/ /\ dir = "there" /\ lock[p] = Free
            /\ lock' = [lock EXCEPT ![p] = w]
            /\ \/ mine' = [mine EXCEPT ![w].taken = @ \cup {p}] /\ UNCHANGED <<pc, exit>>
               \/ End(w, "traceback") /\ UNCHANGED mine
         \/ Goto(w, "return") /\ UNCHANGED <<lock, mine, exit>>
  /\ UNCHANGED <<child, dir, file>>

Acquired(w) ==
  /\ pc[w] = "lock" /\ Missing(w) = {}
  /\ Goto(w, "clear")
  /\ UNCHANGED <<exit, mine, child, dir, file, lock>>

\* release_locks. The removal of a lock, which the code reports when it fails,
\* does not fail here.
ReleaseNext(w) ==
  /\ pc[w] \in {"return", "release"}
  /\ \E p \in mine[w].taken :
       /\ lock' = [lock EXCEPT ![p] = Free]
       /\ mine' = [mine EXCEPT ![w].taken = @ \ {p}]
  /\ UNCHANGED <<pc, exit, child, dir, file>>

\* What a refused call made goes again, if nothing is in it; an output that was
\* opened and left empty may be.
RemoveMade(w) ==
  /\ \/ pc[w] = "remove"
     \/ pc[w] = "return" /\ mine[w].taken = {}
  /\ End(w, "refused")
  /\ \/ UNCHANGED dir
     \/ /\ mine[w].made /\ \A p \in Path : file[p] = Absent /\ lock[p] = Free
        /\ dir' = "missing"
  /\ UNCHANGED <<mine, child, file, lock>>

-----------------------------------------------------------------------------
(* Under the locks *)

ClearAnswer(w) ==
  /\ pc[w] = "clear"
  /\ \/ file' = [file EXCEPT ![mine[w].out] = Absent] /\ Goto(w, "open") /\ UNCHANGED exit
     \/ Leave(w, "refused") /\ UNCHANGED file
  /\ UNCHANGED <<mine, child, dir, lock>>

\* The stream, then the error file: each is emptied, or cannot be opened.
OpenForWrite(w) ==
  /\ pc[w] \in {"open", "open_err"}
  /\ LET p == IF pc[w] = "open" THEN Stream(w) ELSE mine[w].err
     IN  \/ /\ file' = [file EXCEPT ![p] = Absent]
            /\ Goto(w, IF pc[w] = "open" THEN "open_err" ELSE "popen") /\ UNCHANGED exit
         \/ Leave(w, "refused") /\ UNCHANGED file
  /\ UNCHANGED <<mine, child, dir, lock>>

Popen(w) ==
  /\ pc[w] = "popen"
  /\ \/ child' = [child EXCEPT ![w] = "alive"] /\ Goto(w, "communicate") /\ UNCHANGED exit
     \/ Leave(w, "no_codex") /\ UNCHANGED child
  /\ UNCHANGED <<mine, dir, file, lock>>

CommunicateReturns(w) ==
  /\ pc[w] = "communicate" /\ child[w] = "ended"
  /\ Goto(w, "applied")
  /\ UNCHANGED <<exit, mine, child, dir, file, lock>>

\* The kill ends the child, or nothing does within the grace.
TimesOut(w) ==
  /\ pc[w] = "communicate"
  /\ child' \in {[child EXCEPT ![w] = c] : c \in {"ended", child[w]}}
  /\ Leave(w, "timeout")
  /\ UNCHANGED <<mine, dir, file, lock>>

\* An unsafe turn wins over all that follows.
ReportApplied(w) ==
  /\ pc[w] = "applied"
  /\ \/ Goto(w, "blind") /\ UNCHANGED exit
     \/ Leave(w, "unsafe")
  /\ UNCHANGED <<mine, child, dir, file, lock>>

JudgeBlind(w) ==
  /\ pc[w] = "blind"
  /\ \/ Goto(w, "answer") /\ UNCHANGED exit
     \/ Leave(w, "blind")
  /\ UNCHANGED <<mine, child, dir, file, lock>>

\* A code of Codex other than 0 is passed on with an answer and without one.
ReportAnswer(w) ==
  /\ pc[w] = "answer"
  /\ \/ Leave(w, "codex")
     \/ Leave(w, IF file[mine[w].out] # {} THEN "0" ELSE "empty")
  /\ UNCHANGED <<mine, child, dir, file, lock>>

Released(w) ==
  /\ pc[w] = "release" /\ mine[w].taken = {}
  /\ Goto(w, "end")
  /\ UNCHANGED <<exit, mine, child, dir, file, lock>>

Step(w) ==
  \/ CheckArguments(w) \/ ResolvePaths(w) \/ CheckModelCli(w) \/ PrepareTargets(w)
  \/ AcquireNext(w) \/ Acquired(w) \/ ReleaseNext(w) \/ RemoveMade(w) \/ ClearAnswer(w)
  \/ OpenForWrite(w) \/ Popen(w) \/ CommunicateReturns(w) \/ TimesOut(w)
  \/ ReportApplied(w) \/ JudgeBlind(w) \/ ReportAnswer(w) \/ Released(w)

-----------------------------------------------------------------------------
(* Codex, the ways a wrapper is stopped from outside, and a person *)

\* The open handles write the stream and stderr, the name in -o the answer.
Write(w) ==
  /\ child[w] = "alive" /\ dir = "there"
  /\ \/ file' = [file EXCEPT ![mine[w].out] = {w}]
     \/ file' = [file EXCEPT ![Stream(w)] = @ \cup {w}, ![mine[w].err] = @ \cup {w}]
  /\ UNCHANGED <<pc, exit, mine, child, dir, lock>>

CodexEnds(w) ==
  /\ child[w] = "alive"
  /\ child' = [child EXCEPT ![w] = "ended"]
  /\ UNCHANGED <<pc, exit, mine, dir, file, lock>>

\* Ctrl-C while it waits for Codex, which does not get the signal.
Interrupt(w) ==
  /\ pc[w] = "communicate"
  /\ Leave(w, "interrupted")
  /\ UNCHANGED <<mine, child, dir, file, lock>>

Crash(w) ==
  /\ pc[w] \notin {"start", "end"}
  /\ End(w, "killed")
  /\ UNCHANGED <<mine, child, dir, file, lock>>

\* "If no run is active, the lock is left over from a crash: delete it by hand."
FreeLock(w) ==
  /\ pc[w] = "end" /\ child[w] # "alive"
  /\ \E p \in Path : lock[p] = w /\ lock' = [lock EXCEPT ![p] = Free]
  /\ UNCHANGED <<pc, exit, mine, child, dir, file>>

Next == \E w \in Wrapper : Step(w) \/ Write(w) \/ CodexEnds(w) \/ Interrupt(w) \/ Crash(w) \/ FreeLock(w)

Spec == Init /\ [][Next]_vars

-----------------------------------------------------------------------------
Running == {"clear", "open", "open_err", "popen", "communicate", "applied", "blind", "answer", "release"}

TypeOK ==
  /\ \A w \in Wrapper : mine[w].taken \subseteq Targets(w)
  /\ \A w \in Wrapper : pc[w] \in Running \ {"release"} => mine[w].taken = Targets(w)
  /\ \A p \in Path : lock[p] \in Wrapper \cup {Free} /\ file[p] \subseteq Wrapper \cup {Past}

\* A call judges, and reports as its answer, only what its own Codex wrote: no
\* answer of an earlier round, no line of another call that names the same file
\* in another role -- unless the Codex of a call that is over still runs, which
\* the locks cannot see (codex_ro.py:2200, 2484).
AnswerIsOwn ==
  \A w \in Wrapper : pc[w] \in {"applied", "blind", "answer"} =>
    \/ \A p \in Targets(w) : file[p] \subseteq {w}
    \/ \E v \in Wrapper \ {w} : child[v] # "none" /\ exit[v] \in {"timeout", "interrupted", "killed"}

\* "No filesystem failure escapes as a traceback: every path this wrapper opens,
\* reads, deletes or creates reports through the codes above instead", and a call
\* that nobody killed leaves no lock: but one that was created and could not be
\* written stays, with those taken before it (codex_ro.py:2230).
NoTraceback ==
  \A w \in Wrapper : pc[w] = "end" /\ exit[w] # "killed" =>
    exit[w] # "traceback" /\ \A p \in Path : lock[p] # w
=============================================================================
