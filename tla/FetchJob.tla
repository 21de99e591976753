------------------------------ MODULE FetchJob --------------------------------
(* One download of wheels: fetch_deps of src/scripts/sandbox_run.py, and with  *)
(* it run_job of src/scripts/sandbox_fetch.py, the worker process it starts,   *)
(* and what both leave in the job directory. The worker may survive its kill;  *)
(* an interrupt may come at any step, and somebody may change a file between   *)
(* two looks at it. An interrupt inside Popen is the risk the source accepts.  *)
EXTENDS Naturals, FiniteSets

CONSTANTS
  N,              \* the requirements are 1..N
  MaxFile, MaxTotal,      \* the caps of the policy, in blocks
  MaxSignals, MaxEdits,   \* interrupts and foreign writes in one behaviour
  Attempts        \* CONFIRM_ATTEMPTS

VARIABLES
  pc, exc,        \* the parent, and the exception it is handling
  worker, reaped, \* the worker, and whether its parent knows it ended
  wpc, k, used,   \* the worker's step, requirement and bytes
  file, result,   \* the job directory: the wheels, worker-result.json
  dir,            \* "there", "gone", or "retained": rmtree failed
  deferred, tries,        \* the interrupts recorded in _terminate, its attempts
  record,         \* the quarantine record on disk
  fields,         \* "none", or what the manifest will say of the directory
  checked, tar,   \* what verify_download found, what went into the tar
  signals, edits

worked == <<worker, wpc, k, used, file, result>>
parent == <<pc, exc, reaped, dir, deferred, tries, record, fields, checked, tar>>
vars   == <<worked, parent, signals, edits>>

Req == 1..N
NoFile == [size |-> 0, pinned |-> FALSE, there |-> FALSE]
Wheels == [size : 1..(MaxFile + 1), pinned : BOOLEAN, there : {TRUE}]

Init ==
  /\ pc = "prepare" /\ exc = "none"
  /\ worker = "none" /\ reaped = FALSE
  /\ wpc = "index" /\ k = 1 /\ used = 0
  /\ file = [r \in Req |-> NoFile] /\ result = "none"
  /\ dir = "there"
  /\ deferred = FALSE /\ tries = 0 /\ record = FALSE /\ fields = "none"
  /\ checked = file /\ tar = {}
  /\ signals = 0 /\ edits = 0

-----------------------------------------------------------------------------
(* The worker *)

Answer(kind) == result' = kind /\ wpc' = "exit" /\ UNCHANGED <<k, used, file>>

\* The index of one project, the choice of its wheel, and the two caps.
Select ==
  /\ wpc = "index"
  /\ \/ k <= N /\ used < MaxTotal /\ wpc' = "load" /\ UNCHANGED <<k, used, file, result>>
     \/ k <= N /\ used >= MaxTotal /\ Answer("refused")
     \/ k <= N /\ (Answer("refused") \/ Answer("infrastructure"))
     \/ k > N /\ Answer("ok")

SmallerOf(a, b) == IF a <= b THEN a ELSE b

\* A body is never written beyond its cap; one that is over it, or has another
\* hash, is removed again.
Download ==
  /\ wpc = "load"
  /\ \/ \E w \in Wheels :
          IF w.size <= SmallerOf(MaxFile, MaxTotal - used) /\ w.pinned
          THEN /\ file' = [file EXCEPT ![k] = w]
               /\ used' = used + w.size /\ k' = k + 1 /\ wpc' = "index"
               /\ UNCHANGED result
          ELSE Answer("refused")
     \/ Answer("infrastructure")

\* The result is on disk once the worker ends by itself, unless it cannot be
\* written. A worker that dies leaves none.
WorkerExits ==
  /\ worker' = "dead" /\ result' \in {"none"} \cup (IF wpc = "exit" THEN {result} ELSE {})
  /\ UNCHANGED <<wpc, k, used, file>>

Worker ==
  /\ worker = "alive"
  /\ \/ dir = "there" /\ (Select \/ Download) /\ UNCHANGED worker
     \/ WorkerExits
  /\ UNCHANGED <<parent, signals, edits>>

\* Another program of the host.
Edit ==
  /\ edits < MaxEdits /\ dir = "there"
  /\ edits' = edits + 1
  /\ \E r \in Req, w \in Wheels \cup {NoFile} : file' = [file EXCEPT ![r] = w]
  /\ UNCHANGED <<worker, wpc, k, used, result, parent, signals>>

-----------------------------------------------------------------------------
(* run_job *)

Goto(l) == pc' = l
Raise(e) == exc' = e /\ Goto("cleanup")

\* Whatever goes wrong while the worker may live kills it first.
RaiseWithWorker(e) ==
  /\ exc' = e
  /\ Goto(IF worker # "none" /\ ~reaped THEN "kill" ELSE "cleanup")

Prepare ==
  /\ pc = "prepare"
  /\ \/ Raise("infrastructure") \/ (Goto("popen") /\ UNCHANGED exc)
  /\ UNCHANGED <<worked, reaped, dir, deferred, tries, record, fields, checked, tar>>

Popen ==
  /\ pc = "popen"
  /\ \/ worker' = "alive" /\ Goto("close") /\ UNCHANGED exc
     \/ Raise("infrastructure") /\ UNCHANGED worker
  /\ UNCHANGED <<wpc, k, used, file, result, reaped, dir, deferred, tries, record, fields, checked, tar>>

CloseBoth ==
  /\ pc = "close"
  /\ \/ RaiseWithWorker("infrastructure") \/ (Goto("wait") /\ UNCHANGED exc)
  /\ UNCHANGED <<worked, reaped, dir, deferred, tries, record, fields, checked, tar>>

\* The end of the worker, or the deadline.
WaitDeadline ==
  /\ pc = "wait"
  /\ \/ /\ worker = "dead" /\ reaped' = TRUE
        /\ \/ result # "none" /\ Goto("read") /\ UNCHANGED exc
           \/ result = "none" /\ Raise("infrastructure")
     \/ RaiseWithWorker("infrastructure") /\ UNCHANGED reaped
  /\ UNCHANGED <<worked, dir, deferred, tries, record, fields, checked, tar>>

ReadResult ==
  /\ pc = "read"
  /\ \/ result = "ok" /\ Goto("verify") /\ UNCHANGED exc
     \/ result = "refused" /\ Raise("refused")
     \/ Raise("infrastructure")
  /\ UNCHANGED <<worked, reaped, dir, deferred, tries, record, fields, checked, tar>>

\* The kill and the wait after it. Any exception but an interrupt leaves the
\* death unconfirmed; an interrupt in here is tried once more.
Confirm ==
  /\ pc = "kill"
  /\ \/ worker' = "dead" /\ reaped' = TRUE /\ Goto("killed") /\ UNCHANGED <<tries, deferred>>
     \/ worker' \in {worker, "dead"} /\ Goto("record") /\ UNCHANGED <<reaped, tries, deferred>>
     \/ /\ deferred' = TRUE /\ tries' = tries + 1 /\ worker' \in {worker, "dead"}
        /\ Goto(IF tries + 1 < Attempts THEN "kill" ELSE "record")
        /\ UNCHANGED reaped
  /\ UNCHANGED <<wpc, k, used, file, result, exc, dir, record, fields, checked, tar>>

Killed ==
  /\ pc = "killed"
  /\ exc' = (IF deferred THEN "interrupt" ELSE exc) /\ Goto("cleanup")
  /\ UNCHANGED <<worked, reaped, dir, deferred, tries, record, fields, checked, tar>>

\* The record is best effort, the exception is not.
Quarantine ==
  /\ pc = "record"
  /\ record' \in BOOLEAN
  /\ exc' = "unconfirmed" /\ Goto("cleanup")
  /\ UNCHANGED <<worked, reaped, dir, deferred, tries, fields, checked, tar>>

-----------------------------------------------------------------------------
(* fetch_deps *)

Total(S) == LET add[r \in 0..N] == IF r = 0 THEN 0 ELSE add[r - 1] + (IF r \in S THEN file[r].size ELSE 0)
            IN  add[N]

\* Every file of the job once, and no other; its size and its hash are computed
\* anew.
Verify ==
  /\ pc = "verify"
  /\ IF \A r \in Req : file[r].there /\ file[r].pinned /\ file[r].size <= MaxFile
     THEN IF Total(Req) <= MaxTotal
          THEN checked' = [r \in Req |-> file[r]] /\ Goto("tar") /\ UNCHANGED exc
          ELSE Raise("refused") /\ UNCHANGED checked
     ELSE (Raise("refused") \/ Raise("infrastructure")) /\ UNCHANGED checked
  /\ UNCHANGED <<worked, reaped, dir, deferred, tries, record, fields, tar>>

\* Each wheel is read once more and compared with what was verified.
Reread(r) == file[r] = checked[r]

AddToTar ==
  /\ pc = "tar"
  /\ LET r == Cardinality(tar) + 1
     IN  IF r > N THEN Goto("remove") /\ UNCHANGED <<exc, tar>>
         ELSE IF Reread(r) THEN tar' = tar \cup {<<r, file[r]>>} /\ UNCHANGED <<pc, exc>>
         ELSE Raise("infrastructure") /\ UNCHANGED tar
  /\ UNCHANGED <<worked, reaped, dir, deferred, tries, record, fields, checked>>

\* Mutant: the directory goes on every way out.
CleanUpAlways ==
  /\ pc \in {"cleanup", "remove"}
  /\ dir' = "gone" /\ Goto("done")
  /\ UNCHANGED <<worked, exc, reaped, deferred, tries, record, fields, checked, tar>>

\* The directory goes on every way out but one: it may hold a worker at work.
CleanUp ==
  /\ pc \in {"cleanup", "remove"}
  /\ IF exc = "unconfirmed"
     THEN fields' = "quarantine" /\ UNCHANGED <<dir, exc>>
     ELSE \/ dir' = "gone" /\ UNCHANGED <<fields, exc>>
          \/ /\ dir' = "retained" /\ fields' = "retained"
             /\ exc' = IF exc = "interrupt" THEN exc ELSE "infrastructure"
  /\ Goto("done")
  /\ UNCHANGED <<worked, reaped, deferred, tries, record, checked, tar>>

-----------------------------------------------------------------------------
\* KeyboardInterrupt between two steps: recorded in _terminate, raised elsewhere.
Interrupt ==
  /\ signals < MaxSignals
  /\ \/ /\ pc \in {"kill", "record"}
        /\ deferred' = TRUE /\ UNCHANGED <<pc, exc>>
     \/ /\ pc \in {"prepare", "popen", "close", "wait", "read", "verify", "tar"}
        /\ RaiseWithWorker("interrupt") /\ UNCHANGED deferred
     \/ pc = "remove" /\ Goto("done") /\ exc' = "interrupt" /\ UNCHANGED deferred
     \/ pc = "cleanup" /\ exc # "unconfirmed" /\ Goto("done") /\ exc' = "interrupt" /\ UNCHANGED deferred
  /\ UNCHANGED <<worked, reaped, dir, tries, record, fields, checked, tar>>

Parent ==
  \/ (Prepare \/ Popen \/ CloseBoth \/ WaitDeadline \/ ReadResult \/ Killed \/ Quarantine
      \/ Verify \/ AddToTar \/ CleanUp \/ Confirm) /\ UNCHANGED <<signals, edits>>
  \/ Interrupt /\ signals' = signals + 1 /\ UNCHANGED edits

Next == Worker \/ Edit \/ Parent

-----------------------------------------------------------------------------
TypeOK ==
  /\ worker \in {"none", "alive", "dead"} /\ dir \in {"there", "gone", "retained"}
  /\ exc \in {"none", "refused", "infrastructure", "interrupt", "unconfirmed"}
  /\ k \in 1..(N + 1) /\ tries \in 0..Attempts
  /\ file \in [Req -> Wheels \cup {NoFile}]

\* The directory of a worker that may live is left in place and named, with
\* FetchUnconfirmed rather than any other outcome, whatever interrupts come
\* (sandbox_run.py:864); every other directory goes, or is named too.
QuarantineHolds ==
  /\ dir = "gone" => worker # "alive"
  /\ pc = "done" /\ worker = "alive" => exc = "unconfirmed" /\ fields = "quarantine"
  /\ pc = "done" /\ dir # "gone" /\ exc # "interrupt" => fields # "none"
  /\ record => pc # "done" \/ exc = "unconfirmed"

\* The tar holds one wheel for every requirement, each with a pinned hash and all
\* within the caps, although files change after they were verified.
TarIsPinned ==
  /\ used <= MaxTotal
  /\ pc = "done" /\ exc = "none" =>
       /\ dir = "gone" /\ Cardinality(tar) = N
       /\ \A t \in tar : t[2].pinned /\ t[2].size <= MaxFile
=============================================================================
