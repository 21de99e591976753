------------------------------ MODULE Host ------------------------------------
(* Programs of the host side by side: a behaviour belongs to one of the parts. *)
EXTENDS Integers, FiniteSets, Sequences

CONSTANTS
  Run, Build, Old, Net, Max, Timeout, MaxNow,
  N, MaxFile, MaxTotal, MaxSignals, MaxEdits, Attempts,
  None, NQ, Page, Vuln, Batch, MaxPages, MaxDetails, ResponseCap,
  Services, Budgets,      \* what a service may have, and the bytes allowed
  Proc, Free, Gen, File, Scopes, MaxClock,
  Wrapper, Names, MaxLines, Turn, MaxRecords,
  NRuns, MaxChanges,
  Ranges, Claims

VARIABLES
  part, pc,
  now, due, obj, late, sweep, why, note,                                \* HostRun
  exc, worker, reaped, wpc, used, result, deferred, tries, record,      \* FetchJob
  fields, checked, tar, signals, edits,
  service, osv, q, token, visited, got, results, details, left,         \* OsvJob
  gens, published,                                                      \* ReviewMirror
  child,                                                                \* CodexRun
  lines, ev,                                                            \* TurnEvidence
  log, contexts, marked,                                                \* RolloutBinding
  at, repo, changes, hunts,                                             \* HuntRun
  input, asked, dispatch, prompt, event,                                \* HuntVerdict
  exit, k, file, dir, lock, mine, verdict                               \* two of them

ASSUME MirrorAssumption ==
  Free \notin Proc \cup Gen /\ Scopes \subseteq SUBSET File /\ MaxClock \in Nat

\* What a build left behind is none of the runs' own containers.
ASSUME RunAssumption ==
  /\ Run \cap Old = {} /\ Net \subseteq Old
  /\ Max \in Nat /\ Timeout \in Nat /\ MaxNow \in Nat

\* A kill is confirmed in at least one attempt.
ASSUME FetchAssumption ==
  N \in Nat /\ MaxFile \in Nat /\ MaxTotal \in Nat /\ Attempts \in Nat \ {0}

\* The first page of query q is page q, and no token is None.
ASSUME OsvAssumption ==
  /\ NQ \in Nat /\ 1..NQ \subseteq Page /\ None \notin Page
  /\ ResponseCap \in Nat /\ Budgets \subseteq Nat
  /\ \A s \in Services, p \in Page :
       s[p].next \in Page \cup {None} /\ s[p].ids \subseteq Vuln /\ s[p].size \in Nat

\* Nobody holds a free lock.
ASSUME CodexAssumption == Free \notin Wrapper /\ Names \in Nat

\* None is no verdict on a context, and no dispatch.
ASSUME VerdictAssumption ==
  /\ None \notin {"confirmed", "unknown", "unsafe"}
  /\ None \notin [status : {"confirmed", "needs_validation"}, sent : SUBSET (File \X (1..2))]

\* A file of the repository is none of the outputs of a hunt, and None is no run.
ASSUME HuntAssumption ==
  NRuns \in Nat /\ File \cap ({"report", "ledger"} \X (1..NRuns)) = {} /\ None \notin 1..NRuns

\* What bounds a stream, a rollout and the changes of a repository is a number.
ASSUME BoundAssumption == MaxLines \in Nat /\ MaxRecords \in Nat /\ MaxChanges \in Nat

Runs   == INSTANCE HostRun
Fetch  == INSTANCE FetchJob
Osv    == INSTANCE OsvJob
Mirror == INSTANCE ReviewMirror
Codex  == INSTANCE CodexRun
Turns  == INSTANCE TurnEvidence
Rolls  == INSTANCE RolloutBinding
Hunts  == INSTANCE HuntRun WITH Cli <- Wrapper
Record == INSTANCE HuntVerdict

-----------------------------------------------------------------------------
runOnly    == <<now, due, obj, late, sweep, why, note>>
fetchOnly  == <<exc, worker, reaped, wpc, used, result, deferred, tries, record, fields,
                checked, tar, signals, edits>>
osvOnly    == <<service, osv, q, token, visited, got, results, details, left>>
mirrorOnly == <<gens, published>>
turnOnly   == <<lines, ev>>
rollOnly   == <<log, contexts, marked>>
huntOnly   == <<at, repo, changes, hunts>>
recordOnly == <<input, asked, dispatch, prompt, event>>

NoRun ==
  now = {} /\ due = {} /\ obj = {} /\ late = {} /\ sweep = {} /\ why = {} /\ note = {}
NoFetch ==
  /\ exc = {} /\ worker = {} /\ reaped = {} /\ wpc = {} /\ used = {} /\ result = {}
  /\ deferred = {} /\ tries = {} /\ record = {} /\ fields = {} /\ checked = {}
  /\ tar = {} /\ signals = {} /\ edits = {}
NoOsv ==
  /\ service = {} /\ osv = {} /\ q = {} /\ token = {} /\ visited = {} /\ got = {}
  /\ results = {} /\ details = {} /\ left = {}
NoMirror == gens = {} /\ published = {}
NoTurn   == lines = {} /\ ev = {}
NoRoll   == log = {} /\ contexts = {} /\ marked = {}
NoHunt   == at = {} /\ repo = {} /\ changes = {} /\ hunts = {}
NoRecord == input = {} /\ asked = {} /\ dispatch = {} /\ prompt = {} /\ event = {}
NoFiles  == file = {} /\ dir = {}
NoLocks  == lock = {} /\ mine = {}

Init ==
  \/ /\ part = "run" /\ Runs!Init
     /\ NoFetch /\ NoOsv /\ NoMirror /\ NoTurn /\ NoRoll /\ NoHunt /\ NoRecord
     /\ k = {} /\ NoFiles /\ NoLocks /\ verdict = {} /\ child = {}
  \/ /\ part = "fetch" /\ Fetch!Init
     /\ NoRun /\ NoOsv /\ NoMirror /\ NoTurn /\ NoRoll /\ NoHunt /\ NoRecord
     /\ exit = {} /\ NoLocks /\ verdict = {} /\ child = {}
  \/ /\ part = "osv" /\ Osv!InitWith(Services, Budgets)
     /\ NoRun /\ NoFetch /\ NoMirror /\ NoTurn /\ NoRoll /\ NoHunt /\ NoRecord
     /\ pc = {} /\ exit = {} /\ k = {} /\ NoFiles /\ NoLocks /\ verdict = {} /\ child = {}
  \/ /\ part = "mirror" /\ Mirror!Init
     /\ NoRun /\ NoFetch /\ NoOsv /\ NoTurn /\ NoRoll /\ NoHunt /\ NoRecord
     /\ exit = {} /\ k = {} /\ NoFiles /\ verdict = {} /\ child = {}
  \/ /\ part = "codex" /\ Codex!Init
     /\ NoRun /\ NoFetch /\ NoOsv /\ NoMirror /\ NoTurn /\ NoRoll /\ NoHunt /\ NoRecord
     /\ k = {} /\ verdict = {}
  \/ /\ part = "turn" /\ Turns!Init
     /\ NoRun /\ NoFetch /\ NoOsv /\ NoMirror /\ NoRoll /\ NoHunt /\ NoRecord
     /\ exit = {} /\ k = {} /\ NoFiles /\ NoLocks /\ child = {}
  \/ /\ part = "rollout" /\ Rolls!Init
     /\ NoRun /\ NoFetch /\ NoOsv /\ NoMirror /\ NoTurn /\ NoHunt /\ NoRecord
     /\ exit = {} /\ NoFiles /\ NoLocks /\ child = {}
  \/ /\ part = "hunt" /\ Hunts!Init
     /\ NoRun /\ NoFetch /\ NoOsv /\ NoMirror /\ NoTurn /\ NoRoll /\ NoRecord
     /\ exit = {} /\ k = {} /\ NoFiles /\ NoLocks /\ verdict = {} /\ child = {}
  \/ /\ part = "record" /\ Record!Init
     /\ NoRun /\ NoFetch /\ NoOsv /\ NoMirror /\ NoTurn /\ NoRoll /\ NoHunt
     /\ exit = {} /\ k = {} /\ NoFiles /\ NoLocks /\ verdict = {} /\ child = {}

Next ==
  \/ /\ part = "run" /\ Runs!Next
     /\ UNCHANGED <<part, huntOnly, recordOnly, fetchOnly, osvOnly, mirrorOnly, turnOnly, rollOnly, k, file, dir,
                    lock, mine, verdict, child>>
  \/ /\ part = "fetch" /\ Fetch!Next
     /\ UNCHANGED <<part, huntOnly, recordOnly, runOnly, osvOnly, mirrorOnly, turnOnly, rollOnly, exit, lock, mine,
                    verdict, child>>
  \/ /\ part = "osv" /\ Osv!Next
     /\ UNCHANGED <<part, huntOnly, recordOnly, runOnly, fetchOnly, mirrorOnly, turnOnly, rollOnly, pc, exit, k, file,
                    dir, lock, mine, verdict, child>>
  \/ /\ part = "mirror" /\ Mirror!Next
     /\ UNCHANGED <<part, huntOnly, recordOnly, runOnly, fetchOnly, osvOnly, turnOnly, rollOnly, exit, k, file, dir,
                    verdict, child>>
  \/ /\ part = "codex" /\ Codex!Next
     /\ UNCHANGED <<part, huntOnly, recordOnly, runOnly, fetchOnly, osvOnly, mirrorOnly, turnOnly, rollOnly, k, verdict>>
  \/ /\ part = "turn" /\ Turns!Next
     /\ UNCHANGED <<part, huntOnly, recordOnly, runOnly, fetchOnly, osvOnly, mirrorOnly, rollOnly, exit, k, file, dir,
                    lock, mine, child>>
  \/ /\ part = "rollout" /\ Rolls!Next
     /\ UNCHANGED <<part, huntOnly, recordOnly, runOnly, fetchOnly, osvOnly, mirrorOnly, turnOnly, exit, file, dir,
                    lock, mine, child>>
  \/ /\ part = "hunt" /\ Hunts!Next
     /\ UNCHANGED <<part, recordOnly, runOnly, fetchOnly, osvOnly, mirrorOnly, turnOnly, rollOnly, exit, k,
                    file, dir, lock, mine, verdict, child>>
  \/ /\ part = "record" /\ Record!Next
     /\ UNCHANGED <<part, huntOnly, runOnly, fetchOnly, osvOnly, mirrorOnly, turnOnly, rollOnly, exit, k,
                    file, dir, lock, mine, verdict, child>>

vars == <<part, runOnly, fetchOnly, osvOnly, mirrorOnly, turnOnly, rollOnly, huntOnly, recordOnly,
          pc, exit, k, file, dir, lock, mine, verdict, child>>

Spec == Init /\ [][Next]_vars

-----------------------------------------------------------------------------
TypeOK ==
  \/ part = "run" /\ Runs!TypeOK
  \/ part = "fetch" /\ Fetch!TypeOK
  \/ part = "osv" /\ Osv!TypeOK
  \/ part = "mirror" /\ Mirror!TypeOK
  \/ part = "codex" /\ Codex!TypeOK
  \/ part = "turn" /\ Turns!TypeOK
  \/ part = "rollout" /\ Rolls!TypeOK
  \/ part = "hunt" /\ Hunts!TypeOK
  \/ part = "record" /\ Record!TypeOK

\* A sweep takes what has expired, in an order that works, and nothing else.
JanitorSpares == part = "run" => Runs!JanitorSpares /\ Runs!SweepIsThorough

\* A run, a download and a query report what is so.
OutcomeTells ==
  /\ part = "run"   => Runs!OutcomeTells
  /\ part = "fetch" => Fetch!QuarantineHolds /\ Fetch!TarIsPinned
  /\ part = "osv"   => Osv!AnswerIsComplete

\* Only a generation that was published whole verifies, and prune keeps the last.
GenerationsSound == part = "mirror" => Mirror!VerifiedWasPublished /\ Mirror!NewestIsKept

\* A call of the Codex wrapper reports what its own Codex wrote.
AnswerIsOwn == part = "codex" => Codex!AnswerIsOwn

\* It counts as a review on evidence of its own turn, which ran read-only as far
\* as anyone can tell; a record is decided by lines that were sent; and coverage is
\* handed on by a hunt that was published.
VerdictIsEarned ==
  /\ part = "turn"    => Turns!AcceptedHasGround
  /\ part = "rollout" => Rolls!VerdictIsWorst
  /\ part = "hunt"    => Hunts!CoverageIsBacked
  /\ part = "record"  => Record!VerdictIsGrounded
=============================================================================
