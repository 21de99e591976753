# claudex-loop in TLA+

claudex-loop lets one coding agent work and another one review it.  The parts
that are programs (`scripts/`, `hooks/`) run the reviewer read-only, run builds
and tests in disposable containers, bring a reviewed change set into a
checkout, hunt for defects, and record what was reviewed.  This directory models
the parts of it whose correctness depends on the order of steps: processes and threads that
interleave, docker calls that are carried out late, runs that crash, files that
somebody else changes in between.

Run `tlc -config X.cfg M` for a model and `tlapm M.tla` for the proofs;
`PROJECT.json` lists every run, the properties it checks, the source lines of
every definition and, for each property, a change of the model (`mutant`) that
violates it.

## The system

| part | state it keeps | operations | what is hard |
|---|---|---|---|
| `change_apply.py` | a checkout, temporary siblings, report files in the run directory | `show`, `apply`: preflight, directories, one system call per entry, report, recovery lines | an editor or a second apply in between; failure after a system call took effect; death between two entries |
| `sandbox_proxy.py` | `stopped`, counters, open sockets, active connections, token | accept, charge, forward, scan, stop at deadline / end of file / event, control lines | workers, acceptor, timer and main loop share state; a charge and its send are two steps; what is written before the stop |
| `sandbox_build.py` | the docker objects of a run, the proxy session (alarm, END), what the run left | networks, probe, proxy, builder, reading of the proxy's lines, cleanup, `finish` | a reader thread that kills what the main thread is about to start; calls whose effect comes after their timeout; unread lines |
| `fallback_review.py` | lock files, `--out`, the review log | locks, preflight and request per reviewer, publication, log entry | runs that share outputs; crashes that leave locks; two outputs that can disagree |
| `sandbox_driver.py` | the processes in the container, capture pipes, the working tree | supervise, quiesce, install dependencies, walk the tree, compute the change set, frame the result | descendants that outlive the command, forks between two scans, one budget for several phases |
| `sandbox_run.py` | containers of one run and of abandoned ones | run, stream the result, janitor | two janitors, runs that died, deadline against cap |
| `codex_ro.py` | output locks, answer and error files | version and option checks, start Codex, classify its events | locks of concurrent runs; an answer file that is empty after success |
| `review_mirror.py` | generations with receipts, one lock | build, verify, prune | crash in a build, clock that goes back, prune against a reader |
| `hunt_run.py`, `hunt_io.py`, `hunt_snapshot.py`, `verify_record.py`, `vendor_skill.py` | an append-only ledger, a frozen input, records | phases of a hunt, exclusive creation, verification of a record | a ledger torn by a crash; a target that appears between look and rename |
| `sandbox_fetch.py`, `dep_audit.py`, `sandbox_deps.py`, `sandbox_wheels.py` | a worker process with a deadline | download, query, select by hash | a worker killed in the middle of a frame; otherwise sequential |
| `sandbox_auth.py`, `sandbox_snapshot.py`, `redact_payload.py`, `claudex_roles.py`, `tree_check.py`, `build_isolation.py`, `codex_usage.py`, `wrapper_drift.py` | none beyond one call | pure translations and checks | grammars, boundaries |
| `hooks/` | none | answer one call of a tool | grammars |
| `skills/`, `agents/`, documents | none | instructions to a language model | not a program |

How they interact: `sandbox_build` starts `sandbox_proxy` in a container of its
own and talks to it over stdin (the login, end of file) and stdout (READY,
EVENT, ABORT, END, each with a nonce); it starts `sandbox_driver` in the builder
container, which ends with one framed result.  What `finish` writes into the run
directory is what `change_apply` reads.  `sandbox_run` does the same with a
driver and no proxy; both download wheels through a worker process of
`sandbox_fetch`, and each sweeps, as a janitor, what runs that died have left on
the one docker daemon.  `fallback_review` and `codex_ro` are separate processes
that only meet at their output files; a reviewer reads a generation that
`review_mirror` has published.  `hunt_run` freezes its input with
`hunt_snapshot`, asks about each record through `verify_record`, and writes with
`hunt_io`.

What makes each of the modelled parts correct:

- *change_apply*: the report names exactly what took effect; nothing is written
  before the whole set was compared and accepted; the recovery lines bring back
  the base; only a change in the window between recheck and system call is lost.
- *sandbox_proxy*: caps hold under every interleaving, slots are given back
  once, nothing is sent after a stop, the lines it writes follow the protocol
  the runner relies on, and it ends.
- *sandbox_build*: an alarm stops the builder, a run counts as served only
  after the proxy said so, a credential alarm withholds the output, the probe is
  gone before the proxy exists, every object that remains is named, and the run
  ends.
- *fallback_review*: one writer at a time, no verdict of an earlier round, whole
  log entries, an exit code that tells whether the round is recorded, and no
  waiting.
- *sandbox_driver*: an outcome counts all that was written and nothing that came
  later, what is left of a job is proved gone before anything is read, the
  change set applied to the baseline gives the working tree, a probe says
  "isolated" only of what was tried and blocked, and all of it ends.
- *sandbox_run* and *sandbox_fetch*: the janitor never takes a container within
  its deadline and takes everything behind it, a worker that may live is never
  robbed of its directory, and what is reported is so.
- *codex_ro*: a call reports what its own Codex wrote, as a review only on
  evidence of its own turn, and the worst setting of that turn is found.
- *review_mirror*: only what was published whole verifies, prune keeps the last.
- *hunt_run* and *verify_record*: what the next hunt takes for covered was
  published by a hunt that sent those bytes, and a verdict rests on lines that
  were sent.

## The modules

| module | models | relation to others |
|---|---|---|
| `ChangeApply` | `change_apply.py apply` | proofs in `ChangeApply_proofs` |
| `ProxyLines` | the lines between proxy and runner (abstract) | implemented by `SandboxProxy`, used by `BuildSession` |
| `SandboxProxy` | class `Proxy` and `serve` | refines `ProxyLines`; `SandboxProxy_proofs` |
| `BuildSession` | `run`, `ProxySession`, `cleanup`, `finish` of `sandbox_build.py` | its proxy is any process that keeps `ProxyLines`; `BuildSession_proofs` |
| `ExclusiveOutputs` | what output locks promise (abstract) | implemented by `FallbackReview` |
| `FallbackReview` | locks and one round of `fallback_review.py` | refines `ExclusiveOutputs`; `FallbackReview_proofs` |
| `DriverRun` | `main_run`, `main_build`, `_supervise`, `quiesce` of `sandbox_driver.py` | part of `Container` |
| `ChangeSet` | `walk_tree`, `compute_changes` of the driver, `parse_records` of the runner | part of `Container` |
| `ProbeRun` | `main_probe` and its child, `evaluate_probe` | part of `Container` |
| `HostRun` | `main`, `run`, the stream and the janitor of `sandbox_run.py` | part of `Host` |
| `FetchJob` | `fetch_deps` of `sandbox_run.py`, `run_job` and the wheel job of `sandbox_fetch.py` | part of `Host` |
| `OsvJob` | `_job_osv` of `sandbox_fetch.py` | part of `Host` |
| `ReviewMirror` | build, prune and verify of `review_mirror.py` | part of `Host` |
| `CodexRun` | `main` and `_run_locked` of `codex_ro.py`, with the Codex each call starts | part of `Host`, and a run of its own |
| `TurnEvidence` | `read_stream_evidence`, `blind_run` of `codex_ro.py` | part of `Host` |
| `RolloutBinding` | `read_applied` of `codex_ro.py` | part of `Host` |
| `HuntRun` | prepare, load and publish of `hunt_run.py`, the worker of `hunt_snapshot.py`, the ledger | part of `Host` |
| `HuntVerdict` | request and judge of `hunt_run.py`, `verify_record.py` | part of `Host` |
| `Container` | what runs in a container, one part per behaviour | `DriverRun`, `ChangeSet`, `ProbeRun`; `Container_proofs` |
| `Host` | the programs of the host, one part per behaviour | the nine modules above it; `HostRun_proofs` (runs, downloads, queries), `Host_proofs` (the mirror, and the types of all parts), `Verdict_proofs` (the wrapper's calls, the evidence of a turn, the rollout, hunts, records) |
| `MC...` | values of the constants for TLC | |

The proxy and the runner are composed by assumption and guarantee: checking
them together would multiply two large state spaces, so `SandboxProxy` is shown
to produce only behaviours of `ProxyLines` (`KeepsProtocol`), and `BuildSession`
is checked against every behaviour of `ProxyLines`.

`Container` and `Host` put several modules into one specification: a behaviour belongs
to one `part`, chosen in its first state, and the variables of the other parts
hold the empty set.  The parts of a container, like the programs of the host,
meet at the end of one and the start of another only, by a result that is
modelled on both sides; so their states are added and not multiplied, and one
run asks a question of all of them.  The theorems are stated of these two as
well, part by part.

### ChangeApply

`file[i]` is what stands at the path of entry `i` (`Absent`, base, result or
another content, with an executable bit), `dirs` the new directories that exist.
Each applier has a place (`pc`), the index it is at, its list `published` as the
code keeps it, and as history `touched` (entries on which one of its system
calls took effect), `mkdirs` (directories it made) and `foreign` (entries
somebody else changed since it compared them).  Actions follow `apply`: one
entry of the preflight at a time, the decision about the flags, `_make_dir`,
the temporary sibling, `_recheck`, the system call of each kind of entry
(`link` where there are hard links, else a look and `rename`; `replace`,
`unlink`, `fchmod`), the removal of the sibling, the report with its search for
a free name.  Any of them may fail at the points where the code handles it, the
process may die anywhere (`Crash`), an editor may change any entry or make a
directory (`Edit`, `EditorMakesDir`), and a person may run the recovery lines
(`Recover`).

### SandboxProxy

One worker per connection with the steps of `_handle`: charge the connection,
read CONNECT, TLS, the inner request, charge it, classify it, open upstream,
charge a chunk, send it, scan the answer, record the end.  `Stop`, `Abort`,
`Charge` are the critical sections under the code's lock and each is one
action; what the code does outside the lock (the send, the EVENT line) is an
action of its own.  The main thread handles the control messages in the order
they come; the timer is `Deadline`; the process can be killed (`Die`).

### BuildSession

`obj` is the daemon's view of probe, proxy, builder and the two networks.  A
docker call succeeds, is refused, or is not answered; an unanswered create may
be carried out at once, or later (`late`, `Lands`).  The main thread walks
through `run`, the reader through `_read_out`/`_line`/`_raise_alarm`, and the two
meet at `alarm` and `builder["name"]` as in the code, which uses no lock there.
`relayed` counts the lines the docker client had passed on when it was lost or
closed, so the reader may stay behind.  The login is any that `sandbox_auth`
accepts; a survivor of the removal is a choice bounded by `MaxSurvivors`.

### FallbackReview

`locks[f]` is the run that created the lock file of output `f`; `taken[r]` the
list `_acquire_locks` keeps.  A run takes its locks in sorted order and backs out
on the first that exists.  The review clears `--out`, turns to its reviewers
(`Choose`, `Preflight`, `Request` with their retries), stages and renames the
verdict, opens the log and appends the entry in two pieces, since a buffered
write reaches the file in pieces and a crash may come between them.  `Crash`
ends a run anywhere, `ByHand` is the person who deletes the lock of a run that
is no longer active, as the message of the program asks.

### DriverRun, ChangeSet, ProbeRun

`owner[p]` is the uid under which a process of the container runs, `holds` who
holds the pipe, `listed` and `found` what a scan of `/proc` has seen.  The driver
walks through deps, login check, command or Codex, export, walk and result; each
job is `Spawn`, `Poll`, `Reap` or `KillGroup`, `Drain`, and `quiesce` between any
two of them, while the processes fork, write, close the pipe and end as they
like.  `clocks` are the three budgets that have run out.  `ChangeSet` walks a
small tree directory by directory with `sandbox_driver`'s conditions in their
order and computes the changes; `PatchRebuilds` and `CapsAgree` compare the
result with the two trees themselves.  `ProbeRun` has a child with its answers,
the lines on their way, and the two deadlines.

### HostRun, FetchJob, OsvJob

`obj` is the daemon's view of containers and networks, `due` the deadline label
each carries, `late` the creates that docker may still carry out after its
client gave up.  A run sweeps, creates, streams the result and cleans up, and may
crash anywhere; `sweep` holds the locals of its janitor.  `FetchJob` follows the
worker (`wpc`, `worker`), the parent that kills and reaps it, the exceptions on
their way up (`exc`) with what was deferred, and the directory that goes or
stays.  `OsvJob` pages through the answers of a service chosen at the start,
among them tokens that come again and answers over the budget.

### ReviewMirror

`gens[g]` is a directory with its files and its receipt (none, torn, whole with
scope, stamp and files), `lock` its owner.  A build copies file by file and
writes the receipt; a prune reads, verifies, decides and deletes entry by entry;
a verification reads without the lock.  `t` in `Stamp` is any clock.

### CodexRun, TurnEvidence, RolloutBinding

A file of `CodexRun` is the set of calls that have written it, so that an answer
of somebody else is told from one's own; the calls may name the same files in
different roles.  Codex runs on after a wrapper that was killed.  `TurnEvidence`
reads a stream line by line as `read_stream_evidence` does; `RolloutBinding`
reads a log that grows, and keeps one verdict for each turn.

### HuntRun, HuntVerdict

A file that is created is not there, there in part, or whole, since a process
may end between any two writes.  `hunts[h]` holds the artifacts of hunt `h`,
`repo` the repository that people edit meanwhile.  Load looks for the latest
complete run and takes over its coverage.  `HuntVerdict` follows one record:
ranges are asked, the frozen input may be altered between two reads, dispatch
and prompt are two files, an answer may claim anything.

## The runs

| run | shows |
|---|---|
| `change_race` | two applies and an editor with hard links: report, order of publication, whole set or nothing, recovery, additions and earlier edits |
| `change_ends` | the same race without hard links, with a mode-only entry and an addition below two new directories: recovery and earlier edits; every apply ends, and two reports never share a file |
| `change_leftovers` | (violation) a finished apply whose report does not hold a directory it made |
| `proxy` | caps, slots, charges, silence after a stop, the protocol and the end of the process, with three connections, two at a time, under caps they reach together |
| `build_safe` | alarms against the builder's life; what counts as served; what is written |
| `build_ends` | every way out of a run, with an interrupt, late creates and a refused removal: probe alone, leftovers named, the main thread comes to an end |
| `build_strongest` | (violation) the first alarm decides, not the strongest |
| `review_shared` | three runs with one log, two of them with one `--out`: one writer, no stale verdict, whole entries, exit code |
| `container` | the driver, the walk with the change set, and the probe: outcomes count everything, survivors slipped through two scans, the change set is exact, isolation is proved; and all three end |
| `host` | runs with their janitors, a download, a paged query, the mirror, calls of the Codex wrapper, the evidence of a turn, and what a hunt hands on |
| `codex_locks` | (violation) a call that ends with a traceback and leaves its locks |
| `review_crossed` | two runs that need each other's outputs, with a chain of two reviewers and retries: the locks implement ownership, not all are turned away, every run ends |

**Bounds.**  Two appliers are enough for every pair of racing steps; the
entries of the two instances hold one of each kind (added, modified, deleted;
mode, added below nested directories); one edit puts one change into any window
(a second edit of the same entry is no different from the first one delayed).
Three connections and two slots: two race for every counter, with caps that the
last request and the last chunk exceed by one, and the third may find no slot.
Three lines of the proxy hold READY, an EVENT and an ABORT, or READY, END and a
stray one; the run about the ways out has one line, READY or an ABORT, after
which the end of the output is an alarm as well.  With one survivor cleanup has
to go past a failure, and with two subnets it draws again after an overlap.
Three runs of `fallback_review`: a crashed one, a living one and one that comes
later; two whose outputs cross are enough for the order of the locks to matter.

In `container` three processes and three forks are what it takes to slip through
both scans of a quiesce; a cap of one byte with two writes exceeds it; the trees
hold a file, a link, a special file or a directory with each kind beneath it, a
`.git`, a name that is no UTF-8, and caps that are just met and just missed.

In `host` a unit of time is the 300 seconds of the deadline label, and a call of
docker takes one unit at most, which is what its timeouts add up to; six units
let a run end, expire and be swept.  Two wheels, two attempts and two interrupts
are one more of each than a path through the job needs.  Three generations with
two processes and any clock let a prune meet a build and a verification.  Two
calls of the wrapper with two names meet in every role; four lines of a stream
hold a turn that is over and one that follows; three records of a rollout hold a
context, a mark and one more in any order.  Two hunts, two processes and one
edit let the second hunt take over the coverage of the first after a change.
Every bound is a constant named in
its module.

**Fairness.**  Only what the code forces.  `Step(a)` of an apply that is not
killed, since none of its calls waits.  `Main` and the timer of the proxy: the
loop polls the stop flag with a timeout and joins workers for two seconds; no
fairness of the workers, which may hang in a read.  `Main` of the build: every
docker call and every wait has a deadline; nothing is assumed of the daemon, the
proxy or the reader.  `Step(r)` of a review run: every request has a timeout.
In `container` the driver, the probe and their clocks go on, what runs inside of
them need not: every wait of the driver ends with a budget or a count of rounds.
The numbers of processes mean nothing, so a new one takes any that is free;
`host` has no liveness and is checked up to the symmetry of its processes.
`Crash` and what people do are never fair.

Deadlock is not checked (`CHECK_DEADLOCK FALSE`) because these are programs that
end.

## What the runs found

- `change_leftovers`: `apply` announces exact partial recovery state, but a
  directory whose `mkdir` succeeded while the look after it failed is not in
  `CREATED_DIRS`, and a temporary sibling that could not be removed is not named.
- `build_strongest`: the documentation ranks `credential_exposed` above
  `auth_failed`; when the proxy writes EVENT and then ABORT, only the first is
  recorded and the run is reported as `auth_failed`.

- `codex_locks`: the wrapper promises that no failure of the file system escapes
  as a traceback; the write into a lock that was just created is not guarded,
  and a full disk leaves that lock and those taken before it.

Some behaviours are no contradiction to the code's words, but worth knowing.
`fallback_review` publishes the verdict before it opens the log, so a log that is
refused or cannot be written leaves a verdict without a record; the exit code
tells (`ExitMeansRecorded`), the files do not.  And in `sandbox_build`,
an alarm of the proxy that comes after the builder was created and before it was
started kills a container that does not run, which docker refuses, and the start
that follows runs the builder.  Only an abort that no builder caused can come
then, and the builder has no way out without its proxy; `AlarmStopsBuilder`
leaves this case out.  `review_mirror` reads the scope before it takes the lock,
so a prune that waited for a build with another scope deletes the generation
that build has just made; `NewestIsKept` speaks of the generations that match
the prune's scope.  `codex_ro` checks the names of its outputs first, so that
nothing is deleted before a refusal, but opens them after the old answer was
unlinked, and that may refuse (exit code 2) as well.  In `hunt_run` a publication
that was cut short cannot be repeated, since its report is created exclusively,
and a request that ended between its two files leaves a dispatch without a
prompt, against which `judge` still accepts an answer.

## The proofs

TLAPS proves the following for every value of the constants.

`ChangeApply_proofs`: `TypeCorrect`, `ReportCorrect`, `PrefixCorrect`,
`WholeSetCorrect`, `RecoveryCorrect`.  None of the properties is inductive: that
the report is exact depends on what an apply has done at each place it can be
at.  The invariant is built in layers: types; `PhaseInv` (the place of an apply
tells what it has touched, made and listed); `TreeInv` (a file keeps its
directories alive, so that a publication cannot fail into nothing); `HoldInv`
(an entry nobody else touched holds its base, or its result once the apply's
system call took effect).  `RecoveryRestores` follows from the last.  So does
`EditsCorrect` (`EarlierEditsSurvive`): what holds at the cursor when the system
call is made is the base, unless somebody changed it after the recheck.
`AdditionsCorrect` (`AdditionsNeverReplace`) assumes hard links, as the property
does; `ReportsCorrect` (`ReportsNeverReplaced`) needs no invariant but the types.

`FallbackReview_proofs`: `TypeCorrect`, `WritersExclude` (`OneWriter`),
`VerdictIsOwn` (`NoStaleVerdict`), `EntriesAreWhole` (`WholeEntries`),
`ExitIsRecorded` (`ExitMeansRecorded`), `OwnershipImplemented` (`OwnsOutputs`,
the refinement of `ExclusiveOutputs`) and `SomebodyGetsIn` (`SomeoneGetsIn`).  The center is `LockInv`: what a run has
taken is there and is its own, it has all of it during the review, and nothing
once it is over, so that a lock deleted by hand is never that of a living run.
`OneWriter` follows without a further induction; with it, a statement about one
run's outputs survives the steps of all others.  For `WholeEntries` the
strengthening says that a run between its two pieces finds the first at the end
of the log; for the exit code, that a run that has not left its review has
exit code 2 and no entry.  For the refinement, `LockInv` makes the owner of a
file unique, and each step takes all outputs of one run, drops them, changes
one content of an owned file, or is no step of the abstract specification.
`SomeoneGetsIn` rests on the order of the locks (`OrderInv`): what a run has lies
before what it misses (`Sorted`), a lock that is there can be told whose it is
(`Accountable`), and as long as nobody got in, one run that still takes locks has
one behind all those of the runs that back out (`SomeoneAhead`).  When a run is
turned away, the lock it missed lies behind all it has, so the run with the
greatest lock is another one.

`SandboxProxy_proofs`: `TypeCorrect`, `CapsAreKept` (`CapsHold`), `StopHolds`
(`NothingAfterStop`) and `ProtocolImplemented` (`KeepsProtocol`, the refinement of
`ProxyLines`), for any number of connections and any caps.  A chunk that was
charged and not yet sent has to be counted with what was sent (`PaidTwice`); the
slots in use are the workers between admission and record, which makes their
number a cardinality that each step moves by one or not at all; and a stopped
proxy has no upstream socket (`NoUpstream`).  For the refinement, every worker
writes two lines at most (`LineRoom`), and `Ordered` tells for each place of the
main thread what was said: after a refusal the exit code is 5 until `serve` has
returned, and what it has returned is not 0.

`BuildSession_proofs`: `TypeCorrect`, `ProbeIsAlone` (`ProbeAlone`),
`LeftoversAreNamed` (`LeftoversNamed`), `AlarmStops` (`AlarmStopsBuilder`),
`ExitedIsServed` (`ExitedMeansServed`) and `ExposureIsWithheld`
(`ExposureWithheld`).  What makes them hard is that a create may be carried out
after everybody gave up on it.  `ProbeFirst` says of every place of the main
thread what may exist, or may still come to exist, there; a create that is still
open belongs to a run that has left its try block, so a late probe never meets a
proxy.  `Booked` relates the daemon's objects to the lists of `cleanup`.  The
outcome rests on the lines: the alarm is the first announcement among those that
were read (`FirstAlarm`), an exit code 0 of the proxy stands for lines without an
abort (`Served`), and a run that gets past the check of END has an alarm, or both
END and that code (`Accounted`), although lines may be read later.

`Container_proofs`: `TypesAreKept` (`TypeOK`), `DriverIsSound` (`DriverSound`),
`IsolationProved` (`IsolationIsProven`) and `ChangeSetProved` (`ChangeSetExact`), with
its halves `PatchIsExact` and `UnfitIsRefused`.  The
driver's many steps are first sorted into shapes: one that only moves on, one
that begins a hunt, one that spawns a job, and the steps of processes and scans.
`Counted` adds up what was written, seen and is in the pipe; `CaptureInv` tells what
is known of a job at each place; `SlipInv` says that whoever is alive and was
not listed has been forked behind the listing of this round, and that whoever
passed both looks did so twice; `OutcomeInv` tells for each place of the driver
what has been decided before it.  For the walk, the records are truthful, and whatever can be
seen is recorded or lies below something that still waits (`Covered`): a path
that waits is replaced by its children, one of which is on the way.  When
nothing waits any more, all is recorded, and a set of records that is not refused
determines the tracked files, from which the difference to the baseline rebuilds
the tree (`PatchIsExact`).  The same facts refuse a tree with a withheld path,
with a link where a file could be tracked, or with a file over its cap
(`UnfitIsRefused`).  For the caps on a whole tree `CountInv` follows the counters of
the walk: they are the number and the sum of what was met so far, each entry met
once, and a walk that stopped early stands above its cap, or would with its next
entry.  A sum is the number of its units (`Total`), so what holds of finite sets
holds of it, and what has been met never outweighs the tree.

`HostRun_proofs`: `SweepIsSafe` (`JanitorSpares`) and `OutcomeIsTrue`
(`OutcomeTells`).  What bounds the clock of a run bounds its container (`InTime`),
so nothing on a janitor's list is at work (`Listed`); the order of a sweep
(`Sweeping`) is why a removal fails only with docker; and `Known` says what a run
knows where it is, which is what its exit reports.  For a download, the n-th entry of
the tar is the n-th wheel as it was verified, and a worker that may live keeps
its directory.  For a query, the pages that were read are those that follow from
the first one, `Following` being the least set that is closed under the next
page.

`Host_proofs`: `MirrorIsSound` (`GenerationsSound`) and `TypesOfHost` (`TypeOK`).
While a build or a prune holds the lock, nobody else changes a generation
(`LockIsHeld`), so a receipt can be taken at its word (`ReceiptsTrue`).  A build in
the making is newer than every receipt (`Making`), whatever the clock says, because
a stamp is also above all that can be read; hence stamps follow the order of
publication (`InOrder`), and the generation with the greatest of them is the last
one.

The types of `Host` are bounds as well, and need more than the other
invariants say: a worker that loads has a wheel left to load (`LoadKnown`), a kill
is entered once and each of its attempts is counted (`AttemptsKnown`), a budget is
only charged with what it can pay (`BudgetKnown`, all in `HostRun_proofs`), the
commands of a turn that succeeded or were denied are some of those that ran, and
those are some of its lines (`CountsAdd`), a log ends at its bound (`LogBounded`),
and a hunt holds what was in the repository (`HuntKept`, in `Verdict_proofs`).
`TypesOfHost` puts them together: a behaviour stays in the part it began in, and
each part is typed by its own invariant.

`Verdict_proofs`: `VerdictsAreEarned` (`VerdictIsEarned`) and `AnswersAreOwn`
(`AnswerIsOwn`).  For a record, what is gathered comes from the input line by
line, and a dispatch is written once.  For a rollout, what is kept of a turn is
the worst of what was read of it.  For a stream, each field of the evidence is
stated as a fact about the lines read so far, so that "usable" is a fact about
the whole stream.  For hunts, a run only grows, a process has behind it what its
place says, and a complete run does not change any more.  For the calls of the
wrapper, a call past its locks holds one for each of its targets (`Locked`), a
lock has one holder (`Holding`), what a call has cleared holds only its own lines
(`Cleared`), and a Codex outlives the locks of its call only when that call was
cut short (`Followed`, `Late`).

**Assumptions.**  They are the named `ASSUME`s of the modules, which TLC
evaluates for the instances: distinct placeholders, outputs that are files, a
change set whose entries and directories are well-formed, caps that are numbers,
finitely many connections.  In `Container`: paths are sequences of names,
closed under what lies above them (the root excepted), what lives in a tree lies in
directories, a tree is finite, its caps are numbers, and a rule withholds no whole tree.  In `Host`: what a build left
behind is none of the runs' own containers; the first page of a query is no
token; the ids of a page are known vulnerabilities; a file is tried at least once;
sizes, budgets, caps and bounds are numbers; nobody holds a free lock; a file of
the repository is none of the outputs of a hunt, and no run has the name of none.

**Model-checked only.**  Liveness (`ApplyEnds`, `ProxyEnds`, `RunEnds`,
`EveryRunEnds`, `ContainerEnds`) and `ENABLED` are out of the prover's reach.
Every invariant and every action property of a passing run is a theorem, for
all values of the constants that its assumptions allow.

## Not modelled

Parsers, grammars and option filters (`sandbox_deps`, `sandbox_wheels`,
`wrapper_guard`, the version checks of `codex_ro`), pure reports
(`codex_usage`, `wrapper_drift`), the checks of path components against links
(they depend on the operating system's calls), TLS and HTTP, and everything
that instructs a language model.  `PROJECT.json` says for each component why.

Inside the modelled parts these stay out:

- an interrupt inside `Popen`, or between two bytecodes of one step;
- a machine that sleeps or a wall clock that jumps under the janitor, which the
  label's grace is not made for;
- a source of the mirror that changes during a copy, or a generation that is
  altered by hand;
- in `CodexRun`, a lock whose removal fails, and what a Codex writes that has
  outlived its wrapper: `AnswerIsOwn` excepts it, since no lock can see it;
- in `HuntRun`, the redaction of what is written and the supervision of the
  worker's process tree; the search for the latest complete run is one step;
- in `FetchJob`, HTTP and the grammar of an index;
- in `BuildSession`, the arguments of docker and the files of the artifact.

## Plan

1. `StreamScanner`: the proxy's scanner that holds back a tail, as a function on
   sequences, against the search in the whole stream.
2. `Gate`: `claudex_roles` as pure operators over small configurations.
3. The lock of `vendor_skill` with its download and rename, and the phases of
   `hunt_run` that are left (put, bundle, skill-file, log-agent).
4. `WheelChoice`: the selection of `sandbox_wheels` by tag order and hash, as a
   bounded check against a reference definition.
