----------------------------- MODULE HuntVerdict ------------------------------
(* src/scripts/verify_record.py with hunt_run.py's request and judge: one record  *)
(* of a hunt, the prompt that asks about it and the answers that come back. The   *)
(* frozen input may be altered between two steps and between two reads of one, a  *)
(* step may stop between its two files, and an answer may say anything.           *)
EXTENDS Naturals, FiniteSets

CONSTANTS
  File, None,
  Ranges,      \* the sets of ranges a record may name
  Claims       \* the sets of places an answer may name

VARIABLES
  pc,
  input,       \* the files of the frozen input that still have their bytes
  asked,       \* the request that is being built: [status, todo, sent, text]
  dispatch,    \* what is stored as sent: [status, sent], Part of it, or None
  prompt,      \* the lines of the stored prompt, or None
  event        \* the last verdict in the ledger, or None

vars == <<pc, input, asked, dispatch, prompt, event>>

\* Every frozen file has two lines, and the second lost a secret to the redaction.
Lines         == 1..2
RedactedLines == File \X {2}
Statuses      == {"confirmed", "needs_validation"}
Results       == {"VERIFIED", "REFUTED", "UNRESOLVED"}

Part    == [status |-> "part", sent |-> {}]
Nothing == [status |-> None, todo |-> {}, sent |-> {}, text |-> {}]

Init ==
  /\ pc = "idle" /\ input = File
  /\ asked = Nothing /\ dispatch = None /\ prompt = None /\ event = None

-----------------------------------------------------------------------------
Alter(f) ==
  /\ input' = input \ {f}
  /\ UNCHANGED <<pc, asked, dispatch, prompt, event>>

Refuse ==
  /\ pc' = "idle" /\ asked' = Nothing
  /\ UNCHANGED <<input, dispatch, prompt, event>>

\* load and request both hash the whole input before anything of it is used.
Request(status, ranges) ==
  /\ pc = "idle"
  /\ input = File
  /\ pc' = "build"
  /\ asked' = [Nothing EXCEPT !.status = status, !.todo = ranges]
  /\ UNCHANGED <<input, dispatch, prompt, event>>

Frozen(f) == f \in input

\* Mutant: what was verified at the start is read without another look.
ReadUnverified(f) == TRUE

\* Every file is hashed again as it is read, and the hashed bytes are used.
Matches(f) == Frozen(f)

\* The lines of a range that exist; a range that selects none refuses.
Selected(r) == {<<r.file, n>> : n \in {m \in Lines : r.from <= m /\ m <= r.to}}

ReadRange(r) ==
  /\ pc = "build" /\ r \in asked.todo
  /\ Matches(r.file)
  /\ Selected(r) # {}
  /\ asked' = [asked EXCEPT !.todo = @ \ {r}, !.sent = @ \cup Selected(r),
                            !.text = @ \cup {[place |-> p, frozen |-> Frozen(r.file)] : p \in Selected(r)}]
  /\ UNCHANGED <<pc, input, dispatch, prompt, event>>

\* The scan of the prompt finds nothing; both files are created, never replaced.
Scan == pc = "build" /\ asked.todo = {} /\ asked.sent # {}

WriteDispatch ==
  /\ Scan /\ dispatch = None
  /\ dispatch' = [status |-> asked.status, sent |-> asked.sent]
  /\ pc' = "prompt"
  /\ UNCHANGED <<input, asked, prompt, event>>

WritePrompt ==
  /\ pc = "prompt" /\ prompt = None
  /\ prompt' = asked.text
  /\ pc' = "idle" /\ asked' = Nothing
  /\ UNCHANGED <<input, dispatch, event>>

\* A refusal or the end of the process; a dispatch may stay behind in part.
Stop ==
  \/ pc # "idle" /\ Refuse
  \/ /\ Scan /\ dispatch = None
     /\ dispatch' = Part
     /\ pc' = "idle" /\ asked' = Nothing
     /\ UNCHANGED <<input, prompt, event>>

-----------------------------------------------------------------------------
(* An answer is one JSON object with the ids of the dispatch, or not ("ours"); of *)
(* the ways in which it is not, none is told apart.                               *)
Answers == [ours : BOOLEAN, result : Results \cup {"other"}, evidence : Claims]

Unresolved == [result |-> "UNRESOLVED", evidence |-> {}, status |-> "open"]

Status(hunted, answer) ==
  CASE answer.result = "REFUTED"    -> "disputed"
    [] answer.result = "UNRESOLVED" -> "open"
    [] answer.result = "VERIFIED"   ->
         IF hunted = "confirmed" /\ answer.evidence \cap RedactedLines = {} THEN "confirmed"
         ELSE "needs_validation"

Decided(answer, sent, exit) ==
  /\ exit = 0
  /\ answer.ours /\ answer.result \in Results
  /\ answer.evidence \subseteq sent
  /\ answer.result # "UNRESOLVED" => answer.evidence # {}

ParseAnswer(answer, exit) ==
  IF Decided(answer, dispatch.sent, exit)
  THEN [result |-> answer.result, evidence |-> answer.evidence,
        status |-> Status(dispatch.status, answer)]
  ELSE Unresolved

Judge(answer, exit) ==
  /\ pc = "idle"
  /\ input = File
  /\ dispatch \notin {None, Part}
  /\ event' = ParseAnswer(answer, exit)
  /\ UNCHANGED <<pc, input, asked, dispatch, prompt>>

Next ==
  \/ \E f \in File : Alter(f)
  \/ \E s \in Statuses, rs \in Ranges : Request(s, rs)
  \/ \E r \in asked.todo : ReadRange(r)
  \/ WriteDispatch \/ WritePrompt \/ Stop
  \/ \E a \in Answers, e \in {0, 124} : Judge(a, e)

-----------------------------------------------------------------------------
TypeOK ==
  /\ pc \in {"idle", "build", "prompt"} /\ input \subseteq File
  /\ asked.status \in Statuses \cup {None}
  /\ event # None => event.status \in Statuses \cup {"open", "disputed"}

(* A decided verdict rests on lines that were sent for it, that exist, and that   *)
(* the redaction left alone when it confirms; nothing that is requested later     *)
(* changes what it was sent for. A prompt holds only bytes of the frozen input    *)
(* although the input may be altered while it is built (verify_record.py:68), and *)
(* exactly the lines the dispatch says.                                           *)
VerdictIsGrounded ==
  /\ event # None /\ event.status # "open" =>
       /\ event.evidence # {} /\ event.evidence \subseteq dispatch.sent
       /\ event.status = "confirmed" =>
            dispatch.status = "confirmed" /\ event.evidence \cap RedactedLines = {}
  /\ prompt # None =>
       /\ \A t \in prompt : t.frozen
       /\ {t.place : t \in prompt} = dispatch.sent
=============================================================================
