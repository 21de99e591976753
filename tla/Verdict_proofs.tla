--------------------------- MODULE Verdict_proofs ------------------------------
(***************************************************************************)
(* Proofs about what comes back from Codex, for any values of the          *)
(* constants: the four parts of Host that reach a verdict, "turn"          *)
(* (TurnEvidence), "rollout" (RolloutBinding), "hunt" (HuntRun) and        *)
(* "record" (HuntVerdict), and the part "codex" (CodexRun), the calls of   *)
(* the wrapper and their files.                                            *)
(***************************************************************************)
EXTENDS Host, WellFoundedInduction, TLAPS

(***************************************************************************)
(* The part "record": what a request has gathered, and what is stored.     *)
(***************************************************************************)
Dispatches == [status : Record!Statuses, sent : SUBSET (File \X Record!Lines)]

\* What is gathered so far comes from the input, line by line what was read.
Gathered ==
  /\ asked.status \in Record!Statuses /\ asked.sent \subseteq File \X Record!Lines
  /\ \A t \in asked.text : t.frozen
  /\ {t.place : t \in asked.text} = asked.sent

Grounded ==
  /\ event.evidence # {} /\ event.evidence \subseteq dispatch.sent
  /\ event.status = "confirmed" =>
       dispatch.status = "confirmed" /\ event.evidence \cap Record!RedactedLines = {}

RecordInv ==
  /\ pc \in {"idle", "build", "prompt"} /\ input \subseteq File
  /\ DOMAIN asked = {"status", "todo", "sent", "text"}
  /\ asked.status \in Record!Statuses \cup {None}
  /\ dispatch \in Dispatches \cup {None, Record!Part}
  /\ pc # "idle" => Gathered
  /\ pc = "prompt" => dispatch = [status |-> asked.status, sent |-> asked.sent]
  /\ event # None => event.status \in Record!Statuses \cup {"open", "disputed"}
  /\ event # None /\ event.status # "open" => dispatch \in Dispatches /\ Grounded
  /\ prompt # None =>
       /\ dispatch \in Dispatches
       /\ \A t \in prompt : t.frozen
       /\ {t.place : t \in prompt} = dispatch.sent

USE DEF Record!Statuses, Record!Lines, Record!RedactedLines, Record!Part, Record!Nothing

LEMMA RecordInit == Record!Init => RecordInv
BY DEF Record!Init, RecordInv

\* A dispatch is written once.
LEMMA DispatchIsSomething == None \notin Dispatches
BY VerdictAssumption DEF Dispatches

LEMMA RecordStep == RecordInv /\ Record!Next => RecordInv'
<1> SUFFICES ASSUME RecordInv, Record!Next PROVE RecordInv'
  OBVIOUS
<1>1. CASE \E f \in File : Record!Alter(f)
  BY <1>1 DEF RecordInv, Gathered, Grounded, Record!Alter
<1>2. CASE \E s \in Record!Statuses, rs \in Ranges : Record!Request(s, rs)
  <2> PICK s \in Record!Statuses, rs \in Ranges : Record!Request(s, rs)
    BY <1>2
  <2>1. /\ DOMAIN asked' = {"status", "todo", "sent", "text"} /\ asked'.status = s
        /\ asked'.sent = {} /\ asked'.text = {}
    BY DEF Record!Request
  <2>2. Gathered'
    BY <2>1 DEF Gathered
  <2> QED
    BY <2>1, <2>2 DEF RecordInv, Grounded, Record!Request
<1>3. CASE \E r \in asked.todo : Record!ReadRange(r)
  <2> PICK r \in asked.todo : Record!ReadRange(r)
    BY <1>3
  <2> DEFINE S == Record!Selected(r)
             T == {[place |-> p, frozen |-> Record!Frozen(r.file)] : p \in S}
  <2>1. /\ pc = "build" /\ r.file \in File /\ Record!Frozen(r.file)
        /\ UNCHANGED <<pc, input, dispatch, prompt, event>>
    BY DEF Record!ReadRange, Record!Matches, Record!Frozen, RecordInv
  <2>2. /\ DOMAIN asked' = {"status", "todo", "sent", "text"} /\ asked'.status = asked.status
        /\ asked'.sent = asked.sent \cup S /\ asked'.text = asked.text \cup T
    BY DEF Record!ReadRange, RecordInv
  <2>3. S \subseteq File \X (1..2)
    BY <2>1 DEF Record!Selected
  <2>4. /\ \A t \in T : t.frozen
        /\ {t.place : t \in T} = S
    <3> HIDE DEF S
    <3>1. \A p \in S : [place |-> p, frozen |-> Record!Frozen(r.file)] \in T
      OBVIOUS
    <3>2. \A t \in T : t.place \in S /\ t.frozen
      BY <2>1
    <3>3. \A p \in S : \E t \in T : t.place = p
      BY <3>1
    <3> HIDE DEF T
    <3> QED
      BY <3>2, <3>3
  <2>5. Gathered'
    <3> HIDE DEF S, T
    <3>1. Gathered
      BY <2>1 DEF RecordInv
    <3>2. {t.place : t \in asked.text \cup T} = {t.place : t \in asked.text} \cup {t.place : t \in T}
      OBVIOUS
    <3> QED
      BY <2>2, <2>3, <2>4, <3>1, <3>2 DEF Gathered
  <2> QED
    <3> HIDE DEF S, T
    <3> QED
      BY <2>1, <2>2, <2>5 DEF RecordInv, Grounded
<1>4. CASE Record!WriteDispatch
  <2>1. /\ pc = "build" /\ dispatch = None /\ Gathered
        /\ dispatch' = [status |-> asked.status, sent |-> asked.sent] /\ dispatch' \in Dispatches
        /\ pc' = "prompt" /\ UNCHANGED <<input, asked, prompt, event>>
    BY <1>4 DEF Record!WriteDispatch, Record!Scan, RecordInv, Gathered, Dispatches
  <2> QED
    BY <2>1, DispatchIsSomething DEF RecordInv, Gathered
<1>5. CASE Record!WritePrompt
  <2>1. /\ pc = "prompt" /\ Gathered /\ dispatch = [status |-> asked.status, sent |-> asked.sent]
        /\ prompt' = asked.text /\ pc' = "idle" /\ asked' = Record!Nothing
        /\ UNCHANGED <<input, dispatch, event>>
    BY <1>5 DEF Record!WritePrompt, RecordInv
  <2>2. dispatch \in Dispatches
    BY <2>1 DEF Gathered, Dispatches
  <2> QED
    BY <2>1, <2>2 DEF RecordInv, Gathered, Grounded
<1>6. CASE Record!Stop
  BY <1>6, DispatchIsSomething DEF RecordInv, Grounded, Record!Stop, Record!Refuse, Record!Scan
<1>7. CASE \E a \in Record!Answers, e \in {0, 124} : Record!Judge(a, e)
  <2> PICK a \in Record!Answers, e \in {0, 124} : Record!Judge(a, e)
    BY <1>7
  <2>1. /\ dispatch \in Dispatches /\ event' = Record!ParseAnswer(a, e)
        /\ UNCHANGED <<pc, input, asked, dispatch, prompt>>
    BY DEF Record!Judge, RecordInv
  <2>2. /\ event'.status \in {"confirmed", "needs_validation", "open", "disputed"}
        /\ event'.status # "open" => Grounded'
    <3>1. CASE Record!Decided(a, dispatch.sent, e)
      <4>1. /\ event' = [result |-> a.result, evidence |-> a.evidence,
                         status |-> Record!Status(dispatch.status, a)]
            /\ a.result \in {"VERIFIED", "REFUTED", "UNRESOLVED"}
            /\ a.evidence \subseteq dispatch.sent
            /\ a.result # "UNRESOLVED" => a.evidence # {}
        BY <2>1, <3>1 DEF Record!ParseAnswer, Record!Decided, Record!Results
      <4>2. /\ Record!Status(dispatch.status, a)
                 \in {"confirmed", "needs_validation", "open", "disputed"}
            /\ Record!Status(dispatch.status, a) # "open" => a.result # "UNRESOLVED"
            /\ Record!Status(dispatch.status, a) = "confirmed" =>
                 dispatch.status = "confirmed" /\ a.evidence \cap Record!RedactedLines = {}
        BY <4>1 DEF Record!Status
      <4> QED
        BY <2>1, <4>1, <4>2 DEF Grounded
    <3>2. CASE ~Record!Decided(a, dispatch.sent, e)
      BY <2>1, <3>2 DEF Record!ParseAnswer, Record!Unresolved
    <3> QED
      BY <3>1, <3>2
  <2> QED
    BY <2>1, <2>2 DEF RecordInv, Gathered
<1> QED
  BY <1>1, <1>2, <1>3, <1>4, <1>5, <1>6, <1>7 DEF Record!Next

LEMMA RecordStutter == RecordInv /\ UNCHANGED <<pc, recordOnly>> => RecordInv'
BY DEF RecordInv, Gathered, Grounded, recordOnly

LEMMA RecordSound == RecordInv => Record!VerdictIsGrounded
BY DEF RecordInv, Grounded, Record!VerdictIsGrounded

HIDE DEF Record!Statuses, Record!Lines, Record!RedactedLines, Record!Part, Record!Nothing

-----------------------------------------------------------------------------
(***************************************************************************)
(* The part "rollout": what is kept of each turn is the worst of what was  *)
(* read of it.                                                             *)
(***************************************************************************)
RollTyped ==
  /\ pc \in {"open", "read", "done"}
  /\ log \in Seq(Rolls!Records) /\ k \in 0..Len(log) /\ marked \in Seq(Turn \cup {None})
  /\ pc = "open" => k = 0
  /\ contexts \in [Turn -> Rolls!Verdicts \cup {None}]

KeptIsWorst == \A t \in Turn :
  /\ contexts[t] = None <=> Rolls!Judged(t) = {}
  /\ contexts[t] # None =>
       /\ contexts[t] \in Rolls!Judged(t)
       /\ \A v \in Rolls!Judged(t) : Rolls!Severity[v] <= Rolls!Severity[contexts[t]]

RollInv ==
  /\ RollTyped /\ KeptIsWorst
  /\ Rolls!Known = Rolls!MyTurns
  /\ Rolls!VerdictIsWorst

LEMMA JudgedIsVerdict ==
  ASSUME NEW c PROVE Rolls!JudgeContext(c) \in Rolls!Verdicts
BY DEF Rolls!JudgeContext, Rolls!Verdicts

LEMMA RollInit == Rolls!Init => RollInv
<1> SUFFICES ASSUME Rolls!Init PROVE RollInv
  OBVIOUS
<1>1. log = <<>> /\ k = 0 /\ contexts = [t \in Turn |-> None] /\ marked = <<>> /\ pc = "open"
  BY DEF Rolls!Init
<1>2. Rolls!Seen = {}
  BY <1>1 DEF Rolls!Seen
<1>3. RollTyped
  BY <1>1 DEF RollTyped
<1>4. KeptIsWorst
  BY <1>1, <1>2 DEF KeptIsWorst, Rolls!Judged
<1>5. Rolls!Known = Rolls!MyTurns
  BY <1>1, <1>2 DEF Rolls!Known, Rolls!MyTurns
<1> QED
  BY <1>1, <1>3, <1>4, <1>5 DEF RollInv, Rolls!VerdictIsWorst

\* The order of the verdicts.
LEMMA SeverityOrder ==
  /\ \A v \in Rolls!Verdicts : Rolls!Severity[v] \in 0..2
  /\ \A v \in Rolls!Verdicts : Rolls!Severity[v] >= 2 <=> v = "unsafe"
  /\ \A v \in Rolls!Verdicts : Rolls!Severity[v] <= 0 <=> v = "confirmed"
  /\ Rolls!Severity["confirmed"] = 0 /\ Rolls!Severity["unsafe"] = 2
BY DEF Rolls!Verdicts, Rolls!Severity

\* What is appended to the log changes nothing of what was read.
LEMMA SeenStays ==
  ASSUME log \in Seq(Rolls!Records), k \in 0..Len(log), NEW r \in Rolls!Records,
         log' = Append(log, r), k' = k
  PROVE  Rolls!Seen' = Rolls!Seen /\ log' \in Seq(Rolls!Records) /\ k' \in 0..Len(log')
BY DEF Rolls!Seen

LEMMA SeenGrows ==
  ASSUME log \in Seq(Rolls!Records), k \in 0..Len(log), k < Len(log), k' = k + 1, log' = log
  PROVE  /\ Rolls!Seen' = Rolls!Seen \cup {log[k + 1]} /\ k' \in 0..Len(log')
         /\ log[k + 1] \in Rolls!Records
<1>1. 1..(k + 1) = (1..k) \cup {k + 1}
  OBVIOUS
<1> QED
  BY <1>1 DEF Rolls!Seen

\* The verdicts of a turn, from what was read.
LEMMA JudgedOf ==
  /\ \A t \in Turn : Rolls!Judged(t) \subseteq Rolls!Verdicts
  /\ Rolls!Seen' = Rolls!Seen =>
       Rolls!MyTurns' = Rolls!MyTurns /\ \A t \in Turn : Rolls!Judged(t)' = Rolls!Judged(t)
BY JudgedIsVerdict DEF Rolls!Judged, Rolls!MyTurns

\* When reading ends, what is reported is the worst of what was kept.
LEMMA WorstOf ==
  ASSUME NEW S, S \subseteq {"confirmed", "unknown"}, S # {}
  PROVE  /\ Rolls!Worst(S) \in S
         /\ Rolls!Worst(S) = "confirmed" => S = {"confirmed"}
<1>0. Rolls!Severity["confirmed"] = 0 /\ Rolls!Severity["unknown"] = 1
  BY DEF Rolls!Severity
<1>1. \E v \in S : \A u \in S : Rolls!Severity[u] <= Rolls!Severity[v]
  <2>1. CASE "unknown" \in S
    BY <1>0, <2>1
  <2>2. CASE "unknown" \notin S
    <3>1. S = {"confirmed"}
      BY <2>2
    <3> QED
      BY <1>0, <3>1
  <2> QED
    BY <2>1, <2>2
<1>2. Rolls!Worst(S) \in S /\ \A u \in S : Rolls!Severity[u] <= Rolls!Severity[Rolls!Worst(S)]
  BY <1>1 DEF Rolls!Worst
<1>3. ASSUME Rolls!Worst(S) = "confirmed" PROVE "unknown" \notin S
  BY <1>0, <1>2, <1>3
<1> QED
  BY <1>2, <1>3

LEMMA UnsafeIsFound ==
  ASSUME RollInv
  PROVE  Rolls!WorstUnsafe <=> \E t \in Rolls!MyTurns \ {None} : "unsafe" \in Rolls!Judged(t)
<1>1. \A t \in Rolls!Known \ {None} : t \in Turn
  BY DEF Rolls!Known, RollInv, RollTyped
<1>2. \A t \in Turn : contexts[t] = "unsafe" <=> "unsafe" \in Rolls!Judged(t)
  <2> SUFFICES ASSUME NEW t \in Turn PROVE contexts[t] = "unsafe" <=> "unsafe" \in Rolls!Judged(t)
    OBVIOUS
  <2>1. contexts[t] \in Rolls!Verdicts \cup {None} /\ Rolls!Judged(t) \subseteq Rolls!Verdicts
    BY JudgedOf DEF RollInv, RollTyped
  <2>2. /\ contexts[t] = None <=> Rolls!Judged(t) = {}
        /\ contexts[t] # None =>
             /\ contexts[t] \in Rolls!Judged(t)
             /\ \A v \in Rolls!Judged(t) : Rolls!Severity[v] <= Rolls!Severity[contexts[t]]
    BY DEF RollInv, KeptIsWorst
  <2> QED
    BY <2>1, <2>2, SeverityOrder, VerdictAssumption
<1> QED
  BY <1>1, <1>2 DEF RollInv, Rolls!WorstUnsafe

LEMMA RollRead == RollInv /\ Rolls!ReadRecord => RollInv'
<1> SUFFICES ASSUME RollInv, Rolls!ReadRecord PROVE RollInv'
  OBVIOUS
<1> DEFINE r == log[k + 1]
<1>1. /\ Rolls!Seen' = Rolls!Seen \cup {r} /\ k' \in 0..Len(log') /\ r \in Rolls!Records
      /\ log' = log /\ pc = "read" /\ pc' = "read" /\ k' = k + 1
  BY SeenGrows DEF Rolls!ReadRecord, RollInv, RollTyped
<1>2. RollTyped'
  <2>1. CASE r.kind = "context"
    <3>1. r \in Rolls!Context
      BY <1>1, <2>1 DEF Rolls!Records, Rolls!Message, Rolls!Other
    <3>2. Rolls!Keep(r.turn, Rolls!JudgeContext(r)) \in Rolls!Verdicts \cup {None}
      BY <3>1, JudgedIsVerdict DEF Rolls!Context, Rolls!Keep, RollInv, RollTyped
    <3>3. /\ contexts' = [contexts EXCEPT ![r.turn] = Rolls!Keep(r.turn, Rolls!JudgeContext(r))]
          /\ marked' = marked
      BY <2>1 DEF Rolls!ReadRecord
    <3> HIDE DEF r
    <3> QED
      BY <1>1, <3>2, <3>3 DEF RollInv, RollTyped
  <2>2. CASE r.kind = "marked"
    <3>1. r.turn \in Turn \cup {None}
      BY <1>1, <2>2 DEF Rolls!Records, Rolls!Context, Rolls!Message, Rolls!Other
    <3>2. contexts' = contexts /\ marked' = Append(marked, r.turn)
      BY <2>2 DEF Rolls!ReadRecord
    <3> HIDE DEF r
    <3> QED
      BY <1>1, <3>1, <3>2 DEF RollInv, RollTyped
  <2>3. CASE r.kind \notin {"context", "marked"}
    BY <1>1, <2>3 DEF Rolls!ReadRecord, RollInv, RollTyped
  <2> QED
    BY <2>1, <2>2, <2>3
<1>3. Rolls!Known' = Rolls!MyTurns'
  <2>1. CASE r.kind = "marked"
    <3>1. marked' = Append(marked, r.turn) /\ marked \in Seq(Turn \cup {None})
      BY <2>1 DEF Rolls!ReadRecord, RollInv, RollTyped
    <3>2. Rolls!Known' = Rolls!Known \cup {r.turn}
      BY <3>1 DEF Rolls!Known
    <3>3. Rolls!MyTurns' = Rolls!MyTurns \cup {r.turn}
      BY <1>1, <2>1 DEF Rolls!MyTurns
    <3> QED
      BY <3>2, <3>3 DEF RollInv
  <2>2. CASE r.kind # "marked"
    <3>1. Rolls!MyTurns' = Rolls!MyTurns
      BY <1>1, <2>2 DEF Rolls!MyTurns
    <3> QED
      BY <2>2, <3>1 DEF Rolls!ReadRecord, Rolls!Known, RollInv
  <2> QED
    BY <2>1, <2>2
<1>4. KeptIsWorst'
  <2> SUFFICES ASSUME NEW t \in Turn
               PROVE  /\ contexts'[t] = None <=> Rolls!Judged(t)' = {}
                      /\ contexts'[t] # None =>
                           /\ contexts'[t] \in Rolls!Judged(t)'
                           /\ \A v \in Rolls!Judged(t)' :
                                Rolls!Severity[v] <= Rolls!Severity[contexts'[t]]
    BY DEF KeptIsWorst
  <2>0. /\ contexts[t] = None <=> Rolls!Judged(t) = {}
        /\ contexts[t] # None =>
             /\ contexts[t] \in Rolls!Judged(t)
             /\ \A v \in Rolls!Judged(t) : Rolls!Severity[v] <= Rolls!Severity[contexts[t]]
    BY DEF RollInv, KeptIsWorst
  <2>1. CASE r.kind = "context" /\ r.turn = t
    <3> DEFINE j == Rolls!JudgeContext(r)
    <3>1. Rolls!Judged(t)' = Rolls!Judged(t) \cup {j}
      BY <1>1, <2>1 DEF Rolls!Judged
    <3>2. contexts'[t] = Rolls!Keep(t, j)
      BY <2>1 DEF Rolls!ReadRecord, RollInv, RollTyped
    <3>3. j \in Rolls!Verdicts /\ Rolls!Judged(t) \subseteq Rolls!Verdicts
      BY JudgedIsVerdict, JudgedOf
    <3>4. j # None
      BY <3>3, VerdictAssumption DEF Rolls!Verdicts
    <3> HIDE DEF j
    <3>5. \A u, v \in Rolls!Verdicts : Rolls!Severity[v] \in Int /\ Rolls!Severity[u] \in Int
      BY SeverityOrder
    <3>6. CASE contexts[t] = None \/ Rolls!Severity[j] >= Rolls!Severity[contexts[t]]
      BY <2>0, <3>1, <3>2, <3>3, <3>4, <3>5, <3>6 DEF Rolls!Keep
    <3>7. CASE ~(contexts[t] = None \/ Rolls!Severity[j] >= Rolls!Severity[contexts[t]])
      BY <2>0, <3>1, <3>2, <3>3, <3>4, <3>5, <3>7 DEF Rolls!Keep
    <3> QED
      BY <3>6, <3>7
  <2>2. CASE ~(r.kind = "context" /\ r.turn = t)
    <3>1. Rolls!Judged(t)' = Rolls!Judged(t)
      BY <1>1, <2>2 DEF Rolls!Judged
    <3>2. contexts'[t] = contexts[t]
      BY <2>2 DEF Rolls!ReadRecord, RollInv, RollTyped
    <3> QED
      BY <2>0, <3>1, <3>2
  <2> QED
    BY <2>1, <2>2
<1> QED
  BY <1>1, <1>2, <1>3, <1>4 DEF RollInv, Rolls!VerdictIsWorst

LEMMA RollAtEnd == RollInv /\ Rolls!AtEnd => RollInv'
<1> SUFFICES ASSUME RollInv, Rolls!AtEnd PROVE RollInv'
  OBVIOUS
<1>1. /\ pc = "read" /\ pc' = "done" /\ UNCHANGED <<log, k, contexts, marked>>
      /\ verdict' = [is |-> IF Rolls!WorstUnsafe THEN "unsafe"
                            ELSE IF \/ Rolls!Known = {} \/ None \in Rolls!Known
                                    \/ \E t \in Rolls!Known : contexts[t] = None THEN "unbound"
                            ELSE Rolls!Worst({contexts[t] : t \in Rolls!Known}),
                     read |-> TRUE]
  BY DEF Rolls!AtEnd, Rolls!Finish
<1>2. Rolls!Seen' = Rolls!Seen
  BY <1>1 DEF Rolls!Seen
<1>3. Rolls!MyTurns' = Rolls!MyTurns /\ \A t \in Turn : Rolls!Judged(t)' = Rolls!Judged(t)
  BY <1>2, JudgedOf
<1>4. RollTyped' /\ KeptIsWorst' /\ Rolls!Known' = Rolls!MyTurns'
  BY <1>1, <1>3 DEF RollInv, RollTyped, KeptIsWorst, Rolls!Known
<1>5. Rolls!MyTurns \ {None} \subseteq Turn
  BY DEF RollInv, RollTyped, Rolls!Known
<1>6. Rolls!VerdictIsWorst'
  <2>1. CASE Rolls!WorstUnsafe
    BY <1>1, <1>3, <1>5, <2>1, UnsafeIsFound DEF Rolls!VerdictIsWorst
  <2>2. CASE /\ ~Rolls!WorstUnsafe
             /\ \/ Rolls!Known = {} \/ None \in Rolls!Known
                \/ \E t \in Rolls!Known : contexts[t] = None
    <3>1. verdict'.is = "unbound"
      BY <1>1, <2>2
    <3> QED
      BY <1>1, <1>3, <1>5, <2>2, <3>1, UnsafeIsFound DEF Rolls!VerdictIsWorst
  <2>3. CASE /\ ~Rolls!WorstUnsafe /\ Rolls!Known # {} /\ None \notin Rolls!Known
             /\ \A t \in Rolls!Known : contexts[t] # None
    <3> DEFINE S == {contexts[t] : t \in Rolls!Known}
    <3>1. Rolls!MyTurns = Rolls!Known /\ Rolls!Known \subseteq Turn
      BY <1>5, <2>3 DEF RollInv
    <3>2. S # {} /\ S \subseteq {"confirmed", "unknown"}
      BY <2>3, <3>1 DEF Rolls!WorstUnsafe, RollInv, RollTyped, Rolls!Verdicts
    <3>3. verdict'.is = Rolls!Worst(S) /\ verdict'.read
      BY <1>1, <2>3
    <3> HIDE DEF S
    <3>4. /\ verdict'.is \in {"confirmed", "unknown"}
          /\ verdict'.is = "confirmed" => S = {"confirmed"}
      BY <3>2, <3>3, WorstOf
    <3>5. \A t \in Rolls!MyTurns : Rolls!Judged(t) # {}
      BY <2>3, <3>1 DEF RollInv, KeptIsWorst
    <3>6. ASSUME verdict'.is = "confirmed", NEW t \in Rolls!MyTurns
          PROVE  Rolls!Judged(t) = {"confirmed"}
      <4>1. contexts[t] = "confirmed" /\ t \in Turn
        BY <3>1, <3>4, <3>6 DEF S
      <4>2. /\ "confirmed" \in Rolls!Judged(t) /\ Rolls!Judged(t) \subseteq Rolls!Verdicts
            /\ \A v \in Rolls!Judged(t) : Rolls!Severity[v] <= Rolls!Severity["confirmed"]
        BY <4>1, JudgedOf, VerdictAssumption DEF RollInv, KeptIsWorst
      <4> QED
        BY <4>2, SeverityOrder
    <3> QED
      BY <1>1, <1>3, <2>3, <3>1, <3>3, <3>4, <3>5, <3>6, UnsafeIsFound DEF Rolls!VerdictIsWorst
  <2> QED
    BY <2>1, <2>2, <2>3
<1> QED
  BY <1>4, <1>6 DEF RollInv

\* A step that reads nothing.
LEMMA NothingRead ==
  ASSUME RollInv, Rolls!Seen' = Rolls!Seen, UNCHANGED <<contexts, marked>>
  PROVE  /\ KeptIsWorst' /\ Rolls!Known' = Rolls!MyTurns'
         /\ UNCHANGED <<pc, verdict>> => Rolls!VerdictIsWorst'
<1>1. Rolls!MyTurns' = Rolls!MyTurns /\ \A t \in Turn : Rolls!Judged(t)' = Rolls!Judged(t)
  BY JudgedOf
<1>2. Rolls!MyTurns \ {None} \subseteq Turn
  BY DEF RollInv, RollTyped, Rolls!Known
<1>3. KeptIsWorst' /\ Rolls!Known' = Rolls!MyTurns'
  BY <1>1 DEF RollInv, KeptIsWorst, Rolls!Known
<1>4. ASSUME UNCHANGED <<pc, verdict>> PROVE Rolls!VerdictIsWorst'
  <2>1. verdict.is \in {"confirmed", "unknown"} /\ pc = "done" => None \notin Rolls!MyTurns
    BY DEF RollInv, Rolls!VerdictIsWorst
  <2>2. verdict.is = "confirmed" /\ pc = "done" => Rolls!MyTurns \subseteq Turn
    BY <1>2, <2>1
  <2>3. verdict.is = "unknown" /\ pc = "done" => Rolls!MyTurns \subseteq Turn
    BY <1>2, <2>1
  <2> QED
    BY <1>1, <1>2, <1>4, <2>1, <2>2, <2>3 DEF RollInv, Rolls!VerdictIsWorst
<1> QED
  BY <1>3, <1>4

LEMMA RollStep == RollInv /\ Rolls!Next => RollInv'
<1> SUFFICES ASSUME RollInv, Rolls!Next PROVE RollInv'
  OBVIOUS
<1>2. CASE Rolls!Append1
  <2>1. PICK r \in Rolls!Records : log' = Append(log, r)
    BY <1>2 DEF Rolls!Append1
  <2>2. Rolls!Seen' = Rolls!Seen /\ log' \in Seq(Rolls!Records) /\ k' \in 0..Len(log')
    BY <1>2, <2>1, SeenStays DEF Rolls!Append1, RollInv, RollTyped
  <2> QED
    BY NothingRead, <1>2, <2>2 DEF Rolls!Append1, RollInv, RollTyped
<1>3. CASE Rolls!OpenRollout
  <2>1. UNCHANGED <<log, k, contexts, marked>> /\ pc = "open" /\ RollTyped'
    BY <1>3 DEF Rolls!OpenRollout, Rolls!Finish, RollInv, RollTyped
  <2>2. Rolls!Seen' = Rolls!Seen
    BY <2>1 DEF Rolls!Seen
  <2> QED
    <3>1. KeptIsWorst' /\ Rolls!Known' = Rolls!MyTurns'
      BY <2>1, <2>2, NothingRead
    <3>2. Rolls!MyTurns' = {}
      BY <2>1, <2>2 DEF RollInv, RollTyped, Rolls!Seen, Rolls!MyTurns
    <3>3. pc' = "read" \/ verdict'.is = "unbound"
      BY <1>3 DEF Rolls!OpenRollout, Rolls!Finish
    <3> QED
      BY <2>1, <3>1, <3>2, <3>3 DEF RollInv, Rolls!VerdictIsWorst
<1>5. CASE Rolls!ReadFails
  <2>1. UNCHANGED <<log, k, contexts, marked>> /\ RollTyped'
    BY <1>5 DEF Rolls!ReadFails, Rolls!Finish, RollInv, RollTyped
  <2>2. Rolls!Seen' = Rolls!Seen
    BY <2>1 DEF Rolls!Seen
  <2> QED
    <3>1. KeptIsWorst' /\ Rolls!Known' = Rolls!MyTurns'
      BY <2>1, <2>2, NothingRead
    <3>2. Rolls!MyTurns' = Rolls!MyTurns /\ \A t \in Turn : Rolls!Judged(t)' = Rolls!Judged(t)
      BY <2>2, JudgedOf
    <3>3. Rolls!MyTurns \ {None} \subseteq Turn
      BY DEF RollInv, RollTyped, Rolls!Known
    <3>4. verdict'.is = IF Rolls!WorstUnsafe THEN "unsafe" ELSE "unbound"
      BY <1>5 DEF Rolls!ReadFails, Rolls!Finish
    <3>5. verdict'.is = "unsafe" <=> Rolls!WorstUnsafe
      BY <3>4
    <3>6. verdict'.is \notin {"confirmed", "unknown"}
      BY <3>4
    <3> QED
      BY <2>1, <3>1, <3>2, <3>3, <3>5, <3>6, UnsafeIsFound DEF RollInv, Rolls!VerdictIsWorst
<1> QED
  BY <1>2, <1>3, <1>5, RollRead, RollAtEnd DEF Rolls!Next

LEMMA RollStutter == RollInv /\ UNCHANGED <<pc, k, verdict, rollOnly>> => RollInv'
<1> SUFFICES ASSUME RollInv, UNCHANGED <<pc, k, verdict, rollOnly>> PROVE RollInv'
  OBVIOUS
<1>1. Rolls!Seen' = Rolls!Seen
  BY DEF Rolls!Seen, rollOnly
<1>2. RollTyped'
  BY DEF RollInv, RollTyped, rollOnly
<1> QED
  BY <1>1, <1>2, NothingRead DEF RollInv, rollOnly

-----------------------------------------------------------------------------
(***************************************************************************)
(* The part "turn": each field of the evidence is a fact about the lines.  *)
(***************************************************************************)
Closing == {"completed", "failed"}
Shown(line) == \E i \in 1..Len(lines) : lines[i] = line

\* After the last turn began, or at all when none did.
Since(kinds) == \E i \in 1..Len(lines) :
  lines[i] \in kinds /\ \A j \in i..Len(lines) : lines[j] # "turn"

\* The three ways in which lines are out of order.
ThreadInTurn == \E i, j \in 1..Len(lines) : i < j /\ lines[i] = "turn" /\ lines[j] = "thread"
ItemAfterEnd == \E i, j \in 1..Len(lines) :
  /\ i < j /\ lines[i] \in Closing /\ lines[j] \in Turns!Items
  /\ \A m \in i..j : lines[m] # "turn"
EndOfNothing == \E i \in 1..Len(lines) :
  lines[i] = "completed" /\ \A j \in 1..i : lines[j] # "turn"

Counts == {"executed", "succeeded", "denied", "unclassified", "bad"}
Flags  == {"thread", "turn", "complete", "failed", "closed", "disorder", "oversized", "missing"}

EvidenceTyped ==
  /\ DOMAIN ev = Counts \cup Flags
  /\ ev.executed \in Nat /\ ev.succeeded \in Nat /\ ev.denied \in Nat
  /\ ev.unclassified \in Nat /\ ev.bad \in Nat
  /\ ev.thread \in BOOLEAN /\ ev.turn \in BOOLEAN /\ ev.complete \in BOOLEAN
  /\ ev.failed \in BOOLEAN /\ ev.closed \in BOOLEAN /\ ev.disorder \in BOOLEAN
  /\ ev.oversized \in BOOLEAN /\ ev.missing \in BOOLEAN

EvidenceIsOfLines ==
  /\ ev.thread <=> Shown("thread")
  /\ ev.turn <=> Shown("turn")
  /\ ev.bad > 0 <=> Shown("bad")
  /\ ev.closed <=> Since(Closing)
  /\ ev.failed <=> Since({"failed"})
  /\ ev.complete <=> Shown("turn") /\ Since({"completed"}) /\ ~Since({"failed"})
  /\ ev.disorder <=> ThreadInTurn \/ ItemAfterEnd \/ EndOfNothing
  /\ ev.succeeded > 0 <=> Turns!Ran({"succeeded"})
  /\ ev.denied > 0 <=> Turns!Ran({"denied"})
  /\ ev.unclassified > 0 <=> Turns!Ran({"odd"})
  /\ ev.executed > 0 <=>
       Turns!Ran({"succeeded"}) \/ Turns!Ran({"denied"}) \/ Turns!Ran({"ordinary"})

TurnInv ==
  /\ pc \in {"read", "judge", "done"} /\ lines \in Seq(Turns!Lines)
  /\ EvidenceTyped /\ EvidenceIsOfLines
  /\ pc = "done" => verdict.stderr \in Turns!Stderr /\ verdict.blind = Turns!Blind(ev, verdict.stderr)

LEMMA TurnInit == Turns!Init => TurnInv
<1> SUFFICES ASSUME Turns!Init PROVE TurnInv
  OBVIOUS
<1>1. pc = "read" /\ lines = <<>> /\ ev = Turns!NothingProven
  BY DEF Turns!Init
<1>2. 1..Len(lines) = {}
  BY <1>1
<1>3. EvidenceTyped
  BY <1>1 DEF EvidenceTyped, Counts, Flags, Turns!NothingProven
<1>4. \A kinds : ~Turns!Ran(kinds)
  BY <1>2 DEF Turns!Ran, Turns!LastTurn
<1>5. EvidenceIsOfLines
  BY <1>1, <1>2, <1>4 DEF EvidenceIsOfLines, Shown, Since, ThreadInTurn, ItemAfterEnd, EndOfNothing,
     Turns!NothingProven
<1> QED
  BY <1>1, <1>3, <1>5 DEF TurnInv

\* What one more line changes.
LEMMA LateGrows ==
  ASSUME lines \in Seq(Turns!Lines), NEW line \in Turns!Lines, lines' = Append(lines, line),
         NEW kinds, "turn" \notin kinds
  PROVE  Since(kinds)' <=> line # "turn" /\ (Since(kinds) \/ line \in kinds)
<1>1. /\ Len(lines') = Len(lines) + 1 /\ lines'[Len(lines) + 1] = line /\ Len(lines) \in Nat
      /\ \A i \in 1..Len(lines) : lines'[i] = lines[i]
  OBVIOUS
<1> QED
  BY <1>1 DEF Since

LEMMA ShownGrows ==
  ASSUME lines \in Seq(Turns!Lines), NEW line \in Turns!Lines, lines' = Append(lines, line), NEW l
  PROVE  Shown(l)' <=> Shown(l) \/ line = l
BY DEF Shown

LEMMA DisorderGrows ==
  ASSUME lines \in Seq(Turns!Lines), NEW line \in Turns!Lines, lines' = Append(lines, line)
  PROVE  /\ ThreadInTurn' <=> ThreadInTurn \/ (line = "thread" /\ Shown("turn"))
         /\ ItemAfterEnd' <=> ItemAfterEnd \/ (line \in Turns!Items /\ Since(Closing))
         /\ EndOfNothing' <=> EndOfNothing \/ (line = "completed" /\ ~Shown("turn"))
<1>1. /\ Len(lines') = Len(lines) + 1 /\ lines'[Len(lines) + 1] = line /\ Len(lines) \in Nat
      /\ \A i \in 1..Len(lines) : lines'[i] = lines[i]
  OBVIOUS
<1>2. ThreadInTurn' <=> ThreadInTurn \/ (line = "thread" /\ Shown("turn"))
  BY <1>1 DEF ThreadInTurn, Shown
<1>3. ItemAfterEnd' <=> ItemAfterEnd \/ (line \in Turns!Items /\ Since(Closing))
  BY <1>1 DEF ItemAfterEnd, Since, Closing, Turns!Items
<1>4. EndOfNothing' <=> EndOfNothing \/ (line = "completed" /\ ~Shown("turn"))
  BY <1>1 DEF EndOfNothing, Shown
<1> QED
  BY <1>2, <1>3, <1>4

LEMMA LastTurnGrows ==
  ASSUME lines \in Seq(Turns!Lines), NEW line \in Turns!Lines, lines' = Append(lines, line)
  PROVE  /\ line = "turn" => Turns!LastTurn' = {Len(lines) + 1}
         /\ line # "turn" /\ Shown("turn") => Turns!LastTurn' = Turns!LastTurn \cup {Len(lines) + 1}
         /\ line # "turn" /\ ~Shown("turn") => Turns!LastTurn' = {}
<1>1. /\ Len(lines') = Len(lines) + 1 /\ lines'[Len(lines) + 1] = line /\ Len(lines) \in Nat
      /\ \A i \in 1..Len(lines) : lines'[i] = lines[i]
      /\ 1..Len(lines') = 1..Len(lines) \cup {Len(lines) + 1}
  OBVIOUS
<1> DEFINE S == {i \in 1..Len(lines) : lines[i] = "turn"}
           T == {i \in 1..Len(lines') : lines'[i] = "turn"}
<1>2. T = IF line = "turn" THEN S \cup {Len(lines) + 1} ELSE S
  BY <1>1
<1>3. S = {} <=> ~Shown("turn")
  BY DEF Shown
<1>4. Turns!LastTurn = IF S = {} THEN {} ELSE {i \in 1..Len(lines) : \A j \in S : j <= i}
  BY DEF Turns!LastTurn
<1>5. Turns!LastTurn' = IF T = {} THEN {} ELSE {i \in 1..Len(lines') : \A j \in T : j <= i}
  BY DEF Turns!LastTurn
<1>6. \A j \in S : j \in Int /\ j <= Len(lines)
  BY <1>1
<1> HIDE DEF S, T
<1>7. CASE line = "turn"
  BY <1>1, <1>2, <1>5, <1>6, <1>7
<1>8. CASE line # "turn"
  BY <1>1, <1>2, <1>3, <1>4, <1>5, <1>6, <1>8
<1> QED
  BY <1>7, <1>8

\* The last turn is what was read since it began.
LEMMA LastTurnIs ==
  ASSUME lines \in Seq(Turns!Lines)
  PROVE  /\ Turns!LastTurn \subseteq 1..Len(lines)
         /\ Turns!LastTurn # {} <=> Shown("turn")
         /\ \A i \in 1..Len(lines) : i \in Turns!LastTurn <=>
              Shown("turn") /\ \A j \in (i + 1)..Len(lines) : lines[j] # "turn"
<1> DEFINE S == {i \in 1..Len(lines) : lines[i] = "turn"}
<1>1. Turns!LastTurn = IF S = {} THEN {} ELSE {i \in 1..Len(lines) : \A j \in S : j <= i}
  BY DEF Turns!LastTurn
<1>2. S = {} <=> ~Shown("turn")
  BY DEF Shown
<1>3. Len(lines) \in Nat /\ \A j \in S : j \in 1..Len(lines)
  OBVIOUS
<1>4. S # {} => Len(lines) \in Turns!LastTurn
  BY <1>1, <1>3
<1>5. \A i \in 1..Len(lines) : (\A j \in S : j <= i) <=> \A j \in (i + 1)..Len(lines) : lines[j] # "turn"
  OBVIOUS
<1> HIDE DEF S
<1> QED
  BY <1>1, <1>2, <1>3, <1>4, <1>5

LEMMA SinceLastTurn ==
  ASSUME lines \in Seq(Turns!Lines), Shown("turn"), NEW kinds, "turn" \notin kinds
  PROVE  Since(kinds) <=> \E i \in Turns!LastTurn : lines[i] \in kinds
<1>1. \A i \in 1..Len(lines) : i \in Turns!LastTurn <=>
        \A j \in (i + 1)..Len(lines) : lines[j] # "turn"
  BY LastTurnIs
<1>2. ASSUME NEW i \in 1..Len(lines), lines[i] \in kinds
      PROVE  (\A j \in (i + 1)..Len(lines) : lines[j] # "turn") <=>
             (\A j \in i..Len(lines) : lines[j] # "turn")
  BY <1>2
<1> QED
  BY <1>1, <1>2, LastTurnIs DEF Since

LEMMA RanGrows ==
  ASSUME lines \in Seq(Turns!Lines), NEW line \in Turns!Lines, lines' = Append(lines, line),
         NEW kinds, "turn" \notin kinds
  PROVE  Turns!Ran(kinds)' <=>
           /\ line # "turn"
           /\ Turns!Ran(kinds) \/ (line \in kinds /\ line \notin Closing /\ Shown("turn") /\ ~Since(Closing))
<1>1. /\ Len(lines') = Len(lines) + 1 /\ lines'[Len(lines) + 1] = line /\ Len(lines) \in Nat
      /\ \A i \in 1..Len(lines) : lines'[i] = lines[i]
  OBVIOUS
<1>2. Turns!LastTurn \subseteq 1..Len(lines)
  BY LastTurnIs
<1>3. CASE line = "turn"
  BY <1>1, <1>3, LastTurnGrows DEF Turns!Ran
<1>4. CASE line # "turn" /\ ~Shown("turn")
  <2>1. Turns!LastTurn' = {} /\ Turns!LastTurn = {}
    BY <1>4, LastTurnGrows, LastTurnIs
  <2> QED
    BY <1>4, <2>1 DEF Turns!Ran
<1>5. CASE line # "turn" /\ Shown("turn")
  <2>1. Turns!LastTurn' = Turns!LastTurn \cup {Len(lines) + 1}
    BY <1>5, LastTurnGrows
  <2>2. Since(Closing) <=> \E i \in Turns!LastTurn : lines[i] \in Closing
    BY <1>5, SinceLastTurn DEF Closing
  <2> DEFINE stays(i) == \A j \in Turns!LastTurn \cup {Len(lines) + 1} :
                           lines'[j] \in {"completed", "failed"} => i < j
  <2>3. \A i \in Turns!LastTurn : stays(i) <=> Turns!Open(i)
    BY <1>1, <1>2 DEF Turns!Open
  <2>4. stays(Len(lines) + 1) <=> ~Since(Closing) /\ line \notin Closing
    BY <1>1, <1>2, <2>2 DEF Closing
  <2>5. Turns!Ran(kinds)' <=>
          \E i \in Turns!LastTurn \cup {Len(lines) + 1} : stays(i) /\ lines'[i] \in kinds
    BY <2>1 DEF Turns!Ran, Turns!Open
  <2>6. Turns!Ran(kinds) <=> \E i \in Turns!LastTurn : Turns!Open(i) /\ lines[i] \in kinds
    BY DEF Turns!Ran
  <2> HIDE DEF stays
  <2>9. Turns!Ran(kinds)' <=>
          Turns!Ran(kinds) \/ (line \in kinds /\ line \notin Closing /\ ~Since(Closing))
    BY <1>1, <1>2, <2>3, <2>4, <2>5, <2>6
  <2> QED
    BY <1>5, <2>9
<1> QED
  BY <1>3, <1>4, <1>5

\* What one more line makes of the evidence, field by field.
Changes(S) == DOMAIN ev' = Counts \cup Flags /\ \A f \in (Counts \cup Flags) \ S : ev'[f] = ev[f]

LEMMA AfterLine ==
  ASSUME EvidenceTyped, NEW line \in Turns!Lines, ev' = Turns!After(ev, line)
  PROVE  /\ line = "thread" =>
              Changes({"thread", "disorder"}) /\ ev'.thread = TRUE /\ ev'.disorder = (ev.disorder \/ ev.turn)
         /\ line = "turn" =>
              /\ Changes({"turn", "closed", "complete", "failed"} \cup (Counts \ {"bad"}))
              /\ ev'.turn = TRUE /\ ev'.closed = FALSE /\ ev'.complete = FALSE /\ ev'.failed = FALSE
              /\ ev'.executed = 0 /\ ev'.succeeded = 0 /\ ev'.denied = 0 /\ ev'.unclassified = 0
         /\ line = "completed" =>
              /\ Changes({"disorder", "closed", "complete"})
              /\ ev'.disorder = (ev.disorder \/ ~ev.turn) /\ ev'.closed = TRUE
              /\ ev'.complete = (ev.turn /\ ~ev.failed)
         /\ line = "failed" =>
              Changes({"failed", "complete", "closed"}) /\ ev'.failed = TRUE /\ ev'.complete = FALSE /\ ev'.closed = TRUE
         /\ line = "bad" => Changes({"bad"}) /\ ev'.bad = ev.bad + 1
         /\ line \in Turns!Items =>
              IF ev.closed THEN Changes({"disorder"}) /\ ev'.disorder = TRUE
              ELSE IF ~ev.turn THEN ev' = ev
              ELSE /\ Changes(Counts \ {"bad"})
                   /\ ev'.executed = ev.executed + (IF line \in {"succeeded", "denied", "ordinary"} THEN 1 ELSE 0)
                   /\ ev'.succeeded = ev.succeeded + (IF line = "succeeded" THEN 1 ELSE 0)
                   /\ ev'.denied = ev.denied + (IF line = "denied" THEN 1 ELSE 0)
                   /\ ev'.unclassified = ev.unclassified + (IF line = "odd" THEN 1 ELSE 0)
<1> USE DEF Counts, Flags, Changes
<1>1. DOMAIN ev = Counts \cup Flags
  BY DEF EvidenceTyped
<1>2. CASE line = "thread"
  <2>1. ev' = [ev EXCEPT !.disorder = ev.disorder \/ ev.turn, !.thread = TRUE]
    BY <1>2 DEF Turns!After, Turns!Items
  <2>2. Changes({"thread", "disorder"})
    BY <1>1, <2>1
  <2>3. ev'.thread /\ ev'.disorder = (ev.disorder \/ ev.turn)
    BY <1>1, <2>1
  <2> QED
    BY <1>2, <2>2, <2>3 DEF Turns!Items
<1>3. CASE line = "turn"
  <2>1. ev' = Turns!TurnStarted(ev)
    BY <1>3 DEF Turns!After, Turns!Items
  <2> QED
    BY <1>1, <1>3, <2>1 DEF Turns!TurnStarted, Turns!Items
<1>4. CASE line = "completed"
  <2>1. ev' = [ev EXCEPT !.disorder = ev.disorder \/ ~ev.turn, !.closed = TRUE,
                         !.complete = ev.turn /\ ~ev.failed]
    BY <1>4 DEF Turns!After, Turns!Items
  <2> QED
    BY <1>1, <1>4, <2>1 DEF Turns!Items
<1>5. CASE line = "failed"
  <2>1. ev' = [ev EXCEPT !.failed = TRUE, !.complete = FALSE, !.closed = TRUE]
    BY <1>5 DEF Turns!After, Turns!Items
  <2> QED
    BY <1>1, <1>5, <2>1 DEF Turns!Items
<1>6. CASE line = "bad"
  <2>1. ev' = [ev EXCEPT !.bad = ev.bad + 1]
    BY <1>6 DEF Turns!After, Turns!Items
  <2> QED
    BY <1>1, <1>6, <2>1 DEF Turns!Items
<1>7. CASE line \in Turns!Items
  <2>0. line \notin {"thread", "turn", "completed", "failed", "bad"}
    BY <1>7 DEF Turns!Items
  <2>1. ev' = IF ev.closed THEN [ev EXCEPT !.disorder = TRUE]
              ELSE IF ev.turn THEN Turns!Count(ev, line) ELSE ev
    BY <1>7, <2>0 DEF Turns!After, Turns!Items
  <2>2. CASE ev.closed
    BY <1>1, <1>7, <2>0, <2>1, <2>2
  <2>3. CASE ~ev.closed /\ ~ev.turn
    BY <1>1, <1>7, <2>0, <2>1, <2>3
  <2>4. CASE ~ev.closed /\ ev.turn
    <3>1. ev' = Turns!Count(ev, line)
      BY <2>1, <2>4
    <3>2. CASE line = "succeeded"
      <4>1. ev' = [ev EXCEPT !.executed = ev.executed + 1, !.succeeded = ev.succeeded + 1]
        BY <3>1, <3>2 DEF Turns!Count
      <4>2. /\ ev'.executed = ev.executed + 1 /\ ev'.succeeded = ev.succeeded + 1
            /\ ev'.denied = ev.denied /\ ev'.unclassified = ev.unclassified
        BY <1>1, <4>1
      <4>3. Changes(Counts \ {"bad"})
        BY <1>1, <4>1
      <4> QED
        BY <2>0, <2>4, <3>2, <4>2, <4>3 DEF EvidenceTyped
    <3>3. CASE line = "denied"
      <4>1. ev' = [ev EXCEPT !.executed = ev.executed + 1, !.denied = ev.denied + 1]
        BY <3>1, <3>3 DEF Turns!Count
      <4>2. /\ ev'.executed = ev.executed + 1 /\ ev'.denied = ev.denied + 1
            /\ ev'.succeeded = ev.succeeded /\ ev'.unclassified = ev.unclassified
        BY <1>1, <4>1
      <4>3. Changes(Counts \ {"bad"})
        BY <1>1, <4>1
      <4> QED
        BY <2>0, <2>4, <3>3, <4>2, <4>3 DEF EvidenceTyped
    <3>4. CASE line = "ordinary"
      <4>1. ev' = [ev EXCEPT !.executed = ev.executed + 1]
        BY <3>1, <3>4 DEF Turns!Count
      <4> QED
        BY <1>1, <2>0, <2>4, <3>4, <4>1 DEF EvidenceTyped
    <3>5. CASE line = "odd"
      <4>1. ev' = [ev EXCEPT !.unclassified = ev.unclassified + 1]
        BY <3>1, <3>5 DEF Turns!Count
      <4> QED
        BY <1>1, <2>0, <2>4, <3>5, <4>1 DEF EvidenceTyped
    <3>6. CASE line = "text"
      <4>1. ev' = ev
        BY <3>1, <3>6 DEF Turns!Count
      <4> QED
        BY <1>1, <2>0, <2>4, <3>6, <4>1 DEF EvidenceTyped
    <3> QED
      BY <1>7, <3>2, <3>3, <3>4, <3>5, <3>6 DEF Turns!Items
  <2> QED
    BY <2>2, <2>3, <2>4
<1> QED
  BY <1>2, <1>3, <1>4, <1>5, <1>6, <1>7 DEF Turns!Lines

\* One more line, read by the code, and what it shows.
LEMMA EvidenceGrows ==
  ASSUME TurnInv, NEW line \in Turns!Lines, lines' = Append(lines, line), ev' = Turns!After(ev, line)
  PROVE  EvidenceTyped' /\ EvidenceIsOfLines'
<1> USE DEF Closing
<1>1. lines \in Seq(Turns!Lines) /\ EvidenceTyped /\ EvidenceIsOfLines
  BY DEF TurnInv
<1>2. /\ Shown("thread")' <=> Shown("thread") \/ line = "thread"
      /\ Shown("turn")' <=> Shown("turn") \/ line = "turn"
      /\ Shown("bad")' <=> Shown("bad") \/ line = "bad"
  BY <1>1, ShownGrows
<1>3. /\ Since(Closing)' <=> line # "turn" /\ (Since(Closing) \/ line \in Closing)
      /\ Since({"failed"})' <=> line # "turn" /\ (Since({"failed"}) \/ line = "failed")
      /\ Since({"completed"})' <=> line # "turn" /\ (Since({"completed"}) \/ line = "completed")
  <2>1. "turn" \notin Closing /\ "turn" \notin {"failed"} /\ "turn" \notin {"completed"}
    OBVIOUS
  <2> HIDE DEF Closing
  <2>2. Since(Closing)' <=> line # "turn" /\ (Since(Closing) \/ line \in Closing)
    BY <1>1, <2>1, LateGrows
  <2>3. Since({"failed"})' <=> line # "turn" /\ (Since({"failed"}) \/ line \in {"failed"})
    BY <1>1, <2>1, LateGrows
  <2>4. Since({"completed"})' <=> line # "turn" /\ (Since({"completed"}) \/ line \in {"completed"})
    BY <1>1, <2>1, LateGrows
  <2> QED
    BY <2>2, <2>3, <2>4
<1>4. \A kind \in Turns!Items : Turns!Ran({kind})' <=>
        /\ line # "turn"
        /\ Turns!Ran({kind}) \/ (line = kind /\ Shown("turn") /\ ~Since(Closing))
  <2> SUFFICES ASSUME NEW kind \in Turns!Items
               PROVE  Turns!Ran({kind})' <=>
                        /\ line # "turn"
                        /\ Turns!Ran({kind}) \/ (line = kind /\ Shown("turn") /\ ~Since(Closing))
    OBVIOUS
  <2>1. "turn" \notin {kind} /\ kind \notin Closing
    BY DEF Turns!Items
  <2> HIDE DEF Closing
  <2>2. Turns!Ran({kind})' <=>
          /\ line # "turn"
          /\ Turns!Ran({kind}) \/ (line \in {kind} /\ line \notin Closing /\ Shown("turn") /\ ~Since(Closing))
    BY <1>1, <2>1, RanGrows
  <2> QED
    BY <2>1, <2>2
<1>5. /\ ThreadInTurn' <=> ThreadInTurn \/ (line = "thread" /\ Shown("turn"))
      /\ ItemAfterEnd' <=> ItemAfterEnd \/ (line \in Turns!Items /\ Since(Closing))
      /\ EndOfNothing' <=> EndOfNothing \/ (line = "completed" /\ ~Shown("turn"))
  BY <1>1, DisorderGrows
<1>7. /\ Turns!Ran({"succeeded"})' <=> line # "turn" /\
           (Turns!Ran({"succeeded"}) \/ (line = "succeeded" /\ Shown("turn") /\ ~Since(Closing)))
      /\ Turns!Ran({"denied"})' <=> line # "turn" /\
           (Turns!Ran({"denied"}) \/ (line = "denied" /\ Shown("turn") /\ ~Since(Closing)))
      /\ Turns!Ran({"odd"})' <=> line # "turn" /\
           (Turns!Ran({"odd"}) \/ (line = "odd" /\ Shown("turn") /\ ~Since(Closing)))
      /\ Turns!Ran({"ordinary"})' <=> line # "turn" /\
           (Turns!Ran({"ordinary"}) \/ (line = "ordinary" /\ Shown("turn") /\ ~Since(Closing)))
  BY <1>4 DEF Turns!Items
<1> HIDE DEF Closing
<1>8. CASE line = "thread"
  <2>1. /\ Changes({"thread", "disorder"})
        /\ ev'.thread = TRUE /\ ev'.disorder = (ev.disorder \/ ev.turn)
    BY <1>1, <1>8, AfterLine
  <2>2. /\ DOMAIN ev' = DOMAIN ev
        /\ ev'.executed = ev.executed /\ ev'.succeeded = ev.succeeded /\ ev'.denied = ev.denied
        /\ ev'.unclassified = ev.unclassified /\ ev'.bad = ev.bad /\ ev'.turn = ev.turn
        /\ ev'.complete = ev.complete /\ ev'.failed = ev.failed /\ ev'.closed = ev.closed
        /\ ev'.oversized = ev.oversized /\ ev'.missing = ev.missing
    BY <1>1, <2>1 DEF Changes, Counts, Flags, EvidenceTyped
  <2>3. EvidenceTyped'
    BY <1>1, <2>1, <2>2 DEF EvidenceTyped
  <2>4. EvidenceIsOfLines'
    BY <1>1, <1>2, <1>3, <1>5, <1>7, <1>8, <2>1, <2>2 DEF EvidenceIsOfLines, EvidenceTyped, Turns!Items, Closing
  <2> QED
    BY <2>3, <2>4
<1>9. CASE line = "turn"
  <2>1. /\ Changes({"turn", "closed", "complete", "failed"} \cup (Counts \ {"bad"}))
        /\ ev'.turn = TRUE /\ ev'.closed = FALSE /\ ev'.complete = FALSE /\ ev'.failed = FALSE
        /\ ev'.executed = 0 /\ ev'.succeeded = 0 /\ ev'.denied = 0 /\ ev'.unclassified = 0
    BY <1>1, <1>9, AfterLine
  <2>2. /\ DOMAIN ev' = DOMAIN ev
        /\ ev'.bad = ev.bad /\ ev'.thread = ev.thread /\ ev'.disorder = ev.disorder
        /\ ev'.oversized = ev.oversized /\ ev'.missing = ev.missing
    BY <1>1, <2>1 DEF Changes, Counts, Flags, EvidenceTyped
  <2>3. EvidenceTyped'
    <3>0. /\ ev'.turn \in BOOLEAN /\ ev'.closed \in BOOLEAN /\ ev'.complete \in BOOLEAN
          /\ ev'.failed \in BOOLEAN
      BY <2>1, Zenon
    <3>1. /\ ev'.executed \in Nat /\ ev'.succeeded \in Nat /\ ev'.denied \in Nat
          /\ ev'.unclassified \in Nat
      BY <2>1
    <3>2. /\ ev'.bad \in Nat /\ ev'.thread \in BOOLEAN /\ ev'.disorder \in BOOLEAN
          /\ ev'.oversized \in BOOLEAN /\ ev'.missing \in BOOLEAN /\ DOMAIN ev' = Counts \cup Flags
      BY <1>1, <2>2 DEF EvidenceTyped
    <3> QED
      BY <3>0, <3>1, <3>2 DEF EvidenceTyped
  <2>4. EvidenceIsOfLines'
    BY <1>1, <1>2, <1>3, <1>5, <1>7, <1>9, <2>1, <2>2 DEF EvidenceIsOfLines, EvidenceTyped, Turns!Items, Closing
  <2> QED
    BY <2>3, <2>4
<1>10. CASE line = "completed"
  <2>1. /\ Changes({"disorder", "closed", "complete"})
        /\ ev'.disorder = (ev.disorder \/ ~ev.turn) /\ ev'.closed = TRUE /\ ev'.complete = (ev.turn /\ ~ev.failed)
    BY <1>1, <1>10, AfterLine
  <2>2. /\ DOMAIN ev' = DOMAIN ev
        /\ ev'.executed = ev.executed /\ ev'.succeeded = ev.succeeded /\ ev'.denied = ev.denied
        /\ ev'.unclassified = ev.unclassified /\ ev'.bad = ev.bad /\ ev'.thread = ev.thread
        /\ ev'.turn = ev.turn /\ ev'.failed = ev.failed /\ ev'.oversized = ev.oversized
        /\ ev'.missing = ev.missing
    BY <1>1, <2>1 DEF Changes, Counts, Flags, EvidenceTyped
  <2>3. EvidenceTyped'
    BY <1>1, <2>1, <2>2 DEF EvidenceTyped
  <2>4. EvidenceIsOfLines'
    BY <1>1, <1>2, <1>3, <1>5, <1>7, <1>10, <2>1, <2>2 DEF EvidenceIsOfLines, EvidenceTyped, Turns!Items, Closing
  <2> QED
    BY <2>3, <2>4
<1>11. CASE line = "failed"
  <2>1. /\ Changes({"failed", "complete", "closed"})
        /\ ev'.failed = TRUE /\ ev'.complete = FALSE /\ ev'.closed = TRUE
    BY <1>1, <1>11, AfterLine
  <2>2. /\ DOMAIN ev' = DOMAIN ev
        /\ ev'.executed = ev.executed /\ ev'.succeeded = ev.succeeded /\ ev'.denied = ev.denied
        /\ ev'.unclassified = ev.unclassified /\ ev'.bad = ev.bad /\ ev'.thread = ev.thread
        /\ ev'.turn = ev.turn /\ ev'.disorder = ev.disorder /\ ev'.oversized = ev.oversized
        /\ ev'.missing = ev.missing
    BY <1>1, <2>1 DEF Changes, Counts, Flags, EvidenceTyped
  <2>3. EvidenceTyped'
    BY <1>1, <2>1, <2>2 DEF EvidenceTyped
  <2>4. EvidenceIsOfLines'
    BY <1>1, <1>2, <1>3, <1>5, <1>7, <1>11, <2>1, <2>2 DEF EvidenceIsOfLines, EvidenceTyped, Turns!Items, Closing
  <2> QED
    BY <2>3, <2>4
<1>12. CASE line = "bad"
  <2>1. /\ Changes({"bad"})
        /\ ev'.bad = ev.bad + 1
    BY <1>1, <1>12, AfterLine
  <2>2. /\ DOMAIN ev' = DOMAIN ev
        /\ ev'.executed = ev.executed /\ ev'.succeeded = ev.succeeded /\ ev'.denied = ev.denied
        /\ ev'.unclassified = ev.unclassified /\ ev'.thread = ev.thread /\ ev'.turn = ev.turn
        /\ ev'.complete = ev.complete /\ ev'.failed = ev.failed /\ ev'.closed = ev.closed
        /\ ev'.disorder = ev.disorder /\ ev'.oversized = ev.oversized /\ ev'.missing = ev.missing
    BY <1>1, <2>1 DEF Changes, Counts, Flags, EvidenceTyped
  <2>3. EvidenceTyped'
    BY <1>1, <2>1, <2>2 DEF EvidenceTyped
  <2>4. EvidenceIsOfLines'
    BY <1>1, <1>2, <1>3, <1>5, <1>7, <1>12, <2>1, <2>2 DEF EvidenceIsOfLines, EvidenceTyped, Turns!Items, Closing
  <2> QED
    BY <2>3, <2>4
<1>13. CASE line \in Turns!Items
  <2>0. line \notin {"thread", "turn", "completed", "failed", "bad"} /\ line \notin Closing
    BY <1>13 DEF Turns!Items, Closing
  <2>1. CASE ev.closed
    <3>1. Changes({"disorder"}) /\ ev'.disorder = TRUE
      BY <1>1, <1>13, <2>1, AfterLine
    <3>2. /\ DOMAIN ev' = DOMAIN ev
          /\ ev'.executed = ev.executed /\ ev'.succeeded = ev.succeeded /\ ev'.denied = ev.denied
          /\ ev'.unclassified = ev.unclassified /\ ev'.bad = ev.bad /\ ev'.thread = ev.thread
          /\ ev'.turn = ev.turn /\ ev'.complete = ev.complete /\ ev'.failed = ev.failed
          /\ ev'.closed = ev.closed /\ ev'.oversized = ev.oversized /\ ev'.missing = ev.missing
      BY <1>1, <3>1 DEF Changes, Counts, Flags, EvidenceTyped
    <3>3. EvidenceTyped'
      BY <1>1, <3>1, <3>2 DEF EvidenceTyped
    <3>4. EvidenceIsOfLines'
      BY <1>1, <1>2, <1>3, <1>5, <1>7, <1>13, <2>0, <2>1, <3>1, <3>2 DEF EvidenceIsOfLines
    <3> QED
      BY <3>3, <3>4
  <2>2. CASE ~ev.closed /\ ~ev.turn
    <3>1. ev' = ev
      BY <1>1, <1>13, <2>2, AfterLine
    <3>2. EvidenceTyped'
      BY <1>1, <3>1 DEF EvidenceTyped
    <3>3. EvidenceIsOfLines'
      BY <1>1, <1>2, <1>3, <1>5, <1>7, <1>13, <2>0, <2>2, <3>1 DEF EvidenceIsOfLines
    <3> QED
      BY <3>2, <3>3
  <2>3. CASE ~ev.closed /\ ev.turn
    <3>1. /\ Changes(Counts \ {"bad"})
          /\ ev'.executed = ev.executed + (IF line \in {"succeeded", "denied", "ordinary"} THEN 1 ELSE 0)
          /\ ev'.succeeded = ev.succeeded + (IF line = "succeeded" THEN 1 ELSE 0)
          /\ ev'.denied = ev.denied + (IF line = "denied" THEN 1 ELSE 0)
          /\ ev'.unclassified = ev.unclassified + (IF line = "odd" THEN 1 ELSE 0)
      BY <1>1, <1>13, <2>3, AfterLine
    <3>2. /\ DOMAIN ev' = DOMAIN ev
          /\ ev'.bad = ev.bad /\ ev'.thread = ev.thread /\ ev'.disorder = ev.disorder
          /\ ev'.turn = ev.turn /\ ev'.complete = ev.complete /\ ev'.failed = ev.failed
          /\ ev'.closed = ev.closed /\ ev'.oversized = ev.oversized /\ ev'.missing = ev.missing
      BY <1>1, <3>1 DEF Changes, Counts, Flags, EvidenceTyped
    <3>3. EvidenceTyped'
      BY <1>1, <3>1, <3>2 DEF EvidenceTyped
    <3>4. /\ ev'.succeeded > 0 <=> ev.succeeded > 0 \/ line = "succeeded"
          /\ ev'.denied > 0 <=> ev.denied > 0 \/ line = "denied"
          /\ ev'.unclassified > 0 <=> ev.unclassified > 0 \/ line = "odd"
          /\ ev'.executed > 0 <=> ev.executed > 0 \/ line \in {"succeeded", "denied", "ordinary"}
      BY <1>1, <3>1 DEF EvidenceTyped
    <3>5. EvidenceIsOfLines'
      BY <1>1, <1>2, <1>3, <1>5, <1>7, <1>13, <2>0, <2>3, <3>2, <3>4 DEF EvidenceIsOfLines
    <3> QED
      BY <3>3, <3>5
  <2> QED
    BY <2>1, <2>2, <2>3, <1>1 DEF EvidenceTyped
<1> QED
  BY <1>8, <1>9, <1>10, <1>11, <1>12, <1>13 DEF Turns!Lines

\* What the lines show is a matter of the lines alone.
LEMMA SameLines ==
  ASSUME lines' = lines
  PROVE  /\ \A l : Shown(l)' = Shown(l)
         /\ \A kinds : Since(kinds)' = Since(kinds) /\ Turns!Ran(kinds)' = Turns!Ran(kinds)
         /\ ThreadInTurn' = ThreadInTurn /\ ItemAfterEnd' = ItemAfterEnd /\ EndOfNothing' = EndOfNothing
BY DEF Shown, Since, Turns!Ran, Turns!Open, Turns!LastTurn, ThreadInTurn, ItemAfterEnd, EndOfNothing

LEMMA SameEvidence ==
  ASSUME TurnInv, lines' = lines, ev' = ev
  PROVE  EvidenceTyped' /\ EvidenceIsOfLines'
BY SameLines DEF TurnInv, EvidenceTyped, EvidenceIsOfLines

LEMMA TurnStep == TurnInv /\ Turns!Next => TurnInv'
<1> SUFFICES ASSUME TurnInv, Turns!Next PROVE TurnInv'
  OBVIOUS
<1>1. CASE Turns!ReadLine
  <2>1. PICK line \in Turns!Lines : lines' = Append(lines, line) /\ ev' = Turns!After(ev, line)
    BY <1>1 DEF Turns!ReadLine
  <2>2. EvidenceTyped' /\ EvidenceIsOfLines'
    BY <2>1, EvidenceGrows
  <2>3. lines' \in Seq(Turns!Lines)
    BY <2>1 DEF TurnInv
  <2> QED
    BY <1>1, <2>2, <2>3 DEF Turns!ReadLine, TurnInv
<1>2. CASE Turns!StopReading
  <2>1. lines' = lines /\ pc' = "judge"
    BY <1>2 DEF Turns!StopReading
  <2>2. /\ Changes({"oversized", "missing"})
        /\ ev'.oversized \in BOOLEAN /\ ev'.missing \in BOOLEAN
    <3>1. CASE ev' = ev
      BY <3>1 DEF Changes, TurnInv, EvidenceTyped
    <3>2. CASE ev' = [ev EXCEPT !.oversized = TRUE]
      BY <3>2 DEF Changes, TurnInv, EvidenceTyped, Counts, Flags
    <3>3. CASE ev' = [ev EXCEPT !.missing = TRUE]
      BY <3>3 DEF Changes, TurnInv, EvidenceTyped, Counts, Flags
    <3> QED
      BY <1>2, <3>1, <3>2, <3>3 DEF Turns!StopReading
  <2>3. /\ DOMAIN ev' = DOMAIN ev
        /\ ev'.executed = ev.executed /\ ev'.succeeded = ev.succeeded /\ ev'.denied = ev.denied
        /\ ev'.unclassified = ev.unclassified /\ ev'.bad = ev.bad /\ ev'.thread = ev.thread
        /\ ev'.turn = ev.turn /\ ev'.complete = ev.complete /\ ev'.failed = ev.failed
        /\ ev'.closed = ev.closed /\ ev'.disorder = ev.disorder
    BY <2>2 DEF Changes, Counts, Flags, TurnInv, EvidenceTyped
  <2>4. EvidenceTyped'
    BY <2>2, <2>3 DEF TurnInv, EvidenceTyped
  <2>5. /\ \A l : Shown(l)' = Shown(l)
        /\ \A kinds : Since(kinds)' = Since(kinds) /\ Turns!Ran(kinds)' = Turns!Ran(kinds)
        /\ ThreadInTurn' = ThreadInTurn /\ ItemAfterEnd' = ItemAfterEnd /\ EndOfNothing' = EndOfNothing
    BY <2>1, SameLines
  <2>6. EvidenceIsOfLines'
    BY <2>3, <2>5 DEF TurnInv, EvidenceIsOfLines
  <2> QED
    BY <2>1, <2>4, <2>6 DEF TurnInv
<1>3. CASE Turns!BlindRun
  <2>1. PICK s \in Turns!Stderr : verdict' = [blind |-> Turns!Blind(ev, s), stderr |-> s]
    BY <1>3 DEF Turns!BlindRun
  <2>2. lines' = lines /\ ev' = ev /\ pc' = "done"
    BY <1>3 DEF Turns!BlindRun
  <2>3. EvidenceTyped' /\ EvidenceIsOfLines'
    BY <2>2, SameEvidence
  <2>4. /\ verdict'.stderr \in Turns!Stderr
        /\ verdict'.blind = Turns!Blind(ev, verdict'.stderr)
    BY <2>1
  <2> QED
    BY <2>2, <2>3, <2>4 DEF TurnInv
<1> QED
  BY <1>1, <1>2, <1>3 DEF Turns!Next

LEMMA TurnStutter == TurnInv /\ UNCHANGED <<pc, verdict, turnOnly>> => TurnInv'
BY SameEvidence DEF turnOnly, TurnInv

\* The stream is in the order Codex writes exactly when the evidence is usable.
LEMMA UsableIsWellFormed == TurnInv => (Turns!Usable(ev) <=> Turns!WellFormed)
<1> SUFFICES ASSUME TurnInv PROVE Turns!Usable(ev) <=> Turns!WellFormed
  OBVIOUS
<1>1. /\ lines \in Seq(Turns!Lines) /\ EvidenceTyped /\ EvidenceIsOfLines
  BY DEF TurnInv
<1>2. /\ Turns!Contains(lines, "bad") <=> Shown("bad")
      /\ Turns!Contains(lines, "thread") <=> Shown("thread")
  BY DEF Turns!Contains, Shown
<1>3. Turns!LastTurn # {} <=> Shown("turn")
  BY <1>1, LastTurnIs
<1>4. (\A i, j \in 1..Len(lines) : i < j =>
         /\ ~(lines[i] = "turn" /\ lines[j] = "thread")
         /\ lines[i] \in {"completed", "failed"} /\ lines[j] \in Turns!Items =>
              \E m \in i..j : lines[m] = "turn")
      <=> ~ThreadInTurn /\ ~ItemAfterEnd
  BY DEF ThreadInTurn, ItemAfterEnd, Closing
<1>5. (\A i \in 1..Len(lines) : lines[i] = "completed" => \E j \in 1..i : lines[j] = "turn")
      <=> ~EndOfNothing
  BY DEF EndOfNothing
<1>6. Shown("turn") => (Since({"completed"}) <=> \E i \in Turns!LastTurn : lines[i] = "completed")
  BY <1>1, SinceLastTurn
<1>7. Shown("turn") => (Since({"failed"}) <=> \E i \in Turns!LastTurn : lines[i] = "failed")
  BY <1>1, SinceLastTurn
<1>8. ev.bad = 0 <=> ~Shown("bad")
  BY <1>1 DEF EvidenceTyped, EvidenceIsOfLines
<1> QED
  BY <1>1, <1>2, <1>3, <1>4, <1>5, <1>6, <1>7, <1>8 DEF EvidenceIsOfLines, Turns!Usable, Turns!WellFormed

\* What ran is one of several kinds, or another.
LEMMA RanEither ==
  ASSUME NEW a, NEW b
  PROVE  Turns!Ran({a, b}) <=> Turns!Ran({a}) \/ Turns!Ran({b})
BY DEF Turns!Ran

LEMMA TurnSound == TurnInv => Turns!AcceptedHasGround
<1> SUFFICES ASSUME TurnInv, pc = "done"
             PROVE  LET s == verdict.stderr
                        ground == \/ Turns!Ran({"succeeded"})
                                  \/ /\ Turns!WellFormed /\ s.whole /\ ~s.record
                                     /\ ~Turns!Ran({"denied", "odd"})
                                     /\ Turns!Ran({"ordinary"}) \/ ~s.refused
                    IN  verdict.blind <=> ~ground
  BY DEF Turns!AcceptedHasGround
<1> DEFINE s == verdict.stderr
<1>1. verdict.blind <=> Turns!Blind(ev, s)
  BY DEF TurnInv
<1>2. EvidenceTyped /\ EvidenceIsOfLines /\ (Turns!Usable(ev) <=> Turns!WellFormed)
  BY UsableIsWellFormed DEF TurnInv
<1>3. Turns!Ran({"denied", "odd"}) <=> Turns!Ran({"denied"}) \/ Turns!Ran({"odd"})
  BY RanEither
<1>4. /\ ev.succeeded = 0 <=> ~Turns!Ran({"succeeded"})
      /\ ev.executed = 0 <=>
           ~Turns!Ran({"succeeded"}) /\ ~Turns!Ran({"denied"}) /\ ~Turns!Ran({"ordinary"})
      /\ ev.denied > 0 <=> Turns!Ran({"denied"})
      /\ ev.unclassified > 0 <=> Turns!Ran({"odd"})
  BY <1>2 DEF EvidenceTyped, EvidenceIsOfLines
<1> QED
  BY <1>1, <1>2, <1>3, <1>4 DEF Turns!Blind, Turns!CountRefusals, Turns!CountExecErrors

-----------------------------------------------------------------------------
(***************************************************************************)
(* The part "hunt": what a run leaves behind, whoever works on it and      *)
(* wherever they stop.                                                     *)
(***************************************************************************)
HuntLabels == {"idle", "copy", "original", "ledger", "state", "prepared", "tell", "report", "coverage",
               "published", "done"}
Artifacts  == {"original", "ledger", "state", "report", "coverage", "done"}
Keys       == Artifacts \cup {"begun", "previous", "todo", "copied", "events", "told"}

HuntControl ==
  /\ pc \in [Wrapper -> HuntLabels] /\ at \in [Wrapper -> Hunts!Runs \cup {None}]
  /\ \A c \in Wrapper : pc[c] # "idle" => at[c] \in Hunts!Runs
  /\ DOMAIN hunts = Hunts!Runs
  /\ \A h \in Hunts!Runs : DOMAIN hunts[h] = Keys /\ hunts[h].begun \in BOOLEAN

\* The input of a run is frozen: what is compared of it does not change any more.
IsFrozen(h) == hunts[h].begun = TRUE /\ hunts[h].todo = {}

CopiedOf(h) ==
  /\ hunts[h].begun = TRUE => hunts[h].todo \subseteq File /\ DOMAIN hunts[h].copied = File \ hunts[h].todo
  /\ hunts[h].begun = FALSE => DOMAIN hunts[h].copied = {}
  /\ hunts[h].copied = [f \in DOMAIN hunts[h].copied |-> hunts[h].copied[f]]

Finished(h) == hunts[h].done = "whole" =>
  hunts[h].report = "whole" /\ hunts[h].coverage = "whole" /\ "published" \in hunts[h].events

Based(h) == hunts[h].previous # None => hunts[h].previous \in Hunts!Runs /\ Hunts!Complete(hunts[h].previous)

Told(h) == hunts[h].told # None => IsFrozen(h) /\ hunts[h].told = Hunts!Classify(h)

RunOK(h) ==
  /\ CopiedOf(h) /\ Finished(h) /\ Based(h) /\ Told(h)
  /\ hunts[h].original # "none" => IsFrozen(h)

\* What a process has behind it.
PlaceOK(c) ==
  /\ pc[c] = "copy" => hunts[at[c]].begun = TRUE
  /\ pc[c] \in {"original", "ledger", "state", "prepared", "tell"} => IsFrozen(at[c])
  /\ pc[c] \in {"coverage", "published", "done"} => hunts[at[c]].report = "whole"
  /\ pc[c] \in {"published", "done"} => hunts[at[c]].coverage = "whole"
  /\ pc[c] = "done" => "published" \in hunts[at[c]].events

HuntInv ==
  /\ HuntControl
  /\ \A h \in Hunts!Runs : RunOK(h)
  /\ \A c \in Wrapper : PlaceOK(c)

LEMMA HuntInit == Hunts!Init => HuntInv
<1> SUFFICES ASSUME Hunts!Init PROVE HuntInv
  OBVIOUS
<1>1. /\ pc = [c \in Wrapper |-> "idle"] /\ at = [c \in Wrapper |-> None]
      /\ hunts = [h \in Hunts!Runs |-> Hunts!Fresh]
  BY DEF Hunts!Init
<1>2. HuntControl
  BY <1>1 DEF HuntControl, HuntLabels, Hunts!Fresh, Keys, Artifacts
<1>3. ASSUME NEW h \in Hunts!Runs PROVE RunOK(h)
  <2>1. hunts[h] = Hunts!Fresh
    BY <1>1
  <2>2. <<>> = [f \in DOMAIN <<>> |-> <<>>[f]] /\ DOMAIN <<>> = {}
    OBVIOUS
  <2>3. CopiedOf(h)
    BY <2>1, <2>2 DEF CopiedOf, Hunts!Fresh
  <2> QED
    BY <2>1, <2>3 DEF RunOK, Finished, Based, Told, Hunts!Fresh
<1> QED
  BY <1>1, <1>2, <1>3 DEF HuntInv, PlaceOK

\* Which parts of which run a step changes.
OtherRuns(h) == DOMAIN hunts' = Hunts!Runs /\ \A g \in Hunts!Runs \ {h} : hunts'[g] = hunts[g]

Keeps(h, S) == OtherRuns(h) /\ DOMAIN hunts'[h] = Keys /\ \A f \in Keys \ S : hunts'[h][f] = hunts[h][f]

LEMMA OneField ==
  ASSUME HuntControl, NEW h \in Hunts!Runs, NEW a \in Keys, NEW v, hunts' = [hunts EXCEPT ![h][a] = v]
  PROVE  Keeps(h, {a}) /\ hunts'[h][a] = v
<1> DEFINE r == [hunts[h] EXCEPT ![a] = v]
<1>1. DOMAIN r = Keys /\ r[a] = v /\ \A f \in Keys \ {a} : r[f] = hunts[h][f]
  BY DEF HuntControl
<1>2. hunts'[h] = r /\ OtherRuns(h)
  BY DEF HuntControl, OtherRuns
<1> HIDE DEF r
<1> QED
  BY <1>1, <1>2 DEF Keeps

\* The steps of a process, by what they do to the run.
HuntFrame(c) == pc' = [pc EXCEPT ![c] = pc'[c]] /\ at' = [at EXCEPT ![c] = at'[c]]

Begins(c) == \E h \in Hunts!Runs :
  /\ pc[c] = "idle" /\ pc'[c] = "copy" /\ at'[c] = h
  /\ hunts[h].begun = FALSE
  /\ Keeps(h, {"begun", "previous", "todo"})
  /\ hunts'[h].begun = TRUE /\ hunts'[h].previous = Hunts!LatestCompleteRun /\ hunts'[h].todo = File

Copies(c) == LET h == at[c] IN
  /\ pc[c] = "copy" /\ pc'[c] = "copy" /\ at'[c] = h /\ h \in Hunts!Runs
  /\ Keeps(h, {"todo", "copied"})
  /\ \E p \in hunts[h].todo :
       /\ hunts'[h].todo = hunts[h].todo \ {p}
       /\ DOMAIN hunts'[h].copied = DOMAIN hunts[h].copied \cup {p}
       /\ hunts'[h].copied = [y \in DOMAIN hunts'[h].copied |-> hunts'[h].copied[y]]

Writes(c, a, v) ==
  /\ at[c] \in Hunts!Runs /\ hunts[at[c]][a] = "none"
  /\ Keeps(at[c], {a}) /\ hunts'[at[c]][a] = v

Creations == {<<"original", "ledger">>, <<"ledger", "state">>, <<"state", "prepared">>,
           <<"report", "coverage">>, <<"coverage", "published">>}

CreatesOne(c) == \E p \in Creations :
  pc[c] = p[1] /\ pc'[c] = p[2] /\ at'[c] = at[c] /\ Writes(c, p[1], "whole")

LogsOne(c) == \E e \in {"prepared", "published"} :
  /\ pc[c] = e /\ pc'[c] = IF e = "prepared" THEN "tell" ELSE "done"
  /\ at'[c] = at[c] /\ at[c] \in Hunts!Runs
  /\ Keeps(at[c], {"events"}) /\ hunts'[at[c]].events = hunts[at[c]].events \cup {e}

Tells(c) ==
  /\ pc[c] = "tell" /\ pc'[c] = "idle" /\ at'[c] = None /\ at[c] \in Hunts!Runs
  /\ Keeps(at[c], {"told"}) /\ hunts'[at[c]].told = Hunts!Classify(at[c])

Ends(c) == pc[c] = "done" /\ pc'[c] = "idle" /\ at'[c] = None /\ Writes(c, "done", "whole")

\* No file of the run is written, or one in part.
Moves(c) ==
  /\ \/ pc[c] = "copy" /\ pc'[c] = "original" /\ at'[c] = at[c] /\ IsFrozen(at[c]) /\ hunts' = hunts
     \/ pc[c] = "idle" /\ pc'[c] = "report" /\ at'[c] \in Hunts!Runs /\ hunts' = hunts
     \/ pc[c] # "idle" /\ pc'[c] = "idle" /\ at'[c] = None /\ hunts' = hunts
     \/ /\ pc[c] \in Artifacts /\ pc'[c] = "idle" /\ at'[c] = None
        /\ Writes(c, pc[c], "part")

LEMMA InputIsFile == Hunts!Input = File
BY HuntAssumption DEF Hunts!Input, Hunts!Listed, Hunts!OwnOutputs, Hunts!Outputs, Hunts!Runs

LEMMA BeginsEffect ==
  ASSUME HuntInv, NEW c \in Wrapper, NEW h \in Hunts!Runs, Hunts!Prepare(c, h)
  PROVE  Begins(c) /\ HuntFrame(c)
<1> DEFINE r == [hunts[h] EXCEPT !.begun = TRUE, !.previous = Hunts!LatestCompleteRun, !.todo = File]
<1>1. hunts' = [hunts EXCEPT ![h] = r]
  BY InputIsFile DEF Hunts!Prepare
<1>2. /\ DOMAIN r = Keys /\ r.begun = TRUE /\ r.previous = Hunts!LatestCompleteRun /\ r.todo = File
      /\ \A f \in Keys \ {"begun", "previous", "todo"} : r[f] = hunts[h][f]
  BY DEF HuntInv, HuntControl, Keys
<1>3. hunts'[h] = r /\ OtherRuns(h)
  BY <1>1 DEF HuntInv, HuntControl, OtherRuns
<1>4. hunts[h].begun = FALSE /\ pc[c] = "idle"
  BY DEF Hunts!Prepare, Hunts!Goto, HuntInv, HuntControl
<1>5. pc'[c] = "copy" /\ at'[c] = h /\ HuntFrame(c)
  BY DEF Hunts!Prepare, Hunts!Goto, HuntInv, HuntControl, HuntFrame
<1> HIDE DEF r
<1> QED
  BY <1>2, <1>3, <1>4, <1>5 DEF Begins, Keeps

LEMMA CopiesEffect ==
  ASSUME HuntInv, NEW c \in Wrapper, Hunts!CopyFile(c)
  PROVE  Copies(c) /\ HuntFrame(c)
<1> DEFINE h == at[c]
           p == CHOOSE y \in hunts[h].todo : TRUE
           v == IF p \in File THEN repo[p] ELSE "link"
           f == hunts[h].copied
           g == [y \in DOMAIN f \cup {p} |-> IF y = p THEN v ELSE f[y]]
           r == [hunts[h] EXCEPT !.todo = hunts[h].todo \ {p}, !.copied = g]
<1>1. pc[c] = "copy" /\ h \in Hunts!Runs /\ p \in hunts[h].todo
  BY DEF Hunts!CopyFile, HuntInv, HuntControl
<1>2. hunts' = [hunts EXCEPT ![h] = r]
  BY DEF Hunts!CopyFile
<1>3. DOMAIN g = DOMAIN f \cup {p} /\ g = [y \in DOMAIN g |-> g[y]]
  OBVIOUS
<1>4. pc' = pc /\ at' = at
  BY DEF Hunts!CopyFile
<1>5. HuntFrame(c)
  BY <1>4 DEF HuntFrame, HuntInv, HuntControl
<1> HIDE DEF g, p, h
<1>6. /\ DOMAIN r = Keys /\ r.todo = hunts[h].todo \ {p} /\ r.copied = g
      /\ \A x \in Keys \ {"todo", "copied"} : r[x] = hunts[h][x]
  BY <1>1 DEF HuntInv, HuntControl, Keys
<1>7. hunts'[h] = r /\ OtherRuns(h)
  BY <1>1, <1>2 DEF HuntInv, HuntControl, OtherRuns
<1> HIDE DEF r
<1>8. hunts'[h].copied = g
  BY <1>6, <1>7
<1> HIDE DEF f
<1> QED
  BY <1>1, <1>3, <1>4, <1>5, <1>6, <1>7, <1>8 DEF Copies, Keeps, h, f

LEMMA WritesEffect ==
  ASSUME HuntInv, NEW c \in Wrapper, pc[c] # "idle", NEW a \in Artifacts, NEW v,
         hunts[at[c]][a] = "none", hunts' = [hunts EXCEPT ![at[c]][a] = v]
  PROVE  Writes(c, a, v)
<1>1. at[c] \in Hunts!Runs /\ HuntControl /\ a \in Keys
  BY DEF HuntInv, HuntControl, Keys
<1>2. Keeps(at[c], {a}) /\ hunts'[at[c]][a] = v
  BY <1>1, OneField
<1> QED
  BY <1>1, <1>2 DEF Writes

LEMMA CreatesEffect ==
  ASSUME HuntInv, NEW c \in Wrapper,
         NEW from \in HuntLabels \ {"idle"}, NEW to, <<from, to>> \in Creations, Hunts!Creates(c, from, from, to)
  PROVE  CreatesOne(c) /\ HuntFrame(c)
<1>1. pc[c] = from /\ pc' = [pc EXCEPT ![c] = to] /\ at' = at /\ from \in Artifacts
  BY DEF Hunts!Creates, Hunts!Goto, Creations, Artifacts
<1>2. pc'[c] = to /\ HuntFrame(c)
  BY <1>1 DEF HuntInv, HuntControl, HuntFrame
<1>3. hunts[at[c]][from] = "none" /\ hunts' = [hunts EXCEPT ![at[c]][from] = "whole"]
  BY DEF Hunts!Creates
<1>4. Writes(c, from, "whole")
  BY <1>1, <1>3, WritesEffect
<1>5. <<from, to>>[1] = from /\ <<from, to>>[2] = to
  OBVIOUS
<1> QED
  BY <1>1, <1>2, <1>4, <1>5 DEF CreatesOne

LEMMA LogsEffect ==
  ASSUME HuntInv, NEW c \in Wrapper, Hunts!LogPrepared(c) \/ Hunts!LogPublished(c)
  PROVE  LogsOne(c) /\ HuntFrame(c)
<1>1. PICK e \in {"prepared", "published"} :
        Hunts!Logs(c, e, e, IF e = "prepared" THEN "tell" ELSE "done")
  BY DEF Hunts!LogPrepared, Hunts!LogPublished
<1>2. /\ pc[c] = e /\ pc' = [pc EXCEPT ![c] = IF e = "prepared" THEN "tell" ELSE "done"]
      /\ at' = at /\ at[c] \in Hunts!Runs
  BY <1>1 DEF Hunts!Logs, Hunts!Goto, HuntInv, HuntControl
<1>3. hunts' = [hunts EXCEPT ![at[c]]["events"] = hunts[at[c]].events \cup {e}]
  BY <1>1 DEF Hunts!Logs
<1>4. Keeps(at[c], {"events"}) /\ hunts'[at[c]]["events"] = hunts[at[c]].events \cup {e}
  <2>1. HuntControl /\ "events" \in Keys
    BY DEF HuntInv, Keys
  <2> DEFINE v == hunts[at[c]].events \cup {e}
  <2>2. hunts' = [hunts EXCEPT ![at[c]]["events"] = v]
    BY <1>3
  <2> HIDE DEF v
  <2>3. Keeps(at[c], {"events"}) /\ hunts'[at[c]]["events"] = v
    BY <1>2, <2>1, <2>2, OneField
  <2> QED
    BY <2>3 DEF v
<1>5. pc'[c] = (IF e = "prepared" THEN "tell" ELSE "done") /\ HuntFrame(c)
  BY <1>2 DEF HuntInv, HuntControl, HuntFrame
<1> QED
  BY <1>2, <1>4, <1>5 DEF LogsOne

LEMMA TellsEffect ==
  ASSUME HuntInv, NEW c \in Wrapper, Hunts!Tell(c)
  PROVE  Tells(c) /\ HuntFrame(c)
<1>1. /\ pc[c] = "tell" /\ pc' = [pc EXCEPT ![c] = "idle"] /\ at' = [at EXCEPT ![c] = None]
      /\ at[c] \in Hunts!Runs
  BY DEF Hunts!Tell, Hunts!Goto, HuntInv, HuntControl
<1>2. hunts' = [hunts EXCEPT ![at[c]]["told"] = Hunts!Classify(at[c])]
  BY DEF Hunts!Tell
<1>3. Keeps(at[c], {"told"}) /\ hunts'[at[c]]["told"] = Hunts!Classify(at[c])
  BY <1>1, <1>2, OneField DEF Keys, HuntInv
<1>4. pc'[c] = "idle" /\ at'[c] = None /\ HuntFrame(c)
  BY <1>1 DEF HuntInv, HuntControl, HuntFrame
<1> QED
  BY <1>1, <1>3, <1>4 DEF Tells

LEMMA EndsEffect ==
  ASSUME HuntInv, NEW c \in Wrapper, Hunts!WriteDone(c)
  PROVE  Ends(c) /\ HuntFrame(c)
<1>1. pc[c] = "done" /\ pc' = [pc EXCEPT ![c] = "idle"] /\ at' = [at EXCEPT ![c] = None]
  BY DEF Hunts!WriteDone, Hunts!Goto
<1>2. hunts[at[c]]["done"] = "none" /\ hunts' = [hunts EXCEPT ![at[c]]["done"] = "whole"]
  BY DEF Hunts!WriteDone
<1>3. Writes(c, "done", "whole")
  BY <1>1, <1>2, WritesEffect DEF Artifacts
<1>4. pc'[c] = "idle" /\ at'[c] = None /\ HuntFrame(c)
  BY <1>1 DEF HuntInv, HuntControl, HuntFrame
<1> QED
  BY <1>1, <1>3, <1>4 DEF Ends

LEMMA MovesEffect ==
  ASSUME HuntInv, NEW c \in Wrapper,
         Hunts!Freeze(c) \/ Hunts!Stop(c) \/ \E h \in Hunts!Runs : Hunts!Load(c, h)
  PROVE  Moves(c) /\ HuntFrame(c)
<1>1. CASE Hunts!Freeze(c)
  <2>1. pc[c] = "copy" /\ pc' = [pc EXCEPT ![c] = "original"] /\ at' = at /\ hunts' = hunts
    BY <1>1 DEF Hunts!Freeze, Hunts!Goto
  <2>2. IsFrozen(at[c])
    BY <1>1, <2>1 DEF Hunts!Freeze, IsFrozen, HuntInv, PlaceOK
  <2> QED
    BY <2>1, <2>2 DEF HuntInv, HuntControl, HuntFrame, Moves
<1>2. CASE \E h \in Hunts!Runs : Hunts!Load(c, h)
  BY <1>2 DEF Hunts!Load, Hunts!Goto, HuntInv, HuntControl, HuntFrame, Moves
<1>3. CASE Hunts!Stop(c)
  <2>1. pc[c] # "idle" /\ pc' = [pc EXCEPT ![c] = "idle"] /\ at' = [at EXCEPT ![c] = None]
    BY <1>3 DEF Hunts!Stop
  <2>2. pc'[c] = "idle" /\ at'[c] = None /\ HuntFrame(c)
    BY <2>1 DEF HuntInv, HuntControl, HuntFrame
  <2>3. CASE hunts' = hunts
    BY <2>1, <2>2, <2>3 DEF Moves
  <2>4. CASE /\ pc[c] \in DOMAIN Hunts!Fresh /\ hunts[at[c]][pc[c]] = "none"
             /\ hunts' = [hunts EXCEPT ![at[c]][pc[c]] = "part"]
    <3>1. pc[c] \in Artifacts
      BY <2>4 DEF HuntInv, HuntControl, HuntLabels, Artifacts, Hunts!Fresh
    <3>2. Writes(c, pc[c], "part")
      BY <2>1, <2>4, <3>1, WritesEffect
    <3> QED
      BY <2>2, <3>1, <3>2 DEF Moves
  <2> QED
    BY <1>3, <2>3, <2>4 DEF Hunts!Stop
<1> QED
  BY <1>1, <1>2, <1>3

ActsOn(c) ==
  Begins(c) \/ Copies(c) \/ CreatesOne(c) \/ LogsOne(c) \/ Tells(c) \/ Ends(c) \/ Moves(c)

LEMMA HuntEffects ==
  HuntInv /\ Hunts!Next =>
    (UNCHANGED <<pc, at, hunts>> \/ \E c \in Wrapper : ActsOn(c) /\ HuntFrame(c))
<1> SUFFICES ASSUME HuntInv, Hunts!Next
             PROVE  UNCHANGED <<pc, at, hunts>> \/ \E c \in Wrapper : ActsOn(c) /\ HuntFrame(c)
  OBVIOUS
<1>1. CASE Hunts!EditFile
  BY <1>1 DEF Hunts!EditFile
<1>2. ASSUME NEW c \in Wrapper, Hunts!Step(c) PROVE ActsOn(c) /\ HuntFrame(c)
  <2>1. CASE \E h \in Hunts!Runs : Hunts!Prepare(c, h)
    BY <2>1, BeginsEffect DEF ActsOn
  <2>2. CASE Hunts!CopyFile(c)
    BY <2>2, CopiesEffect DEF ActsOn
  <2>3. CASE Hunts!WriteOriginal(c) \/ Hunts!OpenLedger(c) \/ Hunts!WriteState(c)
             \/ Hunts!WriteReport(c) \/ Hunts!WriteCoverage(c)
    <3>1. PICK from \in HuntLabels \ {"idle"}, to \in HuntLabels :
            <<from, to>> \in Creations /\ Hunts!Creates(c, from, from, to)
      <4>1. /\ {"original", "ledger", "state", "prepared", "report", "coverage", "published"} \subseteq HuntLabels
            /\ Creations = {<<"original", "ledger">>, <<"ledger", "state">>, <<"state", "prepared">>,
                         <<"report", "coverage">>, <<"coverage", "published">>}
        BY DEF HuntLabels, Creations
      <4> QED
        BY <2>3, <4>1 DEF Hunts!WriteOriginal, Hunts!OpenLedger, Hunts!WriteState, Hunts!WriteReport,
           Hunts!WriteCoverage
    <3> QED
      BY <3>1, CreatesEffect DEF ActsOn
  <2>4. CASE Hunts!LogPrepared(c) \/ Hunts!LogPublished(c)
    BY <2>4, LogsEffect DEF ActsOn
  <2>5. CASE Hunts!Tell(c)
    BY <2>5, TellsEffect DEF ActsOn
  <2>6. CASE Hunts!WriteDone(c)
    BY <2>6, EndsEffect DEF ActsOn
  <2>7. CASE Hunts!Freeze(c) \/ Hunts!Stop(c) \/ \E h \in Hunts!Runs : Hunts!Load(c, h)
    BY <2>7, MovesEffect DEF ActsOn
  <2> QED
    BY <1>2, <2>1, <2>2, <2>3, <2>4, <2>5, <2>6, <2>7 DEF Hunts!Step
<1> QED
  BY <1>1, <1>2 DEF Hunts!Next

\* What a run has reached, it keeps.
Grows(g) ==
  /\ hunts[g].begun = TRUE => hunts'[g].begun = TRUE /\ hunts'[g].previous = hunts[g].previous
  /\ IsFrozen(g) => hunts'[g].todo = {} /\ hunts'[g].copied = hunts[g].copied
  /\ \A a \in Artifacts : hunts[g][a] = "whole" => hunts'[g][a] = "whole"
  /\ hunts[g].events \subseteq hunts'[g].events

LEMMA SameGrows ==
  ASSUME NEW g, hunts'[g] = hunts[g] PROVE Grows(g)
BY DEF Grows, IsFrozen

LEMMA HuntGrows ==
  ASSUME HuntInv, NEW c \in Wrapper, ActsOn(c)
  PROVE  /\ \A g \in Hunts!Runs : Grows(g)
         /\ DOMAIN hunts' = Hunts!Runs
         /\ \A g \in Hunts!Runs : DOMAIN hunts'[g] = Keys /\ hunts'[g].begun \in BOOLEAN
<1>0. DOMAIN hunts = Hunts!Runs /\ \A g \in Hunts!Runs : DOMAIN hunts[g] = Keys /\ hunts[g].begun \in BOOLEAN
  BY DEF HuntInv, HuntControl
<1>1. ASSUME NEW h \in Hunts!Runs, OtherRuns(h), DOMAIN hunts'[h] = Keys, hunts'[h].begun \in BOOLEAN, Grows(h)
      PROVE  /\ \A g \in Hunts!Runs : Grows(g)
             /\ DOMAIN hunts' = Hunts!Runs
             /\ \A g \in Hunts!Runs : DOMAIN hunts'[g] = Keys /\ hunts'[g].begun \in BOOLEAN
  BY <1>0, <1>1, SameGrows DEF OtherRuns
<1>2. ASSUME NEW h \in Hunts!Runs, NEW a \in Artifacts, hunts[h][a] = "none", Keeps(h, {a})
      PROVE  Grows(h) /\ hunts'[h].begun \in BOOLEAN
  BY <1>0, <1>2 DEF Keeps, Grows, IsFrozen, Keys, Artifacts
<1>3. CASE Begins(c)
  <2>1. PICK h \in Hunts!Runs : /\ hunts[h].begun = FALSE /\ hunts'[h].begun = TRUE
                                /\ Keeps(h, {"begun", "previous", "todo"})
    BY <1>3 DEF Begins
  <2>2. Grows(h)
    BY <2>1 DEF Keeps, Grows, IsFrozen, Keys, Artifacts
  <2> QED
    BY <1>1, <2>1, <2>2 DEF Keeps
<1>4. CASE Copies(c)
  <2>1. at[c] \in Hunts!Runs /\ hunts[at[c]].todo # {} /\ Keeps(at[c], {"todo", "copied"})
    BY <1>4 DEF Copies
  <2>2. Grows(at[c]) /\ hunts'[at[c]].begun \in BOOLEAN
    BY <1>0, <2>1 DEF Keeps, Grows, IsFrozen, Keys, Artifacts
  <2> QED
    BY <1>1, <2>1, <2>2 DEF Keeps
<1>5. ASSUME NEW a \in Artifacts, NEW v, Writes(c, a, v)
      PROVE  /\ \A g \in Hunts!Runs : Grows(g)
             /\ DOMAIN hunts' = Hunts!Runs
             /\ \A g \in Hunts!Runs : DOMAIN hunts'[g] = Keys /\ hunts'[g].begun \in BOOLEAN
  BY <1>1, <1>2, <1>5 DEF Writes, Keeps
<1>6. CASE CreatesOne(c)
  <2>1. PICK p \in Creations : Writes(c, p[1], "whole")
    BY <1>6 DEF CreatesOne
  <2>2. p[1] \in Artifacts
    BY DEF Creations, Artifacts
  <2> QED
    BY <1>5, <2>1, <2>2
<1>7. CASE LogsOne(c)
  <2>1. PICK e : /\ at[c] \in Hunts!Runs /\ Keeps(at[c], {"events"})
                 /\ hunts'[at[c]].events = hunts[at[c]].events \cup {e}
    BY <1>7 DEF LogsOne
  <2> DEFINE h == at[c]
  <2>2. Grows(h) /\ hunts'[h].begun \in BOOLEAN
    <3>1. /\ hunts'[h].begun = hunts[h].begun /\ hunts'[h].previous = hunts[h].previous
          /\ hunts'[h].todo = hunts[h].todo /\ hunts'[h].copied = hunts[h].copied
          /\ hunts[h].events \subseteq hunts'[h].events /\ h \in Hunts!Runs
      BY <2>1 DEF Keeps, Keys
    <3>2. \A a \in Artifacts : hunts'[h][a] = hunts[h][a]
      BY <2>1 DEF Keeps, Keys, Artifacts
    <3> HIDE DEF h
    <3> QED
      BY <1>0, <3>1, <3>2 DEF Grows, IsFrozen
  <2> QED
    BY <1>1, <2>1, <2>2 DEF Keeps
<1>8. CASE Tells(c)
  <2>1. at[c] \in Hunts!Runs /\ Keeps(at[c], {"told"})
    BY <1>8 DEF Tells
  <2> DEFINE h == at[c]
  <2>2. Grows(h) /\ hunts'[h].begun \in BOOLEAN
    <3>1. /\ hunts'[h].begun = hunts[h].begun /\ hunts'[h].previous = hunts[h].previous
          /\ hunts'[h].todo = hunts[h].todo /\ hunts'[h].copied = hunts[h].copied /\ hunts'[h].events = hunts[h].events
          /\ h \in Hunts!Runs
      BY <2>1 DEF Keeps, Keys
    <3>2. \A a \in Artifacts : hunts'[h][a] = hunts[h][a]
      BY <2>1 DEF Keeps, Keys, Artifacts
    <3> HIDE DEF h
    <3> QED
      BY <1>0, <3>1, <3>2 DEF Grows, IsFrozen
  <2> QED
    BY <1>1, <2>1, <2>2 DEF Keeps
<1>9. CASE Ends(c)
  BY <1>5, <1>9 DEF Ends, Artifacts
<1>10. CASE Moves(c)
  <2>1. CASE hunts' = hunts
    BY <1>0, <2>1, SameGrows
  <2>2. CASE pc[c] \in Artifacts /\ Writes(c, pc[c], "part")
    BY <1>5, <2>2
  <2> QED
    BY <1>10, <2>1, <2>2 DEF Moves
<1> QED
  BY <1>3, <1>4, <1>6, <1>7, <1>8, <1>9, <1>10 DEF ActsOn

\* Of some runs, one is the last.
LEMMA LastRun ==
  ASSUME NEW S, S \subseteq Hunts!Runs, S # {}
  PROVE  \E h \in S : \A g \in S : g <= h
<1> DEFINE R == {ss \in Nat \X Nat : ss[1] < ss[2]}
           Gaps == {NRuns - h : h \in S}
<1>1. IsWellFoundedOn(R, Nat)
  BY NatLessThanWellFounded, Zenon DEF OpToRel
<1>2. /\ \A h \in S : h \in Nat /\ NRuns - h \in Nat
      /\ Gaps \subseteq Nat /\ Gaps # {}
  <2>1. \A h \in S : h \in Nat /\ NRuns - h \in Nat
    BY HuntAssumption DEF Hunts!Runs
  <2>2. PICK h \in S : TRUE
    OBVIOUS
  <2>3. NRuns - h \in Gaps
    OBVIOUS
  <2> QED
    BY <2>1, <2>3
<1>3. PICK d \in Gaps : \A e \in Gaps : ~(<<e, d>> \in R)
  <2> HIDE DEF R, Gaps
  <2> QED
    BY <1>1, <1>2, WFMin, Zenon
<1>4. \A e \in Gaps : ~(e < d)
  BY <1>2, <1>3
<1>5. PICK h \in S : d = NRuns - h
  OBVIOUS
<1>6. \A g \in S : ~(NRuns - g < NRuns - h)
  BY <1>4, <1>5
<1> QED
  BY <1>2, <1>6, HuntAssumption

LEMMA LatestIsComplete ==
  Hunts!LatestCompleteRun # None =>
    Hunts!LatestCompleteRun \in Hunts!Runs /\ Hunts!Complete(Hunts!LatestCompleteRun)
<1> SUFFICES ASSUME Hunts!LatestCompleteRun # None
             PROVE  Hunts!LatestCompleteRun \in Hunts!Runs /\ Hunts!Complete(Hunts!LatestCompleteRun)
  OBVIOUS
<1> DEFINE S == {h \in Hunts!Runs : Hunts!Complete(h)}
<1>1. S # {}
  BY DEF Hunts!LatestCompleteRun
<1>2. \E h \in S : \A g \in S : g <= h
  <2>1. S \subseteq Hunts!Runs
    OBVIOUS
  <2> HIDE DEF S
  <2> QED
    BY <1>1, <2>1, LastRun
<1>3. \E h \in Hunts!Runs : Hunts!Complete(h) /\ \A g \in Hunts!Runs : Hunts!Complete(g) => g <= h
  BY <1>2
<1> QED
  BY <1>1, <1>3, Zenon DEF Hunts!LatestCompleteRun

LEMMA CompleteIsFrozen ==
  ASSUME HuntInv, NEW h \in Hunts!Runs, Hunts!Complete(h)
  PROVE  IsFrozen(h)
BY DEF HuntInv, RunOK, Hunts!Complete

\* What is said about a run stays true of it.
LEMMA BasedStays ==
  ASSUME HuntInv, \A g \in Hunts!Runs : Grows(g), NEW h \in Hunts!Runs,
         \/ hunts'[h].previous = hunts[h].previous
         \/ hunts'[h].previous = Hunts!LatestCompleteRun
  PROVE  Based(h)'
<1>1. CASE hunts'[h].previous = None
  BY <1>1 DEF Based
<1>2. CASE hunts'[h].previous # None
  <2>1. PICK p \in Hunts!Runs : hunts'[h].previous = p /\ Hunts!Complete(p)
    BY <1>2, LatestIsComplete DEF HuntInv, RunOK, Based
  <2>2. hunts'[p].done = "whole" /\ hunts'[p].original = "whole" /\ hunts'[p].coverage = "whole"
    BY <2>1 DEF Grows, Hunts!Complete, Artifacts
  <2> QED
    BY <2>1, <2>2 DEF Based, Hunts!Complete
<1> QED
  BY <1>1, <1>2

LEMMA ClassifyStays ==
  ASSUME HuntInv, \A g \in Hunts!Runs : Grows(g), NEW h \in Hunts!Runs, IsFrozen(h)
  PROVE  IsFrozen(h)' /\ Hunts!Classify(h)' = Hunts!Classify(h)
<1>1. /\ IsFrozen(h)' /\ hunts'[h].copied = hunts[h].copied
      /\ hunts'[h].previous = hunts[h].previous
  BY DEF Grows, IsFrozen
<1>2. hunts[h].previous # None =>
        hunts'[hunts[h].previous].copied = hunts[hunts[h].previous].copied
  <2>1. ASSUME hunts[h].previous # None
        PROVE  hunts[h].previous \in Hunts!Runs /\ Hunts!Complete(hunts[h].previous)
    BY <2>1 DEF HuntInv, RunOK, Based
  <2> QED
    BY <2>1, CompleteIsFrozen DEF Grows
<1> QED
  BY <1>1, <1>2 DEF Hunts!Classify, Hunts!Manifest

LEMMA ToldStays ==
  ASSUME HuntInv, \A g \in Hunts!Runs : Grows(g), NEW h \in Hunts!Runs,
         \/ hunts'[h].told = hunts[h].told
         \/ hunts'[h].told = Hunts!Classify(h) /\ IsFrozen(h)
  PROVE  Told(h)'
<1>1. CASE hunts'[h].told = None
  BY <1>1 DEF Told
<1>2. CASE hunts'[h].told # None
  <2>1. IsFrozen(h) /\ hunts'[h].told = Hunts!Classify(h)
    BY <1>2 DEF HuntInv, RunOK, Told
  <2> QED
    BY <2>1, ClassifyStays DEF Told
<1> QED
  BY <1>1, <1>2

\* A run that a step leaves alone.
LEMMA OtherRunOK ==
  ASSUME HuntInv, \A g \in Hunts!Runs : Grows(g), NEW h \in Hunts!Runs, hunts'[h] = hunts[h]
  PROVE  RunOK(h)'
<1>1. Based(h)' /\ Told(h)'
  BY BasedStays, ToldStays
<1>2. CopiedOf(h)' /\ Finished(h)' /\ (hunts'[h].original # "none" => IsFrozen(h)')
  BY DEF HuntInv, RunOK, CopiedOf, Finished, IsFrozen
<1> QED
  BY <1>1, <1>2 DEF RunOK

\* The run a step works on: one field of it changes, or several.
LEMMA SameFields ==
  ASSUME NEW h, NEW S, Keeps(h, S), S \subseteq {"events", "told"} \cup Artifacts
  PROVE  /\ hunts'[h].begun = hunts[h].begun /\ hunts'[h].previous = hunts[h].previous
         /\ hunts'[h].todo = hunts[h].todo /\ hunts'[h].copied = hunts[h].copied
         /\ \A a \in Artifacts \ S : hunts'[h][a] = hunts[h][a]
         /\ "events" \notin S => hunts'[h].events = hunts[h].events
         /\ "told" \notin S => hunts'[h].told = hunts[h].told
BY DEF Keeps, Keys, Artifacts

LEMMA WritesKeepsOK ==
  ASSUME HuntInv, \A g \in Hunts!Runs : Grows(g), NEW c \in Wrapper, NEW a \in Artifacts,
         NEW v \in {"part", "whole"}, Writes(c, a, v), pc[c] = a
  PROVE  \A h \in Hunts!Runs : RunOK(h)'
<1> DEFINE r == at[c]
<1>1. r \in Hunts!Runs /\ Keeps(r, {a}) /\ hunts[r][a] = "none" /\ hunts'[r][a] = v
  BY DEF Writes
<1>2. PlaceOK(c) /\ RunOK(r)
  BY <1>1 DEF HuntInv
<1> HIDE DEF r
<1>3. /\ hunts'[r].begun = hunts[r].begun /\ hunts'[r].previous = hunts[r].previous
      /\ hunts'[r].todo = hunts[r].todo /\ hunts'[r].copied = hunts[r].copied
      /\ hunts'[r].events = hunts[r].events /\ hunts'[r].told = hunts[r].told
      /\ \A b \in Artifacts \ {a} : hunts'[r][b] = hunts[r][b]
  BY <1>1, SameFields DEF Artifacts
<1>4. Grows(r)
  BY <1>1
<1>5. PICK h \in Hunts!Runs : h = r
  BY <1>1
<1>6. Based(h)' /\ Told(h)'
  BY <1>3, <1>5, BasedStays, ToldStays
<1>7. CopiedOf(h)'
  BY <1>2, <1>3, <1>5 DEF RunOK, CopiedOf
<1>8. Finished(h)'
  <2>1. ASSUME hunts'[r].done = "whole"
        PROVE  hunts'[r].report = "whole" /\ hunts'[r].coverage = "whole" /\ "published" \in hunts'[r].events
    <3>1. CASE a = "done"
      BY <1>2, <1>3, <3>1 DEF PlaceOK, Artifacts, r
    <3>2. CASE a # "done"
      <4>1. hunts[r].done = "whole"
        BY <1>3, <2>1, <3>2 DEF Artifacts
      <4> QED
        BY <1>1, <1>2, <1>3, <4>1 DEF RunOK, Finished, Artifacts
    <3> QED
      BY <3>1, <3>2
  <2> QED
    BY <1>5, <2>1 DEF Finished
<1>9. hunts'[h].original # "none" => IsFrozen(h)'
  <2>1. hunts'[r].original # "none" => IsFrozen(r)
    <3>1. CASE a = "original"
      BY <1>2, <3>1 DEF PlaceOK, r
    <3>2. CASE a # "original"
      BY <1>2, <1>3, <3>2 DEF RunOK, Artifacts
    <3> QED
      BY <3>1, <3>2
  <2> QED
    BY <1>3, <1>5, <2>1 DEF IsFrozen
<1>10. \A g \in Hunts!Runs \ {h} : hunts'[g] = hunts[g]
  BY <1>1, <1>5 DEF Keeps, OtherRuns
<1> QED
  BY <1>6, <1>7, <1>8, <1>9, <1>10, OtherRunOK DEF RunOK

LEMMA RunsStayOK ==
  ASSUME HuntInv, NEW c \in Wrapper, ActsOn(c)
  PROVE  \A h \in Hunts!Runs : RunOK(h)'
<1>0. \A g \in Hunts!Runs : Grows(g)
  BY HuntGrows
<1>1. ASSUME NEW h \in Hunts!Runs, OtherRuns(h), RunOK(h)'
      PROVE  \A g \in Hunts!Runs : RunOK(g)'
  BY <1>0, <1>1, OtherRunOK DEF OtherRuns
<1>2. CASE Begins(c)
  <2>1. PICK h \in Hunts!Runs :
          /\ hunts[h].begun = FALSE
          /\ Keeps(h, {"begun", "previous", "todo"})
          /\ hunts'[h].begun = TRUE /\ hunts'[h].previous = Hunts!LatestCompleteRun /\ hunts'[h].todo = File
    BY <1>2 DEF Begins
  <2>2. /\ hunts'[h].copied = hunts[h].copied /\ hunts'[h].told = hunts[h].told
        /\ hunts'[h].done = hunts[h].done /\ hunts'[h].original = hunts[h].original
        /\ hunts'[h].report = hunts[h].report /\ hunts'[h].coverage = hunts[h].coverage
        /\ hunts'[h].events = hunts[h].events
    BY <2>1 DEF Keeps, Keys, Artifacts
  <2>3. RunOK(h)
    BY DEF HuntInv
  <2>4. Based(h)' /\ Told(h)'
    BY <1>0, <2>1, <2>2, BasedStays, ToldStays
  <2>5. CopiedOf(h)' /\ Finished(h)' /\ (hunts'[h].original # "none" => IsFrozen(h)')
    BY <2>1, <2>2, <2>3 DEF RunOK, CopiedOf, Finished, IsFrozen
  <2> QED
    BY <1>1, <2>1, <2>4, <2>5 DEF RunOK, Keeps
<1>3. CASE Copies(c)
  <2>1. PICK h \in Hunts!Runs : h = at[c]
    BY <1>3 DEF Copies
  <2>2. PICK p \in hunts[h].todo :
          /\ hunts'[h].todo = hunts[h].todo \ {p}
          /\ DOMAIN hunts'[h].copied = DOMAIN hunts[h].copied \cup {p}
          /\ hunts'[h].copied = [y \in DOMAIN hunts'[h].copied |-> hunts'[h].copied[y]]
    BY <1>3, <2>1 DEF Copies
  <2>3. Keeps(h, {"todo", "copied"}) /\ hunts[h].begun = TRUE /\ RunOK(h)
    BY <1>3, <2>1 DEF Copies, HuntInv, PlaceOK
  <2>4. /\ hunts'[h].begun = hunts[h].begun /\ hunts'[h].previous = hunts[h].previous
        /\ hunts'[h].told = hunts[h].told
        /\ hunts'[h].done = hunts[h].done /\ hunts'[h].original = hunts[h].original
        /\ hunts'[h].report = hunts[h].report /\ hunts'[h].coverage = hunts[h].coverage
        /\ hunts'[h].events = hunts[h].events
    BY <2>3 DEF Keeps, Keys, Artifacts
  <2>5. Based(h)' /\ Told(h)'
    BY <1>0, <2>4, BasedStays, ToldStays
  <2>6. CopiedOf(h)'
    <3>1. hunts[h].todo \subseteq File /\ DOMAIN hunts[h].copied = File \ hunts[h].todo
      BY <2>3 DEF RunOK, CopiedOf
    <3> QED
      BY <2>2, <2>3, <2>4, <3>1 DEF CopiedOf
  <2>7. Finished(h)' /\ hunts'[h].original = "none"
    BY <2>2, <2>3, <2>4 DEF RunOK, Finished, IsFrozen
  <2> QED
    BY <1>1, <2>3, <2>5, <2>6, <2>7 DEF RunOK, Keeps
<1>4. CASE CreatesOne(c)
  <2>1. PICK p \in Creations : Writes(c, p[1], "whole") /\ pc[c] = p[1]
    BY <1>4 DEF CreatesOne
  <2>2. p[1] \in Artifacts
    BY DEF Creations, Artifacts
  <2> QED
    BY <1>0, <2>1, <2>2, WritesKeepsOK
<1>5. CASE LogsOne(c)
  <2>1. PICK h \in Hunts!Runs : h = at[c]
    BY <1>5 DEF LogsOne
  <2>2. Keeps(h, {"events"}) /\ hunts[h].events \subseteq hunts'[h].events /\ RunOK(h)
    BY <1>5, <2>1 DEF LogsOne, HuntInv
  <2>3. /\ hunts'[h].begun = hunts[h].begun /\ hunts'[h].previous = hunts[h].previous
        /\ hunts'[h].todo = hunts[h].todo /\ hunts'[h].copied = hunts[h].copied
        /\ hunts'[h].told = hunts[h].told
        /\ \A b \in Artifacts : hunts'[h][b] = hunts[h][b]
    BY <2>2, SameFields DEF Artifacts
  <2>4. Based(h)' /\ Told(h)'
    BY <1>0, <2>3, BasedStays, ToldStays
  <2>5. CopiedOf(h)' /\ Finished(h)' /\ (hunts'[h].original # "none" => IsFrozen(h)')
    BY <2>2, <2>3 DEF RunOK, CopiedOf, Finished, IsFrozen, Artifacts
  <2> QED
    BY <1>1, <2>2, <2>4, <2>5 DEF RunOK, Keeps
<1>6. CASE Tells(c)
  <2>1. PICK h \in Hunts!Runs : h = at[c]
    BY <1>6 DEF Tells
  <2>2. /\ Keeps(h, {"told"}) /\ hunts'[h].told = Hunts!Classify(h) /\ RunOK(h) /\ IsFrozen(h)
    BY <1>6, <2>1 DEF Tells, HuntInv, PlaceOK
  <2>3. /\ hunts'[h].begun = hunts[h].begun /\ hunts'[h].previous = hunts[h].previous
        /\ hunts'[h].todo = hunts[h].todo /\ hunts'[h].copied = hunts[h].copied
        /\ hunts'[h].events = hunts[h].events
        /\ \A b \in Artifacts : hunts'[h][b] = hunts[h][b]
    BY <2>2, SameFields DEF Artifacts
  <2>4. Based(h)' /\ Told(h)'
    BY <1>0, <2>2, <2>3, BasedStays, ToldStays
  <2>5. CopiedOf(h)' /\ Finished(h)' /\ (hunts'[h].original # "none" => IsFrozen(h)')
    BY <2>2, <2>3 DEF RunOK, CopiedOf, Finished, IsFrozen, Artifacts
  <2> QED
    BY <1>1, <2>2, <2>4, <2>5 DEF RunOK, Keeps
<1>7. CASE Ends(c)
  BY <1>0, <1>7, WritesKeepsOK DEF Ends, Artifacts
<1>8. CASE Moves(c)
  <2>1. CASE hunts' = hunts
    BY <1>0, <2>1, OtherRunOK
  <2>2. CASE pc[c] \in Artifacts /\ Writes(c, pc[c], "part")
    BY <1>0, <2>2, WritesKeepsOK
  <2> QED
    BY <1>8, <2>1, <2>2 DEF Moves
<1> QED
  BY <1>2, <1>3, <1>4, <1>5, <1>6, <1>7, <1>8 DEF ActsOn

LEMMA ControlStays ==
  ASSUME HuntInv, NEW c \in Wrapper, ActsOn(c), HuntFrame(c)
  PROVE  HuntControl'
<1>1. /\ DOMAIN hunts' = Hunts!Runs
      /\ \A h \in Hunts!Runs : DOMAIN hunts'[h] = Keys /\ hunts'[h].begun \in BOOLEAN
  BY HuntGrows
<1>2. pc'[c] \in HuntLabels /\ at'[c] \in Hunts!Runs \cup {None} /\ (pc'[c] # "idle" => at'[c] \in Hunts!Runs)
  <2>1. at[c] \in Hunts!Runs \cup {None} /\ (pc[c] # "idle" => at[c] \in Hunts!Runs)
    BY DEF HuntInv, HuntControl
  <2>2. CASE CreatesOne(c)
    BY <2>1, <2>2 DEF CreatesOne, Creations, HuntLabels
  <2>3. CASE ~CreatesOne(c)
    BY <2>1, <2>3 DEF ActsOn, Begins, Copies, LogsOne, Tells, Ends, Moves, HuntLabels
  <2> QED
    BY <2>2, <2>3
<1>3. /\ pc' \in [Wrapper -> HuntLabels] /\ at' \in [Wrapper -> Hunts!Runs \cup {None}]
      /\ \A d \in Wrapper \ {c} : pc'[d] = pc[d] /\ at'[d] = at[d]
  BY <1>2 DEF HuntFrame, HuntInv, HuntControl
<1> QED
  BY <1>1, <1>2, <1>3 DEF HuntInv, HuntControl

LEMMA PlacesStayOK ==
  ASSUME HuntInv, NEW c \in Wrapper, ActsOn(c), HuntFrame(c), NEW d \in Wrapper
  PROVE  PlaceOK(d)'
<1>0. \A g \in Hunts!Runs : Grows(g)
  BY HuntGrows
<1>1. PlaceOK(c) /\ PlaceOK(d) /\ (pc[c] # "idle" => at[c] \in Hunts!Runs) /\ (pc[d] # "idle" => at[d] \in Hunts!Runs)
  BY DEF HuntInv, HuntControl
\* A process that stands where it stood.
<1>2. ASSUME pc'[d] = pc[d], at'[d] = at[d] PROVE PlaceOK(d)'
  <2>1. CASE pc[d] = "idle"
    BY <1>2, <2>1 DEF PlaceOK
  <2>2. CASE pc[d] # "idle"
    <3>1. PICK h \in Hunts!Runs : h = at[d]
      BY <1>1, <2>2
    <3>2. Grows(h)
      BY <1>0
    <3> QED
      BY <1>1, <1>2, <3>1, <3>2 DEF PlaceOK, Grows, IsFrozen, Artifacts
  <2> QED
    BY <2>1, <2>2
<1>3. CASE d # c
  <2>1. pc'[d] = pc[d] /\ at'[d] = at[d]
    BY <1>3 DEF HuntFrame, HuntInv, HuntControl
  <2> QED
    BY <1>2, <2>1
<1>4. CASE d = c
  <2>0. ASSUME pc'[c] = "idle" \/ pc'[c] = "report" PROVE PlaceOK(c)'
    BY <2>0 DEF PlaceOK
  <2>1. CASE Begins(c)
    BY <1>4, <2>1 DEF Begins, PlaceOK
  <2>2. CASE Copies(c)
    BY <1>2, <1>4, <2>2 DEF Copies
  <2>3. CASE CreatesOne(c)
    <3>1. PICK p \in Creations : /\ pc[c] = p[1] /\ pc'[c] = p[2] /\ at'[c] = at[c]
                              /\ Writes(c, p[1], "whole")
      BY <2>3 DEF CreatesOne
    <3>2. PICK h \in Hunts!Runs : h = at[c]
      BY <3>1 DEF Writes
    <3>3. Grows(h) /\ hunts'[h][p[1]] = "whole"
      BY <1>0, <3>1, <3>2 DEF Writes
    <3>4. CASE pc[c] \in {"original", "ledger", "state"}
      <4>1. pc'[c] \in {"ledger", "state", "prepared"} /\ IsFrozen(h)
        BY <1>1, <3>1, <3>2, <3>4 DEF Creations, PlaceOK
      <4> QED
        BY <1>4, <3>1, <3>2, <3>3, <4>1 DEF Grows, IsFrozen, PlaceOK
    <3>5. CASE pc[c] = "report"
      <4>1. pc'[c] = "coverage" /\ hunts'[h].report = "whole"
        <5>1. p[1] = "report"
          BY <3>1, <3>5
        <5>2. p[2] = "coverage"
          BY <5>1 DEF Creations
        <5> QED
          BY <3>1, <3>3, <5>1, <5>2
      <4> QED
        BY <1>4, <3>1, <3>2, <4>1 DEF PlaceOK
    <3>6. CASE pc[c] = "coverage"
      <4>1. pc'[c] = "published" /\ hunts'[h].coverage = "whole" /\ hunts[h].report = "whole"
        <5>1. p[1] = "coverage"
          BY <3>1, <3>6
        <5>2. p[2] = "published"
          BY <5>1 DEF Creations
        <5> QED
          BY <1>1, <3>1, <3>2, <3>3, <3>6, <5>1, <5>2 DEF PlaceOK
      <4> QED
        BY <1>4, <3>1, <3>2, <3>3, <4>1 DEF Grows, Artifacts, PlaceOK
    <3> QED
      BY <3>1, <3>4, <3>5, <3>6 DEF Creations
  <2>4. CASE LogsOne(c)
    <3>1. PICK e \in {"prepared", "published"} :
            /\ pc[c] = e /\ pc'[c] = IF e = "prepared" THEN "tell" ELSE "done"
            /\ at'[c] = at[c] /\ at[c] \in Hunts!Runs
            /\ hunts'[at[c]].events = hunts[at[c]].events \cup {e}
      BY <2>4 DEF LogsOne
    <3>2. PICK h \in Hunts!Runs : h = at[c]
      BY <3>1
    <3>3. Grows(h) /\ hunts'[h].events = hunts[h].events \cup {e} /\ at'[c] = h
      BY <1>0, <3>1, <3>2
    <3>4. CASE e = "prepared"
      <4>1. pc'[c] = "tell" /\ IsFrozen(h)
        BY <1>1, <3>1, <3>2, <3>4 DEF PlaceOK
      <4> QED
        BY <1>4, <3>3, <4>1 DEF Grows, IsFrozen, PlaceOK
    <3>5. CASE e = "published"
      <4>1. pc'[c] = "done" /\ hunts[h].report = "whole" /\ hunts[h].coverage = "whole"
        BY <1>1, <3>1, <3>2, <3>5 DEF PlaceOK
      <4> QED
        BY <1>4, <3>3, <3>5, <4>1 DEF Grows, Artifacts, PlaceOK
    <3> QED
      BY <3>4, <3>5
  <2>5. CASE Tells(c) \/ Ends(c)
    BY <1>4, <2>0, <2>5 DEF Tells, Ends
  <2>6. CASE Moves(c)
    <3>1. CASE pc'[c] = "original"
      BY <1>4, <2>6, <3>1 DEF Moves, IsFrozen, PlaceOK
    <3>2. CASE pc'[c] # "original"
      BY <1>4, <2>0, <2>6, <3>2 DEF Moves
    <3> QED
      BY <3>1, <3>2
  <2> QED
    BY <2>1, <2>2, <2>3, <2>4, <2>5, <2>6 DEF ActsOn
<1> QED
  BY <1>3, <1>4

LEMMA HuntStep == HuntInv /\ Hunts!Next => HuntInv'
<1> SUFFICES ASSUME HuntInv, Hunts!Next PROVE HuntInv'
  OBVIOUS
<1>1. CASE UNCHANGED <<pc, at, hunts>>
  <2>1. \A g \in Hunts!Runs : Grows(g)
    BY <1>1, SameGrows
  <2>2. \A h \in Hunts!Runs : RunOK(h)'
    BY <1>1, <2>1, OtherRunOK
  <2>3. HuntControl' /\ \A c \in Wrapper : PlaceOK(c)'
    BY <1>1 DEF HuntInv, HuntControl, PlaceOK, IsFrozen
  <2> QED
    BY <2>2, <2>3 DEF HuntInv
<1>2. ASSUME NEW c \in Wrapper, ActsOn(c), HuntFrame(c) PROVE HuntInv'
  BY <1>2, RunsStayOK, ControlStays, PlacesStayOK DEF HuntInv
<1> QED
  BY <1>1, <1>2, HuntEffects

LEMMA HuntStutter == HuntInv /\ UNCHANGED <<pc, huntOnly>> => HuntInv'
<1> SUFFICES ASSUME HuntInv, UNCHANGED <<pc, huntOnly>> PROVE HuntInv'
  OBVIOUS
<1>1. UNCHANGED <<pc, at, hunts>>
  BY DEF huntOnly
<1>2. \A h \in Hunts!Runs : RunOK(h)'
  BY <1>1, SameGrows, OtherRunOK
<1> QED
  BY <1>1, <1>2 DEF HuntInv, HuntControl, PlaceOK, IsFrozen

LEMMA HuntSound == HuntInv => Hunts!CoverageIsBacked
<1> SUFFICES ASSUME HuntInv, NEW h \in Hunts!Runs, hunts[h].told # None
             PROVE  LET told == hunts[h].told
                        from == told.from
                    IN  /\ from # None =>
                             /\ hunts[from].report = "whole" /\ hunts[from].coverage = "whole"
                             /\ "published" \in hunts[from].events
                        /\ told.status = "current" <=>
                             from # None /\ \A f \in File : hunts[from].copied[f] = hunts[h].copied[f]
  BY DEF Hunts!CoverageIsBacked
<1> DEFINE p == hunts[h].previous
<1>1. IsFrozen(h) /\ hunts[h].told = Hunts!Classify(h) /\ RunOK(h)
  BY DEF HuntInv, RunOK, Told
<1>2. CASE p = None
  <2>1. hunts[h].told = [status |-> "none", from |-> None]
    BY <1>1, <1>2 DEF Hunts!Classify
  <2> QED
    BY <2>1
<1>3. CASE p # None
  <2>1. p \in Hunts!Runs /\ Hunts!Complete(p)
    BY <1>1, <1>3 DEF RunOK, Based
  <2>2. IsFrozen(p) /\ RunOK(p)
    BY <2>1, CompleteIsFrozen DEF HuntInv
  <2>3. hunts[p].report = "whole" /\ hunts[p].coverage = "whole" /\ "published" \in hunts[p].events
    BY <2>1, <2>2 DEF RunOK, Finished, Hunts!Complete
  <2>4. \A g \in {h, p} : hunts[g].copied = [f \in File |-> hunts[g].copied[f]]
    BY <1>1, <2>2 DEF RunOK, CopiedOf, IsFrozen
  <2>5. hunts[p].copied = hunts[h].copied <=> \A f \in File : hunts[p].copied[f] = hunts[h].copied[f]
    BY <2>4
  <2>6. hunts[h].told.from = p /\ (hunts[h].told.status = "current" <=> hunts[p].copied = hunts[h].copied)
    BY <1>1, <1>3 DEF Hunts!Classify, Hunts!Manifest
  <2> QED
    BY <1>3, <2>3, <2>5, <2>6
<1> QED
  BY <1>2, <1>3

-----------------------------------------------------------------------------
(***************************************************************************)
(* The part "codex", for any number of calls, any names they give their    *)
(* files, and crashes at any step.                                         *)
(*                                                                         *)
(* A call that is past its locks holds one for each of its targets         *)
(* (Locked), and a lock has one holder (Holding): what it has cleared,     *)
(* nobody else touches.  A Codex outlives the locks of its call only when  *)
(* that call timed out, was interrupted or was killed (Followed), and such *)
(* a call stays what it is (Late).                                         *)
(***************************************************************************)
Labels == {"start", "paths", "probe", "prepare", "lock", "return", "remove", "clear", "open",
           "open_err", "popen", "communicate", "applied", "blind", "answer", "release", "end"}

Exits == {"none", "refused", "no_codex", "traceback", "timeout", "unsafe", "blind", "codex", "0",
          "empty", "interrupted", "killed"}

ControlTyped ==
  /\ pc \in [Wrapper -> Labels] /\ exit \in [Wrapper -> Exits]
  /\ child \in [Wrapper -> {"none", "alive", "ended"}]

Fields == {"out", "err", "made", "taken"}

MineTyped ==
  /\ DOMAIN mine = Wrapper
  /\ \A w \in Wrapper :
       /\ DOMAIN mine[w] = Fields
       /\ mine[w].out \in 0..Names /\ mine[w].err \in 0..Names /\ mine[w].made \in BOOLEAN
       /\ mine[w].taken \subseteq Codex!Targets(w)
  /\ \A w \in Wrapper : pc[w] \in {"start", "paths"} => mine[w].taken = {}

FilesTyped ==
  /\ lock \in [Codex!Path -> Wrapper \cup {Free}]
  /\ file \in [Codex!Path -> SUBSET (Wrapper \cup {Free})]

\* Where a call has its targets, and where it holds a lock for each of them.
Named  == Labels \ {"start", "paths", "end"}
Inside == Codex!Running \ {"release"}

Targeted == \A w \in Wrapper : pc[w] \in Named => mine[w].out \in 1..Names /\ mine[w].err \in 1..Names

Locked == \A w \in Wrapper : pc[w] \in Inside => Codex!Targets(w) \subseteq mine[w].taken

\* A call of which the process lives holds the locks it has in its list.
Holding == \A w \in Wrapper, p \in Codex!Path :
  pc[w] # "end" /\ p \in mine[w].taken => lock[p] = w

\* The exit code is set by the step that leaves.
Late == \A w \in Wrapper : exit[w] # "none" => pc[w] \in {"release", "end"}

Outlived(w) == child[w] # "none" /\ exit[w] \in {"timeout", "interrupted", "killed"}
Strays(w)   == \E v \in Wrapper \ {w} : Outlived(v)

Followed ==
  /\ \A w \in Wrapper : child[w] = "alive" => pc[w] = "communicate" \/ Outlived(w)
  /\ \A w \in Wrapper : child[w] = "alive" => mine[w].out \in 1..Names /\ mine[w].err \in 1..Names

\* What a call has cleared holds only its own lines.
Clean(w, p) == file[p] \subseteq {w} \/ Strays(w)

Cleared ==
  /\ \A w \in Wrapper : pc[w] \in Inside \ {"clear"} => Clean(w, mine[w].out)
  /\ \A w \in Wrapper : pc[w] \in Inside \ {"clear", "open"} => Clean(w, Codex!Stream(w))
  /\ \A w \in Wrapper : pc[w] \in Inside \ {"clear", "open", "open_err"} => Clean(w, mine[w].err)

CodexInv ==
  /\ ControlTyped /\ MineTyped /\ FilesTyped
  /\ Targeted /\ Locked /\ Holding /\ Late /\ Followed /\ Cleared

-----------------------------------------------------------------------------
(* Steps *)

\* A step of a call, of its Codex, of what stops it, or of who removes its lock.
Acts(w) == \/ Codex!Step(w) \/ Codex!Write(w) \/ Codex!CodexEnds(w) \/ Codex!Interrupt(w)
           \/ Codex!Crash(w) \/ Codex!FreeLock(w)

\* The steps before the locks, those that take and return them, those under
\* them, and those from outside.
Opening(w)   == \/ Codex!CheckArguments(w) \/ Codex!ResolvePaths(w) \/ Codex!CheckModelCli(w)
              \/ Codex!PrepareTargets(w)
Locking(w) == Codex!AcquireNext(w) \/ Codex!Acquired(w) \/ Codex!ReleaseNext(w) \/ Codex!RemoveMade(w)
Under(w)   == \/ Codex!ClearAnswer(w) \/ Codex!OpenForWrite(w) \/ Codex!Popen(w)
              \/ Codex!CommunicateReturns(w) \/ Codex!TimesOut(w) \/ Codex!ReportApplied(w)
              \/ Codex!JudgeBlind(w) \/ Codex!ReportAnswer(w) \/ Codex!Released(w)
Outside(w) == \/ Codex!Write(w) \/ Codex!CodexEnds(w) \/ Codex!Interrupt(w) \/ Codex!Crash(w)
              \/ Codex!FreeLock(w)

LEMMA StepKinds == Codex!Next => \E w \in Wrapper : Opening(w) \/ Locking(w) \/ Under(w) \/ Outside(w)
BY DEF Codex!Next, Codex!Step, Opening, Locking, Under, Outside

USE CodexAssumption
USE DEF Codex!Goto, Codex!End, Codex!Leave

\* What a step of one call leaves alone.
Frame(w) ==
  /\ pc' = [pc EXCEPT ![w] = pc'[w]] /\ exit' = [exit EXCEPT ![w] = exit'[w]]
  /\ child' = [child EXCEPT ![w] = child'[w]]
  /\ DOMAIN mine' = Wrapper /\ \A v \in Wrapper \ {w} : mine'[v] = mine[v]

\* A change of one or two fields of one call.
LEMMA NamesTaken ==
  ASSUME MineTyped, NEW w \in Wrapper, NEW o, NEW e, mine' = [mine EXCEPT ![w].out = o, ![w].err = e]
  PROVE  /\ DOMAIN mine' = Wrapper /\ \A v \in Wrapper \ {w} : mine'[v] = mine[v]
         /\ mine'[w].out = o /\ mine'[w].err = e /\ mine'[w].made = mine[w].made
         /\ mine'[w].taken = mine[w].taken /\ DOMAIN mine'[w] = Fields
<1> DEFINE r == [mine[w] EXCEPT !.out = o, !.err = e]
<1>1. DOMAIN mine = Wrapper /\ DOMAIN mine[w] = Fields
  BY DEF MineTyped
<1>2. /\ DOMAIN r = Fields /\ r.out = o /\ r.err = e /\ r.made = mine[w].made
      /\ r.taken = mine[w].taken
  BY <1>1 DEF Fields
<1>3. mine' = [mine EXCEPT ![w] = r]
  BY <1>1
<1> QED
  BY <1>1, <1>2, <1>3

LEMMA MadeKept ==
  ASSUME MineTyped, NEW w \in Wrapper, NEW m, mine' = [mine EXCEPT ![w].made = m]
  PROVE  /\ DOMAIN mine' = Wrapper /\ \A v \in Wrapper \ {w} : mine'[v] = mine[v]
         /\ mine'[w].out = mine[w].out /\ mine'[w].err = mine[w].err /\ mine'[w].made = m
         /\ mine'[w].taken = mine[w].taken /\ DOMAIN mine'[w] = Fields
BY DEF MineTyped, Fields

LEMMA TakenKept ==
  ASSUME MineTyped, NEW w \in Wrapper, NEW S, mine' = [mine EXCEPT ![w].taken = S]
  PROVE  /\ DOMAIN mine' = Wrapper /\ \A v \in Wrapper \ {w} : mine'[v] = mine[v]
         /\ mine'[w].out = mine[w].out /\ mine'[w].err = mine[w].err /\ mine'[w].made = mine[w].made
         /\ mine'[w].taken = S /\ DOMAIN mine'[w] = Fields
BY DEF MineTyped, Fields

\* What a step of each kind does.
OpeningMove(w) ==
  /\ Frame(w) /\ UNCHANGED <<file, lock>> /\ child'[w] = child[w]
  /\ DOMAIN mine'[w] = Fields /\ mine'[w].taken = mine[w].taken /\ mine'[w].made \in BOOLEAN
  /\ \/ pc[w] = "paths" /\ mine'[w].out \in 1..Names /\ mine'[w].err \in 1..Names
     \/ mine'[w].out = mine[w].out /\ mine'[w].err = mine[w].err
  /\ \/ pc[w] = "start" /\ pc'[w] = "paths" /\ exit'[w] = exit[w]
     \/ /\ pc[w] = "paths" /\ pc'[w] = "probe" /\ exit'[w] = exit[w]
        /\ mine'[w].out \in 1..Names /\ mine'[w].err \in 1..Names
     \/ pc[w] \in {"probe", "prepare"} /\ pc'[w] \in {"prepare", "lock", "remove"} /\ exit'[w] = exit[w]
     \/ pc[w] \in {"start", "paths", "probe"} /\ pc'[w] = "end" /\ exit'[w] \in {"refused", "no_codex"}

LEMMA EarlyEffect ==
  ASSUME ControlTyped, MineTyped, NEW w \in Wrapper, Opening(w)
  PROVE  OpeningMove(w)
<1> USE DEF OpeningMove, ControlTyped, MineTyped, Frame, Named, Labels
<1>1. CASE Codex!CheckArguments(w)
  BY <1>1 DEF Codex!CheckArguments
<1>2. CASE Codex!ResolvePaths(w)
  <2>1. /\ pc[w] = "paths" /\ UNCHANGED <<child, file, lock>>
        /\ \/ /\ pc' = [pc EXCEPT ![w] = "probe"] /\ UNCHANGED exit
              /\ \E o, e \in 1..Names : mine' = [mine EXCEPT ![w].out = o, ![w].err = e]
           \/ /\ pc' = [pc EXCEPT ![w] = "end"] /\ UNCHANGED mine
              /\ exit' \in {[exit EXCEPT ![w] = "refused"], [exit EXCEPT ![w] = "no_codex"]}
    BY <1>2 DEF Codex!ResolvePaths
  <2>2. CASE \E o, e \in 1..Names : mine' = [mine EXCEPT ![w].out = o, ![w].err = e]
    <3>1. PICK o, e \in 1..Names : mine' = [mine EXCEPT ![w].out = o, ![w].err = e]
      BY <2>2
    <3>2. /\ DOMAIN mine' = Wrapper /\ \A v \in Wrapper \ {w} : mine'[v] = mine[v]
          /\ mine'[w].out = o /\ mine'[w].err = e /\ mine'[w].made = mine[w].made
          /\ mine'[w].taken = mine[w].taken /\ DOMAIN mine'[w] = Fields
      <4> HIDE DEF MineTyped
      <4> QED BY <3>1, NamesTaken, Zenon
    <3> QED
      BY <2>1, <3>2
  <2> QED
    BY <2>1, <2>2
<1>3. CASE Codex!CheckModelCli(w)
  BY <1>3 DEF Codex!CheckModelCli
<1>4. CASE Codex!PrepareTargets(w)
  <2>1. /\ pc[w] = "prepare" /\ UNCHANGED <<exit, child, file, lock>>
        /\ pc' = [pc EXCEPT ![w] = pc'[w]] /\ pc'[w] \in {"lock", "remove"}
        /\ UNCHANGED mine \/ \E m \in BOOLEAN : mine' = [mine EXCEPT ![w].made = m]
    BY <1>4 DEF Codex!PrepareTargets
  <2>2. CASE \E m \in BOOLEAN : mine' = [mine EXCEPT ![w].made = m]
    <3>1. PICK m \in BOOLEAN : mine' = [mine EXCEPT ![w].made = m]
      BY <2>2
    <3>2. /\ DOMAIN mine' = Wrapper /\ \A v \in Wrapper \ {w} : mine'[v] = mine[v]
          /\ mine'[w].out = mine[w].out /\ mine'[w].err = mine[w].err /\ mine'[w].made = m
          /\ mine'[w].taken = mine[w].taken /\ DOMAIN mine'[w] = Fields
      BY <3>1, MadeKept, Zenon
    <3> QED
      BY <2>1, <3>2
  <2> QED
    BY <2>1, <2>2
<1> QED
  BY <1>1, <1>2, <1>3, <1>4 DEF Opening

\* Under the locks no lock and no target changes.
UnderMove(w) ==
  /\ Frame(w) /\ UNCHANGED <<mine, lock>>
  /\ child'[w] \in {child[w], "alive", "ended"}
  /\ child'[w] = "alive" =>
       pc'[w] = "communicate" \/ exit'[w] = "timeout" \/ (pc[w] # "communicate" /\ child[w] = "alive")
  /\ \/ pc[w] \in Inside /\ pc'[w] = "release" /\ exit'[w] \in Exits \ {"none"}
     \/ pc[w] = "release" /\ pc'[w] = "end" /\ exit'[w] = exit[w]
     \/ pc[w] \in Inside /\ pc'[w] \in Inside /\ exit'[w] = exit[w]

LEMMA UnderEffect ==
  ASSUME ControlTyped, MineTyped, NEW w \in Wrapper, Under(w)
  PROVE  UnderMove(w)
<1> USE DEF UnderMove, ControlTyped, Exits, Inside, Codex!Running, Frame, MineTyped
<1>1. CASE Codex!ClearAnswer(w)
  BY <1>1 DEF Codex!ClearAnswer
<1>4. CASE Codex!OpenForWrite(w)
  BY <1>4 DEF Codex!OpenForWrite
<1>5. CASE Codex!Popen(w)
  <2>1. pc[w] = "popen" /\ UNCHANGED <<mine, lock>>
    BY <1>5 DEF Codex!Popen
  <2>2. CASE child' = [child EXCEPT ![w] = "alive"] /\ pc' = [pc EXCEPT ![w] = "communicate"] /\ UNCHANGED exit
    BY <2>1, <2>2
  <2>3. CASE UNCHANGED child /\ pc' = [pc EXCEPT ![w] = "release"] /\ exit' = [exit EXCEPT ![w] = "no_codex"]
    BY <2>1, <2>3
  <2> QED
    BY <1>5, <2>2, <2>3 DEF Codex!Popen
<1>2. CASE Codex!CommunicateReturns(w) \/ Codex!TimesOut(w) \/ Codex!ReportApplied(w)
  BY <1>2 DEF Codex!CommunicateReturns, Codex!TimesOut, Codex!ReportApplied
<1>3. CASE Codex!JudgeBlind(w) \/ Codex!ReportAnswer(w) \/ Codex!Released(w)
  BY <1>3 DEF Codex!JudgeBlind, Codex!ReportAnswer, Codex!Released
<1> QED
  BY <1>1, <1>2, <1>3, <1>4, <1>5 DEF Under

\* The lock that is taken next is one of those that are missing.
LEMMA NextLock ==
  ASSUME MineTyped, NEW w \in Wrapper, mine[w].out \in 1..Names, mine[w].err \in 1..Names,
         Codex!Missing(w) # {}
  PROVE  Codex!Min(Codex!Missing(w)) \in Codex!Path /\ Codex!Min(Codex!Missing(w)) \in Codex!Targets(w)
<1> DEFINE S == Codex!Missing(w)
           a == mine[w].out
           b == mine[w].err
           c == Codex!Stream(w)
<1>1. a \in Codex!Path /\ b \in Codex!Path /\ c \in Codex!Path
  BY DEF Codex!Path, Codex!Stream
<1>2. S \subseteq {a, b, c} /\ S # {}
  BY DEF Codex!Missing, Codex!Targets
<1>3. a \in Nat /\ b \in Nat /\ c \in Nat
  BY <1>1 DEF Codex!Path
<1> HIDE DEF S, a, b, c
<1>4. \E x \in S : \A y \in S : x <= y
  BY <1>2, <1>3
<1>5. Codex!Min(S) \in S
  BY <1>4 DEF Codex!Min
<1> QED
  BY <1>1, <1>2, <1>5 DEF S, a, b, c, Codex!Targets

\* The lock p is created by o, or is Free again, and no other changes.
Passes(p, o) ==
  lock' = [n \in Codex!Path |-> IF n = p THEN o ELSE lock[n]]

\* A lock is created where there is none, and removed by who has it in its list.
LockingMove(w) ==
  /\ Frame(w) /\ UNCHANGED <<file, child>>
  /\ DOMAIN mine'[w] = Fields /\ mine'[w].made = mine[w].made
  /\ mine'[w].out = mine[w].out /\ mine'[w].err = mine[w].err
  /\ \/ \E p \in Codex!Path :
          /\ pc[w] = "lock" /\ p \in Codex!Targets(w)
          /\ lock[p] = Free /\ Passes(p, w)
          /\ \/ pc'[w] = "lock" /\ exit'[w] = exit[w] /\ mine'[w].taken = mine[w].taken \cup {p}
             \/ pc'[w] = "end" /\ exit'[w] = "traceback" /\ mine'[w].taken = mine[w].taken
     \/ \E p \in Codex!Path :
          /\ p \in mine[w].taken /\ Passes(p, Free) /\ mine'[w].taken = mine[w].taken \ {p}
          /\ pc[w] \in {"return", "release"} /\ pc'[w] = pc[w] /\ exit'[w] = exit[w]
     \/ /\ UNCHANGED lock /\ mine'[w].taken = mine[w].taken
        /\ \/ pc[w] = "lock" /\ pc'[w] = "return" /\ exit'[w] = exit[w]
           \/ /\ pc[w] = "lock" /\ Codex!Missing(w) = {}
              /\ pc'[w] = "clear" /\ exit'[w] = exit[w]
           \/ pc[w] \in {"return", "remove"} /\ pc'[w] = "end" /\ exit'[w] = "refused"

LEMMA TargetPaths ==
  ASSUME NEW w \in Wrapper, mine[w].out \in 1..Names, mine[w].err \in 1..Names
  PROVE  /\ mine[w].out \in Codex!Path /\ mine[w].err \in Codex!Path /\ Codex!Stream(w) \in Codex!Path
         /\ Codex!Targets(w) \subseteq Codex!Path /\ Codex!Stream(w) # mine[w].err
         /\ Codex!Stream(w) # mine[w].out
BY DEF Codex!Path, Codex!Stream, Codex!Targets

LEMMA LockingEffect ==
  ASSUME ControlTyped, MineTyped, FilesTyped, Targeted, NEW w \in Wrapper, Locking(w)
  PROVE  LockingMove(w)
<1> USE DEF LockingMove, ControlTyped, MineTyped, Frame
<1>1. CASE Codex!AcquireNext(w)
  <2> DEFINE p == Codex!Min(Codex!Missing(w))
  <2>1. /\ pc[w] = "lock" /\ UNCHANGED <<file, child>> /\ Codex!Missing(w) # {}
        /\ \/ /\ lock[p] = Free /\ lock' = [lock EXCEPT ![p] = w]
              /\ mine' = [mine EXCEPT ![w].taken = mine[w].taken \cup {p}] /\ UNCHANGED <<pc, exit>>
           \/ /\ lock[p] = Free /\ lock' = [lock EXCEPT ![p] = w] /\ UNCHANGED mine
              /\ pc' = [pc EXCEPT ![w] = "end"] /\ exit' = [exit EXCEPT ![w] = "traceback"]
           \/ pc' = [pc EXCEPT ![w] = "return"] /\ UNCHANGED <<lock, mine, exit>>
    BY <1>1, Zenon DEF Codex!AcquireNext
  <2>2. p \in Codex!Path /\ p \in Codex!Targets(w)
    BY <2>1, NextLock DEF Targeted, Named, Labels
  <2> HIDE DEF p
  <2>6. DOMAIN lock = Codex!Path
    BY DEF FilesTyped
  <2>3. CASE /\ lock[p] = Free /\ lock' = [lock EXCEPT ![p] = w]
             /\ mine' = [mine EXCEPT ![w].taken = mine[w].taken \cup {p}] /\ UNCHANGED <<pc, exit>>
    <3>1. /\ DOMAIN mine' = Wrapper /\ \A v \in Wrapper \ {w} : mine'[v] = mine[v]
          /\ mine'[w].out = mine[w].out /\ mine'[w].err = mine[w].err /\ mine'[w].made = mine[w].made
          /\ mine'[w].taken = mine[w].taken \cup {p} /\ DOMAIN mine'[w] = Fields
      <4> HIDE DEF MineTyped
      <4> QED BY <2>3, TakenKept, Zenon
    <3> QED
      BY <2>1, <2>2, <2>3, <2>6, <3>1 DEF Passes
  <2>4. CASE /\ lock[p] = Free /\ lock' = [lock EXCEPT ![p] = w] /\ UNCHANGED mine
             /\ pc' = [pc EXCEPT ![w] = "end"] /\ exit' = [exit EXCEPT ![w] = "traceback"]
    BY <2>1, <2>2, <2>4, <2>6 DEF Passes
  <2>5. CASE pc' = [pc EXCEPT ![w] = "return"] /\ UNCHANGED <<lock, mine, exit>>
    BY <2>1, <2>5
  <2> QED
    BY <2>1, <2>3, <2>4, <2>5
<1>2. CASE Codex!Acquired(w)
  BY <1>2 DEF Codex!Acquired
<1>3. CASE Codex!ReleaseNext(w)
  <2>1. PICK p \in mine[w].taken :
          /\ lock' = [lock EXCEPT ![p] = Free]
          /\ mine' = [mine EXCEPT ![w].taken = mine[w].taken \ {p}]
    BY <1>3, Zenon DEF Codex!ReleaseNext
  <2>2. /\ DOMAIN mine' = Wrapper /\ \A v \in Wrapper \ {w} : mine'[v] = mine[v]
        /\ mine'[w].out = mine[w].out /\ mine'[w].err = mine[w].err /\ mine'[w].made = mine[w].made
        /\ mine'[w].taken = mine[w].taken \ {p} /\ DOMAIN mine'[w] = Fields
    <3> HIDE DEF MineTyped
    <3> QED BY <2>1, TakenKept, Zenon
  <2>3. pc[w] \in {"return", "release"} /\ UNCHANGED <<pc, exit, child, file>>
    BY <1>3 DEF Codex!ReleaseNext
  <2>4. p \in Codex!Path /\ DOMAIN lock = Codex!Path
    <3>1. pc[w] \in Named
      BY <2>3 DEF Named, Labels
    <3>2. p \in Codex!Targets(w)
      OBVIOUS
    <3> QED
      BY <3>1, <3>2, TargetPaths DEF FilesTyped, Targeted
  <2> QED
    BY <2>1, <2>2, <2>3, <2>4 DEF Passes
<1>4. CASE Codex!RemoveMade(w)
  BY <1>4 DEF Codex!RemoveMade
<1> QED
  BY <1>1, <1>2, <1>3, <1>4 DEF Locking

\* What comes from outside leaves the targets alone.
OutsideMove(w) ==
  /\ Frame(w) /\ UNCHANGED mine /\ child'[w] \in {child[w], "ended"}
  /\ \/ UNCHANGED <<pc, exit, lock>>
     \/ pc[w] = "communicate" /\ pc'[w] = "release" /\ exit'[w] = "interrupted" /\ UNCHANGED <<file, lock>>
     \/ pc'[w] = "end" /\ exit'[w] = "killed" /\ UNCHANGED <<file, lock>>
     \/ /\ pc[w] = "end" /\ UNCHANGED <<pc, exit, file>>
        /\ \E p \in Codex!Path : lock[p] = w /\ Passes(p, Free)

LEMMA OutsideEffect ==
  ASSUME ControlTyped, MineTyped, FilesTyped, NEW w \in Wrapper, Outside(w)
  PROVE  OutsideMove(w)
<1> USE DEF OutsideMove, ControlTyped, MineTyped, Frame
<1>1. CASE Codex!Write(w) \/ Codex!CodexEnds(w)
  BY <1>1 DEF Codex!Write, Codex!CodexEnds
<1>2. CASE Codex!Interrupt(w) \/ Codex!Crash(w)
  BY <1>2 DEF Codex!Interrupt, Codex!Crash
<1>3. CASE Codex!FreeLock(w)
  BY <1>3 DEF Codex!FreeLock, Passes, FilesTyped
<1> QED
  BY <1>1, <1>2, <1>3 DEF Outside

\* A file is written by the call that clears it, or by its Codex.
FileMove(w) ==
  /\ file' \in [Codex!Path -> SUBSET (Wrapper \cup {Free})]
  /\ \A p \in Codex!Path : file'[p] # file[p] =>
       /\ p \in Codex!Targets(w) /\ file'[p] \subseteq file[p] \cup {w}
       /\ pc[w] \in Inside \/ child[w] = "alive"
  /\ pc[w] = "clear" /\ pc'[w] \in Inside \ {"clear"} => pc'[w] = "open" /\ file'[mine[w].out] = {}
  /\ pc[w] = "open" /\ pc'[w] \in Inside \ {"open"} => pc'[w] = "open_err" /\ file'[Codex!Stream(w)] = {}
  /\ pc[w] = "open_err" /\ pc'[w] \in Inside \ {"open_err"} => pc'[w] = "popen" /\ file'[mine[w].err] = {}
  /\ pc'[w] \in Inside /\ pc[w] \notin Inside => pc'[w] = "clear" /\ UNCHANGED file

LEMMA FileEffect ==
  ASSUME ControlTyped, MineTyped, FilesTyped, Targeted, Followed, NEW w \in Wrapper,
         Opening(w) \/ Locking(w) \/ Under(w) \/ Outside(w)
  PROVE  FileMove(w)
<1> DEFINE a == mine[w].out
           b == mine[w].err
           c == Codex!Stream(w)
<1>1. CASE Opening(w) \/ Locking(w)
  <2>1. UNCHANGED file /\ pc[w] \notin Inside /\ (pc'[w] \in Inside => pc'[w] = "clear")
    <3>1. OpeningMove(w) \/ LockingMove(w)
      BY <1>1, EarlyEffect, LockingEffect
    <3>2. pc[w] \notin Inside
      BY <1>1 DEF Opening, Locking, Inside, Codex!Running, Codex!CheckArguments, Codex!ResolvePaths,
                  Codex!CheckModelCli, Codex!PrepareTargets, Codex!AcquireNext, Codex!Acquired,
                  Codex!ReleaseNext, Codex!RemoveMade
    <3> QED
      BY <3>1, <3>2 DEF OpeningMove, LockingMove, Inside, Codex!Running
  <2> QED
    BY <2>1 DEF FilesTyped, FileMove, Inside, Codex!Running
<1>2. CASE Codex!ClearAnswer(w) \/ Codex!OpenForWrite(w)
  <2>1. pc[w] \in {"clear", "open", "open_err"}
    BY <1>2 DEF Codex!ClearAnswer, Codex!OpenForWrite
  <2>2. a \in Codex!Path /\ b \in Codex!Path /\ c \in Codex!Path
    BY <2>1, TargetPaths DEF Targeted, Named, Labels
  <2>3. a \in Codex!Targets(w) /\ b \in Codex!Targets(w) /\ c \in Codex!Targets(w)
    BY DEF Codex!Targets
  <2>4. \/ UNCHANGED file /\ pc'[w] = "release"
        \/ pc[w] = "clear" /\ file' = [file EXCEPT ![a] = {}] /\ pc'[w] = "open"
        \/ pc[w] = "open" /\ file' = [file EXCEPT ![c] = {}] /\ pc'[w] = "open_err"
        \/ pc[w] = "open_err" /\ file' = [file EXCEPT ![b] = {}] /\ pc'[w] = "popen"
    BY <1>2 DEF Codex!ClearAnswer, Codex!OpenForWrite, Codex!Absent, ControlTyped
  <2> HIDE DEF a, b, c
  <2>5. FileMove(w)!1 /\ FileMove(w)!2
    BY <2>1, <2>2, <2>3, <2>4 DEF FilesTyped, FileMove, Inside, Codex!Running
  <2>6. FileMove(w)!3 /\ FileMove(w)!4 /\ FileMove(w)!5 /\ FileMove(w)!6
    BY <2>1, <2>2, <2>3, <2>4 DEF FilesTyped, FileMove, Inside, Codex!Running, a, b, c
  <2> QED
    BY <2>5, <2>6 DEF FileMove
<1>3. CASE Codex!Write(w)
  <2>1. a \in Codex!Path /\ b \in Codex!Path /\ c \in Codex!Path /\ b # c
    BY <1>3, TargetPaths DEF Followed, Codex!Write
  <2>2. a \in Codex!Targets(w) /\ b \in Codex!Targets(w) /\ c \in Codex!Targets(w)
    BY DEF Codex!Targets
  <2>3. \/ file' = [file EXCEPT ![a] = {w}]
        \/ file' = [file EXCEPT ![c] = file[c] \cup {w}, ![b] = @ \cup {w}]
    BY <1>3, Zenon DEF Codex!Write
  <2>4. UNCHANGED pc /\ child[w] = "alive"
    BY <1>3 DEF Codex!Write
  <2> HIDE DEF a, b, c
  <2>5. FileMove(w)!1 /\ FileMove(w)!2
    <3>1. CASE file' = [file EXCEPT ![a] = {w}]
      BY <2>1, <2>2, <2>4, <3>1 DEF FilesTyped
    <3>2. CASE file' = [file EXCEPT ![c] = file[c] \cup {w}, ![b] = @ \cup {w}]
      BY <2>1, <2>2, <2>4, <3>2 DEF FilesTyped
    <3> QED
      BY <2>3, <3>1, <3>2
  <2>6. FileMove(w)!3 /\ FileMove(w)!4 /\ FileMove(w)!5 /\ FileMove(w)!6
    BY <2>4 DEF Inside, Codex!Running
  <2> QED
    BY <2>5, <2>6 DEF FileMove
<1>4. CASE Codex!Popen(w) \/ Codex!CommunicateReturns(w) \/ Codex!TimesOut(w) \/ Codex!ReportApplied(w)
  <2>1. /\ UNCHANGED file /\ pc[w] \in Inside \ {"clear", "open", "open_err"}
    BY <1>4 DEF Codex!Popen, Codex!CommunicateReturns, Codex!TimesOut, Codex!ReportApplied, Inside,
                Codex!Running
  <2> QED
    BY <2>1 DEF FilesTyped, FileMove, Inside, Codex!Running
<1>5. CASE Codex!JudgeBlind(w) \/ Codex!ReportAnswer(w) \/ Codex!Released(w)
  <2>1. /\ UNCHANGED file /\ pc[w] \notin {"clear", "open", "open_err"}
        /\ pc[w] \in Inside \/ pc'[w] = "end"
    BY <1>5 DEF Codex!JudgeBlind, Codex!ReportAnswer, Codex!Released, Inside, Codex!Running, ControlTyped
  <2> QED
    BY <2>1 DEF FilesTyped, FileMove, Inside, Codex!Running
<1>6. CASE Codex!CodexEnds(w) \/ Codex!Interrupt(w) \/ Codex!Crash(w) \/ Codex!FreeLock(w)
  <2>1. UNCHANGED file /\ (UNCHANGED pc \/ pc'[w] \in {"release", "end"})
    BY <1>6 DEF Codex!CodexEnds, Codex!Interrupt, Codex!Crash, Codex!FreeLock, ControlTyped
  <2> QED
    BY <2>1 DEF FilesTyped, FileMove, Inside, Codex!Running
<1> QED
  BY <1>1, <1>2, <1>3, <1>4, <1>5, <1>6 DEF Under, Outside

-----------------------------------------------------------------------------
(* Every part of the invariant is kept *)

Acting(w) == Opening(w) \/ Locking(w) \/ Under(w) \/ Outside(w)

LEMMA Effects ==
  ASSUME CodexInv, NEW w \in Wrapper, Acting(w)
  PROVE  FileMove(w) /\ (OpeningMove(w) \/ LockingMove(w) \/ UnderMove(w) \/ OutsideMove(w))
BY EarlyEffect, LockingEffect, UnderEffect, OutsideEffect, FileEffect DEF Acting, CodexInv

LEMMA TypedStep ==
  ASSUME CodexInv, NEW w \in Wrapper, Acting(w)
  PROVE  ControlTyped' /\ MineTyped' /\ FilesTyped'
<1>1. FileMove(w) /\ (OpeningMove(w) \/ LockingMove(w) \/ UnderMove(w) \/ OutsideMove(w))
  BY Effects
<1>2. ControlTyped /\ MineTyped /\ FilesTyped /\ Targeted
  BY DEF CodexInv
<1>3. lock' \in [Codex!Path -> Wrapper \cup {Free}]
  <2>1. UNCHANGED lock \/ \E p \in Codex!Path : Passes(p, w) \/ Passes(p, Free)
    BY <1>1, Zenon DEF OpeningMove, LockingMove, UnderMove, OutsideMove
  <2>2. CASE UNCHANGED lock
    BY <1>2, <2>2 DEF FilesTyped
  <2>3. CASE \E p \in Codex!Path : Passes(p, w) \/ Passes(p, Free)
    <3>1. PICK p \in Codex!Path, o \in {w, Free} : Passes(p, o)
      BY <2>3
    <3> QED
      BY <1>2, <3>1 DEF FilesTyped, Passes
  <2> QED
    BY <2>1, <2>2, <2>3
<1>4. FilesTyped'
  BY <1>1, <1>3 DEF FilesTyped, FileMove, Codex!Path
<1>5. ControlTyped'
  <2>1. pc'[w] \in Labels /\ exit'[w] \in Exits /\ child'[w] \in {"none", "alive", "ended"}
    <3>1. pc[w] \in Labels /\ exit[w] \in Exits /\ child[w] \in {"none", "alive", "ended"}
      BY <1>2 DEF ControlTyped
    <3>2. CASE OpeningMove(w)
      BY <3>1, <3>2 DEF OpeningMove, Labels, Exits
    <3>3. CASE LockingMove(w)
      BY <3>1, <3>3 DEF LockingMove, Labels, Exits
    <3>4. CASE UnderMove(w)
      BY <3>1, <3>4 DEF UnderMove, Labels, Exits, Inside, Codex!Running
    <3>5. CASE OutsideMove(w)
      BY <3>1, <3>5 DEF OutsideMove, Labels, Exits
    <3> QED
      BY <1>1, <3>2, <3>3, <3>4, <3>5
  <2>2. Frame(w)
    BY <1>1 DEF OpeningMove, LockingMove, UnderMove, OutsideMove
  <2> QED
    BY <1>2, <2>1, <2>2 DEF ControlTyped, Frame
<1>6. MineTyped'
  <2>1. Frame(w)
    BY <1>1 DEF OpeningMove, LockingMove, UnderMove, OutsideMove
  <2>2. \A v \in Wrapper \ {w} : pc'[v] = pc[v] /\ mine'[v] = mine[v]
    BY <1>2, <2>1 DEF Frame, ControlTyped
  <2>3. /\ DOMAIN mine[w] = Fields /\ mine[w].out \in 0..Names /\ mine[w].err \in 0..Names
        /\ mine[w].made \in BOOLEAN
        /\ mine[w].taken \subseteq {mine[w].out, mine[w].err, Names + mine[w].out}
        /\ pc[w] \in {"start", "paths"} => mine[w].taken = {}
    BY <1>2 DEF MineTyped, Codex!Targets, Codex!Stream
  <2>4. /\ DOMAIN mine'[w] = Fields /\ mine'[w].out \in 0..Names /\ mine'[w].err \in 0..Names
        /\ mine'[w].made \in BOOLEAN
        /\ mine'[w].taken \subseteq {mine'[w].out, mine'[w].err, Names + mine'[w].out}
        /\ pc'[w] \in {"start", "paths"} => mine'[w].taken = {}
    <3>1. CASE OpeningMove(w)
      BY <2>3, <3>1 DEF OpeningMove, Named
    <3>2. CASE LockingMove(w)
      BY <2>3, <3>2 DEF LockingMove, Codex!Targets, Codex!Stream
    <3>3. CASE UnderMove(w)
      BY <2>3, <3>3 DEF UnderMove, Inside, Codex!Running
    <3>4. CASE OutsideMove(w)
      BY <2>3, <3>4 DEF OutsideMove
    <3> QED
      BY <1>1, <3>1, <3>2, <3>3, <3>4
  <2>5. DOMAIN mine' = Wrapper
    BY <2>1 DEF Frame
  <2> QED
    BY <1>2, <2>2, <2>4, <2>5 DEF MineTyped, Codex!Targets, Codex!Stream
<1> QED
  BY <1>4, <1>5, <1>6

\* Another call is not touched by the step of one.
LEMMA Others ==
  ASSUME CodexInv, NEW w \in Wrapper, Acting(w), NEW v \in Wrapper \ {w}
  PROVE  pc'[v] = pc[v] /\ exit'[v] = exit[v] /\ child'[v] = child[v] /\ mine'[v] = mine[v]
<1>1. Frame(w)
  BY Effects DEF OpeningMove, LockingMove, UnderMove, OutsideMove
<1>2. ControlTyped
  BY DEF CodexInv
<1> QED
  BY <1>1, <1>2 DEF Frame, ControlTyped

LEMMA TargetedStep ==
  ASSUME CodexInv, NEW w \in Wrapper, Acting(w)
  PROVE  Targeted'
<1>1. \A v \in Wrapper \ {w} : pc'[v] = pc[v] /\ mine'[v] = mine[v]
  BY Others
<1>2. Targeted /\ pc[w] \in Labels
  BY DEF CodexInv, ControlTyped
<1>3. pc'[w] \in Named => mine'[w].out \in 1..Names /\ mine'[w].err \in 1..Names
  <2>1. CASE OpeningMove(w)
    BY <1>2, <2>1 DEF OpeningMove, Targeted, Named, Labels
  <2>2. CASE LockingMove(w)
    BY <1>2, <2>2 DEF LockingMove, Targeted, Named, Labels
  <2>3. CASE UnderMove(w)
    BY <1>2, <2>3 DEF UnderMove, Targeted, Named, Labels, Inside, Codex!Running
  <2>4. CASE OutsideMove(w)
    BY <1>2, <2>4 DEF OutsideMove, Targeted, Named, Labels
  <2> QED
    BY Effects, <2>1, <2>2, <2>3, <2>4
<1> QED
  BY <1>1, <1>2, <1>3 DEF Targeted

LEMMA LateStep ==
  ASSUME CodexInv, NEW w \in Wrapper, Acting(w)
  PROVE  Late'
<1>1. \A v \in Wrapper \ {w} : pc'[v] = pc[v] /\ exit'[v] = exit[v]
  BY Others
<1>2. Late
  BY DEF CodexInv
<1>3. exit'[w] # "none" => pc'[w] \in {"release", "end"}
  <2>1. CASE OpeningMove(w)
    BY <1>2, <2>1 DEF OpeningMove, Late
  <2>2. CASE LockingMove(w)
    BY <1>2, <2>2 DEF LockingMove, Late
  <2>3. CASE UnderMove(w)
    BY <1>2, <2>3 DEF UnderMove, Late, Inside, Codex!Running
  <2>4. CASE OutsideMove(w)
    BY <1>2, <2>4 DEF OutsideMove, Late
  <2> QED
    BY Effects, <2>1, <2>2, <2>3, <2>4
<1> QED
  BY <1>1, <1>2, <1>3 DEF Late

LEMMA LockedStep ==
  ASSUME CodexInv, NEW w \in Wrapper, Acting(w)
  PROVE  Locked'
<1>1. \A v \in Wrapper \ {w} : pc'[v] = pc[v] /\ mine'[v] = mine[v]
  BY Others
<1>2. Locked
  BY DEF CodexInv
<1>3. pc'[w] \in Inside => {mine'[w].out, mine'[w].err, Names + mine'[w].out} \subseteq mine'[w].taken
  <2>1. CASE OpeningMove(w)
    BY <2>1 DEF OpeningMove, Inside, Codex!Running
  <2>2. CASE LockingMove(w)
    BY <2>2 DEF LockingMove, Inside, Codex!Running, Codex!Missing, Codex!Targets, Codex!Stream
  <2>3. CASE UnderMove(w)
    BY <1>2, <2>3 DEF UnderMove, Locked, Inside, Codex!Running, Codex!Targets, Codex!Stream
  <2>4. CASE OutsideMove(w)
    BY <1>2, <2>4 DEF OutsideMove, Locked, Inside, Codex!Running, Codex!Targets, Codex!Stream
  <2> QED
    BY Effects, <2>1, <2>2, <2>3, <2>4
<1> QED
  BY <1>1, <1>2, <1>3 DEF Locked, Codex!Targets, Codex!Stream

LEMMA HoldingStep ==
  ASSUME CodexInv, NEW w \in Wrapper, Acting(w)
  PROVE  Holding'
<1>1. \A v \in Wrapper \ {w} : pc'[v] = pc[v] /\ mine'[v] = mine[v]
  BY Others
<1>2. Holding /\ FilesTyped
  BY DEF CodexInv
<1>3. ASSUME NEW p \in Codex!Path, pc'[w] # "end", p \in mine'[w].taken
      PROVE  lock'[p] = w
  <2>1. CASE OpeningMove(w)
    BY <1>2, <1>3, <2>1 DEF OpeningMove, Holding
  <2>2. CASE LockingMove(w)
    BY <1>2, <1>3, <2>2 DEF LockingMove, Holding, Passes
  <2>3. CASE UnderMove(w)
    BY <1>2, <1>3, <2>3 DEF UnderMove, Holding, Inside, Codex!Running
  <2>4. CASE OutsideMove(w)
    BY <1>2, <1>3, <2>4 DEF OutsideMove, Holding
  <2> QED
    BY Effects, <2>1, <2>2, <2>3, <2>4
<1>4. ASSUME NEW p \in Codex!Path, NEW v \in Wrapper \ {w}, pc[v] # "end", p \in mine[v].taken
      PROVE  lock'[p] = v
  <2>1. lock[p] = v /\ v # Free
    BY <1>2, <1>4 DEF Holding
  <2>2. CASE UNCHANGED lock
    BY <2>1, <2>2
  <2>3. CASE LockingMove(w) /\ ~UNCHANGED lock
    BY <1>2, <2>1, <2>3 DEF LockingMove, Holding, Passes
  <2>4. CASE OutsideMove(w) /\ ~UNCHANGED lock
    BY <2>1, <2>4 DEF OutsideMove, Passes
  <2> QED
    BY Effects, <2>2, <2>3, <2>4 DEF OpeningMove, UnderMove
<1> QED
  BY <1>1, <1>3, <1>4 DEF Holding, Codex!Path

\* A Codex that outlives its call goes on to do so.
LEMMA OutlivedStays ==
  ASSUME CodexInv, NEW w \in Wrapper, Acting(w), NEW v \in Wrapper, Outlived(v)
  PROVE  Outlived(v)'
<1>1. CASE v # w
  BY <1>1, Others DEF Outlived
<1>2. CASE v = w
  <2>1. pc[w] \in {"release", "end"} /\ child[w] \in {"alive", "ended"}
    BY <1>2 DEF CodexInv, Late, Outlived, ControlTyped
  <2>2. OpeningMove(w) \/ LockingMove(w) \/ UnderMove(w) \/ OutsideMove(w)
    BY Effects
  <2>3. child'[w] # "none" /\ exit'[w] \in {exit[w], "killed"}
    <3>1. CASE OpeningMove(w)
      BY <2>1, <3>1 DEF OpeningMove
    <3>2. CASE LockingMove(w)
      BY <2>1, <3>2 DEF LockingMove
    <3>3. CASE UnderMove(w)
      BY <2>1, <3>3 DEF UnderMove, Inside, Codex!Running
    <3>4. CASE OutsideMove(w)
      BY <2>1, <3>4 DEF OutsideMove, ControlTyped
    <3> QED
      BY <2>2, <3>1, <3>2, <3>3, <3>4
  <2> QED
    BY <1>2, <2>3 DEF Outlived
<1> QED
  BY <1>1, <1>2

LEMMA FollowedStep ==
  ASSUME CodexInv, NEW w \in Wrapper, Acting(w)
  PROVE  Followed'
<1>1. \A v \in Wrapper \ {w} : /\ pc'[v] = pc[v] /\ exit'[v] = exit[v]
                                /\ child'[v] = child[v] /\ mine'[v] = mine[v]
  BY Others
<1>2. Followed /\ Late /\ Targeted
  BY DEF CodexInv
<1>3. OpeningMove(w) \/ LockingMove(w) \/ UnderMove(w) \/ OutsideMove(w)
  BY Effects
<1>4. ASSUME child'[w] = "alive"
      PROVE  pc'[w] = "communicate" \/ Outlived(w)'
  <2>1. CASE child[w] = "alive" /\ exit[w] \in {"timeout", "interrupted", "killed"}
    BY <2>1, OutlivedStays DEF Outlived
  <2>2. CASE child[w] = "alive" /\ exit[w] \notin {"timeout", "interrupted", "killed"}
    <3>1. pc[w] = "communicate"
      BY <1>2, <2>2 DEF Followed, Outlived
    <3>2. CASE UnderMove(w)
      BY <1>4, <3>1, <3>2 DEF UnderMove, Outlived
    <3>3. CASE OutsideMove(w)
      BY <1>4, <3>1, <3>3 DEF OutsideMove, Outlived
    <3> QED
      BY <1>3, <3>1, <3>2, <3>3 DEF OpeningMove, LockingMove
  <2>3. CASE child[w] # "alive"
    <3>1. UnderMove(w)
      BY <1>3, <1>4, <2>3 DEF OpeningMove, LockingMove, OutsideMove
    <3> QED
      BY <1>4, <2>3, <3>1 DEF UnderMove, Outlived
  <2> QED
    BY <2>1, <2>2, <2>3
<1>5. ASSUME child'[w] = "alive"
      PROVE  mine'[w].out \in 1..Names /\ mine'[w].err \in 1..Names
  <2>1. CASE child[w] = "alive"
    <3>1. pc[w] \in {"communicate", "release", "end"}
      BY <1>2, <2>1 DEF Followed, Late, Outlived
    <3>2. mine'[w].out = mine[w].out /\ mine'[w].err = mine[w].err
      BY <1>3, <3>1 DEF OpeningMove, LockingMove, UnderMove, OutsideMove
    <3> QED
      BY <1>2, <2>1, <3>2 DEF Followed
  <2>2. CASE child[w] # "alive"
    <3>1. UnderMove(w)
      BY <1>3, <1>5, <2>2 DEF OpeningMove, LockingMove, OutsideMove
    <3> QED
      BY <1>2, <3>1 DEF UnderMove, Targeted, Inside, Named, Labels, Codex!Running
  <2> QED
    BY <2>1, <2>2
<1> QED
  BY <1>1, <1>2, <1>4, <1>5 DEF Followed, Outlived

\* What a call has cleared, no other writes to: it would need the same lock, or
\* its Codex outlives it.
LEMMA CleanStays ==
  ASSUME CodexInv, NEW w \in Wrapper, Acting(w), NEW v \in Wrapper, NEW p \in Codex!Targets(v),
         pc[v] \in Inside, Clean(v, p)
  PROVE  Clean(v, p)'
<1>1. CASE Strays(v)
  BY <1>1, OutlivedStays DEF Clean, Strays
<1>2. CASE ~Strays(v)
  <2>1. p \in Codex!Path
    BY TargetPaths DEF CodexInv, Targeted, Inside, Named, Labels, Codex!Running
  <2>2. file[p] \subseteq {v}
    BY <1>2 DEF Clean
  <2>3. file'[p] # file[p] =>
          /\ p \in Codex!Targets(w) /\ file'[p] \subseteq file[p] \cup {w}
          /\ pc[w] \in Inside \/ child[w] = "alive"
    BY <2>1, Effects DEF FileMove
  <2>4. ASSUME file'[p] # file[p], v # w PROVE FALSE
    <3>1. ~Outlived(w)
      BY <1>2, <2>4 DEF Strays
    <3>2. pc[w] \in Inside
      BY <2>3, <2>4, <3>1 DEF CodexInv, Followed, Inside, Codex!Running
    <3>3. p \in mine[w].taken /\ p \in mine[v].taken
      BY <2>3, <2>4, <3>2 DEF CodexInv, Locked
    <3> QED
      BY <2>1, <2>4, <3>2, <3>3 DEF CodexInv, Holding, Inside, Codex!Running
  <2> QED
    BY <2>2, <2>3, <2>4 DEF Clean
<1> QED
  BY <1>1, <1>2

LEMMA ClearedStep ==
  ASSUME CodexInv, NEW w \in Wrapper, Acting(w)
  PROVE  Cleared'
<1> DEFINE Kept(v) ==
      /\ pc'[v] \in Inside \ {"clear"} => Clean(v, mine[v].out)'
      /\ pc'[v] \in Inside \ {"clear", "open"} => Clean(v, Codex!Stream(v))'
      /\ pc'[v] \in Inside \ {"clear", "open", "open_err"} => Clean(v, mine[v].err)'
<1>1. Cleared
  BY DEF CodexInv
<1>2. ASSUME NEW v \in Wrapper, pc'[v] \in Inside \ {"clear"} PROVE pc[v] \in Inside /\ mine'[v] = mine[v]
  <2>1. CASE v # w
    BY <1>2, <2>1, Others
  <2>2. CASE v = w
    BY <1>2, <2>2, Effects DEF FileMove, OpeningMove, LockingMove, UnderMove, OutsideMove, Inside, Codex!Running
  <2> QED
    BY <2>1, <2>2
<1>3. ASSUME NEW v \in Wrapper
      PROVE  /\ mine[v].out \in Codex!Targets(v) /\ mine[v].err \in Codex!Targets(v)
             /\ Codex!Stream(v) \in Codex!Targets(v)
  BY DEF Codex!Targets
<1>4. ASSUME NEW v \in Wrapper \ {w} PROVE Kept(v)
  <2>1. pc'[v] = pc[v] /\ mine'[v] = mine[v]
    BY Others
  <2>2. /\ pc'[v] \in Inside \ {"clear"} => Clean(v, mine[v].out) /\ pc[v] \in Inside
        /\ pc'[v] \in Inside \ {"clear", "open"} => Clean(v, Codex!Stream(v)) /\ pc[v] \in Inside
        /\ pc'[v] \in Inside \ {"clear", "open", "open_err"} => Clean(v, mine[v].err) /\ pc[v] \in Inside
    BY <1>1, <2>1 DEF Cleared
  <2>3. \A p \in Codex!Targets(v) : pc[v] \in Inside /\ Clean(v, p) => file'[p] \subseteq {v} \/ Strays(v)'
    BY CleanStays DEF Clean
  <2> QED
    BY <1>3, <2>1, <2>2, <2>3 DEF Clean, Codex!Stream
<1>5. Kept(w)
  <2>1. CASE pc'[w] \in Inside \ {"clear"}
    <3>1. pc[w] \in Inside /\ mine'[w] = mine[w]
      BY <1>2, <2>1
    <3>2. \A p \in Codex!Targets(w) : Clean(w, p) => file'[p] \subseteq {w} \/ Strays(w)'
      BY <3>1, CleanStays DEF Clean
    <3>3. file'[mine[w].out] \subseteq {w} \/ Strays(w)'
      BY <1>1, <1>3, <2>1, <3>1, <3>2, Effects DEF FileMove, Cleared
    <3>4. pc'[w] # "open" => file'[Codex!Stream(w)] \subseteq {w} \/ Strays(w)'
      BY <1>1, <1>3, <2>1, <3>1, <3>2, Effects DEF FileMove, Cleared
    <3>5. pc'[w] \notin {"open", "open_err"} => file'[mine[w].err] \subseteq {w} \/ Strays(w)'
      BY <1>1, <1>3, <2>1, <3>1, <3>2, Effects DEF FileMove, Cleared
    <3> QED
      BY <3>1, <3>3, <3>4, <3>5 DEF Clean, Codex!Stream
  <2>2. CASE pc'[w] \notin Inside \ {"clear"}
    BY <2>2
  <2> QED
    BY <2>1, <2>2
<1> QED
  BY <1>4, <1>5 DEF Cleared

-----------------------------------------------------------------------------
(* The invariant holds always *)

LEMMA CodexInit == Codex!Init => CodexInv
<1> SUFFICES ASSUME Codex!Init PROVE CodexInv
  OBVIOUS
<1>1. /\ pc = [w \in Wrapper |-> "start"] /\ exit = [w \in Wrapper |-> "none"]
      /\ child = [w \in Wrapper |-> "none"] /\ mine = [w \in Wrapper |-> Codex!Blank]
      /\ lock = [p \in Codex!Path |-> Free]
      /\ file = [p \in Codex!Path |-> {}] \/ file = [p \in Codex!Path |-> {Free}]
  BY DEF Codex!Init, Codex!Absent, Codex!Past
<1>2. ControlTyped
  BY <1>1 DEF ControlTyped, Labels, Exits
<1>3. MineTyped
  <2>1. /\ DOMAIN Codex!Blank = Fields /\ Codex!Blank.out = 0 /\ Codex!Blank.err = 0
        /\ Codex!Blank.made \in BOOLEAN /\ Codex!Blank.taken = {}
    BY DEF Codex!Blank, Fields
  <2>2. DOMAIN mine = Wrapper /\ \A w \in Wrapper : mine[w] = Codex!Blank
    BY <1>1
  <2> QED
    BY <2>1, <2>2 DEF MineTyped
<1>4. FilesTyped
  <2>1. lock \in [Codex!Path -> Wrapper \cup {Free}]
    BY <1>1
  <2>2. file \in [Codex!Path -> SUBSET (Wrapper \cup {Free})]
    BY <1>1
  <2> QED
    BY <2>1, <2>2 DEF FilesTyped
<1>5. Targeted /\ Locked /\ Late /\ Followed /\ Cleared
  BY <1>1 DEF Targeted, Locked, Late, Followed, Cleared, Named, Inside, Codex!Running
<1>6. Holding
  BY <1>3, <1>1 DEF Holding, MineTyped
<1> QED
  BY <1>2, <1>3, <1>4, <1>5, <1>6 DEF CodexInv

LEMMA CodexStep == CodexInv /\ Codex!Next => CodexInv'
<1> SUFFICES ASSUME CodexInv, Codex!Next PROVE CodexInv'
  OBVIOUS
<1>1. PICK w \in Wrapper : Acting(w)
  BY StepKinds DEF Acting
<1>2. ControlTyped' /\ MineTyped' /\ FilesTyped'
  BY <1>1, TypedStep
<1>3. Targeted' /\ Locked' /\ Holding' /\ Late'
  BY <1>1, TargetedStep, LockedStep, HoldingStep, LateStep
<1>4. Followed' /\ Cleared'
  BY <1>1, FollowedStep, ClearedStep
<1> QED
  BY <1>2, <1>3, <1>4 DEF CodexInv

LEMMA CodexStutter ==
  CodexInv /\ UNCHANGED <<pc, exit, mine, child, file, lock>> => CodexInv'
<1> SUFFICES ASSUME CodexInv, UNCHANGED <<pc, exit, mine, child, file, lock>> PROVE CodexInv'
  OBVIOUS
<1>1. ControlTyped' /\ MineTyped' /\ FilesTyped'
  BY DEF CodexInv, ControlTyped, MineTyped, FilesTyped, Codex!Targets, Codex!Stream, Codex!Path
<1>2. Targeted' /\ Locked' /\ Holding' /\ Late'
  BY DEF CodexInv, Targeted, Locked, Holding, Late, Codex!Targets, Codex!Stream, Codex!Path
<1>3. Followed' /\ Cleared'
  BY DEF CodexInv, Followed, Cleared, Clean, Strays, Outlived, Codex!Stream
<1> QED
  BY <1>1, <1>2, <1>3 DEF CodexInv

-----------------------------------------------------------------------------
(***************************************************************************)
(* Types: what a part keeps besides its invariant, where the invariant     *)
(* does not say it already.                                                *)
(***************************************************************************)

\* The commands of a turn are some of its lines, and those that succeeded or were
\* denied are some of those that ran.
CountsAdd ==
  /\ Len(lines) <= MaxLines
  /\ ev.succeeded + ev.denied <= ev.executed /\ ev.executed + ev.unclassified <= Len(lines)

LEMMA CountsStart == Turns!Init => CountsAdd
<1> SUFFICES ASSUME Turns!Init PROVE CountsAdd
  OBVIOUS
<1>1. /\ lines = <<>> /\ Len(<<>>) = 0
      /\ ev.succeeded = 0 /\ ev.denied = 0 /\ ev.executed = 0 /\ ev.unclassified = 0
  BY DEF Turns!Init, Turns!NothingProven
<1> QED
  BY <1>1, BoundAssumption DEF CountsAdd

\* One more line adds at most one.
LEMMA CountsOfLine ==
  ASSUME TurnInv, CountsAdd, NEW line \in Turns!Lines, ev' = Turns!After(ev, line)
  PROVE  /\ ev'.succeeded + ev'.denied <= ev'.executed
         /\ ev'.executed + ev'.unclassified <= Len(lines) + 1
<1>1. EvidenceTyped /\ lines \in Seq(Turns!Lines) /\ Len(lines) \in Nat
  BY DEF TurnInv
<1>2. CASE line = "turn"
  <2>1. ev'.executed = 0 /\ ev'.succeeded = 0 /\ ev'.denied = 0 /\ ev'.unclassified = 0
    BY <1>1, <1>2, AfterLine
  <2> QED
    BY <1>1, <2>1
<1>3. ASSUME UNCHANGED <<ev.executed, ev.succeeded, ev.denied, ev.unclassified>>
      PROVE  /\ ev'.succeeded + ev'.denied <= ev'.executed
             /\ ev'.executed + ev'.unclassified <= Len(lines) + 1
  BY <1>1, <1>3 DEF CountsAdd, EvidenceTyped
<1>4. CASE line \in {"thread", "completed", "failed", "bad"}
  <2>1. PICK S \in {{"thread", "disorder"}, {"disorder", "closed", "complete"},
                    {"failed", "complete", "closed"}, {"bad"}} : Changes(S)
    BY <1>1, <1>4, AfterLine
  <2> QED
    BY <1>3, <2>1 DEF Changes, Counts, Flags
<1>5. CASE line \in Turns!Items
  <2>1. CASE ev.closed
    <3>1. Changes({"disorder"})
      BY <1>1, <1>5, <2>1, AfterLine
    <3> QED
      BY <1>3, <3>1 DEF Changes, Counts, Flags
  <2>2. CASE ~ev.closed /\ ~ev.turn
    <3>1. ev' = ev
      BY <1>1, <1>5, <2>2, AfterLine
    <3> QED
      BY <1>3, <3>1
  <2>3. CASE ~ev.closed /\ ev.turn
    <3>1. /\ ev'.executed = ev.executed + (IF line \in {"succeeded", "denied", "ordinary"} THEN 1 ELSE 0)
          /\ ev'.succeeded = ev.succeeded + (IF line = "succeeded" THEN 1 ELSE 0)
          /\ ev'.denied = ev.denied + (IF line = "denied" THEN 1 ELSE 0)
          /\ ev'.unclassified = ev.unclassified + (IF line = "odd" THEN 1 ELSE 0)
      BY <1>1, <1>5, <2>3, AfterLine
    <3> QED
      BY <1>1, <3>1 DEF CountsAdd, EvidenceTyped
  <2> QED
    BY <2>1, <2>2, <2>3
<1> QED
  BY <1>2, <1>4, <1>5 DEF Turns!Lines

LEMMA CountsStep == TurnInv /\ CountsAdd /\ Turns!Next => CountsAdd'
<1> SUFFICES ASSUME TurnInv, CountsAdd, Turns!Next PROVE CountsAdd'
  OBVIOUS
<1>1. CASE Turns!ReadLine
  <2>1. PICK line \in Turns!Lines : lines' = Append(lines, line) /\ ev' = Turns!After(ev, line)
    BY <1>1 DEF Turns!ReadLine
  <2>2. Len(lines') = Len(lines) + 1 /\ Len(lines) \in Nat /\ Len(lines) < MaxLines
    BY <1>1, <2>1 DEF Turns!ReadLine, TurnInv
  <2>3. /\ ev'.succeeded + ev'.denied <= ev'.executed
        /\ ev'.executed + ev'.unclassified <= Len(lines) + 1
    BY <2>1, CountsOfLine
  <2>4. Len(lines) + 1 <= MaxLines
    BY <2>2, BoundAssumption
  <2> QED
    BY <2>2, <2>3, <2>4 DEF CountsAdd
<1>2. CASE Turns!StopReading \/ Turns!BlindRun
  <2>1. /\ lines' = lines
        /\ ev' \in {ev, [ev EXCEPT !.oversized = TRUE], [ev EXCEPT !.missing = TRUE]}
    BY <1>2 DEF Turns!StopReading, Turns!BlindRun
  <2>2. UNCHANGED <<ev.executed, ev.succeeded, ev.denied, ev.unclassified>>
    BY <2>1 DEF TurnInv, EvidenceTyped, Counts, Flags
  <2> QED
    BY <2>1, <2>2 DEF CountsAdd
<1> QED
  BY <1>1, <1>2 DEF Turns!Next

LEMMA TurnIsTyped == TurnInv /\ CountsAdd => Turns!TypeOK
<1> SUFFICES ASSUME TurnInv, CountsAdd PROVE Turns!TypeOK
  OBVIOUS
<1>1. Turns!ToSet(lines) \subseteq Turns!Lines
  BY DEF TurnInv, Turns!ToSet
<1> QED
  BY <1>1 DEF TurnInv, CountsAdd, Turns!TypeOK

-----------------------------------------------------------------------------
LogBounded == Len(log) <= MaxRecords

LEMMA LogStep == RollInv /\ LogBounded /\ Rolls!Next => LogBounded'
<1> SUFFICES ASSUME RollInv, LogBounded, Rolls!Next PROVE LogBounded'
  OBVIOUS
<1>1. CASE Rolls!Append1
  <2>1. PICK r \in Rolls!Records : log' = Append(log, r) /\ Len(log) < MaxRecords
    BY <1>1 DEF Rolls!Append1
  <2>2. Len(log') = Len(log) + 1 /\ Len(log) \in Nat
    BY <2>1 DEF RollInv, RollTyped
  <2> QED
    BY <2>1, <2>2, BoundAssumption DEF LogBounded
<1>2. CASE log' = log
  BY <1>2 DEF LogBounded
<1> QED
  BY <1>1, <1>2 DEF Rolls!Next, Rolls!OpenRollout, Rolls!ReadRecord, Rolls!ReadFails, Rolls!AtEnd, Rolls!Finish

LEMMA RollIsTyped == RollInv /\ LogBounded => Rolls!TypeOK
  BY DEF RollInv, RollTyped, LogBounded, Rolls!TypeOK

-----------------------------------------------------------------------------
\* A process that does nothing has no run, and a file of a run is there in part at
\* most until it is whole.
PartsKnown(h) ==
  /\ \A a \in Artifacts : hunts[h][a] \in Hunts!Parts
  /\ hunts[h].events \subseteq {"prepared", "published"}

HuntKept ==
  /\ \A c \in Wrapper : pc[c] = "idle" => at[c] = None
  /\ repo \in [File -> Hunts!Content] /\ changes \in 0..MaxChanges
  /\ \A h \in Hunts!Runs : PartsKnown(h)

LEMMA HuntKeptStart == Hunts!Init => HuntKept
<1> SUFFICES ASSUME Hunts!Init PROVE HuntKept
  OBVIOUS
<1>1. repo \in [File -> Hunts!Content] /\ changes \in 0..MaxChanges
  BY BoundAssumption DEF Hunts!Init, Hunts!Content
<1> QED
  BY <1>1 DEF Hunts!Init, Hunts!Fresh, Hunts!Parts, HuntKept, PartsKnown, Artifacts

\* No step changes a part of a run but to what a part may be.
LEMMA PartsStay ==
  ASSUME HuntInv, HuntKept, NEW c \in Wrapper, ActsOn(c), NEW g \in Hunts!Runs
  PROVE  PartsKnown(g)'
<1>1. ASSUME hunts'[g] = hunts[g] PROVE PartsKnown(g)'
  BY <1>1 DEF HuntKept, PartsKnown
<1>2. ASSUME NEW h \in Hunts!Runs, NEW S, Keeps(h, S), S \cap (Artifacts \cup {"events"}) = {}
      PROVE  PartsKnown(g)'
  <2>1. CASE g = h
    <3>1. \A f \in Artifacts \cup {"events"} : hunts'[g][f] = hunts[g][f]
      BY <1>2, <2>1 DEF Keeps, Keys
    <3> QED
      BY <3>1 DEF HuntKept, PartsKnown
  <2>2. CASE g # h
    BY <1>1, <1>2, <2>2 DEF Keeps, OtherRuns
  <2> QED
    BY <2>1, <2>2
<1>3. ASSUME NEW a \in Artifacts, NEW v \in Hunts!Parts, Writes(c, a, v) PROVE PartsKnown(g)'
  <2>1. CASE g = at[c]
    <3>1. /\ \A f \in (Artifacts \cup {"events"}) \ {a} : hunts'[g][f] = hunts[g][f]
          /\ hunts'[g][a] = v
      BY <1>3, <2>1 DEF Writes, Keeps, Keys
    <3>2. "events" \notin Artifacts
      BY DEF Artifacts
    <3> QED
      BY <3>1, <3>2 DEF HuntKept, PartsKnown
  <2>2. CASE g # at[c]
    BY <1>1, <1>3, <2>2 DEF Writes, Keeps, OtherRuns
  <2> QED
    BY <2>1, <2>2
<1>4. CASE Begins(c)
  <2>1. PICK h \in Hunts!Runs : Keeps(h, {"begun", "previous", "todo"})
    BY <1>4 DEF Begins
  <2> QED
    BY <1>2, <2>1 DEF Artifacts
<1>5. CASE Copies(c)
  <2>1. at[c] \in Hunts!Runs /\ Keeps(at[c], {"todo", "copied"})
    BY <1>5 DEF Copies
  <2> QED
    BY <1>2, <2>1 DEF Artifacts
<1>6. CASE CreatesOne(c)
  <2>1. PICK p \in Creations : Writes(c, p[1], "whole")
    BY <1>6 DEF CreatesOne
  <2>2. p[1] \in Artifacts /\ "whole" \in Hunts!Parts
    BY DEF Creations, Artifacts, Hunts!Parts
  <2> QED
    BY <1>3, <2>1, <2>2
<1>7. CASE LogsOne(c)
  <2>1. PICK e \in {"prepared", "published"} :
          /\ at[c] \in Hunts!Runs /\ Keeps(at[c], {"events"})
          /\ hunts'[at[c]].events = hunts[at[c]].events \cup {e}
    BY <1>7 DEF LogsOne
  <2>2. CASE g = at[c]
    <3>1. \A f \in Artifacts : hunts'[g][f] = hunts[g][f]
      BY <2>1, <2>2 DEF Keeps, Keys, Artifacts
    <3> QED
      BY <2>1, <2>2, <3>1 DEF HuntKept, PartsKnown
  <2>3. CASE g # at[c]
    BY <1>1, <2>1, <2>3 DEF Keeps, OtherRuns
  <2> QED
    BY <2>2, <2>3
<1>8. CASE Tells(c)
  <2>1. at[c] \in Hunts!Runs /\ Keeps(at[c], {"told"})
    BY <1>8 DEF Tells
  <2> QED
    BY <1>2, <2>1 DEF Artifacts
<1>9. CASE Ends(c)
  <2>1. Writes(c, "done", "whole") /\ "done" \in Artifacts /\ "whole" \in Hunts!Parts
    BY <1>9 DEF Ends, Artifacts, Hunts!Parts
  <2> QED
    BY <1>3, <2>1
<1>10. CASE Moves(c)
  <2>1. hunts' = hunts \/ (pc[c] \in Artifacts /\ Writes(c, pc[c], "part"))
    BY <1>10 DEF Moves
  <2>2. "part" \in Hunts!Parts
    BY DEF Hunts!Parts
  <2> QED
    BY <1>1, <1>3, <2>1, <2>2
<1> QED
  BY <1>4, <1>5, <1>6, <1>7, <1>8, <1>9, <1>10 DEF ActsOn

\* Who becomes idle leaves its run.
LEMMA IdleLeaves ==
  ASSUME HuntInv, HuntKept, NEW c \in Wrapper, ActsOn(c), HuntFrame(c), NEW d \in Wrapper, pc'[d] = "idle"
  PROVE  at'[d] = None
<1>1. CASE d # c
  BY <1>1 DEF HuntFrame, HuntInv, HuntControl, HuntKept
<1>2. CASE d = c
  <2>1. ~Begins(c) /\ ~Copies(c) /\ ~LogsOne(c)
    BY <1>2 DEF Begins, Copies, LogsOne
  <2>2. ~CreatesOne(c)
    <3>1. \A p \in Creations : p[2] # "idle"
      BY DEF Creations
    <3> QED
      BY <1>2, <3>1 DEF CreatesOne
  <2> QED
    BY <1>2, <2>1, <2>2 DEF ActsOn, Tells, Ends, Moves
<1> QED
  BY <1>1, <1>2

LEMMA HuntKeptStep == HuntInv /\ HuntKept /\ Hunts!Next => HuntKept'
<1> SUFFICES ASSUME HuntInv, HuntKept, Hunts!Next PROVE HuntKept'
  OBVIOUS
<1>1. repo' \in [File -> Hunts!Content] /\ changes' \in 0..MaxChanges
  <2>1. CASE Hunts!EditFile
    BY <2>1, BoundAssumption DEF Hunts!EditFile, HuntKept
  <2>2. CASE UNCHANGED <<repo, changes>>
    BY <2>2 DEF HuntKept
  <2>3. Hunts!EditFile \/ UNCHANGED <<repo, changes>>
    BY DEF Hunts!Next, Hunts!Step, Hunts!Prepare, Hunts!Load, Hunts!CopyFile, Hunts!Freeze,
           Hunts!WriteOriginal, Hunts!OpenLedger, Hunts!WriteState, Hunts!LogPrepared, Hunts!Tell,
           Hunts!WriteReport, Hunts!WriteCoverage, Hunts!LogPublished, Hunts!WriteDone, Hunts!Stop,
           Hunts!Creates, Hunts!Logs
  <2> QED
    BY <2>1, <2>2, <2>3
<1>2. CASE UNCHANGED <<pc, at, hunts>>
  BY <1>1, <1>2 DEF HuntKept, PartsKnown
<1>3. ASSUME NEW c \in Wrapper, ActsOn(c), HuntFrame(c) PROVE HuntKept'
  BY <1>1, <1>3, PartsStay, IdleLeaves DEF HuntKept
<1> QED
  BY <1>2, <1>3, HuntEffects

LEMMA HuntIsTyped == HuntInv /\ HuntKept => Hunts!TypeOK
<1> SUFFICES ASSUME HuntInv, HuntKept PROVE Hunts!TypeOK
  OBVIOUS
<1>1. \A c \in Wrapper : pc[c] = "idle" <=> at[c] = None
  BY HuntAssumption DEF HuntInv, HuntControl, HuntKept, Hunts!Runs
<1>2. \A h \in Hunts!Runs : DOMAIN hunts[h] = DOMAIN Hunts!Fresh
  BY DEF HuntInv, HuntControl, Keys, Artifacts, Hunts!Fresh
<1> QED
  BY <1>1, <1>2 DEF HuntInv, HuntControl, HuntKept, PartsKnown, Artifacts, Hunts!TypeOK

-----------------------------------------------------------------------------
LEMMA RecordIsTyped == RecordInv => Record!TypeOK
  BY DEF RecordInv, Record!TypeOK

LEMMA CodexIsTyped == CodexInv => Codex!TypeOK
<1> SUFFICES ASSUME CodexInv PROVE Codex!TypeOK
  OBVIOUS
<1>1. \A w \in Wrapper : pc[w] \in Codex!Running \ {"release"} => mine[w].taken = Codex!Targets(w)
  BY DEF CodexInv, MineTyped, Locked, Inside
<1> QED
  BY <1>1 DEF CodexInv, MineTyped, FilesTyped, Codex!TypeOK, Codex!Past

-----------------------------------------------------------------------------
(***************************************************************************)
(* The parts together.                                                     *)
(***************************************************************************)
VerdictInv ==
  /\ part = "turn" => TurnInv /\ CountsAdd
  /\ part = "rollout" => RollInv /\ LogBounded
  /\ part = "hunt" => HuntInv /\ HuntKept
  /\ part = "record" => RecordInv
  /\ part = "codex" => CodexInv

\* The parts keep, for any values of the constants, what their programs have
\* settled: a turn its evidence, a rollout the worst of each turn, a hunt what its
\* runs have finished, a record what was sent, a call of the wrapper its locks.
THEOREM VerdictInductive == Spec => []VerdictInv
<1>1. Init => VerdictInv
  <2>1. Rolls!Init => LogBounded
    BY BoundAssumption DEF Rolls!Init, LogBounded
  <2> QED
    BY <2>1, TurnInit, CountsStart, RollInit, HuntInit, HuntKeptStart, RecordInit, CodexInit
       DEF Init, VerdictInv
<1>2. VerdictInv /\ [Next]_vars => VerdictInv'
  <2> SUFFICES ASSUME VerdictInv, [Next]_vars PROVE VerdictInv'
    OBVIOUS
  <2>1. part' = part
    BY DEF Next, vars
  <2>2. CASE part = "turn"
    <3>1. Turns!Next \/ UNCHANGED <<pc, verdict, turnOnly>>
      BY <2>2 DEF Next, vars
    <3>2. UNCHANGED <<pc, verdict, turnOnly>> /\ CountsAdd => CountsAdd'
      BY DEF turnOnly, CountsAdd
    <3> QED
      BY <2>1, <2>2, <3>1, <3>2, TurnStep, TurnStutter, CountsStep DEF VerdictInv
  <2>3. CASE part = "rollout"
    <3>1. Rolls!Next \/ UNCHANGED <<pc, k, verdict, rollOnly>>
      BY <2>3 DEF Next, vars
    <3>2. UNCHANGED <<pc, k, verdict, rollOnly>> /\ LogBounded => LogBounded'
      BY DEF rollOnly, LogBounded
    <3> QED
      BY <2>1, <2>3, <3>1, <3>2, RollStep, RollStutter, LogStep DEF VerdictInv
  <2>4. CASE part = "hunt"
    <3>1. Hunts!Next \/ UNCHANGED <<pc, huntOnly>>
      BY <2>4 DEF Next, vars
    <3>2. UNCHANGED <<pc, huntOnly>> /\ HuntKept => HuntKept'
      BY DEF huntOnly, HuntKept, PartsKnown
    <3> QED
      BY <2>1, <2>4, <3>1, <3>2, HuntStep, HuntStutter, HuntKeptStep DEF VerdictInv
  <2>5. CASE part = "record"
    <3>1. Record!Next \/ UNCHANGED <<pc, recordOnly>>
      BY <2>5 DEF Next, vars
    <3> QED
      BY <2>1, <2>5, <3>1, RecordStep, RecordStutter DEF VerdictInv
  <2>6. CASE part = "codex"
    <3>1. Codex!Next \/ UNCHANGED <<pc, exit, mine, child, file, lock>>
      BY <2>6 DEF Next, vars
    <3> QED
      BY <2>1, <2>6, <3>1, CodexStep, CodexStutter DEF VerdictInv
  <2> QED
    BY <2>1, <2>2, <2>3, <2>4, <2>5, <2>6 DEF VerdictInv
<1> QED
  BY <1>1, <1>2, PTL DEF Spec

\* Whatever is accepted has its ground: a review in the commands of its own turn, a
\* setting in every context of its turns, a decision in the lines that were sent for
\* it, and a claim of unchanged coverage in a hunt that was published over the same
\* bytes, however the processes interleave and wherever they stop.
THEOREM VerdictsAreEarned == Spec => []VerdictIsEarned
<1>1. VerdictInv => VerdictIsEarned
  <2> SUFFICES ASSUME VerdictInv PROVE VerdictIsEarned
    OBVIOUS
  <2>1. part = "rollout" => Rolls!VerdictIsWorst
    BY DEF VerdictInv, RollInv
  <2> QED
    BY <2>1, TurnSound, HuntSound, RecordSound DEF VerdictInv, VerdictIsEarned
<1> QED
  BY <1>1, VerdictInductive, PTL

\* A call of the Codex wrapper judges and reports only what its own Codex wrote,
\* whatever other calls name the same files, in whatever role, and whoever crashes
\* or removes the lock of a dead call; unless a Codex outlives a call that was cut
\* short.
THEOREM AnswersAreOwn == Spec => []AnswerIsOwn
<1>1. VerdictInv => AnswerIsOwn
  <2> SUFFICES ASSUME CodexInv, NEW w \in Wrapper, pc[w] \in {"applied", "blind", "answer"}
               PROVE  (\A p \in Codex!Targets(w) : file[p] \subseteq {w}) \/ Strays(w)
    BY DEF VerdictInv, AnswerIsOwn, Codex!AnswerIsOwn, Strays, Outlived
  <2>1. Clean(w, mine[w].out) /\ Clean(w, mine[w].err) /\ Clean(w, Codex!Stream(w))
    BY DEF CodexInv, Cleared, Inside, Codex!Running
  <2> QED
    BY <2>1 DEF Clean, Codex!Targets
<1> QED
  BY <1>1, VerdictInductive, PTL
=============================================================================
