----------------------------- MODULE Mcp_proofs -----------------------------
(***************************************************************************)
(* Answers, slots, grep jobs and instructions of the MCP server, for all   *)
(* users, calls, sessions, jobs, limits and lifetimes.                     *)
(***************************************************************************)
EXTENDS Mcp, TLAPS, SequenceTheorems, FiniteSetTheorems

Phases  == {"new", "body", "run", "scan", "done"}
Vias    == Streams \cup {Http}
Callers == Users \cup {Nobody}

LEMMA CallFields ==
  ASSUME NEW p, NEW v, NEW u, NEW n, NEW o
  PROVE  /\ Call(p, v, u, n, o).phase = p /\ Call(p, v, u, n, o).via = v
         /\ Call(p, v, u, n, o).user = u /\ Call(p, v, u, n, o).left = n
         /\ Call(p, v, u, n, o).outs = o
         /\ p \in Phases /\ v \in Vias /\ u \in Callers /\ n \in 0..BatchMax /\ o \in BOOLEAN
            => Call(p, v, u, n, o) \in CallSet
BY DEF Call, CallSet, Phases, Vias, Callers

LEMMA JobFields ==
  ASSUME NEW s, NEW u, NEW t
  PROVE  /\ Job(s, u, t).status = s /\ Job(s, u, t).who = u /\ Job(s, u, t).created = t
         /\ s \in {"none", "running", "completed", "gone"} /\ u \in Callers /\ t \in Times
            => Job(s, u, t) \in JobSet
BY DEF Job, JobSet, Callers

LEMMA HintFields ==
  ASSUME NEW t, NEW n
  PROVE  /\ Hint(t, n).at = t /\ Hint(t, n).version = n
         /\ t \in Times \cup {Never} /\ n \in (0..MaxEdits) \cup {Broken}
            => Hint(t, n) \in HintSet
BY DEF Hint, HintSet

LEMMA Fields ==
  /\ \A r \in CallSet : /\ r.phase \in Phases /\ r.via \in Vias /\ r.user \in Callers
                        /\ r.left \in 0..BatchMax /\ r.outs \in BOOLEAN
  /\ \A r \in JobSet : /\ r.status \in {"none", "running", "completed", "gone"}
                       /\ r.who \in Callers /\ r.created \in Times
  /\ \A r \in HintSet : r.at \in Times \cup {Never} /\ r.version \in (0..MaxEdits) \cup {Broken}
BY DEF CallSet, JobSet, HintSet, Phases, Vias, Callers

-----------------------------------------------------------------------------
(* The parts of TypeOK.                                                     *)

StreamType ==
    /\ stream \in [Streams -> {"new", "registered", "first", "open", "over", "stray"}]
    /\ owner \in [Streams -> Callers]
    /\ queue \in [Streams -> Seq(Calls)] /\ delivered \in [Streams -> Seq(Calls)]
    /\ accepted \in [Streams -> Seq(Calls)]

CallType ==
    /\ accounts \subseteq Users
    /\ call \in [Calls -> CallSet] /\ turn \in Calls \cup {Nobody}
    /\ \A c \in Calls : /\ call[c].phase = "run" <=> turn = c
                        /\ call[c].phase # "new" => call[c].user \in Users

JobType ==
    /\ job \in [Jobs -> JobSet] /\ tasks \subseteq Jobs /\ shown \subseteq Users \X Jobs

HintType ==
    /\ text \in [Users -> 0..MaxEdits] /\ cache \in [Users -> HintSet]
    /\ reading \in HintSet /\ since \in [Users -> Times \cup {Never}]

LEMMA TypeParts ==
  TypeOK <=> clock \in Times /\ StreamType /\ CallType /\ JobType /\ HintType
BY DEF TypeOK, StreamType, CallType, JobType, HintType, Callers

-----------------------------------------------------------------------------
(* What the steps leave alone.                                              *)

LEMMA SseFrame ==
  ASSUME Next
  PROVE  \/ \E s \in Streams : StreamStep(s)
         \/ \E c \in Calls : Answer(c)
         \/ UNCHANGED sseVars
<1>1. ASSUME NEW c \in Calls, CallStep(c) PROVE Answer(c) \/ UNCHANGED sseVars
  BY <1>1 DEF CallStep, PostHttp, PostMessage, Refuse, Begin, Message, Raises,
     InitializeCached, ReadHint, StoreHint, Finishes,
     WriteHint, WriteUncleared, Scan, ScanEnds, StartJob, Poll, Handles
<1>2. ASSUME NEW j \in Jobs, JobEnds(j) PROVE UNCHANGED sseVars BY <1>2 DEF JobEnds
<1>3. ASSUME NEW u \in Users, EditElsewhere(u) \/ Revoke(u) PROVE UNCHANGED sseVars
  BY <1>3 DEF EditElsewhere, Revoke
<1>4. ASSUME Tick PROVE UNCHANGED sseVars BY <1>4 DEF Tick
<1> QED BY <1>1, <1>2, <1>3, <1>4 DEF Next

LEMMA CallFrame ==
  ASSUME Next
  PROVE  \/ \E c \in Calls : CallStep(c) /\ ~ReadHint(c)
         \/ UNCHANGED <<call, turn>> /\ accounts' \subseteq accounts
<1>1. ASSUME NEW s \in Streams, StreamStep(s) PROVE UNCHANGED <<call, turn, accounts>>
  BY <1>1 DEF StreamStep, Connect, FirstEvent, Enter, Leave, Abandon, Moves, Deliver
<1>2. ASSUME NEW j \in Jobs, JobEnds(j) PROVE UNCHANGED <<call, turn, accounts>>
  BY <1>2 DEF JobEnds
<1>3. ASSUME NEW u \in Users, EditElsewhere(u) \/ Revoke(u)
      PROVE  UNCHANGED <<call, turn>> /\ accounts' \subseteq accounts
  BY <1>3 DEF EditElsewhere, Revoke
<1>4. ASSUME Tick PROVE UNCHANGED <<call, turn, accounts>> BY <1>4 DEF Tick
<1>5. ASSUME NEW c \in Calls, ReadHint(c) PROVE UNCHANGED <<call, turn, accounts>>
  BY <1>5 DEF ReadHint
<1> QED BY <1>1, <1>2, <1>3, <1>4, <1>5 DEF Next

LEMMA JobFrame ==
  ASSUME Next
  PROVE  \/ \E c \in Calls, j \in Jobs : StartJob(c, j) \/ Poll(c, j)
         \/ \E j \in Jobs : JobEnds(j)
         \/ UNCHANGED jobVars
<1>1. ASSUME NEW s \in Streams, StreamStep(s) PROVE UNCHANGED jobVars
  BY <1>1 DEF StreamStep, Connect, FirstEvent, Enter, Leave, Abandon, Moves, Deliver
<1>2. ASSUME NEW c \in Calls, CallStep(c)
      PROVE  (\E j \in Jobs : StartJob(c, j) \/ Poll(c, j)) \/ UNCHANGED jobVars
  BY <1>2 DEF CallStep, PostHttp, PostMessage, Refuse, Begin, Message, Raises,
     InitializeCached, ReadHint, StoreHint, Finishes,
     WriteHint, WriteUncleared, Scan, ScanEnds, Answer
<1>3. ASSUME NEW u \in Users, EditElsewhere(u) \/ Revoke(u) PROVE UNCHANGED jobVars
  BY <1>3 DEF EditElsewhere, Revoke
<1>4. ASSUME Tick PROVE UNCHANGED jobVars BY <1>4 DEF Tick
<1> QED BY <1>1, <1>2, <1>3, <1>4 DEF Next

LEMMA HintFrame ==
  ASSUME Next
  PROVE  \/ \E c \in Calls : ReadHint(c) \/ StoreHint(c) \/ WriteHint(c) \/ WriteUncleared(c)
         \/ \E u \in Users : EditElsewhere(u)
         \/ UNCHANGED hintVars
<1>1. ASSUME NEW s \in Streams, StreamStep(s) PROVE UNCHANGED hintVars
  BY <1>1 DEF StreamStep, Connect, FirstEvent, Enter, Leave, Abandon, Moves, Deliver
<1>2. ASSUME NEW c \in Calls, CallStep(c)
      PROVE  \/ ReadHint(c) \/ StoreHint(c) \/ WriteHint(c) \/ WriteUncleared(c)
             \/ UNCHANGED hintVars
  BY <1>2 DEF CallStep, PostHttp, PostMessage, Refuse, Begin, Message, Raises,
     InitializeCached, Scan, ScanEnds, Answer, StartJob, Poll
<1>3. ASSUME NEW j \in Jobs, JobEnds(j) PROVE UNCHANGED hintVars BY <1>3 DEF JobEnds
<1>4. ASSUME NEW u \in Users, Revoke(u) PROVE UNCHANGED hintVars BY <1>4 DEF Revoke
<1>5. ASSUME Tick PROVE UNCHANGED hintVars BY <1>5 DEF Tick
<1> QED BY <1>1, <1>2, <1>3, <1>4, <1>5 DEF Next

LEMMA ClockFrame ==
  ASSUME clock \in Times, Next PROVE clock' \in Times /\ clock <= clock'
<1>1. ASSUME NEW s \in Streams, StreamStep(s) PROVE UNCHANGED clock
  BY <1>1 DEF StreamStep, Connect, FirstEvent, Enter, Leave, Abandon, Moves, Deliver
<1>2. ASSUME NEW c \in Calls, CallStep(c) PROVE UNCHANGED clock
  BY <1>2 DEF CallStep, PostHttp, PostMessage, Refuse, Begin, Message, Raises,
     InitializeCached, ReadHint, StoreHint, Finishes,
     WriteHint, WriteUncleared, Scan, ScanEnds, Answer, StartJob, Poll, Handles
<1>3. ASSUME NEW j \in Jobs, JobEnds(j) PROVE UNCHANGED clock BY <1>3 DEF JobEnds
<1>4. ASSUME NEW u \in Users, EditElsewhere(u) \/ Revoke(u) PROVE UNCHANGED clock
  BY <1>4 DEF EditElsewhere, Revoke
<1>5. ASSUME Tick PROVE clock' \in Times /\ clock <= clock'
  BY <1>5, McpAssumption DEF Tick, Times
<1>6. clock <= clock BY McpAssumption DEF Times
<1> QED BY <1>1, <1>2, <1>3, <1>4, <1>5, <1>6 DEF Next

-----------------------------------------------------------------------------
(* A step of call c, seen from the table of calls.                          *)

Changes(c, p, v, u, n, o) ==
    /\ p \in Phases \ {"new"} /\ v \in Vias /\ u \in Users /\ n \in 0..BatchMax
    /\ o \in BOOLEAN
    /\ call' = [call EXCEPT ![c] = Call(p, v, u, n, o)]
    /\ turn \in {Nobody, c} /\ turn' = (IF p = "run" THEN c ELSE Nobody)
    /\ call[c].phase # "done"
    /\ IF call[c].phase = "new" THEN p = "body" /\ (v = Http \/ v \in Registered)
       ELSE v = call[c].via /\ u = call[c].user
    /\ p \in {"run", "scan"} =>
          call[c].phase \in {"run", "scan"} \/ v = Http \/ u = owner[v]
    /\ UNCHANGED accounts

LEMMA RunningCall ==
  ASSUME CallType, NEW c \in Calls
  PROVE  /\ call[c] \in CallSet /\ call[c].phase \in Phases /\ call[c].via \in Vias
         /\ call[c].left \in 0..BatchMax /\ call[c].outs \in BOOLEAN
         /\ call[c].phase # "new" => call[c].user \in Users
         /\ turn = c => call[c].phase = "run"
         /\ turn = Nobody => call[c].phase # "run"
         /\ Nobody # c /\ BatchMax \in Nat
BY Fields, McpAssumption DEF CallType

\* A message of a batch is handled.
LEMMA FinishesChanges ==
  ASSUME CallType, NEW c \in Calls, NEW outs \in BOOLEAN, Finishes(c, outs)
  PROVE  \E p, v, u, n, o : Changes(c, p, v, u, n, o)
<1>1. /\ turn = c /\ call[c].left > 0 /\ UNCHANGED <<accounts, turn>>
      /\ call' = [call EXCEPT ![c] = Call("run", call[c].via, call[c].user,
                                          call[c].left - 1, call[c].outs \/ outs)]
  BY DEF Finishes, Becomes
<1>2. call[c].left - 1 \in 0..BatchMax BY <1>1, RunningCall
<1>3. (call[c].outs \/ outs) \in BOOLEAN BY RunningCall
<1>4. Changes(c, "run", call[c].via, call[c].user, call[c].left - 1, call[c].outs \/ outs)
  BY <1>1, <1>2, <1>3, RunningCall DEF Changes, Phases
<1> QED BY <1>4

LEMMA CallChanges ==
  ASSUME CallType, NEW c \in Calls, CallStep(c), ~ReadHint(c)
  PROVE  \E p, v, u, n, o : Changes(c, p, v, u, n, o)
<1> USE RunningCall
<1>1. ASSUME NEW u \in Users, PostHttp(c, u) PROVE Changes(c, "body", Http, u, 0, FALSE)
  <2>1. /\ turn = Nobody /\ call[c].phase = "new" /\ UNCHANGED <<accounts, turn>>
        /\ call' = [call EXCEPT ![c] = Call("body", Http, u, 0, FALSE)]
    BY <1>1 DEF PostHttp, Free, Becomes
  <2> QED BY <2>1 DEF Changes, Phases, Vias
<1>2. ASSUME NEW u \in Users, NEW s \in Streams, PostMessage(c, s, u)
      PROVE  Changes(c, "body", s, u, 0, FALSE)
  <2>1. /\ turn = Nobody /\ call[c].phase = "new" /\ UNCHANGED <<accounts, turn>>
        /\ call' = [call EXCEPT ![c] = Call("body", s, u, 0, FALSE)] /\ s \in Registered
    BY <1>2 DEF PostMessage, Free, Becomes
  <2> QED BY <2>1 DEF Changes, Phases, Vias
<1>3. ASSUME Refuse(c) PROVE Changes(c, "done", call[c].via, call[c].user, 0, FALSE)
  <2>1. /\ turn = Nobody /\ call[c].phase = "body" /\ UNCHANGED <<accounts, turn>>
        /\ call' = [call EXCEPT ![c] = Call("done", call[c].via, call[c].user, 0, FALSE)]
    BY <1>3 DEF Refuse, Free, Becomes
  <2> QED BY <2>1 DEF Changes, Phases
<1>4. ASSUME Begin(c) PROVE \E p, v, u, n, o : Changes(c, p, v, u, n, o)
  <2>1. /\ turn = Nobody /\ call[c].phase = "body" /\ turn' = c /\ UNCHANGED accounts
        /\ call[c].via # Http => call[c].user = owner[call[c].via]
    BY <1>4 DEF Begin, Free, Admits
  <2>2. PICK n \in 0..BatchMax :
          call' = [call EXCEPT ![c] = Call("run", call[c].via, call[c].user, n, n = 0)]
    BY <1>4 DEF Begin, Becomes
  <2>3. (n = 0) \in BOOLEAN OBVIOUS
  <2>4. Changes(c, "run", call[c].via, call[c].user, n, n = 0)
    BY <2>1, <2>2, <2>3 DEF Changes, Phases
  <2> QED BY <2>4
<1>5. ASSUME Answer(c) PROVE Changes(c, "done", call[c].via, call[c].user, 0, call[c].outs)
  <2>1. /\ turn = c /\ turn' = Nobody /\ UNCHANGED accounts
        /\ call' = [call EXCEPT ![c] = Call("done", call[c].via, call[c].user, 0,
                                            call[c].outs)]
    BY <1>5 DEF Answer, Becomes
  <2> QED BY <2>1 DEF Changes, Phases
<1>6. ASSUME Message(c) PROVE \E p, v, u, n, o : Changes(c, p, v, u, n, o)
  BY <1>6, FinishesChanges DEF Message, Handles
<1>7. ASSUME \/ InitializeCached(c) \/ StoreHint(c) \/ WriteHint(c) \/ WriteUncleared(c)
             \/ \E j \in Jobs : StartJob(c, j) \/ Poll(c, j)
      PROVE  \E p, v, u, n, o : Changes(c, p, v, u, n, o)
  <2>1. Finishes(c, TRUE)
    BY <1>7 DEF InitializeCached, StoreHint, WriteHint, WriteUncleared, StartJob, Poll, Handles
  <2> QED BY <2>1, FinishesChanges
<1>16. ASSUME Raises(c) PROVE Changes(c, "done", call[c].via, call[c].user, 0, FALSE)
  <2>1. /\ turn = c /\ turn' = Nobody /\ UNCHANGED accounts
        /\ call' = [call EXCEPT ![c] = Call("done", call[c].via, call[c].user, 0, FALSE)]
    BY <1>16 DEF Raises, Becomes
  <2> QED BY <2>1 DEF Changes, Phases
<1>8. ASSUME Scan(c)
      PROVE  Changes(c, "scan", call[c].via, call[c].user, call[c].left - 1, TRUE)
  <2>1. /\ turn = c /\ call[c].left > 0 /\ turn' = Nobody /\ UNCHANGED accounts
        /\ call' = [call EXCEPT ![c] = Call("scan", call[c].via, call[c].user,
                                            call[c].left - 1, TRUE)]
    BY <1>8 DEF Scan, Becomes
  <2>2. call[c].left - 1 \in 0..BatchMax BY <2>1
  <2> QED BY <2>1, <2>2 DEF Changes, Phases
<1>9. ASSUME ScanEnds(c)
      PROVE  Changes(c, "run", call[c].via, call[c].user, call[c].left, call[c].outs)
  <2>1. /\ turn = Nobody /\ call[c].phase = "scan" /\ turn' = c /\ UNCHANGED accounts
        /\ call' = [call EXCEPT ![c] = Call("run", call[c].via, call[c].user,
                                            call[c].left, call[c].outs)]
    BY <1>9 DEF ScanEnds, Free, Becomes
  <2> QED BY <2>1 DEF Changes, Phases
<1>10. CASE \E u \in Users : PostHttp(c, u) BY <1>10, <1>1
<1>11. CASE \E u \in Users, s \in Streams : PostMessage(c, s, u) BY <1>11, <1>2
<1>12. CASE Refuse(c) BY <1>12, <1>3
<1>13. CASE Answer(c) BY <1>13, <1>5
<1>14. CASE Scan(c) BY <1>14, <1>8
<1>15. CASE ScanEnds(c) BY <1>15, <1>9
<1>17. CASE Raises(c) BY <1>17, <1>16
<1> QED
  BY <1>4, <1>6, <1>7, <1>10, <1>11, <1>12, <1>13, <1>14, <1>15, <1>17 DEF CallStep

\* What a change of call c means for the others.
LEMMA OneCallChanges ==
  ASSUME CallType, NEW c \in Calls, NEW p, NEW v, NEW u, NEW n, NEW o,
         Changes(c, p, v, u, n, o)
  PROVE  /\ call' \in [Calls -> CallSet]
         /\ \A d \in Calls \ {c} : call'[d] = call[d]
         /\ call'[c].phase = p /\ call'[c].via = v /\ call'[c].user = u
<1>1. Call(p, v, u, n, o) \in CallSet BY CallFields DEF Changes, Phases, Vias, Callers
<1>2. call'[c] = Call(p, v, u, n, o) BY DEF Changes, CallType
<1> QED BY <1>1, <1>2, CallFields DEF Changes, CallType

LEMMA CallTypeStep ==
  ASSUME CallType, Next PROVE CallType'
<1>1. ASSUME NEW c \in Calls, CallStep(c), ~ReadHint(c) PROVE CallType'
  <2>1. PICK p, v, u, n, o : Changes(c, p, v, u, n, o) BY <1>1, CallChanges
  <2>2. /\ call' \in [Calls -> CallSet]
        /\ \A d \in Calls \ {c} : call'[d] = call[d]
        /\ call'[c].phase = p /\ call'[c].user = u
    BY <2>1, OneCallChanges
  <2>3. turn' \in Calls \cup {Nobody} /\ accounts' \subseteq Users
    BY <2>1 DEF Changes, CallType
  <2>4. p # "new" /\ u \in Users /\ turn \in {Nobody, c}
        /\ turn' = (IF p = "run" THEN c ELSE Nobody)
    BY <2>1 DEF Changes
  <2>5. ASSUME NEW d \in Calls
        PROVE  /\ call'[d].phase = "run" <=> turn' = d
               /\ call'[d].phase # "new" => call'[d].user \in Users
    <3>1. CASE d = c BY <2>2, <2>4, <3>1, RunningCall
    <3>2. CASE d # c
      <4>1. call[d].phase = "run" <=> turn = d BY DEF CallType
      <4>2. call[d].phase # "new" => call[d].user \in Users BY DEF CallType
      <4>3. turn # d /\ turn' # d BY <2>4, <3>2, McpAssumption
      <4> QED BY <2>2, <3>2, <4>1, <4>2, <4>3
    <3> QED BY <3>1, <3>2
  <2> QED BY <2>2, <2>3, <2>5 DEF CallType
<1>2. CASE UNCHANGED <<call, turn>> /\ accounts' \subseteq accounts
  BY <1>2 DEF CallType
<1> QED BY <1>1, <1>2, CallFrame

-----------------------------------------------------------------------------
(* Sessions and their answers.                                              *)

LEMMA StreamTypeStep ==
  ASSUME StreamType, CallType, Next PROVE StreamType'
<1>1. ASSUME NEW s \in Streams, StreamStep(s) PROVE StreamType'
  <2>1. ASSUME NEW u \in Users, Connect(s, u) PROVE StreamType'
    BY <2>1 DEF Connect, StreamType, Callers
  <2>2. ASSUME FirstEvent(s) \/ Enter(s) \/ Leave(s) \/ Abandon(s) PROVE StreamType'
    BY <2>2 DEF FirstEvent, Enter, Leave, Abandon, Moves, StreamType
  <2>3. ASSUME Deliver(s) PROVE StreamType'
    <3>1. queue[s] \in Seq(Calls) /\ queue[s] # <<>> /\ delivered[s] \in Seq(Calls)
      BY <2>3 DEF Deliver, StreamType
    <3>2. Head(queue[s]) \in Calls /\ Tail(queue[s]) \in Seq(Calls)
      BY <3>1, HeadTailProperties
    <3>3. Append(delivered[s], Head(queue[s])) \in Seq(Calls)
      BY <3>1, <3>2, AppendProperties
    <3> QED BY <2>3, <3>2, <3>3 DEF Deliver, StreamType
  <2> QED BY <1>1, <2>1, <2>2, <2>3 DEF StreamStep
<1>2. ASSUME NEW c \in Calls, Answer(c) PROVE StreamType'
  <2>1. UNCHANGED <<stream, owner, delivered>> BY <1>2 DEF Answer
  <2>2. CASE UNCHANGED <<queue, accepted>> BY <2>1, <2>2 DEF StreamType
  <2>3. CASE /\ queue' = [queue EXCEPT ![call[c].via] = Append(@, c)]
             /\ accepted' = [accepted EXCEPT ![call[c].via] = Append(@, c)]
    BY <2>1, <2>3, AppendProperties DEF StreamType
  <2> QED BY <1>2, <2>2, <2>3 DEF Answer, Put
<1>3. CASE UNCHANGED sseVars BY <1>3 DEF sseVars, StreamType
<1> QED BY <1>1, <1>2, <1>3, SseFrame

\* A call that has found its session knows one that was opened; once admitted it
\* is the call of the session's owner.
Opened ==
    \A c \in Calls :
        call[c].phase # "new" /\ call[c].via \in Streams =>
            /\ stream[call[c].via] # "new"
            /\ call[c].phase \in {"run", "scan"} => call[c].user = owner[call[c].via]

\* The accepted answers of session s.
Answers(s) ==
    /\ delivered[s] \o queue[s] = accepted[s]
    /\ IsInjective(accepted[s])
    /\ \A i \in DOMAIN accepted[s] :
          LET c == accepted[s][i]
          IN  call[c].via = s /\ call[c].user = owner[s] /\ call[c].phase = "done"

AnswerInv == Opened /\ \A s \in Streams : Answers(s)

LEMMA AppendToSecond ==
  ASSUME NEW S, NEW t \in Seq(S), NEW u \in Seq(S), NEW e \in S
  PROVE  t \o Append(u, e) = Append(t \o u, e)
<1>1. t \o u \in Seq(S) BY ConcatProperties
<1>2. Len(t \o u) = Len(t) + Len(u) /\ Len(t) \in Nat /\ Len(u) \in Nat OBVIOUS
<1>3. /\ Append(u, e) \in Seq(S) /\ Len(Append(u, e)) = Len(u) + 1 
      /\ \A i \in 1..Len(u) : Append(u, e)[i] = u[i]
      /\ Append(u, e)[Len(u) + 1] = e
  BY AppendProperties
<1> QED BY <1>1, <1>2, <1>3

LEMMA HeadToFirst ==
  ASSUME NEW S, NEW t \in Seq(S), NEW u \in Seq(S), u # <<>>
  PROVE  Append(t, Head(u)) \o Tail(u) = t \o u
OBVIOUS

\* Nothing of session s changes, and none of its calls that are done.
LEMMA AnswersKept ==
  ASSUME NEW s \in Streams, Answers(s), StreamType,
         delivered'[s] = delivered[s], queue'[s] = queue[s], accepted'[s] = accepted[s],
         owner'[s] = owner[s],
         \A c \in Calls : call[c].phase = "done" => call'[c] = call[c]
  PROVE  Answers(s)'
<1>1. accepted[s] \in Seq(Calls) BY DEF StreamType
<1>2. ASSUME NEW i \in DOMAIN accepted[s]
      PROVE  LET c == accepted[s][i]
             IN  call'[c].via = s /\ call'[c].user = owner[s] /\ call'[c].phase = "done"
  <2>1. accepted[s][i] \in Calls BY <1>1
  <2> QED BY <2>1 DEF Answers
<1> QED BY <1>2 DEF Answers, IsInjective

LEMMA DeliverAnswers ==
  ASSUME StreamType, AnswerInv, NEW s \in Streams, Deliver(s) PROVE AnswerInv'
<1>1. queue[s] \in Seq(Calls) /\ queue[s] # <<>> /\ delivered[s] \in Seq(Calls)
  BY DEF Deliver, StreamType
<1>2. Head(queue[s]) \in Calls /\ Tail(queue[s]) \in Seq(Calls)
  BY <1>1, HeadTailProperties
<1>6. Append(delivered[s], Head(queue[s])) \o Tail(queue[s]) = delivered[s] \o queue[s]
  BY <1>1, HeadToFirst
<1>7. /\ queue' = [queue EXCEPT ![s] = Tail(queue[s])]
      /\ delivered' = [delivered EXCEPT ![s] = Append(delivered[s], Head(queue[s]))]
      /\ UNCHANGED <<stream, owner, accepted, call>>
  BY DEF Deliver
<1>8. Answers(s)'
  <2>1. delivered'[s] \o queue'[s] = accepted[s]
    BY <1>6, <1>7 DEF AnswerInv, Answers, StreamType
  <2>2. Answers(s) BY DEF AnswerInv
  <2>3. accepted' = accepted /\ owner' = owner /\ call' = call BY <1>7
  <2>4. IsInjective(accepted'[s]) BY <2>2, <2>3 DEF Answers
  <2>5. \A i \in DOMAIN accepted'[s] :
           LET c == accepted'[s][i]
           IN  call'[c].via = s /\ call'[c].user = owner'[s] /\ call'[c].phase = "done"
    BY <2>2, <2>3 DEF Answers
  <2> QED BY <2>1, <2>3, <2>4, <2>5 DEF Answers
<1>9. ASSUME NEW t \in Streams \ {s} PROVE Answers(t)'
  BY <1>7, AnswersKept DEF AnswerInv, StreamType
<1>10. Opened' BY <1>7 DEF AnswerInv, Opened
<1> QED BY <1>8, <1>9, <1>10 DEF AnswerInv

\* The session that connects has had no calls.
LEMMA ConnectAnswers ==
  ASSUME StreamType, AnswerInv, NEW s \in Streams, NEW u \in Users, Connect(s, u)
  PROVE  AnswerInv'
<1>1. /\ stream[s] = "new" /\ stream' = [stream EXCEPT ![s] = "registered"]
      /\ owner' = [owner EXCEPT ![s] = u]
      /\ UNCHANGED <<queue, delivered, accepted, call>>
  BY DEF Connect
<1>2. \A c \in Calls : call[c].phase # "new" => call[c].via # s
  BY <1>1 DEF AnswerInv, Opened
<1>3. accepted[s] \in Seq(Calls) BY DEF StreamType
<1>4. Answers(s)'
  <2>1. ASSUME NEW i \in DOMAIN accepted[s] PROVE FALSE
    <3>1. accepted[s][i] \in Calls BY <1>3
    <3>2. Answers(s) BY DEF AnswerInv
    <3>3. call[accepted[s][i]].via = s /\ call[accepted[s][i]].phase = "done"
      BY <3>2 DEF Answers
    <3> QED BY <1>2, <3>1, <3>3
  <2> QED BY <1>1, <2>1 DEF AnswerInv, Answers
<1>5. ASSUME NEW t \in Streams \ {s} PROVE Answers(t)'
  <2>1. owner'[t] = owner[t] BY <1>1 DEF StreamType
  <2> QED BY <1>1, <2>1, AnswersKept DEF AnswerInv
<1>6. Opened'
  BY <1>1, <1>2 DEF AnswerInv, Opened, StreamType
<1> QED BY <1>4, <1>5, <1>6 DEF AnswerInv

\* Opened survives every step of a call.
LEMMA OpenedKept ==
  ASSUME StreamType, CallType, Opened, NEW c \in Calls, CallStep(c), ~ReadHint(c),
         UNCHANGED <<stream, owner>>
  PROVE  Opened'
<1>1. PICK p, v, u, n, o : Changes(c, p, v, u, n, o) BY CallChanges
<1>2. /\ \A d \in Calls \ {c} : call'[d] = call[d]
      /\ call'[c].phase = p /\ call'[c].via = v /\ call'[c].user = u
  BY <1>1, OneCallChanges
<1>3. ASSUME v \in Streams
      PROVE  stream[v] # "new" /\ (p \in {"run", "scan"} => u = owner[v])
  <2>1. v # Http BY <1>3, McpAssumption
  <2>2. CASE call[c].phase = "new" BY <1>1, <2>1, <2>2 DEF Changes, Registered
  <2>3. CASE call[c].phase # "new"
    <3>1. v = call[c].via /\ u = call[c].user BY <1>1, <2>3 DEF Changes
    <3>2. stream[v] # "new" BY <1>3, <2>3, <3>1 DEF Opened
    <3>3. p \in {"run", "scan"} => u = owner[v]
      BY <1>1, <1>3, <2>1, <2>3, <3>1 DEF Opened, Changes
    <3> QED BY <3>2, <3>3
  <2> QED BY <2>2, <2>3
<1> QED BY <1>2, <1>3 DEF Opened

LEMMA CallAnswers ==
  ASSUME StreamType, CallType, AnswerInv, NEW c \in Calls, CallStep(c), ~ReadHint(c)
  PROVE  AnswerInv'
<1>1. PICK p, v, u, n, o : Changes(c, p, v, u, n, o) BY CallChanges
<1>2. \A d \in Calls : call[d].phase = "done" => call'[d] = call[d]
  BY <1>1, OneCallChanges DEF Changes
<1>3. UNCHANGED <<stream, owner, delivered>>
  BY DEF CallStep, PostHttp, PostMessage, Refuse, Begin, Message, Raises,
     InitializeCached, ReadHint, StoreHint, Finishes,
     WriteHint, WriteUncleared, Scan, ScanEnds, StartJob, Poll, Handles, Answer, sseVars
<1>4. Opened' BY <1>3, OpenedKept DEF AnswerInv
<1>5. CASE UNCHANGED <<queue, accepted>>
  BY <1>2, <1>3, <1>4, <1>5, AnswersKept DEF AnswerInv
<1>6. CASE ~UNCHANGED <<queue, accepted>>
  <2>0. PICK s : s = call[c].via OBVIOUS
  <2>1. Answer(c)
    BY <1>6 DEF CallStep, PostHttp, PostMessage, Refuse, Begin, Message, Raises,
     InitializeCached, ReadHint, StoreHint, Finishes,
       WriteHint, WriteUncleared, Scan, ScanEnds, StartJob, Poll, Handles, sseVars
  <2>2. /\ queue' = [queue EXCEPT ![s] = Append(queue[s], c)]
        /\ accepted' = [accepted EXCEPT ![s] = Append(accepted[s], c)]
        /\ turn = c /\ s # Http
    BY <1>6, <2>0, <2>1 DEF Answer, Put
  <2>3. call[c].phase = "run" /\ s \in Streams BY <2>0, <2>2, RunningCall DEF Vias
  <2>4. /\ queue[s] \in Seq(Calls) /\ delivered[s] \in Seq(Calls)
        /\ accepted[s] \in Seq(Calls)
    BY <2>3 DEF StreamType
  <2>5. call[c].user = owner[s] BY <2>0, <2>3 DEF AnswerInv, Opened
  <2>6. call'[c].via = s /\ call'[c].user = owner[s] /\ call'[c].phase = "done"
    <3>1. call' = [call EXCEPT ![c] = Call("done", s, call[c].user, 0, call[c].outs)]
      BY <2>0, <2>1 DEF Answer, Becomes
    <3>2. call'[c] = Call("done", s, call[c].user, 0, call[c].outs) BY <3>1 DEF CallType
    <3> QED BY <2>5, <3>2, CallFields
  <2>7. queue'[s] = Append(queue[s], c) /\ accepted'[s] = Append(accepted[s], c)
    BY <2>2, <2>3 DEF StreamType
  <2>8. Answers(s) BY <2>3 DEF AnswerInv
  <2>9. \A t \in Streams \ {s} : queue'[t] = queue[t] /\ accepted'[t] = accepted[t]
    BY <2>2, <2>3 DEF StreamType
  <2>10. delivered[s] \o Append(queue[s], c) = Append(accepted[s], c)
    <3>1. \A t, q \in Seq(Calls) : t \o Append(q, c) = Append(t \o q, c)
      BY AppendToSecond
    <3>2. delivered[s] \o Append(queue[s], c) = Append(delivered[s] \o queue[s], c)
      BY <2>4, <3>1, Zenon
    <3> QED BY <2>8, <3>2 DEF Answers
  <2>11. \A i \in DOMAIN accepted[s] :
           /\ accepted[s][i] \in Calls \ {c}
           /\ call'[accepted[s][i]].via = s /\ call'[accepted[s][i]].user = owner[s]
           /\ call'[accepted[s][i]].phase = "done"
    <3> TAKE i \in DOMAIN accepted[s]
    <3>1. accepted[s][i] \in Calls BY <2>4
    <3>2. /\ call[accepted[s][i]].via = s /\ call[accepted[s][i]].user = owner[s]
          /\ call[accepted[s][i]].phase = "done"
      BY <2>8 DEF Answers
    <3> QED BY <1>2, <2>3, <3>1, <3>2
  <2>12. /\ DOMAIN Append(accepted[s], c) = 1..(Len(accepted[s]) + 1)
         /\ DOMAIN accepted[s] = 1..Len(accepted[s]) /\ Len(accepted[s]) \in Nat
         /\ \A i \in 1..Len(accepted[s]) : Append(accepted[s], c)[i] = accepted[s][i]
         /\ Append(accepted[s], c)[Len(accepted[s]) + 1] = c
    BY <2>4, AppendProperties
  <2>13. IsInjective(Append(accepted[s], c))
    <3> SUFFICES ASSUME NEW i \in 1..(Len(accepted[s]) + 1), NEW j \in 1..(Len(accepted[s]) + 1),
                        Append(accepted[s], c)[i] = Append(accepted[s], c)[j]
                 PROVE  i = j
      BY <2>12 DEF IsInjective
    <3>1. CASE i \in DOMAIN accepted[s] /\ j \in DOMAIN accepted[s]
      BY <2>8, <2>12, <3>1 DEF Answers, IsInjective
    <3>2. CASE i \notin DOMAIN accepted[s] /\ j \in DOMAIN accepted[s]
      <4>1. i = Len(accepted[s]) + 1 BY <2>12, <3>2
      <4> QED BY <2>11, <2>12, <3>2, <4>1
    <3>3. CASE i \in DOMAIN accepted[s] /\ j \notin DOMAIN accepted[s]
      <4>1. j = Len(accepted[s]) + 1 BY <2>12, <3>3
      <4> QED BY <2>11, <2>12, <3>3, <4>1
    <3>4. CASE i \notin DOMAIN accepted[s] /\ j \notin DOMAIN accepted[s]
      BY <2>12, <3>4
    <3> QED BY <3>1, <3>2, <3>3, <3>4
  <2>14. \A i \in DOMAIN Append(accepted[s], c) :
           LET d == Append(accepted[s], c)[i]
           IN  call'[d].via = s /\ call'[d].user = owner[s] /\ call'[d].phase = "done"
    <3> TAKE i \in DOMAIN Append(accepted[s], c)
    <3>1. CASE i \in DOMAIN accepted[s] BY <2>11, <2>12, <3>1
    <3>2. CASE i \notin DOMAIN accepted[s]
      <4>1. i = Len(accepted[s]) + 1 BY <2>12, <3>2
      <4> QED BY <2>6, <2>12, <4>1
    <3> QED BY <3>1, <3>2
  <2>15. Answers(s)' BY <1>3, <2>7, <2>10, <2>13, <2>14 DEF Answers
  <2>16. ASSUME NEW t \in Streams \ {s} PROVE Answers(t)'
    BY <1>2, <1>3, <2>9, AnswersKept DEF AnswerInv
  <2> QED BY <1>4, <2>15, <2>16 DEF AnswerInv
<1> QED BY <1>5, <1>6

LEMMA AnswerInvStep ==
  ASSUME StreamType, CallType, AnswerInv, Next PROVE AnswerInv'
<1>1. ASSUME NEW s \in Streams, StreamStep(s) PROVE AnswerInv'
  <2>1. ASSUME FirstEvent(s) \/ Enter(s) \/ Leave(s) \/ Abandon(s) PROVE AnswerInv'
    <3>1. /\ UNCHANGED <<owner, queue, delivered, accepted, call>>
          /\ \E t \in {"first", "open", "over", "stray"} : stream' = [stream EXCEPT ![s] = t]
      BY <2>1 DEF FirstEvent, Enter, Leave, Abandon, Moves
    <3>2. \A t \in Streams : stream[t] # "new" => stream'[t] # "new"
      BY <3>1 DEF StreamType
    <3>3. Opened' BY <3>1, <3>2 DEF AnswerInv, Opened
    <3> QED BY <3>1, <3>3, AnswersKept DEF AnswerInv
  <2> QED BY <1>1, <2>1, ConnectAnswers, DeliverAnswers DEF StreamStep
<1>2. ASSUME NEW c \in Calls, CallStep(c), ~ReadHint(c) PROVE AnswerInv' BY <1>2, CallAnswers
<1>3. ASSUME UNCHANGED <<stream, owner, queue, delivered, accepted, call>> PROVE AnswerInv'
  BY <1>3, AnswersKept DEF AnswerInv, Opened
<1>4. ASSUME \/ \E j \in Jobs : JobEnds(j)
             \/ \E u \in Users : EditElsewhere(u) \/ Revoke(u)
             \/ Tick
      PROVE  UNCHANGED <<stream, owner, queue, delivered, accepted, call>>
  BY <1>4 DEF JobEnds, EditElsewhere, Revoke, Tick, sseVars
<1>5. ASSUME NEW c \in Calls, ReadHint(c)
      PROVE  UNCHANGED <<stream, owner, queue, delivered, accepted, call>>
  BY <1>5 DEF ReadHint, sseVars
<1> QED BY <1>1, <1>2, <1>3, <1>4, <1>5 DEF Next

-----------------------------------------------------------------------------
(* Slots.                                                                   *)

\* The slots in use are few enough to be counted, and a stream has sent nothing
\* before it has entered its try.
SlotInv ==
    /\ IsFiniteSet(Registered) /\ Cardinality(Registered) <= MaxSessions
    /\ \A s \in Streams :
          stream[s] \in {"new", "registered", "first", "stray"} => delivered[s] = <<>>

LEMMA FewerSlots ==
  ASSUME SlotInv, Registered' \subseteq Registered
  PROVE  IsFiniteSet(Registered') /\ Cardinality(Registered') <= MaxSessions
<1>1. PICK S : S = Registered' OBVIOUS
<1>2. IsFiniteSet(Registered) /\ Cardinality(Registered) <= MaxSessions BY DEF SlotInv
<1>3. S \in SUBSET Registered BY <1>1
<1>4. IsFiniteSet(S) /\ Cardinality(S) <= Cardinality(Registered)
  BY <1>2, <1>3, FS_Subset
<1>5. Cardinality(S) \in Nat /\ Cardinality(Registered) \in Nat
  BY <1>2, <1>4, FS_CardinalityType
<1> QED BY <1>1, <1>2, <1>4, <1>5, McpAssumption

LEMMA SlotInvStep ==
  ASSUME StreamType, SlotInv, Next PROVE SlotInv'
<1>1. ASSUME NEW s \in Streams, StreamStep(s) PROVE SlotInv'
  <2>1. ASSUME NEW u \in Users, Connect(s, u) PROVE SlotInv'
    <3>1. /\ stream[s] = "new" /\ stream' = [stream EXCEPT ![s] = "registered"]
          /\ Cardinality(Registered) < MaxSessions /\ UNCHANGED delivered
      BY <2>1 DEF Connect
    <3>2. Registered' = Registered \cup {s} BY <3>1 DEF Registered, StreamType
    <3>3. s \notin Registered BY <3>1 DEF Registered
    <3>4. IsFiniteSet(Registered) BY DEF SlotInv
    <3>5. PICK S : S = Registered OBVIOUS
    <3>6. IsFiniteSet(S \cup {s}) /\ Cardinality(S \cup {s}) = Cardinality(S) + 1
      BY <3>3, <3>4, <3>5, FS_AddElement
    <3>7. Cardinality(S) \in Nat BY <3>4, <3>5, FS_CardinalityType
    <3>8. Cardinality(Registered') <= MaxSessions /\ IsFiniteSet(Registered')
      BY <3>1, <3>2, <3>5, <3>6, <3>7, McpAssumption
    <3>9. \A t \in Streams :
             stream'[t] \in {"new", "registered", "first", "stray"} => delivered'[t] = <<>>
      BY <3>1 DEF SlotInv, StreamType
    <3> QED BY <3>8, <3>9 DEF SlotInv
  <2>2. ASSUME FirstEvent(s) \/ Enter(s) \/ Leave(s) \/ Abandon(s) PROVE SlotInv'
    <3>1. /\ UNCHANGED delivered
          /\ \/ stream[s] \in {"registered", "first"} /\ stream' = [stream EXCEPT ![s] = "first"]
             \/ stream[s] \in {"registered", "first"} /\ stream' = [stream EXCEPT ![s] = "stray"]
             \/ stream[s] = "first" /\ stream' = [stream EXCEPT ![s] = "open"]
             \/ stream[s] = "open" /\ stream' = [stream EXCEPT ![s] = "over"]
      BY <2>2 DEF FirstEvent, Enter, Leave, Abandon, Moves
    <3>2. Registered' \subseteq Registered BY <3>1 DEF Registered, StreamType
    <3>3. IsFiniteSet(Registered') /\ Cardinality(Registered') <= MaxSessions
      BY <3>2, FewerSlots
    <3>4. \A t \in Streams :
             stream'[t] \in {"new", "registered", "first", "stray"} => delivered'[t] = <<>>
      BY <3>1 DEF SlotInv, StreamType
    <3> QED BY <3>3, <3>4 DEF SlotInv
  <2>3. ASSUME Deliver(s) PROVE SlotInv'
    <3>1. stream[s] = "open" /\ UNCHANGED stream
          /\ \A t \in Streams \ {s} : delivered'[t] = delivered[t]
      BY <2>3 DEF Deliver, StreamType
    <3>2. Registered' = Registered BY <3>1 DEF Registered
    <3> QED BY <3>1, <3>2, FewerSlots DEF SlotInv
  <2> QED BY <1>1, <2>1, <2>2, <2>3 DEF StreamStep
<1>2. ASSUME UNCHANGED <<stream, delivered>> PROVE SlotInv'
  BY <1>2, FewerSlots DEF SlotInv, Registered
<1>3. ASSUME NEW c \in Calls, Answer(c) PROVE UNCHANGED <<stream, delivered>>
  BY <1>3 DEF Answer
<1>4. CASE UNCHANGED sseVars BY <1>2, <1>4 DEF sseVars
<1> QED BY <1>1, <1>2, <1>3, <1>4, SseFrame

-----------------------------------------------------------------------------
(* Instructions.                                                            *)

\* An entry that differs from the instructions is known to be out of date since a
\* time after it was made; none is from the future, nor is a read in progress.
HintInv ==
  /\ reading # NoHint => /\ reading.at # Never /\ reading.at <= clock
                         /\ reading.version \in 0..MaxEdits
  /\ \A u \in Users :
        /\ since[u] # Never =>
              cache[u].at # Never /\ cache[u].at <= since[u] /\ since[u] <= clock
        /\ cache[u].at # Never =>
              /\ cache[u].at <= clock
              /\ cache[u].version # text[u] => since[u] # Never

LEMMA HintStep ==
  ASSUME clock \in Times, CallType, HintType, HintInv, Next PROVE (HintType /\ HintInv)'
<1> USE Fields, McpAssumption
<1>0. Times \subseteq Nat /\ Never \notin Times BY DEF Times
<1>1. ASSUME NEW c \in Calls, StoreHint(c) PROVE (HintType /\ HintInv)'
  <2>1. PICK u : u = call[c].user OBVIOUS
  <2>2. turn = c /\ reading # NoHint /\ reading' = NoHint /\ UNCHANGED <<clock, text>>
    BY <1>1 DEF StoreHint, Finishes
  <2>3. u \in Users BY <2>1, <2>2 DEF CallType
  <2>4. PICK v \in (reading.version..text[u]) \cup {Broken} :
          /\ cache' = [cache EXCEPT ![u] = Hint(reading.at, v)]
          /\ since' = [since EXCEPT ![u] = IF v = text[u] THEN Never ELSE reading.at]
    BY <1>1, <2>1 DEF StoreHint
  <2>5. /\ reading.at \in Times /\ reading.at <= clock /\ reading.version \in 0..MaxEdits
        /\ text[u] \in 0..MaxEdits
    BY <2>2, <2>3 DEF HintType, HintInv
  <2>6. v \in (0..MaxEdits) \cup {Broken} BY <2>4, <2>5
  <2>7. PICK h : h = Hint(reading.at, v) OBVIOUS
  <2>8. h \in HintSet /\ h.at = reading.at /\ h.version = v
    BY <2>5, <2>6, <2>7, HintFields
  <2>9. PICK w : w = IF v = text[u] THEN Never ELSE reading.at OBVIOUS
  <2>10. cache' = [cache EXCEPT ![u] = h] /\ since' = [since EXCEPT ![u] = w]
    BY <2>4, <2>7, <2>9
  <2>11. w \in Times \cup {Never} BY <2>5, <2>9
  <2>12. NoHint \in HintSet BY HintFields, <1>0 DEF NoHint
  <2>13. HintType' BY <2>2, <2>3, <2>8, <2>10, <2>11, <2>12 DEF HintType
  <2>14. ASSUME NEW x \in Users
         PROVE  /\ since'[x] # Never =>
                      cache'[x].at # Never /\ cache'[x].at <= since'[x] /\ since'[x] <= clock
                /\ cache'[x].at # Never =>
                      cache'[x].at <= clock /\ (cache'[x].version # text[x] => since'[x] # Never)
    <3>1. CASE x = u
      <4>1. cache'[u] = h BY <2>3, <2>10 DEF HintType
      <4>2. since'[u] = w BY <2>3, <2>10 DEF HintType
      <4>3. PICK n : n = reading.at OBVIOUS
      <4>4. n \in Times /\ n <= clock BY <2>5, <4>3
      <4>5. n \in Nat /\ n # Never BY <1>0, <4>4
      <4>6. n <= n BY <4>5
      <4>7. h.at \in Nat /\ h.at # Never /\ h.at <= h.at BY <2>8, <4>3, <4>5, <4>6
      <4>8. w # Never => w = h.at BY <2>8, <2>9
      <4>9. v # text[u] => w # Never BY <1>0, <2>5, <2>9
      <4>10. w # Never => h.at <= w /\ w <= clock BY <2>5, <2>8, <4>7, <4>8
      <4>11. h.at <= clock BY <2>5, <2>8
      <4> QED BY <2>8, <3>1, <4>1, <4>2, <4>7, <4>9, <4>10, <4>11
    <3>2. CASE x # u
      <4>1. cache'[x] = cache[x] /\ since'[x] = since[x] BY <2>10, <3>2 DEF HintType
      <4> QED BY <4>1 DEF HintInv
    <3> QED BY <3>1, <3>2
  <2> QED BY <2>2, <2>13, <2>14 DEF HintInv
<1>7. ASSUME NEW c \in Calls, ReadHint(c) PROVE (HintType /\ HintInv)'
  <2>1. PICK u : u = call[c].user OBVIOUS
  <2>2. /\ turn = c /\ reading' = Hint(clock, text[u])
        /\ UNCHANGED <<clock, text, cache, since>>
    BY <1>7, <2>1 DEF ReadHint
  <2>3. u \in Users BY <2>1, <2>2 DEF CallType
  <2>4. text[u] \in 0..MaxEdits BY <2>3 DEF HintType
  <2>5. /\ reading' \in HintSet /\ reading'.at = clock /\ reading'.version = text[u]
    BY <2>2, <2>4, HintFields
  <2>6. clock # Never /\ clock <= clock BY <1>0
  <2>7. HintType' BY <2>2, <2>5 DEF HintType
  <2> QED BY <2>2, <2>4, <2>5, <2>6, <2>7 DEF HintInv
<1>2. ASSUME NEW c \in Calls, WriteHint(c) PROVE (HintType /\ HintInv)'
  <2>1. call[c].user \in Users BY <1>2 DEF WriteHint, Handles, Finishes, CallType
  <2>2. /\ cache' = [u \in Users |-> NoHint] /\ since' = [u \in Users |-> Never]
        /\ Edited(call[c].user) /\ UNCHANGED <<clock, reading>>
    BY <1>2 DEF WriteHint, Clears, Handles, Finishes
  <2>3. NoHint \in HintSet /\ NoHint.at = Never BY HintFields, <1>0 DEF NoHint
  <2>4. text' \in [Users -> 0..MaxEdits] BY <2>1, <2>2 DEF Edited, HintType
  <2> QED BY <2>2, <2>3, <2>4 DEF HintType, HintInv
<1>3. ASSUME NEW u \in Users, Edited(u), Outdated(u), UNCHANGED clock
      PROVE  (HintType /\ HintInv)'
  <2>1. /\ text' = [text EXCEPT ![u] = text[u] + 1] /\ text[u] < MaxEdits
        /\ UNCHANGED <<cache, reading>>
        /\ since' = [since EXCEPT ![u] =
                        IF cache[u].at # Never /\ since[u] = Never THEN clock ELSE since[u]]
    BY <1>3 DEF Edited, Outdated
  <2>2. text' \in [Users -> 0..MaxEdits] BY <2>1 DEF HintType
  <2>3. HintType' BY <2>1, <2>2 DEF HintType
  <2>4. ASSUME NEW v \in Users
        PROVE  /\ since'[v] # Never =>
                     cache[v].at # Never /\ cache[v].at <= since'[v] /\ since'[v] <= clock
               /\ cache[v].at # Never =>
                     cache[v].at <= clock /\ (cache[v].version # text'[v] => since'[v] # Never)
    <3>1. CASE v = u
      <4>1. since'[u] = (IF cache[u].at # Never /\ since[u] = Never THEN clock ELSE since[u])
        BY <2>1 DEF HintType
      <4> QED BY <1>0, <3>1, <4>1 DEF HintInv
    <3>2. CASE v # u BY <2>1, <3>2 DEF HintType, HintInv
    <3> QED BY <3>1, <3>2
  <2> QED BY <1>3, <2>1, <2>3, <2>4 DEF HintInv
<1>4. ASSUME NEW c \in Calls, WriteUncleared(c) PROVE (HintType /\ HintInv)'
  <2>1. call[c].user \in Users BY <1>4 DEF WriteUncleared, Handles, Finishes, CallType
  <2> QED BY <1>3, <1>4, <2>1 DEF WriteUncleared, Handles, Finishes
<1>5. ASSUME NEW u \in Users, EditElsewhere(u) PROVE (HintType /\ HintInv)'
  BY <1>3, <1>5 DEF EditElsewhere
<1>6. CASE UNCHANGED hintVars
  <2>1. HintType' BY <1>6 DEF hintVars, HintType
  <2>2. clock' \in Times /\ clock <= clock' BY ClockFrame
  <2>3. ASSUME NEW u \in Users, since[u] # Never PROVE since[u] <= clock'
    <3>1. since[u] \in Nat /\ clock \in Nat /\ clock' \in Nat BY <1>0, <2>2, <2>3 DEF HintType
    <3> QED BY <2>2, <2>3, <3>1 DEF HintInv
  <2>4. ASSUME NEW u \in Users, cache[u].at # Never PROVE cache[u].at <= clock'
    <3>1. cache[u].at \in Nat /\ clock \in Nat /\ clock' \in Nat BY <1>0, <2>2, <2>4 DEF HintType
    <3> QED BY <2>2, <2>4, <3>1 DEF HintInv
  <2>5. reading # NoHint => reading.at <= clock'
    <3>1. reading # NoHint => reading.at \in Nat /\ clock \in Nat /\ clock' \in Nat
      BY <1>0, <2>2 DEF HintType, HintInv
    <3> QED BY <2>2, <3>1 DEF HintInv
  <2> QED BY <1>6, <2>1, <2>3, <2>4, <2>5 DEF hintVars, HintInv
<1> QED BY <1>1, <1>2, <1>4, <1>5, <1>6, <1>7, HintFrame

LEMMA HintInvImplies ==
  ASSUME clock \in Times, HintType, HintInv PROVE HintFresh
<1> SUFFICES ASSUME NEW u \in Users, Served(u) # text[u]
             PROVE  since[u] # Never /\ clock - since[u] < CacheTTL
  BY DEF HintFresh
<1>1. cache[u].at # Never /\ clock - cache[u].at < CacheTTL /\ cache[u].version # text[u]
  BY DEF Served, Cached
<1>2. since[u] # Never /\ cache[u].at <= since[u] BY <1>1 DEF HintInv
<1>3. since[u] \in Nat /\ cache[u].at \in Nat /\ clock \in Nat /\ CacheTTL \in Nat
  BY <1>1, <1>2, Fields, McpAssumption DEF HintType, Times
<1> QED BY <1>1, <1>2, <1>3

-----------------------------------------------------------------------------
(* Grep jobs.                                                               *)

\* The table keeps to its cap, so that the cut in _prune_grep_jobs has nothing to
\* remove but results whose time is over.
JobInv ==
    /\ JobsKept
    /\ IsFiniteSet(InTable(job)) /\ Cardinality(InTable(job)) <= JobsMax
    /\ \A p \in shown : job[p[2]].status # "none"

Expired == {j \in Jobs : job[j].status = "completed" /\ clock - job[j].created > JobTTL}

\* What is left of the table after pruning.
LEMMA PruneOutcome ==
  ASSUME JobType, JobInv, clock \in Times, NEW b \in Prunes(job)
  PROVE  /\ b = Drop(job, Expired) /\ b \in [Jobs -> JobSet]
         /\ IsFiniteSet(InTable(b)) /\ Cardinality(InTable(b)) <= JobsMax
         /\ \A j \in Jobs : /\ b[j].who = job[j].who /\ b[j].created = job[j].created
                            /\ b[j].status = IF j \in Expired THEN "gone" ELSE job[j].status
<1> DEFINE rest == Drop(job, Expired)
<1>1. ASSUME NEW j \in Jobs
      PROVE  /\ rest[j] \in JobSet
             /\ rest[j].who = job[j].who /\ rest[j].created = job[j].created
             /\ rest[j].status = IF j \in Expired THEN "gone" ELSE job[j].status
  <2>1. job[j] \in JobSet /\ job[j].who \in Callers /\ job[j].created \in Times
    BY Fields DEF JobType
  <2>2. CASE j \in Expired
    <3>1. rest[j] = Job("gone", job[j].who, job[j].created) BY <2>2 DEF Drop
    <3> QED BY <2>1, <2>2, <3>1, JobFields
  <2>3. CASE j \notin Expired
    <3>1. rest[j] = job[j] BY <2>3 DEF Drop
    <3> QED BY <2>1, <2>3, <3>1
  <2> QED BY <2>2, <2>3
<1>2. rest \in [Jobs -> JobSet] BY <1>1 DEF Drop
<1>3. InTable(rest) \subseteq InTable(job) BY <1>1 DEF InTable
<1>4. PICK S, T : S = InTable(job) /\ T = InTable(rest) OBVIOUS
<1>5. IsFiniteSet(S) /\ Cardinality(S) <= JobsMax BY <1>4 DEF JobInv
<1>6. T \in SUBSET S BY <1>3, <1>4
<1>7. IsFiniteSet(T) /\ Cardinality(T) <= Cardinality(S) BY <1>5, <1>6, FS_Subset
<1>8. Cardinality(T) \in Nat /\ Cardinality(S) \in Nat BY <1>5, <1>7, FS_CardinalityType
<1>9. IsFiniteSet(InTable(rest)) /\ Cardinality(InTable(rest)) <= JobsMax
  BY <1>4, <1>5, <1>7, <1>8, McpAssumption
<1>10. Prunes(job) = {rest} BY <1>9 DEF Prunes, Expired
<1>11. b = rest BY <1>10
<1> QED BY <1>1, <1>2, <1>9, <1>11

\* Pruning alone keeps the jobs: only results whose time is over are gone.
LEMMA PruneKeeps ==
  ASSUME JobType, JobInv, clock \in Times, NEW b \in Prunes(job)
  PROVE  /\ \A j \in tasks : b[j].status = "running"
         /\ \A j \in Jobs \ tasks :
               \/ b[j].status \in {"none", "completed"}
               \/ b[j].status = "gone" /\ clock - b[j].created > JobTTL
         /\ \A p \in shown : b[p[2]].who = p[1] /\ b[p[2]].status # "none"
<1>1. \A j \in Jobs : /\ b[j].who = job[j].who /\ b[j].created = job[j].created
                      /\ b[j].status = IF j \in Expired THEN "gone" ELSE job[j].status
  BY PruneOutcome
<1>2. \A j \in tasks : j \in Jobs /\ job[j].status = "running" /\ j \notin Expired
  BY DEF JobType, JobInv, JobsKept, Expired
<1>3. \A p \in shown : p[2] \in Jobs /\ job[p[2]].who = p[1] /\ job[p[2]].status # "none"
  BY DEF JobType, JobInv, JobsKept
<1>4. ASSUME NEW j \in Jobs \ tasks
      PROVE  \/ b[j].status \in {"none", "completed"}
             \/ b[j].status = "gone" /\ clock - b[j].created > JobTTL
  <2>1. CASE j \in Expired BY <1>1, <2>1 DEF Expired
  <2>2. CASE j \notin Expired BY <1>1, <2>2 DEF JobInv, JobsKept
  <2> QED BY <2>1, <2>2
<1> QED BY <1>1, <1>2, <1>3, <1>4

LEMMA StartKeeps ==
  ASSUME JobType, JobInv, CallType, clock \in Times,
         NEW c \in Calls, NEW j \in Jobs, StartJob(c, j)
  PROVE  (JobType /\ JobInv)'
<1>1. call[c].user \in Users /\ UNCHANGED <<clock, shown>> /\ job[j].status = "none"
  BY DEF StartJob, Handles, Finishes, CallType
<1>2. PICK b \in Prunes(job) :
        IF Full(b) THEN job' = b /\ UNCHANGED tasks
        ELSE /\ job' = [b EXCEPT ![j] = Job("running", call[c].user, clock)]
             /\ tasks' = tasks \cup {j}
  BY DEF StartJob
<1>3. /\ b \in [Jobs -> JobSet] /\ IsFiniteSet(InTable(b))
      /\ Cardinality(InTable(b)) <= JobsMax
      /\ b[j].status = "none"
  BY <1>1, PruneOutcome DEF Expired
<1>4. CASE Full(b)
  <2>1. job' = b /\ UNCHANGED tasks BY <1>2, <1>4
  <2> QED BY <1>1, <1>3, <2>1, PruneKeeps DEF JobType, JobInv, JobsKept
<1>5. CASE ~Full(b)
  <2>1. PICK r : r = Job("running", call[c].user, clock) OBVIOUS
  <2>2. job' = [b EXCEPT ![j] = r] /\ tasks' = tasks \cup {j} BY <1>2, <1>5, <2>1
  <2>3. r \in JobSet /\ r.status = "running" BY <1>1, <2>1, JobFields DEF Callers
  <2>4. JobType' BY <1>1, <1>3, <2>2, <2>3 DEF JobType
  <2>5. InTable(job') = InTable(b) \cup {j} BY <1>3, <2>2, <2>3 DEF InTable
  <2>6. j \notin InTable(b) BY <1>3 DEF InTable
  <2>7. PICK S : S = InTable(b) OBVIOUS
  <2>8. IsFiniteSet(S \cup {j}) /\ Cardinality(S \cup {j}) = Cardinality(S) + 1
    BY <1>3, <2>6, <2>7, FS_AddElement
  <2>9. Cardinality(S) \in Nat /\ Cardinality(S) < JobsMax
    BY <1>3, <1>5, <2>7, FS_CardinalityType, McpAssumption DEF Full
  <2>10. IsFiniteSet(InTable(job')) /\ Cardinality(InTable(job')) <= JobsMax
    BY <2>5, <2>7, <2>8, <2>9, McpAssumption
  <2>11. \A p \in shown : p[2] \in Jobs /\ p[2] # j
    BY <1>3, PruneKeeps DEF JobType
  <2>12. JobsKept' /\ \A p \in shown : job'[p[2]].status # "none"
    BY <1>1, <1>3, <2>2, <2>3, <2>11, PruneKeeps DEF JobsKept, JobType
  <2> QED BY <1>1, <2>4, <2>10, <2>12 DEF JobInv
<1> QED BY <1>4, <1>5

LEMMA PollKeeps ==
  ASSUME JobType, JobInv, CallType, clock \in Times,
         NEW c \in Calls, NEW j \in Jobs, Poll(c, j)
  PROVE  (JobType /\ JobInv)'
<1>1. call[c].user \in Users /\ UNCHANGED <<clock, tasks>>
  BY DEF Poll, Handles, Finishes, CallType
<1>2. PICK b \in Prunes(job) :
        /\ job' = b
        /\ shown' = IF b[j].status = "completed" /\ b[j].who = call[c].user
                    THEN shown \cup {<<call[c].user, j>>} ELSE shown
  BY DEF Poll
<1>3. /\ b \in [Jobs -> JobSet] /\ IsFiniteSet(InTable(b))
      /\ Cardinality(InTable(b)) <= JobsMax
  BY PruneOutcome
<1>4. JobType' BY <1>1, <1>2, <1>3 DEF JobType
<1>5. \A p \in shown' : b[p[2]].who = p[1] /\ b[p[2]].status # "none"
  BY <1>2, PruneKeeps
<1> QED BY <1>1, <1>2, <1>3, <1>4, <1>5, PruneKeeps DEF JobInv, JobsKept

LEMMA EndKeeps ==
  ASSUME JobType, JobInv, clock \in Times, NEW j \in Jobs, JobEnds(j)
  PROVE  (JobType /\ JobInv)'
<1>1. j \in tasks /\ tasks' = tasks \ {j} /\ UNCHANGED <<clock, shown>> BY DEF JobEnds
<1>2. job[j].status = "running" /\ j \in InTable(job)
  BY <1>1 DEF JobInv, JobsKept, InTable
<1>3. PICK r : r = Job("completed", job[j].who, job[j].created) OBVIOUS
<1>4. job' = [job EXCEPT ![j] = r] BY <1>2, <1>3 DEF JobEnds
<1>5. job[j].who \in Callers /\ job[j].created \in Times BY Fields DEF JobType
<1>6. /\ r \in JobSet /\ r.status = "completed" /\ r.who = job[j].who
      /\ r.created = job[j].created
  BY <1>3, <1>5, JobFields
<1>7. JobType' BY <1>1, <1>4, <1>6 DEF JobType
<1>8. InTable(job') = InTable(job) BY <1>2, <1>4, <1>6 DEF InTable, JobType
<1>9. ASSUME NEW p \in shown PROVE job'[p[2]].who = p[1] /\ job'[p[2]].status # "none"
  <2>1. p[2] \in Jobs BY DEF JobType
  <2> QED BY <1>4, <1>6, <2>1 DEF JobInv, JobsKept, JobType
<1>10. \A k \in tasks' : job'[k].status = "running"
  BY <1>1, <1>4 DEF JobInv, JobsKept, JobType
<1>11. \A k \in Jobs \ tasks' :
         \/ job'[k].status \in {"none", "completed"}
         \/ job'[k].status = "gone" /\ clock - job'[k].created > JobTTL
  BY <1>1, <1>4, <1>6 DEF JobInv, JobsKept, JobType
<1>12. JobsKept' BY <1>1, <1>9, <1>10, <1>11 DEF JobsKept
<1> QED BY <1>1, <1>7, <1>8, <1>9, <1>12 DEF JobInv

LEMMA JobStep ==
  ASSUME clock \in Times, CallType, JobType, JobInv, Next PROVE (JobType /\ JobInv)'
<1>1. CASE UNCHANGED jobVars
  <2>1. job' = job /\ tasks' = tasks /\ shown' = shown BY <1>1 DEF jobVars
  <2>2. clock' \in Times /\ clock <= clock' BY ClockFrame
  <2>3. ASSUME NEW j \in Jobs \ tasks
        PROVE  \/ job[j].status \in {"none", "completed"}
               \/ job[j].status = "gone" /\ clock' - job[j].created > JobTTL
    <3>1. /\ job[j].created \in Nat /\ clock \in Nat /\ clock' \in Nat /\ JobTTL \in Nat
      BY <2>2, Fields, McpAssumption DEF JobType, Times
    <3> QED BY <2>2, <3>1 DEF JobInv, JobsKept
  <2>4. JobsKept' BY <2>1, <2>3 DEF JobInv, JobsKept
  <2> QED BY <2>1, <2>4 DEF JobType, JobInv
<1> QED BY <1>1, StartKeeps, PollKeeps, EndKeeps, JobFrame

-----------------------------------------------------------------------------
(* The inductive invariant and what it gives.                               *)

Inv == TypeOK /\ AnswerInv /\ SlotInv /\ JobInv /\ HintInv

LEMMA Initially == Init => Inv
<1> SUFFICES ASSUME Init PROVE Inv
  OBVIOUS
<1>1. NoCall \in CallSet /\ NoCall.phase = "new" /\ NoCall.via = Http
  BY McpAssumption DEF NoCall, Call, CallSet
<1>2. NoJob \in JobSet /\ NoJob.status = "none"
  BY JobFields, McpAssumption DEF NoJob, Callers, Times
<1>3. NoHint \in HintSet /\ NoHint.at = Never
  BY HintFields, McpAssumption DEF NoHint, Times
<1>4. clock \in Times BY McpAssumption DEF Init, Times
<1>5. StreamType BY DEF Init, StreamType, Callers
<1>6. CallType BY <1>1, McpAssumption DEF Init, CallType
<1>7. JobType BY <1>2 DEF Init, JobType
<1>8. HintType BY <1>3, McpAssumption DEF Init, HintType
<1>9. AnswerInv
  <2>1. Opened BY <1>1 DEF Init, Opened
  <2>2. ASSUME NEW s \in Streams PROVE Answers(s)
    <3>1. delivered[s] = <<>> /\ queue[s] = <<>> /\ accepted[s] = <<>> BY DEF Init
    <3>2. <<>> \o <<>> = <<>> /\ DOMAIN <<>> = {} OBVIOUS
    <3> QED BY <3>1, <3>2 DEF Answers, IsInjective
  <2> QED BY <2>1, <2>2 DEF AnswerInv
<1>10. SlotInv
  <2>1. Registered = {} BY DEF Init, Registered
  <2>2. \A s \in Streams : delivered[s] = <<>> BY DEF Init
  <2> QED BY <2>1, <2>2, FS_EmptySet, McpAssumption DEF SlotInv
<1>11. JobInv
  <2>1. InTable(job) = {} BY <1>2 DEF Init, InTable
  <2>2. JobsKept BY <1>2 DEF Init, JobsKept
  <2>3. shown = {} BY DEF Init
  <2> QED BY <2>1, <2>2, <2>3, FS_EmptySet, McpAssumption DEF JobInv
<1>12. HintInv BY <1>3 DEF Init, HintInv
<1> QED BY <1>4, <1>5, <1>6, <1>7, <1>8, <1>9, <1>10, <1>11, <1>12, TypeParts DEF Inv

LEMMA Preserved == Inv /\ [Next]_vars => Inv'
<1> SUFFICES ASSUME Inv, [Next]_vars PROVE Inv'
  OBVIOUS
<1>1. clock \in Times /\ StreamType /\ CallType /\ JobType /\ HintType
  BY TypeParts DEF Inv
<1>2. CASE Next
  <2>1. clock' \in Times BY <1>1, <1>2, ClockFrame
  <2>2. StreamType' BY <1>1, <1>2, StreamTypeStep
  <2>3. CallType' BY <1>1, <1>2, CallTypeStep
  <2>4. AnswerInv' BY <1>1, <1>2, AnswerInvStep DEF Inv
  <2>5. SlotInv' BY <1>1, <1>2, SlotInvStep DEF Inv
  <2>6. (JobType /\ JobInv)' BY <1>1, <1>2, JobStep DEF Inv
  <2>7. (HintType /\ HintInv)' BY <1>1, <1>2, HintStep DEF Inv
  <2>8. TypeOK'
    BY <2>1, <2>2, <2>3, <2>6, <2>7
       DEF TypeOK, StreamType, CallType, JobType, HintType, Callers
  <2> QED BY <2>4, <2>5, <2>6, <2>7, <2>8 DEF Inv
<1>3. CASE UNCHANGED vars
  BY <1>3 DEF vars, Inv, TypeOK, AnswerInv, Opened, Answers, IsInjective, SlotInv,
     Registered, JobInv, JobsKept, InTable, HintInv
<1> QED BY <1>2, <1>3

LEMMA Invariance == Spec => []Inv
BY Initially, Preserved, PTL DEF Spec

\* TypeOK in every state; with it, that only the call that has the event loop runs.
THEOREM TypeCorrect == Spec => []TypeOK
<1>1. Inv => TypeOK BY DEF Inv
<1> QED BY <1>1, Invariance, PTL

\* AnswersAccounted in every state: what POST /mcp/messages has accepted is on the
\* stream or in the queue of its own session, once and in order
\* (mcp_server.py:2816-2826), for queues and batches of any size.
THEOREM AnswersReachTheirSession == Spec => []AnswersAccounted
<1>1. Inv => AnswersAccounted BY DEF Inv, AnswerInv, Answers, AnswersAccounted
<1> QED BY <1>1, Invariance, PTL

\* SlotsHold in every state: the limit on SSE sessions holds, and only a stream that
\* has sent nothing can leave its slot taken (mcp_server.py:2765-2787).
THEOREM SlotsAreBounded == Spec => []SlotsHold
<1>1. Inv => SlotsHold BY DEF Inv, SlotInv, SlotsHold
<1> QED BY <1>1, Invariance, PTL

\* JobsKept in every state: for any cap the cut of the table never meets a running
\* job (mcp_tools/search.py:33-46 and 183).
THEOREM JobsAreKept == Spec => []JobsKept
<1>1. Inv => JobsKept BY DEF Inv, JobInv
<1> QED BY <1>1, Invariance, PTL

\* HintFresh in every state: cached instructions that are not those of the files come
\* from a change past the clearing (mcp_tools/fileutil.py:157-160), a change during
\* the reads or a failed read (mcp_server.py:2351-2357), and are served for less than
\* the lifetime of an entry after it, whatever the lifetime and the order of calls.
THEOREM InstructionsAreFresh == Spec => []HintFresh
<1>1. Inv => HintFresh BY TypeParts, HintInvImplies DEF Inv
<1> QED BY <1>1, Invariance, PTL
=============================================================================
