--------------------------- MODULE AgentLoopProofs ---------------------------
(***************************************************************************)
(* Safety of AgentLoop, for any number of messages, runs, turns, attempts  *)
(* and tool calls, and of RpcServer, which extends it.                     *)
(***************************************************************************)
EXTENDS RpcServer, TLAPS

(* Where the loop is within an iteration, and within the tools of a turn. *)
InTurn  == {"append", "request", "retry", "delay", "tool", "execute", "poll", "skip", "stop"}
InTools == {"tool", "execute", "poll", "skip"}

(* What the control flow of runLoop guarantees the steps that count. *)
Control ==
  /\ pc = "prompt" => prompt # 0
  /\ pc \in InTurn => turn < MaxTurns
  /\ pc \in InTools => call >= 1
  /\ pc \in {"execute", "poll"} => call <= calls

LoopInv == TypeOK /\ Control

-----------------------------------------------------------------------------
(* Dequeuing a queue that is not empty splits it in two sequences. *)
LEMMA SplitType ==
  ASSUME NEW S, NEW q \in Seq(S), q # <<>>, NEW n \in Taken(q)
  PROVE  SubSeq(q, 1, n) \in Seq(S) /\ SubSeq(q, n + 1, Len(q)) \in Seq(S)
<1>1. n \in 1..Len(q)
  BY DEF Taken
<1>2. \A i \in 1..Len(q) : q[i] \in S
  OBVIOUS
<1> QED BY <1>1, <1>2

(* The counters may start anew. *)
LEMMA Zeros ==
  /\ 0 \in 0..MaxMsgs /\ 0 \in 0..MaxRuns /\ 0 \in 0..MaxTurns
  /\ 0 \in 0..MaxAttempts /\ 0 \in 0..MaxCalls /\ 0 \in 0..(MaxCalls + 1)
BY LoopConstants

(* Queues, pending messages and session may be empty. *)
LEMMA EmptySeqs ==
  <<>> \in Seq(Msgs) /\ <<>> \in Seq(Items) /\ <<>> \in Seq({"prompt", "steer", "followUp"})
OBVIOUS

(* What the loop appends to the session is an item of it. *)
LEMMA ItemTypes ==
  /\ \A m \in Msgs : User(m) \in Items
  /\ \A n \in 0..MaxCalls : Assistant(n) \in Items
  /\ \A k \in 1..MaxCalls, s \in BOOLEAN : ToolResult(k, s) \in Items
BY DEF Items

(* An item may be appended to the session. *)
LEMMA AppendItem ==
  ASSUME NEW s \in Seq(Items), NEW item \in Items PROVE Append(s, item) \in Seq(Items)
OBVIOUS

(* A return from runLoop keeps what it leaves alone well typed, and ends the turn. *)
LEMMA LeaveKeeps ==
  ASSUME LoopInv, NEW r \in Outcomes, Leave(r),
         prompt' \in 0..MaxMsgs, abortRetry' \in BOOLEAN, retryStopped' \in BOOLEAN,
         session' \in Seq(Items),
         UNCHANGED <<steering, followUp, abortRun, cancelled, turn, calls, call, histVars>>
  PROVE  LoopInv'
<1>1. /\ pc' = "exit" /\ outcome' \in Outcomes
      /\ pending' \in Seq(Msgs) /\ attempt' \in 0..MaxAttempts
  BY Zeros, EmptySeqs DEF Leave
<1> QED BY <1>1 DEF LoopInv, TypeOK, Control, InTurn, InTools, PCs, histVars

-----------------------------------------------------------------------------
(* Every reachable state is well typed and under the loop's control. *)
LEMMA LoopInvariant == Spec => []LoopInv
<1>1. Init => LoopInv
  <2> SUFFICES ASSUME Init PROVE LoopInv
    OBVIOUS
  <2>1. /\ steering \in Seq(Msgs) /\ followUp \in Seq(Msgs) /\ pending \in Seq(Msgs)
        /\ session \in Seq(Items) /\ kind \in Seq({"prompt", "steer", "followUp"})
    BY EmptySeqs DEF Init
  <2>2. Len(kind) <= MaxMsgs
    BY LoopConstants DEF Init
  <2>3. /\ pc = "idle" /\ outcome = "none"
        /\ abortRun = FALSE /\ cancelled = FALSE
        /\ abortRetry = FALSE /\ retryStopped = FALSE
        /\ prompt = 0 /\ turn = 0 /\ attempt = 0 /\ calls = 0 /\ call = 0
        /\ base = 0 /\ runs = 0 /\ cut = 0
    BY DEF Init
  <2> QED
    BY <2>1, <2>2, <2>3, Zeros DEF LoopInv, TypeOK, Control, InTurn, InTools, PCs, Outcomes
<1>2. LoopInv /\ [Next]_vars => LoopInv'
  <2> SUFFICES ASSUME LoopInv, [Next]_vars PROVE LoopInv'
    OBVIOUS
  <2> USE LoopConstants, Zeros, EmptySeqs, ItemTypes DEF LoopInv, TypeOK, Control, InTurn, InTools
  <2> USE DEF queueVars, abortVars, runVars, histVars
  <2>1. CASE Prompt
    BY <2>1 DEF Prompt, EnterRun, Accept, NewMsg, PCs, Outcomes
  <2>2. CASE Continue
    BY <2>2 DEF Continue, EnterRun, PCs, Outcomes
  <2>3. CASE Steer
    BY <2>3 DEF Steer, Accept, NewMsg, Msgs
  <2>4. CASE FollowUp
    BY <2>4 DEF FollowUp, Accept, NewMsg, Msgs
  <2>5. CASE Abort
    <3>1. Len(session) \in Nat /\ cut' \in Nat
      BY <2>5 DEF Abort
    <3>2. cancelled' \in BOOLEAN /\ retryStopped' \in BOOLEAN /\ abortRetry' \in BOOLEAN
      BY <2>5 DEF Abort
    <3>3. UNCHANGED <<abortRun, queueVars, runVars, session, base, runs, kind>>
      BY <2>5 DEF Abort
    <3> QED BY <3>1, <3>2, <3>3
  <2>6. CASE AbortRetry
    BY <2>6 DEF AbortRetry
  <2>7. CASE AppendPrompt
    <3>1. prompt \in Msgs
      BY <2>7 DEF AppendPrompt, Msgs
    <3>2. CASE session' = Append(session, User(prompt)) /\ pc' = "steering"
      BY <2>7, <3>1, <3>2 DEF AppendPrompt, PCs
    <3>3. CASE Leave("error") /\ UNCHANGED session
      BY <2>7, <3>3, LeaveKeeps DEF AppendPrompt, Outcomes
    <3> QED BY <2>7, <3>2, <3>3 DEF AppendPrompt
  <2>8. CASE TakeSteering
    <3>1. CASE steering # <<>>
      <4>1. PICK n \in Taken(steering) : Dequeue(steering, n)
        BY <2>8, <3>1 DEF TakeSteering
      <4>2. pending' \in Seq(Msgs) /\ steering' \in Seq(Msgs)
        BY <3>1, <4>1, SplitType DEF Dequeue
      <4> QED BY <2>8, <3>1, <4>2 DEF TakeSteering, PCs
    <3>2. CASE steering = <<>>
      BY <2>8, <3>2 DEF TakeSteering, PCs
    <3> QED BY <3>1, <3>2
  <2>9. CASE TakeFollowUp
    <3>1. CASE followUp # <<>> /\ LastRole = "assistant"
      <4>1. PICK n \in Taken(followUp) : Dequeue(followUp, n)
        BY <2>9, <3>1 DEF TakeFollowUp
      <4>2. pending' \in Seq(Msgs) /\ followUp' \in Seq(Msgs)
        BY <3>1, <4>1, SplitType DEF Dequeue
      <4> QED BY <2>9, <3>1, <4>2 DEF TakeFollowUp, PCs
    <3>2. CASE ~(followUp # <<>> /\ LastRole = "assistant")
      BY <2>9, <3>2 DEF TakeFollowUp, PCs
    <3> QED BY <3>1, <3>2
  <2>10. CASE Register
    BY <2>10 DEF Register, PCs
  <2>11. CASE TopOfLoop
    BY <2>11 DEF TopOfLoop, Leave, PCs, Outcomes
  <2>12. CASE AppendPending
    <3>1. CASE Leave("error") /\ UNCHANGED session
      BY <2>12, <3>1, LeaveKeeps DEF AppendPending, Outcomes
    <3>2. CASE pending # <<>> /\ session' = Append(session, User(Head(pending)))
                 /\ pending' = Tail(pending) /\ UNCHANGED <<pc, outcome, attempt>>
      <4>1. Head(pending) \in Msgs /\ Tail(pending) \in Seq(Msgs)
        BY <3>2
      <4>2. session' \in Seq(Items) /\ pending' \in Seq(Msgs)
        BY <3>2, <4>1
      <4> QED BY <2>12, <3>2, <4>2 DEF AppendPending
    <3>3. CASE pc' = "request" /\ UNCHANGED <<session, pending, outcome, attempt>>
      BY <2>12, <3>3 DEF AppendPending, PCs
    <3> QED BY <2>12, <3>1, <3>2, <3>3 DEF AppendPending
  <2>13. CASE Answered
    BY <2>13 DEF Answered, PCs
  <2>14. CASE Failed
    <3>1. CASE \E r \in Outcomes : Leave(r) /\ UNCHANGED turn
      BY <2>14, <3>1, LeaveKeeps DEF Failed
    <3>2. CASE NextTurn /\ attempt' = 0 /\ UNCHANGED pending
      BY <2>14, <3>2 DEF Failed, NextTurn, PCs
    <3>3. CASE attempt < MaxAttempts /\ attempt' = attempt + 1 /\ pc' = "retry"
                 /\ UNCHANGED <<turn, pending, outcome>>
      BY <2>14, <3>3 DEF Failed, PCs
    <3> QED BY <2>14, <3>1, <3>2, <3>3 DEF Failed, Outcomes
  <2>15. CASE StartDelay
    BY <2>15 DEF StartDelay, PCs
  <2>16. CASE EndDelay
    <3>1. CASE \E r \in Outcomes : Leave(r) /\ UNCHANGED turn
      BY <2>16, <3>1, LeaveKeeps DEF EndDelay
    <3>2. CASE NextTurn /\ UNCHANGED <<attempt, pending>>
      <4>1. /\ pc = "delay" /\ abortRetry' \in BOOLEAN /\ retryStopped' \in BOOLEAN
            /\ UNCHANGED <<queueVars, abortRun, cancelled, prompt, calls, call, session, histVars>>
        BY <2>16 DEF EndDelay
      <4> QED BY <3>2, <4>1 DEF NextTurn, PCs
    <3> QED BY <2>16, <3>1, <3>2 DEF EndDelay, Outcomes
  <2>17. CASE StopOrFollowUp
    <3>1. CASE followUp # <<>>
      <4>1. PICK n \in Taken(followUp) : Dequeue(followUp, n)
        BY <2>17, <3>1 DEF StopOrFollowUp
      <4>2. pending' \in Seq(Msgs) /\ followUp' \in Seq(Msgs)
        BY <3>1, <4>1, SplitType DEF Dequeue
      <4> QED BY <2>17, <3>1, <4>2 DEF StopOrFollowUp, NextTurn, PCs
    <3>2. CASE followUp = <<>>
      BY <2>17, <3>2 DEF StopOrFollowUp, Leave, PCs, Outcomes
    <3> QED BY <3>1, <3>2
  <2>18. CASE NextTool
    <3>1. CASE Leave("aborted") /\ UNCHANGED turn
      BY <2>18, <3>1, LeaveKeeps DEF NextTool, Outcomes
    <3>2. CASE NextTurn /\ UNCHANGED <<pending, attempt>>
      BY <2>18, <3>2 DEF NextTool, NextTurn, PCs
    <3>3. CASE call <= calls /\ pc' = "execute" /\ UNCHANGED <<turn, pending, attempt, outcome>>
      BY <2>18, <3>3 DEF NextTool, PCs
    <3> QED BY <2>18, <3>1, <3>2, <3>3 DEF NextTool
  <2>19. CASE ExecuteTool
    <3>1. CASE \E r \in Outcomes : Leave(r) /\ UNCHANGED session
      BY <2>19, <3>1, LeaveKeeps DEF ExecuteTool
    <3>2. CASE /\ session' = Append(session, ToolResult(call, FALSE)) /\ pc' = "poll"
               /\ UNCHANGED <<pending, attempt, outcome>>
      <4>1. call \in 1..MaxCalls
        BY <2>19 DEF ExecuteTool
      <4>2. ToolResult(call, FALSE) \in Items
        BY <4>1
      <4>3. session' \in Seq(Items)
        BY <3>2, <4>2, AppendItem, Zenon
      <4> HIDE ItemTypes
      <4> QED BY <2>19, <3>2, <4>3 DEF ExecuteTool, PCs
    <3> QED BY <2>19, <3>1, <3>2 DEF ExecuteTool, Outcomes
  <2>20. CASE PollSteering
    <3>1. CASE steering # <<>>
      <4>1. PICK n \in Taken(steering) : Dequeue(steering, n)
        BY <2>20, <3>1 DEF PollSteering
      <4>2. pending' \in Seq(Msgs) /\ steering' \in Seq(Msgs)
        BY <3>1, <4>1, SplitType DEF Dequeue
      <4> QED BY <2>20, <3>1, <4>2 DEF PollSteering, PCs
    <3>2. CASE steering = <<>>
      BY <2>20, <3>2 DEF PollSteering, PCs
    <3> QED BY <3>1, <3>2
  <2>21. CASE SkipTool
    <3>1. CASE Leave("error") /\ UNCHANGED <<session, call, turn>>
      BY <2>21, <3>1, LeaveKeeps DEF SkipTool, Outcomes
    <3>2. CASE /\ call <= calls /\ session' = Append(session, ToolResult(call, TRUE))
               /\ call' = call + 1 /\ UNCHANGED <<pc, turn, pending, attempt, outcome>>
      <4>1. call \in 1..MaxCalls
        BY <2>21, <3>2 DEF SkipTool
      <4>2. ToolResult(call, TRUE) \in Items
        BY <4>1
      <4>3. session' \in Seq(Items)
        BY <3>2, <4>2, AppendItem, Zenon
      <4>4. pc = "skip" /\ UNCHANGED <<queueVars, abortVars, prompt, calls, histVars>>
        BY <2>21 DEF SkipTool
      <4>5. call' \in 0..(MaxCalls + 1) /\ call' >= 1
        BY <3>2, <4>1
      <4> QED BY <3>2, <4>3, <4>4, <4>5
    <3>3. CASE NextTurn /\ UNCHANGED <<session, call, pending, attempt>>
      BY <2>21, <3>3 DEF SkipTool, NextTurn, PCs
    <3> QED BY <2>21, <3>1, <3>2, <3>3 DEF SkipTool
  <2>22. CASE Exit
    BY <2>22 DEF Exit, PCs
  <2>23. CASE UNCHANGED vars
    BY <2>23 DEF vars
  <2> QED BY <2>1, <2>2, <2>3, <2>4, <2>5, <2>6, <2>7, <2>8, <2>9, <2>10, <2>11, <2>12,
             <2>13, <2>14, <2>15, <2>16, <2>17, <2>18, <2>19, <2>20, <2>21, <2>22, <2>23
             DEF Next, RunStep
<1> QED BY <1>1, <1>2, PTL DEF Spec

(* Every variable of the loop keeps its type: the turn limit, the retry count and
   the place in the tool calls are never overrun. *)
THEOREM TypeCorrect == Spec => []TypeOK
BY LoopInvariant, PTL DEF LoopInv

-----------------------------------------------------------------------------
(* Where a run can be cancelled. *)
Registered == {"top", "append", "request", "retry", "delay", "tool", "execute", "poll",
               "skip", "stop", "exit"}

(* What is recorded behind a cancellation, by where the loop stands: users while
   messages are handed over, nothing while a tool still runs, results after it. *)
CutInv ==
  /\ abortRun \/ cancelled => pc \in Registered
  /\ AbortStopsWork
  /\ cancelled /\ pc \in {"append", "request"} => \A i \in (cut + 1)..Len(session) : IsUser(i)
  /\ cancelled /\ pc = "execute" => Len(session) <= cut
  /\ cancelled /\ pc \in {"poll", "skip"} =>
       \A i \in (cut + 1)..Len(session) : session[i].role = "toolResult"

(* One more item at the end of the session. *)
LEMMA OneMore ==
  ASSUME NEW item \in Items, session \in Seq(Items), session' = Append(session, item)
  PROVE  /\ Len(session') = Len(session) + 1
         /\ session'[Len(session')] = item
         /\ \A i \in 1..Len(session) : session'[i] = session[i]
OBVIOUS

(* After Abort the messages being handed over, at most one more answer or result of
   a tool, and results of skipped calls are recorded (runtime.go: cancellation is
   looked at between provider calls and tools only). *)
THEOREM AbortStops == Spec => []AbortStopsWork
<1>1. Init => CutInv
  BY DEF Init, CutInv, AbortStopsWork
<1>2. LoopInv /\ CutInv /\ [Next]_vars => CutInv'
  <2> SUFFICES ASSUME LoopInv, CutInv, [Next]_vars PROVE CutInv'
    OBVIOUS
  <2>0. session \in Seq(Items) /\ cut \in Nat /\ cut + 1 \in Nat /\ Len(session) \in Nat
    BY DEF LoopInv, TypeOK
  <2> USE DEF CutInv, Registered, queueVars, abortVars, runVars, histVars
  <2>1. CASE Prompt \/ Continue
    BY <2>1 DEF Prompt, Continue, EnterRun, AbortStopsWork
  <2>2. CASE Steer \/ FollowUp \/ AbortRetry
    BY <2>2 DEF Steer, FollowUp, AbortRetry, AbortStopsWork, IsUser, IsSkipped
  <2>3. CASE Abort
    <3>1. UNCHANGED <<pc, session, abortRun>>
      BY <2>3 DEF Abort
    <3>2. CASE cancelled
      BY <2>3, <3>1, <3>2 DEF Abort, AbortStopsWork, IsUser, IsSkipped
    <3>3. CASE ~cancelled /\ abortRun
      <4>1. cut' = Len(session)
        BY <2>3, <3>3 DEF Abort
      <4>2. (cut' + 1)..Len(session') = {}
        BY <2>0, <3>1, <4>1
      <4> QED BY <2>0, <3>1, <3>3, <4>1, <4>2 DEF AbortStopsWork
    <3>4. CASE ~cancelled /\ ~abortRun
      <4>1. cancelled' = FALSE /\ abortRun' = FALSE
        BY <2>3, <3>1, <3>4 DEF Abort, LoopInv, TypeOK
      <4> QED BY <4>1 DEF AbortStopsWork
    <3> QED BY <3>2, <3>3, <3>4
  <2>4. CASE AppendPrompt \/ TakeSteering \/ TakeFollowUp \/ Register
    BY <2>4 DEF AppendPrompt, TakeSteering, TakeFollowUp, Register, Leave, AbortStopsWork
  <2>5. CASE TopOfLoop
    <3>1. ~cancelled' \/ pc' \notin {"append", "request", "execute", "poll", "skip"}
      BY <2>5 DEF TopOfLoop, Leave
    <3>2. UNCHANGED <<abortRun, cancelled, session, cut>> /\ pc' \in Registered
      BY <2>5 DEF TopOfLoop, Leave
    <3> QED BY <3>1, <3>2 DEF AbortStopsWork, IsUser, IsSkipped
  <2>6. CASE AppendPending
    <3>1. CASE UNCHANGED session
      <4>1. UNCHANGED <<abortRun, cancelled, session, cut>> /\ pc' \in {"append", "request", "exit"}
            /\ pc = "append"
        BY <2>6, <3>1 DEF AppendPending, Leave
      <4> QED BY <4>1 DEF AbortStopsWork, IsUser, IsSkipped
    <3>2. CASE pending # <<>> /\ session' = Append(session, User(Head(pending))) /\ UNCHANGED pc
      <4>1. UNCHANGED <<abortRun, cancelled, cut>> /\ pc = "append" /\ pc' = "append"
        BY <2>6, <3>2 DEF AppendPending
      <4>2. User(Head(pending)) \in Items
        BY <3>2, ItemTypes DEF LoopInv, TypeOK
      <4>3. /\ Len(session') = Len(session) + 1
            /\ session'[Len(session')] = User(Head(pending))
            /\ \A i \in 1..Len(session) : session'[i] = session[i]
        BY <2>0, <3>2, <4>2, OneMore
      <4>4. cancelled' => \A i \in (cut' + 1)..Len(session') : session'[i].role = "user"
        <5> SUFFICES ASSUME cancelled', NEW i \in (cut' + 1)..Len(session')
                     PROVE  session'[i].role = "user"
          OBVIOUS
        <5>1. CASE i = Len(session')
          BY <4>3, <5>1 DEF User
        <5>2. CASE i # Len(session')
          <6>1. i \in (cut + 1)..Len(session) /\ i \in 1..Len(session)
            BY <2>0, <4>1, <4>3, <5>2
          <6> QED BY <4>1, <4>3, <6>1 DEF IsUser
        <5> QED BY <5>1, <5>2
      <4> QED BY <4>1, <4>4 DEF AbortStopsWork, IsUser, IsSkipped
    <3> QED BY <2>6, <3>1, <3>2 DEF AppendPending
  <2>7. CASE Answered
    <3>1. PICK n \in 0..MaxCalls :
            session' = Append(session, Assistant(n)) /\ pc' = (IF n = 0 THEN "stop" ELSE "tool")
      BY <2>7 DEF Answered
    <3>2. UNCHANGED <<abortRun, cancelled, cut>> /\ pc = "request"
      BY <2>7 DEF Answered
    <3>3. /\ Len(session') = Len(session) + 1
          /\ session'[Len(session')] = Assistant(n)
          /\ \A i \in 1..Len(session) : session'[i] = session[i]
      BY <2>0, <3>1, ItemTypes, OneMore
    <3>4. ASSUME cancelled', NEW i \in (cut' + 1)..Len(session'),
                 NEW j \in (cut' + 1)..Len(session'), i < j
          PROVE  session'[i].role = "user" /\ session'[j].role # "toolResult"
      <4>1. \A k \in (cut' + 1)..Len(session') :
              k = Len(session') \/ (k \in 1..Len(session) /\ k \in (cut + 1)..Len(session))
        BY <2>0, <3>2, <3>3
      <4>2. \A k \in (cut' + 1)..Len(session') : k # Len(session') => session'[k].role = "user"
        BY <3>2, <3>3, <3>4, <4>1 DEF IsUser
      <4>3. session'[Len(session')].role = "assistant"
        BY <3>3 DEF Assistant
      <4>4. i # Len(session')
        BY <2>0, <3>2, <3>3, <3>4
      <4> QED BY <4>2, <4>3, <4>4
    <3>5. AbortStopsWork'
      BY <3>4 DEF AbortStopsWork, IsUser
    <3> QED BY <3>1, <3>2, <3>5
  <2>8. CASE Failed \/ StartDelay \/ EndDelay
    <3>1. UNCHANGED <<abortRun, cancelled, session, cut>>
          /\ pc \in Registered /\ pc' \in {"exit", "top", "retry", "delay"}
      BY <2>8 DEF Failed, StartDelay, EndDelay, NextTurn, Leave
    <3> QED BY <3>1 DEF AbortStopsWork, IsUser, IsSkipped
  <2>9. CASE StopOrFollowUp
    <3>1. UNCHANGED <<abortRun, cancelled, session, cut>> /\ pc' \in {"exit", "top"}
      BY <2>9 DEF StopOrFollowUp, NextTurn, Leave
    <3> QED BY <3>1 DEF AbortStopsWork, IsUser, IsSkipped
  <2>10. CASE NextTool
    <3>1. UNCHANGED <<abortRun, cancelled, session, cut>>
          /\ pc' \in {"exit", "top", "execute"} /\ (pc' = "execute" => ~cancelled)
      BY <2>10 DEF NextTool, NextTurn, Leave
    <3> QED BY <3>1 DEF AbortStopsWork, IsUser, IsSkipped
  <2>11. CASE ExecuteTool
    <3>1. CASE UNCHANGED session
      <4>1. UNCHANGED <<abortRun, cancelled, session, cut>> /\ pc' \in {"exit", "poll"}
            /\ pc = "execute" /\ (pc' = "poll" => session' = Append(session, ToolResult(call, FALSE)))
        BY <2>11, <3>1 DEF ExecuteTool, Leave
      <4>2. Append(session, ToolResult(call, FALSE)) # session
        <5> DEFINE longer == Append(session, ToolResult(call, FALSE))
        <5>1. Len(longer) = Len(session) + 1
          BY <2>0
        <5> HIDE DEF longer
        <5>2. longer # session
          BY <2>0, <5>1
        <5> QED BY <5>2 DEF longer
      <4> QED BY <4>1, <4>2 DEF AbortStopsWork, IsUser, IsSkipped
    <3>2. CASE session' = Append(session, ToolResult(call, FALSE)) /\ pc' = "poll"
      <4>1. UNCHANGED <<abortRun, cancelled, cut>> /\ pc = "execute"
        BY <2>11 DEF ExecuteTool
      <4>2. call \in 1..MaxCalls
        <5>1. /\ call \in 0..(MaxCalls + 1) /\ calls \in 0..MaxCalls /\ MaxCalls \in Nat
              /\ call >= 1 /\ call <= calls
          BY <4>1, LoopConstants DEF LoopInv, TypeOK, Control, InTools
        <5> QED BY <5>1
      <4>3. ToolResult(call, FALSE) \in Items
        BY <4>2, ItemTypes
      <4>4. /\ Len(session') = Len(session) + 1
            /\ session'[Len(session')] = ToolResult(call, FALSE)
        BY <2>0, <3>2, <4>3, OneMore
      <4>5. cancelled' => \A i \in (cut' + 1)..Len(session') : i = Len(session')
        BY <2>0, <4>1, <4>4
      <4>6. session'[Len(session')].role = "toolResult"
        BY <4>4 DEF ToolResult
      <4>7. AbortStopsWork'
        <5> SUFFICES ASSUME cancelled', NEW i \in (cut' + 1)..Len(session'),
                            NEW j \in (cut' + 1)..Len(session'), i < j
                     PROVE  FALSE
          BY DEF AbortStopsWork
        <5>1. i = Len(session') /\ j = Len(session') /\ Len(session') \in Nat
          BY <2>0, <4>4, <4>5
        <5> QED BY <5>1
      <4> QED BY <3>2, <4>1, <4>5, <4>6, <4>7
    <3> QED BY <2>11, <3>1, <3>2 DEF ExecuteTool
  <2>12. CASE PollSteering
    <3>1. UNCHANGED <<abortRun, cancelled, session, cut>> /\ pc = "poll" /\ pc' \in {"tool", "skip"}
      BY <2>12 DEF PollSteering
    <3> QED BY <3>1 DEF AbortStopsWork, IsUser, IsSkipped
  <2>13. CASE SkipTool
    <3>1. CASE UNCHANGED session
      <4>1. UNCHANGED <<abortRun, cancelled, session, cut>> /\ pc = "skip" /\ pc' \in {"exit", "top", "skip"}
        BY <2>13, <3>1 DEF SkipTool, Leave, NextTurn
      <4> QED BY <4>1 DEF AbortStopsWork, IsUser, IsSkipped
    <3>2. CASE call <= calls /\ session' = Append(session, ToolResult(call, TRUE)) /\ UNCHANGED pc
      <4>1. UNCHANGED <<abortRun, cancelled, cut>> /\ pc = "skip" /\ pc' = "skip"
        BY <2>13, <3>2 DEF SkipTool
      <4>2. call \in 1..MaxCalls
        <5>1. /\ call \in 0..(MaxCalls + 1) /\ calls \in 0..MaxCalls /\ MaxCalls \in Nat
              /\ call >= 1 /\ call <= calls
          BY <3>2, <4>1, LoopConstants DEF LoopInv, TypeOK, Control, InTools
        <5> QED BY <5>1
      <4>3. ToolResult(call, TRUE) \in Items
        BY <4>2, ItemTypes
      <4>4. /\ Len(session') = Len(session) + 1
            /\ session'[Len(session')] = ToolResult(call, TRUE)
            /\ \A i \in 1..Len(session) : session'[i] = session[i]
        BY <2>0, <3>2, <4>3, OneMore
      <4>5. \A k \in (cut' + 1)..Len(session') :
              k = Len(session') \/ (k \in 1..Len(session) /\ k \in (cut + 1)..Len(session))
        BY <2>0, <4>1, <4>4
      <4>6. session'[Len(session')].role = "toolResult" /\ session'[Len(session')].skipped
        BY <4>4 DEF ToolResult
      <4>7. cancelled' => \A k \in (cut' + 1)..Len(session') : session'[k].role = "toolResult"
        BY <4>1, <4>4, <4>5, <4>6
      <4>8. ASSUME cancelled', NEW i \in (cut' + 1)..Len(session'),
                   NEW j \in (cut' + 1)..Len(session'), i < j
            PROVE  session'[j].role = "toolResult" /\ session'[j].skipped
        <5>1. CASE j = Len(session')
          BY <4>6, <5>1
        <5>2. CASE j # Len(session')
          <6>1. j \in (cut + 1)..Len(session) /\ j \in 1..Len(session)
            BY <4>5, <5>2
          <6>2. i # Len(session')
            BY <2>0, <4>1, <4>4, <4>8, <6>1
          <6>3. i \in (cut + 1)..Len(session)
            BY <4>5, <6>2
          <6>4. session[i].role = "toolResult" /\ cancelled
            BY <4>1, <4>8, <6>3
          <6>5. ~IsUser(i)
            BY <6>4 DEF IsUser
          <6>6. IsSkipped(j)
            BY <4>8, <6>1, <6>3, <6>4, <6>5 DEF AbortStopsWork
          <6> QED BY <4>4, <6>1, <6>6 DEF IsSkipped
        <5> QED BY <5>1, <5>2
      <4>9. AbortStopsWork'
        BY <4>7, <4>8 DEF AbortStopsWork, IsSkipped
      <4> QED BY <4>1, <4>7, <4>9
    <3> QED BY <2>13, <3>1, <3>2 DEF SkipTool
  <2>14. CASE Exit
    BY <2>14 DEF Exit, AbortStopsWork
  <2>15. CASE UNCHANGED vars
    BY <2>15 DEF vars, AbortStopsWork, IsUser, IsSkipped
  <2> QED BY <2>1, <2>2, <2>3, <2>4, <2>5, <2>6, <2>7, <2>8, <2>9, <2>10, <2>11, <2>12,
             <2>13, <2>14, <2>15 DEF Next, RunStep
<1>3. CutInv => AbortStopsWork
  BY DEF CutInv
<1> QED BY <1>1, <1>2, <1>3, LoopInvariant, PTL DEF Spec

-----------------------------------------------------------------------------
(* Where messages are: NoMessageTwice. *)

Unique(q) == \A i, j \in DOMAIN q : q[i] = q[j] => i = j

(* A message is accepted before it is anywhere, and then in one place. *)
Apart ==
  /\ Delivered \cup StillWaiting \subseteq 1..Len(kind)
  /\ Delivered \cap StillWaiting = {}
  /\ Range(pending) \cap (Range(steering) \cup Range(followUp)) = {}
  /\ Range(steering) \cap Range(followUp) = {}
  /\ prompt \notin Range(pending) \cup Range(steering) \cup Range(followUp)

SaidOnce ==
  \A i, j \in DOMAIN session :
    IsUser(i) /\ IsUser(j) /\ session[i].msg = session[j].msg => i = j

Once == Apart /\ SaidOnce /\ Unique(steering) /\ Unique(followUp) /\ Unique(pending)

(* Both parts of a queue that is split hold what the queue held, once. *)
LEMMA SplitParts ==
  ASSUME NEW q \in Seq(Msgs), q # <<>>, NEW n \in Taken(q), Unique(q)
  PROVE  LET a == SubSeq(q, 1, n)
             b == SubSeq(q, n + 1, Len(q))
         IN /\ Unique(a) /\ Unique(b)
            /\ Range(a) \cup Range(b) \subseteq Range(q) /\ Range(a) \cap Range(b) = {}
<1> DEFINE a == SubSeq(q, 1, n)
           b == SubSeq(q, n + 1, Len(q))
<1>1. n \in 1..Len(q)
  BY DEF Taken
<1>2. DOMAIN a = 1..n /\ \A i \in 1..n : a[i] = q[i] /\ i \in DOMAIN q
  BY <1>1
<1>3. DOMAIN b = 1..(Len(q) - n) /\ \A i \in 1..(Len(q) - n) : b[i] = q[n + i] /\ n + i \in DOMAIN q
  BY <1>1
<1> HIDE DEF a, b
<1>4. Unique(a) /\ Unique(b)
  <2>1. \A i, j \in DOMAIN q : q[i] = q[j] => i = j
    BY DEF Unique
  <2>2. Unique(a)
    BY <1>2, <2>1 DEF Unique
  <2>3. \A i, j \in 1..(Len(q) - n) : b[i] = b[j] => i = j
    BY <1>1, <1>3, <2>1
  <2> QED BY <1>3, <2>2, <2>3 DEF Unique
<1>5. Range(a) \cup Range(b) \subseteq Range(q)
  BY <1>2, <1>3 DEF Range
<1>6. Range(a) \cap Range(b) = {}
  BY <1>1, <1>2, <1>3 DEF Range, Unique
<1> QED BY <1>4, <1>5, <1>6 DEF a, b

(* A queue grows by a message that is not in it. *)
LEMMA AppendParts ==
  ASSUME NEW q \in Seq(Msgs), NEW m \in Msgs, m \notin Range(q), Unique(q)
  PROVE  Unique(Append(q, m)) /\ Range(Append(q, m)) = Range(q) \cup {m}
<1>1. /\ DOMAIN Append(q, m) = DOMAIN q \cup {Len(q) + 1} /\ Append(q, m)[Len(q) + 1] = m
      /\ \A i \in DOMAIN q : Append(q, m)[i] = q[i]
  OBVIOUS
<1> QED BY <1>1 DEF Unique, Range

(* Without its head a queue holds what it held, less the head. *)
LEMMA TailParts ==
  ASSUME NEW q \in Seq(Msgs), q # <<>>, Unique(q)
  PROVE  /\ Unique(Tail(q)) /\ Head(q) \in Range(q)
         /\ Range(Tail(q)) \subseteq Range(q) \ {Head(q)}
<1>1. /\ DOMAIN Tail(q) = 1..(Len(q) - 1) /\ 1 \in DOMAIN q /\ Head(q) = q[1]
      /\ \A i \in 1..(Len(q) - 1) : Tail(q)[i] = q[i + 1] /\ i + 1 \in DOMAIN q
  OBVIOUS
<1> QED BY <1>1 DEF Unique, Range

(* The empty queue holds nothing. *)
LEMMA NothingInEmpty == Unique(<<>>) /\ Range(<<>>) = {}
BY DEF Unique, Range

(* A user message appended to the session is delivered, and delivered once if it
   was not before. *)
LEMMA SaidUser ==
  ASSUME session \in Seq(Items), NEW m \in Msgs, session' = Append(session, User(m))
  PROVE  /\ Delivered' = Delivered \cup {m}
         /\ SaidOnce /\ m \notin Delivered => SaidOnce'
<1>1. /\ DOMAIN session' = DOMAIN session \cup {Len(session) + 1}
      /\ session'[Len(session) + 1] = User(m) /\ User(m).role = "user" /\ User(m).msg = m
      /\ \A i \in DOMAIN session : session'[i] = session[i]
  BY DEF User
<1> QED BY <1>1 DEF Delivered, SaidOnce, IsUser

(* An answer or a tool result appended to the session delivers no message. *)
LEMMA SaidOther ==
  ASSUME session \in Seq(Items), NEW item, item.role # "user", session' = Append(session, item)
  PROVE  Delivered' = Delivered /\ (SaidOnce => SaidOnce')
<1>1. /\ DOMAIN session' = DOMAIN session \cup {Len(session) + 1}
      /\ session'[Len(session) + 1] = item
      /\ \A i \in DOMAIN session : session'[i] = session[i]
  OBVIOUS
<1> QED BY <1>1 DEF Delivered, SaidOnce, IsUser

(* Messages that stay where they are, or get lost, are nowhere twice. *)
LEMMA FewerPlaces ==
  ASSUME Once, Len(kind) \in Nat, Len(kind)' \in Nat, Len(kind) <= Len(kind)', 0 \notin Msgs,
         Delivered' = Delivered, SaidOnce',
         UNCHANGED <<steering, followUp>>, prompt' \in {prompt, 0}, pending' \in {pending, <<>>}
  PROVE  Once'
<1>1. Unique(pending)' /\ Range(pending)' \subseteq Range(pending)
  BY NothingInEmpty DEF Once
<1>2. Range(steering)' = Range(steering) /\ Range(followUp)' = Range(followUp)
  OBVIOUS
<1>3. StillWaiting' \subseteq StillWaiting
  BY <1>1, <1>2 DEF StillWaiting
<1>4. 0 \notin StillWaiting
  BY DEF Once, Apart
<1>5. Apart'
  BY <1>1, <1>2, <1>3, <1>4 DEF Once, Apart, StillWaiting
<1> QED BY <1>1, <1>5 DEF Once, Unique

-----------------------------------------------------------------------------
(* A message moves from the senders to a queue, from there to pendingMessages and
   from there to the session, and is never in two of these places. *)
LEMMA OnceInvariant == Spec => [](LoopInv /\ Once)
<1>1. Init => Once
  BY NothingInEmpty DEF Init, Once, Apart, SaidOnce, Delivered, StillWaiting
<1>2. LoopInv /\ Once /\ [Next]_vars => Once'
  <2> SUFFICES ASSUME LoopInv, Once, [Next]_vars PROVE Once'
    OBVIOUS
  <2>0. /\ steering \in Seq(Msgs) /\ followUp \in Seq(Msgs) /\ pending \in Seq(Msgs)
        /\ session \in Seq(Items) /\ prompt \in 0..MaxMsgs /\ MaxMsgs \in Nat
        /\ Len(kind) \in Nat /\ Len(kind) <= MaxMsgs /\ 0 \notin Msgs
    BY LoopConstants DEF LoopInv, TypeOK, Msgs
  <2>n. ASSUME Accept("prompt") \/ Accept("steer") \/ Accept("followUp")
        PROVE  /\ NewMsg \in Msgs /\ Len(kind)' = NewMsg /\ NewMsg = Len(kind) + 1
               /\ NewMsg \notin Delivered \cup StillWaiting
    BY <2>0, <2>n DEF Accept, NewMsg, Msgs, Once, Apart, LoopInv, TypeOK
  <2> USE DEF queueVars, abortVars, runVars, histVars
  <2>same. ASSUME Len(kind)' = Len(kind), UNCHANGED <<session, steering, followUp>>,
                  prompt' \in {prompt, 0}, pending' \in {pending, <<>>}
           PROVE  Once'
    <3>1. Delivered' = Delivered /\ SaidOnce'
      BY <2>same DEF Once, Delivered, SaidOnce, IsUser
    <3> QED BY <2>0, <2>same, <3>1, FewerPlaces
  <2>other. ASSUME NEW item, item.role # "user", session' = Append(session, item),
                   UNCHANGED <<kind, steering, followUp, pending, prompt>>
            PROVE  Once'
    <3>1. Delivered' = Delivered /\ SaidOnce'
      BY <2>0, <2>other, SaidOther DEF Once
    <3> QED BY <2>0, <2>other, <3>1, FewerPlaces
  <2>take. ASSUME steering # <<>>, NEW n \in Taken(steering), Dequeue(steering, n),
                  UNCHANGED <<kind, session, followUp, prompt>>
           PROVE  Once'
    <3>1. /\ Unique(pending)' /\ Unique(steering)'
          /\ Range(pending)' \cup Range(steering)' \subseteq Range(steering)
          /\ Range(pending)' \cap Range(steering)' = {}
      BY <2>0, <2>take, SplitParts DEF Dequeue, Once
    <3>2. Delivered' = Delivered /\ SaidOnce' /\ Range(followUp)' = Range(followUp)
      BY <2>take DEF Once, Delivered, SaidOnce, IsUser
    <3>3. StillWaiting' \subseteq StillWaiting
      BY <2>take, <3>1, <3>2 DEF StillWaiting
    <3> QED BY <2>take, <3>1, <3>2, <3>3 DEF Once, Apart, Unique
  <2>takeFollowUp. ASSUME followUp # <<>>, NEW n \in Taken(followUp), Dequeue(followUp, n),
                          UNCHANGED <<kind, session, steering, prompt>>
                   PROVE  Once'
    <3>1. /\ Unique(pending)' /\ Unique(followUp)'
          /\ Range(pending)' \cup Range(followUp)' \subseteq Range(followUp)
          /\ Range(pending)' \cap Range(followUp)' = {}
      BY <2>0, <2>takeFollowUp, SplitParts DEF Dequeue, Once
    <3>2. Delivered' = Delivered /\ SaidOnce' /\ Range(steering)' = Range(steering)
      BY <2>takeFollowUp DEF Once, Delivered, SaidOnce, IsUser
    <3>3. StillWaiting' \subseteq StillWaiting
      BY <2>takeFollowUp, <3>1, <3>2 DEF StillWaiting
    <3> QED BY <2>takeFollowUp, <3>1, <3>2, <3>3 DEF Once, Apart, Unique
  <2>1. CASE Prompt
    <3>1. /\ prompt' = NewMsg /\ UNCHANGED <<session, steering, followUp, pending>>
          /\ Accept("prompt")
      BY <2>1 DEF Prompt
    <3>2. Delivered' = Delivered /\ SaidOnce'
      BY <3>1 DEF Once, Delivered, SaidOnce, IsUser
    <3>3. StillWaiting' \subseteq StillWaiting \cup {NewMsg}
      BY <3>1 DEF StillWaiting
    <3>4. NewMsg \notin Range(pending) \cup Range(steering) \cup Range(followUp)
      BY <2>n, <3>1 DEF StillWaiting
    <3>5. Apart'
      BY <2>0, <2>n, <3>1, <3>2, <3>3, <3>4 DEF Once, Apart
    <3> QED BY <3>1, <3>2, <3>5 DEF Once, Unique
  <2>2. CASE Continue
    BY <2>2, <2>same DEF Continue
  <2>3. CASE Steer
    <3>1. /\ steering' = Append(steering, NewMsg) /\ Accept("steer")
          /\ UNCHANGED <<session, followUp, pending, prompt>>
      BY <2>3 DEF Steer
    <3>2. Delivered' = Delivered /\ SaidOnce'
      BY <3>1 DEF Once, Delivered, SaidOnce, IsUser
    <3>3. NewMsg \notin Range(pending) \cup Range(steering) \cup Range(followUp) \cup ({prompt} \ {0})
      BY <2>n, <3>1 DEF StillWaiting
    <3>4. Unique(steering)' /\ Range(steering)' = Range(steering) \cup {NewMsg}
      BY <2>0, <2>n, <3>1, <3>3, AppendParts DEF Once
    <3>5. NewMsg # prompt
      BY <2>n, <3>1, <3>3, <2>0
    <3>6. StillWaiting' = StillWaiting \cup {NewMsg}
      BY <3>1, <3>4 DEF StillWaiting
    <3>7. Apart'
      BY <2>0, <2>n, <3>1, <3>2, <3>3, <3>4, <3>5, <3>6 DEF Once, Apart
    <3> QED BY <3>1, <3>2, <3>4, <3>7 DEF Once, Unique
  <2>4. CASE FollowUp
    <3>1. /\ followUp' = Append(followUp, NewMsg) /\ Accept("followUp")
          /\ UNCHANGED <<session, steering, pending, prompt>>
      BY <2>4 DEF FollowUp
    <3>2. Delivered' = Delivered /\ SaidOnce'
      BY <3>1 DEF Once, Delivered, SaidOnce, IsUser
    <3>3. NewMsg \notin Range(pending) \cup Range(steering) \cup Range(followUp) \cup ({prompt} \ {0})
      BY <2>n, <3>1 DEF StillWaiting
    <3>4. Unique(followUp)' /\ Range(followUp)' = Range(followUp) \cup {NewMsg}
      BY <2>0, <2>n, <3>1, <3>3, AppendParts DEF Once
    <3>5. NewMsg # prompt
      BY <2>n, <3>1, <3>3, <2>0
    <3>6. StillWaiting' = StillWaiting \cup {NewMsg}
      BY <3>1, <3>4 DEF StillWaiting
    <3>7. Apart'
      BY <2>0, <2>n, <3>1, <3>2, <3>3, <3>4, <3>5, <3>6 DEF Once, Apart
    <3> QED BY <3>1, <3>2, <3>4, <3>7 DEF Once, Unique
  <2>5. CASE Abort \/ AbortRetry
    BY <2>5, <2>same DEF Abort, AbortRetry
  <2>6. CASE AppendPrompt
    <3>1. CASE session' = Append(session, User(prompt)) /\ UNCHANGED pending
      <4>1. prompt \in Msgs /\ prompt # 0 /\ prompt' = 0
            /\ UNCHANGED <<kind, steering, followUp>>
        BY <2>0, <2>6 DEF AppendPrompt, Msgs, LoopInv, Control
      <4>2. prompt \in StillWaiting /\ prompt \notin Delivered
        BY <4>1 DEF StillWaiting, Once, Apart
      <4>3. Delivered' = Delivered \cup {prompt} /\ SaidOnce'
        BY <2>0, <3>1, <4>1, <4>2, SaidUser DEF Once
      <4>4. StillWaiting' = StillWaiting \ {prompt}
        BY <3>1, <4>1 DEF StillWaiting, Once, Apart
      <4>5. 0 \notin StillWaiting
        BY <2>0 DEF Once, Apart
      <4>6. Apart'
        BY <3>1, <4>1, <4>2, <4>3, <4>4, <4>5 DEF Once, Apart, StillWaiting
      <4> QED BY <3>1, <4>1, <4>3, <4>6 DEF Once, Unique
    <3>2. CASE Leave("error") /\ UNCHANGED session
      BY <2>6, <2>same, <3>2 DEF AppendPrompt, Leave
    <3> QED BY <2>6, <3>1, <3>2 DEF AppendPrompt
  <2>7. CASE TakeSteering
    BY <2>7, <2>take, <2>same DEF TakeSteering
  <2>8. CASE TakeFollowUp
    BY <2>8, <2>takeFollowUp, <2>same DEF TakeFollowUp
  <2>9. CASE Register \/ TopOfLoop
    BY <2>9, <2>same DEF Register, TopOfLoop, Leave
  <2>10. CASE AppendPending
    <3>1. CASE pending # <<>> /\ session' = Append(session, User(Head(pending)))
                 /\ pending' = Tail(pending)
      <4> DEFINE m == Head(pending)
      <4>1. m \in Msgs /\ UNCHANGED <<kind, steering, followUp, prompt>>
        BY <2>0, <2>10, <3>1 DEF AppendPending
      <4>2. /\ Unique(pending)' /\ m \in Range(pending)
            /\ Range(pending)' \subseteq Range(pending) \ {m}
        BY <2>0, <3>1, TailParts DEF Once
      <4>3. m \in StillWaiting /\ m \notin Delivered
        BY <4>2 DEF StillWaiting, Once, Apart
      <4>4. Delivered' = Delivered \cup {m} /\ SaidOnce'
        BY <2>0, <3>1, <4>1, <4>3, SaidUser DEF Once
      <4> HIDE DEF m
      <4>5. StillWaiting' \subseteq StillWaiting \ {m}
        BY <4>1, <4>2 DEF StillWaiting, Once, Apart
      <4>6. Apart'
        BY <4>1, <4>2, <4>3, <4>4, <4>5 DEF Once, Apart
      <4> QED BY <4>1, <4>2, <4>4, <4>6 DEF Once, Unique
    <3>2. CASE UNCHANGED session /\ pending' \in {pending, <<>>}
      BY <2>10, <2>same, <3>2 DEF AppendPending
    <3> QED BY <2>10, <3>1, <3>2 DEF AppendPending, Leave
  <2>11. CASE Answered
    <3>1. PICK k \in 0..MaxCalls : session' = Append(session, Assistant(k))
      BY <2>11 DEF Answered
    <3>2. Assistant(k).role # "user"
      BY DEF Assistant
    <3> QED BY <2>11, <2>other, <3>1, <3>2 DEF Answered
  <2>12. CASE Failed \/ StartDelay \/ EndDelay
    BY <2>12, <2>same DEF Failed, StartDelay, EndDelay, NextTurn, Leave
  <2>13. CASE StopOrFollowUp
    BY <2>13, <2>takeFollowUp, <2>same DEF StopOrFollowUp, Leave
  <2>14. CASE NextTool
    BY <2>14, <2>same DEF NextTool, NextTurn, Leave
  <2>result. \A k, s : ToolResult(k, s).role # "user"
    BY DEF ToolResult
  <2>15. CASE ExecuteTool
    BY <2>15, <2>other, <2>same, <2>result DEF ExecuteTool, Leave
  <2>16. CASE PollSteering
    BY <2>16, <2>take, <2>same DEF PollSteering
  <2>17. CASE SkipTool
    BY <2>17, <2>other, <2>same, <2>result DEF SkipTool, NextTurn, Leave
  <2>18. CASE Exit \/ UNCHANGED vars
    BY <2>18, <2>same DEF Exit, vars
  <2> QED BY <2>1, <2>2, <2>3, <2>4, <2>5, <2>6, <2>7, <2>8, <2>9, <2>10, <2>11, <2>12,
             <2>13, <2>14, <2>15, <2>16, <2>17, <2>18 DEF Next, RunStep
<1> QED BY <1>1, <1>2, LoopInvariant, PTL DEF Spec

(* An accepted message is in one place and there once, from its queue over
   pendingMessages to the session: the model never gets it twice. *)
THEOREM MessagesOnce == Spec => []NoMessageTwice
<1>1. Once => NoMessageTwice
  BY DEF Once, Apart, SaidOnce, Unique, NoMessageTwice
<1> QED BY <1>1, OnceInvariant, PTL


-----------------------------------------------------------------------------
(* Tool calls and their results: CallsAnswered. *)

(* Each call of the answer at i has its result behind it. *)
Complete(i) ==
  \A k \in 1..session[i].calls :
    /\ i + k <= Len(session)
    /\ session[i + k] \in {ToolResult(k, FALSE), ToolResult(k, TRUE)}

(* Where the answer stands whose tools are being run, and how many are done. *)
Done    == IF pc = "poll" THEN call ELSE call - 1
Current == Len(session) - Done

(* Between turns of a run, and at its good end, every answer of it is complete;
   within the tools of a turn all are but the last, whose first calls are done. *)
BetweenTurns ==
  pc \notin InTools \cup {"idle"} /\ (pc = "exit" => outcome \in {"ok", "limit"})
WithinTurn ==
  /\ Done \in 0..calls
  /\ Current \in Turns /\ session[Current] = Assistant(calls)
  /\ \A k \in 1..Done : session[Current + k] \in {ToolResult(k, FALSE), ToolResult(k, TRUE)}

Answers ==
  /\ base <= Len(session)
  /\ BetweenTurns => \A i \in Turns : Complete(i)
  /\ pc \in InTools => WithinTurn /\ \A i \in Turns \ {Current} : Complete(i)

(* An append leaves complete answers complete, and adds to the answers itself only. *)
LEMMA AppendAnswers ==
  ASSUME session \in Seq(Items), base \in Nat, base <= Len(session), NEW item \in Items,
         session' = Append(session, item), base' = base
  PROVE  /\ base <= Len(session)' /\ Len(session)' = Len(session) + 1
         /\ \A i \in DOMAIN session : session'[i] = session[i]
         /\ session'[Len(session) + 1] = item
         /\ item.role # "assistant" => Turns' = Turns
         /\ item.role = "assistant" => Turns' = Turns \cup {Len(session) + 1}
         /\ \A i \in Turns : Complete(i) => Complete(i)'
<1>1. /\ Len(session)' = Len(session) + 1 /\ Len(session) \in Nat
      /\ \A i \in 1..Len(session) : session'[i] = session[i]
      /\ session'[Len(session) + 1] = item /\ DOMAIN session = 1..Len(session)
  OBVIOUS
<1>2. Turns \subseteq 1..Len(session)
  BY <1>1 DEF Turns
<1>3. /\ item.role # "assistant" => Turns' = Turns
      /\ item.role = "assistant" => Turns' = Turns \cup {Len(session) + 1}
  BY <1>1 DEF Turns
<1>4. ASSUME NEW i \in Turns, Complete(i) PROVE Complete(i)'
  <2>1. i \in 1..Len(session) /\ session[i] \in Items /\ session[i].role = "assistant"
    BY <1>2, <1>1 DEF Turns
  <2>2. session[i].calls \in Nat /\ session'[i] = session[i]
    BY <1>1, <2>1, LoopConstants DEF Items, User, Assistant, ToolResult
  <2>3. SUFFICES ASSUME NEW k \in 1..session[i].calls
                 PROVE  /\ i + k <= Len(session)'
                        /\ session'[i + k] \in {ToolResult(k, FALSE), ToolResult(k, TRUE)}
    BY <2>2 DEF Complete, ToolResult
  <2>4. i + k <= Len(session) /\ session[i + k] \in {ToolResult(k, FALSE), ToolResult(k, TRUE)}
    BY <1>4 DEF Complete
  <2>5. i + k \in 1..Len(session)
    BY <1>1, <2>1, <2>2, <2>4
  <2>6. session'[i + k] = session[i + k]
    BY <1>1, <2>5
  <2>7. i + k <= Len(session)'
    BY <1>1, <2>5
  <2> QED BY <2>4, <2>6, <2>7
<1> QED BY <1>1, <1>3, <1>4

(* Steps that leave the session alone keep its answers complete. *)
LEMMA SameAnswers ==
  ASSUME Answers, UNCHANGED <<session, base>>,
         BetweenTurns \/ pc' \in InTools \cup {"idle"} \/ (pc' = "exit" /\ outcome' \notin {"ok", "limit"}),
         pc' \in InTools => pc \in InTools /\ Done' = Done /\ calls' = calls
  PROVE  Answers'
<1>1. Turns' = Turns /\ \A i \in Turns : Complete(i)' = Complete(i)
  BY DEF Turns, Complete, ToolResult
<1>2. CASE pc' \in InTools
  <2>1. Current' = Current /\ WithinTurn' = WithinTurn
    BY <1>1, <1>2 DEF Current, WithinTurn, Assistant, ToolResult
  <2> QED BY <1>1, <1>2, <2>1 DEF Answers, BetweenTurns
<1>3. CASE pc' \notin InTools
  BY <1>1, <1>3 DEF Answers, BetweenTurns
<1> QED BY <1>2, <1>3

(* A turn whose calls are all done is complete. *)
LEMMA TurnComplete ==
  ASSUME Answers, TypeOK, pc \in InTools, Done = calls
  PROVE  \A i \in Turns : Complete(i)
<1>1. Complete(Current)
  <2>1. session[Current].calls = calls /\ calls \in Nat
    BY LoopConstants DEF Answers, WithinTurn, Assistant, TypeOK
  <2>2. Len(session) \in Nat /\ Current = Len(session) - calls
    BY DEF TypeOK, Current
  <2>3. \A k \in 1..calls : Current + k <= Len(session)
    BY <2>1, <2>2
  <2> QED BY <2>1, <2>3 DEF Complete, Answers, WithinTurn
<1> QED BY <1>1 DEF Answers

(* The answers of a run stay complete but for the last one while its tools run. *)
LEMMA AnswersInvariant == Spec => [](LoopInv /\ Answers)
<1>1. Init => Answers
  BY DEF Init, Answers, BetweenTurns, InTools
<1>2. LoopInv /\ Answers /\ [Next]_vars => Answers'
  <2> SUFFICES ASSUME LoopInv, Answers, [Next]_vars PROVE Answers'
    OBVIOUS
  <2> USE DEF queueVars, abortVars, runVars, histVars
  <2>0. /\ session \in Seq(Items) /\ base \in Nat /\ base <= Len(session) /\ Len(session) \in Nat
        /\ calls \in Nat /\ call \in Nat /\ MaxCalls \in Nat /\ calls <= MaxCalls
    BY LoopConstants DEF LoopInv, TypeOK, Answers
  <2>1. CASE Prompt \/ Continue
    <3>1. base' = Len(session) /\ session' = session /\ pc' \in {"prompt", "steering"}
      BY <2>1 DEF Prompt, Continue, EnterRun
    <3>2. Turns' = {}
      BY <2>0, <3>1 DEF Turns
    <3> QED BY <2>0, <3>1, <3>2 DEF Answers, InTools
  <2>2. CASE Steer \/ FollowUp \/ Abort \/ AbortRetry \/ UNCHANGED vars
    <3>1. UNCHANGED <<session, base, pc, outcome, calls, call>>
      BY <2>2 DEF Steer, FollowUp, Abort, AbortRetry, vars
    <3> QED BY <3>1, SameAnswers DEF Done, BetweenTurns
  <2>user. ASSUME NEW m \in Msgs, session' = Append(session, User(m)), base' = base,
                  BetweenTurns, pc' \notin InTools
           PROVE  Answers'
    <3>1. User(m) \in Items /\ User(m).role = "user"
      BY ItemTypes DEF User
    <3> QED BY <2>0, <2>user, <3>1, AppendAnswers DEF Answers
  <2>3. CASE AppendPrompt
    <3>1. CASE session' = Append(session, User(prompt)) /\ pc' = "steering"
      <4>1. prompt \in Msgs
        BY <2>3 DEF AppendPrompt, LoopInv, Control, TypeOK, Msgs
      <4> QED BY <2>3, <2>user, <3>1, <4>1 DEF AppendPrompt, BetweenTurns, InTools
    <3>2. CASE Leave("error") /\ UNCHANGED session
      BY <2>3, <3>2, SameAnswers DEF AppendPrompt, Leave, InTools
    <3> QED BY <2>3, <3>1, <3>2 DEF AppendPrompt
  <2>4. CASE AppendPending
    <3>1. CASE pending # <<>> /\ session' = Append(session, User(Head(pending))) /\ UNCHANGED pc
      <4>1. Head(pending) \in Msgs
        BY <3>1 DEF LoopInv, TypeOK
      <4> QED BY <2>4, <2>user, <3>1, <4>1 DEF AppendPending, BetweenTurns, InTools
    <3>2. CASE UNCHANGED session /\ pc' \in {"exit", "request"}
      BY <2>4, <3>2, SameAnswers DEF AppendPending, InTools, BetweenTurns
    <3> QED BY <2>4, <3>1, <3>2 DEF AppendPending, Leave
  <2>5. CASE TakeSteering \/ TakeFollowUp \/ Register \/ TopOfLoop \/ StartDelay \/ EndDelay \/ Failed
    <3>1. /\ UNCHANGED <<session, base>> /\ pc' \notin InTools
          /\ pc \in {"steering", "followUp", "register", "top", "retry", "delay", "request"}
      BY <2>5 DEF TakeSteering, TakeFollowUp, Register, TopOfLoop, StartDelay, EndDelay, Failed,
                  NextTurn, Leave, InTools
    <3> QED BY <3>1, SameAnswers DEF BetweenTurns, InTools
  <2>6. CASE StopOrFollowUp \/ Exit
    <3>1. /\ UNCHANGED <<session, base>> /\ pc' \notin InTools
          /\ pc = "stop" \/ pc' = "idle"
      BY <2>6 DEF StopOrFollowUp, Exit, NextTurn, Leave, InTools
    <3> QED BY <3>1, SameAnswers DEF BetweenTurns, InTools
  <2>7. CASE Answered
    <3>1. PICK n \in 0..MaxCalls : /\ session' = Append(session, Assistant(n))
                                   /\ calls' = n /\ call' = 1
                                   /\ pc' = IF n = 0 THEN "stop" ELSE "tool"
      BY <2>7 DEF Answered
    <3>2. Assistant(n) \in Items /\ Assistant(n).role = "assistant" /\ Assistant(n).calls = n
      BY ItemTypes DEF Assistant
    <3>3. base' = base /\ \A i \in Turns : Complete(i)
      BY <2>7 DEF Answered, Answers, BetweenTurns, InTools
    <3>4. /\ base' <= Len(session)' /\ Len(session)' = Len(session) + 1
          /\ Turns' = Turns \cup {Len(session) + 1}
          /\ session'[Len(session) + 1] = Assistant(n)
          /\ \A i \in Turns : Complete(i)'
      BY <2>0, <3>1, <3>2, <3>3, AppendAnswers
    <3>5. CASE n = 0
      <4>1. PICK last \in Nat : last = Len(session) + 1
        BY <2>0
      <4>2. Complete(last)'
        BY <3>2, <3>4, <3>5, <4>1 DEF Complete
      <4> QED BY <3>1, <3>4, <3>5, <4>1, <4>2 DEF Answers, InTools
    <3>6. CASE n # 0
      <4>1. pc' = "tool" /\ Done' = 0 /\ Current' = Len(session) + 1
        BY <2>0, <3>1, <3>4, <3>6 DEF Done, Current
      <4>2. WithinTurn'
        BY <2>0, <3>1, <3>4, <4>1 DEF WithinTurn, Assistant
      <4> QED BY <3>4, <4>1, <4>2 DEF Answers, BetweenTurns, InTools
    <3> QED BY <3>5, <3>6
  <2>tool. ASSUME pc \in InTools, Done = call - 1, call <= calls, NEW s \in BOOLEAN,
                  session' = Append(session, ToolResult(call, s)), UNCHANGED <<base, calls>>,
                  pc' \in InTools, Done' = call
           PROVE  Answers'
    <3>1. call \in 1..calls /\ Done \in Nat
      BY <2>0, <2>tool DEF LoopInv, Control
    <3>2. ToolResult(call, s) \in Items /\ ToolResult(call, s).role # "assistant"
      BY <2>0, <3>1, ItemTypes DEF ToolResult
    <3>3. /\ base' <= Len(session)' /\ Len(session)' = Len(session) + 1
          /\ Turns' = Turns /\ \A i \in DOMAIN session : session'[i] = session[i]
          /\ session'[Len(session) + 1] = ToolResult(call, s)
          /\ \A i \in Turns : Complete(i) => Complete(i)'
      BY <2>0, <2>tool, <3>2, AppendAnswers
    <3>4. Current' = Current /\ Current + call = Len(session) + 1
      BY <2>0, <2>tool, <3>1, <3>3 DEF Current
    <3>5. WithinTurn /\ Current \in 1..Len(session)
      <4>1. WithinTurn
        BY <2>tool DEF Answers
      <4>2. Current \in (base + 1)..Len(session)
        BY <4>1 DEF WithinTurn, Turns
      <4> QED BY <2>0, <4>1, <4>2
    <3>6. session'[Current] = Assistant(calls)
      BY <3>3, <3>5 DEF WithinTurn
    <3>7. \A k \in 1..call : session'[Current + k] \in {ToolResult(k, FALSE), ToolResult(k, TRUE)}
      <4> SUFFICES ASSUME NEW k \in 1..call
                   PROVE  session'[Current + k] \in {ToolResult(k, FALSE), ToolResult(k, TRUE)}
        OBVIOUS
      <4>1. CASE k = call
        BY <3>3, <3>4, <4>1
      <4>2. CASE k # call
        <5>1. k \in 1..Done /\ Current + k \in DOMAIN session
          BY <2>0, <2>tool, <3>1, <3>4, <3>5, <4>2
        <5> QED BY <3>3, <3>5, <5>1 DEF WithinTurn
      <4> QED BY <4>1, <4>2
    <3>8. WithinTurn'
      BY <2>0, <2>tool, <3>1, <3>3, <3>4, <3>5, <3>6, <3>7 DEF WithinTurn, ToolResult, Assistant
    <3> QED BY <2>tool, <3>3, <3>4, <3>8 DEF Answers, BetweenTurns
  <2>8. CASE NextTool
    <3>1. CASE call > calls /\ NextTurn
      <4>1. UNCHANGED <<session, base>> /\ pc' = "top" /\ pc = "tool"
        BY <2>8, <3>1 DEF NextTool, NextTurn
      <4>2. Done = calls
        BY <2>0, <3>1, <4>1 DEF Answers, WithinTurn, Done, InTools
      <4>3. \A i \in Turns : Complete(i)
        BY <4>1, <4>2, TurnComplete DEF InTools, LoopInv
      <4> QED BY <4>1, <4>3 DEF Answers, Turns, Complete, ToolResult, InTools
    <3>2. CASE ~(call > calls)
      BY <2>8, <3>2, SameAnswers DEF NextTool, Leave, Done, InTools
    <3> QED BY <2>0, <2>8, <3>1, <3>2 DEF NextTool
  <2>9. CASE ExecuteTool
    <3>1. CASE session' = Append(session, ToolResult(call, FALSE)) /\ pc' = "poll"
      BY <2>9, <2>tool, <3>1 DEF ExecuteTool, Done, InTools, LoopInv, Control
    <3>2. CASE UNCHANGED session /\ pc' = "exit" /\ outcome' \in {"aborted", "error"}
      BY <2>9, <3>2, SameAnswers DEF ExecuteTool, InTools
    <3> QED BY <2>9, <3>1, <3>2 DEF ExecuteTool, Leave
  <2>10. CASE PollSteering
    <3>1. /\ UNCHANGED <<session, base, calls>> /\ pc' \in {"skip", "tool"} /\ pc = "poll"
          /\ call' = call + 1
      BY <2>10 DEF PollSteering
    <3> QED BY <2>0, <3>1, SameAnswers DEF Done, InTools
  <2>11. CASE SkipTool
    <3>1. CASE call <= calls /\ session' = Append(session, ToolResult(call, TRUE)) /\ call' = call + 1
                /\ UNCHANGED pc
      <4>1. pc = "skip" /\ pc' = "skip" /\ UNCHANGED <<base, calls>>
        BY <2>11, <3>1 DEF SkipTool
      <4>2. Done = call - 1 /\ Done' = call /\ pc \in InTools /\ pc' \in InTools
        BY <2>0, <3>1, <4>1 DEF Done, InTools
      <4> QED BY <2>tool, <3>1, <4>1, <4>2
    <3>2. CASE Leave("error") /\ UNCHANGED session
      BY <2>11, <3>2, SameAnswers DEF SkipTool, Leave, InTools
    <3>3. CASE call > calls /\ NextTurn /\ UNCHANGED session
      <4>1. UNCHANGED <<session, base>> /\ pc' = "top" /\ pc = "skip"
        BY <2>11, <3>3 DEF SkipTool, NextTurn
      <4>2. Done = calls
        BY <2>0, <3>3, <4>1 DEF Answers, WithinTurn, Done, InTools
      <4>3. \A i \in Turns : Complete(i)
        BY <4>1, <4>2, TurnComplete DEF InTools, LoopInv
      <4> QED BY <4>1, <4>3 DEF Answers, Turns, Complete, ToolResult, InTools
    <3> QED BY <2>11, <3>1, <3>2, <3>3 DEF SkipTool
  <2> QED BY <2>1, <2>2, <2>3, <2>4, <2>5, <2>6, <2>7, <2>8, <2>9, <2>10, <2>11
             DEF Next, RunStep
<1> QED BY <1>1, <1>2, LoopInvariant, PTL DEF Spec

(* Whenever the provider is called each tool call of the run has its one result,
   right behind the answer that made it, however many tools were skipped. *)
THEOREM CallsAreAnswered == Spec => []CallsAnswered
<1>1. Answers => CallsAnswered
  BY DEF Answers, BetweenTurns, InTools, CallsAnswered, Complete
<1> QED BY <1>1, AnswersInvariant, PTL


-----------------------------------------------------------------------------
(* What a steering message does to a turn: SteeringSkips. *)

(* The tools a turn skips are its last ones, and a steering message follows. *)
Skips(i) ==
  \A k \in 1..session[i].calls :
    i + k <= Len(session) /\ session[i + k] = ToolResult(k, TRUE) =>
      /\ k > 1
      /\ \A l \in k..session[i].calls :
           i + l <= Len(session) => session[i + l] = ToolResult(l, TRUE)
      /\ LET next == i + session[i].calls + 1
         IN next <= Len(session) => IsUser(next) /\ kind[session[next].msg] = "steer"

EndsSkipped == Len(session) > base /\ \E k \in Nat : session[Len(session)] = ToolResult(k, TRUE)
SteerNext   == pending # <<>> /\ Head(pending) \in DOMAIN kind /\ kind[Head(pending)] = "steer"

(* The steering queue holds steering messages; the loop holds none while it works
   on a turn, and the one that interrupted a turn until it is in the session. *)
Steered ==
  /\ \A m \in Range(steering) : m \in DOMAIN kind /\ kind[m] = "steer"
  /\ pc \in {"request", "retry", "delay", "stop", "tool", "execute", "poll"} => pending = <<>>
  /\ pc = "skip" => call > 1 /\ SteerNext /\ session[Current + 1] = ToolResult(1, FALSE)
  /\ pc \in {"tool", "execute", "poll"} =>
       \A k \in 1..Done : session[Current + k] = ToolResult(k, FALSE)
  /\ EndsSkipped => pc \in {"exit", "idle"} \/ (pc \in {"skip", "top", "append"} /\ SteerNext)
  /\ \A i \in Turns : Skips(i)

(* The items of a session are told apart by their roles. *)
LEMMA Roles ==
  /\ \A k : ToolResult(k, TRUE).role = "toolResult" /\ ToolResult(k, FALSE).role = "toolResult"
  /\ \A k, l : ToolResult(k, TRUE) # ToolResult(l, FALSE)
  /\ \A n : Assistant(n).role = "assistant" /\ Assistant(n).calls = n
  /\ \A m : User(m).role = "user" /\ User(m).msg = m
BY DEF ToolResult, Assistant, User

(* The last item is what was appended. *)
LEMMA LastAppended ==
  ASSUME NEW s \in Seq(Items), NEW item PROVE Append(s, item)[Len(s) + 1] = item /\ Len(Append(s, item)) = Len(s) + 1
OBVIOUS

(* What an answer is followed by stays so when something is appended. *)
LEMMA AppendSkips ==
  ASSUME TypeOK, NEW item \in Items, session' = Append(session, item), base <= Len(session),
         UNCHANGED <<base, kind>>, NEW i \in Turns, Skips(i), Complete(i),
         EndsSkipped /\ i + session[i].calls = Len(session) =>
           item.role = "user" /\ kind[item.msg] = "steer"
  PROVE  Skips(i)'
<1> DEFINE c == session[i].calls
<1>1. /\ session \in Seq(Items) /\ base \in Nat /\ Len(session) \in Nat
      /\ i \in (base + 1)..Len(session) /\ session[i] \in Items /\ session[i].role = "assistant"
  BY DEF TypeOK, Turns
<1>2. c \in Nat
  BY <1>1, LoopConstants DEF Items, User, Assistant, ToolResult
<1> HIDE DEF c
<1>3. /\ Len(session)' = Len(session) + 1 /\ session'[Len(session) + 1] = item
      /\ \A j \in 1..Len(session) : session'[j] = session[j]
  BY <1>1
<1>4. session'[i] = session[i] /\ kind' = kind
  BY <1>1, <1>3
<1>5. \A l \in 1..c : i + l \in 1..Len(session) /\ session'[i + l] = session[i + l]
  <2>1. \A l \in 1..c : i + l <= Len(session)
    BY DEF Complete, c
  <2> QED BY <1>1, <1>2, <1>3, <2>1
<1>6. ASSUME NEW k \in 1..c, session[i + k] = ToolResult(k, TRUE)
      PROVE  /\ k > 1
             /\ \A l \in k..c : session[i + l] = ToolResult(l, TRUE)
             /\ i + c + 1 <= Len(session) =>
                  IsUser(i + c + 1) /\ kind[session[i + c + 1].msg] = "steer"
  <2>1. i + k <= Len(session) /\ \A l \in k..c : l \in 1..c /\ i + l <= Len(session)
    BY <1>2, <1>5
  <2> QED BY <1>6, <2>1 DEF Skips, c
<1>7. ASSUME NEW k \in 1..c, session[i + k] = ToolResult(k, TRUE), i + c + 1 <= Len(session)'
      PROVE  session'[i + c + 1].role = "user" /\ kind[session'[i + c + 1].msg] = "steer"
  <2>1. CASE i + c + 1 <= Len(session)
    <3>1. i + c + 1 \in 1..Len(session)
      BY <1>1, <1>2, <2>1
    <3> QED BY <1>3, <1>6, <1>7, <2>1, <3>1 DEF IsUser
  <2>2. CASE ~(i + c + 1 <= Len(session))
    <3>1. i + c = Len(session) /\ i + c + 1 = Len(session) + 1 /\ c \in 1..c /\ c \in k..c
      <4>1. i \in Nat /\ c \in Nat /\ 1 <= k /\ k <= c /\ k \in Nat
        BY <1>1, <1>2
      <4>2. Len(session) \in Nat /\ i + c + 1 <= Len(session) + 1 /\ ~(i + c + 1 <= Len(session))
        BY <1>1, <1>3, <1>7, <2>2
      <4> QED BY <4>1, <4>2
    <3>2. session[Len(session)] = ToolResult(c, TRUE)
      BY <1>6, <1>7, <3>1
    <3>3. EndsSkipped
      <4>1. Len(session) > base
        BY <1>1
      <4> QED BY <1>2, <3>2, <4>1 DEF EndsSkipped
    <3> QED BY <1>3, <3>1, <3>3 DEF c
  <2> QED BY <2>1, <2>2
<1>8. ASSUME NEW k \in 1..c, session'[i + k] = ToolResult(k, TRUE)
      PROVE  /\ k > 1
             /\ \A l \in k..c : i + l <= Len(session)' => session'[i + l] = ToolResult(l, TRUE)
             /\ i + c + 1 <= Len(session)' =>
                  session'[i + c + 1].role = "user" /\ kind'[session'[i + c + 1].msg] = "steer"
  <2>1. session[i + k] = ToolResult(k, TRUE)
    BY <1>5, <1>8
  <2>2. \A l \in k..c : l \in 1..c
    BY <1>2
  <2>3. \A l \in k..c : session'[i + l] = ToolResult(l, TRUE)
    BY <1>5, <1>6, <2>1, <2>2
  <2> QED BY <1>4, <1>6, <1>7, <2>1, <2>3
<1> QED BY <1>4, <1>8 DEF Skips, IsUser, ToolResult, c

(* Steps that leave the session alone keep what its answers are followed by. *)
LEMMA SameSkips ==
  ASSUME Steered, UNCHANGED <<session, base, kind, steering>>,
         pc' \in {"request", "retry", "delay", "stop", "tool", "execute", "poll"} => pending' = <<>>,
         pc' = "skip" => pc = "skip" /\ UNCHANGED <<call, pending>>,
         pc' \in {"tool", "execute", "poll"} =>
           pc \in {"tool", "execute", "poll"} /\ Done' = Done,
         \/ pc' \in {"exit", "idle"}
         \/ pc \notin {"exit", "idle", "skip", "top", "append"}
         \/ pc' \in {"skip", "top", "append"} /\ pending' = pending /\ pc \notin {"exit", "idle"}
         \/ pc = "append" /\ pending = <<>>
  PROVE  Steered'
<1>1. Turns' = Turns /\ \A i \in Turns : Skips(i)' = Skips(i)
  BY DEF Turns, Skips, IsUser, ToolResult
<1>2. EndsSkipped' = EndsSkipped
  BY DEF EndsSkipped, ToolResult
<1>3. Range(steering)' = Range(steering)
  OBVIOUS
<1>4. pc' = "skip" => Current' = Current /\ Done' = Done /\ SteerNext' = SteerNext
  BY DEF Current, Done, SteerNext
<1>5. pc' \in {"tool", "execute", "poll"} => Current' = Current
  BY DEF Current
<1>6. /\ pc' = "skip" => (call > 1 /\ SteerNext /\ session[Current + 1] = ToolResult(1, FALSE))'
      /\ pc' \in {"tool", "execute", "poll"} =>
           \A k \in 1..Done' : session'[Current' + k] = ToolResult(k, FALSE)
  BY <1>4, <1>5 DEF Steered, ToolResult
<1>7. EndsSkipped' => pc' \in {"exit", "idle"} \/ (pc' \in {"skip", "top", "append"} /\ SteerNext')
  BY <1>2 DEF Steered, SteerNext
<1> QED BY <1>1, <1>3, <1>6, <1>7 DEF Steered, ToolResult


(* The head of what is dequeued is the head of the queue. *)
LEMMA HeadTaken ==
  ASSUME NEW q \in Seq(Msgs), q # <<>>, NEW n \in Taken(q)
  PROVE  /\ SubSeq(q, 1, n) # <<>> /\ Head(SubSeq(q, 1, n)) \in Range(q)
         /\ Range(SubSeq(q, n + 1, Len(q))) \subseteq Range(q)
<1>1. n \in 1..Len(q)
  BY DEF Taken
<1>2. /\ Len(SubSeq(q, 1, n)) = n /\ SubSeq(q, 1, n)[1] = q[1] /\ 1 \in DOMAIN q
      /\ Head(SubSeq(q, 1, n)) = q[1] /\ SubSeq(q, 1, n) # <<>>
  BY <1>1
<1>3. /\ DOMAIN SubSeq(q, n + 1, Len(q)) = 1..(Len(q) - n)
      /\ \A j \in 1..(Len(q) - n) : SubSeq(q, n + 1, Len(q))[j] = q[n + j] /\ n + j \in DOMAIN q
  BY <1>1
<1> QED BY <1>2, <1>3 DEF Range

(* While skipped tools end the session, they belong to the answer being worked on. *)
LEMMA SkippedIsCurrent ==
  ASSUME TypeOK, base <= Len(session), pc = "skip", call > 1, WithinTurn,
         NEW i \in Turns \ {Current}, Complete(i)
  PROVE  i + session[i].calls # Len(session)
<1> DEFINE c == session[i].calls
<1>1. /\ session \in Seq(Items) /\ base \in Nat /\ Len(session) \in Nat /\ call \in Nat
      /\ i \in (base + 1)..Len(session) /\ session[i] \in Items /\ session[i].role = "assistant"
  BY DEF TypeOK, Turns
<1>2. c \in Nat
  BY <1>1, LoopConstants DEF Items, User, Assistant, ToolResult
<1>3. /\ Done = call - 1 /\ Current = Len(session) - Done /\ Done \in Nat /\ Done >= 1
      /\ Current \in (base + 1)..Len(session) /\ session[Current] = Assistant(calls) /\ calls \in Nat
  BY <1>1 DEF WithinTurn, Done, Current, Turns, TypeOK
<1>4. SUFFICES ASSUME i + c = Len(session) PROVE FALSE
  OBVIOUS
<1>5. CASE i < Current
  <2>1. PICK k \in 1..c : i + k = Current
    <3>1. /\ Current \in Nat /\ i \in Nat /\ Len(session) \in Nat
          /\ Current <= Len(session) /\ i + c = Len(session)
      BY <1>1, <1>3, <1>4
    <3> HIDE DEF Current, c
    <3>2. Current - i \in 1..c /\ i + (Current - i) = Current
      BY <1>2, <1>5, <3>1
    <3> QED BY <3>2
  <2>2. session[i + k] \in {ToolResult(k, FALSE), ToolResult(k, TRUE)}
    BY <2>1 DEF Complete
  <2> QED BY <1>3, <2>1, <2>2, Roles
<1>6. CASE i > Current
  <2>1. i - Current \in 1..Done /\ Current + (i - Current) = i
    <3>1. Current \in Nat /\ Done \in Nat /\ Current + Done = Len(session) /\ i \in Nat /\ i <= Len(session)
      BY <1>1, <1>3
    <3> HIDE DEF Current, Done
    <3> QED BY <1>1, <1>6, <3>1
  <2>2. PICK k \in 1..Done : Current + k = i
    BY <2>1
  <2>3. session[i] \in {ToolResult(k, FALSE), ToolResult(k, TRUE)}
    BY <2>2 DEF WithinTurn
  <2> QED BY <1>1, <2>3, Roles
<1> QED BY <1>1, <1>3, <1>5, <1>6

LoopState == LoopInv /\ Once /\ Answers

(* Steering takes effect behind the tool that was running, at once. *)
LEMMA SteeredInvariant == Spec => []Steered
<1>1. Init => Steered
  BY NothingInEmpty DEF Init, Steered, EndsSkipped, Turns
<1>2. LoopState /\ LoopInv' /\ Answers' /\ Steered /\ [Next]_vars => Steered'
  <2> SUFFICES ASSUME LoopState, LoopInv', Answers', Steered, [Next]_vars PROVE Steered'
    OBVIOUS
  <2> USE DEF queueVars, abortVars, runVars, histVars
  <2>0. /\ TypeOK /\ session \in Seq(Items) /\ base \in Nat /\ base <= Len(session)
        /\ Len(session) \in Nat /\ calls \in Nat /\ call \in Nat /\ kind \in Seq({"prompt", "steer", "followUp"})
        /\ steering \in Seq(Msgs) /\ followUp \in Seq(Msgs) /\ pending \in Seq(Msgs)
    BY DEF LoopState, LoopInv, TypeOK, Answers
  <2>kinds. /\ \A i \in Turns, n \in 1..Len(session) : IsUser(n) => session[n].msg \in DOMAIN kind
            /\ Range(pending) \subseteq DOMAIN kind
    <3>1. DOMAIN kind = 1..Len(kind) /\ DOMAIN session = 1..Len(session)
      BY <2>0
    <3>2. Delivered \cup StillWaiting \subseteq DOMAIN kind
      BY <3>1 DEF LoopState, Once, Apart
    <3>3. \A n \in 1..Len(session) : IsUser(n) => session[n].msg \in Delivered
      BY <3>1 DEF Delivered
    <3> QED BY <3>2, <3>3 DEF StillWaiting
  <2>accept. ASSUME NEW k \in {"prompt", "steer", "followUp"}, Accept(k)
             PROVE  /\ \A m \in DOMAIN kind : m \in DOMAIN kind' /\ kind'[m] = kind[m]
                    /\ NewMsg \in DOMAIN kind' /\ kind'[NewMsg] = k /\ NewMsg \in Msgs
    <3>1. kind' = Append(kind, k) /\ Len(kind) < MaxMsgs /\ Len(kind) \in Nat /\ MaxMsgs \in Nat
      BY <2>0, <2>accept, LoopConstants DEF Accept
    <3>2. /\ \A m \in DOMAIN kind : m \in DOMAIN kind' /\ kind'[m] = kind[m]
          /\ Len(kind) + 1 \in DOMAIN kind' /\ kind'[Len(kind) + 1] = k
      BY <2>0, <3>1
    <3> QED BY <3>1, <3>2 DEF NewMsg, Msgs
  <2>1. CASE Prompt \/ Continue
    <3>1. /\ base' = Len(session) /\ session' = session /\ pc' \in {"prompt", "steering"}
          /\ steering' = steering
          /\ \A m \in DOMAIN kind : m \in DOMAIN kind' /\ kind'[m] = kind[m]
      <4>1. CASE Prompt
        BY <4>1, <2>accept DEF Prompt, EnterRun
      <4>2. CASE Continue
        BY <4>2 DEF Continue, EnterRun
      <4> QED BY <2>1, <4>1, <4>2
    <3>2. ~(Len(session)' > base') /\ (base + 1)'..Len(session)' = {}
      BY <2>0, <3>1
    <3>3. Turns' = {} /\ ~EndsSkipped'
      BY <3>2 DEF Turns, EndsSkipped
    <3>4. \A m \in Range(steering)' : m \in DOMAIN kind' /\ kind'[m] = "steer"
      BY <3>1 DEF Steered
    <3> QED BY <3>1, <3>3, <3>4 DEF Steered
  <2>2. CASE Steer \/ FollowUp
    <3>1. /\ UNCHANGED <<session, base, pc, pending, call, calls>>
          /\ \A m \in DOMAIN kind : m \in DOMAIN kind' /\ kind'[m] = kind[m]
      BY <2>2, <2>accept DEF Steer, FollowUp
    <3>2. \A m \in Range(steering)' : m \in DOMAIN kind' /\ kind'[m] = "steer"
      <4>1. CASE Steer
        <5>1. /\ steering' = Append(steering, NewMsg) /\ NewMsg \in Msgs
              /\ NewMsg \in DOMAIN kind' /\ kind'[NewMsg] = "steer"
          BY <4>1, <2>accept DEF Steer
        <5>2. Range(steering') \subseteq Range(steering) \cup {NewMsg}
          BY <2>0, <5>1 DEF Range
        <5> QED BY <3>1, <5>1, <5>2 DEF Steered
      <4>2. CASE FollowUp
        BY <3>1, <4>2 DEF Steered, FollowUp
      <4> QED BY <2>2, <4>1, <4>2
    <3>3. Turns' = Turns /\ Current' = Current /\ Done' = Done /\ EndsSkipped' = EndsSkipped
      BY <3>1 DEF Turns, Current, Done, EndsSkipped, ToolResult
    <3>4. SteerNext => SteerNext'
      BY <3>1 DEF SteerNext
    <3>5. ASSUME NEW i \in Turns, Skips(i) PROVE Skips(i)'
      <4>1. i \in Nat /\ session[i].calls \in Nat
        BY <2>0, LoopConstants DEF Turns, Items, User, Assistant, ToolResult
      <4>2. i + session[i].calls + 1 \in Nat /\ i + session[i].calls + 1 >= 1
        BY <4>1
      <4>3. i + session[i].calls + 1 <= Len(session) => i + session[i].calls + 1 \in 1..Len(session)
        BY <2>0, <4>2
      <4> QED BY <2>kinds, <3>1, <3>5, <4>3 DEF Skips, IsUser, ToolResult
    <3> QED BY <3>1, <3>2, <3>3, <3>4, <3>5 DEF Steered, ToolResult
  <2>3. CASE Abort \/ AbortRetry \/ UNCHANGED vars
    <3>1. UNCHANGED <<session, base, kind, steering, pc, pending, call>>
      BY <2>3 DEF Abort, AbortRetry, vars
    <3> QED BY <3>1, SameSkips DEF Steered, Done
  <2>between. ASSUME NEW item \in Items, session' = Append(session, item), BetweenTurns,
                     UNCHANGED <<base, kind, steering>>,
                     EndsSkipped => item.role = "user" /\ kind[item.msg] = "steer"
              PROVE  /\ item.role # "assistant" => \A i \in Turns' : Skips(i)'
                     /\ \A i \in Turns : Skips(i)'
    <3>1. \A i \in Turns : Skips(i) /\ Complete(i)
      BY <2>between DEF Steered, LoopState, Answers
    <3>2. \A i \in Turns : Skips(i)'
      BY <2>0, <2>between, <3>1, AppendSkips
    <3>3. item.role # "assistant" => Turns' = Turns
      BY <2>0, <2>between, AppendAnswers
    <3> QED BY <3>2, <3>3
  <2>user. ASSUME NEW m \in Msgs, session' = Append(session, User(m)), BetweenTurns,
                  UNCHANGED <<base, kind, steering>>, pc' \in {"steering", "append"},
                  EndsSkipped => kind[m] = "steer"
           PROVE  Steered'
    <3>1. User(m) \in Items /\ User(m).role = "user" /\ User(m).msg = m
      BY ItemTypes DEF User
    <3>2. \A i \in Turns' : Skips(i)'
      BY <2>user, <2>between, <3>1
    <3>3. session'[Len(session)'] = User(m)
      BY <2>0, <2>user
    <3>4. ~EndsSkipped'
      BY <2>user, <3>3, Roles DEF EndsSkipped
    <3> QED BY <2>user, <3>2, <3>4 DEF Steered
  <2>4. CASE AppendPrompt
    <3>1. CASE session' = Append(session, User(prompt)) /\ pc' = "steering"
      <4>1. prompt \in Msgs /\ pc = "prompt" /\ UNCHANGED <<base, kind, steering>>
        BY <2>4 DEF AppendPrompt, LoopState, LoopInv, Control, TypeOK, Msgs
      <4>2. ~EndsSkipped /\ BetweenTurns
        BY <4>1 DEF Steered, BetweenTurns, InTools
      <4> QED BY <2>user, <3>1, <4>1, <4>2
    <3>2. CASE Leave("error") /\ UNCHANGED session
      BY <2>4, <3>2, SameSkips DEF AppendPrompt, Leave
    <3> QED BY <2>4, <3>1, <3>2 DEF AppendPrompt
  <2>5. CASE AppendPending
    <3>1. CASE pending # <<>> /\ session' = Append(session, User(Head(pending))) /\ UNCHANGED pc
      <4>1. Head(pending) \in Msgs /\ pc = "append" /\ UNCHANGED <<base, kind, steering>>
        BY <2>0, <2>5, <3>1 DEF AppendPending
      <4>2. BetweenTurns /\ (EndsSkipped => kind[Head(pending)] = "steer")
        BY <4>1 DEF Steered, SteerNext, BetweenTurns, InTools
      <4> QED BY <2>user, <3>1, <4>1, <4>2
    <3>2. CASE UNCHANGED session /\ pc' = "exit"
      BY <2>5, <3>2, SameSkips DEF AppendPending
    <3>3. CASE UNCHANGED session /\ pc' = "request"
      BY <2>5, <3>3, SameSkips DEF AppendPending, Leave
    <3> QED BY <2>5, <3>1, <3>2, <3>3 DEF AppendPending, Leave
  <2>take. ASSUME NEW q \in Seq(Msgs), q # <<>>, NEW n \in Taken(q), pending' = SubSeq(q, 1, n),
                  UNCHANGED <<session, base, kind>>, Range(steering') \subseteq Range(steering),
                  pc \in {"steering", "followUp", "stop"}, pc' \in {"register", "top"}
           PROVE  Steered'
    <3>1. Turns' = Turns /\ \A i \in Turns : Skips(i)' = Skips(i)
      BY <2>take DEF Turns, Skips, IsUser, ToolResult
    <3>2. ~EndsSkipped /\ EndsSkipped' = EndsSkipped
      BY <2>take DEF EndsSkipped, ToolResult, Steered
    <3> QED BY <2>take, <3>1, <3>2 DEF Steered
  <2>6. CASE TakeSteering
    <3>1. CASE steering # <<>>
      <4>1. PICK n \in Taken(steering) : Dequeue(steering, n)
        BY <2>6, <3>1 DEF TakeSteering
      <4>2. Range(steering') \subseteq Range(steering)
        BY <2>0, <3>1, <4>1, HeadTaken DEF Dequeue
      <4> QED BY <2>0, <2>6, <2>take, <3>1, <4>1, <4>2 DEF TakeSteering, Dequeue
    <3>2. CASE steering = <<>>
      BY <2>6, <3>2, SameSkips DEF TakeSteering
    <3> QED BY <3>1, <3>2
  <2>7. CASE TakeFollowUp
    <3>1. CASE followUp # <<>> /\ LastRole = "assistant"
      <4>1. PICK n \in Taken(followUp) : Dequeue(followUp, n)
        BY <2>7, <3>1 DEF TakeFollowUp
      <4> QED BY <2>0, <2>7, <2>take, <3>1, <4>1 DEF TakeFollowUp, Dequeue
    <3>2. CASE ~(followUp # <<>> /\ LastRole = "assistant")
      BY <2>7, <3>2, SameSkips DEF TakeFollowUp
    <3> QED BY <3>1, <3>2
  <2>8. CASE StopOrFollowUp
    <3>1. CASE followUp # <<>>
      <4>1. PICK n \in Taken(followUp) : Dequeue(followUp, n)
        BY <2>8, <3>1 DEF StopOrFollowUp
      <4> QED BY <2>0, <2>8, <2>take, <3>1, <4>1 DEF StopOrFollowUp, Dequeue, NextTurn
    <3>2. CASE followUp = <<>>
      BY <2>8, <3>2, SameSkips DEF StopOrFollowUp, Leave
    <3> QED BY <3>1, <3>2
  <2>9. CASE Register \/ StartDelay \/ Exit
    BY <2>9, SameSkips DEF Register, StartDelay, Exit, Steered
  <2>10. CASE TopOfLoop
    BY <2>10, SameSkips DEF TopOfLoop, Leave
  <2>11. CASE Failed \/ EndDelay
    <3>1. /\ UNCHANGED <<session, base, kind, steering>> /\ pc \in {"request", "delay"}
          /\ \/ pc' = "exit"
             \/ pc' \in {"top", "retry"} /\ pending' = pending
      BY <2>11 DEF Failed, EndDelay, NextTurn, Leave
    <3> QED BY <3>1, SameSkips DEF Steered
  <2>12. CASE Answered
    <3>1. PICK n \in 0..MaxCalls : /\ session' = Append(session, Assistant(n))
                                   /\ calls' = n /\ call' = 1
                                   /\ pc' = IF n = 0 THEN "stop" ELSE "tool"
      BY <2>12 DEF Answered
    <3>2. /\ Assistant(n) \in Items /\ Assistant(n).role = "assistant" /\ Assistant(n).calls = n
          /\ pc = "request" /\ UNCHANGED <<base, kind, steering, pending>> /\ n \in Nat
      BY <2>12, ItemTypes, LoopConstants DEF Assistant, Answered
    <3>3. pending = <<>> /\ ~EndsSkipped /\ BetweenTurns
      BY <3>2 DEF Steered, BetweenTurns, InTools
    <3>4. \A i \in Turns : Skips(i)'
      BY <2>between, <3>1, <3>2, <3>3
    <3>5. /\ Len(session)' = Len(session) + 1 /\ session'[Len(session) + 1] = Assistant(n)
          /\ Turns' = Turns \cup {Len(session) + 1}
      BY <2>0, <3>1, <3>2, AppendAnswers
    <3>6. PICK last \in Nat : last = Len(session) + 1
      BY <2>0
    <3>7. Skips(last)'
      BY <3>2, <3>5, <3>6 DEF Skips
    <3>8. ~EndsSkipped'
      <4>1. session'[Len(session)'] = Assistant(n)
        BY <3>5
      <4>2. \A k \in Nat : Assistant(n) # ToolResult(k, TRUE)
        BY Roles
      <4> QED BY <4>1, <4>2 DEF EndsSkipped, ToolResult
    <3>9. pc' \in {"tool", "execute", "poll"} => 1..Done' = {}
      BY <3>1 DEF Done
    <3>10. pc' \in {"stop", "tool"} /\ pending' = <<>>
      BY <3>1, <3>2, <3>3
    <3> QED BY <3>2, <3>4, <3>5, <3>6, <3>7, <3>8, <3>9, <3>10 DEF Steered
  <2>tool. ASSUME pc \in InTools, Done = call - 1, call <= calls, call >= 1, NEW s \in BOOLEAN,
                  session' = Append(session, ToolResult(call, s)),
                  UNCHANGED <<base, kind, steering, calls>>,
                  pc' \in InTools, Done' = call,
                  s <=> pc = "skip"
           PROVE  /\ \A i \in Turns' : Skips(i)'
                  /\ Current' = Current /\ session'[Current + call] = ToolResult(call, s)
                  /\ \A k \in 1..Done : session'[Current + k] = session[Current + k]
    <3>1. ToolResult(call, s) \in Items /\ ToolResult(call, s).role # "assistant"
      <4>1. call \in 1..MaxCalls
        BY <2>0, <2>tool, LoopConstants DEF TypeOK
      <4> QED BY <2>tool, <4>1, ItemTypes DEF ToolResult
    <3>2. /\ Len(session)' = Len(session) + 1 /\ Turns' = Turns
          /\ \A j \in DOMAIN session : session'[j] = session[j]
          /\ session'[Len(session) + 1] = ToolResult(call, s)
      BY <2>0, <2>tool, <3>1, AppendAnswers
    <3>3. /\ WithinTurn /\ \A i \in Turns \ {Current} : Complete(i)
      BY <2>tool DEF LoopState, Answers
    <3>4. /\ Current \in (base + 1)..Len(session) /\ session[Current] = Assistant(calls)
          /\ Done \in Nat /\ Current + Done = Len(session)
      BY <2>0, <2>tool, <3>3 DEF WithinTurn, Turns, Current
    <3>5. Current' = Current /\ Current + call = Len(session) + 1
      <4>1. Current = Len(session) - (call - 1) /\ Current' = Len(session) + 1 - call
        <5>1. Len(session)' = Len(session) + 1 /\ Done' = call /\ Done = call - 1
          BY <2>tool, <3>2
        <5>2. Current = Len(session) - Done
          BY DEF Current
        <5>3. Current' = Len(session)' - Done'
          BY DEF Current
        <5> QED BY <2>0, <5>1, <5>2, <5>3
      <4> QED BY <2>0, <4>1
    <3>6. \A k \in 1..Done : Current + k \in DOMAIN session
      BY <2>0, <3>4
    <3>7. \A k \in 1..Done : session'[Current + k] = session[Current + k]
      BY <3>2, <3>6
    <3>8. ASSUME NEW i \in Turns \ {Current} PROVE Skips(i)'
      <4>1. Complete(i) /\ Skips(i)
        BY <3>3 DEF Steered
      <4>2. CASE pc = "skip"
        <5>1. i + session[i].calls # Len(session)
          BY <2>0, <3>3, <4>1, <4>2, SkippedIsCurrent DEF Steered
        <5> QED BY <2>0, <2>tool, <3>1, <4>1, <5>1, AppendSkips
      <4>3. CASE pc # "skip"
        <5>1. ~EndsSkipped
          BY <2>tool, <4>3 DEF Steered, InTools
        <5> QED BY <2>0, <2>tool, <3>1, <4>1, <5>1, AppendSkips
      <4> QED BY <4>2, <4>3
    <3>9. PICK t \in Turns : t = Current
      BY <3>3 DEF WithinTurn
    <3>10. t \in Nat /\ session'[t] = Assistant(calls) /\ Assistant(calls).calls = calls
      <4>1. t \in (base + 1)..Len(session) /\ session[t] = Assistant(calls) /\ DOMAIN session = 1..Len(session)
        BY <2>0, <3>4, <3>9
      <4>2. t \in Nat /\ t \in DOMAIN session
        BY <2>0, <4>1
      <4> QED BY <3>2, <4>1, <4>2, Roles
    <3>11. \A k \in 1..calls : t + k <= Len(session)' => k \in 1..call
      BY <2>0, <2>tool, <3>2, <3>5, <3>9, <3>10
    <3>12. ~(t + calls + 1 <= Len(session)')
      BY <2>0, <2>tool, <3>2, <3>5, <3>9, <3>10
    <3>13. ASSUME NEW k \in 1..call, session'[t + k] = ToolResult(k, TRUE)
           PROVE  k > 1 /\ \A l \in k..call : session'[t + l] = ToolResult(l, TRUE)
      <4>1. CASE pc # "skip"
        <5>1. ~s /\ pc \in {"tool", "execute", "poll"}
          BY <2>tool, <4>1 DEF InTools
        <5>2. \A l \in 1..Done : session'[t + l] = ToolResult(l, FALSE)
          BY <3>7, <3>9, <5>1 DEF Steered
        <5>3. k \in 1..Done \/ k = call
          BY <2>0, <2>tool
        <5>4. session'[t + k] = ToolResult(k, FALSE)
          BY <3>2, <3>5, <3>9, <5>1, <5>2, <5>3
        <5> QED BY <3>13, <5>4, Roles
      <4>2. CASE pc = "skip"
        <5>1. s = TRUE /\ call > 1 /\ session[t + 1] = ToolResult(1, FALSE) /\ 1 \in 1..Done
          <6>1. call > 1 /\ session[t + 1] = ToolResult(1, FALSE)
            BY <3>9, <4>2 DEF Steered
          <6>2. 1 \in 1..Done
            BY <2>0, <2>tool, <6>1
          <6> QED BY <2>tool, <4>2, <6>1, <6>2
        <5>2. session'[t + 1] = ToolResult(1, FALSE)
          BY <3>7, <3>9, <5>1
        <5>3. k > 1
          <6>1. ASSUME k = 1 PROVE FALSE
            <7>1. session'[t + 1] = ToolResult(1, TRUE)
              BY <3>13, <6>1
            <7> QED BY <5>2, <7>1 DEF ToolResult
          <6> QED BY <6>1
        <5>4. ASSUME NEW l \in k..call PROVE session'[t + l] = ToolResult(l, TRUE)
          <6>1. CASE l = call
            BY <3>2, <3>5, <3>9, <5>1, <6>1
          <6>2. CASE l # call
            <7>1. k \in 1..Done /\ l \in 1..Done /\ k \in 1..calls /\ l \in k..calls
              BY <2>0, <2>tool, <6>2
            <7>2. t + k <= Len(session) /\ t + l <= Len(session)
              BY <2>0, <3>4, <3>9, <7>1
            <7>3. session[t + k] = ToolResult(k, TRUE)
              BY <3>7, <3>9, <3>13, <7>1
            <7>4. Skips(t) /\ session[t].calls = calls
              BY <3>4, <3>9, <3>10 DEF Steered
            <7>5. session[t + l] = ToolResult(l, TRUE)
              BY <7>1, <7>2, <7>3, <7>4 DEF Skips
            <7> QED BY <3>7, <3>9, <7>1, <7>5
          <6> QED BY <6>1, <6>2
        <5> QED BY <5>3, <5>4
      <4> QED BY <4>1, <4>2
    <3>14. Skips(t)'
      <4>1. \A k \in 1..calls : \A l \in k..calls : t + l <= Len(session)' => l \in 1..calls
        BY <2>0
      <4>2. \A k \in 1..calls : \A l \in k..calls : t + l <= Len(session)' => l \in k..call
        BY <2>0, <3>11, <4>1
      <4> QED BY <3>10, <3>11, <3>12, <3>13, <4>2 DEF Skips, ToolResult
    <3> QED BY <3>2, <3>5, <3>7, <3>8, <3>9, <3>14
  <2>13. CASE NextTool
    <3>1. /\ UNCHANGED <<session, base, kind, steering, call, calls>> /\ pc = "tool"
          /\ \/ pc' \in {"top", "execute"} /\ pending' = pending
             \/ pc' = "exit"
      BY <2>13 DEF NextTool, NextTurn, Leave
    <3> QED BY <3>1, SameSkips DEF Done, Steered
  <2>14. CASE ExecuteTool
    <3>1. CASE session' = Append(session, ToolResult(call, FALSE)) /\ pc' = "poll"
      <4>1. /\ pc = "execute" /\ UNCHANGED <<base, kind, steering, calls, call, pending>>
            /\ call >= 1 /\ call <= calls
        BY <2>14, <3>1 DEF ExecuteTool, Leave, LoopState, LoopInv, Control, InTools
      <4>2. Done = call - 1 /\ Done' = call
        BY <3>1, <4>1 DEF Done
      <4>3. /\ \A i \in Turns' : Skips(i)'
            /\ Current' = Current /\ session'[Current + call] = ToolResult(call, FALSE)
            /\ \A k \in 1..Done : session'[Current + k] = session[Current + k]
        BY <2>tool, <3>1, <4>1, <4>2 DEF InTools
      <4>4. \A k \in 1..Done' : k \in 1..Done \/ k = call
        BY <2>0, <4>2
      <4>5. \A k \in 1..Done' : session'[Current' + k] = ToolResult(k, FALSE)
        BY <4>1, <4>3, <4>4 DEF Steered
      <4>6. session'[Len(session)'] = ToolResult(call, FALSE)
        BY <2>0, <3>1, LastAppended
      <4>7. ~EndsSkipped'
        BY <4>6, Roles DEF EndsSkipped
      <4>8. pending' = <<>>
        BY <4>1 DEF Steered
      <4> QED BY <3>1, <4>1, <4>3, <4>5, <4>7, <4>8 DEF Steered, ToolResult
    <3>2. CASE UNCHANGED session /\ pc' = "exit"
      BY <2>14, <3>2, SameSkips DEF ExecuteTool
    <3> QED BY <2>14, <3>1, <3>2 DEF ExecuteTool, Leave
  <2>15. CASE PollSteering
    <3>1. /\ UNCHANGED <<session, base, kind, calls>> /\ pc = "poll" /\ call' = call + 1
          /\ call >= 1 /\ Done = call
      BY <2>15 DEF PollSteering, LoopState, LoopInv, Control, InTools, Done
    <3>2. CASE steering # <<>>
      <4>1. PICK n \in Taken(steering) : Dequeue(steering, n)
        BY <2>15, <3>2 DEF PollSteering
      <4>2. /\ pc' = "skip" /\ pending' # <<>> /\ Head(pending') \in Range(steering)
            /\ Range(steering') \subseteq Range(steering)
        BY <2>0, <2>15, <3>2, <4>1, HeadTaken DEF Dequeue, PollSteering
      <4>3. SteerNext'
        BY <3>1, <4>2 DEF Steered, SteerNext
      <4>4. Done' = Done /\ Current' = Current /\ call' > 1
        BY <2>0, <3>1, <4>2 DEF Done, Current
      <4>5. session[Current + 1] = ToolResult(1, FALSE)
        <5>1. 1 \in 1..Done
          BY <2>0, <3>1
        <5> QED BY <3>1, <5>1 DEF Steered
      <4>6. Turns' = Turns /\ \A i \in Turns : Skips(i)' = Skips(i)
        BY <3>1 DEF Turns, Skips, IsUser, ToolResult
      <4>7. \A m \in Range(steering') : m \in DOMAIN kind' /\ kind'[m] = "steer"
        BY <3>1, <4>2 DEF Steered
      <4> QED BY <3>1, <4>2, <4>3, <4>4, <4>5, <4>6, <4>7 DEF Steered, ToolResult
    <3>3. CASE steering = <<>>
      <4>1. pc' = "tool" /\ UNCHANGED <<pending, steering>>
        BY <2>15, <3>3 DEF PollSteering
      <4>2. Done' = Done
        BY <2>0, <3>1, <4>1 DEF Done
      <4> QED BY <3>1, <4>1, <4>2, SameSkips DEF Steered
    <3> QED BY <3>2, <3>3
  <2>16. CASE SkipTool
    <3>1. CASE call <= calls /\ session' = Append(session, ToolResult(call, TRUE)) /\ call' = call + 1
                /\ UNCHANGED <<pc, pending>>
      <4>1. /\ pc = "skip" /\ pc' = "skip" /\ UNCHANGED <<base, kind, steering, calls>> /\ call > 1
        BY <2>16, <3>1 DEF SkipTool, Steered
      <4>2. Done = call - 1 /\ Done' = call /\ call >= 1 /\ 1 \in 1..Done /\ call' > 1
        BY <2>0, <3>1, <4>1 DEF Done
      <4>3. /\ \A i \in Turns' : Skips(i)'
            /\ Current' = Current
            /\ \A k \in 1..Done : session'[Current + k] = session[Current + k]
        BY <2>tool, <3>1, <4>1, <4>2 DEF InTools
      <4>4. session'[Current' + 1] = ToolResult(1, FALSE)
        BY <4>1, <4>2, <4>3 DEF Steered
      <4>5. SteerNext'
        BY <3>1, <4>1 DEF Steered, SteerNext
      <4> QED BY <4>1, <4>2, <4>3, <4>4, <4>5 DEF Steered, ToolResult
    <3>2. CASE Leave("error") /\ UNCHANGED session
      BY <2>16, <3>2, SameSkips DEF SkipTool, Leave
    <3>3. CASE NextTurn /\ UNCHANGED <<session, call, pending>>
      BY <2>16, <3>3, SameSkips DEF SkipTool, NextTurn
    <3> QED BY <2>16, <3>1, <3>2, <3>3 DEF SkipTool
  <2> QED BY <2>1, <2>2, <2>3, <2>4, <2>5, <2>6, <2>7, <2>8, <2>9, <2>10, <2>11, <2>12,
             <2>13, <2>14, <2>15, <2>16 DEF Next, RunStep
<1> QED BY <1>1, <1>2, OnceInvariant, AnswersInvariant, PTL DEF Spec, LoopState

(* Steering takes effect after the tool that is running: the rest of the turn is
   skipped as a whole, and the message that interrupted it comes next. *)
THEOREM SteeringIsNext == Spec => []SteeringSkips
<1>1. Steered => SteeringSkips
  BY DEF Steered, SteeringSkips, Skips
<1> QED BY <1>1, SteeredInvariant, PTL

-----------------------------------------------------------------------------
(* The loop implements MessageDelivery. *)

Increasing(q) == \A i, j \in DOMAIN q : i < j => q[i] < q[j]

(* The loop holds messages of one kind, older than those that wait in its queue. *)
Held(k, queue) == \A m \in Range(pending) : kind[m] = k /\ \A n \in Range(queue) : m < n

(* Queues and pendingMessages are in the order of acceptance, and a prompt waits
   only while nothing else is on its way into the session. *)
Queued ==
  /\ prompt # 0 => pc = "prompt" /\ kind[prompt] = "prompt"
  /\ pc \in {"idle", "prompt", "steering", "followUp", "exit"} => pending = <<>>
  /\ \A m \in Range(followUp) : kind[m] = "followUp"
  /\ Increasing(steering) /\ Increasing(followUp) /\ Increasing(pending)
  /\ Held("steer", steering) \/ Held("followUp", followUp)

(* Splitting a queue in order gives two, the first of older messages. *)
LEMMA SplitOrder ==
  ASSUME NEW q \in Seq(Msgs), q # <<>>, NEW n \in Taken(q), Increasing(q)
  PROVE  LET a == SubSeq(q, 1, n)
             b == SubSeq(q, n + 1, Len(q))
         IN /\ Increasing(a) /\ Increasing(b) /\ Range(a) \cup Range(b) = Range(q)
            /\ \A m \in Range(a) : \A l \in Range(b) : m < l
<1> DEFINE a == SubSeq(q, 1, n)
           b == SubSeq(q, n + 1, Len(q))
<1>1. n \in 1..Len(q) /\ Len(q) \in Nat /\ DOMAIN q = 1..Len(q)
  BY DEF Taken
<1>2. DOMAIN a = 1..n /\ \A i \in 1..n : a[i] = q[i] /\ i \in DOMAIN q
  BY <1>1
<1>3. DOMAIN b = 1..(Len(q) - n) /\ \A i \in 1..(Len(q) - n) : b[i] = q[n + i] /\ n + i \in DOMAIN q
  BY <1>1
<1> HIDE DEF a, b
<1>4. \A i, j \in DOMAIN q : i < j => q[i] < q[j]
  BY DEF Increasing
<1>5. Increasing(a)
  BY <1>2, <1>4 DEF Increasing
<1>6. Increasing(b)
  <2>1. ASSUME NEW i \in 1..(Len(q) - n), NEW j \in 1..(Len(q) - n), i < j PROVE b[i] < b[j]
    <3>1. n + i < n + j
      BY <1>1, <2>1
    <3> QED BY <1>3, <1>4, <3>1
  <2> QED BY <1>3, <2>1 DEF Increasing
<1>7. ASSUME NEW i \in 1..n, NEW j \in 1..(Len(q) - n) PROVE a[i] < b[j]
  <2>1. i < n + j
    BY <1>1
  <2> QED BY <1>2, <1>3, <1>4, <2>1
<1>8. \A m \in Range(a) : \A l \in Range(b) : m < l
  BY <1>2, <1>3, <1>7 DEF Range
<1>9. Range(a) \cup Range(b) = Range(q)
  <2>1. \A i \in DOMAIN q : i \in 1..n \/ (i - n \in 1..(Len(q) - n) /\ n + (i - n) = i)
    BY <1>1
  <2>2. \A i \in DOMAIN q : q[i] \in Range(a) \/ q[i] \in Range(b)
    BY <1>2, <1>3, <2>1 DEF Range
  <2> QED BY <1>2, <1>3, <2>2 DEF Range
<1> QED BY <1>5, <1>6, <1>8, <1>9 DEF a, b

(* A queue in order stays so with a newer message at its end. *)
LEMMA AppendOrder ==
  ASSUME NEW q \in Seq(Msgs), NEW m \in Msgs, \A n \in Range(q) : n < m, Increasing(q)
  PROVE  Increasing(Append(q, m)) /\ Range(Append(q, m)) = Range(q) \cup {m}
<1>1. /\ DOMAIN q = 1..Len(q) /\ DOMAIN Append(q, m) = DOMAIN q \cup {Len(q) + 1}
      /\ Append(q, m)[Len(q) + 1] = m /\ \A i \in DOMAIN q : Append(q, m)[i] = q[i] /\ i < Len(q) + 1
  OBVIOUS
<1>2. \A i \in DOMAIN q : q[i] < m
  BY DEF Range
<1>3. Range(Append(q, m)) = Range(q) \cup {m}
  BY <1>1 DEF Range
<1>4. \A i \in DOMAIN q : ~(Len(q) + 1 < i) /\ ~(Len(q) + 1 < Len(q) + 1)
  BY <1>1
<1>5. ASSUME NEW i \in DOMAIN Append(q, m), NEW j \in DOMAIN Append(q, m), i < j
      PROVE  Append(q, m)[i] < Append(q, m)[j]
  <2>1. i \in DOMAIN q
    BY <1>1, <1>4, <1>5
  <2>2. CASE j \in DOMAIN q
    BY <1>1, <1>5, <2>1, <2>2 DEF Increasing
  <2>3. CASE j = Len(q) + 1
    BY <1>1, <1>2, <2>1, <2>3
  <2> QED BY <1>1, <2>2, <2>3
<1> QED BY <1>3, <1>5 DEF Increasing

(* What is left of a queue in order is in order, and newer than its head. *)
LEMMA TailOrder ==
  ASSUME NEW q \in Seq(Msgs), q # <<>>, Increasing(q)
  PROVE  /\ Increasing(Tail(q)) /\ Range(q) = Range(Tail(q)) \cup {Head(q)}
         /\ \A n \in Range(Tail(q)) : Head(q) < n
<1>1. /\ DOMAIN Tail(q) = 1..(Len(q) - 1) /\ 1 \in DOMAIN q /\ Head(q) = q[1]
      /\ \A i \in 1..(Len(q) - 1) : Tail(q)[i] = q[i + 1] /\ i + 1 \in DOMAIN q /\ 1 < i + 1
      /\ \A i \in DOMAIN q : i = 1 \/ (i - 1 \in 1..(Len(q) - 1) /\ (i - 1) + 1 = i)
  OBVIOUS
<1>2. \A i, j \in 1..(Len(q) - 1) : i < j => i + 1 < j + 1
  OBVIOUS
<1>3. Increasing(Tail(q))
  BY <1>1, <1>2 DEF Increasing
<1>4. \A n \in Range(Tail(q)) : Head(q) < n
  BY <1>1 DEF Increasing, Range
<1>5. \A i \in DOMAIN q : q[i] = Head(q) \/ q[i] \in Range(Tail(q))
  BY <1>1 DEF Range
<1>6. Range(Tail(q)) \subseteq Range(q) /\ Head(q) \in Range(q)
  BY <1>1 DEF Range
<1>7. Range(q) \subseteq Range(Tail(q)) \cup {Head(q)}
  BY <1>5 DEF Range
<1> QED BY <1>3, <1>4, <1>6, <1>7

(* Steps that take nothing from a queue keep what is in them in order. *)
LEMMA SameOrder ==
  ASSUME Queued, UNCHANGED <<kind, steering, followUp>>, pending' \in {pending, <<>>},
         prompt' \in {prompt, 0}, prompt' # 0 => pc' = pc,
         pc' \in {"idle", "prompt", "steering", "followUp", "exit"} => pending' = <<>>
  PROVE  Queued'
<1>1. Increasing(pending)' /\ Range(pending)' \subseteq Range(pending)
  BY NothingInEmpty DEF Queued, Increasing
<1> QED BY <1>1 DEF Queued, Held, Increasing, Range

QueueState == LoopInv /\ Once /\ Steered

(* Messages wait in the order of acceptance, wherever they wait. *)
LEMMA QueuedInvariant == Spec => []Queued
<1>1. Init => Queued
  BY NothingInEmpty DEF Init, Queued, Increasing, Held
<1>2. QueueState /\ Queued /\ [Next]_vars => Queued'
  <2> SUFFICES ASSUME QueueState, Queued, [Next]_vars PROVE Queued'
    OBVIOUS
  <2> USE DEF queueVars, abortVars, runVars, histVars
  <2>0. /\ kind \in Seq({"prompt", "steer", "followUp"}) /\ Len(kind) \in Nat /\ DOMAIN kind = 1..Len(kind)
        /\ steering \in Seq(Msgs) /\ followUp \in Seq(Msgs) /\ pending \in Seq(Msgs)
        /\ StillWaiting \subseteq DOMAIN kind
    <3>1. kind \in Seq({"prompt", "steer", "followUp"})
      BY DEF QueueState, LoopInv, TypeOK
    <3> QED BY <3>1 DEF QueueState, LoopInv, TypeOK, Once, Apart
  <2>accept. ASSUME NEW k \in {"prompt", "steer", "followUp"}, Accept(k)
             PROVE  /\ \A m \in StillWaiting : kind'[m] = kind[m] /\ m < NewMsg
                    /\ kind'[NewMsg] = k /\ NewMsg \in Msgs /\ NewMsg # 0
    <3>1. kind' = Append(kind, k) /\ Len(kind) < MaxMsgs /\ MaxMsgs \in Nat
      BY <2>accept, LoopConstants DEF Accept
    <3>2. /\ \A m \in DOMAIN kind : kind'[m] = kind[m] /\ m < Len(kind) + 1
          /\ kind'[Len(kind) + 1] = k
      BY <2>0, <3>1
    <3> QED BY <2>0, <3>1, <3>2 DEF NewMsg, Msgs
  <2>waits. /\ Range(steering) \subseteq StillWaiting /\ Range(followUp) \subseteq StillWaiting
            /\ Range(pending) \subseteq StillWaiting
            /\ prompt # 0 => prompt \in StillWaiting
    BY DEF StillWaiting
  <2>1. CASE Prompt
    <3>1. /\ prompt' = NewMsg /\ pc' = "prompt" /\ pc = "idle" /\ Accept("prompt")
          /\ UNCHANGED <<steering, followUp, pending>>
      BY <2>1 DEF Prompt, EnterRun
    <3>2. kind'[NewMsg] = "prompt" /\ \A m \in StillWaiting : kind'[m] = kind[m]
      BY <2>accept, <3>1
    <3>3. \A m \in Range(followUp') : kind'[m] = "followUp"
      BY <2>waits, <3>1, <3>2 DEF Queued
    <3>4. pending' = <<>> /\ Held("steer", steering)'
      BY <3>1, NothingInEmpty DEF Queued, Held
    <3> QED BY <3>1, <3>2, <3>3, <3>4 DEF Queued, Increasing
  <2>2. CASE Continue
    BY <2>2, SameOrder DEF Continue, EnterRun, Queued
  <2>3. CASE Steer
    <3>1. /\ steering' = Append(steering, NewMsg) /\ Accept("steer")
          /\ UNCHANGED <<followUp, pending, prompt, pc>>
      BY <2>3 DEF Steer
    <3>2. /\ kind'[NewMsg] = "steer" /\ NewMsg \in Msgs
          /\ \A m \in StillWaiting : kind'[m] = kind[m] /\ m < NewMsg
      BY <2>accept, <3>1
    <3>3. Increasing(steering)' /\ Range(steering') = Range(steering) \cup {NewMsg}
      BY <2>0, <2>waits, <3>1, <3>2, AppendOrder DEF Queued
    <3>4. \A m \in Range(followUp') : kind'[m] = "followUp"
      BY <2>waits, <3>1, <3>2 DEF Queued
    <3>5. Held("steer", steering)' \/ Held("followUp", followUp)'
      <4>1. \A m \in Range(pending) : kind'[m] = kind[m] /\ m < NewMsg
        BY <2>waits, <3>2
      <4>2. ASSUME Held("steer", steering) PROVE Held("steer", steering)'
        BY <3>1, <3>3, <4>1, <4>2 DEF Held
      <4>3. ASSUME Held("followUp", followUp) PROVE Held("followUp", followUp)'
        BY <3>1, <3>3, <4>1, <4>3 DEF Held
      <4> QED BY <4>2, <4>3 DEF Queued
    <3>6. prompt' # 0 => pc' = "prompt" /\ kind'[prompt'] = "prompt"
      BY <2>waits, <3>1, <3>2 DEF Queued
    <3> QED BY <3>1, <3>3, <3>4, <3>5, <3>6 DEF Queued, Increasing
  <2>4. CASE FollowUp
    <3>1. /\ followUp' = Append(followUp, NewMsg) /\ Accept("followUp")
          /\ UNCHANGED <<steering, pending, prompt, pc>>
      BY <2>4 DEF FollowUp
    <3>2. /\ kind'[NewMsg] = "followUp" /\ NewMsg \in Msgs
          /\ \A m \in StillWaiting : kind'[m] = kind[m] /\ m < NewMsg
      BY <2>accept, <3>1
    <3>3. Increasing(followUp)' /\ Range(followUp') = Range(followUp) \cup {NewMsg}
      BY <2>0, <2>waits, <3>1, <3>2, AppendOrder DEF Queued
    <3>4. \A m \in Range(followUp') : kind'[m] = "followUp"
      BY <2>waits, <3>2, <3>3 DEF Queued
    <3>5. Held("steer", steering)' \/ Held("followUp", followUp)'
      <4>1. \A m \in Range(pending) : kind'[m] = kind[m] /\ m < NewMsg
        BY <2>waits, <3>2
      <4>2. ASSUME Held("steer", steering) PROVE Held("steer", steering)'
        BY <3>1, <3>3, <4>1, <4>2 DEF Held
      <4>3. ASSUME Held("followUp", followUp) PROVE Held("followUp", followUp)'
        BY <3>1, <3>3, <4>1, <4>3 DEF Held
      <4> QED BY <4>2, <4>3 DEF Queued
    <3>6. prompt' # 0 => pc' = "prompt" /\ kind'[prompt'] = "prompt"
      BY <2>waits, <3>1, <3>2 DEF Queued
    <3> QED BY <3>1, <3>3, <3>4, <3>5, <3>6 DEF Queued, Increasing
  <2>5. CASE Abort \/ AbortRetry \/ UNCHANGED vars
    BY <2>5, SameOrder DEF Abort, AbortRetry, vars, Queued
  <2>6. CASE AppendPrompt
    BY <2>6, SameOrder DEF AppendPrompt, Leave, Queued
  <2>takeSteering. ASSUME steering # <<>>, NEW n \in Taken(steering), Dequeue(steering, n),
                          UNCHANGED <<kind, followUp, prompt>>, pc # "prompt",
                          pc' \in {"register", "skip"}
                   PROVE  Queued'
    <3>1. /\ Increasing(pending)' /\ Increasing(steering)'
          /\ Range(pending') \cup Range(steering') = Range(steering)
          /\ \A m \in Range(pending') : \A l \in Range(steering') : m < l
      BY <2>0, <2>takeSteering, SplitOrder DEF Dequeue, Queued
    <3>2. \A m \in Range(steering) : kind'[m] = "steer"
      BY <2>takeSteering DEF QueueState, Steered
    <3>3. Held("steer", steering)'
      BY <3>1, <3>2 DEF Held
    <3> QED BY <2>takeSteering, <3>1, <3>3 DEF Queued, Increasing
  <2>takeFollowUp. ASSUME followUp # <<>>, NEW n \in Taken(followUp), Dequeue(followUp, n),
                          UNCHANGED <<kind, steering, prompt>>, pc # "prompt",
                          pc' \in {"register", "top"}
                   PROVE  Queued'
    <3>1. /\ Increasing(pending)' /\ Increasing(followUp)'
          /\ Range(pending') \cup Range(followUp') = Range(followUp)
          /\ \A m \in Range(pending') : \A l \in Range(followUp') : m < l
      BY <2>0, <2>takeFollowUp, SplitOrder DEF Dequeue, Queued
    <3>2. \A m \in Range(followUp) : kind'[m] = "followUp"
      BY <2>takeFollowUp DEF Queued
    <3>3. Held("followUp", followUp)' /\ \A m \in Range(followUp)' : kind'[m] = "followUp"
      BY <3>1, <3>2 DEF Held
    <3> QED BY <2>takeFollowUp, <3>1, <3>3 DEF Queued, Increasing
  <2>7. CASE TakeSteering
    BY <2>7, <2>takeSteering, SameOrder DEF TakeSteering, Queued
  <2>8. CASE TakeFollowUp
    BY <2>8, <2>takeFollowUp, SameOrder DEF TakeFollowUp, Queued
  <2>9. CASE Register \/ TopOfLoop
    BY <2>9, SameOrder DEF Register, TopOfLoop, Leave, Queued
  <2>10. CASE AppendPending
    <3>1. CASE pending # <<>> /\ pending' = Tail(pending) /\ UNCHANGED pc
      <4>1. UNCHANGED <<kind, steering, followUp, prompt>> /\ pc = "append"
        BY <2>10, <3>1 DEF AppendPending
      <4>2. Increasing(pending)' /\ Range(pending') \subseteq Range(pending)
        BY <2>0, <3>1, TailOrder DEF Queued
      <4> QED BY <3>1, <4>1, <4>2 DEF Queued, Held, Increasing
    <3>2. CASE \/ pc' = "exit" /\ pending' = <<>>
               \/ pc' = "request" /\ UNCHANGED pending
      BY <2>10, <3>2, SameOrder DEF AppendPending, Queued
    <3>3. \/ pending # <<>> /\ pending' = Tail(pending) /\ UNCHANGED pc
          \/ pc' = "exit" /\ pending' = <<>>
          \/ pc' = "request" /\ UNCHANGED pending
      BY <2>10 DEF AppendPending, Leave
    <3> QED BY <3>1, <3>2, <3>3
  <2>11. CASE Answered
    BY <2>11, SameOrder DEF Answered, Queued
  <2>12. CASE Failed \/ StartDelay \/ EndDelay
    BY <2>12, SameOrder DEF Failed, StartDelay, EndDelay, NextTurn, Leave, Queued
  <2>13. CASE StopOrFollowUp
    BY <2>13, <2>takeFollowUp, SameOrder DEF StopOrFollowUp, NextTurn, Leave, Queued
  <2>14. CASE NextTool \/ ExecuteTool \/ SkipTool
    BY <2>14, SameOrder DEF NextTool, ExecuteTool, SkipTool, NextTurn, Leave, Queued
  <2>15. CASE PollSteering
    BY <2>15, <2>takeSteering, SameOrder DEF PollSteering, Queued
  <2>16. CASE Exit
    BY <2>16, SameOrder DEF Exit, Queued
  <2> QED BY <2>1, <2>2, <2>3, <2>4, <2>5, <2>6, <2>7, <2>8, <2>9, <2>10, <2>11, <2>12,
             <2>13, <2>14, <2>15, <2>16 DEF Next, RunStep
<1> QED BY <1>1, <1>2, OnceInvariant, SteeredInvariant, PTL DEF Spec, QueueState

(* MessageDelivery's status, read off session, queues and pendingMessages. *)
StatusOf == [m \in Accepted |-> Status(m)]

(* There is a status for each accepted message. *)
LEMMA StatusType ==
  ASSUME kind \in Seq({"prompt", "steer", "followUp"})
  PROVE  /\ StatusOf \in Seq({"waiting", "delivered", "dropped"}) /\ Len(StatusOf) = Len(kind)
         /\ DOMAIN StatusOf = DOMAIN kind
<1>1. Accepted = 1..Len(kind) /\ Len(kind) \in Nat
  BY DEF Accepted
<1>2. \A m \in Accepted : Status(m) \in {"waiting", "delivered", "dropped"}
  BY DEF Status
<1> QED BY <1>1, <1>2 DEF StatusOf, Accepted

(* Messages that stay where they are, or only move to another queue, keep their status. *)
LEMMA StatusSame ==
  ASSUME UNCHANGED kind, Delivered' = Delivered, StillWaiting' = StillWaiting PROVE StatusOf' = StatusOf
BY DEF StatusOf, Accepted, Status

(* An accepted message is waiting. *)
LEMMA StatusAccepts ==
  ASSUME NEW k \in {"prompt", "steer", "followUp"}, kind \in Seq({"prompt", "steer", "followUp"}),
         kind' = Append(kind, k), Once, UNCHANGED session,
         StillWaiting' = StillWaiting \cup {NewMsg}
  PROVE  StatusOf' = Append(StatusOf, "waiting")
<1>1. Delivered' = Delivered
  BY DEF Delivered, IsUser
<1>2. Len(kind) \in Nat /\ NewMsg \notin 1..Len(kind)
  BY DEF NewMsg
<1>3. NewMsg \notin Delivered
  BY <1>2 DEF Once, Apart
<1>4. PICK new : new = NewMsg
  OBVIOUS
<1>5. Status(new)' = "waiting" /\ \A m \in 1..Len(kind) : Status(m)' = Status(m)
  BY <1>1, <1>2, <1>3, <1>4 DEF Status
<1>6. /\ Accepted = 1..Len(kind) /\ Accepted' = 1..(Len(kind) + 1) /\ new = Len(kind) + 1
      /\ Accepted' = Accepted \cup {new} /\ new \notin Accepted
  BY <1>2, <1>4 DEF Accepted, NewMsg
<1>7. StatusOf' = [m \in Accepted' |-> IF m = new THEN "waiting" ELSE StatusOf[m]]
  BY <1>5, <1>6 DEF StatusOf
<1>8. Append(StatusOf, "waiting") = [m \in 1..(Len(kind) + 1) |-> IF m = new THEN "waiting" ELSE StatusOf[m]]
  <2>1. StatusOf \in Seq({"waiting", "delivered", "dropped"}) /\ Len(StatusOf) = Len(kind)
    BY StatusType
  <2> DEFINE T == {"waiting", "delivered", "dropped"}
             f  == [m \in 1..(Len(kind) + 1) |-> IF m = new THEN "waiting" ELSE StatusOf[m]]
  <2>2. Append(StatusOf, "waiting") \in Seq(T) /\ Len(Append(StatusOf, "waiting")) = Len(kind) + 1
    BY <2>1
  <2>3. \A m \in 1..(Len(kind) + 1) : Append(StatusOf, "waiting")[m] = f[m]
    BY <1>2, <1>6, <2>1
  <2>4. f \in Seq(T) /\ Len(f) = Len(kind) + 1
    BY <1>2, <1>6, <2>1
  <2> HIDE DEF f
  <2>5. Append(StatusOf, "waiting") = f
    BY <2>2, <2>3, <2>4
  <2> QED BY <2>5 DEF f
<1> QED BY <1>6, <1>7, <1>8

(* A message moved to the session is delivered, all others keep their status. *)
LEMMA StatusDelivers ==
  ASSUME kind \in Seq({"prompt", "steer", "followUp"}), UNCHANGED kind,
         NEW m \in StillWaiting, Once, Delivered' = Delivered \cup {m},
         StillWaiting' = StillWaiting \ {m}
  PROVE  StatusOf[m] = "waiting" /\ StatusOf' = [StatusOf EXCEPT ![m] = "delivered"]
<1>1. m \in Accepted /\ m \notin Delivered
  BY DEF Once, Apart, Accepted
<1>2. Status(m) = "waiting" /\ Status(m)' = "delivered"
  BY <1>1 DEF Status
<1>3. \A n \in Accepted : n # m => Status(n)' = Status(n)
  BY DEF Status
<1> QED BY <1>1, <1>2, <1>3 DEF StatusOf, Accepted

(* Messages that are nowhere any more are dropped. *)
LEMMA StatusDrops ==
  ASSUME kind \in Seq({"prompt", "steer", "followUp"}), UNCHANGED <<kind, session>>, Once,
         StillWaiting' \subseteq StillWaiting
  PROVE  LET S == StillWaiting \ StillWaiting'
         IN /\ S \subseteq {m \in Accepted : StatusOf[m] = "waiting"}
            /\ StatusOf' = [m \in Accepted |-> IF m \in S THEN "dropped" ELSE StatusOf[m]]
<1>1. Delivered' = Delivered /\ Accepted' = Accepted
  BY DEF Delivered, IsUser, Accepted
<1>2. StillWaiting \subseteq Accepted /\ Delivered \cap StillWaiting = {}
  BY DEF Once, Apart, Accepted
<1>3. \A m \in Accepted : Status(m)' = IF m \in StillWaiting \ StillWaiting' THEN "dropped" ELSE Status(m)
  BY <1>1, <1>2 DEF Status
<1>4. \A m \in StillWaiting : Status(m) = "waiting"
  BY <1>2 DEF Status
<1> QED BY <1>1, <1>2, <1>3, <1>4 DEF StatusOf

(* An appended message is added to what a queue holds. *)
LEMMA AppendRange ==
  ASSUME NEW q \in Seq(Msgs), NEW m PROVE Range(Append(q, m)) = Range(q) \cup {m}
<1>1. /\ DOMAIN q = 1..Len(q) /\ DOMAIN Append(q, m) = DOMAIN q \cup {Len(q) + 1}
      /\ Append(q, m)[Len(q) + 1] = m /\ \A i \in DOMAIN q : Append(q, m)[i] = q[i]
  OBVIOUS
<1> QED BY <1>1 DEF Range

DeliveryState == LoopInv /\ Once /\ Steered /\ Queued

(* Every step of the loop is a step of MessageDelivery, or changes nothing there. *)
LEMMA StepDelivers == DeliveryState /\ [Next]_vars => [Delivery!Next]_(Delivery!vars)
<1> SUFFICES ASSUME DeliveryState, [Next]_vars PROVE [Delivery!Next]_(Delivery!vars)
  OBVIOUS
<1> USE DEF queueVars, abortVars, runVars, histVars
<1>0. /\ kind \in Seq({"prompt", "steer", "followUp"}) /\ DOMAIN kind = 1..Len(kind) /\ Once
      /\ steering \in Seq(Msgs) /\ followUp \in Seq(Msgs) /\ pending \in Seq(Msgs) /\ session \in Seq(Items)
      /\ StillWaiting \subseteq DOMAIN kind /\ 0 \notin StillWaiting
  <2>1. kind \in Seq({"prompt", "steer", "followUp"})
    BY DEF DeliveryState, LoopInv, TypeOK
  <2>2. DOMAIN kind = 1..Len(kind)
    BY <2>1
  <2>3. StillWaiting \subseteq DOMAIN kind
    BY <2>2 DEF DeliveryState, Once, Apart
  <2> QED BY <2>1, <2>2, <2>3 DEF DeliveryState, LoopInv, TypeOK, Once, Apart
<1>waits. \A m \in StillWaiting : StatusOf[m] = "waiting" /\ m \in DOMAIN kind
  BY <1>0 DEF StatusOf, Status, Accepted, Once, Apart
<1>status. \A m \in DOMAIN kind : StatusOf[m] = "waiting" => m \in StillWaiting
  BY DEF StatusOf, Status, Accepted
<1>same. ASSUME UNCHANGED <<kind, outcome>>, Delivered' = Delivered, StillWaiting' = StillWaiting
         PROVE  UNCHANGED Delivery!vars
  BY <1>same, StatusSame DEF Delivery!vars, StatusOf
<1>still. ASSUME UNCHANGED <<kind, session, steering, followUp, prompt, pending, outcome>>
          PROVE  UNCHANGED Delivery!vars
  BY <1>still, <1>same DEF Delivered, IsUser, StillWaiting
<1>other. ASSUME NEW item, item.role # "user", session' = Append(session, item),
                 UNCHANGED <<kind, steering, followUp, prompt, pending, outcome>>
          PROVE  UNCHANGED Delivery!vars
  <2>1. Delivered' = Delivered /\ StillWaiting' = StillWaiting
    BY <1>0, <1>other, SaidOther DEF StillWaiting
  <2> QED BY <1>other, <1>same, <2>1
<1>leave. ASSUME NEW r \in {"aborted", "error", "limit"}, Leave(r), prompt' \in {prompt, 0},
                 UNCHANGED <<kind, session, steering, followUp>>
          PROVE  Delivery!Next
  <2>1. StillWaiting' \subseteq StillWaiting
    BY <1>0, <1>leave, NothingInEmpty DEF Leave, StillWaiting
  <2>2. outcome' = r /\ r \in Delivery!Bad
    BY <1>leave DEF Leave, Delivery!Bad
  <2>3. CASE StillWaiting' = StillWaiting
    <3>1. StatusOf' = StatusOf
      BY <1>leave, <2>3, StatusSame DEF Delivered, IsUser
    <3> QED BY <1>leave, <2>2, <3>1 DEF Delivery!Next, Delivery!Finish, StatusOf
  <2>4. CASE StillWaiting' # StillWaiting
    <3> DEFINE S == StillWaiting \ StillWaiting'
    <3>1. /\ S \subseteq {m \in Accepted : StatusOf[m] = "waiting"}
          /\ StatusOf' = [m \in Accepted |-> IF m \in S THEN "dropped" ELSE StatusOf[m]]
      BY <1>0, <1>leave, <2>1, StatusDrops
    <3>2. S # {}
      BY <2>1, <2>4
    <3> HIDE DEF S
    <3>3. Delivery!Drop(r)
      BY <1>leave, <2>2, <3>1, <3>2
         DEF Delivery!Drop, Delivery!Messages, Delivery!Waiting, StatusOf, Accepted
    <3> QED BY <2>2, <3>3 DEF Delivery!Next
  <2> QED BY <2>3, <2>4
<1>deliver. ASSUME NEW m \in StillWaiting, session' = Append(session, User(m)), m \in Msgs,
                   StillWaiting' = StillWaiting \ {m}, UNCHANGED <<kind, outcome>>,
                   \A n \in StillWaiting : n < m => kind[n] # kind[m]
            PROVE  Delivery!Next
  <2>1. Delivered' = Delivered \cup {m}
    BY <1>0, <1>deliver, SaidUser
  <2>2. StatusOf[m] = "waiting" /\ StatusOf' = [StatusOf EXCEPT ![m] = "delivered"]
    BY <1>0, <1>deliver, <2>1, StatusDelivers
  <2>3. m \in DOMAIN kind /\ \A n \in DOMAIN kind : n < m /\ kind[n] = kind[m] => StatusOf[n] # "waiting"
    BY <1>waits, <1>status, <1>deliver
  <2>4. Delivery!Deliver(m)
    BY <1>deliver, <2>2, <2>3
       DEF Delivery!Deliver, Delivery!Messages, Delivery!Waiting, StatusOf
  <2> QED BY <2>3, <2>4 DEF Delivery!Next, Delivery!Messages
<1>accept. ASSUME NEW k \in {"prompt", "steer", "followUp"}, Accept(k), UNCHANGED session,
                  StillWaiting' = StillWaiting \cup {NewMsg},
                  outcome' = IF k = "prompt" THEN "none" ELSE outcome
           PROVE  Delivery!Next
  <2>1. kind' = Append(kind, k)
    BY <1>accept DEF Accept
  <2>2. StatusOf' = Append(StatusOf, "waiting")
    BY <1>0, <1>accept, <2>1, StatusAccepts
  <2>3. Delivery!Accept(k)
    BY <1>accept, <2>1, <2>2 DEF Delivery!Accept, StatusOf
  <2> QED BY <2>3 DEF Delivery!Next, Delivery!Kinds
<1>take. ASSUME NEW q \in Seq(Msgs), q # <<>>, NEW n \in Taken(q), Increasing(q), pending = <<>>
         PROVE  Range(SubSeq(q, 1, n)) \cup Range(SubSeq(q, n + 1, Len(q))) = Range(pending) \cup Range(q)
  BY <1>take, SplitOrder, NothingInEmpty
<1>takeSteering. ASSUME steering # <<>>, NEW n \in Taken(steering), Dequeue(steering, n), pending = <<>>,
                        UNCHANGED <<kind, session, followUp, prompt, outcome>>
                 PROVE  UNCHANGED Delivery!vars
  <2>1. Range(pending') \cup Range(steering') = Range(pending) \cup Range(steering)
    BY <1>0, <1>takeSteering, <1>take DEF Dequeue, DeliveryState, Queued
  <2>2. StillWaiting' = StillWaiting /\ Delivered' = Delivered
    BY <1>takeSteering, <2>1 DEF StillWaiting, Delivered, IsUser
  <2> QED BY <1>takeSteering, <1>same, <2>2
<1>takeFollowUp. ASSUME followUp # <<>>, NEW n \in Taken(followUp), Dequeue(followUp, n), pending = <<>>,
                        UNCHANGED <<kind, session, steering, prompt, outcome>>
                 PROVE  UNCHANGED Delivery!vars
  <2>1. Range(pending') \cup Range(followUp') = Range(pending) \cup Range(followUp)
    BY <1>0, <1>takeFollowUp, <1>take DEF Dequeue, DeliveryState, Queued
  <2>2. StillWaiting' = StillWaiting /\ Delivered' = Delivered
    BY <1>takeFollowUp, <2>1 DEF StillWaiting, Delivered, IsUser
  <2> QED BY <1>takeFollowUp, <1>same, <2>2
<1>1. CASE Prompt
  <2>1. /\ Accept("prompt") /\ prompt' = NewMsg /\ outcome' = "none" /\ pc = "idle"
        /\ UNCHANGED <<session, steering, followUp, pending>>
    BY <1>1 DEF Prompt, EnterRun
  <2>2. prompt = 0
    BY <2>1 DEF DeliveryState, Queued
  <2>3. NewMsg # 0
    BY <1>0 DEF NewMsg
  <2>4. StillWaiting' = StillWaiting \cup {NewMsg}
    BY <2>1, <2>2, <2>3 DEF StillWaiting
  <2> QED BY <1>accept, <2>1, <2>4
<1>2. CASE Continue
  <2>1. /\ outcome' = "none" /\ UNCHANGED <<kind, session, steering, followUp, pending, prompt>>
    BY <1>2 DEF Continue, EnterRun
  <2>2. StatusOf' = StatusOf
    BY <2>1, StatusSame DEF StillWaiting, Delivered, IsUser
  <2> QED BY <2>1, <2>2 DEF Delivery!Next, Delivery!Resume, StatusOf
<1>3. CASE Steer
  <2>1. /\ Accept("steer") /\ steering' = Append(steering, NewMsg)
        /\ UNCHANGED <<session, followUp, pending, prompt, outcome>>
    BY <1>3 DEF Steer
  <2>2. Range(steering') = Range(steering) \cup {NewMsg}
    BY <1>0, <2>1, AppendRange
  <2>3. StillWaiting' = StillWaiting \cup {NewMsg}
    BY <2>1, <2>2 DEF StillWaiting
  <2> QED BY <1>accept, <2>1, <2>3
<1>4. CASE FollowUp
  <2>1. /\ Accept("followUp") /\ followUp' = Append(followUp, NewMsg)
        /\ UNCHANGED <<session, steering, pending, prompt, outcome>>
    BY <1>4 DEF FollowUp
  <2>2. Range(followUp') = Range(followUp) \cup {NewMsg}
    BY <1>0, <2>1, AppendRange
  <2>3. StillWaiting' = StillWaiting \cup {NewMsg}
    BY <2>1, <2>2 DEF StillWaiting
  <2> QED BY <1>accept, <2>1, <2>3
<1>5. CASE Abort \/ AbortRetry \/ Register \/ StartDelay \/ Exit \/ UNCHANGED vars
  BY <1>5, <1>still DEF Abort, AbortRetry, Register, StartDelay, Exit, vars
<1>6. CASE AppendPrompt
  <2>1. CASE session' = Append(session, User(prompt)) /\ pc' = "steering"
    <3>1. /\ pc = "prompt" /\ prompt # 0 /\ prompt' = 0 /\ kind[prompt] = "prompt" /\ pending = <<>>
          /\ prompt \in StillWaiting /\ prompt \in Msgs
          /\ UNCHANGED <<kind, steering, followUp, pending, outcome>>
      BY <1>6, <2>1
         DEF AppendPrompt, Leave, DeliveryState, LoopInv, Control, TypeOK, Queued, StillWaiting, Msgs
    <3>2. StillWaiting' = StillWaiting \ {prompt}
      BY <1>0, <3>1 DEF StillWaiting, Once, Apart
    <3>3. \A n \in StillWaiting : n = prompt \/ kind[n] # "prompt"
      BY <3>1, NothingInEmpty DEF StillWaiting, DeliveryState, Queued, Steered
    <3>4. ~(prompt < prompt)
      BY <3>1 DEF Msgs
    <3>5. PICK m \in StillWaiting : m = prompt
      BY <3>1
    <3> QED BY <1>deliver, <2>1, <3>1, <3>2, <3>3, <3>4, <3>5
  <2>2. CASE Leave("error") /\ UNCHANGED session
    BY <1>6, <1>leave, <2>2 DEF AppendPrompt
  <2> QED BY <1>6, <2>1, <2>2 DEF AppendPrompt
<1>7. CASE TakeSteering
  BY <1>7, <1>takeSteering, <1>still DEF TakeSteering, DeliveryState, Queued
<1>8. CASE TakeFollowUp
  BY <1>8, <1>takeFollowUp, <1>still DEF TakeFollowUp, DeliveryState, Queued
<1>9. CASE TopOfLoop
  BY <1>9, <1>leave, <1>still DEF TopOfLoop
<1>10. CASE AppendPending
  <2>1. CASE pending # <<>> /\ session' = Append(session, User(Head(pending))) /\ pending' = Tail(pending)
             /\ UNCHANGED outcome
    <3>1. PICK m \in Msgs : m = Head(pending)
      BY <1>0, <2>1
    <3>2. UNCHANGED <<kind, steering, followUp, prompt>> /\ pc = "append"
      BY <1>10 DEF AppendPending
    <3>3. /\ Range(pending) = Range(pending') \cup {m} /\ \A n \in Range(pending') : m < n
      BY <1>0, <2>1, <3>1, TailOrder DEF DeliveryState, Queued
    <3>4. m \in StillWaiting /\ ~(m < m)
      BY <3>3 DEF StillWaiting, Msgs
    <3>5. m \notin Range(pending')
      BY <3>3, <3>4
    <3>6. StillWaiting' = StillWaiting \ {m}
      BY <1>0, <3>2, <3>3, <3>5 DEF StillWaiting, Once, Apart
    <3>7. prompt = 0
      BY <3>2 DEF DeliveryState, Queued
    <3>8. ASSUME NEW n \in StillWaiting, n < m PROVE kind[n] # kind[m]
      <4>1. m \in Range(pending) /\ n \notin Range(pending)
        <5>1. \A l \in Range(pending) : l \in Msgs
          BY <1>0 DEF Range
        <5> QED BY <3>3, <3>4, <3>8, <5>1 DEF Msgs
      <4>2. n \in Range(steering) \cup Range(followUp)
        BY <3>7, <3>8, <4>1 DEF StillWaiting
      <4>3. ~(m < n)
        BY <1>0, <3>8 DEF Msgs
      <4>4. /\ n \in Range(steering) => kind[n] = "steer"
            /\ n \in Range(followUp) => kind[n] = "followUp"
        BY DEF DeliveryState, Steered, Queued
      <4>5. CASE Held("steer", steering)
        BY <4>1, <4>2, <4>3, <4>4, <4>5 DEF Held
      <4>6. CASE Held("followUp", followUp)
        BY <4>1, <4>2, <4>3, <4>4, <4>6 DEF Held
      <4> QED BY <4>5, <4>6 DEF DeliveryState, Queued
    <3> QED BY <1>deliver, <2>1, <3>1, <3>2, <3>4, <3>6, <3>8
  <2>2. CASE Leave("error") /\ UNCHANGED session
    BY <1>10, <1>leave, <2>2 DEF AppendPending
  <2>3. CASE UNCHANGED <<session, pending, outcome>>
    BY <1>10, <1>still, <2>3 DEF AppendPending
  <2> QED BY <1>10, <2>1, <2>2, <2>3 DEF AppendPending
<1>11. CASE Answered
  <2>1. PICK k \in 0..MaxCalls : session' = Append(session, Assistant(k))
    BY <1>11 DEF Answered
  <2> QED BY <1>11, <1>other, <2>1, Roles DEF Answered
<1>12. CASE Failed
  BY <1>12, <1>leave, <1>still DEF Failed, NextTurn
<1>13. CASE EndDelay
  BY <1>13, <1>leave, <1>still DEF EndDelay, NextTurn
<1>14. CASE StopOrFollowUp
  <2>1. pending = <<>> /\ prompt = 0
    BY <1>14 DEF StopOrFollowUp, DeliveryState, Steered, Queued
  <2>2. CASE followUp # <<>>
    BY <1>14, <1>takeFollowUp, <2>1, <2>2 DEF StopOrFollowUp, NextTurn
  <2>3. CASE followUp = <<>>
    <3>1. /\ outcome' = "ok" /\ UNCHANGED <<kind, session, steering, followUp, prompt>> /\ pending' = <<>>
      BY <1>14, <2>3 DEF StopOrFollowUp, Leave
    <3>2. StatusOf' = StatusOf
      BY <2>1, <3>1, StatusSame DEF StillWaiting, Delivered, IsUser
    <3>3. StillWaiting \subseteq Range(steering)
      BY <2>1, <2>3, NothingInEmpty DEF StillWaiting
    <3>4. \A m \in DOMAIN kind : StatusOf[m] = "waiting" => kind[m] = "steer"
      BY <1>status, <3>3 DEF DeliveryState, Steered
    <3>5. Delivery!Finish("ok")
      BY <3>1, <3>2, <3>4 DEF Delivery!Finish, Delivery!Messages, Delivery!Waiting, StatusOf
    <3> QED BY <3>5 DEF Delivery!Next
  <2> QED BY <2>2, <2>3
<1>15. CASE NextTool
  BY <1>15, <1>leave, <1>still DEF NextTool, NextTurn
<1>16. CASE ExecuteTool
  BY <1>16, <1>leave, <1>other, Roles DEF ExecuteTool
<1>17. CASE PollSteering
  BY <1>17, <1>takeSteering, <1>still DEF PollSteering, DeliveryState, Steered
<1>18. CASE SkipTool
  BY <1>18, <1>leave, <1>other, <1>still, Roles DEF SkipTool, NextTurn
<1> QED BY <1>1, <1>2, <1>3, <1>4, <1>5, <1>6, <1>7, <1>8, <1>9, <1>10, <1>11, <1>12, <1>13,
           <1>14, <1>15, <1>16, <1>17, <1>18 DEF Next, RunStep

(* The loop keeps the promise to the senders of messages: delivery in order within
   each kind, no loss but by a run that ends badly, and a good end only when no
   prompt and no follow-up is left waiting. *)
THEOREM LoopDelivers == Spec => DeliverySpec
<1>1. Init => Delivery!Init
  <2> SUFFICES ASSUME Init PROVE Delivery!Init
    OBVIOUS
  <2>1. kind = <<>> /\ outcome = "none"
    BY DEF Init
  <2>2. Accepted = {}
    BY <2>1 DEF Accepted
  <2>3. [m \in Accepted |-> Status(m)] = <<>>
    BY <2>2
  <2> QED BY <2>1, <2>3 DEF Delivery!Init
<1> QED BY <1>1, StepDelivers, OnceInvariant, SteeredInvariant, QueuedInvariant, PTL
        DEF Spec, DeliverySpec, Delivery!Spec, DeliveryState

-----------------------------------------------------------------------------
(* The run under the RPC server: who owns the session and the cancel functions.
   Neither property is inductive: that the reader has the session to itself needs
   that a run under way keeps promptRunning set, and what is cancellable follows
   from where the run goroutine stands. *)

Rewrites == {"newSession", "switch", "fork", "compact", "setting"}

Unregistered == {"idle", "prompt", "steering", "followUp", "register"}

OwnerInv ==
  /\ pc # "idle" => promptRunning
  /\ reader \in Rewrites => ~promptRunning
  /\ abortRun => pc \notin Unregistered
  /\ abortRetry => pc = "delay"
  /\ cancelled => abortRun

-----------------------------------------------------------------------------
(* No step of the run goroutine registers a run twice, leaves a delay or ends
   with a registration. *)
LEMMA RunKeepsOwner == OwnerInv /\ RunGoroutine => OwnerInv'
<1> SUFFICES ASSUME OwnerInv, RunStep, UNCHANGED rpcVars PROVE OwnerInv'
  BY DEF RunGoroutine
<1> USE DEF OwnerInv, Unregistered, rpcVars, abortVars
<1>1. CASE AppendPrompt \/ TakeSteering \/ TakeFollowUp
  BY <1>1 DEF AppendPrompt, TakeSteering, TakeFollowUp, Leave
<1>2. CASE Register
  BY <1>2 DEF Register
<1>3. CASE TopOfLoop \/ AppendPending
  BY <1>3 DEF TopOfLoop, AppendPending, Leave
<1>4. CASE Answered
  BY <1>4 DEF Answered
<1>5. CASE Failed
  BY <1>5 DEF Failed, NextTurn, Leave
<1>6. CASE StartDelay \/ EndDelay
  BY <1>6 DEF StartDelay, EndDelay, NextTurn, Leave
<1>7. CASE StopOrFollowUp \/ NextTool
  BY <1>7 DEF StopOrFollowUp, NextTool, NextTurn, Leave
<1>8. CASE ExecuteTool \/ PollSteering \/ SkipTool
  <2>1. CASE ExecuteTool
    BY <2>1 DEF ExecuteTool, Leave
  <2>2. CASE PollSteering
    BY <2>2 DEF PollSteering
  <2>3. CASE SkipTool
    BY <2>3 DEF SkipTool, NextTurn, Leave
  <2> QED BY <1>8, <2>1, <2>2, <2>3
<1>9. CASE Exit
  BY <1>9 DEF Exit
<1> QED
  BY <1>1, <1>2, <1>3, <1>4, <1>5, <1>6, <1>7, <1>8, <1>9 DEF RunStep

(* Commands on the run are handled between two steps of it; the others wait for
   the reader, which is within one command at a time. *)
LEMMA OwnerInvariant == RpcSpec => []OwnerInv
<1>1. RpcInit => OwnerInv
  BY DEF RpcInit, Init, OwnerInv, Rewrites, Unregistered
<1>2. OwnerInv /\ [RpcNext]_allVars => OwnerInv'
  <2> SUFFICES ASSUME OwnerInv, [RpcNext]_allVars PROVE OwnerInv'
    OBVIOUS
  <2> USE DEF OwnerInv, Rewrites, Unregistered, rpcVars, abortVars, runVars, Reading, Streaming
  <2>1. CASE PromptIdle
    BY <2>1 DEF PromptIdle, Prompt, EnterRun
  <2>2. CASE PromptStreaming \/ QueueMessage
    BY <2>2 DEF PromptStreaming, QueueMessage, Steer, FollowUp, vars
  <2>3. CASE RecvSteer \/ RecvFollowUp
    BY <2>3 DEF RecvSteer, RecvFollowUp, Steer, FollowUp
  <2>4. CASE RecvAbort \/ RecvAbortRetry
    <3>1. CASE RecvAbort /\ Abort
      BY <3>1, Zenon DEF RecvAbort, Abort
    <3>2. CASE RecvAbort /\ UNCHANGED vars
      BY <3>2 DEF RecvAbort, vars
    <3>3. CASE RecvAbortRetry
      BY <3>3 DEF RecvAbortRetry, AbortRetry
    <3> QED BY <2>4, <3>1, <3>2, <3>3 DEF RecvAbort
  <2>5. CASE StartBash \/ EndBash
    BY <2>5 DEF StartBash, EndBash, vars
  <2>6. CASE StartRewrite
    BY <2>6 DEF StartRewrite, StartNewSession, StartSwitch, StartFork, StartCompact,
                StartSetting, StartAlone, vars
  <2>7. CASE EndRewrite
    BY <2>7 DEF EndRewrite, EndNewSession, EndSwitch, EndFork, EndUnopened, Opened, vars
  <2>8. CASE RunGoroutine
    BY <2>8, RunKeepsOwner
  <2>9. CASE EndPrompt
    BY <2>9 DEF EndPrompt, vars
  <2>10. CASE UNCHANGED allVars
    BY <2>10 DEF allVars, vars
  <2> QED
    BY <2>1, <2>2, <2>3, <2>4, <2>5, <2>6, <2>7, <2>8, <2>9, <2>10 DEF RpcNext
<1> QED BY <1>1, <1>2, PTL DEF RpcSpec

-----------------------------------------------------------------------------
(* rpc.go tests isStreaming and then rewrites the session without a lock: the
   reader that does so is the one that would start the next run. *)
THEOREM OneOwner == RpcSpec => []SessionHasOneOwner
<1>1. OwnerInv => SessionHasOneOwner
  BY DEF OwnerInv, SessionHasOneOwner, Rewrites, Unregistered
<1> QED BY <1>1, OwnerInvariant, PTL

(* clearAbort ignores which function it is given, and still what Abort cancels is
   the run being served: no registration outlives its run or its delay. *)
THEOREM AbortsAreCurrent == RpcSpec => []AbortTargetIsCurrent
<1>1. OwnerInv => AbortTargetIsCurrent
  BY DEF OwnerInv, AbortTargetIsCurrent, Unregistered
<1> QED BY <1>1, OwnerInvariant, PTL
=============================================================================
