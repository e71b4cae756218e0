------------------------------ MODULE AgentLoop ------------------------------
(***************************************************************************)
(* The run loop of internal/agent/runtime.go and the operations that act   *)
(* on it from other goroutines: Prompt, Continue, Steer, FollowUp, Abort,  *)
(* AbortRetry and the queue modes.  The loop is one goroutine, a program   *)
(* counter `pc`; every other action may interleave between two of its      *)
(* steps, as any caller of the exported methods may.                       *)
(*                                                                         *)
(* The runtime is the one without an extension sidecar (r.sidecar = nil):  *)
(* hooks return at once and change nothing.  A user message is a number,   *)
(* given in the order of acceptance.  The session is the list of message   *)
(* entries on the active branch; compaction only shortens the view of it   *)
(* that a provider gets and is not seen here.                              *)
(***************************************************************************)
EXTENDS Integers, Sequences, Functions

CONSTANTS
  MaxMsgs,      \* user messages accepted in a behaviour (bounds the model)
  MaxRuns,      \* runs started in a behaviour (bounds the model)
  MaxTurns,     \* iterations of the loop, 128 in the code
  MaxAttempts,  \* autoRetryMaxAttempts, 3 in the code
  MaxCalls      \* tool calls of one assistant message (bounds the model)

ASSUME LoopConstants ==
  /\ MaxMsgs \in Nat /\ MaxRuns \in Nat /\ MaxCalls \in Nat
  /\ MaxTurns \in Nat \ {0} /\ MaxAttempts \in Nat

VARIABLES
  steering,      \* r.steeringQueue
  followUp,      \* r.followUpQueue
  abortRun,      \* r.abortRun # nil
  cancelled,     \* runCtx of the current run is cancelled
  abortRetry,    \* r.abortRetry # nil
  retryStopped,  \* retryCtx of the current delay is cancelled
  pc,            \* where the run goroutine stands
  prompt,        \* message of the Prompt call being served, 0 for none
  pending,       \* pendingMessages of runLoop
  turn,          \* i of runLoop
  attempt,       \* retryAttempt of runLoop
  calls,         \* len(resp.ToolCalls) of this turn
  call,          \* toolIndex + 1
  outcome,       \* how the last run ended
  session,       \* message entries of the active branch
  base,          \* history: Len(session) when the current run was entered
  runs,          \* history: runs entered
  cut,           \* history: Len(session) when the current run was cancelled
  kind           \* history: how each accepted message came in

queueVars == <<steering, followUp>>
abortVars == <<abortRun, cancelled, abortRetry, retryStopped>>
runVars   == <<pc, prompt, pending, turn, attempt, calls, call, outcome>>
histVars  == <<base, runs, cut, kind>>
vars      == <<queueVars, abortVars, runVars, session, histVars>>

Outcomes == {"none", "ok", "aborted", "error", "limit"}
PCs      == {"idle", "prompt", "steering", "followUp", "register", "top",
             "append", "request", "retry", "delay", "tool", "execute", "poll",
             "skip", "stop", "exit"}

Accepted == DOMAIN kind      \* the messages accepted so far: 1..Len(kind)
NewMsg   == Len(kind) + 1    \* the next one

User(m)          == [role |-> "user", msg |-> m]
Assistant(n)     == [role |-> "assistant", calls |-> n]
ToolResult(k, s) == [role |-> "toolResult", call |-> k, skipped |-> s]

LastRole == IF session = <<>> THEN "none" ELSE session[Len(session)].role

-----------------------------------------------------------------------------
Init ==
  /\ steering = <<>> /\ followUp = <<>>
  /\ abortRun = FALSE /\ cancelled = FALSE
  /\ abortRetry = FALSE /\ retryStopped = FALSE
  /\ pc = "idle" /\ prompt = 0 /\ pending = <<>>
  /\ turn = 0 /\ attempt = 0 /\ calls = 0 /\ call = 0 /\ outcome = "none"
  /\ session = <<>> /\ base = 0 /\ runs = 0 /\ cut = 0
  /\ kind = <<>>

Accept(k) ==
  /\ Len(kind) < MaxMsgs
  /\ kind' = Append(kind, k)

(* Variants of the definitions below with a plausible bug each: what the
   properties must be able to tell from the code. *)
DequeueKeepsLast(queue, n) ==
  /\ pending' = SubSeq(queue, 1, n)
  /\ queue' = SubSeq(queue, n, Len(queue))

(* Dequeue under r.mu: everything in mode "all", the oldest message in mode
   "one-at-a-time".  The modes can be set at any time from outside, so a dequeue
   meets either one. *)
Taken(queue) == {1, Len(queue)}
Dequeue(queue, n) ==
  /\ pending' = SubSeq(queue, 1, n)
  /\ queue' = SubSeq(queue, n + 1, Len(queue))

-----------------------------------------------------------------------------
(* Operations other goroutines call at any time. *)

Steer ==
  /\ Accept("steer")
  /\ steering' = Append(steering, NewMsg)
  /\ UNCHANGED <<followUp, abortVars, runVars,
                 session, base, runs, cut>>

FollowUp ==
  /\ Accept("followUp")
  /\ followUp' = Append(followUp, NewMsg)
  /\ UNCHANGED <<steering, abortVars, runVars,
                 session, base, runs, cut>>

(* Cancels the run and a retry delay, when they are registered. *)
Abort ==
  /\ abortRun \/ abortRetry
  /\ cancelled' = (cancelled \/ abortRun)
  /\ cut' = IF abortRun /\ ~cancelled THEN Len(session) ELSE cut
  /\ retryStopped' = (retryStopped \/ abortRetry)
  /\ abortRetry' = FALSE
  /\ UNCHANGED <<abortRun, queueVars, runVars, session, base, runs, kind>>

AbortRetry ==
  /\ abortRetry
  /\ abortRetry' = FALSE
  /\ retryStopped' = TRUE
  /\ UNCHANGED <<abortRun, cancelled, queueVars, runVars, session, histVars>>

-----------------------------------------------------------------------------
(* Entering a run.  Callers serve one Prompt or Continue at a time. *)

EnterRun ==
  /\ runs < MaxRuns
  /\ pc = "idle"
  /\ runs' = runs + 1
  /\ base' = Len(session)
  /\ outcome' = "none"
  /\ cut' = 0

Prompt ==
  /\ EnterRun
  /\ Accept("prompt")
  /\ prompt' = NewMsg
  /\ pc' = "prompt"
  /\ UNCHANGED <<queueVars, abortVars, pending, turn, attempt, calls, call, session>>

Continue ==
  /\ EnterRun
  /\ session # <<>>
  /\ LastRole \in {"user", "toolResult"} \/ steering # <<>> \/ followUp # <<>>
  /\ pc' = "steering"
  /\ UNCHANGED <<queueVars, abortVars, prompt, pending, turn, attempt, calls,
                 call, session, kind>>

-----------------------------------------------------------------------------
(* Steps of the run goroutine.  Leave is a return statement: what the loop *)
(* still holds in pendingMessages is gone with its stack frame.            *)

Leave(result) ==
  /\ pc' = "exit"
  /\ outcome' = result
  /\ pending' = <<>>
  /\ attempt' = 0

NextTurn ==
  /\ pc' = "top"
  /\ turn' = turn + 1
  /\ UNCHANGED outcome

(* appendSessionMessageWithEvents writes the user message, or fails and
   Prompt returns its error without entering runLoop. *)
AppendPrompt ==
  /\ pc = "prompt"
  /\ prompt' = 0
  /\ \/ /\ session' = Append(session, User(prompt))
        /\ pc' = "steering"
        /\ UNCHANGED <<pending, attempt, outcome>>
     \/ /\ Leave("error")
        /\ UNCHANGED session
  /\ UNCHANGED <<queueVars, abortVars, turn, calls, call, histVars>>

(* runLoop: steering messages left from earlier open the run... *)
TakeSteering ==
  /\ pc = "steering"
  /\ IF steering # <<>>
     THEN /\ \E n \in Taken(steering) : Dequeue(steering, n)
          /\ pc' = "register"
     ELSE /\ pc' = "followUp"
          /\ UNCHANGED <<pending, steering>>
  /\ UNCHANGED <<followUp, abortVars, prompt, turn,
                 attempt, calls, call, outcome, session, histVars>>

(* ... and follow-ups do only if the branch ends in an assistant message. *)
TakeFollowUp ==
  /\ pc = "followUp"
  /\ pc' = "register"
  /\ IF followUp # <<>> /\ LastRole = "assistant"
     THEN /\ \E n \in Taken(followUp) : Dequeue(followUp, n)
     ELSE UNCHANGED <<pending, followUp>>
  /\ UNCHANGED <<steering, abortVars, prompt, turn,
                 attempt, calls, call, outcome, session, histVars>>

(* setAbort: from here on Abort reaches this run. *)
Register ==
  /\ pc = "register"
  /\ abortRun' = TRUE
  /\ cancelled' = FALSE
  /\ turn' = 0
  /\ attempt' = 0
  /\ pc' = "top"
  /\ UNCHANGED <<queueVars, abortRetry, retryStopped, prompt, pending, calls,
                 call, outcome, session, histVars>>

TopOfLoop ==
  /\ pc = "top"
  /\ \/ /\ turn >= MaxTurns
        /\ Leave("limit")
     \/ /\ turn < MaxTurns
        /\ cancelled
        /\ Leave("aborted")
     \/ /\ turn < MaxTurns
        /\ ~cancelled
        /\ pc' = "append"
        /\ UNCHANGED <<outcome, pending, attempt>>
  /\ UNCHANGED <<queueVars, abortVars, prompt, turn, calls, call, session, histVars>>

(* The pending messages go to the session one by one; a write that fails ends
   the run.  Then the provider is resolved and called. *)
AppendPending ==
  /\ pc = "append"
  /\ \/ /\ pending # <<>>
        /\ session' = Append(session, User(Head(pending)))
        /\ pending' = Tail(pending)
        /\ UNCHANGED <<pc, outcome, attempt>>
     \/ /\ pending # <<>>
        /\ Leave("error")
        /\ UNCHANGED session
     \/ /\ pending = <<>>
        /\ pc' = "request"
        /\ UNCHANGED <<session, pending, outcome, attempt>>
     \/ /\ pending = <<>>
        /\ Leave("error")
        /\ UNCHANGED session
  /\ UNCHANGED <<queueVars, abortVars, prompt, turn, calls, call, histVars>>

(* The provider answers with n tool calls: the assistant message is appended.
   A cancelled request may still be answered. *)
Answered ==
  /\ pc = "request"
  /\ \E n \in 0..MaxCalls :
        /\ session' = Append(session, Assistant(n))
        /\ calls' = n
        /\ call' = 1
        /\ pc' = IF n = 0 THEN "stop" ELSE "tool"
  /\ attempt' = 0
  /\ UNCHANGED <<queueVars, abortVars, prompt, pending, turn, outcome, histVars>>

(* The provider fails: cancellation; overflow with a successful compaction;
   a transient error that is retried; or an error that ends the run (also a
   transient one with auto-retry off or its attempts used up, an overflow that
   could not be compacted, and a failing append of the answer). *)
Failed ==
  /\ pc = "request"
  /\ \/ /\ cancelled
        /\ Leave("aborted")
        /\ UNCHANGED turn
     \/ /\ ~cancelled
        /\ NextTurn
        /\ attempt' = 0
        /\ UNCHANGED pending
     \/ /\ ~cancelled
        /\ attempt < MaxAttempts
        /\ attempt' = attempt + 1
        /\ pc' = "retry"
        /\ UNCHANGED <<turn, pending, outcome>>
     \/ /\ Leave("error")
        /\ UNCHANGED turn
  /\ UNCHANGED <<queueVars, abortVars, prompt, calls, call, session, histVars>>

(* auto_retry_start has been emitted; waitForRetryDelay registers abortRetry. *)
StartDelay ==
  /\ pc = "retry"
  /\ pc' = "delay"
  /\ abortRetry' = TRUE
  /\ retryStopped' = FALSE
  /\ UNCHANGED <<queueVars, abortRun, cancelled, prompt, pending, turn, attempt,
                 calls, call, outcome, session, histVars>>

(* The timer fires, or the delay or the whole run was cancelled. *)
EndDelay ==
  /\ pc = "delay"
  /\ abortRetry' = FALSE
  /\ retryStopped' = FALSE
  /\ \/ /\ NextTurn
        /\ UNCHANGED <<attempt, pending>>
     \/ /\ cancelled \/ retryStopped
        /\ Leave(IF cancelled THEN "aborted" ELSE "error")
        /\ UNCHANGED turn
  /\ UNCHANGED <<queueVars, abortRun, cancelled, prompt, calls, call, session,
                 histVars>>

StopAtOnce ==
  /\ pc = "stop"
  /\ Leave("ok")
  /\ UNCHANGED <<queueVars, abortVars, prompt, turn, calls, call, session, histVars>>

(* The answer had no tool calls: follow-ups keep the run going. *)
StopOrFollowUp ==
  /\ pc = "stop"
  /\ IF followUp # <<>>
     THEN /\ \E n \in Taken(followUp) : Dequeue(followUp, n)
          /\ NextTurn
          /\ UNCHANGED attempt
     ELSE /\ Leave("ok")
          /\ UNCHANGED <<followUp, turn>>
  /\ UNCHANGED <<steering, abortVars, prompt, calls,
                 call, session, histVars>>

NextToolUnchecked ==
  /\ pc = "tool"
  /\ \/ /\ call > calls
        /\ NextTurn
        /\ UNCHANGED <<pending, attempt>>
     \/ /\ call <= calls
        /\ pc' = "execute"
        /\ UNCHANGED <<turn, pending, attempt, outcome>>
  /\ UNCHANGED <<queueVars, abortVars, prompt, calls, call, session, histVars>>

(* Head of the tool loop: out of calls, cancelled, or the next call. *)
NextTool ==
  /\ pc = "tool"
  /\ \/ /\ call > calls
        /\ NextTurn
        /\ UNCHANGED <<pending, attempt>>
     \/ /\ call <= calls
        /\ cancelled
        /\ Leave("aborted")
        /\ UNCHANGED turn
     \/ /\ call <= calls
        /\ ~cancelled
        /\ pc' = "execute"
        /\ UNCHANGED <<turn, pending, attempt, outcome>>
  /\ UNCHANGED <<queueVars, abortVars, prompt, calls, call, session, histVars>>

(* The tool runs and its result, an error result too, is appended.  A tool that
   reports the cancellation itself, or a failing append, ends the run. *)
ExecuteTool ==
  /\ pc = "execute"
  /\ \/ /\ session' = Append(session, ToolResult(call, FALSE))
        /\ pc' = "poll"
        /\ UNCHANGED <<pending, attempt, outcome>>
     \/ /\ cancelled
        /\ Leave("aborted")
        /\ UNCHANGED session
     \/ /\ Leave("error")
        /\ UNCHANGED session
  /\ UNCHANGED <<queueVars, abortVars, prompt, turn, calls, call, histVars>>

PollWithoutInterrupt ==
  /\ pc = "poll"
  /\ call' = call + 1
  /\ pc' = "tool"
  /\ IF steering # <<>>
     THEN \E n \in Taken(steering) : Dequeue(steering, n)
     ELSE UNCHANGED <<pending, steering>>
  /\ UNCHANGED <<followUp, abortVars, prompt, turn, attempt, calls, outcome,
                 session, histVars>>

PollNothing ==
  /\ pc = "poll"
  /\ call' = call + 1
  /\ pc' = "tool"
  /\ UNCHANGED <<queueVars, abortVars, prompt, pending, turn, attempt, calls,
                 outcome, session, histVars>>

(* After each tool the steering queue may interrupt the turn. *)
PollSteering ==
  /\ pc = "poll"
  /\ call' = call + 1
  /\ IF steering # <<>>
     THEN /\ \E n \in Taken(steering) : Dequeue(steering, n)
          /\ pc' = "skip"
     ELSE /\ pc' = "tool"
          /\ UNCHANGED <<pending, steering>>
  /\ UNCHANGED <<followUp, abortVars, prompt, turn,
                 attempt, calls, outcome, session, histVars>>

SkipNothing ==
  /\ pc = "skip"
  /\ NextTurn
  /\ UNCHANGED <<queueVars, abortVars, prompt, session, pending, attempt, calls,
                 call, histVars>>

(* The remaining calls of an interrupted turn get an error result each. *)
SkipTool ==
  /\ pc = "skip"
  /\ \/ /\ call <= calls
        /\ session' = Append(session, ToolResult(call, TRUE))
        /\ call' = call + 1
        /\ UNCHANGED <<pc, turn, pending, attempt, outcome>>
     \/ /\ call <= calls
        /\ Leave("error")
        /\ UNCHANGED <<session, call, turn>>
     \/ /\ call > calls
        /\ NextTurn
        /\ UNCHANGED <<session, call, pending, attempt>>
  /\ UNCHANGED <<queueVars, abortVars, prompt, calls, histVars>>

ExitRegistered ==
  /\ pc = "exit"
  /\ pc' = "idle"
  /\ UNCHANGED <<queueVars, abortVars, prompt, pending, turn, attempt, calls,
                 call, outcome, session, histVars>>

(* The deferred clearAbort and cancel, then the caller has its answer. *)
Exit ==
  /\ pc = "exit"
  /\ pc' = "idle"
  /\ abortRun' = FALSE
  /\ cancelled' = FALSE
  /\ UNCHANGED <<queueVars, abortRetry, retryStopped, prompt, pending, turn,
                 attempt, calls, call, outcome, session, histVars>>

-----------------------------------------------------------------------------
RunStep ==
  \/ AppendPrompt \/ TakeSteering \/ TakeFollowUp \/ Register \/ TopOfLoop
  \/ AppendPending \/ Answered \/ Failed \/ StartDelay \/ EndDelay
  \/ StopOrFollowUp \/ NextTool \/ ExecuteTool \/ PollSteering \/ SkipTool
  \/ Exit

Next ==
  \/ Prompt \/ Continue
  \/ Steer \/ FollowUp \/ Abort \/ AbortRetry
  \/ RunStep

Spec == Init /\ [][Next]_vars

-----------------------------------------------------------------------------
(* Properties *)

Msgs  == 1..MaxMsgs
Items == {User(m) : m \in Msgs} \cup {Assistant(n) : n \in 0..MaxCalls}
           \cup {ToolResult(k, s) : k \in 1..MaxCalls, s \in BOOLEAN}

(* Every variable has its type. *)
TypeOK ==
  /\ steering \in Seq(Msgs) /\ followUp \in Seq(Msgs) /\ pending \in Seq(Msgs)
  /\ abortRun \in BOOLEAN /\ cancelled \in BOOLEAN
  /\ abortRetry \in BOOLEAN /\ retryStopped \in BOOLEAN
  /\ pc \in PCs /\ prompt \in 0..MaxMsgs /\ outcome \in Outcomes
  /\ turn \in 0..MaxTurns /\ attempt \in 0..MaxAttempts
  /\ calls \in 0..MaxCalls /\ call \in 0..(MaxCalls + 1)
  /\ session \in Seq(Items) /\ base \in Nat /\ runs \in 0..MaxRuns
  /\ cut \in Nat /\ kind \in Seq({"prompt", "steer", "followUp"})
  /\ Len(kind) <= MaxMsgs

IsUser(i)    == session[i].role = "user"
Delivered    == {session[i].msg : i \in {j \in DOMAIN session : IsUser(j)}}
StillWaiting == ({prompt} \ {0}) \cup Range(pending) \cup Range(steering)
                  \cup Range(followUp)

(* A message is in at most one place and at most once there: it is never handed
   to the model twice (runLoop's dequeue and pendingMessages hand-over). *)
NoMessageTwice ==
  /\ \A i, j \in DOMAIN session :
        IsUser(i) /\ IsUser(j) /\ session[i].msg = session[j].msg => i = j
  /\ Delivered \cap StillWaiting = {}
  /\ \A q \in {steering, followUp, pending} :
        \A i, j \in DOMAIN q : q[i] = q[j] => i = j
  /\ Range(pending) \cap (Range(steering) \cup Range(followUp)) = {}
  /\ Range(steering) \cap Range(followUp) = {}
  /\ prompt \notin Range(pending) \cup Range(steering) \cup Range(followUp)

(* The assistant messages of the current run. *)
Turns == {i \in (base + 1)..Len(session) : session[i].role = "assistant"}

(* Whenever the provider is called, and when a run ends well or at its turn
   limit, each tool call made in this run has its one result, in call order and
   right behind the message that made it: the shape providers insist on. *)
CallsAnswered ==
  pc = "request" \/ (pc = "exit" /\ outcome \in {"ok", "limit"}) =>
    \A i \in Turns : \A k \in 1..session[i].calls :
      /\ i + k <= Len(session)
      /\ session[i + k] \in {ToolResult(k, FALSE), ToolResult(k, TRUE)}

(* Steering takes effect after the current tool (runtime.go, the tool loop): no
   tool starts while a dequeued message waits; a turn skips tools only after one
   of its tools has run, and then all the rest; and the message that interrupted
   it comes next in the session. *)
SteeringSkips ==
  /\ pc \in {"tool", "execute"} => pending = <<>>
  /\ \A i \in Turns : \A k \in 1..session[i].calls :
       i + k <= Len(session) /\ session[i + k] = ToolResult(k, TRUE) =>
         /\ k > 1
         /\ \A l \in k..session[i].calls :
              i + l <= Len(session) => session[i + l] = ToolResult(l, TRUE)
         /\ LET next == i + session[i].calls + 1
            IN next <= Len(session) =>
                 IsUser(next) /\ kind[session[next].msg] = "steer"

IsSkipped(i) == session[i].role = "toolResult" /\ session[i].skipped

(* What a run still records after its cancellation (runtime.go: cancellation is
   looked at between provider calls and tools only) is the messages it was handing
   over, then the one answer or result that was under way, and then nothing but
   results of calls that are skipped: no provider call and no tool starts. *)
AbortStopsWork ==
  cancelled =>
    \A i, j \in (cut + 1)..Len(session) :
      i < j => \/ IsUser(i) /\ session[j].role # "toolResult"
               \/ session[i].role = "toolResult" /\ IsSkipped(j)

Status(m) ==
  IF m \in Delivered THEN "delivered"
  ELSE IF m \in StillWaiting THEN "waiting" ELSE "dropped"

Delivery == INSTANCE MessageDelivery WITH
              status <- [m \in Accepted |-> Status(m)], result <- outcome

(* The loop implements the promise to the senders of messages. *)
DeliverySpec == Delivery!Spec

(* The steering message that is next in line while a tool executes gets into
   the session, unless the run ends badly or that tool never ends. *)
SteerServed ==
  \A m \in Msgs :
    (pc = "execute" /\ steering # <<>> /\ Head(steering) = m)
      ~> (\/ m \in Delivered \/ outcome \in {"aborted", "error", "limit"}
          \/ [](pc = "execute"))
=============================================================================
