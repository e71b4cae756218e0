------------------------------ MODULE PkgAgent ------------------------------
(***************************************************************************)
(* The embeddable runtime, pkg/agent/runtime.go: the run loop of a program *)
(* that links the agent in.  It has no queues, no retry and no events; its *)
(* caller serves one Prompt or Continue at a time and may call Abort from  *)
(* any goroutine.  It implements AgentLoop, the loop of the command, with  *)
(* empty queues.  The steps that runLoop has not are still taken, without  *)
(* effect, so that each step of this module is one of that loop.           *)
(***************************************************************************)
EXTENDS Integers, Sequences

CONSTANTS
  MaxMsgs,   \* prompts in a behaviour (bounds the model)
  MaxRuns,   \* runs started in a behaviour (bounds the model)
  MaxTurns,  \* iterations of the loop, 128 in the code
  MaxCalls   \* tool calls of one assistant message (bounds the model)

ASSUME EmbeddedConstants ==
  /\ MaxMsgs \in Nat /\ MaxRuns \in Nat /\ MaxCalls \in Nat
  /\ MaxTurns \in Nat \ {0}

VARIABLES
  abortRun,   \* r.abortRun # nil
  cancelled,  \* runCtx of the current run is cancelled
  pc,         \* where the caller's goroutine stands
  prompt,     \* message of the Prompt call being served, 0 for none
  turn,       \* i of runLoop
  calls,      \* len(resp.ToolCalls) of this turn
  call,       \* the tool call the inner loop is at
  outcome,    \* how the last run ended
  session,    \* message entries of the active branch
  base,       \* history: Len(session) when the current run was entered
  runs,       \* history: runs entered
  cut,        \* history: Len(session) when the current run was cancelled
  prompts     \* history: prompts accepted

loopVars == <<prompt, turn, calls, call>>
histVars == <<base, runs, cut, prompts>>
vars     == <<abortRun, cancelled, pc, loopVars, outcome, session, histVars>>

Loop == INSTANCE AgentLoop WITH
          MaxAttempts <- 0, steering <- <<>>, followUp <- <<>>, pending <- <<>>,
          abortRetry <- FALSE, retryStopped <- FALSE, attempt <- 0,
          kind <- [m \in 1..prompts |-> "prompt"]

User(m)       == [role |-> "user", msg |-> m]
Assistant(n)  == [role |-> "assistant", calls |-> n]
ToolResult(k) == [role |-> "toolResult", call |-> k, skipped |-> FALSE]

Init ==
  /\ abortRun = FALSE /\ cancelled = FALSE /\ pc = "idle"
  /\ prompt = 0 /\ turn = 0 /\ calls = 0 /\ call = 0 /\ outcome = "none"
  /\ session = <<>> /\ base = 0 /\ runs = 0 /\ cut = 0 /\ prompts = 0

-----------------------------------------------------------------------------
Enter ==
  /\ pc = "idle" /\ runs < MaxRuns
  /\ runs' = runs + 1 /\ base' = Len(session) /\ cut' = 0
  /\ outcome' = "none"
  /\ UNCHANGED <<abortRun, cancelled, turn, calls, call, session>>

Prompt ==
  /\ Enter
  /\ prompts < MaxMsgs
  /\ prompts' = prompts + 1 /\ prompt' = prompts + 1
  /\ pc' = "prompt"

(* Continue refuses a branch that ends in an assistant message. *)
Continue ==
  /\ Enter
  /\ session # <<>> /\ session[Len(session)].role \in {"user", "toolResult"}
  /\ pc' = "steering"
  /\ UNCHANGED <<prompts, prompt>>

(* Abort, from any goroutine, and without effect between two runs. *)
Abort ==
  /\ abortRun
  /\ cancelled' = TRUE
  /\ cut' = IF cancelled THEN cut ELSE Len(session)
  /\ UNCHANGED <<abortRun, pc, loopVars, outcome, session, base, runs, prompts>>

-----------------------------------------------------------------------------
(* Steps of the caller's goroutine. *)

Goto(label) == pc' = label /\ UNCHANGED outcome
Leave(how)  == pc' = "exit" /\ outcome' = how

Record(item) == session' = Append(session, item)

AppendPrompt ==
  /\ pc = "prompt"
  /\ prompt' = 0
  /\ \/ Record(User(prompt)) /\ Goto("steering")
     \/ Leave("error") /\ UNCHANGED session
  /\ UNCHANGED <<abortRun, cancelled, turn, calls, call, histVars>>

(* Where the loop of the command looks at its queues. *)
NoQueue ==
  /\ \/ pc = "steering" /\ Goto("followUp")
     \/ pc = "followUp" /\ Goto("register")
  /\ UNCHANGED <<abortRun, cancelled, loopVars, session, histVars>>

Register ==
  /\ pc = "register"
  /\ abortRun' = TRUE /\ cancelled' = FALSE /\ turn' = 0
  /\ Goto("top")
  /\ UNCHANGED <<prompt, calls, call, session, histVars>>

TopOfLoop ==
  /\ pc = "top"
  /\ \/ turn >= MaxTurns /\ Leave("limit")
     \/ turn < MaxTurns /\ cancelled /\ Leave("aborted")
     \/ turn < MaxTurns /\ ~cancelled /\ Goto("append")
  /\ UNCHANGED <<abortRun, cancelled, loopVars, session, histVars>>

(* currentProvider: without a key the run ends. *)
Resolve ==
  /\ pc = "append"
  /\ Goto("request") \/ Leave("error")
  /\ UNCHANGED <<abortRun, cancelled, loopVars, session, histVars>>

(* The provider answers, also a request just cancelled, and the answer is
   appended ... *)
Answered ==
  /\ pc = "request"
  /\ \E n \in 0..MaxCalls :
       /\ Record(Assistant(n))
       /\ calls' = n /\ call' = 1
       /\ Goto(IF n = 0 THEN "stop" ELSE "tool")
  /\ UNCHANGED <<abortRun, cancelled, prompt, turn, histVars>>

(* ... or it fails, or the append does. *)
Failed ==
  /\ pc = "request"
  /\ (cancelled /\ Leave("aborted")) \/ Leave("error")
  /\ UNCHANGED <<abortRun, cancelled, loopVars, session, histVars>>

Stop ==
  /\ pc = "stop" /\ Leave("ok")
  /\ UNCHANGED <<abortRun, cancelled, loopVars, session, histVars>>

NextToolUnchecked ==     \* a variant that looks at runCtx once a turn
  /\ pc = "tool"
  /\ \/ call > calls /\ Goto("top") /\ turn' = turn + 1
     \/ call <= calls /\ Goto("execute") /\ UNCHANGED turn
  /\ UNCHANGED <<abortRun, cancelled, prompt, calls, call, session, histVars>>

NextTool ==
  /\ pc = "tool"
  /\ \/ call > calls /\ Goto("top") /\ turn' = turn + 1
     \/ call <= calls /\ cancelled /\ Leave("aborted") /\ UNCHANGED turn
     \/ call <= calls /\ ~cancelled /\ Goto("execute") /\ UNCHANGED turn
  /\ UNCHANGED <<abortRun, cancelled, prompt, calls, call, session, histVars>>

(* A failing tool has a result too, unless it reports the cancellation. *)
ExecuteTool ==
  /\ pc = "execute"
  /\ \/ /\ Record(ToolResult(call)) /\ Goto("poll")
     \/ /\ (cancelled /\ Leave("aborted")) \/ Leave("error")
        /\ UNCHANGED session
  /\ UNCHANGED <<abortRun, cancelled, loopVars, histVars>>

Advance ==
  /\ pc = "poll" /\ Goto("tool")
  /\ call' = call + 1
  /\ UNCHANGED <<abortRun, cancelled, prompt, turn, calls, session, histVars>>

(* The deferred clearAbort and cancel. *)
Exit ==
  /\ pc = "exit" /\ Goto("idle")
  /\ abortRun' = FALSE /\ cancelled' = FALSE
  /\ UNCHANGED <<loopVars, session, histVars>>

-----------------------------------------------------------------------------
Step ==
  \/ AppendPrompt \/ NoQueue \/ Register \/ TopOfLoop \/ Resolve \/ Answered
  \/ Failed \/ Stop \/ NextTool \/ ExecuteTool \/ Advance \/ Exit

Next == Prompt \/ Continue \/ Abort \/ Step

Spec == Init /\ [][Next]_vars

-----------------------------------------------------------------------------
(* Properties *)

(* Whatever the embeddable loop does the loop of the command could have done with
   empty queues: the copy under pkg/ has not diverged from it in the order of its
   checks, in what it records, or in when it can be cancelled. *)
ImplementsLoop == Loop!Spec
=============================================================================
