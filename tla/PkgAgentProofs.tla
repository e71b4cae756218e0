--------------------------- MODULE PkgAgentProofs ---------------------------
(***************************************************************************)
(* The embeddable loop implements the loop of the command, for every       *)
(* number of prompts, runs, turns and calls.                               *)
(***************************************************************************)
EXTENDS PkgAgent, TLAPS

Kinds(n) == [m \in 1..n |-> "prompt"]

(* One more prompt is one more acceptance. *)
LEMMA KindsGrow ==
  ASSUME NEW n \in Nat
  PROVE  Len(Kinds(n)) = n /\ Kinds(n + 1) = Append(Kinds(n), "prompt")
<1>1. Kinds(n) \in Seq({"prompt"})
  BY DEF Kinds
<1>2. Len(Kinds(n)) = n
  BY DEF Kinds
<1>3. DOMAIN Append(Kinds(n), "prompt") = 1..(n + 1)
  BY <1>1, <1>2
<1>4. \A m \in 1..(n + 1) : Append(Kinds(n), "prompt")[m] = "prompt"
  BY <1>1, <1>2 DEF Kinds
<1> QED BY <1>1, <1>2, <1>3, <1>4 DEF Kinds

(* No prompts, no kinds. *)
LEMMA NoKinds == Kinds(0) = <<>>
BY DEF Kinds

(* The prompts are counted. *)
Counted == prompts \in Nat

(* The count of prompts stays a number. *)
LEMMA StepCounted == Counted /\ [Next]_vars => Counted'
BY DEF Counted, Next, Step, vars, histVars, loopVars, Prompt, Continue, Abort, AppendPrompt,
       NoQueue, Register, TopOfLoop, Resolve, Answered, Failed, Stop, NextTool,
       ExecuteTool, Advance, Exit, Enter

USE DEF Goto, Leave, Record, User, Assistant, ToolResult, histVars, loopVars,
        Loop!User, Loop!Assistant, Loop!ToolResult, Loop!Leave, Loop!NextTurn,
        Loop!queueVars, Loop!abortVars, Loop!runVars, Loop!histVars

(* The initial states are initial states of the loop. *)
LEMMA InitImplements == Init => Loop!Init
BY NoKinds DEF Init, Loop!Init, Kinds

(* Prompt is the Prompt of the loop. *)
LEMMA PromptImplements == Counted /\ Prompt => Loop!Prompt
<1> SUFFICES ASSUME Counted, Prompt PROVE Loop!Prompt
  OBVIOUS
<1>1. Len(Kinds(prompts)) = prompts /\ Kinds(prompts + 1) = Append(Kinds(prompts), "prompt")
  BY KindsGrow DEF Counted
<1> QED BY <1>1 DEF Prompt, Enter, Kinds, Loop!Prompt, Loop!EnterRun, Loop!Accept, Loop!NewMsg

(* Continue is the Continue of the loop. *)
LEMMA ContinueImplements == Continue => Loop!Continue
BY DEF Continue, Enter, Loop!Continue, Loop!EnterRun, Loop!LastRole

(* Abort is the Abort of the loop. *)
LEMMA AbortImplements == Abort => Loop!Abort
BY DEF Abort, Loop!Abort

(* Each step of the goroutine is one of the loop's. *)
LEMMA StepImplements == Step => Loop!RunStep
<1>1. AppendPrompt => Loop!AppendPrompt
  BY DEF AppendPrompt, Loop!AppendPrompt
<1>2. NoQueue => Loop!TakeSteering \/ Loop!TakeFollowUp
  BY DEF NoQueue, Loop!TakeSteering, Loop!TakeFollowUp
<1>3. Register => Loop!Register
  BY DEF Register, Loop!Register
<1>4. TopOfLoop => Loop!TopOfLoop
  BY DEF TopOfLoop, Loop!TopOfLoop
<1>5. Resolve => Loop!AppendPending
  BY DEF Resolve, Loop!AppendPending
<1>6. Answered => Loop!Answered
  BY DEF Answered, Loop!Answered
<1>7. Failed => Loop!Failed
  BY DEF Failed, Loop!Failed
<1>8. Stop => Loop!StopOrFollowUp
  BY DEF Stop, Loop!StopOrFollowUp
<1>9. NextTool => Loop!NextTool
  BY DEF NextTool, Loop!NextTool
<1>10. ExecuteTool => Loop!ExecuteTool
  BY DEF ExecuteTool, Loop!ExecuteTool
<1>11. Advance => Loop!PollSteering
  BY DEF Advance, Loop!PollSteering
<1>12. Exit => Loop!Exit
  BY DEF Exit, Loop!Exit
<1> QED BY <1>1, <1>2, <1>3, <1>4, <1>5, <1>6, <1>7, <1>8, <1>9, <1>10, <1>11, <1>12
        DEF Step, Loop!RunStep

(* Every behaviour of the embeddable runtime is one of the command's run loop
   (both runLoop functions): what is proved or checked of that one without its
   queues holds here. *)
THEOREM EmbeddedImplements == Spec => ImplementsLoop
<1>1. Counted /\ [Next]_vars => [Loop!Next]_(Loop!vars)
  <2> SUFFICES ASSUME Counted, [Next]_vars PROVE [Loop!Next]_(Loop!vars)
    OBVIOUS
  <2>1. CASE Prompt
    BY <2>1, PromptImplements DEF Loop!Next
  <2>2. CASE Continue
    BY <2>2, ContinueImplements DEF Loop!Next
  <2>3. CASE Abort
    BY <2>3, AbortImplements DEF Loop!Next
  <2>4. CASE Step
    BY <2>4, StepImplements DEF Loop!Next
  <2>5. CASE UNCHANGED vars
    BY <2>5 DEF vars, Loop!vars
  <2> QED BY <2>1, <2>2, <2>3, <2>4, <2>5 DEF Next
<1>2. Init => Counted
  BY DEF Init, Counted
<1> QED BY <1>1, <1>2, StepCounted, InitImplements, PTL DEF Spec, ImplementsLoop, Loop!Spec
=============================================================================
