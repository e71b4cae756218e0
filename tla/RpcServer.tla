------------------------------ MODULE RpcServer ------------------------------
(***************************************************************************)
(* RPC mode (cmd/pi-go/rpc.go) around the run loop.  One reader goroutine  *)
(* takes commands from stdin one at a time and handles each to its end;    *)
(* a prompt runs in a goroutine of its own, the `pc` of AgentLoop, between *)
(* beginPrompt and endPrompt.  The commands modelled are the ones that act *)
(* on the run, prompt, steer, follow_up, abort, abort_retry and bash, and  *)
(* the ones that need the session to themselves: new_session,              *)
(* switch_session, fork, compact and the settings that are recorded in it. *)
(***************************************************************************)
EXTENDS AgentLoop

VARIABLES
  promptRunning,  \* s.promptRunning
  reader,         \* what the reader goroutine is at
  stored          \* the session that was open before, in its file

rpcVars == <<promptRunning, reader, stored>>
allVars == <<vars, rpcVars>>

(* isStreaming: a prompt is being served, or the runtime has a run. *)
Streaming == promptRunning \/ abortRun

RpcInit ==
  /\ Init
  /\ promptRunning = FALSE /\ reader = "read" /\ stored = <<>>

Reading == reader = "read"

(* prompt while idle: beginPrompt, then the goroutine calls runtime.Prompt. *)
PromptIdle ==
  /\ Reading /\ ~Streaming
  /\ Prompt
  /\ promptRunning' = TRUE
  /\ UNCHANGED <<reader, stored>>

(* prompt while streaming: isStreaming has answered yes, the message is queued
   in a step of its own, whatever the run does in between. *)
PromptStreaming ==
  /\ Reading /\ Streaming
  /\ Len(kind) < MaxMsgs
  /\ reader' = "queue"
  /\ UNCHANGED <<vars, promptRunning, stored>>

QueueMessage ==
  /\ reader = "queue"
  /\ Steer \/ FollowUp
  /\ reader' = "read"
  /\ UNCHANGED <<promptRunning, stored>>

RecvSteer    == Reading /\ Steer /\ UNCHANGED rpcVars
RecvFollowUp == Reading /\ FollowUp /\ UNCHANGED rpcVars

(* abort always answers success. *)
RecvAbort ==
  /\ Reading
  /\ Abort \/ (~abortRun /\ ~abortRetry /\ UNCHANGED vars)
  /\ UNCHANGED rpcVars

RecvAbortRetry == Reading /\ AbortRetry /\ UNCHANGED rpcVars

(* bash runs in the reader; the shell command may take forever. *)
StartBash == Reading /\ reader' = "bash" /\ UNCHANGED <<vars, promptRunning, stored>>
EndBash   == reader = "bash" /\ reader' = "read" /\ UNCHANGED <<vars, promptRunning, stored>>

-----------------------------------------------------------------------------
(* Commands that need the session to themselves are refused while streaming. *)

StartAlone(command) ==
  /\ Reading /\ ~Streaming
  /\ reader' = command
  /\ UNCHANGED <<vars, promptRunning, stored>>

StartNewSessionUnchecked ==
  /\ Reading
  /\ reader' = "newSession"
  /\ UNCHANGED <<vars, promptRunning, stored>>

StartNewSession == StartAlone("newSession")
StartSwitch     == StartAlone("switch")
StartFork       == StartAlone("fork")
StartCompact    == StartAlone("compact")
StartSetting    == StartAlone("setting")

(* They end with another session, or with the same one: an extension has cancelled
   them, there was an error, or the entry they append is no message. *)
Opened(messages) ==
  /\ session' = messages /\ base' = Len(messages)
  /\ stored' = session
  /\ reader' = "read"
  /\ UNCHANGED <<queueVars, abortVars, runVars, runs, cut, kind, promptRunning>>

EndNewSession == reader = "newSession" /\ Opened(<<>>)

EndSwitch == reader = "switch" /\ Opened(stored)

EndFork == reader = "fork" /\ \E n \in DOMAIN session : Opened(SubSeq(session, 1, n))

EndUnopened ==
  /\ reader \in {"newSession", "switch", "fork", "compact", "setting"}
  /\ reader' = "read"
  /\ UNCHANGED <<vars, promptRunning, stored>>

StartRewrite == StartNewSession \/ StartSwitch \/ StartFork \/ StartCompact \/ StartSetting
EndRewrite   == EndNewSession \/ EndSwitch \/ EndFork \/ EndUnopened

-----------------------------------------------------------------------------
(* The prompt goroutine: steps of runtime.Prompt, then the deferred endPrompt. *)
RunGoroutine == RunStep /\ UNCHANGED rpcVars

EndPromptIfWell ==
  /\ promptRunning /\ pc = "idle" /\ outcome = "ok"
  /\ promptRunning' = FALSE
  /\ UNCHANGED <<vars, reader, stored>>

EndPrompt ==
  /\ promptRunning /\ pc = "idle"
  /\ promptRunning' = FALSE
  /\ UNCHANGED <<vars, reader, stored>>

RpcNext ==
  \/ PromptIdle \/ PromptStreaming \/ QueueMessage
  \/ RecvSteer \/ RecvFollowUp \/ RecvAbort \/ RecvAbortRetry
  \/ StartBash \/ EndBash \/ StartRewrite \/ EndRewrite
  \/ RunGoroutine \/ EndPrompt

RpcSpec == RpcInit /\ [][RpcNext]_allVars

(* The goroutines are scheduled, provider calls return (ProviderCall, CallEnds) and
   a retry delay is a timer.  Nothing makes a tool return (bash has no time limit of
   its own, and a child of its shell may hold the pipes), a client send a command
   or a shell command end. *)
RunsOn == RunGoroutine /\ pc # "execute"

RpcFairSpec ==
  /\ RpcSpec
  /\ WF_allVars(RunsOn) /\ WF_allVars(EndPrompt)
  /\ WF_allVars(QueueMessage) /\ WF_allVars(EndRewrite)

-----------------------------------------------------------------------------
(* Properties *)

(* While the reader rewrites the session on its own, no run goroutine is between
   two uses of it, and none is cancellable or waiting to be. *)
SessionHasOneOwner ==
  reader \in {"newSession", "switch", "fork", "compact", "setting"} =>
    pc = "idle" /\ ~abortRun /\ ~promptRunning

(* The run registered for cancellation is the one being served: no stale
   registration survives a run, and a retry delay is registered only in it. *)
AbortTargetIsCurrent ==
  /\ abortRun => promptRunning /\ pc \notin {"idle", "prompt", "steering", "followUp", "register"}
  /\ abortRetry => pc = "delay"
  /\ cancelled => abortRun

(* A prompt that was accepted is answered: the run ends, whatever commands come
   in meanwhile, and the server is ready for the next prompt, unless a tool of the
   run never ends. *)
PromptEnds == promptRunning ~> (~promptRunning \/ [](pc = "execute"))

=============================================================================
