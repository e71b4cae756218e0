----------------------------- MODULE SidecarHost -----------------------------
(***************************************************************************)
(* sidecar/node-extension-runtime/main.mjs: the child process that runs    *)
(* extensions.  Its one thread serves requests from stdin in series: a     *)
(* line is queued, and processQueue handles one line to its end before     *)
(* the next, also while that one waits.  Code between two awaits is one    *)
(* step.                                                                   *)
(*                                                                         *)
(* A request is a number, in the order the host sends them.  "handle"      *)
(* stands for emit and command.execute, which run code of extensions with  *)
(* a list for actions, "tool" for tool.execute, which has none; "respond"  *)
(* is ui.respond.  The handlers of one event count as one.  Extension code *)
(* may push actions, open dialogs, ask for another session, and leave work *)
(* behind that goes on after the request was answered (a timer, a promise  *)
(* not awaited).  Calls that have timed out in the host change nothing     *)
(* here.                                                                   *)
(***************************************************************************)
EXTENDS Integers, Sequences, SequencesExt

CONSTANTS
  MaxRequests,  \* requests of a behaviour (bounds the model)
  Dialogs,      \* dialogs that may be opened
  Timed,        \* those opened with a timeout
  NoDialog

ASSUME HostConstants ==
  /\ MaxRequests \in Nat
  /\ Timed \subseteq Dialogs /\ NoDialog \notin Dialogs

VARIABLES
  kind,        \* what each request sent so far asks for
  about,       \* the dialog a ui.respond is about
  queue,       \* queue
  processing,  \* processing
  state,       \* where each request stands
  waitsFor,    \* the dialog the handler of a request waits for
  saved,       \* previousSink of the request's invokeWithActionSink
  sink,        \* currentActionSink: the request whose list it is, 0 for null
  actions,     \* the requests whose list has an action
  dialog,      \* "closed", "open", then "answered" or "default"
  left,        \* history: the requests that have left work behind
  inner,       \* previousSink of the hooks that work of a request waits for, or None
  strayed,     \* history: such hooks have ended with another list current
  answered,    \* responses on stdout, in order
  exited       \* process.exit was called

requestVars == <<kind, about>>
loopVars    == <<queue, processing, state, waitsFor>>
sinkVars    == <<saved, sink, actions>>
innerVars   == <<inner, strayed>>
codeVars    == <<dialog, left, innerVars>>
outVars     == <<answered, exited>>
hostVars    == <<requestVars, loopVars, sinkVars, codeVars, outVars>>

Requests == 1..MaxRequests
Sent     == DOMAIN kind
Code     == {"handle", "tool"}
Kinds    == Code \cup {"respond", "shutdown"}
Settled  == {"answered", "default"}
None     == -1

Init ==
  /\ kind = <<>> /\ about = <<>>
  /\ queue = <<>> /\ processing = FALSE
  /\ state = [r \in Requests |-> "unsent"]
  /\ waitsFor = [r \in Requests |-> NoDialog]
  /\ saved = [r \in Requests |-> 0] /\ sink = 0
  /\ actions = {}
  /\ dialog = [d \in Dialogs |-> "closed"] /\ left = {}
  /\ inner = [r \in Requests |-> None] /\ strayed = FALSE
  /\ answered = <<>> /\ exited = FALSE

-----------------------------------------------------------------------------
(* The loop over the queue. *)

(* A request whose turn has come: code of an extension gets an action list, the
   other methods are dispatched at once. *)
Begin(s, r) == [s EXCEPT ![r] = "running"]

(* rl.on("line"): the line is queued, and the loop started unless it runs. *)
LineArrives(k, d) ==
  LET r == Len(kind) + 1 IN
  /\ ~exited /\ r <= MaxRequests
  /\ kind' = Append(kind, k) /\ about' = Append(about, d)
  /\ processing' = TRUE
  /\ IF processing
     THEN queue' = Append(queue, r) /\ state' = [state EXCEPT ![r] = "queued"]
     ELSE UNCHANGED queue /\ state' = Begin(state, r)
  /\ UNCHANGED <<waitsFor, sinkVars, codeVars, outVars>>

(* The client answers dialogs it was shown; the host may send any request. *)
HostSends ==
  \/ \E k \in Code \cup {"shutdown"} : LineArrives(k, NoDialog)
  \/ \E d \in Dialogs :
       /\ dialog[d] # "closed"
       /\ \A r \in Sent : about[r] # d
       /\ LineArrives("respond", d)

RespondAndStop(r) ==
  /\ answered' = Append(answered, r)
  /\ processing' = FALSE
  /\ state' = [state EXCEPT ![r] = "done"]
  /\ UNCHANGED <<requestVars, queue>>

(* A response is written and the loop goes on with the next line, if any. *)
Respond(r) ==
  /\ answered' = Append(answered, r)
  /\ IF queue = <<>>
     THEN processing' = FALSE /\ state' = [state EXCEPT ![r] = "done"] /\ UNCHANGED queue
     ELSE /\ state' = Begin([state EXCEPT ![r] = "done"], Head(queue))
          /\ queue' = Tail(queue)
          /\ UNCHANGED processing
  /\ UNCHANGED requestVars

(* invokeWithActionSink: the handler of r runs with its own action list; a tool
   runs without. *)
EnterHandler(r) ==
  /\ ~exited /\ state[r] = "running" /\ kind[r] \in Code
  /\ state' = [state EXCEPT ![r] = "handler"]
  /\ saved' = [saved EXCEPT ![r] = sink]
  /\ sink' = IF kind[r] = "handle" THEN r ELSE sink
  /\ UNCHANGED <<requestVars, queue, processing, waitsFor, actions, codeVars, outVars>>

LeaveHandlerNoRestore(r) ==
  /\ ~exited /\ state[r] = "handler"
  /\ Respond(r)
  /\ UNCHANGED <<waitsFor, sinkVars, codeVars, exited>>

(* The handler returns or throws; the former list is current again.  Hooks that it
   has not awaited are work left behind. *)
LeaveHandler(r) ==
  /\ ~exited /\ state[r] = "handler"
  /\ sink' = saved[r]
  /\ left' \in {left, left \cup {r}}
  /\ inner[r] # None => r \in left'
  /\ Respond(r)
  /\ UNCHANGED <<waitsFor, saved, actions, dialog, innerVars, exited>>

Shutdown(r) ==
  /\ ~exited /\ state[r] = "running" /\ kind[r] = "shutdown"
  /\ answered' = Append(answered, r)
  /\ exited' = TRUE
  /\ UNCHANGED <<requestVars, loopVars, sinkVars, codeVars>>

(* uiRespond: a dialog that is not open any more is reported, not an error. *)
UiRespond(r) ==
  /\ ~exited /\ state[r] = "running" /\ kind[r] = "respond"
  /\ dialog' = IF dialog[about[r]] = "open"
               THEN [dialog EXCEPT ![about[r]] = "answered"] ELSE dialog
  /\ Respond(r)
  /\ UNCHANGED <<waitsFor, sinkVars, left, innerVars, exited>>

-----------------------------------------------------------------------------
(* Code of extensions. *)

(* pushHostAction, by the handler of r or by work it has left behind: the action
   goes to the current list; without one it throws. *)
PushAction(r) ==
  /\ ~exited
  /\ state[r] = "handler" \/ r \in left
  /\ sink # 0
  /\ actions' = actions \cup {sink}
  /\ UNCHANGED <<requestVars, loopVars, saved, sink, codeVars, outVars>>

(* createDialogPromise; a handler waits for the dialog or goes on. *)
OpenDialog(r, d, waits) ==
  /\ ~exited
  /\ state[r] = "handler" \/ (r \in left /\ ~waits)
  /\ dialog[d] = "closed"
  /\ dialog' = [dialog EXCEPT ![d] = "open"]
  /\ IF waits
     THEN /\ state' = [state EXCEPT ![r] = "waiting"]
          /\ waitsFor' = [waitsFor EXCEPT ![r] = d]
     ELSE UNCHANGED <<state, waitsFor>>
  /\ UNCHANGED <<requestVars, queue, processing, sinkVars, left, innerVars, outVars>>

(* newSession, fork, navigateTree, switchSession: the hooks before them are run in an
   invokeWithActionSink of their own, with the list that is current... *)
EnterHooks(r) ==
  /\ ~exited
  /\ state[r] = "handler" \/ r \in left
  /\ inner[r] = None
  /\ inner' = [inner EXCEPT ![r] = sink]
  /\ UNCHANGED <<requestVars, loopVars, sinkVars, dialog, left, strayed, outVars>>

(* ... and at their end that one is current again, whatever is handled by then. *)
LeaveHooks(r) ==
  /\ ~exited
  /\ inner[r] # None
  /\ sink' = inner[r]
  /\ strayed' = (strayed \/ sink # inner[r])
  /\ inner' = [inner EXCEPT ![r] = None]
  /\ UNCHANGED <<requestVars, loopVars, saved, actions, dialog, left, outVars>>

(* The timeout settles the dialog with its default value. *)
TimeOut(d) ==
  /\ ~exited
  /\ d \in Timed /\ dialog[d] = "open"
  /\ dialog' = [dialog EXCEPT ![d] = "default"]
  /\ UNCHANGED <<requestVars, loopVars, sinkVars, left, innerVars, outVars>>

(* The await of a settled dialog ends. *)
Resume(r) ==
  /\ ~exited
  /\ state[r] = "waiting" /\ dialog[waitsFor[r]] \in Settled
  /\ state' = [state EXCEPT ![r] = "handler"]
  /\ waitsFor' = [waitsFor EXCEPT ![r] = NoDialog]
  /\ UNCHANGED <<requestVars, queue, processing, sinkVars, codeVars, outVars>>

(* The host closes stdin: the process exits. *)
StdinCloses ==
  /\ ~exited
  /\ exited' = TRUE
  /\ UNCHANGED <<requestVars, loopVars, sinkVars, codeVars, answered>>

Serve(r) == EnterHandler(r) \/ LeaveHandler(r) \/ UiRespond(r) \/ Shutdown(r) \/ Resume(r)

Next ==
  \/ HostSends \/ StdinCloses
  \/ \E r \in Requests :
       \/ Serve(r)
       \/ PushAction(r) \/ EnterHooks(r) \/ LeaveHooks(r)
       \/ \E d \in Dialogs, waits \in BOOLEAN : OpenDialog(r, d, waits)
  \/ \E d \in Dialogs : TimeOut(d)

Spec == Init /\ [][Next]_hostVars

(* The event loop runs, timers fire, and handlers return unless they wait for a
   dialog.  What Serve does to a request it does at most MaxRequests times. *)
FairSpec ==
  /\ Spec
  /\ WF_hostVars(\E r \in Requests : Serve(r))
  /\ WF_hostVars(\E d \in Dialogs : TimeOut(d))

-----------------------------------------------------------------------------
(* Properties *)

Handled == {r \in Requests : state[r] \in {"handler", "waiting"}}

(* The current action list is that of the one request being handled, so no
   action that is accepted misses the response it should travel with: until hooks
   that nobody awaited end under another request, or under none. *)
ActionsReachHost ==
  ~strayed => {sink} \ {0} = {r \in Handled : kind[r] = "handle"}

(* When all dialogs have timeouts every request is answered, or the process ends. *)
RequestsServed ==
  \A r \in Requests : state[r] = "queued" ~> (state[r] = "done" \/ exited)
=============================================================================
