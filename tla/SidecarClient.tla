---------------------------- MODULE SidecarClient ----------------------------
(***************************************************************************)
(* internal/extensionsidecar/client.go: requests of many goroutines over   *)
(* the stdin and stdout of one child process.                              *)
(*                                                                         *)
(* A call is a goroutine inside c.call, named by its request id.  Besides  *)
(* the calls there are readLoop, waitLoop, finish (run once by either) and *)
(* one Close.  The child process is kept abstract: it reads requests or    *)
(* stops reading, as when code of an extension blocks its event loop,      *)
(* answers any of them in any order or never, and may exit at any time.    *)
(* A pipe holds PipeCap lines, and a Write to a full one waits; whoever    *)
(* holds writeMu in such a Write makes the others wait as the full pipe    *)
(* would, so the lock itself is left out.                                  *)
(***************************************************************************)
EXTENDS Integers, Sequences

CONSTANTS
  Calls,      \* the calls of a behaviour
  Deadline,   \* those whose context has a timeout
  CloseCall,  \* the "shutdown" call made by Close
  PipeCap     \* lines a pipe holds

ASSUME ClientConstants ==
  /\ Deadline \subseteq Calls /\ CloseCall \in Deadline
  /\ PipeCap \in Nat \ {0}

VARIABLES
  pc,        \* where each call stands
  result,    \* how it ended
  pending,   \* c.pending
  chan,      \* the content of each respCh, a channel with room for one
  reader,    \* readLoop
  sending,   \* the call whose response readLoop is about to send, if any
  waiter,    \* waitLoop
  finish,    \* finish: "free", "cleared" pending drained, "closed" done is closed
  closing,   \* Close
  alive,     \* the child process runs
  stdin, stdout,  \* the pipes
  held       \* requests the child has read and not answered

callVars    == <<pc, result, pending, chan>>
loopVars    == <<reader, sending, waiter, finish, closing>>
processVars == <<alive, stdin, stdout, held>>
clientVars  == <<callVars, loopVars, processVars>>

Results == {"none", "answer", "closed", "timeout", "writeError"}

Init ==
  /\ pc = [c \in Calls |-> "new"] /\ result = [c \in Calls |-> "none"]
  /\ pending = {} /\ chan = [c \in Calls |-> "none"]
  /\ reader = "scan" /\ sending = {} /\ waiter = "wait"
  /\ finish = "free" /\ closing = "open"
  /\ alive = TRUE /\ stdin = <<>> /\ stdout = <<>> /\ held = {}

Done == finish = "closed"

-----------------------------------------------------------------------------
(* A call. *)

Return(c, r) ==
  /\ pc' = [pc EXCEPT ![c] = "returned"]
  /\ result' = [result EXCEPT ![c] = r]

(* The call will return r once removePending is through. *)
Abandon(c, r) ==
  /\ pc' = [pc EXCEPT ![c] = "leave"]
  /\ result' = [result EXCEPT ![c] = r]

(* Under pendingMu: a closed client is reported, else the channel registered. *)
Register(c) ==
  /\ pc[c] = "new"
  /\ IF Done
     THEN Return(c, "closed") /\ UNCHANGED pending
     ELSE /\ pending' = pending \cup {c}
          /\ pc' = [pc EXCEPT ![c] = "write"]
          /\ UNCHANGED result
  /\ UNCHANGED <<chan, loopVars, processVars>>

(* Write returns when the pipe has room or nobody reads it any more; it does
   not look at the context. *)
Write(c) ==
  /\ pc[c] = "write"
  /\ \/ /\ alive /\ Len(stdin) < PipeCap
        /\ stdin' = Append(stdin, c)
        /\ pc' = [pc EXCEPT ![c] = "wait"]
        /\ UNCHANGED result
     \/ /\ ~alive
        /\ Abandon(c, "writeError")
        /\ UNCHANGED stdin
  /\ UNCHANGED <<pending, chan, loopVars, alive, stdout, held>>

(* The select: any case that is ready may be taken.  The context of a call with
   a deadline may be done at any time, and is sooner or later. *)
Receive(c) ==
  /\ pc[c] = "wait"
  /\ chan[c] # "none"
  /\ chan' = [chan EXCEPT ![c] = "none"]
  /\ Return(c, chan[c])
  /\ UNCHANGED <<pending, loopVars, processVars>>

GiveUpOnDone(c) ==
  /\ pc[c] = "wait"
  /\ Done /\ Abandon(c, "closed")
  /\ UNCHANGED <<pending, chan, loopVars, processVars>>

GiveUp(c) ==
  /\ pc[c] = "wait"
  /\ \/ c \in Deadline /\ Abandon(c, "timeout")
     \/ Done /\ Abandon(c, "closed")
  /\ UNCHANGED <<pending, chan, loopVars, processVars>>

RemoveNothing(c) ==
  /\ pc[c] = "leave"
  /\ pc' = [pc EXCEPT ![c] = "returned"]
  /\ UNCHANGED <<result, pending, chan, loopVars, processVars>>

RemovePending(c) ==
  /\ pc[c] = "leave"
  /\ pending' = pending \ {c}
  /\ pc' = [pc EXCEPT ![c] = "returned"]
  /\ UNCHANGED <<result, chan, loopVars, processVars>>

-----------------------------------------------------------------------------
(* readLoop, waitLoop, finish *)

ReadLineKeepsPending ==
  /\ reader = "scan" /\ sending = {}
  /\ stdout # <<>>
  /\ stdout' = Tail(stdout)
  /\ IF Head(stdout) \in pending
     THEN sending' = {Head(stdout)}
     ELSE UNCHANGED sending
  /\ UNCHANGED <<callVars, reader, waiter, finish, closing, alive, stdin, held>>

ReadLineAnyCall ==
  /\ reader = "scan" /\ sending = {}
  /\ stdout # <<>> /\ pending # {}
  /\ stdout' = Tail(stdout)
  /\ \E c \in pending :
       /\ pending' = pending \ {c}
       /\ sending' = {c}
  /\ UNCHANGED <<reader, pc, result, chan, waiter, finish, closing, alive, stdin, held>>

(* A response: its channel is looked up and deleted under pendingMu; nobody
   waits for one that came too late. *)
ReadLine ==
  /\ reader = "scan" /\ sending = {}
  /\ stdout # <<>>
  /\ stdout' = Tail(stdout)
  /\ IF Head(stdout) \in pending
     THEN /\ pending' = pending \ {Head(stdout)}
          /\ sending' = {Head(stdout)}
     ELSE UNCHANGED <<pending, sending>>
  /\ UNCHANGED <<reader, pc, result, chan, waiter, finish, closing, alive, stdin, held>>

(* The send would wait forever on a channel that is full. *)
SendResponse ==
  /\ \E c \in sending :
       /\ chan[c] = "none"
       /\ chan' = [chan EXCEPT ![c] = "answer"]
  /\ sending' = {}
  /\ UNCHANGED <<pc, result, pending, reader, waiter, finish, closing, processVars>>

(* End of file ends the loop; an oversized line, or the pipe closed by cmd.Wait
   while lines are left in it, is an error. *)
StopReading ==
  /\ reader = "scan" /\ sending = {}
  /\ \/ /\ ~alive /\ stdout = <<>>
        /\ reader' = "stopped"
     \/ /\ ~alive \/ stdout # <<>>
        /\ reader' = "finish"
  /\ UNCHANGED <<callVars, sending, waiter, finish, closing, processVars>>

ProcessWaited ==
  /\ waiter = "wait" /\ ~alive
  /\ waiter' = "finish"
  /\ UNCHANGED <<callVars, reader, sending, finish, closing, processVars>>

(* doneOnce: under pendingMu every registered call is told... *)
FinishClear ==
  /\ finish = "free"
  /\ reader = "finish" \/ waiter = "finish"
  /\ \A c \in pending : chan[c] = "none"
  /\ chan' = [c \in Calls |-> IF c \in pending THEN "closed" ELSE chan[c]]
  /\ pending' = {}
  /\ finish' = "cleared"
  /\ UNCHANGED <<pc, result, reader, sending, waiter, closing, processVars>>

FinishForgotten ==
  /\ finish = "cleared"
  /\ reader = "finish" /\ waiter = "finish"
  /\ finish' = "closed"
  /\ UNCHANGED <<callVars, reader, sending, waiter, closing, processVars>>

(* ... and done is closed.  A call may register in between. *)
FinishClose ==
  /\ finish = "cleared"
  /\ finish' = "closed"
  /\ UNCHANGED <<callVars, reader, sending, waiter, closing, processVars>>

(* Close: the shutdown call, kill, wait for done. *)
Kill ==
  /\ closing = "open" /\ pc[CloseCall] = "returned"
  /\ closing' = "killed"
  /\ alive' = FALSE
  /\ UNCHANGED <<callVars, reader, sending, waiter, finish, stdin, stdout, held>>

CloseReturns ==
  /\ closing = "killed" /\ Done
  /\ closing' = "closed"
  /\ UNCHANGED <<callVars, reader, sending, waiter, finish, processVars>>

-----------------------------------------------------------------------------
(* The child process. *)

(* The "line" event of its readline, which comes when its event loop gets to it. *)
ChildReads ==
  /\ alive /\ stdin # <<>>
  /\ held' = held \cup {Head(stdin)}
  /\ stdin' = Tail(stdin)
  /\ UNCHANGED <<callVars, loopVars, alive, stdout>>

ChildAnswers ==
  /\ alive /\ Len(stdout) < PipeCap
  /\ \E c \in held :
       /\ stdout' = Append(stdout, c)
       /\ held' = held \ {c}
  /\ UNCHANGED <<callVars, loopVars, alive, stdin>>

ChildExits ==
  /\ alive
  /\ alive' = FALSE
  /\ UNCHANGED <<callVars, loopVars, stdin, stdout, held>>

CallStep(c) ==
  \/ Register(c) \/ Write(c) \/ Receive(c) \/ GiveUp(c) \/ RemovePending(c)

LoopStep ==
  \/ ReadLine \/ SendResponse \/ StopReading \/ ProcessWaited
  \/ FinishClear \/ FinishClose \/ Kill \/ CloseReturns

Next ==
  \/ \E c \in Calls : CallStep(c)
  \/ LoopStep
  \/ ChildReads \/ ChildAnswers \/ ChildExits

Spec == Init /\ [][Next]_clientVars

(* Goroutines are scheduled and timers fire.  The child need not answer, nor read,
   nor exit.  Each of these steps is taken finitely often, so one of them being taken
   whenever one is possible leads to all of them. *)
Progress ==
  \/ \E c \in Calls : Write(c) \/ Receive(c) \/ GiveUp(c) \/ RemovePending(c)
  \/ LoopStep

FairSpec == Spec /\ WF_clientVars(Progress)

-----------------------------------------------------------------------------
(* Properties *)

(* Every variable has its type. *)
TypeOK ==
  /\ pc \in [Calls -> {"new", "write", "wait", "leave", "returned"}]
  /\ result \in [Calls -> Results]
  /\ pending \subseteq Calls
  /\ chan \in [Calls -> {"none", "answer", "closed"}]
  /\ reader \in {"scan", "finish", "stopped"} /\ sending \subseteq Calls
  /\ waiter \in {"wait", "finish"} /\ finish \in {"free", "cleared", "closed"}
  /\ closing \in {"open", "killed", "closed"} /\ alive \in BOOLEAN
  /\ stdin \in Seq(Calls) /\ stdout \in Seq(Calls) /\ held \subseteq Calls

(* No send blocks: the channel of a registered call is empty, and so is the one
   readLoop is about to send to.  A blocked send would stop readLoop, or leave
   pendingMu locked in finish, for good. *)
NoSendBlocks ==
  /\ \A c \in sending : chan[c] = "none" /\ c \notin pending
  /\ \A c \in pending : chan[c] = "none"

(* No call leaves its channel behind in c.pending, however it returned. *)
NoLeak == \A c \in pending : pc[c] \in {"write", "wait", "leave"}

(* A call that got an answer got its own: no trace of its request is left. *)
OwnAnswer ==
  \A c \in Calls : chan[c] = "answer" \/ result[c] = "answer" =>
    /\ c \notin held
    /\ \A i \in DOMAIN stdin : stdin[i] # c
    /\ \A i \in DOMAIN stdout : stdout[i] # c

(* The pipe to a child that runs has no room: Write waits for the child to read or
   to exit, and looks at no context. *)
WriteBlocked == alive /\ Len(stdin) = PipeCap

(* A call with a deadline returns, whether or not the child ever answers or exits:
   but where it runs on and never again reads what fills the pipe. *)
DeadlineHolds ==
  \A c \in Deadline : pc[c] = "write" ~> (pc[c] = "returned" \/ []WriteBlocked)

(* Close returns, with the same exception for the shutdown call in it; and once the
   child is killed so does every call, those without a deadline too. *)
CloseFrees ==
  /\ pc[CloseCall] = "write" ~> (closing = "closed" \/ []WriteBlocked)
  /\ closing = "killed" ~> \A c \in Calls : pc[c] \in {"new", "returned"}
=============================================================================
