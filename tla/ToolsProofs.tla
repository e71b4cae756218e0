------------------------------ MODULE ToolsProofs ------------------------------
(***************************************************************************)
(* Aborts of bash requests, the replies to commands, what edit takes for   *)
(* unique, and what read and grep show, for any files, texts, limits and   *)
(* number of commands.                                                     *)
(*                                                                         *)
(* AbortMeetsItsCommand says nothing of the cancel function AbortBash has  *)
(* taken and not yet called, nor of what abortBash names when it is set:   *)
(* AbortInv does, and is inductive.  NoFalseSuccess needs to know of each  *)
(* command that has ended whether it ever had a shell, and that nothing    *)
(* changes how the shell and the context ended once a reply is made of it. *)
(*                                                                         *)
(* UniqueUpToOverlap and PagesAndMatches are about recursions over texts and     *)
(* files.  For each of them a lemma says that there is such a function,    *)
(* and an induction what it gives: CountTells from the end of the text on, *)
(* ReadingCovers from the last line on, GrepKeeps file by file.            *)
(***************************************************************************)
EXTENDS Tools, TLAPS, WellFoundedInduction, FiniteSetTheorems, SequenceTheorems

Reply == [error : BOOLEAN, text : BOOLEAN, code : Int, cancelled : BOOLEAN]

CommandType ==
  [by    : {"loop", "request"},  in : {"sidecar", "shell"},  timed : BOOLEAN,
   at    : {"starting", "running", "done", "released"},
   shell : {"off", "on", "zero", "one", "killed", "late"},
   child : BOOLEAN,
   ctx   : {"live", "cancelled", "deadline"},
   reply : Reply]

CommandsOK ==
  /\ commands \in Seq(CommandType)
  /\ abortBash \in Numbers \cup {0} /\ held \in Numbers \cup {0}

IsRequest(n) == commands[n].by = "request"

AbortInv ==
  /\ CommandsOK
  /\ \A n \in Numbers : IsRequest(n) =>
       /\ commands[n].at # "released" => abortBash = n
       /\ commands[n].ctx = "cancelled" => n \in aimed
  /\ \A n \in Numbers : commands[n].at = "running" => commands[n].shell # "off"
  /\ abortBash # 0 => IsRequest(abortBash) /\ commands[abortBash].at # "released"
  /\ held # 0 => IsRequest(held) /\ held \in aimed

-----------------------------------------------------------------------------
(* A step of command n keeps AbortInv when n keeps its owner, is not released,
   and is not cancelled by the way. *)
LEMMA CommandStep ==
  ASSUME AbortInv, NEW n \in Numbers, NEW c \in CommandType, Set(n, c),
         c.by = commands[n].by, c.at = "released" <=> commands[n].at = "released",
         c.ctx = "cancelled" /\ IsRequest(n) => n \in aimed,
         c.at = "running" => c.shell # "off",
         UNCHANGED <<abortBash, held, aimed>>
  PROVE  AbortInv'
<1>1. /\ commands' \in Seq(CommandType) /\ Len(commands') = Len(commands)
      /\ \A m \in Numbers : commands'[m] = IF m = n THEN c ELSE commands[m]
  BY DEF AbortInv, CommandsOK, Set, Numbers
<1>2. Numbers' = Numbers
  BY <1>1 DEF Numbers
<1> QED BY <1>1, <1>2 DEF AbortInv, CommandsOK, IsRequest

(* A new command: one of the loop, or of a request when no other is served. *)
LEMMA CommandStarts ==
  ASSUME AbortInv, NEW timed \in BOOLEAN, NEW owner \in {"loop", "request"},
         commands' = Append(commands, Command(owner, timed)),
         owner = "loop" => UNCHANGED abortBash,
         owner = "request" => abortBash = 0 /\ abortBash' = Len(commands) + 1,
         UNCHANGED <<held, aimed>>
  PROVE  AbortInv'
<1> DEFINE c == Command(owner, timed)
<1>1. c \in CommandType /\ c.by = owner /\ c.at = "starting" /\ c.ctx = "live"
  BY DEF Command, CommandType, Reply, NoReply, Executor
<1> HIDE DEF c
<1>2. /\ commands' \in Seq(CommandType) /\ Len(commands') = Len(commands) + 1
      /\ commands'[Len(commands) + 1] = c
      /\ \A m \in Numbers : commands'[m] = commands[m]
  BY <1>1 DEF AbortInv, CommandsOK, Numbers, c
<1>3. Numbers' = Numbers \cup {Len(commands) + 1} /\ 0 \notin Numbers'
  BY <1>2 DEF Numbers, AbortInv, CommandsOK
<1>4. Len(commands) + 1 \notin Numbers
  BY DEF Numbers, AbortInv, CommandsOK
<1>5. CommandsOK'
  BY <1>2, <1>3 DEF AbortInv, CommandsOK
<1>6. \A m \in Numbers' : commands'[m] = IF m \in Numbers THEN commands[m] ELSE c
  BY <1>2, <1>3, <1>4
<1> QED BY <1>1, <1>3, <1>4, <1>5, <1>6 DEF AbortInv, CommandsOK, IsRequest

(* The replies to commands that never had a shell. *)
LEMMA BareReplies ==
  /\ [NoReply EXCEPT !.error = TRUE] \in Reply /\ [NoReply EXCEPT !.text = TRUE] \in Reply
  /\ \A b \in BOOLEAN : [NoReply EXCEPT !.error = TRUE, !.text = b] \in Reply
<1>1. \A r \in Reply, b \in BOOLEAN :
        [r EXCEPT !.error = TRUE] \in Reply /\ [r EXCEPT !.text = b] \in Reply
  BY DEF Reply
<1>2. NoReply \in Reply
  BY DEF NoReply, Reply
<1> QED BY <1>1, <1>2

(* A reply has its type whatever the shell and the context were. *)
LEMMA ShellReplyType ==
  ASSUME NEW c \in CommandType, c.shell \notin {"on", "off"} PROVE ShellReply(c) \in Reply
BY DEF CommandType, ShellReply, Reply

-----------------------------------------------------------------------------
(* The invariant holds in every reachable state. *)
LEMMA AbortInvariant == Spec => []AbortInv
<1>1. Init => AbortInv
  BY DEF Init, AbortInv, CommandsOK, Numbers
<1>2. AbortInv /\ [Next]_vars => AbortInv'
  <2> SUFFICES ASSUME AbortInv, [Next]_vars PROVE AbortInv'
    OBVIOUS
  <2>types. commands \in Seq(CommandType) /\ \A n \in Numbers : commands[n] \in CommandType
    BY DEF AbortInv, CommandsOK, Numbers
  <2>begun. \A n \in Numbers : commands[n].at = "running" => commands[n].shell # "off"
    BY DEF AbortInv
  <2>aimed. \A n \in Numbers : commands[n].ctx = "cancelled" /\ IsRequest(n) => n \in aimed
    BY DEF AbortInv
  <2>1. CASE Write \/ Edit
    BY <2>1 DEF Write, Edit, shellVars, AbortInv, CommandsOK, Numbers, IsRequest
  <2>2. CASE StartForLoop
    BY <2>2, CommandStarts DEF StartForLoop
  <2>3. CASE ExecuteBash
    BY <2>3, CommandStarts DEF ExecuteBash
  <2>4. CASE ShellStep
    <3>1. PICK n \in Numbers :
               \/ \E b \in BOOLEAN : Set(n, [commands[n] EXCEPT !.child = b])
               \/ \E code \in {"zero", "one"} : Set(n, [commands[n] EXCEPT !.shell = code])
      BY <2>4, Zenon DEF ShellStep
    <3>2. UNCHANGED <<abortBash, held, aimed>>
      BY <2>4 DEF ShellStep
    <3>3. ASSUME NEW b \in BOOLEAN, Set(n, [commands[n] EXCEPT !.child = b]) PROVE AbortInv'
      BY <2>types, <3>2, <3>3, <2>begun, <2>aimed, CommandStep DEF CommandType, IsRequest
    <3>4. ASSUME NEW code \in {"zero", "one"}, Set(n, [commands[n] EXCEPT !.shell = code])
          PROVE  AbortInv'
      BY <2>types, <3>2, <3>4, <2>begun, <2>aimed, CommandStep DEF CommandType, IsRequest
    <3> QED BY <3>1, <3>3, <3>4
  <2>5. CASE Deadline
    <3>1. PICK n \in Numbers : Set(n, [commands[n] EXCEPT !.ctx = "deadline"])
      BY <2>5 DEF Deadline
    <3> QED BY <2>types, <2>5, <3>1, <2>begun, <2>aimed, CommandStep DEF Deadline, CommandType, IsRequest
  <2>6. ASSUME NEW n \in Numbers, Begin(n) PROVE AbortInv'
    <3>1. commands[n].at = "starting" /\ UNCHANGED <<abortBash, held, aimed>>
      BY <2>6 DEF Begin
    <3>2. CASE Set(n, [commands[n] EXCEPT !.at = "running", !.shell = "on"])
      BY <2>types, <3>1, <3>2, <2>begun, <2>aimed, CommandStep DEF CommandType, IsRequest
    <3>3. CASE \E r \in Reply : Set(n, [commands[n] EXCEPT !.at = "done", !.reply = r])
      BY <2>types, <3>1, <3>3, <2>begun, <2>aimed, CommandStep DEF CommandType, IsRequest
    <3> QED BY <2>6, <3>2, <3>3, BareReplies DEF Begin
  <2>7. ASSUME NEW n \in Numbers, Kill(n) PROVE AbortInv'
    <3>1. PICK end \in {"killed", "late"} : Set(n, [commands[n] EXCEPT !.shell = end])
      BY <2>7 DEF Kill
    <3> QED BY <2>types, <2>7, <3>1, <2>begun, <2>aimed, CommandStep DEF Kill, CommandType, IsRequest
  <2>8. ASSUME NEW n \in Numbers, EndOfShell(n) PROVE AbortInv'
    <3>1. /\ Set(n, [commands[n] EXCEPT !.at = "done", !.reply = ShellReply(commands[n])])
          /\ commands[n].at = "running" /\ commands[n].shell # "on"
          /\ UNCHANGED <<abortBash, held, aimed>>
      BY <2>8 DEF EndOfShell, Running
    <3>2. ShellReply(commands[n]) \in Reply
      BY <2>types, <3>1, ShellReplyType DEF AbortInv
    <3> QED BY <2>types, <3>1, <3>2, <2>begun, <2>aimed, CommandStep DEF CommandType, IsRequest
  <2>9. ASSUME NEW n \in Numbers, EndOfSidecar(n) PROVE AbortInv'
    <3>1. PICK r \in Reply : Set(n, [commands[n] EXCEPT !.at = "done", !.reply = r])
      <4> DEFINE late == commands[n].ctx = "live"
      <4>1. late \in BOOLEAN
        OBVIOUS
      <4> QED BY <2>9, <4>1, BareReplies DEF EndOfSidecar
    <3>2. commands[n].at = "running" /\ UNCHANGED <<abortBash, held, aimed>>
      BY <2>9 DEF EndOfSidecar, Running
    <3> QED BY <2>types, <3>1, <3>2, <2>begun, <2>aimed, CommandStep DEF CommandType, IsRequest
  <2>10. ASSUME NEW n \in Numbers, Release(n) PROVE AbortInv'
    <3>1. /\ commands[n].at = "done" /\ IsRequest(n) /\ abortBash = n
          /\ commands' = [commands EXCEPT ![n] = [commands[n] EXCEPT !.at = "released"]]
          /\ abortBash' = 0 /\ UNCHANGED <<held, aimed>>
      BY <2>10 DEF Release, Set, AbortInv, IsRequest
    <3>2. [commands[n] EXCEPT !.at = "released"] \in CommandType
      BY <2>types DEF CommandType
    <3>3. /\ commands' \in Seq(CommandType) /\ Len(commands') = Len(commands)
          /\ \A m \in Numbers : commands'[m] = IF m = n THEN [commands[n] EXCEPT !.at = "released"]
                                               ELSE commands[m]
      BY <2>types, <3>1, <3>2 DEF Numbers
    <3>4. Numbers' = Numbers
      BY <3>3 DEF Numbers
    <3>5. /\ commands'[n].by = commands[n].by /\ commands'[n].at = "released"
          /\ commands'[n].ctx = commands[n].ctx
      BY <2>types, <3>3 DEF CommandType
    <3> QED BY <2>types, <3>1, <3>3, <3>4, <3>5 DEF AbortInv, CommandsOK, IsRequest
  <2>11. ASSUME NEW n \in Numbers, UnderWay(n) PROVE
           /\ Cancelled(n) \in CommandType /\ Cancelled(n).by = commands[n].by
           /\ Cancelled(n).at = commands[n].at /\ Cancelled(n).shell = commands[n].shell
    BY <2>types DEF Cancelled, CommandType
  <2>12. CASE AbortRun
    <3>1. PICK n \in Numbers : commands[n].by = "loop" /\ UnderWay(n) /\ Set(n, Cancelled(n))
      BY <2>12 DEF AbortRun
    <3> QED BY <2>11, <2>12, <2>begun, <3>1, CommandStep DEF AbortRun, IsRequest, UnderWay
  <2>13. CASE AbortBash
    BY <2>13 DEF AbortBash, AbortInv, CommandsOK, IsRequest, Numbers
  <2>14. CASE CallCancel
    <3>1. held \in Numbers /\ IsRequest(held) /\ held \in aimed
      BY <2>14 DEF CallCancel, AbortInv, CommandsOK
    <3>2. CASE UnderWay(held) /\ Set(held, Cancelled(held))
      <4>1. /\ commands' \in Seq(CommandType) /\ Len(commands') = Len(commands)
            /\ \A m \in Numbers : commands'[m] = IF m = held THEN Cancelled(held) ELSE commands[m]
        BY <2>types, <2>11, <3>1, <3>2 DEF Set, Numbers
      <4>2. Numbers' = Numbers
        BY <4>1 DEF Numbers
      <4>3. \A m \in Numbers : /\ commands'[m].by = commands[m].by
                               /\ commands'[m].at = commands[m].at
                               /\ commands'[m].shell = commands[m].shell
                               /\ m # held => commands'[m].ctx = commands[m].ctx
        BY <2>11, <3>2, <4>1
      <4>4. held' = 0 /\ UNCHANGED <<abortBash, aimed>>
        BY <2>14 DEF CallCancel
      <4> QED BY <3>1, <4>1, <4>2, <4>3, <4>4 DEF AbortInv, CommandsOK, IsRequest
    <3>3. CASE UNCHANGED commands
      BY <2>14, <3>3 DEF CallCancel, AbortInv, CommandsOK, IsRequest, Numbers
    <3> QED BY <2>14, <3>2, <3>3 DEF CallCancel
  <2>15. CASE UNCHANGED vars
    BY <2>15 DEF vars, AbortInv, CommandsOK, IsRequest, Numbers
  <2> QED BY <2>1, <2>2, <2>3, <2>4, <2>5, <2>6, <2>7, <2>8, <2>9, <2>10, <2>12, <2>13, <2>14, <2>15
             DEF Next
<1> QED BY <1>1, <1>2, PTL DEF Spec

(* While a bash request is served its command is the one AbortBash reaches, and an
   abort never cancels a command that was not under way when it came in, although
   the cancel function is called after the lock is given back. *)
THEOREM AbortsMeetTheirCommand == Spec => []AbortMeetsItsCommand
<1>1. AbortInv => AbortMeetsItsCommand
  BY DEF AbortInv, AbortMeetsItsCommand, IsRequest
<1> QED BY <1>1, AbortInvariant, PTL

-----------------------------------------------------------------------------
(* Replies *)

(* A command that has ended never had a shell, and failed; or its reply is made of how
   the shell and the context ended, which stay as they are. *)
Answered(c) ==
  /\ c.at = "starting" => c.shell = "off"
  /\ c.at = "running"  => c.shell # "off"
  /\ c.at \in {"done", "released"} /\ c.in = "shell" =>
       \/ c.shell = "off" /\ c.reply = [NoReply EXCEPT !.error = TRUE]
       \/ c.shell \notin {"off", "on"} /\ c.reply = ShellReply(c)

AllAnswered == \A n \in Numbers : Answered(commands[n])

(* ShellReply tells what the shell and the time limit say, and ExecuteBash hands it on. *)
LEMMA ShellReplyTells ==
  ASSUME NEW c \in CommandType, c.shell \notin {"off", "on"}
  PROVE  LET well == c.shell = "zero" /\ c.ctx # "deadline"
         IN /\ ShellReply(c).error <=> ~well
            /\ Told(ShellReply(c)) = [ok |-> TRUE, code |-> 0] <=> well
<1> DEFINE r == ShellReply(c)
<1>1. /\ c.shell \in {"zero", "one", "killed", "late"} /\ c.ctx \in {"live", "cancelled", "deadline"}
      /\ r.text = TRUE
      /\ r.error <=> (c.shell # "zero" \/ c.ctx = "deadline")
      /\ r.cancelled <=> (c.ctx = "deadline" \/ (c.shell = "late" /\ c.ctx = "cancelled"))
  BY DEF CommandType, ShellReply
<1>2. /\ c.shell = "zero" => r.code = IF c.ctx = "deadline" THEN 124 ELSE 0
      /\ c.shell = "one" => r.code = 1
      /\ c.shell = "killed" => r.code = -1
      /\ c.shell = "late" => r.code = IF c.ctx = "cancelled" THEN 130 ELSE 1
  BY DEF ShellReply
<1> HIDE DEF r
<1>3. Told(r) = [ok |-> TRUE, code |-> 0] <=> r.code = 0 /\ ~r.cancelled /\ ~r.error
  <2>1. Told(r).ok = TRUE
    BY <1>1 DEF Told
  <2>2. Told(r).code = IF r.code # 0 THEN r.code
                       ELSE IF r.cancelled THEN 130 ELSE IF r.error THEN 1 ELSE 0
    BY <1>1 DEF Told
  <2>3. Told(r) = [ok |-> Told(r).ok, code |-> Told(r).code]
    BY DEF Told
  <2>4. Told(r).code = 0 <=> r.code = 0 /\ ~r.cancelled /\ ~r.error
    BY <2>2
  <2> QED BY <2>1, <2>3, <2>4
<1> QED BY <1>1, <1>2, <1>3 DEF r

(* A step of one command keeps AllAnswered when what becomes of it is answered. *)
LEMMA CommandAnswered ==
  ASSUME AbortInv, AllAnswered, NEW n \in Numbers, NEW c, Set(n, c), Answered(c)
  PROVE  AllAnswered'
<1>1. Len(commands') = Len(commands) /\ \A m \in Numbers : commands'[m] = IF m = n THEN c ELSE commands[m]
  BY DEF AbortInv, CommandsOK, Set, Numbers
<1>2. Numbers' = Numbers
  BY <1>1 DEF Numbers
<1> QED BY <1>1, <1>2 DEF AllAnswered

(* What of a command decides whether it is answered. *)
LEMMA SameAnswer ==
  ASSUME NEW c, NEW d, Answered(c), c.shell = d.shell, c.ctx = d.ctx, c.in = d.in, c.reply = d.reply,
         c.at = d.at \/ (c.at = "done" /\ d.at = "released")
  PROVE  Answered(d)
BY DEF Answered, ShellReply

(* Every command that has ended is answered, in every reachable state. *)
LEMMA RepliesInvariant == Spec => []AllAnswered
<1>1. Init => AllAnswered
  BY DEF Init, AllAnswered, Numbers
<1>2. AbortInv /\ AllAnswered /\ [Next]_vars => AllAnswered'
  <2> SUFFICES ASSUME AbortInv, AllAnswered, [Next]_vars PROVE AllAnswered'
    OBVIOUS
  <2>types. \A n \in Numbers : commands[n] \in CommandType /\ Answered(commands[n])
    BY DEF AbortInv, CommandsOK, Numbers, AllAnswered
  <2>1. CASE UNCHANGED commands
    BY <2>1 DEF AllAnswered, Numbers
  <2>2. ASSUME NEW timed, NEW owner, commands' = Append(commands, Command(owner, timed))
        PROVE  AllAnswered'
    <3>1. Answered(Command(owner, timed))
      BY DEF Command, Answered
    <3> HIDE DEF Command
    <3>2. /\ Len(commands') = Len(commands) + 1
          /\ \A m \in 1..(Len(commands) + 1) :
               commands'[m] = IF m <= Len(commands) THEN commands[m] ELSE Command(owner, timed)
      BY <2>2 DEF AbortInv, CommandsOK
    <3> QED BY <2>types, <3>1, <3>2 DEF AllAnswered, Numbers, AbortInv, CommandsOK
  <2>3. CASE ShellStep
    <3>1. PICK n \in Numbers :
            \/ \E b \in BOOLEAN : Running(n) /\ Set(n, [commands[n] EXCEPT !.child = b])
            \/ \E code \in {"zero", "one"} : Running(n) /\ Set(n, [commands[n] EXCEPT !.shell = code])
      BY <2>3, Zenon DEF ShellStep, ShellOn
    <3>2. ASSUME NEW b \in BOOLEAN, Set(n, [commands[n] EXCEPT !.child = b]) PROVE AllAnswered'
      <4>1. Answered([commands[n] EXCEPT !.child = b])
        BY <2>types, SameAnswer DEF CommandType
      <4> QED BY <3>2, <4>1, CommandAnswered
    <3>3. ASSUME Running(n), NEW code \in {"zero", "one"}, Set(n, [commands[n] EXCEPT !.shell = code])
          PROVE  AllAnswered'
      <4>1. Answered([commands[n] EXCEPT !.shell = code])
        BY <2>types, <3>3 DEF CommandType, Answered, Running
      <4> QED BY <3>3, <4>1, CommandAnswered
    <3> QED BY <3>1, <3>2, <3>3
  <2>4. ASSUME NEW n \in Numbers, Kill(n) PROVE AllAnswered'
    <3>1. PICK end \in {"killed", "late"} : Set(n, [commands[n] EXCEPT !.shell = end])
      BY <2>4 DEF Kill
    <3>2. Answered([commands[n] EXCEPT !.shell = end])
      BY <2>types, <2>4 DEF Kill, ShellOn, Running, CommandType, Answered
    <3> QED BY <3>1, <3>2, CommandAnswered
  <2>5. CASE Deadline
    <3>1. PICK n \in Numbers : Running(n) /\ Set(n, [commands[n] EXCEPT !.ctx = "deadline"])
      BY <2>5 DEF Deadline
    <3>2. Answered([commands[n] EXCEPT !.ctx = "deadline"])
      BY <2>types, <3>1 DEF Running, CommandType, Answered
    <3> QED BY <3>1, <3>2, CommandAnswered
  <2>6. ASSUME NEW n \in Numbers, Begin(n) PROVE AllAnswered'
    <3>1. CASE Set(n, [commands[n] EXCEPT !.at = "running", !.shell = "on"])
      <4>1. Answered([commands[n] EXCEPT !.at = "running", !.shell = "on"])
        BY <2>types DEF CommandType, Answered
      <4> QED BY <3>1, <4>1, CommandAnswered
    <3> DEFINE r == [NoReply EXCEPT !.error = TRUE]
    <3>2. CASE Set(n, [commands[n] EXCEPT !.at = "done", !.reply = r])
      <4> HIDE DEF r
      <4>1. /\ [commands[n] EXCEPT !.at = "done", !.reply = r].at = "done"
            /\ [commands[n] EXCEPT !.at = "done", !.reply = r].reply = r
            /\ [commands[n] EXCEPT !.at = "done", !.reply = r].shell = commands[n].shell
        BY <2>types DEF CommandType
      <4>2. commands[n].shell = "off"
        BY <2>types, <2>6 DEF Begin, Answered
      <4>3. Answered([commands[n] EXCEPT !.at = "done", !.reply = r])
        BY <4>1, <4>2 DEF Answered, r
      <4> QED BY <3>2, <4>3, CommandAnswered
    <3> QED BY <2>6, <3>1, <3>2 DEF Begin
  <2>7. ASSUME NEW n \in Numbers, EndOfShell(n) PROVE AllAnswered'
    <3> DEFINE c == commands[n]
               r == ShellReply(c)
               d == [c EXCEPT !.at = "done", !.reply = r]
    <3>1. Set(n, d) /\ c.shell \notin {"off", "on"} /\ c \in CommandType
      BY <2>types, <2>7 DEF EndOfShell, Running, Answered
    <3>2. d.at = "done" /\ d.reply = r /\ d.shell = c.shell /\ d.ctx = c.ctx
      <4> HIDE DEF r
      <4> QED BY <3>1 DEF CommandType
    <3>3. ShellReply(d) = r
      BY <3>2 DEF ShellReply
    <3> HIDE DEF d, r, c
    <3>4. Answered(d)
      BY <3>1, <3>2, <3>3 DEF Answered
    <3> QED BY <3>1, <3>4, CommandAnswered
  <2>8. ASSUME NEW n \in Numbers, EndOfSidecar(n) PROVE AllAnswered'
    <3>1. PICK r : Set(n, [commands[n] EXCEPT !.at = "done", !.reply = r]) /\ commands[n].in = "sidecar"
      BY <2>8 DEF EndOfSidecar
    <3>2. Answered([commands[n] EXCEPT !.at = "done", !.reply = r])
      BY <2>types, <3>1 DEF CommandType, Answered
    <3> QED BY <3>1, <3>2, CommandAnswered
  <2>9. ASSUME NEW n \in Numbers, Release(n) PROVE AllAnswered'
    <3>1. Set(n, [commands[n] EXCEPT !.at = "released"]) /\ commands[n].at = "done"
      BY <2>9 DEF Release
    <3>2. Answered([commands[n] EXCEPT !.at = "released"])
      BY <2>types, <3>1, SameAnswer DEF CommandType
    <3> QED BY <3>1, <3>2, CommandAnswered
  <2>10. ASSUME NEW n \in Numbers, UnderWay(n), Set(n, Cancelled(n)) PROVE AllAnswered'
    <3>1. Answered(Cancelled(n))
      BY <2>types, <2>10 DEF Cancelled, UnderWay, CommandType, Answered
    <3> QED BY <2>10, <3>1, CommandAnswered
  <2>11. CASE CallCancel
    BY <2>1, <2>10, <2>11 DEF CallCancel, AbortInv, CommandsOK
  <2> QED
    BY <2>1, <2>2, <2>3, <2>4, <2>5, <2>6, <2>7, <2>8, <2>9, <2>10, <2>11
    DEF Next, Write, Edit, shellVars, StartForLoop, ExecuteBash, AbortRun, AbortBash, vars
<1> QED BY <1>1, <1>2, AbortInvariant, PTL DEF Spec

(* No command whose shell failed, was killed or ran out of its time is reported as a
   success to the model or to the client of a bash request, and none that did well as a
   failure.  A shell that ended with zero before its command was cancelled did well. *)
THEOREM RepliesAreTrue == Spec => []NoFalseSuccess
<1>1. AbortInv /\ AllAnswered => NoFalseSuccess
  <2> SUFFICES ASSUME AbortInv, AllAnswered, NEW n \in Numbers,
                      ~UnderWay(n), commands[n].in = "shell"
               PROVE  LET c    == commands[n]
                          well == c.shell = "zero" /\ c.ctx # "deadline"
                      IN /\ c.reply.error <=> ~well
                         /\ Told(c.reply) = [ok |-> TRUE, code |-> 0] <=> well
    BY DEF NoFalseSuccess
  <2> DEFINE c == commands[n]
  <2>1. c \in CommandType /\ Answered(c)
    BY DEF AbortInv, CommandsOK, Numbers, AllAnswered
  <2>2. c.at \in {"done", "released"}
    BY <2>1 DEF UnderWay, CommandType
  <2>3. CASE c.shell = "off" /\ c.reply = [NoReply EXCEPT !.error = TRUE]
    BY <2>3 DEF NoReply, Told
  <2>4. CASE c.shell \notin {"off", "on"} /\ c.reply = ShellReply(c)
    BY <2>1, <2>4, ShellReplyTells
  <2> QED BY <2>1, <2>2, <2>3, <2>4 DEF Answered
<1> QED BY <1>1, AbortInvariant, RepliesInvariant, PTL

-----------------------------------------------------------------------------
(* Edits *)

(* Induction over the natural numbers, from their being well-founded. *)
LEMMA SetInduction ==
  ASSUME NEW S, 0 \in S, \A n \in Nat : n \in S => n + 1 \in S
  PROVE  Nat \subseteq S
<1> DEFINE R == {ss \in Nat \X Nat : ss[1] < ss[2]}
           T == Nat \ S
<1>1. IsWellFoundedOn(R, Nat)
  BY NatLessThanWellFounded DEF OpToRel
<1>2. \A x, y \in Nat : x < y => <<x, y>> \in R
  OBVIOUS
<1> HIDE DEF R
<1>3. CASE T # {}
  <2>1. T \subseteq Nat
    OBVIOUS
  <2> HIDE DEF T
  <2>2. PICK x \in T : \A y \in T : ~ (<<y, x>> \in R)
    BY <1>1, <1>3, <2>1, WFMin
  <2> USE DEF T
  <2>3. x # 0 /\ x - 1 \in Nat /\ x - 1 < x
    BY <2>2
  <2>4. x - 1 \in T
    BY <2>2, <2>3
  <2> QED BY <2>2, <2>3, <2>4, <1>2
<1> QED BY <1>3

(* A set of natural numbers that is not empty has a least one. *)
LEMMA LeastOne ==
  ASSUME NEW P \in SUBSET Nat, P # {} PROVE Min(P) \in P /\ \A y \in P : Min(P) <= y
<1> DEFINE S == {n \in Nat : (\E p \in P : p <= n) => \E x \in P : \A y \in P : x <= y}
<1>1. 0 \in S
  OBVIOUS
<1>2. ASSUME NEW n \in Nat, n \in S PROVE n + 1 \in S
  <2> SUFFICES ASSUME NEW p \in P, p <= n + 1 PROVE \E x \in P : \A y \in P : x <= y
    OBVIOUS
  <2>1. CASE \E q \in P : q <= n
    BY <1>2, <2>1
  <2>2. CASE \A q \in P : q > n
    <3>1. \A q \in P : p <= q
      BY <2>2
    <3> QED BY <3>1
  <2>3. (\E q \in P : q <= n) \/ \A q \in P : q > n
    OBVIOUS
  <2> QED BY <2>1, <2>2, <2>3
<1> HIDE DEF S
<1>3. PICK p \in P : p \in S
  BY <1>1, <1>2, SetInduction
<1>4. \E x \in P : \A y \in P : x <= y
  BY <1>3 DEF S
<1> QED BY <1>4 DEF Min

(* strings.Count as a recursion on the places P of a text: the next of them at or behind
   i counts, and it goes on len characters behind it. *)
CountStep(h, P, len, last, i) ==
  IF i > last THEN 0 ELSE IF i \in P THEN 1 + h[i + len] ELSE h[i + 1]

Counts(h, P, len, last, size) ==
  h = [i \in 1..size |-> CountStep(h, P, len, last, i)]

(* There is such a function: it is made from the end of the text. *)
LEMMA CountExists ==
  ASSUME NEW P, NEW len \in Nat \ {0}, NEW last \in Int, NEW size \in Nat \ {0}, last + len <= size
  PROVE  \E h : Counts(h, P, len, last, size)
<1> DEFINE Partly(h, m) == \A i \in 1..size : size - i <= m => h[i] = CountStep(h, P, len, last, i)
           S == {m \in Nat : \E h \in [1..size -> Nat] : Partly(h, m)}
<1>1. 0 \in S
  <2> DEFINE h == [i \in 1..size |-> 0]
  <2>1. Partly(h, 0)
    BY DEF CountStep
  <2>2. h \in [1..size -> Nat]
    OBVIOUS
  <2> QED BY <2>1, <2>2
<1>2. ASSUME NEW m \in Nat, m \in S PROVE m + 1 \in S
  <2>1. PICK h \in [1..size -> Nat] : Partly(h, m)
    BY <1>2
  <2> DEFINE j == size - (m + 1)
             v == CountStep(h, P, len, last, j)
             g == [i \in 1..size |-> IF i = j THEN v ELSE h[i]]
  <2>2. CASE j \notin 1..size
    BY <2>1, <2>2
  <2>3. CASE j \in 1..size
    <3>1. v \in Nat
      BY <2>1, <2>3 DEF CountStep
    <3> HIDE DEF v
    <3>2. g \in [1..size -> Nat] /\ g[j] = v /\ \A i \in 1..size : i # j => g[i] = h[i]
      BY <2>1, <2>3, <3>1
    <3> HIDE DEF g
    <3>3. ASSUME NEW i \in 1..size, size - i <= m + 1 PROVE g[i] = CountStep(g, P, len, last, i)
      <4>1. i >= j /\ CountStep(g, P, len, last, i) = CountStep(h, P, len, last, i)
        BY <3>2, <3>3 DEF CountStep
      <4> QED BY <2>1, <3>2, <3>3, <4>1 DEF v
    <3> QED BY <3>2, <3>3
  <2> QED BY <2>2, <2>3
<1> HIDE DEF S
<1>3. size \in S
  BY <1>1, <1>2, SetInduction
<1>4. PICK h \in [1..size -> Nat] : Partly(h, size)
  BY <1>3 DEF S
<1> QED BY <1>4 DEF Counts

(* What it counts behind i: nothing when no place is there, and one when all that are
   there overlap. *)
LEMMA CountTells ==
  ASSUME NEW len \in Nat \ {0}, NEW last \in Int, NEW size \in Nat \ {0}, last + len <= size,
         NEW P \in SUBSET (1..last), NEW h, Counts(h, P, len, last, size)
  PROVE  h[1] \in Nat /\ (h[1] = 1 <=> P # {} /\ \A i, j \in P : i < j => j < i + len)
<1> DEFINE None(i) == \A p \in P : p < i
           One(i)  == /\ \E p \in P : p >= i
                      /\ \A p, q \in P : i <= p /\ p < q => q < p + len
           OK(i)   == h[i] \in Nat /\ (h[i] = 0 <=> None(i)) /\ (h[i] = 1 <=> One(i))
           S == {m \in Nat : \A i \in 1..size : size - i <= m => OK(i)}
<1>1. \A i \in 1..size : h[i] = CountStep(h, P, len, last, i)
  BY DEF Counts
<1>2. ASSUME NEW i \in 1..size, i > last PROVE OK(i)
  BY <1>1, <1>2 DEF CountStep
<1>3. ASSUME NEW i \in 1..size, i <= last, \A j \in 1..size : j > i => OK(j) PROVE OK(i)
  <2>1. i + len \in 1..size /\ i + 1 \in 1..size
    BY <1>3
  <2>2. OK(i + len) /\ OK(i + 1)
    BY <1>3, <2>1
  <2>3. CASE i \in P
    <3>1. h[i] = 1 + h[i + len]
      BY <1>1, <1>3, <2>3 DEF CountStep
    <3>2. None(i + len) <=> One(i)
      BY <2>3
    <3> QED BY <2>2, <2>3, <3>1, <3>2
  <2>4. CASE i \notin P
    <3>1. h[i] = h[i + 1]
      BY <1>1, <1>3, <2>4 DEF CountStep
    <3>2. \A p \in P : p >= i <=> p >= i + 1
      BY <2>4
    <3>3. None(i + 1) <=> None(i)
      BY <3>2
    <3>4. One(i + 1) <=> One(i)
      BY <3>2
    <3> QED BY <2>2, <3>1, <3>3, <3>4
  <2> QED BY <2>3, <2>4
<1>4. 0 \in S
  <2>1. ASSUME NEW i \in 1..size, size - i <= 0 PROVE OK(i)
    <3>1. i > last
      BY <2>1
    <3> QED BY <1>2, <3>1
  <2> QED BY <2>1
<1>5. ASSUME NEW m \in Nat, m \in S PROVE m + 1 \in S
  <2>1. ASSUME NEW i \in 1..size, size - i <= m + 1 PROVE OK(i)
    <3>1. \A j \in 1..size : j > i => OK(j)
      BY <1>5, <2>1
    <3> QED BY <1>2, <1>3, <3>1
  <2> QED BY <2>1
<1> HIDE DEF OK, S
<1>6. size \in S /\ 1 \in 1..size
  BY <1>4, <1>5, SetInduction
<1>7. OK(1)
  BY <1>6 DEF S
<1>8. One(1) <=> P # {} /\ \A i, j \in P : i < j => j < i + len
  <2>1. \A p \in P : p \in Int /\ p >= 1
    OBVIOUS
  <2> QED BY <2>1
<1> QED BY <1>7, <1>8 DEF OK

Chars == Letters \cup {"nl"}

(* What Count says of a text: nothing if the old text is nowhere, one if it is at one
   place, or at places that overlap. *)
LEMMA CountIsMeant ==
  ASSUME NEW text \in Seq(Chars), NEW old \in Seq(Chars), old # <<>>
  PROVE  Count(old, text) = 1 <=>
           /\ Places(old, text) # {}
           /\ \A i, j \in Places(old, text) : i < j => j < i + Len(old)
<1> DEFINE P    == Places(old, text)
           len  == Len(old)
           last == Len(text) - Len(old) + 1
           size == Len(text) + Len(old) + 1
<1>1. /\ len \in Nat \ {0} /\ last \in Int /\ size \in Nat \ {0} /\ last + len <= size
      /\ P \in SUBSET (1..last) /\ \A i \in 1..last : i \in P <=> Occurs(old, text, i)
  BY DEF Places
<1> DEFINE F(h) == [i \in 1..size |-> IF i > last THEN 0
                                      ELSE IF Occurs(old, text, i) THEN 1 + h[i + len] ELSE h[i + 1]]
           h0   == CHOOSE h : h = F(h)
<1>2. Count(old, text) = h0[1]
  BY DEF Count
<1> HIDE DEF P, len, last, size
<1>3. \A h : Counts(h, P, len, last, size) <=> h = F(h)
  <2>1. \A h : \A i \in 1..size :
          CountStep(h, P, len, last, i) = IF i > last THEN 0
                                          ELSE IF Occurs(old, text, i) THEN 1 + h[i + len] ELSE h[i + 1]
    BY <1>1 DEF CountStep
  <2>2. \A h : F(h) = [i \in 1..size |-> CountStep(h, P, len, last, i)]
    BY <2>1
  <2> HIDE DEF F
  <2> QED BY <2>2 DEF Counts
<1> HIDE DEF F
<1>4. h0 = F(h0)
  <2>1. \E h : h = F(h)
    BY <1>1, <1>3, CountExists
  <2> QED BY <2>1
<1>5. Counts(h0, P, len, last, size)
  BY <1>3, <1>4
<1> HIDE DEF h0
<1>6. h0[1] = 1 <=> P # {} /\ \A i, j \in P : i < j => j < i + len
  BY <1>1, <1>5, CountTells
<1> QED BY <1>2, <1>6 DEF P, len

(* The parts of a text are texts, and so is what edit makes of one at a place of it. *)
LEMMA PartOfText ==
  ASSUME NEW text \in Seq(Chars), NEW m \in Nat \ {0}, NEW n \in Nat, n <= Len(text)
  PROVE  SubSeq(text, m, n) \in Seq(Chars)
OBVIOUS

LEMMA EditedIsText ==
  ASSUME NEW text \in Seq(Chars), NEW old \in Seq(Chars), NEW new \in Seq(Chars), old # <<>>,
         Places(old, text) # {}
  PROVE  Edited(old, new, text) \in Seq(Chars)
<1> DEFINE i == Min(Places(old, text))
<1>1. Places(old, text) \in SUBSET Nat
  BY DEF Places
<1>2. i \in 1..(Len(text) - Len(old) + 1) /\ Len(old) \in Nat
  <2>1. i \in Places(old, text)
    BY <1>1, LeastOne
  <2> HIDE DEF i
  <2> QED BY <2>1 DEF Places
<1>3. Edited(old, new, text) =
        SubSeq(text, 1, i - 1) \o new \o SubSeq(text, i + Len(old), Len(text))
  BY DEF Edited
<1> HIDE DEF i
<1>4. SubSeq(text, 1, i - 1) \in Seq(Chars) /\ SubSeq(text, i + Len(old), Len(text)) \in Seq(Chars)
  <2>1. i - 1 \in Nat /\ i - 1 <= Len(text) /\ i + Len(old) \in Nat \ {0} /\ Len(text) \in Nat
    BY <1>2
  <2> QED BY <2>1, PartOfText
<1> QED BY <1>3, <1>4

LEMMA TextsAreTexts == \A n \in Nat : Texts(n) \subseteq Seq(Chars)
BY DEF Texts, Chars

(* Every file holds a text. *)
FilesHoldTexts == \A f \in DOMAIN dir : dir[f] \in Seq(Chars)

(* Whatever a write leaves of a text. *)
LEMMA StoredIsText ==
  ASSUME FilesHoldTexts, NEW f, NEW text \in Seq(Chars), Stored(f, text)
  PROVE  FilesHoldTexts'
<1>1. PICK n \in 0..Len(text) :
        dir' = [g \in DOMAIN dir \cup {f} |-> IF g = f THEN SubSeq(text, 1, n) ELSE dir[g]]
  BY DEF Stored
<1>2. SubSeq(text, 1, n) \in Seq(Chars)
  BY PartOfText
<1> QED BY <1>1, <1>2 DEF FilesHoldTexts

LEMMA TextsInvariant == Spec => []FilesHoldTexts
<1>0. MaxText \in Nat /\ 1 \in Nat /\ 2 \in Nat
  BY ToolsConstants
<1>1. Init => FilesHoldTexts
  <2> SUFFICES ASSUME dir \in Dirs PROVE FilesHoldTexts
    BY DEF Init
  <2>1. PICK F \in SUBSET Files : dir \in [F -> Texts(MaxText)]
    BY DEF Dirs
  <2> QED BY <1>0, <2>1, TextsAreTexts DEF FilesHoldTexts
<1>2. FilesHoldTexts /\ [Next]_vars => FilesHoldTexts'
  <2> SUFFICES ASSUME FilesHoldTexts, [Next]_vars PROVE FilesHoldTexts'
    OBVIOUS
  <2>1. CASE Write
    <3>1. PICK f \in Files, text \in Texts(MaxText) : Stored(f, text)
      BY <2>1 DEF Write
    <3> QED BY <1>0, <3>1, TextsAreTexts, StoredIsText
  <2>2. CASE Edit
    <3>1. PICK f \in DOMAIN dir, old \in Texts(2) \ {<<>>}, new \in Texts(1) :
            Editable(old, new, dir[f]) /\ Stored(f, Edited(old, new, dir[f]))
      BY <2>2 DEF Edit
    <3>2. dir[f] \in Seq(Chars) /\ old \in Seq(Chars) /\ new \in Seq(Chars) /\ old # <<>>
      BY <1>0, <3>1, TextsAreTexts DEF FilesHoldTexts
    <3>3. Count(old, dir[f]) = 1
      BY <3>1 DEF Editable
    <3>4. Places(old, dir[f]) # {}
      BY <3>2, <3>3, CountIsMeant
    <3>5. Edited(old, new, dir[f]) \in Seq(Chars)
      BY <3>2, <3>4, EditedIsText
    <3> QED BY <3>1, <3>5, StoredIsText
  <2>3. CASE UNCHANGED dir
    BY <2>3 DEF FilesHoldTexts
  <2> QED
    BY <2>1, <2>2, <2>3
    DEF Next, StartForLoop, ExecuteBash, ShellStep, Deadline, Begin, Kill, EndOfShell, EndOfSidecar,
        Release, AbortRun, AbortBash, CallCancel, vars
<1> QED BY <1>1, <1>2, PTL DEF Spec

(* edit takes an old text for unique exactly when it is at one place of the file, or at
   places that overlap, for any files and letters. *)
THEOREM EditsAreUnique == Spec => []UniqueUpToOverlap
<1>1. FilesHoldTexts => UniqueUpToOverlap
  <2> SUFFICES ASSUME FilesHoldTexts, NEW f \in DOMAIN dir, NEW old \in Texts(2) \ {<<>>}
               PROVE  Editable(old, <<>>, dir[f]) <=>
                        /\ Places(old, dir[f]) # {}
                        /\ \A i, j \in Places(old, dir[f]) : i < j => j < i + Len(old)
    BY DEF UniqueUpToOverlap
  <2>1. dir[f] \in Seq(Chars) /\ old \in Seq(Chars) /\ old # <<>>
    BY TextsAreTexts DEF FilesHoldTexts
  <2>2. Editable(old, <<>>, dir[f]) <=> Count(old, dir[f]) = 1
    BY <2>1 DEF Editable
  <2> QED BY <2>1, <2>2, CountIsMeant
<1> QED BY <1>1, TextsInvariant, PTL
-----------------------------------------------------------------------------
(* Pages of read *)

(* A recursion over 0..n: it begins with b, and step makes its values one by one. *)
Iterates(g, n, b, step) == g[0] = b /\ \A i \in 1..n : g[i] = step[<<i, g[i - 1]>>]

LEMMA IterationExists ==
  ASSUME NEW n \in Nat, NEW V, NEW b \in V, NEW step \in [(1..n) \X V -> V]
  PROVE  \E g \in [0..n -> V] : Iterates(g, n, b, step)
<1> DEFINE S == {m \in Nat : m <= n => \E g \in [0..m -> V] : Iterates(g, m, b, step)}
<1>1. 0 \in S
  <2> DEFINE g == [i \in 0..0 |-> b]
  <2>1. g \in [0..0 -> V] /\ g[0] = b
    OBVIOUS
  <2> HIDE DEF g
  <2>2. Iterates(g, 0, b, step)
    BY <2>1 DEF Iterates
  <2> QED BY <2>1, <2>2
<1>2. ASSUME NEW m \in Nat, m \in S PROVE m + 1 \in S
  <2> SUFFICES ASSUME m + 1 <= n PROVE \E h \in [0..(m + 1) -> V] : Iterates(h, m + 1, b, step)
    OBVIOUS
  <2>1. PICK g \in [0..m -> V] : Iterates(g, m, b, step)
    BY <1>2
  <2> DEFINE last == step[<<m + 1, g[m]>>]
             h    == [i \in 0..(m + 1) |-> IF i = m + 1 THEN last ELSE g[i]]
  <2>2. last \in V
    <3>1. m + 1 \in 1..n /\ g[m] \in V
      BY <2>1
    <3> QED BY <3>1
  <2>3. h \in [0..(m + 1) -> V]
    BY <2>2
  <2>4. h[m + 1] = last /\ \A i \in 0..m : h[i] = g[i]
    OBVIOUS
  <2> HIDE DEF h
  <2>5. h[0] = b
    BY <2>1, <2>4 DEF Iterates
  <2>6. ASSUME NEW i \in 1..(m + 1) PROVE h[i] = step[<<i, h[i - 1]>>]
    <3>1. CASE i = m + 1
      BY <2>4, <3>1
    <3>2. CASE i \in 1..m
      BY <2>1, <2>4, <3>2 DEF Iterates
    <3> QED BY <3>1, <3>2
  <2> QED BY <2>3, <2>5, <2>6 DEF Iterates
<1> HIDE DEF S
<1>3. n \in S
  BY <1>1, <1>2, SetInduction
<1> QED BY <1>3 DEF S

LineStep(ls, c) == IF c = "nl" THEN Append(ls, <<>>) ELSE [ls EXCEPT ![Len(ls)] = Append(@, c)]

(* A text has one line at least. *)
Lined == {ls \in Seq(Seq(Chars)) : Len(ls) > 0}

LEMMA LineStepType == ASSUME NEW ls \in Lined, NEW c \in Chars PROVE LineStep(ls, c) \in Lined
<1>1. CASE c = "nl"
  BY <1>1 DEF LineStep, Lined
<1>2. CASE c # "nl"
  <2> DEFINE n == Len(ls)
             l == Append(ls[n], c)
             k == [ls EXCEPT ![n] = l]
  <2>1. n \in Nat /\ n > 0 /\ ls \in [1..n -> Seq(Chars)]
    BY DEF Lined
  <2> HIDE DEF n
  <2>2. l \in Seq(Chars)
    BY <2>1
  <2> HIDE DEF l
  <2>3. k \in [1..n -> Seq(Chars)]
    BY <2>1, <2>2
  <2>4. k \in Seq(Seq(Chars)) /\ Len(k) = n
    BY <2>1, <2>3
  <2>5. LineStep(ls, c) = k
    BY <1>2 DEF LineStep, n, l
  <2> HIDE DEF k
  <2> QED BY <2>1, <2>4, <2>5 DEF Lined
<1> QED BY <1>1, <1>2

LEMMA LinesAreLines == ASSUME NEW text \in Seq(Chars) PROVE Lines(text) \in Lined
<1> DEFINE n == Len(text)
           F(g) == [i \in 0..n |-> IF i = 0 THEN << <<>> >>
                                   ELSE IF text[i] = "nl" THEN Append(g[i - 1], <<>>)
                                   ELSE [g[i - 1] EXCEPT ![Len(g[i - 1])] = Append(@, text[i])]]
           made == CHOOSE g : g = F(g)
           step == [x \in (1..n) \X Lined |-> LineStep(x[2], text[x[1]])]
<1>1. Lines(text) = made[n]
  BY DEF Lines
<1>2. n \in Nat /\ \A i \in 1..n : text[i] \in Chars
  OBVIOUS
<1>3. << <<>> >> \in Lined
  BY DEF Lined
<1>4. step \in [(1..n) \X Lined -> Lined]
  <2>1. ASSUME NEW x \in (1..n) \X Lined PROVE LineStep(x[2], text[x[1]]) \in Lined
    <3>1. x[2] \in Lined /\ text[x[1]] \in Chars
      BY <1>2
    <3> QED BY <3>1, LineStepType
  <2> QED BY <2>1
<1>5. \A i \in 1..n, ls \in Lined : step[<<i, ls>>] = LineStep(ls, text[i])
  BY <1>2
<1>6. \A g : F(g) = [i \in 0..n |-> IF i = 0 THEN << <<>> >> ELSE LineStep(g[i - 1], text[i])]
  BY DEF LineStep
<1> HIDE DEF step, n
<1>7. PICK g \in [0..n -> Lined] : Iterates(g, n, << <<>> >>, step)
  BY <1>2, <1>3, <1>4, IterationExists
<1>8. g = F(g)
  <2> HIDE DEF F
  <2>1. g[0] = << <<>> >>
    BY <1>7 DEF Iterates
  <2>2. ASSUME NEW i \in 1..n PROVE g[i] = LineStep(g[i - 1], text[i])
    <3>1. g[i] = step[<<i, g[i - 1]>>]
      BY <1>7 DEF Iterates
    <3>2. g[i - 1] \in Lined
      BY <1>2
    <3> QED BY <3>1, <3>2, <1>5
  <2>3. \A i \in 0..n : g[i] = IF i = 0 THEN << <<>> >> ELSE LineStep(g[i - 1], text[i])
    <3>1. \A i \in 0..n : i = 0 \/ i \in 1..n
      BY <1>2
    <3>2. ASSUME NEW i \in 1..n PROVE g[i] = LineStep(g[i - 1], text[i]) /\ i # 0
      BY <1>2, <2>2
    <3> HIDE DEF LineStep
    <3> QED BY <2>1, <3>1, <3>2
  <2> QED BY <2>3, <1>6
<1> HIDE DEF F
<1>9. made = F(made)
  <2>1. \E h : h = F(h)
    BY <1>8
  <2> QED BY <2>1
<1> HIDE DEF made
<1>10. /\ made[0] = << <<>> >>
       /\ \A i \in 1..n : made[i] = LineStep(made[i - 1], text[i])
  BY <1>2, <1>6, <1>9
<1> DEFINE S == {i \in Nat : i <= n => made[i] \in Lined}
<1>11. 0 \in S
  BY <1>3, <1>10
<1>12. ASSUME NEW i \in Nat, i \in S PROVE i + 1 \in S
  <2> SUFFICES ASSUME i + 1 <= n PROVE made[i + 1] \in Lined
    OBVIOUS
  <2>1. made[i] \in Lined /\ text[i + 1] \in Chars
    BY <1>2, <1>12
  <2>2. made[i + 1] = LineStep(made[i], text[i + 1])
    BY <1>2, <1>10
  <2> QED BY <2>1, <2>2, LineStepType
<1> HIDE DEF S
<1>13. n \in S
  BY <1>2, <1>11, <1>12, SetInduction
<1> QED BY <1>1, <1>13, <1>2 DEF S

(* A sequence of two parts. *)
LEMMA Joined ==
  ASSUME NEW V, NEW p \in Seq(V), NEW q \in Seq(V), NEW r \in Seq(V), Len(r) = Len(p) + Len(q),
         \A i \in 1..Len(p) : r[i] = p[i], \A i \in 1..Len(q) : r[Len(p) + i] = q[i]
  PROVE  p \o q = r
<1> DEFINE t == p \o q
           m == Len(p)
           k == Len(q)
<1>1. m \in Nat /\ k \in Nat /\ Len(r) = m + k
  OBVIOUS
<1>2. t \in Seq(V) /\ Len(t) = m + k
  OBVIOUS
<1>3. ASSUME NEW i \in 1..m PROVE t[i] = r[i]
  OBVIOUS
<1>4. ASSUME NEW i \in 1..(m + k), i > m PROVE t[i] = r[i]
  <2> DEFINE j == i - m
  <2>1. j \in 1..k /\ i = m + j
    BY <1>1, <1>4
  <2>2. t[i] = q[j]
    BY <1>4
  <2>3. r[m + j] = q[j]
    BY <2>1
  <2> QED BY <2>1, <2>2, <2>3
<1> HIDE DEF t, m, k
<1>5. \A i \in 1..Len(r) : t[i] = r[i]
  <2>1. ASSUME NEW i \in 1..(m + k) PROVE t[i] = r[i]
    <3>1. CASE i \in 1..m
      BY <1>3, <3>1
    <3>2. CASE i > m
      BY <1>4, <3>2
    <3> QED BY <1>1, <3>1, <3>2
  <2> QED BY <1>1, <2>1
<1>6. t = r
  <2>1. Len(t) = Len(r)
    BY <1>1, <1>2
  <2> QED BY <1>2, <1>5, <2>1, SeqEqual
<1> QED BY <1>6 DEF t

LEMMA PartsJoin ==
  ASSUME NEW V, NEW s \in Seq(V), NEW a \in 1..Len(s), NEW e \in a..Len(s)
  PROVE  SubSeq(s, a, e) \o SubSeq(s, e + 1, Len(s)) = SubSeq(s, a, Len(s))
<1> DEFINE n == Len(s)
           p == SubSeq(s, a, e)
           q == SubSeq(s, e + 1, n)
           r == SubSeq(s, a, n)
<1>1. n \in Nat /\ a \in 1..n /\ e \in a..n
  OBVIOUS
<1>2. p \in Seq(V) /\ Len(p) = e - a + 1 /\ \A i \in 1..Len(p) : p[i] = s[a + i - 1]
  OBVIOUS
<1>3. q \in Seq(V) /\ Len(q) = n - e /\ \A i \in 1..Len(q) : q[i] = s[e + i]
  BY <1>1
<1>4. r \in Seq(V) /\ Len(r) = n - a + 1 /\ \A i \in 1..Len(r) : r[i] = s[a + i - 1]
  BY <1>1
<1> HIDE DEF n, p, q, r
<1>5. Len(r) = Len(p) + Len(q)
  BY <1>1, <1>2, <1>3, <1>4
<1>6. \A i \in 1..Len(p) : r[i] = p[i]
  BY <1>1, <1>2, <1>4
<1>7. ASSUME NEW i \in 1..Len(q) PROVE r[Len(p) + i] = q[i]
  <2>1. Len(p) + i \in 1..Len(r) /\ a + (Len(p) + i) - 1 = e + i
    BY <1>1, <1>2, <1>3, <1>4
  <2> QED BY <1>3, <1>4, <2>1
<1>8. p \o q = r
  BY <1>2, <1>3, <1>4, <1>5, <1>6, <1>7, Joined
<1> QED BY <1>8 DEF p, q, r, n

(* Reading goes on behind what it has shown. *)
Forward(e, n) == e \in [1..n -> 1..n] /\ \A o \in 1..n : o <= e[o]

(* Reading on at o: the part up to e[o], and what reading on behind it gives. *)
ReadStep(all, e, h, o) ==
  SubSeq(all, o, e[o]) \o (IF e[o] < Len(all) THEN h[e[o] + 1] ELSE <<>>)

ReadsOn(all, e, n, h) == h = [o \in 1..n |-> ReadStep(all, e, h, o)]

LEMMA ReadStepCovers ==
  ASSUME NEW V, NEW all \in Seq(V), NEW n, n = Len(all), NEW e \in [1..n -> 1..n], NEW o \in 1..n, o <= e[o],
         NEW h, e[o] < n => h[e[o] + 1] = SubSeq(all, e[o] + 1, n)
  PROVE  ReadStep(all, e, h, o) = SubSeq(all, o, n)
<1>1. n \in Nat /\ e[o] \in o..n
  OBVIOUS
<1>2. CASE e[o] < n
  BY <1>1, <1>2, PartsJoin DEF ReadStep
<1>3. CASE e[o] = n
  <2>1. SubSeq(all, o, n) \in Seq(V)
    BY <1>1
  <2>2. SubSeq(all, o, n) \o <<>> = SubSeq(all, o, n)
    BY <2>1
  <2>3. ~ (e[o] < Len(all))
    BY <1>3
  <2> QED BY <1>3, <2>2, <2>3 DEF ReadStep
<1> QED BY <1>1, <1>2, <1>3

LEMMA ReadingCovers ==
  ASSUME NEW V, NEW all \in Seq(V), NEW n, n = Len(all), n > 0, NEW e, Forward(e, n)
  PROVE  /\ \E h : ReadsOn(all, e, n, h)
         /\ \A h : ReadsOn(all, e, n, h) => h[1] = all
<1>0. n \in Nat \ {0} /\ e \in [1..n -> 1..n] /\ \A o \in 1..n : o <= e[o]
  BY DEF Forward
<1>1. \E h : ReadsOn(all, e, n, h)
  <2> DEFINE g == [o \in 1..n |-> SubSeq(all, o, n)]
  <2>1. ASSUME NEW o \in 1..n PROVE ReadStep(all, e, g, o) = SubSeq(all, o, n)
    <3>1. o <= e[o] /\ e[o] \in 1..n
      BY <1>0
    <3> DEFINE x == e[o] + 1
    <3>2. e[o] < n => x \in 1..n
      BY <1>0, <3>1
    <3> HIDE DEF x
    <3>3. e[o] < n => g[x] = SubSeq(all, x, n)
      BY <3>2
    <3> HIDE DEF g
    <3> QED BY <1>0, <3>1, <3>3, ReadStepCovers DEF x
  <2>2. g = [o \in 1..n |-> ReadStep(all, e, g, o)]
    BY <2>1
  <2> HIDE DEF g
  <2> QED BY <2>2 DEF ReadsOn
<1>2. ASSUME NEW h, ReadsOn(all, e, n, h) PROVE h[1] = all
  <2>1. \A o \in 1..n : h[o] = ReadStep(all, e, h, o)
    BY <1>2 DEF ReadsOn
  <2> DEFINE S == {m \in Nat : \A o \in 1..n : n - o <= m => h[o] = SubSeq(all, o, n)}
             Read(o) == h[o] = SubSeq(all, o, n)
  <2>2. ASSUME NEW o \in 1..n, \A i \in 1..n : i > o => Read(i) PROVE Read(o)
    <3>1. o <= e[o] /\ e[o] \in 1..n
      BY <1>0
    <3>2. e[o] < n => e[o] + 1 \in 1..n /\ e[o] + 1 > o
      BY <1>0, <3>1
    <3>3. e[o] < n => h[e[o] + 1] = SubSeq(all, e[o] + 1, n)
      BY <2>2, <3>2
    <3>4. ReadStep(all, e, h, o) = SubSeq(all, o, n)
      BY <1>0, <3>1, <3>3, ReadStepCovers
    <3> QED BY <2>1, <3>4
  <2> HIDE DEF Read
  <2>3. S = {m \in Nat : \A o \in 1..n : n - o <= m => Read(o)}
    BY DEF Read
  <2> HIDE DEF S
  <2>4. 0 \in S
    <3>1. \A o \in 1..n : n - o <= 0 => \A i \in 1..n : ~ (i > o)
      BY <1>0
    <3> QED BY <1>0, <2>2, <2>3, <3>1
  <2>5. ASSUME NEW m \in Nat, m \in S PROVE m + 1 \in S
    <3>1. ASSUME NEW o \in 1..n, n - o <= m + 1 PROVE Read(o)
      <4>1. \A i \in 1..n : i > o => n - i <= m
        BY <1>0, <3>1
      <4>2. \A i \in 1..n : i > o => Read(i)
        BY <2>3, <2>5, <4>1
      <4> QED BY <2>2, <4>2
    <3> QED BY <2>3, <3>1
  <2>6. n \in S
    BY <1>0, <2>4, <2>5, SetInduction
  <2>7. Read(1)
    BY <1>0, <2>3, <2>6
  <2>8. SubSeq(all, 1, n) = all
    OBVIOUS
  <2> QED BY <2>7, <2>8 DEF Read
<1> QED BY <1>1, <1>2

(* What read shows from a line on, and where it says that reading goes on. *)
LEMMA PageTells ==
  ASSUME NEW text \in Seq(Chars), NEW ls, ls = Lines(text), NEW o \in 1..Len(ls), NEW limit \in Int
  PROVE  \E e \in o..Len(ls) :
           Page(text, o, limit) = [lines |-> SubSeq(ls, o, e), next |-> IF e < Len(ls) THEN e + 1 ELSE 0]
<1> DEFINE n == Len(ls)
           k == Clamp(limit, 1, MaxPage)
           e == Least(o - 1 + k, n)
<1>1. n \in Nat /\ o \in 1..n
  BY LinesAreLines DEF Lined
<1>2. k \in Nat \ {0}
  BY ToolsConstants DEF Clamp
<1>3. Clamp(o, 1, o + 1) - 1 = o - 1 /\ o - 1 < n
  BY <1>1 DEF Clamp
<1> HIDE DEF k
<1>4. e \in o..n
  BY <1>1, <1>2 DEF Least
<1>5. Page(text, o, limit) =
        IF o - 1 >= n THEN Refused
        ELSE [lines |-> SubSeq(ls, (o - 1) + 1, e), next |-> IF e < n THEN e + 1 ELSE 0]
  BY <1>3 DEF Page, k
<1>6. (o - 1) + 1 = o /\ ~ (o - 1 >= n)
  BY <1>1, <1>3
<1> HIDE DEF e, n
<1>7. Page(text, o, limit) = [lines |-> SubSeq(ls, o, e), next |-> IF e < n THEN e + 1 ELSE 0]
  BY <1>5, <1>6
<1> QED BY <1>4, <1>7 DEF n

LEMMA PagesCoverText ==
  ASSUME NEW text \in Seq(Chars), NEW limit \in Int
  PROVE  LET all == Lines(text)
             readOn[offset \in 1..Len(all)] ==
               LET page == Page(text, offset, limit)
               IN page.lines \o (IF page.next \in DOMAIN all THEN readOn[page.next] ELSE <<>>)
         IN readOn[1] = all
<1> DEFINE all == Lines(text)
           n   == Len(all)
           G(h) == [o \in 1..n |-> Page(text, o, limit).lines \o
                      (IF Page(text, o, limit).next \in DOMAIN all THEN h[Page(text, o, limit).next] ELSE <<>>)]
           r == CHOOSE h : h = G(h)
<1>1. all \in Seq(Seq(Chars)) /\ n \in Nat \ {0} /\ DOMAIN all = 1..n
  BY LinesAreLines DEF Lined
<1> DEFINE e == [o \in 1..n |-> CHOOSE x \in o..n :
                   Page(text, o, limit) = [lines |-> SubSeq(all, o, x), next |-> IF x < n THEN x + 1 ELSE 0]]
<1>2. ASSUME NEW o \in 1..n
      PROVE  /\ e[o] \in o..n
             /\ Page(text, o, limit) =
                  [lines |-> SubSeq(all, o, e[o]), next |-> IF e[o] < n THEN e[o] + 1 ELSE 0]
  <2>1. \E x \in o..n :
           Page(text, o, limit) = [lines |-> SubSeq(all, o, x), next |-> IF x < n THEN x + 1 ELSE 0]
    BY PageTells
  <2> HIDE DEF all, n
  <2> QED BY <2>1
<1> HIDE DEF e
<1>3. Forward(e, n)
  <2>1. e = [o \in 1..n |-> e[o]]
    BY DEF e
  <2>2. \A o \in 1..n : e[o] \in 1..n /\ o <= e[o]
    BY <1>1, <1>2
  <2> HIDE DEF n, all
  <2> QED BY <2>1, <2>2 DEF Forward
<1>4. \A h : G(h) = [o \in 1..n |-> ReadStep(all, e, h, o)]
  <2>1. ASSUME NEW h, NEW o \in 1..n
        PROVE  Page(text, o, limit).lines \o
                 (IF Page(text, o, limit).next \in DOMAIN all THEN h[Page(text, o, limit).next] ELSE <<>>)
               = ReadStep(all, e, h, o)
    <3> DEFINE p == Page(text, o, limit)
    <3>1. p.lines = SubSeq(all, o, e[o]) /\ p.next = IF e[o] < n THEN e[o] + 1 ELSE 0
      BY <1>2
    <3>2. e[o] \in 1..n
      BY <1>3 DEF Forward
    <3> HIDE DEF p
    <3>3. p.next \in DOMAIN all <=> e[o] < n
      <4> HIDE DEF all, n
      <4> QED BY <1>1, <3>1, <3>2
    <3>4. e[o] < n => p.next = e[o] + 1
      BY <3>1
    <3> USE DEF p
    <3> HIDE DEF all
    <3> QED BY <3>1, <3>3, <3>4 DEF ReadStep
  <2> HIDE DEF all, n
  <2> QED BY <2>1
<1>8. n = Len(all) /\ n > 0
  BY <1>1
<1> HIDE DEF all, n, G
<1>5. \E h : h = G(h)
  <2>1. \E h : ReadsOn(all, e, n, h)
    BY <1>1, <1>3, <1>8, ReadingCovers
  <2> QED BY <2>1, <1>4 DEF ReadsOn
<1>6. r = G(r)
  BY <1>5
<1> HIDE DEF r
<1>7. r[1] = all
  <2>1. ReadsOn(all, e, n, r)
    BY <1>4, <1>6 DEF ReadsOn
  <2>2. \A h : ReadsOn(all, e, n, h) => h[1] = all
    BY <1>1, <1>3, <1>8, ReadingCovers
  <2> QED BY <2>1, <2>2
<1> QED BY <1>7 DEF r, G, all, n

LEMMA PagesCoverFiles == FilesHoldTexts => PagesCover
<1> SUFFICES ASSUME FilesHoldTexts, NEW f \in DOMAIN dir, NEW limit \in -1..(MaxPage + 1)
             PROVE  LET all == Lines(dir[f])
                        readOn[offset \in 1..Len(all)] ==
                          LET page == Page(dir[f], offset, limit)
                          IN page.lines \o (IF page.next \in DOMAIN all THEN readOn[page.next] ELSE <<>>)
                    IN readOn[1] = all
  BY DEF PagesCover
<1>1. dir[f] \in Seq(Chars) /\ limit \in Int
  BY ToolsConstants DEF FilesHoldTexts
<1> QED BY <1>1, PagesCoverText

-----------------------------------------------------------------------------
(* Matches of grep *)

(* A set of numbers, from the least on. *)
Ascends(s, S, n) == s \in [1..n -> S] /\ \A i, j \in 1..n : i < j => s[i] < s[j]

LEMMA AscendingExists ==
  \A n \in Nat : \A S \in SUBSET Nat : IsFiniteSet(S) /\ Cardinality(S) = n => \E s : Ascends(s, S, n)
<1> DEFINE Sorted(n) == \A S \in SUBSET Nat : IsFiniteSet(S) /\ Cardinality(S) = n => \E s : Ascends(s, S, n)
           T == {n \in Nat : Sorted(n)}
<1>1. Sorted(0)
  <2> SUFFICES ASSUME NEW S \in SUBSET Nat PROVE \E s : Ascends(s, S, 0)
    OBVIOUS
  <2> DEFINE s == [i \in 1..0 |-> 0]
  <2>1. Ascends(s, S, 0)
    BY DEF Ascends
  <2> QED BY <2>1
<1>2. ASSUME NEW n \in Nat, Sorted(n) PROVE Sorted(n + 1)
  <2> SUFFICES ASSUME NEW S \in SUBSET Nat, IsFiniteSet(S), Cardinality(S) = n + 1
               PROVE  \E s : Ascends(s, S, n + 1)
    OBVIOUS
  <2> DEFINE m == Min(S)
             R == S \ {m}
  <2>1. S # {}
    BY FS_EmptySet
  <2>2. m \in S /\ \A x \in S : m <= x
    BY <2>1, LeastOne
  <2> HIDE DEF m
  <2>3. IsFiniteSet(R) /\ Cardinality(R) = n /\ R \in SUBSET Nat
    BY <2>2, FS_RemoveElement
  <2>4. \A x \in R : m < x /\ x \in S /\ x \in Nat
    BY <2>2
  <2> HIDE DEF R
  <2>5. PICK t : Ascends(t, R, n)
    BY <1>2, <2>3
  <2>6. t \in [1..n -> R] /\ \A i, j \in 1..n : i < j => t[i] < t[j]
    BY <2>5 DEF Ascends
  <2> DEFINE s == [i \in 1..(n + 1) |-> IF i = 1 THEN m ELSE t[i - 1]]
  <2>7. s[1] = m /\ \A i \in 2..(n + 1) : s[i] = t[i - 1] /\ i - 1 \in 1..n
    OBVIOUS
  <2>8. s \in [1..(n + 1) -> S]
    <3>1. \A i \in 1..(n + 1) : i # 1 => t[i - 1] \in S
      BY <2>4, <2>6
    <3> QED BY <2>2, <3>1
  <2> HIDE DEF s
  <2>9. ASSUME NEW i \in 1..(n + 1), NEW j \in 1..(n + 1), i < j PROVE s[i] < s[j]
    <3>1. j \in 2..(n + 1) /\ t[j - 1] \in R
      BY <2>6, <2>7, <2>9
    <3>2. CASE i = 1
      BY <2>4, <2>7, <3>1, <3>2
    <3>3. CASE i # 1
      <4>1. i \in 2..(n + 1) /\ i - 1 < j - 1
        BY <2>9, <3>3
      <4> QED BY <2>6, <2>7, <3>1, <4>1
    <3> QED BY <3>2, <3>3
  <2>10. Ascends(s, S, n + 1)
    BY <2>8, <2>9 DEF Ascends
  <2> QED BY <2>10
<1> HIDE DEF Sorted
<1>3. 0 \in T /\ \A n \in Nat : n \in T => n + 1 \in T
  BY <1>1, <1>2
<1> HIDE DEF T
<1>4. Nat \subseteq T
  BY <1>3, SetInduction
<1> QED BY <1>4 DEF T, Sorted

LEMMA AscendingTells ==
  ASSUME NEW S \in SUBSET Nat, IsFiniteSet(S), NEW s, s = Ascending(S)
  PROVE  /\ s \in Seq(S)
         /\ \A x \in S : \E i \in 1..Len(s) : s[i] = x
         /\ \A i, j \in 1..Len(s) : i < j => s[i] < s[j]
<1> DEFINE n == Cardinality(S)
<1>1. n \in Nat
  BY FS_CardinalityType
<1>2. Ascends(s, S, n)
  <2>1. \E t : Ascends(t, S, n)
    BY <1>1, AscendingExists
  <2>2. \A t \in [1..n -> S] : Ascends(t, S, n) <=> \A i, j \in DOMAIN t : i < j => t[i] < t[j]
    BY DEF Ascends
  <2>3. \A t : Ascends(t, S, n) => t \in [1..n -> S]
    BY DEF Ascends
  <2> HIDE DEF n
  <2>4. s = CHOOSE t \in [1..n -> S] : \A i, j \in DOMAIN t : i < j => t[i] < t[j]
    BY DEF Ascending, n
  <2>5. \E t \in [1..n -> S] : \A i, j \in DOMAIN t : i < j => t[i] < t[j]
    BY <2>1, <2>2, <2>3
  <2>6. s \in [1..n -> S] /\ \A i, j \in DOMAIN s : i < j => s[i] < s[j]
    BY <2>4, <2>5
  <2> QED BY <2>2, <2>6
<1> HIDE DEF n
<1>3. s \in [1..n -> S] /\ \A i, j \in 1..n : i < j => s[i] < s[j]
  BY <1>2 DEF Ascends
<1>4. s \in Injection(1..n, S)
  <2>1. ASSUME NEW i \in 1..n, NEW j \in 1..n, s[i] = s[j] PROVE i = j
    <3>1. s[i] \in Nat
      BY <1>3
    <3>2. ~ (i < j) /\ ~ (j < i)
      BY <1>3, <2>1, <3>1
    <3> QED BY <3>2
  <2> QED BY <1>3, <2>1 DEF Injection, IsInjective
<1>5. Cardinality(1..n) = n
  BY <1>1, FS_Interval
<1>6. s \in Surjection(1..n, S)
  BY <1>4, <1>5, FS_Injection DEF n
<1>7. \A x \in S : \E i \in 1..n : s[i] = x
  BY <1>6 DEF Surjection
<1>8. s \in Seq(S) /\ Len(s) = n
  BY <1>1, <1>3
<1> QED BY <1>3, <1>7, <1>8

(* No line up to n is too long. *)
Short(ls, n) == \A k \in 1..n : Len(ls[k]) <= MaxLine

LEMMA NoMatchInNothing == ~ Matches(<<>>)
BY DEF Matches, Range

(* The scanner has the first K lines: all with a match that no long line is before. *)
Scans(ls, K) ==
  \A n \in 1..Len(ls) : Matches(ls[n]) => (n <= K <=> Short(ls, n))

LEMMA ScannedTells ==
  ASSUME NEW text \in Seq(Chars), NEW ls, ls = Lines(text)
  PROVE  \E K \in 0..Len(ls) : Scanned(text) = SubSeq(ls, 1, K) /\ Scans(ls, K)
<1> DEFINE n    == Len(ls)
           full == IF Last(ls) = <<>> THEN Front(ls) ELSE ls
           F    == IF Last(ls) = <<>> THEN n - 1 ELSE n
           long == {i \in DOMAIN full : Len(full[i]) > MaxLine}
<1>1. ls \in Seq(Seq(Chars)) /\ n \in Nat \ {0} /\ MaxLine \in Nat
  BY LinesAreLines, ToolsConstants DEF Lined
<1>2. Scanned(text) = IF long = {} THEN full ELSE SubSeq(full, 1, Min(long) - 1)
  BY DEF Scanned
<1>3. full = SubSeq(ls, 1, F)
  <2>1. SubSeq(ls, 1, n) = ls
    BY <1>1
  <2> QED BY <2>1 DEF Front
<1>4. F \in 0..n /\ ((F = n - 1 /\ ls[n] = <<>>) \/ F = n)
  BY <1>1 DEF Last
<1> HIDE DEF full, F, n
<1>5. DOMAIN full = 1..F /\ Len(full) = F /\ full \in Seq(Seq(Chars)) /\ \A i \in 1..F : full[i] = ls[i]
  BY <1>1, <1>3, <1>4 DEF n
<1>6. long = {i \in 1..F : Len(ls[i]) > MaxLine}
  BY <1>5
<1> HIDE DEF long
<1>7. \A i \in 1..n : Len(ls[i]) \in Nat
  BY <1>1 DEF n
<1>8. ASSUME NEW i \in 1..n, Matches(ls[i]) PROVE i <= F
  BY <1>1, <1>4, <1>8, NoMatchInNothing
<1>9. CASE long = {}
  <2>1. Scanned(text) = SubSeq(ls, 1, F)
    BY <1>2, <1>3, <1>9
  <2>2. \A k \in 1..F : Len(ls[k]) <= MaxLine
    BY <1>1, <1>4, <1>6, <1>7, <1>9
  <2>3. ASSUME NEW i \in 1..n, Matches(ls[i]) PROVE i <= F /\ Short(ls, i)
    BY <1>4, <1>8, <2>2, <2>3 DEF Short
  <2>4. Scans(ls, F)
    BY <2>3 DEF Scans, n
  <2> QED BY <1>4, <2>1, <2>4 DEF n
<1>10. CASE long # {}
  <2> DEFINE m == Min(long)
  <2>1. m \in long /\ \A y \in long : m <= y
    <3>1. long \in SUBSET Nat
      BY <1>4, <1>6
    <3> QED BY <1>10, <3>1, LeastOne
  <2>2. m \in 1..F /\ Len(ls[m]) > MaxLine
    BY <1>6, <2>1
  <2>3. Scanned(text) = SubSeq(full, 1, m - 1)
    BY <1>2, <1>10
  <2> HIDE DEF m
  <2> DEFINE K == m - 1
  <2>4. K \in 0..n /\ K < F
    BY <1>1, <1>4, <2>2
  <2>5. SubSeq(full, 1, K) = SubSeq(ls, 1, K)
    BY <1>1, <1>4, <1>5, <2>4 DEF n
  <2>6. ASSUME NEW i \in 1..n, Matches(ls[i]) PROVE i <= K <=> Short(ls, i)
    <3>1. i \in 1..F
      BY <1>4, <1>8, <2>6
    <3>2. ASSUME i <= K PROVE Short(ls, i)
      <4>1. ASSUME NEW k \in 1..i PROVE Len(ls[k]) <= MaxLine
        <5>1. k \in 1..F /\ k < m
          BY <1>4, <2>2, <3>1, <3>2
        <5>2. k \notin long
          BY <2>1, <2>2, <5>1
        <5> QED BY <1>1, <1>4, <1>6, <1>7, <5>1, <5>2
      <4> QED BY <4>1 DEF Short
    <3>3. ASSUME ~ (i <= K) PROVE ~ Short(ls, i)
      <4>1. m \in 1..i /\ Len(ls[m]) \in Nat
        BY <1>4, <1>7, <2>2, <3>1, <3>3
      <4> QED BY <1>1, <2>2, <4>1 DEF Short
    <3> QED BY <3>2, <3>3
  <2>7. Scans(ls, K)
    BY <2>6 DEF Scans, n
  <2> QED BY <2>3, <2>4, <2>5, <2>7 DEF n
<1> QED BY <1>9, <1>10

(* The matches of a file, and the order that grep reports in. *)
Match(f, ls, n) == [file |-> f, no |-> n, line |-> ls[n]]
Seen(f, ls)     == {Match(f, ls, n) : n \in {n \in DOMAIN ls : Matches(ls[n]) /\ Short(ls, n)}}
Before(m, n)    == m.file < n.file \/ (m.file = n.file /\ m.no < n.no)

(* s has the matches of S, each once and in order. *)
Orders(s, S) ==
  /\ s \in Seq(S)
  /\ \A x \in S : \E i \in 1..Len(s) : s[i] = x
  /\ \A i, j \in 1..Len(s) : i < j => Before(s[i], s[j])

LEMMA MatchIs == \A f, ls, n : /\ Match(f, ls, n).file = f
                               /\ Match(f, ls, n).no = n
                               /\ Match(f, ls, n).line = ls[n]
BY DEF Match

LEMMA FoundTells ==
  ASSUME NEW text \in Seq(Chars), NEW f \in Nat PROVE Orders(FoundIn(f, text), Seen(f, Lines(text)))
<1> DEFINE ls == Lines(text)
           sc == Scanned(text)
           H  == {n \in DOMAIN sc : Matches(sc[n])}
           hits == Ascending(H)
           s  == FoundIn(f, text)
<1>1. ls \in Seq(Seq(Chars)) /\ Len(ls) \in Nat
  BY LinesAreLines DEF Lined
<1>2. PICK K \in 0..Len(ls) : sc = SubSeq(ls, 1, K) /\ Scans(ls, K)
  BY ScannedTells
<1>3. s = [i \in DOMAIN hits |-> [file |-> f, no |-> hits[i], line |-> sc[hits[i]]]]
  BY DEF FoundIn
<1> HIDE DEF s, hits, ls, sc
<1>4. DOMAIN sc = 1..K /\ \A n \in 1..K : sc[n] = ls[n]
  BY <1>1, <1>2
<1>5. H = {n \in 1..K : Matches(ls[n])}
  BY <1>4
<1>6. H = {n \in DOMAIN ls : Matches(ls[n]) /\ Short(ls, n)}
  <2>1. DOMAIN ls = 1..Len(ls) /\ \A n \in 1..Len(ls) : n \in 1..K <=> n <= K
    BY <1>1, <1>2
  <2>2. 1..K \subseteq 1..Len(ls)
    BY <1>1, <1>2
  <2>3. \A n \in 1..Len(ls) : Matches(ls[n]) => (n \in 1..K <=> Short(ls, n))
    BY <1>2, <2>1 DEF Scans
  <2> QED BY <1>5, <2>1, <2>2, <2>3
<1> HIDE DEF H
<1>7. H \in SUBSET Nat /\ IsFiniteSet(H)
  <2>1. H \in SUBSET (1..K) /\ K \in Int
    BY <1>2, <1>5
  <2>2. IsFiniteSet(1..K)
    BY <2>1, FS_Interval
  <2>3. IsFiniteSet(H)
    BY <2>1, <2>2, FS_Subset
  <2>4. 1..K \subseteq Nat
    BY <1>2
  <2> QED BY <2>1, <2>3, <2>4
<1>8. /\ hits \in Seq(H)
      /\ \A x \in H : \E i \in 1..Len(hits) : hits[i] = x
      /\ \A i, j \in 1..Len(hits) : i < j => hits[i] < hits[j]
  BY <1>7, AscendingTells DEF hits
<1> DEFINE n == Len(hits)
<1>9. n \in Nat /\ DOMAIN hits = 1..n /\ \A i \in 1..n : hits[i] \in H
  BY <1>8
<1> HIDE DEF n
<1>10. Seen(f, ls) = {Match(f, ls, x) : x \in H}
  BY <1>6 DEF Seen
<1>11. s = [i \in 1..n |-> Match(f, ls, hits[i])]
  <2>1. \A i \in 1..n : sc[hits[i]] = ls[hits[i]]
    BY <1>4, <1>5, <1>9
  <2> QED BY <1>3, <1>9, <2>1 DEF Match
<1>12. \A i \in 1..n : s[i] = Match(f, ls, hits[i])
  BY <1>11
<1>13. s \in Seq(Seen(f, ls)) /\ Len(s) = n
  <2>1. \A i \in 1..n : Match(f, ls, hits[i]) \in Seen(f, ls)
    BY <1>9, <1>10
  <2>2. s \in [1..n -> Seen(f, ls)]
    BY <1>11, <2>1
  <2> QED BY <1>9, <2>2
<1>14. \A x \in Seen(f, ls) : \E i \in 1..n : s[i] = x
  <2> SUFFICES ASSUME NEW x \in H PROVE \E i \in 1..n : s[i] = Match(f, ls, x)
    BY <1>10
  <2>1. PICK i \in 1..n : hits[i] = x
    BY <1>8 DEF n
  <2> QED BY <1>12, <2>1
<1>15. ASSUME NEW i \in 1..n, NEW j \in 1..n, i < j PROVE Before(s[i], s[j])
  <2>1. hits[i] < hits[j]
    BY <1>8, <1>15 DEF n
  <2>2. s[i].file = f /\ s[j].file = f /\ s[i].no = hits[i] /\ s[j].no = hits[j]
    BY <1>12, MatchIs
  <2> QED BY <2>1, <2>2 DEF Before
<1>16. Orders(s, Seen(f, ls))
  BY <1>13, <1>14, <1>15 DEF Orders
<1> QED BY <1>16 DEF s, ls

(* What is reported, when most lines may be. *)
First(s, most) == SubSeq(s, 1, Least(Len(s), most))

LEMMA FirstIs ==
  ASSUME NEW V, NEW s \in Seq(V), NEW most \in Nat
  PROVE  /\ First(s, most) \in Seq(V)
         /\ Len(First(s, most)) = Least(Len(s), most)
         /\ \A i \in 1..Len(First(s, most)) : First(s, most)[i] = s[i]
<1> DEFINE k == Least(Len(s), most)
<1>1. k \in Nat /\ k <= Len(s)
  BY DEF Least
<1> HIDE DEF k
<1>2. /\ SubSeq(s, 1, k) \in Seq(V) /\ Len(SubSeq(s, 1, k)) = k
      /\ \A i \in 1..k : SubSeq(s, 1, k)[i] = s[i]
  BY <1>1
<1> QED BY <1>2 DEF First, k

LEMMA FirstJoins ==
  ASSUME NEW V, NEW s \in Seq(V), NEW t \in Seq(V), NEW most \in Nat
  PROVE  First(s, most) \o First(t, most - Len(First(s, most))) = First(s \o t, most)
<1> DEFINE a == First(s, most)
           k == Len(a)
           b == First(t, most - k)
           c == First(s \o t, most)
           m == Len(s)
           l == Len(t)
           w == s \o t
<1>1. a \in Seq(V) /\ k = Least(m, most) /\ \A i \in 1..k : a[i] = s[i]
  BY FirstIs
<1>2. m \in Nat /\ l \in Nat
  OBVIOUS
<1>3. w \in Seq(V) /\ Len(w) = m + l
  BY ConcatProperties
<1>4. (\A i \in 1..m : w[i] = s[i]) /\ \A i \in 1..l : w[m + i] = t[i]
  OBVIOUS
<1>5. k \in Nat /\ k <= m /\ k <= most /\ (k = m \/ k = most)
  BY <1>1, <1>2 DEF Least
<1> HIDE DEF a, k, m, l, w
<1>6. b \in Seq(V) /\ Len(b) = Least(l, most - k) /\ \A i \in 1..Len(b) : b[i] = t[i]
  <2>1. most - k \in Nat
    BY <1>5
  <2> QED BY <2>1, FirstIs DEF l
<1>7. c \in Seq(V) /\ Len(c) = Least(m + l, most) /\ \A i \in 1..Len(c) : c[i] = w[i]
  BY <1>3, FirstIs DEF w
<1> HIDE DEF b, c
<1>8. Len(c) = k + Len(b)
  BY <1>1, <1>2, <1>5, <1>6, <1>7 DEF Least
<1>9. Len(b) \in Nat /\ Len(b) <= l /\ (Len(b) > 0 => k = m)
  BY <1>2, <1>5, <1>6 DEF Least
<1>10. \A i \in 1..k : c[i] = a[i]
  <2>1. ASSUME NEW i \in 1..k PROVE c[i] = a[i]
    <3>1. i \in 1..Len(c) /\ i \in 1..m
      BY <1>2, <1>5, <1>8, <1>9
    <3> QED BY <1>1, <1>4, <1>7, <3>1
  <2> QED BY <2>1
<1>11. ASSUME NEW i \in 1..Len(b) PROVE c[k + i] = b[i]
  <2>1. k + i \in 1..Len(c) /\ i \in 1..l /\ k = m
    BY <1>2, <1>5, <1>8, <1>9
  <2>2. c[k + i] = w[m + i]
    BY <1>7, <2>1
  <2> QED BY <1>4, <1>6, <2>1, <2>2
<1>12. Len(c) = Len(a) + Len(b) /\ \A i \in 1..Len(a) : c[i] = a[i]
  BY <1>8, <1>10 DEF k
<1>13. \A i \in 1..Len(b) : c[Len(a) + i] = b[i]
  BY <1>11 DEF k
<1>14. a \o b = c
  BY <1>1, <1>6, <1>7, <1>12, <1>13, Joined
<1> QED BY <1>14 DEF a, b, c, k, w

(* Matches of later files are put behind those of earlier ones. *)
LEMMA OrdersJoin ==
  ASSUME NEW S, NEW T, NEW s, NEW t, Orders(s, S), Orders(t, T), \A x \in S, y \in T : Before(x, y)
  PROVE  Orders(s \o t, S \cup T)
<1> DEFINE w == s \o t
           m == Len(s)
           l == Len(t)
           U == S \cup T
<1>1. s \in Seq(U) /\ t \in Seq(U) /\ m \in Nat /\ l \in Nat
  <2>1. s \in Seq(S) /\ t \in Seq(T)
    BY DEF Orders
  <2>2. S \subseteq U /\ T \subseteq U
    OBVIOUS
  <2> HIDE DEF U
  <2> QED BY <2>1, <2>2
<1>2. /\ \A i \in 1..m : s[i] \in S
      /\ \A i \in 1..l : t[i] \in T
      /\ \A x \in S : \E i \in 1..m : s[i] = x
      /\ \A x \in T : \E i \in 1..l : t[i] = x
      /\ \A i, j \in 1..m : i < j => Before(s[i], s[j])
      /\ \A i, j \in 1..l : i < j => Before(t[i], t[j])
  BY DEF Orders
<1> HIDE DEF U
<1>3. w \in Seq(U) /\ Len(w) = m + l
  BY <1>1, ConcatProperties
<1>4. (\A i \in 1..m : w[i] = s[i]) /\ \A i \in 1..l : w[m + i] = t[i]
  BY <1>1
<1> HIDE DEF w, m, l
<1>5. \A i \in 1..(m + l) : i \in 1..m \/ i - m \in 1..l
  BY <1>1
<1>6. \A i \in 1..(m + l) : i - m \in 1..l => w[i] = t[i - m]
  <2>1. ASSUME NEW i \in 1..(m + l), i - m \in 1..l PROVE w[i] = t[i - m]
    <3>1. w[m + (i - m)] = t[i - m]
      BY <1>4, <2>1
    <3>2. m + (i - m) = i
      BY <1>1
    <3> QED BY <3>1, <3>2
  <2> QED BY <2>1
<1>7. ASSUME NEW i \in 1..(m + l), NEW j \in 1..(m + l), i < j PROVE Before(w[i], w[j])
  <2>1. CASE j \in 1..m
    <3>1. i \in 1..m
      BY <1>1, <1>7, <2>1
    <3> QED BY <1>2, <1>4, <1>7, <2>1, <3>1
  <2>2. CASE i \in 1..m /\ j - m \in 1..l
    <3>1. w[i] \in S /\ w[j] \in T
      BY <1>2, <1>4, <1>6, <2>2
    <3> QED BY <3>1
  <2>3. CASE i - m \in 1..l /\ j - m \in 1..l
    <3>1. i - m < j - m
      BY <1>1, <1>7
    <3>2. Before(t[i - m], t[j - m])
      BY <1>2, <2>3, <3>1
    <3> QED BY <1>6, <2>3, <3>2
  <2> QED BY <1>5, <2>1, <2>2, <2>3
<1>8. \A x \in U : \E i \in 1..(m + l) : w[i] = x
  <2>1. ASSUME NEW x \in S PROVE \E i \in 1..(m + l) : w[i] = x
    <3>1. PICK i \in 1..m : s[i] = x
      BY <1>2
    <3>2. i \in 1..(m + l)
      BY <1>1
    <3> QED BY <1>4, <3>1, <3>2
  <2>2. ASSUME NEW x \in T PROVE \E i \in 1..(m + l) : w[i] = x
    <3>1. PICK i \in 1..l : t[i] = x
      BY <1>2
    <3>2. m + i \in 1..(m + l)
      BY <1>1
    <3> QED BY <1>4, <3>1, <3>2
  <2> QED BY <2>1, <2>2 DEF U
<1>9. Orders(w, U)
  BY <1>3, <1>7, <1>8 DEF Orders
<1> QED BY <1>9 DEF w, U

(* Matches have numbers, so the order is one. *)
Numbered(S) == \A x \in S : x.file \in Nat /\ x.no \in Nat

LEMMA BeforeIsStrict ==
  ASSUME NEW S, Numbered(S), NEW x \in S, NEW y \in S, Before(x, y) PROVE x # y /\ ~ Before(y, x)
BY DEF Numbered, Before

LEMMA OrdersCount ==
  ASSUME NEW S, Numbered(S), NEW s, Orders(s, S) PROVE Cardinality(S) = Len(s)
<1> DEFINE n == Len(s)
<1>1. n \in Nat /\ s \in [1..n -> S]
  BY DEF Orders
<1>2. /\ \A x \in S : \E i \in 1..n : s[i] = x
      /\ \A i, j \in 1..n : i < j => Before(s[i], s[j])
  BY DEF Orders
<1> HIDE DEF n
<1>3. ASSUME NEW i \in 1..n, NEW j \in 1..n, s[i] = s[j] PROVE i = j
  <2>1. s[i] \in S /\ s[j] \in S
    BY <1>1
  <2>2. ~ (i < j)
    BY <1>2, <1>3, <2>1, BeforeIsStrict
  <2>3. ~ (j < i)
    BY <1>2, <1>3, <2>1, BeforeIsStrict
  <2> QED BY <1>1, <2>2, <2>3
<1>4. s \in Bijection(1..n, S)
  <2>1. s \in Injection(1..n, S)
    BY <1>1, <1>3 DEF Injection, IsInjective
  <2>2. s \in Surjection(1..n, S)
    BY <1>1, <1>2 DEF Surjection
  <2> QED BY <2>1, <2>2 DEF Bijection
<1>5. ExistsBijection(1..n, S)
  BY <1>4 DEF ExistsBijection
<1>6. IsFiniteSet(1..n) /\ Cardinality(1..n) = n
  BY <1>1, FS_Interval
<1>7. Cardinality(S) = n
  BY <1>5, <1>6, FS_Bijection
<1> QED BY <1>7 DEF n

(* The matches of the first i files of a list. *)
Upto(d, files, i) == UNION {Seen(files[j], Lines(d[files[j]])) : j \in 1..i}

LEMMA UptoNext ==
  ASSUME NEW d, NEW files, NEW i \in Nat
  PROVE  Upto(d, files, i + 1) = Upto(d, files, i) \cup Seen(files[i + 1], Lines(d[files[i + 1]]))
<1> DEFINE At(j) == Seen(files[j], Lines(d[files[j]]))
<1>1. \A j : j \in 1..(i + 1) <=> j \in 1..i \/ j = i + 1
  OBVIOUS
<1>2. Upto(d, files, i + 1) = UNION {At(j) : j \in 1..(i + 1)} /\ Upto(d, files, i) = UNION {At(j) : j \in 1..i}
  BY DEF Upto
<1> HIDE DEF At
<1>3. UNION {At(j) : j \in 1..(i + 1)} = (UNION {At(j) : j \in 1..i}) \cup At(i + 1)
  BY <1>1
<1> QED BY <1>2, <1>3 DEF At

(* Files there are, listed in their order. *)
Listed(d, files) ==
  /\ files \in Seq(DOMAIN d)
  /\ \A f \in DOMAIN d : \E i \in 1..Len(files) : files[i] = f
  /\ \A i, j \in 1..Len(files) : i < j => files[i] < files[j]

Directory(d) == DOMAIN d \subseteq Files /\ \A f \in DOMAIN d : d[f] \in Seq(Chars)

LEMMA ListingTells == ASSUME NEW d, Directory(d) PROVE Listed(d, Listing(d))
<1>1. DOMAIN d \in SUBSET Nat /\ IsFiniteSet(DOMAIN d)
  BY ToolsConstants, FS_Subset DEF Directory
<1>2. Listing(d) = Ascending(DOMAIN d)
  BY DEF Listing
<1> QED BY <1>1, <1>2, AscendingTells DEF Listed

LEMMA UptoIsNumbered ==
  ASSUME NEW d, Directory(d), NEW files, Listed(d, files), NEW i \in 0..Len(files)
  PROVE  /\ Numbered(Upto(d, files, i))
         /\ \A x \in Upto(d, files, i) : \E j \in 1..i : x.file = files[j]
<1> SUFFICES ASSUME NEW x \in Upto(d, files, i)
             PROVE  x.file \in Nat /\ x.no \in Nat /\ \E j \in 1..i : x.file = files[j]
  BY DEF Numbered
<1>1. PICK j \in 1..i : x \in Seen(files[j], Lines(d[files[j]]))
  BY DEF Upto
<1> DEFINE ls == Lines(d[files[j]])
<1>2. j \in 1..Len(files) /\ files[j] \in DOMAIN d
  BY DEF Listed
<1>3. files[j] \in Nat /\ d[files[j]] \in Seq(Chars)
  BY <1>2, ToolsConstants DEF Directory
<1>4. DOMAIN ls \subseteq Nat
  <2>1. ls \in Lined
    BY <1>3, LinesAreLines
  <2> HIDE DEF ls
  <2> QED BY <2>1 DEF Lined
<1> HIDE DEF ls
<1>5. PICK n \in DOMAIN ls : x = Match(files[j], ls, n)
  BY <1>1 DEF Seen, ls
<1>6. x.file = files[j] /\ x.no = n
  BY <1>5, MatchIs
<1> QED BY <1>3, <1>4, <1>6

(* What grep has after a file, when it had found what was before it. *)
GrepStep(found, new, most) == found \o First(new, most - Len(found))

Greps(g, d, files, most) ==
  g = [i \in 0..Len(files) |-> IF i = 0 THEN <<>>
                               ELSE GrepStep(g[i - 1], FoundIn(files[i], d[files[i]]), most)]

(* Where new adds to Upto what found has the first of. *)
LEMMA GrepStepKeeps ==
  ASSUME NEW S, NEW T, NEW full, NEW new, Orders(full, S), Orders(new, T),
         \A x \in S, y \in T : Before(x, y), NEW most \in Nat
  PROVE  GrepStep(First(full, most), new, most) = First(full \o new, most) /\ Orders(full \o new, S \cup T)
<1> DEFINE U == S \cup T
<1>1. full \in Seq(U) /\ new \in Seq(U)
  <2>1. full \in Seq(S) /\ new \in Seq(T)
    BY DEF Orders
  <2>2. S \subseteq U /\ T \subseteq U
    OBVIOUS
  <2> HIDE DEF U
  <2> QED BY <2>1, <2>2
<1>2. GrepStep(First(full, most), new, most) = First(full \o new, most)
  BY <1>1, FirstJoins DEF GrepStep
<1> QED BY <1>2, OrdersJoin

LEMMA FilesFollow ==
  ASSUME NEW d, Directory(d), NEW files, Listed(d, files), NEW i \in Nat, i + 1 <= Len(files)
  PROVE  LET f == files[i + 1]
         IN /\ Orders(FoundIn(f, d[f]), Seen(f, Lines(d[f])))
            /\ \A x \in Upto(d, files, i), y \in Seen(f, Lines(d[f])) : Before(x, y)
<1> DEFINE n == i + 1
           f == files[n]
           ls == Lines(d[f])
<1>1. n \in 1..Len(files) /\ f \in DOMAIN d
  BY DEF Listed
<1> HIDE DEF n
<1>2. f \in Nat /\ d[f] \in Seq(Chars)
  BY <1>1, ToolsConstants DEF Directory
<1>3. Orders(FoundIn(f, d[f]), Seen(f, ls))
  BY <1>2, FoundTells
<1>4. ASSUME NEW x \in Upto(d, files, i), NEW y \in Seen(f, ls) PROVE Before(x, y)
  <2>1. y.file = f
    <3> HIDE DEF f, ls
    <3> QED BY MatchIs DEF Seen
  <2>2. i \in 0..Len(files)
    BY DEF Listed
  <2>3. PICK j \in 1..i : x.file = files[j]
    BY <2>2, UptoIsNumbered
  <2>4. files[j] < files[n]
    <3>1. j \in 1..Len(files) /\ j < n
      BY <2>2 DEF n
    <3> QED BY <1>1, <3>1 DEF Listed
  <2> QED BY <2>1, <2>3, <2>4 DEF Before
<1> QED BY <1>3, <1>4 DEF n

LEMMA GrepKeeps ==
  ASSUME NEW d, Directory(d), NEW files, Listed(d, files), NEW most \in Nat,
         NEW g, Greps(g, d, files, most)
  PROVE  \E full : /\ Orders(full, Upto(d, files, Len(files)))
                   /\ g[Len(files)] = First(full, most)
<1> DEFINE N == Len(files)
           Kept(i) == \E full : Orders(full, Upto(d, files, i)) /\ g[i] = First(full, most)
           S == {i \in Nat : i <= N => Kept(i)}
<1>1. N \in Nat
  BY DEF Listed
<1>2. g[0] = <<>> /\ \A i \in 1..N : g[i] = GrepStep(g[i - 1], FoundIn(files[i], d[files[i]]), most)
  BY <1>1 DEF Greps
<1>3. Kept(0)
  <2>1. Upto(d, files, 0) = {}
    BY DEF Upto
  <2>2. Orders(<<>>, {})
    BY DEF Orders
  <2>3. First(<<>>, most) = <<>>
    BY DEF First, Least
  <2> QED BY <1>2, <2>1, <2>2, <2>3
<1>4. ASSUME NEW i \in Nat, i + 1 <= N, Kept(i) PROVE Kept(i + 1)
  <2>1. PICK full : Orders(full, Upto(d, files, i)) /\ g[i] = First(full, most)
    BY <1>4
  <2> DEFINE f   == files[i + 1]
             new == FoundIn(f, d[f])
             P   == Upto(d, files, i)
             T   == Seen(f, Lines(d[f]))
  <2>2. g[i + 1] = GrepStep(g[i], new, most)
    <3>1. i + 1 \in 1..N /\ (i + 1) - 1 = i
      BY <1>1, <1>4
    <3> QED BY <1>2, <3>1
  <2>3. Orders(new, T) /\ \A x \in P, y \in T : Before(x, y)
    BY <1>4, FilesFollow
  <2>4. Upto(d, files, i + 1) = P \cup T
    BY UptoNext
  <2> HIDE DEF new, P, T
  <2>5. GrepStep(First(full, most), new, most) = First(full \o new, most) /\ Orders(full \o new, P \cup T)
    BY <2>1, <2>3, GrepStepKeeps DEF P
  <2>6. g[i + 1] = First(full \o new, most)
    BY <2>1, <2>2, <2>5
  <2> QED BY <2>4, <2>5, <2>6
<1> HIDE DEF Kept
<1>5. 0 \in S /\ \A i \in Nat : i \in S => i + 1 \in S
  <2> HIDE DEF N
  <2>1. ASSUME NEW i \in Nat, i \in S, i + 1 <= N PROVE Kept(i + 1)
    BY <1>1, <1>4, <2>1
  <2> QED BY <1>3, <2>1
<1> HIDE DEF S
<1>6. N \in S
  BY <1>1, <1>5, SetInduction
<1>7. Kept(N)
  BY <1>1, <1>6 DEF S
<1> QED BY <1>7 DEF Kept

LEMMA GrepExists ==
  ASSUME NEW d, Directory(d), NEW files, Listed(d, files), NEW most \in Nat
  PROVE  \E g : Greps(g, d, files, most)
<1> DEFINE N == Len(files)
           W == Upto(d, files, N)
           V == {a \in Seq(W) : Len(a) <= most}
           new(i) == FoundIn(files[i], d[files[i]])
           step == [x \in (1..N) \X V |-> GrepStep(x[2], new(x[1]), most)]
<1>1. N \in Nat
  BY DEF Listed
<1>2. ASSUME NEW i \in 1..N PROVE new(i) \in Seq(W)
  <2> DEFINE T == Seen(files[i], Lines(d[files[i]]))
  <2>1. T \subseteq W
    BY DEF Upto
  <2>2. files[i] \in DOMAIN d
    BY DEF Listed
  <2>3. files[i] \in Nat /\ d[files[i]] \in Seq(Chars)
    BY <2>2, ToolsConstants DEF Directory
  <2>4. Orders(new(i), T)
    BY <2>3, FoundTells
  <2>5. new(i) \in Seq(T)
    BY <2>4 DEF Orders
  <2> HIDE DEF T, new, W
  <2> QED BY <2>1, <2>5
<1> HIDE DEF N, W, new
<1>3. <<>> \in V
  OBVIOUS
<1>4. ASSUME NEW a \in V, NEW i \in 1..N PROVE GrepStep(a, new(i), most) \in V
  <2> DEFINE k == most - Len(a)
             b == First(new(i), k)
  <2>1. a \in Seq(W) /\ k \in Nat /\ Len(a) \in Nat /\ k = most - Len(a)
    OBVIOUS
  <2> HIDE DEF k
  <2>2. b \in Seq(W) /\ Len(b) = Least(Len(new(i)), k) /\ Len(new(i)) \in Nat
    BY <1>2, <2>1, FirstIs
  <2> HIDE DEF b
  <2>3. Len(b) \in Nat /\ Len(b) <= k
    BY <2>1, <2>2 DEF Least
  <2>4. a \o b \in Seq(W) /\ Len(a \o b) = Len(a) + Len(b)
    BY <2>1, <2>2, ConcatProperties
  <2>5. GrepStep(a, new(i), most) = a \o b
    BY DEF GrepStep, b, k
  <2> QED BY <2>1, <2>3, <2>4, <2>5
<1> HIDE DEF V
<1>5. step \in [(1..N) \X V -> V] /\ \A i \in 1..N, a \in V : step[<<i, a>>] = GrepStep(a, new(i), most)
  <2>1. ASSUME NEW x \in (1..N) \X V PROVE GrepStep(x[2], new(x[1]), most) \in V
    BY <1>4
  <2> QED BY <2>1
<1> HIDE DEF step
<1>6. PICK g \in [0..N -> V] : Iterates(g, N, <<>>, step)
  BY <1>1, <1>3, <1>5, IterationExists
<1>7. ASSUME NEW i \in 1..N PROVE g[i] = GrepStep(g[i - 1], new(i), most)
  <2>1. g[i] = step[<<i, g[i - 1]>>]
    BY <1>6 DEF Iterates
  <2>2. g[i - 1] \in V
    BY <1>1
  <2> QED BY <2>1, <2>2, <1>5
<1>8. g[0] = <<>>
  BY <1>6 DEF Iterates
<1>9. g = [i \in 0..N |-> IF i = 0 THEN <<>> ELSE GrepStep(g[i - 1], new(i), most)]
  <2>1. \A i \in 0..N : i = 0 \/ i \in 1..N
    BY <1>1
  <2>2. ASSUME NEW i \in 0..N PROVE g[i] = IF i = 0 THEN <<>> ELSE GrepStep(g[i - 1], new(i), most)
    BY <1>7, <1>8, <2>1
  <2> QED BY <2>2
<1>10. Greps(g, d, files, most)
  BY <1>9 DEF Greps, N, new
<1> QED BY <1>10

(* What grep reports: the first of all the matches, in order. *)
LEMMA GrepTells ==
  ASSUME NEW d, Directory(d), NEW max \in Int
  PROVE  \E full : /\ Orders(full, Upto(d, Listing(d), Len(Listing(d))))
                   /\ Grep(d, max) = First(full, Clamp(max, 1, MaxFound))
<1> DEFINE files == Listing(d)
           most  == Clamp(max, 1, MaxFound)
           F(g)  == [i \in 0..Len(files) |->
                      IF i = 0 THEN <<>>
                      ELSE g[i - 1] \o SubSeq(FoundIn(files[i], d[files[i]]), 1,
                                              Least(Len(FoundIn(files[i], d[files[i]])), most - Len(g[i - 1])))]
           r     == CHOOSE g : g = F(g)
<1>1. Grep(d, max) = r[Len(files)]
  BY DEF Grep
<1>2. \A g : Greps(g, d, files, most) <=> g = F(g)
  BY DEF Greps, GrepStep, First
<1>3. Listed(d, files)
  BY ListingTells
<1>4. most \in Nat
  BY ToolsConstants DEF Clamp
<1> HIDE DEF F, files, most
<1>5. \E g : g = F(g)
  BY <1>2, <1>3, <1>4, GrepExists
<1>6. r = F(r)
  BY <1>5
<1> HIDE DEF r
<1>7. Greps(r, d, files, most)
  BY <1>2, <1>6
<1>8. PICK full : Orders(full, Upto(d, files, Len(files))) /\ r[Len(files)] = First(full, most)
  BY <1>3, <1>4, <1>7, GrepKeeps
<1> QED BY <1>1, <1>8 DEF files, most

(* All matches before one that is reported are reported before it. *)
EarlierFound(found, S) ==
  \A i \in 1..Len(found), m \in S : Before(m, found[i]) => \E k \in 1..(i - 1) : found[k] = m

LEMMA FirstOfOrdered ==
  ASSUME NEW S, Numbered(S), NEW full, Orders(full, S), NEW most \in Nat, NEW found, found = First(full, most)
  PROVE  /\ found \in Seq(S)
         /\ Len(found) = Least(most, Cardinality(S))
         /\ EarlierFound(found, S)
<1> DEFINE n == Len(full)
           l == Len(found)
<1>1. /\ full \in Seq(S) /\ n \in Nat
      /\ \A m \in S : \E k \in 1..n : full[k] = m
      /\ \A i, j \in 1..n : i < j => Before(full[i], full[j])
  BY DEF Orders
<1>2. found \in Seq(S) /\ l = Least(n, most) /\ \A i \in 1..l : found[i] = full[i]
  BY <1>1, FirstIs
<1>3. Cardinality(S) = n
  BY OrdersCount
<1>4. \A k \in 1..n : full[k] \in S
  BY <1>1
<1> HIDE DEF n, l
<1>5. l \in Nat /\ l <= n /\ l = Least(most, n)
  BY <1>1, <1>2 DEF Least
<1>6. ASSUME NEW i \in 1..l, NEW m \in S, Before(m, found[i]) PROVE \E k \in 1..(i - 1) : found[k] = m
  <2>1. PICK k \in 1..n : full[k] = m
    BY <1>1
  <2>2. i \in 1..n /\ found[i] = full[i] /\ full[i] \in S
    BY <1>1, <1>2, <1>4, <1>5
  <2>3. full[i] # m /\ ~ Before(full[i], m)
    BY <1>6, <2>2, BeforeIsStrict
  <2>4. ~ (i < k) /\ i # k
    BY <1>1, <2>1, <2>2, <2>3
  <2>5. k \in 1..(i - 1) /\ k \in 1..l
    BY <1>1, <1>5, <2>1, <2>2, <2>4
  <2> QED BY <1>2, <2>1, <2>5
<1>7. EarlierFound(found, S)
  BY <1>6 DEF EarlierFound, l
<1> QED BY <1>2, <1>3, <1>5, <1>7 DEF l

(* Read shows a line at the number that it has. *)
LEMMA PageShowsLine ==
  ASSUME NEW text \in Seq(Chars), NEW ls, ls = Lines(text), NEW n \in 1..Len(ls)
  PROVE  Page(text, n, 1).lines = <<ls[n]>>
<1>1. ls \in Seq(Seq(Chars)) /\ Len(ls) \in Nat
  BY LinesAreLines DEF Lined
<1>2. Clamp(n, 1, n + 1) - 1 = n - 1 /\ Clamp(1, 1, MaxPage) = 1
  BY <1>1, ToolsConstants DEF Clamp
<1>3. Least(n - 1 + 1, Len(ls)) = n
  BY <1>1 DEF Least
<1>4. ~ (n - 1 >= Len(ls))
  BY <1>1
<1>5. Page(text, n, 1).lines = SubSeq(ls, (n - 1) + 1, n)
  BY <1>2, <1>3, <1>4 DEF Page
<1>6. (n - 1) + 1 = n
  BY <1>1
<1>7. SubSeq(ls, n, n) = <<ls[n]>>
  <2> DEFINE p == SubSeq(ls, n, n)
             l == ls[n]
  <2>1. p \in Seq(Seq(Chars)) /\ Len(p) = 1 /\ p[1] = l
    BY <1>1
  <2>2. l \in Seq(Chars)
    BY <1>1
  <2> HIDE DEF p, l
  <2>3. <<l>> \in Seq(Seq(Chars)) /\ Len(<<l>>) = 1 /\ <<l>>[1] = l
    BY <2>2
  <2>4. p = <<l>>
    BY <2>1, <2>3, SeqEqual
  <2> QED BY <2>4 DEF p, l
<1> QED BY <1>5, <1>6, <1>7

(* What is to be shown of the matches that are reported. *)
Finds(found, seen, most) ==
  /\ Range(found) \subseteq seen
  /\ Len(found) = Least(most, Cardinality(seen))
  /\ \A i \in DOMAIN found :
       /\ \A m \in seen : Before(m, found[i]) => \E k \in 1..(i - 1) : found[k] = m
       /\ Page(dir[found[i].file], found[i].no, 1).lines = <<found[i].line>>

LEMMA ElementsOf ==
  ASSUME NEW V, NEW s \in Seq(V) PROVE DOMAIN s = 1..Len(s) /\ \A i \in DOMAIN s : s[i] \in V
OBVIOUS

LEMMA GrepFindsFirst ==
  ASSUME Directory(dir), NEW max \in Int, NEW found, found = Grep(dir, max),
         NEW seen, seen = UNION {Seen(f, Lines(dir[f])) : f \in DOMAIN dir}
  PROVE  Finds(found, seen, Clamp(max, 1, MaxFound))
<1> DEFINE files == Listing(dir)
           most  == Clamp(max, 1, MaxFound)
           N     == Len(files)
<1>1. Listed(dir, files) /\ N \in Nat
  BY ListingTells DEF Listed
<1>2. seen = Upto(dir, files, N)
  <2>1. \A j \in 1..N : files[j] \in DOMAIN dir
    BY <1>1 DEF Listed
  <2>2. \A f \in DOMAIN dir : \E j \in 1..N : files[j] = f
    BY <1>1 DEF Listed
  <2> HIDE DEF files, N
  <2> DEFINE At(f) == Seen(f, Lines(dir[f]))
  <2>3. seen = UNION {At(f) : f \in DOMAIN dir} /\ Upto(dir, files, N) = UNION {At(files[j]) : j \in 1..N}
    BY DEF Upto
  <2> HIDE DEF At
  <2>4. {At(f) : f \in DOMAIN dir} = {At(files[j]) : j \in 1..N}
    BY <2>1, <2>2
  <2> QED BY <2>3, <2>4
<1>3. PICK full : Orders(full, Upto(dir, files, N)) /\ found = First(full, most)
  BY GrepTells
<1>4. most \in Nat
  BY ToolsConstants DEF Clamp
<1> HIDE DEF files, most, N
<1>5. Orders(full, seen) /\ Numbered(seen)
  <2>1. N \in 0..Len(files)
    BY <1>1 DEF N
  <2> QED BY <1>1, <1>2, <1>3, <2>1, UptoIsNumbered
<1>6. /\ found \in Seq(seen)
      /\ Len(found) = Least(most, Cardinality(seen))
      /\ EarlierFound(found, seen)
  BY <1>3, <1>4, <1>5, FirstOfOrdered
<1>7. DOMAIN found = 1..Len(found) /\ \A i \in DOMAIN found : found[i] \in seen
  BY <1>6, ElementsOf
<1>8. ASSUME NEW i \in DOMAIN found
      PROVE  Page(dir[found[i].file], found[i].no, 1).lines = <<found[i].line>>
  <2>1. PICK f \in DOMAIN dir : found[i] \in Seen(f, Lines(dir[f]))
    BY <1>7
  <2> DEFINE ls == Lines(dir[f])
             m  == found[i]
  <2>2. dir[f] \in Seq(Chars)
    BY DEF Directory
  <2>3. ls \in Lined
    BY <2>2, LinesAreLines
  <2>4. DOMAIN ls = 1..Len(ls)
    <3> HIDE DEF ls
    <3> QED BY <2>3 DEF Lined
  <2>5. PICK n \in DOMAIN ls : m = Match(f, ls, n)
    <3> HIDE DEF ls
    <3> QED BY <2>1 DEF Seen, ls
  <2>6. m.file = f /\ m.no = n /\ m.line = ls[n]
    <3> HIDE DEF ls, m
    <3> QED BY <2>5, MatchIs
  <2>7. Page(dir[f], n, 1).lines = <<ls[n]>>
    BY <2>2, <2>4, PageShowsLine
  <2> HIDE DEF ls
  <2> QED BY <2>6, <2>7
<1>9. Range(found) \subseteq seen
  BY <1>7 DEF Range
<1>10. Finds(found, seen, most)
  <2>1. ASSUME NEW i \in DOMAIN found, NEW m \in seen, Before(m, found[i])
        PROVE  \E k \in 1..(i - 1) : found[k] = m
    BY <1>6, <1>7, <2>1 DEF EarlierFound
  <2> QED BY <1>6, <1>8, <1>9, <2>1 DEF Finds
<1> QED BY <1>10 DEF most

LEMMA GrepIsComplete == Directory(dir) => GrepComplete
<1> DEFINE seen == UNION {{[file |-> f, no |-> n, line |-> Lines(dir[f])[n]] :
                            n \in {n \in DOMAIN Lines(dir[f]) :
                                     /\ Matches(Lines(dir[f])[n])
                                     /\ \A k \in 1..n : Len(Lines(dir[f])[k]) <= MaxLine}} : f \in DOMAIN dir}
<1> SUFFICES ASSUME Directory(dir), NEW max \in 0..(MaxFound + 1)
             PROVE  Finds(Grep(dir, max), seen, Clamp(max, 1, MaxFound))
  BY DEF GrepComplete, Before, Finds
<1>1. seen = UNION {Seen(f, Lines(dir[f])) : f \in DOMAIN dir}
  BY DEF Seen, Match, Short
<1>2. max \in Int
  BY ToolsConstants
<1> HIDE DEF seen
<1> QED BY <1>1, <1>2, GrepFindsFirst

LEMMA FilesInvariant == Spec => [](DOMAIN dir \subseteq Files)
<1>1. Init => DOMAIN dir \subseteq Files
  <2> SUFFICES ASSUME dir \in Dirs PROVE DOMAIN dir \subseteq Files
    BY DEF Init
  <2>1. PICK F \in SUBSET Files : dir \in [F -> Texts(MaxText)]
    BY DEF Dirs
  <2> QED BY <2>1
<1>2. DOMAIN dir \subseteq Files /\ [Next]_vars => (DOMAIN dir \subseteq Files)'
  <2> SUFFICES ASSUME DOMAIN dir \subseteq Files, [Next]_vars PROVE DOMAIN dir' \subseteq Files
    OBVIOUS
  <2>1. ASSUME NEW f \in Files, NEW text, Stored(f, text) PROVE DOMAIN dir' \subseteq Files
    BY <2>1 DEF Stored
  <2>2. CASE Write
    BY <2>1, <2>2 DEF Write
  <2>3. CASE Edit
    BY <2>1, <2>3 DEF Edit
  <2>4. CASE UNCHANGED dir
    BY <2>4
  <2> QED
    BY <2>2, <2>3, <2>4
    DEF Next, StartForLoop, ExecuteBash, ShellStep, Deadline, Begin, Kill, EndOfShell, EndOfSidecar,
        Release, AbortRun, AbortBash, CallCancel, vars
<1> QED BY <1>1, <1>2, PTL DEF Spec

(* Reading page after page shows every line of a file, once and in order; grep reports
   the first matches there are, and all of them when it reports less than it may: for
   any files, texts, pages and limits. *)
THEOREM PagesAndMatchesAreExact == Spec => []PagesAndMatches
<1>1. DOMAIN dir \subseteq Files /\ FilesHoldTexts => PagesAndMatches
  <2> SUFFICES ASSUME DOMAIN dir \subseteq Files, FilesHoldTexts PROVE PagesCover /\ GrepComplete
    BY DEF PagesAndMatches
  <2>1. Directory(dir)
    BY DEF Directory, FilesHoldTexts
  <2> QED BY <2>1, PagesCoverFiles, GrepIsComplete
<1> QED BY <1>1, FilesInvariant, TextsInvariant, PTL
==============================================================================
