-------------------------------- MODULE Tools --------------------------------
(***************************************************************************)
(* The tools (internal/tools), called by the run loop, and the shell       *)
(* command of the bash request (Runtime.ExecuteBash, AbortBash), which any *)
(* caller may start and abort beside the loop.                             *)
(*                                                                         *)
(* File tools work on a directory of numbered files, walked in the order   *)
(* of their numbers; a text is a sequence of letters and line ends, and    *)
(* grep looks for the letter "a".  Paths that point elsewhere are left     *)
(* out, and so is what commands do to files: commands are started in an    *)
(* empty directory only, which bounds the model.                           *)
(*                                                                         *)
(* A command is a shell and what it leaves in the background; a child of   *)
(* it keeps the pipes open that the output comes through.                  *)
(***************************************************************************)
EXTENDS Integers, Sequences, FiniteSets, SequencesExt

CONSTANTS
  Files,        \* files there may be (bounds the model)
  Letters,      \* of a text, without the line end
  MaxText,      \* length of all texts together (bounds the model)
  MaxPage,      \* lines read shows at most, 2000 in the code
  MaxFound,     \* lines grep reports at most, 5000 in the code
  MaxLine,      \* longest line a scanner takes, 64 KiB in the code
  MaxCommands   \* commands started in a behaviour (bounds the model)

ASSUME ToolsConstants ==
  /\ Files \subseteq Nat /\ IsFiniteSet(Files)
  /\ "a" \in Letters /\ "nl" \notin Letters
  /\ {MaxText, MaxCommands} \subseteq Nat
  /\ {MaxPage, MaxFound, MaxLine} \subseteq Nat \ {0}

VARIABLES
  dir,        \* the files there are and their texts
  shadowed,   \* an extension has registered a tool named bash
  commands,   \* the commands started so far
  abortBash,  \* r.abortBash: the command its cancel function belongs to, 0 for nil
  held,       \* the command whose cancel function AbortBash is about to call
  aimed       \* history: commands that were under way when an abort came in

vars == <<dir, shadowed, commands, abortBash, held, aimed>>
shellVars == <<commands, abortBash, held, aimed>>

-----------------------------------------------------------------------------
(* Texts *)

Texts(n) == UNION {[1..l -> Letters \cup {"nl"}] : l \in 0..n}

Size(d) == MapThenSumSet(LAMBDA f : Len(d[f]), DOMAIN d)
Dirs    == {d \in UNION {[F -> Texts(MaxText)] : F \in SUBSET Files} : Size(d) <= MaxText}

(* strings.Split at the line ends *)
Lines(text) ==
  LET made[i \in 0..Len(text)] ==
        IF i = 0 THEN << <<>> >>
        ELSE IF text[i] = "nl" THEN Append(made[i - 1], <<>>)
        ELSE [made[i - 1] EXCEPT ![Len(made[i - 1])] = Append(@, text[i])]
  IN made[Len(text)]

Clamp(v, low, high) == IF v < low THEN low ELSE IF v > high THEN high ELSE v
Least(m, n)         == IF m < n THEN m ELSE n

-----------------------------------------------------------------------------
(* read *)

Refused == [lines |-> <<>>, next |-> -1]

(* The lines from offset on, and where the tool says that reading goes on. *)
Page(text, offset, limit) ==
  LET ls    == Lines(text)
      start == Clamp(offset, 1, offset + 1) - 1
      end   == Least(start + Clamp(limit, 1, MaxPage), Len(ls))
  IN IF start >= Len(ls) THEN Refused
     ELSE [lines |-> SubSeq(ls, start + 1, end),
           next  |-> IF end < Len(ls) THEN end + 1 ELSE 0]

-----------------------------------------------------------------------------
(* grep, find and ls *)

(* bufio.Scanner: nothing behind the last line end is no line, and the file ends
   for it where a line is too long. *)
Scanned(text) ==
  LET ls   == Lines(text)
      full == IF Last(ls) = <<>> THEN Front(ls) ELSE ls
      long == {i \in DOMAIN full : Len(full[i]) > MaxLine}
  IN IF long = {} THEN full ELSE SubSeq(full, 1, Min(long) - 1)

Matches(line) == "a" \in Range(line)

(* In the order of their numbers: lines as they are scanned, files as they are walked. *)
Ascending(S) ==
  CHOOSE s \in [1..Cardinality(S) -> S] : \A i, j \in DOMAIN s : i < j => s[i] < s[j]

FoundIn(f, text) ==
  LET ls   == Scanned(text)
      hits == Ascending({n \in DOMAIN ls : Matches(ls[n])})
  IN [i \in DOMAIN hits |-> [file |-> f, no |-> hits[i], line |-> ls[hits[i]]]]

Listing(d) == Ascending(DOMAIN d)   \* find with a pattern for all files, ls

GrepPerFile(d, max) ==
  LET most  == Clamp(max, 1, MaxFound)
      files == Listing(d)
      found[i \in 0..Len(files)] ==
        IF i = 0 THEN <<>>
        ELSE LET new == FoundIn(files[i], d[files[i]])
             IN found[i - 1] \o SubSeq(new, 1, Least(Len(new), most))
  IN found[Len(files)]

Grep(d, max) ==
  LET most  == Clamp(max, 1, MaxFound)
      files == Listing(d)
      found[i \in 0..Len(files)] ==
        IF i = 0 THEN <<>>
        ELSE LET new == FoundIn(files[i], d[files[i]])
             IN found[i - 1] \o SubSeq(new, 1, Least(Len(new), most - Len(found[i - 1])))
  IN found[Len(files)]

-----------------------------------------------------------------------------
(* edit and write *)

Occurs(old, text, i) == SubSeq(text, i, i + Len(old) - 1) = old

Places(old, text) == {i \in 1..(Len(text) - Len(old) + 1) : Occurs(old, text, i)}

(* strings.Count: from left to right, behind each other. *)
Count(old, text) ==
  LET last == Len(text) - Len(old) + 1
      from[i \in 1..(Len(text) + Len(old) + 1)] ==
        IF i > last THEN 0
        ELSE IF Occurs(old, text, i) THEN 1 + from[i + Len(old)] ELSE from[i + 1]
  IN from[1]

EditableAnywhere(old, new, text) == old # new /\ Count(old, text) > 0

Editable(old, new, text) == old # new /\ Count(old, text) = 1

Edited(old, new, text) ==
  LET i == Min(Places(old, text))
  IN SubSeq(text, 1, i - 1) \o new \o SubSeq(text, i + Len(old), Len(text))

Idle == commands = <<>>   \* bounds the model

(* os.WriteFile: a write that fails leaves a part of the text, or nothing. *)
Stored(f, text) ==
  \E n \in 0..Len(text) :
    dir' = [g \in DOMAIN dir \cup {f} |-> IF g = f THEN SubSeq(text, 1, n) ELSE dir[g]]

Write ==
  /\ Idle
  /\ \E f \in Files, text \in Texts(MaxText) : Stored(f, text) /\ Size(dir') <= MaxText
  /\ UNCHANGED <<shadowed, shellVars>>

Edit ==
  /\ Idle
  /\ \E f \in DOMAIN dir, old \in Texts(2) \ {<<>>}, new \in Texts(1) :
       /\ Editable(old, new, dir[f])
       /\ Stored(f, Edited(old, new, dir[f])) /\ Size(dir') <= MaxText
  /\ UNCHANGED <<shadowed, shellVars>>
-----------------------------------------------------------------------------
(* Commands.  A command belongs to the run loop, under the context of the run and maybe
   with a timeout, or to a bash request.  Its shell ends with code 0 or 1, is killed, or
   ends with code 0 in spite of the kill. *)

Numbers     == 1..Len(commands)
UnderWay(n) == n \in Numbers /\ commands[n].at \in {"starting", "running"}
Set(n, c)   == commands' = [commands EXCEPT ![n] = c]

NoReply == [error |-> FALSE, text |-> FALSE, code |-> 0, cancelled |-> FALSE]

(* Registry.Execute: a tool that is registered by an extension is executed there. *)
Executor == IF shadowed THEN "sidecar" ELSE "shell"

Command(owner, timed) ==
  [by |-> owner, in |-> Executor, timed |-> timed, at |-> "starting",
   shell |-> "off", child |-> FALSE, ctx |-> "live", reply |-> NoReply]

StartForLoop ==
  /\ Len(commands) < MaxCommands /\ dir = <<>>
  /\ \A n \in Numbers : commands[n].by = "loop" => ~UnderWay(n)
  /\ \E timed \in BOOLEAN : commands' = Append(commands, Command("loop", timed))
  /\ UNCHANGED <<dir, shadowed, abortBash, held, aimed>>

(* ExecuteBash, up to the call of the tool.  While a command is registered a second
   one is refused, which changes nothing. *)
ExecuteBash ==
  /\ Len(commands) < MaxCommands /\ dir = <<>>
  /\ abortBash = 0
  /\ commands' = Append(commands, Command("request", FALSE))
  /\ abortBash' = Len(commands) + 1
  /\ UNCHANGED <<dir, shadowed, held, aimed>>

(* BashTool.Execute; a cancelled context ends it before there is a shell. *)
Begin(n) ==
  LET c == commands[n]
  IN /\ c.at = "starting"
     /\ Set(n, IF c.ctx = "live" THEN [c EXCEPT !.at = "running", !.shell = "on"]
               ELSE [c EXCEPT !.at = "done", !.reply = [NoReply EXCEPT !.error = TRUE]])
     /\ UNCHANGED <<dir, shadowed, abortBash, held, aimed>>

Running(n) == n \in Numbers /\ commands[n].at = "running"
ShellOn(n) == Running(n) /\ commands[n].in = "shell" /\ commands[n].shell = "on"

ShellStep ==
  /\ \E n \in Numbers :
       \/ ShellOn(n) /\ Set(n, [commands[n] EXCEPT !.child = TRUE])
       \/ ShellOn(n) /\ \E code \in {"zero", "one"} : Set(n, [commands[n] EXCEPT !.shell = code])
       \/ Running(n) /\ commands[n].child /\ Set(n, [commands[n] EXCEPT !.child = FALSE])
  /\ UNCHANGED <<dir, shadowed, abortBash, held, aimed>>

KillTimed(n) ==
  /\ ShellOn(n) /\ commands[n].ctx = "deadline"
  /\ Set(n, [commands[n] EXCEPT !.shell = "killed"])
  /\ UNCHANGED <<dir, shadowed, abortBash, held, aimed>>

(* Only the shell is killed, not what it has started. *)
Kill(n) ==
  /\ ShellOn(n) /\ commands[n].ctx # "live"
  /\ \E end \in {"killed", "late"} : Set(n, [commands[n] EXCEPT !.shell = end])
  /\ UNCHANGED <<dir, shadowed, abortBash, held, aimed>>

Deadline ==
  /\ \E n \in Numbers :
       /\ Running(n) /\ commands[n].in = "shell" /\ commands[n].timed /\ commands[n].ctx = "live"
       /\ Set(n, [commands[n] EXCEPT !.ctx = "deadline"])
  /\ UNCHANGED <<dir, shadowed, abortBash, held, aimed>>

(* The result of cmd.Run, which also waits for the pipes, and of the context then. *)
ShellReplyByExit(c) ==
  [error     |-> c.shell # "zero",
   text      |-> TRUE,
   code      |-> CASE c.shell = "zero" -> 0 [] c.shell = "one" -> 1 [] OTHER -> -1,
   cancelled |-> FALSE]

ShellReply(c) ==
  [error     |-> c.shell # "zero" \/ c.ctx = "deadline",
   text      |-> TRUE,
   code      |-> CASE c.shell = "zero" -> IF c.ctx = "deadline" THEN 124 ELSE 0
                   [] c.shell = "one"    -> 1
                   [] c.shell = "killed" -> -1
                   [] c.shell = "late"   -> IF c.ctx = "cancelled" THEN 130 ELSE 1,
   cancelled |-> c.ctx = "deadline" \/ (c.shell = "late" /\ c.ctx = "cancelled")]

EndOfShell(n) ==
  LET c == commands[n]
  IN /\ Running(n) /\ c.in = "shell" /\ c.shell # "on" /\ ~c.child
     /\ Set(n, [c EXCEPT !.at = "done", !.reply = ShellReply(c)])
     /\ UNCHANGED <<dir, shadowed, abortBash, held, aimed>>

(* The sidecar answers, with an error or not, or the call is given up. *)
EndOfSidecar(n) ==
  LET c == commands[n]
  IN /\ Running(n) /\ c.in = "sidecar"
     /\ Set(n, [c EXCEPT !.at = "done",
                        !.reply = [NoReply EXCEPT !.error = TRUE, !.text = c.ctx = "live"]])
        \/ Set(n, [c EXCEPT !.at = "done", !.reply = [NoReply EXCEPT !.text = TRUE]])
     /\ UNCHANGED <<dir, shadowed, abortBash, held, aimed>>

(* The deferred end of ExecuteBash. *)
Release(n) ==
  /\ commands[n].at = "done" /\ commands[n].by = "request"
  /\ abortBash' = 0
  /\ Set(n, [commands[n] EXCEPT !.at = "released"])
  /\ UNCHANGED <<dir, shadowed, held, aimed>>

-----------------------------------------------------------------------------
(* Aborts *)

Cancelled(n) == [commands[n] EXCEPT !.ctx = IF @ = "live" THEN "cancelled" ELSE @]

(* Abort of the run, see AgentLoop. *)
AbortRun ==
  /\ \E n \in Numbers : commands[n].by = "loop" /\ UnderWay(n) /\ Set(n, Cancelled(n))
  /\ UNCHANGED <<dir, shadowed, abortBash, held, aimed>>

(* AbortBash takes the cancel function under the lock and calls it behind it. *)
AbortBash ==
  /\ held = 0 /\ abortBash # 0
  /\ held' = abortBash
  /\ aimed' = aimed \cup {n \in Numbers : commands[n].by = "request" /\ commands[n].at # "released"}
  /\ UNCHANGED <<dir, shadowed, commands, abortBash>>

CallCancelNow ==
  /\ held # 0 /\ held' = 0
  /\ IF abortBash # 0 THEN Set(abortBash, Cancelled(abortBash)) ELSE UNCHANGED commands
  /\ UNCHANGED <<dir, shadowed, abortBash, aimed>>

CallCancel ==
  /\ held # 0 /\ held' = 0
  /\ IF UnderWay(held) THEN Set(held, Cancelled(held)) ELSE UNCHANGED commands
  /\ UNCHANGED <<dir, shadowed, abortBash, aimed>>

(* What the client of a bash request is told. *)
Told(r) ==
  IF r.error /\ ~r.text THEN [ok |-> FALSE, code |-> 0]
  ELSE [ok   |-> TRUE,
        code |-> IF r.code # 0 THEN r.code
                 ELSE IF r.cancelled THEN 130 ELSE IF r.error THEN 1 ELSE 0]

-----------------------------------------------------------------------------
Init ==
  /\ dir \in Dirs /\ shadowed \in BOOLEAN
  /\ commands = <<>> /\ abortBash = 0 /\ held = 0 /\ aimed = {}

Next ==
  \/ Write \/ Edit
  \/ StartForLoop \/ ExecuteBash
  \/ ShellStep \/ Deadline
  \/ \E n \in Numbers : Begin(n) \/ Kill(n) \/ EndOfShell(n) \/ EndOfSidecar(n) \/ Release(n)
  \/ AbortRun \/ AbortBash \/ CallCancel

(* The goroutines of the process are scheduled.  Nothing makes a shell, its children or
   the sidecar end by themselves. *)
Fairness ==
  /\ \A n \in 1..MaxCommands :
       /\ WF_vars(n \in Numbers /\ (Begin(n) \/ Kill(n) \/ EndOfShell(n)))
       /\ WF_vars(n \in Numbers /\ commands[n].ctx # "live" /\ EndOfSidecar(n))
       /\ WF_vars(n \in Numbers /\ Release(n))
  /\ WF_vars(CallCancel)

Spec == Init /\ [][Next]_vars /\ Fairness

-----------------------------------------------------------------------------
(* Properties *)

(* Reading on where read says it goes on, from the start and with any limit, shows
   every line of the file, once and in order. *)
PagesCover ==
  \A f \in DOMAIN dir, limit \in -1..(MaxPage + 1) :
      LET all == Lines(dir[f])
          readOn[offset \in 1..Len(all)] ==
            LET page == Page(dir[f], offset, limit)
            IN page.lines \o (IF page.next \in DOMAIN all THEN readOn[page.next] ELSE <<>>)
      IN readOn[1] = all

(* grep reports the first matches there are, in order, and all of them when it reports
   less than it may; only what stands behind a line that is too long is missed.  Read
   shows each of them at the number grep gives. *)
GrepComplete ==
  \A max \in 0..(MaxFound + 1) :
      LET found == Grep(dir, max)
          short(f, n) == \A k \in 1..n : Len(Lines(dir[f])[k]) <= MaxLine
          seen == UNION {{[file |-> f, no |-> n, line |-> Lines(dir[f])[n]] :
                            n \in {n \in DOMAIN Lines(dir[f]) :
                                     Matches(Lines(dir[f])[n]) /\ short(f, n)}} : f \in DOMAIN dir}
          before(m, n) == m.file < n.file \/ (m.file = n.file /\ m.no < n.no)
      IN /\ Range(found) \subseteq seen
         /\ Len(found) = Least(Clamp(max, 1, MaxFound), Cardinality(seen))
         /\ \A i \in DOMAIN found :
              /\ \A m \in seen : before(m, found[i]) => \E k \in 1..(i - 1) : found[k] = m
              /\ Page(dir[found[i].file], found[i].no, 1).lines = <<found[i].line>>

(* What read and grep say can be relied on: read says where it goes on, and the matches
   grep reports are the first ones, all of them when they are fewer than the limit.  grep
   does not tell the model that it stopped, neither at its limit (Details only) nor at a
   line that is too long for it. *)
PagesAndMatches == commands = <<>> => PagesCover /\ GrepComplete

(* edit takes an old text for unique exactly when it is at one place of the file, or at
   places each of which overlaps each other, where edit.go:63 would have one place. *)
UniqueUpToOverlap ==
  commands = <<>> =>
    \A f \in DOMAIN dir, old \in Texts(2) \ {<<>>} :
      LET places == Places(old, dir[f])
      IN Editable(old, <<>>, dir[f]) <=>
           /\ places # {}
           /\ \A i, j \in places : i < j => j < i + Len(old)

(* Neither the model nor the client of a bash request takes a command for successful whose
   shell failed, was killed or ran out of its time, or the other way round. *)
NoFalseSuccess ==
  \A n \in Numbers :
    LET c    == commands[n]
        well == c.shell = "zero" /\ c.ctx # "deadline"
    IN ~UnderWay(n) /\ c.in = "shell" =>
         /\ c.reply.error <=> ~well
         /\ Told(c.reply) = [ok |-> TRUE, code |-> 0] <=> well

(* While a bash request is served, its command is the one that can be aborted, so there
   is never a second one; and an abort that comes in while one command ends does not
   cancel the next. *)
AbortMeetsItsCommand ==
  \A n \in Numbers : commands[n].by = "request" =>
    /\ commands[n].at # "released" => abortBash = n
    /\ commands[n].ctx = "cancelled" => n \in aimed

(* A command that was aborted or has run out of its time ends: unless something it has
   started in the background keeps its pipes open, which nothing ends. *)
CancelledEnds ==
  \A n \in 1..MaxCommands :
    (Running(n) /\ commands[n].ctx # "live")
      ~> (~UnderWay(n) \/ commands[n].child)
=============================================================================
