------------------------------ MODULE Extension ------------------------------
(***************************************************************************)
(* Extension actions: what the host does with the actions that extensions  *)
(* answer its events with (applySidecarActions of                          *)
(* internal/agent/runtime.go), and the mirror of the session that          *)
(* main.mjs keeps for extensions from the same events.                     *)
(*                                                                         *)
(* An answer is carried out before the operation that sent the event goes  *)
(* on, and its actions send events of their own: `todo` is the host's call *)
(* stack, the innermost list of steps first.  One goroutine applies        *)
(* actions.  The sidecar serves its requests in order (SidecarHost), so    *)
(* its mirror is given as of the last event it was sent, also when the     *)
(* host has stopped waiting for the answer.                                *)
(*                                                                         *)
(* An entry is known by its place in `log`, whatever its session.  Entries *)
(* that extensions make up for their mirror have ids of their own, which   *)
(* the host does not know: 0.  A "note" is an entry that no event carries: *)
(* model, thinking level, name, label, custom entries and messages.        *)
(* Actions that append nothing (abort, set_active_tools) or only queue a   *)
(* message for the loop (send_user_message) are left out.                  *)
(***************************************************************************)
EXTENDS Integers, Sequences, FiniteSets, SequencesExt

CONSTANTS
  MaxEntries,   \* entries of all sessions (bounds the model)
  MaxSessions,  \* sessions of a behaviour (bounds the model)
  MaxActions    \* actions answered in a behaviour (bounds the model)

ASSUME ExtensionConstants ==
  MaxEntries \in Nat \ {0} /\ MaxSessions \in Nat \ {0} /\ MaxActions \in Nat

VARIABLES
  log,        \* entries of all sessions: [in, parent, type]
  current,    \* the session that is open
  leaf,       \* its leaf
  sessions,   \* sessions created so far
  todo,       \* steps the host has yet to take, the innermost list first
  mirror,     \* the sidecar's state: session, entries it knows, state.leafId
  callbacks,  \* state.compactCallbacks
  asked,      \* history: actions answered so far
  dropped,    \* history: compact requests that never got to the host's loop
  stale,      \* history: a session was opened of which no event told
  crossed     \* history: the last message_end was not that of the leaf

sessionVars == <<log, current, leaf, sessions>>
mirrorVars  == <<mirror, callbacks, crossed>>
histVars    == <<asked, dropped, stale>>
vars        == <<sessionVars, todo, mirrorVars, histVars>>

Step(what, id, req) == [what |-> what, id |-> id, req |-> req]
Plain(what)         == Step(what, 0, 0)

EntriesOf(s) == {i \in DOMAIN log : log[i].in = s}
Top          == todo[1]
At(what)     == todo # <<>> /\ Top # <<>> /\ Top[1].what = what
Rest         == Tail(Top)

(* The host's stack with `steps` in place of the step it is at. *)
Then(steps) == <<steps \o Rest>> \o Tail(todo)

Requests(steps) == {steps[i].req : i \in DOMAIN steps} \ {0}

Init ==
  /\ log = <<[in |-> 1, parent |-> 0, type |-> "note"]>>
  /\ current = 1 /\ leaf = 1 /\ sessions = 1
  /\ todo = <<>>
  /\ mirror = [in |-> 1, known |-> {1}, leaf |-> 1]
  /\ callbacks = {} /\ asked = 0 /\ dropped = {}
  /\ stale = FALSE /\ crossed = FALSE

-----------------------------------------------------------------------------
(* Answers. *)

(* What a handler of an event, and one of a command, may ask for.  The targets it
   names are entries of its mirror, and sessions that may not open. *)
EventActions   == {"message", "note", "state", "compact"}
SessionActions ==
  {Plain("new")} \cup {Step("switch", s, 0) : s \in 0..sessions}
    \cup {Step(what, id, 0) : what \in {"fork", "navigate"}, id \in mirror.known \cup {0}}

Lists(S) == {<<>>} \cup {<<a>> : a \in S} \cup {<<a, b>> : a, b \in S}
Numbered(steps) ==
  [i \in DOMAIN steps |->
     IF steps[i].what = "compact" THEN [steps[i] EXCEPT !.req = asked + i] ELSE steps[i]]

Answers(S) == {Numbered(steps) : steps \in Lists(S)}

(* The answer to an event after which the mirror is m and the requests `called`
   have been called back.  pi.sendMessage, appendEntry, setSessionName and setLabel
   append an entry to the mirror themselves, setModel and setThinkingLevel do not. *)
Answering(m, called, steps) ==
  /\ asked + Len(steps) <= MaxActions
  /\ asked' = asked + Len(steps)
  /\ callbacks' = (callbacks \ called) \cup Requests(steps)
  /\ mirror' = IF \E i \in DOMAIN steps : steps[i].what \in {"message", "note"}
               THEN [m EXCEPT !.leaf = 0] ELSE m

(* emitEventBestEffort: the actions of the answer come next, before the host goes on
   with `stack`.  An answer that takes longer than the host waits is lost with its
   actions. *)
EmitCalling(m, called, stack) ==
  \E steps \in Answers({Plain(what) : what \in EventActions}) :
    /\ Answering(m, called, steps)
    /\ \/ /\ todo' = IF steps = <<>> THEN stack ELSE <<steps>> \o stack
          /\ UNCHANGED dropped
       \/ /\ steps # <<>>
          /\ todo' = stack
          /\ dropped' = dropped \cup Requests(steps)

Emit(m, stack) == EmitCalling(m, {}, stack)

(* An error ends the list of actions it is met in. *)
Fail ==
  /\ todo' = Tail(todo)
  /\ dropped' = dropped \cup Requests(Rest)
  /\ UNCHANGED <<asked, mirror, callbacks>>

-----------------------------------------------------------------------------
(* What starts the host: the run loop has a message, a command is executed, a
   client asks for an operation, with before-hooks. *)
Start ==
  /\ todo = <<>>
  /\ \/ /\ \E first \in {<<Plain("message")>>, <<Plain("state")>>, <<Plain("compact")>>}
                  \cup {<<Plain("before"), op>> :
                          op \in {s \in SessionActions : s.what # "navigate"}} :
             todo' = <<first>>
        /\ UNCHANGED <<asked, mirror, callbacks>>
     \/ \E steps \in Answers({Plain(what) : what \in EventActions} \cup SessionActions) :
          /\ steps # <<>>
          /\ Answering(mirror, {}, steps)
          /\ todo' = <<steps>>
  /\ UNCHANGED <<sessionVars, crossed, dropped, stale>>

(* A list of actions is done. *)
Return ==
  /\ todo # <<>> /\ Top = <<>>
  /\ todo' = Tail(todo)
  /\ UNCHANGED <<sessionVars, mirrorVars, histVars>>

AppendTo(s, below, types) ==
  /\ Len(log) + Len(types) <= MaxEntries
  /\ log' = log \o [i \in DOMAIN types |->
       [in |-> s, parent |-> IF i = 1 THEN below ELSE Len(log) + i - 1, type |-> types[i]]]
  /\ leaf' = Len(log) + Len(types)

Known(m, id) == [m EXCEPT !.known = @ \cup {id}, !.leaf = id]

(* appendSessionMessageWithEvents: message_start, then the entry, then for an
   assistant message message_update, then message_end, of that entry whatever was
   appended behind it in between. *)
MessageStart ==
  /\ At("message")
  /\ Emit(mirror, Then(<<Plain("append")>>))
  /\ UNCHANGED <<sessionVars, crossed, stale>>

MessageAppend ==
  /\ At("append")
  /\ AppendTo(current, leaf, <<"message">>)
  /\ \/ Emit(mirror, Then(<<Step("ended", leaf', 0)>>))
     \/ /\ todo' = Then(<<Step("ended", leaf', 0)>>)
        /\ UNCHANGED <<asked, dropped, mirror, callbacks>>
  /\ UNCHANGED <<current, sessions, crossed, stale>>

MessageEnd ==
  /\ At("ended")
  /\ Emit(Known(mirror, Top[1].id), Then(<<>>))
  /\ crossed' = (Top[1].id # leaf)
  /\ UNCHANGED <<sessionVars, stale>>

Note ==
  /\ At("note") \/ At("state")
  /\ AppendTo(current, leaf, <<"note">>)
  /\ todo' = Then(<<>>)
  /\ UNCHANGED <<current, sessions, mirrorVars, histVars>>

(* A before-hook: the operation behind it goes ahead, or is cancelled. *)
Before ==
  /\ At("before")
  /\ Emit(mirror, Then(<<>>)) \/ Emit(mirror, <<Tail(Rest)>> \o Tail(todo))
  /\ UNCHANGED <<sessionVars, crossed, stale>>

-----------------------------------------------------------------------------
(* Compaction *)

CompactSilently ==     \* a variant that refuses a short session without an event
  /\ At("compact")
  /\ \/ Emit(mirror, Then(<<Step("refused", 0, Top[1].req)>>))
     \/ Emit(mirror, Then(<<Step("summarised", 0, Top[1].req)>>))
     \/ todo' = Then(<<>>) /\ UNCHANGED <<asked, dropped, mirror, callbacks>>
  /\ UNCHANGED <<sessionVars, crossed, stale>>

(* compactContext: too little to compact, or session_before_compact is sent; then it
   is cancelled, the provider fails, or there is a summary. *)
Compact ==
  /\ At("compact")
  /\ \/ Emit(mirror, Then(<<Step("refused", 0, Top[1].req)>>))
     \/ Emit(mirror, Then(<<Step("summarised", 0, Top[1].req)>>))
     \/ /\ todo' = Then(<<Step("refused", 0, Top[1].req)>>)
        /\ UNCHANGED <<asked, dropped, mirror, callbacks>>
  /\ UNCHANGED <<sessionVars, crossed, stale>>

(* The entry is appended to the leaf of that moment, after the provider call, and
   session_compact sent ... *)
Summarised ==
  /\ At("summarised")
  /\ AppendTo(current, leaf, <<"compaction">>)
  /\ EmitCalling(Known(mirror, leaf'), {Top[1].req}, Then(<<>>))
  /\ crossed' = FALSE
  /\ UNCHANGED <<current, sessions, stale>>

(* ... or session_compact_error.  Either calls the callbacks of the request. *)
Refused ==
  /\ At("refused")
  /\ EmitCalling(mirror, {Top[1].req}, Then(<<>>))
  /\ UNCHANGED <<sessionVars, crossed, stale>>

-----------------------------------------------------------------------------
(* Session operations *)

(* The entries from the root to id. *)
BranchOf(id) ==
  LET path[i \in 0..Len(log)] == IF i = 0 THEN <<>> ELSE Append(path[log[i].parent], i)
  IN path[id]

(* A fresh session with entries of these types, which the runtime may fail to take
   its model from. *)
Create(types) ==
  /\ sessions < MaxSessions
  /\ sessions' = sessions + 1 /\ current' = sessions + 1
  /\ AppendTo(sessions + 1, 0, types)

AnnounceSwitchOnly ==     \* a variant without session_start
  \/ Emit(mirror, Then(<<>>)) /\ UNCHANGED stale
  \/ Fail /\ stale' = TRUE

(* The session is open: session_switch or session_fork, then session_start; or
   syncRuntimeFromSessionState has failed, and neither. *)
Announce ==
  \/ Emit(mirror, Then(<<Plain("started")>>)) /\ UNCHANGED stale
  \/ Fail /\ stale' = TRUE

New ==
  /\ At("new")
  /\ \/ /\ Create(<<"note">>)
        /\ Emit(mirror, Then(<<Plain("started")>>))
        /\ UNCHANGED stale
     \/ Create(<<"note", "message">>) /\ Announce     \* with setup entries
  /\ UNCHANGED crossed

Switch ==
  /\ At("switch")
  /\ LET s == Top[1].id
     IN \/ /\ s # 0
           /\ current' = s /\ leaf' = Max(EntriesOf(s))
           /\ Announce
        \/ /\ s = 0 /\ Fail
           /\ UNCHANGED <<current, leaf, stale>>
  /\ UNCHANGED <<log, sessions, crossed>>

(* The branch is copied: every session begins with a note, its model. *)
Fork ==
  /\ At("fork")
  /\ LET id     == Top[1].id
         copied == [i \in DOMAIN BranchOf(id) |-> log[BranchOf(id)[i]].type]
     IN \/ /\ id \in EntriesOf(current)
           /\ Create(copied)
           /\ Announce
        \/ /\ id \notin EntriesOf(current) /\ Fail
           /\ UNCHANGED <<sessionVars, stale>>
  /\ UNCHANGED crossed

(* SetLeaf, and a summary of what was left, when the caller has one, then
   session_tree. *)
Navigate ==
  /\ At("navigate")
  /\ LET id == Top[1].id
     IN \/ /\ id = leaf /\ todo' = Then(<<>>)
           /\ UNCHANGED <<log, leaf, mirrorVars, asked, dropped>>
        \/ /\ id \notin EntriesOf(current) /\ Fail
           /\ UNCHANGED <<log, leaf, crossed>>
        \/ /\ id \in EntriesOf(current) \ {leaf}
           /\ \/ leaf' = id /\ Emit([mirror EXCEPT !.leaf = id], Then(<<>>)) /\ UNCHANGED log
              \/ AppendTo(current, id, <<"summary">>) /\ Emit(Known(mirror, leaf'), Then(<<>>))
           /\ crossed' = FALSE
  /\ UNCHANGED <<current, sessions, stale>>

(* emitSessionStartEvent: the mirror starts anew.  Actions of the answer are not
   looked at, and a late answer is an error. *)
Started ==
  /\ At("started")
  /\ LET m == [in |-> current, known |-> EntriesOf(current), leaf |-> leaf]
     IN \E steps \in Answers({Plain(what) : what \in EventActions}) :
          /\ Answering(m, {}, steps)
          /\ \/ /\ todo' = Then(<<>>)
                /\ dropped' = dropped \cup Requests(steps)
             \/ /\ todo' = Tail(todo)
                /\ dropped' = dropped \cup Requests(steps) \cup Requests(Rest)
  /\ stale' = FALSE /\ crossed' = FALSE
  /\ UNCHANGED sessionVars

-----------------------------------------------------------------------------
Next ==
  \/ Start \/ Return
  \/ MessageStart \/ MessageAppend \/ MessageEnd \/ Note \/ Before
  \/ Compact \/ Summarised \/ Refused
  \/ New \/ Switch \/ Fork \/ Navigate \/ Started

Spec == Init /\ [][Next]_vars

-----------------------------------------------------------------------------
(* Properties *)

Mirrored == {i \in EntriesOf(current) : log[i].type # "note"}

(* When the host is done the mirror is of the session that is open: it has all
   messages, summaries and compactions of it and no entry of another session, and
   extensions see the host's leaf, however actions and operations were nested.  The
   leaf is not claimed where the mirror stands at an entry made up by an extension,
   or at a message overtaken by one that its own message_update led to, and nothing
   is where the switch to a session failed after it was opened. *)
MirrorFollows ==
  todo = <<>> /\ ~stale =>
    /\ mirror.in = current
    /\ Mirrored \subseteq mirror.known /\ mirror.known \subseteq EntriesOf(current)
    /\ leaf \in Mirrored /\ mirror.leaf # 0 /\ ~crossed => mirror.leaf = leaf

(* When the host is done each ctx.compact call has had onComplete or onError, unless
   the action never got its turn: it was in an answer that came late or to
   session_start, or behind an action that failed. *)
CallbacksCalled == todo = <<>> => callbacks \subseteq dropped
=============================================================================
