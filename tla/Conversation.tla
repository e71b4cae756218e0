---------------------------- MODULE Conversation ----------------------------
(***************************************************************************)
(* What the model gets to see of a session: Branch and BuildContext of     *)
(* internal/session/manager.go, and the operations of                      *)
(* internal/agent/runtime.go that reshape a session: compaction, fork,     *)
(* tree navigation, new session, switch.                                   *)
(*                                                                         *)
(* A message is a number, a summary the set of messages it was made from,  *)
(* and a model one of a few, 0 for none.  Writes succeed here              *)
(* (SessionManager has the faults).  A "state" entry is a model_change with *)
(* the thinking_level_change written after it; a "label" stands for every  *)
(* entry that the model gets nothing of.                                   *)
(*                                                                         *)
(* The actions that hooks answer with are the operations below, in steps   *)
(* of their own: before the operation the hook belongs to, which reads and *)
(* writes the session behind its hooks, or in the middle of a compaction,  *)
(* the one operation that reads the session before them.                   *)
(***************************************************************************)
EXTENDS SessionManager, SequencesExt

CONSTANTS
  MaxMsgs,    \* messages in a behaviour (bounds the model)
  KeepRecent, \* messages a compaction keeps, 8 in the code
  MaxOthers,  \* state and label entries of a session (bounds the model)
  MaxOpen,    \* compactions under way at once (bounds the model)
  Models,     \* models of the registry
  Foreign     \* a model of some session file that the registry does not know

ASSUME ConversationConstants ==
  /\ MaxMsgs \in Nat /\ KeepRecent \in Nat \ {0}
  /\ Foreign \notin Models /\ 0 \notin Models \cup {Foreign}

VARIABLES
  msgs,        \* messages appended so far
  compacting,  \* what each compactContext under way carries over its hook and
               \* provider call, the innermost last
  model,       \* r.model, the model that the next turn asks
  recut,       \* history: compactions that a fork has copied
  astray,      \* history: compactions written where the entry they keep is not
  drifted      \* history: the session moved to where r.model is not looked up

convVars  == <<msgs, compacting, recut, astray>>
modelVars == <<model, drifted>>
allVars   == <<sessionVars, convVars, modelVars>>

Msgs == 1..MaxMsgs
Body(t, m, o, c, v) == [type |-> t, msg |-> m, model |-> o, cut |-> c, covers |-> v]
Message(m, o)    == Body("message", m, o, 0, {})
State(o)         == Body("state", 0, o, 0, {})
Label            == Body("label", 0, 0, 0, {})
Compaction(c, v) == Body("compaction", 0, 0, c, v)
BranchSummary(v) == Body("summary", 0, 0, 0, v)

(* To be given to Bodies. *)
ConversationBodies ==
  [type : {"message", "state", "label", "compaction", "summary"}, msg : 0..MaxMsgs,
   model : {0, Foreign} \cup Models, cut : 0..MaxIds, covers : SUBSET Msgs]

(* The bodies are these, and there are ids for the entries found on disk. *)
ASSUME ConversationBounds == Bodies = ConversationBodies /\ MaxIds >= 2

-----------------------------------------------------------------------------
(* Branch and BuildContext *)

IndexOf(s, id) == IF \E i \in DOMAIN s : s[i].id = id
                  THEN CHOOSE i \in DOMAIN s : s[i].id = id ELSE 0

(* The entries from the root to id; a parent that is not in the session ends
   the walk. *)
BranchIn(s, id) ==
  LET path[i \in 0..Len(s)] ==
        IF i = 0 THEN <<>> ELSE Append(path[IndexOf(s, s[i].parent)], s[i])
  IN path[IndexOf(s, id)]

Branch(id) ==
  BranchIn(entries, IF id # 0 THEN id ELSE IF leaf # 0 \/ entries = <<>> THEN leaf
                                           ELSE entries[Len(entries)].id)

IsMessage(e)    == e.body.type \in {"message", "summary"}
IsCompaction(e) == e.body.type = "compaction"

(* What BuildContext makes of a branch: the summary of its last compaction, then
   the messages from the entry that one kept first, then those after it. *)
LastCompaction(b) ==
  LET at == {i \in DOMAIN b : IsCompaction(b[i])}
  IN IF at = {} THEN 0 ELSE CHOOSE i \in at : \A j \in at : j <= i

ShownAfterCut(b) ==     \* a variant that leaves out the entry to be kept first
  LET c == LastCompaction(b)
  IN {i \in DOMAIN b :
        /\ IsMessage(b[i])
        /\ i < c => \E k \in 1..(i - 1) : b[k].id = b[c].body.cut}

Shown(b) ==
  LET c == LastCompaction(b)
  IN {i \in DOMAIN b :
        /\ IsMessage(b[i])
        /\ i < c => \E k \in 1..i : b[k].id = b[c].body.cut}

ShownMsgs(b) == {b[i].body.msg : i \in Shown(b)} \ {0}
Summarised(b) == IF LastCompaction(b) = 0 THEN {} ELSE b[LastCompaction(b)].body.covers
MsgsOf(b)     == {b[i].body.msg : i \in DOMAIN b} \ {0}

(* The model of a branch: of its last model_change or assistant message. *)
ModelOf(b) ==
  LET named == {i \in DOMAIN b : b[i].body.model # 0}
  IN IF named = {} THEN 0 ELSE b[Max(named)].body.model

-----------------------------------------------------------------------------
Symmetry == Permutations(Files) \cup Permutations(Models)

Add(body) == AppendEntry(body, FALSE) /\ UNCHANGED faults

ConvInit ==
  /\ model \in Models /\ drifted = FALSE
  /\ \E f \in Files, o \in SUBSET {Foreign} : disk = [g \in Files |->
         IF g = f THEN Flushed(<<[id |-> 1, parent |-> 0, body |-> State(model)]>>)
         ELSE IF o = {} THEN Absent
         ELSE Flushed(<<[id |-> 2, parent |-> 0, body |-> State(Foreign)]>>)]
  /\ file \in Files /\ disk[file] # Absent
  /\ disk[file].lines[1].body = State(model)
  /\ entries = disk[file].lines /\ leaf = 1 /\ faults = 0
  /\ nextId = IF \E f \in Files \ {file} : disk[f] # Absent THEN 3 ELSE 2
  /\ msgs = 0 /\ compacting = <<>> /\ recut = {} /\ astray = {}

(* The run loop, or an action of an extension, appends a message; an assistant
   message with the model it came from. *)
AddMessage ==
  /\ msgs < MaxMsgs
  /\ msgs' = msgs + 1
  /\ \/ /\ Add(Message(msgs + 1, 0))
        /\ UNCHANGED modelVars
     \/ /\ Add(Message(msgs + 1, model))
        /\ drifted' = FALSE
        /\ UNCHANGED model
  /\ UNCHANGED <<compacting, recut, astray>>

(* The bound on the entries of a session that no message or summary is in. *)
Roomy ==
  Cardinality({i \in DOMAIN entries : entries[i].body.type \in {"state", "label"}}) < MaxOthers

(* The name of the session is set, an entry labelled, a custom entry added. *)
AddLabel == Roomy /\ Add(Label) /\ UNCHANGED <<convVars, modelVars>>

SetModel(o) ==
  /\ Roomy
  /\ Add(State(o))
  /\ model' = o /\ drifted' = FALSE
  /\ UNCHANGED convVars

(* compactContext: the branch is read, the cut chosen (selectCompactionFirstKeptEntry,
   or by a session_before_compact hook) and the part before it summarised, a
   provider call.  The hook's actions come in between, another compaction too... *)
StartCompaction ==
  LET b      == Branch(leaf)
      like   == {i \in DOMAIN b : IsMessage(b[i])}
      chosen == {b[i].id : i \in {i \in like : Cardinality({j \in like : j >= i}) = KeepRecent}}
  IN
  /\ Len(compacting) < MaxOpen
  /\ Cardinality(like) > KeepRecent
  /\ \E cut \in chosen \cup {b[i].id : i \in DOMAIN b} :
       compacting' = Append(compacting,
         [file |-> file,
          body |-> Compaction(cut, {m \in MsgsOf(b) :
                     \E i \in 1..(IndexOf(b, cut) - 1) : b[i].body.msg = m})])
  /\ UNCHANGED <<sessionVars, msgs, recut, astray, modelVars>>

(* ... and the entry is appended to the leaf of that later moment, in whatever session
   is open then, or hook, provider or write failed. *)
EndCompaction ==
  LET c    == Last(compacting)
      kept == \E i \in DOMAIN Branch(leaf) : Branch(leaf)[i].id = c.body.cut
  IN
  /\ compacting # <<>>
  /\ compacting' = Front(compacting)
  /\ \/ /\ Add(c.body)
        /\ astray' = IF file = c.file /\ kept THEN astray ELSE astray \cup {nextId}
     \/ UNCHANGED <<sessionVars, astray>>
  /\ UNCHANGED <<msgs, recut, modelVars>>

(* navigateTree: the leaf moves to the target; a summary of the branch left
   behind may follow it. *)
Navigate(id) ==
  /\ id # leaf
  /\ \/ SetLeaf(id)
     \/ /\ nextId <= MaxIds
        /\ id \in Known
        /\ LET e == [id |-> nextId, parent |-> id,
                     body |-> BranchSummary(MsgsOf(Branch(leaf)) \ MsgsOf(Branch(id)))]
           IN /\ entries' = Append(entries, e)
              /\ disk' = [disk EXCEPT ![file] = Written(@, e, FALSE)]
        /\ leaf' = nextId /\ nextId' = nextId + 1
        /\ UNCHANGED <<file, faults>>
  /\ drifted' = TRUE
  /\ UNCHANGED <<convVars, model>>

(* syncRuntimeFromSessionState, once the session is another one: its model becomes
   the model of the runtime, unless it names none or one that nobody knows, an
   error the caller gets with the session already switched. *)
SyncFromStart ==     \* a variant that reads the state of the session's beginning
  LET o == IF entries' = <<>> THEN 0 ELSE ModelOf(<<entries'[1]>>)
  IN /\ model' = IF o \in Models THEN o ELSE model
     /\ drifted' = (o = Foreign)

Sync ==
  LET o == ModelOf(BranchIn(entries', leaf'))
  IN /\ model' = IF o \in Models THEN o ELSE model
     /\ drifted' = (o = Foreign)

(* Copies of the given bodies in a new file, each below the one before. *)
CopyInto(f, bodies) ==
  LET copy == [i \in DOMAIN bodies |->
                 [id |-> nextId + i - 1, parent |-> IF i = 1 THEN 0 ELSE nextId + i - 2,
                  body |-> bodies[i]]]
  IN
  /\ disk[f] = Absent
  /\ nextId + Len(bodies) <= MaxIds + 1
  /\ file' = f /\ entries' = copy /\ leaf' = nextId + Len(bodies) - 1
  /\ nextId' = nextId + Len(bodies)
  /\ disk' = [disk EXCEPT ![f] = Flushed(copy)]
  /\ UNCHANGED faults

NewSession(f) ==
  /\ CopyInto(f, <<State(model)>>)
  /\ drifted' = FALSE
  /\ UNCHANGED <<convVars, model>>

(* forkSession: the bodies of the branch are appended to a new session one by
   one, except labels; a state entry follows when the branch had none. *)
Copied(b) ==
  LET upTo[i \in 0..Len(b)] ==
        IF i = 0 THEN <<>>
        ELSE IF b[i].body = Label THEN upTo[i - 1] ELSE Append(upTo[i - 1], b[i].body)
  IN upTo[Len(b)]

Fork(f, id) ==
  LET b      == Branch(id)
      bodies == Copied(b)
  IN
  /\ b # <<>>
  /\ CopyInto(f, IF \E i \in DOMAIN bodies : bodies[i].type = "state" THEN bodies
                 ELSE Append(bodies, State(model)))
  /\ Sync
  /\ recut' = recut \cup {entries'[i].id : i \in {j \in DOMAIN entries' : IsCompaction(entries'[j])}}
  /\ UNCHANGED <<msgs, compacting, astray>>

SwitchSession(f) ==
  /\ Open(f)
  /\ Sync
  /\ UNCHANGED convVars

ConvNext ==
  \/ AddMessage \/ AddLabel \/ StartCompaction \/ EndCompaction
  \/ \E o \in Models : SetModel(o)
  \/ \E id \in Known : Navigate(id)
  \/ \E f \in Files : NewSession(f) \/ SwitchSession(f) \/ \E id \in Known : Fork(f, id)

ConvSpec == ConvInit /\ [][ConvNext]_allVars

-----------------------------------------------------------------------------
(* Properties *)

Lost(b) == MsgsOf(b) \ (ShownMsgs(b) \cup Summarised(b))

(* Nothing of a branch is lost: each message of it is shown to the model or went
   into the summary that is, on every branch a caller could navigate to and whatever
   was done to the session while that summary was made; but for a compaction a fork
   has copied, or that was written to a branch without the entry it keeps first, as
   when an action of its hook has left the session or the branch. *)
NothingLost ==
  \A id \in Known :
    LET b == Branch(id)
        c == LastCompaction(b)
    IN (c # 0 => b[c].id \notin recut \cup astray) => Lost(b) = {}

(* No entry of a session file ever gets another line of ancestors, whatever is
   appended, forked, compacted, left and opened again. *)
BranchesFixed ==
  [][\A f \in {g \in Files : disk'[g] # disk[g]} : \A i \in DOMAIN disk[f].lines :
       BranchIn(disk'[f].lines, disk[f].lines[i].id)
         = BranchIn(disk[f].lines, disk[f].lines[i].id)]_allVars

(* The runtime asks the model that the branch it continues was last told of,
   through compactions, forks and sessions left and opened again; not where
   navigateTree leaves the model alone, nor in a session whose model nobody knows
   until another is chosen or an answer recorded. *)
ModelFollows == ~drifted => ModelOf(Branch(leaf)) \in {0, model}

(* The same of forks of compacted branches, where no compaction went astray: there
   too one is honoured from the entry it keeps first. *)
ForkLosesNothing == astray = {} => \A id \in Known : Lost(Branch(id)) = {}
=============================================================================
