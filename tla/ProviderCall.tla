---------------------------- MODULE ProviderCall ----------------------------
(***************************************************************************)
(* A call of a provider (internal/providers, called by the run loop): the  *)
(* key is got twice, to build the adapter and for the request; the request *)
(* goes to an endpoint, for Antigravity to a second one when the first     *)
(* does not serve it; the answer is one JSON document, or a stream.  Codex *)
(* streams say everything again in their last event, which alone counts;   *)
(* what Cloud Code Assist streams is collected as it comes.  The keys come *)
(* from Credentials, whose refreshes, faults and kills go on meanwhile.    *)
(*                                                                         *)
(* Between calls the run loop does other things (AgentLoop) or calls again *)
(* after a failure.  The parts of an answer are text and tool calls.       *)
(***************************************************************************)
EXTENDS Credentials, Sequences

CONSTANTS
  Assists,    \* providers behind Cloud Code Assist
  Codex,      \* providers of the Codex API
  TwoServers, \* those with a second endpoint
  Keyless,    \* those that may do without a key
  MaxParts    \* parts of an answer (bounds the model)

ASSUME ProviderCallConstants ==
  /\ Assists \subseteq Providers /\ Codex \subseteq Providers \ Assists
  /\ TwoServers \subseteq Assists /\ Keyless \subseteq Providers \ (Assists \cup Codex)
  /\ MaxParts \in Nat

VARIABLE call

vars == <<auth, call>>

NoCall == [step |-> "off", provider |-> CHOOSE p \in Providers : TRUE, built |-> NoKey, used |-> NoKey,
           server |-> 1, made |-> <<>>, seen |-> <<>>, skipped |-> FALSE, finished |-> FALSE,
           stop |-> "none", cancelled |-> FALSE]

Init == AuthInit /\ call = NoCall

Is(s)   == call.step = s
P       == call.provider
Over(o) == call' = [call EXCEPT !.step = o]

-----------------------------------------------------------------------------
(* currentProvider, and the options of the request. *)

Begin ==
  /\ Is("off") \/ Is("answer") \/ Is("failed") \/ Is("aborted")
  /\ \E p \in Providers :
       GetAPIKey(p) /\ call' = [NoCall EXCEPT !.step = "building", !.provider = p]

Build ==
  /\ up /\ Is("building") /\ pc = "idle"
  /\ \/ key.from = "none" /\ P \notin Keyless /\ Over("failed") /\ UNCHANGED auth
     \/ /\ key.from # "none" \/ P \in Keyless
        /\ \E p \in Providers : p = P /\ GetAPIKey(p)
        /\ call' = [call EXCEPT !.step = "asking", !.built = key]

(* resolveAPIKey *)
ResolveBuiltFirst(options, built) == IF built.from # "none" THEN built ELSE options
ResolveAPIKey(options, built)     == IF options.from # "none" THEN options ELSE built

(* Codex needs the account its token names, Cloud Code Assist a project: a key that is not
   from the login may lack them, and no key lacks them for sure. *)
NoAccount(k) == P \in Codex /\ k.from # "login"
NoProject(k) == P \in Assists /\ k.from # "login"

Prepare ==
  /\ up /\ Is("asking") /\ pc = "idle"
  /\ LET used == ResolveAPIKey(key, call.built)
         unfit == NoAccount(used) \/ NoProject(used)
     IN \/ unfit /\ call' = [call EXCEPT !.step = "failed", !.used = used]
        \/ /\ unfit => used.from # "none"
           /\ call' = [call EXCEPT !.step = "sending", !.used = used]
  /\ UNCHANGED auth

(* httpClient.Do with the context of the run: it fails at once when that is cancelled. *)
Accepted ==
  /\ Is("sending") /\ ~call.cancelled
  /\ call' = [call EXCEPT !.step = "reading"]
  /\ UNCHANGED auth

(* The endpoints in turns. *)
NotServedRound ==
  /\ Is("sending")
  /\ IF P \in TwoServers
     THEN call' = [call EXCEPT !.server = 3 - @]
     ELSE Over(IF call.cancelled THEN "aborted" ELSE "failed")
  /\ UNCHANGED auth

(* An error of the connection, a status of 300 or more, the 120 seconds, or the end of the context. *)
NotServed ==
  /\ Is("sending")
  /\ IF P \in TwoServers /\ call.server = 1
     THEN call' = [call EXCEPT !.server = 2]
     ELSE Over(IF call.cancelled THEN "aborted" ELSE "failed")
  /\ UNCHANGED auth

-----------------------------------------------------------------------------
(* The answer. *)

(* A part; one of Cloud Code Assist is in a chunk, and kept if that parses. *)
Produce ==
  /\ Is("reading") /\ ~call.finished /\ Len(call.made) < MaxParts
  /\ \E part \in {"text", "call"}, parses \in BOOLEAN :
       call' = [call EXCEPT !.made = Append(@, part),
                            !.seen = IF P \in Assists /\ parses THEN Append(@, part) ELSE @,
                            !.skipped = @ \/ (P \in Assists /\ ~parses)]
  /\ UNCHANGED auth

HasCalls(parts) == \E i \in DOMAIN parts : parts[i] = "call"

StopFor(parts) == IF HasCalls(parts) THEN "toolUse" ELSE "stop"

(* The provider says that it has finished: the chunk with a finish reason (if it parses),
   the event response.completed, the end of the document. *)
Finish ==
  /\ Is("reading") /\ ~call.finished
  /\ call' = [call EXCEPT !.finished = TRUE,
                          !.seen = IF P \in Assists THEN @ ELSE call.made,
                          !.stop = StopFor(IF P \in Assists THEN call.seen ELSE call.made)]
  /\ UNCHANGED auth

EndTaken ==
  /\ Is("reading")
  /\ IF call.seen = <<>> /\ P \in Assists
     THEN Over("failed")
     ELSE call' = [call EXCEPT !.step = "answer", !.stop = StopFor(call.seen)]
  /\ UNCHANGED auth

(* End of input: what is taken for an answer.  A document has to be whole to parse, a
   Codex stream must have said that it has finished, Cloud Code Assist is taken to have.
   An answer with nothing in it is one for a document only. *)
DocumentTaken == call.finished
CodexTaken    == call.finished /\ call.seen # <<>>
AssistTaken   == call.seen # <<>>

EndOfInput ==
  /\ Is("reading")
  /\ IF CASE P \in Assists -> AssistTaken [] P \in Codex -> CodexTaken [] OTHER -> DocumentTaken
     THEN call' = [call EXCEPT !.step = "answer", !.stop = StopFor(call.seen)]
     ELSE Over("failed")
  /\ UNCHANGED auth

(* The connection breaks, the 120 seconds are over, or the run is cancelled. *)
ReadFails ==
  /\ Is("reading")
  /\ Over(IF call.cancelled THEN "aborted" ELSE "failed")
  /\ UNCHANGED auth

Cancel ==
  /\ call.step \in {"building", "asking", "sending", "reading"} /\ ~call.cancelled
  /\ call' = [call EXCEPT !.cancelled = TRUE]
  /\ UNCHANGED auth

-----------------------------------------------------------------------------
Ask  == Begin \/ Build \/ Prepare \/ Accepted \/ NotServed
Read == Produce \/ Finish \/ EndOfInput \/ ReadFails

Background == Refresh \/ KeepLogin \/ BeginLook \/ EndLook \/ Start \/ \E p \in Providers : Expire(p)

Next ==
  \/ Ask \/ Read \/ Cancel
  \/ Background /\ UNCHANGED call
  \/ (Kill \/ RaceKills) /\ call' = NoCall

(* Requests have timeouts, and local steps are taken. *)
Fairness ==
  /\ WF_vars((Issue \/ Refuse \/ LoseAnswer) /\ UNCHANGED call)
  /\ WF_vars((BeginStore \/ EndStore \/ BeginPersist \/ Persist \/ PersistFails) /\ UNCHANGED call)
  /\ WF_vars(Build \/ Prepare)
  /\ WF_vars(Accepted \/ NotServed)
  /\ WF_vars(EndOfInput \/ ReadFails)

Spec == Init /\ [][Next]_vars /\ Fairness

-----------------------------------------------------------------------------
(* Properties *)

(* An answer is what the provider has made, whole and in order, and the provider has
   told its end.  Cloud Code Assist is excepted twice: there a stream that just ends is
   taken, and a chunk that does not parse is skipped without a word (google.go:296), so
   that an answer may have a hole.  The stop reason says whether the answer has calls. *)
OnlyWholeAnswers ==
  Is("answer") => /\ call.finished \/ P \in Assists
                  /\ call.seen = call.made \/ (P \in Assists /\ call.skipped)
                  /\ call.stop = StopFor(call.seen)

(* The key a request carries is the newest that the process has, although the adapter
   was built with one that may have been renewed since. *)
NewestKeyUsed == Is("sending") => call.used = KeyOf(P, data[P])

(* Every call ends, one way or another, unless the process does: at every step there is
   a timeout or nothing to wait for. *)
CallEnds == call.step \in {"building", "asking", "sending", "reading"} ~>
              call.step \in {"off", "answer", "failed", "aborted"}
=============================================================================
