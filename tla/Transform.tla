------------------------------ MODULE Transform ------------------------------
(***************************************************************************)
(* internal/providers/transform.go: what is sent to a provider instead of  *)
(* the stored messages.  Answers that failed or were aborted are left out, *)
(* thinking of another model becomes text, tool call ids another model has *)
(* made are normalised for the target, and calls without a result get a    *)
(* synthetic one.                                                          *)
(*                                                                         *)
(* The history is any list of messages that BuildContext may return: runs  *)
(* leave the results of an answer behind it, in call order, and may end    *)
(* early; a compaction leaves a summary and the last KeepRecent messages,  *)
(* wherever that cuts (a hook that chooses another cut is left out).       *)
(*                                                                         *)
(* A model stands for its provider and API.  The id of a call is a number  *)
(* and a form: "plain" of letters, digits, _ and -, "piped" of a call id   *)
(* and an item id, "odd" with other characters; "clean", "call", "trimmed" *)
(* and "nine" are what sanitizeID, cutting at the bar, TrimRight and       *)
(* Mistral's rule make of one; a "trimmed" id may have its item id still.  *)
(* Ids are short enough that no cut at 40 or 64 shortens them.             *)
(***************************************************************************)
EXTENDS Integers, Sequences, FiniteSets, SequencesExt

CONSTANTS
  MaxLength,  \* messages of a history (bounds the model)
  MaxCalls,   \* tool calls of an answer (bounds the model)
  MaxIds,     \* ids of tool calls (bounds the model)
  KeepRecent, \* messages a compaction keeps
  Origins,    \* models that answer
  Targets,    \* models that requests are built for
  Finishes,   \* reasons an answer may end for
  Spoken,     \* what a user message may hold, "text" or an "image" alone
  Alike,      \* ids whose first nine letters and digits agree
  Trailing    \* ids that end in "_", or whose call part does, once sanitised

Models == {"claude", "bedrock", "gemini", "claude-google",
           "gpt-chat", "kimi", "mistral", "gpt", "codex", "copilot"}

ASSUME TransformConstants ==
  /\ MaxLength \in Nat /\ MaxCalls \in Nat /\ MaxIds \in Nat /\ KeepRecent \in Nat \ {0}
  /\ Origins \subseteq Models /\ Targets \subseteq Models
  /\ Finishes \subseteq {"stop", "length", "filtered"}
  /\ Spoken \subseteq {"text", "image"}
  /\ Alike \subseteq Nat \ {0} /\ Trailing \subseteq Nat \ {0}

VARIABLE history

User(s)     == [role |-> "user", says |-> s]
Summary     == [role |-> "summary", says |-> "text"]  \* a user message for the provider
Assistant(c, s, b, f) ==   \* calls, content, the model it is from, how it stopped
  [role |-> "assistant", calls |-> c, says |-> s, by |-> b, stop |-> f]
Result(id)      == [role |-> "tool", call |-> id, synthetic |-> FALSE]
Synthetic(id)   == [role |-> "tool", call |-> id, synthetic |-> TRUE]

IsAssistant(m) == m.role = "assistant"
IsTool(m)      == m.role = "tool"

(* The id a model's API gives to call n. *)
OwnForm(b) == CASE b \in {"gpt", "codex", "copilot"} -> "piped"
                [] b = "kimi"                        -> "odd"
                [] OTHER                             -> "plain"
OwnId(b, n) == [n |-> n, form |-> OwnForm(b)]

-----------------------------------------------------------------------------
(* The normalisers, one for each family of APIs. *)

Sanitized(id) == IF id.form \in {"piped", "odd"} THEN [id EXCEPT !.form = "clean"] ELSE id

CallPart(id) == IF id.form = "piped" THEN [id EXCEPT !.form = "call"] ELSE Sanitized(id)

(* What TrimRight leaves, or the id that is made up when that is nothing. *)
Trimmed(id) == IF id.n \in Trailing THEN [id EXCEPT !.form = "trimmed"] ELSE id

(* Nine letters and digits: what comes later in an id is lost. *)
Nine(id) == [n |-> IF id.n \in Alike THEN Min(Alike) ELSE id.n, form |-> "nine"]

NormalizedForChat(id) == IF id.form = "piped" THEN CallPart(id) ELSE id

(* Responses: both parts of a piped id are sanitised, which leaves them as they are,
   and trimmed; a provider outside the OpenAI family gets every id unchanged. *)
NormalizedForResponses(t, id) ==
  IF t = "copilot" THEN id ELSE IF id.form = "piped" THEN Trimmed(id) ELSE Sanitized(id)

NormalizedForGoogle(t, id) == IF t = "claude-google" THEN Sanitized(id) ELSE id

Norm(t, id) ==
  CASE t \in {"claude", "bedrock"}          -> Sanitized(id)
    [] t \in {"gemini", "claude-google"}    -> NormalizedForGoogle(t, id)
    [] t = "mistral"                        -> Nine(id)
    [] t \in {"gpt-chat", "kimi"}           -> NormalizedForChat(id)
    [] t \in {"gpt", "codex", "copilot"}    -> NormalizedForResponses(t, id)

-----------------------------------------------------------------------------
(* First pass. *)

(* s at the places of I: SelectSeq by place, as a function that a proof can unfold. *)
Picked(s, I) ==
  LET picked[i \in 0..Len(s)] ==
        IF i = 0 THEN <<>> ELSE IF i \in I THEN Append(picked[i - 1], s[i]) ELSE picked[i - 1]
  IN picked[Len(s)]

KeptAll(h) == h

Stays(m) == IsAssistant(m) => m.stop \notin {"error", "aborted"}
Kept(h)  == Picked(h, {i \in DOMAIN h : Stays(h[i])})

(* idMap when message i is reached: the ids renamed so far. *)
RenamedBefore(k, i, t) ==
  UNION {{id \in Range(k[j].calls) : Norm(t, id) # id} :
           j \in {j \in 1..(i - 1) : IsAssistant(k[j]) /\ k[j].by # t}}

Foreign(m, t) ==
  [m EXCEPT !.calls = [c \in DOMAIN @ |-> Norm(t, @[c])],
            !.says = IF @ = "thought" THEN "text" ELSE @]

FirstPassCallsOnly(h, t) ==
  LET k == Kept(h)
  IN [i \in DOMAIN k |-> IF IsAssistant(k[i]) /\ k[i].by # t THEN Foreign(k[i], t) ELSE k[i]]

FirstPass(h, t) ==
  LET k == Kept(h)
  IN [i \in DOMAIN k |->
        CASE IsAssistant(k[i]) /\ k[i].by # t -> Foreign(k[i], t)
          [] IsTool(k[i]) /\ k[i].call \in RenamedBefore(k, i, t) ->
               [k[i] EXCEPT !.call = Norm(t, @)]
          [] OTHER -> k[i]]

-----------------------------------------------------------------------------
(* Second pass: out is the result so far, pending the calls of the last answer,
   found those of them that have a result. *)

Begun == [out |-> <<>>, pending |-> <<>>, found |-> {}]

Missing(acc) ==
  LET open == Picked(acc.pending, {i \in DOMAIN acc.pending : acc.pending[i] \notin acc.found})
  IN [i \in DOMAIN open |-> Synthetic(open[i])]

Step(acc, m) ==
  CASE IsAssistant(m) -> [out |-> Append(acc.out \o Missing(acc), m),
                          pending |-> m.calls, found |-> {}]
    [] IsTool(m)      -> [acc EXCEPT !.out = Append(@, m), !.found = @ \cup {m.call}]
    [] OTHER          -> [out |-> Append(acc.out \o Missing(acc), m),
                          pending |-> <<>>, found |-> {}]

SecondPass(k) ==
  LET acc[i \in 0..Len(k)] == IF i = 0 THEN Begun ELSE Step(acc[i - 1], k[i])
  IN acc[Len(k)].out

Transformed(h, t) == SecondPass(FirstPass(h, t))

-----------------------------------------------------------------------------
(* Answers: the stop reason each adapter stores for the reason its API gives. *)

(* For the regular end Chat Completions and Bedrock say by themselves that there are calls. *)
ChatStop(f, n) ==
  IF f = "filtered" THEN "error" ELSE IF f = "stop" /\ n > 0 THEN "toolUse" ELSE f
BedrockStop(f, n) == ChatStop(f, n)

GoogleStop(f, n) == IF n > 0 THEN "toolUse" ELSE IF f = "filtered" THEN "error" ELSE f

ResponsesStop(f, n) ==
  IF f = "filtered" THEN "error" ELSE IF f = "stop" /\ n > 0 THEN "toolUse" ELSE f

StopReason(b, f, n) ==
  CASE b = "claude"                         -> f      \* stored as it comes
    [] b = "bedrock"                        -> BedrockStop(f, n)
    [] b \in {"gemini", "claude-google"}    -> GoogleStop(f, n)
    [] b \in {"gpt-chat", "kimi", "mistral"} -> ChatStop(f, n)
    [] b \in {"gpt", "codex", "copilot"}    -> ResponsesStop(f, n)

(* An answer of a Responses API with nothing in it is an error of the call. *)
FailedCall(b, n, s) == b \in {"gpt", "codex", "copilot"} /\ n = 0 /\ s = "nothing"

-----------------------------------------------------------------------------
(* Histories. *)

HistoryInit == history = <<>>

Add(m) == Len(history) < MaxLength /\ history' = Append(history, m)

LastAnswer == SelectLastInSubSeq(history, 1, Len(history), IsAssistant)
CallsOf(m) == IF IsAssistant(m) THEN Range(m.calls) ELSE IF IsTool(m) THEN {m.call} ELSE {}
LastId     == Max({0} \cup {id.n : id \in UNION {CallsOf(m) : m \in Range(history)}})

AddUser == \E s \in Spoken : Add(User(s))

(* An answer is asked for when a user message or a result is last.  It has calls,
   before which the model may have thought, or text, or nothing. *)
AddAnswer ==
  /\ history # <<>> /\ ~IsAssistant(Last(history))
  /\ \E b \in Origins, n \in 0..MaxCalls, f \in Finishes :
       \E s \in IF n = 0 THEN {"text", "nothing"} ELSE {"thought", "nothing"} :
         LastId + n <= MaxIds
         /\ ~FailedCall(b, n, s)
         /\ Add(Assistant([i \in 1..n |-> OwnId(b, LastId + i)], s, b, StopReason(b, f, n)))

(* The run loop appends the results one by one, behind the answer.  It does not
   look at the stop reason: calls of an answer that ended badly are run as well. *)
AddResult ==
  /\ LastAnswer > 0
  /\ LET answer == history[LastAnswer]
         given  == Len(history) - LastAnswer
     IN /\ \A i \in (LastAnswer + 1)..Len(history) : IsTool(history[i])
        /\ given < Len(answer.calls)
        /\ Add(Result(answer.calls[given + 1]))

(* Compaction: what BuildContext shows from then on.  A summary is first, if anywhere. *)
Compact ==
  LET messages == IF history # <<>> /\ history[1].role = "summary" THEN Tail(history) ELSE history
      n        == Len(messages)
  IN /\ n > KeepRecent
     /\ history' = <<Summary>> \o SubSeq(messages, n - KeepRecent + 1, n)

HistoryNext == AddUser \/ AddAnswer \/ AddResult \/ Compact

HistorySpec == HistoryInit /\ [][HistoryNext]_history

-----------------------------------------------------------------------------
(* Properties *)

(* The messages of out from i up to the next answer or user message. *)
Behind(out, i) ==
  {j \in (i + 1)..Len(out) : \A l \in (i + 1)..j : IsTool(out[l])}

(* The result at place j belongs to a call of the answer before it. *)
Belongs(out, j) ==
  \E i \in 1..(j - 1) :
    IsAssistant(out[i]) /\ j \in Behind(out, i) /\ out[j].call \in Range(out[i].calls)

(* A result whose answer is sent belongs to it: it follows the answer, which has a
   call of that id, with only other results between.  Not so a result whose answer
   a compaction cut off or the first pass left out as failed: that goes out without
   its call. *)
ResultsBelong ==
  \A t \in Targets :
    LET out == Transformed(history, t)
        ids == UNION {CallsOf(m) \cup {Norm(t, id) : id \in CallsOf(m)} :
                        m \in {m \in Range(Kept(history)) : IsAssistant(m)}}
    IN \A j \in DOMAIN out : IsTool(out[j]) /\ out[j].call \in ids => Belongs(out, j)
=============================================================================
