------------------------------- MODULE Adapters -------------------------------
(***************************************************************************)
(* The provider adapters (internal/providers): the messages of a request,  *)
(* made of what Transform leaves of the history.  Anthropic, Bedrock and   *)
(* Google gather consecutive results in one user message; Bedrock and      *)
(* Google leave out messages without content; Chat Completions keeps one   *)
(* message for each result; Responses has no messages but a list of items. *)
(*                                                                         *)
(* A text is only told from an empty text and from an image.  System       *)
(* prompt, tool definitions and names are the same for every history and   *)
(* left out.                                                               *)
(***************************************************************************)
EXTENDS Transform

CONSTANT Bridging  \* models.json: targets that need an answer behind results

(* Only the adapter of Chat Completions reads that flag. *)
ASSUME AdaptersConstants == Bridging \subseteq {"gpt-chat", "kimi", "mistral"}

Text         == [kind |-> "text"]
Blank        == [kind |-> "blank"]   \* an empty text
Image        == [kind |-> "image"]
Bridge       == [kind |-> "bridge"]  \* "I have processed the tool results."
Call(id)     == [kind |-> "call", id |-> id]
Output(id)   == [kind |-> "output", id |-> id]
Unnamed      == [kind |-> "output"]  \* a result matched by its place

Message(r, parts) == [role |-> r, parts |-> parts]

Each(s, F(_)) == [i \in DOMAIN s |-> F(s[i])]

(* messageText: text and thinking; an image has none. *)
TextParts(m) == IF m.says \in {"text", "thought"} THEN <<Text>> ELSE <<>>
TextOrBlank(m) == IF TextParts(m) = <<>> THEN <<Blank>> ELSE TextParts(m)

(* Consecutive results of ms are gathered in one message. *)
Gather(out, m) ==
  IF m.role = "results" /\ out # <<>> /\ Last(out).role = "results"
  THEN [out EXCEPT ![Len(out)].parts = @ \o m.parts]
  ELSE Append(out, m)

Gathered(ms) ==
  LET gathered[i \in 0..Len(ms)] == IF i = 0 THEN <<>> ELSE Gather(gathered[i - 1], ms[i])
  IN gathered[Len(ms)]

Filled(ms) == Picked(ms, {i \in DOMAIN ms : ms[i].parts # <<>>})

-----------------------------------------------------------------------------
AnthropicMessage(m) ==
  CASE IsAssistant(m) -> LET parts == TextParts(m) \o Each(m.calls, Call)
                         IN Message("assistant", IF parts = <<>> THEN <<Blank>> ELSE parts)
    [] IsTool(m)      -> Message("results", <<Output(m.call)>>)
    [] OTHER          -> Message("user", TextOrBlank(m))

AnthropicMessages(h, t) == Gathered(Each(Transformed(h, t), AnthropicMessage))

(* What an adapter without content sends instead. *)
OrPlaceholder(ms) == IF ms = <<>> THEN <<Message("user", <<Blank>>)>> ELSE ms

BedrockMessage(m) ==
  CASE IsAssistant(m) -> Message("assistant", TextParts(m) \o Each(m.calls, Call))
    [] IsTool(m)      -> Message("results", <<Output(m.call)>>)
    [] OTHER          -> Message("user", TextParts(m))

BedrockMessages(h, t) ==
  OrPlaceholder(Filled(Gathered(Each(Transformed(h, t), BedrockMessage))))

(* Gemini matches results and calls by name and place and gets no ids. *)
GoogleMessage(t, m) ==
  LET named == t = "claude-google"
  IN CASE IsAssistant(m) -> Message("assistant", TextParts(m) \o Each(m.calls, Call))
       [] IsTool(m)      -> Message("results", <<IF named THEN Output(m.call) ELSE Unnamed>>)
       [] OTHER          -> Message("user", TextOrBlank(m))

GoogleMessages(h, t) ==
  OrPlaceholder(Filled(Gathered(Each(Transformed(h, t), LAMBDA m : GoogleMessage(t, m)))))

-----------------------------------------------------------------------------
(* Chat Completions.  last is the role of the last message that was written; an
   answer without text and calls is left out. *)

ChatMessage(m) ==
  CASE IsAssistant(m) -> Message("assistant", TextParts(m) \o Each(m.calls, Call))
    [] IsTool(m)      -> Message("tool", <<Output(m.call)>>)
    [] OTHER          -> Message("user", TextOrBlank(m))

Bridged(t, last, m) ==
  IF t \in Bridging /\ last = "tool" /\ m.role = "user" THEN <<Message("assistant", <<Bridge>>)>> ELSE <<>>

ChatStepCountsAll(t, acc, m) ==
  LET out == ChatMessage(m)
  IN [out  |-> acc.out \o Bridged(t, acc.last, out) \o (IF out.parts = <<>> THEN <<>> ELSE <<out>>),
      last |-> out.role]

ChatStep(t, acc, m) ==
  LET out == ChatMessage(m)
      ms  == acc.out \o Bridged(t, acc.last, out)
  IN IF out.parts = <<>> THEN [acc EXCEPT !.out = ms]
     ELSE [out |-> Append(ms, out), last |-> out.role]

ChatMessages(h, t) ==
  LET k == Transformed(h, t)
      acc[i \in 0..Len(k)] ==
        IF i = 0 THEN [out |-> <<>>, last |-> ""] ELSE ChatStep(t, acc[i - 1], k[i])
  IN acc[Len(k)].out

-----------------------------------------------------------------------------
(* Responses.  A call goes out under the call part of its id, and so does its
   result: but only splitToolCallIDForResponses trims it, extractCallID does not. *)

SplitCallId(id)   == Trimmed(CallPart(id))

ExtractWhole(id)  == Sanitized(id)
ExtractCallId(id) == CallPart(id)

ResponsesItems(m) ==
  CASE IsAssistant(m) -> Each(TextParts(m), LAMBDA p : Message("assistant", <<p>>))
                         \o Each(m.calls, LAMBDA id : Message("assistant", <<Call(SplitCallId(id))>>))
    [] IsTool(m)      -> <<Message("tool", <<Output(ExtractCallId(m.call))>>)>>
    [] OTHER          -> <<Message("user", IF m.says = "image" THEN <<Image>> ELSE <<Text>>)>>

ResponsesInput(h, t) ==
  OrPlaceholder(FlattenSeq(Each(Transformed(h, t), ResponsesItems)))

(* BuildProvider: the adapter for the API of the model. *)
Request(h, t) ==
  CASE t = "claude"                          -> AnthropicMessages(h, t)
    [] t = "bedrock"                         -> BedrockMessages(h, t)
    [] t \in {"gemini", "claude-google"}     -> GoogleMessages(h, t)
    [] t \in {"gpt-chat", "kimi", "mistral"} -> ChatMessages(h, t)
    [] t \in {"gpt", "codex", "copilot"}     -> ResponsesInput(h, t)

-----------------------------------------------------------------------------
(* Properties *)

KindsIn(m, k) == Picked(m.parts, {i \in DOMAIN m.parts : m.parts[i].kind = k})

(* The messages of a role from place i on, without a gap. *)
RunBehind(r, i, role) == {j \in (i + 1)..Len(r) : \A l \in (i + 1)..j : r[l].role = role}

OutputsIn(ms) == FlattenSeq(Each(ms, LAMBDA m : KindsIn(m, "output")))

Once(id, outputs) == Cardinality({k \in DOMAIN outputs : outputs[k].id = id}) = 1

(* Ids under which two calls of one answer go out: Mistral's rule may do that. *)
Doubled(h, t) ==
  UNION {{Norm(t, m.calls[c]) : c \in {c \in DOMAIN m.calls :
            \E d \in DOMAIN m.calls : d # c /\ Norm(t, m.calls[d]) = Norm(t, m.calls[c])}} :
         m \in {m \in Range(h) : IsAssistant(m)}}

(* In a request of every API each call that more than its results follows has its
   result, exactly one, where the API looks for it: in the next message, in the
   messages up to the next that is no result, or in an item of the same call id
   further on.  Results without their call may stand between them.  Two kinds of ids
   are excepted: those Mistral's rule gives to two calls of one answer, whose results
   no one can tell apart (openai.go:1125), and for Responses those with a "_" at the
   end, which a call loses and its output keeps (openai.go:927). *)
CallsPaired ==
  \A t \in Targets :
    LET r == Request(history, t)
    IN \A i \in DOMAIN r :
         LET ids     == {p.id : p \in Range(KindsIn(r[i], "call"))}
             role    == IF t \in {"gpt-chat", "kimi", "mistral"} THEN "tool" ELSE "results"
             run     == Cardinality(RunBehind(r, i, role))
             outputs == OutputsIn(SubSeq(r, i + 1, i + run))
         IN CASE t = "gemini" -> i + run < Len(r) => Len(outputs) >= Cardinality(ids)
              [] t \in {"gpt", "codex", "copilot"} ->
                   (\E j \in (i + 1)..Len(r) : r[j].role = "user") =>
                     \A id \in ids : id.n \in Trailing \/ Once(id, OutputsIn(SubSeq(r, i + 1, Len(r))))
              [] t = "mistral" -> i + run < Len(r) => \A id \in ids \ Doubled(history, t) : Once(id, outputs)
              [] OTHER -> i + run < Len(r) => \A id \in ids : Once(id, outputs)

(* Who has said something in a request, in order. *)
Speakers(r) ==
  LET said == Picked(r, {i \in DOMAIN r : Range(r[i].parts) \cap {Text, Image} # {}})
  IN Each(said, LAMBDA m : m.role)

Failed(m) == IsAssistant(m) /\ m.stop = "error"

(* Nothing that was said is lost, said twice or told in another order, whichever
   API the conversation goes on with: except for images, which only Responses
   takes, and for answers that failed. *)
NothingSaidIsLost ==
  \A t \in Targets :
    LET heard(m) == ~IsTool(m) /\ ~Failed(m) /\ (m.says \in {"text", "thought"}
                                   \/ (m.says = "image" /\ t \in {"gpt", "codex", "copilot"}))
        kept == Picked(history, {i \in DOMAIN history : heard(history[i])})
    IN Speakers(Request(history, t)) = Each(kept, LAMBDA m : IF IsAssistant(m) THEN "assistant" ELSE "user")

(* A provider that wants an answer between results and the next user message gets one,
   even where the answer that stood there is left out. *)
ResultsBridged ==
  \A t \in Targets \cap Bridging :
    LET r == Request(history, t)
    IN \A i \in 1..(Len(r) - 1) : r[i].role = "tool" => r[i + 1].role # "user"
=============================================================================
