------------------------- MODULE SidecarClientProofs -------------------------
(***************************************************************************)
(* Safety of SidecarClient, for any set of calls and any pipe capacity.    *)
(***************************************************************************)
EXTENDS SidecarClient, TLAPS

(* A call that has not begun has no trace anywhere. *)
Fresh ==
  \A c \in Calls : pc[c] = "new" => chan[c] = "none" /\ c \notin sending

CoreInv == TypeOK /\ NoSendBlocks /\ NoLeak /\ Fresh

-----------------------------------------------------------------------------
(* Every reachable state is well typed: the steps of client.go keep each
   variable in its type. *)
THEOREM TypeCorrect == Spec => []TypeOK
<1>1. Init => TypeOK
  BY ClientConstants DEF Init, TypeOK, Results
<1>2. TypeOK /\ [Next]_clientVars => TypeOK'
  <2> SUFFICES ASSUME TypeOK, [Next]_clientVars PROVE TypeOK'
    OBVIOUS
  <2> USE DEF TypeOK, Results
  <2>1. ASSUME NEW c \in Calls, CallStep(c) PROVE TypeOK'
    <3>1. CASE Register(c)
      BY <3>1 DEF Register, Return, loopVars, processVars
    <3>2. CASE Write(c)
      <4>1. stdin \in Seq(Calls) /\ Append(stdin, c) \in Seq(Calls)
        OBVIOUS
      <4>2. stdin' = stdin \/ stdin' = Append(stdin, c)
        BY <3>2, Zenon DEF Write
      <4>3. /\ pc' \in [Calls -> {"new", "write", "wait", "leave", "returned"}]
            /\ result' \in [Calls -> Results]
        BY <3>2 DEF Write, Abandon
      <4> QED BY <4>1, <4>2, <4>3, <3>2, Zenon DEF Write, loopVars
    <3>3. CASE Receive(c)
      BY <3>3 DEF Receive, Return, loopVars, processVars
    <3>4. CASE GiveUp(c)
      BY <3>4 DEF GiveUp, Abandon, loopVars, processVars
    <3>5. CASE RemovePending(c)
      BY <3>5 DEF RemovePending, loopVars, processVars
    <3> QED BY <2>1, <3>1, <3>2, <3>3, <3>4, <3>5 DEF CallStep
  <2>2. ASSUME LoopStep PROVE TypeOK'
    <3>1. CASE ReadLine
      BY <3>1 DEF ReadLine
    <3>2. CASE SendResponse
      BY <3>2 DEF SendResponse, processVars
    <3>3. CASE StopReading
      BY <3>3 DEF StopReading, callVars, processVars
    <3>4. CASE ProcessWaited
      BY <3>4 DEF ProcessWaited, callVars, processVars
    <3>5. CASE FinishClear
      BY <3>5 DEF FinishClear, processVars
    <3>6. CASE FinishClose
      BY <3>6 DEF FinishClose, callVars, processVars
    <3>7. CASE Kill
      BY <3>7 DEF Kill, callVars
    <3>8. CASE CloseReturns
      BY <3>8 DEF CloseReturns, callVars, processVars
    <3> QED BY <2>2, <3>1, <3>2, <3>3, <3>4, <3>5, <3>6, <3>7, <3>8 DEF LoopStep
  <2>3. CASE ChildReads
    BY <2>3 DEF ChildReads, callVars, loopVars
  <2>4. CASE ChildAnswers
    BY <2>4 DEF ChildAnswers, callVars, loopVars
  <2>5. CASE ChildExits
    BY <2>5 DEF ChildExits, callVars, loopVars
  <2>6. CASE UNCHANGED clientVars
    BY <2>6 DEF clientVars, callVars, loopVars, processVars
  <2> QED BY <2>1, <2>2, <2>3, <2>4, <2>5, <2>6 DEF Next
<1> QED BY <1>1, <1>2, PTL DEF Spec

(* The two facts about channels are inductive together, once calls not begun are
   known to be fresh. *)
LEMMA CoreInvariant == Spec => []CoreInv
<1>1. Init => CoreInv
  BY ClientConstants DEF Init, CoreInv, TypeOK, Results, NoSendBlocks, NoLeak, Fresh
<1>2. CoreInv /\ TypeOK' /\ [Next]_clientVars => CoreInv'
  <2> SUFFICES ASSUME CoreInv, TypeOK', [Next]_clientVars
               PROVE (NoSendBlocks /\ NoLeak /\ Fresh)'
    BY DEF CoreInv
  <2> USE DEF CoreInv, NoSendBlocks, NoLeak, Fresh
  <2>1. ASSUME NEW c \in Calls, CallStep(c) PROVE (NoSendBlocks /\ NoLeak /\ Fresh)'
    <3>1. CASE Register(c)
      BY <3>1 DEF TypeOK, Register, Return, loopVars, processVars
    <3>2. CASE Write(c)
      <4>1. pc[c] = "write" /\ UNCHANGED <<pending, chan, sending>>
        BY <3>2 DEF Write, loopVars
      <4>2. pc' \in {[pc EXCEPT ![c] = "wait"], [pc EXCEPT ![c] = "leave"]}
        BY <3>2 DEF Write, Abandon
      <4>3. pc \in [Calls -> {"new", "write", "wait", "leave", "returned"}]
        BY DEF TypeOK
      <4>4. \A d \in Calls : d # c => pc'[d] = pc[d]
        BY <4>2, <4>3
      <4>5. pc'[c] \in {"wait", "leave"}
        BY <4>2, <4>3
      <4>6. pending \subseteq Calls
        BY DEF TypeOK
      <4> QED BY <4>1, <4>4, <4>5, <4>6
    <3>3. CASE Receive(c)
      BY <3>3 DEF TypeOK, Receive, Return, loopVars, processVars
    <3>4. CASE GiveUp(c)
      BY <3>4 DEF TypeOK, GiveUp, Abandon, loopVars, processVars
    <3>5. CASE RemovePending(c)
      BY <3>5 DEF TypeOK, RemovePending, loopVars, processVars
    <3> QED BY <2>1, <3>1, <3>2, <3>3, <3>4, <3>5 DEF CallStep
  <2>2. ASSUME LoopStep PROVE (NoSendBlocks /\ NoLeak /\ Fresh)'
    <3>1. CASE ReadLine
      BY <3>1 DEF TypeOK, ReadLine
    <3>2. CASE SendResponse
      BY <3>2 DEF TypeOK, SendResponse, processVars
    <3>3. CASE FinishClear
      BY <3>3 DEF TypeOK, FinishClear, processVars
    <3>4. CASE StopReading \/ ProcessWaited \/ FinishClose \/ Kill \/ CloseReturns
      BY <3>4 DEF StopReading, ProcessWaited, FinishClose, Kill, CloseReturns,
                  callVars, processVars
    <3> QED BY <2>2, <3>1, <3>2, <3>3, <3>4 DEF LoopStep
  <2>3. CASE ChildReads \/ ChildAnswers \/ ChildExits \/ UNCHANGED clientVars
    BY <2>3 DEF ChildReads, ChildAnswers, ChildExits, clientVars, callVars, loopVars
  <2> QED BY <2>1, <2>2, <2>3 DEF Next
<1> QED BY <1>1, <1>2, TypeCorrect, PTL DEF Spec

(* No send on a response channel ever waits: readLoop and finish cannot get
   stuck on a caller that gave up. *)
THEOREM SendsNeverBlock == Spec => []NoSendBlocks
BY CoreInvariant, PTL DEF CoreInv

(* No call leaves its channel behind in c.pending. *)
THEOREM CallsLeaveNothing == Spec => []NoLeak
BY CoreInvariant, PTL DEF CoreInv

-----------------------------------------------------------------------------
(* Where the request or the response of call c may be, besides with itself. *)
InStdin(c)  == \E i \in DOMAIN stdin : stdin[i] = c
InStdout(c) == \E i \in DOMAIN stdout : stdout[i] = c
Travels(c)  == c \in held \/ InStdin(c) \/ InStdout(c)
Got(c)      == c \in sending \/ chan[c] = "answer" \/ result[c] = "answer"

(* Each call is in at most one of these places. *)
OnePlace ==
  /\ \A i, j \in DOMAIN stdin : stdin[i] = stdin[j] => i = j
  /\ \A i, j \in DOMAIN stdout : stdout[i] = stdout[j] => i = j
  /\ \A c \in Calls : InStdin(c) => c \notin held /\ ~InStdout(c)
  /\ \A c \in Calls : c \in held => ~InStdout(c)
  /\ \A c \in Calls : Got(c) => ~Travels(c)
  /\ \A c \in Calls : pc[c] \in {"new", "write"} => ~Travels(c) /\ ~Got(c)

(* What a sequence holds after an append. *)
LEMMA AppendElements ==
  ASSUME NEW S, NEW s \in Seq(S), NEW x \in S
  PROVE  /\ DOMAIN Append(s, x) = DOMAIN s \cup {Len(s) + 1}
         /\ Len(s) + 1 \notin DOMAIN s
         /\ \A i \in DOMAIN s : Append(s, x)[i] = s[i]
         /\ Append(s, x)[Len(s) + 1] = x
  OBVIOUS

(* What a sequence holds without its head. *)
LEMMA TailElements ==
  ASSUME NEW S, NEW s \in Seq(S), s # <<>>
  PROVE  /\ Head(s) = s[1] /\ 1 \in DOMAIN s
         /\ \A i \in DOMAIN Tail(s) :
              i \in Nat /\ i + 1 # 1 /\ i + 1 \in DOMAIN s /\ Tail(s)[i] = s[i + 1]
         /\ \A i, j \in DOMAIN Tail(s) : i + 1 = j + 1 => i = j
         /\ \A i \in DOMAIN s : i = 1 \/ i - 1 \in DOMAIN Tail(s)
  OBVIOUS

(* A call that got an answer got its own.  Steps that move a request or response
   from one place to the next take it out of the place it was in. *)
THEOREM AnswersAreOwn == Spec => []OwnAnswer
<1>1. Init => OnePlace
  BY DEF Init, OnePlace, InStdin, InStdout, Travels, Got
<1>2. OnePlace /\ CoreInv /\ [Next]_clientVars => OnePlace'
  <2> SUFFICES ASSUME OnePlace, CoreInv, [Next]_clientVars PROVE OnePlace'
    OBVIOUS
  <2> USE DEF CoreInv, TypeOK, OnePlace, InStdin, InStdout, Travels, Got
  <2>1. ASSUME NEW c \in Calls, CallStep(c) PROVE OnePlace'
    <3>1. CASE Register(c)
      BY <3>1 DEF Register, Return, loopVars, processVars
    <3>2. CASE Write(c)
      <4>1. CASE UNCHANGED stdin /\ Abandon(c, "writeError")
        <5>1. UNCHANGED <<chan, sending, stdin, stdout, held>>
          BY <4>1, <3>2, Zenon DEF Write, loopVars
        <5>2. pc[c] = "write"
          BY <3>2, Zenon DEF Write
        <5> QED BY <4>1, <5>1, <5>2 DEF Abandon
      <4>2. CASE /\ stdin' = Append(stdin, c) /\ pc' = [pc EXCEPT ![c] = "wait"]
                 /\ UNCHANGED result
        <5>1. UNCHANGED <<chan, sending, stdout, held>>
          BY <3>2, Zenon DEF Write, loopVars
        <5>2. pc[c] = "write"
          BY <3>2, Zenon DEF Write
        <5>3. \A i, j \in DOMAIN stdin' : stdin'[i] = stdin'[j] => i = j
          BY <4>2, <5>2, AppendElements
        <5>4. \A d \in Calls : InStdin(d)' <=> InStdin(d) \/ d = c
          BY <4>2, AppendElements
        <5>5. \A d \in Calls : InStdout(d)' <=> InStdout(d)
          BY <5>1
        <5> HIDE DEF InStdin, InStdout
        <5> QED BY <4>2, <5>1, <5>2, <5>3, <5>4, <5>5
      <4> QED BY <3>2, <4>1, <4>2, Zenon DEF Write
    <3>3. CASE Receive(c)
      BY <3>3 DEF Receive, Return, loopVars, processVars
    <3>4. CASE GiveUp(c)
      BY <3>4 DEF GiveUp, Abandon, loopVars, processVars
    <3>5. CASE RemovePending(c)
      BY <3>5 DEF RemovePending, loopVars, processVars
    <3> QED BY <2>1, <3>1, <3>2, <3>3, <3>4, <3>5 DEF CallStep
  <2>2. CASE ReadLine
    <3>1. stdout # <<>> /\ stdout' = Tail(stdout) /\ sending \subseteq sending'
            /\ sending' \subseteq sending \cup {Head(stdout)}
      BY <2>2 DEF ReadLine
    <3>2. UNCHANGED <<pc, result, chan, stdin, held>>
      BY <2>2 DEF ReadLine
    <3>3. \A i, j \in DOMAIN stdout' : stdout'[i] = stdout'[j] => i = j
      BY <3>1, TailElements
    <3>4. \A d \in Calls : InStdout(d)' => InStdout(d) /\ d # Head(stdout)
      BY <3>1, TailElements
    <3>5. \A d \in Calls : InStdin(d)' <=> InStdin(d)
      BY <3>2
    <3>6. Head(stdout) \in Calls /\ InStdout(Head(stdout))
      BY <3>1, TailElements
    <3> HIDE DEF InStdin, InStdout
    <3> QED BY <3>1, <3>2, <3>3, <3>4, <3>5, <3>6
  <2>3. CASE SendResponse
    BY <2>3 DEF SendResponse, processVars
  <2>4. CASE FinishClear
    BY <2>4 DEF FinishClear, processVars, NoSendBlocks
  <2>5. CASE StopReading \/ ProcessWaited \/ FinishClose \/ Kill \/ CloseReturns \/ ChildExits
               \/ UNCHANGED clientVars
    BY <2>5 DEF StopReading, ProcessWaited, FinishClose, Kill, CloseReturns, ChildExits,
                clientVars, callVars, loopVars, processVars
  <2>6. CASE ChildReads
    <3>1. stdin # <<>> /\ stdin' = Tail(stdin) /\ held' = held \cup {Head(stdin)}
      BY <2>6 DEF ChildReads
    <3>2. UNCHANGED <<pc, result, chan, sending, stdout>>
      BY <2>6 DEF ChildReads, callVars, loopVars
    <3>3. \A i, j \in DOMAIN stdin' : stdin'[i] = stdin'[j] => i = j
      BY <3>1, TailElements
    <3>4. \A d \in Calls : InStdin(d)' => InStdin(d) /\ d # Head(stdin)
      BY <3>1, TailElements
    <3>5. \A d \in Calls : InStdout(d)' <=> InStdout(d)
      BY <3>2
    <3>6. Head(stdin) \in Calls /\ InStdin(Head(stdin))
      BY <3>1, TailElements
    <3> HIDE DEF InStdin, InStdout
    <3> QED BY <3>1, <3>2, <3>3, <3>4, <3>5, <3>6
  <2>7. CASE ChildAnswers
    <3>1. PICK c \in held : stdout' = Append(stdout, c) /\ held' = held \ {c}
      BY <2>7 DEF ChildAnswers
    <3>2. UNCHANGED <<pc, result, chan, sending, stdin>>
      BY <2>7 DEF ChildAnswers, callVars, loopVars
    <3>3. \A i, j \in DOMAIN stdout' : stdout'[i] = stdout'[j] => i = j
      BY <3>1, AppendElements
    <3>4. \A d \in Calls : InStdout(d)' <=> InStdout(d) \/ d = c
      BY <3>1, AppendElements
    <3>5. \A d \in Calls : InStdin(d)' <=> InStdin(d)
      BY <3>2
    <3> HIDE DEF InStdin, InStdout
    <3> QED BY <3>1, <3>2, <3>3, <3>4, <3>5
  <2> QED BY <2>1, <2>2, <2>3, <2>4, <2>5, <2>6, <2>7 DEF Next, LoopStep
<1>3. OnePlace => OwnAnswer
  BY DEF OnePlace, OwnAnswer, InStdin, InStdout, Travels, Got
<1> QED BY <1>1, <1>2, <1>3, CoreInvariant, PTL DEF Spec

=============================================================================
