--------------------------- MODULE ExtensionProofs ---------------------------
(***************************************************************************)
(* Safety of Extension, for any number of entries, sessions and actions.   *)
(*                                                                         *)
(* Both properties speak of the moment when the host is done.  ExtInv says *)
(* what holds in the midst of it: StackInv, how the steps the host has     *)
(* before it may lie; CallInv, that who waits for a callback is among them *)
(* or was dropped; MirrorInv, that the mirror is behind by nothing but     *)
(* what a message_end or session_start among them will bring.              *)
(***************************************************************************)
EXTENDS Extension, TLAPS, WellFoundedInduction

(* The steps a host can have before it.  An answer holds original steps; the others
   come in the place of one of these. *)
Operations == {"new", "switch", "fork", "navigate"}
Original   == EventActions \cup Operations
Steps      == [what : Original \cup {"append", "ended", "refused", "summarised", "started", "before"},
               id : Nat, req : Nat]
Kinds      == {"note", "message", "compaction", "summary"}

(* With S sessions and E the entries of the one that is open. *)
Fits(s, S, E) ==
  /\ s.req # 0 => s.what \in {"compact", "refused", "summarised"}
  /\ s.what = "switch" => s.id \in 0..S
  /\ s.what = "ended" => s.id \in E

(* Only the head of a list has been begun, and only it can be a before-hook, with the
   operation behind it. *)
GoodList(l, S, E) ==
  /\ \A j \in DOMAIN l : Fits(l[j], S, E) /\ (j > 1 => l[j].what \in Original)
  /\ l # <<>> /\ l[1].what = "before" => Len(l) = 2 /\ l[2].req = 0

(* Answers to events hold no session operations: these are in the outermost list. *)
Inner(s) == s.what \notin Operations \cup {"started", "before"}

GoodStack(t, S, E) ==
  /\ t \in Seq(Seq(Steps))
  /\ \A i \in DOMAIN t : GoodList(t[i], S, E)
  /\ \A i \in DOMAIN t : i < Len(t) => \A j \in DOMAIN t[i] : Inner(t[i][j])

(* The steps of a list, and those of a stack; the requests among them, the messages
   whose message_end is yet to come, and whether a session_start is. *)
StepsOf(l)   == {l[j] : j \in DOMAIN l}
OnStack(t)   == UNION {StepsOf(t[i]) : i \in DOMAIN t}
Asked(P)     == {s.req : s \in P} \ {0}
Ended(P)     == {s.id : s \in {e \in P : e.what = "ended"}}
Starting(P)  == \E s \in P : s.what = "started"

SessionInv ==
  /\ log \in Seq([in : Nat, parent : Nat, type : Kinds])
  /\ \A i \in DOMAIN log : log[i].parent < i /\ log[i].in \in 1..sessions
  /\ sessions \in Nat /\ current \in 1..sessions
  /\ \A s \in 1..sessions : EntriesOf(s) # {}
  /\ leaf \in EntriesOf(current)

Mirrors == [in : Nat, known : SUBSET Nat, leaf : Nat]

TypeInv ==
  /\ SessionInv
  /\ mirror \in Mirrors
  /\ asked \in Nat

StackInv == GoodStack(todo, sessions, EntriesOf(current))

(* Who waits for a callback is on the stack still, or was dropped. *)
CallInv == callbacks \subseteq (dropped \cup Asked(OnStack(todo))) \ {0}

(* The mirror is behind by the messages whose message_end is to come, and by the
   session whose session_start is. *)
MirrorInv ==
  ~stale /\ ~Starting(OnStack(todo)) =>
    /\ mirror.in = current
    /\ Mirrored \subseteq mirror.known \cup Ended(OnStack(todo))
    /\ mirror.known \subseteq EntriesOf(current)
    /\ Ended(OnStack(todo)) = {} /\ leaf \in Mirrored /\ mirror.leaf # 0 /\ ~crossed
         => mirror.leaf = leaf

ExtInv == TypeInv /\ StackInv /\ CallInv /\ MirrorInv

-----------------------------------------------------------------------------
(* Lists and stacks of steps *)

(* A list with a head. *)
LEMMA HeadAndTail ==
  ASSUME NEW l \in Seq(Steps), l # <<>>
  PROVE  /\ l[1] \in Steps /\ Tail(l) \in Seq(Steps)
         /\ StepsOf(l) = {l[1]} \cup StepsOf(Tail(l))
         /\ Len(Tail(l)) = Len(l) - 1 /\ \A j \in DOMAIN Tail(l) : j + 1 \in DOMAIN l /\ Tail(l)[j] = l[j + 1]
<1>1. /\ l[1] \in Steps /\ Tail(l) \in Seq(Steps) /\ Len(Tail(l)) = Len(l) - 1
      /\ DOMAIN l = 1..Len(l) /\ Len(l) \in Nat \ {0} /\ DOMAIN Tail(l) = 1..(Len(l) - 1)
      /\ \A j \in 1..(Len(l) - 1) : Tail(l)[j] = l[j + 1]
  OBVIOUS
<1> DEFINE r == Tail(l)
<1> HIDE DEF r
<1>2. ASSUME NEW s \in StepsOf(l) PROVE s = l[1] \/ s \in StepsOf(r)
  <2>1. PICK j \in 1..Len(l) : s = l[j]
    BY <1>1 DEF StepsOf
  <2>2. CASE j # 1
    <3>1. j - 1 \in DOMAIN r /\ r[j - 1] = s
      BY <1>1, <2>1, <2>2 DEF r
    <3> QED BY <3>1 DEF StepsOf
  <2> QED BY <2>1, <2>2
<1>3. ASSUME NEW s, s = l[1] \/ s \in StepsOf(r) PROVE s \in StepsOf(l)
  <2>1. CASE s = l[1]
    BY <1>1, <2>1 DEF StepsOf
  <2>2. CASE s \in StepsOf(r)
    <3>1. PICK j \in 1..(Len(l) - 1) : s = r[j]
      BY <1>1, <2>2 DEF StepsOf, r
    <3>2. j + 1 \in DOMAIN l /\ l[j + 1] = s
      BY <1>1, <3>1 DEF r
    <3> QED BY <3>2 DEF StepsOf
  <2> QED BY <1>3, <2>1, <2>2
<1> QED BY <1>1, <1>2, <1>3 DEF r

(* A list on top of a stack. *)
LEMMA OnTop ==
  ASSUME NEW l \in Seq(Steps), NEW t \in Seq(Seq(Steps))
  PROVE  /\ <<l>> \o t \in Seq(Seq(Steps)) /\ Len(<<l>> \o t) = Len(t) + 1
         /\ (<<l>> \o t)[1] = l /\ \A i \in DOMAIN t : (<<l>> \o t)[i + 1] = t[i]
         /\ OnStack(<<l>> \o t) = StepsOf(l) \cup OnStack(t)
<1> DEFINE u == <<l>> \o t
<1>1. /\ u \in Seq(Seq(Steps)) /\ Len(u) = Len(t) + 1 /\ Len(t) \in Nat
      /\ DOMAIN u = 1..(Len(t) + 1) /\ DOMAIN t = 1..Len(t)
      /\ u[1] = l /\ \A i \in 1..Len(t) : u[i + 1] = t[i]
  OBVIOUS
<1> HIDE DEF u
<1>2. ASSUME NEW s \in OnStack(u) PROVE s \in StepsOf(l) \cup OnStack(t)
  <2>1. PICK i \in 1..(Len(t) + 1) : s \in StepsOf(u[i])
    BY <1>1 DEF OnStack
  <2>2. CASE i # 1
    <3>1. i - 1 \in 1..Len(t) /\ u[i] = t[i - 1]
      <4>1. i - 1 \in 1..Len(t) /\ (i - 1) + 1 = i
        BY <1>1, <2>2
      <4> QED BY <1>1, <4>1
    <3> QED BY <1>1, <2>1, <3>1 DEF OnStack
  <2> QED BY <1>1, <2>1, <2>2
<1>3. ASSUME NEW s \in StepsOf(l) PROVE s \in OnStack(u)
  <2>1. 1 \in DOMAIN u /\ s \in StepsOf(u[1])
    BY <1>1, <1>3
  <2> QED BY <2>1 DEF OnStack
<1>4. ASSUME NEW s \in OnStack(t) PROVE s \in OnStack(u)
  <2>1. PICK i \in 1..Len(t) : s \in StepsOf(t[i])
    BY <1>1, <1>4 DEF OnStack
  <2>2. i + 1 \in DOMAIN u /\ u[i + 1] = t[i]
    BY <1>1, <2>1
  <2> QED BY <2>1, <2>2 DEF OnStack
<1> QED BY <1>1, <1>2, <1>3, <1>4 DEF u

(* A stack with a top. *)
LEMMA TopAndBelow ==
  ASSUME NEW t \in Seq(Seq(Steps)), t # <<>>
  PROVE  /\ t[1] \in Seq(Steps) /\ Tail(t) \in Seq(Seq(Steps))
         /\ Len(Tail(t)) = Len(t) - 1 /\ Len(t) \in Nat \ {0}
         /\ \A i \in DOMAIN Tail(t) : i + 1 \in DOMAIN t /\ Tail(t)[i] = t[i + 1]
         /\ t = <<t[1]>> \o Tail(t)
         /\ OnStack(t) = StepsOf(t[1]) \cup OnStack(Tail(t))
<1>1. /\ t[1] \in Seq(Steps) /\ Tail(t) \in Seq(Seq(Steps))
      /\ Len(Tail(t)) = Len(t) - 1 /\ Len(t) \in Nat \ {0}
      /\ \A i \in DOMAIN Tail(t) : i + 1 \in DOMAIN t /\ Tail(t)[i] = t[i + 1]
  OBVIOUS
<1>2. t = <<t[1]>> \o Tail(t)
  OBVIOUS
<1> QED BY <1>1, <1>2, OnTop

(* The tail of a good list has original steps only, and is good whatever goes on. *)
LEMMA GoodTail ==
  ASSUME NEW l \in Seq(Steps), l # <<>>, NEW S \in Nat, NEW E, NEW E2, GoodList(l, S, E)
  PROVE  /\ \A s \in StepsOf(Tail(l)) : s.what \in Original /\ Fits(s, S, E2)
         /\ GoodList(Tail(l), S, E2)
         /\ Fits(l[1], S, E)
<1> DEFINE r == Tail(l)
<1>1. r \in Seq(Steps) /\ \A j \in DOMAIN r : j + 1 \in DOMAIN l /\ r[j] = l[j + 1] /\ j \in Nat \ {0}
  BY HeadAndTail
<1> HIDE DEF r
<1>2. ASSUME NEW j \in DOMAIN r PROVE r[j].what \in Original /\ Fits(r[j], S, E)
  BY <1>1 DEF GoodList
<1>3. \A j \in DOMAIN r : r[j].what \in Original /\ Fits(r[j], S, E2)
  BY <1>2 DEF Fits, Original, EventActions, Operations
<1>4. r # <<>> => r[1].what # "before"
  <2>1. r # <<>> => 1 \in DOMAIN r
    BY <1>1
  <2> QED BY <2>1, <1>3 DEF Original, EventActions, Operations
<1>5. GoodList(r, S, E2)
  BY <1>3, <1>4 DEF GoodList
<1>6. 1 \in DOMAIN l
  OBVIOUS
<1> QED BY <1>3, <1>5, <1>6 DEF StepsOf, GoodList, r

(* A list goes on with at most one more step before its rest. *)
LEMMA GoodCons ==
  ASSUME NEW s \in Steps, NEW r \in Seq(Steps), NEW S, NEW E, Fits(s, S, E), s.what # "before",
         \A x \in StepsOf(r) : x.what \in Original /\ Fits(x, S, E)
  PROVE  <<s>> \o r \in Seq(Steps) /\ GoodList(<<s>> \o r, S, E)
         /\ StepsOf(<<s>> \o r) = {s} \cup StepsOf(r)
<1> DEFINE l == <<s>> \o r
<1>1. /\ l \in Seq(Steps) /\ DOMAIN l = 1..(Len(r) + 1) /\ DOMAIN r = 1..Len(r) /\ Len(r) \in Nat
      /\ l[1] = s /\ \A j \in 1..Len(r) : l[j + 1] = r[j]
  OBVIOUS
<1>2. Tail(l) = r /\ l # <<>>
  OBVIOUS
<1> HIDE DEF l
<1>3. ASSUME NEW j \in DOMAIN l PROVE Fits(l[j], S, E) /\ (j > 1 => l[j].what \in Original)
  <2>1. CASE j = 1
    BY <1>1, <2>1
  <2>2. CASE j # 1
    <3>1. j - 1 \in 1..Len(r) /\ (j - 1) + 1 = j
      BY <1>1, <2>2
    <3>2. l[j] = r[j - 1]
      BY <1>1, <3>1
    <3> QED BY <1>1, <3>1, <3>2 DEF StepsOf
  <2> QED BY <2>1, <2>2
<1>4. GoodList(l, S, E)
  BY <1>1, <1>3 DEF GoodList
<1>5. StepsOf(l) = {s} \cup StepsOf(r)
  BY <1>1, <1>2, HeadAndTail
<1> QED BY <1>1, <1>4, <1>5 DEF l

(* A good list may be put on a good stack when nothing is there, or it is an inner one. *)
LEMMA GoodPush ==
  ASSUME NEW S, NEW E, NEW t, GoodStack(t, S, E), NEW l \in Seq(Steps), GoodList(l, S, E),
         t # <<>> => \A s \in StepsOf(l) : Inner(s)
  PROVE  GoodStack(<<l>> \o t, S, E)
<1> DEFINE u == <<l>> \o t
<1>1. t \in Seq(Seq(Steps)) /\ DOMAIN t = 1..Len(t) /\ Len(t) \in Nat
  BY DEF GoodStack
<1>2. /\ u \in Seq(Seq(Steps)) /\ Len(u) = Len(t) + 1 /\ DOMAIN u = 1..(Len(t) + 1)
      /\ u[1] = l /\ \A i \in DOMAIN t : u[i + 1] = t[i]
  BY <1>1, OnTop
<1> HIDE DEF u
<1>3. ASSUME NEW i \in DOMAIN u
      PROVE  GoodList(u[i], S, E) /\ (i < Len(u) => \A j \in DOMAIN u[i] : Inner(u[i][j]))
  <2>1. CASE i = 1
    <3>1. i < Len(u) => t # <<>>
      BY <1>1, <1>2, <2>1
    <3> QED BY <1>2, <2>1, <3>1 DEF StepsOf
  <2>2. CASE i # 1
    <3>1. i - 1 \in DOMAIN t /\ (i - 1) + 1 = i
      BY <1>1, <1>2, <2>2
    <3>2. u[i] = t[i - 1] /\ (i < Len(u) => i - 1 < Len(t))
      BY <1>1, <1>2, <3>1
    <3> QED BY <3>1, <3>2 DEF GoodStack
  <2> QED BY <2>1, <2>2
<1> QED BY <1>2, <1>3 DEF GoodStack, u

(* The stack below the top of a good one is good; and the top is an inner list unless
   it is the only one. *)
LEMMA GoodPop ==
  ASSUME NEW S, NEW E, NEW t, GoodStack(t, S, E), t # <<>>
  PROVE  /\ GoodStack(Tail(t), S, E)
         /\ GoodList(t[1], S, E) /\ t[1] \in Seq(Steps)
         /\ Tail(t) # <<>> => \A s \in StepsOf(t[1]) : Inner(s)
<1> DEFINE u == Tail(t)
<1>1. /\ t \in Seq(Seq(Steps)) /\ u \in Seq(Seq(Steps)) /\ t[1] \in Seq(Steps)
      /\ Len(u) = Len(t) - 1 /\ Len(t) \in Nat \ {0} /\ DOMAIN t = 1..Len(t)
      /\ \A i \in DOMAIN u : i + 1 \in DOMAIN t /\ u[i] = t[i + 1]
  BY TopAndBelow DEF GoodStack
<1> HIDE DEF u
<1>2. u # <<>> => 1 < Len(t)
  BY <1>1
<1>3. \A i \in DOMAIN u : i < Len(u) => i + 1 < Len(t)
  BY <1>1
<1>4. GoodStack(u, S, E)
  BY <1>1, <1>3 DEF GoodStack
<1>5. 1 \in DOMAIN t
  BY <1>1
<1> QED BY <1>1, <1>2, <1>4, <1>5 DEF GoodStack, StepsOf, u

(* A good stack stays good when sessions and entries are added. *)
LEMMA GoodLater ==
  ASSUME NEW S \in Nat, NEW S2 \in Nat, S <= S2, NEW E, NEW E2, NEW t, GoodStack(t, S, E),
         \A s \in OnStack(t) : s.what = "ended" => s.id \in E2
  PROVE  GoodStack(t, S2, E2)
<1> SUFFICES ASSUME NEW i \in DOMAIN t PROVE GoodList(t[i], S2, E2)
  BY DEF GoodStack
<1>1. GoodList(t[i], S, E) /\ t[i] \in Seq(Steps)
  BY DEF GoodStack
<1>2. ASSUME NEW j \in DOMAIN t[i] PROVE Fits(t[i][j], S2, E2)
  <2>1. t[i][j] \in OnStack(t)
    BY DEF OnStack, StepsOf
  <2>2. t[i][j].what = "ended" => t[i][j].id \in E2
    BY <2>1
  <2>3. Fits(t[i][j], S, E)
    BY <1>1 DEF GoodList
  <2> QED BY <2>2, <2>3 DEF Fits
<1> QED BY <1>1, <1>2 DEF GoodList

-----------------------------------------------------------------------------
(* Answers *)

(* Steps that an answer may hold before its compact calls are numbered. *)
Unnumbered(P) ==
  P \subseteq {s \in Steps : s.what \in Original /\ s.req = 0 /\ (s.what = "switch" => s.id \in 0..sessions)}

(* Numbering only fills in the requests of compact calls. *)
LEMMA AnswerSteps ==
  ASSUME asked \in Nat, NEW P, Unnumbered(P), NEW steps \in Answers(P), NEW E
  PROVE  /\ steps \in Seq(Steps) /\ GoodList(steps, sessions, E) /\ Len(steps) \in Nat
         /\ \A s \in StepsOf(steps) : s.what \in Original /\ \E a \in P : a.what = s.what
         /\ Requests(steps) = Asked(StepsOf(steps))
<1>1. PICK l \in Lists(P) : steps = Numbered(l)
  BY DEF Answers
<1>2. l \in Seq(P) /\ Len(l) \in Nat /\ DOMAIN l = 1..Len(l)
  <2>1. l = <<>> \/ (\E a \in P : l = <<a>>) \/ (\E a, b \in P : l = <<a, b>>)
    BY DEF Lists
  <2>2. <<>> \in Seq(P) /\ \A a \in P : <<a>> \in Seq(P)
    OBVIOUS
  <2>3. ASSUME NEW a \in P, NEW b \in P PROVE <<a, b>> \in Seq(P)
    OBVIOUS
  <2>4. l \in Seq(P)
    BY <2>1, <2>2, <2>3
  <2> QED BY <2>4
<1>3. DOMAIN steps = 1..Len(l)
  BY <1>1, <1>2 DEF Numbered
<1>4. ASSUME NEW j \in 1..Len(l)
      PROVE  /\ steps[j] \in Steps /\ steps[j].what \in Original
             /\ Fits(steps[j], sessions, E) /\ steps[j].what = l[j].what /\ l[j] \in P
  <2>1. l[j] \in P /\ l[j] \in Steps /\ l[j].what \in Original /\ l[j].req = 0
        /\ (l[j].what = "switch" => l[j].id \in 0..sessions)
    BY <1>2 DEF Unnumbered
  <2>2. steps[j] = IF l[j].what = "compact" THEN [l[j] EXCEPT !.req = asked + j] ELSE l[j]
    BY <1>1, <1>2 DEF Numbered
  <2>3. CASE l[j].what = "compact"
    <3>1. steps[j] = [l[j] EXCEPT !.req = asked + j]
      BY <2>2, <2>3
    <3>2. steps[j] \in Steps /\ steps[j].what = "compact" /\ asked + j \in Nat
      BY <2>1, <2>3, <3>1 DEF Steps
    <3> QED BY <2>1, <2>3, <3>2 DEF Fits
  <2>4. CASE l[j].what # "compact"
    <3>1. steps[j] = l[j]
      BY <2>2, <2>4
    <3> QED BY <2>1, <3>1 DEF Fits, Original, EventActions, Operations
  <2> QED BY <2>1, <2>3, <2>4
<1>5. steps = [j \in 1..Len(l) |-> steps[j]]
  BY <1>1, <1>2 DEF Numbered
<1> HIDE <1>1
<1>6. steps \in Seq(Steps)
  <2>1. [j \in 1..Len(l) |-> steps[j]] \in Seq(Steps)
    BY <1>2, <1>4
  <2> QED BY <1>5, <2>1
<1>7. GoodList(steps, sessions, E)
  <2>1. \A j \in DOMAIN steps : Fits(steps[j], sessions, E) /\ (j > 1 => steps[j].what \in Original)
    BY <1>3, <1>4
  <2>2. steps # <<>> => 1 \in 1..Len(l)
    BY <1>2, <1>3, <1>6
  <2>3. steps # <<>> => steps[1].what # "before"
    BY <2>2, <1>4 DEF Original, EventActions, Operations
  <2> QED BY <2>1, <2>3 DEF GoodList
<1>8. \A s \in StepsOf(steps) : s.what \in Original /\ \E a \in P : a.what = s.what
  BY <1>3, <1>4 DEF StepsOf
<1>9. Requests(steps) = Asked(StepsOf(steps))
  BY DEF Requests, Asked, StepsOf
<1> QED BY <1>6, <1>7, <1>8, <1>9

(* What handlers of events answer is such steps, and without session operations. *)
LEMMA EventSteps ==
  ASSUME NEW E
  PROVE  /\ Unnumbered({Plain(what) : what \in EventActions})
         /\ \A a \in {Plain(what) : what \in EventActions} : a.what \in EventActions
<1>1. ASSUME NEW what \in EventActions
      PROVE  /\ Plain(what) \in Steps /\ Plain(what).what = what /\ Plain(what).req = 0
             /\ what \in Original /\ what # "switch"
  BY DEF Plain, Step, Steps, Original, EventActions, Operations
<1> QED BY <1>1 DEF Unnumbered

(* What comes of an event that leaves the mirror at m, calls the requests `called`
   back and lets the host go on with `stack`. *)
Carries(m, called, stack) ==
  /\ asked' \in Nat
  /\ mirror' = m \/ mirror' = [m EXCEPT !.leaf = 0]
  /\ OnStack(stack) \subseteq OnStack(todo')
  /\ \A s \in OnStack(todo') \ OnStack(stack) : s.what \in EventActions
  /\ dropped \subseteq dropped'
  /\ callbacks' \subseteq (callbacks \ called) \cup Asked(OnStack(todo')) \cup (dropped' \ {0})

LEMMA NothingAsked ==
  ASSUME asked \in Nat, NEW stack, todo' = stack, UNCHANGED <<asked, dropped, mirror, callbacks>>
  PROVE  Carries(mirror, {}, stack)
BY DEF Carries

LEMMA EmitCarries ==
  ASSUME asked \in Nat, NEW m, NEW called, NEW S, NEW E, NEW stack, GoodStack(stack, S, E),
         sessions \in Nat, S \in Nat, sessions <= S, EmitCalling(m, called, stack)
  PROVE  Carries(m, called, stack) /\ GoodStack(todo', S, E)
<1> DEFINE P == {Plain(what) : what \in EventActions}
<1>1. PICK steps \in Answers(P) :
        /\ Answering(m, called, steps)
        /\ \/ /\ todo' = IF steps = <<>> THEN stack ELSE <<steps>> \o stack
              /\ UNCHANGED dropped
           \/ /\ steps # <<>> /\ todo' = stack
              /\ dropped' = dropped \cup Requests(steps)
  BY DEF EmitCalling
<1>2. /\ steps \in Seq(Steps) /\ GoodList(steps, sessions, E) /\ Len(steps) \in Nat
      /\ Requests(steps) = Asked(StepsOf(steps))
      /\ \A s \in StepsOf(steps) : s.what \in EventActions
  BY EventSteps, AnswerSteps
<1>3. asked' \in Nat /\ callbacks' = (callbacks \ called) \cup Requests(steps)
      /\ (mirror' = m \/ mirror' = [m EXCEPT !.leaf = 0])
  BY <1>1, <1>2 DEF Answering
<1>4. \A s \in StepsOf(steps) : Inner(s)
  BY <1>2 DEF Inner, EventActions, Operations
<1>5. GoodList(steps, S, E)
  <2>1. \A s : Fits(s, sessions, E) => Fits(s, S, E)
    BY DEF Fits
  <2> QED BY <1>2, <2>1 DEF GoodList
<1>6. stack \in Seq(Seq(Steps))
  BY DEF GoodStack
<1> HIDE DEF P
<1>7. CASE todo' = stack /\ (steps = <<>> \/ dropped' = dropped \cup Requests(steps)) /\ dropped \subseteq dropped'
  <2>1. steps = <<>> => StepsOf(steps) = {}
    BY DEF StepsOf
  <2>2. Requests(steps) \subseteq dropped' \ {0}
    BY <1>2, <1>7, <2>1 DEF Asked
  <2> QED BY <1>3, <1>7, <2>2 DEF Carries
<1>8. CASE todo' = <<steps>> \o stack /\ dropped' = dropped
  <2>1. GoodStack(todo', S, E)
    BY <1>2, <1>4, <1>5, <1>8, GoodPush
  <2>2. OnStack(todo') = StepsOf(steps) \cup OnStack(stack)
    BY <1>2, <1>6, <1>8, OnTop
  <2>3. Requests(steps) \subseteq Asked(OnStack(todo'))
    BY <1>2, <2>2 DEF Asked
  <2> QED BY <1>2, <1>3, <1>8, <2>1, <2>2, <2>3 DEF Carries
<1>9. CASE steps = <<>> /\ todo' = stack /\ dropped' = dropped
  BY <1>7, <1>9
<1> QED BY <1>1, <1>7, <1>8, <1>9

-----------------------------------------------------------------------------
(* The step the host is at *)

(* The steps but the one the host is at. *)
Left == StepsOf(Rest) \cup OnStack(Tail(todo))

LEMMA AtStep ==
  ASSUME SessionInv, StackInv, NEW what, At(what)
  PROVE  /\ Top[1] \in Steps /\ Top[1].what = what /\ Fits(Top[1], sessions, EntriesOf(current))
         /\ Top \in Seq(Steps) /\ Top # <<>> /\ Rest \in Seq(Steps) /\ Tail(todo) \in Seq(Seq(Steps))
         /\ OnStack(todo) = {Top[1]} \cup Left
         /\ \A s \in StepsOf(Rest) : s.what \in Original
         /\ what \in Operations \cup {"started", "before"} => Tail(todo) = <<>>
<1>1. todo # <<>> /\ Top # <<>> /\ Top[1].what = what /\ todo \in Seq(Seq(Steps))
  BY DEF At, StackInv, GoodStack
<1>2. /\ GoodList(Top, sessions, EntriesOf(current)) /\ Top \in Seq(Steps)
      /\ Tail(todo) # <<>> => \A s \in StepsOf(Top) : Inner(s)
  BY <1>1, GoodPop DEF StackInv, Top
<1>3. /\ Top[1] \in Steps /\ Rest \in Seq(Steps) /\ StepsOf(Top) = {Top[1]} \cup StepsOf(Rest)
  BY <1>1, <1>2, HeadAndTail DEF Rest
<1>4. sessions \in Nat
  BY DEF SessionInv
<1>5. Fits(Top[1], sessions, EntriesOf(current)) /\ \A s \in StepsOf(Rest) : s.what \in Original
  BY <1>1, <1>2, <1>4, GoodTail DEF Rest
<1>6. Tail(todo) \in Seq(Seq(Steps)) /\ OnStack(todo) = StepsOf(Top) \cup OnStack(Tail(todo))
  BY <1>1, TopAndBelow DEF Top
<1>7. what \in Operations \cup {"started", "before"} => Tail(todo) = <<>>
  BY <1>1, <1>2, <1>3 DEF Inner
<1> QED BY <1>1, <1>2, <1>3, <1>5, <1>6, <1>7 DEF Left

(* The host goes on, with S sessions and the entries E in the one that is open. *)
LEMMA GoesOn ==
  ASSUME SessionInv, StackInv, NEW what, At(what), NEW S \in Nat, sessions <= S, NEW E,
         Tail(todo) = <<>> \/ EntriesOf(current) \subseteq E
  PROVE  /\ GoodStack(Tail(todo), S, E)
         /\ GoodStack(Then(<<>>), S, E) /\ OnStack(Then(<<>>)) = Left
         /\ \A s \in Steps :
              Fits(s, S, E) /\ s.what # "before" /\ (Inner(s) \/ Tail(todo) = <<>>)
                => GoodStack(Then(<<s>>), S, E) /\ OnStack(Then(<<s>>)) = {s} \cup Left
<1>1. todo # <<>> /\ sessions \in Nat
  BY DEF At, SessionInv
<1>2. /\ Top \in Seq(Steps) /\ Top # <<>> /\ Rest \in Seq(Steps) /\ Tail(todo) \in Seq(Seq(Steps))
      /\ \A s \in StepsOf(Rest) : s \in StepsOf(Top)
  <2>1. Top \in Seq(Steps) /\ Top # <<>> /\ Rest \in Seq(Steps) /\ Tail(todo) \in Seq(Seq(Steps))
    BY AtStep
  <2> QED BY <2>1, HeadAndTail DEF Rest
<1>3. /\ GoodStack(Tail(todo), sessions, EntriesOf(current)) /\ GoodList(Top, sessions, EntriesOf(current))
      /\ Tail(todo) # <<>> => \A s \in StepsOf(Top) : Inner(s)
  BY <1>1, GoodPop DEF StackInv, Top
<1>4. GoodStack(Tail(todo), S, E)
  <2>1. Tail(todo) = <<>> => OnStack(Tail(todo)) = {}
    BY DEF OnStack
  <2>2. ASSUME NEW s \in OnStack(Tail(todo)), s.what = "ended" PROVE s.id \in E
    <3>1. PICK i \in DOMAIN Tail(todo) : s \in StepsOf(Tail(todo)[i])
      BY DEF OnStack
    <3>2. PICK j \in DOMAIN Tail(todo)[i] : s = Tail(todo)[i][j]
      BY <3>1 DEF StepsOf
    <3>3. GoodList(Tail(todo)[i], sessions, EntriesOf(current))
      BY <1>3 DEF GoodStack
    <3>4. s.id \in EntriesOf(current)
      BY <2>2, <3>2, <3>3 DEF GoodList, Fits
    <3> QED BY <2>1, <3>4
  <2> QED BY <1>1, <1>3, <2>2, GoodLater
<1>5. /\ \A s \in StepsOf(Rest) : s.what \in Original
      /\ \A s \in StepsOf(Rest) : Fits(s, S, E)
      /\ GoodList(Rest, S, E)
  <2>1. GoodList(Rest, sessions, E) /\ \A s \in StepsOf(Rest) : s.what \in Original /\ Fits(s, sessions, E)
    BY <1>1, <1>2, <1>3, GoodTail DEF Rest
  <2>2. \A s : Fits(s, sessions, E) => Fits(s, S, E)
    BY <1>1 DEF Fits
  <2> QED BY <2>1, <2>2 DEF GoodList
<1>6. /\ Then(<<>>) = <<Rest>> \o Tail(todo)
      /\ \A s \in Steps : Then(<<s>>) = <<<<s>> \o Rest>> \o Tail(todo)
  <2>1. <<>> \o Rest = Rest
    BY <1>2
  <2> QED BY <2>1 DEF Then
<1>7. GoodStack(Then(<<>>), S, E) /\ OnStack(Then(<<>>)) = Left
  <2>1. Tail(todo) # <<>> => \A s \in StepsOf(Rest) : Inner(s)
    BY <1>2, <1>3
  <2>2. GoodStack(Then(<<>>), S, E)
    BY <1>2, <1>4, <1>5, <1>6, <2>1, GoodPush
  <2> QED BY <1>2, <1>6, <2>2, OnTop DEF Left
<1>8. ASSUME NEW s \in Steps, Fits(s, S, E), s.what # "before", Inner(s) \/ Tail(todo) = <<>>
      PROVE  GoodStack(Then(<<s>>), S, E) /\ OnStack(Then(<<s>>)) = {s} \cup Left
  <2>1. /\ <<s>> \o Rest \in Seq(Steps) /\ GoodList(<<s>> \o Rest, S, E)
        /\ StepsOf(<<s>> \o Rest) = {s} \cup StepsOf(Rest)
    BY <1>2, <1>5, <1>8, GoodCons
  <2>2. Tail(todo) # <<>> => \A x \in StepsOf(<<s>> \o Rest) : Inner(x)
    BY <1>2, <1>3, <1>8, <2>1
  <2> DEFINE l == <<s>> \o Rest
  <2>3. Then(<<s>>) = <<l>> \o Tail(todo)
    BY <1>6
  <2> HIDE DEF l
  <2>4. GoodStack(Then(<<s>>), S, E)
    BY <1>4, <2>1, <2>2, <2>3, GoodPush DEF l
  <2>5. OnStack(Then(<<s>>)) = StepsOf(l) \cup OnStack(Tail(todo))
    BY <1>2, <2>1, <2>3, OnTop DEF l
  <2> QED BY <2>1, <2>4, <2>5 DEF Left, l
<1> QED BY <1>4, <1>7, <1>8

-----------------------------------------------------------------------------
(* The sessions *)

LEMMA EntriesAreNumbers == SessionInv => \A s : EntriesOf(s) \subseteq Nat
<1>1. SessionInv => DOMAIN log = 1..Len(log) /\ Len(log) \in Nat
  BY DEF SessionInv
<1> QED BY <1>1 DEF EntriesOf

(* Entries are added to a session there is, or to a new one; either is open then. *)
LEMMA Appended ==
  ASSUME SessionInv, sessions' \in {sessions, sessions + 1}, current' \in 1..sessions',
         sessions' # sessions => current' = sessions',
         NEW below \in 0..Len(log), NEW types \in Seq(Kinds), types # <<>>,
         AppendTo(current', below, types)
  PROVE  /\ SessionInv' /\ Len(log) \in Nat
         /\ DOMAIN log' = 1..(Len(log) + Len(types)) /\ DOMAIN log = 1..Len(log)
         /\ \A i \in DOMAIN log : log'[i] = log[i]
         /\ \A i \in 1..Len(types) : log'[Len(log) + i].in = current' /\ log'[Len(log) + i].type = types[i]
         /\ leaf' = Len(log) + Len(types)
<1> DEFINE E     == [in : Nat, parent : Nat, type : Kinds]
           added == [i \in DOMAIN types |->
                       [in |-> current', parent |-> IF i = 1 THEN below ELSE Len(log) + i - 1, type |-> types[i]]]
<1>1. /\ log \in Seq(E) /\ Len(log) \in Nat /\ DOMAIN log = 1..Len(log) /\ sessions \in Nat
      /\ Len(types) \in Nat \ {0} /\ DOMAIN types = 1..Len(types) /\ current' \in Nat
  BY DEF SessionInv
<1>2. /\ \A i \in 1..Len(types) : added[i] \in E /\ added[i].in = current' /\ added[i].type = types[i]
                                  /\ added[i].parent < Len(log) + i
      /\ added \in Seq(E) /\ Len(added) = Len(types)
  <2>1. ASSUME NEW i \in 1..Len(types)
        PROVE  added[i] \in E /\ added[i].in = current' /\ added[i].type = types[i] /\ added[i].parent < Len(log) + i
    <3>1. (IF i = 1 THEN below ELSE Len(log) + i - 1) \in Nat /\ types[i] \in Kinds
      BY <1>1
    <3>2. (IF i = 1 THEN below ELSE Len(log) + i - 1) < Len(log) + i
      BY <1>1
    <3> QED BY <1>1, <3>1, <3>2
  <2> QED BY <1>1, <2>1
<1>3. log' = log \o added /\ leaf' = Len(log) + Len(types)
  BY DEF AppendTo
<1>9. \A i \in DOMAIN log : log[i].parent < i /\ log[i].in \in 1..sessions
  BY DEF SessionInv
<1>10. \A s \in 1..sessions : \E i \in DOMAIN log : log[i].in = s
  BY DEF SessionInv, EntriesOf
<1> HIDE DEF E, added
<1>4. /\ log' \in Seq(E) /\ DOMAIN log' = 1..(Len(log) + Len(types))
      /\ \A i \in 1..Len(log) : log'[i] = log[i]
      /\ \A i \in 1..Len(types) : log'[Len(log) + i] = added[i]
  <2>1. ASSUME NEW a \in Seq(E), NEW b \in Seq(E)
        PROVE  /\ a \o b \in Seq(E) /\ DOMAIN (a \o b) = 1..(Len(a) + Len(b))
               /\ \A i \in 1..Len(a) : (a \o b)[i] = a[i]
               /\ \A i \in 1..Len(b) : (a \o b)[Len(a) + i] = b[i]
    OBVIOUS
  <2>2. /\ log \o added \in Seq(E) /\ DOMAIN (log \o added) = 1..(Len(log) + Len(added))
        /\ \A i \in 1..Len(log) : (log \o added)[i] = log[i]
        /\ \A i \in 1..Len(added) : (log \o added)[Len(log) + i] = added[i]
    BY ONLY <1>1, <1>2, <2>1
  <2> DEFINE u == log \o added
  <2>3. log' = u
    BY <1>3
  <2>4. /\ u \in Seq(E) /\ DOMAIN u = 1..(Len(log) + Len(added))
        /\ \A i \in 1..Len(log) : u[i] = log[i]
        /\ \A i \in 1..Len(added) : u[Len(log) + i] = added[i]
    BY <2>2
  <2> HIDE DEF u
  <2> QED BY <1>2, <2>3, <2>4
<1>5. ASSUME NEW i \in DOMAIN log' PROVE log'[i].parent < i /\ log'[i].in \in 1..sessions'
  <2>1. CASE i \in 1..Len(log)
    <3>1. log'[i] = log[i] /\ log[i].in \in 1..sessions /\ log[i].parent < i
      BY <1>1, <1>4, <1>9, <2>1
    <3> QED BY <1>1, <3>1
  <2>2. CASE i \notin 1..Len(log)
    <3>1. i - Len(log) \in 1..Len(types) /\ i = Len(log) + (i - Len(log))
      BY <1>1, <1>4, <2>2
    <3> QED BY <1>2, <1>4, <3>1
  <2> QED BY <2>1, <2>2
<1>6. leaf' \in EntriesOf(current)'
  <2>1. leaf' \in DOMAIN log' /\ log'[leaf'].in = current'
    BY <1>1, <1>2, <1>3, <1>4
  <2> QED BY <2>1 DEF EntriesOf
<1>7. ASSUME NEW s \in 1..sessions' PROVE EntriesOf(s)' # {}
  <2>1. CASE s \in 1..sessions
    <3>1. PICK i \in DOMAIN log : log[i].in = s
      BY <1>10, <2>1
    <3>2. i \in DOMAIN log' /\ log'[i].in = s
      BY <1>1, <1>4, <3>1
    <3> QED BY <3>2 DEF EntriesOf
  <2>2. CASE s \notin 1..sessions
    <3>1. s = current'
      BY <1>1, <2>2
    <3> QED BY <1>6, <3>1
  <2> QED BY <2>1, <2>2
<1>8. SessionInv'
  <2>1. sessions' \in Nat
    BY <1>1
  <2> QED BY <1>4, <1>5, <1>6, <1>7, <2>1 DEF SessionInv, E
<1> QED BY <1>1, <1>2, <1>3, <1>4, <1>8

(* One entry is added to the session that is open. *)
LEMMA AppendedHere ==
  ASSUME SessionInv, UNCHANGED <<current, sessions>>, NEW below \in EntriesOf(current),
         NEW kind \in Kinds, AppendTo(current, below, <<kind>>)
  PROVE  /\ SessionInv' /\ leaf' \notin DOMAIN log /\ leaf' \in Nat
         /\ EntriesOf(current)' = EntriesOf(current) \cup {leaf'}
         /\ Mirrored' = IF kind = "note" THEN Mirrored ELSE Mirrored \cup {leaf'}
<1>1. below \in 0..Len(log) /\ <<kind>> \in Seq(Kinds) /\ <<kind>> # <<>> /\ Len(<<kind>>) = 1
      /\ <<kind>>[1] = kind /\ current' \in 1..sessions' /\ sessions \in Nat
  <2>1. DOMAIN log = 1..Len(log) /\ Len(log) \in Nat /\ below \in DOMAIN log
    BY DEF EntriesOf, SessionInv
  <2> QED BY <2>1 DEF SessionInv
<1>2. /\ SessionInv' /\ Len(log) \in Nat /\ leaf' = Len(log) + 1
      /\ DOMAIN log' = 1..(Len(log) + 1) /\ DOMAIN log = 1..Len(log)
      /\ \A i \in DOMAIN log : log'[i] = log[i]
      /\ log'[Len(log) + 1].in = current /\ log'[Len(log) + 1].type = kind
  <2>1. AppendTo(current', below, <<kind>>) /\ sessions' \in {sessions, sessions + 1}
    OBVIOUS
  <2> DEFINE types == <<kind>>
  <2> HIDE DEF types
  <2>2. /\ SessionInv' /\ Len(log) \in Nat
        /\ DOMAIN log' = 1..(Len(log) + Len(types)) /\ DOMAIN log = 1..Len(log)
        /\ \A i \in DOMAIN log : log'[i] = log[i]
        /\ \A i \in 1..Len(types) : log'[Len(log) + i].in = current' /\ log'[Len(log) + i].type = types[i]
        /\ leaf' = Len(log) + Len(types)
    BY <1>1, <2>1, Appended DEF types
  <2> QED BY <1>1, <2>2 DEF types
<1> QED BY <1>2 DEF EntriesOf, Mirrored

-----------------------------------------------------------------------------
(* Branches: induction over a set of numbers, and functions defined by recursion. *)

(* A set with 0 that has with each number the next has all of them. *)
LEMMA SetInduction ==
  ASSUME NEW S, 0 \in S, \A n \in Nat : n \in S => n + 1 \in S
  PROVE  Nat \subseteq S
<1> DEFINE R == {ss \in Nat \X Nat : ss[1] < ss[2]}
           T == Nat \ S
<1>1. IsWellFoundedOn(R, Nat)
  BY NatLessThanWellFounded DEF OpToRel
<1>2. \A x, y \in Nat : x < y => <<x, y>> \in R
  OBVIOUS
<1> HIDE DEF R
<1>3. CASE T # {}
  <2>1. T \subseteq Nat
    OBVIOUS
  <2> HIDE DEF T
  <2>2. PICK x \in T : \A y \in T : ~ (<<y, x>> \in R)
    BY <1>1, <1>3, <2>1, WFMin
  <2> USE DEF T
  <2>3. x # 0 /\ x - 1 \in Nat /\ x - 1 < x
    BY <2>2
  <2>4. x - 1 \in T
    BY <2>2, <2>3
  <2> QED BY <2>2, <2>3, <2>4, <1>2
<1> QED BY <1>3

(* So has a set that has an index whenever it has its predecessor, an index before. *)
LEMMA IndexInduction ==
  ASSUME NEW n \in Nat, NEW K, 0 \in K, NEW pred \in [1..n -> 0..n],
         \A i \in 1..n : pred[i] < i /\ (pred[i] \in K => i \in K)
  PROVE  0..n \subseteq K
<1> DEFINE S == {m \in Nat : \A i \in 0..n : i <= m => i \in K}
<1>1. 0 \in S
  OBVIOUS
<1>2. ASSUME NEW m \in Nat, m \in S PROVE m + 1 \in S
  <2> SUFFICES ASSUME m + 1 \in 1..n PROVE m + 1 \in K
    BY <1>2
  <2>1. pred[m + 1] \in 0..n /\ pred[m + 1] <= m
    OBVIOUS
  <2> QED BY <1>2, <2>1
<1> HIDE DEF S
<1>3. n \in S
  BY <1>1, <1>2, SetInduction
<1> QED BY <1>3 DEF S

Solves(g, m, v, pred, step) ==
  g[0] = v /\ \A i \in 1..m : g[i] = step[<<i, g[pred[i]]>>]

(* The value at each index is made of the value at its predecessor: there is such a function. *)
LEMMA RecursionHolds ==
  ASSUME NEW n \in Nat, NEW V, NEW v \in V, NEW pred \in [1..n -> 0..n],
         \A i \in 1..n : pred[i] < i, NEW step \in [(1..n) \X V -> V]
  PROVE  \E g \in [0..n -> V] : Solves(g, n, v, pred, step)
<1> DEFINE S == {m \in Nat : m <= n => \E g \in [0..m -> V] : Solves(g, m, v, pred, step)}
<1>1. 0 \in S
  <2> DEFINE g == [i \in 0..0 |-> v]
  <2>1. g \in [0..0 -> V] /\ g[0] = v
    OBVIOUS
  <2> HIDE DEF g
  <2>2. Solves(g, 0, v, pred, step)
    BY <2>1 DEF Solves
  <2> QED BY <2>1, <2>2
<1>2. ASSUME NEW m \in Nat, m \in S PROVE m + 1 \in S
  <2> SUFFICES ASSUME m + 1 <= n PROVE \E g \in [0..(m + 1) -> V] : Solves(g, m + 1, v, pred, step)
    OBVIOUS
  <2>1. PICK g \in [0..m -> V] : Solves(g, m, v, pred, step)
    BY <1>2
  <2> DEFINE last == step[<<m + 1, g[pred[m + 1]]>>]
             h    == [i \in 0..(m + 1) |-> IF i = m + 1 THEN last ELSE g[i]]
  <2>2. pred[m + 1] \in 0..m /\ m + 1 \in 1..n
    OBVIOUS
  <2>3. last \in V
    BY <2>1, <2>2
  <2> HIDE DEF last
  <2>4. h \in [0..(m + 1) -> V]
    BY <2>3
  <2>5. h[m + 1] = last /\ \A i \in 0..m : h[i] = g[i]
    OBVIOUS
  <2> HIDE DEF h
  <2>6. h[0] = v
    BY <2>1, <2>5 DEF Solves
  <2>7. ASSUME NEW i \in 1..(m + 1) PROVE h[i] = step[<<i, h[pred[i]]>>]
    <3>1. CASE i = m + 1
      BY <2>2, <2>5, <3>1 DEF last
    <3>2. CASE i \in 1..m
      <4>1. pred[i] \in 0..m
        BY <3>2
      <4> QED BY <2>1, <2>5, <3>2, <4>1 DEF Solves
    <3> QED BY <3>1, <3>2
  <2> QED BY <2>4, <2>6, <2>7 DEF Solves
<1> HIDE DEF S
<1>3. n \in S
  BY <1>1, <1>2, SetInduction
<1> QED BY <1>3 DEF S

Parents == [i \in 1..Len(log) |-> log[i].parent]

(* The branch of an entry is made of entries, and not empty. *)
LEMMA BranchOfEntries ==
  ASSUME SessionInv, NEW id \in DOMAIN log
  PROVE  /\ BranchOf(id) \in Seq(DOMAIN log) /\ BranchOf(id) # <<>>
         /\ \A i \in DOMAIN BranchOf(id) : log[BranchOf(id)[i]].type \in Kinds
<1> DEFINE n == Len(log)
           V == Seq(1..n)
           step == [x \in (1..n) \X V |-> Append(x[2], x[1])]
           F(g) == [i \in 0..n |-> IF i = 0 THEN <<>> ELSE Append(g[log[i].parent], i)]
<1>1. /\ n \in Nat /\ DOMAIN log = 1..n /\ <<>> \in V
      /\ \A i \in 1..n : log[i].parent \in 0..n /\ log[i].parent < i /\ log[i].type \in Kinds
  <2>1. n \in Nat /\ DOMAIN log = 1..n
    BY DEF SessionInv
  <2>2. ASSUME NEW i \in 1..n PROVE log[i].parent \in 0..n /\ log[i].parent < i /\ log[i].type \in Kinds
    <3> DEFINE E == [in : Nat, parent : Nat, type : Kinds]
    <3>1. log \in Seq(E) /\ log[i].parent < i
      BY <2>1 DEF SessionInv
    <3> HIDE DEF E
    <3>2. log[i] \in E
      BY <2>1, <3>1
    <3> QED BY <2>1, <3>1, <3>2 DEF E
  <2> QED BY <2>1, <2>2
<1>2. Parents \in [1..n -> 0..n] /\ \A i \in 1..n : Parents[i] < i /\ Parents[i] = log[i].parent
  BY <1>1 DEF Parents
<1>3. \A i \in 1..n, b \in V : Append(b, i) \in V /\ Append(b, i) # <<>>
  OBVIOUS
<1>4. step \in [(1..n) \X V -> V] /\ \A i \in 1..n, b \in V : step[<<i, b>>] = Append(b, i)
  BY <1>3
<1> HIDE DEF step, V
<1>5. PICK g \in [0..n -> V] : Solves(g, n, <<>>, Parents, step)
  BY <1>1, <1>2, <1>4, RecursionHolds
<1>6. g[0] = <<>> /\ \A i \in 1..n : g[i] = Append(g[log[i].parent], i)
  BY <1>1, <1>2, <1>4, <1>5 DEF Solves
<1>7. g = F(g)
  <2>1. \A i \in 0..n : g[i] = F(g)[i]
    BY <1>1, <1>6
  <2> QED BY <1>5, <2>1
<1> DEFINE h == CHOOSE f : f = F(f)
<1> HIDE DEF F
<1>8. h = F(h)
  BY <1>7
<1>9. BranchOf(id) = h[id]
  BY DEF BranchOf, F
<1> HIDE DEF h
<1>10. h[0] = <<>> /\ \A i \in 1..n : h[i] = Append(h[log[i].parent], i)
  <2>1. \A i \in 0..n : F(h)[i] = IF i = 0 THEN <<>> ELSE Append(h[log[i].parent], i)
    BY DEF F
  <2>2. \A i \in 0..n : h[i] = IF i = 0 THEN <<>> ELSE Append(h[log[i].parent], i)
    BY <1>8, <2>1, Zenon
  <2>3. 0 \in 0..n /\ \A i \in 1..n : i \in 0..n /\ i # 0
    BY <1>1
  <2> QED BY <2>2, <2>3
<1> DEFINE K == {i \in 0..n : h[i] \in V}
<1>11. 0 \in K /\ \A i \in 1..n : Parents[i] \in K => i \in K
  <2>1. 0 \in K
    BY <1>1, <1>10
  <2>2. ASSUME NEW i \in 1..n, Parents[i] \in K PROVE i \in K
    <3>1. h[log[i].parent] \in V
      BY <1>2, <2>2
    <3>2. h[i] \in V
      BY <1>3, <1>10, <3>1
    <3> QED BY <1>1, <3>2
  <2> QED BY <2>1, <2>2
<1>12. 0..n \subseteq K
  <2> HIDE DEF K
  <2> QED BY <1>1, <1>2, <1>11, IndexInduction
<1>13. h[id] \in V /\ h[id] # <<>>
  <2>1. id \in 1..n /\ log[id].parent \in K
    BY <1>1, <1>12
  <2> QED BY <1>3, <1>10, <2>1
<1>14. \A b \in V : \A i \in DOMAIN b : b[i] \in 1..n
  BY DEF V
<1> QED BY <1>1, <1>9, <1>13, <1>14 DEF V

-----------------------------------------------------------------------------
(* What a step leaves *)

(* The invariant after a step: it needs to be shown that the requests of the stack
   before are on the stack after it, called back or given up, and that the mirror the
   step leaves follows the host. *)
LEMMA StepKeeps ==
  ASSUME ExtInv, SessionInv', StackInv', NEW m \in Mirrors, NEW called, NEW stack,
         Carries(m, called, stack),
         \A s \in OnStack(todo) : s.req \in {0} \cup called \cup dropped' \cup Asked(OnStack(stack)),
         ~stale' /\ ~Starting(OnStack(stack)) =>
           /\ m.in = current'
           /\ Mirrored' \subseteq m.known \cup Ended(OnStack(stack))
           /\ m.known \subseteq EntriesOf(current)'
           /\ Ended(OnStack(stack)) = {} /\ leaf' \in Mirrored' /\ m.leaf # 0 /\ ~crossed'
                => m.leaf = leaf'
  PROVE  ExtInv'
<1>1. /\ mirror' \in Mirrors /\ mirror'.in = m.in /\ mirror'.known = m.known
      /\ mirror'.leaf # 0 => mirror'.leaf = m.leaf
  <2>1. CASE mirror' = m
    BY <2>1
  <2>2. CASE mirror' = [m EXCEPT !.leaf = 0]
    BY <2>2 DEF Mirrors
  <2> QED BY <2>1, <2>2 DEF Carries
<1>2. TypeInv'
  BY <1>1 DEF TypeInv, Carries
<1>3. OnStack(stack) \subseteq OnStack(todo') /\ \A s \in OnStack(todo') \ OnStack(stack) : s.what \in EventActions
  BY DEF Carries
<1>4. CallInv'
  <2>1. Asked(OnStack(stack)) \subseteq Asked(OnStack(todo'))
    BY <1>3 DEF Asked
  <2>2. callbacks \subseteq (dropped \cup Asked(OnStack(todo))) \ {0} /\ dropped \subseteq dropped'
        /\ callbacks' \subseteq (callbacks \ called) \cup Asked(OnStack(todo')) \cup (dropped' \ {0})
    BY DEF ExtInv, CallInv, Carries
  <2>3. \A r \in Asked(OnStack(todo)) : r \in called \cup dropped' \cup Asked(OnStack(stack))
    BY DEF Asked
  <2>4. 0 \notin Asked(OnStack(todo'))
    BY DEF Asked
  <2> QED BY <2>1, <2>2, <2>3, <2>4 DEF CallInv
<1>5. Starting(OnStack(todo')) <=> Starting(OnStack(stack))
  BY <1>3 DEF Starting, EventActions
<1>6. Ended(OnStack(todo')) = Ended(OnStack(stack))
  BY <1>3 DEF Ended, EventActions
<1>7. MirrorInv'
  <2> SUFFICES ASSUME ~stale', ~Starting(OnStack(todo'))
               PROVE  /\ mirror'.in = current'
                      /\ Mirrored' \subseteq mirror'.known \cup Ended(OnStack(todo'))
                      /\ mirror'.known \subseteq EntriesOf(current)'
                      /\ Ended(OnStack(todo')) = {} /\ leaf' \in Mirrored' /\ mirror'.leaf # 0 /\ ~crossed'
                           => mirror'.leaf = leaf'
    BY DEF MirrorInv
  <2> QED BY <1>1, <1>5, <1>6
<1> QED BY <1>2, <1>4, <1>7 DEF ExtInv

(* A step that leaves the sessions alone and the mirror with them. *)
LEMMA QuietStep ==
  ASSUME ExtInv, UNCHANGED <<sessionVars, crossed, stale>>, StackInv', NEW called, NEW stack,
         Carries(mirror, called, stack),
         \A s \in OnStack(todo) : s.req \in {0} \cup called \cup dropped' \cup Asked(OnStack(stack)),
         Starting(OnStack(todo)) => Starting(OnStack(stack)),
         Ended(OnStack(stack)) = Ended(OnStack(todo))
  PROVE  ExtInv'
<1>1. SessionInv' /\ Mirrored' = Mirrored /\ EntriesOf(current)' = EntriesOf(current)
      /\ current' = current /\ leaf' = leaf
  BY DEF ExtInv, TypeInv, SessionInv, sessionVars, Mirrored, EntriesOf
<1>2. mirror \in Mirrors
  BY DEF ExtInv, TypeInv
<1>3. ~stale' /\ ~Starting(OnStack(stack)) =>
           /\ mirror.in = current'
           /\ Mirrored' \subseteq mirror.known \cup Ended(OnStack(stack))
           /\ mirror.known \subseteq EntriesOf(current)'
           /\ Ended(OnStack(stack)) = {} /\ leaf' \in Mirrored' /\ mirror.leaf # 0 /\ ~crossed'
                => mirror.leaf = leaf'
  BY <1>1 DEF ExtInv, MirrorInv
<1> QED BY <1>1, <1>2, <1>3, StepKeeps

(* The requests of a list are those of its steps. *)
LEMMA RequestsAsked ==
  ASSUME NEW l
  PROVE  Requests(l) = Asked(StepsOf(l))
BY DEF Requests, Asked, StepsOf

(* An error ends the list, and its requests are given up. *)
LEMMA FailCarries ==
  ASSUME ExtInv, NEW what, At(what), Fail, Top[1].req = 0
  PROVE  /\ Carries(mirror, {}, Tail(todo))
         /\ \A s \in OnStack(todo) : s.req \in {0} \cup {} \cup dropped' \cup Asked(OnStack(Tail(todo)))
<1>1. Carries(mirror, {}, Tail(todo))
  BY DEF Carries, Fail, ExtInv, CallInv, TypeInv
<1>2. ASSUME NEW s \in OnStack(todo), s.req # 0
      PROVE  s.req \in dropped' \cup Asked(OnStack(Tail(todo)))
  <2>1. s \in StepsOf(Rest) \/ s \in OnStack(Tail(todo))
    BY <1>2, AtStep DEF ExtInv, TypeInv, Left
  <2>2. dropped' = dropped \cup Asked(StepsOf(Rest))
    BY RequestsAsked DEF Fail
  <2> QED BY <1>2, <2>1, <2>2 DEF Asked
<1> QED BY <1>1, <1>2

-----------------------------------------------------------------------------
(* The steps *)

(* An event, or none, and the host goes on with a stack that is good. *)
LEMMA EventOrNot ==
  ASSUME ExtInv, sessions' \in Nat, sessions <= sessions', NEW m, NEW called, NEW stack,
         GoodStack(stack, sessions', EntriesOf(current)'),
         \/ EmitCalling(m, called, stack)
         \/ /\ m = mirror /\ called = {} /\ todo' = stack
            /\ UNCHANGED <<asked, dropped, mirror, callbacks>>
  PROVE  Carries(m, called, stack) /\ StackInv'
<1>1. asked \in Nat /\ sessions \in Nat
  BY DEF ExtInv, TypeInv, SessionInv
<1>2. CASE EmitCalling(m, called, stack)
  <2> DEFINE E == EntriesOf(current)'
  <2>1. GoodStack(stack, sessions', E)
    OBVIOUS
  <2> HIDE DEF E
  <2>2. Carries(m, called, stack) /\ GoodStack(todo', sessions', E)
    BY <1>1, <1>2, <2>1, EmitCarries
  <2> QED BY <2>2 DEF StackInv, E
<1>3. CASE m = mirror /\ called = {} /\ todo' = stack /\ UNCHANGED <<asked, dropped, mirror, callbacks>>
  BY <1>1, <1>3, NothingAsked DEF StackInv
<1> QED BY <1>2, <1>3

(* A step in the place of one that has been taken. *)
LEMMA Replaced ==
  ASSUME ExtInv, NEW what, At(what), UNCHANGED sessionVars, NEW s \in Steps,
         Fits(s, sessions, EntriesOf(current)), s.what # "before", Inner(s)
  PROVE  /\ GoodStack(Then(<<s>>), sessions', EntriesOf(current)')
         /\ OnStack(Then(<<s>>)) = {s} \cup Left
         /\ sessions' \in Nat /\ sessions <= sessions'
<1>1. sessions' = sessions /\ EntriesOf(current)' = EntriesOf(current) /\ sessions \in Nat
  BY DEF ExtInv, TypeInv, SessionInv, sessionVars, EntriesOf
<1>2. sessions <= sessions
  BY <1>1
<1> DEFINE E == EntriesOf(current)
<1>3. EntriesOf(current) \subseteq E
  OBVIOUS
<1> HIDE DEF E
<1>4. SessionInv /\ StackInv
  BY DEF ExtInv, TypeInv
<1>5. Fits(s, sessions, E)
  BY DEF E
<1>6. GoodStack(Then(<<s>>), sessions, E) /\ OnStack(Then(<<s>>)) = {s} \cup Left
  BY <1>1, <1>2, <1>3, <1>4, <1>5, GoesOn
<1> QED BY <1>1, <1>2, <1>6 DEF E

(* A step is taken and none comes in its place, while the sessions may grow. *)
LEMMA Taken ==
  ASSUME ExtInv, NEW what, At(what), sessions' \in Nat, sessions <= sessions',
         Tail(todo) = <<>> \/ EntriesOf(current) \subseteq EntriesOf(current)'
  PROVE  /\ GoodStack(Then(<<>>), sessions', EntriesOf(current)')
         /\ GoodStack(Tail(todo), sessions', EntriesOf(current)')
         /\ OnStack(Then(<<>>)) = Left
<1> DEFINE E == EntriesOf(current)'
<1>1. SessionInv /\ StackInv
  BY DEF ExtInv, TypeInv
<1>2. Tail(todo) = <<>> \/ EntriesOf(current) \subseteq E
  OBVIOUS
<1> HIDE DEF E
<1>3. GoodStack(Tail(todo), sessions', E) /\ GoodStack(Then(<<>>), sessions', E) /\ OnStack(Then(<<>>)) = Left
  BY <1>1, <1>2, GoesOn
<1> QED BY <1>3 DEF E

(* What is known of the step the host is at. *)
LEMMA Current ==
  ASSUME ExtInv, NEW what, At(what)
  PROVE  /\ Top[1] \in Steps /\ Top[1].what = what /\ Fits(Top[1], sessions, EntriesOf(current))
         /\ OnStack(todo) = {Top[1]} \cup Left
         /\ what \notin {"compact", "refused", "summarised"} => Top[1].req = 0
         /\ what \in Operations \cup {"started", "before"} => Tail(todo) = <<>>
BY AtStep DEF ExtInv, TypeInv, Fits

(* A step made by the host is one. *)
LEMMA MadeSteps ==
  /\ \A what \in {"append", "started"} :
       Plain(what) \in Steps /\ Plain(what).what = what /\ Plain(what).id = 0 /\ Plain(what).req = 0
  /\ \A what \in {"ended", "refused", "summarised"}, id \in Nat, req \in Nat :
       /\ Step(what, id, req) \in Steps /\ Step(what, id, req).what = what
       /\ Step(what, id, req).id = id /\ Step(what, id, req).req = req
BY DEF Plain, Step, Steps

LEMMA StartMessage ==
  ASSUME ExtInv, MessageStart PROVE ExtInv'
<1> DEFINE s == Plain("append")
<1>1. At("message") /\ EmitCalling(mirror, {}, Then(<<s>>)) /\ UNCHANGED <<sessionVars, crossed, stale>>
  BY DEF MessageStart, Emit
<1>2. s \in Steps /\ s.what = "append" /\ s.req = 0 /\ Fits(s, sessions, EntriesOf(current)) /\ Inner(s)
  BY MadeSteps DEF Fits, Inner, Operations
<1> HIDE DEF s
<1>3. /\ GoodStack(Then(<<s>>), sessions', EntriesOf(current)') /\ OnStack(Then(<<s>>)) = {s} \cup Left
      /\ sessions' \in Nat /\ sessions <= sessions'
  BY <1>1, <1>2, Replaced
<1>4. Carries(mirror, {}, Then(<<s>>)) /\ StackInv'
  BY <1>1, <1>3, EventOrNot
<1>5. OnStack(todo) = {Top[1]} \cup Left /\ Top[1].req = 0 /\ Top[1].what = "message"
  BY <1>1, Current
<1>6. /\ Starting(OnStack(todo)) => Starting(OnStack(Then(<<s>>)))
      /\ Ended(OnStack(Then(<<s>>))) = Ended(OnStack(todo))
      /\ \A x \in OnStack(todo) : x.req \in {0} \cup {} \cup dropped' \cup Asked(OnStack(Then(<<s>>)))
  BY <1>2, <1>3, <1>5 DEF Starting, Ended, Asked
<1> QED BY <1>1, <1>4, <1>6, QuietStep

LEMMA CompactKeeps ==
  ASSUME ExtInv, Compact PROVE ExtInv'
<1>1. At("compact") /\ UNCHANGED <<sessionVars, crossed, stale>>
  BY DEF Compact
<1>2. PICK what \in {"refused", "summarised"} :
        \/ EmitCalling(mirror, {}, Then(<<Step(what, 0, Top[1].req)>>))
        \/ /\ todo' = Then(<<Step(what, 0, Top[1].req)>>)
           /\ UNCHANGED <<asked, dropped, mirror, callbacks>>
  BY DEF Compact, Emit
<1>3. OnStack(todo) = {Top[1]} \cup Left /\ Top[1].what = "compact" /\ Top[1].req \in Nat
  BY <1>1, Current DEF Steps
<1> DEFINE s == Step(what, 0, Top[1].req)
<1>4. s \in Steps /\ s.what = what /\ s.req = Top[1].req /\ Fits(s, sessions, EntriesOf(current)) /\ Inner(s)
  BY <1>3, MadeSteps DEF Fits, Inner, Operations
<1>5. EmitCalling(mirror, {}, Then(<<s>>)) \/ (todo' = Then(<<s>>) /\ UNCHANGED <<asked, dropped, mirror, callbacks>>)
  BY <1>2
<1> HIDE DEF s
<1>6. /\ GoodStack(Then(<<s>>), sessions', EntriesOf(current)') /\ OnStack(Then(<<s>>)) = {s} \cup Left
      /\ sessions' \in Nat /\ sessions <= sessions'
  BY <1>1, <1>4, Replaced
<1>7. Carries(mirror, {}, Then(<<s>>)) /\ StackInv'
  BY <1>5, <1>6, EventOrNot
<1>8. /\ Starting(OnStack(todo)) => Starting(OnStack(Then(<<s>>)))
      /\ Ended(OnStack(Then(<<s>>))) = Ended(OnStack(todo))
      /\ \A x \in OnStack(todo) : x.req \in {0} \cup {} \cup dropped' \cup Asked(OnStack(Then(<<s>>)))
  BY <1>3, <1>4, <1>6 DEF Starting, Ended, Asked
<1> QED BY <1>1, <1>7, <1>8, QuietStep

LEMMA RefusedKeeps ==
  ASSUME ExtInv, Refused PROVE ExtInv'
<1>1. At("refused") /\ UNCHANGED <<sessionVars, crossed, stale>>
      /\ EmitCalling(mirror, {Top[1].req}, Then(<<>>))
  BY DEF Refused
<1>2. /\ sessions' \in Nat /\ sessions <= sessions' /\ EntriesOf(current) \subseteq EntriesOf(current)'
  BY <1>1 DEF ExtInv, TypeInv, SessionInv, sessionVars, EntriesOf
<1>3. GoodStack(Then(<<>>), sessions', EntriesOf(current)') /\ OnStack(Then(<<>>)) = Left
  BY <1>1, <1>2, Taken
<1>4. Carries(mirror, {Top[1].req}, Then(<<>>)) /\ StackInv'
  BY <1>1, <1>2, <1>3, EventOrNot
<1>5. OnStack(todo) = {Top[1]} \cup Left /\ Top[1].what = "refused"
  BY <1>1, Current
<1>6. /\ Starting(OnStack(todo)) => Starting(OnStack(Then(<<>>)))
      /\ Ended(OnStack(Then(<<>>))) = Ended(OnStack(todo))
      /\ \A x \in OnStack(todo) : x.req \in {0} \cup {Top[1].req} \cup dropped' \cup Asked(OnStack(Then(<<>>)))
  BY <1>3, <1>5 DEF Starting, Ended, Asked
<1> QED BY <1>1, <1>4, <1>6, QuietStep

(* A before-hook is the head of a list of two, and the operation behind it asks nothing. *)
LEMMA BeforeKeeps ==
  ASSUME ExtInv, Before PROVE ExtInv'
<1>1. At("before") /\ UNCHANGED <<sessionVars, crossed, stale>>
  BY DEF Before
<1>2. /\ sessions' \in Nat /\ sessions <= sessions' /\ EntriesOf(current) \subseteq EntriesOf(current)'
  BY <1>1 DEF ExtInv, TypeInv, SessionInv, sessionVars, EntriesOf
<1>3. /\ GoodStack(Then(<<>>), sessions', EntriesOf(current)') /\ OnStack(Then(<<>>)) = Left
  BY <1>1, <1>2, Taken
<1>4. /\ OnStack(todo) = {Top[1]} \cup Left /\ Top[1].what = "before" /\ Top[1].req = 0
      /\ Tail(todo) = <<>>
  BY <1>1, Current
<1>5. /\ Top \in Seq(Steps) /\ Top # <<>> /\ Len(Top) = 2 /\ Top[2].req = 0
  <2>1. Top \in Seq(Steps) /\ Top # <<>> /\ todo # <<>>
    BY <1>1, AtStep DEF ExtInv, TypeInv, At
  <2>2. GoodList(Top, sessions, EntriesOf(current))
    BY <2>1, GoodPop DEF ExtInv, StackInv, Top
  <2> QED BY <1>4, <2>1, <2>2 DEF GoodList
<1>6. Rest = <<Top[2]>> /\ Tail(Rest) = <<>>
  <2>1. Tail(Top) = <<Top[2]>>
    <3>1. ASSUME NEW l \in Seq(Steps), Len(l) = 2 PROVE Tail(l) = <<l[2]>>
      <4>1. Tail(l) \in Seq(Steps) /\ Len(Tail(l)) = 1 /\ Tail(l)[1] = l[2]
        BY <3>1
      <4> DEFINE r == Tail(l)
      <4> HIDE DEF r
      <4>2. r \in Seq(Steps) /\ Len(r) = 1 /\ r[1] = l[2]
        BY <4>1 DEF r
      <4>3. r = <<l[2]>>
        BY <4>2
      <4> QED BY <4>3 DEF r
    <3> QED BY ONLY <1>5, <3>1
  <2>2. Tail(<<Top[2]>>) = <<>>
    OBVIOUS
  <2> QED BY <2>1, <2>2 DEF Rest
<1>7. OnStack(<<>>) = {} /\ StepsOf(<<>>) = {} /\ Left = StepsOf(<<Top[2]>>)
  BY <1>4, <1>6 DEF OnStack, StepsOf, Left
<1>8. \A s \in Left : s.req = 0 /\ s.what # "started" /\ s.what # "ended"
  <2>1. \A s \in StepsOf(Rest) : s.what \in Original
    BY <1>1, AtStep DEF ExtInv, TypeInv
  <2>2. \A s \in StepsOf(<<Top[2]>>) : s = Top[2]
    BY DEF StepsOf
  <2> QED BY <1>5, <1>6, <1>7, <2>1, <2>2 DEF Original, EventActions, Operations
<1> HIDE DEF Rest
<1>9. CASE EmitCalling(mirror, {}, Then(<<>>))
  <2>1. Carries(mirror, {}, Then(<<>>)) /\ StackInv'
    BY <1>2, <1>3, <1>9, EventOrNot
  <2>2. /\ Starting(OnStack(todo)) => Starting(OnStack(Then(<<>>)))
        /\ Ended(OnStack(Then(<<>>))) = Ended(OnStack(todo))
        /\ \A x \in OnStack(todo) : x.req \in {0} \cup {} \cup dropped' \cup Asked(OnStack(Then(<<>>)))
    BY <1>3, <1>4 DEF Starting, Ended, Asked
  <2> QED BY <1>1, <2>1, <2>2, QuietStep
<1>10. CASE EmitCalling(mirror, {}, <<Tail(Rest)>> \o Tail(todo))
  <2> DEFINE stack == <<Tail(Rest)>> \o Tail(todo)
  <2>1. stack = <<<<>>>> \o <<>>
    BY <1>4, <1>6
  <2>2. <<>> \in Seq(Steps) /\ <<>> \in Seq(Seq(Steps))
    OBVIOUS
  <2>3. OnStack(stack) = {}
    <3>1. OnStack(stack) = StepsOf(<<>>) \cup OnStack(<<>>)
      BY <2>1, <2>2, OnTop
    <3> QED BY <1>7, <3>1
  <2>4. GoodStack(stack, sessions', EntriesOf(current)')
    <3> DEFINE E == EntriesOf(current)'
    <3> HIDE DEF E
    <3>1. GoodStack(<<>>, sessions', E) /\ GoodList(<<>>, sessions', E)
      BY <2>2 DEF GoodStack, GoodList
    <3>2. GoodStack(<<<<>>>> \o <<>>, sessions', E)
      BY <2>2, <3>1, GoodPush
    <3> QED BY <2>1, <3>2 DEF E
  <2> HIDE DEF stack
  <2>5. EmitCalling(mirror, {}, stack)
    BY <1>10 DEF stack
  <2>6. Carries(mirror, {}, stack) /\ StackInv'
    BY <1>2, <2>4, <2>5, EventOrNot
  <2>7. /\ Starting(OnStack(todo)) => Starting(OnStack(stack))
        /\ Ended(OnStack(stack)) = Ended(OnStack(todo))
        /\ \A x \in OnStack(todo) : x.req \in {0} \cup {} \cup dropped' \cup Asked(OnStack(stack))
    BY <1>4, <1>8, <2>3 DEF Starting, Ended, Asked
  <2> QED BY <1>1, <2>6, <2>7, QuietStep
<1> QED BY <1>9, <1>10 DEF Before, Emit

(* The leaf is an entry, and what is below it need not be looked at. *)
LEMMA AppendMessage ==
  ASSUME ExtInv, MessageAppend PROVE ExtInv'
<1> DEFINE s == Step("ended", leaf', 0)
<1>1. /\ At("append") /\ AppendTo(current, leaf, <<"message">>)
      /\ UNCHANGED <<current, sessions, crossed, stale>>
      /\ \/ EmitCalling(mirror, {}, Then(<<s>>))
         \/ todo' = Then(<<s>>) /\ UNCHANGED <<asked, dropped, mirror, callbacks>>
  BY DEF MessageAppend, Emit
<1>2. /\ SessionInv /\ StackInv /\ leaf \in EntriesOf(current) /\ sessions \in Nat /\ "message" \in Kinds
      /\ sessions <= sessions' /\ sessions' \in Nat
  <2>1. SessionInv /\ StackInv /\ mirror \in Mirrors
    BY DEF ExtInv, TypeInv
  <2>2. leaf \in EntriesOf(current) /\ sessions \in Nat
    BY <2>1 DEF SessionInv
  <2> QED BY <1>1, <2>1, <2>2 DEF Kinds
<1>3. /\ SessionInv' /\ leaf' \notin DOMAIN log /\ leaf' \in Nat
      /\ EntriesOf(current)' = EntriesOf(current) \cup {leaf'}
      /\ Mirrored' = Mirrored \cup {leaf'}
  BY <1>1, <1>2, AppendedHere
<1>4. s \in Steps /\ s.what = "ended" /\ s.req = 0 /\ s.id = leaf' /\ Inner(s)
  BY <1>3, MadeSteps DEF Inner, Operations
<1> HIDE DEF s
<1>5. GoodStack(Then(<<s>>), sessions', EntriesOf(current)') /\ OnStack(Then(<<s>>)) = {s} \cup Left
  <2> DEFINE E == EntriesOf(current)'
  <2>1. EntriesOf(current) \subseteq E /\ leaf' \in E
    BY <1>3
  <2> HIDE DEF E
  <2>2. Fits(s, sessions', E) /\ s.what # "before"
    BY <1>4, <2>1 DEF Fits
  <2>3. GoodStack(Then(<<s>>), sessions', E) /\ OnStack(Then(<<s>>)) = {s} \cup Left
    BY <1>1, <1>2, <1>4, <2>1, <2>2, GoesOn
  <2> QED BY <2>3 DEF E
<1>6. Carries(mirror, {}, Then(<<s>>)) /\ StackInv'
  BY <1>1, <1>2, <1>5, EventOrNot
<1>7. OnStack(todo) = {Top[1]} \cup Left /\ Top[1].req = 0 /\ Top[1].what = "append"
  BY <1>1, Current
<1>8. \A x \in OnStack(todo) : x.req \in {0} \cup {} \cup dropped' \cup Asked(OnStack(Then(<<s>>)))
  BY <1>5, <1>7 DEF Asked
<1>9. /\ Starting(OnStack(todo)) => Starting(OnStack(Then(<<s>>)))
      /\ Ended(OnStack(Then(<<s>>))) = Ended(OnStack(todo)) \cup {leaf'}
  BY <1>4, <1>5, <1>7 DEF Starting, Ended
<1>10. ~stale' /\ ~Starting(OnStack(Then(<<s>>))) =>
           /\ mirror.in = current'
           /\ Mirrored' \subseteq mirror.known \cup Ended(OnStack(Then(<<s>>)))
           /\ mirror.known \subseteq EntriesOf(current)'
           /\ Ended(OnStack(Then(<<s>>))) # {}
  BY <1>1, <1>3, <1>9 DEF ExtInv, MirrorInv
<1>11. mirror \in Mirrors
  BY DEF ExtInv, TypeInv
<1> QED BY <1>3, <1>6, <1>8, <1>10, <1>11, StepKeeps

(* The mirror that has learnt of an entry. *)
LEMMA KnownFacts ==
  ASSUME NEW m \in Mirrors, NEW id \in Nat
  PROVE  /\ Known(m, id) \in Mirrors /\ Known(m, id).in = m.in /\ Known(m, id).leaf = id
         /\ Known(m, id).known = m.known \cup {id}
BY DEF Known, Mirrors

LEMMA EndMessage ==
  ASSUME ExtInv, MessageEnd PROVE ExtInv'
<1> DEFINE m == Known(mirror, Top[1].id)
<1>1. /\ At("ended") /\ EmitCalling(m, {}, Then(<<>>))
      /\ crossed' = (Top[1].id # leaf) /\ UNCHANGED <<sessionVars, stale>>
  BY DEF MessageEnd, Emit
<1>2. /\ OnStack(todo) = {Top[1]} \cup Left /\ Top[1].what = "ended" /\ Top[1].req = 0
      /\ Top[1].id \in EntriesOf(current) /\ Top[1].id \in Nat
  BY <1>1, Current DEF Fits, Steps
<1>3. m \in Mirrors /\ m.in = mirror.in /\ m.leaf = Top[1].id /\ m.known = mirror.known \cup {Top[1].id}
  BY <1>2, KnownFacts DEF ExtInv, TypeInv
<1> HIDE DEF m
<1>4. /\ SessionInv' /\ Mirrored' = Mirrored /\ EntriesOf(current)' = EntriesOf(current)
      /\ current' = current /\ leaf' = leaf /\ sessions' \in Nat /\ sessions <= sessions'
  BY <1>1 DEF ExtInv, TypeInv, SessionInv, sessionVars, Mirrored, EntriesOf
<1>5. GoodStack(Then(<<>>), sessions', EntriesOf(current)') /\ OnStack(Then(<<>>)) = Left
  BY <1>1, <1>4, Taken
<1>6. Carries(m, {}, Then(<<>>)) /\ StackInv'
  BY <1>1, <1>4, <1>5, EventOrNot
<1>7. \A x \in OnStack(todo) : x.req \in {0} \cup {} \cup dropped' \cup Asked(OnStack(Then(<<>>)))
  BY <1>2, <1>5 DEF Asked
<1>8. /\ Starting(OnStack(todo)) => Starting(OnStack(Then(<<>>)))
      /\ Ended(OnStack(todo)) = Ended(OnStack(Then(<<>>))) \cup {Top[1].id}
  BY <1>2, <1>5 DEF Starting, Ended
<1>9. ~stale' /\ ~Starting(OnStack(Then(<<>>))) =>
           /\ m.in = current'
           /\ Mirrored' \subseteq m.known \cup Ended(OnStack(Then(<<>>)))
           /\ m.known \subseteq EntriesOf(current)'
           /\ ~crossed' => m.leaf = leaf'
  BY <1>1, <1>2, <1>3, <1>4, <1>8 DEF ExtInv, MirrorInv
<1> QED BY <1>3, <1>4, <1>6, <1>7, <1>9, StepKeeps

LEMMA NoteKeeps ==
  ASSUME ExtInv, Note PROVE ExtInv'
<1>1. PICK what \in {"note", "state"} :
        /\ At(what) /\ AppendTo(current, leaf, <<"note">>) /\ todo' = Then(<<>>)
        /\ UNCHANGED <<current, sessions, mirror, callbacks, crossed, asked, dropped, stale>>
  BY DEF Note, mirrorVars, histVars
<1>2. /\ SessionInv /\ leaf \in EntriesOf(current) /\ sessions \in Nat /\ "note" \in Kinds
      /\ sessions <= sessions' /\ sessions' \in Nat /\ mirror \in Mirrors
  <2>1. SessionInv /\ StackInv /\ mirror \in Mirrors
    BY DEF ExtInv, TypeInv
  <2>2. leaf \in EntriesOf(current) /\ sessions \in Nat
    BY <2>1 DEF SessionInv
  <2> QED BY <1>1, <2>1, <2>2 DEF Kinds
<1>3. /\ SessionInv' /\ leaf' \notin DOMAIN log /\ leaf' \in Nat
      /\ EntriesOf(current)' = EntriesOf(current) \cup {leaf'}
      /\ Mirrored' = Mirrored
  BY <1>1, <1>2, AppendedHere
<1>4. /\ OnStack(todo) = {Top[1]} \cup Left /\ Top[1].what = what /\ Top[1].req = 0
  BY <1>1, Current
<1>5. GoodStack(Then(<<>>), sessions', EntriesOf(current)') /\ OnStack(Then(<<>>)) = Left
  BY <1>1, <1>2, <1>3, Taken
<1>6. Carries(mirror, {}, Then(<<>>)) /\ StackInv'
  BY <1>1, <1>2, <1>5, EventOrNot
<1>7. /\ \A x \in OnStack(todo) : x.req \in {0} \cup {} \cup dropped' \cup Asked(OnStack(Then(<<>>)))
      /\ Starting(OnStack(todo)) => Starting(OnStack(Then(<<>>)))
      /\ Ended(OnStack(todo)) = Ended(OnStack(Then(<<>>)))
  BY <1>4, <1>5 DEF Starting, Ended, Asked
<1>8. leaf' \notin Mirrored'
  BY <1>3 DEF Mirrored, EntriesOf
<1>9. ~stale' /\ ~Starting(OnStack(Then(<<>>))) =>
           /\ mirror.in = current'
           /\ Mirrored' \subseteq mirror.known \cup Ended(OnStack(Then(<<>>)))
           /\ mirror.known \subseteq EntriesOf(current)'
  BY <1>1, <1>3, <1>7 DEF ExtInv, MirrorInv
<1> QED BY <1>2, <1>3, <1>6, <1>7, <1>8, <1>9, StepKeeps

LEMMA SummarisedKeeps ==
  ASSUME ExtInv, Summarised PROVE ExtInv'
<1> DEFINE m == Known(mirror, leaf')
<1>1. /\ At("summarised") /\ AppendTo(current, leaf, <<"compaction">>)
      /\ EmitCalling(m, {Top[1].req}, Then(<<>>))
      /\ UNCHANGED <<current, sessions, stale>>
  BY DEF Summarised
<1>2. /\ SessionInv /\ leaf \in EntriesOf(current) /\ sessions \in Nat /\ "compaction" \in Kinds
      /\ sessions <= sessions' /\ sessions' \in Nat /\ mirror \in Mirrors
  <2>1. SessionInv /\ StackInv /\ mirror \in Mirrors
    BY DEF ExtInv, TypeInv
  <2>2. leaf \in EntriesOf(current) /\ sessions \in Nat
    BY <2>1 DEF SessionInv
  <2> QED BY <1>1, <2>1, <2>2 DEF Kinds
<1>3. /\ SessionInv' /\ leaf' \notin DOMAIN log /\ leaf' \in Nat
      /\ EntriesOf(current)' = EntriesOf(current) \cup {leaf'}
      /\ Mirrored' = Mirrored \cup {leaf'}
  BY <1>1, <1>2, AppendedHere
<1>4. m \in Mirrors /\ m.in = mirror.in /\ m.leaf = leaf' /\ m.known = mirror.known \cup {leaf'}
  BY <1>2, <1>3, KnownFacts
<1> HIDE DEF m
<1>5. OnStack(todo) = {Top[1]} \cup Left /\ Top[1].what = "summarised"
  BY <1>1, Current
<1>6. GoodStack(Then(<<>>), sessions', EntriesOf(current)') /\ OnStack(Then(<<>>)) = Left
  BY <1>1, <1>2, <1>3, Taken
<1>7. Carries(m, {Top[1].req}, Then(<<>>)) /\ StackInv'
  BY <1>1, <1>2, <1>6, EventOrNot
<1>8. /\ \A x \in OnStack(todo) : x.req \in {0} \cup {Top[1].req} \cup dropped' \cup Asked(OnStack(Then(<<>>)))
      /\ Starting(OnStack(todo)) => Starting(OnStack(Then(<<>>)))
      /\ Ended(OnStack(todo)) = Ended(OnStack(Then(<<>>)))
  BY <1>5, <1>6 DEF Starting, Ended, Asked
<1>9. ~stale' /\ ~Starting(OnStack(Then(<<>>))) =>
           /\ m.in = current'
           /\ Mirrored' \subseteq m.known \cup Ended(OnStack(Then(<<>>)))
           /\ m.known \subseteq EntriesOf(current)'
           /\ m.leaf = leaf'
  BY <1>1, <1>3, <1>4, <1>8 DEF ExtInv, MirrorInv
<1> QED BY <1>3, <1>4, <1>7, <1>8, <1>9, StepKeeps

(* A set of positions that is not empty has a last one. *)
LEMMA LastExists ==
  ASSUME NEW n \in Nat, NEW S, S \subseteq 1..n, S # {}
  PROVE  \E i \in S : \A j \in S : j <= i
<1> DEFINE K == {m \in Nat : \A T \in SUBSET (1..m) : T # {} => \E i \in T : \A j \in T : j <= i}
<1>1. 0 \in K
  <2>1. 1..0 = {}
    OBVIOUS
  <2> QED BY <2>1
<1>2. ASSUME NEW m \in Nat, m \in K PROVE m + 1 \in K
  <2> SUFFICES ASSUME NEW T \in SUBSET (1..(m + 1)), T # {}
               PROVE  \E i \in T : \A j \in T : j <= i
    OBVIOUS
  <2>1. CASE m + 1 \in T
    BY <2>1
  <2>2. CASE m + 1 \notin T
    <3>1. T \subseteq 1..m
      BY <2>2
    <3> QED BY <1>2, <3>1
  <2> QED BY <2>1, <2>2
<1> HIDE DEF K
<1>3. n \in K
  BY <1>1, <1>2, SetInduction
<1> QED BY <1>3 DEF K

(* The leaf of a session that is opened is its last entry. *)
LEMMA SessionOpened ==
  ASSUME SessionInv, UNCHANGED <<log, sessions>>, NEW s \in 1..sessions, current' = s, leaf' = Max(EntriesOf(s))
  PROVE  SessionInv'
<1>1. EntriesOf(s) # {} /\ EntriesOf(s) \subseteq 1..Len(log) /\ Len(log) \in Nat
  BY DEF SessionInv, EntriesOf
<1> DEFINE E == EntriesOf(s)
<1>2. Max(E) \in E
  <2> HIDE DEF E
  <2>1. \E i \in E : \A j \in E : j <= i
    BY <1>1, LastExists DEF E
  <2>2. \A i, j \in E : j <= i <=> i >= j
    BY <1>1 DEF E
  <2> QED BY <2>1, <2>2 DEF Max
<1> QED BY <1>2 DEF SessionInv, EntriesOf

(* A session is open: session_start is to come, or the mirror is stale. *)
LEMMA OpenedKeeps ==
  ASSUME ExtInv, NEW what \in Operations, At(what), SessionInv', sessions <= sessions',
         \/ EmitCalling(mirror, {}, Then(<<Plain("started")>>))
         \/ Fail /\ stale' = TRUE
  PROVE  ExtInv'
<1>1. sessions' \in Nat /\ SessionInv /\ StackInv /\ mirror \in Mirrors
  BY DEF SessionInv, ExtInv, TypeInv
<1>2. /\ OnStack(todo) = {Top[1]} \cup Left /\ Top[1].what = what /\ Top[1].req = 0 /\ Tail(todo) = <<>>
  BY Current DEF Operations
<1>3. CASE EmitCalling(mirror, {}, Then(<<Plain("started")>>))
  <2> DEFINE s == Plain("started")
             E == EntriesOf(current)'
  <2>1. s \in Steps /\ s.what = "started" /\ s.req = 0
    BY MadeSteps
  <2>2. EmitCalling(mirror, {}, Then(<<s>>))
    BY <1>3
  <2> HIDE DEF s, E
  <2>3. Fits(s, sessions', E) /\ s.what # "before"
    BY <2>1 DEF Fits
  <2>4. GoodStack(Then(<<s>>), sessions', E) /\ OnStack(Then(<<s>>)) = {s} \cup Left
    BY <1>1, <1>2, <2>1, <2>3, GoesOn
  <2>5. Carries(mirror, {}, Then(<<s>>)) /\ StackInv'
    BY <1>1, <2>2, <2>4, EventOrNot DEF E
  <2>6. /\ Starting(OnStack(Then(<<s>>)))
        /\ \A x \in OnStack(todo) : x.req \in {0} \cup {} \cup dropped' \cup Asked(OnStack(Then(<<s>>)))
    BY <1>2, <2>1, <2>4 DEF Starting, Asked
  <2> QED BY <1>1, <2>5, <2>6, StepKeeps
<1>4. CASE Fail /\ stale' = TRUE
  <2>1. /\ Carries(mirror, {}, Tail(todo))
        /\ \A s \in OnStack(todo) : s.req \in {0} \cup {} \cup dropped' \cup Asked(OnStack(Tail(todo)))
    BY <1>2, <1>4, FailCarries
  <2>2. StackInv'
    <3>1. GoodStack(Tail(todo), sessions', EntriesOf(current)')
      BY <1>1, <1>2, Taken
    <3> QED BY <1>4, <3>1 DEF Fail, StackInv
  <2> QED BY <1>1, <1>4, <2>1, <2>2, StepKeeps
<1> QED BY <1>3, <1>4

(* A step that fails and has changed nothing. *)
LEMMA FailedKeeps ==
  ASSUME ExtInv, NEW what \in Operations, At(what), UNCHANGED <<sessionVars, crossed, stale>>, Fail
  PROVE  ExtInv'
<1>1. sessions' \in Nat /\ sessions <= sessions' /\ EntriesOf(current) \subseteq EntriesOf(current)'
  BY DEF ExtInv, TypeInv, SessionInv, sessionVars, EntriesOf
<1>2. OnStack(todo) = {Top[1]} \cup Left /\ Top[1].what = what /\ Top[1].req = 0
  BY Current DEF Operations
<1>3. /\ Carries(mirror, {}, Tail(todo))
      /\ \A s \in OnStack(todo) : s.req \in {0} \cup {} \cup dropped' \cup Asked(OnStack(Tail(todo)))
  BY <1>2, FailCarries
<1>4. StackInv'
  <2>1. GoodStack(Tail(todo), sessions', EntriesOf(current)')
    BY <1>1, Taken
  <2> QED BY <2>1 DEF Fail, StackInv
<1>5. \A s \in StepsOf(Rest) : s.what # "started" /\ s.what # "ended"
  <2>1. \A s \in StepsOf(Rest) : s.what \in Original
    BY AtStep DEF ExtInv, TypeInv
  <2> QED BY <2>1 DEF Original, EventActions, Operations
<1>6. /\ Starting(OnStack(todo)) => Starting(OnStack(Tail(todo)))
      /\ Ended(OnStack(Tail(todo))) = Ended(OnStack(todo))
  BY <1>2, <1>5 DEF Starting, Ended, Left, Operations
<1> QED BY <1>3, <1>4, <1>6, QuietStep

LEMMA CreateOpens ==
  ASSUME SessionInv, NEW types \in Seq(Kinds), types # <<>>, Create(types)
  PROVE  SessionInv' /\ sessions <= sessions'
<1>1. /\ sessions \in Nat /\ sessions' = sessions + 1 /\ current' = sessions + 1
      /\ Len(log) \in Nat /\ 0 \in 0..Len(log)
  BY DEF SessionInv, Create
<1>2. AppendTo(current', 0, types)
  BY <1>1 DEF Create
<1> QED BY <1>1, <1>2, Appended

LEMMA NewKeeps ==
  ASSUME ExtInv, New PROVE ExtInv'
<1>1. At("new")
  BY DEF New
<1>2. PICK types \in {<<"note">>, <<"note", "message">>} :
        /\ Create(types)
        /\ EmitCalling(mirror, {}, Then(<<Plain("started")>>)) \/ (Fail /\ stale' = TRUE)
  BY DEF New, Announce, Emit
<1>3. types \in Seq(Kinds) /\ types # <<>>
  <2>1. "note" \in Kinds /\ "message" \in Kinds
    BY DEF Kinds
  <2>2. ASSUME NEW a \in Kinds, NEW c \in Kinds PROVE <<a>> \in Seq(Kinds) /\ <<a, c>> \in Seq(Kinds)
    OBVIOUS
  <2>3. types # <<>>
    OBVIOUS
  <2> QED BY <2>1, <2>2, <2>3
<1>4. SessionInv' /\ sessions <= sessions'
  BY <1>2, <1>3, CreateOpens DEF ExtInv, TypeInv
<1> QED BY <1>1, <1>2, <1>4, OpenedKeeps DEF Operations

LEMMA SwitchKeeps ==
  ASSUME ExtInv, Switch PROVE ExtInv'
<1>1. At("switch") /\ UNCHANGED <<log, sessions, crossed>>
  BY DEF Switch
<1>2. Top[1].id \in 0..sessions /\ SessionInv
  BY <1>1, Current DEF Fits, ExtInv, TypeInv
<1>3. CASE /\ Top[1].id # 0 /\ current' = Top[1].id /\ leaf' = Max(EntriesOf(Top[1].id)) /\ Announce
  <2>1. SessionInv' /\ sessions <= sessions'
    <3>1. Top[1].id \in 1..sessions /\ sessions \in Nat
      BY <1>2, <1>3 DEF SessionInv
    <3> QED BY <1>1, <1>2, <1>3, <3>1, SessionOpened
  <2> QED BY <1>1, <1>3, <2>1, OpenedKeeps DEF Announce, Emit, Operations
<1>4. CASE Fail /\ UNCHANGED <<current, leaf, stale>>
  BY <1>1, <1>4, FailedKeeps DEF Operations, sessionVars
<1> QED BY <1>3, <1>4 DEF Switch

LEMMA ForkKeeps ==
  ASSUME ExtInv, Fork PROVE ExtInv'
<1> DEFINE id == Top[1].id
           b  == BranchOf(id)
           copied == [i \in DOMAIN b |-> log[b[i]].type]
<1>1. At("fork") /\ UNCHANGED crossed /\ SessionInv
  BY DEF Fork, ExtInv, TypeInv
<1>2. CASE id \in EntriesOf(current) /\ Create(copied) /\ Announce
  <2>1. /\ b \in Seq(DOMAIN log) /\ b # <<>> /\ \A i \in DOMAIN b : log[b[i]].type \in Kinds
    BY <1>1, <1>2, BranchOfEntries DEF EntriesOf
  <2> HIDE DEF b
  <2>2. DOMAIN b = 1..Len(b) /\ Len(b) \in Nat \ {0}
    BY <2>1
  <2>3. copied \in Seq(Kinds) /\ copied # <<>>
    BY <2>1, <2>2
  <2> HIDE DEF copied
  <2>4. SessionInv' /\ sessions <= sessions'
    BY <1>1, <1>2, <2>3, CreateOpens
  <2> QED BY <1>1, <1>2, <2>4, OpenedKeeps DEF Announce, Emit, Operations
<1>3. CASE Fail /\ UNCHANGED <<sessionVars, stale>>
  BY <1>1, <1>3, FailedKeeps DEF Operations
<1> QED BY <1>2, <1>3 DEF Fork

LEMMA NavigateKeeps ==
  ASSUME ExtInv, Navigate PROVE ExtInv'
<1> DEFINE id == Top[1].id
<1>1. At("navigate") /\ UNCHANGED <<current, sessions, stale>>
  BY DEF Navigate
<1>2. /\ OnStack(todo) = {Top[1]} \cup Left /\ Top[1].what = "navigate" /\ Top[1].req = 0
      /\ Tail(todo) = <<>>
  BY <1>1, Current DEF Operations
<1>3. /\ SessionInv /\ mirror \in Mirrors /\ sessions \in Nat /\ sessions' \in Nat /\ sessions <= sessions'
  <2>1. SessionInv /\ mirror \in Mirrors
    BY DEF ExtInv, TypeInv
  <2>2. sessions \in Nat
    BY <2>1 DEF SessionInv
  <2> QED BY <1>1, <2>1, <2>2
<1>4. GoodStack(Then(<<>>), sessions', EntriesOf(current)') /\ OnStack(Then(<<>>)) = Left
  BY <1>1, <1>2, <1>3, Taken
<1>5. /\ \A x \in OnStack(todo) : x.req \in {0} \cup {} \cup dropped' \cup Asked(OnStack(Then(<<>>)))
      /\ Starting(OnStack(todo)) => Starting(OnStack(Then(<<>>)))
      /\ Ended(OnStack(todo)) = Ended(OnStack(Then(<<>>)))
  BY <1>2, <1>4 DEF Starting, Ended, Asked
<1>6. CASE id = leaf /\ todo' = Then(<<>>) /\ UNCHANGED <<log, leaf, mirrorVars, asked, dropped>>
  <2>1. UNCHANGED <<sessionVars, crossed, stale>> /\ UNCHANGED <<asked, dropped, mirror, callbacks>>
    BY <1>1, <1>6 DEF mirrorVars, sessionVars
  <2>2. Carries(mirror, {}, Then(<<>>)) /\ StackInv'
    BY <1>3, <1>4, <1>6, <2>1, EventOrNot
  <2> QED BY <1>5, <2>1, <2>2, QuietStep
<1>7. CASE Fail /\ UNCHANGED <<log, leaf, crossed>>
  BY <1>1, <1>7, FailedKeeps DEF Operations, sessionVars
<1>8. CASE /\ id \in EntriesOf(current) /\ leaf' = id /\ UNCHANGED log /\ crossed' = FALSE
           /\ EmitCalling([mirror EXCEPT !.leaf = id], {}, Then(<<>>))
  <2> DEFINE m == [mirror EXCEPT !.leaf = id]
  <2>1. id \in Nat
    BY <1>3, <1>8, EntriesAreNumbers
  <2>2. m \in Mirrors /\ m.in = mirror.in /\ m.known = mirror.known /\ m.leaf = id
    BY <1>3, <2>1 DEF Mirrors
  <2> HIDE DEF m
  <2>3. SessionInv' /\ Mirrored' = Mirrored /\ EntriesOf(current)' = EntriesOf(current)
    BY <1>1, <1>3, <1>8 DEF SessionInv, Mirrored, EntriesOf
  <2>4. Carries(m, {}, Then(<<>>)) /\ StackInv'
    BY <1>3, <1>4, <1>8, EventOrNot DEF m
  <2>5. ~stale' /\ ~Starting(OnStack(Then(<<>>))) =>
           /\ m.in = current'
           /\ Mirrored' \subseteq m.known \cup Ended(OnStack(Then(<<>>)))
           /\ m.known \subseteq EntriesOf(current)'
           /\ m.leaf = leaf'
    BY <1>1, <1>5, <1>8, <2>2, <2>3 DEF ExtInv, MirrorInv
  <2> QED BY <1>5, <2>2, <2>3, <2>4, <2>5, StepKeeps
<1>9. CASE /\ id \in EntriesOf(current) /\ crossed' = FALSE
           /\ AppendTo(current, id, <<"summary">>)
           /\ EmitCalling(Known(mirror, leaf'), {}, Then(<<>>))
  <2> DEFINE m == Known(mirror, leaf')
  <2>1. "summary" \in Kinds
    BY DEF Kinds
  <2>2. /\ SessionInv' /\ leaf' \in Nat
        /\ EntriesOf(current)' = EntriesOf(current) \cup {leaf'}
        /\ Mirrored' = Mirrored \cup {leaf'}
    BY <1>1, <1>3, <1>9, <2>1, AppendedHere
  <2>3. m \in Mirrors /\ m.in = mirror.in /\ m.leaf = leaf' /\ m.known = mirror.known \cup {leaf'}
    BY <1>3, <2>2, KnownFacts
  <2> HIDE DEF m
  <2>4. Carries(m, {}, Then(<<>>)) /\ StackInv'
    BY <1>3, <1>4, <1>9, EventOrNot DEF m
  <2>5. ~stale' /\ ~Starting(OnStack(Then(<<>>))) =>
           /\ m.in = current'
           /\ Mirrored' \subseteq m.known \cup Ended(OnStack(Then(<<>>)))
           /\ m.known \subseteq EntriesOf(current)'
           /\ m.leaf = leaf'
    BY <1>1, <1>5, <2>2, <2>3 DEF ExtInv, MirrorInv
  <2> QED BY <1>5, <2>2, <2>3, <2>4, <2>5, StepKeeps
<1> QED BY <1>6, <1>7, <1>8, <1>9 DEF Navigate, Emit

(* The mirror starts anew, and what its answer asks for is given up. *)
LEMMA StartedKeeps ==
  ASSUME ExtInv, Started PROVE ExtInv'
<1> DEFINE m == [in |-> current, known |-> EntriesOf(current), leaf |-> leaf]
           P == {Plain(what) : what \in EventActions}
<1>1. At("started") /\ UNCHANGED sessionVars /\ stale' = FALSE /\ crossed' = FALSE
  BY DEF Started
<1>2. PICK steps \in Answers(P) :
        /\ Answering(m, {}, steps)
        /\ \/ /\ todo' = Then(<<>>)
              /\ dropped' = dropped \cup Requests(steps)
           \/ /\ todo' = Tail(todo)
              /\ dropped' = dropped \cup Requests(steps) \cup Requests(Rest)
  BY DEF Started
<1>3. /\ SessionInv' /\ Mirrored' = Mirrored /\ EntriesOf(current)' = EntriesOf(current)
      /\ current' = current /\ leaf' = leaf /\ asked \in Nat /\ sessions' \in Nat /\ sessions <= sessions'
  BY <1>1 DEF ExtInv, TypeInv, SessionInv, sessionVars, Mirrored, EntriesOf
<1>4. m \in Mirrors /\ m.in = current /\ m.known = EntriesOf(current) /\ m.leaf = leaf
  <2>1. SessionInv
    BY DEF ExtInv, TypeInv
  <2>2. current \in Nat /\ EntriesOf(current) \subseteq Nat /\ leaf \in Nat
    <3>1. EntriesOf(current) \subseteq Nat
      BY <2>1, EntriesAreNumbers
    <3>2. current \in 1..sessions /\ sessions \in Nat /\ leaf \in EntriesOf(current)
      BY <2>1 DEF SessionInv
    <3> QED BY <3>1, <3>2
  <2> QED BY <2>2 DEF Mirrors
<1>5. steps \in Seq(Steps) /\ Len(steps) \in Nat /\ Requests(steps) = Asked(StepsOf(steps))
  BY <1>3, EventSteps, AnswerSteps
<1> HIDE DEF m, P
<1>6. /\ asked' \in Nat /\ callbacks' = callbacks \cup Requests(steps)
      /\ mirror' = m \/ mirror' = [m EXCEPT !.leaf = 0]
  BY <1>2, <1>3, <1>5 DEF Answering
<1>7. /\ OnStack(todo) = {Top[1]} \cup Left /\ Top[1].req = 0 /\ Tail(todo) = <<>> /\ OnStack(Tail(todo)) = {}
  <2>1. OnStack(todo) = {Top[1]} \cup Left /\ Top[1].req = 0 /\ Tail(todo) = <<>>
    BY <1>1, Current
  <2>2. OnStack(<<>>) = {}
    BY DEF OnStack
  <2> QED BY <2>1, <2>2
<1>8. /\ GoodStack(Then(<<>>), sessions', EntriesOf(current)') /\ OnStack(Then(<<>>)) = Left
      /\ GoodStack(Tail(todo), sessions', EntriesOf(current)')
  BY <1>1, <1>3, <1>7, Taken
<1>9. Requests(steps) \subseteq dropped' \ {0} /\ dropped \subseteq dropped'
  BY <1>2, <1>5 DEF Asked
<1>10. Carries(m, {}, todo') /\ StackInv'
  <2>1. Carries(m, {}, todo')
    BY <1>6, <1>9 DEF Carries
  <2> QED BY <1>2, <1>8, <2>1 DEF StackInv
<1>11. \A x \in OnStack(todo) : x.req \in {0} \cup {} \cup dropped' \cup Asked(OnStack(todo'))
  <2>1. CASE todo' = Then(<<>>)
    BY <1>7, <1>8, <2>1 DEF Asked
  <2>2. CASE todo' = Tail(todo) /\ dropped' = dropped \cup Requests(steps) \cup Requests(Rest)
    <3>1. Requests(Rest) = Asked(StepsOf(Rest))
      BY RequestsAsked
    <3> QED BY <1>7, <2>2, <3>1 DEF Asked, Left
  <2> QED BY <1>2, <2>1, <2>2
<1>12. /\ m.in = current'
       /\ Mirrored' \subseteq m.known \cup Ended(OnStack(todo'))
       /\ m.known \subseteq EntriesOf(current)'
       /\ m.leaf = leaf'
  BY <1>3, <1>4 DEF Mirrored
<1> QED BY <1>3, <1>4, <1>10, <1>11, <1>12, StepKeeps

(* A list of actions is done. *)
LEMMA ReturnKeeps ==
  ASSUME ExtInv, Return PROVE ExtInv'
<1>1. /\ todo # <<>> /\ Top = <<>> /\ todo' = Tail(todo)
      /\ UNCHANGED <<sessionVars, crossed, stale>> /\ UNCHANGED <<asked, dropped, mirror, callbacks>>
  BY DEF Return, mirrorVars, histVars
<1>2. todo \in Seq(Seq(Steps)) /\ asked \in Nat /\ sessions' = sessions /\ EntriesOf(current)' = EntriesOf(current)
  BY <1>1 DEF ExtInv, StackInv, GoodStack, TypeInv, sessionVars, EntriesOf
<1>3. OnStack(todo) = OnStack(Tail(todo))
  <2>1. OnStack(todo) = StepsOf(Top) \cup OnStack(Tail(todo))
    BY <1>1, <1>2, TopAndBelow DEF Top
  <2> QED BY <1>1, <2>1 DEF StepsOf
<1>4. StackInv'
  <2>1. GoodStack(Tail(todo), sessions, EntriesOf(current))
    BY <1>1, GoodPop DEF ExtInv, StackInv
  <2> QED BY <1>1, <1>2, <2>1 DEF StackInv
<1>5. Carries(mirror, {}, Tail(todo))
  BY <1>1, <1>2, NothingAsked
<1>6. \A x \in OnStack(todo) : x.req \in {0} \cup {} \cup dropped' \cup Asked(OnStack(Tail(todo)))
  BY <1>3 DEF Asked
<1> QED BY <1>1, <1>3, <1>4, <1>5, <1>6, QuietStep

(* What starts the host is a good list, alone on the stack. *)
LEMMA StartKeeps ==
  ASSUME ExtInv, Start PROVE ExtInv'
<1> DEFINE E == EntriesOf(current)
<1>1. /\ todo = <<>> /\ UNCHANGED <<sessionVars, crossed, stale>> /\ UNCHANGED dropped
  BY DEF Start
<1>2. /\ SessionInv /\ asked \in Nat /\ mirror \in Mirrors /\ sessions \in Nat
      /\ sessions' = sessions /\ EntriesOf(current)' = E
  <2>1. SessionInv /\ asked \in Nat /\ mirror \in Mirrors
    BY DEF ExtInv, TypeInv
  <2> QED BY <1>1, <2>1 DEF SessionInv, sessionVars, EntriesOf
<1>3. OnStack(todo) = {}
  BY <1>1 DEF OnStack
<1>4. SessionActions \subseteq {s \in Steps : /\ s.what \in Operations /\ s.req = 0
                                              /\ s.what = "switch" => s.id \in 0..sessions}
  <2>1. ASSUME NEW s \in 0..sessions PROVE Step("switch", s, 0) \in Steps
    BY <1>2, <2>1 DEF Step, Steps, Original, Operations
  <2>2. ASSUME NEW what \in {"fork", "navigate"}, NEW id \in mirror.known \cup {0}
        PROVE  Step(what, id, 0) \in Steps
    <3>1. id \in Nat
      BY <1>2 DEF Mirrors
    <3> QED BY <3>1 DEF Step, Steps, Original, Operations
  <2>3. Plain("new") \in Steps
    BY DEF Plain, Step, Steps, Original, Operations
  <2> QED BY <2>1, <2>2, <2>3 DEF SessionActions, Step, Plain, Operations
<1> HIDE DEF E
<1>5. ASSUME NEW l \in Seq(Steps), GoodList(l, sessions, E), todo' = <<l>>,
             asked' \in Nat, mirror' = mirror \/ mirror' = [mirror EXCEPT !.leaf = 0],
             callbacks' \subseteq callbacks \cup Asked(StepsOf(l)),
             \A s \in StepsOf(l) : s.what # "ended" /\ s.what # "started"
      PROVE  ExtInv'
  <2>1. GoodStack(<<>>, sessions, E) /\ <<>> \in Seq(Seq(Steps))
    BY DEF GoodStack
  <2>2. <<l>> \o <<>> = <<l>>
    BY <2>1
  <2>3. OnStack(todo') = StepsOf(l) /\ StackInv'
    <3>1. OnStack(<<>>) = {}
      BY DEF OnStack
    <3>2. GoodStack(<<l>> \o <<>>, sessions, E)
      BY <1>5, <2>1, GoodPush
    <3>3. OnStack(<<l>> \o <<>>) = StepsOf(l) \cup OnStack(<<>>)
      BY <2>1, OnTop
    <3> QED BY <1>2, <1>5, <2>2, <3>1, <3>2, <3>3 DEF StackInv
  <2>4. Carries(mirror, {}, todo')
    BY <1>1, <1>5, <2>3 DEF Carries
  <2>5. /\ Starting(OnStack(todo)) => Starting(OnStack(todo'))
        /\ Ended(OnStack(todo')) = Ended(OnStack(todo))
        /\ \A x \in OnStack(todo) : x.req \in {0} \cup {} \cup dropped' \cup Asked(OnStack(todo'))
    BY <1>3, <1>5, <2>3 DEF Starting, Ended
  <2> QED BY <1>1, <2>3, <2>4, <2>5, QuietStep
<1>6. CASE \E what \in {"message", "state", "compact"} :
             todo' = <<<<Plain(what)>>>> /\ UNCHANGED <<asked, mirror, callbacks>>
  <2>1. PICK what \in {"message", "state", "compact"} :
          todo' = <<<<Plain(what)>>>> /\ UNCHANGED <<asked, mirror, callbacks>>
    BY <1>6
  <2> DEFINE s == Plain(what)
             l == <<s>>
  <2>2. s \in Steps /\ s.what = what /\ s.req = 0
    BY DEF Plain, Step, Steps, Original, EventActions
  <2> HIDE DEF s
  <2>3. l \in Seq(Steps) /\ StepsOf(l) = {s} /\ GoodList(l, sessions, E)
    BY <2>2 DEF StepsOf, GoodList, Fits
  <2>4. todo' = <<l>>
    BY <2>1 DEF s
  <2> HIDE DEF l
  <2> QED BY <1>2, <1>5, <2>1, <2>2, <2>3, <2>4
<1>7. CASE \E op \in SessionActions :
             todo' = <<<<Plain("before"), op>>>> /\ UNCHANGED <<asked, mirror, callbacks>>
  <2>1. PICK op \in SessionActions :
          todo' = <<<<Plain("before"), op>>>> /\ UNCHANGED <<asked, mirror, callbacks>>
    BY <1>7
  <2> DEFINE s == Plain("before")
             l == <<s, op>>
  <2>2. s \in Steps /\ s.what = "before" /\ s.req = 0
    BY DEF Plain, Step, Steps
  <2>3. op \in Steps /\ op.what \in Operations /\ op.req = 0 /\ (op.what = "switch" => op.id \in 0..sessions)
    BY <1>4
  <2> HIDE DEF s
  <2>4. l \in Seq(Steps) /\ StepsOf(l) = {s, op} /\ Len(l) = 2 /\ l[1] = s /\ l[2] = op /\ DOMAIN l = 1..2
    <3>1. l \in Seq(Steps)
      BY <2>2, <2>3
    <3> QED BY <3>1 DEF StepsOf
  <2>5. todo' = <<l>>
    BY <2>1 DEF s
  <2> HIDE DEF l
  <2>6. GoodList(l, sessions, E)
    BY <2>2, <2>3, <2>4 DEF GoodList, Fits, Original, Operations
  <2> QED BY <1>2, <1>5, <2>1, <2>2, <2>3, <2>4, <2>5, <2>6 DEF Operations
<1>8. CASE \E steps \in Answers({Plain(what) : what \in EventActions} \cup SessionActions) :
             Answering(mirror, {}, steps) /\ todo' = <<steps>>
  <2> DEFINE P == {Plain(what) : what \in EventActions} \cup SessionActions
  <2>1. PICK steps \in Answers(P) : Answering(mirror, {}, steps) /\ todo' = <<steps>>
    BY <1>8
  <2>2. Unnumbered(P)
    <3>1. SessionActions \subseteq
            {s \in Steps : s.what \in Original /\ s.req = 0 /\ (s.what = "switch" => s.id \in 0..sessions)}
      BY <1>4 DEF Original
    <3> QED BY <3>1, EventSteps DEF Unnumbered
  <2> HIDE DEF P
  <2>3. /\ steps \in Seq(Steps) /\ GoodList(steps, sessions, E) /\ Len(steps) \in Nat
        /\ \A s \in StepsOf(steps) : s.what \in Original
        /\ Requests(steps) = Asked(StepsOf(steps))
    BY <1>2, <2>2, AnswerSteps
  <2>4. /\ asked' \in Nat /\ callbacks' = callbacks \cup Requests(steps)
        /\ mirror' = mirror \/ mirror' = [mirror EXCEPT !.leaf = 0]
    BY <1>2, <2>1, <2>3 DEF Answering
  <2>5. \A s \in StepsOf(steps) : s.what # "ended" /\ s.what # "started"
    BY <2>3 DEF Original, EventActions, Operations
  <2> QED BY <1>5, <2>1, <2>3, <2>4, <2>5
<1> QED BY <1>6, <1>7, <1>8 DEF Start

-----------------------------------------------------------------------------
(* In every reachable state. *)
LEMMA ExtensionInvariant == Spec => []ExtInv
<1>1. Init => ExtInv
  <2> SUFFICES ASSUME Init PROVE ExtInv
    OBVIOUS
  <2> DEFINE e == [in |-> 1, parent |-> 0, type |-> "note"]
             E == [in : Nat, parent : Nat, type : Kinds]
  <2>1. e \in E /\ e.in = 1 /\ e.parent = 0 /\ e.type = "note"
    BY DEF Kinds
  <2>2. log = <<e>>
    BY DEF Init
  <2> HIDE DEF e, E
  <2>3. log \in Seq(E) /\ DOMAIN log = {1} /\ log[1] = e
    BY <2>1, <2>2
  <2>4. EntriesOf(1) = {1} /\ current = 1 /\ leaf = 1 /\ sessions = 1 /\ Mirrored = {}
    BY <2>1, <2>3 DEF Init, EntriesOf, Mirrored
  <2>5. SessionInv
    <3>1. 1..1 = {1}
      OBVIOUS
    <3> QED BY <2>1, <2>3, <2>4, <3>1 DEF SessionInv, E
  <2>6. mirror = [in |-> 1, known |-> {1}, leaf |-> 1] /\ callbacks = {} /\ asked = 0 /\ todo = <<>>
    BY DEF Init
  <2>7. TypeInv
    BY <2>5, <2>6 DEF TypeInv, Mirrors
  <2>8. StackInv
    BY <2>6 DEF StackInv, GoodStack
  <2>9. MirrorInv
    BY <2>4, <2>6 DEF MirrorInv
  <2> QED BY <2>6, <2>7, <2>8, <2>9 DEF ExtInv, CallInv
<1>2. ExtInv /\ [Next]_vars => ExtInv'
  <2> SUFFICES ASSUME ExtInv, [Next]_vars PROVE ExtInv'
    OBVIOUS
  <2>1. CASE UNCHANGED vars
    <3>1. /\ UNCHANGED <<log, current, leaf, sessions, todo, mirror, callbacks, crossed, asked, dropped, stale>>
      BY <2>1 DEF vars, sessionVars, mirrorVars, histVars
    <3>2. TypeInv' = TypeInv /\ StackInv' = StackInv /\ CallInv' = CallInv /\ MirrorInv' = MirrorInv
      BY <3>1 DEF TypeInv, SessionInv, StackInv, CallInv, MirrorInv, Mirrored, EntriesOf
    <3> QED BY <3>2 DEF ExtInv
  <2> QED BY <2>1, StartKeeps, ReturnKeeps, StartMessage, AppendMessage, EndMessage, NoteKeeps,
             BeforeKeeps, CompactKeeps, SummarisedKeeps, RefusedKeeps, NewKeeps, SwitchKeeps,
             ForkKeeps, NavigateKeeps, StartedKeeps DEF Next
<1> QED BY <1>1, <1>2, PTL DEF Spec

(* When the host is done, each compaction an extension asked for has been called back, or
   its request never got its turn: for any nesting of answers, late answers and errors. *)
THEOREM CallsAreCalledBack == Spec => []CallbacksCalled
<1>1. ExtInv => CallbacksCalled
  <2> SUFFICES ASSUME ExtInv, todo = <<>> PROVE callbacks \subseteq dropped
    BY DEF CallbacksCalled
  <2>1. OnStack(todo) = {}
    BY DEF OnStack
  <2> QED BY <2>1 DEF ExtInv, CallInv, Asked
<1> QED BY <1>1, ExtensionInvariant, PTL

(* When the host is done, the mirror that extensions see is of the session that is open and
   has its messages, summaries and compactions, unless a switch failed half way. *)
THEOREM MirrorIsTrue == Spec => []MirrorFollows
<1>1. ExtInv => MirrorFollows
  <2> SUFFICES ASSUME ExtInv, todo = <<>>, ~stale
               PROVE  /\ mirror.in = current
                      /\ Mirrored \subseteq mirror.known /\ mirror.known \subseteq EntriesOf(current)
                      /\ leaf \in Mirrored /\ mirror.leaf # 0 /\ ~crossed => mirror.leaf = leaf
    BY DEF MirrorFollows
  <2>1. OnStack(todo) = {}
    BY DEF OnStack
  <2>2. Ended(OnStack(todo)) = {} /\ ~Starting(OnStack(todo))
    BY <2>1 DEF Ended, Starting
  <2> QED BY <2>2 DEF ExtInv, MirrorInv
<1> QED BY <1>1, ExtensionInvariant, PTL
=============================================================================
