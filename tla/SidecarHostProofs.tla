--------------------------- MODULE SidecarHostProofs ---------------------------
(***************************************************************************)
(* The current action list of the child process, for any requests and      *)
(* dialogs.                                                                *)
(*                                                                         *)
(* That it is the one of the request being handled rests on the serial     *)
(* loop: one request is under way, the others are in the queue once each,  *)
(* and the list that a handler saves is none.  It holds until hooks that   *)
(* nobody has awaited make another list current at their end.              *)
(***************************************************************************)
EXTENDS SidecarHost, TLAPS

States == {"unsent", "queued", "running", "handler", "waiting", "done"}

HostTypes ==
  /\ kind \in Seq(Kinds) /\ Len(kind) <= MaxRequests
  /\ queue \in Seq(Requests) /\ processing \in BOOLEAN
  /\ state \in [Requests -> States] /\ saved \in [Requests -> {0} \cup Requests]
  /\ sink \in {0} \cup Requests /\ inner \in [Requests -> {None, 0} \cup Requests]

Active(r) == state[r] \in {"running", "handler", "waiting"}
Inside(r) == state[r] \in {"handler", "waiting"}

(* processQueue: what is queued waits for its turn, once. *)
OneByOne ==
  /\ \A i \in DOMAIN queue : state[queue[i]] = "queued"
  /\ \A i, j \in DOMAIN queue : queue[i] = queue[j] => i = j
  /\ \A r \in Requests : state[r] = "unsent" <=> r > Len(kind)
  /\ \A r, q \in Requests : Active(r) /\ Active(q) => r = q
  /\ \A r \in Requests : Active(r) => processing
  /\ ~processing => queue = <<>>

(* invokeWithActionSink: no list outside handlers, and that of the request inside. *)
SinkFollows ==
  ~strayed =>
    /\ \A r \in Requests : Inside(r) => saved[r] = 0
    /\ \A r \in Requests : Inside(r) /\ kind[r] = "handle" => sink = r
    /\ sink # 0 => Inside(sink) /\ kind[sink] = "handle"

HostInv == HostTypes /\ OneByOne /\ SinkFollows

-----------------------------------------------------------------------------
(* A line that arrives is queued, or begins at once when nothing is under way. *)
LEMMA ArrivalKeeps ==
  ASSUME HostInv, NEW k \in Kinds, NEW d, LineArrives(k, d) PROVE HostInv'
<1> DEFINE r == Len(kind) + 1
<1>0. Len(kind) \in Nat /\ r <= MaxRequests /\ \A q \in Requests : state[q] = "unsent" <=> q > Len(kind)
  BY DEF HostInv, HostTypes, OneByOne, LineArrives
<1>1. /\ r \in Requests /\ state[r] = "unsent" /\ ~Active(r)
      /\ \A q \in Requests : q # r => (q > Len(kind) <=> q > r)
  BY <1>0, HostConstants DEF Requests, Active
<1>2. /\ kind' \in Seq(Kinds) /\ Len(kind') = r /\ r <= MaxRequests
      /\ \A q \in 1..Len(kind) : kind'[q] = kind[q]
  BY DEF HostInv, HostTypes, LineArrives
<1>3. UNCHANGED <<saved, sink, inner, strayed>> /\ processing' = TRUE
  BY DEF LineArrives, sinkVars, codeVars, innerVars, HostInv, HostTypes
<1> HIDE DEF r
<1>4. CASE processing
  <2>1. queue' = Append(queue, r) /\ state' = [state EXCEPT ![r] = "queued"]
    BY <1>4 DEF LineArrives, r
  <2>2. \A q \in Requests : state'[q] = IF q = r THEN "queued" ELSE state[q]
    BY <2>1 DEF HostInv, HostTypes
  <2>3. /\ queue' \in Seq(Requests) /\ Len(queue') = Len(queue) + 1
        /\ queue'[Len(queue) + 1] = r
        /\ \A i \in DOMAIN queue : queue'[i] = queue[i] /\ queue[i] # r
        /\ \A i \in DOMAIN queue' : i \in DOMAIN queue \/ i = Len(queue) + 1
    BY <1>1, <2>1 DEF HostInv, HostTypes, OneByOne
  <2>4. HostTypes'
    BY <1>1, <1>2, <1>3, <2>1, <2>3 DEF HostInv, HostTypes, States
  <2>5. OneByOne'
    <3>1. \A i \in DOMAIN queue' : state'[queue'[i]] = "queued"
      BY <1>1, <2>2, <2>3 DEF HostInv, HostTypes, OneByOne
    <3>2. \A i, j \in DOMAIN queue' : queue'[i] = queue'[j] => i = j
      <4>1. \A i, j \in DOMAIN queue : queue[i] = queue[j] => i = j
        BY DEF HostInv, OneByOne
      <4> QED BY <2>3, <4>1
    <3>3. \A q \in Requests : state'[q] = "unsent" <=> q > Len(kind')
      BY <1>1, <1>2, <2>2 DEF HostInv, HostTypes, OneByOne, r, Requests
    <3>4. \A q \in Requests : Active(q)' => Active(q)
      BY <2>2 DEF Active
    <3> QED BY <1>3, <3>1, <3>2, <3>3, <3>4 DEF HostInv, OneByOne
  <2>6. \A q \in Requests : Inside(q) => q \in 1..Len(kind)
    BY HostConstants DEF HostInv, HostTypes, OneByOne, Inside, Requests
  <2>7. SinkFollows'
    BY <1>1, <1>2, <1>3, <2>2, <2>6 DEF HostInv, HostTypes, SinkFollows, Inside
  <2> QED BY <2>4, <2>5, <2>7 DEF HostInv
<1>5. CASE ~processing
  <2>1. queue' = queue /\ state' = [state EXCEPT ![r] = "running"] /\ queue = <<>>
    BY <1>5 DEF LineArrives, Begin, r, HostInv, OneByOne
  <2>2. \A q \in Requests : state'[q] = IF q = r THEN "running" ELSE state[q]
    BY <2>1 DEF HostInv, HostTypes
  <2>3. \A q \in Requests : ~Active(q)
    BY <1>5 DEF HostInv, OneByOne
  <2>4. HostTypes'
    BY <1>1, <1>2, <1>3, <2>1 DEF HostInv, HostTypes, States
  <2>5. OneByOne'
    BY <1>1, <1>2, <1>3, <2>1, <2>2, <2>3 DEF HostInv, HostTypes, OneByOne, Active, r
  <2>6. SinkFollows'
    BY <1>1, <1>2, <1>3, <2>2, <2>3 DEF HostInv, HostTypes, SinkFollows, Inside, Active
  <2> QED BY <2>4, <2>5, <2>6 DEF HostInv
<1> QED BY <1>4, <1>5 DEF HostInv, HostTypes

(* A response ends the request that is under way and begins the next; there is no
   list while it does. *)
LEMMA ResponseKeeps ==
  ASSUME HostInv, NEW r \in Requests, Active(r), Respond(r), UNCHANGED saved,
         UNCHANGED innerVars, sink' \in {0} \cup Requests, ~strayed => sink' = 0,
         \A q \in Requests : Inside(q) => q = r
  PROVE  HostInv'
<1>1. UNCHANGED <<kind, inner, strayed>>
  BY DEF Respond, requestVars, innerVars
<1>2. CASE queue = <<>>
  <2>1. queue' = queue /\ state' = [state EXCEPT ![r] = "done"] /\ processing' = FALSE
    BY <1>2 DEF Respond
  <2>2. \A q \in Requests : state'[q] = IF q = r THEN "done" ELSE state[q]
    BY <2>1 DEF HostInv, HostTypes
  <2>3. HostTypes'
    BY <1>1, <2>1 DEF HostInv, HostTypes, States
  <2>4. OneByOne'
    BY <1>1, <1>2, <2>1, <2>2 DEF HostInv, HostTypes, OneByOne, Active
  <2>5. SinkFollows'
    BY <1>1, <2>2 DEF SinkFollows, Inside
  <2> QED BY <2>3, <2>4, <2>5 DEF HostInv
<1>3. CASE queue # <<>>
  <2> DEFINE next == Head(queue)
  <2>1. /\ queue' = Tail(queue) /\ processing' = processing
        /\ state' = [[state EXCEPT ![r] = "done"] EXCEPT ![next] = "running"]
    BY <1>3 DEF Respond, Begin
  <2>2. next \in Requests /\ state[next] = "queued" /\ next # r
    BY <1>3 DEF HostInv, HostTypes, OneByOne, Active
  <2>3. /\ queue' \in Seq(Requests) /\ DOMAIN queue' = 1..(Len(queue) - 1)
        /\ \A i \in DOMAIN queue' : queue'[i] = queue[i + 1] /\ i + 1 \in DOMAIN queue
        /\ 1 \in DOMAIN queue /\ next = queue[1]
    BY <1>3, <2>1 DEF HostInv, HostTypes
  <2> HIDE DEF next
  <2>4. \A q \in Requests :
          state'[q] = IF q = next THEN "running" ELSE IF q = r THEN "done" ELSE state[q]
    BY <2>1, <2>2 DEF HostInv, HostTypes
  <2>5. \A i \in DOMAIN queue' : queue'[i] # next /\ queue'[i] # r
    BY <2>2, <2>3 DEF HostInv, HostTypes, OneByOne, Active
  <2>6. HostTypes'
    BY <1>1, <2>1, <2>2, <2>3 DEF HostInv, HostTypes, States
  <2>7. OneByOne'
    <3>1. \A i \in DOMAIN queue' : state'[queue'[i]] = "queued"
      BY <2>3, <2>4, <2>5 DEF HostInv, HostTypes, OneByOne
    <3>2. \A i, j \in DOMAIN queue' : queue'[i] = queue'[j] => i = j
      BY <2>3 DEF HostInv, HostTypes, OneByOne
    <3>3. \A q \in Requests : (state'[q] = "unsent" <=> q > Len(kind')) /\ (Active(q)' => q = next)
      BY <1>1, <2>2, <2>4 DEF HostInv, HostTypes, OneByOne, Active
    <3>4. processing'
      BY <2>1 DEF HostInv, OneByOne
    <3> QED BY <3>1, <3>2, <3>3, <3>4 DEF OneByOne
  <2>8. SinkFollows'
    BY <1>1, <2>4 DEF SinkFollows, Inside
  <2> QED BY <2>6, <2>7, <2>8 DEF HostInv
<1> QED BY <1>2, <1>3

(* The request under way changes its place without its turn being over. *)
LEMMA TurnGoesOn ==
  ASSUME HostInv, NEW r \in Requests, Active(r), NEW s \in {"handler", "waiting"},
         state' = [state EXCEPT ![r] = s], UNCHANGED <<kind, queue, processing>>,
         saved' \in [Requests -> {0} \cup Requests], sink' \in {0} \cup Requests,
         UNCHANGED <<inner, strayed>>,
         ~strayed => saved'[r] = 0 /\ sink' = IF kind[r] = "handle" THEN r ELSE 0
  PROVE  HostInv'
<1>1. \A q \in Requests : state'[q] = IF q = r THEN s ELSE state[q]
  BY DEF HostInv, HostTypes
<1>2. \A q \in Requests : Active(q) => q = r
  BY DEF HostInv, OneByOne
<1>3. HostTypes'
  BY DEF HostInv, HostTypes, States
<1>4. OneByOne'
  BY <1>1 DEF HostInv, HostTypes, OneByOne, Active
<1>5. SinkFollows'
  BY <1>1, <1>2 DEF SinkFollows, Inside, Active
<1> QED BY <1>3, <1>4, <1>5 DEF HostInv

-----------------------------------------------------------------------------
(* The invariant holds in every reachable state. *)
LEMMA HostInvariant == Spec => []HostInv
<1>1. Init => HostInv
  <2> SUFFICES ASSUME Init PROVE HostInv
    OBVIOUS
  <2>1. HostTypes
    <3>1. kind \in Seq(Kinds) /\ queue \in Seq(Requests) /\ processing \in BOOLEAN
      <4>1. <<>> \in Seq(Kinds) /\ <<>> \in Seq(Requests)
        OBVIOUS
      <4> QED BY <4>1 DEF Init
    <3>2. Len(kind) <= MaxRequests
      BY HostConstants DEF Init
    <3>3. /\ state \in [Requests -> States] /\ saved \in [Requests -> {0} \cup Requests]
          /\ sink \in {0} \cup Requests /\ inner \in [Requests -> {None, 0} \cup Requests]
      BY DEF Init, States
    <3> QED BY <3>1, <3>2, <3>3 DEF HostTypes
  <2>2. \A r \in Requests : ~Active(r) /\ ~Inside(r) /\ state[r] = "unsent" /\ r > Len(kind)
    BY DEF Init, Active, Inside, Requests
  <2> QED BY <2>1, <2>2 DEF Init, HostInv, OneByOne, SinkFollows
<1>2. HostInv /\ [Next]_hostVars => HostInv'
  <2> SUFFICES ASSUME HostInv, [Next]_hostVars PROVE HostInv'
    OBVIOUS
  <2> DEFINE core == <<kind, queue, processing, state, saved, sink, inner, strayed>>
  <2>0. ASSUME UNCHANGED core PROVE HostInv'
    BY <2>0 DEF HostInv, HostTypes, OneByOne, SinkFollows, Active, Inside
  <2> HIDE DEF core
  <2>1. CASE HostSends
    BY <2>1, ArrivalKeeps DEF HostSends, Code, Kinds
  <2>2. ASSUME NEW r \in Requests, EnterHandler(r) PROVE HostInv'
    <3>1. ~strayed => sink = 0
      BY <2>2 DEF EnterHandler, HostInv, HostTypes, OneByOne, SinkFollows, Active, Inside
    <3>2. /\ saved' \in [Requests -> {0} \cup Requests] /\ saved'[r] = sink
          /\ sink' \in {0} \cup Requests /\ sink' = (IF kind[r] = "handle" THEN r ELSE sink)
      BY <2>2 DEF EnterHandler, HostInv, HostTypes
    <3>3. UNCHANGED <<inner, strayed>>
      BY <2>2 DEF EnterHandler, codeVars, innerVars
    <3> QED BY <2>2, <3>1, <3>2, <3>3, TurnGoesOn DEF EnterHandler, Active, requestVars
  <2>3. ASSUME NEW r \in Requests, Active(r) PROVE \A q \in Requests : Inside(q) => q = r
    BY <2>3 DEF HostInv, OneByOne, Active, Inside
  <2>4. ASSUME NEW r \in Requests, LeaveHandler(r) PROVE HostInv'
    <3>1. Active(r) /\ (~strayed => saved[r] = 0) /\ saved[r] \in {0} \cup Requests
      BY <2>4 DEF LeaveHandler, HostInv, HostTypes, SinkFollows, Active, Inside
    <3> QED BY <2>3, <2>4, <3>1, ResponseKeeps DEF LeaveHandler
  <2>5. ASSUME NEW r \in Requests, UiRespond(r) PROVE HostInv'
    <3>1. Active(r) /\ ~Inside(r)
      BY <2>5 DEF UiRespond, Active, Inside
    <3>2. (~strayed => sink = 0) /\ sink \in {0} \cup Requests
      BY <2>3, <3>1 DEF HostInv, HostTypes, SinkFollows
    <3> QED BY <2>3, <2>5, <3>1, <3>2, ResponseKeeps DEF UiRespond, sinkVars
  <2>6. ASSUME NEW r \in Requests, Shutdown(r) PROVE HostInv'
    BY <2>0, <2>6 DEF Shutdown, core, requestVars, loopVars, sinkVars, codeVars, innerVars
  <2>7. ASSUME NEW r \in Requests, Inside(r), ~strayed PROVE
          saved[r] = 0 /\ sink = IF kind[r] = "handle" THEN r ELSE 0
    BY <2>3, <2>7 DEF HostInv, HostTypes, SinkFollows, Active, Inside
  <2>8. ASSUME NEW r \in Requests, Resume(r) PROVE HostInv'
    BY <2>7, <2>8, TurnGoesOn
       DEF Resume, Active, Inside, requestVars, sinkVars, codeVars, innerVars, HostInv, HostTypes
  <2>9. ASSUME NEW r \in Requests, PushAction(r) PROVE HostInv'
    BY <2>0, <2>9 DEF PushAction, core, requestVars, loopVars, codeVars, innerVars
  <2>10. ASSUME NEW r \in Requests, NEW d \in Dialogs, NEW waits \in BOOLEAN, OpenDialog(r, d, waits)
         PROVE  HostInv'
    <3>1. CASE waits
      BY <2>7, <2>10, <3>1, TurnGoesOn
         DEF OpenDialog, Active, Inside, requestVars, sinkVars, innerVars, HostInv, HostTypes
    <3>2. CASE ~waits
      BY <2>0, <2>10, <3>2 DEF OpenDialog, core, requestVars, sinkVars, innerVars
    <3> QED BY <3>1, <3>2
  <2>11. ASSUME NEW d \in Dialogs, TimeOut(d) PROVE HostInv'
    BY <2>0, <2>11 DEF TimeOut, core, requestVars, loopVars, sinkVars, innerVars
  <2>12. CASE StdinCloses \/ UNCHANGED hostVars
    BY <2>0, <2>12 DEF StdinCloses, hostVars, core, requestVars, loopVars, sinkVars, codeVars, innerVars
  <2>13. ASSUME NEW r \in Requests, EnterHooks(r) PROVE HostInv'
    <3>1. /\ UNCHANGED <<kind, queue, processing, state, saved, sink, strayed>>
          /\ inner' = [inner EXCEPT ![r] = sink]
      BY <2>13 DEF EnterHooks, requestVars, loopVars, sinkVars
    <3>2. HostTypes'
      BY <3>1 DEF HostInv, HostTypes
    <3> QED BY <3>1, <3>2 DEF HostInv, OneByOne, SinkFollows, Active, Inside
  <2>14. ASSUME NEW r \in Requests, LeaveHooks(r) PROVE HostInv'
    <3>1. /\ UNCHANGED <<kind, queue, processing, state, saved>>
          /\ sink' = inner[r] /\ inner[r] # None /\ inner' = [inner EXCEPT ![r] = None]
          /\ ~strayed' => ~strayed /\ sink' = sink
      BY <2>14 DEF LeaveHooks, requestVars, loopVars
    <3>2. HostTypes'
      BY <3>1 DEF HostInv, HostTypes
    <3> QED BY <3>1, <3>2 DEF HostInv, OneByOne, SinkFollows, Active, Inside
  <2> QED BY <2>1, <2>2, <2>4, <2>5, <2>6, <2>8, <2>9, <2>10, <2>11, <2>12, <2>13, <2>14 DEF Next, Serve
<1> QED BY <1>1, <1>2, PTL DEF Spec

(* The one global currentActionSink, set around an await, names the list of the
   request being handled, or none: no action is accepted that misses the response it
   should travel with.  So it is until hooks that nobody has awaited end while another
   list is current. *)
THEOREM SinkIsCurrent == Spec => []ActionsReachHost
<1>1. HostInv => ActionsReachHost
  BY DEF HostInv, HostTypes, SinkFollows, ActionsReachHost, Handled, Inside, Requests
<1> QED BY <1>1, HostInvariant, PTL
=============================================================================
