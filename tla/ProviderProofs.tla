--------------------------- MODULE ProviderProofs ---------------------------
(***************************************************************************)
(* What lies between a conversation and its provider.                      *)
(*                                                                         *)
(* First the login store and the calls.  LoginHeld alone does not say      *)
(* which of its three places holds a login, and would not survive a step   *)
(* that empties one of them.  AuthInv says that both the process and the   *)
(* file hold each login, except at moments of a refresh when one of them,  *)
(* or the answer, is known to be behind.  NewestKeyUsed and                *)
(* OnlyWholeAnswers hold at one step of a call each, and rest on what the  *)
(* steps before have left: CallInv says that, step by step.                *)
(*                                                                         *)
(* Then the requests, for histories, models and bounds of any size.        *)
(* HistoryInv says what a history looks like: whose results stand where,   *)
(* and that no id is given twice.  The passes over it and the adapters are *)
(* recursive functions; each gets a lemma that gives its steps one by one, *)
(* and what it does to a whole list is then an induction over its length.  *)
(*                                                                         *)
(* That calls and results are paired is shown on the list of messages, and *)
(* carried to the request: Laid says that its messages lie over stretches  *)
(* of that list, one behind the other and none left out.                   *)
(***************************************************************************)
EXTENDS ProviderCall, Adapters, TLAPS, WellFoundedInduction, FiniteSetTheorems, SequenceTheorems

(* The process has the login, or is about to put it in its map. *)
InProcess(p) ==
  \/ data[p].login = valid[p]
  \/ pc \in {"answered", "storing"} /\ wanted = p

(* The answer to a refresh carries the login that the provider takes now. *)
AnswerCurrent ==
  pc \in {"answered", "storing"} /\ wanted \notin spoiled => answer.login = valid[wanted]

AuthInv ==
  /\ AuthTypeOK
  /\ ~up => pc = "idle" /\ unsaved = {}
  /\ AnswerCurrent
  /\ \A p \in Providers \ spoiled :
       /\ up => InProcess(p)
       /\ p \notin InMemoryOnly => file[p].login = valid[p]

(* What is assumed of the constants. *)
LEMMA AuthConstants ==
  /\ Rotating \subseteq Providers /\ Override \subseteq Providers /\ Fallback \subseteq Providers
  /\ MaxIssued \in Nat \ {0} /\ MaxFaults \in Nat
BY CredentialsConstants DEF CredentialsConstants

(* What GetAPIKey returns is a key. *)
LEMMA KeyOfIsKey ==
  ASSUME NEW p \in Providers, NEW c \in Credential
  PROVE  KeyOf(p, c) \in Key
BY DEF KeyOf, Key, Credential, NoKey

(* The invariant holds at the start. *)
LEMMA AuthInitInv == AuthInit => AuthInv
<1> SUFFICES ASSUME AuthInit PROVE AuthInv
  OBVIOUS
<1>1. NoLogin \in Credential /\ NoKey \in Key /\ [login |-> 1, access |-> 1] \in Credential
  BY DEF NoLogin, Credential, NoKey, Key
<1>2. data \in [Providers -> Credential] /\ file \in [Providers -> Credential]
  BY <1>1 DEF AuthInit
<1>3. issued \in [Providers -> Nat] /\ valid \in [Providers -> Nat] /\ expired \in [Providers -> Nat]
  BY DEF AuthInit
<1>4. AuthTypeOK
  BY <1>1, <1>2, <1>3 DEF AuthInit, AuthTypeOK
<1>5. \A p \in Providers : data[p].login = valid[p] /\ file[p].login = valid[p]
  BY DEF AuthInit
<1>6. up = TRUE
  BY DEF AuthInit
<1> QED
  BY <1>4, <1>5, <1>6 DEF AuthInit, AuthInv, InProcess, AnswerCurrent

(* Whatever is taken from the map or put there is a credential. *)
LEMMA AuthTypes == AuthTypeOK /\ [AuthNext]_auth => AuthTypeOK'
<1> SUFFICES ASSUME AuthTypeOK, [AuthNext]_auth PROVE AuthTypeOK'
  OBVIOUS
<1> USE AuthConstants
<1>1. NoLogin \in Credential /\ NoFile \in [Providers -> Credential] /\ NoKey \in Key
  BY DEF NoLogin, Credential, NoFile, NoKey, Key
<1>2. KeyOf(wanted, data[wanted]) \in Key
  BY KeyOfIsKey DEF AuthTypeOK
<1>3. ASSUME NEW p \in Providers, GetAPIKey(p) PROVE AuthTypeOK'
  BY <1>1, <1>3, KeyOfIsKey DEF GetAPIKey, Return, AuthTypeOK
<1>4. CASE Issue
  <2>1. Answer(data[wanted], wanted, issued[wanted] + 1) \in Credential
    BY DEF Answer, Credential, AuthTypeOK
  <2> QED BY <1>4, <2>1 DEF Issue, AuthTypeOK
<1>5. CASE Refuse
  BY <1>2, <1>5 DEF Refuse, Return, AuthTypeOK
<1>6. CASE LoseAnswer
  BY <1>2, <1>6 DEF LoseAnswer, Return, AuthTypeOK
<1>7. CASE BeginStore \/ EndStore
  BY <1>7 DEF BeginStore, EndStore, AuthTypeOK
<1>8. CASE BeginPersist
  BY <1>1, <1>8 DEF BeginPersist, AuthTypeOK
<1>9. CASE Persist \/ PersistFails
  BY <1>2, <1>9 DEF Persist, PersistFails, Return, AuthTypeOK
<1>10. CASE BeginLook \/ EndLook \/ Start
  BY <1>10 DEF BeginLook, EndLook, Start, AuthTypeOK
<1>11. CASE Kill \/ RaceKills
  <2>1. InMemoryOnly \subseteq Providers
    BY DEF InMemoryOnly, AuthTypeOK
  <2>2. Die
    BY <1>11 DEF Kill, RaceKills
  <2>3. faults' \in Nat
    BY <1>11 DEF Kill, RaceKills, AuthTypeOK
  <2>4. spoiled' \subseteq Providers /\ unsaved' \subseteq Providers
    BY <2>1, <2>2 DEF Die, AuthTypeOK
  <2>5. data' \in [Providers -> Credential] /\ answer' \in Credential /\ key' \in Key
    BY <1>1, <2>2 DEF Die
  <2> QED BY <2>2, <2>3, <2>4, <2>5 DEF Die, AuthTypeOK
<1>12. ASSUME NEW p \in Providers, Expire(p) PROVE AuthTypeOK'
  BY <1>12 DEF Expire, store, AuthTypeOK
<1>13. CASE UNCHANGED auth
  BY <1>13 DEF auth, store, AuthTypeOK
<1> QED
  BY <1>3, <1>4, <1>5, <1>6, <1>7, <1>8, <1>9, <1>10, <1>11, <1>12, <1>13
  DEF AuthNext, AuthStep, Refresh, KeepLogin, Process

(* A login that no fault has spoiled stays in the process and in the file, one step long. *)
LEMMA AuthPreserved == AuthInv /\ [AuthNext]_auth => AuthInv'
<1> SUFFICES ASSUME AuthInv, [AuthNext]_auth PROVE AuthInv'
  OBVIOUS
<1> USE AuthConstants
<1>0. AuthTypeOK /\ AuthTypeOK'
  BY AuthTypes DEF AuthInv
<1> DEFINE Safe == \A p \in Providers \ spoiled :
             /\ up => InProcess(p)
             /\ p \notin InMemoryOnly => file[p].login = valid[p]
<1> DEFINE Rest == (~up => pc = "idle" /\ unsaved = {}) /\ AnswerCurrent
<1>s. Safe /\ Rest
  BY DEF AuthInv
<1> SUFFICES Safe' /\ Rest'
  BY <1>0 DEF AuthInv
<1>3. ASSUME NEW p \in Providers, GetAPIKey(p) PROVE Safe' /\ Rest'
  BY <1>0, <1>s, <1>3 DEF GetAPIKey, Return, InProcess, AnswerCurrent, InMemoryOnly
<1>4. CASE Issue
  <2>1. Answer(data[wanted], wanted, issued[wanted] + 1).login
          = IF wanted \in Rotating THEN issued[wanted] + 1 ELSE data[wanted].login
    BY DEF Answer
  <2>2. answer'.login = valid'[wanted]
    BY <1>0, <1>4, <2>1 DEF Issue, AuthTypeOK
  <2>3. \A p \in Providers : p # wanted => valid'[p] = valid[p]
    BY <1>0, <1>4 DEF Issue, AuthTypeOK
  <2> QED BY <1>0, <1>s, <1>4, <2>2, <2>3 DEF Issue, InProcess, AnswerCurrent, InMemoryOnly
<1>5. CASE Refuse
  BY <1>0, <1>s, <1>5 DEF Refuse, Return, InProcess, AnswerCurrent, InMemoryOnly
<1>6. CASE LoseAnswer
  BY <1>0, <1>s, <1>6 DEF LoseAnswer, Return, InProcess, AnswerCurrent, InMemoryOnly
<1>7. CASE BeginStore
  BY <1>0, <1>s, <1>7 DEF BeginStore, InProcess, AnswerCurrent, InMemoryOnly
<1>8. CASE EndStore
  <2>1. data'[wanted] = answer /\ \A p \in Providers : p # wanted => data'[p] = data[p]
    BY <1>0, <1>8 DEF EndStore, AuthTypeOK
  <2> QED BY <1>0, <1>s, <1>8, <2>1 DEF EndStore, InProcess, AnswerCurrent, InMemoryOnly
<1>9. CASE BeginPersist
  BY <1>0, <1>s, <1>9 DEF BeginPersist, InProcess, AnswerCurrent, InMemoryOnly
<1>10. CASE Persist
  BY <1>0, <1>s, <1>10 DEF Persist, Return, InProcess, AnswerCurrent, InMemoryOnly
<1>11. CASE PersistFails
  BY <1>0, <1>s, <1>11 DEF PersistFails, Return, InProcess, AnswerCurrent, InMemoryOnly
<1>12. CASE BeginLook \/ EndLook
  BY <1>0, <1>s, <1>12 DEF BeginLook, EndLook, InProcess, AnswerCurrent, InMemoryOnly
<1>13. CASE Kill \/ RaceKills
  BY <1>0, <1>s, <1>13 DEF Kill, RaceKills, Die, InProcess, AnswerCurrent, InMemoryOnly
<1>14. CASE Start
  BY <1>0, <1>s, <1>14 DEF Start, InProcess, AnswerCurrent, InMemoryOnly
<1>15. ASSUME NEW p \in Providers, Expire(p) PROVE Safe' /\ Rest'
  BY <1>0, <1>s, <1>15 DEF Expire, store, InProcess, AnswerCurrent, InMemoryOnly
<1>16. CASE UNCHANGED auth
  BY <1>0, <1>s, <1>16 DEF auth, store, InProcess, AnswerCurrent, InMemoryOnly
<1> QED
  BY <1>3, <1>4, <1>5, <1>6, <1>7, <1>8, <1>9, <1>10, <1>11, <1>12, <1>13, <1>14, <1>15, <1>16
  DEF AuthNext, AuthStep, Refresh, KeepLogin, Process

(* A call of a provider gets and uses keys and does nothing else to the logins. *)
LEMMA CallIsAuth == [Next]_vars => [AuthNext]_auth
<1>1. Ask => [AuthNext]_auth
  <2>1. Begin => \E p \in Providers : GetAPIKey(p)
    BY DEF Begin
  <2>2. Build => UNCHANGED auth \/ \E p \in Providers : GetAPIKey(p)
    BY DEF Build
  <2>3. Prepare \/ Accepted \/ NotServed => UNCHANGED auth
    BY DEF Prepare, Accepted, NotServed
  <2> QED BY <2>1, <2>2, <2>3 DEF Ask, AuthNext
<1>2. Read \/ Cancel => UNCHANGED auth
  BY DEF Read, Cancel, Produce, Finish, EndOfInput, ReadFails
<1>3. Background \/ Kill \/ RaceKills => AuthNext
  BY DEF Background, AuthNext, AuthStep, Process
<1>4. UNCHANGED vars => UNCHANGED auth
  BY DEF vars
<1> QED BY <1>1, <1>2, <1>3, <1>4 DEF Next

(* The invariant holds in every reachable state. *)
LEMMA AuthInvariant == Spec => []AuthInv
<1>1. Init => AuthInv
  BY AuthInitInv DEF Init
<1>2. AuthInv /\ [Next]_vars => AuthInv'
  BY AuthPreserved, CallIsAuth
<1> QED BY <1>1, <1>2, PTL DEF Spec

(* A login is never lost, unless an answer to a refresh was, or the process died with a
   login not written or the file half written: whatever else fails. *)
THEOREM LoginsAreHeld == Spec => []LoginHeld
<1>1. AuthInv => LoginHeld
  BY DEF AuthInv, LoginHeld, InProcess, AnswerCurrent, InMemoryOnly
<1> QED BY <1>1, AuthInvariant, PTL

(* No refresh token is sent that the provider has replaced, unless the new one was lost. *)
THEOREM NoRefreshIsStale == Spec => []NoStaleRefresh
<1>1. AuthInv => NoStaleRefresh
  BY DEF AuthInv, AuthTypeOK, NoStaleRefresh, InProcess
<1> QED BY <1>1, AuthInvariant, PTL

-----------------------------------------------------------------------------
(* Calls of a provider *)

USE DEF P

Parts == Seq({"text", "call"})

CallType ==
  [step      : {"off", "building", "asking", "sending", "reading", "answer", "failed", "aborted"},
   provider  : Providers, built : Key, used : Key, server : {1, 2},
   made      : Parts, seen : Parts, skipped : BOOLEAN, finished : BOOLEAN,
   stop      : {"none", "toolUse", "stop"}, cancelled : BOOLEAN]

(* The key the process would use now. *)
NewestKey == KeyOf(P, data[P])

(* A key that was got is the newest, as soon as GetAPIKey returns. *)
GotKey == up /\ wanted = P /\ (pc = "idle" => key = NewestKey)

(* The adapter has been built with a key only if there still is one. *)
BuiltWith(k) == k = NoKey \/ (k.from # "none" /\ NewestKey.from # "none")

Untouched(c) == c.made = <<>> /\ c.seen = <<>> /\ ~c.finished

(* What has been read of an answer that is coming in: all parts of Cloud Code Assist's
   unless a chunk has been skipped, otherwise nothing before the end. *)
SeenOf(made, seen, skipped, finished) ==
  IF P \in Assists THEN skipped \/ seen = made ELSE seen = IF finished THEN made ELSE <<>>
ReadSoFar == SeenOf(call.made, call.seen, call.skipped, call.finished)

CallInv ==
  /\ AuthTypeOK /\ call \in CallType
  /\ ~up => Is("off")
  /\ pc \in {"answered", "storing"} => answer.access # 0
  /\ Is("building") => GotKey /\ Untouched(call)
  /\ Is("asking")   => GotKey /\ BuiltWith(call.built) /\ Untouched(call)
  /\ Is("sending")  => up /\ pc = "idle" /\ call.used = NewestKey /\ Untouched(call)
  /\ Is("reading")  => ReadSoFar
  /\ OnlyWholeAnswers

(* Only NoKey is from nowhere; and a provider that has issued a token leaves no process
   without a key. *)
LEMMA KeyOfFacts ==
  ASSUME NEW p \in Providers, NEW c \in Credential
  PROVE  /\ KeyOf(p, c) \in Key
         /\ KeyOf(p, c) = NoKey \/ KeyOf(p, c).from # "none"
         /\ c.access # 0 => KeyOf(p, c).from # "none"
BY DEF KeyOf, Key, Credential, NoKey

(* A call that has not begun. *)
LEMMA NoCallType == AuthTypeOK => NoCall \in CallType /\ Untouched(NoCall) /\ NoCall.step = "off"
<1> SUFFICES ASSUME AuthTypeOK PROVE NoCall \in CallType /\ Untouched(NoCall) /\ NoCall.step = "off"
  OBVIOUS
<1> DEFINE any == CHOOSE p \in Providers : TRUE
<1>1. any \in Providers
  BY DEF AuthTypeOK
<1> HIDE DEF any
<1>2. NoKey \in Key /\ <<>> \in Parts
  BY DEF NoKey, Key, Parts
<1> QED BY <1>1, <1>2 DEF NoCall, CallType, Untouched, any

(* While a call waits for its key, or for anything else, the steps of a refresh and of
   the process change no more of it than what key is the newest. *)
LEMMA BackgroundKeeps == CallInv /\ Background /\ UNCHANGED call => CallInv'
<1> SUFFICES ASSUME CallInv, Background, UNCHANGED call PROVE CallInv'
  OBVIOUS
<1> USE AuthConstants
<1>1. AuthTypeOK'
  BY AuthTypes DEF CallInv, Background, AuthNext, AuthStep, Process
<1>2. AuthTypeOK /\ call \in CallType /\ P \in Providers
  BY DEF CallInv, CallType
<1> DEFINE Fresh == /\ pc \in {"answered", "storing"} => answer.access # 0
                    /\ ~up => Is("off")
           Keys  == /\ Is("building") => GotKey
                    /\ Is("asking")   => GotKey /\ BuiltWith(call.built)
                    /\ Is("sending")  => up /\ pc = "idle" /\ call.used = NewestKey
<1>3. Fresh /\ Keys
  BY DEF CallInv
<1>4. SUFFICES Fresh' /\ Keys'
  BY <1>1, <1>2, <1>4 DEF CallInv, Is, Untouched, ReadSoFar, SeenOf, OnlyWholeAnswers
<1>5. CASE Issue
  <2>1. Answer(data[wanted], wanted, issued[wanted] + 1).access # 0
    BY <1>2 DEF Answer, AuthTypeOK
  <2> QED BY <1>3, <1>5, <2>1 DEF Issue, Is, GotKey, BuiltWith, NewestKey
<1>6. CASE Refuse \/ LoseAnswer
  BY <1>3, <1>6 DEF Refuse, LoseAnswer, Return, Is, GotKey, BuiltWith, NewestKey
<1>7. CASE BeginStore \/ BeginPersist
  BY <1>3, <1>7 DEF BeginStore, BeginPersist, Is, GotKey, BuiltWith, NewestKey
<1>8. CASE EndStore
  <2>1. data'[wanted] = answer /\ \A p \in Providers : p # wanted => data'[p] = data[p]
    BY <1>2, <1>8 DEF EndStore, AuthTypeOK
  <2>2. answer \in Credential /\ answer.access # 0
    BY <1>2, <1>3, <1>8 DEF EndStore, AuthTypeOK
  <2>3. wanted = P => NewestKey'.from # "none"
    BY <1>2, <1>8, <2>1, <2>2, KeyOfFacts DEF EndStore, NewestKey
  <2> QED BY <1>2, <1>3, <1>8, <2>1, <2>3 DEF EndStore, Is, GotKey, BuiltWith
<1>9. CASE Persist \/ PersistFails
  BY <1>3, <1>9 DEF Persist, PersistFails, Return, Is, GotKey, BuiltWith, NewestKey
<1>10. CASE BeginLook \/ EndLook
  BY <1>3, <1>10 DEF BeginLook, EndLook, Is, GotKey, BuiltWith, NewestKey
<1>11. CASE Start
  BY <1>3, <1>11 DEF Start, Is, GotKey, BuiltWith, NewestKey
<1>12. ASSUME NEW p \in Providers, Expire(p) PROVE Fresh' /\ Keys'
  BY <1>3, <1>12 DEF Expire, store, Is, GotKey, BuiltWith, NewestKey
<1> QED BY <1>5, <1>6, <1>7, <1>8, <1>9, <1>10, <1>11, <1>12 DEF Background, Refresh, KeepLogin

(* GetAPIKey has just been called for the provider of the call. *)
LEMMA KeyIsGot ==
  ASSUME AuthTypeOK, NEW p \in Providers, GetAPIKey(p), P' = p
  PROVE  GotKey' /\ UNCHANGED <<up, data, answer>>
BY DEF GetAPIKey, Return, GotKey, NewestKey

(* The steps of a call before the answer. *)
LEMMA AskKeeps == CallInv /\ Ask => CallInv'
<1> SUFFICES ASSUME CallInv, Ask PROVE CallInv'
  OBVIOUS
<1> USE AuthConstants
<1>1. AuthTypeOK'
  BY AuthTypes, CallIsAuth DEF CallInv, Next
<1>2. AuthTypeOK /\ call \in CallType /\ P \in Providers /\ data[P] \in Credential
  BY DEF CallInv, CallType, AuthTypeOK
<1>3. CASE Begin
  <2>1. PICK p \in Providers :
          GetAPIKey(p) /\ call' = [NoCall EXCEPT !.step = "building", !.provider = p]
    BY <1>3 DEF Begin
  <2>2. /\ call' \in CallType /\ call'.step = "building" /\ call'.provider = p
        /\ Untouched(call')
    BY <1>2, <2>1, NoCallType DEF CallType, Untouched
  <2>3. GotKey' /\ UNCHANGED <<up, answer>> /\ up
    BY <1>2, <2>1, <2>2, KeyIsGot DEF GetAPIKey
  <2>4. pc' \notin {"answered", "storing"}
    BY <2>1 DEF GetAPIKey, Return
  <2> QED BY <1>1, <2>2, <2>3, <2>4 DEF CallInv, Is, OnlyWholeAnswers
<1>4. CASE Build
  <2>1. up /\ Is("building") /\ pc = "idle" /\ GotKey /\ Untouched(call)
    BY <1>4 DEF Build, CallInv
  <2>2. CASE Over("failed") /\ UNCHANGED auth
    <3>1. call' \in CallType /\ call'.step = "failed"
      BY <1>2, <2>2 DEF Over, CallType
    <3> QED BY <1>1, <2>1, <2>2, <3>1 DEF CallInv, Is, OnlyWholeAnswers, auth, store
  <2>3. CASE \E p \in Providers : p = P /\ GetAPIKey(p) /\ call' = [call EXCEPT !.step = "asking", !.built = key]
    <3>1. /\ call' \in CallType /\ call'.step = "asking" /\ call'.provider = P /\ call'.built = key
          /\ Untouched(call')
      BY <1>2, <2>1, <2>3 DEF CallType, AuthTypeOK, Untouched
    <3>2. GotKey' /\ UNCHANGED <<up, data, answer>>
      BY <1>2, <2>3, <3>1, KeyIsGot
    <3>3. BuiltWith(key)
      BY <1>2, <2>1, KeyOfFacts DEF GotKey, NewestKey, BuiltWith
    <3>4. NewestKey' = NewestKey /\ BuiltWith(call.built)'
      BY <3>1, <3>2, <3>3 DEF NewestKey, BuiltWith
    <3>5. pc' \notin {"answered", "storing"}
      BY <2>3 DEF GetAPIKey, Return
    <3> QED BY <1>1, <2>1, <3>1, <3>2, <3>4, <3>5 DEF CallInv, Is, OnlyWholeAnswers
  <2> QED BY <1>4, <2>2, <2>3 DEF Build
<1>5. CASE Prepare
  <2>1. /\ up /\ Is("asking") /\ pc = "idle" /\ GotKey /\ BuiltWith(call.built) /\ Untouched(call)
        /\ UNCHANGED auth
    BY <1>5 DEF Prepare, CallInv
  <2> DEFINE used == ResolveAPIKey(key, call.built)
  <2>2. used = NewestKey /\ used \in Key
    <3>1. key = NewestKey /\ NewestKey \in Key
      BY <1>2, <2>1, KeyOfFacts DEF GotKey, NewestKey
    <3>2. NewestKey = NoKey \/ NewestKey.from # "none"
      BY <1>2, KeyOfFacts DEF NewestKey
    <3> QED BY <2>1, <3>1, <3>2 DEF ResolveAPIKey, BuiltWith, NoKey
  <2> HIDE DEF used
  <2>3. PICK s \in {"failed", "sending"} : call' = [call EXCEPT !.step = s, !.used = used]
    BY <1>5 DEF Prepare, used
  <2>4. /\ call' \in CallType /\ call'.step = s /\ call'.provider = P /\ call'.used = used
        /\ Untouched(call')
    BY <1>2, <2>1, <2>2, <2>3 DEF CallType, Untouched
  <2>5. NewestKey' = NewestKey
    BY <2>1, <2>4 DEF NewestKey, auth, store
  <2> QED BY <1>1, <2>1, <2>2, <2>4, <2>5 DEF CallInv, Is, OnlyWholeAnswers, auth, store
<1>6. CASE Accepted
  <2>1. /\ call' \in CallType /\ call'.step = "reading" /\ call'.provider = P
        /\ Untouched(call') /\ up
    BY <1>2, <1>6 DEF Accepted, CallInv, CallType, Untouched, Is
  <2> QED BY <1>1, <1>6, <2>1 DEF Accepted, CallInv, Is, Untouched, ReadSoFar, SeenOf, OnlyWholeAnswers, auth, store
<1>7. CASE NotServed
  <2>1. up /\ pc = "idle" /\ call.used = NewestKey /\ Untouched(call) /\ UNCHANGED auth
    BY <1>7 DEF NotServed, CallInv
  <2>2. CASE call' = [call EXCEPT !.server = 2]
    <3>1. /\ call' \in CallType /\ call'.step = "sending" /\ call'.provider = P
          /\ Untouched(call') /\ call'.used = call.used
      BY <1>2, <1>7, <2>1, <2>2 DEF NotServed, CallType, Untouched, Is
    <3> QED BY <1>1, <2>1, <3>1 DEF CallInv, Is, NewestKey, OnlyWholeAnswers, auth, store
  <2>3. CASE \E o \in {"aborted", "failed"} : Over(o)
    <3>1. call' \in CallType /\ call'.step \in {"aborted", "failed"}
      BY <1>2, <2>3 DEF Over, CallType
    <3> QED BY <1>1, <2>1, <3>1 DEF CallInv, Is, OnlyWholeAnswers, auth, store
  <2> QED BY <1>7, <2>2, <2>3 DEF NotServed
<1> QED BY <1>3, <1>4, <1>5, <1>6, <1>7 DEF Ask

(* The answer as it comes in, and what is taken for one. *)
LEMMA ReadKeeps == CallInv /\ (Read \/ Cancel) => CallInv'
<1> SUFFICES ASSUME CallInv, Read \/ Cancel PROVE CallInv'
  OBVIOUS
<1>1. UNCHANGED auth /\ AuthTypeOK'
  BY AuthTypes DEF CallInv, Read, Produce, Finish, EndOfInput, ReadFails, Cancel
<1>2. call \in CallType /\ (~up => Is("off"))
  BY DEF CallInv
<1>3. UNCHANGED <<up, pc, answer, wanted, key, data>>
  BY <1>1 DEF auth, store
<1>4. ASSUME Is("reading"), NEW made \in Parts, NEW seen \in Parts, NEW skipped \in BOOLEAN,
             NEW finished \in BOOLEAN, NEW stop \in {"none", "toolUse", "stop"},
             call' = [call EXCEPT !.made = made, !.seen = seen, !.skipped = skipped, !.finished = finished,
                                  !.stop = stop],
             SeenOf(made, seen, skipped, finished)
      PROVE  CallInv'
  <2>1. /\ call' \in CallType /\ call'.step = "reading" /\ call'.provider = P
        /\ call'.made = made /\ call'.seen = seen /\ call'.skipped = skipped /\ call'.finished = finished
    BY <1>2, <1>4 DEF CallType, Is
  <2>2. ReadSoFar'
    BY <1>4, <2>1 DEF ReadSoFar, SeenOf
  <2> QED BY <1>1, <1>2, <1>3, <1>4, <2>1, <2>2 DEF CallInv, Is, OnlyWholeAnswers
<1>5. CASE Produce
  <2>1. PICK part \in {"text", "call"}, parses \in BOOLEAN :
          call' = [call EXCEPT !.made = Append(@, part),
                               !.seen = IF P \in Assists /\ parses THEN Append(@, part) ELSE @,
                               !.skipped = @ \/ (P \in Assists /\ ~parses)]
    BY <1>5 DEF Produce
  <2>2. /\ Is("reading") /\ ~call.finished /\ SeenOf(call.made, call.seen, call.skipped, call.finished)
    BY <1>5 DEF Produce, CallInv, ReadSoFar
  <2> DEFINE made == Append(call.made, part)
             seen == IF P \in Assists /\ parses THEN Append(call.seen, part) ELSE call.seen
             skipped == call.skipped \/ (P \in Assists /\ ~parses)
  <2>3. /\ made \in Parts /\ seen \in Parts /\ call.stop \in {"none", "toolUse", "stop"}
        /\ call.finished \in BOOLEAN
    BY <1>2 DEF CallType, Parts
  <2>6. skipped \in BOOLEAN
    OBVIOUS
  <2>4. call' = [call EXCEPT !.made = made, !.seen = seen, !.skipped = skipped, !.finished = call.finished,
                             !.stop = call.stop]
    BY <1>2, <2>1 DEF CallType
  <2>5. SeenOf(made, seen, skipped, call.finished)
    <3>1. CASE P \in Assists
      BY <2>2, <3>1 DEF SeenOf
    <3>2. CASE P \notin Assists
      BY <2>2, <3>2 DEF SeenOf
    <3> QED BY <3>1, <3>2
  <2> HIDE DEF made, seen, skipped
  <2> QED BY <1>4, <2>2, <2>3, <2>4, <2>5, <2>6
<1>6. CASE Finish
  <2>1. Is("reading") /\ ~call.finished /\ SeenOf(call.made, call.seen, call.skipped, call.finished)
    BY <1>6 DEF Finish, CallInv, ReadSoFar
  <2> DEFINE seen == IF P \in Assists THEN call.seen ELSE call.made
             stop == StopFor(IF P \in Assists THEN call.seen ELSE call.made)
  <2>2. call.made \in Parts /\ seen \in Parts /\ stop \in {"none", "toolUse", "stop"} /\ call.skipped \in BOOLEAN
    BY <1>2 DEF CallType, StopFor
  <2>3. call' = [call EXCEPT !.made = call.made, !.seen = seen, !.skipped = call.skipped, !.finished = TRUE,
                             !.stop = stop]
    BY <1>2, <1>6 DEF Finish, CallType
  <2>4. SeenOf(call.made, seen, call.skipped, TRUE)
    BY <2>1 DEF SeenOf
  <2> HIDE DEF seen, stop
  <2> QED BY <1>4, <2>1, <2>2, <2>3, <2>4
<1>7. CASE \E o \in {"failed", "aborted"} : Is("reading") /\ Over(o)
  <2>1. call' \in CallType /\ call'.step \in {"failed", "aborted"} /\ Is("reading")
    BY <1>2, <1>7 DEF Over, CallType
  <2> QED BY <1>1, <1>2, <1>3, <2>1 DEF CallInv, Is, OnlyWholeAnswers
<1>8. CASE /\ Is("reading") /\ (call.finished \/ P \in Assists)
           /\ call' = [call EXCEPT !.step = "answer", !.stop = StopFor(call.seen)]
  <2>1. call.seen = call.made \/ (P \in Assists /\ call.skipped)
    BY <1>8 DEF CallInv, ReadSoFar, SeenOf
  <2>2. StopFor(call.seen) \in {"none", "toolUse", "stop"}
    BY DEF StopFor
  <2>3. /\ call' \in CallType /\ call'.step = "answer" /\ call'.provider = P
        /\ call'.made = call.made /\ call'.seen = call.seen /\ call'.finished = call.finished
        /\ call'.skipped = call.skipped /\ call'.stop = StopFor(call.seen)
    BY <1>2, <1>8, <2>2 DEF CallType
  <2> QED BY <1>1, <1>2, <1>3, <1>8, <2>1, <2>3 DEF CallInv, Is, OnlyWholeAnswers
<1>9. CASE EndOfInput
  BY <1>7, <1>8, <1>9 DEF EndOfInput, AssistTaken, CodexTaken, DocumentTaken
<1>10. CASE ReadFails
  BY <1>7, <1>10 DEF ReadFails
<1>11. CASE Cancel
  <2>1. /\ call' \in CallType /\ call'.step = call.step /\ call'.provider = P
        /\ call'.built = call.built /\ call'.used = call.used
        /\ call'.made = call.made /\ call'.seen = call.seen /\ call'.finished = call.finished
        /\ call'.skipped = call.skipped /\ call'.stop = call.stop
    BY <1>2, <1>11 DEF Cancel, CallType
  <2>2. NewestKey' = NewestKey /\ (GotKey <=> GotKey')
    BY <1>3, <2>1 DEF NewestKey, GotKey
  <2> QED BY <1>1, <1>2, <1>3, <2>1, <2>2
          DEF CallInv, Is, BuiltWith, Untouched, ReadSoFar, SeenOf, OnlyWholeAnswers
<1> QED BY <1>5, <1>6, <1>9, <1>10, <1>11 DEF Read

(* CallInv holds in every reachable state. *)
LEMMA CallInvariant == Spec => []CallInv
<1>1. Init => CallInv
  <2> SUFFICES ASSUME Init PROVE CallInv
    OBVIOUS
  <2>1. AuthTypeOK /\ up /\ pc = "idle"
    BY AuthInitInv DEF Init, AuthInv, AuthInit
  <2>2. call \in CallType /\ call.step = "off"
    BY <2>1, NoCallType DEF Init
  <2> QED BY <2>1, <2>2 DEF CallInv, Is, OnlyWholeAnswers
<1>2. CallInv /\ [Next]_vars => CallInv'
  <2> SUFFICES ASSUME CallInv, [Next]_vars PROVE CallInv'
    OBVIOUS
  <2>1. CASE (Kill \/ RaceKills) /\ call' = NoCall
    <3>1. AuthTypeOK' /\ pc' = "idle"
      BY <2>1, AuthTypes DEF CallInv, AuthNext, AuthStep, Process, Kill, RaceKills, Die
    <3>2. NoCall \in CallType /\ NoCall.step = "off"
      BY NoCallType DEF CallInv
    <3>3. call' \in CallType'
      BY <2>1, <3>2
    <3> QED BY <2>1, <3>1, <3>2, <3>3 DEF CallInv, Is, OnlyWholeAnswers
  <2>2. CASE UNCHANGED vars
    BY <2>2 DEF vars, auth, store, CallInv, AuthTypeOK, Is, GotKey, NewestKey, BuiltWith,
                Untouched, ReadSoFar, SeenOf, OnlyWholeAnswers
  <2> QED BY <2>1, <2>2, AskKeeps, ReadKeeps, BackgroundKeeps DEF Next
<1> QED BY <1>1, <1>2, PTL DEF Spec

(* A request carries the newest key that the process has: the second look at the logins
   outweighs the key the adapter was built with, and what is found then can only have
   been renewed, never lost. *)
THEOREM TheNewestKeyIsUsed == Spec => []NewestKeyUsed
<1>1. CallInv => NewestKeyUsed
  BY DEF CallInv, NewestKeyUsed, NewestKey
<1> QED BY <1>1, CallInvariant, PTL

(* What is taken for an answer is whole: in spite of all ends a stream may come to, and
   of every kind of provider; of Cloud Code Assist, what came before the stream ended,
   unless a chunk has been skipped. *)
THEOREM AnswersAreWhole == Spec => []OnlyWholeAnswers
<1>1. CallInv => OnlyWholeAnswers
  BY DEF CallInv
<1> QED BY <1>1, CallInvariant, PTL

HIDE DEF P

-----------------------------------------------------------------------------
(* Induction and iteration *)

LEMMA SetInduction ==
  ASSUME NEW S, 0 \in S, \A n \in Nat : n \in S => n + 1 \in S
  PROVE  Nat \subseteq S
<1> DEFINE R == {ss \in Nat \X Nat : ss[1] < ss[2]}
           T == Nat \ S
<1>1. IsWellFoundedOn(R, Nat)
  BY NatLessThanWellFounded DEF OpToRel
<1>2. \A x, y \in Nat : x < y => <<x, y>> \in R
  OBVIOUS
<1> HIDE DEF R
<1>3. CASE T # {}
  <2>1. T \subseteq Nat
    OBVIOUS
  <2> HIDE DEF T
  <2>2. PICK x \in T : \A y \in T : ~ (<<y, x>> \in R)
    BY <1>1, <1>3, <2>1, WFMin
  <2> USE DEF T
  <2>3. x # 0 /\ x - 1 \in Nat /\ x - 1 < x
    BY <2>2
  <2>4. x - 1 \in T
    BY <2>2, <2>3
  <2> QED BY <2>2, <2>3, <2>4, <1>2
<1> QED BY <1>3

(* Induction up to a bound. *)
LEMMA BoundedInduction ==
  ASSUME NEW n \in Nat, NEW S, 0 \in S, \A i \in 1..n : i - 1 \in S => i \in S
  PROVE  0..n \subseteq S
<1> DEFINE T == {m \in Nat : m <= n => m \in S}
<1>1. 0 \in T
  OBVIOUS
<1>2. ASSUME NEW m \in Nat, m \in T PROVE m + 1 \in T
  <2> SUFFICES ASSUME m + 1 <= n PROVE m + 1 \in S
    OBVIOUS
  <2>1. m \in S /\ m + 1 \in 1..n /\ (m + 1) - 1 = m
    BY <1>2
  <2> QED BY <2>1
<1> HIDE DEF T
<1>3. Nat \subseteq T
  BY <1>1, <1>2, SetInduction
<1> QED BY <1>3 DEF T

(* A function that is defined by a recursion over 0..n: what the steps give. *)
Iterates(g, n, b, step) ==
  /\ g[0] = b
  /\ \A i \in 1..n : g[i] = step[<<i, g[i - 1]>>]

LEMMA IterationExists ==
  ASSUME NEW n \in Nat, NEW V, NEW b \in V, NEW step \in [(1..n) \X V -> V]
  PROVE  \E g \in [0..n -> V] : Iterates(g, n, b, step)
<1> DEFINE S == {m \in 0..n : \E g \in [0..m -> V] : Iterates(g, m, b, step)}
<1>1. 0 \in S
  <2> DEFINE g == [i \in 0..0 |-> b]
  <2>1. g \in [0..0 -> V] /\ g[0] = b
    OBVIOUS
  <2> HIDE DEF g
  <2>2. Iterates(g, 0, b, step)
    BY <2>1 DEF Iterates
  <2> QED BY <2>1, <2>2
<1>2. ASSUME NEW m \in 1..n, m - 1 \in S PROVE m \in S
  <2>1. PICK g \in [0..(m - 1) -> V] : Iterates(g, m - 1, b, step)
    BY <1>2
  <2> DEFINE last == step[<<m, g[m - 1]>>]
             h    == [i \in 0..m |-> IF i = m THEN last ELSE g[i]]
  <2>2. last \in V
    BY <2>1
  <2> HIDE DEF last
  <2>3. h \in [0..m -> V]
    BY <2>2
  <2>4. h[m] = last /\ \A i \in 0..(m - 1) : h[i] = g[i]
    OBVIOUS
  <2> HIDE DEF h
  <2>5. h[0] = b
    BY <2>1, <2>4 DEF Iterates
  <2>6. ASSUME NEW i \in 1..m PROVE h[i] = step[<<i, h[i - 1]>>]
    <3>1. CASE i = m
      BY <2>4, <3>1 DEF last
    <3>2. CASE i \in 1..(m - 1)
      BY <2>1, <2>4, <3>2 DEF Iterates
    <3> QED BY <3>1, <3>2
  <2> QED BY <2>3, <2>5, <2>6 DEF Iterates
<1> HIDE DEF S
<1>3. 0..n \subseteq S
  BY <1>1, <1>2, BoundedInduction
<1>4. n \in S
  BY <1>3
<1> QED BY <1>4 DEF S

-----------------------------------------------------------------------------
(* Picked *)

PickStep(s, I, r, i) == IF i \in I THEN Append(r, s[i]) ELSE r

LEMMA PickedIsIteration ==
  ASSUME NEW S, NEW s \in Seq(S), NEW I
  PROVE  \E g : /\ g[0] = <<>>
                /\ \A i \in 1..Len(s) : g[i] = PickStep(s, I, g[i - 1], i)
                /\ \A i \in 0..Len(s) : g[i] \in Seq(S)
                /\ Picked(s, I) = g[Len(s)]
<1> DEFINE n == Len(s)
           F(h) == [i \in 0..n |-> IF i = 0 THEN <<>>
                                   ELSE IF i \in I THEN Append(h[i - 1], s[i]) ELSE h[i - 1]]
           g == CHOOSE h : h = F(h)
           step == [p \in (1..n) \X Seq(S) |-> PickStep(s, I, p[2], p[1])]
<1>1. n \in Nat /\ Picked(s, I) = g[n]
  BY DEF Picked
<1>2. step \in [(1..n) \X Seq(S) -> Seq(S)]
  <2>1. \A i \in 1..n, r \in Seq(S) : PickStep(s, I, r, i) \in Seq(S)
    BY DEF PickStep
  <2> QED BY <2>1
<1>3. \A i \in 1..n, r \in Seq(S) : step[<<i, r>>] = PickStep(s, I, r, i)
  OBVIOUS
<1>4. \A h : \A i \in 1..n : PickStep(s, I, h[i - 1], i) =
                IF i \in I THEN Append(h[i - 1], s[i]) ELSE h[i - 1]
  BY DEF PickStep
<1> HIDE DEF n, step
<1>5. \E h : h = F(h)
  <2>1. <<>> \in Seq(S)
    OBVIOUS
  <2>2. PICK h \in [0..n -> Seq(S)] : Iterates(h, n, <<>>, step)
    BY <1>1, <1>2, <2>1, IterationExists
  <2>3. ASSUME NEW i \in 1..n PROVE h[i] = PickStep(s, I, h[i - 1], i)
    <3>1. i - 1 \in 0..n
      BY <1>1
    <3>2. h[i - 1] \in Seq(S)
      BY <2>2, <3>1
    <3>3. h[i] = step[<<i, h[i - 1]>>]
      BY <2>2 DEF Iterates
    <3> QED BY <1>3, <3>2, <3>3
  <2>4. h = [i \in 0..n |-> h[i]] /\ h[0] = <<>>
    BY <2>2 DEF Iterates
  <2>5. \A i \in 0..n : h[i] = IF i = 0 THEN <<>>
                               ELSE IF i \in I THEN Append(h[i - 1], s[i]) ELSE h[i - 1]
    <3>1. \A i \in 0..n : i # 0 => i \in 1..n
      BY <1>1
    <3> QED BY <1>4, <2>3, <2>4, <3>1
  <2> QED BY <2>4, <2>5
<1>6. g = F(g)
  BY <1>5
<1> HIDE DEF g
<1>7. g[0] = <<>> /\ \A i \in 1..n : g[i] = PickStep(s, I, g[i - 1], i)
  <2>1. 0 \in 0..n /\ \A i \in 1..n : i \in 0..n /\ i # 0
    BY <1>1
  <2>2. \A i \in 0..n : g[i] = F(g)[i]
    BY <1>6
  <2>3. g[0] = <<>> /\ \A i \in 1..n : g[i] = IF i \in I THEN Append(g[i - 1], s[i]) ELSE g[i - 1]
    BY <2>1, <2>2
  <2> QED BY <1>4, <2>3
<1>8. \A i \in 0..n : g[i] \in Seq(S)
  <2> DEFINE K == {i \in 0..n : g[i] \in Seq(S)}
  <2>1. 0 \in K
    <3>1. <<>> \in Seq(S) /\ 0 \in 0..n
      BY <1>1
    <3> QED BY <1>7, <3>1
  <2>2. ASSUME NEW i \in 1..n, i - 1 \in K PROVE i \in K
    <3>1. s[i] \in S /\ g[i - 1] \in Seq(S) /\ i \in 0..n
      BY <1>1, <2>2 DEF n
    <3>2. PickStep(s, I, g[i - 1], i) \in Seq(S)
      BY <3>1 DEF PickStep
    <3> QED BY <1>7, <3>1, <3>2
  <2> HIDE DEF K
  <2>3. 0..n \subseteq K
    BY <1>1, <2>1, <2>2, BoundedInduction
  <2> QED BY <2>3 DEF K
<1> QED BY <1>1, <1>7, <1>8 DEF n

(* What is picked is what stands at the places picked, in order. *)
Embeds(e, r, s, I, m) ==
  /\ e \in [1..Len(r) -> 1..m]
  /\ \A k \in 1..Len(r) : e[k] \in I /\ r[k] = s[e[k]]
  /\ \A k, l \in 1..Len(r) : k < l => e[k] < e[l]
  /\ \A i \in 1..m : i \in I => \E k \in 1..Len(r) : e[k] = i

LEMMA EmbedsStep ==
  ASSUME NEW S, NEW s \in Seq(S), NEW I, NEW m \in 1..Len(s), NEW r \in Seq(S),
         NEW e, Embeds(e, r, s, I, m - 1)
  PROVE  \E f : Embeds(f, PickStep(s, I, r, m), s, I, m)
<1>0. s[m] \in S /\ m \in Nat /\ Len(r) \in Nat
  OBVIOUS
<1>1. CASE m \notin I
  <2>1. Embeds(e, r, s, I, m)
    BY <1>1 DEF Embeds
  <2> QED BY <1>1, <2>1 DEF PickStep
<1>2. CASE m \in I
  <2> DEFINE q == Append(r, s[m])
             n == Len(r)
             f == [k \in 1..(n + 1) |-> IF k = n + 1 THEN m ELSE e[k]]
  <2>1. Len(q) = n + 1 /\ q[n + 1] = s[m] /\ \A k \in 1..n : q[k] = r[k]
    BY <1>0
  <2>2. f[n + 1] = m /\ \A k \in 1..n : f[k] = e[k] /\ e[k] \in 1..(m - 1)
    BY <1>0 DEF Embeds
  <2>3. f \in [1..(n + 1) -> 1..m]
    <3>1. ASSUME NEW k \in 1..(n + 1) PROVE (IF k = n + 1 THEN m ELSE e[k]) \in 1..m
      <4>1. CASE k = n + 1
        BY <1>0, <4>1
      <4>2. CASE k \in 1..n
        <5>1. e[k] \in 1..(m - 1)
          BY <2>2, <4>2
        <5> QED BY <1>0, <4>2, <5>1
      <4> QED BY <1>0, <3>1, <4>1, <4>2
    <3> QED BY <3>1
  <2> HIDE DEF q, f
  <2>4. \A k \in 1..Len(q) : f[k] \in I /\ q[k] = s[f[k]]
    <3> SUFFICES ASSUME NEW k \in 1..(n + 1) PROVE f[k] \in I /\ q[k] = s[f[k]]
      BY <2>1
    <3>1. CASE k = n + 1
      BY <1>2, <2>1, <2>2, <3>1
    <3>2. CASE k \in 1..n
      BY <2>1, <2>2, <3>2 DEF Embeds
    <3> QED BY <1>0, <3>1, <3>2
  <2>5. \A k, l \in 1..Len(q) : k < l => f[k] < f[l]
    <3> SUFFICES ASSUME NEW k \in 1..(n + 1), NEW l \in 1..(n + 1), k < l PROVE f[k] < f[l]
      BY <2>1
    <3>1. k \in 1..n
      BY <1>0
    <3>2. CASE l = n + 1
      BY <1>0, <2>2, <3>1, <3>2
    <3>3. CASE l \in 1..n
      BY <2>2, <3>1, <3>3 DEF Embeds
    <3> QED BY <1>0, <3>2, <3>3
  <2>6. \A i \in 1..m : i \in I => \E k \in 1..Len(q) : f[k] = i
    <3> SUFFICES ASSUME NEW i \in 1..m, i \in I PROVE \E k \in 1..(n + 1) : f[k] = i
      BY <2>1
    <3>1. CASE i = m
      BY <1>0, <2>2, <3>1
    <3>2. CASE i \in 1..(m - 1)
      <4>1. PICK k \in 1..n : e[k] = i
        BY <3>2 DEF Embeds
      <4> QED BY <1>0, <2>2, <4>1
    <3> QED BY <1>0, <3>1, <3>2
  <2>7. Embeds(f, q, s, I, m)
    BY <2>1, <2>3, <2>4, <2>5, <2>6 DEF Embeds
  <2>8. PickStep(s, I, r, m) = q
    BY <1>2 DEF PickStep, q
  <2> QED BY <2>7, <2>8
<1> QED BY <1>1, <1>2

LEMMA PickedEmbeds ==
  ASSUME NEW S, NEW s \in Seq(S), NEW I
  PROVE  Picked(s, I) \in Seq(S) /\ \E e : Embeds(e, Picked(s, I), s, I, Len(s))
<1>1. PICK g : /\ g[0] = <<>>
               /\ \A i \in 1..Len(s) : g[i] = PickStep(s, I, g[i - 1], i)
               /\ \A i \in 0..Len(s) : g[i] \in Seq(S)
               /\ Picked(s, I) = g[Len(s)]
  BY PickedIsIteration
<1> DEFINE K == {m \in 0..Len(s) : \E e : Embeds(e, g[m], s, I, m)}
<1>2. 0 \in K
  <2> DEFINE e == [k \in 1..0 |-> 1]
  <2>1. Embeds(e, <<>>, s, I, 0)
    BY DEF Embeds
  <2> QED BY <1>1, <2>1
<1>3. ASSUME NEW m \in 1..Len(s), m - 1 \in K PROVE m \in K
  <2>1. PICK e : Embeds(e, g[m - 1], s, I, m - 1)
    BY <1>3
  <2>2. g[m - 1] \in Seq(S)
    BY <1>1
  <2>3. \E f : Embeds(f, PickStep(s, I, g[m - 1], m), s, I, m)
    BY <2>1, <2>2, EmbedsStep
  <2> QED BY <1>1, <2>3
<1> HIDE DEF K
<1>4. Len(s) \in Nat
  OBVIOUS
<1>5. 0..Len(s) \subseteq K
  BY <1>2, <1>3, <1>4, BoundedInduction
<1>6. Len(s) \in K
  BY <1>4, <1>5
<1> QED BY <1>1, <1>4, <1>6 DEF K

-----------------------------------------------------------------------------
(* Types *)

Forms == {"plain", "piped", "odd", "clean", "call", "trimmed", "nine"}
Id    == [n : Nat, form : Forms]
Stops == {"stop", "length", "filtered", "error", "toolUse"}

UserMsg   == [role : {"user"}, says : {"text", "image"}]
SummaryMsg == [role : {"summary"}, says : {"text"}]
AnswerMsg == [role : {"assistant"}, calls : Seq(Id), says : {"text", "nothing", "thought"},
              by : Models, stop : Stops]
ToolMsg   == [role : {"tool"}, call : Id, synthetic : BOOLEAN]
Msg       == UserMsg \cup SummaryMsg \cup AnswerMsg \cup ToolMsg

LEMMA MsgKinds ==
  ASSUME NEW m \in Msg
  PROVE  /\ IsAssistant(m) <=> m \in AnswerMsg
         /\ IsTool(m) <=> m \in ToolMsg
         /\ ~(IsAssistant(m) /\ IsTool(m))
         /\ ~IsAssistant(m) /\ ~IsTool(m) => m \in UserMsg \cup SummaryMsg
BY DEF Msg, UserMsg, SummaryMsg, AnswerMsg, ToolMsg, IsAssistant, IsTool

LEMMA ConcatFacts ==
  ASSUME NEW S, NEW a \in Seq(S), NEW b \in Seq(S)
  PROVE  /\ a \o b \in Seq(S) /\ Len(a \o b) = Len(a) + Len(b)
         /\ \A i \in 1..Len(a) : (a \o b)[i] = a[i]
         /\ \A i \in 1..Len(b) : (a \o b)[Len(a) + i] = b[i]
OBVIOUS

LEMMA LeastOne ==
  ASSUME NEW N \in SUBSET Nat, N # {} PROVE Min(N) \in N /\ \A y \in N : Min(N) <= y
<1> DEFINE S == {n \in Nat : (\E p \in N : p <= n) => \E x \in N : \A y \in N : x <= y}
<1>1. 0 \in S
  OBVIOUS
<1>2. ASSUME NEW n \in Nat, n \in S PROVE n + 1 \in S
  <2> SUFFICES ASSUME NEW p \in N, p <= n + 1 PROVE \E x \in N : \A y \in N : x <= y
    OBVIOUS
  <2>1. CASE \E q \in N : q <= n
    BY <1>2, <2>1
  <2>2. CASE \A q \in N : q > n
    <3>1. \A q \in N : p <= q
      BY <2>2
    <3> QED BY <3>1
  <2>3. (\E q \in N : q <= n) \/ \A q \in N : q > n
    OBVIOUS
  <2> QED BY <2>1, <2>2, <2>3
<1> HIDE DEF S
<1>3. PICK p \in N : p \in S
  BY <1>1, <1>2, SetInduction
<1>4. \E x \in N : \A y \in N : x <= y
  BY <1>3 DEF S
<1> QED BY <1>4 DEF Min

(* The normalisers keep the number of an id, but for Mistral's. *)
LEMMA NormFacts ==
  ASSUME NEW t \in Models, NEW id \in Id
  PROVE  /\ Norm(t, id) \in Id
         /\ t # "mistral" => Norm(t, id).n = id.n
         /\ t = "mistral" => Norm(t, id) = Nine(id)
         /\ Norm(t, id).form \in {id.form, "clean", "call", "trimmed", "nine"}
         /\ t # "mistral" /\ Norm(t, id).form = id.form => Norm(t, id) = id
<1>0. id.n \in Nat /\ id.form \in Forms /\ id = [n |-> id.n, form |-> id.form]
  BY DEF Id
<1>1. \A f \in Forms : [id EXCEPT !.form = f] \in Id /\ [id EXCEPT !.form = f].n = id.n
                       /\ [id EXCEPT !.form = f].form = f
  BY DEF Id
<1>2. Sanitized(id) = id \/ (id.form \in {"piped", "odd"} /\ Sanitized(id) = [id EXCEPT !.form = "clean"])
  BY DEF Sanitized
<1>3. CallPart(id) = Sanitized(id) \/ (id.form = "piped" /\ CallPart(id) = [id EXCEPT !.form = "call"])
  BY DEF CallPart
<1>7. Trimmed(id) = id \/ Trimmed(id) = [id EXCEPT !.form = "trimmed"]
  BY DEF Trimmed
<1>4. Nine(id) \in Id /\ Nine(id).form = "nine"
  <2>1. id.n \in Alike => Min(Alike) \in Nat
    BY LeastOne, TransformConstants
  <2> QED BY <1>0, <2>1 DEF Nine, Id, Forms
<1>5. CASE t = "mistral"
  BY <1>4, <1>5 DEF Norm
<1>6. CASE t # "mistral"
  <2>1. \/ Norm(t, id) = id
        \/ Norm(t, id) = Sanitized(id)
        \/ Norm(t, id) = CallPart(id)
        \/ id.form = "piped" /\ Norm(t, id) = Trimmed(id)
    BY <1>6 DEF Norm, Models, NormalizedForChat, NormalizedForResponses, NormalizedForGoogle
  <2>2. \/ Norm(t, id) = id
        \/ (id.form # "clean" /\ Norm(t, id) = [id EXCEPT !.form = "clean"])
        \/ (id.form # "call" /\ Norm(t, id) = [id EXCEPT !.form = "call"])
        \/ (id.form # "trimmed" /\ Norm(t, id) = [id EXCEPT !.form = "trimmed"])
    BY <2>1, <1>2, <1>3, <1>7
  <2> QED BY <1>0, <1>1, <1>6, <2>2 DEF Forms
<1> QED BY <1>5, <1>6

LEMMA KeptType ==
  ASSUME NEW h \in Seq(Msg)
  PROVE  Kept(h) \in Seq(Msg)
BY PickedEmbeds DEF Kept

LEMMA ForeignType ==
  ASSUME NEW t \in Models, NEW m \in AnswerMsg
  PROVE  /\ Foreign(m, t) \in AnswerMsg
         /\ Foreign(m, t).calls = [c \in DOMAIN m.calls |-> Norm(t, m.calls[c])]
         /\ Foreign(m, t).says = IF m.says = "thought" THEN "text" ELSE m.says
<1> DEFINE cs == [c \in DOMAIN m.calls |-> Norm(t, m.calls[c])]
           w  == IF m.says = "thought" THEN "text" ELSE m.says
<1>1. m.calls \in Seq(Id) /\ \A c \in DOMAIN m.calls : m.calls[c] \in Id
  BY DEF AnswerMsg
<1>2. cs \in Seq(Id)
  BY <1>1, NormFacts
<1>3. w \in {"text", "nothing", "thought"}
  BY DEF AnswerMsg
<1>4. Foreign(m, t) = [m EXCEPT !.calls = cs, !.says = w]
  BY DEF Foreign, AnswerMsg
<1> HIDE DEF cs, w
<1>5. Foreign(m, t) \in AnswerMsg /\ Foreign(m, t).calls = cs /\ Foreign(m, t).says = w
  BY <1>2, <1>3, <1>4 DEF AnswerMsg
<1> QED BY <1>5 DEF cs, w

LEMMA FirstPassType ==
  ASSUME NEW t \in Models, NEW h \in Seq(Msg)
  PROVE  /\ FirstPass(h, t) \in Seq(Msg) /\ Len(FirstPass(h, t)) = Len(Kept(h))
         /\ \A i \in 1..Len(Kept(h)) :
              LET m == Kept(h)[i] IN
              /\ IsAssistant(FirstPass(h, t)[i]) <=> IsAssistant(m)
              /\ IsTool(FirstPass(h, t)[i]) <=> IsTool(m)
              /\ IsAssistant(m) => FirstPass(h, t)[i] = IF m.by # t THEN Foreign(m, t) ELSE m
              /\ IsTool(m) => FirstPass(h, t)[i].call =
                                IF m.call \in RenamedBefore(Kept(h), i, t) THEN Norm(t, m.call) ELSE m.call
              /\ ~IsAssistant(m) /\ ~IsTool(m) => FirstPass(h, t)[i] = m
<1> DEFINE k == Kept(h)
           p == FirstPass(h, t)
<1>0. k \in Seq(Msg)
  BY KeptType
<1>1. /\ DOMAIN p = 1..Len(k)
      /\ p = [i \in 1..Len(k) |-> p[i]]
      /\ \A i \in 1..Len(k) :
           p[i] = CASE IsAssistant(k[i]) /\ k[i].by # t -> Foreign(k[i], t)
                    [] IsTool(k[i]) /\ k[i].call \in RenamedBefore(k, i, t) ->
                         [k[i] EXCEPT !.call = Norm(t, @)]
                    [] OTHER -> k[i]
  BY <1>0 DEF FirstPass
<1> HIDE DEF k, p
<1>2. ASSUME NEW i \in 1..Len(k)
      PROVE  /\ p[i] \in Msg
             /\ IsAssistant(p[i]) <=> IsAssistant(k[i])
             /\ IsTool(p[i]) <=> IsTool(k[i])
             /\ IsAssistant(k[i]) => p[i] = IF k[i].by # t THEN Foreign(k[i], t) ELSE k[i]
             /\ IsTool(k[i]) => p[i].call =
                   IF k[i].call \in RenamedBefore(k, i, t) THEN Norm(t, k[i].call) ELSE k[i].call
             /\ ~IsAssistant(k[i]) /\ ~IsTool(k[i]) => p[i] = k[i]
  <2>0. k[i] \in Msg
    BY <1>0
  <2>1. CASE IsAssistant(k[i]) /\ k[i].by # t
    <3>0. ~IsTool(k[i])
      BY <2>0, <2>1, MsgKinds
    <3>1. p[i] = Foreign(k[i], t)
      BY <1>1, <2>1, <3>0
    <3>2. p[i] \in AnswerMsg
      BY <2>0, <2>1, <3>1, MsgKinds, ForeignType
    <3>3. p[i] \in Msg
      BY <3>2 DEF Msg
    <3> QED BY <2>0, <2>1, <3>1, <3>2, <3>3, MsgKinds
  <2>2. CASE IsTool(k[i]) /\ k[i].call \in RenamedBefore(k, i, t)
    <3>0. ~IsAssistant(k[i])
      BY <2>0, <2>2, MsgKinds
    <3>1. p[i] = [k[i] EXCEPT !.call = Norm(t, k[i].call)]
      BY <1>1, <2>2, <3>0
    <3>2. k[i] \in ToolMsg /\ k[i].call \in Id
      BY <2>0, <2>2, MsgKinds DEF ToolMsg
    <3>3. Norm(t, k[i].call) \in Id
      BY <3>2, NormFacts
    <3>4. p[i] \in ToolMsg /\ p[i].call = Norm(t, k[i].call)
      BY <3>1, <3>2, <3>3 DEF ToolMsg
    <3>5. p[i] \in Msg
      BY <3>4 DEF Msg
    <3> QED BY <2>2, <3>0, <3>4, <3>5, MsgKinds
  <2>3. CASE ~(IsAssistant(k[i]) /\ k[i].by # t) /\ ~(IsTool(k[i]) /\ k[i].call \in RenamedBefore(k, i, t))
    <3>1. p[i] = k[i]
      BY <1>1, <2>3
    <3> QED BY <2>0, <2>3, <3>1
  <2> QED BY <2>1, <2>2, <2>3
<1>3. p \in Seq(Msg) /\ Len(p) = Len(k)
  BY <1>0, <1>1, <1>2
<1> QED BY <1>2, <1>3 DEF k, p

-----------------------------------------------------------------------------
(* The second pass as an iteration *)

Accs == [out : Seq(Msg), pending : Seq(Id), found : SUBSET Id]

(* The calls without a result get one each. *)
LEMMA MissingType ==
  ASSUME NEW acc \in Accs
  PROVE  /\ Missing(acc) \in Seq(Msg)
         /\ \A i \in 1..Len(Missing(acc)) :
              /\ Missing(acc)[i] \in ToolMsg /\ Missing(acc)[i].synthetic
              /\ \E c \in 1..Len(acc.pending) : /\ Missing(acc)[i].call = acc.pending[c]
                                                /\ acc.pending[c] \notin acc.found
         /\ \A c \in 1..Len(acc.pending) : acc.pending[c] \notin acc.found =>
              \E i \in 1..Len(Missing(acc)) : Missing(acc)[i].call = acc.pending[c]
<1> DEFINE pend == acc.pending
           I    == {i \in DOMAIN pend : pend[i] \notin acc.found}
           open == Picked(pend, I)
           ms   == Missing(acc)
<1>1. pend \in Seq(Id)
  BY DEF Accs
<1> HIDE DEF pend
<1>2. open \in Seq(Id) /\ \E e : Embeds(e, open, pend, I, Len(pend))
  BY <1>1, PickedEmbeds
<1>3. ms = [i \in DOMAIN open |-> Synthetic(open[i])]
  BY DEF Missing, pend
<1> HIDE DEF open, ms
<1>4. PICK e : Embeds(e, open, pend, I, Len(pend))
  BY <1>2
<1>5. \A id \in Id : Synthetic(id) \in ToolMsg /\ Synthetic(id).synthetic /\ Synthetic(id).call = id
  BY DEF Synthetic, ToolMsg
<1>6. /\ DOMAIN ms = 1..Len(open) /\ \A i \in 1..Len(open) : ms[i] = Synthetic(open[i]) /\ open[i] \in Id
  BY <1>2, <1>3
<1>7. ms \in Seq(ToolMsg) /\ Len(ms) = Len(open)
  <2>1. \A i \in 1..Len(open) : ms[i] \in ToolMsg
    BY <1>5, <1>6
  <2>2. ms = [i \in 1..Len(open) |-> ms[i]]
    BY <1>2, <1>3
  <2> QED BY <1>2, <2>1, <2>2
<1>8. ms \in Seq(Msg)
  BY <1>7 DEF Msg
<1>9. ASSUME NEW i \in 1..Len(ms)
      PROVE  /\ ms[i] \in ToolMsg /\ ms[i].synthetic
             /\ \E c \in 1..Len(pend) : ms[i].call = pend[c] /\ pend[c] \notin acc.found
  <2>1. ms[i] \in ToolMsg /\ ms[i].synthetic /\ ms[i].call = open[i] /\ i \in 1..Len(open)
    BY <1>5, <1>6, <1>7
  <2>2. e[i] \in 1..Len(pend) /\ e[i] \in I /\ open[i] = pend[e[i]]
    BY <1>4, <2>1 DEF Embeds
  <2> QED BY <2>1, <2>2
<1>10. ASSUME NEW c \in 1..Len(pend), pend[c] \notin acc.found
       PROVE  \E i \in 1..Len(ms) : ms[i].call = pend[c]
  <2>1. c \in I
    BY <1>1, <1>10
  <2>2. PICK i \in 1..Len(open) : e[i] = c
    BY <1>4, <2>1 DEF Embeds
  <2>3. open[i] = pend[c]
    BY <1>4, <2>2 DEF Embeds
  <2> QED BY <1>5, <1>6, <1>7, <2>3
<1> QED BY <1>8, <1>9, <1>10 DEF pend, ms

LEMMA StepType ==
  ASSUME NEW acc \in Accs, NEW m \in Msg
  PROVE  /\ Step(acc, m) \in Accs
         /\ IsTool(m) => /\ Step(acc, m).out = Append(acc.out, m) /\ Step(acc, m).pending = acc.pending
                         /\ Step(acc, m).found = acc.found \cup {m.call}
         /\ ~IsTool(m) => /\ Step(acc, m).out = Append(acc.out \o Missing(acc), m)
                          /\ Step(acc, m).pending = IF IsAssistant(m) THEN m.calls ELSE <<>>
                          /\ Step(acc, m).found = {}
<1>1. acc.out \in Seq(Msg) /\ acc.pending \in Seq(Id) /\ acc.found \in SUBSET Id
  BY DEF Accs
<1>2. Missing(acc) \in Seq(Msg)
  BY MissingType
<1> DEFINE long == Append(acc.out \o Missing(acc), m)
           next == Append(acc.out, m)
<1>3. long \in Seq(Msg) /\ next \in Seq(Msg)
  BY <1>1, <1>2
<1>4. CASE IsAssistant(m)
  <2>1. m.calls \in Seq(Id) /\ ~IsTool(m)
    BY <1>4, MsgKinds DEF AnswerMsg
  <2>2. Step(acc, m) = [out |-> long, pending |-> m.calls, found |-> {}]
    BY <1>4, <2>1 DEF Step
  <2> HIDE DEF long
  <2>3. /\ Step(acc, m) \in Accs /\ Step(acc, m).out = long /\ Step(acc, m).pending = m.calls
        /\ Step(acc, m).found = {}
    BY <1>3, <2>1, <2>2 DEF Accs
  <2> QED BY <1>4, <2>1, <2>3 DEF long
<1>5. CASE IsTool(m)
  <2>1. m.call \in Id /\ ~IsAssistant(m)
    BY <1>5, MsgKinds DEF ToolMsg
  <2>2. Step(acc, m) = [acc EXCEPT !.out = next, !.found = acc.found \cup {m.call}]
    BY <1>5, <2>1 DEF Step
  <2> DEFINE found == acc.found \cup {m.call}
  <2>3. found \in SUBSET Id
    BY <1>1, <2>1
  <2> HIDE DEF next, found
  <2>4. Step(acc, m) = [acc EXCEPT !.out = next, !.found = found]
    BY <2>2 DEF found
  <2>5. /\ Step(acc, m) \in Accs /\ Step(acc, m).out = next /\ Step(acc, m).pending = acc.pending
        /\ Step(acc, m).found = found
    BY <1>3, <2>3, <2>4 DEF Accs
  <2> QED BY <1>5, <2>5 DEF next, found
<1>6. CASE ~IsAssistant(m) /\ ~IsTool(m)
  <2>2. Step(acc, m) = [out |-> long, pending |-> <<>>, found |-> {}]
    BY <1>6 DEF Step
  <2> HIDE DEF long
  <2>4. <<>> \in Seq(Id) /\ {} \in SUBSET Id
    OBVIOUS
  <2>3. /\ Step(acc, m) \in Accs /\ Step(acc, m).out = long /\ Step(acc, m).pending = <<>>
        /\ Step(acc, m).found = {}
    BY <1>3, <2>2, <2>4 DEF Accs
  <2> QED BY <1>6, <2>3 DEF long
<1> QED BY <1>4, <1>5, <1>6

LEMMA SecondPassIsIteration ==
  ASSUME NEW k \in Seq(Msg)
  PROVE  \E g : /\ g[0] = Begun
                /\ \A i \in 1..Len(k) : g[i] = Step(g[i - 1], k[i])
                /\ \A i \in 0..Len(k) : g[i] \in Accs
                /\ SecondPass(k) = g[Len(k)].out
<1> DEFINE n == Len(k)
           F(h) == [i \in 0..n |-> IF i = 0 THEN Begun ELSE Step(h[i - 1], k[i])]
           g == CHOOSE h : h = F(h)
           step == [p \in (1..n) \X Accs |-> Step(p[2], k[p[1]])]
<1>1. n \in Nat /\ SecondPass(k) = g[n].out
  BY DEF SecondPass
<1>2. step \in [(1..n) \X Accs -> Accs]
  <2>1. \A i \in 1..n, r \in Accs : Step(r, k[i]) \in Accs
    BY StepType
  <2> QED BY <2>1
<1>3. \A i \in 1..n, r \in Accs : step[<<i, r>>] = Step(r, k[i])
  OBVIOUS
<1>4. Begun \in Accs
  BY DEF Begun, Accs
<1> HIDE DEF n, step
<1>5. \E h : h = F(h)
  <2>2. PICK h \in [0..n -> Accs] : Iterates(h, n, Begun, step)
    BY <1>1, <1>2, <1>4, IterationExists
  <2>3. ASSUME NEW i \in 1..n PROVE h[i] = Step(h[i - 1], k[i])
    <3>1. i - 1 \in 0..n
      BY <1>1
    <3>2. h[i - 1] \in Accs
      BY <2>2, <3>1
    <3>3. h[i] = step[<<i, h[i - 1]>>]
      BY <2>2 DEF Iterates
    <3> QED BY <1>3, <3>2, <3>3
  <2>4. h = [i \in 0..n |-> h[i]] /\ h[0] = Begun
    BY <2>2 DEF Iterates
  <2>5. \A i \in 0..n : h[i] = IF i = 0 THEN Begun ELSE Step(h[i - 1], k[i])
    <3>1. \A i \in 0..n : i # 0 => i \in 1..n
      BY <1>1
    <3> QED BY <2>3, <2>4, <3>1
  <2> QED BY <2>4, <2>5
<1>6. g = F(g)
  BY <1>5
<1> HIDE DEF g
<1>7. g[0] = Begun /\ \A i \in 1..n : g[i] = Step(g[i - 1], k[i])
  <2>1. 0 \in 0..n /\ \A i \in 1..n : i \in 0..n /\ i # 0
    BY <1>1
  <2>2. \A i \in 0..n : g[i] = F(g)[i]
    BY <1>6
  <2> QED BY <2>1, <2>2
<1>8. \A i \in 0..n : g[i] \in Accs
  <2> DEFINE K == {i \in 0..n : g[i] \in Accs}
  <2>1. 0 \in K
    BY <1>1, <1>4, <1>7
  <2>2. ASSUME NEW i \in 1..n, i - 1 \in K PROVE i \in K
    <3>1. k[i] \in Msg /\ g[i - 1] \in Accs /\ i \in 0..n
      BY <1>1, <2>2 DEF n
    <3>2. Step(g[i - 1], k[i]) \in Accs
      BY <3>1, StepType
    <3> QED BY <1>7, <3>1, <3>2
  <2> HIDE DEF K
  <2>3. 0..n \subseteq K
    BY <1>1, <2>1, <2>2, BoundedInduction
  <2> QED BY <2>3 DEF K
<1> QED BY <1>1, <1>7, <1>8 DEF n

LEMMA TransformedType ==
  ASSUME NEW t \in Models, NEW h \in Seq(Msg)
  PROVE  Transformed(h, t) \in Seq(Msg)
<1>1. FirstPass(h, t) \in Seq(Msg)
  BY FirstPassType
<1>2. PICK g : /\ \A i \in 0..Len(FirstPass(h, t)) : g[i] \in Accs
               /\ SecondPass(FirstPass(h, t)) = g[Len(FirstPass(h, t))].out
  BY <1>1, SecondPassIsIteration
<1>3. Len(FirstPass(h, t)) \in 0..Len(FirstPass(h, t))
  BY <1>1
<1> QED BY <1>2, <1>3 DEF Transformed, Accs

-----------------------------------------------------------------------------
(* Histories *)

(* Answer i asked for the result at j, and only results are between. *)
Owner(h, i, j) ==
  /\ IsAssistant(h[i])
  /\ \A l \in (i + 1)..j : IsTool(h[l])
  /\ j - i \in 1..Len(h[i].calls)
  /\ h[j].call = h[i].calls[j - i]

(* No answer asked for the result at j: a compaction has cut it off. *)
Orphan(h, j) ==
  \A i \in 1..Len(h) : IsAssistant(h[i]) =>
    \A c \in 1..Len(h[i].calls) : h[i].calls[c].n # h[j].call.n

CallsApart(h) ==
  \A i, j \in 1..Len(h) : IsAssistant(h[i]) /\ IsAssistant(h[j]) =>
    \A c \in 1..Len(h[i].calls), d \in 1..Len(h[j].calls) :
      h[i].calls[c].n = h[j].calls[d].n => i = j /\ c = d

ResultsApart(h) ==
  \A i, j \in 1..Len(h) : IsTool(h[i]) /\ IsTool(h[j]) /\ h[i].call.n = h[j].call.n => i = j

Stored == {"plain", "piped", "odd"}

(* Ids are as the APIs have made them, with numbers up to n. *)
IdsStored(h, n) ==
  \A i \in 1..Len(h) :
    /\ IsAssistant(h[i]) => \A c \in 1..Len(h[i].calls) :
                              h[i].calls[c].n <= n /\ h[i].calls[c].form \in Stored
    /\ IsTool(h[i]) => h[i].call.n <= n /\ h[i].call.form \in Stored

ResultsOwned(h) ==
  \A j \in 1..Len(h) : IsTool(h[j]) => Orphan(h, j) \/ \E i \in 1..(j - 1) : Owner(h, i, j)

HistoryInv ==
  /\ history \in Seq(Msg)
  /\ IdsStored(history, MaxIds)
  /\ CallsApart(history)
  /\ ResultsApart(history)
  /\ ResultsOwned(history)

LEMMA GreatestOne ==
  ASSUME NEW N \in SUBSET Nat, N # {}, NEW b \in Nat, \A p \in N : p <= b
  PROVE  Max(N) \in N /\ \A y \in N : Max(N) >= y
<1> DEFINE Q == {b - p : p \in N}
<1>1. Q \in SUBSET Nat /\ Q # {}
  <2>1. \A p \in N : p \in Nat /\ p <= b
    OBVIOUS
  <2>2. \A p \in N : b - p \in Nat
    BY <2>1
  <2> QED BY <2>2
<1>2. Min(Q) \in Q /\ \A y \in Q : Min(Q) <= y
  BY <1>1, LeastOne
<1>3. PICK p \in N : Min(Q) = b - p
  BY <1>2
<1>4. \A y \in N : b - p <= b - y
  BY <1>2, <1>3
<1>5. \A y \in N : p >= y
  BY <1>4
<1> QED BY <1>5 DEF Max

LEMMA LastIdFacts ==
  ASSUME HistoryInv
  PROVE  LastId \in 0..MaxIds /\ IdsStored(history, LastId)
<1> DEFINE N == {0} \cup {id.n : id \in UNION {CallsOf(m) : m \in Range(history)}}
<1>1. history \in Seq(Msg) /\ MaxIds \in Nat
  BY TransformConstants DEF HistoryInv
<1>2. ASSUME NEW id \in UNION {CallsOf(m) : m \in Range(history)} PROVE id.n \in Nat /\ id.n <= MaxIds
  <2>1. PICK i \in 1..Len(history) : id \in CallsOf(history[i])
    BY <1>1 DEF Range
  <2>2. CASE IsAssistant(history[i])
    <3>1. history[i].calls \in Seq(Id)
      BY <1>1, <2>2, MsgKinds DEF AnswerMsg
    <3>2. PICK c \in 1..Len(history[i].calls) : id = history[i].calls[c]
      BY <2>1, <2>2, <3>1 DEF CallsOf, Range
    <3>3. id \in Id /\ id.n <= MaxIds
      BY <2>2, <3>1, <3>2 DEF HistoryInv, IdsStored
    <3> QED BY <3>3 DEF Id
  <2>3. CASE IsTool(history[i])
    <3>1. ~IsAssistant(history[i]) /\ history[i].call \in Id
      BY <1>1, <2>3, MsgKinds DEF ToolMsg
    <3>2. id = history[i].call
      BY <2>1, <2>3, <3>1 DEF CallsOf
    <3> QED BY <2>3, <3>1, <3>2 DEF HistoryInv, IdsStored, Id
  <2> QED BY <2>1, <2>2, <2>3 DEF CallsOf
<1>3. N \in SUBSET Nat /\ N # {} /\ \A p \in N : p <= MaxIds
  BY <1>1, <1>2
<1>4. LastId = Max(N)
  BY DEF LastId
<1> HIDE DEF N
<1>5. LastId \in N /\ \A y \in N : LastId >= y
  BY <1>1, <1>3, <1>4, GreatestOne
<1> USE DEF N
<1>6. ASSUME NEW i \in 1..Len(history), NEW id \in CallsOf(history[i]) PROVE id.n <= LastId
  <2>1. id.n \in N
    BY <1>1 DEF Range
  <2> HIDE DEF N
  <2>2. LastId \in Nat /\ id.n \in Nat
    BY <1>3, <1>5, <2>1
  <2> QED BY <1>5, <2>1, <2>2
<1> HIDE DEF N
<1>7. ASSUME NEW i \in 1..Len(history)
      PROVE  /\ IsAssistant(history[i]) => \A c \in 1..Len(history[i].calls) : history[i].calls[c].n <= LastId
             /\ IsTool(history[i]) => history[i].call.n <= LastId
  <2>1. ASSUME IsAssistant(history[i]), NEW c \in 1..Len(history[i].calls)
        PROVE  history[i].calls[c].n <= LastId
    <3>1. history[i].calls \in Seq(Id)
      BY <1>1, <2>1, MsgKinds DEF AnswerMsg
    <3>2. history[i].calls[c] \in CallsOf(history[i])
      BY <2>1, <3>1 DEF CallsOf, Range
    <3> QED BY <1>6, <3>2
  <2>2. ASSUME IsTool(history[i]) PROVE history[i].call.n <= LastId
    <3>1. ~IsAssistant(history[i])
      BY <1>1, <2>2, MsgKinds
    <3>2. history[i].call \in CallsOf(history[i])
      BY <2>2, <3>1 DEF CallsOf
    <3> QED BY <1>6, <3>2
  <2> QED BY <2>1, <2>2
<1>8. IdsStored(history, LastId)
  BY <1>7 DEF HistoryInv, IdsStored
<1>9. LastId \in 0..MaxIds
  BY <1>1, <1>3, <1>5
<1> QED BY <1>8, <1>9

LEMMA SameCall ==
  ASSUME NEW h, CallsApart(h), NEW i \in 1..Len(h), NEW j \in 1..Len(h), IsAssistant(h[i]), IsAssistant(h[j]),
         NEW c \in 1..Len(h[i].calls), NEW d \in 1..Len(h[j].calls), h[i].calls[c].n = h[j].calls[d].n
  PROVE  i = j /\ c = d
BY DEF CallsApart

CallAt(h, i, c) == i \in 1..Len(h) /\ IsAssistant(h[i]) /\ c \in 1..Len(h[i].calls)

LEMMA SameCallAt ==
  ASSUME NEW h, NEW i, NEW c, NEW j, NEW d, CallsApart(h), CallAt(h, i, c), CallAt(h, j, d),
         h[i].calls[c].n = h[j].calls[d].n
  PROVE  i = j /\ c = d
<1>1. i \in 1..Len(h) /\ IsAssistant(h[i]) /\ c \in 1..Len(h[i].calls)
  BY DEF CallAt
<1>2. j \in 1..Len(h) /\ IsAssistant(h[j]) /\ d \in 1..Len(h[j].calls)
  BY DEF CallAt
<1> QED BY <1>1, <1>2 DEF CallsApart

(* What a message is to the invariant when it is added. *)
LEMMA AddKeeps ==
  ASSUME HistoryInv, NEW m \in Msg, Add(m),
         IsAssistant(m) => \A c \in 1..Len(m.calls) :
            /\ m.calls[c].n > LastId /\ m.calls[c].n <= MaxIds /\ m.calls[c].form \in Stored
            /\ \A d \in 1..Len(m.calls) : m.calls[c].n = m.calls[d].n => c = d,
         IsTool(m) => \E i \in 1..Len(history) :
            /\ IsAssistant(history[i])
            /\ \A l \in (i + 1)..Len(history) : IsTool(history[l])
            /\ Len(history) + 1 - i \in 1..Len(history[i].calls)
            /\ m.call = history[i].calls[Len(history) + 1 - i]
  PROVE  HistoryInv'
<1> DEFINE h == history
           n == Len(history)
           q == Append(history, m)
<1>1. h \in Seq(Msg) /\ n \in Nat /\ MaxIds \in Nat
  BY TransformConstants DEF HistoryInv
<1>2. history' = q
  BY DEF Add
<1>3. q \in Seq(Msg) /\ Len(q) = n + 1 /\ q[n + 1] = m /\ \A i \in 1..n : q[i] = h[i]
  BY <1>1
<1>4. \A i \in 1..(n + 1) : i = n + 1 \/ i \in 1..n
  BY <1>1
<1>5. LastId \in 0..MaxIds /\ IdsStored(h, LastId)
  BY LastIdFacts
<1>6. /\ IdsStored(h, MaxIds) /\ CallsApart(h) /\ ResultsApart(h) /\ ResultsOwned(h)
  BY DEF HistoryInv
<1>7. ~(IsAssistant(m) /\ IsTool(m))
  BY MsgKinds
<1>8. ASSUME NEW i \in 1..n, IsAssistant(h[i]), NEW c \in 1..Len(h[i].calls)
      PROVE  h[i].calls[c] \in Id /\ h[i].calls[c].n \in Nat /\ h[i].calls[c].n <= LastId
  <2>1. h[i].calls \in Seq(Id)
    BY <1>1, <1>8, MsgKinds DEF AnswerMsg
  <2>2. h[i].calls[c] \in Id /\ h[i].calls[c].n <= LastId
    BY <1>5, <1>8, <2>1 DEF IdsStored
  <2> QED BY <2>2 DEF Id
<1>9. ASSUME NEW i \in 1..n, IsTool(h[i])
      PROVE  h[i].call \in Id /\ h[i].call.n \in Nat /\ h[i].call.n <= LastId
  <2>1. h[i].call \in Id
    BY <1>1, <1>9, MsgKinds DEF ToolMsg
  <2> QED BY <1>5, <1>9, <2>1 DEF IdsStored, Id
<1>10. IsAssistant(m) => \A c \in 1..Len(m.calls) : m.calls[c] \in Id /\ m.calls[c].n \in Nat
  <2>1. IsAssistant(m) => m.calls \in Seq(Id)
    BY MsgKinds DEF AnswerMsg
  <2>2. IsAssistant(m) => \A c \in 1..Len(m.calls) : m.calls[c] \in Id
    BY <2>1
  <2> QED BY <2>2 DEF Id
<1>11. ASSUME IsTool(m)
       PROVE \E i \in 1..n : Owner(q, i, n + 1) /\ m.call = h[i].calls[n + 1 - i] /\ IsAssistant(h[i])
                             /\ n + 1 - i \in 1..Len(h[i].calls) /\ \A l \in (i + 1)..n : IsTool(h[l])
  <2>1. PICK i \in 1..n : /\ IsAssistant(h[i])
                          /\ \A l \in (i + 1)..n : IsTool(h[l])
                          /\ n + 1 - i \in 1..Len(h[i].calls)
                          /\ m.call = h[i].calls[n + 1 - i]
    BY <1>11
  <2>2. q[i] = h[i] /\ q[n + 1] = m
    BY <1>3
  <2> HIDE DEF q, h
  <2>3. \A l \in (i + 1)..(n + 1) : IsTool(q[l])
    <3> TAKE l \in (i + 1)..(n + 1)
    <3>1. l = n + 1 \/ (l \in (i + 1)..n /\ l \in 1..n)
      BY <1>1
    <3>2. CASE l = n + 1
      BY <1>11, <2>2, <3>2
    <3>3. CASE l \in (i + 1)..n /\ l \in 1..n
      <4>1. q[l] = h[l]
        BY <1>3, <3>3
      <4>2. IsTool(h[l])
        BY <2>1, <3>3
      <4> QED BY <4>1, <4>2
    <3> QED BY <3>1, <3>2, <3>3
  <2> QED BY <2>1, <2>2, <2>3 DEF Owner
<1> HIDE DEF q, h, n
<1>12. IdsStored(q, MaxIds)
  <2>1. IsTool(m) => m.call.n <= MaxIds /\ m.call.form \in Stored
    BY <1>6, <1>11 DEF IdsStored, n, h
  <2>2. IsAssistant(m) => \A c \in 1..Len(m.calls) : m.calls[c].n <= MaxIds /\ m.calls[c].form \in Stored
    OBVIOUS
  <2> QED BY <1>3, <1>4, <1>6, <2>1, <2>2 DEF IdsStored, n, h
<1>13. CallsApart(q)
  <2> SUFFICES ASSUME NEW i \in 1..(n + 1), NEW j \in 1..(n + 1), IsAssistant(q[i]), IsAssistant(q[j]),
                      NEW c \in 1..Len(q[i].calls), NEW d \in 1..Len(q[j].calls),
                      q[i].calls[c].n = q[j].calls[d].n
               PROVE  i = j /\ c = d
    BY <1>3 DEF CallsApart
  <2>1. CASE i \in 1..n /\ j \in 1..n
    <3>1. q[i] = h[i] /\ q[j] = h[j] /\ i \in 1..Len(h) /\ j \in 1..Len(h)
      BY <1>3, <2>1 DEF n, h
    <3> QED BY <1>6, <3>1, SameCall
  <2>2. CASE i = n + 1 /\ j \in 1..n
    <3>1. q[i].calls[c].n > LastId /\ q[i].calls[c].n \in Nat
      BY <1>3, <1>10, <2>2
    <3>2. q[j].calls[d].n <= LastId
      BY <1>3, <1>8, <2>2
    <3> QED BY <1>5, <3>1, <3>2
  <2>3. CASE i \in 1..n /\ j = n + 1
    <3>1. q[j].calls[d].n > LastId /\ q[j].calls[d].n \in Nat
      BY <1>3, <1>10, <2>3
    <3>2. q[i].calls[c].n <= LastId
      BY <1>3, <1>8, <2>3
    <3> QED BY <1>5, <3>1, <3>2
  <2>4. CASE i = n + 1 /\ j = n + 1
    BY <1>3, <2>4
  <2> QED BY <1>4, <2>1, <2>2, <2>3, <2>4
<1>14. ASSUME NEW j \in 1..n, IsTool(h[j]), IsTool(m) PROVE h[j].call.n # m.call.n
  <2>1. PICK i \in 1..n : m.call = h[i].calls[n + 1 - i] /\ IsAssistant(h[i])
                          /\ n + 1 - i \in 1..Len(h[i].calls) /\ \A l \in (i + 1)..n : IsTool(h[l])
    BY <1>11, <1>14
  <2>2. CASE Orphan(h, j)
    BY <2>1, <2>2 DEF Orphan, n, h
  <2>3. CASE \E y \in 1..(j - 1) : Owner(h, y, j)
    <3>1. PICK y \in 1..(j - 1) : Owner(h, y, j)
      BY <2>3
    <3>2. y \in 1..n /\ IsAssistant(h[y]) /\ j - y \in 1..Len(h[y].calls) /\ h[j].call = h[y].calls[j - y]
      BY <1>1, <3>1 DEF Owner
    <3>3. SUFFICES ASSUME h[j].call.n = m.call.n PROVE FALSE
      OBVIOUS
    <3>4. \A c \in 1..Len(h[i].calls), d \in 1..Len(h[y].calls) :
             h[i].calls[c].n = h[y].calls[d].n => i = y /\ c = d
      BY <1>6, <2>1, <3>2 DEF CallsApart, n, h
    <3>5. h[i].calls[n + 1 - i].n = h[y].calls[j - y].n
      BY <2>1, <3>2, <3>3
    <3>6. i = y /\ n + 1 - i = j - y
      BY <2>1, <3>2, <3>4, <3>5
    <3> QED BY <1>1, <3>6
  <2> QED BY <1>6, <1>14, <2>2, <2>3 DEF ResultsOwned, n, h
<1>15. ResultsApart(q)
  <2> SUFFICES ASSUME NEW i \in 1..(n + 1), NEW j \in 1..(n + 1), IsTool(q[i]), IsTool(q[j]),
                      q[i].call.n = q[j].call.n
               PROVE  i = j
    BY <1>3 DEF ResultsApart
  <2>1. CASE i \in 1..n /\ j \in 1..n
    BY <1>3, <1>6, <2>1 DEF ResultsApart, n, h
  <2>2. CASE i = n + 1 /\ j \in 1..n
    BY <1>3, <1>14, <2>2
  <2>3. CASE i \in 1..n /\ j = n + 1
    BY <1>3, <1>14, <2>3
  <2> QED BY <1>4, <2>1, <2>2, <2>3
<1>16. ResultsOwned(q)
  <2> SUFFICES ASSUME NEW j \in 1..(n + 1), IsTool(q[j])
               PROVE  Orphan(q, j) \/ \E i \in 1..(j - 1) : Owner(q, i, j)
    BY <1>3 DEF ResultsOwned
  <2>1. CASE j = n + 1
    BY <1>1, <1>3, <1>11, <2>1
  <2>2. CASE j \in 1..n
    <3>0. q[j] = h[j] /\ IsTool(h[j])
      BY <1>3, <2>2
    <3>1. CASE Orphan(h, j)
      <4> SUFFICES ASSUME NEW i \in 1..(n + 1), IsAssistant(q[i]), NEW c \in 1..Len(q[i].calls)
                   PROVE  q[i].calls[c].n # q[j].call.n
        BY <1>3 DEF Orphan
      <4>1. CASE i \in 1..n
        BY <1>3, <3>0, <3>1, <4>1 DEF Orphan, n, h
      <4>2. CASE i = n + 1
        <5>1. q[i].calls[c].n > LastId /\ q[i].calls[c].n \in Nat
          BY <1>3, <1>10, <4>2
        <5>2. q[j].call.n <= LastId /\ q[j].call.n \in Nat
          BY <1>9, <2>2, <3>0
        <5> QED BY <1>5, <5>1, <5>2
      <4> QED BY <1>4, <4>1, <4>2
    <3>2. CASE \E i \in 1..(j - 1) : Owner(h, i, j)
      <4>1. PICK i \in 1..(j - 1) : Owner(h, i, j)
        BY <3>2
      <4>2. \A l \in i..j : l \in 1..n /\ q[l] = h[l]
        BY <1>1, <1>3, <2>2
      <4>3. i \in i..j /\ \A l \in (i + 1)..j : l \in i..j
        BY <1>1, <2>2
      <4>4. Owner(q, i, j)
        BY <3>0, <4>1, <4>2, <4>3 DEF Owner
      <4> QED BY <4>4
    <3> QED BY <1>6, <2>2, <3>0, <3>1, <3>2 DEF ResultsOwned, n, h
  <2> QED BY <1>4, <2>1, <2>2
<1> QED BY <1>2, <1>3, <1>12, <1>13, <1>15, <1>16 DEF HistoryInv, IdsStored, CallsApart, ResultsApart, ResultsOwned, Orphan, Owner

(* What a compaction leaves: a summary and the last messages. *)
LEMMA CompactShifts ==
  ASSUME HistoryInv, Compact
  PROVE  LET n == Len(history) IN
         /\ history' \in Seq(Msg) /\ Len(history') = KeepRecent + 1
         /\ history'[1] = Summary /\ n - KeepRecent \in 0..n
         /\ \A i \in 1..KeepRecent : /\ n - KeepRecent + i \in 1..n
                                     /\ history'[i + 1] = history[n - KeepRecent + i]
<1> DEFINE messages == IF history # <<>> /\ history[1].role = "summary" THEN Tail(history) ELSE history
           n == Len(history)
           k == Len(messages)
           end == SubSeq(messages, k - KeepRecent + 1, k)
           s == <<Summary>>
<1>1. history \in Seq(Msg) /\ n \in Nat /\ KeepRecent \in Nat /\ KeepRecent > 0
  BY TransformConstants DEF HistoryInv
<1>2. /\ messages \in Seq(Msg) /\ k \in Nat /\ k <= n
      /\ \A i \in 1..k : messages[i] = history[n - k + i] /\ n - k + i \in 1..n
  <2>1. CASE messages = Tail(history) /\ history # <<>>
    <3>1. Tail(history) \in Seq(Msg) /\ Len(Tail(history)) = n - 1 /\ n > 0
          /\ \A i \in 1..(n - 1) : Tail(history)[i] = history[i + 1]
      BY <1>1, <2>1
    <3> HIDE DEF messages
    <3>2. k = n - 1 /\ messages \in Seq(Msg) /\ \A i \in 1..(n - 1) : messages[i] = history[i + 1]
      BY <2>1, <3>1
    <3> HIDE DEF k, n
    <3>3. \A i \in 1..k : n - k + i = i + 1 /\ i + 1 \in 1..n
      BY <1>1, <3>1, <3>2
    <3> QED BY <1>1, <3>1, <3>2, <3>3
  <2>2. CASE messages = history
    <3> HIDE DEF messages
    <3> QED BY <1>1, <2>2
  <2> QED BY <2>1, <2>2
<1>3. k > KeepRecent /\ history' = s \o end
  BY DEF Compact
<1> HIDE DEF messages, k, n
<1>4. /\ end \in Seq(Msg) /\ Len(end) = KeepRecent
      /\ \A i \in 1..KeepRecent : end[i] = messages[k - KeepRecent + i] /\ k - KeepRecent + i \in 1..k
  <2>1. k - KeepRecent + 1 \in 1..(k + 1) /\ k \in 0..k
    BY <1>1, <1>2, <1>3
  <2>2. end \in Seq(Msg) /\ Len(end) = KeepRecent
    BY <1>1, <1>2, <1>3 DEF k
  <2>3. \A i \in 1..KeepRecent : end[i] = messages[k - KeepRecent + 1 + i - 1]
    BY <1>1, <1>2, <1>3 DEF k
  <2>4. \A i \in 1..KeepRecent : k - KeepRecent + 1 + i - 1 = k - KeepRecent + i /\ k - KeepRecent + i \in 1..k
    BY <1>1, <1>2, <1>3
  <2> QED BY <2>2, <2>3, <2>4
<1>5. s \in Seq(Msg) /\ Len(s) = 1 /\ s[1] = Summary
  BY DEF Summary, Msg, SummaryMsg
<1> HIDE DEF end, s
<1>6. /\ history' \in Seq(Msg) /\ Len(history') = KeepRecent + 1 /\ history'[1] = Summary
      /\ \A i \in 1..KeepRecent : history'[i + 1] = end[i]
  <2>1. /\ s \o end \in Seq(Msg) /\ Len(s \o end) = Len(s) + Len(end)
        /\ \A i \in 1..Len(s) : (s \o end)[i] = s[i]
        /\ \A i \in 1..Len(end) : (s \o end)[Len(s) + i] = end[i]
    BY <1>4, <1>5, ConcatFacts
  <2>2. \A i \in 1..KeepRecent : 1 + i = i + 1
    BY <1>1
  <2> QED BY <1>1, <1>3, <1>4, <1>5, <2>1, <2>2
<1>7. \A i \in 1..KeepRecent : /\ end[i] = history[n - k + (k - KeepRecent + i)]
                               /\ n - k + (k - KeepRecent + i) \in 1..n
  BY <1>2, <1>4
<1>8. \A i \in 1..KeepRecent : n - k + (k - KeepRecent + i) = n - KeepRecent + i
  BY <1>1, <1>2
<1>9. n - KeepRecent \in 0..n
  BY <1>1, <1>2, <1>3
<1> QED BY <1>6, <1>7, <1>8, <1>9 DEF n

LEMMA OwnedOrNot ==
  ASSUME NEW h, ResultsOwned(h), NEW j \in 1..Len(h), IsTool(h[j])
  PROVE  Orphan(h, j) \/ \E i \in 1..(j - 1) : Owner(h, i, j)
BY DEF ResultsOwned

LEMMA CompactKeeps ==
  ASSUME HistoryInv, Compact
  PROVE  HistoryInv'
<1> DEFINE h == history
           q == history'
           K == KeepRecent
           s == Len(history) - KeepRecent - 1
           n == Len(history)
<1>1. h \in Seq(Msg) /\ n \in Nat /\ K \in Nat /\ K > 0
  BY TransformConstants DEF HistoryInv
<1>2. /\ q \in Seq(Msg) /\ Len(q) = K + 1
      /\ q[1] = Summary /\ n - K \in 0..n
      /\ \A i \in 1..K : n - K + i \in 1..n /\ q[i + 1] = h[n - K + i]
  BY CompactShifts
<1>3. /\ IdsStored(h, MaxIds) /\ CallsApart(h) /\ ResultsApart(h) /\ ResultsOwned(h)
  BY DEF HistoryInv
<1>4. s = n - K - 1
  OBVIOUS
<1> HIDE DEF h, q, s, n
<1>5. \A i \in 2..(K + 1) : s + i \in 1..n /\ q[i] = h[s + i]
  <2> SUFFICES ASSUME NEW i \in 2..(K + 1) PROVE s + i \in 1..n /\ q[i] = h[s + i]
    OBVIOUS
  <2>1. i - 1 \in 1..K /\ n - K + (i - 1) = s + i /\ (i - 1) + 1 = i
    BY <1>1, <1>4
  <2> QED BY <1>2, <2>1
<1>6. ~IsAssistant(q[1]) /\ ~IsTool(q[1])
  BY <1>2 DEF Summary, IsAssistant, IsTool
<1>7. \A i \in 1..(K + 1) : IsAssistant(q[i]) \/ IsTool(q[i]) => i \in 2..(K + 1)
  <2>1. \A i \in 1..(K + 1) : i = 1 \/ i \in 2..(K + 1)
    BY <1>1
  <2> QED BY <1>6, <2>1
<1>8. IdsStored(q, MaxIds)
  <2> SUFFICES ASSUME NEW i \in 1..(K + 1)
               PROVE  /\ IsAssistant(q[i]) => \A c \in 1..Len(q[i].calls) :
                            q[i].calls[c].n <= MaxIds /\ q[i].calls[c].form \in Stored
                      /\ IsTool(q[i]) => q[i].call.n <= MaxIds /\ q[i].call.form \in Stored
    BY <1>2 DEF IdsStored
  <2>1. CASE i \in 2..(K + 1)
    <3>1. s + i \in 1..Len(h) /\ q[i] = h[s + i]
      BY <1>5, <2>1 DEF n, h
    <3> QED BY <1>3, <3>1 DEF IdsStored
  <2> QED BY <1>7, <2>1
<1>9. CallsApart(q)
  <2> SUFFICES ASSUME NEW i \in 1..(K + 1), NEW j \in 1..(K + 1), IsAssistant(q[i]), IsAssistant(q[j]),
                      NEW c \in 1..Len(q[i].calls), NEW d \in 1..Len(q[j].calls),
                      q[i].calls[c].n = q[j].calls[d].n
               PROVE  i = j /\ c = d
    BY <1>2 DEF CallsApart
  <2>1. i \in 2..(K + 1) /\ j \in 2..(K + 1)
    BY <1>7
  <2>2. s + i \in 1..Len(h) /\ s + j \in 1..Len(h) /\ q[i] = h[s + i] /\ q[j] = h[s + j]
    BY <1>5, <2>1 DEF n, h
  <2> DEFINE x == s + i
             y == s + j
  <2>3. /\ x \in 1..Len(h) /\ y \in 1..Len(h) /\ IsAssistant(h[x]) /\ IsAssistant(h[y])
        /\ c \in 1..Len(h[x].calls) /\ d \in 1..Len(h[y].calls) /\ h[x].calls[c].n = h[y].calls[d].n
    BY <2>2
  <2> HIDE DEF x, y
  <2>4. x = y /\ c = d
    BY <1>3, <2>3, SameCall
  <2> QED BY <1>1, <1>4, <2>4 DEF x, y
<1>10. ResultsApart(q)
  <2> SUFFICES ASSUME NEW i \in 1..(K + 1), NEW j \in 1..(K + 1), IsTool(q[i]), IsTool(q[j]),
                      q[i].call.n = q[j].call.n
               PROVE  i = j
    BY <1>2 DEF ResultsApart
  <2>1. i \in 2..(K + 1) /\ j \in 2..(K + 1)
    BY <1>7
  <2>2. s + i \in 1..Len(h) /\ s + j \in 1..Len(h) /\ q[i] = h[s + i] /\ q[j] = h[s + j]
    BY <1>5, <2>1 DEF n, h
  <2>3. s + i = s + j
    BY <1>3, <2>2 DEF ResultsApart
  <2> QED BY <1>1, <1>4, <2>3
<1>11. ResultsOwned(q)
  <2> SUFFICES ASSUME NEW j \in 1..(K + 1), IsTool(q[j])
               PROVE  Orphan(q, j) \/ \E i \in 1..(j - 1) : Owner(q, i, j)
    BY <1>2 DEF ResultsOwned
  <2>1. j \in 2..(K + 1)
    BY <1>7
  <2>2. PICK w \in 1..Len(h) : w = s + j /\ q[j] = h[w]
    BY <1>5, <2>1 DEF n, h
  <2>3. CASE Orphan(h, w)
    <3> SUFFICES ASSUME NEW i \in 1..(K + 1), IsAssistant(q[i]), NEW c \in 1..Len(q[i].calls)
                 PROVE  q[i].calls[c].n # q[j].call.n
      BY <1>2 DEF Orphan
    <3>1. i \in 2..(K + 1)
      BY <1>7
    <3>2. s + i \in 1..Len(h) /\ q[i] = h[s + i]
      BY <1>5, <3>1 DEF n, h
    <3> QED BY <2>2, <2>3, <3>2 DEF Orphan
  <2>4. CASE \E y \in 1..(w - 1) : Owner(h, y, w)
    <3>1. PICK y \in 1..(w - 1) : Owner(h, y, w)
      BY <2>4
    <3>2. y \in 1..Len(h) /\ IsAssistant(h[y]) /\ w - y \in 1..Len(h[y].calls) /\ h[w].call = h[y].calls[w - y]
          /\ \A l \in (y + 1)..w : IsTool(h[l])
      <4>1. IsAssistant(h[y]) /\ w - y \in 1..Len(h[y].calls) /\ h[w].call = h[y].calls[w - y]
            /\ \A l \in (y + 1)..w : IsTool(h[l])
        BY <3>1 DEF Owner
      <4>2. y \in 1..Len(h)
        BY <1>1, <1>4, <2>1, <2>2 DEF h, n
      <4> QED BY <4>1, <4>2
    <3>3. CASE y - s \in 2..(K + 1)
      <4> DEFINE x == y - s
      <4>1. q[x] = h[y] /\ x \in 1..(j - 1)
        <5>1. s + x = y
          BY <1>1, <1>4
        <5>2. q[x] = h[s + x]
          BY <1>5, <3>3
        <5>3. x \in 1..(j - 1)
          BY <1>1, <1>4, <2>1, <2>2, <3>3
        <5> QED BY <5>1, <5>2, <5>3
      <4>2. \A l \in (x + 1)..j : IsTool(q[l])
        <5> SUFFICES ASSUME NEW l \in (x + 1)..j PROVE IsTool(q[l])
          OBVIOUS
        <5>1. l \in 2..(K + 1) /\ s + l \in (y + 1)..w
          BY <1>1, <1>4, <2>1, <2>2, <3>3
        <5> QED BY <1>5, <3>2, <5>1
      <4>3. j - x = w - y
        BY <1>1, <1>4, <2>1, <2>2
      <4> HIDE DEF x
      <4>4. Owner(q, x, j)
        BY <2>2, <3>2, <4>1, <4>2, <4>3 DEF Owner
      <4> QED BY <4>1, <4>4
    <3>4. CASE y - s \notin 2..(K + 1)
      <4> SUFFICES ASSUME NEW i \in 1..(K + 1), IsAssistant(q[i]), NEW c \in 1..Len(q[i].calls),
                          q[i].calls[c].n = q[j].call.n
                   PROVE  FALSE
        BY <1>2 DEF Orphan
      <4>1. i \in 2..(K + 1)
        BY <1>7
      <4>2. s + i \in 1..Len(h) /\ q[i] = h[s + i]
        BY <1>5, <4>1 DEF n, h
      <4> DEFINE d == w - y
      <4>3. d \in 1..Len(h[y].calls) /\ h[s + i].calls[c].n = h[y].calls[d].n
        BY <2>2, <3>2, <4>2
      <4> DEFINE x == s + i
      <4>4. x \in 1..Len(h) /\ IsAssistant(h[x]) /\ c \in 1..Len(h[x].calls) /\ h[x].calls[c].n = h[y].calls[d].n
        BY <4>2, <4>3
      <4> HIDE DEF d, x
      <4>6. x = y
        BY <1>3, <3>2, <4>3, <4>4, SameCall
      <4>5. i = y - s
        BY <1>1, <1>4, <4>1, <4>6 DEF x
      <4> QED BY <3>4, <4>1, <4>5
    <3> QED BY <3>3, <3>4
  <2>5. Orphan(h, w) \/ \E y \in 1..(w - 1) : Owner(h, y, w)
    BY <1>3, <2>2, OwnedOrNot
  <2> QED BY <2>3, <2>4, <2>5
<1> QED BY <1>2, <1>8, <1>9, <1>10, <1>11 DEF HistoryInv, IdsStored, CallsApart, ResultsApart, ResultsOwned, Orphan, Owner, q

LEMMA AnswerIsMsg ==
  ASSUME NEW b \in Models, NEW n \in Nat, NEW f \in {"stop", "length", "filtered"},
         NEW s \in {"text", "nothing", "thought"}, NEW k \in Nat,
         NEW cs, DOMAIN cs = 1..n, cs = [i \in DOMAIN cs |-> cs[i]], \A i \in 1..n : cs[i] = OwnId(b, k + i),
         NEW m, m = Assistant(cs, s, b, StopReason(b, f, n))
  PROVE  /\ m \in Msg /\ IsAssistant(m) /\ ~IsTool(m) /\ m.calls = cs /\ Len(cs) = n
         /\ \A c \in 1..n : cs[c].n = k + c /\ cs[c].form \in Stored
<1> DEFINE e == StopReason(b, f, n)
<1>1. OwnForm(b) \in Stored /\ OwnForm(b) \in Forms
  BY DEF OwnForm, Stored, Forms
<1>2. \A i \in 1..n : OwnId(b, k + i) \in Id /\ OwnId(b, k + i).n = k + i /\ OwnId(b, k + i).form \in Stored
  BY <1>1 DEF OwnId, Id
<1>3. cs \in Seq(Id) /\ Len(cs) = n /\ \A c \in 1..n : cs[c].n = k + c /\ cs[c].form \in Stored
  <2>1. \A i \in 1..n : cs[i] = OwnId(b, k + i)
    OBVIOUS
  <2>2. \A i \in 1..n : cs[i] \in Id /\ cs[i].n = k + i /\ cs[i].form \in Stored
    BY <1>2, <2>1
  <2>3. cs = [i \in 1..n |-> cs[i]]
    BY <2>1
  <2>4. cs \in Seq(Id) /\ Len(cs) = n
    BY <2>2, <2>3
  <2> QED BY <2>2, <2>4
<1>4. e \in Stops
  BY DEF StopReason, ChatStop, BedrockStop, GoogleStop, ResponsesStop, Stops, Models
<1>5. m = Assistant(cs, s, b, e)
  OBVIOUS
<1> HIDE DEF e
<1>6. m \in AnswerMsg /\ m.calls = cs
  BY <1>3, <1>4, <1>5 DEF Assistant, AnswerMsg
<1>7. m \in Msg
  BY <1>6 DEF Msg
<1> QED BY <1>3, <1>6, <1>7, MsgKinds

LEMMA LastAnswerIs ==
  ASSUME HistoryInv, LastAnswer > 0
  PROVE  LastAnswer \in 1..Len(history) /\ IsAssistant(history[LastAnswer])
<1> DEFINE I == {i \in 1..Len(history) : IsAssistant(history[i])}
<1>1. Len(history) \in Nat
  BY DEF HistoryInv
<1>2. I \in SUBSET Nat /\ \A i \in I : i <= Len(history)
  BY <1>1
<1>3. LastAnswer = IF I # {} THEN Max(I) ELSE 0
  BY DEF LastAnswer, SelectLastInSubSeq
<1> HIDE DEF I
<1>4. I # {}
  BY <1>3
<1>5. LastAnswer \in I
  BY <1>1, <1>2, <1>3, <1>4, GreatestOne
<1> QED BY <1>5 DEF I

LEMMA HistoryStep == HistoryInv /\ [HistoryNext]_history => HistoryInv'
<1> SUFFICES ASSUME HistoryInv, [HistoryNext]_history PROVE HistoryInv'
  OBVIOUS
<1>1. history \in Seq(Msg) /\ Len(history) \in Nat /\ MaxIds \in Nat
  BY TransformConstants DEF HistoryInv
<1>2. CASE AddUser
  <2>1. PICK s \in {"text", "image"} : Add(User(s))
    BY <1>2, TransformConstants DEF AddUser
  <2>2. User(s) \in Msg /\ ~IsAssistant(User(s)) /\ ~IsTool(User(s))
    BY DEF User, Msg, UserMsg, IsAssistant, IsTool
  <2> QED BY <2>1, <2>2, AddKeeps
<1>3. CASE AddAnswer
  <2>1. PICK b \in Models, n \in Nat, f \in {"stop", "length", "filtered"}, s \in {"text", "nothing", "thought"} :
          /\ LastId + n <= MaxIds
          /\ Add(Assistant([i \in 1..n |-> OwnId(b, LastId + i)], s, b, StopReason(b, f, n)))
    BY <1>3, TransformConstants DEF AddAnswer
  <2> DEFINE cs == [i \in 1..n |-> OwnId(b, LastId + i)]
             m  == Assistant(cs, s, b, StopReason(b, f, n))
             k  == LastId
  <2>2. k \in Nat
    BY LastIdFacts
  <2>6. DOMAIN cs = 1..n /\ cs = [i \in DOMAIN cs |-> cs[i]] /\ \A i \in 1..n : cs[i] = OwnId(b, k + i)
    OBVIOUS
  <2>7. m = Assistant(cs, s, b, StopReason(b, f, n))
    OBVIOUS
  <2>3. /\ m \in Msg /\ IsAssistant(m) /\ ~IsTool(m) /\ m.calls = cs /\ Len(cs) = n
        /\ \A c \in 1..n : cs[c].n = k + c /\ cs[c].form \in Stored
    <3> HIDE DEF cs, m, k
    <3> QED BY <2>2, <2>6, <2>7, AnswerIsMsg
  <2>4. Add(m)
    BY <2>1
  <2> HIDE DEF cs, m
  <2>5. \A c \in 1..Len(m.calls) :
            /\ m.calls[c].n > LastId /\ m.calls[c].n <= MaxIds /\ m.calls[c].form \in Stored
            /\ \A d \in 1..Len(m.calls) : m.calls[c].n = m.calls[d].n => c = d
    BY <1>1, <2>1, <2>2, <2>3
  <2> QED BY <2>3, <2>4, <2>5, AddKeeps
<1>4. CASE AddResult
  <2> DEFINE i == LastAnswer
             c == Len(history) - LastAnswer + 1
             m == Result(history[LastAnswer].calls[c])
  <2>1. /\ i \in 1..Len(history) /\ IsAssistant(history[i])
    BY <1>4, LastAnswerIs DEF AddResult
  <2>2. /\ \A l \in (i + 1)..Len(history) : IsTool(history[l])
        /\ Len(history) - i < Len(history[i].calls)
        /\ Add(m)
    BY <1>4 DEF AddResult
  <2>3. history[i].calls \in Seq(Id)
    BY <1>1, <2>1, MsgKinds DEF AnswerMsg
  <2>4. c \in 1..Len(history[i].calls) /\ c = Len(history) + 1 - i
    BY <1>1, <2>1, <2>2, <2>3
  <2>5. history[i].calls[c] \in Id
    BY <2>3, <2>4
  <2>6. m \in Msg /\ ~IsAssistant(m) /\ m.call = history[i].calls[c]
    BY <2>5 DEF Result, Msg, ToolMsg, IsAssistant
  <2> HIDE DEF m, i, c
  <2> QED BY <2>1, <2>2, <2>4, <2>6, AddKeeps
<1>5. CASE Compact
  BY <1>5, CompactKeeps
<1>6. CASE UNCHANGED history
  BY <1>6 DEF HistoryInv, IdsStored, CallsApart, ResultsApart, ResultsOwned, Orphan, Owner
<1> QED BY <1>2, <1>3, <1>4, <1>5, <1>6 DEF HistoryNext

(* Every result of a history stands behind the answer that asked for it, with only
   results between, or its answer has been cut off by a compaction; and no two
   calls and no two results have the same number. *)
THEOREM HistoryInvariant == HistorySpec => []HistoryInv
<1>1. HistoryInit => HistoryInv
  BY DEF HistoryInit, HistoryInv, IdsStored, CallsApart, ResultsApart, ResultsOwned
<1> QED BY <1>1, HistoryStep, PTL DEF HistorySpec

-----------------------------------------------------------------------------
(* Results belong *)

(* The answer at y asked for the result at x, and only results are between. *)
Asker(k, y, x) ==
  /\ y \in 1..(x - 1)
  /\ IsAssistant(k[y])
  /\ \A l \in (y + 1)..x : IsTool(k[l])
  /\ \E c \in 1..Len(k[y].calls) : k[x].call = k[y].calls[c]

AskedOrOrphan(k) ==
  \A x \in 1..Len(k) : IsTool(k[x]) => Orphan(k, x) \/ \E y \in 1..Len(k) : Asker(k, y, x)

LEMMA AskerBelongs ==
  ASSUME NEW out \in Seq(Msg), NEW j \in 1..Len(out), NEW y, Asker(out, y, j)
  PROVE  Belongs(out, j)
<1>1. y \in 1..(j - 1) /\ y \in 1..Len(out) /\ IsAssistant(out[y]) /\ j \in (y + 1)..Len(out)
  BY DEF Asker
<1>2. j \in Behind(out, y)
  BY <1>1 DEF Asker, Behind
<1>3. out[y].calls \in Seq(Id)
  BY <1>1, MsgKinds DEF AnswerMsg
<1>4. out[j].call \in Range(out[y].calls)
  BY <1>3 DEF Asker, Range
<1> QED BY <1>1, <1>2, <1>4 DEF Belongs

LEMMA KeptPlaces ==
  ASSUME NEW h \in Seq(Msg)
  PROVE  \E e : /\ e \in [1..Len(Kept(h)) -> 1..Len(h)]
                /\ \A x \in 1..Len(Kept(h)) : Kept(h)[x] = h[e[x]] /\ Stays(h[e[x]])
                /\ \A x, y \in 1..Len(Kept(h)) : x < y => e[x] < e[y]
                /\ \A i \in 1..Len(h) : Stays(h[i]) => \E x \in 1..Len(Kept(h)) : e[x] = i
<1> DEFINE I == {i \in DOMAIN h : Stays(h[i])}
           k == Kept(h)
<1>1. k = Picked(h, I)
  BY DEF Kept
<1> HIDE DEF k
<1>2. PICK e : Embeds(e, k, h, I, Len(h))
  BY <1>1, PickedEmbeds
<1>3. \A i \in 1..Len(h) : i \in I <=> Stays(h[i])
  OBVIOUS
<1> HIDE DEF I
<1>4. e \in [1..Len(k) -> 1..Len(h)] /\ \A x, y \in 1..Len(k) : x < y => e[x] < e[y]
  BY <1>2 DEF Embeds
<1>5. \A x \in 1..Len(k) : k[x] = h[e[x]] /\ Stays(h[e[x]])
  BY <1>2, <1>3 DEF Embeds
<1>6. \A i \in 1..Len(h) : Stays(h[i]) => \E x \in 1..Len(k) : e[x] = i
  BY <1>2, <1>3 DEF Embeds
<1> QED BY <1>4, <1>5, <1>6 DEF k

LEMMA KeptFacts ==
  ASSUME NEW h \in Seq(Msg), NEW n \in Nat, IdsStored(h, n), CallsApart(h), ResultsApart(h), ResultsOwned(h)
  PROVE  /\ Kept(h) \in Seq(Msg) /\ IdsStored(Kept(h), n) /\ CallsApart(Kept(h)) /\ ResultsApart(Kept(h))
         /\ AskedOrOrphan(Kept(h))
<1> DEFINE k == Kept(h)
<1>1. k \in Seq(Msg)
  BY KeptType
<1>2. PICK e : /\ e \in [1..Len(k) -> 1..Len(h)]
               /\ \A x \in 1..Len(k) : k[x] = h[e[x]] /\ Stays(h[e[x]])
               /\ \A x, y \in 1..Len(k) : x < y => e[x] < e[y]
               /\ \A i \in 1..Len(h) : Stays(h[i]) => \E x \in 1..Len(k) : e[x] = i
  BY KeptPlaces
<1> HIDE DEF k
<1>3. \A x \in 1..Len(k) : e[x] \in 1..Len(h) /\ k[x] = h[e[x]]
  BY <1>2
<1>4. \A x, y \in 1..Len(k) : e[x] = e[y] => x = y
  <2>1. \A x, y \in 1..Len(k) : e[x] \in Nat /\ (x < y \/ y < x \/ x = y)
    BY <1>3
  <2> QED BY <1>2, <2>1
<1>5. IdsStored(k, n)
  BY <1>3 DEF IdsStored
<1>6. CallsApart(k)
  <2> SUFFICES ASSUME NEW i \in 1..Len(k), NEW j \in 1..Len(k), IsAssistant(k[i]), IsAssistant(k[j]),
                      NEW c \in 1..Len(k[i].calls), NEW d \in 1..Len(k[j].calls),
                      k[i].calls[c].n = k[j].calls[d].n
               PROVE  i = j /\ c = d
    BY DEF CallsApart
  <2>1. PICK v \in 1..Len(h) : v = e[i] /\ k[i] = h[v]
    BY <1>3
  <2>2. PICK w \in 1..Len(h) : w = e[j] /\ k[j] = h[w]
    BY <1>3
  <2>3. /\ IsAssistant(h[v]) /\ IsAssistant(h[w]) /\ c \in 1..Len(h[v].calls) /\ d \in 1..Len(h[w].calls)
        /\ h[v].calls[c].n = h[w].calls[d].n
    BY <2>1, <2>2
  <2>4. v = w /\ c = d
    BY <2>3, SameCall
  <2> QED BY <1>4, <2>1, <2>2, <2>4
<1>7. ResultsApart(k)
  <2> SUFFICES ASSUME NEW i \in 1..Len(k), NEW j \in 1..Len(k), IsTool(k[i]), IsTool(k[j]),
                      k[i].call.n = k[j].call.n
               PROVE  i = j
    BY DEF ResultsApart
  <2>1. PICK v \in 1..Len(h) : v = e[i] /\ k[i] = h[v]
    BY <1>3
  <2>2. PICK w \in 1..Len(h) : w = e[j] /\ k[j] = h[w]
    BY <1>3
  <2>3. v = w
    BY <2>1, <2>2 DEF ResultsApart
  <2> QED BY <1>4, <2>1, <2>2, <2>3
<1>8. ASSUME NEW x \in 1..Len(k), IsTool(k[x])
      PROVE  Orphan(k, x) \/ \E y \in 1..Len(k) : Asker(k, y, x)
  <2>1. PICK v \in 1..Len(h) : v = e[x] /\ k[x] = h[v] /\ IsTool(h[v])
    BY <1>3, <1>8
  <2>2. CASE Orphan(h, v)
    <3>1. ASSUME NEW y \in 1..Len(k), IsAssistant(k[y]), NEW d \in 1..Len(k[y].calls)
          PROVE  k[y].calls[d].n # k[x].call.n
      <4>1. PICK w \in 1..Len(h) : k[y] = h[w]
        BY <1>3
      <4> QED BY <2>1, <2>2, <3>1, <4>1 DEF Orphan
    <3> QED BY <3>1 DEF Orphan
  <2>3. CASE \E i \in 1..(v - 1) : Owner(h, i, v)
    <3>1. PICK i \in 1..(v - 1) : Owner(h, i, v)
      BY <2>3
    <3>2. PICK c \in 1..Len(h[i].calls) : h[v].call = h[i].calls[c]
      BY <3>1 DEF Owner
    <3>3. /\ i \in 1..Len(h) /\ IsAssistant(h[i]) /\ i < v
          /\ \A l \in (i + 1)..v : IsTool(h[l])
      BY <2>1, <3>1 DEF Owner
    <3>4. CASE Stays(h[i])
      <4>1. PICK y \in 1..Len(k) : e[y] = i
        BY <1>2, <3>3, <3>4
      <4>2. y < x
        <5>1. e[y] < e[x] /\ e[y] \in Nat /\ e[x] \in Nat
          BY <1>3, <2>1, <3>3, <4>1
        <5>2. x < y => e[x] < e[y]
          BY <1>2
        <5>3. x # y
          BY <5>1
        <5> QED BY <5>1, <5>2, <5>3
      <4>3. ASSUME NEW l \in (y + 1)..x PROVE IsTool(k[l])
        <5>1. l \in 1..Len(k) /\ y < l /\ (l < x \/ l = x)
          OBVIOUS
        <5>2. e[y] < e[l] /\ (e[l] < e[x] \/ e[l] = e[x]) /\ e[l] \in Nat /\ e[x] \in Nat
          BY <1>2, <1>3, <5>1
        <5>3. e[l] \in (i + 1)..v
          BY <2>1, <3>3, <4>1, <5>2
        <5> QED BY <1>3, <3>3, <5>1, <5>3
      <4>4. Asker(k, y, x)
        BY <1>3, <2>1, <3>2, <3>3, <4>1, <4>2, <4>3 DEF Asker
      <4> QED BY <4>4
    <3>5. CASE ~Stays(h[i])
      <4> SUFFICES ASSUME NEW y \in 1..Len(k), IsAssistant(k[y]), NEW d \in 1..Len(k[y].calls),
                          k[y].calls[d].n = k[x].call.n
                   PROVE  FALSE
        BY DEF Orphan
      <4>1. PICK w \in 1..Len(h) : w = e[y] /\ k[y] = h[w]
        BY <1>3
      <4>2. h[w].calls[d].n = h[i].calls[c].n
        BY <2>1, <3>2, <4>1
      <4>4. IsAssistant(h[w]) /\ d \in 1..Len(h[w].calls)
        BY <4>1
      <4>3. w = i
        BY <3>2, <3>3, <4>2, <4>4, SameCall
      <4> QED BY <1>2, <3>5, <4>1, <4>3
    <3> QED BY <3>4, <3>5
  <2> QED BY <2>1, <2>2, <2>3, OwnedOrNot
<1>9. AskedOrOrphan(k)
  BY <1>8 DEF AskedOrOrphan
<1> QED BY <1>1, <1>5, <1>6, <1>7, <1>9 DEF k

(* The ids under which calls may be sent. *)
SentIds(h, t) ==
  UNION {CallsOf(m) \cup {Norm(t, id) : id \in CallsOf(m)} :
           m \in {m \in Range(Kept(h)) : IsAssistant(m)}}

(* The result at x answers call c of the answer at y, in k and, renamed, in p. *)
AskedAs(k, p, y, x, c) ==
  /\ y \in 1..(x - 1)
  /\ IsAssistant(k[y]) /\ IsAssistant(p[y])
  /\ \A l \in (y + 1)..x : IsTool(p[l])
  /\ c \in 1..Len(k[y].calls) /\ k[x].call = k[y].calls[c]
  /\ c \in 1..Len(p[y].calls) /\ p[x].call = p[y].calls[c]

(* The first pass renames a result as its call, and nobody else's. *)
LEMMA FirstPassAsks ==
  ASSUME NEW t \in Models, NEW h \in Seq(Msg), NEW n \in Nat,
         IdsStored(h, n), CallsApart(h), ResultsApart(h), ResultsOwned(h),
         NEW x \in 1..Len(FirstPass(h, t)), IsTool(FirstPass(h, t)[x])
  PROVE  \/ \E y \in 1..Len(FirstPass(h, t)), c \in Nat : AskedAs(Kept(h), FirstPass(h, t), y, x, c)
         \/ /\ FirstPass(h, t)[x].call \notin SentIds(h, t)
            /\ Orphan(Kept(h), x) /\ FirstPass(h, t)[x].call = Kept(h)[x].call
<1> DEFINE k == Kept(h)
           p == FirstPass(h, t)
<1>1. /\ k \in Seq(Msg) /\ IdsStored(k, n) /\ CallsApart(k) /\ ResultsApart(k) /\ AskedOrOrphan(k)
  BY KeptFacts
<1>2. /\ p \in Seq(Msg) /\ Len(p) = Len(k)
      /\ \A i \in 1..Len(k) :
              /\ IsAssistant(p[i]) <=> IsAssistant(k[i])
              /\ IsTool(p[i]) <=> IsTool(k[i])
              /\ IsAssistant(k[i]) => p[i] = IF k[i].by # t THEN Foreign(k[i], t) ELSE k[i]
              /\ IsTool(k[i]) => p[i].call =
                                IF k[i].call \in RenamedBefore(k, i, t) THEN Norm(t, k[i].call) ELSE k[i].call
  BY FirstPassType
<1>3. SentIds(h, t) = UNION {CallsOf(m) \cup {Norm(t, id) : id \in CallsOf(m)} :
                               m \in {m \in Range(k) : IsAssistant(m)}}
  BY DEF SentIds
<1> HIDE DEF k, p
<1>4. IsTool(k[x]) /\ x \in 1..Len(k)
  BY <1>2 DEF p
<1>5. k[x] \in Msg /\ k[x].call \in Id /\ k[x].call.form \in Stored
  BY <1>1, <1>4, MsgKinds DEF ToolMsg, IdsStored
<1>6. \A i \in 1..Len(k) : IsAssistant(k[i]) => k[i] \in AnswerMsg /\ k[i].calls \in Seq(Id)
  BY <1>1, MsgKinds DEF AnswerMsg
<1>7. ASSUME NEW id, id \in RenamedBefore(k, x, t)
      PROVE  \E i \in 1..Len(k) : /\ IsAssistant(k[i]) /\ k[i].by # t
                                  /\ \E c \in 1..Len(k[i].calls) : id = k[i].calls[c]
  <2>1. PICK i \in 1..(x - 1) : IsAssistant(k[i]) /\ k[i].by # t /\ id \in Range(k[i].calls)
    BY <1>7 DEF RenamedBefore
  <2>2. i \in 1..Len(k)
    BY <1>1, <1>4
  <2>3. k[i].calls \in Seq(Id)
    BY <1>6, <2>1, <2>2
  <2>4. \E c \in 1..Len(k[i].calls) : id = k[i].calls[c]
    BY <2>1, <2>3 DEF Range
  <2> QED BY <2>1, <2>2, <2>4
<1>8. CASE \E y \in 1..Len(k) : Asker(k, y, x)
  <2>1. PICK y \in 1..Len(k) : Asker(k, y, x)
    BY <1>8
  <2>2. PICK c \in 1..Len(k[y].calls) : k[x].call = k[y].calls[c]
    BY <2>1 DEF Asker
  <2>3. y \in 1..(x - 1) /\ IsAssistant(k[y]) /\ (\A l \in (y + 1)..x : IsTool(k[l]))
    BY <2>1 DEF Asker
  <2>4. k[y].calls \in Seq(Id) /\ k[y] \in AnswerMsg
    BY <1>6, <2>3
  <2>5. p[x].call \in Id /\ c \in 1..Len(p[y].calls) /\ p[x].call = p[y].calls[c]
    <3>1. CASE k[y].by # t
      <4>1. p[y] = Foreign(k[y], t)
        BY <1>2, <2>3, <3>1
      <4>2. p[y].calls = [d \in DOMAIN k[y].calls |-> Norm(t, k[y].calls[d])]
        BY <2>4, <4>1, ForeignType
      <4>3. c \in DOMAIN k[y].calls /\ p[y].calls[c] = Norm(t, k[y].calls[c]) /\ DOMAIN p[y].calls = DOMAIN k[y].calls
        BY <2>4, <4>2
      <4>4. p[y].calls \in Seq(Id)
        BY <2>4, <4>1, ForeignType DEF AnswerMsg
      <4>5. c \in 1..Len(p[y].calls)
        BY <4>3, <4>4
      <4>6. CASE Norm(t, k[x].call) # k[x].call
        <5>1. k[x].call \in Range(k[y].calls)
          BY <2>2, <4>3 DEF Range
        <5>2. k[x].call \in RenamedBefore(k, x, t)
          BY <2>3, <3>1, <4>6, <5>1 DEF RenamedBefore
        <5>3. p[x].call = Norm(t, k[x].call)
          BY <1>2, <1>4, <5>2
        <5> QED BY <1>5, <2>2, <4>3, <4>5, <5>3, NormFacts
      <4>7. CASE Norm(t, k[x].call) = k[x].call
        <5>1. p[x].call = k[x].call
          BY <1>2, <1>4, <4>7
        <5> QED BY <1>5, <2>2, <4>3, <4>5, <4>7, <5>1
      <4> QED BY <4>6, <4>7
    <3>2. CASE k[y].by = t
      <4>1. p[y] = k[y]
        BY <1>2, <2>3, <3>2
      <4>2. k[x].call \notin RenamedBefore(k, x, t)
        <5> SUFFICES ASSUME k[x].call \in RenamedBefore(k, x, t) PROVE FALSE
          OBVIOUS
        <5>1. PICK i \in 1..Len(k) : /\ IsAssistant(k[i]) /\ k[i].by # t
                                     /\ \E d \in 1..Len(k[i].calls) : k[x].call = k[i].calls[d]
          BY <1>7
        <5>2. PICK d \in 1..Len(k[i].calls) : k[x].call = k[i].calls[d]
          BY <5>1
        <5>3. k[i].calls[d].n = k[y].calls[c].n
          BY <2>2, <5>2
        <5>4. i = y
          BY <1>1, <2>3, <5>1, <5>3, SameCall
        <5> QED BY <3>2, <5>1, <5>4
      <4>3. p[x].call = k[x].call
        BY <1>2, <1>4, <4>2
      <4> QED BY <1>5, <2>2, <4>1, <4>3
    <3> QED BY <3>1, <3>2
  <2>6. ASSUME NEW l \in (y + 1)..x PROVE IsTool(p[l])
    <3>1. l \in 1..Len(k)
      BY <1>1, <1>4, <2>1
    <3> QED BY <1>2, <2>3, <3>1
  <2>7. IsAssistant(p[y])
    BY <1>2, <2>3
  <2>8. c \in Nat /\ AskedAs(k, p, y, x, c)
    BY <2>2, <2>3, <2>4, <2>5, <2>6, <2>7 DEF AskedAs
  <2> QED BY <1>2, <2>8 DEF p, k
<1>9. CASE Orphan(k, x)
  <2>1. k[x].call \notin RenamedBefore(k, x, t)
    BY <1>7, <1>9 DEF Orphan
  <2>2. p[x].call = k[x].call
    BY <1>2, <1>4, <2>1
  <2> SUFFICES ASSUME k[x].call \in SentIds(h, t) PROVE FALSE
    BY <1>9, <2>2 DEF p, k
  <2>3. PICK i \in 1..Len(k) : /\ IsAssistant(k[i])
                               /\ k[x].call \in CallsOf(k[i]) \cup {Norm(t, id) : id \in CallsOf(k[i])}
    <3>1. PICK a \in Range(k) : IsAssistant(a) /\ k[x].call \in CallsOf(a) \cup {Norm(t, id) : id \in CallsOf(a)}
      BY <1>3
    <3>2. DOMAIN k = 1..Len(k)
      BY <1>1
    <3>3. PICK i \in 1..Len(k) : a = k[i]
      BY <3>2 DEF Range
    <3> QED BY <3>1, <3>3
  <2>4. PICK id \in CallsOf(k[i]) : k[x].call = id \/ k[x].call = Norm(t, id)
    BY <2>3
  <2>5. PICK c \in 1..Len(k[i].calls) : id = k[i].calls[c]
    BY <1>6, <2>3 DEF CallsOf, Range
  <2>6. id \in Id /\ id.n # k[x].call.n
    BY <1>6, <1>9, <2>3, <2>5 DEF Orphan
  <2>7. k[x].call = Norm(t, id)
    BY <2>4, <2>6
  <2>8. t = "mistral" /\ Norm(t, id).form = "nine"
    BY <2>6, <2>7, NormFacts DEF Nine
  <2> QED BY <1>5, <2>7, <2>8 DEF Stored
<1> QED BY <1>1, <1>4, <1>8, <1>9 DEF AskedOrOrphan

LEMMA FirstPassFacts ==
  ASSUME NEW t \in Models, NEW h \in Seq(Msg), NEW n \in Nat,
         IdsStored(h, n), CallsApart(h), ResultsApart(h), ResultsOwned(h),
         NEW x \in 1..Len(FirstPass(h, t)), IsTool(FirstPass(h, t)[x])
  PROVE  \/ \E y \in 1..Len(FirstPass(h, t)) : Asker(FirstPass(h, t), y, x)
         \/ FirstPass(h, t)[x].call \notin SentIds(h, t)
<1> DEFINE p == FirstPass(h, t)
           k == Kept(h)
<1>1. \/ \E y \in 1..Len(p), c \in Nat : AskedAs(k, p, y, x, c)
      \/ p[x].call \notin SentIds(h, t)
  BY FirstPassAsks
<1> HIDE DEF p, k
<1>2. ASSUME NEW y \in 1..Len(p), NEW c \in Nat, AskedAs(k, p, y, x, c) PROVE Asker(p, y, x)
  BY <1>2 DEF AskedAs, Asker
<1>3. (\E y \in 1..Len(p) : Asker(p, y, x)) \/ p[x].call \notin SentIds(h, t)
  BY <1>1, <1>2
<1> QED BY <1>3 DEF p

(* What the second pass has so far, when it has come to message i of k. *)
PassInv(k, ids, i, acc) ==
  /\ \A j \in 1..Len(acc.out) : /\ IsTool(acc.out[j]) /\ acc.out[j].call \in ids
                                => \E y \in 1..Len(acc.out) : Asker(acc.out, y, j)
  /\ acc.pending # <<>> =>
       \E z \in 1..Len(acc.out) : /\ IsAssistant(acc.out[z]) /\ acc.out[z].calls = acc.pending
                                  /\ \A l \in (z + 1)..Len(acc.out) : IsTool(acc.out[l])
  /\ \A y \in 1..i : IsAssistant(k[y]) /\ (\A l \in (y + 1)..i : IsTool(k[l])) =>
       \E z \in 1..Len(acc.out) : /\ acc.out[z] = k[y]
                                  /\ \A l \in (z + 1)..Len(acc.out) : IsTool(acc.out[l])

LEMMA AskerLonger ==
  ASSUME NEW a \in Seq(Msg), NEW b \in Seq(Msg), Len(a) <= Len(b), \A i \in 1..Len(a) : b[i] = a[i],
         NEW j \in 1..Len(a), NEW y \in 1..Len(a), Asker(a, y, j)
  PROVE  y \in 1..Len(b) /\ Asker(b, y, j)
<1>1. y \in 1..(j - 1) /\ \A l \in y..j : l \in 1..Len(a) /\ b[l] = a[l]
  BY DEF Asker
<1>2. y \in y..j /\ j \in y..j /\ \A l \in (y + 1)..j : l \in y..j
  BY <1>1
<1> QED BY <1>1, <1>2 DEF Asker

LEMMA PassToolStep ==
  ASSUME NEW k \in Seq(Msg), NEW ids, NEW i \in 1..Len(k), NEW acc \in Accs, PassInv(k, ids, i - 1, acc),
         IsTool(k[i]), (\E y \in 1..Len(k) : Asker(k, y, i)) \/ k[i].call \notin ids
  PROVE  PassInv(k, ids, i, Step(acc, k[i]))
<1> DEFINE new == Step(acc, k[i])
           out == acc.out
           m   == k[i]
           n   == Len(acc.out)
<1>1. out \in Seq(Msg) /\ n \in Nat /\ m \in Msg
  BY DEF Accs
<1>2. new.out = Append(out, m) /\ new.pending = acc.pending
  BY StepType
<1>3. /\ new.out \in Seq(Msg) /\ Len(new.out) = n + 1 /\ new.out[n + 1] = m
      /\ \A j \in 1..n : new.out[j] = out[j]
  BY <1>1, <1>2
<1>4. n = Len(out)
  OBVIOUS
<1>5. /\ \A j \in 1..n : IsTool(out[j]) /\ out[j].call \in ids => \E y \in 1..n : Asker(out, y, j)
      /\ acc.pending # <<>> =>
            \E z \in 1..n : /\ IsAssistant(out[z]) /\ out[z].calls = acc.pending
                            /\ \A l \in (z + 1)..n : IsTool(out[l])
      /\ \A y \in 1..(i - 1) : IsAssistant(k[y]) /\ (\A l \in (y + 1)..(i - 1) : IsTool(k[l])) =>
            \E z \in 1..n : /\ out[z] = k[y]
                            /\ \A l \in (z + 1)..n : IsTool(out[l])
  BY DEF PassInv
<1>6. ~IsAssistant(m)
  BY <1>1, MsgKinds
<1> HIDE DEF new, out, m, n
<1>7. ASSUME NEW z \in 1..n, \A l \in (z + 1)..n : IsTool(out[l])
      PROVE  z \in 1..(n + 1) /\ new.out[z] = out[z] /\ \A l \in (z + 1)..(n + 1) : IsTool(new.out[l])
  <2>1. ASSUME NEW l \in (z + 1)..(n + 1) PROVE IsTool(new.out[l])
    <3>1. l = n + 1 \/ l \in (z + 1)..n
      BY <1>1
    <3>2. l \in (z + 1)..n => l \in 1..n
      BY <1>1
    <3> QED BY <1>3, <1>7, <3>1, <3>2 DEF m
  <2> QED BY <1>1, <1>3, <2>1
<1>8. ASSUME NEW j \in 1..(n + 1), IsTool(new.out[j]), new.out[j].call \in ids
      PROVE  \E y \in 1..(n + 1) : Asker(new.out, y, j)
  <2>1. CASE j \in 1..n
    <3>1. PICK y \in 1..n : Asker(out, y, j)
      BY <1>3, <1>5, <1>8, <2>1
    <3>2. /\ Len(out) <= Len(new.out) /\ \A l \in 1..Len(out) : new.out[l] = out[l]
          /\ y \in 1..Len(out) /\ j \in 1..Len(out)
      BY <1>1, <1>3, <1>4, <2>1
    <3> DEFINE long == new.out
    <3>3. long \in Seq(Msg) /\ Len(out) <= Len(long) /\ \A l \in 1..Len(out) : long[l] = out[l]
      BY <1>3, <3>2
    <3> HIDE DEF long
    <3>4. y \in 1..Len(long) /\ Asker(long, y, j)
      BY <1>1, <3>1, <3>2, <3>3, AskerLonger
    <3>5. y \in 1..Len(new.out) /\ Asker(new.out, y, j)
      BY <3>4 DEF long
    <3> QED BY <1>3, <3>5
  <2>2. CASE j = n + 1
    <3>1. PICK y \in 1..Len(k) : Asker(k, y, i)
      BY <1>3, <1>8, <2>2 DEF m
    <3>2. /\ y \in 1..(i - 1) /\ IsAssistant(k[y]) /\ \A l \in (y + 1)..(i - 1) : IsTool(k[l])
      BY <3>1 DEF Asker
    <3>3. PICK z \in 1..n : out[z] = k[y] /\ \A l \in (z + 1)..n : IsTool(out[l])
      BY <1>5, <3>2
    <3>4. z \in 1..(n + 1) /\ new.out[z] = k[y] /\ \A l \in (z + 1)..(n + 1) : IsTool(new.out[l])
      BY <1>7, <3>3
    <3>5. \E c \in 1..Len(k[y].calls) : m.call = k[y].calls[c]
      BY <3>1 DEF Asker, m
    <3>6. z \in 1..(j - 1)
      BY <1>1, <2>2
    <3>7. Asker(new.out, z, j)
      BY <1>3, <2>2, <3>2, <3>4, <3>5, <3>6 DEF Asker
    <3> QED BY <3>4, <3>7
  <2> QED BY <1>1, <2>1, <2>2
<1>9. ASSUME acc.pending # <<>>
      PROVE  \E z \in 1..(n + 1) : /\ IsAssistant(new.out[z]) /\ new.out[z].calls = acc.pending
                                   /\ \A l \in (z + 1)..(n + 1) : IsTool(new.out[l])
  <2>1. PICK z \in 1..n : /\ IsAssistant(out[z]) /\ out[z].calls = acc.pending
                          /\ \A l \in (z + 1)..n : IsTool(out[l])
    BY <1>5, <1>9
  <2>2. z \in 1..(n + 1) /\ new.out[z] = out[z] /\ \A l \in (z + 1)..(n + 1) : IsTool(new.out[l])
    BY <1>7, <2>1
  <2> QED BY <2>1, <2>2
<1>10. ASSUME NEW y \in 1..i, IsAssistant(k[y]), \A l \in (y + 1)..i : IsTool(k[l])
       PROVE  \E z \in 1..(n + 1) : new.out[z] = k[y] /\ \A l \in (z + 1)..(n + 1) : IsTool(new.out[l])
  <2>1. y \in 1..(i - 1)
    BY <1>6, <1>10 DEF m
  <2>2. \A l \in (y + 1)..(i - 1) : IsTool(k[l])
    BY <1>10
  <2>3. PICK z \in 1..n : out[z] = k[y] /\ \A l \in (z + 1)..n : IsTool(out[l])
    BY <1>5, <1>10, <2>1, <2>2
  <2>4. z \in 1..(n + 1) /\ new.out[z] = out[z] /\ \A l \in (z + 1)..(n + 1) : IsTool(new.out[l])
    BY <1>7, <2>3
  <2> QED BY <2>3, <2>4
<1>11. PassInv(k, ids, i, new)
  BY <1>2, <1>3, <1>8, <1>9, <1>10 DEF PassInv
<1> QED BY <1>11 DEF new

LEMMA PassOtherStep ==
  ASSUME NEW k \in Seq(Msg), NEW ids, NEW i \in 1..Len(k), NEW acc \in Accs, PassInv(k, ids, i - 1, acc),
         ~IsTool(k[i])
  PROVE  PassInv(k, ids, i, Step(acc, k[i]))
<1> DEFINE new == Step(acc, k[i])
           out == acc.out
           m   == k[i]
           n   == Len(acc.out)
           ms  == Missing(acc)
           s   == Len(Missing(acc))
           om  == out \o ms
<1>1. out \in Seq(Msg) /\ n \in Nat /\ m \in Msg /\ n = Len(out) /\ s = Len(ms)
  BY DEF Accs
<1>2. /\ ms \in Seq(Msg) /\ s \in Nat
      /\ \A j \in 1..s : /\ IsTool(ms[j])
                         /\ \E c \in 1..Len(acc.pending) : ms[j].call = acc.pending[c]
  <2>1. /\ Missing(acc) \in Seq(Msg)
        /\ \A j \in 1..Len(Missing(acc)) :
             /\ Missing(acc)[j] \in ToolMsg /\ Missing(acc)[j].synthetic
             /\ \E c \in 1..Len(acc.pending) : /\ Missing(acc)[j].call = acc.pending[c]
                                               /\ acc.pending[c] \notin acc.found
    BY MissingType
  <2>2. \A r \in ToolMsg : IsTool(r)
    BY DEF ToolMsg, IsTool
  <2>3. ms \in Seq(Msg) /\ \A j \in 1..s : /\ ms[j] \in ToolMsg
                                           /\ \E c \in 1..Len(acc.pending) : ms[j].call = acc.pending[c]
    BY <2>1
  <2> HIDE DEF ms, s
  <2>4. s \in Nat
    BY <1>1, <2>3
  <2> QED BY <2>2, <2>3, <2>4
<1>3. new.pending = (IF IsAssistant(m) THEN m.calls ELSE <<>>) /\ new.out = Append(om, m)
  BY <1>1, StepType
<1>14. new.out = Append(om, m)
  BY <1>3
<1>4. /\ \A j \in 1..n : IsTool(out[j]) /\ out[j].call \in ids => \E y \in 1..n : Asker(out, y, j)
      /\ acc.pending # <<>> =>
            \E z \in 1..n : /\ IsAssistant(out[z]) /\ out[z].calls = acc.pending
                            /\ \A l \in (z + 1)..n : IsTool(out[l])
  BY DEF PassInv
<1>5. acc.pending \in Seq(Id)
  BY DEF Accs
<1> HIDE DEF ms, s, out, n
<1>6. om \in Seq(Msg) /\ Len(om) = n + s /\ (\A j \in 1..n : om[j] = out[j]) /\ \A j \in 1..s : om[n + j] = ms[j]
  BY <1>1, <1>2, ConcatFacts
<1> HIDE DEF om, new, m
<1>7. /\ new.out \in Seq(Msg) /\ Len(new.out) = n + s + 1 /\ new.out[n + s + 1] = m
      /\ \A j \in 1..(n + s) : new.out[j] = om[j]
  <2>1. /\ Append(om, m) \in Seq(Msg) /\ Len(Append(om, m)) = Len(om) + 1
        /\ Append(om, m)[Len(om) + 1] = m /\ \A j \in 1..Len(om) : Append(om, m)[j] = om[j]
    BY <1>1, <1>6
  <2> QED BY <1>6, <1>14, <2>1
<1>8. /\ \A j \in 1..n : new.out[j] = out[j] /\ j \in 1..(n + s + 1)
      /\ \A j \in 1..s : new.out[n + j] = ms[j]
  <2>1. \A j \in 1..n : j \in 1..(n + s) /\ j \in 1..(n + s + 1)
    BY <1>1, <1>2
  <2>2. \A j \in 1..s : n + j \in 1..(n + s)
    BY <1>1, <1>2
  <2> QED BY <1>6, <1>7, <2>1, <2>2
<1>9. ASSUME NEW j \in 1..(n + s + 1)
      PROVE  j \in 1..n \/ j = n + s + 1 \/ \E d \in 1..s : j = n + d
  <2>1. CASE j \in (n + 1)..(n + s)
    <3>1. j - n \in 1..s
      BY <1>1, <1>2, <2>1
    <3>2. PICK d \in 1..s : d = j - n
      BY <3>1
    <3>3. j = n + d
      BY <1>1, <2>1, <3>2
    <3>4. \E e \in 1..s : j = n + e
      BY <3>2, <3>3
    <3> QED BY <3>4
  <2>3. n \in Nat /\ s \in Nat
    BY <1>1, <1>2
  <2>2. j \in 1..n \/ j = n + s + 1 \/ j \in (n + 1)..(n + s)
    BY <2>3
  <2> QED BY <2>1, <2>2
<1>10. ASSUME NEW j \in 1..(n + s + 1), IsTool(new.out[j]), new.out[j].call \in ids
       PROVE  \E y \in 1..(n + s + 1) : Asker(new.out, y, j)
  <2>1. CASE j \in 1..n
    <3>1. PICK y \in 1..n : Asker(out, y, j)
      BY <1>4, <1>8, <1>10, <2>1
    <3>2. /\ Len(out) <= Len(new.out) /\ \A l \in 1..Len(out) : new.out[l] = out[l]
          /\ y \in 1..Len(out) /\ j \in 1..Len(out)
      BY <1>1, <1>2, <1>7, <1>8, <2>1
    <3> DEFINE long == new.out
    <3>3. long \in Seq(Msg) /\ Len(out) <= Len(long) /\ \A l \in 1..Len(out) : long[l] = out[l]
      BY <1>7, <3>2
    <3> HIDE DEF long
    <3>4. y \in 1..Len(long) /\ Asker(long, y, j)
      BY <1>1, <3>1, <3>2, <3>3, AskerLonger
    <3>5. y \in 1..Len(new.out) /\ Asker(new.out, y, j)
      BY <3>4 DEF long
    <3> QED BY <1>7, <3>5
  <2>2. CASE \E d \in 1..s : j = n + d
    <3>1. PICK d \in 1..s : j = n + d
      BY <2>2
    <3>2. PICK c \in 1..Len(acc.pending) : ms[d].call = acc.pending[c]
      BY <1>2
    <3>3. acc.pending # <<>>
      BY <1>5, <3>2
    <3>4. PICK z \in 1..n : /\ IsAssistant(out[z]) /\ out[z].calls = acc.pending
                            /\ \A l \in (z + 1)..n : IsTool(out[l])
      BY <1>4, <3>3
    <3>8. new.out[z] = out[z] /\ new.out[j] = ms[d]
      BY <1>8, <3>1
    <3>9. z \in 1..(j - 1) /\ z \in 1..(n + s + 1)
      BY <1>1, <1>2, <3>1
    <3>5. new.out[z] = out[z] /\ new.out[j] = ms[d] /\ z \in 1..(j - 1) /\ z \in 1..(n + s + 1)
      BY <3>8, <3>9
    <3>6. ASSUME NEW l \in (z + 1)..j PROVE IsTool(new.out[l])
      <4>1. CASE l \in 1..n
        BY <1>8, <3>4, <4>1
      <4>2. CASE l \notin 1..n
        <5>1. l - n \in 1..s /\ n + (l - n) = l
          BY <1>1, <1>2, <3>1, <3>4, <4>2
        <5>2. new.out[n + (l - n)] = ms[l - n] /\ IsTool(ms[l - n])
          BY <1>2, <1>8, <5>1
        <5> QED BY <5>1, <5>2
      <4> QED BY <4>1, <4>2
    <3>7. Asker(new.out, z, j)
      BY <3>2, <3>4, <3>5, <3>6 DEF Asker
    <3> QED BY <3>5, <3>7
  <2>3. CASE j = n + s + 1
    BY <1>7, <1>10, <2>3 DEF m
  <2> QED BY <1>9, <2>1, <2>2, <2>3
<1>11. n + s + 1 \in 1..(n + s + 1) /\ \A l \in (n + s + 1 + 1)..(n + s + 1) : IsTool(new.out[l])
  BY <1>1, <1>2
<1>12. ASSUME new.pending # <<>>
       PROVE  \E z \in 1..(n + s + 1) : /\ IsAssistant(new.out[z]) /\ new.out[z].calls = new.pending
                                        /\ \A l \in (z + 1)..(n + s + 1) : IsTool(new.out[l])
  <2>1. IsAssistant(m) /\ new.pending = m.calls
    BY <1>3, <1>12
  <2> QED BY <1>7, <1>11, <2>1
<1>13. ASSUME NEW y \in 1..i, IsAssistant(k[y]), \A l \in (y + 1)..i : IsTool(k[l])
       PROVE  \E z \in 1..(n + s + 1) : new.out[z] = k[y] /\ \A l \in (z + 1)..(n + s + 1) : IsTool(new.out[l])
  <2>1. y = i
    BY <1>13
  <2> QED BY <1>7, <1>11, <2>1 DEF m
<1>15. PassInv(k, ids, i, new)
  BY <1>7, <1>10, <1>12, <1>13 DEF PassInv
<1> QED BY <1>15 DEF new

(* Every result of the list k whose id is in ids stands behind an answer with that id
   after the second pass, if it does before it. *)
LEMMA SecondPassAsks ==
  ASSUME NEW k \in Seq(Msg), NEW ids,
         \A x \in 1..Len(k) : IsTool(k[x]) => (\E y \in 1..Len(k) : Asker(k, y, x)) \/ k[x].call \notin ids
  PROVE  /\ SecondPass(k) \in Seq(Msg)
         /\ \A x \in 1..Len(SecondPass(k)) :
              IsTool(SecondPass(k)[x]) /\ SecondPass(k)[x].call \in ids =>
                \E y \in 1..Len(SecondPass(k)) : Asker(SecondPass(k), y, x)
<1>2. k \in Seq(Msg) /\ Len(k) \in Nat
  OBVIOUS
<1>3. \A x \in 1..Len(k) : IsTool(k[x]) => (\E y \in 1..Len(k) : Asker(k, y, x)) \/ k[x].call \notin ids
  OBVIOUS
<1>4. PICK g : /\ g[0] = Begun
               /\ \A i \in 1..Len(k) : g[i] = Step(g[i - 1], k[i])
               /\ \A i \in 0..Len(k) : g[i] \in Accs
               /\ SecondPass(k) = g[Len(k)].out
  BY <1>2, SecondPassIsIteration
<1> DEFINE S == {i \in 0..Len(k) : PassInv(k, ids, i, g[i])}
<1>5. 0 \in S
  <2>1. PassInv(k, ids, 0, Begun)
    BY DEF PassInv, Begun
  <2> QED BY <1>2, <1>4, <2>1
<1>6. ASSUME NEW i \in 1..Len(k), i - 1 \in S PROVE i \in S
  <2>1. PICK acc \in Accs : acc = g[i - 1] /\ PassInv(k, ids, i - 1, acc) /\ g[i] = Step(acc, k[i])
    BY <1>4, <1>6
  <2>2. CASE IsTool(k[i])
    <3>1. PassInv(k, ids, i, Step(acc, k[i]))
      BY <1>2, <1>3, <2>1, <2>2, PassToolStep
    <3> QED BY <2>1, <3>1
  <2>3. CASE ~IsTool(k[i])
    <3>1. PassInv(k, ids, i, Step(acc, k[i]))
      BY <1>2, <2>1, <2>3, PassOtherStep
    <3> QED BY <2>1, <3>1
  <2> QED BY <2>2, <2>3
<1> HIDE DEF S
<1>7. Len(k) \in S
  <2>1. 0..Len(k) \subseteq S
    BY <1>2, <1>5, <1>6, BoundedInduction
  <2> QED BY <1>2, <2>1
<1>8. PassInv(k, ids, Len(k), g[Len(k)]) /\ g[Len(k)] \in Accs
  BY <1>2, <1>4, <1>7 DEF S
<1> DEFINE out == g[Len(k)].out
<1>9. out = SecondPass(k) /\ out \in Seq(Msg)
  BY <1>4, <1>8 DEF Accs
<1>10. \A x \in 1..Len(out) : IsTool(out[x]) /\ out[x].call \in ids => \E y \in 1..Len(out) : Asker(out, y, x)
  BY <1>8 DEF PassInv
<1> HIDE DEF out
<1> QED BY <1>9, <1>10

LEMMA BelongFromHistory == HistoryInv => ResultsBelong
<1> SUFFICES ASSUME HistoryInv, NEW t \in Targets,
                    NEW j \in DOMAIN Transformed(history, t), IsTool(Transformed(history, t)[j]),
                    Transformed(history, t)[j].call \in SentIds(history, t)
             PROVE  Belongs(Transformed(history, t), j)
  BY DEF ResultsBelong, SentIds
<1> DEFINE h == history
           k == FirstPass(history, t)
           ids == SentIds(history, t)
           out == Transformed(history, t)
<1>1. /\ t \in Models /\ MaxIds \in Nat /\ h \in Seq(Msg) /\ IdsStored(h, MaxIds)
      /\ CallsApart(h) /\ ResultsApart(h) /\ ResultsOwned(h)
  BY TransformConstants DEF HistoryInv
<1>2. k \in Seq(Msg)
  BY <1>1, FirstPassType
<1>3. \A x \in 1..Len(k) : IsTool(k[x]) => (\E y \in 1..Len(k) : Asker(k, y, x)) \/ k[x].call \notin ids
  BY <1>1, FirstPassFacts
<1>4. out = SecondPass(k)
  BY DEF Transformed
<1>5. j \in DOMAIN out /\ IsTool(out[j]) /\ out[j].call \in ids
  OBVIOUS
<1> HIDE DEF k, ids, out
<1>6. /\ out \in Seq(Msg)
      /\ \A x \in 1..Len(out) : IsTool(out[x]) /\ out[x].call \in ids => \E y \in 1..Len(out) : Asker(out, y, x)
  BY <1>2, <1>3, <1>4, SecondPassAsks
<1>7. j \in 1..Len(out)
  BY <1>5, <1>6
<1>8. PICK y \in 1..Len(out) : Asker(out, y, j)
  BY <1>5, <1>6, <1>7
<1>9. Belongs(out, j)
  BY <1>6, <1>7, <1>8, AskerBelongs
<1> QED BY <1>9 DEF out

(* A result whose answer is sent stands behind that answer, whatever model asked and
   whichever the request is for: for histories of any length and any ids that agree in
   Mistral's nine letters.  Of results whose answer has failed, or was cut off by a
   compaction, nothing is said: they are sent without their call. *)
THEOREM ResultsStayWithAnswers == HistorySpec => []ResultsBelong
BY HistoryInvariant, BelongFromHistory, PTL

-----------------------------------------------------------------------------
(* Voices *)

Roles == {"user", "assistant", "tool", "results"}

(* g[i] is what the first i of s say, where v[x] is what x says. *)
Tells(g, s, v) ==
  /\ g[0] = <<>>
  /\ \A i \in 1..Len(s) : g[i] = g[i - 1] \o v[s[i]]

Told(s, v) == LET g == CHOOSE g : Tells(g, s, v) IN g[Len(s)]

Voiced(s, v) == s \in Seq(DOMAIN v) /\ v \in [DOMAIN v -> Seq(Roles)]

LEMMA VoicedPlaces ==
  ASSUME NEW s, NEW v, Voiced(s, v)
  PROVE  Len(s) \in Nat /\ \A i \in 1..Len(s) : s[i] \in DOMAIN v /\ v[s[i]] \in Seq(Roles)
<1>1. s \in Seq(DOMAIN v) /\ v \in [DOMAIN v -> Seq(Roles)]
  BY DEF Voiced
<1>2. Len(s) \in Nat /\ \A i \in 1..Len(s) : s[i] \in DOMAIN v
  BY <1>1
<1> QED BY <1>1, <1>2

LEMMA SomethingTells ==
  ASSUME NEW s, NEW v, Voiced(s, v)
  PROVE  \E g : Tells(g, s, v)
<1> DEFINE n == Len(s)
           step == [p \in (1..n) \X Seq(Roles) |-> p[2] \o v[s[p[1]]]]
<1>1. n \in Nat /\ <<>> \in Seq(Roles)
  BY VoicedPlaces
<1>2. ASSUME NEW i \in 1..n, NEW r \in Seq(Roles)
      PROVE  r \o v[s[i]] \in Seq(Roles) /\ step[<<i, r>>] = r \o v[s[i]]
  <2>1. v[s[i]] \in Seq(Roles)
    BY VoicedPlaces
  <2>2. r \o v[s[i]] \in Seq(Roles)
    BY <2>1
  <2> QED BY <2>2
<1>3. step \in [(1..n) \X Seq(Roles) -> Seq(Roles)]
  BY <1>2
<1> HIDE DEF step, n
<1>4. PICK g \in [0..n -> Seq(Roles)] : Iterates(g, n, <<>>, step)
  BY <1>1, <1>3, IterationExists
<1>5. ASSUME NEW i \in 1..n PROVE g[i] = g[i - 1] \o v[s[i]]
  <2>1. i - 1 \in 0..n
    BY <1>1
  <2>2. g[i - 1] \in Seq(Roles) /\ g[i] = step[<<i, g[i - 1]>>]
    BY <1>4, <2>1 DEF Iterates
  <2> QED BY <1>2, <2>2
<1>6. g[0] = <<>>
  BY <1>4 DEF Iterates
<1> QED BY <1>5, <1>6 DEF Tells, n

LEMMA TellsType ==
  ASSUME NEW s, NEW v, Voiced(s, v), NEW g, Tells(g, s, v)
  PROVE  \A i \in 0..Len(s) : g[i] \in Seq(Roles)
<1> DEFINE K == {i \in 0..Len(s) : g[i] \in Seq(Roles)}
<1>1. Len(s) \in Nat /\ <<>> \in Seq(Roles)
  BY VoicedPlaces
<1>2. 0 \in K
  <2>1. g[0] = <<>>
    BY DEF Tells
  <2>2. 0 \in 0..Len(s) /\ g[0] \in Seq(Roles)
    BY <1>1, <2>1
  <2> QED BY <2>2
<1>3. ASSUME NEW i \in 1..Len(s), i - 1 \in K PROVE i \in K
  <2>1. g[i - 1] \in Seq(Roles) /\ i \in 0..Len(s)
    BY <1>1, <1>3
  <2>2. v[s[i]] \in Seq(Roles)
    BY VoicedPlaces
  <2>3. g[i - 1] \o v[s[i]] \in Seq(Roles)
    BY <2>1, <2>2
  <2> QED BY <2>1, <2>3 DEF Tells
<1> HIDE DEF K
<1>4. 0..Len(s) \subseteq K
  BY <1>1, <1>2, <1>3, BoundedInduction
<1> QED BY <1>4 DEF K

(* Two lists whose first n messages say the same one by one have said the same by then. *)
Matches(s, v, r, w, n) ==
  /\ n \in Nat /\ Len(s) \in Nat /\ Len(r) \in Nat /\ n <= Len(s) /\ n <= Len(r)
  /\ \A i \in 1..n : v[s[i]] = w[r[i]]

LEMMA TellAlike ==
  ASSUME NEW s, NEW r, NEW n, NEW v, NEW w, Matches(s, v, r, w, n),
         NEW g, Tells(g, s, v), NEW f, Tells(f, r, w)
  PROVE  g[n] = f[n]
<1> DEFINE K == {i \in 0..n : g[i] = f[i]}
<1>5. /\ n \in Nat /\ Len(s) \in Nat /\ Len(r) \in Nat /\ n <= Len(s) /\ n <= Len(r)
      /\ \A i \in 1..n : v[s[i]] = w[r[i]]
  BY DEF Matches
<1>1. 0 \in K
  BY <1>5 DEF Tells
<1>2. ASSUME NEW i \in 1..n, i - 1 \in K PROVE i \in K
  <2>1. i \in 1..Len(s) /\ i \in 1..Len(r) /\ i \in 0..n /\ g[i - 1] = f[i - 1]
    BY <1>2, <1>5
  <2>2. g[i] = g[i - 1] \o v[s[i]] /\ f[i] = f[i - 1] \o w[r[i]]
    BY <2>1 DEF Tells
  <2> QED BY <1>5, <2>1, <2>2
<1> HIDE DEF K
<1>3. 0..n \subseteq K
  BY <1>1, <1>2, <1>5, BoundedInduction
<1>4. n \in K
  BY <1>3, <1>5
<1> QED BY <1>4 DEF K

LEMMA ToldIs ==
  ASSUME NEW s, Len(s) \in Nat, NEW v, NEW g, Tells(g, s, v)
  PROVE  g[Len(s)] = Told(s, v)
<1> DEFINE c == CHOOSE f : Tells(f, s, v)
           n == Len(s)
<1>1. Tells(c, s, v)
  OBVIOUS
<1>2. Told(s, v) = c[Len(s)]
  BY DEF Told
<1> HIDE DEF c
<1>3. Matches(s, v, s, v, n)
  BY DEF Matches
<1> HIDE DEF n
<1>4. g[n] = c[n]
  BY <1>1, <1>3, TellAlike
<1> QED BY <1>2, <1>4 DEF n

LEMMA ToldType ==
  ASSUME NEW s, NEW v, Voiced(s, v)
  PROVE  Told(s, v) \in Seq(Roles)
<1>1. PICK g : Tells(g, s, v)
  BY SomethingTells
<1>2. \A i \in 0..Len(s) : g[i] \in Seq(Roles)
  BY <1>1, TellsType
<1>3. Len(s) \in Nat /\ Len(s) \in 0..Len(s)
  BY VoicedPlaces
<1>4. g[Len(s)] = Told(s, v)
  BY <1>1, <1>3, ToldIs
<1> QED BY <1>2, <1>3, <1>4

LEMMA ToldAlike ==
  ASSUME NEW s, NEW v, Voiced(s, v), NEW r, NEW w, Voiced(r, w),
         Len(r) = Len(s), \A i \in 1..Len(s) : v[s[i]] = w[r[i]]
  PROVE  Told(r, w) = Told(s, v)
<1>1. PICK g : Tells(g, s, v)
  BY SomethingTells
<1>2. PICK f : Tells(f, r, w)
  BY SomethingTells
<1>3. Len(s) \in Nat /\ Len(r) \in Nat
  BY VoicedPlaces
<1>4. g[Len(s)] = Told(s, v) /\ f[Len(r)] = Told(r, w)
  BY <1>1, <1>2, <1>3, ToldIs
<1> DEFINE n == Len(s)
<1>5. Matches(s, v, r, w, n)
  BY <1>3 DEF Matches
<1> HIDE DEF n
<1>6. g[n] = f[n]
  BY <1>1, <1>2, <1>5, TellAlike
<1> QED BY <1>4, <1>6 DEF n

LEMMA ToldNothing ==
  ASSUME NEW v
  PROVE  Told(<<>>, v) = <<>>
<1> DEFINE g == [i \in {0} |-> <<>>]
           s == <<>>
<1>1. Len(s) = 0 /\ g[0] = <<>>
  OBVIOUS
<1> HIDE DEF g, s
<1>2. Tells(g, s, v)
  BY <1>1 DEF Tells
<1>3. g[Len(s)] = Told(s, v)
  BY <1>1, <1>2, ToldIs
<1> QED BY <1>1, <1>3 DEF s

LEMMA ToldAppend ==
  ASSUME NEW s, NEW v, Voiced(s, v), NEW x, x \in DOMAIN v
  PROVE  Voiced(Append(s, x), v) /\ Told(Append(s, x), v) = Told(s, v) \o v[x]
<1> DEFINE q == Append(s, x)
           n == Len(s)
<1>1. /\ q \in Seq(DOMAIN v) /\ Len(q) = n + 1 /\ q[n + 1] = x /\ (\A i \in 1..n : q[i] = s[i])
      /\ n \in Nat /\ n = Len(s)
  <2>1. s \in Seq(DOMAIN v)
    BY DEF Voiced
  <2> QED BY <2>1
<1> HIDE DEF q, n
<1>2. Voiced(q, v)
  BY <1>1 DEF Voiced
<1>3. PICK f : Tells(f, q, v)
  BY <1>2, SomethingTells
<1>4. PICK g : Tells(g, s, v)
  BY SomethingTells
<1>5. Len(q) \in Nat /\ Len(s) \in Nat /\ n <= Len(q) /\ n <= Len(s)
  BY <1>1
<1>6. f[Len(q)] = Told(q, v) /\ g[Len(s)] = Told(s, v)
  BY <1>3, <1>4, <1>5, ToldIs
<1>7. Matches(s, v, q, v, n)
  BY <1>1, <1>5 DEF Matches
<1>8. g[n] = f[n]
  BY <1>3, <1>4, <1>7, TellAlike
<1>9. f[n + 1] = f[n] \o v[x]
  <2>1. n + 1 \in 1..Len(q) /\ (n + 1) - 1 = n
    BY <1>1
  <2>2. f[n + 1] = f[(n + 1) - 1] \o v[q[n + 1]]
    BY <1>3, <2>1 DEF Tells
  <2> QED BY <1>1, <2>1, <2>2
<1>10. Told(q, v) = Told(s, v) \o v[x]
  BY <1>1, <1>6, <1>8, <1>9
<1> QED BY <1>2, <1>10 DEF q

LEMMA ToldOne ==
  ASSUME NEW v, NEW x, x \in DOMAIN v, v \in [DOMAIN v -> Seq(Roles)]
  PROVE  Voiced(<<x>>, v) /\ Told(<<x>>, v) = v[x]
<1> DEFINE s == <<>>
<1>1. s \in Seq(DOMAIN v) /\ Append(s, x) = <<x>>
  OBVIOUS
<1>2. Told(s, v) = <<>>
  BY ToldNothing
<1> HIDE DEF s
<1>3. Voiced(s, v)
  BY <1>1 DEF Voiced
<1>4. Voiced(Append(s, x), v) /\ Told(Append(s, x), v) = Told(s, v) \o v[x]
  BY <1>3, ToldAppend
<1>5. v[x] \in Seq(Roles)
  OBVIOUS
<1>6. \A r \in Seq(Roles) : <<>> \o r = r
  OBVIOUS
<1>7. <<>> \o v[x] = v[x]
  BY <1>5, <1>6
<1> QED BY <1>1, <1>2, <1>4, <1>7

LEMMA ToldConcat ==
  ASSUME NEW a, NEW b, NEW v, Voiced(a, v), Voiced(b, v)
  PROVE  Voiced(a \o b, v) /\ Told(a \o b, v) = Told(a, v) \o Told(b, v)
<1> DEFINE q == a \o b
           n == Len(a)
           m == Len(b)
<1>1. /\ q \in Seq(DOMAIN v) /\ Len(q) = n + m /\ n \in Nat /\ m \in Nat
      /\ (\A i \in 1..n : q[i] = a[i]) /\ (\A i \in 1..m : q[n + i] = b[i])
      /\ n = Len(a) /\ m = Len(b)
  <2>1. a \in Seq(DOMAIN v) /\ b \in Seq(DOMAIN v)
    BY DEF Voiced
  <2> QED BY <2>1, ConcatFacts
<1> HIDE DEF q, n, m
<1>2. Voiced(q, v)
  BY <1>1 DEF Voiced
<1>3. PICK f : Tells(f, q, v)
  BY <1>2, SomethingTells
<1>4. PICK g : Tells(g, a, v)
  BY SomethingTells
<1>5. PICK h : Tells(h, b, v)
  BY SomethingTells
<1>6. Len(q) \in Nat /\ Len(a) \in Nat /\ Len(b) \in Nat /\ n <= Len(q) /\ n <= Len(a)
  BY <1>1
<1>7. f[Len(q)] = Told(q, v) /\ g[Len(a)] = Told(a, v) /\ h[Len(b)] = Told(b, v)
  BY <1>3, <1>4, <1>5, <1>6, ToldIs
<1>8. f[n] = g[n]
  <2>1. Matches(a, v, q, v, n)
    BY <1>1, <1>6 DEF Matches
  <2>2. g[n] = f[n]
    BY <1>3, <1>4, <2>1, TellAlike
  <2> QED BY <2>2
<1>9. g[n] \in Seq(Roles)
  <2>1. Told(a, v) \in Seq(Roles)
    BY ToldType
  <2> QED BY <1>1, <1>7, <2>1
<1> DEFINE K == {i \in 0..m : f[n + i] = g[n] \o h[i]}
<1>10. 0 \in K
  <2>1. h[0] = <<>> /\ n + 0 = n /\ 0 \in 0..m
    BY <1>1, <1>5 DEF Tells
  <2>2. g[n] \o <<>> = g[n]
    BY <1>9
  <2> QED BY <1>8, <2>1, <2>2
<1>11. ASSUME NEW i \in 1..m, i - 1 \in K PROVE i \in K
  <2>1. f[n + (i - 1)] = g[n] \o h[i - 1] /\ i \in 0..m
    <3>1. i \in 0..m
      BY <1>1
    <3> QED BY <1>11, <3>1
  <2>2. n + i \in 1..Len(q) /\ (n + i) - 1 = n + (i - 1)
    BY <1>1
  <2>3. f[n + i] = f[n + (i - 1)] \o v[b[i]]
    <3>1. f[n + i] = f[(n + i) - 1] \o v[q[n + i]]
      BY <1>3, <2>2 DEF Tells
    <3> QED BY <1>1, <2>2, <3>1
  <2>4. i \in 1..Len(b) /\ i - 1 \in 0..Len(b)
    BY <1>1
  <2>5. h[i] = h[i - 1] \o v[b[i]]
    BY <1>5, <2>4 DEF Tells
  <2>6. h[i - 1] \in Seq(Roles)
    <3>1. \A j \in 0..Len(b) : h[j] \in Seq(Roles)
      BY <1>5, TellsType
    <3> QED BY <2>4, <3>1
  <2>7. v[b[i]] \in Seq(Roles)
    BY <2>4, VoicedPlaces
  <2>8. (g[n] \o h[i - 1]) \o v[b[i]] = g[n] \o (h[i - 1] \o v[b[i]])
    <3>1. \A x, y, z \in Seq(Roles) : (x \o y) \o z = x \o (y \o z)
      BY ConcatAssociative
    <3> QED BY <1>9, <2>6, <2>7, <3>1
  <2>9. f[n + i] = g[n] \o h[i]
    BY <2>1, <2>3, <2>5, <2>8
  <2> QED BY <2>1, <2>9
<1> HIDE DEF K
<1>12. 0..m \subseteq K
  BY <1>1, <1>10, <1>11, BoundedInduction
<1>13. m \in K
  BY <1>1, <1>12
<1>14. Told(q, v) = Told(a, v) \o Told(b, v)
  BY <1>1, <1>7, <1>13 DEF K
<1> QED BY <1>2, <1>14 DEF q

LEMMA ToldSilence ==
  ASSUME NEW s, NEW v, Voiced(s, v), \A i \in 1..Len(s) : v[s[i]] = <<>>
  PROVE  Told(s, v) = <<>>
<1>1. PICK g : Tells(g, s, v)
  BY SomethingTells
<1> DEFINE K == {i \in 0..Len(s) : g[i] = <<>>}
<1>2. Len(s) \in Nat
  BY VoicedPlaces
<1>3. 0 \in K
  BY <1>1, <1>2 DEF Tells
<1>4. ASSUME NEW i \in 1..Len(s), i - 1 \in K PROVE i \in K
  <2>1. g[i] = g[i - 1] \o v[s[i]]
    BY <1>1 DEF Tells
  <2>2. g[i - 1] = <<>> /\ v[s[i]] = <<>> /\ i \in 0..Len(s)
    BY <1>2, <1>4
  <2>3. <<>> \o <<>> = <<>>
    OBVIOUS
  <2> QED BY <2>1, <2>2, <2>3
<1> HIDE DEF K
<1>5. 0..Len(s) \subseteq K
  BY <1>2, <1>3, <1>4, BoundedInduction
<1>6. Len(s) \in K
  BY <1>2, <1>5
<1>7. g[Len(s)] = Told(s, v)
  BY <1>1, <1>2, ToldIs
<1> QED BY <1>6, <1>7 DEF K

SilentBut(s, v, I) == \A i \in 1..Len(s) : i \notin I => v[s[i]] = <<>>

(* Nothing is lost with what says nothing. *)
LEMMA ToldPicked ==
  ASSUME NEW s, NEW v, Voiced(s, v), NEW I, SilentBut(s, v, I)
  PROVE  Voiced(Picked(s, I), v) /\ Told(Picked(s, I), v) = Told(s, v)
<1>0. s \in Seq(DOMAIN v) /\ v \in [DOMAIN v -> Seq(Roles)]
  BY DEF Voiced
<1>1. PICK g : /\ g[0] = <<>>
               /\ \A i \in 1..Len(s) : g[i] = PickStep(s, I, g[i - 1], i)
               /\ \A i \in 0..Len(s) : g[i] \in Seq(DOMAIN v)
               /\ Picked(s, I) = g[Len(s)]
  BY <1>0, PickedIsIteration
<1>2. PICK f : Tells(f, s, v)
  BY SomethingTells
<1>3. Len(s) \in Nat
  BY VoicedPlaces
<1>4. \A j \in 0..Len(s) : f[j] \in Seq(Roles)
  BY <1>2, TellsType
<1> DEFINE K == {i \in 0..Len(s) : Voiced(g[i], v) /\ Told(g[i], v) = f[i]}
<1>5. 0 \in K
  <2>1. Told(<<>>, v) = <<>>
    BY ToldNothing
  <2>2. g[0] = <<>> /\ f[0] = <<>> /\ 0 \in 0..Len(s) /\ g[0] \in Seq(DOMAIN v)
    BY <1>1, <1>2, <1>3 DEF Tells
  <2>3. Voiced(g[0], v)
    BY <1>0, <2>2 DEF Voiced
  <2> QED BY <2>1, <2>2, <2>3
<1>6. ASSUME NEW i \in 1..Len(s), i - 1 \in K PROVE i \in K
  <2>1. i \in 0..Len(s) /\ i - 1 \in 0..Len(s)
    BY <1>3
  <2>2. PICK r : r = g[i - 1] /\ Voiced(r, v) /\ Told(r, v) = f[i - 1]
    BY <1>6
  <2>3. f[i] = f[i - 1] \o v[s[i]]
    BY <1>2 DEF Tells
  <2>4. g[i] = PickStep(s, I, r, i)
    BY <1>1, <2>2
  <2>5. CASE i \in I
    <3>1. PICK x : x = s[i] /\ x \in DOMAIN v /\ g[i] = Append(r, x)
      BY <2>4, <2>5, VoicedPlaces DEF PickStep
    <3>2. Voiced(Append(r, x), v) /\ Told(Append(r, x), v) = Told(r, v) \o v[x]
      <4>1. Voiced(r, v)
        BY <2>2
      <4>2. x \in DOMAIN v
        BY <3>1
      <4> QED BY <4>1, <4>2, ToldAppend
    <3> QED BY <2>1, <2>2, <2>3, <3>1, <3>2
  <2>6. CASE i \notin I
    <3>1. g[i] = r /\ v[s[i]] = <<>>
      BY <2>4, <2>6 DEF PickStep, SilentBut
    <3>2. f[i - 1] \o <<>> = f[i - 1]
      BY <1>4, <2>1
    <3> QED BY <2>1, <2>2, <2>3, <3>1, <3>2
  <2> QED BY <2>5, <2>6
<1> HIDE DEF K
<1>7. 0..Len(s) \subseteq K
  BY <1>3, <1>5, <1>6, BoundedInduction
<1>8. Len(s) \in K
  BY <1>3, <1>7
<1>9. f[Len(s)] = Told(s, v)
  BY <1>2, <1>3, ToldIs
<1> QED BY <1>1, <1>8, <1>9 DEF K

RolesIn(p, role) == [i \in DOMAIN p |-> role[p[i]]]

Speaks(v, H, role) == \A x \in DOMAIN v : v[x] = IF x \in H THEN <<role[x]>> ELSE <<>>

(* The roles of those who have something to say. *)
LEMMA PickedSays ==
  ASSUME NEW s, NEW v, Voiced(s, v), NEW role, NEW H, Speaks(v, H, role)
  PROVE  RolesIn(Picked(s, {i \in DOMAIN s : s[i] \in H}), role) = Told(s, v)
<1> DEFINE I == {i \in DOMAIN s : s[i] \in H}
<1>0. s \in Seq(DOMAIN v) /\ v \in [DOMAIN v -> Seq(Roles)]
  BY DEF Voiced
<1>10. \A i \in 1..Len(s) : i \in I <=> s[i] \in H
  BY <1>0
<1> HIDE DEF I
<1>1. PICK g : /\ g[0] = <<>>
               /\ \A i \in 1..Len(s) : g[i] = PickStep(s, I, g[i - 1], i)
               /\ \A i \in 0..Len(s) : g[i] \in Seq(DOMAIN v)
               /\ Picked(s, I) = g[Len(s)]
  BY <1>0, PickedIsIteration
<1>2. PICK f : Tells(f, s, v)
  BY SomethingTells
<1>3. Len(s) \in Nat
  BY VoicedPlaces
<1>4. \A j \in 0..Len(s) : f[j] \in Seq(Roles)
  BY <1>2, TellsType
<1> DEFINE K == {i \in 0..Len(s) : RolesIn(g[i], role) = f[i]}
<1>5. 0 \in K
  <2>1. RolesIn(<<>>, role) = <<>>
    BY DEF RolesIn
  <2>2. g[0] = <<>> /\ f[0] = <<>> /\ 0 \in 0..Len(s)
    BY <1>1, <1>2, <1>3 DEF Tells
  <2> QED BY <2>1, <2>2
<1>6. ASSUME NEW i \in 1..Len(s), i - 1 \in K PROVE i \in K
  <2>1. i \in 0..Len(s) /\ i - 1 \in 0..Len(s)
    BY <1>3
  <2>2. PICK r \in Seq(DOMAIN v) : r = g[i - 1] /\ RolesIn(r, role) = f[i - 1]
    BY <1>1, <1>6, <2>1
  <2>3. f[i] = f[i - 1] \o v[s[i]] /\ s[i] \in DOMAIN v
    BY <1>2, VoicedPlaces DEF Tells
  <2>4. g[i] = PickStep(s, I, r, i)
    BY <1>1, <2>2
  <2>5. CASE i \in I
    <3>1. g[i] = Append(r, s[i]) /\ v[s[i]] = <<role[s[i]]>>
      BY <1>10, <2>3, <2>4, <2>5 DEF PickStep, Speaks
    <3>2. \A y : RolesIn(Append(r, y), role) = RolesIn(r, role) \o <<role[y]>>
      BY DEF RolesIn
    <3>3. RolesIn(Append(r, s[i]), role) = RolesIn(r, role) \o <<role[s[i]]>>
      BY <3>2
    <3> QED BY <2>1, <2>2, <2>3, <3>1, <3>3
  <2>6. CASE i \notin I
    <3>1. g[i] = r /\ v[s[i]] = <<>>
      BY <1>10, <2>3, <2>4, <2>6 DEF PickStep, Speaks
    <3>2. f[i - 1] \o <<>> = f[i - 1]
      BY <1>4, <2>1
    <3> QED BY <2>1, <2>2, <2>3, <3>1, <3>2
  <2> QED BY <2>5, <2>6
<1> HIDE DEF K
<1>7. 0..Len(s) \subseteq K
  BY <1>3, <1>5, <1>6, BoundedInduction
<1>8. Len(s) \in K
  BY <1>3, <1>7
<1>9. f[Len(s)] = Told(s, v)
  BY <1>2, <1>3, ToldIs
<1>11. RolesIn(Picked(s, I), role) = Told(s, v)
  BY <1>1, <1>8, <1>9 DEF K
<1> QED BY <1>11 DEF I

-----------------------------------------------------------------------------
(* Messages of a request *)

OutPart == [kind : {"output"}, id : Id] \cup [kind : {"output"}]
Part    == [kind : {"text", "blank", "image", "bridge"}] \cup [kind : {"call"}, id : Id] \cup OutPart

TalkMsg    == [role : {"user", "assistant", "tool"}, parts : Seq(Part)]
ResultsMsg == [role : {"results"}, parts : Seq(OutPart)]
ReqMsg     == TalkMsg \cup ResultsMsg

Responses == {"gpt", "codex", "copilot"}

(* What is said by a message of a request, and by a message of the history. *)
Audible   == {m \in ReqMsg : Range(m.parts) \cap {Text, Image} # {}}
RoleOf    == [m \in ReqMsg |-> m.role]
Saying    == [m \in ReqMsg |-> IF m \in Audible THEN <<RoleOf[m]>> ELSE <<>>]

Speech(t) == {m \in Msg : ~IsTool(m) /\ (m.says \in {"text", "thought"} \/ (m.says = "image" /\ t \in Responses))}
WhoIs     == [m \in Msg |-> IF IsAssistant(m) THEN "assistant" ELSE "user"]
Speaking(t) == [m \in Msg |-> IF m \in Speech(t) THEN <<WhoIs[m]>> ELSE <<>>]

Heard(t)  == {m \in Speech(t) : ~Failed(m)}
Hearing(t) == [m \in Msg |-> IF m \in Heard(t) THEN <<WhoIs[m]>> ELSE <<>>]

LEMMA RoleIsRole ==
  /\ \A m \in ReqMsg : m.role \in Roles /\ m.parts \in Seq(Part)
  /\ \A m \in ResultsMsg : m.role = "results" /\ m.parts \in Seq(OutPart) /\ m \in ReqMsg
  /\ \A m \in ReqMsg : m.role = "results" => m \in ResultsMsg
<1>1. \A m \in TalkMsg : m.role \in Roles /\ m.role # "results" /\ m.parts \in Seq(Part)
  BY DEF TalkMsg, Roles
<1>2. \A m \in ResultsMsg : m.role = "results" /\ m.parts \in Seq(OutPart)
  BY DEF ResultsMsg
<1>3. Seq(OutPart) \subseteq Seq(Part)
  BY DEF Part
<1> QED BY <1>1, <1>2, <1>3 DEF ReqMsg, Roles

LEMMA SayingFacts ==
  /\ DOMAIN Saying = ReqMsg /\ Saying \in [ReqMsg -> Seq(Roles)] /\ Speaks(Saying, Audible, RoleOf)
<1>1. \A m \in ReqMsg : RoleOf[m] \in Roles
  BY RoleIsRole DEF RoleOf
<1>2. \A m \in ReqMsg : <<RoleOf[m]>> \in Seq(Roles) /\ <<>> \in Seq(Roles)
  BY <1>1
<1> QED BY <1>2 DEF Saying, Speaks

LEMMA HearingFacts ==
  ASSUME NEW t
  PROVE  /\ DOMAIN Hearing(t) = Msg /\ Hearing(t) \in [Msg -> Seq(Roles)]
         /\ DOMAIN Speaking(t) = Msg /\ Speaking(t) \in [Msg -> Seq(Roles)]
         /\ Speaks(Hearing(t), Heard(t), WhoIs)
<1>1. \A m \in Msg : WhoIs[m] \in Roles
  BY DEF WhoIs, Roles
<1>2. \A m \in Msg : <<WhoIs[m]>> \in Seq(Roles) /\ <<>> \in Seq(Roles)
  BY <1>1
<1> QED BY <1>2 DEF Hearing, Speaking, Speaks

LEMMA VoicedHistory ==
  ASSUME NEW s, s \in Seq(Msg), NEW t
  PROVE  Voiced(s, Hearing(t)) /\ Voiced(s, Speaking(t))
BY HearingFacts DEF Voiced

LEMMA VoicedRequest ==
  ASSUME NEW s, s \in Seq(ReqMsg)
  PROVE  Voiced(s, Saying)
BY SayingFacts DEF Voiced

LEMMA TalkSays ==
  ASSUME NEW r, r \in {"user", "assistant", "tool"}, NEW p, p \in Seq(Part)
  PROVE  /\ Message(r, p) \in ReqMsg
         /\ Message(r, p).role = r /\ Message(r, p).parts = p
         /\ Saying[Message(r, p)] = IF Text \in Range(p) \/ Image \in Range(p) THEN <<r>> ELSE <<>>
<1> DEFINE m == Message(r, p)
<1>1. m \in TalkMsg /\ m.role = r /\ m.parts = p
  BY DEF Message, TalkMsg
<1> HIDE DEF m
<1>2. m \in ReqMsg
  BY <1>1 DEF ReqMsg
<1>3. m \in Audible <=> (Text \in Range(p) \/ Image \in Range(p))
  BY <1>1, <1>2 DEF Audible
<1>4. Saying[m] = IF m \in Audible THEN <<r>> ELSE <<>>
  BY <1>1, <1>2 DEF Saying, RoleOf
<1> QED BY <1>1, <1>2, <1>3, <1>4 DEF m

LEMMA OnePart ==
  ASSUME NEW x
  PROVE  Range(<<x>>) = {x} /\ (x \in Part => <<x>> \in Seq(Part)) /\ (x \in OutPart => <<x>> \in Seq(OutPart))
BY DEF Range

LEMMA PartFacts ==
  /\ Text \in Part /\ Blank \in Part /\ Image \in Part /\ Bridge \in Part /\ Unnamed \in OutPart
  /\ \A id \in Id : Call(id) \in Part /\ Output(id) \in OutPart /\ Call(id) # Text /\ Call(id) # Image
  /\ Text # Image /\ Blank # Text /\ Blank # Image /\ Bridge # Text /\ Bridge # Image
  /\ \A x \in OutPart : x # Text /\ x # Image /\ x \in Part
<1>1. /\ Text \in Part /\ Blank \in Part /\ Image \in Part /\ Bridge \in Part
  BY DEF Text, Blank, Image, Bridge, Part
<1>2. Unnamed \in OutPart /\ \A id \in Id : Output(id) \in OutPart
  BY DEF Unnamed, Output, OutPart
<1>3. \A id \in Id : Call(id) \in Part /\ Call(id).kind = "call"
  BY DEF Call, Part
<1>4. Text.kind = "text" /\ Image.kind = "image" /\ Blank.kind = "blank" /\ Bridge.kind = "bridge"
  BY DEF Text, Image, Blank, Bridge
<1>5. \A x \in OutPart : x.kind = "output" /\ x \in Part
  BY DEF OutPart, Part
<1> QED BY <1>1, <1>2, <1>3, <1>4, <1>5

LEMMA ResultsSay ==
  ASSUME NEW m, m \in ResultsMsg
  PROVE  m \in ReqMsg /\ Saying[m] = <<>>
<1>1. m \in ReqMsg /\ m.parts \in Seq(OutPart)
  BY RoleIsRole
<1>2. \A i \in DOMAIN m.parts : m.parts[i] \in OutPart
  BY <1>1
<1>3. Range(m.parts) \cap {Text, Image} = {}
  BY <1>2, PartFacts DEF Range
<1>4. m \notin Audible
  BY <1>3 DEF Audible
<1> QED BY <1>1, <1>4 DEF Saying

LEMMA ConcatRange ==
  ASSUME NEW S, NEW a, a \in Seq(S), NEW b, b \in Seq(S)
  PROVE  Range(a \o b) = Range(a) \cup Range(b)
<1> DEFINE q == a \o b
<1>1. /\ q \in Seq(S) /\ Len(q) = Len(a) + Len(b)
      /\ (\A i \in 1..Len(a) : q[i] = a[i]) /\ (\A i \in 1..Len(b) : q[Len(a) + i] = b[i])
  BY ConcatFacts
<1> HIDE DEF q
<1>2. Len(a) \in Nat /\ Len(b) \in Nat /\ DOMAIN a = 1..Len(a) /\ DOMAIN b = 1..Len(b) /\ DOMAIN q = 1..Len(q)
  BY <1>1
<1>3. Range(a) \subseteq Range(q)
  BY <1>1, <1>2 DEF Range
<1>4. Range(b) \subseteq Range(q)
  <2> SUFFICES ASSUME NEW i \in 1..Len(b) PROVE b[i] \in Range(q)
    BY <1>2 DEF Range
  <2>1. Len(a) + i \in 1..Len(q) /\ q[Len(a) + i] = b[i]
    BY <1>1, <1>2
  <2> QED BY <1>2, <2>1 DEF Range
<1>5. Range(q) \subseteq Range(a) \cup Range(b)
  <2> SUFFICES ASSUME NEW i \in 1..Len(q) PROVE q[i] \in Range(a) \cup Range(b)
    BY <1>2 DEF Range
  <2>1. CASE i \in 1..Len(a)
    BY <1>1, <1>2, <2>1 DEF Range
  <2>2. CASE i \notin 1..Len(a)
    <3>0. i - Len(a) \in 1..Len(b)
      <4>1. Len(a) \in Nat /\ Len(b) \in Nat /\ i \in 1..(Len(a) + Len(b)) /\ i \notin 1..Len(a)
        BY <1>1, <1>2, <2>2
      <4> QED BY <4>1
    <3>1. PICK j \in 1..Len(b) : j = i - Len(a)
      BY <3>0
    <3>2. i = Len(a) + j
      <4>1. Len(a) \in Nat /\ i \in Nat /\ j \in Nat
        BY <1>2, <3>1
      <4> QED BY <3>1, <4>1
    <3>3. q[i] = b[j]
      BY <1>1, <3>1, <3>2
    <3> QED BY <1>2, <3>1, <3>3 DEF Range
  <2> QED BY <2>1, <2>2
<1> QED BY <1>3, <1>4, <1>5 DEF q

LEMMA OneTextFacts ==
  /\ <<Text>> \in Seq(Part) /\ <<Text>> # <<>> /\ Image \notin Range(<<Text>>) /\ Text \in Range(<<Text>>)
  /\ <<Blank>> \in Seq(Part) /\ <<Blank>> # <<>> /\ Image \notin Range(<<Blank>>) /\ Text \notin Range(<<Blank>>)
  /\ <<>> \in Seq(Part) /\ Image \notin Range(<<>>) /\ Text \notin Range(<<>>)
<1>1. <<Text>> \in Seq(Part) /\ <<Blank>> \in Seq(Part) /\ Range(<<Text>>) = {Text} /\ Range(<<Blank>>) = {Blank}
  BY OnePart, PartFacts
<1>2. <<Text>> # <<>> /\ <<Blank>> # <<>> /\ <<>> \in Seq(Part)
  OBVIOUS
<1>3. Range(<<>>) = {}
  BY DEF Range
<1>4. Image \notin {Text} /\ Image \notin {Blank} /\ Text \notin {Blank} /\ Text \in {Text}
  BY PartFacts
<1> QED BY <1>1, <1>2, <1>3, <1>4

LEMMA TextPartsFacts ==
  ASSUME NEW m
  PROVE  /\ TextParts(m) \in Seq(Part) /\ Image \notin Range(TextParts(m))
         /\ Text \in Range(TextParts(m)) <=> m.says \in {"text", "thought"}
         /\ TextParts(m) = <<>> <=> m.says \notin {"text", "thought"}
         /\ TextOrBlank(m) \in Seq(Part) /\ TextOrBlank(m) # <<>> /\ Image \notin Range(TextOrBlank(m))
         /\ Text \in Range(TextOrBlank(m)) <=> m.says \in {"text", "thought"}
<1> DEFINE a == <<Text>>
           b == <<Blank>>
           e == <<>>
<1>1. /\ a \in Seq(Part) /\ a # e /\ Image \notin Range(a) /\ Text \in Range(a)
      /\ b \in Seq(Part) /\ b # e /\ Image \notin Range(b) /\ Text \notin Range(b)
      /\ e \in Seq(Part) /\ Image \notin Range(e) /\ Text \notin Range(e)
  BY OneTextFacts
<1>2. TextParts(m) = IF m.says \in {"text", "thought"} THEN a ELSE e
  BY DEF TextParts
<1>3. TextOrBlank(m) = IF TextParts(m) = e THEN b ELSE TextParts(m)
  BY DEF TextOrBlank
<1>4. (TextParts(m) = <<>>) <=> (TextParts(m) = e)
  OBVIOUS
<1>5. (TextOrBlank(m) = <<>>) <=> (TextOrBlank(m) = e)
  OBVIOUS
<1> HIDE DEF a, b, e
<1>6. CASE m.says \in {"text", "thought"}
  <2>1. TextParts(m) = a /\ TextOrBlank(m) = a
    BY <1>1, <1>2, <1>3, <1>6
  <2> QED BY <1>1, <1>4, <1>5, <1>6, <2>1
<1>7. CASE m.says \notin {"text", "thought"}
  <2>1. TextParts(m) = e /\ TextOrBlank(m) = b
    BY <1>1, <1>2, <1>3, <1>7
  <2> QED BY <1>1, <1>4, <1>5, <1>7, <2>1
<1> QED BY <1>6, <1>7

LEMMA CallParts ==
  ASSUME NEW m, m \in AnswerMsg
  PROVE  LET p == TextParts(m) \o Each(m.calls, Call)
         IN /\ p \in Seq(Part) /\ Image \notin Range(p)
            /\ Text \in Range(p) <=> m.says \in {"text", "thought"}
<1> DEFINE a == TextParts(m)
           b == Each(m.calls, Call)
<1>1. a \in Seq(Part) /\ Image \notin Range(a) /\ (Text \in Range(a) <=> m.says \in {"text", "thought"})
  BY TextPartsFacts
<1>2. m.calls \in Seq(Id)
  BY DEF AnswerMsg
<1>3. b = [i \in DOMAIN m.calls |-> Call(m.calls[i])]
  BY DEF Each
<1> HIDE DEF a, b
<1>4. \A i \in DOMAIN m.calls : b[i] \in Part /\ b[i] # Text /\ b[i] # Image
  BY <1>2, <1>3, PartFacts
<1>5. b \in Seq(Part) /\ Text \notin Range(b) /\ Image \notin Range(b)
  <2>1. DOMAIN b = DOMAIN m.calls /\ DOMAIN m.calls = 1..Len(m.calls) /\ Len(m.calls) \in Nat
    BY <1>2, <1>3
  <2>2. b \in [1..Len(m.calls) -> Part]
    BY <1>3, <1>4, <2>1
  <2>3. b \in Seq(Part)
    BY <2>1, <2>2
  <2>4. \A i \in DOMAIN b : b[i] # Text /\ b[i] # Image
    BY <1>4, <2>1
  <2> QED BY <2>3, <2>4 DEF Range
<1>6. Range(a \o b) = Range(a) \cup Range(b) /\ a \o b \in Seq(Part)
  BY <1>1, <1>5, ConcatRange, ConcatFacts
<1> QED BY <1>1, <1>5, <1>6 DEF a, b

(* A message of the request says what the message it is made of says. *)
Conveys(t, m, out) == out \in ReqMsg /\ Saying[out] = Speaking(t)[m]

LEMMA SpeakingIs ==
  ASSUME NEW t, NEW m, m \in Msg
  PROVE  /\ IsTool(m) => Speaking(t)[m] = <<>>
         /\ IsAssistant(m) => Speaking(t)[m] = IF m.says \in {"text", "thought"} THEN <<"assistant">> ELSE <<>>
         /\ ~IsTool(m) /\ ~IsAssistant(m) =>
              Speaking(t)[m] = IF m.says = "text" \/ (m.says = "image" /\ t \in Responses) THEN <<"user">> ELSE <<>>
<1>1. Speaking(t)[m] = IF m \in Speech(t) THEN <<WhoIs[m]>> ELSE <<>>
  BY DEF Speaking
<1>2. WhoIs[m] = IF IsAssistant(m) THEN "assistant" ELSE "user"
  BY DEF WhoIs
<1>3. m \in Speech(t) <=> ~IsTool(m) /\ (m.says \in {"text", "thought"} \/ (m.says = "image" /\ t \in Responses))
  BY DEF Speech
<1>4. ~(IsAssistant(m) /\ IsTool(m)) /\ (IsAssistant(m) => m.says # "image")
  BY MsgKinds DEF AnswerMsg
<1>5. ~IsTool(m) /\ ~IsAssistant(m) => m.says # "thought"
  BY MsgKinds DEF UserMsg, SummaryMsg
<1> QED BY <1>1, <1>2, <1>3, <1>4, <1>5

-----------------------------------------------------------------------------
(* What the two passes leave is what was said. *)

LEMMA KeptTells ==
  ASSUME NEW t, NEW h, h \in Seq(Msg)
  PROVE  Told(Kept(h), Speaking(t)) = Told(h, Hearing(t))
<1> DEFINE v == Hearing(t)
           w == Speaking(t)
           I == {i \in DOMAIN h : Stays(h[i])}
           k == Kept(h)
<1>1. Voiced(h, v)
  BY VoicedHistory
<1>2. k = Picked(h, I) /\ k \in Seq(Msg)
  BY KeptType DEF Kept
<1>3. \A m \in Msg : v[m] = IF m \in Heard(t) THEN <<WhoIs[m]>> ELSE <<>>
  BY DEF Hearing
<1>4. \A m \in Msg : w[m] = IF m \in Speech(t) THEN <<WhoIs[m]>> ELSE <<>>
  BY DEF Speaking
<1>5. \A m \in Msg : m \in Heard(t) <=> (m \in Speech(t) /\ ~Failed(m))
  BY DEF Heard, Speech
<1>6. \A m \in Msg : Stays(m) <=> ~Failed(m)
  BY MsgKinds DEF Stays, Failed, AnswerMsg, Stops
<1>7. DOMAIN h = 1..Len(h) /\ Len(h) \in Nat /\ \A i \in 1..Len(h) : h[i] \in Msg
  OBVIOUS
<1>8. \A i \in 1..Len(h) : i \in I <=> Stays(h[i])
  BY <1>7
<1> HIDE DEF v, w, I, k
<1>9. SilentBut(h, v, I)
  BY <1>3, <1>5, <1>6, <1>7, <1>8 DEF SilentBut
<1>10. Told(Picked(h, I), v) = Told(h, v)
  BY <1>1, <1>9, ToldPicked
<1>11. \A i \in 1..Len(k) : v[k[i]] = w[k[i]]
  <2> SUFFICES ASSUME NEW i \in 1..Len(k) PROVE v[k[i]] = w[k[i]]
    OBVIOUS
  <2>1. PICK e : Embeds(e, k, h, I, Len(h))
    BY <1>2, PickedEmbeds
  <2>2. e[i] \in I /\ k[i] = h[e[i]] /\ e[i] \in 1..Len(h)
    BY <2>1 DEF Embeds
  <2>3. k[i] \in Msg /\ Stays(k[i])
    BY <1>7, <1>8, <2>2
  <2>4. PICK m : m = k[i] /\ m \in Msg /\ Stays(m)
    BY <2>3
  <2>5. m \in Heard(t) <=> m \in Speech(t)
    BY <1>5, <1>6, <2>4
  <2>6. v[m] = w[m]
    BY <1>3, <1>4, <2>4, <2>5
  <2> QED BY <2>4, <2>6
<1>12. Voiced(k, v) /\ Voiced(k, w)
  BY <1>2, VoicedHistory DEF v, w
<1>13. Told(k, w) = Told(k, v)
  BY <1>11, <1>12, ToldAlike
<1>14. Told(k, w) = Told(h, v)
  BY <1>2, <1>10, <1>13
<1> QED BY <1>14 DEF k, v, w

LEMMA FirstPassTells ==
  ASSUME NEW t, t \in Models, NEW h, h \in Seq(Msg)
  PROVE  Told(FirstPass(h, t), Speaking(t)) = Told(h, Hearing(t))
<1> DEFINE w == Speaking(t)
           k == Kept(h)
           p == FirstPass(h, t)
<1>1. k \in Seq(Msg)
  BY KeptType
<1>2. p \in Seq(Msg) /\ Len(p) = Len(k)
  BY FirstPassType
<1>3. Voiced(k, w) /\ Voiced(p, w)
  BY <1>1, <1>2, VoicedHistory
<1>4. ASSUME NEW i \in 1..Len(k)
      PROVE  /\ k[i] \in Msg /\ p[i] \in Msg
             /\ IsAssistant(p[i]) <=> IsAssistant(k[i])
             /\ IsTool(p[i]) <=> IsTool(k[i])
             /\ IsAssistant(k[i]) => p[i] = IF k[i].by # t THEN Foreign(k[i], t) ELSE k[i]
             /\ ~IsAssistant(k[i]) /\ ~IsTool(k[i]) => p[i] = k[i]
  BY <1>1, <1>2, FirstPassType
<1>5. Told(k, w) = Told(h, Hearing(t))
  BY KeptTells
<1> HIDE DEF w, k, p
<1>6. ASSUME NEW i \in 1..Len(k)
      PROVE  w[k[i]] = w[p[i]]
  <2>1. CASE IsTool(k[i])
    <3>1. w[k[i]] = <<>> /\ w[p[i]] = <<>>
      BY <1>4, <2>1, SpeakingIs DEF w
    <3> QED BY <3>1
  <2>2. CASE IsAssistant(k[i])
    <3>1. k[i] \in AnswerMsg /\ k[i] \in Msg /\ p[i] \in Msg /\ IsAssistant(p[i])
      BY <1>4, <2>2, MsgKinds
    <3>2. p[i].says \in {"text", "thought"} <=> k[i].says \in {"text", "thought"}
      <4>1. Foreign(k[i], t).says = IF k[i].says = "thought" THEN "text" ELSE k[i].says
        BY <3>1, ForeignType
      <4>2. p[i] = Foreign(k[i], t) \/ p[i] = k[i]
        BY <1>4, <2>2
      <4> QED BY <4>1, <4>2
    <3>3. w[k[i]] = IF k[i].says \in {"text", "thought"} THEN <<"assistant">> ELSE <<>>
      BY <2>2, <3>1, SpeakingIs DEF w
    <3>4. w[p[i]] = IF p[i].says \in {"text", "thought"} THEN <<"assistant">> ELSE <<>>
      BY <3>1, SpeakingIs DEF w
    <3> QED BY <3>2, <3>3, <3>4
  <2>3. CASE ~IsAssistant(k[i]) /\ ~IsTool(k[i])
    BY <1>4, <2>3
  <2> QED BY <2>1, <2>2, <2>3
<1>7. Told(p, w) = Told(k, w)
  BY <1>2, <1>3, <1>6, ToldAlike
<1> QED BY <1>5, <1>7 DEF p, w

LEMMA MissingSaysNothing ==
  ASSUME NEW t, NEW acc, acc \in Accs
  PROVE  Voiced(Missing(acc), Speaking(t)) /\ Told(Missing(acc), Speaking(t)) = <<>>
<1> DEFINE ms == Missing(acc)
           w == Speaking(t)
<1>1. ms \in Seq(Msg) /\ \A i \in 1..Len(ms) : ms[i] \in ToolMsg
  BY MissingType
<1>2. Voiced(ms, w)
  BY <1>1, VoicedHistory
<1>3. \A m \in ToolMsg : m \in Msg /\ IsTool(m)
  BY DEF ToolMsg, Msg, IsTool
<1> HIDE DEF ms
<1>4. ASSUME NEW i \in 1..Len(ms) PROVE w[ms[i]] = <<>>
  <2>1. ms[i] \in Msg /\ IsTool(ms[i])
    BY <1>1, <1>3
  <2> QED BY <2>1, SpeakingIs
<1> HIDE DEF w
<1>5. Told(ms, w) = <<>>
  BY <1>2, <1>4, ToldSilence
<1> QED BY <1>2, <1>5 DEF ms, w

LEMMA SecondPassTells ==
  ASSUME NEW t, NEW k, k \in Seq(Msg)
  PROVE  Told(SecondPass(k), Speaking(t)) = Told(k, Speaking(t))
<1> DEFINE w == Speaking(t)
<1>1. PICK g : /\ g[0] = Begun
               /\ \A i \in 1..Len(k) : g[i] = Step(g[i - 1], k[i])
               /\ \A i \in 0..Len(k) : g[i] \in Accs
               /\ SecondPass(k) = g[Len(k)].out
  BY SecondPassIsIteration
<1>2. Voiced(k, w)
  BY VoicedHistory
<1>3. PICK f : Tells(f, k, w)
  BY <1>2, SomethingTells
<1>4. Len(k) \in Nat
  OBVIOUS
<1>5. \A j \in 0..Len(k) : f[j] \in Seq(Roles)
  BY <1>2, <1>3, TellsType
<1>6. DOMAIN w = Msg
  BY HearingFacts
<1> HIDE DEF w
<1> DEFINE K == {i \in 0..Len(k) : Told(g[i].out, w) = f[i]}
<1>7. 0 \in K
  <2>1. g[0].out = <<>> /\ f[0] = <<>> /\ 0 \in 0..Len(k)
    BY <1>1, <1>3, <1>4 DEF Begun, Tells
  <2>2. Told(<<>>, w) = <<>>
    BY ToldNothing
  <2> QED BY <2>1, <2>2
<1>8. ASSUME NEW i \in 1..Len(k), i - 1 \in K PROVE i \in K
  <2>1. i \in 0..Len(k) /\ i - 1 \in 0..Len(k)
    BY <1>4
  <2>2. PICK acc : acc = g[i - 1] /\ acc \in Accs /\ Told(acc.out, w) = f[i - 1]
    BY <1>1, <1>8, <2>1
  <2>3. PICK m : m = k[i] /\ m \in Msg
    OBVIOUS
  <2>4. g[i] = Step(acc, m)
    BY <1>1, <2>2, <2>3
  <2>5. f[i] = f[i - 1] \o w[m]
    BY <1>3, <2>3 DEF Tells
  <2> DEFINE out == acc.out
             ms  == Missing(acc)
  <2>6. out \in Seq(Msg)
    BY <2>2 DEF Accs
  <2>7. Voiced(out, w)
    BY <2>6, VoicedHistory DEF w
  <2>8. Voiced(ms, w) /\ Told(ms, w) = <<>>
    BY <2>2, MissingSaysNothing DEF w
  <2>9. /\ IsTool(m) => Step(acc, m).out = Append(out, m)
        /\ ~IsTool(m) => Step(acc, m).out = Append(out \o ms, m)
    BY <2>2, <2>3, StepType
  <2>10. m \in DOMAIN w
    BY <1>6, <2>3
  <2> HIDE DEF out, ms
  <2>11. Told(Append(out, m), w) = Told(out, w) \o w[m]
    BY <2>7, <2>10, ToldAppend
  <2> DEFINE both == out \o ms
  <2>12. Voiced(both, w) /\ Told(both, w) = Told(out, w) \o Told(ms, w)
    <3>1. Voiced(ms, w)
      BY <2>8
    <3> QED BY <2>7, <3>1, ToldConcat
  <2> HIDE DEF both
  <2>13. Told(Append(both, m), w) = Told(both, w) \o w[m]
    BY <2>10, <2>12, ToldAppend
  <2>14. Told(both, w) = f[i - 1]
    <3>1. f[i - 1] \in Seq(Roles)
      BY <1>5, <2>1
    <3>2. \A r \in Seq(Roles) : r \o <<>> = r
      OBVIOUS
    <3>3. Told(out, w) = f[i - 1]
      BY <2>2 DEF out
    <3> QED BY <2>8, <2>12, <3>1, <3>2, <3>3
  <2>15. Told(g[i].out, w) = f[i]
    <3>1. CASE IsTool(m)
      BY <2>2, <2>4, <2>5, <2>9, <2>11, <3>1 DEF out
    <3>2. CASE ~IsTool(m)
      <4>1. g[i].out = Append(both, m)
        BY <2>4, <2>9, <3>2 DEF both
      <4> QED BY <2>5, <2>13, <2>14, <4>1
    <3> QED BY <3>1, <3>2
  <2> QED BY <2>1, <2>15
<1> HIDE DEF K
<1>9. 0..Len(k) \subseteq K
  BY <1>4, <1>7, <1>8, BoundedInduction
<1>10. Len(k) \in K
  BY <1>4, <1>9
<1>11. f[Len(k)] = Told(k, w)
  BY <1>3, <1>4, ToldIs
<1>12. Told(SecondPass(k), w) = Told(k, w)
  BY <1>1, <1>10, <1>11 DEF K
<1> QED BY <1>12 DEF w

(* What an adapter gets to send tells what the history does. *)
LEMMA TransformedTells ==
  ASSUME NEW t, t \in Models, NEW h, h \in Seq(Msg)
  PROVE  Told(Transformed(h, t), Speaking(t)) = Told(h, Hearing(t))
<1> DEFINE p == FirstPass(h, t)
<1>1. p \in Seq(Msg)
  BY FirstPassType
<1>2. Told(p, Speaking(t)) = Told(h, Hearing(t))
  BY FirstPassTells
<1> HIDE DEF p
<1>3. Told(SecondPass(p), Speaking(t)) = Told(p, Speaking(t))
  BY <1>1, SecondPassTells
<1> QED BY <1>2, <1>3 DEF Transformed, p

-----------------------------------------------------------------------------
(* The messages an adapter makes. *)

LEMMA AnswerConveys ==
  ASSUME NEW t, NEW m, m \in Msg, IsAssistant(m),
         NEW p, p \in Seq(Part), Image \notin Range(p),
         Text \in Range(p) <=> m.says \in {"text", "thought"}
  PROVE  Conveys(t, m, Message("assistant", p))
<1> DEFINE out == Message("assistant", p)
<1>1. out \in ReqMsg /\ Saying[out] = IF Text \in Range(p) \/ Image \in Range(p) THEN <<"assistant">> ELSE <<>>
  BY TalkSays
<1>2. Speaking(t)[m] = IF m.says \in {"text", "thought"} THEN <<"assistant">> ELSE <<>>
  BY SpeakingIs
<1> HIDE DEF out
<1>3. Saying[out] = Speaking(t)[m]
  BY <1>1, <1>2
<1>4. Conveys(t, m, out)
  BY <1>1, <1>3 DEF Conveys
<1> QED BY <1>4 DEF out

LEMMA UserConveys ==
  ASSUME NEW t, NEW m, m \in Msg, ~IsAssistant(m), ~IsTool(m),
         NEW p, p \in Seq(Part),
         (Text \in Range(p) \/ Image \in Range(p)) <=> (m.says = "text" \/ (m.says = "image" /\ t \in Responses))
  PROVE  Conveys(t, m, Message("user", p))
<1> DEFINE out == Message("user", p)
<1>1. out \in ReqMsg /\ Saying[out] = IF Text \in Range(p) \/ Image \in Range(p) THEN <<"user">> ELSE <<>>
  BY TalkSays
<1>2. Speaking(t)[m] = IF m.says = "text" \/ (m.says = "image" /\ t \in Responses) THEN <<"user">> ELSE <<>>
  BY SpeakingIs
<1> HIDE DEF out
<1>3. Saying[out] = Speaking(t)[m]
  BY <1>1, <1>2
<1>4. Conveys(t, m, out)
  BY <1>1, <1>3 DEF Conveys
<1> QED BY <1>4 DEF out

LEMMA ResultsConvey ==
  ASSUME NEW t, NEW m, m \in Msg, IsTool(m), NEW x, x \in OutPart
  PROVE  /\ Conveys(t, m, Message("results", <<x>>)) /\ Message("results", <<x>>) \in ResultsMsg
         /\ Conveys(t, m, Message("tool", <<x>>))
<1> DEFINE p == <<x>>
           a == Message("results", p)
           b == Message("tool", p)
<1>1. p \in Seq(OutPart) /\ p \in Seq(Part) /\ Range(p) = {x}
  BY OnePart, PartFacts
<1>2. x # Text /\ x # Image
  BY PartFacts
<1>3. Speaking(t)[m] = <<>>
  BY SpeakingIs
<1> HIDE DEF p
<1>4. a \in ResultsMsg
  BY <1>1 DEF Message, ResultsMsg
<1>5. b \in ReqMsg /\ Saying[b] = IF Text \in Range(p) \/ Image \in Range(p) THEN <<"tool">> ELSE <<>>
  BY <1>1, TalkSays
<1>6. Saying[b] = <<>>
  BY <1>1, <1>2, <1>5
<1> HIDE DEF a, b
<1>7. a \in ReqMsg /\ Saying[a] = <<>>
  BY <1>4, ResultsSay
<1>8. Conveys(t, m, a) /\ Conveys(t, m, b)
  BY <1>3, <1>5, <1>6, <1>7 DEF Conveys
<1> QED BY <1>4, <1>8 DEF a, b, p

LEMMA UserTextFacts ==
  ASSUME NEW m, m \in Msg, ~IsAssistant(m), ~IsTool(m)
  PROVE  m.says \in {"text", "thought"} <=> m.says = "text"
BY MsgKinds DEF UserMsg, SummaryMsg

LEMMA TextConveys ==
  ASSUME NEW t, t \notin Responses, NEW m, m \in Msg, ~IsAssistant(m), ~IsTool(m)
  PROVE  Conveys(t, m, Message("user", TextParts(m))) /\ Conveys(t, m, Message("user", TextOrBlank(m)))
<1> DEFINE a == TextParts(m)
           b == TextOrBlank(m)
<1>1. /\ a \in Seq(Part) /\ Image \notin Range(a) /\ (Text \in Range(a) <=> m.says \in {"text", "thought"})
      /\ b \in Seq(Part) /\ Image \notin Range(b) /\ (Text \in Range(b) <=> m.says \in {"text", "thought"})
  BY TextPartsFacts
<1>2. m.says \in {"text", "thought"} <=> m.says = "text"
  BY UserTextFacts
<1> HIDE DEF a, b
<1>3. (Text \in Range(a) \/ Image \in Range(a)) <=> (m.says = "text" \/ (m.says = "image" /\ t \in Responses))
  BY <1>1, <1>2
<1>4. (Text \in Range(b) \/ Image \in Range(b)) <=> (m.says = "text" \/ (m.says = "image" /\ t \in Responses))
  BY <1>1, <1>2
<1>5. Conveys(t, m, Message("user", a))
  BY <1>1, <1>3, UserConveys
<1>6. Conveys(t, m, Message("user", b))
  BY <1>1, <1>4, UserConveys
<1> QED BY <1>5, <1>6 DEF a, b

LEMMA OutputPart ==
  ASSUME NEW m, m \in Msg, IsTool(m)
  PROVE  Output(m.call) \in OutPart /\ Unnamed \in OutPart
<1>1. m.call \in Id
  BY MsgKinds DEF ToolMsg
<1> QED BY <1>1, PartFacts

LEMMA CallsConvey ==
  ASSUME NEW t, NEW m, m \in Msg, IsAssistant(m)
  PROVE  Conveys(t, m, Message("assistant", TextParts(m) \o Each(m.calls, Call)))
<1> DEFINE p == TextParts(m) \o Each(m.calls, Call)
<1>1. p \in Seq(Part) /\ Image \notin Range(p) /\ (Text \in Range(p) <=> m.says \in {"text", "thought"})
  <2>1. m \in AnswerMsg
    BY MsgKinds
  <2> QED BY <2>1, CallParts
<1> HIDE DEF p
<1>2. Conveys(t, m, Message("assistant", p))
  BY <1>1, AnswerConveys
<1> QED BY <1>2 DEF p

LEMMA AnthropicConveys ==
  ASSUME NEW t, t \notin Responses, NEW m, m \in Msg
  PROVE  Conveys(t, m, AnthropicMessage(m))
<1>1. CASE IsAssistant(m)
  <2> DEFINE p == TextParts(m) \o Each(m.calls, Call)
             q == IF p = <<>> THEN <<Blank>> ELSE p
  <2>1. p \in Seq(Part) /\ Image \notin Range(p) /\ (Text \in Range(p) <=> m.says \in {"text", "thought"})
    <3>1. m \in AnswerMsg
      BY <1>1, MsgKinds
    <3> QED BY <3>1, CallParts
  <2>0. ~IsTool(m)
    BY <1>1, MsgKinds
  <2>2. AnthropicMessage(m) = Message("assistant", q)
    BY <1>1, <2>0 DEF AnthropicMessage
  <2> HIDE DEF p
  <2>3. q \in Seq(Part) /\ Image \notin Range(q) /\ (Text \in Range(q) <=> m.says \in {"text", "thought"})
    <3>1. CASE p = <<>>
      <4>1. q = <<Blank>> /\ Text \notin Range(p)
        BY <3>1, OneTextFacts
      <4> QED BY <2>1, <4>1, OneTextFacts
    <3>2. CASE p # <<>>
      BY <2>1, <3>2
    <3> QED BY <3>1, <3>2
  <2> HIDE DEF q
  <2>4. Conveys(t, m, Message("assistant", q))
    BY <1>1, <2>3, AnswerConveys
  <2> QED BY <2>2, <2>4
<1>2. CASE IsTool(m)
  <2>1. ~IsAssistant(m)
    BY <1>2, MsgKinds
  <2>2. AnthropicMessage(m) = Message("results", <<Output(m.call)>>)
    BY <1>2, <2>1 DEF AnthropicMessage
  <2>3. Output(m.call) \in OutPart
    BY <1>2, OutputPart
  <2> QED BY <1>2, <2>2, <2>3, ResultsConvey
<1>3. CASE ~IsAssistant(m) /\ ~IsTool(m)
  <2>1. AnthropicMessage(m) = Message("user", TextOrBlank(m))
    BY <1>3 DEF AnthropicMessage
  <2> QED BY <1>3, <2>1, TextConveys
<1> QED BY <1>1, <1>2, <1>3

LEMMA BedrockConveys ==
  ASSUME NEW t, t \notin Responses, NEW m, m \in Msg
  PROVE  Conveys(t, m, BedrockMessage(m))
<1>1. CASE IsAssistant(m)
  <2>0. ~IsTool(m)
    BY <1>1, MsgKinds
  <2>1. BedrockMessage(m) = Message("assistant", TextParts(m) \o Each(m.calls, Call))
    BY <1>1, <2>0 DEF BedrockMessage
  <2> QED BY <1>1, <2>1, CallsConvey
<1>2. CASE IsTool(m)
  <2>1. ~IsAssistant(m)
    BY <1>2, MsgKinds
  <2>2. BedrockMessage(m) = Message("results", <<Output(m.call)>>)
    BY <1>2, <2>1 DEF BedrockMessage
  <2>3. Output(m.call) \in OutPart
    BY <1>2, OutputPart
  <2> QED BY <1>2, <2>2, <2>3, ResultsConvey
<1>3. CASE ~IsAssistant(m) /\ ~IsTool(m)
  <2>1. BedrockMessage(m) = Message("user", TextParts(m))
    BY <1>3 DEF BedrockMessage
  <2> QED BY <1>3, <2>1, TextConveys
<1> QED BY <1>1, <1>2, <1>3

LEMMA GoogleConveys ==
  ASSUME NEW t, t \notin Responses, NEW m, m \in Msg
  PROVE  Conveys(t, m, GoogleMessage(t, m))
<1>1. CASE IsAssistant(m)
  <2>0. ~IsTool(m)
    BY <1>1, MsgKinds
  <2>1. GoogleMessage(t, m) = Message("assistant", TextParts(m) \o Each(m.calls, Call))
    BY <1>1, <2>0 DEF GoogleMessage
  <2> QED BY <1>1, <2>1, CallsConvey
<1>2. CASE IsTool(m)
  <2>1. ~IsAssistant(m)
    BY <1>2, MsgKinds
  <2> DEFINE x == IF t = "claude-google" THEN Output(m.call) ELSE Unnamed
  <2>2. GoogleMessage(t, m) = Message("results", <<x>>)
    BY <1>2, <2>1 DEF GoogleMessage
  <2>3. x \in OutPart
    BY <1>2, OutputPart
  <2> HIDE DEF x
  <2> QED BY <1>2, <2>2, <2>3, ResultsConvey
<1>3. CASE ~IsAssistant(m) /\ ~IsTool(m)
  <2>1. GoogleMessage(t, m) = Message("user", TextOrBlank(m))
    BY <1>3 DEF GoogleMessage
  <2> QED BY <1>3, <2>1, TextConveys
<1> QED BY <1>1, <1>2, <1>3

LEMMA ChatConveys ==
  ASSUME NEW t, t \notin Responses, NEW m, m \in Msg
  PROVE  Conveys(t, m, ChatMessage(m))
<1>1. CASE IsAssistant(m)
  <2>0. ~IsTool(m)
    BY <1>1, MsgKinds
  <2>1. ChatMessage(m) = Message("assistant", TextParts(m) \o Each(m.calls, Call))
    BY <1>1, <2>0 DEF ChatMessage
  <2> QED BY <1>1, <2>1, CallsConvey
<1>2. CASE IsTool(m)
  <2>1. ~IsAssistant(m)
    BY <1>2, MsgKinds
  <2>2. ChatMessage(m) = Message("tool", <<Output(m.call)>>)
    BY <1>2, <2>1 DEF ChatMessage
  <2>3. Output(m.call) \in OutPart
    BY <1>2, OutputPart
  <2> QED BY <1>2, <2>2, <2>3, ResultsConvey
<1>3. CASE ~IsAssistant(m) /\ ~IsTool(m)
  <2>1. ChatMessage(m) = Message("user", TextOrBlank(m))
    BY <1>3 DEF ChatMessage
  <2> QED BY <1>3, <2>1, TextConveys
<1> QED BY <1>1, <1>2, <1>3

(* r is s, message by message. *)
Translates(t, s, r) ==
  r = [i \in DOMAIN s |-> r[i]] /\ \A i \in DOMAIN s : Conveys(t, s[i], r[i])

LEMMA TranslationTells ==
  ASSUME NEW t, NEW s, s \in Seq(Msg), NEW r, Translates(t, s, r)
  PROVE  r \in Seq(ReqMsg) /\ Len(r) = Len(s) /\ Told(r, Saying) = Told(s, Speaking(t))
<1> DEFINE v == Speaking(t)
           w == Saying
<1>1. DOMAIN s = 1..Len(s) /\ Len(s) \in Nat
  OBVIOUS
<1>2. /\ r = [i \in 1..Len(s) |-> r[i]]
      /\ \A i \in 1..Len(s) : r[i] \in ReqMsg /\ w[r[i]] = v[s[i]]
  BY <1>1 DEF Translates, Conveys
<1>3. r \in Seq(ReqMsg) /\ Len(r) = Len(s)
  BY <1>1, <1>2
<1>4. Voiced(s, v) /\ Voiced(r, w)
  BY <1>3, VoicedHistory, VoicedRequest
<1> HIDE DEF v, w
<1>5. \A i \in 1..Len(s) : v[s[i]] = w[r[i]]
  BY <1>2
<1>6. Told(r, w) = Told(s, v)
  BY <1>3, <1>4, <1>5, ToldAlike
<1> QED BY <1>3, <1>6 DEF v, w

-----------------------------------------------------------------------------
(* Gathering and leaving out. *)

Grown(m, p) == [m EXCEPT !.parts = p]

LEMMA GatherCases ==
  ASSUME NEW out, out \in Seq(ReqMsg), NEW m, m \in ReqMsg
  PROVE  \/ /\ out # <<>> /\ Len(out) \in 1..Len(out)
            /\ m \in ResultsMsg /\ out[Len(out)] \in ResultsMsg
            /\ Gather(out, m) = [out EXCEPT ![Len(out)] = Grown(out[Len(out)], out[Len(out)].parts \o m.parts)]
            /\ Grown(out[Len(out)], out[Len(out)].parts \o m.parts) \in ResultsMsg
         \/ /\ Gather(out, m) = Append(out, m)
            /\ ~(m.role = "results" /\ out # <<>> /\ out[Len(out)].role = "results")
<1> DEFINE n == Len(out)
<1>1. out # <<>> => n \in 1..n /\ out[n] \in ReqMsg
  OBVIOUS
<1>2. Last(out) = out[n]
  BY DEF Last
<1>3. CASE m.role = "results" /\ out # <<>> /\ out[n].role = "results"
  <2>1. PICK x : x = out[n] /\ x \in ResultsMsg /\ m \in ResultsMsg
    BY <1>1, <1>3, RoleIsRole
  <2> DEFINE p == x.parts \o m.parts
  <2>2. x.parts \in Seq(OutPart) /\ m.parts \in Seq(OutPart)
    BY <2>1, RoleIsRole
  <2>3. p \in Seq(OutPart)
    BY <2>2
  <2>4. Gather(out, m) = [out EXCEPT ![n] = Grown(x, p)]
    <3>1. Gather(out, m) = [out EXCEPT ![n].parts = @ \o m.parts]
      BY <1>2, <1>3 DEF Gather
    <3>2. [out EXCEPT ![n].parts = @ \o m.parts] = [out EXCEPT ![n] = Grown(out[n], out[n].parts \o m.parts)]
      BY DEF Grown
    <3> QED BY <2>1, <3>1, <3>2
  <2> HIDE DEF p
  <2>5. Grown(x, p) \in ResultsMsg
    BY <2>1, <2>3 DEF Grown, ResultsMsg
  <2> QED BY <1>1, <1>3, <2>1, <2>4, <2>5 DEF p
<1>4. CASE ~(m.role = "results" /\ out # <<>> /\ out[n].role = "results")
  <2>1. Gather(out, m) = Append(out, m)
    BY <1>2, <1>4 DEF Gather
  <2> QED BY <1>4, <2>1
<1> QED BY <1>3, <1>4

LEMMA GatherTells ==
  ASSUME NEW out, out \in Seq(ReqMsg), NEW m, m \in ReqMsg
  PROVE  Gather(out, m) \in Seq(ReqMsg) /\ Told(Gather(out, m), Saying) = Told(out, Saying) \o Saying[m]
<1> DEFINE n == Len(out)
           x == Grown(out[n], out[n].parts \o m.parts)
           q == [out EXCEPT ![n] = x]
<1>1. Voiced(out, Saying) /\ m \in DOMAIN Saying
  BY VoicedRequest, SayingFacts
<1>2. CASE Gather(out, m) = Append(out, m)
  <2>1. Told(Append(out, m), Saying) = Told(out, Saying) \o Saying[m]
    BY <1>1, ToldAppend
  <2> QED BY <1>2, <2>1
<1>3. CASE /\ out # <<>> /\ n \in 1..n
           /\ m \in ResultsMsg /\ out[n] \in ResultsMsg
           /\ Gather(out, m) = q /\ x \in ResultsMsg
  <2>0. x \in ReqMsg /\ Saying[x] = <<>> /\ Saying[m] = <<>> /\ Saying[out[n]] = <<>>
    BY <1>3, ResultsSay
  <2>1. q \in Seq(ReqMsg) /\ Len(q) = n /\ q[n] = x /\ \A i \in 1..n : i # n => q[i] = out[i]
    <3> HIDE DEF x
    <3> QED BY <1>3, <2>0
  <2>2. Voiced(q, Saying)
    BY <2>1, VoicedRequest
  <2> HIDE DEF q, x
  <2>3. \A i \in 1..Len(out) : Saying[out[i]] = Saying[q[i]]
    BY <2>0, <2>1
  <2>4. Told(q, Saying) = Told(out, Saying)
    BY <1>1, <2>1, <2>2, <2>3, ToldAlike
  <2>5. Told(out, Saying) \o <<>> = Told(out, Saying)
    <3>1. Told(out, Saying) \in Seq(Roles)
      BY <1>1, ToldType
    <3>2. \A r \in Seq(Roles) : r \o <<>> = r
      OBVIOUS
    <3> QED BY <3>1, <3>2
  <2> QED BY <1>3, <2>0, <2>1, <2>4, <2>5
<1> QED BY <1>2, <1>3, GatherCases

LEMMA GatheredIsIteration ==
  ASSUME NEW ms, ms \in Seq(ReqMsg)
  PROVE  \E g : /\ g[0] = <<>>
                /\ \A i \in 1..Len(ms) : g[i] = Gather(g[i - 1], ms[i])
                /\ \A i \in 0..Len(ms) : g[i] \in Seq(ReqMsg)
                /\ Gathered(ms) = g[Len(ms)]
<1> DEFINE n == Len(ms)
           V == Seq(ReqMsg)
           F(h) == [i \in 0..n |-> IF i = 0 THEN <<>> ELSE Gather(h[i - 1], ms[i])]
           g == CHOOSE h : h = F(h)
           step == [p \in (1..n) \X V |-> Gather(p[2], ms[p[1]])]
<1>1. n \in Nat /\ Gathered(ms) = g[n]
  BY DEF Gathered
<1>2. step \in [(1..n) \X V -> V]
  <2>1. ASSUME NEW i \in 1..n, NEW r \in V PROVE Gather(r, ms[i]) \in V
    <3>1. ms[i] \in ReqMsg
      OBVIOUS
    <3> QED BY <3>1, GatherTells
  <2> QED BY <2>1
<1>3. \A i \in 1..n, r \in V : step[<<i, r>>] = Gather(r, ms[i])
  OBVIOUS
<1>4. <<>> \in V
  OBVIOUS
<1> HIDE DEF n, step, V
<1>5. \E h : h = F(h)
  <2>2. PICK h \in [0..n -> V] : Iterates(h, n, <<>>, step)
    BY <1>1, <1>2, <1>4, IterationExists
  <2>3. ASSUME NEW i \in 1..n PROVE h[i] = Gather(h[i - 1], ms[i])
    <3>1. i - 1 \in 0..n
      BY <1>1
    <3>2. h[i - 1] \in V
      BY <2>2, <3>1
    <3>3. h[i] = step[<<i, h[i - 1]>>]
      BY <2>2 DEF Iterates
    <3> QED BY <1>3, <3>2, <3>3
  <2>4. h = [i \in 0..n |-> h[i]] /\ h[0] = <<>>
    BY <2>2 DEF Iterates
  <2>5. \A i \in 0..n : h[i] = IF i = 0 THEN <<>> ELSE Gather(h[i - 1], ms[i])
    <3>1. \A i \in 0..n : i # 0 => i \in 1..n
      BY <1>1
    <3> QED BY <2>3, <2>4, <3>1
  <2> QED BY <2>4, <2>5
<1>6. g = F(g)
  BY <1>5
<1> HIDE DEF g
<1>7. g[0] = <<>> /\ \A i \in 1..n : g[i] = Gather(g[i - 1], ms[i])
  <2>1. 0 \in 0..n /\ \A i \in 1..n : i \in 0..n /\ i # 0
    BY <1>1
  <2>2. \A i \in 0..n : g[i] = F(g)[i]
    BY <1>6
  <2> QED BY <2>1, <2>2
<1>8. \A i \in 0..n : g[i] \in V
  <2> DEFINE K == {i \in 0..n : g[i] \in V}
  <2>1. 0 \in K
    BY <1>1, <1>4, <1>7
  <2>2. ASSUME NEW i \in 1..n, i - 1 \in K PROVE i \in K
    <3>1. ms[i] \in ReqMsg /\ g[i - 1] \in Seq(ReqMsg) /\ i \in 0..n
      BY <1>1, <2>2 DEF n, V
    <3>2. PICK r : r = g[i - 1] /\ r \in Seq(ReqMsg)
      BY <3>1
    <3>3. Gather(r, ms[i]) \in V
      BY <3>1, <3>2, GatherTells DEF V
    <3> QED BY <1>7, <3>1, <3>2, <3>3
  <2> HIDE DEF K
  <2>3. 0..n \subseteq K
    BY <1>1, <2>1, <2>2, BoundedInduction
  <2> QED BY <2>3 DEF K
<1> QED BY <1>1, <1>7, <1>8 DEF n, V

LEMMA GatheredTells ==
  ASSUME NEW ms, ms \in Seq(ReqMsg)
  PROVE  Gathered(ms) \in Seq(ReqMsg) /\ Told(Gathered(ms), Saying) = Told(ms, Saying)
<1>1. PICK g : /\ g[0] = <<>>
               /\ \A i \in 1..Len(ms) : g[i] = Gather(g[i - 1], ms[i])
               /\ \A i \in 0..Len(ms) : g[i] \in Seq(ReqMsg)
               /\ Gathered(ms) = g[Len(ms)]
  BY GatheredIsIteration
<1>2. Voiced(ms, Saying)
  BY VoicedRequest
<1>3. PICK f : Tells(f, ms, Saying)
  BY <1>2, SomethingTells
<1>4. Len(ms) \in Nat
  OBVIOUS
<1> DEFINE K == {i \in 0..Len(ms) : Told(g[i], Saying) = f[i]}
<1>5. 0 \in K
  <2>1. g[0] = <<>> /\ f[0] = <<>> /\ 0 \in 0..Len(ms)
    BY <1>1, <1>3, <1>4 DEF Tells
  <2>2. Told(<<>>, Saying) = <<>>
    BY ToldNothing
  <2> QED BY <2>1, <2>2
<1>6. ASSUME NEW i \in 1..Len(ms), i - 1 \in K PROVE i \in K
  <2>1. i \in 0..Len(ms) /\ i - 1 \in 0..Len(ms)
    BY <1>4
  <2>2. PICK r : r = g[i - 1] /\ r \in Seq(ReqMsg) /\ Told(r, Saying) = f[i - 1]
    BY <1>1, <1>6, <2>1
  <2>3. PICK m : m = ms[i] /\ m \in ReqMsg
    OBVIOUS
  <2>4. g[i] = Gather(r, m) /\ f[i] = f[i - 1] \o Saying[m]
    BY <1>1, <1>3, <2>2, <2>3 DEF Tells
  <2>5. Told(Gather(r, m), Saying) = Told(r, Saying) \o Saying[m]
    BY <2>2, <2>3, GatherTells
  <2> QED BY <2>1, <2>2, <2>4, <2>5
<1> HIDE DEF K
<1>7. 0..Len(ms) \subseteq K
  BY <1>4, <1>5, <1>6, BoundedInduction
<1>8. Len(ms) \in K /\ Len(ms) \in 0..Len(ms)
  BY <1>4, <1>7
<1>9. f[Len(ms)] = Told(ms, Saying)
  BY <1>3, <1>4, ToldIs
<1> QED BY <1>1, <1>8, <1>9 DEF K

LEMMA EmptySaysNothing ==
  ASSUME NEW m, m \in ReqMsg, m.parts = <<>>
  PROVE  Saying[m] = <<>>
<1>1. Range(<<>>) = {}
  BY DEF Range
<1>2. Range(m.parts) \cap {Text, Image} = {}
  BY <1>1
<1>3. m \notin Audible
  BY <1>2 DEF Audible
<1> QED BY <1>3 DEF Saying

LEMMA FilledTells ==
  ASSUME NEW ms, ms \in Seq(ReqMsg)
  PROVE  Filled(ms) \in Seq(ReqMsg) /\ Told(Filled(ms), Saying) = Told(ms, Saying)
<1> DEFINE I == {i \in DOMAIN ms : ms[i].parts # <<>>}
           v == Saying
<1>1. Filled(ms) = Picked(ms, I) /\ Filled(ms) \in Seq(ReqMsg)
  BY PickedEmbeds DEF Filled
<1>2. Voiced(ms, v)
  BY VoicedRequest
<1>3. \A i \in 1..Len(ms) : ms[i] \in ReqMsg /\ (i \notin I => ms[i].parts = <<>>)
  OBVIOUS
<1> HIDE DEF I, v
<1>4. ASSUME NEW i \in 1..Len(ms), i \notin I PROVE v[ms[i]] = <<>>
  <2>1. ms[i] \in ReqMsg /\ ms[i].parts = <<>>
    BY <1>3, <1>4
  <2> QED BY <2>1, EmptySaysNothing DEF v
<1>5. SilentBut(ms, v, I)
  BY <1>4 DEF SilentBut
<1>6. Told(Picked(ms, I), v) = Told(ms, v)
  BY <1>2, <1>5, ToldPicked
<1> QED BY <1>1, <1>6 DEF v

LEMMA PlaceholderTells ==
  ASSUME NEW ms, ms \in Seq(ReqMsg)
  PROVE  OrPlaceholder(ms) \in Seq(ReqMsg) /\ Told(OrPlaceholder(ms), Saying) = Told(ms, Saying)
<1>1. CASE ms = <<>>
  <2> DEFINE p == <<Blank>>
             x == Message("user", p)
  <2>1. p \in Seq(Part) /\ Text \notin Range(p) /\ Image \notin Range(p)
    BY OneTextFacts
  <2> HIDE DEF p
  <2>2. x \in ReqMsg /\ Saying[x] = <<>>
    BY <2>1, TalkSays
  <2>3. OrPlaceholder(ms) = <<x>>
    BY <1>1 DEF OrPlaceholder, p
  <2> HIDE DEF x
  <2>4. <<x>> \in Seq(ReqMsg)
    BY <2>2
  <2>5. Told(<<x>>, Saying) = Saying[x]
    BY <2>2, SayingFacts, ToldOne
  <2>6. Told(ms, Saying) = <<>>
    BY <1>1, ToldNothing
  <2> QED BY <2>2, <2>3, <2>4, <2>5, <2>6
<1>2. CASE ms # <<>>
  BY <1>2 DEF OrPlaceholder
<1> QED BY <1>1, <1>2

LEMMA SpeakersAreTold ==
  ASSUME NEW r, r \in Seq(ReqMsg)
  PROVE  Speakers(r) = Told(r, Saying)
<1> DEFINE I == {i \in DOMAIN r : Range(r[i].parts) \cap {Text, Image} # {}}
           J == {i \in DOMAIN r : r[i] \in Audible}
           p == Picked(r, J)
<1>1. \A i \in DOMAIN r : r[i] \in ReqMsg
  OBVIOUS
<1>2. I = J
  BY <1>1 DEF Audible
<1>3. Voiced(r, Saying) /\ Speaks(Saying, Audible, RoleOf)
  BY VoicedRequest, SayingFacts
<1>4. RolesIn(p, RoleOf) = Told(r, Saying)
  <2>1. Speaks(Saying, Audible, RoleOf)
    BY <1>3
  <2> QED BY <1>3, <2>1, PickedSays
<1>5. p \in Seq(ReqMsg)
  BY PickedEmbeds
<1>6. Speakers(r) = [i \in DOMAIN p |-> p[i].role]
  <2> HIDE DEF I, J
  <2> QED BY <1>2 DEF Speakers, Each, I
<1> HIDE DEF p
<1>7. \A i \in DOMAIN p : RoleOf[p[i]] = p[i].role
  BY <1>5 DEF RoleOf
<1>8. RolesIn(p, RoleOf) = [i \in DOMAIN p |-> p[i].role]
  BY <1>7 DEF RolesIn
<1> QED BY <1>4, <1>6, <1>8

-----------------------------------------------------------------------------
(* Anthropic, Bedrock and Google *)

LEMMA AnthropicTells ==
  ASSUME NEW t, t \in Models, t \notin Responses, NEW h, h \in Seq(Msg)
  PROVE  AnthropicMessages(h, t) \in Seq(ReqMsg) /\ Told(AnthropicMessages(h, t), Saying) = Told(h, Hearing(t))
<1> DEFINE s == Transformed(h, t)
           r == Each(s, AnthropicMessage)
<1>1. s \in Seq(Msg) /\ Told(s, Speaking(t)) = Told(h, Hearing(t))
  BY TransformedType, TransformedTells
<1>2. AnthropicMessages(h, t) = Gathered(r)
  BY DEF AnthropicMessages
<1>3. r = [i \in DOMAIN s |-> AnthropicMessage(s[i])]
  BY DEF Each
<1> HIDE DEF s, r
<1>4. \A i \in DOMAIN s : s[i] \in Msg
  BY <1>1
<1>5. Translates(t, s, r)
  BY <1>3, <1>4, AnthropicConveys DEF Translates
<1>6. r \in Seq(ReqMsg) /\ Told(r, Saying) = Told(s, Speaking(t))
  BY <1>1, <1>5, TranslationTells
<1>7. Gathered(r) \in Seq(ReqMsg) /\ Told(Gathered(r), Saying) = Told(r, Saying)
  BY <1>6, GatheredTells
<1> QED BY <1>1, <1>2, <1>6, <1>7

LEMMA BedrockTells ==
  ASSUME NEW t, t \in Models, t \notin Responses, NEW h, h \in Seq(Msg)
  PROVE  BedrockMessages(h, t) \in Seq(ReqMsg) /\ Told(BedrockMessages(h, t), Saying) = Told(h, Hearing(t))
<1> DEFINE s == Transformed(h, t)
           r == Each(s, BedrockMessage)
           g == Gathered(r)
           f == Filled(g)
<1>1. s \in Seq(Msg) /\ Told(s, Speaking(t)) = Told(h, Hearing(t))
  BY TransformedType, TransformedTells
<1>2. BedrockMessages(h, t) = OrPlaceholder(f)
  BY DEF BedrockMessages
<1>3. r = [i \in DOMAIN s |-> BedrockMessage(s[i])]
  BY DEF Each
<1> HIDE DEF s, r
<1>4. \A i \in DOMAIN s : s[i] \in Msg
  BY <1>1
<1>5. Translates(t, s, r)
  BY <1>3, <1>4, BedrockConveys DEF Translates
<1>6. r \in Seq(ReqMsg) /\ Told(r, Saying) = Told(s, Speaking(t))
  BY <1>1, <1>5, TranslationTells
<1>7. g \in Seq(ReqMsg) /\ Told(g, Saying) = Told(r, Saying)
  BY <1>6, GatheredTells
<1> HIDE DEF g
<1>8. f \in Seq(ReqMsg) /\ Told(f, Saying) = Told(g, Saying)
  BY <1>7, FilledTells
<1> HIDE DEF f
<1>9. OrPlaceholder(f) \in Seq(ReqMsg) /\ Told(OrPlaceholder(f), Saying) = Told(f, Saying)
  BY <1>8, PlaceholderTells
<1> QED BY <1>1, <1>2, <1>6, <1>7, <1>8, <1>9

LEMMA GoogleTells ==
  ASSUME NEW t, t \in Models, t \notin Responses, NEW h, h \in Seq(Msg)
  PROVE  GoogleMessages(h, t) \in Seq(ReqMsg) /\ Told(GoogleMessages(h, t), Saying) = Told(h, Hearing(t))
<1> DEFINE s == Transformed(h, t)
           r == [i \in DOMAIN s |-> GoogleMessage(t, s[i])]
           g == Gathered(r)
           f == Filled(g)
<1>1. s \in Seq(Msg) /\ Told(s, Speaking(t)) = Told(h, Hearing(t))
  BY TransformedType, TransformedTells
<1>2. GoogleMessages(h, t) = OrPlaceholder(f)
  BY DEF GoogleMessages, Each
<1>3. r = [i \in DOMAIN s |-> GoogleMessage(t, s[i])]
  OBVIOUS
<1> HIDE DEF s, r
<1>4. \A i \in DOMAIN s : s[i] \in Msg
  BY <1>1
<1>5. Translates(t, s, r)
  BY <1>3, <1>4, GoogleConveys DEF Translates
<1>6. r \in Seq(ReqMsg) /\ Told(r, Saying) = Told(s, Speaking(t))
  BY <1>1, <1>5, TranslationTells
<1>7. g \in Seq(ReqMsg) /\ Told(g, Saying) = Told(r, Saying)
  BY <1>6, GatheredTells
<1> HIDE DEF g
<1>8. f \in Seq(ReqMsg) /\ Told(f, Saying) = Told(g, Saying)
  BY <1>7, FilledTells
<1> HIDE DEF f
<1>9. OrPlaceholder(f) \in Seq(ReqMsg) /\ Told(OrPlaceholder(f), Saying) = Told(f, Saying)
  BY <1>8, PlaceholderTells
<1> QED BY <1>1, <1>2, <1>6, <1>7, <1>8, <1>9

-----------------------------------------------------------------------------
(* Chat Completions *)

ChatAccs == [out : Seq(ReqMsg), last : Roles \cup {""}]

LEMMA ChatAccFacts ==
  ASSUME NEW p, NEW l, NEW c, c = [out |-> p, last |-> l]
  PROVE  /\ c.out = p /\ c.last = l
         /\ p \in Seq(ReqMsg) /\ l \in Roles \cup {""} => c \in ChatAccs
BY DEF ChatAccs

LEMMA ChatMessageRole ==
  ASSUME NEW m, m \in Msg
  PROVE  /\ ChatMessage(m).role = IF IsAssistant(m) THEN "assistant" ELSE IF IsTool(m) THEN "tool" ELSE "user"
         /\ ~IsAssistant(m) => ChatMessage(m).parts # <<>>
<1>1. CASE IsAssistant(m)
  <2>1. ~IsTool(m)
    BY <1>1, MsgKinds
  <2> QED BY <1>1, <2>1 DEF ChatMessage, Message
<1>2. CASE IsTool(m)
  <2>1. ~IsAssistant(m)
    BY <1>2, MsgKinds
  <2>2. ChatMessage(m) = Message("tool", <<Output(m.call)>>)
    BY <1>2, <2>1 DEF ChatMessage
  <2>3. \A x : <<x>> # <<>>
    OBVIOUS
  <2> QED BY <1>2, <2>1, <2>2, <2>3 DEF Message
<1>3. CASE ~IsAssistant(m) /\ ~IsTool(m)
  <2>1. ChatMessage(m) = Message("user", TextOrBlank(m))
    BY <1>3 DEF ChatMessage
  <2>2. TextOrBlank(m) # <<>>
    BY TextPartsFacts
  <2> QED BY <1>3, <2>1, <2>2 DEF Message
<1> QED BY <1>1, <1>2, <1>3

BridgeMessage == Message("assistant", <<Bridge>>)

LEMMA BridgeSaysNothing == BridgeMessage \in ReqMsg /\ BridgeMessage.role = "assistant" /\ Saying[BridgeMessage] = <<>>
<1> DEFINE p == <<Bridge>>
<1>1. p \in Seq(Part) /\ Range(p) = {Bridge}
  BY OnePart, PartFacts
<1>2. Text \notin Range(p) /\ Image \notin Range(p)
  BY <1>1, PartFacts
<1>3. BridgeMessage = Message("assistant", p)
  BY DEF BridgeMessage
<1> HIDE DEF p
<1> QED BY <1>1, <1>2, <1>3, TalkSays

(* An empty answer is left out, a bridge put in where one is wanted. *)
LEMMA ChatStepCases ==
  ASSUME NEW t, t \notin Responses, NEW acc, acc \in ChatAccs, NEW m, m \in Msg
  PROVE  \/ ChatStep(t, acc, m) = acc /\ ChatMessage(m).parts = <<>>
         \/ /\ ChatStep(t, acc, m) = [out |-> Append(acc.out, ChatMessage(m)), last |-> ChatMessage(m).role]
            /\ ~(t \in Bridging /\ acc.last = "tool" /\ ChatMessage(m).role = "user")
         \/ /\ ChatStep(t, acc, m) = [out |-> Append(Append(acc.out, BridgeMessage), ChatMessage(m)),
                                      last |-> ChatMessage(m).role]
            /\ t \in Bridging
            /\ ChatMessage(m).role = "user"
<1> DEFINE x == ChatMessage(m)
           o == acc.out
           b == Bridged(t, acc.last, x)
           bridged == t \in Bridging /\ acc.last = "tool" /\ x.role = "user"
<1>0. x.role = IF IsAssistant(m) THEN "assistant" ELSE IF IsTool(m) THEN "tool" ELSE "user"
  BY ChatMessageRole
<1>1. o \in Seq(ReqMsg) /\ acc = [out |-> o, last |-> acc.last]
  BY DEF ChatAccs
<1>2. b = IF bridged THEN <<BridgeMessage>> ELSE <<>>
  BY DEF Bridged, BridgeMessage
<1>3. ChatStep(t, acc, m) = IF x.parts = <<>> THEN [acc EXCEPT !.out = o \o b]
                            ELSE [out |-> Append(o \o b, x), last |-> x.role]
  BY DEF ChatStep
<1>4. bridged => x.parts # <<>>
  <2>1. x.role = "user" => ~IsAssistant(m)
    BY <1>0
  <2> QED BY <2>1, ChatMessageRole
<1> HIDE DEF x, b
<1>5. o \o <<>> = o /\ o \o <<BridgeMessage>> = Append(o, BridgeMessage)
  BY <1>1, BridgeSaysNothing
<1> HIDE DEF o
<1>6. CASE bridged
  BY <1>2, <1>3, <1>4, <1>5, <1>6 DEF o, x
<1>7. CASE ~bridged
  <2>1. o \o b = o
    BY <1>2, <1>5, <1>7
  <2>2. CASE x.parts = <<>>
    <3>1. [acc EXCEPT !.out = o] = acc
      BY <1>1
    <3> QED BY <1>3, <2>1, <2>2, <3>1 DEF x
  <2>3. CASE x.parts # <<>>
    BY <1>3, <1>7, <2>1, <2>3 DEF o, x
  <2> QED BY <2>2, <2>3
<1> QED BY <1>6, <1>7

LEMMA ChatStepTells ==
  ASSUME NEW t, t \notin Responses, NEW acc, acc \in ChatAccs, NEW m, m \in Msg
  PROVE  ChatStep(t, acc, m) \in ChatAccs /\ Told(ChatStep(t, acc, m).out, Saying) = Told(acc.out, Saying) \o Speaking(t)[m]
<1> DEFINE x == ChatMessage(m)
           o == acc.out
           w == Speaking(t)[m]
<1>1. x \in ReqMsg /\ Saying[x] = w
  BY ChatConveys DEF Conveys
<1>2. x.role \in Roles \cup {""}
  BY <1>1, RoleIsRole
<1>3. o \in Seq(ReqMsg)
  BY DEF ChatAccs
<1>4. Voiced(o, Saying) /\ DOMAIN Saying = ReqMsg /\ Told(o, Saying) \in Seq(Roles)
  BY <1>3, VoicedRequest, ToldType, SayingFacts
<1>5. \A r \in Seq(Roles) : r \o <<>> = r
  OBVIOUS
<1> HIDE DEF x, o, w
<1>6. CASE ChatStep(t, acc, m) = acc /\ x.parts = <<>>
  <2>1. w = <<>>
    BY <1>1, <1>6, EmptySaysNothing
  <2> QED BY <1>4, <1>5, <1>6, <2>1 DEF o, w
<1>7. CASE ChatStep(t, acc, m) = [out |-> Append(o, x), last |-> x.role]
  <2>1. Told(Append(o, x), Saying) = Told(o, Saying) \o Saying[x]
    BY <1>1, <1>4, ToldAppend
  <2>2. Append(o, x) \in Seq(ReqMsg)
    BY <1>1, <1>3
  <2> DEFINE p == Append(o, x)
             l == x.role
  <2> HIDE DEF p, l
  <2>3. ChatStep(t, acc, m) = [out |-> p, last |-> l]
    BY <1>7 DEF p, l
  <2>4. ChatStep(t, acc, m) \in ChatAccs /\ ChatStep(t, acc, m).out = p
    <3>1. PICK c : c = ChatStep(t, acc, m) /\ c = [out |-> p, last |-> l]
      BY <2>3
    <3>2. p \in Seq(ReqMsg) /\ l \in Roles \cup {""}
      BY <1>2, <2>2 DEF p, l
    <3>3. c \in ChatAccs /\ c.out = p
      <4>1. c = [out |-> p, last |-> l]
        BY <3>1
      <4> QED BY <3>2, <4>1, ChatAccFacts
    <3> QED BY <3>1, <3>3
  <2> QED BY <1>1, <2>1, <2>4 DEF o, p, w
<1>8. CASE ChatStep(t, acc, m) = [out |-> Append(Append(o, BridgeMessage), x), last |-> x.role]
  <2> DEFINE q == Append(o, BridgeMessage)
  <2>1. q \in Seq(ReqMsg)
    BY <1>3, BridgeSaysNothing
  <2>2. Told(q, Saying) = Told(o, Saying) \o Saying[BridgeMessage]
    BY <1>4, BridgeSaysNothing, ToldAppend
  <2>3. Told(q, Saying) = Told(o, Saying)
    BY <1>4, <1>5, <2>2, BridgeSaysNothing
  <2> HIDE DEF q
  <2>4. Voiced(q, Saying)
    BY <2>1, VoicedRequest
  <2>5. Told(Append(q, x), Saying) = Told(q, Saying) \o Saying[x]
    BY <1>1, <1>4, <2>4, ToldAppend
  <2>6. Append(q, x) \in Seq(ReqMsg)
    BY <1>1, <2>1
  <2> DEFINE p == Append(q, x)
             l == x.role
  <2> HIDE DEF p, l
  <2>7. ChatStep(t, acc, m) = [out |-> p, last |-> l]
    BY <1>8 DEF p, l, q
  <2>8. ChatStep(t, acc, m) \in ChatAccs /\ ChatStep(t, acc, m).out = p
    <3>1. PICK c : c = ChatStep(t, acc, m) /\ c = [out |-> p, last |-> l]
      BY <2>7
    <3>2. p \in Seq(ReqMsg) /\ l \in Roles \cup {""}
      BY <1>2, <2>6 DEF p, l
    <3>3. c \in ChatAccs /\ c.out = p
      <4>1. c = [out |-> p, last |-> l]
        BY <3>1
      <4> QED BY <3>2, <4>1, ChatAccFacts
    <3> QED BY <3>1, <3>3
  <2> QED BY <1>1, <2>3, <2>5, <2>8 DEF o, p, w
<1>9. \/ ChatStep(t, acc, m) = acc /\ x.parts = <<>>
      \/ ChatStep(t, acc, m) = [out |-> Append(o, x), last |-> x.role]
      \/ ChatStep(t, acc, m) = [out |-> Append(Append(o, BridgeMessage), x), last |-> x.role]
  BY ChatStepCases DEF o, x
<1> QED BY <1>6, <1>7, <1>8, <1>9

ChatBegun == [out |-> <<>>, last |-> ""]

LEMMA ChatIsIteration ==
  ASSUME NEW t, t \in Models, t \notin Responses, NEW h, h \in Seq(Msg)
  PROVE  \E g : /\ g[0] = ChatBegun
                /\ \A i \in 1..Len(Transformed(h, t)) : g[i] = ChatStep(t, g[i - 1], Transformed(h, t)[i])
                /\ \A i \in 0..Len(Transformed(h, t)) : g[i] \in ChatAccs
                /\ ChatMessages(h, t) = g[Len(Transformed(h, t))].out
<1> DEFINE k == Transformed(h, t)
           n == Len(k)
           F(a) == [i \in 0..n |-> IF i = 0 THEN ChatBegun ELSE ChatStep(t, a[i - 1], k[i])]
           g == CHOOSE a : a = F(a)
           step == [p \in (1..n) \X ChatAccs |-> ChatStep(t, p[2], k[p[1]])]
<1>0. k \in Seq(Msg)
  BY TransformedType
<1>1. n \in Nat /\ ChatMessages(h, t) = g[n].out
  BY <1>0 DEF ChatMessages, ChatBegun
<1> HIDE DEF k
<1>2. step \in [(1..n) \X ChatAccs -> ChatAccs]
  <2>1. ASSUME NEW i \in 1..n, NEW r \in ChatAccs PROVE ChatStep(t, r, k[i]) \in ChatAccs
    <3>1. k[i] \in Msg
      BY <1>0
    <3> QED BY <3>1, ChatStepTells
  <2> QED BY <2>1
<1>3. \A i \in 1..n, r \in ChatAccs : step[<<i, r>>] = ChatStep(t, r, k[i])
  OBVIOUS
<1>4. ChatBegun \in ChatAccs
  BY DEF ChatBegun, ChatAccs
<1> HIDE DEF n, step
<1>5. \E a : a = F(a)
  <2>2. PICK a \in [0..n -> ChatAccs] : Iterates(a, n, ChatBegun, step)
    BY <1>1, <1>2, <1>4, IterationExists
  <2>3. ASSUME NEW i \in 1..n PROVE a[i] = ChatStep(t, a[i - 1], k[i])
    <3>1. i - 1 \in 0..n
      BY <1>1
    <3>2. a[i - 1] \in ChatAccs
      BY <2>2, <3>1
    <3>3. a[i] = step[<<i, a[i - 1]>>]
      BY <2>2 DEF Iterates
    <3> QED BY <1>3, <3>2, <3>3
  <2>4. a = [i \in 0..n |-> a[i]] /\ a[0] = ChatBegun
    BY <2>2 DEF Iterates
  <2>5. \A i \in 0..n : a[i] = IF i = 0 THEN ChatBegun ELSE ChatStep(t, a[i - 1], k[i])
    <3>1. \A i \in 0..n : i # 0 => i \in 1..n
      BY <1>1
    <3> QED BY <2>3, <2>4, <3>1
  <2> QED BY <2>4, <2>5
<1>6. g = F(g)
  BY <1>5
<1> HIDE DEF g
<1>7. g[0] = ChatBegun /\ \A i \in 1..n : g[i] = ChatStep(t, g[i - 1], k[i])
  <2>1. 0 \in 0..n /\ \A i \in 1..n : i \in 0..n /\ i # 0
    BY <1>1
  <2>2. \A i \in 0..n : g[i] = F(g)[i]
    BY <1>6
  <2> QED BY <2>1, <2>2
<1>8. \A i \in 0..n : g[i] \in ChatAccs
  <2> DEFINE K == {i \in 0..n : g[i] \in ChatAccs}
  <2>1. 0 \in K
    BY <1>1, <1>4, <1>7
  <2>2. ASSUME NEW i \in 1..n, i - 1 \in K PROVE i \in K
    <3>1. k[i] \in Msg /\ g[i - 1] \in ChatAccs /\ i \in 0..n
      BY <1>0, <1>1, <2>2 DEF n
    <3>2. PICK r : r = g[i - 1] /\ r \in ChatAccs
      BY <3>1
    <3>3. ChatStep(t, r, k[i]) \in ChatAccs
      BY <3>1, <3>2, ChatStepTells
    <3> QED BY <1>7, <3>1, <3>2, <3>3
  <2> HIDE DEF K
  <2>3. 0..n \subseteq K
    BY <1>1, <2>1, <2>2, BoundedInduction
  <2> QED BY <2>3 DEF K
<1> QED BY <1>1, <1>7, <1>8 DEF n, k

LEMMA ChatTells ==
  ASSUME NEW t, t \in Models, t \notin Responses, NEW h, h \in Seq(Msg)
  PROVE  ChatMessages(h, t) \in Seq(ReqMsg) /\ Told(ChatMessages(h, t), Saying) = Told(h, Hearing(t))
<1> DEFINE k == Transformed(h, t)
           w == Speaking(t)
<1>0. k \in Seq(Msg) /\ Told(k, w) = Told(h, Hearing(t))
  BY TransformedType, TransformedTells
<1>1. PICK g : /\ g[0] = ChatBegun
               /\ \A i \in 1..Len(k) : g[i] = ChatStep(t, g[i - 1], k[i])
               /\ \A i \in 0..Len(k) : g[i] \in ChatAccs
               /\ ChatMessages(h, t) = g[Len(k)].out
  BY ChatIsIteration
<1> HIDE DEF k
<1>2. Voiced(k, w)
  BY <1>0, VoicedHistory
<1>3. PICK f : Tells(f, k, w)
  BY <1>2, SomethingTells
<1>4. Len(k) \in Nat
  BY <1>0
<1> DEFINE K == {i \in 0..Len(k) : Told(g[i].out, Saying) = f[i]}
<1>5. 0 \in K
  <2>0. g[0].out = <<>>
    <3>1. ChatBegun.out = <<>>
      BY DEF ChatBegun
    <3> QED BY <1>1, <3>1
  <2>1. g[0].out = <<>> /\ f[0] = <<>> /\ 0 \in 0..Len(k)
    BY <1>3, <1>4, <2>0 DEF Tells
  <2>2. Told(<<>>, Saying) = <<>>
    BY ToldNothing
  <2> QED BY <2>1, <2>2
<1>6. ASSUME NEW i \in 1..Len(k), i - 1 \in K PROVE i \in K
  <2>1. i \in 0..Len(k) /\ i - 1 \in 0..Len(k)
    BY <1>4
  <2>2. PICK acc : acc = g[i - 1] /\ acc \in ChatAccs /\ Told(acc.out, Saying) = f[i - 1]
    BY <1>1, <1>6, <2>1
  <2>3. PICK m : m = k[i] /\ m \in Msg
    BY <1>0
  <2>4. g[i] = ChatStep(t, acc, m) /\ f[i] = f[i - 1] \o w[m]
    BY <1>1, <1>3, <2>2, <2>3 DEF Tells
  <2>5. Told(ChatStep(t, acc, m).out, Saying) = Told(acc.out, Saying) \o w[m]
    BY <2>2, <2>3, ChatStepTells
  <2> HIDE DEF w
  <2> QED BY <2>1, <2>2, <2>4, <2>5
<1> HIDE DEF K
<1>7. 0..Len(k) \subseteq K
  BY <1>4, <1>5, <1>6, BoundedInduction
<1>8. Len(k) \in K /\ Len(k) \in 0..Len(k)
  BY <1>4, <1>7
<1>9. f[Len(k)] = Told(k, w)
  BY <1>3, <1>4, ToldIs
<1>10. Told(ChatMessages(h, t), Saying) = Told(k, w)
  BY <1>1, <1>8, <1>9 DEF K
<1>11. ChatMessages(h, t) \in Seq(ReqMsg)
  BY <1>1, <1>8 DEF ChatAccs
<1> QED BY <1>0, <1>10, <1>11

(* No user message stands right behind results. *)
Spanned(r) == \A i \in 1..(Len(r) - 1) : r[i].role = "tool" => r[i + 1].role # "user"

LastRole(acc) == acc.last = IF acc.out = <<>> THEN "" ELSE acc.out[Len(acc.out)].role

LEMMA SpannedAppend ==
  ASSUME NEW r, r \in Seq(ReqMsg), Spanned(r), NEW x, x \in ReqMsg,
         r = <<>> \/ r[Len(r)].role # "tool" \/ x.role # "user"
  PROVE  /\ Append(r, x) \in Seq(ReqMsg) /\ Spanned(Append(r, x))
         /\ Append(r, x) # <<>> /\ Append(r, x)[Len(Append(r, x))] = x
<1> DEFINE q == Append(r, x)
           n == Len(r)
<1>0. q \in Seq(ReqMsg) /\ Len(q) = n + 1 /\ q[n + 1] = x /\ n \in Nat
  OBVIOUS
<1>1. /\ q \in Seq(ReqMsg) /\ Len(q) = n + 1 /\ q[n + 1] = x /\ q # <<>> /\ n \in Nat
      /\ \A i \in 1..n : q[i] = r[i]
  <2>1. q # <<>>
    BY <1>0
  <2>2. \A i \in 1..n : q[i] = r[i]
    OBVIOUS
  <2> QED BY <1>0, <2>1, <2>2
<1>2. n = 0 \/ r[n].role # "tool" \/ x.role # "user"
  OBVIOUS
<1>3. \A i \in 1..(n - 1) : r[i].role = "tool" => r[i + 1].role # "user"
  BY DEF Spanned
<1> HIDE DEF q, n
<1>4. ASSUME NEW i \in 1..(Len(q) - 1), q[i].role = "tool" PROVE q[i + 1].role # "user"
  <2>1. i \in 1..n
    BY <1>1
  <2>2. CASE i = n
    BY <1>1, <1>2, <1>4, <2>1, <2>2
  <2>3. CASE i # n
    <3>1. i \in 1..(n - 1) /\ i + 1 \in 1..n
      BY <1>1, <2>1, <2>3
    <3> QED BY <1>1, <1>3, <1>4, <2>1, <3>1
  <2> QED BY <2>2, <2>3
<1>5. Spanned(q)
  BY <1>4 DEF Spanned
<1> QED BY <1>1, <1>5 DEF q

LEMMA ChatStepSpans ==
  ASSUME NEW t, t \notin Responses, t \in Bridging, NEW acc, acc \in ChatAccs, NEW m, m \in Msg,
         Spanned(acc.out), LastRole(acc)
  PROVE  Spanned(ChatStep(t, acc, m).out) /\ LastRole(ChatStep(t, acc, m))
<1> DEFINE x == ChatMessage(m)
           o == acc.out
           b == BridgeMessage
<1>1. x \in ReqMsg
  BY ChatConveys DEF Conveys
<1>2. o \in Seq(ReqMsg) /\ Spanned(o)
  BY DEF ChatAccs
<1>3. acc.last = IF o = <<>> THEN "" ELSE o[Len(o)].role
  BY DEF LastRole
<1>4. b \in ReqMsg /\ b.role = "assistant"
  BY BridgeSaysNothing
<1> HIDE DEF x, o, b
<1>5. CASE ChatStep(t, acc, m) = acc
  BY <1>5
<1>6. CASE /\ ChatStep(t, acc, m) = [out |-> Append(o, x), last |-> x.role]
           /\ ~(acc.last = "tool" /\ x.role = "user")
  <2> DEFINE q == Append(o, x)
  <2>1. o = <<>> \/ o[Len(o)].role # "tool" \/ x.role # "user"
    BY <1>3, <1>6
  <2>2. Spanned(q) /\ q # <<>> /\ q[Len(q)] = x
    BY <1>1, <1>2, <2>1, SpannedAppend
  <2> HIDE DEF q
  <2>3. ChatStep(t, acc, m) = [out |-> q, last |-> x.role]
    BY <1>6 DEF q
  <2>4. ChatStep(t, acc, m).out = q /\ ChatStep(t, acc, m).last = x.role
    <3>1. PICK l : l = x.role
      OBVIOUS
    <3>2. PICK c : c = ChatStep(t, acc, m)
      OBVIOUS
    <3>3. c = [out |-> q, last |-> l]
      BY <2>3, <3>1, <3>2
    <3>4. c.out = q /\ c.last = l
      BY <3>3, ChatAccFacts
    <3> QED BY <3>1, <3>2, <3>4
  <2> QED BY <2>2, <2>4 DEF LastRole
<1>7. CASE ChatStep(t, acc, m) = [out |-> Append(Append(o, b), x), last |-> x.role]
  <2> DEFINE p == Append(o, b)
             q == Append(p, x)
  <2>1. o = <<>> \/ o[Len(o)].role # "tool" \/ b.role # "user"
    BY <1>4
  <2>2. p \in Seq(ReqMsg) /\ Spanned(p) /\ p # <<>> /\ p[Len(p)] = b
    BY <1>2, <1>4, <2>1, SpannedAppend
  <2> HIDE DEF p
  <2>3. p = <<>> \/ p[Len(p)].role # "tool" \/ x.role # "user"
    BY <1>4, <2>2
  <2>4. Spanned(q) /\ q # <<>> /\ q[Len(q)] = x
    BY <1>1, <2>2, <2>3, SpannedAppend
  <2> HIDE DEF q
  <2>5. ChatStep(t, acc, m) = [out |-> q, last |-> x.role]
    BY <1>7 DEF p, q
  <2>6. ChatStep(t, acc, m).out = q /\ ChatStep(t, acc, m).last = x.role
    <3>1. PICK l : l = x.role
      OBVIOUS
    <3>2. PICK c : c = ChatStep(t, acc, m)
      OBVIOUS
    <3>3. c = [out |-> q, last |-> l]
      BY <2>5, <3>1, <3>2
    <3>4. c.out = q /\ c.last = l
      BY <3>3, ChatAccFacts
    <3> QED BY <3>1, <3>2, <3>4
  <2> QED BY <2>4, <2>6 DEF LastRole
<1> QED BY <1>5, <1>6, <1>7, ChatStepCases DEF o, x, b

LEMMA ChatSpans ==
  ASSUME NEW t, t \in Models, t \notin Responses, t \in Bridging, NEW h, h \in Seq(Msg)
  PROVE  Spanned(ChatMessages(h, t))
<1> DEFINE k == Transformed(h, t)
<1>0. k \in Seq(Msg)
  BY TransformedType
<1>1. PICK g : /\ g[0] = ChatBegun
               /\ \A i \in 1..Len(k) : g[i] = ChatStep(t, g[i - 1], k[i])
               /\ \A i \in 0..Len(k) : g[i] \in ChatAccs
               /\ ChatMessages(h, t) = g[Len(k)].out
  BY ChatIsIteration
<1> HIDE DEF k
<1>4. Len(k) \in Nat
  BY <1>0
<1> DEFINE K == {i \in 0..Len(k) : Spanned(g[i].out) /\ LastRole(g[i])}
<1>5. 0 \in K
  <2>1. g[0] = ChatBegun /\ 0 \in 0..Len(k)
    BY <1>1, <1>4
  <2>2. Spanned(ChatBegun.out) /\ LastRole(ChatBegun)
    BY DEF ChatBegun, Spanned, LastRole
  <2> QED BY <2>1, <2>2
<1>6. ASSUME NEW i \in 1..Len(k), i - 1 \in K PROVE i \in K
  <2>1. i \in 0..Len(k) /\ i - 1 \in 0..Len(k)
    BY <1>4
  <2>2. PICK acc : acc = g[i - 1] /\ acc \in ChatAccs /\ Spanned(acc.out) /\ LastRole(acc)
    BY <1>1, <1>6, <2>1
  <2>3. PICK m : m = k[i] /\ m \in Msg
    BY <1>0
  <2>4. g[i] = ChatStep(t, acc, m)
    BY <1>1, <2>2, <2>3
  <2>5. Spanned(ChatStep(t, acc, m).out) /\ LastRole(ChatStep(t, acc, m))
    BY <2>2, <2>3, ChatStepSpans
  <2> QED BY <2>1, <2>4, <2>5
<1> HIDE DEF K
<1>7. 0..Len(k) \subseteq K
  BY <1>4, <1>5, <1>6, BoundedInduction
<1>8. Len(k) \in K
  BY <1>4, <1>7
<1> QED BY <1>1, <1>8 DEF K

-----------------------------------------------------------------------------
(* Responses *)

(* Only the trailing ids are not cut where their results are looked for. *)
LEMMA CallPartType ==
  ASSUME NEW id, id \in Id
  PROVE  /\ CallPart(id) \in Id /\ CallPart(id).n = id.n
         /\ SplitCallId(id) \in Id /\ SplitCallId(id).n = id.n
         /\ id.n \notin Trailing => SplitCallId(id) = CallPart(id)
         /\ ExtractCallId(id) = CallPart(id)
<1>1. ASSUME NEW d \in Id, NEW f \in Forms PROVE [d EXCEPT !.form = f] \in Id /\ [d EXCEPT !.form = f].n = d.n
  BY DEF Id
<1>2. "clean" \in Forms /\ "call" \in Forms /\ "trimmed" \in Forms
  BY DEF Forms
<1>3. \/ CallPart(id) = id
      \/ CallPart(id) = [id EXCEPT !.form = "clean"]
      \/ CallPart(id) = [id EXCEPT !.form = "call"]
  BY DEF CallPart, Sanitized
<1>4. CallPart(id) \in Id /\ CallPart(id).n = id.n
  BY <1>1, <1>2, <1>3
<1>5. PICK d \in Id : d = CallPart(id) /\ d.n = id.n
  BY <1>4
<1>6. /\ d.n \notin Trailing => Trimmed(d) = d
      /\ d.n \in Trailing => Trimmed(d) = [d EXCEPT !.form = "trimmed"]
  BY DEF Trimmed
<1>7. Trimmed(d) \in Id /\ Trimmed(d).n = d.n
  BY <1>1, <1>2, <1>6
<1>8. SplitCallId(id) = Trimmed(d)
  BY <1>5 DEF SplitCallId
<1> QED BY <1>4, <1>5, <1>6, <1>7, <1>8 DEF ExtractCallId

(* Each message becomes a list of items that says as much. *)
Itemised(t, s, r) ==
  /\ r = [i \in DOMAIN s |-> r[i]]
  /\ \A i \in DOMAIN s : r[i] \in Seq(ReqMsg) /\ Told(r[i], Saying) = Speaking(t)[s[i]]

LEMMA OneItemTells ==
  ASSUME NEW t, NEW m, NEW out, Conveys(t, m, out)
  PROVE  <<out>> \in Seq(ReqMsg) /\ Told(<<out>>, Saying) = Speaking(t)[m]
<1>1. out \in ReqMsg /\ Saying[out] = Speaking(t)[m]
  BY DEF Conveys
<1>2. Told(<<out>>, Saying) = Saying[out]
  BY <1>1, SayingFacts, ToldOne
<1>3. <<out>> \in Seq(ReqMsg)
  BY <1>1
<1> QED BY <1>1, <1>2, <1>3

LEMMA TextItemsTell ==
  ASSUME NEW m
  PROVE  /\ Each(TextParts(m), LAMBDA p : Message("assistant", <<p>>)) \in Seq(ReqMsg)
         /\ Told(Each(TextParts(m), LAMBDA p : Message("assistant", <<p>>)), Saying) =
              IF m.says \in {"text", "thought"} THEN <<"assistant">> ELSE <<>>
<1> DEFINE q == TextParts(m)
           a == [i \in DOMAIN q |-> Message("assistant", <<q[i]>>)]
           one == <<Text>>
           x == Message("assistant", one)
<1>1. Each(TextParts(m), LAMBDA p : Message("assistant", <<p>>)) = a
  BY DEF Each
<1>2. CASE m.says \in {"text", "thought"}
  <2>1. q = <<Text>>
    BY <1>2 DEF TextParts
  <2>2. a = <<x>>
    BY <2>1
  <2>3. one \in Seq(Part) /\ Text \in Range(one)
    BY OneTextFacts
  <2> HIDE DEF one
  <2>4. x \in ReqMsg /\ Saying[x] = <<"assistant">>
    BY <2>3, TalkSays
  <2> HIDE DEF x, a
  <2>5. Told(<<x>>, Saying) = Saying[x]
    BY <2>4, SayingFacts, ToldOne
  <2>6. <<x>> \in Seq(ReqMsg)
    BY <2>4
  <2>7. a \in Seq(ReqMsg) /\ Told(a, Saying) = <<"assistant">>
    BY <2>2, <2>4, <2>5, <2>6
  <2> QED BY <1>1, <1>2, <2>7
<1>3. CASE m.says \notin {"text", "thought"}
  <2>1. q = <<>>
    BY <1>3 DEF TextParts
  <2>2. a = <<>>
    BY <2>1
  <2> HIDE DEF a
  <2>3. a \in Seq(ReqMsg) /\ Told(a, Saying) = <<>>
    BY <2>2, ToldNothing
  <2> QED BY <1>1, <1>3, <2>3
<1> QED BY <1>2, <1>3

LEMMA CallItemsTell ==
  ASSUME NEW m, m \in AnswerMsg
  PROVE  /\ Each(m.calls, LAMBDA id : Message("assistant", <<Call(SplitCallId(id))>>)) \in Seq(ReqMsg)
         /\ Told(Each(m.calls, LAMBDA id : Message("assistant", <<Call(SplitCallId(id))>>)), Saying) = <<>>
<1> DEFINE s == m.calls
           a == [i \in DOMAIN s |-> Message("assistant", <<Call(SplitCallId(s[i]))>>)]
<1>1. Each(m.calls, LAMBDA id : Message("assistant", <<Call(SplitCallId(id))>>)) = a
  BY DEF Each
<1>2. s \in Seq(Id) /\ DOMAIN s = 1..Len(s) /\ Len(s) \in Nat
  BY DEF AnswerMsg
<1> HIDE DEF s
<1>3. ASSUME NEW i \in DOMAIN s PROVE a[i] \in ReqMsg /\ Saying[a[i]] = <<>>
  <2>1. s[i] \in Id
    BY <1>2
  <2>2. SplitCallId(s[i]) \in Id
    BY <2>1, CallPartType
  <2> DEFINE c == Call(SplitCallId(s[i]))
             p == <<c>>
  <2>3. c \in Part /\ c # Text /\ c # Image
    BY <2>2, PartFacts
  <2>4. a[i] = Message("assistant", p)
    OBVIOUS
  <2> HIDE DEF c
  <2>5. p \in Seq(Part) /\ Range(p) = {c}
    BY <2>3, OnePart
  <2>6. Text \notin Range(p) /\ Image \notin Range(p)
    BY <2>3, <2>5
  <2> HIDE DEF p, a
  <2>7. Message("assistant", p) \in ReqMsg /\ Saying[Message("assistant", p)] = <<>>
    BY <2>5, <2>6, TalkSays
  <2> QED BY <2>4, <2>7
<1>4. a \in [1..Len(s) -> ReqMsg]
  <2>1. a = [i \in 1..Len(s) |-> a[i]]
    BY <1>2
  <2> HIDE DEF a
  <2> QED BY <1>2, <1>3, <2>1
<1> HIDE DEF a
<1>5. a \in Seq(ReqMsg) /\ Len(a) = Len(s)
  BY <1>2, <1>4
<1>6. Voiced(a, Saying)
  BY <1>5, VoicedRequest
<1>7. \A i \in 1..Len(a) : Saying[a[i]] = <<>>
  BY <1>2, <1>3, <1>5
<1>8. Told(a, Saying) = <<>>
  BY <1>6, <1>7, ToldSilence
<1> QED BY <1>1, <1>5, <1>8

LEMMA ItemsTell ==
  ASSUME NEW t, t \in Responses, NEW m, m \in Msg
  PROVE  ResponsesItems(m) \in Seq(ReqMsg) /\ Told(ResponsesItems(m), Saying) = Speaking(t)[m]
<1>1. CASE IsAssistant(m)
  <2>1. m \in AnswerMsg /\ ~IsTool(m)
    BY <1>1, MsgKinds
  <2> DEFINE a == Each(TextParts(m), LAMBDA p : Message("assistant", <<p>>))
             b == Each(m.calls, LAMBDA id : Message("assistant", <<Call(SplitCallId(id))>>))
             w == IF m.says \in {"text", "thought"} THEN <<"assistant">> ELSE <<>>
  <2>2. a \in Seq(ReqMsg) /\ Told(a, Saying) = w
    BY TextItemsTell
  <2>3. b \in Seq(ReqMsg) /\ Told(b, Saying) = <<>>
    BY <2>1, CallItemsTell
  <2>4. ResponsesItems(m) = a \o b
    BY <1>1, <2>1 DEF ResponsesItems
  <2>5. Speaking(t)[m] = w
    BY <1>1, SpeakingIs
  <2> HIDE DEF a, b, w
  <2>6. Voiced(a, Saying)
    BY <2>2, VoicedRequest
  <2>7. Voiced(b, Saying)
    BY <2>3, VoicedRequest
  <2>8. Told(a \o b, Saying) = Told(a, Saying) \o Told(b, Saying)
    BY <2>6, <2>7, ToldConcat
  <2>9. w \o <<>> = w
    <3>1. Told(a, Saying) \in Seq(Roles)
      BY <2>6, ToldType
    <3>2. \A r \in Seq(Roles) : r \o <<>> = r
      OBVIOUS
    <3> QED BY <2>2, <3>1, <3>2
  <2>10. a \o b \in Seq(ReqMsg)
    BY <2>2, <2>3
  <2> QED BY <2>2, <2>3, <2>4, <2>5, <2>8, <2>9, <2>10
<1>2. CASE IsTool(m)
  <2>1. ~IsAssistant(m) /\ m.call \in Id
    BY <1>2, MsgKinds DEF ToolMsg
  <2> DEFINE x == Output(ExtractCallId(m.call))
  <2>2. ResponsesItems(m) = <<Message("tool", <<x>>)>>
    BY <1>2, <2>1 DEF ResponsesItems
  <2>3. ExtractCallId(m.call) \in Id
    BY <2>1, CallPartType
  <2>4. x \in OutPart
    BY <2>3, PartFacts
  <2> HIDE DEF x
  <2>5. Conveys(t, m, Message("tool", <<x>>))
    BY <1>2, <2>4, ResultsConvey
  <2> QED BY <2>2, <2>5, OneItemTells
<1>3. CASE ~IsAssistant(m) /\ ~IsTool(m)
  <2> DEFINE p == IF m.says = "image" THEN <<Image>> ELSE <<Text>>
  <2>1. ResponsesItems(m) = <<Message("user", p)>>
    BY <1>3 DEF ResponsesItems
  <2>2. p \in Seq(Part) /\ (Text \in Range(p) \/ Image \in Range(p))
    <3>1. <<Image>> \in Seq(Part) /\ Image \in Range(<<Image>>)
      BY OnePart, PartFacts
    <3>2. <<Text>> \in Seq(Part) /\ Text \in Range(<<Text>>)
      BY OneTextFacts
    <3> QED BY <3>1, <3>2
  <2>3. m.says = "text" \/ (m.says = "image" /\ t \in Responses)
    BY <1>3, MsgKinds DEF UserMsg, SummaryMsg
  <2> HIDE DEF p
  <2>4. Conveys(t, m, Message("user", p))
    BY <1>3, <2>2, <2>3, UserConveys
  <2> QED BY <2>1, <2>4, OneItemTells
<1> QED BY <1>1, <1>2, <1>3

LEMMA FlattenIsIteration ==
  ASSUME NEW S, NEW ms, ms \in Seq(Seq(S)), Len(ms) # 0
  PROVE  \E g : /\ g[1] = ms[1]
                /\ \A i \in 2..Len(ms) : g[i] = g[i - 1] \o ms[i]
                /\ FlattenSeq(ms) = g[Len(ms)]
<1> DEFINE n == Len(ms)
           V == Seq(S)
           F(h) == [i \in 1..n |-> IF i = 1 THEN ms[i] ELSE h[i - 1] \o ms[i]]
           g == CHOOSE h : h = F(h)
           step == [p \in (1..n) \X V |-> p[2] \o ms[p[1]]]
<1>1. n \in Nat \ {0} /\ FlattenSeq(ms) = g[n]
  BY DEF FlattenSeq
<1>2. \A i \in 1..n : ms[i] \in V
  OBVIOUS
<1>3. step \in [(1..n) \X V -> V]
  <2>1. ASSUME NEW i \in 1..n, NEW r \in V PROVE r \o ms[i] \in V
    <3>1. ms[i] \in V
      BY <1>2
    <3> QED BY <3>1
  <2> QED BY <2>1
<1>4. \A i \in 1..n, r \in V : step[<<i, r>>] = r \o ms[i]
  OBVIOUS
<1>5. <<>> \in V /\ \A r \in V : <<>> \o r = r
  OBVIOUS
<1> HIDE DEF n, step, V
<1>6. \E h : h = F(h)
  <2>1. PICK a \in [0..n -> V] : Iterates(a, n, <<>>, step)
    BY <1>1, <1>3, <1>5, IterationExists
  <2> DEFINE b == [i \in 1..n |-> a[i]]
  <2>2. ASSUME NEW i \in 1..n PROVE a[i] = a[i - 1] \o ms[i]
    <3>1. i - 1 \in 0..n
      BY <1>1
    <3>2. a[i - 1] \in V /\ a[i] = step[<<i, a[i - 1]>>]
      BY <2>1, <3>1 DEF Iterates
    <3> QED BY <1>4, <3>2
  <2>3. a[1] = ms[1]
    <3>1. 1 \in 1..n /\ 1 - 1 = 0 /\ a[0] = <<>>
      BY <1>1, <2>1 DEF Iterates
    <3>2. a[1] = a[1 - 1] \o ms[1]
      BY <2>2, <3>1
    <3>3. <<>> \o ms[1] = ms[1]
      BY <1>2, <1>5, <3>1
    <3> QED BY <3>1, <3>2, <3>3
  <2>4. \A i \in 1..n : b[i] = a[i]
    OBVIOUS
  <2>5. b = [i \in 1..n |-> b[i]]
    OBVIOUS
  <2> HIDE DEF b
  <2>6. ASSUME NEW i \in 1..n PROVE b[i] = IF i = 1 THEN ms[i] ELSE b[i - 1] \o ms[i]
    <3>1. CASE i = 1
      BY <2>3, <2>4, <3>1
    <3>2. CASE i # 1
      <4>1. i - 1 \in 1..n
        BY <1>1, <3>2
      <4>2. b[i - 1] = a[i - 1] /\ b[i] = a[i]
        BY <2>4, <4>1
      <4> QED BY <2>2, <3>2, <4>2
    <3> QED BY <3>1, <3>2
  <2>7. b = F(b)
    BY <2>5, <2>6
  <2> QED BY <2>7
<1>7. g = F(g)
  BY <1>6
<1> HIDE DEF g
<1>8. \A i \in 1..n : g[i] = IF i = 1 THEN ms[i] ELSE g[i - 1] \o ms[i]
  <2>1. \A i \in 1..n : g[i] = F(g)[i]
    BY <1>7
  <2> QED BY <2>1
<1>9. 1 \in 1..n /\ \A i \in 2..n : i \in 1..n /\ i # 1
  BY <1>1
<1>10. g[1] = ms[1] /\ \A i \in 2..n : g[i] = g[i - 1] \o ms[i]
  BY <1>8, <1>9
<1> QED BY <1>1, <1>10 DEF n

LEMMA FlattenTells ==
  ASSUME NEW t, NEW s, s \in Seq(Msg), NEW r, Itemised(t, s, r)
  PROVE  FlattenSeq(r) \in Seq(ReqMsg) /\ Told(FlattenSeq(r), Saying) = Told(s, Speaking(t))
<1> DEFINE w == Speaking(t)
           n == Len(s)
<1>1. DOMAIN s = 1..n /\ n \in Nat /\ n = Len(s) /\ \A i \in 1..n : s[i] \in Msg
  OBVIOUS
<1>2. Voiced(s, w)
  BY VoicedHistory
<1> HIDE DEF w, n
<1>3. /\ r = [i \in 1..n |-> r[i]]
      /\ \A i \in 1..n : r[i] \in Seq(ReqMsg) /\ Told(r[i], Saying) = w[s[i]]
  BY <1>1 DEF Itemised, w
<1>4. r \in Seq(Seq(ReqMsg)) /\ Len(r) = n
  <2>1. r \in [1..n -> Seq(ReqMsg)]
    BY <1>3
  <2> QED BY <1>1, <2>1
<1>5. PICK f : Tells(f, s, w)
  BY <1>2, SomethingTells
<1>6. f[n] = Told(s, w)
  BY <1>1, <1>5, ToldIs
<1>7. CASE n = 0
  <2>1. FlattenSeq(r) = <<>>
    <3>1. FlattenSeq(r) = r
      BY <1>4, <1>7 DEF FlattenSeq
    <3>2. r = <<>>
      BY <1>4, <1>7
    <3> QED BY <3>1, <3>2
  <2>2. Told(<<>>, Saying) = <<>>
    BY ToldNothing
  <2>3. f[0] = <<>>
    BY <1>5 DEF Tells
  <2>4. FlattenSeq(r) \in Seq(ReqMsg) /\ Told(FlattenSeq(r), Saying) = Told(s, w)
    BY <1>6, <1>7, <2>1, <2>2, <2>3
  <2> QED BY <2>4 DEF w
<1>8. CASE n # 0
  <2>1. PICK g : /\ g[1] = r[1]
                 /\ \A i \in 2..Len(r) : g[i] = g[i - 1] \o r[i]
                 /\ FlattenSeq(r) = g[Len(r)]
    BY <1>4, <1>8, FlattenIsIteration
  <2> DEFINE K == {i \in 0..n : i = 0 \/ (g[i] \in Seq(ReqMsg) /\ Told(g[i], Saying) = f[i])}
  <2>2. 0 \in K
    BY <1>1
  <2>3. ASSUME NEW i \in 1..n, i - 1 \in K PROVE i \in K
    <3>1. i \in 0..n /\ i \in 1..Len(s)
      BY <1>1
    <3>2. f[i] = f[i - 1] \o w[s[i]]
      BY <1>5, <3>1 DEF Tells
    <3>3. PICK y : y = r[i] /\ y \in Seq(ReqMsg) /\ Told(y, Saying) = w[s[i]]
      BY <1>3
    <3>4. Voiced(y, Saying)
      BY <3>3, VoicedRequest
    <3>5. CASE i = 1
      <4>1. f[0] = <<>> /\ i - 1 = 0
        BY <1>5, <3>5 DEF Tells
      <4>2. <<>> \o w[s[i]] = w[s[i]]
        <5>1. w[s[i]] \in Seq(Roles)
          BY <3>3, <3>4, ToldType
        <5>2. \A z \in Seq(Roles) : <<>> \o z = z
          OBVIOUS
        <5> QED BY <5>1, <5>2
      <4>3. g[i] = y
        BY <2>1, <3>3, <3>5
      <4> QED BY <3>1, <3>2, <3>3, <4>1, <4>2, <4>3
    <3>6. CASE i # 1
      <4>1. i \in 2..Len(r) /\ i - 1 # 0
        BY <1>1, <1>4, <3>6
      <4>2. PICK x : x = g[i - 1] /\ x \in Seq(ReqMsg) /\ Told(x, Saying) = f[i - 1]
        BY <2>3, <4>1
      <4>3. g[i] = x \o y
        BY <2>1, <3>3, <4>1, <4>2
      <4>4. Voiced(x, Saying)
        BY <4>2, VoicedRequest
      <4>5. Told(x \o y, Saying) = Told(x, Saying) \o Told(y, Saying)
        BY <3>4, <4>4, ToldConcat
      <4>6. x \o y \in Seq(ReqMsg)
        BY <3>3, <4>2
      <4> QED BY <3>1, <3>2, <3>3, <4>2, <4>3, <4>5, <4>6
    <3> QED BY <3>5, <3>6
  <2> HIDE DEF K
  <2>4. 0..n \subseteq K
    BY <1>1, <2>2, <2>3, BoundedInduction
  <2>5. n \in K
    BY <1>1, <2>4
  <2>6. FlattenSeq(r) \in Seq(ReqMsg) /\ Told(FlattenSeq(r), Saying) = Told(s, w)
    BY <1>4, <1>6, <1>8, <2>1, <2>5 DEF K
  <2> QED BY <2>6 DEF w
<1> QED BY <1>7, <1>8

LEMMA ResponsesTell ==
  ASSUME NEW t, t \in Models, t \in Responses, NEW h, h \in Seq(Msg)
  PROVE  ResponsesInput(h, t) \in Seq(ReqMsg) /\ Told(ResponsesInput(h, t), Saying) = Told(h, Hearing(t))
<1> DEFINE s == Transformed(h, t)
           r == Each(s, ResponsesItems)
           f == FlattenSeq(r)
<1>1. s \in Seq(Msg) /\ Told(s, Speaking(t)) = Told(h, Hearing(t))
  BY TransformedType, TransformedTells
<1>2. ResponsesInput(h, t) = OrPlaceholder(f)
  BY DEF ResponsesInput
<1>3. r = [i \in DOMAIN s |-> ResponsesItems(s[i])]
  BY DEF Each
<1> HIDE DEF s, r
<1>4. \A i \in DOMAIN s : s[i] \in Msg
  BY <1>1
<1>5. Itemised(t, s, r)
  BY <1>3, <1>4, ItemsTell DEF Itemised
<1>6. f \in Seq(ReqMsg) /\ Told(f, Saying) = Told(s, Speaking(t))
  BY <1>1, <1>5, FlattenTells
<1> HIDE DEF f
<1>7. OrPlaceholder(f) \in Seq(ReqMsg) /\ Told(OrPlaceholder(f), Saying) = Told(f, Saying)
  BY <1>6, PlaceholderTells
<1> QED BY <1>1, <1>2, <1>6, <1>7

-----------------------------------------------------------------------------
(* Every request *)

LEMMA RequestTells ==
  ASSUME NEW t, t \in Models, NEW h, h \in Seq(Msg)
  PROVE  Request(h, t) \in Seq(ReqMsg) /\ Told(Request(h, t), Saying) = Told(h, Hearing(t))
<1>1. CASE t = "claude"
  BY <1>1, AnthropicTells DEF Request, Responses
<1>2. CASE t = "bedrock"
  BY <1>2, BedrockTells DEF Request, Responses
<1>3. CASE t \in {"gemini", "claude-google"}
  BY <1>3, GoogleTells DEF Request, Responses
<1>4. CASE t \in {"gpt-chat", "kimi", "mistral"}
  BY <1>4, ChatTells DEF Request, Responses
<1>5. CASE t \in {"gpt", "codex", "copilot"}
  BY <1>5, ResponsesTell DEF Request, Responses
<1> QED BY <1>1, <1>2, <1>3, <1>4, <1>5 DEF Models

LEMMA NothingLostFromHistory == history \in Seq(Msg) => NothingSaidIsLost
<1> SUFFICES ASSUME history \in Seq(Msg), NEW t \in Targets
             PROVE  LET heard(m) == ~IsTool(m) /\ ~Failed(m) /\ (m.says \in {"text", "thought"}
                                      \/ (m.says = "image" /\ t \in {"gpt", "codex", "copilot"}))
                        kept == Picked(history, {i \in DOMAIN history : heard(history[i])})
                    IN Speakers(Request(history, t)) =
                         Each(kept, LAMBDA m : IF IsAssistant(m) THEN "assistant" ELSE "user")
  BY DEF NothingSaidIsLost
<1> DEFINE h == history
           r == Request(h, t)
           I == {i \in DOMAIN h : /\ ~IsTool(h[i]) /\ ~Failed(h[i])
                                  /\ \/ h[i].says \in {"text", "thought"}
                                     \/ (h[i].says = "image" /\ t \in {"gpt", "codex", "copilot"})}
           J == {i \in DOMAIN h : h[i] \in Heard(t)}
           kept == Picked(h, J)
<1>1. t \in Models /\ h \in Seq(Msg)
  BY TransformConstants
<1>2. r \in Seq(ReqMsg) /\ Told(r, Saying) = Told(h, Hearing(t))
  BY <1>1, RequestTells
<1> HIDE DEF r
<1>3. Speakers(r) = Told(r, Saying)
  BY <1>2, SpeakersAreTold
<1>4. \A i \in DOMAIN h : h[i] \in Msg
  BY <1>1
<1>5. I = J
  BY <1>4 DEF Heard, Speech, Responses
<1>6. Voiced(h, Hearing(t)) /\ Speaks(Hearing(t), Heard(t), WhoIs)
  BY <1>1, VoicedHistory, HearingFacts
<1>7. RolesIn(kept, WhoIs) = Told(h, Hearing(t))
  <2>1. Speaks(Hearing(t), Heard(t), WhoIs)
    BY <1>6
  <2>2. Voiced(h, Hearing(t))
    BY <1>6
  <2> QED BY <2>1, <2>2, PickedSays
<1>8. kept \in Seq(Msg)
  BY <1>1, PickedEmbeds
<1>9. Picked(h, I) = kept
  BY <1>5
<1> HIDE DEF kept, J
<1>10. \A i \in DOMAIN kept : WhoIs[kept[i]] = IF IsAssistant(kept[i]) THEN "assistant" ELSE "user"
  BY <1>8 DEF WhoIs
<1>11. RolesIn(kept, WhoIs) = [i \in DOMAIN kept |-> IF IsAssistant(kept[i]) THEN "assistant" ELSE "user"]
  BY <1>10 DEF RolesIn
<1>12. Each(kept, LAMBDA m : IF IsAssistant(m) THEN "assistant" ELSE "user") =
         [i \in DOMAIN kept |-> IF IsAssistant(kept[i]) THEN "assistant" ELSE "user"]
  BY DEF Each
<1>13. Speakers(r) = Each(kept, LAMBDA m : IF IsAssistant(m) THEN "assistant" ELSE "user")
  BY <1>2, <1>3, <1>7, <1>11, <1>12
<1> QED BY <1>9, <1>13 DEF r

(* Every request says what the history says, in its order: what users and answers
   have said, images aside where the API takes none, and failed answers aside. *)
THEOREM NothingIsLost == HistorySpec => []NothingSaidIsLost
<1>1. HistoryInv => NothingSaidIsLost
  BY NothingLostFromHistory DEF HistoryInv
<1> QED BY <1>1, HistoryInvariant, PTL

LEMMA BridgedFromHistory == history \in Seq(Msg) => ResultsBridged
<1> SUFFICES ASSUME history \in Seq(Msg), NEW t \in Targets \cap Bridging
             PROVE  \A i \in 1..(Len(Request(history, t)) - 1) :
                      Request(history, t)[i].role = "tool" => Request(history, t)[i + 1].role # "user"
  BY DEF ResultsBridged
<1>1. t \in {"gpt-chat", "kimi", "mistral"} /\ t \in Models /\ t \in Bridging
  BY AdaptersConstants, TransformConstants
<1>2. t \notin Responses
  BY <1>1 DEF Responses
<1>3. Request(history, t) = ChatMessages(history, t)
  BY <1>1 DEF Request
<1>4. Spanned(ChatMessages(history, t))
  BY <1>1, <1>2, ChatSpans
<1> QED BY <1>3, <1>4 DEF Spanned

(* A provider that wants an answer between results and a user message gets one. *)
THEOREM ResultsAreBridged == HistorySpec => []ResultsBridged
<1>1. HistoryInv => ResultsBridged
  BY BridgedFromHistory DEF HistoryInv
<1> QED BY <1>1, HistoryInvariant, PTL

-----------------------------------------------------------------------------
(* Calls and results: what the first pass leaves *)

(* No answer makes two calls under one id, but for those in D. *)
Distinct(k, D) ==
  \A y \in 1..Len(k) : IsAssistant(k[y]) =>
    \A c, d \in 1..Len(k[y].calls) : k[y].calls[c] = k[y].calls[d] => c = d \/ k[y].calls[c] \in D

(* The ids that two calls of an answer go out under, for the API that may do that. *)
Twofold(h, t) == IF t = "mistral" THEN Doubled(h, t) ELSE {}

LEMMA FirstPassDistinct ==
  ASSUME NEW t \in Models, NEW h \in Seq(Msg), CallsApart(h), NEW D, D = Twofold(h, t)
  PROVE  Distinct(FirstPass(h, t), D)
<1> DEFINE k == Kept(h)
           p == FirstPass(h, t)
<1>1. k \in Seq(Msg)
  BY KeptType
<1>2. /\ Len(p) = Len(k)
      /\ \A i \in 1..Len(k) :
              /\ IsAssistant(p[i]) <=> IsAssistant(k[i])
              /\ IsAssistant(k[i]) => p[i] = IF k[i].by # t THEN Foreign(k[i], t) ELSE k[i]
  BY FirstPassType
<1>3. PICK e : /\ e \in [1..Len(k) -> 1..Len(h)]
               /\ \A x \in 1..Len(k) : k[x] = h[e[x]] /\ Stays(h[e[x]])
  BY KeptPlaces
<1> HIDE DEF k, p
<1>4. SUFFICES ASSUME NEW y \in 1..Len(p), IsAssistant(p[y]),
                      NEW c \in 1..Len(p[y].calls), NEW d \in 1..Len(p[y].calls), p[y].calls[c] = p[y].calls[d]
               PROVE  c = d \/ p[y].calls[c] \in D
  BY DEF Distinct, p
<1>5. PICK z \in 1..Len(h) : k[y] = h[z] /\ IsAssistant(h[z])
  BY <1>2, <1>3, <1>4
<1> DEFINE a == h[z]
           cs == h[z].calls
<1>6. a \in AnswerMsg /\ cs \in Seq(Id)
  BY <1>5, MsgKinds DEF AnswerMsg
<1>7. \A i, j \in 1..Len(cs) : cs[i].n = cs[j].n => i = j
  BY <1>5, SameCall
<1>8. a \in Range(h) /\ IsAssistant(a)
  BY <1>5 DEF Range
<1>9. p[y] = IF a.by # t THEN Foreign(a, t) ELSE a
  BY <1>2, <1>4, <1>5
<1>10. cs = a.calls
  OBVIOUS
<1> HIDE DEF a, cs
<1>11. CASE a.by = t
  <2>1. p[y].calls = cs
    BY <1>9, <1>10, <1>11
  <2> QED BY <1>4, <1>7, <2>1
<1>12. CASE a.by # t
  <2>1. p[y].calls = [i \in DOMAIN cs |-> Norm(t, cs[i])]
    BY <1>6, <1>9, <1>10, <1>12, ForeignType
  <2>2. DOMAIN cs = 1..Len(cs) /\ Len(cs) \in Nat
    BY <1>6
  <2>3. Len(p[y].calls) = Len(cs)
    BY <2>1, <2>2
  <2>4. c \in 1..Len(cs) /\ d \in 1..Len(cs) /\ Norm(t, cs[c]) = Norm(t, cs[d])
    BY <1>4, <2>1, <2>2, <2>3
  <2>5. PICK i \in Id : i = cs[c]
    BY <1>6, <2>4
  <2>6. PICK j \in Id : j = cs[d]
    BY <1>6, <2>4
  <2>7. CASE t # "mistral"
    <3>1. i.n = j.n
      BY <2>4, <2>5, <2>6, <2>7, NormFacts
    <3> QED BY <1>7, <2>4, <2>5, <2>6, <3>1
  <2>8. CASE t = "mistral" /\ c # d
    <3>1. D = Doubled(h, t)
      BY <2>8 DEF Twofold
    <3>2. p[y].calls[c] = Norm(t, cs[c]) /\ c \in DOMAIN cs /\ d \in DOMAIN cs
      BY <2>1, <2>2, <2>4
    <3> QED BY <1>8, <1>10, <2>4, <2>8, <3>1, <3>2 DEF Doubled
  <2> QED BY <2>7, <2>8
<1> QED BY <1>11, <1>12

(* No result is given twice behind one answer, but for those of ids in D. *)
Single(k, D) ==
  \A y, x, z \in 1..Len(k) : Asker(k, y, x) /\ Asker(k, y, z) /\ k[x].call = k[z].call =>
    x = z \/ k[x].call \in D

LEMMA CallsAreSent ==
  ASSUME NEW t \in Models, NEW h \in Seq(Msg),
         NEW y \in 1..Len(FirstPass(h, t)), IsAssistant(FirstPass(h, t)[y]),
         NEW c \in 1..Len(FirstPass(h, t)[y].calls)
  PROVE  FirstPass(h, t)[y].calls[c] \in SentIds(h, t)
<1> DEFINE k == Kept(h)
           p == FirstPass(h, t)
<1>1. k \in Seq(Msg)
  BY KeptType
<1>2. /\ Len(p) = Len(k)
      /\ \A i \in 1..Len(k) :
              /\ IsAssistant(p[i]) <=> IsAssistant(k[i])
              /\ IsAssistant(k[i]) => p[i] = IF k[i].by # t THEN Foreign(k[i], t) ELSE k[i]
  BY FirstPassType
<1>3. SentIds(h, t) = UNION {CallsOf(m) \cup {Norm(t, id) : id \in CallsOf(m)} :
                               m \in {m \in Range(k) : IsAssistant(m)}}
  BY DEF SentIds
<1>4. y \in 1..Len(p) /\ IsAssistant(p[y]) /\ c \in 1..Len(p[y].calls)
  OBVIOUS
<1> HIDE DEF k, p
<1>5. PICK a \in AnswerMsg : a = k[y] /\ a \in Range(k) /\ IsAssistant(a)
  BY <1>1, <1>2, <1>4, MsgKinds DEF Range
<1>6. a.calls \in Seq(Id) /\ CallsOf(a) = Range(a.calls)
  BY <1>5 DEF AnswerMsg, CallsOf
<1>7. p[y] = IF a.by # t THEN Foreign(a, t) ELSE a
  BY <1>2, <1>4, <1>5
<1>8. p[y].calls[c] \in CallsOf(a) \cup {Norm(t, id) : id \in CallsOf(a)}
  <2>1. CASE a.by = t
    <3>1. c \in DOMAIN a.calls /\ p[y].calls[c] = a.calls[c]
      BY <1>4, <1>6, <1>7, <2>1
    <3> QED BY <1>6, <3>1 DEF Range
  <2>2. CASE a.by # t
    <3>1. p[y].calls = [i \in DOMAIN a.calls |-> Norm(t, a.calls[i])]
      BY <1>7, <2>2, ForeignType
    <3>2. DOMAIN a.calls = 1..Len(a.calls) /\ Len(a.calls) \in Nat
      BY <1>6
    <3>3. Len(p[y].calls) = Len(a.calls)
      BY <3>1, <3>2
    <3>4. c \in DOMAIN a.calls /\ p[y].calls[c] = Norm(t, a.calls[c])
      BY <1>4, <3>1, <3>2, <3>3
    <3>5. a.calls[c] \in CallsOf(a)
      BY <1>6, <3>4 DEF Range
    <3> QED BY <3>4, <3>5
  <2> QED BY <2>1, <2>2
<1>9. p[y].calls[c] \in SentIds(h, t)
  BY <1>3, <1>5, <1>8
<1> QED BY <1>9 DEF p

(* Two answers with nothing but results between them and a result are one. *)
LEMMA SameAsker ==
  ASSUME NEW k, NEW x \in Nat, NEW y \in 1..(x - 1), NEW z \in 1..(x - 1),
         IsAssistant(k[y]), IsAssistant(k[z]),
         \A l \in (y + 1)..x : IsTool(k[l]), \A l \in (z + 1)..x : IsTool(k[l])
  PROVE  y = z
<1>1. ~(IsAssistant(k[y]) /\ IsTool(k[y])) /\ ~(IsAssistant(k[z]) /\ IsTool(k[z]))
  BY DEF IsAssistant, IsTool
<1>2. y < z => z \in (y + 1)..x
  OBVIOUS
<1>3. z < y => y \in (z + 1)..x
  OBVIOUS
<1>4. ~(y < z) /\ ~(z < y)
  BY <1>1, <1>2, <1>3
<1> QED BY <1>4

LEMMA FirstPassSingle ==
  ASSUME NEW t \in Models, NEW h \in Seq(Msg), NEW n \in Nat,
         IdsStored(h, n), CallsApart(h), ResultsApart(h), ResultsOwned(h), NEW D, Distinct(FirstPass(h, t), D)
  PROVE  Single(FirstPass(h, t), D)
<1> DEFINE k == Kept(h)
           p == FirstPass(h, t)
<1>1. k \in Seq(Msg) /\ ResultsApart(k)
  BY KeptFacts
<1>2. /\ p \in Seq(Msg) /\ Len(p) = Len(k) /\ Len(p) \in Nat
      /\ \A i \in 1..Len(k) : IsTool(p[i]) <=> IsTool(k[i])
  BY FirstPassType
<1>3. ASSUME NEW x \in 1..Len(p), IsTool(p[x])
      PROVE  \/ \E y \in 1..Len(p), c \in Nat : AskedAs(k, p, y, x, c)
             \/ p[x].call \notin SentIds(h, t)
  BY <1>3, FirstPassAsks
<1>4. ASSUME NEW y \in 1..Len(p), IsAssistant(p[y]), NEW c \in 1..Len(p[y].calls)
      PROVE  p[y].calls[c] \in SentIds(h, t)
  BY <1>4, CallsAreSent
<1>5. Distinct(p, D)
  OBVIOUS
<1> HIDE DEF k, p
<1>6. ASSUME NEW y \in 1..Len(p), NEW x \in 1..Len(p), Asker(p, y, x)
      PROVE  \E c \in Nat : AskedAs(k, p, y, x, c)
  <2>1. /\ y \in 1..(x - 1) /\ IsAssistant(p[y]) /\ \A l \in (y + 1)..x : IsTool(p[l])
    BY <1>6 DEF Asker
  <2>2. PICK d \in 1..Len(p[y].calls) : p[x].call = p[y].calls[d]
    BY <1>6 DEF Asker
  <2>3. p[x].call \in SentIds(h, t)
    BY <1>4, <2>1, <2>2
  <2>4. x \in (y + 1)..x
    BY <2>1
  <2>5. PICK z \in 1..Len(p), c \in Nat : AskedAs(k, p, z, x, c)
    BY <1>3, <2>1, <2>3, <2>4
  <2>6. z \in 1..(x - 1) /\ IsAssistant(p[z]) /\ \A l \in (z + 1)..x : IsTool(p[l])
    BY <2>5 DEF AskedAs
  <2>7. x \in Nat
    BY <1>2
  <2>8. y = z
    BY <2>1, <2>6, <2>7, SameAsker
  <2> QED BY <2>5, <2>8
<1>7. ASSUME NEW y \in 1..Len(p), NEW x \in 1..Len(p), NEW z \in 1..Len(p),
             Asker(p, y, x), Asker(p, y, z), p[x].call = p[z].call, p[x].call \notin D
      PROVE  x = z
  <2>1. PICK c \in Nat : AskedAs(k, p, y, x, c)
    BY <1>6, <1>7
  <2>2. PICK d \in Nat : AskedAs(k, p, y, z, d)
    BY <1>6, <1>7
  <2>3. /\ IsAssistant(p[y]) /\ c \in 1..Len(p[y].calls) /\ d \in 1..Len(p[y].calls)
        /\ p[y].calls[c] = p[y].calls[d] /\ p[y].calls[c] \notin D
        /\ k[x].call = k[y].calls[c] /\ k[z].call = k[y].calls[d]
    BY <1>7, <2>1, <2>2 DEF AskedAs
  <2>4. c = d
    BY <1>5, <2>3 DEF Distinct
  <2>5. k[x].call.n = k[z].call.n
    BY <2>3, <2>4
  <2>6. x \in (y + 1)..x /\ z \in (y + 1)..z /\ IsTool(p[x]) /\ IsTool(p[z])
    <3>1. y \in 1..(x - 1) /\ y \in 1..(z - 1)
      BY <1>7 DEF Asker
    <3>2. x \in (y + 1)..x /\ z \in (y + 1)..z
      BY <3>1
    <3> QED BY <1>7, <3>2 DEF Asker
  <2> QED BY <1>1, <1>2, <2>5, <2>6 DEF ResultsApart
<1>8. Single(p, D)
  BY <1>7 DEF Single
<1> QED BY <1>8 DEF p

(* Other APIs than Mistral's leave the numbers of ids as they are. *)
LEMMA FirstPassNumbers ==
  ASSUME NEW t \in Models, t # "mistral", NEW h \in Seq(Msg), NEW n \in Nat,
         IdsStored(h, n), CallsApart(h), ResultsApart(h), ResultsOwned(h)
  PROVE  /\ CallsApart(FirstPass(h, t))
         /\ \A x \in 1..Len(FirstPass(h, t)) : IsTool(FirstPass(h, t)[x]) =>
              (\E y \in 1..Len(FirstPass(h, t)) : Asker(FirstPass(h, t), y, x)) \/ Orphan(FirstPass(h, t), x)
<1> DEFINE k == Kept(h)
           p == FirstPass(h, t)
<1>1. k \in Seq(Msg) /\ CallsApart(k)
  BY KeptFacts
<1>2. /\ p \in Seq(Msg) /\ Len(p) = Len(k) /\ Len(p) \in Nat
      /\ \A i \in 1..Len(k) :
              /\ IsAssistant(p[i]) <=> IsAssistant(k[i])
              /\ IsAssistant(k[i]) => p[i] = IF k[i].by # t THEN Foreign(k[i], t) ELSE k[i]
  BY FirstPassType
<1>3. ASSUME NEW x \in 1..Len(p), IsTool(p[x])
      PROVE  \/ \E y \in 1..Len(p), c \in Nat : AskedAs(k, p, y, x, c)
             \/ Orphan(k, x) /\ p[x].call = k[x].call
  BY <1>3, FirstPassAsks
<1> HIDE DEF k, p
<1>4. ASSUME NEW i \in 1..Len(p), IsAssistant(p[i])
      PROVE  /\ IsAssistant(k[i]) /\ Len(p[i].calls) = Len(k[i].calls)
             /\ \A c \in 1..Len(k[i].calls) : p[i].calls[c].n = k[i].calls[c].n
  <2>1. PICK a \in AnswerMsg : a = k[i] /\ IsAssistant(a)
    BY <1>1, <1>2, <1>4, MsgKinds
  <2>2. a.calls \in Seq(Id) /\ DOMAIN a.calls = 1..Len(a.calls) /\ Len(a.calls) \in Nat
    BY DEF AnswerMsg
  <2>3. p[i] = IF a.by # t THEN Foreign(a, t) ELSE a
    BY <1>2, <1>4, <2>1
  <2>4. CASE a.by = t
    BY <2>1, <2>3, <2>4
  <2>5. CASE a.by # t
    <3>1. p[i].calls = [c \in DOMAIN a.calls |-> Norm(t, a.calls[c])]
      BY <2>3, <2>5, ForeignType
    <3>2. Len(p[i].calls) = Len(a.calls)
      BY <2>2, <3>1
    <3>3. ASSUME NEW c \in 1..Len(a.calls) PROVE p[i].calls[c].n = a.calls[c].n
      <4>1. PICK id \in Id : id = a.calls[c]
        BY <2>2
      <4>2. p[i].calls[c] = Norm(t, id)
        BY <2>2, <3>1, <4>1
      <4> QED BY <4>1, <4>2, NormFacts
    <3> QED BY <2>1, <3>2, <3>3
  <2> QED BY <2>4, <2>5
<1>5. CallsApart(p)
  <2> SUFFICES ASSUME NEW i \in 1..Len(p), NEW j \in 1..Len(p), IsAssistant(p[i]), IsAssistant(p[j]),
                      NEW c \in 1..Len(p[i].calls), NEW d \in 1..Len(p[j].calls),
                      p[i].calls[c].n = p[j].calls[d].n
               PROVE  i = j /\ c = d
    BY DEF CallsApart
  <2>1. /\ i \in 1..Len(k) /\ j \in 1..Len(k) /\ IsAssistant(k[i]) /\ IsAssistant(k[j])
        /\ c \in 1..Len(k[i].calls) /\ d \in 1..Len(k[j].calls)
    BY <1>2, <1>4
  <2>2. k[i].calls[c].n = k[j].calls[d].n
    BY <1>4, <2>1
  <2> QED BY <1>1, <2>1, <2>2, SameCall
<1>6. ASSUME NEW x \in 1..Len(p), IsTool(p[x])
      PROVE  (\E y \in 1..Len(p) : Asker(p, y, x)) \/ Orphan(p, x)
  <2>1. ASSUME NEW y \in 1..Len(p), NEW c \in Nat, AskedAs(k, p, y, x, c) PROVE Asker(p, y, x)
    BY <2>1 DEF AskedAs, Asker
  <2>2. CASE Orphan(k, x) /\ p[x].call = k[x].call
    <3>1. ASSUME NEW i \in 1..Len(p), IsAssistant(p[i]), NEW c \in 1..Len(p[i].calls)
          PROVE  p[i].calls[c].n # p[x].call.n
      <4>1. i \in 1..Len(k) /\ IsAssistant(k[i]) /\ c \in 1..Len(k[i].calls) /\ p[i].calls[c].n = k[i].calls[c].n
        BY <1>2, <1>4, <3>1
      <4>2. k[i].calls[c].n # k[x].call.n
        BY <2>2, <4>1 DEF Orphan
      <4> QED BY <2>2, <4>1, <4>2
    <3> QED BY <3>1 DEF Orphan
  <2> QED BY <1>3, <1>6, <2>1, <2>2
<1> QED BY <1>5, <1>6 DEF p

-----------------------------------------------------------------------------
(* Calls and results: what the second pass makes of it *)

(* Every call that more than results follows has its result behind its answer. *)
Answered(k) ==
  \A y, z \in 1..Len(k) : IsAssistant(k[y]) /\ y < z /\ ~IsTool(k[z]) =>
    \A c \in 1..Len(k[y].calls) :
      \E x \in 1..Len(k) : Asker(k, y, x) /\ k[x].call = k[y].calls[c]

(* The message that is no result and came last is a of k and b of what has been made
   of the first i; found and pending are about what stands behind it. *)
Tail2(k, i, acc, a, b) ==
  /\ a \in 0..i /\ b \in 0..Len(acc.out) /\ Len(acc.out) - b = i - a
  /\ \A l \in 1..(i - a) : IsTool(k[a + l]) /\ acc.out[b + l] = k[a + l]
  /\ acc.found = {k[a + l].call : l \in 1..(i - a)}
  /\ a = 0 => b = 0 /\ acc.pending = <<>>
  /\ a > 0 => /\ b > 0 /\ acc.out[b] = k[a] /\ ~IsTool(k[a])
              /\ acc.pending = IF IsAssistant(k[a]) THEN k[a].calls ELSE <<>>

FromFirst(k, i, s) == \A y \in 1..Len(s) : IsTool(s[y]) \/ \E l \in 1..i : s[y] = k[l]

PairInv(D, k, i, acc) ==
  /\ Answered(acc.out)
  /\ Single(acc.out, D)
  /\ CallsApart(k) => CallsApart(acc.out)
  /\ FromFirst(k, i, acc.out)
  /\ \E a, b \in Nat : Tail2(k, i, acc, a, b)

Begins(a, b) == /\ Len(a) \in Nat /\ Len(b) \in Nat /\ Len(a) <= Len(b)
                /\ \A i \in 1..Len(a) : b[i] = a[i]

LEMMA AskerSame ==
  ASSUME NEW a, NEW b, Begins(a, b), NEW j \in 1..Len(a), NEW y
  PROVE  Asker(a, y, j) <=> Asker(b, y, j)
<1> SUFFICES ASSUME y \in 1..(j - 1) PROVE Asker(a, y, j) <=> Asker(b, y, j)
  BY DEF Asker
<1>1. \A l \in y..j : l \in 1..Len(a) /\ b[l] = a[l]
  BY DEF Begins
<1>2. y \in y..j /\ j \in y..j /\ \A l \in (y + 1)..j : l \in y..j
  BY DEF Begins
<1>3. b[y] = a[y] /\ b[j] = a[j] /\ \A l \in (y + 1)..j : b[l] = a[l]
  BY <1>1, <1>2
<1>4. (\A l \in (y + 1)..j : IsTool(a[l])) <=> (\A l \in (y + 1)..j : IsTool(b[l]))
  BY <1>3
<1> QED BY <1>3, <1>4 DEF Asker

(* Answers stay answered, in a longer list. *)
LEMMA AnsweredLonger ==
  ASSUME NEW k, NEW q, Begins(k, q), Answered(k),
         NEW y \in 1..Len(k), NEW z \in 1..Len(k), IsAssistant(k[y]), y < z, ~IsTool(k[z]),
         NEW c \in 1..Len(q[y].calls)
  PROVE  \E x \in 1..Len(q) : Asker(q, y, x) /\ q[x].call = q[y].calls[c]
<1>1. q[y] = k[y] /\ c \in 1..Len(k[y].calls)
  BY DEF Begins
<1>2. PICK x \in 1..Len(k) : Asker(k, y, x) /\ k[x].call = k[y].calls[c]
  BY <1>1 DEF Answered
<1>3. Asker(q, y, x)
  BY <1>2, AskerSame
<1>4. x \in 1..Len(q) /\ q[x] = k[x]
  BY <1>2 DEF Begins
<1> QED BY <1>1, <1>2, <1>3, <1>4

LEMMA PairToolStep ==
  ASSUME NEW D, NEW k \in Seq(Msg), Single(k, D), NEW i \in 1..Len(k), NEW acc \in Accs, PairInv(D, k, i - 1, acc),
         IsTool(k[i])
  PROVE  PairInv(D, k, i, Step(acc, k[i]))
<1> DEFINE new == Step(acc, k[i])
           out == acc.out
           m   == k[i]
           n   == Len(acc.out)
           q   == new.out
<1>1. out \in Seq(Msg) /\ n \in Nat /\ m \in Msg /\ i \in Nat /\ n = Len(out) /\ Len(k) \in Nat
  BY DEF Accs
<1>2. q = Append(out, m) /\ new.pending = acc.pending /\ new.found = acc.found \cup {m.call}
  BY StepType
<1>3. /\ q \in Seq(Msg) /\ Len(q) = n + 1 /\ q[n + 1] = m
      /\ \A j \in 1..n : q[j] = out[j]
  BY <1>1, <1>2
<1>4. /\ Answered(out) /\ Single(out, D) /\ (CallsApart(k) => CallsApart(out)) /\ FromFirst(k, i - 1, out)
  BY DEF PairInv
<1>5. PICK a \in Nat, b \in Nat : Tail2(k, i - 1, acc, a, b)
  BY DEF PairInv
<1>6. /\ a \in 0..(i - 1) /\ b \in 0..n /\ n - b = i - 1 - a
      /\ \A l \in 1..(i - 1 - a) : IsTool(k[a + l]) /\ out[b + l] = k[a + l]
      /\ acc.found = {k[a + l].call : l \in 1..(i - 1 - a)}
      /\ a = 0 => b = 0 /\ acc.pending = <<>>
      /\ a > 0 => /\ b > 0 /\ out[b] = k[a] /\ ~IsTool(k[a])
                  /\ acc.pending = IF IsAssistant(k[a]) THEN k[a].calls ELSE <<>>
  BY <1>5 DEF Tail2
<1>7. IsTool(m) /\ ~IsAssistant(m)
  BY <1>1, MsgKinds
<1> HIDE DEF new, out, m, n, q
<1>8. Begins(out, q)
  BY <1>1, <1>3 DEF Begins
<1>9. \A j \in 1..(n + 1) : j \in 1..n \/ j = n + 1
  BY <1>1
<1>10. Answered(q)
  <2> SUFFICES ASSUME NEW y \in 1..Len(q), NEW z \in 1..Len(q), IsAssistant(q[y]), y < z, ~IsTool(q[z]),
                      NEW c \in 1..Len(q[y].calls)
               PROVE  \E x \in 1..Len(q) : Asker(q, y, x) /\ q[x].call = q[y].calls[c]
    BY DEF Answered
  <2>1. z \in 1..n
    BY <1>3, <1>7, <1>9
  <2>2. y \in 1..n
    BY <1>1, <1>3, <2>1
  <2>3. IsAssistant(out[y]) /\ ~IsTool(out[z]) /\ y \in 1..Len(out) /\ z \in 1..Len(out)
    BY <1>1, <1>3, <2>1, <2>2
  <2> QED BY <1>4, <1>8, <2>3, AnsweredLonger
<1>11. ASSUME NEW l \in 1..(i - a) PROVE IsTool(k[a + l]) /\ q[b + l] = k[a + l]
  <2>1. CASE l = i - a
    <3>1. a + l = i /\ b + l = n + 1
      BY <1>1, <1>6, <2>1
    <3> QED BY <1>3, <1>7, <3>1 DEF m
  <2>2. CASE l \in 1..(i - 1 - a)
    <3>1. b + l \in 1..n
      BY <1>1, <1>6, <2>2
    <3>2. q[b + l] = out[b + l]
      BY <1>3, <3>1
    <3> QED BY <1>6, <2>2, <3>2
  <2>3. i \in Nat /\ a \in 0..(i - 1)
    BY <1>1, <1>6
  <2>4. l = i - a \/ l \in 1..(i - 1 - a)
    <3> HIDE DEF q, m, n
    <3> QED BY <2>3
  <2> QED BY <2>1, <2>2, <2>4
<1>12. ASSUME a > 0
       PROVE  b > 0 /\ q[b] = k[a] /\ ~IsTool(k[a]) /\ b \in 1..n /\ a \in 1..Len(k)
  <2>1. b > 0 /\ b \in 1..n /\ a \in 1..Len(k)
    BY <1>1, <1>6, <1>12
  <2> QED BY <1>3, <1>6, <1>12, <2>1
<1>13. n + 1 - b = i - a
  BY <1>1, <1>6
<1>14. ASSUME NEW y \in 1..(n + 1), NEW z \in 1..(n + 1), Asker(q, y, n + 1), Asker(q, y, z), q[z].call = q[n + 1].call,
              q[n + 1].call \notin D
       PROVE  z = n + 1
  <2>1. /\ y \in 1..n /\ IsAssistant(q[y]) /\ \A l \in (y + 1)..(n + 1) : IsTool(q[l])
    BY <1>1, <1>14 DEF Asker
  <2>2. ~IsTool(q[y])
    BY <2>1 DEF IsTool, IsAssistant
  <2>3. y <= b
    <3>1. SUFFICES ASSUME y > b PROVE FALSE
      BY <1>1, <1>6
    <3>2. y - b \in 1..(i - a) /\ b + (y - b) = y
      BY <1>1, <1>6, <1>13, <2>1, <3>1
    <3> QED BY <1>11, <2>2, <3>2
  <2>4. a > 0
    BY <1>1, <1>6, <2>1, <2>3
  <2>5. b \in 1..n /\ q[b] = k[a] /\ ~IsTool(q[b]) /\ a \in 1..Len(k)
    BY <1>12, <2>4
  <2>6. y = b
    <3>1. b \notin (y + 1)..(n + 1)
      BY <2>1, <2>5
    <3> QED BY <1>1, <2>1, <2>3, <2>5, <3>1
  <2>7. z \in (b + 1)..(n + 1) /\ \E c \in 1..Len(q[b].calls) : q[z].call = q[b].calls[c]
    BY <1>1, <1>14, <2>5, <2>6 DEF Asker
  <2>8. PICK l \in 1..(i - a) : z = b + l
    <3>1. z - b \in 1..(i - a) /\ z = b + (z - b)
      BY <1>1, <1>6, <1>13, <2>7
    <3> QED BY <3>1
  <2>9. ASSUME NEW j \in 1..(i - a), \E c \in 1..Len(k[a].calls) : k[a + j].call = k[a].calls[c]
        PROVE  a + j \in 1..Len(k) /\ Asker(k, a, a + j)
    <3>1. a + j \in 1..Len(k) /\ a \in 1..(a + j - 1)
      BY <1>1, <2>4, <2>9
    <3>2. ASSUME NEW x \in (a + 1)..(a + j) PROVE IsTool(k[x])
      <4>1. x - a \in 1..(i - a) /\ a + (x - a) = x
        BY <1>1, <2>9, <3>2
      <4> QED BY <1>11, <4>1
    <3>3. IsAssistant(k[a])
      BY <2>1, <2>5, <2>6
    <3>4. PICK x : x = a + j
      OBVIOUS
    <3>5. a \in 1..(x - 1) /\ \A w \in (a + 1)..x : IsTool(k[w])
      BY <3>1, <3>2, <3>4
    <3>6. \E c \in 1..Len(k[a].calls) : k[x].call = k[a].calls[c]
      BY <2>9, <3>4
    <3>7. Asker(k, a, x)
      BY <3>3, <3>5, <3>6 DEF Asker
    <3> QED BY <3>1, <3>4, <3>7
  <2>10. i - a \in 1..(i - a) /\ a + (i - a) = i
    BY <1>1, <1>6
  <2>11. k[a + l].call = q[z].call /\ k[i].call = q[n + 1].call
    BY <1>3, <1>11, <2>8 DEF m
  <2>12. Asker(k, a, a + l) /\ a + l \in 1..Len(k)
    BY <2>5, <2>7, <2>8, <2>9, <2>11
  <2>13. Asker(k, a, i)
    <3>1. \E c \in 1..Len(k[a].calls) : k[i].call = k[a].calls[c]
      BY <1>14, <2>5, <2>7, <2>11
    <3>2. Asker(k, a, a + (i - a))
      BY <2>9, <2>10, <3>1
    <3> QED BY <2>10, <3>2
  <2>14. i = a + l
    BY <1>14, <2>5, <2>11, <2>12, <2>13 DEF Single
  <2> QED BY <1>1, <1>6, <1>13, <2>8, <2>14
<1>15. Single(q, D)
  <2> SUFFICES ASSUME NEW y \in 1..Len(q), NEW x \in 1..Len(q), NEW z \in 1..Len(q),
                      Asker(q, y, x), Asker(q, y, z), q[x].call = q[z].call, q[x].call \notin D
               PROVE  x = z
    BY DEF Single
  <2>1. CASE x = n + 1
    BY <1>3, <1>14, <2>1
  <2>2. CASE z = n + 1
    BY <1>3, <1>14, <2>2
  <2>3. CASE x \in 1..n /\ z \in 1..n
    <3>1. x \in 1..Len(out) /\ z \in 1..Len(out) /\ q[x] = out[x] /\ q[z] = out[z]
      BY <1>1, <1>3, <2>3
    <3>2. Asker(out, y, x) /\ Asker(out, y, z)
      BY <1>8, <3>1, AskerSame
    <3>3. y \in 1..Len(out)
      BY <1>1, <3>1, <3>2 DEF Asker
    <3> QED BY <1>4, <3>1, <3>2, <3>3 DEF Single
  <2> QED BY <1>3, <1>9, <2>1, <2>2, <2>3
<1>16. CallsApart(k) => CallsApart(q)
  <2> SUFFICES ASSUME CallsApart(out), NEW y \in 1..Len(q), NEW z \in 1..Len(q), IsAssistant(q[y]), IsAssistant(q[z]),
                      NEW c \in 1..Len(q[y].calls), NEW d \in 1..Len(q[z].calls), q[y].calls[c].n = q[z].calls[d].n
               PROVE  y = z /\ c = d
    BY <1>4 DEF CallsApart
  <2>1. y \in 1..n /\ z \in 1..n
    BY <1>3, <1>7, <1>9
  <2>2. q[y] = out[y] /\ q[z] = out[z] /\ y \in 1..Len(out) /\ z \in 1..Len(out)
    BY <1>1, <1>3, <2>1
  <2>3. /\ IsAssistant(out[y]) /\ IsAssistant(out[z]) /\ c \in 1..Len(out[y].calls) /\ d \in 1..Len(out[z].calls)
        /\ out[y].calls[c].n = out[z].calls[d].n
    BY <2>2
  <2>4. CallAt(out, y, c) /\ CallAt(out, z, d)
    BY <2>2, <2>3 DEF CallAt
  <2> QED BY <2>3, <2>4, SameCallAt
<1>17. FromFirst(k, i, q)
  <2> SUFFICES ASSUME NEW y \in 1..Len(q), ~IsTool(q[y]) PROVE \E l \in 1..i : q[y] = k[l]
    BY DEF FromFirst
  <2>1. y \in 1..n
    BY <1>3, <1>7, <1>9
  <2>2. PICK l \in 1..(i - 1) : out[y] = k[l]
    BY <1>1, <1>3, <1>4, <2>1 DEF FromFirst
  <2>3. l \in 1..i
    BY <1>1
  <2> QED BY <1>3, <2>1, <2>2, <2>3
<1>18. new.found = {k[a + l].call : l \in 1..(i - a)}
  <2>1. \A l \in 1..(i - a) : l = i - a \/ l \in 1..(i - 1 - a)
    <3>1. i \in Nat /\ a \in Nat
      BY <1>1, <1>6
    <3> QED BY <3>1
  <2>2. i - a \in 1..(i - a) /\ a + (i - a) = i /\ \A l \in 1..(i - 1 - a) : l \in 1..(i - a)
    BY <1>1, <1>6
  <2>3. m.call = k[a + (i - a)].call
    BY <2>2 DEF m
  <2> QED BY <1>2, <1>6, <2>1, <2>2, <2>3
<1>19. Tail2(k, i, new, a, b)
  <2>1. a \in 0..i /\ b \in 0..Len(q) /\ Len(q) - b = i - a
    BY <1>1, <1>3, <1>6, <1>13
  <2>2. a = 0 => b = 0 /\ new.pending = <<>>
    BY <1>2, <1>6
  <2>3. a > 0 => b > 0 /\ q[b] = k[a] /\ ~IsTool(k[a]) /\ new.pending = IF IsAssistant(k[a]) THEN k[a].calls ELSE <<>>
    BY <1>2, <1>6, <1>12
  <2> QED BY <1>11, <1>18, <2>1, <2>2, <2>3 DEF Tail2, q
<1>20. PairInv(D, k, i, new)
  BY <1>10, <1>15, <1>16, <1>17, <1>19 DEF PairInv, q
<1> QED BY <1>20 DEF new

(* A call without a result gets no more than one, but for those in D. *)
LEMMA MissingOnce ==
  ASSUME NEW acc \in Accs, NEW D,
         \A c, d \in 1..Len(acc.pending) : acc.pending[c] = acc.pending[d] => c = d \/ acc.pending[c] \in D
  PROVE  \A i, j \in 1..Len(Missing(acc)) :
           Missing(acc)[i].call = Missing(acc)[j].call => i = j \/ Missing(acc)[i].call \in D
<1> DEFINE pend == acc.pending
           I    == {i \in DOMAIN pend : pend[i] \notin acc.found}
           open == Picked(pend, I)
           ms   == Missing(acc)
<1>1. pend \in Seq(Id)
  BY DEF Accs
<1>2. \A c, d \in 1..Len(pend) : pend[c] = pend[d] => c = d \/ pend[c] \in D
  OBVIOUS
<1>3. ms = [i \in DOMAIN open |-> Synthetic(open[i])]
  BY DEF Missing
<1> HIDE DEF pend, I
<1>4. open \in Seq(Id) /\ \E e : Embeds(e, open, pend, I, Len(pend))
  BY <1>1, PickedEmbeds
<1> HIDE DEF open, ms
<1>5. PICK e : Embeds(e, open, pend, I, Len(pend))
  BY <1>4
<1>6. \A id \in Id : Synthetic(id).call = id
  BY DEF Synthetic
<1>7. /\ DOMAIN open = 1..Len(open) /\ Len(open) \in Nat
      /\ \A i \in 1..Len(open) : open[i] \in Id
  BY <1>4
<1>8. Len(ms) = Len(open) /\ \A i \in 1..Len(open) : ms[i].call = open[i]
  BY <1>3, <1>6, <1>7
<1>9. ASSUME NEW i \in 1..Len(open), NEW j \in 1..Len(open), open[i] = open[j], open[i] \notin D PROVE i = j
  <2>1. /\ e[i] \in 1..Len(pend) /\ e[j] \in 1..Len(pend) /\ pend[e[i]] = pend[e[j]] /\ pend[e[i]] = open[i]
        /\ (i < j => e[i] < e[j]) /\ (j < i => e[j] < e[i])
    BY <1>5, <1>9 DEF Embeds
  <2>2. e[i] = e[j]
    BY <1>2, <1>9, <2>1
  <2>3. Len(pend) \in Nat /\ i \in Nat /\ j \in Nat
    BY <1>1, <1>7
  <2> QED BY <2>1, <2>2, <2>3
<1>10. \A i, j \in 1..Len(ms) : ms[i].call = ms[j].call => i = j \/ ms[i].call \in D
  BY <1>8, <1>9
<1> QED BY <1>10 DEF ms

LEMMA PairOtherStep ==
  ASSUME NEW D, NEW k \in Seq(Msg), Distinct(k, D), NEW i \in 1..Len(k), NEW acc \in Accs, PairInv(D, k, i - 1, acc),
         ~IsTool(k[i])
  PROVE  PairInv(D, k, i, Step(acc, k[i]))
<1> DEFINE new == Step(acc, k[i])
           out == acc.out
           m   == k[i]
           n   == Len(acc.out)
           ms  == Missing(acc)
           s   == Len(Missing(acc))
           om  == out \o ms
           q   == new.out
           pend == acc.pending
<1>1. /\ out \in Seq(Msg) /\ n \in Nat /\ m \in Msg /\ i \in Nat /\ n = Len(out) /\ s = Len(ms)
      /\ Len(k) \in Nat /\ ~IsTool(m) /\ pend \in Seq(Id)
  BY DEF Accs
<1>2. /\ q = Append(om, m) /\ new.found = {}
      /\ new.pending = IF IsAssistant(m) THEN m.calls ELSE <<>>
  <2>1. k[i] \in Msg /\ ~IsTool(k[i])
    BY <1>1
  <2>2. PICK r \in Msg : r = k[i]
    BY <2>1
  <2>3. ~IsTool(r) => /\ Step(acc, r).out = Append(acc.out \o Missing(acc), r)
                      /\ Step(acc, r).pending = IF IsAssistant(r) THEN r.calls ELSE <<>>
                      /\ Step(acc, r).found = {}
    BY StepType
  <2> QED BY <2>1, <2>2, <2>3
<1>3. /\ Answered(out) /\ Single(out, D) /\ (CallsApart(k) => CallsApart(out)) /\ FromFirst(k, i - 1, out)
  BY DEF PairInv
<1>4. PICK a \in Nat, b \in Nat : Tail2(k, i - 1, acc, a, b)
  BY DEF PairInv
<1>5. /\ a \in 0..(i - 1) /\ b \in 0..n /\ n - b = i - 1 - a
      /\ \A l \in 1..(i - 1 - a) : IsTool(k[a + l]) /\ out[b + l] = k[a + l]
      /\ acc.found = {k[a + l].call : l \in 1..(i - 1 - a)}
      /\ a = 0 => b = 0 /\ pend = <<>>
      /\ a > 0 => /\ b > 0 /\ out[b] = k[a] /\ ~IsTool(k[a])
                  /\ pend = IF IsAssistant(k[a]) THEN k[a].calls ELSE <<>>
  BY <1>4 DEF Tail2
<1>6. \A c, d \in 1..Len(pend) : pend[c] = pend[d] => c = d \/ pend[c] \in D
  <2>1. CASE a > 0 /\ IsAssistant(k[a])
    <3>1. a \in 1..Len(k) /\ pend = k[a].calls
      BY <1>1, <1>5, <2>1
    <3> HIDE DEF pend
    <3> QED BY <2>1, <3>1 DEF Distinct
  <2>2. CASE ~(a > 0 /\ IsAssistant(k[a]))
    <3>1. pend = <<>>
      BY <1>5, <2>2
    <3>2. 1..Len(pend) = {}
      BY <3>1
    <3> QED BY <3>2
  <2> QED BY <2>1, <2>2
<1>7. /\ ms \in Seq(Msg) /\ s \in Nat
      /\ \A j \in 1..s : IsTool(ms[j]) /\ ms[j].call \notin acc.found
      /\ \A c \in 1..Len(pend) : pend[c] \in acc.found \/ \E j \in 1..s : ms[j].call = pend[c]
      /\ \A j, l \in 1..s : ms[j].call = ms[l].call => j = l \/ ms[j].call \in D
  <2>1. /\ Missing(acc) \in Seq(Msg)
        /\ \A j \in 1..Len(Missing(acc)) :
             /\ Missing(acc)[j] \in ToolMsg /\ Missing(acc)[j].synthetic
             /\ \E c \in 1..Len(acc.pending) : /\ Missing(acc)[j].call = acc.pending[c]
                                               /\ acc.pending[c] \notin acc.found
        /\ \A c \in 1..Len(acc.pending) : acc.pending[c] \notin acc.found =>
             \E j \in 1..Len(Missing(acc)) : Missing(acc)[j].call = acc.pending[c]
    BY MissingType
  <2>2. \A j, l \in 1..Len(Missing(acc)) :
          Missing(acc)[j].call = Missing(acc)[l].call => j = l \/ Missing(acc)[j].call \in D
    <3>1. \A c, d \in 1..Len(acc.pending) : acc.pending[c] = acc.pending[d] => c = d \/ acc.pending[c] \in D
      BY <1>6
    <3> QED BY <3>1, MissingOnce
  <2>3. \A r \in ToolMsg : IsTool(r)
    BY DEF ToolMsg, IsTool
  <2>4. ms \in Seq(Msg)
    BY <2>1
  <2>5. s \in Nat
    BY <2>4
  <2>6. \A j \in 1..s : IsTool(ms[j]) /\ ms[j].call \notin acc.found
    BY <2>1, <2>3
  <2>7. \A c \in 1..Len(pend) : pend[c] \in acc.found \/ \E j \in 1..s : ms[j].call = pend[c]
    BY <2>1
  <2>8. \A j, l \in 1..s : ms[j].call = ms[l].call => j = l \/ ms[j].call \in D
    BY <2>2
  <2> QED BY <2>4, <2>5, <2>6, <2>7, <2>8
<1> HIDE DEF new, out, m, n, ms, s, pend
<1>8. om \in Seq(Msg) /\ Len(om) = n + s /\ (\A j \in 1..n : om[j] = out[j]) /\ \A j \in 1..s : om[n + j] = ms[j]
  BY <1>1, <1>7, ConcatFacts
<1> HIDE DEF om, q
<1>9. /\ q \in Seq(Msg) /\ Len(q) = n + s + 1 /\ q[n + s + 1] = m
      /\ \A j \in 1..(n + s) : q[j] = om[j]
  <2>1. /\ Append(om, m) \in Seq(Msg) /\ Len(Append(om, m)) = Len(om) + 1
        /\ Append(om, m)[Len(om) + 1] = m /\ \A j \in 1..Len(om) : Append(om, m)[j] = om[j]
    <3>1. om \in Seq(Msg) /\ m \in Msg
      BY <1>1, <1>8
    <3> QED BY <3>1
  <2> QED BY <1>2, <1>8, <2>1
<1>10. /\ \A j \in 1..n : q[j] = out[j] /\ j \in 1..(n + s + 1)
       /\ \A j \in 1..s : q[n + j] = ms[j] /\ n + j \in 1..(n + s + 1)
  <2>1. \A j \in 1..n : j \in 1..(n + s) /\ j \in 1..(n + s + 1)
    BY <1>1, <1>7
  <2>2. \A j \in 1..s : n + j \in 1..(n + s) /\ n + j \in 1..(n + s + 1)
    BY <1>1, <1>7
  <2> QED BY <1>8, <1>9, <2>1, <2>2
<1>11. ASSUME NEW j \in (n + 1)..(n + s)
       PROVE  \E d \in 1..s : j = n + d
  <2>1. n \in Nat /\ s \in Nat
    BY <1>1, <1>7
  <2>2. j - n \in 1..s /\ j = n + (j - n)
    BY <2>1
  <2> QED BY <2>2
<1>12. ASSUME NEW j \in (b + 1)..n
       PROVE  \E l \in 1..(i - 1 - a) : j = b + l /\ q[j] = k[a + l] /\ IsTool(q[j])
  <2>1. j - b \in 1..(i - 1 - a) /\ j = b + (j - b) /\ j \in 1..n
    BY <1>1, <1>5
  <2>2. PICK l \in 1..(i - 1 - a) : j = b + l
    BY <2>1
  <2>3. q[j] = out[b + l]
    BY <1>10, <2>1, <2>2
  <2> QED BY <1>5, <2>2, <2>3
<1>13. ASSUME NEW j \in (b + 1)..(n + s) PROVE IsTool(q[j])
  <2>1. CASE j \in (b + 1)..n
    BY <1>12, <2>1
  <2>2. CASE j \in (n + 1)..(n + s)
    <3>1. PICK d \in 1..s : j = n + d
      BY <1>11, <2>2
    <3> QED BY <1>7, <1>10, <3>1
  <2>3. n \in Nat /\ s \in Nat /\ b \in 0..n
    BY <1>1, <1>5, <1>7
  <2>4. j \in (b + 1)..n \/ j \in (n + 1)..(n + s)
    BY <2>3
  <2> QED BY <2>1, <2>2, <2>4
<1>14. Begins(out, q)
  BY <1>1, <1>7, <1>9, <1>10 DEF Begins
<1>15. ASSUME NEW y \in 1..(n + s + 1), IsAssistant(q[y]), y # n + s + 1
       PROVE  y \in 1..b
  <2>1. ~IsTool(q[y])
    BY <1>15 DEF IsTool, IsAssistant
  <2>2. y \notin (b + 1)..(n + s)
    BY <1>13, <2>1
  <2>3. n \in Nat /\ s \in Nat /\ b \in 0..n
    BY <1>1, <1>5, <1>7
  <2> QED BY <1>15, <2>2, <2>3
<1>16. ASSUME b > 0
       PROVE  /\ a \in 1..Len(k) /\ b \in 1..n /\ q[b] = k[a] /\ ~IsTool(q[b]) /\ out[b] = k[a]
              /\ IsAssistant(q[b]) => pend = q[b].calls
  <2>1. a > 0
    BY <1>1, <1>5, <1>16
  <2>2. a \in 1..Len(k) /\ b \in 1..n
    BY <1>1, <1>5, <1>16, <2>1
  <2> QED BY <1>5, <1>10, <2>1, <2>2
<1>17. Answered(q)
  <2> SUFFICES ASSUME NEW y \in 1..Len(q), NEW z \in 1..Len(q), IsAssistant(q[y]), y < z, ~IsTool(q[z]),
                      NEW c \in 1..Len(q[y].calls)
               PROVE  \E x \in 1..Len(q) : Asker(q, y, x) /\ q[x].call = q[y].calls[c]
    BY DEF Answered
  <2>1. y \in 1..b /\ b > 0 /\ y \in 1..n
    <3>1. y # n + s + 1 /\ y \in 1..(n + s + 1)
      BY <1>1, <1>7, <1>9
    <3>2. y \in 1..b
      BY <1>15, <3>1
    <3> QED BY <1>1, <1>5, <3>2
  <2>2. CASE y < b
    <3>1. b \in 1..Len(out) /\ y \in 1..Len(out) /\ IsAssistant(out[y]) /\ ~IsTool(out[b])
      BY <1>1, <1>10, <1>16, <2>1
    <3> QED BY <1>3, <1>14, <2>2, <3>1, AnsweredLonger
  <2>3. CASE y = b
    <3>1. pend = q[b].calls /\ c \in 1..Len(pend) /\ IsAssistant(q[b])
      BY <1>16, <2>1, <2>3
    <3>2. ASSUME NEW x \in (b + 1)..(n + s), q[x].call = pend[c]
          PROVE  x \in 1..Len(q) /\ Asker(q, y, x) /\ q[x].call = q[y].calls[c]
      <4>1. x \in 1..(n + s + 1) /\ b \in 1..(x - 1) /\ \A l \in (b + 1)..x : l \in (b + 1)..(n + s)
        <5>1. n \in Nat /\ s \in Nat /\ b \in 1..n
          BY <1>1, <1>7, <1>16, <2>1
        <5> QED BY <5>1
      <4>2. \A l \in (b + 1)..x : IsTool(q[l])
        BY <1>13, <4>1
      <4>3. Asker(q, b, x)
        BY <3>1, <3>2, <4>1, <4>2 DEF Asker
      <4> QED BY <1>9, <2>3, <3>1, <3>2, <4>1, <4>3
    <3>3. CASE pend[c] \in acc.found
      <4>1. PICK l \in 1..(i - 1 - a) : k[a + l].call = pend[c]
        BY <1>5, <3>3
      <4>2. b + l \in (b + 1)..n /\ b + l \in (b + 1)..(n + s) /\ b + l \in 1..n
        <5>1. n \in Nat /\ s \in Nat /\ b \in Nat /\ l \in Nat /\ 1 <= l /\ b + l <= n
          <6>1. b <= n /\ n - b = i - 1 - a
            BY <1>1, <1>5
          <6>2. i - 1 - a \in Int
            BY <1>5
          <6>3. l \in Int /\ 1 <= l /\ l <= i - 1 - a
            BY <4>1, <6>2
          <6> QED BY <1>1, <1>5, <1>7, <6>1, <6>3
        <5>2. \A u, v, w, x \in Nat : 1 <= x /\ w + x <= u =>
                w + x \in (w + 1)..u /\ w + x \in (w + 1)..(u + v) /\ w + x \in 1..u
          OBVIOUS
        <5> QED BY <5>1, <5>2
      <4>3. q[b + l] = k[a + l]
        BY <1>5, <1>10, <4>2
      <4>4. q[b + l].call = pend[c]
        BY <4>1, <4>3
      <4> QED BY <3>2, <4>2, <4>4
    <3>4. CASE pend[c] \notin acc.found
      <4>1. PICK j \in 1..s : ms[j].call = pend[c]
        BY <1>7, <3>1, <3>4
      <4>2. n + j \in (b + 1)..(n + s) /\ q[n + j].call = pend[c]
        <5>1. n + j \in (b + 1)..(n + s)
          BY <1>1, <1>5, <1>7
        <5> QED BY <1>10, <4>1, <5>1
      <4> QED BY <3>2, <4>2
    <3> QED BY <3>3, <3>4
  <2> QED BY <2>1, <2>2, <2>3
<1>18. ASSUME NEW y \in 1..(n + s + 1), NEW x \in 1..(n + s + 1), Asker(q, y, x)
       PROVE  /\ y \in 1..b /\ IsAssistant(q[y]) /\ IsTool(q[x]) /\ x \in 1..(n + s)
              /\ y < b => x < b
              /\ y = b => x \in (b + 1)..(n + s)
  <2>1. y \in 1..(x - 1) /\ IsAssistant(q[y]) /\ \A l \in (y + 1)..x : IsTool(q[l])
    BY <1>18 DEF Asker
  <2>2. x \in (y + 1)..x /\ y # n + s + 1
    BY <2>1, <1>1, <1>7
  <2>3. IsTool(q[x])
    BY <2>1, <2>2
  <2>4. x # n + s + 1
    BY <1>1, <1>9, <2>3
  <2>5. y \in 1..b
    <3>1. y \in 1..(n + s + 1) /\ IsAssistant(q[y]) /\ y # n + s + 1
      BY <2>1, <2>2
    <3> QED BY <1>15, <3>1
  <2>6. x \in 1..(n + s)
    <3>1. n \in Nat /\ s \in Nat /\ x \in 1..(n + s + 1) /\ x # n + s + 1
      BY <1>1, <1>7, <2>4
    <3> QED BY <3>1
  <2>7. b > 0
    BY <2>5
  <2>8. b \notin (y + 1)..x
    BY <1>16, <2>1, <2>7
  <2>9. y < b => x < b
    BY <1>1, <1>5, <2>1, <2>6, <2>8
  <2>10. y = b => x \in (b + 1)..(n + s)
    BY <1>1, <1>5, <2>1, <2>6
  <2> QED BY <2>1, <2>3, <2>5, <2>6, <2>9, <2>10
<1>19. ASSUME NEW y \in 1..n, NEW x \in 1..n, NEW z \in 1..n, Asker(q, y, x), Asker(q, y, z), q[x].call = q[z].call,
              q[x].call \notin D
       PROVE  x = z
  <2>1. x \in 1..Len(out) /\ z \in 1..Len(out) /\ q[x] = out[x] /\ q[z] = out[z] /\ y \in 1..Len(out)
    BY <1>1, <1>10
  <2>2. Asker(out, y, x) /\ Asker(out, y, z)
    BY <1>14, <1>19, <2>1, AskerSame
  <2> QED BY <1>3, <1>19, <2>1, <2>2 DEF Single
<1>20. ASSUME NEW x \in (b + 1)..n, NEW z \in (n + 1)..(n + s) PROVE q[x].call # q[z].call
  <2>1. q[x].call \in acc.found
    <3>1. PICK l \in 1..(i - 1 - a) : q[x] = k[a + l]
      BY <1>12
    <3> QED BY <1>5, <3>1
  <2>2. q[z].call \notin acc.found
    <3>1. PICK d \in 1..s : z = n + d
      BY <1>11
    <3> QED BY <1>7, <1>10, <3>1
  <2> QED BY <2>1, <2>2
<1>21. ASSUME NEW x \in (n + 1)..(n + s), NEW z \in (n + 1)..(n + s), q[x].call = q[z].call, q[x].call \notin D
       PROVE  x = z
  <2>1. PICK d \in 1..s : x = n + d
    BY <1>11
  <2>2. PICK e \in 1..s : z = n + e
    BY <1>11
  <2>3. ms[d].call = ms[e].call /\ ms[d].call \notin D
    BY <1>10, <1>21, <2>1, <2>2
  <2>4. d = e
    BY <1>7, <2>3
  <2> QED BY <2>1, <2>2, <2>4
<1>22. Single(q, D)
  <2> SUFFICES ASSUME NEW y \in 1..(n + s + 1), NEW x \in 1..(n + s + 1), NEW z \in 1..(n + s + 1),
                      Asker(q, y, x), Asker(q, y, z), q[x].call = q[z].call, q[x].call \notin D
               PROVE  x = z
    BY <1>9 DEF Single
  <2>1. /\ y \in 1..b /\ (y < b => x < b /\ z < b)
        /\ (y = b => x \in (b + 1)..(n + s) /\ z \in (b + 1)..(n + s))
    BY <1>18
  <2>2. n \in Nat /\ s \in Nat /\ b \in 0..n
    BY <1>1, <1>5, <1>7
  <2>3. CASE y < b
    <3>1. x \in 1..n /\ z \in 1..n /\ y \in 1..n
      BY <2>1, <2>2, <2>3
    <3> QED BY <1>19, <3>1
  <2>4. CASE y = b
    <3>1. /\ x \in (b + 1)..n \/ x \in (n + 1)..(n + s)
          /\ z \in (b + 1)..n \/ z \in (n + 1)..(n + s)
      BY <2>1, <2>2, <2>4
    <3>2. CASE x \in (b + 1)..n /\ z \in (b + 1)..n
      <4>1. x \in 1..n /\ z \in 1..n /\ y \in 1..n
        BY <2>1, <2>2, <3>2
      <4> QED BY <1>19, <4>1
    <3>3. CASE x \in (n + 1)..(n + s) /\ z \in (n + 1)..(n + s)
      BY <1>21, <3>3
    <3> QED BY <1>20, <3>1, <3>2, <3>3
  <2>5. y < b \/ y = b
    BY <2>1, <2>2
  <2> QED BY <2>3, <2>4, <2>5
<1>23. ASSUME NEW y \in 1..(n + s + 1), IsAssistant(q[y])
       PROVE  \/ y = n + s + 1 /\ q[y] = m
              \/ /\ y \in 1..n /\ q[y] = out[y] /\ y # n + s + 1
                 /\ \E l \in 1..(i - 1) : q[y] = k[l]
  <2>1. CASE y = n + s + 1
    BY <1>9, <2>1
  <2>2. CASE y # n + s + 1
    <3>1. y \in 1..n
      <4>1. y \in 1..b
        BY <1>15, <1>23, <2>2
      <4> QED BY <1>1, <1>5, <4>1
    <3>2. q[y] = out[y] /\ ~IsTool(q[y])
      BY <1>10, <1>23, <3>1 DEF IsTool, IsAssistant
    <3>3. \E l \in 1..(i - 1) : q[y] = k[l]
      BY <1>1, <1>3, <3>1, <3>2 DEF FromFirst
    <3> QED BY <2>2, <3>1, <3>2, <3>3
  <2> QED BY <2>1, <2>2
<1>24. CallsApart(k) => CallsApart(q)
  <2> SUFFICES ASSUME CallsApart(k), CallsApart(out), NEW y \in 1..(n + s + 1), NEW z \in 1..(n + s + 1),
                      IsAssistant(q[y]), IsAssistant(q[z]),
                      NEW c \in 1..Len(q[y].calls), NEW d \in 1..Len(q[z].calls), q[y].calls[c].n = q[z].calls[d].n
               PROVE  y = z /\ c = d
    BY <1>3, <1>9 DEF CallsApart
  <2>1. m = k[i] /\ i \in 1..Len(k) /\ \A l \in 1..(i - 1) : l \in 1..Len(k) /\ l # i
    BY <1>1 DEF m
  <2>2. CASE y = n + s + 1 /\ z = n + s + 1
    <3>1. IsAssistant(k[i]) /\ c \in 1..Len(k[i].calls) /\ d \in 1..Len(k[i].calls) /\ k[i].calls[c].n = k[i].calls[d].n
      BY <1>9, <2>1, <2>2
    <3>2. c = d
      <4>1. CallAt(k, i, c) /\ CallAt(k, i, d)
        BY <2>1, <3>1 DEF CallAt
      <4> QED BY <3>1, <4>1, SameCallAt
    <3> QED BY <2>2, <3>2
  <2>3. CASE y = n + s + 1 /\ z # n + s + 1
    <3>1. PICK l \in 1..(i - 1) : q[z] = k[l]
      BY <1>23, <2>3
    <3>2. q[y] = k[i] /\ l \in 1..Len(k) /\ l # i
      BY <1>9, <2>1, <2>3
    <3>3. i = l
      <4>1. /\ IsAssistant(k[i]) /\ IsAssistant(k[l]) /\ c \in 1..Len(k[i].calls) /\ d \in 1..Len(k[l].calls)
            /\ k[i].calls[c].n = k[l].calls[d].n
        BY <3>1, <3>2
      <4>2. CallAt(k, i, c) /\ CallAt(k, l, d)
        BY <2>1, <3>2, <4>1 DEF CallAt
      <4> QED BY <4>1, <4>2, SameCallAt
    <3> QED BY <3>2, <3>3
  <2>4. CASE y # n + s + 1 /\ z = n + s + 1
    <3>1. PICK l \in 1..(i - 1) : q[y] = k[l]
      BY <1>23, <2>4
    <3>2. q[z] = k[i] /\ l \in 1..Len(k) /\ l # i
      BY <1>9, <2>1, <2>4
    <3>3. l = i
      <4>1. /\ IsAssistant(k[i]) /\ IsAssistant(k[l]) /\ c \in 1..Len(k[l].calls) /\ d \in 1..Len(k[i].calls)
            /\ k[l].calls[c].n = k[i].calls[d].n
        BY <3>1, <3>2
      <4>2. CallAt(k, i, d) /\ CallAt(k, l, c)
        BY <2>1, <3>2, <4>1 DEF CallAt
      <4> QED BY <4>1, <4>2, SameCallAt
    <3> QED BY <3>2, <3>3
  <2>5. CASE y # n + s + 1 /\ z # n + s + 1
    <3>1. y \in 1..n /\ q[y] = out[y] /\ z \in 1..n /\ q[z] = out[z]
      BY <1>23, <2>5
    <3>2. y \in 1..Len(out) /\ z \in 1..Len(out)
      BY <1>1, <3>1
    <3>3. out[y].calls[c].n = out[z].calls[d].n /\ CallAt(out, y, c) /\ CallAt(out, z, d)
      BY <3>1, <3>2 DEF CallAt
    <3> QED BY <3>3, SameCallAt
  <2> QED BY <2>2, <2>3, <2>4, <2>5
<1>25. FromFirst(k, i, q)
  <2> SUFFICES ASSUME NEW y \in 1..(n + s + 1), ~IsTool(q[y]) PROVE \E l \in 1..i : q[y] = k[l]
    BY <1>9 DEF FromFirst
  <2>1. CASE y = n + s + 1
    BY <1>1, <1>9, <2>1 DEF m
  <2>2. CASE y # n + s + 1
    <3>1. y \in 1..n
      <4>1. y \notin (b + 1)..(n + s)
        BY <1>13
      <4> QED BY <1>1, <1>5, <1>7, <2>2, <4>1
    <3>2. PICK l \in 1..(i - 1) : out[y] = k[l]
      BY <1>1, <1>3, <1>10, <3>1 DEF FromFirst
    <3>3. l \in 1..i
      BY <1>1
    <3> QED BY <1>10, <3>1, <3>2, <3>3
  <2> QED BY <2>1, <2>2
<1>26. Tail2(k, i, new, i, n + s + 1)
  <2>1. i \in 0..i /\ n + s + 1 \in 0..Len(q) /\ Len(q) - (n + s + 1) = i - i /\ i > 0 /\ n + s + 1 > 0 /\ 1..(i - i) = {}
    BY <1>1, <1>7, <1>9
  <2>2. q[n + s + 1] = k[i] /\ new.pending = IF IsAssistant(k[i]) THEN k[i].calls ELSE <<>>
    BY <1>2, <1>9 DEF m
  <2>3. new.found = {k[i + l].call : l \in 1..(i - i)}
    BY <1>2, <2>1
  <2> QED BY <2>1, <2>2, <2>3 DEF Tail2, q
<1>27. i \in Nat /\ n + s + 1 \in Nat
  BY <1>1, <1>7
<1>28. PairInv(D, k, i, new)
  BY <1>17, <1>22, <1>24, <1>25, <1>26, <1>27 DEF PairInv, q
<1> QED BY <1>28 DEF new

(* The list the second pass makes. *)
LEMMA SecondPassPairs ==
  ASSUME NEW D, NEW k \in Seq(Msg), Single(k, D), Distinct(k, D)
  PROVE  /\ Answered(SecondPass(k)) /\ Single(SecondPass(k), D)
         /\ CallsApart(k) => CallsApart(SecondPass(k))
         /\ FromFirst(k, Len(k), SecondPass(k))
<1>1. Len(k) \in Nat
  OBVIOUS
<1>2. PICK g : /\ g[0] = Begun
               /\ \A i \in 1..Len(k) : g[i] = Step(g[i - 1], k[i])
               /\ \A i \in 0..Len(k) : g[i] \in Accs
               /\ SecondPass(k) = g[Len(k)].out
  BY SecondPassIsIteration
<1> DEFINE S == {i \in 0..Len(k) : PairInv(D, k, i, g[i])}
<1>3. 0 \in S
  <2> DEFINE acc == Begun
  <2>1. acc.out = <<>> /\ acc.found = {} /\ acc.pending = <<>>
    BY DEF Begun
  <2>2. g[0] = acc
    BY <1>2
  <2> HIDE DEF acc
  <2>3. Len(acc.out) = 0
    BY <2>1
  <2>4. Answered(acc.out) /\ Single(acc.out, D) /\ CallsApart(acc.out) /\ FromFirst(k, 0, acc.out)
    BY <2>3 DEF Answered, Single, CallsApart, FromFirst
  <2>5. Tail2(k, 0, acc, 0, 0)
    BY <2>1, <2>3 DEF Tail2
  <2>6. PairInv(D, k, 0, acc)
    BY <2>4, <2>5 DEF PairInv
  <2> QED BY <1>1, <2>2, <2>6
<1>4. ASSUME NEW i \in 1..Len(k), i - 1 \in S PROVE i \in S
  <2>1. PICK acc \in Accs : acc = g[i - 1] /\ PairInv(D, k, i - 1, acc) /\ g[i] = Step(acc, k[i])
    BY <1>2, <1>4
  <2>2. PairInv(D, k, i, Step(acc, k[i]))
    <3>1. CASE IsTool(k[i])
      BY <2>1, <3>1, PairToolStep
    <3>2. CASE ~IsTool(k[i])
      BY <2>1, <3>2, PairOtherStep
    <3> QED BY <3>1, <3>2
  <2> QED BY <1>1, <2>1, <2>2
<1> HIDE DEF S
<1>5. Len(k) \in S
  <2>1. 0..Len(k) \subseteq S
    BY <1>1, <1>3, <1>4, BoundedInduction
  <2> QED BY <1>1, <2>1
<1>6. PairInv(D, k, Len(k), g[Len(k)])
  BY <1>5 DEF S
<1> QED BY <1>2, <1>6 DEF PairInv

-----------------------------------------------------------------------------
(* Requests laid over messages.  C says what the messages at the places of a list are
   to a request: tools are the places of results and asks those of answers with calls,
   ids[x] what the calls of x go out under and out[x] the output the result x becomes;
   role is that of the messages with outputs, and mode tells how the messages move on:
   each by a place at least ("tight"), those with calls ("loose"), or none ("flat"). *)

(* parts are the outputs of the results among the places behind a up to b, each once. *)
Covers(C, parts, a, b) ==
  \E f : /\ \A k \in 1..Len(parts) : f[k] \in (a + 1)..b /\ f[k] \in C.tools /\ parts[k] = C.out[f[k]]
         /\ \A k, l \in 1..Len(parts) : f[k] = f[l] => k = l
         /\ \A x \in (a + 1)..b : x \in C.tools => \E k \in 1..Len(parts) : f[k] = x

(* Neither a result nor an answer with calls is among them. *)
Clean(C, a, b) == \A x \in (a + 1)..b : x \notin C.tools /\ x \notin C.asks

(* What a message of the request may hold that is made of the places behind a up to b. *)
Outputs(C, m, a, b) ==
  /\ \A x \in (a + 1)..b : x \notin C.asks
  /\ \A k \in 1..Len(m.parts) : m.parts[k].kind = "output"
  /\ Covers(C, m.parts, a, b)
Talk(C, m, a, b) ==
  /\ b \in Nat \ {0} /\ b \notin C.tools
  /\ \A x \in (a + 1)..b : x \notin C.tools /\ (x \in C.asks => x = b)
  /\ \A k \in 1..Len(m.parts) :
       /\ m.parts[k].kind # "output"
       /\ m.parts[k].kind = "call" => b \in C.asks /\ m.parts[k].id \in C.ids[b]
  /\ m.role = "user" \/ m.parts = <<>> => b \notin C.asks
Lies(C, m, a, b) == IF m.role = C.role THEN Outputs(C, m, a, b) ELSE Talk(C, m, a, b)

Calling(m) == \E k \in 1..Len(m.parts) : m.parts[k].kind = "call"

(* The message i of r stands for the places behind p[i - 1] up to p[i]. *)
LaidBy(C, r, p, n) ==
  /\ p[0] = 0
  /\ \A i \in 1..Len(r) : p[i] \in Nat /\ p[i - 1] <= p[i] /\ Lies(C, r[i], p[i - 1], p[i])
  /\ p[Len(r)] <= n /\ Clean(C, p[Len(r)], n)
  /\ C.mode = "tight" => \A i \in 1..Len(r) : p[i - 1] < p[i]
  /\ C.mode = "loose" => \A i \in 1..(Len(r) - 1) : Calling(r[i]) => p[i] < p[i + 1]

Laid(C, r, n) == \E p : LaidBy(C, r, p, n)

LEMMA CoversNothing ==
  ASSUME NEW C, NEW a \in Nat, NEW b \in Nat, \A x \in (a + 1)..b : x \notin C.tools
  PROVE  Covers(C, <<>>, a, b)
<1>1. Len(<<>>) = 0 /\ 1..0 = {}
  OBVIOUS
<1> DEFINE f == [k \in {} |-> 0]
<1> QED BY <1>1 DEF Covers

LEMMA CoversOne ==
  ASSUME NEW C, NEW n \in Nat, n + 1 \in C.tools, NEW x, x = C.out[n + 1]
  PROVE  Covers(C, <<x>>, n, n + 1)
<1> DEFINE f == [k \in 1..1 |-> n + 1]
<1>1. Len(<<x>>) = 1 /\ <<x>>[1] = x /\ \A k \in 1..1 : k = 1
  OBVIOUS
<1>2. (n + 1)..(n + 1) = {n + 1} /\ f[1] = n + 1 /\ 1 \in 1..1
  OBVIOUS
<1> HIDE DEF f
<1> DEFINE q == <<x>>
<1>3. Len(q) = 1 /\ q[1] = x
  BY <1>1
<1> HIDE DEF q
<1>4. Covers(C, q, n, n + 1)
  BY <1>1, <1>2, <1>3 DEF Covers
<1> QED BY <1>4 DEF q

LEMMA CoversConcat ==
  ASSUME NEW C, NEW S, NEW u \in Seq(S), NEW v \in Seq(S),
         NEW a \in Nat, NEW b \in Nat, NEW c \in Nat, a <= b, b <= c, Covers(C, u, a, b), Covers(C, v, b, c)
  PROVE  Covers(C, u \o v, a, c)
<1>1. PICK f : /\ \A k \in 1..Len(u) : f[k] \in (a + 1)..b /\ f[k] \in C.tools /\ u[k] = C.out[f[k]]
               /\ \A k, l \in 1..Len(u) : f[k] = f[l] => k = l
               /\ \A x \in (a + 1)..b : x \in C.tools => \E k \in 1..Len(u) : f[k] = x
  BY DEF Covers
<1>2. PICK g : /\ \A k \in 1..Len(v) : g[k] \in (b + 1)..c /\ g[k] \in C.tools /\ v[k] = C.out[g[k]]
               /\ \A k, l \in 1..Len(v) : g[k] = g[l] => k = l
               /\ \A x \in (b + 1)..c : x \in C.tools => \E k \in 1..Len(v) : g[k] = x
  BY DEF Covers
<1> DEFINE w == u \o v
           n == Len(u)
           m == Len(v)
           h == [k \in 1..(n + m) |-> IF k <= n THEN f[k] ELSE g[k - n]]
<1>3. /\ n \in Nat /\ m \in Nat /\ Len(w) = n + m
      /\ \A k \in 1..n : w[k] = u[k]
      /\ \A k \in 1..m : w[n + k] = v[k]
  BY ConcatFacts
<1>4. \A k \in 1..n : k \in 1..(n + m) /\ k <= n
  BY <1>3
<1>5. \A k \in 1..m : n + k \in 1..(n + m) /\ ~(n + k <= n) /\ (n + k) - n = k
  BY <1>3
<1>6. \A k \in 1..n : h[k] = f[k]
  BY <1>4
<1>7. \A k \in 1..m : h[n + k] = g[k]
  BY <1>5
<1>8. ASSUME NEW k \in 1..(n + m) PROVE k \in 1..n \/ \E l \in 1..m : k = n + l
  <2>1. CASE k <= n
    BY <2>1
  <2>2. CASE ~(k <= n)
    <3>1. n \in Nat /\ m \in Nat
      BY <1>3
    <3> HIDE DEF n, m
    <3>2. k - n \in 1..m /\ k = n + (k - n)
      BY <2>2, <3>1
    <3> QED BY <3>2
  <2> QED BY <2>1, <2>2
<1>9. \A x : (x \in (a + 1)..b => x \in (a + 1)..c /\ x \notin (b + 1)..c) /\ (x \in (b + 1)..c => x \in (a + 1)..c)
  OBVIOUS
<1>10. \A x \in (a + 1)..c : x \in (a + 1)..b \/ x \in (b + 1)..c
  OBVIOUS
<1> HIDE DEF h, w, n, m
<1>11. ASSUME NEW k \in 1..(n + m)
       PROVE  h[k] \in (a + 1)..c /\ h[k] \in C.tools /\ w[k] = C.out[h[k]]
  <2>1. CASE k \in 1..n
    BY <1>1, <1>3, <1>6, <1>9, <2>1 DEF n
  <2>2. ASSUME NEW l \in 1..m, k = n + l PROVE h[k] \in (a + 1)..c /\ h[k] \in C.tools /\ w[k] = C.out[h[k]]
    <3>1. g[l] \in (b + 1)..c /\ g[l] \in C.tools /\ v[l] = C.out[g[l]]
      BY <1>2 DEF m
    <3>2. h[n + l] = g[l] /\ w[n + l] = v[l]
      BY <1>3, <1>7
    <3>3. g[l] \in (a + 1)..c
      BY <1>9, <3>1
    <3> QED BY <2>2, <3>1, <3>2, <3>3
  <2> QED BY <1>8, <2>1, <2>2
<1>12. ASSUME NEW k \in 1..(n + m), NEW l \in 1..(n + m), h[k] = h[l] PROVE k = l
  <2>1. CASE k \in 1..n /\ l \in 1..n
    BY <1>1, <1>6, <1>12, <2>1 DEF n
  <2>2. ASSUME NEW x \in 1..m, k = n + x, NEW y \in 1..m, l = n + y PROVE k = l
    BY <1>2, <1>7, <1>12, <2>2 DEF m
  <2>3. ASSUME NEW x \in 1..n, NEW y \in 1..m PROVE h[x] # h[n + y]
    <3>1. h[x] \in (a + 1)..b /\ h[n + y] \in (b + 1)..c
      BY <1>1, <1>2, <1>6, <1>7 DEF n, m
    <3> QED BY <1>9, <3>1
  <2>4. (k \in 1..n \/ \E x \in 1..m : k = n + x) /\ (l \in 1..n \/ \E x \in 1..m : l = n + x)
    BY <1>8
  <2> QED BY <1>12, <2>1, <2>2, <2>3, <2>4
<1>13. ASSUME NEW x \in (a + 1)..c, x \in C.tools PROVE \E k \in 1..(n + m) : h[k] = x
  <2>1. CASE x \in (a + 1)..b
    <3>1. PICK k \in 1..n : f[k] = x
      BY <1>1, <1>13, <2>1 DEF n
    <3> QED BY <1>4, <1>6, <3>1
  <2>2. CASE x \in (b + 1)..c
    <3>1. PICK k \in 1..m : g[k] = x
      BY <1>2, <1>13, <2>2 DEF m
    <3> QED BY <1>5, <1>7, <3>1
  <2> QED BY <1>10, <2>1, <2>2
<1>14. Covers(C, w, a, c)
  <2>1. /\ \A k \in 1..Len(w) : h[k] \in (a + 1)..c /\ h[k] \in C.tools /\ w[k] = C.out[h[k]]
        /\ \A k, l \in 1..Len(w) : h[k] = h[l] => k = l
        /\ \A x \in (a + 1)..c : x \in C.tools => \E k \in 1..Len(w) : h[k] = x
    <3> DEFINE s == n + m
    <3>1. Len(w) = s /\ s = n + m
      BY <1>3
    <3> HIDE DEF s
    <3>2. \A k \in 1..s : h[k] \in (a + 1)..c /\ h[k] \in C.tools /\ w[k] = C.out[h[k]]
      BY <1>11, <3>1
    <3>3. \A k, l \in 1..s : h[k] = h[l] => k = l
      BY <1>12, <3>1
    <3>4. \A x \in (a + 1)..c : x \in C.tools => \E k \in 1..s : h[k] = x
      BY <1>13, <3>1
    <3> QED BY <3>1, <3>2, <3>3, <3>4
  <2>2. \E e : /\ \A k \in 1..Len(w) : e[k] \in (a + 1)..c /\ e[k] \in C.tools /\ w[k] = C.out[e[k]]
               /\ \A k, l \in 1..Len(w) : e[k] = e[l] => k = l
               /\ \A x \in (a + 1)..c : x \in C.tools => \E k \in 1..Len(w) : e[k] = x
    <3> WITNESS h
    <3> QED BY <2>1
  <2> QED BY <2>2 DEF Covers
<1> QED BY <1>14 DEF w

LEMMA LiesLonger ==
  ASSUME NEW C, NEW m, m \in ReqMsg, NEW a \in Nat, NEW n \in Nat, NEW b \in Nat, a <= n, n <= b,
         Clean(C, a, n), Lies(C, m, n, b)
  PROVE  Lies(C, m, a, b)
<1>1. \A x \in (a + 1)..b : x \in (a + 1)..n \/ x \in (n + 1)..b
  OBVIOUS
<1>2. CASE m.role = C.role
  <2> DEFINE q == m.parts
  <2>1. /\ \A x \in (n + 1)..b : x \notin C.asks
        /\ \A k \in 1..Len(q) : q[k].kind = "output"
        /\ Covers(C, q, n, b)
    BY <1>2 DEF Lies, Outputs
  <2>2. \A x \in (a + 1)..b : x \notin C.asks
    BY <1>1, <2>1 DEF Clean
  <2>3. Covers(C, <<>>, a, n)
    <3>1. \A x \in (a + 1)..n : x \notin C.tools
      BY DEF Clean
    <3> QED BY <3>1, CoversNothing
  <2>4. q \in Seq(Part)
    BY RoleIsRole
  <2> HIDE DEF q
  <2>5. <<>> \in Seq(Part) /\ <<>> \o q = q
    BY <2>4
  <2>6. Covers(C, <<>> \o q, a, b)
    <3> DEFINE u == <<>>
    <3>1. u \in Seq(Part) /\ Covers(C, u, a, n) /\ Covers(C, q, n, b)
      BY <2>1, <2>3, <2>5
    <3> HIDE DEF u
    <3>2. Covers(C, u \o q, a, b)
      BY <2>4, <3>1, CoversConcat
    <3> QED BY <3>2 DEF u
  <2> QED BY <1>2, <2>1, <2>2, <2>5, <2>6 DEF Lies, Outputs, q
<1>3. CASE m.role # C.role
  <2>1. Talk(C, m, n, b)
    BY <1>3 DEF Lies
  <2>2. ASSUME NEW x \in (a + 1)..b PROVE x \notin C.tools /\ (x \in C.asks => x = b)
    BY <1>1, <2>1 DEF Talk, Clean
  <2>3. Talk(C, m, a, b)
    BY <2>1, <2>2 DEF Talk
  <2> QED BY <1>3, <2>3 DEF Lies
<1> QED BY <1>2, <1>3

LEMMA CleanFurther ==
  ASSUME NEW C, NEW a \in Nat, NEW n \in Nat, NEW b \in Nat, a <= n, n <= b, Clean(C, a, n), Clean(C, n, b)
  PROVE  Clean(C, a, b)
<1>1. \A x \in (a + 1)..b : x \in (a + 1)..n \/ x \in (n + 1)..b
  OBVIOUS
<1> QED BY <1>1 DEF Clean

LEMMA LaidNothing ==
  ASSUME NEW C
  PROVE  Laid(C, <<>>, 0)
<1> DEFINE p == [i \in 0..0 |-> 0]
<1>1. Len(<<>>) = 0 /\ p[0] = 0 /\ 1..0 = {} /\ 1..(0 - 1) = {} /\ (0 + 1)..0 = {}
  OBVIOUS
<1>2. Clean(C, 0, 0)
  BY <1>1 DEF Clean
<1> HIDE DEF p
<1>3. LaidBy(C, <<>>, p, 0)
  BY <1>1, <1>2 DEF LaidBy
<1> QED BY <1>3 DEF Laid

LEMMA LaidPlaces ==
  ASSUME NEW C, NEW r \in Seq(ReqMsg), NEW n \in Nat, NEW p, LaidBy(C, r, p, n)
  PROVE  /\ p[0] = 0 /\ Len(r) \in Nat
         /\ \A i \in 0..Len(r) : p[i] \in Nat
         /\ \A i \in 1..Len(r) : p[i] \in Nat /\ p[i - 1] \in Nat /\ p[i - 1] <= p[i] /\ Lies(C, r[i], p[i - 1], p[i])
         /\ p[Len(r)] \in Nat /\ p[Len(r)] <= n /\ Clean(C, p[Len(r)], n)
<1>1. Len(r) \in Nat
  OBVIOUS
<1>2. /\ p[0] = 0
      /\ \A i \in 1..Len(r) : p[i] \in Nat /\ p[i - 1] <= p[i] /\ Lies(C, r[i], p[i - 1], p[i])
      /\ p[Len(r)] <= n /\ Clean(C, p[Len(r)], n)
  BY DEF LaidBy
<1>3. \A i \in 0..Len(r) : i = 0 \/ i \in 1..Len(r)
  BY <1>1
<1>4. \A i \in 0..Len(r) : p[i] \in Nat
  BY <1>2, <1>3
<1>5. \A i \in 1..Len(r) : i - 1 \in 0..Len(r)
  BY <1>1
<1>6. Len(r) \in 0..Len(r)
  BY <1>1
<1> QED BY <1>1, <1>2, <1>4, <1>5, <1>6

LEMMA LaidSkip ==
  ASSUME NEW C, NEW r \in Seq(ReqMsg), NEW n \in Nat, NEW b \in Nat, n <= b, Laid(C, r, n), Clean(C, n, b)
  PROVE  Laid(C, r, b)
<1>1. PICK p : LaidBy(C, r, p, n)
  BY DEF Laid
<1>2. PICK a \in Nat : a = p[Len(r)] /\ a <= n /\ Clean(C, a, n)
  BY <1>1, LaidPlaces
<1>3. Clean(C, a, b) /\ a <= b
  <2>1. Clean(C, a, b)
    BY <1>2, CleanFurther
  <2> QED BY <1>2, <2>1
<1>4. LaidBy(C, r, p, b)
  BY <1>1, <1>2, <1>3 DEF LaidBy
<1> QED BY <1>4 DEF Laid

LEMMA LaidAppend ==
  ASSUME NEW C, NEW r \in Seq(ReqMsg), NEW m \in ReqMsg, NEW n \in Nat, NEW b \in Nat, n <= b,
         Laid(C, r, n), Lies(C, m, n, b),
         \/ n < b
         \/ C.mode = "flat"
         \/ C.mode = "loose" /\ (r = <<>> \/ ~Calling(r[Len(r)]))
  PROVE  Append(r, m) \in Seq(ReqMsg) /\ Laid(C, Append(r, m), b)
<1>1. PICK p : LaidBy(C, r, p, n)
  BY DEF Laid
<1> DEFINE l == Len(r)
           q == Append(r, m)
           v == [i \in 0..(l + 1) |-> IF i <= l THEN p[i] ELSE b]
<1>2. /\ l \in Nat /\ p[0] = 0
      /\ \A i \in 1..l : p[i] \in Nat /\ p[i - 1] \in Nat /\ p[i - 1] <= p[i] /\ Lies(C, r[i], p[i - 1], p[i])
      /\ p[l] \in Nat /\ p[l] <= n /\ Clean(C, p[l], n)
  BY <1>1, LaidPlaces
<1>3. q \in Seq(ReqMsg) /\ Len(q) = l + 1 /\ q[l + 1] = m /\ \A i \in 1..l : q[i] = r[i]
  OBVIOUS
<1>4. PICK a \in Nat : a = p[l] /\ a <= n /\ Clean(C, a, n)
  BY <1>2
<1>5. Lies(C, m, a, b)
  BY <1>4, LiesLonger
<1>6. v[l + 1] = b /\ v[l] = a /\ v[0] = 0
  BY <1>2, <1>4
<1>7. \A i \in 1..l : v[i] = p[i] /\ v[i - 1] = p[i - 1]
  BY <1>2
<1>8. \A i \in 1..(l + 1) : i \in 1..l \/ i = l + 1
  BY <1>2
<1>9. (C.mode = "tight" => \A i \in 1..l : p[i - 1] < p[i])
      /\ (C.mode = "loose" => \A i \in 1..(l - 1) : Calling(r[i]) => p[i] < p[i + 1])
  BY <1>1 DEF LaidBy
<1> HIDE DEF q, v
<1>10. \A i \in 1..(l + 1) : v[i] \in Nat /\ v[i - 1] <= v[i] /\ Lies(C, q[i], v[i - 1], v[i])
  <2>1. (l + 1) - 1 = l /\ a <= b
    BY <1>2, <1>4
  <2>2. v[l + 1] \in Nat /\ v[(l + 1) - 1] <= v[l + 1] /\ Lies(C, q[l + 1], v[(l + 1) - 1], v[l + 1])
    BY <1>3, <1>5, <1>6, <2>1
  <2>3. \A i \in 1..l : v[i] \in Nat /\ v[i - 1] <= v[i] /\ Lies(C, q[i], v[i - 1], v[i])
    BY <1>2, <1>3, <1>7
  <2> QED BY <1>8, <2>2, <2>3
<1>11. v[l + 1] <= b /\ Clean(C, v[l + 1], b)
  <2>1. Clean(C, b, b)
    BY DEF Clean
  <2> QED BY <1>6, <2>1
<1>12. ASSUME C.mode = "tight" PROVE \A i \in 1..(l + 1) : v[i - 1] < v[i]
  <2>1. n < b
    BY <1>12
  <2>2. a < b /\ (l + 1) - 1 = l
    BY <1>2, <1>4, <2>1
  <2>3. v[(l + 1) - 1] < v[l + 1]
    BY <1>6, <2>2
  <2>4. \A i \in 1..l : v[i - 1] < v[i]
    BY <1>7, <1>9, <1>12
  <2> QED BY <1>8, <2>3, <2>4
<1>13. ASSUME C.mode = "loose", NEW i \in 1..l, Calling(q[i]) PROVE v[i] < v[i + 1]
  <2>1. CASE i = l
    <3>1. r # <<>> /\ Calling(r[Len(r)])
      BY <1>2, <1>3, <1>13, <2>1
    <3>2. n < b
      BY <1>13, <3>1
    <3>3. a < b
      BY <1>4, <3>2
    <3> QED BY <1>6, <2>1, <3>3
  <2>2. CASE i # l
    <3>1. i \in 1..(l - 1) /\ i + 1 \in 1..l
      BY <1>2, <2>2
    <3>2. Calling(r[i])
      BY <1>3, <1>13
    <3> QED BY <1>7, <1>9, <1>13, <3>1, <3>2
  <2> QED BY <2>1, <2>2
<1>14. LaidBy(C, q, v, b)
  <2>1. Len(q) = l + 1 /\ Len(q) - 1 = l
    BY <1>2, <1>3
  <2> QED BY <1>6, <1>10, <1>11, <1>12, <1>13, <2>1 DEF LaidBy
<1> QED BY <1>3, <1>14 DEF Laid, q

(* Another output in the last message. *)
LEMMA LaidExtend ==
  ASSUME NEW C, NEW r \in Seq(ReqMsg), NEW n \in Nat, Laid(C, r, n), r # <<>>, r[Len(r)].role = C.role,
         n + 1 \in C.tools, n + 1 \notin C.asks, NEW x, x \in Part, x.kind = "output", x = C.out[n + 1],
         NEW m, m \in ReqMsg, m.role = C.role, m.parts = r[Len(r)].parts \o <<x>>
  PROVE  Laid(C, [r EXCEPT ![Len(r)] = m], n + 1)
<1>1. PICK p : LaidBy(C, r, p, n)
  BY DEF Laid
<1> DEFINE l == Len(r)
           q == [r EXCEPT ![l] = m]
           v == [i \in 0..l |-> IF i = l THEN n + 1 ELSE p[i]]
<1>2. /\ l \in Nat /\ p[0] = 0
      /\ \A i \in 1..l : p[i] \in Nat /\ p[i - 1] \in Nat /\ p[i - 1] <= p[i] /\ Lies(C, r[i], p[i - 1], p[i])
      /\ p[l] \in Nat /\ p[l] <= n /\ Clean(C, p[l], n)
  BY <1>1, LaidPlaces
<1>3. l \in 1..l /\ l # 0
  BY <1>2
<1>4. Len(q) = l /\ q[l] = m /\ \A i \in 1..(l - 1) : q[i] = r[i] /\ i \in 1..l
  BY <1>3
<1>5. PICK a \in Nat, b \in Nat : a = p[l - 1] /\ b = p[l] /\ a <= b /\ b <= n /\ Clean(C, b, n) /\ Lies(C, r[l], a, b)
  BY <1>2, <1>3
<1>6. v[l] = n + 1 /\ v[l - 1] = a /\ v[0] = 0 /\ \A i \in 1..(l - 1) : v[i] = p[i] /\ v[i - 1] = p[i - 1]
  BY <1>2, <1>3, <1>5
<1>7. (C.mode = "tight" => \A i \in 1..l : p[i - 1] < p[i])
      /\ (C.mode = "loose" => \A i \in 1..(l - 1) : Calling(r[i]) => p[i] < p[i + 1])
  BY <1>1 DEF LaidBy
<1> DEFINE u == r[l].parts
<1>8. u \in Seq(Part) /\ m.parts = u \o <<x>>
  BY <1>3, RoleIsRole
<1>9. /\ \A y \in (a + 1)..b : y \notin C.asks
      /\ \A k \in 1..Len(u) : u[k].kind = "output"
      /\ Covers(C, u, a, b)
  BY <1>5 DEF Lies, Outputs
<1> HIDE DEF q, v, u
<1>10. Covers(C, u, a, n)
  <2> DEFINE e == <<>>
  <2>1. \A y \in (b + 1)..n : y \notin C.tools
    BY <1>5 DEF Clean
  <2>2. Covers(C, e, b, n) /\ e \in Seq(Part) /\ u \o e = u
    BY <1>5, <1>8, <2>1, CoversNothing
  <2> HIDE DEF e
  <2>3. Covers(C, u \o e, a, n)
    BY <1>5, <1>8, <1>9, <2>2, CoversConcat
  <2> QED BY <2>2, <2>3
<1> DEFINE o == <<x>>
<1>11. Covers(C, o, n, n + 1) /\ o \in Seq(Part) /\ Len(o) = 1 /\ o[1] = x
  <2>1. Covers(C, o, n, n + 1)
    BY CoversOne
  <2> QED BY <2>1
<1> HIDE DEF o
<1>12. Covers(C, u \o o, a, n + 1)
  <2>1. a <= n /\ n <= n + 1 /\ n + 1 \in Nat
    BY <1>5
  <2> QED BY <1>8, <1>10, <1>11, <2>1, CoversConcat
<1>13. m.parts = u \o o
  BY <1>8 DEF o
<1>14. \A k \in 1..Len(m.parts) : m.parts[k].kind = "output"
  <2>1. /\ Len(u \o o) = Len(u) + 1 /\ Len(u) \in Nat
        /\ (\A k \in 1..Len(u) : (u \o o)[k] = u[k]) /\ (u \o o)[Len(u) + 1] = x
    <3>1. /\ Len(u \o o) = Len(u) + Len(o) /\ Len(u) \in Nat
          /\ (\A k \in 1..Len(u) : (u \o o)[k] = u[k]) /\ \A k \in 1..Len(o) : (u \o o)[Len(u) + k] = o[k]
      <4>1. u \in Seq(Part)
        BY <1>8
      <4>2. o \in Seq(Part)
        BY <1>11
      <4>3. Len(u) \in Nat
        BY <4>1
      <4> QED BY <4>1, <4>2, <4>3, ConcatFacts
    <3>2. 1 \in 1..Len(o)
      BY <1>11
    <3> QED BY <1>11, <3>1, <3>2
  <2>2. \A k \in 1..(Len(u) + 1) : k \in 1..Len(u) \/ k = Len(u) + 1
    BY <2>1
  <2> QED BY <1>9, <1>13, <2>1, <2>2
<1>15. \A y \in (a + 1)..(n + 1) : y \notin C.asks
  <2>1. \A y \in (a + 1)..(n + 1) : y \in (a + 1)..b \/ y \in (b + 1)..n \/ y = n + 1
    BY <1>5
  <2> QED BY <1>5, <1>9, <2>1 DEF Clean
<1>16. Lies(C, m, a, n + 1)
  BY <1>12, <1>13, <1>14, <1>15 DEF Lies, Outputs
<1>17. \A i \in 1..l : i \in 1..(l - 1) \/ i = l
  BY <1>2
<1>18. \A i \in 1..l : v[i] \in Nat /\ v[i - 1] <= v[i] /\ Lies(C, q[i], v[i - 1], v[i])
  <2>1. v[l] \in Nat /\ v[l - 1] <= v[l] /\ Lies(C, q[l], v[l - 1], v[l])
    BY <1>4, <1>5, <1>6, <1>16
  <2>2. \A i \in 1..(l - 1) : v[i] \in Nat /\ v[i - 1] <= v[i] /\ Lies(C, q[i], v[i - 1], v[i])
    BY <1>2, <1>4, <1>6
  <2> QED BY <1>17, <2>1, <2>2
<1>19. v[l] <= n + 1 /\ Clean(C, v[l], n + 1)
  BY <1>6 DEF Clean
<1>20. ASSUME C.mode = "tight" PROVE \A i \in 1..l : v[i - 1] < v[i]
  <2>1. v[l - 1] < v[l]
    BY <1>5, <1>6
  <2>2. \A i \in 1..(l - 1) : v[i - 1] < v[i]
    BY <1>4, <1>6, <1>7, <1>20
  <2> QED BY <1>17, <2>1, <2>2
<1>21. ASSUME C.mode = "loose", NEW i \in 1..(l - 1), Calling(q[i]) PROVE v[i] < v[i + 1]
  <2>1. p[i] < p[i + 1] /\ v[i] = p[i]
    BY <1>4, <1>6, <1>7, <1>21
  <2>2. CASE i + 1 = l
    <3>1. p[i] \in Nat /\ p[i] < b /\ v[i + 1] = n + 1
      BY <1>2, <1>4, <1>5, <1>6, <2>1, <2>2
    <3> QED BY <1>5, <2>1, <3>1
  <2>3. CASE i + 1 # l
    <3>1. i + 1 \in 1..(l - 1)
      BY <1>2, <2>3
    <3> QED BY <1>6, <2>1, <3>1
  <2> QED BY <2>2, <2>3
<1>22. LaidBy(C, q, v, n + 1)
  BY <1>4, <1>6, <1>18, <1>19, <1>20, <1>21 DEF LaidBy
<1> QED BY <1>22 DEF Laid, q

-----------------------------------------------------------------------------
(* What a request that is laid over messages holds *)

(* o are the parts of q of kind k, each once. *)
PlacedBy(e, o, q, k) ==
  /\ e \in [1..Len(o) -> 1..Len(q)]
  /\ \A i \in 1..Len(o) : q[e[i]].kind = k /\ o[i] = q[e[i]]
  /\ \A i, j \in 1..Len(o) : e[i] = e[j] => i = j
  /\ \A i \in 1..Len(q) : q[i].kind = k => \E j \in 1..Len(o) : e[j] = i
PartPlaces(o, q, k) == \E e : PlacedBy(e, o, q, k)

LEMMA KindPlaces ==
  ASSUME NEW m, m \in ReqMsg, NEW k
  PROVE  /\ m.parts \in Seq(Part) /\ KindsIn(m, k) \in Seq(Part)
         /\ PartPlaces(KindsIn(m, k), m.parts, k)
<1> DEFINE q == m.parts
           I == {i \in DOMAIN q : q[i].kind = k}
           o == Picked(q, I)
<1>1. q \in Seq(Part)
  BY RoleIsRole
<1>2. KindsIn(m, k) = o
  BY DEF KindsIn
<1> HIDE DEF q
<1>3. DOMAIN q = 1..Len(q) /\ Len(q) \in Nat
  BY <1>1
<1>4. o \in Seq(Part) /\ \E e : Embeds(e, o, q, I, Len(q))
  BY <1>1, PickedEmbeds
<1> HIDE DEF o, I
<1>5. PICK e : Embeds(e, o, q, I, Len(q))
  BY <1>4
<1>6. /\ e \in [1..Len(o) -> 1..Len(q)]
      /\ \A i \in 1..Len(o) : e[i] \in I /\ o[i] = q[e[i]]
      /\ \A i, j \in 1..Len(o) : i < j => e[i] < e[j]
      /\ \A i \in 1..Len(q) : i \in I => \E j \in 1..Len(o) : e[j] = i
  BY <1>5 DEF Embeds
<1>7. \A i \in 1..Len(o) : q[e[i]].kind = k
  BY <1>6 DEF I
<1>8. ASSUME NEW i \in 1..Len(o), NEW j \in 1..Len(o), e[i] = e[j] PROVE i = j
  <2>1. e[i] \in Nat /\ e[j] \in Nat /\ i \in Nat /\ j \in Nat
    BY <1>3, <1>4, <1>6
  <2>2. ~(e[i] < e[j]) /\ ~(e[j] < e[i])
    BY <1>8, <2>1
  <2>3. ~(i < j) /\ ~(j < i)
    BY <1>6, <2>2
  <2> QED BY <2>1, <2>3
<1>9. \A i \in 1..Len(q) : q[i].kind = k => \E j \in 1..Len(o) : e[j] = i
  BY <1>3, <1>6 DEF I
<1>10. PlacedBy(e, o, q, k)
  BY <1>6, <1>7, <1>8, <1>9 DEF PlacedBy
<1>11. PartPlaces(o, q, k)
  BY <1>10 DEF PartPlaces
<1> QED BY <1>1, <1>2, <1>4, <1>11 DEF q

LEMMA LiesOutputs ==
  ASSUME NEW C, NEW m, m \in ReqMsg, NEW a \in Nat, NEW b \in Nat, Lies(C, m, a, b)
  PROVE  KindsIn(m, "output") \in Seq(Part) /\ Covers(C, KindsIn(m, "output"), a, b)
<1> DEFINE q == m.parts
           o == KindsIn(m, "output")
<1>1. q \in Seq(Part) /\ o \in Seq(Part) /\ PartPlaces(o, q, "output")
  BY KindPlaces
<1>2. m.role = C.role => /\ \A i \in 1..Len(q) : q[i].kind = "output"
                         /\ Covers(C, q, a, b)
  BY DEF Lies, Outputs
<1>3. m.role # C.role => /\ \A i \in 1..Len(q) : q[i].kind # "output"
                         /\ \A x \in (a + 1)..b : x \notin C.tools
  BY DEF Lies, Talk
<1> HIDE DEF q, o
<1>4. PICK e : /\ e \in [1..Len(o) -> 1..Len(q)]
               /\ \A i \in 1..Len(o) : q[e[i]].kind = "output" /\ o[i] = q[e[i]]
               /\ \A i, j \in 1..Len(o) : e[i] = e[j] => i = j
               /\ \A i \in 1..Len(q) : q[i].kind = "output" => \E j \in 1..Len(o) : e[j] = i
  <2>1. PICK d : PlacedBy(d, o, q, "output")
    BY <1>1 DEF PartPlaces
  <2> QED BY <2>1 DEF PlacedBy
<1>5. CASE m.role = C.role
  <2>1. PICK f : /\ \A k \in 1..Len(q) : f[k] \in (a + 1)..b /\ f[k] \in C.tools /\ q[k] = C.out[f[k]]
                 /\ \A k, l \in 1..Len(q) : f[k] = f[l] => k = l
                 /\ \A x \in (a + 1)..b : x \in C.tools => \E k \in 1..Len(q) : f[k] = x
    BY <1>2, <1>5 DEF Covers
  <2> DEFINE g == [k \in 1..Len(o) |-> f[e[k]]]
  <2>2. \A k \in 1..Len(o) : e[k] \in 1..Len(q) /\ g[k] = f[e[k]]
    BY <1>4
  <2> HIDE DEF g
  <2>3. \A k \in 1..Len(o) : g[k] \in (a + 1)..b /\ g[k] \in C.tools /\ o[k] = C.out[g[k]]
    <3> SUFFICES ASSUME NEW k \in 1..Len(o)
                 PROVE  g[k] \in (a + 1)..b /\ g[k] \in C.tools /\ o[k] = C.out[g[k]]
      OBVIOUS
    <3>1. PICK i \in 1..Len(q) : i = e[k]
      BY <2>2
    <3>2. f[i] \in (a + 1)..b /\ f[i] \in C.tools /\ q[i] = C.out[f[i]]
      BY <2>1
    <3>3. g[k] = f[i] /\ o[k] = q[i]
      BY <1>4, <2>2, <3>1
    <3> QED BY <3>2, <3>3
  <2>4. \A k, l \in 1..Len(o) : g[k] = g[l] => k = l
    <3> SUFFICES ASSUME NEW k \in 1..Len(o), NEW l \in 1..Len(o), g[k] = g[l] PROVE k = l
      OBVIOUS
    <3>1. PICK i \in 1..Len(q), j \in 1..Len(q) : i = e[k] /\ j = e[l]
      BY <2>2
    <3>2. f[i] = f[j]
      BY <2>2, <3>1
    <3>3. i = j
      BY <2>1, <3>2
    <3> QED BY <1>4, <3>1, <3>3
  <2>5. ASSUME NEW x \in (a + 1)..b, x \in C.tools PROVE \E k \in 1..Len(o) : g[k] = x
    <3>1. PICK i \in 1..Len(q) : f[i] = x
      BY <2>1, <2>5
    <3>2. PICK k \in 1..Len(o) : e[k] = i
      BY <1>2, <1>4, <1>5
    <3> QED BY <2>2, <3>1, <3>2
  <2>6. \E d : /\ \A k \in 1..Len(o) : d[k] \in (a + 1)..b /\ d[k] \in C.tools /\ o[k] = C.out[d[k]]
               /\ \A k, l \in 1..Len(o) : d[k] = d[l] => k = l
               /\ \A x \in (a + 1)..b : x \in C.tools => \E k \in 1..Len(o) : d[k] = x
    <3> WITNESS g
    <3> QED BY <2>3, <2>4, <2>5
  <2>7. Covers(C, o, a, b)
    BY <2>6 DEF Covers
  <2> QED BY <1>1, <2>7 DEF o
<1>6. CASE m.role # C.role
  <2>1. \A i \in 1..Len(o) : FALSE
    BY <1>3, <1>4, <1>6
  <2>2. Len(o) \in Nat
    BY <1>1
  <2>3. Len(o) = 0
    BY <2>1, <2>2
  <2>4. o = <<>>
    BY <1>1, <2>3
  <2>5. Covers(C, <<>>, a, b)
    BY <1>3, <1>6, CoversNothing
  <2>6. Covers(C, o, a, b)
    BY <2>4, <2>5
  <2> QED BY <1>1, <2>6 DEF o
<1> QED BY <1>5, <1>6

(* The ids a message calls under. *)
CallIds(m) == {x.id : x \in Range(KindsIn(m, "call"))}

LEMMA CallIdsAre ==
  ASSUME NEW m, m \in ReqMsg, NEW id, id \in CallIds(m)
  PROVE  \E k \in 1..Len(m.parts) : m.parts[k].kind = "call" /\ m.parts[k].id = id
<1> DEFINE q == m.parts
           o == KindsIn(m, "call")
<1>1. o \in Seq(Part) /\ PartPlaces(o, q, "call")
  BY KindPlaces
<1>2. PICK x \in Range(o) : id = x.id
  BY DEF CallIds
<1> HIDE DEF q, o
<1>3. PICK e : /\ e \in [1..Len(o) -> 1..Len(q)]
               /\ \A i \in 1..Len(o) : q[e[i]].kind = "call" /\ o[i] = q[e[i]]
  <2>1. PICK d : PlacedBy(d, o, q, "call")
    BY <1>1 DEF PartPlaces
  <2> QED BY <2>1 DEF PlacedBy
<1>4. PICK i \in 1..Len(o) : x = o[i]
  <2>1. DOMAIN o = 1..Len(o)
    BY <1>1
  <2> QED BY <1>2, <2>1 DEF Range
<1>5. e[i] \in 1..Len(q) /\ q[e[i]].kind = "call" /\ q[e[i]].id = id
  BY <1>2, <1>3, <1>4
<1> QED BY <1>5 DEF q

LEMMA PlacesGrow ==
  ASSUME NEW C, NEW r \in Seq(ReqMsg), NEW n \in Nat, NEW p, LaidBy(C, r, p, n),
         NEW i \in 0..Len(r), NEW m \in 0..(Len(r) - i)
  PROVE  p[i] \in Nat /\ p[i + m] \in Nat /\ p[i] <= p[i + m]
<1>1. /\ Len(r) \in Nat
      /\ \A j \in 0..Len(r) : p[j] \in Nat
      /\ \A j \in 1..Len(r) : p[j] \in Nat /\ p[j - 1] \in Nat /\ p[j - 1] <= p[j]
  BY LaidPlaces
<1> DEFINE K == {l \in 0..m : p[i] <= p[i + l]}
<1>2. m \in Nat /\ i \in Nat
  BY <1>1
<1>3. 0 \in K
  <2>1. i + 0 = i /\ p[i] <= p[i]
    BY <1>1
  <2> QED BY <1>2, <2>1
<1>4. ASSUME NEW l \in 1..m, l - 1 \in K PROVE l \in K
  <2>1. i + l \in 1..Len(r) /\ (i + l) - 1 = i + (l - 1) /\ l \in 0..m
    BY <1>1, <1>2
  <2>2. p[i] <= p[i + (l - 1)]
    BY <1>4
  <2>3. p[i] \in Nat /\ p[i + (l - 1)] \in Nat /\ p[i + l] \in Nat /\ p[i + (l - 1)] <= p[i + l]
    <3>1. p[(i + l) - 1] \in Nat /\ p[i + l] \in Nat /\ p[(i + l) - 1] <= p[i + l]
      BY <1>1, <2>1
    <3> QED BY <1>1, <2>1, <3>1
  <2>4. p[i] <= p[i + l]
    BY <2>2, <2>3
  <2> QED BY <2>1, <2>4
<1> HIDE DEF K
<1>5. 0..m \subseteq K
  BY <1>2, <1>3, <1>4, BoundedInduction
<1>6. m \in K
  BY <1>2, <1>5
<1>7. i + m \in 0..Len(r)
  BY <1>1, <1>2
<1> QED BY <1>1, <1>6, <1>7 DEF K

LEMMA OutputsCovered ==
  ASSUME NEW C, NEW r \in Seq(ReqMsg), NEW n \in Nat, NEW p, LaidBy(C, r, p, n),
         NEW i \in 0..Len(r), NEW m \in 0..(Len(r) - i)
  PROVE  /\ OutputsIn(SubSeq(r, i + 1, i + m)) \in Seq(Part)
         /\ Covers(C, OutputsIn(SubSeq(r, i + 1, i + m)), p[i], p[i + m])
<1> DEFINE s == SubSeq(r, i + 1, i + m)
           ms == [l \in DOMAIN s |-> KindsIn(s[l], "output")]
<1>1. /\ Len(r) \in Nat
      /\ \A j \in 0..Len(r) : p[j] \in Nat
      /\ \A j \in 1..Len(r) : p[j] \in Nat /\ p[j - 1] \in Nat /\ p[j - 1] <= p[j] /\ Lies(C, r[j], p[j - 1], p[j])
  BY LaidPlaces
<1>2. m \in Nat /\ i \in Nat /\ i + m <= Len(r)
  BY <1>1
<1>3. OutputsIn(s) = FlattenSeq(ms)
  BY DEF OutputsIn, Each
<1>4. s \in Seq(ReqMsg) /\ Len(s) = m /\ DOMAIN s = 1..m /\ \A l \in 1..m : s[l] = r[i + l]
  <2>1. Len(s) = m /\ DOMAIN s = 1..m
    BY <1>1, <1>2
  <2>2. \A l \in 1..m : s[l] = r[i + l]
    BY <1>1, <1>2
  <2>3. s \in Seq(ReqMsg)
    BY <1>1, <1>2
  <2> QED BY <2>1, <2>2, <2>3
<1> HIDE DEF s
<1>5. ASSUME NEW l \in 1..m
      PROVE  /\ ms[l] \in Seq(Part) /\ Covers(C, ms[l], p[i + (l - 1)], p[i + l])
             /\ p[i + (l - 1)] \in Nat /\ p[i + l] \in Nat /\ p[i + (l - 1)] <= p[i + l]
  <2>1. i + l \in 1..Len(r) /\ (i + l) - 1 = i + (l - 1)
    BY <1>1, <1>2
  <2>2. PICK x : x = r[i + l] /\ x \in ReqMsg
    BY <2>1
  <2>3. PICK a \in Nat, b \in Nat : a = p[(i + l) - 1] /\ b = p[i + l] /\ a <= b /\ Lies(C, x, a, b)
    BY <1>1, <2>1, <2>2
  <2>4. KindsIn(x, "output") \in Seq(Part) /\ Covers(C, KindsIn(x, "output"), a, b)
    BY <2>2, <2>3, LiesOutputs
  <2>5. ms[l] = KindsIn(x, "output")
    BY <1>4, <2>2
  <2> QED BY <2>1, <2>3, <2>4, <2>5
<1>6. ms = [l \in 1..m |-> ms[l]]
  BY <1>4
<1> HIDE DEF ms
<1>7. ms \in Seq(Seq(Part)) /\ Len(ms) = m
  <2>1. ms \in [1..m -> Seq(Part)]
    BY <1>5, <1>6
  <2> QED BY <1>2, <2>1
<1>8. CASE m = 0
  <2>1. FlattenSeq(ms) = ms
    BY <1>7, <1>8 DEF FlattenSeq
  <2>2. ms = <<>>
    BY <1>7, <1>8
  <2>3. i + m = i /\ p[i] \in Nat
    BY <1>1, <1>2, <1>8
  <2>4. \A a \in Nat : Covers(C, <<>>, a, a)
    <3> SUFFICES ASSUME NEW a \in Nat PROVE Covers(C, <<>>, a, a)
      OBVIOUS
    <3>1. \A x \in (a + 1)..a : x \notin C.tools
      OBVIOUS
    <3> QED BY <3>1, CoversNothing
  <2>5. FlattenSeq(ms) \in Seq(Part) /\ Covers(C, FlattenSeq(ms), p[i], p[i + m])
    BY <2>1, <2>2, <2>3, <2>4
  <2> QED BY <1>3, <2>5 DEF s
<1>9. CASE m # 0
  <2>1. PICK g : /\ g[1] = ms[1]
                 /\ \A l \in 2..Len(ms) : g[l] = g[l - 1] \o ms[l]
                 /\ FlattenSeq(ms) = g[Len(ms)]
    BY <1>7, <1>9, FlattenIsIteration
  <2> DEFINE K == {l \in 0..m : l = 0 \/ (g[l] \in Seq(Part) /\ Covers(C, g[l], p[i], p[i + l]))}
  <2>2. 0 \in K
    BY <1>2
  <2>3. ASSUME NEW l \in 1..m, l - 1 \in K PROVE l \in K
    <3>0. l \in 0..m
      BY <1>2
    <3>1. CASE l = 1
      <4>1. i + (1 - 1) = i
        BY <1>2
      <4>2. Covers(C, ms[1], p[i + (1 - 1)], p[i + 1]) /\ ms[1] \in Seq(Part)
        BY <1>5, <3>1
      <4> QED BY <2>1, <3>0, <3>1, <4>1, <4>2
    <3>2. CASE l # 1
      <4>1. l \in 2..Len(ms) /\ l - 1 # 0 /\ l - 1 \in 0..(Len(r) - i)
        BY <1>1, <1>2, <1>7, <3>2
      <4>2. PICK u : u = g[l - 1] /\ u \in Seq(Part) /\ Covers(C, u, p[i], p[i + (l - 1)])
        BY <2>3, <4>1
      <4>3. PICK v : v = ms[l] /\ v \in Seq(Part) /\ Covers(C, v, p[i + (l - 1)], p[i + l])
        BY <1>5
      <4>4. p[i] <= p[i + (l - 1)]
        BY <4>1, PlacesGrow
      <4>5. PICK a \in Nat, b \in Nat, c \in Nat : a = p[i] /\ b = p[i + (l - 1)] /\ c = p[i + l] /\ a <= b /\ b <= c
        BY <1>1, <1>5, <4>4
      <4>6. Covers(C, u, a, b) /\ Covers(C, v, b, c)
        BY <4>2, <4>3, <4>5
      <4>7. Covers(C, u \o v, a, c)
        BY <4>2, <4>3, <4>5, <4>6, CoversConcat
      <4>8. g[l] = u \o v
        BY <2>1, <4>1, <4>2, <4>3
      <4>9. u \o v \in Seq(Part)
        BY <4>2, <4>3
      <4> QED BY <3>0, <4>5, <4>7, <4>8, <4>9
    <3> QED BY <3>1, <3>2
  <2> HIDE DEF K
  <2>4. 0..m \subseteq K
    BY <1>2, <2>2, <2>3, BoundedInduction
  <2>5. m \in K
    BY <1>2, <2>4
  <2>6. FlattenSeq(ms) \in Seq(Part) /\ Covers(C, FlattenSeq(ms), p[i], p[i + m])
    BY <1>7, <1>9, <2>1, <2>5 DEF K
  <2> QED BY <1>3, <2>6 DEF s
<1> QED BY <1>8, <1>9

(* No answer with calls stands among the results of a run. *)
LEMMA RunAsksNothing ==
  ASSUME NEW C, NEW r \in Seq(ReqMsg), NEW n \in Nat, NEW p, LaidBy(C, r, p, n),
         NEW i \in 0..Len(r), NEW m \in 0..(Len(r) - i), \A l \in (i + 1)..(i + m) : r[l].role = C.role
  PROVE  \A x \in (p[i] + 1)..p[i + m] : x \notin C.asks
<1>1. /\ Len(r) \in Nat
      /\ \A j \in 0..Len(r) : p[j] \in Nat
      /\ \A j \in 1..Len(r) : Lies(C, r[j], p[j - 1], p[j])
  BY LaidPlaces
<1> DEFINE K == {l \in 0..m : \A x \in (p[i] + 1)..p[i + l] : x \notin C.asks}
<1>2. m \in Nat /\ i \in Nat
  BY <1>1
<1>3. 0 \in K
  <2>1. i + 0 = i /\ p[i] \in Nat
    BY <1>1
  <2>2. (p[i] + 1)..p[i] = {}
    BY <2>1
  <2> QED BY <1>2, <2>1, <2>2
<1>4. ASSUME NEW l \in 1..m, l - 1 \in K PROVE l \in K
  <2>1. i + l \in 1..Len(r) /\ (i + l) - 1 = i + (l - 1) /\ l \in 0..m /\ i + l \in (i + 1)..(i + m) /\ i + (l - 1) \in 0..Len(r)
        /\ i + l \in 0..Len(r)
    BY <1>1, <1>2
  <2>2. Lies(C, r[i + l], p[i + (l - 1)], p[i + l]) /\ r[i + l].role = C.role
    BY <1>1, <2>1
  <2>3. \A x \in (p[i + (l - 1)] + 1)..p[i + l] : x \notin C.asks
    BY <2>2 DEF Lies, Outputs
  <2>4. \A x \in (p[i] + 1)..p[i + (l - 1)] : x \notin C.asks
    BY <1>4
  <2>5. PICK a \in Nat, b \in Nat, c \in Nat : a = p[i] /\ b = p[i + (l - 1)] /\ c = p[i + l]
    BY <1>1, <2>1
  <2>6. \A x \in (a + 1)..c : x \in (a + 1)..b \/ x \in (b + 1)..c
    OBVIOUS
  <2>7. \A x \in (a + 1)..c : x \notin C.asks
    BY <2>3, <2>4, <2>5, <2>6
  <2> QED BY <2>1, <2>5, <2>7
<1> HIDE DEF K
<1>5. 0..m \subseteq K
  BY <1>2, <1>3, <1>4, BoundedInduction
<1>6. m \in K
  BY <1>2, <1>5
<1> QED BY <1>6 DEF K

(* The messages of a role behind i are those up to the first of another role. *)
LEMMA RunIs ==
  ASSUME NEW r \in Seq(ReqMsg), NEW i \in 1..Len(r), NEW role
  PROVE  \E m \in 0..(Len(r) - i) :
           /\ Cardinality(RunBehind(r, i, role)) = m
           /\ \A l \in (i + 1)..(i + m) : r[l].role = role
           /\ i + m < Len(r) => i + m + 1 \in 1..Len(r) /\ r[i + m + 1].role # role
<1> DEFINE N == {m \in 0..(Len(r) - i) : i + m < Len(r) => r[i + m + 1].role # role}
<1>1. Len(r) \in Nat /\ i \in Nat
  OBVIOUS
<1>2. N # {} /\ N \in SUBSET Nat
  <2>1. Len(r) - i \in 0..(Len(r) - i) /\ ~(i + (Len(r) - i) < Len(r))
    BY <1>1
  <2>2. PICK d : d = Len(r) - i
    OBVIOUS
  <2>3. d \in 0..(Len(r) - i) /\ ~(i + d < Len(r))
    BY <2>1, <2>2
  <2>4. d \in N
    BY <2>3
  <2>5. \A y \in N : y \in Nat
    OBVIOUS
  <2> HIDE DEF N
  <2> QED BY <2>4, <2>5
<1>3. PICK m \in N : \A y \in N : m <= y
  BY <1>2, LeastOne
<1>4. m \in 0..(Len(r) - i) /\ (i + m < Len(r) => r[i + m + 1].role # role) /\ m \in Nat
  BY <1>2, <1>3
<1>5. ASSUME NEW l \in (i + 1)..(i + m) PROVE r[l].role = role
  <2>1. Len(r) \in Nat /\ i \in 1..Len(r) /\ m \in 0..(Len(r) - i)
    BY <1>1, <1>4
  <2>2. /\ l - i - 1 \in 0..(Len(r) - i) /\ i + (l - i - 1) + 1 = l
        /\ i + (l - i - 1) < Len(r) /\ ~(m <= l - i - 1)
    <3> HIDE DEF N
    <3> QED BY <2>1
  <2>3. PICK d : d = l - i - 1
    OBVIOUS
  <2>4. d \in 0..(Len(r) - i) /\ i + d + 1 = l /\ i + d < Len(r) /\ ~(m <= d)
    BY <2>2, <2>3
  <2>5. d \notin N
    BY <1>3, <2>4
  <2> QED BY <2>4, <2>5
<1> HIDE DEF N
<1>6. RunBehind(r, i, role) = (i + 1)..(i + m)
  <2>1. ASSUME NEW j \in (i + 1)..(i + m)
        PROVE  j \in (i + 1)..Len(r) /\ \A l \in (i + 1)..j : l \in (i + 1)..(i + m)
    BY <1>1, <1>4
  <2>2. ASSUME NEW j \in (i + 1)..Len(r), \A l \in (i + 1)..j : r[l].role = role
        PROVE  j \in (i + 1)..(i + m)
    <3>1. CASE i + m < Len(r)
      <4>1. r[i + m + 1].role # role
        BY <1>4, <3>1
      <4>2. i + m + 1 \notin (i + 1)..j
        BY <2>2, <4>1
      <4>3. i + m + 1 >= i + 1 /\ i \in Nat /\ m \in Nat
        BY <1>1, <1>4
      <4> QED BY <4>2, <4>3
    <3>2. CASE ~(i + m < Len(r))
      BY <1>1, <1>4, <3>2
    <3> QED BY <3>1, <3>2
  <2> QED BY <1>5, <2>1, <2>2 DEF RunBehind
<1>7. Cardinality((i + 1)..(i + m)) = m
  <2>1. i + 1 \in Int /\ i + m \in Int
    BY <1>1, <1>4
  <2>2. Cardinality((i + 1)..(i + m)) = IF i + 1 > i + m THEN 0 ELSE (i + m) - (i + 1) + 1
    BY <2>1, FS_Interval
  <2> QED BY <1>1, <1>4, <2>2
<1>8. i + m < Len(r) => i + m + 1 \in 1..Len(r)
  BY <1>1, <1>4
<1> QED BY <1>4, <1>5, <1>6, <1>7, <1>8

-----------------------------------------------------------------------------
(* Calls and results: what is left of a history *)

(* A result under the id of a call is the result of a call ... *)
Traced(k) ==
  \A a, x \in 1..Len(k) : IsAssistant(k[a]) /\ IsTool(k[x]) =>
    \A c \in 1..Len(k[a].calls) : k[x].call = k[a].calls[c] => \E y \in 1..Len(k) : Asker(k, y, x)

(* ... and of that one, where the numbers of ids are kept. *)
Numbered(k) ==
  \A a, x \in 1..Len(k) : IsAssistant(k[a]) /\ IsTool(k[x]) =>
    \A c \in 1..Len(k[a].calls) : k[x].call.n = k[a].calls[c].n => Asker(k, a, x) /\ k[x].call = k[a].calls[c]

LEMMA TracedFromFirst ==
  ASSUME NEW p \in Seq(Msg), NEW k \in Seq(Msg), FromFirst(p, Len(p), k), NEW ids,
         \A y \in 1..Len(p) : IsAssistant(p[y]) => \A c \in 1..Len(p[y].calls) : p[y].calls[c] \in ids,
         \A x \in 1..Len(k) : IsTool(k[x]) /\ k[x].call \in ids => \E y \in 1..Len(k) : Asker(k, y, x)
  PROVE  Traced(k)
<1> SUFFICES ASSUME NEW a \in 1..Len(k), NEW x \in 1..Len(k), IsAssistant(k[a]), IsTool(k[x]),
                    NEW c \in 1..Len(k[a].calls), k[x].call = k[a].calls[c]
             PROVE  \E y \in 1..Len(k) : Asker(k, y, x)
  BY DEF Traced
<1>1. ~IsTool(k[a])
  BY DEF IsTool, IsAssistant
<1>2. PICK l \in 1..Len(p) : k[a] = p[l]
  BY <1>1 DEF FromFirst
<1>3. p[l].calls[c] \in ids
  BY <1>2
<1> QED BY <1>2, <1>3

LEMMA NumberedFromFirst ==
  ASSUME NEW p \in Seq(Msg), NEW k \in Seq(Msg), FromFirst(p, Len(p), k), CallsApart(k),
         \A x \in 1..Len(k) : IsTool(k[x]) /\ k[x].call \in
             {id \in Id : \E y \in 1..Len(p) : IsAssistant(p[y]) /\ \E c \in 1..Len(p[y].calls) : p[y].calls[c].n = id.n} =>
           \E y \in 1..Len(k) : Asker(k, y, x)
  PROVE  Numbered(k)
<1> SUFFICES ASSUME NEW a \in 1..Len(k), NEW x \in 1..Len(k), IsAssistant(k[a]), IsTool(k[x]),
                    NEW c \in 1..Len(k[a].calls), k[x].call.n = k[a].calls[c].n
             PROVE  Asker(k, a, x) /\ k[x].call = k[a].calls[c]
  BY DEF Numbered
<1>1. ~IsTool(k[a])
  BY DEF IsTool, IsAssistant
<1>2. PICK l \in 1..Len(p) : k[a] = p[l]
  BY <1>1 DEF FromFirst
<1>3. k[x].call \in Id
  <2>1. PICK m \in Msg : m = k[x]
    OBVIOUS
  <2>2. m \in ToolMsg
    BY <2>1, MsgKinds
  <2> QED BY <2>1, <2>2 DEF ToolMsg
<1>4. PICK y \in 1..Len(k) : Asker(k, y, x)
  BY <1>2, <1>3
<1>5. IsAssistant(k[y]) /\ \E d \in 1..Len(k[y].calls) : k[x].call = k[y].calls[d]
  BY <1>4 DEF Asker
<1>6. PICK d \in 1..Len(k[y].calls) : k[x].call = k[y].calls[d]
  BY <1>5
<1>7. k[y].calls[d].n = k[a].calls[c].n
  BY <1>6
<1>8. y = a /\ d = c
  BY <1>5, <1>7, SameCall
<1> QED BY <1>4, <1>6, <1>8

LEMMA TransformedPairs ==
  ASSUME HistoryInv, NEW t \in Models, NEW D, D = Twofold(history, t)
  PROVE  LET k == Transformed(history, t) IN
         /\ k \in Seq(Msg) /\ Answered(k) /\ Single(k, D) /\ Traced(k)
         /\ t # "mistral" => Numbered(k)
<1> DEFINE p == FirstPass(history, t)
           k == Transformed(history, t)
<1>1. PICK h \in Seq(Msg), n \in Nat :
        /\ h = history /\ IdsStored(h, n) /\ CallsApart(h) /\ ResultsApart(h) /\ ResultsOwned(h)
  BY TransformConstants DEF HistoryInv
<1>2. p \in Seq(Msg)
  BY <1>1, FirstPassType
<1>3. Distinct(FirstPass(h, t), D)
  <2>1. D = Twofold(h, t)
    BY <1>1
  <2> QED BY <1>1, <2>1, FirstPassDistinct
<1>4. Single(FirstPass(h, t), D)
  BY <1>1, <1>3, FirstPassSingle
<1>5. Distinct(p, D) /\ Single(p, D) /\ k = SecondPass(p)
  BY <1>1, <1>3, <1>4 DEF Transformed
<1>6. k \in Seq(Msg)
  BY <1>1, TransformedType
<1> HIDE DEF k, p
<1>7. Answered(k) /\ Single(k, D) /\ (CallsApart(p) => CallsApart(k)) /\ FromFirst(p, Len(p), k)
  BY <1>2, <1>5, SecondPassPairs
<1>8. Traced(k)
  <2> DEFINE ids == SentIds(h, t)
  <2>1. \A x \in 1..Len(FirstPass(h, t)) : IsTool(FirstPass(h, t)[x]) =>
          (\E y \in 1..Len(FirstPass(h, t)) : Asker(FirstPass(h, t), y, x)) \/ FirstPass(h, t)[x].call \notin SentIds(h, t)
    BY <1>1, FirstPassFacts
  <2>2. \A y \in 1..Len(FirstPass(h, t)) : IsAssistant(FirstPass(h, t)[y]) =>
          \A c \in 1..Len(FirstPass(h, t)[y].calls) : FirstPass(h, t)[y].calls[c] \in SentIds(h, t)
    BY <1>1, CallsAreSent
  <2>3. /\ \A x \in 1..Len(p) : IsTool(p[x]) => (\E y \in 1..Len(p) : Asker(p, y, x)) \/ p[x].call \notin ids
        /\ \A y \in 1..Len(p) : IsAssistant(p[y]) => \A c \in 1..Len(p[y].calls) : p[y].calls[c] \in ids
    BY <1>1, <2>1, <2>2 DEF p
  <2> HIDE DEF ids
  <2>4. \A x \in 1..Len(SecondPass(p)) :
          IsTool(SecondPass(p)[x]) /\ SecondPass(p)[x].call \in ids =>
            \E y \in 1..Len(SecondPass(p)) : Asker(SecondPass(p), y, x)
    BY <1>2, <2>3, SecondPassAsks
  <2>5. \A x \in 1..Len(k) : IsTool(k[x]) /\ k[x].call \in ids => \E y \in 1..Len(k) : Asker(k, y, x)
    BY <1>5, <2>4
  <2> QED BY <1>2, <1>6, <1>7, <2>3, <2>5, TracedFromFirst
<1>9. ASSUME t # "mistral" PROVE Numbered(k)
  <2> DEFINE ids == {id \in Id : \E y \in 1..Len(p) : IsAssistant(p[y]) /\
                                   \E c \in 1..Len(p[y].calls) : p[y].calls[c].n = id.n}
  <2>1. /\ CallsApart(FirstPass(h, t))
        /\ \A x \in 1..Len(FirstPass(h, t)) : IsTool(FirstPass(h, t)[x]) =>
             (\E y \in 1..Len(FirstPass(h, t)) : Asker(FirstPass(h, t), y, x)) \/ Orphan(FirstPass(h, t), x)
    BY <1>1, <1>9, FirstPassNumbers
  <2>2. /\ CallsApart(p)
        /\ \A x \in 1..Len(p) : IsTool(p[x]) => (\E y \in 1..Len(p) : Asker(p, y, x)) \/ Orphan(p, x)
    BY <1>1, <2>1 DEF p
  <2>3. \A x \in 1..Len(p) : Orphan(p, x) => p[x].call \notin ids
    BY DEF Orphan
  <2> HIDE DEF ids
  <2>4. \A x \in 1..Len(p) : IsTool(p[x]) => (\E y \in 1..Len(p) : Asker(p, y, x)) \/ p[x].call \notin ids
    BY <2>2, <2>3
  <2>5. \A x \in 1..Len(SecondPass(p)) :
          IsTool(SecondPass(p)[x]) /\ SecondPass(p)[x].call \in ids =>
            \E y \in 1..Len(SecondPass(p)) : Asker(SecondPass(p), y, x)
    BY <1>2, <2>4, SecondPassAsks
  <2>6. \A x \in 1..Len(k) : IsTool(k[x]) /\ k[x].call \in ids => \E y \in 1..Len(k) : Asker(k, y, x)
    BY <1>5, <2>5
  <2>7. CallsApart(k)
    BY <1>7, <2>2
  <2>8. \A x \in 1..Len(k) : IsTool(k[x]) /\ k[x].call \in
             {id \in Id : \E y \in 1..Len(p) : IsAssistant(p[y]) /\ \E c \in 1..Len(p[y].calls) : p[y].calls[c].n = id.n} =>
           \E y \in 1..Len(k) : Asker(k, y, x)
    BY <2>6 DEF ids
  <2> QED BY <1>2, <1>6, <1>7, <2>7, <2>8, NumberedFromFirst
<1> QED BY <1>6, <1>7, <1>8, <1>9 DEF k

-----------------------------------------------------------------------------
(* What the messages are to a request for t *)

Chats == {"gpt-chat", "kimi", "mistral"}

(* The id an adapter sends for that of a call and for that of a result, and the output
   it makes of a result. *)
SentAs(t, id)   == IF t \in Responses THEN SplitCallId(id) ELSE id
ResultAs(t, id) == IF t \in Responses THEN ExtractCallId(id) ELSE id
GivenAs(t, id)  == IF t = "gemini" THEN Unnamed ELSE Output(ResultAs(t, id))

Reading(t, k) ==
  [tools |-> {x \in 1..Len(k) : IsTool(k[x])},
   asks  |-> {x \in 1..Len(k) : IsAssistant(k[x]) /\ Len(k[x].calls) > 0},
   ids   |-> [x \in 1..Len(k) |-> {SentAs(t, k[x].calls[c]) : c \in 1..Len(k[x].calls)}],
   out   |-> [x \in 1..Len(k) |-> GivenAs(t, k[x].call)],
   role  |-> IF t \in Chats \cup Responses THEN "tool" ELSE "results",
   mode  |-> IF t \in Responses THEN "flat" ELSE IF t \in Chats THEN "loose" ELSE "tight"]

Reads(C, t, k) ==
  /\ \A x : x \in C.tools <=> x \in 1..Len(k) /\ IsTool(k[x])
  /\ \A x : x \in C.asks <=> x \in 1..Len(k) /\ IsAssistant(k[x]) /\ Len(k[x].calls) > 0
  /\ \A x \in 1..Len(k) : C.ids[x] = {SentAs(t, k[x].calls[c]) : c \in 1..Len(k[x].calls)}
  /\ \A x \in 1..Len(k) : C.out[x] = GivenAs(t, k[x].call)
  /\ C.role = IF t \in Chats \cup Responses THEN "tool" ELSE "results"
  /\ C.mode = IF t \in Responses THEN "flat" ELSE IF t \in Chats THEN "loose" ELSE "tight"

LEMMA ReadingReads ==
  ASSUME NEW t, NEW k
  PROVE  Reads(Reading(t, k), t, k)
<1> DEFINE a == {x \in 1..Len(k) : IsTool(k[x])}
           b == {x \in 1..Len(k) : IsAssistant(k[x]) /\ Len(k[x].calls) > 0}
           c == [x \in 1..Len(k) |-> {SentAs(t, k[x].calls[d]) : d \in 1..Len(k[x].calls)}]
           d == [x \in 1..Len(k) |-> GivenAs(t, k[x].call)]
           e == IF t \in Chats \cup Responses THEN "tool" ELSE "results"
           f == IF t \in Responses THEN "flat" ELSE IF t \in Chats THEN "loose" ELSE "tight"
           C == [tools |-> a, asks |-> b, ids |-> c, out |-> d, role |-> e, mode |-> f]
<1>1. Reading(t, k) = C
  BY DEF Reading
<1>2. /\ \A x : x \in a <=> x \in 1..Len(k) /\ IsTool(k[x])
      /\ \A x : x \in b <=> x \in 1..Len(k) /\ IsAssistant(k[x]) /\ Len(k[x].calls) > 0
      /\ \A x \in 1..Len(k) : c[x] = {SentAs(t, k[x].calls[l]) : l \in 1..Len(k[x].calls)}
      /\ \A x \in 1..Len(k) : d[x] = GivenAs(t, k[x].call)
  OBVIOUS
<1>3. e = (IF t \in Chats \cup Responses THEN "tool" ELSE "results")
      /\ f = (IF t \in Responses THEN "flat" ELSE IF t \in Chats THEN "loose" ELSE "tight")
  OBVIOUS
<1> HIDE DEF a, b, c, d, e, f
<1>4. C.tools = a /\ C.asks = b /\ C.ids = c /\ C.out = d /\ C.role = e /\ C.mode = f
  OBVIOUS
<1> HIDE DEF C
<1>5. Reads(C, t, k)
  BY <1>2, <1>3, <1>4 DEF Reads
<1> QED BY <1>1, <1>5

-----------------------------------------------------------------------------
(* Outputs for calls *)

LEMMA OnceCovered ==
  ASSUME NEW C, NEW o \in Seq(Part), NEW a \in Nat, NEW b \in Nat, Covers(C, o, a, b), NEW id,
         NEW x, x \in (a + 1)..b, x \in C.tools, C.out[x].id = id,
         \A z \in (a + 1)..b : z \in C.tools /\ C.out[z].id = id => z = x
  PROVE  Once(id, o)
<1>1. PICK f : /\ \A k \in 1..Len(o) : f[k] \in (a + 1)..b /\ f[k] \in C.tools /\ o[k] = C.out[f[k]]
               /\ \A k, l \in 1..Len(o) : f[k] = f[l] => k = l
               /\ \A z \in (a + 1)..b : z \in C.tools => \E k \in 1..Len(o) : f[k] = z
  BY DEF Covers
<1>2. PICK k \in 1..Len(o) : f[k] = x
  BY <1>1
<1>3. o[k].id = id
  BY <1>1, <1>2
<1>4. ASSUME NEW l \in 1..Len(o), o[l].id = id PROVE l = k
  <2>1. PICK z \in (a + 1)..b : z = f[l] /\ z \in C.tools /\ o[l] = C.out[z]
    BY <1>1
  <2>2. z = x
    BY <1>4, <2>1
  <2> QED BY <1>1, <1>2, <2>1, <2>2
<1>5. DOMAIN o = 1..Len(o)
  OBVIOUS
<1>6. {l \in DOMAIN o : o[l].id = id} = {k}
  BY <1>3, <1>4, <1>5
<1>7. Cardinality({k}) = 1
  BY FS_Singleton
<1> QED BY <1>6, <1>7 DEF Once

(* Each of ids has a result behind a up to b. *)
GivenFor(C, q, ids, a, b) == \A id \in ids : \E x \in (a + 1)..b : x \in C.tools /\ q[x].call = id

LEMMA EnoughCovered ==
  ASSUME NEW C, NEW o \in Seq(Part), NEW a \in Nat, NEW b \in Nat, Covers(C, o, a, b), NEW ids, NEW q,
         GivenFor(C, q, ids, a, b)
  PROVE  Len(o) >= Cardinality(ids)
<1>1. PICK f : /\ \A k \in 1..Len(o) : f[k] \in (a + 1)..b /\ f[k] \in C.tools /\ o[k] = C.out[f[k]]
               /\ \A k, l \in 1..Len(o) : f[k] = f[l] => k = l
               /\ \A z \in (a + 1)..b : z \in C.tools => \E k \in 1..Len(o) : f[k] = z
  BY DEF Covers
<1> DEFINE S == 1..Len(o)
           e == [id \in ids |-> CHOOSE k \in S : q[f[k]].call = id]
<1>2. ASSUME NEW id \in ids PROVE e[id] \in S /\ q[f[e[id]]].call = id
  <2>1. PICK x \in (a + 1)..b : x \in C.tools /\ q[x].call = id
    BY DEF GivenFor
  <2>2. PICK k \in S : f[k] = x
    BY <1>1, <2>1
  <2>3. \E l \in S : q[f[l]].call = id
    BY <2>1, <2>2
  <2> QED BY <2>3
<1>3. e = [id \in ids |-> e[id]]
  OBVIOUS
<1>4. Len(o) \in Nat
  OBVIOUS
<1>5. Cardinality(1..Len(o)) = Len(o) /\ IsFiniteSet(1..Len(o))
  <2>1. 1 \in Int /\ Len(o) \in Int
    BY <1>4
  <2>2. /\ IsFiniteSet(1..Len(o))
        /\ Cardinality(1..Len(o)) = IF 1 > Len(o) THEN 0 ELSE Len(o) - 1 + 1
    BY <2>1, FS_Interval
  <2> QED BY <1>4, <2>2
<1>6. Cardinality(S) = Len(o) /\ IsFiniteSet(S)
  BY <1>5
<1> HIDE DEF e, S
<1>7. e \in [ids -> S] /\ DOMAIN e = ids
  BY <1>2, <1>3
<1>8. \A x, y \in ids : e[x] = e[y] => x = y
  BY <1>2
<1>9. e \in Injection(ids, S)
  BY <1>7, <1>8 DEF Injection, IsInjective
<1>10. Cardinality(ids) <= Cardinality(S) /\ IsFiniteSet(ids)
  BY <1>6, <1>9, FS_Injection
<1>11. Cardinality(ids) \in Nat
  BY <1>10, FS_CardinalityType
<1> QED BY <1>4, <1>6, <1>10, <1>11

-----------------------------------------------------------------------------
(* Requests that are laid over such messages pair calls and results *)

(* Among the results behind a up to b is one for id, and unless id is in D one only. *)
OneIn(D, C, k, id, a, b) ==
  \E x \in (a + 1)..b :
    /\ x \in C.tools /\ k[x].call = id
    /\ \A z \in (a + 1)..b : z \in C.tools /\ k[z].call = id => z = x \/ id \in D
OnePartIn(C, k, id, a, b) ==
  \E x \in (a + 1)..b :
    /\ x \in C.tools /\ CallPart(k[x].call) = id
    /\ \A z \in (a + 1)..b : z \in C.tools /\ CallPart(k[z].call) = id => z = x

(* The place b is that of an answer that calls under id. *)
CallsAt(C, t, k, b, id) ==
  /\ b \in 1..Len(k) /\ IsAssistant(k[b]) /\ b \in C.asks
  /\ \E c \in 1..Len(k[b].calls) : id = SentAs(t, k[b].calls[c])

LEMMA CallPlace ==
  ASSUME NEW t, NEW k, NEW C, Reads(C, t, k), NEW r \in Seq(ReqMsg), NEW n \in Nat, NEW p, LaidBy(C, r, p, n),
         NEW i \in 1..Len(r), NEW id, id \in CallIds(r[i])
  PROVE  CallsAt(C, t, k, p[i], id) /\ Calling(r[i])
<1>1. PICK m : m = r[i] /\ m \in ReqMsg
  OBVIOUS
<1>2. PICK l \in 1..Len(m.parts) : m.parts[l].kind = "call" /\ m.parts[l].id = id
  BY <1>1, CallIdsAre
<1>3. PICK a \in Nat, b \in Nat : a = p[i - 1] /\ b = p[i] /\ Lies(C, m, a, b)
  BY <1>1, LaidPlaces
<1>4. m.role # C.role
  <2>1. "call" # "output"
    OBVIOUS
  <2> QED BY <1>2, <1>3, <2>1 DEF Lies, Outputs
<1>5. b \in C.asks /\ id \in C.ids[b]
  <2>1. Talk(C, m, a, b)
    BY <1>3, <1>4 DEF Lies
  <2>2. \A j \in 1..Len(m.parts) : m.parts[j].kind = "call" => b \in C.asks /\ m.parts[j].id \in C.ids[b]
    BY <2>1 DEF Talk
  <2> QED BY <1>2, <2>2
<1>6. b \in 1..Len(k) /\ IsAssistant(k[b])
  BY <1>5 DEF Reads
<1>7. C.ids[b] = {SentAs(t, k[b].calls[c]) : c \in 1..Len(k[b].calls)}
  BY <1>6 DEF Reads
<1>8. \E c \in 1..Len(k[b].calls) : id = SentAs(t, k[b].calls[c])
  BY <1>5, <1>7
<1>9. Calling(r[i])
  BY <1>1, <1>2 DEF Calling
<1>10. CallsAt(C, t, k, b, id)
  BY <1>5, <1>6, <1>8 DEF CallsAt
<1> QED BY <1>3, <1>9, <1>10

(* The message behind a call that is not of results stands for a later place. *)
RunEnds(C, p, i, j, n) ==
  /\ p[i] \in Nat /\ p[j] \in Nat /\ p[j + 1] \in 1..n
  /\ p[i] < p[j + 1] /\ p[i] <= p[j] /\ p[j + 1] \notin C.tools
  /\ \A x \in (p[j] + 1)..p[j + 1] : x \notin C.tools

LEMMA RunPlaces ==
  ASSUME NEW C, C.mode \in {"tight", "loose"}, NEW r \in Seq(ReqMsg), NEW n \in Nat, NEW p, LaidBy(C, r, p, n),
         NEW i \in 1..Len(r), Calling(r[i]), NEW j \in i..Len(r), j < Len(r), r[j + 1].role # C.role
  PROVE  RunEnds(C, p, i, j, n)
<1>1. /\ Len(r) \in Nat
      /\ \A l \in 0..Len(r) : p[l] \in Nat
      /\ \A l \in 1..Len(r) : p[l] \in Nat /\ p[l - 1] \in Nat /\ p[l - 1] <= p[l] /\ Lies(C, r[l], p[l - 1], p[l])
      /\ p[Len(r)] <= n
  BY LaidPlaces
<1>2. PICK e \in 1..Len(r) : e = j + 1 /\ e - 1 = j
  BY <1>1
<1>3. PICK a \in Nat, b \in Nat : a = p[j] /\ b = p[e] /\ a <= b /\ Lies(C, r[e], a, b)
  BY <1>1, <1>2
<1>4. Talk(C, r[e], a, b)
  BY <1>2, <1>3 DEF Lies
<1>5. b \in Nat \ {0} /\ b \notin C.tools /\ \A x \in (a + 1)..b : x \notin C.tools
  BY <1>4 DEF Talk
<1>6. ASSUME NEW x \in 0..Len(r), NEW y \in x..Len(r) PROVE p[x] \in Nat /\ p[y] \in Nat /\ p[x] <= p[y]
  <2>1. PICK m : m = y - x
    OBVIOUS
  <2>2. m \in 0..(Len(r) - x) /\ x + m = y
    BY <1>1, <2>1
  <2>3. p[x] \in Nat /\ p[x + m] \in Nat /\ p[x] <= p[x + m]
    BY <2>2, PlacesGrow
  <2> QED BY <2>2, <2>3
<1>7. p[i] < p[i + 1]
  <2>1. i + 1 \in 1..Len(r) /\ (i + 1) - 1 = i /\ i \in 1..(Len(r) - 1)
    BY <1>1
  <2>2. CASE C.mode = "tight"
    <3>1. \A l \in 1..Len(r) : p[l - 1] < p[l]
      BY <2>2 DEF LaidBy
    <3> QED BY <2>1, <3>1
  <2>3. CASE C.mode = "loose"
    <3>1. \A l \in 1..(Len(r) - 1) : Calling(r[l]) => p[l] < p[l + 1]
      BY <2>3 DEF LaidBy
    <3> QED BY <2>1, <3>1
  <2> QED BY <2>2, <2>3
<1>8. i \in 0..Len(r) /\ i + 1 \in 0..Len(r) /\ e \in 0..Len(r) /\ e \in (i + 1)..Len(r) /\ Len(r) \in e..Len(r)
  BY <1>1, <1>2
<1>9. p[i] \in Nat /\ p[j] \in Nat /\ p[i] <= p[j]
  BY <1>6, <1>8
<1>10. p[i + 1] \in Nat /\ p[i + 1] <= p[e]
  BY <1>6, <1>8
<1>11. p[Len(r)] \in Nat /\ p[e] <= p[Len(r)]
  BY <1>6, <1>8
<1>12. p[i] < b /\ b <= n
  <2>1. p[i] \in Nat /\ p[i + 1] \in Nat /\ b \in Nat /\ p[Len(r)] \in Nat /\ p[i] < p[i + 1] /\ p[i + 1] <= b
        /\ b <= p[Len(r)] /\ p[Len(r)] <= n
    BY <1>1, <1>3, <1>7, <1>9, <1>10, <1>11
  <2> QED BY <2>1
<1>13. /\ p[i] \in Nat /\ p[j] \in Nat /\ p[j + 1] \in 1..n
       /\ p[i] < p[j + 1] /\ p[i] <= p[j] /\ p[j + 1] \notin C.tools
       /\ \A x \in (p[j] + 1)..p[j + 1] : x \notin C.tools
  BY <1>2, <1>3, <1>5, <1>9, <1>12
<1> QED BY <1>13 DEF RunEnds

(* Among the results of the run behind a call is its own, and no other of its id. *)
LEMMA RunAnswers ==
  ASSUME NEW t, t \notin Responses, NEW D, NEW k \in Seq(Msg), Answered(k), Single(k, D), Traced(k),
         NEW C, Reads(C, t, k), NEW r \in Seq(ReqMsg), NEW n, n = Len(k), NEW p, LaidBy(C, r, p, n),
         NEW i \in 1..Len(r), NEW m \in 0..(Len(r) - i), i + m < Len(r), r[i + m + 1].role # C.role,
         \A l \in (i + 1)..(i + m) : r[l].role = C.role,
         NEW id, id \in CallIds(r[i])
  PROVE  OneIn(D, C, k, id, p[i], p[i + m])
<1>1. n \in Nat /\ Len(r) \in Nat
  OBVIOUS
<1>2. C.mode \in {"tight", "loose"}
  BY DEF Reads
<1>3. CallsAt(C, t, k, p[i], id) /\ Calling(r[i])
  BY <1>1, CallPlace
<1>4. /\ p[i] \in Nat /\ p[i + m] \in Nat /\ p[i + m + 1] \in 1..n
      /\ p[i] < p[i + m + 1] /\ p[i] <= p[i + m] /\ p[i + m + 1] \notin C.tools
      /\ \A x \in (p[i + m] + 1)..p[i + m + 1] : x \notin C.tools
  <2>1. n \in Nat
    BY <1>1
  <2>2. Calling(r[i])
    BY <1>3
  <2>3. i + m < Len(r)
    OBVIOUS
  <2>4. r[i + m + 1].role # C.role
    OBVIOUS
  <2>5. PICK j \in i..Len(r) : j = i + m
    BY <1>1
  <2>6. j < Len(r) /\ r[j + 1].role # C.role
    BY <2>3, <2>4, <2>5
  <2>7. RunEnds(C, p, i, j, n)
    BY <1>2, <2>1, <2>2, <2>6, RunPlaces
  <2> QED BY <2>5, <2>7 DEF RunEnds
<1>5. \A x \in (p[i] + 1)..p[i + m] : x \notin C.asks
  <2>1. i \in 0..Len(r)
    BY <1>1
  <2> QED BY <1>1, <2>1, RunAsksNothing
<1>6. PICK a \in 1..Len(k), b \in Nat, e \in 1..Len(k) : a = p[i] /\ b = p[i + m] /\ e = p[i + m + 1]
  BY <1>3, <1>4 DEF CallsAt
<1>7. /\ IsAssistant(k[a]) /\ a < e /\ a <= b /\ e \notin C.tools
      /\ (\A x \in (b + 1)..e : x \notin C.tools) /\ \A x \in (a + 1)..b : x \notin C.asks
  BY <1>3, <1>4, <1>5, <1>6 DEF CallsAt
<1>8. PICK c \in 1..Len(k[a].calls) : id = k[a].calls[c]
  BY <1>3, <1>6 DEF SentAs, CallsAt
<1>9. \A x : x \in C.tools <=> x \in 1..Len(k) /\ IsTool(k[x])
  BY DEF Reads
<1>10. \A x : x \in C.asks <=> x \in 1..Len(k) /\ IsAssistant(k[x]) /\ Len(k[x].calls) > 0
  BY DEF Reads
<1>11. ~IsTool(k[e])
  BY <1>7, <1>9
<1>12. PICK x \in 1..Len(k) : Asker(k, a, x) /\ k[x].call = id
  BY <1>7, <1>8, <1>11 DEF Answered
<1>13. a \in 1..(x - 1) /\ \A l \in (a + 1)..x : IsTool(k[l])
  BY <1>12 DEF Asker
<1>14. x < e
  <2>1. e \notin (a + 1)..x
    BY <1>11, <1>13
  <2> QED BY <1>7, <2>1
<1>15. IsTool(k[x]) /\ x \in C.tools
  <2>1. x \in (a + 1)..x
    BY <1>13
  <2> QED BY <1>9, <1>13, <2>1
<1>16. x \in (a + 1)..b
  <2>1. x \notin (b + 1)..e
    BY <1>7, <1>15
  <2> QED BY <1>13, <1>14, <2>1
<1>17. ASSUME NEW z \in (a + 1)..b, z \in C.tools, k[z].call = id PROVE z = x \/ id \in D
  <2>1. z \in 1..Len(k) /\ IsTool(k[z])
    BY <1>9, <1>17
  <2>2. PICK y \in 1..Len(k) : Asker(k, y, z)
    BY <1>7, <1>8, <1>17, <2>1 DEF Traced
  <2>3. /\ y \in 1..(z - 1) /\ IsAssistant(k[y]) /\ \A l \in (y + 1)..z : IsTool(k[l])
        /\ \E d \in 1..Len(k[y].calls) : k[z].call = k[y].calls[d]
    BY <2>2 DEF Asker
  <2>4. ~IsTool(k[a]) /\ a \notin (y + 1)..z
    <3>1. ~IsTool(k[a])
      BY <1>7 DEF IsTool, IsAssistant
    <3> QED BY <2>3, <3>1
  <2>5. ~(y < a)
    <3>1. z \in Nat /\ a \in Nat /\ a < z /\ y \in Nat
      <4>1. a \in Nat /\ b \in Nat /\ z \in (a + 1)..b
        OBVIOUS
      <4>2. y \in 1..(z - 1)
        BY <2>3
      <4> QED BY <4>1, <4>2
    <3> QED BY <2>4, <3>1
  <2>6. y \notin (a + 1)..b
    <3>1. Len(k[y].calls) > 0
      <4>0. y \in 1..Len(k)
        BY <2>2
      <4>1. PICK q \in Msg : q = k[y]
        BY <4>0
      <4>2. q \in AnswerMsg
        BY <2>3, <4>1, MsgKinds
      <4>3. Len(q.calls) \in Nat
        BY <4>2 DEF AnswerMsg
      <4> QED BY <2>3, <4>1, <4>3
    <3>2. y \in C.asks
      BY <1>10, <2>3, <3>1
    <3> QED BY <1>7, <3>2
  <2>7. y = a
    <3>1. y \in Nat /\ a \in Nat /\ y < z /\ z <= b /\ z \in Nat
      <4>1. a \in Nat /\ b \in Nat /\ z \in (a + 1)..b
        OBVIOUS
      <4>2. y \in 1..(z - 1)
        BY <2>3
      <4> QED BY <4>1, <4>2
    <3>2. b \in Nat /\ ~(y < a) /\ ~(a + 1 <= y /\ y <= b)
      BY <2>5, <2>6, <3>1
    <3> QED BY <3>1, <3>2
  <2>8. Asker(k, a, z)
    BY <2>2, <2>7
  <2> QED BY <1>12, <1>17, <2>1, <2>8 DEF Single
<1>18. OneIn(D, C, k, id, a, b)
  BY <1>12, <1>15, <1>16, <1>17 DEF OneIn
<1> QED BY <1>6, <1>18

(* The results for a call of an item are behind it. *)
LEMMA RestAnswers ==
  ASSUME NEW t, t \in Responses, NEW k \in Seq(Msg), Answered(k), Single(k, {}), Numbered(k),
         NEW C, Reads(C, t, k), NEW r \in Seq(ReqMsg), NEW n, n = Len(k), NEW p, LaidBy(C, r, p, n),
         NEW i \in 1..Len(r), NEW j \in (i + 1)..Len(r), r[j].role = "user",
         NEW id, id \in CallIds(r[i]), id.n \notin Trailing
  PROVE  OnePartIn(C, k, id, p[i], p[Len(r)])
<1>1. n \in Nat /\ Len(r) \in Nat /\ i \in Nat /\ j \in 1..Len(r)
  OBVIOUS
<1>2. /\ \A l \in 0..Len(r) : p[l] \in Nat
      /\ \A l \in 1..Len(r) : p[l - 1] <= p[l] /\ Lies(C, r[l], p[l - 1], p[l])
      /\ p[Len(r)] <= n
  BY <1>1, LaidPlaces
<1>3. CallsAt(C, t, k, p[i], id)
  BY <1>1, CallPlace
<1>4. p[i] <= p[j] /\ p[j] <= p[Len(r)]
  <2>1. PICK d : d = j - i
    OBVIOUS
  <2>2. i \in 0..Len(r) /\ d \in 0..(Len(r) - i) /\ i + d = j
    BY <1>1, <2>1
  <2>3. p[i] <= p[i + d]
    BY <1>1, <2>2, PlacesGrow
  <2>4. PICK f : f = Len(r) - j
    OBVIOUS
  <2>5. j \in 0..Len(r) /\ f \in 0..(Len(r) - j) /\ j + f = Len(r)
    <3>1. PICK e \in Nat : e = Len(r) /\ j \in 1..e /\ f = e - j
      BY <1>1, <2>4
    <3>2. j \in 0..e /\ f \in 0..(e - j) /\ j + f = e
      BY <3>1
    <3> QED BY <3>1, <3>2
  <2>6. p[j] <= p[j + f]
    BY <1>1, <2>5, PlacesGrow
  <2> QED BY <2>2, <2>3, <2>5, <2>6
<1>5. p[j] \in Nat \ {0} /\ p[j] \notin C.tools /\ p[j] \notin C.asks
  <2>1. C.role = "tool"
    BY DEF Reads
  <2>2. r[j].role # C.role
    BY <2>1
  <2>3. Talk(C, r[j], p[j - 1], p[j])
    BY <1>1, <1>2, <2>2 DEF Lies
  <2> QED BY <2>3 DEF Talk
<1>6. PICK a \in 1..Len(k), b \in 1..Len(k), e \in 1..Len(k) : a = p[i] /\ e = p[j] /\ b = p[Len(r)]
  <2>1. p[j] \in 1..Len(k) /\ p[Len(r)] \in 1..Len(k)
    <3>1. Len(r) \in 0..Len(r)
      BY <1>1
    <3> QED BY <1>1, <1>2, <1>4, <1>5, <3>1
  <2> QED BY <1>3, <2>1 DEF CallsAt
<1>7. IsAssistant(k[a]) /\ a <= e /\ e <= b /\ e \notin C.tools /\ e \notin C.asks /\ a \in C.asks
  BY <1>3, <1>4, <1>5, <1>6 DEF CallsAt
<1>8. a < e
  BY <1>7
<1>9. PICK c \in 1..Len(k[a].calls) : id = CallPart(k[a].calls[c])
  <2>1. PICK c \in 1..Len(k[a].calls) : id = SplitCallId(k[a].calls[c])
    BY <1>3, <1>6 DEF SentAs, CallsAt
  <2>2. PICK q \in Msg : q = k[a]
    OBVIOUS
  <2>3. q \in AnswerMsg
    BY <1>7, <2>2, MsgKinds
  <2>4. q.calls \in Seq(Id)
    BY <2>3 DEF AnswerMsg
  <2>5. PICK d \in Id : d = k[a].calls[c]
    BY <2>1, <2>2, <2>4
  <2>6. SplitCallId(d).n = d.n /\ (d.n \notin Trailing => SplitCallId(d) = CallPart(d))
    BY CallPartType
  <2> QED BY <2>1, <2>5, <2>6
<1>10. \A x : x \in C.tools <=> x \in 1..Len(k) /\ IsTool(k[x])
  BY DEF Reads
<1>11. ~IsTool(k[e])
  BY <1>7, <1>10
<1>12. PICK x \in 1..Len(k) : Asker(k, a, x) /\ k[x].call = k[a].calls[c]
  BY <1>7, <1>8, <1>11 DEF Answered
<1>13. a \in 1..(x - 1) /\ \A l \in (a + 1)..x : IsTool(k[l])
  BY <1>12 DEF Asker
<1>14. IsTool(k[x]) /\ x \in C.tools
  <2>1. x \in (a + 1)..x
    BY <1>13
  <2> QED BY <1>10, <1>13, <2>1
<1>15. x \in (a + 1)..b
  <2>1. e \notin (a + 1)..x
    BY <1>11, <1>13
  <2>2. x < e
    BY <1>8, <2>1
  <2> QED BY <1>7, <1>13, <2>2
<1>16. CallPart(k[x].call) = id
  BY <1>9, <1>12
<1>17. ASSUME NEW z \in (a + 1)..b, z \in C.tools, CallPart(k[z].call) = id PROVE z = x
  <2>1. z \in 1..Len(k) /\ IsTool(k[z])
    BY <1>10, <1>17
  <2>2. k[z].call \in Id /\ k[a].calls[c] \in Id
    <3>1. PICK q \in Msg, s \in Msg : q = k[z] /\ s = k[a]
      BY <2>1
    <3>2. q \in ToolMsg /\ s \in AnswerMsg
      BY <1>7, <2>1, <3>1, MsgKinds
    <3>3. q.call \in Id /\ s.calls \in Seq(Id)
      BY <3>2 DEF ToolMsg, AnswerMsg
    <3> QED BY <3>1, <3>3
  <2>3. \A d \in Id : CallPart(d).n = d.n
    BY CallPartType
  <2>4. k[z].call.n = k[a].calls[c].n
    <3>1. CallPart(k[z].call) = CallPart(k[a].calls[c])
      BY <1>9, <1>17
    <3> QED BY <2>2, <2>3, <3>1
  <2>5. Asker(k, a, z) /\ k[z].call = k[a].calls[c]
    BY <1>7, <2>1, <2>4 DEF Numbered
  <2> QED BY <1>12, <2>1, <2>5 DEF Single
<1>18. OnePartIn(C, k, id, a, b)
  BY <1>14, <1>15, <1>16, <1>17 DEF OnePartIn
<1> QED BY <1>6, <1>18

RoleFor(t) == IF t \in Chats THEN "tool" ELSE "results"

(* What CallsPaired says, with the run of results given by its length. *)
RunPaired(t, D, r) ==
  \A i \in 1..Len(r) : \A m \in 0..(Len(r) - i) :
    LET o == OutputsIn(SubSeq(r, i + 1, i + m)) IN
    (\A l \in (i + 1)..(i + m) : r[l].role = RoleFor(t)) /\ i + m < Len(r) /\ r[i + m + 1].role # RoleFor(t) =>
      IF t = "gemini" THEN Len(o) >= Cardinality(CallIds(r[i])) ELSE \A id \in CallIds(r[i]) \ D : Once(id, o)
RestPaired(r) ==
  \A i \in 1..Len(r) : (\E j \in (i + 1)..Len(r) : r[j].role = "user") =>
    \A id \in CallIds(r[i]) : id.n \in Trailing \/ Once(id, OutputsIn(SubSeq(r, i + 1, Len(r))))

LEMMA LaidPairsRun ==
  ASSUME NEW t, t \notin Responses, NEW D, NEW k \in Seq(Msg), Answered(k), Single(k, D), Traced(k),
         NEW C, Reads(C, t, k), NEW r \in Seq(ReqMsg), Laid(C, r, Len(k))
  PROVE  RunPaired(t, D, r)
<1> SUFFICES ASSUME NEW i \in 1..Len(r), NEW m \in 0..(Len(r) - i),
                    \A l \in (i + 1)..(i + m) : r[l].role = RoleFor(t), i + m < Len(r), r[i + m + 1].role # RoleFor(t)
             PROVE  LET o == OutputsIn(SubSeq(r, i + 1, i + m)) IN
                    IF t = "gemini" THEN Len(o) >= Cardinality(CallIds(r[i])) ELSE \A id \in CallIds(r[i]) \ D : Once(id, o)
  BY DEF RunPaired
<1> DEFINE o == OutputsIn(SubSeq(r, i + 1, i + m))
<1>0. PICK n \in Nat : n = Len(k)
  OBVIOUS
<1>1. Len(r) \in Nat /\ i \in 0..Len(r)
  OBVIOUS
<1>2. PICK p : LaidBy(C, r, p, n)
  BY <1>0 DEF Laid
<1>3. C.role = RoleFor(t)
  BY DEF Reads, RoleFor
<1>4. o \in Seq(Part) /\ Covers(C, o, p[i], p[i + m])
  BY <1>1, <1>2, OutputsCovered
<1> HIDE DEF o
<1>5. ASSUME NEW id \in CallIds(r[i])
      PROVE  OneIn(D, C, k, id, p[i], p[i + m])
  <2>1. r[i + m + 1].role # C.role
    BY <1>3
  <2>2. \A l \in (i + 1)..(i + m) : r[l].role = C.role
    BY <1>3
  <2>3. i + m < Len(r)
    OBVIOUS
  <2>4. id \in CallIds(r[i])
    OBVIOUS
  <2> QED BY <1>0, <1>2, <2>1, <2>2, <2>3, <2>4, RunAnswers
<1>6. PICK a \in Nat, b \in Nat : a = p[i] /\ b = p[i + m]
  <2>1. i + m \in 0..Len(r)
    BY <1>1
  <2>2. \A l \in 0..Len(r) : p[l] \in Nat
    BY <1>1, <1>2, LaidPlaces
  <2> QED BY <1>1, <2>1, <2>2
<1>7. Covers(C, o, a, b)
  BY <1>4, <1>6
<1>8. CASE t = "gemini"
  <2>1. \A id \in CallIds(r[i]) : \E x \in (a + 1)..b : x \in C.tools /\ k[x].call = id
    BY <1>5, <1>6 DEF OneIn
  <2>2. PICK ids : ids = CallIds(r[i])
    OBVIOUS
  <2>3. GivenFor(C, k, ids, a, b)
    BY <2>1, <2>2 DEF GivenFor
  <2>4. o \in Seq(Part)
    BY <1>4
  <2>5. Len(o) >= Cardinality(ids)
    BY <1>7, <2>3, <2>4, EnoughCovered
  <2> QED BY <1>8, <2>2, <2>5 DEF o
<1>9. CASE t # "gemini"
  <2>1. ASSUME NEW id \in CallIds(r[i]), id \notin D PROVE Once(id, o)
    <3>1. PICK x \in (a + 1)..b : /\ x \in C.tools /\ k[x].call = id
                                  /\ \A z \in (a + 1)..b : z \in C.tools /\ k[z].call = id => z = x
      BY <1>5, <1>6, <2>1 DEF OneIn
    <3>2. ASSUME NEW z, z \in C.tools PROVE C.out[z].id = k[z].call
      <4>1. z \in 1..Len(k)
        BY <3>2 DEF Reads
      <4>2. C.out[z] = GivenAs(t, k[z].call)
        BY <4>1 DEF Reads
      <4> QED BY <1>9, <4>2 DEF GivenAs, ResultAs, Output
    <3>3. C.out[x].id = id /\ \A z \in (a + 1)..b : z \in C.tools /\ C.out[z].id = id => z = x
      BY <3>1, <3>2
    <3>4. x \in (a + 1)..b /\ x \in C.tools
      BY <3>1
    <3> QED BY <1>4, <1>7, <3>3, <3>4, OnceCovered
  <2> QED BY <1>9, <2>1 DEF o
<1> QED BY <1>8, <1>9

LEMMA LaidPairsRest ==
  ASSUME NEW t, t \in Responses, NEW k \in Seq(Msg), Answered(k), Single(k, {}), Numbered(k),
         NEW C, Reads(C, t, k), NEW r \in Seq(ReqMsg), Laid(C, r, Len(k))
  PROVE  RestPaired(r)
<1> SUFFICES ASSUME NEW i \in 1..Len(r), NEW j \in (i + 1)..Len(r), r[j].role = "user", NEW id \in CallIds(r[i]),
                    id.n \notin Trailing
             PROVE  Once(id, OutputsIn(SubSeq(r, i + 1, Len(r))))
  BY DEF RestPaired
<1>0. PICK n \in Nat : n = Len(k)
  OBVIOUS
<1>1. Len(r) \in Nat /\ i \in 0..Len(r)
  OBVIOUS
<1>2. PICK p : LaidBy(C, r, p, n)
  BY <1>0 DEF Laid
<1>3. PICK m : m = Len(r) - i
  OBVIOUS
<1>4. m \in 0..(Len(r) - i) /\ i + m = Len(r)
  BY <1>1, <1>3
<1> DEFINE o == OutputsIn(SubSeq(r, i + 1, i + m))
<1>5. o \in Seq(Part) /\ Covers(C, o, p[i], p[i + m])
  BY <1>1, <1>2, <1>4, OutputsCovered
<1>6. o = OutputsIn(SubSeq(r, i + 1, Len(r)))
  BY <1>4
<1> HIDE DEF o
<1>7. PICK a \in Nat, b \in Nat : a = p[i] /\ b = p[Len(r)]
  <2>1. Len(r) \in 0..Len(r)
    BY <1>1
  <2>2. \A l \in 0..Len(r) : p[l] \in Nat
    BY <1>1, <1>2, LaidPlaces
  <2> QED BY <1>1, <2>1, <2>2
<1>8. Covers(C, o, a, b)
  BY <1>4, <1>5, <1>7
<1>9. PICK x \in (p[i] + 1)..p[Len(r)] :
         /\ x \in C.tools /\ CallPart(k[x].call) = id
         /\ \A z \in (p[i] + 1)..p[Len(r)] : z \in C.tools /\ CallPart(k[z].call) = id => z = x
  <2>1. OnePartIn(C, k, id, p[i], p[Len(r)])
    BY <1>0, <1>2, RestAnswers
  <2> QED BY <2>1 DEF OnePartIn
<1>10. ASSUME NEW z, z \in C.tools PROVE C.out[z].id = CallPart(k[z].call)
  <2>1. z \in 1..Len(k)
    BY <1>10 DEF Reads
  <2>2. C.out[z] = GivenAs(t, k[z].call)
    BY <2>1 DEF Reads
  <2>3. t # "gemini"
    BY DEF Responses
  <2> QED BY <2>2, <2>3 DEF GivenAs, ResultAs, ExtractCallId, Output
<1>11. x \in (a + 1)..b /\ x \in C.tools
  BY <1>7, <1>9
<1>12. C.out[x].id = id /\ \A z \in (a + 1)..b : z \in C.tools /\ C.out[z].id = id => z = x
  BY <1>7, <1>9, <1>10
<1>13. Once(id, o)
  BY <1>5, <1>8, <1>11, <1>12, OnceCovered
<1> QED BY <1>6, <1>13

-----------------------------------------------------------------------------
(* What the adapters make of one message *)

OutputRole(t) == IF t \in Chats \cup Responses THEN "tool" ELSE "results"

Asks(m) == IsAssistant(m) /\ Len(m.calls) > 0

(* out gives no outputs and only calls of m; it is from the user or empty only if m has none. *)
Utters(t, m, out) ==
  /\ \A l \in 1..Len(out.parts) :
       /\ out.parts[l].kind # "output"
       /\ out.parts[l].kind = "call" =>
            IsAssistant(m) /\ \E c \in 1..Len(m.calls) : out.parts[l].id = SentAs(t, m.calls[c])
  /\ out.role = "user" \/ out.parts = <<>> => ~Asks(m)

Renders(t, m, out) ==
  /\ out \in ReqMsg
  /\ IF IsTool(m) THEN out.role = OutputRole(t) /\ out.parts = <<GivenAs(t, m.call)>>
                  ELSE out.role # OutputRole(t) /\ Utters(t, m, out)

LEMMA GivenIs ==
  ASSUME NEW t, NEW id, id \in Id
  PROVE  GivenAs(t, id) \in Part /\ GivenAs(t, id).kind = "output"
<1>1. ResultAs(t, id) \in Id
  BY CallPartType DEF ResultAs
<1>2. \A d \in Id : Output(d) \in OutPart
  BY PartFacts
<1>3. GivenAs(t, id) \in OutPart
  BY <1>1, <1>2, PartFacts DEF GivenAs
<1>4. \A x \in OutPart : x.kind = "output"
  BY DEF OutPart
<1> QED BY <1>3, <1>4, PartFacts

LEMMA OutputLies ==
  ASSUME NEW t, NEW k \in Seq(Msg), NEW C, Reads(C, t, k), NEW x, x \in 1..Len(k), IsTool(k[x]),
         NEW out, Renders(t, k[x], out)
  PROVE  /\ x \in C.tools /\ x \notin C.asks /\ out.role = C.role
         /\ out.parts = <<C.out[x]>> /\ C.out[x] \in Part /\ C.out[x].kind = "output"
         /\ Lies(C, out, x - 1, x)
<1>1. PICK n \in Nat : n = x - 1 /\ n + 1 = x
  OBVIOUS
<1>2. x \in C.tools /\ x \notin C.asks
  <2>1. ~IsAssistant(k[x])
    BY DEF IsAssistant, IsTool
  <2> QED BY <2>1 DEF Reads
<1>3. PICK d \in Id : d = k[x].call
  <2>1. PICK m \in Msg : m = k[x]
    OBVIOUS
  <2>2. m \in ToolMsg
    BY <2>1, MsgKinds
  <2> QED BY <2>1, <2>2 DEF ToolMsg
<1>4. PICK y \in Part : y = GivenAs(t, d) /\ y.kind = "output"
  BY GivenIs
<1>5. C.out[x] = y /\ C.role = OutputRole(t)
  BY <1>3, <1>4 DEF Reads, OutputRole
<1>6. out.role = C.role /\ out.parts = <<y>>
  BY <1>3, <1>4, <1>5 DEF Renders
<1>7. Covers(C, <<y>>, n, n + 1)
  BY <1>1, <1>2, <1>5, CoversOne
<1> DEFINE q == out.parts
<1>8. Len(q) = 1 /\ q[1] = y
  BY <1>6
<1>9. \A l \in 1..Len(q) : q[l].kind = "output"
  <2>1. \A l \in 1..1 : l = 1
    OBVIOUS
  <2> HIDE DEF q
  <2> QED BY <1>4, <1>8, <2>1
<1>10. \A z \in (n + 1)..(n + 1) : z = x
  BY <1>1
<1> HIDE DEF q
<1>11. Covers(C, q, n, n + 1)
  BY <1>6, <1>7 DEF q
<1>12. Outputs(C, out, n, n + 1)
  BY <1>2, <1>9, <1>10, <1>11 DEF Outputs, q
<1>13. Lies(C, out, n, n + 1)
  BY <1>6, <1>12 DEF Lies
<1> QED BY <1>1, <1>2, <1>4, <1>5, <1>6, <1>13

LEMMA TalkLies ==
  ASSUME NEW t, NEW k \in Seq(Msg), NEW C, Reads(C, t, k), NEW x, x \in 1..Len(k), ~IsTool(k[x]),
         NEW out, Renders(t, k[x], out), NEW a, a \in {x - 1, x}
  PROVE  Lies(C, out, a, x)
<1>1. C.role = OutputRole(t)
  BY DEF Reads, OutputRole
<1>2. out.role # C.role /\ Utters(t, k[x], out)
  BY <1>1 DEF Renders
<1>3. x \notin C.tools /\ x \in Nat \ {0}
  BY DEF Reads
<1>4. x \in C.asks <=> Asks(k[x])
  BY DEF Reads, Asks
<1>5. \A z \in (a + 1)..x : z = x
  OBVIOUS
<1>6. ASSUME NEW l \in 1..Len(out.parts)
      PROVE  /\ out.parts[l].kind # "output"
             /\ out.parts[l].kind = "call" => x \in C.asks /\ out.parts[l].id \in C.ids[x]
  <2>1. out.parts[l].kind # "output"
    BY <1>2 DEF Utters
  <2>2. ASSUME out.parts[l].kind = "call" PROVE x \in C.asks /\ out.parts[l].id \in C.ids[x]
    <3>1. IsAssistant(k[x]) /\ \E c \in 1..Len(k[x].calls) : out.parts[l].id = SentAs(t, k[x].calls[c])
      BY <1>2, <2>2 DEF Utters
    <3>2. PICK c \in 1..Len(k[x].calls) : out.parts[l].id = SentAs(t, k[x].calls[c])
      BY <3>1
    <3>3. C.ids[x] = {SentAs(t, k[x].calls[d]) : d \in 1..Len(k[x].calls)}
      BY DEF Reads
    <3>4. Len(k[x].calls) > 0
      <4>1. PICK m \in Msg : m = k[x]
        OBVIOUS
      <4>2. m \in AnswerMsg
        BY <3>1, <4>1, MsgKinds
      <4>3. Len(m.calls) \in Nat
        BY <4>2 DEF AnswerMsg
      <4> QED BY <4>1, <4>3
    <3>5. x \in C.asks
      BY <1>4, <3>1, <3>4 DEF Asks
    <3> QED BY <3>2, <3>3, <3>5
  <2> QED BY <2>1, <2>2
<1>7. out.role = "user" \/ out.parts = <<>> => x \notin C.asks
  BY <1>2, <1>4 DEF Utters
<1>8. Talk(C, out, a, x)
  BY <1>3, <1>5, <1>6, <1>7 DEF Talk
<1> QED BY <1>2, <1>8 DEF Lies

(* What is made of one message lies at its place. *)
LEMMA RenderLies ==
  ASSUME NEW t, NEW k \in Seq(Msg), NEW C, Reads(C, t, k), NEW x, x \in 1..Len(k), NEW out, Renders(t, k[x], out)
  PROVE  Lies(C, out, x - 1, x)
<1>1. CASE IsTool(k[x])
  BY <1>1, OutputLies
<1>2. CASE ~IsTool(k[x])
  <2>1. PICK a : a = x - 1
    OBVIOUS
  <2>2. a \in {x - 1, x}
    BY <2>1
  <2>3. Lies(C, out, a, x)
    BY <1>2, <2>2, TalkLies
  <2> QED BY <2>1, <2>3
<1> QED BY <1>1, <1>2

(* A message with nothing in it stands for no results and no calls. *)
LEMMA EmptyClean ==
  ASSUME NEW C, NEW m, m.parts = <<>>, NEW a \in Nat, NEW b \in Nat, Lies(C, m, a, b)
  PROVE  Clean(C, a, b)
<1>1. Len(m.parts) = 0 /\ 1..0 = {}
  OBVIOUS
<1>2. CASE m.role = C.role
  <2>1. Outputs(C, m, a, b)
    BY <1>2 DEF Lies
  <2>2. \A x \in (a + 1)..b : x \notin C.asks
    BY <2>1 DEF Outputs
  <2>3. \A x \in (a + 1)..b : x \in C.tools => \E l \in 1..Len(m.parts) : TRUE
    BY <2>1 DEF Outputs, Covers
  <2> QED BY <1>1, <2>2, <2>3 DEF Clean
<1>3. CASE m.role # C.role
  <2>1. Talk(C, m, a, b)
    BY <1>3 DEF Lies
  <2> QED BY <2>1 DEF Talk, Clean
<1> QED BY <1>2, <1>3

-----------------------------------------------------------------------------
(* ... by each of them *)

Wordy(p) == \A l \in 1..Len(p) : p[l].kind # "output" /\ p[l].kind # "call"

LEMMA WordyOne ==
  ASSUME NEW x, x \in {Text, Blank, Image, Bridge}
  PROVE  Wordy(<<x>>) /\ <<x>> # <<>> /\ <<x>> \in Seq(Part)
<1>1. x \in Part /\ x.kind # "output" /\ x.kind # "call"
  <2>1. x.kind \in {"text", "blank", "image", "bridge"}
    BY DEF Text, Blank, Image, Bridge
  <2> QED BY <2>1, PartFacts
<1> DEFINE q == <<x>>
<1>2. Len(q) = 1 /\ q[1] = x /\ q # <<>> /\ q \in Seq(Part) /\ \A l \in 1..1 : l = 1
  BY <1>1
<1> HIDE DEF q
<1>3. Wordy(q)
  BY <1>1, <1>2 DEF Wordy
<1> QED BY <1>2, <1>3 DEF q

LEMMA WordyTexts ==
  ASSUME NEW m
  PROVE  Wordy(TextParts(m)) /\ Wordy(TextOrBlank(m)) /\ TextParts(m) \in Seq(Part) /\ TextOrBlank(m) \in Seq(Part)
<1>1. Wordy(<<>>) /\ <<>> \in Seq(Part)
  BY DEF Wordy
<1>2. Wordy(<<Text>>) /\ Wordy(<<Blank>>)
  BY WordyOne
<1>3. TextParts(m) \in {<<>>, <<Text>>}
  BY DEF TextParts
<1>4. TextOrBlank(m) \in {TextParts(m), <<Blank>>}
  BY DEF TextOrBlank
<1>5. Wordy(TextParts(m))
  BY <1>1, <1>2, <1>3
<1> QED BY <1>2, <1>4, <1>5, TextPartsFacts

LEMMA AnswerParts ==
  ASSUME NEW m, m \in AnswerMsg
  PROVE  LET p == TextParts(m) \o Each(m.calls, Call)
         IN /\ p \in Seq(Part)
            /\ \A l \in 1..Len(p) :
                 /\ p[l].kind # "output"
                 /\ p[l].kind = "call" => \E c \in 1..Len(m.calls) : p[l].id = m.calls[c]
            /\ p = <<>> => Len(m.calls) = 0
<1> DEFINE a == TextParts(m)
           s == m.calls
           b == Each(m.calls, Call)
           p == a \o b
<1>1. a \in Seq(Part) /\ Wordy(a)
  BY WordyTexts
<1>2. s \in Seq(Id) /\ DOMAIN s = 1..Len(s) /\ Len(s) \in Nat
  BY DEF AnswerMsg
<1>3. b = [i \in 1..Len(s) |-> Call(s[i])]
  BY <1>2 DEF Each
<1> HIDE DEF a, b, s
<1>4. ASSUME NEW i \in 1..Len(s) PROVE b[i] \in Part /\ b[i].kind = "call" /\ b[i].id = s[i]
  <2>1. s[i] \in Id /\ b[i] = Call(s[i])
    BY <1>2, <1>3
  <2>2. b[i] \in Part
    BY <2>1, PartFacts
  <2> QED BY <2>1, <2>2 DEF Call
<1>5. b \in Seq(Part) /\ Len(b) = Len(s)
  <2>1. b = [i \in 1..Len(s) |-> b[i]]
    BY <1>3
  <2> QED BY <1>2, <1>4, <2>1
<1>6. /\ p \in Seq(Part) /\ Len(p) = Len(a) + Len(b)
      /\ (\A i \in 1..Len(a) : p[i] = a[i]) /\ (\A i \in 1..Len(b) : p[Len(a) + i] = b[i])
  <2>1. a \in Seq(Part)
    BY <1>1
  <2>2. b \in Seq(Part)
    BY <1>5
  <2> QED BY <2>1, <2>2, ConcatFacts
<1>7. Len(a) \in Nat /\ Len(b) \in Nat
  BY <1>1, <1>5
<1> HIDE DEF p
<1>8. ASSUME NEW l \in 1..Len(p)
      PROVE  /\ p[l].kind # "output"
             /\ p[l].kind = "call" => \E c \in 1..Len(s) : p[l].id = s[c]
  <2>1. CASE l \in 1..Len(a)
    <3>1. p[l] = a[l]
      BY <1>6, <2>1
    <3>2. a[l].kind # "output" /\ a[l].kind # "call"
      BY <1>1, <2>1 DEF Wordy
    <3> QED BY <3>1, <3>2
  <2>2. CASE l \notin 1..Len(a)
    <3>1. PICK i : i = l - Len(a)
      OBVIOUS
    <3>2. Len(a) \in Nat /\ Len(b) \in Nat /\ l \in 1..(Len(a) + Len(b))
      BY <1>6, <1>7
    <3>3. i \in 1..Len(b) /\ l = Len(a) + i
      BY <2>2, <3>1, <3>2
    <3>4. p[l] = b[i] /\ i \in 1..Len(s)
      BY <1>5, <1>6, <3>3
    <3>5. b[i].kind = "call" /\ b[i].id = s[i]
      BY <1>4, <3>4
    <3>6. "call" # "output"
      OBVIOUS
    <3> QED BY <3>4, <3>5, <3>6
  <2> QED BY <2>1, <2>2
<1>9. p = <<>> => Len(s) = 0
  <2>1. ASSUME p = <<>> PROVE Len(s) = 0
    <3>1. Len(p) = 0
      BY <2>1
    <3> QED BY <1>5, <1>6, <1>7, <3>1
  <2> QED BY <2>1
<1> QED BY <1>6, <1>8, <1>9 DEF p, a, b, s

(* An answer whose parts are its own, and a user message of text. *)
LEMMA AnswerRenders ==
  ASSUME NEW t, t \notin Responses, NEW m, m \in Msg, IsAssistant(m), NEW p, p \in Seq(Part),
         \/ p = TextParts(m) \o Each(m.calls, Call)
         \/ p = <<Blank>> /\ TextParts(m) \o Each(m.calls, Call) = <<>>
  PROVE  Renders(t, m, Message("assistant", p))
<1> DEFINE out == Message("assistant", p)
           q == TextParts(m) \o Each(m.calls, Call)
<1>1. m \in AnswerMsg /\ ~IsTool(m)
  BY MsgKinds
<1>2. out \in ReqMsg /\ out.role = "assistant" /\ out.parts = p
  BY TalkSays
<1>3. /\ \A l \in 1..Len(q) :
           /\ q[l].kind # "output"
           /\ q[l].kind = "call" => \E c \in 1..Len(m.calls) : q[l].id = m.calls[c]
      /\ q = <<>> => Len(m.calls) = 0
  BY <1>1, AnswerParts
<1>4. p = q \/ (p = <<Blank>> /\ q = <<>>)
  OBVIOUS
<1>5. \A id : SentAs(t, id) = id
  BY DEF SentAs
<1> HIDE DEF out, q
<1>6. \A l \in 1..Len(p) :
        /\ p[l].kind # "output"
        /\ p[l].kind = "call" => \E c \in 1..Len(m.calls) : p[l].id = m.calls[c]
  <2>1. CASE p = q
    BY <1>3, <2>1
  <2>2. CASE p = <<Blank>>
    <3>1. Wordy(p)
      BY <2>2, WordyOne
    <3> QED BY <3>1 DEF Wordy
  <2> QED BY <1>4, <2>1, <2>2
<1>7. p = <<>> => Len(m.calls) = 0
  <2>1. <<Blank>> # <<>>
    OBVIOUS
  <2> QED BY <1>3, <1>4, <2>1
<1>8. Utters(t, m, out)
  <2>1. \A l \in 1..Len(out.parts) :
          /\ out.parts[l].kind # "output"
          /\ out.parts[l].kind = "call" =>
               IsAssistant(m) /\ \E c \in 1..Len(m.calls) : out.parts[l].id = SentAs(t, m.calls[c])
    BY <1>2, <1>5, <1>6
  <2>2. out.role = "user" \/ out.parts = <<>> => ~Asks(m)
    <3>1. "assistant" # "user"
      OBVIOUS
    <3>2. ~(0 > 0)
      OBVIOUS
    <3> QED BY <1>2, <1>7, <3>1, <3>2 DEF Asks
  <2> QED BY <2>1, <2>2 DEF Utters
<1>9. out.role # OutputRole(t)
  BY <1>2 DEF OutputRole
<1>10. Renders(t, m, out)
  BY <1>1, <1>2, <1>8, <1>9 DEF Renders
<1> QED BY <1>10 DEF out

LEMMA UserRenders ==
  ASSUME NEW t, NEW m, ~IsAssistant(m), ~IsTool(m), NEW p, p \in Seq(Part), Wordy(p)
  PROVE  Renders(t, m, Message("user", p))
<1> DEFINE out == Message("user", p)
<1>1. out \in ReqMsg /\ out.role = "user" /\ out.parts = p
  BY TalkSays
<1> HIDE DEF out
<1>2. Utters(t, m, out)
  BY <1>1 DEF Utters, Wordy, Asks
<1>3. out.role # OutputRole(t)
  BY <1>1 DEF OutputRole
<1>4. Renders(t, m, out)
  BY <1>1, <1>2, <1>3 DEF Renders
<1> QED BY <1>4 DEF out

LEMMA ResultRenders ==
  ASSUME NEW t, NEW m, m \in Msg, IsTool(m), NEW x, x = GivenAs(t, m.call)
  PROVE  Renders(t, m, Message(OutputRole(t), <<x>>))
<1>1. m.call \in Id
  BY MsgKinds DEF ToolMsg
<1>2. x \in Part /\ x.kind = "output" /\ x \in OutPart
  <2>1. ResultAs(t, m.call) \in Id
    BY <1>1, CallPartType DEF ResultAs
  <2>2. x \in OutPart
    BY <2>1, PartFacts DEF GivenAs
  <2> QED BY <1>1, <2>2, GivenIs
<1> DEFINE p == <<x>>
           r == OutputRole(t)
           out == Message(r, p)
<1>3. p \in Seq(Part) /\ p \in Seq(OutPart)
  BY <1>2
<1>4. r \in {"tool", "results"}
  BY DEF OutputRole
<1> HIDE DEF p, r
<1>5. out.role = r /\ out.parts = p
  BY DEF Message
<1>6. out \in ReqMsg
  <2>1. CASE r = "tool"
    BY <1>3, <2>1, TalkSays
  <2>2. CASE r = "results"
    <3>1. out \in ResultsMsg
      BY <1>3, <2>2 DEF Message, ResultsMsg
    <3> HIDE DEF out
    <3> QED BY <3>1, RoleIsRole
  <2> QED BY <1>4, <2>1, <2>2
<1> HIDE DEF out
<1>7. Renders(t, m, out)
  BY <1>5, <1>6 DEF Renders, r, p
<1> QED BY <1>7 DEF out, p, r

LEMMA AnthropicRenders ==
  ASSUME NEW t, t = "claude", NEW m, m \in Msg
  PROVE  Renders(t, m, AnthropicMessage(m))
<1>0. t \notin Responses /\ OutputRole(t) = "results" /\ \A id : GivenAs(t, id) = Output(id)
  BY DEF Responses, OutputRole, Chats, GivenAs, SentAs, ResultAs
<1>1. CASE IsAssistant(m)
  <2> DEFINE p == TextParts(m) \o Each(m.calls, Call)
             q == IF p = <<>> THEN <<Blank>> ELSE p
  <2>1. ~IsTool(m) /\ m \in AnswerMsg
    BY <1>1, MsgKinds
  <2>2. p \in Seq(Part)
    BY <2>1, AnswerParts
  <2>3. AnthropicMessage(m) = Message("assistant", q)
    BY <1>1, <2>1 DEF AnthropicMessage
  <2>4. q \in Seq(Part) /\ (q = p \/ (q = <<Blank>> /\ p = <<>>))
    <3>1. <<Blank>> \in Seq(Part)
      BY WordyOne
    <3> HIDE DEF p
    <3> QED BY <2>2, <3>1
  <2> HIDE DEF q
  <2>5. Renders(t, m, Message("assistant", q))
    BY <1>0, <1>1, <2>4, AnswerRenders
  <2> QED BY <2>3, <2>5
<1>2. CASE IsTool(m)
  <2>1. ~IsAssistant(m)
    BY <1>2, MsgKinds
  <2>2. AnthropicMessage(m) = Message("results", <<Output(m.call)>>)
    BY <1>2, <2>1 DEF AnthropicMessage
  <2>3. PICK x : x = GivenAs(t, m.call) /\ x = Output(m.call)
    BY <1>0
  <2>4. Renders(t, m, Message(OutputRole(t), <<x>>))
    BY <1>2, <2>3, ResultRenders
  <2> QED BY <1>0, <2>2, <2>3, <2>4
<1>3. CASE ~IsAssistant(m) /\ ~IsTool(m)
  <2>1. AnthropicMessage(m) = Message("user", TextOrBlank(m))
    BY <1>3 DEF AnthropicMessage
  <2>2. PICK p : p = TextOrBlank(m) /\ p \in Seq(Part) /\ Wordy(p)
    BY WordyTexts
  <2>3. Renders(t, m, Message("user", p))
    BY <1>3, <2>2, UserRenders
  <2> QED BY <2>1, <2>2, <2>3
<1> QED BY <1>1, <1>2, <1>3

LEMMA BedrockRenders ==
  ASSUME NEW t, t = "bedrock", NEW m, m \in Msg
  PROVE  Renders(t, m, BedrockMessage(m))
<1>0. t \notin Responses /\ OutputRole(t) = "results" /\ \A id : GivenAs(t, id) = Output(id)
  BY DEF Responses, OutputRole, Chats, GivenAs, SentAs, ResultAs
<1>1. CASE IsAssistant(m)
  <2>1. ~IsTool(m) /\ m \in AnswerMsg
    BY <1>1, MsgKinds
  <2>2. PICK p : p = TextParts(m) \o Each(m.calls, Call) /\ p \in Seq(Part)
    BY <2>1, AnswerParts
  <2>3. BedrockMessage(m) = Message("assistant", p)
    BY <1>1, <2>1, <2>2 DEF BedrockMessage
  <2>4. Renders(t, m, Message("assistant", p))
    BY <1>0, <1>1, <2>2, AnswerRenders
  <2> QED BY <2>3, <2>4
<1>2. CASE IsTool(m)
  <2>1. ~IsAssistant(m)
    BY <1>2, MsgKinds
  <2>2. BedrockMessage(m) = Message("results", <<Output(m.call)>>)
    BY <1>2, <2>1 DEF BedrockMessage
  <2>3. PICK x : x = GivenAs(t, m.call) /\ x = Output(m.call)
    BY <1>0
  <2>4. Renders(t, m, Message(OutputRole(t), <<x>>))
    BY <1>2, <2>3, ResultRenders
  <2> QED BY <1>0, <2>2, <2>3, <2>4
<1>3. CASE ~IsAssistant(m) /\ ~IsTool(m)
  <2>1. BedrockMessage(m) = Message("user", TextParts(m))
    BY <1>3 DEF BedrockMessage
  <2>2. PICK p : p = TextParts(m) /\ p \in Seq(Part) /\ Wordy(p)
    BY WordyTexts
  <2>3. Renders(t, m, Message("user", p))
    BY <1>3, <2>2, UserRenders
  <2> QED BY <2>1, <2>2, <2>3
<1> QED BY <1>1, <1>2, <1>3

LEMMA GoogleRenders ==
  ASSUME NEW t, t \in {"gemini", "claude-google"}, NEW m, m \in Msg
  PROVE  Renders(t, m, GoogleMessage(t, m))
<1>0. /\ t \notin Responses /\ OutputRole(t) = "results"
      /\ \A id : GivenAs(t, id) = IF t = "claude-google" THEN Output(id) ELSE Unnamed
  BY DEF Responses, OutputRole, Chats, GivenAs, SentAs, ResultAs
<1>1. CASE IsAssistant(m)
  <2>1. ~IsTool(m) /\ m \in AnswerMsg
    BY <1>1, MsgKinds
  <2>2. PICK p : p = TextParts(m) \o Each(m.calls, Call) /\ p \in Seq(Part)
    BY <2>1, AnswerParts
  <2>3. GoogleMessage(t, m) = Message("assistant", p)
    BY <1>1, <2>1, <2>2 DEF GoogleMessage
  <2>4. Renders(t, m, Message("assistant", p))
    BY <1>0, <1>1, <2>2, AnswerRenders
  <2> QED BY <2>3, <2>4
<1>2. CASE IsTool(m)
  <2>1. ~IsAssistant(m)
    BY <1>2, MsgKinds
  <2>2. PICK x : x = GivenAs(t, m.call) /\ x = IF t = "claude-google" THEN Output(m.call) ELSE Unnamed
    BY <1>0
  <2>3. GoogleMessage(t, m) = Message("results", <<x>>)
    BY <1>2, <2>1, <2>2 DEF GoogleMessage
  <2>4. Renders(t, m, Message(OutputRole(t), <<x>>))
    BY <1>2, <2>2, ResultRenders
  <2> QED BY <1>0, <2>2, <2>3, <2>4
<1>3. CASE ~IsAssistant(m) /\ ~IsTool(m)
  <2>1. GoogleMessage(t, m) = Message("user", TextOrBlank(m))
    BY <1>3 DEF GoogleMessage
  <2>2. PICK p : p = TextOrBlank(m) /\ p \in Seq(Part) /\ Wordy(p)
    BY WordyTexts
  <2>3. Renders(t, m, Message("user", p))
    BY <1>3, <2>2, UserRenders
  <2> QED BY <2>1, <2>2, <2>3
<1> QED BY <1>1, <1>2, <1>3

LEMMA ChatRenders ==
  ASSUME NEW t, t \in Chats, NEW m, m \in Msg
  PROVE  Renders(t, m, ChatMessage(m))
<1>0. t \notin Responses /\ OutputRole(t) = "tool" /\ \A id : GivenAs(t, id) = Output(id)
  BY DEF Responses, OutputRole, Chats, GivenAs, SentAs, ResultAs
<1>1. CASE IsAssistant(m)
  <2>1. ~IsTool(m) /\ m \in AnswerMsg
    BY <1>1, MsgKinds
  <2>2. PICK p : p = TextParts(m) \o Each(m.calls, Call) /\ p \in Seq(Part)
    BY <2>1, AnswerParts
  <2>3. ChatMessage(m) = Message("assistant", p)
    BY <1>1, <2>1, <2>2 DEF ChatMessage
  <2>4. Renders(t, m, Message("assistant", p))
    BY <1>0, <1>1, <2>2, AnswerRenders
  <2> QED BY <2>3, <2>4
<1>2. CASE IsTool(m)
  <2>1. ~IsAssistant(m)
    BY <1>2, MsgKinds
  <2>2. ChatMessage(m) = Message("tool", <<Output(m.call)>>)
    BY <1>2, <2>1 DEF ChatMessage
  <2>3. PICK x : x = GivenAs(t, m.call) /\ x = Output(m.call)
    BY <1>0
  <2>4. Renders(t, m, Message(OutputRole(t), <<x>>))
    BY <1>2, <2>3, ResultRenders
  <2> QED BY <1>0, <2>2, <2>3, <2>4
<1>3. CASE ~IsAssistant(m) /\ ~IsTool(m)
  <2>1. ChatMessage(m) = Message("user", TextOrBlank(m))
    BY <1>3 DEF ChatMessage
  <2>2. PICK p : p = TextOrBlank(m) /\ p \in Seq(Part) /\ Wordy(p)
    BY WordyTexts
  <2>3. Renders(t, m, Message("user", p))
    BY <1>3, <2>2, UserRenders
  <2> QED BY <2>1, <2>2, <2>3
<1> QED BY <1>1, <1>2, <1>3

-----------------------------------------------------------------------------
(* Gathered and filled messages are laid over the messages they are made of. *)

Rendered(t, k, ms) ==
  /\ ms \in Seq(ReqMsg) /\ Len(ms) = Len(k)
  /\ \A i \in 1..Len(k) : Renders(t, k[i], ms[i])

LEMMA GatherLaid ==
  ASSUME NEW t, t \in Models, t \notin Chats, t \notin Responses, NEW k \in Seq(Msg), NEW C, Reads(C, t, k),
         NEW ms, Rendered(t, k, ms)
  PROVE  Gathered(ms) \in Seq(ReqMsg) /\ Laid(C, Gathered(ms), Len(k))
<1>1. /\ ms \in Seq(ReqMsg) /\ Len(ms) = Len(k) /\ Len(k) \in Nat
      /\ \A i \in 1..Len(k) : Renders(t, k[i], ms[i])
  BY DEF Rendered
<1>2. PICK g : /\ g[0] = <<>>
               /\ \A i \in 1..Len(ms) : g[i] = Gather(g[i - 1], ms[i])
               /\ \A i \in 0..Len(ms) : g[i] \in Seq(ReqMsg)
               /\ Gathered(ms) = g[Len(ms)]
  BY <1>1, GatheredIsIteration
<1>3. C.mode = "tight" /\ C.role = "results"
  BY DEF Reads
<1> DEFINE K == {i \in 0..Len(k) : Laid(C, g[i], i)}
<1>4. 0 \in K
  <2>1. Laid(C, <<>>, 0)
    BY LaidNothing
  <2> QED BY <1>1, <1>2, <2>1
<1>5. ASSUME NEW i \in 1..Len(k), i - 1 \in K PROVE i \in K
  <2>1. i \in 0..Len(k) /\ i - 1 \in 0..Len(k)
    BY <1>1
  <2>2. PICK n \in Nat : n = i - 1 /\ n + 1 = i /\ n < i /\ n <= i /\ i \in Nat
    BY <1>1
  <2>3. PICK r \in Seq(ReqMsg) : r = g[n] /\ Laid(C, r, n)
    BY <1>1, <1>2, <1>5, <2>1, <2>2
  <2>4. PICK m \in ReqMsg : m = ms[i] /\ Renders(t, k[i], m)
    BY <1>1
  <2>5. g[i] = Gather(r, m)
    BY <1>1, <1>2, <2>2, <2>3, <2>4
  <2>6. Lies(C, m, n, i)
    BY <2>2, <2>4, RenderLies
  <2>7. CASE Gather(r, m) = Append(r, m)
    <3>1. Laid(C, Append(r, m), i)
      BY <2>2, <2>3, <2>6, LaidAppend
    <3> QED BY <2>1, <2>5, <2>7, <3>1
  <2>8. CASE /\ r # <<>> /\ Len(r) \in 1..Len(r)
             /\ m \in ResultsMsg /\ r[Len(r)] \in ResultsMsg
             /\ Gather(r, m) = [r EXCEPT ![Len(r)] = Grown(r[Len(r)], r[Len(r)].parts \o m.parts)]
             /\ Grown(r[Len(r)], r[Len(r)].parts \o m.parts) \in ResultsMsg
    <3>1. m.role = "results" /\ r[Len(r)].role = C.role
      BY <1>3, <2>8, RoleIsRole
    <3>2. IsTool(k[i])
      <4>1. OutputRole(t) = "results"
        BY DEF OutputRole
      <4> QED BY <2>4, <3>1, <4>1 DEF Renders
    <3>3. /\ i \in C.tools /\ i \notin C.asks
          /\ m.parts = <<C.out[i]>> /\ C.out[i] \in Part /\ C.out[i].kind = "output"
      <4>1. i \in 1..Len(k) /\ Renders(t, k[i], m)
        BY <2>4
      <4>2. /\ i \in C.tools /\ i \notin C.asks /\ m.role = C.role
            /\ m.parts = <<C.out[i]>> /\ C.out[i] \in Part /\ C.out[i].kind = "output"
            /\ Lies(C, m, i - 1, i)
        BY <3>2, <4>1, OutputLies
      <4> QED BY <4>2
    <3>4. PICK x : x = C.out[n + 1] /\ x \in Part /\ x.kind = "output" /\ m.parts = <<x>>
      BY <2>2, <3>3
    <3>5. PICK u : u = Grown(r[Len(r)], r[Len(r)].parts \o m.parts) /\ u \in ResultsMsg
      BY <2>8
    <3>6. u.parts = r[Len(r)].parts \o <<x>>
      <4>1. PICK e \in ResultsMsg : e = r[Len(r)]
        BY <2>8
      <4>2. PICK p : p = r[Len(r)].parts \o m.parts
        OBVIOUS
      <4>3. Grown(e, p).parts = p
        BY DEF Grown, ResultsMsg
      <4> QED BY <3>4, <3>5, <4>1, <4>2, <4>3
    <3>7. u \in ReqMsg /\ u.role = C.role
      BY <1>3, <3>5, RoleIsRole
    <3>8. n + 1 \in C.tools /\ n + 1 \notin C.asks
      BY <2>2, <3>3
    <3>9. r # <<>>
      BY <2>8
    <3>10. Laid(C, [r EXCEPT ![Len(r)] = u], n + 1)
      BY <2>3, <3>1, <3>4, <3>6, <3>7, <3>8, <3>9, LaidExtend
    <3> QED BY <2>1, <2>2, <2>5, <2>8, <3>5, <3>10
  <2>9. Gather(r, m) = Append(r, m) \/
          (/\ r # <<>> /\ Len(r) \in 1..Len(r)
           /\ m \in ResultsMsg /\ r[Len(r)] \in ResultsMsg
           /\ Gather(r, m) = [r EXCEPT ![Len(r)] = Grown(r[Len(r)], r[Len(r)].parts \o m.parts)]
           /\ Grown(r[Len(r)], r[Len(r)].parts \o m.parts) \in ResultsMsg)
    BY GatherCases
  <2> QED BY <2>7, <2>8, <2>9
<1> HIDE DEF K
<1>6. 0..Len(k) \subseteq K
  BY <1>1, <1>4, <1>5, BoundedInduction
<1>7. Len(k) \in K /\ Len(k) \in 0..Len(ms)
  BY <1>1, <1>6
<1>8. Laid(C, g[Len(k)], Len(k))
  BY <1>7 DEF K
<1> QED BY <1>1, <1>2, <1>7, <1>8

LEMMA FilledLaid ==
  ASSUME NEW C, C.mode = "tight", NEW r \in Seq(ReqMsg), NEW n \in Nat, Laid(C, r, n)
  PROVE  Filled(r) \in Seq(ReqMsg) /\ Laid(C, Filled(r), n)
<1> DEFINE I == {i \in DOMAIN r : r[i].parts # <<>>}
<1>1. PICK g : /\ g[0] = <<>>
               /\ \A i \in 1..Len(r) : g[i] = PickStep(r, I, g[i - 1], i)
               /\ \A i \in 0..Len(r) : g[i] \in Seq(ReqMsg)
               /\ Picked(r, I) = g[Len(r)]
  <2> HIDE DEF I
  <2> QED BY PickedIsIteration
<1>2. Filled(r) = Picked(r, I)
  BY DEF Filled
<1>3. PICK p : LaidBy(C, r, p, n)
  BY DEF Laid
<1>4. /\ p[0] = 0 /\ Len(r) \in Nat
      /\ \A i \in 1..Len(r) : p[i] \in Nat /\ p[i - 1] \in Nat /\ p[i - 1] <= p[i] /\ Lies(C, r[i], p[i - 1], p[i])
      /\ p[Len(r)] \in Nat /\ p[Len(r)] <= n /\ Clean(C, p[Len(r)], n)
  BY <1>3, LaidPlaces
<1>5. \A i \in 1..Len(r) : p[i - 1] < p[i]
  BY <1>3 DEF LaidBy
<1>6. \A i \in 1..Len(r) : i \in I <=> r[i].parts # <<>>
  OBVIOUS
<1> HIDE DEF I
<1> DEFINE K == {i \in 0..Len(r) : Laid(C, g[i], p[i])}
<1>7. 0 \in K
  <2>1. Laid(C, <<>>, 0)
    BY LaidNothing
  <2> QED BY <1>1, <1>4, <2>1
<1>8. ASSUME NEW i \in 1..Len(r), i - 1 \in K PROVE i \in K
  <2>1. i \in 0..Len(r) /\ i - 1 \in 0..Len(r)
    BY <1>4
  <2>2. PICK a \in Nat, b \in Nat : a = p[i - 1] /\ b = p[i] /\ a < b /\ a <= b /\ Lies(C, r[i], a, b)
    BY <1>4, <1>5
  <2>3. PICK q \in Seq(ReqMsg) : q = g[i - 1] /\ Laid(C, q, a)
    BY <1>1, <1>8, <2>1, <2>2
  <2>4. PICK m \in ReqMsg : m = r[i]
    OBVIOUS
  <2>5. g[i] = IF m.parts # <<>> THEN Append(q, m) ELSE q
    BY <1>1, <1>6, <2>3, <2>4 DEF PickStep
  <2>6. CASE m.parts # <<>>
    <3>1. Lies(C, m, a, b)
      BY <2>2, <2>4
    <3>2. Laid(C, Append(q, m), b)
      BY <2>2, <2>3, <3>1, LaidAppend
    <3> QED BY <2>1, <2>2, <2>5, <2>6, <3>2
  <2>7. CASE m.parts = <<>>
    <3>1. Lies(C, m, a, b)
      BY <2>2, <2>4
    <3>2. Clean(C, a, b)
      BY <2>7, <3>1, EmptyClean
    <3>3. Laid(C, q, b)
      BY <2>2, <2>3, <3>2, LaidSkip
    <3> QED BY <2>1, <2>2, <2>5, <2>7, <3>3
  <2> QED BY <2>6, <2>7
<1> HIDE DEF K
<1>9. 0..Len(r) \subseteq K
  BY <1>4, <1>7, <1>8, BoundedInduction
<1>10. Len(r) \in K /\ Len(r) \in 0..Len(r)
  BY <1>4, <1>9
<1>11. PICK a \in Nat, q \in Seq(ReqMsg) : a = p[Len(r)] /\ q = g[Len(r)] /\ a <= n /\ Clean(C, a, n)
  BY <1>1, <1>4, <1>10
<1>12. Laid(C, q, a)
  BY <1>10, <1>11 DEF K
<1>13. Laid(C, q, n)
  BY <1>11, <1>12, LaidSkip
<1> QED BY <1>1, <1>2, <1>11, <1>13

-----------------------------------------------------------------------------
(* So is what Chat Completions gets ... *)

LEMMA BridgeLies ==
  ASSUME NEW t, NEW m, ~IsTool(m), t \in Chats
  PROVE  BridgeMessage \in ReqMsg /\ Renders(t, m, BridgeMessage) /\ ~Calling(BridgeMessage)
<1>1. PICK p : p = <<Bridge>> /\ Wordy(p) /\ p # <<>> /\ p \in Seq(Part)
  BY WordyOne
<1>2. BridgeMessage = Message("assistant", p)
  BY <1>1 DEF BridgeMessage
<1>3. BridgeMessage \in ReqMsg /\ BridgeMessage.role = "assistant" /\ BridgeMessage.parts = p
  BY <1>1, <1>2, TalkSays
<1>4. "assistant" # "user" /\ "assistant" # "tool"
  OBVIOUS
<1>5. PICK b : b = BridgeMessage
  OBVIOUS
<1>6. b \in ReqMsg /\ b.role = "assistant" /\ b.parts = p
  BY <1>3, <1>5
<1>7. Utters(t, m, b)
  BY <1>1, <1>4, <1>6 DEF Utters, Wordy
<1>8. b.role # OutputRole(t)
  BY <1>4, <1>6 DEF OutputRole
<1>9. Renders(t, m, b)
  BY <1>6, <1>7, <1>8 DEF Renders
<1>10. ~Calling(b)
  BY <1>1, <1>6 DEF Calling, Wordy
<1> QED BY <1>5, <1>6, <1>9, <1>10

LEMMA ChatLaid ==
  ASSUME NEW t, t \in Models, t \in Chats, NEW h, h \in Seq(Msg), NEW k \in Seq(Msg), k = Transformed(h, t),
         NEW C, Reads(C, t, k)
  PROVE  ChatMessages(h, t) \in Seq(ReqMsg) /\ Laid(C, ChatMessages(h, t), Len(k))
<1>0. t \notin Responses
  BY DEF Chats, Responses
<1>1. PICK g : /\ g[0] = ChatBegun
               /\ \A i \in 1..Len(k) : g[i] = ChatStep(t, g[i - 1], k[i])
               /\ \A i \in 0..Len(k) : g[i] \in ChatAccs
               /\ ChatMessages(h, t) = g[Len(k)].out
  BY <1>0, ChatIsIteration
<1>2. Len(k) \in Nat /\ C.mode = "loose"
  <2>1. Len(k) \in Nat
    OBVIOUS
  <2>2. C.mode = "loose"
    BY <1>0 DEF Reads
  <2> QED BY <2>1, <2>2
<1> DEFINE K == {i \in 0..Len(k) : Laid(C, g[i].out, i)}
<1>3. 0 \in K
  <2>1. Laid(C, <<>>, 0)
    BY LaidNothing
  <2>2. ChatBegun.out = <<>>
    BY DEF ChatBegun
  <2> QED BY <1>1, <1>2, <2>1, <2>2
<1>4. ASSUME NEW i \in 1..Len(k), i - 1 \in K PROVE i \in K
  <2>1. i \in 0..Len(k) /\ i - 1 \in 0..Len(k)
    BY <1>2
  <2>2. PICK n \in Nat : n = i - 1 /\ n < i /\ n <= i /\ i <= i /\ i \in Nat
    BY <1>2
  <2>3. PICK acc \in ChatAccs : acc = g[n] /\ Laid(C, acc.out, n)
    BY <1>1, <1>4, <2>1, <2>2
  <2>4. PICK o \in Seq(ReqMsg) : o = acc.out /\ Laid(C, o, n)
    BY <2>3 DEF ChatAccs
  <2>5. PICK m \in Msg : m = k[i]
    OBVIOUS
  <2>6. PICK x : x = ChatMessage(m) /\ Renders(t, m, x) /\ x \in ReqMsg
    <3>1. Renders(t, m, ChatMessage(m))
      BY ChatRenders
    <3> QED BY <3>1 DEF Renders
  <2>7. g[i] = ChatStep(t, acc, m)
    BY <1>1, <2>2, <2>3, <2>5
  <2>8. Lies(C, x, n, i)
    <3>1. i \in 1..Len(k) /\ Renders(t, k[i], x)
      BY <2>5, <2>6
    <3> QED BY <2>2, <3>1, RenderLies
  <2>9. CASE ChatStep(t, acc, m) = acc /\ x.parts = <<>>
    <3>1. Clean(C, n, i)
      BY <2>2, <2>8, <2>9, EmptyClean
    <3>2. Laid(C, o, i)
      BY <2>2, <2>4, <3>1, LaidSkip
    <3> QED BY <2>1, <2>4, <2>7, <2>9, <3>2
  <2>10. CASE ChatStep(t, acc, m) = [out |-> Append(o, x), last |-> x.role]
    <3> DEFINE q == Append(o, x)
               l == x.role
    <3> HIDE DEF q, l
    <3>1. ChatStep(t, acc, m) = [out |-> q, last |-> l]
      BY <2>10 DEF q, l
    <3>2. Laid(C, Append(o, x), i)
      BY <2>2, <2>4, <2>6, <2>8, LaidAppend
    <3>3. g[i].out = q
      <4>1. PICK c : c = g[i] /\ c = [out |-> q, last |-> l]
        BY <2>7, <3>1
      <4>2. c = [out |-> q, last |-> l]
        BY <4>1
      <4>3. c.out = q
        BY <4>2, ChatAccFacts
      <4> QED BY <4>1, <4>3
    <3>4. Laid(C, q, i)
      BY <3>2 DEF q
    <3> QED BY <2>1, <3>3, <3>4
  <2>11. CASE /\ ChatStep(t, acc, m) = [out |-> Append(Append(o, BridgeMessage), x), last |-> x.role]
              /\ x.role = "user"
    <3>1. ~IsTool(k[i]) /\ ~IsTool(m)
      <4>1. OutputRole(t) = "tool"
        BY DEF OutputRole
      <4> QED BY <2>5, <2>6, <2>11, <4>1 DEF Renders
    <3>2. PICK b \in ReqMsg : b = BridgeMessage /\ Renders(t, m, b) /\ ~Calling(b)
      BY <3>1, BridgeLies
    <3>3. Lies(C, b, n, i)
      <4>1. i \in 1..Len(k) /\ Renders(t, k[i], b)
        BY <2>5, <3>2
      <4> QED BY <2>2, <4>1, RenderLies
    <3>4. PICK p : p = Append(o, b)
      OBVIOUS
    <3>5. p \in Seq(ReqMsg) /\ Laid(C, p, i)
      <4>1. Append(o, b) \in Seq(ReqMsg) /\ Laid(C, Append(o, b), i)
        BY <2>2, <2>4, <3>3, LaidAppend
      <4> QED BY <3>4, <4>1
    <3>6. ~Calling(p[Len(p)])
      <4>1. p[Len(p)] = b
        BY <2>4, <3>4
      <4> QED BY <3>2, <4>1
    <3>7. Lies(C, x, i, i)
      <4>1. PICK a : a = i
        OBVIOUS
      <4>2. a \in {i - 1, i}
        BY <4>1
      <4>3. i \in 1..Len(k) /\ Renders(t, k[i], x)
        BY <2>5, <2>6
      <4>4. Lies(C, x, a, i)
        BY <3>1, <4>2, <4>3, TalkLies
      <4> QED BY <4>1, <4>4
    <3>8. Laid(C, Append(p, x), i)
      BY <1>2, <2>2, <2>6, <3>5, <3>6, <3>7, LaidAppend
    <3> DEFINE q == Append(p, x)
               l == x.role
    <3> HIDE DEF q, l
    <3>9. ChatStep(t, acc, m) = [out |-> q, last |-> l]
      <4>1. Append(Append(o, BridgeMessage), x) = q
        BY <3>2, <3>4 DEF q
      <4>2. x.role = l
        BY DEF l
      <4>3. ChatStep(t, acc, m) = [out |-> Append(Append(o, BridgeMessage), x), last |-> x.role]
        BY <2>11
      <4> QED BY <4>1, <4>2, <4>3
    <3>10. g[i].out = q
      <4>1. PICK c : c = g[i] /\ c = [out |-> q, last |-> l]
        BY <2>7, <3>9
      <4>2. c = [out |-> q, last |-> l]
        BY <4>1
      <4>3. c.out = q
        BY <4>2, ChatAccFacts
      <4> QED BY <4>1, <4>3
    <3>11. Laid(C, q, i)
      BY <3>8 DEF q
    <3> QED BY <2>1, <3>10, <3>11
  <2>12. \/ ChatStep(t, acc, m) = acc /\ x.parts = <<>>
         \/ ChatStep(t, acc, m) = [out |-> Append(o, x), last |-> x.role]
         \/ /\ ChatStep(t, acc, m) = [out |-> Append(Append(o, BridgeMessage), x), last |-> x.role]
            /\ x.role = "user"
    <3>1. \/ ChatStep(t, acc, m) = acc /\ ChatMessage(m).parts = <<>>
          \/ ChatStep(t, acc, m) = [out |-> Append(acc.out, ChatMessage(m)), last |-> ChatMessage(m).role]
          \/ /\ ChatStep(t, acc, m) = [out |-> Append(Append(acc.out, BridgeMessage), ChatMessage(m)),
                                       last |-> ChatMessage(m).role]
             /\ ChatMessage(m).role = "user"
      BY <1>0, ChatStepCases
    <3> QED BY <2>4, <2>6, <3>1
  <2> QED BY <2>9, <2>10, <2>11, <2>12
<1> HIDE DEF K
<1>5. 0..Len(k) \subseteq K
  BY <1>2, <1>3, <1>4, BoundedInduction
<1>6. Len(k) \in K /\ Len(k) \in 0..Len(k)
  BY <1>2, <1>5
<1>7. Laid(C, g[Len(k)].out, Len(k))
  BY <1>6 DEF K
<1>8. g[Len(k)].out \in Seq(ReqMsg)
  BY <1>1, <1>6 DEF ChatAccs
<1> QED BY <1>1, <1>7, <1>8

-----------------------------------------------------------------------------
(* ... and Responses. *)

Itemises(t, m, y) ==
  /\ y \in Seq(ReqMsg)
  /\ \A j \in 1..Len(y) : Renders(t, m, y[j])
  /\ IsTool(m) => Len(y) = 1
  /\ y = <<>> => ~Asks(m)

LEMMA ItemsLaid ==
  ASSUME NEW t, NEW k \in Seq(Msg), NEW C, Reads(C, t, k), C.mode = "flat", NEW x, x \in 1..Len(k),
         NEW u \in Seq(ReqMsg), Laid(C, u, x - 1), NEW y, Itemises(t, k[x], y)
  PROVE  u \o y \in Seq(ReqMsg) /\ Laid(C, u \o y, x)
<1>1. /\ y \in Seq(ReqMsg) /\ Len(y) \in Nat /\ (IsTool(k[x]) => Len(y) = 1) /\ (y = <<>> => ~Asks(k[x]))
      /\ \A j \in 1..Len(y) : Renders(t, k[x], y[j])
  BY DEF Itemises
<1>2. PICK n \in Nat : n = x - 1 /\ x \in Nat /\ n <= x /\ x <= x /\ n < x
  OBVIOUS
<1>3. u \o y \in Seq(ReqMsg)
  BY <1>1
<1>4. CASE y = <<>>
  <2>1. ~IsTool(k[x])
    <3>1. Len(y) # 1
      BY <1>4
    <3> QED BY <1>1, <3>1
  <2>2. \A z \in (n + 1)..x : z = x
    BY <1>2
  <2>3. x \notin C.tools /\ x \notin C.asks
    BY <1>1, <1>4, <2>1 DEF Reads, Asks
  <2>4. Clean(C, n, x)
    BY <2>2, <2>3 DEF Clean
  <2>5. Laid(C, u, n)
    BY <1>2
  <2>6. Laid(C, u, x)
    BY <1>2, <2>4, <2>5, LaidSkip
  <2>7. u \o y = u
    BY <1>4
  <2> QED BY <1>3, <2>6, <2>7
<1>5. CASE y # <<>>
  <2> DEFINE w(j) == u \o SubSeq(y, 1, j)
             K == {j \in 0..Len(y) : w(j) \in Seq(ReqMsg) /\ Laid(C, w(j), IF j = 0 THEN n ELSE x)}
  <2>1. w(0) = u /\ w(Len(y)) = u \o y
    <3>1. SubSeq(y, 1, 0) = <<>> /\ u \o <<>> = u
      OBVIOUS
    <3>2. SubSeq(y, 1, Len(y)) = y
      BY <1>1
    <3> QED BY <3>1, <3>2
  <2>2. ASSUME NEW j \in 1..Len(y) PROVE w(j) = Append(w(j - 1), y[j])
    <3>1. SubSeq(y, 1, j) = Append(SubSeq(y, 1, j - 1), y[j]) /\ SubSeq(y, 1, j - 1) \in Seq(ReqMsg) /\ y[j] \in ReqMsg
      BY <1>1
    <3>2. PICK s \in Seq(ReqMsg), e \in ReqMsg : s = SubSeq(y, 1, j - 1) /\ e = y[j]
      BY <3>1
    <3>3. u \o Append(s, e) = Append(u \o s, e)
      BY <3>2
    <3> QED BY <3>1, <3>2, <3>3
  <2> HIDE DEF w
  <2>3. 0 \in K
    BY <1>1, <1>2, <2>1
  <2>4. ASSUME NEW j \in 1..Len(y), j - 1 \in K PROVE j \in K
    <3>1. j \in 0..Len(y) /\ j # 0
      BY <1>1
    <3>2. PICK v \in Seq(ReqMsg) : v = w(j - 1) /\ Laid(C, v, IF j - 1 = 0 THEN n ELSE x)
      BY <2>4
    <3>3. PICK e \in ReqMsg : e = y[j] /\ Renders(t, k[x], e)
      BY <1>1
    <3>4. Append(v, e) \in Seq(ReqMsg) /\ w(j) = Append(v, e)
      <4>1. Append(v, e) \in Seq(ReqMsg)
        BY <3>2, <3>3
      <4>2. w(j) = Append(w(j - 1), y[j])
        BY <2>2
      <4> QED BY <3>2, <3>3, <4>1, <4>2
    <3>5. CASE j - 1 = 0
      <4>1. Laid(C, v, n)
        BY <3>2, <3>5
      <4>2. Lies(C, e, n, x)
        BY <1>2, <3>3, RenderLies
      <4>3. Laid(C, Append(v, e), x)
        BY <1>2, <4>1, <4>2, LaidAppend
      <4> QED BY <3>1, <3>4, <4>3
    <3>6. CASE j - 1 # 0
      <4>1. Laid(C, v, x)
        BY <3>2, <3>6
      <4>2. Len(y) # 1
        BY <1>1, <3>6
      <4>3. ~IsTool(k[x])
        BY <1>1, <4>2
      <4>4. PICK a : a = x
        OBVIOUS
      <4>5. a \in {x - 1, x}
        BY <4>4
      <4>6. Lies(C, e, a, x)
        BY <3>3, <4>3, <4>5, TalkLies
      <4>7. Lies(C, e, x, x)
        BY <4>4, <4>6
      <4>8. Laid(C, Append(v, e), x)
        BY <1>2, <4>1, <4>7, LaidAppend
      <4> QED BY <3>1, <3>4, <4>8
    <3> QED BY <3>5, <3>6
  <2> HIDE DEF K
  <2>5. 0..Len(y) \subseteq K
    BY <1>1, <2>3, <2>4, BoundedInduction
  <2>6. Len(y) \in K /\ Len(y) # 0
    BY <1>1, <1>5, <2>5
  <2>7. Laid(C, w(Len(y)), x)
    BY <2>6 DEF K
  <2> QED BY <1>3, <2>1, <2>7
<1> QED BY <1>4, <1>5

-----------------------------------------------------------------------------
(* The items of Responses *)

(* An item of an answer: text, or a call of it. *)
LEMMA TextItemRenders ==
  ASSUME NEW t, t \in Responses, NEW m, m \in Msg, ~IsTool(m), NEW p, p = <<Text>>
  PROVE  Renders(t, m, Message("assistant", p))
<1> DEFINE out == Message("assistant", p)
<1>1. Wordy(p) /\ p # <<>> /\ p \in Seq(Part)
  BY WordyOne
<1>2. out \in ReqMsg /\ out.role = "assistant" /\ out.parts = p
  BY <1>1, TalkSays
<1> HIDE DEF out
<1>3. "assistant" # "user" /\ "assistant" # "tool" /\ "assistant" # "results"
  OBVIOUS
<1>4. Utters(t, m, out)
  BY <1>1, <1>2, <1>3 DEF Utters, Wordy
<1>5. out.role # OutputRole(t)
  BY <1>2, <1>3 DEF OutputRole
<1>6. Renders(t, m, out)
  BY <1>2, <1>4, <1>5 DEF Renders
<1> QED BY <1>6 DEF out

LEMMA CallItemRenders ==
  ASSUME NEW t, t \in Responses, NEW m, m \in Msg, IsAssistant(m), NEW c \in 1..Len(m.calls),
         NEW p, p = <<Call(SplitCallId(m.calls[c]))>>
  PROVE  Renders(t, m, Message("assistant", p))
<1> DEFINE out == Message("assistant", p)
<1>1. m \in AnswerMsg /\ ~IsTool(m)
  BY MsgKinds
<1>2. PICK id \in Id : id = m.calls[c]
  <2>1. m.calls \in Seq(Id)
    BY <1>1 DEF AnswerMsg
  <2> QED BY <2>1
<1>3. PICK d \in Id : d = SentAs(t, id) /\ d = SplitCallId(id)
  BY <1>2, CallPartType DEF SentAs
<1>4. PICK x \in Part : x = Call(d) /\ x.kind = "call" /\ x.id = d
  <2>1. Call(d) \in Part
    BY PartFacts
  <2>2. Call(d).kind = "call" /\ Call(d).id = d
    BY DEF Call
  <2> QED BY <2>1, <2>2
<1>5. p \in Seq(Part) /\ Len(p) = 1 /\ p[1] = x /\ p # <<>>
  <2>1. p = <<x>>
    BY <1>2, <1>3, <1>4
  <2> QED BY <2>1
<1>6. out \in ReqMsg /\ out.role = "assistant" /\ out.parts = p
  BY <1>5, TalkSays
<1> HIDE DEF out
<1>7. "assistant" # "user" /\ "assistant" # "tool" /\ "assistant" # "results" /\ "call" # "output"
  OBVIOUS
<1>8. \A l \in 1..1 : l = 1
  OBVIOUS
<1>9. x.id = SentAs(t, m.calls[c])
  BY <1>2, <1>3, <1>4
<1>10. Utters(t, m, out)
  <2>1. \A l \in 1..Len(out.parts) : out.parts[l] = x
    BY <1>5, <1>6, <1>8
  <2>2. \A l \in 1..Len(out.parts) :
          /\ out.parts[l].kind # "output"
          /\ out.parts[l].kind = "call" =>
               IsAssistant(m) /\ \E e \in 1..Len(m.calls) : out.parts[l].id = SentAs(t, m.calls[e])
    BY <1>4, <1>7, <1>9, <2>1
  <2>3. out.role # "user" /\ out.parts # <<>>
    BY <1>5, <1>6, <1>7
  <2> QED BY <2>2, <2>3 DEF Utters
<1>11. out.role # OutputRole(t)
  BY <1>6, <1>7 DEF OutputRole
<1>12. Renders(t, m, out)
  BY <1>1, <1>6, <1>10, <1>11 DEF Renders
<1> QED BY <1>12 DEF out

LEMMA AnswerItemises ==
  ASSUME NEW t, t \in Responses, NEW m, m \in Msg, IsAssistant(m)
  PROVE  Itemises(t, m, ResponsesItems(m))
<1> DEFINE a == Each(TextParts(m), LAMBDA p : Message("assistant", <<p>>))
           s == m.calls
           b == Each(m.calls, LAMBDA id : Message("assistant", <<Call(SplitCallId(id))>>))
           y == a \o b
<1>1. m \in AnswerMsg /\ ~IsTool(m)
  BY MsgKinds
<1>2. ResponsesItems(m) = y
  BY <1>1 DEF ResponsesItems
<1>3. a \in Seq(ReqMsg) /\ b \in Seq(ReqMsg)
  BY <1>1, TextItemsTell, CallItemsTell
<1>4. \A i \in 1..Len(a) : Renders(t, m, a[i])
  <2> DEFINE q == TextParts(m)
             v == [i \in DOMAIN q |-> Message("assistant", <<q[i]>>)]
  <2>1. a = v
    BY DEF Each
  <2>2. q = <<>> \/ q = <<Text>>
    BY DEF TextParts
  <2>3. CASE q = <<>>
    <3>1. v = <<>>
      BY <2>3
    <3> HIDE DEF a, v
    <3>2. Len(a) = 0 /\ 1..0 = {}
      BY <2>1, <3>1
    <3> QED BY <3>2
  <2>4. CASE q = <<Text>>
    <3>1. v = <<Message("assistant", <<Text>>)>>
      BY <2>4
    <3>2. PICK x : x = Message("assistant", <<Text>>) /\ Renders(t, m, x)
      BY <1>1, TextItemRenders
    <3> HIDE DEF a, v
    <3>3. a = <<x>>
      BY <2>1, <3>1, <3>2
    <3>4. Len(a) = 1 /\ a[1] = x /\ \A i \in 1..1 : i = 1
      BY <3>3
    <3> QED BY <3>2, <3>4
  <2> QED BY <2>2, <2>3, <2>4
<1>5. s \in Seq(Id) /\ DOMAIN s = 1..Len(s) /\ Len(s) \in Nat
  BY <1>1 DEF AnswerMsg
<1>6. Len(b) = Len(s) /\ \A i \in 1..Len(b) : Renders(t, m, b[i])
  <2>1. b = [i \in 1..Len(s) |-> Message("assistant", <<Call(SplitCallId(s[i]))>>)]
    BY <1>5 DEF Each
  <2> HIDE DEF b
  <2>2. Len(b) = Len(s)
    BY <1>5, <2>1
  <2>3. ASSUME NEW i \in 1..Len(s) PROVE Renders(t, m, b[i])
    <3>1. b[i] = Message("assistant", <<Call(SplitCallId(s[i]))>>)
      BY <2>1
    <3>2. PICK p : p = <<Call(SplitCallId(m.calls[i]))>>
      OBVIOUS
    <3>3. Renders(t, m, Message("assistant", p))
      BY <3>2, CallItemRenders
    <3> QED BY <3>1, <3>2, <3>3
  <2> QED BY <2>2, <2>3
<1> HIDE DEF a, b
<1>7. /\ y \in Seq(ReqMsg) /\ Len(y) = Len(a) + Len(b)
      /\ (\A i \in 1..Len(a) : y[i] = a[i]) /\ (\A i \in 1..Len(b) : y[Len(a) + i] = b[i])
  <2>1. a \in Seq(ReqMsg)
    BY <1>3
  <2>2. b \in Seq(ReqMsg)
    BY <1>3
  <2> QED BY <2>1, <2>2, ConcatFacts
<1>8. Len(a) \in Nat /\ Len(b) \in Nat
  BY <1>3
<1> HIDE DEF y, s
<1>9. ASSUME NEW j \in 1..Len(y) PROVE Renders(t, m, y[j])
  <2>1. CASE j \in 1..Len(a)
    BY <1>4, <1>7, <2>1
  <2>2. CASE j \notin 1..Len(a)
    <3>1. PICK i : i = j - Len(a)
      OBVIOUS
    <3>2. Len(a) \in Nat /\ Len(b) \in Nat /\ j \in 1..(Len(a) + Len(b))
      BY <1>7, <1>8
    <3>3. i \in 1..Len(b) /\ j = Len(a) + i
      BY <2>2, <3>1, <3>2
    <3> QED BY <1>6, <1>7, <3>3
  <2> QED BY <2>1, <2>2
<1>10. y = <<>> => ~Asks(m)
  <2>1. ASSUME y = <<>> PROVE ~(Len(s) > 0)
    <3>1. Len(y) = 0
      BY <2>1
    <3>2. Len(a) + Len(b) = 0
      BY <1>7, <3>1
    <3>3. Len(b) = 0
      BY <1>8, <3>2
    <3> QED BY <1>6, <3>3
  <2> QED BY <2>1 DEF Asks, s
<1>11. Itemises(t, m, y)
  BY <1>1, <1>7, <1>9, <1>10 DEF Itemises
<1> QED BY <1>2, <1>11

LEMMA OneItemises ==
  ASSUME NEW t, NEW m, ~IsAssistant(m), NEW x, Renders(t, m, x)
  PROVE  Itemises(t, m, <<x>>)
<1> DEFINE y == <<x>>
<1>1. x \in ReqMsg
  BY DEF Renders
<1>2. y \in Seq(ReqMsg) /\ Len(y) = 1 /\ y[1] = x /\ y # <<>> /\ \A j \in 1..1 : j = 1
  BY <1>1
<1> HIDE DEF y
<1>3. Itemises(t, m, y)
  BY <1>2 DEF Itemises
<1> QED BY <1>3 DEF y

LEMMA ItemsRender ==
  ASSUME NEW t, t \in Responses, NEW m, m \in Msg
  PROVE  Itemises(t, m, ResponsesItems(m))
<1>1. CASE IsAssistant(m)
  BY <1>1, AnswerItemises
<1>2. CASE IsTool(m)
  <2>1. ~IsAssistant(m)
    BY <1>2, MsgKinds
  <2>2. PICK x : x = Output(ExtractCallId(m.call))
    OBVIOUS
  <2>3. x = GivenAs(t, m.call)
    <3>1. t # "gemini"
      BY DEF Responses
    <3> QED BY <2>2, <3>1 DEF GivenAs, ResultAs
  <2>4. OutputRole(t) = "tool"
    BY DEF OutputRole
  <2>5. PICK out : out = Message("tool", <<x>>) /\ Renders(t, m, out)
    <3>1. Renders(t, m, Message(OutputRole(t), <<x>>))
      BY <1>2, <2>3, ResultRenders
    <3> QED BY <2>4, <3>1
  <2>6. ResponsesItems(m) = <<out>>
    BY <1>2, <2>1, <2>2, <2>5 DEF ResponsesItems
  <2>7. Itemises(t, m, <<out>>)
    BY <2>1, <2>5, OneItemises
  <2> QED BY <2>6, <2>7
<1>3. CASE ~IsAssistant(m) /\ ~IsTool(m)
  <2>1. PICK p : p = IF m.says = "image" THEN <<Image>> ELSE <<Text>>
    OBVIOUS
  <2>2. Wordy(p) /\ p \in Seq(Part)
    <3>1. Wordy(<<Image>>) /\ <<Image>> \in Seq(Part) /\ Wordy(<<Text>>) /\ <<Text>> \in Seq(Part)
      BY WordyOne
    <3> QED BY <2>1, <3>1
  <2>3. PICK out : out = Message("user", p) /\ Renders(t, m, out)
    BY <1>3, <2>2, UserRenders
  <2>4. ResponsesItems(m) = <<out>>
    BY <1>3, <2>1, <2>3 DEF ResponsesItems
  <2>5. Itemises(t, m, <<out>>)
    BY <1>3, <2>3, OneItemises
  <2> QED BY <2>4, <2>5
<1> QED BY <1>1, <1>2, <1>3

(* Every message is itemised. *)
Listed(t, k, ms) ==
  /\ ms \in Seq(Seq(ReqMsg)) /\ Len(ms) = Len(k)
  /\ \A i \in 1..Len(k) : Itemises(t, k[i], ms[i])

LEMMA FlattenLaid ==
  ASSUME NEW t, NEW k \in Seq(Msg), NEW C, Reads(C, t, k), C.mode = "flat", NEW ms, Listed(t, k, ms)
  PROVE  FlattenSeq(ms) \in Seq(ReqMsg) /\ Laid(C, FlattenSeq(ms), Len(k))
<1>1. /\ ms \in Seq(Seq(ReqMsg)) /\ Len(ms) = Len(k) /\ Len(k) \in Nat
      /\ \A i \in 1..Len(k) : Itemises(t, k[i], ms[i])
  BY DEF Listed
<1>2. CASE Len(k) = 0
  <2>1. FlattenSeq(ms) = ms
    BY <1>1, <1>2 DEF FlattenSeq
  <2>2. ms = <<>>
    BY <1>1, <1>2
  <2>3. Laid(C, <<>>, 0) /\ <<>> \in Seq(ReqMsg)
    BY LaidNothing
  <2> QED BY <1>2, <2>1, <2>2, <2>3
<1>3. CASE Len(k) # 0
  <2>1. PICK g : /\ g[1] = ms[1]
                 /\ \A i \in 2..Len(ms) : g[i] = g[i - 1] \o ms[i]
                 /\ FlattenSeq(ms) = g[Len(ms)]
    <3>1. ms \in Seq(Seq(ReqMsg)) /\ Len(ms) # 0
      BY <1>1, <1>3
    <3> QED BY <3>1, FlattenIsIteration
  <2> DEFINE K == {i \in 0..Len(k) : i = 0 \/ (g[i] \in Seq(ReqMsg) /\ Laid(C, g[i], i))}
  <2>2. 0 \in K
    BY <1>1
  <2>3. ASSUME NEW i \in 1..Len(k), i - 1 \in K PROVE i \in K
    <3>1. i \in 0..Len(k)
      BY <1>1
    <3>2. PICK y : y = ms[i] /\ Itemises(t, k[i], y)
      BY <1>1
    <3>3. CASE i = 1
      <4>1. PICK u \in Seq(ReqMsg) : u = <<>> /\ Laid(C, u, 0)
        <5>1. Laid(C, <<>>, 0)
          BY LaidNothing
        <5>2. <<>> \in Seq(ReqMsg)
          OBVIOUS
        <5> QED BY <5>1, <5>2
      <4>2. 0 = i - 1
        BY <3>3
      <4>3. Laid(C, u, i - 1)
        BY <4>1, <4>2
      <4>4. u \o y \in Seq(ReqMsg) /\ Laid(C, u \o y, i)
        BY <3>2, <4>3, ItemsLaid
      <4>5. u \o y = y
        <5>1. y \in Seq(ReqMsg)
          BY <3>2 DEF Itemises
        <5> QED BY <4>1, <5>1
      <4>6. g[i] = y
        BY <2>1, <3>2, <3>3
      <4> QED BY <3>1, <4>4, <4>5, <4>6
    <3>4. CASE i # 1
      <4>1. i \in 2..Len(ms) /\ i - 1 # 0
        BY <1>1, <3>4
      <4>2. PICK u \in Seq(ReqMsg) : u = g[i - 1] /\ Laid(C, u, i - 1)
        BY <2>3, <4>1
      <4>3. u \o y \in Seq(ReqMsg) /\ Laid(C, u \o y, i)
        BY <3>2, <4>2, ItemsLaid
      <4>4. g[i] = u \o y
        BY <2>1, <3>2, <4>1, <4>2
      <4> QED BY <3>1, <4>3, <4>4
    <3> QED BY <3>3, <3>4
  <2> HIDE DEF K
  <2>4. 0..Len(k) \subseteq K
    BY <1>1, <2>2, <2>3, BoundedInduction
  <2>5. Len(k) \in K
    BY <1>1, <2>4
  <2> QED BY <1>1, <1>3, <2>1, <2>5 DEF K
<1> QED BY <1>2, <1>3

(* What is sent when nothing is left calls for nothing. *)
LEMMA BlankPaired ==
  ASSUME NEW t, NEW D
  PROVE  RunPaired(t, D, OrPlaceholder(<<>>)) /\ RestPaired(OrPlaceholder(<<>>))
<1> DEFINE r == <<Message("user", <<Blank>>)>>
<1>1. OrPlaceholder(<<>>) = r
  BY DEF OrPlaceholder
<1>2. Len(r) = 1
  OBVIOUS
<1> HIDE DEF r
<1>3. \A i \in 1..1 : \A m \in 0..(1 - i) : ~(i + m < 1)
  OBVIOUS
<1>4. \A i \in 1..1 : (i + 1)..1 = {}
  OBVIOUS
<1>5. RunPaired(t, D, r)
  BY <1>2, <1>3 DEF RunPaired
<1>6. RestPaired(r)
  BY <1>2, <1>4 DEF RestPaired
<1> QED BY <1>1, <1>5, <1>6

-----------------------------------------------------------------------------
(* Calls and results are paired in every request *)

(* The messages of a list, each made on its own, are those of the places of k. *)
LEMMA EachRendered ==
  ASSUME NEW t, NEW k, k \in Seq(Msg), NEW ms, ms = [i \in DOMAIN k |-> ms[i]],
         \A i \in 1..Len(k) : Renders(t, k[i], ms[i])
  PROVE  Rendered(t, k, ms)
<1>1. DOMAIN k = 1..Len(k) /\ Len(k) \in Nat
  OBVIOUS
<1>2. \A i \in 1..Len(k) : ms[i] \in ReqMsg
  BY DEF Renders
<1>3. ms \in Seq(ReqMsg) /\ Len(ms) = Len(k)
  <2>1. ms = [i \in 1..Len(k) |-> ms[i]]
    BY <1>1
  <2>2. ms \in [1..Len(k) -> ReqMsg]
    BY <1>2, <2>1
  <2> QED BY <1>1, <2>2
<1> QED BY <1>3 DEF Rendered

LEMMA OrPlaceholderPaired ==
  ASSUME NEW t, NEW D, NEW r
  PROVE  /\ RunPaired(t, D, r) => RunPaired(t, D, OrPlaceholder(r))
         /\ RestPaired(r) => RestPaired(OrPlaceholder(r))
<1>1. CASE r = <<>>
  BY <1>1, BlankPaired
<1>2. CASE r # <<>>
  <2>1. OrPlaceholder(r) = r
    BY <1>2 DEF OrPlaceholder
  <2> QED BY <2>1
<1> QED BY <1>1, <1>2

(* What Transform leaves of the history, with what the request reads of it. *)
Left(t, k) ==
  /\ k = Transformed(history, t) /\ k \in Seq(Msg)
  /\ Answered(k) /\ Single(k, Twofold(history, t)) /\ Traced(k) /\ (t # "mistral" => Numbered(k))

LEMMA GatheredPaired ==
  ASSUME NEW t, t \in Models, t \notin Chats, t \notin Responses, NEW k, Left(t, k), NEW ms, Rendered(t, k, ms),
         NEW D, D = Twofold(history, t)
  PROVE  RunPaired(t, D, Gathered(ms)) /\ RunPaired(t, D, OrPlaceholder(Filled(Gathered(ms))))
<1>1. k \in Seq(Msg) /\ Answered(k) /\ Single(k, D) /\ Traced(k)
  BY DEF Left
<1>2. PICK C : Reads(C, t, k)
  BY ReadingReads
<1>3. PICK r : r = Gathered(ms) /\ r \in Seq(ReqMsg) /\ Laid(C, r, Len(k))
  BY <1>1, <1>2, GatherLaid
<1>4. RunPaired(t, D, r)
  BY <1>1, <1>2, <1>3, LaidPairsRun
<1>5. C.mode = "tight"
  BY <1>2 DEF Reads
<1>6. PICK n \in Nat : n = Len(k)
  BY <1>1
<1>7. PICK f : f = Filled(r) /\ f \in Seq(ReqMsg) /\ Laid(C, f, Len(k))
  <2>1. Laid(C, r, n)
    BY <1>3, <1>6
  <2>2. Filled(r) \in Seq(ReqMsg) /\ Laid(C, Filled(r), n)
    BY <1>3, <1>5, <2>1, FilledLaid
  <2> QED BY <1>6, <2>2
<1>8. RunPaired(t, D, f)
  BY <1>1, <1>2, <1>7, LaidPairsRun
<1>9. RunPaired(t, D, OrPlaceholder(f))
  BY <1>8, OrPlaceholderPaired
<1> QED BY <1>3, <1>4, <1>7, <1>9

LEMMA RequestPairsRun ==
  ASSUME NEW t, t \in Models, t \notin Responses, NEW k, Left(t, k), history \in Seq(Msg),
         NEW D, D = Twofold(history, t)
  PROVE  RunPaired(t, D, Request(history, t))
<1>1. k \in Seq(Msg) /\ k = Transformed(history, t)
  BY DEF Left
<1>2. CASE t = "claude"
  <2>1. t \notin Chats
    BY <1>2 DEF Chats
  <2>2. PICK ms : ms = Each(k, AnthropicMessage) /\ Rendered(t, k, ms)
    <3>1. PICK ms : ms = Each(k, AnthropicMessage)
      OBVIOUS
    <3>2. ms = [i \in DOMAIN k |-> AnthropicMessage(k[i])]
      BY <3>1 DEF Each
    <3>3. ASSUME NEW i \in 1..Len(k) PROVE Renders(t, k[i], ms[i])
      <4>1. PICK m \in Msg : m = k[i] /\ i \in DOMAIN k
        BY <1>1
      <4>2. ms[i] = AnthropicMessage(m)
        BY <3>2, <4>1
      <4>3. Renders(t, m, AnthropicMessage(m))
        BY <1>2, AnthropicRenders
      <4> QED BY <4>1, <4>2, <4>3
    <3>4. ms = [i \in DOMAIN k |-> ms[i]]
      BY <3>2
    <3>5. Rendered(t, k, ms)
      BY <1>1, <3>3, <3>4, EachRendered
    <3> QED BY <3>1, <3>5
  <2>3. RunPaired(t, D, Gathered(ms))
    BY <2>1, <2>2, GatheredPaired
  <2>4. Request(history, t) = Gathered(ms)
    BY <1>1, <1>2, <2>2 DEF Request, AnthropicMessages
  <2> QED BY <2>3, <2>4
<1>3. CASE t = "bedrock"
  <2>1. t \notin Chats
    BY <1>3 DEF Chats
  <2>2. PICK ms : ms = Each(k, BedrockMessage) /\ Rendered(t, k, ms)
    <3>1. PICK ms : ms = Each(k, BedrockMessage)
      OBVIOUS
    <3>2. ms = [i \in DOMAIN k |-> BedrockMessage(k[i])]
      BY <3>1 DEF Each
    <3>3. ASSUME NEW i \in 1..Len(k) PROVE Renders(t, k[i], ms[i])
      <4>1. PICK m \in Msg : m = k[i] /\ i \in DOMAIN k
        BY <1>1
      <4>2. ms[i] = BedrockMessage(m)
        BY <3>2, <4>1
      <4>3. Renders(t, m, BedrockMessage(m))
        BY <1>3, BedrockRenders
      <4> QED BY <4>1, <4>2, <4>3
    <3>4. ms = [i \in DOMAIN k |-> ms[i]]
      BY <3>2
    <3>5. Rendered(t, k, ms)
      BY <1>1, <3>3, <3>4, EachRendered
    <3> QED BY <3>1, <3>5
  <2>3. RunPaired(t, D, OrPlaceholder(Filled(Gathered(ms))))
    BY <2>1, <2>2, GatheredPaired
  <2>4. Request(history, t) = OrPlaceholder(Filled(Gathered(ms)))
    BY <1>1, <1>3, <2>2 DEF Request, BedrockMessages
  <2> QED BY <2>3, <2>4
<1>4. CASE t \in {"gemini", "claude-google"}
  <2>1. t \notin Chats
    BY <1>4 DEF Chats
  <2>2. PICK ms : ms = Each(k, LAMBDA m : GoogleMessage(t, m)) /\ Rendered(t, k, ms)
    <3>1. PICK ms : ms = Each(k, LAMBDA m : GoogleMessage(t, m))
      OBVIOUS
    <3>2. ms = [i \in DOMAIN k |-> GoogleMessage(t, k[i])]
      BY <3>1 DEF Each
    <3>3. ASSUME NEW i \in 1..Len(k) PROVE Renders(t, k[i], ms[i])
      <4>1. PICK m \in Msg : m = k[i] /\ i \in DOMAIN k
        BY <1>1
      <4>2. ms[i] = GoogleMessage(t, m)
        BY <3>2, <4>1
      <4>3. Renders(t, m, GoogleMessage(t, m))
        BY <1>4, GoogleRenders
      <4> QED BY <4>1, <4>2, <4>3
    <3>4. ms = [i \in DOMAIN k |-> ms[i]]
      BY <3>2
    <3>5. Rendered(t, k, ms)
      BY <1>1, <3>3, <3>4, EachRendered
    <3> QED BY <3>1, <3>5
  <2>3. RunPaired(t, D, OrPlaceholder(Filled(Gathered(ms))))
    BY <2>1, <2>2, GatheredPaired
  <2>4. Request(history, t) = OrPlaceholder(Filled(Gathered(ms)))
    BY <1>1, <1>4, <2>2 DEF Request, GoogleMessages
  <2> QED BY <2>3, <2>4
<1>5. CASE t \in Chats
  <2>1. Answered(k) /\ Single(k, D) /\ Traced(k)
    BY DEF Left
  <2>2. PICK C : Reads(C, t, k)
    BY ReadingReads
  <2>3. PICK r : r = ChatMessages(history, t) /\ r \in Seq(ReqMsg) /\ Laid(C, r, Len(k))
    BY <1>1, <1>5, <2>2, ChatLaid
  <2>4. RunPaired(t, D, r)
    BY <1>1, <2>1, <2>2, <2>3, LaidPairsRun
  <2>5. Request(history, t) = r
    BY <1>5, <2>3 DEF Request, Chats
  <2> QED BY <2>4, <2>5
<1>6. t \in {"claude", "bedrock", "gemini", "claude-google"} \cup Chats
  BY DEF Models, Responses, Chats
<1> QED BY <1>2, <1>3, <1>4, <1>5, <1>6

LEMMA RequestPairsRest ==
  ASSUME NEW t, t \in Models, t \in Responses, NEW k, Left(t, k)
  PROVE  RestPaired(Request(history, t))
<1>1. k \in Seq(Msg) /\ k = Transformed(history, t) /\ Answered(k) /\ Single(k, {}) /\ Numbered(k)
  <2>1. t # "mistral"
    BY DEF Responses
  <2> QED BY <2>1 DEF Left, Twofold
<1>2. PICK C : Reads(C, t, k)
  BY ReadingReads
<1>3. C.mode = "flat"
  BY <1>2 DEF Reads
<1> DEFINE ms == Each(k, ResponsesItems)
<1>4. ms = [i \in 1..Len(k) |-> ResponsesItems(k[i])]
  <2>1. DOMAIN k = 1..Len(k)
    BY <1>1
  <2> QED BY <2>1 DEF Each
<1>5. Request(history, t) = OrPlaceholder(FlattenSeq(ms))
  BY <1>1 DEF Request, Responses, ResponsesInput
<1> HIDE DEF ms
<1>6. ASSUME NEW i \in 1..Len(k) PROVE Itemises(t, k[i], ms[i])
  <2>1. PICK m \in Msg : m = k[i]
    BY <1>1
  <2>2. Itemises(t, m, ResponsesItems(m))
    BY <2>1, ItemsRender
  <2>3. ms[i] = ResponsesItems(m)
    BY <1>4, <2>1
  <2> QED BY <2>1, <2>2, <2>3
<1>7. Listed(t, k, ms)
  <2>1. \A i \in 1..Len(k) : ms[i] \in Seq(ReqMsg)
    BY <1>6 DEF Itemises
  <2>2. ms = [i \in 1..Len(k) |-> ms[i]] /\ Len(k) \in Nat
    BY <1>1, <1>4
  <2>3. ms \in [1..Len(k) -> Seq(ReqMsg)]
    BY <2>1, <2>2
  <2>4. ms \in Seq(Seq(ReqMsg)) /\ Len(ms) = Len(k)
    BY <2>2, <2>3
  <2> QED BY <1>6, <2>4 DEF Listed
<1>8. PICK r : r = FlattenSeq(ms) /\ r \in Seq(ReqMsg) /\ Laid(C, r, Len(k))
  BY <1>1, <1>2, <1>3, <1>7, FlattenLaid
<1>9. RestPaired(r)
  BY <1>1, <1>2, <1>8, LaidPairsRest
<1>10. RestPaired(OrPlaceholder(r))
  BY <1>9, OrPlaceholderPaired
<1> QED BY <1>5, <1>8, <1>10

(* What CallsPaired says of a request follows. *)
(* CallsPaired of the entry at i of a request to t. *)
PairedAt(t, r, i) ==
  LET ids     == {p.id : p \in Range(KindsIn(r[i], "call"))}
      role    == IF t \in {"gpt-chat", "kimi", "mistral"} THEN "tool" ELSE "results"
      run     == Cardinality(RunBehind(r, i, role))
      outputs == OutputsIn(SubSeq(r, i + 1, i + run))
  IN CASE t = "gemini" -> i + run < Len(r) => Len(outputs) >= Cardinality(ids)
       [] t \in {"gpt", "codex", "copilot"} ->
            (\E j \in (i + 1)..Len(r) : r[j].role = "user") =>
              \A id \in ids : id.n \in Trailing \/ Once(id, OutputsIn(SubSeq(r, i + 1, Len(r))))
       [] t = "mistral" -> i + run < Len(r) => \A id \in ids \ Doubled(history, t) : Once(id, outputs)
       [] OTHER -> i + run < Len(r) => \A id \in ids : Once(id, outputs)

LEMMA CallsPairedFor ==
  ASSUME NEW t, t \in Models, NEW r \in Seq(ReqMsg), NEW D, D = Twofold(history, t),
         t \notin Responses => RunPaired(t, D, r), t \in Responses => RestPaired(r), NEW i \in DOMAIN r
  PROVE  PairedAt(t, r, i)
<1> DEFINE ids     == {p.id : p \in Range(KindsIn(r[i], "call"))}
           role    == IF t \in {"gpt-chat", "kimi", "mistral"} THEN "tool" ELSE "results"
           run     == Cardinality(RunBehind(r, i, role))
           outputs == OutputsIn(SubSeq(r, i + 1, i + run))
           rest    == OutputsIn(SubSeq(r, i + 1, Len(r)))
<1>1. i \in 1..Len(r)
  OBVIOUS
<1>2. ids = CallIds(r[i]) /\ role = RoleFor(t)
  BY DEF CallIds, RoleFor, Chats
<1>3. PICK m \in 0..(Len(r) - i) :
        /\ run = m
        /\ \A l \in (i + 1)..(i + m) : r[l].role = role
        /\ i + m < Len(r) => i + m + 1 \in 1..Len(r) /\ r[i + m + 1].role # role
  <2> HIDE DEF role
  <2> QED BY <1>1, RunIs
<1> HIDE DEF role, run, ids
<1>4. ASSUME t \notin Responses, i + m < Len(r)
      PROVE  IF t = "gemini" THEN Len(outputs) >= Cardinality(ids) ELSE \A id \in ids \ D : Once(id, outputs)
  <2>1. outputs = OutputsIn(SubSeq(r, i + 1, i + m))
    BY <1>3
  <2>2. RunPaired(t, D, r)
    BY <1>4
  <2>3. /\ \A l \in (i + 1)..(i + m) : r[l].role = RoleFor(t)
        /\ i + m < Len(r) /\ r[i + m + 1].role # RoleFor(t)
    BY <1>2, <1>3, <1>4
  <2>4. LET o == OutputsIn(SubSeq(r, i + 1, i + m)) IN
        IF t = "gemini" THEN Len(o) >= Cardinality(CallIds(r[i])) ELSE \A id \in CallIds(r[i]) \ D : Once(id, o)
    BY <1>1, <2>2, <2>3 DEF RunPaired
  <2> QED BY <1>2, <2>1, <2>4
<1>5. ASSUME t \in Responses, \E j \in (i + 1)..Len(r) : r[j].role = "user"
      PROVE  \A id \in ids : id.n \in Trailing \/ Once(id, rest)
  <2>1. RestPaired(r)
    BY <1>5
  <2> QED BY <1>1, <1>2, <1>5, <2>1 DEF RestPaired
<1> HIDE DEF outputs, rest
<1>6. CASE t \in Responses
  <2>1. t \in {"gpt", "codex", "copilot"} /\ t # "gemini" /\ t # "mistral"
    BY <1>6 DEF Responses
  <2>3. (CASE t = "gemini" -> i + run < Len(r) => Len(outputs) >= Cardinality(ids)
           [] t \in {"gpt", "codex", "copilot"} ->
                (\E j \in (i + 1)..Len(r) : r[j].role = "user") => \A id \in ids : id.n \in Trailing \/ Once(id, rest)
           [] t = "mistral" -> i + run < Len(r) => \A id \in ids \ Doubled(history, t) : Once(id, outputs)
           [] OTHER -> i + run < Len(r) => \A id \in ids : Once(id, outputs))
    BY <1>5, <1>6, <2>1
  <2> QED BY <2>3 DEF PairedAt, ids, role, run, outputs, rest
<1>7. CASE t \notin Responses
  <2>1. t \notin {"gpt", "codex", "copilot"}
    BY <1>7 DEF Responses
  <2>2. i + run < Len(r) =>
          IF t = "gemini" THEN Len(outputs) >= Cardinality(ids) ELSE \A id \in ids \ D : Once(id, outputs)
    BY <1>3, <1>4, <1>7
  <2>4. t # "mistral" => ids \ D = ids
    BY DEF Twofold
  <2>5. t = "mistral" => t # "gemini" /\ D = Doubled(history, t)
    BY DEF Twofold
  <2>3. (CASE t = "gemini" -> i + run < Len(r) => Len(outputs) >= Cardinality(ids)
           [] t \in {"gpt", "codex", "copilot"} ->
                (\E j \in (i + 1)..Len(r) : r[j].role = "user") => \A id \in ids : id.n \in Trailing \/ Once(id, rest)
           [] t = "mistral" -> i + run < Len(r) => \A id \in ids \ Doubled(history, t) : Once(id, outputs)
           [] OTHER -> i + run < Len(r) => \A id \in ids : Once(id, outputs))
    BY <2>1, <2>2, <2>4, <2>5
  <2> QED BY <2>3 DEF PairedAt, ids, role, run, outputs, rest
<1> QED BY <1>6, <1>7

LEMMA HistoryPairsCalls ==
  HistoryInv => CallsPaired
<1> SUFFICES ASSUME HistoryInv PROVE CallsPaired
  OBVIOUS
<1>1. history \in Seq(Msg)
  BY DEF HistoryInv
<1>2. ASSUME NEW t, t \in Targets, NEW r, r = Request(history, t), NEW i \in DOMAIN r
      PROVE  PairedAt(t, r, i)
  <2>1. t \in Models
    BY <1>2, TransformConstants
  <2>6. PICK D : D = Twofold(history, t)
    OBVIOUS
  <2>2. PICK k : Left(t, k)
    <3>1. LET k == Transformed(history, t) IN
          /\ k \in Seq(Msg) /\ Answered(k) /\ Single(k, D) /\ Traced(k)
          /\ t # "mistral" => Numbered(k)
      BY <2>1, <2>6, TransformedPairs
    <3> QED BY <2>6, <3>1 DEF Left
  <2>3. r \in Seq(ReqMsg)
    BY <1>1, <1>2, <2>1, RequestTells
  <2>4. t \notin Responses => RunPaired(t, D, r)
    BY <1>1, <1>2, <2>1, <2>2, <2>6, RequestPairsRun
  <2>5. t \in Responses => RestPaired(r)
    BY <1>2, <2>1, <2>2, RequestPairsRest
  <2> QED BY <1>2, <2>1, <2>3, <2>4, <2>5, <2>6, CallsPairedFor
<1> QED BY <1>2 DEF CallsPaired, PairedAt

(* Every call that is sent is followed by its result, and by no other result of its
   id, where the API looks for it: for histories of any length and every API.  Excepted
   are ids that Mistral's rule gives to two calls of one answer, which the code does not
   tell apart, and for Responses ids that are trimmed in the call and not in its output. *)
THEOREM CallsArePaired == HistorySpec => []CallsPaired
<1>1. HistoryInv => CallsPaired
  BY HistoryPairsCalls
<1> QED BY <1>1, HistoryInvariant, PTL
=============================================================================
