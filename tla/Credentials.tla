---------------------------- MODULE Credentials ----------------------------
(***************************************************************************)
(* internal/config/auth.go: the stored logins, and how a key is got from   *)
(* one.  An access token that has run out is renewed at the provider with  *)
(* the refresh token; some providers then hand out a new refresh token     *)
(* and take the old one no longer.  What came back is put in the map in    *)
(* memory and the whole map is written to auth.json, without a lock and    *)
(* not atomically: the file is empty while it is written.                  *)
(*                                                                         *)
(* The goroutine that runs prompts gets keys; the one that reads commands  *)
(* lists the models that have a key meanwhile, from the same map.  The     *)
(* provider numbers the tokens it issues; 0 is none.  One process uses the *)
(* file; logging in is done by another program, before.                    *)
(***************************************************************************)
EXTENDS Integers

CONSTANTS
  Providers,     \* that somebody has logged in to
  Rotating,      \* those that hand out a new refresh token each time
  Override,      \* those with a key given on the command line
  Fallback,      \* those with a key in the environment or in models.json
  MaxIssued,     \* tokens a provider issues (bounds the model)
  MaxFaults      \* lost answers, failed writes and kills (bounds the model)

ASSUME CredentialsConstants ==
  /\ Rotating \subseteq Providers /\ Override \subseteq Providers /\ Fallback \subseteq Providers
  /\ MaxIssued \in Nat \ {0} /\ MaxFaults \in Nat

VARIABLES
  up,        \* the process runs
  data,      \* AuthStorage.data
  file,      \* auth.json
  pc,        \* where GetAPIKey is
  wanted,    \* the provider it gets a key of
  answer,    \* the credential it has made of the answer to a refresh
  key,       \* what the last GetAPIKey has returned
  looking,   \* GetAvailable reads the map
  issued,    \* tokens issued by each provider
  valid,     \* the refresh token each provider takes
  expired,   \* access tokens up to this one have run out
  unsaved,   \* logins in memory that a failed write has left out of the file
  spoiled,   \* logins that a fault has hit at a moment that cannot be helped
  faults

store == <<up, data, file, pc, wanted, answer, key, looking>>
auth  == <<store, issued, valid, expired, unsaved, spoiled, faults>>

Credential == [login : Nat, access : Nat]
NoLogin    == [login |-> 0, access |-> 0]
(* Also what an empty or unfinished file says: nobody is logged in. *)
NoFile     == [p \in Providers |-> NoLogin]

Key == [from : {"none", "override", "login", "fallback"}, access : Nat]
NoKey == [from |-> "none", access |-> 0]

AuthInit ==
  /\ up = TRUE /\ file = [p \in Providers |-> [login |-> 1, access |-> 1]] /\ data = file
  /\ pc = "idle" /\ wanted \in Providers /\ answer = NoLogin /\ key = NoKey /\ looking = FALSE
  /\ issued = [p \in Providers |-> 1] /\ valid = [p \in Providers |-> 1]
  /\ expired = [p \in Providers |-> 0]
  /\ unsaved = {} /\ spoiled = {} /\ faults = 0

-----------------------------------------------------------------------------
(* GetAPIKey. *)

KeyOf(p, c) ==
  CASE p \in Override                                -> [from |-> "override", access |-> 0]
    [] p \notin Override /\ c.access # 0             -> [from |-> "login", access |-> c.access]
    [] p \notin Override /\ c.access = 0 /\ p \in Fallback -> [from |-> "fallback", access |-> 0]
    [] OTHER                                         -> NoKey

(* refreshOAuthCredentialIfNeeded: there is a refresh token, and no access token or an old one. *)
Due(p, c) == c.login # 0 /\ c.access <= expired[p]

Return(k) == pc' = "idle" /\ key' = k

GetAPIKey(p) ==
  /\ up /\ pc = "idle"
  /\ wanted' = p
  /\ \/ /\ p \in Override \/ ~Due(p, data[p])
        /\ Return(KeyOf(p, data[p]))
     \/ /\ p \notin Override /\ Due(p, data[p])
        /\ pc' = "asking" /\ key' = NoKey
  /\ UNCHANGED <<up, data, file, answer, looking, issued, valid, expired, unsaved, spoiled, faults>>

(* The provider issues an access token, and a refresh token if it is one that does.
   An answer without a refresh token leaves the one that was sent. *)
Answer(c, p, n) == [login |-> IF p \in Rotating THEN n ELSE c.login, access |-> n]

Issue ==
  LET n == issued[wanted] + 1
  IN /\ pc = "asking" /\ n <= MaxIssued
     /\ data[wanted].login = valid[wanted]
     /\ issued' = [issued EXCEPT ![wanted] = n]
     /\ valid' = [valid EXCEPT ![wanted] = IF wanted \in Rotating THEN n ELSE @]
     /\ answer' = Answer(data[wanted], wanted, n)
     /\ pc' = "answered"
     /\ UNCHANGED <<up, data, file, wanted, key, looking, expired, unsaved, spoiled, faults>>

(* The provider refuses, cannot be reached, or is too slow: the old token is used. *)
Refuse ==
  /\ pc = "asking"
  /\ Return(KeyOf(wanted, data[wanted]))
  /\ UNCHANGED <<up, data, file, wanted, answer, looking, issued, valid, expired, unsaved, spoiled,
                 faults>>

(* The answer is on its way when the connection breaks or 20 seconds are over. *)
LoseAnswer ==
  /\ pc = "answered" /\ faults < MaxFaults
  /\ Return(KeyOf(wanted, data[wanted]))
  /\ spoiled' = spoiled \cup {wanted} /\ faults' = faults + 1
  /\ UNCHANGED <<up, data, file, wanted, answer, looking, issued, valid, expired, unsaved>>

(* a.data[provider] = c, in two steps: a map that is read meanwhile kills the process. *)
BeginStore ==
  /\ pc = "answered" /\ pc' = "storing"
  /\ UNCHANGED <<up, data, file, wanted, answer, key, looking, issued, valid, expired, unsaved,
                 spoiled, faults>>

(* The map keeps its old entry. *)
EndStoreLocal ==
  /\ pc = "storing" /\ pc' = "stored"
  /\ UNCHANGED <<up, data, file, wanted, answer, key, looking, issued, valid, expired, unsaved,
                 spoiled, faults>>

EndStore ==
  /\ pc = "storing" /\ pc' = "stored"
  /\ data' = [data EXCEPT ![wanted] = answer]
  /\ UNCHANGED <<up, file, wanted, answer, key, looking, issued, valid, expired, unsaved, spoiled,
                 faults>>

(* persist: WriteFile empties the file ... *)
BeginPersist ==
  /\ pc = "stored" /\ pc' = "writing"
  /\ file' = NoFile
  /\ UNCHANGED <<up, data, wanted, answer, key, looking, issued, valid, expired, unsaved, spoiled,
                 faults>>

(* Only the login that was renewed is written. *)
PersistOne ==
  /\ pc = "writing"
  /\ file' = [file EXCEPT ![wanted] = data[wanted]]
  /\ unsaved' = {}
  /\ Return(KeyOf(wanted, data[wanted]))
  /\ UNCHANGED <<up, data, wanted, answer, looking, issued, valid, expired, spoiled, faults>>

(* ... and writes the whole map. *)
Persist ==
  /\ pc = "writing"
  /\ file' = data
  /\ unsaved' = {}
  /\ Return(KeyOf(wanted, data[wanted]))
  /\ UNCHANGED <<up, data, wanted, answer, looking, issued, valid, expired, spoiled, faults>>

(* Errors are ignored: the file is as it was, or empty. *)
PersistFails ==
  /\ pc \in {"stored", "writing"} /\ faults < MaxFaults
  /\ unsaved' = IF pc = "stored" THEN unsaved \cup {wanted} ELSE Providers
  /\ Return(KeyOf(wanted, data[wanted]))
  /\ faults' = faults + 1
  /\ UNCHANGED <<up, data, file, wanted, answer, looking, issued, valid, expired, spoiled>>

-----------------------------------------------------------------------------
(* The reader of commands, and the process. *)

(* HasAuth of every model. *)
BeginLook ==
  /\ up /\ ~looking /\ looking' = TRUE
  /\ UNCHANGED <<up, data, file, pc, wanted, answer, key, issued, valid, expired, unsaved, spoiled,
                 faults>>

EndLook ==
  /\ up /\ looking /\ looking' = FALSE
  /\ UNCHANGED <<up, data, file, pc, wanted, answer, key, issued, valid, expired, unsaved, spoiled,
                 faults>>

(* The logins that die with the process. *)
InMemoryOnly ==
  unsaved \cup (IF pc \in {"answered", "storing", "stored"} THEN {wanted} ELSE {})
          \cup (IF pc = "writing" THEN Providers ELSE {})

Die ==
  /\ up' = FALSE /\ pc' = "idle" /\ key' = NoKey /\ looking' = FALSE
  /\ data' = NoFile /\ answer' = NoLogin
  /\ spoiled' = spoiled \cup InMemoryOnly /\ unsaved' = {}
  /\ UNCHANGED <<file, wanted, issued, valid, expired>>

Kill == up /\ faults < MaxFaults /\ faults' = faults + 1 /\ Die

(* fatal error: concurrent map read and map write *)
RaceKills == looking /\ pc = "storing" /\ UNCHANGED faults /\ Die

(* NewAuthStorage, reload. *)
Start ==
  /\ ~up /\ up' = TRUE
  /\ data' = file
  /\ UNCHANGED <<file, pc, wanted, answer, key, looking, issued, valid, expired, unsaved, spoiled,
                 faults>>

Expire(p) ==
  /\ p \notin Override /\ expired[p] < issued[p]
  /\ expired' = [expired EXCEPT ![p] = issued[p]]
  /\ UNCHANGED <<store, issued, valid, unsaved, spoiled, faults>>

Refresh   == Issue \/ Refuse \/ LoseAnswer
KeepLogin == BeginStore \/ EndStore \/ BeginPersist \/ Persist \/ PersistFails
Process   == BeginLook \/ EndLook \/ Kill \/ RaceKills \/ Start \/ \E p \in Providers : Expire(p)

AuthStep == Refresh \/ KeepLogin \/ Process

AuthNext == AuthStep \/ \E p \in Providers : GetAPIKey(p)

AuthSpec == AuthInit /\ [][AuthNext]_auth

-----------------------------------------------------------------------------
(* Properties *)

AuthTypeOK ==
  /\ up \in BOOLEAN /\ looking \in BOOLEAN
  /\ data \in [Providers -> Credential] /\ file \in [Providers -> Credential]
  /\ pc \in {"idle", "asking", "answered", "storing", "stored", "writing"}
  /\ wanted \in Providers /\ answer \in Credential /\ key \in Key
  /\ issued \in [Providers -> Nat] /\ valid \in [Providers -> Nat] /\ expired \in [Providers -> Nat]
  /\ unsaved \subseteq Providers /\ spoiled \subseteq Providers /\ faults \in Nat

(* The login a provider takes is in the file or in the process, or in the answer the
   process has got: no login is lost unless an answer was, or the process died with a
   login that had not been written, or with the file half written. *)
LoginHeld ==
  \A p \in Providers \ spoiled :
    \/ file[p].login = valid[p]
    \/ up /\ data[p].login = valid[p]
    \/ up /\ pc \in {"answered", "storing"} /\ wanted = p /\ answer.login = valid[p]

(* Unless it was lost, the process never sends a refresh token that the provider has
   replaced: many take that for theft and end the login. *)
NoStaleRefresh ==
  pc = "asking" /\ wanted \notin spoiled => data[wanted].login = valid[wanted]
=============================================================================
