------------------------------ MODULE Accounts ------------------------------
(***************************************************************************)
(* The document of one account (Firestore accounts/{uid}), its API key and *)
(* the two guards.  Accounts share nothing, so one is enough.              *)
(*                                                                         *)
(* A call with a Firebase token first passes FirebaseAuthGuard, which      *)
(* registers the account the first time it is seen; a call with an API key *)
(* passes ApiKeyGuard.  A step is one await: a read or a write of the      *)
(* document.  A key is named after the call that creates it.               *)
(***************************************************************************)
EXTENDS Naturals, FiniteSets

CONSTANTS
  Calls,       \* HTTP calls that reach a guard
  MaxFailures, \* bound: calls of Firebase that fail
  MaxCrashes   \* bound: restarts of the service

ASSUME BoundsAreNatural == MaxFailures \in Nat /\ MaxCrashes \in Nat

VARIABLES
  ready,      \* Firebase Admin has been initialised
  pc,         \* the step a call takes next
  job,        \* what it asks for
  rotated,    \* createApiKey has seen a key it is going to replace
  answer,     \* what its client is answered
  account,    \* accounts/{uid}: Absent, or the key it holds
  told,       \* history: the keys their creators were answered
  dead,       \* history: keys that have been in force and are so no more
  before,     \* history: what the document held before a call stored its key
  late,       \* history: calls whose key was dead when they came in
  crossed,    \* history: calls that were under way together with another
  failures, crashes

vars == <<ready, pc, job, rotated, answer, account,
          told, dead, before, late, crossed, failures, crashes>>
callVars == <<ready, job, rotated>>
docVars == <<account, dead, before>>
pastVars == <<late, crossed>>
boundVars == <<failures, crashes>>
-----------------------------------------------------------------------------
Absent == "absent"
NoKey == "noKey"
Forged == "forged"  \* no header, a wrong format, or a key nobody was given

ASSUME CallsAreNoTexts == Calls \cap {Absent, NoKey, Forged} = {}

Held == {Absent, NoKey} \cup Calls
Jobs == [op: {"create", "account"}, key: {NoKey}] \cup [op: {"use"}, key: {Forged} \cup Calls]
NoJob == [op |-> "none", key |-> NoKey]

Phases == {"idle", "token", "ensure", "register", "registered",
           "rotate", "store", "stored", "get", "verify", "done", "lost"}
Resting == {"idle", "done", "lost"}
Kinds == {"none", "ok", "unauthorized", "error"}

\* onModuleInit does not stop the service when Firebase cannot be initialised.
Init ==
  /\ ready \in BOOLEAN
  /\ pc = [r \in Calls |-> "idle"]
  /\ job = [r \in Calls |-> NoJob]
  /\ rotated = [r \in Calls |-> FALSE]
  /\ answer = [r \in Calls |-> "none"]
  /\ account = Absent
  /\ told = {}
  /\ dead = {}
  /\ before = [r \in Calls |-> Absent]
  /\ late = {}
  /\ crossed = {}
  /\ failures = 0
  /\ crashes = 0

Open == {r \in Calls : pc[r] \notin Resting}
Goto(r, phase) == pc' = [pc EXCEPT ![r] = phase]
Reply(r, kind) == Goto(r, "done") /\ answer' = [answer EXCEPT ![r] = kind]

\* The document gets another text; the key it held is out of force.
Put(held) ==
  /\ account' = held
  /\ dead' = dead \cup (({account} \cap Calls) \ {held})
-----------------------------------------------------------------------------
Arrive(r) ==
  /\ pc[r] = "idle"
  /\ \E j \in Jobs :
       /\ j.key \in Calls => j.key \in told
       /\ job' = [job EXCEPT ![r] = j]
       /\ Goto(r, IF j.op = "use" THEN "verify" ELSE "token")
       /\ late' = late \cup {q \in {r} : j.key \in dead}
  /\ crossed' = crossed \cup (IF Open = {} THEN {} ELSE Open \cup {r})
  /\ UNCHANGED <<ready, rotated, answer, docVars, told, boundVars>>

\* FirebaseAuthGuard: a missing or an invalid token.  Without Firebase there
\* is nobody to ask, and the guard answers the same.
VerifyIdToken(r) ==
  /\ pc[r] = "token"
  /\ \/ ready /\ Goto(r, "ensure") /\ UNCHANGED answer
     \/ Reply(r, "unauthorized")
  /\ UNCHANGED <<callVars, docVars, told, pastVars, boundVars>>

\* Mutated form: the next step has the name of the operation.
AfterGuardByName(r) == job[r].op

AfterGuard(r) == IF job[r].op = "create" THEN "rotate" ELSE "get"

\* Mutated form: the guard writes the document of every call it lets pass.
EnsureAlways(r) ==
  /\ pc[r] = "ensure"
  /\ Goto(r, "register")
  /\ UNCHANGED <<callVars, answer, docVars, told, pastVars, boundVars>>

EnsureAccount(r) ==
  /\ pc[r] = "ensure"
  /\ Goto(r, IF account = Absent THEN "register" ELSE AfterGuard(r))
  /\ UNCHANGED <<callVars, answer, docVars, told, pastVars, boundVars>>

\* The whole document, without a key, whatever has come in between.
Register(r) ==
  /\ pc[r] = "register"
  /\ Put(NoKey)
  /\ Goto(r, "registered")
  /\ UNCHANGED <<callVars, answer, before, told, pastVars, boundVars>>

\* The write is acknowledged.
Registered(r) ==
  /\ pc[r] = "registered"
  /\ Goto(r, AfterGuard(r))
  /\ UNCHANGED <<callVars, answer, docVars, told, pastVars, boundVars>>
-----------------------------------------------------------------------------
(* createApiKey *)

\* Mutated form: any document will do.
HasDocument(held) == held # Absent

HasKey(held) == held \in Calls

ReadRotated(r) ==
  /\ pc[r] = "rotate"
  /\ rotated' = [rotated EXCEPT ![r] = HasKey(account)]
  /\ Goto(r, "store")
  /\ UNCHANGED <<ready, job, answer, docVars, told, pastVars, boundVars>>

\* Mutated form: a key that is there stays.
SetFirstKey(r) ==
  /\ Put(IF HasKey(account) THEN account ELSE r)
  /\ before' = [before EXCEPT ![r] = account]

SetKey(r) ==
  /\ Put(r)
  /\ before' = [before EXCEPT ![r] = account]

StoreKey(r) ==
  /\ pc[r] = "store"
  /\ SetKey(r)
  /\ Goto(r, "stored")
  /\ UNCHANGED <<callVars, answer, told, pastVars, boundVars>>

\* The write is acknowledged, and the client gets the key.
TellKey(r) ==
  /\ pc[r] = "stored"
  /\ told' = told \cup {r}
  /\ Reply(r, "ok")
  /\ UNCHANGED <<callVars, docVars, pastVars, boundVars>>

\* GET account, GET api-keys: what the document holds, without the secret.
GetAccount(r) ==
  /\ pc[r] = "get"
  /\ Reply(r, "ok")
  /\ UNCHANGED <<callVars, docVars, told, pastVars, boundVars>>
-----------------------------------------------------------------------------
(* ApiKeyGuard *)

\* Mutated form: an account with a key is let in.
AcceptsAnyKey(r) == account \in Calls /\ job[r].key \in Calls

Accepts(r) == account \in Calls /\ job[r].key = account

VerifyApiKey(r) ==
  /\ pc[r] = "verify"
  /\ Reply(r, IF ready /\ Accepts(r) THEN "ok" ELSE "unauthorized")
  /\ UNCHANGED <<callVars, docVars, told, pastVars, boundVars>>
-----------------------------------------------------------------------------
(* A call of Firebase fails, or only its acknowledgement.  Inside a guard   *)
(* every error becomes a 401.                                               *)
FirebaseFails(r) ==
  /\ failures < MaxFailures
  /\ failures' = failures + 1
  /\ \/ /\ pc[r] \in {"token", "ensure", "register", "registered", "verify"}
        /\ Reply(r, "unauthorized")
     \/ /\ pc[r] \in {"rotate", "store", "stored", "get"}
        /\ Reply(r, "error")
  /\ UNCHANGED <<callVars, docVars, told, pastVars, crashes>>

Crash ==
  /\ crashes < MaxCrashes
  /\ crashes' = crashes + 1
  /\ pc' = [r \in Calls |-> IF r \in Open THEN "lost" ELSE pc[r]]
  /\ ready' \in BOOLEAN
  /\ UNCHANGED <<job, rotated, answer, docVars, told, pastVars, failures>>

Handle(r) ==
  \/ VerifyIdToken(r) \/ EnsureAccount(r) \/ Register(r) \/ Registered(r)
  \/ ReadRotated(r) \/ StoreKey(r) \/ TellKey(r) \/ GetAccount(r)
  \/ VerifyApiKey(r)

Next ==
  \/ \E r \in Calls : Arrive(r) \/ Handle(r) \/ FirebaseFails(r)
  \/ Crash

Spec == Init /\ [][Next]_vars
-----------------------------------------------------------------------------
(* Properties. *)

\* The type of every variable.
TypeOK ==
  /\ ready \in BOOLEAN
  /\ pc \in [Calls -> Phases]
  /\ job \in [Calls -> Jobs \cup {NoJob}]
  /\ rotated \in [Calls -> BOOLEAN]
  /\ answer \in [Calls -> Kinds]
  /\ account \in Held
  /\ told \subseteq Calls
  /\ dead \subseteq Calls
  /\ before \in [Calls -> Held]
  /\ late \subseteq Calls
  /\ crossed \subseteq Calls
  /\ failures \in 0 .. MaxFailures
  /\ crashes \in 0 .. MaxCrashes

\* A key that has been replaced or erased never comes back into force, and a
\* call that comes in with it later is not let in, whatever is under way.
DeadKeysStayDead ==
  /\ account \notin dead
  /\ \A r \in late : answer[r] # "ok"

\* A key that was handed out works until another takes its place: it is dead
\* only if another call has stored a key or a first call has erased it, and
\* while none of the two is about to happen it is let in.
ToldKeyIsHeldOrDead == \A r \in told : account = r \/ r \in dead

\* A creation that was alone answers `rotated' exactly when it has
\* put an earlier key out of force.  (Two creations at a time may both be told
\* that there was none.)
RotationIsTold ==
  \A r \in told \ crossed : rotated[r] <=> before[r] \in dead

\* Erasing a key takes a first call of the account.  Once the account is there
\* and no such call is left, none comes up again and the account keeps a key
\* for good: a creation may replace it, nothing erases it.
Registering == {r \in Calls : pc[r] = "register"}
SettledAccountKeepsAKey ==
  [][account # Absent /\ Registering = {} =>
       Registering' = {} /\ (account \in Calls => account' \in Calls)]_vars

\* While Firebase answers and the service stays up, only a key that is dead is
\* turned away: a client that was handed a key is refused for no other reason,
\* whatever other calls are doing.
OwnersAreLetIn ==
  failures = 0 /\ crashes = 0 =>
    \A r \in Calls : job[r].key \in Calls /\ answer[r] = "unauthorized" => job[r].key \in dead
-----------------------------------------------------------------------------
(* What the document and the answers amount to. *)

\* The key a call was let in with.
Admitted(r) == IF job[r].op = "use" /\ answer[r] = "ok" THEN job[r].key ELSE NoKey

Ring == INSTANCE KeyRing WITH
  Keys <- Calls, Callers <- Calls, inForce <- IF account \in Calls THEN account ELSE NoKey,
  revoked <- dead, admitted <- [r \in Calls |-> Admitted(r)]

\* The handlers, the guards and Firestore together keep the promise of
\* KeyRing: a key comes into force once, and a caller is let in at an instant
\* at which its key is in force, though nothing is locked.
KeepsTheKeyRing == Ring!RingSpec
==============================================================================
