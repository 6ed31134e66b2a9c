-------------------------- MODULE Accounts_proofs --------------------------
(***************************************************************************)
(* What holds of the key of an account for any number of calls, failures   *)
(* and restarts.  KeyInv says where a call is that has stored a key,       *)
(* AloneInv what a call still knows that no other has crossed, and CallInv *)
(* what a caller may show; KeyRing is implemented on top of it.            *)
(***************************************************************************)
EXTENDS Accounts, TLAPS

\* A key in force, or once in force, is that of a call that has stored it.
KeysAreStored ==
  \A r \in Calls : r = account \/ r \in dead => pc[r] \in {"stored", "done", "lost"}

\* A key that was stored is in force, or dead.
StoredIsHeldOrDead ==
  \A r \in Calls : pc[r] = "stored" \/ r \in told => account = r \/ r \in dead

\* A call that came with a dead key waits for its guard, or was not let in.
LateIsRefused ==
  \A r \in late : /\ job[r].key \in dead
                  /\ pc[r] \in {"verify", "done", "lost"}
                  /\ answer[r] # "ok"

IdleIsFresh == \A r \in Calls : pc[r] = "idle" => answer[r] = "none" /\ r \notin told

ToldHaveEnded == \A r \in told : pc[r] \in {"done", "lost"}

KeyInv ==
  /\ TypeOK
  /\ ToldHaveEnded
  /\ account \notin dead
  /\ KeysAreStored
  /\ StoredIsHeldOrDead
  /\ LateIsRefused
  /\ IdleIsFresh

LEMMA Texts ==
  /\ Absent \notin Calls /\ NoKey \notin Calls /\ Forged \notin Calls
  /\ Absent \in Held /\ NoKey \in Held /\ Calls \subseteq Held
  /\ NoJob \in Jobs \cup {NoJob}
  /\ \A j \in Jobs : j.key \in Calls => j.op = "use"
BY CallsAreNoTexts DEF Held, Jobs

LEMMA KeyInit == Init => KeyInv
<1> SUFFICES ASSUME Init PROVE KeyInv
  OBVIOUS
<1> USE DEF Init
<1>1. TypeOK
  BY Texts, BoundsAreNatural DEF TypeOK, Phases, Kinds
<1>2. KeysAreStored /\ StoredIsHeldOrDead /\ LateIsRefused /\ IdleIsFresh /\ ToldHaveEnded
  BY Texts DEF KeysAreStored, StoredIsHeldOrDead, LateIsRefused, IdleIsFresh, ToldHaveEnded
<1> QED
  BY <1>1, <1>2 DEF KeyInv

\* The types of one step.
LEMMA TypeNext == TypeOK /\ [Next]_vars => TypeOK'
<1> SUFFICES ASSUME TypeOK, [Next]_vars PROVE TypeOK'
  OBVIOUS
<1> USE BoundsAreNatural
    DEF TypeOK, Goto, Reply, callVars, docVars, pastVars, boundVars, Phases, Kinds
<1>1. ASSUME NEW r \in Calls, Arrive(r) PROVE TypeOK'
  <2>1. PICK j \in Jobs : /\ job' = [job EXCEPT ![r] = j]
                          /\ Goto(r, IF j.op = "use" THEN "verify" ELSE "token")
                          /\ late' = late \cup {q \in {r} : j.key \in dead}
    BY <1>1 DEF Arrive
  <2>2. late' \subseteq Calls /\ crossed' \subseteq Calls
    BY <1>1, <2>1 DEF Arrive, Open
  <2> QED
    BY <1>1, <2>1, <2>2 DEF Arrive
<1>2. ASSUME NEW r \in Calls, VerifyIdToken(r) \/ EnsureAccount(r) \/ Registered(r)
      PROVE  TypeOK'
  BY <1>2 DEF VerifyIdToken, EnsureAccount, Registered, AfterGuard
<1>3. ASSUME NEW r \in Calls, Register(r) PROVE TypeOK'
  BY <1>3, Texts DEF Register, Put
<1>4. ASSUME NEW r \in Calls, GetAccount(r) \/ VerifyApiKey(r) PROVE TypeOK'
  BY <1>4 DEF GetAccount, VerifyApiKey
<1>9. ASSUME NEW r \in Calls, ReadRotated(r) PROVE TypeOK'
  <2>1. HasKey(account) \in BOOLEAN
    BY DEF HasKey
  <2> QED
    BY <1>9, <2>1 DEF ReadRotated
<1>5. ASSUME NEW r \in Calls, StoreKey(r) \/ TellKey(r) PROVE TypeOK'
  BY <1>5, Texts DEF StoreKey, TellKey, SetKey, Put
<1>6. ASSUME NEW r \in Calls, FirebaseFails(r) PROVE TypeOK'
  BY <1>6 DEF FirebaseFails
<1>7. ASSUME Crash PROVE TypeOK'
  BY <1>7 DEF Crash, Open
<1>8. CASE UNCHANGED vars
  BY <1>8 DEF vars
<1> QED
  BY <1>1, <1>2, <1>3, <1>4, <1>5, <1>6, <1>7, <1>8, <1>9 DEF Next, Handle

\* What is not the call r's business stays as it is.
LEMMA KeyStep ==
  ASSUME KeyInv, TypeOK', NEW r \in Calls, pc[r] # "idle",
         \A q \in Calls \ {r} : pc'[q] = pc[q] /\ answer'[q] = answer[q],
         pc'[r] # "idle", UNCHANGED <<account, dead, told, late, job>>,
         pc[r] \notin {"stored", "done", "lost"} \/ pc'[r] \in {"stored", "done", "lost"},
         pc'[r] = "stored" => pc[r] = "stored", r \in told => pc'[r] \in {"done", "lost"},
         r \in late => pc'[r] \in {"verify", "done", "lost"} /\ answer'[r] # "ok"
  PROVE  KeyInv'
<1>1. \A q \in late : q \in Calls
  BY DEF KeyInv, TypeOK
<1>2. KeysAreStored' /\ StoredIsHeldOrDead' /\ IdleIsFresh'
  BY DEF KeyInv, KeysAreStored, StoredIsHeldOrDead, IdleIsFresh
<1>4. ToldHaveEnded'
  BY DEF KeyInv, TypeOK, ToldHaveEnded
<1>3. LateIsRefused'
  BY <1>1 DEF KeyInv, LateIsRefused
<1> QED
  BY <1>2, <1>3, <1>4 DEF KeyInv

LEMMA KeyArrive ==
  ASSUME KeyInv, TypeOK', NEW r \in Calls, Arrive(r)
  PROVE  KeyInv'
<1>1. PICK j \in Jobs : /\ j.key \in Calls => j.key \in told
                        /\ job' = [job EXCEPT ![r] = j]
                        /\ Goto(r, IF j.op = "use" THEN "verify" ELSE "token")
                        /\ late' = late \cup {q \in {r} : j.key \in dead}
  BY DEF Arrive
<1>2. /\ pc[r] = "idle" /\ UNCHANGED <<answer, account, dead, told>>
      /\ r \notin late
      /\ \A q \in Calls \ {r} : pc'[q] = pc[q] /\ job'[q] = job[q]
      /\ pc'[r] \in {"verify", "token"} /\ job'[r] = j
  BY <1>1 DEF Arrive, docVars, Goto, KeyInv, TypeOK, LateIsRefused
<1>3. LateIsRefused'
  <2> SUFFICES ASSUME NEW q \in late' 
               PROVE  job'[q].key \in dead /\ pc'[q] \in {"verify", "done", "lost"} /\ answer'[q] # "ok"
    BY <1>2 DEF LateIsRefused
  <2>1. CASE q = r
    <3>1. j.key \in dead
      BY <2>1, <1>1, <1>2
    <3>2. j.op = "use"
      BY <3>1, Texts DEF KeyInv, TypeOK
    <3> QED
      BY <2>1, <3>1, <3>2, <1>1, <1>2 DEF Goto, KeyInv, TypeOK, IdleIsFresh
  <2>2. CASE q # r
    BY <2>2, <1>1, <1>2 DEF KeyInv, TypeOK, LateIsRefused
  <2> QED
    BY <2>1, <2>2
<1>4. KeysAreStored' /\ StoredIsHeldOrDead' /\ IdleIsFresh' /\ ToldHaveEnded'
  BY <1>2 DEF KeyInv, TypeOK, KeysAreStored, StoredIsHeldOrDead, IdleIsFresh, ToldHaveEnded
<1> QED
  BY <1>2, <1>3, <1>4 DEF KeyInv

\* The steps that change no document.
LEMMA KeyQuiet ==
  ASSUME KeyInv, TypeOK', NEW r \in Calls,
         \/ VerifyIdToken(r) \/ EnsureAccount(r) \/ Registered(r) \/ ReadRotated(r)
         \/ GetAccount(r) \/ FirebaseFails(r)
  PROVE  KeyInv'
<1>1. /\ UNCHANGED <<account, dead, told, late, job>>
      /\ \A q \in Calls \ {r} : pc'[q] = pc[q] /\ answer'[q] = answer[q]
      /\ pc[r] \notin {"idle", "done", "lost"}
      /\ pc'[r] \notin {"idle", "stored", "verify"}
      /\ pc[r] = "stored" => pc'[r] = "done"
      /\ pc[r] # "verify" \/ (pc'[r] = "done" /\ answer'[r] # "ok")
  BY DEF VerifyIdToken, EnsureAccount, Registered, ReadRotated, GetAccount, FirebaseFails, AfterGuard,
         Goto, Reply, callVars, docVars, pastVars, KeyInv, TypeOK
<1>2. r \in late => pc[r] = "verify"
  BY <1>1 DEF KeyInv, LateIsRefused
<1>3. r \notin told
  BY <1>1 DEF KeyInv, ToldHaveEnded
<1> QED
  BY <1>1, <1>2, <1>3, KeyStep

LEMMA KeyVerify ==
  ASSUME KeyInv, TypeOK', NEW r \in Calls, VerifyApiKey(r)
  PROVE  KeyInv'
<1>1. /\ UNCHANGED <<account, dead, told, late, job>>
      /\ \A q \in Calls \ {r} : pc'[q] = pc[q] /\ answer'[q] = answer[q]
      /\ pc[r] = "verify" /\ pc'[r] = "done"
      /\ answer'[r] = IF ready /\ Accepts(r) THEN "ok" ELSE "unauthorized"
  BY DEF VerifyApiKey, Reply, Goto, callVars, docVars, pastVars, KeyInv, TypeOK
<1>2. r \in late => ~ Accepts(r)
  BY DEF Accepts, KeyInv, LateIsRefused
<1>3. r \notin told
  BY <1>1 DEF KeyInv, ToldHaveEnded
<1> QED
  BY <1>1, <1>2, <1>3, KeyStep

LEMMA KeyRegister ==
  ASSUME KeyInv, TypeOK', NEW r \in Calls, Register(r)
  PROVE  KeyInv'
<1>1. /\ account' = NoKey /\ dead' = dead \cup ({account} \cap Calls)
      /\ UNCHANGED <<told, late, job, answer>>
      /\ \A q \in Calls \ {r} : pc'[q] = pc[q]
      /\ pc[r] = "register" /\ pc'[r] = "registered"
  BY Texts DEF Register, Put, Goto, callVars, pastVars, KeyInv, TypeOK
<1> QED
  BY <1>1, Texts DEF KeyInv, TypeOK, KeysAreStored, StoredIsHeldOrDead, LateIsRefused, IdleIsFresh, ToldHaveEnded

LEMMA KeyStore ==
  ASSUME KeyInv, TypeOK', NEW r \in Calls, StoreKey(r)
  PROVE  KeyInv'
<1>1. /\ account' = r /\ dead' = dead \cup (({account} \cap Calls) \ {r})
      /\ UNCHANGED <<told, late, job, answer>>
      /\ \A q \in Calls \ {r} : pc'[q] = pc[q]
      /\ pc[r] = "store" /\ pc'[r] = "stored"
  BY DEF StoreKey, SetKey, Put, Goto, callVars, pastVars, KeyInv, TypeOK
<1>2. r \notin dead /\ account # r
  BY <1>1 DEF KeyInv, KeysAreStored
<1> QED
  BY <1>1, <1>2 DEF KeyInv, TypeOK, KeysAreStored, StoredIsHeldOrDead, LateIsRefused, IdleIsFresh, ToldHaveEnded

LEMMA KeyTell ==
  ASSUME KeyInv, TypeOK', NEW r \in Calls, TellKey(r)
  PROVE  KeyInv'
<1>1. /\ UNCHANGED <<account, dead, late, job>> /\ told' = told \cup {r}
      /\ \A q \in Calls \ {r} : pc'[q] = pc[q] /\ answer'[q] = answer[q]
      /\ pc[r] = "stored" /\ pc'[r] = "done"
  BY DEF TellKey, Reply, Goto, callVars, docVars, pastVars, KeyInv, TypeOK
<1> QED
  BY <1>1 DEF KeyInv, TypeOK, KeysAreStored, StoredIsHeldOrDead, LateIsRefused, IdleIsFresh, ToldHaveEnded

LEMMA KeyCrash ==
  ASSUME KeyInv, TypeOK', Crash
  PROVE  KeyInv'
<1>1. /\ UNCHANGED <<account, dead, told, late, job, answer>>
      /\ \A q \in Calls : pc'[q] = pc[q] \/ (pc[q] # "idle" /\ pc'[q] = "lost")
  BY DEF Crash, Open, Resting, docVars, pastVars
<1> QED
  BY <1>1 DEF KeyInv, TypeOK, KeysAreStored, StoredIsHeldOrDead, LateIsRefused, IdleIsFresh, ToldHaveEnded

LEMMA KeyNext == KeyInv /\ [Next]_vars => KeyInv'
<1> SUFFICES ASSUME KeyInv, [Next]_vars PROVE KeyInv'
  OBVIOUS
<1>1. TypeOK'
  BY TypeNext DEF KeyInv
<1>2. CASE UNCHANGED vars
  BY <1>2 DEF vars, KeyInv, TypeOK, KeysAreStored, StoredIsHeldOrDead, LateIsRefused, IdleIsFresh, ToldHaveEnded
<1> QED
  BY <1>1, <1>2, KeyArrive, KeyQuiet, KeyVerify, KeyRegister, KeyStore, KeyTell, KeyCrash
  DEF Next, Handle

LEMMA KeyAlways == Spec => []KeyInv
BY KeyInit, KeyNext, PTL DEF Spec

\* Every variable keeps its type.
THEOREM AccountTypesAreKept == Spec => []TypeOK
<1>1. KeyInv => TypeOK
  BY DEF KeyInv
<1> QED
  BY <1>1, KeyAlways, PTL

\* A key that was replaced or erased is dead for good: it never comes back, and
\* no call that comes in with it is let in.
THEOREM RevocationIsFinal == Spec => []DeadKeysStayDead
<1>1. KeyInv => DeadKeysStayDead
  BY DEF KeyInv, LateIsRefused, DeadKeysStayDead
<1> QED
  BY <1>1, KeyAlways, PTL

\* A key that was handed out is the one in force until another is stored, or
\* until a first call of the account erases it.
THEOREM ToldKeysAreStored == Spec => []ToldKeyIsHeldOrDead
<1>1. KeyInv => ToldKeyIsHeldOrDead
  BY DEF KeyInv, TypeOK, StoredIsHeldOrDead, ToldKeyIsHeldOrDead
<1> QED
  BY <1>1, KeyAlways, PTL

\* Once the account is there and no call is about to register it, none will
\* be, and a key is only ever replaced by a key.
THEOREM SettledAccountsKeepTheirKey == Spec => SettledAccountKeepsAKey
<1>1. TypeOK /\ [Next]_vars =>
        [account # Absent /\ Registering = {} =>
           Registering' = {} /\ (account \in Calls => account' \in Calls)]_vars
  <2> SUFFICES ASSUME TypeOK, Next, account # Absent, Registering = {}
               PROVE  Registering' = {} /\ (account \in Calls => account' \in Calls)
    OBVIOUS
  <2> USE DEF TypeOK, Registering, Goto, Reply, callVars, docVars, pastVars
  <2>1. ASSUME NEW r \in Calls, Arrive(r)
        PROVE  Registering' = {} /\ account' = account
    BY <2>1 DEF Arrive
  <2>2. ASSUME NEW r \in Calls, ~ Register(r), ~ StoreKey(r), Handle(r) \/ FirebaseFails(r)
        PROVE  Registering' = {} /\ account' = account
    BY <2>2 DEF Handle, VerifyIdToken, EnsureAccount, Registered, ReadRotated, TellKey, GetAccount,
                VerifyApiKey, FirebaseFails, AfterGuard
  <2>3. ASSUME NEW r \in Calls, StoreKey(r)
        PROVE  Registering' = {} /\ account' = r
    BY <2>3 DEF StoreKey, SetKey, Put
  <2>4. ASSUME NEW r \in Calls, Register(r)
        PROVE  FALSE
    BY <2>4 DEF Register
  <2>5. ASSUME Crash
        PROVE  Registering' = {} /\ account' = account
    BY <2>5 DEF Crash
  <2> QED
    BY <2>1, <2>2, <2>3, <2>4, <2>5 DEF Next
<1>2. Spec => []TypeOK
  BY AccountTypesAreKept
<1> QED
  BY <1>1, <1>2, PTL DEF Spec, SettledAccountKeepsAKey
-----------------------------------------------------------------------------
(* A call that no other has crossed. *)

Apart == \A r \in Open \ crossed : Open \subseteq {r}

KnowsTheKey(r) ==
  /\ pc[r] = "store" => (rotated[r] <=> account \in Calls)
  /\ pc[r] = "stored" \/ r \in told => (rotated[r] <=> before[r] \in Calls)

ReplacedIsDead(r) ==
  pc[r] = "stored" \/ r \in told => before[r] \in dead \/ before[r] \notin Calls

AloneInv ==
  /\ Apart
  /\ \A r \in Calls \ crossed : KnowsTheKey(r)
  /\ \A r \in Calls : ReplacedIsDead(r)

LEMMA AloneInit == Init => AloneInv
BY DEF Init, AloneInv, Apart, KnowsTheKey, ReplacedIsDead, Open, Resting

\* A step of r that brings up no open call.
LEMMA ApartStep ==
  ASSUME Apart, Open' \subseteq Open, crossed' = crossed
  PROVE  Apart'
BY DEF Apart

\* What another call does, to one that it leaves alone.
LEMMA AloneOthers ==
  ASSUME NEW r \in Calls, NEW q \in Calls \ {r}, KeyInv, AloneInv,
         pc[r] \notin Resting, crossed' = crossed, UNCHANGED told \/ told' = told \cup {r},
         pc'[q] = pc[q], rotated'[q] = rotated[q], before'[q] = before[q],
         dead \subseteq dead'
  PROVE  /\ q \notin crossed => KnowsTheKey(q)'
         /\ ReplacedIsDead(q)'
<1>1. ReplacedIsDead(q)'
  BY DEF AloneInv, ReplacedIsDead
<1>2. ASSUME q \notin crossed, pc[q] = "store" PROVE FALSE
  BY <1>2 DEF AloneInv, Apart, Open, Resting
<1> QED
  BY <1>1, <1>2 DEF AloneInv, KnowsTheKey

LEMMA AloneArrive ==
  ASSUME KeyInv, AloneInv, NEW r \in Calls, Arrive(r)
  PROVE  AloneInv'
<1>1. /\ pc[r] = "idle" /\ r \notin told /\ pc'[r] \in {"verify", "token"}
      /\ \A q \in Calls \ {r} : pc'[q] = pc[q]
      /\ UNCHANGED <<rotated, account, before, dead, told>>
      /\ crossed' = crossed \cup (IF Open = {} THEN {} ELSE Open \cup {r})
  BY DEF Arrive, Goto, docVars, KeyInv, TypeOK, IdleIsFresh
<1>2. Open' = Open \cup {r}
  BY <1>1 DEF Open, Resting
<1>3. Apart'
  BY <1>1, <1>2 DEF Apart
<1>4. \A q \in Calls \ crossed' : KnowsTheKey(q)'
  BY <1>1 DEF AloneInv, KnowsTheKey
<1>5. \A q \in Calls : ReplacedIsDead(q)'
  BY <1>1 DEF AloneInv, ReplacedIsDead
<1> QED
  BY <1>3, <1>4, <1>5 DEF AloneInv

LEMMA AloneQuiet ==
  ASSUME KeyInv, AloneInv, NEW r \in Calls,
         \/ VerifyIdToken(r) \/ EnsureAccount(r) \/ Register(r) \/ Registered(r)
         \/ GetAccount(r) \/ VerifyApiKey(r) \/ FirebaseFails(r)
  PROVE  AloneInv'
<1>1. /\ pc[r] \notin Resting /\ pc'[r] \notin {"store", "stored"} /\ r \notin told
      /\ \A q \in Calls \ {r} : pc'[q] = pc[q]
      /\ UNCHANGED <<rotated, before, told, crossed>>
      /\ dead \subseteq dead'
      /\ pc[r] # "register" => account' = account
  <2>1. pc[r] \in {"token", "ensure", "register", "registered", "rotate", "store", "stored", "get",
                   "verify"}
    BY DEF VerifyIdToken, EnsureAccount, Register, Registered, GetAccount, VerifyApiKey, FirebaseFails
  <2>2. /\ \A q \in Calls \ {r} : pc'[q] = pc[q]
        /\ pc'[r] \notin {"store", "stored"}
        /\ UNCHANGED <<rotated, before, told, crossed>>
        /\ dead \subseteq dead'
        /\ pc[r] # "register" => account' = account
    BY DEF VerifyIdToken, EnsureAccount, Register, Registered, GetAccount, VerifyApiKey, FirebaseFails,
           AfterGuard, Put, Goto, Reply, callVars, docVars, pastVars, KeyInv, TypeOK
  <2>3. r \in told => pc[r] = "stored" \/ pc[r] \in {"done", "lost"}
    BY DEF KeyInv, StoredIsHeldOrDead, KeysAreStored
  <2>4. pc[r] = "stored" => r \notin told
    BY DEF KeyInv, ToldHaveEnded
  <2> QED
    BY <2>1, <2>2, <2>3, <2>4 DEF Resting
<1>2. Apart'
  BY <1>1, ApartStep DEF AloneInv, Open
<1>3. \A q \in Calls \ {r} : (q \notin crossed => KnowsTheKey(q)') /\ ReplacedIsDead(q)'
  BY <1>1, AloneOthers
<1>4. KnowsTheKey(r)' /\ ReplacedIsDead(r)'
  BY <1>1 DEF KnowsTheKey, ReplacedIsDead
<1> QED
  BY <1>1, <1>2, <1>3, <1>4 DEF AloneInv

LEMMA AloneRotate ==
  ASSUME KeyInv, AloneInv, NEW r \in Calls, ReadRotated(r)
  PROVE  AloneInv'
<1>1. /\ pc[r] = "rotate" /\ pc'[r] = "store" /\ r \notin told
      /\ \A q \in Calls \ {r} : pc'[q] = pc[q] /\ rotated'[q] = rotated[q]
      /\ rotated'[r] <=> account \in Calls
      /\ UNCHANGED <<account, before, dead, told, crossed>>
  <2>1. rotated'[r] = HasKey(account)
    BY DEF ReadRotated, KeyInv, TypeOK
  <2>2. rotated'[r] <=> account \in Calls
    BY <2>1 DEF HasKey
  <2> QED
    BY <2>2 DEF ReadRotated, Goto, docVars, pastVars, KeyInv, TypeOK, ToldHaveEnded
<1>2. Apart'
  BY <1>1, ApartStep DEF AloneInv, Open, Resting
<1>3. \A q \in Calls \ {r} : (q \notin crossed => KnowsTheKey(q)') /\ ReplacedIsDead(q)'
  BY <1>1, AloneOthers DEF Resting
<1>4. KnowsTheKey(r)' /\ ReplacedIsDead(r)'
  BY <1>1 DEF KnowsTheKey, ReplacedIsDead
<1> QED
  BY <1>1, <1>2, <1>3, <1>4 DEF AloneInv

LEMMA AloneStore ==
  ASSUME KeyInv, AloneInv, NEW r \in Calls, StoreKey(r)
  PROVE  AloneInv'
<1>1. /\ pc[r] = "store" /\ pc'[r] = "stored" /\ r \notin told
      /\ \A q \in Calls \ {r} : pc'[q] = pc[q] /\ before'[q] = before[q]
      /\ before'[r] = account
      /\ dead' = dead \cup (({account} \cap Calls) \ {r})
      /\ UNCHANGED <<rotated, told, crossed>>
  BY DEF StoreKey, SetKey, Put, Goto, callVars, pastVars, KeyInv, TypeOK, ToldHaveEnded
<1>2. Apart'
  BY <1>1, ApartStep DEF AloneInv, Open, Resting
<1>3. \A q \in Calls \ {r} : (q \notin crossed => KnowsTheKey(q)') /\ ReplacedIsDead(q)'
  BY <1>1, AloneOthers DEF Resting
<1>4. account # r
  BY <1>1 DEF KeyInv, KeysAreStored
<1>5. r \notin crossed => KnowsTheKey(r)'
  BY <1>1 DEF AloneInv, KnowsTheKey
<1>6. ReplacedIsDead(r)'
  BY <1>1, <1>4 DEF ReplacedIsDead
<1> QED
  BY <1>1, <1>2, <1>3, <1>5, <1>6 DEF AloneInv

LEMMA AloneTell ==
  ASSUME KeyInv, AloneInv, NEW r \in Calls, TellKey(r)
  PROVE  AloneInv'
<1>1. /\ pc[r] = "stored" /\ pc'[r] = "done"
      /\ \A q \in Calls \ {r} : pc'[q] = pc[q]
      /\ told' = told \cup {r}
      /\ UNCHANGED <<account, rotated, before, dead, crossed>>
  BY DEF TellKey, Reply, Goto, callVars, docVars, pastVars, KeyInv, TypeOK
<1>2. Apart'
  BY <1>1, ApartStep DEF AloneInv, Open, Resting
<1>3. \A q \in Calls \ {r} : (q \notin crossed => KnowsTheKey(q)') /\ ReplacedIsDead(q)'
  BY <1>1, AloneOthers DEF Resting
<1>4. (r \notin crossed => KnowsTheKey(r)') /\ ReplacedIsDead(r)'
  BY <1>1 DEF AloneInv, KnowsTheKey, ReplacedIsDead
<1> QED
  BY <1>1, <1>2, <1>3, <1>4 DEF AloneInv

LEMMA AloneCrash ==
  ASSUME KeyInv, AloneInv, Crash
  PROVE  AloneInv'
<1>1. /\ \A q \in Calls : pc'[q] = pc[q] \/ pc'[q] = "lost"
      /\ Open' = {}
      /\ UNCHANGED <<rotated, account, before, dead, told, crossed>>
  BY DEF Crash, Open, Resting, docVars, pastVars
<1> QED
  BY <1>1 DEF AloneInv, Apart, KnowsTheKey, ReplacedIsDead

LEMMA AloneNext == KeyInv /\ AloneInv /\ [Next]_vars => AloneInv'
<1> SUFFICES ASSUME KeyInv, AloneInv, [Next]_vars PROVE AloneInv'
  OBVIOUS
<1>1. CASE UNCHANGED vars
  BY <1>1 DEF vars, AloneInv, Apart, KnowsTheKey, ReplacedIsDead, Open
<1> QED
  BY <1>1, AloneArrive, AloneQuiet, AloneRotate, AloneStore, AloneTell, AloneCrash DEF Next, Handle

\* A creation that no other call crosses answers `rotated' exactly when it has
\* put an earlier key out of force.
THEOREM RotationsAreTold == Spec => []RotationIsTold
<1>1. KeyInv /\ AloneInv => RotationIsTold
  BY DEF KeyInv, TypeOK, AloneInv, KnowsTheKey, ReplacedIsDead, RotationIsTold
<1>2. Init => KeyInv /\ AloneInv
  BY KeyInit, AloneInit
<1>3. KeyInv /\ AloneInv /\ [Next]_vars => (KeyInv /\ AloneInv)'
  BY KeyNext, AloneNext
<1> QED
  BY <1>1, <1>2, <1>3, PTL DEF Spec
-----------------------------------------------------------------------------
(* Who is let in, and why. *)

\* A key can be shown once its owner was told.
ToldAreShown == \A r \in Calls : job[r].key \in Calls => job[r].key \in told

UsersVerify == \A r \in Calls : job[r].op = "use" => pc[r] \in {"verify", "done", "lost"}

AnsweredHaveEnded == \A r \in Calls : answer[r] # "none" => pc[r] \in {"done", "lost"}

\* A service that came up without Firebase lets nobody past the token.
NobodyWithoutFirebase ==
  crashes = 0 /\ ~ ready =>
    /\ told = {}
    /\ \A r \in Calls : pc[r] \in {"idle", "token", "verify", "done", "lost"}

CallInv ==
  /\ KeyInv
  /\ ToldAreShown
  /\ UsersVerify
  /\ AnsweredHaveEnded
  /\ NobodyWithoutFirebase
  /\ OwnersAreLetIn

LEMMA CallInit == Init => CallInv
<1> SUFFICES ASSUME Init PROVE CallInv
  OBVIOUS
<1>1. \A r \in Calls : job[r].key \notin Calls /\ job[r].op # "use"
  BY Texts DEF Init, NoJob
<1> QED
  BY <1>1, KeyInit
  DEF Init, CallInv, ToldAreShown, UsersVerify, AnsweredHaveEnded, NobodyWithoutFirebase, OwnersAreLetIn

\* A step of the call r that is neither its arrival nor its verification.
LEMMA CallStep ==
  ASSUME CallInv, KeyInv', NEW r \in Calls, job[r].op # "use",
         pc[r] \in {"token", "ensure", "register", "registered", "rotate", "store", "stored", "get"},
         \A q \in Calls \ {r} : pc'[q] = pc[q] /\ answer'[q] = answer[q],
         UNCHANGED <<job, ready, crashes>>, told \subseteq told', dead \subseteq dead',
         failures' \in {failures, failures + 1},
         told' # told => pc[r] = "stored",
         \/ answer'[r] = answer[r] /\ pc'[r] \in {"ensure", "register", "registered", "rotate",
                                                  "store", "stored", "get"}
            /\ (pc[r] = "token" => ready)
         \/ pc'[r] = "done"
  PROVE  CallInv'
<1>1. job[r].key \notin Calls
  BY Texts DEF CallInv, KeyInv, TypeOK, NoJob
<1>2. ToldAreShown' /\ UsersVerify' /\ AnsweredHaveEnded'
  BY DEF CallInv, ToldAreShown, UsersVerify, AnsweredHaveEnded
<1>3. NobodyWithoutFirebase'
  BY DEF CallInv, NobodyWithoutFirebase
<1>4. OwnersAreLetIn'
  <2>1. failures' = 0 => failures = 0
    BY DEF CallInv, KeyInv, TypeOK
  <2> QED
    BY <1>1, <2>1 DEF CallInv, OwnersAreLetIn
<1> QED
  BY <1>2, <1>3, <1>4 DEF CallInv

\* The steps of a call with a token.
LEMMA TokenSteps ==
  ASSUME CallInv, NEW r \in Calls,
         \/ VerifyIdToken(r) \/ EnsureAccount(r) \/ Register(r) \/ Registered(r)
         \/ ReadRotated(r) \/ StoreKey(r) \/ TellKey(r) \/ GetAccount(r)
         \/ FirebaseFails(r) /\ pc[r] # "verify"
  PROVE  /\ job[r].op # "use"
         /\ pc[r] \in {"token", "ensure", "register", "registered", "rotate", "store", "stored", "get"}
         /\ \A q \in Calls \ {r} : pc'[q] = pc[q] /\ answer'[q] = answer[q]
         /\ UNCHANGED <<job, ready, crashes>> /\ told \subseteq told' /\ dead \subseteq dead'
         /\ failures' \in {failures, failures + 1}
         /\ told' # told => pc[r] = "stored"
         /\ \/ answer'[r] = answer[r] /\ pc'[r] \in {"ensure", "register", "registered", "rotate",
                                                     "store", "stored", "get"}
               /\ (pc[r] = "token" => ready)
            \/ pc'[r] = "done"
<1>1. /\ pc[r] \in {"token", "ensure", "register", "registered", "rotate", "store", "stored", "get"}
      /\ UNCHANGED <<job, ready, crashes>>
      /\ failures' \in {failures, failures + 1}
  BY DEF VerifyIdToken, EnsureAccount, Register, Registered, ReadRotated, StoreKey, TellKey, GetAccount,
         FirebaseFails, callVars, boundVars
<1>2. job[r].op # "use"
  BY <1>1 DEF CallInv, UsersVerify
<1>3. /\ told \subseteq told' /\ dead \subseteq dead'
      /\ told' # told => pc[r] = "stored"
  BY DEF VerifyIdToken, EnsureAccount, Register, Registered, ReadRotated, StoreKey, TellKey, GetAccount,
         FirebaseFails, docVars, SetKey, Put
<1>4. /\ \A q \in Calls \ {r} : pc'[q] = pc[q] /\ answer'[q] = answer[q]
      /\ \/ answer'[r] = answer[r] /\ pc'[r] \in {"ensure", "register", "registered", "rotate",
                                                  "store", "stored", "get"}
            /\ (pc[r] = "token" => ready)
         \/ pc'[r] = "done"
  BY DEF VerifyIdToken, EnsureAccount, Register, Registered, ReadRotated, StoreKey, TellKey, GetAccount,
         FirebaseFails, AfterGuard, Goto, Reply, CallInv, KeyInv, TypeOK
<1> QED
  BY <1>1, <1>2, <1>3, <1>4

LEMMA CallArrive ==
  ASSUME CallInv, KeyInv', NEW r \in Calls, Arrive(r)
  PROVE  CallInv'
<1>1. PICK j \in Jobs : /\ j.key \in Calls => j.key \in told
                        /\ job' = [job EXCEPT ![r] = j]
                        /\ Goto(r, IF j.op = "use" THEN "verify" ELSE "token")
  BY DEF Arrive
<1>2. /\ pc[r] = "idle" /\ answer[r] = "none"
      /\ UNCHANGED <<answer, dead, told, ready, crashes, failures>>
      /\ job'[r] = j
      /\ pc'[r] = IF j.op = "use" THEN "verify" ELSE "token"
      /\ \A q \in Calls \ {r} : pc'[q] = pc[q] /\ job'[q] = job[q]
  BY <1>1 DEF Arrive, docVars, boundVars, Goto, CallInv, KeyInv, TypeOK, IdleIsFresh
<1>3. ToldAreShown' /\ UsersVerify'
  BY <1>1, <1>2 DEF CallInv, ToldAreShown, UsersVerify
<1>4. AnsweredHaveEnded' /\ NobodyWithoutFirebase' /\ OwnersAreLetIn'
  BY <1>2 DEF CallInv, AnsweredHaveEnded, NobodyWithoutFirebase, OwnersAreLetIn
<1> QED
  BY <1>3, <1>4 DEF CallInv

\* The guard of the API key ends, with an answer or a failure.
LEMMA VerifySteps ==
  ASSUME CallInv, NEW r \in Calls, pc[r] = "verify", VerifyApiKey(r) \/ FirebaseFails(r)
  PROVE  /\ pc'[r] = "done" /\ answer[r] = "none"
         /\ \A q \in Calls \ {r} : pc'[q] = pc[q] /\ answer'[q] = answer[q]
         /\ UNCHANGED <<job, account, dead, told, ready, crashes>>
         /\ \/ failures' = failures + 1 /\ answer'[r] = "unauthorized"
            \/ failures' = failures /\ answer'[r] = IF ready /\ Accepts(r) THEN "ok" ELSE "unauthorized"
BY DEF VerifyApiKey, FirebaseFails, Goto, Reply, callVars, docVars, boundVars,
       CallInv, KeyInv, TypeOK, AnsweredHaveEnded

LEMMA CallVerify ==
  ASSUME CallInv, KeyInv', NEW r \in Calls, pc[r] = "verify", VerifyApiKey(r) \/ FirebaseFails(r)
  PROVE  CallInv'
<1>1. ToldAreShown' /\ UsersVerify' /\ AnsweredHaveEnded'
  BY VerifySteps DEF CallInv, ToldAreShown, UsersVerify, AnsweredHaveEnded
<1>2. NobodyWithoutFirebase'
  BY VerifySteps DEF CallInv, NobodyWithoutFirebase
<1>3. OwnersAreLetIn'
  <2> SUFFICES ASSUME failures' = 0, crashes' = 0, NEW q \in Calls, job'[q].key \in Calls,
                      answer'[q] = "unauthorized"
               PROVE  job'[q].key \in dead'
    BY DEF OwnersAreLetIn
  <2>1. failures = 0 /\ failures' = failures /\ crashes = 0
    BY VerifySteps DEF CallInv, KeyInv, TypeOK
  <2>2. CASE q # r
    BY <2>1, <2>2, VerifySteps DEF CallInv, OwnersAreLetIn
  <2>3. CASE q = r
    <3>1. job[r].key \in told
      BY <2>3, VerifySteps DEF CallInv, ToldAreShown
    <3>2. ready
      BY <2>1, <3>1 DEF CallInv, NobodyWithoutFirebase
    <3>3. answer'[r] = IF ready /\ Accepts(r) THEN "ok" ELSE "unauthorized"
      BY <2>1, VerifySteps DEF CallInv, KeyInv, TypeOK
    <3>4. job[r].key # account
      BY <2>3, <3>2, <3>3, VerifySteps DEF Accepts
    <3>5. job[r].key \in dead
      BY <2>3, <3>1, <3>4, VerifySteps DEF CallInv, KeyInv, StoredIsHeldOrDead
    <3> QED
      BY <2>3, <3>5, VerifySteps
  <2> QED
    BY <2>2, <2>3
<1> QED
  BY <1>1, <1>2, <1>3 DEF CallInv

LEMMA CallCrash ==
  ASSUME CallInv, KeyInv', Crash
  PROVE  CallInv'
<1>1. /\ UNCHANGED <<account, dead, told, job, answer, failures>>
      /\ \A q \in Calls : pc'[q] = pc[q] \/ (pc[q] \notin Resting /\ pc'[q] = "lost")
      /\ crashes' # 0
  BY DEF Crash, Open, docVars, CallInv, KeyInv, TypeOK
<1> QED
  BY <1>1 DEF CallInv, ToldAreShown, UsersVerify, AnsweredHaveEnded, NobodyWithoutFirebase,
              OwnersAreLetIn

LEMMA CallNext == CallInv /\ [Next]_vars => CallInv'
<1> SUFFICES ASSUME CallInv, [Next]_vars PROVE CallInv'
  OBVIOUS
<1>1. KeyInv'
  BY KeyNext DEF CallInv
<1>2. CASE UNCHANGED vars
  BY <1>1, <1>2 DEF vars, CallInv, ToldAreShown, UsersVerify, AnsweredHaveEnded,
                    NobodyWithoutFirebase, OwnersAreLetIn
<1>3. ASSUME NEW r \in Calls, Handle(r) \/ FirebaseFails(r) PROVE CallInv'
  <2>1. CASE VerifyApiKey(r) \/ (FirebaseFails(r) /\ pc[r] = "verify")
    BY <1>1, <2>1, CallVerify DEF VerifyApiKey
  <2>2. CASE \/ VerifyIdToken(r) \/ EnsureAccount(r) \/ Register(r) \/ Registered(r)
             \/ ReadRotated(r) \/ StoreKey(r) \/ TellKey(r) \/ GetAccount(r)
             \/ FirebaseFails(r) /\ pc[r] # "verify"
    BY <1>1, <2>2, TokenSteps, CallStep
  <2> QED
    BY <1>3, <2>1, <2>2 DEF Handle
<1> QED
  BY <1>1, <1>2, <1>3, CallArrive, CallCrash DEF Next

LEMMA CallAlways == Spec => []CallInv
BY CallInit, CallNext, PTL DEF Spec

\* With neither a failure nor a restart, a client that was handed a key is
\* turned away only when the key is dead.
THEOREM OwnersAreAdmitted == Spec => []OwnersAreLetIn
<1>1. CallInv => OwnersAreLetIn
  BY DEF CallInv
<1> QED
  BY <1>1, CallAlways, PTL
-----------------------------------------------------------------------------
(* Accounts implements KeyRing. *)

InForce == IF account \in Calls THEN account ELSE NoKey

LEMMA RingInitially == Init => Ring!RingInit
BY Texts DEF Init, Ring!RingInit, Admitted

RingStep == [Ring!RingNext]_(Ring!ringVars)

\* Nothing a client could notice.
LEMMA RingStutters ==
  ASSUME UNCHANGED <<account, dead, told>>, \A q \in Calls : Admitted(q)' = Admitted(q)
  PROVE  RingStep
BY DEF RingStep, Ring!ringVars

\* A call that is not let in.
LEMMA NobodyAdmitted ==
  ASSUME NEW r \in Calls, job[r].op # "use", UNCHANGED job,
         \A q \in Calls \ {r} : answer'[q] = answer[q]
  PROVE  \A q \in Calls : Admitted(q)' = Admitted(q)
BY DEF Admitted

LEMMA RingIssue ==
  ASSUME CallInv, NEW r \in Calls, StoreKey(r)
  PROVE  RingStep
<1>1. /\ account' = r /\ dead' = dead \cup (({account} \cap Calls) \ {r})
      /\ pc[r] = "store" /\ UNCHANGED <<told, job, answer>>
  BY DEF StoreKey, SetKey, Put, callVars
<1>2. account # r /\ r \notin dead
  BY <1>1 DEF CallInv, KeyInv, KeysAreStored
<1>3. \A q \in Calls : Admitted(q)' = Admitted(q)
  BY <1>1 DEF Admitted
<1>4. InForce # r /\ InForce' = r /\ dead' = dead \cup ({InForce} \ {NoKey})
  BY <1>1, <1>2, Texts DEF InForce
<1>5. Ring!Issue(r)
  BY <1>1, <1>2, <1>3, <1>4 DEF Ring!Issue, InForce
<1> QED
  BY <1>5 DEF RingStep, Ring!RingNext

LEMMA RingErase ==
  ASSUME CallInv, NEW r \in Calls, Register(r)
  PROVE  RingStep
<1>1. /\ account' = NoKey /\ dead' = dead \cup ({account} \cap Calls)
      /\ UNCHANGED <<told, job, answer>>
  BY Texts DEF Register, Put, callVars
<1>2. \A q \in Calls : Admitted(q)' = Admitted(q)
  BY <1>1 DEF Admitted
<1>3. CASE account \in Calls
  <2>1. Ring!Erase
    BY <1>1, <1>2, <1>3, Texts DEF Ring!Erase
  <2> QED
    BY <2>1 DEF RingStep, Ring!RingNext
<1>4. CASE account \notin Calls
  BY <1>1, <1>2, <1>4, Texts DEF RingStep, Ring!ringVars
<1> QED
  BY <1>3, <1>4

LEMMA RingTell ==
  ASSUME CallInv, NEW r \in Calls, TellKey(r)
  PROVE  RingStep
<1>1. pc[r] = "stored" /\ UNCHANGED <<account, dead>> /\ told' = told \cup {r}
  BY DEF TellKey, docVars
<1>2. (account = r \/ r \in dead) /\ r \notin told
  BY <1>1 DEF CallInv, KeyInv, StoredIsHeldOrDead, ToldHaveEnded
<1>3. \A q \in Calls : Admitted(q)' = Admitted(q)
  BY TokenSteps, NobodyAdmitted
<1>4. Ring!Tell(r)
  BY <1>1, <1>2, <1>3 DEF Ring!Tell
<1> QED
  BY <1>4 DEF RingStep, Ring!RingNext

LEMMA RingAdmit ==
  ASSUME CallInv, NEW r \in Calls, pc[r] = "verify", VerifyApiKey(r) \/ FirebaseFails(r)
  PROVE  RingStep
<1>1. UNCHANGED <<account, dead, told, job>> /\ \A q \in Calls \ {r} : Admitted(q)' = Admitted(q)
  BY VerifySteps DEF Admitted
<1>2. Admitted(r) = NoKey
  BY VerifySteps DEF Admitted
<1>3. CASE answer'[r] = "ok" /\ job[r].op = "use"
  <2>1. Accepts(r)
    BY <1>3, VerifySteps
  <2>2. account \in Calls /\ account \in told /\ Admitted(r)' = account
    BY <1>1, <1>3, <2>1 DEF Accepts, Admitted, CallInv, ToldAreShown
  <2>3. [q \in Calls |-> Admitted(q)]' = [[q \in Calls |-> Admitted(q)] EXCEPT ![r] = account]
    BY <1>1, <2>2
  <2>4. Ring!Admit(r)
    BY <1>1, <1>2, <2>2, <2>3 DEF Ring!Admit
  <2> QED
    BY <2>4 DEF RingStep, Ring!RingNext
<1>4. CASE ~ (answer'[r] = "ok" /\ job[r].op = "use")
  <2>1. Admitted(r)' = NoKey
    BY <1>1, <1>4 DEF Admitted
  <2> QED
    BY <1>1, <1>2, <2>1, RingStutters
<1> QED
  BY <1>3, <1>4

LEMMA RingStepwise == CallInv /\ [Next]_vars => RingStep
<1> SUFFICES ASSUME CallInv, [Next]_vars PROVE RingStep
  OBVIOUS
<1>1. ASSUME NEW r \in Calls, Arrive(r) PROVE RingStep
  <2>1. /\ UNCHANGED <<account, dead, told, answer>> /\ answer[r] = "none"
        /\ \A q \in Calls \ {r} : job'[q] = job[q]
    BY <1>1 DEF Arrive, docVars, CallInv, KeyInv, TypeOK, IdleIsFresh
  <2>2. \A q \in Calls : Admitted(q)' = Admitted(q)
    BY <2>1 DEF Admitted
  <2> QED
    BY <2>1, <2>2, RingStutters
<1>2. ASSUME NEW r \in Calls,
             \/ VerifyIdToken(r) \/ EnsureAccount(r) \/ Registered(r) \/ ReadRotated(r)
             \/ GetAccount(r)
      PROVE  RingStep
  <2>1. UNCHANGED <<account, dead, told>>
    BY <1>2 DEF VerifyIdToken, EnsureAccount, Registered, ReadRotated, GetAccount, docVars
  <2>2. \A q \in Calls : Admitted(q)' = Admitted(q)
    BY <1>2, TokenSteps, NobodyAdmitted
  <2> QED
    BY <2>1, <2>2, RingStutters
<1>3. ASSUME NEW r \in Calls, FirebaseFails(r), pc[r] # "verify" PROVE RingStep
  <2>1. UNCHANGED <<account, dead, told>>
    BY <1>3 DEF FirebaseFails, docVars
  <2>2. \A q \in Calls : Admitted(q)' = Admitted(q)
    BY <1>3, TokenSteps, NobodyAdmitted
  <2> QED
    BY <2>1, <2>2, RingStutters
<1>4. ASSUME Crash \/ UNCHANGED vars PROVE RingStep
  <2>1. UNCHANGED <<account, dead, told, job, answer>>
    BY <1>4 DEF Crash, docVars, vars
  <2>2. \A q \in Calls : Admitted(q)' = Admitted(q)
    BY <2>1 DEF Admitted
  <2> QED
    BY <2>1, <2>2, RingStutters
<1>5. ASSUME NEW r \in Calls, Handle(r) PROVE RingStep
  <2>1. CASE StoreKey(r) \/ Register(r) \/ TellKey(r)
    BY <2>1, RingIssue, RingErase, RingTell
  <2>2. CASE \/ VerifyIdToken(r) \/ EnsureAccount(r) \/ Registered(r) \/ ReadRotated(r)
             \/ GetAccount(r)
    BY <1>2, <2>2
  <2>3. CASE VerifyApiKey(r)
    BY <2>3, RingAdmit DEF VerifyApiKey
  <2> QED
    BY <1>5, <2>1, <2>2, <2>3 DEF Handle
<1>6. ASSUME NEW r \in Calls, FirebaseFails(r) PROVE RingStep
  <2>1. CASE pc[r] = "verify"
    BY <1>6, <2>1, RingAdmit
  <2> QED
    BY <1>3, <1>6, <2>1
<1>7. CASE Next
  BY <1>1, <1>4, <1>5, <1>6, <1>7 DEF Next
<1> QED
  BY <1>4, <1>7

\* Whatever calls meet, fail or are cut off by a restart, keys come into force
\* and go out of it as KeyRing says, and callers are let in at an instant at
\* which their key is in force.
THEOREM ImplementsTheKeyRing == Spec => KeepsTheKeyRing
<1>1. CallInv /\ [Next]_vars => [Ring!RingNext]_(Ring!ringVars)
  BY RingStepwise DEF RingStep
<1> QED
  BY <1>1, CallAlways, RingInitially, PTL DEF Spec, KeepsTheKeyRing, Ring!RingSpec
=============================================================================
