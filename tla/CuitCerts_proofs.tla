-------------------------- MODULE CuitCerts_proofs --------------------------
(***************************************************************************)
(* What holds of the documents and files of every CUIT for any number of   *)
(* calls, accounts, failures and restarts.  CertInv has a part for every   *)
(* call (which operation is where, what it has read) and one for every     *)
(* CUIT; a step is at one call and at its CUIT, and Frame says that the    *)
(* others keep theirs.  On it stand GenInv, for the CUITs that are not      *)
(* torn, and PairInv, for those that are not spoilt.                       *)
(***************************************************************************)
EXTENDS CuitCerts, TLAPS

Op(r) == job[r].op

OpensslSteps == {"truncKey", "fillKey", "readKey", "truncCsr", "fillCsr"}

\* The operations that take a step.
Stage(r) ==
  /\ pc[r] = "read" => Op(r) \in {"create", "csr", "v1generate"}
  /\ pc[r] = "reread" => Op(r) = "v1generate"
  /\ pc[r] = "write" => Op(r) \in {"create", "v1generate"}
  /\ pc[r] = "own" => Op(r) \in {"v1renew", "upload", "v1upload"}
  /\ pc[r] = "decide" => Op(r) = "csr"
  /\ pc[r] \in OpensslSteps \cup {"deliver"} => Op(r) \in {"csr", "v1generate", "v1renew", "posGenerate"}
  /\ pc[r] = "status" => Op(r) \in {"csr", "v1generate", "v1renew", "upload", "v1upload"}
  /\ pc[r] \in {"truncCrt", "fillCrt", "fillGone"} => Op(r) \in Uploads
  /\ pc[r] = "unlink" => Op(r) = "upload" /\ answer[r] # "ok"

\* What a call knows.
CallOK(r) ==
  /\ pc[r] = "idle" => rec[r] = NoDoc
  /\ pc[r] # "idle" => job[r] \in Jobs
  /\ pc[r] # "done" => answer[r] # "ok"
  /\ Stage(r)
  /\ pc[r] \in {"truncCsr", "fillCsr"} => hand[r] \in Calls
  /\ rec[r] # NoDoc => <<rec[r].owner, Cuit(r)>> \in owners
  /\ rec[r].status = "pending_crt" => csr[Cuit(r)] # Absent
  /\ pc[r] = "status" /\ Op(r) \notin Uploads => csr[Cuit(r)] # Absent
  /\ pc[r] # "idle" /\ job[r].file \in Calls => <<Cuit(r), job[r].file>> \in delivered
  /\ (pc[r] \in Changing \/ answer[r] = "ok") /\ Op(r) \notin PosOps
       => <<job[r].account, Cuit(r)>> \in owners

CuitOK(c) ==
  /\ doc[c] # NoDoc => <<doc[c].owner, c>> \in owners
  /\ doc[c].status = "pending_crt" => csr[c] # Absent
  /\ crt[c] \in Calls => <<c, crt[c]>> \in delivered
  /\ \A a \in Accounts : <<a, c>> \in owners => doc[c] # NoDoc
  /\ \A k \in Calls : <<c, k>> \in delivered => csr[c] # Absent

CertInv ==
  /\ TypeOK
  /\ \A r \in Calls : CallOK(r)
  /\ \A c \in Cuits : CuitOK(c)

LEMMA Texts ==
  /\ Absent \notin Calls /\ Empty \notin Calls /\ Other \notin Calls
  /\ Absent # Empty /\ Absent # Other /\ Empty # Other
  /\ NoDoc \in Docs /\ NoDoc.status = Absent /\ NoDoc.owner = NoAccount
  /\ \A d \in Docs : d # NoDoc => d.owner \in Accounts /\ d.status \in Statuses
  /\ \A d \in Docs : d.owner \in Accounts => d # NoDoc
BY CallsAreNoTexts, NoAccountIsNone DEF Absent, Empty, Other, Docs, NoDoc, Statuses

LEMMA JobParts ==
  ASSUME NEW j \in Jobs
  PROVE  /\ j.op \in Ops /\ j.cuit \in Cuits
         /\ j.account \in Accounts \cup {NoAccount}
         /\ j.file \in {Absent, Other} \cup Calls
         /\ j.op \notin PosOps => j.account \in Accounts
         /\ j.op \notin Uploads => j.file = Absent
BY DEF Jobs

LEMMA CertInit == Init => CertInv
<1> SUFFICES ASSUME Init PROVE CertInv
  OBVIOUS
<1>1. TypeOK
  BY Texts, BoundsAreNatural DEF Init, TypeOK, Phases, Kinds
<1>2. ASSUME NEW r \in Calls PROVE CallOK(r)
  BY Texts DEF Init, CallOK, Stage, OpensslSteps, Changing, NoDoc, Absent
<1>3. ASSUME NEW c \in Cuits PROVE CuitOK(c)
  BY Texts DEF Init, CuitOK, NoDoc, Absent
<1> QED
  BY <1>1, <1>2, <1>3 DEF CertInv

\* What a step of r leaves alone keeps its part of the invariant.
LEMMA Frame ==
  ASSUME CertInv, TypeOK', NEW r \in Calls, pc[r] # "idle", job' = job,
         \A q \in Calls \ {r} :
           /\ UNCHANGED <<rec[q], hand[q], answer[q]>>
           /\ pc'[q] = pc[q] \/ (pc[q] = "fillCrt" /\ pc'[q] = "fillGone"),
         \A c \in Cuits \ {Cuit(r)} : UNCHANGED <<doc[c], csr[c], crt[c]>>,
         csr[Cuit(r)] # Absent => csr'[Cuit(r)] # Absent,
         owners \subseteq owners', delivered \subseteq delivered',
         \A c \in Cuits \ {Cuit(r)} : \A a \in Accounts :
           <<a, c>> \in owners' => <<a, c>> \in owners,
         \A c \in Cuits \ {Cuit(r)} : \A k \in Calls :
           <<c, k>> \in delivered' => <<c, k>> \in delivered,
         CallOK(r)', CuitOK(Cuit(r))'
  PROVE  CertInv'
<1>1. \A c \in Cuits : csr[c] # Absent => csr'[c] # Absent
  OBVIOUS
<1>2. ASSUME NEW q \in Calls PROVE CallOK(q)'
  <2>1. CASE q = r
    BY <2>1
  <2>2. CASE q # r
    <3>1. /\ CallOK(q) /\ UNCHANGED <<rec[q], hand[q], answer[q], job[q]>>
          /\ pc'[q] = pc[q] \/ (pc[q] = "fillCrt" /\ pc'[q] = "fillGone")
      BY <2>2 DEF CertInv
    <3>2. rec[q] # NoDoc => Cuit(q) \in Cuits
      BY <3>1, JobParts DEF CallOK, Cuit
    <3>3. pc[q] # "idle" => Cuit(q) \in Cuits
      BY <3>1, JobParts DEF CallOK, Cuit
    <3>4. Stage(q)'
      BY <3>1 DEF CallOK, Stage, Op, OpensslSteps
    <3>5. NoDoc.status # "pending_crt"
      BY Texts DEF Absent
    <3>6. rec'[q].status = "pending_crt" => csr'[Cuit(q)] # Absent
      BY <3>1, <3>2, <3>5, <1>1 DEF CallOK
    <3> QED
      BY <3>1, <3>2, <3>3, <3>4, <3>6, <1>1 DEF CallOK, Cuit, Op, Changing
  <2> QED
    BY <2>1, <2>2
<1>3. ASSUME NEW c \in Cuits PROVE CuitOK(c)'
  <2>1. CASE c = Cuit(r)
    BY <2>1 DEF Cuit
  <2>2. CASE c # Cuit(r)
    BY <2>2 DEF CertInv, CuitOK
  <2> QED
    BY <2>1, <2>2
<1> QED
  BY <1>2, <1>3 DEF CertInv
-----------------------------------------------------------------------------
(* Types. *)

LEMMA TypeArrive ==
  ASSUME CertInv, NEW r \in Calls, Arrive(r)
  PROVE  TypeOK'
<1>1. PICK j \in Jobs : /\ job' = [job EXCEPT ![r] = j]
                        /\ IF j.op \in Uploads /\ j.file = Absent
                           THEN Reply(r, "badRequest") /\ UNCHANGED spoilt
                           ELSE /\ Goto(r, First(j.op))
                                /\ spoilt' = spoilt \cup
                                     (IF At(j.cuit) # {} \/ Misplaced(j) THEN {j.cuit} ELSE {})
                                /\ UNCHANGED answer
  BY DEF Arrive
<1>2. spoilt' \subseteq Cuits
  BY <1>1, JobParts DEF CertInv, TypeOK
<1>3. First(j.op) \in Phases
  BY DEF First, Phases
<1>4. pc' \in [Calls -> Phases] /\ answer' \in [Calls -> Kinds] /\ job' \in [Calls -> Jobs \cup {NoJob}]
  BY <1>1, <1>3 DEF CertInv, TypeOK, Reply, Goto, Phases, Kinds, Refusals
<1> QED
  BY <1>2, <1>4 DEF Arrive, CertInv, TypeOK, docVars, keyVars, crtVars, faultVars

\* A CUIT a call is at.
LEMMA OpenCall ==
  ASSUME CertInv, NEW r \in Calls, pc[r] # "idle"
  PROVE  /\ job[r] \in Jobs /\ Cuit(r) \in Cuits /\ Op(r) \in Ops
         /\ Op(r) \notin PosOps => job[r].account \in Accounts
         /\ job[r].file \in {Absent, Other} \cup Calls
         /\ doc[Cuit(r)] \in Docs /\ rec[r] \in Docs
BY JobParts DEF CertInv, CallOK, Cuit, Op, TypeOK

LEMMA TypeHandle ==
  ASSUME CertInv, NEW r \in Calls, Handle(r)
  PROVE  TypeOK'
<1>1. pc[r] # "idle"
  BY DEF Handle, Read, Reread, Write, Own, Decide, SetStatus, TruncKey, FillKey, ReadKey, TruncCsr,
         FillCsr, Deliver, TruncCrt, FillCrt, Unlink
<1>2. /\ job[r] \in Jobs /\ Cuit(r) \in Cuits
      /\ Op(r) \notin PosOps => job[r].account \in Accounts
      /\ job[r].file \in {Absent, Other} \cup Calls
      /\ doc[Cuit(r)] \in Docs /\ rec[r] \in Docs
  BY <1>1, OpenCall
<1>3. TypeOK /\ CallOK(r)
  BY DEF CertInv
<1> USE <1>2, <1>3 DEF Goto, Reply, callVars, docVars, keyVars, crtVars, faultVars, Put
<1>4. CASE Read(r) \/ Reread(r) \/ Own(r) \/ Decide(r)
  BY <1>4 DEF TypeOK, Phases, Kinds, Refusals, Read, Reread, Own, Decide
<1>5. CASE Write(r)
  <2>1. Op(r) \notin PosOps
    BY <1>5 DEF Write, CallOK, Stage, PosOps
  <2>2. UpsertStatus(r) \in Statuses
    BY Texts DEF UpsertStatus, Statuses
  <2>3. [owner |-> job[r].account, status |-> UpsertStatus(r)] \in Docs
    BY <2>1, <2>2 DEF Docs
  <2> QED
    BY <1>5, <2>1, <2>3 DEF TypeOK, Phases, Kinds, Write, Upsert
<1>6. CASE SetStatus(r)
  <2>1. <<job[r].account, Cuit(r)>> \in owners /\ job[r].account \in Accounts
    BY <1>6 DEF SetStatus, CallOK, Stage, Changing, PosOps
  <2>2. doc[Cuit(r)] \in [owner: Accounts, status: Statuses]
    BY <2>1 DEF CertInv, CuitOK, Docs
  <2>3. doc' \in [Cuits -> Docs]
    BY <1>6, <2>2 DEF SetStatus, SetCuitStatus, NextStatus, TypeOK, Docs, Statuses
  <2> QED
    BY <1>6, <2>3 DEF TypeOK, Phases, Kinds, SetStatus
<1>7. CASE TruncKey(r) \/ FillKey(r) \/ TruncCsr(r)
  BY <1>7 DEF TypeOK, Phases, Kinds, TruncKey, FillKey, TruncCsr
<1>8. CASE ReadKey(r) \/ FillCsr(r) \/ Deliver(r)
  BY <1>8 DEF TypeOK, Phases, Kinds, ReadKey, FillCsr, Deliver
<1>9. CASE TruncCrt(r) \/ FillCrt(r)
  BY <1>9 DEF TypeOK, Phases, Kinds, TruncCrt, FillCrt
<1>10. CASE Unlink(r)
  BY <1>10 DEF TypeOK, Phases, Kinds, Unlink
<1> QED
  BY <1>4, <1>5, <1>6, <1>7, <1>8, <1>9, <1>10 DEF Handle

LEMMA TypeFailure ==
  ASSUME CertInv, NEW r \in Calls, StoreFails(r) \/ OpensslFails(r) \/ UploadAborts(r)
  PROVE  TypeOK'
<1>1. pc[r] # "idle"
  BY DEF StoreFails, OpensslFails, UploadAborts
<1>2. /\ job[r] \in Jobs /\ Cuit(r) \in Cuits
      /\ Op(r) \notin PosOps => job[r].account \in Accounts
      /\ doc[Cuit(r)] \in Docs /\ rec[r] \in Docs
  BY <1>1, OpenCall
<1>3. TypeOK /\ CallOK(r)
  BY DEF CertInv
<1>4. Failure(r)
  BY DEF StoreFails, OpensslFails, UploadAborts
<1>5. /\ failures' \in 0 .. MaxFailures /\ spoilt' \subseteq Cuits /\ torn' \subseteq Cuits
      /\ UNCHANGED <<job, rec, hand, folders, delivered, crashes>>
  BY <1>2, <1>3, <1>4, BoundsAreNatural DEF Failure, TypeOK, callVars
<1>6. pc' \in [Calls -> Phases] /\ answer' \in [Calls -> Kinds]
  BY <1>3 DEF StoreFails, OpensslFails, UploadAborts, Reply, Goto, TypeOK, Phases, Kinds
<1>7. doc' \in [Cuits -> Docs] /\ owners' \subseteq Accounts \X Cuits
  <2>1. CASE pc[r] = "write" /\ Upsert(r)
    <3>1. Op(r) \notin PosOps
      BY <2>1, <1>3 DEF CallOK, Stage, PosOps
    <3>2. UpsertStatus(r) \in Statuses
      BY Texts, <1>2 DEF UpsertStatus, Statuses
    <3>3. [owner |-> job[r].account, status |-> UpsertStatus(r)] \in Docs
      BY <3>1, <3>2, <1>2 DEF Docs
    <3> QED
      BY <2>1, <3>1, <3>3, <1>2, <1>3 DEF TypeOK, Upsert
  <2>2. CASE pc[r] = "status" /\ SetCuitStatus(r) /\ UNCHANGED owners
    <3>1. <<job[r].account, Cuit(r)>> \in owners /\ job[r].account \in Accounts
      BY <2>2, <1>2, <1>3 DEF CallOK, Stage, Changing, PosOps
    <3>2. doc[Cuit(r)] \in [owner: Accounts, status: Statuses]
      BY <3>1, <1>2 DEF CertInv, CuitOK, Docs
    <3> QED
      BY <2>2, <3>2, <1>2, <1>3 DEF SetCuitStatus, NextStatus, TypeOK, Docs, Statuses
  <2>3. CASE UNCHANGED docVars
    BY <2>3, <1>3 DEF TypeOK, docVars
  <2> QED
    BY <2>1, <2>2, <2>3 DEF StoreFails, OpensslFails, UploadAborts
<1>8. UNCHANGED <<key, csr, crt>>
  BY DEF StoreFails, OpensslFails, UploadAborts, keyVars
<1> QED
  BY <1>3, <1>5, <1>6, <1>7, <1>8 DEF TypeOK

LEMMA TypeCrash ==
  ASSUME CertInv, Crash
  PROVE  TypeOK'
<1>1. \A r \in Open : Cuit(r) \in Cuits
  BY OpenCall DEF Open, Resting
<1>2. spoilt' \subseteq Cuits /\ torn' \subseteq Cuits /\ crashes' \in 0 .. MaxCrashes
  BY <1>1, BoundsAreNatural DEF Crash, CertInv, TypeOK
<1>3. pc' \in [Calls -> Phases]
  BY DEF Crash, CertInv, TypeOK, Phases
<1> QED
  BY <1>2, <1>3 DEF Crash, CertInv, TypeOK, callVars, docVars, keyVars, crtVars

LEMMA TypeNext == CertInv /\ [Next]_vars => TypeOK'
<1> SUFFICES ASSUME CertInv, [Next]_vars PROVE TypeOK'
  OBVIOUS
<1>1. CASE UNCHANGED vars
  BY <1>1 DEF vars, CertInv, TypeOK
<1> QED
  BY <1>1, TypeArrive, TypeHandle, TypeFailure, TypeCrash DEF Next
-----------------------------------------------------------------------------
(* One lemma per action. *)

LEMMA CertArrive ==
  ASSUME CertInv, TypeOK', NEW r \in Calls, Arrive(r)
  PROVE  CertInv'
<1>1. PICK j \in Jobs : /\ j.file \in Calls => <<j.cuit, j.file>> \in delivered
                        /\ job' = [job EXCEPT ![r] = j]
                        /\ IF j.op \in Uploads /\ j.file = Absent
                           THEN Reply(r, "badRequest")
                           ELSE Goto(r, First(j.op)) /\ UNCHANGED answer
  BY DEF Arrive
<1>2. /\ pc[r] = "idle" /\ UNCHANGED <<rec, hand, doc, owners, csr, crt, delivered>>
      /\ \A q \in Calls \ {r} : pc'[q] = pc[q] /\ answer'[q] = answer[q] /\ job'[q] = job[q]
      /\ job'[r] = j /\ rec[r] = NoDoc
  <2>1. TypeOK /\ pc[r] = "idle" /\ rec[r] = NoDoc
    BY DEF CertInv, CallOK, Arrive
  <2>2. UNCHANGED <<rec, hand, doc, owners, csr, crt, delivered>>
    BY DEF Arrive, docVars, keyVars, crtVars
  <2>3. \A q \in Calls \ {r} : pc'[q] = pc[q] /\ answer'[q] = answer[q] /\ job'[q] = job[q]
    BY <1>1, <2>1 DEF Goto, Reply, TypeOK
  <2> QED
    BY <1>1, <2>1, <2>2, <2>3 DEF TypeOK
<1>3. ASSUME NEW q \in Calls \ {r} PROVE CallOK(q)'
  BY <1>2 DEF CertInv, CallOK, Stage, Op, Cuit
<1>4. CallOK(r)'
  <2>1. /\ pc'[r] = IF j.op \in Uploads /\ j.file = Absent THEN "done" ELSE First(j.op)
        /\ answer'[r] # "ok"
    <3>1. TypeOK /\ answer[r] # "ok"
      BY <1>2 DEF CertInv, CallOK
    <3> QED
      BY <1>1, <3>1 DEF Goto, Reply, TypeOK
  <2>2. j.op \in CreateOps \cup Uploads
    BY JobParts, OpsAreKnown
  <2>3. rec'[r] = NoDoc /\ NoDoc.status # "pending_crt"
    BY <1>2, Texts DEF Absent
  <2>4. /\ pc'[r] # "idle" /\ pc'[r] \notin {"status", "truncCsr", "fillCsr"}
        /\ pc'[r] = "truncKey" => j.op \in PosOps
        /\ pc'[r] \in {"read", "own", "truncKey", "truncCrt", "done"}
    BY <2>1, <2>2 DEF First, CreateOps, Uploads, PosOps
  <2>5. Stage(r)'
    BY <1>2, <2>1, <2>2, <2>4 DEF Stage, Op, First, CreateOps, Uploads, OpensslSteps
  <2> QED
    BY <1>1, <1>2, <2>1, <2>3, <2>4, <2>5 DEF CallOK, Op, Cuit, Changing
<1>5. ASSUME NEW c \in Cuits PROVE CuitOK(c)'
  BY <1>2 DEF CertInv, CuitOK
<1> QED
  BY <1>3, <1>4, <1>5 DEF CertInv

\* The steps that only look.
LEMMA CertRead ==
  ASSUME CertInv, TypeOK', NEW r \in Calls, Read(r) \/ Reread(r) \/ Own(r)
  PROVE  CertInv'
<1>1. /\ pc[r] \in {"read", "reread", "own"} /\ job[r] \in Jobs
      /\ Stage(r) /\ TypeOK /\ answer[r] # "ok"
      /\ pc[r] # "idle" /\ Cuit(r) \in Cuits /\ doc[Cuit(r)] \in Docs
  BY OpenCall DEF Read, Reread, Own, CertInv, CallOK
<1>2. /\ UNCHANGED <<job, hand, doc, owners, csr, crt, delivered>>
      /\ rec' = [rec EXCEPT ![r] = doc[Cuit(r)]]
      /\ \A q \in Calls \ {r} : UNCHANGED <<pc[q], rec[q], hand[q], answer[q]>>
  BY <1>1 DEF Read, Reread, Own, Goto, Reply, docVars, keyVars, crtVars, TypeOK
<1>3. rec'[r] = doc[Cuit(r)]
  BY <1>1, <1>2 DEF TypeOK
<1>4. answer'[r] # "ok"
  BY <1>1 DEF Read, Reread, Own, Reply, TypeOK
<1>5. /\ pc'[r] \in {"decide", "write", "reread", "truncKey", "status", "unlink", "done"}
      /\ pc'[r] = "decide" => Op(r) = "csr"
      /\ pc'[r] = "write" => Op(r) \in {"create", "v1generate"}
      /\ pc'[r] = "reread" => Op(r) = "v1generate"
      /\ pc'[r] = "truncKey" => Op(r) \in {"v1generate", "v1renew"}
      /\ pc'[r] = "status" => Op(r) \in {"upload", "v1upload"}
      /\ pc'[r] = "unlink" => Op(r) = "upload"
      /\ pc'[r] \in {"truncKey", "status"} => doc[Cuit(r)].owner = job[r].account
  BY <1>1 DEF Read, Reread, Own, Goto, Reply, Owned, Stage, Op, TypeOK
<1>6. CuitOK(Cuit(r))
  BY <1>1 DEF CertInv
<1>7. pc'[r] \in {"truncKey", "status"} => <<job[r].account, Cuit(r)>> \in owners
  <2>1. Op(r) \notin PosOps => job[r].account \in Accounts
    BY <1>1, JobParts DEF Op
  <2> QED
    BY <1>1, <1>5, <1>6, <2>1, Texts DEF CuitOK, PosOps
<1>8. CallOK(r)'
  <2>1. Stage(r)'
    BY <1>2, <1>4, <1>5 DEF Stage, Op, OpensslSteps, Uploads
  <2>2. job[r].file \in Calls => <<Cuit(r), job[r].file>> \in delivered
    BY <1>1 DEF CertInv, CallOK
  <2>3. pc'[r] \in Changing => pc'[r] \in {"truncKey", "status"}
    BY <1>5 DEF Changing
  <2>4. pc'[r] \notin {"idle", "truncCsr", "fillCsr"}
    BY <1>5
  <2>5. Op(r)' = Op(r) /\ Cuit(r)' = Cuit(r) /\ csr'[Cuit(r)] = csr[Cuit(r)]
    BY <1>2 DEF Op, Cuit
  <2>6. pc'[r] = "status" => Op(r) \in Uploads
    BY <1>5 DEF Uploads
  <2>7. /\ rec'[r] # NoDoc => <<rec'[r].owner, Cuit(r)>> \in owners
        /\ rec'[r].status = "pending_crt" => csr[Cuit(r)] # Absent
    BY <1>3, <1>6 DEF CuitOK
  <2> QED
    BY <1>1, <1>2, <1>4, <1>7, <2>1, <2>2, <2>3, <2>4, <2>5, <2>6, <2>7 DEF CallOK
<1>9. CuitOK(Cuit(r))'
  BY <1>2, <1>6 DEF CuitOK, Cuit
<1> QED
  BY <1>1, <1>2, <1>8, <1>9, Frame

LEMMA CertDecide ==
  ASSUME CertInv, TypeOK', NEW r \in Calls, Decide(r)
  PROVE  CertInv'
<1>1. /\ pc[r] = "decide" /\ job[r] \in Jobs /\ Op(r) = "csr" /\ TypeOK /\ answer[r] # "ok"
      /\ pc[r] # "idle" /\ Cuit(r) \in Cuits /\ rec[r] \in Docs
  BY OpenCall DEF Decide, CertInv, CallOK, Stage
<1>2. /\ UNCHANGED <<job, rec, hand, doc, owners, csr, crt, delivered>>
      /\ \A q \in Calls \ {r} : UNCHANGED <<pc[q], rec[q], hand[q], answer[q]>>
      /\ answer'[r] # "ok"
      /\ pc'[r] \in {"truncKey", "status", "deliver", "done"}
      /\ pc'[r] # "done" => rec[r].owner = job[r].account
      /\ pc'[r] \in {"status", "deliver"} => csr[Cuit(r)] # Absent
  BY <1>1 DEF Decide, Goto, Reply, Owned, callVars, docVars, keyVars, crtVars, TypeOK
<1>3. pc'[r] # "done" => <<job[r].account, Cuit(r)>> \in owners
  <2>1. job[r].account \in Accounts
    BY <1>1, JobParts DEF Op, PosOps
  <2> QED
    BY <1>1, <1>2, <2>1, Texts DEF CertInv, CallOK
<1>4. CallOK(r)'
  <2>1. Stage(r)'
    BY <1>1, <1>2 DEF Stage, Op, OpensslSteps
  <2>2. Op(r)' = Op(r) /\ Cuit(r)' = Cuit(r) /\ UNCHANGED <<rec[r], hand[r], csr[Cuit(r)]>>
    BY <1>2 DEF Op, Cuit
  <2>3. pc'[r] \notin {"idle", "truncCsr", "fillCsr"}
    BY <1>2
  <2>4. pc'[r] \in Changing \/ answer'[r] = "ok" => pc'[r] # "done"
    BY <1>2 DEF Changing
  <2> QED
    BY <1>1, <1>2, <1>3, <2>1, <2>2, <2>3, <2>4 DEF CertInv, CallOK
<1>5. CuitOK(Cuit(r))'
  BY <1>1, <1>2 DEF CertInv, CuitOK, Cuit
<1> QED
  BY <1>1, <1>2, <1>4, <1>5, Frame

\* A call that keeps what it has read.
LEMMA CallStep ==
  ASSUME CertInv, NEW r \in Calls, pc[r] # "idle", pc'[r] # "idle",
         job' = job, rec'[r] = rec[r],
         csr[Cuit(r)] # Absent => csr'[Cuit(r)] # Absent,
         owners \subseteq owners', delivered \subseteq delivered',
         pc'[r] # "done" => answer'[r] # "ok",
         Stage(r)',
         pc'[r] \in {"truncCsr", "fillCsr"} => hand'[r] \in Calls,
         pc'[r] = "status" /\ Op(r) \notin Uploads => csr'[Cuit(r)] # Absent,
         (pc'[r] \in Changing \/ answer'[r] = "ok") /\ Op(r) \notin PosOps
           => <<job[r].account, Cuit(r)>> \in owners'
  PROVE  CallOK(r)'
<1>1. CallOK(r) /\ Op(r)' = Op(r) /\ Cuit(r)' = Cuit(r)
  BY DEF CertInv, Op, Cuit
<1> QED
  BY <1>1 DEF CallOK

\* The account of a call that changes something.
LEMMA Owner ==
  ASSUME CertInv, NEW r \in Calls, pc[r] \in Changing, Op(r) \notin PosOps
  PROVE  /\ <<job[r].account, Cuit(r)>> \in owners
         /\ job[r].account \in Accounts /\ Cuit(r) \in Cuits /\ doc[Cuit(r)] # NoDoc
<1>1. pc[r] # "idle"
  BY DEF Changing
<1>2. <<job[r].account, Cuit(r)>> \in owners
  BY DEF CertInv, CallOK
<1>3. job[r].account \in Accounts /\ Cuit(r) \in Cuits
  BY <1>1, OpenCall
<1> QED
  BY <1>2, <1>3 DEF CertInv, CuitOK

\* An upsert, acknowledged or not.
LEMMA CertUpsert ==
  ASSUME CertInv, TypeOK', NEW r \in Calls, pc[r] = "write", Upsert(r), job' = job,
         UNCHANGED <<rec, hand, csr, crt, delivered>>,
         \A q \in Calls \ {r} : UNCHANGED <<pc[q], answer[q]>>,
         pc'[r] \in {"done", "truncKey"}, pc'[r] # "done" => answer'[r] # "ok",
         pc'[r] = "truncKey" => Op(r) = "v1generate"
  PROVE  CertInv'
<1>1. /\ job[r].account \in Accounts /\ Cuit(r) \in Cuits
      /\ Op(r) \in {"create", "v1generate"} /\ TypeOK /\ CallOK(r) /\ rec[r] \in Docs
  <2>1. Op(r) \in {"create", "v1generate"} /\ TypeOK /\ CallOK(r)
    BY DEF CertInv, CallOK, Stage
  <2> QED
    BY <2>1, OpenCall DEF PosOps
<1>2. /\ doc'[Cuit(r)] = [owner |-> job[r].account, status |-> UpsertStatus(r)]
      /\ \A c \in Cuits \ {Cuit(r)} : doc'[c] = doc[c]
      /\ owners' = owners \cup {<<job[r].account, Cuit(r)>>}
  BY <1>1 DEF Upsert, TypeOK
<1>3. Stage(r)'
  BY <1>1 DEF Stage, Op, OpensslSteps, Uploads
<1>4. CallOK(r)'
  BY <1>1, <1>2, <1>3, CallStep
<1>5. CuitOK(Cuit(r))'
  <2>1. CuitOK(Cuit(r)) /\ (rec[r].status = "pending_crt" => csr[Cuit(r)] # Absent)
    BY <1>1 DEF CertInv, CallOK
  <2>2. UpsertStatus(r) = "pending_crt" => csr[Cuit(r)] # Absent
    BY <2>1 DEF UpsertStatus
  <2>3. doc'[Cuit(r)] # NoDoc
    BY <1>1, <1>2, NoAccountIsNone DEF NoDoc
  <2> QED
    BY <1>1, <1>2, <2>1, <2>2, <2>3 DEF CuitOK, Cuit
<1> QED
  BY <1>1, <1>2, <1>4, <1>5, Frame

\* A new status, acknowledged or not.
LEMMA CertStatus ==
  ASSUME CertInv, TypeOK', NEW r \in Calls, pc[r] = "status", SetCuitStatus(r), job' = job,
         UNCHANGED <<rec, hand, csr, crt, delivered, owners>>,
         \A q \in Calls \ {r} : UNCHANGED <<pc[q], answer[q]>>,
         pc'[r] \in {"done", "deliver", "unlink"}, pc'[r] # "done" => answer'[r] # "ok",
         pc'[r] = "deliver" => Op(r) \notin Uploads,
         pc'[r] = "unlink" => Op(r) = "upload"
  PROVE  CertInv'
<1>1. /\ Op(r) \in {"csr", "v1generate", "v1renew", "upload", "v1upload"} /\ TypeOK /\ CallOK(r)
  BY DEF CertInv, CallOK, Stage
<1>2. /\ <<job[r].account, Cuit(r)>> \in owners
      /\ Cuit(r) \in Cuits /\ doc[Cuit(r)] # NoDoc /\ doc[Cuit(r)] \in Docs
  BY <1>1, Owner, OpenCall DEF Changing, PosOps
<1>3. /\ doc'[Cuit(r)].owner = doc[Cuit(r)].owner
      /\ doc'[Cuit(r)].status = NextStatus(r)
      /\ doc'[Cuit(r)] # NoDoc
      /\ \A c \in Cuits \ {Cuit(r)} : doc'[c] = doc[c]
  BY <1>1, <1>2 DEF SetCuitStatus, TypeOK, NextStatus, Docs, NoDoc, Absent
<1>4. Stage(r)'
  BY <1>1 DEF Stage, Op, OpensslSteps, Uploads
<1>5. CallOK(r)'
  BY <1>2, <1>4, CallStep
<1>6. CuitOK(Cuit(r))'
  <2>1. CuitOK(Cuit(r)) /\ (Op(r) \notin Uploads => csr[Cuit(r)] # Absent)
    BY <1>1, <1>2 DEF CertInv, CallOK
  <2>2. NextStatus(r) = "pending_crt" => csr[Cuit(r)] # Absent
    BY <2>1 DEF NextStatus, Op
  <2> QED
    BY <1>2, <1>3, <2>1, <2>2 DEF CuitOK, Cuit
<1> QED
  BY <1>2, <1>3, <1>5, <1>6, Frame

LEMMA CertWrite ==
  ASSUME CertInv, TypeOK', NEW r \in Calls, Write(r)
  PROVE  CertInv'
<1>1. TypeOK /\ CallOK(r) /\ pc[r] = "write"
  BY DEF CertInv, Write
<1>2. /\ \A q \in Calls \ {r} : UNCHANGED <<pc[q], answer[q]>>
      /\ pc'[r] \in {"done", "truncKey"} /\ (pc'[r] # "done" => answer'[r] # "ok")
      /\ pc'[r] = "truncKey" => Op(r) = "v1generate"
  BY <1>1 DEF Write, Reply, Goto, TypeOK, CallOK, Stage, Op
<1> QED
  BY <1>1, <1>2, CertUpsert DEF Write, callVars, keyVars, crtVars

LEMMA CertSetStatus ==
  ASSUME CertInv, TypeOK', NEW r \in Calls, SetStatus(r)
  PROVE  CertInv'
<1>1. TypeOK /\ CallOK(r) /\ pc[r] = "status"
  BY DEF CertInv, SetStatus
<1>2. /\ \A q \in Calls \ {r} : UNCHANGED <<pc[q], answer[q]>>
      /\ pc'[r] \in {"done", "deliver"} /\ (pc'[r] # "done" => answer'[r] # "ok")
      /\ pc'[r] = "deliver" => Op(r) \notin Uploads
  BY <1>1 DEF SetStatus, Reply, Goto, TypeOK, CallOK, Op
<1> QED
  BY <1>1, <1>2, CertStatus DEF SetStatus, callVars, keyVars, crtVars

\* The generation of a key and a CSR.
LEMMA CertGenerate ==
  ASSUME CertInv, TypeOK', NEW r \in Calls,
         TruncKey(r) \/ FillKey(r) \/ ReadKey(r) \/ TruncCsr(r) \/ FillCsr(r)
  PROVE  CertInv'
<1>1. /\ pc[r] \in OpensslSteps /\ pc[r] \in Changing /\ TypeOK /\ CallOK(r) /\ answer[r] # "ok"
      /\ Op(r) \in {"csr", "v1generate", "v1renew", "posGenerate"}
      /\ Cuit(r) \in Cuits /\ pc[r] # "idle"
  <2>1. pc[r] \in OpensslSteps
    BY DEF TruncKey, FillKey, ReadKey, TruncCsr, FillCsr, OpensslSteps
  <2> QED
    BY <2>1, OpenCall DEF CertInv, CallOK, Stage, OpensslSteps, Changing
<1>2. /\ UNCHANGED <<job, rec, doc, owners, crt, delivered>>
      /\ \A q \in Calls \ {r} : UNCHANGED <<pc[q], rec[q], hand[q], answer[q]>>
      /\ answer'[r] # "ok"
  BY <1>1 DEF TruncKey, FillKey, ReadKey, TruncCsr, FillCsr, Goto, Reply, callVars, docVars, crtVars,
              TypeOK
<1>3. /\ \A c \in Cuits \ {Cuit(r)} : csr'[c] = csr[c]
      /\ csr[Cuit(r)] # Absent => csr'[Cuit(r)] # Absent
      /\ pc'[r] = "status" => csr'[Cuit(r)] # Absent /\ Op(r) # "posGenerate"
      /\ pc'[r] \in OpensslSteps \cup {"status", "deliver", "done"}
      /\ pc'[r] \in {"truncCsr", "fillCsr"} => hand'[r] \in Calls
  <2>1. CASE TruncKey(r) \/ FillKey(r)
    BY <2>1, <1>1 DEF TruncKey, FillKey, Goto, TypeOK, OpensslSteps
  <2>2. CASE ReadKey(r)
    BY <2>2, <1>1 DEF ReadKey, Goto, Reply, keyVars, TypeOK, OpensslSteps
  <2>3. CASE TruncCsr(r)
    BY <2>3, <1>1, Texts DEF TruncCsr, Put, Goto, TypeOK, OpensslSteps, callVars, CallOK
  <2>4. CASE FillCsr(r)
    BY <2>4, <1>1, Texts DEF FillCsr, Put, Goto, TypeOK, OpensslSteps, callVars, CallOK, PosOps, Op
  <2> QED
    BY <2>1, <2>2, <2>3, <2>4
<1>4. Stage(r)'
  BY <1>1, <1>2, <1>3 DEF Stage, Op, OpensslSteps
<1>5. Op(r) \notin PosOps => <<job[r].account, Cuit(r)>> \in owners
  BY <1>1, Owner
<1>6. pc'[r] # "idle"
  BY <1>3 DEF OpensslSteps
<1>7. CallOK(r)'
  BY <1>1, <1>2, <1>3, <1>4, <1>5, <1>6, CallStep
<1>8. CuitOK(Cuit(r))'
  BY <1>1, <1>2, <1>3 DEF CertInv, CuitOK, Cuit
<1> QED
  BY <1>1, <1>2, <1>3, <1>7, <1>8, Frame

LEMMA CertDeliver ==
  ASSUME CertInv, TypeOK', NEW r \in Calls, Deliver(r)
  PROVE  CertInv'
<1>1. /\ pc[r] = "deliver" /\ TypeOK /\ CallOK(r)
      /\ Op(r) \in {"csr", "v1generate", "v1renew", "posGenerate"} /\ Cuit(r) \in Cuits
  BY OpenCall DEF CertInv, CallOK, Stage, Deliver
<1>2. /\ UNCHANGED <<job, rec, hand, doc, owners, csr, crt>>
      /\ \A q \in Calls \ {r} : UNCHANGED <<pc[q], answer[q]>>
      /\ pc'[r] = "done"
  BY <1>1 DEF Deliver, Goto, Reply, callVars, docVars, keyVars, crtVars, TypeOK
<1>3. delivered' = delivered \cup ({<<Cuit(r), csr[Cuit(r)]>>} \cap (Cuits \X Calls))
  BY DEF Deliver
<1>4. Stage(r)'
  BY <1>2 DEF Stage, OpensslSteps
<1>5. Op(r) \notin PosOps => <<job[r].account, Cuit(r)>> \in owners
  BY <1>1, Owner DEF Changing
<1>6. CallOK(r)'
  BY <1>1, <1>2, <1>3, <1>4, <1>5, CallStep
<1>7. CuitOK(Cuit(r))'
  BY <1>1, <1>2, <1>3, Texts DEF CertInv, CuitOK, Cuit
<1> QED
  BY <1>1, <1>2, <1>3, <1>6, <1>7, Frame

\* The certificate file.
LEMMA CertUpload ==
  ASSUME CertInv, TypeOK', NEW r \in Calls, TruncCrt(r) \/ FillCrt(r) \/ Unlink(r)
  PROVE  CertInv'
<1>1. /\ pc[r] \in {"truncCrt", "fillCrt", "fillGone", "unlink"}
      /\ TypeOK /\ CallOK(r) /\ Op(r) \in Uploads /\ answer[r] # "ok"
      /\ Cuit(r) \in Cuits /\ job[r] \in Jobs
  BY OpenCall DEF CertInv, CallOK, Stage, TruncCrt, FillCrt, Unlink, Uploads
<1>2. /\ UNCHANGED <<job, rec, hand, doc, owners, csr, delivered>>
      /\ \A q \in Calls \ {r} :
           /\ answer'[q] = answer[q]
           /\ pc'[q] = pc[q] \/ (pc[q] = "fillCrt" /\ pc'[q] = "fillGone")
  BY <1>1 DEF TruncCrt, FillCrt, Unlink, Goto, Reply, callVars, docVars, keyVars, TypeOK
<1>3. /\ pc'[r] \in {"fillCrt", "own", "done"}
      /\ pc'[r] = "own" => Op(r) # "posUpload"
      /\ answer'[r] = "ok" => pc'[r] = "done" /\ Op(r) \in PosOps
  BY <1>1 DEF TruncCrt, FillCrt, Unlink, Goto, Reply, TypeOK, PosOps, Op
<1>4. /\ \A c \in Cuits \ {Cuit(r)} : crt'[c] = crt[c]
      /\ crt'[Cuit(r)] \in {crt[Cuit(r)], Absent, Empty, job[r].file}
  BY <1>1 DEF TruncCrt, FillCrt, Unlink, Put, crtVars, TypeOK
<1>5. Stage(r)'
  BY <1>1, <1>2, <1>3 DEF Stage, Op, OpensslSteps, Uploads
<1>6. CallOK(r)'
  BY <1>1, <1>2, <1>3, <1>5, CallStep DEF Changing
<1>7. CuitOK(Cuit(r))'
  <2>1. job[r].file \in Calls => <<Cuit(r), job[r].file>> \in delivered
    BY <1>1 DEF CallOK
  <2> QED
    BY <1>1, <1>2, <1>4, <2>1, Texts DEF CertInv, CuitOK, Cuit
<1> QED
  BY <1>1, <1>2, <1>4, <1>6, <1>7, Frame

LEMMA CertFailure ==
  ASSUME CertInv, TypeOK', NEW r \in Calls, StoreFails(r) \/ OpensslFails(r) \/ UploadAborts(r)
  PROVE  CertInv'
<1>1. /\ TypeOK /\ CallOK(r) /\ pc[r] \notin {"idle", "done"} /\ Cuit(r) \in Cuits
      /\ UNCHANGED <<job, rec, hand, csr, crt, delivered>>
  BY OpenCall DEF CertInv, Failure, Open, Resting, StoreFails, OpensslFails, UploadAborts, callVars,
                  keyVars
<1>2. /\ \A q \in Calls \ {r} : UNCHANGED <<pc[q], answer[q]>>
      /\ answer'[r] # "ok" /\ pc'[r] \in {"done", "unlink"}
      /\ pc'[r] = "unlink" => Op(r) = "upload"
  BY <1>1 DEF StoreFails, OpensslFails, UploadAborts, Reply, Goto, TypeOK, Op
<1>3. CASE pc[r] = "write" /\ Upsert(r)
  <2>1. pc'[r] = "done"
    BY <1>1, <1>2, <1>3 DEF CallOK, Stage
  <2> QED
    BY <1>1, <1>2, <1>3, <2>1, CertUpsert
<1>4. CASE pc[r] = "status" /\ SetCuitStatus(r) /\ UNCHANGED owners
  BY <1>1, <1>2, <1>4, CertStatus
<1>5. CASE UNCHANGED docVars
  <2>1. Stage(r)'
    BY <1>1, <1>2 DEF Stage, Op, OpensslSteps
  <2>2. CallOK(r)'
    BY <1>1, <1>2, <1>5, <2>1, CallStep DEF docVars, Changing
  <2>3. CuitOK(Cuit(r))'
    BY <1>1, <1>5 DEF CertInv, CuitOK, Cuit, docVars
  <2> QED
    BY <1>1, <1>2, <1>5, <2>2, <2>3, Frame DEF docVars
<1> QED
  BY <1>3, <1>4, <1>5 DEF StoreFails, OpensslFails, UploadAborts

LEMMA CertCrash ==
  ASSUME CertInv, TypeOK', Crash
  PROVE  CertInv'
<1>1. UNCHANGED <<job, rec, hand, answer, doc, owners, csr, crt, delivered>>
  BY DEF Crash, callVars, docVars, keyVars, crtVars
<1>2. \A r \in Calls : pc'[r] = pc[r] \/ (pc[r] \notin {"idle", "done"} /\ pc'[r] = "lost")
  BY DEF Crash, Open, Resting
<1>3. ASSUME NEW r \in Calls PROVE CallOK(r)'
  <2>1. CallOK(r)
    BY DEF CertInv
  <2>2. CASE pc'[r] = pc[r]
    BY <1>1, <2>1, <2>2 DEF CallOK, Stage, Op, Cuit
  <2>3. CASE pc[r] \notin {"idle", "done"} /\ pc'[r] = "lost"
    BY <1>1, <2>1, <2>3 DEF CallOK, Stage, Op, Cuit, Changing, OpensslSteps
  <2> QED
    BY <1>2, <2>2, <2>3
<1>4. \A c \in Cuits : CuitOK(c)'
  BY <1>1 DEF CertInv, CuitOK
<1> QED
  BY <1>3, <1>4 DEF CertInv

LEMMA CertNext == CertInv /\ [Next]_vars => CertInv'
<1> SUFFICES ASSUME CertInv, [Next]_vars PROVE CertInv'
  OBVIOUS
<1>1. TypeOK'
  BY TypeNext
<1>2. CASE UNCHANGED vars
  <2>1. UNCHANGED <<pc, job, rec, hand, answer, doc, owners, csr, crt, delivered>>
    BY <1>2 DEF vars
  <2>2. \A r \in Calls : CallOK(r)'
    BY <2>1 DEF CertInv, CallOK, Stage, Op, Cuit
  <2>3. \A c \in Cuits : CuitOK(c)'
    BY <2>1 DEF CertInv, CuitOK
  <2> QED
    BY <1>1, <2>2, <2>3 DEF CertInv
<1> QED
  BY <1>1, <1>2, CertArrive, CertRead, CertDecide, CertWrite, CertSetStatus, CertGenerate, CertDeliver,
     CertUpload, CertFailure, CertCrash
  DEF Next, Handle

LEMMA CertAlways == Spec => []CertInv
BY CertInit, CertNext, PTL DEF Spec

\* Every variable keeps its type.
THEOREM CertTypesAreKept == Spec => []TypeOK
<1>1. CertInv => TypeOK
  BY DEF CertInv
<1> QED
  BY <1>1, CertAlways, PTL

\* Only an account that has been the owner of a CUIT changes it or gets
\* something of it.
THEOREM OnlyOwnersMayChange == Spec => []OnlyOwnersChange
<1>1. CertInv => OnlyOwnersChange
  BY DEF CertInv, CallOK, Op, OnlyOwnersChange
<1> QED
  BY <1>1, CertAlways, PTL
-----------------------------------------------------------------------------
(* CUITs that are not torn. *)

\* At rest the CSR is that of the key, or neither has been made.  One
\* generation at most is at work, with the key it has written itself.
GenOK(c) ==
  c \notin torn =>
    /\ Generating(c) = {} => csr[c] = key[c] /\ csr[c] # Empty
    /\ \A q, r \in Generating(c) : q = r
    /\ \A r \in Generating(c) : /\ pc[r] # "fillKey" => key[c] = r
                                /\ pc[r] \in {"truncCsr", "fillCsr"} => hand[r] = r

GenInv == \A c \in Cuits : GenOK(c)

\* The steps of openssl between its first file and its last.
Within == {"fillKey", "readKey", "truncCsr", "fillCsr"}

LEMMA GenInit == Init => GenInv
BY Texts DEF Init, GenInv, GenOK, Generating

\* A CUIT whose generations stay as they are.
LEMMA GenFrame ==
  ASSUME NEW c \in Cuits, GenOK(c), key'[c] = key[c], csr'[c] = csr[c],
         c \in torn => c \in torn', Generating(c)' = Generating(c),
         \A q \in Generating(c) : pc'[q] = pc[q] /\ hand'[q] = hand[q]
  PROVE  GenOK(c)'
BY DEF GenOK

\* A step of a call that does not generate.
LEMMA GenQuiet ==
  ASSUME GenInv, NEW r \in Calls, UNCHANGED <<key, csr>>, torn \subseteq torn',
         pc[r] \notin Within, pc'[r] \notin Within,
         \A q \in Calls \ {r} :
           /\ UNCHANGED <<job[q], hand[q]>>
           /\ pc'[q] = pc[q] \/ (pc[q] = "fillCrt" /\ pc'[q] = "fillGone")
  PROVE  GenInv'
<1> SUFFICES ASSUME NEW c \in Cuits PROVE GenOK(c)'
  BY DEF GenInv
<1>1. Generating(c)' = Generating(c)
  BY DEF Generating, Within, Cuit
<1>2. \A q \in Generating(c) : pc'[q] = pc[q] /\ hand'[q] = hand[q]
  BY DEF Generating, Within
<1> QED
  BY <1>1, <1>2, GenFrame DEF GenInv

LEMMA GenIdle ==
  ASSUME CertInv, GenInv, NEW r \in Calls,
         \/ Arrive(r) \/ Read(r) \/ Reread(r) \/ Write(r) \/ Own(r) \/ Decide(r) \/ SetStatus(r)
         \/ Deliver(r) \/ TruncCrt(r) \/ FillCrt(r) \/ Unlink(r)
  PROVE  GenInv'
<1>1. TypeOK
  BY DEF CertInv
<1>2. CASE Arrive(r)
  <2>1. PICK j \in Jobs : job' = [job EXCEPT ![r] = j] /\ (Reply(r, "badRequest") \/ Goto(r, First(j.op)))
    BY <1>2 DEF Arrive
  <2>2. pc[r] \notin Within /\ pc'[r] \notin Within
    BY <1>1, <1>2, <2>1 DEF Arrive, Reply, Goto, First, Within, TypeOK
  <2>3. /\ UNCHANGED <<key, csr, torn, hand>>
        /\ \A q \in Calls \ {r} : UNCHANGED <<job[q], pc[q]>>
    BY <1>1, <1>2, <2>1 DEF Arrive, Reply, Goto, keyVars, faultVars, TypeOK
  <2> QED
    BY <2>2, <2>3, GenQuiet
<1>3. CASE Read(r) \/ Reread(r) \/ Own(r) \/ Decide(r)
  BY <1>1, <1>3, GenQuiet
  DEF Read, Reread, Own, Decide, Reply, Goto, callVars, keyVars, faultVars, Within, TypeOK
<1>4. CASE Write(r) \/ SetStatus(r) \/ Deliver(r)
  BY <1>1, <1>4, GenQuiet
  DEF Write, SetStatus, Deliver, Reply, Goto, callVars, keyVars, faultVars, Within, TypeOK
<1>5. CASE TruncCrt(r) \/ FillCrt(r) \/ Unlink(r)
  BY <1>1, <1>5, GenQuiet
  DEF TruncCrt, FillCrt, Unlink, Reply, Goto, callVars, keyVars, faultVars, Within, TypeOK
<1> QED
  BY <1>2, <1>3, <1>4, <1>5

\* A step of openssl for r is no step of it for another CUIT.
LEMMA GenElsewhere ==
  ASSUME GenInv, NEW r \in Calls, NEW c \in Cuits, c # Cuit(r), job' = job,
         \A q \in Calls \ {r} : UNCHANGED <<pc[q], hand[q]>>,
         key'[c] = key[c], csr'[c] = csr[c], c \in torn => c \in torn'
  PROVE  GenOK(c)'
<1>1. Generating(c)' = Generating(c) /\ r \notin Generating(c)
  BY DEF Generating, Cuit
<1>2. \A q \in Generating(c) : pc'[q] = pc[q] /\ hand'[q] = hand[q]
  BY <1>1 DEF Generating
<1> QED
  BY <1>1, <1>2, GenFrame DEF GenInv

\* The generation of a CUIT that is not torn.
LEMMA GenOne ==
  ASSUME NEW c \in Cuits, NEW r, r \in Generating(c), GenOK(c), c \notin torn
  PROVE  /\ \A q \in Generating(c) : q = r
         /\ pc[r] # "fillKey" => key[c] = r
         /\ pc[r] \in {"truncCsr", "fillCsr"} => hand[r] = r
<1>1. \A q \in Generating(c) : q = r
  BY DEF GenOK
<1>2. pc[r] # "fillKey" => key[c] = r
  BY DEF GenOK
<1>3. pc[r] \in {"truncCsr", "fillCsr"} => hand[r] = r
  BY DEF GenOK
<1> QED
  BY <1>1, <1>2, <1>3

\* A step of openssl at its own CUIT.
LEMMA GenHere ==
  ASSUME CertInv, GenInv, NEW r \in Calls, NEW c \in Cuits, c = Cuit(r),
         TruncKey(r) \/ FillKey(r) \/ ReadKey(r) \/ TruncCsr(r) \/ FillCsr(r)
  PROVE  GenOK(c)'
<1>1. TypeOK /\ GenOK(c)
  BY DEF CertInv, GenInv
<1>2. /\ job' = job
      /\ \A q \in Calls \ {r} : UNCHANGED <<pc[q], hand[q]>>
  BY <1>1 DEF TruncKey, FillKey, ReadKey, TruncCsr, FillCsr, Goto, Reply, callVars, TypeOK
<1>3. /\ \A q \in Calls \ {r} : q \in Generating(c)' <=> q \in Generating(c)
      /\ r \in Generating(c)' <=> pc'[r] \in Within
      /\ r \in Generating(c) <=> pc[r] \in Within
      /\ Generating(c) \subseteq Calls /\ Generating(c)' \subseteq Calls
  BY <1>2 DEF Generating, Within, Cuit
<1>4. CASE TruncKey(r)
  <2>1. pc[r] = "truncKey" /\ pc'[r] = "fillKey"
    BY <1>1, <1>4 DEF TruncKey, Goto, TypeOK
  <2>2. torn' = IF Generating(c) = {} THEN torn \ {c} ELSE torn \cup {c}
    BY <1>4 DEF TruncKey
  <2>3. c \in torn' \/ Generating(c)' = {r}
    BY <1>3, <2>1, <2>2 DEF Within
  <2> QED
    BY <2>1, <2>3 DEF GenOK
<1>5. CASE FillKey(r) \/ ReadKey(r) \/ TruncCsr(r)
  <2>1. pc[r] \in Within /\ torn' = torn
    BY <1>5 DEF FillKey, ReadKey, TruncCsr, Within, faultVars
  <2>2. CASE c \in torn
    BY <2>1, <2>2 DEF GenOK
  <2>3. CASE c \notin torn
    <3>1. \A q \in Generating(c) : q = r
      BY <1>1, <1>3, <2>1, <2>3, GenOne
    <3>2. /\ pc[r] # "fillKey" => key[c] = r
          /\ pc[r] \in {"truncCsr", "fillCsr"} => hand[r] = r
      BY <1>1, <1>3, <2>1, <2>3, GenOne
    <3>3. /\ pc'[r] \in Within \ {"fillKey"} /\ key'[c] = r
          /\ pc'[r] \in {"truncCsr", "fillCsr"} => hand'[r] = r
      <4>1. CASE FillKey(r)
        BY <1>1, <4>1 DEF FillKey, Put, Goto, Within, TypeOK
      <4>2. CASE ReadKey(r)
        BY <1>1, <3>2, <4>2 DEF ReadKey, Goto, Within, keyVars, TypeOK
      <4>3. CASE TruncCsr(r)
        BY <1>1, <3>2, <4>3 DEF TruncCsr, Goto, Within, callVars, TypeOK
      <4> QED
        BY <1>5, <4>1, <4>2, <4>3
    <3>4. Generating(c)' = {r}
      BY <1>3, <3>1, <3>3
    <3> QED
      BY <3>3, <3>4 DEF GenOK
  <2> QED
    BY <2>2, <2>3
<1>6. CASE FillCsr(r)
  <2>1. pc[r] = "fillCsr" /\ pc'[r] \in {"deliver", "status"} /\ torn' = torn
    BY <1>1, <1>6 DEF FillCsr, Goto, faultVars, TypeOK
  <2>2. CASE c \in torn
    BY <2>1, <2>2 DEF GenOK
  <2>3. CASE c \notin torn
    <3>1. r \in Generating(c)
      BY <1>3, <2>1 DEF Within
    <3>2. /\ \A q \in Generating(c) : q = r
          /\ key[c] = r /\ hand[r] = r
      BY <1>1, <2>1, <2>3, <3>1, GenOne
    <3>3. Generating(c)' = {}
      BY <1>3, <2>1, <3>2 DEF Within
    <3>4. csr'[c] = r /\ key'[c] = r
      BY <1>1, <1>6, <3>2 DEF FillCsr, Put, TypeOK
    <3> QED
      BY <3>3, <3>4, Texts DEF GenOK
  <2> QED
    BY <2>2, <2>3
<1> QED
  BY <1>4, <1>5, <1>6

LEMMA GenGenerate ==
  ASSUME CertInv, GenInv, NEW r \in Calls,
         TruncKey(r) \/ FillKey(r) \/ ReadKey(r) \/ TruncCsr(r) \/ FillCsr(r)
  PROVE  GenInv'
<1>1. TypeOK /\ Cuit(r) \in Cuits
  BY OpenCall DEF CertInv, TruncKey, FillKey, ReadKey, TruncCsr, FillCsr
<1>2. /\ job' = job
      /\ \A q \in Calls \ {r} : UNCHANGED <<pc[q], hand[q]>>
      /\ \A c \in Cuits \ {Cuit(r)} : /\ key'[c] = key[c] /\ csr'[c] = csr[c]
                                      /\ c \in torn => c \in torn'
  BY <1>1 DEF TruncKey, FillKey, ReadKey, TruncCsr, FillCsr, Put, Goto, Reply, callVars, keyVars,
              faultVars, TypeOK
<1> SUFFICES ASSUME NEW c \in Cuits PROVE GenOK(c)'
  BY DEF GenInv
<1>3. CASE c = Cuit(r)
  BY <1>3, GenHere
<1>4. CASE c # Cuit(r)
  <2>1. key'[c] = key[c] /\ csr'[c] = csr[c] /\ (c \in torn => c \in torn')
    BY <1>2, <1>4
  <2> QED
    BY <1>2, <1>4, <2>1, GenElsewhere
<1> QED
  BY <1>3, <1>4

LEMMA GenFailure ==
  ASSUME CertInv, GenInv, NEW r \in Calls, StoreFails(r) \/ OpensslFails(r) \/ UploadAborts(r)
  PROVE  GenInv'
<1>1. TypeOK /\ Cuit(r) \in Cuits /\ pc[r] # "idle"
  BY OpenCall DEF CertInv, StoreFails, OpensslFails, UploadAborts
<1>2. /\ UNCHANGED <<job, hand, key, csr>>
      /\ torn' = torn \cup {c \in {Cuit(r)} : r \in Generating(c)}
      /\ \A q \in Calls \ {r} : pc'[q] = pc[q]
      /\ pc'[r] \notin Within
  BY <1>1 DEF StoreFails, OpensslFails, UploadAborts, Failure, Reply, Goto, callVars, keyVars, Within,
              TypeOK
<1>3. CASE pc[r] \notin Within
  BY <1>2, <1>3, GenQuiet
<1>4. CASE pc[r] \in Within
  <2>1. Cuit(r) \in torn'
    BY <1>2, <1>4 DEF Generating, Within
  <2> SUFFICES ASSUME NEW c \in Cuits PROVE GenOK(c)'
    BY DEF GenInv
  <2>2. CASE c = Cuit(r)
    BY <2>1, <2>2 DEF GenOK
  <2>3. CASE c # Cuit(r)
    BY <1>2, <2>3, GenElsewhere
  <2> QED
    BY <2>2, <2>3
<1> QED
  BY <1>3, <1>4

LEMMA GenCrash ==
  ASSUME GenInv, Crash
  PROVE  GenInv'
<1> SUFFICES ASSUME NEW c \in Cuits, c \notin torn' PROVE GenOK(c)'
  BY DEF GenInv, GenOK
<1>1. /\ UNCHANGED <<job, hand, key, csr>>
      /\ c \notin torn /\ Generating(c) = {}
      /\ \A q \in Calls : pc'[q] \in {pc[q], "lost"}
  BY DEF Crash, callVars, keyVars
<1>2. Generating(c)' = {}
  BY <1>1 DEF Generating, Cuit
<1> QED
  BY <1>1, <1>2 DEF GenInv, GenOK

LEMMA GenNext == CertInv /\ GenInv /\ [Next]_vars => GenInv'
<1> SUFFICES ASSUME CertInv, GenInv, [Next]_vars PROVE GenInv'
  OBVIOUS
<1>1. CASE UNCHANGED vars
  BY <1>1 DEF vars, GenInv, GenOK, Generating, Cuit
<1> QED
  BY <1>1, GenIdle, GenGenerate, GenFailure, GenCrash DEF Next, Handle

\* A document that waits for its certificate has a CSR on disk, whatever stale
\* status is written back.  Unless openssl is at work it is a whole one, of the
\* key that is on disk, and one generation that runs alone makes it so again
\* whatever overlapping, failing or dying ones have left.
THEOREM PendingHasItsCsr == Spec => []PendingHasCsr
<1>1. CertInv /\ GenInv => PendingHasCsr
  <2> SUFFICES ASSUME CertInv, GenInv, NEW c \in Cuits, doc[c].status = "pending_crt"
               PROVE  /\ csr[c] # Absent
                      /\ c \notin torn /\ Generating(c) = {} => csr[c] \in Calls /\ csr[c] = key[c]
    BY DEF PendingHasCsr
  <2>1. csr[c] # Absent /\ csr[c] \in {Absent, Empty} \cup Calls
    BY DEF CertInv, CuitOK, TypeOK
  <2> QED
    BY <2>1 DEF GenInv, GenOK
<1>2. Init => CertInv /\ GenInv
  BY CertInit, GenInit
<1>3. CertInv /\ GenInv /\ [Next]_vars => (CertInv /\ GenInv)'
  BY CertNext, GenNext
<1> QED
  BY <1>1, <1>2, <1>3, PTL DEF Spec
-----------------------------------------------------------------------------
(* Owners. *)

\* An owner is changed by a rival's write only.
LEMMA OwnerStays ==
  ASSUME CertInv, Next, NEW c \in Cuits, doc[c] # NoDoc, Rivals(c) = {}
  PROVE  doc'[c].owner = doc[c].owner
<1>1. ASSUME NEW r \in Calls, pc[r] = "write", Upsert(r)
      PROVE  doc'[c].owner = doc[c].owner
  <2>1. Cuit(r) = c => job[r].account = doc[c].owner
    BY <1>1 DEF Rivals
  <2> QED
    BY <1>1, <2>1 DEF Upsert, CertInv, TypeOK
<1>2. ASSUME NEW r \in Calls, pc[r] = "status", SetCuitStatus(r)
      PROVE  doc'[c].owner = doc[c].owner
  <2>1. doc[c] \in [owner: Accounts, status: Statuses]
    BY DEF CertInv, TypeOK, Docs
  <2> QED
    BY <1>2, <2>1 DEF SetCuitStatus, CertInv, TypeOK
<1>3. CASE UNCHANGED doc
  BY <1>3
<1>4. ASSUME NEW r \in Calls, Arrive(r) \/ Handle(r)
      PROVE  doc' = doc \/ (pc[r] = "write" /\ Upsert(r)) \/ (pc[r] = "status" /\ SetCuitStatus(r))
  BY <1>4 DEF Arrive, Handle, Read, Reread, Write, Own, Decide, SetStatus, TruncKey, FillKey, ReadKey,
              TruncCsr, FillCsr, Deliver, TruncCrt, FillCrt, Unlink, docVars
<1>5. ASSUME NEW r \in Calls, StoreFails(r) \/ OpensslFails(r) \/ UploadAborts(r)
      PROVE  doc' = doc \/ (pc[r] = "write" /\ Upsert(r)) \/ (pc[r] = "status" /\ SetCuitStatus(r))
  BY <1>5 DEF StoreFails, OpensslFails, UploadAborts, docVars
<1>6. Crash => UNCHANGED doc
  BY DEF Crash, docVars
<1> QED
  BY <1>1, <1>2, <1>3, <1>4, <1>5, <1>6 DEF Next

\* Whoever comes to write has seen the document and its owner.
LEMMA NoNewRival ==
  ASSUME CertInv, Next, NEW c \in Cuits, doc[c] # NoDoc, NEW q \in Calls,
         pc'[q] = "write", Cuit(q)' = c
  PROVE  (pc[q] = "write" /\ job'[q] = job[q]) \/ job'[q].account = doc[c].owner
<1>1. TypeOK
  BY DEF CertInv
<1>2. ASSUME NEW r \in Calls, Arrive(r)
      PROVE  pc[q] = "write" /\ job'[q] = job[q]
  <2>1. PICK j \in Jobs : /\ job' = [job EXCEPT ![r] = j]
                          /\ Goto(r, First(j.op)) \/ Reply(r, "badRequest")
    BY <1>2 DEF Arrive
  <2>2. q # r
    BY <1>1, <2>1 DEF Goto, Reply, First, TypeOK
  <2> QED
    BY <1>1, <2>1, <2>2 DEF Goto, Reply, TypeOK
<1>3. ASSUME NEW r \in Calls, Handle(r) \/ StoreFails(r) \/ OpensslFails(r) \/ UploadAborts(r)
      PROVE  job' = job
  BY <1>3 DEF Handle, Read, Reread, Write, Own, Decide, SetStatus, TruncKey, FillKey, ReadKey,
              TruncCsr, FillCsr, Deliver, TruncCrt, FillCrt, Unlink, StoreFails, OpensslFails,
              UploadAborts, Failure, callVars
<1>4. ASSUME NEW r \in Calls, Read(r) \/ Reread(r)
      PROVE  pc[q] = "write" \/ job[q].account = doc[c].owner
  <2>1. CASE q = r
    <3>1. Cuit(r) = c
      BY <1>3, <1>4, <2>1 DEF Handle, Cuit
    <3> QED
      BY <1>1, <1>4, <2>1, <3>1 DEF Read, Reread, Goto, Reply, Owned, TypeOK
  <2>2. CASE q # r
    BY <1>1, <1>4, <2>2 DEF Read, Reread, Goto, Reply, TypeOK
  <2> QED
    BY <2>1, <2>2
<1>5. ASSUME NEW r \in Calls, Handle(r) \/ StoreFails(r) \/ OpensslFails(r) \/ UploadAborts(r),
             ~ Read(r), ~ Reread(r)
      PROVE  pc[q] = "write"
  BY <1>1, <1>5
  DEF Handle, Write, Own, Decide, SetStatus, TruncKey, FillKey, ReadKey, TruncCsr, FillCsr, Deliver,
      TruncCrt, FillCrt, Unlink, StoreFails, OpensslFails, UploadAborts, Goto, Reply, TypeOK
<1>6. Crash => pc[q] = "write" /\ job' = job
  BY <1>1 DEF Crash, callVars, TypeOK
<1> QED
  BY <1>2, <1>3, <1>4, <1>5, <1>6 DEF Next

\* Once no call is left that wants to write a document for another account, the
\* owner of the CUIT is settled for good.
THEOREM OwnersAreSettled == Spec => OwnerIsSettled
<1>1. CertInv /\ [Next]_vars =>
        [\A c \in Cuits : doc[c] # NoDoc /\ Rivals(c) = {} =>
           Rivals(c)' = {} /\ doc'[c].owner = doc[c].owner]_vars
  <2> SUFFICES ASSUME CertInv, Next, NEW c \in Cuits, doc[c] # NoDoc, Rivals(c) = {}
               PROVE  Rivals(c)' = {} /\ doc'[c].owner = doc[c].owner
    OBVIOUS
  <2>1. doc'[c].owner = doc[c].owner
    BY OwnerStays
  <2>2. ASSUME NEW q \in Calls, pc'[q] = "write", Cuit(q)' = c
        PROVE  job'[q].account = doc'[c].owner
    <3>1. (pc[q] = "write" /\ job'[q] = job[q]) \/ job'[q].account = doc[c].owner
      BY <2>2, NoNewRival
    <3>2. CASE pc[q] = "write" /\ job'[q] = job[q]
      BY <2>1, <2>2, <3>2 DEF Rivals, Cuit
    <3> QED
      BY <2>1, <3>1, <3>2
  <2> QED
    BY <2>1, <2>2 DEF Rivals
<1> QED
  BY <1>1, CertAlways, PTL DEF Spec, OwnerIsSettled
-----------------------------------------------------------------------------
(* CUITs that are not spoilt. *)

Sound(c) == doc[c].status = "ready" => crt[c] \in Calls /\ crt[c] = key[c]

\* How the one call at a CUIT goes: until it makes a new key, and after the
\* document has said so, the CUIT is sound; an upload brings the certificate
\* of the key on disk.
Course(r) ==
  /\ Op(r) \notin PosOps
  /\ pc[r] \in {"read", "reread", "write", "decide", "deliver"} => Sound(Cuit(r))
  /\ pc[r] = "own" /\ Op(r) \notin Uploads => Sound(Cuit(r))
  /\ pc[r] \in {"write", "decide"} => rec[r] = doc[Cuit(r)]
  /\ pc[r] = "readKey" => key[Cuit(r)] \in Calls
  /\ pc[r] \in OpensslSteps /\ Op(r) = "csr" => rec[r].status = "pending_csr"
  /\ Op(r) \in Uploads => /\ pc[r] \in {"truncCrt", "fillCrt", "own", "status"}
                          /\ job[r].file \in Calls /\ job[r].file = key[Cuit(r)]
                          /\ doc[Cuit(r)].owner = job[r].account
  /\ Op(r) \in Uploads /\ pc[r] \in {"own", "status"} => crt[Cuit(r)] = job[r].file

Good(c) ==
  /\ \A q, r \in At(c) : q = r
  /\ At(c) = {} => Sound(c)
  /\ \A r \in At(c) : Course(r)

PairInv == \A c \in Cuits \ spoilt : Good(c)

LEMMA PairInit == Init => PairInv
BY Texts DEF Init, PairInv, Good, At, Open, Resting, Sound, Absent

\* A step of r leaves the other CUITs as good as they are.
LEMMA PairFrame ==
  ASSUME PairInv, NEW r \in Open, job' = job, spoilt \subseteq spoilt',
         \A q \in Calls \ {r} :
           /\ rec'[q] = rec[q]
           /\ pc'[q] = pc[q] \/ (pc[q] = "fillCrt" /\ pc'[q] = "fillGone" /\ Cuit(q) = Cuit(r)),
         \A c \in Cuits \ {Cuit(r)} : UNCHANGED <<doc[c], key[c], crt[c]>>,
         Cuit(r) \in Cuits \ spoilt' =>
           IF pc'[r] \in Resting THEN Sound(Cuit(r))' ELSE Course(r)'
  PROVE  PairInv'
<1> SUFFICES ASSUME NEW c \in Cuits \ spoilt' PROVE Good(c)'
  BY DEF PairInv
<1>1. Good(c) /\ Cuit(r)' = Cuit(r)
  BY DEF PairInv, Cuit
<1>2. CASE c = Cuit(r)
  <2>1. At(c) = {r}
    BY <1>1, <1>2 DEF Good, At
  <2>2. At(c)' = IF pc'[r] \in Resting THEN {} ELSE {r}
    BY <1>1, <1>2, <2>1 DEF At, Open, Resting, Cuit
  <2>3. IF pc'[r] \in Resting THEN Sound(c)' ELSE Course(r)'
    BY <1>1, <1>2
  <2> QED
    BY <2>2, <2>3 DEF Good
<1>3. CASE c # Cuit(r)
  <2>1. /\ At(c)' = At(c) /\ r \notin At(c)
        /\ \A q \in At(c) : UNCHANGED <<pc[q], rec[q], job[q], Cuit(q)>> /\ Cuit(q) = c
    BY <1>3 DEF At, Open, Resting, Cuit
  <2>2. UNCHANGED <<doc[c], key[c], crt[c]>>
    BY <1>3
  <2>3. ASSUME NEW q \in At(c) PROVE Course(q)'
    <3>1. /\ Course(q) /\ Cuit(q) = c /\ UNCHANGED <<pc[q], rec[q], job[q], Cuit(q)>>
      BY <1>1, <2>1 DEF Good
    <3>2. Sound(c)' <=> Sound(c)
      BY <2>2 DEF Sound
    <3>3. Cuit(q)' = c /\ Op(q)' = Op(q)
      BY <3>1 DEF Op
    <3> QED
      BY <2>2, <3>1, <3>2, <3>3 DEF Course, Sound
  <2>4. Sound(c)' <=> Sound(c)
    BY <2>2 DEF Sound
  <2> QED
    BY <1>1, <2>1, <2>3, <2>4 DEF Good
<1> QED
  BY <1>2, <1>3

LEMMA PairArrive ==
  ASSUME CertInv, PairInv, NEW r \in Calls, Arrive(r)
  PROVE  PairInv'
<1>1. PICK j \in Jobs :
        /\ job' = [job EXCEPT ![r] = j]
        /\ IF j.op \in Uploads /\ j.file = Absent
           THEN Reply(r, "badRequest") /\ UNCHANGED spoilt
           ELSE /\ Goto(r, First(j.op))
                /\ spoilt' = spoilt \cup
                     (IF At(j.cuit) # {} \/ Misplaced(j) THEN {j.cuit} ELSE {})
  BY DEF Arrive
<1>2. TypeOK /\ pc[r] = "idle" /\ UNCHANGED <<rec, doc, key, crt>>
  BY DEF CertInv, Arrive, docVars, keyVars, crtVars
<1>3. /\ \A q \in Calls \ {r} : UNCHANGED <<pc[q], rec[q], job[q], Cuit(q)>>
      /\ job'[r] = j /\ Cuit(r)' = j.cuit /\ Op(r)' = j.op /\ spoilt \subseteq spoilt'
      /\ \A c \in Cuits : Sound(c)' <=> Sound(c)
  BY <1>1, <1>2 DEF Goto, Reply, TypeOK, Cuit, Op, Sound
<1> SUFFICES ASSUME NEW c \in Cuits \ spoilt' PROVE Good(c)'
  BY DEF PairInv
<1>4. Good(c) /\ r \notin At(c)
  BY <1>2, <1>3 DEF PairInv, At, Open, Resting
<1>5. ASSUME NEW q \in At(c) PROVE Course(q)'
  <2>1. q # r /\ Course(q) /\ Cuit(q) = c
    BY <1>4 DEF Good, At
  <2>2. Cuit(q)' = c /\ Op(q)' = Op(q) /\ UNCHANGED <<pc[q], rec[q], job[q]>>
    BY <1>3, <2>1 DEF Op, At, Open
  <2> QED
    BY <1>2, <1>3, <2>1, <2>2 DEF Course, Sound
<1>6. CASE pc'[r] = "done" \/ c # j.cuit
  <2>1. At(c)' = At(c)
    BY <1>2, <1>3, <1>6 DEF At, Open, Resting
  <2> QED
    BY <1>3, <1>4, <1>5, <2>1 DEF Good
<1>7. CASE pc'[r] # "done" /\ c = j.cuit
  <2>1. /\ pc'[r] = First(j.op) /\ ~ (j.op \in Uploads /\ j.file = Absent)
        /\ At(c) = {} /\ ~ Misplaced(j)
    BY <1>1, <1>2, <1>7 DEF Goto, Reply, TypeOK
  <2>2. At(c)' = {r}
    BY <1>2, <1>3, <1>7, <2>1 DEF At, Open, Resting, First
  <2>3. Sound(c)'
    BY <1>3, <1>4, <2>1 DEF Good
  <2>4. j.op \in (CreateOps \cup Uploads) \ PosOps
    BY <2>1, JobParts, OpsAreKnown DEF Misplaced
  <2>5. j.op \in Uploads => j.file \in Calls /\ j.file = key[c] /\ doc[c].owner = j.account
    <3>1. key[c] \in {Absent, Empty} \cup Calls /\ j.file \in {Absent, Other} \cup Calls
      BY <1>2, JobParts DEF TypeOK
    <3> QED
      BY <1>7, <2>1, <3>1, Texts DEF Misplaced
  <2>6. Course(r)'
    <3>1. /\ pc'[r] \in {"read", "own", "truncCrt"}
          /\ j.op \in Uploads <=> pc'[r] = "truncCrt"
      BY <2>1, <2>4 DEF First, CreateOps, Uploads, PosOps
    <3> QED
      BY <1>2, <1>3, <1>7, <2>3, <2>4, <2>5, <3>1 DEF Course, OpensslSteps
  <2> QED
    BY <2>2, <2>6 DEF Good
<1> QED
  BY <1>6, <1>7

\* What is known of a call at a CUIT that is not spoilt.
LEMMA GoodCall ==
  ASSUME CertInv, PairInv, NEW r \in Open
  PROVE  /\ TypeOK /\ CallOK(r) /\ Cuit(r) \in Cuits /\ CuitOK(Cuit(r))
         /\ doc[Cuit(r)] \in Docs
         /\ Cuit(r) \notin spoilt => Course(r)
<1>1. r \in Calls /\ pc[r] # "idle"
  BY DEF Open, Resting
<1>2. Cuit(r) \in Cuits /\ doc[Cuit(r)] \in Docs
  BY <1>1, OpenCall
<1> QED
  BY <1>1, <1>2 DEF CertInv, PairInv, Good, At

LEMMA PairRead ==
  ASSUME CertInv, PairInv, NEW r \in Calls, Read(r) \/ Reread(r) \/ Own(r)
  PROVE  PairInv'
<1>1. r \in Open /\ pc[r] \in {"read", "reread", "own"}
  BY DEF Read, Reread, Own, Open, Resting
<1>2. /\ TypeOK /\ Stage(r) /\ Cuit(r) \in Cuits /\ doc[Cuit(r)] \in Docs
      /\ Cuit(r) \notin spoilt => Course(r)
  BY <1>1, GoodCall DEF CallOK
<1>3. /\ UNCHANGED <<job, doc, key, crt, spoilt>>
      /\ rec' = [rec EXCEPT ![r] = doc[Cuit(r)]]
      /\ \A q \in Calls \ {r} : UNCHANGED <<pc[q], rec[q]>>
  BY <1>2 DEF Read, Reread, Own, Goto, Reply, docVars, keyVars, crtVars, TypeOK
<1>4. /\ rec'[r] = doc[Cuit(r)] /\ Op(r)' = Op(r) /\ Cuit(r)' = Cuit(r)
      /\ Sound(Cuit(r))' <=> Sound(Cuit(r))
  BY <1>2, <1>3 DEF TypeOK, Op, Cuit, Sound
<1>5. ASSUME Course(r)
      PROVE  IF pc'[r] \in Resting THEN Sound(Cuit(r))' ELSE Course(r)'
  <2>1. CASE Read(r) \/ Reread(r)
    <3>1. Op(r) \notin Uploads /\ Sound(Cuit(r)) /\ pc[r] \in {"read", "reread"}
      BY <2>1, <1>2, <1>5 DEF Read, Reread, Stage, Course, Uploads
    <3>2. /\ pc'[r] \in {"decide", "write", "reread", "truncKey", "done"}
          /\ pc'[r] = "truncKey" => Op(r) # "csr"
      BY <2>1, <1>2 DEF Read, Reread, Goto, Reply, TypeOK, Op
    <3> QED
      BY <1>3, <1>4, <1>5, <3>1, <3>2 DEF Course, OpensslSteps, Resting
  <2>2. CASE Own(r) /\ Op(r) \notin Uploads
    <3>1. Sound(Cuit(r)) /\ Op(r) = "v1renew"
      BY <2>2, <1>2, <1>5 DEF Own, Stage, Course, Uploads
    <3>2. pc'[r] \in {"truncKey", "done"}
      BY <2>2, <1>2, <3>1 DEF Own, Goto, Reply, TypeOK, Op
    <3> QED
      BY <1>3, <1>4, <1>5, <3>1, <3>2 DEF Course, OpensslSteps, Resting, Uploads
  <2>3. CASE Own(r) /\ Op(r) \in Uploads
    <3>1. /\ job[r].file \in Calls /\ job[r].file = key[Cuit(r)]
          /\ doc[Cuit(r)].owner = job[r].account /\ crt[Cuit(r)] = job[r].file
      BY <2>3, <1>5 DEF Own, Course
    <3>2. pc'[r] = "status"
      BY <2>3, <1>2, <3>1 DEF Own, Owned, Goto, TypeOK, Op, Uploads
    <3> QED
      BY <1>3, <1>4, <1>5, <2>3, <3>1, <3>2 DEF Course, OpensslSteps, Resting
  <2> QED
    BY <2>1, <2>2, <2>3
<1> QED
  BY <1>1, <1>2, <1>3, <1>5, PairFrame

LEMMA PairDecide ==
  ASSUME CertInv, PairInv, NEW r \in Calls, Decide(r)
  PROVE  PairInv'
<1>1. r \in Open /\ pc[r] = "decide"
  BY DEF Decide, Open, Resting
<1>2. /\ TypeOK /\ Op(r) = "csr" /\ Cuit(r) \in Cuits /\ doc[Cuit(r)] \in Docs
      /\ CuitOK(Cuit(r)) /\ job[r] \in Jobs
      /\ Cuit(r) \notin spoilt => Course(r)
  BY <1>1, GoodCall DEF CallOK, Stage
<1>3. /\ UNCHANGED <<job, rec, doc, key, crt, spoilt>>
      /\ \A q \in Calls \ {r} : UNCHANGED <<pc[q], rec[q]>>
  BY <1>2 DEF Decide, Goto, Reply, callVars, docVars, keyVars, crtVars, TypeOK
<1>4. /\ Op(r)' = Op(r) /\ Cuit(r)' = Cuit(r)
      /\ Sound(Cuit(r))' <=> Sound(Cuit(r))
  BY <1>2, <1>3 DEF Op, Cuit, Sound
<1>5. ASSUME Course(r)
      PROVE  IF pc'[r] \in Resting THEN Sound(Cuit(r))' ELSE Course(r)'
  <2>1. Sound(Cuit(r)) /\ rec[r] = doc[Cuit(r)]
    BY <1>1, <1>5 DEF Course
  <2>2. pc'[r] \in {"truncKey", "status", "deliver", "done"}
    BY <1>2 DEF Decide, Goto, Reply, TypeOK
  <2>3. pc'[r] = "truncKey" => rec[r].status = "pending_csr"
    <3> SUFFICES ASSUME pc'[r] = "truncKey" PROVE rec[r].status = "pending_csr"
      OBVIOUS
    <3>1. csr[Cuit(r)] = Absent /\ rec[r].owner = job[r].account
      BY <1>2 DEF Decide, Owned, Goto, Reply, TypeOK
    <3>2. job[r].account \in Accounts
      BY <1>2, JobParts DEF Op, PosOps
    <3>3. rec[r].status \in Statuses
      BY <1>2, <2>1, <3>1, <3>2, Texts
    <3>4. rec[r].status # "pending_crt"
      BY <1>2, <2>1, <3>1 DEF CuitOK
    <3>5. rec[r].status # "ready"
      BY <1>2, <2>1, <3>1 DEF CuitOK, Sound
    <3> QED
      BY <3>3, <3>4, <3>5 DEF Statuses
  <2> QED
    BY <1>2, <1>3, <1>4, <1>5, <2>1, <2>2, <2>3 DEF Course, OpensslSteps, Resting, Uploads
<1> QED
  BY <1>1, <1>2, <1>3, <1>5, PairFrame

LEMMA PairWrite ==
  ASSUME CertInv, PairInv, NEW r \in Calls, Write(r)
  PROVE  PairInv'
<1>1. r \in Open /\ pc[r] = "write"
  BY DEF Write, Open, Resting
<1>2. /\ TypeOK /\ Op(r) \in {"create", "v1generate"} /\ Cuit(r) \in Cuits
      /\ Cuit(r) \notin spoilt => Course(r)
  BY <1>1, GoodCall DEF CallOK, Stage
<1>3. /\ UNCHANGED <<job, rec, key, crt, spoilt>>
      /\ \A q \in Calls \ {r} : UNCHANGED <<pc[q], rec[q]>>
      /\ doc'[Cuit(r)].status = UpsertStatus(r)
      /\ \A c \in Cuits \ {Cuit(r)} : doc'[c] = doc[c]
      /\ pc'[r] = IF Op(r) = "create" THEN "done" ELSE "truncKey"
  BY <1>2 DEF Write, Upsert, Goto, Reply, callVars, keyVars, crtVars, TypeOK, Op
<1>4. Op(r)' = Op(r) /\ Cuit(r)' = Cuit(r)
  BY <1>3 DEF Op, Cuit
<1>5. ASSUME Course(r)
      PROVE  IF pc'[r] \in Resting THEN Sound(Cuit(r))' ELSE Course(r)'
  <2>1. Sound(Cuit(r)) /\ rec[r] = doc[Cuit(r)]
    BY <1>1, <1>5 DEF Course
  <2>2. Sound(Cuit(r))'
    BY <1>3, <1>4, <2>1 DEF Sound, UpsertStatus
  <2> QED
    BY <1>2, <1>3, <1>4, <1>5, <2>2 DEF Course, OpensslSteps, Resting, Uploads
<1> QED
  BY <1>1, <1>2, <1>3, <1>5, PairFrame

LEMMA PairSetStatus ==
  ASSUME CertInv, PairInv, NEW r \in Calls, SetStatus(r)
  PROVE  PairInv'
<1>1. r \in Open /\ pc[r] = "status" /\ pc[r] \in Changing
  BY DEF SetStatus, Open, Resting, Changing
<1>2. /\ TypeOK /\ Op(r) \in {"csr", "v1generate", "v1renew", "upload", "v1upload"}
      /\ Cuit(r) \in Cuits /\ doc[Cuit(r)] \in Docs
      /\ Cuit(r) \notin spoilt => Course(r)
  BY <1>1, GoodCall DEF CallOK, Stage
<1>3. doc[Cuit(r)] # NoDoc
  BY <1>1, <1>2, Owner DEF PosOps
<1>4. /\ UNCHANGED <<job, rec, key, crt, spoilt>>
      /\ \A q \in Calls \ {r} : UNCHANGED <<pc[q], rec[q]>>
      /\ doc'[Cuit(r)].status = NextStatus(r)
      /\ \A c \in Cuits \ {Cuit(r)} : doc'[c] = doc[c]
      /\ pc'[r] = IF Op(r) \in Uploads THEN "done" ELSE "deliver"
  BY <1>2, <1>3 DEF SetStatus, SetCuitStatus, Goto, Reply, callVars, keyVars, crtVars, TypeOK, Op, Docs
<1>5. Op(r)' = Op(r) /\ Cuit(r)' = Cuit(r)
  BY <1>4 DEF Op, Cuit
<1>6. ASSUME Course(r)
      PROVE  IF pc'[r] \in Resting THEN Sound(Cuit(r))' ELSE Course(r)'
  <2>1. Op(r) \in Uploads =>
          /\ job[r].file \in Calls /\ job[r].file = key[Cuit(r)] /\ crt[Cuit(r)] = job[r].file
    BY <1>1, <1>6 DEF Course
  <2>2. Sound(Cuit(r))'
    BY <1>4, <1>5, <2>1 DEF Sound, NextStatus, Op
  <2> QED
    BY <1>2, <1>4, <1>5, <1>6, <2>2 DEF Course, OpensslSteps, Resting
<1> QED
  BY <1>1, <1>2, <1>4, <1>6, PairFrame

LEMMA PairGenerate ==
  ASSUME CertInv, PairInv, NEW r \in Calls,
         TruncKey(r) \/ FillKey(r) \/ ReadKey(r) \/ TruncCsr(r) \/ FillCsr(r)
  PROVE  PairInv'
<1>1. r \in Open /\ pc[r] \in OpensslSteps
  BY DEF TruncKey, FillKey, ReadKey, TruncCsr, FillCsr, Open, Resting, OpensslSteps
<1>2. /\ TypeOK /\ Op(r) \in {"csr", "v1generate", "v1renew", "posGenerate"} /\ Cuit(r) \in Cuits
      /\ Cuit(r) \notin spoilt => Course(r)
  BY <1>1, GoodCall DEF CallOK, Stage
<1>3. /\ UNCHANGED <<job, rec, doc, crt, spoilt>>
      /\ \A q \in Calls \ {r} : UNCHANGED <<pc[q], rec[q]>>
      /\ \A c \in Cuits \ {Cuit(r)} : key'[c] = key[c]
  BY <1>2 DEF TruncKey, FillKey, ReadKey, TruncCsr, FillCsr, Put, Goto, Reply, callVars, docVars,
              keyVars, crtVars, TypeOK
<1>4. Op(r)' = Op(r) /\ Cuit(r)' = Cuit(r)
  BY <1>3 DEF Op, Cuit
<1>5. ASSUME Course(r)
      PROVE  IF pc'[r] \in Resting THEN Sound(Cuit(r))' ELSE Course(r)'
  <2>1. /\ Op(r) \notin PosOps /\ Op(r) \notin Uploads
        /\ Op(r) = "csr" => rec[r].status = "pending_csr"
        /\ pc[r] = "readKey" => key[Cuit(r)] \in Calls
    BY <1>1, <1>2, <1>5 DEF Course, Uploads
  <2>2. /\ pc'[r] \in OpensslSteps \cup {"status"}
        /\ pc'[r] = "readKey" => key'[Cuit(r)] \in Calls
    <3>1. CASE TruncKey(r) \/ FillKey(r)
      BY <1>2, <3>1 DEF TruncKey, FillKey, Put, Goto, TypeOK, OpensslSteps
    <3>2. CASE ReadKey(r)
      BY <1>2, <2>1, <3>2 DEF ReadKey, Goto, TypeOK, OpensslSteps
    <3>3. CASE TruncCsr(r) \/ FillCsr(r)
      BY <1>2, <2>1, <3>3 DEF TruncCsr, FillCsr, Goto, TypeOK, OpensslSteps, Op
    <3> QED
      BY <3>1, <3>2, <3>3
  <2> QED
    BY <1>3, <1>4, <2>1, <2>2 DEF Course, OpensslSteps, Resting
<1> QED
  BY <1>1, <1>2, <1>3, <1>5, PairFrame

LEMMA PairDeliver ==
  ASSUME CertInv, PairInv, NEW r \in Calls, Deliver(r)
  PROVE  PairInv'
<1>1. r \in Open /\ pc[r] = "deliver"
  BY DEF Deliver, Open, Resting
<1>2. TypeOK /\ Cuit(r) \in Cuits /\ (Cuit(r) \notin spoilt => Course(r))
  BY <1>1, GoodCall
<1>3. /\ UNCHANGED <<job, rec, doc, key, crt, spoilt>>
      /\ \A q \in Calls \ {r} : UNCHANGED <<pc[q], rec[q]>>
      /\ pc'[r] = "done"
  BY <1>2 DEF Deliver, Goto, Reply, callVars, docVars, keyVars, crtVars, TypeOK
<1>4. Course(r) => Sound(Cuit(r))'
  BY <1>1, <1>3 DEF Course, Sound, Cuit
<1> QED
  BY <1>1, <1>2, <1>3, <1>4, PairFrame DEF Resting

LEMMA PairUpload ==
  ASSUME CertInv, PairInv, NEW r \in Calls, TruncCrt(r) \/ FillCrt(r) \/ Unlink(r)
  PROVE  PairInv'
<1>1. r \in Open /\ pc[r] \in {"truncCrt", "fillCrt", "fillGone", "unlink"}
  BY DEF TruncCrt, FillCrt, Unlink, Open, Resting
<1>2. /\ TypeOK /\ Op(r) \in Uploads /\ Cuit(r) \in Cuits
      /\ Cuit(r) \notin spoilt => Course(r)
  BY <1>1, GoodCall DEF CallOK, Stage, Uploads
<1>3. /\ UNCHANGED <<job, rec, doc, key, spoilt>>
      /\ \A q \in Calls \ {r} :
           /\ rec'[q] = rec[q]
           /\ pc'[q] = pc[q] \/ (pc[q] = "fillCrt" /\ pc'[q] = "fillGone" /\ Cuit(q) = Cuit(r))
      /\ \A c \in Cuits \ {Cuit(r)} : crt'[c] = crt[c]
  BY <1>2 DEF TruncCrt, FillCrt, Unlink, Put, Goto, Reply, callVars, docVars, keyVars, crtVars, TypeOK
<1>4. Op(r)' = Op(r) /\ Cuit(r)' = Cuit(r)
  BY <1>3 DEF Op, Cuit
<1>5. ASSUME Course(r)
      PROVE  IF pc'[r] \in Resting THEN Sound(Cuit(r))' ELSE Course(r)'
  <2>1. Op(r) # "posUpload" /\ pc[r] \in {"truncCrt", "fillCrt"}
    BY <1>1, <1>2, <1>5 DEF Course, PosOps
  <2>2. /\ pc'[r] \in {"fillCrt", "own"}
        /\ pc'[r] = "own" => crt'[Cuit(r)] = job[r].file
    BY <1>2, <2>1 DEF TruncCrt, FillCrt, Unlink, Put, Goto, TypeOK, Op
  <2> QED
    BY <1>2, <1>3, <1>4, <1>5, <2>2 DEF Course, OpensslSteps, Resting
<1> QED
  BY <1>1, <1>2, <1>3, <1>5, PairFrame

LEMMA PairFailure ==
  ASSUME CertInv, PairInv, NEW r \in Calls, StoreFails(r) \/ OpensslFails(r) \/ UploadAborts(r)
  PROVE  PairInv'
<1>1. /\ r \in Open /\ spoilt' = spoilt \cup {Cuit(r)} /\ UNCHANGED <<job, rec, key, crt>>
  BY DEF StoreFails, OpensslFails, UploadAborts, Failure, callVars, keyVars
<1>2. TypeOK /\ Cuit(r) \in Cuits
  BY <1>1, GoodCall
<1>3. \A q \in Calls \ {r} : pc'[q] = pc[q]
  BY <1>2 DEF StoreFails, OpensslFails, UploadAborts, Goto, Reply, TypeOK
<1>4. \A c \in Cuits \ {Cuit(r)} : doc'[c] = doc[c]
  BY <1>2 DEF StoreFails, OpensslFails, UploadAborts, Upsert, SetCuitStatus, docVars, TypeOK
<1> QED
  BY <1>1, <1>2, <1>3, <1>4, PairFrame

LEMMA PairCrash ==
  ASSUME CertInv, PairInv, Crash
  PROVE  PairInv'
<1>1. /\ UNCHANGED <<job, doc, key, crt>> /\ spoilt' = spoilt \cup {Cuit(r) : r \in Open}
      /\ Open' = {}
  BY DEF Crash, callVars, docVars, keyVars, crtVars, Open, Resting
<1> SUFFICES ASSUME NEW c \in Cuits \ spoilt' PROVE Good(c)'
  BY DEF PairInv
<1>2. At(c) = {} /\ At(c)' = {}
  BY <1>1 DEF At
<1>3. Sound(c)
  BY <1>1, <1>2 DEF PairInv, Good
<1> QED
  BY <1>1, <1>2, <1>3 DEF Good, Sound

LEMMA PairNext == CertInv /\ PairInv /\ [Next]_vars => PairInv'
<1> SUFFICES ASSUME CertInv, PairInv, [Next]_vars PROVE PairInv'
  OBVIOUS
<1>1. CASE UNCHANGED vars
  BY <1>1 DEF vars, PairInv, Good, At, Open, Cuit, Sound, Course, Op
<1> QED
  BY <1>1, PairArrive, PairRead, PairDecide, PairWrite, PairSetStatus, PairGenerate, PairDeliver,
     PairUpload, PairFailure, PairCrash
  DEF Next, Handle

\* A CUIT at rest that is ready has a certificate of the key on disk, as long
\* as its calls have come one at a time and well.
THEOREM ReadyCuitsArePaired == Spec => []ReadyIsPaired
<1>1. PairInv => ReadyIsPaired
  BY DEF PairInv, Good, Sound, ReadyIsPaired
<1>2. Init => CertInv /\ PairInv
  BY CertInit, PairInit
<1>3. CertInv /\ PairInv /\ [Next]_vars => (CertInv /\ PairInv)'
  BY CertNext, PairNext
<1> QED
  BY <1>1, <1>2, <1>3, PTL DEF Spec
=============================================================================
