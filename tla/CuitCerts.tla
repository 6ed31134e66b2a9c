----------------------------- MODULE CuitCerts -----------------------------
(***************************************************************************)
(* The document of a CUIT (Firestore cuits/{cuit}) and its key, request    *)
(* and certificate (_keys/{cuit}/poscloud.key, .csr, .crt).                *)
(*                                                                         *)
(* Three generations of endpoints write them, and none locks anything:     *)
(*   account   POST cuits, GET cuits/:cuit/csr, POST cuits/:cuit/crt       *)
(*   v1/certs  POST certs, POST certs/:cuit/crt, POST certs/:cuit/renew    *)
(*   cert      POST cert, POST cert/upload-crt/:cuit (no account, and no   *)
(*             document: only the files)                                   *)
(* A call does one step per await: a read or a write of the document, or   *)
(* what openssl or the upload does to a file.  A file is truncated first   *)
(* and filled later; where two writers meet, the last text is in front and *)
(* openssl reads no further.                                               *)
(*                                                                         *)
(* A key is named after the call that generates it, and a CSR or a         *)
(* certificate after its key.                                              *)
(***************************************************************************)
EXTENDS Naturals, FiniteSets

CONSTANTS
  Calls,       \* HTTP calls that have passed their guard
  Cuits,
  Accounts,
  NoAccount,   \* account of a `cert' call, owner of a document that does not exist
  Ops,         \* the operations an instance looks at
  MaxOpen,     \* bound: calls under way at a time
  MaxFailures, \* bound: failures of Firestore, openssl and connections
  MaxCrashes   \* bound: restarts of the service

CreateOps == {"create", "csr", "v1generate", "v1renew", "posGenerate"}
Uploads == {"upload", "v1upload", "posUpload"}
PosOps == {"posGenerate", "posUpload"}

ASSUME NoAccountIsNone == NoAccount \notin Accounts
ASSUME OpsAreKnown == Ops \subseteq CreateOps \cup Uploads
ASSUME BoundsAreNatural == MaxOpen \in Nat /\ MaxFailures \in Nat /\ MaxCrashes \in Nat

VARIABLES
  pc,         \* the step a call takes next
  job,        \* what it asks for
  rec,        \* the document it has read
  hand,       \* the key its openssl has read
  answer,     \* what its client was answered
  doc,        \* cuits/{cuit}
  key, csr, crt, \* the files of a CUIT
  folders,    \* the CUITs that have a folder
  delivered,  \* history: <<cuit, key>> whose CSR a client has got, so that
              \* ARCA may certify it
  owners,     \* history: <<account, cuit>> that some document has shown
  spoilt,     \* history: CUITs whose calls did not come one at a time and well
  torn,       \* history: CUITs whose last generations overlapped or were cut short
  failures, crashes

vars == <<pc, job, rec, hand, answer, doc, key, csr, crt, folders,
          delivered, owners, spoilt, torn, failures, crashes>>
callVars == <<job, rec, hand>>
docVars == <<doc, owners>>
keyVars == <<key, csr>>
crtVars == <<crt, folders>>
faultVars == <<torn, failures, crashes>>
-----------------------------------------------------------------------------
Absent == "absent"
Empty == "empty"
Other == "other"  \* a file that is no certificate for this CUIT

ASSUME CallsAreNoTexts == Calls \cap {Absent, Empty, Other} = {}

Statuses == {"pending_csr", "pending_crt", "ready"}
NoDoc == [owner |-> NoAccount, status |-> Absent]
Docs == [owner: Accounts, status: Statuses] \cup {NoDoc}

Jobs == {j \in [op: Ops, cuit: Cuits, account: Accounts \cup {NoAccount},
                file: {Absent, Other} \cup Calls] :
           /\ j.op \in PosOps <=> j.account = NoAccount
           /\ j.op \notin Uploads => j.file = Absent}
NoJob == [op |-> "none"]

Phases == {"idle", "read", "reread", "write", "own", "decide",
           "truncKey", "fillKey", "readKey", "truncCsr", "fillCsr",
           "truncCrt", "fillCrt", "fillGone", "status", "unlink", "deliver", "done", "lost"}
Resting == {"idle", "done", "lost"}
Refusals == {"forbidden", "conflict", "badRequest"}
Kinds == {"none", "ok", "error", "gone"} \cup Refusals

Init ==
  /\ pc = [r \in Calls |-> "idle"]
  /\ job = [r \in Calls |-> NoJob]
  /\ rec = [r \in Calls |-> NoDoc]
  /\ hand = [r \in Calls |-> Absent]
  /\ answer = [r \in Calls |-> "none"]
  /\ doc = [c \in Cuits |-> NoDoc]
  /\ key = [c \in Cuits |-> Absent]
  /\ csr = [c \in Cuits |-> Absent]
  /\ crt = [c \in Cuits |-> Absent]
  /\ folders = {}
  /\ delivered = {}
  /\ owners = {}
  /\ spoilt = {}
  /\ torn = {}
  /\ failures = 0
  /\ crashes = 0

Cuit(r) == job[r].cuit
Open == {r \in Calls : pc[r] \notin Resting}
At(c) == {r \in Open : Cuit(r) = c}

Goto(r, phase) == pc' = [pc EXCEPT ![r] = phase]
Reply(r, kind) == Goto(r, "done") /\ answer' = [answer EXCEPT ![r] = kind]
Put(file, r, text) == [file EXCEPT ![Cuit(r)] = text]
-----------------------------------------------------------------------------
(* A call comes in.  multer stores an upload before the handler starts.    *)

First(op) ==
  CASE op \in {"create", "csr", "v1generate"} -> "read"
    [] op = "v1renew" -> "own"
    [] op = "posGenerate" -> "truncKey"
    [] OTHER -> "truncCrt"

\* What cannot leave a CUIT in order: a call beside the document, an upload
\* by somebody else, the certificate of another key.
Misplaced(j) ==
  \/ j.op \in PosOps
  \/ j.op \in Uploads /\ (j.file # key[j.cuit] \/ doc[j.cuit].owner # j.account)

Arrive(r) ==
  /\ pc[r] = "idle"
  /\ Cardinality(Open) < MaxOpen
  /\ \E j \in Jobs :
       /\ j.file \in Calls => <<j.cuit, j.file>> \in delivered
       /\ job' = [job EXCEPT ![r] = j]
       /\ IF j.op \in Uploads /\ j.file = Absent
          THEN Reply(r, "badRequest") /\ UNCHANGED spoilt
          ELSE /\ Goto(r, First(j.op))
               /\ spoilt' = spoilt \cup
                    (IF At(j.cuit) # {} \/ Misplaced(j) THEN {j.cuit} ELSE {})
               /\ UNCHANGED answer
  /\ UNCHANGED <<rec, hand, docVars, keyVars, crtVars, delivered, faultVars>>
-----------------------------------------------------------------------------
(* The document. *)

\* Mutated form: the existence of the document is enough.
OwnedByAnyone(r, d) == d # NoDoc

Owned(r, d) == d.owner = job[r].account

\* getCuit, and what create and generate do with the answer.  For downloadCsr
\* it also matters what is on disk when the answer is looked at.
Read(r) ==
  /\ pc[r] = "read"
  /\ LET d == doc[Cuit(r)] IN
     /\ rec' = [rec EXCEPT ![r] = d]
     /\ \/ /\ job[r].op = "csr"
           /\ Goto(r, "decide") /\ UNCHANGED answer
        \/ /\ job[r].op = "create"
           /\ IF d = NoDoc \/ Owned(r, d) THEN Goto(r, "write") /\ UNCHANGED answer
                                          ELSE Reply(r, "conflict")
        \/ /\ job[r].op = "v1generate"
           /\ CASE d = NoDoc -> Goto(r, "reread") /\ UNCHANGED answer
                [] d # NoDoc /\ Owned(r, d) -> Goto(r, "truncKey") /\ UNCHANGED answer
                [] OTHER -> Reply(r, "forbidden")
  /\ UNCHANGED <<job, hand, docVars, keyVars, crtVars, delivered, spoilt, faultVars>>

\* Mutated form: the owner that has come in between is not looked at.
RereadUnchecked(r) ==
  /\ pc[r] = "reread"
  /\ rec' = [rec EXCEPT ![r] = doc[Cuit(r)]]
  /\ Goto(r, "write")
  /\ UNCHANGED <<job, hand, answer, docVars, keyVars, crtVars, delivered, spoilt, faultVars>>

\* upsertCuit reads the document once more.
Reread(r) ==
  /\ pc[r] = "reread"
  /\ LET d == doc[Cuit(r)] IN
     /\ rec' = [rec EXCEPT ![r] = d]
     /\ IF d = NoDoc \/ Owned(r, d) THEN Goto(r, "write") /\ UNCHANGED answer
                                    ELSE Reply(r, "error")
  /\ UNCHANGED <<job, hand, docVars, keyVars, crtVars, delivered, spoilt, faultVars>>

\* Mutated form: a document that is not there has a status, too.
UpsertStatusRead(r) ==
  IF job[r].op = "v1generate" THEN "pending_csr" ELSE rec[r].status

\* The status an upsert writes: the one asked for, else the one it has read.
UpsertStatus(r) ==
  IF job[r].op = "v1generate" \/ rec[r] = NoDoc THEN "pending_csr" ELSE rec[r].status

Upsert(r) ==
  /\ doc' = [doc EXCEPT ![Cuit(r)] = [owner |-> job[r].account, status |-> UpsertStatus(r)]]
  /\ owners' = owners \cup {<<job[r].account, Cuit(r)>>}

Write(r) ==
  /\ pc[r] = "write"
  /\ Upsert(r)
  /\ IF job[r].op = "create" THEN Reply(r, "ok") ELSE Goto(r, "truncKey") /\ UNCHANGED answer
  /\ UNCHANGED <<callVars, keyVars, crtVars, delivered, spoilt, faultVars>>

\* The CUIT must belong to the account.  A certificate has been stored by
\* then; only the account endpoint takes it away again.
Own(r) ==
  /\ pc[r] = "own"
  /\ LET d == doc[Cuit(r)] IN
     /\ rec' = [rec EXCEPT ![r] = d]
     /\ CASE Owned(r, d) -> /\ Goto(r, IF job[r].op = "v1renew" THEN "truncKey" ELSE "status")
                            /\ UNCHANGED answer
          [] ~ Owned(r, d) /\ job[r].op = "upload" ->
               Goto(r, "unlink") /\ answer' = [answer EXCEPT ![r] = "forbidden"]
          [] OTHER -> Reply(r, "forbidden")
  /\ UNCHANGED <<job, hand, docVars, keyVars, crtVars, delivered, spoilt, faultVars>>

\* Mutated form: the key is there before the request is.
DecideByTheKey(r) ==
  /\ pc[r] = "decide"
  /\ CASE ~ Owned(r, rec[r]) -> Reply(r, "forbidden")
       [] Owned(r, rec[r]) /\ key[Cuit(r)] = Absent -> Goto(r, "truncKey") /\ UNCHANGED answer
       [] OTHER -> /\ Goto(r, IF rec[r].status = "pending_csr" THEN "status" ELSE "deliver")
                   /\ UNCHANGED answer
  /\ UNCHANGED <<callVars, docVars, keyVars, crtVars, delivered, spoilt, faultVars>>

\* downloadCsr generates only when there is no CSR.
Decide(r) ==
  /\ pc[r] = "decide"
  /\ CASE ~ Owned(r, rec[r]) -> Reply(r, "forbidden")
       [] Owned(r, rec[r]) /\ csr[Cuit(r)] = Absent -> Goto(r, "truncKey") /\ UNCHANGED answer
       [] OTHER -> /\ Goto(r, IF rec[r].status = "pending_csr" THEN "status" ELSE "deliver")
                   /\ UNCHANGED answer
  /\ UNCHANGED <<callVars, docVars, keyVars, crtVars, delivered, spoilt, faultVars>>

NextStatus(r) == IF job[r].op \in Uploads THEN "ready" ELSE "pending_crt"

SetCuitStatus(r) ==
  /\ doc' = [doc EXCEPT ![Cuit(r)].status = NextStatus(r)]

SetStatus(r) ==
  /\ pc[r] = "status"
  /\ SetCuitStatus(r)
  /\ IF job[r].op \in Uploads THEN Reply(r, "ok") ELSE Goto(r, "deliver") /\ UNCHANGED answer
  /\ UNCHANGED <<callVars, owners, keyVars, crtVars, delivered, spoilt, faultVars>>
-----------------------------------------------------------------------------
(* generateCert: openssl genrsa, then openssl req. *)

\* From the first file openssl opens to the last it writes.
Generating(c) ==
  {r \in Calls : pc[r] \in {"fillKey", "readKey", "truncCsr", "fillCsr"} /\ Cuit(r) = c}

\* A generation that begins alone does away with what others have left.
TruncKey(r) ==
  /\ pc[r] = "truncKey"
  /\ key' = Put(key, r, Empty)
  /\ folders' = folders \cup {Cuit(r)}
  /\ torn' = IF Generating(Cuit(r)) = {} THEN torn \ {Cuit(r)} ELSE torn \cup {Cuit(r)}
  /\ Goto(r, "fillKey")
  /\ UNCHANGED <<callVars, answer, docVars, csr, crt, delivered, spoilt, failures, crashes>>

FillKey(r) ==
  /\ pc[r] = "fillKey"
  /\ key' = Put(key, r, r)
  /\ Goto(r, "readKey")
  /\ UNCHANGED <<callVars, answer, docVars, csr, crtVars, delivered, spoilt, faultVars>>

\* openssl req ends at once if another call is about to write the key.
ReadKey(r) ==
  /\ pc[r] = "readKey"
  /\ IF key[Cuit(r)] \in Calls
     THEN /\ hand' = [hand EXCEPT ![r] = key[Cuit(r)]]
          /\ Goto(r, "truncCsr") /\ UNCHANGED answer
     ELSE Reply(r, "error") /\ UNCHANGED hand
  /\ UNCHANGED <<job, rec, docVars, keyVars, crtVars, delivered, spoilt, faultVars>>

TruncCsr(r) ==
  /\ pc[r] = "truncCsr"
  /\ csr' = Put(csr, r, Empty)
  /\ Goto(r, "fillCsr")
  /\ UNCHANGED <<callVars, answer, docVars, key, crtVars, delivered, spoilt, faultVars>>

\* Mutated form: the document keeps its status, `ready' for a renewal.
FillCsrUntold(r) ==
  /\ pc[r] = "fillCsr"
  /\ csr' = Put(csr, r, hand[r])
  /\ Goto(r, "deliver")
  /\ UNCHANGED <<callVars, answer, docVars, key, crtVars, delivered, spoilt, faultVars>>

\* The new CSR is announced in the document, but for `cert' calls and for a
\* download that had read another status than pending_csr.
FillCsr(r) ==
  /\ pc[r] = "fillCsr"
  /\ csr' = Put(csr, r, hand[r])
  /\ Goto(r, IF \/ job[r].op \in PosOps
                \/ job[r].op = "csr" /\ rec[r].status # "pending_csr"
             THEN "deliver" ELSE "status")
  /\ UNCHANGED <<callVars, answer, docVars, key, crtVars, delivered, spoilt, faultVars>>

\* The stream reads what the file holds now.
Deliver(r) ==
  /\ pc[r] = "deliver"
  /\ delivered' = delivered \cup ({<<Cuit(r), csr[Cuit(r)]>>} \cap (Cuits \X Calls))
  /\ Reply(r, "ok")
  /\ UNCHANGED <<callVars, docVars, keyVars, crtVars, spoilt, faultVars>>
-----------------------------------------------------------------------------
(* The certificate. *)

\* `cert' does not make the folder before multer needs it.
TruncCrt(r) ==
  /\ pc[r] = "truncCrt"
  /\ IF job[r].op = "posUpload" /\ Cuit(r) \notin folders
     THEN Reply(r, "error") /\ UNCHANGED crtVars
     ELSE /\ crt' = Put(crt, r, Empty)
          /\ folders' = folders \cup {Cuit(r)}
          /\ Goto(r, "fillCrt") /\ UNCHANGED answer
  /\ UNCHANGED <<callVars, docVars, keyVars, delivered, spoilt, faultVars>>

FillCrt(r) ==
  /\ pc[r] \in {"fillCrt", "fillGone"}
  /\ crt' = IF pc[r] = "fillCrt" THEN Put(crt, r, job[r].file) ELSE crt
  /\ IF job[r].op = "posUpload" THEN Reply(r, "ok") ELSE Goto(r, "own") /\ UNCHANGED answer
  /\ UNCHANGED <<callVars, docVars, keyVars, folders, delivered, spoilt, faultVars>>

\* What others are writing into the file they opened goes with it.
Unlink(r) ==
  /\ pc[r] = "unlink"
  /\ crt' = Put(crt, r, Absent)
  /\ pc' = [q \in Calls |->
              CASE q = r -> "done"
                [] q # r /\ pc[q] = "fillCrt" /\ Cuit(q) = Cuit(r) -> "fillGone"
                [] OTHER -> pc[q]]
  /\ UNCHANGED <<callVars, answer, docVars, keyVars, folders, delivered, spoilt, faultVars>>
-----------------------------------------------------------------------------
(* What fails. *)

Failure(r) ==
  /\ r \in Open
  /\ failures < MaxFailures
  /\ failures' = failures + 1
  /\ spoilt' = spoilt \cup {Cuit(r)}
  /\ torn' = torn \cup {c \in {Cuit(r)} : r \in Generating(c)}
  /\ UNCHANGED <<callVars, folders, delivered, crashes>>

\* Firestore does not answer; a write may have been applied.
StoreFails(r) ==
  /\ Failure(r)
  /\ \/ /\ pc[r] \in {"read", "reread", "own", "write", "status"}
        /\ UNCHANGED docVars
     \/ pc[r] = "write" /\ Upsert(r)
     \/ pc[r] = "status" /\ SetCuitStatus(r) /\ UNCHANGED owners
  /\ answer' = [answer EXCEPT ![r] = "error"]
  /\ Goto(r, IF job[r].op = "upload" THEN "unlink" ELSE "done")
  /\ UNCHANGED <<keyVars, crt>>

\* openssl ends with an error, before or after it has truncated its output.
OpensslFails(r) ==
  /\ Failure(r)
  /\ pc[r] \in {"truncKey", "fillKey", "readKey", "truncCsr", "fillCsr"}
  /\ Reply(r, "error")
  /\ UNCHANGED <<docVars, keyVars, crt>>

\* The client goes away in the middle of its upload; the handler never starts.
UploadAborts(r) ==
  /\ Failure(r)
  /\ pc[r] \in {"fillCrt", "fillGone"}
  /\ Reply(r, "gone")
  /\ UNCHANGED <<docVars, keyVars, crt>>

Crash ==
  /\ crashes < MaxCrashes
  /\ crashes' = crashes + 1
  /\ pc' = [r \in Calls |-> IF r \in Open THEN "lost" ELSE pc[r]]
  /\ spoilt' = spoilt \cup {Cuit(r) : r \in Open}
  /\ torn' = torn \cup {c \in Cuits : Generating(c) # {}}
  /\ UNCHANGED <<callVars, answer, docVars, keyVars, crtVars, delivered, failures>>

Handle(r) ==
  \/ Read(r) \/ Reread(r) \/ Write(r) \/ Own(r) \/ Decide(r) \/ SetStatus(r)
  \/ TruncKey(r) \/ FillKey(r) \/ ReadKey(r) \/ TruncCsr(r) \/ FillCsr(r) \/ Deliver(r)
  \/ TruncCrt(r) \/ FillCrt(r) \/ Unlink(r)

Next ==
  \/ \E r \in Calls : Arrive(r) \/ Handle(r)
  \/ \E r \in Calls : StoreFails(r) \/ OpensslFails(r) \/ UploadAborts(r)
  \/ Crash

Spec == Init /\ [][Next]_vars
-----------------------------------------------------------------------------
(* Properties. *)

\* The type of every variable.
TypeOK ==
  /\ pc \in [Calls -> Phases]
  /\ job \in [Calls -> Jobs \cup {NoJob}]
  /\ rec \in [Calls -> Docs]
  /\ hand \in [Calls -> {Absent} \cup Calls]
  /\ answer \in [Calls -> Kinds]
  /\ doc \in [Cuits -> Docs]
  /\ key \in [Cuits -> {Absent, Empty} \cup Calls]
  /\ csr \in [Cuits -> {Absent, Empty} \cup Calls]
  /\ crt \in [Cuits -> {Absent, Empty, Other} \cup Calls]
  /\ folders \subseteq Cuits
  /\ delivered \subseteq Cuits \X Calls
  /\ owners \subseteq Accounts \X Cuits
  /\ spoilt \subseteq Cuits
  /\ torn \subseteq Cuits
  /\ failures \in 0 .. MaxFailures
  /\ crashes \in 0 .. MaxCrashes

\* A document never says that a CSR waits for its certificate before there is
\* one on disk, whatever stale status a concurrent createCuit writes back.  And
\* the CSR is whole and that of the key on disk, so that the certificate ARCA
\* gives for it will fit, unless openssl is at work, or the generations since
\* the last that ran alone have overlapped, failed or died with the process:
\* then a truncated CSR still counts as one, and downloadCsr serves it empty.
PendingHasCsr ==
  \A c \in Cuits : doc[c].status = "pending_crt" =>
    /\ csr[c] # Absent
    /\ c \notin torn /\ Generating(c) = {} => csr[c] \in Calls /\ csr[c] = key[c]

\* Only an account that has been the owner of a CUIT generates its key, sets
\* its status, gets its CSR or is answered ok, also when the document changes
\* hands under way.  (An upload is stored before it is admitted.)
Changing == {"truncKey", "fillKey", "readKey", "truncCsr", "fillCsr", "status", "deliver"}
OnlyOwnersChange ==
  \A r \in Calls : (pc[r] \in Changing \/ answer[r] = "ok") /\ job[r].op \notin PosOps
     => <<job[r].account, Cuit(r)>> \in owners

\* While the calls for a CUIT come one at a time, by its owner, without a
\* failure, and a certificate is that of the key on disk, a CUIT at rest that
\* is `ready' has a certificate and the key it was made for: no order of
\* registering, downloading, generating, uploading and renewing breaks it.
ReadyIsPaired ==
  \A c \in Cuits \ spoilt :
    At(c) = {} /\ doc[c].status = "ready" => crt[c] \in Calls /\ crt[c] = key[c]

\* A CUIT can change hands only by the write of another account's call that
\* looked at the document before its owner was there.  Once no such call is
\* left none comes up again, and the owner is settled for good.
Rivals(c) == {r \in Calls : pc[r] = "write" /\ Cuit(r) = c /\ job[r].account # doc[c].owner}
OwnerIsSettled ==
  [][\A c \in Cuits : doc[c] # NoDoc /\ Rivals(c) = {} =>
        Rivals(c)' = {} /\ doc'[c].owner = doc[c].owner]_vars
-----------------------------------------------------------------------------
(* What the repository says and the code does not keep. *)

\* "Ese CUIT ya esta asociado a otra cuenta": a CUIT that has an owner is not
\* given to another account.
CuitKeepsItsOwner ==
  [][\A c \in Cuits : doc[c] # NoDoc => doc'[c].owner = doc[c].owner]_vars

\* "con CRT listo": a CUIT at rest that is ready has a certificate file.
ReadyHasCrt ==
  \A c \in Cuits : At(c) = {} /\ doc[c].status = "ready" => crt[c] # Absent
=============================================================================
