----------------------------- MODULE Invoicing -----------------------------
(***************************************************************************)
(* Issuing an invoice, from the HTTP request to its answer.                *)
(*                                                                         *)
(* Two handlers issue:                                                     *)
(*   v1   POST /v1/invoices (invoices.controller.ts, afip-invoice.service) *)
(*        an account invoices for a CUIT it owns, and usage is counted;    *)
(*   pos  POST /validate-transaction (app.controller.ts), the older entry: *)
(*        no account, no ownership check, no count.                        *)
(* Both ask ARCA for the last authorised number of a series, add one, and  *)
(* ask ARCA to authorise that number.  Nothing serialises them: between    *)
(* any two awaits of one request every other request may move.             *)
(*                                                                         *)
(* A request is one HTTP call; a client that retries makes another one.    *)
(* The SOAP exchange is modelled by what may be under way: `wire' holds    *)
(* the solicitudes ARCA has not decided yet, whether or not their sender   *)
(* still waits.  A lost connection or a crash leaves them there.           *)
(***************************************************************************)
EXTENDS Naturals, Sequences, FiniteSets

CONSTANTS
  Requests,    \* HTTP calls
  Series,      \* (CUIT, puntoVenta, tipoComprobante)
  Cuits,
  CuitOf,      \* the issuer of a series
  Accounts,
  NoAccount,   \* owner of a CUIT document that does not exist, account of a pos call
  MaxPeriod,   \* bound: months that go by
  MaxCrashes,  \* bound: restarts of the service
  MaxWrites    \* bound: writes to CUIT documents by other handlers

ASSUME CuitOfType == CuitOf \in [Series -> Cuits]
ASSUME NoAccountIsNone == NoAccount \notin Accounts
ASSUME BoundsAreNatural == MaxPeriod \in Nat \ {0} /\ MaxCrashes \in Nat /\ MaxWrites \in Nat

VARIABLES
  pc,        \* where the handler of a request stands
  job,       \* what the request asks for
  nro,       \* the last authorised number the request was told
  wire,      \* solicitudes on their way to ARCA
  decision,  \* what ARCA decided about the solicitud of a request
  book,      \* ARCA: the authorised invoices of a series, in number order
  answer,    \* what the client of a request was answered
  cuitDoc,   \* Firestore cuits/{cuit}
  everReady, \* history: <<account, cuit>> that some cuitDoc has shown as ready
  usage,     \* Firestore accounts/{uid}/usage/{period}.invoiceCount
  events,    \* Firestore accounts/{uid}/usage/{period}/events
  period,    \* the period a request counts in, 0 as long as it counts in none
  snap,      \* the invoiceCount a request's transaction has read
  counted,   \* history: requests whose increment Firestore has applied
  now,       \* the current month
  crashes, writes

vars == <<pc, job, nro, wire, decision, book, answer, cuitDoc, everReady,
          usage, events, period, snap, counted, now, crashes, writes>>
storeVars == <<cuitDoc, everReady, writes>>
usageVars == <<usage, events, period, snap, counted>>
arcaVars == <<wire, decision, book>>
clockVars == <<now, crashes>>
-----------------------------------------------------------------------------
Periods == 1 .. MaxPeriod

(* What a call may ask for.  `defect' is what is wrong with its body, as   *)
(* far as the handlers notice: a foreign currency without cotizacion, a    *)
(* service without its dates; no AFIP codes, none for the letter.          *)
Jobs == [api: {"v1"}, series: Series, account: Accounts, defect: {"none", "rate", "dates"}]
        \cup [api: {"pos"}, series: Series, account: {NoAccount},
              defect: {"none", "codes", "letter"}]
NoJob == [api |-> "none"]

CuitDocs == [owner: Accounts, status: {"pending_csr", "pending_crt", "ready"}]
            \cup {[owner |-> NoAccount, status |-> "absent"]}

Phases == {"idle", "guard", "ticket", "ask", "solicit", "await",
           "count", "commit", "event", "done", "lost"}
Resting == {"idle", "done", "lost"}

(* Answers: `observed' carries an empty CAE; `noTicket' is the answer with *)
(* an empty status; `error' is any other failure (500, status "Error").    *)
Kinds == {"none", "ok", "observed", "forbidden", "badRequest", "noTicket", "error"}
NoAnswer == [kind |-> "none", number |-> 0]

Init ==
  /\ pc = [r \in Requests |-> "idle"]
  /\ job = [r \in Requests |-> NoJob]
  /\ nro = [r \in Requests |-> 0]
  /\ wire = {}
  /\ decision = [r \in Requests |-> "none"]
  /\ book = [s \in Series |-> <<>>]
  /\ answer = [r \in Requests |-> NoAnswer]
  /\ cuitDoc \in [Cuits -> CuitDocs]
  /\ everReady = {ac \in Accounts \X Cuits :
                    cuitDoc[ac[2]] = [owner |-> ac[1], status |-> "ready"]}
  /\ usage = [a \in Accounts |-> [p \in Periods |-> 0]]
  /\ events = {}
  /\ period = [r \in Requests |-> 0]
  /\ snap = [r \in Requests |-> 0]
  /\ counted = {}
  /\ now = 1
  /\ crashes = 0
  /\ writes = 0

Goto(r, phase) == pc' = [pc EXCEPT ![r] = phase]

\* The handler ends and the client has its answer.
Reply(r, kind, number) ==
  /\ Goto(r, "done")
  /\ answer' = [answer EXCEPT ![r] = [kind |-> kind, number |-> number]]

Fail(r, kind) == Reply(r, kind, 0)
-----------------------------------------------------------------------------
(* The request arrives. *)

ArriveV1(r) ==
  /\ pc[r] = "idle"
  /\ \E j \in {x \in Jobs : x.api = "v1"} : job' = [job EXCEPT ![r] = j]
  /\ Goto(r, "guard")
  /\ UNCHANGED <<nro, answer, arcaVars, storeVars, usageVars, clockVars>>

\* A body without AFIP codes is refused before anything is awaited.
ArrivePos(r) ==
  /\ pc[r] = "idle"
  /\ \E j \in {x \in Jobs : x.api = "pos"} :
       /\ job' = [job EXCEPT ![r] = j]
       /\ IF j.defect = "codes"
          THEN Fail(r, "error")
          ELSE Goto(r, "ticket") /\ UNCHANGED answer
  /\ UNCHANGED <<nro, arcaVars, storeVars, usageVars, clockVars>>

Cuit(r) == CuitOf[job[r].series]
\* Mutated form: any account invoices for the CUIT.
OwnedByAnyone(r) == cuitDoc[Cuit(r)].owner # NoAccount

Owned(r) == cuitDoc[Cuit(r)].owner = job[r].account
Ready(r) == cuitDoc[Cuit(r)].status = "ready"

(* The v1 handler reads the CUIT document once and never again. *)
CheckCuit(r) ==
  /\ pc[r] = "guard"
  /\ \/ ~ Owned(r) /\ Fail(r, "forbidden")
     \/ Owned(r) /\ ~ Ready(r) /\ Fail(r, "badRequest")
     \/ Owned(r) /\ Ready(r) /\ Goto(r, "ticket") /\ UNCHANGED answer
  /\ UNCHANGED <<job, nro, arcaVars, storeVars, usageVars, clockVars>>

\* Firestore does not answer the guard's read.
CheckFails(r) ==
  /\ pc[r] = "guard"
  /\ Fail(r, "error")
  /\ UNCHANGED <<job, nro, arcaVars, storeVars, usageVars, clockVars>>

(* The ticket is at hand.  The currency (v1) and the letter (pos) are      *)
(* looked at before the next call.                                         *)
TakeTicket(r) ==
  /\ pc[r] = "ticket"
  /\ CASE job[r].defect = "rate" -> Fail(r, "badRequest")
       [] job[r].defect = "letter" -> Fail(r, "error")
       [] OTHER -> Goto(r, "ask") /\ UNCHANGED answer
  /\ UNCHANGED <<job, nro, arcaVars, storeVars, usageVars, clockVars>>

(* No ticket could be had.  Only the pos handler tells a failed login from *)
(* every other error; a ticket file that cannot be read is an error there  *)
(* too.                                                                    *)
TicketFails(r) ==
  /\ pc[r] = "ticket"
  /\ \/ Fail(r, "error")
     \/ job[r].api = "pos" /\ Fail(r, "noTicket")
  /\ UNCHANGED <<job, nro, arcaVars, storeVars, usageVars, clockVars>>
-----------------------------------------------------------------------------
(* The number. *)

\* ARCA tells the last authorised number, or an error whose number is zero:
\* the handlers look at nothing but CbteNro.
LastAuthorised(s) == {Len(book[s]), 0}

AskLast(r) ==
  /\ pc[r] = "ask"
  /\ \E n \in LastAuthorised(job[r].series) : nro' = [nro EXCEPT ![r] = n]
  /\ Goto(r, "solicit")
  /\ UNCHANGED <<job, answer, arcaVars, storeVars, usageVars, clockVars>>

\* The call fails, or CbteNro is no number.
AskFails(r) ==
  /\ pc[r] = "ask"
  /\ Fail(r, "error")
  /\ UNCHANGED <<job, nro, arcaVars, storeVars, usageVars, clockVars>>

\* Mutated form: asks for the number that is taken already.
LastNumber(r) == nro[r]

NextNumber(r) == nro[r] + 1

Solicitud(r) == [req |-> r, series |-> job[r].series, number |-> NextNumber(r)]

Solicit(r) ==
  /\ pc[r] = "solicit"
  /\ job[r].defect # "dates"
  /\ wire' = wire \cup {Solicitud(r)}
  /\ Goto(r, "await")
  /\ UNCHANGED <<job, nro, decision, book, answer, storeVars, usageVars, clockVars>>

\* Mutated form: the dates are looked at after the call.
RejectDatesLate(r) ==
  /\ pc[r] = "solicit"
  /\ job[r].defect = "dates"
  /\ wire' = wire \cup {Solicitud(r)}
  /\ Fail(r, "badRequest")
  /\ UNCHANGED <<job, nro, decision, book, storeVars, usageVars, clockVars>>

\* Concepto 2 or 3 without its three dates: noticed only now.
RejectDates(r) ==
  /\ pc[r] = "solicit"
  /\ job[r].defect = "dates"
  /\ Fail(r, "badRequest")
  /\ UNCHANGED <<job, nro, arcaVars, storeVars, usageVars, clockVars>>
-----------------------------------------------------------------------------
(* ARCA. *)

\* ARCA authorises only the number that follows the last one it authorised.
Authorise(m) ==
  /\ m.number = Len(book[m.series]) + 1
  /\ book' = [book EXCEPT ![m.series] = Append(@, m.req)]
  /\ decision' = [decision EXCEPT ![m.req] = "granted"]

RefuseNumber(m) ==
  /\ m.number # Len(book[m.series]) + 1
  /\ decision' = [decision EXCEPT ![m.req] = "outOfSequence"]
  /\ UNCHANGED book

\* Anything else ARCA dislikes: an observation, or the Errors of the answer.
RefuseContent(m) ==
  /\ \E d \in {"refused", "fault"} : decision' = [decision EXCEPT ![m.req] = d]
  /\ UNCHANGED book

ArcaDecides(m) ==
  /\ wire' = wire \ {m}
  /\ Authorise(m) \/ RefuseNumber(m) \/ RefuseContent(m)
  /\ UNCHANGED <<pc, job, nro, answer, storeVars, usageVars, clockVars>>

\* A solicitud that never reaches ARCA.
LoseSolicitud(m) ==
  /\ wire' = wire \ {m}
  /\ UNCHANGED <<pc, job, nro, decision, book, answer, storeVars, usageVars, clockVars>>
-----------------------------------------------------------------------------
(* The answer of ARCA. *)

\* Mutated form: the zero-based getMonth() taken for one that needs no care.
PeriodIdOff == now + 1

PeriodId == now

\* Mutated form: the last number instead of the next one.
ReportedLast(r) == nro[r]

ReportedNumber(r) == NextNumber(r)

ReceiveGrant(r) ==
  /\ pc[r] = "await"
  /\ decision[r] = "granted"
  /\ IF job[r].api = "v1"
     THEN /\ Goto(r, "count")
          /\ period' = [period EXCEPT ![r] = PeriodId]
          /\ UNCHANGED answer
     ELSE Reply(r, "ok", ReportedNumber(r)) /\ UNCHANGED period
  /\ UNCHANGED <<job, nro, usage, events, snap, counted, arcaVars, storeVars, clockVars>>

\* An empty CAE: the observations become the message; without any the
\* handler throws.
ReceiveObserved(r) ==
  /\ pc[r] = "await"
  /\ decision[r] \in {"refused", "outOfSequence"}
  /\ Reply(r, "observed", ReportedNumber(r)) \/ Fail(r, "error")
  /\ UNCHANGED <<job, nro, arcaVars, storeVars, usageVars, clockVars>>

\* Errors in the answer are thrown.
ReceiveFault(r) ==
  /\ pc[r] = "await"
  /\ decision[r] = "fault"
  /\ Fail(r, "error")
  /\ UNCHANGED <<job, nro, arcaVars, storeVars, usageVars, clockVars>>

\* Mutated form: a failed call is repeated with the next number.
SolicitAgain(r) ==
  /\ pc[r] = "await"
  /\ Goto(r, "ask")
  /\ UNCHANGED <<job, nro, answer, arcaVars, storeVars, usageVars, clockVars>>

\* Mutated form: a failed call is told as an invoice without a CAE.
SolicitFailsAsObserved(r) ==
  /\ pc[r] = "await"
  /\ Reply(r, "observed", NextNumber(r))
  /\ UNCHANGED <<job, nro, arcaVars, storeVars, usageVars, clockVars>>

\* The connection ends before an answer, whatever ARCA has done or will do.
SolicitFails(r) ==
  /\ pc[r] = "await"
  /\ Fail(r, "error")
  /\ UNCHANGED <<job, nro, arcaVars, storeVars, usageVars, clockVars>>
-----------------------------------------------------------------------------
(* incrementInvoice: a Firestore transaction, then a separate add. *)

Count(r) == usage[job[r].account][period[r]]

ReadCount(r) ==
  /\ pc[r] = "count"
  /\ snap' = [snap EXCEPT ![r] = Count(r)]
  /\ Goto(r, "commit")
  /\ UNCHANGED <<job, nro, answer, usage, events, period, counted, arcaVars, storeVars, clockVars>>

\* Mutated form: a get and a set outside a transaction.
CommitBlindly(r) ==
  /\ usage' = [usage EXCEPT ![job[r].account][period[r]] = snap[r] + 1]
  /\ counted' = counted \cup {r}

\* A transaction commits only if what it read is unchanged.
Commit(r) ==
  /\ Count(r) = snap[r]
  /\ usage' = [usage EXCEPT ![job[r].account][period[r]] = snap[r] + 1]
  /\ counted' = counted \cup {r}

CommitCount(r) ==
  /\ pc[r] = "commit"
  /\ Commit(r)
  /\ Goto(r, "event")
  /\ UNCHANGED <<job, nro, answer, events, period, snap, arcaVars, storeVars, clockVars>>

\* Mutated form: the retry keeps the count it has read.
RetryCountStale(r) ==
  /\ pc[r] = "commit"
  /\ Count(r) # snap[r]
  /\ UNCHANGED vars

\* A transaction that lost the race runs again from its read.
RetryCount(r) ==
  /\ pc[r] = "commit"
  /\ Count(r) # snap[r]
  /\ Goto(r, "count")
  /\ UNCHANGED <<job, nro, answer, usageVars, arcaVars, storeVars, clockVars>>

\* Mutated form: the failure is swallowed and the request answered as issued.
CountFailsSilently(r) ==
  /\ pc[r] \in {"count", "commit"}
  /\ Reply(r, "ok", NextNumber(r))
  /\ UNCHANGED <<job, nro, usageVars, arcaVars, storeVars, clockVars>>

\* Firestore gives up, or its confirmation is lost after the commit.
CountFails(r) ==
  /\ \/ pc[r] \in {"count", "commit"} /\ UNCHANGED <<usage, counted>>
     \/ pc[r] = "commit" /\ Commit(r)
  /\ Fail(r, "error")
  /\ UNCHANGED <<job, nro, events, period, snap, arcaVars, storeVars, clockVars>>

\* Mutated form: the period computed anew for the event.
EventOfToday(r) == [account |-> job[r].account, period |-> now,
                    series |-> job[r].series, number |-> NextNumber(r), cae |-> r]

Event(r) == [account |-> job[r].account, period |-> period[r],
             series |-> job[r].series, number |-> NextNumber(r), cae |-> r]

AddEvent(r) ==
  /\ pc[r] = "event"
  /\ events' = events \cup {Event(r)}
  /\ Reply(r, "ok", ReportedNumber(r))
  /\ UNCHANGED <<job, nro, usage, period, snap, counted, arcaVars, storeVars, clockVars>>

EventFails(r) ==
  /\ pc[r] = "event"
  /\ events' = events \/ events' = events \cup {Event(r)}
  /\ Fail(r, "error")
  /\ UNCHANGED <<job, nro, usage, period, snap, counted, arcaVars, storeVars, clockVars>>
-----------------------------------------------------------------------------
(* Around the requests. *)

\* What the other handlers may leave in a CUIT document: upsertCuit writes
\* owner and status, setCuitStatus the status.  A document is never deleted.
WriteCuit(c, d) ==
  /\ writes < MaxWrites
  /\ d.status # "absent"
  /\ cuitDoc' = [cuitDoc EXCEPT ![c] = d]
  /\ everReady' = everReady \cup (IF d.status = "ready" THEN {<<d.owner, c>>} ELSE {})
  /\ writes' = writes + 1
  /\ UNCHANGED <<pc, job, nro, answer, arcaVars, usageVars, clockVars>>

NextMonth ==
  /\ now < MaxPeriod
  /\ now' = now + 1
  /\ UNCHANGED <<pc, job, nro, answer, arcaVars, storeVars, usageVars, crashes>>

\* The container is removed and started again: every handler is gone, and
\* ARCA and Firestore keep what they were sent.
Crash ==
  /\ crashes < MaxCrashes
  /\ crashes' = crashes + 1
  /\ pc' = [r \in Requests |-> IF pc[r] \in Resting THEN pc[r] ELSE "lost"]
  /\ UNCHANGED <<job, nro, answer, arcaVars, storeVars, usageVars, now>>

Arrive(r) == ArriveV1(r) \/ ArrivePos(r)

Handle(r) ==
  \/ CheckCuit(r) \/ CheckFails(r) \/ TakeTicket(r) \/ TicketFails(r)
  \/ AskLast(r) \/ AskFails(r) \/ Solicit(r) \/ RejectDates(r)
  \/ ReceiveGrant(r) \/ ReceiveObserved(r) \/ ReceiveFault(r) \/ SolicitFails(r)
  \/ ReadCount(r) \/ CommitCount(r) \/ RetryCount(r) \/ CountFails(r)
  \/ AddEvent(r) \/ EventFails(r)

Next ==
  \/ \E r \in Requests : Arrive(r) \/ Handle(r)
  \/ \E m \in wire : ArcaDecides(m) \/ LoseSolicitud(m)
  \/ \E c \in Cuits, d \in CuitDocs : WriteCuit(c, d)
  \/ NextMonth
  \/ Crash

Spec == Init /\ [][Next]_vars

(* Every continuation runs in the end, and Firestore answers.  No call to  *)
(* ARCA is owed an end, since none has a timeout, and no failure is owed.  *)
Progress(r) ==
  \/ CheckCuit(r) \/ Solicit(r) \/ RejectDates(r)
  \/ ReadCount(r) \/ CommitCount(r) \/ RetryCount(r) \/ AddEvent(r)

FairSpec == Spec /\ \A r \in Requests : WF_vars(Progress(r))
-----------------------------------------------------------------------------
(* Properties. *)

Solicitudes == [req: Requests, series: Series, number: Nat]
Events == [account: Accounts, period: Periods, series: Series, number: Nat, cae: Requests]

\* The type of every variable.
TypeOK ==
  /\ pc \in [Requests -> Phases]
  /\ job \in [Requests -> Jobs \cup {NoJob}]
  /\ nro \in [Requests -> Nat]
  /\ wire \subseteq Solicitudes
  /\ decision \in [Requests -> {"none", "granted", "outOfSequence", "refused", "fault"}]
  /\ book \in [Series -> Seq(Requests)]
  /\ answer \in [Requests -> [kind: Kinds, number: Nat]]
  /\ cuitDoc \in [Cuits -> CuitDocs]
  /\ everReady \subseteq Accounts \X Cuits
  /\ usage \in [Accounts -> [Periods -> Nat]]
  /\ events \subseteq Events
  /\ period \in [Requests -> 0 .. MaxPeriod]
  /\ snap \in [Requests -> Nat]
  /\ counted \subseteq Requests
  /\ now \in Periods
  /\ crashes \in 0 .. MaxCrashes
  /\ writes \in 0 .. MaxWrites

\* However requests interleave, fail or crash, a request is authorised at
\* most once, in the series it asked for, and under the number its handler
\* computed: the book never disagrees with what a client may be told.
OneInvoicePerRequest ==
  \A s \in Series : \A n \in DOMAIN book[s] :
    LET r == book[s][n] IN /\ job[r].api # "none"
                           /\ job[r].series = s
                           /\ n = NextNumber(r)

\* Without a lock two requests may ask for the same number.  A number ARCA
\* refuses as out of sequence is then always a number another request holds:
\* the gateway never asks for one ahead of the book.  As long as ARCA tells the
\* true last number, a series is thus never stuck: who is refused was overtaken.
RejectedNumberTaken ==
  \A r \in Requests : decision[r] = "outOfSequence" =>
    LET s == job[r].series IN /\ NextNumber(r) \in DOMAIN book[s]
                              /\ book[s][NextNumber(r)] # r

\* The number a client is told with a CAE is the number ARCA holds for that
\* very request.
OkIsAuthorised ==
  \A r \in Requests : answer[r].kind = "ok" =>
    LET s == job[r].series IN /\ answer[r].number \in DOMAIN book[s]
                              /\ book[s][answer[r].number] = r

Refusals == {"observed", "forbidden", "badRequest", "noTicket"}

\* A client that is refused (403, 400, an empty CAE, an empty status) may
\* send the invoice again: the refused request stands in no book, and nothing
\* under way can still put it there.  Only `error' leaves this open.
RefusalIsFinal ==
  \A r \in Requests : answer[r].kind \in Refusals =>
    /\ \A m \in wire : m.req # r
    /\ \A s \in Series : \A n \in DOMAIN book[s] : book[s][n] # r

\* An account never issues for a CUIT that was not once its own and ready,
\* whatever the other handlers write meanwhile.  (That it still is so when
\* ARCA authorises is not promised: the document is read once.)
IssuedUnderReadyCuit ==
  \A s \in Series : \A n \in DOMAIN book[s] :
    LET j == job[book[s][n]] IN j.api = "v1" => <<j.account, CuitOf[s]>> \in everReady

Counts(a, p) == {r \in counted : job[r].account = a /\ period[r] = p}

\* Concurrent increments lose nothing and count nothing twice: the count of a
\* month is the number of the increments applied to it, and each of them is
\* an authorised v1 invoice of that account.
UsageIsExact ==
  /\ \A a \in Accounts, p \in Periods : usage[a][p] = Cardinality(Counts(a, p))
  /\ \A r \in counted : job[r].api = "v1" /\ decision[r] = "granted"

\* Count and event are two writes; an event is always one of a counted
\* invoice, in the month it was counted in, and names the number and series
\* ARCA holds it under.
EventsAreCounted ==
  \A e \in events :
    /\ e.cae \in counted
    /\ e.account = job[e.cae].account /\ e.period = period[e.cae]
    /\ e.number \in DOMAIN book[e.series] /\ book[e.series][e.number] = e.cae

\* An account that is told `ok' has its invoice both counted and listed.
OkIsBilled ==
  \A r \in Requests : answer[r].kind = "ok" /\ job[r].api = "v1" =>
    r \in counted /\ Event(r) \in events

\* Every request is answered, or goes down with the service, or waits for
\* ARCA: nothing else holds one up.  In particular one that has its CAE is
\* answered, also when every other request spoils its transaction on the count.
WaitingForArca == {"ticket", "ask", "await"}
Answered ==
  \A r \in Requests :
    pc[r] # "idle" ~> pc[r] \in {"done", "lost"} \cup WaitingForArca
-----------------------------------------------------------------------------
(* What the books and the answers amount to. *)

\* What an answer amounts to, for a request to series s in some phase.
VerdictOf(a, phase, s) ==
  CASE a.kind = "ok" -> [kind |-> "authorised", series |-> s, number |-> a.number]
    [] a.kind \in Refusals -> [kind |-> "refused"]
    [] a.kind = "error" \/ (a.kind = "none" /\ phase = "lost") -> [kind |-> "unknown"]
    [] OTHER -> [kind |-> "open"]

Verdict(r) == VerdictOf(answer[r], pc[r], job[r].series)

Book == INSTANCE InvoiceBook WITH verdict <- [r \in Requests |-> Verdict(r)]

\* The handlers, ARCA and the network together keep the promise of
\* InvoiceBook: verdicts are given once, and no refusal is ever overtaken.
KeepsTheBook == Book!BookSpec
=============================================================================
