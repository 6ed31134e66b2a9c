# fe-ar: specifications and proofs

fe-ar issues Argentine electronic invoices.  A client sends an invoice over
HTTP; the service authenticates to ARCA (the tax authority, formerly AFIP) with
a ticket obtained from WSAA, asks for the last authorised number of the series,
and asks for the authorisation (CAE) of the next one.  Accounts, CUITs, API keys
and usage counts are Firestore documents; keys, certificates and tickets are
files on mounted volumes.

This directory holds TLA+ models of that code, the TLC instances that check
them, and proofs checked by TLAPS.  Line numbers refer to `src/` of this
repository at the modelled commit; `PROJECT.json` maps every definition to the
lines it stands for.

## 1. Inventory

### 1.1 Components

| Component | Code | State it keeps | Operations |
|---|---|---|---|
| v1 invoice endpoint | `v1/invoices.controller.ts` | none (a request's locals across awaits) | `create`: guard, issue, count |
| Issuing service | `afip/afip-invoice.service.ts` | none | `issue` |
| POS endpoint | `app.controller.ts` | none | `validateTransaction` |
| Access tickets | `afip/wsaa/wsaa.service.ts` | `resources/{cuit}/TA*.xml`, `TRA*.xml`, `TRA*.tmp` | `getIfNotExpired`, `generarTA`, `getTA` |
| Invoice web service client | `afip/wsfev1/wsfev1.service.ts` | none | `buscarUltimoComprobanteAutorizado`, `solicitarCAE` |
| SOAP helper | `afip/soap-helper/soap-helper.service.ts` | none | `createClient`, `callEndpoint`, `xml2Array` |
| Taxpayer lookup | `afip/afip-padron.service.ts`, `afip/padron/` | none | `lookup` |
| Firestore service | `firebase/firebase.service.ts` | `accounts/{uid}` (with the API key), `cuits/{cuit}`, `accounts/{uid}/usage/{period}` and its `events` | `ensureAccount`, `getCuit`, `upsertCuit`, `setCuitStatus`, `createApiKey`, `verifyApiKey`, `incrementInvoice`, readings |
| Guards | `auth/*.guard.ts` | none | API key, Firebase token (creates the account) |
| Account endpoints | `v1/account.controller.ts` | `_keys/{cuit}/` | `createCuit`, `downloadCsr`, `uploadCrt`, `createKey`, readings |
| v1 certificate endpoints | `v1/certs.controller.ts` | `_keys/{cuit}/` | `generate`, `uploadCrt`, `renew` |
| POS certificate endpoints | `cert/cert.controller.ts` | `_keys/{cuit}/` | `generateCert`, `uploadFile` |
| Key generation | `cert/cert.service.ts` | `_keys/{cuit}/poscloud.key`, `.csr` | `generateCert` |
| Deployment | `.github/workflows`, `Dockerfile.*` | the volumes | kill, start |

`main.ts` and the modules only wire these together.  `backup_php/` is the
predecessor, neither built nor deployed.

### 1.2 Interactions

* Both issuing handlers call WSAA for a ticket, then WSFEv1 twice.  They share
  no lock, only the series at ARCA and the ticket files.
* The taxpayer lookup uses WSAA with a second service, which has files of its
  own in the same folder.
* The v1 endpoint reads `cuits/{cuit}` before issuing and counts in
  `accounts/{uid}/usage` after it; the account and certificate endpoints write
  `cuits/{cuit}` at any time.
* Certificate endpoints, of the accounts and of the POS, write the key files
  that WSAA's openssl reads.

### 1.3 What is hard

One Node process, one thread: a handler runs alone between two awaits, and at
every await any other handler may run.  File operations are done by a thread
pool meanwhile.  So the difficulties are

* read at one await, used after another: the last number (races between
  requests), the CUIT document, the ticket file, the count;
* one step of several fails: the CAE is granted and the count is not written;
  the count is written and its event is not; openssl fails and its result is
  not looked at; a key is regenerated and the status is not;
* a lost answer: ARCA may have authorised, or may still authorise, what the
  handler already reported as an error;
* the process is killed (`docker rm -f` at every deployment) and started again
  over the same volumes;
* time: tickets expire, months end while a request is under way;
* rounding of amounts.

`PROJECT.json` lists them, each at its line, under "hazards".

### 1.4 What makes each component correct

* *Issuing*: a request is authorised at most once and in its own series; what
  the client is told agrees with what ARCA holds; a definite refusal is final;
  an account issues only for its own CUITs; a request ends if its SOAP calls do.
* *Usage*: the count of a month is exact with respect to the increments applied;
  an event is of a counted invoice; `ok` implies counted and listed.
* *Tickets*: a handler uses only a whole ticket of its CUIT and service; the
  files heal by themselves after anything but a concurrent renewal; a ticket had
  not expired when its caller came.
* *CUIT documents and keys*: the owner of a CUIT settles and then stays; only
  an account that has owned a CUIT works on its key and status; a CUIT that
  waits for its certificate has a CSR, and the one of its key unless generations
  overlapped or were cut short; one that is ready has a certificate of its key,
  as long as its calls come one at a time and well.
* *Accounts*: a key that was reported as created works until it is replaced, and
  never again afterwards; `rotated` is true; only a first call erases a key; the
  guard turns a good key away only when Firebase fails.
* *Amounts*: the parts add up to the total, VAT lines to the net amount and the
  VAT, exactly or as nearly as the rounding allows; pesos go out at the rate 1,
  other currencies at the rate that was sent, as nearly as its six decimals allow.
* *Taxpayer lookup*: of every tax the first entry is kept, and the VAT condition
  follows from the reply alone.

## 2. Modules

    InvoiceBook        abstract: books of authorised invoices, one verdict per request
    Invoicing          both issuing handlers, ARCA, Firestore counts; implements InvoiceBook
    MC_Invoicing       instances for TLC (three .cfg)
    Invoicing_proofs   theorems about Invoicing
    Wsaa               tickets, their files, openssl and WSAA
    MC_Wsaa            instance for TLC
    Wsaa_proofs        theorems about Wsaa
    CuitCerts          cuits/{cuit} and the key files under all eight endpoints
    MC_CuitCerts       instances for TLC (three .cfg)
    CuitCerts_proofs   theorems about CuitCerts
    KeyRing            abstract: the key in force, who is told it, who is let in
    Accounts           accounts/{uid}, its API key, both guards; implements KeyRing
    MC_Accounts        instance for TLC
    Accounts_proofs    theorems about Accounts
    Padron             the taxpayer lookup
    MC_Padron          instance for TLC
    Padron_proofs      theorems about Padron
    Sums               the sum over the lines of an invoice
    Sums_proofs        lemmas about it, for any number of lines
    Amounts            what both issuing endpoints make of amounts, currency, date
    MC_Amounts         instances for TLC (three .cfg)
    Amounts_proofs     theorems about Amounts
    Promises_proofs    theorems about InvoiceBook and KeyRing

The components meet in the state they share, and each model carries what the
others may do to it: Invoicing has `WriteCuit` for the handlers of CuitCerts,
and Padron's `Login` and Invoicing's ticket phase stand for Wsaa.

### 2.1 Invoicing

One *request* is one HTTP call; a client that repeats a call makes another
request.  `pc[r]` is the await at which its handler stands:

| phase | the handler waits for | code |
|---|---|---|
| `guard` | `getCuit` (v1 only) | invoices.controller 78 |
| `ticket` | `getIfNotExpired` ... `getTA` | afip-invoice 26-30, app.controller 34-45 |
| `ask` | `buscarUltimoComprobanteAutorizado` | afip-invoice 37, app.controller 93 |
| `solicit`, `await` | `solicitarCAE`, before and after it is sent | afip-invoice 125, app.controller 232 |
| `count`, `commit` | the transaction: its read, its commit | firebase.service 268-279 |
| `event` | `events.add` | firebase.service 280 |
| `done`, `lost` | nothing: answered; gone with the process | |

Each action is what one handler does from one await to the next, failures
included.  `wire` holds solicitudes ARCA has not decided; a handler that has
given up, or a process that has died, leaves its own there, so ARCA may decide
later.  ARCA (external) authorises exactly the number that follows the last one
and may refuse anything for its content.  Its answer about the last number may
carry errors, with 0 for the number: the code looks only at `CbteNro`.

Answers are abstracted to their kind: `ok`, `observed` (an empty CAE),
`forbidden` (403), `badRequest` (400), `noTicket` (POS, empty status), `error`
(anything else).  A request has at most one defect of those the handlers notice
themselves; each is looked at where the code looks at it, so that a service
without its dates (defect `dates`) is refused only after the number was asked.

`WriteCuit` is the environment of the guard: the other handlers may write any
owner and status at any moment.

### 2.2 InvoiceBook

Books only grow, a request stands in at most one place, and gets one verdict:
authorised with its place, refused, or unknown.  A request that was refused can
never enter a book afterwards; one whose verdict is unknown still can.
`Invoicing!KeepsTheBook` maps `answer`, `pc` and `job` to verdicts (`VerdictOf`).

### 2.3 Wsaa

One *caller* is one handler that needs a ticket.  Files are indexed by folder
(CUIT) and service (`filesFor`), and hold nothing, an empty or torn text, or a
whole one.  A write is two steps (truncate, fill).  `spawnSync` holds the event
loop (`signer`); a file operation that was under way may still end, after which
its caller waits (`stalled`).  A crash leaves the files as they are.

`disturbed` is a history variable: the callers that overlap a renewal of the
same ticket by another caller.  `refused`: those that openssl or WSAA failed.
`overdue`: those that were about to read the ticket when another caller wrote one
that had expired since WSAA gave it.  `FreshUnlessOverdue` speaks of all callers,
the disturbed ones too: that is the only way to a ticket that had expired when
the caller came.

### 2.4 CuitCerts

One *call* is one HTTP call that has passed its guard.  `pc[r]` is the step it
takes next:

| phase | what the call does next | code |
|---|---|---|
| `read` | the first `getCuit` of `createCuit` (inside `upsertCuit`), `downloadCsr`, `generate` | firebase.service 161-167, account 65, certs 47 |
| `reread`, `write` | `upsertCuit`: its own `getCuit` (a second one for `generate`), its write | firebase.service 169-184 |
| `own` | `getCuit` of an upload or a renewal, compared with the account | account 111, certs 91, 100 |
| `decide` | whether `downloadCsr` has to generate | account 71-84 |
| `truncKey` ... `fillCsr` | `openssl genrsa`, `openssl req`, each truncating and then filling its output | cert.service 22-25 |
| `truncCrt`, `fillCrt` | multer stores the upload, before the handler starts | account 89-101, certs 68-80, cert.controller 46-62 |
| `status`, `deliver` | `setCuitStatus`; the stream of the CSR | firebase.service 186-190 |
| `unlink` | `uploadCrt` of the account endpoint removes the certificate after an error | account 115 |

Each endpoint goes through the phases it needs, in the order of its handler; a
renewal or an upload starts with its own (`First`).  The CUIT's
files hold nothing, an empty text, or a text named after the call
whose key it belongs to; an upload is the certificate of any CSR a client has
been given (`delivered`), something else, or no file at all.  `fillGone` is an
upload whose file was unlinked while it was being written.  Nothing in the code
checks that an upload is a certificate, or that of the key: the model does not
either.

Firestore may fail at any access (a write may have been applied nevertheless),
openssl at any step, a client may leave in the middle of its upload, and the
process may be killed anywhere.

Histories: `owners`, who a document has ever named; `spoilt`, the CUITs whose
calls overlapped, failed, went beside the document (`cert/`), or brought a file
that is not the certificate of the key at hand; `torn`, the CUITs whose last
generations overlapped, failed or died under way, until one begins alone again.
While a CUIT is torn its CSR may be empty, half done or of another key, and
`downloadCsr`, which only looks whether the file is there, sets the status and
serves it as it is.  `PendingHasCsr` says that nothing else leads there.

### 2.5 Accounts

One account, since accounts share nothing.  A call with a token goes through
`FirebaseAuthGuard` (`token`, `ensure`, `register`, `registered`) to `createKey`
(`rotate`, `store`, `stored`) or to a reading (`get`); a call with an API key is
one query (`verify`).  A write and its acknowledgement are two steps, so another
call may write between them, and the process may die there.  `ready` is whether
Firebase Admin came up: `onModuleInit` logs and goes on when it does not, and
both guards then refuse everybody.  Every failure inside a guard is a 401.

Histories: `told`, keys whose creators were answered; `dead`, keys that have
been in force and are not; `before`, what the document held when a key was
stored; `late`, calls that came with a dead key; `crossed`, calls that
overlapped another.

`KeyRing` tells the same without guards and Firestore: one key is in force, it
came into force once, the key it replaced was revoked in the same step, and a
caller is let in at an instant at which its key is told and in force.
`KeepsTheKeyRing` maps the document to `inForce`, `dead` to `revoked`, and an `ok`
of the guard to an admission; a step of `Register` that erases a key is `Erase`.

### 2.6 Padron

`lookup` for one caller after another: the checks and their errors, the ticket,
`getPersona`, then `mapPersona`.  ARCA's reply is a record of what the code looks
at: whether `datosGenerales` is there, what the error texts say, the tax entries
of both regimes one after the other, and whether there is a category of
Monotributo.  `Collect` is one turn of the loop of `collectImpuestos`, with its
`seen` set; `MapCondicionIva` ends it.  A state counts as active unless it is
`BAJA`: the code's `/activo/i` matches `INACTIVO` as well, and an entry without a
state is active.

### 2.7 Amounts

One request.  Amounts come in tenths of a cent and leave in cents, percentages
are in tenths of a point.  `Math.round(x * 100) / 100` of a tie in decimals may
go either way, since the tie is seldom one in binary, so `RoundedBy` is a set;
sums of cents are rounded again by the code and thus exact.  The POS loop takes
one tax a step (`AddTax`); `ClosePos` and `CloseV1` build `FECAEDetRequest`.  The
v1 total is the client's if it sent one.  `Moneda`, `Cotizacion` and `Fecha` are
`normalizeMoneda`, `resolveCotizacion` and `parseFecha`.  The name of a currency is
one of `Words`, sent as it is or with blanks or small letters (`loose`); a name that
is no alias goes out unchanged, as EUR does, and so does one of nothing but
blanks, as the empty name.  A rate comes in tenths of a millionth and is rounded
to millionths.

What ARCA checks is stated with `Sums!SumTo`, a recursive function; it stands for
no code, which sums up as it goes.

## 3. Runs

| run | instance | checks |
|---|---|---|
| `invoicing` | 3 requests, 1 series, 1 account, 2 months, 1 restart | types, numbers, answers, refusals, usage, events |
| `invoicing_two` | 2 requests, 2 series of 2 CUITs, 2 accounts, 1 foreign write to a CUIT document | one invoice per request, ownership, refinement of `InvoiceBook` |
| `invoicing_live` | 2 requests, 1 series, 2 months, 1 restart, fairness | every request ends or waits for ARCA |
| `wsaa` | 3 callers, 1 CUIT, 2 services, tickets that live 1 of 2 ticks, 1 restart | genuine, fresh, self-healing |
| `cuit_certs` | 3 calls of any of the 8 endpoints, 1 CUIT, 2 accounts, 1 failure, 1 restart | the CSR of its key for whoever waits, only owners, settled owner, ready means paired |
| `cuit_owner` | 2 calls, 2 accounts | *violated*: a CUIT keeps its owner |
| `cuit_ready` | 3 calls of v1, one at a time, 1 account, 1 failure | *violated*: a ready CUIT has a certificate |
| `accounts` | 4 calls, 1 failure, 1 restart | revocation, told keys, `rotated`, owners let in, settled account, refinement of `KeyRing` |
| `padron` | replies of up to 3 entries out of 12 | first entries, VAT condition, no deadlock |
| `amounts` | ties, parts of a cent, whole cents; up to 2 taxes or 2 VAT lines, 0%, 10.5%, 21% | what is sent adds up or nearly does, rates of exchange |
| `amounts_date` | a date that is sent, one that is not, one that is none | *violated*: today's date only where none was sent |
| `amounts_mono` | whole amounts, with and without VAT and its line | *violated*: no VAT of a monotributista |

Why these bounds are enough.  Two requests race for a number; a third is there
to take the number that makes the second one's refusal repeat, and to make a
transaction lose twice.  Two months, because a period is taken down once and
used twice.  One restart, because a second one can only do what the first did
to requests that arrive later.  Two CUITs and accounts are what ownership needs;
one foreign write can already move a CUIT to the other account between the guard
and the CAE.  Two callers spoil each other's files; the third is the bystander
that finds the result, or the caller of the other service.  A ticket that lives
one tick expires between any two steps.

Three calls on a CUIT are two rivals and a bystander, and also the shortest
course of generating, uploading and renewing.  Four calls of an account are a
first call, a creation, a rotation and a use of the older key, or two first calls
and two creations.  Three entries are a tax, another, and the first again; the
six ids are one of Monotributo, the four others that decide, and none.  The
amounts 0, 2.5 and 5 cents contain the tie and the whole, and 10.5% of 5 are parts
of a cent; two lines of 2.5 make 5, so that two errors of rounding add up.  The
currencies are the peso by no name and by an alias, others by code, alias and a
name of blanks, at the least rate, at ties, and at none.  `MC_CuitCerts` keeps one
CUIT because no step touches two; `CuitCerts_proofs` covers any number.

Every bound is a constant in a guard (`MaxPeriod`, `MaxCrashes`, `MaxWrites`,
`MaxTime`, `Life`, `MaxOpen`, `MaxFailures`, `MaxItems`, `MaxTaxes`, `MaxIvas`), and
every safety property is proved for all of them.

Requests, calls, callers, services and accounts are symmetric in the safety
runs; the liveness run uses no symmetry.  Deadlock is checked in `padron`, whose
lookups repeat.  Elsewhere finitely many calls end, and the model with them.

### 3.1 Where the code and its documentation disagree

* `cuit_owner`: `upsertCuit` reads the document and writes it without a
  transaction (`firebase.service.ts` 170).  Two first registrations of one CUIT
  both succeed, and the CUIT goes to the later, whatever `account.controller.ts` 57
  ("Ese CUIT ya está asociado a otra cuenta") says.  `OwnerIsSettled` is what
  holds: it takes a rival that looked before the owner was there.
* `cuit_ready`: an upload to a CUIT that is ready overwrites its certificate and,
  if Firestore then fails, removes it (`account.controller.ts` 115) and leaves the
  status; the CUIT of an invoice is meant to be one "con CRT listo"
  (`issue-invoice.dto.ts` 82).  `ReadyIsPaired` is what holds.
* `amounts_date`: a date that cannot be parsed counts as none and becomes today's
  (`afip-invoice.service.ts` 32), while `issue-invoice.dto.ts` 97 reserves today's
  for invoices without a date.
* `amounts_mono`: for a monotributista the exempt amount and the VAT lines are
  dropped, and the VAT amount goes out as it came (`afip-invoice.service.ts` 77),
  where `issue-invoice.dto.ts` 129 says "no informa IVA".

Seen while modelling, without a run: both guards turn a Firestore failure into a
401 (`api-key.guard.ts` 19-20), although the key may be valid (`OwnersAreLetIn`
shows that nothing but a failure or a restart does that to a good key); the example of a
lookup in `swagger-examples.ts` 79-86 describes condition 1 as "IVA Responsable
Inscripto", where `afip-padron.service.ts` 170 takes the description of the tax,
"IVA" there.

### 3.2 Fairness

Only `invoicing_live` assumes any: `WF(Progress(r))`, that continuations run in
the end (Node's event loop) and that Firestore answers.  A SOAP call owes no
answer, since the code sets no timeout (`soap-helper.service.ts` 43-54): a request
may wait for WSAA or ARCA for ever (`WaitingForArca`), and `Answered` says that it
waits for nothing else.  Nor are failures owed, arrivals, months, restarts or other
handlers.  For tickets no liveness is stated: a renewal is a straight line of file
operations, `spawnSync` and SOAP, and would end by what one assumes of these.

## 4. Proofs

TLAPS proves, for any sets of requests, calls, series, CUITs, accounts, callers,
tax entries and amounts, and for any bounds:

| module | theorem | property |
|---|---|---|
| Invoicing_proofs | `TypeCorrect` | `TypeOK` |
| | `InvoicedOnce` | `OneInvoicePerRequest` |
| | `RefusedNumberIsHeld` | `RejectedNumberTaken` |
| | `ToldNumberIsHeld` | `OkIsAuthorised` |
| | `RefusedIsNeverIssued` | `RefusalIsFinal` |
| | `CountsEveryInvoiceOnce` | `UsageIsExact` |
| | `EventsNameInvoices` | `EventsAreCounted` |
| | `ToldIsBilled` | `OkIsBilled` |
| | `IssuesForItsOwn` | `IssuedUnderReadyCuit` |
| | `ImplementsTheBook` | `KeepsTheBook` |
| Wsaa_proofs | `TicketTypesAreKept` | `TypeOK` |
| | `TicketsAreGenuine` | `TicketIsGenuine` |
| | `FilesFailNobodyAlone` | `FailsOnlyIfDisturbed` |
| | `TicketsAreFresh` | `FreshUnlessOverdue` |
| CuitCerts_proofs | `CertTypesAreKept` | `TypeOK` |
| | `PendingHasItsCsr` | `PendingHasCsr` |
| | `OnlyOwnersMayChange` | `OnlyOwnersChange` |
| | `OwnersAreSettled` | `OwnerIsSettled` |
| | `ReadyCuitsArePaired` | `ReadyIsPaired` |
| Accounts_proofs | `AccountTypesAreKept` | `TypeOK` |
| | `RevocationIsFinal` | `DeadKeysStayDead` |
| | `ToldKeysAreStored` | `ToldKeyIsHeldOrDead` |
| | `RotationsAreTold` | `RotationIsTold` |
| | `SettledAccountsKeepTheirKey` | `SettledAccountKeepsAKey` |
| | `OwnersAreAdmitted` | `OwnersAreLetIn` |
| | `ImplementsTheKeyRing` | `KeepsTheKeyRing` |
| Padron_proofs | `PadronTypesAreKept` | `TypeOK` |
| | `TheFirstAreKept` | `ImpuestosAreTheFirst` |
| | `ConditionsFollow` | `ConditionFollowsFromReply` |
| Amounts_proofs | `AmountTypesAreKept` | `TypeOK` |
| | `TotalsAreNear` | `V1IsNear` |
| | `RatesAreNear` | `RateIsNear` |
| | `PosTotalsAddUp` | `PosAddsUp` |
| | `PosVatIsNear` | `PosVatIsOfItsBases` |
| | `V1TotalsAddUp` | `V1AddsUp` |
| | `LinesAreNear` | `V1LinesAreNear` |
| Promises_proofs | `TheBookIsSound` | `BookIsSound`, of InvoiceBook |
| | `TheRingIsSound` | `RingIsSound`, of KeyRing |
| | `TheRingIsFinal` | `RingIsFinal`, of KeyRing |

Assumptions: `CuitOf` is a function from series to CUITs, `NoAccount` is no
account, `NoCaller` no caller, calls are none of the texts a file or a document
may hold instead (`CallsAreNoTexts`), `Ops` are operations of the code, `NaN` is
no number, tax entries, amounts, rates, totals and terms have their shape, and
the bounds are natural numbers.  The two theorems about KeyRing assume that
`NoKey` is no key, which `CallsAreNoTexts` gives for Accounts.

The argument for Invoicing.  None of the properties is inductive by itself.
`TypeInv` adds to the types that a request has a job from its arrival on and is
answered once.  `IssueInv` is the core: a handler's last number is never ahead
of the book (`NumberNotAhead`: books only grow); a solicitud on the wire is that
of a handler that has asked and whose answer is still open or `error`
(`AskedBefore`: this is why a refusal is final); the books, ARCA's decisions and
the handlers' numbers say the same (`BookAgrees`); a definite answer agrees with
the decision (`AnswerAgrees`).  `UsageInv` rests on it: requests are in the
counted set from their commit on, and the count of an account and month is the
cardinality of the counted requests of that account and month.  `ReadyInv` says
that whoever has passed the guard did so with a document that was its own and
ready.  The refinement maps a grant at ARCA to `Enter`, an answer to `Report`,
`Refuse` or `GiveUp`, and everything else to a stutter.

The argument for Wsaa.  `OwnInv` says whose text each file and each hand may
hold in each phase.  `LoneInv` says that nobody else renews the ticket of an
undisturbed caller, hence its files still hold what it put there.  `FreshInv`
needs no such company: a ticket on its way from WSAA expires after its caller
came, and so does one in a file that a caller, not being `overdue`, is about to
read; another caller's `FillTa` is the step that could break this, and with an
expired ticket it makes the readers overdue.

The argument for CuitCerts.  `CertInv` adds to the types one statement per call
and one per CUIT: what a call in each phase has read, whether its account is
among the owners, that the CSR is on disk from `TruncCsr` on (no endpoint removes
one), and that whoever will write a status it has read has read one that was true
then.  A frame lemma carries both over the steps of other calls.  `PairInv` adds
the course of a CUIT that is not spoilt: one call at most is at work, and it
knows for each of its phases what the key, the CSR, the certificate and the status
are; without it, a renewal that is half done would look like a ready CUIT with a
strange key.  `OwnerIsSettled` needs only that `reread` and `read` let a call go
on to `write` if the document was absent or its own.  `GenInv` is about CUITs that
are not torn: at rest the CSR is that of the key, or there is neither; otherwise a
single generation is at work, with the key it wrote itself.  With `CertInv`, which
gives a CSR on disk, this is `PendingHasCsr`.

The argument for Accounts.  `KeyInv`: a key in the document is that of a call that
has stored it, a told key's call has ended, a late call carries a dead key.  Keys
are named after calls, and a call stores one key once, so a dead key cannot come
back.  `AloneInv` says that for an uncrossed creation the document still holds
what it read.  `CallInv` adds the caller's side: a key that is shown was told, a
call with a key stands before its guard or has ended, and a service that came up
without Firebase has told nobody a key.  So whoever is refused without a failure
shows a key that is not in force, hence a dead one (`StoredIsHeldOrDead`).  For the
refinement `StoreKey` is `Issue`, which is where a key named after its call must be
new (`KeysAreStored`); `Register` is `Erase` or a stutter; `VerifyApiKey` is
`Admit` at the instant of its query, or a stutter.

The argument for Padron.  `LoopInv` is the invariant of the loop: the kept entries
are the first ones among those taken, and their ids are those seen.  From it an
active entry is kept exactly if it is an active first one of the reply, which
gives the condition.

The argument for Amounts.  Lemmas bound a rounded amount (at most half a unit
off, exact for whole cents; a rate of a millionth or more stays above zero);
four such errors and that of the total make less than three cents, hence at most
two.  For the lines, `Sums_proofs` gives what `SumTo` returns: the partial sums
exist, and one more term adds that term (`SumOfOneMore`); where every term of
one sum is within `b` of the same term of another, the sums are within `n * b`
(`SumsAreNear`).  These need induction on the number of lines, over the
predicate in question.  `SetInduction` states induction for a set of numbers
instead, which the provers can name, and rests on the library's theorem that the
order of the natural numbers is well-founded.  `Amounts_proofs!LoopInv` is the
invariant of the POS loop: `neto` and `iva` are the sums of the columns of
`lines`, and `iva` is within half a cent a line of the VAT of their bases.
`ClosePos` sends just these.  `CloseV1` sends lines that are rounded one by one,
so its sums are those of the invoice up to half a cent a line, and exactly those
when all are whole cents.

The argument for the abstract specifications.  `BookInv` and `RingInv` add the types
to what is promised: a book grows at its end only, by a request that stands
nowhere, and by none that was refused; a key is issued only if it is neither in
force nor revoked.

Only model-checked: `Answered`, since liveness under fairness is out of the
prover's reach.

## 5. Not modelled

* Application wiring (modules, port, Swagger) has no behaviour of its own; the
  PHP service in `backup_php/` and the barcode library in it are not deployed.
* Wording of messages, names and addresses of a lookup, the XML of the exchanges:
  no control depends on them.
* Failing disks.  A write to a file ends, or the process does, or (an upload) its
  client leaves.
* The Firestore transaction is taken at its contract: it commits only over what
  it read, at most once; its confirmation may be lost.  The SOAP library sends a
  request once.  A single write that failed for its caller was applied by then or
  never is: one that is applied later still is left out.
* Uniqueness of a solicitud's content at ARCA: ARCA judges it by its number and,
  for the rest, as it likes.  That ARCA certifies only CSRs somebody has brought
  it is assumed.
* Negative amounts, which neither endpoint refuses (the DTO asks for a number and
  no more), amounts that are no numbers (the DTO refuses them, the POS does not
  look), amounts too large or too small for the arithmetic of JavaScript, the date
  of a POS transaction, the limit of 200 events of a usage report, and other
  readings without control.
* The mkdir of the ticket folder, and the WSDL the SOAP clients download.

## 6. Plan

Done: Invoicing with InvoiceBook, Wsaa, CuitCerts, Accounts with KeyRing, Padron,
Amounts, and the proofs above.  To come, in this order:

1. Wsaa with Invoicing: the ticket phase of a request becomes a caller of Wsaa,
   so that a request that waits for its ticket waits at a step of Wsaa; and the
   refinement of the present phase by it.
2. CuitCerts with Wsaa: openssl signs with the key and certificate that the
   endpoints may be replacing, which gives the failures of Wsaa their cause.
3. CuitCerts: liveness of a generation, which needs the fairness of Firestore and
   of openssl.
4. An abstract specification of who owns a CUIT, as KeyRing is of who holds a key.
