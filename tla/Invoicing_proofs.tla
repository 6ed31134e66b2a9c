-------------------------- MODULE Invoicing_proofs --------------------------
(***************************************************************************)
(* Proofs about Invoicing, for any number of requests, series, accounts    *)
(* and restarts.                                                           *)
(*                                                                         *)
(* Four inductive invariants, each resting on the ones before it.  TypeInv *)
(* has the types, and that a request is answered once.  IssueInv ties the  *)
(* handler of a request to the book of its series, UsageInv to what        *)
(* Firestore has been told, ReadyInv to the CUIT documents it has read.    *)
(***************************************************************************)
EXTENDS Invoicing, FiniteSetTheorems, TLAPS

-----------------------------------------------------------------------------
(* The inductive invariants. *)

\* A request has a job from its arrival on, and is answered once, at the end;
\* only a v1 request counts, in the period it has taken down.
Handled ==
  \A r \in Requests :
    /\ pc[r] = "idle" <=> job[r] = NoJob
    /\ pc[r] # "done" => answer[r] = NoAnswer
    /\ pc[r] \in {"count", "commit", "event"} => job[r].api = "v1" /\ period[r] \in Periods

TypeInv == TypeOK /\ Handled

\* A number is never ahead of the book of the series it is for.
NumberNotAhead ==
  \A r \in Requests : /\ pc[r] = "idle" => nro[r] = 0
                      /\ pc[r] # "idle" => nro[r] <= Len(book[job[r].series])

\* ARCA hears of a request only after its handler has asked, and decides once.
AskedBefore ==
  /\ \A m \in wire : /\ m = Solicitud(m.req)
                     /\ pc[m.req] \in {"await", "done", "lost"}
                     /\ decision[m.req] = "none"
                     /\ answer[m.req].kind \in {"none", "error"}
  /\ \A r \in Requests : decision[r] # "none" =>
       pc[r] \in {"await", "count", "commit", "event", "done", "lost"}

\* The books and the decisions say the same.
BookAgrees ==
  /\ \A s \in Series : \A n \in DOMAIN book[s] :
       LET r == book[s][n] IN /\ decision[r] = "granted"
                              /\ job[r] # NoJob
                              /\ job[r].series = s
                              /\ n = NextNumber(r)
  /\ \A r \in Requests :
       decision[r] = "granted" =>
         LET b == book[job[r].series]
         IN  NextNumber(r) \in DOMAIN b /\ b[NextNumber(r)] = r
  /\ \A r \in Requests :
       decision[r] = "outOfSequence" => NextNumber(r) \in DOMAIN book[job[r].series]

\* A definite answer agrees with the decision.
AnswerAgrees ==
  \A r \in Requests :
    /\ answer[r].kind = "ok" => decision[r] = "granted" /\ answer[r].number = NextNumber(r)
    /\ answer[r].kind = "observed" => decision[r] \in {"refused", "outOfSequence"}
    /\ answer[r].kind \in {"forbidden", "badRequest", "noTicket"} => decision[r] = "none"

\* Only the handler of an authorised invoice counts.
CountsGranted ==
  \A r \in Requests : pc[r] \in {"count", "commit", "event"} => decision[r] = "granted"

IssueInv == NumberNotAhead /\ AskedBefore /\ BookAgrees /\ AnswerAgrees /\ CountsGranted

\* A request is counted at most once, at the commit that precedes its event.
CountedOnce ==
  /\ \A r \in Requests : pc[r] = "event" => r \in counted
  /\ \A r \in counted : /\ pc[r] \in {"event", "done", "lost"}
                        /\ job[r].api = "v1" /\ decision[r] = "granted"
                        /\ period[r] \in Periods

CountIsExact ==
  \A a \in Accounts, p \in Periods : usage[a][p] = Cardinality(Counts(a, p))

EventsAgree == \A e \in events : e.cae \in counted /\ e = Event(e.cae)

UsageInv == IsFiniteSet(counted) /\ CountedOnce /\ CountIsExact /\ EventsAgree /\ OkIsBilled

\* The handler is past the guard, or ARCA has heard of the request.
Admitted(r) == \/ pc[r] \in {"ticket", "ask", "solicit", "await"}
               \/ \E m \in wire : m.req = r
               \/ decision[r] = "granted"

\* The issuer of an admitted v1 request was once owned and ready.
ReadyInv ==
  /\ \A c \in Cuits : cuitDoc[c].status = "ready" => <<cuitDoc[c].owner, c>> \in everReady
  /\ \A r \in Requests : job[r].api = "v1" /\ Admitted(r) =>
       <<job[r].account, Cuit(r)>> \in everReady
-----------------------------------------------------------------------------
(* Types. *)

\* What a job is made of.
LEMMA JobFields ==
  \A j \in Jobs : /\ j # NoJob
                  /\ j.api \in {"v1", "pos"}
                  /\ j.series \in Series
                  /\ j.api = "v1" => j.account \in Accounts
  BY DEF Jobs, NoJob

LEMMA TypeInit == Init => TypeOK
<1> SUFFICES ASSUME Init PROVE TypeOK
  OBVIOUS
<1>1. 1 \in Periods
  BY BoundsAreNatural DEF Periods
<1>2. \A s \in Series : <<>> \in Seq(Requests)
  OBVIOUS
<1>. QED
  BY <1>1, <1>2, BoundsAreNatural
  DEF Init, TypeOK, Phases, Kinds, NoAnswer, Periods
LEMMA GotoTyped ==
  ASSUME TypeOK, NEW r \in Requests, NEW phase \in Phases, Goto(r, phase)
  PROVE  pc' \in [Requests -> Phases]
  BY DEF TypeOK, Goto

LEMMA ReplyTyped ==
  ASSUME TypeOK, NEW r \in Requests, NEW kind \in Kinds, NEW number \in Nat,
         Reply(r, kind, number)
  PROVE  pc' \in [Requests -> Phases] /\ answer' \in [Requests -> [kind: Kinds, number: Nat]]
<1>1. [kind |-> kind, number |-> number] \in [kind: Kinds, number: Nat]
  OBVIOUS
<1>. QED
  BY <1>1, GotoTyped DEF Reply, TypeOK, Phases

-----------------------------------------------------------------------------
(* The quiet steps: those that only move or end one request.               *)

\* The request moves on without an answer.
Moves(r) ==
  /\ \/ pc[r] = "guard" /\ pc' = [pc EXCEPT ![r] = "ticket"]
        /\ Owned(r) /\ Ready(r)
     \/ pc[r] = "ticket" /\ pc' = [pc EXCEPT ![r] = "ask"]
     \/ pc[r] = "commit" /\ pc' = [pc EXCEPT ![r] = "count"]
  /\ answer' = answer

\* The request ends, and a refusal is a refusal for a reason.
Ends(r) ==
  \E k \in Kinds, n \in Nat :
    /\ \/ k = "error" /\ pc[r] \in {"guard", "ticket", "ask", "await"}
       \/ k \in {"forbidden", "badRequest", "noTicket"} /\ pc[r] \in {"guard", "ticket", "solicit"}
       \/ /\ k = "observed"
          /\ pc[r] = "await"
          /\ decision[r] \in {"refused", "outOfSequence"}
    /\ Reply(r, k, n)

Quiet(r) ==
  /\ Moves(r) \/ Ends(r)
  /\ UNCHANGED <<job, nro, arcaVars, storeVars, usageVars, clockVars>>

LEMMA QuietSteps ==
  ASSUME TypeOK, NEW r \in Requests,
         \/ CheckCuit(r) \/ CheckFails(r) \/ TakeTicket(r) \/ TicketFails(r)
         \/ AskFails(r) \/ RejectDates(r) \/ ReceiveObserved(r) \/ ReceiveFault(r)
         \/ SolicitFails(r) \/ RetryCount(r)
  PROVE  Quiet(r)
<1>0. 0 \in Nat /\ NextNumber(r) \in Nat
  BY DEF NextNumber, TypeOK
<1> USE DEF Quiet, Fail
<1>1. CASE CheckCuit(r)
  <2>1. CASE ~ Owned(r) /\ Fail(r, "forbidden")
    BY <1>0, <1>1, <2>1 DEF CheckCuit, Ends, Kinds
  <2>2. CASE ~ Ready(r) /\ Fail(r, "badRequest")
    BY <1>0, <1>1, <2>2 DEF CheckCuit, Ends, Kinds
  <2>3. CASE Owned(r) /\ Ready(r) /\ Goto(r, "ticket") /\ UNCHANGED answer
    BY <1>1, <2>3 DEF CheckCuit, Moves, Goto
  <2>. QED
    BY <1>1, <2>1, <2>2, <2>3 DEF CheckCuit
<1>2. CASE CheckFails(r)
  BY <1>0, <1>2 DEF CheckFails, Ends, Kinds
<1>3. CASE TakeTicket(r)
  <2>1. CASE job[r].defect = "rate"
    BY <1>0, <1>3, <2>1 DEF TakeTicket, Ends, Kinds
  <2>2. CASE job[r].defect = "letter"
    BY <1>0, <1>3, <2>2 DEF TakeTicket, Ends, Kinds
  <2>3. CASE job[r].defect # "rate" /\ job[r].defect # "letter"
    BY <1>3, <2>3 DEF TakeTicket, Moves, Goto
  <2>. QED
    BY <2>1, <2>2, <2>3
<1>4. CASE TicketFails(r)
  BY <1>0, <1>4 DEF TicketFails, Ends, Kinds
<1>5. CASE AskFails(r)
  BY <1>0, <1>5 DEF AskFails, Ends, Kinds
<1>6. CASE RejectDates(r)
  BY <1>0, <1>6 DEF RejectDates, Ends, Kinds
<1>7. CASE ReceiveObserved(r)
  BY <1>0, <1>7 DEF ReceiveObserved, ReportedNumber, Ends, Kinds
<1>8. CASE ReceiveFault(r)
  BY <1>0, <1>8 DEF ReceiveFault, Ends, Kinds
<1>9. CASE SolicitFails(r)
  BY <1>0, <1>9 DEF SolicitFails, Ends, Kinds
<1>10. CASE RetryCount(r)
  BY <1>10 DEF RetryCount, Moves, Goto
<1>. QED
  BY <1>1, <1>2, <1>3, <1>4, <1>5, <1>6, <1>7, <1>8, <1>9, <1>10
-----------------------------------------------------------------------------
(* Type correctness. *)

LEMMA QuietTyped ==
  ASSUME TypeOK, NEW r \in Requests, Quiet(r)
  PROVE  TypeOK'
<1>1. pc' \in [Requests -> Phases] /\ answer' \in [Requests -> [kind: Kinds, number: Nat]]
  <2>1. CASE Moves(r)
    BY <2>1 DEF Moves, TypeOK, Phases
  <2>2. CASE Ends(r)
    BY <2>2, ReplyTyped DEF Ends
  <2>. QED
    BY <2>1, <2>2 DEF Quiet
<1>. QED
  BY <1>1 DEF Quiet, TypeOK, arcaVars, storeVars, usageVars, clockVars

LEMMA EventTyped ==
  ASSUME TypeOK, NEW r \in Requests, job[r] \in Jobs, job[r].api = "v1", period[r] \in Periods
  PROVE  Event(r) \in Events
  BY JobFields DEF TypeOK, Event, Events, NextNumber

LEMMA SolicitudTyped ==
  ASSUME TypeOK, NEW r \in Requests, job[r] \in Jobs
  PROVE  Solicitud(r) \in Solicitudes
  BY JobFields DEF TypeOK, Solicitud, Solicitudes, NextNumber

LEMMA TypeStep == TypeInv /\ [Next]_vars => TypeInv'
<1> SUFFICES ASSUME TypeInv, [Next]_vars PROVE TypeInv'
  OBVIOUS
<1>0. TypeOK /\ Handled
  BY DEF TypeInv
<1> USE DEF TypeInv, Goto, arcaVars, storeVars, usageVars, clockVars
<1>a. \A r \in Requests : pc[r] # "idle" => job[r] \in Jobs
  BY <1>0 DEF TypeOK, Handled
<1>b. \A r \in Requests : Reply(r, "ok", ReportedNumber(r)) =>
        /\ pc' \in [Requests -> Phases]
        /\ answer' \in [Requests -> [kind: Kinds, number: Nat]]
  BY <1>0, ReplyTyped DEF TypeOK, ReportedNumber, NextNumber, Kinds
<1>c. \A r \in Requests : Fail(r, "error") =>
        /\ pc' \in [Requests -> Phases]
        /\ answer' \in [Requests -> [kind: Kinds, number: Nat]]
  BY <1>0, ReplyTyped DEF Kinds, Fail
<1>1. ASSUME NEW r \in Requests, ArriveV1(r) PROVE TypeInv'
  <2>1. TypeOK'
    BY <1>0, <1>1 DEF ArriveV1, TypeOK, Phases
  <2>2. Handled'
    BY <1>0, <1>1, JobFields DEF ArriveV1, TypeOK, Handled
  <2>. QED
    BY <2>1, <2>2
<1>2. ASSUME NEW r \in Requests, ArrivePos(r) PROVE TypeInv'
  <2>1. PICK j \in {x \in Jobs : x.api = "pos"} :
          /\ job' = [job EXCEPT ![r] = j]
          /\ \/ Fail(r, "error")
             \/ Goto(r, "ticket") /\ UNCHANGED answer
    BY <1>2 DEF ArrivePos
  <2>2. pc' \in [Requests -> Phases] /\ answer' \in [Requests -> [kind: Kinds, number: Nat]]
    BY <1>0, <1>c, <2>1 DEF TypeOK, Phases
  <2>3. TypeOK'
    BY <1>0, <1>2, <2>1, <2>2 DEF ArrivePos, TypeOK
  <2>4. Handled'
    BY <1>0, <1>2, <2>1, JobFields DEF ArrivePos, TypeOK, Handled, Fail, Reply
  <2>. QED
    BY <2>3, <2>4
<1>3. ASSUME NEW r \in Requests, Quiet(r) PROVE TypeInv'
  <2>1. TypeOK'
    BY <1>0, <1>3, QuietTyped
  <2>2. Handled'
    <3>1. CASE Moves(r)
      BY <1>0, <1>3, <3>1 DEF Quiet, Moves, TypeOK, Handled
    <3>2. CASE Ends(r)
      BY <1>0, <1>3, <3>2 DEF Quiet, Ends, Reply, TypeOK, Handled
    <3>. QED
      BY <1>3, <3>1, <3>2 DEF Quiet
  <2>. QED
    BY <2>1, <2>2
<1>4. ASSUME NEW r \in Requests, AskLast(r) PROVE TypeInv'
  <2>1. PICK n \in Nat : nro' = [nro EXCEPT ![r] = n]
    <3>1. job[r].series \in Series
      BY <1>0, <1>4, <1>a, JobFields DEF AskLast
    <3>2. book[job[r].series] \in Seq(Requests)
      BY <1>0, <3>1 DEF TypeOK
    <3>3. LastAuthorised(job[r].series) \subseteq Nat
      BY <3>2 DEF LastAuthorised
    <3>. QED
      BY <1>4, <3>3 DEF AskLast
  <2>2. TypeOK'
    BY <1>0, <1>4, <2>1 DEF AskLast, TypeOK, Phases
  <2>3. Handled'
    BY <1>0, <1>4 DEF AskLast, TypeOK, Handled
  <2>. QED
    BY <2>2, <2>3
<1>5. ASSUME NEW r \in Requests, Solicit(r) PROVE TypeInv'
  <2>1. wire' \subseteq Solicitudes
    BY <1>0, <1>5, <1>a, SolicitudTyped DEF Solicit, TypeOK
  <2>2. TypeOK'
    BY <1>0, <1>5, <2>1 DEF Solicit, TypeOK, Phases
  <2>3. Handled'
    BY <1>0, <1>5 DEF Solicit, TypeOK, Handled
  <2>. QED
    BY <2>2, <2>3
<1>6. ASSUME NEW r \in Requests, ReceiveGrant(r) PROVE TypeInv'
  <2>1. CASE job[r].api = "v1"
    <3>1. PeriodId \in 0 .. MaxPeriod
      BY <1>0, BoundsAreNatural DEF PeriodId, TypeOK, Periods
    <3>2. period' = [period EXCEPT ![r] = PeriodId] /\ Goto(r, "count") /\ UNCHANGED answer
      BY <1>6, <2>1 DEF ReceiveGrant
    <3>5. period' \in [Requests -> 0 .. MaxPeriod]
      BY <1>0, <3>1, <3>2 DEF TypeOK
    <3>6. pc' \in [Requests -> Phases]
      BY <1>0, <3>2, GotoTyped DEF Phases
    <3>4. TypeOK'
      BY <1>0, <1>6, <3>2, <3>5, <3>6 DEF ReceiveGrant, TypeOK
    <3>3. Handled'
      BY <1>0, <1>6, <2>1 DEF ReceiveGrant, PeriodId, TypeOK, Handled
    <3>. QED
      BY <3>3, <3>4
  <2>2. CASE job[r].api # "v1"
    <3>1. TypeOK'
      BY <1>0, <1>6, <1>b, <2>2 DEF ReceiveGrant, TypeOK
    <3>2. Handled'
      BY <1>0, <1>6, <2>2 DEF ReceiveGrant, Reply, TypeOK, Handled
    <3>. QED
      BY <3>1, <3>2
  <2>. QED
    BY <2>1, <2>2
<1>7. ASSUME NEW r \in Requests, ReadCount(r) PROVE TypeInv'
  <2>1. Count(r) \in Nat
    BY <1>0, <1>7, <1>a, JobFields DEF ReadCount, Count, TypeOK, Handled
  <2>2. TypeOK'
    BY <1>0, <1>7, <2>1 DEF ReadCount, TypeOK, Phases
  <2>3. Handled'
    BY <1>0, <1>7 DEF ReadCount, TypeOK, Handled
  <2>. QED
    BY <2>2, <2>3
<1>u. ASSUME NEW r \in Requests, Commit(r)
      PROVE  usage' \in [Accounts -> [Periods -> Nat]] /\ counted' \subseteq Requests
  <2>1. snap[r] + 1 \in Nat
    BY <1>0 DEF TypeOK
  <2>2. \A a \in Accounts : [usage[a] EXCEPT ![period[r]] = snap[r] + 1] \in [Periods -> Nat]
    BY <1>0, <2>1 DEF TypeOK
  <2>3. usage' = [usage EXCEPT ![job[r].account] = [@ EXCEPT ![period[r]] = snap[r] + 1]]
    BY <1>u DEF Commit
  <2>4. usage' \in [Accounts -> [Periods -> Nat]]
    BY <1>0, <2>2, <2>3 DEF TypeOK
  <2>5. counted' \subseteq Requests
    BY <1>0, <1>u DEF Commit, TypeOK
  <2>. QED
    BY <2>4, <2>5
<1>8. ASSUME NEW r \in Requests, CommitCount(r) PROVE TypeInv'
  <2>1. TypeOK'
    BY <1>0, <1>8, <1>u DEF CommitCount, TypeOK, Phases
  <2>2. Handled'
    BY <1>0, <1>8 DEF CommitCount, TypeOK, Handled
  <2>. QED
    BY <2>1, <2>2
<1>9. ASSUME NEW r \in Requests, CountFails(r) PROVE TypeInv'
  <2>1. usage' \in [Accounts -> [Periods -> Nat]] /\ counted' \subseteq Requests
    BY <1>0, <1>9, <1>u DEF CountFails, TypeOK
  <2>2. TypeOK'
    BY <1>0, <1>9, <1>c, <2>1 DEF CountFails, TypeOK
  <2>3. Handled'
    BY <1>0, <1>9 DEF CountFails, Fail, Reply, TypeOK, Handled
  <2>. QED
    BY <2>2, <2>3
<1>10. ASSUME NEW r \in Requests, AddEvent(r) PROVE TypeInv'
  <2>1. events' \subseteq Events
    BY <1>0, <1>10, <1>a, EventTyped DEF AddEvent, TypeOK, Handled
  <2>2. TypeOK'
    BY <1>0, <1>10, <1>b, <2>1 DEF AddEvent, TypeOK
  <2>3. Handled'
    BY <1>0, <1>10 DEF AddEvent, Reply, TypeOK, Handled
  <2>. QED
    BY <2>2, <2>3
<1>11. ASSUME NEW r \in Requests, EventFails(r) PROVE TypeInv'
  <2>1. events' \subseteq Events
    BY <1>0, <1>11, <1>a, EventTyped DEF EventFails, TypeOK, Handled
  <2>2. TypeOK'
    BY <1>0, <1>11, <1>c, <2>1 DEF EventFails, TypeOK
  <2>3. Handled'
    BY <1>0, <1>11 DEF EventFails, Fail, Reply, TypeOK, Handled
  <2>. QED
    BY <2>2, <2>3
<1>12. ASSUME NEW m \in wire, ArcaDecides(m) PROVE TypeInv'
  <2>1. m.req \in Requests /\ m.series \in Series /\ m.number \in Nat
    BY <1>0 DEF TypeOK, Solicitudes
  <2>2. book' \in [Series -> Seq(Requests)]
    <3>1. Append(book[m.series], m.req) \in Seq(Requests)
      BY <1>0, <2>1 DEF TypeOK
    <3>. QED
      BY <1>0, <1>12, <2>1, <3>1
      DEF ArcaDecides, Authorise, RefuseNumber, RefuseContent, TypeOK
  <2>3. PICK d \in {"granted", "outOfSequence", "refused", "fault"} :
          decision' = [decision EXCEPT ![m.req] = d]
    BY <1>12 DEF ArcaDecides, Authorise, RefuseNumber, RefuseContent
  <2>4. TypeOK'
    BY <1>0, <1>12, <2>1, <2>2, <2>3 DEF ArcaDecides, TypeOK
  <2>5. Handled'
    BY <1>0, <1>12 DEF ArcaDecides, TypeOK, Handled
  <2>. QED
    BY <2>4, <2>5
<1>13. ASSUME NEW m \in wire, LoseSolicitud(m) PROVE TypeInv'
  BY <1>0, <1>13 DEF LoseSolicitud, TypeOK, Handled
<1>14. ASSUME NEW c \in Cuits, NEW d \in CuitDocs, WriteCuit(c, d) PROVE TypeInv'
  <2>1. d.status = "ready" => d.owner \in Accounts
    BY DEF CuitDocs
  <2>2. everReady' \subseteq Accounts \X Cuits
    BY <1>0, <1>14, <2>1 DEF WriteCuit, TypeOK
  <2>3. TypeOK'
    BY <1>0, <1>14, <2>2, BoundsAreNatural DEF WriteCuit, TypeOK
  <2>4. Handled'
    BY <1>0, <1>14 DEF WriteCuit, TypeOK, Handled
  <2>. QED
    BY <2>3, <2>4
<1>15. ASSUME NextMonth PROVE TypeInv'
  BY <1>0, <1>15, BoundsAreNatural DEF NextMonth, TypeOK, Handled, Periods
<1>16. ASSUME Crash PROVE TypeInv'
  <2>1. TypeOK'
    BY <1>0, <1>16, BoundsAreNatural DEF Crash, Resting, TypeOK, Phases
  <2>2. Handled'
    BY <1>0, <1>16 DEF Crash, Resting, TypeOK, Handled
  <2>. QED
    BY <2>1, <2>2
<1>17. ASSUME UNCHANGED vars PROVE TypeInv'
  BY <1>0, <1>17 DEF vars, TypeOK, Handled
<1>. QED
  BY <1>0, <1>1, <1>2, <1>3, <1>4, <1>5, <1>6, <1>7, <1>8, <1>9, <1>10, <1>11, <1>12,
     <1>13, <1>14, <1>15, <1>16, <1>17, QuietSteps DEF Next, Arrive, Handle

LEMMA TypeInductive == Spec => []TypeInv
<1>1. Init => TypeInv
  <2>1. Init => Handled
    BY DEF Init, Handled
  <2>. QED
    BY <2>1, TypeInit DEF TypeInv
<1>. QED
  BY <1>1, TypeStep, PTL DEF Spec

\* Every variable keeps its type, and with it the phases, jobs and answers
\* of the requests and the documents of Firestore.
THEOREM TypeCorrect == Spec => []TypeOK
<1>1. TypeInv => TypeOK
  BY DEF TypeInv
<1>. QED
  BY <1>1, TypeInductive, PTL

-----------------------------------------------------------------------------
(* The requests and the books. *)

LEMMA IssueInit == Init => IssueInv
<1> SUFFICES ASSUME Init PROVE IssueInv
  OBVIOUS
<1>1. NumberNotAhead
  BY DEF Init, NumberNotAhead
<1>2. AskedBefore
  BY DEF Init, AskedBefore
<1>3. BookAgrees
  BY DEF Init, BookAgrees
<1>4. AnswerAgrees
  BY DEF Init, AnswerAgrees, NoAnswer
<1>5. CountsGranted
  BY DEF Init, CountsGranted
<1>. QED
  BY <1>1, <1>2, <1>3, <1>4, <1>5 DEF IssueInv

\* A step that ends or moves one request and leaves ARCA alone.
LEMMA QuietIssue ==
  ASSUME TypeInv, IssueInv, NEW r \in Requests, Quiet(r)
  PROVE  IssueInv'
<1> USE DEF TypeInv, IssueInv, Quiet, arcaVars
<1>0. UNCHANGED <<job, nro, wire, decision, book>>
  OBVIOUS
<1>1. /\ pc' = [pc EXCEPT ![r] = pc'[r]]
      /\ answer' = [answer EXCEPT ![r] = answer'[r]]
      /\ pc[r] # "idle" /\ pc'[r] # "idle"
  BY DEF Moves, Ends, Reply, Goto, TypeOK
<1>2. NumberNotAhead'
  BY <1>0, <1>1 DEF NumberNotAhead, TypeOK
<1>3. AskedBefore'
  <2>1. ASSUME NEW m \in wire
        PROVE  /\ pc'[m.req] \in {"await", "done", "lost"}
               /\ answer'[m.req].kind \in {"none", "error"}
    <3>0. m.req \in Requests
      BY DEF TypeOK, Solicitudes
    <3>1. CASE m.req # r
      BY <1>1, <3>0, <3>1 DEF AskedBefore, TypeOK
    <3>2. CASE m.req = r /\ Moves(r)
      BY <3>2 DEF AskedBefore, Moves
    <3>3. CASE m.req = r /\ Ends(r)
      <4>1. PICK k \in Kinds, n \in Nat :
              /\ \/ k = "error"
                 \/ pc[r] \in {"guard", "ticket", "solicit"}
                 \/ decision[r] # "none"
              /\ Reply(r, k, n)
        BY <3>3 DEF Ends
      <4>2. pc'[r] = "done" /\ answer'[r].kind = k
        BY <4>1 DEF Reply, Goto, TypeOK
      <4>. QED
        BY <3>3, <4>1, <4>2 DEF AskedBefore
    <3>. QED
      BY <3>1, <3>2, <3>3
  <2>2. ASSUME NEW q \in Requests, decision[q] # "none"
        PROVE  pc'[q] \in {"await", "count", "commit", "event", "done", "lost"}
    BY <2>2, <1>1 DEF AskedBefore, Moves, Ends, Reply, Goto, TypeOK
  <2>3. \A m \in wire : Solicitud(m.req)' = Solicitud(m.req)
    BY <1>0 DEF Solicitud, NextNumber
  <2>. QED
    BY <1>0, <2>1, <2>2, <2>3 DEF AskedBefore
<1>4. BookAgrees'
  BY <1>0 DEF BookAgrees, NextNumber
<1>5. AnswerAgrees'
  <2>1. CASE Moves(r)
    BY <1>0, <2>1 DEF Moves, AnswerAgrees, NextNumber
  <2>2. CASE Ends(r)
    <3>1. PICK k \in Kinds, n \in Nat :
            /\ \/ k = "error"
               \/ k \in {"forbidden", "badRequest", "noTicket"} /\ pc[r] \in {"guard", "ticket", "solicit"}
               \/ k = "observed" /\ decision[r] \in {"refused", "outOfSequence"}
            /\ Reply(r, k, n)
      BY <2>2 DEF Ends
    <3>2. answer' = [answer EXCEPT ![r] = [kind |-> k, number |-> n]]
      BY <3>1 DEF Reply
    <3>3. answer'[r].kind = k /\ \A q \in Requests : q # r => answer'[q] = answer[q]
      BY <3>2 DEF TypeOK
    <3>4. pc[r] \in {"guard", "ticket", "solicit"} => decision[r] = "none"
      BY DEF AskedBefore, TypeOK
    <3>. QED
      BY <1>0, <3>1, <3>3, <3>4 DEF AnswerAgrees, NextNumber
  <2>. QED
    BY <2>1, <2>2
<1>6. CountsGranted'
  BY <1>0 DEF Moves, Ends, Reply, Goto, CountsGranted, TypeOK
<1>. QED
  BY <1>2, <1>3, <1>4, <1>5, <1>6

\* The handler works on an authorised invoice: it counts it, and answers.
Settles(r) ==
  /\ decision[r] = "granted"
  /\ pc[r] \in {"await", "count", "commit", "event"}
  /\ \/ \E p \in {"count", "commit", "event"} : Goto(r, p) /\ UNCHANGED answer
     \/ Reply(r, "ok", NextNumber(r))
     \/ Reply(r, "error", 0)
  /\ UNCHANGED <<job, nro, arcaVars>>

LEMMA SettlingSteps ==
  ASSUME IssueInv, NEW r \in Requests,
         \/ ReceiveGrant(r) \/ ReadCount(r) \/ CommitCount(r) \/ CountFails(r)
         \/ AddEvent(r) \/ EventFails(r)
  PROVE  Settles(r)
<1> USE DEF IssueInv, CountsGranted, Settles, Fail
<1>1. CASE ReceiveGrant(r)
  BY <1>1 DEF ReceiveGrant, ReportedNumber
<1>2. CASE ReadCount(r)
  BY <1>2 DEF ReadCount
<1>3. CASE CommitCount(r)
  BY <1>3 DEF CommitCount
<1>4. CASE CountFails(r)
  BY <1>4 DEF CountFails
<1>5. CASE AddEvent(r)
  BY <1>5 DEF AddEvent, ReportedNumber
<1>6. CASE EventFails(r)
  BY <1>6 DEF EventFails
<1>. QED
  BY <1>1, <1>2, <1>3, <1>4, <1>5, <1>6

LEMMA SettlingIssue ==
  ASSUME TypeInv, IssueInv, NEW r \in Requests, Settles(r)
  PROVE  IssueInv'
<1> USE DEF TypeInv, IssueInv, arcaVars
<1>0. UNCHANGED <<job, nro, wire, decision, book>> /\ decision[r] = "granted"
  BY DEF Settles
<1>1. PICK p \in {"count", "commit", "event", "done"} : pc' = [pc EXCEPT ![r] = p]
  BY DEF Settles, Reply, Goto
<1>2. \/ UNCHANGED answer
      \/ answer' = [answer EXCEPT ![r] = [kind |-> "ok", number |-> NextNumber(r)]]
      \/ answer' = [answer EXCEPT ![r] = [kind |-> "error", number |-> 0]]
  BY DEF Settles, Reply
<1>3. NumberNotAhead'
  BY <1>0, <1>1 DEF NumberNotAhead, Settles, TypeOK
<1>4. AskedBefore'
  <2>1. ASSUME NEW m \in wire
        PROVE  /\ pc'[m.req] \in {"await", "done", "lost"}
               /\ answer'[m.req].kind \in {"none", "error"}
    BY <1>0, <1>1, <1>2 DEF AskedBefore, TypeOK, Solicitudes
  <2>2. \A m \in wire : Solicitud(m.req)' = Solicitud(m.req)
    BY <1>0 DEF Solicitud, NextNumber
  <2>3. \A q \in Requests : decision[q] # "none" =>
          pc'[q] \in {"await", "count", "commit", "event", "done", "lost"}
    BY <1>1 DEF AskedBefore, TypeOK
  <2>. QED
    BY <1>0, <2>1, <2>2, <2>3 DEF AskedBefore
<1>5. BookAgrees'
  BY <1>0 DEF BookAgrees, NextNumber
<1>6. AnswerAgrees'
  <2>1. \A q \in Requests : q # r => answer'[q] = answer[q]
    BY <1>2 DEF TypeOK
  <2>2. \/ answer'[r] = answer[r]
        \/ answer'[r].kind = "ok" /\ answer'[r].number = NextNumber(r)
        \/ answer'[r].kind = "error"
    BY <1>2 DEF TypeOK
  <2>. QED
    BY <1>0, <2>1, <2>2 DEF AnswerAgrees, NextNumber
<1>7. CountsGranted'
  BY <1>0, <1>1 DEF CountsGranted, TypeOK
<1>. QED
  BY <1>3, <1>4, <1>5, <1>6, <1>7

\* Before its handler has asked, nothing of a request has reached ARCA.
LEMMA NotAsked ==
  ASSUME TypeInv, IssueInv, NEW r \in Requests,
         pc[r] \in {"idle", "guard", "ticket", "ask", "solicit"}
  PROVE  /\ decision[r] = "none"
         /\ answer[r] = NoAnswer
         /\ \A m \in wire : m.req # r
         /\ \A s \in Series : \A n \in DOMAIN book[s] : book[s][n] # r
<1>1. decision[r] = "none"
  BY DEF IssueInv, AskedBefore, TypeInv, TypeOK
<1>2. answer[r] = NoAnswer
  BY DEF TypeInv, Handled
<1>3. \A m \in wire : m.req # r
  BY DEF IssueInv, AskedBefore
<1>4. \A s \in Series : \A n \in DOMAIN book[s] : book[s][n] # r
  BY <1>1 DEF IssueInv, BookAgrees
<1>. QED
  BY <1>1, <1>2, <1>3, <1>4

LEMMA ArriveIssue ==
  ASSUME TypeInv, IssueInv, NEW r \in Requests, Arrive(r)
  PROVE  IssueInv'
<1> USE DEF TypeInv, IssueInv, arcaVars
<1>1. PICK j \in Jobs : job' = [job EXCEPT ![r] = j]
  BY DEF Arrive, ArriveV1, ArrivePos
<1>2. /\ pc[r] = "idle"
      /\ UNCHANGED <<nro, wire, decision, book>>
      /\ \E p \in {"guard", "ticket", "done"} : pc' = [pc EXCEPT ![r] = p]
      /\ \/ UNCHANGED answer
         \/ answer' = [answer EXCEPT ![r] = [kind |-> "error", number |-> 0]]
  BY DEF Arrive, ArriveV1, ArrivePos, Fail, Reply, Goto
<1>3. /\ decision[r] = "none"
      /\ \A m \in wire : m.req # r
      /\ \A s \in Series : \A n \in DOMAIN book[s] : book[s][n] # r
  BY <1>2, NotAsked
<1>4. \A q \in Requests : q # r => job'[q] = job[q] /\ pc'[q] = pc[q] /\ answer'[q] = answer[q]
  BY <1>1, <1>2 DEF TypeOK
<1>5. job'[r] = j /\ j.series \in Series
  BY <1>1, JobFields DEF TypeOK
<1>6. NumberNotAhead'
  <2>1. nro[r] = 0 /\ Len(book[j.series]) \in Nat
    <3>1. book[j.series] \in Seq(Requests)
      BY <1>5 DEF TypeOK
    <3>2. nro[r] = 0
      BY <1>2 DEF NumberNotAhead
    <3>3. Len(book[j.series]) \in Nat
      BY <3>1
    <3>. QED
      BY <3>2, <3>3
  <2>2. pc'[r] # "idle"
    BY <1>2 DEF TypeOK
  <2>. QED
    BY <1>2, <1>4, <1>5, <2>1, <2>2 DEF NumberNotAhead
<1>7. AskedBefore'
  <2>1. \A m \in wire : m.req \in Requests
    BY DEF TypeOK, Solicitudes
  <2>2. \A m \in wire : Solicitud(m.req)' = Solicitud(m.req)
    BY <1>2, <1>3, <1>4, <2>1 DEF Solicitud, NextNumber
  <2>. QED
    BY <1>2, <1>3, <1>4, <2>1, <2>2 DEF AskedBefore
<1>8. BookAgrees'
  <2>1. \A s \in Series : \A n \in DOMAIN book[s] : book[s][n] \in Requests
    BY DEF TypeOK
  <2>. QED
    BY <1>2, <1>3, <1>4, <2>1 DEF BookAgrees, NextNumber
<1>9. AnswerAgrees'
  <2>1. answer'[r].kind \in {"none", "error"}
    BY <1>2 DEF Handled, NoAnswer, TypeOK
  <2>. QED
    BY <1>2, <1>4, <2>1 DEF AnswerAgrees, NextNumber
<1>10. CountsGranted'
  BY <1>2, <1>4 DEF CountsGranted, TypeOK
<1>. QED
  BY <1>6, <1>7, <1>8, <1>9, <1>10

LEMMA AskLastIssue ==
  ASSUME TypeInv, IssueInv, NEW r \in Requests, AskLast(r)
  PROVE  IssueInv'
<1> USE DEF TypeInv, IssueInv, arcaVars
<1>1. /\ pc[r] = "ask"
      /\ pc' = [pc EXCEPT ![r] = "solicit"]
      /\ UNCHANGED <<job, answer, wire, decision, book>>
  BY DEF AskLast, Goto
<1>2. job[r].series \in Series /\ Len(book[job[r].series]) \in Nat
  BY <1>1, JobFields DEF Handled, TypeOK
<1>3. PICK n \in Nat : nro' = [nro EXCEPT ![r] = n] /\ n <= Len(book[job[r].series])
  <2>1. \A n \in LastAuthorised(job[r].series) : n \in Nat /\ n <= Len(book[job[r].series])
    BY <1>2 DEF LastAuthorised
  <2>. QED
    BY <2>1 DEF AskLast
<1>4. /\ decision[r] = "none"
      /\ \A m \in wire : m.req # r
      /\ \A s \in Series : \A k \in DOMAIN book[s] : book[s][k] # r
  BY <1>1, NotAsked
<1>5. \A q \in Requests : q # r => nro'[q] = nro[q] /\ pc'[q] = pc[q]
  BY <1>1, <1>3 DEF TypeOK
<1>6. NumberNotAhead'
  BY <1>1, <1>3 DEF NumberNotAhead, TypeOK
<1>7. AskedBefore'
  <2>1. \A m \in wire : m.req \in Requests
    BY DEF TypeOK, Solicitudes
  <2>2. \A m \in wire : Solicitud(m.req)' = Solicitud(m.req)
    BY <1>1, <1>4, <1>5, <2>1 DEF Solicitud, NextNumber
  <2>. QED
    BY <1>1, <1>4, <1>5, <2>1, <2>2 DEF AskedBefore
<1>8. BookAgrees'
  <2>1. \A s \in Series : \A k \in DOMAIN book[s] : book[s][k] \in Requests
    BY DEF TypeOK
  <2>. QED
    BY <1>1, <1>4, <1>5, <2>1 DEF BookAgrees, NextNumber
<1>9. AnswerAgrees'
  BY <1>1, <1>4, <1>5 DEF AnswerAgrees, NextNumber
<1>10. CountsGranted'
  BY <1>1 DEF CountsGranted, TypeOK
<1>. QED
  BY <1>6, <1>7, <1>8, <1>9, <1>10

LEMMA SolicitIssue ==
  ASSUME TypeInv, IssueInv, NEW r \in Requests, Solicit(r)
  PROVE  IssueInv'
<1> USE DEF TypeInv, IssueInv
<1>1. /\ pc[r] = "solicit"
      /\ pc' = [pc EXCEPT ![r] = "await"]
      /\ wire' = wire \cup {Solicitud(r)}
      /\ UNCHANGED <<job, nro, answer, decision, book>>
  BY DEF Solicit, Goto
<1>2. NumberNotAhead'
  BY <1>1 DEF NumberNotAhead, TypeOK
<1>3. AskedBefore'
  <2>1. Solicitud(r).req = r /\ \A m \in wire : m.req \in Requests
    BY DEF Solicitud, TypeOK, Solicitudes
  <2>2. decision[r] = "none" /\ answer[r].kind = "none"
    BY <1>1, NotAsked DEF NoAnswer
  <2>3. \A q \in Requests : Solicitud(q)' = Solicitud(q)
    BY <1>1 DEF Solicitud, NextNumber
  <2>. QED
    BY <1>1, <2>1, <2>2, <2>3 DEF AskedBefore, TypeOK
<1>4. BookAgrees'
  BY <1>1 DEF BookAgrees, NextNumber
<1>5. AnswerAgrees'
  BY <1>1 DEF AnswerAgrees, NextNumber
<1>6. CountsGranted'
  BY <1>1 DEF CountsGranted, TypeOK
<1>. QED
  BY <1>2, <1>3, <1>4, <1>5, <1>6

\* Everything ARCA needs to know about a solicitud under way.
LEMMA UnderWay ==
  ASSUME TypeInv, IssueInv, NEW m \in wire
  PROVE  /\ m.req \in Requests /\ m.series \in Series
         /\ m.series = job[m.req].series
         /\ m.number = NextNumber(m.req)
         /\ NextNumber(m.req) \in Nat \ {0}
         /\ NextNumber(m.req) <= Len(book[m.series]) + 1
         /\ decision[m.req] = "none"
         /\ pc[m.req] \in {"await", "done", "lost"}
         /\ job[m.req] # NoJob
         /\ \A s \in Series : \A n \in DOMAIN book[s] : book[s][n] # m.req
<1>1. m.req \in Requests /\ m.series \in Series
  BY DEF TypeInv, TypeOK, Solicitudes
<1>2. m = Solicitud(m.req) /\ decision[m.req] = "none" /\ pc[m.req] \in {"await", "done", "lost"}
  BY DEF IssueInv, AskedBefore
<1>3. m.series = job[m.req].series /\ m.number = NextNumber(m.req)
  BY <1>2 DEF Solicitud
<1>4. nro[m.req] \in Nat /\ nro[m.req] <= Len(book[m.series])
  BY <1>1, <1>2, <1>3 DEF IssueInv, NumberNotAhead, TypeInv, TypeOK
<1>5. Len(book[m.series]) \in Nat
  BY <1>1 DEF TypeInv, TypeOK
<1>6. job[m.req] # NoJob
  BY <1>1, <1>2 DEF TypeInv, Handled
<1>7. \A s \in Series : \A n \in DOMAIN book[s] : book[s][n] # m.req
  BY <1>2 DEF IssueInv, BookAgrees
<1>. QED
  BY <1>1, <1>2, <1>3, <1>4, <1>5, <1>6, <1>7 DEF NextNumber

LEMMA InASeries ==
  ASSUME TypeInv, NEW r \in Requests, pc[r] # "idle"
  PROVE  job[r] \in Jobs /\ job[r].series \in Series
  BY JobFields DEF TypeInv, TypeOK, Handled

LEMMA DecideIssue ==
  ASSUME TypeInv, IssueInv, NEW m \in wire, ArcaDecides(m)
  PROVE  IssueInv'
<1> USE DEF TypeInv, IssueInv
<1> DEFINE r == m.req
           s == m.series
<1>1. UNCHANGED <<pc, job, nro, answer>> /\ wire' = wire \ {m}
  BY DEF ArcaDecides
<1>2. PICK d \in {"granted", "outOfSequence", "refused", "fault"} :
        decision' = [decision EXCEPT ![r] = d]
  BY DEF ArcaDecides, Authorise, RefuseNumber, RefuseContent
<1>3. decision'[r] = d /\ \A q \in Requests : q # r => decision'[q] = decision[q]
  BY <1>2, UnderWay DEF TypeOK
<1>4. /\ \A t \in Series : Len(book[t]) \in Nat /\ DOMAIN book[t] = 1 .. Len(book[t])
      /\ \A t \in Series : \A n \in DOMAIN book[t] : book[t][n] \in Requests
  BY DEF TypeOK
<1>5. ASSUME d = "granted" PROVE NumberNotAhead' /\ BookAgrees'
  <2>1. /\ NextNumber(r) = Len(book[s]) + 1
        /\ book' = [book EXCEPT ![s] = Append(@, r)]
    <3>1. Authorise(m)
      BY <1>2, <1>3, <1>5, UnderWay DEF ArcaDecides, RefuseNumber, RefuseContent, TypeOK
    <3>. QED
      BY <3>1, UnderWay DEF Authorise
  <2>2. /\ \A t \in Series : t # s => book'[t] = book[t]
        /\ Len(book'[s]) = Len(book[s]) + 1
        /\ DOMAIN book'[s] = 1 .. Len(book[s]) + 1
        /\ \A n \in DOMAIN book[s] : book'[s][n] = book[s][n]
        /\ book'[s][NextNumber(r)] = r
    <3>1. book[s] \in Seq(Requests) /\ r \in Requests /\ s \in Series
      BY UnderWay DEF TypeOK
    <3>2. book'[s] = Append(book[s], r)
      BY <2>1, <3>1 DEF TypeOK
    <3>3. \A t \in Series : t # s => book'[t] = book[t]
      BY <2>1 DEF TypeOK
    <3>. QED
      BY <1>4, <2>1, <3>1, <3>2, <3>3
  <2>3. NumberNotAhead'
    <3>1. ASSUME NEW q \in Requests, pc[q] # "idle"
          PROVE  nro[q] <= Len(book'[job[q].series])
      <4>1. nro[q] \in Nat /\ nro[q] <= Len(book[job[q].series]) /\ job[q].series \in Series
        BY <3>1, InASeries DEF NumberNotAhead, TypeOK
      <4>. QED
        BY <1>4, <2>2, <4>1
    <3>. QED
      BY <1>1, <3>1 DEF NumberNotAhead
  <2>4. BookAgrees'
    <3>1. ASSUME NEW t \in Series, NEW n \in DOMAIN book'[t]
          PROVE  /\ decision'[book'[t][n]] = "granted"
                 /\ job[book'[t][n]] # NoJob
                 /\ job[book'[t][n]].series = t
                 /\ n = NextNumber(book'[t][n])
      <4>1. CASE t = s /\ n = NextNumber(r)
        BY <1>3, <1>5, <2>2, <4>1, UnderWay
      <4>2. CASE n \in DOMAIN book[t] /\ book'[t][n] = book[t][n]
        BY <1>3, <1>4, <4>2, UnderWay DEF BookAgrees
      <4>. QED
        BY <1>4, <2>1, <2>2, <3>1, <4>1, <4>2
    <3>2. ASSUME NEW q \in Requests, decision'[q] = "granted"
          PROVE  /\ NextNumber(q) \in DOMAIN book'[job[q].series]
                 /\ book'[job[q].series][NextNumber(q)] = q
      <4>1. CASE q = r
        BY <1>4, <2>1, <2>2, <4>1, UnderWay
      <4>2. CASE q # r
        <5>1. /\ NextNumber(q) \in DOMAIN book[job[q].series]
              /\ book[job[q].series][NextNumber(q)] = q
          BY <1>3, <3>2, <4>2 DEF BookAgrees
        <5>2. job[q].series \in Series
          BY <1>3, <3>2, <4>2, InASeries DEF AskedBefore
        <5>. QED
          BY <1>4, <2>2, <5>1, <5>2
      <4>. QED
        BY <4>1, <4>2
    <3>3. ASSUME NEW q \in Requests, decision'[q] = "outOfSequence"
          PROVE  NextNumber(q) \in DOMAIN book'[job[q].series]
      <4>1. q # r /\ decision[q] = "outOfSequence"
        BY <1>3, <1>5, <3>3
      <4>2. NextNumber(q) \in DOMAIN book[job[q].series]
        BY <4>1 DEF BookAgrees
      <4>3. job[q].series \in Series
        BY <4>1, InASeries DEF AskedBefore
      <4>. QED
        BY <1>4, <2>2, <4>2, <4>3
    <3>. QED
      BY <1>1, <3>1, <3>2, <3>3 DEF BookAgrees, NextNumber
  <2>. QED
    BY <2>3, <2>4
<1>6. ASSUME d # "granted" PROVE NumberNotAhead' /\ BookAgrees'
  <2>1. UNCHANGED book
    BY <1>3, <1>6, UnderWay DEF ArcaDecides, Authorise, RefuseNumber, RefuseContent, TypeOK

  <2>2. NumberNotAhead'
    BY <1>1, <2>1 DEF NumberNotAhead
  <2>3. d = "outOfSequence" => NextNumber(r) \in DOMAIN book[s]
    <3>1. ASSUME d = "outOfSequence" PROVE RefuseNumber(m)
      BY <1>2, <1>3, <3>1, UnderWay DEF ArcaDecides, Authorise, RefuseContent, TypeOK
    <3>. QED
      BY <1>4, <3>1, UnderWay DEF RefuseNumber
  <2>4. BookAgrees'
    <3>1. \A t \in Series : \A n \in DOMAIN book[t] : book[t][n] # r
      BY UnderWay
    <3>2. job[r].series = s
      BY UnderWay
    <3>. QED
      BY <1>1, <1>3, <1>4, <1>6, <2>1, <2>3, <3>1, <3>2 DEF BookAgrees, NextNumber
  <2>. QED
    BY <2>2, <2>4
<1>7. AskedBefore'
  <2>1. \A n \in wire : n # m => n.req \in Requests /\ n.req # r
    BY UnderWay DEF AskedBefore
  <2>2. \A n \in wire : Solicitud(n.req)' = Solicitud(n.req)
    BY <1>1 DEF Solicitud, NextNumber
  <2>3. \A q \in Requests : decision'[q] # "none" =>
          pc[q] \in {"await", "count", "commit", "event", "done", "lost"}
    BY <1>3, UnderWay DEF AskedBefore
  <2>. QED
    BY <1>1, <1>3, <2>1, <2>2, <2>3 DEF AskedBefore
<1>8. AnswerAgrees'
  <2>1. answer[r].kind \in {"none", "error"}
    BY DEF AskedBefore
  <2>. QED
    BY <1>1, <1>3, <2>1 DEF AnswerAgrees, NextNumber
<1>9. CountsGranted'
  BY <1>1, <1>3, UnderWay DEF CountsGranted
<1>. QED
  BY <1>5, <1>6, <1>7, <1>8, <1>9

LEMMA LoseIssue ==
  ASSUME TypeInv, IssueInv, NEW m \in wire, LoseSolicitud(m)
  PROVE  IssueInv'
<1>1. UNCHANGED <<pc, job, nro, answer, decision, book>> /\ wire' \subseteq wire
  BY DEF LoseSolicitud
<1>2. \A q \in Requests : Solicitud(q)' = Solicitud(q) /\ NextNumber(q)' = NextNumber(q)
  BY <1>1 DEF Solicitud, NextNumber
<1>3. \A n \in wire : Solicitud(n.req)' = Solicitud(n.req)
  BY <1>1 DEF Solicitud, NextNumber
<1>. QED
  BY <1>1, <1>2, <1>3
  DEF IssueInv, NumberNotAhead, AskedBefore, BookAgrees, AnswerAgrees, CountsGranted, NextNumber

\* Steps that concern no request.
LEMMA ElsewhereIssue ==
  ASSUME IssueInv, UNCHANGED <<pc, job, nro, answer, wire, decision, book>>
  PROVE  IssueInv'
<1>1. \A n \in wire : Solicitud(n.req)' = Solicitud(n.req)
  BY DEF Solicitud, NextNumber
<1>. QED
  BY <1>1
  DEF IssueInv, NumberNotAhead, AskedBefore, BookAgrees, AnswerAgrees, CountsGranted, NextNumber

LEMMA CrashIssue ==
  ASSUME TypeInv, IssueInv, Crash
  PROVE  IssueInv'
<1> USE DEF TypeInv, IssueInv
<1>1. /\ pc' = [r \in Requests |-> IF pc[r] \in Resting THEN pc[r] ELSE "lost"]
      /\ UNCHANGED <<job, nro, answer, wire, decision, book>>
  BY DEF Crash, arcaVars
<1>2. NumberNotAhead'
  BY <1>1 DEF NumberNotAhead, Resting
<1>3. AskedBefore'
  <2>1. \A m \in wire : m.req \in Requests /\ Solicitud(m.req)' = Solicitud(m.req)
    BY <1>1 DEF TypeOK, Solicitudes, Solicitud, NextNumber
  <2>. QED
    BY <1>1, <2>1 DEF AskedBefore, Resting
<1>4. BookAgrees' /\ AnswerAgrees'
  BY <1>1 DEF BookAgrees, AnswerAgrees, NextNumber
<1>5. CountsGranted'
  BY <1>1 DEF CountsGranted, Resting
<1>. QED
  BY <1>2, <1>3, <1>4, <1>5

LEMMA IssueStep == TypeInv /\ IssueInv /\ [Next]_vars => IssueInv'
<1> SUFFICES ASSUME TypeInv, IssueInv, [Next]_vars PROVE IssueInv'
  OBVIOUS
<1>1. ASSUME NEW r \in Requests, Arrive(r) PROVE IssueInv'
  BY <1>1, ArriveIssue
<1>2. ASSUME NEW r \in Requests, Handle(r) PROVE IssueInv'
  <2>1. TypeOK
    BY DEF TypeInv
  <2>. QED
    BY <1>2, <2>1, QuietSteps, QuietIssue, SettlingSteps, SettlingIssue, AskLastIssue, SolicitIssue
    DEF Handle
<1>3. ASSUME NEW m \in wire, ArcaDecides(m) \/ LoseSolicitud(m) PROVE IssueInv'
  BY <1>3, DecideIssue, LoseIssue
<1>4. ASSUME NEW c \in Cuits, NEW d \in CuitDocs, WriteCuit(c, d) PROVE IssueInv'
  BY <1>4, ElsewhereIssue DEF WriteCuit, arcaVars
<1>5. ASSUME NextMonth PROVE IssueInv'
  BY <1>5, ElsewhereIssue DEF NextMonth, arcaVars
<1>6. ASSUME Crash PROVE IssueInv'
  BY <1>6, CrashIssue
<1>7. ASSUME UNCHANGED vars PROVE IssueInv'
  BY <1>7, ElsewhereIssue DEF vars
<1>. QED
  BY <1>1, <1>2, <1>3, <1>4, <1>5, <1>6, <1>7 DEF Next

LEMMA IssueInductive == Spec => [](TypeInv /\ IssueInv)
  BY TypeInductive, IssueInit, IssueStep, PTL DEF Spec

LEMMA IssueImplies ==
  ASSUME TypeInv, IssueInv
  PROVE  /\ OneInvoicePerRequest
         /\ RejectedNumberTaken
         /\ OkIsAuthorised
         /\ RefusalIsFinal
<1> USE DEF IssueInv
<1>1. OneInvoicePerRequest
  <2>1. ASSUME NEW s \in Series, NEW n \in DOMAIN book[s]
        PROVE  job[book[s][n]].api # "none"
    <3>1. book[s][n] \in Requests /\ job[book[s][n]] # NoJob
      BY DEF TypeInv, TypeOK, BookAgrees
    <3>2. job[book[s][n]] \in Jobs
      BY <3>1 DEF TypeInv, TypeOK
    <3>. QED
      BY <3>2, JobFields
  <2>. QED
    BY <2>1 DEF OneInvoicePerRequest, BookAgrees
<1>2. RejectedNumberTaken
  <2>1. ASSUME NEW r \in Requests, decision[r] = "outOfSequence"
        PROVE  /\ NextNumber(r) \in DOMAIN book[job[r].series]
               /\ book[job[r].series][NextNumber(r)] # r
    <3>1. job[r].series \in Series
      BY <2>1, InASeries DEF AskedBefore
    <3>2. NextNumber(r) \in DOMAIN book[job[r].series]
      BY <2>1 DEF BookAgrees
    <3>. QED
      BY <2>1, <3>1, <3>2 DEF BookAgrees
  <2>. QED
    BY <2>1 DEF RejectedNumberTaken
<1>3. OkIsAuthorised
  BY DEF OkIsAuthorised, AnswerAgrees, BookAgrees
<1>4. RefusalIsFinal
  <2>1. ASSUME NEW r \in Requests, answer[r].kind \in Refusals
        PROVE  decision[r] # "granted" /\ \A m \in wire : m.req # r
    BY <2>1 DEF Refusals, AnswerAgrees, AskedBefore
  <2>. QED
    BY <2>1 DEF RefusalIsFinal, BookAgrees
<1>. QED
  BY <1>1, <1>2, <1>3, <1>4

\* A request is authorised at most once, under the number its handler computed.
THEOREM InvoicedOnce == Spec => []OneInvoicePerRequest
<1>1. TypeInv /\ IssueInv => OneInvoicePerRequest
  BY IssueImplies
<1>. QED
  BY <1>1, IssueInductive, PTL

\* A number ARCA refuses as out of sequence is held by another request.
THEOREM RefusedNumberIsHeld == Spec => []RejectedNumberTaken
<1>1. TypeInv /\ IssueInv => RejectedNumberTaken
  BY IssueImplies
<1>. QED
  BY <1>1, IssueInductive, PTL

\* The number told with a CAE is the number ARCA holds for that request.
THEOREM ToldNumberIsHeld == Spec => []OkIsAuthorised
<1>1. TypeInv /\ IssueInv => OkIsAuthorised
  BY IssueImplies
<1>. QED
  BY <1>1, IssueInductive, PTL

\* What was refused stands in no book and never will.
THEOREM RefusedIsNeverIssued == Spec => []RefusalIsFinal
<1>1. TypeInv /\ IssueInv => RefusalIsFinal
  BY IssueImplies
<1>. QED
  BY <1>1, IssueInductive, PTL

-----------------------------------------------------------------------------
(* The requests and Firestore. *)

LEMMA UsageInit == Init => UsageInv
<1> SUFFICES ASSUME Init PROVE UsageInv
  OBVIOUS
<1>1. IsFiniteSet(counted)
  BY FS_EmptySet DEF Init
<1>2. CountedOnce
  BY DEF Init, CountedOnce
<1>3. CountIsExact
  <2>1. \A a \in Accounts, p \in Periods : Counts(a, p) = {}
    BY DEF Init, Counts
  <2>. QED
    BY <2>1, FS_EmptySet DEF Init, CountIsExact
<1>4. EventsAgree
  BY DEF Init, EventsAgree
<1>5. OkIsBilled
  BY DEF Init, OkIsBilled, NoAnswer
<1>. QED
  BY <1>1, <1>2, <1>3, <1>4, <1>5 DEF UsageInv

\* What a step keeps that counts nothing, as long as it leaves the counted
\* requests alone, but for their answers.
LEMMA UsageKept ==
  ASSUME TypeInv, UsageInv,
         UNCHANGED <<usage, counted>>,
         events \subseteq events',
         \A e \in events' : e \in events \/ (e.cae \in counted /\ e = Event(e.cae)),
         \A r \in counted :
           /\ job'[r] = job[r] /\ period'[r] = period[r] /\ nro'[r] = nro[r]
           /\ decision'[r] = decision[r] /\ pc'[r] \in {"event", "done", "lost"},
         \A r \in Requests : pc'[r] = "event" => r \in counted,
         \A r \in Requests : answer'[r].kind = "ok" /\ job'[r].api = "v1" =>
           r \in counted /\ Event(r) \in events'
  PROVE  UsageInv'
<1> USE DEF UsageInv
<1>1. \A r \in counted : Event(r)' = Event(r)
  BY DEF Event, NextNumber
<1>2. CountedOnce'
  BY DEF CountedOnce
<1>3. CountIsExact'
  <2>1. \A a \in Accounts, p \in Periods : Counts(a, p)' = Counts(a, p)
    BY DEF Counts
  <2>. QED
    BY <2>1 DEF CountIsExact
<1>4. EventsAgree'
  BY <1>1 DEF EventsAgree
<1>5. OkIsBilled'
  BY <1>1 DEF OkIsBilled
<1>. QED
  BY <1>2, <1>3, <1>4, <1>5

\* An increment that nothing has overtaken counts its request, once.
LEMMA CommitCounts ==
  ASSUME TypeInv, UsageInv, NEW r \in Requests, Commit(r), r \notin counted,
         job[r].api = "v1", job[r].account \in Accounts, period[r] \in Periods,
         UNCHANGED <<job, period>>
  PROVE  IsFiniteSet(counted') /\ CountIsExact'
<1> USE DEF UsageInv
<1>1. counted' = counted \cup {r} /\ IsFiniteSet(counted')
  BY FS_AddElement DEF Commit
<1>2. ASSUME NEW a \in Accounts, NEW p \in Periods
      PROVE  usage'[a][p] = Cardinality(Counts(a, p)')
  <2>1. IsFiniteSet(Counts(a, p)) /\ r \notin Counts(a, p)
    BY FS_Subset DEF Counts
  <2>2. CASE a = job[r].account /\ p = period[r]
    <3>1. Counts(a, p)' = Counts(a, p) \cup {r}
      BY <1>1, <2>2 DEF Counts
    <3>2. usage'[a][p] = usage[a][p] + 1
      BY <2>2 DEF Commit, Count, TypeInv, TypeOK
    <3>3. Cardinality(Counts(a, p) \cup {r}) = Cardinality(Counts(a, p)) + 1
      BY <2>1, FS_AddElement
    <3>4. usage[a][p] = Cardinality(Counts(a, p))
      BY DEF UsageInv, CountIsExact
    <3>. QED
      BY <3>1, <3>2, <3>3, <3>4
  <2>3. CASE ~ (a = job[r].account /\ p = period[r])
    <3>1. Counts(a, p)' = Counts(a, p)
      BY <1>1, <2>3 DEF Counts
    <3>2. usage'[a][p] = usage[a][p]
      BY <2>3 DEF Commit, TypeInv, TypeOK
    <3>. QED
      BY <3>1, <3>2 DEF CountIsExact
  <2>. QED
    BY <2>2, <2>3
<1>. QED
  BY <1>1, <1>2 DEF CountIsExact

LEMMA UsageStep == TypeInv /\ IssueInv /\ UsageInv /\ [Next]_vars => UsageInv'
<1> SUFFICES ASSUME TypeInv, IssueInv, UsageInv, [Next]_vars PROVE UsageInv'
  OBVIOUS
<1>0. /\ \A r \in counted : /\ r \in Requests
                            /\ pc[r] \in {"event", "done", "lost"}
                            /\ decision[r] = "granted"
      /\ \A r \in Requests : pc[r] = "event" => r \in counted
      /\ \A r \in Requests : answer[r].kind = "ok" /\ job[r].api = "v1" =>
           r \in counted /\ Event(r) \in events
  BY DEF UsageInv, CountedOnce, OkIsBilled, TypeInv, TypeOK
<1>a. \A r \in Requests : pc[r] # "done" => answer[r].kind # "ok"
  BY DEF TypeInv, Handled, NoAnswer
<1> USE DEF arcaVars, usageVars
<1>1. ASSUME NEW r \in Requests, Arrive(r) PROVE UsageInv'
  <2>1. /\ pc[r] = "idle" /\ pc'[r] # "event" /\ r \notin counted
        /\ answer'[r].kind # "ok"
        /\ \A q \in Requests : q # r => pc'[q] = pc[q] /\ job'[q] = job[q] /\ answer'[q] = answer[q]
    <3>1. /\ pc[r] = "idle"
          /\ \E p \in {"guard", "ticket", "done"} : pc' = [pc EXCEPT ![r] = p]
          /\ \E j \in Jobs : job' = [job EXCEPT ![r] = j]
          /\ \/ UNCHANGED answer
             \/ answer' = [answer EXCEPT ![r] = [kind |-> "error", number |-> 0]]
      BY <1>1 DEF Arrive, ArriveV1, ArrivePos, Goto, Fail, Reply
    <3>2. r \notin counted /\ answer[r].kind # "ok"
      BY <1>0, <1>a, <3>1
    <3>. QED
      BY <3>1, <3>2 DEF TypeInv, TypeOK
  <2>2. UNCHANGED <<nro, decision, usage, events, period, counted>>
    BY <1>1 DEF Arrive, ArriveV1, ArrivePos
  <2>. QED
    BY <1>0, <2>1, <2>2, UsageKept DEF Event
<1>2. ASSUME NEW r \in Requests, Quiet(r) PROVE UsageInv'
  <2>1. UNCHANGED <<job, nro, decision, usage, events, period, counted>>
    BY <1>2 DEF Quiet
  <2>2. /\ r \notin counted /\ pc'[r] # "event"
        /\ answer'[r].kind # "ok"
        /\ \A q \in Requests : q # r => pc'[q] = pc[q] /\ answer'[q] = answer[q]
    <3>1. CASE Moves(r)
      BY <1>0, <1>a, <3>1 DEF Moves, TypeInv, TypeOK
    <3>2. CASE Ends(r)
      <4>1. PICK k \in Kinds \ {"ok"}, n \in Nat : Reply(r, k, n)
        BY <3>2 DEF Ends
      <4>2. pc[r] \in {"guard", "ticket", "ask", "solicit", "await"}
        BY <3>2 DEF Ends
      <4>. QED
        BY <1>0, <4>1, <4>2 DEF Reply, Goto, TypeInv, TypeOK
    <3>. QED
      BY <1>2, <3>1, <3>2 DEF Quiet
  <2>. QED
    BY <1>0, <2>1, <2>2, UsageKept
<1>3. ASSUME NEW r \in Requests, AskLast(r) PROVE UsageInv'
  <2>1. UNCHANGED <<job, decision, answer, usage, events, period, counted>>
    BY <1>3 DEF AskLast
  <2>2. /\ r \notin counted /\ pc'[r] # "event" /\ answer[r].kind # "ok"
        /\ \A q \in Requests : q # r => pc'[q] = pc[q] /\ nro'[q] = nro[q]
    <3>1. pc[r] = "ask" /\ pc' = [pc EXCEPT ![r] = "solicit"]
      BY <1>3 DEF AskLast, Goto
    <3>2. \E n \in LastAuthorised(job[r].series) : nro' = [nro EXCEPT ![r] = n]
      BY <1>3 DEF AskLast
    <3>. QED
      BY <1>0, <1>a, <3>1, <3>2 DEF TypeInv, TypeOK
  <2>. QED
    BY <1>0, <2>1, <2>2, UsageKept
<1>4. ASSUME NEW r \in Requests, Solicit(r) \/ ReadCount(r) PROVE UsageInv'
  <2>1. UNCHANGED <<job, nro, decision, answer, usage, events, period, counted>>
    BY <1>4 DEF Solicit, ReadCount
  <2>2. /\ r \notin counted /\ pc'[r] # "event"
        /\ \A q \in Requests : q # r => pc'[q] = pc[q]
    BY <1>0, <1>4 DEF Solicit, ReadCount, Goto, TypeInv, TypeOK
  <2>. QED
    BY <1>0, <2>1, <2>2, UsageKept
<1>5. ASSUME NEW r \in Requests, ReceiveGrant(r) PROVE UsageInv'
  <2>1. UNCHANGED <<job, nro, decision, usage, events, counted>>
    BY <1>5 DEF ReceiveGrant
  <2>2. /\ r \notin counted /\ pc'[r] # "event"
        /\ answer'[r].kind = "ok" => job[r].api # "v1"
        /\ \A q \in Requests : q # r =>
             pc'[q] = pc[q] /\ answer'[q] = answer[q] /\ period'[q] = period[q]
    BY <1>0, <1>a, <1>5 DEF ReceiveGrant, Goto, Reply, TypeInv, TypeOK
  <2>. QED
    BY <1>0, <2>1, <2>2, UsageKept
<1>6. ASSUME NEW r \in Requests, pc[r] = "commit", Commit(r),
             UNCHANGED <<job, nro, decision, events, period>>,
             \/ pc' = [pc EXCEPT ![r] = "event"] /\ UNCHANGED answer
             \/ Reply(r, "error", 0)
      PROVE  UsageInv'
  <2>1. /\ job[r].api = "v1" /\ job[r].account \in Accounts /\ period[r] \in Periods
        /\ r \notin counted /\ decision[r] = "granted"
    BY <1>0, <1>6, InASeries, JobFields DEF TypeInv, Handled, IssueInv, CountsGranted
  <2>2. counted' = counted \cup {r}
    BY <1>6 DEF Commit
  <2>3. /\ pc'[r] \in {"event", "done"}
        /\ answer'[r].kind # "ok"
        /\ \A q \in Requests : q # r => pc'[q] = pc[q] /\ answer'[q] = answer[q]
    BY <1>a, <1>6 DEF Reply, Goto, TypeInv, TypeOK
  <2>4. IsFiniteSet(counted') /\ CountIsExact'
    BY <1>6, <2>1, CommitCounts
  <2>5. \A q \in Requests : Event(q)' = Event(q)
    BY <1>6 DEF Event, NextNumber
  <2>6. CountedOnce'
    BY <1>6, <2>1, <2>2, <2>3 DEF UsageInv, CountedOnce, TypeInv, TypeOK
  <2>7. EventsAgree'
    BY <1>0, <1>6, <2>2, <2>5 DEF UsageInv, EventsAgree
  <2>8. OkIsBilled'
    BY <1>0, <1>6, <2>2, <2>3, <2>5 DEF OkIsBilled
  <2>. QED
    BY <2>4, <2>6, <2>7, <2>8 DEF UsageInv
<1>7. ASSUME NEW r \in Requests, CommitCount(r) PROVE UsageInv'
  BY <1>6, <1>7 DEF CommitCount, Goto
<1>8. ASSUME NEW r \in Requests, CountFails(r) PROVE UsageInv'
  <2>1. CASE UNCHANGED <<usage, counted>>
    <3>1. UNCHANGED <<job, nro, decision, events, period>>
      BY <1>8 DEF CountFails
    <3>2. /\ pc[r] \in {"count", "commit"} /\ r \notin counted
          /\ pc'[r] = "done" /\ answer'[r].kind = "error"
          /\ \A q \in Requests : q # r => pc'[q] = pc[q] /\ answer'[q] = answer[q]
      BY <1>0, <1>8 DEF CountFails, Fail, Reply, Goto, TypeInv, TypeOK
    <3>. QED
      BY <1>0, <2>1, <3>1, <3>2, UsageKept
  <2>2. CASE pc[r] = "commit" /\ Commit(r)
    BY <1>6, <1>8, <2>2 DEF CountFails, Fail
  <2>. QED
    BY <1>8, <2>1, <2>2 DEF CountFails
<1>9. ASSUME NEW r \in Requests, AddEvent(r) \/ EventFails(r) PROVE UsageInv'
  <2>1. UNCHANGED <<job, nro, decision, usage, period, counted>>
    BY <1>9 DEF AddEvent, EventFails
  <2>2. /\ pc[r] = "event" /\ r \in counted /\ pc'[r] = "done"
        /\ answer'[r].kind = "ok" => Event(r) \in events'
        /\ \A q \in Requests : q # r => pc'[q] = pc[q] /\ answer'[q] = answer[q]
    BY <1>0, <1>9 DEF AddEvent, EventFails, Fail, Reply, Goto, TypeInv, TypeOK
  <2>3. events' = events \/ events' = events \cup {Event(r)}
    BY <1>9 DEF AddEvent, EventFails
  <2>4. Event(r).cae = r
    BY DEF Event
  <2>. QED
    BY <1>0, <2>1, <2>2, <2>3, <2>4, UsageKept
<1>10. ASSUME NEW m \in wire, ArcaDecides(m) PROVE UsageInv'
  <2>1. UNCHANGED <<pc, job, nro, answer, usage, events, period, counted>>
    BY <1>10 DEF ArcaDecides
  <2>2. m.req \notin counted
    BY <1>0, UnderWay
  <2>3. \A q \in Requests : q # m.req => decision'[q] = decision[q]
    BY <1>10 DEF ArcaDecides, Authorise, RefuseNumber, RefuseContent, TypeInv, TypeOK
  <2>. QED
    BY <1>0, <2>1, <2>2, <2>3, UsageKept
<1>11. ASSUME UNCHANGED <<pc, job, nro, decision, answer, usage, events, period, counted>>
       PROVE  UsageInv'
  BY <1>0, <1>11, UsageKept
<1>12. ASSUME NEW m \in wire, LoseSolicitud(m) PROVE UsageInv'
  BY <1>11, <1>12 DEF LoseSolicitud
<1>13. ASSUME NEW c \in Cuits, NEW d \in CuitDocs, WriteCuit(c, d) PROVE UsageInv'
  BY <1>11, <1>13 DEF WriteCuit
<1>14. ASSUME NextMonth PROVE UsageInv'
  BY <1>11, <1>14 DEF NextMonth
<1>15. ASSUME Crash PROVE UsageInv'
  <2>1. UNCHANGED <<job, nro, decision, answer, usage, events, period, counted>>
    BY <1>15 DEF Crash
  <2>2. \A r \in Requests : /\ pc'[r] = "event" => pc[r] = "event"
                            /\ pc[r] \in {"event", "done", "lost"} => pc'[r] \in {"done", "lost"}
    BY <1>15 DEF Crash, Resting
  <2>. QED
    BY <1>0, <2>1, <2>2, UsageKept
<1>16. ASSUME UNCHANGED vars PROVE UsageInv'
  BY <1>11, <1>16 DEF vars
<1>17. ASSUME NEW r \in Requests, Handle(r) PROVE UsageInv'
  <2>1. TypeOK
    BY DEF TypeInv
  <2>. QED
    BY <1>2, <1>3, <1>4, <1>5, <1>7, <1>8, <1>9, <1>17, <2>1, QuietSteps DEF Handle
<1>. QED
  BY <1>1, <1>10, <1>12, <1>13, <1>14, <1>15, <1>16, <1>17 DEF Next

LEMMA UsageInductive == Spec => [](TypeInv /\ IssueInv /\ UsageInv)
  BY IssueInductive, UsageInit, UsageStep, PTL DEF Spec

\* Increments are neither lost nor repeated, and count authorised invoices.
THEOREM CountsEveryInvoiceOnce == Spec => []UsageIsExact
<1>1. UsageInv => UsageIsExact
  BY DEF UsageInv, CountIsExact, CountedOnce, UsageIsExact
<1>. QED
  BY <1>1, UsageInductive, PTL

\* An event is one of a counted invoice, as ARCA holds it.
THEOREM EventsNameInvoices == Spec => []EventsAreCounted
<1>1. TypeInv /\ IssueInv /\ UsageInv => EventsAreCounted
  <2> SUFFICES ASSUME TypeInv, IssueInv, UsageInv, NEW e \in events
               PROVE  /\ e.cae \in counted
                      /\ e.account = job[e.cae].account /\ e.period = period[e.cae]
                      /\ e.number \in DOMAIN book[e.series]
                      /\ book[e.series][e.number] = e.cae
    BY DEF EventsAreCounted
  <2>1. e.cae \in counted /\ e = Event(e.cae)
    BY DEF UsageInv, EventsAgree
  <2>2. e.cae \in Requests /\ decision[e.cae] = "granted"
    BY <2>1 DEF UsageInv, CountedOnce, TypeInv, TypeOK
  <2>3. /\ e.account = job[e.cae].account /\ e.period = period[e.cae]
        /\ e.series = job[e.cae].series /\ e.number = NextNumber(e.cae)
    <3> DEFINE r == e.cae
    <3>1. e = Event(r)
      BY <2>1
    <3> HIDE DEF r
    <3>2. /\ e.account = job[r].account /\ e.period = period[r]
          /\ e.series = job[r].series /\ e.number = NextNumber(r)
      BY <3>1 DEF Event
    <3>. QED
      BY <3>2 DEF r
  <2>4. /\ NextNumber(e.cae) \in DOMAIN book[job[e.cae].series]
        /\ book[job[e.cae].series][NextNumber(e.cae)] = e.cae
    BY <2>2 DEF IssueInv, BookAgrees
  <2>. QED
    BY <2>1, <2>3, <2>4
<1>. QED
  BY <1>1, UsageInductive, PTL

\* An account that is told `ok' has its invoice counted and listed.
THEOREM ToldIsBilled == Spec => []OkIsBilled
<1>1. UsageInv => OkIsBilled
  BY DEF UsageInv
<1>. QED
  BY <1>1, UsageInductive, PTL

-----------------------------------------------------------------------------
(* The requests and the CUIT documents. *)

LEMMA ReadyInit == Init => ReadyInv
<1> SUFFICES ASSUME Init PROVE ReadyInv
  OBVIOUS
<1>1. ASSUME NEW c \in Cuits, cuitDoc[c].status = "ready"
      PROVE  <<cuitDoc[c].owner, c>> \in everReady
  <2>1. cuitDoc[c] \in CuitDocs
    BY DEF Init
  <2>2. cuitDoc[c].owner \in Accounts
        /\ cuitDoc[c] = [owner |-> cuitDoc[c].owner, status |-> "ready"]
    BY <1>1, <2>1 DEF CuitDocs
  <2>. QED
    BY <2>2 DEF Init
<1>2. \A r \in Requests : ~ Admitted(r)
  BY DEF Init, Admitted
<1>. QED
  BY <1>1, <1>2 DEF ReadyInv

\* Whoever is admitted by a step that writes no CUIT document was admitted
\* before, or has just passed the guard.
LEMMA ReadyKept ==
  ASSUME ReadyInv, UNCHANGED <<cuitDoc, everReady>>,
         \A r \in Requests : job'[r].api = "v1" /\ Admitted(r)' =>
           /\ job'[r] = job[r]
           /\ Admitted(r) \/ (Cuit(r) \in Cuits /\ Owned(r) /\ Ready(r))
  PROVE  ReadyInv'
<1>1. ASSUME NEW r \in Requests, job'[r].api = "v1", Admitted(r)'
      PROVE  <<job'[r].account, Cuit(r)'>> \in everReady
  BY <1>1 DEF ReadyInv, Owned, Ready, Cuit
<1>. QED
  BY <1>1 DEF ReadyInv

LEMMA ReadyStep == TypeInv /\ IssueInv /\ ReadyInv /\ [Next]_vars => ReadyInv'
<1> SUFFICES ASSUME TypeInv, IssueInv, ReadyInv, [Next]_vars PROVE ReadyInv'
  OBVIOUS
<1> USE DEF arcaVars, storeVars, TypeInv
<1>1. ASSUME NEW r \in Requests, Arrive(r) PROVE ReadyInv'
  <2>1. /\ UNCHANGED <<wire, decision, cuitDoc, everReady>>
        /\ pc[r] = "idle"
        /\ \A q \in Requests : q # r => pc'[q] = pc[q] /\ job'[q] = job[q]
    BY <1>1 DEF Arrive, ArriveV1, ArrivePos, Goto, Fail, Reply, TypeOK
  <2>2. job'[r].api = "v1" => pc'[r] = "guard"
    BY <1>1 DEF Arrive, ArriveV1, ArrivePos, Goto, TypeOK
  <2>3. decision[r] = "none" /\ \A m \in wire : m.req # r
    BY <2>1, NotAsked
  <2>. QED
    BY <2>1, <2>2, <2>3, ReadyKept DEF Admitted
<1>2. ASSUME NEW r \in Requests, Quiet(r) PROVE ReadyInv'
  <2>1. UNCHANGED <<job, wire, decision, cuitDoc, everReady>>
    BY <1>2 DEF Quiet
  <2>2. \A q \in Requests : q # r => pc'[q] = pc[q]
    BY <1>2 DEF Quiet, Moves, Ends, Reply, Goto, TypeOK
  <2>3. \/ pc'[r] \in {"count", "done"}
        \/ pc[r] \in {"ticket", "ask", "solicit", "await"}
        \/ pc[r] = "guard" /\ Owned(r) /\ Ready(r)
    BY <1>2 DEF Quiet, Moves, Ends, Reply, Goto, TypeOK
  <2>4. pc[r] = "guard" => Cuit(r) \in Cuits
    BY InASeries, CuitOfType DEF Cuit
  <2>. QED
    BY <2>1, <2>2, <2>3, <2>4, ReadyKept DEF Admitted
<1>3. ASSUME NEW r \in Requests, AskLast(r) \/ Solicit(r) PROVE ReadyInv'
  <2>1. /\ UNCHANGED <<job, decision, cuitDoc, everReady>>
        /\ wire' = wire \/ wire' = wire \cup {Solicitud(r)}
        /\ pc[r] \in {"ask", "solicit"}
        /\ \A q \in Requests : q # r => pc'[q] = pc[q]
    BY <1>3 DEF AskLast, Solicit, Goto, TypeOK
  <2>2. Solicitud(r).req = r
    BY DEF Solicitud
  <2>. QED
    BY <2>1, <2>2, ReadyKept DEF Admitted
<1>4. ASSUME NEW r \in Requests, Settles(r), UNCHANGED storeVars PROVE ReadyInv'
  <2>1. /\ UNCHANGED <<job, wire, decision, cuitDoc, everReady>>
        /\ decision[r] = "granted"
        /\ \A q \in Requests : q # r => pc'[q] = pc[q]
    BY <1>4 DEF Settles, Reply, Goto, TypeOK
  <2>. QED
    BY <2>1, ReadyKept DEF Admitted
<1>5. ASSUME NEW r \in Requests, Handle(r) PROVE ReadyInv'
  <2>1. CASE \/ ReceiveGrant(r) \/ ReadCount(r) \/ CommitCount(r) \/ CountFails(r)
             \/ AddEvent(r) \/ EventFails(r)
    <3>1. UNCHANGED storeVars
      BY <2>1 DEF ReceiveGrant, ReadCount, CommitCount, CountFails, AddEvent, EventFails
    <3>. QED
      BY <1>4, <2>1, <3>1, SettlingSteps
  <2>2. CASE AskLast(r) \/ Solicit(r)
    BY <1>3, <2>2
  <2>3. CASE \/ CheckCuit(r) \/ CheckFails(r) \/ TakeTicket(r) \/ TicketFails(r)
             \/ AskFails(r) \/ RejectDates(r) \/ ReceiveObserved(r) \/ ReceiveFault(r)
             \/ SolicitFails(r) \/ RetryCount(r)
    BY <1>2, <2>3, QuietSteps
  <2>. QED
    BY <1>5, <2>1, <2>2, <2>3 DEF Handle
<1>6. ASSUME NEW m \in wire, ArcaDecides(m) \/ LoseSolicitud(m) PROVE ReadyInv'
  <2>1. /\ UNCHANGED <<pc, job, cuitDoc, everReady>>
        /\ wire' \subseteq wire
        /\ \A q \in Requests : q # m.req => decision'[q] = decision[q]
    BY <1>6 DEF ArcaDecides, LoseSolicitud, Authorise, RefuseNumber, RefuseContent, TypeOK
  <2>. QED
    BY <2>1, ReadyKept DEF Admitted
<1>7. ASSUME NEW c \in Cuits, NEW d \in CuitDocs, WriteCuit(c, d) PROVE ReadyInv'
  <2>1. /\ UNCHANGED <<pc, job, wire, decision>>
        /\ everReady \subseteq everReady'
        /\ d.status = "ready" => <<d.owner, c>> \in everReady'
        /\ cuitDoc' = [cuitDoc EXCEPT ![c] = d]
    BY <1>7 DEF WriteCuit
  <2>2. \A r \in Requests : (Admitted(r)' <=> Admitted(r)) /\ Cuit(r)' = Cuit(r)
    BY <2>1 DEF Admitted, Cuit
  <2>. QED
    BY <2>1, <2>2 DEF ReadyInv, TypeOK
<1>8. ASSUME Crash PROVE ReadyInv'
  <2>1. /\ UNCHANGED <<job, wire, decision, cuitDoc, everReady>>
        /\ \A r \in Requests : pc'[r] = pc[r] \/ pc'[r] = "lost"
    BY <1>8 DEF Crash
  <2>. QED
    BY <2>1, ReadyKept DEF Admitted
<1>9. ASSUME UNCHANGED <<pc, job, wire, decision, cuitDoc, everReady>> PROVE ReadyInv'
  BY <1>9, ReadyKept DEF Admitted
<1>10. ASSUME NextMonth \/ UNCHANGED vars PROVE ReadyInv'
  BY <1>9, <1>10 DEF NextMonth, vars
<1>. QED
  BY <1>1, <1>5, <1>6, <1>7, <1>8, <1>10 DEF Next

\* An account issues only for a CUIT that was once its own and ready.
THEOREM IssuesForItsOwn == Spec => []IssuedUnderReadyCuit
<1>1. TypeInv /\ IssueInv /\ ReadyInv => IssuedUnderReadyCuit
  <2> SUFFICES ASSUME TypeInv, IssueInv, ReadyInv, NEW s \in Series, NEW n \in DOMAIN book[s],
                      job[book[s][n]].api = "v1"
               PROVE  <<job[book[s][n]].account, CuitOf[s]>> \in everReady
    BY DEF IssuedUnderReadyCuit
  <2>1. /\ book[s][n] \in Requests
        /\ decision[book[s][n]] = "granted"
        /\ job[book[s][n]].series = s
    BY DEF TypeInv, TypeOK, IssueInv, BookAgrees
  <2>. QED
    BY <2>1 DEF ReadyInv, Admitted, Cuit
<1>. QED
  BY <1>1, IssueInductive, ReadyInit, ReadyStep, PTL DEF Spec

-----------------------------------------------------------------------------
(* Invoicing implements InvoiceBook. *)

LEMMA VerdictCases ==
  ASSUME NEW a, NEW phase, NEW s
  PROVE  /\ a.kind = "ok" => VerdictOf(a, phase, s) = Book!Authorised(s, a.number)
         /\ a.kind \in Refusals => VerdictOf(a, phase, s) = Book!Refused
         /\ a.kind = "error" => VerdictOf(a, phase, s) = Book!Unknown
         /\ a.kind = "none" /\ phase = "lost" => VerdictOf(a, phase, s) = Book!Unknown
         /\ a.kind = "none" /\ phase # "lost" => VerdictOf(a, phase, s) = Book!Open
<1>1. CASE a.kind = "ok"
  BY <1>1 DEF VerdictOf, Refusals, Book!Authorised
<1>2. CASE a.kind \in Refusals
  BY <1>2 DEF VerdictOf, Refusals, Book!Refused
<1>3. CASE a.kind = "error"
  BY <1>3 DEF VerdictOf, Refusals, Book!Unknown
<1>4. CASE a.kind = "none"
  BY <1>4 DEF VerdictOf, Refusals, Book!Unknown, Book!Open
<1>. QED
  BY <1>1, <1>2, <1>3, <1>4 DEF Refusals

LEMMA BookInitially == Init => Book!BookInit
<1> SUFFICES ASSUME Init PROVE Book!BookInit
  OBVIOUS
<1>1. \A r \in Requests : answer[r].kind = "none" /\ pc[r] # "lost"
  BY DEF Init, NoAnswer
<1>2. \A r \in Requests : Verdict(r) = Book!Open
  BY <1>1, VerdictCases DEF Verdict
<1>. QED
  BY <1>2 DEF Init, Book!BookInit

\* The verdict of a request that is being handled is open.
LEMMA OpenVerdict ==
  ASSUME TypeInv, NEW r \in Requests, pc[r] \notin {"done", "lost"}
  PROVE  Verdict(r) = Book!Open
<1>1. answer[r].kind = "none"
  BY DEF TypeInv, Handled, NoAnswer
<1>. QED
  BY <1>1, VerdictCases DEF Verdict

BookStep == [Book!BookNext]_(Book!bookVars)

\* One handler fails.
LEMMA OneGivesUp ==
  ASSUME TypeInv, NEW r \in Requests, pc[r] \notin {"done", "lost"}, UNCHANGED book,
         answer'[r].kind = "error",
         \A q \in Requests : q # r => Verdict(q)' = Verdict(q)
  PROVE  BookStep
<1>1. Verdict(r) = Book!Open /\ Verdict(r)' = Book!Unknown
  BY OpenVerdict, VerdictCases DEF Verdict
<1>2. Book!GiveUp({r})
  BY <1>1 DEF Book!GiveUp
<1>3. {r} \in SUBSET Requests
  OBVIOUS
<1>. QED
  BY <1>2, <1>3 DEF BookStep, Book!BookNext

\* Nothing a client could notice.
LEMMA BookStutters ==
  ASSUME UNCHANGED book, \A q \in Requests : Verdict(q)' = Verdict(q)
  PROVE  BookStep
  BY DEF BookStep, Book!bookVars

LEMMA OneRefused ==
  ASSUME TypeInv, IssueInv, NEW r \in Requests, pc[r] \notin {"done", "lost"},
         UNCHANGED book, decision[r] # "granted", answer'[r].kind \in Refusals,
         \A q \in Requests : q # r => Verdict(q)' = Verdict(q)
  PROVE  BookStep
<1>1. Verdict(r) = Book!Open /\ Verdict(r)' = Book!Refused
  BY OpenVerdict, VerdictCases DEF Verdict
<1>2. ~ Book!Stands(r)
  BY DEF Book!Stands, IssueInv, BookAgrees
<1>3. Book!Refuse(r)
  BY <1>1, <1>2 DEF Book!Refuse
<1>. QED
  BY <1>3 DEF BookStep, Book!BookNext

LEMMA OneReported ==
  ASSUME TypeInv, IssueInv, NEW r \in Requests, pc[r] \notin {"done", "lost"},
         UNCHANGED <<book, job>>, decision[r] = "granted",
         answer'[r] = [kind |-> "ok", number |-> NextNumber(r)],
         \A q \in Requests : q # r => Verdict(q)' = Verdict(q)
  PROVE  BookStep
<1> DEFINE s == job[r].series
<1>1. s \in Series
  BY InASeries DEF IssueInv, AskedBefore
<1>2. NextNumber(r) \in DOMAIN book[s] /\ book[s][NextNumber(r)] = r
  BY DEF IssueInv, BookAgrees
<1>3. Verdict(r) = Book!Open /\ Verdict(r)' = Book!Authorised(s, NextNumber(r))
  BY OpenVerdict, VerdictCases DEF Verdict
<1>4. Book!Report(r, s, NextNumber(r))
  BY <1>2, <1>3 DEF Book!Report
<1>. QED
  BY <1>1, <1>2, <1>4 DEF BookStep, Book!BookNext

LEMMA BookStepwise == TypeInv /\ IssueInv /\ [Next]_vars => BookStep
<1> SUFFICES ASSUME TypeInv, IssueInv, [Next]_vars PROVE BookStep
  OBVIOUS
<1> USE DEF arcaVars, TypeInv
<1>a. ASSUME NEW q \in Requests, answer'[q] = answer[q], pc'[q] = pc[q], job'[q] = job[q]
      PROVE  Verdict(q)' = Verdict(q)
  BY <1>a DEF Verdict
<1>b. ASSUME NEW q \in Requests, pc[q] \notin {"done", "lost"}, pc'[q] \notin {"done", "lost"},
             answer'[q] = answer[q]
      PROVE  Verdict(q)' = Verdict(q)
  BY <1>b, OpenVerdict, VerdictCases DEF Verdict, Handled, NoAnswer
<1>1. ASSUME NEW r \in Requests, Arrive(r) PROVE BookStep
  <2>1. PICK j \in Jobs, p \in {"guard", "ticket", "done"} :
          /\ pc[r] = "idle"
          /\ job' = [job EXCEPT ![r] = j]
          /\ pc' = [pc EXCEPT ![r] = p]
          /\ \/ p # "done" /\ UNCHANGED answer
             \/ answer' = [answer EXCEPT ![r] = [kind |-> "error", number |-> 0]]
          /\ UNCHANGED book
    BY <1>1 DEF Arrive, ArriveV1, ArrivePos, Goto, Fail, Reply
  <2>2. \A q \in Requests : q # r => Verdict(q)' = Verdict(q)
    BY <1>a, <2>1 DEF TypeOK
  <2>3. CASE p # "done" /\ UNCHANGED answer
    BY <1>b, <2>1, <2>2, <2>3, BookStutters DEF TypeOK
  <2>4. CASE answer' = [answer EXCEPT ![r] = [kind |-> "error", number |-> 0]]
    BY <2>1, <2>2, <2>4, OneGivesUp DEF TypeOK
  <2>. QED
    BY <2>1, <2>3, <2>4
<1>2. ASSUME NEW r \in Requests, Quiet(r) PROVE BookStep
  <2>1. UNCHANGED <<job, decision, book>>
    BY <1>2 DEF Quiet
  <2>2. CASE Moves(r)
    <3>1. /\ pc[r] \notin {"done", "lost"} /\ pc'[r] \notin {"done", "lost"}
          /\ UNCHANGED answer
          /\ \A q \in Requests : q # r => pc'[q] = pc[q]
      BY <2>2 DEF Moves, TypeOK
    <3>. QED
      BY <1>a, <1>b, <2>1, <3>1, BookStutters
  <2>3. CASE Ends(r)
    <3>1. PICK k \in Kinds, n \in Nat :
            /\ pc[r] \notin {"done", "lost"}
            /\ \/ k = "error"
               \/ k \in {"forbidden", "badRequest", "noTicket"} /\ pc[r] \in {"guard", "ticket", "solicit"}
               \/ k = "observed" /\ decision[r] \in {"refused", "outOfSequence"}
            /\ Reply(r, k, n)
      BY <2>3 DEF Ends
    <3>2. /\ answer'[r].kind = k
          /\ \A q \in Requests : q # r => pc'[q] = pc[q] /\ answer'[q] = answer[q]
      BY <3>1 DEF Reply, Goto, TypeOK
    <3>3. \A q \in Requests : q # r => Verdict(q)' = Verdict(q)
      BY <1>a, <2>1, <3>2
    <3>4. CASE k = "error"
      BY <2>1, <3>1, <3>2, <3>3, <3>4, OneGivesUp
    <3>5. CASE k # "error"
      <4>1. decision[r] # "granted"
        BY <3>1, <3>5, NotAsked
      <4>. QED
        BY <2>1, <3>1, <3>2, <3>3, <3>5, <4>1, OneRefused DEF Refusals
    <3>. QED
      BY <3>4, <3>5
  <2>. QED
    BY <1>2, <2>2, <2>3 DEF Quiet
<1>3. ASSUME NEW r \in Requests, AskLast(r) \/ Solicit(r) PROVE BookStep
  <2>1. /\ pc[r] \notin {"done", "lost"} /\ pc'[r] \notin {"done", "lost"}
        /\ UNCHANGED <<job, answer, book>>
        /\ \A q \in Requests : q # r => pc'[q] = pc[q]
    BY <1>3 DEF AskLast, Solicit, Goto, TypeOK
  <2>. QED
    BY <1>a, <1>b, <2>1, BookStutters
<1>4. ASSUME NEW r \in Requests, Settles(r) PROVE BookStep
  <2>1. UNCHANGED <<job, book>> /\ decision[r] = "granted" /\ pc[r] \notin {"done", "lost"}
    BY <1>4 DEF Settles
  <2>2. /\ \/ pc'[r] \notin {"done", "lost"} /\ answer'[r] = answer[r]
           \/ answer'[r] = [kind |-> "ok", number |-> NextNumber(r)]
           \/ answer'[r].kind = "error"
        /\ \A q \in Requests : q # r => pc'[q] = pc[q] /\ answer'[q] = answer[q]
    BY <1>4 DEF Settles, Reply, Goto, TypeOK
  <2>3. \A q \in Requests : q # r => Verdict(q)' = Verdict(q)
    BY <1>a, <2>1, <2>2
  <2>4. CASE pc'[r] \notin {"done", "lost"} /\ answer'[r] = answer[r]
    BY <1>b, <2>1, <2>3, <2>4, BookStutters
  <2>5. CASE answer'[r] = [kind |-> "ok", number |-> NextNumber(r)]
    BY <2>1, <2>3, <2>5, OneReported
  <2>6. CASE answer'[r].kind = "error"
    BY <2>1, <2>3, <2>6, OneGivesUp
  <2>. QED
    BY <2>2, <2>4, <2>5, <2>6
<1>5. ASSUME NEW r \in Requests, Handle(r) PROVE BookStep
  <2>1. TypeOK
    OBVIOUS
  <2>. QED
    BY <1>2, <1>3, <1>4, <1>5, <2>1, QuietSteps, SettlingSteps DEF Handle
<1>6. ASSUME UNCHANGED <<pc, job, answer, book>> PROVE BookStep
  BY <1>a, <1>6, BookStutters
<1>7. ASSUME NEW m \in wire, ArcaDecides(m) PROVE BookStep
  <2>1. UNCHANGED <<pc, job, answer>>
    BY <1>7 DEF ArcaDecides
  <2>2. CASE UNCHANGED book
    BY <1>6, <2>1, <2>2
  <2>3. CASE book' = [book EXCEPT ![m.series] = Append(@, m.req)]
    <3>1. \A q \in Requests : Verdict(q)' = Verdict(q)
      BY <1>a, <2>1
    <3>2. m.req \in Requests /\ m.series \in Series /\ ~ Book!Stands(m.req)
      BY UnderWay DEF Book!Stands
    <3>3. Verdict(m.req).kind \in {"open", "unknown"}
      <4>1. answer[m.req].kind \in {"none", "error"}
        BY DEF IssueInv, AskedBefore
      <4>2. Verdict(m.req) \in {Book!Open, Book!Unknown}
        BY <4>1, VerdictCases DEF Verdict
      <4>. QED
        BY <4>2 DEF Book!Open, Book!Unknown
    <3>4. Book!Enter(m.req, m.series)
      BY <2>3, <3>1, <3>2, <3>3 DEF Book!Enter
    <3>. QED
      BY <3>2, <3>4 DEF BookStep, Book!BookNext
  <2>. QED
    BY <1>7, <2>2, <2>3 DEF ArcaDecides, Authorise, RefuseNumber, RefuseContent
<1>8. ASSUME NEW m \in wire, LoseSolicitud(m) PROVE BookStep
  BY <1>6, <1>8 DEF LoseSolicitud
<1>9. ASSUME NEW c \in Cuits, NEW d \in CuitDocs, WriteCuit(c, d) PROVE BookStep
  BY <1>6, <1>9 DEF WriteCuit
<1>10. ASSUME NextMonth \/ UNCHANGED vars PROVE BookStep
  BY <1>6, <1>10 DEF NextMonth, vars
<1>11. ASSUME Crash PROVE BookStep
  <2> DEFINE R == {r \in Requests : pc[r] \notin Resting}
  <2>1. /\ UNCHANGED <<job, answer, book>>
        /\ \A r \in Requests : pc'[r] = IF r \in R THEN "lost" ELSE pc[r]
    BY <1>11 DEF Crash
  <2>2. \A r \in R : /\ Verdict(r) = Book!Open
                     /\ Verdict(r)' = Book!Unknown
    <3>1. ASSUME NEW r \in R PROVE answer[r].kind = "none" /\ pc[r] \notin {"done", "lost"}
      BY DEF Handled, NoAnswer, Resting
    <3>. QED
      BY <2>1, <3>1, OpenVerdict, VerdictCases DEF Verdict
  <2>3. \A r \in Requests \ R : Verdict(r)' = Verdict(r)
    BY <1>a, <2>1
  <2>4. Book!GiveUp(R)
    BY <2>1, <2>2, <2>3 DEF Book!GiveUp
  <2>5. R \in SUBSET Requests
    OBVIOUS
  <2>. QED
    BY <2>4, <2>5 DEF BookStep, Book!BookNext
<1>. QED
  BY <1>1, <1>5, <1>7, <1>8, <1>9, <1>10, <1>11 DEF Next

\* Whatever the handlers, ARCA, the network and the restarts do, the books
\* and the answers are those of InvoiceBook.
THEOREM ImplementsTheBook == Spec => KeepsTheBook
<1>1. TypeInv /\ IssueInv /\ [Next]_vars => [Book!BookNext]_(Book!bookVars)
  BY BookStepwise DEF BookStep
<1>. QED
  BY <1>1, IssueInductive, BookInitially, PTL DEF Spec, KeepsTheBook, Book!BookSpec
=============================================================================
