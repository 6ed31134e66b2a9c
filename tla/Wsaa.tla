-------------------------------- MODULE Wsaa --------------------------------
(***************************************************************************)
(* The access tickets of ARCA (afip/wsaa/wsaa.service.ts).                 *)
(*                                                                         *)
(* A handler that needs a ticket for a CUIT and a service looks at the     *)
(* ticket file (getIfNotExpired), renews it when it is missing, unreadable *)
(* or expired (generarTA: write the request, have openssl sign it, read    *)
(* and remove the signature, log in, write the ticket), and reads the      *)
(* ticket it goes on with (getTA).                                         *)
(*                                                                         *)
(* Handlers share the files of a CUIT and service and lock nothing.  A     *)
(* file is written in two steps, truncated and then filled, by the thread  *)
(* pool; the handler continues on the event loop.  openssl runs in         *)
(* spawnSync, which holds the event loop: meanwhile a file operation that  *)
(* is under way may end, but no handler gets its turn.  The files are on a *)
(* mounted volume and outlive the process.                                 *)
(***************************************************************************)
EXTENDS Naturals

CONSTANTS
  Callers,    \* handlers that need a ticket, one call each
  NoCaller,
  Cuits,
  Services,   \* `wsfe', `ws_sr_constancia_inscripcion'
  Life,       \* how long WSAA lets a ticket live
  MaxTime,    \* bound: how far the clock goes
  MaxCrashes  \* bound: restarts of the service

ASSUME NoCallerIsNone == NoCaller \notin Callers
ASSUME TimesArePositive == Life \in Nat \ {0} /\ MaxTime \in Nat /\ MaxCrashes \in Nat

VARIABLES
  pc,         \* where a caller stands
  job,        \* the CUIT and service it needs a ticket for
  since,      \* when it came
  hand,       \* what it holds: the signed request, later the ticket
  ta,         \* the ticket files
  tra,        \* the request files
  tmp,        \* the files openssl leaves the signed request in
  signer,     \* the caller whose openssl holds the event loop
  stalled,    \* callers that have had their step while it does
  disturbed,  \* history: callers that overlap the renewal of another one
  refused,    \* history: callers that openssl or WSAA failed
  overdue,    \* history: callers under whose eyes a ticket was written too late
  now, crashes

vars == <<pc, job, since, hand, ta, tra, tmp, signer, stalled,
          disturbed, refused, overdue, now, crashes>>
fileVars == <<ta, tra, tmp>>
causeVars == <<disturbed, refused, overdue>>
clockVars == <<now, crashes>>
-----------------------------------------------------------------------------
(* What a file holds.  Half of a file, or a text that is none of ours, is  *)
(* `torn': it does not parse, and WSAA refuses it.                         *)
Absent == [state |-> "absent"]
Empty == [state |-> "empty"]
Torn == [state |-> "torn"]
Request(s) == [state |-> "whole", service |-> s]
Signed(c, s) == [state |-> "whole", cuit |-> c, service |-> s]
Ticket(c, s, e) == [state |-> "whole", cuit |-> c, service |-> s, exp |-> e]

Spoilt == {Absent, Empty, Torn}
Requests == {Request(s) : s \in Services}
Signatures == {Signed(c, s) : c \in Cuits, s \in Services}
Tickets == {Ticket(c, s, e) : c \in Cuits, s \in Services, e \in 1 .. MaxTime + Life}

\* Mutated form: the one TA.xml of the days before the padron.
OneFileForAll(s) == CHOOSE any \in Services : TRUE

\* Each service has files of its own in the folder of the CUIT.
FilesFor(s) == s

Slot(p) == <<job[p].cuit, FilesFor(job[p].service)>>
Slots == Cuits \X Services

Renewing == {"truncTra", "fillTra", "sign", "signing", "readTmp", "unlink",
             "login", "truncTa", "fillTa"}
Active == {"check", "take"} \cup Renewing
Ended == {"done", "failed", "lost"}

Jobs == [cuit: Cuits, service: Services]
NoJob == [cuit |-> "none"]

Init ==
  /\ pc = [p \in Callers |-> "idle"]
  /\ job = [p \in Callers |-> NoJob]
  /\ since = [p \in Callers |-> 0]
  /\ hand = [p \in Callers |-> Absent]
  /\ ta = [k \in Slots |-> Absent]
  /\ tra = [k \in Slots |-> Absent]
  /\ tmp = [k \in Slots |-> Absent]
  /\ signer = NoCaller
  /\ stalled = {}
  /\ disturbed = {}
  /\ refused = {}
  /\ overdue = {}
  /\ now = 0
  /\ crashes = 0

Goto(p, phase) == pc' = [pc EXCEPT ![p] = phase]
Hold(p, x) == hand' = [hand EXCEPT ![p] = x]
Fail(p) == Goto(p, "failed")

LoopIsFree == signer = NoCaller

\* The file operation p waits for ends.  While openssl runs p then waits for
\* its turn, and can take no other step.
FileStep(p, phase) ==
  /\ pc[p] = phase
  /\ p \notin stalled
  /\ stalled' = IF LoopIsFree THEN {} ELSE stalled \cup {p}

\* A step that only the event loop can take.
LoopStep(p, phase) ==
  /\ pc[p] = phase
  /\ LoopIsFree
  /\ UNCHANGED stalled

Others(p, phases) == {q \in Callers \ {p} : pc[q] \in phases /\ Slot(q) = Slot(p)}
-----------------------------------------------------------------------------
Arrive(p) ==
  /\ LoopStep(p, "idle")
  /\ \E j \in Jobs :
       /\ job' = [job EXCEPT ![p] = j]
       /\ disturbed' = disturbed \cup
            {x \in {p} : \E q \in Callers : /\ pc[q] \in Renewing
                                            /\ Slot(q) = <<j.cuit, FilesFor(j.service)>>}
  /\ since' = [since EXCEPT ![p] = now]
  /\ Goto(p, "check")
  /\ UNCHANGED <<hand, fileVars, signer, refused, overdue, clockVars>>

\* Mutated form: a ticket is good as long as its file can be read.
GoodAsLongAsItParses(t) == t.state = "whole"

Valid(t) == t.state = "whole" /\ now < t.exp
Expired(t) == t.state = "whole" /\ t.exp <= now

(* getIfNotExpired, and what its callers do with the answer. *)
Check(p) ==
  /\ FileStep(p, "check")
  /\ \/ Valid(ta[Slot(p)]) /\ Goto(p, "take") /\ UNCHANGED disturbed
     \/ /\ ~ Valid(ta[Slot(p)])
        /\ Goto(p, "truncTra")
        /\ disturbed' = disturbed \cup Others(p, Active)
                                  \cup {x \in {p} : Others(p, Renewing) # {}}
  /\ UNCHANGED <<job, since, hand, fileVars, signer, refused, overdue, clockVars>>

(* createTRA.  Requests for one service have one length, so that two of    *)
(* them written over each other leave the later one.                       *)
TruncTra(p) ==
  /\ FileStep(p, "truncTra")
  /\ tra' = [tra EXCEPT ![Slot(p)] = Empty]
  /\ Goto(p, "fillTra")
  /\ UNCHANGED <<job, since, hand, ta, tmp, signer, causeVars, clockVars>>

FillTra(p) ==
  /\ FileStep(p, "fillTra")
  /\ tra' = [tra EXCEPT ![Slot(p)] = Request(job[p].service)]
  /\ Goto(p, "sign")
  /\ UNCHANGED <<job, since, hand, ta, tmp, signer, causeVars, clockVars>>
-----------------------------------------------------------------------------
(* signTRA. *)

\* openssl reads the request and truncates its output.
Sign(p) ==
  /\ LoopStep(p, "sign")
  /\ Hold(p, tra[Slot(p)])
  /\ tmp' = [tmp EXCEPT ![Slot(p)] = Empty]
  /\ signer' = p
  /\ Goto(p, "signing")
  /\ UNCHANGED <<job, since, ta, tra, causeVars, clockVars>>

\* openssl writes the signature, into no file if it was removed meanwhile,
\* and the event loop is free again.  The signature of half a request is as
\* useless as half a signature.
Signature(p) ==
  IF hand[p].state = "whole" THEN Signed(job[p].cuit, hand[p].service) ELSE Torn

SignEnds(p) ==
  /\ signer = p
  /\ tmp' = [tmp EXCEPT ![Slot(p)] = IF @ = Absent THEN Absent ELSE Signature(p)]
  /\ Hold(p, Absent)
  /\ signer' = NoCaller
  /\ stalled' = {}
  /\ Goto(p, "readTmp")
  /\ UNCHANGED <<job, since, ta, tra, causeVars, clockVars>>

\* Without a usable key and certificate openssl leaves the output as it was,
\* or truncated.  The result is not looked at.
SignFails(p) ==
  /\ LoopStep(p, "sign")
  /\ tmp' = tmp \/ tmp' = [tmp EXCEPT ![Slot(p)] = Empty]
  /\ Goto(p, "readTmp")
  /\ refused' = refused \cup {p}
  /\ UNCHANGED <<job, since, hand, ta, tra, signer, disturbed, overdue, clockVars>>

ReadTmp(p) ==
  /\ FileStep(p, "readTmp")
  /\ IF tmp[Slot(p)] = Absent
     THEN Fail(p) /\ UNCHANGED hand
     ELSE Hold(p, tmp[Slot(p)]) /\ Goto(p, "unlink")
  /\ UNCHANGED <<job, since, fileVars, signer, causeVars, clockVars>>

Unlink(p) ==
  /\ FileStep(p, "unlink")
  /\ IF tmp[Slot(p)] = Absent
     THEN Fail(p) /\ UNCHANGED tmp
     ELSE tmp' = [tmp EXCEPT ![Slot(p)] = Absent] /\ Goto(p, "login")
  /\ UNCHANGED <<job, since, hand, ta, tra, signer, causeVars, clockVars>>
-----------------------------------------------------------------------------
(* callWSAA. *)

\* Mutated form: goes on before the ticket is written.
LoginUnsaved(p) ==
  /\ LoopStep(p, "login")
  /\ hand[p].state = "whole"
  /\ Hold(p, Ticket(hand[p].cuit, hand[p].service, now + Life))
  /\ Goto(p, "take")
  /\ UNCHANGED <<job, since, fileVars, signer, causeVars, clockVars>>

Login(p) ==
  /\ LoopStep(p, "login")
  /\ hand[p].state = "whole"
  /\ Hold(p, Ticket(hand[p].cuit, hand[p].service, now + Life))
  /\ Goto(p, "truncTa")
  /\ UNCHANGED <<job, since, fileVars, signer, causeVars, clockVars>>

\* WSAA always refuses what is torn, and may refuse anything else; an answer
\* that is lost looks the same.
LoginFails(p) ==
  /\ LoopStep(p, "login")
  /\ Fail(p)
  /\ refused' = refused \cup {x \in {p} : hand[p].state = "whole"}
  /\ UNCHANGED <<job, since, hand, fileVars, signer, disturbed, overdue, clockVars>>

\* An answer without a ticket in it: the text `undefined' is written.
LoginBlank(p) ==
  /\ LoopStep(p, "login")
  /\ Hold(p, Torn)
  /\ Goto(p, "truncTa")
  /\ refused' = refused \cup {p}
  /\ UNCHANGED <<job, since, fileVars, signer, disturbed, overdue, clockVars>>

TruncTa(p) ==
  /\ FileStep(p, "truncTa")
  /\ ta' = [ta EXCEPT ![Slot(p)] = Empty]
  /\ Goto(p, "fillTa")
  /\ UNCHANGED <<job, since, hand, tra, tmp, signer, causeVars, clockVars>>

\* Mutated form: the object of the answer instead of the text in it.
WrittenAsObject(p) == {[state |-> "object"]}

\* Tickets differ in length: over another one that was filled in meanwhile a
\* ticket may leave the other's tail.
Written(p) == {hand[p]} \cup (IF ta[Slot(p)] = Empty THEN {} ELSE {Torn})

FillTa(p) ==
  /\ FileStep(p, "fillTa")
  /\ \E x \in Written(p) : ta' = [ta EXCEPT ![Slot(p)] = x]
  /\ overdue' = overdue \cup {q \in Others(p, {"take"}) : Expired(hand[p])}
  /\ Goto(p, "take")
  /\ UNCHANGED <<job, since, hand, tra, tmp, signer, disturbed, refused, clockVars>>

(* getTA: a file that does not parse is no ticket, and every caller fails  *)
(* for want of its token.                                                  *)
Take(p) ==
  /\ FileStep(p, "take")
  /\ IF ta[Slot(p)].state = "whole"
     THEN Hold(p, ta[Slot(p)]) /\ Goto(p, "done")
     ELSE Fail(p) /\ UNCHANGED hand
  /\ UNCHANGED <<job, since, fileVars, signer, causeVars, clockVars>>
-----------------------------------------------------------------------------
Tick ==
  /\ now < MaxTime
  /\ now' = now + 1
  /\ UNCHANGED <<pc, job, since, hand, fileVars, signer, stalled, causeVars, crashes>>

\* The process ends, openssl with it, and is started again: the files stay
\* as they are.
Crash ==
  /\ crashes < MaxCrashes
  /\ crashes' = crashes + 1
  /\ pc' = [p \in Callers |-> IF pc[p] \in Active THEN "lost" ELSE pc[p]]
  /\ signer' = NoCaller
  /\ stalled' = {}
  /\ UNCHANGED <<job, since, hand, fileVars, causeVars, now>>

Renew(p) ==
  \/ TruncTra(p) \/ FillTra(p)
  \/ Sign(p) \/ SignEnds(p) \/ SignFails(p) \/ ReadTmp(p) \/ Unlink(p)
  \/ Login(p) \/ LoginFails(p) \/ LoginBlank(p) \/ TruncTa(p) \/ FillTa(p)

Work(p) == Check(p) \/ Renew(p) \/ Take(p)

Next ==
  \/ \E p \in Callers : Arrive(p) \/ Work(p)
  \/ Tick
  \/ Crash

Spec == Init /\ [][Next]_vars
-----------------------------------------------------------------------------
(* Properties. *)

\* The type of every variable.
TypeOK ==
  /\ pc \in [Callers -> {"idle"} \cup Active \cup Ended]
  /\ job \in [Callers -> Jobs \cup {NoJob}]
  /\ since \in [Callers -> 0 .. MaxTime]
  /\ hand \in [Callers -> Spoilt \cup Requests \cup Signatures \cup Tickets]
  /\ ta \in [Slots -> Spoilt \cup Tickets]
  /\ tra \in [Slots -> Spoilt \cup Requests]
  /\ tmp \in [Slots -> Spoilt \cup Signatures]
  /\ signer \in Callers \cup {NoCaller}
  /\ stalled \subseteq Callers
  /\ disturbed \subseteq Callers
  /\ refused \subseteq Callers
  /\ overdue \subseteq Callers
  /\ now \in 0 .. MaxTime
  /\ crashes \in 0 .. MaxCrashes

\* Whatever callers, a crash or a failing openssl have left in the shared
\* files, the ticket a handler goes on with is a whole one that WSAA gave for
\* the very CUIT and service the handler asked for: invoicing never presents
\* the ticket of the padron, nor one CUIT that of another.
TicketIsGenuine ==
  \A p \in Callers : pc[p] = "done" =>
    /\ hand[p] \in Tickets
    /\ hand[p].cuit = job[p].cuit
    /\ hand[p].service = job[p].service

\* Files left behind by a crash, torn or stale, never fail a later call: a
\* caller that overlaps no renewal of the same ticket by another one fails
\* only when openssl or WSAA itself failed it.  In particular callers that
\* find a valid ticket do not disturb one another, nor do the two services.
FailsOnlyIfDisturbed ==
  \A p \in Callers : pc[p] = "failed" => p \in disturbed \cup refused

\* Between the look at the ticket (getIfNotExpired) and its reading (getTA)
\* anybody may renew it, and an older ticket may be written over a newer one.
\* Even so the ticket a caller goes on with had not expired when the caller
\* came, unless just then another caller wrote one that expired on its way
\* from WSAA to the file.
FreshUnlessOverdue ==
  \A p \in Callers : pc[p] = "done" => p \in overdue \/ since[p] < hand[p].exp
=============================================================================
