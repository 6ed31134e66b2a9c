------------------------------- MODULE Padron -------------------------------
(***************************************************************************)
(* GET v1/padron/:cuit, AfipPadronService.lookup: an account asks ARCA for *)
(* a taxpayer, in the name of one of its CUITs.                            *)
(*                                                                         *)
(* ARCA's reply is a record of what the code looks at.  A tax entry has an *)
(* id (or one that is no number) and a state; the entries come in two      *)
(* lists, and collectImpuestos takes one of them a step.                   *)
(* How a ticket is obtained is the module Wsaa; here it works or fails.    *)
(***************************************************************************)
EXTENDS Naturals, Sequences

CONSTANTS
  Items,   \* the tax entries ARCA may send
  NaN,     \* the id of an entry whose id is no number
  MaxItems \* bound: the entries of a reply

States == {"none", "ACTIVO", "INACTIVO", "BAJA"}

ASSUME NaNIsNoNumber == NaN \notin Nat
ASSUME ItemsAreEntries ==
  Items \subseteq [id: Nat \cup {NaN}, state: States]
ASSUME MaxItemsIsNatural == MaxItems \in Nat

VARIABLES
  pc,        \* the step of the lookup
  reply,     \* what ARCA has answered
  n,         \* how many of its tax entries have been taken
  impuestos, \* the entries kept
  condition, \* condicionIva.id, 0 for none
  answer     \* what the client is answered

vars == <<pc, reply, n, impuestos, condition, answer>>
listVars == <<n, impuestos>>
-----------------------------------------------------------------------------
(* ARCA's reply: whether it has datosGenerales, what its error texts say,  *)
(* the entries of datosRegimenGeneral followed by those of                 *)
(* datosMonotributo, and whether the latter names a category.  Names and   *)
(* addresses are passed on as they come and left out.                      *)

Lists == UNION {[1 .. k -> Items] : k \in 0 .. MaxItems}
Texts == {"noExiste", "otherText"}

Replies ==
  {p \in [general: BOOLEAN, errores: SUBSET Texts, raw: Lists, categoria: BOOLEAN] :
     p.general \/ (p.raw = << >> /\ ~ p.categoria)}
NoReply == [general |-> FALSE, errores |-> {}, raw |-> << >>, categoria |-> FALSE]

Answers == {"none", "ok", "badRequest", "forbidden", "notFound", "error"}

Init ==
  /\ pc = "idle"
  /\ reply = NoReply
  /\ n = 0
  /\ impuestos = << >>
  /\ condition = 0
  /\ answer = "none"

Answer(kind) == pc' = "idle" /\ answer' = kind
-----------------------------------------------------------------------------
(* lookup *)

\* sanitizeCuit, for the one asked for and the one who asks.
Ask ==
  /\ pc = "idle"
  /\ reply' = NoReply
  /\ n' = 0
  /\ impuestos' = << >>
  /\ condition' = 0
  /\ \/ pc' = "resolve" /\ answer' = "none"
     \/ Answer("badRequest")

\* resolveConsultante: the document is read; it may be absent, another's, or
\* not ready.  A Firestore error is not caught.
ResolveConsultante ==
  /\ pc = "resolve"
  /\ \/ pc' = "login" /\ UNCHANGED answer
     \/ \E kind \in {"forbidden", "badRequest", "error"} : Answer(kind)
  /\ UNCHANGED <<reply, listVars, condition>>

\* Mutated form: the text takes the place of the status.
ThrownAsItIs(text) == text

\* throwAfip, by the text of the error.
Thrown(text) == IF text = "noExiste" THEN "notFound" ELSE "badRequest"

\* getIfNotExpired and generarTA; then getTA, whose errors are not caught, and
\* whose ticket may lack a token.
Login ==
  /\ pc = "login"
  /\ \/ pc' = "ask" /\ UNCHANGED answer
     \/ Answer(Thrown("otherText"))
     \/ \E kind \in {"badRequest", "error"} : Answer(kind)
  /\ UNCHANGED <<reply, listVars, condition>>

\* getPersona: a fault of ARCA or of the connection, or a reply.
GetPersona ==
  /\ pc = "ask"
  /\ \/ /\ \E p \in Replies : reply' = p
        /\ pc' = "map" /\ UNCHANGED answer
     \/ /\ \E text \in Texts : Answer(Thrown(text))
        /\ UNCHANGED reply
  /\ UNCHANGED <<listVars, condition>>
-----------------------------------------------------------------------------
(* mapPersona *)

\* throwFromConstancia: a reply that says nothing is a person not found, too.
FromConstancia(errores) ==
  IF "noExiste" \in errores \/ errores = {} THEN "notFound" ELSE "badRequest"

MapPersona ==
  /\ pc = "map"
  /\ IF reply.general THEN pc' = "collect" /\ UNCHANGED answer
                      ELSE Answer(FromConstancia(reply.errores))
  /\ UNCHANGED <<reply, listVars, condition>>

Seen(id) == \E k \in 1 .. Len(impuestos) : impuestos[k].id = id

\* Mutated form: only the entry before is compared.
KeepsUnlikeLast(x) ==
  x.id # NaN /\ (impuestos = << >> \/ impuestos[Len(impuestos)].id # x.id)

Keeps(x) == x.id # NaN /\ ~ Seen(x.id)

\* collectImpuestos, one turn of its loop.
Collect ==
  /\ pc = "collect"
  /\ n < Len(reply.raw)
  /\ n' = n + 1
  /\ LET x == reply.raw[n + 1] IN
       impuestos' = IF Keeps(x) THEN Append(impuestos, x) ELSE impuestos
  /\ UNCHANGED <<pc, reply, condition, answer>>

\* /activo/i is also in "INACTIVO"; an entry without a state is active.
Activo(x) == x.state # "BAJA"
Has(id) == \E k \in 1 .. Len(impuestos) : impuestos[k].id = id /\ Activo(impuestos[k])

Monotributo == {20, 21, 22, 23, 24, 308}

\* The taxes that decide, the first of them first, and the condition of each.
Deciding == <<30, 32, 34, 33>>
Condition == <<1, 4, 15, 7>>

\* Mutated form: the last of the deciding taxes wins.
DecidesLast(k) ==
  Has(Deciding[k]) /\ \A j \in k + 1 .. Len(Deciding) : ~ Has(Deciding[j])

Decides(k) ==
  Has(Deciding[k]) /\ \A j \in 1 .. k - 1 : ~ Has(Deciding[j])

IsMonotributista == reply.categoria \/ \E id \in Monotributo : Has(id)

\* mapCondicionIva, and the answer.  (The text that goes with the condition is
\* left out, like every other text.)
MapCondicionIva ==
  /\ pc = "collect"
  /\ n = Len(reply.raw)
  /\ \/ /\ IsMonotributista
        /\ condition' = 6
     \/ /\ ~ IsMonotributista
        /\ \E k \in 1 .. Len(Deciding) :
             /\ Decides(k)
             /\ condition' = Condition[k]
     \/ /\ ~ IsMonotributista /\ \A k \in 1 .. Len(Deciding) : ~ Has(Deciding[k])
        /\ UNCHANGED condition
  /\ Answer("ok")
  /\ UNCHANGED <<reply, listVars>>

Next ==
  \/ Ask \/ ResolveConsultante \/ Login \/ GetPersona
  \/ MapPersona \/ Collect \/ MapCondicionIva

Spec == Init /\ [][Next]_vars
-----------------------------------------------------------------------------
(* Properties. *)

\* The type of every variable.
TypeOK ==
  /\ pc \in {"idle", "resolve", "login", "ask", "map", "collect"}
  /\ reply \in Replies \cup {NoReply}
  /\ n \in 0 .. Len(reply.raw)
  /\ impuestos \in Seq(Items)
  /\ condition \in {0, 1, 4, 6, 7, 15}
  /\ answer \in Answers

\* Whatever the reply and however its lists overlap, of every tax exactly the
\* first entry taken so far is kept, in the order of the reply: the loop with
\* its `seen' set says the same as this.
FirstOfItsTax(k) ==
  /\ reply.raw[k].id # NaN
  /\ \A j \in 1 .. k - 1 : reply.raw[j].id # reply.raw[k].id
ImpuestosAreTheFirst ==
  /\ \A k \in 1 .. n : FirstOfItsTax(k) => \E i \in 1 .. Len(impuestos) : impuestos[i] = reply.raw[k]
  /\ \A i \in 1 .. Len(impuestos) :
       \E k \in 1 .. n : FirstOfItsTax(k) /\ impuestos[i] = reply.raw[k]
  /\ \A i, j \in 1 .. Len(impuestos) : impuestos[i].id = impuestos[j].id => i = j

\* The condition answered follows from the reply alone: it is that of the first
\* tax in the order of the code whose first entry is not a BAJA, and
\* Monotributo before all of them.
Active(id) == \E k \in 1 .. Len(reply.raw) :
  reply.raw[k].id = id /\ FirstOfItsTax(k) /\ Activo(reply.raw[k])
Monotributista == reply.categoria \/ \E id \in Monotributo : Active(id)
ConditionFollowsFromReply ==
  answer = "ok" =>
    condition = IF Monotributista THEN 6
                ELSE IF Active(30) THEN 1
                ELSE IF Active(32) THEN 4
                ELSE IF Active(34) THEN 15
                ELSE IF Active(33) THEN 7
                ELSE 0
==============================================================================
