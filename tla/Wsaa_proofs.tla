---------------------------- MODULE Wsaa_proofs ----------------------------
(***************************************************************************)
(* What holds of the ticket files and of their callers for any number of   *)
(* callers, CUITs and services, any life of a ticket and any bound.        *)
(*                                                                         *)
(* OwnInv says whose text each file and each hand may hold, phase by       *)
(* phase.  LoneInv is about callers that overlap no renewal of the same    *)
(* ticket: they own their files, and find there what they have left.       *)
(* FreshInv is about the dates of tickets, under any overlap.              *)
(***************************************************************************)
EXTENDS Wsaa, TLAPS

Ages == 1 .. MaxTime + Life
OwnTickets(c, s) == {Ticket(c, s, e) : e \in Ages}

\* The files of a slot hold texts of its CUIT and service, or spoilt ones.
FilesAreOwn ==
  \A c \in Cuits, s \in Services :
    /\ ta[<<c, s>>] \in Spoilt \cup OwnTickets(c, s)
    /\ tra[<<c, s>>] \in Spoilt \cup {Request(s)}
    /\ tmp[<<c, s>>] \in Spoilt \cup {Signed(c, s)}

\* What a caller holds in each phase.
HandIsOwn(p) ==
  /\ pc[p] = "signing" => hand[p] \in Spoilt \cup {Request(job[p].service)}
  /\ pc[p] \in {"unlink", "login"} =>
       hand[p] \in Spoilt \cup {Signed(job[p].cuit, job[p].service)}
  /\ pc[p] \in {"truncTa", "fillTa"} =>
       hand[p] \in {Torn} \cup OwnTickets(job[p].cuit, job[p].service)
  /\ pc[p] = "done" => hand[p] \in OwnTickets(job[p].cuit, job[p].service)

\* A caller that has come has a job; it holds the event loop while it signs.
CallerIsSound(p) ==
  /\ pc[p] # "idle" => job[p] \in Jobs
  /\ pc[p] = "signing" <=> signer = p

OwnInv ==
  /\ TypeOK
  /\ FilesAreOwn
  /\ \A p \in Callers : HandIsOwn(p)
  /\ \A p \in Callers : CallerIsSound(p)
-----------------------------------------------------------------------------
(* What a text is. *)

LEMMA TextStates ==
  /\ Absent.state = "absent" /\ Empty.state = "empty" /\ Torn.state = "torn"
  /\ \A s : Request(s).state = "whole" /\ Request(s).service = s
  /\ \A c, s : /\ Signed(c, s).state = "whole"
               /\ Signed(c, s).cuit = c
               /\ Signed(c, s).service = s
  /\ \A c, s, e : /\ Ticket(c, s, e).state = "whole"
                  /\ Ticket(c, s, e).cuit = c
                  /\ Ticket(c, s, e).service = s
                  /\ Ticket(c, s, e).exp = e
BY DEF Absent, Empty, Torn, Request, Signed, Ticket

\* A job names the slot of its files.
LEMMA SlotOfJob ==
  ASSUME NEW p, job[p] \in Jobs
  PROVE  /\ Slot(p) = <<job[p].cuit, job[p].service>>
         /\ Slot(p) \in Slots
         /\ job[p].cuit \in Cuits /\ job[p].service \in Services
BY DEF Jobs, Slot, Slots, FilesFor

\* The texts of a CUIT and a service are texts.
LEMMA TextTypes ==
  ASSUME NEW c \in Cuits, NEW s \in Services
  PROVE  /\ Request(s) \in Requests
         /\ Signed(c, s) \in Signatures
         /\ OwnTickets(c, s) \subseteq Tickets
         /\ \A e \in Ages : Ticket(c, s, e) \in OwnTickets(c, s)
BY DEF Requests, Signatures, Tickets, OwnTickets, Ages

\* A whole text is what its place may hold.
LEMMA WholeTexts ==
  ASSUME NEW c, NEW s, NEW x, x.state = "whole"
  PROVE  /\ x \in Spoilt \cup {Request(s)} => x = Request(s)
         /\ x \in Spoilt \cup {Signed(c, s)} => x = Signed(c, s)
         /\ x \in Spoilt \cup OwnTickets(c, s) => x \in OwnTickets(c, s)
BY TextStates DEF Spoilt
-----------------------------------------------------------------------------
(* OwnInv is an invariant. *)

LEMMA OwnInit == Init => OwnInv
<1> SUFFICES ASSUME Init PROVE OwnInv
  OBVIOUS
<1> USE DEF Init
<1>1. TypeOK
  <2>1. Absent \in Spoilt
    BY DEF Spoilt
  <2> QED
    BY <2>1, TimesArePositive DEF TypeOK
<1>2. FilesAreOwn
  BY DEF FilesAreOwn, Spoilt, Slots
<1>3. \A p \in Callers : HandIsOwn(p)
  BY DEF HandIsOwn
<1>4. \A p \in Callers : CallerIsSound(p)
  BY NoCallerIsNone DEF CallerIsSound
<1> QED
  BY <1>1, <1>2, <1>3, <1>4 DEF OwnInv

\* What a step leaves alone keeps its form.
LEMMA OwnFrame ==
  ASSUME NEW q \in Callers, HandIsOwn(q),
         pc'[q] = pc[q], hand'[q] = hand[q], job'[q] = job[q]
  PROVE  HandIsOwn(q)'
BY DEF HandIsOwn

LEMMA FilesFrame ==
  ASSUME FilesAreOwn, UNCHANGED fileVars
  PROVE  FilesAreOwn'
BY DEF FilesAreOwn, fileVars

\* A step of p that moves nobody else, and no file.
LEMMA OwnArrive ==
  ASSUME OwnInv, NEW p \in Callers, Arrive(p)
  PROVE  OwnInv'
<1> USE DEF Arrive, LoopStep, Goto
<1>1. PICK j \in Jobs : job' = [job EXCEPT ![p] = j]
  OBVIOUS
<1>2. disturbed' \in SUBSET Callers
  BY DEF OwnInv, TypeOK
<1>3. TypeOK'
  BY <1>1, <1>2 DEF OwnInv, TypeOK, Active, fileVars, clockVars
<1>4. \A q \in Callers : HandIsOwn(q)'
  <2> SUFFICES ASSUME NEW q \in Callers PROVE HandIsOwn(q)'
    OBVIOUS
  <2>1. CASE q = p
    BY <2>1 DEF HandIsOwn, OwnInv, TypeOK
  <2>2. CASE q # p
    BY <2>2, <1>1, OwnFrame DEF OwnInv, TypeOK
  <2> QED
    BY <2>1, <2>2
<1>5. \A q \in Callers : CallerIsSound(q)'
  BY <1>1 DEF CallerIsSound, OwnInv, TypeOK
<1>6. FilesAreOwn'
  BY FilesFrame DEF OwnInv
<1> QED
  BY <1>3, <1>4, <1>5, <1>6 DEF OwnInv

LEMMA OwnCheck ==
  ASSUME OwnInv, NEW p \in Callers, Check(p)
  PROVE  OwnInv'
<1> USE DEF Check, FileStep, Goto
<1>1. \E x \in {"take", "truncTra"} : pc' = [pc EXCEPT ![p] = x]
  OBVIOUS
<1>2. disturbed' \in SUBSET Callers
  BY DEF OwnInv, TypeOK, Others
<1>3. TypeOK'
  BY <1>1, <1>2 DEF OwnInv, TypeOK, Active, Renewing, fileVars, clockVars
<1>4. \A q \in Callers : HandIsOwn(q)'
  <2> SUFFICES ASSUME NEW q \in Callers PROVE HandIsOwn(q)'
    OBVIOUS
  <2>1. CASE q = p
    BY <2>1, <1>1 DEF HandIsOwn, OwnInv, TypeOK
  <2>2. CASE q # p
    BY <2>2, <1>1, OwnFrame DEF OwnInv, TypeOK
  <2> QED
    BY <2>1, <2>2
<1>5. \A q \in Callers : CallerIsSound(q)'
  BY <1>1 DEF CallerIsSound, OwnInv, TypeOK
<1>6. FilesAreOwn'
  BY FilesFrame DEF OwnInv
<1> QED
  BY <1>3, <1>4, <1>5, <1>6 DEF OwnInv

LEMMA OwnTruncTra ==
  ASSUME OwnInv, NEW p \in Callers, TruncTra(p)
  PROVE  OwnInv'
<1> USE DEF TruncTra, FileStep, Goto
<1>1. /\ job[p] \in Jobs
      /\ Slot(p) = <<job[p].cuit, job[p].service>>
      /\ Slot(p) \in Slots
      /\ job[p].cuit \in Cuits /\ job[p].service \in Services
  BY SlotOfJob DEF OwnInv, CallerIsSound
<1>2. \E x \in {"fillTra"} : pc' = [pc EXCEPT ![p] = x]
  OBVIOUS
<1>3. TypeOK'
  BY <1>1, <1>2 DEF OwnInv, TypeOK, Active, Renewing, Ended, fileVars, causeVars, clockVars, Spoilt
<1>4. \A q \in Callers : HandIsOwn(q)'
  <2> SUFFICES ASSUME NEW q \in Callers PROVE HandIsOwn(q)'
    OBVIOUS
  <2>1. CASE q = p
    BY <2>1, <1>2 DEF HandIsOwn, OwnInv, TypeOK
  <2>2. CASE q # p
    BY <2>2, <1>2, OwnFrame DEF OwnInv, TypeOK
  <2> QED
    BY <2>1, <2>2
<1>5. \A q \in Callers : CallerIsSound(q)'
  BY <1>2 DEF CallerIsSound, OwnInv, TypeOK
<1>6. FilesAreOwn'
  BY <1>1 DEF FilesAreOwn, OwnInv, TypeOK, Slots, Spoilt
<1> QED
  BY <1>3, <1>4, <1>5, <1>6 DEF OwnInv

LEMMA OwnFillTra ==
  ASSUME OwnInv, NEW p \in Callers, FillTra(p)
  PROVE  OwnInv'
<1> USE DEF FillTra, FileStep, Goto
<1>1. /\ job[p] \in Jobs
      /\ Slot(p) = <<job[p].cuit, job[p].service>>
      /\ Slot(p) \in Slots
      /\ job[p].cuit \in Cuits /\ job[p].service \in Services
  BY SlotOfJob DEF OwnInv, CallerIsSound
<1>2. \E x \in {"sign"} : pc' = [pc EXCEPT ![p] = x]
  OBVIOUS
<1>3. TypeOK'
  BY <1>1, <1>2, TextTypes DEF OwnInv, TypeOK, Active, Renewing, Ended, fileVars, causeVars, clockVars
<1>4. \A q \in Callers : HandIsOwn(q)'
  <2> SUFFICES ASSUME NEW q \in Callers PROVE HandIsOwn(q)'
    OBVIOUS
  <2>1. CASE q = p
    BY <2>1, <1>2 DEF HandIsOwn, OwnInv, TypeOK
  <2>2. CASE q # p
    BY <2>2, <1>2, OwnFrame DEF OwnInv, TypeOK
  <2> QED
    BY <2>1, <2>2
<1>5. \A q \in Callers : CallerIsSound(q)'
  BY <1>2 DEF CallerIsSound, OwnInv, TypeOK
<1>6. FilesAreOwn'
  <2> SUFFICES ASSUME NEW c \in Cuits, NEW s \in Services
               PROVE  tra'[<<c, s>>] \in Spoilt \cup {Request(s)}
    BY DEF FilesAreOwn, OwnInv
  <2>1. CASE <<c, s>> = Slot(p)
    BY <1>1, <2>1 DEF OwnInv, FilesAreOwn, TypeOK, Slots
  <2>2. CASE <<c, s>> # Slot(p)
    BY <1>1, <2>2 DEF OwnInv, FilesAreOwn, TypeOK, Slots
  <2> QED
    BY <2>1, <2>2
<1> QED
  BY <1>3, <1>4, <1>5, <1>6 DEF OwnInv

LEMMA OwnSign ==
  ASSUME OwnInv, NEW p \in Callers, Sign(p)
  PROVE  OwnInv'
<1> USE DEF Sign, LoopStep, Goto, Hold
<1>1. /\ job[p] \in Jobs
      /\ Slot(p) = <<job[p].cuit, job[p].service>>
      /\ Slot(p) \in Slots
      /\ job[p].cuit \in Cuits /\ job[p].service \in Services
  BY SlotOfJob DEF OwnInv, CallerIsSound
<1>2. \E x \in {"signing"} : pc' = [pc EXCEPT ![p] = x]
  OBVIOUS
<1>3. TypeOK'
  <2>1. tra[Slot(p)] \in Spoilt \cup Requests
    BY <1>1 DEF OwnInv, TypeOK
  <2> QED
    BY <1>1, <1>2, <2>1 DEF OwnInv, TypeOK, Active, Renewing, Ended, fileVars, causeVars, clockVars, Spoilt
<1>4. \A q \in Callers : HandIsOwn(q)'
  <2> SUFFICES ASSUME NEW q \in Callers PROVE HandIsOwn(q)'
    OBVIOUS
  <2>1. CASE q = p
    <3>1. tra[Slot(p)] \in Spoilt \cup {Request(job[p].service)}
      BY <1>1 DEF OwnInv, FilesAreOwn
    <3> QED
      BY <3>1, <2>1, <1>2 DEF HandIsOwn, OwnInv, TypeOK
  <2>2. CASE q # p
    BY <2>2, <1>2, OwnFrame DEF OwnInv, TypeOK
  <2> QED
    BY <2>1, <2>2
<1>5. \A q \in Callers : CallerIsSound(q)'
  BY <1>2, NoCallerIsNone DEF CallerIsSound, OwnInv, TypeOK, LoopIsFree
<1>6. FilesAreOwn'
  BY <1>1 DEF FilesAreOwn, OwnInv, TypeOK, Slots, Spoilt
<1> QED
  BY <1>3, <1>4, <1>5, <1>6 DEF OwnInv

LEMMA OwnSignFails ==
  ASSUME OwnInv, NEW p \in Callers, SignFails(p)
  PROVE  OwnInv'
<1> USE DEF SignFails, LoopStep, Goto
<1>1. /\ job[p] \in Jobs
      /\ Slot(p) = <<job[p].cuit, job[p].service>>
      /\ Slot(p) \in Slots
      /\ job[p].cuit \in Cuits /\ job[p].service \in Services
  BY SlotOfJob DEF OwnInv, CallerIsSound
<1>2. \E x \in {"readTmp"} : pc' = [pc EXCEPT ![p] = x]
  OBVIOUS
<1>3. TypeOK'
  BY <1>1, <1>2 DEF OwnInv, TypeOK, Active, Renewing, Ended, fileVars, causeVars, clockVars, Spoilt
<1>4. \A q \in Callers : HandIsOwn(q)'
  <2> SUFFICES ASSUME NEW q \in Callers PROVE HandIsOwn(q)'
    OBVIOUS
  <2>1. CASE q = p
    BY <2>1, <1>2 DEF HandIsOwn, OwnInv, TypeOK
  <2>2. CASE q # p
    BY <2>2, <1>2, OwnFrame DEF OwnInv, TypeOK
  <2> QED
    BY <2>1, <2>2
<1>5. \A q \in Callers : CallerIsSound(q)'
  BY <1>2 DEF CallerIsSound, OwnInv, TypeOK
<1>6. FilesAreOwn'
  BY <1>1 DEF FilesAreOwn, OwnInv, TypeOK, Slots, Spoilt
<1> QED
  BY <1>3, <1>4, <1>5, <1>6 DEF OwnInv

LEMMA OwnReadTmp ==
  ASSUME OwnInv, NEW p \in Callers, ReadTmp(p)
  PROVE  OwnInv'
<1> USE DEF ReadTmp, FileStep, Goto, Hold, Fail
<1>1. /\ job[p] \in Jobs
      /\ Slot(p) = <<job[p].cuit, job[p].service>>
      /\ Slot(p) \in Slots
      /\ job[p].cuit \in Cuits /\ job[p].service \in Services
  BY SlotOfJob DEF OwnInv, CallerIsSound
<1>2. \E x \in {"unlink", "failed"} : pc' = [pc EXCEPT ![p] = x]
  OBVIOUS
<1>3. TypeOK'
  <2>1. tmp[Slot(p)] \in Spoilt \cup Signatures
    BY <1>1 DEF OwnInv, TypeOK
  <2> QED
    BY <1>1, <1>2, <2>1 DEF OwnInv, TypeOK, Active, Renewing, Ended, fileVars, causeVars, clockVars
<1>4. \A q \in Callers : HandIsOwn(q)'
  <2> SUFFICES ASSUME NEW q \in Callers PROVE HandIsOwn(q)'
    OBVIOUS
  <2>1. CASE q = p
    <3>1. tmp[Slot(p)] \in Spoilt \cup {Signed(job[p].cuit, job[p].service)}
      BY <1>1 DEF OwnInv, FilesAreOwn
    <3> QED
      BY <3>1, <2>1, <1>2 DEF HandIsOwn, OwnInv, TypeOK
  <2>2. CASE q # p
    BY <2>2, <1>2, OwnFrame DEF OwnInv, TypeOK
  <2> QED
    BY <2>1, <2>2
<1>5. \A q \in Callers : CallerIsSound(q)'
  BY <1>2 DEF CallerIsSound, OwnInv, TypeOK
<1>6. FilesAreOwn'
  BY FilesFrame DEF OwnInv, fileVars
<1> QED
  BY <1>3, <1>4, <1>5, <1>6 DEF OwnInv

LEMMA OwnUnlink ==
  ASSUME OwnInv, NEW p \in Callers, Unlink(p)
  PROVE  OwnInv'
<1> USE DEF Unlink, FileStep, Goto, Fail
<1>1. /\ job[p] \in Jobs
      /\ Slot(p) = <<job[p].cuit, job[p].service>>
      /\ Slot(p) \in Slots
      /\ job[p].cuit \in Cuits /\ job[p].service \in Services
  BY SlotOfJob DEF OwnInv, CallerIsSound
<1>2. \E x \in {"login", "failed"} : pc' = [pc EXCEPT ![p] = x]
  OBVIOUS
<1>3. TypeOK'
  BY <1>1, <1>2 DEF OwnInv, TypeOK, Active, Renewing, Ended, fileVars, causeVars, clockVars, Spoilt
<1>4. \A q \in Callers : HandIsOwn(q)'
  <2> SUFFICES ASSUME NEW q \in Callers PROVE HandIsOwn(q)'
    OBVIOUS
  <2>1. CASE q = p
    BY <2>1, <1>2 DEF HandIsOwn, OwnInv, TypeOK
  <2>2. CASE q # p
    BY <2>2, <1>2, OwnFrame DEF OwnInv, TypeOK
  <2> QED
    BY <2>1, <2>2
<1>5. \A q \in Callers : CallerIsSound(q)'
  BY <1>2 DEF CallerIsSound, OwnInv, TypeOK
<1>6. FilesAreOwn'
  <2>1. \A k \in Slots : tmp'[k] \in {tmp[k], Absent}
    BY <1>1 DEF OwnInv, TypeOK
  <2> QED
    BY <2>1 DEF FilesAreOwn, OwnInv, Slots, Spoilt
<1> QED
  BY <1>3, <1>4, <1>5, <1>6 DEF OwnInv

LEMMA OwnLogin ==
  ASSUME OwnInv, NEW p \in Callers, Login(p)
  PROVE  OwnInv'
<1> USE DEF Login, LoopStep, Goto, Hold
<1>1. /\ job[p] \in Jobs
      /\ Slot(p) = <<job[p].cuit, job[p].service>>
      /\ Slot(p) \in Slots
      /\ job[p].cuit \in Cuits /\ job[p].service \in Services
  BY SlotOfJob DEF OwnInv, CallerIsSound
<1>2. \E x \in {"truncTa"} : pc' = [pc EXCEPT ![p] = x]
  OBVIOUS
<1>3. TypeOK'
  <2>1. hand'[p] \in OwnTickets(job[p].cuit, job[p].service)
    <3>1. hand[p] = Signed(job[p].cuit, job[p].service)
      BY <1>1, WholeTexts DEF OwnInv, HandIsOwn
    <3>2. now + Life \in Ages
      BY TimesArePositive DEF OwnInv, TypeOK, Ages
    <3> QED
      BY <1>1, <3>1, <3>2, TextStates, TextTypes DEF OwnInv, TypeOK
  <2> QED
    BY <1>1, <1>2, <2>1, TextTypes DEF OwnInv, TypeOK, Active, Renewing, Ended, fileVars, causeVars, clockVars
<1>4. \A q \in Callers : HandIsOwn(q)'
  <2> SUFFICES ASSUME NEW q \in Callers PROVE HandIsOwn(q)'
    OBVIOUS
  <2>1. CASE q = p
    <3>1. hand[p] = Signed(job[p].cuit, job[p].service)
      BY <1>1, WholeTexts DEF OwnInv, HandIsOwn
    <3>2. now + Life \in Ages
      BY TimesArePositive DEF OwnInv, TypeOK, Ages
    <3>3. hand'[p] \in OwnTickets(job[p].cuit, job[p].service)
      BY <1>1, <3>1, <3>2, TextStates, TextTypes DEF OwnInv, TypeOK
    <3> QED
      BY <3>3, <2>1, <1>2 DEF HandIsOwn, OwnInv, TypeOK
  <2>2. CASE q # p
    BY <2>2, <1>2, OwnFrame DEF OwnInv, TypeOK
  <2> QED
    BY <2>1, <2>2
<1>5. \A q \in Callers : CallerIsSound(q)'
  BY <1>2 DEF CallerIsSound, OwnInv, TypeOK
<1>6. FilesAreOwn'
  BY FilesFrame DEF OwnInv, fileVars
<1> QED
  BY <1>3, <1>4, <1>5, <1>6 DEF OwnInv

LEMMA OwnLoginFails ==
  ASSUME OwnInv, NEW p \in Callers, LoginFails(p)
  PROVE  OwnInv'
<1> USE DEF LoginFails, LoopStep, Goto, Fail
<1>1. /\ job[p] \in Jobs
      /\ Slot(p) = <<job[p].cuit, job[p].service>>
      /\ Slot(p) \in Slots
      /\ job[p].cuit \in Cuits /\ job[p].service \in Services
  BY SlotOfJob DEF OwnInv, CallerIsSound
<1>2. \E x \in {"failed"} : pc' = [pc EXCEPT ![p] = x]
  OBVIOUS
<1>3. TypeOK'
  BY <1>1, <1>2 DEF OwnInv, TypeOK, Active, Renewing, Ended, fileVars, causeVars, clockVars
<1>4. \A q \in Callers : HandIsOwn(q)'
  <2> SUFFICES ASSUME NEW q \in Callers PROVE HandIsOwn(q)'
    OBVIOUS
  <2>1. CASE q = p
    BY <2>1, <1>2 DEF HandIsOwn, OwnInv, TypeOK
  <2>2. CASE q # p
    BY <2>2, <1>2, OwnFrame DEF OwnInv, TypeOK
  <2> QED
    BY <2>1, <2>2
<1>5. \A q \in Callers : CallerIsSound(q)'
  BY <1>2 DEF CallerIsSound, OwnInv, TypeOK
<1>6. FilesAreOwn'
  BY FilesFrame DEF OwnInv, fileVars
<1> QED
  BY <1>3, <1>4, <1>5, <1>6 DEF OwnInv

LEMMA OwnLoginBlank ==
  ASSUME OwnInv, NEW p \in Callers, LoginBlank(p)
  PROVE  OwnInv'
<1> USE DEF LoginBlank, LoopStep, Goto, Hold
<1>1. /\ job[p] \in Jobs
      /\ Slot(p) = <<job[p].cuit, job[p].service>>
      /\ Slot(p) \in Slots
      /\ job[p].cuit \in Cuits /\ job[p].service \in Services
  BY SlotOfJob DEF OwnInv, CallerIsSound
<1>2. \E x \in {"truncTa"} : pc' = [pc EXCEPT ![p] = x]
  OBVIOUS
<1>3. TypeOK'
  BY <1>1, <1>2 DEF OwnInv, TypeOK, Active, Renewing, Ended, fileVars, causeVars, clockVars, Spoilt
<1>4. \A q \in Callers : HandIsOwn(q)'
  <2> SUFFICES ASSUME NEW q \in Callers PROVE HandIsOwn(q)'
    OBVIOUS
  <2>1. CASE q = p
    BY <2>1, <1>2 DEF HandIsOwn, OwnInv, TypeOK
  <2>2. CASE q # p
    BY <2>2, <1>2, OwnFrame DEF OwnInv, TypeOK
  <2> QED
    BY <2>1, <2>2
<1>5. \A q \in Callers : CallerIsSound(q)'
  BY <1>2 DEF CallerIsSound, OwnInv, TypeOK
<1>6. FilesAreOwn'
  BY FilesFrame DEF OwnInv, fileVars
<1> QED
  BY <1>3, <1>4, <1>5, <1>6 DEF OwnInv

LEMMA OwnTruncTa ==
  ASSUME OwnInv, NEW p \in Callers, TruncTa(p)
  PROVE  OwnInv'
<1> USE DEF TruncTa, FileStep, Goto
<1>1. /\ job[p] \in Jobs
      /\ Slot(p) = <<job[p].cuit, job[p].service>>
      /\ Slot(p) \in Slots
      /\ job[p].cuit \in Cuits /\ job[p].service \in Services
  BY SlotOfJob DEF OwnInv, CallerIsSound
<1>2. \E x \in {"fillTa"} : pc' = [pc EXCEPT ![p] = x]
  OBVIOUS
<1>3. TypeOK'
  BY <1>1, <1>2 DEF OwnInv, TypeOK, Active, Renewing, Ended, fileVars, causeVars, clockVars, Spoilt
<1>4. \A q \in Callers : HandIsOwn(q)'
  <2> SUFFICES ASSUME NEW q \in Callers PROVE HandIsOwn(q)'
    OBVIOUS
  <2>1. CASE q = p
    BY <2>1, <1>2 DEF HandIsOwn, OwnInv, TypeOK
  <2>2. CASE q # p
    BY <2>2, <1>2, OwnFrame DEF OwnInv, TypeOK
  <2> QED
    BY <2>1, <2>2
<1>5. \A q \in Callers : CallerIsSound(q)'
  BY <1>2 DEF CallerIsSound, OwnInv, TypeOK
<1>6. FilesAreOwn'
  BY <1>1 DEF FilesAreOwn, OwnInv, TypeOK, Slots, Spoilt
<1> QED
  BY <1>3, <1>4, <1>5, <1>6 DEF OwnInv

LEMMA OwnFillTa ==
  ASSUME OwnInv, NEW p \in Callers, FillTa(p)
  PROVE  OwnInv'
<1> USE DEF FillTa, FileStep, Goto
<1>1. /\ job[p] \in Jobs
      /\ Slot(p) = <<job[p].cuit, job[p].service>>
      /\ Slot(p) \in Slots
      /\ job[p].cuit \in Cuits /\ job[p].service \in Services
  BY SlotOfJob DEF OwnInv, CallerIsSound
<1>2. \E x \in {"take"} : pc' = [pc EXCEPT ![p] = x]
  OBVIOUS
<1>3. TypeOK'
  <2>1. Written(p) \subseteq Spoilt \cup OwnTickets(job[p].cuit, job[p].service)
    BY DEF OwnInv, HandIsOwn, Written, Spoilt
  <2>2. Written(p) \subseteq Spoilt \cup Tickets
    BY <1>1, <2>1, TextTypes
  <2>3. overdue' \in SUBSET Callers
    BY DEF OwnInv, TypeOK, Others
  <2> QED
    BY <1>1, <1>2, <2>2, <2>3 DEF OwnInv, TypeOK, Active, Renewing, Ended, fileVars, causeVars, clockVars
<1>4. \A q \in Callers : HandIsOwn(q)'
  <2> SUFFICES ASSUME NEW q \in Callers PROVE HandIsOwn(q)'
    OBVIOUS
  <2>1. CASE q = p
    BY <2>1, <1>2 DEF HandIsOwn, OwnInv, TypeOK
  <2>2. CASE q # p
    BY <2>2, <1>2, OwnFrame DEF OwnInv, TypeOK
  <2> QED
    BY <2>1, <2>2
<1>5. \A q \in Callers : CallerIsSound(q)'
  BY <1>2 DEF CallerIsSound, OwnInv, TypeOK
<1>6. FilesAreOwn'
  <2>1. Written(p) \subseteq Spoilt \cup OwnTickets(job[p].cuit, job[p].service)
    BY DEF OwnInv, HandIsOwn, Written, Spoilt
  <2> SUFFICES ASSUME NEW c \in Cuits, NEW s \in Services
               PROVE  ta'[<<c, s>>] \in Spoilt \cup OwnTickets(c, s)
    BY DEF FilesAreOwn, OwnInv
  <2>2. CASE <<c, s>> = Slot(p)
    BY <1>1, <2>1, <2>2 DEF OwnInv, FilesAreOwn, TypeOK, Slots
  <2>3. CASE <<c, s>> # Slot(p)
    BY <1>1, <2>3 DEF OwnInv, FilesAreOwn, TypeOK, Slots
  <2> QED
    BY <2>2, <2>3
<1> QED
  BY <1>3, <1>4, <1>5, <1>6 DEF OwnInv

LEMMA OwnTake ==
  ASSUME OwnInv, NEW p \in Callers, Take(p)
  PROVE  OwnInv'
<1> USE DEF Take, FileStep, Goto, Hold, Fail
<1>1. /\ job[p] \in Jobs
      /\ Slot(p) = <<job[p].cuit, job[p].service>>
      /\ Slot(p) \in Slots
      /\ job[p].cuit \in Cuits /\ job[p].service \in Services
  BY SlotOfJob DEF OwnInv, CallerIsSound
<1>2. \E x \in {"done", "failed"} : pc' = [pc EXCEPT ![p] = x]
  OBVIOUS
<1>3. TypeOK'
  <2>1. ta[Slot(p)] \in Spoilt \cup Tickets
    BY <1>1 DEF OwnInv, TypeOK
  <2> QED
    BY <1>1, <1>2, <2>1 DEF OwnInv, TypeOK, Active, Renewing, Ended, fileVars, causeVars, clockVars
<1>4. \A q \in Callers : HandIsOwn(q)'
  <2> SUFFICES ASSUME NEW q \in Callers PROVE HandIsOwn(q)'
    OBVIOUS
  <2>1. CASE q = p
    <3>1. ta[Slot(p)] \in Spoilt \cup OwnTickets(job[p].cuit, job[p].service)
      BY <1>1 DEF OwnInv, FilesAreOwn
    <3>2. pc'[p] = "done" => hand'[p] \in OwnTickets(job[p].cuit, job[p].service)
      BY <1>1, <1>2, <3>1, WholeTexts DEF OwnInv, TypeOK
    <3> QED
      BY <3>2, <2>1, <1>2 DEF HandIsOwn, OwnInv, TypeOK
  <2>2. CASE q # p
    BY <2>2, <1>2, OwnFrame DEF OwnInv, TypeOK
  <2> QED
    BY <2>1, <2>2
<1>5. \A q \in Callers : CallerIsSound(q)'
  BY <1>2 DEF CallerIsSound, OwnInv, TypeOK
<1>6. FilesAreOwn'
  BY FilesFrame DEF OwnInv, fileVars
<1> QED
  BY <1>3, <1>4, <1>5, <1>6 DEF OwnInv

\* The one step of the renewal that gives the event loop back.
LEMMA OwnSignEnds ==
  ASSUME OwnInv, NEW p \in Callers, SignEnds(p)
  PROVE  OwnInv'
<1> USE DEF SignEnds, Goto, Hold
<1>1. /\ pc[p] = "signing"
      /\ job[p] \in Jobs
      /\ Slot(p) = <<job[p].cuit, job[p].service>>
      /\ Slot(p) \in Slots
      /\ job[p].cuit \in Cuits /\ job[p].service \in Services
  BY SlotOfJob DEF OwnInv, CallerIsSound
<1>2. Signature(p) \in Spoilt \cup {Signed(job[p].cuit, job[p].service)}
  <2>1. CASE hand[p].state = "whole"
    <3>1. hand[p] = Request(job[p].service)
      BY <1>1, <2>1, WholeTexts DEF OwnInv, HandIsOwn
    <3> QED
      BY <2>1, <3>1, TextStates DEF Signature
  <2>2. CASE hand[p].state # "whole"
    BY <2>2 DEF Signature, Spoilt
  <2> QED
    BY <2>1, <2>2
<1>3. \A k \in Slots : tmp'[k] \in {tmp[k]} \cup (IF k = Slot(p) THEN {Absent, Signature(p)} ELSE {})
  BY <1>1 DEF OwnInv, TypeOK
<1>4. tmp' \in [Slots -> Spoilt \cup Signatures]
  <2>1. Signature(p) \in Spoilt \cup Signatures
    BY <1>1, <1>2, TextTypes
  <2>2. Absent \in Spoilt
    BY DEF Spoilt
  <2> QED
    BY <1>1, <2>1, <2>2 DEF OwnInv, TypeOK
<1>5. TypeOK'
  BY <1>1, <1>4 DEF OwnInv, TypeOK, Active, Renewing, Ended, Spoilt, causeVars, clockVars
<1>6. \A q \in Callers : HandIsOwn(q)'
  <2> SUFFICES ASSUME NEW q \in Callers PROVE HandIsOwn(q)'
    OBVIOUS
  <2>1. CASE q = p
    BY <2>1 DEF HandIsOwn, OwnInv, TypeOK
  <2>2. CASE q # p
    BY <2>2, OwnFrame DEF OwnInv, TypeOK
  <2> QED
    BY <2>1, <2>2
<1>7. \A q \in Callers : CallerIsSound(q)'
  BY <1>1, NoCallerIsNone DEF CallerIsSound, OwnInv, TypeOK
<1>8. FilesAreOwn'
  <2> SUFFICES ASSUME NEW c \in Cuits, NEW s \in Services
               PROVE  tmp'[<<c, s>>] \in Spoilt \cup {Signed(c, s)}
    BY DEF FilesAreOwn, OwnInv
  <2>1. CASE <<c, s>> = Slot(p)
    BY <1>1, <1>2, <1>3, <2>1 DEF OwnInv, FilesAreOwn, Slots, Spoilt
  <2>2. CASE <<c, s>> # Slot(p)
    BY <1>3, <2>2 DEF OwnInv, FilesAreOwn, Slots
  <2> QED
    BY <2>1, <2>2
<1> QED
  BY <1>5, <1>6, <1>7, <1>8 DEF OwnInv

LEMMA OwnCrash ==
  ASSUME OwnInv, Crash
  PROVE  OwnInv'
<1> USE DEF Crash
<1>1. TypeOK'
  BY TimesArePositive DEF OwnInv, TypeOK, Ended, fileVars, causeVars
<1>2. \A q \in Callers : HandIsOwn(q)'
  BY DEF HandIsOwn, OwnInv, TypeOK, Active, Renewing
<1>3. \A q \in Callers : CallerIsSound(q)'
  BY NoCallerIsNone DEF CallerIsSound, OwnInv, TypeOK, Active, Renewing
<1>4. FilesAreOwn'
  BY FilesFrame DEF OwnInv
<1> QED
  BY <1>1, <1>2, <1>3, <1>4 DEF OwnInv

LEMMA OwnStill ==
  ASSUME OwnInv, Tick \/ UNCHANGED vars
  PROVE  OwnInv'
<1>1. TypeOK'
  BY TimesArePositive DEF OwnInv, TypeOK, Tick, vars, fileVars, causeVars, clockVars
<1>2. /\ \A q \in Callers : HandIsOwn(q)' /\ CallerIsSound(q)'
      /\ FilesAreOwn'
  BY DEF OwnInv, HandIsOwn, CallerIsSound, FilesAreOwn, Tick, vars, fileVars
<1> QED
  BY <1>1, <1>2 DEF OwnInv

LEMMA OwnNext == OwnInv /\ [Next]_vars => OwnInv'
<1> SUFFICES ASSUME OwnInv, [Next]_vars PROVE OwnInv'
  OBVIOUS
<1>1. ASSUME NEW p \in Callers, Renew(p) PROVE OwnInv'
  BY <1>1, OwnTruncTra, OwnFillTra, OwnSign, OwnSignEnds, OwnSignFails, OwnReadTmp,
     OwnUnlink, OwnLogin, OwnLoginFails, OwnLoginBlank, OwnTruncTa, OwnFillTa DEF Renew
<1>2. ASSUME NEW p \in Callers, Arrive(p) \/ Work(p) PROVE OwnInv'
  BY <1>1, <1>2, OwnArrive, OwnCheck, OwnTake DEF Work
<1> QED
  BY <1>2, OwnCrash, OwnStill DEF Next

\* The type invariant of Wsaa.
THEOREM TicketTypesAreKept == Spec => []TypeOK
<1>1. OwnInv => TypeOK
  BY DEF OwnInv
<1> QED
  BY <1>1, OwnInit, OwnNext, PTL DEF Spec

\* No interleaving, crash or failing openssl brings the ticket of another
\* CUIT or of the other service into the hands of a handler.
THEOREM TicketsAreGenuine == Spec => []TicketIsGenuine
<1>1. OwnInv => TicketIsGenuine
  <2> SUFFICES ASSUME OwnInv, NEW p \in Callers, pc[p] = "done"
               PROVE  /\ hand[p] \in Tickets
                      /\ hand[p].cuit = job[p].cuit
                      /\ hand[p].service = job[p].service
    BY DEF TicketIsGenuine
  <2>1. job[p] \in Jobs /\ hand[p] \in OwnTickets(job[p].cuit, job[p].service)
    BY DEF OwnInv, HandIsOwn, CallerIsSound
  <2> QED
    BY <2>1, SlotOfJob, TextTypes, TextStates DEF OwnTickets
<1> QED
  BY <1>1, OwnInit, OwnNext, PTL DEF Spec
-----------------------------------------------------------------------------
(* LoneInv: callers that overlap no renewal by another one. *)

\* Nobody else renews the ticket of an undisturbed caller.
KeepsApart ==
  \A p, q \in Callers :
    pc[p] \in Active /\ p \notin disturbed /\ q # p /\ pc[q] \in Renewing => Slot(q) # Slot(p)

\* Undisturbed, a caller finds in its files and its hand what it has put
\* there, unless openssl or WSAA has failed it.
FindsItsOwn(p) ==
  p \notin disturbed =>
    /\ pc[p] = "failed" => p \in refused
    /\ pc[p] = "fillTa" => ta[Slot(p)] = Empty
    /\ p \notin refused =>
         /\ pc[p] = "sign" => tra[Slot(p)].state = "whole"
         /\ pc[p] = "signing" => hand[p].state = "whole" /\ tmp[Slot(p)] # Absent
         /\ pc[p] = "readTmp" => tmp[Slot(p)].state = "whole"
         /\ pc[p] = "unlink" => hand[p].state = "whole" /\ tmp[Slot(p)] # Absent
         /\ pc[p] \in {"login", "truncTa", "fillTa"} => hand[p].state = "whole"
         /\ pc[p] = "take" => ta[Slot(p)].state = "whole"

LoneInv ==
  /\ KeepsApart
  /\ \A p \in Callers : FindsItsOwn(p)

LEMMA LoneInit == Init => LoneInv
BY DEF Init, LoneInv, KeepsApart, FindsItsOwn, Active, Renewing

\* Nobody begins anything: whoever was apart stays apart.
LEMMA ApartFrame ==
  ASSUME KeepsApart, job' = job, disturbed' = disturbed,
         \A q \in Callers : /\ pc'[q] \in Renewing => pc[q] \in Renewing
                            /\ pc'[q] \in Active => pc[q] \in Active
  PROVE  KeepsApart'
BY DEF KeepsApart, Slot, FilesFor

\* A step of p does not reach the files of a caller that p does not disturb.
LEMMA LoneFrame ==
  ASSUME NEW p \in Callers, NEW q \in Callers, FindsItsOwn(q),
         pc'[q] = pc[q], hand'[q] = hand[q], job'[q] = job[q],
         disturbed \subseteq disturbed', q \in refused' <=> q \in refused,
         pc[q] \in Active /\ q \notin disturbed' =>
           /\ ta'[Slot(q)] = ta[Slot(q)]
           /\ tra'[Slot(q)] = tra[Slot(q)]
           /\ tmp'[Slot(q)] = tmp[Slot(q)]
  PROVE  FindsItsOwn(q)'
<1>1. Slot(q)' = Slot(q)
  BY DEF Slot, FilesFor
<1> QED
  BY <1>1 DEF FindsItsOwn, Active, Renewing

LEMMA Elsewhere ==
  ASSUME LoneInv, OwnInv, NEW p \in Callers, NEW q \in Callers, q # p,
         pc[p] \in Renewing, pc[q] \in Active, q \notin disturbed
  PROVE  Slot(p) \in Slots /\ Slot(q) \in Slots /\ Slot(q) # Slot(p)
<1>1. job[p] \in Jobs /\ job[q] \in Jobs
  BY DEF OwnInv, CallerIsSound, Active, Renewing
<1> QED
  BY <1>1, SlotOfJob DEF LoneInv, KeepsApart

LEMMA LoneTruncTra ==
  ASSUME OwnInv, LoneInv, NEW p \in Callers, TruncTra(p)
  PROVE  LoneInv'
<1> USE DEF TruncTra, FileStep, Goto
<1>1. job[p] \in Jobs /\ Slot(p) \in Slots /\ Slot(p)' = Slot(p)
  BY SlotOfJob DEF OwnInv, CallerIsSound, Slot, FilesFor
<1>2. PICK x \in {"fillTra"} : pc' = [pc EXCEPT ![p] = x]
  OBVIOUS
<1>3. KeepsApart'
  <2>1. \A q \in Callers : /\ pc'[q] \in Renewing => pc[q] \in Renewing
                           /\ pc'[q] \in Active => pc[q] \in Active
    BY <1>1, <1>2 DEF OwnInv, TypeOK, Active, Renewing
  <2>2. KeepsApart /\ job' = job /\ disturbed' = disturbed
    BY DEF LoneInv, causeVars
  <2> QED
    BY <2>1, <2>2, ApartFrame
<1>4. FindsItsOwn(p)'
  BY <1>1, <1>2, TextStates, TimesArePositive DEF LoneInv, FindsItsOwn, OwnInv, TypeOK, Active, Renewing, fileVars, causeVars, clockVars
<1>5. \A q \in Callers : FindsItsOwn(q)'
  <2> SUFFICES ASSUME NEW q \in Callers PROVE FindsItsOwn(q)'
    OBVIOUS
  <2>1. CASE q = p
    BY <2>1, <1>4
  <2>2. CASE q # p
    BY <2>2, <1>1, <1>2, Elsewhere, LoneFrame DEF LoneInv, OwnInv, TypeOK, fileVars, causeVars, clockVars, Renewing
  <2> QED
    BY <2>1, <2>2
<1> QED
  BY <1>3, <1>5 DEF LoneInv

LEMMA LoneFillTra ==
  ASSUME OwnInv, LoneInv, NEW p \in Callers, FillTra(p)
  PROVE  LoneInv'
<1> USE DEF FillTra, FileStep, Goto
<1>1. job[p] \in Jobs /\ Slot(p) \in Slots /\ Slot(p)' = Slot(p)
  BY SlotOfJob DEF OwnInv, CallerIsSound, Slot, FilesFor
<1>2. PICK x \in {"sign"} : pc' = [pc EXCEPT ![p] = x]
  OBVIOUS
<1>3. KeepsApart'
  <2>1. \A q \in Callers : /\ pc'[q] \in Renewing => pc[q] \in Renewing
                           /\ pc'[q] \in Active => pc[q] \in Active
    BY <1>1, <1>2 DEF OwnInv, TypeOK, Active, Renewing
  <2>2. KeepsApart /\ job' = job /\ disturbed' = disturbed
    BY DEF LoneInv, causeVars
  <2> QED
    BY <2>1, <2>2, ApartFrame
<1>4. FindsItsOwn(p)'
  BY <1>1, <1>2, TextStates, TimesArePositive DEF LoneInv, FindsItsOwn, OwnInv, TypeOK, Active, Renewing, fileVars, causeVars, clockVars
<1>5. \A q \in Callers : FindsItsOwn(q)'
  <2> SUFFICES ASSUME NEW q \in Callers PROVE FindsItsOwn(q)'
    OBVIOUS
  <2>1. CASE q = p
    BY <2>1, <1>4
  <2>2. CASE q # p
    BY <2>2, <1>1, <1>2, Elsewhere, LoneFrame DEF LoneInv, OwnInv, TypeOK, fileVars, causeVars, clockVars, Renewing
  <2> QED
    BY <2>1, <2>2
<1> QED
  BY <1>3, <1>5 DEF LoneInv

LEMMA LoneSign ==
  ASSUME OwnInv, LoneInv, NEW p \in Callers, Sign(p)
  PROVE  LoneInv'
<1> USE DEF Sign, LoopStep, Goto, Hold
<1>1. job[p] \in Jobs /\ Slot(p) \in Slots /\ Slot(p)' = Slot(p)
  BY SlotOfJob DEF OwnInv, CallerIsSound, Slot, FilesFor
<1>2. PICK x \in {"signing"} : pc' = [pc EXCEPT ![p] = x]
  OBVIOUS
<1>3. KeepsApart'
  <2>1. \A q \in Callers : /\ pc'[q] \in Renewing => pc[q] \in Renewing
                           /\ pc'[q] \in Active => pc[q] \in Active
    BY <1>1, <1>2 DEF OwnInv, TypeOK, Active, Renewing
  <2>2. KeepsApart /\ job' = job /\ disturbed' = disturbed
    BY DEF LoneInv, causeVars
  <2> QED
    BY <2>1, <2>2, ApartFrame
<1>4. FindsItsOwn(p)'
  BY <1>1, <1>2, TextStates, TimesArePositive DEF LoneInv, FindsItsOwn, OwnInv, TypeOK, Active, Renewing, fileVars, causeVars, clockVars
<1>5. \A q \in Callers : FindsItsOwn(q)'
  <2> SUFFICES ASSUME NEW q \in Callers PROVE FindsItsOwn(q)'
    OBVIOUS
  <2>1. CASE q = p
    BY <2>1, <1>4
  <2>2. CASE q # p
    BY <2>2, <1>1, <1>2, Elsewhere, LoneFrame DEF LoneInv, OwnInv, TypeOK, fileVars, causeVars, clockVars, Renewing
  <2> QED
    BY <2>1, <2>2
<1> QED
  BY <1>3, <1>5 DEF LoneInv

LEMMA LoneSignEnds ==
  ASSUME OwnInv, LoneInv, NEW p \in Callers, SignEnds(p)
  PROVE  LoneInv'
<1> USE DEF SignEnds, Goto, Hold, Signature
<1>1. pc[p] = "signing" /\ job[p] \in Jobs /\ Slot(p) \in Slots /\ Slot(p)' = Slot(p)
  BY SlotOfJob DEF OwnInv, CallerIsSound, Slot, FilesFor
<1>2. PICK x \in {"readTmp"} : pc' = [pc EXCEPT ![p] = x]
  OBVIOUS
<1>3. KeepsApart'
  <2>1. \A q \in Callers : /\ pc'[q] \in Renewing => pc[q] \in Renewing
                           /\ pc'[q] \in Active => pc[q] \in Active
    BY <1>1, <1>2 DEF OwnInv, TypeOK, Active, Renewing
  <2>2. KeepsApart /\ job' = job /\ disturbed' = disturbed
    BY DEF LoneInv, causeVars
  <2> QED
    BY <2>1, <2>2, ApartFrame
<1>4. FindsItsOwn(p)'
  BY <1>1, <1>2, TextStates, TimesArePositive DEF LoneInv, FindsItsOwn, OwnInv, TypeOK, Active, Renewing, fileVars, causeVars, clockVars
<1>5. \A q \in Callers : FindsItsOwn(q)'
  <2> SUFFICES ASSUME NEW q \in Callers PROVE FindsItsOwn(q)'
    OBVIOUS
  <2>1. CASE q = p
    BY <2>1, <1>4
  <2>2. CASE q # p
    BY <2>2, <1>1, <1>2, Elsewhere, LoneFrame DEF LoneInv, OwnInv, TypeOK, fileVars, causeVars, clockVars, Renewing
  <2> QED
    BY <2>1, <2>2
<1> QED
  BY <1>3, <1>5 DEF LoneInv

LEMMA LoneSignFails ==
  ASSUME OwnInv, LoneInv, NEW p \in Callers, SignFails(p)
  PROVE  LoneInv'
<1> USE DEF SignFails, LoopStep, Goto
<1>1. job[p] \in Jobs /\ Slot(p) \in Slots /\ Slot(p)' = Slot(p)
  BY SlotOfJob DEF OwnInv, CallerIsSound, Slot, FilesFor
<1>2. PICK x \in {"readTmp"} : pc' = [pc EXCEPT ![p] = x]
  OBVIOUS
<1>3. KeepsApart'
  <2>1. \A q \in Callers : /\ pc'[q] \in Renewing => pc[q] \in Renewing
                           /\ pc'[q] \in Active => pc[q] \in Active
    BY <1>1, <1>2 DEF OwnInv, TypeOK, Active, Renewing
  <2>2. KeepsApart /\ job' = job /\ disturbed' = disturbed
    BY DEF LoneInv, causeVars
  <2> QED
    BY <2>1, <2>2, ApartFrame
<1>4. FindsItsOwn(p)'
  BY <1>1, <1>2, TextStates, TimesArePositive DEF LoneInv, FindsItsOwn, OwnInv, TypeOK, Active, Renewing, fileVars, causeVars, clockVars
<1>5. \A q \in Callers : FindsItsOwn(q)'
  <2> SUFFICES ASSUME NEW q \in Callers PROVE FindsItsOwn(q)'
    OBVIOUS
  <2>1. CASE q = p
    BY <2>1, <1>4
  <2>2. CASE q # p
    BY <2>2, <1>1, <1>2, Elsewhere, LoneFrame DEF LoneInv, OwnInv, TypeOK, fileVars, causeVars, clockVars, Renewing
  <2> QED
    BY <2>1, <2>2
<1> QED
  BY <1>3, <1>5 DEF LoneInv

LEMMA LoneReadTmp ==
  ASSUME OwnInv, LoneInv, NEW p \in Callers, ReadTmp(p)
  PROVE  LoneInv'
<1> USE DEF ReadTmp, FileStep, Goto, Hold, Fail
<1>1. job[p] \in Jobs /\ Slot(p) \in Slots /\ Slot(p)' = Slot(p)
  BY SlotOfJob DEF OwnInv, CallerIsSound, Slot, FilesFor
<1>2. PICK x \in {"unlink", "failed"} : pc' = [pc EXCEPT ![p] = x]
  OBVIOUS
<1>3. KeepsApart'
  <2>1. \A q \in Callers : /\ pc'[q] \in Renewing => pc[q] \in Renewing
                           /\ pc'[q] \in Active => pc[q] \in Active
    BY <1>1, <1>2 DEF OwnInv, TypeOK, Active, Renewing
  <2>2. KeepsApart /\ job' = job /\ disturbed' = disturbed
    BY DEF LoneInv, causeVars
  <2> QED
    BY <2>1, <2>2, ApartFrame
<1>4. FindsItsOwn(p)'
  BY <1>1, <1>2, TextStates, TimesArePositive DEF LoneInv, FindsItsOwn, OwnInv, TypeOK, Active, Renewing, fileVars, causeVars, clockVars
<1>5. \A q \in Callers : FindsItsOwn(q)'
  <2> SUFFICES ASSUME NEW q \in Callers PROVE FindsItsOwn(q)'
    OBVIOUS
  <2>1. CASE q = p
    BY <2>1, <1>4
  <2>2. CASE q # p
    BY <2>2, <1>1, <1>2, Elsewhere, LoneFrame DEF LoneInv, OwnInv, TypeOK, fileVars, causeVars, clockVars, Renewing
  <2> QED
    BY <2>1, <2>2
<1> QED
  BY <1>3, <1>5 DEF LoneInv

LEMMA LoneUnlink ==
  ASSUME OwnInv, LoneInv, NEW p \in Callers, Unlink(p)
  PROVE  LoneInv'
<1> USE DEF Unlink, FileStep, Goto, Fail
<1>1. job[p] \in Jobs /\ Slot(p) \in Slots /\ Slot(p)' = Slot(p)
  BY SlotOfJob DEF OwnInv, CallerIsSound, Slot, FilesFor
<1>2. PICK x \in {"login", "failed"} : pc' = [pc EXCEPT ![p] = x]
  OBVIOUS
<1>3. KeepsApart'
  <2>1. \A q \in Callers : /\ pc'[q] \in Renewing => pc[q] \in Renewing
                           /\ pc'[q] \in Active => pc[q] \in Active
    BY <1>1, <1>2 DEF OwnInv, TypeOK, Active, Renewing
  <2>2. KeepsApart /\ job' = job /\ disturbed' = disturbed
    BY DEF LoneInv, causeVars
  <2> QED
    BY <2>1, <2>2, ApartFrame
<1>4. FindsItsOwn(p)'
  BY <1>1, <1>2, TextStates, TimesArePositive DEF LoneInv, FindsItsOwn, OwnInv, TypeOK, Active, Renewing, fileVars, causeVars, clockVars
<1>5. \A q \in Callers : FindsItsOwn(q)'
  <2> SUFFICES ASSUME NEW q \in Callers PROVE FindsItsOwn(q)'
    OBVIOUS
  <2>1. CASE q = p
    BY <2>1, <1>4
  <2>2. CASE q # p
    BY <2>2, <1>1, <1>2, Elsewhere, LoneFrame DEF LoneInv, OwnInv, TypeOK, fileVars, causeVars, clockVars, Renewing
  <2> QED
    BY <2>1, <2>2
<1> QED
  BY <1>3, <1>5 DEF LoneInv

LEMMA LoneLogin ==
  ASSUME OwnInv, LoneInv, NEW p \in Callers, Login(p)
  PROVE  LoneInv'
<1> USE DEF Login, LoopStep, Goto, Hold
<1>1. job[p] \in Jobs /\ Slot(p) \in Slots /\ Slot(p)' = Slot(p)
  BY SlotOfJob DEF OwnInv, CallerIsSound, Slot, FilesFor
<1>2. PICK x \in {"truncTa"} : pc' = [pc EXCEPT ![p] = x]
  OBVIOUS
<1>3. KeepsApart'
  <2>1. \A q \in Callers : /\ pc'[q] \in Renewing => pc[q] \in Renewing
                           /\ pc'[q] \in Active => pc[q] \in Active
    BY <1>1, <1>2 DEF OwnInv, TypeOK, Active, Renewing
  <2>2. KeepsApart /\ job' = job /\ disturbed' = disturbed
    BY DEF LoneInv, causeVars
  <2> QED
    BY <2>1, <2>2, ApartFrame
<1>4. FindsItsOwn(p)'
  BY <1>1, <1>2, TextStates, TimesArePositive DEF LoneInv, FindsItsOwn, OwnInv, TypeOK, Active, Renewing, fileVars, causeVars, clockVars
<1>5. \A q \in Callers : FindsItsOwn(q)'
  <2> SUFFICES ASSUME NEW q \in Callers PROVE FindsItsOwn(q)'
    OBVIOUS
  <2>1. CASE q = p
    BY <2>1, <1>4
  <2>2. CASE q # p
    BY <2>2, <1>1, <1>2, Elsewhere, LoneFrame DEF LoneInv, OwnInv, TypeOK, fileVars, causeVars, clockVars, Renewing
  <2> QED
    BY <2>1, <2>2
<1> QED
  BY <1>3, <1>5 DEF LoneInv

LEMMA LoneLoginFails ==
  ASSUME OwnInv, LoneInv, NEW p \in Callers, LoginFails(p)
  PROVE  LoneInv'
<1> USE DEF LoginFails, LoopStep, Goto, Fail
<1>1. job[p] \in Jobs /\ Slot(p) \in Slots /\ Slot(p)' = Slot(p)
  BY SlotOfJob DEF OwnInv, CallerIsSound, Slot, FilesFor
<1>2. PICK x \in {"failed"} : pc' = [pc EXCEPT ![p] = x]
  OBVIOUS
<1>3. KeepsApart'
  <2>1. \A q \in Callers : /\ pc'[q] \in Renewing => pc[q] \in Renewing
                           /\ pc'[q] \in Active => pc[q] \in Active
    BY <1>1, <1>2 DEF OwnInv, TypeOK, Active, Renewing
  <2>2. KeepsApart /\ job' = job /\ disturbed' = disturbed
    BY DEF LoneInv, causeVars
  <2> QED
    BY <2>1, <2>2, ApartFrame
<1>4. FindsItsOwn(p)'
  BY <1>1, <1>2, TextStates, TimesArePositive DEF LoneInv, FindsItsOwn, OwnInv, TypeOK, Active, Renewing, fileVars, causeVars, clockVars
<1>5. \A q \in Callers : FindsItsOwn(q)'
  <2> SUFFICES ASSUME NEW q \in Callers PROVE FindsItsOwn(q)'
    OBVIOUS
  <2>1. CASE q = p
    BY <2>1, <1>4
  <2>2. CASE q # p
    BY <2>2, <1>1, <1>2, Elsewhere, LoneFrame DEF LoneInv, OwnInv, TypeOK, fileVars, causeVars, clockVars, Renewing
  <2> QED
    BY <2>1, <2>2
<1> QED
  BY <1>3, <1>5 DEF LoneInv

LEMMA LoneLoginBlank ==
  ASSUME OwnInv, LoneInv, NEW p \in Callers, LoginBlank(p)
  PROVE  LoneInv'
<1> USE DEF LoginBlank, LoopStep, Goto, Hold
<1>1. job[p] \in Jobs /\ Slot(p) \in Slots /\ Slot(p)' = Slot(p)
  BY SlotOfJob DEF OwnInv, CallerIsSound, Slot, FilesFor
<1>2. PICK x \in {"truncTa"} : pc' = [pc EXCEPT ![p] = x]
  OBVIOUS
<1>3. KeepsApart'
  <2>1. \A q \in Callers : /\ pc'[q] \in Renewing => pc[q] \in Renewing
                           /\ pc'[q] \in Active => pc[q] \in Active
    BY <1>1, <1>2 DEF OwnInv, TypeOK, Active, Renewing
  <2>2. KeepsApart /\ job' = job /\ disturbed' = disturbed
    BY DEF LoneInv, causeVars
  <2> QED
    BY <2>1, <2>2, ApartFrame
<1>4. FindsItsOwn(p)'
  BY <1>1, <1>2, TextStates, TimesArePositive DEF LoneInv, FindsItsOwn, OwnInv, TypeOK, Active, Renewing, fileVars, causeVars, clockVars
<1>5. \A q \in Callers : FindsItsOwn(q)'
  <2> SUFFICES ASSUME NEW q \in Callers PROVE FindsItsOwn(q)'
    OBVIOUS
  <2>1. CASE q = p
    BY <2>1, <1>4
  <2>2. CASE q # p
    BY <2>2, <1>1, <1>2, Elsewhere, LoneFrame DEF LoneInv, OwnInv, TypeOK, fileVars, causeVars, clockVars, Renewing
  <2> QED
    BY <2>1, <2>2
<1> QED
  BY <1>3, <1>5 DEF LoneInv

LEMMA LoneTruncTa ==
  ASSUME OwnInv, LoneInv, NEW p \in Callers, TruncTa(p)
  PROVE  LoneInv'
<1> USE DEF TruncTa, FileStep, Goto
<1>1. job[p] \in Jobs /\ Slot(p) \in Slots /\ Slot(p)' = Slot(p)
  BY SlotOfJob DEF OwnInv, CallerIsSound, Slot, FilesFor
<1>2. PICK x \in {"fillTa"} : pc' = [pc EXCEPT ![p] = x]
  OBVIOUS
<1>3. KeepsApart'
  <2>1. \A q \in Callers : /\ pc'[q] \in Renewing => pc[q] \in Renewing
                           /\ pc'[q] \in Active => pc[q] \in Active
    BY <1>1, <1>2 DEF OwnInv, TypeOK, Active, Renewing
  <2>2. KeepsApart /\ job' = job /\ disturbed' = disturbed
    BY DEF LoneInv, causeVars
  <2> QED
    BY <2>1, <2>2, ApartFrame
<1>4. FindsItsOwn(p)'
  BY <1>1, <1>2, TextStates, TimesArePositive DEF LoneInv, FindsItsOwn, OwnInv, TypeOK, Active, Renewing, fileVars, causeVars, clockVars
<1>5. \A q \in Callers : FindsItsOwn(q)'
  <2> SUFFICES ASSUME NEW q \in Callers PROVE FindsItsOwn(q)'
    OBVIOUS
  <2>1. CASE q = p
    BY <2>1, <1>4
  <2>2. CASE q # p
    BY <2>2, <1>1, <1>2, Elsewhere, LoneFrame DEF LoneInv, OwnInv, TypeOK, fileVars, causeVars, clockVars, Renewing
  <2> QED
    BY <2>1, <2>2
<1> QED
  BY <1>3, <1>5 DEF LoneInv

LEMMA LoneFillTa ==
  ASSUME OwnInv, LoneInv, NEW p \in Callers, FillTa(p)
  PROVE  LoneInv'
<1> USE DEF FillTa, FileStep, Goto, Written
<1>1. job[p] \in Jobs /\ Slot(p) \in Slots /\ Slot(p)' = Slot(p)
  BY SlotOfJob DEF OwnInv, CallerIsSound, Slot, FilesFor
<1>2. PICK x \in {"take"} : pc' = [pc EXCEPT ![p] = x]
  OBVIOUS
<1>3. KeepsApart'
  <2>1. \A q \in Callers : /\ pc'[q] \in Renewing => pc[q] \in Renewing
                           /\ pc'[q] \in Active => pc[q] \in Active
    BY <1>1, <1>2 DEF OwnInv, TypeOK, Active, Renewing
  <2>2. KeepsApart /\ job' = job /\ disturbed' = disturbed
    BY DEF LoneInv, causeVars
  <2> QED
    BY <2>1, <2>2, ApartFrame
<1>4. FindsItsOwn(p)'
  BY <1>1, <1>2, TextStates, TimesArePositive DEF LoneInv, FindsItsOwn, OwnInv, TypeOK, Active, Renewing, fileVars, causeVars, clockVars
<1>5. \A q \in Callers : FindsItsOwn(q)'
  <2> SUFFICES ASSUME NEW q \in Callers PROVE FindsItsOwn(q)'
    OBVIOUS
  <2>1. CASE q = p
    BY <2>1, <1>4
  <2>2. CASE q # p
    BY <2>2, <1>1, <1>2, Elsewhere, LoneFrame DEF LoneInv, OwnInv, TypeOK, fileVars, causeVars, clockVars, Renewing
  <2> QED
    BY <2>1, <2>2
<1> QED
  BY <1>3, <1>5 DEF LoneInv

LEMMA LoneTake ==
  ASSUME OwnInv, LoneInv, NEW p \in Callers, Take(p)
  PROVE  LoneInv'
<1> USE DEF Take, FileStep, Goto, Hold, Fail
<1>1. job[p] \in Jobs /\ Slot(p) \in Slots /\ Slot(p)' = Slot(p)
  BY SlotOfJob DEF OwnInv, CallerIsSound, Slot, FilesFor
<1>2. PICK x \in {"done", "failed"} : pc' = [pc EXCEPT ![p] = x]
  OBVIOUS
<1>3. KeepsApart'
  <2>1. \A q \in Callers : /\ pc'[q] \in Renewing => pc[q] \in Renewing
                           /\ pc'[q] \in Active => pc[q] \in Active
    BY <1>1, <1>2 DEF OwnInv, TypeOK, Active, Renewing
  <2>2. KeepsApart /\ job' = job /\ disturbed' = disturbed
    BY DEF LoneInv, causeVars
  <2> QED
    BY <2>1, <2>2, ApartFrame
<1>4. FindsItsOwn(p)'
  BY <1>1, <1>2, TextStates, TimesArePositive DEF LoneInv, FindsItsOwn, OwnInv, TypeOK, Active, Renewing, fileVars, causeVars, clockVars
<1>5. \A q \in Callers : FindsItsOwn(q)'
  <2> SUFFICES ASSUME NEW q \in Callers PROVE FindsItsOwn(q)'
    OBVIOUS
  <2>1. CASE q = p
    BY <2>1, <1>4
  <2>2. CASE q # p
    BY <2>2, <1>1, <1>2, LoneFrame DEF LoneInv, OwnInv, TypeOK, fileVars, causeVars, clockVars
  <2> QED
    BY <2>1, <2>2
<1> QED
  BY <1>3, <1>5 DEF LoneInv

LEMMA LoneArrive ==
  ASSUME OwnInv, LoneInv, NEW p \in Callers, Arrive(p)
  PROVE  LoneInv'
<1> USE DEF Arrive, LoopStep, Goto
<1>1. /\ pc' = [pc EXCEPT ![p] = "check"]
      /\ pc[p] = "idle"
      /\ since' = [since EXCEPT ![p] = now]
      /\ UNCHANGED <<hand, ta, tra, tmp, refused, now>>
  BY DEF fileVars, clockVars
<1>2. PICK j \in Jobs :
        /\ job' = [job EXCEPT ![p] = j]
        /\ disturbed' = disturbed \cup
             {x \in {p} : \E q \in Callers : /\ pc[q] \in Renewing
                                             /\ Slot(q) = <<j.cuit, FilesFor(j.service)>>}
  OBVIOUS
<1>3. /\ Slot(p)' = <<j.cuit, FilesFor(j.service)>>
      /\ \A q \in Callers \ {p} : Slot(q)' = Slot(q)
  BY <1>2 DEF OwnInv, TypeOK, Slot, FilesFor
<1>4. KeepsApart'
  BY <1>1, <1>2, <1>3 DEF LoneInv, KeepsApart, OwnInv, TypeOK, Active, Renewing
<1>5. FindsItsOwn(p)'
  BY <1>1 DEF FindsItsOwn, OwnInv, TypeOK
<1>6. \A q \in Callers : FindsItsOwn(q)'
  <2> SUFFICES ASSUME NEW q \in Callers PROVE FindsItsOwn(q)'
    OBVIOUS
  <2>1. CASE q = p
    BY <2>1, <1>5
  <2>2. CASE q # p
    BY <2>2, <1>1, <1>2, LoneFrame DEF LoneInv, OwnInv, TypeOK
  <2> QED
    BY <2>1, <2>2
<1> QED
  BY <1>4, <1>6 DEF LoneInv

\* Whoever begins a renewal disturbs everyone about the same ticket, and is
\* disturbed by those who renew it already.
LEMMA LoneCheck ==
  ASSUME OwnInv, LoneInv, NEW p \in Callers, Check(p)
  PROVE  LoneInv'
<1> USE DEF Check, FileStep, Goto
<1>1. /\ pc[p] = "check"
      /\ UNCHANGED <<job, since, hand, ta, tra, tmp, refused, now>>
      /\ disturbed \subseteq disturbed'
      /\ \A q \in Callers : Slot(q)' = Slot(q)
  BY DEF fileVars, clockVars, Slot, FilesFor
<1>2. PICK x \in {"take", "truncTra"} : pc' = [pc EXCEPT ![p] = x]
  OBVIOUS
<1>3. KeepsApart'
  <2>1. CASE x = "take"
    BY <1>1, <1>2, <2>1 DEF LoneInv, KeepsApart, OwnInv, TypeOK, Active, Renewing
  <2>2. CASE x = "truncTra"
    <3>1. disturbed' = disturbed \cup Others(p, Active)
                                 \cup {y \in {p} : Others(p, Renewing) # {}}
      BY <1>2, <2>2 DEF OwnInv, TypeOK
    <3>2. SUFFICES ASSUME NEW a \in Callers, NEW b \in Callers, b # a, pc'[a] \in Active,
                          a \notin disturbed', pc'[b] \in Renewing
                   PROVE  Slot(b) # Slot(a)
      BY <1>1 DEF KeepsApart
    <3>3. CASE a = p
      BY <3>1, <3>2, <3>3, <1>2 DEF Others, OwnInv, TypeOK
    <3>4. CASE b = p
      BY <3>1, <3>2, <3>4, <1>2 DEF Others, OwnInv, TypeOK
    <3>5. CASE a # p /\ b # p
      BY <3>2, <3>5, <1>1, <1>2 DEF LoneInv, KeepsApart, OwnInv, TypeOK
    <3> QED
      BY <3>3, <3>4, <3>5
  <2> QED
    BY <2>1, <2>2
<1>4. FindsItsOwn(p)'
  <2>1. CASE x = "take"
    BY <1>1, <1>2, <2>1 DEF LoneInv, FindsItsOwn, OwnInv, TypeOK, Active, Valid
  <2>2. CASE x = "truncTra"
    BY <1>1, <1>2, <2>2 DEF LoneInv, FindsItsOwn, OwnInv, TypeOK, Active
  <2> QED
    BY <2>1, <2>2
<1>5. \A q \in Callers : FindsItsOwn(q)'
  <2> SUFFICES ASSUME NEW q \in Callers PROVE FindsItsOwn(q)'
    OBVIOUS
  <2>1. CASE q = p
    BY <2>1, <1>4
  <2>2. CASE q # p
    BY <2>2, <1>1, <1>2, LoneFrame DEF LoneInv, OwnInv, TypeOK
  <2> QED
    BY <2>1, <2>2
<1> QED
  BY <1>3, <1>5 DEF LoneInv

LEMMA LoneCrash ==
  ASSUME OwnInv, LoneInv, Crash
  PROVE  LoneInv'
<1>1. /\ UNCHANGED <<job, since, hand, ta, tra, tmp, disturbed, refused, now>>
      /\ \A q \in Callers : Slot(q)' = Slot(q)
      /\ \A q \in Callers : pc'[q] = IF pc[q] \in Active THEN "lost" ELSE pc[q]
  BY DEF Crash, fileVars, causeVars, Slot, FilesFor
<1>2. KeepsApart'
  BY <1>1 DEF KeepsApart, Active, Renewing
<1>3. \A q \in Callers : FindsItsOwn(q)'
  BY <1>1 DEF LoneInv, FindsItsOwn, Active, Renewing
<1> QED
  BY <1>2, <1>3 DEF LoneInv

LEMMA LoneStill ==
  ASSUME OwnInv, LoneInv, Tick \/ UNCHANGED vars
  PROVE  LoneInv'
<1>1. /\ UNCHANGED <<pc, job, since, hand, ta, tra, tmp, disturbed, refused>>
      /\ \A q \in Callers : Slot(q)' = Slot(q)
      /\ now \in Nat /\ now' \in Nat /\ now <= now'
  BY TimesArePositive DEF Tick, vars, fileVars, causeVars, clockVars, Slot, FilesFor, OwnInv, TypeOK
<1>2. KeepsApart'
  BY <1>1 DEF LoneInv, KeepsApart
<1>3. \A q \in Callers : FindsItsOwn(q)'
  BY <1>1 DEF LoneInv, FindsItsOwn, OwnInv, TypeOK
<1> QED
  BY <1>2, <1>3 DEF LoneInv

LEMMA LoneNext == OwnInv /\ LoneInv /\ [Next]_vars => LoneInv'
<1> SUFFICES ASSUME OwnInv, LoneInv, [Next]_vars PROVE LoneInv'
  OBVIOUS
<1>1. ASSUME NEW p \in Callers, Renew(p) PROVE LoneInv'
  BY <1>1, LoneTruncTra, LoneFillTra, LoneSign, LoneSignEnds, LoneSignFails, LoneReadTmp,
     LoneUnlink, LoneLogin, LoneLoginFails, LoneLoginBlank, LoneTruncTa, LoneFillTa DEF Renew
<1>2. ASSUME NEW p \in Callers, Arrive(p) \/ Work(p) PROVE LoneInv'
  BY <1>1, <1>2, LoneArrive, LoneCheck, LoneTake DEF Work
<1> QED
  BY <1>2, LoneCrash, LoneStill DEF Next

LEMMA LoneAlways == Spec => [](OwnInv /\ LoneInv)
<1>1. Init => OwnInv /\ LoneInv
  BY OwnInit, LoneInit
<1>2. OwnInv /\ LoneInv /\ [Next]_vars => (OwnInv /\ LoneInv)'
  BY OwnNext, LoneNext
<1> QED
  BY <1>1, <1>2, PTL DEF Spec

\* Whatever an earlier call or a crash has left in the files, a caller that
\* overlaps no renewal of its ticket fails only by openssl or WSAA.
THEOREM FilesFailNobodyAlone == Spec => []FailsOnlyIfDisturbed
<1>1. OwnInv /\ LoneInv => FailsOnlyIfDisturbed
  BY DEF LoneInv, FindsItsOwn, FailsOnlyIfDisturbed
<1> QED
  BY <1>1, LoneAlways, PTL

-----------------------------------------------------------------------------
(* FreshInv: nobody goes on with a ticket that had expired when it came. *)

\* A ticket that a caller has been given, or is about to read, expires after
\* the caller came.
InTime(p) ==
  /\ pc[p] \in Active => since[p] <= now
  /\ pc[p] \in {"truncTa", "fillTa"} /\ hand[p].state = "whole" => since[p] < hand[p].exp
  /\ p \notin overdue =>
       /\ pc[p] = "take" /\ ta[Slot(p)].state = "whole" => since[p] < ta[Slot(p)].exp
       /\ pc[p] = "done" => since[p] < hand[p].exp

FreshInv == \A p \in Callers : InTime(p)

LEMMA FreshInit == Init => FreshInv
BY DEF Init, FreshInv, InTime, Active, Renewing

\* A step that changes neither a caller nor a ticket file leaves it in time.
LEMMA FreshFrame ==
  ASSUME NEW q \in Callers, InTime(q), UNCHANGED <<ta, overdue, now>>,
         pc'[q] = pc[q], hand'[q] = hand[q], job'[q] = job[q], since'[q] = since[q]
  PROVE  InTime(q)'
BY DEF InTime, Slot, FilesFor

\* A whole text of a ticket file has a date.
LEMMA TicketsHaveDates ==
  ASSUME OwnInv, NEW p \in Callers, pc[p] # "idle"
  PROVE  /\ Slot(p) \in Slots
         /\ ta[Slot(p)].state = "whole" => ta[Slot(p)].exp \in Nat
         /\ pc[p] = "fillTa" /\ hand[p].state = "whole" => hand[p].exp \in Nat
<1>1. job[p] \in Jobs
  BY DEF OwnInv, CallerIsSound
<1>2. ta[Slot(p)] \in Spoilt \cup OwnTickets(job[p].cuit, job[p].service)
  BY <1>1, SlotOfJob DEF OwnInv, FilesAreOwn
<1>3. pc[p] = "fillTa" => hand[p] \in {Torn} \cup OwnTickets(job[p].cuit, job[p].service)
  BY DEF OwnInv, HandIsOwn
<1> QED
  BY <1>1, <1>2, <1>3, SlotOfJob, WholeTexts, TextStates, TimesArePositive
  DEF OwnTickets, Ages, Spoilt

\* The steps of a renewal before a ticket is there.
LEMMA FreshSign ==
  ASSUME OwnInv, FreshInv, NEW p \in Callers,
         \/ TruncTra(p) \/ FillTra(p) \/ Sign(p) \/ SignEnds(p) \/ SignFails(p)
         \/ ReadTmp(p) \/ Unlink(p) \/ LoginFails(p)
  PROVE  FreshInv'
<1>1. /\ UNCHANGED <<job, since, ta, overdue, now>>
      /\ pc[p] \in Active
      /\ \E x \in {"fillTra", "sign", "signing", "readTmp", "unlink", "login", "failed"} :
           pc' = [pc EXCEPT ![p] = x]
      /\ \A q \in Callers \ {p} : hand'[q] = hand[q]
  BY DEF TruncTra, FillTra, Sign, SignEnds, SignFails, ReadTmp, Unlink, LoginFails,
     OwnInv, TypeOK, CallerIsSound, FileStep, LoopStep, Goto, Hold, Fail, fileVars, causeVars, clockVars,
     Active, Renewing
<1> SUFFICES ASSUME NEW q \in Callers PROVE InTime(q)'
  BY DEF FreshInv
<1>2. CASE q = p
  BY <1>1, <1>2 DEF FreshInv, InTime, OwnInv, TypeOK, Active, Renewing
<1>3. CASE q # p
  BY <1>1, <1>3, FreshFrame DEF FreshInv, OwnInv, TypeOK
<1> QED
  BY <1>2, <1>3

\* The login: the ticket is to live from now on.
LEMMA FreshLogin ==
  ASSUME OwnInv, FreshInv, NEW p \in Callers, Login(p) \/ LoginBlank(p)
  PROVE  FreshInv'
<1>1. /\ UNCHANGED <<job, since, ta, overdue, now>>
      /\ pc[p] = "login"
      /\ pc' = [pc EXCEPT ![p] = "truncTa"]
      /\ \A q \in Callers \ {p} : hand'[q] = hand[q]
      /\ \/ hand'[p] = Torn
         \/ \E c, s : hand'[p] = Ticket(c, s, now + Life)
  BY DEF Login, LoginBlank, LoopStep, Goto, Hold, OwnInv, TypeOK, fileVars, causeVars, clockVars
<1> SUFFICES ASSUME NEW q \in Callers PROVE InTime(q)'
  BY DEF FreshInv
<1>2. CASE q = p
  BY <1>1, <1>2, TextStates, TimesArePositive
  DEF FreshInv, InTime, OwnInv, TypeOK, Active, Renewing
<1>3. CASE q # p
  BY <1>1, <1>3, FreshFrame DEF FreshInv, OwnInv, TypeOK
<1> QED
  BY <1>2, <1>3

\* What is truncated is no ticket.
LEMMA FreshTruncTa ==
  ASSUME OwnInv, FreshInv, NEW p \in Callers, TruncTa(p)
  PROVE  FreshInv'
<1>1. /\ UNCHANGED <<job, since, hand, overdue, now>>
      /\ pc[p] = "truncTa"
      /\ pc' = [pc EXCEPT ![p] = "fillTa"]
      /\ \A k \in Slots : ta'[k] \in {ta[k], Empty}
  BY DEF TruncTa, FileStep, Goto, OwnInv, TypeOK, causeVars, clockVars
<1> SUFFICES ASSUME NEW q \in Callers PROVE InTime(q)'
  BY DEF FreshInv
<1>2. CASE q = p
  BY <1>1, <1>2 DEF FreshInv, InTime, OwnInv, TypeOK, Active, Renewing
<1>3. CASE q # p
  <2>1. pc'[q] = pc[q] /\ Slot(q)' = Slot(q)
    BY <1>1, <1>3 DEF OwnInv, TypeOK, Slot, FilesFor
  <2>2. pc[q] = "take" => Slot(q) \in Slots
    BY TicketsHaveDates
  <2>3. pc[q] = "take" => ta'[Slot(q)] = ta[Slot(q)] \/ ta'[Slot(q)].state # "whole"
    BY <1>1, <2>2, TextStates
  <2> QED
    BY <1>1, <2>1, <2>3 DEF FreshInv, InTime
<1> QED
  BY <1>2, <1>3

\* Who is about to read either gets a ticket that has not expired, and so
\* after the reader came, or sees it written overdue.
LEMMA FreshFillTa ==
  ASSUME OwnInv, FreshInv, NEW p \in Callers, FillTa(p)
  PROVE  FreshInv'
<1>1. /\ UNCHANGED <<job, since, hand, now>>
      /\ pc[p] = "fillTa"
      /\ pc' = [pc EXCEPT ![p] = "take"]
      /\ overdue' = overdue \cup {q \in Others(p, {"take"}) : Expired(hand[p])}
      /\ \A k \in Slots : ta'[k] # ta[k] => k = Slot(p)
      /\ ta'[Slot(p)] \in {hand[p], Torn}
  <2>1. Slot(p) \in Slots
    BY TicketsHaveDates DEF FillTa, FileStep
  <2> QED
    BY <2>1 DEF FillTa, FileStep, Goto, Written, OwnInv, TypeOK, causeVars, clockVars
<1>2. \A q \in Callers : Slot(q)' = Slot(q)
  BY <1>1 DEF Slot, FilesFor
<1> SUFFICES ASSUME NEW q \in Callers PROVE InTime(q)'
  BY DEF FreshInv
<1>3. CASE q = p
  <2>1. pc'[q] = "take" /\ since[q] <= now
    BY <1>1, <1>3 DEF FreshInv, InTime, OwnInv, TypeOK, Active, Renewing
  <2>2. ta'[Slot(q)].state = "whole" => ta'[Slot(q)] = hand[q] /\ since[q] < hand[q].exp
    BY <1>1, <1>3, TextStates DEF FreshInv, InTime
  <2> QED
    BY <1>1, <1>2, <2>1, <2>2 DEF InTime
<1>4. CASE q # p
  <2>1. pc'[q] = pc[q]
    BY <1>1, <1>4 DEF OwnInv, TypeOK
  <2>2. ASSUME pc[q] = "take", q \notin overdue', ta'[Slot(q)].state = "whole"
        PROVE  since[q] < ta'[Slot(q)].exp
    <3>1. Slot(q) \in Slots /\ q \notin overdue
      BY <1>1, <2>2, TicketsHaveDates
    <3>2. CASE ta'[Slot(q)] = ta[Slot(q)]
      BY <2>2, <3>1, <3>2 DEF FreshInv, InTime
    <3>3. CASE ta'[Slot(q)] # ta[Slot(q)]
      <4>1. Slot(q) = Slot(p) /\ ta'[Slot(q)] = hand[p] /\ hand[p].state = "whole"
        BY <1>1, <2>2, <3>1, <3>3, TextStates
      <4>2. ~ Expired(hand[p])
        BY <1>1, <1>4, <2>2, <4>1 DEF Others
      <4>3. now < hand[p].exp
        BY <1>1, <4>1, <4>2, TicketsHaveDates, TimesArePositive DEF Expired, OwnInv, TypeOK
      <4>4. since[q] <= now /\ since[q] \in Nat /\ now \in Nat /\ hand[p].exp \in Nat
        BY <1>1, <2>2, <4>1, TicketsHaveDates, TimesArePositive
        DEF FreshInv, InTime, Active, OwnInv, TypeOK
      <4> QED
        BY <4>1, <4>3, <4>4
    <3> QED
      BY <3>2, <3>3
  <2> QED
    BY <1>1, <1>2, <2>1, <2>2 DEF FreshInv, InTime
<1> QED
  BY <1>3, <1>4

LEMMA FreshTake ==
  ASSUME OwnInv, FreshInv, NEW p \in Callers, Take(p)
  PROVE  FreshInv'
<1>1. /\ UNCHANGED <<job, since, ta, overdue, now>>
      /\ pc[p] = "take"
      /\ \A q \in Callers \ {p} : pc'[q] = pc[q] /\ hand'[q] = hand[q]
      /\ \/ pc'[p] = "failed"
         \/ pc'[p] = "done" /\ ta[Slot(p)].state = "whole" /\ hand'[p] = ta[Slot(p)]
  BY DEF Take, FileStep, Goto, Hold, Fail, OwnInv, TypeOK, fileVars, causeVars, clockVars
<1> SUFFICES ASSUME NEW q \in Callers PROVE InTime(q)'
  BY DEF FreshInv
<1>2. CASE q = p
  BY <1>1, <1>2 DEF FreshInv, InTime, Active, Renewing
<1>3. CASE q # p
  BY <1>1, <1>3, FreshFrame DEF FreshInv
<1> QED
  BY <1>2, <1>3

\* A caller comes, or looks at the ticket.
LEMMA FreshCome ==
  ASSUME OwnInv, FreshInv, NEW p \in Callers, Arrive(p) \/ Check(p)
  PROVE  FreshInv'
<1>1. /\ UNCHANGED <<hand, ta, overdue, now>>
      /\ \A q \in Callers \ {p} : /\ pc'[q] = pc[q]
                                  /\ job'[q] = job[q]
                                  /\ since'[q] = since[q]
  BY DEF Arrive, Check, FileStep, LoopStep, Goto, OwnInv, TypeOK, fileVars, clockVars
<1> SUFFICES ASSUME NEW q \in Callers PROVE InTime(q)'
  BY DEF FreshInv
<1>2. CASE q = p /\ Arrive(p)
  BY <1>2, TimesArePositive
  DEF InTime, Arrive, LoopStep, Goto, OwnInv, TypeOK, fileVars, clockVars
<1>3. CASE q = p /\ Check(p)
  <2>1. /\ UNCHANGED <<job, since>>
        /\ pc[p] = "check"
        /\ pc'[p] = "truncTra" \/ (pc'[p] = "take" /\ Valid(ta[Slot(p)]))
        /\ Slot(p)' = Slot(p)
    BY <1>3 DEF Check, FileStep, Goto, OwnInv, TypeOK, Slot, FilesFor
  <2>2. since[p] <= now /\ since[p] \in Nat /\ now \in Nat
    BY <2>1, TimesArePositive DEF FreshInv, InTime, Active, OwnInv, TypeOK
  <2>3. pc'[p] = "take" => since[p] < ta[Slot(p)].exp
    BY <2>1, <2>2, TicketsHaveDates DEF Valid
  <2> QED
    BY <1>1, <1>3, <2>1, <2>2, <2>3 DEF InTime
<1>4. CASE q # p
  BY <1>1, <1>4, FreshFrame DEF FreshInv
<1> QED
  BY <1>2, <1>3, <1>4

\* Time goes by, or the process is started again.
LEMMA FreshStill ==
  ASSUME OwnInv, FreshInv, Tick \/ Crash \/ UNCHANGED vars
  PROVE  FreshInv'
<1>1. /\ UNCHANGED <<job, since, hand, ta, overdue>>
      /\ \A q \in Callers : pc'[q] \in {pc[q], "lost"} /\ since[q] \in Nat
      /\ now \in Nat /\ now' \in Nat /\ now <= now'
  BY TimesArePositive
  DEF Tick, Crash, vars, fileVars, causeVars, clockVars, OwnInv, TypeOK
<1> SUFFICES ASSUME NEW q \in Callers PROVE InTime(q)'
  BY DEF FreshInv
<1>2. CASE pc'[q] = "lost"
  BY <1>2 DEF InTime, Active, Renewing
<1>3. CASE pc'[q] = pc[q]
  BY <1>1, <1>3 DEF FreshInv, InTime, Slot, FilesFor
<1> QED
  BY <1>1, <1>2, <1>3

LEMMA FreshNext == OwnInv /\ FreshInv /\ [Next]_vars => FreshInv'
<1> SUFFICES ASSUME OwnInv, FreshInv, [Next]_vars PROVE FreshInv'
  OBVIOUS
<1>1. ASSUME NEW p \in Callers, Arrive(p) \/ Work(p) PROVE FreshInv'
  BY <1>1, FreshCome, FreshSign, FreshLogin, FreshTruncTa, FreshFillTa, FreshTake DEF Work, Renew
<1> QED
  BY <1>1, FreshStill DEF Next

\* Whatever other callers do to the file between the look at a ticket and its
\* reading, nobody goes on with one that had expired when the caller came,
\* unless it was written overdue under the caller's eyes.
THEOREM TicketsAreFresh == Spec => []FreshUnlessOverdue
<1>1. FreshInv => FreshUnlessOverdue
  BY DEF FreshInv, InTime, FreshUnlessOverdue
<1>2. Init => OwnInv /\ FreshInv
  BY OwnInit, FreshInit
<1>3. OwnInv /\ FreshInv /\ [Next]_vars => (OwnInv /\ FreshInv)'
  BY OwnNext, FreshNext
<1> QED
  BY <1>1, <1>2, <1>3, PTL DEF Spec
=============================================================================
