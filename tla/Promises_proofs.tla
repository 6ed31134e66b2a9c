-------------------------- MODULE Promises_proofs --------------------------
(***************************************************************************)
(* The two abstract specifications hold what their comments say.  Whatever *)
(* implements them inherits it: Invoicing does (ImplementsTheBook), and so *)
(* does Accounts (ImplementsTheKeyRing).                                   *)
(***************************************************************************)
EXTENDS InvoiceBook, KeyRing, TLAPS

BookInv ==
  /\ book \in [Series -> Seq(Requests)]
  /\ DOMAIN verdict = Requests
  /\ BookIsSound
  /\ \A r \in Requests : verdict[r].kind \in {"open", "unknown", "authorised"} \/ verdict[r] = Refused

LEMMA BookStarts == BookInit => BookInv
BY DEF BookInit, BookInv, BookIsSound, Open, Refused, Stands

\* One more entry at the end of one book leaves all others where they are.
LEMMA BookGrows ==
  ASSUME BookInv, NEW r \in Requests, NEW s \in Series, Enter(r, s)
  PROVE  BookInv'
<1> USE DEF BookInv
<1>1. book' \in [Series -> Seq(Requests)]
  BY DEF Enter
<1>2. /\ \A t \in Series \ {s} : book'[t] = book[t]
      /\ DOMAIN book'[s] = DOMAIN book[s] \cup {Len(book[s]) + 1}
      /\ Len(book[s]) + 1 \notin DOMAIN book[s]
      /\ book'[s][Len(book[s]) + 1] = r
      /\ \A n \in DOMAIN book[s] : book'[s][n] = book[s][n]
  BY DEF Enter
<1>3. \A t \in Series : \A n \in DOMAIN book[t] : book[t][n] # r
  BY DEF Enter, Stands
<1>4. ASSUME NEW t \in Series, NEW u \in Series, NEW m \in DOMAIN book'[t], NEW n \in DOMAIN book'[u],
             book'[t][m] = book'[u][n]
      PROVE  t = u /\ m = n
  <2> DEFINE New(v, k) == v = s /\ k = Len(book[s]) + 1
  <2>1. /\ ~ New(t, m) => m \in DOMAIN book[t] /\ book'[t][m] = book[t][m]
        /\ ~ New(u, n) => n \in DOMAIN book[u] /\ book'[u][n] = book[u][n]
    BY <1>2
  <2>2. CASE New(t, m)
    BY <1>2, <1>3, <1>4, <2>1, <2>2
  <2>3. CASE New(u, n)
    BY <1>2, <1>3, <1>4, <2>1, <2>3
  <2>4. CASE ~ New(t, m) /\ ~ New(u, n)
    BY <1>4, <2>1, <2>4 DEF BookIsSound
  <2> QED
    BY <2>2, <2>3, <2>4
<1>5. ASSUME NEW q \in Requests, verdict'[q].kind = "authorised"
      PROVE  \E t \in Series : \E n \in DOMAIN book'[t] :
               verdict'[q] = Authorised(t, n) /\ book'[t][n] = q
  <2>0. PICK t \in Series : \E n \in DOMAIN book[t] : verdict[q] = Authorised(t, n) /\ book[t][n] = q
    BY <1>5 DEF Enter, BookIsSound
  <2>1. PICK n \in DOMAIN book[t] : verdict[q] = Authorised(t, n) /\ book[t][n] = q
    BY <2>0
  <2>2. n \in DOMAIN book'[t] /\ book'[t][n] = q
    BY <1>2, <2>1
  <2> QED
    BY <2>1, <2>2 DEF Enter
<1>6. ASSUME NEW q \in Requests, verdict'[q] = Refused
      PROVE  ~ Stands(q)'
  <2>1. ~ Stands(q) /\ q # r
    BY <1>6 DEF Enter, BookIsSound, Refused
  <2> QED
    BY <1>2, <2>1 DEF Stands
<1>7. BookIsSound'
  BY <1>4, <1>5, <1>6 DEF BookIsSound
<1> QED
  BY <1>1, <1>7 DEF Enter

LEMMA BookNextKeeps == BookInv /\ [BookNext]_bookVars => BookInv'
<1> SUFFICES ASSUME BookInv, [BookNext]_bookVars PROVE BookInv'
  OBVIOUS
<1> USE DEF BookInv, BookIsSound
<1>1. ASSUME NEW r \in Requests, NEW s \in Series, NEW n \in DOMAIN book[s], Report(r, s, n)
      PROVE  BookInv'
  <2>1. /\ UNCHANGED book /\ book[s][n] = r
        /\ \A q \in Requests \ {r} : verdict'[q] = verdict[q]
        /\ verdict'[r] = Authorised(s, n) /\ DOMAIN verdict' = Requests
    BY <1>1 DEF Report
  <2>2. Authorised(s, n).kind = "authorised" /\ Refused.kind = "refused"
    BY DEF Authorised, Refused
  <2>3. ASSUME NEW q \in Requests
        PROVE  /\ verdict'[q].kind = "authorised" =>
                    \E t \in Series : \E m \in DOMAIN book[t] :
                      verdict'[q] = Authorised(t, m) /\ book[t][m] = q
               /\ verdict'[q] = Refused => ~ Stands(q)
               /\ verdict'[q].kind \in {"open", "unknown", "authorised"} \/ verdict'[q] = Refused
    <3>1. CASE q = r
      BY <2>1, <2>2, <3>1
    <3>2. CASE q # r
      BY <2>1, <3>2
    <3> QED
      BY <3>1, <3>2
  <2> QED
    BY <2>1, <2>3 DEF Stands
<1>2. ASSUME NEW r \in Requests, Refuse(r) PROVE BookInv'
  BY <1>2 DEF Refuse, Refused, Open, Stands
<1>3. ASSUME NEW R \in SUBSET Requests, GiveUp(R) PROVE BookInv'
  BY <1>3 DEF GiveUp, Refused, Unknown, Open, Stands
<1>4. CASE UNCHANGED bookVars
  BY <1>4 DEF bookVars, Stands
<1> QED
  BY <1>1, <1>2, <1>3, <1>4, BookGrows DEF BookNext

\* A request stands in one place at most, where it was told if it was told,
\* and nowhere once it was refused.
THEOREM TheBookIsSound == BookSpec => []BookIsSound
<1>1. BookInv => BookIsSound
  BY DEF BookInv
<1> QED
  BY <1>1, BookStarts, BookNextKeeps, PTL DEF BookSpec
-----------------------------------------------------------------------------
RingInv ==
  /\ inForce \in Keys \cup {NoKey}
  /\ revoked \subseteq Keys
  /\ told \subseteq Keys
  /\ admitted \in [Callers -> Keys \cup {NoKey}]
  /\ RingIsSound

LEMMA RingStarts ==
  ASSUME NoKey \notin Keys
  PROVE  RingInit => RingInv
BY DEF RingInit, RingInv, RingIsSound

LEMMA RingNextKeeps ==
  ASSUME NoKey \notin Keys
  PROVE  RingInv /\ [RingNext]_ringVars => RingInv'
<1> SUFFICES ASSUME RingInv, [RingNext]_ringVars PROVE RingInv'
  OBVIOUS
<1> USE DEF RingInv, RingIsSound
<1>1. ASSUME NEW k \in Keys, Issue(k) PROVE RingInv'
  BY <1>1 DEF Issue
<1>2. ASSUME NEW k \in Keys, Tell(k) PROVE RingInv'
  BY <1>2 DEF Tell
<1>3. ASSUME NEW c \in Callers, Admit(c) PROVE RingInv'
  BY <1>3 DEF Admit
<1>4. CASE Erase
  BY <1>4 DEF Erase
<1>5. CASE UNCHANGED ringVars
  BY <1>5 DEF ringVars
<1> QED
  BY <1>1, <1>2, <1>3, <1>4, <1>5 DEF RingNext

LEMMA RingAlways ==
  ASSUME NoKey \notin Keys
  PROVE  RingSpec => []RingInv
BY RingStarts, RingNextKeeps, PTL DEF RingSpec

\* A revoked key is not in force, a told key is in force or revoked, callers
\* are let in with told keys only.
THEOREM TheRingIsSound ==
  ASSUME NoKey \notin Keys
  PROVE  RingSpec => []RingIsSound
<1>1. RingInv => RingIsSound
  BY DEF RingInv
<1> QED
  BY <1>1, RingAlways, PTL

\* Nobody is let in but while the key is in force, and a key that is out of
\* force stays out of it.
THEOREM TheRingIsFinal ==
  ASSUME NoKey \notin Keys
  PROVE  RingSpec => RingIsFinal
<1> DEFINE Final == /\ \A c \in Callers : admitted'[c] # admitted[c] =>
                         admitted'[c] = inForce /\ inForce \notin revoked
                    /\ revoked \subseteq revoked' /\ inForce' \notin revoked
<1>1. RingInv /\ [RingNext]_ringVars => [Final]_ringVars
  <2> SUFFICES ASSUME RingInv, RingNext PROVE Final
    OBVIOUS
  <2> USE DEF RingInv, RingIsSound
  <2>1. ASSUME NEW k \in Keys, Issue(k) \/ Tell(k) PROVE Final
    BY <2>1 DEF Issue, Tell
  <2>2. ASSUME NEW c \in Callers, Admit(c) PROVE Final
    BY <2>2 DEF Admit
  <2>3. ASSUME Erase PROVE Final
    BY <2>3 DEF Erase
  <2> QED
    BY <2>1, <2>2, <2>3 DEF RingNext
<1> QED
  BY <1>1, RingAlways, PTL DEF RingSpec, RingIsFinal
=============================================================================
