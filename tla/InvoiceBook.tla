---------------------------- MODULE InvoiceBook ----------------------------
(***************************************************************************)
(* What issuing an invoice promises, told without phases, tickets, SOAP    *)
(* calls or Firestore.                                                     *)
(*                                                                         *)
(* ARCA keeps one book per series (issuer, point of sale, voucher type).   *)
(* A book only grows, one number at a time, and a request enters at most   *)
(* one book at most once.  The gateway gives every request at most one     *)
(* verdict:                                                                *)
(*   authorised  it stands in the book of its series under that number;    *)
(*   refused     it stands in no book, and never will;                     *)
(*   unknown     the gateway failed: the request may stand in a book, or   *)
(*               may even enter it later.                                  *)
(***************************************************************************)
EXTENDS Naturals, Sequences

CONSTANTS Requests, Series

VARIABLES book,    \* what ARCA has authorised, by series, in number order
          verdict  \* what the gateway has told the client

bookVars == <<book, verdict>>

Open == [kind |-> "open"]
Refused == [kind |-> "refused"]
Unknown == [kind |-> "unknown"]
Authorised(s, n) == [kind |-> "authorised", series |-> s, number |-> n]

Stands(r) == \E s \in Series : \E n \in DOMAIN book[s] : book[s][n] = r

BookInit == /\ book = [s \in Series |-> <<>>]
            /\ verdict = [r \in Requests |-> Open]

\* ARCA enters r under the next number of s: not before r was refused, for
\* a refused request stays out of the books.
Enter(r, s) == /\ verdict[r].kind \in {"open", "unknown"}
               /\ ~ Stands(r)
               /\ book' = [book EXCEPT ![s] = Append(@, r)]
               /\ UNCHANGED verdict

Report(r, s, n) == /\ verdict[r] = Open
                   /\ n \in DOMAIN book[s]
                   /\ book[s][n] = r
                   /\ verdict' = [verdict EXCEPT ![r] = Authorised(s, n)]
                   /\ UNCHANGED book

Refuse(r) == /\ verdict[r] = Open
             /\ ~ Stands(r)
             /\ verdict' = [verdict EXCEPT ![r] = Refused]
             /\ UNCHANGED book

\* A failure of one request, or a crash that ends many at once.
GiveUp(R) == /\ \A r \in R : verdict[r] = Open
             /\ verdict' = [r \in Requests |-> IF r \in R THEN Unknown ELSE verdict[r]]
             /\ UNCHANGED book

BookNext == \/ \E r \in Requests, s \in Series : Enter(r, s)
            \/ \E r \in Requests, s \in Series :
                 \E n \in DOMAIN book[s] : Report(r, s, n)
            \/ \E r \in Requests : Refuse(r)
            \/ \E R \in SUBSET Requests : GiveUp(R)

BookSpec == BookInit /\ [][BookNext]_bookVars
-----------------------------------------------------------------------------
\* What a client may rely on: a request stands in one place at most, in the
\* one it was told if it was told any, and nowhere once it was refused.
BookIsSound ==
  /\ \A s, t \in Series : \A m \in DOMAIN book[s], n \in DOMAIN book[t] :
       book[s][m] = book[t][n] => s = t /\ m = n
  /\ \A r \in Requests :
       /\ verdict[r].kind = "authorised" =>
            \E s \in Series : \E n \in DOMAIN book[s] :
              verdict[r] = Authorised(s, n) /\ book[s][n] = r
       /\ verdict[r] = Refused => ~ Stands(r)
=============================================================================
