------------------------------ MODULE KeyRing ------------------------------
(***************************************************************************)
(* What the API keys of an account promise, told without guards, tokens or *)
(* Firestore.                                                              *)
(*                                                                         *)
(* At most one key is in force.  A key comes into force once, when it is   *)
(* issued, and the one it replaces is revoked in the same step; erasing    *)
(* the key revokes it, too.  A key is told to its owner after it was       *)
(* issued, if ever, and perhaps when it is already revoked.  A caller is   *)
(* let in at most once, at an instant at which the key it shows is told    *)
(* and in force: not before it is issued, and never once it is revoked.    *)
(***************************************************************************)
CONSTANTS Keys, Callers, NoKey

VARIABLES inForce,  \* the key in force, or NoKey
          revoked,  \* keys that were in force
          told,     \* keys their owners know
          admitted  \* the key a caller was let in with, or NoKey

ringVars == <<inForce, revoked, told, admitted>>

RingInit == /\ inForce = NoKey
            /\ revoked = {}
            /\ told = {}
            /\ admitted = [c \in Callers |-> NoKey]

Issue(k) == /\ inForce # k /\ k \notin revoked
            /\ inForce' = k
            /\ revoked' = revoked \cup ({inForce} \ {NoKey})
            /\ UNCHANGED <<told, admitted>>

Erase == /\ inForce # NoKey
         /\ inForce' = NoKey
         /\ revoked' = revoked \cup {inForce}
         /\ UNCHANGED <<told, admitted>>

Tell(k) == /\ k = inForce \/ k \in revoked
           /\ k \notin told
           /\ told' = told \cup {k}
           /\ UNCHANGED <<inForce, revoked, admitted>>

Admit(c) == /\ admitted[c] = NoKey
            /\ inForce \in told
            /\ admitted' = [admitted EXCEPT ![c] = inForce]
            /\ UNCHANGED <<inForce, revoked, told>>

RingNext == \/ \E k \in Keys : Issue(k) \/ Tell(k)
            \/ \E c \in Callers : Admit(c)
            \/ Erase

RingSpec == RingInit /\ [][RingNext]_ringVars
-----------------------------------------------------------------------------
\* What an owner may rely on: a revoked key is not in force, a key that was
\* told is in force or revoked, and callers are let in with told keys only.
RingIsSound ==
  /\ inForce \notin revoked
  /\ \A k \in told : k = inForce \/ k \in revoked
  /\ \A c \in Callers : admitted[c] # NoKey => admitted[c] \in told

\* Nobody is let in but at an instant at which the key is in force; a key is
\* out of force for good.
RingIsFinal ==
  [][/\ \A c \in Callers : admitted'[c] # admitted[c] => admitted'[c] = inForce /\ inForce \notin revoked
     /\ revoked \subseteq revoked' /\ inForce' \notin revoked]_ringVars
=============================================================================
