---------------------------- MODULE Padron_proofs ----------------------------
(***************************************************************************)
(* What the lookup answers, for every reply of any length.  Collect is a   *)
(* loop: LoopInv says what it has done after n entries, which without      *)
(* SeenOnes would not be inductive.                                        *)
(***************************************************************************)
EXTENDS Padron, SequenceTheorems, TLAPS

\* The `seen' set of the loop: the taxes of all entries taken.
SeenOnes == \A j \in 1 .. n : reply.raw[j].id # NaN => Seen(reply.raw[j].id)

\* Nothing is decided before the end, or collected before the loop.
Undecided ==
  /\ pc # "idle" => condition = 0 /\ answer = "none"
  /\ pc \notin {"idle", "collect"} => n = 0 /\ impuestos = << >>

LoopInv == TypeOK /\ SeenOnes /\ ImpuestosAreTheFirst /\ Undecided

LEMMA RepliesAreLists ==
  ASSUME NEW p \in Replies \cup {NoReply}
  PROVE  /\ p.raw \in Seq(Items) /\ Len(p.raw) \in Nat
         /\ \A k \in 1 .. Len(p.raw) : p.raw[k] \in Items
<1>1. p.raw \in Seq(Items)
  <2>1. CASE p = NoReply
    BY <2>1 DEF NoReply
  <2>2. CASE p \in Replies
    <3>1. PICK k \in 0 .. MaxItems : p.raw \in [1 .. k -> Items]
      BY <2>2 DEF Replies, Lists
    <3>2. k \in Nat
      BY <3>1, MaxItemsIsNatural
    <3> QED
      BY <3>1, <3>2, SeqDef
  <2> QED
    BY <2>1, <2>2
<1> QED
  BY <1>1

LEMMA LoopInit == Init => LoopInv
<1> SUFFICES ASSUME Init PROVE LoopInv
  OBVIOUS
<1>1. TypeOK
  BY RepliesAreLists DEF Init, TypeOK, Answers, NoReply
<1>2. SeenOnes /\ ImpuestosAreTheFirst /\ Undecided
  BY DEF Init, SeenOnes, ImpuestosAreTheFirst, Undecided
<1> QED
  BY <1>1, <1>2 DEF LoopInv

\* A turn of the loop keeps an entry exactly if it is the first of its tax.
LEMMA KeepsTheFirst ==
  ASSUME LoopInv, n < Len(reply.raw)
  PROVE  Keeps(reply.raw[n + 1]) <=> FirstOfItsTax(n + 1)
<1> DEFINE x == reply.raw[n + 1]
<1>1. n \in Nat /\ impuestos \in Seq(Items)
  BY RepliesAreLists DEF LoopInv, TypeOK
<1>2. ASSUME Keeps(x) PROVE FirstOfItsTax(n + 1)
  <2>1. ASSUME NEW j \in 1 .. n, reply.raw[j].id = x.id PROVE FALSE
    BY <1>2, <2>1 DEF Keeps, LoopInv, SeenOnes
  <2> QED
    BY <1>1, <1>2, <2>1 DEF Keeps, FirstOfItsTax
<1>3. ASSUME FirstOfItsTax(n + 1) PROVE Keeps(x)
  <2>1. ASSUME NEW i \in 1 .. Len(impuestos), impuestos[i].id = x.id PROVE FALSE
    <3>1. PICK k \in 1 .. n : impuestos[i] = reply.raw[k]
      BY DEF LoopInv, ImpuestosAreTheFirst
    <3> QED
      BY <1>1, <1>3, <2>1, <3>1 DEF FirstOfItsTax
  <2> QED
    BY <1>3, <2>1 DEF Keeps, Seen, FirstOfItsTax
<1> QED
  BY <1>2, <1>3

LEMMA LoopCollect ==
  ASSUME LoopInv, Collect
  PROVE  LoopInv'
<1> DEFINE x == reply.raw[n + 1]
<1>1. /\ TypeOK /\ pc = "collect" /\ n \in Nat /\ n < Len(reply.raw) /\ Len(reply.raw) \in Nat /\ x \in Items
      /\ n' = n + 1 /\ UNCHANGED <<pc, reply, condition, answer>>
      /\ impuestos \in Seq(Items)
      /\ impuestos' = IF Keeps(x) THEN Append(impuestos, x) ELSE impuestos
  BY RepliesAreLists DEF Collect, LoopInv, TypeOK
<1>2. TypeOK'
  BY <1>1 DEF TypeOK
<1>3. Undecided'
  BY <1>1 DEF LoopInv, Undecided
<1>4. \A k \in 1 .. n + 1 : FirstOfItsTax(k)' <=> FirstOfItsTax(k)
  BY <1>1 DEF FirstOfItsTax
<1>5. CASE Keeps(x)
  <2>1. /\ Len(impuestos') = Len(impuestos) + 1 /\ Len(impuestos) \in Nat
        /\ \A i \in 1 .. Len(impuestos) : impuestos'[i] = impuestos[i]
        /\ impuestos'[Len(impuestos) + 1] = x
    BY <1>1, <1>5
  <2>2. FirstOfItsTax(n + 1)
    BY <1>1, <1>5, KeepsTheFirst
  <2>3. SeenOnes'
    <3> SUFFICES ASSUME NEW j \in 1 .. n + 1, reply.raw[j].id # NaN
                 PROVE  \E i \in 1 .. Len(impuestos') : impuestos'[i].id = reply.raw[j].id
      BY <1>1 DEF SeenOnes, Seen
    <3>1. CASE j = n + 1
      BY <2>1, <3>1
    <3>2. CASE j # n + 1
      <4>1. j \in 1 .. n
        BY <1>1, <3>2
      <4>2. PICK i \in 1 .. Len(impuestos) : impuestos[i].id = reply.raw[j].id
        BY <4>1 DEF LoopInv, SeenOnes, Seen
      <4> QED
        BY <2>1, <4>2
    <3> QED
      BY <3>1, <3>2
  <2>4. ASSUME NEW k \in 1 .. n + 1, FirstOfItsTax(k)
        PROVE  \E i \in 1 .. Len(impuestos') : impuestos'[i] = reply.raw[k]
    <3>1. CASE k = n + 1
      BY <2>1, <3>1
    <3>2. CASE k # n + 1
      <4>1. k \in 1 .. n
        BY <1>1, <3>2
      <4>2. PICK i \in 1 .. Len(impuestos) : impuestos[i] = reply.raw[k]
        BY <2>4, <4>1 DEF LoopInv, ImpuestosAreTheFirst
      <4> QED
        BY <2>1, <4>2
    <3> QED
      BY <3>1, <3>2
  <2>5. ASSUME NEW i \in 1 .. Len(impuestos')
        PROVE  \E k \in 1 .. n + 1 : FirstOfItsTax(k) /\ impuestos'[i] = reply.raw[k]
    <3>1. CASE i = Len(impuestos) + 1
      BY <1>1, <2>1, <2>2, <3>1
    <3>2. CASE i # Len(impuestos) + 1
      <4>1. i \in 1 .. Len(impuestos)
        BY <2>1, <3>2
      <4>2. PICK k \in 1 .. n : FirstOfItsTax(k) /\ impuestos[i] = reply.raw[k]
        BY <4>1 DEF LoopInv, ImpuestosAreTheFirst
      <4> QED
        BY <1>1, <2>1, <4>1, <4>2
    <3> QED
      BY <3>1, <3>2
  <2>6. ASSUME NEW i \in 1 .. Len(impuestos'), NEW j \in 1 .. Len(impuestos'),
               impuestos'[i].id = impuestos'[j].id
        PROVE  i = j
    <3>1. \A m \in 1 .. Len(impuestos) : impuestos[m].id # x.id
      BY <1>5 DEF Keeps, Seen
    <3>2. \A m, k \in 1 .. Len(impuestos) : impuestos[m].id = impuestos[k].id => m = k
      BY DEF LoopInv, ImpuestosAreTheFirst
    <3>3. CASE i \in 1 .. Len(impuestos) /\ j \in 1 .. Len(impuestos)
      BY <2>1, <2>6, <3>2, <3>3
    <3>4. CASE i = Len(impuestos) + 1 \/ j = Len(impuestos) + 1
      BY <2>1, <2>6, <3>1, <3>4
    <3> QED
      BY <2>1, <3>3, <3>4
  <2>7. ImpuestosAreTheFirst'
    <3>1. \A k \in 1 .. n' : FirstOfItsTax(k)' =>
            \E i \in 1 .. Len(impuestos') : impuestos'[i] = reply'.raw[k]
      BY <1>1, <1>4, <2>4
    <3>2. \A i \in 1 .. Len(impuestos') :
            \E k \in 1 .. n' : FirstOfItsTax(k)' /\ impuestos'[i] = reply'.raw[k]
      BY <1>1, <1>4, <2>5
    <3> QED
      BY <2>6, <3>1, <3>2 DEF ImpuestosAreTheFirst
  <2> QED
    BY <1>2, <1>3, <2>3, <2>7 DEF LoopInv
<1>6. CASE ~ Keeps(x)
  <2>1. ~ FirstOfItsTax(n + 1) /\ impuestos' = impuestos
    BY <1>1, <1>6, KeepsTheFirst
  <2>2. SeenOnes'
    <3> SUFFICES ASSUME NEW j \in 1 .. n + 1, reply.raw[j].id # NaN
                 PROVE  Seen(reply.raw[j].id)
      BY <1>1, <2>1 DEF SeenOnes, Seen
    <3>1. CASE j = n + 1
      BY <1>6, <3>1 DEF Keeps
    <3>2. CASE j # n + 1
      BY <1>1, <3>2 DEF LoopInv, SeenOnes
    <3> QED
      BY <3>1, <3>2
  <2>3. ImpuestosAreTheFirst'
    <3>1. \A k \in 1 .. n + 1 : FirstOfItsTax(k) => k \in 1 .. n
      BY <1>1, <2>1
    <3> QED
      BY <1>1, <1>4, <2>1, <3>1 DEF LoopInv, ImpuestosAreTheFirst
  <2> QED
    BY <1>2, <1>3, <2>2, <2>3 DEF LoopInv
<1> QED
  BY <1>5, <1>6

\* At the end of the loop the entries kept are active where the reply is.
LEMMA HasIsActive ==
  ASSUME LoopInv, n = Len(reply.raw), NEW id \in Nat
  PROVE  Has(id) <=> Active(id)
<1>1. ASSUME Has(id) PROVE Active(id)
  <2>1. PICK i \in 1 .. Len(impuestos) : impuestos[i].id = id /\ Activo(impuestos[i])
    BY <1>1 DEF Has
  <2>2. PICK k \in 1 .. n : FirstOfItsTax(k) /\ impuestos[i] = reply.raw[k]
    BY DEF LoopInv, ImpuestosAreTheFirst
  <2> QED
    BY <2>1, <2>2 DEF Active
<1>2. ASSUME Active(id) PROVE Has(id)
  <2>1. PICK k \in 1 .. n : reply.raw[k].id = id /\ FirstOfItsTax(k) /\ Activo(reply.raw[k])
    BY <1>2 DEF Active
  <2>2. PICK i \in 1 .. Len(impuestos) : impuestos[i] = reply.raw[k]
    BY <2>1 DEF LoopInv, ImpuestosAreTheFirst
  <2> QED
    BY <2>1, <2>2 DEF Has
<1> QED
  BY <1>1, <1>2

PadronInv == LoopInv /\ ConditionFollowsFromReply

LEMMA PadronMap ==
  ASSUME PadronInv, MapCondicionIva
  PROVE  PadronInv'
<1>1. /\ pc = "collect" /\ n = Len(reply.raw) /\ TypeOK /\ condition = 0
      /\ UNCHANGED <<reply, n, impuestos>> /\ pc' = "idle" /\ answer' = "ok"
  BY DEF MapCondicionIva, listVars, Answer, PadronInv, LoopInv, Undecided
<1>2. \A id \in Nat : Has(id) <=> Active(id)
  BY <1>1, HasIsActive DEF PadronInv
<1>3. IsMonotributista <=> Monotributista
  BY <1>2 DEF IsMonotributista, Monotributista, Monotributo
<1>4. \/ IsMonotributista /\ condition' = 6
      \/ /\ ~ IsMonotributista
         /\ \/ Has(30) /\ condition' = 1
            \/ ~ Has(30) /\ Has(32) /\ condition' = 4
            \/ ~ Has(30) /\ ~ Has(32) /\ Has(34) /\ condition' = 15
            \/ ~ Has(30) /\ ~ Has(32) /\ ~ Has(34) /\ Has(33) /\ condition' = 7
      \/ /\ ~ IsMonotributista /\ UNCHANGED condition
         /\ ~ Has(30) /\ ~ Has(32) /\ ~ Has(34) /\ ~ Has(33)
  <2>1. /\ Len(Deciding) = 4 /\ Deciding[1] = 30 /\ Deciding[2] = 32 /\ Deciding[3] = 34
        /\ Deciding[4] = 33
        /\ Condition[1] = 1 /\ Condition[2] = 4 /\ Condition[3] = 15 /\ Condition[4] = 7
    BY DEF Deciding, Condition
  <2>2. CASE IsMonotributista /\ condition' = 6
    BY <2>2
  <2>3. CASE ~ IsMonotributista /\ UNCHANGED condition
             /\ \A k \in 1 .. Len(Deciding) : ~ Has(Deciding[k])
    BY <2>1, <2>3
  <2>4. ASSUME ~ IsMonotributista, NEW k \in 1 .. Len(Deciding), Decides(k),
               condition' = Condition[k]
        PROVE  \/ Has(30) /\ condition' = 1
               \/ ~ Has(30) /\ Has(32) /\ condition' = 4
               \/ ~ Has(30) /\ ~ Has(32) /\ Has(34) /\ condition' = 15
               \/ ~ Has(30) /\ ~ Has(32) /\ ~ Has(34) /\ Has(33) /\ condition' = 7
    <3>1. k = 1 \/ k = 2 \/ k = 3 \/ k = 4
      BY <2>1
    <3>2. Has(Deciding[k]) /\ \A j \in 1 .. k - 1 : ~ Has(Deciding[j])
      BY <2>4 DEF Decides
    <3> HIDE DEF Has
    <3> QED
      BY <2>1, <2>4, <3>1, <3>2
  <2> QED
    BY <2>2, <2>3, <2>4 DEF MapCondicionIva
<1>5. ImpuestosAreTheFirst' /\ SeenOnes' /\ Undecided'
  <2>1. ImpuestosAreTheFirst /\ SeenOnes
    BY DEF PadronInv, LoopInv
  <2>2. ImpuestosAreTheFirst'
    BY <1>1, <2>1 DEF ImpuestosAreTheFirst, FirstOfItsTax
  <2>3. SeenOnes'
    BY <1>1, <2>1 DEF SeenOnes, Seen
  <2>4. Undecided'
    BY <1>1 DEF Undecided
  <2> QED
    BY <2>2, <2>3, <2>4
<1>6. TypeOK'
  BY <1>1, <1>4 DEF TypeOK, Answers
<1>7. /\ \A id \in Nat : Active(id)' <=> Active(id)
      /\ Monotributista' <=> Monotributista
  BY <1>1 DEF Active, FirstOfItsTax, Monotributista
<1>8. ConditionFollowsFromReply'
  <2>1. \A id \in {30, 32, 33, 34} : Active(id)' <=> Has(id)
    BY <1>2, <1>7
  <2>2. Monotributista' <=> IsMonotributista
    BY <1>3, <1>7
  <2> QED
    BY <1>1, <1>4, <2>1, <2>2 DEF ConditionFollowsFromReply
<1> QED
  BY <1>5, <1>6, <1>8 DEF PadronInv, LoopInv

LEMMA PadronQuiet ==
  ASSUME PadronInv, Ask \/ ResolveConsultante \/ Login \/ GetPersona \/ MapPersona
  PROVE  PadronInv'
<1>1. TypeOK /\ Undecided
  BY DEF PadronInv, LoopInv
<1>2. TypeOK' /\ Undecided'
  <2>1. CASE Ask
    BY <1>1, <2>1, RepliesAreLists, EmptySeq DEF Ask, Answer, TypeOK, Undecided, Answers, NoReply
  <2>2. CASE ResolveConsultante \/ Login \/ MapPersona
    BY <1>1, <2>2 DEF ResolveConsultante, Login, MapPersona, Answer, TypeOK, Undecided, Answers,
                      listVars, Thrown, FromConstancia
  <2>3. CASE GetPersona
    BY <1>1, <2>3
    DEF GetPersona, Answer, TypeOK, Undecided, Answers, listVars, Thrown
  <2> QED
    BY <2>1, <2>2, <2>3
<1>3. n' = 0 /\ impuestos' = << >> /\ answer' # "ok"
  BY <1>1 DEF Ask, ResolveConsultante, Login, GetPersona, MapPersona, Answer, Undecided, listVars,
              Thrown, FromConstancia
<1>4. SeenOnes' /\ ImpuestosAreTheFirst' /\ ConditionFollowsFromReply'
  BY <1>3 DEF SeenOnes, ImpuestosAreTheFirst, ConditionFollowsFromReply
<1> QED
  BY <1>2, <1>4 DEF PadronInv, LoopInv

LEMMA PadronInit == Init => PadronInv
BY LoopInit DEF PadronInv, ConditionFollowsFromReply, Init

LEMMA PadronNext == PadronInv /\ [Next]_vars => PadronInv'
<1> SUFFICES ASSUME PadronInv, [Next]_vars PROVE PadronInv'
  OBVIOUS
<1>1. CASE Collect
  <2>1. LoopInv'
    BY <1>1, LoopCollect DEF PadronInv
  <2>2. answer' # "ok"
    BY <1>1 DEF Collect, PadronInv, LoopInv, Undecided
  <2> QED
    BY <2>1, <2>2 DEF PadronInv, ConditionFollowsFromReply
<1>2. CASE UNCHANGED vars
  BY <1>2 DEF vars, PadronInv, LoopInv, TypeOK, SeenOnes, Seen, ImpuestosAreTheFirst, FirstOfItsTax,
              Undecided, ConditionFollowsFromReply, Active, Monotributista
<1> QED
  BY <1>1, <1>2, PadronMap, PadronQuiet DEF Next

LEMMA PadronAlways == Spec => []PadronInv
BY PadronInit, PadronNext, PTL DEF Spec

\* Every variable keeps its type.
THEOREM PadronTypesAreKept == Spec => []TypeOK
<1>1. PadronInv => TypeOK
  BY DEF PadronInv, LoopInv
<1> QED
  BY <1>1, PadronAlways, PTL

\* Of every tax the first entry is kept, for replies of any length.
THEOREM TheFirstAreKept == Spec => []ImpuestosAreTheFirst
<1>1. PadronInv => ImpuestosAreTheFirst
  BY DEF PadronInv, LoopInv
<1> QED
  BY <1>1, PadronAlways, PTL

\* The condition answered is a function of the reply.
THEOREM ConditionsFollow == Spec => []ConditionFollowsFromReply
<1>1. PadronInv => ConditionFollowsFromReply
  BY DEF PadronInv
<1> QED
  BY <1>1, PadronAlways, PTL
=============================================================================
