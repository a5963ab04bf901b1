------------------------- MODULE BudgetLedgerProofs -------------------------
(***************************************************************************)
(* Theorems about BudgetLedger, for any runs, requests, providers, limits  *)
(* and crashes.                                                            *)
(***************************************************************************)
EXTENDS BudgetLedger, SequenceTheorems, TLAPS

-----------------------------------------------------------------------------
(* A line of callers: who is in it after one joins and after one leaves.   *)

In(q, c) == \E i \in DOMAIN q : q[i] = c

Distinct(q) == \A i, j \in DOMAIN q : q[i] = q[j] => i = j

LEMMA Joined ==
  ASSUME NEW S, NEW q \in Seq(S), NEW c \in S, ~In(q, c), Distinct(q)
  PROVE  /\ Append(q, c) \in Seq(S)
         /\ Append(q, c) # <<>>
         /\ Distinct(Append(q, c))
         /\ \A d : In(Append(q, c), d) <=> d = c \/ In(q, d)
         /\ q # <<>> => Head(Append(q, c)) = Head(q)
<1> DEFINE l == Append(q, c)
<1>1. /\ l \in Seq(S) /\ DOMAIN l = 1..(Len(q) + 1) /\ DOMAIN q = 1..Len(q)
      /\ Len(q) \in Nat
      /\ \A i \in 1..Len(q) : l[i] = q[i]
      /\ l[Len(q) + 1] = c
  OBVIOUS
<1>2. \A i \in DOMAIN l : i \in DOMAIN q \/ i = Len(q) + 1
  BY <1>1
<1>3. l # <<>>
  BY <1>1
<1>4. Distinct(l) /\ \A d : In(l, d) <=> d = c \/ In(q, d)
  BY <1>1, <1>2 DEF Distinct, In
<1>5. q # <<>> => Head(l) = Head(q)
  <2>1. ASSUME q # <<>>
        PROVE  Head(l) = Head(q)
    <3>1. Head(l) = l[1] /\ Head(q) = q[1] /\ 1 \in 1..Len(q)
      BY <2>1, <1>1, <1>3
    <3>. QED
      BY <3>1, <1>1
  <2>. QED
    BY <2>1
<1>. QED
  BY <1>1, <1>3, <1>4, <1>5

LEMMA Left ==
  ASSUME NEW S, NEW q \in Seq(S), q # <<>>, Distinct(q)
  PROVE  /\ Tail(q) \in Seq(S)
         /\ Distinct(Tail(q))
         /\ \A d : In(Tail(q), d) <=> In(q, d) /\ d # Head(q)
<1>1. /\ Tail(q) \in Seq(S)
      /\ DOMAIN Tail(q) = 1..(Len(q) - 1)
      /\ DOMAIN q = 1..Len(q) /\ Len(q) \in Nat /\ Len(q) > 0
      /\ \A i \in 1..(Len(q) - 1) : Tail(q)[i] = q[i + 1]
      /\ Head(q) = q[1]
  OBVIOUS
<1>2. Distinct(Tail(q))
  <2> SUFFICES ASSUME NEW i \in DOMAIN Tail(q), NEW j \in DOMAIN Tail(q),
                      Tail(q)[i] = Tail(q)[j]
               PROVE  i = j
    BY DEF Distinct
  <2>1. i + 1 \in DOMAIN q /\ j + 1 \in DOMAIN q /\ q[i + 1] = q[j + 1]
    BY <1>1
  <2>2. i + 1 = j + 1
    BY <2>1 DEF Distinct
  <2>. QED
    BY <1>1, <2>2
<1>3. ASSUME NEW d
      PROVE  In(Tail(q), d) <=> In(q, d) /\ d # Head(q)
  <2>1. ASSUME NEW i \in DOMAIN Tail(q), Tail(q)[i] = d
        PROVE  In(q, d) /\ d # Head(q)
    <3>1. i + 1 \in DOMAIN q /\ q[i + 1] = d /\ 1 \in DOMAIN q /\ i + 1 # 1
      BY <1>1, <2>1
    <3>. QED
      BY <1>1, <3>1 DEF Distinct, In
  <2>2. ASSUME In(q, d), d # Head(q)
        PROVE  In(Tail(q), d)
    <3>1. PICK i \in DOMAIN q : q[i] = d
      BY <2>2 DEF In
    <3>2. i - 1 \in DOMAIN Tail(q) /\ Tail(q)[i - 1] = q[i]
      BY <1>1, <2>2, <3>1
    <3>. QED
      BY <3>1, <3>2 DEF In
  <2>. QED
    BY <2>1, <2>2 DEF In
<1>. QED
  BY <1>1, <1>2, <1>3

\* The same of one who leaves from any place.
Without(q, i) == SubSeq(q, 1, i - 1) \o SubSeq(q, i + 1, Len(q))

LEMMA Rejoined ==
  ASSUME NEW S, NEW a \in Seq(S), NEW b \in Seq(S)
  PROVE  /\ a \o b \in Seq(S) /\ Len(a \o b) = Len(a) + Len(b)
         /\ \A j \in 1..Len(a) : (a \o b)[j] = a[j]
         /\ \A j \in 1..Len(b) : (a \o b)[Len(a) + j] = b[j]
<1>1. Len(a) \in Nat /\ Len(b) \in Nat
  OBVIOUS
<1>2. /\ a \o b \in Seq(S) /\ Len(a \o b) = Len(a) + Len(b)
      /\ \A j \in 1..(Len(a) + Len(b)) :
           (a \o b)[j] = IF j <= Len(a) THEN a[j] ELSE b[j - Len(a)]
  BY ConcatProperties
<1>3. ASSUME NEW j \in 1..Len(a)
      PROVE  (a \o b)[j] = a[j]
  <2>1. j \in 1..(Len(a) + Len(b)) /\ j <= Len(a)
    BY <1>1
  <2>. QED
    BY <1>2, <2>1, Zenon
<1>4. ASSUME NEW j \in 1..Len(b)
      PROVE  (a \o b)[Len(a) + j] = b[j]
  <2>1. Len(a) + j \in 1..(Len(a) + Len(b)) /\ ~(Len(a) + j <= Len(a)) /\ (Len(a) + j) - Len(a) = j
    BY <1>1
  <2>. QED
    BY <1>2, <2>1, Zenon
<1>. QED
  BY <1>2, <1>3, <1>4

LEMMA LeftFrom ==
  ASSUME NEW S, NEW q \in Seq(S), Distinct(q), NEW i \in DOMAIN q
  PROVE  /\ Without(q, i) \in Seq(S)
         /\ Distinct(Without(q, i))
         /\ \A d : In(Without(q, i), d) <=> In(q, d) /\ d # q[i]
         /\ q[i] # Head(q) => Head(Without(q, i)) = Head(q)
<1> DEFINE l == Without(q, i)
<1>1. Len(q) \in Nat /\ DOMAIN q = 1..Len(q) /\ i \in 1..Len(q) /\ Head(q) = q[1]
  OBVIOUS
<1>2. PICK a \in Seq(S) :
        /\ a = SubSeq(q, 1, i - 1) /\ Len(a) = i - 1
        /\ \A j \in 1..(i - 1) : a[j] = q[j]
  <2> DEFINE front == SubSeq(q, 1, i - 1)
  <2>1. /\ front \in Seq(S) /\ Len(front) = i - 1
        /\ \A j \in 1..(i - 1) : front[j] = q[j]
    BY <1>1, SubSeqProperties, SMT
  <2> HIDE DEF front
  <2>2. front = SubSeq(q, 1, i - 1)
    BY DEF front
  <2>. QED
    BY <2>1, <2>2, Zenon
<1>3. PICK b \in Seq(S) :
        /\ b = SubSeq(q, i + 1, Len(q)) /\ Len(b) = Len(q) - i
        /\ \A j \in 1..(Len(q) - i) : b[j] = q[i + j]
  <2> DEFINE back == SubSeq(q, i + 1, Len(q))
  <2>1. /\ back \in Seq(S) /\ Len(back) = Len(q) - i
        /\ \A j \in 1..(Len(q) - i) : back[j] = q[i + j]
    BY <1>1, SubSeqProperties, SMT
  <2> HIDE DEF back
  <2>2. back = SubSeq(q, i + 1, Len(q))
    BY DEF back
  <2>. QED
    BY <2>1, <2>2, Zenon
<1>4. /\ l \in Seq(S) /\ Len(l) = Len(q) - 1
      /\ \A j \in 1..(Len(q) - 1) : l[j] = IF j < i THEN q[j] ELSE q[j + 1]
  <2>1. /\ l \in Seq(S) /\ Len(l) = (i - 1) + Len(b)
        /\ \A j \in 1..(i - 1) : l[j] = a[j]
        /\ \A j \in 1..Len(b) : l[(i - 1) + j] = b[j]
    <3>1. /\ a \o b \in Seq(S) /\ Len(a \o b) = Len(a) + Len(b)
          /\ \A j \in 1..Len(a) : (a \o b)[j] = a[j]
          /\ \A j \in 1..Len(b) : (a \o b)[Len(a) + j] = b[j]
      BY Rejoined
    <3>2. l = a \o b
      BY <1>2, <1>3 DEF Without
    <3>. QED
      BY <1>2, <3>1, <3>2, Zenon
  <2> HIDE DEF l
  <2>2. ASSUME NEW j \in 1..(Len(q) - 1)
        PROVE  l[j] = IF j < i THEN q[j] ELSE q[j + 1]
    <3>1. CASE j < i
      <4>1. j \in 1..(i - 1)
        BY <1>1, <2>2, <3>1
      <4>. QED
        BY <1>2, <2>1, <3>1, <4>1
    <3>2. CASE ~(j < i)
      <4>1. j - (i - 1) \in 1..Len(b) /\ (i - 1) + (j - (i - 1)) = j
              /\ i + (j - (i - 1)) = j + 1
        BY <1>1, <1>3, <2>2, <3>2
      <4>2. l[(i - 1) + (j - (i - 1))] = b[j - (i - 1)]
        BY <2>1, <4>1
      <4>3. b[j - (i - 1)] = q[i + (j - (i - 1))]
        BY <1>3, <4>1
      <4>. QED
        BY <3>2, <4>1, <4>2, <4>3
    <3>. QED
      BY <3>1, <3>2
  <2>. QED
    BY <1>1, <1>3, <2>1, <2>2
<1>5. DOMAIN l = 1..(Len(q) - 1)
  BY <1>4
<1> HIDE DEF l
<1>6. Distinct(l)
  <2> SUFFICES ASSUME NEW j \in 1..(Len(q) - 1), NEW k \in 1..(Len(q) - 1), l[j] = l[k]
               PROVE  j = k
    BY <1>5 DEF Distinct
  <2>1. /\ l[j] = q[IF j < i THEN j ELSE j + 1]
        /\ l[k] = q[IF k < i THEN k ELSE k + 1]
    BY <1>4
  <2>2. /\ (IF j < i THEN j ELSE j + 1) \in DOMAIN q
        /\ (IF k < i THEN k ELSE k + 1) \in DOMAIN q
    BY <1>1
  <2>3. (IF j < i THEN j ELSE j + 1) = (IF k < i THEN k ELSE k + 1)
    BY <2>1, <2>2 DEF Distinct
  <2>. QED
    BY <1>1, <2>3
<1>7. ASSUME NEW d
      PROVE  In(l, d) <=> In(q, d) /\ d # q[i]
  <2>1. ASSUME NEW j \in DOMAIN l, l[j] = d
        PROVE  In(q, d) /\ d # q[i]
    <3>1. PICK k \in DOMAIN q : k # i /\ l[j] = q[k]
      <4>1. CASE j < i
        <5>1. j \in DOMAIN q /\ j # i /\ l[j] = q[j]
          BY <1>1, <1>4, <1>5, <2>1, <4>1
        <5>. QED
          BY <5>1
      <4>2. CASE ~(j < i)
        <5>1. j + 1 \in DOMAIN q /\ j + 1 # i /\ l[j] = q[j + 1]
          BY <1>1, <1>4, <1>5, <2>1, <4>2
        <5>. QED
          BY <5>1
      <4>. QED
        BY <4>1, <4>2
    <3>. QED
      BY <1>1, <2>1, <3>1 DEF Distinct, In
  <2>2. ASSUME In(q, d), d # q[i]
        PROVE  In(l, d)
    <3>1. PICK k \in DOMAIN q : q[k] = d /\ k # i
      BY <2>2 DEF In
    <3>2. CASE k < i
      <4>1. k \in DOMAIN l /\ l[k] = q[k]
        BY <1>1, <1>4, <1>5, <3>1, <3>2
      <4>. QED
        BY <3>1, <4>1 DEF In
    <3>3. CASE k > i
      <4>1. k - 1 \in DOMAIN l /\ l[k - 1] = q[k]
        BY <1>1, <1>4, <1>5, <3>1, <3>3
      <4>. QED
        BY <3>1, <4>1 DEF In
    <3>. QED
      BY <1>1, <3>1, <3>2, <3>3
  <2>. QED
    BY <2>1, <2>2 DEF In
<1>8. ASSUME q[i] # Head(q)
      PROVE  Head(l) = Head(q)
  <2>1. i > 1 /\ Len(q) - 1 >= 1
    BY <1>1, <1>8
  <2>2. l[1] = q[1]
    BY <1>1, <1>4, <2>1
  <2>3. Head(l) = l[1]
    BY <1>4, <2>1
  <2>. QED
    BY <1>1, <2>2, <2>3
<1>. QED
  BY <1>4, <1>6, <1>7, <1>8 DEF l

\* In an empty line there is nobody, in another its head.
LEMMA AtTheHead ==
  ASSUME NEW S, NEW q \in Seq(S)
  PROVE  /\ q = <<>> => \A c : ~In(q, c)
         /\ q # <<>> => Head(q) \in S /\ In(q, Head(q))
<1>1. ASSUME q # <<>>
      PROVE  Head(q) \in S /\ In(q, Head(q))
  <2>1. 1 \in DOMAIN q /\ Head(q) = q[1] /\ q[1] \in S
    BY <1>1
  <2>. QED
    BY <2>1 DEF In
<1>. QED
  BY <1>1 DEF In

-----------------------------------------------------------------------------
(* The types, with the order at the lock.  A caller that is saving is in   *)
(* line, and one that has been answered is at the head.  Who has read the  *)
(* rows is at the head too, or was left behind; what it has read is what   *)
(* the file holds, unless its thread could not read, or is not alone.      *)

PeopleTypes ==
  /\ pc \in [Callers -> Stages]
  /\ of \in [Callers -> Providers]
  /\ taken \in [Runs -> 0..MaxSteps]

MemoryTypes ==
  /\ account \in [Providers -> Row]
  /\ loaded \subseteq Providers /\ dirty \subseteq Providers
  /\ before \in [Setters -> [limit : Limits \cup {NoLimit}, loaded : BOOLEAN]]

SeedTypes ==
  /\ seed \in {"none", "reading", "read", "done"}
  /\ seeder \subseteq Callers
  /\ rows \in [Providers -> Row]
  /\ \A c \in seeder : pc[c] = "seeding"

StoreTypes ==
  /\ request \in [Callers -> Request \cup {NoRequest}]
  /\ line \in Seq(Callers)
  /\ copy \in [Callers -> {<<>>} \cup [Providers -> Row]]
  /\ disk \in [Providers -> Row]
  /\ beside \subseteq Callers /\ blind \subseteq Callers

CountTypes == charged \in [Providers -> Nat] /\ crashes \in 0..MaxCrashes

Saving == {"saving", "saved", "failed"}

LineInv ==
  /\ \A c \in Callers : In(line, c) <=> pc[c] \in Saving
  /\ Distinct(line)
  /\ \A c \in Callers : pc[c] \in {"saved", "failed"} => Head(line) = c
  /\ \A c \in Callers : request[c] # NoRequest <=> pc[c] \in {"saving", "left"}

CopyInv ==
  /\ \A c \in Callers :
       copy[c] # <<>> => (pc[c] = "saving" /\ Head(line) = c) \/ pc[c] = "left"
  /\ \A c \in beside \cup blind : copy[c] # <<>>
  /\ \A c \in Callers : copy[c] # <<>> /\ c \notin beside \cup blind => copy[c] = disk
  /\ \A c, d \in Callers : copy[c] # <<>> /\ copy[d] # <<>> /\ c # d => c \in beside

LedgerInv ==
  /\ PeopleTypes /\ MemoryTypes /\ SeedTypes /\ StoreTypes /\ CountTypes
  /\ LineInv /\ CopyInv

LEMMA InvTypes == LedgerInv => TypeOK
BY DEF LedgerInv, PeopleTypes, MemoryTypes, SeedTypes, StoreTypes, CountTypes, LineInv, In,
   Saving, TypeOK

LEMMA NothingSaved == Empty \in [Providers -> Row]
BY DEF Empty, Row

LEMMA RowsAreThere ==
  ASSUME LedgerInv, NEW c \in Callers, NEW f \in [Providers -> Row]
  PROVE  f # <<>>
<1>1. of[c] \in Providers
  BY DEF LedgerInv, PeopleTypes
<1>2. DOMAIN f = Providers /\ DOMAIN <<>> = {}
  OBVIOUS
<1>. QED
  BY <1>1, <1>2, Zenon

\* A caller that is not at the repository goes on to something else.
LEMMA MovedOn ==
  ASSUME LedgerInv, NEW c \in Callers, NEW stage \in Stages \ (Saving \cup {"left"}),
         pc[c] \notin Saving \cup {"left"}, Moves(c, stage), UNCHANGED store
  PROVE  pc' \in [Callers -> Stages] /\ StoreTypes' /\ LineInv' /\ CopyInv'
<1>1. pc' \in [Callers -> Stages]
  BY DEF LedgerInv, PeopleTypes, Moves
<1>2. /\ \A d \in Callers : pc'[d] \in Saving \cup {"left"} <=> pc[d] \in Saving \cup {"left"}
      /\ \A d \in Callers : pc[d] \in Saving \cup {"left"} => pc'[d] = pc[d]
  BY DEF LedgerInv, PeopleTypes, Moves
<1>3. UNCHANGED <<request, line, copy, disk, beside, blind>>
  BY DEF store
<1>4. StoreTypes'
  BY <1>3 DEF LedgerInv, StoreTypes
<1>5. LineInv'
  BY <1>2, <1>3 DEF LedgerInv, LineInv, Saving
<1>6. CopyInv'
  BY <1>2, <1>3 DEF LedgerInv, CopyInv, Saving
<1>. QED
  BY <1>1, <1>4, <1>5, <1>6

\* A caller asks the repository and takes its place in the line.
LEMMA Asked ==
  ASSUME LedgerInv, NEW c \in Callers, NEW r \in Request,
         pc[c] \notin Saving \cup {"left"}, Ask(c, r)
  PROVE  pc' \in [Callers -> Stages] /\ StoreTypes' /\ LineInv' /\ CopyInv'
<1>1. /\ pc' \in [Callers -> Stages]
      /\ \A d \in Callers : pc'[d] = IF d = c THEN "saving" ELSE pc[d]
  BY DEF LedgerInv, PeopleTypes, Ask, Moves, Stages
<1>2. line \in Seq(Callers) /\ ~In(line, c) /\ Distinct(line) /\ line' = Append(line, c)
  BY DEF LedgerInv, StoreTypes, LineInv, Ask
<1>3. /\ line' \in Seq(Callers) /\ Distinct(line')
      /\ \A d : In(line', d) <=> d = c \/ In(line, d)
      /\ line # <<>> => Head(line') = Head(line)
  BY <1>2, Joined
<1>4. /\ request' \in [Callers -> Request \cup {NoRequest}]
      /\ \A d \in Callers : request'[d] = IF d = c THEN r ELSE request[d]
      /\ r # NoRequest
      /\ UNCHANGED <<copy, disk, beside, blind>>
  BY BudgetAssumption DEF BudgetAssumption, LedgerInv, StoreTypes, Ask
<1>5. StoreTypes'
  BY <1>3, <1>4 DEF LedgerInv, StoreTypes
<1>6. \A d \in Callers : pc[d] \in Saving => line # <<>>
  BY <1>2, AtTheHead DEF LedgerInv, LineInv
<1>7. \A d \in Callers : copy[d] # <<>> => d # c
  BY DEF LedgerInv, CopyInv, Saving
<1>8. LineInv'
  <2>1. \A d \in Callers : In(line', d) <=> pc'[d] \in Saving
    BY <1>1, <1>3 DEF LedgerInv, LineInv, Saving
  <2>2. \A d \in Callers : pc'[d] \in {"saved", "failed"} => Head(line') = d
    BY <1>1, <1>3, <1>6 DEF LedgerInv, LineInv, Saving
  <2>3. \A d \in Callers : request'[d] # NoRequest <=> pc'[d] \in {"saving", "left"}
    BY <1>1, <1>4 DEF LedgerInv, LineInv
  <2>. QED
    BY <1>3, <2>1, <2>2, <2>3 DEF LineInv
<1>9. CopyInv'
  <2>1. \A d \in Callers :
          copy'[d] # <<>> => (pc'[d] = "saving" /\ Head(line') = d) \/ pc'[d] = "left"
    BY <1>1, <1>3, <1>4, <1>6, <1>7 DEF LedgerInv, CopyInv, Saving
  <2>. QED
    BY <1>4, <2>1 DEF LedgerInv, CopyInv
<1>. QED
  BY <1>1, <1>5, <1>8, <1>9

\* A caller that was answered leaves the line, whose head it was.
LEMMA Released ==
  ASSUME LedgerInv, NEW c \in Callers, pc[c] \in {"saved", "failed"}, Release(c)
  PROVE  /\ PeopleTypes' /\ StoreTypes' /\ LineInv' /\ CopyInv' /\ SeedTypes'
         /\ CountTypes'
<1>1. /\ pc' \in [Callers -> Stages]
      /\ \A d \in Callers : pc'[d] = IF d = c THEN "over" ELSE pc[d]
  BY DEF LedgerInv, PeopleTypes, Release, Moves, Stages
<1>2. line \in Seq(Callers) /\ Distinct(line) /\ In(line, c) /\ Head(line) = c
        /\ line' = Tail(line)
  BY DEF LedgerInv, StoreTypes, LineInv, Release, Saving
<1>3. line # <<>>
  BY <1>2, AtTheHead
<1>4. /\ line' \in Seq(Callers) /\ Distinct(line')
      /\ \A d : In(line', d) <=> In(line, d) /\ d # c
  BY <1>2, <1>3, Left
<1>5. UNCHANGED <<request, copy, disk, beside, blind>>
  BY DEF Release
<1>6. \A d \in Callers : copy[d] # <<>> => pc[d] = "left"
  BY <1>2 DEF LedgerInv, CopyInv
<1>7. StoreTypes'
  BY <1>4, <1>5 DEF LedgerInv, StoreTypes
<1>8. LineInv'
  <2>1. \A d \in Callers : In(line', d) <=> pc'[d] \in Saving
    BY <1>1, <1>4 DEF LedgerInv, LineInv, Saving
  <2>2. \A d \in Callers : pc'[d] \in {"saved", "failed"} => Head(line') = d
    BY <1>1, <1>2 DEF LedgerInv, LineInv
  <2>3. \A d \in Callers : request'[d] # NoRequest <=> pc'[d] \in {"saving", "left"}
    BY <1>1, <1>5 DEF LedgerInv, LineInv
  <2>. QED
    BY <1>4, <2>1, <2>2, <2>3 DEF LineInv
<1>9. SeedTypes'
  BY <1>1 DEF LedgerInv, SeedTypes, Release, seeding
<1>10. CopyInv'
  BY <1>1, <1>5, <1>6 DEF LedgerInv, CopyInv
<1>. QED
  BY <1>1, <1>7, <1>8, <1>9, <1>10 DEF LedgerInv, PeopleTypes, CountTypes, Release

\* The seed: who comes first reads the file, and waits for the rows.
LEMMA InvSeed ==
  ASSUME LedgerInv, Query \/ ReadFile \/ Seeded \/ \E c \in Callers : Enter(c)
  PROVE  LedgerInv'
<1>1. CASE Query
  BY <1>1
  DEF Query, LedgerInv, PeopleTypes, MemoryTypes, SeedTypes, StoreTypes, CountTypes, LineInv,
      CopyInv, people, memory, store
<1>2. CASE ReadFile
  <2>1. SeedTypes'
    BY <1>2, NothingSaved DEF ReadFile, LedgerInv, SeedTypes, StoreTypes, people
  <2>. QED
    BY <1>2, <2>1
    DEF ReadFile, LedgerInv, PeopleTypes, MemoryTypes, StoreTypes, CountTypes, LineInv,
        CopyInv, people, memory, store
<1>3. CASE Seeded
  <2>1. /\ pc' \in [Callers -> Stages]
        /\ \A c \in Callers : pc'[c] \in Saving \cup {"left"} <=> pc[c] \in Saving \cup {"left"}
        /\ \A c \in Callers : pc[c] \in Saving \cup {"left"} => pc'[c] = pc[c]
    BY <1>3 DEF Seeded, LedgerInv, PeopleTypes, SeedTypes, Saving, Stages
  <2>2. UNCHANGED <<request, line, copy, disk, beside, blind>>
    BY <1>3 DEF Seeded, store
  <2>3. LineInv' /\ CopyInv' /\ StoreTypes'
    BY <2>1, <2>2 DEF LedgerInv, LineInv, CopyInv, StoreTypes, Saving
  <2>4. MemoryTypes'
    BY <1>3 DEF Seeded, Instead, LedgerInv, MemoryTypes, SeedTypes
  <2>5. SeedTypes'
    BY <1>3 DEF Seeded, LedgerInv, SeedTypes
  <2>. QED
    BY <1>3, <2>1, <2>3, <2>4, <2>5 DEF Seeded, LedgerInv, PeopleTypes, CountTypes
<1>4. ASSUME NEW c \in Callers, Enter(c)
      PROVE  LedgerInv'
  <2>1. PICK stage \in {"seeding", "starting"} : Moves(c, stage)
    BY <1>4 DEF Enter
  <2>2. pc[c] = "new" /\ UNCHANGED store
    BY <1>4 DEF Enter
  <2>3. pc' \in [Callers -> Stages] /\ StoreTypes' /\ LineInv' /\ CopyInv'
    BY <2>1, <2>2, MovedOn DEF Stages, Saving
  <2>4. SeedTypes'
    BY <1>4, <2>2 DEF Enter, Moves, LedgerInv, PeopleTypes, SeedTypes
  <2>. QED
    BY <1>4, <2>3, <2>4
    DEF Enter, LedgerInv, PeopleTypes, MemoryTypes, CountTypes, memory
<1>. QED
  BY <1>1, <1>2, <1>3, <1>4

\* Moving a caller that does not wait for the rows keeps those who do.
LEMMA SeederKept ==
  ASSUME LedgerInv, NEW c \in Callers, pc[c] # "seeding", UNCHANGED seeding,
         \A d \in Callers : d # c => pc'[d] = pc[d]
  PROVE  SeedTypes'
BY DEF LedgerInv, SeedTypes, seeding

\* A run, up to what it asks of the repository.
LEMMA InvRun ==
  ASSUME LedgerInv, NEW r \in Runs, Start(r) \/ RecordStep(r) \/ EndRun(r) \/ Flush(r)
  PROVE  LedgerInv'
<1>a. r \in Callers /\ of[r] \in Providers
  BY DEF Callers, LedgerInv, PeopleTypes
<1>b. ASSUME NEW stage \in Stages, Moves(r, stage), pc[r] # "seeding", UNCHANGED seeding
      PROVE  SeedTypes'
  BY <1>a, <1>b, SeederKept DEF Moves, LedgerInv, PeopleTypes
<1>1. CASE Start(r) \/ EndRun(r)
  <2>1. PICK stage \in {"live", "over", "ending"} : Moves(r, stage)
    BY <1>1 DEF Start, EndRun
  <2>2. pc[r] \in {"starting", "live"} /\ UNCHANGED <<of, taken, memory, charged, crashes>>
          /\ UNCHANGED store /\ UNCHANGED seeding
    BY <1>1 DEF Start, EndRun
  <2>3. pc' \in [Callers -> Stages] /\ StoreTypes' /\ LineInv' /\ CopyInv'
    BY <1>a, <2>1, <2>2, MovedOn DEF Stages, Saving
  <2>4. SeedTypes'
    BY <1>b, <2>1, <2>2 DEF Stages
  <2>. QED
    BY <2>2, <2>3, <2>4 DEF LedgerInv, PeopleTypes, MemoryTypes, CountTypes, memory
<1>2. CASE RecordStep(r)
  <2>1. pc' \in [Callers -> Stages] /\ StoreTypes' /\ LineInv' /\ CopyInv'
          /\ SeedTypes'
    <3>0. pc[r] = "live" /\ UNCHANGED store /\ UNCHANGED seeding
      BY <1>2 DEF RecordStep
    <3>1. CASE Moves(r, "ending")
      BY <1>a, <1>b, <3>0, <3>1, MovedOn DEF Stages, Saving
    <3>2. CASE UNCHANGED pc
      BY <3>0, <3>2
      DEF LedgerInv, PeopleTypes, StoreTypes, LineInv, CopyInv, SeedTypes, store, seeding
    <3>. QED
      BY <1>2, <3>1, <3>2 DEF RecordStep
  <2>2. /\ taken' = [taken EXCEPT ![r] = @ + 1] /\ taken[r] < MaxSteps
        /\ charged' = [charged EXCEPT ![of[r]] = @ + 1]
        /\ account' = [account EXCEPT ![of[r]].spent = @ + 1]
        /\ dirty' = dirty \cup {of[r]}
        /\ UNCHANGED <<of, loaded, before, crashes>>
    BY <1>2 DEF RecordStep
  <2>3. taken' \in [Runs -> 0..MaxSteps]
    BY <2>2, BudgetAssumption DEF BudgetAssumption, LedgerInv, PeopleTypes
  <2>4. charged' \in [Providers -> Nat]
    BY <2>2, <1>a DEF LedgerInv, CountTypes
  <2>5. account' \in [Providers -> Row]
    <3>1. [account[of[r]] EXCEPT !.spent = @ + 1] \in Row
      BY <1>a DEF LedgerInv, MemoryTypes, Row
    <3>. QED
      BY <2>2, <3>1, <1>a DEF LedgerInv, MemoryTypes
  <2>6. dirty' \subseteq Providers
    BY <2>2, <1>a DEF LedgerInv, MemoryTypes
  <2>. QED
    BY <2>1, <2>2, <2>3, <2>4, <2>5, <2>6
    DEF LedgerInv, PeopleTypes, MemoryTypes, CountTypes
<1>3. CASE Flush(r)
  <2>0. pc[r] = "ending" /\ UNCHANGED <<of, taken, memory, charged, crashes>>
          /\ UNCHANGED seeding
    BY <1>3 DEF Flush
  <2>1. CASE Moves(r, "over") /\ UNCHANGED store
    <3>1. pc' \in [Callers -> Stages] /\ StoreTypes' /\ LineInv' /\ CopyInv'
      BY <1>a, <2>0, <2>1, MovedOn DEF Stages, Saving
    <3>2. SeedTypes'
      BY <1>b, <2>0, <2>1 DEF Stages
    <3>. QED
      BY <2>0, <3>1, <3>2 DEF LedgerInv, PeopleTypes, MemoryTypes, CountTypes, memory
  <2>2. CASE Ask(r, [kind |-> "spent", dirty |-> dirty,
                     spent |-> [p \in Providers |-> account[p].spent]])
    <3>1. [kind |-> "spent", dirty |-> dirty,
           spent |-> [p \in Providers |-> account[p].spent]] \in Request
      BY DEF LedgerInv, MemoryTypes, Row, Request
    <3>2. pc' \in [Callers -> Stages] /\ StoreTypes' /\ LineInv' /\ CopyInv'
      BY <1>a, <2>0, <2>2, <3>1, Asked DEF Saving
    <3>3. SeedTypes'
      BY <1>b, <2>0, <2>2 DEF Ask, Stages
    <3>. QED
      BY <2>0, <3>2, <3>3 DEF LedgerInv, PeopleTypes, MemoryTypes, CountTypes, memory
  <2>. QED
    BY <1>3, <2>1, <2>2 DEF Flush
<1>. QED
  BY <1>1, <1>2, <1>3

LEMMA InvSetter ==
  ASSUME LedgerInv, NEW s \in Setters, SetBudget(s) \/ SetDone(s)
  PROVE  LedgerInv'
<1>a. s \in Callers /\ of[s] \in Providers
  BY DEF Callers, LedgerInv, PeopleTypes
<1>1. CASE SetBudget(s)
  <2>0. pc[s] = "starting" /\ UNCHANGED <<of, taken, loaded, dirty, charged, crashes>>
          /\ UNCHANGED seeding
    BY <1>1 DEF SetBudget
  <2>1. PICK l \in Limits :
          /\ before' = [before EXCEPT ![s] =
               [limit |-> account[of[s]].limit, loaded |-> of[s] \in loaded]]
          /\ account' = [account EXCEPT ![of[s]].limit = l]
          /\ Ask(s, [kind |-> "limit", provider |-> of[s], limit |-> l])
    BY <1>1 DEF SetBudget
  <2>2. [kind |-> "limit", provider |-> of[s], limit |-> l] \in Request
    BY <1>a DEF Request
  <2>3. pc' \in [Callers -> Stages] /\ StoreTypes' /\ LineInv' /\ CopyInv'
    BY <1>a, <2>0, <2>1, <2>2, Asked DEF Saving
  <2>4. SeedTypes'
    BY <1>a, <2>0, <2>1, SeederKept DEF Ask, Moves, LedgerInv, PeopleTypes
  <2>5. account[of[s]] \in Row
    BY <1>a DEF LedgerInv, MemoryTypes
  <2>6. account' \in [Providers -> Row]
    <3>1. [account[of[s]] EXCEPT !.limit = l] \in Row
      BY <2>5 DEF Row
    <3>. QED
      BY <2>1, <3>1, <1>a DEF LedgerInv, MemoryTypes
  <2>7. before' \in [Setters -> [limit : Limits \cup {NoLimit}, loaded : BOOLEAN]]
    <3>1. [limit |-> account[of[s]].limit, loaded |-> of[s] \in loaded]
            \in [limit : Limits \cup {NoLimit}, loaded : BOOLEAN]
      BY <2>5 DEF Row
    <3>. QED
      BY <2>1, <3>1 DEF LedgerInv, MemoryTypes
  <2>. QED
    BY <2>0, <2>3, <2>4, <2>6, <2>7 DEF LedgerInv, PeopleTypes, MemoryTypes, CountTypes
<1>2. CASE SetDone(s)
  <2>1. pc[s] \in {"saved", "failed"} /\ Release(s) /\ UNCHANGED <<loaded, dirty, before>>
    BY <1>2 DEF SetDone
  <2>2. PeopleTypes' /\ StoreTypes' /\ LineInv' /\ CopyInv' /\ SeedTypes' /\ CountTypes'
    BY <1>a, <2>1, Released
  <2>3. account' \in [Providers -> Row]
    <3>1. [account[of[s]] EXCEPT !.limit = before[s].limit] \in Row
      BY <1>a DEF LedgerInv, MemoryTypes, Row
    <3>. QED
      BY <1>a, <1>2, <3>1 DEF SetDone, LedgerInv, MemoryTypes
  <2>. QED
    BY <2>1, <2>2, <2>3 DEF LedgerInv, MemoryTypes
<1>. QED
  BY <1>1, <1>2

LEMMA InvFlushDone ==
  ASSUME LedgerInv, NEW r \in Runs, FlushDone(r)
  PROVE  LedgerInv'
<1>1. r \in Callers /\ pc[r] \in {"saved", "failed"} /\ Release(r)
  BY DEF FlushDone, Callers
<1>2. PeopleTypes' /\ StoreTypes' /\ LineInv' /\ CopyInv' /\ SeedTypes' /\ CountTypes'
  BY <1>1, Released
<1>. QED
  BY <1>2 DEF FlushDone, LedgerInv, MemoryTypes

\* The repository's arithmetic keeps the types of the rows.
LEMMA SavedTypes ==
  ASSUME NEW stored \in [Providers -> Row], NEW q \in Request
  PROVE  Disk!Saved(stored, q) \in [Providers -> Row]
<1>1. CASE q \in [kind : {"limit"}, provider : Providers, limit : Limits]
  <2>1. Disk!Saved(stored, q) = [stored EXCEPT ![q.provider].limit = q.limit]
    BY <1>1 DEF Disk!Saved
  <2>2. q.provider \in Providers /\ [stored[q.provider] EXCEPT !.limit = q.limit] \in Row
    BY <1>1 DEF Row
  <2>. QED
    BY <2>1, <2>2
<1>2. CASE q \in [kind : {"spent"}, dirty : SUBSET Providers, spent : [Providers -> Nat]]
  <2>1. Disk!Saved(stored, q) =
          [p \in Providers |-> [stored[p] EXCEPT !.spent = IF p \in q.dirty
                                                           THEN q.spent[p] ELSE @]]
    BY <1>2 DEF Disk!Saved
  <2>2. ASSUME NEW p \in Providers
        PROVE  [stored[p] EXCEPT !.spent = IF p \in q.dirty THEN q.spent[p] ELSE @] \in Row
    <3>1. stored[p] \in Row /\ q.spent[p] \in Nat
      BY <1>2
    <3>. QED
      BY <3>1 DEF Row
  <2>. QED
    BY <2>1, <2>2
<1>. QED
  BY <1>1, <1>2 DEF Request

\* Who holds the lock, or was left behind, reads the rows.
LEMMA InvReadRows ==
  ASSUME LedgerInv, NEW c \in Callers, ReadRows(c)
  PROVE  LedgerInv'
<1>1. PICK read \in {disk, Empty} :
        /\ copy' = [copy EXCEPT ![c] = read]
        /\ blind' = IF read = disk THEN blind ELSE blind \cup {c}
  BY DEF ReadRows
<1>2. /\ copy[c] = <<>> /\ UNCHANGED <<request, line, disk>>
      /\ beside' = IF LeftBeside(c) = {} THEN beside ELSE beside \cup LeftBeside(c) \cup {c}
      /\ UNCHANGED people /\ UNCHANGED memory /\ UNCHANGED seeding
      /\ UNCHANGED <<charged, crashes>>
  BY DEF ReadRows
<1>3. read \in [Providers -> Row] /\ read # <<>>
  BY NothingSaved, RowsAreThere DEF LedgerInv, StoreTypes
<1>4. \A d \in Callers : copy'[d] = IF d = c THEN read ELSE copy[d]
  BY <1>1 DEF LedgerInv, StoreTypes
<1>5. StoreTypes'
  BY <1>1, <1>2, <1>3 DEF LedgerInv, StoreTypes, LeftBeside
<1>6. LineInv'
  BY <1>2 DEF LedgerInv, LineInv, people
<1>7. \A d \in Callers : copy[d] # <<>> => d # c /\ "left" \in {pc[c], pc[d]}
  BY <1>2 DEF ReadRows, Works, Holds, LedgerInv, CopyInv
<1>8. CopyInv'
  <2>1. \A d \in Callers :
          copy'[d] # <<>> => (pc'[d] = "saving" /\ Head(line') = d) \/ pc'[d] = "left"
    BY <1>2, <1>4 DEF ReadRows, Works, Holds, LedgerInv, CopyInv, people
  <2>2. \A d \in beside' \cup blind' : copy'[d] # <<>>
    BY <1>1, <1>2, <1>3, <1>4 DEF LeftBeside, LedgerInv, CopyInv, StoreTypes
  <2>3. \A d \in Callers :
          copy'[d] # <<>> /\ d \notin beside' \cup blind' => copy'[d] = disk'
    BY <1>1, <1>2, <1>4 DEF LedgerInv, CopyInv
  <2>4. ASSUME NEW d \in Callers, NEW e \in Callers,
               copy'[d] # <<>>, copy'[e] # <<>>, d # e
        PROVE  d \in beside'
    <3>1. CASE d # c /\ e # c
      <4>1. d \in beside
        BY <1>4, <2>4, <3>1 DEF LedgerInv, CopyInv
      <4>. QED
        BY <1>2, <4>1
    <3>2. CASE d = c \/ e = c
      <4>1. LeftBeside(c) # {} /\ (d # c => d \in LeftBeside(c))
        BY <1>4, <1>7, <2>4, <3>2 DEF LeftBeside
      <4>. QED
        BY <1>2, <4>1
    <3>. QED
      BY <3>1, <3>2
  <2>. QED
    BY <2>1, <2>2, <2>3, <2>4 DEF CopyInv
<1>. QED
  BY <1>2, <1>5, <1>6, <1>8
  DEF LedgerInv, PeopleTypes, MemoryTypes, SeedTypes, CountTypes, people, memory, seeding

\* It replaces them, or fails to, or leaves a file that cannot be read.
LEMMA InvWriteRows ==
  ASSUME LedgerInv, NEW c \in Callers, WriteRows(c)
  PROVE  LedgerInv'
<1>1. PICK stage \in {"saved", "failed", "over"} :
        Moves(c, stage) /\ (stage = "over" <=> pc[c] = "left")
  BY DEF WriteRows
<1>2. /\ copy[c] # <<>> /\ copy' = [copy EXCEPT ![c] = <<>>]
      /\ request' = [request EXCEPT ![c] = NoRequest]
      /\ disk' \in {disk, Disk!Saved(copy[c], request[c]), Empty}
      /\ beside' = beside \ {c} /\ blind' = blind \ {c}
      /\ UNCHANGED <<of, taken, line, charged, crashes>>
      /\ UNCHANGED memory /\ UNCHANGED seeding
  BY DEF WriteRows
<1>3. /\ pc' \in [Callers -> Stages]
      /\ \A d \in Callers : pc'[d] = IF d = c THEN stage ELSE pc[d]
  BY <1>1 DEF LedgerInv, PeopleTypes, Moves, Stages
<1>4. (pc[c] = "saving" /\ Head(line) = c) \/ pc[c] = "left"
  BY <1>2 DEF LedgerInv, CopyInv
<1>5. copy[c] \in [Providers -> Row] /\ request[c] \in Request
  BY <1>2, <1>4 DEF LedgerInv, StoreTypes, LineInv
<1>6. disk' \in [Providers -> Row]
  BY <1>2, <1>5, SavedTypes, NothingSaved DEF LedgerInv, StoreTypes
<1>7. StoreTypes'
  BY <1>2, <1>6 DEF LedgerInv, StoreTypes
<1>8. \A d \in Callers : copy'[d] = IF d = c THEN <<>> ELSE copy[d]
  BY <1>2 DEF LedgerInv, StoreTypes
<1>9. LineInv'
  <2>1. \A d \in Callers : pc'[d] \in {"saved", "failed"} => Head(line') = d
    BY <1>1, <1>2, <1>3, <1>4 DEF LedgerInv, LineInv
  <2>2. \A d \in Callers : request'[d] # NoRequest <=> pc'[d] \in {"saving", "left"}
    BY <1>1, <1>2, <1>3 DEF LedgerInv, LineInv, StoreTypes
  <2>3. \A d \in Callers : In(line', d) <=> pc'[d] \in Saving
    BY <1>1, <1>2, <1>3, <1>4 DEF LedgerInv, LineInv, Saving
  <2>. QED
    BY <1>2, <2>1, <2>2, <2>3 DEF LedgerInv, LineInv
<1>10. CopyInv'
  <2>1. \A d \in Callers :
          copy'[d] # <<>> => (pc'[d] = "saving" /\ Head(line') = d) \/ pc'[d] = "left"
    BY <1>2, <1>3, <1>8 DEF LedgerInv, CopyInv
  <2>2. \A d \in beside' \cup blind' : copy'[d] # <<>>
    BY <1>2, <1>8 DEF LedgerInv, CopyInv, StoreTypes
  <2>3. \A d \in Callers : copy'[d] # <<>> => d \in beside'
    BY <1>2, <1>8 DEF LedgerInv, CopyInv
  <2>. QED
    BY <2>1, <2>2, <2>3 DEF CopyInv
<1>11. SeedTypes'
  BY <1>2, <1>3, <1>4, SeederKept
<1>. QED
  BY <1>2, <1>3, <1>7, <1>9, <1>10, <1>11
  DEF LedgerInv, PeopleTypes, MemoryTypes, CountTypes, memory

\* A cancelled run: before it has asked, while it waits, and at the lock.
LEMMA InvCancel ==
  ASSUME LedgerInv, NEW r \in Runs, Cancel(r)
  PROVE  LedgerInv'
<1>a. r \in Callers
  BY DEF Callers
<1>1. CASE CancelStart(r)
  <2>1. /\ pc[r] = "starting" /\ Moves(r, "over") /\ UNCHANGED store /\ UNCHANGED seeding
        /\ UNCHANGED <<of, taken, charged, crashes>> /\ UNCHANGED memory
    BY <1>1 DEF CancelStart
  <2>2. pc' \in [Callers -> Stages] /\ StoreTypes' /\ LineInv' /\ CopyInv'
    BY <1>a, <2>1, MovedOn DEF Stages, Saving
  <2>3. SeedTypes'
    BY <1>a, <2>1, SeederKept DEF Moves, LedgerInv, PeopleTypes
  <2>. QED
    BY <2>1, <2>2, <2>3 DEF LedgerInv, PeopleTypes, MemoryTypes, CountTypes, memory
<1>2. CASE CancelSeed(r)
  <2>1. /\ r \in seeder /\ Moves(r, "over") /\ seed' = "done" /\ seeder' = {}
        /\ UNCHANGED store /\ UNCHANGED <<of, taken, rows, charged, crashes>>
        /\ UNCHANGED memory
    BY <1>2 DEF CancelSeed
  <2>2. pc[r] = "seeding"
    BY <2>1 DEF LedgerInv, SeedTypes
  <2>3. pc' \in [Callers -> Stages] /\ StoreTypes' /\ LineInv' /\ CopyInv'
    BY <1>a, <2>1, <2>2, MovedOn DEF Stages, Saving
  <2>4. SeedTypes'
    BY <2>1 DEF LedgerInv, SeedTypes
  <2>. QED
    BY <2>1, <2>3, <2>4 DEF LedgerInv, PeopleTypes, MemoryTypes, CountTypes, memory
<1>3. CASE CancelSave(r)
  <2>1. PICK stage \in {"over", "left"} :
          /\ Moves(r, stage)
          /\ \/ /\ pc[r] = "saving" /\ copy[r] = <<>> /\ stage = "over"
                /\ request' = [request EXCEPT ![r] = NoRequest]
             \/ Holds(r) /\ stage = "left" /\ UNCHANGED request
             \/ pc[r] \in {"saved", "failed"} /\ stage = "over" /\ UNCHANGED request
    BY <1>3 DEF CancelSave
  <2>2. PICK i \in DOMAIN line : line[i] = r /\ line' = Without(line, i)
    BY <1>3 DEF CancelSave, Without
  <2>3. /\ UNCHANGED <<copy, disk, beside, blind>> /\ UNCHANGED memory /\ UNCHANGED seeding
        /\ UNCHANGED <<of, taken, charged, crashes>>
    BY <1>3 DEF CancelSave
  <2>4. line \in Seq(Callers) /\ Distinct(line)
    BY DEF LedgerInv, StoreTypes, LineInv
  <2>5. /\ line' \in Seq(Callers) /\ Distinct(line')
        /\ \A d : In(line', d) <=> In(line, d) /\ d # r
        /\ r # Head(line) => Head(line') = Head(line)
    BY <2>2, <2>4, LeftFrom
  <2>6. /\ pc' \in [Callers -> Stages] /\ pc[r] \in Saving
        /\ \A d \in Callers : pc'[d] = IF d = r THEN stage ELSE pc[d]
    BY <1>a, <2>1 DEF LedgerInv, PeopleTypes, Moves, Stages, Saving, Holds
  <2>7. StoreTypes'
    BY <2>1, <2>3, <2>5 DEF LedgerInv, StoreTypes
  <2>8. LineInv'
    <3>1. \A d \in Callers : In(line', d) <=> pc'[d] \in Saving
      BY <2>1, <2>5, <2>6 DEF LedgerInv, LineInv, Saving
    <3>2. \A d \in Callers : pc'[d] \in {"saved", "failed"} => Head(line') = d
      BY <2>1, <2>5, <2>6 DEF LedgerInv, LineInv
    <3>3. \A d \in Callers : request'[d] # NoRequest <=> pc'[d] \in {"saving", "left"}
      BY <1>a, <2>1, <2>6 DEF LedgerInv, LineInv, StoreTypes, Holds
    <3>. QED
      BY <2>5, <3>1, <3>2, <3>3 DEF LineInv
  <2>9. CopyInv'
    <3>1. \A d \in Callers :
            copy'[d] # <<>> => (pc'[d] = "saving" /\ Head(line') = d) \/ pc'[d] = "left"
      BY <1>a, <2>1, <2>3, <2>5, <2>6 DEF LedgerInv, CopyInv
    <3>. QED
      BY <2>3, <3>1 DEF LedgerInv, CopyInv
  <2>10. SeedTypes'
    BY <1>a, <2>3, <2>6, SeederKept DEF Saving
  <2>. QED
    BY <2>3, <2>6, <2>7, <2>8, <2>9, <2>10
    DEF LedgerInv, PeopleTypes, MemoryTypes, CountTypes, memory
<1>. QED
  BY <1>1, <1>2, <1>3 DEF Cancel

LEMMA InvCrash ==
  ASSUME LedgerInv, Crash
  PROVE  LedgerInv'
<1>1. /\ pc' \in [Callers -> Stages]
      /\ \A c \in Callers : pc'[c] \in {"new", "over"}
  BY DEF Crash, LedgerInv, PeopleTypes, Stages
<1>2. MemoryTypes' /\ SeedTypes'
  BY NothingSaved DEF Crash, LedgerInv, MemoryTypes, SeedTypes
<1>3. line' \in Seq(Callers) /\ \A c : ~In(line', c)
  BY DEF Crash, In
<1>4. StoreTypes'
  BY <1>3 DEF Crash, LedgerInv, StoreTypes
<1>5. LineInv'
  BY <1>1, <1>3 DEF Crash, LineInv, Saving, In, Distinct
<1>6. CopyInv'
  BY DEF Crash, CopyInv
<1>7. CountTypes'
  BY BudgetAssumption DEF BudgetAssumption, Crash, LedgerInv, CountTypes
<1>. QED
  BY <1>1, <1>2, <1>4, <1>5, <1>6, <1>7 DEF Crash, LedgerInv, PeopleTypes

LEMMA InvInductive == LedgerInv /\ [Next]_vars => LedgerInv'
<1> SUFFICES ASSUME LedgerInv, [Next]_vars
             PROVE  LedgerInv'
  OBVIOUS
<1>1. CASE UNCHANGED vars
  BY <1>1
  DEF vars, people, memory, seeding, store, LedgerInv, PeopleTypes, MemoryTypes, SeedTypes,
      StoreTypes, CountTypes, LineInv, CopyInv
<1>2. CASE Query \/ ReadFile \/ Seeded
  BY <1>2, InvSeed
<1>3. CASE Crash
  BY <1>3, InvCrash
<1>4. ASSUME NEW c \in Callers, Enter(c) \/ ReadRows(c) \/ WriteRows(c)
      PROVE  LedgerInv'
  BY <1>4, InvSeed, InvReadRows, InvWriteRows
<1>5. ASSUME NEW r \in Runs,
             \/ Start(r) \/ RecordStep(r) \/ EndRun(r) \/ Flush(r) \/ FlushDone(r)
             \/ Cancel(r)
      PROVE  LedgerInv'
  BY <1>5, InvRun, InvFlushDone, InvCancel
<1>6. ASSUME NEW s \in Setters, SetBudget(s) \/ SetDone(s)
      PROVE  LedgerInv'
  BY <1>6, InvSetter
<1>. QED
  BY <1>1, <1>2, <1>3, <1>4, <1>5, <1>6 DEF Next

LEMMA InitInv == Init => LedgerInv
<1> SUFFICES ASSUME Init
             PROVE  LedgerInv
  OBVIOUS
<1>1. PeopleTypes /\ MemoryTypes /\ SeedTypes
  BY NothingSaved, BudgetAssumption
  DEF Init, PeopleTypes, MemoryTypes, SeedTypes, Stages, BudgetAssumption
<1>2. line \in Seq(Callers) /\ \A c : ~In(line, c)
  BY DEF Init, In
<1>3. StoreTypes
  BY <1>2, NothingSaved DEF Init, StoreTypes
<1>4. LineInv
  BY <1>2 DEF Init, LineInv, Saving, In, Distinct
<1>5. CopyInv
  BY DEF Init, CopyInv
<1>6. CountTypes
  BY BudgetAssumption DEF Init, CountTypes, BudgetAssumption
<1>. QED
  BY <1>1, <1>3, <1>4, <1>5, <1>6 DEF LedgerInv

\* The types of BudgetLedger hold always, with who is in line at the lock.
THEOREM TypeCorrect == Spec => []TypeOK
<1>. QED
  BY InitInv, InvInductive, InvTypes, PTL DEF Spec

-----------------------------------------------------------------------------
(* No cost is counted twice: the amounts in memory, in the file, in what   *)
(* the seed and the callers have read and in what a caller wants saved are *)
(* all bounded by what the calls have cost.                                *)

Within(amounts) == \A p \in Providers : amounts[p].spent <= charged[p]

SpentInv ==
  /\ Within(account) /\ Within(disk) /\ Within(rows)
  /\ \A c \in Callers : copy[c] # <<>> => Within(copy[c])
  /\ \A c \in Callers :
       request[c] # NoRequest /\ request[c].kind = "spent" =>
         \A p \in Providers : request[c].spent[p] <= charged[p]

LEMMA EmptyWithin == LedgerInv => Within(Empty)
BY DEF LedgerInv, CountTypes, Within, Empty

\* Nothing to show where neither amounts nor requests are touched.
LEMMA SpentKept ==
  ASSUME SpentInv, UNCHANGED <<rows, disk, copy, request, charged>>,
         \A p \in Providers : account'[p].spent = account[p].spent
  PROVE  SpentInv'
BY DEF SpentInv, Within

LEMMA SavedWithin ==
  ASSUME NEW stored \in [Providers -> Row], NEW q \in Request, Within(stored),
         q.kind = "spent" => \A p \in Providers : q.spent[p] <= charged[p]
  PROVE  Within(Disk!Saved(stored, q))
<1>1. CASE q \in [kind : {"limit"}, provider : Providers, limit : Limits]
  <2>1. Disk!Saved(stored, q) = [stored EXCEPT ![q.provider].limit = q.limit]
    BY <1>1 DEF Disk!Saved
  <2>2. \A p \in Providers : Disk!Saved(stored, q)[p].spent = stored[p].spent
    BY <2>1 DEF Row
  <2>. QED
    BY <2>2 DEF Within
<1>2. CASE q \in [kind : {"spent"}, dirty : SUBSET Providers, spent : [Providers -> Nat]]
  <2>1. Disk!Saved(stored, q) =
          [p \in Providers |-> [stored[p] EXCEPT !.spent = IF p \in q.dirty
                                                           THEN q.spent[p] ELSE @]]
    BY <1>2 DEF Disk!Saved
  <2>2. \A p \in Providers :
          Disk!Saved(stored, q)[p].spent = IF p \in q.dirty THEN q.spent[p] ELSE stored[p].spent
    BY <2>1 DEF Row
  <2>. QED
    BY <1>2, <2>2 DEF Within
<1>. QED
  BY <1>1, <1>2 DEF Request

LEMMA SpentSaved ==
  ASSUME LedgerInv, SpentInv, NEW c \in Callers, WriteRows(c)
  PROVE  SpentInv'
<1>1. /\ copy[c] # <<>> /\ copy[c] \in [Providers -> Row]
      /\ request[c] \in Request /\ request[c] # NoRequest
  BY DEF WriteRows, LedgerInv, LineInv, CopyInv, StoreTypes
<1>2. /\ disk' \in {disk, Disk!Saved(copy[c], request[c]), Empty}
      /\ request' = [request EXCEPT ![c] = NoRequest]
      /\ copy' = [copy EXCEPT ![c] = <<>>]
      /\ UNCHANGED <<account, rows, charged>>
  BY DEF WriteRows, memory, seeding
<1>3. Within(disk')
  BY <1>1, <1>2, SavedWithin, EmptyWithin DEF SpentInv
<1>4. \A d \in Callers :
        /\ request'[d] # NoRequest => request'[d] = request[d]
        /\ copy'[d] # <<>> => copy'[d] = copy[d]
  BY <1>2 DEF LedgerInv, StoreTypes
<1>5. Within(account') /\ Within(rows')
  BY <1>2 DEF SpentInv
<1>. QED
  BY <1>2, <1>3, <1>4, <1>5 DEF SpentInv, Within

LEMMA SpentRead ==
  ASSUME LedgerInv, SpentInv, NEW c \in Callers, ReadRows(c)
  PROVE  SpentInv'
<1>1. copy' = [copy EXCEPT ![c] = disk] \/ copy' = [copy EXCEPT ![c] = Empty]
  BY DEF ReadRows
<1>2. \A d \in Callers : copy'[d] # <<>> => copy'[d] \in {copy[d], disk, Empty}
  BY <1>1 DEF LedgerInv, StoreTypes
<1>3. UNCHANGED <<account, rows, disk, request, charged>>
  BY DEF ReadRows, memory, seeding
<1>4. \A d \in Callers : copy'[d] # <<>> => Within(copy'[d])
  BY <1>1, <1>2, EmptyWithin DEF LedgerInv, StoreTypes, SpentInv
<1>. QED
  BY <1>3, <1>4 DEF SpentInv, Within

LEMMA SpentInductive == LedgerInv /\ SpentInv /\ [Next]_vars => SpentInv'
<1> SUFFICES ASSUME LedgerInv, SpentInv, [Next]_vars
             PROVE  SpentInv'
  OBVIOUS
<1>1. CASE UNCHANGED vars
  BY <1>1, SpentKept DEF vars, memory, seeding, store
<1>2. CASE Query
  BY <1>2, SpentKept DEF Query, memory, store
<1>3. CASE ReadFile
  BY <1>3, EmptyWithin DEF ReadFile, SpentInv, Within, memory, store
<1>4. CASE Seeded
  <2>1. \A p \in Providers : account'[p] \in {rows[p], account[p]}
    BY <1>4 DEF Seeded, Instead
  <2>. QED
    BY <1>4, <2>1 DEF Seeded, SpentInv, Within, store
<1>5. CASE Crash
  BY <1>5, EmptyWithin DEF Crash, SpentInv, Within
<1>6. ASSUME NEW c \in Callers, Enter(c)
      PROVE  SpentInv'
  BY <1>6, SpentKept DEF Enter, memory, seeding, store
<1>7. ASSUME NEW c \in Callers, ReadRows(c) \/ WriteRows(c)
      PROVE  SpentInv'
  BY <1>7, SpentRead, SpentSaved
<1>8. ASSUME NEW r \in Runs, Start(r) \/ EndRun(r) \/ FlushDone(r)
      PROVE  SpentInv'
  BY <1>8, SpentKept DEF Start, EndRun, FlushDone, Release, memory, seeding, store
<1>9. ASSUME NEW r \in Runs, RecordStep(r)
      PROVE  SpentInv'
  <2>1. \A p \in Providers :
          /\ charged'[p] = IF p = of[r] THEN charged[p] + 1 ELSE charged[p]
          /\ account'[p].spent = IF p = of[r] THEN account[p].spent + 1 ELSE account[p].spent
          /\ charged[p] \in Nat /\ account[p].spent \in Nat /\ disk[p].spent \in Nat
          /\ rows[p].spent \in Nat
    BY <1>9
    DEF RecordStep, LedgerInv, CountTypes, MemoryTypes, StoreTypes, SeedTypes, Row
  <2>2. UNCHANGED <<rows, disk, copy, request>>
    BY <1>9 DEF RecordStep, seeding, store
  <2>3. ASSUME NEW c \in Callers, request[c] # NoRequest, request[c].kind = "spent",
               NEW p \in Providers
        PROVE  request[c].spent[p] <= charged'[p]
    <3>1. request[c].spent[p] \in Nat
      BY <2>3 DEF LedgerInv, StoreTypes, Request
    <3>. QED
      BY <2>1, <2>3, <3>1 DEF SpentInv
  <2>4. Within(account)' /\ Within(disk)' /\ Within(rows)'
    BY <2>1, <2>2 DEF SpentInv, Within
  <2>5. ASSUME NEW c \in Callers, copy[c] # <<>>, NEW p \in Providers
        PROVE  copy[c][p].spent <= charged'[p]
    <3>1. copy[c][p].spent \in Nat
      BY <2>5 DEF LedgerInv, StoreTypes, Row
    <3>2. copy[c][p].spent <= charged[p]
      BY <2>5 DEF SpentInv, Within
    <3>. QED
      BY <2>1, <3>1, <3>2
  <2>. QED
    BY <2>2, <2>3, <2>4, <2>5 DEF SpentInv, Within
<1>10. ASSUME NEW r \in Runs, Flush(r)
       PROVE  SpentInv'
  <2>0. UNCHANGED <<account, rows, charged, disk, copy>>
    BY <1>10 DEF Flush, Ask, memory, seeding, store
  <2>1. CASE UNCHANGED store
    BY <1>10, <2>0, <2>1, SpentKept DEF store
  <2>2. CASE Ask(r, [kind |-> "spent", dirty |-> dirty,
                     spent |-> [p \in Providers |-> account[p].spent]])
    <3>1. \A c \in Callers :
            \/ request'[c] = request[c]
            \/ request'[c] = [kind |-> "spent", dirty |-> dirty,
                              spent |-> [p \in Providers |-> account[p].spent]]
      BY <2>2 DEF Ask, LedgerInv, StoreTypes
    <3>2. ASSUME NEW c \in Callers, request'[c] # NoRequest, request'[c].kind = "spent",
                 NEW p \in Providers
          PROVE  request'[c].spent[p] <= charged[p]
      <4>1. CASE request'[c] = request[c]
        BY <3>2, <4>1 DEF SpentInv
      <4>2. CASE request'[c] = [kind |-> "spent", dirty |-> dirty,
                                spent |-> [d \in Providers |-> account[d].spent]]
        <5>1. request'[c].spent = [d \in Providers |-> account[d].spent]
          BY <4>2
        <5>. QED
          BY <5>1 DEF SpentInv, Within
      <4>. QED
        BY <3>1, <4>1, <4>2
    <3>. QED
      BY <2>0, <3>2 DEF SpentInv, Within
  <2>. QED
    BY <1>10, <2>1, <2>2 DEF Flush
<1>11. ASSUME NEW s \in Setters, SetBudget(s)
       PROVE  SpentInv'
  <2>1. PICK l \in Limits :
          /\ account' = [account EXCEPT ![of[s]].limit = l]
          /\ Ask(s, [kind |-> "limit", provider |-> of[s], limit |-> l])
    BY <1>11 DEF SetBudget
  <2>2. \A p \in Providers : account'[p].spent = account[p].spent
    BY <2>1 DEF LedgerInv, MemoryTypes, Row
  <2>3. \A c \in Callers :
          \/ request'[c] = request[c]
          \/ request'[c] = [kind |-> "limit", provider |-> of[s], limit |-> l]
    BY <2>1 DEF Ask, LedgerInv, StoreTypes
  <2>4. UNCHANGED <<rows, disk, copy, charged>>
    BY <1>11, <2>1 DEF SetBudget, Ask, seeding
  <2>. QED
    BY <2>2, <2>3, <2>4 DEF SpentInv, Within
<1>12. ASSUME NEW s \in Setters, SetDone(s)
       PROVE  SpentInv'
  <2>1. \A p \in Providers : account'[p].spent = account[p].spent
    BY <1>12 DEF SetDone, LedgerInv, MemoryTypes, Row
  <2>. QED
    BY <1>12, <2>1, SpentKept DEF SetDone, Release, seeding
<1>13. ASSUME NEW r \in Runs, Cancel(r)
       PROVE  SpentInv'
  <2>1. UNCHANGED <<account, rows, disk, copy, charged>>
          /\ \A c \in Callers : request'[c] # NoRequest => request'[c] = request[c]
    BY <1>13
    DEF Cancel, CancelStart, CancelSeed, CancelSave, LedgerInv, StoreTypes, memory, seeding, store
  <2>. QED
    BY <2>1 DEF SpentInv, Within
<1>. QED
  BY <1>1, <1>2, <1>3, <1>4, <1>5, <1>6, <1>7, <1>8, <1>9, <1>10, <1>11, <1>12, <1>13 DEF Next

\* No LLM call is counted twice, in memory or in the file, also when a run
\* is seeded again after a restart, or while another one is being saved.
THEOREM CostsAreCountedOnce == Spec => []CountedOnce
<1>1. Init => SpentInv
  BY DEF Init, SpentInv, Within, Empty
<1>2. SpentInv => CountedOnce
  BY DEF SpentInv, Within, CountedOnce
<1>. QED
  BY <1>1, <1>2, InitInv, InvInductive, SpentInductive, PTL DEF Spec

-----------------------------------------------------------------------------
(* The file behind its lock is the abstract store: a write applies one     *)
(* request to the rows as they are, and all that is lost in a crash or     *)
(* with a cancelled run are requests.  What a thread writes that could not *)
(* read, or was not alone, is the request of an exposed client.            *)

LEMMA ExposedAsk == LedgerInv => beside \cup blind \subseteq Disk!Pending
BY DEF LedgerInv, StoreTypes, LineInv, CopyInv, Disk!Pending

LEMMA StoreAsked ==
  ASSUME LedgerInv, NEW c \in Callers, NEW q \in Request,
         pc[c] \notin Saving \cup {"left"}, Ask(c, q)
  PROVE  Disk!Submit
<1>1. c \in Callers \ Disk!Pending
  BY DEF Disk!Pending, LedgerInv, LineInv, Saving
<1>2. request'[c] # NoRequest /\ \A d \in Callers \ {c} : request'[d] = request[d]
  BY BudgetAssumption DEF BudgetAssumption, Ask, LedgerInv, StoreTypes
<1>. QED
  BY <1>1, <1>2 DEF Disk!Submit, Ask

\* What is saved stays as it is when the same is saved once more.
LEMMA SavedTwice ==
  ASSUME NEW stored \in [Providers -> Row], NEW q \in Request
  PROVE  Disk!Saved(Disk!Saved(stored, q), q) = Disk!Saved(stored, q)
<1> DEFINE once == Disk!Saved(stored, q)
<1>0. once \in [Providers -> Row]
  BY SavedTypes
<1>1. CASE q \in [kind : {"limit"}, provider : Providers, limit : Limits]
  <2>1. once = [stored EXCEPT ![q.provider].limit = q.limit]
    BY <1>1 DEF Disk!Saved
  <2>2. q.provider \in Providers /\ q.limit \in Limits
    BY <1>1
  <2>3. once[q.provider].limit = q.limit
    BY <2>1, <2>2 DEF Row
  <2> HIDE DEF once
  <2>4. Disk!Saved(once, q) = [once EXCEPT ![q.provider].limit = q.limit]
    BY <1>1 DEF Disk!Saved
  <2>5. [once[q.provider] EXCEPT !.limit = q.limit] = once[q.provider]
    BY <1>0, <2>2, <2>3 DEF Row
  <2>6. Disk!Saved(once, q) = once
    BY <1>0, <2>2, <2>4, <2>5
  <2>. QED
    BY <2>6 DEF once
<1>2. CASE q \in [kind : {"spent"}, dirty : SUBSET Providers, spent : [Providers -> Nat]]
  <2>1. once = [p \in Providers |-> [stored[p] EXCEPT !.spent = IF p \in q.dirty
                                                               THEN q.spent[p] ELSE @]]
    BY <1>2 DEF Disk!Saved
  <2>2. \A p \in q.dirty \cap Providers : once[p].spent = q.spent[p]
    BY <2>1 DEF Row
  <2> HIDE DEF once
  <2>3. Disk!Saved(once, q) =
          [p \in Providers |-> [once[p] EXCEPT !.spent = IF p \in q.dirty
                                                         THEN q.spent[p] ELSE @]]
    BY <1>2 DEF Disk!Saved
  <2>4. ASSUME NEW p \in Providers
        PROVE  [once[p] EXCEPT !.spent = IF p \in q.dirty THEN q.spent[p] ELSE @] = once[p]
    <3>1. once[p] \in Row
      BY <1>0
    <3>2. (IF p \in q.dirty THEN q.spent[p] ELSE once[p].spent) = once[p].spent
      BY <2>2
    <3>. QED
      BY <3>1, <3>2 DEF Row
  <2>5. Disk!Saved(once, q) = once
    BY <1>0, <2>3, <2>4
  <2>. QED
    BY <2>5 DEF once
<1>. QED
  BY <1>1, <1>2 DEF Request

LEMMA StoreWritten ==
  ASSUME LedgerInv, NEW c \in Callers, WriteRows(c)
  PROVE  Disk!Next
<1>1. /\ copy[c] # <<>> /\ copy[c] \in [Providers -> Row] /\ c \in Disk!Pending
      /\ request[c] \in Request
  BY DEF WriteRows, Disk!Pending, LedgerInv, LineInv, CopyInv, StoreTypes
<1>2. /\ c \notin beside \cup blind => copy[c] = disk
      /\ request' = [request EXCEPT ![c] = NoRequest]
      /\ beside' \cup blind' = (beside \cup blind) \ {c}
  BY <1>1 DEF WriteRows, LedgerInv, CopyInv
<1>3. CASE disk' = Disk!Saved(copy[c], request[c])
  <2>1. disk' = Disk!Saved(disk', request[c])
    BY <1>1, <1>3, SavedTwice
  <2>2. c \notin beside \cup blind => disk' = Disk!Saved(disk, request[c])
    BY <1>2, <1>3
  <2>3. disk' \in {Disk!Saved(disk', request[c]), Empty}
    BY <2>1, Zenon
  <2>. QED
    BY <1>1, <1>2, <2>2, <2>3, Zenon DEF Disk!Next, Disk!Apply
<1>4. CASE c \in beside /\ disk' = Empty
  <2>1. disk' \in {Disk!Saved(disk', request[c]), Empty} /\ c \in beside \cup blind
    BY <1>4
  <2>. QED
    BY <1>1, <1>2, <2>1, Zenon DEF Disk!Next, Disk!Apply
<1>5. CASE UNCHANGED disk
  <2>1. {c} \in SUBSET Disk!Pending
    BY <1>1
  <2>2. request' = [d \in Callers |-> IF d \in {c} THEN NoRequest ELSE request[d]]
    BY <1>2 DEF LedgerInv, StoreTypes
  <2>. QED
    BY <1>2, <1>5, <2>1, <2>2, Zenon DEF Disk!Next, Disk!Withdraw
<1>6. \/ disk' = Disk!Saved(copy[c], request[c])
      \/ c \in beside /\ disk' = Empty
      \/ UNCHANGED disk
  BY DEF WriteRows
<1>. QED
  BY <1>3, <1>4, <1>5, <1>6

LEMMA StoreRead ==
  ASSUME LedgerInv, NEW c \in Callers, ReadRows(c)
  PROVE  Disk!Expose
<1>1. request[c] # NoRequest /\ \A d \in LeftBeside(c) : request[d] # NoRequest
  BY DEF ReadRows, Works, Holds, LeftBeside, LedgerInv, LineInv, CopyInv
<1>2. \E S \in SUBSET (LeftBeside(c) \cup {c}) :
        beside' \cup blind' = (beside \cup blind) \cup S
  <2>1. CASE LeftBeside(c) = {} /\ UNCHANGED blind
    <3>1. {} \in SUBSET (LeftBeside(c) \cup {c})
            /\ beside' \cup blind' = (beside \cup blind) \cup {}
      BY <2>1 DEF ReadRows
    <3>. QED
      BY <3>1
  <2>2. CASE LeftBeside(c) = {} /\ blind' = blind \cup {c}
    <3>1. {c} \in SUBSET (LeftBeside(c) \cup {c})
            /\ beside' \cup blind' = (beside \cup blind) \cup {c}
      BY <2>2 DEF ReadRows
    <3>. QED
      BY <3>1
  <2>3. CASE LeftBeside(c) # {}
    <3>1. beside' \cup blind' = (beside \cup blind) \cup (LeftBeside(c) \cup {c})
      BY <2>3 DEF ReadRows
    <3>. QED
      BY <3>1
  <2>. QED
    BY <2>1, <2>2, <2>3 DEF ReadRows
<1>3. LeftBeside(c) \cup {c} \subseteq Disk!Pending
  BY <1>1 DEF Disk!Pending, LeftBeside
<1>4. UNCHANGED <<disk, request>>
  BY DEF ReadRows
<1>. QED
  BY <1>2, <1>3, <1>4 DEF Disk!Expose

LEMMA StoreCancelled ==
  ASSUME LedgerInv, NEW r \in Runs, Cancel(r)
  PROVE  Disk!Withdraw \/ UNCHANGED <<disk, request, beside \cup blind>>
<1>1. UNCHANGED <<disk, beside, blind>>
  BY DEF Cancel, CancelStart, CancelSeed, CancelSave, store
<1>2. CASE UNCHANGED request
  BY <1>1, <1>2
<1>3. CASE pc[r] = "saving" /\ copy[r] = <<>> /\ request' = [request EXCEPT ![r] = NoRequest]
  <2>1. {r} \in SUBSET Disk!Pending
    BY <1>3 DEF Disk!Pending, Callers, LedgerInv, LineInv
  <2>2. request' = [d \in Callers |-> IF d \in {r} THEN NoRequest ELSE request[d]]
    BY <1>3 DEF LedgerInv, StoreTypes
  <2>3. beside' \cup blind' = (beside \cup blind) \ {r}
    BY <1>1, <1>3 DEF LedgerInv, CopyInv
  <2>. QED
    BY <1>1, <2>1, <2>2, <2>3, Zenon DEF Disk!Withdraw
<1>. QED
  BY <1>2, <1>3 DEF Cancel, CancelStart, CancelSeed, CancelSave, store

LEMMA StoreCrashed ==
  ASSUME LedgerInv, Crash
  PROVE  Disk!Withdraw
<1>1. request' = [d \in Callers |-> IF d \in Disk!Pending THEN NoRequest ELSE request[d]]
  BY DEF Crash, Disk!Pending, LedgerInv, StoreTypes
<1>2. beside' \cup blind' = (beside \cup blind) \ Disk!Pending
  BY ExposedAsk DEF Crash
<1>. QED
  BY <1>1, <1>2 DEF Crash, Disk!Withdraw

LEMMA StoreStep ==
  LedgerInv /\ [Next]_vars => [Disk!Next]_<<disk, request, beside \cup blind>>
<1> DEFINE Same == UNCHANGED <<disk, request, beside \cup blind>>
<1> SUFFICES ASSUME LedgerInv, [Next]_vars
             PROVE  Disk!Next \/ Same
  OBVIOUS
<1>1. CASE UNCHANGED vars \/ Query \/ ReadFile \/ Seeded
  BY <1>1 DEF vars, Query, ReadFile, Seeded, store
<1>2. CASE Crash
  BY <1>2, StoreCrashed DEF Disk!Next
<1>3. ASSUME NEW c \in Callers, Enter(c) \/ ReadRows(c) \/ WriteRows(c)
      PROVE  Disk!Next \/ Same
  <2>1. CASE Enter(c)
    BY <2>1 DEF Enter, store
  <2>. QED
    BY <1>3, <2>1, StoreRead, StoreWritten DEF Disk!Next
<1>4. ASSUME NEW r \in Runs,
             Start(r) \/ RecordStep(r) \/ EndRun(r) \/ Flush(r) \/ FlushDone(r)
      PROVE  Disk!Next \/ Same
  <2>1. CASE Flush(r) /\ ~UNCHANGED store
    <3>1. r \in Callers /\ pc[r] \notin Saving \cup {"left"}
      BY <2>1 DEF Flush, Callers, Saving
    <3>2. [kind |-> "spent", dirty |-> dirty,
           spent |-> [p \in Providers |-> account[p].spent]] \in Request
      BY DEF LedgerInv, MemoryTypes, Row, Request
    <3>3. Ask(r, [kind |-> "spent", dirty |-> dirty,
                  spent |-> [p \in Providers |-> account[p].spent]])
      BY <2>1 DEF Flush
    <3>. QED
      BY <3>1, <3>2, <3>3, StoreAsked DEF Disk!Next
  <2>2. CASE Start(r) \/ RecordStep(r) \/ EndRun(r) \/ UNCHANGED store
    BY <2>2 DEF Start, RecordStep, EndRun, store
  <2>3. CASE FlushDone(r)
    BY <2>3 DEF FlushDone, Release
  <2>. QED
    BY <1>4, <2>1, <2>2, <2>3
<1>5. ASSUME NEW s \in Setters, SetBudget(s) \/ SetDone(s)
      PROVE  Disk!Next \/ Same
  <2>1. CASE SetBudget(s)
    <3>1. s \in Callers /\ pc[s] \notin Saving \cup {"left"} /\ of[s] \in Providers
      BY <2>1 DEF SetBudget, Callers, Saving, LedgerInv, PeopleTypes
    <3>2. PICK l \in Limits : Ask(s, [kind |-> "limit", provider |-> of[s], limit |-> l])
      BY <2>1 DEF SetBudget
    <3>3. [kind |-> "limit", provider |-> of[s], limit |-> l] \in Request
      BY <3>1 DEF Request
    <3>. QED
      BY <3>1, <3>2, <3>3, StoreAsked DEF Disk!Next
  <2>2. CASE SetDone(s)
    BY <2>2 DEF SetDone, Release
  <2>. QED
    BY <1>5, <2>1, <2>2
<1>6. ASSUME NEW r \in Runs, Cancel(r)
      PROVE  Disk!Next \/ Same
  BY <1>6, StoreCancelled DEF Disk!Next
<1>. QED
  BY <1>1, <1>2, <1>3, <1>4, <1>5, <1>6 DEF Next

\* The ledger's file implements the store, for any callers, crashes and
\* cancelled runs: a request keeps what others have saved unless its thread could
\* not read the rows, or worked next to one that was left behind.
THEOREM LedgerImplementsStore == Spec => ImplementsStore
<1>1. Init => Disk!Pending = {} /\ beside \cup blind = {}
  BY DEF Init, Disk!Pending
<1>. QED
  BY <1>1, InitInv, InvInductive, StoreStep, PTL DEF Spec, ImplementsStore, Disk!Spec

=============================================================================
