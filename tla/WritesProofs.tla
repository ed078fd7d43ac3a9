---------------------------- MODULE WritesProofs ----------------------------
(***************************************************************************)
(* For any users, writes, limit of the pipeline and troubles:              *)
(*                                                                         *)
(*  - ids rise along every queue and stay below the next one, so the       *)
(*    batches behind the pipeline are the ones FillWritePipeline finds,    *)
(*    the pipeline is the front of the queue, and what a stream carries,   *)
(*    answers before requests, is the pipeline in its order (Core);        *)
(*                                                                         *)
(*  - an answer that calls a write saved names the place of that write in  *)
(*    the backend's log, so the cache only holds what the backend had, and *)
(*    the listener sees that or the last local write (Truthful);           *)
(*                                                                         *)
(*  - every callback waits for a batch of its user's queue, and every      *)
(*    batch has its callback unless the process is gone (Told);            *)
(*                                                                         *)
(*  - writes are new when they are issued (Issued).                        *)
(*                                                                         *)
(* All four together are kept by every step, which is then a step of       *)
(* WriteQueue or leaves its queues alone.                                  *)
(***************************************************************************)
EXTENDS Writes, SequenceTheorems, WellFoundedInduction, TLAPS

Requested == [kind : {"handshake", "write"}, write : 0..MaxWrites]
Answers   == [kind : {"handshake", "saved", "refused"}, write : 0..MaxWrites, version : Nat]
Cached    == [value : 0..MaxWrites, version : Nat, committed : BOOLEAN]
Views     == [value : 0..MaxWrites, local : BOOLEAN]

Rising(q) ==
    /\ q \in Seq(Batches)
    /\ \A i \in 1..Len(q) : q[i].id > 0
    /\ \A i, j \in 1..Len(q) : i < j => q[i].id < q[j].id

Size(q) == IF Limit <= Len(q) THEN Limit ELSE Len(q)

\* p is a part of the front of q that the limit allows, or all of it.
Part(p, q) ==
    /\ p \in Seq(Batches) /\ Len(p) <= Size(q)
    /\ \A i \in 1..Len(p) : p[i] = q[i]
Front(p, q) == Part(p, q) /\ Len(p) = Size(q)

\* The answers d and the requests s of a stream are those of the batches p.
Carries(d, s, p) ==
    /\ Len(d) + Len(s) = Len(p)
    /\ \A i \in 1..Len(d) : d[i].kind # "handshake" /\ d[i].write = p[i].write
    /\ \A i \in 1..Len(s) : s[i].kind = "write" /\ s[i].write = p[Len(d) + i].write

Extends(new, p) == Len(p) <= Len(new) /\ \A i \in 1..Len(p) : new[i] = p[i]

Greeting == [kind |-> "handshake", write |-> 0, version |-> 0]

----------------------------------------------------------------------------
(* Sets of numbers. *)

LEMMA LessIsWellFounded == IsWellFoundedOn({s \in Nat \X Nat : s[1] < s[2]}, Nat)
  BY NatLessThanWellFounded DEF OpToRel

LEMMA Least ==
  ASSUME NEW T, T \subseteq Nat, T # {}
  PROVE  \E x \in T : \A y \in T : x <= y
  <1>. DEFINE R == {s \in Nat \X Nat : s[1] < s[2]}
  <1>1. PICK x \in T : \A y \in T : <<y, x>> \notin R
    <2>. HIDE DEF R
    <2>1. IsWellFoundedOn(R, Nat)
      BY LessIsWellFounded DEF R
    <2>. QED
      BY <2>1, WFMin
  <1>2. ASSUME NEW y \in T  PROVE x <= y
    <2>1. x \in Nat /\ y \in Nat
      OBVIOUS
    <2>2. ~(y < x)
      BY <1>1, <2>1
    <2>. QED
      BY <2>1, <2>2
  <1>. QED
    BY <1>2

\* A bounded set of numbers that has 0 has a greatest element.
LEMMA MaxThere ==
  ASSUME NEW S, S \subseteq Nat, 0 \in S, NEW n \in Nat, \A y \in S : y <= n
  PROVE  Max(S) \in S /\ \A y \in S : y <= Max(S)
  <1>. DEFINE T == {m \in Nat : \A y \in S : y <= m}
  <1>1. PICK m \in T : \A k \in T : m <= k
    BY Least
  <1>2. m \in S
    <2>1. CASE m = 0
      BY <2>1
    <2>2. CASE m # 0
      <3>1. m - 1 \in Nat /\ m - 1 \notin T
        BY <1>1, <2>2
      <3>2. PICK y \in S : ~(y <= m - 1)
        BY <3>1
      <3>. QED
        BY <1>1, <3>2
    <2>. QED
      BY <2>1, <2>2
  <1>. HIDE DEF T
  <1>3. \A y \in S : m >= y
    BY <1>1 DEF T
  <1>. QED
    BY <1>2, <1>3 DEF Max

LEMMA MinIs ==
  ASSUME NEW S, S \subseteq Nat, NEW m \in S, \A y \in S : m <= y
  PROVE  Min(S) = m
  <1>1. \A x \in S : (\A y \in S : x <= y) => x = m
    OBVIOUS
  <1>. QED
    BY <1>1 DEF Min

LEMMA MinOfTwo ==
  ASSUME NEW a \in Nat, NEW b \in Nat
  PROVE  Min({a, b}) = IF a <= b THEN a ELSE b
  <1>. DEFINE m == IF a <= b THEN a ELSE b
              S == {a, b}
  <1>1. m \in S /\ \A y \in S : m <= y
    OBVIOUS
  <1>2. S \subseteq Nat
    OBVIOUS
  <1>. HIDE DEF m, S
  <1>3. Min(S) = m
    BY <1>1, <1>2, MinIs
  <1>. QED
    BY <1>3 DEF m, S

----------------------------------------------------------------------------
(* Queues and their fronts. *)

LEMMA Sizes ==
  ASSUME NEW q \in Seq(Batches)
  PROVE  /\ Size(q) \in Nat /\ Size(q) <= Len(q) /\ Size(q) <= Limit
         /\ Size(q) = Min({Limit, Len(q)}) /\ Size(q) = Min({Len(q), Limit})
         /\ q # <<>> => Size(q) > 0
  <1>1. Limit \in Nat /\ Limit > 0 /\ Len(q) \in Nat /\ (q # <<>> => Len(q) > 0)
    BY WritesAssumption
  <1>. QED
    BY <1>1, MinOfTwo DEF Size

LEMMA Prefix ==
  ASSUME NEW q \in Seq(Batches), NEW n \in Nat, n <= Len(q)
  PROVE  /\ SubSeq(q, 1, n) \in Seq(Batches) /\ Len(SubSeq(q, 1, n)) = n
         /\ \A i \in 1..n : SubSeq(q, 1, n)[i] = q[i]
  <1>1. SubSeq(q, 1, n) \in Seq(Batches)
    OBVIOUS
  <1>2. Len(SubSeq(q, 1, n)) = n
    OBVIOUS
  <1>3. \A i \in 1..n : SubSeq(q, 1, n)[i] = q[i]
    OBVIOUS
  <1>. QED
    BY <1>1, <1>2, <1>3

LEMMA FrontIsSubSeq ==
  ASSUME NEW p, NEW q \in Seq(Batches), Front(p, q)
  PROVE  p = SubSeq(q, 1, Min({Limit, Len(q)}))
  <1>. DEFINE s == SubSeq(q, 1, Size(q))
  <1>1. Size(q) = Min({Limit, Len(q)}) /\ Size(q) \in Nat /\ Size(q) <= Len(q)
    BY Sizes
  <1>2. p \in Seq(Batches) /\ Len(p) = Size(q) /\ \A i \in 1..Size(q) : p[i] = q[i]
    BY DEF Front, Part
  <1>3. s \in Seq(Batches) /\ Len(s) = Size(q) /\ \A i \in 1..Size(q) : s[i] = q[i]
    <2>. HIDE DEF Size
    <2>. QED
      BY <1>1, Prefix
  <1>. HIDE DEF s
  <1>4. p = s
    BY <1>2, <1>3, SeqEqual
  <1>. QED
    BY <1>1, <1>4 DEF s

\* What is taken from the queue continues the pipeline up to the limit.
LEMMA FilledIsFront ==
  ASSUME NEW p, NEW q, Rising(q), Part(p, q)
  PROVE  Front(Filled(p, q), q)
  <1>1. /\ q \in Seq(Batches) /\ p \in Seq(Batches) /\ Limit \in Nat
        /\ Len(q) \in Nat /\ Len(p) \in Nat /\ DOMAIN q = 1..Len(q)
        /\ Len(p) <= Len(q) /\ Len(p) <= Limit
        /\ \A i \in 1..Len(p) : p[i] = q[i]
    <2>1. q \in Seq(Batches) /\ p \in Seq(Batches) /\ Limit \in Nat /\ Len(p) <= Size(q)
          /\ \A i \in 1..Len(p) : p[i] = q[i]
      BY WritesAssumption DEF Part, Rising
    <2>2. Size(q) <= Len(q) /\ Size(q) <= Limit /\ Size(q) \in Nat
      BY <2>1, Sizes
    <2>. QED
      BY <2>1, <2>2
  <1>2. \A i \in 1..Len(q) : q[i].id \in Nat
    <2>1. \A i \in 1..Len(q) : q[i] \in Batches
      BY <1>1, ElementOfSeq
    <2>. QED
      BY <2>1 DEF Batches
  <1>. DEFINE last  == IF p = <<>> THEN 0 ELSE p[Len(p)].id
              S     == {i \in DOMAIN q : q[i].id > last} \cup {Len(q) + 1}
              first == Min(S)
              end   == Min({Len(q), first + Limit - Len(p) - 1})
              more  == SubSeq(q, Len(p) + 1, Size(q))
  <1>3. \A i \in 1..Len(q) : q[i].id > last <=> i > Len(p)
    <2>. TAKE i \in 1..Len(q)
    <2>1. CASE p = <<>>
      BY <1>1, <2>1 DEF Rising
    <2>2. CASE p # <<>>
      <3>1. Len(p) \in 1..Len(q) /\ last = q[Len(p)].id
        BY <1>1, <2>2
      <3>. HIDE DEF last
      <3>. QED
        BY <1>1, <1>2, <3>1 DEF Rising
    <2>. QED
      BY <2>1, <2>2
  <1>4. first = Len(p) + 1
    <2>. HIDE DEF last
    <2>1. S = (Len(p) + 1)..(Len(q) + 1)
      BY <1>1, <1>3
    <2>. HIDE DEF S
    <2>2. S \subseteq Nat /\ Len(p) + 1 \in S /\ \A y \in S : Len(p) + 1 <= y
      BY <1>1, <2>1
    <2>. QED
      BY <2>2, MinIs
  <1>5. end = Size(q)
    <2>. HIDE DEF S, first
    <2>1. first + Limit - Len(p) - 1 = Limit
      BY <1>1, <1>4
    <2>. QED
      BY <1>1, <2>1, Sizes
  <1>6. Filled(p, q) = p \o more
    <2>1. Filled(p, q) = p \o SubSeq(q, first, end)
      BY DEF Filled
    <2>. HIDE DEF S, first, end
    <2>. QED
      BY <2>1, <1>4, <1>5
  <1>. HIDE DEF last, S, first, end
  <1>7. Size(q) \in Nat /\ Size(q) <= Len(q) /\ Len(p) <= Size(q)
    BY <1>1, Sizes DEF Part
  <1>. HIDE DEF Size
  <1>8. /\ more \in Seq(Batches) /\ Len(more) = Size(q) - Len(p)
        /\ \A i \in 1..(Size(q) - Len(p)) : more[i] = q[Len(p) + i]
    BY <1>1, <1>7
  <1>. HIDE DEF more
  <1>9. /\ Filled(p, q) \in Seq(Batches) /\ Len(Filled(p, q)) = Size(q)
        /\ \A i \in 1..Size(q) :
               Filled(p, q)[i] = IF i <= Len(p) THEN p[i] ELSE more[i - Len(p)]
    <2>1. Len(p) + Len(more) = Size(q)
      BY <1>1, <1>7, <1>8
    <2>2. /\ p \o more \in Seq(Batches) /\ Len(p \o more) = Len(p) + Len(more)
          /\ \A i \in 1..(Len(p) + Len(more)) :
                 (p \o more)[i] = IF i <= Len(p) THEN p[i] ELSE more[i - Len(p)]
      BY <1>1, <1>8, ConcatProperties
    <2>. QED
      BY <2>1, <2>2, <1>6
  <1>10. \A i \in 1..Size(q) : Filled(p, q)[i] = q[i]
    <2>. TAKE i \in 1..Size(q)
    <2>1. CASE i <= Len(p)
      BY <2>1, <1>1, <1>7, <1>9
    <2>2. CASE ~(i <= Len(p))
      <3>1. i - Len(p) \in 1..(Size(q) - Len(p)) /\ Len(p) + (i - Len(p)) = i
        BY <2>2, <1>1, <1>7
      <3>2. Filled(p, q)[i] = more[i - Len(p)]
        BY <2>2, <1>9
      <3>3. more[i - Len(p)] = q[Len(p) + (i - Len(p))]
        BY <3>1, <1>8
      <3>. QED
        BY <3>1, <3>2, <3>3
    <2>. QED
      BY <2>1, <2>2
  <1>. QED
    BY <1>7, <1>9, <1>10 DEF Front, Part

LEMMA EmptyIsPart ==
  ASSUME NEW q, Rising(q)
  PROVE  Part(<<>>, q)
  <1>1. Size(q) \in Nat
    BY Sizes DEF Rising
  <1>. QED
    BY <1>1 DEF Part

LEMMA Appended ==
  ASSUME NEW q, Rising(q), NEW p, Front(p, q), NEW b \in Batches,
         b.id > 0, \A i \in 1..Len(q) : q[i].id < b.id
  PROVE  /\ Rising(Append(q, b)) /\ Part(p, Append(q, b))
         /\ Append(q, b) \in Seq(Batches) /\ Len(Append(q, b)) = Len(q) + 1
         /\ \A i \in 1..Len(q) : Append(q, b)[i] = q[i]
         /\ Append(q, b)[Len(q) + 1] = b
  <1>1. q \in Seq(Batches) /\ Len(q) \in Nat /\ Limit \in Nat
    BY WritesAssumption DEF Rising
  <1>. DEFINE r == Append(q, b)
  <1>2. /\ r \in Seq(Batches) /\ Len(r) = Len(q) + 1
        /\ \A i \in 1..Len(q) : r[i] = q[i]
        /\ r[Len(q) + 1] = b
    BY <1>1
  <1>. HIDE DEF r
  <1>3. \A i \in 1..Len(r) : i \in 1..Len(q) \/ i = Len(q) + 1
    BY <1>1, <1>2
  <1>4. Rising(r)
    <2>1. \A i \in 1..Len(r) : r[i].id > 0
      BY <1>2, <1>3 DEF Rising
    <2>2. \A i, j \in 1..Len(r) : i < j => i \in 1..Len(q)
      BY <1>1, <1>2
    <2>3. \A i, j \in 1..Len(r) : i < j => r[i].id < r[j].id
      BY <1>2, <1>3, <2>2 DEF Rising
    <2>. QED
      BY <1>2, <2>1, <2>3 DEF Rising
  <1>5. Part(p, r)
    <2>1. Size(q) <= Size(r) /\ Size(q) <= Len(q) /\ Size(q) \in Nat /\ Size(r) \in Nat
      BY <1>1, <1>2 DEF Size
    <2>2. p \in Seq(Batches) /\ Len(p) = Size(q) /\ \A i \in 1..Len(p) : p[i] = q[i]
      BY DEF Front, Part
    <2>. HIDE DEF Size
    <2>. QED
      BY <1>1, <1>2, <2>1, <2>2 DEF Part
  <1>. QED
    BY <1>2, <1>4, <1>5 DEF r

LEMMA Tails ==
  ASSUME NEW q \in Seq(Batches), q # <<>>
  PROVE  /\ Tail(q) \in Seq(Batches) /\ Len(q) \in Nat /\ Len(q) > 0
         /\ Len(Tail(q)) = Len(q) - 1 /\ Head(q) = q[1] /\ q[1] \in Batches
         /\ \A i \in 1..Len(Tail(q)) : Tail(q)[i] = q[i + 1]
  <1>1. Len(q) \in Nat /\ Len(q) > 0
    BY EmptySeq
  <1>2. /\ Tail(q) \in Seq(Batches) /\ Len(Tail(q)) = Len(q) - 1
        /\ \A i \in 1..Len(Tail(q)) : Tail(q)[i] = q[i + 1]
    BY <1>1, HeadTailProperties
  <1>3. Head(q) = q[1] /\ q[1] \in Batches
    BY <1>1, ElementOfSeq
  <1>. QED
    BY <1>1, <1>2, <1>3

\* The batch at the front leaves the queue, and the pipeline with it.
LEMMA FrontRemoved ==
  ASSUME NEW q, Rising(q), NEW p, Front(p, q), q # <<>>
  PROVE  /\ p # <<>> /\ Head(p) = q[1] /\ p[1] = q[1] /\ Len(p) > 0
         /\ Without(q, q[1].id) = Tail(q)
         /\ Rising(Tail(q)) /\ Part(Tail(p), Tail(q))
  <1>1. q \in Seq(Batches) /\ Len(q) \in Nat /\ DOMAIN q = 1..Len(q)
        /\ p \in Seq(Batches) /\ Limit \in Nat
    BY WritesAssumption DEF Rising, Front, Part
  <1>2. /\ Tail(q) \in Seq(Batches) /\ Len(q) > 0 /\ Len(Tail(q)) = Len(q) - 1
        /\ \A i \in 1..Len(Tail(q)) : Tail(q)[i] = q[i + 1]
    BY <1>1, Tails
  <1>3. /\ Len(p) = Size(q) /\ Size(q) > 0 /\ Size(q) \in Nat /\ Size(q) <= Len(q)
        /\ \A i \in 1..Len(p) : p[i] = q[i]
    BY <1>1, Sizes DEF Front, Part
  <1>. HIDE DEF Size
  <1>4. p # <<>> /\ Head(p) = q[1] /\ p[1] = q[1] /\ Len(p) > 0
    BY <1>1, <1>3
  <1>5. Without(q, q[1].id) = Tail(q)
    <2>. DEFINE S == {j \in DOMAIN q : q[j].id = q[1].id} \cup {Len(q) + 1}
    <2>1. S \subseteq Nat /\ 1 \in S /\ \A y \in S : 1 <= y
      BY <1>1, <1>2
    <2>. HIDE DEF S
    <2>2. Min(S) = 1
      BY <2>1, MinIs
    <2>3. Without(q, q[1].id) = SubSeq(q, 1, Min(S) - 1) \o SubSeq(q, Min(S) + 1, Len(q))
      BY DEF Without, S
    <2>4. SubSeq(q, 1, 0) = <<>> /\ Min(S) - 1 = 0 /\ Min(S) + 1 = 2
      BY <2>2, SubSeqEmpty
    <2>5. SubSeq(q, 2, Len(q)) = Tail(q)
      BY <1>1, TailIsSubSeq
    <2>. QED
      BY <1>2, <2>3, <2>4, <2>5, ConcatEmptySeq
  <1>6. Rising(Tail(q))
    <2>1. \A i \in 1..Len(Tail(q)) : i \in Int /\ i + 1 \in 1..Len(q)
      BY <1>1, <1>2
    <2>2. \A i, j \in 1..Len(Tail(q)) : i < j => i + 1 < j + 1
      BY <1>1, <1>2
    <2>. QED
      BY <1>2, <2>1, <2>2 DEF Rising
  <1>7. Part(Tail(p), Tail(q))
    <2>1. /\ Tail(p) \in Seq(Batches) /\ Len(Tail(p)) = Len(p) - 1
          /\ \A i \in 1..Len(Tail(p)) : Tail(p)[i] = p[i + 1]
      BY <1>1, <1>4, Tails
    <2>2. Size(q) - 1 <= Size(Tail(q))
      BY <1>1, <1>2 DEF Size
    <2>3. \A i \in 1..Len(Tail(p)) : i + 1 \in 1..Len(p) /\ i \in 1..Len(Tail(q))
      BY <1>1, <1>2, <1>3, <2>1
    <2>4. \A i \in 1..Len(Tail(p)) : Tail(p)[i] = Tail(q)[i]
      BY <1>2, <1>3, <2>1, <2>3
    <2>. QED
      BY <1>3, <2>1, <2>2, <2>4 DEF Part
  <1>. QED
    BY <1>4, <1>5, <1>6, <1>7

----------------------------------------------------------------------------
(* The pipeline is filled. *)

LEMMA RequestsOf ==
  ASSUME NEW p \in Seq(Batches)
  PROVE  /\ Requests(p) \in Seq(Requested) /\ Len(Requests(p)) = Len(p)
         /\ \A i \in 1..Len(p) : Requests(p)[i] = [kind |-> "write", write |-> p[i].write]
  <1>1. DOMAIN p = 1..Len(p) /\ Len(p) \in Nat
    OBVIOUS
  <1>2. \A i \in 1..Len(p) : Request(p[i]) \in Requested
    <2>. TAKE i \in 1..Len(p)
    <2>1. p[i] \in Batches
      BY ElementOfSeq
    <2>. QED
      BY <2>1, WritesAssumption DEF Request, Requested, Batches, AllWrites
  <1>3. Requests(p) = [i \in 1..Len(p) |-> Request(p[i])]
    BY <1>1 DEF Requests
  <1>4. Requests(p) \in [1..Len(p) -> Requested]
    BY <1>2, <1>3
  <1>5. Requests(p) \in Seq(Requested) /\ Len(Requests(p)) = Len(p)
    BY <1>1, <1>4
  <1>. QED
    BY <1>3, <1>5 DEF Request

LEMMA Joined ==
  ASSUME NEW s \in Seq(Requested), NEW t \in Seq(Requested)
  PROVE  /\ s \o t \in Seq(Requested) /\ Len(s \o t) = Len(s) + Len(t)
         /\ Len(s) \in Nat /\ Len(t) \in Nat
         /\ \A i \in 1..Len(s) : (s \o t)[i] = s[i]
         /\ \A i \in 1..Len(t) : (s \o t)[Len(s) + i] = t[i]
  <1>1. /\ s \o t \in Seq(Requested) /\ Len(s \o t) = Len(s) + Len(t)
        /\ Len(s) \in Nat /\ Len(t) \in Nat
    OBVIOUS
  <1>2. \A i \in 1..Len(s) : (s \o t)[i] = s[i]
    OBVIOUS
  <1>3. \A i \in 1..Len(t) : (s \o t)[Len(s) + i] = t[i]
    OBVIOUS
  <1>. QED
    BY <1>1, <1>2, <1>3

LEMMA Behind ==
  ASSUME NEW a \in Nat, NEW b \in Nat, NEW c \in Nat, NEW n \in Nat, NEW e,
         a + b = c, e = b + (n - c)
  PROVE  a + e = n
  OBVIOUS

LEMMA Regroup ==
  ASSUME NEW a \in Nat, NEW b \in Nat, NEW j \in Nat
  PROVE  a + (b + j) = (a + b) + j
  OBVIOUS

LEMMA JoinedUp ==
  ASSUME NEW d \in Seq(Answers), NEW s \in Seq(Requested)
  PROVE  /\ DOMAIN (d \o s) = 1..(Len(d) + Len(s)) /\ Len(d) \in Nat /\ Len(s) \in Nat
         /\ \A i \in 1..Len(d) : (d \o s)[i] = d[i]
         /\ \A i \in 1..Len(s) : (d \o s)[Len(d) + i] = s[i]
  <1>. DEFINE Both == Answers \cup Requested
  <1>1. d \in Seq(Both) /\ s \in Seq(Both)
    BY SeqMonotonic
  <1>. HIDE DEF Both
  <1>2. /\ DOMAIN (d \o s) = 1..(Len(d) + Len(s)) /\ Len(d) \in Nat /\ Len(s) \in Nat
    BY <1>1
  <1>3. \A i \in 1..Len(d) : (d \o s)[i] = d[i]
    BY <1>1
  <1>4. \A i \in 1..Len(s) : (d \o s)[Len(d) + i] = s[i]
    BY <1>1
  <1>. QED
    BY <1>2, <1>3, <1>4

\* What a stream carries grows with the pipeline.
LEMMA CarriesMore ==
  ASSUME NEW d \in Seq(Answers), NEW s \in Seq(Requested), NEW p \in Seq(Batches),
         NEW new \in Seq(Batches), Extends(new, p), Carries(d, s, p)
  PROVE  LET added == SubSeq(new, Len(p) + 1, Len(new))
         IN  /\ s \o Requests(added) \in Seq(Requested)
             /\ Carries(d, s \o Requests(added), new)
             /\ added = <<>> => Carries(d, s, new)
  <1>. DEFINE added == SubSeq(new, Len(p) + 1, Len(new))
              more  == Requests(added)
              sent  == s \o more
  <1>1. /\ Len(d) \in Nat /\ Len(s) \in Nat /\ Len(p) \in Nat /\ Len(new) \in Nat
        /\ Len(d) + Len(s) = Len(p)
    BY DEF Carries
  <1>2. /\ added \in Seq(Batches) /\ Len(added) = Len(new) - Len(p)
        /\ \A i \in 1..Len(added) : added[i] = new[Len(p) + i]
    <2>1. Len(p) <= Len(new)
      BY DEF Extends
    <2>. QED
      BY <1>1, <2>1
  <1>. HIDE DEF added
  <1>3. /\ more \in Seq(Requested) /\ Len(more) = Len(added)
        /\ \A i \in 1..Len(added) : more[i] = [kind |-> "write", write |-> added[i].write]
    BY <1>2, RequestsOf
  <1>. HIDE DEF more
  <1>4. /\ sent \in Seq(Requested) /\ Len(sent) = Len(s) + Len(more)
        /\ \A i \in 1..Len(s) : sent[i] = s[i]
        /\ \A i \in 1..Len(more) : sent[Len(s) + i] = more[i]
    BY <1>3, Joined
  <1>. HIDE DEF sent
  <1>5. \A i \in 1..Len(d) : d[i].kind # "handshake" /\ d[i].write = new[i].write
    <2>. TAKE i \in 1..Len(d)
    <2>1. i \in 1..Len(p)
      BY <1>1
    <2>. QED
      BY <2>1 DEF Carries, Extends
  <1>6. \A i \in 1..Len(sent) : sent[i].kind = "write" /\ sent[i].write = new[Len(d) + i].write
    <2>. TAKE i \in 1..Len(sent)
    <2>1. CASE i \in 1..Len(s)
      <3>1. Len(d) + i \in 1..Len(p)
        BY <2>1, <1>1
      <3>. QED
        BY <2>1, <3>1, <1>4 DEF Carries, Extends
    <2>2. CASE i \notin 1..Len(s)
      <3>1. PICK j \in 1..Len(added) : i = Len(s) + j
        <4>1. i - Len(s) \in 1..Len(added) /\ i = Len(s) + (i - Len(s))
          BY <2>2, <1>1, <1>2, <1>3, <1>4
        <4>. QED
          BY <4>1
      <3>2. sent[i] = [kind |-> "write", write |-> added[j].write]
        BY <3>1, <1>3, <1>4
      <3>3. Len(p) + j = Len(d) + i
        <4>1. j \in Nat
          BY <1>1, <1>2
        <4>2. Len(d) + (Len(s) + j) = (Len(d) + Len(s)) + j
          BY <4>1, <1>1, Regroup
        <4>. QED
          BY <4>2, <3>1, <1>1, Zenon
      <3>4. added[j] = new[Len(d) + i]
        BY <3>3, <1>2
      <3>. QED
        BY <3>2, <3>4
    <2>. QED
      BY <2>1, <2>2
  <1>7. Len(d) + Len(sent) = Len(new)
    <2>1. Len(sent) = Len(s) + (Len(new) - Len(p))
      BY <1>2, <1>3, <1>4
    <2>. QED
      BY <2>1, <1>1, Behind, SMT
  <1>8. added = <<>> => Carries(d, s, new)
    <2>1. added = <<>> => Len(new) = Len(p)
      BY <1>1, <1>2
    <2>2. \A i \in 1..Len(s) : Len(d) + i \in 1..Len(p)
      BY <1>1
    <2>. QED
      BY <2>1, <2>2, <1>1, <1>5 DEF Carries, Extends
  <1>. QED
    BY <1>4, <1>5, <1>6, <1>7, <1>8 DEF Carries, added, more, sent

\* A pipeline that is filled is the front of the queue, the stream is there if it is
\* needed, and carries the pipeline if it carried it before.
LEMMA Fills ==
  ASSUME NEW p, NEW q, Rising(q), Part(p, q), NEW state \in States,
         NEW handshaken \in BOOLEAN, NEW sent \in Seq(Requested), NEW timer \in BOOLEAN,
         timer => state = "open" /\ handshaken /\ p = <<>>,
         FillWritePipeline(p, q, state, handshaken, sent, timer)
  PROVE  /\ pipeline' \in Seq(Batches) /\ Front(pipeline', q)
         /\ up' \in Seq(Requested) /\ conn' \in States /\ idle' \in BOOLEAN
         /\ state = "open" => conn' = "open"
         /\ state # "open" => conn' # "open" /\ up' = sent
         /\ ~handshaken => up' = sent
         /\ pipeline' # <<>> => conn' \in Started
         /\ idle' => state = "open" /\ pipeline' = <<>>
         /\ \A d \in Seq(Answers) : state = "open" /\ handshaken /\ Carries(d, sent, p)
                                    => Carries(d, up', pipeline')
  <1>. DEFINE new   == Filled(p, q)
              added == SubSeq(new, Len(p) + 1, Len(new))
              sends == state = "open" /\ handshaken /\ added # <<>>
  <1>1. /\ pipeline' = new
        /\ up' = IF sends THEN sent \o Requests(added) ELSE sent
        /\ idle' = IF new = <<>> THEN timer \/ state = "open" ELSE timer /\ ~sends
        /\ conn' = IF new = <<>> \/ state \in Started THEN state
                   ELSE IF state = "error" THEN "backoff" ELSE "starting"
    BY DEF FillWritePipeline
  <1>2. Front(new, q) /\ new \in Seq(Batches) /\ p \in Seq(Batches)
    BY FilledIsFront DEF Front, Part
  <1>3. Len(p) <= Len(new) /\ Len(p) \in Nat /\ Len(new) \in Nat
        /\ \A i \in 1..Len(p) : new[i] = p[i]
    BY <1>2 DEF Front, Part
  <1>. HIDE DEF new
  <1>4. conn' \in States /\ (state = "open" => conn' = "open")
        /\ (state # "open" => conn' # "open") /\ (new # <<>> => conn' \in Started)
    BY <1>1 DEF States, Started
  <1>5. added \in Seq(Batches)
    BY <1>2, <1>3
  <1>6. p = <<>> /\ new # <<>> => added # <<>>
    <2>1. p = <<>> => Len(added) = Len(new)
      BY <1>2, <1>3
    <2>. QED
      BY <2>1, <1>2
  <1>. HIDE DEF added
  <1>7. idle' \in BOOLEAN
    <2>1. (timer \/ state = "open") \in BOOLEAN /\ (timer /\ ~sends) \in BOOLEAN
      BY Zenon
    <2>. QED
      BY <2>1, <1>1
  <1>8. idle' => state = "open" /\ new = <<>>
    BY <1>1, <1>6
  <1>9. up' \in Seq(Requested) /\ (~handshaken => up' = sent) /\ (state # "open" => up' = sent)
    <2>1. sent \o Requests(added) \in Seq(Requested)
      BY <1>5, RequestsOf, ConcatProperties
    <2>. QED
      BY <2>1, <1>1
  <1>10. ASSUME NEW d \in Seq(Answers), state = "open", handshaken, Carries(d, sent, p)
         PROVE  Carries(d, up', new)
    <2>1. Carries(d, sent \o Requests(added), new) /\ (added = <<>> => Carries(d, sent, new))
      BY <1>2, <1>3, <1>10, CarriesMore DEF added, Extends
    <2>. QED
      BY <2>1, <1>1, <1>10
  <1>. QED
    BY <1>1, <1>2, <1>4, <1>7, <1>8, <1>9, <1>10

\* What the listener sees: the document, or an older one it has to wait on.
Sees(q, c, s) ==
    \/ s.value = LocalDoc(q, c).value
    \/ q = <<>> /\ s.local /\ c.committed

LEMMA Docs ==
  ASSUME NEW q \in Seq(Batches), NEW c \in Cached
  PROVE  /\ LocalDoc(q, c).value \in 0..MaxWrites /\ LocalDoc(q, c).local \in BOOLEAN
         /\ LocalDoc(q, c).committed => q = <<>> /\ c.committed
  <1>1. CASE q = <<>>
    BY <1>1 DEF LocalDoc, Cached
  <1>2. CASE q # <<>>
    <2>1. Len(q) \in 1..Len(q)
      BY <1>2, EmptySeq
    <2>2. q[Len(q)] \in Batches
      BY <2>1, ElementOfSeq
    <2>. QED
      BY <1>2, <2>2, WritesAssumption DEF LocalDoc, Batches, AllWrites
  <1>. QED
    BY <1>1, <1>2

LEMMA Emits ==
  ASSUME NEW q \in Seq(Batches), NEW c \in Cached, shown \in Views, EmitNewSnapshots(q, c)
  PROVE  shown' \in Views /\ Sees(q, c, shown')
  <1>. DEFINE doc == LocalDoc(q, c)
  <1>1. doc.value \in 0..MaxWrites /\ doc.local \in BOOLEAN
        /\ (doc.committed => q = <<>> /\ c.committed)
    BY Docs
  <1>2. \/ shown' = [value |-> doc.value, local |-> doc.local]
        \/ shown' = shown /\ (doc.value = shown.value \/ (shown.local /\ doc.committed))
    BY DEF EmitNewSnapshots
  <1>. HIDE DEF doc
  <1>3. shown' \in Views
    BY <1>1, <1>2 DEF Views
  <1>4. shown'.value = doc.value \/ (q = <<>> /\ shown'.local /\ c.committed)
    BY <1>1, <1>2
  <1>. QED
    BY <1>3, <1>4 DEF Sees, doc

----------------------------------------------------------------------------
(* The queues, the pipeline and the stream. *)

QueuesTyped ==
    /\ user \in Users
    /\ queue \in [Users -> Seq(Batches)] /\ nextId \in Nat
    /\ callbacks \subseteq [user : Users, id : Nat, write : AllWrites]
StreamTyped ==
    /\ pipeline \in Seq(Batches)
    /\ conn \in States /\ ready \in BOOLEAN /\ idle \in BOOLEAN
    /\ up \in Seq(Requested) /\ down \in Seq(Answers)
ViewTyped ==
    log \in Seq(0..MaxWrites) /\ cache \in Cached /\ shown \in Views
HistoryTyped ==
    /\ outcome \in [AllWrites -> {"none", "saved", "refused"}]
    /\ told \in [AllWrites -> {"none", "saved", "refused"}]
    /\ lost \subseteq AllWrites /\ denied \subseteq AllWrites /\ overtaken \in BOOLEAN
    /\ issued \in 0..MaxWrites

LEMMA Types == TypeOK <=> QueuesTyped /\ StreamTyped /\ ViewTyped /\ HistoryTyped
  BY DEF TypeOK, QueuesTyped, StreamTyped, ViewTyped, HistoryTyped, Requested, Answers,
         Cached, Views

Numbered ==
    /\ nextId > 0
    /\ \A u \in Users : /\ Rising(queue[u])
                        /\ \A i \in 1..Len(queue[u]) : queue[u][i].id < nextId

Linked ==
    /\ ready => conn = "open" /\ Carries(down, up, pipeline)
    /\ conn = "open" /\ ~ready => \/ up = <<Handshake>> /\ down = <<>>
                                  \/ up = <<>> /\ down = <<Greeting>>
    /\ conn # "open" => up = <<>> /\ down = <<>>

Queues == QueuesTyped /\ Numbered
Stream == StreamTyped /\ Front(pipeline, queue[user]) /\ StreamWhileNeeded /\ Linked
Core   == Queues /\ Stream

LEMMA NextIdLoaded ==
  ASSUME Queues, nextId' = LoadNextBatchId(queue)
  PROVE  /\ nextId' \in Nat /\ nextId' > 0
         /\ \A u \in Users : \A i \in 1..Len(queue[u]) : queue[u][i].id < nextId'
  <1>. DEFINE Ids == UNION {{queue[u][i].id : i \in DOMAIN queue[u]} : u \in Users}
              S   == {0} \cup Ids
  <1>1. nextId \in Nat /\ queue \in [Users -> Seq(Batches)]
    BY DEF Queues, QueuesTyped
  <1>2. ASSUME NEW u \in Users, NEW i \in DOMAIN queue[u]
        PROVE  queue[u][i].id \in Nat /\ queue[u][i].id <= nextId
    <2>1. i \in 1..Len(queue[u]) /\ queue[u][i] \in Batches
      BY <1>1, <1>2, ElementOfSeq
    <2>2. queue[u][i].id \in Nat /\ queue[u][i].id < nextId
      BY <2>1 DEF Queues, Numbered, Batches
    <2>. QED
      BY <2>2, <1>1
  <1>3. S \subseteq Nat /\ 0 \in S /\ \A y \in S : y <= nextId
    BY <1>1, <1>2
  <1>4. \A u \in Users : \A i \in 1..Len(queue[u]) : queue[u][i].id \in S
    <2>1. \A u \in Users : DOMAIN queue[u] = 1..Len(queue[u])
      BY <1>1
    <2>. QED
      BY <2>1
  <1>5. nextId' = Max(S) + 1
    BY DEF LoadNextBatchId
  <1>. HIDE DEF S
  <1>6. Max(S) \in S /\ \A y \in S : y <= Max(S)
    BY <1>1, <1>3, MaxThere
  <1>7. Max(S) \in Nat /\ \A y \in S : y \in Nat /\ y <= Max(S)
    BY <1>3, <1>6
  <1>8. \A y \in S : y < nextId'
    BY <1>5, <1>7
  <1>. QED
    BY <1>4, <1>5, <1>7, <1>8

LEMMA InitCore ==
  ASSUME Init
  PROVE  Core
  <1>1. \A u \in Users : queue[u] = <<>>
    BY DEF Init
  <1>2. Rising(<<>>)
    BY DEF Rising
  <1>3. Queues
    BY <1>1, <1>2 DEF Init, Queues, QueuesTyped, Numbered
  <1>4. Front(<<>>, <<>>)
    <2>1. Size(<<>>) = 0
      BY WritesAssumption DEF Size
    <2>. QED
      BY <2>1 DEF Front, Part
  <1>5. user \in Users /\ pipeline = <<>> /\ conn = "initial" /\ ready = FALSE /\ idle = FALSE
        /\ up = <<>> /\ down = <<>>
    BY DEF Init
  <1>6. StreamTyped /\ StreamWhileNeeded /\ Linked
    <2>1. pipeline \in Seq(Batches) /\ up \in Seq(Requested) /\ down \in Seq(Answers)
      BY <1>5
    <2>2. conn \in States
      BY <1>5 DEF States
    <2>3. ready \in BOOLEAN /\ idle \in BOOLEAN
      BY <1>5, Zenon
    <2>4. StreamWhileNeeded /\ Linked
      BY <1>5 DEF StreamWhileNeeded, Linked
    <2>. QED
      BY <2>1, <2>2, <2>3, <2>4 DEF StreamTyped
  <1>7. Front(pipeline, queue[user])
    BY <1>1, <1>4, <1>5
  <1>. QED
    BY <1>3, <1>6, <1>7 DEF Core, Stream

\* The stream is stopped and the pipeline filled anew.
LEMMA Restarted ==
  ASSUME NEW q, Rising(q), RestartNetwork(q), q = queue'[user']
  PROVE  Stream'
  <1>1. /\ FillWritePipeline(<<>>, q, "initial", FALSE, <<>>, FALSE)
        /\ ready' = FALSE /\ down' = <<>>
    BY DEF RestartNetwork
  <1>2. Part(<<>>, q) /\ "initial" \in States /\ <<>> \in Seq(Requested)
    BY EmptyIsPart DEF States
  <1>3. /\ pipeline' \in Seq(Batches) /\ Front(pipeline', q)
        /\ up' \in Seq(Requested) /\ conn' \in States /\ idle' \in BOOLEAN
        /\ conn' # "open" /\ up' = <<>>
        /\ pipeline' # <<>> => conn' \in Started
        /\ ~idle'
    BY <1>1, <1>2, Fills
  <1>4. StreamTyped'
    <2>1. ready' \in BOOLEAN
      BY <1>1, Zenon
    <2>2. down' \in Seq(Answers)
      BY <1>1
    <2>. QED
      BY <2>1, <2>2, <1>3 DEF StreamTyped
  <1>5. StreamWhileNeeded' /\ Linked'
    BY <1>1, <1>3 DEF StreamWhileNeeded, Linked
  <1>. QED
    BY <1>3, <1>4, <1>5 DEF Stream

LEMMA WriteCore ==
  ASSUME Core, NEW w \in AllWrites, Write(w)
  PROVE  /\ Core'
         /\ queue'[user] = Append(queue[user], [id |-> nextId, write |-> w])
         /\ \A u \in Users : u # user => queue'[u] = queue[u]
  <1>. DEFINE b == [id |-> nextId, write |-> w]
              q == queue[user]
              r == Append(q, b)
  <1>1. /\ user \in Users /\ queue \in [Users -> Seq(Batches)] /\ nextId \in Nat /\ nextId > 0
        /\ Rising(q) /\ \A i \in 1..Len(q) : q[i].id < nextId
        /\ Front(pipeline, q)
    BY DEF Core, Queues, QueuesTyped, Numbered, Stream
  <1>2. b \in Batches
    BY <1>1 DEF Batches
  <1>3. /\ Rising(r) /\ Part(pipeline, r) /\ r \in Seq(Batches) /\ Len(r) = Len(q) + 1
        /\ \A i \in 1..Len(q) : r[i] = q[i]
        /\ r[Len(q) + 1] = b
    BY <1>1, <1>2, Appended
  <1>4. /\ queue' = [queue EXCEPT ![user] = r] /\ nextId' = nextId + 1 /\ user' = user
        /\ queue'[user] = r /\ \A u \in Users : u # user => queue'[u] = queue[u]
    BY <1>1 DEF Write
  <1>. HIDE DEF r, q
  <1>5. \A i \in 1..Len(r) : r[i].id < nextId'
    <2>1. Len(q) \in Nat
      BY <1>1 DEF q
    <2>2. \A i \in 1..Len(r) : i \in 1..Len(q) \/ i = Len(q) + 1
      BY <1>3, <2>1
    <2>3. \A i \in 1..Len(q) : q[i].id \in Nat
      <3>1. \A i \in 1..Len(q) : q[i] \in Batches
        BY <1>1, ElementOfSeq DEF q
      <3>. QED
        BY <3>1 DEF Batches
    <2>4. \A i \in 1..Len(q) : r[i].id < nextId + 1
      BY <1>1, <1>3, <2>3
    <2>5. r[Len(q) + 1].id < nextId + 1
      BY <1>1, <1>3
    <2>. QED
      BY <1>4, <2>2, <2>4, <2>5
  <1>6. Numbered'
    <2>1. ASSUME NEW u \in Users, u # user
          PROVE  Rising(queue'[u]) /\ \A i \in 1..Len(queue'[u]) : queue'[u][i].id < nextId'
      <3>1. queue'[u] = queue[u] /\ Rising(queue[u]) /\ nextId \in Nat
            /\ \A i \in 1..Len(queue[u]) : queue[u][i] \in Batches /\ queue[u][i].id < nextId
        BY <1>1, <1>4, <2>1, ElementOfSeq DEF Core, Queues, Numbered
      <3>2. \A i \in 1..Len(queue[u]) : queue[u][i].id < nextId + 1
        BY <3>1 DEF Batches
      <3>. QED
        BY <3>1, <3>2, <1>4
    <2>. QED
      BY <2>1, <1>1, <1>3, <1>4, <1>5 DEF Numbered
  <1>7. QueuesTyped'
    <2>1. queue' \in [Users -> Seq(Batches)]
      BY <1>1, <1>3, <1>4
    <2>2. callbacks' \subseteq [user : Users, id : Nat, write : AllWrites]
      BY <1>1 DEF Write, Core, Queues, QueuesTyped
    <2>. QED
      BY <2>1, <2>2, <1>1, <1>4 DEF QueuesTyped
  <1>8. Stream'
    <2>1. FillWritePipeline(pipeline, r, conn, ready, up, idle)
          /\ ready' = ready /\ down' = down
      BY <1>4 DEF Write
    <2>2. StreamTyped /\ Linked /\ (idle => conn = "open" /\ ready /\ pipeline = <<>>)
      BY DEF Core, Stream, StreamWhileNeeded
    <2>3. /\ pipeline' \in Seq(Batches) /\ Front(pipeline', r)
          /\ up' \in Seq(Requested) /\ conn' \in States /\ idle' \in BOOLEAN
          /\ conn = "open" => conn' = "open"
          /\ conn # "open" => conn' # "open" /\ up' = up
          /\ ~ready => up' = up
          /\ pipeline' # <<>> => conn' \in Started
          /\ idle' => conn = "open" /\ pipeline' = <<>>
          /\ conn = "open" /\ ready /\ Carries(down, up, pipeline)
             => Carries(down, up', pipeline')
      <3>1. conn \in States /\ ready \in BOOLEAN /\ idle \in BOOLEAN /\ up \in Seq(Requested)
            /\ down \in Seq(Answers)
        BY <2>2 DEF StreamTyped
      <3>. QED
        BY <3>1, <1>3, <2>1, <2>2, Fills
    <2>4. pipeline' # <<>>
      <3>1. r # <<>>
        BY <1>3, <1>1 DEF q
      <3>2. Size(r) > 0
        BY <1>3, <3>1, Sizes
      <3>. QED
        BY <2>3, <3>2 DEF Front
    <2>5. StreamWhileNeeded' /\ Linked'
      BY <2>1, <2>2, <2>3, <2>4 DEF StreamWhileNeeded, Linked
    <2>. QED
      BY <1>4, <2>1, <2>2, <2>3, <2>5 DEF Stream, StreamTyped
  <1>. QED
    BY <1>4, <1>6, <1>7, <1>8 DEF Core, Queues, r, q

\* The answer at the front goes, and the batch it is about.
LEMMA CarriesLess ==
  ASSUME NEW d \in Seq(Answers), NEW s \in Seq(Requested), NEW p \in Seq(Batches),
         d # <<>>, p # <<>>, Carries(d, s, p)
  PROVE  Carries(Tail(d), s, Tail(p))
  <1>1. /\ Len(d) \in Nat /\ Len(s) \in Nat /\ Len(p) \in Nat /\ Len(d) > 0 /\ Len(p) > 0
        /\ Len(d) + Len(s) = Len(p)
        /\ Tail(d) \in Seq(Answers) /\ Tail(p) \in Seq(Batches)
        /\ Len(Tail(d)) = Len(d) - 1 /\ Len(Tail(p)) = Len(p) - 1
    <2>1. Len(d) + Len(s) = Len(p)
      BY DEF Carries
    <2>2. Len(d) \in Nat /\ Len(s) \in Nat /\ Len(p) \in Nat /\ Len(d) > 0 /\ Len(p) > 0
      BY EmptySeq
    <2>. QED
      BY <2>1, <2>2, HeadTailProperties
  <1>2. /\ \A i \in 1..(Len(d) - 1) : Tail(d)[i] = d[i + 1] /\ i + 1 \in 1..Len(d)
        /\ \A i \in 1..(Len(p) - 1) : Tail(p)[i] = p[i + 1]
    BY <1>1
  <1>3. \A i \in 1..(Len(d) - 1) : i \in 1..(Len(p) - 1)
    BY <1>1
  <1>4. \A i \in 1..(Len(d) - 1) :
            Tail(d)[i].kind # "handshake" /\ Tail(d)[i].write = Tail(p)[i].write
    <2>. TAKE i \in 1..(Len(d) - 1)
    <2>1. d[i + 1].kind # "handshake" /\ d[i + 1].write = p[i + 1].write
      BY <1>2 DEF Carries
    <2>. QED
      BY <2>1, <1>2, <1>3
  <1>5. \A i \in 1..Len(s) : s[i].kind = "write"
                             /\ s[i].write = Tail(p)[(Len(d) - 1) + i].write
    <2>. TAKE i \in 1..Len(s)
    <2>1. s[i].kind = "write" /\ s[i].write = p[Len(d) + i].write
      BY DEF Carries
    <2>2. (Len(d) - 1) + i \in 1..(Len(p) - 1) /\ ((Len(d) - 1) + i) + 1 = Len(d) + i
      BY <1>1
    <2>. QED
      BY <2>1, <2>2, <1>2
  <1>6. (Len(d) - 1) + Len(s) = Len(p) - 1
    BY <1>1
  <1>. QED
    BY <1>1, <1>4, <1>5, <1>6 DEF Carries

\* What is under way is the pipeline once there is an answer to a write.
LEMMA Answered ==
  ASSUME Core, ready, down # <<>>
  PROVE  /\ conn = "open" /\ Carries(down, up, pipeline)
         /\ pipeline # <<>> /\ queue[user] # <<>> /\ ~idle
         /\ down[1].write = pipeline[1].write
  <1>1. /\ down \in Seq(Answers) /\ up \in Seq(Requested) /\ pipeline \in Seq(Batches)
        /\ conn = "open" /\ Carries(down, up, pipeline)
    BY DEF Core, Stream, StreamTyped, Linked
  <1>2. Len(down) \in Nat /\ Len(down) > 0 /\ Len(up) \in Nat /\ Len(pipeline) \in Nat
        /\ Len(down) + Len(up) = Len(pipeline)
    <2>1. Len(down) + Len(up) = Len(pipeline)
      BY <1>1 DEF Carries
    <2>. QED
      BY <2>1, <1>1, EmptySeq
  <1>3. pipeline # <<>> /\ Len(pipeline) > 0 /\ 1 \in 1..Len(down)
    BY <1>2
  <1>4. queue[user] # <<>>
    <2>1. Len(pipeline) = Size(queue[user]) /\ queue[user] \in Seq(Batches)
      BY DEF Core, Queues, QueuesTyped, Stream, Front
    <2>2. Size(<<>>) = 0
      BY WritesAssumption DEF Size
    <2>. QED
      BY <1>3, <2>1, <2>2
  <1>5. down[1].write = pipeline[1].write
    BY <1>1, <1>3 DEF Carries
  <1>. QED
    BY <1>1, <1>3, <1>4, <1>5 DEF Core, Stream, StreamWhileNeeded

LEMMA Decided ==
  ASSUME Core, queue[user] # <<>>,
         queue' = [queue EXCEPT ![user] = Without(@, Head(pipeline).id)],
         UNCHANGED <<user, nextId>>, callbacks' \subseteq callbacks
  PROVE  /\ Queues' /\ queue'[user] = Tail(queue[user])
         /\ \A u \in Users : u # user => queue'[u] = queue[u]
         /\ Rising(queue'[user]) /\ Part(Tail(pipeline), queue'[user])
         /\ pipeline # <<>> /\ Head(pipeline) = queue[user][1] /\ pipeline[1] = queue[user][1]
         /\ Head(pipeline) \in Batches
  <1>. DEFINE q == queue[user]
  <1>1. /\ user \in Users /\ queue \in [Users -> Seq(Batches)] /\ q \in Seq(Batches)
        /\ Rising(q) /\ Front(pipeline, q) /\ q # <<>>
        /\ \A i \in 1..Len(q) : q[i].id < nextId
    BY DEF Core, Queues, QueuesTyped, Numbered, Stream
  <1>2. /\ queue'[user] = Without(q, Head(pipeline).id)
        /\ \A u \in Users : u # user => queue'[u] = queue[u]
        /\ queue' = [queue EXCEPT ![user] = Without(q, Head(pipeline).id)]
    BY <1>1
  <1>. HIDE DEF q
  <1>3. /\ pipeline # <<>> /\ Head(pipeline) = q[1] /\ pipeline[1] = q[1]
        /\ Without(q, q[1].id) = Tail(q)
        /\ Rising(Tail(q)) /\ Part(Tail(pipeline), Tail(q))
    BY <1>1, FrontRemoved
  <1>4. /\ Tail(q) \in Seq(Batches) /\ Len(q) \in Nat /\ Len(Tail(q)) = Len(q) - 1
        /\ \A i \in 1..Len(Tail(q)) : Tail(q)[i] = q[i + 1]
        /\ q[1] \in Batches
    BY <1>1, Tails
  <1>5. queue'[user] = Tail(q) /\ queue' = [queue EXCEPT ![user] = Tail(q)]
    BY <1>2, <1>3
  <1>6. \A i \in 1..Len(Tail(q)) : Tail(q)[i].id < nextId
    <2>1. \A i \in 1..Len(Tail(q)) : i + 1 \in 1..Len(q)
      BY <1>4
    <2>. QED
      BY <2>1, <1>1, <1>4
  <1>7. queue' \in [Users -> Seq(Batches)]
    BY <1>1, <1>4, <1>5
  <1>8. Numbered'
    <2>1. ASSUME NEW u \in Users
          PROVE  Rising(queue'[u]) /\ \A i \in 1..Len(queue'[u]) : queue'[u][i].id < nextId
      <3>1. CASE u = user
        BY <3>1, <1>3, <1>5, <1>6
      <3>2. CASE u # user
        BY <3>2, <1>2 DEF Core, Queues, Numbered
      <3>. QED
        BY <3>1, <3>2
    <2>. QED
      BY <2>1 DEF Core, Queues, Numbered
  <1>9. QueuesTyped'
    BY <1>7 DEF Core, Queues, QueuesTyped
  <1>. QED
    BY <1>2, <1>3, <1>4, <1>5, <1>8, <1>9 DEF Queues, q

LEMMA SavedCore ==
  ASSUME Core, OnWriteStreamMutationResult
  PROVE  /\ Core' /\ ready /\ queue[user] # <<>> /\ queue'[user] = Tail(queue[user])
         /\ \A u \in Users : u # user => queue'[u] = queue[u]
         /\ pipeline # <<>> /\ Head(pipeline) = queue[user][1] /\ Head(pipeline) \in Batches
         /\ down[1].write = queue[user][1].write
  <1>1. /\ down # <<>> /\ Head(down).kind = "saved" /\ down' = Tail(down)
        /\ callbacks' \subseteq callbacks
        /\ queue' = [queue EXCEPT ![user] = Without(@, Head(pipeline).id)]
        /\ FillWritePipeline(Tail(pipeline), queue'[user], conn, ready, up, idle)
        /\ UNCHANGED <<user, nextId, ready>>
    BY DEF OnWriteStreamMutationResult, NotifyUser
  <1>2. /\ conn \in States /\ ready \in BOOLEAN /\ idle \in BOOLEAN /\ up \in Seq(Requested)
        /\ down \in Seq(Answers) /\ pipeline \in Seq(Batches)
    BY DEF Core, Stream, StreamTyped
  <1>3. ready
    <2>1. Greeting.kind # "saved" /\ Head(<<Greeting>>) = Greeting
      BY DEF Greeting
    <2>. QED
      BY <1>1, <2>1 DEF Core, Stream, Linked
  <1>4. /\ conn = "open" /\ Carries(down, up, pipeline) /\ pipeline # <<>>
        /\ queue[user] # <<>> /\ ~idle /\ down[1].write = pipeline[1].write
    BY <1>1, <1>3, Answered
  <1>5. /\ Queues' /\ queue'[user] = Tail(queue[user])
        /\ \A u \in Users : u # user => queue'[u] = queue[u]
        /\ Rising(queue'[user]) /\ Part(Tail(pipeline), queue'[user])
        /\ Head(pipeline) = queue[user][1] /\ pipeline[1] = queue[user][1]
        /\ Head(pipeline) \in Batches
    BY <1>1, <1>4, Decided
  <1>6. Carries(Tail(down), up, Tail(pipeline)) /\ Tail(down) \in Seq(Answers)
    BY <1>1, <1>2, <1>4, CarriesLess
  <1>7. /\ pipeline' \in Seq(Batches) /\ Front(pipeline', queue'[user])
        /\ up' \in Seq(Requested) /\ conn' \in States /\ idle' \in BOOLEAN
        /\ conn' = "open"
        /\ idle' => pipeline' = <<>>
        /\ Carries(Tail(down), up', pipeline')
    <2>. DEFINE p == Tail(pipeline)
                r == queue'[user]
    <2>1. Rising(r) /\ Part(p, r) /\ FillWritePipeline(p, r, conn, ready, up, idle)
          /\ Carries(Tail(down), up, p)
      BY <1>1, <1>5, <1>6
    <2>. HIDE DEF p, r
    <2>2. /\ pipeline' \in Seq(Batches) /\ Front(pipeline', r)
          /\ up' \in Seq(Requested) /\ conn' \in States /\ idle' \in BOOLEAN
          /\ conn = "open" => conn' = "open"
          /\ idle' => conn = "open" /\ pipeline' = <<>>
          /\ \A d \in Seq(Answers) : conn = "open" /\ ready /\ Carries(d, up, p)
                                     => Carries(d, up', pipeline')
      BY <2>1, <1>2, <1>4, Fills
    <2>. QED
      BY <2>1, <2>2, <1>3, <1>4, <1>6 DEF r
  <1>8. StreamTyped' /\ StreamWhileNeeded' /\ Linked'
    <2>1. StreamTyped'
      BY <1>1, <1>2, <1>6, <1>7 DEF StreamTyped
    <2>. QED
      BY <2>1, <1>1, <1>3, <1>7 DEF StreamWhileNeeded, Linked, Started
  <1>. QED
    BY <1>1, <1>3, <1>4, <1>5, <1>7, <1>8 DEF Core, Stream

LEMMA RefusedCore ==
  ASSUME Core, HandleWriteError, Closed, UNCHANGED <<user, nextId>>, ready, down # <<>>
  PROVE  /\ Core' /\ queue[user] # <<>> /\ queue'[user] = Tail(queue[user])
         /\ \A u \in Users : u # user => queue'[u] = queue[u]
         /\ pipeline # <<>> /\ Head(pipeline) = queue[user][1] /\ Head(pipeline) \in Batches
         /\ down[1].write = queue[user][1].write
  <1>1. /\ callbacks' \subseteq callbacks
        /\ queue' = [queue EXCEPT ![user] = Without(@, Head(pipeline).id)]
        /\ FillWritePipeline(Tail(pipeline), queue'[user], "initial", ready, <<>>, FALSE)
        /\ UNCHANGED <<user, nextId>> /\ down' = <<>> /\ ready' = FALSE
    BY DEF HandleWriteError, NotifyUser, Closed
  <1>2. pipeline # <<>> /\ queue[user] # <<>> /\ down[1].write = pipeline[1].write
    BY Answered
  <1>3. /\ Queues' /\ queue'[user] = Tail(queue[user])
        /\ \A u \in Users : u # user => queue'[u] = queue[u]
        /\ Rising(queue'[user]) /\ Part(Tail(pipeline), queue'[user])
        /\ Head(pipeline) = queue[user][1] /\ pipeline[1] = queue[user][1]
        /\ Head(pipeline) \in Batches
    BY <1>1, <1>2, Decided
  <1>4. "initial" \in States /\ <<>> \in Seq(Requested) /\ ready \in BOOLEAN
    BY DEF States, Core, Stream, StreamTyped
  <1>5. /\ pipeline' \in Seq(Batches) /\ Front(pipeline', queue'[user])
        /\ up' \in Seq(Requested) /\ conn' \in States /\ idle' \in BOOLEAN
        /\ conn' # "open" /\ up' = <<>> /\ ~idle'
        /\ pipeline' # <<>> => conn' \in Started
    <2>. DEFINE p == Tail(pipeline)
                r == queue'[user]
    <2>1. Rising(r) /\ Part(p, r) /\ FillWritePipeline(p, r, "initial", ready, <<>>, FALSE)
      BY <1>1, <1>3
    <2>. HIDE DEF p, r
    <2>2. /\ pipeline' \in Seq(Batches) /\ Front(pipeline', r)
          /\ up' \in Seq(Requested) /\ conn' \in States /\ idle' \in BOOLEAN
          /\ "initial" # "open" => conn' # "open" /\ up' = <<>>
          /\ pipeline' # <<>> => conn' \in Started
          /\ idle' => "initial" = "open" /\ pipeline' = <<>>
      BY <2>1, <1>4, Fills
    <2>. QED
      BY <2>2 DEF r
  <1>6. StreamTyped'
    <2>1. ready' \in BOOLEAN
      BY <1>1, Zenon
    <2>2. down' \in Seq(Answers)
      BY <1>1
    <2>. QED
      BY <2>1, <2>2, <1>5 DEF StreamTyped
  <1>7. StreamWhileNeeded' /\ Linked'
    BY <1>1, <1>5 DEF StreamWhileNeeded, Linked
  <1>. QED
    BY <1>1, <1>2, <1>3, <1>5, <1>6, <1>7 DEF Core, Stream

LEMMA SwitchCore ==
  ASSUME Core, NEW u \in Users, SwitchUser(u)
  PROVE  Core'
  <1>1. /\ user' = u /\ UNCHANGED <<queue, callbacks>>
        /\ nextId' = LoadNextBatchId(queue) /\ RestartNetwork(queue[u])
    BY DEF SwitchUser
  <1>2. Queues'
    BY <1>1, NextIdLoaded DEF Core, Queues, QueuesTyped, Numbered
  <1>3. Stream'
    BY <1>1, Restarted DEF Core, Queues, Numbered
  <1>. QED
    BY <1>2, <1>3 DEF Core

LEMMA RestartCore ==
  ASSUME Core, Restart
  PROVE  Core'
  <1>1. /\ UNCHANGED <<user, queue>> /\ callbacks' = {}
        /\ nextId' = LoadNextBatchId(queue) /\ RestartNetwork(queue[user])
    BY DEF Restart
  <1>2. Queues'
    BY <1>1, NextIdLoaded DEF Core, Queues, QueuesTyped, Numbered
  <1>3. Stream'
    BY <1>1, Restarted DEF Core, Queues, QueuesTyped, Numbered
  <1>. QED
    BY <1>2, <1>3 DEF Core

LEMMA ConnectivityCore ==
  ASSUME Core, OnConnectivityChange
  PROVE  Core'
  <1>1. UNCHANGED <<user, queue, nextId, callbacks>> /\ RestartNetwork(queue[user])
    BY DEF OnConnectivityChange, disk
  <1>2. Queues'
    BY <1>1 DEF Core, Queues, QueuesTyped, Numbered
  <1>3. Stream'
    BY <1>1, Restarted DEF Core, Queues, QueuesTyped, Numbered
  <1>. QED
    BY <1>2, <1>3 DEF Core

\* A step that leaves the queues and the pipeline alone.
LEMMA SameQueues ==
  ASSUME Core, UNCHANGED <<user, queue, nextId, callbacks, pipeline>>
  PROVE  Queues' /\ Front(pipeline', queue'[user']) /\ pipeline' \in Seq(Batches)
  BY DEF Core, Queues, QueuesTyped, Numbered, Stream, StreamTyped

LEMMA StreamStartCore ==
  ASSUME Core, OnStreamStart
  PROVE  Core'
  <1>1. /\ conn = "starting" /\ conn' = "open" /\ up' = <<Handshake>> /\ idle' = FALSE
        /\ UNCHANGED <<user, queue, nextId, callbacks, pipeline, ready, down>>
    BY DEF OnStreamStart, disk
  <1>2. down = <<>> /\ ~ready
    BY <1>1 DEF Core, Stream, Linked
  <1>3. StreamTyped'
    <2>1. up' \in Seq(Requested)
      <3>1. Handshake \in Requested
        BY WritesAssumption DEF Handshake, Requested
      <3>. QED
        BY <1>1, <3>1
    <2>2. conn' \in States
      BY <1>1 DEF States
    <2>3. idle' \in BOOLEAN
      BY <1>1, Zenon
    <2>. QED
      BY <2>1, <2>2, <2>3, <1>1, SameQueues DEF StreamTyped, Core, Stream
  <1>4. StreamWhileNeeded' /\ Linked'
    BY <1>1, <1>2 DEF StreamWhileNeeded, Linked, Started
  <1>. QED
    BY <1>1, <1>3, <1>4, SameQueues DEF Core, Stream

LEMMA HandshakeCore ==
  ASSUME Core, OnWriteStreamHandshakeComplete
  PROVE  Core' /\ ~ready /\ down' = <<>>
  <1>1. /\ down # <<>> /\ Head(down).kind = "handshake" /\ down' = Tail(down)
        /\ ready' = TRUE /\ up' = up \o Requests(pipeline)
        /\ idle' = (idle /\ pipeline = <<>>)
        /\ UNCHANGED <<user, queue, nextId, callbacks, pipeline, conn>>
    BY DEF OnWriteStreamHandshakeComplete, disk
  <1>2. StreamTyped /\ StreamWhileNeeded /\ Linked
    BY DEF Core, Stream
  <1>3. ~ready
    <2>1. SUFFICES ASSUME ready PROVE FALSE
      OBVIOUS
    <2>2. Carries(down, up, pipeline) /\ down \in Seq(Answers)
      BY <2>1, <1>2 DEF Linked, StreamTyped
    <2>3. Len(down) \in Nat /\ 1 \in 1..Len(down) /\ Head(down) = down[1]
      BY <2>2, <1>1, EmptySeq
    <2>. QED
      BY <2>2, <2>3, <1>1 DEF Carries
  <1>4. conn = "open" /\ up = <<>> /\ down = <<Greeting>>
    BY <1>1, <1>2, <1>3 DEF Linked
  <1>5. down' = <<>> /\ idle' = FALSE /\ idle' \in BOOLEAN /\ ready' \in BOOLEAN
    <2>1. ~idle
      BY <1>2, <1>3 DEF StreamWhileNeeded
    <2>2. idle' = FALSE
      BY <1>1, <2>1
    <2>. QED
      BY <1>1, <1>4, <2>2
  <1>6. /\ up' \in Seq(Requested) /\ Carries(<<>>, up', pipeline)
    <2>1. pipeline \in Seq(Batches) /\ up' = Requests(pipeline)
      <3>1. Requests(pipeline) \in Seq(Requested)
        BY <1>2, RequestsOf DEF StreamTyped
      <3>. QED
        BY <3>1, <1>1, <1>2, <1>4, ConcatEmptySeq DEF StreamTyped
    <2>2. /\ up' \in Seq(Requested) /\ Len(up') = Len(pipeline) /\ Len(pipeline) \in Nat
          /\ \A i \in 1..Len(pipeline) : up'[i] = [kind |-> "write", write |-> pipeline[i].write]
      BY <2>1, RequestsOf
    <2>3. \A i \in 1..Len(pipeline) : 0 + i = i
      BY <2>2
    <2>4. Len(<<>>) = 0 /\ 0 + Len(up') = Len(pipeline) /\ \A i \in 1..Len(<<>>) : FALSE
      BY <2>2
    <2>5. \A i \in 1..Len(up') : /\ up'[i].kind = "write"
                                 /\ up'[i].write = pipeline[Len(<<>>) + i].write
      <3>. TAKE i \in 1..Len(up')
      <3>1. i \in 1..Len(pipeline) /\ Len(<<>>) + i = i
        BY <2>2, <2>3, <2>4
      <3>2. up'[i] = [kind |-> "write", write |-> pipeline[i].write]
        BY <3>1, <2>2
      <3>. QED
        BY <3>1, <3>2
    <2>. QED
      BY <2>2, <2>4, <2>5 DEF Carries
  <1>7. StreamTyped'
    BY <1>1, <1>2, <1>5, <1>6, SameQueues DEF StreamTyped
  <1>8. StreamWhileNeeded' /\ Linked'
    BY <1>1, <1>2, <1>4, <1>5, <1>6 DEF StreamWhileNeeded, Linked
  <1>. QED
    BY <1>1, <1>3, <1>5, <1>7, <1>8, SameQueues DEF Core, Stream

LEMMA RefusedHead ==
  ASSUME Core, OnWriteRefused \/ OnWriteOperationFailed
  PROVE  /\ ready /\ down # <<>> /\ HandleWriteError /\ Closed /\ UNCHANGED <<user, nextId>>
  <1>1. CASE OnWriteRefused
    <2>1. down # <<>> /\ Head(down).kind = "refused"
          /\ HandleWriteError /\ Closed /\ UNCHANGED <<user, nextId>>
      BY <1>1 DEF OnWriteRefused
    <2>2. Greeting.kind # "refused" /\ Head(<<Greeting>>) = Greeting
      BY DEF Greeting
    <2>. QED
      BY <2>1, <2>2 DEF Core, Stream, Linked
  <1>2. CASE OnWriteOperationFailed
    <2>1. Len(down) > 1 /\ ready /\ HandleWriteError /\ Closed /\ UNCHANGED <<user, nextId>>
      BY <1>2 DEF OnWriteOperationFailed
    <2>2. Len(<<>>) = 0
      OBVIOUS
    <2>. QED
      BY <2>1, <2>2
  <1>. QED
    BY <1>1, <1>2

LEMMA BrokenCore ==
  ASSUME Core, OnWriteStreamBroken \/ BackoffElapsed \/ IdleTimeout
  PROVE  Core'
  <1>1. /\ UNCHANGED <<user, queue, nextId, callbacks, pipeline>>
        /\ up' = <<>> /\ down' = <<>> /\ conn' # "open" /\ conn' \in States
        /\ idle' = FALSE /\ ready' = FALSE
        /\ pipeline # <<>> => conn' \in Started
    <2>1. CASE OnWriteStreamBroken
      BY <2>1 DEF OnWriteStreamBroken, Closed, disk, States, Started
    <2>2. CASE BackoffElapsed
      <3>1. /\ conn = "backoff" /\ conn' = "starting"
            /\ UNCHANGED <<user, disk, callbacks, pipeline, ready, idle, up, down>>
        BY <2>2 DEF BackoffElapsed
      <3>2. up = <<>> /\ down = <<>> /\ ~ready /\ ~idle
        BY <3>1 DEF Core, Stream, StreamWhileNeeded, Linked
      <3>3. ready = FALSE /\ idle = FALSE
        BY <3>2 DEF Core, Stream, StreamTyped
      <3>. QED
        BY <3>1, <3>2, <3>3 DEF disk, States, Started
    <2>3. CASE IdleTimeout
      BY <2>3 DEF IdleTimeout, Closed, disk, States, Core, Stream, StreamWhileNeeded
    <2>. QED
      BY <2>1, <2>2, <2>3
  <1>2. StreamTyped'
    <2>1. idle' \in BOOLEAN /\ ready' \in BOOLEAN
      BY <1>1, Zenon
    <2>2. up' \in Seq(Requested) /\ down' \in Seq(Answers)
      BY <1>1
    <2>. QED
      BY <2>1, <2>2, <1>1, SameQueues DEF StreamTyped
  <1>3. StreamWhileNeeded' /\ Linked'
    BY <1>1 DEF StreamWhileNeeded, Linked
  <1>. QED
    BY <1>1, <1>2, <1>3, SameQueues DEF Core, Stream

\* The backend takes the next request and answers it.
LEMMA Handed ==
  ASSUME NEW d \in Seq(Answers), NEW s \in Seq(Requested), NEW p \in Seq(Batches),
         s # <<>>, Carries(d, s, p), NEW a \in Answers,
         a.kind # "handshake", a.write = s[1].write
  PROVE  Carries(Append(d, a), Tail(s), p)
  <1>1. /\ Len(d) \in Nat /\ Len(s) \in Nat /\ Len(p) \in Nat /\ Len(s) > 0
        /\ Len(d) + Len(s) = Len(p)
    <2>1. Len(d) + Len(s) = Len(p)
      BY DEF Carries
    <2>. QED
      BY <2>1, EmptySeq
  <1>. DEFINE e == Append(d, a)
              t == Tail(s)
  <1>2. /\ Len(e) = Len(d) + 1 /\ e[Len(d) + 1] = a
        /\ \A i \in 1..Len(d) : e[i] = d[i]
    <2>1. Len(e) = Len(d) + 1 /\ e[Len(d) + 1] = a
      OBVIOUS
    <2>2. \A i \in 1..Len(d) : e[i] = d[i]
      OBVIOUS
    <2>. QED
      BY <2>1, <2>2
  <1>3. Len(t) = Len(s) - 1 /\ \A i \in 1..(Len(s) - 1) : t[i] = s[i + 1]
    BY HeadTailProperties
  <1>. HIDE DEF e, t
  <1>4. s[1].kind = "write" /\ s[1].write = p[Len(d) + 1].write
    <2>1. 1 \in 1..Len(s)
      BY <1>1
    <2>. QED
      BY <2>1 DEF Carries
  <1>5. \A i \in 1..(Len(d) + 1) : e[i].kind # "handshake" /\ e[i].write = p[i].write
    <2>. TAKE i \in 1..(Len(d) + 1)
    <2>1. CASE i \in 1..Len(d)
      <3>1. d[i].kind # "handshake" /\ d[i].write = p[i].write
        BY <2>1 DEF Carries
      <3>. QED
        BY <3>1, <2>1, <1>2
    <2>2. CASE i \notin 1..Len(d)
      <3>1. i = Len(d) + 1
        BY <2>2, <1>1
      <3>. QED
        BY <3>1, <1>2, <1>4
    <2>. QED
      BY <2>1, <2>2
  <1>6. \A i \in 1..(Len(s) - 1) : t[i].kind = "write" /\ t[i].write = p[(Len(d) + 1) + i].write
    <2>. TAKE i \in 1..(Len(s) - 1)
    <2>1. i + 1 \in 1..Len(s) /\ Len(d) + (i + 1) = (Len(d) + 1) + i
      BY <1>1
    <2>2. s[i + 1].kind = "write" /\ s[i + 1].write = p[Len(d) + (i + 1)].write
      BY <2>1 DEF Carries
    <2>. QED
      BY <2>1, <2>2, <1>3
  <1>7. (Len(d) + 1) + (Len(s) - 1) = Len(p)
    BY <1>1
  <1>8. Carries(e, t, p)
    BY <1>2, <1>3, <1>5, <1>6, <1>7 DEF Carries
  <1>. QED
    BY <1>8 DEF e, t

LEMMA BackendCore ==
  ASSUME Core, NEW kind, BackendReads(kind), NEW a \in Answers, down' = Append(down, a),
         \/ kind = "handshake" /\ a = Greeting
         \/ kind = "write" /\ a.kind # "handshake" /\ a.write = Head(up).write
  PROVE  Core' /\ (ready <=> kind = "write") /\ up[1].kind = kind
  <1>1. /\ up # <<>> /\ Head(up).kind = kind /\ up' = Tail(up)
        /\ UNCHANGED <<user, queue, nextId, callbacks, pipeline, conn, ready, idle>>
    BY DEF BackendReads, disk
  <1>2. StreamTyped /\ StreamWhileNeeded /\ Linked
    BY DEF Core, Stream
  <1>3. /\ up \in Seq(Requested) /\ down \in Seq(Answers) /\ pipeline \in Seq(Batches)
        /\ Head(up) = up[1] /\ Tail(up) \in Seq(Requested) /\ 1 \in 1..Len(up)
        /\ down' \in Seq(Answers)
    <2>1. up \in Seq(Requested) /\ down \in Seq(Answers) /\ pipeline \in Seq(Batches)
      BY <1>2 DEF StreamTyped
    <2>2. Head(up) = up[1] /\ Tail(up) \in Seq(Requested) /\ 1 \in 1..Len(up)
      BY <2>1, <1>1, HeadTailProperties, EmptySeq
    <2>. QED
      BY <2>1, <2>2
  <1>4. StreamTyped'
    BY <1>1, <1>2, <1>3 DEF StreamTyped
  <1>5. StreamWhileNeeded'
    BY <1>1, <1>2 DEF StreamWhileNeeded
  <1>6. Linked' /\ (ready <=> kind = "write")
    <2>1. CASE ready
      <3>1. Carries(down, up, pipeline) /\ conn = "open"
        BY <2>1, <1>2 DEF Linked
      <3>2. kind = "write"
        BY <3>1, <1>1, <1>3 DEF Carries
      <3>3. Carries(down', up', pipeline)
        BY <3>1, <3>2, <1>1, <1>3, Handed
      <3>. QED
        BY <2>1, <3>1, <3>2, <3>3, <1>1 DEF Linked
    <2>2. CASE ~ready
      <3>1. up = <<Handshake>> /\ down = <<>> /\ conn = "open"
        BY <2>2, <1>1, <1>2 DEF Linked
      <3>2. kind = "handshake" /\ a = Greeting
        BY <3>1, <1>1 DEF Handshake
      <3>3. up' = <<>> /\ down' = <<Greeting>>
        BY <3>1, <3>2, <1>1
      <3>. QED
        BY <2>2, <3>1, <3>2, <3>3, <1>1 DEF Linked
    <2>. QED
      BY <2>1, <2>2
  <1>. QED
    BY <1>1, <1>3, <1>4, <1>5, <1>6, SameQueues DEF Core, Stream

LEMMA GreetsIs ==
  ASSUME Core, BackendGreets
  PROVE  /\ Core' /\ ~ready /\ down' = Append(down, Greeting) /\ Greeting \in Answers
  <1>1. Greeting \in Answers
    BY WritesAssumption DEF Greeting, Answers
  <1>2. BackendReads("handshake") /\ down' = Append(down, Greeting)
    BY DEF BackendGreets, Greeting
  <1>. QED
    BY <1>1, <1>2, BackendCore

\* A request the backend reads is the next batch of the pipeline without an answer.
LEMMA ReadsNext ==
  ASSUME Core, BackendReads("write")
  PROVE  /\ ready /\ up # <<>> /\ Head(up).write \in AllWrites
         /\ Len(down) + 1 \in 1..Len(pipeline) /\ Len(down) \in Nat
         /\ Head(up).write = pipeline[Len(down) + 1].write
  <1>1. up # <<>> /\ Head(up).kind = "write"
    BY DEF BackendReads
  <1>2. /\ up \in Seq(Requested) /\ down \in Seq(Answers) /\ pipeline \in Seq(Batches)
        /\ Linked
    BY DEF Core, Stream, StreamTyped
  <1>3. ready
    <2>1. Head(<<Handshake>>).kind # "write"
      BY DEF Handshake
    <2>. QED
      BY <2>1, <1>1, <1>2 DEF Linked
  <1>4. Carries(down, up, pipeline)
    BY <1>2, <1>3 DEF Linked
  <1>5. Len(down) \in Nat /\ Len(up) \in Nat /\ Len(up) > 0 /\ Len(pipeline) \in Nat
        /\ Len(down) + Len(up) = Len(pipeline)
    <2>1. Len(down) + Len(up) = Len(pipeline)
      BY <1>4 DEF Carries
    <2>. QED
      BY <2>1, <1>1, <1>2, EmptySeq
  <1>6. Len(down) + 1 \in 1..Len(pipeline)
    BY <1>5
  <1>7. Head(up) = up[1] /\ 1 \in 1..Len(up)
    BY <1>1, <1>2, <1>5
  <1>8. up[1].write = pipeline[Len(down) + 1].write
    BY <1>4, <1>7 DEF Carries
  <1>9. pipeline[Len(down) + 1] \in Batches
    BY <1>2, <1>6, ElementOfSeq
  <1>. QED
    BY <1>1, <1>3, <1>5, <1>6, <1>7, <1>8, <1>9 DEF Batches

LEMMA AppliesCore ==
  ASSUME Core, ViewTyped, BackendApplies
  PROVE  LET a == [kind |-> "saved", write |-> Head(up).write, version |-> Len(log')]
         IN  /\ Core' /\ a \in Answers /\ down' = Append(down, a)
             /\ log' = Append(log, Head(up).write) /\ log' \in Seq(0..MaxWrites)
             /\ Len(log') = Len(log) + 1 /\ Len(log) \in Nat
  <1>. DEFINE a == [kind |-> "saved", write |-> Head(up).write, version |-> Len(log')]
  <1>1. /\ BackendReads("write") /\ log' = Append(log, Head(up).write)
        /\ down' = Append(down, a)
    BY DEF BackendApplies
  <1>2. Head(up).write \in AllWrites
    BY <1>1, ReadsNext
  <1>3. Head(up).write \in 0..MaxWrites
    BY <1>2, WritesAssumption DEF AllWrites
  <1>4. log' \in Seq(0..MaxWrites) /\ Len(log') = Len(log) + 1 /\ Len(log) \in Nat
    BY <1>1, <1>3 DEF ViewTyped
  <1>5. a \in Answers
    BY <1>3, <1>4 DEF Answers
  <1>6. a.kind # "handshake" /\ a.write = Head(up).write
    OBVIOUS
  <1>. HIDE DEF a
  <1>7. Core'
    BY <1>1, <1>5, <1>6, BackendCore
  <1>. QED
    BY <1>1, <1>4, <1>5, <1>7 DEF a

LEMMA RefusesCore ==
  ASSUME Core, BackendRefuses
  PROVE  LET a == [kind |-> "refused", write |-> Head(up).write, version |-> 0]
         IN  /\ Core' /\ a \in Answers /\ down' = Append(down, a)
             /\ Head(up).write \in AllWrites
             /\ denied' = denied \cup {Head(up).write}
  <1>. DEFINE a == [kind |-> "refused", write |-> Head(up).write, version |-> 0]
  <1>1. /\ BackendReads("write") /\ denied' = denied \cup {Head(up).write}
        /\ down' = Append(down, a)
    BY DEF BackendRefuses
  <1>2. Head(up).write \in AllWrites
    BY <1>1, ReadsNext
  <1>3. a \in Answers
    BY <1>2, WritesAssumption DEF Answers, AllWrites
  <1>4. a.kind # "handshake" /\ a.write = Head(up).write
    OBVIOUS
  <1>. HIDE DEF a
  <1>5. Core'
    BY <1>1, <1>3, <1>4, BackendCore
  <1>. QED
    BY <1>1, <1>2, <1>3, <1>5 DEF a

----------------------------------------------------------------------------
(* What the answers say, and what is seen. *)

\* The answers d are true of what the backend has applied and refused.
Known(d, applied, refusals) ==
    \A i \in 1..Len(d) :
        /\ d[i].kind = "saved" => /\ d[i].version \in 1..Len(applied)
                                  /\ applied[d[i].version] = d[i].write
        /\ d[i].kind = "refused" => d[i].write \in refusals

\* The cached document is one the backend has had.
Had(c, applied) ==
    /\ c.version <= Len(applied)
    /\ c.version > 0 => c.value = applied[c.version]

Truthful ==
    /\ ViewTyped /\ denied \subseteq AllWrites
    /\ Known(down, log, denied) /\ Had(cache, log)
    /\ Sees(queue[user], cache, shown)

LEMMA KnownLess ==
  ASSUME NEW d \in Seq(Answers), NEW applied, NEW refusals, Known(d, applied, refusals)
  PROVE  Known(<<>>, applied, refusals) /\ (d # <<>> => Known(Tail(d), applied, refusals))
  <1>1. Known(<<>>, applied, refusals)
    BY DEF Known
  <1>2. ASSUME d # <<>>
        PROVE  Known(Tail(d), applied, refusals)
    <2>1. /\ Len(d) \in Nat /\ Len(d) > 0 /\ Len(Tail(d)) = Len(d) - 1
          /\ \A i \in 1..Len(Tail(d)) : Tail(d)[i] = d[i + 1]
      BY <1>2, EmptySeq, HeadTailProperties
    <2>2. \A i \in 1..Len(Tail(d)) : Tail(d)[i] = d[i + 1] /\ i + 1 \in 1..Len(d)
      BY <2>1
    <2>. QED
      BY <2>2 DEF Known
  <1>. QED
    BY <1>1, <1>2

LEMMA KnownMore ==
  ASSUME NEW d \in Seq(Answers), NEW applied, NEW refusals, Known(d, applied, refusals),
         NEW a \in Answers,
         a.kind = "saved" => /\ a.version \in 1..Len(applied)
                             /\ applied[a.version] = a.write,
         a.kind = "refused" => a.write \in refusals
  PROVE  Known(Append(d, a), applied, refusals)
  <1>. DEFINE e == Append(d, a)
  <1>1. Len(d) \in Nat /\ Len(e) = Len(d) + 1 /\ e[Len(d) + 1] = a
    OBVIOUS
  <1>2. \A i \in 1..Len(d) : e[i] = d[i]
    OBVIOUS
  <1>. HIDE DEF e
  <1>3. \A i \in 1..Len(e) : i \in 1..Len(d) \/ i = Len(d) + 1
    BY <1>1
  <1>4. Known(e, applied, refusals)
    BY <1>1, <1>2, <1>3 DEF Known
  <1>. QED
    BY <1>4 DEF e

LEMMA LogGrows ==
  ASSUME ViewTyped, NEW w \in 0..MaxWrites
  PROVE  /\ Append(log, w) \in Seq(0..MaxWrites) /\ Len(log) \in Nat
         /\ Len(Append(log, w)) = Len(log) + 1 /\ Append(log, w)[Len(log) + 1] = w
         /\ \A d, refusals : Known(d, log, refusals) => Known(d, Append(log, w), refusals)
         /\ Had(cache, log) => Had(cache, Append(log, w))
  <1>. DEFINE more == Append(log, w)
  <1>1. /\ log \in Seq(0..MaxWrites) /\ Len(log) \in Nat /\ more \in Seq(0..MaxWrites)
        /\ Len(more) = Len(log) + 1 /\ more[Len(log) + 1] = w
    BY DEF ViewTyped
  <1>2. \A i \in 1..Len(log) : more[i] = log[i]
    BY <1>1
  <1>. HIDE DEF more
  <1>3. \A i \in 1..Len(log) : i \in 1..Len(more)
    BY <1>1
  <1>4. \A d, refusals : Known(d, log, refusals) => Known(d, more, refusals)
    BY <1>2, <1>3 DEF Known
  <1>5. Had(cache, log) => Had(cache, more)
    <2>1. cache.version \in Nat
      BY DEF ViewTyped, Cached
    <2>2. cache.version <= Len(log) => cache.version <= Len(more)
      BY <2>1, <1>1
    <2>3. cache.version <= Len(log) /\ cache.version > 0 => cache.version \in 1..Len(log)
      BY <2>1, <1>1
    <2>. QED
      BY <2>2, <2>3, <1>2 DEF Had
  <1>. QED
    BY <1>1, <1>4, <1>5 DEF more

LEMMA InitTruthful ==
  ASSUME Init
  PROVE  Truthful
  <1>1. /\ log = <<>> /\ down = <<>> /\ queue[user] = <<>> /\ denied = {}
        /\ cache = [value |-> 0, version |-> 0, committed |-> FALSE]
        /\ shown = [value |-> 0, local |-> FALSE]
    BY DEF Init
  <1>2. ViewTyped
    <2>1. 0 \in 0..MaxWrites /\ 0 \in Nat
      BY WritesAssumption
    <2>2. cache \in Cached
      BY <1>1, <2>1 DEF Cached
    <2>3. shown \in Views
      BY <1>1, <2>1 DEF Views
    <2>. QED
      BY <1>1, <2>2, <2>3 DEF ViewTyped
  <1>3. Known(down, log, denied) /\ Had(cache, log)
    BY <1>1 DEF Known, Had
  <1>4. Sees(queue[user], cache, shown)
    BY <1>1 DEF Sees, LocalDoc
  <1>. QED
    BY <1>1, <1>2, <1>3, <1>4 DEF Truthful

\* A view that is computed anew, over a document the backend has had.
LEMMA ViewKept ==
  ASSUME Core, Core', Truthful, EmitNewSnapshots(queue'[user'], cache'),
         cache' \in Cached, Had(cache', log), UNCHANGED <<log, denied>>,
         down' = <<>> \/ down' = down \/ (down # <<>> /\ down' = Tail(down))
  PROVE  Truthful'
  <1>1. down \in Seq(Answers) /\ queue'[user'] \in Seq(Batches)
    BY DEF Core, Stream, StreamTyped, Queues, QueuesTyped
  <1>2. shown \in Views
    BY DEF Truthful, ViewTyped
  <1>3. shown' \in Views /\ Sees(queue'[user'], cache', shown')
    BY <1>1, <1>2, Emits
  <1>4. Known(down', log, denied)
    BY <1>1, KnownLess DEF Truthful
  <1>. QED
    BY <1>3, <1>4 DEF Truthful, ViewTyped

\* A step that concerns only the stream and what it carries.
LEMMA ViewSame ==
  ASSUME Core, Truthful, UNCHANGED <<user, queue, log, view, denied>>,
         down' = <<>> \/ down' = down \/ (down # <<>> /\ down' = Tail(down))
  PROVE  Truthful'
  <1>1. down \in Seq(Answers)
    BY DEF Core, Stream, StreamTyped
  <1>2. Known(down', log, denied)
    BY <1>1, KnownLess DEF Truthful
  <1>. QED
    BY <1>2 DEF Truthful, ViewTyped, view

LEMMA WriteTruthful ==
  ASSUME Core, Core', Truthful, NEW w \in AllWrites, Write(w)
  PROVE  Truthful'
  <1>1. /\ EmitNewSnapshots(queue'[user], cache)
        /\ UNCHANGED <<user, cache, log, denied, down>>
    <2>1. EmitNewSnapshots(queue'[user], cache) /\ UNCHANGED <<user, log, history, down>>
      BY DEF Write
    <2>2. UNCHANGED cache
      BY DEF Write
    <2>. QED
      BY <2>1, <2>2 DEF history
  <1>. QED
    BY <1>1, ViewKept DEF Truthful, ViewTyped, EmitNewSnapshots

LEMMA SwitchTruthful ==
  ASSUME Core, Core', Truthful, NEW u \in Users, SwitchUser(u)
  PROVE  Truthful'
  <1>1. /\ EmitNewSnapshots(queue[u], cache) /\ user' = u
        /\ UNCHANGED <<queue, cache, log, denied>> /\ down' = <<>>
    BY DEF SwitchUser, RestartNetwork, history
  <1>. QED
    BY <1>1, ViewKept DEF Truthful, ViewTyped, EmitNewSnapshots

LEMMA RestartTruthful ==
  ASSUME Core, Truthful, Restart
  PROVE  Truthful'
  <1>. DEFINE doc == LocalDoc(queue[user], cache)
  <1>1. /\ shown' = [value |-> doc.value, local |-> doc.local]
        /\ UNCHANGED <<user, queue, cache, log, denied>> /\ down' = <<>>
    BY DEF Restart, RestartNetwork
  <1>2. queue[user] \in Seq(Batches) /\ cache \in Cached /\ down \in Seq(Answers)
    BY DEF Core, Stream, StreamTyped, Queues, QueuesTyped, Truthful, ViewTyped
  <1>3. doc.value \in 0..MaxWrites /\ doc.local \in BOOLEAN
    BY <1>2, Docs
  <1>. HIDE DEF doc
  <1>4. shown' \in Views /\ shown'.value = doc.value
    BY <1>1, <1>3 DEF Views
  <1>5. Sees(queue[user], cache, shown')
    BY <1>4 DEF Sees, doc
  <1>6. Known(<<>>, log, denied)
    BY <1>2, KnownLess DEF Truthful
  <1>. QED
    BY <1>1, <1>4, <1>5, <1>6 DEF Truthful, ViewTyped

\* An acknowledged write is what the backend has had as of its version.
LEMMA SavedTruthful ==
  ASSUME Core, Core', Truthful, OnWriteStreamMutationResult
  PROVE  Truthful' /\ cache'.version >= cache.version
  <1>. DEFINE a == Head(down)
              c == [value |-> Head(pipeline).write, version |-> a.version, committed |-> TRUE]
  <1>1. /\ down # <<>> /\ a.kind = "saved" /\ down' = Tail(down)
        /\ cache' = (IF cache.version < a.version THEN c ELSE cache)
        /\ EmitNewSnapshots(queue'[user], cache')
        /\ UNCHANGED <<user, log, denied>>
    BY DEF OnWriteStreamMutationResult, Acknowledged
  <1>2. /\ down \in Seq(Answers) /\ cache \in Cached /\ log \in Seq(0..MaxWrites)
        /\ Known(down, log, denied) /\ Had(cache, log)
    BY DEF Core, Stream, StreamTyped, Truthful, ViewTyped
  <1>3. a = down[1] /\ 1 \in 1..Len(down) /\ a \in Answers
    BY <1>1, <1>2, Tails, EmptySeq, HeadTailProperties
  <1>4. a.version \in 1..Len(log) /\ log[a.version] = a.write /\ a.version \in Nat
    BY <1>1, <1>2, <1>3 DEF Known, Answers
  <1>5. a.write = Head(pipeline).write /\ Head(pipeline).write \in 0..MaxWrites
    <2>1. Head(pipeline) = queue[user][1] /\ down[1].write = queue[user][1].write
      BY SavedCore
    <2>. QED
      BY <2>1, <1>3 DEF Answers
  <1>6. c \in Cached /\ Had(c, log)
    <2>1. c \in Cached
      BY <1>4, <1>5 DEF Cached
    <2>2. c.version = a.version /\ c.value = Head(pipeline).write
      OBVIOUS
    <2>3. a.version <= Len(log)
      BY <1>2, <1>4
    <2>. QED
      BY <2>1, <2>2, <2>3, <1>4, <1>5 DEF Had
  <1>7. cache' \in Cached /\ Had(cache', log) /\ cache'.version >= cache.version
    <2>1. cache.version \in Nat /\ c.version = a.version
      BY <1>2 DEF Cached
    <2>. HIDE DEF c
    <2>. QED
      BY <2>1, <1>1, <1>2, <1>4, <1>6
  <1>. QED
    BY <1>1, <1>7, ViewKept

LEMMA RefusedTruthful ==
  ASSUME Core, Core', Truthful, OnWriteRefused \/ OnWriteOperationFailed
  PROVE  Truthful' /\ UNCHANGED cache
  <1>1. HandleWriteError /\ down' = <<>> /\ UNCHANGED <<user, cache, log, denied>>
    BY DEF OnWriteRefused, OnWriteOperationFailed, Closed
  <1>2. EmitNewSnapshots(queue'[user], cache)
    BY <1>1 DEF HandleWriteError
  <1>. QED
    BY <1>1, <1>2, ViewKept DEF Truthful, ViewTyped, EmitNewSnapshots

LEMMA BackendTruthful ==
  ASSUME Core, Truthful, BackendGreets \/ BackendApplies \/ BackendRefuses
  PROVE  Truthful' /\ UNCHANGED cache
  <1>1. UNCHANGED <<user, queue, view>>
    BY DEF BackendGreets, BackendApplies, BackendRefuses, BackendReads, disk
  <1>2. /\ down \in Seq(Answers) /\ log \in Seq(0..MaxWrites) /\ denied \subseteq AllWrites
        /\ Known(down, log, denied) /\ Had(cache, log)
    BY DEF Core, Stream, StreamTyped, Truthful, ViewTyped
  <1>3. CASE BackendGreets
    <2>1. down' = Append(down, Greeting) /\ Greeting \in Answers /\ UNCHANGED <<log, denied>>
      BY <1>3, GreetsIs DEF BackendGreets
    <2>2. Known(down', log, denied)
      BY <2>1, <1>2, KnownMore DEF Greeting
    <2>. QED
      BY <1>1, <2>1, <2>2 DEF Truthful, ViewTyped, view
  <1>4. CASE BackendApplies
    <2>. DEFINE w == Head(up).write
                a == [kind |-> "saved", write |-> w, version |-> Len(log')]
    <2>1. /\ a \in Answers /\ down' = Append(down, a)
          /\ log' = Append(log, w) /\ UNCHANGED denied
      BY <1>4, AppliesCore DEF BackendApplies, Truthful
    <2>2. w \in 0..MaxWrites
      BY <2>1 DEF Answers
    <2>. HIDE DEF w
    <2>3. /\ log' \in Seq(0..MaxWrites) /\ Len(log) \in Nat
          /\ Len(log') = Len(log) + 1 /\ log'[Len(log) + 1] = w
          /\ Known(down, log', denied) /\ Had(cache, log')
      BY <2>1, <2>2, <1>2, LogGrows DEF Truthful
    <2>4. a.kind = "saved" /\ a.version \in 1..Len(log') /\ log'[a.version] = a.write
      BY <2>3
    <2>. HIDE DEF a
    <2>5. Known(down', log', denied)
      BY <2>1, <2>3, <2>4, <1>2, KnownMore
    <2>. QED
      BY <1>1, <2>1, <2>3, <2>5 DEF Truthful, ViewTyped, view
  <1>5. CASE BackendRefuses
    <2>. DEFINE w == Head(up).write
                a == [kind |-> "refused", write |-> w, version |-> 0]
    <2>1. /\ a \in Answers /\ down' = Append(down, a) /\ w \in AllWrites
          /\ denied' = denied \cup {w} /\ UNCHANGED log
      BY <1>5, RefusesCore DEF BackendRefuses
    <2>2. Known(down, log, denied')
      BY <2>1, <1>2 DEF Known
    <2>3. a.kind = "refused" /\ a.write \in denied'
      BY <2>1
    <2>. HIDE DEF a
    <2>4. Known(down', log, denied')
      BY <2>1, <2>2, <2>3, <1>2, KnownMore
    <2>. QED
      BY <1>1, <1>2, <2>1, <2>4 DEF Truthful, ViewTyped, view
  <1>. QED
    BY <1>1, <1>3, <1>4, <1>5 DEF view

LEMMA OthersTruthful ==
  ASSUME Core, Core', Truthful,
         AnotherDeviceWrites \/ \E version \in DOMAIN log : ApplyRemoteEvent(version)
  PROVE  Truthful' /\ cache'.version >= cache.version
  <1>1. cache \in Cached /\ cache.version \in Nat /\ log \in Seq(0..MaxWrites)
    BY DEF Truthful, ViewTyped, Cached
  <1>2. CASE AnotherDeviceWrites
    <2>1. log' = Append(log, 0) /\ UNCHANGED <<user, queue, down, view, denied>>
      BY <1>2 DEF AnotherDeviceWrites, disk, stream, history
    <2>2. 0 \in 0..MaxWrites
      BY WritesAssumption
    <2>3. /\ log' \in Seq(0..MaxWrites) /\ Known(down, log', denied) /\ Had(cache, log')
      BY <2>1, <2>2, LogGrows DEF Truthful
    <2>. QED
      BY <2>1, <2>3, <1>1 DEF Truthful, ViewTyped, view
  <1>3. ASSUME NEW version \in DOMAIN log, ApplyRemoteEvent(version)
        PROVE  Truthful' /\ cache'.version >= cache.version
    <2>1. /\ version > cache.version \/ version = cache.version
          /\ cache' = [value |-> log[version], version |-> version, committed |-> FALSE]
          /\ EmitNewSnapshots(queue[user], cache')
          /\ UNCHANGED <<user, queue, down, log, denied>>
      BY <1>3 DEF ApplyRemoteEvent, disk, stream, history
    <2>2. version \in 1..Len(log) /\ version \in Nat /\ log[version] \in 0..MaxWrites
      <3>1. version \in 1..Len(log) /\ Len(log) \in Nat
        BY <1>1, <1>3
      <3>2. log[version] \in 0..MaxWrites
        BY <3>1, <1>1, ElementOfSeq
      <3>. QED
        BY <3>1, <3>2
    <2>3. cache' \in Cached
      BY <2>1, <2>2 DEF Cached
    <2>4. cache'.version = version /\ cache'.value = log[version]
      BY <2>1
    <2>5. Had(cache', log) /\ cache'.version >= cache.version
      BY <2>1, <2>2, <2>4, <1>1 DEF Had
    <2>. QED
      BY <2>1, <2>3, <2>5, ViewKept
  <1>. QED
    BY <1>2, <1>3

----------------------------------------------------------------------------
(* What callers are told. *)

\* Every callback waits for a batch of its user's queue, and every batch has its
\* callback, unless the callback's process is gone.
Awaited ==
    /\ \A c \in callbacks : \E i \in 1..Len(queue[c.user]) :
           queue[c.user][i].id = c.id /\ queue[c.user][i].write = c.write
    /\ \A u \in Users : \A i \in 1..Len(queue[u]) :
           \/ queue[u][i].write \in lost
           \/ [user |-> u, id |-> queue[u][i].id, write |-> queue[u][i].write] \in callbacks

Told == HistoryTyped /\ Awaited /\ ToldItsOutcome

LEMMA InitTold ==
  ASSUME Init
  PROVE  Told
  <1>1. HistoryTyped
    <2>1. overtaken \in BOOLEAN
      BY Zenon DEF Init
    <2>2. 0 \in 0..MaxWrites
      BY WritesAssumption
    <2>. QED
      BY <2>1, <2>2 DEF Init, HistoryTyped
  <1>2. Awaited
    BY DEF Init, Awaited
  <1>3. ToldItsOutcome
    BY DEF Init, ToldItsOutcome
  <1>. QED
    BY <1>1, <1>2, <1>3 DEF Told

LEMMA WriteTold ==
  ASSUME Core, Told, NEW w \in AllWrites, Write(w)
  PROVE  Told'
  <1>. DEFINE b == [id |-> nextId, write |-> w]
              new == [user |-> user, id |-> nextId, write |-> w]
  <1>1. /\ UNCHANGED <<user, history>> /\ callbacks' = callbacks \cup {new}
        /\ issued' = w
    BY DEF Write
  <1>2. /\ queue'[user] = Append(queue[user], b)
        /\ \A u \in Users : u # user => queue'[u] = queue[u]
        /\ user \in Users /\ queue[user] \in Seq(Batches) /\ b \in Batches
        /\ callbacks \subseteq [user : Users, id : Nat, write : AllWrites]
    BY WriteCore DEF Core, Queues, QueuesTyped, Batches
  <1>3. /\ Len(queue[user]) \in Nat /\ Len(queue'[user]) = Len(queue[user]) + 1
        /\ queue'[user][Len(queue[user]) + 1] = b
        /\ \A i \in 1..Len(queue[user]) : queue'[user][i] = queue[user][i]
    <2>. DEFINE q == queue[user]
    <2>1. q \in Seq(Batches) /\ b \in Batches
      BY <1>2
    <2>. HIDE DEF q, b
    <2>2. Len(q) \in Nat /\ Len(Append(q, b)) = Len(q) + 1 /\ Append(q, b)[Len(q) + 1] = b
      BY <2>1
    <2>3. \A i \in 1..Len(q) : Append(q, b)[i] = q[i]
      BY <2>1
    <2>. QED
      BY <2>2, <2>3, <1>2 DEF q
  <1>4. /\ Len(queue[user]) + 1 \in 1..Len(queue'[user])
        /\ \A i \in 1..Len(queue[user]) : i \in 1..Len(queue'[user])
        /\ \A i \in 1..Len(queue'[user]) :
               i \in 1..Len(queue[user]) \/ i = Len(queue[user]) + 1
    BY <1>3
  <1>5. ASSUME NEW c \in callbacks'
        PROVE  \E i \in 1..Len(queue'[c.user]) :
                   queue'[c.user][i].id = c.id /\ queue'[c.user][i].write = c.write
    <2>1. CASE c = new
      <3>1. c.user = user /\ c.id = b.id /\ c.write = b.write
        BY <2>1
      <3>. QED
        BY <3>1, <1>3, <1>4
    <2>2. CASE c \in callbacks
      <3>1. PICK i \in 1..Len(queue[c.user]) :
                     queue[c.user][i].id = c.id /\ queue[c.user][i].write = c.write
        BY <2>2 DEF Told, Awaited
      <3>2. c.user \in Users
        BY <2>2, <1>2
      <3>3. CASE c.user = user
        BY <3>1, <3>3, <1>3, <1>4
      <3>4. CASE c.user # user
        BY <3>1, <3>2, <3>4, <1>2
      <3>. QED
        BY <3>3, <3>4
    <2>. QED
      BY <2>1, <2>2, <1>1, <1>5
  <1>6. ASSUME NEW u \in Users, NEW i \in 1..Len(queue'[u])
        PROVE  \/ queue'[u][i].write \in lost
               \/ [user |-> u, id |-> queue'[u][i].id, write |-> queue'[u][i].write] \in callbacks'
    <2>1. CASE u # user
      <3>1. queue'[u] = queue[u]
        BY <2>1, <1>2
      <3>. QED
        BY <3>1, <1>1, <1>6 DEF Told, Awaited
    <2>2. CASE u = user /\ i \in 1..Len(queue[user])
      BY <2>2, <1>1, <1>2, <1>3 DEF Told, Awaited
    <2>3. CASE u = user /\ i = Len(queue[user]) + 1
      BY <2>3, <1>1, <1>3
    <2>. QED
      BY <2>1, <2>2, <2>3, <1>4, <1>6
  <1>7. Awaited'
    BY <1>1, <1>5, <1>6 DEF Awaited, history
  <1>8. HistoryTyped'
    BY <1>1, WritesAssumption DEF Told, HistoryTyped, history, AllWrites
  <1>. QED
    BY <1>1, <1>7, <1>8 DEF Told, ToldItsOutcome, history

LEMMA RestartTold ==
  ASSUME Core, Told, Restart
  PROVE  Told'
  <1>1. /\ callbacks' = {} /\ lost' = lost \cup {c.write : c \in callbacks}
        /\ UNCHANGED <<queue, outcome, told, denied, overtaken, issued>>
    BY DEF Restart
  <1>2. callbacks \subseteq [user : Users, id : Nat, write : AllWrites]
    BY DEF Core, Queues, QueuesTyped
  <1>3. HistoryTyped'
    BY <1>1, <1>2 DEF Told, HistoryTyped
  <1>4. Awaited'
    <2>1. ASSUME NEW u \in Users, NEW i \in 1..Len(queue[u])
          PROVE  queue[u][i].write \in lost'
      <3>. DEFINE c == [user |-> u, id |-> queue[u][i].id, write |-> queue[u][i].write]
      <3>1. CASE queue[u][i].write \in lost
        BY <3>1, <1>1
      <3>2. CASE c \in callbacks
        <4>1. c.write = queue[u][i].write
          OBVIOUS
        <4>. QED
          BY <4>1, <3>2, <1>1
      <3>. QED
        BY <3>1, <3>2 DEF Told, Awaited
    <2>. QED
      BY <2>1, <1>1 DEF Awaited
  <1>5. ToldItsOutcome'
    BY <1>1 DEF Told, ToldItsOutcome
  <1>. QED
    BY <1>3, <1>4, <1>5 DEF Told

\* A step that decides nothing, for nobody.
LEMMA ToldSame ==
  ASSUME Told, UNCHANGED <<queue, callbacks, outcome, told, lost, overtaken, issued>>,
         denied \subseteq denied', denied' \subseteq AllWrites
  PROVE  Told'
  BY DEF Told, HistoryTyped, Awaited, ToldItsOutcome

\* The outcome of the front of the queue goes to the caller who waits for it.
LEMMA DecideTold ==
  ASSUME Core, Told, queue[user] # <<>>, queue'[user] = Tail(queue[user]),
         \A u \in Users : u # user => queue'[u] = queue[u],
         NEW result \in {"saved", "refused"},
         NotifyUser(queue[user][1].id, result),
         outcome' = [outcome EXCEPT ![queue[user][1].write] = result],
         UNCHANGED <<lost, denied, issued>>, overtaken' \in BOOLEAN, overtaken => overtaken',
         result = "refused" => queue[user][1].write \in denied \/ overtaken'
  PROVE  Told'
  <1>. DEFINE q == queue[user]
              b == q[1]
              mine == {c \in callbacks : c.user = user /\ c.id = b.id}
  <1>1. /\ user \in Users /\ q \in Seq(Batches) /\ q # <<>> /\ Rising(q)
        /\ callbacks \subseteq [user : Users, id : Nat, write : AllWrites]
    BY DEF Core, Queues, QueuesTyped, Numbered
  <1>2. /\ Tail(q) \in Seq(Batches) /\ Len(q) \in Nat /\ Len(q) > 0 /\ Len(Tail(q)) = Len(q) - 1
        /\ b \in Batches /\ \A i \in 1..Len(Tail(q)) : Tail(q)[i] = q[i + 1]
    BY <1>1, Tails
  <1>3. /\ callbacks' = callbacks \ mine
        /\ told' = [w \in AllWrites |-> IF \E c \in mine : c.write = w THEN result ELSE told[w]]
        /\ outcome' = [outcome EXCEPT ![b.write] = result] /\ queue'[user] = Tail(q)
    BY DEF NotifyUser
  <1>4. b.write \in AllWrites
    BY <1>2 DEF Batches
  <1>. HIDE DEF q
  <1>5. \A i \in 2..Len(q) : q[i].id # b.id
    <2>1. \A i \in 2..Len(q) : 1 \in 1..Len(q) /\ i \in 1..Len(q) /\ 1 < i
      BY <1>2
    <2>2. \A i \in 1..Len(q) : q[i].id \in Nat
      <3>1. \A i \in 1..Len(q) : q[i] \in Batches
        BY <1>1, ElementOfSeq
      <3>. QED
        BY <3>1 DEF Batches
    <2>3. \A i \in 2..Len(q) : q[1].id < q[i].id
      BY <2>1, <1>1 DEF Rising
    <2>. QED
      BY <2>1, <2>2, <2>3
  <1>6. \A c \in mine : c.write = b.write
    <2>. TAKE c \in mine
    <2>1. PICK i \in 1..Len(queue[c.user]) :
                   queue[c.user][i].id = c.id /\ queue[c.user][i].write = c.write
      BY DEF Told, Awaited
    <2>2. i \in 1..Len(q) /\ q[i].id = b.id /\ q[i].write = c.write
      BY <2>1 DEF q
    <2>3. i = 1 \/ i \in 2..Len(q)
      BY <2>2, <1>2
    <2>. QED
      BY <2>2, <2>3, <1>5
  <1>7. b.write \in lost \/ \E c \in mine : c.write = b.write
    <2>. DEFINE c == [user |-> user, id |-> b.id, write |-> b.write]
    <2>1. 1 \in 1..Len(queue[user])
      BY <1>2 DEF q
    <2>2. b.write \in lost \/ c \in callbacks
      BY <2>1, <1>1 DEF Told, Awaited, q
    <2>3. c.user = user /\ c.id = b.id /\ c.write = b.write
      OBVIOUS
    <2>. QED
      BY <2>2, <2>3
  <1>8. /\ outcome \in [AllWrites -> {"none", "saved", "refused"}]
        /\ told \in [AllWrites -> {"none", "saved", "refused"}]
        /\ ToldItsOutcome
    BY DEF Told, HistoryTyped
  <1>9. ASSUME NEW w \in AllWrites
        PROVE  /\ w \notin lost => told'[w] = outcome'[w]
               /\ outcome'[w] = "refused" => w \in denied \/ overtaken'
    <2>1. CASE w = b.write
      <3>1. outcome'[w] = result
        BY <2>1, <1>3, <1>8
      <3>2. w \notin lost => told'[w] = result
        BY <2>1, <1>3, <1>7
      <3>3. result = "refused" => w \in denied \/ overtaken'
        BY <2>1 DEF q
      <3>. QED
        BY <3>1, <3>2, <3>3
    <2>2. CASE w # b.write
      <3>1. outcome'[w] = outcome[w] /\ told'[w] = told[w]
        BY <2>2, <1>3, <1>6, <1>8
      <3>. QED
        BY <3>1, <1>8 DEF ToldItsOutcome
    <2>. QED
      BY <2>1, <2>2
  <1>10. HistoryTyped'
    <2>1. outcome' \in [AllWrites -> {"none", "saved", "refused"}]
      BY <1>3, <1>8
    <2>2. told' \in [AllWrites -> {"none", "saved", "refused"}]
      BY <1>3, <1>8
    <2>. QED
      BY <2>1, <2>2 DEF Told, HistoryTyped
  <1>11. ASSUME NEW c \in callbacks'
         PROVE  \E i \in 1..Len(queue'[c.user]) :
                    queue'[c.user][i].id = c.id /\ queue'[c.user][i].write = c.write
    <2>1. c \in callbacks /\ c.user \in Users /\ ~(c.user = user /\ c.id = b.id)
      BY <1>1, <1>3
    <2>2. PICK i \in 1..Len(queue[c.user]) :
                   queue[c.user][i].id = c.id /\ queue[c.user][i].write = c.write
      BY <2>1 DEF Told, Awaited
    <2>3. CASE c.user # user
      BY <2>1, <2>2, <2>3
    <2>4. CASE c.user = user
      <3>1. i \in 1..Len(q) /\ q[i].id = c.id /\ q[i].write = c.write
        BY <2>2, <2>4 DEF q
      <3>2. i # 1
        BY <3>1, <2>1, <2>4
      <3>3. i - 1 \in 1..Len(Tail(q)) /\ (i - 1) + 1 = i
        BY <3>1, <3>2, <1>2
      <3>4. Tail(q)[i - 1] = q[i]
        BY <3>3, <1>2
      <3>. QED
        BY <3>1, <3>3, <3>4, <1>3, <2>4
    <2>. QED
      BY <2>3, <2>4
  <1>12. ASSUME NEW u \in Users, NEW i \in 1..Len(queue'[u])
         PROVE  \/ queue'[u][i].write \in lost
                \/ [user |-> u, id |-> queue'[u][i].id, write |-> queue'[u][i].write] \in callbacks'
    <2>1. CASE u # user
      <3>. DEFINE c == [user |-> u, id |-> queue[u][i].id, write |-> queue[u][i].write]
      <3>1. queue'[u] = queue[u]
        BY <2>1
      <3>2. queue[u][i].write \in lost \/ c \in callbacks
        BY <3>1, <1>12 DEF Told, Awaited
      <3>3. c.user # user
        BY <2>1
      <3>4. c \notin mine
        BY <3>3
      <3>. QED
        BY <3>1, <3>2, <3>4, <1>3
    <2>2. CASE u = user
      <3>. DEFINE c == [user |-> user, id |-> q[i + 1].id, write |-> q[i + 1].write]
      <3>1. i \in 1..Len(Tail(q)) /\ i + 1 \in 1..Len(q) /\ i + 1 \in 2..Len(q)
        BY <2>2, <1>2, <1>3, <1>12
      <3>2. queue'[u][i] = q[i + 1]
        BY <2>2, <3>1, <1>2, <1>3
      <3>3. q[i + 1].write \in lost \/ c \in callbacks
        BY <3>1, <1>1 DEF Told, Awaited, q
      <3>4. c.id = q[i + 1].id /\ q[i + 1].id # b.id
        BY <3>1, <1>5
      <3>5. c \notin mine
        BY <3>4
      <3>. QED
        BY <2>2, <3>2, <3>3, <3>5, <1>3
    <2>. QED
      BY <2>1, <2>2
  <1>13. Awaited'
    BY <1>11, <1>12 DEF Awaited
  <1>. QED
    BY <1>9, <1>10, <1>13 DEF Told, ToldItsOutcome

LEMMA SavedTold ==
  ASSUME Core, Told, OnWriteStreamMutationResult
  PROVE  Told'
  <1>. DEFINE b == queue[user][1]
  <1>1. /\ queue[user] # <<>> /\ queue'[user] = Tail(queue[user]) /\ Head(pipeline) = b
        /\ \A u \in Users : u # user => queue'[u] = queue[u]
    BY SavedCore
  <1>2. /\ NotifyUser(b.id, "saved") /\ outcome' = [outcome EXCEPT ![b.write] = "saved"]
        /\ UNCHANGED <<lost, denied, issued, overtaken>>
    BY <1>1 DEF OnWriteStreamMutationResult, counts
  <1>3. overtaken' \in BOOLEAN /\ (overtaken => overtaken')
    BY <1>2 DEF Told, HistoryTyped
  <1>. QED
    BY <1>1, <1>2, <1>3, DecideTold

LEMMA RefusedTold ==
  ASSUME Core, Truthful, Told, OnWriteRefused \/ OnWriteOperationFailed
  PROVE  Told'
  <1>. DEFINE b == queue[user][1]
  <1>1. /\ queue[user] # <<>> /\ queue'[user] = Tail(queue[user]) /\ Head(pipeline) = b
        /\ \A u \in Users : u # user => queue'[u] = queue[u]
        /\ down[1].write = b.write /\ HandleWriteError /\ down # <<>>
    BY RefusedHead, RefusedCore
  <1>2. NotifyUser(b.id, "refused") /\ outcome' = [outcome EXCEPT ![b.write] = "refused"]
    BY <1>1 DEF HandleWriteError
  <1>3. UNCHANGED <<lost, denied, issued>>
    BY DEF OnWriteRefused, OnWriteOperationFailed, counts
  <1>4. overtaken' \in BOOLEAN /\ (overtaken => overtaken') /\ (b.write \in denied \/ overtaken')
    <2>1. CASE OnWriteRefused
      <3>1. Head(down).kind = "refused" /\ overtaken' = overtaken
        BY <2>1 DEF OnWriteRefused
      <3>2. Head(down) = down[1] /\ 1 \in 1..Len(down)
        BY <1>1, Tails, EmptySeq DEF Core, Stream, StreamTyped
      <3>3. b.write \in denied
        BY <3>1, <3>2, <1>1 DEF Truthful, Known
      <3>. QED
        BY <3>1, <3>3 DEF Told, HistoryTyped
    <2>2. CASE OnWriteOperationFailed
      <3>1. overtaken' = TRUE
        BY <2>2 DEF OnWriteOperationFailed
      <3>. QED
        BY <3>1, Zenon
    <2>. QED
      BY <2>1, <2>2
  <1>. QED
    BY <1>1, <1>2, <1>3, <1>4, DecideTold

----------------------------------------------------------------------------
(* The queues of WriteQueue. *)

WritesOf(q) == [i \in DOMAIN q |-> q[i].write]
Undecided   == [u \in Users |-> WritesOf(queue[u])]

\* Writes are new when they are issued.
Issued ==
    /\ \A u \in Users : \A i \in 1..Len(queue[u]) : queue[u][i].write <= issued
    /\ \A i \in 1..Len(log) : log[i] <= issued
    /\ \A w \in AllWrites : w > issued => outcome[w] = "none"

LEMMA OfBatches ==
  ASSUME NEW q \in Seq(Batches)
  PROVE  /\ WritesOf(q) \in Seq(AllWrites) /\ Len(WritesOf(q)) = Len(q) /\ Len(q) \in Nat
         /\ DOMAIN WritesOf(q) = 1..Len(q)
         /\ \A i \in 1..Len(q) : WritesOf(q)[i] = q[i].write
  <1>1. DOMAIN q = 1..Len(q) /\ Len(q) \in Nat
    OBVIOUS
  <1>2. \A i \in 1..Len(q) : q[i].write \in AllWrites
    <2>1. \A i \in 1..Len(q) : q[i] \in Batches
      BY ElementOfSeq
    <2>. QED
      BY <2>1 DEF Batches
  <1>3. WritesOf(q) = [i \in 1..Len(q) |-> q[i].write]
    BY <1>1 DEF WritesOf
  <1>4. WritesOf(q) \in [1..Len(q) -> AllWrites]
    BY <1>2, <1>3
  <1>5. WritesOf(q) \in Seq(AllWrites) /\ Len(WritesOf(q)) = Len(q)
    BY <1>1, <1>4
  <1>. QED
    BY <1>1, <1>3, <1>5

LEMMA OfAppended ==
  ASSUME NEW q \in Seq(Batches), NEW b \in Batches
  PROVE  WritesOf(Append(q, b)) = Append(WritesOf(q), b.write)
  <1>. DEFINE l == WritesOf(Append(q, b))
              r == Append(WritesOf(q), b.write)
  <1>1. b.write \in AllWrites
    BY DEF Batches
  <1>2. /\ Append(q, b) \in Seq(Batches) /\ Len(Append(q, b)) = Len(q) + 1 /\ Len(q) \in Nat
        /\ Append(q, b)[Len(q) + 1] = b
        /\ \A i \in 1..Len(q) : Append(q, b)[i] = q[i]
    <2>1. /\ Append(q, b) \in Seq(Batches) /\ Len(Append(q, b)) = Len(q) + 1 /\ Len(q) \in Nat
          /\ Append(q, b)[Len(q) + 1] = b
      OBVIOUS
    <2>2. \A i \in 1..Len(q) : Append(q, b)[i] = q[i]
      OBVIOUS
    <2>. QED
      BY <2>1, <2>2
  <1>3. /\ l \in Seq(AllWrites) /\ Len(l) = Len(q) + 1
        /\ \A i \in 1..(Len(q) + 1) : l[i] = Append(q, b)[i].write
    BY <1>2, OfBatches
  <1>4. /\ r \in Seq(AllWrites) /\ Len(r) = Len(q) + 1 /\ r[Len(q) + 1] = b.write
        /\ \A i \in 1..Len(q) : r[i] = q[i].write
    <2>. DEFINE x == WritesOf(q)
                y == b.write
    <2>1. x \in Seq(AllWrites) /\ Len(x) = Len(q) /\ y \in AllWrites
          /\ \A i \in 1..Len(q) : x[i] = q[i].write
      BY <1>1, OfBatches
    <2>. HIDE DEF x, y
    <2>2. /\ Append(x, y) \in Seq(AllWrites) /\ Len(Append(x, y)) = Len(x) + 1
          /\ Append(x, y)[Len(x) + 1] = y
      BY <2>1
    <2>3. \A i \in 1..Len(x) : Append(x, y)[i] = x[i]
      BY <2>1
    <2>. QED
      BY <2>1, <2>2, <2>3 DEF x, y
  <1>. HIDE DEF l, r
  <1>5. \A i \in 1..Len(l) : l[i] = r[i]
    <2>. TAKE i \in 1..Len(l)
    <2>1. CASE i \in 1..Len(q)
      BY <2>1, <1>2, <1>3, <1>4
    <2>2. CASE i \notin 1..Len(q)
      <3>1. i = Len(q) + 1
        BY <2>2, <1>2, <1>3
      <3>. QED
        BY <3>1, <1>2, <1>3, <1>4
    <2>. QED
      BY <2>1, <2>2
  <1>6. l = r
    BY <1>3, <1>4, <1>5, SeqEqual
  <1>. QED
    BY <1>6 DEF l, r

LEMMA OfTail ==
  ASSUME NEW q \in Seq(Batches), q # <<>>
  PROVE  /\ WritesOf(Tail(q)) = Tail(WritesOf(q)) /\ WritesOf(q) # <<>>
         /\ Head(WritesOf(q)) = q[1].write
  <1>1. /\ Tail(q) \in Seq(Batches) /\ Len(q) \in Nat /\ Len(q) > 0
        /\ Len(Tail(q)) = Len(q) - 1 /\ \A i \in 1..Len(Tail(q)) : Tail(q)[i] = q[i + 1]
    BY Tails
  <1>. DEFINE l == WritesOf(Tail(q))
              x == WritesOf(q)
  <1>2. /\ l \in Seq(AllWrites) /\ Len(l) = Len(q) - 1
        /\ \A i \in 1..(Len(q) - 1) : l[i] = q[i + 1].write
    BY <1>1, OfBatches
  <1>3. /\ x \in Seq(AllWrites) /\ Len(x) = Len(q)
        /\ \A i \in 1..Len(q) : x[i] = q[i].write
    BY OfBatches
  <1>. HIDE DEF l, x
  <1>4. x # <<>>
    BY <1>1, <1>3
  <1>5. /\ Head(x) = x[1] /\ Tail(x) \in Seq(AllWrites) /\ Len(Tail(x)) = Len(x) - 1
        /\ \A i \in 1..Len(Tail(x)) : Tail(x)[i] = x[i + 1]
    BY <1>3, <1>4, HeadTailProperties
  <1>6. \A i \in 1..Len(l) : i \in 1..(Len(q) - 1) /\ i + 1 \in 1..Len(q)
    BY <1>1, <1>2
  <1>7. \A i \in 1..Len(l) : l[i] = Tail(x)[i]
    BY <1>2, <1>3, <1>5, <1>6
  <1>8. Len(l) = Len(Tail(x))
    BY <1>2, <1>3, <1>5
  <1>9. l = Tail(x)
    BY <1>2, <1>5, <1>7, <1>8, SeqEqual
  <1>10. 1 \in 1..Len(q)
    BY <1>1
  <1>. QED
    BY <1>3, <1>4, <1>5, <1>9, <1>10 DEF l, x

LEMMA UndecidedIs ==
  ASSUME Core
  PROVE  /\ DOMAIN Undecided = Users
         /\ \A u \in Users : /\ Undecided[u] = WritesOf(queue[u])
                             /\ Undecided[u] \in Seq(AllWrites)
                             /\ DOMAIN Undecided[u] = 1..Len(queue[u])
                             /\ Len(Undecided[u]) = Len(queue[u])
                             /\ \A i \in 1..Len(queue[u]) : Undecided[u][i] = queue[u][i].write
  <1>1. \A u \in Users : queue[u] \in Seq(Batches)
    BY DEF Core, Queues, QueuesTyped
  <1>2. DOMAIN Undecided = Users /\ \A u \in Users : Undecided[u] = WritesOf(queue[u])
    BY DEF Undecided
  <1>. QED
    BY <1>1, <1>2, OfBatches

LEMMA SamePromise ==
  ASSUME UNCHANGED <<queue, outcome>>, Applied' = Applied
  PROVE  UNCHANGED Promise!vars
  BY DEF Promise!vars

LEMMA InitIssued ==
  ASSUME Init
  PROVE  Issued /\ Promise!Init
  <1>1. queue = [u \in Users |-> <<>>] /\ log = <<>> /\ outcome = [w \in AllWrites |-> "none"]
    BY DEF Init
  <1>2. Issued
    BY <1>1 DEF Issued
  <1>3. [u \in Users |-> [i \in DOMAIN queue[u] |-> queue[u][i].write]] = [u \in Users |-> <<>>]
    BY <1>1
  <1>4. Applied = {}
    BY <1>1 DEF Applied
  <1>. QED
    BY <1>1, <1>2, <1>3, <1>4 DEF Promise!Init

LEMMA PromisedStep ==
  ASSUME NEW u \in Users
  PROVE  /\ \A w \in AllWrites : Promise!Issue(u, w) => Promise!Next
         /\ \A i \in DOMAIN Undecided[u] : Promise!Apply(u, i) => Promise!Next
         /\ \A result \in {"saved", "refused"} : Promise!Decide(u, result) => Promise!Next
  <1>1. ASSUME NEW w \in AllWrites, Promise!Issue(u, w)
        PROVE  Promise!Next
    BY <1>1 DEF Promise!Next
  <1>2. ASSUME NEW i \in DOMAIN Undecided[u], Promise!Apply(u, i)
        PROVE  Promise!Next
    BY <1>2 DEF Promise!Next, Undecided, WritesOf
  <1>3. ASSUME NEW result \in {"saved", "refused"}, Promise!Decide(u, result)
        PROVE  Promise!Next
    BY <1>3 DEF Promise!Next
  <1>. QED
    BY <1>1, <1>2, <1>3

LEMMA IssueStep ==
  ASSUME Core, Truthful, Told, Issued, NEW w \in AllWrites, Write(w)
  PROVE  Issued' /\ Promise!Next
  <1>. DEFINE b == [id |-> nextId, write |-> w]
  <1>1. /\ w = issued + 1 /\ issued' = w /\ UNCHANGED <<log, outcome>> /\ issued \in Nat
    BY WritesAssumption DEF Write, history, Told, HistoryTyped
  <1>2. /\ queue'[user] = Append(queue[user], b) /\ user \in Users
        /\ \A u \in Users : u # user => queue'[u] = queue[u]
        /\ queue \in [Users -> Seq(Batches)] /\ queue' \in [Users -> Seq(Batches)]
        /\ b \in Batches /\ Core'
    BY WriteCore DEF Core, Queues, QueuesTyped, Batches
  <1>3. Undecided' = [Undecided EXCEPT ![user] = Append(@, w)]
    <2>1. ASSUME NEW u \in Users
          PROVE  WritesOf(queue'[u]) = IF u = user THEN Append(WritesOf(queue[u]), w)
                                                   ELSE WritesOf(queue[u])
      <3>1. WritesOf(Append(queue[user], b)) = Append(WritesOf(queue[user]), b.write)
        BY <1>2, OfAppended
      <3>. QED
        BY <3>1, <1>2
    <2>2. Undecided' = [u \in Users |-> WritesOf(queue'[u])]
      BY DEF Undecided
    <2>. QED
      BY <2>1, <2>2, <1>2 DEF Undecided
  <1>4. \A u \in Users : \A i \in DOMAIN Undecided[u] : Undecided[u][i] # w
    <2>1. ASSUME NEW u \in Users, NEW i \in DOMAIN Undecided[u]
          PROVE  Undecided[u][i] # w
      <3>1. i \in 1..Len(queue[u]) /\ Undecided[u][i] = queue[u][i].write
            /\ queue[u][i].write \in AllWrites
        <4>1. i \in 1..Len(queue[u]) /\ Undecided[u][i] = queue[u][i].write
          BY UndecidedIs, <2>1
        <4>2. queue[u][i] \in Batches
          BY <4>1, <1>2, ElementOfSeq
        <4>. QED
          BY <4>1, <4>2 DEF Batches
      <3>2. queue[u][i].write <= issued
        BY <3>1 DEF Issued
      <3>. QED
        BY <3>1, <3>2, <1>1 DEF AllWrites
    <2>. QED
      BY <2>1
  <1>5. w \notin Applied
    <2>1. \A i \in 1..Len(log) : log[i] <= issued /\ log[i] \in Nat
      <3>1. log \in Seq(0..MaxWrites)
        BY DEF Truthful, ViewTyped
      <3>2. \A i \in 1..Len(log) : log[i] \in 0..MaxWrites
        BY <3>1, ElementOfSeq
      <3>. QED
        BY <3>2 DEF Issued
    <2>2. DOMAIN log = 1..Len(log)
      BY DEF Truthful, ViewTyped
    <2>. QED
      BY <2>1, <2>2, <1>1 DEF Applied
  <1>6. outcome[w] = "none"
    BY <1>1 DEF Issued
  <1>7. Applied' = Applied
    BY <1>1 DEF Applied
  <1>8. Promise!Next
    <2>1. PICK u \in Users : u = user
      BY <1>2
    <2>2. w \notin UNION {{Undecided[v][i] : i \in DOMAIN Undecided[v]} : v \in Users}
      BY <1>4
    <2>3. Promise!Issue(u, w)
      BY <2>1, <2>2, <1>1, <1>3, <1>5, <1>6, <1>7
      DEF Promise!Issue, Promise!Queued, Undecided, WritesOf
    <2>. QED
      BY <2>3, PromisedStep
  <1>9. Issued'
    <2>1. ASSUME NEW u \in Users, NEW i \in 1..Len(queue'[u])
          PROVE  queue'[u][i].write <= w
      <3>1. CASE u # user
        <4>1. i \in 1..Len(queue[u]) /\ queue'[u][i] = queue[u][i]
          BY <2>1, <3>1, <1>2
        <4>2. queue[u][i].write <= issued /\ queue[u][i] \in Batches
          BY <4>1, <1>2, ElementOfSeq DEF Issued
        <4>. QED
          BY <4>1, <4>2, <1>1 DEF Batches, AllWrites
      <3>2. CASE u = user
        <4>. DEFINE q == queue[user]
        <4>1. q \in Seq(Batches) /\ b \in Batches /\ queue'[u] = Append(q, b)
          BY <3>2, <1>2
        <4>2. i \in 1..Len(q) \/ i = Len(q) + 1
          BY <4>1, <2>1
        <4>3. CASE i \in 1..Len(q)
          <5>1. queue'[u][i] = q[i]
            BY <4>1, <4>3
          <5>2. q[i].write <= issued /\ q[i] \in Batches
            BY <4>1, <4>3, <1>2, ElementOfSeq DEF Issued
          <5>. QED
            BY <5>1, <5>2, <1>1 DEF Batches, AllWrites
        <4>4. CASE i = Len(q) + 1
          <5>1. queue'[u][i] = b
            BY <4>1, <4>4
          <5>. QED
            BY <5>1 DEF AllWrites
        <4>. QED
          BY <4>2, <4>3, <4>4
      <3>. QED
        BY <3>1, <3>2
    <2>2. \A i \in 1..Len(log) : log[i] <= w
      <3>1. log \in Seq(0..MaxWrites)
        BY DEF Truthful, ViewTyped
      <3>2. \A i \in 1..Len(log) : log[i] \in 0..MaxWrites
        BY <3>1, ElementOfSeq
      <3>. QED
        BY <3>2, <1>1 DEF Issued, AllWrites
    <2>3. \A v \in AllWrites : v > w => v > issued
      BY <1>1 DEF AllWrites
    <2>. QED
      BY <2>1, <2>2, <2>3, <1>1 DEF Issued
  <1>. QED
    BY <1>8, <1>9

\* The front of the user's queue is decided.
LEMMA DecideStep ==
  ASSUME Core, Core', Truthful, Told, Issued, queue[user] # <<>>,
         queue'[user] = Tail(queue[user]),
         \A u \in Users : u # user => queue'[u] = queue[u],
         NEW result \in {"saved", "refused"},
         outcome' = [outcome EXCEPT ![queue[user][1].write] = result],
         UNCHANGED <<log, issued>>,
         result = "saved" => queue[user][1].write \in Applied
  PROVE  Issued' /\ Promise!Next
  <1>. DEFINE q == queue[user]
  <1>1. /\ user \in Users /\ q \in Seq(Batches) /\ q # <<>> /\ issued \in Nat
        /\ queue \in [Users -> Seq(Batches)] /\ queue' \in [Users -> Seq(Batches)]
    BY WritesAssumption DEF Core, Queues, QueuesTyped, Told, HistoryTyped
  <1>2. /\ WritesOf(Tail(q)) = Tail(WritesOf(q)) /\ WritesOf(q) # <<>>
        /\ Head(WritesOf(q)) = q[1].write
    BY <1>1, OfTail
  <1>3. /\ Len(q) \in Nat /\ Len(q) > 0 /\ Len(Tail(q)) = Len(q) - 1 /\ q[1] \in Batches
        /\ \A i \in 1..Len(Tail(q)) : Tail(q)[i] = q[i + 1]
    BY <1>1, Tails
  <1>4. Undecided' = [Undecided EXCEPT ![user] = Tail(@)]
    <2>1. Undecided' = [u \in Users |-> WritesOf(queue'[u])]
      BY DEF Undecided
    <2>2. ASSUME NEW u \in Users
          PROVE  WritesOf(queue'[u]) = IF u = user THEN Tail(WritesOf(queue[u]))
                                                   ELSE WritesOf(queue[u])
      BY <1>2
    <2>. QED
      BY <2>1, <2>2 DEF Undecided
  <1>5. Undecided[user] # <<>> /\ Head(Undecided[user]) = q[1].write
    BY <1>1, <1>2 DEF Undecided
  <1>6. Applied' = Applied
    BY DEF Applied
  <1>7. Promise!Next
    <2>. HIDE DEF q
    <2>3. PICK u \in Users : u = user
      BY <1>1
    <2>1. outcome' = [outcome EXCEPT ![Head(Undecided[user])] = result]
      BY <1>5 DEF q
    <2>2. result = "saved" => Head(Undecided[user]) \in Applied
      BY <1>5 DEF q
    <2>4. Promise!Decide(u, result)
      BY <2>1, <2>2, <2>3, <1>4, <1>5, <1>6 DEF Promise!Decide, Undecided, WritesOf
    <2>. QED
      BY <2>4, PromisedStep
  <1>8. Issued'
    <2>1. ASSUME NEW u \in Users, NEW i \in 1..Len(queue'[u])
          PROVE  queue'[u][i].write <= issued
      <3>1. CASE u # user
        BY <2>1, <3>1 DEF Issued
      <3>2. CASE u = user
        <4>1. queue'[u][i] = q[i + 1] /\ i + 1 \in 1..Len(q)
          <5>1. queue'[u] = Tail(q) /\ i \in 1..Len(Tail(q))
            BY <2>1, <3>2
          <5>. HIDE DEF q
          <5>2. i + 1 \in 1..Len(q)
            BY <5>1, <1>3
          <5>. QED
            BY <5>1, <5>2, <1>3
        <4>. QED
          BY <4>1, <3>2 DEF Issued
      <3>. QED
        BY <3>1, <3>2
    <2>2. q[1].write <= issued
      <3>1. 1 \in 1..Len(q)
        BY <1>3
      <3>. QED
        BY <3>1, <1>1 DEF Issued
    <2>3. ASSUME NEW w \in AllWrites, w > issued
          PROVE  outcome'[w] = "none"
      <3>1. q[1].write \in AllWrites
        BY <1>3 DEF Batches
      <3>2. w # q[1].write
        BY <2>2, <2>3, <3>1, <1>1 DEF AllWrites
      <3>. QED
        BY <2>3, <3>2 DEF Issued, Told, HistoryTyped
    <2>. QED
      BY <2>1, <2>3 DEF Issued
  <1>. QED
    BY <1>7, <1>8

LEMMA SavedStep ==
  ASSUME Core, Truthful, Told, Issued, OnWriteStreamMutationResult
  PROVE  Issued' /\ Promise!Next
  <1>. DEFINE b == queue[user][1]
  <1>1. /\ Core' /\ queue[user] # <<>> /\ queue'[user] = Tail(queue[user])
        /\ Head(pipeline) = b /\ b \in Batches /\ down[1].write = b.write
        /\ \A u \in Users : u # user => queue'[u] = queue[u]
    BY SavedCore
  <1>2. /\ outcome' = [outcome EXCEPT ![b.write] = "saved"] /\ UNCHANGED <<log, issued>>
        /\ down # <<>> /\ Head(down).kind = "saved"
    BY <1>1 DEF OnWriteStreamMutationResult, counts
  <1>3. b.write \in Applied
    <2>1. Head(down) = down[1] /\ 1 \in 1..Len(down)
      BY <1>2, Tails, EmptySeq DEF Core, Stream, StreamTyped
    <2>2. PICK v \in 1..Len(log) : log[v] = b.write
      BY <2>1, <1>1, <1>2 DEF Truthful, Known
    <2>3. v \in DOMAIN log
      BY DEF Truthful, ViewTyped
    <2>4. b.write # 0
      BY <1>1 DEF Batches, AllWrites
    <2>. QED
      BY <2>2, <2>3, <2>4 DEF Applied
  <1>. QED
    BY <1>1, <1>2, <1>3, DecideStep

LEMMA RefusedStep ==
  ASSUME Core, Truthful, Told, Issued, OnWriteRefused \/ OnWriteOperationFailed
  PROVE  Issued' /\ Promise!Next
  <1>. DEFINE b == queue[user][1]
  <1>1. /\ Core' /\ queue[user] # <<>> /\ queue'[user] = Tail(queue[user])
        /\ Head(pipeline) = b /\ HandleWriteError
        /\ \A u \in Users : u # user => queue'[u] = queue[u]
    BY RefusedHead, RefusedCore
  <1>2. outcome' = [outcome EXCEPT ![b.write] = "refused"]
    BY <1>1 DEF HandleWriteError
  <1>3. UNCHANGED <<log, issued>>
    BY DEF OnWriteRefused, OnWriteOperationFailed, counts
  <1>. QED
    BY <1>1, <1>2, <1>3, DecideStep

\* Everything before the write that is applied has an answer, and no refusal.
LEMMA ApplyStep ==
  ASSUME Core, Truthful, Told, Issued, BackendApplies
  PROVE  Issued' /\ Promise!Next
  <1>. DEFINE w == Head(up).write
              n == Len(down) + 1
              q == queue[user]
  <1>1. BackendReads("write") /\ log' = Append(log, w)
    BY DEF BackendApplies
  <1>2. /\ ready /\ w \in AllWrites /\ n \in 1..Len(pipeline) /\ Len(down) \in Nat
        /\ w = pipeline[n].write
    BY <1>1, ReadsNext
  <1>3. /\ user \in Users /\ q \in Seq(Batches) /\ Front(pipeline, q)
        /\ down \in Seq(Answers) /\ log \in Seq(0..MaxWrites) /\ Linked
        /\ pipeline \in Seq(Batches)
    BY DEF Core, Queues, QueuesTyped, Stream, StreamTyped, Truthful, ViewTyped
  <1>4. /\ \A i \in 1..Len(pipeline) : pipeline[i] = q[i] /\ i \in 1..Len(q)
    <2>1. Len(pipeline) = Size(q) /\ Size(q) <= Len(q) /\ Len(pipeline) \in Nat /\ Len(q) \in Nat
      <3>1. Len(pipeline) = Size(q)
        BY <1>3 DEF Front
      <3>2. Size(q) <= Len(q)
        BY <1>3, Sizes
      <3>3. Len(pipeline) \in Nat /\ Len(q) \in Nat
        BY <1>3
      <3>. QED
        BY <3>1, <3>2, <3>3
    <2>2. Len(pipeline) <= Len(q)
      BY <2>1
    <2>. QED
      BY <2>1, <2>2, <1>3 DEF Front, Part
  <1>5. /\ DOMAIN Undecided[user] = 1..Len(q)
        /\ \A i \in 1..Len(q) : Undecided[user][i] = q[i].write
    BY <1>3, UndecidedIs
  <1>6. n \in DOMAIN Undecided[user] /\ Undecided[user][n] = w
    BY <1>2, <1>4, <1>5
  <1>7. ASSUME NEW j \in 1..(n - 1)
        PROVE  Undecided[user][j] \in Applied
    <2>1. j \in 1..Len(down) /\ j \in 1..Len(pipeline)
      BY <1>2, <1>3
    <2>2. down[j].kind # "handshake" /\ down[j].write = pipeline[j].write
      BY <2>1, <1>2, <1>3 DEF Linked, Carries
    <2>3. down[j].kind # "refused"
      BY <2>1, <1>1, <1>3 DEF BackendReads
    <2>4. down[j] \in Answers /\ pipeline[j] \in Batches
      BY <2>1, <1>3, ElementOfSeq
    <2>5. down[j].kind = "saved"
      BY <2>2, <2>3, <2>4 DEF Answers
    <2>6. PICK v \in 1..Len(log) : log[v] = down[j].write
      BY <2>1, <2>5 DEF Truthful, Known
    <2>7. Undecided[user][j] = pipeline[j].write /\ v \in DOMAIN log
      BY <2>1, <1>3, <1>4, <1>5
    <2>8. pipeline[j].write # 0
      BY <2>4 DEF Batches, AllWrites
    <2>. QED
      BY <2>2, <2>6, <2>7, <2>8 DEF Applied
  <1>. HIDE DEF w, n, q
  <1>8. /\ DOMAIN log' = 1..(Len(log) + 1) /\ DOMAIN log = 1..Len(log) /\ Len(log) \in Nat
        /\ \A i \in 1..Len(log) : log'[i] = log[i]
        /\ log'[Len(log) + 1] = w /\ Len(log') = Len(log) + 1
    <2>1. w \in 0..MaxWrites
      BY <1>2, WritesAssumption DEF AllWrites
    <2>2. /\ Len(Append(log, w)) = Len(log) + 1 /\ Len(log) \in Nat
          /\ Append(log, w)[Len(log) + 1] = w
          /\ DOMAIN Append(log, w) = 1..(Len(log) + 1) /\ DOMAIN log = 1..Len(log)
      BY <2>1, <1>3
    <2>3. \A i \in 1..Len(log) : Append(log, w)[i] = log[i]
      BY <2>1, <1>3
    <2>. QED
      BY <2>2, <2>3, <1>1
  <1>9. Applied' = Applied \cup {w}
    <2>1. w # 0
      BY <1>2 DEF AllWrites
    <2>2. {log'[i] : i \in DOMAIN log'} = {log[i] : i \in DOMAIN log} \cup {w}
      <3>1. \A i \in DOMAIN log' : i \in 1..Len(log) \/ i = Len(log) + 1
        BY <1>8
      <3>2. \A i \in 1..Len(log) : i \in DOMAIN log'
        BY <1>8
      <3>3. Len(log) + 1 \in DOMAIN log'
        BY <1>8
      <3>. QED
        BY <3>1, <3>2, <3>3, <1>8
    <2>. QED
      BY <2>1, <2>2 DEF Applied
  <1>10. UNCHANGED <<queue, outcome, issued>>
    BY <1>1 DEF BackendReads, disk
  <1>11. Promise!Next
    <2>3. PICK u \in Users : u = user
      BY <1>3
    <2>1. UNCHANGED Undecided
      BY <1>10 DEF Undecided, WritesOf
    <2>2. Applied' = Applied \cup {Undecided[user][n]}
      BY <1>6, <1>9
    <2>4. PICK i \in DOMAIN Undecided[u] : i = n
      BY <2>3, <1>6
    <2>5. Promise!Apply(u, i)
      BY <2>1, <2>2, <2>3, <2>4, <1>7, <1>10 DEF Promise!Apply, Undecided, WritesOf
    <2>. QED
      BY <2>5, PromisedStep
  <1>12. Issued'
    <2>1. w <= issued
      BY <1>2, <1>3, <1>4 DEF Issued, q
    <2>2. \A i \in 1..Len(log') : i \in 1..Len(log) \/ i = Len(log) + 1
      BY <1>8
    <2>3. \A i \in 1..Len(log') : log'[i] <= issued
      BY <2>1, <2>2, <1>8 DEF Issued
    <2>. QED
      BY <2>3, <1>10 DEF Issued
  <1>. QED
    BY <1>11, <1>12

----------------------------------------------------------------------------
(* The invariant, and what follows from it. *)

Kept == Core /\ Truthful /\ Told /\ Issued

LEMMA InitKept ==
  Init => Kept /\ Promise!Init
  BY InitCore, InitTruthful, InitTold, InitIssued DEF Kept

LEMMA IssuedSame ==
  ASSUME Issued, UNCHANGED <<queue, log, outcome, issued>>
  PROVE  Issued' /\ Applied' = Applied
  BY DEF Issued, Applied

\* One step of the SDK, the backend or another device.
LEMMA Step ==
  ASSUME Kept, [Next]_vars
  PROVE  Kept' /\ cache'.version >= cache.version /\ [Promise!Next]_(Promise!vars)
  <1>1. /\ Core /\ Truthful /\ Told /\ Issued /\ user \in Users
        /\ denied \subseteq AllWrites /\ cache.version \in Nat
    BY DEF Kept, Core, Queues, QueuesTyped, Truthful, ViewTyped, Cached
  <1>2. UNCHANGED cache => cache'.version >= cache.version
    BY <1>1
  <1>3. ASSUME NEW w \in AllWrites, Write(w)
        PROVE  Kept' /\ cache'.version >= cache.version /\ [Promise!Next]_(Promise!vars)
    <2>1. Core' /\ Truthful' /\ Told'
      BY <1>1, <1>3, WriteCore, WriteTruthful, WriteTold
    <2>2. Issued' /\ Promise!Next
      BY <1>1, <1>3, IssueStep
    <2>3. UNCHANGED cache
      BY <1>3 DEF Write
    <2>. QED
      BY <2>1, <2>2, <2>3, <1>2 DEF Kept
  <1>4. CASE OnWriteStreamMutationResult
    <2>1. Core' /\ Told' /\ Issued' /\ Promise!Next
      BY <1>1, <1>4, SavedCore, SavedTold, SavedStep
    <2>2. Truthful' /\ cache'.version >= cache.version
      BY <1>1, <1>4, <2>1, SavedTruthful
    <2>. QED
      BY <2>1, <2>2 DEF Kept
  <1>5. CASE OnWriteRefused \/ OnWriteOperationFailed
    <2>1. Core'
      BY <1>1, <1>5, RefusedHead, RefusedCore
    <2>2. Told' /\ Issued' /\ Promise!Next
      BY <1>1, <1>5, RefusedTold, RefusedStep
    <2>3. Truthful' /\ UNCHANGED cache
      BY <1>1, <1>5, <2>1, RefusedTruthful
    <2>. QED
      BY <2>1, <2>2, <2>3, <1>2 DEF Kept
  <1>6. CASE BackendApplies
    <2>1. Core'
      BY <1>1, <1>6, AppliesCore DEF Truthful
    <2>2. Truthful' /\ UNCHANGED cache
      BY <1>1, <1>6, BackendTruthful
    <2>3. UNCHANGED <<queue, callbacks, outcome, told, lost, overtaken, issued, denied>>
      BY <1>6 DEF BackendApplies, BackendReads, disk
    <2>4. Told'
      BY <2>3, <1>1, ToldSame
    <2>5. Issued' /\ Promise!Next
      BY <1>1, <1>6, ApplyStep
    <2>. QED
      BY <2>1, <2>2, <2>4, <2>5, <1>2 DEF Kept
  <1>7. CASE AnotherDeviceWrites
    <2>1. /\ log' = Append(log, 0)
          /\ UNCHANGED <<user, disk, callbacks, pipeline, stream, history, issued>>
      BY <1>7 DEF AnotherDeviceWrites
    <2>2. Core'
      BY <2>1, <1>1 DEF disk, stream, Core, Queues, QueuesTyped, Numbered, Stream, StreamTyped,
                        StreamWhileNeeded, Linked
    <2>3. Truthful' /\ cache'.version >= cache.version
      BY <1>1, <1>7, <2>2, OthersTruthful
    <2>4. Told'
      BY <2>1, <1>1, ToldSame DEF history, disk
    <2>5. /\ Len(Append(log, 0)) = Len(log) + 1 /\ Len(log) \in Nat
          /\ Append(log, 0)[Len(log) + 1] = 0
          /\ DOMAIN Append(log, 0) = 1..(Len(log) + 1) /\ DOMAIN log = 1..Len(log)
          /\ \A i \in 1..Len(log) : Append(log, 0)[i] = log[i]
      <3>1. log \in Seq(0..MaxWrites) /\ 0 \in 0..MaxWrites
        BY <1>1, WritesAssumption DEF Truthful, ViewTyped
      <3>2. \A i \in 1..Len(log) : Append(log, 0)[i] = log[i]
        BY <3>1
      <3>. QED
        BY <3>1, <3>2
    <2>6. \A i \in DOMAIN log' : i \in 1..Len(log) \/ i = Len(log) + 1
      BY <2>1, <2>5
    <2>7. Issued'
      <3>1. issued \in Nat /\ Len(log') = Len(log) + 1
        BY <2>1, <2>5, <1>1, WritesAssumption DEF Told, HistoryTyped
      <3>2. \A i \in 1..Len(log') : i \in 1..Len(log) \/ i = Len(log) + 1
        BY <3>1, <2>5
      <3>3. \A i \in 1..Len(log') : log'[i] <= issued
        BY <3>1, <3>2, <2>1, <2>5, <1>1 DEF Issued
      <3>. QED
        BY <3>3, <2>1, <1>1 DEF Issued, disk, history
    <2>8. Applied' = Applied
      <3>1. \A i \in 1..Len(log) : i \in DOMAIN log' /\ log'[i] = log[i]
        BY <2>1, <2>5
      <3>. QED
        BY <3>1, <2>1, <2>5, <2>6 DEF Applied
    <2>. QED
      BY <2>1, <2>2, <2>3, <2>4, <2>7, <2>8, SamePromise DEF Kept, disk, history
  <1>8. ASSUME NEW version \in DOMAIN log, ApplyRemoteEvent(version)
        PROVE  Kept' /\ cache'.version >= cache.version /\ [Promise!Next]_(Promise!vars)
    <2>1. UNCHANGED <<user, disk, callbacks, pipeline, stream, log, history, issued>>
      BY <1>8 DEF ApplyRemoteEvent, counts
    <2>2. Core'
      BY <2>1, <1>1 DEF disk, stream, Core, Queues, QueuesTyped, Numbered, Stream, StreamTyped,
                        StreamWhileNeeded, Linked
    <2>3. Truthful' /\ cache'.version >= cache.version
      BY <1>1, <1>8, <2>2, OthersTruthful
    <2>4. Told'
      BY <2>1, <1>1, ToldSame DEF history, disk
    <2>5. Issued' /\ Applied' = Applied
      BY <2>1, <1>1, IssuedSame DEF history, disk
    <2>. QED
      BY <2>1, <2>2, <2>3, <2>4, <2>5, SamePromise DEF Kept, disk, history
  <1>9. CASE BackendGreets \/ BackendRefuses
    <2>1. Core'
      BY <1>1, <1>9, GreetsIs, RefusesCore
    <2>2. Truthful' /\ UNCHANGED cache
      BY <1>1, <1>9, BackendTruthful
    <2>3. UNCHANGED <<queue, callbacks, log, outcome, told, lost, overtaken, issued>>
      BY <1>9 DEF BackendGreets, BackendRefuses, BackendReads, disk
    <2>4. denied \subseteq denied' /\ denied' \subseteq AllWrites
      BY <1>9, <2>2, <1>1 DEF BackendGreets, BackendRefuses, Truthful
    <2>5. Told'
      BY <2>3, <2>4, <1>1, ToldSame
    <2>6. Issued' /\ Applied' = Applied
      BY <2>3, <1>1, IssuedSame
    <2>. QED
      BY <2>1, <2>2, <2>3, <2>5, <2>6, <1>2, SamePromise DEF Kept
  <1>10. ASSUME NEW u \in Users, SwitchUser(u)
         PROVE  Kept' /\ cache'.version >= cache.version /\ [Promise!Next]_(Promise!vars)
    <2>1. UNCHANGED <<queue, callbacks, log, cache, outcome, told, lost, denied, overtaken, issued>>
      BY <1>10 DEF SwitchUser, history
    <2>2. Core'
      BY <1>1, <1>10, SwitchCore
    <2>3. Truthful'
      BY <1>1, <1>10, <2>2, SwitchTruthful
    <2>4. Told' /\ Issued' /\ Applied' = Applied
      BY <2>1, <1>1, ToldSame, IssuedSame
    <2>. QED
      BY <2>1, <2>2, <2>3, <2>4, <1>2, SamePromise DEF Kept
  <1>11. CASE Restart
    <2>1. UNCHANGED <<queue, log, cache, outcome, issued>>
      BY <1>11 DEF Restart
    <2>2. Core' /\ Truthful' /\ Told'
      BY <1>1, <1>11, RestartCore, RestartTruthful, RestartTold
    <2>3. Issued' /\ Applied' = Applied
      BY <2>1, <1>1, IssuedSame
    <2>. QED
      BY <2>1, <2>2, <2>3, <1>2, SamePromise DEF Kept
  <1>12. CASE OnStreamStart \/ OnWriteStreamHandshakeComplete \/ OnWriteStreamBroken
              \/ OnConnectivityChange \/ BackoffElapsed \/ IdleTimeout \/ UNCHANGED vars
    <2>1. /\ UNCHANGED <<user, queue, callbacks, log, view, outcome, told, lost, denied, overtaken,
                         issued>>
          /\ down' = <<>> \/ down' = down \/ (down # <<>> /\ down' = Tail(down))
      BY <1>12 DEF OnStreamStart, OnWriteStreamHandshakeComplete, OnWriteStreamBroken,
         OnConnectivityChange, BackoffElapsed, IdleTimeout, vars, disk, history, counts, Closed,
         RestartNetwork, stream
    <2>2. Core'
      <3>1. UNCHANGED vars => Core'
        BY <1>1 DEF vars, disk, stream, Core, Queues, QueuesTyped, Numbered, Stream, StreamTyped,
                    StreamWhileNeeded, Linked
      <3>. QED
        BY <3>1, <1>1, <1>12, StreamStartCore, HandshakeCore, BrokenCore, ConnectivityCore
    <2>3. Truthful'
      BY <2>1, <1>1, ViewSame
    <2>4. Told' /\ Issued' /\ Applied' = Applied
      BY <2>1, <1>1, ToldSame, IssuedSame
    <2>. QED
      BY <2>1, <2>2, <2>3, <2>4, <1>2, SamePromise DEF Kept, view
  <1>. QED
    BY <1>3, <1>4, <1>5, <1>6, <1>7, <1>8, <1>9, <1>10, <1>11, <1>12 DEF Next, Streaming, Backend

LEMMA KeptHolds == Spec => []Kept
  <1>1. Init => Kept
    BY InitKept
  <1>2. Kept /\ [Next]_vars => Kept'
    BY Step
  <1>. QED
    BY <1>1, <1>2, PTL DEF Spec

\* The state has the types of its parts.
THEOREM TypeCorrect == Spec => []TypeOK
  <1>1. Kept => TypeOK
    BY Types DEF Kept, Core, Queues, Stream, Truthful, Told
  <1>. QED
    BY <1>1, KeptHolds, PTL

\* RemoteStore and LevelDbMutationQueue: the pipeline is the front of the queue of
\* the current user, as much of it as kMaxPendingWrites allows.
THEOREM PipelineHolds == Spec => []PipelineIsFront
  <1>1. Kept => PipelineIsFront
    <2>. SUFFICES ASSUME Kept
                  PROVE  PipelineIsFront
      OBVIOUS
    <2>1. queue[user] \in Seq(Batches) /\ Front(pipeline, queue[user])
      BY DEF Kept, Core, Queues, QueuesTyped, Stream
    <2>. QED
      BY <2>1, FrontIsSubSeq DEF PipelineIsFront
  <1>. QED
    BY <1>1, KeptHolds, PTL

\* Stream: the idle timer only runs with nothing to send, and a write that waits
\* keeps the stream going.
THEOREM StreamStays == Spec => []StreamWhileNeeded
  <1>1. Kept => StreamWhileNeeded
    BY DEF Kept, Core, Stream
  <1>. QED
    BY <1>1, KeptHolds, PTL

\* RemoteStore: what a stream carries is the pipeline in its order, so every answer
\* is about its front.
THEOREM AnswersCorrelate == Spec => []AnswersMatch
  <1>1. Kept => AnswersMatch
    <2>. SUFFICES ASSUME Kept
                  PROVE  AnswersMatch
      OBVIOUS
    <2>1. /\ down \in Seq(Answers) /\ up \in Seq(Requested) /\ pipeline \in Seq(Batches)
          /\ Linked
      BY DEF Kept, Core, Stream, StreamTyped
    <2>2. DOMAIN Underway = 1..(Len(down) + Len(up)) /\ Len(down) \in Nat /\ Len(up) \in Nat
      BY <2>1, JoinedUp DEF Underway
    <2>3. \A i \in 1..Len(down) : Underway[i] = down[i].write
      <3>1. \A i \in 1..Len(down) : i \in 1..(Len(down) + Len(up))
        BY <2>2
      <3>. QED
        BY <3>1, <2>1, <2>2, JoinedUp DEF Underway
    <2>4. \A i \in 1..Len(up) : Underway[Len(down) + i] = up[i].write
      <3>1. \A i \in 1..Len(up) : Len(down) + i \in 1..(Len(down) + Len(up))
        BY <2>2
      <3>. QED
        BY <3>1, <2>1, <2>2, JoinedUp DEF Underway
    <2>5. \A i \in DOMAIN Underway :
              i \in 1..Len(down) \/ \E j \in 1..Len(up) : i = Len(down) + j
      <3>. TAKE i \in DOMAIN Underway
      <3>1. i \notin 1..Len(down) => i - Len(down) \in 1..Len(up)
                                     /\ i = Len(down) + (i - Len(down))
        BY <2>2
      <3>. QED
        BY <3>1
    <2>6. ASSUME ready
          PROVE  conn = "open" /\ Underway = [i \in DOMAIN pipeline |-> pipeline[i].write]
      <3>1. conn = "open" /\ Carries(down, up, pipeline)
        BY <2>1, <2>6 DEF Linked
      <3>2. DOMAIN Underway = DOMAIN pipeline
        BY <3>1, <2>1, <2>2 DEF Carries
      <3>3. \A i \in DOMAIN Underway : Underway[i] = pipeline[i].write
        <4>. TAKE i \in DOMAIN Underway
        <4>1. CASE i \in 1..Len(down)
          BY <4>1, <3>1, <2>3 DEF Carries
        <4>2. ASSUME NEW j \in 1..Len(up), i = Len(down) + j
              PROVE  Underway[i] = pipeline[i].write
          BY <4>2, <3>1, <2>4 DEF Carries
        <4>. QED
          BY <4>1, <4>2, <2>5
      <3>. QED
        BY <3>1, <3>2, <3>3 DEF Underway
    <2>7. ASSUME ~ready
          PROVE  \A i \in DOMAIN Underway : Underway[i] = 0
      <3>1. (\A i \in 1..Len(down) : down[i].write = 0) /\ (\A i \in 1..Len(up) : up[i].write = 0)
        BY <2>1, <2>7 DEF Linked, Greeting, Handshake
      <3>. QED
        BY <3>1, <2>3, <2>4, <2>5
    <2>. QED
      BY <2>6, <2>7 DEF AnswersMatch
  <1>. QED
    BY <1>1, KeptHolds, PTL

\* SyncEngine: every caller is told the outcome of its own write, and what is called
\* refused was refused, but for an overtaken answer.
THEOREM OutcomesTold == Spec => []ToldItsOutcome
  <1>1. Kept => ToldItsOutcome
    BY DEF Kept, Told
  <1>. QED
    BY <1>1, KeptHolds, PTL

\* LocalStore and View: the cache holds what the backend had, and the listener sees
\* the local writes over it.
THEOREM ReadsHold == Spec => []ReadYourWrites
  <1>1. Kept => ReadYourWrites
    BY DEF Kept, Truthful, Had, Sees, ReadYourWrites
  <1>. QED
    BY <1>1, KeptHolds, PTL

\* LocalStore: the cached document never goes back to an older version.
THEOREM NeverOlder == Spec => NeverBack
  <1>1. Kept /\ [Next]_vars => [cache'.version >= cache.version]_cache
    BY Step
  <1>. QED
    BY <1>1, KeptHolds, PTL DEF Spec, NeverBack

\* The SDK implements the queues of WriteQueue.
THEOREM PromiseKept == Spec => KeepsItsPromise
  <1>1. Init => Promise!Init
    BY InitKept
  <1>2. Kept /\ [Next]_vars => [Promise!Next]_(Promise!vars)
    BY Step
  <1>. QED
    BY <1>1, <1>2, KeptHolds, PTL DEF Spec, KeepsItsPromise, Promise!Spec
=============================================================================
