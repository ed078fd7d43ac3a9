---------------------------- MODULE LikesProofs -----------------------------
(***************************************************************************)
(* Theorems about Likes, for any set of users and any bounds: the document *)
(* has its type, stays warm once it is warm, from a warm start implements  *)
(* the book of independent registers, and tells idle rows what it holds.   *)
(***************************************************************************)
EXTENDS Likes, SequenceTheorems, TLAPS

\* The step of one user, as Next quantifies it.
UserStep(u) ==
    \/ Tap(u)
    \/ \E heart \in BOOLEAN : ReadAnswered(u, heart) \/ ReadFails(u, heart)
    \/ ReadRuns(u)
    \/ CommitSet(u)
    \/ CommitUpdate(u)
    \/ UpdateNotFound(u)
    \/ Refused(u)
    \/ Ack(u)
    \/ Restart(u)

\* The value kept for u on its own device is a Boolean.
LEMMA LocalValType ==
    ASSUME TypeOK, NEW u \in Users
    PROVE  LocalVal(u) \in BOOLEAN
  <1>1. CASE queue[u] = <<>>
    BY <1>1 DEF LocalVal, TypeOK
  <1>2. CASE queue[u] # <<>>
    <2>1. queue[u] \in Seq(Write) /\ Len(queue[u]) \in 1..Len(queue[u])
      BY <1>2 DEF TypeOK
    <2>2. queue[u][Len(queue[u])] \in Write
      BY <2>1
    <2>. QED
      BY <1>2, <2>2 DEF LocalVal, Write
  <1>. QED
    BY <1>1, <1>2

\* A callback that runs is one, with a Boolean, and the others stay behind it.
LEMMA CallbackTaken ==
    ASSUME TypeOK, NEW u \in Users, NEW whats, NextCallback(u, whats)
    PROVE  /\ main[u] \in Seq(Callback) /\ main[u] # <<>>
           /\ Head(main[u]) \in Callback /\ Head(main[u]).what \in whats
           /\ Head(main[u]).value \in BOOLEAN
           /\ main'[u] = Tail(main[u])
           /\ \A v \in Users \ {u} : main'[v] = main[v]
           /\ main' \in [Users -> Seq(Callback)]
  <1>1. /\ main[u] \in Seq(Callback) /\ main[u] # <<>> /\ Head(main[u]).what \in whats
        /\ main' = [main EXCEPT ![u] = Tail(main[u])] /\ main \in [Users -> Seq(Callback)]
    BY DEF NextCallback, TypeOK
  <1>2. Head(main[u]) \in Callback /\ Tail(main[u]) \in Seq(Callback)
    BY <1>1
  <1>3. Head(main[u]).value \in BOOLEAN
    BY <1>2 DEF Callback
  <1>. QED
    BY <1>1, <1>2, <1>3

\* The inductive step of type correctness, one action at a time.
LEMMA TypeStep ==
    ASSUME TypeOK, NEW u \in Users, UserStep(u)
    PROVE  TypeOK'
  <1>. USE DEF TypeOK
  <1>1. CASE Tap(u)
    BY <1>1 DEF Tap
  <1>2. ASSUME NEW heart \in BOOLEAN, ReadAnswered(u, heart)
        PROVE  TypeOK'
    <2>1. [what |-> IF SeenExists(u) THEN "there" ELSE "missing", value |-> ~heart] \in Callback
      BY DEF Callback
    <2>2. main' \in [Users -> Seq(Callback)]
      BY <1>2, <2>1 DEF ReadAnswered
    <2>3. reading' \in [Users -> [BOOLEAN -> Nat]]
      BY <1>2 DEF ReadAnswered
    <2>. QED
      BY <1>2, <2>2, <2>3 DEF ReadAnswered, counts
  <1>12. CASE ReadRuns(u)
    <2>1. NextCallback(u, {"there", "missing"})
      BY <1>12 DEF ReadRuns
    <2>2. [kind |-> IF Head(main[u]).what = "there" THEN "update" ELSE "set",
           value |-> Head(main[u]).value, live |-> TRUE] \in Write
      BY <2>1, CallbackTaken DEF Write
    <2>3. queue' \in [Users -> Seq(Write)]
      BY <1>12, <2>2 DEF ReadRuns
    <2>4. main' \in [Users -> Seq(Callback)]
      BY <2>1, CallbackTaken
    <2>. QED
      BY <1>12, <2>3, <2>4 DEF ReadRuns, counts
  <1>3. ASSUME NEW heart \in BOOLEAN, ReadFails(u, heart)
        PROVE  TypeOK'
    BY <1>3 DEF ReadFails
  <1>4. ASSUME Dequeue(u)
        PROVE  /\ queue' \in [Users -> Seq(Write)]
               /\ Head(queue[u]) \in Write
    BY <1>4 DEF Dequeue
  <1>5. ASSUME NEW write \in Write, Accepted(u, write)
        PROVE  main' \in [Users -> Seq(Callback)]
    <2>1. [what |-> "saved", value |-> write.value] \in Callback
      BY DEF Write, Callback
    <2>. QED
      BY <1>5, <2>1 DEF Accepted
  <1>6. CASE CommitSet(u)
    BY <1>4, <1>5, <1>6 DEF CommitSet, counts
  <1>7. CASE CommitUpdate(u)
    <2>1. Head(queue[u]).value \in BOOLEAN
      BY <1>4, <1>7 DEF CommitUpdate, Write
    <2>. QED
      BY <1>4, <1>5, <1>7, <2>1 DEF CommitUpdate, counts
  <1>8. CASE UpdateNotFound(u)
    BY <1>4, <1>8 DEF UpdateNotFound, counts
  <1>9. CASE Refused(u)
    BY <1>4, <1>9 DEF Refused
  <1>10. CASE Ack(u)
    <2>1. Head(main[u]).value \in BOOLEAN /\ main' \in [Users -> Seq(Callback)]
      BY <1>10, CallbackTaken DEF Ack
    <2>. QED
      BY <1>10, <2>1 DEF Ack, counts
  <1>11. CASE Restart(u)
    <2>1. [i \in DOMAIN queue[u] |-> WithoutCallback(queue[u][i])] \in Seq(Write)
      <3>1. \A write \in Write : WithoutCallback(write) \in Write
        BY DEF Write, WithoutCallback
      <3>2. DOMAIN queue[u] = 1..Len(queue[u]) /\ Len(queue[u]) \in Nat
        OBVIOUS
      <3>. QED
        BY <3>1, <3>2, IsASeq
    <2>2. queue' \in [Users -> Seq(Write)]
      BY <1>11, <2>1 DEF Restart
    <2>3. shown' \in [Users -> BOOLEAN]
      BY <1>11, LocalValType DEF Restart
    <2>. QED
      BY <1>11, <2>2, <2>3 DEF Restart
  <1>. QED
    BY <1>1, <1>2, <1>3, <1>6, <1>7, <1>8, <1>9, <1>10, <1>11, <1>12 DEF UserStep

LEMMA InitType == Init => TypeOK
  <1>1. Init => /\ exists \in BOOLEAN /\ val \in [Users -> BOOLEAN] /\ shown \in [Users -> BOOLEAN]
                /\ erased \in BOOLEAN
    BY DEF Init
  <1>2. Init => /\ queue \in [Users -> Seq(Write)] /\ main \in [Users -> Seq(Callback)]
                /\ reading \in [Users -> [BOOLEAN -> Nat]]
                /\ taps \in Nat /\ failures \in Nat /\ restarts \in Nat
    BY DEF Init
  <1>. QED
    BY <1>1, <1>2 DEF TypeOK

\* Type correctness: every reachable document, queue and row is of its type.
THEOREM TypeCorrect == Spec => []TypeOK
  <1>1. Init => TypeOK
    BY InitType
  <1>2. TypeOK /\ [Next]_vars => TypeOK'
    <2>1. ASSUME TypeOK, Next PROVE TypeOK'
      BY <2>1, TypeStep DEF Next, UserStep
    <2>2. ASSUME TypeOK, UNCHANGED vars PROVE TypeOK'
      BY <2>2 DEF vars, counts, TypeOK
    <2>. QED
      BY <2>1, <2>2
  <1>. QED
    BY <1>1, <1>2, PTL DEF Spec

\* A warm document stays warm: an answer that is worked out sees the document, a
\* callback that runs has seen it, and nothing else adds to a queue.
LEMMA WarmStep ==
    ASSUME TypeOK, Warm, NEW u \in Users, UserStep(u)
    PROVE  Warm'
  <1>. DEFINE Updates(writes) == \A i \in DOMAIN writes : writes[i].kind = "update"
              Hits(cs) == \A i \in DOMAIN cs : cs[i].what # "missing"
  <1>0. /\ exists /\ \A v \in Users : Updates(queue[v]) /\ Hits(main[v])
        /\ \A v \in Users : queue[v] \in Seq(Write) /\ main[v] \in Seq(Callback)
        /\ queue \in [Users -> Seq(Write)] /\ main \in [Users -> Seq(Callback)]
    BY DEF TypeOK, Warm
  <1>1. SUFFICES exists' /\ \A v \in Users : Updates(queue'[v]) /\ Hits(main'[v])
    BY DEF Warm
  <1>2. \A s \in Seq(Write) : s # <<>> /\ Updates(s) => Updates(Tail(s))
    OBVIOUS
  <1>3. \A s \in Seq(Callback) : s # <<>> /\ Hits(s) => Hits(Tail(s))
    OBVIOUS
  <1>4. \A s \in Seq(Write) : \A w \in Write :
            Updates(s) /\ w.kind = "update" => Updates(Append(s, w))
    BY AppendProperties
  <1>5. \A s \in Seq(Callback) : \A c \in Callback :
            Hits(s) /\ c.what # "missing" => Hits(Append(s, c))
    BY AppendProperties
  <1>. HIDE DEF Updates, Hits
  <1>6. ASSUME NEW heart \in BOOLEAN, ReadAnswered(u, heart)
        PROVE  exists' /\ \A v \in Users : Updates(queue'[v]) /\ Hits(main'[v])
    <2>1. SeenExists(u)
      BY <1>0 DEF SeenExists
    <2>2. main' = [main EXCEPT ![u] = Append(@, [what |-> "there", value |-> ~heart])]
      BY <1>6, <2>1 DEF ReadAnswered
    <2>3. [what |-> "there", value |-> ~heart] \in Callback
      BY DEF Callback
    <2>4. Hits(main'[u]) /\ \A v \in Users \ {u} : main'[v] = main[v]
      BY <1>0, <1>5, <2>2, <2>3
    <2>5. exists' /\ queue' = queue
      BY <1>0, <1>6 DEF ReadAnswered
    <2>. QED
      BY <1>0, <1>1, <2>4, <2>5
  <1>7. CASE ReadRuns(u)
    <2>1. NextCallback(u, {"there", "missing"})
      BY <1>7 DEF ReadRuns
    <2>2. Head(main[u]).what = "there"
      <3>1. main[u] # <<>> /\ Head(main[u]).what \in {"there", "missing"}
        BY <2>1, CallbackTaken
      <3>2. 1 \in DOMAIN main[u] /\ Head(main[u]) = main[u][1]
        BY <1>0, <3>1
      <3>. QED
        BY <1>0, <3>1, <3>2 DEF Hits
    <2>. DEFINE write == [kind |-> "update", value |-> Head(main[u]).value, live |-> TRUE]
    <2>3. write \in Write /\ write.kind = "update"
      BY <2>1, CallbackTaken DEF Write
    <2>4. queue' = [queue EXCEPT ![u] = Append(@, write)]
      BY <1>7, <2>2 DEF ReadRuns
    <2>. HIDE DEF write
    <2>5. Updates(queue'[u]) /\ \A v \in Users \ {u} : queue'[v] = queue[v]
      BY <1>0, <1>4, <2>3, <2>4
    <2>6. Hits(main'[u]) /\ \A v \in Users \ {u} : main'[v] = main[v]
      <3>1. /\ main'[u] = Tail(main[u]) /\ main[u] # <<>>
            /\ \A v \in Users \ {u} : main'[v] = main[v]
        BY <2>1, CallbackTaken
      <3>. QED
        BY <1>0, <1>3, <3>1
    <2>7. exists'
      BY <1>0, <1>7 DEF ReadRuns
    <2>. QED
      BY <1>0, <1>1, <2>5, <2>6, <2>7
  <1>8. CASE CommitSet(u) \/ CommitUpdate(u) \/ UpdateNotFound(u) \/ Refused(u)
    <2>1. Dequeue(u) /\ exists'
      BY <1>0, <1>8 DEF CommitSet, CommitUpdate, UpdateNotFound, Refused
    <2>2. Updates(queue'[u]) /\ \A v \in Users \ {u} : queue'[v] = queue[v]
      BY <1>0, <1>2, <2>1 DEF Dequeue
    <2>3. CASE main' = main
      BY <1>0, <1>1, <2>1, <2>2, <2>3
    <2>4. CASE Accepted(u, Head(queue[u])) /\ main' # main
      <3>1. Head(queue[u]) \in Write
        BY <1>0, <2>1 DEF Dequeue
      <3>2. [what |-> "saved", value |-> Head(queue[u]).value] \in Callback
        BY <3>1 DEF Write, Callback
      <3>3. main' = [main EXCEPT ![u] = Append(@, [what |-> "saved",
                                                   value |-> Head(queue[u]).value])]
        BY <2>4 DEF Accepted
      <3>4. Hits(main'[u]) /\ \A v \in Users \ {u} : main'[v] = main[v]
        BY <1>0, <1>5, <3>2, <3>3
      <3>. QED
        BY <1>0, <1>1, <2>1, <2>2, <3>4
    <2>. QED
      BY <1>8, <2>3, <2>4 DEF CommitSet, CommitUpdate, UpdateNotFound, Refused
  <1>9. CASE Ack(u)
    <2>1. NextCallback(u, {"saved"}) /\ exists' /\ queue' = queue
      BY <1>0, <1>9 DEF Ack
    <2>2. Hits(main'[u]) /\ \A v \in Users \ {u} : main'[v] = main[v]
      <3>1. /\ main'[u] = Tail(main[u]) /\ main[u] # <<>>
            /\ \A v \in Users \ {u} : main'[v] = main[v]
        BY <2>1, CallbackTaken
      <3>. QED
        BY <1>0, <1>3, <3>1
    <2>. QED
      BY <1>0, <1>1, <2>1, <2>2
  <1>10. CASE Restart(u)
    <2>1. exists' /\ \A v \in Users \ {u} : queue'[v] = queue[v] /\ main'[v] = main[v]
      BY <1>0, <1>10 DEF Restart
    <2>2. /\ queue'[u] = [i \in DOMAIN queue[u] |-> WithoutCallback(queue[u][i])]
          /\ main'[u] = <<>>
      BY <1>0, <1>10 DEF Restart
    <2>3. Updates(queue'[u])
      BY <1>0, <2>2 DEF Updates, WithoutCallback
    <2>4. Hits(main'[u])
      BY <2>2 DEF Hits
    <2>. QED
      BY <1>0, <1>1, <2>1, <2>3, <2>4
  <1>11. CASE Tap(u) \/ \E heart \in BOOLEAN : ReadFails(u, heart)
    BY <1>0, <1>1, <1>11 DEF Tap, ReadFails
  <1>. QED
    BY <1>6, <1>7, <1>8, <1>9, <1>10, <1>11 DEF UserStep

LEMMA WarmNext == TypeOK /\ Warm /\ [Next]_vars => Warm'
  <1>1. ASSUME TypeOK, Warm, Next PROVE Warm'
    BY <1>1, WarmStep DEF Next, UserStep
  <1>2. ASSUME Warm, UNCHANGED vars PROVE Warm'
    BY <1>2 DEF vars, Warm
  <1>. QED
    BY <1>1, <1>2

\* No step of any number of devices leads out of the warm states: after the first
\* writes of a post are decided, postLiked never replaces its whole document.
THEOREM WarmForever == Spec => WarmStays
  <1>1. TypeOK /\ [Next]_vars => [Warm => Warm']_vars
    BY WarmNext
  <1>. QED
    BY <1>1, TypeCorrect, PTL DEF Spec, WarmStays

\* The values of a queue of writes follow the queue.
LEMMA ValuesOfQueue ==
    ASSUME NEW q \in Seq(Write)
    PROVE  /\ Values(q) \in Seq(BOOLEAN)
           /\ \A write \in Write : Values(Append(q, write)) = Append(Values(q), write.value)
           /\ q # <<>> => /\ Values(q) # <<>>
                           /\ Head(Values(q)) = Head(q).value
                           /\ Values(Tail(q)) = Tail(Values(q))
  <1>1. Values(q) \in Seq(BOOLEAN) /\ Len(Values(q)) = Len(q)
    <2>1. DOMAIN q = 1..Len(q) /\ Len(q) \in Nat
      OBVIOUS
    <2>2. \A i \in 1..Len(q) : q[i].value \in BOOLEAN
      <3>1. \A i \in 1..Len(q) : q[i] \in Write
        OBVIOUS
      <3>2. \A write \in Write : write.value \in BOOLEAN
        BY DEF Write
      <3>. QED
        BY <3>1, <3>2
    <2>. QED
      BY <2>1, <2>2, IsASeq DEF Values
  <1>2. ASSUME NEW write \in Write
        PROVE  Values(Append(q, write)) = Append(Values(q), write.value)
    <2>1. write.value \in BOOLEAN
      BY DEF Write
    <2>2. /\ Append(q, write) \in Seq(Write)
          /\ Len(Append(q, write)) = Len(q) + 1
          /\ DOMAIN Append(q, write) = 1..(Len(q) + 1)
          /\ \A i \in 1..Len(q) : Append(q, write)[i] = q[i]
          /\ Append(q, write)[Len(q) + 1] = write
      BY AppendProperties
    <2>3. /\ DOMAIN Append(Values(q), write.value) = 1..(Len(q) + 1)
          /\ \A i \in 1..Len(q) : Append(Values(q), write.value)[i] = Values(q)[i]
          /\ Append(Values(q), write.value)[Len(q) + 1] = write.value
      BY <1>1, <2>1, AppendProperties
    <2>4. \A i \in 1..(Len(q) + 1) :
              Append(Values(q), write.value)[i] = Append(q, write)[i].value
      <3>1. \A i \in 1..Len(q) : Values(q)[i] = q[i].value
        BY DEF Values
      <3>2. \A i \in 1..(Len(q) + 1) : i \in 1..Len(q) \/ i = Len(q) + 1
        OBVIOUS
      <3>. QED
        BY <2>2, <2>3, <3>1, <3>2
    <2>5. Append(Values(q), write.value) \in Seq(BOOLEAN)
      BY <1>1, <2>1
    <2>. QED
      BY <2>2, <2>3, <2>4, <2>5 DEF Values
  <1>3. ASSUME q # <<>>
        PROVE  /\ Values(q) # <<>>
               /\ Head(Values(q)) = Head(q).value
               /\ Values(Tail(q)) = Tail(Values(q))
    <2>1. Values(q) # <<>> /\ Head(Values(q)) = Head(q).value
      BY <1>1, <1>3 DEF Values
    <2>2. /\ DOMAIN Tail(q) = 1..(Len(q) - 1)
          /\ \A i \in 1..(Len(q) - 1) : Tail(q)[i] = q[i + 1]
      BY <1>3
    <2>3. /\ Tail(Values(q)) \in Seq(BOOLEAN)
          /\ DOMAIN Tail(Values(q)) = 1..(Len(q) - 1)
          /\ \A i \in 1..(Len(q) - 1) : Tail(Values(q))[i] = Values(q)[i + 1]
      BY <1>1, <2>1
    <2>4. \A i \in 1..(Len(q) - 1) : Values(q)[i + 1] = Tail(q)[i].value
      BY <2>2 DEF Values
    <2>. QED
      BY <2>1, <2>2, <2>3, <2>4 DEF Values
  <1>. QED
    BY <1>1, <1>2, <1>3

\* Every step of a warm document is a step of the book, or leaves it as it is.
LEMMA BookStep ==
    ASSUME TypeOK, Warm, NEW u \in Users, UserStep(u)
    PROVE  [Book!Next]_(Book!book)
  <1>. DEFINE Pending == [v \in Users |-> Values(queue[v])]
  <1>1. queue \in [Users -> Seq(Write)] /\ val \in [Users -> BOOLEAN]
    BY DEF TypeOK
  <1>2. ASSUME UNCHANGED <<val, queue>>
        PROVE  [Book!Next]_(Book!book)
    BY <1>2 DEF Book!book
  <1>3. CASE ReadRuns(u)
    <2>. DEFINE wanted == Head(main[u]).value
                write == [kind |-> IF Head(main[u]).what = "there" THEN "update" ELSE "set",
                          value |-> wanted, live |-> TRUE]
    <2>1. wanted \in BOOLEAN
      BY <1>3, CallbackTaken DEF ReadRuns
    <2>2. write \in Write /\ write.value = wanted
      BY <2>1 DEF Write
    <2>3. queue' = [queue EXCEPT ![u] = Append(@, write)] /\ val' = val
      BY <1>3 DEF ReadRuns
    <2>. HIDE DEF write, wanted
    <2>4. Pending' = [Pending EXCEPT ![u] = Append(@, wanted)]
      BY <1>1, <2>2, <2>3, ValuesOfQueue
    <2>5. Book!Ask(u, wanted)
      BY <2>3, <2>4 DEF Book!Ask
    <2>. QED
      BY <2>1, <2>5 DEF Book!Next
  <1>4. ASSUME Dequeue(u)
        PROVE  /\ Pending[u] # <<>> /\ Head(Pending[u]) = Head(queue[u]).value
               /\ Pending' = [Pending EXCEPT ![u] = Tail(@)]
    BY <1>1, <1>4, ValuesOfQueue DEF Dequeue
  <1>5. CASE CommitUpdate(u)
    <2>1. Dequeue(u) /\ val' = [val EXCEPT ![u] = Head(queue[u]).value]
      BY <1>5 DEF CommitUpdate
    <2>2. Book!Save(u)
      BY <1>4, <2>1 DEF Book!Save
    <2>. QED
      BY <2>2 DEF Book!Next
  <1>6. CASE CommitSet(u)
    <2>1. queue[u] \in Seq(Write) /\ queue[u] # <<>> /\ Head(queue[u]).kind = "set"
      BY <1>1, <1>6 DEF CommitSet, Dequeue
    <2>2. 1 \in DOMAIN queue[u] /\ Head(queue[u]) = queue[u][1]
      BY <2>1
    <2>. QED
      BY <2>1, <2>2 DEF Warm
  <1>7. CASE UpdateNotFound(u)
    BY <1>7 DEF UpdateNotFound, Warm
  <1>8. CASE Refused(u)
    <2>1. Dequeue(u) /\ val' = val
      BY <1>8 DEF Refused
    <2>2. Book!Refuse(u)
      BY <1>4, <2>1 DEF Book!Refuse
    <2>. QED
      BY <2>2 DEF Book!Next
  <1>9. CASE Restart(u)
    <2>1. val' = val /\ queue' = [queue EXCEPT ![u] =
                                      [i \in DOMAIN @ |-> WithoutCallback(@[i])]]
      BY <1>9 DEF Restart
    <2>2. Values([i \in DOMAIN queue[u] |-> WithoutCallback(queue[u][i])]) = Values(queue[u])
      BY DEF Values, WithoutCallback
    <2>3. \A v \in Users : Values(queue'[v]) = Values(queue[v])
      BY <1>1, <2>1, <2>2
    <2>4. Pending' = Pending
      BY <2>3
    <2>. QED
      BY <2>1, <2>4 DEF Book!book
  <1>10. CASE Tap(u) \/ Ack(u) \/ \E heart \in BOOLEAN : ReadAnswered(u, heart) \/ ReadFails(u, heart)
    BY <1>2, <1>10 DEF Tap, Ack, ReadAnswered, ReadFails
  <1>. QED
    BY <1>3, <1>5, <1>6, <1>7, <1>8, <1>9, <1>10 DEF UserStep

\* From a document that exists, the devices of all users together implement the
\* book of independent registers: no like is lost to another user's like.
THEOREM WarmIsABook == WarmSpec => IsABook
  <1>1. WarmInit => Book!Init /\ TypeOK /\ Warm
    <2>1. \A u \in Users : Init => Values(queue[u]) = <<>>
      BY DEF Init, Values
    <2>2. Init => TypeOK
      BY InitType
    <2>3. WarmInit => Warm
      BY DEF WarmInit, Init, Warm
    <2>. QED
      BY <2>1, <2>2, <2>3 DEF WarmInit, Init, Book!Init
  <1>2. TypeOK /\ Warm /\ [Next]_vars => [Book!Next]_(Book!book)
    <2>1. ASSUME TypeOK, Warm, Next PROVE [Book!Next]_(Book!book)
      BY <2>1, BookStep DEF Next, UserStep
    <2>2. ASSUME UNCHANGED vars PROVE Book!book' = Book!book
      BY <2>2 DEF vars, Book!book
    <2>. QED
      BY <2>1, <2>2
  <1>3. WarmSpec => Spec
    BY PTL DEF WarmSpec, WarmInit, Spec
  <1>. QED
    BY <1>1, <1>2, <1>3, TypeCorrect, WarmNext, PTL DEF WarmSpec, IsABook, Book!Spec

\* And from any document, once it is warm.
THEOREM BookFromThen == Spec => BookOnceWarm
  <1>1. TypeOK /\ [Next]_vars => [Warm => Warm' /\ [Book!Next]_(Book!book)]_vars
    <2>1. ASSUME TypeOK, Warm, Next PROVE [Book!Next]_(Book!book)
      BY <2>1, BookStep DEF Next, UserStep
    <2>2. ASSUME TypeOK, Warm, Next, vars' # vars PROVE Warm'
      BY <2>2, WarmNext
    <2>. QED
      BY <2>1, <2>2
  <1>. QED
    BY <1>1, TypeCorrect, PTL DEF Spec, BookOnceWarm

----------------------------------------------------------------------------
\* The completions among callbacks lead a row to value, the last of them deciding.
Told(cs, row, value) ==
    /\ \A i \in DOMAIN cs :
          cs[i].what = "saved" /\ (\A j \in DOMAIN cs : j > i => cs[j].what # "saved")
              => cs[i].value = value
    /\ (\A i \in DOMAIN cs : cs[i].what # "saved") => row = value

\* The last write of u's queue.
Last(u) == queue[u][Len(queue[u])]

\* With an empty queue, the completions tell the row what the backend holds.
ToldValue(u) == queue[u] = <<>> => Told(main[u], shown[u], val[u])

\* If no completion of the last write is to come, the row shows its value already.
ToldBefore(u) ==
    queue[u] # <<>> /\ ~Last(u).live =>
        /\ \A i \in DOMAIN main[u] : main[u][i].what # "saved"
        /\ shown[u] = Last(u).value

\* The writes restored from disk are the oldest ones.
OldFirst(u) == \A i, j \in DOMAIN queue[u] : i < j /\ queue[u][i].live => queue[u][j].live

\* An update finds a document, or waits behind the set that creates it.
Founded(u) == \A i \in DOMAIN queue[u] :
    queue[u][i].kind = "update" => exists \/ \E j \in DOMAIN queue[u] : j < i /\ queue[u][j].kind = "set"

\* What an answer saw, in the backend or in the queue, is still there.
Backed(u) == (\E i \in DOMAIN main[u] : main[u][i].what = "there") => SeenExists(u)

Device(u) == ToldValue(u) /\ ToldBefore(u) /\ OldFirst(u) /\ Founded(u) /\ Backed(u)

\* The inductive invariant: as long as nothing failed and nobody's like was erased.
Sound == failures = 0 /\ ~erased => \A u \in Users : Device(u)

\* A longer list keeps its last member when its first one goes.
LEMMA TailKeepsLast ==
    ASSUME NEW S, NEW s \in Seq(S)
    PROVE  /\ s # <<>> => Len(s) \in Nat /\ (Len(s) = 1 \/ Len(s) > 1)
           /\ Len(s) = 1 => Tail(s) = <<>> /\ Head(s) = s[Len(s)]
           /\ Len(s) > 1 => Tail(s) # <<>> /\ Tail(s)[Len(Tail(s))] = s[Len(s)]
  <1>1. s # <<>> => Len(s) \in Nat /\ (Len(s) = 1 \/ Len(s) > 1)
    OBVIOUS
  <1>2. ASSUME Len(s) = 1
        PROVE  Tail(s) = <<>> /\ Head(s) = s[Len(s)]
    <2>1. s # <<>>
      BY <1>2
    <2>2. Tail(s) \in Seq(S) /\ Len(Tail(s)) = 0
      BY <1>2, <2>1, HeadTailProperties
    <2>3. Tail(s) = <<>>
      BY <2>2, EmptySeq
    <2>4. Head(s) = s[1]
      BY <2>1
    <2>. QED
      BY <1>2, <2>3, <2>4
  <1>3. ASSUME Len(s) > 1
        PROVE  Tail(s) # <<>> /\ Tail(s)[Len(Tail(s))] = s[Len(s)]
    <2>1. s # <<>> /\ Len(s) \in Nat
      BY <1>3
    <2>2. Len(s) - 1 \in 1..(Len(s) - 1) /\ (Len(s) - 1) + 1 = Len(s)
      BY <1>3, <2>1
    <2>3. Len(Tail(s)) = Len(s) - 1
      BY <2>1, HeadTailProperties
    <2>4. Tail(s) # <<>>
      <3>1. Len(<< >>) = 0 /\ Len(Tail(s)) # 0
        BY <1>3, <2>1, <2>3
      <3>. QED
        BY <3>1, Zenon
    <2>5. \A i \in 1..(Len(s) - 1) : Tail(s)[i] = s[i + 1]
      BY <2>1, <2>3, HeadTailProperties, Zenon
    <2>6. Tail(s)[Len(s) - 1] = s[Len(s)]
      BY <2>2, <2>5
    <2>. QED
      BY <2>3, <2>4, <2>6
  <1>. QED
    BY <1>1, <1>2, <1>3

\* A callback of a read changes nothing of what the completions tell.
LEMMA ToldApart ==
    ASSUME NEW cs \in Seq(Callback), NEW c \in Callback, c.what # "saved",
           NEW row, NEW value, Told(cs, row, value)
    PROVE  Told(Append(cs, c), row, value)
  <1>1. /\ Len(cs) \in Nat /\ DOMAIN cs = 1..Len(cs)
        /\ DOMAIN Append(cs, c) = 1..(Len(cs) + 1)
        /\ \A i \in 1..Len(cs) : Append(cs, c)[i] = cs[i]
        /\ Append(cs, c)[Len(cs) + 1] = c
    BY AppendProperties
  <1>2. DOMAIN cs \subseteq DOMAIN Append(cs, c)
    BY <1>1
  <1>3. \A i \in DOMAIN Append(cs, c) : Append(cs, c)[i].what = "saved" => i \in DOMAIN cs
    BY <1>1
  <1>. QED
    BY <1>1, <1>2, <1>3 DEF Told

\* The completion that comes last decides.
LEMMA ToldLast ==
    ASSUME NEW cs \in Seq(Callback), NEW c \in Callback, c.what = "saved", NEW row
    PROVE  Told(Append(cs, c), row, c.value)
  <1>1. /\ Len(cs) \in Nat /\ DOMAIN cs = 1..Len(cs)
        /\ DOMAIN Append(cs, c) = 1..(Len(cs) + 1)
        /\ Append(cs, c)[Len(cs) + 1] = c
    BY AppendProperties
  <1>2. Len(cs) + 1 \in DOMAIN Append(cs, c)
    BY <1>1
  <1>3. \A i \in DOMAIN Append(cs, c) : i = Len(cs) + 1 \/ Len(cs) + 1 > i
    BY <1>1
  <1>. QED
    BY <1>1, <1>2, <1>3 DEF Told

\* A callback that runs, and shows its value if it is a completion, leaves what the
\* row is led to.
LEMMA ToldTakes ==
    ASSUME NEW cs \in Seq(Callback), cs # <<>>, NEW row, NEW value, Told(cs, row, value)
    PROVE  Told(Tail(cs), IF Head(cs).what = "saved" THEN Head(cs).value ELSE row, value)
  <1>. DEFINE rest == Tail(cs)
              kept == IF Head(cs).what = "saved" THEN Head(cs).value ELSE row
  <1>1. /\ Len(cs) \in Nat \ {0} /\ DOMAIN cs = 1..Len(cs) /\ Head(cs) = cs[1]
        /\ DOMAIN rest = 1..(Len(cs) - 1)
        /\ \A i \in 1..(Len(cs) - 1) : rest[i] = cs[i + 1]
    OBVIOUS
  <1>. HIDE DEF rest
  <1>2. ASSUME NEW i \in DOMAIN rest, rest[i].what = "saved",
               \A j \in DOMAIN rest : j > i => rest[j].what # "saved"
        PROVE  rest[i].value = value
    <2>1. i + 1 \in DOMAIN cs /\ cs[i + 1] = rest[i] /\ i \in Nat
      BY <1>1
    <2>2. ASSUME NEW j \in DOMAIN cs, j > i + 1
          PROVE  cs[j].what # "saved"
      <3>1. j - 1 \in DOMAIN rest /\ j - 1 > i /\ (j - 1) + 1 = j
        BY <1>1, <2>1, <2>2
      <3>2. rest[j - 1] = cs[(j - 1) + 1]
        BY <1>1, <3>1
      <3>. QED
        BY <1>2, <3>1, <3>2
    <2>. QED
      BY <1>2, <2>1, <2>2 DEF Told
  <1>3. ASSUME \A i \in DOMAIN rest : rest[i].what # "saved"
        PROVE  kept = value
    <2>1. \A j \in DOMAIN cs : j > 1 => cs[j].what # "saved"
      <3>1. ASSUME NEW j \in DOMAIN cs, j > 1
            PROVE  cs[j].what # "saved"
        <4>1. j - 1 \in DOMAIN rest /\ (j - 1) + 1 = j
          BY <1>1, <3>1
        <4>2. rest[j - 1] = cs[(j - 1) + 1]
          BY <1>1, <4>1
        <4>. QED
          BY <1>3, <4>1, <4>2
      <3>. QED
        BY <3>1
    <2>2. 1 \in DOMAIN cs /\ \A j \in DOMAIN cs : j = 1 \/ j > 1
      BY <1>1
    <2>. QED
      BY <1>1, <2>1, <2>2 DEF Told
  <1>4. Told(rest, kept, value)
    BY <1>2, <1>3 DEF Told
  <1>. QED
    BY <1>4 DEF rest

\* Another device's step, which leaves u's part of the state and u's key alone.
LEMMA DeviceAlone ==
    ASSUME NEW u \in Users, Device(u),
           queue'[u] = queue[u], main'[u] = main[u], shown'[u] = shown[u],
           val'[u] = val[u], exists => exists'
    PROVE  Device(u)'
  <1>1. ToldValue(u)'
    BY DEF Device, ToldValue
  <1>2. ToldBefore(u)'
    BY DEF Device, ToldBefore, Last
  <1>3. OldFirst(u)'
    BY DEF Device, OldFirst
  <1>4. Founded(u)'
    BY DEF Device, Founded
  <1>5. Backed(u)'
    BY DEF Device, Backed, SeenExists
  <1>. QED
    BY <1>1, <1>2, <1>3, <1>4, <1>5 DEF Device

\* An answer is worked out: what it saw is there, and it tells the row nothing.
LEMMA DeviceAnswered ==
    ASSUME TypeOK, NEW u \in Users, Device(u), NEW heart \in BOOLEAN, ReadAnswered(u, heart)
    PROVE  Device(u)'
  <1>. DEFINE answer == [what |-> IF SeenExists(u) THEN "there" ELSE "missing", value |-> ~heart]
  <1>1. /\ answer \in Callback /\ answer.what # "saved"
        /\ answer.what = "there" => SeenExists(u)
    BY DEF Callback
  <1>2. /\ main'[u] = Append(main[u], answer) /\ main[u] \in Seq(Callback)
        /\ queue' = queue /\ exists' = exists /\ val' = val /\ shown' = shown
    BY DEF ReadAnswered, TypeOK
  <1>. HIDE DEF answer
  <1>3. /\ Len(main[u]) \in Nat /\ DOMAIN main[u] = 1..Len(main[u])
        /\ DOMAIN main'[u] = 1..(Len(main[u]) + 1)
        /\ \A i \in 1..Len(main[u]) : main'[u][i] = main[u][i]
        /\ main'[u][Len(main[u]) + 1] = answer
    BY <1>1, <1>2, AppendProperties
  <1>4. \A i \in DOMAIN main'[u] : i \in DOMAIN main[u] \/ main'[u][i] = answer
    BY <1>3
  <1>5. ToldValue(u)'
    <2>1. ASSUME queue[u] = <<>>
          PROVE  Told(Append(main[u], answer), shown[u], val[u])
      <3>1. Told(main[u], shown[u], val[u])
        BY <2>1 DEF Device, ToldValue
      <3>. QED
        BY <1>1, <1>2, <3>1, ToldApart
    <2>. QED
      BY <1>2, <2>1 DEF ToldValue
  <1>6. ToldBefore(u)'
    BY <1>1, <1>2, <1>3, <1>4 DEF Device, ToldBefore, Last
  <1>7. OldFirst(u)'
    BY <1>2 DEF Device, OldFirst
  <1>8. Founded(u)'
    BY <1>2 DEF Device, Founded
  <1>9. Backed(u)'
    <2>1. SeenExists(u)' = SeenExists(u)
      BY <1>2 DEF SeenExists
    <2>. QED
      BY <1>1, <1>3, <1>4, <2>1 DEF Device, Backed
  <1>. QED
    BY <1>5, <1>6, <1>7, <1>8, <1>9 DEF Device

\* The callback of a read queues a write that waits for its completion behind all
\* the others.
LEMMA DeviceReads ==
    ASSUME TypeOK, NEW u \in Users, Device(u), ReadRuns(u)
    PROVE  Device(u)'
  <1>. DEFINE write == [kind  |-> IF Head(main[u]).what = "there" THEN "update" ELSE "set",
                        value |-> Head(main[u]).value, live |-> TRUE]
  <1>0. /\ main[u] \in Seq(Callback) /\ main[u] # <<>> /\ Head(main[u]).value \in BOOLEAN
        /\ main'[u] = Tail(main[u]) /\ Head(main[u]) = main[u][1] /\ 1 \in DOMAIN main[u]
    <2>1. NextCallback(u, {"there", "missing"})
      BY DEF ReadRuns
    <2>2. main[u] \in Seq(Callback) /\ main[u] # <<>>
      BY <2>1, CallbackTaken
    <2>. QED
      BY <2>1, <2>2, CallbackTaken
  <1>1. write \in Write /\ write.live /\ (write.kind = "update" => SeenExists(u))
    <2>1. write \in Write /\ write.live
      BY <1>0 DEF Write
    <2>2. write.kind = "update" => SeenExists(u)
      BY <1>0 DEF Device, Backed
    <2>. QED
      BY <2>1, <2>2
  <1>2. queue'[u] = Append(queue[u], write) /\ exists' = exists
    BY DEF ReadRuns, TypeOK
  <1>. HIDE DEF write
  <1>3. queue[u] \in Seq(Write) /\ Len(queue[u]) \in Nat /\ DOMAIN queue[u] = 1..Len(queue[u])
    BY DEF TypeOK
  <1>4. /\ Len(queue'[u]) = Len(queue[u]) + 1
        /\ DOMAIN queue'[u] = 1..(Len(queue[u]) + 1)
        /\ \A i \in 1..Len(queue[u]) : queue'[u][i] = queue[u][i]
        /\ queue'[u][Len(queue[u]) + 1] = write
    BY <1>1, <1>2, <1>3, AppendProperties
  <1>5. queue'[u] # <<>>
    BY <1>3, <1>4
  <1>6. ToldValue(u)'
    BY <1>5 DEF ToldValue
  <1>7. ToldBefore(u)'
    BY <1>1, <1>4 DEF ToldBefore, Last
  <1>8. OldFirst(u)'
    <2>1. OldFirst(u)
      BY DEF Device
    <2>. QED
      BY <1>1, <1>3, <1>4, <2>1 DEF OldFirst
  <1>9. Founded(u)'
    <2>1. Founded(u)
      BY DEF Device
    <2>2. ASSUME NEW i \in 1..Len(queue[u]), queue'[u][i].kind = "update"
          PROVE  exists' \/ \E j \in DOMAIN queue'[u] : j < i /\ queue'[u][j].kind = "set"
      BY <1>2, <1>3, <1>4, <2>1, <2>2 DEF Founded
    <2>3. ASSUME write.kind = "update"
          PROVE  exists' \/ \E j \in DOMAIN queue'[u] :
                                 j < Len(queue[u]) + 1 /\ queue'[u][j].kind = "set"
      BY <1>1, <1>2, <1>3, <1>4, <2>3 DEF SeenExists
    <2>. QED
      BY <1>3, <1>4, <2>2, <2>3 DEF Founded
  <1>10. Backed(u)'
    <2>1. \A i \in DOMAIN Tail(main[u]) : i + 1 \in DOMAIN main[u] /\ Tail(main[u])[i] = main[u][i + 1]
      BY <1>0
    <2>2. (\E i \in DOMAIN main'[u] : main'[u][i].what = "there") => SeenExists(u)
      BY <1>0, <2>1 DEF Device, Backed
    <2>3. SeenExists(u) => SeenExists(u)'
      BY <1>2, <1>3, <1>4 DEF SeenExists
    <2>. QED
      BY <2>2, <2>3 DEF Backed
  <1>. QED
    BY <1>6, <1>7, <1>8, <1>9, <1>10 DEF Device

\* The backend takes the oldest write, and its value becomes the user's.
LEMMA DeviceCommits ==
    ASSUME TypeOK, NEW u \in Users, Device(u), Dequeue(u), Accepted(u, Head(queue[u])),
           val'[u] = Head(queue[u]).value, exists', shown' = shown
    PROVE  Device(u)'
  <1>. DEFINE write == Head(queue[u])
  <1>1. /\ queue[u] \in Seq(Write) /\ queue[u] # <<>> /\ Len(queue[u]) \in Nat \ {0}
        /\ DOMAIN queue[u] = 1..Len(queue[u]) /\ write = queue[u][1]
        /\ queue'[u] = Tail(queue[u])
    BY DEF TypeOK, Dequeue
  <1>2. /\ queue'[u] \in Seq(Write) /\ Len(queue'[u]) = Len(queue[u]) - 1
        /\ DOMAIN queue'[u] = 1..(Len(queue[u]) - 1)
        /\ \A i \in 1..(Len(queue[u]) - 1) : queue'[u][i] = queue[u][i + 1]
    BY <1>1
  <1>3. write.value \in BOOLEAN /\ write.live \in BOOLEAN
    <2>1. write \in Write
      BY <1>1
    <2>. QED
      BY <2>1 DEF Write
  <1>. DEFINE done == [what |-> "saved", value |-> write.value]
  <1>4. /\ main[u] \in Seq(Callback)
        /\ write.live => main'[u] = Append(main[u], done)
        /\ ~write.live => main'[u] = main[u]
    BY DEF TypeOK, Accepted
  <1>8. done \in Callback /\ done.what = "saved" /\ done.value = write.value
    BY <1>3 DEF Callback
  <1>9. Backed(u)'
    BY DEF Backed, SeenExists
  <1>. HIDE DEF write, done
  <1>5. CASE Len(queue[u]) = 1
    <2>1. queue'[u] = <<>> /\ DOMAIN queue'[u] = {} /\ Last(u) = write
      BY <1>1, <1>2, <1>5 DEF Last
    <2>2. CASE write.live
      <3>1. Told(Append(main[u], done), shown[u], done.value)
        BY <1>4, <1>8, ToldLast
      <3>2. main'[u] = Append(main[u], done) /\ done.value = val'[u] /\ shown' = shown
        BY <1>4, <1>8, <2>2 DEF write
      <3>3. ToldValue(u)'
        BY <3>1, <3>2 DEF ToldValue
      <3>. QED
        BY <1>9, <2>1, <3>3 DEF Device, ToldBefore, OldFirst, Founded
    <2>3. CASE ~write.live
      <3>1. /\ main'[u] = main[u] /\ shown'[u] = write.value
            /\ \A i \in DOMAIN main[u] : main[u][i].what # "saved"
        BY <1>1, <1>4, <2>1, <2>3 DEF Device, ToldBefore
      <3>2. ToldValue(u)'
        BY <3>1 DEF write, ToldValue, Told
      <3>. QED
        BY <1>9, <2>1, <3>2 DEF Device, ToldBefore, OldFirst, Founded
    <2>. QED
      BY <2>2, <2>3
  <1>6. CASE Len(queue[u]) > 1
    <2>1. queue'[u] # <<>> /\ Last(u)' = Last(u)
      <3>1. /\ Tail(queue[u]) # <<>>
            /\ Tail(queue[u])[Len(Tail(queue[u]))] = queue[u][Len(queue[u])]
        BY <1>1, <1>6, TailKeepsLast
      <3>. QED
        BY <1>1, <3>1 DEF Last
    <2>2. ToldValue(u)'
      BY <2>1 DEF ToldValue
    <2>3. ToldBefore(u)'
      <3>1. write.live => Last(u).live
        BY <1>1, <1>6 DEF Device, OldFirst, Last
      <3>. QED
        BY <1>1, <1>4, <2>1, <3>1 DEF Device, ToldBefore
    <2>4. OldFirst(u)'
      <3>1. ASSUME NEW i \in 1..(Len(queue[u]) - 1), NEW j \in 1..(Len(queue[u]) - 1),
                   i < j, queue'[u][i].live
            PROVE  queue'[u][j].live
        <4>1. i + 1 \in DOMAIN queue[u] /\ j + 1 \in DOMAIN queue[u] /\ i + 1 < j + 1
          BY <1>1, <3>1
        <4>2. queue'[u][i] = queue[u][i + 1] /\ queue'[u][j] = queue[u][j + 1]
          BY <1>2
        <4>. QED
          BY <3>1, <4>1, <4>2 DEF Device, OldFirst
      <3>. QED
        BY <1>2, <3>1 DEF OldFirst
    <2>5. Founded(u)'
      BY DEF Founded
    <2>. QED
      BY <1>9, <2>2, <2>3, <2>4, <2>5 DEF Device
  <1>7. Len(queue[u]) = 1 \/ Len(queue[u]) > 1
    BY <1>1, TailKeepsLast
  <1>. QED
    BY <1>5, <1>6, <1>7

\* A completion is run: what the row will show in the end stays the same.
LEMMA DeviceAcks ==
    ASSUME TypeOK, NEW u \in Users, Device(u), Ack(u)
    PROVE  Device(u)'
  <1>1. /\ main[u] \in Seq(Callback) /\ main[u] # <<>>
        /\ Head(main[u]).what = "saved" /\ main'[u] = Tail(main[u])
    BY CallbackTaken DEF Ack
  <1>2. /\ shown'[u] = Head(main[u]).value /\ queue' = queue /\ val' = val /\ exists' = exists
    BY DEF TypeOK, Ack
  <1>3. ToldValue(u)'
    <2>1. ASSUME queue[u] = <<>>
          PROVE  Told(Tail(main[u]), Head(main[u]).value, val[u])
      <3>1. Told(main[u], shown[u], val[u])
        BY <2>1 DEF Device, ToldValue
      <3>. QED
        BY <1>1, <3>1, ToldTakes
    <2>. QED
      BY <1>1, <1>2, <2>1 DEF ToldValue
  <1>4. ToldBefore(u)'
    <2>1. 1 \in DOMAIN main[u] /\ main[u][1].what = "saved"
      BY <1>1
    <2>2. ~(queue[u] # <<>> /\ ~Last(u).live)
      BY <2>1 DEF Device, ToldBefore
    <2>. QED
      BY <1>2, <2>2 DEF ToldBefore, Last
  <1>5. OldFirst(u)'
    BY <1>2 DEF Device, OldFirst
  <1>6. Founded(u)'
    BY <1>2 DEF Device, Founded
  <1>7. Backed(u)'
    <2>1. \A i \in DOMAIN Tail(main[u]) : i + 1 \in DOMAIN main[u] /\ Tail(main[u])[i] = main[u][i + 1]
      BY <1>1
    <2>. QED
      BY <1>1, <1>2, <2>1 DEF Device, Backed, SeenExists
  <1>. QED
    BY <1>3, <1>4, <1>5, <1>6, <1>7 DEF Device

\* The new process shows the value the restored queue leads to.
LEMMA DeviceRestarts ==
    ASSUME TypeOK, NEW u \in Users, Device(u), Restart(u)
    PROVE  Device(u)'
  <1>1. /\ queue[u] \in Seq(Write) /\ DOMAIN queue[u] = 1..Len(queue[u]) /\ Len(queue[u]) \in Nat
        /\ queue'[u] = [i \in DOMAIN queue[u] |-> WithoutCallback(queue[u][i])]
        /\ main'[u] = <<>> /\ shown'[u] = LocalVal(u) /\ val' = val /\ exists' = exists
    BY DEF TypeOK, Restart
  <1>2. /\ DOMAIN queue'[u] = DOMAIN queue[u]
        /\ \A i \in DOMAIN queue[u] : /\ queue'[u][i].kind = queue[u][i].kind
                                       /\ queue'[u][i].value = queue[u][i].value
                                       /\ queue'[u][i].live = FALSE
    BY <1>1 DEF WithoutCallback
  <1>3. queue'[u] \in Seq(Write) /\ Len(queue'[u]) = Len(queue[u])
    <2>1. queue'[u] \in Seq(Write)
      BY TypeStep DEF UserStep, TypeOK
    <2>. QED
      BY <1>1, <1>2, <2>1
  <1>4. queue'[u] = <<>> <=> queue[u] = <<>>
    BY <1>1, <1>3
  <1>5. ToldValue(u)'
    <2>1. DOMAIN main'[u] = {}
      BY <1>1
    <2>. QED
      BY <1>1, <1>4, <2>1 DEF ToldValue, Told, LocalVal
  <1>6. ToldBefore(u)'
    <2>1. ASSUME queue[u] # <<>>
          PROVE  Len(queue[u]) \in DOMAIN queue[u]
      BY <1>1, <2>1
    <2>2. DOMAIN main'[u] = {}
      BY <1>1
    <2>. QED
      BY <1>1, <1>2, <1>3, <1>4, <2>1, <2>2 DEF ToldBefore, Last, LocalVal
  <1>7. OldFirst(u)'
    BY <1>2 DEF OldFirst
  <1>8. Founded(u)'
    <2>1. Founded(u) /\ exists' = exists
      BY <1>1 DEF Device
    <2>. QED
      BY <1>2, <2>1 DEF Founded
  <1>9. Backed(u)'
    BY <1>1 DEF Backed
  <1>. QED
    BY <1>5, <1>6, <1>7, <1>8, <1>9 DEF Device

\* The inductive step, one action at a time.
LEMMA SoundStep ==
    ASSUME TypeOK, Sound, NEW u \in Users, UserStep(u)
    PROVE  Sound'
  <1>1. SUFFICES ASSUME failures' = 0, ~erased', NEW v \in Users
                 PROVE  Device(v)'
    BY DEF Sound
  <1>2. failures = 0 /\ ~erased
    <2>1. failures \in Nat
      BY DEF TypeOK
    <2>2. CASE \E heart \in BOOLEAN : ReadFails(u, heart)
      BY <1>1, <2>1, <2>2 DEF ReadFails
    <2>3. CASE Refused(u)
      BY <1>1, <2>1, <2>3 DEF Refused
    <2>4. CASE ~Refused(u) /\ ~\E heart \in BOOLEAN : ReadFails(u, heart)
      <3>1. failures' = failures
        BY <2>4 DEF UserStep, Tap, ReadAnswered, ReadRuns, CommitSet, CommitUpdate,
                    UpdateNotFound, Ack, Restart, counts
      <3>2. erased => erased'
        BY <2>4 DEF UserStep, Tap, ReadAnswered, ReadRuns, CommitSet, CommitUpdate,
                    UpdateNotFound, Ack, Restart, counts
      <3>. QED
        BY <1>1, <3>1, <3>2
    <2>. QED
      BY <2>2, <2>3, <2>4
  <1>3. Device(u) /\ Device(v)
    BY <1>2 DEF Sound
  <1>4. CASE Tap(u)
    BY <1>3, <1>4, DeviceAlone DEF Tap
  <1>14. ASSUME NEW heart \in BOOLEAN, ReadAnswered(u, heart)
         PROVE  Device(v)'
    <2>1. CASE v = u
      BY <1>3, <1>14, <2>1, DeviceAnswered
    <2>2. CASE v # u
      <3>1. /\ queue' = queue /\ main'[v] = main[v] /\ shown' = shown /\ val' = val
            /\ exists' = exists
        BY <1>14, <2>2 DEF ReadAnswered, TypeOK
      <3>. QED
        BY <1>3, <3>1, DeviceAlone
    <2>. QED
      BY <2>1, <2>2
  <1>5. CASE ReadRuns(u)
    <2>1. CASE v = u
      BY <1>3, <1>5, <2>1, DeviceReads
    <2>2. CASE v # u
      <3>1. NextCallback(u, {"there", "missing"})
        BY <1>5 DEF ReadRuns
      <3>2. main'[v] = main[v]
        BY <2>2, <3>1, CallbackTaken
      <3>3. /\ queue'[v] = queue[v] /\ shown' = shown /\ val' = val /\ exists' = exists
        BY <1>5, <2>2 DEF ReadRuns, TypeOK
      <3>. QED
        BY <1>3, <3>2, <3>3, DeviceAlone
    <2>. QED
      BY <2>1, <2>2
  <1>6. ASSUME NEW heart \in BOOLEAN, ReadFails(u, heart)
        PROVE  FALSE
    BY <1>1, <1>2, <1>6 DEF ReadFails
  <1>7. ASSUME Dequeue(u), Accepted(u, Head(queue[u])), v # u
        PROVE  queue'[v] = queue[v] /\ main'[v] = main[v]
    BY <1>7 DEF Dequeue, Accepted, TypeOK
  <1>8. CASE CommitSet(u)
    <2>1. /\ Dequeue(u) /\ Accepted(u, Head(queue[u])) /\ exists' /\ shown' = shown
          /\ val' = [w \in Users |-> w = u /\ Head(queue[u]).value]
          /\ erased' = (erased \/ \E w \in Users \ {u} : val[w])
      BY <1>8 DEF CommitSet
    <2>2. CASE v = u
      <3>1. Head(queue[u]).value \in BOOLEAN
        <4>1. Head(queue[u]) \in Write
          BY <2>1 DEF Dequeue, TypeOK
        <4>. QED
          BY <4>1 DEF Write
      <3>2. val'[u] = Head(queue[u]).value
        BY <2>1, <3>1
      <3>. QED
        BY <1>3, <2>1, <2>2, <3>2, DeviceCommits
    <2>3. CASE v # u
      <3>1. ~val[v] /\ val[v] \in BOOLEAN
        BY <1>1, <2>1, <2>3 DEF TypeOK
      <3>2. val'[v] = FALSE
        BY <2>1, <2>3
      <3>3. val'[v] = val[v]
        BY <3>1, <3>2
      <3>. QED
        BY <1>3, <1>7, <2>1, <2>3, <3>3, DeviceAlone
    <2>. QED
      BY <2>2, <2>3
  <1>9. CASE CommitUpdate(u)
    <2>1. /\ Dequeue(u) /\ Accepted(u, Head(queue[u])) /\ exists /\ exists' = exists
          /\ shown' = shown /\ val' = [val EXCEPT ![u] = Head(queue[u]).value]
      BY <1>9 DEF CommitUpdate
    <2>2. CASE v = u
      <3>1. val'[u] = Head(queue[u]).value
        BY <2>1 DEF TypeOK
      <3>. QED
        BY <1>3, <2>1, <2>2, <3>1, DeviceCommits
    <2>3. CASE v # u
      <3>1. val'[v] = val[v]
        BY <2>1, <2>3 DEF TypeOK
      <3>. QED
        BY <1>3, <1>7, <2>1, <2>3, <3>1, DeviceAlone
    <2>. QED
      BY <2>2, <2>3
  <1>10. ASSUME UpdateNotFound(u)
         PROVE  FALSE
    <2>1. /\ queue[u] \in Seq(Write) /\ queue[u] # <<>> /\ Head(queue[u]) = queue[u][1]
          /\ DOMAIN queue[u] = 1..Len(queue[u]) /\ Len(queue[u]) \in Nat \ {0}
          /\ Head(queue[u]).kind = "update" /\ ~exists
      BY <1>10 DEF UpdateNotFound, Dequeue, TypeOK
    <2>2. PICK j \in DOMAIN queue[u] : j < 1
      BY <1>3, <2>1 DEF Device, Founded
    <2>. QED
      BY <2>1, <2>2
  <1>11. ASSUME Refused(u)
         PROVE  FALSE
    BY <1>1, <1>2, <1>11 DEF Refused
  <1>12. CASE Ack(u)
    <2>1. CASE v = u
      BY <1>3, <1>12, <2>1, DeviceAcks
    <2>2. CASE v # u
      <3>1. NextCallback(u, {"saved"})
        BY <1>12 DEF Ack
      <3>2. main'[v] = main[v]
        BY <2>2, <3>1, CallbackTaken
      <3>3. /\ queue' = queue /\ shown'[v] = shown[v] /\ val' = val /\ exists' = exists
        BY <1>12, <2>2 DEF Ack, TypeOK
      <3>. QED
        BY <1>3, <3>2, <3>3, DeviceAlone
    <2>. QED
      BY <2>1, <2>2
  <1>13. CASE Restart(u)
    <2>1. CASE v = u
      BY <1>3, <1>13, <2>1, DeviceRestarts
    <2>2. CASE v # u
      <3>1. /\ queue'[v] = queue[v] /\ main'[v] = main[v] /\ shown'[v] = shown[v] /\ val' = val
            /\ exists' = exists
        BY <1>13, <2>2 DEF Restart, TypeOK
      <3>. QED
        BY <1>3, <3>1, DeviceAlone
    <2>. QED
      BY <2>1, <2>2
  <1>. QED
    BY <1>4, <1>5, <1>6, <1>8, <1>9, <1>10, <1>11, <1>12, <1>13, <1>14
       DEF UserStep

LEMMA InitSound == Init => Sound
  <1>1. ASSUME Init, NEW u \in Users
        PROVE  Device(u)
    <2>1. queue[u] = <<>> /\ main[u] = <<>> /\ shown = val
      BY <1>1 DEF Init
    <2>2. DOMAIN queue[u] = {} /\ DOMAIN main[u] = {}
      BY <2>1
    <2>. QED
      BY <2>1, <2>2 DEF Device, ToldValue, Told, ToldBefore, OldFirst, Founded, Backed
  <1>. QED
    BY <1>1 DEF Sound

\* An idle row shows what the document holds, through double taps, answers in any
\* order and restarts, unless a first like's setData erased another user's like.
THEOREM IdleRowsAreSaved == Spec => []HeartsAgreeUnlessErased
  <1>1. TypeOK /\ Sound /\ [Next]_vars => Sound'
    <2>1. ASSUME TypeOK, Sound, Next PROVE Sound'
      BY <2>1, SoundStep DEF Next, UserStep
    <2>2. ASSUME Sound, UNCHANGED vars PROVE Sound'
      BY <2>2 DEF vars, counts, Sound, Device, ToldValue, ToldBefore, Last, OldFirst, Founded,
                   Backed, SeenExists
    <2>. QED
      BY <2>1, <2>2
  <1>2. Sound => HeartsAgreeUnlessErased
    <2>1. ASSUME Sound, ~erased, failures = 0, NEW u \in Users, Quiet(u)
          PROVE  shown[u] = val[u]
      <3>1. DOMAIN main[u] = {} /\ Told(main[u], shown[u], val[u])
        BY <2>1 DEF Sound, Device, ToldValue, Quiet
      <3>. QED
        BY <3>1 DEF Told
    <2>. QED
      BY <2>1 DEF HeartsAgreeUnlessErased, HeartsAgree
  <1>. QED
    BY <1>1, <1>2, InitSound, TypeCorrect, PTL DEF Spec

=============================================================================
