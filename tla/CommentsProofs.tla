--------------------------- MODULE CommentsProofs ---------------------------
(***************************************************************************)
(* For any comments, authors and bounds: the page of comments keeps its    *)
(* types, and shows a comment once, or twice if it was refused after it    *)
(* was shown.                                                              *)
(*                                                                         *)
(* The count is not inductive alone.  What a change can add a second time  *)
(* depends on what Firestore still has: the queue holds a comment once and *)
(* none that is stored, and one that was refused is in neither (Kept).     *)
(***************************************************************************)
EXTENDS Comments, FiniteSetTheorems, TLAPS

Counters == done \in Nat /\ typed \in Nat /\ failures \in Nat /\ restarts \in Nat

Types ==
    /\ stored \in SUBSET Comments /\ sent \in SUBSET Comments
    /\ queue \in Seq(Comments)
    /\ waiting \in SUBSET Comments
    /\ listener \in {"fresh", "on", "off"}
    /\ view \in SUBSET Comments
    /\ reads \in [Comments -> Nat]
    /\ comments \in Seq(Comments)
    /\ refused \in SUBSET Comments

Kept ==
    /\ \A i, j \in DOMAIN queue : queue[i] = queue[j] => i = j
    /\ stored \cap Queued = {} /\ refused \cap LocalComments = {}
    /\ LocalComments \subseteq sent /\ view \subseteq sent /\ refused \subseteq sent
    /\ listener = "on" => view \subseteq LocalComments
    /\ listener = "fresh" => view = {} /\ refused = {}

Accounted == Types /\ Kept /\ CopiesPerChange

----------------------------------------------------------------------------
(* Rows and the queue. *)

LEMMA CopiesType ==
  ASSUME NEW s \in Seq(Comments), NEW c
  PROVE  LET places == {i \in DOMAIN s : s[i] = c}
         IN  IsFiniteSet(places) /\ Cardinality(places) \in Nat
  <1>1. DOMAIN s = 1..Len(s) /\ Len(s) \in Nat
    OBVIOUS
  <1>2. IsFiniteSet(DOMAIN s)
    BY <1>1, FS_Interval
  <1>. QED
    BY <1>2, FS_Subset, FS_CardinalityType

LEMMA CopiesAppend ==
  ASSUME NEW s \in Seq(Comments), NEW c \in Comments, NEW d \in Comments
  PROVE  Cardinality({i \in DOMAIN Append(s, d) : Append(s, d)[i] = c}) =
             Cardinality({i \in DOMAIN s : s[i] = c}) + IF c = d THEN 1 ELSE 0
  <1>. DEFINE before == {i \in DOMAIN s : s[i] = c}
              after  == {i \in DOMAIN Append(s, d) : Append(s, d)[i] = c}
  <1>1. IsFiniteSet(before) /\ Cardinality(before) \in Nat
    BY CopiesType
  <1>2. after = IF c = d THEN before \cup {Len(s) + 1} ELSE before
    OBVIOUS
  <1>3. Len(s) + 1 \notin before
    OBVIOUS
  <1>. HIDE DEF before, after
  <1>4. c = d => Cardinality(after) = Cardinality(before) + 1
    BY <1>1, <1>2, <1>3, FS_AddElement
  <1>5. c # d => Cardinality(after) = Cardinality(before) + 0
    BY <1>1, <1>2
  <1>. QED
    BY <1>4, <1>5 DEF before, after

LEMMA QueueTail ==
  ASSUME Types, Kept, queue # <<>>, queue' = Tail(queue)
  PROVE  /\ queue' \in Seq(Comments) /\ Head(queue) \in Comments
         /\ Head(queue) \in Queued
         /\ Queued' = Queued \ {Head(queue)}
         /\ \A i, j \in DOMAIN queue' : queue'[i] = queue'[j] => i = j
  <1>1. queue \in Seq(Comments) /\ Len(queue) \in Nat \ {0} /\ DOMAIN queue = 1..Len(queue)
    BY DEF Types
  <1>2. /\ queue' \in Seq(Comments) /\ DOMAIN queue' = 1..(Len(queue) - 1)
        /\ \A i \in DOMAIN queue' : queue'[i] = queue[i + 1] /\ i + 1 \in DOMAIN queue
    BY <1>1
  <1>3. Head(queue) = queue[1] /\ 1 \in DOMAIN queue
    BY <1>1
  <1>4. Head(queue) \in Comments /\ Head(queue) \in Queued
    BY <1>1, <1>3 DEF Queued
  <1>5. \A i \in DOMAIN queue : i # 1 => i - 1 \in DOMAIN queue' /\ queue[i] = queue'[i - 1]
    BY <1>1, <1>2
  <1>6. \A i \in DOMAIN queue' : queue'[i] # Head(queue)
    <2>. TAKE i \in DOMAIN queue'
    <2>1. i + 1 # 1
      BY <1>2
    <2>. QED
      BY <1>2, <1>3, <2>1 DEF Kept
  <1>7. Queued' \subseteq Queued \ {Head(queue)}
    BY <1>2, <1>6 DEF Queued
  <1>8. Queued \ {Head(queue)} \subseteq Queued'
    BY <1>3, <1>5 DEF Queued
  <1>9. \A i, j \in DOMAIN queue' : queue'[i] = queue'[j] => i = j
    <2>. TAKE i, j \in DOMAIN queue'
    <2>1. queue'[i] = queue'[j] => i + 1 = j + 1
      BY <1>2 DEF Kept
    <2>. QED
      BY <1>2, <2>1
  <1>. QED
    BY <1>2, <1>4, <1>7, <1>8, <1>9

LEMMA QueueAppend ==
  ASSUME Types, Kept, NEW c \in Comments, c \notin Queued, queue' = Append(queue, c)
  PROVE  /\ queue' \in Seq(Comments)
         /\ Queued' = Queued \cup {c}
         /\ \A i, j \in DOMAIN queue' : queue'[i] = queue'[j] => i = j
  <1>1. /\ queue \in Seq(Comments) /\ DOMAIN queue = 1..Len(queue) /\ Len(queue) \in Nat
        /\ queue' \in Seq(Comments) /\ DOMAIN queue' = 1..(Len(queue) + 1)
        /\ \A i \in DOMAIN queue' : queue'[i] = IF i = Len(queue) + 1 THEN c ELSE queue[i]
    BY DEF Types
  <1>2. Queued' = Queued \cup {c}
    BY <1>1 DEF Queued
  <1>3. \A i \in DOMAIN queue : queue[i] # c
    BY DEF Queued
  <1>. QED
    BY <1>1, <1>2, <1>3 DEF Kept

LEMMA SameQueue ==
  ASSUME UNCHANGED queue
  PROVE  Queued' = Queued
  BY DEF Queued

----------------------------------------------------------------------------
(* At first; and types. *)

LEMMA InitAccounted ==
  Init => Accounted
  <1>. SUFFICES ASSUME Init PROVE Accounted
    OBVIOUS
  <1>1. Queued = {}
    BY DEF Init, Queued
  <1>2. Types
    BY DEF Init, PageLoaded, Types
  <1>3. Kept
    BY <1>1 DEF Init, PageLoaded, Kept, LocalComments
  <1>4. ASSUME NEW c \in Comments PROVE Copies(c) + reads[c] <= Allowed(c)
    <2>1. Copies(c) = 0
      BY FS_EmptySet DEF Init, PageLoaded, Copies
    <2>2. reads[c] = 0 /\ Allowed(c) = 0
      BY DEF Init, PageLoaded, Allowed
    <2>. QED
      BY <2>1, <2>2
  <1>. QED
    BY <1>2, <1>3, <1>4 DEF Accounted, CopiesPerChange

LEMMA ReadAuthorsType ==
  ASSUME Types, NEW changed, ReadAuthors(changed)
  PROVE  reads' \in [Comments -> Nat]
  BY DEF Types, ReadAuthors

\* One more read of a comment needs one more place.
LEMMA OneMoreRead ==
  ASSUME Accounted, NEW changed, ReadAuthors(changed), UNCHANGED comments,
         \A c \in Comments : Allowed(c)' \in Nat
             /\ (c \in changed => Allowed(c) < Allowed(c)')
             /\ (c \notin changed => Allowed(c) <= Allowed(c)')
  PROVE  CopiesPerChange'
  <1>. SUFFICES ASSUME NEW c \in Comments PROVE Copies(c)' + reads'[c] <= Allowed(c)'
    BY DEF CopiesPerChange
  <1>1. Copies(c) \in Nat /\ Copies(c)' = Copies(c)
    BY CopiesType DEF Accounted, Types, Copies
  <1>2. reads[c] \in Nat /\ reads'[c] = reads[c] + IF c \in changed THEN 1 ELSE 0
    BY DEF Accounted, Types, ReadAuthors
  <1>3. Copies(c) + reads[c] <= Allowed(c) /\ Allowed(c) \in Nat
    BY DEF Accounted, CopiesPerChange, Allowed
  <1>. HIDE DEF Copies, Allowed
  <1>. QED
    BY <1>1, <1>2, <1>3

LEMMA CountersStay ==
  ASSUME Counters, [Next]_vars
  PROVE  Counters'
  <1>1. done' \in {0, done, done + 1} \/ (done > 0 /\ done' = done - 1)
    BY DEF Next, vars, firebase, page, counts, FirstSnapshot, CommentsChanged,
           ListenFails, AuthorRead, AuthorReadFails, Publish, Send, Type, Dequeue, Saved,
           Refused, Cleared, Restart
  <1>2. /\ typed' \in {typed, typed + 1} /\ failures' \in {failures, failures + 1}
        /\ restarts' \in {restarts, restarts + 1}
    BY DEF Next, vars, firebase, page, counts, FirstSnapshot, CommentsChanged,
           ListenFails, AuthorRead, AuthorReadFails, Publish, Send, Type, Dequeue, Saved,
           Refused, Cleared, Restart
  <1>. QED
    BY <1>1, <1>2 DEF Counters

LEMMA TextStays ==
  ASSUME text \in BOOLEAN, [Next]_vars
  PROVE  text' \in BOOLEAN
  BY DEF Next, vars, firebase, page, counts, FirstSnapshot, CommentsChanged,
         ListenFails, AuthorRead, AuthorReadFails, Publish, Send, Type, Dequeue, Saved,
         Refused, Cleared, Restart

----------------------------------------------------------------------------
(* What a step can disturb, an action at a time. *)

LEMMA Listed ==
  ASSUME Accounted, FirstSnapshot \/ CommentsChanged
  PROVE  Accounted'
  <1>1. UNCHANGED <<stored, sent, queue, comments, refused, waiting>> /\ Queued' = Queued
    BY SameQueue DEF FirstSnapshot, CommentsChanged, firebase, page
  <1>2. listener \in {"fresh", "on"} /\ listener' = "on" /\ view' = LocalComments
    BY DEF FirstSnapshot, CommentsChanged
  <1>3. view \subseteq LocalComments
    BY <1>2 DEF Accounted, Kept
  <1>4. ReadAuthors(LocalComments \ view)
    <2>1. CASE FirstSnapshot
      <3>1. view = {} /\ ReadAuthors(LocalComments)
        BY <2>1 DEF FirstSnapshot, Accounted, Kept, ReadAuthors
      <3>2. LocalComments \ view = LocalComments
        BY <3>1
      <3>. QED
        BY <3>1, <3>2
    <2>2. CASE CommentsChanged
      BY <2>2, <1>2 DEF CommentsChanged, ReadAuthors
    <2>. QED
      BY <2>1, <2>2
  <1>5. Types'
    BY <1>1, <1>2, <1>4, ReadAuthorsType DEF Accounted, Types, LocalComments, Queued
  <1>6. Kept'
    BY <1>1, <1>2 DEF Accounted, Kept, LocalComments
  <1>7. \A c \in Comments : Allowed(c)' \in Nat
             /\ (c \in LocalComments \ view => Allowed(c) < Allowed(c)')
             /\ (c \notin LocalComments \ view => Allowed(c) <= Allowed(c)')
    BY <1>1, <1>2, <1>3 DEF Allowed, Accounted, Kept
  <1>. QED
    BY <1>1, <1>4, <1>5, <1>6, <1>7, OneMoreRead DEF Accounted

LEMMA Answered ==
  ASSUME Accounted, NEW d \in Comments, AuthorRead(d) \/ AuthorReadFails(d)
  PROVE  Accounted'
  <1>1. UNCHANGED <<stored, sent, queue, waiting, listener, view, refused>>
        /\ Queued' = Queued
    BY SameQueue DEF AuthorRead, AuthorReadFails, firebase, page
  <1>2. reads[d] > 0 /\ reads' = [reads EXCEPT ![d] = @ - 1]
        /\ (comments' = comments \/ comments' = Append(comments, d))
    BY DEF AuthorRead, AuthorReadFails, page
  <1>3. reads \in [Comments -> Nat] /\ comments \in Seq(Comments)
    BY DEF Accounted, Types
  <1>4. reads' \in [Comments -> Nat] /\ comments' \in Seq(Comments)
    <2>1. reads[d] - 1 \in Nat
      BY <1>2, <1>3
    <2>2. reads' \in [Comments -> Nat]
      BY <1>2, <1>3, <2>1
    <2>3. Append(comments, d) \in Seq(Comments)
      BY <1>3
    <2>. QED
      BY <1>2, <1>3, <2>2, <2>3
  <1>5. Types'
    BY <1>1, <1>4 DEF Accounted, Types
  <1>6. Kept'
    BY <1>1 DEF Accounted, Kept, LocalComments
  <1>7. ASSUME NEW c \in Comments PROVE Copies(c)' + reads'[c] <= Allowed(c)'
    <2>1. Copies(c) \in Nat
      BY <1>3, CopiesType DEF Copies
    <2>2. Copies(c)' = Copies(c) \/ (c = d /\ Copies(c)' = Copies(c) + 1)
      <3>1. CASE comments' = comments
        BY <3>1 DEF Copies
      <3>2. CASE comments' = Append(comments, d)
        <4>1. Copies(c)' = Copies(c) + IF c = d THEN 1 ELSE 0
          BY <3>2, <1>3, CopiesAppend DEF Copies
        <4>. HIDE DEF Copies
        <4>. QED
          BY <4>1, <2>1
      <3>. QED
        BY <1>2, <3>1, <3>2
    <2>3. reads'[c] = IF c = d THEN reads[c] - 1 ELSE reads[c]
      BY <1>2, <1>3
    <2>4. Copies(c) + reads[c] <= Allowed(c) /\ Allowed(c)' = Allowed(c) /\ Allowed(c) \in Nat
      BY <1>1 DEF Accounted, CopiesPerChange, Allowed
    <2>5. reads[c] \in Nat
      BY <1>3
    <2>. HIDE DEF Copies, Allowed
    <2>. QED
      BY <1>2, <2>1, <2>2, <2>3, <2>4, <2>5
  <1>. QED
    BY <1>5, <1>6, <1>7 DEF Accounted, CopiesPerChange

\* Steps that leave the page's listener, its reads and its rows alone.
LEMMA PageStays ==
  ASSUME Accounted, Types', Kept', UNCHANGED <<view, reads, comments, refused>>
  PROVE  Accounted'
  BY DEF Accounted, CopiesPerChange, Copies, Allowed

LEMMA Sent ==
  ASSUME Accounted, NEW c \in Comments, Send(c)
  PROVE  Accounted'
  <1>1. c \notin sent /\ c \notin LocalComments /\ c \notin view /\ c \notin refused
    BY DEF Send, Unused, Accounted, Kept
  <1>2. /\ queue' \in Seq(Comments) /\ Queued' = Queued \cup {c}
        /\ \A i, j \in DOMAIN queue' : queue'[i] = queue'[j] => i = j
    BY <1>1, QueueAppend DEF Accounted, Send, LocalComments
  <1>3. /\ sent' = sent \cup {c} /\ waiting' = waiting \cup {c}
        /\ UNCHANGED <<stored, comments, refused, listener>>
    BY DEF Send, page
  <1>4. CASE listener = "on"
    <2>1. view' = view \cup {c} /\ ReadAuthors({c})
      BY <1>4 DEF Send
    <2>2. Types'
      BY <1>2, <1>3, <2>1, ReadAuthorsType DEF Accounted, Types
    <2>3. Kept'
      BY <1>1, <1>2, <1>3, <1>4, <2>1 DEF Accounted, Kept, LocalComments
    <2>4. \A d \in Comments : Allowed(d)' \in Nat
             /\ (d \in {c} => Allowed(d) < Allowed(d)')
             /\ (d \notin {c} => Allowed(d) <= Allowed(d)')
      BY <1>1, <1>3, <2>1 DEF Allowed
    <2>. QED
      BY <1>3, <2>1, <2>2, <2>3, <2>4, OneMoreRead DEF Accounted
  <1>5. CASE listener # "on"
    <2>1. UNCHANGED <<view, reads>>
      BY <1>5 DEF Send
    <2>2. Types'
      BY <1>2, <1>3, <2>1 DEF Accounted, Types
    <2>3. Kept'
      BY <1>1, <1>2, <1>3, <1>5, <2>1 DEF Accounted, Kept, LocalComments
    <2>. QED
      BY <1>3, <2>1, <2>2, <2>3, PageStays
  <1>. QED
    BY <1>4, <1>5

LEMMA Published ==
  ASSUME Accounted, NEW c \in Comments, Publish(c)
  PROVE  Accounted'
  <1>1. c \notin sent /\ c \notin LocalComments /\ c \notin refused
    BY DEF Publish, Unused, Accounted, Kept
  <1>2. /\ stored' = stored \cup {c} /\ sent' = sent \cup {c} /\ Queued' = Queued
        /\ UNCHANGED <<queue, waiting, listener, view, reads, comments, refused>>
    BY SameQueue DEF Publish, page
  <1>3. Types'
    BY <1>2 DEF Accounted, Types
  <1>4. Kept'
    BY <1>1, <1>2 DEF Accounted, Kept, LocalComments
  <1>. QED
    BY <1>2, <1>3, <1>4, PageStays

LEMMA Stored ==
  ASSUME Accounted, Saved
  PROVE  Accounted'
  <1>1. /\ queue' \in Seq(Comments) /\ Head(queue) \in Queued /\ Head(queue) \in Comments
        /\ Queued' = Queued \ {Head(queue)}
        /\ \A i, j \in DOMAIN queue' : queue'[i] = queue'[j] => i = j
    BY QueueTail DEF Accounted, Saved, Dequeue
  <1>2. /\ stored' = stored \cup {Head(queue)} /\ waiting' = waiting \ {Head(queue)}
        /\ UNCHANGED <<sent, listener, view, reads, comments, refused>>
    BY DEF Saved, Dequeue, page
  <1>3. Types'
    BY <1>1, <1>2 DEF Accounted, Types
  <1>4. Kept'
    BY <1>1, <1>2 DEF Accounted, Kept, LocalComments
  <1>. QED
    BY <1>2, <1>3, <1>4, PageStays

LEMMA TakenBack ==
  ASSUME Accounted, Refused
  PROVE  Accounted'
  <1>. DEFINE c == Head(queue)
  <1>1. /\ queue' \in Seq(Comments) /\ c \in Queued /\ c \in Comments
        /\ Queued' = Queued \ {c}
        /\ \A i, j \in DOMAIN queue' : queue'[i] = queue'[j] => i = j
    BY QueueTail DEF Accounted, Refused, Dequeue
  <1>2. waiting' = waiting \ {c} /\ UNCHANGED <<stored, sent, listener, comments>>
    BY DEF Refused, Dequeue, page
  <1>3. c \notin refused /\ c \notin stored /\ c \in sent
    BY <1>1 DEF Accounted, Kept, LocalComments
  <1>4. CASE listener = "on" /\ c \in view
    <2>1. view' = view \ {c} /\ ReadAuthors({c}) /\ refused' = refused \cup {c}
      BY <1>4 DEF Refused
    <2>2. Types'
      BY <1>1, <1>2, <2>1, ReadAuthorsType DEF Accounted, Types
    <2>3. Kept'
      BY <1>1, <1>2, <1>3, <1>4, <2>1 DEF Accounted, Kept, LocalComments
    <2>4. \A d \in Comments : Allowed(d)' \in Nat
             /\ (d \in {c} => Allowed(d) < Allowed(d)')
             /\ (d \notin {c} => Allowed(d) <= Allowed(d)')
      BY <1>3, <2>1 DEF Allowed
    <2>. QED
      BY <1>2, <2>1, <2>2, <2>3, <2>4, OneMoreRead DEF Accounted
  <1>5. CASE ~(listener = "on" /\ c \in view)
    <2>1. UNCHANGED <<view, reads, refused>>
      BY <1>5 DEF Refused
    <2>2. Types'
      BY <1>1, <1>2, <2>1 DEF Accounted, Types
    <2>3. Kept'
      BY <1>1, <1>2, <1>3, <1>5, <2>1 DEF Accounted, Kept, LocalComments
    <2>. QED
      BY <1>2, <2>1, <2>2, <2>3, PageStays
  <1>. QED
    BY <1>4, <1>5

LEMMA PageOver ==
  ASSUME Accounted, Restart
  PROVE  Accounted'
  <1>1. /\ UNCHANGED <<stored, sent, queue>> /\ Queued' = Queued
        /\ listener' = "fresh" /\ view' = {} /\ reads' = [c \in Comments |-> 0]
        /\ comments' = <<>> /\ waiting' = {} /\ refused' = {}
    BY SameQueue DEF Restart
  <1>2. Types'
    BY <1>1 DEF Accounted, Types
  <1>3. Kept'
    BY <1>1 DEF Accounted, Kept, LocalComments
  <1>4. ASSUME NEW c \in Comments PROVE Copies(c)' + reads'[c] <= Allowed(c)'
    <2>1. Copies(c)' = 0
      BY <1>1, FS_EmptySet DEF Copies
    <2>2. reads'[c] = 0 /\ Allowed(c)' = 0
      BY <1>1 DEF Allowed
    <2>. QED
      BY <2>1, <2>2
  <1>. QED
    BY <1>2, <1>3, <1>4 DEF Accounted, CopiesPerChange

LEMMA NextAccounted ==
  ASSUME Accounted, [Next]_vars
  PROVE  Accounted'
  <1>1. CASE FirstSnapshot \/ CommentsChanged
    BY <1>1, Listed
  <1>2. CASE \E c \in Comments : AuthorRead(c) \/ AuthorReadFails(c)
    BY <1>2, Answered
  <1>3. CASE \E c \in Comments : Publish(c) \/ Send(c)
    BY <1>3, Published, Sent
  <1>4. CASE Saved
    BY <1>4, Stored
  <1>5. CASE Refused
    BY <1>5, TakenBack
  <1>6. CASE Restart
    BY <1>6, PageOver
  <1>7. CASE ListenFails \/ Type \/ Cleared \/ UNCHANGED vars
    <2>1. /\ UNCHANGED <<stored, sent, queue, waiting, view, reads, comments, refused>>
          /\ listener' \in {listener, "off"} /\ Queued' = Queued
      BY <1>7, SameQueue DEF ListenFails, Type, Cleared, vars, firebase, page
    <2>2. Types'
      BY <2>1 DEF Accounted, Types
    <2>3. Kept'
      BY <2>1 DEF Accounted, Kept, LocalComments
    <2>. QED
      BY <2>1, <2>2, <2>3, PageStays
  <1>. QED
    BY <1>1, <1>2, <1>3, <1>4, <1>5, <1>6, <1>7 DEF Next

----------------------------------------------------------------------------
\* The page, the queue and the backend keep their types.
THEOREM TypeCorrect == Spec => []TypeOK
  <1>. DEFINE All == Accounted /\ Counters /\ text \in BOOLEAN
  <1>1. Init => All
    <2>1. Init => Counters
      BY DEF Init, PageLoaded, Counters
    <2>2. Init => text \in BOOLEAN
      BY DEF Init, PageLoaded
    <2>. QED
      BY <2>1, <2>2, InitAccounted
  <1>2. All /\ [Next]_vars => All'
    BY NextAccounted, CountersStay, TextStays
  <1>3. All => TypeOK
    BY DEF Accounted, Types, Counters, TypeOK
  <1>. QED
    BY <1>1, <1>2, <1>3, PTL DEF Spec

\* A comment has a row once, and twice only if it was refused after it was shown,
\* counting the answers on their way: for any comments, authors and failures.
THEOREM CopiesOnce == Spec => []CopiesPerChange
  <1>1. Accounted => CopiesPerChange
    BY DEF Accounted
  <1>. QED
    BY InitAccounted, NextAccounted, <1>1, PTL DEF Spec
=============================================================================
