----------------------------- MODULE FeedProofs -----------------------------
(***************************************************************************)
(* Theorems about Feed, for any sets of users, posts and taps and any      *)
(* bounds: its type, where its rows come from, how often a post can appear,*)
(* in which order the rows stand and what their hearts show.               *)
(***************************************************************************)
EXTENDS Feed, FiniteSetTheorems, SequenceTheorems, TLAPS

----------------------------------------------------------------------------
(* The sort: SortRows permutes the rows and puts the newest first.         *)

Earlier(s, i) == {j \in DOMAIN s : Before(s, j, i)}

LEMMA RowsHaveDates ==
    ASSUME NEW s \in Seq(Row)
    PROVE  /\ DOMAIN s = 1..Len(s) /\ Len(s) \in Nat
           /\ IsFiniteSet(DOMAIN s) /\ Cardinality(DOMAIN s) = Len(s)
           /\ \A i \in DOMAIN s : s[i] \in Row /\ Date[s[i].id] \in Nat
  <1>1. DOMAIN s = 1..Len(s) /\ Len(s) \in Nat
    OBVIOUS
  <1>2. IsFiniteSet(1..Len(s)) /\ Cardinality(1..Len(s)) = Len(s)
    BY <1>1, FS_Interval
  <1>3. ASSUME NEW i \in DOMAIN s
        PROVE  s[i] \in Row /\ Date[s[i].id] \in Nat
    <2>1. s[i] \in Row
      BY <1>1, <1>3
    <2>2. s[i].id \in Posts
      BY <2>1 DEF Row
    <2>. QED
      BY <2>1, <2>2, FeedAssumption
  <1>. QED
    BY <1>1, <1>2, <1>3

\* Before is a strict total order of the rows' indices.
LEMMA BeforeIsTotal ==
    ASSUME NEW s \in Seq(Row)
    PROVE  /\ \A i \in DOMAIN s : ~Before(s, i, i)
           /\ \A i, j \in DOMAIN s : i # j => Before(s, i, j) \/ Before(s, j, i)
           /\ \A i, j, k \in DOMAIN s : Before(s, i, j) /\ Before(s, j, k) => Before(s, i, k)
  <1>. DEFINE date(i) == Date[s[i].id]
  <1>1. \A i \in DOMAIN s : date(i) \in Nat /\ i \in Nat
    BY RowsHaveDates
  <1>2. \A i, j \in DOMAIN s : Before(s, j, i) <=> date(j) > date(i) \/ (date(j) = date(i) /\ j < i)
    BY DEF Before
  <1>. HIDE DEF date
  <1>. QED
    BY <1>1, <1>2

\* A row that stands before another has the smaller rank.
LEMMA RankFollowsBefore ==
    ASSUME NEW s \in Seq(Row), NEW i \in DOMAIN s, NEW j \in DOMAIN s, Before(s, j, i)
    PROVE  Rank(s, j) < Rank(s, i)
  <1>1. Earlier(s, j) \cup {j} \subseteq Earlier(s, i)
    BY BeforeIsTotal DEF Earlier
  <1>2. j \notin Earlier(s, j)
    BY BeforeIsTotal DEF Earlier
  <1>3. /\ IsFiniteSet(Earlier(s, i)) /\ Cardinality(Earlier(s, i)) \in Nat
        /\ IsFiniteSet(Earlier(s, j)) /\ Cardinality(Earlier(s, j)) \in Nat
    <2>1. Earlier(s, i) \in SUBSET DOMAIN s /\ Earlier(s, j) \in SUBSET DOMAIN s
      BY DEF Earlier
    <2>. QED
      BY <2>1, RowsHaveDates, FS_Subset, FS_CardinalityType
  <1>4. Cardinality(Earlier(s, j) \cup {j}) = Cardinality(Earlier(s, j)) + 1
    BY <1>2, <1>3, FS_AddElement
  <1>5. Cardinality(Earlier(s, j) \cup {j}) <= Cardinality(Earlier(s, i))
    BY <1>1, <1>3, FS_Subset
  <1>. QED
    BY <1>3, <1>4, <1>5 DEF Rank, Earlier

LEMMA RankIsIndex ==
    ASSUME NEW s \in Seq(Row), NEW i \in DOMAIN s
    PROVE  Rank(s, i) \in DOMAIN s
  <1>1. Earlier(s, i) \in SUBSET (DOMAIN s \ {i})
    BY BeforeIsTotal DEF Earlier
  <1>2. IsFiniteSet(DOMAIN s \ {i}) /\ Cardinality(DOMAIN s \ {i}) = Len(s) - 1
    BY RowsHaveDates, FS_RemoveElement
  <1>3. Cardinality(Earlier(s, i)) <= Len(s) - 1 /\ Cardinality(Earlier(s, i)) \in Nat
    BY <1>1, <1>2, FS_Subset, FS_CardinalityType
  <1>4. Rank(s, i) = 1 + Cardinality(Earlier(s, i))
    BY DEF Rank, Earlier
  <1>. QED
    BY <1>3, <1>4, RowsHaveDates

\* Every position of the sorted list is the rank of exactly one row.
LEMMA RankIsBijective ==
    ASSUME NEW s \in Seq(Row)
    PROVE  /\ \A k \in DOMAIN s : \E i \in DOMAIN s : Rank(s, i) = k
           /\ \A i, j \in DOMAIN s : Rank(s, i) = Rank(s, j) => i = j
  <1>. DEFINE rank == [i \in DOMAIN s |-> Rank(s, i)]
  <1>1. \A i, j \in DOMAIN s : Rank(s, i) = Rank(s, j) => i = j
    <2>1. \A i \in DOMAIN s : Rank(s, i) \in Nat
      BY RankIsIndex, RowsHaveDates
    <2>. QED
      BY <2>1, RankFollowsBefore, BeforeIsTotal
  <1>2. rank \in Injection(DOMAIN s, DOMAIN s)
    BY <1>1, RankIsIndex DEF Injection, IsInjective
  <1>3. rank \in Surjection(DOMAIN s, DOMAIN s)
    BY <1>2, RowsHaveDates, FS_Injection
  <1>. QED
    BY <1>1, <1>3 DEF Surjection

\* SortRows(s) at position k is the row of rank k.
SortedFrom(s, k) == CHOOSE i \in DOMAIN s : Rank(s, i) = k

LEMMA SortedFromRank ==
    ASSUME NEW s \in Seq(Row), NEW k \in DOMAIN s
    PROVE  /\ SortedFrom(s, k) \in DOMAIN s
           /\ Rank(s, SortedFrom(s, k)) = k
           /\ SortRows(s)[k] = s[SortedFrom(s, k)]
  BY RankIsBijective DEF SortedFrom, SortRows

LEMMA SortRowsType ==
    ASSUME NEW s \in Seq(Row)
    PROVE  SortRows(s) \in Seq(Row) /\ DOMAIN SortRows(s) = DOMAIN s
  <1>1. DOMAIN s = 1..Len(s) /\ Len(s) \in Nat
    BY RowsHaveDates
  <1>2. \A k \in 1..Len(s) : s[SortedFrom(s, k)] \in Row
    BY <1>1, SortedFromRank, RowsHaveDates
  <1>3. [k \in 1..Len(s) |-> s[SortedFrom(s, k)]] \in Seq(Row)
    BY <1>1, <1>2, IsASeq
  <1>4. SortRows(s) = [k \in 1..Len(s) |-> s[SortedFrom(s, k)]]
    BY <1>1 DEF SortRows, SortedFrom
  <1>. QED
    BY <1>1, <1>3, <1>4

\* The sorted list is newest first.
LEMMA SortRowsSorts ==
    ASSUME NEW s \in Seq(Row), NEW k \in DOMAIN s, NEW l \in DOMAIN s, k < l
    PROVE  Date[SortRows(s)[k].id] >= Date[SortRows(s)[l].id]
  <1>. DEFINE i == SortedFrom(s, k)  j == SortedFrom(s, l)
  <1>1. i \in DOMAIN s /\ j \in DOMAIN s /\ Rank(s, i) = k /\ Rank(s, j) = l
    BY SortedFromRank
  <1>2. SortRows(s)[k] = s[i] /\ SortRows(s)[l] = s[j]
    BY SortedFromRank
  <1>3. k \in Nat /\ l \in Nat
    BY RowsHaveDates
  <1>. HIDE DEF i, j
  <1>4. i # j /\ ~Before(s, j, i)
    BY <1>1, <1>3, RankFollowsBefore
  <1>5. Before(s, i, j)
    BY <1>1, <1>4, BeforeIsTotal
  <1>6. Date[s[i].id] \in Nat /\ Date[s[j].id] \in Nat
    BY <1>1, RowsHaveDates
  <1>. QED
    BY <1>2, <1>5, <1>6 DEF Before

----------------------------------------------------------------------------
(* Counting rows: reversing and sorting move rows, and lose or copy none.  *)

Places(s, p) == {i \in DOMAIN s : s[i].id = p}

\* A list whose rows are those of s moved along an injection of the indices has
\* as many rows of each post as s.
LEMMA MovedRowsCount ==
    ASSUME NEW s \in Seq(Row), NEW t \in Seq(Row), DOMAIN t = DOMAIN s,
           NEW f \in Bijection(DOMAIN t, DOMAIN s),
           \A k \in DOMAIN t : t[k] = s[f[k]],
           NEW p
    PROVE  Cardinality(Places(t, p)) = Cardinality(Places(s, p))
  <1>. DEFINE g == [k \in Places(t, p) |-> f[k]]
  <1>1. f \in [DOMAIN t -> DOMAIN s]
    BY DEF Bijection, Injection
  <1>2. g \in [Places(t, p) -> Places(s, p)]
    BY <1>1 DEF Places
  <1>3. \A a, b \in Places(t, p) : g[a] = g[b] => a = b
    BY DEF Bijection, Injection, IsInjective, Places
  <1>4. \A i \in Places(s, p) : \E k \in Places(t, p) : g[k] = i
    BY DEF Bijection, Surjection, Places
  <1>5. g \in Bijection(Places(t, p), Places(s, p))
    BY <1>2, <1>3, <1>4 DEF Bijection, Injection, Surjection, IsInjective
  <1>6. IsFiniteSet(Places(t, p))
    BY RowsHaveDates, FS_Subset DEF Places
  <1>. QED
    BY <1>5, <1>6, FS_Bijection DEF ExistsBijection

LEMMA SortRowsCount ==
    ASSUME NEW s \in Seq(Row), NEW p
    PROVE  Cardinality(Places(SortRows(s), p)) = Cardinality(Places(s, p))
  <1>. DEFINE f == [k \in DOMAIN s |-> SortedFrom(s, k)]
  <1>1. SortRows(s) \in Seq(Row) /\ DOMAIN SortRows(s) = DOMAIN s
    BY SortRowsType
  <1>2. f \in [DOMAIN s -> DOMAIN s]
    BY SortedFromRank
  <1>3. \A a, b \in DOMAIN s : f[a] = f[b] => a = b
    BY SortedFromRank
  <1>4. \A i \in DOMAIN s : \E k \in DOMAIN s : f[k] = i
    <2>1. ASSUME NEW i \in DOMAIN s
          PROVE  Rank(s, i) \in DOMAIN s /\ f[Rank(s, i)] = i
      BY <2>1, RankIsIndex, RankIsBijective, SortedFromRank
    <2>. QED
      BY <2>1
  <1>5. f \in Bijection(DOMAIN s, DOMAIN s)
    BY <1>2, <1>3, <1>4 DEF Bijection, Injection, Surjection, IsInjective
  <1>6. \A k \in DOMAIN s : SortRows(s)[k] = s[f[k]]
    BY SortedFromRank
  <1>. HIDE DEF f
  <1>. QED
    BY <1>1, <1>5, <1>6, MovedRowsCount

LEMMA ReverseRows ==
    ASSUME NEW s \in Seq(Row)
    PROVE  /\ Reverse(s) \in Seq(Row)
           /\ \A p : Cardinality(Places(Reverse(s), p)) = Cardinality(Places(s, p))
  <1>. DEFINE f == [k \in 1..Len(s) |-> (Len(s) - k) + 1]
  <1>1. DOMAIN s = 1..Len(s) /\ Len(s) \in Nat
    OBVIOUS
  <1>2. \A k \in 1..Len(s) : s[(Len(s) - k) + 1] \in Row
    BY <1>1
  <1>3. Reverse(s) \in Seq(Row) /\ DOMAIN Reverse(s) = DOMAIN s
    BY <1>1, <1>2, IsASeq DEF Reverse
  <1>4. f \in [1..Len(s) -> 1..Len(s)]
    BY <1>1
  <1>5. \A a, b \in 1..Len(s) : f[a] = f[b] => a = b
    BY <1>1
  <1>6. \A i \in 1..Len(s) : (Len(s) - i) + 1 \in 1..Len(s) /\ f[(Len(s) - i) + 1] = i
    BY <1>1
  <1>7. f \in Bijection(DOMAIN Reverse(s), DOMAIN s)
    BY <1>1, <1>3, <1>4, <1>5, <1>6 DEF Bijection, Injection, Surjection, IsInjective
  <1>8. \A k \in DOMAIN Reverse(s) : Reverse(s)[k] = s[f[k]]
    BY <1>1, <1>3 DEF Reverse
  <1>. HIDE DEF f
  <1>. QED
    BY <1>3, <1>7, <1>8, MovedRowsCount

\* Appending a row adds one place of its post.
LEMMA AppendRowCount ==
    ASSUME NEW s \in Seq(Row), NEW row \in Row
    PROVE  /\ Append(s, row) \in Seq(Row)
           /\ \A p : Cardinality(Places(Append(s, row), p)) =
                         Cardinality(Places(s, p)) + IF row.id = p THEN 1 ELSE 0
  <1>1. /\ Append(s, row) \in Seq(Row)
        /\ DOMAIN Append(s, row) = 1..(Len(s) + 1) /\ DOMAIN s = 1..Len(s) /\ Len(s) \in Nat
        /\ \A i \in 1..Len(s) : Append(s, row)[i] = s[i]
        /\ Append(s, row)[Len(s) + 1] = row
    BY AppendProperties
  <1>2. ASSUME NEW p
        PROVE  Cardinality(Places(Append(s, row), p)) =
                   Cardinality(Places(s, p)) + IF row.id = p THEN 1 ELSE 0
    <2>1. IsFiniteSet(Places(s, p)) /\ Cardinality(Places(s, p)) \in Nat
      BY RowsHaveDates, FS_Subset, FS_CardinalityType DEF Places
    <2>2. Len(s) + 1 \notin Places(s, p)
      BY <1>1 DEF Places
    <2>3. CASE row.id = p
      <3>1. Places(Append(s, row), p) = Places(s, p) \cup {Len(s) + 1}
        BY <1>1, <2>3 DEF Places
      <3>. QED
        BY <2>1, <2>2, <2>3, <3>1, FS_AddElement
    <2>4. CASE row.id # p
      <3>1. Places(Append(s, row), p) = Places(s, p)
        BY <1>1, <2>4 DEF Places
      <3>. QED
        BY <2>1, <2>4, <3>1
    <2>. QED
      BY <2>3, <2>4
  <1>. QED
    BY <1>1, <1>2

\* What PostShown makes of the rows.
LEMMA ShownRows ==
    ASSUME NEW s \in Seq(Row), NEW row \in Row
    PROVE  LET t == SortRows(Reverse(Append(s, row)))
           IN  /\ t \in Seq(Row)
               /\ \A k, l \in DOMAIN t : k < l => Date[t[k].id] >= Date[t[l].id]
               /\ \A p : Cardinality(Places(t, p)) =
                             Cardinality(Places(s, p)) + IF row.id = p THEN 1 ELSE 0
  <1>. DEFINE r == Reverse(Append(s, row))
  <1>1. Append(s, row) \in Seq(Row)
    BY AppendRowCount
  <1>2. r \in Seq(Row) /\ \A p : Cardinality(Places(r, p)) = Cardinality(Places(Append(s, row), p))
    BY <1>1, ReverseRows
  <1>. HIDE DEF r
  <1>3. SortRows(r) \in Seq(Row) /\ DOMAIN SortRows(r) = DOMAIN r
    BY <1>2, SortRowsType
  <1>4. \A k, l \in DOMAIN r : k < l => Date[SortRows(r)[k].id] >= Date[SortRows(r)[l].id]
    BY <1>2, SortRowsSorts
  <1>5. \A p : Cardinality(Places(SortRows(r), p)) =
                   Cardinality(Places(s, p)) + IF row.id = p THEN 1 ELSE 0
    BY <1>2, SortRowsCount, AppendRowCount
  <1>. QED
    BY <1>3, <1>4, <1>5 DEF r

----------------------------------------------------------------------------
(* Types.  A queued like must be in flight for its completion to have a    *)
(* post to put back, so the types are inductive only with QueueOK.         *)

Typed == TypeOK /\ QueueOK

LEMMA QueuedIsInFlight ==
    ASSUME Typed, NEW o \in LikeOps, writeQ # <<>>, Head(writeQ) = o
    PROVE  op[o] \in InFlight
  <1>1. 1 \in DOMAIN writeQ /\ writeQ[1] = o
    BY DEF Typed, TypeOK
  <1>. QED
    BY <1>1 DEF Typed, TypeOK, QueueOK

LEMMA LocalHeartType ==
    ASSUME Typed, NEW p \in Posts
    PROVE  LocalHeart(p) \in BOOLEAN
  BY DEF Typed, TypeOK, LocalHeart, WrittenHeart

LEMMA QueueStays ==
    ASSUME QueueOK, writeQ' = writeQ, op' = op
    PROVE  QueueOK'
  BY DEF QueueOK

LEMMA TypedLoading ==
    ASSUME Typed, Loading
    PROVE  Typed'
  <1>. USE DEF Typed, TypeOK
  <1>1. CASE RaiseFollows
    <2>1. userGets' \in [Users -> Nat]
      BY <1>1 DEF RaiseFollows
    <2>. QED
      BY <1>1, <2>1, QueueStays DEF RaiseFollows, server, page, counts
  <1>2. ASSUME NEW u \in Users, UserLoaded(u) PROVE Typed'
    <2>1. userGets' \in [Users -> Nat]
      BY <1>2 DEF UserLoaded
    <2>2. postFresh' \in [Users -> Nat] /\ listens' \in [Users -> Nat]
      <3>1. CASE u \in Profiles
        <4>1. /\ postFresh' = [postFresh EXCEPT ![u] = @ + 1]
              /\ listens' = [listens EXCEPT ![u] = @ + 1]
          BY <1>2, <3>1 DEF UserLoaded
        <4>2. postFresh \in [Users -> Nat] /\ listens \in [Users -> Nat]
          OBVIOUS
        <4>. HIDE DEF Typed, TypeOK
        <4>. QED
          BY <4>1, <4>2
      <3>2. CASE u \notin Profiles
        BY <1>2, <3>2 DEF UserLoaded
      <3>. QED
        BY <3>1, <3>2
    <2>. QED
      BY <1>2, <2>1, <2>2, QueueStays DEF UserLoaded, server, page, counts
  <1>3. ASSUME NEW u \in Users, RaisePosts(u) PROVE Typed'
    <2>1. ServerPosts(u) \in SUBSET Posts
      BY DEF ServerPosts
    <2>2. view' \in [Users -> SUBSET Posts]
      BY <1>3, <2>1 DEF RaisePosts
    <2>3. likeGets' \in [Posts -> Nat]
      BY <1>3 DEF RaisePosts, ReadLikes
    <2>4. postFresh' \in [Users -> Nat] /\ postSubs' \in [Users -> Nat]
      BY <1>3 DEF RaisePosts
    <2>. QED
      BY <1>3, <2>2, <2>3, <2>4, QueueStays DEF RaisePosts, server, counts
  <1>4. ASSUME NEW u \in Users, PostsChanged(u) PROVE Typed'
    <2>1. ServerPosts(u) \in SUBSET Posts
      BY DEF ServerPosts
    <2>2. likeGets' \in [Posts -> Nat]
      BY <1>4 DEF PostsChanged, ReadLikes
    <2>. QED
      BY <1>4, <2>1, <2>2, QueueStays DEF PostsChanged, server, counts
  <1>5. ASSUME NEW p \in Posts, PostShown(p) PROVE Typed'
    <2>1. [id |-> p, liked |-> LocalHeart(p)] \in Row
      BY LocalHeartType DEF Row
    <2>2. posts' \in Seq(Row)
      BY <1>5, <2>1, ShownRows DEF PostShown
    <2>. QED
      BY <1>5, <2>2, QueueStays DEF PostShown, server, counts
  <1>. QED
    BY <1>1, <1>2, <1>3, <1>4, <1>5 DEF Loading

LEMMA TypedDequeue ==
    ASSUME Typed, NEW o \in LikeOps, writeQ # <<>>, Head(writeQ) = o,
           writeQ' = Tail(writeQ), op' = [op EXCEPT ![o] = Idle]
    PROVE  /\ writeQ' \in Seq(LikeOps)
           /\ op' \in [LikeOps -> {Idle} \cup InFlight]
           /\ QueueOK'
  <1>. USE DEF Typed, TypeOK
  <1>1. writeQ' \in Seq(LikeOps) /\ op' \in [LikeOps -> {Idle} \cup InFlight]
    OBVIOUS
  <1>2. /\ DOMAIN writeQ = 1..Len(writeQ) /\ Len(writeQ) \in Nat
        /\ DOMAIN writeQ' = 1..(Len(writeQ) - 1)
        /\ \A i \in DOMAIN writeQ' : i + 1 \in DOMAIN writeQ /\ writeQ'[i] = writeQ[i + 1]
    OBVIOUS
  <1>3. 1 \in DOMAIN writeQ /\ writeQ[1] = o
    OBVIOUS
  <1>4. \A i, j \in DOMAIN writeQ' : writeQ'[i] = writeQ'[j] => i = j
    BY <1>2 DEF QueueOK
  <1>5. \A i \in DOMAIN writeQ' : writeQ'[i] # o /\ writeQ'[i] \in LikeOps
    <2>1. \A i \in DOMAIN writeQ : writeQ[i] \in LikeOps /\ (i # 1 => writeQ[i] # o)
      BY <1>3 DEF QueueOK
    <2>2. \A i \in DOMAIN writeQ' : i + 1 # 1
      BY <1>2
    <2>. QED
      BY <1>2, <2>1, <2>2
  <1>6. \A i \in DOMAIN writeQ' : op'[writeQ'[i]] = op[writeQ[i + 1]]
    BY <1>2, <1>5
  <1>. QED
    BY <1>1, <1>2, <1>4, <1>6 DEF QueueOK

LEMMA TypedFailing ==
    ASSUME Typed, Failing
    PROVE  Typed'
  <1>. USE DEF Typed, TypeOK
  <1>1. CASE FollowListenFails
    BY <1>1, QueueStays DEF FollowListenFails, server, page
  <1>2. ASSUME NEW u \in Users, UserGetFails(u) \/ PostsListenFails(u) PROVE Typed'
    <2>1. CASE UserGetFails(u)
      BY <1>2, <2>1, QueueStays DEF UserGetFails, server, page
    <2>2. CASE PostsListenFails(u)
      <3>1. postFresh' \in [Users -> Nat] /\ postSubs' \in [Users -> Nat]
        BY <2>2 DEF PostsListenFails
      <3>2. view' \in [Users -> SUBSET Posts]
        BY <2>2 DEF PostsListenFails
      <3>3. QueueOK'
        BY <2>2, QueueStays DEF PostsListenFails, server
      <3>4. refreshing' = FALSE /\ failures' \in Nat
        BY <2>2 DEF PostsListenFails
      <3>. QED
        BY <2>2, <3>1, <3>2, <3>3, <3>4 DEF PostsListenFails, server
    <2>. QED
      BY <1>2, <2>1, <2>2
  <1>3. ASSUME NEW p \in Posts, PostDropped(p) PROVE Typed'
    BY <1>3, QueueStays DEF PostDropped, server, page
  <1>4. ASSUME NEW o \in LikeOps, LikeReadFails(o) PROVE Typed'
    <2>1. op' \in [LikeOps -> {Idle} \cup InFlight]
      BY <1>4 DEF LikeReadFails
    <2>2. QueueOK'
      BY <1>4 DEF LikeReadFails, QueueOK, server
    <2>. QED
      BY <1>4, <2>1, <2>2 DEF LikeReadFails, server, reads, page
  <1>5. ASSUME NEW o \in LikeOps, LikeRejected(o) PROVE Typed'
    <2>1. writeQ' \in Seq(LikeOps) /\ op' \in [LikeOps -> {Idle} \cup InFlight] /\ QueueOK'
      BY <1>5, TypedDequeue DEF LikeRejected
    <2>. QED
      BY <1>5, <2>1 DEF LikeRejected, reads, page
  <1>. QED
    BY <1>1, <1>2, <1>3, <1>4, <1>5 DEF Failing

LEMMA TypedLiking ==
    ASSUME Typed, Liking
    PROVE  Typed'
  <1>. USE DEF Typed, TypeOK
  <1>1. ASSUME NEW o \in LikeOps, NEW row \in DOMAIN posts, postLiked(o, row) PROVE Typed'
    <2>1. row \in Nat \ {0} /\ posts[row] \in Row
      OBVIOUS
    <2>2. op' \in [LikeOps -> {Idle} \cup InFlight]
      BY <1>1, <2>1 DEF postLiked, InFlight
    <2>3. QueueOK'
      BY <1>1 DEF postLiked, QueueOK, server
    <2>. QED
      BY <1>1, <2>2, <2>3 DEF postLiked, server, reads, page, counts
  <1>2. ASSUME NEW o \in LikeOps, LikeRead(o) PROVE Typed'
    <2>1. /\ DOMAIN writeQ = 1..Len(writeQ) /\ Len(writeQ) \in Nat
          /\ writeQ' = Append(writeQ, o) /\ writeQ' \in Seq(LikeOps)
          /\ DOMAIN writeQ' = 1..(Len(writeQ) + 1)
          /\ \A i \in 1..Len(writeQ) : writeQ'[i] = writeQ[i]
          /\ writeQ'[Len(writeQ) + 1] = o
      BY <1>2 DEF LikeRead
    <2>2. op[o] \in InFlight /\ op[o].stage = "get"
      BY <1>2 DEF LikeRead
    <2>3. \A i \in DOMAIN writeQ : writeQ[i] \in LikeOps /\ writeQ[i] # o
      BY <2>2 DEF QueueOK
    <2>4. op' \in [LikeOps -> {Idle} \cup InFlight] /\ op'[o] # Idle /\ op'[o].stage = "write"
      BY <1>2, <2>2 DEF LikeRead, InFlight, Idle
    <2>5. \A q \in LikeOps \ {o} : op'[q] = op[q]
      BY <1>2 DEF LikeRead
    <2>6. QueueOK'
      <3>1. \A i, j \in DOMAIN writeQ' : writeQ'[i] = writeQ'[j] => i = j
        BY <2>1, <2>3 DEF QueueOK
      <3>2. \A i \in DOMAIN writeQ' : op'[writeQ'[i]] # Idle /\ op'[writeQ'[i]].stage = "write"
        BY <2>1, <2>3, <2>4, <2>5 DEF QueueOK
      <3>. QED
        BY <3>1, <3>2 DEF QueueOK
    <2>. QED
      BY <1>2, <2>1, <2>4, <2>6 DEF LikeRead, reads, page, counts
  <1>3. ASSUME NEW o \in LikeOps, LikeDone(o) PROVE Typed'
    <2>. DEFINE post == [op[o].post EXCEPT !.liked = WrittenHeart(o)]
    <2>1. op[o] \in InFlight
      BY <1>3, QueuedIsInFlight DEF LikeDone
    <2>2. post \in Row /\ post.id = op[o].post.id
      BY <2>1 DEF InFlight, Row, WrittenHeart
    <2>. HIDE DEF post
    <2>3. posts' \in Seq(Row) /\ running' \in BOOLEAN /\ misplaced' \in BOOLEAN
      <3>1. CASE op[o].row \in DOMAIN posts
        <4>1. posts' = [posts EXCEPT ![op[o].row] = post]
              /\ misplaced' = (misplaced \/ posts[op[o].row].id # post.id) /\ running' = running
          BY <1>3, <3>1 DEF LikeDone, post
        <4>2. posts' \in Seq(Row)
          BY <2>2, <3>1, <4>1
        <4>. QED
          BY <4>1, <4>2
      <3>2. CASE op[o].row \notin DOMAIN posts
        BY <1>3, <3>2 DEF LikeDone
      <3>. QED
        BY <3>1, <3>2
    <2>4. stored' \in [Posts -> BOOLEAN]
      BY <1>3, <2>2 DEF LikeDone, WrittenHeart
    <2>5. writeQ' \in Seq(LikeOps) /\ op' \in [LikeOps -> {Idle} \cup InFlight] /\ QueueOK'
      BY <1>3, TypedDequeue DEF LikeDone
    <2>. QED
      BY <1>3, <2>3, <2>4, <2>5 DEF LikeDone, reads, counts
  <1>. QED
    BY <1>1, <1>2, <1>3 DEF Liking

\* What viewDidLoad sets, and a restart sets again, is typed.
LEMMA NewPageTyped ==
    /\ [u \in Users |-> IF u = Me THEN 1 ELSE 0] \in [Users -> Nat]
    /\ [u \in Users |-> 0] \in [Users -> Nat]
    /\ [u \in Users |-> {}] \in [Users -> SUBSET Posts]
    /\ [p \in Posts |-> 0] \in [Posts -> Nat]
    /\ <<>> \in Seq(Row) /\ <<>> \in Seq(LikeOps)
    /\ [o \in LikeOps |-> Idle] \in [LikeOps -> {Idle} \cup InFlight]
  OBVIOUS

LEMMA EmptyQueueOK ==
    ASSUME writeQ = <<>>
    PROVE  QueueOK
  BY DEF QueueOK

LEMMA TypedNext == Typed /\ [Next]_vars => Typed'
  <1>. SUFFICES ASSUME Typed, [Next]_vars PROVE Typed'
    OBVIOUS
  <1>1. ASSUME NEW u \in Users, EditFollows(u) PROVE Typed'
    <2>1. follows' \in SUBSET Users /\ everFollowed' \in SUBSET Users
      BY <1>1 DEF EditFollows, Typed, TypeOK
    <2>2. userGets' \in [Users -> Nat]
      <3>1. \A v \in Users : userGets[v] \in Nat /\ followSubs \in Nat
        BY DEF Typed, TypeOK
      <3>2. \A v \in Users : userGets[v] + (IF v \in follows' THEN followSubs ELSE 0) \in Nat
        BY <3>1
      <3>. QED
        BY <1>1, <3>2 DEF EditFollows
    <2>3. edits' \in Nat
      BY <1>1 DEF EditFollows, Typed, TypeOK
    <2>. QED
      BY <1>1, <2>1, <2>2, <2>3 DEF EditFollows, Typed, TypeOK, QueueOK, page
  <1>2. ASSUME NEW p \in Posts, Publish(p) PROVE Typed'
    BY <1>2 DEF Publish, Typed, TypeOK, QueueOK, reads, page, counts
  <1>3. ASSUME NEW pulled \in BOOLEAN, Refresh(pulled) PROVE Typed'
    <2>1. posts' \in Seq(Row)
      BY <1>3 DEF Refresh
    <2>2. userGets' \in [Users -> Nat]
      BY <1>3, FeedAssumption DEF Refresh, Typed, TypeOK
    <2>3. refreshing' \in BOOLEAN /\ misplaced' \in BOOLEAN
      BY <1>3 DEF Refresh
    <2>4. QueueOK'
      BY <1>3, QueueStays DEF Refresh, Typed, server
    <2>. QED
      BY <1>3, <2>1, <2>2, <2>3, <2>4 DEF Refresh, Typed, TypeOK, server
  <1>4. CASE Relaunch
    <2>1. stored' \in [Posts -> BOOLEAN]
      BY <1>4, LocalHeartType DEF Relaunch
    <2>2. writeQ' = <<>> /\ posts' = <<>> /\ op' = [o \in LikeOps |-> Idle]
      BY <1>4 DEF Relaunch
    <2>3. /\ userGets' = [u \in Users |-> IF u = Me THEN 1 ELSE 0]
          /\ postFresh' = [u \in Users |-> 0] /\ postSubs' = [u \in Users |-> 0]
          /\ view' = [u \in Users |-> {}] /\ listens' = [u \in Users |-> 0]
          /\ likeGets' = [p \in Posts |-> 0]
      BY <1>4 DEF Relaunch
    <2>. QED
      <3>1. QueueOK'
        BY <2>2 DEF QueueOK
      <3>2. /\ userGets' \in [Users -> Nat] /\ postFresh' \in [Users -> Nat]
            /\ postSubs' \in [Users -> Nat] /\ listens' \in [Users -> Nat]
            /\ view' \in [Users -> SUBSET Posts] /\ likeGets' \in [Posts -> Nat]
            /\ posts' \in Seq(Row) /\ writeQ' \in Seq(LikeOps)
            /\ op' \in [LikeOps -> {Idle} \cup InFlight]
        BY <2>2, <2>3, NewPageTyped
      <3>3. /\ refreshing' \in BOOLEAN /\ running' \in BOOLEAN /\ misplaced' \in BOOLEAN
            /\ followFresh' \in Nat /\ followSubs' \in Nat
        BY <1>4 DEF Relaunch
      <3>4. /\ published' \in SUBSET Posts /\ follows' \in SUBSET Users
            /\ everFollowed' \in SUBSET Users /\ refreshes' \in Nat /\ edits' \in Nat
            /\ failures' \in Nat /\ relaunches' \in Nat
        BY <1>4 DEF Relaunch, Typed, TypeOK
      <3>5. TypeOK'
        BY <2>1, <3>2, <3>3, <3>4 DEF TypeOK
      <3>. QED
        BY <3>1, <3>5 DEF Typed
  <1>5. CASE UNCHANGED vars
    BY <1>5 DEF vars, server, reads, page, counts, Typed, TypeOK, QueueOK
  <1>. QED
    BY <1>1, <1>2, <1>3, <1>4, <1>5, TypedLoading, TypedFailing, TypedLiking DEF Next

LEMMA InitTyped == Init => Typed
  <1>. SUFFICES ASSUME Init PROVE Typed
    OBVIOUS
  <1>1. QueueOK
    BY EmptyQueueOK DEF Init
  <1>2. /\ userGets \in [Users -> Nat] /\ postFresh \in [Users -> Nat]
        /\ postSubs \in [Users -> Nat] /\ listens \in [Users -> Nat]
        /\ view \in [Users -> SUBSET Posts] /\ likeGets \in [Posts -> Nat]
    BY NewPageTyped DEF Init, PageLoaded
  <1>3. posts \in Seq(Row) /\ writeQ \in Seq(LikeOps) /\ op \in [LikeOps -> {Idle} \cup InFlight]
    BY NewPageTyped DEF Init, PageLoaded
  <1>. QED
    BY <1>1, <1>2, <1>3 DEF Init, PageLoaded, Typed, TypeOK

\* Type correctness, and with it: a completion always finds the like it is for.
THEOREM TypeCorrect == Spec => []TypeOK
  BY InitTyped, TypedNext, PTL DEF Spec, Typed

----------------------------------------------------------------------------
(* The rows change in four actions only.                                   *)

LEMMA RowSteps ==
    ASSUME [Next]_vars
    PROVE  \/ UNCHANGED <<posts, misplaced>>
           \/ \E p \in Posts : PostShown(p)
           \/ \E pulled \in BOOLEAN : Refresh(pulled)
           \/ \E o \in LikeOps : LikeDone(o)
           \/ Relaunch
  <1>1. CASE Loading
    BY <1>1 DEF Loading, RaiseFollows, UserLoaded, RaisePosts, PostsChanged, page
  <1>2. CASE Failing
    BY <1>2 DEF Failing, FollowListenFails, UserGetFails, PostsListenFails, PostDropped,
                LikeReadFails, LikeRejected, page
  <1>3. CASE Liking
    BY <1>3 DEF Liking, postLiked, LikeRead, page
  <1>4. ASSUME NEW u \in Users, EditFollows(u)
        PROVE  UNCHANGED <<posts, misplaced>>
    BY <1>4 DEF EditFollows, page
  <1>5. ASSUME NEW p \in Posts, Publish(p)
        PROVE  UNCHANGED <<posts, misplaced>>
    BY <1>5 DEF Publish, page
  <1>6. CASE UNCHANGED vars
    BY <1>6 DEF vars, page
  <1>. QED
    BY <1>1, <1>2, <1>3, <1>4, <1>5, <1>6 DEF Next

\* What the completion of a like does to the rows: nothing, when the index is past
\* their end; the same post's row with its heart turned, unless misplaced.
LEMMA LikedRows ==
    ASSUME Typed, NEW o \in LikeOps, LikeDone(o)
    PROVE  \/ UNCHANGED <<posts, misplaced>>
           \/ /\ posts' \in Seq(Row) /\ DOMAIN posts' = DOMAIN posts
              /\ ~misplaced' => /\ ~misplaced
                                /\ \A i \in DOMAIN posts : posts'[i].id = posts[i].id
  <1>. DEFINE row == op[o].row  post == [op[o].post EXCEPT !.liked = WrittenHeart(o)]
  <1>1. post \in Row
    BY QueuedIsInFlight DEF LikeDone, InFlight, Row, WrittenHeart
  <1>. HIDE DEF post
  <1>2. posts \in Seq(Row)
    BY DEF Typed, TypeOK
  <1>3. CASE row \in DOMAIN posts
    <2>1. posts' = [posts EXCEPT ![row] = post]
          /\ misplaced' = (misplaced \/ posts[row].id # post.id)
      BY <1>3 DEF LikeDone, post
    <2>2. posts' \in Seq(Row) /\ DOMAIN posts' = DOMAIN posts
      BY <1>1, <1>2, <1>3, <2>1
    <2>3. posts'[row] = post /\ \A i \in DOMAIN posts : i # row => posts'[i] = posts[i]
      BY <1>2, <1>3, <2>1
    <2>. QED
      BY <2>1, <2>2, <2>3
  <1>4. CASE row \notin DOMAIN posts
    BY <1>4 DEF LikeDone
  <1>. QED
    BY <1>3, <1>4

----------------------------------------------------------------------------
(* The order of the rows.                                                  *)

LEMMA NewestStep == Typed /\ NewestFirst /\ [Next]_vars => NewestFirst'
  <1>. SUFFICES ASSUME Typed, NewestFirst, [Next]_vars, ~misplaced'
                PROVE  \A i, j \in DOMAIN posts' :
                           i < j => Date[posts'[i].id] >= Date[posts'[j].id]
    BY DEF NewestFirst
  <1>1. CASE UNCHANGED <<posts, misplaced>>
    BY <1>1 DEF NewestFirst
  <1>2. ASSUME NEW p \in Posts, PostShown(p)
        PROVE  \A i, j \in DOMAIN posts' : i < j => Date[posts'[i].id] >= Date[posts'[j].id]
    <2>1. posts \in Seq(Row) /\ [id |-> p, liked |-> LocalHeart(p)] \in Row
      BY LocalHeartType DEF Typed, TypeOK, Row
    <2>. QED
      BY <1>2, <2>1, ShownRows DEF PostShown
  <1>3. ASSUME NEW o \in LikeOps, LikeDone(o)
        PROVE  \A i, j \in DOMAIN posts' : i < j => Date[posts'[i].id] >= Date[posts'[j].id]
    BY <1>3, LikedRows DEF NewestFirst
  <1>4. CASE Relaunch \/ \E pulled \in BOOLEAN : Refresh(pulled)
    <2>1. posts' = <<>>
      BY <1>4 DEF Relaunch, Refresh
    <2>. QED
      BY <2>1
  <1>. QED
    BY <1>1, <1>2, <1>3, <1>4, RowSteps

\* Whatever the order of the callbacks, the newest post is on top.
THEOREM NewestOnTop == Spec => []NewestFirst
  <1>1. Init => NewestFirst
    BY DEF Init, PageLoaded, NewestFirst
  <1>2. Init => Typed
    BY InitTyped
  <1>. QED
    BY <1>1, <1>2, TypedNext, NewestStep, PTL DEF Spec

----------------------------------------------------------------------------
(* Where the rows come from.  The listeners report posts of the person they*)
(* were registered for, and they are registered for keys of Follows/Me.    *)

Provenance ==
    /\ follows \subseteq everFollowed
    /\ \A u \in Users : \A p \in view[u] : Owner[p] = u
    /\ OnlyKnownPeople

\* The posts of the rows after PostShown are those before and the one shown.
LEMMA ShownPosts ==
    ASSUME NEW s \in Seq(Row), NEW row \in Row,
           NEW k \in DOMAIN SortRows(Reverse(Append(s, row)))
    PROVE  LET q == SortRows(Reverse(Append(s, row)))[k].id
           IN  q = row.id \/ \E i \in DOMAIN s : s[i].id = q
  <1>. DEFINE t == SortRows(Reverse(Append(s, row)))  q == t[k].id
  <1>1. t \in Seq(Row) /\ Cardinality(Places(t, q)) =
            Cardinality(Places(s, q)) + IF row.id = q THEN 1 ELSE 0
    BY ShownRows
  <1>2. k \in Places(t, q) /\ IsFiniteSet(Places(t, q))
    BY <1>1, RowsHaveDates, FS_Subset DEF Places
  <1>3. Cardinality(Places(t, q)) \in Nat /\ Cardinality(Places(t, q)) # 0
    BY <1>2, FS_CardinalityType, FS_EmptySet
  <1>4. row.id = q \/ Cardinality(Places(s, q)) # 0
    BY <1>1, <1>3
  <1>5. row.id = q \/ Places(s, q) # {}
    BY <1>4, FS_EmptySet
  <1>. QED
    BY <1>5 DEF Places

LEMMA ProvenanceLoading ==
    ASSUME Typed, Provenance, Loading
    PROVE  Provenance'
  <1>. USE DEF Provenance, OnlyKnownPeople
  <1>0. /\ userGets \in [Users -> Nat] /\ postFresh \in [Users -> Nat]
        /\ postSubs \in [Users -> Nat] /\ likeGets \in [Posts -> Nat]
        /\ view \in [Users -> SUBSET Posts] /\ follows \in SUBSET Users
    BY DEF Typed, TypeOK
  <1>1. CASE RaiseFollows
    <2>1. \A u \in Users : userGets'[u] + postFresh'[u] + postSubs'[u] > 0 => Known(u)
      BY <1>0, <1>1 DEF RaiseFollows, Known
    <2>. QED
      BY <1>1, <2>1 DEF RaiseFollows, Known, page, server
  <1>2. ASSUME NEW u \in Users, UserLoaded(u) PROVE Provenance'
    <2>1. userGets'[u] >= 0 /\ Known(u)
      BY <1>0, <1>2 DEF UserLoaded
    <2>2. \A v \in Users \ {u} : userGets'[v] = userGets[v] /\ postFresh'[v] = postFresh[v]
                                 /\ postSubs'[v] = postSubs[v]
      BY <1>0, <1>2 DEF UserLoaded
    <2>3. \A v \in Users : userGets'[v] + postFresh'[v] + postSubs'[v] > 0 => Known(v)
      BY <2>1, <2>2
    <2>. QED
      BY <1>2, <2>3 DEF UserLoaded, Known, page, server
  <1>3. ASSUME NEW u \in Users, RaisePosts(u) PROVE Provenance'
    <2>1. Known(u)
      BY <1>0, <1>3 DEF RaisePosts
    <2>2. \A v \in Users \ {u} : userGets'[v] = userGets[v] /\ postFresh'[v] = postFresh[v]
                                 /\ postSubs'[v] = postSubs[v] /\ view'[v] = view[v]
      BY <1>0, <1>3 DEF RaisePosts
    <2>3. \A v \in Users : userGets'[v] + postFresh'[v] + postSubs'[v] > 0 => Known(v)
      BY <2>1, <2>2
    <2>4. \A p \in view'[u] : Owner[p] = u
      BY <1>0, <1>3 DEF RaisePosts, ServerPosts
    <2>5. \A p \in Posts : likeGets'[p] > 0 => Known(Owner[p])
      BY <1>0, <1>3, <2>1, <2>4 DEF RaisePosts, ReadLikes
    <2>6. \A v \in Users : \A p \in view'[v] : Owner[p] = v
      BY <2>2, <2>4
    <2>. QED
      BY <1>3, <2>3, <2>5, <2>6 DEF RaisePosts, Known, server
  <1>4. ASSUME NEW u \in Users, PostsChanged(u) PROVE Provenance'
    <2>1. Known(u)
      BY <1>0, <1>4 DEF PostsChanged
    <2>2. \A v \in Users : \A p \in view'[v] : Owner[p] = v
      BY <1>0, <1>4 DEF PostsChanged, ServerPosts
    <2>3. \A p \in Posts : likeGets'[p] > 0 => Known(Owner[p])
      BY <1>0, <1>4, <2>1 DEF PostsChanged, ReadLikes, ServerPosts
    <2>. QED
      BY <1>4, <2>2, <2>3 DEF PostsChanged, Known, server
  <1>5. ASSUME NEW p \in Posts, PostShown(p) PROVE Provenance'
    <2>1. Known(Owner[p])
      BY <1>0, <1>5 DEF PostShown
    <2>2. posts \in Seq(Row) /\ [id |-> p, liked |-> LocalHeart(p)] \in Row
      BY LocalHeartType DEF Typed, TypeOK, Row
    <2>3. \A k \in DOMAIN posts' : posts'[k].id = p \/ \E i \in DOMAIN posts : posts[i].id = posts'[k].id
      BY <1>5, <2>2, ShownPosts DEF PostShown
    <2>4. \A k \in DOMAIN posts' : Known(Owner[posts'[k].id])
      BY <2>1, <2>3
    <2>5. \A q \in Posts : likeGets'[q] > 0 => likeGets[q] > 0
      BY <1>0, <1>5 DEF PostShown
    <2>. QED
      BY <1>5, <2>4, <2>5 DEF PostShown, Known, server
  <1>. QED
    BY <1>1, <1>2, <1>3, <1>4, <1>5 DEF Loading

LEMMA ProvenanceFailing ==
    ASSUME Typed, Provenance, Failing
    PROVE  Provenance'
  <1>. USE DEF Provenance, OnlyKnownPeople
  <1>0. /\ userGets \in [Users -> Nat] /\ postFresh \in [Users -> Nat]
        /\ postSubs \in [Users -> Nat] /\ likeGets \in [Posts -> Nat]
        /\ view \in [Users -> SUBSET Posts] /\ op \in [LikeOps -> {Idle} \cup InFlight]
    BY DEF Typed, TypeOK
  <1>1. CASE FollowListenFails
    BY <1>1 DEF FollowListenFails, Known, page, server
  <1>2. ASSUME NEW u \in Users, UserGetFails(u) PROVE Provenance'
    <2>1. \A v \in Users : userGets'[v] + postFresh'[v] + postSubs'[v] > 0
                           => userGets[v] + postFresh[v] + postSubs[v] > 0
      BY <1>0, <1>2 DEF UserGetFails
    <2>. QED
      BY <1>2, <2>1 DEF UserGetFails, Known, page, server
  <1>3. ASSUME NEW u \in Users, PostsListenFails(u) PROVE Provenance'
    <2>1. \A v \in Users : userGets'[v] + postFresh'[v] + postSubs'[v] > 0
                           => userGets[v] + postFresh[v] + postSubs[v] > 0
      BY <1>0, <1>3 DEF PostsListenFails
    <2>2. \A v \in Users : view'[v] \subseteq view[v]
      BY <1>0, <1>3 DEF PostsListenFails
    <2>. QED
      BY <1>3, <2>1, <2>2 DEF PostsListenFails, Known, server
  <1>4. ASSUME NEW p \in Posts, PostDropped(p) PROVE Provenance'
    <2>1. \A q \in Posts : likeGets'[q] > 0 => likeGets[q] > 0
      BY <1>0, <1>4 DEF PostDropped
    <2>. QED
      BY <1>4, <2>1 DEF PostDropped, Known, page, server
  <1>5. ASSUME NEW o \in LikeOps, LikeReadFails(o) \/ LikeRejected(o) PROVE Provenance'
    <2>1. op' = [op EXCEPT ![o] = Idle] /\ UNCHANGED <<posts, reads, follows, everFollowed>>
      BY <1>5 DEF LikeReadFails, LikeRejected, page, server
    <2>2. \A q \in LikeOps : op'[q] # Idle => op'[q] = op[q]
      BY <1>0, <2>1
    <2>. QED
      BY <2>1, <2>2 DEF Known, reads
  <1>. QED
    BY <1>1, <1>2, <1>3, <1>4, <1>5 DEF Failing

LEMMA ProvenanceLiking ==
    ASSUME Typed, Provenance, Liking
    PROVE  Provenance'
  <1>. USE DEF Provenance, OnlyKnownPeople
  <1>0. op \in [LikeOps -> {Idle} \cup InFlight] /\ posts \in Seq(Row)
    BY DEF Typed, TypeOK
  <1>1. ASSUME NEW o \in LikeOps, NEW row \in DOMAIN posts, postLiked(o, row) PROVE Provenance'
    <2>1. \A q \in LikeOps : op'[q] = op[q] \/ op'[q].post = posts[row]
      BY <1>0, <1>1 DEF postLiked
    <2>. QED
      BY <1>1, <2>1 DEF postLiked, Known, reads, page, server
  <1>2. ASSUME NEW o \in LikeOps, LikeRead(o) PROVE Provenance'
    <2>1. op[o] \in InFlight /\ op[o] # Idle
      BY <1>0, <1>2 DEF LikeRead
    <2>2. \A q \in LikeOps : op'[q] = op[q] \/ (q = o /\ op'[q].post = op[o].post)
      BY <1>0, <1>2, <2>1 DEF LikeRead, InFlight
    <2>. QED
      BY <1>2, <2>1, <2>2 DEF LikeRead, Known, reads, page
  <1>3. ASSUME NEW o \in LikeOps, LikeDone(o) PROVE Provenance'
    <2>. DEFINE post == [op[o].post EXCEPT !.liked = WrittenHeart(o)]
    <2>1. op[o] \in InFlight /\ op[o] # Idle
      BY <1>3, QueuedIsInFlight DEF LikeDone, InFlight, Idle
    <2>2. post.id = op[o].post.id /\ Known(Owner[op[o].post.id])
      BY <2>1 DEF InFlight, Row
    <2>3. /\ posts' = posts \/ (op[o].row \in DOMAIN posts /\ posts' = [posts EXCEPT ![op[o].row] = post])
          /\ op' = [op EXCEPT ![o] = Idle] /\ UNCHANGED <<reads, follows, everFollowed>>
      BY <1>3 DEF LikeDone
    <2>. HIDE DEF post
    <2>4. \A i \in DOMAIN posts' : i \in DOMAIN posts /\ (posts'[i] = posts[i] \/ posts'[i] = post)
      BY <1>0, <2>3
    <2>5. \A i \in DOMAIN posts' : Known(Owner[posts'[i].id])
      BY <2>2, <2>4
    <2>6. \A q \in LikeOps : op'[q] # Idle => op'[q] = op[q]
      BY <1>0, <2>3
    <2>. QED
      BY <2>3, <2>5, <2>6 DEF Known, reads
  <1>. QED
    BY <1>1, <1>2, <1>3 DEF Liking

LEMMA ProvenanceNext == Typed /\ Provenance /\ [Next]_vars => Provenance'
  <1>. SUFFICES ASSUME Typed, Provenance, [Next]_vars PROVE Provenance'
    OBVIOUS
  <1>0. /\ userGets \in [Users -> Nat] /\ postFresh \in [Users -> Nat]
        /\ postSubs \in [Users -> Nat] /\ likeGets \in [Posts -> Nat]
        /\ followSubs \in Nat /\ follows \in SUBSET Users
    BY DEF Typed, TypeOK
  <1>1. ASSUME NEW u \in Users, EditFollows(u) PROVE Provenance'
    <2>1. follows' \subseteq everFollowed' /\ everFollowed \subseteq everFollowed'
      BY <1>1 DEF EditFollows
    <2>2. \A v \in Users : userGets'[v] > userGets[v] => v \in follows'
      BY <1>0, <1>1 DEF EditFollows
    <2>3. \A v \in Users : userGets'[v] \in Nat /\ postFresh'[v] = postFresh[v]
                           /\ postSubs'[v] = postSubs[v]
      BY <1>0, <1>1 DEF EditFollows
    <2>4. \A v \in Users : userGets'[v] + postFresh'[v] + postSubs'[v] > 0
                           => v \in follows' \/ userGets[v] + postFresh[v] + postSubs[v] > 0
      BY <1>0, <2>2, <2>3
    <2>5. UNCHANGED <<view, likeGets, posts, op>>
      BY <1>1 DEF EditFollows, page
    <2>. QED
      BY <2>1, <2>4, <2>5 DEF Provenance, OnlyKnownPeople, Known
  <1>2. ASSUME NEW p \in Posts, Publish(p) PROVE Provenance'
    BY <1>2 DEF Publish, Provenance, OnlyKnownPeople, Known, reads, page
  <1>3. ASSUME NEW pulled \in BOOLEAN, Refresh(pulled) PROVE Provenance'
    <2>1. \A v \in Users : userGets'[v] + postFresh'[v] + postSubs'[v] > 0
                           => v = Me \/ userGets[v] + postFresh[v] + postSubs[v] > 0
      BY <1>0, <1>3 DEF Refresh
    <2>2. posts' = <<>> /\ UNCHANGED <<follows, everFollowed, view, likeGets, op>>
      BY <1>3 DEF Refresh, server
    <2>. QED
      BY <2>1, <2>2 DEF Provenance, OnlyKnownPeople, Known
  <1>4. CASE Relaunch
    <2>1. \A v \in Users : userGets'[v] + postFresh'[v] + postSubs'[v] > 0 => v = Me
      BY <1>4 DEF Relaunch
    <2>2. /\ posts' = <<>> /\ op' = [o \in LikeOps |-> Idle]
          /\ view' = [u \in Users |-> {}] /\ likeGets' = [p \in Posts |-> 0]
          /\ UNCHANGED <<follows, everFollowed>>
      BY <1>4 DEF Relaunch
    <2>. QED
      BY <2>1, <2>2 DEF Provenance, OnlyKnownPeople, Known
  <1>5. CASE UNCHANGED vars
    BY <1>5 DEF vars, server, reads, page, counts, Provenance, OnlyKnownPeople, Known
  <1>. QED
    BY <1>1, <1>2, <1>3, <1>4, <1>5, ProvenanceLoading, ProvenanceFailing, ProvenanceLiking
       DEF Next

\* Nothing on the page, or on its way to it, belongs to anybody Me has not followed.
THEOREM OnlyKnown == Spec => []OnlyKnownPeople
  <1>1. Init => Provenance
    BY FeedAssumption DEF Init, PageLoaded, Provenance, OnlyKnownPeople, Known
  <1>2. Init => Typed
    BY InitTyped
  <1>3. Provenance => OnlyKnownPeople
    BY DEF Provenance
  <1>. QED
    BY <1>1, <1>2, <1>3, TypedNext, ProvenanceNext, PTL DEF Spec

----------------------------------------------------------------------------
(* How often a post can be on the page.  Every listener owes a post at     *)
(* most one row: before its first snapshot, while the post is not in the   *)
(* query's view, or while the read of its Likes document is in flight.     *)

Owed(p) ==
    likeGets[p] + postFresh[Owner[p]]
        + IF p \in view[Owner[p]] THEN 0 ELSE postSubs[Owner[p]]

Accounts ==
    /\ \A u \in Users : \A p \in view[u] : p \in published /\ Owner[p] = u
    /\ \A p \in Posts : Owed(p) <= listens[Owner[p]]
    /\ ~misplaced => \A p \in Posts : Copies(p) + Owed(p) <= listens[Owner[p]]

LEMMA CountTypes ==
    ASSUME Typed
    PROVE  /\ userGets \in [Users -> Nat] /\ postFresh \in [Users -> Nat]
           /\ postSubs \in [Users -> Nat] /\ listens \in [Users -> Nat]
           /\ likeGets \in [Posts -> Nat] /\ view \in [Users -> SUBSET Posts]
           /\ \A p \in Posts : Owner[p] \in Users /\ Owed(p) \in Nat /\ Copies(p) \in Nat
  <1>1. posts \in Seq(Row)
    BY DEF Typed, TypeOK
  <1>2. \A p \in Posts : Copies(p) \in Nat
    BY <1>1, RowsHaveDates, FS_Subset, FS_CardinalityType DEF Copies
  <1>. QED
    BY <1>2, FeedAssumption DEF Typed, TypeOK, Owed

\* No step but the answers of Likes reads and a restart lets a listener owe more
\* than it did, except by listening again.
LEMMA OwedStep ==
    ASSUME Typed, Accounts, [Next]_vars, ~Relaunch
    PROVE  /\ \A p \in Posts : Owed(p)' + listens[Owner[p]] <= Owed(p) + listens'[Owner[p]]
           /\ \A u \in Users : \A p \in view'[u] : p \in published' /\ Owner[p] = u
  <1>. DEFINE Good == \A p \in Posts : Owed(p)' + listens[Owner[p]] <= Owed(p) + listens'[Owner[p]]
              Views == \A u \in Users : \A p \in view'[u] : p \in published' /\ Owner[p] = u
  <1>0. /\ userGets \in [Users -> Nat] /\ postFresh \in [Users -> Nat]
        /\ postSubs \in [Users -> Nat] /\ listens \in [Users -> Nat]
        /\ likeGets \in [Posts -> Nat] /\ view \in [Users -> SUBSET Posts]
        /\ \A p \in Posts : Owner[p] \in Users
        /\ \A u \in Users : \A p \in view[u] : p \in published /\ Owner[p] = u
        /\ published \in SUBSET Posts
    BY CountTypes DEF Accounts, Typed, TypeOK
  <1>1. ASSUME UNCHANGED <<postFresh, postSubs, view, likeGets, listens>>,
               published \subseteq published'
        PROVE  Good /\ Views
    BY <1>0, <1>1 DEF Owed
  <1>2. ASSUME NEW u \in Users, UserLoaded(u) PROVE Good /\ Views
    <2>1. UNCHANGED <<postSubs, view, likeGets, published>>
      BY <1>2 DEF UserLoaded, server
    <2>2. CASE u \in Profiles
      <3>1. postFresh' = [postFresh EXCEPT ![u] = @ + 1] /\ listens' = [listens EXCEPT ![u] = @ + 1]
        BY <1>2, <2>2 DEF UserLoaded
      <3>. QED
        BY <1>0, <2>1, <3>1 DEF Owed
    <2>3. CASE u \notin Profiles
      BY <1>0, <1>2, <2>1, <2>3 DEF UserLoaded, Owed
    <2>. QED
      BY <2>2, <2>3
  <1>3. ASSUME NEW u \in Users, RaisePosts(u) PROVE Good /\ Views
    <2>1. /\ postFresh[u] > 0
          /\ postFresh' = [postFresh EXCEPT ![u] = @ - 1]
          /\ postSubs' = [postSubs EXCEPT ![u] = @ + 1]
          /\ listens' = listens /\ published' = published
      BY <1>3 DEF RaisePosts, server
    <2>2. /\ view' = [view EXCEPT ![u] = IF postSubs[u] = 0 THEN ServerPosts(u) ELSE @]
          /\ likeGets' = [p \in Posts |-> likeGets[p] + IF p \in view'[u] THEN 1 ELSE 0]
      BY <1>3 DEF RaisePosts, ReadLikes
    <2>3. \A p \in view'[u] : Owner[p] = u /\ p \in published
      BY <1>0, <2>2 DEF ServerPosts
    <2>4. \A v \in Users \ {u} : view'[v] = view[v]
      BY <1>0, <2>2
    <2>5. Views
      BY <1>0, <2>1, <2>3, <2>4
    <2>6. ASSUME NEW p \in Posts, Owner[p] # u
          PROVE  Owed(p)' = Owed(p)
      BY <1>0, <2>1, <2>2, <2>3, <2>4, <2>6 DEF Owed
    <2>7. ASSUME NEW p \in Posts, Owner[p] = u
          PROVE  Owed(p)' <= Owed(p)
      <3>1. postFresh'[u] = postFresh[u] - 1 /\ postSubs'[u] = postSubs[u] + 1
        BY <1>0, <2>1
      <3>2. likeGets'[p] = likeGets[p] + IF p \in view'[u] THEN 1 ELSE 0
        BY <2>2
      <3>3. CASE postSubs[u] = 0
        BY <1>0, <2>7, <3>1, <3>2, <3>3 DEF Owed
      <3>4. CASE postSubs[u] # 0
        <4>1. view'[u] = view[u]
          BY <1>0, <2>2, <3>4
        <4>. QED
          BY <1>0, <2>7, <3>1, <3>2, <4>1 DEF Owed
      <3>. QED
        BY <3>3, <3>4
    <2>8. Good
      <3>1. SUFFICES ASSUME NEW p \in Posts
                     PROVE  Owed(p)' + listens[Owner[p]] <= Owed(p) + listens'[Owner[p]]
        OBVIOUS
      <3>2. listens'[Owner[p]] = listens[Owner[p]] /\ listens[Owner[p]] \in Nat
        BY <1>0, <2>1
      <3>3. Owed(p) \in Nat
        BY CountTypes
      <3>4. CASE Owner[p] = u
        <4>1. Owed(p)' <= Owed(p)
          BY <2>7, <3>4
        <4>2. Owed(p)' \in Int
          <5>1. /\ postFresh'[u] \in Int /\ postSubs'[u] \in Int
            BY <1>0, <2>1
          <5>2. likeGets'[p] \in Int
            BY <1>0, <2>2
          <5>. QED
            BY <3>4, <5>1, <5>2 DEF Owed
        <4>. QED
          BY <3>2, <3>3, <4>1, <4>2
      <3>5. CASE Owner[p] # u
        <4>1. Owed(p)' = Owed(p)
          BY <2>6, <3>5
        <4>. QED
          BY <3>2, <3>3, <4>1
      <3>. QED
        BY <3>4, <3>5
    <2>. QED
      BY <2>5, <2>8
  <1>4. ASSUME NEW u \in Users, PostsChanged(u) PROVE Good /\ Views
    <2>1. /\ view' = [view EXCEPT ![u] = ServerPosts(u)]
          /\ UNCHANGED <<postFresh, postSubs, listens, published>>
      BY <1>4 DEF PostsChanged, server
    <2>2. likeGets' = [p \in Posts |-> likeGets[p] +
                          IF p \in ServerPosts(u) \ view[u] THEN postSubs[u] ELSE 0]
      BY <1>4 DEF PostsChanged, ReadLikes
    <2>3. view[u] \subseteq ServerPosts(u)
      BY <1>0 DEF ServerPosts
    <2>4. \A p \in ServerPosts(u) : Owner[p] = u /\ p \in published
      BY DEF ServerPosts
    <2>5. Views
      BY <1>0, <2>1, <2>4
    <2>6. ASSUME NEW p \in Posts PROVE Owed(p)' = Owed(p)
      <3>1. /\ likeGets'[p] = likeGets[p] + IF p \in ServerPosts(u) \ view[u]
                                           THEN postSubs[u] ELSE 0
            /\ postFresh'[Owner[p]] = postFresh[Owner[p]]
            /\ postSubs'[Owner[p]] = postSubs[Owner[p]]
        BY <2>1, <2>2
      <3>2. CASE Owner[p] # u
        <4>1. view'[Owner[p]] = view[Owner[p]] /\ p \notin ServerPosts(u)
          BY <1>0, <2>1, <2>4, <3>2
        <4>. QED
          BY <1>0, <2>1, <3>1, <4>1 DEF Owed
      <3>3. CASE Owner[p] = u
        <4>1. view'[u] = ServerPosts(u) /\ (p \in ServerPosts(u) <=> p \in published)
          BY <1>0, <2>1, <3>3 DEF ServerPosts
        <4>2. CASE p \in view[u]
          BY <1>0, <2>1, <2>3, <3>1, <3>3, <4>1, <4>2 DEF Owed
        <4>3. CASE p \notin view[u]
          <5>1. CASE p \in published
            BY <1>0, <2>1, <3>1, <3>3, <4>1, <4>3, <5>1 DEF Owed
          <5>2. CASE p \notin published
            BY <1>0, <2>1, <3>1, <3>3, <4>1, <4>3, <5>2 DEF Owed
          <5>. QED
            BY <5>1, <5>2
        <4>. QED
          BY <4>2, <4>3
      <3>. QED
        BY <3>2, <3>3
    <2>. QED
      BY <1>0, <2>1, <2>5, <2>6 DEF Owed
  <1>5. ASSUME NEW u \in Users, PostsListenFails(u) PROVE Good /\ Views
    <2>1. /\ postFresh' = [postFresh EXCEPT ![u] = 0]
          /\ postSubs' = [postSubs EXCEPT ![u] = 0]
          /\ view' = [view EXCEPT ![u] = {}]
          /\ UNCHANGED <<likeGets, listens, published>>
      BY <1>5 DEF PostsListenFails, server
    <2>. QED
      BY <1>0, <2>1 DEF Owed
  <1>6. ASSUME NEW q \in Posts, PostShown(q) \/ PostDropped(q) PROVE Good /\ Views
    <2>1. /\ likeGets' = [likeGets EXCEPT ![q] = @ - 1]
          /\ UNCHANGED <<postFresh, postSubs, view, listens, published>>
      BY <1>6 DEF PostShown, PostDropped, server
    <2>. QED
      BY <1>0, <2>1 DEF Owed
  <1>7. CASE RaiseFollows
    BY <1>1, <1>7 DEF RaiseFollows, server
  <1>8. CASE FollowListenFails \/ \E u \in Users : UserGetFails(u)
    BY <1>1, <1>8 DEF FollowListenFails, UserGetFails, server
  <1>9. ASSUME NEW o \in LikeOps, LikeReadFails(o) \/ LikeRejected(o) PROVE Good /\ Views
    BY <1>1, <1>9 DEF LikeReadFails, LikeRejected, reads, server
  <1>10. CASE Liking
    BY <1>1, <1>10 DEF Liking, postLiked, LikeRead, LikeDone, reads, server
  <1>11. ASSUME NEW u \in Users, EditFollows(u) PROVE Good /\ Views
    BY <1>1, <1>11 DEF EditFollows
  <1>12. ASSUME NEW p \in Posts, Publish(p) PROVE Good /\ Views
    BY <1>1, <1>12 DEF Publish, reads
  <1>13. ASSUME NEW pulled \in BOOLEAN, Refresh(pulled) PROVE Good /\ Views
    BY <1>1, <1>13 DEF Refresh, server
  <1>14. CASE UNCHANGED vars
    BY <1>1, <1>14 DEF vars, reads, server
  <1>. QED
    BY <1>2, <1>3, <1>4, <1>5, <1>6, <1>7, <1>8, <1>9, <1>10, <1>11, <1>12, <1>13, <1>14
       DEF Next, Loading, Failing

LEMMA AccountsNext == Typed /\ Typed' /\ Accounts /\ [Next]_vars => Accounts'
  <1>. SUFFICES ASSUME Typed, Typed', Accounts, [Next]_vars PROVE Accounts'
    OBVIOUS
  <1>0. /\ listens \in [Users -> Nat]
        /\ \A p \in Posts : /\ Owner[p] \in Users
                            /\ Owed(p) \in Nat /\ Copies(p) \in Nat
    BY CountTypes
  <1>1. /\ listens' \in [Users -> Nat] /\ likeGets' \in [Posts -> Nat]
        /\ \A p \in Posts : Owed(p)' \in Nat /\ Copies(p)' \in Nat
    <2>1. /\ postFresh' \in [Users -> Nat] /\ postSubs' \in [Users -> Nat]
          /\ listens' \in [Users -> Nat] /\ likeGets' \in [Posts -> Nat] /\ posts' \in Seq(Row)
      BY DEF Typed, TypeOK
    <2>2. \A p \in Posts : Copies(p)' \in Nat
      BY <2>1, RowsHaveDates, FS_Subset, FS_CardinalityType DEF Copies
    <2>. QED
      BY <1>0, <2>1, <2>2 DEF Owed
  <1>2. CASE Relaunch
    <2>1. /\ posts' = <<>> /\ likeGets' = [p \in Posts |-> 0]
          /\ view' = [u \in Users |-> {}] /\ listens' = [u \in Users |-> 0]
          /\ postFresh' = [u \in Users |-> 0] /\ postSubs' = [u \in Users |-> 0]
      BY <1>2 DEF Relaunch
    <2>2. \A p \in Posts : Owed(p)' = 0
      BY <1>0, <2>1 DEF Owed
    <2>3. \A p \in Posts : Copies(p)' = 0
      BY <2>1, FS_EmptySet DEF Copies
    <2>. QED
      BY <1>0, <2>1, <2>2, <2>3 DEF Accounts
  <1>3. ASSUME ~Relaunch PROVE Accounts'
    <2>1. /\ \A p \in Posts : Owed(p)' + listens[Owner[p]] <= Owed(p) + listens'[Owner[p]]
          /\ \A u \in Users : \A p \in view'[u] : p \in published' /\ Owner[p] = u
      BY <1>3, OwedStep
    <2>2. \A p \in Posts : Owed(p)' <= listens'[Owner[p]]
      BY <1>0, <1>1, <2>1 DEF Accounts
    <2>3. ASSUME ~misplaced', NEW p \in Posts
          PROVE  Copies(p)' + Owed(p)' <= listens'[Owner[p]]
      <3>1. CASE UNCHANGED <<posts, misplaced>>
        <4>1. Copies(p)' = Copies(p) /\ ~misplaced
          BY <2>3, <3>1 DEF Copies
        <4>2. Copies(p) + Owed(p) <= listens[Owner[p]]
          BY <4>1 DEF Accounts
        <4>. QED
          BY <1>0, <1>1, <2>1, <4>1, <4>2
      <3>2. ASSUME NEW q \in Posts, PostShown(q)
            PROVE  Copies(p)' + Owed(p)' <= listens'[Owner[p]]
        <4>1. posts \in Seq(Row) /\ [id |-> q, liked |-> LocalHeart(q)] \in Row
          BY LocalHeartType DEF Typed, TypeOK, Row
        <4>2. Copies(p)' = Copies(p) + IF q = p THEN 1 ELSE 0
          <5>. DEFINE row == [id |-> q, liked |-> LocalHeart(q)]
          <5>1. posts' = SortRows(Reverse(Append(posts, row)))
            BY <3>2 DEF PostShown
          <5>2. row \in Row /\ row.id = q
            BY <4>1
          <5>. HIDE DEF row
          <5>3. Cardinality(Places(posts', p))
                    = Cardinality(Places(posts, p)) + IF row.id = p THEN 1 ELSE 0
            BY <4>1, <5>1, <5>2, ShownRows
          <5>. QED
            BY <5>2, <5>3 DEF Copies, Places
        <4>3. /\ likeGets' = [likeGets EXCEPT ![q] = @ - 1] /\ misplaced' = misplaced
              /\ UNCHANGED <<postFresh, postSubs, view, listens>>
          BY <3>2 DEF PostShown
        <4>4. Owed(p)' = Owed(p) - IF q = p THEN 1 ELSE 0
          <5>1. likeGets \in [Posts -> Nat] /\ postFresh \in [Users -> Nat]
                /\ postSubs \in [Users -> Nat]
            BY CountTypes
          <5>2. likeGets'[p] = likeGets[p] - IF q = p THEN 1 ELSE 0
            BY <4>3, <5>1
          <5>3. /\ postFresh'[Owner[p]] = postFresh[Owner[p]]
                /\ postSubs'[Owner[p]] = postSubs[Owner[p]]
                /\ view'[Owner[p]] = view[Owner[p]]
            BY <4>3
          <5>4. likeGets[p] \in Nat /\ postFresh[Owner[p]] \in Nat /\ postSubs[Owner[p]] \in Nat
            BY <1>0, <5>1
          <5>5. CASE p \in view[Owner[p]]
            BY <5>2, <5>3, <5>4, <5>5 DEF Owed
          <5>6. CASE p \notin view[Owner[p]]
            BY <5>2, <5>3, <5>4, <5>6 DEF Owed
          <5>. QED
            BY <5>5, <5>6
        <4>5. Copies(p) + Owed(p) <= listens[Owner[p]]
          BY <2>3, <4>3 DEF Accounts
        <4>. QED
          BY <1>0, <1>1, <4>2, <4>3, <4>4, <4>5
      <3>3. ASSUME NEW o \in LikeOps, LikeDone(o)
            PROVE  Copies(p)' + Owed(p)' <= listens'[Owner[p]]
        <4>1. Copies(p)' = Copies(p) /\ ~misplaced
          BY <2>3, <3>3, LikedRows DEF Copies
        <4>2. Copies(p) + Owed(p) <= listens[Owner[p]]
          BY <4>1 DEF Accounts
        <4>. QED
          BY <1>0, <1>1, <2>1, <4>1, <4>2
      <3>4. ASSUME NEW pulled \in BOOLEAN, Refresh(pulled)
            PROVE  Copies(p)' + Owed(p)' <= listens'[Owner[p]]
        <4>1. posts' = <<>>
          BY <3>4 DEF Refresh
        <4>2. Copies(p)' = 0
          BY <4>1, FS_EmptySet DEF Copies
        <4>. QED
          BY <1>0, <1>1, <2>2, <4>2
      <3>. QED
        BY <1>3, <3>1, <3>2, <3>3, <3>4, RowSteps
    <2>. QED
      BY <2>1, <2>2, <2>3 DEF Accounts
  <1>. QED
    BY <1>2, <1>3

\* A post is on the page at most as often as getPosts has listened to its owner.
THEOREM CopiesBounded == Spec => []CopiesPerListener
  <1>1. Init => Typed /\ Accounts
    <2>1. Init => Typed
      BY InitTyped
    <2>2. ASSUME Init PROVE Accounts
      <3>1. /\ posts = <<>> /\ likeGets = [p \in Posts |-> 0]
            /\ view = [u \in Users |-> {}] /\ listens = [u \in Users |-> 0]
            /\ postFresh = [u \in Users |-> 0] /\ postSubs = [u \in Users |-> 0]
        BY <2>2 DEF Init, PageLoaded
      <3>2. \A p \in Posts : Owner[p] \in Users
        BY FeedAssumption
      <3>3. \A p \in Posts : Owed(p) = 0
        BY <3>1, <3>2 DEF Owed
      <3>4. \A p \in Posts : Copies(p) = 0
        BY <3>1, FS_EmptySet DEF Copies
      <3>. QED
        BY <3>1, <3>2, <3>3, <3>4 DEF Accounts
    <2>. QED
      BY <2>1, <2>2
  <1>2. Typed /\ Accounts => CopiesPerListener
    <2>. SUFFICES ASSUME Typed, Accounts, ~misplaced, NEW p \in Posts
                  PROVE  Copies(p) + likeGets[p] <= listens[Owner[p]]
      BY DEF CopiesPerListener
    <2>1. /\ postFresh \in [Users -> Nat] /\ postSubs \in [Users -> Nat]
          /\ listens \in [Users -> Nat] /\ likeGets \in [Posts -> Nat]
          /\ Owner[p] \in Users /\ Copies(p) \in Nat
      BY CountTypes
    <2>2. Owed(p) >= likeGets[p] /\ Owed(p) \in Nat
      BY <2>1 DEF Owed
    <2>3. Copies(p) + Owed(p) <= listens[Owner[p]]
      BY DEF Accounts
    <2>. QED
      BY <2>1, <2>2, <2>3
  <1>3. Typed /\ Accounts /\ [Next]_vars => Typed' /\ Accounts'
    BY TypedNext, AccountsNext
  <1>. QED
    BY <1>1, <1>2, <1>3, PTL DEF Spec

----------------------------------------------------------------------------
(* The hearts.  A row is added with the value a read of Likes answers, the *)
(* writes in the queue included; so the heart of the only row of a post is *)
(* the backend's value once no write of the post is in the queue, because  *)
(* the completion of each write puts its value into that row.              *)

HeartsFollow ==
    running /\ failures = 0 /\ ~misplaced =>
        \A p \in Posts, i \in DOMAIN posts :
            posts[i].id = p /\ Copies(p) = 1 => QueuedFor(p) # {} \/ posts[i].liked = stored[p]

\* The rows after PostShown are those before and the one shown.
LEMMA ShownRowIsOld ==
    ASSUME NEW s \in Seq(Row), NEW row \in Row,
           NEW k \in DOMAIN SortRows(Reverse(Append(s, row)))
    PROVE  LET t == SortRows(Reverse(Append(s, row)))
           IN  t[k] = row \/ \E i \in DOMAIN s : t[k] = s[i]
  <1>. DEFINE a == Append(s, row)  r == Reverse(a)
  <1>1. a \in Seq(Row) /\ \A i \in DOMAIN a : a[i] = row \/ \E j \in DOMAIN s : a[i] = s[j]
    <2>1. /\ Append(s, row) \in Seq(Row)
          /\ DOMAIN Append(s, row) = 1..(Len(s) + 1) /\ DOMAIN s = 1..Len(s) /\ Len(s) \in Nat
          /\ \A i \in 1..Len(s) : Append(s, row)[i] = s[i]
          /\ Append(s, row)[Len(s) + 1] = row
      BY AppendProperties
    <2>. QED
      BY <2>1
  <1>. HIDE DEF a
  <1>2. r \in Seq(Row) /\ \A i \in DOMAIN r : \E j \in DOMAIN a : r[i] = a[j]
    <2>1. DOMAIN a = 1..Len(a) /\ Len(a) \in Nat
      BY <1>1
    <2>2. r \in Seq(Row)
      BY <1>1, ReverseRows
    <2>3. DOMAIN r = 1..Len(a) /\ \A i \in 1..Len(a) : r[i] = a[(Len(a) - i) + 1]
      BY <2>1 DEF Reverse
    <2>4. \A i \in 1..Len(a) : (Len(a) - i) + 1 \in DOMAIN a
      BY <2>1
    <2>. QED
      BY <2>2, <2>3, <2>4
  <1>. HIDE DEF r
  <1>3. k \in DOMAIN r
    BY <1>2, SortRowsType DEF a, r
  <1>4. SortRows(r)[k] = r[SortedFrom(r, k)] /\ SortedFrom(r, k) \in DOMAIN r
    BY <1>2, <1>3, SortedFromRank
  <1>5. PICK j \in DOMAIN a : SortRows(r)[k] = a[j]
    BY <1>2, <1>4
  <1>. QED
    BY <1>1, <1>5 DEF a, r

LEMMA PlacesOfPosts ==
    ASSUME Typed, NEW p
    PROVE  /\ Copies(p) = Cardinality(Places(posts, p)) /\ Copies(p) \in Nat
           /\ Copies(p) = 0 => Places(posts, p) = {}
           /\ Copies(p) = 1 => \A i, j \in Places(posts, p) : i = j
  <1>1. posts \in Seq(Row)
    BY DEF Typed, TypeOK
  <1>2. IsFiniteSet(Places(posts, p)) /\ Copies(p) = Cardinality(Places(posts, p))
    BY <1>1, RowsHaveDates, FS_Subset DEF Copies, Places
  <1>. QED
    BY <1>2, FS_CardinalityType, FS_EmptySet, FS_Singleton

LEMMA ShownHearts ==
    ASSUME Typed, HeartsFollow, NEW p \in Posts, PostShown(p)
    PROVE  HeartsFollow'
  <1>. DEFINE row == [id |-> p, liked |-> LocalHeart(p)]
  <1>1. posts \in Seq(Row) /\ row \in Row /\ posts' = SortRows(Reverse(Append(posts, row)))
    BY LocalHeartType DEF Typed, TypeOK, Row, PostShown
  <1>2. /\ UNCHANGED <<stored, writeQ, op, misplaced, running, failures>>
        /\ \A q : QueuedFor(q)' = QueuedFor(q)
    BY DEF PostShown, server, counts, QueuedFor
  <1>3. \A q : Copies(q)' = Copies(q) + IF p = q THEN 1 ELSE 0
    <2>. HIDE DEF row
    <2>1. \A q : Cardinality(Places(posts', q)) =
                    Cardinality(Places(posts, q)) + IF row.id = q THEN 1 ELSE 0
      BY <1>1, ShownRows
    <2>2. row.id = p
      BY DEF row
    <2>. QED
      BY <2>1, <2>2 DEF Copies, Places
  <1>4. QueuedFor(p) = {} => row.liked = stored[p]
    BY DEF LocalHeart
  <1>5. row.id = p
    OBVIOUS
  <1>. HIDE DEF row
  <1>. SUFFICES ASSUME running, failures = 0, ~misplaced, NEW q \in Posts, NEW k \in DOMAIN posts',
                       posts'[k].id = q, Copies(q)' = 1
                PROVE  QueuedFor(q) # {} \/ posts'[k].liked = stored[q]
    BY <1>2 DEF HeartsFollow
  <1>6. posts'[k] = row \/ \E i \in DOMAIN posts : posts'[k] = posts[i]
    BY <1>1, ShownRowIsOld
  <1>7. CASE posts'[k] = row
    BY <1>4, <1>5, <1>7
  <1>8. ASSUME NEW i \in DOMAIN posts, posts'[k] = posts[i]
        PROVE  QueuedFor(q) # {} \/ posts'[k].liked = stored[q]
    <2>1. i \in Places(posts, q) /\ posts[i].id = q
      BY <1>8 DEF Places
    <2>2. Copies(q) # 0 /\ Copies(q) \in Nat
      BY <2>1, PlacesOfPosts
    <2>3. Copies(q) = 1
      BY <1>3, <2>2
    <2>. QED
      BY <1>8, <2>1, <2>3 DEF HeartsFollow
  <1>. QED
    BY <1>6, <1>7, <1>8

LEMMA LikedHearts ==
    ASSUME Typed, HeartsFollow, NEW o \in LikeOps, LikeDone(o)
    PROVE  HeartsFollow'
  <1>. DEFINE row == op[o].row  post == [op[o].post EXCEPT !.liked = WrittenHeart(o)]
  <1>1. /\ op[o] \in InFlight /\ writeQ \in Seq(LikeOps) /\ writeQ # <<>> /\ writeQ[1] = o
        /\ writeQ' = Tail(writeQ) /\ posts \in Seq(Row) /\ stored \in [Posts -> BOOLEAN]
        /\ failures' = failures
    BY QueuedIsInFlight DEF LikeDone, Typed, TypeOK, counts
  <1>2. post.id = op[o].post.id /\ post.liked = WrittenHeart(o) /\ post \in Row /\ op[o].post.id \in Posts
    BY <1>1 DEF InFlight, Row, WrittenHeart
  <1>3. stored' = [stored EXCEPT ![post.id] = WrittenHeart(o)]
        /\ op' = [op EXCEPT ![o] = Idle] /\ op \in [LikeOps -> {Idle} \cup InFlight]
    BY DEF LikeDone, Typed, TypeOK
  <1>4. SUFFICES ASSUME running', failures = 0, ~misplaced', NEW p \in Posts, NEW i \in DOMAIN posts',
                        posts'[i].id = p, Copies(p)' = 1
                 PROVE  QueuedFor(p)' # {} \/ posts'[i].liked = stored'[p]
    BY <1>1 DEF HeartsFollow
  <1>5. /\ running /\ row \in DOMAIN posts
        /\ posts' = [posts EXCEPT ![row] = post]
        /\ ~misplaced /\ posts[row].id = post.id
    BY <1>4 DEF LikeDone
  <1>. HIDE DEF row, post
  <1>6. /\ DOMAIN posts' = DOMAIN posts
        /\ \A k \in DOMAIN posts : posts'[k].id = posts[k].id /\ (k # row => posts'[k] = posts[k])
        /\ posts'[row] = post
    BY <1>1, <1>5
  <1>7. posts[i].id = p /\ Copies(p) = 1
    <2>1. {k \in DOMAIN posts' : posts'[k].id = p} = {k \in DOMAIN posts : posts[k].id = p}
      BY <1>6
    <2>2. Copies(p)' = Copies(p)
      BY <2>1 DEF Copies
    <2>. QED
      BY <1>4, <1>6, <2>2
  <1>8. CASE p = post.id
    <2>1. i \in Places(posts, p) /\ row \in Places(posts, p)
      BY <1>5, <1>6, <1>7, <1>8 DEF Places
    <2>2. i = row
      BY <1>7, <2>1, PlacesOfPosts
    <2>3. stored'[p] = post.liked
      BY <1>1, <1>2, <1>3, <1>8
    <2>. QED
      BY <1>6, <2>2, <2>3
  <1>9. CASE p # post.id
    <2>1. posts'[i] = posts[i]
      BY <1>5, <1>6, <1>7, <1>9
    <2>2. stored'[p] = stored[p]
      BY <1>1, <1>2, <1>3, <1>9
    <2>3. QueuedFor(p) # {} \/ posts[i].liked = stored[p]
      BY <1>4, <1>5, <1>6, <1>7 DEF HeartsFollow
    <2>4. ASSUME NEW j \in QueuedFor(p)
          PROVE  QueuedFor(p)' # {}
      <3>1. j \in DOMAIN writeQ /\ op[writeQ[j]].post.id = p
        BY DEF QueuedFor
      <3>2. j # 1
        BY <1>1, <1>2, <1>9, <3>1
      <3>3. 1 \in DOMAIN writeQ
        BY <1>1
      <3>4. writeQ[j] # o
        BY <1>1, <3>1, <3>2, <3>3 DEF Typed, QueueOK
      <3>5. j - 1 \in DOMAIN writeQ' /\ writeQ'[j - 1] = writeQ[j] /\ writeQ[j] \in LikeOps
        BY <1>1, <3>1, <3>2
      <3>6. op'[writeQ[j]] = op[writeQ[j]]
        BY <1>3, <3>4, <3>5
      <3>7. op'[writeQ'[j - 1]].post.id = p
        BY <3>1, <3>5, <3>6
      <3>. QED
        BY <3>5, <3>7 DEF QueuedFor
    <2>. QED
      BY <2>1, <2>2, <2>3, <2>4
  <1>. QED
    BY <1>8, <1>9

\* No other step takes a write from the queue, or touches a heart, unless it fails.
LEMMA HeartSteps ==
    ASSUME Typed, [Next]_vars
    PROVE  \/ \E p \in Posts : PostShown(p)
           \/ \E o \in LikeOps : LikeDone(o)
           \/ posts' = <<>>
           \/ failures' # 0
           \/ /\ UNCHANGED <<posts, stored, misplaced, running>>
              /\ failures' = failures
              /\ \A q : QueuedFor(q) \subseteq QueuedFor(q)'
  <1>. DEFINE Quiet == /\ UNCHANGED <<posts, stored, misplaced, running>>
                       /\ failures' = failures
                       /\ \A q : QueuedFor(q) \subseteq QueuedFor(q)'
  <1>0. /\ writeQ \in Seq(LikeOps) /\ op \in [LikeOps -> {Idle} \cup InFlight] /\ failures \in Nat
        /\ \A i \in DOMAIN writeQ : writeQ[i] \in LikeOps /\ op[writeQ[i]] # Idle
    BY DEF Typed, TypeOK, QueueOK
  <1>1. ASSUME UNCHANGED <<posts, stored, misplaced, running, failures, writeQ, op>>
        PROVE  Quiet
    BY <1>1 DEF QueuedFor
  <1>2. ASSUME NEW u \in Users, \/ RaiseFollows \/ UserLoaded(u) \/ RaisePosts(u) \/ PostsChanged(u)
                                \/ EditFollows(u)
        PROVE  UNCHANGED <<posts, stored, misplaced, running, failures, writeQ, op>>
    BY <1>2 DEF RaiseFollows, UserLoaded, RaisePosts, PostsChanged, EditFollows, server, page, counts
  <1>3. ASSUME UNCHANGED vars \/ \E p \in Posts : Publish(p)
        PROVE  UNCHANGED <<posts, stored, misplaced, running, failures, writeQ, op>>
    BY <1>3 DEF vars, Publish, server, page, counts
  <1>4. CASE Failing
    <2>1. failures' = failures + 1
      BY <1>4 DEF Failing, FollowListenFails, UserGetFails, PostsListenFails, PostDropped,
                  LikeReadFails, LikeRejected
    <2>. QED
      BY <1>0, <2>1
  <1>5. ASSUME NEW o \in LikeOps, NEW row \in DOMAIN posts, postLiked(o, row)
        PROVE  Quiet
    <2>1. op[o] = Idle /\ \E tap : op' = [op EXCEPT ![o] = tap]
      BY <1>5 DEF postLiked
    <2>2. UNCHANGED <<posts, stored, misplaced, running, failures, writeQ>>
      BY <1>5 DEF postLiked, server, page, counts
    <2>3. \A i \in DOMAIN writeQ : op'[writeQ[i]] = op[writeQ[i]]
      BY <1>0, <2>1
    <2>. QED
      BY <2>2, <2>3 DEF QueuedFor
  <1>6. ASSUME NEW o \in LikeOps, LikeRead(o)
        PROVE  Quiet
    <2>1. /\ op' = [op EXCEPT ![o].stage = "write"] /\ op[o] \in InFlight
          /\ writeQ' = Append(writeQ, o)
          /\ UNCHANGED <<posts, stored, misplaced, running, failures>>
      BY <1>0, <1>6 DEF LikeRead, page, counts
    <2>2. \A x \in LikeOps : op'[x] = op[x] \/ (x = o /\ op'[x].post = op[x].post)
      BY <1>0, <2>1 DEF InFlight
    <2>3. \A i \in DOMAIN writeQ : i \in DOMAIN writeQ' /\ writeQ'[i] = writeQ[i]
      BY <1>0, <2>1
    <2>4. \A i \in DOMAIN writeQ : op'[writeQ'[i]].post = op[writeQ[i]].post
      BY <1>0, <2>2, <2>3
    <2>. QED
      BY <2>1, <2>3, <2>4 DEF QueuedFor
  <1>7. CASE Relaunch \/ \E pulled \in BOOLEAN : Refresh(pulled)
    BY <1>7 DEF Relaunch, Refresh
  <1>8. CASE Loading
    BY <1>1, <1>2, <1>8, FeedAssumption DEF Loading
  <1>9. CASE Liking
    BY <1>5, <1>6, <1>9 DEF Liking
  <1>. QED
    BY <1>1, <1>2, <1>3, <1>4, <1>7, <1>8, <1>9 DEF Next

LEMMA HeartsStep == Typed /\ HeartsFollow /\ [Next]_vars => HeartsFollow'
  <1>. SUFFICES ASSUME Typed, HeartsFollow, [Next]_vars PROVE HeartsFollow'
    OBVIOUS
  <1>1. CASE posts' = <<>>
    BY <1>1 DEF HeartsFollow
  <1>2. CASE failures' # 0
    BY <1>2 DEF HeartsFollow
  <1>3. CASE /\ UNCHANGED <<posts, stored, misplaced, running>>
             /\ failures' = failures
             /\ \A q : QueuedFor(q) \subseteq QueuedFor(q)'
    <2>1. \A q : Copies(q)' = Copies(q)
      BY <1>3 DEF Copies
    <2>. QED
      BY <1>3, <2>1 DEF HeartsFollow
  <1>. QED
    BY <1>1, <1>2, <1>3, HeartSteps, ShownHearts, LikedHearts

\* When no like is in progress and nothing has failed, the heart of a post shown once
\* is the value in its Likes document, whatever taps, refreshes and restarts came before.
THEOREM HeartsAgree == Spec => []IdleHeartsAgree
  <1>1. Init => Typed /\ HeartsFollow
    BY InitTyped DEF Init, PageLoaded, HeartsFollow
  <1>2. Typed /\ HeartsFollow /\ [Next]_vars => Typed' /\ HeartsFollow'
    BY TypedNext, HeartsStep
  <1>3. Typed /\ HeartsFollow => IdleHeartsAgree
    <2>. SUFFICES ASSUME Typed, HeartsFollow, running, failures = 0, ~misplaced,
                         \A o \in LikeOps : op[o] = Idle,
                         NEW i \in DOMAIN posts, Copies(posts[i].id) = 1
                  PROVE  posts[i].liked = stored[posts[i].id]
      BY DEF IdleHeartsAgree
    <2>1. QueuedFor(posts[i].id) = {}
      BY DEF QueuedFor, Typed, TypeOK, QueueOK
    <2>2. posts[i] \in Row
      BY DEF Typed, TypeOK
    <2>3. posts[i].id \in Posts
      BY <2>2 DEF Row
    <2>. QED
      BY <2>1, <2>3 DEF HeartsFollow
  <1>. QED
    BY <1>1, <1>2, <1>3, PTL DEF Spec
=============================================================================
