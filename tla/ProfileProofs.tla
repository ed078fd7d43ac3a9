--------------------------- MODULE ProfileProofs ---------------------------
(***************************************************************************)
(* For any users, posts, uses and troubles: the page, its button and the   *)
(* callbacks keep their types; a page has the posts of its listener's view *)
(* once each; an idle button tells what Follows/Me holds; and no follow    *)
(* touches another.                                                        *)
(*                                                                         *)
(* What a snapshot adds is neither in the view nor refused, and all rows   *)
(* are one or the other: so it is not on the page yet, and turning the     *)
(* array over loses and doubles nothing (Paged).                           *)
(*                                                                         *)
(* Replayed computes along a sequence.  What it makes of a longer one is   *)
(* proved by the least place where two rows of its values would differ     *)
(* (UpTo).                                                                 *)
(*                                                                         *)
(* A title is compared with what this device reads, the document behind    *)
(* the queue, which does not change when the backend takes a write.  Told  *)
(* follows that from the newest write of a user to its completion on the   *)
(* main queue and from there to the title.  Failures included, a write     *)
(* changes its own user's key only, but for a setData over a document that *)
(* is there (OneFounder).                                                  *)
(***************************************************************************)
EXTENDS Profile, SequenceTheorems, WellFoundedInduction, TLAPS

Paged ==
    /\ stage \in [Users -> Stages]
    /\ view \in [Users -> SUBSET Nat] /\ refused \in [Users -> SUBSET Nat]
    /\ posts \in [Users -> Seq(Nat)]
    /\ \A u \in Users : /\ view[u] \subseteq Dates(u)
                        /\ refused[u] \subseteq Dates(u)
                        /\ posts[u] \in Seq(Dates(u))
    /\ PageHasItsPosts

----------------------------------------------------------------------------
(* Arrays. *)

LEMMA ReverseFacts ==
  ASSUME NEW S, NEW s \in Seq(S)
  PROVE  /\ Reverse(s) \in Seq(S) /\ Len(Reverse(s)) = Len(s)
         /\ \A i \in 1..Len(s) : Reverse(s)[i] = s[Len(s) - i + 1]
         /\ Range(Reverse(s)) = Range(s)
         /\ IsInjective(s) => IsInjective(Reverse(s))
  <1>1. Len(s) \in Nat /\ DOMAIN s = 1..Len(s)
    OBVIOUS
  <1>2. \A i \in 1..Len(s) : Len(s) - i + 1 \in 1..Len(s)
    BY <1>1
  <1>3. \A i \in 1..Len(s) : s[i] \in S
    BY <1>1
  <1>4. Reverse(s) = [i \in 1..Len(s) |-> s[Len(s) - i + 1]]
    BY <1>1 DEF Reverse
  <1>5. Reverse(s) \in Seq(S) /\ Len(Reverse(s)) = Len(s) /\ DOMAIN Reverse(s) = 1..Len(s)
    BY <1>1, <1>2, <1>3, <1>4
  <1>6. \A i \in 1..Len(s) : Reverse(s)[i] = s[Len(s) - i + 1]
    BY <1>4
  <1>7. Range(Reverse(s)) = Range(s)
    <2>1. \A i \in 1..Len(s) : Len(s) - (Len(s) - i + 1) + 1 = i
      BY <1>1
    <2>2. \A i \in 1..Len(s) : Reverse(s)[Len(s) - i + 1] = s[i]
      BY <1>2, <1>6, <2>1
    <2>3. ASSUME NEW i \in 1..Len(s)
          PROVE  Reverse(s)[i] \in Range(s)
      BY <1>1, <1>2, <1>6 DEF Range
    <2>4. ASSUME NEW i \in 1..Len(s)
          PROVE  s[i] \in Range(Reverse(s))
      BY <1>2, <1>5, <2>2 DEF Range
    <2>5. Range(Reverse(s)) \subseteq Range(s)
      BY <1>5, <2>3, Zenon DEF Range
    <2>6. Range(s) \subseteq Range(Reverse(s))
      BY <1>1, <2>4, Zenon DEF Range
    <2>. QED
      BY <2>5, <2>6
  <1>8. ASSUME IsInjective(s)
        PROVE  IsInjective(Reverse(s))
    <2>. SUFFICES ASSUME NEW i \in 1..Len(s), NEW j \in 1..Len(s),
                         Reverse(s)[i] = Reverse(s)[j]
                  PROVE  i = j
      BY <1>5 DEF IsInjective
    <2>1. Len(s) - i + 1 = Len(s) - j + 1
      BY <1>1, <1>2, <1>6, <1>8 DEF IsInjective
    <2>. QED
      BY <2>1, <1>1
  <1>. QED
    BY <1>5, <1>6, <1>7, <1>8

LEMMA JoinFacts ==
  ASSUME NEW S, NEW s \in Seq(S), NEW t \in Seq(S)
  PROVE  /\ s \o t \in Seq(S)
         /\ Range(s \o t) = Range(s) \cup Range(t)
         /\ IsInjective(s) /\ IsInjective(t) /\ Range(s) \cap Range(t) = {}
            => IsInjective(s \o t)
  <1>1. /\ Len(s) \in Nat /\ DOMAIN s = 1..Len(s)
        /\ Len(t) \in Nat /\ DOMAIN t = 1..Len(t)
    OBVIOUS
  <1>2. /\ s \o t \in Seq(S) /\ DOMAIN (s \o t) = 1..(Len(s) + Len(t))
        /\ \A i \in 1..(Len(s) + Len(t)) :
               (s \o t)[i] = IF i <= Len(s) THEN s[i] ELSE t[i - Len(s)]
    OBVIOUS
  <1>3. \A i \in 1..(Len(s) + Len(t)) : \/ i \in 1..Len(s) /\ (s \o t)[i] = s[i]
                                        \/ /\ i > Len(s) /\ i - Len(s) \in 1..Len(t)
                                           /\ (s \o t)[i] = t[i - Len(s)]
    BY <1>1, <1>2
  <1>4. \A i \in 1..Len(s) : i \in 1..(Len(s) + Len(t)) /\ (s \o t)[i] = s[i]
    BY <1>1, <1>2
  <1>5. \A i \in 1..Len(t) : /\ i + Len(s) \in 1..(Len(s) + Len(t))
                             /\ (s \o t)[i + Len(s)] = t[i]
    BY <1>1, <1>2
  <1>6. Range(s \o t) = Range(s) \cup Range(t)
    <2>1. Range(s \o t) \subseteq Range(s) \cup Range(t)
      BY <1>1, <1>2, <1>3 DEF Range
    <2>2. Range(s) \subseteq Range(s \o t)
      BY <1>1, <1>2, <1>4 DEF Range
    <2>3. Range(t) \subseteq Range(s \o t)
      BY <1>1, <1>2, <1>5 DEF Range
    <2>. QED
      BY <2>1, <2>2, <2>3
  <1>7. ASSUME IsInjective(s), IsInjective(t), Range(s) \cap Range(t) = {}
        PROVE  IsInjective(s \o t)
    <2>. SUFFICES ASSUME NEW i \in 1..(Len(s) + Len(t)), NEW j \in 1..(Len(s) + Len(t)),
                         (s \o t)[i] = (s \o t)[j]
                  PROVE  i = j
      BY <1>2 DEF IsInjective
    <2>1. \A k \in 1..Len(s), l \in 1..Len(t) : s[k] # t[l]
      BY <1>1, <1>7 DEF Range
    <2>2. CASE i \in 1..Len(s) /\ j \in 1..Len(s)
      BY <2>2, <1>1, <1>4, <1>7 DEF IsInjective
    <2>3. CASE i > Len(s) /\ j > Len(s)
      <3>1. /\ i - Len(s) \in 1..Len(t) /\ j - Len(s) \in 1..Len(t)
            /\ t[i - Len(s)] = t[j - Len(s)]
        BY <2>3, <1>1, <1>3
      <3>2. i - Len(s) = j - Len(s)
        BY <3>1, <1>1, <1>7 DEF IsInjective
      <3>. QED
        BY <3>2, <1>1
    <2>. QED
      BY <2>1, <2>2, <2>3, <1>3
  <1>. QED
    BY <1>2, <1>6, <1>7

\* A snapshot adds posts of the user that are neither in the view nor refused, each once.
LEMMA AddedFacts ==
  ASSUME NEW u \in Users, NEW added \in Added(u)
  PROVE  /\ added \in Seq(Dates(u)) /\ IsInjective(added)
         /\ Range(added) \cap (view[u] \cup refused[u]) = {}
  <1>. DEFINE had == view[u] \cup refused[u]
  <1>1. MaxPosts[u] \in Nat /\ Dates(u) \subseteq Nat
    BY ProfileAssumption DEF Dates
  <1>2. PICK m \in 0..MaxPosts[u] : added \in [1..m -> Dates(u) \ had]
    BY DEF Added, SeqOf
  <1>3. added \in Seq(Dates(u)) /\ DOMAIN added = 1..m
    BY <1>1, <1>2
  <1>4. Range(added) \cap had = {}
    BY <1>2, <1>3 DEF Range
  <1>5. \A i, j \in 1..m : i < j => added[i] < added[j]
    BY <1>3 DEF Added
  <1>6. \A i \in 1..m : added[i] \in Nat
    BY <1>1, <1>2
  <1>7. IsInjective(added)
    <2>. SUFFICES ASSUME NEW i \in 1..m, NEW j \in 1..m, added[i] = added[j]
                  PROVE  i = j
      BY <1>3 DEF IsInjective
    <2>. QED
      BY <1>1, <1>5, <1>6
  <1>. QED
    BY <1>3, <1>4, <1>7

\* The array after a snapshot has the posts it had and the added ones.
LEMMA TurnedFacts ==
  ASSUME NEW S, NEW rows \in Seq(S), NEW added \in Seq(S),
         IsInjective(rows), IsInjective(added), Range(added) \cap Range(rows) = {}
  PROVE  /\ Turned(rows, added) \in Seq(S) /\ IsInjective(Turned(rows, added))
         /\ Range(Turned(rows, added)) = Range(rows) \cup Range(added)
  <1>1. /\ rows \o added \in Seq(S) /\ IsInjective(rows \o added)
        /\ Range(rows \o added) = Range(rows) \cup Range(added)
    BY JoinFacts
  <1>. QED
    BY <1>1, ReverseFacts DEF Turned

----------------------------------------------------------------------------
(* The page. *)

LEMMA SnapshotPaged ==
  ASSUME Paged, NEW u \in Users, NEW added \in Added(u), NEW removed \in SUBSET view[u],
         Snapshot(u, added, removed), stage' \in [Users -> Stages]
  PROVE  Paged'
  <1>. DEFINE new == Turned(posts[u], added)
              seen == (view[u] \cup Range(added)) \ removed
              lost == refused[u] \cup removed
  <1>1. /\ added \in Seq(Dates(u)) /\ IsInjective(added)
        /\ Range(added) \cap (view[u] \cup refused[u]) = {}
    BY AddedFacts
  <1>2. /\ posts[u] \in Seq(Dates(u)) /\ IsInjective(posts[u]) /\ view[u] \subseteq Range(posts[u])
        /\ Range(posts[u]) \subseteq view[u] \cup refused[u]
        /\ view[u] \subseteq Dates(u) /\ refused[u] \subseteq Dates(u)
    BY DEF Paged, PageHasItsPosts
  <1>3. Range(added) \cap Range(posts[u]) = {}
    BY <1>1, <1>2
  <1>4. new \in Seq(Dates(u)) /\ IsInjective(new) /\ Range(new) = Range(posts[u]) \cup Range(added)
    BY <1>1, <1>2, <1>3, TurnedFacts
  <1>5. Range(added) \subseteq Dates(u) /\ Dates(u) \subseteq Nat
    BY <1>1, ProfileAssumption DEF Range, Dates
  <1>6. /\ seen \subseteq Dates(u) /\ lost \subseteq Dates(u)
        /\ seen \subseteq Range(new) /\ Range(new) \subseteq seen \cup lost
    BY <1>2, <1>4, <1>5
  <1>7. /\ view' = [view EXCEPT ![u] = seen] /\ posts' = [posts EXCEPT ![u] = new]
        /\ refused' = [refused EXCEPT ![u] = lost]
    BY DEF Snapshot
  <1>8. seen \in SUBSET Nat /\ lost \in SUBSET Nat /\ new \in Seq(Nat)
    BY <1>4, <1>5, <1>6
  <1>. HIDE DEF new, seen, lost
  <1>9. /\ view' \in [Users -> SUBSET Nat] /\ refused' \in [Users -> SUBSET Nat]
        /\ posts' \in [Users -> Seq(Nat)]
    BY <1>7, <1>8 DEF Paged
  <1>10. ASSUME NEW v \in Users
         PROVE  /\ view'[v] \subseteq Dates(v) /\ refused'[v] \subseteq Dates(v)
                /\ posts'[v] \in Seq(Dates(v))
                /\ IsInjective(posts'[v]) /\ view'[v] \subseteq Range(posts'[v])
                /\ Range(posts'[v]) \subseteq view'[v] \cup refused'[v]
    <2>1. CASE v = u
      <3>1. view'[v] = seen /\ posts'[v] = new /\ refused'[v] = lost
        BY <2>1, <1>7 DEF Paged
      <3>. QED
        BY <3>1, <2>1, <1>4, <1>6
    <2>2. CASE v # u
      <3>1. view'[v] = view[v] /\ posts'[v] = posts[v] /\ refused'[v] = refused[v]
        BY <2>2, <1>7 DEF Paged
      <3>. QED
        BY <3>1 DEF Paged, PageHasItsPosts
    <2>. QED
      BY <2>1, <2>2
  <1>. QED
    BY <1>9, <1>10 DEF Paged, PageHasItsPosts, Dates

\* Pages without rows, when the process starts.
LEMMA EmptyPaged ==
  ASSUME NEW v, NEW r, NEW p,
         v = [u \in Users |-> {}], p = [u \in Users |-> <<>>],
         r \in [Users -> SUBSET Nat]
  PROVE  /\ v \in [Users -> SUBSET Nat] /\ p \in [Users -> Seq(Nat)]
         /\ \A u \in Users : /\ v[u] \subseteq Dates(u) /\ p[u] \in Seq(Dates(u))
                             /\ IsInjective(p[u]) /\ v[u] \subseteq Range(p[u])
                             /\ Range(p[u]) \subseteq v[u] \cup r[u]
  <1>1. IsInjective(<<>>) /\ Range(<<>>) = {}
    BY DEF IsInjective, Range
  <1>2. \A S : <<>> \in Seq(S)
    OBVIOUS
  <1>. QED
    BY <1>1, <1>2

LEMMA PagesSame ==
  ASSUME Paged, UNCHANGED <<view, refused, posts>>, stage' \in [Users -> Stages]
  PROVE  Paged'
  BY DEF Paged, PageHasItsPosts, Dates

LEMMA StepPaged ==
  ASSUME Paged, [ProfileNext]_profileVars
  PROVE  Paged'
  <1>1. CASE UNCHANGED profileVars
    BY <1>1, PagesSame DEF Paged, profileVars, pages
  <1>2. ASSUME NEW u \in Users, UserAnswered(u) \/ PageFails(u)
        PROVE  Paged'
    BY <1>2, PagesSame DEF Paged, UserAnswered, PageFails, Stages
  <1>3. ASSUME NEW u \in Users, FirstSnapshot(u)
        PROVE  Paged'
    <2>1. stage' \in [Users -> Stages]
      BY <1>3 DEF FirstSnapshot, Paged, Stages
    <2>2. {} \in SUBSET view[u]
      OBVIOUS
    <2>. QED
      BY <1>3, <2>1, <2>2, SnapshotPaged DEF FirstSnapshot
  <1>4. ASSUME NEW u \in Users, PostsChanged(u)
        PROVE  Paged'
    <2>1. stage' \in [Users -> Stages]
      BY <1>4 DEF PostsChanged, Paged
    <2>. QED
      BY <1>4, <2>1, SnapshotPaged DEF PostsChanged
  <1>5. CASE \/ \E u \in Users : ChangeView(u)
             \/ Buttons
    BY <1>5, PagesSame DEF Paged, ChangeView, Buttons, pages
  <1>6. CASE PagesRestart
    <2>1. /\ stage' = [u \in Users |-> "asked"] /\ view' = [u \in Users |-> {}]
          /\ posts' = [u \in Users |-> <<>>] /\ refused' = refused
      BY <1>6 DEF PagesRestart
    <2>2. refused \in [Users -> SUBSET Nat] /\ \A u \in Users : refused[u] \subseteq Dates(u)
      BY DEF Paged
    <2>3. /\ view' \in [Users -> SUBSET Nat] /\ posts' \in [Users -> Seq(Nat)]
          /\ \A u \in Users : /\ view'[u] \subseteq Dates(u) /\ posts'[u] \in Seq(Dates(u))
                              /\ IsInjective(posts'[u]) /\ view'[u] \subseteq Range(posts'[u])
                              /\ Range(posts'[u]) \subseteq view'[u] \cup refused'[u]
      BY <2>1, <2>2, EmptyPaged
    <2>. QED
      BY <2>1, <2>2, <2>3 DEF Paged, PageHasItsPosts, Stages, Dates
  <1>. QED
    BY <1>1, <1>2, <1>3, <1>4, <1>5, <1>6 DEF ProfileNext

LEMMA PagedHolds == ProfileSpec => []Paged
  <1>1. ProfileInit => Paged
    <2>1. ASSUME ProfileInit
          PROVE  Paged
      <3>1. /\ stage = [u \in Users |-> "asked"] /\ view = [u \in Users |-> {}]
            /\ posts = [u \in Users |-> <<>>] /\ refused = [u \in Users |-> {}]
        BY <2>1 DEF ProfileInit
      <3>2. refused \in [Users -> SUBSET Nat] /\ \A u \in Users : refused[u] \subseteq Dates(u)
        BY <3>1
      <3>. QED
        BY <3>1, <3>2, EmptyPaged DEF Paged, PageHasItsPosts, Stages
    <2>. QED
      BY <2>1
  <1>2. Paged /\ [ProfileNext]_profileVars => Paged'
    BY StepPaged
  <1>. QED
    BY <1>1, <1>2, PTL DEF ProfileSpec

\* UserProfileController.getPostFS: the page has every post of the listener's view,
\* none twice, and beyond them only refused ones, for any posts in any snapshots.
THEOREM PagesHavePosts == ProfileSpec => []PageHasItsPosts
  <1>1. Paged => PageHasItsPosts
    BY DEF Paged
  <1>. QED
    BY <1>1, PagedHolds, PTL

----------------------------------------------------------------------------
(* The button. *)

LEMMA Sequel ==
  ASSUME NEW S, NEW s \in Seq(S)
  PROVE  /\ s # <<>> => Head(s) \in S /\ Tail(s) \in Seq(S)
         /\ \A x \in S : Append(s, x) \in Seq(S)
  OBVIOUS

LEMMA Reads ==
  ASSUME NEW f \in [Users -> Nat], NEW u \in Users
  PROVE  /\ [f EXCEPT ![u] = @ + 1] \in [Users -> Nat]
         /\ f[u] > 0 => [f EXCEPT ![u] = @ - 1] \in [Users -> Nat]
  OBVIOUS

LEMMA NoReads ==
  /\ [u \in Users |-> 0] \in [Users -> Nat]
  /\ [u \in Users |-> ""] \in [Users -> Titles]
  /\ <<>> \in Seq(Write) /\ <<>> \in Seq(Callback)
  BY DEF Titles

LEMMA UsedTyped ==
  ASSUME TypeOK, Used
  PROVE  uses' \in Nat
  BY DEF TypeOK, Used

LEMMA ReloadTyped ==
  ASSUME TypeOK, NEW u \in Users, Reload(u)
  PROVE  TypeOK'
  <1>1. uses' \in Nat /\ known' \in SUBSET Users
    BY UsedTyped DEF TypeOK, Reload
  <1>2. title \in [Users -> Titles] /\ looks \in [Users -> Nat]
    BY DEF TypeOK
  <1>3. [title EXCEPT ![u] = "Edit Profile"] \in [Users -> Titles]
    BY <1>2 DEF Titles
  <1>4. title' \in [Users -> Titles] /\ looks' \in [Users -> Nat]
    <2>1. \/ title' = [title EXCEPT ![u] = "Edit Profile"] /\ looks' = looks
          \/ title' = title /\ looks' = [looks EXCEPT ![u] = @ + 1]
      BY DEF Reload
    <2>2. [looks EXCEPT ![u] = @ + 1] \in [Users -> Nat]
      BY <1>2, Reads
    <2>. QED
      BY <2>1, <2>2, <1>2, <1>3, Zenon
  <1>. QED
    BY <1>1, <1>4 DEF TypeOK, Reload

LEMMA PressTyped ==
  ASSUME TypeOK, NEW u \in Users, Press(u)
  PROVE  TypeOK'
  <1>1. uses' \in Nat
    BY UsedTyped DEF Press
  <1>2. [kind |-> "delete", user |-> u, live |-> TRUE] \in Write
    BY DEF Write
  <1>3. queue \in Seq(Write) /\ presses \in [Users -> Nat]
    BY DEF TypeOK
  <1>4. queue' \in Seq(Write)
    BY <1>2, <1>3, Sequel DEF Press
  <1>5. presses' \in [Users -> Nat]
    BY <1>3, Reads DEF Press
  <1>. QED
    BY <1>1, <1>4, <1>5 DEF TypeOK, Press

LEMMA AnsweredTyped ==
  ASSUME TypeOK, NEW u \in Users, LookAnswered(u) \/ PressAnswered(u)
  PROVE  TypeOK'
  <1>1. CASE LookAnswered(u)
    <2>1. looks' \in [Users -> Nat]
      BY <1>1 DEF TypeOK, LookAnswered
    <2>2. [what |-> "look", user |-> u, saw |-> LookSees(u)] \in Callback
      BY DEF Callback, LookSees
    <2>. QED
      BY <1>1, <2>1, <2>2, Sequel DEF TypeOK, LookAnswered, counts
  <1>2. CASE PressAnswered(u)
    <2>. DEFINE saw == IF Local.exists THEN "document" ELSE "nothing"
    <2>1. presses' \in [Users -> Nat]
      BY <1>2 DEF TypeOK, PressAnswered
    <2>2. [what |-> "press", user |-> u, saw |-> saw] \in Callback
      BY DEF Callback
    <2>. QED
      BY <1>2, <2>1, <2>2, Sequel DEF TypeOK, PressAnswered, counts
  <1>. QED
    BY <1>1, <1>2

LEMMA CallbackTyped ==
  ASSUME TypeOK, LookRuns \/ PressRuns \/ DoneRuns
  PROVE  TypeOK'
  <1>1. main # <<>> /\ main' = Tail(main)
    BY DEF LookRuns, PressRuns, DoneRuns, NextCallback
  <1>2. Head(main) \in Callback /\ main' \in Seq(Callback)
    BY <1>1, Sequel DEF TypeOK
  <1>3. Head(main).user \in Users
    BY <1>2 DEF Callback
  <1>4. CASE LookRuns
    <2>1. title' \in [Users -> Titles]
      BY <1>3, <1>4 DEF TypeOK, LookRuns, Titles
    <2>. QED
      BY <1>2, <1>4, <2>1 DEF TypeOK, LookRuns, counts
  <1>5. CASE PressRuns
    <2>1. PICK kind \in {"update", "set"} :
              queue' = Append(queue, [kind |-> kind, user |-> Head(main).user, live |-> TRUE])
      BY <1>5 DEF PressRuns
    <2>2. [kind |-> kind, user |-> Head(main).user, live |-> TRUE] \in Write
      BY <1>3 DEF Write
    <2>3. queue' \in Seq(Write)
      BY <2>1, <2>2, Sequel DEF TypeOK
    <2>4. (replaced \/ (Head(main).saw = "nothing" /\ Local.exists)) \in BOOLEAN
      BY Zenon
    <2>5. replaced' = (replaced \/ (Head(main).saw = "nothing" /\ Local.exists))
      BY <1>5 DEF PressRuns
    <2>6. replaced' \in BOOLEAN
      BY <2>4, <2>5, Zenon
    <2>. QED
      BY <1>2, <1>5, <2>3, <2>6 DEF TypeOK, PressRuns, counts
  <1>6. CASE DoneRuns
    <2>1. title' \in [Users -> Titles]
      BY <1>3, <1>6 DEF TypeOK, DoneRuns, Titles
    <2>. QED
      BY <1>2, <1>6, <2>1 DEF TypeOK, DoneRuns, counts
  <1>. QED
    BY <1>4, <1>5, <1>6

LEMMA CommittedTyped ==
  ASSUME TypeOK, Committed
  PROVE  TypeOK'
  <1>. DEFINE w == Head(queue)
  <1>1. queue # <<>> /\ w \in Write /\ queue' \in Seq(Write)
    BY Sequel DEF TypeOK, Committed
  <1>2. w.kind \in {"set", "update", "delete"} /\ w.user \in Users
    BY <1>1 DEF Write
  <1>3. doc' = Written(doc, w) /\ doc \in Document
    BY DEF Committed, TypeOK
  <1>. DEFINE done == [what |-> "done", user |-> w.user, saw |-> w.kind]
  <1>4. done \in Callback
    BY <1>2 DEF Callback
  <1>5. main' = Append(main, done) \/ main' = main
    BY DEF Committed
  <1>. HIDE DEF w, done
  <1>6. doc' \in Document
    BY <1>2, <1>3 DEF Written, Document
  <1>7. main' \in Seq(Callback)
    BY <1>4, <1>5, Sequel DEF TypeOK
  <1>. QED
    BY <1>1, <1>6, <1>7 DEF TypeOK, Committed, counts

LEMMA FailsTyped ==
  ASSUME TypeOK, Fails
  PROVE  TypeOK'
  <1>1. failures' \in Nat
    BY DEF TypeOK, Fails
  <1>2. looks' \in [Users -> Nat] /\ presses' \in [Users -> Nat] /\ queue' \in Seq(Write)
    <2>1. looks \in [Users -> Nat] /\ presses \in [Users -> Nat] /\ queue \in Seq(Write)
      BY DEF TypeOK
    <2>2. queue # <<>> => Tail(queue) \in Seq(Write)
      BY <2>1, Sequel
    <2>3. ASSUME NEW u \in Users
          PROVE  /\ looks[u] > 0 => [looks EXCEPT ![u] = @ - 1] \in [Users -> Nat]
                 /\ presses[u] > 0 => [presses EXCEPT ![u] = @ - 1] \in [Users -> Nat]
      BY <2>1, Reads
    <2>. QED
      BY <2>1, <2>2, <2>3 DEF Fails
  <1>. QED
    BY <1>1, <1>2 DEF TypeOK, Fails

LEMMA RestartTyped ==
  ASSUME TypeOK, Restart
  PROVE  TypeOK'
  <1>1. queue' \in Seq(Write)
    <2>1. queue \in Seq(Write) /\ Len(queue) \in Nat /\ DOMAIN queue = 1..Len(queue)
      BY DEF TypeOK
    <2>2. ASSUME NEW w \in Write
          PROVE  [w EXCEPT !.live = FALSE] \in Write
      BY DEF Write
    <2>3. \A i \in 1..Len(queue) : queue[i] \in Write
      BY <2>1
    <2>4. queue' = [i \in 1..Len(queue) |-> [queue[i] EXCEPT !.live = FALSE]]
      BY <2>1 DEF Restart
    <2>. QED
      BY <2>1, <2>2, <2>3, <2>4
  <1>2. /\ main' \in Seq(Callback)
        /\ looks' \in [Users -> Nat] /\ presses' \in [Users -> Nat]
        /\ title' \in [Users -> Titles]
    <2>1. /\ main' = <<>> /\ looks' = [u \in Users |-> 0]
          /\ presses' = [u \in Users |-> 0] /\ title' = [u \in Users |-> ""]
      BY DEF Restart
    <2>2. main' \in Seq(Callback)
      BY <2>1, NoReads, Zenon
    <2>3. looks' \in [Users -> Nat] /\ presses' \in [Users -> Nat]
      BY <2>1, NoReads, Zenon
    <2>4. title' \in [Users -> Titles]
      BY <2>1, NoReads, Zenon
    <2>. QED
      BY <2>2, <2>3, <2>4
  <1>3. restarts' \in Nat /\ known' \in SUBSET Users
    <2>1. restarts' = restarts + 1 /\ known' = {}
      BY Zenon DEF Restart
    <2>2. restarts \in Nat
      BY DEF TypeOK
    <2>. QED
      BY <2>1, <2>2
  <1>4. UNCHANGED <<doc, replaced, uses, failures>>
    BY DEF Restart
  <1>. QED
    BY <1>1, <1>2, <1>3, <1>4 DEF TypeOK

LEMMA StepTyped ==
  ASSUME TypeOK, [ProfileNext]_profileVars
  PROVE  TypeOK'
  <1>1. CASE UNCHANGED vars
    BY <1>1 DEF TypeOK, vars, counts
  <1>2. ASSUME NEW u \in Users, UserAnswered(u)
        PROVE  TypeOK'
    BY <1>1, <1>2 DEF UserAnswered
  <1>3. ASSUME NEW u \in Users, PageFails(u)
        PROVE  TypeOK'
    BY <1>3 DEF TypeOK, PageFails
  <1>4. ASSUME NEW u \in Users, FirstSnapshot(u) \/ PostsChanged(u) \/ ChangeView(u)
        PROVE  TypeOK'
    BY <1>4, ReloadTyped DEF FirstSnapshot, PostsChanged, ChangeView, Snapshot
  <1>5. CASE Buttons
    BY <1>5, PressTyped, AnsweredTyped, CallbackTyped, CommittedTyped, FailsTyped DEF Buttons
  <1>6. CASE PagesRestart
    BY <1>6, RestartTyped DEF PagesRestart
  <1>. QED
    BY <1>1, <1>2, <1>3, <1>4, <1>5, <1>6 DEF ProfileNext, profileVars

LEMMA InitTyped == ProfileInit => TypeOK
  <1>. SUFFICES ASSUME Init
                PROVE  TypeOK
    BY DEF ProfileInit
  <1>1. /\ queue = <<>> /\ main = <<>>
        /\ looks = [u \in Users |-> 0] /\ presses = [u \in Users |-> 0]
        /\ title = [u \in Users |-> ""]
    BY DEF Init
  <1>2. /\ queue \in Seq(Write) /\ main \in Seq(Callback)
        /\ looks \in [Users -> Nat] /\ presses \in [Users -> Nat]
        /\ title \in [Users -> Titles]
    BY <1>1, NoReads, Zenon
  <1>. QED
    BY <1>2 DEF Init, TypeOK

\* The pages, their buttons, the queue and the callbacks keep their types.
THEOREM TypeCorrect == ProfileSpec => []PagesTypeOK
  <1>1. ProfileInit => TypeOK
    BY InitTyped
  <1>2. TypeOK /\ [ProfileNext]_profileVars => TypeOK'
    BY StepTyped
  <1>3. Paged /\ TypeOK => PagesTypeOK
    BY DEF Paged, PagesTypeOK
  <1>. QED
    BY <1>1, <1>2, <1>3, PagedHolds, PTL DEF ProfileSpec

----------------------------------------------------------------------------
(* Recursive functions: what one computes along a sequence is proved by     *)
(* the least place where it would go wrong.                                 *)

LEMMA LeastNumber ==
  ASSUME NEW T \in SUBSET Nat, T # {}
  PROVE  \E n \in T : \A m \in T : n <= m
  <1>. DEFINE R == OpToRel(<, Nat)
  <1>1. IsWellFoundedOn(R, Nat)
    BY NatLessThanWellFounded
  <1>. HIDE DEF R
  <1>2. PICK n \in T : \A m \in T : <<m, n>> \notin R
    BY <1>1, WFMin
  <1>3. \A m \in T : ~(m < n)
    BY <1>2 DEF R, OpToRel
  <1>. QED
    BY <1>3

\* A set of numbers with 0 and with the successor of each of its members below n has
\* all numbers up to n.
LEMMA UpTo ==
  ASSUME NEW n \in Nat, NEW T, 0 \in T, \A i \in 1..n : i - 1 \in T => i \in T
  PROVE  0..n \subseteq T
  <1>. DEFINE gaps == {i \in 0..n : i \notin T}
  <1>1. SUFFICES ASSUME gaps # {}
                 PROVE  FALSE
    OBVIOUS
  <1>2. gaps \in SUBSET Nat
    OBVIOUS
  <1>3. PICK i \in gaps : \A j \in gaps : i <= j
    BY <1>1, <1>2, LeastNumber
  <1>4. i \in 1..n /\ i - 1 \in 0..n /\ ~(i <= i - 1)
    BY <1>3
  <1>5. i - 1 \in T
    BY <1>3, <1>4
  <1>. QED
    BY <1>3, <1>4, <1>5

\* A value computed in n steps from a first one: the row of what the steps give is there.
IsRow(f, n, first, step) == f[0] = first /\ \A i \in 1..n : f[i] = step[i][f[i - 1]]

LEMMA RowExists ==
  ASSUME NEW n \in Nat, NEW V, NEW first \in V, NEW step \in [1..n -> [V -> V]]
  PROVE  \E f \in [0..n -> V] : IsRow(f, n, first, step)
  <1>. DEFINE Row(k, f) == f[0] = first /\ \A i \in 1..k : f[i] = step[i][f[i - 1]]
              done == {k \in 0..n : \E f \in [0..n -> V] : Row(k, f)}
  <1>1. 0 \in done
    <2>. DEFINE f == [i \in 0..n |-> first]
    <2>1. f \in [0..n -> V] /\ f[0] = first
      OBVIOUS
    <2>. HIDE DEF f
    <2>2. Row(0, f) /\ 0 \in 0..n
      BY <2>1
    <2>. HIDE DEF Row
    <2>. QED
      BY <2>1, <2>2
  <1>2. ASSUME NEW k \in 1..n, k - 1 \in done
        PROVE  k \in done
    <2>1. PICK f \in [0..n -> V] : Row(k - 1, f)
      BY <1>2
    <2>2. f[k - 1] \in V /\ step[k][f[k - 1]] \in V
      OBVIOUS
    <2>. DEFINE g == [f EXCEPT ![k] = step[k][f[k - 1]]]
    <2>3. g \in [0..n -> V] /\ g[0] = first
      BY <2>1, <2>2
    <2>4. g[k] = step[k][g[k - 1]] /\ k - 1 \in 0..n /\ k # k - 1
      BY <2>2
    <2>5. ASSUME NEW i \in 1..k
          PROVE  g[i] = step[i][g[i - 1]]
      <3>1. CASE i = k
        BY <3>1, <2>4
      <3>2. CASE i # k
        <4>1. i \in 1..(k - 1) /\ i \in 0..n /\ i - 1 \in 0..n /\ i - 1 # k
          BY <3>2
        <4>2. g[i] = f[i] /\ g[i - 1] = f[i - 1]
          BY <3>2, <4>1
        <4>. QED
          BY <2>1, <4>1, <4>2
      <3>. QED
        BY <3>1, <3>2
    <2>. HIDE DEF g
    <2>6. Row(k, g) /\ k \in 0..n
      BY <2>3, <2>5
    <2>. HIDE DEF Row
    <2>. QED
      BY <2>3, <2>6
  <1>3. n \in done
    <2>1. 0..n \subseteq done
      <3>. HIDE DEF done
      <3>. QED
        BY <1>1, <1>2, UpTo
    <2>. QED
      BY <2>1
  <1>. QED
    BY <1>3 DEF IsRow

----------------------------------------------------------------------------
(* Follows/Me behind the queue. *)

LEMMA WrittenTyped ==
  ASSUME NEW d \in Document, NEW w \in Write
  PROVE  Written(d, w) \in Document
  <1>1. d.exists \in BOOLEAN /\ d.keys \subseteq Users /\ w.user \in Users
    BY DEF Document, Write
  <1>2. d = [exists |-> d.exists, keys |-> d.keys]
    BY DEF Document
  <1>3. /\ [exists |-> TRUE, keys |-> {w.user}] \in Document
        /\ [d EXCEPT !.keys = @ \cup {w.user}] \in Document
        /\ [d EXCEPT !.keys = @ \ {w.user}] \in Document
    BY <1>1, <1>2 DEF Document
  <1>. QED
    BY <1>3 DEF Written

\* The documents between d and what d is after n writes.
ReplayRow(d, writes, n, row) ==
    /\ row[0] = d
    /\ \A i \in 1..n : row[i] = Written(row[i - 1], writes[i])

\* Written looks at the kind and the user of a write only.
Alike(w, x) == w.kind = x.kind /\ w.user = x.user

LEMMA WrittenAlike ==
  ASSUME NEW d, NEW w, NEW x, Alike(w, x)
  PROVE  Written(d, w) = Written(d, x)
  BY DEF Alike, Written

LEMMA RowsAlike ==
  ASSUME NEW n \in Nat, NEW d, NEW s, NEW t, NEW row, NEW other,
         ReplayRow(d, s, n, row), ReplayRow(d, t, n, other),
         \A i \in 1..n : Alike(s[i], t[i])
  PROVE  row[n] = other[n]
  <1>. DEFINE same == {i \in 0..n : row[i] = other[i]}
  <1>1. 0 \in same
    BY DEF ReplayRow
  <1>2. ASSUME NEW i \in 1..n, i - 1 \in same
        PROVE  i \in same
    <2>1. row[i - 1] = other[i - 1] /\ i \in 0..n
      BY <1>2
    <2>2. row[i] = Written(row[i - 1], s[i]) /\ other[i] = Written(other[i - 1], t[i])
      BY DEF ReplayRow
    <2>3. Written(row[i - 1], s[i]) = Written(row[i - 1], t[i])
      BY WrittenAlike
    <2>. QED
      BY <2>1, <2>2, <2>3
  <1>3. 0..n \subseteq same
    <2>. HIDE DEF same
    <2>. QED
      BY <1>1, <1>2, UpTo
  <1>. QED
    BY <1>3

LEMMA ReplayedIsARow ==
  ASSUME NEW d \in Document, NEW writes \in Seq(Write)
  PROVE  \E row \in [0..Len(writes) -> Document] :
             ReplayRow(d, writes, Len(writes), row) /\ Replayed(d, writes) = row[Len(writes)]
  <1>. DEFINE n == Len(writes)
              step == [i \in 1..n |-> [e \in Document |-> Written(e, writes[i])]]
              Replay(f) == [i \in 0..n |-> IF i = 0 THEN d ELSE Written(f[i - 1], writes[i])]
              after == CHOOSE f : f = Replay(f)
  <1>1. n \in Nat /\ \A i \in 1..n : writes[i] \in Write
    OBVIOUS
  <1>2. step \in [1..n -> [Document -> Document]]
    <2>1. ASSUME NEW i \in 1..n, NEW e \in Document
          PROVE  Written(e, writes[i]) \in Document
      BY <1>1, WrittenTyped
    <2>. QED
      BY <2>1
  <1>3. PICK row \in [0..n -> Document] : IsRow(row, n, d, step)
    <2>. HIDE DEF step, n
    <2>. QED
      BY <1>1, <1>2, RowExists, Zenon
  <1>4. \A i \in 1..n : row[i - 1] \in Document
    <2>1. \A i \in 1..n : i - 1 \in 0..n
      BY <1>1
    <2>. HIDE DEF n
    <2>. QED
      BY <2>1
  <1>5. ReplayRow(d, writes, n, row)
    BY <1>3, <1>4 DEF ReplayRow, IsRow
  <1>6. row = Replay(row)
    <2>1. ASSUME NEW i \in 0..n
          PROVE  row[i] = IF i = 0 THEN d ELSE Written(row[i - 1], writes[i])
      <3>1. i = 0 \/ i \in 1..n
        BY <1>1
      <3>. QED
        BY <1>1, <1>5, <3>1 DEF ReplayRow
    <2>. HIDE DEF n
    <2>. QED
      BY <2>1
  <1>7. after = Replay(after)
    <2>. HIDE DEF Replay
    <2>. QED
      BY <1>6
  <1>8. Replayed(d, writes) = after[n]
    BY DEF Replayed
  <1>9. ReplayRow(d, writes, n, after)
    <2>. HIDE DEF after
    <2>1. Replay(after)[0] = d
      BY <1>1
    <2>2. ASSUME NEW i \in 1..n
          PROVE  Replay(after)[i] = Written(after[i - 1], writes[i])
      BY <1>1
    <2>. HIDE DEF Replay
    <2>. QED
      BY <1>7, <2>1, <2>2 DEF ReplayRow
  <1>10. after[n] = row[n]
    <2>. HIDE DEF after, n
    <2>. QED
      BY <1>1, <1>5, <1>9, RowsAlike DEF Alike
  <1>. QED
    BY <1>5, <1>8, <1>10

\* Any such row tells what the writes come to.
LEMMA RowTells ==
  ASSUME NEW d \in Document, NEW writes \in Seq(Write), NEW n, n = Len(writes),
         NEW row, ReplayRow(d, writes, n, row)
  PROVE  row[n] = Replayed(d, writes)
  <1>1. PICK other : ReplayRow(d, writes, n, other) /\ Replayed(d, writes) = other[n]
    BY ReplayedIsARow
  <1>2. n \in Nat
    OBVIOUS
  <1>. QED
    BY <1>1, <1>2, RowsAlike DEF Alike

LEMMA ReplayTyped ==
  ASSUME NEW d \in Document, NEW writes \in Seq(Write)
  PROVE  Replayed(d, writes) \in Document
  <1>1. PICK row \in [0..Len(writes) -> Document] : Replayed(d, writes) = row[Len(writes)]
    BY ReplayedIsARow
  <1>2. Len(writes) \in 0..Len(writes)
    OBVIOUS
  <1>. QED
    BY <1>1, <1>2

LEMMA ReplayNone ==
  ASSUME NEW d \in Document
  PROVE  Replayed(d, <<>>) = d
  <1>1. <<>> \in Seq(Write) /\ Len(<<>>) = 0
    OBVIOUS
  <1>2. \E row \in [0..Len(<<>>) -> Document] :
            ReplayRow(d, <<>>, Len(<<>>), row) /\ Replayed(d, <<>>) = row[Len(<<>>)]
    BY <1>1, ReplayedIsARow, Zenon
  <1>. QED
    BY <1>1, <1>2 DEF ReplayRow

\* What a read sees changes with a write as soon as it is queued, ...
LEMMA ReplayLonger ==
  ASSUME NEW d \in Document, NEW writes \in Seq(Write), NEW w \in Write
  PROVE  Replayed(d, Append(writes, w)) = Written(Replayed(d, writes), w)
  <1>. DEFINE n == Len(writes)
              more == Append(writes, w)
  <1>1. /\ n \in Nat /\ more \in Seq(Write) /\ Len(more) = n + 1 /\ more[n + 1] = w
        /\ \A i \in 1..n : more[i] = writes[i]
    OBVIOUS
  <1>. HIDE DEF more
  <1>2. PICK m \in Nat : m = n + 1
    BY <1>1
  <1>3. PICK row : ReplayRow(d, more, m, row) /\ Replayed(d, more) = row[m]
    <2>1. \E row : ReplayRow(d, more, Len(more), row) /\ Replayed(d, more) = row[Len(more)]
      BY <1>1, ReplayedIsARow
    <2>. QED
      BY <1>1, <1>2, <2>1
  <1>4. ReplayRow(d, writes, n, row)
    <2>1. row[0] = d
      BY <1>3 DEF ReplayRow
    <2>2. ASSUME NEW i \in 1..n
          PROVE  row[i] = Written(row[i - 1], writes[i])
      <3>1. i \in 1..m /\ more[i] = writes[i]
        BY <1>1, <1>2
      <3>. QED
        BY <1>3, <3>1 DEF ReplayRow
    <2>. QED
      BY <2>1, <2>2 DEF ReplayRow
  <1>5. row[n] = Replayed(d, writes)
    BY <1>4, RowTells
  <1>6. row[m] = Written(row[n], w)
    <2>1. m \in 1..m /\ m - 1 = n /\ more[m] = w
      BY <1>1, <1>2
    <2>2. row[m] = Written(row[m - 1], more[m])
      BY <1>3, <2>1 DEF ReplayRow
    <2>. QED
      BY <2>1, <2>2
  <1>. QED
    BY <1>3, <1>5, <1>6 DEF more

\* ... and not when it reaches the backend, ...
LEMMA ReplayFirst ==
  ASSUME NEW d \in Document, NEW writes \in Seq(Write), writes # <<>>
  PROVE  Replayed(Written(d, Head(writes)), Tail(writes)) = Replayed(d, writes)
  <1>. DEFINE n == Len(writes)
              rest == Tail(writes)
              e == Written(d, Head(writes))
  <1>1. /\ n \in Nat \ {0} /\ rest \in Seq(Write) /\ Len(rest) = n - 1
        /\ Head(writes) = writes[1] /\ writes[1] \in Write
        /\ \A i \in 1..(n - 1) : rest[i] = writes[i + 1]
    OBVIOUS
  <1>. HIDE DEF rest
  <1>2. PICK row : ReplayRow(d, writes, n, row) /\ Replayed(d, writes) = row[n]
    BY ReplayedIsARow
  <1>3. e \in Document
    BY <1>1, WrittenTyped
  <1>4. PICK m \in Nat : m = n - 1
    BY <1>1
  <1>5. row[1] = e
    <2>1. 1 \in 1..n /\ 1 - 1 = 0
      BY <1>1
    <2>2. row[1] = Written(row[1 - 1], writes[1]) /\ row[0] = d
      BY <1>2, <2>1 DEF ReplayRow
    <2>. QED
      BY <1>1, <2>1, <2>2
  <1>. HIDE DEF e, n
  <1>. DEFINE after == [i \in 0..m |-> row[i + 1]]
  <1>6. ReplayRow(e, rest, m, after)
    <2>1. after[0] = e
      BY <1>4, <1>5
    <2>2. ASSUME NEW i \in 1..m
          PROVE  after[i] = Written(after[i - 1], rest[i])
      <3>1. i + 1 \in 1..n /\ i + 1 - 1 = i /\ i \in 0..m /\ i - 1 \in 0..m /\ i - 1 + 1 = i
        BY <1>1, <1>4
      <3>2. row[i + 1] = Written(row[i + 1 - 1], writes[i + 1])
        BY <1>2, <3>1 DEF ReplayRow
      <3>3. rest[i] = writes[i + 1]
        BY <1>1, <1>4
      <3>4. after[i] = row[i + 1] /\ after[i - 1] = row[i]
        BY <3>1
      <3>. QED
        BY <3>1, <3>2, <3>3, <3>4, Zenon
    <2>. HIDE DEF after
    <2>. QED
      BY <2>1, <2>2 DEF ReplayRow
  <1>7. after[m] = row[n]
    BY <1>1, <1>4
  <1>8. after[m] = Replayed(e, rest)
    <2>. HIDE DEF after
    <2>. QED
      BY <1>1, <1>3, <1>4, <1>6, RowTells
  <1>. QED
    BY <1>2, <1>7, <1>8 DEF e, rest

\* ... nor with the process.
LEMMA ReplayAlike ==
  ASSUME NEW d \in Document, NEW s \in Seq(Write), NEW t \in Seq(Write), Len(t) = Len(s),
         \A i \in 1..Len(s) : Alike(s[i], t[i])
  PROVE  Replayed(d, t) = Replayed(d, s)
  <1>1. PICK row : ReplayRow(d, s, Len(s), row) /\ Replayed(d, s) = row[Len(s)]
    BY ReplayedIsARow
  <1>2. PICK other : ReplayRow(d, t, Len(s), other) /\ Replayed(d, t) = other[Len(s)]
    BY ReplayedIsARow
  <1>3. Len(s) \in Nat
    OBVIOUS
  <1>. QED
    BY <1>1, <1>2, <1>3, RowsAlike

----------------------------------------------------------------------------
(* What is under way between a write and the title. *)

\* A callback that will title the button of its page, and what it will say.
Telling(c) == \/ c.what = "look" /\ c.saw # "nothing"
              \/ c.what = "done" /\ c.saw # "set"
Unfollows(c) == c.saw \in {"key", "update"}

\* A write of u whose completion will title the button.
Awaited(u) == \E i \in DOMAIN queue : queue[i].live /\ queue[i].user = u /\ queue[i].kind # "set"

\* A document that will be there once the queue is written: there already, or by the
\* one setData of the queue, which no updateData precedes.
Founded ==
    /\ doc.keys # {} => doc.exists
    /\ Local.keys # {} => Local.exists
    /\ Local.exists <=> doc.exists \/ \E i \in DOMAIN queue : queue[i].kind = "set"
    /\ \A i \in DOMAIN queue :
           IF queue[i].kind = "set"
           THEN /\ ~doc.exists
                /\ \A j \in DOMAIN queue : queue[j].kind = "set" => i = j
           ELSE doc.exists \/ \E j \in 1..(i - 1) : queue[j].kind = "set"

\* Whoever knows of the document has seen it there.
Grounded ==
    /\ \A i \in DOMAIN main :
           Telling(main[i]) \/ main[i].saw = "document" => Local.exists
    /\ \A u \in Users : title[u] \in {"Follow", "Unfollow"} => Local.exists

\* What this process has written is behind what an earlier one left.
LiveLast ==
    \A i, j \in DOMAIN queue : i < j /\ queue[i].live => queue[j].live

\* The newest write of a user, and the document where there is none, tell what
\* this device reads of it.
WritesTell ==
    \A u \in Users :
        /\ \A i \in DOMAIN queue :
               /\ queue[i].user = u
               /\ \A j \in DOMAIN queue : j > i => queue[j].user # u
               => (u \in Local.keys <=> queue[i].kind # "delete")
        /\ (\A i \in DOMAIN queue : queue[i].user # u) => (u \in Local.keys <=> u \in doc.keys)

\* Unless a write is awaited, the newest callback of a page tells it too ...
MainTells ==
    \A u \in Users : \A i \in DOMAIN main :
        /\ main[i].user = u /\ Telling(main[i]) /\ ~Awaited(u)
        /\ \A j \in DOMAIN main : j > i /\ main[j].user = u => ~Telling(main[j])
        => (u \in Local.keys <=> Unfollows(main[i]))

\* ... and the title, where no callback is waiting.
TitlesTell ==
    \A u \in Users :
        /\ ~Awaited(u)
        /\ \A i \in DOMAIN main : main[i].user = u => ~Telling(main[i])
        => /\ title[u] = "Unfollow" => u \in Local.keys
           /\ title[u] = "Follow" => u \notin Local.keys

Told == ~replaced /\ failures = 0 =>
            Founded /\ Grounded /\ LiveLast /\ WritesTell /\ MainTells /\ TitlesTell

LEMMA QueueParts ==
  ASSUME TypeOK
  PROVE  /\ doc \in Document /\ queue \in Seq(Write)
         /\ Len(queue) \in Nat /\ DOMAIN queue = 1..Len(queue)
         /\ main \in Seq(Callback) /\ Len(main) \in Nat /\ DOMAIN main = 1..Len(main)
         /\ \A i \in DOMAIN queue : queue[i] \in Write
         /\ \A i \in DOMAIN main : main[i] \in Callback
         /\ \A i \in DOMAIN main : main[i].user \in Users
         /\ Local \in Document
  <1>1. /\ doc \in Document /\ queue \in Seq(Write) /\ main \in Seq(Callback)
    BY DEF TypeOK
  <1>2. Local \in Document
    BY <1>1, ReplayTyped DEF Local
  <1>3. \A c \in Callback : c.user \in Users
    BY DEF Callback
  <1>4. \A i \in DOMAIN main : main[i] \in Callback
    BY <1>1
  <1>. QED
    BY <1>1, <1>2, <1>3, <1>4

\* Steps of the pages and of the main queue leave the writes as they are.
LEMMA QueueKept ==
  ASSUME doc' = doc, queue' = queue, Founded, LiveLast, WritesTell
  PROVE  /\ Local' = Local /\ \A u \in Users : Awaited(u)' <=> Awaited(u)
         /\ Founded' /\ LiveLast' /\ WritesTell'
  <1>1. Local' = Local
    BY DEF Local
  <1>2. \A u \in Users : Awaited(u)' <=> Awaited(u)
    BY DEF Awaited
  <1>3. Founded'
    BY <1>1 DEF Founded
  <1>4. LiveLast'
    BY DEF LiveLast
  <1>5. WritesTell'
    BY <1>1 DEF WritesTell
  <1>. QED
    BY <1>1, <1>2, <1>3, <1>4, <1>5

\* A callback comes that tells what this device reads, or tells nothing.
LEMMA MainLonger ==
  ASSUME TypeOK, Grounded, MainTells, TitlesTell, NEW c \in Callback,
         main' = Append(main, c), title' = title, Local' = Local,
         Telling(c) \/ c.saw = "document" => Local.exists,
         \A u \in Users : (u = c.user /\ Telling(c)) \/ (Awaited(u)' <=> Awaited(u)),
         \A u \in Users :
             u = c.user /\ Telling(c) /\ ~Awaited(u)' => (u \in Local.keys <=> Unfollows(c))
  PROVE  Grounded' /\ MainTells' /\ TitlesTell'
  <1>. DEFINE n == Len(main)
  <1>1. /\ n \in Nat /\ DOMAIN main = 1..n /\ DOMAIN main' = 1..(n + 1)
        /\ main'[n + 1] = c /\ \A i \in 1..n : main'[i] = main[i]
        /\ \A i \in 1..n : main[i].user \in Users
    BY QueueParts
  <1>2. c.user \in Users
    BY DEF Callback
  <1>. HIDE DEF n
  <1>3. Grounded'
    BY <1>1 DEF Grounded
  <1>4. MainTells'
    <2>. SUFFICES ASSUME NEW u \in Users, NEW i \in 1..(n + 1),
                         main'[i].user = u, Telling(main'[i]), ~Awaited(u)',
                         \A j \in 1..(n + 1) : j > i /\ main'[j].user = u => ~Telling(main'[j])
                  PROVE  u \in Local.keys <=> Unfollows(main'[i])
      BY <1>1 DEF MainTells
    <2>1. CASE i = n + 1
      <3>1. main'[i] = c /\ c.user = u
        BY <1>1, <2>1
      <3>. QED
        BY <3>1
    <2>2. CASE i # n + 1
      <3>1. i \in 1..n /\ main'[i] = main[i] /\ n + 1 \in 1..(n + 1) /\ n + 1 > i
        BY <1>1, <2>2
      <3>2. ~(u = c.user /\ Telling(c))
        BY <1>1, <3>1
      <3>3. ~Awaited(u)
        BY <3>2
      <3>4. ASSUME NEW j \in 1..n, j > i, main[j].user = u
            PROVE  ~Telling(main[j])
        <4>1. j \in 1..(n + 1) /\ main'[j] = main[j]
          BY <1>1
        <4>. QED
          BY <3>4, <4>1
      <3>. QED
        BY <1>1, <3>1, <3>3, <3>4 DEF MainTells
    <2>. QED
      BY <2>1, <2>2
  <1>5. TitlesTell'
    <2>. SUFFICES ASSUME NEW u \in Users, ~Awaited(u)',
                         \A i \in 1..(n + 1) : main'[i].user = u => ~Telling(main'[i])
                  PROVE  /\ title[u] = "Unfollow" => u \in Local.keys
                         /\ title[u] = "Follow" => u \notin Local.keys
      BY <1>1 DEF TitlesTell
    <2>1. n + 1 \in 1..(n + 1) /\ \A i \in 1..n : i \in 1..(n + 1)
      BY <1>1
    <2>2. ~(u = c.user /\ Telling(c)) /\ \A i \in 1..n : main[i].user = u => ~Telling(main[i])
      BY <1>1, <2>1
    <2>. QED
      BY <1>1, <2>2 DEF TitlesTell
  <1>. QED
    BY <1>3, <1>4, <1>5

\* Callbacks that tell nothing may go, titles that tell nothing come, and a write is
\* awaited wherever the document changes.
LEMMA MainFewer ==
  ASSUME TypeOK, Founded, Grounded, MainTells, TitlesTell, NEW k \in {0, 1},
         Len(main') \in Nat, Len(main') = Len(main) - k, DOMAIN main' = 1..Len(main'),
         \A i \in 1..Len(main') : main'[i] = main[i + k],
         k = 1 => ~Telling(main[1]),
         \A u \in Users : title'[u] = title[u] \/ title'[u] \notin {"Follow", "Unfollow"},
         Local.exists => Local'.exists,
         Local.exists => \A u \in Users :
             \/ Awaited(u)'
             \/ (Awaited(u)' <=> Awaited(u)) /\ (u \in Local'.keys <=> u \in Local.keys)
  PROVE  Grounded' /\ MainTells' /\ TitlesTell'
  <1>. DEFINE n == Len(main)
              m == Len(main')
  <1>1. /\ n \in Nat /\ m \in Nat /\ DOMAIN main = 1..n /\ m = n - k
        /\ \A i \in 1..n : main[i].user \in Users
    BY QueueParts
  <1>2. DOMAIN main' = 1..m /\ \A i \in 1..m : main'[i] = main[i + k] /\ i + k \in 1..n
    BY <1>1
  <1>. HIDE DEF n, m
  <1>3. Grounded'
    BY <1>1, <1>2 DEF Grounded
  <1>4. MainTells'
    <2>. SUFFICES ASSUME NEW u \in Users, NEW i \in 1..m,
                         main'[i].user = u, Telling(main'[i]), ~Awaited(u)',
                         \A j \in 1..m : j > i /\ main'[j].user = u => ~Telling(main'[j])
                  PROVE  u \in Local'.keys <=> Unfollows(main'[i])
      BY <1>2 DEF MainTells
    <2>1. main'[i] = main[i + k] /\ i + k \in 1..n /\ main[i + k].user = u
      BY <1>1, <1>2
    <2>2. Local.exists
      BY <1>1, <2>1 DEF Grounded
    <2>3. ~Awaited(u) /\ (u \in Local'.keys <=> u \in Local.keys)
      BY <2>2
    <2>4. ASSUME NEW j \in 1..n, j > i + k, main[j].user = u
          PROVE  ~Telling(main[j])
      <3>1. j - k \in 1..m /\ j - k > i /\ j - k + k = j
        BY <1>1, <2>4
      <3>. QED
        BY <1>2, <2>1, <2>4, <3>1
    <2>. QED
      BY <1>1, <2>1, <2>3, <2>4 DEF MainTells
  <1>5. TitlesTell'
    <2>. SUFFICES ASSUME NEW u \in Users, ~Awaited(u)', title'[u] = title[u],
                         title[u] \in {"Follow", "Unfollow"},
                         \A i \in 1..m : main'[i].user = u => ~Telling(main'[i])
                  PROVE  /\ title[u] = "Unfollow" => u \in Local'.keys
                         /\ title[u] = "Follow" => u \notin Local'.keys
      BY <1>2 DEF TitlesTell
    <2>1. Local.exists
      BY DEF Grounded
    <2>2. ~Awaited(u) /\ (u \in Local'.keys <=> u \in Local.keys)
      BY <2>1
    <2>3. ASSUME NEW j \in 1..n, main[j].user = u
          PROVE  ~Telling(main[j])
      <3>1. CASE k = 1 /\ j = 1
        BY <3>1
      <3>2. CASE ~(k = 1 /\ j = 1)
        <4>1. j - k \in 1..m /\ j - k + k = j
          BY <1>1, <3>2
        <4>. QED
          BY <1>2, <2>3, <4>1
      <3>. QED
        BY <3>1, <3>2
    <2>. QED
      BY <1>1, <2>2, <2>3 DEF TitlesTell
  <1>. QED
    BY <1>3, <1>4, <1>5

LEMMA MainSame ==
  ASSUME TypeOK, Founded, Grounded, MainTells, TitlesTell, main' = main,
         \A u \in Users : title'[u] = title[u] \/ title'[u] \notin {"Follow", "Unfollow"},
         Local.exists => Local'.exists,
         Local.exists => \A u \in Users :
             \/ Awaited(u)'
             \/ (Awaited(u)' <=> Awaited(u)) /\ (u \in Local'.keys <=> u \in Local.keys)
  PROVE  Grounded' /\ MainTells' /\ TitlesTell'
  <1>1. PICK k \in {0, 1} : k = 0
    OBVIOUS
  <1>2. /\ Len(main') \in Nat /\ Len(main') = Len(main) - k /\ DOMAIN main' = 1..Len(main')
        /\ \A i \in 1..Len(main') : main'[i] = main[i + k]
    BY <1>1, QueueParts
  <1>3. k # 1
    BY <1>1
  <1>. QED
    BY <1>2, <1>3, MainFewer

\* The oldest callback titles the button of its page.
LEMMA TitleTold ==
  ASSUME TypeOK, Founded, Grounded, MainTells, TitlesTell, Local' = Local,
         \A u \in Users : Awaited(u)' <=> Awaited(u),
         main # <<>>, main' = Tail(main), Telling(main[1]),
         title' = [title EXCEPT ![main[1].user] =
                       IF Unfollows(main[1]) THEN "Unfollow" ELSE "Follow"]
  PROVE  Grounded' /\ MainTells' /\ TitlesTell'
  <1>. DEFINE n == Len(main)
              m == Len(main')
              c == main[1]
  <1>1. /\ n \in Nat /\ m \in Nat /\ DOMAIN main = 1..n /\ m = n - 1 /\ 1 \in 1..n
        /\ \A i \in 1..n : main[i].user \in Users
        /\ DOMAIN main' = 1..m /\ \A i \in 1..m : main'[i] = main[i + 1] /\ i + 1 \in 1..n
    BY QueueParts
  <1>2. c.user \in Users /\ Telling(c) /\ Local.exists
    BY <1>1 DEF Grounded
  <1>3. /\ title \in [Users -> Titles]
        /\ title'[c.user] = IF Unfollows(c) THEN "Unfollow" ELSE "Follow"
        /\ \A u \in Users : u # c.user => title'[u] = title[u]
    BY <1>2 DEF TypeOK
  <1>. HIDE DEF n, m
  <1>4. Grounded'
    BY <1>1, <1>2 DEF Grounded
  <1>5. ASSUME NEW j \in 1..n, j > 1
        PROVE  j - 1 \in 1..m /\ main'[j - 1] = main[j]
    <2>1. j - 1 \in 1..m /\ j - 1 + 1 = j
      BY <1>1, <1>5
    <2>. QED
      BY <1>1, <2>1
  <1>6. MainTells'
    <2>. SUFFICES ASSUME NEW u \in Users, NEW i \in 1..m,
                         main'[i].user = u, Telling(main'[i]), ~Awaited(u)',
                         \A j \in 1..m : j > i /\ main'[j].user = u => ~Telling(main'[j])
                  PROVE  u \in Local.keys <=> Unfollows(main'[i])
      BY <1>1 DEF MainTells
    <2>1. main'[i] = main[i + 1] /\ i + 1 \in 1..n /\ main[i + 1].user = u
      BY <1>1
    <2>2. ~Awaited(u)
      OBVIOUS
    <2>3. ASSUME NEW j \in 1..n, j > i + 1, main[j].user = u
          PROVE  ~Telling(main[j])
      <3>1. j > 1 /\ j - 1 > i
        BY <1>1, <2>3
      <3>. QED
        BY <1>5, <2>1, <2>3, <3>1
    <2>. QED
      BY <1>1, <2>1, <2>2, <2>3 DEF MainTells
  <1>7. TitlesTell'
    <2>. SUFFICES ASSUME NEW u \in Users, ~Awaited(u)',
                         \A i \in 1..m : main'[i].user = u => ~Telling(main'[i])
                  PROVE  /\ title'[u] = "Unfollow" => u \in Local.keys
                         /\ title'[u] = "Follow" => u \notin Local.keys
      BY <1>1 DEF TitlesTell
    <2>1. ~Awaited(u) /\ \A j \in 1..n : j > 1 /\ main[j].user = u => ~Telling(main[j])
      BY <1>5
    <2>2. CASE u = c.user
      <3>1. u \in Local.keys <=> Unfollows(c)
        BY <1>1, <1>2, <2>1, <2>2 DEF MainTells
      <3>. QED
        BY <1>3, <2>2, <3>1
    <2>3. CASE u # c.user
      <3>1. \A j \in 1..n : main[j].user = u => ~Telling(main[j])
        <4>1. \A j \in 1..n : j = 1 \/ j > 1
          BY <1>1
        <4>. QED
          BY <2>1, <2>3, <4>1
      <3>. QED
        BY <1>1, <1>3, <2>1, <2>3, <3>1 DEF TitlesTell
    <2>. QED
      BY <2>2, <2>3
  <1>. QED
    BY <1>4, <1>6, <1>7

LEMMA WrittenKeys ==
  ASSUME NEW d \in Document, NEW w \in Write, w.kind = "set" \/ d.exists
  PROVE  /\ Written(d, w).exists
         /\ w.user \in Written(d, w).keys <=> w.kind # "delete"
         /\ w.kind # "set" => \A u \in Users : u # w.user => (u \in Written(d, w).keys <=> u \in d.keys)
         /\ w.kind = "set" => Written(d, w).keys = {w.user}
  <1>1. d = [exists |-> d.exists, keys |-> d.keys] /\ w.kind \in {"set", "update", "delete"}
    BY DEF Document, Write
  <1>2. CASE w.kind = "set"
    BY <1>2 DEF Written
  <1>3. CASE w.kind = "update"
    <2>1. Written(d, w) = [exists |-> d.exists, keys |-> d.keys \cup {w.user}]
      BY <1>1, <1>3 DEF Written
    <2>. QED
      BY <1>3, <2>1
  <1>4. CASE w.kind = "delete"
    <2>1. Written(d, w) = [exists |-> d.exists, keys |-> d.keys \ {w.user}]
      BY <1>1, <1>4 DEF Written
    <2>. QED
      BY <1>4, <2>1
  <1>. QED
    BY <1>1, <1>2, <1>3, <1>4

\* A document that will not be there has no writes waiting for it.
LEMMA NothingQueued ==
  ASSUME TypeOK, Founded, ~Local.exists
  PROVE  ~doc.exists /\ doc.keys = {} /\ Local.keys = {} /\ Len(queue) = 0
  <1>1. ~doc.exists /\ \A i \in DOMAIN queue : queue[i].kind # "set"
    BY DEF Founded
  <1>2. Len(queue) \in Nat /\ DOMAIN queue = 1..Len(queue)
    BY QueueParts
  <1>3. ASSUME NEW i \in DOMAIN queue
        PROVE  FALSE
    <2>1. doc.exists \/ \E j \in 1..(i - 1) : queue[j].kind = "set"
      BY <1>1 DEF Founded
    <2>2. PICK j \in 1..(i - 1) : queue[j].kind = "set"
      BY <1>1, <2>1
    <2>3. j \in DOMAIN queue
      BY <1>2
    <2>. QED
      BY <1>1, <2>2, <2>3
  <1>4. Len(queue) = 0
    BY <1>2, <1>3
  <1>5. doc.keys = {} /\ Local.keys = {}
    BY <1>1 DEF Founded
  <1>. QED
    BY <1>1, <1>4, <1>5

\* A press writes: the first follow to where there is no document, anything else to
\* where there is one.
LEMMA Enqueued ==
  ASSUME TypeOK, Founded, LiveLast, WritesTell, NEW w \in Write, w.live,
         doc' = doc, queue' = Append(queue, w), w.kind = "set" <=> ~Local.exists
  PROVE  /\ Founded' /\ LiveLast' /\ WritesTell' /\ Local'.exists
         /\ Local.exists => \A u \in Users :
                \/ Awaited(u)'
                \/ (Awaited(u)' <=> Awaited(u)) /\ (u \in Local'.keys <=> u \in Local.keys)
  <1>. DEFINE n == Len(queue)
  <1>1. /\ n \in Nat /\ DOMAIN queue = 1..n /\ Local \in Document /\ doc \in Document
        /\ DOMAIN queue' = 1..(n + 1) /\ queue'[n + 1] = w
        /\ \A i \in 1..n : queue'[i] = queue[i]
    BY QueueParts
  <1>2. n + 1 \in 1..(n + 1) /\ \A i \in 1..(n + 1) : i = n + 1 \/ i \in 1..n
    BY <1>1
  <1>3. Local' = Written(Local, w)
    <2>1. Local' = Replayed(doc, Append(queue, w))
      BY DEF Local
    <2>. QED
      BY <1>1, <2>1, QueueParts, ReplayLonger DEF Local
  <1>4. w.kind \in {"set", "update", "delete"} /\ w.user \in Users
    BY DEF Write
  <1>5. /\ Local'.exists
        /\ w.user \in Local'.keys <=> w.kind # "delete"
        /\ w.kind # "set" =>
               \A u \in Users : u # w.user => (u \in Local'.keys <=> u \in Local.keys)
        /\ w.kind = "set" => Local'.keys = {w.user}
    BY <1>1, <1>3, WrittenKeys
  <1>6. w.kind = "set" => ~doc.exists /\ doc.keys = {} /\ n = 0
    BY NothingQueued
  <1>. HIDE DEF n
  <1>7. Founded'
    <2>1. doc'.keys # {} => doc'.exists
      BY DEF Founded
    <2>2. doc'.exists \/ \E i \in 1..(n + 1) : queue'[i].kind = "set"
      <3>1. CASE w.kind = "set"
        BY <1>1, <1>2, <3>1
      <3>2. CASE w.kind # "set"
        <4>1. doc.exists \/ \E i \in 1..n : queue[i].kind = "set"
          BY <1>1, <3>2 DEF Founded
        <4>. QED
          BY <1>1, <4>1
      <3>. QED
        BY <3>1, <3>2
    <2>3. ASSUME NEW i \in 1..(n + 1)
          PROVE  IF queue'[i].kind = "set"
                 THEN /\ ~doc'.exists
                      /\ \A j \in 1..(n + 1) : queue'[j].kind = "set" => i = j
                 ELSE doc'.exists \/ \E j \in 1..(i - 1) : queue'[j].kind = "set"
      <3>1. CASE w.kind = "set"
        <4>1. i = n + 1 /\ i = 1 /\ queue'[i].kind = "set"
          BY <1>1, <1>2, <1>6, <3>1
        <4>2. \A j \in 1..(n + 1) : j = i
          BY <1>1, <4>1
        <4>. QED
          BY <1>6, <3>1, <4>1, <4>2
      <3>2. CASE w.kind # "set" /\ i = n + 1
        <4>1. doc.exists \/ \E j \in 1..n : queue[j].kind = "set"
          BY <1>1, <3>2 DEF Founded
        <4>2. queue'[i].kind # "set" /\ i - 1 = n
          BY <1>1, <3>2
        <4>. QED
          BY <1>1, <4>1, <4>2
      <3>3. CASE w.kind # "set" /\ i # n + 1
        <4>1. i \in 1..n /\ queue'[i] = queue[i]
          BY <1>1, <1>2, <3>3
        <4>2. CASE queue[i].kind = "set"
          <5>1. ~doc.exists /\ \A j \in 1..n : queue[j].kind = "set" => i = j
            BY <1>1, <4>1, <4>2 DEF Founded
          <5>2. \A j \in 1..(n + 1) : queue'[j].kind = "set" => i = j
            BY <1>1, <1>2, <3>3, <5>1
          <5>. QED
            BY <4>1, <4>2, <5>1, <5>2
        <4>3. CASE queue[i].kind # "set"
          <5>1. doc.exists \/ \E j \in 1..(i - 1) : queue[j].kind = "set"
            BY <1>1, <4>1, <4>3 DEF Founded
          <5>2. \A j \in 1..(i - 1) : queue'[j] = queue[j]
            BY <1>1, <4>1
          <5>. QED
            BY <4>1, <4>3, <5>1, <5>2
        <4>. QED
          BY <4>2, <4>3
      <3>. QED
        BY <3>1, <3>2, <3>3
    <2>. QED
      BY <1>1, <1>5, <2>1, <2>2, <2>3 DEF Founded
  <1>8. LiveLast'
    <2>. SUFFICES ASSUME NEW i \in 1..(n + 1), NEW j \in 1..(n + 1), i < j, queue'[i].live
                  PROVE  queue'[j].live
      BY <1>1 DEF LiveLast
    <2>1. i \in 1..n
      BY <1>1
    <2>2. CASE j = n + 1
      BY <1>1, <2>2
    <2>3. CASE j # n + 1
      BY <1>1, <1>2, <2>1, <2>3 DEF LiveLast
    <2>. QED
      BY <2>2, <2>3
  <1>9. WritesTell'
    <2>1. ASSUME NEW u \in Users, NEW i \in 1..(n + 1), queue'[i].user = u,
                 \A j \in 1..(n + 1) : j > i => queue'[j].user # u
          PROVE  u \in Local'.keys <=> queue'[i].kind # "delete"
      <3>1. CASE i = n + 1
        BY <1>1, <1>5, <2>1, <3>1
      <3>2. CASE i # n + 1
        <4>1. i \in 1..n /\ n + 1 > i /\ queue'[i] = queue[i]
          BY <1>1, <3>2
        <4>2. u # w.user
          BY <1>1, <1>2, <2>1, <4>1
        <4>3. \A j \in 1..n : j > i => queue[j].user # u
          BY <1>1, <2>1
        <4>4. u \in Local.keys <=> queue[i].kind # "delete"
          BY <1>1, <2>1, <4>1, <4>3 DEF WritesTell
        <4>5. w.kind # "set"
          BY <1>1, <1>6, <4>1
        <4>. QED
          BY <1>5, <4>1, <4>2, <4>4, <4>5
      <3>. QED
        BY <3>1, <3>2
    <2>2. ASSUME NEW u \in Users, \A i \in 1..(n + 1) : queue'[i].user # u
          PROVE  u \in Local'.keys <=> u \in doc'.keys
      <3>1. u # w.user
        BY <1>1, <1>2, <2>2
      <3>2. \A i \in 1..n : queue[i].user # u
        BY <1>1, <2>2
      <3>3. u \in Local.keys <=> u \in doc.keys
        BY <1>1, <3>2 DEF WritesTell
      <3>. QED
        BY <1>4, <1>5, <1>6, <3>1, <3>3
    <2>. QED
      BY <1>1, <2>1, <2>2 DEF WritesTell
  <1>10. ASSUME Local.exists, NEW u \in Users, ~Awaited(u)'
         PROVE  (Awaited(u)' <=> Awaited(u)) /\ (u \in Local'.keys <=> u \in Local.keys)
    <2>1. \A i \in 1..(n + 1) : ~(queue'[i].live /\ queue'[i].user = u /\ queue'[i].kind # "set")
      BY <1>1, <1>10 DEF Awaited
    <2>2. u # w.user
      BY <1>1, <1>2, <1>10, <2>1
    <2>3. ~Awaited(u)
      BY <1>1, <2>1 DEF Awaited
    <2>. QED
      BY <1>5, <1>10, <2>2, <2>3
  <1>. QED
    BY <1>5, <1>7, <1>8, <1>9, <1>10

LEMMA QueueHead ==
  ASSUME TypeOK, queue # <<>>
  PROVE  /\ 1 \in DOMAIN queue /\ Head(queue) = queue[1] /\ queue[1] \in Write
         /\ Len(Tail(queue)) = Len(queue) - 1 /\ DOMAIN Tail(queue) = 1..(Len(queue) - 1)
         /\ \A i \in 1..(Len(queue) - 1) : Tail(queue)[i] = queue[i + 1] /\ i + 1 \in DOMAIN queue
         /\ \A i \in DOMAIN queue :
                i > 1 => i - 1 \in 1..(Len(queue) - 1) /\ Tail(queue)[i - 1] = queue[i]
  <1>1. queue \in Seq(Write) /\ Len(queue) \in Nat /\ DOMAIN queue = 1..Len(queue)
    BY QueueParts
  <1>. QED
    BY <1>1

\* The backend takes the oldest write: the device reads the same as before.
LEMMA CommitFounded ==
  ASSUME TypeOK, Founded, LiveLast, queue # <<>>, queue' = Tail(queue),
         doc' = Written(doc, Head(queue))
  PROVE  /\ Local' = Local /\ Founded' /\ LiveLast'
         /\ queue[1].kind = "set" \/ doc.exists
  <1>. DEFINE n == Len(queue)
              w == queue[1]
  <1>1. /\ n \in Nat \ {0} /\ DOMAIN queue = 1..n /\ doc \in Document /\ w \in Write
        /\ DOMAIN queue' = 1..(n - 1)
        /\ \A i \in 1..(n - 1) : queue'[i] = queue[i + 1] /\ i + 1 \in 1..n
        /\ \A i \in 1..n : i > 1 => i - 1 \in 1..(n - 1) /\ queue'[i - 1] = queue[i]
        /\ doc' = Written(doc, w) /\ 1 \in 1..n
    BY QueueParts, QueueHead
  <1>2. Local' = Local
    <2>1. Local' = Replayed(Written(doc, Head(queue)), Tail(queue))
      BY DEF Local
    <2>. QED
      BY <1>1, <2>1, QueueParts, ReplayFirst DEF Local
  <1>3. w.kind = "set" \/ doc.exists
    <2>1. CASE w.kind # "set"
      <3>1. doc.exists \/ \E j \in 1..(1 - 1) : queue[j].kind = "set"
        BY <1>1, <2>1 DEF Founded
      <3>. QED
        BY <3>1
    <2>. QED
      BY <2>1
  <1>4. doc'.exists
    BY <1>1, <1>3, WrittenKeys
  <1>. HIDE DEF n
  <1>5. LiveLast'
    <2>. SUFFICES ASSUME NEW i \in 1..(n - 1), NEW j \in 1..(n - 1), i < j, queue'[i].live
                  PROVE  queue'[j].live
      BY <1>1 DEF LiveLast
    <2>1. i + 1 < j + 1 /\ queue[i + 1].live /\ i + 1 \in 1..n /\ j + 1 \in 1..n
      BY <1>1
    <2>2. queue[j + 1].live
      BY <1>1, <2>1 DEF LiveLast
    <2>. QED
      BY <1>1, <2>2
  <1>6. Founded'
    <2>1. Local.keys # {} => Local.exists
      BY DEF Founded
    <2>2. Local.exists
      <3>1. doc.exists \/ queue[1].kind = "set"
        BY <1>3
      <3>. QED
        BY <1>1, <3>1 DEF Founded
    <2>3. ASSUME NEW i \in 1..(n - 1)
          PROVE  queue'[i].kind # "set"
      <3>1. queue'[i] = queue[i + 1] /\ i + 1 \in 1..n /\ i + 1 # 1
        BY <1>1
      <3>2. SUFFICES ASSUME queue[i + 1].kind = "set"
                     PROVE  FALSE
        BY <3>1
      <3>3. ~doc.exists /\ \A j \in 1..n : queue[j].kind = "set" => i + 1 = j
        BY <1>1, <3>1, <3>2 DEF Founded
      <3>. QED
        BY <1>1, <1>3, <3>1, <3>3
    <2>. QED
      BY <1>1, <1>2, <1>4, <2>1, <2>2, <2>3 DEF Founded
  <1>. QED
    BY <1>2, <1>3, <1>5, <1>6

LEMMA CommitTells ==
  ASSUME TypeOK, Founded, LiveLast, WritesTell, queue # <<>>, queue' = Tail(queue),
         doc' = Written(doc, Head(queue))
  PROVE  /\ WritesTell'
         /\ \A u \in Users : \/ Awaited(u)' <=> Awaited(u)
                             \/ queue[1].live /\ queue[1].user = u /\ queue[1].kind # "set"
         /\ queue[1].live /\ queue[1].kind # "set" =>
                \A u \in Users : u = queue[1].user /\ ~Awaited(u)' =>
                    (u \in Local.keys <=> queue[1].kind # "delete")
  <1>. DEFINE n == Len(queue)
              w == queue[1]
  <1>1. /\ n \in Nat \ {0} /\ DOMAIN queue = 1..n /\ doc \in Document /\ w \in Write
        /\ DOMAIN queue' = 1..(n - 1)
        /\ \A i \in 1..(n - 1) : queue'[i] = queue[i + 1] /\ i + 1 \in 1..n
        /\ \A i \in 1..n : i > 1 => i - 1 \in 1..(n - 1) /\ queue'[i - 1] = queue[i]
        /\ doc' = Written(doc, w) /\ 1 \in 1..n
    BY QueueParts, QueueHead
  <1>2. Local' = Local /\ (w.kind = "set" \/ doc.exists)
    BY CommitFounded
  <1>3. /\ w.user \in doc'.keys <=> w.kind # "delete"
        /\ w.kind # "set" => \A u \in Users : u # w.user => (u \in doc'.keys <=> u \in doc.keys)
        /\ w.kind = "set" => doc'.keys = {w.user}
    BY <1>1, <1>2, WrittenKeys
  <1>4. w.kind = "set" => ~doc.exists /\ doc.keys = {}
    BY <1>1 DEF Founded
  <1>. HIDE DEF n, w
  \* The newest write of a user is the oldest one where no other of them is left.
  <1>5. ASSUME NEW u \in Users, w.user = u, \A i \in 1..n : i > 1 => queue[i].user # u
        PROVE  u \in Local.keys <=> w.kind # "delete"
    BY <1>1, <1>5 DEF WritesTell, w
  <1>6. WritesTell'
    <2>1. ASSUME NEW u \in Users, NEW i \in 1..(n - 1), queue'[i].user = u,
                 \A j \in 1..(n - 1) : j > i => queue'[j].user # u
          PROVE  u \in Local.keys <=> queue'[i].kind # "delete"
      <3>1. queue'[i] = queue[i + 1] /\ i + 1 \in 1..n
        BY <1>1
      <3>2. ASSUME NEW j \in 1..n, j > i + 1
            PROVE  queue[j].user # u
        <4>1. j > 1 /\ j - 1 > i
          BY <1>1, <3>2
        <4>. QED
          BY <1>1, <2>1, <4>1
      <3>. QED
        BY <1>1, <2>1, <3>1, <3>2 DEF WritesTell
    <2>2. ASSUME NEW u \in Users, \A i \in 1..(n - 1) : queue'[i].user # u
          PROVE  u \in Local.keys <=> u \in doc'.keys
      <3>1. \A i \in 1..n : i > 1 => queue[i].user # u
        BY <1>1, <2>2
      <3>2. CASE w.user = u
        BY <1>3, <1>5, <3>1, <3>2
      <3>3. CASE w.user # u
        <4>1. \A i \in 1..n : i = 1 \/ i > 1
          BY <1>1
        <4>2. \A i \in 1..n : queue[i].user # u
          BY <3>1, <3>3, <4>1 DEF w
        <4>3. u \in Local.keys <=> u \in doc.keys
          BY <1>1, <4>2 DEF WritesTell
        <4>. QED
          BY <1>3, <1>4, <3>3, <4>3
      <3>. QED
        BY <3>2, <3>3
    <2>. QED
      BY <1>1, <1>2, <2>1, <2>2 DEF WritesTell
  <1>7. ASSUME NEW u \in Users, ~(w.live /\ w.user = u /\ w.kind # "set")
        PROVE  Awaited(u)' <=> Awaited(u)
    <2>1. ASSUME Awaited(u)
          PROVE  Awaited(u)'
      <3>1. PICK i \in 1..n : queue[i].live /\ queue[i].user = u /\ queue[i].kind # "set"
        BY <1>1, <2>1 DEF Awaited
      <3>2. i > 1
        BY <1>1, <1>7, <3>1 DEF w
      <3>3. i - 1 \in 1..(n - 1) /\ queue'[i - 1] = queue[i]
        BY <1>1, <3>2
      <3>. QED
        BY <1>1, <3>1, <3>3 DEF Awaited
    <2>2. ASSUME Awaited(u)'
          PROVE  Awaited(u)
      <3>1. PICK i \in 1..(n - 1) : queue'[i].live /\ queue'[i].user = u /\ queue'[i].kind # "set"
        BY <1>1, <2>2 DEF Awaited
      <3>2. i + 1 \in 1..n /\ queue'[i] = queue[i + 1]
        BY <1>1
      <3>. QED
        BY <1>1, <3>1, <3>2 DEF Awaited
    <2>. QED
      BY <2>1, <2>2
  <1>8. ASSUME w.live, w.kind # "set", NEW u \in Users, u = w.user, ~Awaited(u)'
        PROVE  u \in Local.keys <=> w.kind # "delete"
    <2>1. ASSUME NEW i \in 1..n, i > 1, queue[i].user = u
          PROVE  FALSE
      <3>1. queue[i].live
        BY <1>1, <1>8, <2>1 DEF LiveLast, w
      <3>2. i - 1 \in 1..(n - 1) /\ queue'[i - 1] = queue[i]
        BY <1>1, <2>1
      <3>3. queue[i].kind = "set"
        <4>1. \A j \in DOMAIN queue' :
                  ~(queue'[j].live /\ queue'[j].user = u /\ queue'[j].kind # "set")
          BY <1>8 DEF Awaited
        <4>. QED
          BY <1>1, <2>1, <3>1, <3>2, <4>1
      <3>. QED
        BY <1>1, <1>2, <1>8, <3>3 DEF Founded
    <2>. QED
      BY <1>5, <1>8, <2>1
  <1>. QED
    BY <1>6, <1>7, <1>8 DEF w

\* The process ends: the queue is kept, its completions are not.
LEMMA RestartTold ==
  ASSUME TypeOK, Founded, LiveLast, WritesTell, Restart
  PROVE  Founded' /\ LiveLast' /\ WritesTell' /\ Grounded' /\ MainTells' /\ TitlesTell'
  <1>1. /\ Len(queue) \in Nat /\ DOMAIN queue = 1..Len(queue) /\ queue \in Seq(Write)
        /\ doc \in Document /\ \A i \in DOMAIN queue : queue[i] \in Write
    BY QueueParts
  <1>2. /\ doc' = doc /\ main' = <<>> /\ title' = [u \in Users |-> ""]
        /\ queue' = [i \in DOMAIN queue |-> [queue[i] EXCEPT !.live = FALSE]]
    BY DEF Restart
  <1>3. queue' \in Seq(Write)
    BY RestartTyped DEF TypeOK
  <1>4. /\ DOMAIN queue' = DOMAIN queue /\ Len(queue') = Len(queue)
        /\ \A i \in DOMAIN queue : /\ queue'[i].kind = queue[i].kind
                                   /\ queue'[i].user = queue[i].user
                                   /\ queue'[i].live = FALSE
    <2>1. DOMAIN queue' = 1..Len(queue)
      BY <1>1, <1>2
    <2>2. \A w \in Write : /\ [w EXCEPT !.live = FALSE].kind = w.kind
                           /\ [w EXCEPT !.live = FALSE].user = w.user
                           /\ [w EXCEPT !.live = FALSE].live = FALSE
      BY DEF Write
    <2>3. Len(queue') = Len(queue)
      <3>1. Len(queue') \in Nat /\ 1..Len(queue') = 1..Len(queue)
        BY <1>3, <2>1
      <3>2. \A k, m \in Nat : 1..k = 1..m => k = m
        <4>. SUFFICES ASSUME NEW k \in Nat, NEW m \in Nat, 1..k = 1..m, k < m
                      PROVE  FALSE
          OBVIOUS
        <4>1. m \in 1..m /\ m \notin 1..k
          OBVIOUS
        <4>. QED
          BY <4>1
      <3>. QED
        BY <1>1, <3>1, <3>2, Zenon
    <2>4. ASSUME NEW i \in DOMAIN queue
          PROVE  queue'[i] = [queue[i] EXCEPT !.live = FALSE] /\ queue[i] \in Write
      BY <1>1, <1>2
    <2>5. DOMAIN queue' = DOMAIN queue
      BY <1>1, <2>1
    <2>. QED
      BY <2>2, <2>3, <2>4, <2>5, Zenon
  <1>5. Local' = Local
    <2>1. \A i \in 1..Len(queue) : Alike(queue[i], queue'[i])
      BY <1>1, <1>4 DEF Alike
    <2>2. Local' = Replayed(doc, queue')
      BY <1>2 DEF Local
    <2>. QED
      BY <1>1, <1>3, <1>4, <2>1, <2>2, ReplayAlike DEF Local
  <1>6. LiveLast'
    BY <1>4 DEF LiveLast
  <1>7. WritesTell'
    <2>1. ASSUME NEW u \in Users, NEW i \in DOMAIN queue, queue'[i].user = u,
                 \A j \in DOMAIN queue : j > i => queue'[j].user # u
          PROVE  u \in Local.keys <=> queue'[i].kind # "delete"
      <3>1. \A j \in DOMAIN queue : j > i => queue[j].user # u
        BY <1>4, <2>1
      <3>. QED
        BY <1>4, <2>1, <3>1 DEF WritesTell
    <2>2. ASSUME NEW u \in Users, \A i \in DOMAIN queue : queue'[i].user # u
          PROVE  u \in Local.keys <=> u \in doc.keys
      <3>1. \A i \in DOMAIN queue : queue[i].user # u
        BY <1>4, <2>2
      <3>. QED
        BY <3>1 DEF WritesTell
    <2>3. DOMAIN queue' = DOMAIN queue /\ doc' = doc
      BY <1>2, <1>4
    <2>. QED
      BY <1>5, <2>1, <2>2, <2>3 DEF WritesTell
  <1>8. Founded'
    <2>1. ASSUME NEW i \in DOMAIN queue
          PROVE  IF queue'[i].kind = "set"
                 THEN /\ ~doc'.exists
                      /\ \A j \in DOMAIN queue' : queue'[j].kind = "set" => i = j
                 ELSE doc'.exists \/ \E j \in 1..(i - 1) : queue'[j].kind = "set"
      <3>1. \A j \in 1..(i - 1) : j \in DOMAIN queue
        BY <1>1
      <3>2. CASE queue[i].kind = "set"
        BY <1>2, <1>4, <3>2 DEF Founded
      <3>3. CASE queue[i].kind # "set"
        <4>1. doc.exists \/ \E j \in 1..(i - 1) : queue[j].kind = "set"
          BY <3>3 DEF Founded
        <4>. QED
          BY <1>2, <1>4, <3>1, <3>3, <4>1
      <3>. QED
        BY <3>2, <3>3
    <2>. QED
      BY <1>2, <1>4, <1>5, <2>1 DEF Founded
  <1>9. Grounded' /\ MainTells' /\ TitlesTell'
    <2>1. DOMAIN main' = {}
      <3>1. DOMAIN <<>> = {}
        OBVIOUS
      <3>2. main' = <<>>
        BY <1>2
      <3>. QED
        BY <3>1, <3>2, Zenon
    <2>2. \A u \in Users : title'[u] = ""
      BY <1>2
    <2>3. Grounded'
      BY <2>1, <2>2 DEF Grounded
    <2>4. MainTells'
      BY <2>1 DEF MainTells
    <2>5. TitlesTell'
      BY <2>2 DEF TitlesTell
    <2>. QED
      BY <2>3, <2>4, <2>5
  <1>. QED
    BY <1>6, <1>7, <1>8, <1>9

----------------------------------------------------------------------------
(* The titles. *)

\* Everything but LookRuns, PressRuns, DoneRuns and the commits with a completion.
LEMMA QuietTold ==
  ASSUME TypeOK, Founded, LiveLast, WritesTell, Grounded, MainTells, TitlesTell,
         doc' = doc, queue' = queue, main' = main,
         \A u \in Users : title'[u] = title[u] \/ title'[u] \notin {"Follow", "Unfollow"}
  PROVE  Founded' /\ LiveLast' /\ WritesTell' /\ Grounded' /\ MainTells' /\ TitlesTell'
  <1>1. /\ Local' = Local /\ \A u \in Users : Awaited(u)' <=> Awaited(u)
        /\ Founded' /\ LiveLast' /\ WritesTell'
    BY QueueKept
  <1>2. Grounded' /\ MainTells' /\ TitlesTell'
    BY <1>1, MainSame
  <1>. QED
    BY <1>1, <1>2

LEMMA LookTold ==
  ASSUME TypeOK, Founded, LiveLast, WritesTell, Grounded, MainTells, TitlesTell,
         NEW u \in Users, LookAnswered(u)
  PROVE  Founded' /\ LiveLast' /\ WritesTell' /\ Grounded' /\ MainTells' /\ TitlesTell'
  <1>. DEFINE c == [what |-> "look", user |-> u, saw |-> LookSees(u)]
  <1>1. /\ doc' = doc /\ queue' = queue /\ title' = title /\ main' = Append(main, c)
    BY DEF LookAnswered
  <1>2. /\ Local' = Local /\ \A v \in Users : Awaited(v)' <=> Awaited(v)
        /\ Founded' /\ LiveLast' /\ WritesTell'
    BY <1>1, QueueKept
  <1>3. /\ c \in Callback /\ c.what = "look" /\ c.user = u /\ c.saw = LookSees(u)
        /\ c.saw \in {"nothing", "key", "no key"}
        /\ c.saw # "nothing" => Local.exists /\ (u \in Local.keys <=> c.saw = "key")
    BY DEF Callback, LookSees
  <1>. HIDE DEF c
  <1>4. /\ Telling(c) \/ c.saw = "document" => Local.exists
        /\ Telling(c) => (u \in Local.keys <=> Unfollows(c))
    BY <1>3 DEF Telling, Unfollows
  <1>5. Grounded' /\ MainTells' /\ TitlesTell'
    BY <1>1, <1>2, <1>3, <1>4, MainLonger
  <1>. QED
    BY <1>2, <1>5

LEMMA PressTold ==
  ASSUME TypeOK, Founded, LiveLast, WritesTell, Grounded, MainTells, TitlesTell,
         NEW u \in Users, PressAnswered(u)
  PROVE  Founded' /\ LiveLast' /\ WritesTell' /\ Grounded' /\ MainTells' /\ TitlesTell'
  <1>. DEFINE c == [what |-> "press", user |-> u,
                    saw |-> IF Local.exists THEN "document" ELSE "nothing"]
  <1>1. /\ doc' = doc /\ queue' = queue /\ title' = title /\ main' = Append(main, c)
    BY DEF PressAnswered
  <1>2. /\ Local' = Local /\ \A v \in Users : Awaited(v)' <=> Awaited(v)
        /\ Founded' /\ LiveLast' /\ WritesTell'
    BY <1>1, QueueKept
  <1>3. /\ c \in Callback /\ c.what = "press" /\ c.user = u
        /\ c.saw = "document" => Local.exists
    BY DEF Callback
  <1>. HIDE DEF c
  <1>4. ~Telling(c)
    BY <1>3 DEF Telling
  <1>5. Grounded' /\ MainTells' /\ TitlesTell'
    BY <1>1, <1>2, <1>3, <1>4, MainLonger
  <1>. QED
    BY <1>2, <1>5

LEMMA RunsTold ==
  ASSUME TypeOK, Founded, LiveLast, WritesTell, Grounded, MainTells, TitlesTell,
         LookRuns \/ DoneRuns
  PROVE  Founded' /\ LiveLast' /\ WritesTell' /\ Grounded' /\ MainTells' /\ TitlesTell'
  <1>. DEFINE c == main[1]
  <1>1. doc' = doc /\ queue' = queue /\ main # <<>> /\ main' = Tail(main) /\ Head(main) = c
    BY QueueParts DEF LookRuns, DoneRuns, NextCallback
  <1>2. /\ Local' = Local /\ \A v \in Users : Awaited(v)' <=> Awaited(v)
        /\ Founded' /\ LiveLast' /\ WritesTell'
    BY <1>1, QueueKept
  <1>3. /\ title' = IF Telling(c)
                    THEN [title EXCEPT ![c.user] = IF Unfollows(c) THEN "Unfollow" ELSE "Follow"]
                    ELSE title
    <2>1. c \in Callback
      BY <1>1, QueueParts
    <2>2. CASE LookRuns
      <3>1. /\ c.what = "look"
            /\ title' = IF c.saw = "nothing" THEN title
                        ELSE [title EXCEPT ![c.user] = IF c.saw = "key" THEN "Unfollow" ELSE "Follow"]
        BY <1>1, <2>2 DEF LookRuns, NextCallback
      <3>2. c.saw \in {"nothing", "key", "no key"}
        BY <2>1, <3>1 DEF Callback
      <3>. QED
        BY <3>1, <3>2 DEF Telling, Unfollows
    <2>3. CASE DoneRuns
      <3>1. /\ c.what = "done"
            /\ title' = IF c.saw = "set" THEN title
                        ELSE [title EXCEPT ![c.user] = IF c.saw = "update" THEN "Unfollow" ELSE "Follow"]
        BY <1>1, <2>3 DEF DoneRuns, NextCallback
      <3>2. c.saw \in {"set", "update", "delete"}
        BY <2>1, <3>1 DEF Callback
      <3>. QED
        BY <3>1, <3>2 DEF Telling, Unfollows
    <2>. QED
      BY <2>2, <2>3
  <1>4. Grounded' /\ MainTells' /\ TitlesTell'
    <2>1. CASE Telling(c)
      BY <1>1, <1>2, <1>3, <2>1, TitleTold
    <2>2. CASE ~Telling(c)
      <3>1. /\ Len(main') \in Nat /\ Len(main') = Len(main) - 1 /\ DOMAIN main' = 1..Len(main')
            /\ \A i \in 1..Len(main') : main'[i] = main[i + 1]
        BY <1>1, QueueParts
      <3>2. title' = title
        BY <1>3, <2>2
      <3>. QED
        BY <1>2, <2>2, <3>1, <3>2, MainFewer
    <2>. QED
      BY <2>1, <2>2
  <1>. QED
    BY <1>2, <1>4

LEMMA WroteTold ==
  ASSUME TypeOK, Founded, LiveLast, WritesTell, Grounded, MainTells, TitlesTell, ~replaced',
         PressRuns \/ \E u \in Users : Press(u) /\ title[u] = "Unfollow"
  PROVE  Founded' /\ LiveLast' /\ WritesTell' /\ Grounded' /\ MainTells' /\ TitlesTell'
  <1>1. CASE PressRuns
    <2>. DEFINE c == main[1]
                w == [kind |-> IF c.saw = "document" THEN "update" ELSE "set",
                      user |-> c.user, live |-> TRUE]
    <2>1. /\ doc' = doc /\ main # <<>> /\ main' = Tail(main) /\ Head(main) = c /\ title' = title
          /\ c.what = "press" /\ queue' = Append(queue, w)
          /\ replaced' = (replaced \/ (c.saw = "nothing" /\ Local.exists))
      <3>1. main # <<>> /\ main' = Tail(main) /\ Head(main) = c
        BY <1>1, QueueParts DEF PressRuns, NextCallback
      <3>2. /\ queue' = Append(queue, [kind |-> IF Head(main).saw = "document"
                                                THEN "update" ELSE "set",
                                        user |-> Head(main).user, live |-> TRUE])
            /\ Head(main).what = "press" /\ doc' = doc /\ title' = title
            /\ replaced' = (replaced \/ (Head(main).saw = "nothing" /\ Local.exists))
        BY <1>1 DEF PressRuns, NextCallback
      <3>. QED
        BY <3>1, <3>2, Zenon
    <2>2. c \in Callback /\ c.user \in Users /\ 1 \in DOMAIN main
      BY <2>1, QueueParts
    <2>3. c.saw \in {"nothing", "document"} /\ ~Telling(c)
      BY <2>1, <2>2 DEF Callback, Telling
    <2>4. c.saw = "document" <=> Local.exists
      BY <2>1, <2>2, <2>3 DEF Grounded
    <2>5. w \in Write /\ w.live /\ (w.kind = "set" <=> ~Local.exists)
      BY <2>2, <2>4 DEF Write
    <2>. HIDE DEF w
    <2>6. /\ Founded' /\ LiveLast' /\ WritesTell' /\ Local'.exists
          /\ Local.exists => \A u \in Users :
                 \/ Awaited(u)'
                 \/ (Awaited(u)' <=> Awaited(u)) /\ (u \in Local'.keys <=> u \in Local.keys)
      BY <2>1, <2>5, Enqueued
    <2>7. /\ Len(main') \in Nat /\ Len(main') = Len(main) - 1 /\ DOMAIN main' = 1..Len(main')
          /\ \A i \in 1..Len(main') : main'[i] = main[i + 1]
      BY <2>1, QueueParts
    <2>8. Grounded' /\ MainTells' /\ TitlesTell'
      BY <2>1, <2>3, <2>6, <2>7, MainFewer
    <2>. QED
      BY <2>6, <2>8
  <1>2. ASSUME NEW u \in Users, Press(u), title[u] = "Unfollow"
        PROVE  Founded' /\ LiveLast' /\ WritesTell' /\ Grounded' /\ MainTells' /\ TitlesTell'
    <2>. DEFINE w == [kind |-> "delete", user |-> u, live |-> TRUE]
    <2>1. doc' = doc /\ main' = main /\ title' = title /\ queue' = Append(queue, w)
      BY <1>2 DEF Press
    <2>2. w \in Write /\ w.live /\ (w.kind = "set" <=> ~Local.exists)
      BY <1>2 DEF Write, Grounded
    <2>. HIDE DEF w
    <2>3. /\ Founded' /\ LiveLast' /\ WritesTell' /\ Local'.exists
          /\ Local.exists => \A v \in Users :
                 \/ Awaited(v)'
                 \/ (Awaited(v)' <=> Awaited(v)) /\ (v \in Local'.keys <=> v \in Local.keys)
      BY <2>1, <2>2, Enqueued
    <2>4. Grounded' /\ MainTells' /\ TitlesTell'
      BY <2>1, <2>3, MainSame
    <2>. QED
      BY <2>3, <2>4
  <1>. QED
    BY <1>1, <1>2

LEMMA CommitTold ==
  ASSUME TypeOK, Founded, LiveLast, WritesTell, Grounded, MainTells, TitlesTell, Committed
  PROVE  Founded' /\ LiveLast' /\ WritesTell' /\ Grounded' /\ MainTells' /\ TitlesTell'
  <1>. DEFINE w == queue[1]
              c == [what |-> "done", user |-> w.user, saw |-> w.kind]
  <1>1. queue # <<>> /\ w \in Write /\ Head(queue) = w
    BY QueueHead DEF Committed
  <1>2. /\ queue' = Tail(queue) /\ doc' = Written(doc, Head(queue)) /\ title' = title
        /\ main' = IF w.live /\ (w.kind = "set" \/ doc.exists) THEN Append(main, c) ELSE main
    BY <1>1 DEF Committed
  <1>3. /\ Local' = Local /\ Founded' /\ LiveLast' /\ (w.kind = "set" \/ doc.exists)
    BY <1>1, <1>2, CommitFounded
  <1>4. /\ WritesTell'
        /\ \A u \in Users : \/ Awaited(u)' <=> Awaited(u)
                            \/ w.live /\ w.user = u /\ w.kind # "set"
        /\ w.live /\ w.kind # "set" =>
               \A u \in Users : u = w.user /\ ~Awaited(u)' =>
                   (u \in Local.keys <=> w.kind # "delete")
    BY <1>1, <1>2, CommitTells
  <1>5. /\ c \in Callback /\ c.what = "done" /\ c.user = w.user /\ c.saw = w.kind
        /\ w.user \in Users /\ w.kind \in {"set", "update", "delete"}
    BY <1>1 DEF Write, Callback
  <1>6. Local.exists
    <2>1. CASE w.kind = "set"
      BY <1>1, <2>1, QueueHead DEF Founded
    <2>2. CASE doc.exists
      BY <2>2 DEF Founded
    <2>. QED
      BY <1>3, <2>1, <2>2
  <1>. HIDE DEF w, c
  <1>7. CASE w.live
    <2>1. main' = Append(main, c)
      BY <1>2, <1>3, <1>7
    <2>2. /\ Telling(c) <=> w.kind # "set"
          /\ Telling(c) => (Unfollows(c) <=> w.kind # "delete")
      BY <1>5 DEF Telling, Unfollows
    <2>3. \A u \in Users : (u = c.user /\ Telling(c)) \/ (Awaited(u)' <=> Awaited(u))
      BY <1>4, <1>5, <2>2
    <2>4. \A u \in Users :
              u = c.user /\ Telling(c) /\ ~Awaited(u)' => (u \in Local.keys <=> Unfollows(c))
      BY <1>4, <1>5, <1>7, <2>2
    <2>5. Grounded' /\ MainTells' /\ TitlesTell'
      BY <1>2, <1>3, <1>5, <1>6, <2>1, <2>3, <2>4, MainLonger
    <2>. QED
      BY <1>3, <1>4, <2>5
  <1>8. CASE ~w.live
    <2>1. main' = main
      BY <1>2, <1>8
    <2>2. Grounded' /\ MainTells' /\ TitlesTell'
      BY <1>2, <1>3, <1>4, <1>8, <2>1, MainSame
    <2>. QED
      BY <1>3, <1>4, <2>2
  <1>. QED
    BY <1>7, <1>8

LEMMA StepTold ==
  ASSUME TypeOK, Told, [ProfileNext]_profileVars
  PROVE  Told'
  <1>. DEFINE Telltale == Founded /\ LiveLast /\ WritesTell /\ Grounded /\ MainTells /\ TitlesTell
  <1>1. (~replaced' /\ failures' = 0) => (~replaced /\ failures = 0)
    <2>1. replaced => replaced'
      <3>1. \/ replaced' = replaced
            \/ replaced' = (replaced \/ (Head(main).saw = "nothing" /\ Local.exists))
        BY DEF ProfileNext, profileVars, vars, counts, UserAnswered, PageFails, FirstSnapshot,
               PostsChanged, ChangeView, Snapshot, Reload, Buttons, PagesRestart, Press,
               LookAnswered, PressAnswered, LookRuns, PressRuns, DoneRuns, Committed, Fails,
               Restart
      <3>. QED
        BY <3>1
    <2>2. failures' = failures \/ failures' = failures + 1
      BY DEF ProfileNext, profileVars, vars, counts, UserAnswered, PageFails, FirstSnapshot,
             PostsChanged, ChangeView, Snapshot, Reload, Buttons, PagesRestart, Press,
             LookAnswered, PressAnswered, LookRuns, PressRuns, DoneRuns, Committed, Fails,
             Restart
    <2>3. failures \in Nat
      BY DEF TypeOK
    <2>. QED
      BY <2>1, <2>2, <2>3
  <1>. SUFFICES ASSUME ~replaced', failures' = 0
                PROVE  Telltale'
    BY DEF Told
  <1>2. /\ Founded /\ LiveLast /\ WritesTell /\ Grounded /\ MainTells /\ TitlesTell
        /\ failures \in Nat
    BY <1>1 DEF Told, TypeOK
  <1>. HIDE DEF Telltale
  <1>3. ASSUME doc' = doc, queue' = queue, main' = main, title' = title
        PROVE  Telltale'
    BY <1>2, <1>3, QuietTold DEF Telltale
  <1>4. ASSUME NEW u \in Users, Reload(u)
        PROVE  Telltale'
    <2>1. doc' = doc /\ queue' = queue /\ main' = main
      BY <1>4 DEF Reload
    <2>2. title' = title \/ title' = [title EXCEPT ![u] = "Edit Profile"]
      BY <1>4 DEF Reload
    <2>3. \A v \in Users : title'[v] = title[v] \/ title'[v] \notin {"Follow", "Unfollow"}
      BY <2>2 DEF TypeOK
    <2>. QED
      BY <1>2, <2>1, <2>3, QuietTold DEF Telltale
  <1>5. CASE UNCHANGED vars
    BY <1>3, <1>5 DEF vars
  <1>6. ASSUME NEW u \in Users, UserAnswered(u)
        PROVE  Telltale'
    BY <1>3, <1>6 DEF UserAnswered, vars
  <1>7. ASSUME NEW u \in Users, PageFails(u)
        PROVE  Telltale'
    BY <1>3, <1>7 DEF PageFails
  <1>8. ASSUME NEW u \in Users, FirstSnapshot(u) \/ PostsChanged(u) \/ ChangeView(u)
        PROVE  Telltale'
    BY <1>4, <1>8 DEF FirstSnapshot, PostsChanged, ChangeView, Snapshot
  <1>9. ASSUME NEW u \in Users, Press(u)
        PROVE  Telltale'
    <2>1. CASE title[u] = "Unfollow"
      BY <1>2, <1>9, <2>1, WroteTold DEF Telltale
    <2>2. CASE title[u] # "Unfollow"
      BY <1>3, <1>9, <2>2 DEF Press
    <2>. QED
      BY <2>1, <2>2
  <1>10. ASSUME NEW u \in Users, LookAnswered(u)
         PROVE  Telltale'
    BY <1>2, <1>10, LookTold DEF Telltale
  <1>11. ASSUME NEW u \in Users, PressAnswered(u)
         PROVE  Telltale'
    BY <1>2, <1>11, PressTold DEF Telltale
  <1>12. CASE LookRuns \/ DoneRuns
    BY <1>2, <1>12, RunsTold DEF Telltale
  <1>13. CASE PressRuns
    BY <1>2, <1>13, WroteTold DEF Telltale
  <1>14. CASE Committed
    BY <1>2, <1>14, CommitTold DEF Telltale
  <1>15. CASE Fails
    <2>1. failures' = failures + 1
      BY <1>15 DEF Fails
    <2>. QED
      BY <1>2, <2>1
  <1>16. CASE PagesRestart
    <2>1. Restart
      BY <1>16 DEF PagesRestart
    <2>. QED
      BY <1>2, <2>1, RestartTold DEF Telltale
  <1>17. CASE UNCHANGED profileVars
    BY <1>5, <1>17 DEF profileVars
  <1>18. CASE Buttons
    BY <1>9, <1>10, <1>11, <1>12, <1>13, <1>14, <1>15, <1>18 DEF Buttons
  <1>. QED
    BY <1>6, <1>7, <1>8, <1>16, <1>17, <1>18 DEF ProfileNext

LEMMA InitTold == ProfileInit => Told
  <1>. SUFFICES ASSUME Init
                PROVE  Founded /\ Grounded /\ LiveLast /\ WritesTell /\ MainTells /\ TitlesTell
    BY DEF ProfileInit, Told
  <1>1. /\ doc \in Document /\ (~doc.exists => doc.keys = {})
        /\ queue = <<>> /\ main = <<>> /\ \A u \in Users : title[u] = ""
    BY DEF Init
  <1>2. Local = doc
    BY <1>1, ReplayNone DEF Local
  <1>3. DOMAIN queue = {} /\ DOMAIN main = {}
    <2>1. DOMAIN <<>> = {}
      OBVIOUS
    <2>. QED
      BY <1>1, <2>1, Zenon
  <1>4. Founded
    BY <1>1, <1>2, <1>3 DEF Founded
  <1>5. Grounded /\ LiveLast
    BY <1>1, <1>3 DEF Grounded, LiveLast
  <1>6. WritesTell /\ MainTells
    BY <1>2, <1>3 DEF WritesTell, MainTells
  <1>7. TitlesTell
    BY <1>1 DEF TitlesTell
  <1>. QED
    BY <1>4, <1>5, <1>6, <1>7

LEMMA ToldTells ==
  ASSUME Told
  PROVE  TitleTells
  <1>. SUFFICES ASSUME ~replaced, failures = 0, NEW u \in Users, Quiet(u)
                PROVE  /\ title[u] = "Unfollow" => u \in doc.keys
                       /\ title[u] = "Follow" => u \notin doc.keys
    BY DEF TitleTells
  <1>1. WritesTell /\ TitlesTell
    BY DEF Told
  <1>2. ~Awaited(u) /\ \A i \in DOMAIN main : main[i].user # u
    BY DEF Quiet, Awaited
  <1>3. /\ title[u] = "Unfollow" => u \in Local.keys
        /\ title[u] = "Follow" => u \notin Local.keys
    BY <1>1, <1>2 DEF TitlesTell
  <1>4. u \in Local.keys <=> u \in doc.keys
    BY <1>1 DEF WritesTell, Quiet
  <1>. QED
    BY <1>3, <1>4

\* UserProfileHeader's button, through double presses, reads overtaken by presses,
\* reloads and restarts: with nothing under way it tells what Follows/Me holds, as
\* long as nothing has failed and no setData has replaced a document.
THEOREM TitlesTrue == ProfileSpec => []TitleTells
  <1>1. ProfileInit => TypeOK /\ Told
    BY InitTyped, InitTold
  <1>2. TypeOK /\ Told /\ [ProfileNext]_profileVars => TypeOK' /\ Told'
    BY StepTyped, StepTold
  <1>3. TypeOK /\ Told => TitleTells
    BY ToldTells
  <1>. QED
    BY <1>1, <1>2, <1>3, PTL DEF ProfileSpec

----------------------------------------------------------------------------
(* The document, failures included. *)

\* A setData waits only where there is no document, and no second one behind it.
OneFounder ==
    /\ doc.keys # {} => doc.exists
    /\ ~replaced => \A i \in DOMAIN queue : queue[i].kind = "set" =>
                        ~doc.exists /\ \A j \in DOMAIN queue : queue[j].kind = "set" => i = j

LEMMA WrittenExists ==
  ASSUME NEW d \in Document, NEW w \in Write
  PROVE  Written(d, w).exists <=> d.exists \/ w.kind = "set"
  <1>1. d = [exists |-> d.exists, keys |-> d.keys] /\ d.exists \in BOOLEAN
        /\ w.kind \in {"set", "update", "delete"}
    BY DEF Document, Write
  <1>. QED
    BY <1>1 DEF Written

\* What a read sees is there if the document is, or if a setData is queued.
LEMMA ReplayExists ==
  ASSUME NEW d \in Document, NEW writes \in Seq(Write),
         d.exists \/ \E i \in DOMAIN writes : writes[i].kind = "set"
  PROVE  Replayed(d, writes).exists
  <1>. DEFINE n == Len(writes)
  <1>1. n \in Nat /\ DOMAIN writes = 1..n /\ \A i \in 1..n : writes[i] \in Write
    OBVIOUS
  <1>2. PICK row \in [0..n -> Document] :
            ReplayRow(d, writes, n, row) /\ Replayed(d, writes) = row[n]
    BY ReplayedIsARow
  <1>3. row[0] = d /\ \A i \in 1..n : row[i] = Written(row[i - 1], writes[i])
    BY <1>2 DEF ReplayRow
  <1>4. ASSUME NEW i \in 1..n
        PROVE  row[i].exists <=> row[i - 1].exists \/ writes[i].kind = "set"
    <2>1. row[i - 1] \in Document
      <3>1. i - 1 \in 0..n
        BY <1>1
      <3>. QED
        BY <3>1
    <2>. QED
      BY <1>1, <1>3, <2>1, WrittenExists
  <1>. HIDE DEF n
  <1>. DEFINE there == {i \in 0..n : row[i].exists
                                     <=> d.exists \/ \E j \in 1..i : writes[j].kind = "set"}
  <1>5. 0 \in there
    BY <1>1, <1>3
  <1>6. ASSUME NEW i \in 1..n, i - 1 \in there
        PROVE  i \in there
    <2>1. row[i - 1].exists <=> d.exists \/ \E j \in 1..(i - 1) : writes[j].kind = "set"
      BY <1>6
    <2>2. i \in 0..n /\ i \in 1..i /\ \A j \in 1..i : j = i \/ j \in 1..(i - 1)
      BY <1>1
    <2>3. \A j \in 1..(i - 1) : j \in 1..i
      BY <1>1
    <2>. QED
      BY <1>4, <2>1, <2>2, <2>3
  <1>7. n \in there
    <2>1. 0..n \subseteq there
      <3>. HIDE DEF there
      <3>. QED
        BY <1>1, <1>5, <1>6, UpTo
    <2>. QED
      BY <1>1, <2>1
  <1>. QED
    BY <1>1, <1>2, <1>7

LEMMA InitFounder == Init => OneFounder
  <1>. SUFFICES ASSUME Init
                PROVE  OneFounder
    OBVIOUS
  <1>1. DOMAIN queue = {}
    <2>1. DOMAIN <<>> = {}
      OBVIOUS
    <2>. QED
      BY <2>1, Zenon DEF Init
  <1>. QED
    BY <1>1 DEF Init, OneFounder

\* The oldest write goes, written or refused.
LEMMA ShorterFounder ==
  ASSUME TypeOK, OneFounder, queue # <<>>, queue' = Tail(queue), replaced' = replaced,
         doc' = doc \/ doc' = Written(doc, queue[1])
  PROVE  OneFounder'
  <1>. DEFINE n == Len(queue)
  <1>1. /\ n \in Nat /\ DOMAIN queue = 1..n /\ DOMAIN queue' = 1..(n - 1) /\ 1 \in 1..n
        /\ \A i \in 1..(n - 1) : queue'[i] = queue[i + 1] /\ i + 1 \in 1..n
        /\ doc \in Document /\ queue[1] \in Write
    BY QueueParts, QueueHead
  <1>. HIDE DEF n
  <1>2. doc'.exists => doc.exists \/ queue[1].kind = "set"
    BY <1>1, WrittenExists
  <1>3. doc'.keys # {} => doc'.exists
    <2>1. CASE doc' = doc
      BY <2>1 DEF OneFounder
    <2>2. CASE doc' = Written(doc, queue[1])
      <3>1. doc'.exists <=> doc.exists \/ queue[1].kind = "set"
        BY <1>1, <2>2, WrittenExists
      <3>2. ~doc'.exists => doc' = doc
        BY <2>2, <3>1, <1>1 DEF Written, Write
      <3>. QED
        BY <3>1, <3>2 DEF OneFounder
    <2>. QED
      BY <2>1, <2>2
  <1>4. ASSUME ~replaced, NEW i \in 1..(n - 1), queue'[i].kind = "set"
        PROVE  ~doc'.exists /\ \A j \in 1..(n - 1) : queue'[j].kind = "set" => i = j
    <2>1. queue[i + 1].kind = "set" /\ i + 1 \in 1..n /\ i + 1 # 1
      BY <1>1, <1>4
    <2>2. ~doc.exists /\ \A j \in 1..n : queue[j].kind = "set" => i + 1 = j
      BY <1>1, <1>4, <2>1 DEF OneFounder
    <2>3. ~doc'.exists
      BY <1>1, <1>2, <2>1, <2>2
    <2>4. ASSUME NEW j \in 1..(n - 1), queue'[j].kind = "set"
          PROVE  i = j
      <3>1. i + 1 = j + 1
        BY <1>1, <2>2, <2>4
      <3>. QED
        BY <3>1
    <2>. QED
      BY <2>3, <2>4
  <1>. QED
    BY <1>1, <1>3, <1>4 DEF OneFounder

LEMMA LongerFounder ==
  ASSUME TypeOK, OneFounder, NEW w \in Write, queue' = Append(queue, w), doc' = doc,
         replaced => replaced', w.kind = "set" /\ ~replaced' => ~Local.exists
  PROVE  OneFounder'
  <1>. DEFINE n == Len(queue)
  <1>1. /\ n \in Nat /\ DOMAIN queue = 1..n /\ DOMAIN queue' = 1..(n + 1)
        /\ queue'[n + 1] = w /\ \A i \in 1..n : queue'[i] = queue[i]
        /\ \A i \in 1..(n + 1) : i = n + 1 \/ i \in 1..n
        /\ doc \in Document /\ queue \in Seq(Write)
    BY QueueParts
  <1>. HIDE DEF n
  <1>2. doc'.keys # {} => doc'.exists
    BY DEF OneFounder
  <1>3. ASSUME ~replaced', NEW i \in 1..(n + 1), queue'[i].kind = "set"
        PROVE  ~doc'.exists /\ \A j \in 1..(n + 1) : queue'[j].kind = "set" => i = j
    <2>1. CASE w.kind = "set"
      <3>1. ~doc.exists /\ \A j \in 1..n : queue[j].kind # "set"
        BY <1>1, <1>3, <2>1, ReplayExists DEF Local
      <3>. QED
        BY <1>1, <1>3, <3>1
    <2>2. CASE w.kind # "set"
      <3>1. i \in 1..n /\ queue[i].kind = "set"
        BY <1>1, <1>3, <2>2
      <3>2. ~doc.exists /\ \A j \in 1..n : queue[j].kind = "set" => i = j
        BY <1>1, <1>3, <3>1 DEF OneFounder
      <3>. QED
        BY <1>1, <2>2, <3>2
    <2>. QED
      BY <2>1, <2>2
  <1>. QED
    BY <1>1, <1>2, <1>3 DEF OneFounder

LEMMA StepFounder ==
  ASSUME TypeOK, OneFounder, [ProfileNext]_profileVars
  PROVE  OneFounder'
  <1>1. ASSUME doc' = doc, queue' = queue, replaced' = replaced
        PROVE  OneFounder'
    BY <1>1 DEF OneFounder
  <1>2. CASE UNCHANGED profileVars
    BY <1>1, <1>2 DEF profileVars, vars
  <1>3. ASSUME NEW u \in Users, UserAnswered(u) \/ PageFails(u) \/ FirstSnapshot(u)
                                \/ PostsChanged(u) \/ ChangeView(u)
        PROVE  OneFounder'
    BY <1>1, <1>3 DEF UserAnswered, PageFails, FirstSnapshot, PostsChanged, ChangeView,
                      Snapshot, Reload, vars
  <1>4. ASSUME NEW u \in Users, LookAnswered(u) \/ PressAnswered(u)
        PROVE  OneFounder'
    BY <1>1, <1>4 DEF LookAnswered, PressAnswered
  <1>5. CASE LookRuns \/ DoneRuns
    BY <1>1, <1>5 DEF LookRuns, DoneRuns
  <1>6. ASSUME NEW u \in Users, Press(u)
        PROVE  OneFounder'
    <2>. DEFINE w == [kind |-> "delete", user |-> u, live |-> TRUE]
    <2>1. w \in Write /\ w.kind = "delete"
      BY DEF Write
    <2>2. CASE title[u] = "Unfollow"
      <3>1. queue' = Append(queue, w) /\ doc' = doc /\ replaced' = replaced
        BY <1>6, <2>2 DEF Press
      <3>. HIDE DEF w
      <3>. QED
        BY <2>1, <3>1, LongerFounder
    <2>3. CASE title[u] # "Unfollow"
      BY <1>1, <1>6, <2>3 DEF Press
    <2>. QED
      BY <2>2, <2>3
  <1>7. CASE PressRuns
    <2>. DEFINE c == Head(main)
                w == [kind |-> IF c.saw = "document" THEN "update" ELSE "set",
                      user |-> c.user, live |-> TRUE]
    <2>1. /\ queue' = Append(queue, w) /\ doc' = doc /\ c.what = "press" /\ main # <<>>
          /\ replaced' = (replaced \/ (c.saw = "nothing" /\ Local.exists))
      BY <1>7 DEF PressRuns, NextCallback
    <2>2. c \in Callback
      BY <2>1, Sequel DEF TypeOK
    <2>3. c.user \in Users /\ c.saw \in {"nothing", "document"}
      BY <2>1, <2>2 DEF Callback
    <2>4. w \in Write /\ (w.kind = "set" => c.saw = "nothing")
      BY <2>3 DEF Write
    <2>. HIDE DEF w, c
    <2>. QED
      BY <2>1, <2>4, LongerFounder
  <1>8. CASE Committed
    <2>1. queue # <<>> /\ Head(queue) = queue[1]
      BY <1>8, QueueHead DEF Committed
    <2>2. queue' = Tail(queue) /\ doc' = Written(doc, queue[1]) /\ replaced' = replaced
      BY <1>8, <2>1 DEF Committed
    <2>. QED
      BY <2>1, <2>2, ShorterFounder
  <1>9. CASE Fails
    <2>1. doc' = doc /\ replaced' = replaced
      BY <1>9 DEF Fails
    <2>2. queue' = queue \/ (queue # <<>> /\ queue' = Tail(queue))
      BY <1>9 DEF Fails
    <2>. QED
      BY <1>1, <2>1, <2>2, ShorterFounder
  <1>10. CASE PagesRestart
    <2>1. doc' = doc /\ replaced' = replaced
      BY <1>10 DEF PagesRestart, Restart
    <2>2. /\ DOMAIN queue' = DOMAIN queue
          /\ \A i \in DOMAIN queue : queue'[i].kind = queue[i].kind
      <3>1. queue' = [i \in DOMAIN queue |-> [queue[i] EXCEPT !.live = FALSE]]
        BY <1>10 DEF PagesRestart, Restart
      <3>2. \A i \in DOMAIN queue : queue[i] \in Write
        BY QueueParts
      <3>3. \A w \in Write : [w EXCEPT !.live = FALSE].kind = w.kind
        BY DEF Write
      <3>. QED
        BY <3>1, <3>2, <3>3
    <2>. QED
      BY <2>1, <2>2 DEF OneFounder
  <1>11. CASE Buttons
    BY <1>4, <1>5, <1>6, <1>7, <1>8, <1>9, <1>11 DEF Buttons
  <1>. QED
    BY <1>2, <1>3, <1>10, <1>11 DEF ProfileNext

LEMMA StepKept ==
  ASSUME TypeOK, OneFounder, ~replaced, [ProfileNext]_profileVars
  PROVE  OthersKept
  <1>1. ASSUME doc' = doc
        PROVE  OthersKept
    BY <1>1 DEF OthersKept
  <1>2. ASSUME Committed
        PROVE  OthersKept
    <2>. DEFINE w == queue[1]
    <2>1. queue # <<>> /\ Head(queue) = w /\ w \in Write /\ 1 \in DOMAIN queue
      BY <1>2, QueueHead DEF Committed
    <2>2. doc' = Written(doc, w) /\ doc \in Document
      BY <1>2, <2>1, QueueParts DEF Committed
    <2>3. CASE w.kind = "set"
      <3>1. doc.keys = {}
        BY <2>1, <2>3 DEF OneFounder
      <3>2. doc'.keys = {w.user}
        BY <2>1, <2>2, <2>3, WrittenKeys
      <3>. QED
        BY <2>1, <3>1, <3>2 DEF OthersKept
    <2>4. CASE w.kind # "set" /\ doc.exists
      <3>1. \A u \in Users : u # w.user => (u \in doc'.keys <=> u \in doc.keys)
        BY <2>1, <2>2, <2>4, WrittenKeys
      <3>. QED
        BY <2>1, <3>1 DEF OthersKept
    <2>5. CASE w.kind # "set" /\ ~doc.exists
      <3>1. doc' = doc
        BY <2>1, <2>2, <2>5 DEF Written, Write
      <3>. QED
        BY <1>1, <3>1
    <2>. QED
      BY <2>3, <2>4, <2>5
  <1>3. ~Committed => doc' = doc
    BY DEF ProfileNext, profileVars, vars, UserAnswered, PageFails, FirstSnapshot,
           PostsChanged, ChangeView, Snapshot, Reload, Buttons, PagesRestart, Press,
           LookAnswered, PressAnswered, LookRuns, PressRuns, DoneRuns, Fails, Restart
  <1>. QED
    BY <1>1, <1>2, <1>3

\* btnProfile_Follow_Edit chooses setData by a read answered earlier: only where that
\* has been issued over a document that is there by now can following or unfollowing
\* one user lose another.
THEOREM FollowsAreApart == ProfileSpec => FollowsApart
  <1>1. ProfileInit => TypeOK /\ OneFounder
    BY InitTyped, InitFounder DEF ProfileInit
  <1>2. TypeOK /\ OneFounder /\ [ProfileNext]_profileVars => TypeOK' /\ OneFounder'
    BY StepTyped, StepFounder
  <1>3. TypeOK /\ OneFounder /\ [ProfileNext]_profileVars => [~replaced => OthersKept]_vars
    BY StepKept
  <1>. QED
    BY <1>1, <1>2, <1>3, PTL DEF ProfileSpec, FollowsApart
=============================================================================
