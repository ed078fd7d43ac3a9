---------------------------- MODULE ShareProofs ----------------------------
(***************************************************************************)
(* For any number of forms and accounts: a form shares once, what it       *)
(* shares has its photo, and the modal closes under it only for that.      *)
(***************************************************************************)
EXTENDS Share, TLAPS

IInv == TypeOK /\ OnePostPerForm /\ PhotoBehindPost

LEMMA Initially == Init => IInv
  BY ShareAssumption
     DEF Init, IInv, TypeOK, Huds, OnePostPerForm, PhotoBehindPost, Underway

(* The counters first: then the rest of a step has no arithmetic in it. *)

Limits == failures \in Nat /\ signOuts \in Nat /\ relaunches \in Nat

Counters ==
    /\ puts \in [Forms -> Nat] /\ urls \in [Forms -> Nat] /\ saves \in [Forms -> Nat]
    /\ stored \in [Forms -> Nat] /\ posts \in [Forms -> Nat]

LEMMA LimitsNext == Limits /\ [Next]_vars => Limits'
  <1>. SUFFICES ASSUME Limits, [Next]_vars PROVE Limits'
    OBVIOUS
  <1>. USE DEF Limits, counts
  <1>1. CASE LogOut
    BY <1>1 DEF LogOut
  <1>2. CASE Navigating /\ ~LogOut
    BY <1>2 DEF Navigating, OpenChooser, Back, Cancel, NextPressed, SignIn
  <1>3. ASSUME NEW f \in Forms, Type(f) \/ btnSharePressed(f) \/ HudGone(f) PROVE Limits'
    BY <1>3 DEF Type, btnSharePressed, HudGone
  <1>4. ASSUME NEW f \in Forms, Answering(f) PROVE Limits'
    <2>1. CASE PutDone(f) \/ UrlDone(f) \/ SaveDone(f)
      BY <2>1 DEF PutDone, UrlDone, SaveDone
    <2>2. ASSUME ~(PutDone(f) \/ UrlDone(f) \/ SaveDone(f)) PROVE Limits'
      <3>1. failures' = failures + 1 /\ signOuts' = signOuts /\ relaunches' = relaunches
        BY <1>4, <2>2 DEF Answering, PutFails, UrlFails, SaveRefused
      <3>. QED
        BY <3>1
    <2>. QED
      BY <2>1, <2>2
  <1>5. CASE Relaunch
    BY <1>5 DEF Relaunch
  <1>6. CASE UNCHANGED vars
    BY <1>6 DEF vars
  <1>. QED
    BY <1>1, <1>2, <1>3, <1>4, <1>5, <1>6 DEF Next

LEMMA CountUp ==
    ASSUME NEW c \in [Forms -> Nat], NEW f \in Forms, NEW n \in Nat
    PROVE  [c EXCEPT ![f] = @ + n] \in [Forms -> Nat]
  OBVIOUS

LEMMA CountDown ==
    ASSUME NEW c \in [Forms -> Nat], NEW f \in Forms, c[f] > 0
    PROVE  [c EXCEPT ![f] = @ - 1] \in [Forms -> Nat]
  OBVIOUS

LEMMA CountersNext == Counters /\ [Next]_vars => Counters'
  <1>. SUFFICES ASSUME Counters, [Next]_vars PROVE Counters'
    OBVIOUS
  <1>. USE DEF Counters, calls, backend
  <1>1. CASE Navigating
    BY <1>1 DEF Navigating, OpenChooser, Back, Cancel, LogOut, NextPressed, SignIn
  <1>2. ASSUME NEW f \in Forms, Type(f) \/ HudGone(f) PROVE Counters'
    BY <1>2 DEF Type, HudGone
  <1>3. ASSUME NEW f \in Forms, btnSharePressed(f) PROVE Counters'
    <2>1. PICK n \in Nat : puts' = [puts EXCEPT ![f] = @ + n]
      <3>1. (IF f \in photo THEN 1 ELSE 0) \in Nat
        OBVIOUS
      <3>. QED
        BY <1>3, <3>1 DEF btnSharePressed
    <2>2. UNCHANGED <<urls, saves, stored, posts>>
      BY <1>3 DEF btnSharePressed
    <2>. QED
      BY <2>1, <2>2, CountUp
  <1>4. ASSUME NEW f \in Forms, Answering(f) PROVE Counters'
    <2>1. CASE PutDone(f)
      <3>1. /\ puts[f] > 0
            /\ puts' = [puts EXCEPT ![f] = @ - 1]
            /\ urls' = [urls EXCEPT ![f] = @ + 1]
            /\ stored' = [stored EXCEPT ![f] = @ + 1]
            /\ saves' = saves /\ posts' = posts
        BY <2>1 DEF PutDone
      <3>2. puts' \in [Forms -> Nat]
        BY <3>1, CountDown
      <3>3. urls' \in [Forms -> Nat] /\ stored' \in [Forms -> Nat]
        BY <3>1, CountUp
      <3>. QED
        BY <3>1, <3>2, <3>3
    <2>2. ASSUME NEW kept \in {0, 1}, PutFails(f, kept) PROVE Counters'
      <3>1. /\ puts[f] > 0
            /\ puts' = [puts EXCEPT ![f] = @ - 1]
            /\ stored' = [stored EXCEPT ![f] = @ + kept]
            /\ urls' = urls /\ saves' = saves /\ posts' = posts
        BY <2>2 DEF PutFails
      <3>2. puts' \in [Forms -> Nat]
        BY <3>1, CountDown
      <3>3. stored' \in [Forms -> Nat]
        BY <3>1, CountUp
      <3>. QED
        BY <3>1, <3>2, <3>3
    <2>3. CASE UrlDone(f)
      <3>1. /\ urls[f] > 0
            /\ urls' = [urls EXCEPT ![f] = @ - 1]
            /\ saves' = saves \/ saves' = [saves EXCEPT ![f] = @ + 1]
            /\ UNCHANGED <<puts, stored, posts>>
        BY <2>3 DEF UrlDone
      <3>2. urls' \in [Forms -> Nat]
        BY <3>1, CountDown
      <3>3. saves' \in [Forms -> Nat]
        BY <3>1, CountUp
      <3>. QED
        BY <3>1, <3>2, <3>3
    <2>4. CASE UrlFails(f)
      <3>1. urls[f] > 0 /\ urls' = [urls EXCEPT ![f] = @ - 1]
            /\ UNCHANGED <<puts, saves, stored, posts>>
        BY <2>4 DEF UrlFails
      <3>. QED
        BY <3>1, CountDown
    <2>5. CASE SaveDone(f)
      BY <2>5 DEF SaveDone
    <2>6. CASE SaveRefused(f)
      BY <2>6 DEF SaveRefused
    <2>. QED
      BY <1>4, <2>1, <2>2, <2>3, <2>4, <2>5, <2>6 DEF Answering
  <1>5. CASE Relaunch
    BY <1>5 DEF Relaunch
  <1>6. CASE UNCHANGED vars
    BY <1>6 DEF vars
  <1>. QED
    BY <1>1, <1>2, <1>3, <1>4, <1>5, <1>6 DEF Next

LEMMA Typed ==
    ASSUME TypeOK, [Next]_vars
    PROVE  TypeOK'
  <1>0. Limits' /\ Counters'
    <2>1. Limits /\ Counters
      BY DEF TypeOK, Limits, Counters
    <2>. QED
      BY <2>1, LimitsNext, CountersNext
  <1>. USE <1>0 DEF TypeOK, Huds, Limits, Counters, nav, screen, calls, backend, people, counts
  <1>1. CASE Navigating
    <2>1. CASE OpenChooser \/ Back \/ Cancel
      BY <2>1 DEF OpenChooser, Back, Cancel
    <2>2. CASE LogOut
      BY <2>2 DEF LogOut
    <2>3. ASSUME NEW f \in Forms, NEW chosen \in SUBSET {f}, NextPressed(f, chosen)
          PROVE  TypeOK'
      BY <2>3 DEF NextPressed
    <2>4. ASSUME NEW a \in Accounts, SignIn(a) PROVE TypeOK'
      BY <2>4 DEF SignIn
    <2>. QED
      BY <1>1, <2>1, <2>2, <2>3, <2>4 DEF Navigating
  <1>2. ASSUME NEW f \in Forms, Type(f) PROVE TypeOK'
    BY <1>2 DEF Type
  <1>3. ASSUME NEW f \in Forms, btnSharePressed(f) PROVE TypeOK'
    BY <1>3 DEF btnSharePressed
  <1>4. ASSUME NEW f \in Forms, Answering(f) PROVE TypeOK'
    <2>1. CASE PutDone(f)
      BY <2>1 DEF PutDone
    <2>2. ASSUME NEW kept \in {0, 1}, PutFails(f, kept) PROVE TypeOK'
      BY <2>2 DEF PutFails
    <2>3. CASE UrlDone(f)
      <3>1. owner' \in [Forms -> Accounts \cup {Nobody}]
        BY <2>3 DEF UrlDone
      <3>. QED
        BY <2>3, <3>1 DEF UrlDone
    <2>4. CASE UrlFails(f)
      BY <2>4 DEF UrlFails
    <2>5. CASE SaveDone(f)
      BY <2>5 DEF SaveDone
    <2>6. CASE SaveRefused(f)
      BY <2>6 DEF SaveRefused
    <2>. QED
      BY <1>4, <2>1, <2>2, <2>3, <2>4, <2>5, <2>6 DEF Answering
  <1>5. ASSUME NEW f \in Forms, HudGone(f) PROVE TypeOK'
    BY <1>5 DEF HudGone
  <1>6. CASE Relaunch
    BY <1>6 DEF Relaunch
  <1>7. CASE UNCHANGED vars
    BY <1>7 DEF vars
  <1>. QED
    BY <1>1, <1>2, <1>3, <1>4, <1>5, <1>6, <1>7 DEF Next

----------------------------------------------------------------------------
(* The two invariants, form by form. *)

\* The counters and the button of form g, which the two invariants are about.
Balanced(g) ==
    /\ puts[g] + urls[g] + saves[g] + posts[g] <= 1
    /\ g \in enabled => puts[g] + urls[g] + saves[g] + posts[g] = 0
    /\ urls[g] + saves[g] + posts[g] <= stored[g]

LEMMA BalancedIsBoth ==
    ASSUME Counters
    PROVE  (OnePostPerForm /\ PhotoBehindPost) <=> \A g \in Forms : Balanced(g)
  BY DEF Counters, OnePostPerForm, PhotoBehindPost, Underway, Balanced

\* An answer to form f leaves every other form as it is, and f balanced.
LEMMA AnswerKeeps ==
    ASSUME Counters, NEW f \in Forms, Answering(f), NEW g \in Forms, Balanced(g)
    PROVE  Balanced(g)'
  <1>. USE DEF Counters, Balanced, calls, backend, screen
  <1>1. CASE PutDone(f)
    <2>1. /\ puts' = [puts EXCEPT ![f] = @ - 1]
          /\ urls' = [urls EXCEPT ![f] = @ + 1]
          /\ stored' = [stored EXCEPT ![f] = @ + 1]
          /\ UNCHANGED <<saves, posts, enabled>>
      BY <1>1 DEF PutDone
    <2>2. CASE g = f
      <3>1. puts'[g] = puts[g] - 1 /\ urls'[g] = urls[g] + 1 /\ stored'[g] = stored[g] + 1
        BY <2>1, <2>2
      <3>. QED
        BY <2>1, <3>1
    <2>3. CASE g # f
      <3>1. puts'[g] = puts[g] /\ urls'[g] = urls[g] /\ stored'[g] = stored[g]
        BY <2>1, <2>3
      <3>. QED
        BY <2>1, <3>1
    <2>. QED
      BY <2>2, <2>3
  <1>2. ASSUME NEW kept \in {0, 1}, PutFails(f, kept) PROVE Balanced(g)'
    <2>1. /\ puts[f] > 0
          /\ puts' = [puts EXCEPT ![f] = @ - 1]
          /\ stored' = [stored EXCEPT ![f] = @ + kept]
          /\ enabled' = enabled \cup {f}
          /\ UNCHANGED <<urls, saves, posts>>
      BY <1>2 DEF PutFails
    <2>2. CASE g = f
      <3>1. /\ puts'[g] = puts[g] - 1 /\ stored'[g] = stored[g] + kept
            /\ puts[g] > 0 /\ kept \in Nat
        BY <2>1, <2>2
      <3>2. /\ urls'[g] = urls[g] /\ saves'[g] = saves[g] /\ posts'[g] = posts[g]
            /\ puts[g] \in Nat /\ urls[g] \in Nat /\ saves[g] \in Nat /\ posts[g] \in Nat
            /\ stored[g] \in Nat
        BY <2>1
      <3>3. puts'[g] = 0 /\ urls'[g] = 0 /\ saves'[g] = 0 /\ posts'[g] = 0
        BY <3>1, <3>2
      <3>4. stored'[g] \in Nat
        BY <3>1, <3>2
      <3>. QED
        BY <3>3, <3>4
    <2>3. CASE g # f
      <3>1. puts'[g] = puts[g] /\ stored'[g] = stored[g] /\ (g \in enabled' => g \in enabled)
        BY <2>1, <2>3
      <3>. QED
        BY <2>1, <3>1
    <2>. QED
      BY <2>2, <2>3
  <1>3. CASE UrlDone(f)
    <2>1. /\ urls' = [urls EXCEPT ![f] = @ - 1]
          /\ saves' = saves \/ saves' = [saves EXCEPT ![f] = @ + 1]
          /\ UNCHANGED <<puts, stored, posts, enabled>>
      BY <1>3 DEF UrlDone
    <2>2. CASE g = f
      <3>1. /\ urls'[g] = urls[g] - 1
            /\ saves'[g] = saves[g] \/ saves'[g] = saves[g] + 1
            /\ puts'[g] = puts[g] /\ stored'[g] = stored[g] /\ posts'[g] = posts[g]
        BY <2>1, <2>2
      <3>2. /\ puts[g] \in Nat /\ urls[g] \in Nat /\ saves[g] \in Nat /\ posts[g] \in Nat
            /\ stored[g] \in Nat
        OBVIOUS
      <3>3. urls[g] > 0
        BY <1>3, <2>2 DEF UrlDone
      <3>4. g \notin enabled'
        BY <2>1, <3>2, <3>3
      <3>5. CASE saves'[g] = saves[g]
        BY <3>1, <3>2, <3>4, <3>5
      <3>6. CASE saves'[g] = saves[g] + 1
        BY <3>1, <3>2, <3>4, <3>6
      <3>. QED
        BY <3>1, <3>5, <3>6
    <2>3. CASE g # f
      <3>1. urls'[g] = urls[g] /\ saves'[g] = saves[g]
        BY <2>1, <2>3
      <3>. QED
        BY <2>1, <3>1
    <2>. QED
      BY <2>2, <2>3
  <1>4. CASE UrlFails(f)
    <2>1. /\ urls[f] > 0 /\ urls' = [urls EXCEPT ![f] = @ - 1]
          /\ UNCHANGED <<puts, saves, stored, posts, enabled>>
      BY <1>4 DEF UrlFails
    <2>2. urls'[g] = IF g = f THEN urls[g] - 1 ELSE urls[g]
      BY <2>1
    <2>. QED
      BY <2>1, <2>2
  <1>5. CASE SaveDone(f)
    BY <1>5 DEF SaveDone
  <1>6. CASE SaveRefused(f)
    BY <1>6 DEF SaveRefused
  <1>. QED
    BY <1>1, <1>2, <1>3, <1>4, <1>5, <1>6 DEF Answering

LEMMA BalancedNext ==
    ASSUME Counters, [Next]_vars, NEW g \in Forms, Balanced(g)
    PROVE  Balanced(g)'
  <1>. USE DEF calls, backend, screen
  <1>0. CASE UNCHANGED <<puts, urls, saves, stored, posts, enabled>>
    BY <1>0 DEF Balanced
  <1>1. CASE Navigating
    BY <1>0, <1>1 DEF Navigating, OpenChooser, Back, Cancel, LogOut, NextPressed, SignIn
  <1>2. ASSUME NEW f \in Forms, Type(f) \/ HudGone(f) PROVE Balanced(g)'
    BY <1>0, <1>2 DEF Type, HudGone
  <1>3. ASSUME NEW f \in Forms, btnSharePressed(f) PROVE Balanced(g)'
    <2>1. /\ f \in enabled /\ enabled' = enabled \ {f}
          /\ puts' = [puts EXCEPT ![f] = @ + IF f \in photo THEN 1 ELSE 0]
          /\ UNCHANGED <<urls, saves, stored, posts>>
      BY <1>3 DEF btnSharePressed
    <2>2. CASE g = f
      <3>1. (puts'[g] = puts[g] \/ puts'[g] = puts[g] + 1) /\ g \notin enabled'
        BY <2>1, <2>2 DEF Counters
      <3>. QED
        BY <2>1, <2>2, <3>1 DEF Counters, Balanced
    <2>3. CASE g # f
      <3>1. puts'[g] = puts[g] /\ (g \in enabled' => g \in enabled)
        BY <2>1, <2>3 DEF Counters
      <3>. QED
        BY <2>1, <3>1 DEF Counters, Balanced
    <2>. QED
      BY <2>2, <2>3
  <1>4. ASSUME NEW f \in Forms, Answering(f) PROVE Balanced(g)'
    BY <1>4, AnswerKeeps
  <1>5. CASE Relaunch
    BY <1>5 DEF Relaunch, Counters, Balanced
  <1>6. CASE UNCHANGED vars
    BY <1>0, <1>6 DEF vars
  <1>. QED
    BY <1>1, <1>2, <1>3, <1>4, <1>5, <1>6 DEF Next

LEMMA Inductive == IInv /\ [Next]_vars => IInv'
  <1>. SUFFICES ASSUME IInv, [Next]_vars PROVE IInv'
    OBVIOUS
  <1>1. TypeOK'
    BY Typed DEF IInv
  <1>2. Counters /\ Counters'
    BY <1>1 DEF IInv, TypeOK, Counters
  <1>3. \A g \in Forms : Balanced(g)
    BY <1>2, BalancedIsBoth DEF IInv
  <1>4. \A g \in Forms : Balanced(g)'
    BY <1>2, <1>3, BalancedNext
  <1>5. (OnePostPerForm /\ PhotoBehindPost)'
    BY <1>2, <1>4 DEF Counters, OnePostPerForm, PhotoBehindPost, Underway, Balanced
  <1>. QED
    BY <1>1, <1>5 DEF IInv

\* Every value of the sharing forms has its type.
THEOREM TypeCorrect == Spec => []TypeOK
  <1>1. IInv => TypeOK
    BY DEF IInv
  <1>. QED
    BY <1>1, Initially, Inductive, PTL DEF Spec

\* A form has at most one upload under way or turned into a document.
THEOREM SharesOnce == Spec => []OnePostPerForm
  <1>1. IInv => OnePostPerForm
    BY DEF IInv
  <1>. QED
    BY <1>1, Initially, Inductive, PTL DEF Spec

\* No document of Photo_Posts is queued or saved without its photo in Storage.
THEOREM PhotoFirst == Spec => []PhotoBehindPost
  <1>1. IInv => PhotoBehindPost
    BY DEF IInv
  <1>. QED
    BY <1>1, Initially, Inductive, PTL DEF Spec

LEMMA ClosingStep ==
    ASSUME TypeOK, [Next]_vars, NEW f \in Forms, top = f, top' = "closed"
    PROVE  posts'[f] > posts[f] \/ relaunches' > relaunches
  <1>0. f # "closed" /\ f # "chooser"
    BY ShareAssumption
  <1>1. top' # top
    BY <1>0
  <1>2. CASE Navigating
    BY <1>0, <1>2 DEF Navigating, OpenChooser, Back, Cancel, LogOut, NextPressed, SignIn
  <1>3. ASSUME NEW g \in Forms, Type(g) \/ btnSharePressed(g) \/ HudGone(g) PROVE FALSE
    BY <1>1, <1>3 DEF Type, btnSharePressed, HudGone, nav
  <1>4. ASSUME NEW g \in Forms, Answering(g) PROVE posts'[f] > posts[f]
    <2>1. SaveDone(g)
      BY <1>1, <1>4 DEF Answering, PutDone, PutFails, UrlDone, UrlFails, SaveRefused, nav
    <2>2. g = f /\ posts' = [posts EXCEPT ![g] = @ + 1]
      BY <1>1, <2>1 DEF SaveDone
    <2>3. posts'[f] = posts[f] + 1 /\ posts[f] \in Nat
      BY <2>2 DEF TypeOK
    <2>. QED
      BY <2>3
  <1>5. CASE Relaunch
    <2>1. relaunches' = relaunches + 1 /\ relaunches \in Nat
      BY <1>5 DEF Relaunch, TypeOK
    <2>. QED
      BY <2>1
  <1>6. CASE UNCHANGED vars
    BY <1>1, <1>6 DEF vars, nav
  <1>. QED
    BY <1>2, <1>3, <1>4, <1>5, <1>6 DEF Next

\* The modal closes under a form only when that form's post has been saved.
THEOREM ClosesForItsPost == Spec => ClosesWhenSaved
  <1>1. TypeOK /\ [Next]_vars =>
            \A f \in Forms : top = f /\ top' = "closed" =>
                posts'[f] > posts[f] \/ relaunches' > relaunches
    BY ClosingStep
  <1>. QED
    BY <1>1, TypeCorrect, PTL DEF Spec, ClosesWhenSaved

=============================================================================
