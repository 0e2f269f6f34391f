-------------------------- MODULE RateLimiterProofs --------------------------
(***************************************************************************)
(* Theorems about RateLimiter, for any addresses, limit, window and number *)
(* of restarts.  The windows of an address do not overlap, an attempt that *)
(* is let through takes a number of its window that nobody has, and those  *)
(* numbers end at the limit.                                               *)
(***************************************************************************)
EXTENDS RateLimiter, FiniteSetTheorems, TLAPS

-----------------------------------------------------------------------------
(* The invariant.                                                          *)

Rivals(x, y) == x.address = y.address /\ x.life = y.life

\* An attempt lies in the window it was counted in, within its limit.
Timely ==
  \A x \in admitted :
    /\ x.began <= x.at /\ x.at < x.began + Window /\ x.at <= now
    /\ x.count \in 1 .. Limit /\ x.life <= life

\* Two windows of an address are a window apart, or the same one.
Apart ==
  \A x, y \in admitted : Rivals(x, y) =>
    x.began = y.began \/ x.began + Window <= y.began \/ y.began + Window <= x.began

\* A window lets through one attempt for each number.
Distinct ==
  \A x, y \in admitted : Rivals(x, y) /\ x.began = y.began /\ x.count = y.count => x = y

\* What the map has to do with this process's attempts: one is in the window the
\* map holds, and counted in it, or in one that has run out, before it began.
InMap(x) ==
  /\ x.address \in DOMAIN windows
  /\ windows[x.address].startedAt = x.began
  /\ x.count <= windows[x.address].count
Over(x) ==
  /\ x.began + Window <= now
  /\ x.address \in DOMAIN windows => x.began + Window <= windows[x.address].startedAt
Remembered == \A x \in admitted : x.life = life => InMap(x) \/ Over(x)

\* A window's numbers, as far as the limit, all went to attempts let through.
Taken(a, k) ==
  \E x \in admitted :
    x.address = a /\ x.life = life /\ x.began = windows[a].startedAt /\ x.count = k
AllTaken ==
  \A a \in DOMAIN windows :
    /\ windows[a].startedAt <= now
    /\ \A k \in 1 .. Limit : k <= windows[a].count => Taken(a, k)

IInv == TypeOK /\ Timely /\ Apart /\ Distinct /\ Remembered /\ AllTaken

-----------------------------------------------------------------------------
(* The invariant is inductive.                                             *)

\* What the map is after a call for `address`: the call has pruned it.
LEMMA PutFacts ==
  ASSUME NEW a, NEW w, windows' = Put(Prune, a, w)
  PROVE  /\ DOMAIN windows' = {b \in DOMAIN windows : ~Expired(windows[b])} \cup {a}
         /\ windows'[a] = w
         /\ \A b \in DOMAIN windows' : b # a => windows'[b] = windows[b]
BY DEF Put, Prune

\* A window is there to be counted in while it has not run out.
LEMMA CountFacts ==
  ASSUME TypeOK, NEW a \in Addresses, Count(a)
  PROVE  /\ a \in DOMAIN windows /\ ~Expired(windows[a])
         /\ windows[a] \in WindowType
         /\ Counted(a).startedAt = windows[a].startedAt
         /\ Counted(a).count = windows[a].count + 1
         /\ Counted(a) \in WindowType
<1>1. a \in DOMAIN windows /\ ~Expired(windows[a])
  BY DEF Count, Prune
<1>2. windows[a] \in WindowType /\ windows[a].count < MaxCount
  BY <1>1 DEF TypeOK, Count
<1>3. /\ Counted(a).startedAt = windows[a].startedAt
      /\ Counted(a).count = windows[a].count + 1
      /\ Counted(a) \in WindowType
  BY <1>2, RateLimiterAssumption DEF Counted, WindowType
<1> QED
  BY <1>1, <1>2, <1>3

LEMMA InitInv == Init => IInv
<1> SUFFICES ASSUME Init PROVE IInv
  OBVIOUS
<1>1. DOMAIN windows = {} /\ admitted = {} /\ now = 0 /\ life = 1
  BY DEF Init
<1>2. TypeOK
  BY <1>1, RateLimiterAssumption DEF TypeOK, Init
<1> QED
  BY <1>1, <1>2 DEF IInv, Timely, Apart, Distinct, Remembered, AllTaken

\* Types.
LEMMA NextType == TypeOK /\ [Next]_vars => TypeOK'
<1> SUFFICES ASSUME TypeOK, [Next]_vars PROVE TypeOK'
  OBVIOUS
<1>1. ASSUME NEW a \in Addresses, NEW w \in WindowType, windows' = Put(Prune, a, w)
      PROVE  /\ DOMAIN windows' \subseteq Addresses
             /\ windows' \in [DOMAIN windows' -> WindowType]
  <2>1. /\ DOMAIN windows' = {b \in DOMAIN windows : ~Expired(windows[b])} \cup {a}
        /\ windows'[a] = w
        /\ \A b \in DOMAIN windows' : b # a => windows'[b] = windows[b]
    BY <1>1, PutFacts
  <2>2. windows' = [b \in DOMAIN windows' |-> windows'[b]]
    BY <1>1 DEF Put
  <2> QED
    BY <2>1, <2>2 DEF TypeOK
<1>2. ASSUME NEW a \in Addresses, NEW w \in WindowType, LetThrough(a, w)
      PROVE  admitted' \subseteq AttemptType
  BY <1>2 DEF LetThrough, TypeOK, AttemptType, WindowType
<1>3. ASSUME NEW a \in Addresses, Begin(a) PROVE TypeOK'
  <2>1. [count |-> 1, startedAt |-> now] \in WindowType
    BY RateLimiterAssumption DEF TypeOK, WindowType
  <2> QED
    BY <1>1, <1>2, <1>3, <2>1 DEF Begin, TypeOK, AttemptType
<1>4. ASSUME NEW a \in Addresses, Admit(a) \/ Refuse(a) PROVE TypeOK'
  <2>1. Count(a)
    BY <1>4 DEF Admit, Refuse
  <2>2. Counted(a) \in WindowType
    BY <2>1, CountFacts
  <2>3. admitted' \subseteq AttemptType
    BY <1>2, <1>4, <2>2 DEF Admit, Refuse, TypeOK
  <2> QED
    BY <1>1, <2>1, <2>2, <2>3 DEF Count, TypeOK, AttemptType
<1>5. CASE Restart
  <2>1. /\ DOMAIN windows' = {}
        /\ windows' \in [DOMAIN windows' -> WindowType]
    BY <1>5 DEF Restart
  <2> QED
    BY <1>5, <2>1, RateLimiterAssumption DEF Restart, TypeOK, AttemptType
<1>6. CASE Tick
  BY <1>6, RateLimiterAssumption DEF Tick, TypeOK, AttemptType, WindowType
<1>7. CASE UNCHANGED vars
  BY <1>7 DEF vars, TypeOK, AttemptType, WindowType
<1> QED
  BY <1>3, <1>4, <1>5, <1>6, <1>7 DEF Next

\* The first attempt of a window: the last window has run out.
LEMMA BeginInv ==
  ASSUME IInv, TypeOK', NEW a \in Addresses, Begin(a)
  PROVE  IInv'
<1> DEFINE new == [address |-> a, life |-> life, at |-> now, began |-> now, count |-> 1]
<1>1. /\ now' = now /\ life' = life /\ admitted' = admitted \cup {new}
      /\ DOMAIN windows' = {b \in DOMAIN windows : ~Expired(windows[b])} \cup {a}
      /\ windows'[a] = [count |-> 1, startedAt |-> now]
      /\ \A b \in DOMAIN windows' : b # a => windows'[b] = windows[b]
  <2>1. windows' = Put(Prune, a, [count |-> 1, startedAt |-> now])
    BY DEF Begin
  <2>2. now' = now /\ life' = life /\ admitted' = admitted \cup {new}
    BY DEF Begin, LetThrough
  <2> QED
    BY <2>1, <2>2, PutFacts
<1>2. a \in DOMAIN windows => Expired(windows[a])
  BY DEF Begin, Prune
<1>3. now \in Nat /\ life \in Nat /\ Window \in Nat \ {0} /\ Limit \in Nat \ {0}
  BY RateLimiterAssumption DEF IInv, TypeOK
<1>4. \A x \in admitted : x \in AttemptType /\ x.began \in Nat /\ x.at \in Nat /\ x.count \in Nat
  BY DEF IInv, TypeOK, AttemptType
<1>5. \A b \in DOMAIN windows :
        /\ windows[b].startedAt \in Nat /\ windows[b].count \in Nat
        /\ Expired(windows[b]) <=> now - windows[b].startedAt >= Window
  BY DEF IInv, TypeOK, WindowType, Expired
<1>6. \A x \in admitted : x.address = a /\ x.life = life => x.began + Window <= now
  BY <1>2, <1>3, <1>4, <1>5 DEF IInv, Remembered, InMap, Over
<1>7. Timely'
  BY <1>1, <1>3, <1>4 DEF IInv, Timely
<1>8. Apart'
  BY <1>1, <1>3, <1>4, <1>6 DEF IInv, Apart, Rivals
<1>9. Distinct'
  BY <1>1, <1>3, <1>4, <1>6 DEF IInv, Distinct, Rivals
<1>10. Remembered'
  <2> SUFFICES ASSUME NEW x \in admitted', x.life = life
               PROVE  InMap(x)' \/ Over(x)'
    BY <1>1 DEF Remembered
  <2>1. CASE x = new
    BY <1>1, <1>3, <2>1 DEF InMap
  <2>2. CASE x \in admitted /\ x.address = a
    BY <1>1, <1>3, <1>6, <2>2 DEF Over
  <2>3. CASE x \in admitted /\ x.address # a
    <3>1. InMap(x) \/ Over(x)
      BY <2>3 DEF IInv, Remembered
    <3>2. CASE InMap(x) /\ Expired(windows[x.address])
      BY <1>1, <1>3, <1>4, <1>5, <2>3, <3>2 DEF InMap, Over
    <3>3. CASE InMap(x) /\ ~Expired(windows[x.address])
      BY <1>1, <2>3, <3>3 DEF InMap
    <3>4. CASE Over(x)
      BY <1>1, <2>3, <3>4 DEF Over
    <3> QED
      BY <3>1, <3>2, <3>3, <3>4
  <2> QED
    BY <1>1, <2>1, <2>2, <2>3
<1>11. AllTaken'
  <2> SUFFICES ASSUME NEW b \in DOMAIN windows'
               PROVE  /\ windows'[b].startedAt <= now
                      /\ \A k \in 1 .. Limit : k <= windows'[b].count => Taken(b, k)'
    BY <1>1 DEF AllTaken
  <2>1. CASE b = a
    <3>1. /\ new \in admitted' /\ new.address = a /\ new.life = life'
          /\ new.began = windows'[a].startedAt /\ new.count = 1
      BY <1>1
    <3>2. Taken(a, 1)'
      BY <3>1 DEF Taken
    <3> QED
      BY <1>1, <1>3, <2>1, <3>2
  <2>2. CASE b # a
    BY <1>1, <2>2 DEF IInv, AllTaken, Taken
  <2> QED
    BY <2>1, <2>2
<1> QED
  BY <1>7, <1>8, <1>9, <1>10, <1>11 DEF IInv

\* Another attempt in a window, let through with the next number, or refused
\* because the numbers have come to the limit.
LEMMA CountInv ==
  ASSUME IInv, TypeOK', NEW a \in Addresses, Admit(a) \/ Refuse(a)
  PROVE  IInv'
<1> DEFINE w == Counted(a)
           new == [address |-> a, life |-> life, at |-> now, began |-> w.startedAt, count |-> w.count]
<1>1. Count(a)
  BY DEF Admit, Refuse
<1>2. /\ a \in DOMAIN windows /\ ~Expired(windows[a])
      /\ w.startedAt = windows[a].startedAt /\ w.count = windows[a].count + 1
      /\ windows[a].startedAt \in Nat /\ windows[a].count \in Nat \ {0}
  BY <1>1, CountFacts DEF IInv, WindowType
<1> HIDE DEF w
<1>3. /\ now' = now /\ life' = life
      /\ DOMAIN windows' = {b \in DOMAIN windows : ~Expired(windows[b])} \cup {a}
      /\ windows'[a] = w
      /\ \A b \in DOMAIN windows' : b # a => windows'[b] = windows[b]
  <2>1. windows' = Put(Prune, a, w) /\ now' = now /\ life' = life
    BY <1>1 DEF Count, w
  <2> QED
    BY <2>1, PutFacts
<1>4. \/ admitted' = admitted \cup {new} /\ w.count <= Limit
      \/ admitted' = admitted /\ w.count > Limit
  BY DEF Admit, Refuse, LetThrough, w
<1>5. now \in Nat /\ life \in Nat /\ Window \in Nat \ {0} /\ Limit \in Nat \ {0}
  BY RateLimiterAssumption DEF IInv, TypeOK
<1>6. \A x \in admitted : x \in AttemptType /\ x.began \in Nat /\ x.at \in Nat /\ x.count \in Nat
  BY DEF IInv, TypeOK, AttemptType
<1>7. \A b \in DOMAIN windows :
        /\ windows[b].startedAt \in Nat /\ windows[b].count \in Nat
        /\ Expired(windows[b]) <=> now - windows[b].startedAt >= Window
  BY DEF IInv, TypeOK, WindowType, Expired
<1>8. now < w.startedAt + Window /\ w.startedAt <= now
  BY <1>2, <1>5, <1>7 DEF IInv, AllTaken
<1>9. \A x \in admitted : x.address = a /\ x.life = life =>
        \/ x.began = w.startedAt /\ x.count < w.count
        \/ x.began + Window <= w.startedAt
  BY <1>2, <1>5, <1>6 DEF IInv, Remembered, InMap, Over
<1>10. Timely'
  BY <1>2, <1>3, <1>4, <1>5, <1>6, <1>8 DEF IInv, Timely
<1>11. Apart'
  BY <1>2, <1>3, <1>4, <1>5, <1>6, <1>9 DEF IInv, Apart, Rivals
<1>12. Distinct'
  BY <1>2, <1>3, <1>4, <1>5, <1>6, <1>9 DEF IInv, Distinct, Rivals
<1>13. Remembered'
  <2> SUFFICES ASSUME NEW x \in admitted', x.life = life
               PROVE  InMap(x)' \/ Over(x)'
    BY <1>3 DEF Remembered
  <2>1. CASE x = new
    BY <1>2, <1>3, <2>1 DEF InMap
  <2>2. CASE x \in admitted /\ x.address = a
    BY <1>2, <1>3, <1>5, <1>6, <1>8, <1>9, <2>2 DEF Over, InMap
  <2>3. CASE x \in admitted /\ x.address # a
    <3>1. InMap(x) \/ Over(x)
      BY <2>3 DEF IInv, Remembered
    <3>2. CASE InMap(x) /\ Expired(windows[x.address])
      BY <1>3, <1>5, <1>6, <1>7, <2>3, <3>2 DEF InMap, Over
    <3>3. CASE InMap(x) /\ ~Expired(windows[x.address])
      BY <1>3, <2>3, <3>3 DEF InMap
    <3>4. CASE Over(x)
      BY <1>3, <2>3, <3>4 DEF Over
    <3> QED
      BY <3>1, <3>2, <3>3, <3>4
  <2> QED
    BY <1>4, <2>1, <2>2, <2>3
<1>14. AllTaken'
  <2> SUFFICES ASSUME NEW b \in DOMAIN windows'
               PROVE  /\ windows'[b].startedAt <= now
                      /\ \A k \in 1 .. Limit : k <= windows'[b].count => Taken(b, k)'
    BY <1>3 DEF AllTaken
  <2>1. CASE b = a
    <3> SUFFICES ASSUME NEW k \in 1 .. Limit, k <= w.count
                 PROVE  Taken(a, k)'
      BY <1>3, <1>8, <2>1
    <3>1. CASE k = w.count
      <4>1. admitted' = admitted \cup {new}
        BY <1>2, <1>4, <1>5, <3>1
      <4>2. /\ new \in admitted' /\ new.address = a /\ new.life = life'
            /\ new.began = windows'[a].startedAt /\ new.count = k
        BY <1>3, <3>1, <4>1
      <4> QED
        BY <4>2 DEF Taken
    <3>2. CASE k # w.count
      <4>1. k <= windows[a].count
        BY <1>2, <3>2
      <4>2. Taken(a, k)
        BY <1>2, <4>1 DEF IInv, AllTaken
      <4> QED
        BY <1>2, <1>3, <1>4, <4>2 DEF Taken
    <3> QED
      BY <3>1, <3>2
  <2>2. CASE b # a
    BY <1>3, <1>4, <2>2 DEF IInv, AllTaken, Taken
  <2> QED
    BY <2>1, <2>2
<1> QED
  BY <1>10, <1>11, <1>12, <1>13, <1>14 DEF IInv

\* A restart and the clock: what was counted stays where it was, or is over.
LEMMA TimeInv ==
  ASSUME IInv, TypeOK', Restart \/ Tick \/ UNCHANGED vars
  PROVE  IInv'
<1>1. now \in Nat /\ life \in Nat /\ now <= now' /\ now' \in Nat /\ admitted' = admitted
  BY RateLimiterAssumption DEF IInv, TypeOK, Restart, Tick, vars
<1>2. \A x \in admitted : x.began \in Nat /\ x.at \in Nat /\ x.life \in Nat
  BY DEF IInv, TypeOK, AttemptType
<1>3. Window \in Nat /\ \A a \in DOMAIN windows : windows[a].startedAt \in Nat
  BY RateLimiterAssumption DEF IInv, TypeOK, WindowType
<1>4. Apart' /\ Distinct'
  BY <1>1 DEF IInv, Apart, Distinct
<1>5. CASE Restart
  <2>1. life' = life + 1 /\ DOMAIN windows' = {}
    BY <1>5 DEF Restart
  <2>2. Timely' /\ Remembered' /\ AllTaken'
    BY <1>1, <1>2, <2>1, <1>5 DEF IInv, Timely, Remembered, AllTaken, Restart
  <2> QED
    BY <1>4, <2>2 DEF IInv
<1>6. CASE windows' = windows /\ life' = life
  <2>1. Timely'
    BY <1>1, <1>2, <1>6 DEF IInv, Timely
  <2>2. Remembered'
    BY <1>1, <1>2, <1>3, <1>6 DEF IInv, Remembered, InMap, Over
  <2>3. AllTaken'
    BY <1>1, <1>3, <1>6 DEF IInv, AllTaken, Taken
  <2> QED
    BY <1>4, <2>1, <2>2, <2>3 DEF IInv
<1> QED
  BY <1>5, <1>6 DEF Tick, vars

LEMMA NextInv == IInv /\ [Next]_vars => IInv'
<1> SUFFICES ASSUME IInv, [Next]_vars PROVE IInv'
  OBVIOUS
<1>1. TypeOK'
  BY NextType DEF IInv
<1> QED
  BY <1>1, BeginInv, CountInv, TimeInv DEF Next

LEMMA AlwaysInv == Spec => []IInv
BY InitInv, NextInv, PTL DEF Spec

-----------------------------------------------------------------------------
(* Counting.                                                               *)

\* One window's attempts are no more than its numbers.
LEMMA OneWindow ==
  ASSUME IInv, NEW S, S \subseteq admitted,
         \A x, y \in S : Rivals(x, y) /\ x.began = y.began
  PROVE  IsFiniteSet(S) /\ Cardinality(S) \in Nat /\ Cardinality(S) <= Limit
<1>1. /\ IsFiniteSet(1 .. Limit) /\ Cardinality(1 .. Limit) = Limit
  BY FS_Interval, RateLimiterAssumption
<1> DEFINE number == [x \in S |-> x.count]
<1>2. number \in Injection(S, 1 .. Limit)
  <2>1. number \in [S -> 1 .. Limit]
    BY DEF IInv, Timely
  <2>2. \A x, y \in S : number[x] = number[y] => x = y
    BY DEF IInv, Distinct
  <2> QED
    BY <2>1, <2>2 DEF Injection, IsInjective
<1> QED
  BY <1>1, <1>2, FS_Injection, FS_CardinalityType

\* A span as long as a window meets two windows of an address.
LEMMA TwoWindows ==
  ASSUME IInv, NEW a, NEW l, NEW t \in Int, NEW S, S = Let(a, l, t, t + Window)
  PROVE  IsFiniteSet(S) /\ Cardinality(S) <= 2 * Limit
<1>1. S \subseteq admitted /\ \A x, y \in S : Rivals(x, y)
  BY DEF Let, Rivals
<1>2. Window \in Nat \ {0} /\ Limit \in Nat \ {0}
  BY RateLimiterAssumption
<1>3. \A x \in S : /\ x.began \in Nat /\ x.at \in Nat /\ t <= x.at /\ x.at <= t + Window
                   /\ x.began <= x.at /\ x.at < x.began + Window
  BY DEF Let, IInv, TypeOK, AttemptType, Timely
<1>4. \A x, y \in S : x.began = y.began \/ x.began + Window <= y.began \/ y.began + Window <= x.began
  BY <1>1 DEF IInv, Apart
<1>5. CASE \A x, y \in S : x.began = y.began
  BY <1>1, <1>2, <1>5, OneWindow
<1>6. CASE \E x, y \in S : x.began # y.began
  <2>1. PICK x \in S, y \in S : x.began < y.began
    BY <1>3, <1>6
  <2> DEFINE First == {z \in S : z.began = x.began}
             Second == {z \in S : z.began = y.began}
  <2>2. ASSUME NEW z \in S PROVE z \in First \cup Second
    BY <1>2, <1>3, <1>4, <2>1
  <2>3. S = First \cup Second
    BY <2>2
  <2>4. IsFiniteSet(First) /\ Cardinality(First) \in Nat /\ Cardinality(First) <= Limit
    BY <1>1, OneWindow
  <2>5. IsFiniteSet(Second) /\ Cardinality(Second) \in Nat /\ Cardinality(Second) <= Limit
    BY <1>1, OneWindow
  <2> HIDE DEF First, Second
  <2>6. IsFiniteSet(First \cap Second) /\ Cardinality(First \cap Second) \in Nat
    BY <2>4, FS_Intersection, FS_CardinalityType
  <2>7. /\ IsFiniteSet(First \cup Second)
        /\ Cardinality(First \cup Second) =
             Cardinality(First) + Cardinality(Second) - Cardinality(First \cap Second)
    BY <2>4, <2>5, FS_Union
  <2>8. Cardinality(First \cup Second) <= 2 * Limit
    BY ONLY <1>2, <2>4, <2>5, <2>6, <2>7
  <2> QED
    BY ONLY <2>3, <2>7, <2>8
<1> QED
  BY <1>5, <1>6

-----------------------------------------------------------------------------

\* TypeOK is inductive by itself.
THEOREM TypeCorrect == Spec => []TypeOK
<1>1. IInv => TypeOK
  BY DEF IInv
<1> QED
  BY <1>1, AlwaysInv, PTL

\* "The real worst case is twice the limit": in a span as long as a window, for
\* whatever limit and window, however the attempts fall.
THEOREM NeverMoreThanTwice == Spec => []AtMostTwice
<1>1. IInv => AtMostTwice
  BY TwoWindows DEF AtMostTwice
<1> QED
  BY <1>1, AlwaysInv, PTL

\* Whoever is refused has had the whole allowance since less than a window ago.
THEOREM AlwaysRefusedForAReason == Spec => RefusedForAReason
<1>1. IInv => \A a \in Addresses :
        Refuse(a) => Cardinality(Let(a, life, now - Window + 1, now)) >= Limit
  <2> SUFFICES ASSUME IInv, NEW a \in Addresses, Refuse(a)
               PROVE  Cardinality(Let(a, life, now - Window + 1, now)) >= Limit
    OBVIOUS
  <2> DEFINE S == Let(a, life, now - Window + 1, now)
             all == Let(a, life, now - Window, now - Window + Window)
             taker == [k \in 1 .. Limit |-> CHOOSE x \in S : x.count = k]
  <2>1. now \in Nat /\ Window \in Nat \ {0} /\ Limit \in Nat \ {0}
    BY RateLimiterAssumption DEF IInv, TypeOK
  <2>2. IsFiniteSet(S)
    <3>1. now - Window \in Int /\ IsFiniteSet(all)
      BY <2>1, TwoWindows
    <3>2. \A x \in admitted : x.at \in Nat
      BY DEF IInv, TypeOK, AttemptType
    <3>3. S \in SUBSET all
      BY <2>1, <3>2 DEF Let
    <3> QED
      BY <3>1, <3>3, FS_Subset
  <2>3. /\ a \in DOMAIN windows /\ windows[a].count \in Nat /\ windows[a].count + 1 > Limit
        /\ windows[a].startedAt \in Nat /\ now - windows[a].startedAt < Window
    BY <2>1, CountFacts DEF Refuse, IInv, WindowType, Expired
  <2>4. \A k \in 1 .. Limit : \E x \in S : x.count = k
    <3> SUFFICES ASSUME NEW k \in 1 .. Limit PROVE \E x \in S : x.count = k
      OBVIOUS
    <3>1. PICK x \in admitted :
            x.address = a /\ x.life = life /\ x.began = windows[a].startedAt /\ x.count = k
      BY <2>1, <2>3 DEF IInv, AllTaken, Taken
    <3>2. x.at \in Nat /\ x.began <= x.at /\ x.at <= now
      BY DEF IInv, TypeOK, AttemptType, Timely
    <3> QED
      BY <2>1, <2>3, <3>1, <3>2 DEF Let
  <2> HIDE DEF S
  <2>5. taker \in Injection(1 .. Limit, S)
    <3>1. \A k \in 1 .. Limit : taker[k] \in S /\ taker[k].count = k
      BY <2>4
    <3> QED
      BY <3>1 DEF Injection, IsInjective
  <2>6. Cardinality(1 .. Limit) <= Cardinality(S)
    BY <2>2, <2>5, FS_Injection
  <2>7. Cardinality(1 .. Limit) = Limit /\ Cardinality(S) \in Nat
    BY <2>1, <2>2, FS_Interval, FS_CardinalityType
  <2> QED
    BY <2>1, <2>6, <2>7 DEF S
<1>2. IInv => [\A a \in Addresses :
        Refuse(a) => Cardinality(Let(a, life, now - Window + 1, now)) >= Limit]_vars
  BY <1>1
<1> QED
  BY <1>2, AlwaysInv, PTL DEF RefusedForAReason
=============================================================================
