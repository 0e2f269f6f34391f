---------------------------- MODULE EditorProofs ----------------------------
(***************************************************************************)
(* Proofs about the editor: for any groups, tiles and number of requests,  *)
(* the types hold (TypeCorrect), no key lies in wait once everything is    *)
(* answered (KeysAreSpent), the page comes to show what is stored          *)
(* (PageBecomesTrue), and a drop nobody interfered with stays where it was *)
(* made (DropsAlwaysStay).                                                 *)
(*                                                                         *)
(* None of these is inductive: what the page shows depends on what was     *)
(* read for answers that are still on their way.  IInv says it in layers,  *)
(* each of which is kept by every step as long as those before it hold:    *)
(*                                                                         *)
(*   Sound             types, and each request in order for its step;      *)
(*   Ordered           unless answers crossed, one request is handled at a *)
(*                     time, and the rest were answered in a known order;  *)
(*   There             what such a request found or read is still so;      *)
(*   Complete          a page that is read will have every group;          *)
(*   Awaited           the answer to a move brings back the row moved;     *)
(*   Truthful          a group of the page is true or is due to be redrawn *)
(*                     true, by the last answer that will touch it;        *)
(*   CalmMovesAreTrue  the page already shows what a calm move will do.    *)
(*                                                                         *)
(* The actions are sorted by what they do to the requests first: a step is *)
(* Asked, Quiet, a Turn of one slot, or a step of one handler, and most    *)
(* layers need no more than that of it.                                    *)
(***************************************************************************)
EXTENDS Editor, PositionsProofs

-----------------------------------------------------------------------------
(* Lists of rows.                                                          *)

\* What was taken out and is put back leaves the list as it was, and the other
\* way round.
LEMMA PutItBack ==
  ASSUME NEW S, NEW s \in Seq(S), NEW i \in 1 .. Len(s)
  PROVE  InsertAt(RemoveAt(s, i), i, s[i]) = s
<1>1. /\ RemoveAt(s, i) \in Seq(S) /\ Len(RemoveAt(s, i)) = Len(s) - 1
      /\ \A j \in 1 .. Len(s) - 1 : RemoveAt(s, i)[j] = IF j < i THEN s[j] ELSE s[j + 1]
  BY RemoveAtFacts
<1> SUFFICES ASSUME NEW out \in Seq(S), out = RemoveAt(s, i), NEW e \in S, e = s[i]
             PROVE  InsertAt(out, i, e) = s
  BY <1>1
<1>2. i \in 1 .. Len(out) + 1
  BY <1>1
<1>3. \A o \in Seq(S), x \in S : \A k \in 1 .. Len(o) + 1 :
        /\ InsertAt(o, k, x) \in Seq(S) /\ Len(InsertAt(o, k, x)) = Len(o) + 1
        /\ InsertAt(o, k, x)[k] = x
        /\ \A j \in 1 .. k - 1 : InsertAt(o, k, x)[j] = o[j]
        /\ \A j \in k + 1 .. Len(o) + 1 : InsertAt(o, k, x)[j] = o[j - 1]
  BY InsertAtFacts
<1>4. PICK in : in = InsertAt(out, i, e)
  OBVIOUS
<1>5. /\ in \in Seq(S) /\ Len(in) = Len(out) + 1
      /\ in[i] = e
      /\ \A j \in 1 .. i - 1 : in[j] = out[j]
      /\ \A j \in i + 1 .. Len(out) + 1 : in[j] = out[j - 1]
  BY <1>2, <1>3, <1>4
<1>6. /\ Len(s) \in Nat /\ i \in Nat /\ i <= Len(s) /\ Len(out) = Len(s) - 1
      /\ \A j \in 1 .. Len(s) - 1 : out[j] = IF j < i THEN s[j] ELSE s[j + 1]
  BY <1>1
<1>7. ASSUME NEW j \in 1 .. Len(s) PROVE in[j] = s[j]
  <2>1. CASE j < i
    <3>1. j \in 1 .. i - 1 /\ j \in 1 .. Len(s) - 1
      BY <1>6, <2>1
    <3> QED BY <1>5, <1>6, <2>1, <3>1
  <2>2. CASE j = i
    BY <1>5, <2>2
  <2>3. CASE j > i
    <3>1. j \in i + 1 .. Len(out) + 1 /\ j - 1 \in 1 .. Len(s) - 1 /\ ~(j - 1 < i) /\ (j - 1) + 1 = j
      BY <1>6, <2>3
    <3>2. in[j] = out[j - 1] /\ out[j - 1] = s[(j - 1) + 1]
      BY <1>5, <1>6, <3>1
    <3> QED BY <3>1, <3>2
  <2> QED BY <1>6, <2>1, <2>2, <2>3
<1> QED
  BY <1>4, <1>5, <1>6, <1>7, SeqEqual

\* A row that was put in is taken out again by its place (Grab after Drop).
LEMMA TakeItOut ==
  ASSUME NEW S, NEW s \in Seq(S), NEW e \in S, NEW i \in 1 .. Len(s) + 1
  PROVE  RemoveAt(InsertAt(s, i, e), i) = s
<1> DEFINE in == InsertAt(s, i, e)
<1> HIDE DEF in
<1>1. /\ in \in Seq(S) /\ Len(in) = Len(s) + 1
      /\ in[i] = e
      /\ \A j \in 1 .. i - 1 : in[j] = s[j]
      /\ \A j \in i + 1 .. Len(s) + 1 : in[j] = s[j - 1]
  BY InsertAtFacts DEF in
<1>2. i \in 1 .. Len(in)
  BY <1>1
<1>3. /\ RemoveAt(in, i) \in Seq(S) /\ Len(RemoveAt(in, i)) = Len(in) - 1
      /\ \A j \in 1 .. Len(in) - 1 : RemoveAt(in, i)[j] = IF j < i THEN in[j] ELSE in[j + 1]
  BY <1>1, <1>2, RemoveAtFacts, Zenon
<1>4. ASSUME NEW j \in 1 .. Len(s) PROVE RemoveAt(in, i)[j] = s[j]
  <2>1. Len(s) \in Nat /\ i \in Nat /\ j \in Nat /\ j \in 1 .. Len(in) - 1
    BY <1>1
  <2>2. CASE j < i
    <3>1. j \in 1 .. i - 1
      BY <2>1, <2>2
    <3> QED BY <1>1, <1>3, <2>1, <2>2, <3>1
  <2>3. CASE ~(j < i)
    <3>1. j + 1 \in i + 1 .. Len(s) + 1 /\ (j + 1) - 1 = j
      BY <2>1, <2>3
    <3> QED BY <1>1, <1>3, <2>1, <2>3, <3>1
  <2> QED BY <2>2, <2>3
<1> QED
  BY <1>1, <1>3, <1>4, SeqEqual DEF in

\* The tiles of a list and whether one is in it twice, when one is put in.
LEMMA InsertAtHolds ==
  ASSUME NEW S, NEW s \in Seq(S), NEW e \in S, NEW i \in 1 .. Len(s) + 1
  PROVE  /\ ToSet(InsertAt(s, i, e)) = ToSet(s) \cup {e}
         /\ IsInjective(s) /\ e \notin ToSet(s) => IsInjective(InsertAt(s, i, e))
<1> DEFINE in == InsertAt(s, i, e)
<1> HIDE DEF in
<1>1. /\ in \in Seq(S) /\ Len(in) = Len(s) + 1
      /\ in[i] = e
      /\ \A j \in 1 .. i - 1 : in[j] = s[j]
      /\ \A j \in i + 1 .. Len(s) + 1 : in[j] = s[j - 1]
  BY InsertAtFacts DEF in
<1>2. DOMAIN in = 1 .. Len(s) + 1 /\ DOMAIN s = 1 .. Len(s) /\ Len(s) \in Nat /\ i \in Nat
  BY <1>1
<1>3. ToSet(in) \subseteq ToSet(s) \cup {e}
  <2>1. \A j \in 1 .. Len(s) + 1 : in[j] = e \/ \E k \in 1 .. Len(s) : in[j] = s[k]
    BY <1>1, <1>2
  <2> QED BY <1>2, <2>1 DEF ToSet
<1>4. ToSet(s) \cup {e} \subseteq ToSet(in)
  <2>1. \A k \in 1 .. Len(s) : in[IF k < i THEN k ELSE k + 1] = s[k]
    BY <1>1, <1>2
  <2>2. \A k \in 1 .. Len(s) : (IF k < i THEN k ELSE k + 1) \in 1 .. Len(s) + 1
    BY <1>2
  <2>3. in[i] = e
    BY <1>1, <1>2
  <2> QED BY <1>2, <2>1, <2>2, <2>3 DEF ToSet
<1>5. ASSUME IsInjective(s), e \notin ToSet(s) PROVE IsInjective(in)
  <2>1. \A k, m \in 1 .. Len(s) : s[k] = s[m] => k = m
    BY <1>2, <1>5 DEF IsInjective
  <2>2. \A k \in 1 .. Len(s) : s[k] # e
    BY <1>2, <1>5 DEF ToSet
  <2>3. ASSUME NEW k \in 1 .. Len(s) + 1
        PROVE  \/ k = i /\ in[k] = e
               \/ k \in 1 .. i - 1 /\ in[k] = s[k] /\ k \in 1 .. Len(s)
               \/ k \in i + 1 .. Len(s) + 1 /\ in[k] = s[k - 1] /\ k - 1 \in 1 .. Len(s)
    <3>1. k = i \/ k \in 1 .. i - 1 \/ k \in i + 1 .. Len(s) + 1
      BY <1>2
    <3> QED BY <1>1, <1>2, <3>1
  <2>4. \A k, m \in 1 .. Len(s) + 1 : in[k] = in[m] => k = m
    BY <1>2, <2>1, <2>2, <2>3
  <2> QED BY <1>2, <2>4 DEF IsInjective
<1> QED
  BY <1>3, <1>4, <1>5 DEF in

\* And when one is taken out.
LEMMA RemoveAtHolds ==
  ASSUME NEW S, NEW s \in Seq(S), NEW i \in 1 .. Len(s)
  PROVE  /\ ToSet(RemoveAt(s, i)) \subseteq ToSet(s)
         /\ ToSet(s) \subseteq ToSet(RemoveAt(s, i)) \cup {s[i]}
         /\ IsInjective(s) =>
              IsInjective(RemoveAt(s, i)) /\ ToSet(RemoveAt(s, i)) = ToSet(s) \ {s[i]}
<1> DEFINE out == RemoveAt(s, i)
<1> HIDE DEF out
<1>1. /\ out \in Seq(S) /\ Len(out) = Len(s) - 1
      /\ \A j \in 1 .. Len(s) - 1 : out[j] = IF j < i THEN s[j] ELSE s[j + 1]
  BY RemoveAtFacts DEF out
<1>2. DOMAIN out = 1 .. Len(s) - 1 /\ DOMAIN s = 1 .. Len(s) /\ Len(s) \in Nat /\ i \in Nat
  BY <1>1
<1>3. ToSet(out) \subseteq ToSet(s)
  <2>1. \A j \in 1 .. Len(s) - 1 : \E k \in 1 .. Len(s) : out[j] = s[k]
    BY <1>1, <1>2
  <2> QED BY <1>2, <2>1 DEF ToSet
<1>4. ToSet(s) \subseteq ToSet(out) \cup {s[i]}
  <2>1. \A k \in 1 .. Len(s) : k = i \/ \E j \in 1 .. Len(s) - 1 : out[j] = s[k]
    <3> TAKE k \in 1 .. Len(s)
    <3>1. CASE k < i
      <4>1. k \in 1 .. Len(s) - 1 /\ out[k] = s[k]
        BY <1>1, <1>2, <3>1
      <4> QED BY <4>1
    <3>2. CASE k > i
      <4>1. k - 1 \in 1 .. Len(s) - 1 /\ out[k - 1] = s[k]
        BY <1>1, <1>2, <3>2
      <4> QED BY <4>1
    <3> QED BY <1>2, <3>1, <3>2
  <2> QED BY <1>2, <2>1 DEF ToSet
<1>5. ASSUME IsInjective(s) PROVE IsInjective(out) /\ ToSet(out) = ToSet(s) \ {s[i]}
  <2>1. \A k, m \in 1 .. Len(s) : s[k] = s[m] => k = m
    BY <1>2, <1>5 DEF IsInjective
  <2>2. \A k, m \in 1 .. Len(s) - 1 : out[k] = out[m] => k = m
    BY <1>1, <1>2, <2>1
  <2>3. \A k \in 1 .. Len(s) - 1 : out[k] # s[i]
    BY <1>1, <1>2, <2>1
  <2>4. s[i] \notin ToSet(out)
    BY <1>2, <2>3 DEF ToSet
  <2> QED BY <1>2, <1>3, <1>4, <2>2, <2>4 DEF IsInjective
<1> QED
  BY <1>3, <1>4, <1>5 DEF out

\* Without takes the one row out, wherever it is, and nothing else.
LEMMA WithoutFacts ==
  ASSUME NEW S, NEW s \in Seq(S), IsInjective(s), NEW t
  PROVE  /\ Without(s, t) \in Seq(S) /\ IsInjective(Without(s, t))
         /\ ToSet(Without(s, t)) = ToSet(s) \ {t}
         /\ t \notin ToSet(s) => Without(s, t) = s
         /\ \A k \in 1 .. Len(s) : s[k] = t => Without(s, t) = RemoveAt(s, k)
<1>1. DOMAIN s = 1 .. Len(s) /\ Len(s) \in Nat /\ \A k, m \in 1 .. Len(s) : s[k] = s[m] => k = m
  BY DEF IsInjective
<1>2. CASE t \in ToSet(s)
  <2>1. PICK k \in 1 .. Len(s) : s[k] = t
    BY <1>1, <1>2 DEF ToSet
  <2>2. {i \in 1 .. Len(s) : s[i] = t} = {k}
    BY <1>1, <2>1
  <2>3. Min({k}) = k
    BY <2>1 DEF Min
  <2>4. SelectInSeq(s, LAMBDA v : v = t) = k
    BY <2>2, <2>3 DEF SelectInSeq
  <2>5. Without(s, t) = RemoveAt(s, k)
    BY <2>1, <2>4 DEF Without, RemoveFirst
  <2>6. \A m \in 1 .. Len(s) : s[m] = t => m = k
    BY <1>1, <2>1
  <2> QED BY <1>2, <2>1, <2>5, <2>6, RemoveAtFacts, RemoveAtHolds
<1>3. CASE t \notin ToSet(s)
  <2>1. \A k \in 1 .. Len(s) : s[k] # t
    BY <1>1, <1>3 DEF ToSet
  <2> QED BY <1>1, <1>3, <2>1 DEF Without, RemoveFirst
<1> QED BY <1>2, <1>3

\* PutIn puts the one row in, at the end when the index is past it.
LEMMA PutInFacts ==
  ASSUME NEW S, NEW s \in Seq(S), NEW t \in S, NEW index \in Nat
  PROVE  /\ PutIn(s, t, index) \in Seq(S)
         /\ ToSet(PutIn(s, t, index)) = ToSet(s) \cup {t}
         /\ IsInjective(s) /\ t \notin ToSet(s) => IsInjective(PutIn(s, t, index))
         /\ index <= Len(s) => PutIn(s, t, index) = InsertAt(s, index + 1, t)
<1> DEFINE i == (IF index > Len(s) THEN Len(s) ELSE index) + 1
<1>1. i \in 1 .. Len(s) + 1 /\ (index <= Len(s) => i = index + 1)
  OBVIOUS
<1>2. PutIn(s, t, index) = InsertAt(s, i, t)
  BY DEF PutIn
<1> HIDE DEF i
<1> QED BY <1>1, <1>2, InsertAtFacts, InsertAtHolds

\* And Append, at the end.
LEMMA AppendHolds ==
  ASSUME NEW S, NEW s \in Seq(S), NEW t \in S
  PROVE  /\ Append(s, t) \in Seq(S)
         /\ ToSet(Append(s, t)) = ToSet(s) \cup {t}
         /\ IsInjective(s) /\ t \notin ToSet(s) => IsInjective(Append(s, t))
<1>1. /\ Append(s, t) \in Seq(S) /\ Len(Append(s, t)) = Len(s) + 1
      /\ \A i \in 1 .. Len(s) : Append(s, t)[i] = s[i]
      /\ Append(s, t)[Len(s) + 1] = t
  BY AppendProperties
<1>2. /\ DOMAIN Append(s, t) = 1 .. Len(s) + 1 /\ DOMAIN s = 1 .. Len(s) /\ Len(s) \in Nat
      /\ \A i \in 1 .. Len(s) + 1 : i \in 1 .. Len(s) \/ i = Len(s) + 1
  BY <1>1
<1>3. ToSet(Append(s, t)) = ToSet(s) \cup {t}
  BY <1>1, <1>2 DEF ToSet
<1>4. ASSUME IsInjective(s), t \notin ToSet(s) PROVE IsInjective(Append(s, t))
  <2>1. \A k, m \in 1 .. Len(s) : s[k] = s[m] => k = m
    BY <1>2, <1>4 DEF IsInjective
  <2>2. \A k \in 1 .. Len(s) : s[k] # t
    BY <1>2, <1>4 DEF ToSet
  <2> QED BY <1>1, <1>2, <2>1, <2>2 DEF IsInjective
<1> QED BY <1>1, <1>3, <1>4

\* What is left to read, and the read that is next.
LEMMA TailHolds ==
  ASSUME NEW S, NEW s \in Seq(S), s # <<>>
  PROVE  /\ Head(s) \in S /\ Tail(s) \in Seq(S)
         /\ ToSet(s) = ToSet(Tail(s)) \cup {Head(s)}
<1>1. /\ Head(s) \in S /\ Tail(s) \in Seq(S) /\ Len(Tail(s)) = Len(s) - 1
      /\ \A i \in 1 .. Len(Tail(s)) : Tail(s)[i] = s[i + 1]
  BY HeadTailProperties
<1>2. DOMAIN s = 1 .. Len(s) /\ Len(s) \in Nat \ {0} /\ DOMAIN Tail(s) = 1 .. Len(s) - 1 /\ Head(s) = s[1]
  BY <1>1, EmptySeq
<1>3. \A i \in 1 .. Len(s) - 1 : i + 1 \in 1 .. Len(s) /\ Tail(s)[i] = s[i + 1]
  BY <1>1, <1>2
<1>4. \A i \in 1 .. Len(s) : i = 1 \/ (i - 1 \in 1 .. Len(s) - 1 /\ Tail(s)[i - 1] = s[i])
  <2> TAKE i \in 1 .. Len(s)
  <2>1. i = 1 \/ i - 1 \in 1 .. Len(s) - 1
    BY <1>2
  <2>2. i - 1 \in 1 .. Len(s) - 1 => Tail(s)[i - 1] = s[(i - 1) + 1]
    BY <1>3
  <2> QED BY <1>2, <2>1, <2>2
<1>5. ToSet(Tail(s)) \cup {Head(s)} \subseteq ToSet(s)
  <2>1. 1 \in 1 .. Len(s)
    BY <1>2
  <2> QED BY <1>2, <1>3, <2>1 DEF ToSet
<1>6. ToSet(s) \subseteq ToSet(Tail(s)) \cup {Head(s)}
  BY <1>2, <1>4 DEF ToSet
<1> QED BY <1>1, <1>5, <1>6

\* A finite set as a sequence has the members of the set.
LEMMA SetToSeqHolds ==
  ASSUME NEW S, NEW T, T \subseteq S, IsFiniteSet(T)
  PROVE  SetToSeq(T) \in Seq(S) /\ ToSet(SetToSeq(T)) = T
<1> DEFINE n == Cardinality(T)
           f == SetToSeq(T)
<1>1. n \in Nat /\ \E b : b \in Bijection(1 .. n, T)
  BY FS_CardinalityType, FS_Bijection DEF ExistsBijection
<1>2. \E b \in [1 .. n -> T] : IsInjective(b)
  BY <1>1 DEF Bijection, Injection, IsInjective
<1>3. f \in [1 .. n -> T] /\ IsInjective(f)
  BY <1>2 DEF SetToSeq
<1> HIDE DEF f, n
<1>4. f \in Seq(S)
  BY <1>1, <1>3
<1>5. DOMAIN f = 1 .. n
  BY <1>3
<1>6. IsFiniteSet(1 .. n) /\ Cardinality(1 .. n) = Cardinality(T)
  BY <1>1, FS_Interval DEF n
<1>7. f \in Injection(1 .. n, T)
  BY <1>3 DEF Injection, IsInjective
<1>8. f \in Surjection(1 .. n, T)
  <2>1. Cardinality(1 .. n) = Cardinality(T) <=> f \in Surjection(1 .. n, T)
    BY <1>7, FS_Injection, Zenon
  <2> QED BY <1>6, <2>1
<1>9. \A x \in T : \E i \in 1 .. n : f[i] = x
  BY <1>8 DEF Surjection
<1>10. ToSet(f) = T
  BY <1>3, <1>5, <1>9 DEF ToSet
<1> QED BY <1>4, <1>10 DEF f

-----------------------------------------------------------------------------
(* What the variables hold.                                                *)

\* Groups with their tiles.
Pages == UNION {[D -> Seq(Tiles)] : D \in SUBSET Groups}
RequestType ==
  [kind: {"none", "move", "add", "delete", "deleteGroup", "load"},
   tile: Tiles \cup {None}, group: Groups \cup {None}, at: Nat, keys: BOOLEAN,
   step: {"idle", "sent", "found", "reading"}, source: Groups \cup {None},
   todo: Seq({"group", "items", "column"} \X Groups), patch: Pages, whole: BOOLEAN,
   result: {"ok", "refused", "failed"}, behind: SUBSET Slots, gone: BOOLEAN, calm: BOOLEAN, away: BOOLEAN]
CarryType ==
  [tile: Tiles \cup {None}, keys: BOOLEAN, group: Groups \cup {None}, at: Nat, detached: BOOLEAN,
   home: Groups \cup {None}, homeAt: Nat, homeless: BOOLEAN]
Types ==
  /\ stored \in Pages /\ page \in Pages
  /\ unborn \subseteq Tiles
  /\ shown \in BOOLEAN /\ key \in Tiles \cup {None} /\ acts \in 0 .. MaxActs
  /\ crossed \in BOOLEAN /\ strayed \in BOOLEAN /\ unheard \in BOOLEAN /\ turnedAway \in BOOLEAN
  /\ carried \in CarryType
  /\ requests \in [Slots -> RequestType]

\* q is the request r, whatever became of who waits for it.
SameWork(q, r) ==
  /\ q.kind = r.kind /\ q.tile = r.tile /\ q.group = r.group /\ q.at = r.at
  /\ q.step = r.step /\ q.source = r.source /\ q.todo = r.todo /\ q.patch = r.patch
  /\ q.whole = r.whole /\ q.result = r.result
\* q has just been sent.
IsNew(q) ==
  /\ q.step = "sent" /\ q.source = None /\ q.todo = <<>> /\ q.patch = Nothing
  /\ ~q.whole /\ q.result = "ok" /\ q.behind = {} /\ ~q.gone

\* Pages, without its union.
LEMMA PagesFacts ==
  ASSUME NEW f
  PROVE  f \in Pages <=> \E D \in SUBSET Groups : f \in [D -> Seq(Tiles)]
BY DEF Pages

\* The records a slot, a hand and an answer begin with have their types.
LEMMA IdleTyped == Idle \in RequestType /\ NoCarry \in CarryType /\ Nothing \in Pages
<1>1. Nothing \in [{} -> Seq(Tiles)]
  BY DEF Nothing
<1>2. Nothing \in Pages
  BY <1>1 DEF Pages
<1>3. <<>> \in Seq({"group", "items", "column"} \X Groups)
  OBVIOUS
<1> QED BY <1>2, <1>3 DEF Idle, RequestType, NoCarry, CarryType

\* A request that is sent, and the others.
LEMMA Sending ==
  ASSUME NEW others \in [Slots -> RequestType], NEW s \in Slots, NEW request \in RequestType,
         Send(others, s, request)
  PROVE  /\ requests' \in [Slots -> RequestType]
         /\ requests'[s] = [request EXCEPT !.step = "sent"]
         /\ \A u \in Slots : u # s => requests'[u] = [others[u] EXCEPT !.calm = FALSE]
<1>1. [request EXCEPT !.step = "sent"] \in RequestType
  BY DEF RequestType
<1>2. \A u \in Slots : [others[u] EXCEPT !.calm = FALSE] \in RequestType
  BY DEF RequestType
<1> QED BY <1>1, <1>2 DEF Send

\* What Send changes of a request is its step.
LEMMA SentRecord ==
  ASSUME NEW r \in RequestType, NEW q, q = [r EXCEPT !.step = "sent"]
  PROVE  /\ q.step = "sent" /\ q.kind = r.kind /\ q.tile = r.tile /\ q.group = r.group /\ q.at = r.at
         /\ q.keys = r.keys /\ q.source = r.source /\ q.todo = r.todo /\ q.patch = r.patch
         /\ q.whole = r.whole /\ q.result = r.result /\ q.behind = r.behind /\ q.gone = r.gone
         /\ q.calm = r.calm
BY DEF RequestType
\* What a superseded request loses is only whom it answers.
LEMMA GoneRecord ==
  ASSUME NEW r \in RequestType, NEW q, q = [r EXCEPT !.gone = TRUE]
  PROVE  /\ q \in RequestType
         /\ SameWork(q, r) /\ q.calm = r.calm /\ q.behind = r.behind /\ q.gone /\ q.keys = r.keys
BY DEF RequestType, SameWork
\* A slot with nothing in it stays empty.
LEMMA StaysIdle ==
  /\ [Idle EXCEPT !.calm = FALSE] = Idle
  /\ [Idle EXCEPT !.keys = FALSE] = Idle
  /\ \A s : [Idle EXCEPT !.behind = @ \ {s}] = Idle
<1>1. Idle \in RequestType /\ Idle.calm = FALSE /\ Idle.keys = FALSE /\ \A s : Idle.behind = Idle.behind \ {s}
  BY IdleTyped DEF Idle
<1>2. ASSUME NEW r \in RequestType, r.calm = FALSE, r.keys = FALSE
      PROVE  [r EXCEPT !.calm = FALSE] = r /\ [r EXCEPT !.keys = FALSE] = r
  BY <1>2 DEF RequestType
<1>3. ASSUME NEW r \in RequestType, NEW s, r.behind = r.behind \ {s}
      PROVE  [r EXCEPT !.behind = @ \ {s}] = r
  BY <1>3 DEF RequestType
<1> QED BY <1>1, <1>2, <1>3
\* A request that is no longer alone goes on as it was.
LEMMA NotCalmRecord ==
  ASSUME NEW r \in RequestType, NEW q, q = [r EXCEPT !.calm = FALSE]
  PROVE  SameWork(q, r) /\ ~q.calm /\ q.behind = r.behind /\ q.gone = r.gone /\ q.keys = r.keys
BY DEF RequestType, SameWork

-----------------------------------------------------------------------------
(* What holds of a request at each step of its life, of the tile in hand,  *)
(* and of the store.                                                       *)

\* A read that covers the tiles of g is still to come.
WillRead(r, g) ==
  <<"items", g>> \in ToSet(r.todo) \/ \E h \in Groups : <<"column", h>> \in ToSet(r.todo)
Formed(r) ==
  /\ r.kind = "none" <=> r.step = "idle"
  /\ r.step = "idle" => r = Idle
  /\ r.kind \in {"move", "add", "delete"} => r.tile \in Tiles
  /\ r.kind \in {"add", "deleteGroup"} => r.group \in Groups
  /\ r.step \in {"sent", "found"} =>
       r.todo = <<>> /\ r.patch = Nothing /\ ~r.whole /\ r.result = "ok"
  /\ r.step = "sent" => r.behind = {}
  /\ r.step = "found" =>
       /\ r.source \in Groups /\ r.kind # "load"
       /\ r.kind \in {"add", "deleteGroup"} => r.source = r.group
  /\ r.whole => /\ r.result = "ok" /\ r.kind \in {"load", "deleteGroup"}
                /\ \A g \in Groups : <<"group", g>> \notin ToSet(r.todo)
  /\ r.kind = "load" /\ r.step = "reading" => r.whole \/ r.result = "failed"
  /\ \A g \in Groups : <<"column", g>> \in ToSet(r.todo) =>
       r.whole /\ r.patch = Nothing /\ Tail(r.todo) = <<>>
AllFormed == \A s \in Slots : Formed(requests[s])
CarriedIsHeld ==
  /\ carried.tile = None => carried = NoCarry
  /\ carried # NoCarry =>
       /\ shown /\ carried.group \in Groups /\ carried.home \in Groups
       /\ ~carried.homeless => carried.home \in DOMAIN page /\ carried.homeAt <= Len(page[carried.home])
       /\ ~carried.detached => carried.group \in DOMAIN page /\ carried.at <= Len(page[carried.group])
  /\ ~shown => page = Nothing /\ key = None
\* A tile is stored once.
StoredOnce ==
  /\ \A g \in DOMAIN stored : IsInjective(stored[g])
  /\ \A g, h \in DOMAIN stored : g # h => ToSet(stored[g]) \cap ToSet(stored[h]) = {}
\* An id that is being added is new, and is being added once.
NewIsNew ==
  /\ unborn \cap Rows(stored) = {}
  /\ \A s \in Slots : requests[s].kind = "add" /\ requests[s].step \in {"sent", "found"} =>
       requests[s].tile \in unborn
  /\ \A s, u \in Slots : requests[s].kind = "add" /\ requests[u].kind = "add" => s = u
Sound == Types /\ AllFormed /\ CarriedIsHeld /\ StoredOnce /\ NewIsNew

-----------------------------------------------------------------------------
(* Who is alone, and who was handled before whom.                          *)

OnServer == {s \in Slots : requests[s].step \in {"found", "reading"}}
\* A calm request is all there is.
CalmIsAlone == \A s \in Slots : requests[s].calm => Busy = {s}
OneAtATime == ~crossed => \A s, u \in Handled : s = u
InOrder ==
  /\ \A s \in Slots : \A u \in requests[s].behind : u # s /\ Answered(requests[u])
  /\ ~crossed =>
       \A s, u \in OnServer : s = u \/ u \in requests[s].behind \/ s \in requests[u].behind
GoneIsUnheard == \A s \in Slots : requests[s].gone => unheard
Ordered == CalmIsAlone /\ OneAtATime /\ InOrder /\ GoneIsUnheard

-----------------------------------------------------------------------------
(* The kinds of step.                                                      *)

\* Slots that nothing happened in go on as they are.
GoesOn(u) ==
  /\ SameWork(requests'[u], requests[u])
  /\ requests[u] = Idle => requests'[u] = Idle
  /\ requests[u].gone => requests'[u].gone
  /\ requests'[u].gone => requests[u].gone \/ unheard'
\* The person handles the tile, or gives a request up that the server may have.
Quiet ==
  /\ \A u \in Slots :
       /\ GoesOn(u) /\ requests'[u].behind = requests[u].behind
       /\ requests'[u].calm = requests[u].calm /\ requests'[u].keys = requests[u].keys
  /\ UNCHANGED server
  /\ crossed => crossed'
  /\ unheard => unheard'
\* The slot s is taken, given back, or both.
Turn(s) ==
  /\ requests'[s] = Idle \/ IsNew(requests'[s])
  /\ Formed(requests'[s])
  /\ requests'[s].calm => Busy = {}
  /\ requests'[s].kind = "add" =>
       requests'[s].tile \in unborn /\ \A u \in Slots \ {s} : requests[u].kind # "add"
  /\ \A u \in Slots \ {s} :
       /\ GoesOn(u) /\ requests'[u].behind \ {s} = requests[u].behind \ {s}
       /\ s \in requests'[u].behind => s \in requests[u].behind /\ requests[s] = Idle
       /\ requests'[u].calm => requests[u].calm /\ requests'[s] = Idle
  /\ UNCHANGED server
  /\ crossed /\ ~crossed' => Busy \subseteq {s}
  /\ unheard /\ ~unheard' => Busy \subseteq {s}
  /\ ~crossed' /\ ~unheard' => requests[s].behind = {} \/ Busy \subseteq {s}
\* The server does something for s.
Stepped(s) ==
  /\ \A u \in Slots \ {s} : requests'[u] = requests[u]
  /\ requests'[s].kind = requests[s].kind /\ requests'[s].tile = requests[s].tile
  /\ requests'[s].group = requests[s].group /\ requests'[s].at = requests[s].at
  /\ requests'[s].keys = requests[s].keys /\ requests'[s].gone = requests[s].gone
  /\ requests'[s].calm = requests[s].calm
  /\ requests[s].step \in {"sent", "found", "reading"} /\ ~Answered(requests[s])
  /\ requests'[s].step \in {"found", "reading"}
  /\ crossed' = (crossed \/ Handled \ {s} # {})
  /\ UNCHANGED <<browser, acts, strayed, unheard, turnedAway>>

-----------------------------------------------------------------------------
(* Groups and their tiles.                                                 *)

\* A page is a function of its groups, and gives each a list of rows.
LEMMA PageOf ==
  ASSUME NEW f \in Pages
  PROVE  /\ DOMAIN f \in SUBSET Groups /\ f = [g \in DOMAIN f |-> f[g]]
         /\ \A g \in DOMAIN f : f[g] \in Seq(Tiles)
BY PagesFacts
\* And the other way round.
LEMMA IsAPage ==
  ASSUME NEW D \in SUBSET Groups, NEW f \in [D -> Seq(Tiles)]
  PROVE  f \in Pages
BY PagesFacts
\* One group's list is changed.
LEMMA OneList ==
  ASSUME NEW f \in Pages, NEW g \in DOMAIN f, NEW list \in Seq(Tiles)
  PROVE  /\ [f EXCEPT ![g] = list] \in Pages
         /\ DOMAIN [f EXCEPT ![g] = list] = DOMAIN f
         /\ [f EXCEPT ![g] = list][g] = list
         /\ \A h \in DOMAIN f : h # g => [f EXCEPT ![g] = list][h] = f[h]
<1>1. f \in [DOMAIN f -> Seq(Tiles)] /\ DOMAIN f \in SUBSET Groups
  BY PageOf
<1>2. [f EXCEPT ![g] = list] \in [DOMAIN f -> Seq(Tiles)]
  BY <1>1
<1> QED BY <1>1, <1>2, IsAPage

\* The tile in hand is put down, or back.
LEMMA PlacedFacts ==
  ASSUME NEW lists \in Pages, NEW c \in CarryType, c.tile \in Tiles,
         ~c.detached => c.group \in DOMAIN lists /\ c.at <= Len(lists[c.group])
  PROVE  /\ Placed(lists, c) \in Pages /\ DOMAIN Placed(lists, c) = DOMAIN lists
         /\ c.detached => Placed(lists, c) = lists
         /\ ~c.detached => Placed(lists, c)[c.group] = InsertAt(lists[c.group], c.at + 1, c.tile)
         /\ \A g \in DOMAIN lists : g # c.group => Placed(lists, c)[g] = lists[g]
<1>1. c.at \in Nat /\ c.detached \in BOOLEAN /\ None \notin Tiles /\ c # NoCarry
  BY EditorAssumption DEF CarryType, NoCarry
<1>2. CASE c.detached
  <2>1. Placed(lists, c) = lists
    BY <1>2 DEF Placed
  <2> QED BY <1>2, <2>1
<1>3. CASE ~c.detached
  <2> DEFINE list == InsertAt(lists[c.group], c.at + 1, c.tile)
  <2>1. Placed(lists, c) = [lists EXCEPT ![c.group] = list]
    BY <1>1, <1>3 DEF Placed
  <2>2. lists[c.group] \in Seq(Tiles) /\ c.group \in DOMAIN lists
    BY <1>3, PageOf
  <2> PICK g \in DOMAIN lists : g = c.group
    BY <2>2
  <2>3. c.at + 1 \in 1 .. Len(lists[c.group]) + 1
    <3>1. Len(lists[c.group]) \in Nat /\ c.at <= Len(lists[c.group])
      BY <1>3, <2>2
    <3> QED BY ONLY <1>1, <3>1
  <2>4. list \in Seq(Tiles)
    BY <2>2, <2>3, InsertAtFacts
  <2> HIDE DEF list
  <2>5. /\ Placed(lists, c) \in Pages /\ DOMAIN Placed(lists, c) = DOMAIN lists
        /\ Placed(lists, c)[c.group] = list
        /\ \A h \in DOMAIN lists : h # c.group => Placed(lists, c)[h] = lists[h]
    <3>1. /\ [lists EXCEPT ![g] = list] \in Pages
          /\ DOMAIN [lists EXCEPT ![g] = list] = DOMAIN lists
          /\ [lists EXCEPT ![g] = list][g] = list
          /\ \A h \in DOMAIN lists : h # g => [lists EXCEPT ![g] = list][h] = lists[h]
      BY <2>4, OneList
    <3> QED BY <2>1, <3>1
  <2> QED BY <1>3, <2>5 DEF list
<1> QED BY <1>1, <1>2, <1>3
\* Cancelling changes the list a tile was picked up in, and no other (PutBack).
LEMMA PutBackFacts ==
  ASSUME NEW lists \in Pages, NEW c \in CarryType, c.tile \in Tiles,
         ~c.homeless => c.home \in DOMAIN lists /\ c.homeAt <= Len(lists[c.home])
  PROVE  /\ PutBack(lists, c) \in Pages /\ DOMAIN PutBack(lists, c) = DOMAIN lists
         /\ c.homeless => PutBack(lists, c) = lists
         /\ ~c.homeless => PutBack(lists, c)[c.home] = InsertAt(lists[c.home], c.homeAt + 1, c.tile)
         /\ \A g \in DOMAIN lists : g # c.home => PutBack(lists, c)[g] = lists[g]
<1>1. c.homeAt \in Nat /\ c.homeless \in BOOLEAN /\ None \notin Tiles /\ c # NoCarry
  BY EditorAssumption DEF CarryType, NoCarry
<1>2. CASE c.homeless
  <2>1. PutBack(lists, c) = lists
    BY <1>2 DEF PutBack
  <2> QED BY <1>2, <2>1
<1>3. CASE ~c.homeless
  <2> DEFINE list == InsertAt(lists[c.home], c.homeAt + 1, c.tile)
  <2>1. PutBack(lists, c) = [lists EXCEPT ![c.home] = list]
    BY <1>1, <1>3 DEF PutBack
  <2>2. lists[c.home] \in Seq(Tiles) /\ c.home \in DOMAIN lists
    BY <1>3, PageOf
  <2> PICK g \in DOMAIN lists : g = c.home
    BY <2>2
  <2>3. c.homeAt + 1 \in 1 .. Len(lists[c.home]) + 1
    <3>1. Len(lists[c.home]) \in Nat /\ c.homeAt <= Len(lists[c.home])
      BY <1>3, <2>2
    <3> QED BY ONLY <1>1, <3>1
  <2>4. list \in Seq(Tiles)
    BY <2>2, <2>3, InsertAtFacts
  <2> HIDE DEF list
  <2>5. /\ PutBack(lists, c) \in Pages /\ DOMAIN PutBack(lists, c) = DOMAIN lists
        /\ PutBack(lists, c)[c.home] = list
        /\ \A h \in DOMAIN lists : h # c.home => PutBack(lists, c)[h] = lists[h]
    <3>1. /\ [lists EXCEPT ![g] = list] \in Pages
          /\ DOMAIN [lists EXCEPT ![g] = list] = DOMAIN lists
          /\ [lists EXCEPT ![g] = list][g] = list
          /\ \A h \in DOMAIN lists : h # g => [lists EXCEPT ![g] = list][h] = lists[h]
      BY <2>4, OneList
    <3> QED BY <2>1, <3>1
  <2> QED BY <1>3, <2>5 DEF list
<1> QED BY <1>1, <1>2, <1>3
\* With nothing in hand there is nothing to place or to put back.
LEMMA NothingInHand ==
  ASSUME NEW lists PROVE Placed(lists, NoCarry) = lists /\ PutBack(lists, NoCarry) = lists
BY DEF Placed, PutBack

\* The tile in hand is one.
LEMMA InHand ==
  ASSUME Types, CarriedIsHeld, carried # NoCarry
  PROVE  carried.tile \in Tiles
BY DEF Types, CarriedIsHeld, CarryType

-----------------------------------------------------------------------------
(* What each action does to the requests.                                  *)

\* A request that was taken up from nothing.
IsBlank(r) ==
  /\ r.kind # "none" /\ r.source = None /\ r.todo = <<>> /\ r.patch = Nothing /\ ~r.whole
  /\ r.result = "ok" /\ r.behind = {} /\ ~r.gone
  /\ r.kind \in {"move", "add", "delete"} => r.tile \in Tiles
  /\ r.kind \in {"add", "deleteGroup"} => r.group \in Groups

\* A request that is sent with nothing found is new.
LEMMA BlankIsNew ==
  ASSUME NEW r \in RequestType, IsBlank(r), NEW q, q = [r EXCEPT !.step = "sent"]
  PROVE  IsNew(q) /\ Formed(q) /\ q.kind = r.kind /\ q.tile = r.tile /\ q.calm = r.calm
<1>1. /\ q.step = "sent" /\ q.kind = r.kind /\ q.tile = r.tile /\ q.group = r.group
      /\ q.source = r.source /\ q.todo = r.todo /\ q.patch = r.patch
      /\ q.whole = r.whole /\ q.result = r.result /\ q.behind = r.behind /\ q.gone = r.gone
      /\ q.calm = r.calm
  BY SentRecord
<1>2. ToSet(<<>>) = {}
  BY DEF ToSet
<1> QED BY <1>1, <1>2 DEF IsBlank, IsNew, Formed

\* A form or a visit cancels the one before it, and no move.
LEMMA Superseding ==
  ASSUME requests \in [Slots -> RequestType], AllFormed
  PROVE  /\ Superseded \in [Slots -> RequestType]
         /\ \A u \in Slots :
              /\ SameWork(Superseded[u], requests[u]) /\ Superseded[u].behind = requests[u].behind
              /\ Superseded[u].calm = requests[u].calm /\ Superseded[u].keys = requests[u].keys
              /\ requests[u].kind \in {"none", "move"} => Superseded[u] = requests[u]
              /\ requests[u].gone => Superseded[u].gone
              /\ Superseded[u].gone => requests[u].gone \/ Superseded # requests
<1>1. \A u \in Slots : [requests[u] EXCEPT !.gone = TRUE] \in RequestType
  BY GoneRecord
<1>2. Superseded \in [Slots -> RequestType]
  BY <1>1 DEF Superseded
<1> SUFFICES ASSUME NEW u \in Slots
             PROVE  /\ SameWork(Superseded[u], requests[u]) /\ Superseded[u].behind = requests[u].behind
                    /\ Superseded[u].calm = requests[u].calm /\ Superseded[u].keys = requests[u].keys
                    /\ requests[u].kind \in {"none", "move"} => Superseded[u] = requests[u]
                    /\ requests[u].gone => Superseded[u].gone
                    /\ Superseded[u].gone => requests[u].gone \/ Superseded # requests
  BY <1>2
<1>3. CASE requests[u].kind \in {"none", "move"}
  BY <1>3 DEF Superseded, SameWork
<1>4. CASE requests[u].kind \notin {"none", "move"}
  <2>1. Superseded[u] = [requests[u] EXCEPT !.gone = TRUE]
    BY <1>4 DEF Superseded
  <2>2. requests[u] \in RequestType
    OBVIOUS
  <2>3. /\ SameWork(Superseded[u], requests[u]) /\ Superseded[u].behind = requests[u].behind
        /\ Superseded[u].calm = requests[u].calm /\ Superseded[u].keys = requests[u].keys
        /\ Superseded[u].gone
    BY <2>1, <2>2, GoneRecord
  <2> QED BY <1>4, <2>3
<1> QED BY <1>3, <1>4

\* A form is sent, or a page is asked for.
Asked ==
  /\ Types' /\ CarriedIsHeld'
  /\ carried = NoCarry /\ UNCHANGED <<browser, crossed, strayed, turnedAway>> /\ (unheard => unheard')
  /\ \E s \in Slots : /\ Turn(s) /\ requests[s] = Idle /\ requests'[s].kind # "move"
                      /\ \A u \in Slots \ {s} : requests[u].kind = "move" =>
                           /\ requests'[u].gone = requests[u].gone
                           /\ requests'[u].keys = requests[u].keys
                      /\ \A u \in Slots : ~requests'[u].calm \/ u = s

\* A form that is sent or a page that is asked for takes a slot and changes
\* nothing else (Ask).
LEMMA AskFacts ==
  ASSUME Sound, NEW request \in RequestType, IsBlank(request), request.kind # "move", Ask(request),
         request.kind = "add" => request.tile \in unborn /\ \A s \in Busy : requests[s].kind # "add"
  PROVE  Asked
<1> USE DEF Sound
<1>1. PICK s \in Free : Send(Superseded, s, [request EXCEPT !.calm = Busy = {}])
  BY DEF Ask
<1>2. s \in Slots /\ requests[s] = Idle
  BY DEF Free, Busy
<1> DEFINE sent == [request EXCEPT !.calm = Busy = {}]
<1>3. sent \in RequestType /\ IsBlank(sent) /\ sent.kind = request.kind /\ sent.tile = request.tile
      /\ (sent.calm <=> Busy = {})
  BY DEF RequestType, IsBlank
<1> HIDE DEF sent
<1>4. requests \in [Slots -> RequestType] /\ Superseded \in [Slots -> RequestType]
  BY Superseding DEF Types
<1>5. /\ requests' \in [Slots -> RequestType] /\ requests'[s] = [sent EXCEPT !.step = "sent"]
      /\ \A u \in Slots : u # s => requests'[u] = [Superseded[u] EXCEPT !.calm = FALSE]
  <2>1. Send(Superseded, s, sent)
    BY <1>1 DEF sent
  <2> QED BY <1>2, <1>3, <1>4, <2>1, Sending
<1>6. /\ IsNew(requests'[s]) /\ Formed(requests'[s]) /\ requests'[s].kind = request.kind
      /\ requests'[s].tile = request.tile /\ (requests'[s].calm => Busy = {})
  BY <1>3, <1>5, BlankIsNew
<1>7. unheard' = (unheard \/ Superseded # requests) /\ UNCHANGED <<server, browser, crossed, strayed, turnedAway>>
      /\ carried = NoCarry
  BY DEF Ask
<1>8. ASSUME NEW u \in Slots, u # s
      PROVE  /\ GoesOn(u) /\ requests'[u].behind = requests[u].behind /\ ~requests'[u].calm
             /\ requests[u].kind = "move" =>
                  requests'[u].gone = requests[u].gone /\ requests'[u].keys = requests[u].keys
  <2>1. /\ SameWork(requests'[u], Superseded[u]) /\ ~requests'[u].calm
        /\ requests'[u].behind = Superseded[u].behind /\ requests'[u].gone = Superseded[u].gone
        /\ requests'[u].keys = Superseded[u].keys
    BY <1>4, <1>5, <1>8, NotCalmRecord
  <2>2. /\ SameWork(Superseded[u], requests[u]) /\ Superseded[u].behind = requests[u].behind
        /\ requests[u].kind \in {"none", "move"} => Superseded[u] = requests[u]
        /\ requests[u].gone => Superseded[u].gone
        /\ Superseded[u].gone => requests[u].gone \/ Superseded # requests
    BY <1>4, Superseding
  <2>3. ASSUME requests[u] = Idle PROVE requests'[u] = Idle
    <3>1. Idle.kind = "none"
      BY DEF Idle
    <3> QED BY <1>5, <1>8, <2>2, <2>3, <3>1, StaysIdle
  <2> QED BY <1>7, <2>1, <2>2, <2>3 DEF GoesOn, SameWork
<1>9. \A u \in Slots : requests[u].kind = "add" => u \in Busy
  BY DEF Busy, Idle
<1>10. Turn(s)
  <2>1. Idle.behind = {}
    BY DEF Idle
  <2> QED BY <1>2, <1>6, <1>7, <1>8, <1>9, <2>1 DEF Turn
<1>11. Types'
  <2>1. acts' \in 0 .. MaxActs
    BY DEF Ask, Types
  <2>2. unheard' \in BOOLEAN
    BY <1>7 DEF Types
  <2> QED BY <1>5, <1>7, <2>1, <2>2 DEF Types, server, browser
<1>12. CarriedIsHeld'
  BY <1>7 DEF CarriedIsHeld, browser
<1> QED BY <1>2, <1>6, <1>7, <1>8, <1>10, <1>11, <1>12 DEF Asked

\* Whatever is asked for.
LEMMA Asks ==
  ASSUME Sound,
         \/ \E g \in DOMAIN page, t \in unborn : AddTile(g, t)
         \/ \E t \in Rows(page) : DeleteTile(t)
         \/ \E g \in DOMAIN page : DeleteGroup(g)
         \/ Load
  PROVE  Asked
<1>1. page \in Pages /\ unborn \subseteq Tiles /\ DOMAIN page \subseteq Groups
      /\ \A g \in DOMAIN page : page[g] \in Seq(Tiles)
  BY PageOf DEF Sound, Types
<1>2. PICK r \in RequestType : r = Idle
  BY IdleTyped
<1>3. /\ r.source = None /\ r.todo = <<>> /\ r.patch = Nothing /\ ~r.whole
      /\ r.result = "ok" /\ r.behind = {} /\ ~r.gone
  BY <1>2 DEF Idle
<1>4. ASSUME NEW g \in DOMAIN page, NEW t \in unborn, AddTile(g, t) PROVE Asked
  <2>1. t \in Tiles /\ g \in Groups
    BY <1>1
  <2>2. PICK q : q = [r EXCEPT !.kind = "add", !.tile = t, !.group = g]
    OBVIOUS
  <2>3. /\ q \in RequestType /\ q.kind = "add" /\ q.tile = t /\ q.group = g
        /\ q.source = r.source /\ q.todo = r.todo /\ q.patch = r.patch /\ q.whole = r.whole
        /\ q.result = r.result /\ q.behind = r.behind /\ q.gone = r.gone
    BY <2>1, <2>2 DEF RequestType
  <2>4. IsBlank(q)
    BY <1>3, <2>1, <2>3 DEF IsBlank
  <2>5. Ask(q) /\ \A s \in Busy : requests[s].kind # "add"
    BY <1>2, <1>4, <2>2 DEF AddTile
  <2> QED BY <2>3, <2>4, <2>5, AskFacts
<1>5. ASSUME NEW t \in Rows(page), DeleteTile(t) PROVE Asked
  <2>1. t \in Tiles
    <3>1. PICK g \in DOMAIN page : t \in ToSet(page[g])
      BY <1>5 DEF Rows
    <3> QED BY <1>1, <3>1 DEF ToSet
  <2>2. PICK q : q = [r EXCEPT !.kind = "delete", !.tile = t]
    OBVIOUS
  <2>3. /\ q \in RequestType /\ q.kind = "delete" /\ q.tile = t
        /\ q.source = r.source /\ q.todo = r.todo /\ q.patch = r.patch /\ q.whole = r.whole
        /\ q.result = r.result /\ q.behind = r.behind /\ q.gone = r.gone
    BY <2>1, <2>2 DEF RequestType
  <2>4. IsBlank(q)
    BY <1>3, <2>1, <2>3 DEF IsBlank
  <2>5. Ask(q)
    BY <1>2, <1>5, <2>2 DEF DeleteTile
  <2> QED BY <2>3, <2>4, <2>5, AskFacts
<1>6. ASSUME NEW g \in DOMAIN page, DeleteGroup(g) PROVE Asked
  <2>1. g \in Groups
    BY <1>1
  <2>2. PICK q : q = [r EXCEPT !.kind = "deleteGroup", !.group = g]
    OBVIOUS
  <2>3. /\ q \in RequestType /\ q.kind = "deleteGroup" /\ q.group = g
        /\ q.source = r.source /\ q.todo = r.todo /\ q.patch = r.patch /\ q.whole = r.whole
        /\ q.result = r.result /\ q.behind = r.behind /\ q.gone = r.gone
    BY <2>1, <2>2 DEF RequestType
  <2>4. IsBlank(q)
    BY <1>3, <2>1, <2>3 DEF IsBlank
  <2>5. Ask(q)
    BY <1>2, <1>6, <2>2 DEF DeleteGroup
  <2> QED BY <2>3, <2>4, <2>5, AskFacts
<1>7. ASSUME Load PROVE Asked
  <2>2. PICK q : q = [r EXCEPT !.kind = "load"]
    OBVIOUS
  <2>3. /\ q \in RequestType /\ q.kind = "load"
        /\ q.source = r.source /\ q.todo = r.todo /\ q.patch = r.patch /\ q.whole = r.whole
        /\ q.result = r.result /\ q.behind = r.behind /\ q.gone = r.gone
    BY <2>2 DEF RequestType
  <2>4. IsBlank(q)
    BY <1>3, <2>3 DEF IsBlank
  <2>5. Ask(q)
    BY <1>2, <1>7, <2>2 DEF Load
  <2> QED BY <2>3, <2>4, <2>5, AskFacts
<1> QED BY <1>4, <1>5, <1>6, <1>7

\* The page as it would be if the tile in hand went back.
AtRest == PutBack(page, carried)

\* A step that leaves the requests and the store is quiet.
LEMMA StillQuiet ==
  ASSUME requests' = requests, UNCHANGED server, crossed => crossed', unheard => unheard'
  PROVE  Quiet
BY DEF Quiet, GoesOn, SameWork

\* A tile is picked up: put back at once, it would be where it was.
LEMMA GrabFacts ==
  ASSUME Sound, NEW g \in DOMAIN page, NEW k \in DOMAIN page[g], NEW keys \in BOOLEAN,
         Grab(g, k, keys)
  PROVE  /\ Types' /\ CarriedIsHeld' /\ Quiet /\ requests' = requests
         /\ UNCHANGED <<shown, key, crossed, strayed, unheard, turnedAway>>
         /\ DOMAIN page' = DOMAIN page /\ AtRest' = page /\ carried = NoCarry
         /\ ~carried'.homeless /\ ~carried'.detached
<1> USE DEF Sound
<1>1. page \in Pages /\ g \in Groups /\ page[g] \in Seq(Tiles) /\ k \in 1 .. Len(page[g])
  <2>1. page \in Pages
    BY DEF Types
  <2>2. g \in Groups /\ page[g] \in Seq(Tiles)
    BY <2>1, PageOf
  <2> QED BY <2>1, <2>2
<1> DEFINE list == page[g]
           out == RemoveAt(page[g], k)
<1>2. /\ out \in Seq(Tiles) /\ Len(out) = Len(list) - 1 /\ list[k] \in Tiles /\ k - 1 \in Nat
      /\ k - 1 <= Len(out) /\ k - 1 + 1 = k
  <2>1. Len(list) \in Nat /\ k \in Nat /\ k >= 1 /\ k <= Len(list)
    BY <1>1
  <2>2. out \in Seq(Tiles) /\ Len(out) = Len(list) - 1
    BY <1>1, RemoveAtFacts
  <2>3. list[k] \in Tiles
    BY <1>1
  <2> QED BY ONLY <2>1, <2>2, <2>3
<1>3. InsertAt(out, k, list[k]) = list
  BY <1>1, PutItBack
<1> HIDE DEF out
<1>4. page' = [page EXCEPT ![g] = out]
  BY DEF Grab, out
<1>5. /\ page' \in Pages /\ DOMAIN page' = DOMAIN page /\ page'[g] = out
      /\ \A h \in DOMAIN page : h # g => page'[h] = page[h]
  BY <1>1, <1>2, <1>4, OneList
<1> DEFINE c == carried'
<1>6. /\ c \in CarryType /\ c.tile = list[k] /\ c.group = g /\ c.at = k - 1 /\ c.home = g
      /\ c.homeAt = k - 1 /\ ~c.homeless /\ ~c.detached
  BY <1>1, <1>2 DEF Grab, CarryType, NoCarry
<1>7. /\ carried = NoCarry /\ shown /\ requests' = requests /\ acts' \in 0 .. MaxActs
      /\ UNCHANGED <<server, shown, key, crossed, strayed, unheard, turnedAway>>
  <2>1. acts' \in 0 .. MaxActs
    BY EditorAssumption DEF Grab, Types
  <2> QED BY <2>1 DEF Grab, history
<1>8. Quiet
  BY <1>7, StillQuiet
<1>9. Types'
  BY <1>5, <1>6, <1>7 DEF Types, server
<1>10. None \notin Tiles
  BY EditorAssumption
<1>11. CarriedIsHeld'
  BY <1>1, <1>2, <1>5, <1>6, <1>7, <1>10 DEF CarriedIsHeld, NoCarry
<1>12. AtRest' = page
  <2> HIDE DEF c, list
  <2>0. AtRest' = PutBack(page', c)
    BY DEF AtRest, c
  <2>1. /\ DOMAIN PutBack(page', c) = DOMAIN page' /\ PutBack(page', c) \in Pages
        /\ PutBack(page', c)[c.home] = InsertAt(page'[c.home], c.homeAt + 1, c.tile)
        /\ \A h \in DOMAIN page' : h # c.home => PutBack(page', c)[h] = page'[h]
    BY <1>1, <1>2, <1>5, <1>6, PutBackFacts
  <2>2. PutBack(page', c)[g] = list
    BY <1>2, <1>3, <1>5, <1>6, <2>1
  <2>3. \A h \in DOMAIN page : PutBack(page', c)[h] = page[h]
    BY <1>5, <1>6, <2>1, <2>2 DEF list
  <2> QED BY <1>1, <1>5, <2>0, <2>1, <2>3, PageOf
<1> QED BY <1>5, <1>6, <1>7, <1>8, <1>9, <1>11, <1>12

\* A tile is carried on: where it would go back to stays the same.
LEMMA CarryFacts ==
  ASSUME Sound, NEW g \in DOMAIN page, NEW at \in 0 .. Len(page[g]), Carry(g, at)
  PROVE  /\ Types' /\ CarriedIsHeld' /\ Quiet /\ requests' = requests
         /\ UNCHANGED <<shown, key, page, strayed, unheard, turnedAway>> /\ (crossed => crossed')
         /\ AtRest' = AtRest /\ carried # NoCarry
         /\ carried'.homeless = carried.homeless /\ ~carried'.detached
<1> USE DEF Sound
<1>1. /\ carried # NoCarry /\ UNCHANGED <<server, page, shown, key, requests, acts, strayed, unheard, turnedAway>>
      /\ crossed' = (crossed \/ carried.detached)
      /\ carried' = [carried EXCEPT !.group = g, !.at = at, !.detached = FALSE]
  BY DEF Carry
<1>2. carried \in CarryType /\ page \in Pages /\ g \in Groups /\ at \in Nat /\ at <= Len(page[g])
  <2>1. carried \in CarryType /\ page \in Pages
    BY DEF Types
  <2>2. g \in Groups /\ page[g] \in Seq(Tiles)
    BY <2>1, PageOf
  <2> QED BY <2>1, <2>2
<1>3. /\ carried' \in CarryType /\ carried'.group = g /\ carried'.at = at /\ ~carried'.detached
      /\ carried'.tile = carried.tile /\ carried'.home = carried.home
      /\ carried'.homeAt = carried.homeAt /\ carried'.homeless = carried.homeless
  BY <1>1, <1>2 DEF CarryType
<1>4. carried.tile \in Tiles /\ None \notin Tiles
  BY <1>1, InHand, EditorAssumption
<1>5. carried' # NoCarry
  BY <1>3, <1>4 DEF NoCarry
<1>6. AtRest' = AtRest
  BY <1>1, <1>3, <1>5 DEF AtRest, PutBack
<1>7. Types'
  BY <1>1, <1>2, <1>3 DEF Types, server, CarryType
<1>8. CarriedIsHeld'
  BY <1>1, <1>2, <1>3, <1>4 DEF CarriedIsHeld
<1>9. Quiet
  BY <1>1, StillQuiet
<1> QED BY <1>1, <1>3, <1>6, <1>7, <1>8, <1>9

\* It is put back.
LEMMA CancelFacts ==
  ASSUME Sound, Cancel
  PROVE  /\ Types' /\ CarriedIsHeld' /\ Quiet /\ requests' = requests
         /\ UNCHANGED <<shown, key, crossed, strayed, unheard, turnedAway>>
         /\ DOMAIN page' = DOMAIN page /\ AtRest' = AtRest /\ carried' = NoCarry
<1> USE DEF Sound
<1>1. /\ carried # NoCarry /\ UNCHANGED <<server, shown, key, requests, acts, crossed, strayed, unheard, turnedAway>>
      /\ page' = AtRest /\ carried' = NoCarry
  BY DEF Cancel, AtRest, history
<1>2. carried \in CarryType /\ page \in Pages /\ carried.tile \in Tiles
  BY <1>1, InHand DEF Types
<1>3. ~carried.homeless => carried.home \in DOMAIN page /\ carried.homeAt <= Len(page[carried.home])
  BY <1>1 DEF CarriedIsHeld
<1>4. AtRest \in Pages /\ DOMAIN AtRest = DOMAIN page
  BY <1>2, <1>3, PutBackFacts DEF AtRest
<1>5. AtRest' = page'
  BY <1>1, NothingInHand DEF AtRest
<1>6. Types'
  BY <1>1, <1>4, IdleTyped DEF Types, server
<1>7. CarriedIsHeld'
  BY <1>1 DEF CarriedIsHeld
<1>8. Quiet
  BY <1>1, StillQuiet
<1> QED BY <1>1, <1>4, <1>5, <1>6, <1>7, <1>8

\* q asks for what was done to c.
IsMoveOf(q, c) ==
  /\ q.kind = "move" /\ q.step = "sent" /\ q.tile = c.tile /\ q.at = c.at /\ q.keys = c.keys
  /\ q.group = IF c.group = c.home THEN None ELSE c.group

\* The request a drop sends (MoveOf).
LEMMA MoveOfFacts ==
  ASSUME NEW c \in CarryType, c.tile \in Tiles, NEW calm \in BOOLEAN
  PROVE  LET r == [MoveOf(c) EXCEPT !.calm = calm]
         IN  /\ r \in RequestType /\ IsBlank(r) /\ r.kind = "move" /\ r.tile = c.tile
             /\ r.at = c.at /\ r.keys = c.keys /\ r.calm = calm
             /\ r.group = IF c.group = c.home THEN None ELSE c.group
<1>1. MoveOf(c) \in RequestType
  BY ZenonT(60), IdleTyped DEF MoveOf, RequestType, CarryType
<1>2. /\ MoveOf(c).kind = "move" /\ MoveOf(c).tile = c.tile /\ MoveOf(c).at = c.at
      /\ MoveOf(c).keys = c.keys /\ MoveOf(c).group = IF c.group = c.home THEN None ELSE c.group
      /\ MoveOf(c).source = None /\ MoveOf(c).todo = <<>> /\ MoveOf(c).patch = Nothing
      /\ ~MoveOf(c).whole /\ MoveOf(c).result = "ok" /\ MoveOf(c).behind = {} /\ ~MoveOf(c).gone
  BY DEF MoveOf, Idle
<1> DEFINE m == MoveOf(c)
           r == [m EXCEPT !.calm = calm]
<1> HIDE DEF m
<1>3. /\ r \in RequestType /\ r.kind = m.kind /\ r.tile = m.tile /\ r.at = m.at /\ r.keys = m.keys
      /\ r.group = m.group /\ r.calm = calm /\ r.source = m.source /\ r.todo = m.todo
      /\ r.patch = m.patch /\ r.whole = m.whole /\ r.result = m.result /\ r.behind = m.behind
      /\ r.gone = m.gone
  BY <1>1 DEF RequestType, m
<1> HIDE DEF r
<1>4. /\ r \in RequestType /\ IsBlank(r) /\ r.kind = "move" /\ r.tile = c.tile
      /\ r.at = c.at /\ r.keys = c.keys /\ r.calm = calm
      /\ r.group = IF c.group = c.home THEN None ELSE c.group
  BY <1>2, <1>3 DEF m, IsBlank
<1> QED BY <1>4 DEF r, m

\* A tile is let go: the move goes off on its own.
LEMMA DropFacts ==
  ASSUME Sound, NEW refocus \in BOOLEAN, Drop(refocus)
  PROVE  /\ Types' /\ CarriedIsHeld' /\ carried # NoCarry /\ carried' = NoCarry
         /\ page' = Placed(page, carried) /\ DOMAIN page' = DOMAIN page
         /\ UNCHANGED <<shown, crossed, unheard, turnedAway>> /\ strayed' = (strayed \/ Strays(page, carried))
         /\ key' = IF refocus THEN carried.tile ELSE key
         /\ \E s \in Slots :
              /\ Turn(s) /\ requests[s] = Idle /\ IsMoveOf(requests'[s], carried)
              /\ ~requests'[s].gone /\ (refocus => requests'[s].keys)
              /\ requests'[s].calm => Calm(carried)
              /\ \A u \in Slots \ {s} :
                   /\ requests'[u].keys = requests[u].keys /\ requests'[u].gone = requests[u].gone
                   /\ ~requests'[u].calm
<1> USE DEF Sound
<1>1. /\ carried # NoCarry /\ carried' = NoCarry /\ page' = Placed(page, carried)
      /\ UNCHANGED <<server, shown, acts, crossed, unheard, turnedAway>>
      /\ strayed' = (strayed \/ Strays(page, carried)) /\ key' = IF refocus THEN carried.tile ELSE key
      /\ refocus => carried.keys
  BY DEF Drop
<1>2. PICK s \in Free : Send(requests, s, [MoveOf(carried) EXCEPT !.calm = Calm(carried)])
  BY DEF Drop
<1>3. s \in Slots /\ requests[s] = Idle
  BY DEF Free, Busy
<1>4. carried \in CarryType /\ carried.tile \in Tiles /\ page \in Pages
      /\ requests \in [Slots -> RequestType] /\ shown
  BY <1>1, InHand DEF Types, CarriedIsHeld
<1>5. PICK calm \in BOOLEAN : calm = Calm(carried)
  BY DEF Calm
<1> DEFINE r == [MoveOf(carried) EXCEPT !.calm = calm]
<1>6. /\ r \in RequestType /\ IsBlank(r) /\ r.kind = "move" /\ r.tile = carried.tile
      /\ r.at = carried.at /\ r.keys = carried.keys /\ r.calm = calm
      /\ r.group = IF carried.group = carried.home THEN None ELSE carried.group
  BY <1>4, MoveOfFacts
<1>7. Send(requests, s, r)
  BY <1>2, <1>5
<1> HIDE DEF r
<1>8. /\ requests' \in [Slots -> RequestType] /\ requests'[s] = [r EXCEPT !.step = "sent"]
      /\ \A u \in Slots : u # s => requests'[u] = [requests[u] EXCEPT !.calm = FALSE]
  BY <1>3, <1>4, <1>6, <1>7, Sending
<1>9. /\ IsNew(requests'[s]) /\ Formed(requests'[s]) /\ requests'[s].calm = r.calm
      /\ IsMoveOf(requests'[s], carried)
  <2>1. /\ requests'[s].kind = r.kind /\ requests'[s].step = "sent" /\ requests'[s].tile = r.tile
        /\ requests'[s].at = r.at /\ requests'[s].keys = r.keys /\ requests'[s].group = r.group
    BY <1>6, <1>8, SentRecord
  <2>2. IsNew(requests'[s]) /\ Formed(requests'[s]) /\ requests'[s].calm = r.calm
    BY <1>6, <1>8, BlankIsNew
  <2> QED BY <1>6, <2>1, <2>2 DEF IsMoveOf
<1>10. ASSUME NEW u \in Slots, u # s
       PROVE  /\ GoesOn(u) /\ requests'[u].behind = requests[u].behind /\ ~requests'[u].calm
              /\ requests'[u].gone = requests[u].gone /\ requests'[u].keys = requests[u].keys
  <2>1. /\ SameWork(requests'[u], requests[u]) /\ ~requests'[u].calm
        /\ requests'[u].behind = requests[u].behind /\ requests'[u].gone = requests[u].gone
        /\ requests'[u].keys = requests[u].keys
    BY <1>4, <1>8, <1>10, NotCalmRecord
  <2>2. requests[u] = Idle => requests'[u] = Idle
    BY <1>8, <1>10, StaysIdle
  <2> QED BY <2>1, <2>2 DEF GoesOn
<1>11. Turn(s)
  <2>1. Idle.behind = {}
    BY DEF Idle
  <2>2. Calm(carried) => Busy = {}
    BY DEF Calm
  <2>3. requests'[s].kind # "add"
    BY <1>9 DEF IsMoveOf
  <2> QED BY <1>1, <1>3, <1>5, <1>6, <1>9, <1>10, <2>1, <2>2, <2>3 DEF Turn
<1>12. page' \in Pages /\ DOMAIN page' = DOMAIN page
  BY <1>1, <1>4, PlacedFacts DEF CarriedIsHeld
<1>13. Types'
  <2>1. strayed' \in BOOLEAN
    BY <1>1 DEF Types, Strays
  <2>2. key' \in Tiles \cup {None}
    BY <1>1, <1>4 DEF Types
  <2> QED BY <1>1, <1>8, <1>12, <2>1, <2>2, IdleTyped DEF Types, server
<1>14. CarriedIsHeld'
  BY <1>1, <1>4 DEF CarriedIsHeld
<1>15. refocus => requests'[s].keys
  BY <1>1, <1>9 DEF IsMoveOf
<1> QED
  BY <1>1, <1>3, <1>5, <1>6, <1>9, <1>10, <1>11, <1>12, <1>13, <1>14, <1>15 DEF IsNew

-----------------------------------------------------------------------------
(* The answers.                                                            *)

\* The request of a slot is over, or a move took the slot; nobody else notices.
Over(s) ==
  /\ requests'[s] = Idle \/ (IsNew(requests'[s]) /\ requests'[s].kind = "move")
  /\ Formed(requests'[s]) /\ ~requests'[s].calm /\ ~requests'[s].gone
  /\ \A u \in Slots \ {s} :
       /\ SameWork(requests'[u], requests[u]) /\ requests'[u].behind = requests[u].behind \ {s}
       /\ requests'[u].gone = requests[u].gone
       /\ requests[u] = Idle => requests'[u] = Idle
       /\ requests'[u].calm => requests[u].calm /\ requests'[s] = Idle
\* The same requests, but for whether the page listens to the keys.
SameBut(others) ==
  \A u \in Slots : /\ SameWork(others[u], requests[u]) /\ others[u].behind = requests[u].behind
                   /\ others[u].gone = requests[u].gone /\ others[u].calm = requests[u].calm
                   /\ requests[u] = Idle => others[u] = Idle

\* An empty slot is as it should be.
LEMMA IdleIsFormed == Formed(Idle) /\ ~Idle.calm /\ ~Idle.gone /\ Idle.kind = "none"
<1>1. ToSet(<<>>) = {}
  BY DEF ToSet
<1> QED BY <1>1 DEF Idle, Formed

\* A request that one before it has been answered goes on as it was.
LEMMA BehindRecord ==
  ASSUME NEW r \in RequestType, NEW s, NEW q, q = [r EXCEPT !.behind = @ \ {s}]
  PROVE  /\ q \in RequestType /\ q.behind = r.behind \ {s}
         /\ SameWork(q, r) /\ q.calm = r.calm /\ q.gone = r.gone /\ q.keys = r.keys
BY DEF RequestType, SameWork

\* The slots after a request has ended (Ends).
LEMMA Ending ==
  ASSUME NEW others \in [Slots -> RequestType], NEW s \in Slots
  PROVE  /\ Ends(s, others) \in [Slots -> RequestType] /\ Ends(s, others)[s] = Idle
         /\ \A u \in Slots : u # s =>
              /\ Ends(s, others)[u].behind = others[u].behind \ {s}
              /\ SameWork(Ends(s, others)[u], others[u])
              /\ Ends(s, others)[u].calm = others[u].calm /\ Ends(s, others)[u].gone = others[u].gone
              /\ Ends(s, others)[u].keys = others[u].keys
              /\ others[u] = Idle => Ends(s, others)[u] = Idle
<1>1. \A u \in Slots : [others[u] EXCEPT !.behind = @ \ {s}] \in RequestType
  BY BehindRecord
<1>2. Ends(s, others) \in [Slots -> RequestType] /\ Ends(s, others)[s] = Idle
      /\ \A u \in Slots : u # s => Ends(s, others)[u] = [others[u] EXCEPT !.behind = @ \ {s}]
  BY <1>1, IdleTyped DEF Ends
<1>3. \A u \in Slots : u # s /\ others[u] = Idle => Ends(s, others)[u] = Idle
  <2>1. [Idle EXCEPT !.behind = @ \ {s}] = Idle
    BY StaysIdle
  <2> QED BY <1>2, <2>1
<1>4. ASSUME NEW u \in Slots, u # s
      PROVE  /\ Ends(s, others)[u].behind = others[u].behind \ {s}
             /\ SameWork(Ends(s, others)[u], others[u])
             /\ Ends(s, others)[u].calm = others[u].calm /\ Ends(s, others)[u].gone = others[u].gone
             /\ Ends(s, others)[u].keys = others[u].keys
  <2>1. others[u] \in RequestType
    OBVIOUS
  <2>2. Ends(s, others)[u] = [others[u] EXCEPT !.behind = @ \ {s}]
    BY <1>2, <1>4
  <2> QED BY <2>1, <2>2, BehindRecord
<1> QED BY <1>2, <1>3, <1>4

\* An answer after which the tile stays in hand only empties its slot (Keeps).
LEMMA Keeping ==
  ASSUME requests \in [Slots -> RequestType], NEW others \in [Slots -> RequestType], SameBut(others),
         NEW s \in Slots, requests' = Ends(s, others)
  PROVE  /\ Over(s) /\ requests' \in [Slots -> RequestType] /\ requests'[s] = Idle
         /\ \A u \in Slots \ {s} : requests'[u].keys = others[u].keys
<1>1. \A u \in Slots : u # s =>
        /\ requests'[u].behind = others[u].behind \ {s} /\ SameWork(requests'[u], others[u])
        /\ requests'[u].calm = others[u].calm /\ requests'[u].gone = others[u].gone
        /\ requests'[u].keys = others[u].keys /\ (others[u] = Idle => requests'[u] = Idle)
  BY Ending
<1>2. requests' \in [Slots -> RequestType] /\ requests'[s] = Idle
  BY Ending
<1> QED BY <1>1, <1>2, IdleIsFormed DEF Over, SameBut, SameWork

\* One that makes the keyboard let go reuses the slot for the move (LetsGo).
LEMMA LettingGo ==
  ASSUME requests \in [Slots -> RequestType], NEW others \in [Slots -> RequestType], SameBut(others),
         NEW s \in Slots, NEW c \in CarryType, c.tile \in Tiles, Send(Ends(s, others), s, MoveOf(c))
  PROVE  /\ Over(s) /\ requests' \in [Slots -> RequestType] /\ IsMoveOf(requests'[s], c)
         /\ \A u \in Slots \ {s} : requests'[u].keys = others[u].keys
<1> DEFINE ended == Ends(s, others)
           r == [MoveOf(c) EXCEPT !.calm = FALSE]
<1>1. /\ ended \in [Slots -> RequestType]
      /\ \A u \in Slots : u # s =>
           /\ ended[u].behind = others[u].behind \ {s} /\ SameWork(ended[u], others[u])
           /\ ended[u].calm = others[u].calm /\ ended[u].gone = others[u].gone
           /\ ended[u].keys = others[u].keys /\ (others[u] = Idle => ended[u] = Idle)
  BY Ending
<1> HIDE DEF ended
<1>2. PICK calm \in BOOLEAN : calm = FALSE
  OBVIOUS
<1>3. /\ r \in RequestType /\ IsBlank(r) /\ r.kind = "move" /\ r.tile = c.tile
      /\ r.at = c.at /\ r.keys = c.keys /\ r.calm = FALSE
      /\ r.group = IF c.group = c.home THEN None ELSE c.group
  BY <1>2, MoveOfFacts
<1>4. MoveOf(c) = r
  <2>1. MoveOf(c).calm = FALSE
    BY DEF MoveOf, Idle
  <2>2. MoveOf(c) \in RequestType
    BY ZenonT(60), IdleTyped DEF MoveOf, RequestType, CarryType
  <2> DEFINE m == MoveOf(c)
  <2> HIDE DEF m
  <2>3. m \in RequestType /\ m.calm = FALSE => [m EXCEPT !.calm = FALSE] = m
    BY DEF RequestType
  <2> QED BY <2>1, <2>2, <2>3 DEF m
<1> HIDE DEF r
<1>5. Send(ended, s, r)
  BY <1>4 DEF ended
<1>6. /\ requests' \in [Slots -> RequestType] /\ requests'[s] = [r EXCEPT !.step = "sent"]
      /\ \A u \in Slots : u # s => requests'[u] = [ended[u] EXCEPT !.calm = FALSE]
  BY <1>1, <1>3, <1>5, Sending
<1>7. /\ IsNew(requests'[s]) /\ Formed(requests'[s]) /\ ~requests'[s].calm
      /\ IsMoveOf(requests'[s], c)
  <2>1. /\ requests'[s].kind = r.kind /\ requests'[s].step = "sent" /\ requests'[s].tile = r.tile
        /\ requests'[s].at = r.at /\ requests'[s].keys = r.keys /\ requests'[s].group = r.group
    BY <1>3, <1>6, SentRecord
  <2>2. IsNew(requests'[s]) /\ Formed(requests'[s]) /\ requests'[s].calm = r.calm
    BY <1>3, <1>6, BlankIsNew
  <2> QED BY <1>3, <2>1, <2>2 DEF IsMoveOf
<1>8. ASSUME NEW u \in Slots, u # s
      PROVE  /\ SameWork(requests'[u], others[u]) /\ ~requests'[u].calm
             /\ requests'[u].behind = others[u].behind \ {s}
             /\ requests'[u].gone = others[u].gone /\ requests'[u].keys = others[u].keys
             /\ others[u] = Idle => requests'[u] = Idle
  <2>1. /\ SameWork(requests'[u], ended[u]) /\ ~requests'[u].calm
        /\ requests'[u].behind = ended[u].behind /\ requests'[u].gone = ended[u].gone
        /\ requests'[u].keys = ended[u].keys
    BY <1>1, <1>6, <1>8, NotCalmRecord
  <2>2. others[u] = Idle => requests'[u] = Idle
    BY <1>1, <1>6, <1>8, StaysIdle
  <2> QED BY <1>1, <1>8, <2>1, <2>2 DEF SameWork
<1> QED BY <1>6, <1>7, <1>8 DEF Over, SameBut, SameWork, IsMoveOf, IsNew

\* A controller that is left takes only the keys along (Leaves).
LEMMA Leaving ==
  ASSUME requests \in [Slots -> RequestType]
  PROVE  Leaves \in [Slots -> RequestType] /\ SameBut(Leaves) /\ SameBut(requests)
<1>1. ASSUME NEW r \in RequestType, NEW q, q = [r EXCEPT !.keys = FALSE]
      PROVE  /\ q \in RequestType /\ SameWork(q, r) /\ q.behind = r.behind /\ q.gone = r.gone
             /\ q.calm = r.calm
  BY <1>1 DEF RequestType, SameWork
<1>2. Leaves \in [Slots -> RequestType] /\ \A u \in Slots : Leaves[u] = [requests[u] EXCEPT !.keys = FALSE]
  BY <1>1 DEF Leaves
<1>3. SameBut(Leaves)
  BY <1>1, <1>2, StaysIdle DEF SameBut
<1> QED BY <1>2, <1>3 DEF SameBut, SameWork

\* What an answer replaces is what it read; the rest of the page stays.
LEMMA PatchedFacts ==
  ASSUME page \in Pages, NEW r \in RequestType, Formed(r), ~shown => page = Nothing
  PROVE  /\ Patched(r) \in Pages
         /\ r.whole /\ shown => Patched(r) = r.patch /\ DOMAIN page \subseteq Regions(r)
                                /\ DOMAIN r.patch \subseteq Regions(r)
         /\ ~(r.whole /\ shown) => DOMAIN Patched(r) = DOMAIN page
                                   /\ Regions(r) \subseteq DOMAIN page \cap DOMAIN r.patch
         /\ \A g \in DOMAIN Patched(r) :
              \/ g \in Regions(r) /\ g \in DOMAIN r.patch /\ Patched(r)[g] = r.patch[g]
              \/ g \notin Regions(r) /\ g \in DOMAIN page /\ Patched(r)[g] = page[g]
         /\ ~shown => Patched(r) = Nothing
         /\ shown /\ r.result # "failed" => DOMAIN r.patch \cap DOMAIN page \subseteq Regions(r)
<1>1. r.patch \in Pages
  BY DEF RequestType
<1>2. CASE r.whole /\ shown
  <2>1. r.result # "failed"
    BY <1>2 DEF Formed
  <2>2. Patched(r) = r.patch /\ Regions(r) = DOMAIN page \cup DOMAIN r.patch
    BY <1>2, <2>1 DEF Patched, Regions
  <2> QED BY <1>1, <1>2, <2>2
<1>3. CASE ~(r.whole /\ shown)
  <2>1. Patched(r) = [g \in DOMAIN page |-> IF g \in Regions(r) THEN r.patch[g] ELSE page[g]]
    BY <1>3 DEF Patched
  <2>2. Regions(r) \subseteq DOMAIN page \cap DOMAIN r.patch
    BY <1>3 DEF Regions
  <2>3. DOMAIN page \in SUBSET Groups /\ \A g \in DOMAIN page : page[g] \in Seq(Tiles)
    BY PageOf
  <2>4. \A g \in DOMAIN r.patch : r.patch[g] \in Seq(Tiles)
    BY <1>1, PageOf
  <2>5. Patched(r) \in [DOMAIN page -> Seq(Tiles)]
    BY <2>1, <2>2, <2>3, <2>4
  <2>6. Patched(r) \in Pages
    BY <2>3, <2>5, IsAPage
  <2>7. ~shown => DOMAIN page = {} /\ Patched(r) = Nothing
    <3>1. DOMAIN Nothing = {}
      BY DEF Nothing
    <3>2. DOMAIN page = {} => Patched(r) = Nothing
      BY <2>1 DEF Nothing
    <3> QED BY <3>1, <3>2
  <2>8. shown /\ r.result # "failed" => DOMAIN r.patch \cap DOMAIN page \subseteq Regions(r)
    BY <1>3 DEF Regions
  <2> QED BY <1>3, <2>1, <2>2, <2>5, <2>6, <2>7, <2>8
<1> QED BY <1>2, <1>3

\* The tile in hand after the answer of r, and whether the row waited for came.
Held(r) ==
  [carried EXCEPT !.detached = @ \/ carried.group \in Regions(r),
                  !.homeless = @ \/ carried.home \in Regions(r)]
Fresh(r) == r.result # "failed" /\ key \in Rows(Only(Patched(r), Regions(r) \cap DOMAIN r.patch))

\* What an answer makes of the tile in hand: the same tile, held at the same
\* place, which may have been redrawn under it (Redrawn).
LEMMA HeldFacts ==
  ASSUME Sound, carried # NoCarry, NEW r \in RequestType, Formed(r), NEW c, c = Held(r)
  PROVE  /\ c \in CarryType /\ c.tile \in Tiles /\ c.tile = carried.tile /\ c # NoCarry
         /\ c.group = carried.group /\ c.home = carried.home /\ c.at = carried.at
         /\ c.homeAt = carried.homeAt /\ c.keys = carried.keys
         /\ c.homeless <=> carried.homeless \/ carried.home \in Regions(r)
         /\ c.detached <=> carried.detached \/ carried.group \in Regions(r)
         /\ ~c.homeless => /\ c.home \in DOMAIN Patched(r) /\ Patched(r)[c.home] = page[c.home]
                           /\ c.homeAt <= Len(Patched(r)[c.home])
         /\ ~c.detached => /\ c.group \in DOMAIN Patched(r) /\ c.at <= Len(Patched(r)[c.group])
<1>1. carried \in CarryType /\ carried.tile \in Tiles /\ None \notin Tiles
  BY InHand, EditorAssumption DEF Sound, Types
<1>2. /\ c \in CarryType /\ c.tile = carried.tile
      /\ c.group = carried.group /\ c.home = carried.home /\ c.at = carried.at
      /\ c.homeAt = carried.homeAt /\ c.keys = carried.keys
      /\ c.homeless = (carried.homeless \/ carried.home \in Regions(r))
      /\ c.detached = (carried.detached \/ carried.group \in Regions(r))
  BY <1>1 DEF Held, CarryType
<1>3. c # NoCarry
  BY <1>1, <1>2 DEF NoCarry
<1>4. /\ r.whole /\ shown => DOMAIN page \subseteq Regions(r)
      /\ ~(r.whole /\ shown) => DOMAIN Patched(r) = DOMAIN page
      /\ \A g \in DOMAIN Patched(r) : g \notin Regions(r) => Patched(r)[g] = page[g]
  BY PatchedFacts DEF Sound, Types, CarriedIsHeld
<1>5. /\ ~carried.homeless => carried.home \in DOMAIN page /\ carried.homeAt <= Len(page[carried.home])
      /\ ~carried.detached => carried.group \in DOMAIN page /\ carried.at <= Len(page[carried.group])
  BY DEF Sound, CarriedIsHeld
<1> QED BY <1>1, <1>2, <1>3, <1>4, <1>5

\* An answer that redraws parts of the page.
LEMMA RedrawnFacts ==
  ASSUME Sound, NEW s \in Slots, Redrawn(s)
  PROVE  LET r == requests[s]
             c == Held(r)
         IN  /\ Over(s) /\ requests' \in [Slots -> RequestType]
             /\ page' \in Pages /\ DOMAIN page' = DOMAIN Patched(r) /\ carried' \in CarryType /\ key' \in Tiles \cup {None}
             /\ strayed' \in BOOLEAN /\ CarriedIsHeld' /\ shown' = shown
             /\ turnedAway' = (turnedAway \/ (r.away /\ r.keys))
             /\ \A u \in Slots \ {s} : requests'[u].keys = requests[u].keys
             /\ key' = IF Fresh(r) THEN None ELSE IF Unanswered(r) THEN KeyAfterFailure(r) ELSE key
             /\ \/ /\ carried = NoCarry /\ carried' = NoCarry /\ page' = Patched(r)
                   /\ requests'[s] = Idle /\ UNCHANGED strayed
                \/ /\ carried # NoCarry /\ carried' = c /\ page' = Patched(r)
                   /\ requests'[s] = Idle /\ UNCHANGED strayed
                \/ /\ carried # NoCarry /\ carried' = NoCarry /\ page' = Placed(Patched(r), c)
                   /\ IsMoveOf(requests'[s], c)
                   /\ strayed' = (strayed \/ Strays(Patched(r), c))
<1> DEFINE r == requests[s]
           c == Held(r)
<1>1. /\ requests \in [Slots -> RequestType] /\ r \in RequestType /\ Formed(r) /\ page \in Pages
      /\ CarriedIsHeld /\ carried \in CarryType /\ key \in Tiles \cup {None} /\ strayed \in BOOLEAN
  BY DEF Sound, Types, AllFormed
<1>2. /\ key' = IF Fresh(r) THEN None ELSE IF Unanswered(r) THEN KeyAfterFailure(r) ELSE key
      /\ shown' = shown /\ turnedAway' = (turnedAway \/ (r.away /\ r.keys))
      /\ \/ /\ carried = NoCarry
            /\ Keeps(s, requests, NoCarry) /\ page' = Patched(r)
            /\ UNCHANGED strayed
         \/ /\ carried # NoCarry
            /\ Keeps(s, requests, c) /\ page' = Patched(r)
            /\ UNCHANGED strayed
         \/ /\ carried # NoCarry
            /\ LetsGo(s, requests, c) /\ page' = Placed(Patched(r), c)
            /\ strayed' = (strayed \/ Strays(Patched(r), c))
  BY DEF Redrawn, Held, Fresh
<1> HIDE DEF c
<1>3. SameBut(requests)
  BY <1>1, Leaving
<1>4. Patched(r) \in Pages /\ (~shown => Patched(r) = Nothing)
  BY <1>1, PatchedFacts DEF CarriedIsHeld
<1>5. key' \in Tiles \cup {None} /\ (key = None => key' = None)
  BY <1>1, <1>2 DEF KeyAfterFailure
<1>6. carried # NoCarry =>
        /\ c \in CarryType /\ c.tile \in Tiles /\ c # NoCarry
        /\ c.group = carried.group /\ c.home = carried.home
        /\ ~c.homeless => c.home \in DOMAIN Patched(r) /\ c.homeAt <= Len(Patched(r)[c.home])
        /\ ~c.detached => c.group \in DOMAIN Patched(r) /\ c.at <= Len(Patched(r)[c.group])
  BY <1>1, HeldFacts DEF c
<1>7. None \notin Tiles /\ NoCarry \in CarryType
  BY EditorAssumption, IdleTyped
<1>8. CASE /\ carried = NoCarry
           /\ Keeps(s, requests, NoCarry) /\ page' = Patched(r)
           /\ UNCHANGED strayed
  <2>1. Over(s) /\ requests' \in [Slots -> RequestType] /\ requests'[s] = Idle
        /\ \A u \in Slots \ {s} : requests'[u].keys = requests[u].keys
    BY <1>1, <1>3, <1>8, Keeping DEF Keeps
  <2>2. carried' = NoCarry
    BY <1>8 DEF Keeps
  <2>3. CarriedIsHeld'
    BY <1>1, <1>2, <1>4, <1>5, <1>8, <2>2 DEF CarriedIsHeld
  <2> QED BY <1>1, <1>2, <1>4, <1>5, <1>7, <1>8, <2>1, <2>2, <2>3
<1>9. CASE /\ carried # NoCarry
           /\ Keeps(s, requests, c) /\ page' = Patched(r)
           /\ UNCHANGED strayed
  <2>1. Over(s) /\ requests' \in [Slots -> RequestType] /\ requests'[s] = Idle
        /\ \A u \in Slots \ {s} : requests'[u].keys = requests[u].keys
    BY <1>1, <1>3, <1>9, Keeping DEF Keeps
  <2>2. carried' = c
    BY <1>9 DEF Keeps
  <2>3. CarriedIsHeld'
    BY <1>1, <1>2, <1>4, <1>5, <1>6, <1>7, <1>9, <2>2 DEF CarriedIsHeld
  <2> QED BY <1>1, <1>2, <1>4, <1>5, <1>6, <1>9, <2>1, <2>2, <2>3 DEF c
<1>10. CASE /\ carried # NoCarry
            /\ LetsGo(s, requests, c) /\ page' = Placed(Patched(r), c)
            /\ strayed' = (strayed \/ Strays(Patched(r), c))
  <2>1. Over(s) /\ requests' \in [Slots -> RequestType] /\ IsMoveOf(requests'[s], c)
        /\ \A u \in Slots \ {s} : requests'[u].keys = requests[u].keys
    BY <1>1, <1>3, <1>6, <1>10, LettingGo DEF LetsGo
  <2>2. carried' = NoCarry
    BY <1>10 DEF LetsGo
  <2>3. page' \in Pages /\ DOMAIN page' = DOMAIN Patched(r)
    BY <1>4, <1>6, <1>10, PlacedFacts
  <2>4. CarriedIsHeld'
    BY <1>1, <1>2, <1>10, <2>2 DEF CarriedIsHeld
  <2>5. strayed' \in BOOLEAN
    BY <1>1, <1>10 DEF Strays
  <2> QED BY <1>1, <1>2, <1>5, <1>7, <1>10, <2>1, <2>2, <2>3, <2>4, <2>5 DEF c
<1> QED BY <1>2, <1>8, <1>9, <1>10

\* An answer that is another page.
LEMMA ReplacedFacts ==
  ASSUME Sound, NEW s \in Slots, Replaced(s)
  PROVE  LET r == requests[s]
         IN  /\ Over(s) /\ requests' \in [Slots -> RequestType]
             /\ page' \in Pages /\ strayed' \in BOOLEAN /\ CarriedIsHeld'
             /\ carried' = NoCarry /\ key' = None /\ turnedAway' = FALSE /\ shown' = Loaded(r)
             /\ page' = IF Loaded(r) THEN r.patch ELSE Nothing
<1> DEFINE r == requests[s]
           c == [carried EXCEPT !.detached = TRUE, !.keys = FALSE]
<1>1. /\ requests \in [Slots -> RequestType] /\ r \in RequestType
      /\ CarriedIsHeld /\ carried \in CarryType /\ strayed \in BOOLEAN
  BY DEF Sound, Types
<1>2. /\ shown' = Loaded(r) /\ page' = IF Loaded(r) THEN r.patch ELSE Nothing
      /\ key' = None /\ turnedAway' = FALSE /\ strayed' = (strayed /\ ~Loaded(r))
      /\ \/ Keeps(s, Leaves, NoCarry)
         \/ carried.keys /\ LetsGo(s, Leaves, c)
  BY DEF Replaced
<1>3. Leaves \in [Slots -> RequestType] /\ SameBut(Leaves)
  BY <1>1, Leaving
<1>4. carried' = NoCarry
  BY <1>2 DEF Keeps, LetsGo
<1>5. page' \in Pages /\ strayed' \in BOOLEAN
  BY <1>1, <1>2, IdleTyped DEF RequestType
<1>6. CarriedIsHeld'
  BY <1>2, <1>4 DEF CarriedIsHeld
<1>7. CASE Keeps(s, Leaves, NoCarry)
  <2>1. Over(s) /\ requests' \in [Slots -> RequestType]
    BY <1>1, <1>3, <1>7, Keeping DEF Keeps
  <2> QED BY <1>2, <1>4, <1>5, <1>6, <2>1
<1>8. CASE carried.keys /\ LetsGo(s, Leaves, c)
  <2>1. carried # NoCarry
    BY <1>8 DEF NoCarry
  <2>2. c \in CarryType /\ c.tile = carried.tile
    BY <1>1 DEF CarryType
  <2>3. carried.tile \in Tiles
    BY <2>1, InHand DEF Sound
  <2> HIDE DEF c
  <2>4. Over(s) /\ requests' \in [Slots -> RequestType]
    BY <1>1, <1>3, <1>8, <2>2, <2>3, LettingGo DEF LetsGo
  <2> QED BY <1>2, <1>4, <1>5, <1>6, <2>4
<1> QED BY <1>2, <1>7, <1>8

\* The end of a request is a turn of its slot.
LEMMA OverIsTurn ==
  ASSUME NEW s \in Slots, Over(s), UNCHANGED server,
         crossed /\ ~crossed' => Busy \subseteq {s},
         unheard /\ ~unheard' => Busy \subseteq {s},
         ~crossed' /\ ~unheard' => requests[s].behind = {} \/ Busy \subseteq {s}
  PROVE  Turn(s)
<1>1. requests'[s].kind # "add"
  BY IdleIsFormed DEF Over
<1>2. \A u \in Slots \ {s} : GoesOn(u)
  BY DEF Over, GoesOn
<1> QED BY <1>1, <1>2 DEF Over, Turn

\* An answer is received: it redraws parts of the page or is another page, and
\* a page that was asked for alone makes up for whatever went before.
LEMMA ReceiveFacts ==
  ASSUME Sound, Ordered, NEW s \in Slots, Receive(s)
  PROVE  LET r == requests[s]
         IN  /\ Types' /\ CarriedIsHeld' /\ Turn(s) /\ Over(s) /\ Answered(r) /\ ~r.gone
             /\ \/ /\ crossed' = (crossed \/ r.behind # {}) /\ unheard' = (unheard \/ r.result = "failed")
                \/ /\ Loaded(r) /\ r.calm /\ Busy = {s}
             /\ \/ Redrawn(s) /\ (r.kind = "move" \/ r.result # "failed") /\ r.kind # "load"
                   /\ crossed' = (crossed \/ r.behind # {}) /\ unheard' = (unheard \/ r.result = "failed")
                \/ Replaced(s) /\ (~Loaded(r) => r.result = "failed")
<1> DEFINE r == requests[s]
<1>1. /\ Answered(r) /\ ~r.gone /\ UNCHANGED <<server, acts>>
      /\ \/ Redrawn(s) /\ (r.kind = "move" \/ r.result # "failed") /\ r.kind # "load"
         \/ Replaced(s) /\ (r.kind = "load" \/ r.result = "failed")
      /\ crossed' = (~(Loaded(r) /\ r.calm) /\ (crossed \/ r.behind # {}))
      /\ unheard' = (~(Loaded(r) /\ r.calm) /\ (unheard \/ r.result = "failed"))
  BY DEF Receive
<1>2. r.kind = "load" => Loaded(r) \/ r.result = "failed"
  <2>1. Formed(r) /\ r.step = "reading"
    BY <1>1 DEF Sound, AllFormed, Answered
  <2> QED BY <2>1 DEF Formed, Loaded
<1>3. \/ /\ crossed' = (crossed \/ r.behind # {}) /\ unheard' = (unheard \/ r.result = "failed")
         /\ ~(Loaded(r) /\ r.calm)
      \/ /\ Loaded(r) /\ r.calm /\ Busy = {s}
  BY <1>1 DEF Ordered, CalmIsAlone, Sound, Types
<1>4. /\ Over(s) /\ requests' \in [Slots -> RequestType] /\ page' \in Pages
      /\ carried' \in CarryType /\ key' \in Tiles \cup {None}
      /\ strayed' \in BOOLEAN /\ shown' \in BOOLEAN /\ turnedAway' \in BOOLEAN /\ CarriedIsHeld'
  <2>1. CASE Redrawn(s)
    <3>1. shown' = shown /\ shown \in BOOLEAN /\ turnedAway' \in BOOLEAN
      BY <2>1, RedrawnFacts DEF Sound, Types, RequestType
    <3> QED BY <2>1, <3>1, RedrawnFacts
  <2>2. CASE Replaced(s)
    BY <2>2, ReplacedFacts, IdleTyped DEF Loaded
  <2> QED BY <1>1, <2>1, <2>2
<1>5. Turn(s)
  BY <1>1, <1>3, <1>4, OverIsTurn
<1>6. crossed' \in BOOLEAN /\ unheard' \in BOOLEAN
  BY <1>1 DEF Sound, Types
<1>7. Types'
  BY <1>1, <1>4, <1>6 DEF Sound, Types, server
<1> QED BY <1>1, <1>2, <1>3, <1>4, <1>5, <1>7 DEF Loaded

\* A request that is given up.
LEMMA LoseFacts ==
  ASSUME Sound, Ordered, NEW s \in Slots, Lose(s)
  PROVE  /\ Types' /\ CarriedIsHeld' /\ unheard' /\ UNCHANGED <<page, shown, carried, crossed, strayed, turnedAway>>
         /\ key' = KeyAfterFailure(requests[s])
         /\ \A u \in Slots \ {s} : requests'[u].keys = requests[u].keys /\ requests'[u].gone = requests[u].gone
                                   /\ SameWork(requests'[u], requests[u])
         /\ Quiet \/ (Turn(s) /\ requests'[s] = Idle)
<1> USE DEF Sound
<1>1. /\ requests \in [Slots -> RequestType] /\ Formed(requests[s]) /\ key \in Tiles \cup {None}
  BY DEF Types, AllFormed
<1>2. /\ UNCHANGED <<server, page, shown, carried, acts, crossed, strayed, turnedAway>> /\ unheard' = TRUE
      /\ key' = KeyAfterFailure(requests[s]) /\ requests[s] # Idle
      /\ \/ requests[s].step = "sent" /\ requests' = Ends(s, requests)
         \/ requests' = [requests EXCEPT ![s].gone = TRUE]
  BY DEF Lose
<1>3. key' \in Tiles \cup {None} /\ (key = None => key' = None)
  BY <1>1, <1>2 DEF KeyAfterFailure
<1>4. CarriedIsHeld'
  BY <1>2, <1>3 DEF CarriedIsHeld
<1>5. CASE requests[s].step = "sent" /\ requests' = Ends(s, requests)
  <2>1. /\ Over(s) /\ requests' \in [Slots -> RequestType] /\ requests'[s] = Idle
        /\ \A u \in Slots \ {s} : requests'[u].keys = requests[u].keys
    BY <1>1, <1>5, Leaving, Keeping
  <2>2. requests[s].behind = {}
    BY <1>1, <1>5 DEF Formed
  <2>3. Turn(s)
    BY <1>2, <2>1, <2>2, OverIsTurn
  <2>4. Types'
    BY <1>2, <1>3, <2>1 DEF Types, server
  <2> QED BY <1>2, <1>4, <2>1, <2>3, <2>4 DEF Over
<1>6. CASE requests' = [requests EXCEPT ![s].gone = TRUE]
  <2> DEFINE q == [requests[s] EXCEPT !.gone = TRUE]
  <2>1. /\ q \in RequestType /\ SameWork(q, requests[s]) /\ q.calm = requests[s].calm
        /\ q.behind = requests[s].behind /\ q.gone /\ q.keys = requests[s].keys
    BY <1>1, GoneRecord
  <2>2. requests' = [requests EXCEPT ![s] = q]
    BY <1>6
  <2> HIDE DEF q
  <2>3. /\ requests' \in [Slots -> RequestType] /\ requests'[s] = q
        /\ \A u \in Slots \ {s} : requests'[u] = requests[u]
    BY <1>1, <2>1, <2>2
  <2>4. Quiet
    BY <1>2, <2>1, <2>3 DEF Quiet, GoesOn, SameWork
  <2>5. Types'
    BY <1>2, <1>3, <2>3 DEF Types, server
  <2> QED BY <1>2, <1>4, <2>3, <2>4, <2>5 DEF SameWork
<1> QED BY <1>2, <1>5, <1>6

\* A handler whose caller has gone leaves all but its slot alone (GiveUp).
LEMMA GiveUpFacts ==
  ASSUME Sound, Ordered, NEW s \in Slots, GiveUp(s)
  PROVE  /\ Types' /\ CarriedIsHeld' /\ Turn(s) /\ requests'[s] = Idle
         /\ UNCHANGED <<browser, crossed, strayed, unheard, turnedAway>> /\ unheard /\ requests[s].gone
         /\ \A u \in Slots \ {s} : requests'[u].keys = requests[u].keys /\ requests'[u].gone = requests[u].gone
                                   /\ SameWork(requests'[u], requests[u])
<1>1. /\ requests[s].gone /\ requests' = Ends(s, requests)
      /\ UNCHANGED <<server, browser, acts, crossed, strayed, unheard, turnedAway>>
  BY DEF GiveUp, history
<1>2. requests \in [Slots -> RequestType] /\ unheard
  BY <1>1 DEF Sound, Types, Ordered, GoneIsUnheard
<1>3. /\ Over(s) /\ requests' \in [Slots -> RequestType] /\ requests'[s] = Idle
      /\ \A u \in Slots \ {s} : requests'[u].keys = requests[u].keys
  BY <1>1, <1>2, Leaving, Keeping
<1>4. Turn(s)
  BY <1>1, <1>2, <1>3, OverIsTurn
<1>5. Types'
  BY <1>1, <1>3 DEF Sound, Types, server, browser
<1>6. CarriedIsHeld'
  BY <1>1 DEF Sound, CarriedIsHeld, browser
<1> QED BY <1>1, <1>2, <1>3, <1>4, <1>5, <1>6 DEF Over

-----------------------------------------------------------------------------
(* The handlers.                                                           *)

ReadType == {"group", "items", "column"} \X Groups
\* The reads of the tiles of some groups, and of some groups with their tiles.
ItemsOf(groups) == {<<"items", g>> : g \in groups}
GroupsOf(groups) == {<<"group", g>> : g \in groups}

\* A list of one read.
LEMMA OneRead ==
  ASSUME NEW what \in {"group", "items", "column"}, NEW g \in Groups
  PROVE  /\ <<<<what, g>>>> \in Seq(ReadType) /\ ToSet(<<<<what, g>>>>) = {<<what, g>>}
         /\ Tail(<<<<what, g>>>>) = <<>>
<1>1. <<what, g>> \in ReadType
  BY DEF ReadType
<1> DEFINE x == <<what, g>>
<1> HIDE DEF x
<1>2. x \in ReadType => <<x>> \in Seq(ReadType) /\ ToSet(<<x>>) = {x} /\ Tail(<<x>>) = <<>>
  BY DEF ToSet
<1> QED BY <1>1, <1>2 DEF x

\* Redraw reads a group and its tiles.
LEMMA RedrawHolds ==
  ASSUME NEW g \in Groups
  PROVE  /\ Redraw(g) \in Seq(ReadType)
         /\ ToSet(Redraw(g)) = ItemsOf({g}) \cup GroupsOf({g})
<1>1. <<"group", g>> \in ReadType /\ <<"items", g>> \in ReadType
  BY DEF ReadType
<1> DEFINE x == <<"group", g>>
           y == <<"items", g>>
<1>2. Redraw(g) = <<x, y>>
  BY DEF Redraw
<1>3. ItemsOf({g}) \cup GroupsOf({g}) = {x, y}
  BY DEF ItemsOf, GroupsOf
<1> HIDE DEF x, y
<1>4. x \in ReadType /\ y \in ReadType
  BY <1>1 DEF x, y
<1>5. <<x, y>> \in Seq(ReadType)
  BY <1>4
<1>6. ToSet(<<x, y>>) = {x, y}
  <2>1. DOMAIN <<x, y>> = {1, 2}
    OBVIOUS
  <2> QED BY <2>1 DEF ToSet
<1> QED BY <1>2, <1>3, <1>5, <1>6

\* The answer to a move reads both groups it may have changed (RedrawMoved).
LEMMA RedrawMovedHolds ==
  ASSUME NEW r \in RequestType, r.source \in Groups
  PROVE  /\ RedrawMoved(r) \in Seq(ReadType)
         /\ LET to == IF r.group = None THEN {r.source} ELSE {r.group, r.source}
            IN  ToSet(RedrawMoved(r)) = ItemsOf(to) \cup GroupsOf(to)
<1>1. CASE r.group \in {None, r.source}
  <2>1. RedrawMoved(r) = Redraw(r.source)
    BY <1>1 DEF RedrawMoved
  <2>2. (IF r.group = None THEN {r.source} ELSE {r.group, r.source}) = {r.source}
    BY <1>1
  <2> QED BY <2>1, <2>2, RedrawHolds
<1>2. CASE r.group \notin {None, r.source}
  <2>1. r.group \in Groups
    BY <1>2 DEF RequestType
  <2>2. RedrawMoved(r) = Redraw(r.group) \o Redraw(r.source)
    BY <1>2 DEF RedrawMoved
  <2> DEFINE a == Redraw(r.group)
             z == Redraw(r.source)
  <2>3. /\ a \in Seq(ReadType) /\ ToSet(a) = ItemsOf({r.group}) \cup GroupsOf({r.group})
        /\ z \in Seq(ReadType) /\ ToSet(z) = ItemsOf({r.source}) \cup GroupsOf({r.source})
    BY <2>1, RedrawHolds
  <2> HIDE DEF a, z
  <2>4. a \o z \in Seq(ReadType) /\ Range(a \o z) = Range(a) \cup Range(z)
    BY <2>3, ConcatProperties, RangeConcatenation
  <2>5. ToSet(a \o z) = ToSet(a) \cup ToSet(z)
    BY <2>4 DEF ToSet, Range
  <2>6. ItemsOf({r.group}) \cup ItemsOf({r.source}) = ItemsOf({r.group, r.source})
        /\ GroupsOf({r.group}) \cup GroupsOf({r.source}) = GroupsOf({r.group, r.source})
    BY DEF ItemsOf, GroupsOf
  <2>7. ToSet(a \o z) = ItemsOf({r.group, r.source}) \cup GroupsOf({r.group, r.source})
    BY <2>3, <2>5, <2>6
  <2> QED BY <1>2, <2>2, <2>4, <2>7 DEF a, z
<1> QED BY <1>1, <1>2

\* All the groups there are, to be read one after the other.
LEMMA AllItems ==
  ASSUME NEW D, D \subseteq Groups
  PROVE  SetToSeq(ItemsOf(D)) \in Seq(ReadType) /\ ToSet(SetToSeq(ItemsOf(D))) = ItemsOf(D)
<1>1. IsFiniteSet(D)
  BY EditorAssumption, FS_Subset
<1> DEFINE f == [g \in D |-> <<"items", g>>]
<1>2. f \in Surjection(D, ItemsOf(D))
  BY DEF Surjection, ItemsOf
<1>3. IsFiniteSet(ItemsOf(D))
  BY <1>1, <1>2, FS_Surjection
<1>4. ItemsOf(D) \subseteq ReadType
  BY DEF ItemsOf, ReadType
<1> QED BY <1>3, <1>4, SetToSeqHolds

\* A tile that is stored is in one group.
LEMMA GroupOfFacts ==
  ASSUME NEW t \in Rows(stored)
  PROVE  /\ GroupOf(t) \in DOMAIN stored /\ t \in ToSet(stored[GroupOf(t)])
         /\ StoredOnce => \A g \in DOMAIN stored : t \in ToSet(stored[g]) <=> g = GroupOf(t)
<1>1. \E g \in DOMAIN stored : t \in ToSet(stored[g])
  BY DEF Rows
<1>2. GroupOf(t) \in DOMAIN stored /\ t \in ToSet(stored[GroupOf(t)])
  BY <1>1 DEF GroupOf
<1> HIDE DEF GroupOf
<1>3. ASSUME StoredOnce, NEW g \in DOMAIN stored, t \in ToSet(stored[g]) PROVE g = GroupOf(t)
  BY <1>2, <1>3 DEF StoredOnce
<1> QED BY <1>2, <1>3

\* A step of a handler changes its own slot and says whether it was handled
\* across another (Step).
LEMMA Stepping ==
  ASSUME requests \in [Slots -> RequestType], NEW s \in Slots, NEW q \in RequestType, Step(s, q)
  PROVE  /\ requests' \in [Slots -> RequestType] /\ requests'[s] = q
         /\ \A u \in Slots \ {s} : requests'[u] = requests[u]
         /\ crossed' = (crossed \/ Handled \ {s} # {}) /\ UNCHANGED <<browser, acts, strayed, unheard, turnedAway>>
BY DEF Step
\* A handler that fails has nothing to read.
LEMMA FailedRecord ==
  ASSUME NEW r \in RequestType
  PROVE  /\ Failed(r) \in RequestType /\ Failed(r).step = "reading" /\ Failed(r).result = "failed"
         /\ Failed(r).kind = r.kind /\ Failed(r).tile = r.tile /\ Failed(r).group = r.group
         /\ Failed(r).at = r.at /\ Failed(r).keys = r.keys /\ Failed(r).source = r.source
         /\ Failed(r).todo = r.todo /\ Failed(r).patch = r.patch /\ Failed(r).whole = r.whole
         /\ Failed(r).behind = r.behind /\ Failed(r).gone = r.gone /\ Failed(r).calm = r.calm
BY DEF Failed, RequestType

\* A request that found its group differs in nothing else.
LEMMA SourceRecord ==
  ASSUME NEW r \in RequestType, NEW g \in Groups, NEW q, q = [r EXCEPT !.source = g]
  PROVE  /\ q \in RequestType /\ q.source = g /\ q.step = r.step /\ q.behind = r.behind
         /\ q.kind = r.kind /\ q.tile = r.tile /\ q.group = r.group /\ q.at = r.at
         /\ q.keys = r.keys /\ q.gone = r.gone /\ q.calm = r.calm
         /\ q.patch = r.patch /\ q.todo = r.todo /\ q.whole = r.whole /\ q.result = r.result
BY DEF RequestType

\* What Find leaves in the slot of r: behind is who was answered by then.
FoundAs(q, r, behind) ==
  /\ q.kind = r.kind /\ q.tile = r.tile /\ q.group = r.group /\ q.at = r.at /\ q.keys = r.keys
  /\ q.gone = r.gone /\ q.calm = r.calm /\ q.behind = behind /\ q.patch = Nothing
  /\ \/ /\ r.kind = "load" /\ q.step = "reading" /\ q.whole /\ q.result = "ok"
        /\ ToSet(q.todo) = ItemsOf(DOMAIN stored)
     \/ /\ r.kind # "load" /\ q.step = "found" /\ q.todo = <<>> /\ ~q.whole /\ q.result = "ok"
        /\ q.source \in DOMAIN stored
        /\ r.kind \in {"add", "deleteGroup"} => q.source = r.group
        /\ r.kind \in {"move", "delete"} => q.tile \in ToSet(stored[q.source])
     \/ /\ q.step = "reading" /\ q.todo = <<>> /\ ~q.whole /\ q.result = "failed"

\* An edit that found its group is in good order.
LEMMA FoundGroup ==
  ASSUME NEW r \in RequestType, r.kind # "load", r.step = "found", r.patch = Nothing, r.todo = <<>>,
         ~r.whole, r.result = "ok", NEW g \in DOMAIN stored, g \in Groups,
         r.kind \in {"add", "deleteGroup"} => g = r.group,
         r.kind \in {"move", "delete"} => r.tile \in ToSet(stored[g]),
         NEW q, q = [r EXCEPT !.source = g]
  PROVE  q \in RequestType /\ FoundAs(q, r, r.behind)
BY SourceRecord DEF FoundAs
\* So is a page that is about to read every group.
LEMMA FoundAll ==
  ASSUME NEW r \in RequestType, r.kind = "load", r.step = "reading", r.patch = Nothing, r.result = "ok",
         NEW all \in Seq(ReadType), ToSet(all) = ItemsOf(DOMAIN stored),
         NEW q, q = [r EXCEPT !.todo = all, !.whole = TRUE]
  PROVE  q \in RequestType /\ FoundAs(q, r, r.behind)
<1>1. /\ q \in RequestType /\ q.todo = all /\ q.whole /\ q.step = r.step /\ q.behind = r.behind
      /\ q.kind = r.kind /\ q.tile = r.tile /\ q.group = r.group /\ q.at = r.at
      /\ q.keys = r.keys /\ q.gone = r.gone /\ q.calm = r.calm
      /\ q.patch = r.patch /\ q.result = r.result
  BY DEF RequestType, ReadType
<1> QED BY <1>1 DEF FoundAs

\* So is whatever Find makes of a request.
LEMMA FindRecord ==
  ASSUME Sound, NEW r \in RequestType, Formed(r), r.step = "sent",
         NEW behind \in SUBSET Slots,
         NEW q,
         LET found == [r EXCEPT !.step = "found", !.behind = behind]
             reading == [found EXCEPT !.step = "reading"]
             items == [g \in DOMAIN stored |-> <<"items", g>>]
         IN  q = CASE r.kind = "load" ->
                        [reading EXCEPT !.todo = SetToSeq({items[g] : g \in DOMAIN stored}),
                                        !.whole = TRUE]
                   [] r.kind \in {"move", "delete"} /\ r.tile \in Rows(stored) ->
                        [found EXCEPT !.source = GroupOf(r.tile)]
                   [] r.kind \in {"add", "deleteGroup"} /\ r.group \in DOMAIN stored ->
                        [found EXCEPT !.source = r.group]
                   [] OTHER -> Failed(reading)
  PROVE  q \in RequestType /\ FoundAs(q, r, behind)
<1> DEFINE found == [r EXCEPT !.step = "found", !.behind = behind]
           reading == [found EXCEPT !.step = "reading"]
           items == [g \in DOMAIN stored |-> <<"items", g>>]
           all == SetToSeq({items[g] : g \in DOMAIN stored})
<1>1. DOMAIN stored \subseteq Groups
  BY PageOf DEF Sound, Types
<1>2. all \in Seq(ReadType) /\ ToSet(all) = ItemsOf(DOMAIN stored)
  <2>1. {items[g] : g \in DOMAIN stored} = ItemsOf(DOMAIN stored)
    BY DEF ItemsOf
  <2> QED BY <1>1, <2>1, AllItems
<1>3. /\ r.todo = <<>> /\ r.patch = Nothing /\ ~r.whole /\ r.result = "ok"
  BY DEF Formed
<1>4. /\ found \in RequestType /\ found.step = "found" /\ found.behind = behind
      /\ found.kind = r.kind /\ found.tile = r.tile /\ found.group = r.group /\ found.at = r.at
      /\ found.keys = r.keys /\ found.gone = r.gone /\ found.calm = r.calm
      /\ found.patch = Nothing /\ found.todo = <<>> /\ ~found.whole /\ found.result = "ok"
  BY <1>3 DEF RequestType
<1> HIDE DEF found
<1>5. /\ reading \in RequestType /\ reading.step = "reading" /\ reading.behind = behind
      /\ reading.kind = r.kind /\ reading.tile = r.tile /\ reading.group = r.group
      /\ reading.at = r.at
      /\ reading.keys = r.keys /\ reading.gone = r.gone /\ reading.calm = r.calm
      /\ reading.patch = Nothing /\ reading.todo = <<>> /\ ~reading.whole /\ reading.result = "ok"
  BY <1>4 DEF RequestType
<1> HIDE DEF reading, all
<1>6. q = CASE r.kind = "load" -> [reading EXCEPT !.todo = all, !.whole = TRUE]
            [] r.kind \in {"move", "delete"} /\ r.tile \in Rows(stored) ->
                 [found EXCEPT !.source = GroupOf(r.tile)]
            [] r.kind \in {"add", "deleteGroup"} /\ r.group \in DOMAIN stored ->
                 [found EXCEPT !.source = r.group]
            [] OTHER -> Failed(reading)
  BY DEF reading, found, all
<1>7. CASE r.kind = "load"
  <2>1. q = [reading EXCEPT !.todo = all, !.whole = TRUE]
    BY <1>6, <1>7
  <2>2. q \in RequestType /\ FoundAs(q, reading, behind)
    BY <1>2, <1>5, <1>7, <2>1, FoundAll
  <2> QED BY <1>5, <2>2 DEF FoundAs
<1>8. ASSUME NEW g \in DOMAIN stored, r.kind # "load", q = [found EXCEPT !.source = g],
             r.kind \in {"add", "deleteGroup"} => g = r.group,
             r.kind \in {"move", "delete"} => r.tile \in ToSet(stored[g])
      PROVE  q \in RequestType /\ FoundAs(q, r, behind)
  <2>1. q \in RequestType /\ FoundAs(q, found, behind)
    BY <1>1, <1>4, <1>8, FoundGroup
  <2> QED BY <1>4, <2>1 DEF FoundAs
<1>9. CASE r.kind \in {"move", "delete"} /\ r.tile \in Rows(stored)
  <2>1. q = [found EXCEPT !.source = GroupOf(r.tile)]
    BY <1>6, <1>9
  <2>2. GroupOf(r.tile) \in DOMAIN stored /\ r.tile \in ToSet(stored[GroupOf(r.tile)])
    BY <1>9, GroupOfFacts
  <2> QED BY <1>8, <1>9, <2>1, <2>2
<1>10. CASE r.kind \in {"add", "deleteGroup"} /\ r.group \in DOMAIN stored
  <2>1. q = [found EXCEPT !.source = r.group]
    BY <1>6, <1>10
  <2> QED BY <1>8, <1>10, <2>1
<1>11. CASE /\ r.kind # "load" /\ ~(r.kind \in {"move", "delete"} /\ r.tile \in Rows(stored))
            /\ ~(r.kind \in {"add", "deleteGroup"} /\ r.group \in DOMAIN stored)
  <2>1. q = Failed(reading)
    BY <1>6, <1>11
  <2> QED BY <1>5, <1>11, <2>1, FailedRecord DEF FoundAs
<1> QED BY <1>7, <1>9, <1>10, <1>11


\* A request is found, with the group it is about, or fails.
LEMMA FindFacts ==
  ASSUME Sound, NEW s \in Slots, Find(s)
  PROVE  /\ Types' /\ CarriedIsHeld' /\ UNCHANGED server
         /\ requests[s].step = "sent" /\ Stepped(s)
         /\ FoundAs(requests'[s], requests[s], {u \in Busy : Answered(requests[u])})
<1> DEFINE r == requests[s]
           behind == {u \in Busy : Answered(requests[u])}
           q == LET found == [r EXCEPT !.step = "found", !.behind = behind]
                    reading == [found EXCEPT !.step = "reading"]
                    items == [g \in DOMAIN stored |-> <<"items", g>>]
                IN  CASE r.kind = "load" ->
                           [reading EXCEPT !.todo = SetToSeq({items[g] : g \in DOMAIN stored}),
                                           !.whole = TRUE]
                      [] r.kind \in {"move", "delete"} /\ r.tile \in Rows(stored) ->
                           [found EXCEPT !.source = GroupOf(r.tile)]
                      [] r.kind \in {"add", "deleteGroup"} /\ r.group \in DOMAIN stored ->
                           [found EXCEPT !.source = r.group]
                      [] OTHER -> Failed(reading)
<1>1. /\ requests \in [Slots -> RequestType] /\ r \in RequestType /\ Formed(r)
      /\ behind \in SUBSET Slots
  BY DEF Sound, Types, AllFormed, Busy
<1>2. r.step = "sent" /\ UNCHANGED server /\ Step(s, q)
  BY DEF Find
<1>3. q \in RequestType /\ FoundAs(q, r, behind)
  <2> HIDE DEF q, r, behind
  <2>1. r.step = "sent"
    BY <1>2
  <2>2. LET found == [r EXCEPT !.step = "found", !.behind = behind]
            reading == [found EXCEPT !.step = "reading"]
            items == [g \in DOMAIN stored |-> <<"items", g>>]
        IN  q = CASE r.kind = "load" ->
                       [reading EXCEPT !.todo = SetToSeq({items[g] : g \in DOMAIN stored}),
                                       !.whole = TRUE]
                  [] r.kind \in {"move", "delete"} /\ r.tile \in Rows(stored) ->
                       [found EXCEPT !.source = GroupOf(r.tile)]
                  [] r.kind \in {"add", "deleteGroup"} /\ r.group \in DOMAIN stored ->
                       [found EXCEPT !.source = r.group]
                  [] OTHER -> Failed(reading)
    BY DEF q
  <2> QED BY Zenon, <1>1, <2>1, <2>2, FindRecord
<1> HIDE DEF q
<1>4. /\ requests' \in [Slots -> RequestType] /\ requests'[s] = q
      /\ \A u \in Slots \ {s} : requests'[u] = requests[u]
      /\ crossed' = (crossed \/ Handled \ {s} # {}) /\ UNCHANGED <<browser, acts, strayed, unheard, turnedAway>>
  BY <1>1, <1>2, <1>3, Stepping
<1>5. Types'
  BY <1>2, <1>4 DEF Sound, Types, server, browser
<1>6. CarriedIsHeld'
  BY <1>4 DEF Sound, CarriedIsHeld, browser
<1>7. Stepped(s)
  BY <1>2, <1>3, <1>4 DEF Stepped, FoundAs, Answered
<1> QED BY <1>2, <1>3, <1>4, <1>5, <1>6, <1>7

\* The request of a person who is signed out fails before anything is found.
LEMMA TurnAwayFacts ==
  ASSUME Sound, NEW s \in Slots, TurnAway(s)
  PROVE  /\ Types' /\ CarriedIsHeld' /\ UNCHANGED server
         /\ requests[s].step = "sent" /\ Stepped(s)
         /\ FoundAs(requests'[s], requests[s], {u \in Busy : Answered(requests[u])})
<1> DEFINE r == requests[s]
           behind == {u \in Busy : Answered(requests[u])}
           q == [Failed(r) EXCEPT !.away = TRUE, !.behind = behind]
<1>1. /\ requests \in [Slots -> RequestType] /\ r \in RequestType /\ Formed(r)
      /\ behind \in SUBSET Slots
  BY DEF Sound, Types, AllFormed, Busy
<1>2. r.step = "sent" /\ UNCHANGED server /\ Step(s, q)
  BY DEF TurnAway
<1>3. r.todo = <<>> /\ r.patch = Nothing /\ ~r.whole
  BY <1>1, <1>2 DEF Formed
<1>4. ASSUME NEW f \in RequestType, NEW x, x = [f EXCEPT !.away = TRUE, !.behind = behind]
      PROVE  /\ x \in RequestType /\ x.step = f.step /\ x.result = f.result /\ x.behind = behind
             /\ x.kind = f.kind /\ x.tile = f.tile /\ x.group = f.group /\ x.at = f.at
             /\ x.keys = f.keys /\ x.gone = f.gone /\ x.calm = f.calm
             /\ x.patch = f.patch /\ x.todo = f.todo /\ x.whole = f.whole
  <2> HIDE DEF behind
  <2> QED BY <1>1, <1>4 DEF RequestType
<1>5. q \in RequestType /\ FoundAs(q, r, behind)
  <2> PICK f : f = Failed(r)
    OBVIOUS
  <2>1. /\ f \in RequestType /\ f.step = "reading" /\ f.result = "failed"
        /\ f.kind = r.kind /\ f.tile = r.tile /\ f.group = r.group
        /\ f.at = r.at /\ f.keys = r.keys /\ f.todo = r.todo /\ f.patch = r.patch /\ f.whole = r.whole
        /\ f.gone = r.gone /\ f.calm = r.calm
    BY <1>1, FailedRecord
  <2>2. q = [f EXCEPT !.away = TRUE, !.behind = behind]
    OBVIOUS
  <2> HIDE DEF q, behind, r
  <2>3. /\ q \in RequestType /\ q.step = f.step /\ q.result = f.result /\ q.behind = behind
        /\ q.kind = f.kind /\ q.tile = f.tile /\ q.group = f.group /\ q.at = f.at
        /\ q.keys = f.keys /\ q.gone = f.gone /\ q.calm = f.calm
        /\ q.patch = f.patch /\ q.todo = f.todo /\ q.whole = f.whole
    BY <1>4, <2>1, <2>2
  <2> QED BY <1>3, <2>1, <2>3 DEF FoundAs
<1> HIDE DEF q
<1>6. /\ requests' \in [Slots -> RequestType] /\ requests'[s] = q
      /\ \A u \in Slots \ {s} : requests'[u] = requests[u]
      /\ crossed' = (crossed \/ Handled \ {s} # {})
      /\ UNCHANGED <<browser, acts, strayed, unheard, turnedAway>>
  BY <1>1, <1>2, <1>5, Stepping
<1>7. Types'
  BY <1>2, <1>6 DEF Sound, Types, server, browser
<1>8. CarriedIsHeld'
  BY <1>6 DEF Sound, CarriedIsHeld, browser
<1>9. Stepped(s)
  BY <1>2, <1>5, <1>6 DEF Stepped, FoundAs, Answered
<1> QED BY <1>2, <1>5, <1>6, <1>7, <1>8, <1>9

\* Either way it has reached the server.
Arrives(s) == Find(s) \/ TurnAway(s)
LEMMA ArrivesFacts ==
  ASSUME Sound, NEW s \in Slots, Arrives(s)
  PROVE  /\ Types' /\ CarriedIsHeld' /\ UNCHANGED server
         /\ requests[s].step = "sent" /\ Stepped(s)
         /\ FoundAs(requests'[s], requests[s], {u \in Busy : Answered(requests[u])})
BY FindFacts, TurnAwayFacts DEF Arrives

\* A tile is taken out of every group, which is the one it is in.
LEMMA EmptiedFacts ==
  ASSUME stored \in Pages, StoredOnce, NEW t \in Tiles
  PROVE  /\ Emptied(stored, t) \in Pages /\ DOMAIN Emptied(stored, t) = DOMAIN stored
         /\ \A g \in DOMAIN stored :
              /\ Emptied(stored, t)[g] = Without(stored[g], t)
              /\ ToSet(Emptied(stored, t)[g]) = ToSet(stored[g]) \ {t}
              /\ IsInjective(Emptied(stored, t)[g])
              /\ t \notin ToSet(stored[g]) => Emptied(stored, t)[g] = stored[g]
<1>1. DOMAIN stored \in SUBSET Groups /\ \A g \in DOMAIN stored : stored[g] \in Seq(Tiles) /\ IsInjective(stored[g])
  BY PageOf DEF StoredOnce
<1>2. \A g \in DOMAIN stored :
        /\ Without(stored[g], t) \in Seq(Tiles) /\ IsInjective(Without(stored[g], t))
        /\ ToSet(Without(stored[g], t)) = ToSet(stored[g]) \ {t}
        /\ t \notin ToSet(stored[g]) => Without(stored[g], t) = stored[g]
  BY <1>1, WithoutFacts
<1>3. Emptied(stored, t) \in [DOMAIN stored -> Seq(Tiles)]
  BY <1>2 DEF Emptied
<1>4. Emptied(stored, t) \in Pages
  BY <1>1, <1>3, IsAPage
<1> QED BY <1>2, <1>3, <1>4 DEF Emptied

\* A tile that is moved is in the group it was moved to, and nowhere else.
LEMMA MovedFacts ==
  ASSUME stored \in Pages, StoredOnce, NEW r, r.tile \in Tiles, r.at \in Nat,
         r.tile \in Rows(stored), r.group \in DOMAIN stored \cup {None},
         NEW dest, dest = IF r.group = None THEN GroupOf(r.tile) ELSE r.group
  PROVE  /\ Moved(stored, r) \in Pages /\ DOMAIN Moved(stored, r) = DOMAIN stored
         /\ dest \in DOMAIN stored
         /\ Moved(stored, r)[dest] = PutIn(Without(stored[dest], r.tile), r.tile, r.at)
         /\ \A g \in DOMAIN stored :
              /\ IsInjective(Moved(stored, r)[g])
              /\ ToSet(Moved(stored, r)[g]) =
                   IF g = dest THEN ToSet(stored[g]) \cup {r.tile} ELSE ToSet(stored[g]) \ {r.tile}
              /\ g # dest => Moved(stored, r)[g] = Without(stored[g], r.tile)
              /\ g # dest /\ g # GroupOf(r.tile) => Moved(stored, r)[g] = stored[g]
<1> DEFINE tile == r.tile
           empty == Emptied(stored, tile)
<1>1. /\ GroupOf(tile) \in DOMAIN stored
      /\ \A g \in DOMAIN stored : tile \in ToSet(stored[g]) <=> g = GroupOf(tile)
  BY GroupOfFacts
<1>2. PICK to \in DOMAIN stored :
        to = dest /\ to = IF r.group = None THEN GroupOf(tile) ELSE r.group
  BY <1>1, EditorAssumption, PageOf
<1>3. /\ empty \in Pages /\ DOMAIN empty = DOMAIN stored
      /\ \A g \in DOMAIN stored :
           /\ empty[g] = Without(stored[g], tile)
           /\ ToSet(empty[g]) = ToSet(stored[g]) \ {tile}
           /\ IsInjective(empty[g])
           /\ tile \notin ToSet(stored[g]) => empty[g] = stored[g]
  BY EmptiedFacts
<1> HIDE DEF empty
<1> DEFINE list == PutIn(empty[to], tile, r.at)
<1>4. Moved(stored, r) = [empty EXCEPT ![to] = list]
  BY <1>2 DEF Moved, empty
<1>5. empty[to] \in Seq(Tiles) /\ IsInjective(empty[to]) /\ tile \notin ToSet(empty[to])
  BY <1>3, PageOf
<1>6. list \in Seq(Tiles) /\ ToSet(list) = ToSet(empty[to]) \cup {tile} /\ IsInjective(list)
  <2>1. PICK x \in Tiles, i \in Nat, l \in Seq(Tiles) : x = tile /\ i = r.at /\ l = empty[to]
    BY <1>5
  <2>2. PutIn(l, x, i) \in Seq(Tiles)
    BY PutInFacts
  <2>3. ToSet(PutIn(l, x, i)) = ToSet(l) \cup {x}
    BY PutInFacts
  <2>4. IsInjective(l) /\ x \notin ToSet(l) => IsInjective(PutIn(l, x, i))
    BY PutInFacts
  <2> QED BY <1>5, <2>1, <2>2, <2>3, <2>4
<1> HIDE DEF list
<1>7. /\ Moved(stored, r) \in Pages /\ DOMAIN Moved(stored, r) = DOMAIN stored
      /\ Moved(stored, r)[to] = list
      /\ \A g \in DOMAIN stored : g # to => Moved(stored, r)[g] = empty[g]
  <2>1. to \in DOMAIN empty
    BY <1>3
  <2>2. /\ [empty EXCEPT ![to] = list] \in Pages
        /\ DOMAIN [empty EXCEPT ![to] = list] = DOMAIN empty
        /\ [empty EXCEPT ![to] = list][to] = list
        /\ \A h \in DOMAIN empty : h # to => [empty EXCEPT ![to] = list][h] = empty[h]
    BY <1>3, <1>6, <2>1, OneList
  <2> QED BY <1>3, <1>4, <2>2
<1>8. \A g \in DOMAIN stored :
        /\ IsInjective(Moved(stored, r)[g])
        /\ ToSet(Moved(stored, r)[g]) =
             IF g = to THEN ToSet(stored[g]) \cup {r.tile} ELSE ToSet(stored[g]) \ {r.tile}
        /\ g # to => Moved(stored, r)[g] = Without(stored[g], r.tile)
        /\ g # to /\ g # GroupOf(r.tile) => Moved(stored, r)[g] = stored[g]
  BY <1>1, <1>3, <1>6, <1>7
<1>9. Moved(stored, r)[to] = PutIn(Without(stored[to], r.tile), r.tile, r.at)
  BY <1>3, <1>7 DEF list
<1> QED BY <1>2, <1>7, <1>8, <1>9

\* What Change leaves in the slot of r: what is to be read for its answer.
ChangedAs(q, r) ==
  /\ q.step = "reading" /\ q.source = r.source /\ q.behind = r.behind /\ q.patch = Nothing
  /\ q.result = Result(r) /\ q.result \in {"ok", "refused", "failed"}
  /\ q.whole <=> r.kind = "deleteGroup" /\ q.result = "ok"
  /\ q.result = "failed" \/ (r.kind = "add" /\ q.result = "refused") => q.todo = <<>>
  /\ q.result # "failed" =>
       /\ r.kind = "move" =>
            LET groups == IF r.group = None THEN {r.source} ELSE {r.group, r.source}
            IN  ToSet(q.todo) = ItemsOf(groups) \cup GroupsOf(groups)
       /\ r.kind = "delete" => ToSet(q.todo) = ItemsOf({r.source}) \cup GroupsOf({r.source})
       /\ r.kind = "add" /\ q.result = "ok" => ToSet(q.todo) = ItemsOf({r.source})
       /\ r.kind = "deleteGroup" => q.todo = <<<<"column", r.source>>>>
\* And in the store.
StoredAs(r) ==
  /\ Result(r) # "ok" => UNCHANGED server
  /\ Result(r) = "ok" =>
       /\ r.kind = "move" => /\ r.tile \in Rows(stored) /\ r.group \in DOMAIN stored \cup {None}
                             /\ stored' = Moved(stored, r) /\ unborn' = unborn
       /\ r.kind = "add" => /\ r.group \in DOMAIN stored /\ unborn' = unborn \ {r.tile}
                            /\ stored' = [stored EXCEPT ![r.group] = Append(@, r.tile)]
       /\ r.kind = "delete" => stored' = Emptied(stored, r.tile) /\ unborn' = unborn
       /\ r.kind = "deleteGroup" =>
            stored' = Only(stored, DOMAIN stored \ {r.group}) /\ unborn' = unborn

\* What the store's answer says about what is stored (Result).
LEMMA ResultFacts ==
  ASSUME NEW r \in RequestType, r.kind \in {"move", "add", "delete", "deleteGroup"}
  PROVE  /\ Result(r) \in {"ok", "refused", "failed"}
         /\ Result(r) = "refused" => r.kind \in {"move", "add"}
         /\ Result(r) # "failed" =>
              /\ r.kind \in {"move", "delete"} => r.tile \in Rows(stored)
              /\ r.kind = "move" => r.group \in DOMAIN stored \cup {None}
              /\ r.kind \in {"add", "deleteGroup"} => r.group \in DOMAIN stored
BY DEF Result

\* A request that was given its result differs in nothing else.
LEMMA ResultRecord ==
  ASSUME NEW r \in RequestType, NEW result \in {"ok", "refused", "failed"},
         NEW q, q = [r EXCEPT !.result = result]
  PROVE  /\ q \in RequestType /\ q.result = result /\ q.step = r.step /\ q.behind = r.behind
         /\ q.kind = r.kind /\ q.tile = r.tile /\ q.group = r.group /\ q.at = r.at
         /\ q.keys = r.keys /\ q.gone = r.gone /\ q.calm = r.calm /\ q.source = r.source
         /\ q.patch = r.patch /\ q.todo = r.todo /\ q.whole = r.whole
BY DEF RequestType

\* What is to be read.
LEMMA ReadsFacts ==
  ASSUME NEW r \in RequestType, r.source \in Groups, r.kind \in {"move", "add", "delete", "deleteGroup"}
  PROVE  /\ Reads(r) \in Seq(ReadType)
         /\ r.kind = "move" =>
              LET groups == IF r.group = None THEN {r.source} ELSE {r.group, r.source}
              IN  ToSet(Reads(r)) = ItemsOf(groups) \cup GroupsOf(groups)
         /\ r.kind = "delete" => ToSet(Reads(r)) = ItemsOf({r.source}) \cup GroupsOf({r.source})
         /\ r.kind = "add" /\ r.result = "refused" => Reads(r) = <<>>
         /\ r.kind = "add" /\ r.result # "refused" => ToSet(Reads(r)) = ItemsOf({r.source})
         /\ r.kind = "deleteGroup" => Reads(r) = <<<<"column", r.source>>>>
<1>1. CASE r.kind = "move"
  <2>1. Reads(r) = RedrawMoved(r)
    BY <1>1 DEF Reads, ReadsOf
  <2> QED BY <1>1, <2>1, RedrawMovedHolds
<1>2. CASE r.kind = "delete"
  <2>1. Reads(r) = Redraw(r.source)
    BY <1>2 DEF Reads, ReadsOf
  <2> QED BY <1>2, <2>1, RedrawHolds
<1>3. CASE r.kind = "add"
  <2>1. Reads(r) = IF r.result = "refused" THEN <<>> ELSE <<<<"items", r.source>>>>
    BY <1>3 DEF Reads, ReadsOf
  <2>2. <<<<"items", r.source>>>> \in Seq(ReadType)
        /\ ToSet(<<<<"items", r.source>>>>) = {<<"items", r.source>>}
    BY OneRead
  <2>3. ItemsOf({r.source}) = {<<"items", r.source>>}
    BY DEF ItemsOf
  <2>4. <<>> \in Seq(ReadType)
    OBVIOUS
  <2> QED BY <1>3, <2>1, <2>2, <2>3, <2>4
<1>4. CASE r.kind = "deleteGroup"
  <2>1. Reads(r) = <<<<"column", r.source>>>>
    BY <1>4 DEF Reads, ReadsOf
  <2>2. <<<<"column", r.source>>>> \in Seq(ReadType)
    BY OneRead
  <2> QED BY <1>4, <2>1, <2>2
<1> QED BY <1>1, <1>2, <1>3, <1>4

\* The store's one call, and what its answer will read.
LEMMA ChangeFacts ==
  ASSUME Sound, NEW s \in Slots, Change(s)
  PROVE  /\ requests' \in [Slots -> RequestType] /\ Stepped(s)
         /\ requests[s].step = "found" /\ requests[s].source \in Groups
         /\ requests[s].kind \in {"move", "add", "delete", "deleteGroup"}
         /\ ChangedAs(requests'[s], requests[s]) /\ StoredAs(requests[s])
<1> DEFINE old == requests[s]
           result == Result(old)
           r == [old EXCEPT !.result = result]
           q == IF r.result = "failed" THEN Failed(r)
                ELSE [r EXCEPT !.step = "reading", !.todo = Reads(r), !.whole = r.kind = "deleteGroup"]
<1>1. requests \in [Slots -> RequestType] /\ old \in RequestType /\ Formed(old)
  BY DEF Sound, Types, AllFormed
<1>2. /\ old.step = "found" /\ old.todo = <<>> /\ old.patch = Nothing /\ ~old.whole
      /\ old.source \in Groups /\ old.kind \in {"move", "add", "delete", "deleteGroup"}
  <2>1. old.step = "found"
    <3>1. r.step = old.step
      BY <1>1 DEF RequestType
    <3> QED BY <3>1 DEF Change
  <2> QED BY <1>1, <2>1 DEF Formed, RequestType
<1>3. result \in {"ok", "refused", "failed"} /\ (result = "refused" => old.kind \in {"move", "add"})
  BY <1>1, <1>2, ResultFacts
<1> HIDE DEF result
<1>4. /\ r \in RequestType /\ r.result = result /\ r.behind = old.behind
      /\ r.kind = old.kind /\ r.tile = old.tile /\ r.group = old.group /\ r.at = old.at
      /\ r.keys = old.keys /\ r.gone = old.gone /\ r.calm = old.calm /\ r.source = old.source
      /\ r.patch = Nothing /\ r.todo = <<>> /\ ~r.whole
  BY <1>1, <1>2, <1>3, ResultRecord
<1>5. /\ Step(s, q)
      /\ stored' = IF r.result # "ok" THEN stored ELSE
           CASE r.kind = "move" -> Moved(stored, r)
             [] r.kind = "add" -> [stored EXCEPT ![r.group] = Append(@, r.tile)]
             [] r.kind = "delete" -> Emptied(stored, r.tile)
             [] r.kind = "deleteGroup" -> Only(stored, DOMAIN stored \ {r.group})
      /\ unborn' = IF r.kind = "add" /\ r.result = "ok" THEN unborn \ {r.tile} ELSE unborn
  BY DEF Change, MoveItem, result
<1> HIDE DEF r
<1>6. StoredAs(old)
  <2>1. Moved(stored, r) = Moved(stored, old)
    BY <1>4 DEF Moved
  <2>2. result = "ok" =>
          /\ old.kind \in {"move", "delete"} => old.tile \in Rows(stored)
          /\ old.kind = "move" => old.group \in DOMAIN stored \cup {None}
          /\ old.kind \in {"add", "deleteGroup"} => old.group \in DOMAIN stored
    BY <1>1, <1>2, ResultFacts DEF result
  <2>3. result # "ok" => UNCHANGED server
    BY <1>4, <1>5 DEF server
  <2>4. ASSUME result = "ok"
        PROVE  /\ old.kind = "move" => stored' = Moved(stored, old) /\ unborn' = unborn
               /\ old.kind = "add" => /\ unborn' = unborn \ {old.tile}
                                      /\ stored' = [stored EXCEPT ![old.group] = Append(@, old.tile)]
               /\ old.kind = "delete" => stored' = Emptied(stored, old.tile) /\ unborn' = unborn
               /\ old.kind = "deleteGroup" =>
                    stored' = Only(stored, DOMAIN stored \ {old.group}) /\ unborn' = unborn
    BY <1>2, <1>4, <1>5, <2>1, <2>4
  <2> QED BY <2>2, <2>3, <2>4 DEF StoredAs, result
<1>7. q \in RequestType /\ ChangedAs(q, old) /\ q.kind = old.kind /\ q.tile = old.tile
      /\ q.group = old.group /\ q.at = old.at /\ q.keys = old.keys /\ q.gone = old.gone
      /\ q.calm = old.calm
  <2>1. CASE result = "failed"
    <3>1. q = Failed(r)
      BY <1>4, <2>1
    <3> HIDE DEF q
    <3> QED BY <1>2, <1>3, <1>4, <2>1, <3>1, FailedRecord DEF ChangedAs, result
  <2>2. CASE result # "failed"
    <3> DEFINE whole == r.kind = "deleteGroup"
    <3>1. q = [r EXCEPT !.step = "reading", !.todo = Reads(r), !.whole = whole]
      BY <1>4, <2>2
    <3>2. Reads(r) \in Seq(ReadType) /\ whole \in BOOLEAN
      BY <1>2, <1>4, ReadsFacts
    <3> HIDE DEF q, whole
    <3>3. /\ q \in RequestType /\ q.todo = Reads(r) /\ q.whole = whole /\ q.step = "reading"
          /\ q.result = r.result /\ q.behind = r.behind /\ q.source = r.source /\ q.patch = r.patch
          /\ q.kind = r.kind /\ q.tile = r.tile /\ q.group = r.group /\ q.at = r.at
          /\ q.keys = r.keys /\ q.gone = r.gone /\ q.calm = r.calm
      <4>1. PICK todo \in Seq(ReadType), w \in BOOLEAN, p \in RequestType :
              todo = Reads(r) /\ w = whole /\ p = r
        BY <1>4, <3>2
      <4>2. q = [p EXCEPT !.step = "reading", !.todo = todo, !.whole = w]
        BY <3>1, <4>1
      <4>3. /\ q \in RequestType /\ q.todo = todo /\ q.whole = w /\ q.step = "reading"
            /\ q.result = p.result /\ q.behind = p.behind /\ q.source = p.source /\ q.patch = p.patch
            /\ q.kind = p.kind /\ q.tile = p.tile /\ q.group = p.group /\ q.at = p.at
            /\ q.keys = p.keys /\ q.gone = p.gone /\ q.calm = p.calm
        BY <4>2 DEF RequestType, ReadType
      <4> QED BY <4>1, <4>3
    <3>4. /\ r.kind = "move" =>
              LET groups == IF r.group = None THEN {r.source} ELSE {r.group, r.source}
              IN  ToSet(Reads(r)) = ItemsOf(groups) \cup GroupsOf(groups)
          /\ r.kind = "delete" => ToSet(Reads(r)) = ItemsOf({r.source}) \cup GroupsOf({r.source})
          /\ r.kind = "add" /\ r.result = "refused" => Reads(r) = <<>>
          /\ r.kind = "add" /\ r.result # "refused" => ToSet(Reads(r)) = ItemsOf({r.source})
          /\ r.kind = "deleteGroup" => Reads(r) = <<<<"column", r.source>>>>
      BY <1>2, <1>4, ReadsFacts
    <3> QED BY <1>2, <1>3, <1>4, <2>2, <3>3, <3>4 DEF ChangedAs, result, whole
  <2> QED BY <2>1, <2>2
<1> HIDE DEF q
<1>8. /\ requests' \in [Slots -> RequestType] /\ requests'[s] = q
      /\ \A u \in Slots \ {s} : requests'[u] = requests[u]
      /\ crossed' = (crossed \/ Handled \ {s} # {}) /\ UNCHANGED <<browser, acts, strayed, unheard, turnedAway>>
  BY <1>1, <1>5, <1>7, Stepping
<1>9. Stepped(s)
  BY <1>2, <1>7, <1>8 DEF Stepped, ChangedAs, Answered
<1> QED BY <1>2, <1>6, <1>7, <1>8, <1>9

\* What Read leaves in the slot of r, when its next read is of g.
ReadAs(q, r, what, g) ==
  /\ q.step = "reading" /\ q.source = r.source /\ q.behind = r.behind /\ q.whole = r.whole
  /\ <<what, g>> = Head(r.todo)
  /\ \/ /\ what = "group" /\ g \in DOMAIN stored
        /\ q.todo = Tail(r.todo) /\ q.patch = r.patch /\ q.result = r.result
     \/ /\ what = "group" /\ g \notin DOMAIN stored
        /\ q.todo = r.todo /\ q.patch = r.patch /\ q.result = "failed"
     \/ /\ what = "items" /\ q.todo = Tail(r.todo) /\ q.result = r.result
        /\ DOMAIN q.patch = DOMAIN r.patch \cup {g}
        /\ q.patch[g] = IF g \in DOMAIN stored THEN stored[g] ELSE <<>>
        /\ \A h \in DOMAIN r.patch : h # g => q.patch[h] = r.patch[h]
     \/ /\ what = "column" /\ ToSet(q.todo) = ItemsOf(DOMAIN stored)
        /\ q.patch = r.patch /\ q.result = r.result

\* The list of one more group joins what was read.
LEMMA PatchGrows ==
  ASSUME NEW p \in Pages, NEW g \in Groups, NEW list \in Seq(Tiles),
         NEW q, q = [h \in DOMAIN p \cup {g} |-> IF h # g THEN p[h] ELSE list]
  PROVE  /\ q \in Pages /\ DOMAIN q = DOMAIN p \cup {g} /\ q[g] = list
         /\ \A h \in DOMAIN p : h # g => q[h] = p[h]
<1>1. DOMAIN p \in SUBSET Groups /\ \A h \in DOMAIN p : p[h] \in Seq(Tiles)
  BY PageOf
<1>2. q \in [DOMAIN p \cup {g} -> Seq(Tiles)] /\ DOMAIN p \cup {g} \in SUBSET Groups
  BY <1>1
<1>3. q \in Pages
  BY <1>2, IsAPage
<1> QED BY <1>2, <1>3

\* A request that was given its reads differs in nothing else.
LEMMA SameRecord ==
  ASSUME NEW r \in RequestType, NEW todo \in Seq(ReadType), NEW q, q = [r EXCEPT !.todo = todo]
  PROVE  /\ q \in RequestType /\ q.todo = todo /\ q.patch = r.patch /\ q.step = r.step
         /\ q.result = r.result /\ q.behind = r.behind /\ q.source = r.source /\ q.whole = r.whole
         /\ q.kind = r.kind /\ q.tile = r.tile /\ q.group = r.group /\ q.at = r.at
         /\ q.keys = r.keys /\ q.gone = r.gone /\ q.calm = r.calm
BY DEF RequestType, ReadType

\* One read for an answer.
LEMMA ReadFacts ==
  ASSUME Sound, NEW s \in Slots, Read(s)
  PROVE  /\ Types' /\ CarriedIsHeld' /\ UNCHANGED server /\ Stepped(s)
         /\ requests[s].step = "reading" /\ requests[s].result # "failed" /\ requests[s].todo # <<>>
         /\ \E what \in {"group", "items", "column"}, g \in Groups :
              /\ ToSet(requests[s].todo) = ToSet(Tail(requests[s].todo)) \cup {<<what, g>>}
              /\ ReadAs(requests'[s], requests[s], what, g)
<1> DEFINE r == requests[s]
           next == [r EXCEPT !.todo = Tail(@)]
           x == Head(r.todo)
<1>1. requests \in [Slots -> RequestType] /\ r \in RequestType /\ Formed(r)
  BY DEF Sound, Types, AllFormed
<1>2. r.step = "reading" /\ ~Answered(r) /\ r.result # "failed" /\ r.todo # <<>> /\ UNCHANGED server
  BY DEF Read, Answered
<1>3. r.todo \in Seq(ReadType) /\ r.patch \in Pages
  BY <1>1 DEF RequestType, ReadType
<1>4. x \in ReadType /\ Tail(r.todo) \in Seq(ReadType) /\ ToSet(r.todo) = ToSet(Tail(r.todo)) \cup {x}
  BY <1>2, <1>3, TailHolds
<1>5. PICK what \in {"group", "items", "column"}, g \in Groups : x = <<what, g>>
  BY <1>4 DEF ReadType
<1>6. x[1] = what /\ x[2] = g
  BY <1>5
<1> DEFINE list == IF g \in DOMAIN stored THEN stored[g] ELSE <<>>
           patch == [h \in DOMAIN r.patch \cup {g} |-> IF h # g THEN r.patch[h] ELSE list]
           all == SetToSeq({<<"items", h>> : h \in DOMAIN stored})
<1>7. Step(s, CASE x[1] = "group" -> IF x[2] \in DOMAIN stored THEN next ELSE Failed(r)
                [] x[1] = "items" ->
                     [next EXCEPT !.patch = [h \in DOMAIN @ \cup {x[2]} |->
                        IF h # x[2] THEN @[h] ELSE IF x[2] \in DOMAIN stored THEN stored[x[2]] ELSE <<>>]]
                [] x[1] = "column" -> [r EXCEPT !.todo = all])
  BY DEF Read
<1>8. next \in RequestType /\ next.patch = r.patch /\ next = [r EXCEPT !.todo = Tail(r.todo)]
      /\ next.todo = Tail(r.todo) /\ next.step = r.step
      /\ next.result = r.result /\ next.behind = r.behind /\ next.source = r.source /\ next.whole = r.whole
      /\ next.kind = r.kind /\ next.tile = r.tile /\ next.group = r.group /\ next.at = r.at
      /\ next.keys = r.keys /\ next.gone = r.gone /\ next.calm = r.calm
  <2>1. PICK rest \in Seq(ReadType), p \in RequestType : rest = Tail(r.todo) /\ p = r
    BY <1>1, <1>4
  <2>2. next = [p EXCEPT !.todo = rest] /\ next = [r EXCEPT !.todo = Tail(r.todo)]
    BY <2>1
  <2> HIDE DEF next
  <2>3. /\ next \in RequestType /\ next.todo = rest /\ next.patch = p.patch /\ next.step = p.step
        /\ next.result = p.result /\ next.behind = p.behind /\ next.source = p.source
        /\ next.whole = p.whole
        /\ next.kind = p.kind /\ next.tile = p.tile /\ next.group = p.group /\ next.at = p.at
        /\ next.keys = p.keys /\ next.gone = p.gone /\ next.calm = p.calm
    BY <2>2, SameRecord
  <2> QED BY <2>1, <2>2, <2>3
<1> HIDE DEF x
<1>9. PICK q : /\ Step(s, q)
               /\ \/ what = "group" /\ g \in DOMAIN stored /\ q = next
                  \/ what = "group" /\ g \notin DOMAIN stored /\ q = Failed(r)
                  \/ what = "items" /\ q = [next EXCEPT !.patch = patch]
                  \/ what = "column" /\ q = [r EXCEPT !.todo = all]
  <2>1. CASE what = "group"
    BY <1>6, <1>7, <2>1
  <2>2. CASE what = "items"
    <3>1. Step(s, [next EXCEPT !.patch = [h \in DOMAIN @ \cup {g} |->
                     IF h # g THEN @[h] ELSE list]])
      BY <1>6, <1>7, <2>2
    <3>2. [next EXCEPT !.patch = [h \in DOMAIN @ \cup {g} |-> IF h # g THEN @[h] ELSE list]]
            = [next EXCEPT !.patch = patch]
      BY <1>8
    <3> QED BY <2>2, <3>1, <3>2
  <2>3. CASE what = "column"
    BY <1>6, <1>7, <2>3
  <2> QED BY <2>1, <2>2, <2>3
<1> HIDE DEF next, patch, all
<1>10. list \in Seq(Tiles)
  BY PageOf DEF Sound, Types
<1>11. patch \in Pages /\ DOMAIN patch = DOMAIN r.patch \cup {g} /\ patch[g] = list
       /\ \A h \in DOMAIN r.patch : h # g => patch[h] = r.patch[h]
  <2>1. PICK p \in Pages, l \in Seq(Tiles) : p = r.patch /\ l = list
    BY <1>3, <1>10
  <2> HIDE DEF list
  <2>2. patch = [h \in DOMAIN p \cup {g} |-> IF h # g THEN p[h] ELSE l]
    BY <2>1 DEF patch
  <2>3. patch \in Pages /\ DOMAIN patch = DOMAIN p \cup {g} /\ patch[g] = l
        /\ \A h \in DOMAIN p : h # g => patch[h] = p[h]
    BY SMTT(60), <2>2, PatchGrows
  <2> QED BY <2>1, <2>3
<1>12. all \in Seq(ReadType) /\ ToSet(all) = ItemsOf(DOMAIN stored)
  <2>1. DOMAIN stored \subseteq Groups
    BY PageOf DEF Sound, Types
  <2> QED BY <2>1, AllItems DEF all, ItemsOf
<1>13. /\ q \in RequestType /\ ReadAs(q, r, what, g) /\ q.kind = r.kind /\ q.tile = r.tile
       /\ q.group = r.group /\ q.at = r.at /\ q.keys = r.keys /\ q.gone = r.gone /\ q.calm = r.calm
  <2>0. <<what, g>> = Head(r.todo)
    BY <1>5 DEF x
  <2>1. CASE what = "group" /\ g \in DOMAIN stored /\ q = next
    BY <1>2, <1>8, <2>0, <2>1 DEF ReadAs
  <2>2. CASE what = "group" /\ g \notin DOMAIN stored /\ q = Failed(r)
    BY <1>1, <1>2, <2>0, <2>2, FailedRecord DEF ReadAs
  <2>3. CASE what = "items" /\ q = [next EXCEPT !.patch = patch]
    <3>1. /\ q \in RequestType /\ q.todo = next.todo /\ q.patch = patch /\ q.step = next.step
          /\ q.result = next.result /\ q.behind = next.behind /\ q.source = next.source
          /\ q.whole = next.whole
          /\ q.kind = next.kind /\ q.tile = next.tile /\ q.group = next.group /\ q.at = next.at
          /\ q.keys = next.keys /\ q.gone = next.gone /\ q.calm = next.calm
      <4> HIDE <2>3
      <4>1. q = [next EXCEPT !.patch = patch]
        BY <2>3
      <4> QED BY <1>8, <1>11, <4>1 DEF RequestType
    <3> QED BY <1>2, <1>8, <1>11, <2>0, <2>3, <3>1 DEF ReadAs
  <2>4. CASE what = "column" /\ q = [r EXCEPT !.todo = all]
    BY <1>1, <1>2, <1>12, <2>0, <2>4, SameRecord DEF ReadAs
  <2> QED BY <1>9, <2>1, <2>2, <2>3, <2>4
<1>14. /\ requests' \in [Slots -> RequestType] /\ requests'[s] = q
       /\ \A u \in Slots \ {s} : requests'[u] = requests[u]
       /\ crossed' = (crossed \/ Handled \ {s} # {}) /\ UNCHANGED <<browser, acts, strayed, unheard, turnedAway>>
  BY <1>1, <1>9, <1>13, Stepping
<1>15. Types'
  BY <1>2, <1>14 DEF Sound, Types, server, browser
<1>16. CarriedIsHeld'
  BY <1>14 DEF Sound, CarriedIsHeld, browser
<1>17. Stepped(s)
  BY <1>2, <1>13, <1>14 DEF Stepped, ReadAs
<1> QED BY <1>2, <1>4, <1>5, <1>13, <1>14, <1>15, <1>16, <1>17

-----------------------------------------------------------------------------
(* The store.                                                              *)

\* What the store's call leaves: tiles that are stored once, in groups that
\* were there before, and no tile that is not new or was stored.
LEMMA StoreFacts ==
  ASSUME Sound, NEW s \in Slots, Change(s)
  PROVE  /\ Types' /\ CarriedIsHeld' /\ StoredOnce' /\ unborn' \subseteq unborn
         /\ DOMAIN stored' \subseteq DOMAIN stored
         /\ requests[s].kind # "deleteGroup" => DOMAIN stored' = DOMAIN stored
         /\ \/ requests[s].kind = "add" /\ Rows(stored') \subseteq Rows(stored) \cup {requests[s].tile}
               /\ unborn' = unborn \ {requests[s].tile}
            \/ Rows(stored') \subseteq Rows(stored)
<1> DEFINE r == requests[s]
<1>1. /\ requests' \in [Slots -> RequestType] /\ Stepped(s) /\ StoredAs(r)
      /\ r.step = "found" /\ r.kind \in {"move", "add", "delete", "deleteGroup"}
  BY ChangeFacts
<1>2. /\ r \in RequestType /\ Formed(r) /\ stored \in Pages /\ StoredOnce /\ unborn \subseteq Tiles
  BY DEF Sound, Types, AllFormed
<1>3. /\ DOMAIN stored \in SUBSET Groups
      /\ \A g \in DOMAIN stored : stored[g] \in Seq(Tiles) /\ IsInjective(stored[g])
  BY <1>2, PageOf DEF StoredOnce
<1>4. /\ stored' \in Pages /\ StoredOnce' /\ unborn' \subseteq unborn
      /\ DOMAIN stored' \subseteq DOMAIN stored
      /\ r.kind # "deleteGroup" => DOMAIN stored' = DOMAIN stored
      /\ \/ r.kind = "add" /\ Rows(stored') \subseteq Rows(stored) \cup {r.tile}
            /\ unborn' = unborn \ {r.tile}
         \/ Rows(stored') \subseteq Rows(stored)
  <2>1. CASE Result(r) # "ok"
    <3>1. UNCHANGED server
      BY <1>1, <2>1 DEF StoredAs
    <3> QED BY <1>2, <3>1 DEF server, StoredOnce, Rows
  <2>2. CASE Result(r) = "ok" /\ r.kind = "move"
    <3> DEFINE to == IF r.group = None THEN GroupOf(r.tile) ELSE r.group
    <3>1. r.tile \in Rows(stored) /\ r.group \in DOMAIN stored \cup {None} /\ r.tile \in Tiles
          /\ r.at \in Nat /\ stored' = Moved(stored, r) /\ unborn' = unborn
      BY <1>1, <1>2, <2>2 DEF StoredAs, Formed, RequestType
    <3>2. /\ stored' \in Pages /\ DOMAIN stored' = DOMAIN stored /\ to \in DOMAIN stored
          /\ \A g \in DOMAIN stored :
               /\ IsInjective(stored'[g])
               /\ ToSet(stored'[g]) = IF g = to THEN ToSet(stored[g]) \cup {r.tile}
                                      ELSE ToSet(stored[g]) \ {r.tile}
      <4>1. PICK m, d : m = r /\ d = to
        OBVIOUS
      <4>2. /\ m.tile \in Tiles /\ m.at \in Nat /\ m.tile \in Rows(stored)
            /\ m.group \in DOMAIN stored \cup {None} /\ stored' = Moved(stored, m)
            /\ d = IF m.group = None THEN GroupOf(m.tile) ELSE m.group
        BY <3>1, <4>1
      <4> HIDE DEF to
      <4>3. /\ Moved(stored, m) \in Pages /\ DOMAIN Moved(stored, m) = DOMAIN stored
            /\ d \in DOMAIN stored
            /\ \A g \in DOMAIN stored :
                  /\ IsInjective(Moved(stored, m)[g])
                  /\ ToSet(Moved(stored, m)[g]) =
                       IF g = d THEN ToSet(stored[g]) \cup {m.tile} ELSE ToSet(stored[g]) \ {m.tile}
        <5>1. stored \in Pages /\ StoredOnce
          BY <1>2
        <5>2. /\ Moved(stored, m) \in Pages /\ DOMAIN Moved(stored, m) = DOMAIN stored
              /\ d \in DOMAIN stored
              /\ Moved(stored, m)[d] = PutIn(Without(stored[d], m.tile), m.tile, m.at)
              /\ \A g \in DOMAIN stored :
                   /\ IsInjective(Moved(stored, m)[g])
                   /\ ToSet(Moved(stored, m)[g]) =
                        IF g = d THEN ToSet(stored[g]) \cup {m.tile} ELSE ToSet(stored[g]) \ {m.tile}
                   /\ g # d => Moved(stored, m)[g] = Without(stored[g], m.tile)
                   /\ g # d /\ g # GroupOf(m.tile) => Moved(stored, m)[g] = stored[g]
          BY <4>2, <5>1, MovedFacts
        <5> QED BY <5>2
      <4> QED BY <4>1, <4>2, <4>3
    <3> HIDE DEF to
    <3>3. StoredOnce'
      BY <1>2, <3>2 DEF StoredOnce
    <3>4. Rows(stored') \subseteq Rows(stored)
      <4>1. ASSUME NEW t, NEW g \in DOMAIN stored, t \in ToSet(stored'[g])
            PROVE  t \in Rows(stored)
        <5>1. t \in ToSet(stored[g]) \/ t = r.tile
          BY <3>2, <4>1
        <5> QED BY <3>1, <5>1 DEF Rows
      <4> QED BY <3>2, <4>1 DEF Rows
    <3> QED BY <3>1, <3>2, <3>3, <3>4
  <2>3. CASE Result(r) = "ok" /\ r.kind = "add"
    <3>1. r.group \in DOMAIN stored /\ unborn' = unborn \ {r.tile} /\ r.tile \in unborn
          /\ stored' = [stored EXCEPT ![r.group] = Append(stored[r.group], r.tile)]
      BY <1>1, <2>3 DEF StoredAs, Sound, NewIsNew
    <3>2. PICK g \in DOMAIN stored, t \in Tiles : g = r.group /\ t = r.tile
      BY <1>2, <3>1
    <3> DEFINE list == Append(stored[g], t)
    <3>3. t \notin Rows(stored)
      BY <3>1, <3>2 DEF Sound, NewIsNew
    <3>4. list \in Seq(Tiles) /\ ToSet(list) = ToSet(stored[g]) \cup {t} /\ IsInjective(list)
      <4>1. t \notin ToSet(stored[g])
        BY <3>3 DEF Rows
      <4>2. stored[g] \in Seq(Tiles) /\ IsInjective(stored[g])
        BY <1>3
      <4> QED BY <4>1, <4>2, AppendHolds
    <3>5. stored' = [stored EXCEPT ![g] = list]
      BY <3>1, <3>2
    <3> HIDE DEF list
    <3>6. /\ stored' \in Pages /\ DOMAIN stored' = DOMAIN stored /\ stored'[g] = list
          /\ \A h \in DOMAIN stored : h # g => stored'[h] = stored[h]
      BY <1>2, <3>4, <3>5, OneList
    <3>7. StoredOnce'
      <4>1. \A h \in DOMAIN stored : t \notin ToSet(stored[h])
        BY <3>3 DEF Rows
      <4> QED BY <1>2, <3>4, <3>6, <4>1 DEF StoredOnce
    <3>8. Rows(stored') \subseteq Rows(stored) \cup {t}
      BY <3>4, <3>6 DEF Rows
    <3> QED BY <2>3, <3>1, <3>2, <3>6, <3>7, <3>8
  <2>4. CASE Result(r) = "ok" /\ r.kind = "delete"
    <3>1. stored' = Emptied(stored, r.tile) /\ unborn' = unborn /\ r.tile \in Tiles
      BY <1>1, <1>2, <2>4 DEF StoredAs, Formed
    <3>2. /\ stored' \in Pages /\ DOMAIN stored' = DOMAIN stored
          /\ \A g \in DOMAIN stored :
               ToSet(stored'[g]) = ToSet(stored[g]) \ {r.tile} /\ IsInjective(stored'[g])
      BY <1>2, <3>1, EmptiedFacts
    <3>3. StoredOnce'
      BY <1>2, <3>2 DEF StoredOnce
    <3>4. Rows(stored') \subseteq Rows(stored)
      BY <3>2 DEF Rows
    <3> QED BY <3>1, <3>2, <3>3, <3>4
  <2>5. CASE Result(r) = "ok" /\ r.kind = "deleteGroup"
    <3>1. stored' = Only(stored, DOMAIN stored \ {r.group}) /\ unborn' = unborn
      BY <1>1, <2>5 DEF StoredAs
    <3>2. DOMAIN stored' = DOMAIN stored \ {r.group} /\ \A g \in DOMAIN stored' : stored'[g] = stored[g]
      BY <3>1 DEF Only
    <3>3. stored' \in [DOMAIN stored \ {r.group} -> Seq(Tiles)]
      BY <1>3, <3>1 DEF Only
    <3>4. stored' \in Pages
      BY <1>3, <3>3, IsAPage
    <3>5. StoredOnce' /\ Rows(stored') \subseteq Rows(stored)
      BY <1>2, <3>2 DEF StoredOnce, Rows
    <3> QED BY <2>5, <3>1, <3>2, <3>4, <3>5
  <2> QED BY <1>1, <2>1, <2>2, <2>3, <2>4, <2>5, ResultFacts
<1>5. Types'
  BY <1>1, <1>2, <1>4 DEF Sound, Types, Stepped, browser
<1>6. CarriedIsHeld'
  BY <1>1 DEF Sound, CarriedIsHeld, Stepped, browser
<1> QED BY <1>4, <1>5, <1>6

-----------------------------------------------------------------------------
(* What is known of requests stays known.                                  *)

\* A request that goes on as it was stays in good order.
LEMMA FormedAgain ==
  ASSUME NEW r, Formed(r), NEW q, SameWork(q, r), r = Idle => q = Idle, r.behind = {} => q.behind = {}
  PROVE  Formed(q)
BY DEF Formed, SameWork

\* Nothing is left to read of an empty list.
LEMMA NoReads == ToSet(<<>>) = {}
BY DEF ToSet

\* A request is in good order after Find,
LEMMA FoundIsFormed ==
  ASSUME NEW r \in RequestType, Formed(r), r.step = "sent", NEW q, NEW behind, FoundAs(q, r, behind),
         DOMAIN stored \subseteq Groups
  PROVE  Formed(q)
<1>1. \A g \in Groups : <<"group", g>> \notin ItemsOf(DOMAIN stored)
                        /\ <<"column", g>> \notin ItemsOf(DOMAIN stored)
  BY DEF ItemsOf
<1>2. r.kind # "none" /\ r.step # "idle"
  BY DEF Formed
<1> QED BY <1>1, <1>2, NoReads DEF FoundAs, Formed

\* after Change,
LEMMA ChangedIsFormed ==
  ASSUME NEW r \in RequestType, Formed(r), r.step = "found",
         NEW q, ChangedAs(q, r), q.kind = r.kind, q.tile = r.tile, q.group = r.group
  PROVE  Formed(q)
<1>1. /\ r.kind \in {"move", "add", "delete", "deleteGroup"} /\ r.source \in Groups
      /\ r.kind \in {"move", "add", "delete"} => r.tile \in Tiles
      /\ r.kind \in {"add", "deleteGroup"} => r.group \in Groups
  BY DEF Formed, RequestType
<1>2. \A D, g : <<"column", g>> \notin ItemsOf(D) \cup GroupsOf(D)
  BY DEF ItemsOf, GroupsOf
<1>3. \A D, g : <<"column", g>> \notin ItemsOf(D)
  BY DEF ItemsOf
<1>4. /\ q.kind = r.kind /\ q.tile = r.tile /\ q.group = r.group /\ q.step = "reading"
      /\ q.patch = Nothing
      /\ q.whole <=> r.kind = "deleteGroup" /\ q.result = "ok"
  BY DEF ChangedAs
<1>5. CASE r.kind = "deleteGroup"
  <2>1. CASE q.result = "failed"
    <3>1. q.todo = <<>>
      BY <2>1 DEF ChangedAs
    <3> QED BY <1>1, <1>4, <1>5, <2>1, <3>1, NoReads DEF Formed
  <2>2. CASE q.result # "failed"
    <3>1. q.result = "ok"
      BY <1>1, <1>5, <2>2, ResultFacts DEF ChangedAs
    <3>2. /\ ToSet(q.todo) = {<<"column", r.source>>} /\ Tail(q.todo) = <<>>
      <4>1. q.todo = <<<<"column", r.source>>>>
        BY <1>5, <2>2 DEF ChangedAs
      <4> QED BY <1>1, <4>1, OneRead
    <3>3. \A g : <<"group", g>> # <<"column", r.source>>
      OBVIOUS
    <3> QED BY <1>1, <1>4, <1>5, <3>1, <3>2, <3>3 DEF Formed
  <2> QED BY <2>1, <2>2
<1>6. CASE r.kind # "deleteGroup"
  <2>1. ~q.whole
    BY <1>4, <1>6
  <2>2. \A g : <<"column", g>> \notin ToSet(q.todo)
    <3>1. CASE q.result = "failed"
      BY <3>1, NoReads DEF ChangedAs
    <3>2. CASE q.result # "failed"
      BY ZenonT(60), <1>1, <1>2, <1>3, <1>6, <3>2, NoReads DEF ChangedAs
    <3> QED BY <3>1, <3>2
  <2> QED BY <1>1, <1>4, <1>6, <2>1, <2>2 DEF Formed
<1> QED BY <1>5, <1>6

\* and after Read.
LEMMA ReadIsFormed ==
  ASSUME NEW r \in RequestType, Formed(r), r.step = "reading", r.todo # <<>>,
         NEW q, NEW what \in {"group", "items", "column"}, NEW g \in Groups,
         ToSet(r.todo) = ToSet(Tail(r.todo)) \cup {<<what, g>>}, ReadAs(q, r, what, g),
         q.kind = r.kind, q.tile = r.tile, q.group = r.group
  PROVE  Formed(q)
<1>1. \A h : <<"column", h>> \notin ItemsOf(DOMAIN stored) /\ <<"group", h>> \notin ItemsOf(DOMAIN stored)
  BY DEF ItemsOf
<1>2. \A h \in Groups : <<"column", h>> \in ToSet(r.todo) => what = "column"
  BY NoReads DEF Formed
<1>3. \A h \in Groups : <<"column", h>> \notin ToSet(Tail(r.todo))
  BY NoReads DEF Formed
<1>4. <<what, g>> \in ToSet(r.todo)
  OBVIOUS
<1>5. CASE q.todo = Tail(r.todo) /\ q.result = r.result
  BY <1>3, <1>5 DEF ReadAs, Formed
<1>6. CASE what = "group" /\ q.todo = r.todo /\ q.patch = r.patch /\ q.result = "failed"
  BY <1>2, <1>4, <1>6 DEF ReadAs, Formed
<1>7. CASE ToSet(q.todo) = ItemsOf(DOMAIN stored) /\ q.result = r.result
  BY <1>1, <1>7 DEF ReadAs, Formed
<1> QED BY <1>5, <1>6, <1>7 DEF ReadAs

-----------------------------------------------------------------------------
(* The kinds of step there are, and what each keeps.                       *)

\* The server does something: all that the layers below need of it.
LEMMA ServerStep ==
  ASSUME Sound, NEW s \in Slots, Arrives(s) \/ Change(s) \/ Read(s)
  PROVE  /\ Types' /\ CarriedIsHeld' /\ StoredOnce' /\ Stepped(s) /\ Formed(requests'[s])
         /\ DOMAIN stored' \subseteq DOMAIN stored
         /\ \/ /\ Arrives(s) /\ requests[s].step = "sent" /\ UNCHANGED server
               /\ requests'[s].behind = {u \in Busy : Answered(requests[u])}
            \/ /\ Change(s) /\ requests[s].step = "found" /\ requests'[s].step = "reading"
               /\ requests'[s].behind = requests[s].behind
            \/ /\ Read(s) /\ requests[s].step = "reading" /\ UNCHANGED server
               /\ requests'[s].step = "reading" /\ requests'[s].behind = requests[s].behind
<1> DEFINE r == requests[s]
<1>1. /\ r \in RequestType /\ Formed(r) /\ StoredOnce /\ DOMAIN stored \subseteq Groups
  <2>1. stored \in Pages
    BY DEF Sound, Types
  <2> QED BY <2>1, PageOf DEF Sound, Types, AllFormed
<1>2. CASE Arrives(s)
  <2>1. /\ Types' /\ CarriedIsHeld' /\ UNCHANGED server /\ r.step = "sent" /\ Stepped(s)
        /\ FoundAs(requests'[s], r, {u \in Busy : Answered(requests[u])})
    BY <1>2, ArrivesFacts
  <2>2. PICK behind : behind = {u \in Busy : Answered(requests[u])}
    OBVIOUS
  <2>3. Formed(requests'[s])
    BY <1>1, <2>1, <2>2, FoundIsFormed
  <2>4. requests'[s].behind = {u \in Busy : Answered(requests[u])}
    BY <2>1 DEF FoundAs
  <2> QED BY <1>1, <1>2, <2>1, <2>3, <2>4 DEF server, StoredOnce
<1>3. CASE Change(s)
  <2>1. /\ Stepped(s) /\ r.step = "found" /\ ChangedAs(requests'[s], r)
    BY <1>3, ChangeFacts
  <2>2. /\ Types' /\ CarriedIsHeld' /\ StoredOnce' /\ DOMAIN stored' \subseteq DOMAIN stored
    BY <1>3, StoreFacts
  <2>3. Formed(requests'[s])
    BY <1>1, <2>1, ChangedIsFormed DEF Stepped
  <2> QED BY <1>3, <2>1, <2>2, <2>3 DEF ChangedAs
<1>4. CASE Read(s)
  <2>1. /\ Types' /\ CarriedIsHeld' /\ UNCHANGED server /\ Stepped(s)
        /\ r.step = "reading" /\ r.todo # <<>>
    BY <1>4, ReadFacts
  <2>2. PICK what \in {"group", "items", "column"}, g \in Groups :
          /\ ToSet(r.todo) = ToSet(Tail(r.todo)) \cup {<<what, g>>}
          /\ ReadAs(requests'[s], r, what, g)
    BY <1>4, ReadFacts
  <2>3. Formed(requests'[s])
    BY <1>1, <2>1, <2>2, ReadIsFormed DEF Stepped
  <2> QED BY <1>1, <1>4, <2>1, <2>2, <2>3 DEF server, StoredOnce, ReadAs
<1> QED BY <1>2, <1>3, <1>4

\* Every step is the person's, a turn of a slot, or the server's.
LEMMA StepKinds ==
  ASSUME Sound, Ordered, Next
  PROVE  \/ Quiet /\ Types' /\ CarriedIsHeld'
         \/ \E s \in Slots : Turn(s) /\ Types' /\ CarriedIsHeld'
         \/ \E s \in Slots : Arrives(s) \/ Change(s) \/ Read(s)
<1>1. ASSUME Asked PROVE \E s \in Slots : Turn(s) /\ Types' /\ CarriedIsHeld'
  BY <1>1 DEF Asked
<1>2. ASSUME NEW g \in DOMAIN page, NEW keys \in BOOLEAN, NEW k \in DOMAIN page[g], Grab(g, k, keys)
      PROVE  Quiet /\ Types' /\ CarriedIsHeld'
  BY <1>2, GrabFacts
<1>3. ASSUME NEW g \in DOMAIN page, NEW at \in 0 .. Len(page[g]), Carry(g, at)
      PROVE  Quiet /\ Types' /\ CarriedIsHeld'
  BY <1>3, CarryFacts
<1>4. ASSUME NEW refocus \in BOOLEAN, Drop(refocus)
      PROVE  \E s \in Slots : Turn(s) /\ Types' /\ CarriedIsHeld'
  BY <1>4, DropFacts
<1>5. ASSUME Cancel PROVE Quiet /\ Types' /\ CarriedIsHeld'
  BY <1>5, CancelFacts
<1>6. ASSUME NEW s \in Slots, Receive(s) PROVE Turn(s) /\ Types' /\ CarriedIsHeld'
  BY <1>6, ReceiveFacts
<1>7. ASSUME NEW s \in Slots, Lose(s)
      PROVE  Types' /\ CarriedIsHeld' /\ (Quiet \/ Turn(s))
  BY <1>7, LoseFacts
<1>8. ASSUME NEW s \in Slots, GiveUp(s) PROVE Turn(s) /\ Types' /\ CarriedIsHeld'
  BY <1>8, GiveUpFacts
<1> QED BY <1>1, <1>2, <1>3, <1>4, <1>5, <1>6, <1>7, <1>8, Asks DEF Next, Arrives

\* A slot that is in use, and one that is not.
LEMMA BusyFacts ==
  ASSUME AllFormed, NEW s \in Slots
  PROVE  /\ s \in Busy <=> requests[s].kind # "none"
         /\ s \in Busy <=> requests[s].step # "idle"
         /\ s \notin Busy <=> requests[s] = Idle
         /\ Answered(requests[s]) => s \in Busy
BY IdleIsFormed DEF AllFormed, Formed, Busy, Answered

\* In a state of well formed requests a slot is empty when it says so.
LEMMA BusyNext ==
  ASSUME AllFormed', NEW s \in Slots
  PROVE  /\ s \in Busy' <=> requests'[s].kind # "none"
         /\ s \in Busy' <=> requests'[s].step # "idle"
         /\ s \notin Busy' <=> requests'[s] = Idle
BY IdleIsFormed DEF AllFormed, Formed, Busy

\* Sound holds after every step.
LEMMA SoundStays ==
  ASSUME Sound, Ordered, Next
  PROVE  Sound'
<1>1. CASE Quiet /\ Types' /\ CarriedIsHeld'
  <2>1. AllFormed'
    <3> SUFFICES ASSUME NEW u \in Slots PROVE Formed(requests'[u])
      BY DEF AllFormed
    <3>1. Formed(requests[u])
      BY DEF Sound, AllFormed
    <3>2. /\ SameWork(requests'[u], requests[u]) /\ (requests[u] = Idle => requests'[u] = Idle)
          /\ requests'[u].behind = requests[u].behind
      BY <1>1 DEF Quiet, GoesOn
    <3> QED BY <3>1, <3>2, FormedAgain
  <2>2. StoredOnce'
    BY <1>1 DEF Quiet, server, Sound, StoredOnce
  <2>3. NewIsNew'
    BY <1>1 DEF Quiet, GoesOn, SameWork, server, Sound, NewIsNew, Rows
  <2> QED BY <1>1, <2>1, <2>2, <2>3 DEF Sound
<1>2. ASSUME NEW s \in Slots, Turn(s), Types', CarriedIsHeld' PROVE Sound'
  <2>1. AllFormed'
    <3> SUFFICES ASSUME NEW u \in Slots PROVE Formed(requests'[u])
      BY DEF AllFormed
    <3>1. CASE u = s
      BY <1>2, <3>1 DEF Turn
    <3>2. CASE u # s
      <4>1. Formed(requests[u])
        BY DEF Sound, AllFormed
      <4>2. /\ SameWork(requests'[u], requests[u]) /\ (requests[u] = Idle => requests'[u] = Idle)
            /\ requests[u].behind = {} => requests'[u].behind = {}
        BY <1>2, <3>2 DEF Turn, GoesOn
      <4> QED BY <4>1, <4>2, FormedAgain
    <3> QED BY <3>1, <3>2
  <2>2. StoredOnce'
    BY <1>2 DEF Turn, server, Sound, StoredOnce
  <2>3. UNCHANGED <<stored, unborn>> /\ NewIsNew
    BY <1>2 DEF Turn, server, Sound
  <2>4. /\ requests'[s].kind = "add" =>
             requests'[s].tile \in unborn /\ \A u \in Slots \ {s} : requests[u].kind # "add"
        /\ \A u \in Slots \ {s} : SameWork(requests'[u], requests[u])
    BY <1>2 DEF Turn, GoesOn
  <2>5. NewIsNew'
    BY <2>3, <2>4 DEF SameWork, NewIsNew, Rows
  <2> QED BY <1>2, <2>1, <2>2, <2>5 DEF Sound
<1>3. ASSUME NEW s \in Slots, Arrives(s) \/ Change(s) \/ Read(s) PROVE Sound'
  <2>1. /\ Types' /\ CarriedIsHeld' /\ StoredOnce' /\ Stepped(s) /\ Formed(requests'[s])
    BY <1>3, ServerStep
  <2>2. AllFormed'
    BY <2>1 DEF AllFormed, Stepped, Sound
  <2>3. NewIsNew /\ \A u \in Slots : /\ requests'[u].kind = requests[u].kind
                                     /\ requests'[u].tile = requests[u].tile
    BY <2>1 DEF Stepped, Sound
  <2>4. \A u \in Slots : requests'[u].step \in {"sent", "found"} => requests[u].step \in {"sent", "found"}
    <3>1. requests[s].step \in {"sent", "found"} \/ requests'[s].step = "reading"
      BY <1>3, ServerStep
    <3> QED BY <2>1, <3>1 DEF Stepped
  <2>5. ASSUME UNCHANGED server PROVE NewIsNew'
    BY <2>3, <2>4, <2>5 DEF NewIsNew, server, Rows
  <2>6. ASSUME Change(s) PROVE NewIsNew'
    <3>1. /\ requests'[s].step = "reading" /\ unborn' \subseteq unborn
          /\ \/ requests[s].kind = "add" /\ Rows(stored') \subseteq Rows(stored) \cup {requests[s].tile}
                /\ unborn' = unborn \ {requests[s].tile}
             \/ Rows(stored') \subseteq Rows(stored) /\ (unborn' = unborn \/ requests[s].kind = "add")
      <4>1. requests'[s].step = "reading" /\ StoredAs(requests[s])
            /\ requests[s].kind \in {"move", "add", "delete", "deleteGroup"}
        BY <2>6, ChangeFacts DEF ChangedAs
      <4>2. requests[s].kind = "add" \/ unborn' = unborn
        <5>1. Result(requests[s]) # "ok" => unborn' = unborn
          BY <4>1 DEF StoredAs, server
        <5> QED BY <4>1, <5>1 DEF StoredAs
      <4> QED BY <2>6, <4>1, <4>2, StoreFacts
    <3>2. unborn' \cap Rows(stored') = {}
      BY <2>3, <3>1 DEF NewIsNew
    <3>3. \A u \in Slots : requests'[u].kind = "add" /\ requests'[u].step \in {"sent", "found"} =>
            requests'[u].tile \in unborn'
      <4> SUFFICES ASSUME NEW u \in Slots, requests'[u].kind = "add",
                          requests'[u].step \in {"sent", "found"}
                   PROVE  requests'[u].tile \in unborn'
        OBVIOUS
      <4>1. u # s
        BY <3>1
      <4>2. requests[u].kind = "add" /\ requests[u].tile \in unborn
        BY <2>3, <2>4 DEF NewIsNew
      <4>3. requests[s].kind # "add"
        BY <2>3, <4>1, <4>2 DEF NewIsNew
      <4> QED BY <2>3, <3>1, <4>2, <4>3
    <3>4. \A u, v \in Slots : requests'[u].kind = "add" /\ requests'[v].kind = "add" => u = v
      BY <2>3 DEF NewIsNew
    <3> QED BY <3>2, <3>3, <3>4 DEF NewIsNew, Rows
  <2>7. NewIsNew'
    BY <1>3, <2>5, <2>6, ServerStep
  <2> QED BY <2>1, <2>2, <2>7 DEF Sound
<1> QED BY <1>1, <1>2, <1>3, StepKinds

\* Nothing is both answered and handled, and what is behind another is answered.
LEMMA SlotFacts ==
  ASSUME Sound, Ordered
  PROVE  /\ \A s \in Slots : requests[s].calm => Busy = {s}
         /\ \A s \in Slots : s \in Handled <=> /\ requests[s].step \in {"found", "reading"}
                                               /\ ~Answered(requests[s])
         /\ \A s \in Slots : requests[s].behind # {} => requests[s].step \in {"found", "reading"}
         /\ \A s \in Slots : \A u \in requests[s].behind :
              /\ u \in Slots /\ u # s /\ u \in Busy /\ Answered(requests[u]) /\ s \in Busy
         /\ Busy \subseteq Slots
<1>1. Busy \subseteq Slots
  BY DEF Busy
<1>2. \A s \in Slots : requests[s].step \in {"idle", "sent", "found", "reading"} /\ requests[s].behind \subseteq Slots
  BY DEF Sound, Types, RequestType
<1>3. \A s \in Slots : s \in Busy <=> requests[s].step # "idle"
  BY BusyFacts DEF Sound
<1>4. \A s \in Slots : s \in Handled <=> requests[s].step \in {"found", "reading"} /\ ~Answered(requests[s])
  BY <1>1, <1>2, <1>3 DEF Handled
<1>5. \A s \in Slots : requests[s].behind # {} => requests[s].step \in {"found", "reading"}
  <2>1. Idle.behind = {}
    BY DEF Idle
  <2> QED BY <1>2, <2>1 DEF Sound, AllFormed, Formed
<1>6. \A s \in Slots : \A u \in requests[s].behind : u \in Slots /\ u # s /\ Answered(requests[u])
  BY <1>2 DEF Ordered, InOrder
<1>7. \A u \in Slots : Answered(requests[u]) => u \in Busy
  BY BusyFacts DEF Sound
<1> QED BY <1>1, <1>3, <1>4, <1>5, <1>6, <1>7 DEF Ordered, CalmIsAlone

\* Unless requests were handled across each other, s is the only one that is
\* handled, and everyone else on the server was answered before it.
LEMMA AloneOnServer ==
  ASSUME Sound, Ordered, NEW s \in Slots, Stepped(s)
  PROVE  /\ s \in Busy /\ (crossed => crossed') /\ (unheard' <=> unheard)
         /\ \A v \in Slots : v # s => ~requests[v].calm
         /\ ~crossed' => /\ ~crossed
                         /\ \A v \in Slots : v # s =>
                              /\ requests[v].step # "found"
                              /\ requests[v].step = "reading" => Answered(requests[v])
<1>1. /\ requests[s].step \in {"sent", "found", "reading"}
      /\ crossed' = (crossed \/ Handled \ {s} # {}) /\ UNCHANGED unheard
  BY DEF Stepped
<1>2. s \in Busy
  BY <1>1, BusyFacts DEF Sound
<1>3. \A v \in Slots : v # s => ~requests[v].calm
  BY <1>2, SlotFacts
<1>4. ASSUME ~crossed', NEW v \in Slots, v # s
      PROVE  ~crossed /\ requests[v].step # "found" /\ (requests[v].step = "reading" => Answered(requests[v]))
  <2>1. ~crossed /\ v \notin Handled
    BY <1>1, <1>4
  <2> QED BY <2>1, SlotFacts DEF Answered
<1>5. ~crossed' => ~crossed
  BY <1>1
<1> QED BY <1>1, <1>2, <1>3, <1>4, <1>5

\* Ordered holds after every step of the person's.
LEMMA OrderedQuiet ==
  ASSUME Sound, Sound', Ordered, Quiet
  PROVE  Ordered'
<1>1. \A u \in Slots :
        /\ SameWork(requests'[u], requests[u]) /\ requests'[u].behind = requests[u].behind
        /\ requests'[u].calm = requests[u].calm
        /\ (requests'[u].gone => requests[u].gone \/ unheard') /\ (unheard => unheard')
        /\ (Answered(requests'[u]) <=> Answered(requests[u])) /\ (crossed => crossed')
  BY DEF Quiet, GoesOn, SameWork, Answered
<1>2. \A u \in Slots : u \in Busy' <=> u \in Busy
  BY <1>1, BusyFacts, BusyNext DEF Sound, SameWork
<1>3. Busy' = Busy
  BY <1>2 DEF Busy
<1>4. Handled' = Handled
  BY <1>1, <1>3 DEF Handled, Busy, SameWork
<1>5. OnServer' = OnServer
  <2>1. \A u \in Slots : requests'[u].step = requests[u].step
    BY <1>1 DEF SameWork
  <2> QED BY <2>1 DEF OnServer
<1>6. CalmIsAlone' /\ OneAtATime' /\ GoneIsUnheard'
  <2>1. (crossed => crossed') /\ (unheard => unheard')
    BY DEF Quiet
  <2> QED BY <1>1, <1>3, <1>4, <2>1 DEF Ordered, CalmIsAlone, OneAtATime, GoneIsUnheard
<1>7. InOrder'
  <2>1. \A v \in Slots : \A u \in requests'[v].behind : u # v /\ Answered(requests'[u])
    BY <1>1, SlotFacts
  <2>2. ~crossed' => \A v, u \in OnServer' : v = u \/ u \in requests'[v].behind \/ v \in requests'[u].behind
    <3>1. OnServer \subseteq Slots
      BY DEF OnServer
    <3> QED BY <1>1, <1>5, <3>1 DEF Ordered, InOrder
  <2> QED BY <2>1, <2>2 DEF InOrder
<1> QED BY <1>6, <1>7 DEF Ordered

\* And of every turn of a slot.
LEMMA OrderedTurn ==
  ASSUME Sound, Sound', Ordered, NEW s \in Slots, Turn(s)
  PROVE  Ordered'
<1>1. \A u \in Slots : u # s =>
        /\ SameWork(requests'[u], requests[u])
        /\ requests'[u].behind \ {s} = requests[u].behind \ {s}
        /\ (s \in requests'[u].behind => s \in requests[u].behind /\ requests[s] = Idle)
        /\ (requests'[u].calm => requests[u].calm /\ requests'[s] = Idle)
        /\ (requests'[u].gone => requests[u].gone \/ unheard')
        /\ (Answered(requests'[u]) <=> Answered(requests[u]))
  BY DEF Turn, GoesOn, SameWork, Answered
<1>2. /\ requests'[s].behind = {} /\ ~requests'[s].gone /\ requests'[s].step \in {"idle", "sent"}
      /\ ~Answered(requests'[s])
  BY DEF Turn, Idle, IsNew, Answered
<1>3. /\ crossed /\ ~crossed' => Busy \subseteq {s}
      /\ unheard /\ ~unheard' => Busy \subseteq {s}
      /\ requests'[s].calm => Busy = {}
  BY DEF Turn
<1>4. \A u \in Slots : u # s => (u \in Busy' <=> u \in Busy)
  BY <1>1, BusyFacts, BusyNext DEF Sound, SameWork
<1>5. Busy \subseteq Slots /\ Busy' \subseteq Slots
  BY DEF Busy
<1>6. CalmIsAlone'
  <2> SUFFICES ASSUME NEW v \in Slots, requests'[v].calm PROVE Busy' = {v}
    BY DEF CalmIsAlone
  <2>1. CASE v = s
    <3>1. Busy = {}
      BY <1>3, <2>1
    <3>2. requests'[s] # Idle
      BY <2>1, IdleIsFormed
    <3>3. s \in Busy'
      BY <3>2 DEF Busy
    <3> QED BY <1>4, <1>5, <2>1, <3>1, <3>3
  <2>2. CASE v # s
    <3>1. Busy = {v} /\ requests'[s] = Idle
      BY <1>1, <2>2, SlotFacts
    <3>2. s \notin Busy'
      BY <3>1 DEF Busy
    <3> QED BY <1>4, <1>5, <2>2, <3>1, <3>2
  <2> QED BY <2>1, <2>2
<1>7. \A v \in Slots : v \in Handled' => v \in Handled /\ v # s
  <2> SUFFICES ASSUME NEW v \in Slots, v \in Handled' PROVE v \in Handled /\ v # s
    OBVIOUS
  <2>1. v \in Busy' /\ requests'[v].step # "sent" /\ ~Answered(requests'[v])
    BY DEF Handled
  <2>2. requests'[v].step # "idle"
    BY <2>1, BusyNext DEF Sound
  <2>3. v # s
    BY <1>2, <2>1, <2>2
  <2>4. requests[v].step = requests'[v].step
    BY <1>1, <2>3 DEF SameWork
  <2> QED BY <1>1, <1>4, <2>1, <2>3, <2>4 DEF Handled
<1>8. Handled \subseteq Busy /\ Handled' \subseteq Slots
  BY <1>5 DEF Handled
<1>9. OneAtATime'
  BY <1>3, <1>7, <1>8 DEF Ordered, OneAtATime
<1>10. \A v \in Slots : v \in OnServer' => v \in OnServer /\ v # s /\ v \in Busy
  BY <1>1, <1>2, BusyFacts DEF OnServer, SameWork, Sound
<1>11. OnServer' \subseteq Slots
  BY DEF OnServer
<1>12. InOrder'
  <2>1. ASSUME NEW v \in Slots, NEW u \in requests'[v].behind
        PROVE  u # v /\ Answered(requests'[u])
    <3>1. v # s
      BY <1>2, <2>1
    <3>2. u \in requests[v].behind /\ (u = s => requests[s] = Idle)
      BY <1>1, <2>1, <3>1
    <3>3. u \in Slots /\ u # v /\ Answered(requests[u]) /\ u \in Busy
      BY <3>2, SlotFacts
    <3>4. u # s
      BY <3>2, <3>3 DEF Busy
    <3> QED BY <1>1, <3>3, <3>4
  <2>2. ASSUME ~crossed', NEW v \in OnServer', NEW u \in OnServer'
        PROVE  v = u \/ u \in requests'[v].behind \/ v \in requests'[u].behind
    <3>1. v \in OnServer /\ v # s /\ v \in Busy /\ u \in OnServer /\ u # s /\ v \in Slots /\ u \in Slots
      BY <1>10, <1>11
    <3>2. ~crossed
      BY <1>3, <2>2, <3>1
    <3>3. v = u \/ u \in requests[v].behind \/ v \in requests[u].behind
      BY <3>1, <3>2 DEF Ordered, InOrder
    <3> QED BY <1>1, <3>1, <3>3
  <2> QED BY <2>1, <2>2 DEF InOrder
<1>13. GoneIsUnheard'
  <2> SUFFICES ASSUME NEW v \in Slots, requests'[v].gone, ~unheard' PROVE FALSE
    BY DEF GoneIsUnheard
  <2>1. v # s /\ requests[v].gone
    BY <1>1, <1>2
  <2>2. unheard /\ v \in Busy
    BY <2>1, IdleIsFormed DEF Ordered, GoneIsUnheard, Busy
  <2> QED BY <1>3, <2>1, <2>2
<1> QED BY <1>6, <1>9, <1>12, <1>13 DEF Ordered

\* And of everything the server does.
LEMMA OrderedServer ==
  ASSUME Sound, Sound', Ordered, NEW s \in Slots, Arrives(s) \/ Change(s) \/ Read(s)
  PROVE  Ordered'
<1>1. /\ Stepped(s)
      /\ \/ requests[s].step = "sent" /\ requests'[s].behind = {u \in Busy : Answered(requests[u])}
         \/ requests[s].step \in {"found", "reading"} /\ requests'[s].behind = requests[s].behind
  BY ServerStep
<1>2. /\ \A u \in Slots : u # s => requests'[u] = requests[u]
      /\ requests'[s].gone = requests[s].gone /\ requests'[s].calm = requests[s].calm
      /\ requests'[s].kind = requests[s].kind /\ ~Answered(requests[s])
      /\ requests'[s].step \in {"found", "reading"}
  BY <1>1 DEF Stepped
<1>3. /\ s \in Busy /\ (crossed => crossed') /\ (unheard' <=> unheard)
      /\ \A v \in Slots : v # s => ~requests[v].calm
      /\ ~crossed' => /\ ~crossed
                      /\ \A v \in Slots : v # s =>
                           /\ requests[v].step # "found"
                           /\ requests[v].step = "reading" => Answered(requests[v])
  BY <1>1, AloneOnServer
<1>4. \A u \in Slots : u \in Busy' <=> u \in Busy
  BY <1>2, BusyFacts, BusyNext DEF Sound
<1>5. Busy' = Busy /\ Busy \subseteq Slots
  BY <1>4 DEF Busy
<1>6. CalmIsAlone' /\ GoneIsUnheard'
  BY <1>2, <1>3, <1>5 DEF Ordered, CalmIsAlone, GoneIsUnheard
<1>7. OneAtATime'
  <2> SUFFICES ASSUME ~crossed', NEW v \in Handled' PROVE v = s
    BY DEF OneAtATime
  <2>1. v \in Slots /\ requests'[v].step # "sent" /\ ~Answered(requests'[v]) /\ v \in Busy
    BY <1>5 DEF Handled
  <2>2. requests[v].step \in {"sent", "found", "reading"}
    BY <2>1, BusyFacts DEF Sound, Types, RequestType
  <2> QED BY <1>2, <1>3, <2>1, <2>2
<1>8. \A v \in Slots : \A u \in requests'[v].behind : u # v /\ Answered(requests'[u])
  <2> SUFFICES ASSUME NEW v \in Slots, NEW u \in requests'[v].behind
               PROVE  u # v /\ Answered(requests'[u])
    OBVIOUS
  <2>1. u \in Slots /\ Answered(requests[u]) /\ u # v
    <3>1. CASE v = s /\ requests'[s].behind = {x \in Busy : Answered(requests[x])}
      BY <1>2, <1>5, <3>1
    <3>2. CASE requests'[v].behind = requests[v].behind
      BY <3>2, SlotFacts
    <3> QED BY <1>1, <1>2, <3>1, <3>2
  <2> QED BY <1>2, <2>1
<1>9. ASSUME ~crossed', NEW v \in OnServer', NEW u \in OnServer'
      PROVE  v = u \/ u \in requests'[v].behind \/ v \in requests'[u].behind
  <2>1. v \in Slots /\ u \in Slots
    BY DEF OnServer
  <2>2. ~crossed
    BY <1>3, <1>9
  <2>3. CASE requests[s].step = "sent"
    <3>1. \A x \in Slots : x # s /\ x \in OnServer' => x \in requests'[s].behind
      <4> SUFFICES ASSUME NEW x \in Slots, x # s, x \in OnServer' PROVE x \in requests'[s].behind
        OBVIOUS
      <4>1. requests[x].step \in {"found", "reading"}
        BY <1>2 DEF OnServer
      <4>2. Answered(requests[x])
        BY <1>3, <1>9, <4>1
      <4>3. x \in Busy
        BY <4>2, BusyFacts DEF Sound
      <4> QED BY <1>1, <2>3, <4>2, <4>3
    <3>2. \A x, y \in Slots : x # s /\ y # s /\ x \in OnServer' /\ y \in OnServer' =>
            x = y \/ y \in requests'[x].behind \/ x \in requests'[y].behind
      BY <1>2, <2>2 DEF Ordered, InOrder, OnServer
    <3> QED BY <1>9, <2>1, <3>1, <3>2
  <2>4. CASE requests[s].step \in {"found", "reading"}
    <3>1. requests'[s].behind = requests[s].behind
      BY <1>1, <2>4
    <3>2. v \in OnServer /\ u \in OnServer
      BY <1>2, <1>9, <2>1, <2>4 DEF OnServer
    <3> QED BY <1>2, <2>1, <2>2, <3>1, <3>2 DEF Ordered, InOrder
  <2> QED BY <1>1, <2>3, <2>4
<1> QED BY <1>6, <1>7, <1>8, <1>9 DEF Ordered, InOrder

\* The order of the requests is kept by every step.
LEMMA OrderedStays ==
  ASSUME Sound, Sound', Ordered, Next
  PROVE  Ordered'
BY StepKinds, OrderedQuiet, OrderedTurn, OrderedServer

-----------------------------------------------------------------------------
(* What a request found is there for as long as it is handled alone.       *)

Clean(s) == ~crossed \/ requests[s].calm
\* The group a request was found in, and its tile there, when the store is
\* called.
FoundIsThere ==
  \A s \in Slots : requests[s].step = "found" /\ Clean(s) =>
    /\ requests[s].source \in DOMAIN stored
    /\ requests[s].kind \in {"move", "delete"} => requests[s].tile \in ToSet(stored[requests[s].source])
\* The groups that are to be read.
ReadIsThere ==
  \A s \in Slots : s \in Handled /\ Clean(s) =>
    \A what \in {"group", "items"}, g \in Groups :
      <<what, g>> \in ToSet(requests[s].todo) => g \in DOMAIN stored
\* What was read.
ReadIsCurrent ==
  \A s \in Slots : s \in Handled /\ Clean(s) =>
    \A g \in DOMAIN requests[s].patch : g \in DOMAIN stored /\ requests[s].patch[g] = stored[g]
There == FoundIsThere /\ ReadIsThere /\ ReadIsCurrent

\* A request that is being handled now, with nobody across it, was so before.
LEMMA CleanBeforeQuiet ==
  ASSUME Sound, Sound', Quiet, NEW v \in Slots
  PROVE  /\ v \in Handled' => v \in Handled
         /\ Clean(v)' => Clean(v)
         /\ SameWork(requests'[v], requests[v]) /\ UNCHANGED server
<1>1. /\ SameWork(requests'[v], requests[v]) /\ requests'[v].calm = requests[v].calm
      /\ UNCHANGED server /\ (crossed => crossed')
  BY DEF Quiet, GoesOn
<1>2. v \in Busy' <=> v \in Busy
  BY <1>1, BusyFacts, BusyNext DEF Sound, SameWork
<1>3. v \in Handled' => v \in Handled
  BY <1>1, <1>2 DEF Handled, SameWork, Answered
<1> QED BY <1>1, <1>3 DEF Clean
\* A request that is on the server after a slot was emptied or reused was there
\* before, as it is.
LEMMA CleanBeforeTurn ==
  ASSUME Sound, Sound', NEW s \in Slots, Turn(s),
         NEW v \in Slots, requests'[v].step \in {"found", "reading"}
  PROVE  /\ v # s /\ v \in Busy /\ (v \in Handled' => v \in Handled)
         /\ Clean(v)' => Clean(v)
         /\ SameWork(requests'[v], requests[v]) /\ UNCHANGED server
<1>1. v # s
  BY DEF Turn, Idle, IsNew
<1>2. /\ SameWork(requests'[v], requests[v]) /\ (requests'[v].calm => requests[v].calm)
      /\ UNCHANGED server /\ (crossed /\ ~crossed' => Busy \subseteq {s})
  BY <1>1 DEF Turn, GoesOn
<1>3. v \in Busy
  BY <1>2, BusyFacts DEF Sound, SameWork
<1>4. v \in Handled' => v \in Handled
  BY <1>2, <1>3 DEF Handled, SameWork, Answered
<1> QED BY <1>1, <1>2, <1>3, <1>4 DEF Clean
\* And one that is being handled is found or reading.
LEMMA HandledNext ==
  ASSUME Sound', NEW v \in Slots, v \in Handled'
  PROVE  requests'[v].step \in {"found", "reading"} /\ ~Answered(requests'[v])
BY BusyNext DEF Handled, Sound, Types, RequestType

\* What a request found stays there for it, whatever is done.
LEMMA ThereStays ==
  ASSUME Sound, Sound', Ordered, Next, There
  PROVE  There'
<1>1. ASSUME \A v \in Slots :
               v \in Handled' \/ requests'[v].step = "found" =>
                 /\ v \in Handled' => v \in Handled
                 /\ Clean(v)' => Clean(v)
                 /\ SameWork(requests'[v], requests[v]) /\ UNCHANGED server
      PROVE  There'
  <2>1. ASSUME NEW v \in Slots, requests'[v].step = "found", Clean(v)'
        PROVE  /\ requests'[v].source \in DOMAIN stored'
               /\ requests'[v].kind \in {"move", "delete"} =>
                    requests'[v].tile \in ToSet(stored'[requests'[v].source])
    BY <1>1, <2>1 DEF There, FoundIsThere, SameWork, server
  <2>2. ASSUME NEW v \in Slots, v \in Handled', Clean(v)'
        PROVE  /\ \A what \in {"group", "items"}, g \in Groups :
                    <<what, g>> \in ToSet(requests'[v].todo) => g \in DOMAIN stored'
               /\ \A g \in DOMAIN requests'[v].patch :
                    g \in DOMAIN stored' /\ requests'[v].patch[g] = stored'[g]
    <3>1. /\ v \in Handled /\ Clean(v) /\ requests'[v].todo = requests[v].todo
          /\ requests'[v].patch = requests[v].patch /\ stored' = stored
      BY <1>1, <2>2 DEF SameWork, server
    <3> QED BY <3>1 DEF There, ReadIsThere, ReadIsCurrent
  <2> QED BY <2>1, <2>2 DEF There, FoundIsThere, ReadIsThere, ReadIsCurrent
<1>2. CASE Quiet
  BY <1>1, <1>2, CleanBeforeQuiet
<1>3. ASSUME NEW s \in Slots, Turn(s) PROVE There'
  <2>1. \A v \in Slots : v \in Handled' => requests'[v].step \in {"found", "reading"}
    BY HandledNext
  <2> QED BY <1>1, <1>3, <2>1, CleanBeforeTurn
<1>4. ASSUME NEW s \in Slots, Arrives(s) \/ Change(s) \/ Read(s) PROVE There'
  <2> DEFINE r == requests[s]
             q == requests'[s]
  <2>1. Stepped(s) /\ q \in RequestType /\ DOMAIN stored \in SUBSET Groups
    <3>1. stored \in Pages
      BY DEF Sound, Types
    <3> QED BY <1>4, <3>1, ServerStep, PageOf DEF Sound, Types
  <2>2. Clean(s)' => Clean(s)
    BY <2>1, AloneOnServer DEF Clean, Stepped
  <2>3. ASSUME NEW v \in Slots, Clean(v)', v \in Handled' \/ requests'[v].step = "found"
        PROVE  v = s
    <3> SUFFICES ASSUME v # s PROVE FALSE
      OBVIOUS
    <3>1. requests'[v] = requests[v] /\ ~requests[v].calm /\ (~crossed' => requests[v].step # "found"
            /\ (requests[v].step = "reading" => Answered(requests[v])))
      BY <2>1, AloneOnServer DEF Stepped
    <3>2. ~crossed'
      BY <2>3, <3>1 DEF Clean
    <3>3. v \in Handled' => requests'[v].step \in {"found", "reading"} /\ ~Answered(requests'[v])
      BY HandledNext
    <3> QED BY <2>3, <3>1, <3>2, <3>3
  <2>4. ASSUME Clean(s)'
        PROVE  /\ q.step = "found" =>
                    /\ q.source \in DOMAIN stored'
                    /\ q.kind \in {"move", "delete"} => q.tile \in ToSet(stored'[q.source])
               /\ s \in Handled' =>
                    /\ \A what \in {"group", "items"}, g \in Groups :
                         <<what, g>> \in ToSet(q.todo) => g \in DOMAIN stored'
                    /\ \A g \in DOMAIN q.patch : g \in DOMAIN stored' /\ q.patch[g] = stored'[g]
    <3>1. /\ \A D, g : <<"group", g>> \in ItemsOf(D) \cup GroupsOf(D) => g \in D
          /\ \A D, g : <<"items", g>> \in ItemsOf(D) \cup GroupsOf(D) => g \in D
          /\ \A D, g : <<"group", g>> \in ItemsOf(D) => g \in D
          /\ \A D, g : <<"items", g>> \in ItemsOf(D) => g \in D
      BY DEF ItemsOf, GroupsOf
    <3>2. DOMAIN Nothing = {}
      BY DEF Nothing
    <3>3. CASE Arrives(s)
      <4>1. /\ stored' = stored /\ FoundAs(q, r, {u \in Busy : Answered(requests[u])})
        BY <3>3, ArrivesFacts DEF server
      <4> QED BY <3>1, <3>2, <4>1, NoReads DEF FoundAs
    <3>4. CASE Change(s)
      <4>1. /\ ChangedAs(q, r) /\ r.step = "found" /\ r.kind \in {"move", "add", "delete", "deleteGroup"}
            /\ r.kind # "deleteGroup" => DOMAIN stored' = DOMAIN stored
        BY <3>4, ChangeFacts, StoreFacts
      <4>2. q.step = "reading" /\ q.patch = Nothing /\ q.result = Result(r)
        BY <4>1 DEF ChangedAs
      <4>3. r.source \in DOMAIN stored
        BY <2>2, <2>4, <4>1 DEF There, FoundIsThere
      <4>4. r \in RequestType
        BY DEF Sound, Types
      <4>5. ASSUME s \in Handled', NEW what \in {"group", "items"}, NEW g \in Groups,
                   <<what, g>> \in ToSet(q.todo)
            PROVE  g \in DOMAIN stored'
        <5>1. q.result # "failed"
          BY <4>2, <4>5 DEF Handled, Answered
        <5>2. CASE r.kind = "deleteGroup"
          <6>1. ToSet(q.todo) = {<<"column", r.source>>}
            <7>1. q.todo = <<<<"column", r.source>>>>
              BY <4>1, <5>1, <5>2 DEF ChangedAs
            <7> QED BY <2>1, <4>3, <7>1, OneRead
          <6> QED BY <4>5, <6>1
        <5>3. CASE r.kind = "move"
          <6>1. r.group \in DOMAIN stored \cup {None}
            BY <4>1, <4>2, <4>4, <5>1, <5>3, ResultFacts
          <6>2. PICK groups : /\ groups = IF r.group = None THEN {r.source} ELSE {r.group, r.source}
                              /\ ToSet(q.todo) = ItemsOf(groups) \cup GroupsOf(groups)
            BY <4>1, <5>1, <5>3 DEF ChangedAs
          <6>3. g \in groups
            BY <3>1, <4>5, <6>2
          <6> QED BY <4>1, <4>3, <5>3, <6>1, <6>2, <6>3
        <5>4. CASE r.kind \in {"delete", "add"}
          <6>1. g = r.source
            BY <3>1, <4>1, <4>5, <5>1, <5>4, NoReads DEF ChangedAs
          <6> QED BY <4>1, <4>3, <5>4, <6>1
        <5> QED BY <4>1, <5>2, <5>3, <5>4
      <4> QED BY <3>2, <4>2, <4>5
    <3>5. CASE Read(s)
      <4>1. /\ stored' = stored /\ r.step = "reading" /\ r.result # "failed" /\ r.todo # <<>>
        BY <3>5, ReadFacts DEF server
      <4>2. PICK what \in {"group", "items", "column"}, g \in Groups :
              /\ ToSet(r.todo) = ToSet(Tail(r.todo)) \cup {<<what, g>>}
              /\ ReadAs(q, r, what, g)
        BY <3>5, ReadFacts
      <4>3. s \in Handled
        BY <2>1, <4>1, BusyFacts DEF Handled, Answered, Sound
      <4>4. /\ \A w \in {"group", "items"}, h \in Groups :
                 <<w, h>> \in ToSet(r.todo) => h \in DOMAIN stored
            /\ \A h \in DOMAIN r.patch : h \in DOMAIN stored /\ r.patch[h] = stored[h]
        BY <2>2, <2>4, <4>3 DEF There, ReadIsThere, ReadIsCurrent
      <4>5. what # "column" => g \in DOMAIN stored
        BY <4>2, <4>4
      <4>6. \A w \in {"group", "items"}, h \in Groups :
              <<w, h>> \in ToSet(q.todo) => h \in DOMAIN stored
        BY <3>1, <4>2, <4>4 DEF ReadAs
      <4>7. \A h \in DOMAIN q.patch : h \in DOMAIN stored /\ q.patch[h] = stored[h]
        BY <4>2, <4>4, <4>5 DEF ReadAs
      <4>8. q.step = "reading"
        BY <4>2 DEF ReadAs
      <4> QED BY <4>1, <4>6, <4>7, <4>8
    <3> QED BY <1>4, <3>3, <3>4, <3>5
  <2>5. FoundIsThere'
    BY <2>3, <2>4 DEF FoundIsThere
  <2>6. ReadIsThere' /\ ReadIsCurrent'
    BY <2>3, <2>4 DEF ReadIsThere, ReadIsCurrent
  <2> QED BY <2>5, <2>6 DEF There
<1> QED BY <1>2, <1>3, <1>4, StepKinds

-----------------------------------------------------------------------------
(* What the page has: every group that is stored, and a place for whatever *)
(* an answer brings.                                                       *)

\* An answer that replaces the whole column, or the page, has every group.
WholeIsWhole ==
  \A s \in Slots : requests[s].whole =>
    \A g \in DOMAIN stored : g \in DOMAIN requests[s].patch \/ WillRead(requests[s], g)
PageHasAll == shown => DOMAIN stored \subseteq DOMAIN page
\* Whatever was read after such an answer was complete is in it.
OlderHaveAll ==
  ~crossed => \A s \in Slots : \A v \in requests[s].behind :
    requests[v].whole => DOMAIN requests[s].patch \subseteq DOMAIN requests[v].patch
PatchesFit == ~crossed /\ shown => \A s \in Slots : DOMAIN requests[s].patch \subseteq DOMAIN page
Complete == WholeIsWhole /\ PageHasAll /\ OlderHaveAll /\ PatchesFit

\* What was to be read is still to be read after a read, unless this was it.
LEMMA ReadCovers ==
  ASSUME NEW r \in RequestType, Formed(r), NEW what \in {"group", "items", "column"}, NEW g \in Groups,
         ToSet(r.todo) = ToSet(Tail(r.todo)) \cup {<<what, g>>}, NEW q, ReadAs(q, r, what, g),
         NEW h \in Groups, WillRead(r, h)
  PROVE  \/ WillRead(q, h)
         \/ what = "items" /\ h = g
         \/ what = "column" /\ h \notin DOMAIN stored /\ r.whole /\ r.patch = Nothing
<1>1. <<what, g>> \in ToSet(r.todo)
  OBVIOUS
<1>2. CASE \E x \in Groups : <<"column", x>> \in ToSet(r.todo)
  <2>1. r.whole /\ r.patch = Nothing /\ Tail(r.todo) = <<>>
    BY <1>2 DEF Formed
  <2>2. what = "column"
    BY <1>2, <2>1, NoReads
  <2>3. ToSet(q.todo) = ItemsOf(DOMAIN stored)
    BY <2>2 DEF ReadAs
  <2> QED BY <2>1, <2>2, <2>3 DEF WillRead, ItemsOf
<1>3. CASE ~\E x \in Groups : <<"column", x>> \in ToSet(r.todo)
  <2>1. <<"items", h>> \in ToSet(r.todo) /\ what # "column"
    BY <1>1, <1>3 DEF WillRead
  <2>2. <<"items", h>> \in ToSet(Tail(r.todo)) \/ <<"items", h>> = <<what, g>>
    BY <2>1
  <2>3. CASE <<"items", h>> = <<what, g>>
    BY <2>3
  <2>4. CASE <<"items", h>> \in ToSet(Tail(r.todo))
    <3>1. q.todo = Tail(r.todo) \/ q.todo = r.todo
      BY <2>1 DEF ReadAs
    <3> QED BY <2>1, <2>4, <3>1 DEF WillRead
  <2> QED BY <2>2, <2>3, <2>4
<1> QED BY <1>2, <1>3

\* An answer that is there has nothing left to read, unless it failed.
LEMMA AnsweredFacts ==
  ASSUME NEW r, Formed(r), Answered(r)
  PROVE  /\ r.step = "reading" /\ r.kind # "none"
         /\ r.result # "failed" => r.todo = <<>> /\ \A g : ~WillRead(r, g)
         /\ r.whole => r.result = "ok" /\ r.todo = <<>> /\ \A g : ~WillRead(r, g)
BY NoReads DEF Answered, Formed, WillRead

\* The groups on the page change only when the page or its column is replaced.
LEMMA AnswerDomains ==
  ASSUME Sound, Ordered, NEW s \in Slots, Receive(s), shown'
  PROVE  \/ shown /\ DOMAIN page' = DOMAIN page /\ ~requests[s].whole
         \/ requests[s].whole /\ DOMAIN page' = DOMAIN requests[s].patch
<1> DEFINE r == requests[s]
<1>1. r \in RequestType /\ Formed(r) /\ page \in Pages /\ (~shown => page = Nothing)
  BY DEF Sound, Types, AllFormed, CarriedIsHeld
<1>2. CASE Redrawn(s)
  <2>1. shown /\ DOMAIN page' = DOMAIN Patched(r)
    BY <1>2, RedrawnFacts
  <2>2. /\ r.whole /\ shown => Patched(r) = r.patch
        /\ ~(r.whole /\ shown) => DOMAIN Patched(r) = DOMAIN page
    BY <1>1, PatchedFacts
  <2> QED BY <2>1, <2>2
<1>3. CASE Replaced(s)
  <2>1. r.kind = "load" /\ r.result = "ok" /\ page' = r.patch
    BY <1>3, ReplacedFacts DEF Loaded
  <2>2. r.step = "reading"
    BY ReceiveFacts DEF Answered
  <2>3. r.whole
    BY <1>1, <2>1, <2>2 DEF Formed
  <2> QED BY <2>1, <2>3
<1> QED BY <1>2, <1>3, ReceiveFacts

\* And stay when the person handles the tile, asks, or gives up.
LEMMA OtherDomains ==
  ASSUME Sound, Ordered, Next, \A s \in Slots : ~Receive(s)
  PROVE  /\ shown' = shown /\ DOMAIN page' = DOMAIN page
         /\ (Quiet \/ \E s \in Slots : Turn(s)) => (crossed => crossed')
<1>1. ASSUME Asked PROVE page' = page /\ shown' = shown /\ crossed' = crossed
  BY <1>1 DEF Asked, browser
<1>2. ASSUME NEW g \in DOMAIN page, NEW keys \in BOOLEAN, NEW k \in DOMAIN page[g], Grab(g, k, keys)
      PROVE  DOMAIN page' = DOMAIN page /\ shown' = shown /\ crossed' = crossed
  BY <1>2, GrabFacts
<1>3. ASSUME NEW g \in DOMAIN page, NEW at \in 0 .. Len(page[g]), Carry(g, at)
      PROVE  DOMAIN page' = DOMAIN page /\ shown' = shown /\ (crossed => crossed')
  BY <1>3, CarryFacts
<1>4. ASSUME NEW refocus \in BOOLEAN, Drop(refocus)
      PROVE  DOMAIN page' = DOMAIN page /\ shown' = shown /\ crossed' = crossed
  BY <1>4, DropFacts
<1>5. ASSUME Cancel PROVE DOMAIN page' = DOMAIN page /\ shown' = shown /\ crossed' = crossed
  BY <1>5, CancelFacts
<1>6. ASSUME NEW s \in Slots, Lose(s)
      PROVE  page' = page /\ shown' = shown /\ crossed' = crossed
  BY <1>6, LoseFacts
<1>7. ASSUME NEW s \in Slots, GiveUp(s)
      PROVE  page' = page /\ shown' = shown /\ crossed' = crossed
  BY <1>7, GiveUpFacts DEF browser
<1>8. ASSUME NEW s \in Slots, Arrives(s) \/ Change(s) \/ Read(s)
      PROVE  page' = page /\ shown' = shown /\ (crossed => crossed')
  BY <1>8, ServerStep DEF Stepped, browser
<1> QED BY <1>1, <1>2, <1>3, <1>4, <1>5, <1>6, <1>7, <1>8, Asks DEF Next, Arrives

\* Nothing has no groups.
LEMMA NothingIsEmpty == DOMAIN Nothing = {}
BY DEF Nothing

\* A page that is being read stays complete, or still to be read.
LEMMA WholeStays ==
  ASSUME Sound, Sound', Ordered, Next, WholeIsWhole
  PROVE  WholeIsWhole'
<1>1. CASE Quiet
  <2>1. UNCHANGED stored /\ \A v \in Slots : SameWork(requests'[v], requests[v])
    BY <1>1 DEF Quiet, GoesOn, server
  <2> QED BY <2>1 DEF WholeIsWhole, SameWork, WillRead
<1>2. ASSUME NEW s \in Slots, Turn(s) PROVE WholeIsWhole'
  <2>1. UNCHANGED stored /\ ~requests'[s].whole
        /\ \A v \in Slots : v # s => SameWork(requests'[v], requests[v])
    BY <1>2 DEF Turn, GoesOn, server, IsNew, Idle
  <2> QED BY <2>1 DEF WholeIsWhole, SameWork, WillRead
<1>3. ASSUME NEW s \in Slots, Arrives(s) \/ Change(s) \/ Read(s) PROVE WholeIsWhole'
  <2> DEFINE r == requests[s]
             q == requests'[s]
  <2>1. /\ \A v \in Slots : v # s => requests'[v] = requests[v]
        /\ DOMAIN stored' \subseteq DOMAIN stored /\ DOMAIN stored \subseteq Groups
        /\ r \in RequestType /\ Formed(r)
    <3>1. stored \in Pages
      BY DEF Sound, Types
    <3> QED BY <1>3, <3>1, ServerStep, PageOf DEF Stepped, Sound, Types, AllFormed
  <2>2. ASSUME q.whole, NEW g \in DOMAIN stored'
        PROVE  g \in DOMAIN q.patch \/ WillRead(q, g)
    <3>1. g \in Groups /\ g \in DOMAIN stored
      BY <2>1
    <3>2. CASE Arrives(s)
      <4>1. ToSet(q.todo) = ItemsOf(DOMAIN stored)
        BY <2>2, <3>2, ArrivesFacts DEF FoundAs
      <4> QED BY <3>1, <4>1 DEF WillRead, ItemsOf
    <3>3. CASE Change(s)
      <4>1. /\ ChangedAs(q, r) /\ r.source \in Groups
        BY <3>3, ChangeFacts
      <4>2. q.todo = <<<<"column", r.source>>>>
        BY <2>2, <4>1 DEF ChangedAs
      <4>3. ToSet(q.todo) = {<<"column", r.source>>}
        BY <4>1, <4>2, OneRead
      <4> QED BY <4>1, <4>3 DEF WillRead
    <3>4. CASE Read(s)
      <4>1. PICK what \in {"group", "items", "column"}, h \in Groups :
              /\ ToSet(r.todo) = ToSet(Tail(r.todo)) \cup {<<what, h>>}
              /\ ReadAs(q, r, what, h)
        BY <3>4, ReadFacts
      <4>2. stored' = stored
        BY <3>4, ReadFacts DEF server
      <4>3. r.whole
        BY <2>2, <4>1 DEF ReadAs
      <4>4. g \in DOMAIN r.patch \/ WillRead(r, g)
        BY <3>1, <4>3 DEF WholeIsWhole
      <4>5. CASE g \in DOMAIN r.patch
        BY <4>1, <4>5 DEF ReadAs
      <4>6. CASE WillRead(r, g)
        <5>1. \/ WillRead(q, g)
              \/ what = "items" /\ h = g
              \/ what = "column" /\ g \notin DOMAIN stored
          BY <2>1, <3>1, <4>1, <4>6, ReadCovers
        <5>2. what = "items" => h \in DOMAIN q.patch
          BY <4>1 DEF ReadAs
        <5> QED BY <3>1, <5>1, <5>2
      <4> QED BY <4>4, <4>5, <4>6
    <3> QED BY <1>3, <3>2, <3>3, <3>4
  <2> QED BY <2>1, <2>2 DEF WholeIsWhole, WillRead
<1> QED BY <1>1, <1>2, <1>3, StepKinds

\* So does what was read after it a part of it.
LEMMA OlderStays ==
  ASSUME Sound, Sound', Ordered, Next, There, WholeIsWhole, OlderHaveAll
  PROVE  OlderHaveAll'
<1> SUFFICES ASSUME ~crossed', NEW u \in Slots, NEW v \in requests'[u].behind, requests'[v].whole
             PROVE  DOMAIN requests'[u].patch \subseteq DOMAIN requests'[v].patch
  BY DEF OlderHaveAll
<1>0. \A x \in Slots : \A y \in requests[x].behind :
        /\ y \in Slots /\ y # x /\ y \in Busy /\ Answered(requests[y]) /\ x \in Busy
  BY SlotFacts
<1>1. CASE Quiet
  <2>1. /\ ~crossed /\ requests'[u].behind = requests[u].behind
        /\ \A x \in Slots : requests'[x].patch = requests[x].patch /\ requests'[x].whole = requests[x].whole
    BY <1>1 DEF Quiet, GoesOn, SameWork
  <2> QED BY <1>0, <2>1 DEF OlderHaveAll
<1>2. ASSUME NEW s \in Slots, Turn(s)
      PROVE  DOMAIN requests'[u].patch \subseteq DOMAIN requests'[v].patch
  <2>1. requests'[s].behind = {} /\ ~requests'[s].whole
    BY <1>2 DEF Turn, IsNew, Idle
  <2>2. u # s /\ v # s
    BY <2>1
  <2>3. v \in requests[u].behind
    BY <1>2, <2>2 DEF Turn
  <2>4. /\ requests'[u].patch = requests[u].patch /\ requests'[v].patch = requests[v].patch
        /\ requests'[v].whole = requests[v].whole
    BY <1>0, <1>2, <2>2, <2>3 DEF Turn, GoesOn, SameWork
  <2>5. ~crossed
    BY <1>0, <1>2, <2>2, <2>3 DEF Turn
  <2> QED BY <1>0, <2>3, <2>4, <2>5 DEF OlderHaveAll
<1>3. ASSUME NEW s \in Slots, Arrives(s) \/ Change(s) \/ Read(s)
      PROVE  DOMAIN requests'[u].patch \subseteq DOMAIN requests'[v].patch
  <2> DEFINE r == requests[s]
             q == requests'[s]
  <2>1. /\ Stepped(s) /\ ~Answered(r)
        /\ \A x \in Slots : x # s => requests'[x] = requests[x]
    BY <1>3, ServerStep DEF Stepped
  <2>2. ~crossed /\ r \in RequestType /\ Formed(r)
    BY <2>1, AloneOnServer DEF Sound, Types, AllFormed
  <2>3. CASE u # s
    <3>1. v \in requests[u].behind /\ v # s /\ v \in Slots
      BY <1>0, <2>1, <2>3
    <3> QED BY <2>1, <2>2, <2>3, <3>1 DEF OlderHaveAll
  <2>4. CASE u = s
    <3>1. CASE Arrives(s)
      <4>1. q.patch = Nothing
        BY <3>1, ArrivesFacts DEF FoundAs
      <4> QED BY <2>4, <4>1, NothingIsEmpty
    <3>2. CASE Change(s)
      <4>1. q.patch = Nothing
        BY <3>2, ChangeFacts DEF ChangedAs
      <4> QED BY <2>4, <4>1, NothingIsEmpty
    <3>3. CASE Read(s)
      <4>1. PICK what \in {"group", "items", "column"}, g \in Groups :
              /\ ToSet(r.todo) = ToSet(Tail(r.todo)) \cup {<<what, g>>}
              /\ ReadAs(q, r, what, g)
        BY <3>3, ReadFacts
      <4>2. v \in requests[s].behind
        BY <2>4, <3>3, <4>1 DEF ReadAs
      <4>3. v \in Slots /\ v # s /\ Answered(requests[v]) /\ requests'[v] = requests[v]
        BY <1>0, <2>1, <4>2
      <4>4. DOMAIN stored \subseteq DOMAIN requests[v].patch
        <5>1. Formed(requests[v])
          BY <4>3 DEF Sound, AllFormed
        <5>2. \A g2 : ~WillRead(requests[v], g2)
          BY <4>3, <5>1, AnsweredFacts
        <5> QED BY <4>3, <5>2 DEF WholeIsWhole
      <4>5. DOMAIN r.patch \subseteq DOMAIN requests[v].patch
        BY <2>2, <4>2, <4>3 DEF OlderHaveAll
      <4>6. what = "items" => g \in DOMAIN stored
        <5>1. s \in Handled
          <6>1. r.step = "reading"
            BY <3>3, ReadFacts
          <6> QED BY <2>1, <6>1, BusyFacts DEF Handled, Sound
        <5> QED BY <2>2, <4>1, <5>1 DEF There, ReadIsThere, Clean
      <4> QED BY <2>4, <4>1, <4>3, <4>4, <4>5, <4>6 DEF ReadAs
    <3> QED BY <1>3, <3>1, <3>2, <3>3
  <2> QED BY <2>3, <2>4
<1> QED BY <1>1, <1>2, <1>3, StepKinds

\* The page keeps a place for every group that is stored.
LEMMA PageHasAllStays ==
  ASSUME Sound, Sound', Ordered, Next, WholeIsWhole, PageHasAll
  PROVE  PageHasAll'
<1>1. DOMAIN stored' \subseteq DOMAIN stored
  <2>1. Quiet \/ (\E s \in Slots : Turn(s)) => stored' = stored
    BY DEF Quiet, Turn, server
  <2> QED BY <2>1, StepKinds, ServerStep
<1>2. ASSUME NEW s \in Slots, Receive(s), shown' PROVE DOMAIN stored \subseteq DOMAIN page'
  <2>1. CASE shown /\ DOMAIN page' = DOMAIN page
    BY <2>1 DEF PageHasAll
  <2>2. CASE requests[s].whole /\ DOMAIN page' = DOMAIN requests[s].patch
    <3>1. Formed(requests[s]) /\ Answered(requests[s])
      BY <1>2, ReceiveFacts DEF Sound, AllFormed
    <3>2. \A g : ~WillRead(requests[s], g)
      BY <2>2, <3>1, AnsweredFacts
    <3> QED BY <2>2, <3>2 DEF WholeIsWhole
  <2> QED BY <1>2, <2>1, <2>2, AnswerDomains
<1>3. ASSUME \A s \in Slots : ~Receive(s), shown' PROVE DOMAIN stored \subseteq DOMAIN page'
  BY <1>3, OtherDomains DEF PageHasAll
<1> QED BY <1>1, <1>2, <1>3 DEF PageHasAll

\* And what is read keeps its place on the page.
LEMMA PatchesFitStays ==
  ASSUME Sound, Sound', Ordered, Next, There, Complete
  PROVE  PatchesFit'
<1> USE DEF Complete
<1> SUFFICES ASSUME ~crossed', shown', NEW u \in Slots
             PROVE  DOMAIN requests'[u].patch \subseteq DOMAIN page'
  BY DEF PatchesFit
<1>1. ASSUME NEW s \in Slots, Receive(s) PROVE DOMAIN requests'[u].patch \subseteq DOMAIN page'
  <2> DEFINE r == requests[s]
  <2>1. /\ Turn(s) /\ Answered(r) /\ (crossed' = (crossed \/ r.behind # {}) \/ Busy = {s})
    BY <1>1, ReceiveFacts
  <2>2. CASE requests'[u].patch = Nothing
    BY <2>2, NothingIsEmpty
  <2>3. CASE requests'[u].patch # Nothing
    <3>1. requests'[u].step = "reading"
      BY <2>3 DEF Sound, AllFormed, Formed, Types, RequestType, Idle
    <3>2. u # s /\ u \in Busy /\ SameWork(requests'[u], requests[u])
      BY <2>1, <3>1, CleanBeforeTurn
    <3>3. ~crossed /\ r.behind = {}
      BY <2>1, <3>2
    <3>4. s \in requests[u].behind
      <4>1. u \in OnServer /\ s \in OnServer
        BY <2>1, <3>1, <3>2 DEF OnServer, SameWork, Answered
      <4> QED BY <3>2, <3>3, <4>1 DEF Ordered, InOrder
    <3>5. CASE shown /\ DOMAIN page' = DOMAIN page
      BY <3>2, <3>3, <3>5 DEF PatchesFit, SameWork
    <3>6. CASE r.whole /\ DOMAIN page' = DOMAIN r.patch
      BY <3>2, <3>3, <3>4, <3>6 DEF OlderHaveAll, SameWork
    <3> QED BY <1>1, <3>5, <3>6, AnswerDomains
  <2> QED BY <2>2, <2>3
<1>2. ASSUME \A s \in Slots : ~Receive(s) PROVE DOMAIN requests'[u].patch \subseteq DOMAIN page'
  <2>1. shown /\ DOMAIN page' = DOMAIN page
    BY <1>2, OtherDomains
  <2>2. CASE Quiet
    <3>1. ~crossed /\ requests'[u].patch = requests[u].patch
      BY <2>2 DEF Quiet, GoesOn, SameWork
    <3> QED BY <2>1, <3>1 DEF PatchesFit
  <2>3. ASSUME NEW s \in Slots, Turn(s) PROVE DOMAIN requests'[u].patch \subseteq DOMAIN page'
    <3>1. ~crossed
      BY <1>2, <2>3, OtherDomains
    <3>2. requests'[u].patch = Nothing \/ requests'[u].patch = requests[u].patch
      BY <2>3 DEF Turn, GoesOn, SameWork, IsNew, Idle
    <3> QED BY <2>1, <3>1, <3>2, NothingIsEmpty DEF PatchesFit
  <2>4. ASSUME NEW s \in Slots, Arrives(s) \/ Change(s) \/ Read(s)
        PROVE  DOMAIN requests'[u].patch \subseteq DOMAIN page'
    <3>1. Stepped(s)
      BY <2>4, ServerStep
    <3>2. ~crossed
      BY <3>1, AloneOnServer
    <3>3. CASE u # s
      BY <2>1, <3>1, <3>2, <3>3 DEF Stepped, PatchesFit
    <3>4. CASE u = s
      <4>1. CASE Arrives(s)
        <5>1. requests'[s].patch = Nothing
          BY <4>1, ArrivesFacts DEF FoundAs
        <5> QED BY <3>4, <5>1, NothingIsEmpty
      <4>2. CASE Change(s)
        <5>1. requests'[s].patch = Nothing
          BY <4>2, ChangeFacts DEF ChangedAs
        <5> QED BY <3>4, <5>1, NothingIsEmpty
      <4>3. CASE Read(s)
        <5>1. PICK what \in {"group", "items", "column"}, g \in Groups :
                /\ ToSet(requests[s].todo) = ToSet(Tail(requests[s].todo)) \cup {<<what, g>>}
                /\ ReadAs(requests'[s], requests[s], what, g)
          BY <4>3, ReadFacts
        <5>2. what = "items" => g \in DOMAIN stored
          <6>1. s \in Handled
            <7>1. requests[s].step = "reading" /\ ~Answered(requests[s])
              BY <3>1, <4>3, ReadFacts DEF Stepped
            <7> QED BY <7>1, BusyFacts DEF Handled, Sound
          <6> QED BY <3>2, <5>1, <6>1 DEF There, ReadIsThere, Clean
        <5>3. DOMAIN requests[s].patch \subseteq DOMAIN page /\ DOMAIN stored \subseteq DOMAIN page
          BY <2>1, <3>2 DEF PatchesFit, PageHasAll
        <5> QED BY <2>1, <3>4, <5>1, <5>2, <5>3 DEF ReadAs
      <4> QED BY <2>4, <4>1, <4>2, <4>3
    <3> QED BY <3>3, <3>4
  <2> QED BY <2>2, <2>3, <2>4, StepKinds
<1> QED BY <1>1, <1>2

\* The three together.
LEMMA CompleteStays ==
  ASSUME Sound, Sound', Ordered, Next, There, Complete
  PROVE  Complete'
BY WholeStays, OlderStays, PageHasAllStays, PatchesFitStays DEF Complete

-----------------------------------------------------------------------------
(* The row that is waited for comes back.                                  *)

\* The tile of the request in s is among the tiles that were read, or will be.
TileDue(s) ==
  \E g \in Groups :
    \/ g \in DOMAIN requests[s].patch /\ requests[s].tile \in ToSet(requests[s].patch[g])
    \/ /\ <<"items", g>> \in ToSet(requests[s].todo)
       /\ g \in DOMAIN stored /\ requests[s].tile \in ToSet(stored[g])
MovesComeBack ==
  ~crossed => \A s \in Slots :
    requests[s].kind = "move" /\ requests[s].step = "reading" /\ requests[s].result # "failed" =>
      TileDue(s)
\* A move by keys that will be answered brings the row that is to have the focus,
\* unless it was sent to sign in.
KeyIsDue ==
  ~crossed /\ ~turnedAway /\ key # None => \E s \in Slots :
    /\ requests[s].kind = "move" /\ requests[s].keys /\ ~requests[s].gone
    /\ requests[s].tile = key
Awaited == MovesComeBack /\ KeyIsDue

\* What a move that is made does to the store.
LEMMA MoveFacts ==
  ASSUME Sound, NEW s \in Slots, Change(s), requests[s].kind = "move", Result(requests[s]) = "ok",
         NEW dest,
         dest = IF requests[s].group = None THEN GroupOf(requests[s].tile) ELSE requests[s].group
  PROVE  /\ stored' = Moved(stored, requests[s]) /\ DOMAIN stored' = DOMAIN stored
         /\ dest \in DOMAIN stored /\ requests[s].tile \in Rows(stored)
         /\ stored'[dest] = PutIn(Without(stored[dest], requests[s].tile), requests[s].tile, requests[s].at)
         /\ ToSet(stored'[dest]) = ToSet(stored[dest]) \cup {requests[s].tile}
         /\ \A g \in DOMAIN stored : g # dest =>
              /\ stored'[g] = Without(stored[g], requests[s].tile)
              /\ g # GroupOf(requests[s].tile) => stored'[g] = stored[g]
<1>1. PICK m, d : m = requests[s] /\ d = dest
  OBVIOUS
<1>2. stored \in Pages /\ StoredOnce
  BY DEF Sound, Types
<1>3. /\ m.tile \in Tiles /\ m.at \in Nat /\ m.tile \in Rows(stored)
      /\ m.group \in DOMAIN stored \cup {None} /\ stored' = Moved(stored, m)
      /\ d = IF m.group = None THEN GroupOf(m.tile) ELSE m.group
  <2>1. StoredAs(m) /\ m \in RequestType /\ Formed(m)
    BY <1>1, ChangeFacts DEF Sound, Types, AllFormed
  <2> QED BY <1>1, <2>1 DEF StoredAs, Formed, RequestType
<1>4. /\ Moved(stored, m) \in Pages /\ DOMAIN Moved(stored, m) = DOMAIN stored
      /\ d \in DOMAIN stored
      /\ Moved(stored, m)[d] = PutIn(Without(stored[d], m.tile), m.tile, m.at)
      /\ \A g \in DOMAIN stored :
           /\ IsInjective(Moved(stored, m)[g])
           /\ ToSet(Moved(stored, m)[g]) =
                IF g = d THEN ToSet(stored[g]) \cup {m.tile} ELSE ToSet(stored[g]) \ {m.tile}
           /\ g # d => Moved(stored, m)[g] = Without(stored[g], m.tile)
           /\ g # d /\ g # GroupOf(m.tile) => Moved(stored, m)[g] = stored[g]
  BY <1>3, <1>2, MovedFacts, SMTT(60)
<1>6. /\ DOMAIN Moved(stored, m) = DOMAIN stored
      /\ dest \in DOMAIN stored
      /\ Moved(stored, m)[dest] = PutIn(Without(stored[dest], m.tile), m.tile, m.at)
      /\ \A g \in DOMAIN stored :
           /\ ToSet(Moved(stored, m)[g]) =
                IF g = dest THEN ToSet(stored[g]) \cup {m.tile} ELSE ToSet(stored[g]) \ {m.tile}
           /\ g # dest => Moved(stored, m)[g] = Without(stored[g], m.tile)
           /\ g # dest /\ g # GroupOf(m.tile) => Moved(stored, m)[g] = stored[g]
  BY <1>1, <1>4
<1>7. ToSet(Moved(stored, m)[dest]) = ToSet(stored[dest]) \cup {m.tile}
  BY <1>6
<1> QED BY <1>1, <1>3, <1>6, <1>7

\* A move that was made will read the group its tile is in now.
LEMMA ChangedIsDue ==
  ASSUME Sound, Ordered, There, NEW s \in Slots, Change(s), requests[s].kind = "move", Clean(s),
         requests'[s].result # "failed"
  PROVE  TileDue(s)'
<1> DEFINE r == requests[s]
           q == requests'[s]
<1>1. /\ ChangedAs(q, r) /\ StoredAs(r) /\ r.step = "found" /\ r.source \in Groups
      /\ q.result = Result(r) /\ Stepped(s) /\ q.tile = r.tile
  BY ChangeFacts DEF ChangedAs, Stepped
<1>2. /\ r \in RequestType /\ r.tile \in Tiles /\ r.at \in Nat /\ stored \in Pages /\ StoredOnce
      /\ DOMAIN stored \subseteq Groups
  <2>1. r \in RequestType /\ Formed(r) /\ stored \in Pages /\ StoredOnce
    BY DEF Sound, Types, AllFormed
  <2> QED BY <2>1, PageOf DEF Formed, RequestType
<1>3. r.source \in DOMAIN stored /\ r.tile \in ToSet(stored[r.source])
  BY <1>1 DEF There, FoundIsThere
<1>4. r.tile \in Rows(stored) /\ r.group \in DOMAIN stored \cup {None}
  BY <1>1, <1>2, ResultFacts
<1>5. GroupOf(r.tile) = r.source
  BY <1>2, <1>3, <1>4, GroupOfFacts
<1>6. PICK groups : /\ groups = IF r.group = None THEN {r.source} ELSE {r.group, r.source}
                    /\ ToSet(q.todo) = ItemsOf(groups) \cup GroupsOf(groups)
  BY <1>1 DEF ChangedAs
<1>7. \A g \in groups : <<"items", g>> \in ToSet(q.todo)
  BY <1>6 DEF ItemsOf
<1>8. CASE Result(r) = "ok"
  <2>1. PICK dest : dest = IF r.group = None THEN GroupOf(r.tile) ELSE r.group
    OBVIOUS
  <2>2. /\ dest \in DOMAIN stored /\ DOMAIN stored' = DOMAIN stored
        /\ ToSet(stored'[dest]) = ToSet(stored[dest]) \cup {r.tile}
    BY <1>8, <2>1, MoveFacts
  <2>4. dest \in groups
    BY <1>5, <1>6, <2>1
  <2> QED BY <1>1, <1>2, <1>7, <2>2, <2>4 DEF TileDue
<1>9. CASE Result(r) # "ok"
  <2>1. stored' = stored
    BY <1>1, <1>9 DEF StoredAs, server
  <2>2. r.source \in groups
    BY <1>6
  <2> QED BY <1>1, <1>2, <1>3, <1>7, <2>1, <2>2 DEF TileDue
<1> QED BY <1>8, <1>9

\* A move that did not fail keeps its row among what it redraws.
LEMMA MovesComeBackStays ==
  ASSUME Sound, Sound', Ordered, Next, There, MovesComeBack
  PROVE  MovesComeBack'
<1> SUFFICES ASSUME ~crossed', NEW v \in Slots, requests'[v].kind = "move",
                    requests'[v].step = "reading", requests'[v].result # "failed"
             PROVE  TileDue(v)'
  BY DEF MovesComeBack
<1>1. ASSUME ~crossed, SameWork(requests'[v], requests[v]), UNCHANGED server PROVE TileDue(v)'
  <2>1. TileDue(v)
    BY <1>1 DEF MovesComeBack, SameWork
  <2> QED BY <1>1, <2>1 DEF TileDue, SameWork, server
<1>2. CASE Quiet
  BY <1>1, <1>2 DEF Quiet, GoesOn
<1>3. ASSUME NEW s \in Slots, Turn(s) PROVE TileDue(v)'
  <2>1. v # s /\ v \in Busy /\ SameWork(requests'[v], requests[v]) /\ UNCHANGED server
    BY <1>3, CleanBeforeTurn
  <2>2. ~crossed
    BY <1>3, <2>1 DEF Turn
  <2> QED BY <1>1, <2>1, <2>2
<1>4. ASSUME NEW s \in Slots, Arrives(s) \/ Change(s) \/ Read(s) PROVE TileDue(v)'
  <2> DEFINE r == requests[s]
             q == requests'[s]
  <2>1. Stepped(s) /\ ~crossed /\ Clean(s)
    BY <1>4, ServerStep, AloneOnServer DEF Clean
  <2>2. CASE v # s
    <3>1. requests'[v] = requests[v] /\ Answered(requests[v]) /\ Formed(requests[v])
      BY <2>1, <2>2, AloneOnServer DEF Stepped, Sound, AllFormed
    <3>2. requests[v].todo = <<>>
      BY <3>1, AnsweredFacts
    <3>3. TileDue(v)
      BY <2>1, <3>1 DEF MovesComeBack
    <3> QED BY <3>1, <3>2, <3>3, NoReads DEF TileDue
  <2>3. CASE v = s
    <3>1. CASE Arrives(s)
      BY <2>1, <2>3, <3>1, ArrivesFacts DEF FoundAs, Stepped
    <3>2. CASE Change(s)
      BY <2>1, <2>3, <3>2, ChangedIsDue DEF Stepped
    <3>3. CASE Read(s)
      <4>1. PICK what \in {"group", "items", "column"}, g \in Groups :
              /\ ToSet(r.todo) = ToSet(Tail(r.todo)) \cup {<<what, g>>}
              /\ ReadAs(q, r, what, g)
        BY <3>3, ReadFacts
      <4>2. /\ stored' = stored /\ r.step = "reading" /\ r.result # "failed" /\ r.kind = "move" /\ q.tile = r.tile
            /\ ~Answered(r) /\ Formed(r)
        BY <2>1, <2>3, <3>3, ReadFacts DEF server, Stepped, Sound, AllFormed
      <4>3. TileDue(s)
        BY <2>1, <4>2 DEF MovesComeBack
      <4>4. \A h \in DOMAIN r.patch : h \in DOMAIN stored /\ r.patch[h] = stored[h]
        <5>1. s \in Handled
          BY <4>2, BusyFacts DEF Handled, Sound
        <5> QED BY <2>1, <5>1 DEF There, ReadIsCurrent
      <4>5. what # "column"
        BY <4>1, <4>2 DEF Formed
      <4>6. PICK h \in Groups :
              \/ h \in DOMAIN r.patch /\ r.tile \in ToSet(r.patch[h])
              \/ <<"items", h>> \in ToSet(r.todo) /\ h \in DOMAIN stored /\ r.tile \in ToSet(stored[h])
        BY <4>3 DEF TileDue
      <4>7. h \in DOMAIN stored /\ r.tile \in ToSet(stored[h])
        BY <4>4, <4>6
      <4>8. CASE h \in DOMAIN q.patch
        <5>1. q.patch[h] = stored[h]
          BY <4>1, <4>4, <4>5, <4>7, <4>8 DEF ReadAs
        <5> QED BY <2>3, <4>2, <4>7, <4>8, <5>1 DEF TileDue
      <4>9. CASE h \notin DOMAIN q.patch
        <5>1. <<"items", h>> \in ToSet(r.todo) /\ <<what, g>> # <<"items", h>>
          BY <4>1, <4>5, <4>6, <4>9 DEF ReadAs
        <5>2. <<"items", h>> \in ToSet(Tail(r.todo)) /\ (q.todo = Tail(r.todo) \/ q.todo = r.todo)
          BY <4>1, <4>5, <5>1 DEF ReadAs
        <5> QED BY <2>3, <4>1, <4>2, <4>7, <5>2 DEF TileDue
      <4> QED BY <4>8, <4>9
    <3> QED BY <1>4, <3>1, <3>2, <3>3
  <2> QED BY <2>2, <2>3
<1> QED BY <1>2, <1>3, <1>4, StepKinds

\* A move that was answered, and was for the key, brings the row.
LEMMA AnswerIsFresh ==
  ASSUME Sound, Complete, Awaited, ~crossed, NEW s \in Slots, Answered(requests[s]),
         requests[s].kind = "move", requests[s].result # "failed", key = requests[s].tile
  PROVE  Fresh(requests[s])
<1> DEFINE r == requests[s]
<1>1. r \in RequestType /\ Formed(r) /\ page \in Pages /\ (~shown => page = Nothing) /\ r.tile \in Tiles
  BY DEF Sound, Types, AllFormed, CarriedIsHeld, Formed
<1>2. shown
  BY <1>1, EditorAssumption DEF Sound, CarriedIsHeld
<1>3. r.step = "reading" /\ r.todo = <<>>
  BY <1>1, AnsweredFacts
<1>4. PICK g \in Groups : g \in DOMAIN r.patch /\ r.tile \in ToSet(r.patch[g])
  BY <1>3, NoReads DEF Awaited, MovesComeBack, TileDue
<1>5. g \in DOMAIN page
  BY <1>2, <1>4 DEF Complete, PatchesFit
<1>6. ~r.whole
  BY <1>1 DEF Formed
<1>7. /\ ~(r.whole /\ shown) => DOMAIN Patched(r) = DOMAIN page
                                /\ Regions(r) \subseteq DOMAIN page \cap DOMAIN r.patch
      /\ \A h \in DOMAIN Patched(r) :
           \/ h \in Regions(r) /\ h \in DOMAIN r.patch /\ Patched(r)[h] = r.patch[h]
           \/ h \notin Regions(r) /\ h \in DOMAIN page /\ Patched(r)[h] = page[h]
      /\ shown /\ r.result # "failed" => DOMAIN r.patch \cap DOMAIN page \subseteq Regions(r)
  BY <1>1, PatchedFacts
<1>8. g \in Regions(r) /\ g \in DOMAIN Patched(r) /\ Patched(r)[g] = r.patch[g]
  BY <1>2, <1>4, <1>5, <1>6, <1>7
<1>9. PICK D : D = Regions(r) \cap DOMAIN r.patch
  OBVIOUS
<1>10. g \in D /\ r.tile \in ToSet(Patched(r)[g])
  BY <1>4, <1>8, <1>9
<1>11. r.tile \in Rows(Only(Patched(r), D))
  BY <1>10 DEF Rows, Only
<1> QED BY <1>9, <1>11 DEF Fresh

\* The row that is waited for stays on its way.
LEMMA KeyIsDueStays ==
  ASSUME Sound, Sound', Ordered, Next, Complete, Awaited
  PROVE  KeyIsDue'
<1> DEFINE Waits(w) == /\ requests[w].kind = "move" /\ requests[w].keys /\ ~requests[w].gone
                       /\ requests[w].tile = key
<1> SUFFICES ASSUME ~crossed', ~turnedAway', key' # None PROVE \E w \in Slots : Waits(w)'
  BY DEF KeyIsDue
<1>1. ASSUME ~crossed, ~turnedAway, key # None PROVE \E w \in Slots : Waits(w)
  BY <1>1 DEF Awaited, KeyIsDue
\* Nobody who was waited for is disturbed.
<1>2. ASSUME ~crossed, ~turnedAway, key' = key, NEW s,
             \A w \in Slots : w # s /\ requests[w].kind = "move" =>
               /\ requests'[w].kind = "move" /\ requests'[w].keys = requests[w].keys
               /\ requests'[w].gone = requests[w].gone /\ requests'[w].tile = requests[w].tile,
             \A w \in Slots : Waits(w) => w # s
      PROVE  \E w \in Slots : Waits(w)'
  BY <1>1, <1>2
<1>3. CASE Asked
  <2>1. ~crossed /\ ~turnedAway /\ key' = key
    BY <1>3 DEF Asked, browser
  <2>2. PICK s \in Slots : /\ Turn(s) /\ requests[s] = Idle
                           /\ \A u \in Slots \ {s} : requests[u].kind = "move" =>
                                /\ requests'[u].gone = requests[u].gone
                                /\ requests'[u].keys = requests[u].keys
    BY <1>3 DEF Asked
  <2>3. \A w \in Slots : Waits(w) => w # s
    BY <2>2 DEF Idle
  <2> QED BY <1>2, <2>1, <2>2, <2>3 DEF Turn, GoesOn, SameWork
<1>4. CASE requests' = requests /\ key' = key /\ turnedAway' = turnedAway /\ (crossed => crossed')
  BY <1>1, <1>4
<1>5. ASSUME NEW refocus \in BOOLEAN, Drop(refocus) PROVE \E w \in Slots : Waits(w)'
  <2>1. crossed' = crossed /\ turnedAway' = turnedAway /\ key' = IF refocus THEN carried.tile ELSE key
    BY <1>5, DropFacts
  <2>2. PICK s \in Slots :
          /\ Turn(s) /\ requests[s] = Idle /\ IsMoveOf(requests'[s], carried)
          /\ ~requests'[s].gone /\ (refocus => requests'[s].keys)
          /\ \A u \in Slots \ {s} :
               requests'[u].keys = requests[u].keys /\ requests'[u].gone = requests[u].gone
    BY <1>5, DropFacts
  <2>3. CASE refocus
    BY <2>1, <2>2, <2>3 DEF IsMoveOf
  <2>4. CASE ~refocus
    <3>1. \A w \in Slots : Waits(w) => w # s
      BY <2>2 DEF Idle
    <3> QED BY <1>2, <2>1, <2>2, <2>4, <3>1 DEF Turn, GoesOn, SameWork
  <2> QED BY <2>3, <2>4
<1>6. ASSUME NEW s \in Slots, Receive(s) PROVE \E w \in Slots : Waits(w)'
  <2> DEFINE r == requests[s]
  <2>1. Over(s) /\ Answered(r)
    BY <1>6, ReceiveFacts
  <2>2. /\ Redrawn(s)
        /\ crossed' = (crossed \/ r.behind # {})
    BY <1>6, ReceiveFacts, ReplacedFacts
  <2>3. /\ \A u \in Slots \ {s} : requests'[u].keys = requests[u].keys
        /\ key' = IF Fresh(r) THEN None ELSE IF Unanswered(r) THEN KeyAfterFailure(r) ELSE key
        /\ turnedAway' = (turnedAway \/ (r.away /\ r.keys))
    BY <2>2, RedrawnFacts
  <2>4. key' = key /\ ~Fresh(r) /\ (r.result = "failed" => ~(r.kind = "move" /\ r.keys))
    BY <2>3 DEF KeyAfterFailure, Unanswered
  <2>5. \A w \in Slots : Waits(w) => w # s
    BY <2>1, <2>2, <2>4, AnswerIsFresh
  <2>6. ~crossed /\ ~turnedAway /\ \A w \in Slots : w # s =>
          /\ requests'[w].kind = requests[w].kind /\ requests'[w].keys = requests[w].keys
          /\ requests'[w].gone = requests[w].gone /\ requests'[w].tile = requests[w].tile
    BY <2>1, <2>2, <2>3 DEF Over, SameWork
  <2> QED BY <1>2, <2>4, <2>5, <2>6
<1>7. ASSUME NEW s \in Slots, Lose(s) PROVE \E w \in Slots : Waits(w)'
  <2>1. /\ crossed' = crossed /\ turnedAway' = turnedAway /\ key' = KeyAfterFailure(requests[s])
        /\ \A u \in Slots \ {s} : requests'[u].keys = requests[u].keys /\ requests'[u].gone = requests[u].gone
                                  /\ SameWork(requests'[u], requests[u])
    BY <1>7, LoseFacts
  <2>2. key' = key /\ \A w \in Slots : Waits(w) => w # s
    BY <2>1 DEF KeyAfterFailure
  <2> QED BY <1>2, <2>1, <2>2 DEF SameWork
<1>8. ASSUME NEW s \in Slots, GiveUp(s) PROVE \E w \in Slots : Waits(w)'
  <2>1. /\ crossed' = crossed /\ turnedAway' = turnedAway /\ key' = key /\ requests[s].gone
        /\ \A u \in Slots \ {s} : requests'[u].keys = requests[u].keys /\ requests'[u].gone = requests[u].gone
                                  /\ SameWork(requests'[u], requests[u])
    BY <1>8, GiveUpFacts DEF browser
  <2> QED BY <1>2, <2>1 DEF SameWork
<1>9. ASSUME NEW s \in Slots, Arrives(s) \/ Change(s) \/ Read(s) PROVE \E w \in Slots : Waits(w)'
  <2>1. Stepped(s) /\ ~crossed /\ ~turnedAway
    BY <1>9, ServerStep, AloneOnServer DEF Stepped
  <2>2. key' = key /\ \A w \in Slots : requests'[w].kind = requests[w].kind
          /\ requests'[w].keys = requests[w].keys
          /\ requests'[w].gone = requests[w].gone /\ requests'[w].tile = requests[w].tile
    BY <2>1 DEF Stepped, browser
  <2> QED BY <1>1, <2>1, <2>2
<1> QED BY <1>3, <1>4, <1>5, <1>6, <1>7, <1>8, <1>9, Asks, GrabFacts, CarryFacts, CancelFacts DEF Next, Arrives

\* Both together.
LEMMA AwaitedStays ==
  ASSUME Sound, Sound', Ordered, Next, There, Complete, Awaited
  PROVE  Awaited'
BY MovesComeBackStays, KeyIsDueStays DEF Awaited

-----------------------------------------------------------------------------
(* What is on the page is true, or will be redrawn.                        *)

\* What was read of the group g for the request in s is what is stored.
Shows(s, g) ==
  IF g \in DOMAIN stored THEN g \in DOMAIN requests[s].patch /\ requests[s].patch[g] = stored[g]
  ELSE requests[s].whole /\ g \notin DOMAIN requests[s].patch
WillShow(s, g) == WillRead(requests[s], g) \/ Shows(s, g)
\* The request in s will show the group g as it is stored, or fail.
Due(s, g) ==
  \/ /\ requests[s].kind = "move" /\ requests[s].step = "sent"
     /\ requests[s].group = g \/ (g \in DOMAIN stored /\ requests[s].tile \in ToSet(stored[g]))
  \/ /\ requests[s].kind = "move" /\ requests[s].step = "found"
     /\ g \in {requests[s].group, requests[s].source}
  \/ requests[s].step = "reading" /\ (requests[s].result = "failed" \/ WillShow(s, g))
Claims(s, g) == requests[s].whole \/ g \in DOMAIN requests[s].patch
Trusted(s) == (~crossed /\ ~unheard) \/ requests[s].calm
\* What was read is true, unless a request that was handled after it changed it.
PatchesHold ==
  \A s \in Slots :
    requests[s].step = "reading" /\ requests[s].result # "failed" /\ Trusted(s) =>
      \A g \in Groups : Claims(s, g) =>
        WillShow(s, g) \/ \E u \in Slots : s \in requests[u].behind /\ Due(u, g)
PageWillBeTrue ==
  ~crossed /\ ~unheard /\ ~strayed => \A g \in DOMAIN page :
    (g \in DOMAIN stored /\ AtRest[g] = stored[g]) \/ \E s \in Slots : Due(s, g)
Truthful == PatchesHold /\ PageWillBeTrue

\* The group g is as it was.
Kept(g) ==
  /\ g \in DOMAIN stored' <=> g \in DOMAIN stored
  /\ g \in DOMAIN stored => stored'[g] = stored[g]

\* What is due of a request that was not touched stays due.
LEMMA SameDue ==
  ASSUME NEW u \in Slots, NEW g, SameWork(requests'[u], requests[u]), UNCHANGED server
  PROVE  (Due(u, g) <=> Due(u, g)') /\ (WillShow(u, g) <=> WillShow(u, g)') /\ (Claims(u, g) <=> Claims(u, g)')
BY DEF SameWork, server, Due, WillShow, Shows, WillRead, Claims

\* Nothing is due of a slot that is empty.
LEMMA IdleIsNotDue ==
  ASSUME NEW s, requests[s] = Idle, NEW g
  PROVE  ~Due(s, g)
BY DEF Idle, Due

\* Whatever the store's call changes will be read for its answer.
LEMMA ChangeIsRead ==
  ASSUME Sound, Ordered, There, NEW s \in Slots, Change(s), Clean(s), NEW g \in Groups, ~Kept(g)
  PROVE  Due(s, g)'
<1> DEFINE r == requests[s]
           q == requests'[s]
<1>1. /\ ChangedAs(q, r) /\ StoredAs(r) /\ r.step = "found" /\ r.source \in Groups
      /\ q.result = Result(r) /\ q.step = "reading"
      /\ r.kind \in {"move", "add", "delete", "deleteGroup"}
  BY ChangeFacts DEF ChangedAs
<1>2. r \in RequestType /\ Formed(r) /\ stored \in Pages /\ StoredOnce
  BY DEF Sound, Types, AllFormed
<1>3. Result(r) = "ok"
  BY <1>1 DEF StoredAs, server, Kept
<1>4. /\ r.source \in DOMAIN stored
      /\ r.kind \in {"move", "delete"} => r.tile \in ToSet(stored[r.source]) /\ r.tile \in Tiles
  BY <1>1, <1>2 DEF There, FoundIsThere, Formed
<1>5. SUFFICES WillRead(q, g)
  BY <1>1 DEF Due, WillShow, WillRead
<1>6. CASE r.kind = "move"
  <2>1. PICK groups : /\ groups = IF r.group = None THEN {r.source} ELSE {r.group, r.source}
                      /\ ToSet(q.todo) = ItemsOf(groups) \cup GroupsOf(groups)
    BY <1>1, <1>3, <1>6 DEF ChangedAs
  <2>2. PICK dest : dest = IF r.group = None THEN GroupOf(r.tile) ELSE r.group
    OBVIOUS
  <2>3. r.tile \in Rows(stored)
    BY <1>4, <1>6 DEF Rows
  <2>4. GroupOf(r.tile) = r.source
    BY <1>2, <1>4, <1>6, <2>3, GroupOfFacts
  <2>5. /\ DOMAIN stored' = DOMAIN stored
        /\ \A h \in DOMAIN stored : h # dest /\ h # GroupOf(r.tile) => stored'[h] = stored[h]
    BY <1>3, <1>6, <2>2, MoveFacts
  <2>6. g \in groups
    BY <2>1, <2>2, <2>4, <2>5 DEF Kept
  <2> QED BY <2>1, <2>6 DEF WillRead, ItemsOf
<1>7. CASE r.kind = "add"
  <2>1. g = r.source
    <3>1. r.source = r.group /\ stored' = [stored EXCEPT ![r.group] = Append(@, r.tile)]
      BY <1>1, <1>2, <1>3, <1>7 DEF Formed, StoredAs
    <3>2. stored = [h \in DOMAIN stored |-> stored[h]]
      BY <1>2, PageOf
    <3> QED BY <3>1, <3>2 DEF Kept
  <2>2. ToSet(q.todo) = ItemsOf({r.source})
    BY <1>1, <1>3, <1>7 DEF ChangedAs
  <2> QED BY <2>1, <2>2 DEF WillRead, ItemsOf
<1>8. CASE r.kind = "delete"
  <2>1. g = r.source
    <3>1. stored' = Emptied(stored, r.tile)
      BY <1>1, <1>3, <1>8 DEF StoredAs
    <3>2. PICK t \in Tiles : t = r.tile
      BY <1>4, <1>8
    <3>3. /\ DOMAIN Emptied(stored, t) = DOMAIN stored
          /\ \A h \in DOMAIN stored : t \notin ToSet(stored[h]) => Emptied(stored, t)[h] = stored[h]
      BY <1>2, EmptiedFacts
    <3>4. \A h \in DOMAIN stored : h # r.source => t \notin ToSet(stored[h])
      BY <1>2, <1>4, <1>8, <3>2 DEF StoredOnce
    <3> QED BY <3>1, <3>2, <3>3, <3>4 DEF Kept
  <2>2. ToSet(q.todo) = ItemsOf({r.source}) \cup GroupsOf({r.source})
    BY <1>1, <1>3, <1>8 DEF ChangedAs
  <2> QED BY <2>1, <2>2 DEF WillRead, ItemsOf
<1>9. CASE r.kind = "deleteGroup"
  <2>1. q.todo = <<<<"column", r.source>>>>
    BY <1>1, <1>3, <1>9 DEF ChangedAs
  <2>2. ToSet(q.todo) = {<<"column", r.source>>}
    BY <1>1, <2>1, OneRead
  <2> QED BY <1>1, <2>2 DEF WillRead
<1> QED BY <1>1, <1>6, <1>7, <1>8, <1>9

\* What an answer shows, or will, it does after a read of its own.
LEMMA ReadShows ==
  ASSUME Sound, There, NEW s \in Slots, Read(s), Clean(s), NEW g \in Groups, WillShow(s, g)
  PROVE  WillShow(s, g)'
<1> DEFINE r == requests[s]
           q == requests'[s]
<1>1. PICK what \in {"group", "items", "column"}, h \in Groups :
        /\ ToSet(r.todo) = ToSet(Tail(r.todo)) \cup {<<what, h>>}
        /\ ReadAs(q, r, what, h)
  BY ReadFacts
<1>2. stored' = stored /\ r.step = "reading" /\ ~Answered(r) /\ r \in RequestType /\ Formed(r)
  BY ReadFacts DEF server, Stepped, Sound, Types, AllFormed
<1>3. what # "column" => h \in DOMAIN stored
  <2>1. s \in Handled
    BY <1>2, BusyFacts DEF Handled, Sound
  <2> QED BY <1>1, <2>1 DEF There, ReadIsThere
<1>4. CASE Shows(s, g)
  <2>1. CASE g \in DOMAIN stored
    <3>1. g \in DOMAIN r.patch /\ r.patch[g] = stored[g]
      BY <1>4, <2>1 DEF Shows
    <3>2. g \in DOMAIN q.patch /\ q.patch[g] = stored[g]
      BY <1>1, <1>3, <3>1 DEF ReadAs
    <3> QED BY <1>2, <2>1, <3>2 DEF WillShow, Shows
  <2>2. CASE g \notin DOMAIN stored
    <3>1. r.whole /\ g \notin DOMAIN r.patch
      BY <1>4, <2>2 DEF Shows
    <3>2. q.whole /\ g \notin DOMAIN q.patch
      BY <1>1, <1>3, <2>2, <3>1 DEF ReadAs
    <3> QED BY <1>2, <2>2, <3>2 DEF WillShow, Shows
  <2> QED BY <2>1, <2>2
<1>5. CASE WillRead(r, g)
  <2>1. \/ WillRead(q, g)
        \/ what = "items" /\ g = h
        \/ what = "column" /\ g \notin DOMAIN stored /\ r.whole /\ r.patch = Nothing
    BY <1>1, <1>2, <1>5, ReadCovers
  <2>2. CASE WillRead(q, g)
    BY <2>2 DEF WillShow, WillRead
  <2>3. CASE what = "items" /\ g = h
    <3>1. g \in DOMAIN stored /\ g \in DOMAIN q.patch /\ q.patch[g] = stored[g]
      BY <1>1, <1>3, <2>3 DEF ReadAs
    <3> QED BY <1>2, <3>1 DEF WillShow, Shows
  <2>4. CASE what = "column" /\ g \notin DOMAIN stored /\ r.whole /\ r.patch = Nothing
    <3>1. q.whole /\ q.patch = Nothing
      BY <1>1, <2>4 DEF ReadAs
    <3> QED BY <1>2, <2>4, <3>1, NothingIsEmpty DEF WillShow, Shows
  <2> QED BY <2>1, <2>2, <2>3, <2>4
<1> QED BY <1>4, <1>5 DEF WillShow

\* What a request was to show still is to be, after anything the server does,
\* if not by that request then by the one that was handled.
LEMMA DueStays ==
  ASSUME Sound, Ordered, There, NEW s \in Slots, Arrives(s) \/ Change(s) \/ Read(s), Clean(s),
         NEW u \in Slots, NEW g \in Groups, Due(u, g)
  PROVE  Due(u, g)' \/ Due(s, g)'
<1> DEFINE r == requests[s]
           q == requests'[s]
<1>1. Stepped(s) /\ r \in RequestType /\ Formed(r) /\ StoredOnce
  BY ServerStep DEF Sound, Types, AllFormed
<1>2. ~Kept(g) => Due(s, g)'
  <2>1. Arrives(s) \/ Read(s) => stored' = stored
    BY ArrivesFacts, ReadFacts DEF server
  <2> QED BY <2>1, ChangeIsRead DEF Kept
<1>3. CASE u # s /\ Kept(g)
  <2>1. requests'[u] = requests[u]
    BY <1>1, <1>3 DEF Stepped
  <2> QED BY <1>3, <2>1 DEF Kept, Due, WillShow, Shows, WillRead
<1>4. CASE u = s
  <2>1. CASE Arrives(s)
    <3>1. FoundAs(q, r, {v \in Busy : Answered(requests[v])}) /\ r.step = "sent" /\ stored' = stored
      BY <2>1, ArrivesFacts DEF server
    <3>2. r.kind = "move" /\ (r.group = g \/ (g \in DOMAIN stored /\ r.tile \in ToSet(stored[g])))
      BY <1>4, <3>1 DEF Due
    <3>3. \/ q.step = "reading" /\ q.result = "failed"
          \/ /\ q.kind = "move" /\ q.step = "found" /\ q.group = r.group
             /\ q.source \in DOMAIN stored /\ r.tile \in ToSet(stored[q.source])
      BY <3>1, <3>2 DEF FoundAs
    <3>4. g \in DOMAIN stored /\ r.tile \in ToSet(stored[g]) /\ q.source \in DOMAIN stored
            /\ r.tile \in ToSet(stored[q.source]) => g = q.source
      BY <1>1 DEF StoredOnce
    <3> QED BY <1>4, <3>2, <3>3, <3>4 DEF Due
  <2>2. CASE Change(s)
    <3>1. ChangedAs(q, r) /\ r.step = "found" /\ q.step = "reading"
      BY <2>2, ChangeFacts DEF ChangedAs
    <3>2. r.kind = "move" /\ g \in {r.group, r.source}
      BY <1>4, <3>1 DEF Due
    <3>3. CASE q.result = "failed"
      BY <3>1, <3>3 DEF Due
    <3>4. CASE q.result # "failed"
      <4>1. PICK groups : /\ groups = IF r.group = None THEN {r.source} ELSE {r.group, r.source}
                          /\ ToSet(q.todo) = ItemsOf(groups) \cup GroupsOf(groups)
        BY <3>1, <3>2, <3>4 DEF ChangedAs
      <4>2. g \in groups
        BY <3>2, <4>1, EditorAssumption
      <4>3. WillRead(q, g)
        BY <4>1, <4>2 DEF WillRead, ItemsOf
      <4> QED BY <3>1, <4>3 DEF Due, WillShow, WillRead
    <3> QED BY <3>3, <3>4
  <2>3. CASE Read(s)
    <3>1. r.step = "reading" /\ r.result # "failed" /\ q.step = "reading"
      BY <2>3, ReadFacts DEF ReadAs
    <3>2. WillShow(s, g)
      BY <1>4, <3>1 DEF Due
    <3>3. WillShow(s, g)'
      BY <2>3, <3>2, ReadShows
    <3> QED BY <3>1, <3>3 DEF Due
  <2> QED BY <2>1, <2>2, <2>3
<1> QED BY <1>2, <1>3, <1>4

\* What was read stays true, for as long as nobody who was handled later
\* changed it and will say so.
LEMMA PatchesHoldStays ==
  ASSUME Sound, Sound', Ordered, Ordered', Next, There, PatchesHold
  PROVE  PatchesHold'
<1> SUFFICES ASSUME NEW v \in Slots, requests'[v].step = "reading", requests'[v].result # "failed",
                    Trusted(v)', NEW g \in Groups, Claims(v, g)'
             PROVE  WillShow(v, g)' \/ \E u \in Slots : v \in requests'[u].behind /\ Due(u, g)'
  BY DEF PatchesHold
<1>0. \A x \in Slots : \A y \in requests[x].behind :
        /\ y \in Slots /\ y # x /\ y \in Busy /\ Answered(requests[y]) /\ x \in Busy
  BY SlotFacts
\* The slots that hold on to what they had.
<1>1. ASSUME Trusted(v), SameWork(requests'[v], requests[v]), UNCHANGED server,
             \A u \in Slots : v \in requests[u].behind =>
               v \in requests'[u].behind /\ SameWork(requests'[u], requests[u])
      PROVE  WillShow(v, g)' \/ \E u \in Slots : v \in requests'[u].behind /\ Due(u, g)'
  <2>1. requests[v].step = "reading" /\ requests[v].result # "failed" /\ Claims(v, g)
    BY <1>1, SameDue DEF SameWork
  <2>2. CASE WillShow(v, g)
    BY <1>1, <2>2, SameDue
  <2>3. ASSUME NEW u \in Slots, v \in requests[u].behind, Due(u, g)
        PROVE  v \in requests'[u].behind /\ Due(u, g)'
    BY <1>1, <2>3, SameDue
  <2> QED BY <1>1, <2>1, <2>2, <2>3 DEF PatchesHold
<1>2. CASE Quiet
  <2>1. Trusted(v)
    BY <1>2 DEF Quiet, Trusted
  <2> QED BY <1>1, <1>2, <2>1 DEF Quiet, GoesOn
<1>3. ASSUME NEW s \in Slots, Turn(s)
      PROVE  WillShow(v, g)' \/ \E u \in Slots : v \in requests'[u].behind /\ Due(u, g)'
  <2>1. v # s /\ v \in Busy /\ SameWork(requests'[v], requests[v]) /\ UNCHANGED server
    BY <1>3, CleanBeforeTurn
  <2>2. Trusted(v)
    BY <1>3, <2>1 DEF Turn, Trusted
  <2>3. ASSUME v \in requests[s].behind PROVE FALSE
    <3>1. CASE requests'[v].calm
      <4>1. Busy = {v}
        BY <1>3, <2>1, <3>1, SlotFacts DEF Turn
      <4> QED BY <1>0, <2>3, <4>1
    <3>2. CASE ~crossed' /\ ~unheard'
      BY <1>3, <2>1, <2>3, <3>2 DEF Turn
    <3> QED BY <3>1, <3>2 DEF Trusted
  <2>4. ASSUME NEW u \in Slots, v \in requests[u].behind
        PROVE  v \in requests'[u].behind /\ SameWork(requests'[u], requests[u])
    BY <1>3, <2>1, <2>3, <2>4 DEF Turn, GoesOn
  <2> QED BY <1>1, <2>1, <2>2, <2>4
<1>4. ASSUME NEW s \in Slots, Arrives(s) \/ Change(s) \/ Read(s)
      PROVE  WillShow(v, g)' \/ \E u \in Slots : v \in requests'[u].behind /\ Due(u, g)'
  <2> DEFINE r == requests[s]
             q == requests'[s]
  <2>1. /\ Stepped(s) /\ r \in RequestType /\ Formed(r) /\ ~Answered(r)
    BY <1>4, ServerStep DEF Stepped, Sound, Types, AllFormed
  <2>2. CASE v # s
    <3>1. requests'[v] = requests[v] /\ ~requests[v].calm
      BY <2>1, <2>2, AloneOnServer DEF Stepped
    <3>2. ~crossed' /\ ~unheard' /\ ~crossed /\ ~unheard /\ Answered(requests[v])
      BY <2>1, <2>2, <3>1, AloneOnServer DEF Trusted
    <3>3. v \in q.behind
      <4>1. v \in OnServer' /\ s \in OnServer'
        BY <2>1 DEF OnServer, Stepped
      <4>2. v \in requests'[s].behind \/ s \in requests'[v].behind
        BY <2>2, <3>2, <4>1 DEF Ordered, InOrder
      <4>3. s \notin requests'[v].behind
        BY <1>0, <2>1, <3>1
      <4> QED BY <4>2, <4>3
    <3>4. Trusted(v) /\ Clean(s) /\ Claims(v, g)
      BY <3>1, <3>2 DEF Trusted, Clean, Claims
    <3>5. CASE WillShow(v, g)
      <4>1. CASE Kept(g)
        BY <3>1, <3>5, <4>1 DEF Kept, WillShow, Shows, WillRead
      <4>2. CASE ~Kept(g)
        <5>1. Change(s)
          <6>1. Arrives(s) \/ Read(s) => stored' = stored
            BY ArrivesFacts, ReadFacts DEF server
          <6> QED BY <1>4, <4>2, <6>1 DEF Kept
        <5> QED BY <3>3, <3>4, <4>2, <5>1, ChangeIsRead
      <4> QED BY <4>1, <4>2
    <3>6. ASSUME NEW u \in Slots, v \in requests[u].behind, Due(u, g)
          PROVE  \E w \in Slots : v \in requests'[w].behind /\ Due(w, g)'
      <4>1. Due(u, g)' \/ Due(s, g)'
        BY <1>4, <3>4, <3>6, DueStays
      <4>2. v \in requests'[u].behind
        BY <2>1, <3>3, <3>6 DEF Stepped
      <4> QED BY <3>3, <4>1, <4>2
    <3> QED BY <3>1, <3>4, <3>5, <3>6 DEF PatchesHold
  <2>3. CASE v = s
    <3>1. CASE Arrives(s)
      <4>1. /\ stored' = stored /\ FoundAs(q, r, {u \in Busy : Answered(requests[u])})
        BY <3>1, ArrivesFacts DEF server
      <4>2. q.whole /\ q.patch = Nothing /\ ToSet(q.todo) = ItemsOf(DOMAIN stored)
        BY <2>3, <4>1 DEF FoundAs
      <4>3. g \in DOMAIN stored => WillRead(q, g)
        BY <4>2 DEF WillRead, ItemsOf
      <4> QED BY <2>3, <4>1, <4>2, <4>3, NothingIsEmpty DEF WillShow, Shows, WillRead
    <3>2. CASE Change(s)
      <4>1. ChangedAs(q, r) /\ r.source \in Groups
        BY <3>2, ChangeFacts
      <4>2. q.whole
        BY <2>3, <4>1, NothingIsEmpty DEF Claims, ChangedAs
      <4>3. q.todo = <<<<"column", r.source>>>>
        BY <4>1, <4>2 DEF ChangedAs
      <4>4. ToSet(q.todo) = {<<"column", r.source>>}
        BY <4>1, <4>3, OneRead
      <4> QED BY <2>3, <4>1, <4>4 DEF WillShow, WillRead
    <3>3. CASE Read(s)
      <4>1. PICK what \in {"group", "items", "column"}, h \in Groups :
              /\ ToSet(r.todo) = ToSet(Tail(r.todo)) \cup {<<what, h>>}
              /\ ReadAs(q, r, what, h)
        BY <3>3, ReadFacts
      <4>2. stored' = stored /\ r.step = "reading" /\ r.result # "failed"
        BY <3>3, ReadFacts DEF server
      <4>3. Trusted(s) /\ Clean(s)
        BY <2>1, <2>3, AloneOnServer DEF Trusted, Clean, Stepped
      <4>4. CASE Claims(s, g)
        <5>1. ASSUME NEW u \in Slots, s \in requests[u].behind PROVE FALSE
          BY <1>0, <2>1, <5>1
        <5>2. WillShow(s, g)
          BY <4>2, <4>3, <4>4, <5>1 DEF PatchesHold
        <5> QED BY <2>3, <3>3, <4>3, <5>2, ReadShows
      <4>5. CASE ~Claims(s, g)
        <5>1. ~r.whole /\ g \notin DOMAIN r.patch
          BY <4>5 DEF Claims
        <5>2. q.whole \/ g \in DOMAIN q.patch
          BY <2>3 DEF Claims
        <5>3. what = "items" /\ g = h
          BY <4>1, <5>1, <5>2 DEF ReadAs
        <5>4. g \in DOMAIN stored
          <6>1. s \in Handled
            BY <2>1, <4>2, BusyFacts DEF Handled, Sound
          <6> QED BY <4>1, <4>3, <5>3, <6>1 DEF There, ReadIsThere
        <5>5. g \in DOMAIN q.patch /\ q.patch[g] = stored[g]
          BY <4>1, <5>3, <5>4 DEF ReadAs
        <5> QED BY <2>3, <4>2, <5>4, <5>5 DEF WillShow, Shows
      <4> QED BY <4>4, <4>5
    <3> QED BY <1>4, <3>1, <3>2, <3>3
  <2> QED BY <2>2, <2>3
<1> QED BY <1>2, <1>3, <1>4, StepKinds

\* A tile that is let go: a group that would be true if the tile had gone back
\* is true with it, or is one the move is about.
LEMMA LetGoIsTrue ==
  ASSUME Sound, NEW lists \in Pages, NEW c \in CarryType, c.tile \in Tiles,
         ~c.homeless => c.home \in DOMAIN lists /\ c.homeAt <= Len(lists[c.home]),
         ~c.detached => c.group \in DOMAIN lists /\ c.at <= Len(lists[c.group]),
         ~Strays(lists, c), NEW g \in DOMAIN lists, g \in DOMAIN stored, PutBack(lists, c)[g] = stored[g]
  PROVE  \/ Placed(lists, c)[g] = stored[g]
         \/ c.group # c.home /\ g = c.group
         \/ c.tile \in ToSet(stored[g])
<1>1. /\ Placed(lists, c) \in Pages /\ DOMAIN Placed(lists, c) = DOMAIN lists
      /\ c.detached => Placed(lists, c) = lists
      /\ ~c.detached => Placed(lists, c)[c.group] = InsertAt(lists[c.group], c.at + 1, c.tile)
      /\ \A h \in DOMAIN lists : h # c.group => Placed(lists, c)[h] = lists[h]
  BY PlacedFacts
<1>2. /\ PutBack(lists, c) \in Pages /\ DOMAIN PutBack(lists, c) = DOMAIN lists
      /\ c.homeless => PutBack(lists, c) = lists
      /\ ~c.homeless => PutBack(lists, c)[c.home] = InsertAt(lists[c.home], c.homeAt + 1, c.tile)
      /\ \A h \in DOMAIN lists : h # c.home => PutBack(lists, c)[h] = lists[h]
  BY PutBackFacts
<1>3. CASE c.homeless
  <2>1. lists[g] = stored[g]
    BY <1>2, <1>3
  <2>2. c.detached \/ g # c.group => Placed(lists, c)[g] = stored[g]
    BY <1>1, <2>1
  <2>3. ~c.detached /\ g = c.group /\ c.group = c.home => c.tile \in ToSet(stored[g])
    BY <1>3, <2>1 DEF Strays
  <2> QED BY <2>2, <2>3
<1>4. CASE ~c.homeless /\ g # c.home
  <2>1. lists[g] = stored[g]
    BY <1>2, <1>4
  <2> QED BY <1>1, <1>4, <2>1
<1>5. CASE ~c.homeless /\ g = c.home
  <2>1. PICK e, i, list : e \in Tiles /\ e = c.tile /\ i = c.homeAt + 1 /\ list = lists[g]
    OBVIOUS
  <2>2. list \in Seq(Tiles) /\ i \in 1 .. Len(list) + 1
    <3>1. lists[g] \in Seq(Tiles) /\ c.homeAt \in Nat /\ c.homeAt <= Len(lists[g])
      BY <1>5, PageOf DEF CarryType
    <3>2. Len(lists[g]) \in Nat
      BY <3>1, LenProperties
    <3> QED BY <2>1, <3>1, <3>2
  <2>3. ToSet(InsertAt(list, i, e)) = ToSet(list) \cup {e}
    BY <2>1, <2>2, InsertAtHolds
  <2>4. stored[g] = InsertAt(list, i, e)
    BY <1>2, <1>5, <2>1
  <2> QED BY <2>1, <2>3, <2>4
<1> QED BY <1>3, <1>4, <1>5

\* What is in hand after the answer of r, unless it is let go.
StillHeld(r) == IF carried = NoCarry THEN NoCarry ELSE Held(r)

\* The page with the answer to s on it: what is not true is due to another.
LEMMA AnswerIsTrue ==
  ASSUME Sound, Ordered, Complete, Truthful, NEW s \in Slots, Answered(requests[s]), requests[s].kind # "load",
         requests[s].result # "failed", requests[s].behind = {}, ~crossed, ~unheard, ~strayed,
         NEW r, r = requests[s], NEW c, c = StillHeld(r), NEW g \in DOMAIN Patched(r)
  PROVE  \/ g \in DOMAIN stored /\ PutBack(Patched(r), c)[g] = stored[g]
         \/ \E u \in Slots \ {s} : Due(u, g)
<1>1. /\ r \in RequestType /\ Formed(r) /\ page \in Pages /\ (~shown => page = Nothing)
      /\ Answered(r) /\ r.step = "reading"
  BY DEF Sound, Types, AllFormed, CarriedIsHeld, Answered
<1>2. \A h : ~WillRead(r, h)
  BY <1>1, AnsweredFacts
<1>3. /\ Patched(r) \in Pages
      /\ r.whole /\ shown => Patched(r) = r.patch /\ DOMAIN page \subseteq Regions(r)
                             /\ DOMAIN r.patch \subseteq Regions(r)
      /\ ~(r.whole /\ shown) => DOMAIN Patched(r) = DOMAIN page
                                /\ Regions(r) \subseteq DOMAIN page \cap DOMAIN r.patch
      /\ \A h \in DOMAIN Patched(r) :
           \/ h \in Regions(r) /\ h \in DOMAIN r.patch /\ Patched(r)[h] = r.patch[h]
           \/ h \notin Regions(r) /\ h \in DOMAIN page /\ Patched(r)[h] = page[h]
      /\ ~shown => Patched(r) = Nothing
      /\ shown /\ r.result # "failed" => DOMAIN r.patch \cap DOMAIN page \subseteq Regions(r)
  BY <1>1, PatchedFacts
<1>4. shown
  BY <1>3, NothingIsEmpty
<1>5. PICK lists \in Pages : lists = Patched(r)
  BY <1>3
<1>6. c = NoCarry => PutBack(lists, c) = lists
  BY NothingInHand
\* Where the tile in hand would go back to, a group that was not redrawn.
<1>7. ASSUME carried # NoCarry
      PROVE  /\ c \in CarryType /\ c.tile \in Tiles /\ c.home = carried.home /\ c.homeAt = carried.homeAt
             /\ c.tile = carried.tile
             /\ c.homeless <=> carried.homeless \/ carried.home \in Regions(r)
             /\ c.homeless => PutBack(lists, c) = lists
             /\ ~c.homeless => PutBack(lists, c)[c.home] = InsertAt(lists[c.home], c.homeAt + 1, c.tile)
             /\ \A h \in DOMAIN lists : h # c.home => PutBack(lists, c)[h] = lists[h]
  <2>1. c = Held(r)
    BY <1>7 DEF StillHeld
  <2>2. /\ c \in CarryType /\ c.tile \in Tiles /\ c.tile = carried.tile /\ c # NoCarry
        /\ c.group = carried.group /\ c.home = carried.home /\ c.at = carried.at
        /\ c.homeAt = carried.homeAt /\ c.keys = carried.keys
        /\ c.homeless <=> carried.homeless \/ carried.home \in Regions(r)
        /\ c.detached <=> carried.detached \/ carried.group \in Regions(r)
        /\ ~c.homeless => /\ c.home \in DOMAIN Patched(r) /\ Patched(r)[c.home] = page[c.home]
                          /\ c.homeAt <= Len(Patched(r)[c.home])
        /\ ~c.detached => /\ c.group \in DOMAIN Patched(r) /\ c.at <= Len(Patched(r)[c.group])
    BY <1>1, <1>7, <2>1, HeldFacts
  <2>3. ~c.homeless => c.home \in DOMAIN lists /\ c.homeAt <= Len(lists[c.home])
    BY <1>5, <2>2
  <2>4. /\ PutBack(lists, c) \in Pages /\ DOMAIN PutBack(lists, c) = DOMAIN lists
        /\ c.homeless => PutBack(lists, c) = lists
        /\ ~c.homeless => PutBack(lists, c)[c.home] = InsertAt(lists[c.home], c.homeAt + 1, c.tile)
        /\ \A h \in DOMAIN lists : h # c.home => PutBack(lists, c)[h] = lists[h]
    BY <2>2, <2>3, PutBackFacts
  <2> QED BY <2>2, <2>4
<1>8. CASE g \in Regions(r)
  <2>1. g \in DOMAIN r.patch /\ lists[g] = r.patch[g] /\ g \in Groups /\ Claims(s, g)
    <3>1. g \in Groups
      BY <1>3, PageOf
    <3> QED BY <1>3, <1>5, <1>8, <3>1 DEF Claims
  <2>2. Shows(s, g) \/ \E u \in Slots : s \in requests[u].behind /\ Due(u, g)
    <3>1. Trusted(s)
      BY DEF Trusted
    <3>2. WillShow(s, g) \/ \E u \in Slots : s \in requests[u].behind /\ Due(u, g)
      BY <1>1, <2>1, <3>1 DEF Truthful, PatchesHold
    <3> QED BY <1>2, <3>2 DEF WillShow
  <2>3. CASE Shows(s, g)
    <3>1. g \in DOMAIN stored /\ lists[g] = stored[g]
      BY <2>1, <2>3 DEF Shows
    <3>2. PutBack(lists, c)[g] = lists[g]
      BY <1>5, <1>6, <1>7, <1>8 DEF StillHeld
    <3> QED BY <1>5, <3>1, <3>2
  <2> QED BY <2>2, <2>3
<1>9. CASE g \notin Regions(r)
  <2>1. g \in DOMAIN page /\ lists[g] = page[g] /\ ~r.whole
    BY <1>3, <1>4, <1>5, <1>9
  <2>2. (g \in DOMAIN stored /\ AtRest[g] = stored[g]) \/ \E u \in Slots : Due(u, g)
    BY <2>1 DEF Truthful, PageWillBeTrue
  <2>3. CASE g \in DOMAIN stored /\ AtRest[g] = stored[g]
    <3>1. CASE carried = NoCarry
      BY <1>5, <1>6, <2>1, <2>3, <3>1, NothingInHand DEF AtRest, StillHeld
    <3>2. CASE carried # NoCarry
      <4>1. /\ carried \in CarryType /\ carried.tile \in Tiles
            /\ ~carried.homeless => carried.home \in DOMAIN page /\ carried.homeAt <= Len(page[carried.home])
        BY <3>2, InHand DEF Sound, Types, CarriedIsHeld
      <4>2. /\ AtRest \in Pages /\ DOMAIN AtRest = DOMAIN page
            /\ carried.homeless => AtRest = page
            /\ ~carried.homeless => AtRest[carried.home] = InsertAt(page[carried.home], carried.homeAt + 1, carried.tile)
            /\ \A h \in DOMAIN page : h # carried.home => AtRest[h] = page[h]
        BY <1>1, <4>1, PutBackFacts DEF AtRest
      <4>3. PutBack(lists, c)[g] = AtRest[g]
        BY <1>5, <1>7, <1>9, <2>1, <3>2, <4>2
      <4> QED BY <1>5, <2>3, <4>3
    <3> QED BY <3>1, <3>2
  <2>4. ASSUME NEW u \in Slots, Due(u, g) PROVE u # s
    <3>1. ~Shows(s, g)
      BY <1>3, <1>4, <1>9, <2>1 DEF Shows
    <3> QED BY <1>1, <1>2, <2>4, <3>1 DEF Due, WillShow
  <2> QED BY <2>2, <2>3, <2>4
<1> QED BY <1>8, <1>9

\* A group on the page stays true, or due to be redrawn.
LEMMA PageWillBeTrueStays ==
  ASSUME Sound, Sound', Ordered, Next, There, Complete, Truthful
  PROVE  PageWillBeTrue'
<1> SUFFICES ASSUME ~crossed', ~unheard', ~strayed', NEW g \in DOMAIN page'
             PROVE  (g \in DOMAIN stored' /\ AtRest'[g] = stored'[g]) \/ \E u \in Slots : Due(u, g)'
  BY DEF PageWillBeTrue
<1>1. ASSUME ~crossed, ~unheard, ~strayed, g \in DOMAIN page
      PROVE  (g \in DOMAIN stored /\ AtRest[g] = stored[g]) \/ \E u \in Slots : Due(u, g)
  BY <1>1 DEF Truthful, PageWillBeTrue
<1>2. CASE Asked
  <2>1. /\ ~crossed /\ ~unheard /\ ~strayed /\ page' = page /\ AtRest' = AtRest
    BY <1>2 DEF Asked, browser, AtRest
  <2>2. PICK s \in Slots : Turn(s) /\ requests[s] = Idle
    BY <1>2 DEF Asked
  <2>3. ASSUME NEW u \in Slots, Due(u, g) PROVE Due(u, g)'
    <3>1. u # s
      BY <2>2, <2>3, IdleIsNotDue
    <3>2. SameWork(requests'[u], requests[u]) /\ UNCHANGED server
      BY <2>2, <3>1 DEF Turn, GoesOn
    <3> QED BY <2>3, <3>2, SameDue
  <2>4. stored' = stored
    BY <2>2 DEF Turn, server
  <2> QED BY <1>1, <2>1, <2>3, <2>4
\* In hand, the tile is one that may yet go back.
<1>3. CASE /\ requests' = requests /\ UNCHANGED server /\ DOMAIN page' = DOMAIN page /\ AtRest' = AtRest
           /\ (crossed => crossed') /\ UNCHANGED <<strayed, unheard>>
  <2>1. ASSUME NEW u \in Slots, Due(u, g) PROVE Due(u, g)'
    <3>1. SameWork(requests'[u], requests[u])
      BY <1>3 DEF SameWork
    <3> QED BY <1>3, <2>1, <3>1, SameDue
  <2>2. stored' = stored /\ g \in DOMAIN page
    BY <1>3 DEF server
  <2> QED BY <1>1, <1>3, <2>1, <2>2
<1>4. ASSUME NEW h \in DOMAIN page, NEW keys \in BOOLEAN, NEW k \in DOMAIN page[h], Grab(h, k, keys)
      PROVE  (g \in DOMAIN stored' /\ AtRest'[g] = stored'[g]) \/ \E u \in Slots : Due(u, g)'
  <2>1. /\ Quiet /\ requests' = requests /\ DOMAIN page' = DOMAIN page /\ AtRest' = page /\ carried = NoCarry
        /\ UNCHANGED <<crossed, strayed, unheard, turnedAway>>
    BY <1>4, GrabFacts
  <2>2. AtRest = page
    BY <2>1, NothingInHand DEF AtRest
  <2> QED BY <1>3, <2>1, <2>2 DEF Quiet
<1>5. ASSUME NEW h \in DOMAIN page, NEW at \in 0 .. Len(page[h]), Carry(h, at)
      PROVE  (g \in DOMAIN stored' /\ AtRest'[g] = stored'[g]) \/ \E u \in Slots : Due(u, g)'
  <2>1. /\ Quiet /\ requests' = requests /\ page' = page /\ AtRest' = AtRest
        /\ UNCHANGED strayed /\ (crossed => crossed')
    BY <1>5, CarryFacts
  <2>2. unheard' = unheard
    BY <1>5 DEF Carry
  <2> QED BY <1>3, <2>1, <2>2 DEF Quiet
<1>6. CASE Cancel
  <2>1. /\ Quiet /\ requests' = requests /\ DOMAIN page' = DOMAIN page /\ AtRest' = AtRest
        /\ UNCHANGED <<crossed, strayed, unheard, turnedAway>>
    BY <1>6, CancelFacts
  <2> QED BY <1>3, <2>1 DEF Quiet
<1>7. ASSUME NEW refocus \in BOOLEAN, Drop(refocus)
      PROVE  (g \in DOMAIN stored' /\ AtRest'[g] = stored'[g]) \/ \E u \in Slots : Due(u, g)'
  <2>1. /\ carried # NoCarry /\ carried' = NoCarry
        /\ page' = Placed(page, carried) /\ DOMAIN page' = DOMAIN page
        /\ UNCHANGED <<shown, crossed, unheard, turnedAway>> /\ strayed' = (strayed \/ Strays(page, carried))
    BY <1>7, DropFacts
  <2>2. PICK s \in Slots : /\ Turn(s) /\ requests[s] = Idle /\ IsMoveOf(requests'[s], carried)
    BY <1>7, DropFacts
  <2>3. stored' = stored
    BY <2>2 DEF Turn, server
  <2>4. AtRest' = page'
    BY <2>1, NothingInHand DEF AtRest
  <2>5. ASSUME NEW u \in Slots, Due(u, g) PROVE Due(u, g)'
    <3>1. u # s
      BY <2>2, <2>5, IdleIsNotDue
    <3>2. SameWork(requests'[u], requests[u]) /\ UNCHANGED server
      BY <2>2, <3>1 DEF Turn, GoesOn
    <3> QED BY <2>5, <3>2, SameDue
  <2>6. CASE g \in DOMAIN stored /\ AtRest[g] = stored[g]
    <3>1. /\ carried \in CarryType /\ carried.tile \in Tiles /\ page \in Pages
          /\ ~carried.homeless => carried.home \in DOMAIN page /\ carried.homeAt <= Len(page[carried.home])
          /\ ~carried.detached => carried.group \in DOMAIN page /\ carried.at <= Len(page[carried.group])
      BY <2>1, InHand DEF Sound, Types, CarriedIsHeld
    <3>2. ~Strays(page, carried) /\ g \in DOMAIN page /\ PutBack(page, carried)[g] = stored[g]
      BY <2>1, <2>6 DEF AtRest
    <3>3. \/ Placed(page, carried)[g] = stored[g]
          \/ carried.group # carried.home /\ g = carried.group
          \/ carried.tile \in ToSet(stored[g])
      BY <2>6, <3>1, <3>2, LetGoIsTrue
    <3>4. (carried.group # carried.home /\ g = carried.group) \/ carried.tile \in ToSet(stored[g]) => Due(s, g)'
      BY <2>2, <2>3, <2>6 DEF Due, IsMoveOf
    <3> QED BY <2>1, <2>3, <2>4, <2>6, <3>3, <3>4
  <2> QED BY <1>1, <2>1, <2>5, <2>6
<1>8. ASSUME NEW s \in Slots, Receive(s)
      PROVE  (g \in DOMAIN stored' /\ AtRest'[g] = stored'[g]) \/ \E u \in Slots : Due(u, g)'
  <2> DEFINE r == requests[s]
  <2>1. /\ Over(s) /\ Turn(s) /\ Answered(r)
        /\ \/ crossed' = (crossed \/ r.behind # {}) /\ unheard' = (unheard \/ r.result = "failed")
           \/ Loaded(r) /\ r.calm /\ Busy = {s}
        /\ \/ Redrawn(s) /\ (r.kind = "move" \/ r.result # "failed") /\ r.kind # "load"
              /\ crossed' = (crossed \/ r.behind # {}) /\ unheard' = (unheard \/ r.result = "failed")
           \/ Replaced(s) /\ (~Loaded(r) => r.result = "failed")
    BY <1>8, ReceiveFacts
  <2>2. /\ r \in RequestType /\ Formed(r) /\ page \in Pages /\ (~shown => page = Nothing)
    BY DEF Sound, Types, AllFormed, CarriedIsHeld
  <2>3. stored' = stored
    BY <2>1 DEF Turn, server
  <2>4. ASSUME NEW u \in Slots, u # s, Due(u, g) PROVE Due(u, g)'
    <3>1. SameWork(requests'[u], requests[u]) /\ UNCHANGED server
      BY <2>1, <2>4 DEF Turn, GoesOn
    <3> QED BY <2>4, <3>1, SameDue
  <2>5. CASE Redrawn(s) /\ r.kind # "load" /\ crossed' = (crossed \/ r.behind # {})
             /\ unheard' = (unheard \/ r.result = "failed")
    <3>1. PICK c : c = Held(r)
      OBVIOUS
    <3>2. /\ page' \in Pages /\ DOMAIN page' = DOMAIN Patched(r)
          /\ \/ /\ carried = NoCarry /\ carried' = NoCarry /\ page' = Patched(r)
                /\ requests'[s] = Idle /\ UNCHANGED strayed
             \/ /\ carried # NoCarry /\ carried' = c /\ page' = Patched(r)
                /\ requests'[s] = Idle /\ UNCHANGED strayed
             \/ /\ carried # NoCarry /\ carried' = NoCarry /\ page' = Placed(Patched(r), c)
                /\ IsMoveOf(requests'[s], c)
                /\ strayed' = (strayed \/ Strays(Patched(r), c))
      BY <2>5, <3>1, RedrawnFacts
    <3>3. ~crossed /\ ~unheard /\ ~strayed /\ r.behind = {} /\ r.result # "failed"
      <4>1. {crossed, unheard, strayed} \subseteq BOOLEAN
        BY DEF Sound, Types
      <4>2. ~crossed /\ ~unheard /\ r.behind = {} /\ r.result # "failed"
        BY <2>5, <4>1
      <4>3. ~strayed
        BY <3>2, <4>1
      <4> QED BY <4>2, <4>3
    <3>4. g \in DOMAIN Patched(r) /\ Patched(r) \in Pages
      BY <2>2, <3>2, PatchedFacts
    <3>9. PICK d : d = StillHeld(r)
      OBVIOUS
    <3>6. \/ g \in DOMAIN stored /\ PutBack(Patched(r), d)[g] = stored[g]
          \/ \E u \in Slots \ {s} : Due(u, g)
      <4>1. PICK q : q = requests[s]
        OBVIOUS
      <4>2. /\ Answered(requests[s]) /\ requests[s].kind # "load" /\ requests[s].result # "failed"
            /\ requests[s].behind = {} /\ ~crossed /\ ~unheard /\ ~strayed
        BY <2>1, <2>5, <3>3
      <4>3. d = StillHeld(q)
        BY <3>9, <4>1
      <4>4. g \in DOMAIN Patched(q)
        BY <3>4, <4>1
      <4>5. \/ g \in DOMAIN stored /\ PutBack(Patched(q), d)[g] = stored[g]
            \/ \E u \in Slots \ {s} : Due(u, g)
        BY <4>1, <4>2, <4>3, <4>4, AnswerIsTrue, SMTT(30)
      <4> QED BY <4>1, <4>5
    <3>5. CASE carried = NoCarry /\ carried' = NoCarry /\ page' = Patched(r)
      <4>1. AtRest' = PutBack(Patched(r), d)
        BY <3>5, <3>9 DEF AtRest, StillHeld
      <4> QED BY <2>3, <2>4, <3>6, <4>1
    <3>7. CASE carried # NoCarry /\ carried' = c /\ page' = Patched(r)
      <4>1. AtRest' = PutBack(Patched(r), c)
        BY <3>7 DEF AtRest
      <4> QED BY <2>3, <2>4, <3>1, <3>6, <3>7, <3>9, <4>1 DEF StillHeld
    <3>8. CASE /\ carried # NoCarry /\ carried' = NoCarry /\ page' = Placed(Patched(r), c)
               /\ IsMoveOf(requests'[s], c)
               /\ strayed' = (strayed \/ Strays(Patched(r), c))
      <4>1. AtRest' = page' /\ ~Strays(Patched(r), c)
        BY <3>8, NothingInHand DEF AtRest
      <4>2. CASE g \in DOMAIN stored /\ PutBack(Patched(r), c)[g] = stored[g]
        <5>1. /\ c \in CarryType /\ c.tile \in Tiles /\ c.tile = carried.tile /\ c # NoCarry
              /\ c.group = carried.group /\ c.home = carried.home /\ c.at = carried.at
              /\ c.homeAt = carried.homeAt /\ c.keys = carried.keys
              /\ c.homeless <=> carried.homeless \/ carried.home \in Regions(r)
              /\ c.detached <=> carried.detached \/ carried.group \in Regions(r)
              /\ ~c.homeless => /\ c.home \in DOMAIN Patched(r) /\ Patched(r)[c.home] = page[c.home]
                                /\ c.homeAt <= Len(Patched(r)[c.home])
              /\ ~c.detached => /\ c.group \in DOMAIN Patched(r) /\ c.at <= Len(Patched(r)[c.group])
          BY <2>2, <3>1, <3>8, HeldFacts
        <5>2. PICK lists \in Pages : lists = Patched(r)
          BY <3>4
        <5>3. /\ ~c.homeless => c.home \in DOMAIN lists /\ c.homeAt <= Len(lists[c.home])
              /\ ~c.detached => c.group \in DOMAIN lists /\ c.at <= Len(lists[c.group])
              /\ ~Strays(lists, c) /\ g \in DOMAIN lists /\ PutBack(lists, c)[g] = stored[g]
          BY <3>4, <4>1, <4>2, <5>1, <5>2
        <5>4. \/ Placed(lists, c)[g] = stored[g]
              \/ c.group # c.home /\ g = c.group
              \/ c.tile \in ToSet(stored[g])
          BY <4>2, <5>1, <5>3, LetGoIsTrue
        <5>5. (c.group # c.home /\ g = c.group) \/ c.tile \in ToSet(stored[g]) => Due(s, g)'
          BY <2>3, <3>8, <4>2 DEF Due, IsMoveOf
        <5> QED BY <2>3, <3>8, <4>1, <4>2, <5>2, <5>4, <5>5
      <4> QED BY <2>4, <3>1, <3>6, <3>8, <3>9, <4>2 DEF StillHeld
    <3> QED BY <3>2, <3>5, <3>7, <3>8
  <2>6. CASE Replaced(s) /\ Loaded(r)
    <3>1. page' = r.patch /\ carried' = NoCarry
      BY <2>6, ReplacedFacts
    <3>2. AtRest' = r.patch
      BY <3>1, NothingInHand DEF AtRest
    <3>3. r.step = "reading" /\ r.whole /\ r.result # "failed" /\ ~WillRead(r, g)
      BY <2>1, <2>2, <2>6, AnsweredFacts DEF Formed, Loaded
    <3>4. Trusted(s)
      BY <2>1 DEF Trusted
    <3>5. g \in Groups /\ Claims(s, g) /\ g \in DOMAIN r.patch
      <4>1. r.patch \in Pages
        BY <2>2 DEF RequestType
      <4> QED BY <3>1, <3>3, <4>1, PageOf DEF Claims
    <3>6. WillShow(s, g) \/ \E u \in Slots : s \in requests[u].behind /\ Due(u, g)
      BY <3>3, <3>4, <3>5 DEF Truthful, PatchesHold
    <3>7. CASE WillShow(s, g)
      <4>1. Shows(s, g)
        BY <3>3, <3>7 DEF WillShow
      <4>2. g \in DOMAIN stored /\ r.patch[g] = stored[g]
        BY <3>5, <4>1 DEF Shows
      <4> QED BY <2>3, <3>2, <4>2
    <3>8. ASSUME NEW u \in Slots, s \in requests[u].behind, Due(u, g) PROVE Due(u, g)'
      <4>1. u # s
        BY <3>8, SlotFacts
      <4> QED BY <2>4, <3>8, <4>1
    <3> QED BY <3>6, <3>7, <3>8
  <2>7. CASE Replaced(s) /\ r.result = "failed"
    BY <2>1, <2>7 DEF Loaded
  <2> QED BY <2>1, <2>5, <2>6, <2>7
<1>9. ASSUME NEW s \in Slots, Lose(s) \/ GiveUp(s) PROVE FALSE
  BY <1>9, LoseFacts, GiveUpFacts
<1>10. ASSUME NEW s \in Slots, Arrives(s) \/ Change(s) \/ Read(s)
       PROVE  (g \in DOMAIN stored' /\ AtRest'[g] = stored'[g]) \/ \E u \in Slots : Due(u, g)'
  <2>1. Stepped(s)
    BY <1>10, ServerStep
  <2>2. /\ ~crossed /\ ~unheard /\ ~strayed /\ g \in DOMAIN page /\ AtRest' = AtRest /\ Clean(s)
    BY <2>1, AloneOnServer DEF Stepped, browser, AtRest, Clean
  <2>3. g \in Groups
    BY <2>2, PageOf DEF Sound, Types
  <2>4. CASE g \in DOMAIN stored /\ AtRest[g] = stored[g]
    <3>1. CASE Kept(g)
      BY <2>2, <2>4, <3>1 DEF Kept
    <3>2. CASE ~Kept(g)
      <4>1. Arrives(s) \/ Read(s) => stored' = stored
        BY ArrivesFacts, ReadFacts DEF server
      <4>2. Change(s)
        BY <1>10, <3>2, <4>1 DEF Kept
      <4> QED BY <2>2, <2>3, <3>2, <4>2, ChangeIsRead
    <3> QED BY <3>1, <3>2
  <2>5. ASSUME NEW u \in Slots, Due(u, g) PROVE \E w \in Slots : Due(w, g)'
    BY <1>10, <2>2, <2>3, <2>5, DueStays
  <2> QED BY <1>1, <2>2, <2>4, <2>5
<1> QED BY <1>2, <1>4, <1>5, <1>6, <1>7, <1>8, <1>9, <1>10, Asks DEF Next, Arrives

\* So do the answers and the page together.
LEMMA TruthfulStays ==
  ASSUME Sound, Sound', Ordered, Ordered', Next, There, Complete, Truthful
  PROVE  Truthful'
BY PatchesHoldStays, PageWillBeTrueStays DEF Truthful

\* With nothing under way and nothing in hand, what will be true is.
LEMMA QuietPageIsTrue ==
  ASSUME Sound, Complete, Truthful
  PROVE  PageIsTrue
<1> SUFFICES ASSUME Busy = {}, carried = NoCarry, shown, ~crossed, ~strayed, ~unheard
             PROVE  page = stored
  BY DEF PageIsTrue
<1>1. \A u \in Slots : requests[u] = Idle
  BY DEF Busy
<1>2. AtRest = page
  BY NothingInHand DEF AtRest
<1>3. \A g \in DOMAIN page : g \in DOMAIN stored /\ page[g] = stored[g]
  BY <1>1, <1>2, IdleIsNotDue DEF Truthful, PageWillBeTrue
<1>4. DOMAIN page = DOMAIN stored
  BY <1>3 DEF Complete, PageHasAll
<1>5. page = [g \in DOMAIN page |-> page[g]] /\ stored = [g \in DOMAIN stored |-> stored[g]]
  BY PageOf DEF Sound, Types
<1>6. [g \in DOMAIN page |-> page[g]] = [g \in DOMAIN stored |-> stored[g]]
  BY <1>3, <1>4
<1> QED BY <1>5, <1>6

-----------------------------------------------------------------------------
(* A move made on a page that was true leaves the page as it is.           *)

CalmMovesAreTrue ==
  \A s \in Slots : requests[s].calm /\ requests[s].kind = "move" =>
    /\ ~carried.homeless /\ ~carried.detached
    /\ requests[s].step \in {"sent", "found"} =>
         requests[s].tile \in Rows(stored) /\ AtRest = Moved(stored, requests[s])
    /\ requests[s].step = "reading" /\ requests[s].result = "ok" => AtRest = stored

\* A row that was put in and is taken out again.
LEMMA InAndOut ==
  ASSUME NEW list \in Seq(Tiles), NEW i \in 1 .. Len(list) + 1, NEW t \in Tiles,
         NEW in, in = InsertAt(list, i, t), IsInjective(in)
  PROVE  Without(in, t) = list /\ t \in ToSet(in)
<1>1. /\ in \in Seq(Tiles) /\ Len(in) = Len(list) + 1 /\ in[i] = t
  BY InsertAtFacts
<1>2. i \in 1 .. Len(in) /\ DOMAIN in = 1 .. Len(in)
  BY <1>1
<1>3. \A k \in 1 .. Len(in) : in[k] = t => Without(in, t) = RemoveAt(in, k)
  BY <1>1, WithoutFacts
<1>4. Without(in, t) = RemoveAt(in, i)
  BY <1>1, <1>2, <1>3
<1>5. RemoveAt(InsertAt(list, i, t), i) = list
  BY TakeItOut
<1>6. t \in ToSet(in)
  BY <1>1, <1>2 DEF ToSet
<1> QED BY <1>4, <1>5, <1>6

\* The server's index is the page's: what the store does with the move of the
\* tile in hand is what the page did.
LEMMA MovedIsPlaced ==
  ASSUME Sound, carried # NoCarry, Calm(carried), NEW q \in RequestType, IsMoveOf(q, carried)
  PROVE  q.tile \in Rows(stored) /\ Placed(page, carried) = Moved(stored, q)
<1> DEFINE c == carried
<1>1. /\ c \in CarryType /\ c.tile \in Tiles /\ page \in Pages /\ stored \in Pages /\ StoredOnce
      /\ ~c.homeless /\ ~c.detached /\ PutBack(page, c) = stored
      /\ c.home \in DOMAIN page /\ c.homeAt <= Len(page[c.home]) /\ c.homeAt \in Nat
      /\ c.group \in DOMAIN page /\ c.at <= Len(page[c.group]) /\ c.at \in Nat
      /\ c.group \in Groups
  BY InHand DEF Sound, Types, CarriedIsHeld, Calm, CarryType
<1>2. q.tile = c.tile /\ q.at = c.at /\ q.group = IF c.group = c.home THEN None ELSE c.group
  BY DEF IsMoveOf
<1>13. PICK t, home, at, homeAt, group :
         /\ t = c.tile /\ home = c.home /\ at = c.at /\ homeAt = c.homeAt /\ group = c.group
  OBVIOUS
<1>3. /\ t = c.tile /\ home = c.home /\ at = c.at /\ homeAt = c.homeAt /\ group = c.group
      /\ t \in Tiles /\ at \in Nat /\ homeAt \in Nat
  BY <1>1, <1>13
<1>4. /\ DOMAIN stored = DOMAIN page
      /\ stored[home] = InsertAt(page[home], homeAt + 1, t)
      /\ \A h \in DOMAIN page : h # home => stored[h] = page[h]
  <2>1. /\ PutBack(page, c) \in Pages /\ DOMAIN PutBack(page, c) = DOMAIN page
        /\ c.homeless => PutBack(page, c) = page
        /\ ~c.homeless => PutBack(page, c)[c.home] = InsertAt(page[c.home], c.homeAt + 1, c.tile)
        /\ \A h \in DOMAIN page : h # c.home => PutBack(page, c)[h] = page[h]
    BY <1>1, PutBackFacts
  <2> QED BY <1>1, <1>3, <2>1
<1>5. /\ \A g \in DOMAIN page : page[g] \in Seq(Tiles) /\ Len(page[g]) \in Nat
      /\ home \in DOMAIN page /\ homeAt + 1 \in 1 .. Len(page[home]) + 1
      /\ group \in DOMAIN page /\ at <= Len(page[group]) /\ group # None
  <2>1. \A g \in DOMAIN page : page[g] \in Seq(Tiles) /\ Len(page[g]) \in Nat
    BY <1>1, PageOf
  <2>2. group # None
    BY <1>1, <1>3, EditorAssumption
  <2>3. home \in DOMAIN page /\ homeAt <= Len(page[home])
    BY <1>1, <1>3
  <2>4. homeAt + 1 \in 1 .. Len(page[home]) + 1
    BY <1>3, <2>1, <2>3
  <2> QED BY <1>1, <1>3, <2>1, <2>2, <2>3, <2>4
<1>6. Without(stored[home], t) = page[home] /\ t \in ToSet(stored[home])
  <2>1. PICK list, in : list = page[home] /\ in = stored[home]
    OBVIOUS
  <2>2. list \in Seq(Tiles) /\ homeAt + 1 \in 1 .. Len(list) + 1 /\ in = InsertAt(list, homeAt + 1, t) /\ IsInjective(in)
    BY <1>1, <1>4, <1>5, <2>1 DEF StoredOnce
  <2>4. PICK i : i = homeAt + 1
    OBVIOUS
  <2>3. Without(in, t) = list /\ t \in ToSet(in)
    BY <1>3, <2>2, <2>4, InAndOut
  <2> QED BY <2>1, <2>3
<1>7. t \in Rows(stored)
  BY <1>4, <1>5, <1>6 DEF Rows
<1>8. GroupOf(t) = home
  BY <1>1, <1>4, <1>5, <1>6, <1>7, GroupOfFacts
<1>9. Emptied(stored, t) = page
  <2>1. /\ DOMAIN Emptied(stored, t) = DOMAIN stored
        /\ \A g \in DOMAIN stored :
             /\ Emptied(stored, t)[g] = Without(stored[g], t)
             /\ t \notin ToSet(stored[g]) => Emptied(stored, t)[g] = stored[g]
    BY <1>1, <1>3, EmptiedFacts
  <2>2. \A g \in DOMAIN stored : g # home => t \notin ToSet(stored[g])
    BY <1>1, <1>4, <1>5, <1>6 DEF StoredOnce
  <2>3. \A g \in DOMAIN page : Without(stored[g], t) = page[g]
    BY <1>4, <1>6, <2>1, <2>2
  <2>4. page = [g \in DOMAIN page |-> page[g]]
    BY <1>1, PageOf
  <2>5. Emptied(stored, t) = [g \in DOMAIN page |-> Without(stored[g], t)]
    BY <1>4 DEF Emptied
  <2> QED BY <2>3, <2>4, <2>5
<1>10. PutIn(page[group], t, at) = InsertAt(page[group], at + 1, t)
  <2>1. PICK list \in Seq(Tiles) : list = page[group]
    BY <1>5
  <2>3. t \in Tiles /\ at \in Nat
    BY <1>3
  <2>2. at <= Len(list) => PutIn(list, t, at) = InsertAt(list, at + 1, t)
    BY <2>3 DEF PutIn
  <2> QED BY <1>5, <2>1, <2>2
<1>11. Moved(stored, q) = [page EXCEPT ![group] = PutIn(page[group], t, at)]
  <2>1. (IF q.group = None THEN GroupOf(q.tile) ELSE q.group) = group
    BY <1>2, <1>3, <1>5, <1>8
  <2>2. q.tile = t /\ q.at = at
    BY <1>2, <1>3
  <2> QED BY <1>9, <2>1, <2>2 DEF Moved
<1>12. Placed(page, c) = [page EXCEPT ![group] = InsertAt(page[group], at + 1, t)]
  BY <1>1, <1>3 DEF Placed
<1> QED BY <1>2, <1>3, <1>7, <1>10, <1>11, <1>12

\* What a move would do does not change while the store does not.
LEMMA SameMove ==
  ASSUME NEW v, stored' = stored, requests'[v].tile = requests[v].tile,
         requests'[v].group = requests[v].group, requests'[v].at = requests[v].at
  PROVE  Moved(stored, requests[v])' = Moved(stored, requests[v])
BY DEF Moved, GroupOf, Emptied

\* A calm move keeps agreeing with the page until its answer is read.
LEMMA CalmMovesStay ==
  ASSUME Sound, Sound', Ordered, Next, CalmMovesAreTrue
  PROVE  CalmMovesAreTrue'
<1> DEFINE Goal(v) ==
             /\ ~carried'.homeless /\ ~carried'.detached
             /\ requests'[v].step \in {"sent", "found"} =>
                  requests'[v].tile \in Rows(stored)' /\ AtRest' = Moved(stored, requests[v])'
             /\ requests'[v].step = "reading" /\ requests'[v].result = "ok" => AtRest' = stored'
<1> SUFFICES ASSUME NEW v \in Slots, requests'[v].calm, requests'[v].kind = "move" PROVE Goal(v)
  BY DEF CalmMovesAreTrue
<1> HIDE DEF Goal
<1>1. ASSUME ~carried'.homeless, ~carried'.detached, AtRest' = AtRest, UNCHANGED server,
             requests[v].calm, SameWork(requests'[v], requests[v])
      PROVE  Goal(v)
  <2>1. requests[v].kind = "move" /\ stored' = stored /\ requests'[v].step = requests[v].step
        /\ requests'[v].result = requests[v].result /\ requests'[v].tile = requests[v].tile
    BY <1>1 DEF SameWork, server
  <2>2. Moved(stored, requests[v])' = Moved(stored, requests[v]) /\ Rows(stored)' = Rows(stored)
    BY <1>1, <2>1, SameMove DEF SameWork, Rows
  <2> QED BY <1>1, <2>1, <2>2 DEF CalmMovesAreTrue, Goal
<1>2. requests[v].calm /\ requests[v].kind = "move" => ~carried.homeless /\ ~carried.detached
  BY DEF CalmMovesAreTrue
<1>3. ~NoCarry.homeless /\ ~NoCarry.detached
  BY DEF NoCarry
<1>4. CASE Asked
  <2>1. PICK s \in Slots : requests'[s].kind # "move" /\ \A u \in Slots : ~requests'[u].calm \/ u = s
    BY <1>4 DEF Asked
  <2> QED BY <2>1
<1>5. ASSUME NEW h \in DOMAIN page, NEW keys \in BOOLEAN, NEW k \in DOMAIN page[h], Grab(h, k, keys)
      PROVE  Goal(v)
  <2>1. /\ Quiet /\ requests' = requests /\ AtRest' = page /\ carried = NoCarry
        /\ ~carried'.homeless /\ ~carried'.detached
    BY <1>5, GrabFacts
  <2>2. AtRest = page
    BY <2>1, NothingInHand DEF AtRest
  <2> QED BY <1>1, <2>1, <2>2 DEF Quiet, GoesOn
<1>6. ASSUME NEW h \in DOMAIN page, NEW at \in 0 .. Len(page[h]), Carry(h, at) PROVE Goal(v)
  <2>1. /\ Quiet /\ requests' = requests /\ AtRest' = AtRest
        /\ carried'.homeless = carried.homeless /\ ~carried'.detached
    BY <1>6, CarryFacts
  <2> QED BY <1>1, <1>2, <2>1 DEF Quiet, GoesOn, SameWork
<1>7. CASE Cancel
  <2>1. /\ Quiet /\ requests' = requests /\ AtRest' = AtRest /\ carried' = NoCarry
    BY <1>7, CancelFacts
  <2> QED BY <1>1, <1>3, <2>1 DEF Quiet, GoesOn
<1>8. ASSUME NEW refocus \in BOOLEAN, Drop(refocus) PROVE Goal(v)
  <2>1. carried # NoCarry /\ carried' = NoCarry /\ page' = Placed(page, carried)
    BY <1>8, DropFacts
  <2>2. PICK s \in Slots :
          /\ Turn(s) /\ IsMoveOf(requests'[s], carried)
          /\ requests'[s].calm => Calm(carried)
          /\ \A u \in Slots \ {s} : ~requests'[u].calm
    BY <1>8, DropFacts
  <2>3. v = s /\ stored' = stored /\ Calm(carried) /\ requests'[v] \in RequestType
    BY <2>2 DEF Turn, server, Sound, Types
  <2>4. AtRest' = page'
    BY <2>1, NothingInHand DEF AtRest
  <2>5. PICK q \in RequestType : q = requests'[v]
    BY <2>3
  <2>6. q.tile \in Rows(stored) /\ Placed(page, carried) = Moved(stored, q)
    BY <2>1, <2>2, <2>3, <2>5, MovedIsPlaced
  <2>7. q.step = "sent"
    BY <2>2, <2>3, <2>5 DEF IsMoveOf
  <2>8. Moved(stored, requests[v])' = Moved(stored, q) /\ Rows(stored)' = Rows(stored)
    BY <2>3, <2>5 DEF Moved, GroupOf, Emptied, Rows
  <2> QED BY <1>3, <2>1, <2>3, <2>4, <2>5, <2>6, <2>7, <2>8 DEF Goal
<1>9. ASSUME NEW s \in Slots, Receive(s) PROVE FALSE
  <2>1. Over(s) /\ Answered(requests[s])
    BY <1>9, ReceiveFacts
  <2>2. s \in Busy
    BY <2>1, BusyFacts DEF Sound
  <2>3. v # s /\ requests[v].calm
    BY <2>1 DEF Over
  <2> QED BY <2>2, <2>3, SlotFacts
<1>10. ASSUME NEW s \in Slots, Lose(s) \/ GiveUp(s) PROVE Goal(v)
  <2>1. UNCHANGED <<page, carried>> /\ (Quiet \/ (Turn(s) /\ requests'[s] = Idle))
    BY <1>10, LoseFacts, GiveUpFacts DEF browser
  <2>2. /\ AtRest' = AtRest
        /\ ~Idle.calm
    BY <2>1, IdleIsFormed DEF AtRest
  <2>3. UNCHANGED server /\ requests[v].calm /\ SameWork(requests'[v], requests[v])
    BY <2>1, <2>2 DEF Quiet, Turn, GoesOn
  <2> QED BY <1>1, <1>2, <2>1, <2>2, <2>3 DEF SameWork
<1>11. ASSUME NEW s \in Slots, Arrives(s) \/ Change(s) \/ Read(s) PROVE Goal(v)
  <2> DEFINE r == requests[s]
             q == requests'[s]
  <2>1. Stepped(s)
    BY <1>11, ServerStep
  <2>2. v = s
    BY <2>1, AloneOnServer DEF Stepped
  <2>3. /\ AtRest' = AtRest /\ carried' = carried /\ r.calm /\ r.kind = "move"
        /\ q.tile = r.tile /\ q.group = r.group /\ q.at = r.at
    BY <2>1, <2>2 DEF Stepped, browser, AtRest
  <2>4. /\ ~carried.homeless /\ ~carried.detached
        /\ r.step \in {"sent", "found"} => r.tile \in Rows(stored) /\ AtRest = Moved(stored, r)
        /\ r.step = "reading" /\ r.result = "ok" => AtRest = stored
    BY <2>3 DEF CalmMovesAreTrue
  <2>5. stored' = stored => Moved(stored, requests[s])' = Moved(stored, r) /\ Rows(stored)' = Rows(stored)
    BY <2>3, SameMove DEF Rows
  <2>6. CASE Arrives(s)
    <3>1. FoundAs(q, r, {u \in Busy : Answered(requests[u])}) /\ r.step = "sent" /\ stored' = stored
      BY <2>6, ArrivesFacts DEF server
    <3>2. q.step = "found" \/ (q.step = "reading" /\ q.result = "failed")
      BY <2>3, <3>1 DEF FoundAs
    <3> QED BY <2>2, <2>3, <2>4, <2>5, <3>1, <3>2 DEF Goal
  <2>7. CASE Change(s)
    <3>1. ChangedAs(q, r) /\ StoredAs(r) /\ r.step = "found" /\ q.step = "reading" /\ q.result = Result(r)
      BY <2>7, ChangeFacts DEF ChangedAs
    <3>2. q.result = "ok" => stored' = Moved(stored, r)
      BY <2>3, <3>1 DEF StoredAs
    <3> QED BY <2>2, <2>3, <2>4, <3>1, <3>2 DEF Goal
  <2>8. CASE Read(s)
    <3>1. stored' = stored /\ r.step = "reading"
      BY <2>8, ReadFacts DEF server
    <3>2. q.step = "reading" /\ (q.result = r.result \/ q.result = "failed")
      BY <2>8, ReadFacts DEF ReadAs
    <3> QED BY <2>2, <2>3, <2>4, <3>1, <3>2 DEF Goal
  <2> QED BY <1>11, <2>6, <2>7, <2>8
<1> QED BY <1>4, <1>5, <1>6, <1>7, <1>8, <1>9, <1>10, <1>11, Asks DEF Next, Arrives

-----------------------------------------------------------------------------
(* The whole invariant, and what it says of the program.                   *)

IInv == Sound /\ Ordered /\ There /\ Complete /\ Awaited /\ Truthful /\ CalmMovesAreTrue

\* It holds of a page that has just been opened: nothing is under way, and the
\* page shows what is stored.
LEMMA InitIInv == Init => IInv
<1> SUFFICES ASSUME Init PROVE IInv
  OBVIOUS
<1> USE DEF Init
<1>1. \A s \in Slots : requests[s] = Idle
  OBVIOUS
<1>2. /\ \A s \in Slots : /\ requests[s].kind = "none" /\ requests[s].step = "idle" /\ requests[s].todo = <<>>
                          /\ requests[s].patch = Nothing /\ ~requests[s].whole /\ requests[s].behind = {}
                          /\ ~requests[s].gone /\ ~requests[s].calm
      /\ carried = NoCarry /\ ~carried.homeless /\ ~carried.detached
  BY <1>1 DEF Idle, NoCarry
<1>3. Busy = {} /\ Handled = {} /\ OnServer = {}
  BY <1>1, <1>2 DEF Busy, Handled, OnServer
<1>4. AtRest = page /\ page = stored
  BY NothingInHand DEF AtRest
<1>5. Types
  <2>1. Stocked \in Pages
    BY EditorAssumption, IsAPage
  <2>2. requests \in [Slots -> RequestType] /\ carried \in CarryType
    BY IdleTyped
  <2>3. 0 \in 0 .. MaxActs
    BY EditorAssumption
  <2> QED BY <2>1, <2>2, <2>3 DEF Types
<1>6. Sound
  <2>1. AllFormed
    BY <1>1, IdleIsFormed DEF AllFormed
  <2>2. CarriedIsHeld
    BY DEF CarriedIsHeld
  <2>3. StoredOnce
    BY EditorAssumption DEF StoredOnce
  <2>4. NewIsNew
    BY <1>2 DEF NewIsNew
  <2> QED BY <1>5, <2>1, <2>2, <2>3, <2>4 DEF Sound
<1>7. Ordered
  BY <1>2, <1>3 DEF Ordered, CalmIsAlone, OneAtATime, InOrder, GoneIsUnheard
<1>8. There
  BY <1>2, <1>3 DEF There, FoundIsThere, ReadIsThere, ReadIsCurrent
<1>9. Complete
  BY <1>2, <1>4, NothingIsEmpty DEF Complete, WholeIsWhole, PageHasAll, OlderHaveAll, PatchesFit
<1>10. Awaited
  BY <1>2 DEF Awaited, MovesComeBack, KeyIsDue
<1>11. Truthful
  BY <1>2, <1>4 DEF Truthful, PatchesHold, PageWillBeTrue
<1>12. CalmMovesAreTrue
  BY <1>2 DEF CalmMovesAreTrue
<1> QED BY <1>6, <1>7, <1>8, <1>9, <1>10, <1>11, <1>12 DEF IInv

\* And stays true, whatever is done.
LEMMA NextIInv == IInv /\ [Next]_vars => IInv'
<1> SUFFICES ASSUME IInv, [Next]_vars PROVE IInv'
  OBVIOUS
<1>1. CASE Next
  <2>1. Sound /\ Ordered /\ There /\ Complete /\ Awaited /\ Truthful /\ CalmMovesAreTrue
    BY DEF IInv
  <2>2. Sound'
    BY <1>1, <2>1, SoundStays
  <2>3. Ordered'
    BY <1>1, <2>1, <2>2, OrderedStays
  <2>4. There'
    BY <1>1, <2>1, <2>2, ThereStays
  <2>5. Complete'
    BY <1>1, <2>1, <2>2, CompleteStays
  <2>6. Awaited'
    BY <1>1, <2>1, <2>2, AwaitedStays
  <2>7. Truthful'
    BY <1>1, <2>1, <2>2, <2>3, TruthfulStays
  <2>8. CalmMovesAreTrue'
    BY <1>1, <2>1, <2>2, CalmMovesStay
  <2> QED BY <2>2, <2>3, <2>4, <2>5, <2>6, <2>7, <2>8 DEF IInv
<1>2. CASE UNCHANGED vars
  <2>1. /\ stored' = stored /\ unborn' = unborn /\ page' = page /\ shown' = shown /\ carried' = carried
        /\ key' = key /\ requests' = requests /\ acts' = acts /\ crossed' = crossed
        /\ strayed' = strayed /\ unheard' = unheard /\ turnedAway' = turnedAway
    BY <1>2 DEF vars, server, browser, history
  <2>2. /\ Rows(stored)' = Rows(stored) /\ Rows(page)' = Rows(page) /\ Busy' = Busy /\ Handled' = Handled
        /\ AtRest' = AtRest
        /\ \A s \in Slots : Moved(stored, requests[s])' = Moved(stored, requests[s])
    BY <2>1 DEF Rows, Busy, Handled, Answered, AtRest, PutBack, Moved, Emptied, GroupOf
  <2>3. Sound'
    BY <2>1, <2>2 DEF IInv, Sound, Types, AllFormed, Formed, CarriedIsHeld, StoredOnce, NewIsNew
  <2>4. Ordered'
    <3>1. OnServer' = OnServer /\ \A s \in Slots : Answered(requests[s])' = Answered(requests[s])
      BY <2>1 DEF OnServer, Answered
    <3>2. \A s \in Slots : \A u \in requests[s].behind : u \in Slots
      BY DEF IInv, Sound, Types, RequestType
    <3>3. CalmIsAlone' /\ OneAtATime' /\ GoneIsUnheard'
      BY <2>1, <2>2 DEF IInv, Ordered, CalmIsAlone, OneAtATime, GoneIsUnheard
    <3>4. InOrder'
      BY <2>1, <3>1, <3>2 DEF IInv, Ordered, InOrder, Answered
    <3> QED BY <3>3, <3>4 DEF Ordered
  <2>5. There'
    BY <2>1, <2>2 DEF IInv, There, FoundIsThere, ReadIsThere, ReadIsCurrent, Clean
  <2>6. Complete'
    BY <2>1, <2>2 DEF IInv, Complete, WholeIsWhole, PageHasAll, OlderHaveAll, PatchesFit
  <2>7. Awaited'
    BY <2>1, <2>2 DEF IInv, Awaited, MovesComeBack, TileDue, KeyIsDue
  <2>8. Truthful'
    <3>1. PatchesHold /\ PageWillBeTrue
      BY DEF IInv, Truthful
    <3>2. \A s \in Slots : \A g : /\ Due(s, g)' <=> Due(s, g)
                                  /\ WillShow(s, g)' <=> WillShow(s, g)
                                  /\ Claims(s, g)' <=> Claims(s, g)
      BY <2>1 DEF Due, WillShow, Shows, WillRead, Claims
    <3>3. \A s \in Slots : Trusted(s)' <=> Trusted(s)
      BY <2>1 DEF Trusted
    <3>4. PatchesHold'
      BY <2>1, <3>1, <3>2, <3>3 DEF PatchesHold
    <3>5. PageWillBeTrue'
      BY <2>1, <2>2, <3>1, <3>2 DEF PageWillBeTrue
    <3> QED BY <3>4, <3>5 DEF Truthful
  <2>9. CalmMovesAreTrue'
    BY <2>1, <2>2 DEF IInv, CalmMovesAreTrue
  <2> QED BY <2>3, <2>4, <2>5, <2>6, <2>7, <2>8, <2>9 DEF IInv
<1> QED BY <1>1, <1>2

\* The invariant holds in every state that is reached.
THEOREM AlwaysIInv == Spec => []IInv
<1>1. Init => IInv
  BY InitIInv
<1>2. IInv /\ [Next]_vars => IInv'
  BY NextIInv
<1> QED BY <1>1, <1>2, PTL DEF Spec

\* However the requests of a tile's move, its edit and its removal interleave,
\* what is stored and what the page holds keep their types, and a tile is stored
\* once and in one group (TypeOK).
THEOREM TypeCorrect == Spec => []TypeOK
<1>1. IInv => TypeOK
  <2> SUFFICES ASSUME IInv PROVE TypeOK
    OBVIOUS
  <2>1. Types /\ StoredOnce /\ NewIsNew
    BY DEF IInv, Sound
  <2>2. /\ DOMAIN stored \subseteq Groups /\ DOMAIN page \subseteq Groups
        /\ \A g \in DOMAIN page : page[g] \in Seq(Tiles)
        /\ \A g \in DOMAIN stored : stored[g] \in Seq(Tiles)
    BY <2>1, PageOf DEF Types
  <2>3. carried.tile \in Tiles \cup {None} /\ \A s \in Slots : requests[s].result \in {"ok", "refused", "failed"}
    BY <2>1 DEF Types, CarryType, RequestType
  <2> QED BY <2>1, <2>2, <2>3 DEF TypeOK, Types, StoredOnce, NewIsNew
<1> QED BY <1>1, AlwaysIInv, PTL

\* Once everything is answered no key lies in wait for a row, unless answers
\* crossed or a move by keys found the session over (KeyIsSpent).
THEOREM KeysAreSpent == Spec => []KeyIsSpent
<1>1. IInv => KeyIsSpent
  <2> SUFFICES ASSUME IInv, Busy = {}, ~crossed, ~turnedAway, key # None PROVE FALSE
    BY DEF KeyIsSpent
  <2>1. PICK s \in Slots : requests[s].kind = "move"
    BY DEF IInv, Awaited, KeyIsDue
  <2>2. requests[s] = Idle
    BY DEF Busy
  <2> QED BY <2>1, <2>2 DEF Idle
<1> QED BY <1>1, AlwaysIInv, PTL

\* With nothing under way or in hand the page shows what is stored, unless
\* answers crossed, a request was not heard of again, or a tile strayed
\* (PageIsTrue).
THEOREM PageBecomesTrue == Spec => []PageIsTrue
<1>1. IInv => PageIsTrue
  BY QuietPageIsTrue DEF IInv
<1> QED BY <1>1, AlwaysIInv, PTL

\* The answer to a move that was made on a true page, alone, moves no row
\* (DropsStay).
THEOREM DropsAlwaysStay == Spec => DropsStay
<1>1. IInv /\ [Next]_vars => [\A s \in Slots : Agrees(s) => page' = page]_vars
  <2> SUFFICES ASSUME IInv, Next, NEW s \in Slots, Agrees(s) PROVE page' = page
    OBVIOUS
  <2> DEFINE r == requests[s]
  <2>1. Sound /\ Ordered /\ Complete /\ Truthful /\ CalmMovesAreTrue
    BY DEF IInv
  <2>2. /\ r.kind = "move" /\ r.calm /\ r.result = "ok" /\ Answered(r)
        /\ carried = NoCarry /\ shown /\ ~crossed /\ ~unheard /\ requests' # requests
    BY DEF Agrees
  <2>3. Busy = {s}
    BY <2>1, <2>2, SlotFacts
  <2>4. CASE Asked
    BY <2>4 DEF Asked, browser
  <2>5. ASSUME NEW g \in DOMAIN page, NEW keys \in BOOLEAN, NEW k \in DOMAIN page[g], Grab(g, k, keys)
        PROVE  FALSE
    BY <2>1, <2>2, <2>5, GrabFacts
  <2>6. ASSUME NEW g \in DOMAIN page, NEW at \in 0 .. Len(page[g]), Carry(g, at) PROVE FALSE
    BY <2>1, <2>2, <2>6, CarryFacts
  <2>7. ASSUME NEW refocus \in BOOLEAN, Drop(refocus) PROVE FALSE
    BY <2>1, <2>2, <2>7, DropFacts
  <2>8. CASE Cancel
    BY <2>1, <2>2, <2>8, CancelFacts
  <2>9. ASSUME NEW u \in Slots, Lose(u) \/ GiveUp(u) PROVE page' = page
    BY <2>1, <2>9, LoseFacts, GiveUpFacts DEF browser
  <2>10. ASSUME NEW u \in Slots, Arrives(u) \/ Change(u) \/ Read(u) PROVE page' = page
    BY <2>1, <2>10, ServerStep DEF Stepped, browser
  <2>11. ASSUME NEW u \in Slots, Receive(u) PROVE page' = page
    <3>1. u = s
      <4>1. Answered(requests[u])
        BY <2>1, <2>11, ReceiveFacts
      <4>2. u \in Busy
        BY <2>1, <4>1, BusyFacts DEF Sound
      <4> QED BY <2>3, <4>2
    <3>2. Redrawn(s)
      BY <2>1, <2>2, <2>11, <3>1, ReceiveFacts DEF Loaded
    <3>3. page' = Patched(r)
      BY <2>1, <2>2, <3>2, RedrawnFacts
    <3>4. r \in RequestType /\ Formed(r) /\ page \in Pages /\ stored \in Pages /\ (~shown => page = Nothing)
      BY <2>1 DEF Sound, Types, AllFormed, CarriedIsHeld
    <3>5. r.step = "reading" /\ ~r.whole /\ \A g : ~WillRead(r, g)
      BY <2>2, <3>4, AnsweredFacts DEF Formed
    <3>6. page = stored
      BY <2>1, <2>2, <3>5, NothingInHand DEF CalmMovesAreTrue, AtRest
    <3>7. /\ Patched(r) \in Pages
          /\ ~(r.whole /\ shown) => DOMAIN Patched(r) = DOMAIN page
                                    /\ Regions(r) \subseteq DOMAIN page \cap DOMAIN r.patch
          /\ \A g \in DOMAIN Patched(r) :
               \/ g \in Regions(r) /\ g \in DOMAIN r.patch /\ Patched(r)[g] = r.patch[g]
               \/ g \notin Regions(r) /\ g \in DOMAIN page /\ Patched(r)[g] = page[g]
      BY <3>4, PatchedFacts
    <3>8. ASSUME NEW g \in DOMAIN page, g \in DOMAIN r.patch PROVE r.patch[g] = stored[g]
      <4>1. g \in Groups /\ Claims(s, g) /\ Trusted(s)
        BY <2>2, <3>4, <3>8, PageOf DEF Claims, Trusted
      <4>2. \A v \in Slots : s \notin requests[v].behind
        BY <2>1, <2>3, SlotFacts
      <4>3. WillShow(s, g)
        BY <2>1, <2>2, <3>5, <4>1, <4>2 DEF Truthful, PatchesHold
      <4> QED BY <3>5, <3>6, <3>8, <4>3 DEF WillShow, Shows
    <3>9. \A g \in DOMAIN page : Patched(r)[g] = page[g]
      BY <3>5, <3>6, <3>7, <3>8
    <3>10. DOMAIN Patched(r) = DOMAIN page
      BY <3>5, <3>7
    <3>11. page = [g \in DOMAIN page |-> page[g]]
      BY <3>4, PageOf
    <3>12. Patched(r) = [g \in DOMAIN Patched(r) |-> Patched(r)[g]]
      BY <3>7, PageOf
    <3>13. [g \in DOMAIN Patched(r) |-> Patched(r)[g]] = [g \in DOMAIN page |-> page[g]]
      BY <3>9, <3>10
    <3> QED BY <3>3, <3>11, <3>12, <3>13
  <2> QED BY <2>1, <2>4, <2>5, <2>6, <2>7, <2>8, <2>9, <2>10, <2>11, Asks DEF Next, Arrives
<1> QED BY <1>1, AlwaysIInv, PTL DEF Spec, DropsStay
=============================================================================
