--------------------------- MODULE MemeReadersProofs ---------------------------
(****************************************************************************)
(* For any library, page size and number of readers, a walk through the     *)
(* pages handles each meme once and leaves none out, a search finds every   *)
(* match, an export breaks off only at a meme that is being deleted, and a  *)
(* random meme is found.                                                    *)
(****************************************************************************)
EXTENDS MemeReaders, FiniteSetTheorems, WellFoundedInduction, TLAPS

-----------------------------------------------------------------------------
(* Finite sets under a strict order *)

\* A set of numbers has a least one.
LEMMA LeastNumber ==
  ASSUME NEW S \in SUBSET Nat, S # {}
  PROVE  \E x \in S : \A y \in S : x <= y
<1> DEFINE less == {ss \in Nat \X Nat : ss[1] < ss[2]}
<1>1. IsWellFoundedOn(less, Nat)
  BY NatLessThanWellFounded, Zenon DEF OpToRel
<1>2. PICK x \in S : \A y \in S : ~(<<y, x>> \in less)
  <2> HIDE DEF less
  <2> QED BY <1>1, WFMin, Zenon
<1>3. \A y \in S : x <= y
  <2> TAKE y \in S
  <2>1. x \in Nat /\ y \in Nat
    OBVIOUS
  <2>2. ~(y < x)
    BY <1>2, <2>1, Zenon
  <2> QED BY <2>1, <2>2
<1> QED BY <1>3

StrictOrder(R, S) ==
  /\ \A x \in S : <<x, x>> \notin R
  /\ \A x, y, z \in S : <<x, y>> \in R /\ <<y, z>> \in R => <<x, z>> \in R

\* A finite set that is not empty has a last element.
LEMMA LastElement ==
  ASSUME NEW S, IsFiniteSet(S), S # {}, NEW R, StrictOrder(R, S)
  PROVE  \E x \in S : \A y \in S : <<x, y>> \notin R
<1> DEFINE Last(Q) == \E x \in Q : \A y \in Q : <<x, y>> \notin R
           Bad == {n \in Nat : \E Q \in SUBSET S : Q # {} /\ Cardinality(Q) = n /\ ~Last(Q)}
<1>1. SUFFICES ASSUME ~Last(S) PROVE FALSE
  OBVIOUS
<1>2. Cardinality(S) \in Bad
  BY <1>1, FS_CardinalityType
<1>3. PICK n \in Bad : \A k \in Bad : n <= k
  BY <1>2, LeastNumber
<1>4. PICK Q \in SUBSET S : Q # {} /\ Cardinality(Q) = n /\ ~Last(Q)
  OBVIOUS
<1>5. IsFiniteSet(Q) /\ n \in Nat
  BY FS_Subset
<1>6. PICK x \in Q : TRUE
  BY <1>4
<1> DEFINE T == Q \ {x}
<1>7. IsFiniteSet(T) /\ Cardinality(T) = n - 1 /\ n - 1 \in Nat
  <2>1. IsFiniteSet(T) /\ Cardinality(T) = n - 1
    BY <1>4, <1>5, <1>6, FS_RemoveElement
  <2> QED BY <2>1, FS_CardinalityType
<1>8. T # {}
  BY <1>4, <1>6 DEF StrictOrder
<1>9. Last(T)
  <2>1. n - 1 \notin Bad
    BY <1>3, <1>5
  <2> QED BY <1>7, <1>8, <2>1
<1>10. PICK y \in T : \A z \in T : <<y, z>> \notin R
  BY <1>9
<1>11. <<y, x>> \in R
  BY <1>4, <1>10
<1>12. PICK z \in Q : <<x, z>> \in R
  BY <1>4, <1>6
<1>13. z \in T
  BY <1>6, <1>12 DEF StrictOrder
<1>14. <<y, z>> \in R
  BY <1>6, <1>11, <1>12 DEF StrictOrder
<1> QED BY <1>10, <1>13, <1>14

\* A finite set has the first `size` elements of it.
LEMMA FirstElements ==
  ASSUME NEW S, IsFiniteSet(S), NEW R, StrictOrder(R, S),
         NEW size \in Nat, size <= Cardinality(S)
  PROVE  \E P \in SUBSET S : /\ Cardinality(P) = size
                             /\ \A m \in P, k \in S \ P : <<k, m>> \notin R
<1> DEFINE First_(P) == \A m \in P, k \in S \ P : <<k, m>> \notin R
           Lacking == {n \in Nat : n <= Cardinality(S) /\
                         ~\E P \in SUBSET S : Cardinality(P) = n /\ First_(P)}
<1>0. Cardinality(S) \in Nat
  BY FS_CardinalityType
<1>1. SUFFICES ASSUME size \in Lacking PROVE FALSE
  OBVIOUS
<1>2. PICK n \in Lacking : \A k \in Lacking : n <= k
  BY <1>1, LeastNumber
<1>3. n # 0
  BY <1>2, FS_EmptySet
<1>4. n - 1 \in Nat /\ n - 1 \notin Lacking /\ n - 1 < Cardinality(S)
  BY <1>0, <1>2, <1>3
<1>5. PICK P \in SUBSET S : Cardinality(P) = n - 1 /\ First_(P)
  BY <1>0, <1>4
<1> DEFINE T == S \ P
           Reverse == {rr \in S \X S : <<rr[2], rr[1]>> \in R}
<1>6. IsFiniteSet(P) /\ IsFiniteSet(T)
  BY FS_Subset
<1>7. T # {}
  BY <1>4, <1>5
<1>8. StrictOrder(Reverse, T)
  BY DEF StrictOrder
<1>9. PICK x \in T : \A y \in T : <<x, y>> \notin Reverse
  <2> HIDE DEF Reverse, T
  <2> QED BY <1>6, <1>7, <1>8, LastElement
<1>10. \A y \in T : <<y, x>> \notin R
  BY <1>9
<1> DEFINE Q == P \cup {x}
<1>11. Cardinality(Q) = n /\ Q \in SUBSET S
  <2>1. x \notin P /\ x \in S
    BY <1>9
  <2>2. Cardinality(Q) = Cardinality(P) + 1
    BY <1>6, <2>1, FS_AddElement
  <2> QED BY <1>4, <1>5, <2>1, <2>2
<1>12. First_(Q)
  BY <1>5, <1>10
<1> QED BY <1>2, <1>11, <1>12

-----------------------------------------------------------------------------
(* Pages *)

\* The order of the hits.
Sorted(hits, sort, order) ==
  {ab \in hits \X hits : Precedes(sort[ab[1]], sort[ab[2]], order)}

\* A page is a beginning of the hits; only the last one is not full.
LEMMA PageFacts ==
  ASSUME NEW hits, IsFiniteSet(hits), NEW sort, NEW order, NEW size \in Nat \ {0},
         StrictOrder(Sorted(hits, sort, order), hits),
         NEW P \in Pages(hits, sort, order, size)
  PROVE  /\ P \subseteq hits /\ IsFiniteSet(P) /\ Cardinality(P) <= size
         /\ Cardinality(P) < size => P = hits
         /\ P = {} => hits = {} /\ extractSortKey(P, sort, order) = NoKey
         /\ \A m \in P, k \in hits \ P : ~Precedes(sort[k], sort[m], order)
         /\ P # {} => \E p \in P :
              /\ extractSortKey(P, sort, order) = sort[p]
              /\ \A m \in P : ~Precedes(sort[p], sort[m], order)
<1>1. /\ P \in SUBSET hits
      /\ Cardinality(P) = IF Cardinality(hits) < size THEN Cardinality(hits) ELSE size
      /\ \A m \in P, k \in hits \ P : ~Precedes(sort[k], sort[m], order)
  BY DEF Pages
<1>2. IsFiniteSet(P) /\ Cardinality(P) \in Nat /\ Cardinality(hits) \in Nat
  BY <1>1, FS_Subset, FS_CardinalityType
<1>3. Cardinality(P) < size => P = hits
  BY <1>1, <1>2, FS_Subset
<1>4. P = {} => hits = {}
  BY <1>1, <1>2, FS_EmptySet
<1>5. ASSUME P # {}
      PROVE  \E p \in P : /\ extractSortKey(P, sort, order) = sort[p]
                          /\ \A m \in P : ~Precedes(sort[p], sort[m], order)
  <2> DEFINE R == Sorted(hits, sort, order)
  <2>1. StrictOrder(R, P)
    BY <1>1 DEF StrictOrder
  <2>2. PICK x \in P : \A y \in P : <<x, y>> \notin R
    <3> HIDE DEF R
    <3> QED BY <1>2, <1>5, <2>1, LastElement
  <2>3. \A y \in P : ~Precedes(sort[x], sort[y], order)
    BY <1>1, <2>2 DEF Sorted
  <2> DEFINE Values == {sort[m] : m \in P}
             IsLast(v) == \A m \in P : ~Precedes(v, sort[m], order)
             v == CHOOSE w \in Values : IsLast(w)
  <2>4. \E w \in Values : IsLast(w)
    BY <2>3
  <2>5. v \in Values /\ IsLast(v)
    <3> HIDE DEF Values, IsLast
    <3> QED BY <2>4
  <2>6. extractSortKey(P, sort, order) = v
    BY <1>5 DEF extractSortKey
  <2>7. \A m \in P : ~Precedes(v, sort[m], order)
    BY <2>5
  <2> HIDE DEF v
  <2>8. PICK p \in P : v = sort[p]
    BY <2>5
  <2> QED BY <2>6, <2>7, <2>8
<1>6. P = {} => extractSortKey(P, sort, order) = NoKey
  BY DEF extractSortKey
<1>7. Cardinality(P) <= size
  BY <1>1, <1>2
<1> QED BY <1>1, <1>2, <1>3, <1>4, <1>5, <1>6, <1>7

\* There is a page.
LEMMA PageExists ==
  ASSUME NEW hits, IsFiniteSet(hits), NEW sort, NEW order, NEW size \in Nat,
         StrictOrder(Sorted(hits, sort, order), hits)
  PROVE  Pages(hits, sort, order, size) # {}
<1> DEFINE n == IF Cardinality(hits) < size THEN Cardinality(hits) ELSE size
           R == Sorted(hits, sort, order)
<1>1. n \in Nat /\ n <= Cardinality(hits)
  BY FS_CardinalityType
<1>2. PICK P \in SUBSET hits : /\ Cardinality(P) = n
                               /\ \A m \in P, k \in hits \ P : <<k, m>> \notin R
  <2> HIDE DEF n
  <2> QED BY <1>1, FirstElements
<1>3. \A m \in P, k \in hits \ P : ~Precedes(sort[k], sort[m], order)
  BY <1>2 DEF Sorted
<1> QED BY <1>2, <1>3 DEF Pages

\* One sort field: the place of a value in the order.
Place(order, n) == IF order = "desc" THEN -n ELSE n
OneField(v) == [m \in Memes |-> <<v[m]>>]
IsKey(key) == key = NoKey \/ \E k \in Nat : key = <<k>>
Beyond(v, order, key, m) == key = NoKey \/ Place(order, key[1]) < Place(order, v[m])
After(hits, v, order, key) == {m \in hits : Beyond(v, order, key, m)}

LEMMA PrecedesOne ==
  ASSUME NEW a \in Nat, NEW b \in Nat, NEW order
  PROVE  /\ Precedes(<<a>>, <<b>>, order) <=> Place(order, a) < Place(order, b)
         /\ <<a>> # NoKey
<1>1. ASSUME NEW x \in Nat, NEW y \in Nat
      PROVE  Below(<<x>>, <<y>>) <=> x < y
  <2>1. DOMAIN <<x>> = {1} /\ <<x>>[1] = x /\ <<y>>[1] = y /\ 1 .. 1 - 1 = {}
    OBVIOUS
  <2> QED BY <2>1 DEF Below
<1>2. <<a>> # NoKey
  BY DEF NoKey
<1> QED BY <1>1, <1>2 DEF Precedes, Place

\* What comes after the key.
LEMMA OneFieldHits ==
  ASSUME NEW hits \in SUBSET Memes, NEW v \in [Memes -> Nat], NEW order,
         NEW key, IsKey(key)
  PROVE  /\ SearchAfter(hits, OneField(v), order, key) = After(hits, v, order, key)
         /\ After(hits, v, order, key) \subseteq Memes
         /\ IsFiniteSet(After(hits, v, order, key))
         /\ \A m \in Memes : Place(order, v[m]) \in Int
         /\ \A m, k \in Memes : Precedes(OneField(v)[m], OneField(v)[k], order)
                                  <=> Place(order, v[m]) < Place(order, v[k])
         /\ StrictOrder(Sorted(After(hits, v, order, key), OneField(v), order),
                        After(hits, v, order, key))
<1> DEFINE sort == OneField(v)
           rest == After(hits, v, order, key)
<1>0. \A m \in Memes : sort[m] = <<v[m]>> /\ v[m] \in Nat
  BY DEF OneField
<1>1. \A m, k \in Memes :
        Precedes(sort[m], sort[k], order) <=> Place(order, v[m]) < Place(order, v[k])
  BY <1>0, PrecedesOne
<1>2. SearchAfter(hits, sort, order, key) = rest
  <2>1. CASE key = NoKey
    BY <2>1 DEF SearchAfter, Beyond, After
  <2>2. CASE key # NoKey
    <3>1. PICK k \in Nat : key = <<k>>
      BY <2>2 DEF IsKey
    <3>2. \A m \in hits : Precedes(key, sort[m], order) <=> Place(order, k) < Place(order, v[m])
      BY <1>0, <3>1, PrecedesOne
    <3>3. key[1] = k
      BY <3>1
    <3> QED BY <2>2, <3>2, <3>3 DEF SearchAfter, Beyond, After
  <2> QED BY <2>1, <2>2
<1>3. rest \subseteq Memes /\ IsFiniteSet(rest)
  BY ConstantsAssumption, FS_Subset DEF After
<1>4. \A m \in Memes : Place(order, v[m]) \in Int
  BY <1>0 DEF Place
<1> HIDE DEF rest, sort
<1>5. StrictOrder(Sorted(rest, sort, order), rest)
  <2>1. \A m, k \in rest : <<m, k>> \in Sorted(rest, sort, order)
                             <=> Place(order, v[m]) < Place(order, v[k])
    BY <1>1, <1>3 DEF Sorted
  <2> HIDE DEF Place
  <2> QED BY <1>3, <1>4, <2>1 DEF StrictOrder
<1> QED BY <1>1, <1>2, <1>3, <1>4, <1>5 DEF rest, sort

\* There is always an answer.
LEMMA OneFieldAnswer ==
  ASSUME NEW hits \in SUBSET Memes, NEW v \in [Memes -> Nat], NEW order,
         NEW key, IsKey(key)
  PROVE  Answers(hits, OneField(v), order, key, PageSize) # {}
<1> DEFINE rest == After(hits, v, order, key)
<1>1. /\ SearchAfter(hits, OneField(v), order, key) = rest
      /\ IsFiniteSet(rest) /\ StrictOrder(Sorted(rest, OneField(v), order), rest)
  BY OneFieldHits
<1> HIDE DEF rest
<1>2. Pages(rest, OneField(v), order, PageSize) # {}
  BY <1>1, PageExists, ConstantsAssumption
<1> QED BY <1>1, <1>2 DEF Answers

\* A page of hits sorted by one field and the key behind it.
LEMMA OneFieldPage ==
  ASSUME NEW hits \in SUBSET Memes, NEW v \in [Memes -> Nat], NEW order,
         NEW key, IsKey(key), NEW r \in Answers(hits, OneField(v), order, key, PageSize)
  PROVE  LET rest == After(hits, v, order, key) IN
         /\ r.hits \subseteq rest /\ IsFiniteSet(r.hits)
         /\ Cardinality(r.hits) <= PageSize
         /\ Cardinality(r.hits) < PageSize => r.hits = rest
         /\ r.hits = {} => rest = {} /\ r.key = NoKey
         /\ r.hits # {} => \E p \in r.hits :
              /\ r.key = <<v[p]>> /\ r.key # NoKey
              /\ \A m \in r.hits : Place(order, v[m]) <= Place(order, v[p])
              /\ \A m \in rest \ r.hits : Place(order, v[p]) <= Place(order, v[m])
<1> DEFINE sort == OneField(v)
           rest == After(hits, v, order, key)
<1>0. \A m \in Memes : sort[m] = <<v[m]>> /\ v[m] \in Nat
  BY DEF OneField
<1>1. /\ SearchAfter(hits, sort, order, key) = rest
      /\ rest \subseteq Memes /\ IsFiniteSet(rest)
      /\ \A m \in Memes : Place(order, v[m]) \in Int
      /\ \A m, k \in Memes :
           Precedes(sort[m], sort[k], order) <=> Place(order, v[m]) < Place(order, v[k])
      /\ StrictOrder(Sorted(rest, sort, order), rest)
  BY OneFieldHits
<1>2. PageSize \in Nat \ {0}
  BY ConstantsAssumption
<1> HIDE DEF rest, sort
<1>6. PICK P \in Pages(rest, sort, order, PageSize) :
        r = [hits |-> P, key |-> extractSortKey(P, sort, order)]
  BY <1>1 DEF Answers, sort
<1>7. /\ P \subseteq rest /\ IsFiniteSet(P) /\ Cardinality(P) <= PageSize
      /\ Cardinality(P) < PageSize => P = rest
      /\ P = {} => rest = {} /\ extractSortKey(P, sort, order) = NoKey
      /\ \A m \in P, k \in rest \ P : ~Precedes(sort[k], sort[m], order)
      /\ P # {} => \E p \in P : /\ extractSortKey(P, sort, order) = sort[p]
                               /\ \A m \in P : ~Precedes(sort[p], sort[m], order)
  BY <1>1, <1>2, PageFacts
<1>8. ASSUME P # {}
      PROVE  \E p \in P :
              /\ r.key = <<v[p]>> /\ r.key # NoKey
              /\ \A m \in P : Place(order, v[m]) <= Place(order, v[p])
              /\ \A m \in rest \ P : Place(order, v[p]) <= Place(order, v[m])
  <2>1. PICK p \in P : /\ extractSortKey(P, sort, order) = sort[p]
                       /\ \A m \in P : ~Precedes(sort[p], sort[m], order)
    BY <1>7, <1>8
  <2>2. r.key = <<v[p]>> /\ r.key # NoKey
    BY <1>0, <1>1, <1>6, <1>7, <2>1, PrecedesOne
  <2>3. \A m \in P : ~(Place(order, v[p]) < Place(order, v[m]))
    BY <1>1, <1>7, <2>1
  <2>4. \A m \in rest \ P : ~(Place(order, v[m]) < Place(order, v[p]))
    BY <1>1, <1>7
  <2> HIDE DEF Place
  <2> QED BY <1>1, <1>7, <2>2, <2>3, <2>4
<1> QED BY <1>6, <1>7, <1>8 DEF rest

-----------------------------------------------------------------------------
(* The inductive invariant, stated of a session `r`, of the documents `D` in *)
(* the index, the originals `O` in the bucket, the creation times `c` and    *)
(* the memes `X` whose deletion has begun                                    *)

Fields == {"step", "kind", "query", "type", "key", "after", "page", "todo", "total", "error",
           "shown", "stood", "quiet"}

StoreInv ==
  /\ docs \subseteq Memes /\ orig \subseteq Memes /\ thumbs \subseteq Memes
  /\ doomed \subseteq Memes
  /\ created \in [Memes -> 0 .. MaxCreated]
  /\ \A m \in docs : created[m] # 0
  /\ \A m \in Memes \ doomed : (m \in docs => m \in orig) /\ (m \in orig <=> m \in thumbs)
  /\ session = [s \in Sessions |-> session[s]]
  /\ \A s \in Sessions : DOMAIN session[s] = Fields

\* Where a session of each kind may be.
StepsOf(kind) ==
  CASE kind \in {"web", "inline"} -> {"fetch", "end", "failed"}
    [] kind \in {"export", "exportAll"} ->
         {"fetch", "original", "thumbnail", "send", "end", "failed", "broken"}
    [] kind = "wipe" -> {"fetch", "purge", "purgeThumb", "remove", "end", "failed"}
    [] kind = "delete" -> {"purge", "purgeThumb", "remove", "end", "failed"}
    [] kind = "random" -> {"count", "pick", "end", "failed"}

KindTag == {"export", "exportAll", "wipe", "delete", "web", "inline", "random"}

Typed(r) ==
  /\ r.kind \in KindTag /\ r.query \in Query /\ r.type \in TypeTag
  /\ r.step = "idle" \/ r.step \in StepsOf(r.kind)
  /\ r.kind \notin {"web", "inline", "random"} => r.type = ""
  /\ r.page \subseteq Memes /\ r.todo \subseteq r.page /\ r.stood \subseteq Memes
  /\ r.after # None => r.after.key # NoKey
  /\ r.step \in {"original", "thumbnail", "purge", "purgeThumb", "remove"} => r.todo # {}
  /\ r.total \in Nat /\ r.total <= Cardinality(Memes)
  /\ r.shown \in [Memes -> 0 .. 2]
  /\ r.step = "idle" => /\ r.key = NoKey /\ r.after = None /\ r.todo = {} /\ r.page = {}
                        /\ r.stood = {} /\ \A m \in Memes : r.shown[m] = 0

\* A meme on a page lost its blobs only to a deletion.
BlobsKept(r, O, X) ==
  /\ \A m \in r.todo : m \in X \/ m \in O
  /\ r.step \in {"purgeThumb", "remove", "broken"} => Pick(r.todo) \in X

Handled(r) == {m \in Memes : r.shown[m] > 0}

\* What stood from the beginning is still there or was handled.
StoodThere(r, D, c) ==
  /\ \A m \in r.page \cup r.stood \cup Handled(r) : c[m] # 0
  /\ r.step # "idle" => \A m \in r.stood : m \in D \/ m \in Handled(r)

OrderOf(r) == IF r.kind = "exportAll" THEN "asc" ELSE "desc"
ValueOf(r, c) == IF r.kind = "exportAll" THEN [m \in Memes |-> m] ELSE c
KeyOf(r) == IF r.kind \in {"web", "inline"} THEN r.after.key ELSE r.key
Later(r, c, m) == Beyond(ValueOf(r, c), OrderOf(r), KeyOf(r), m)
TiedIn(S, v, m) == \E k \in S : k # m /\ v[k] = v[m]

\* On the page, and not handled yet.
Pending(r) ==
  CASE r.step \in {"original", "thumbnail", "send"} -> r.page
    [] r.step \in {"purge", "purgeThumb", "remove"} -> r.todo
    [] OTHER -> {}

OfType(t, m) == t = "" \/ (m \in Videos) = (t = "video")
ScopeIn(D, t) == {m \in D : Owner[m] = Account /\ OfType(t, m)}
WantedBy(r) ==
  {m \in r.stood : r.kind = "exportAll" \/ (Owner[m] = Account /\ OfType(r.type, m))}

Walking(r) == r.kind \notin {"delete", "random"} /\ r.query.of = "all" /\ r.step # "idle"

\* A walk has handled what comes before its key and will handle what comes after it.
Walked(r, c) ==
  LET met == Handled(r) \cup Pending(r)
      v == ValueOf(r, c)
  IN Walking(r) =>
       /\ \A m \in Memes : r.shown[m] <= 1
       /\ Pending(r) \cap Handled(r) = {}
       /\ r.after # None => r.after.searcher = "all_searcher"
       /\ IsKey(KeyOf(r))
       /\ r.step \notin Final =>
            /\ \A m \in met : ~Later(r, c, m)
            /\ \A m \in WantedBy(r) :
                 \/ m \in met \/ TiedIn(met, v, m)
                 \/ Later(r, c, m) /\ (r.step # "fetch" => Cardinality(r.page) >= PageSize)
       /\ r.step = "end" => \A m \in WantedBy(r) : m \in Handled(r) \/ TiedIn(Handled(r), v, m)

\* A request for a random meme: what it counted is there as long as nothing changes.
Drawn(r, D) ==
  r.kind = "random" /\ r.quiet /\ r.step # "idle" =>
    /\ r.stood = D
    /\ r.step = "pick" => r.total = Cardinality(ScopeIn(D, r.type)) /\ r.total > 0
    /\ r.step \in {"count", "pick"} => Handled(r) = {}
    /\ r.step = "end" => (Handled(r) = {} <=> ScopeIn(D, r.type) = {})

\* What a search by text or id finds, and how it is ranked.
TextsIn(D, r) == IF r.query.of = "text" THEN ScopeIn(D, r.type) \cap Matching ELSE {}
HitsIn(D, r) == TextsIn(D, r) \cup Nearest(ScopeIn(D, r.type))
RankIn(D, r) == ByScore(TextsIn(D, r), Nearest(ScopeIn(D, r.type)))
Passed(D, r, key, m) == key # NoKey /\ ~Precedes(key, RankIn(D, r)[m], "desc")

\* Such a search, as long as nothing changes, has handled the hits down to its key.
Found(r, D) ==
  r.kind \in {"web", "inline"} /\ r.query.of # "all" /\ r.quiet /\ r.step # "idle" =>
    /\ \A m \in Memes : r.shown[m] <= 1
    /\ r.step = "fetch" =>
         /\ \A m \in HitsIn(D, r) : m \in Handled(r) <=> Passed(D, r, r.after.key, m)
         /\ IF r.after = None THEN Handled(r) = {}
            ELSE /\ r.after.searcher = "hybrid_searcher"
                 /\ \E p \in HitsIn(D, r) : r.after.key = RankIn(D, r)[p]
    /\ r.step = "end" => TextsIn(D, r) \subseteq Handled(r)

SessionOk(r, D, O, c, X) ==
  /\ Typed(r) /\ BlobsKept(r, O, X) /\ StoodThere(r, D, c) /\ Walked(r, c) /\ Drawn(r, D)
  /\ Found(r, D)

SessionInv(s) == SessionOk(session[s], docs, orig, created, doomed)

ReadersInv == StoreInv /\ \A s \in Sessions : SessionInv(s)

-----------------------------------------------------------------------------
(* Sessions beside the one that moves *)

SameFields(r, n) ==
  /\ n.step = r.step /\ n.kind = r.kind /\ n.query = r.query /\ n.type = r.type
  /\ n.key = r.key /\ n.after = r.after /\ n.page = r.page /\ n.todo = r.todo
  /\ n.total = r.total /\ n.shown = r.shown

\* What a step does beside: memes come and go.
StoreMoves ==
  /\ docs' \subseteq Memes
  /\ created' \in [Memes -> 0 .. MaxCreated]
  /\ \A m \in Memes : created[m] # 0 => created'[m] = created[m]
  /\ doomed \subseteq doomed'
  /\ \A m \in Memes : m \in orig /\ m \notin doomed' => m \in orig'

\* A step of somebody else: the memes that were there from the beginning become fewer.
Undisturbed(t) ==
  /\ SameFields(session[t], session'[t])
  /\ session'[t].stood \subseteq session[t].stood
  /\ \A m \in session'[t].stood : m \in docs => m \in docs'
  /\ session'[t].quiet =>
       session[t].quiet /\ docs' = docs /\ session'[t].stood = session[t].stood

\* What holds of a session goes on to hold.
LEMMA UndisturbedKeeps ==
  ASSUME StoreInv, NEW t \in Sessions, SessionInv(t), Undisturbed(t), StoreMoves
  PROVE  SessionInv(t)'
<1> DEFINE r == session[t]
           n == session'[t]
<1>0. /\ SameFields(r, n) /\ n.stood \subseteq r.stood
      /\ \A m \in n.stood : m \in docs => m \in docs'
      /\ n.quiet => r.quiet /\ docs' = docs /\ n.stood = r.stood
      /\ Typed(r) /\ BlobsKept(r, orig, doomed) /\ StoodThere(r, docs, created)
      /\ Walked(r, created) /\ Drawn(r, docs) /\ Found(r, docs)
  BY DEF Undisturbed, SessionInv, SessionOk
<1> SUFFICES SessionOk(n, docs', orig', created', doomed')
  BY DEF SessionInv
<1> HIDE DEF r, n
<1>1. Typed(n)
  BY <1>0 DEF Typed, SameFields
<1>2. BlobsKept(n, orig', doomed')
  BY <1>0 DEF BlobsKept, SameFields, Typed, StoreMoves
<1>3. Handled(n) = Handled(r) /\ Handled(r) \subseteq Memes
  BY <1>0 DEF Handled, SameFields
<1>4. StoodThere(n, docs', created')
  BY <1>0, <1>3 DEF StoodThere, SameFields, StoreMoves, Typed
<1>5. Walked(n, created')
  <2> DEFINE met == Handled(r) \cup Pending(r)
             v == ValueOf(r, created)
             w == ValueOf(n, created')
  <2>1. Pending(n) = Pending(r) /\ Pending(r) \subseteq r.page
    BY <1>0 DEF Pending, SameFields, Typed
  <2>2. KeyOf(n) = KeyOf(r) /\ OrderOf(n) = OrderOf(r)
    BY <1>0 DEF KeyOf, OrderOf, SameFields
  <2>3. WantedBy(n) \subseteq WantedBy(r) /\ WantedBy(r) \subseteq r.stood
    BY <1>0 DEF WantedBy, SameFields
  <2>4. \A m \in met \cup WantedBy(r) : m \in Memes /\ created'[m] = created[m]
    BY <1>0, <1>3, <2>1, <2>3 DEF StoodThere, StoreMoves, Typed
  <2>5. \A m \in met \cup WantedBy(r) : w[m] = v[m]
    BY <1>0, <2>4 DEF ValueOf, SameFields
  <2>6. \A m \in met \cup WantedBy(r) : Later(n, created', m) <=> Later(r, created, m)
    BY <2>2, <2>5 DEF Later, Beyond
  <2>7. \A S \in SUBSET met, m \in WantedBy(r) : TiedIn(S, w, m) <=> TiedIn(S, v, m)
    BY <2>5 DEF TiedIn
  <2>8. Walking(n) <=> Walking(r)
    BY <1>0 DEF Walking, SameFields
  <2>9. Handled(r) \in SUBSET met /\ met \in SUBSET met
    OBVIOUS
  <2> HIDE DEF v, w
  <2> QED BY <1>0, <1>3, <2>1, <2>2, <2>3, <2>6, <2>7, <2>8, <2>9
          DEF Walked, SameFields, v, w
<1>6. Drawn(n, docs')
  BY <1>0, <1>3 DEF Drawn, SameFields
<1>7. Found(n, docs')
  <2>1. n.quiet => r.quiet /\ docs' = docs
    BY <1>0
  <2>2. /\ TextsIn(docs, n) = TextsIn(docs, r) /\ HitsIn(docs, n) = HitsIn(docs, r)
        /\ RankIn(docs, n) = RankIn(docs, r)
    BY <1>0 DEF SameFields, TextsIn, HitsIn, RankIn
  <2>3. \A key, m : Passed(docs, n, key, m) <=> Passed(docs, r, key, m)
    BY <2>2 DEF Passed
  <2> QED BY <1>0, <1>3, <2>1, <2>2, <2>3 DEF Found, SameFields
<1> QED BY <1>1, <1>2, <1>4, <1>5, <1>6, <1>7 DEF SessionOk

-----------------------------------------------------------------------------
(* The step of a session *)

\* Nothing but the session `s` changes among the sessions.
Alone(s) == /\ session' = [t \in Sessions |-> session'[t]]
            /\ \A t \in Sessions : DOMAIN session'[t] = Fields
            /\ \A t \in Sessions \ {s} : session'[t] = session[t]

\* Go changes the named fields of the session.
LEMMA GoChanges ==
  ASSUME StoreInv, NEW s \in Sessions, NEW changes, DOMAIN changes \subseteq Fields,
         Go(s, changes)
  PROVE  /\ Alone(s)
         /\ \A f \in DOMAIN changes : session'[s][f] = changes[f]
         /\ \A f \in Fields \ DOMAIN changes : session'[s][f] = session[s][f]
<1>1. session' = [session EXCEPT ![s] =
        [f \in DOMAIN @ |-> IF f \in DOMAIN changes THEN changes[f] ELSE @[f]]]
  BY DEF Go
<1>2. session = [t \in Sessions |-> session[t]] /\ \A t \in Sessions : DOMAIN session[t] = Fields
  BY DEF StoreInv
<1>3. session'[s] = [f \in Fields |-> IF f \in DOMAIN changes THEN changes[f] ELSE session[s][f]]
  BY <1>1, <1>2
<1> QED BY <1>1, <1>2, <1>3 DEF Alone

\* One more time for each meme in `S`.
LEMMA CountFacts ==
  ASSUME NEW f \in [Memes -> 0 .. 2], NEW S \in SUBSET Memes
  PROVE  /\ Count(f, S) \in [Memes -> 0 .. 2]
         /\ \A m \in Memes : Count(f, S)[m] > 0 <=> f[m] > 0 \/ m \in S
         /\ \A m \in Memes : f[m] <= 1 /\ ~(f[m] > 0 /\ m \in S) => Count(f, S)[m] <= 1
<1>1. \A m \in Memes : Count(f, S)[m] = IF m \in S /\ f[m] < 2 THEN f[m] + 1 ELSE f[m]
  BY DEF Count
<1>2. Count(f, S) = [m \in Memes |-> IF m \in S /\ f[m] < 2 THEN f[m] + 1 ELSE f[m]]
  BY DEF Count
<1>3. \A m \in Memes : f[m] \in 0 .. 2
  OBVIOUS
<1> QED BY <1>1, <1>2, <1>3

\* An answer holds hits.
LEMMA AnswerHits ==
  ASSUME NEW hits, NEW sort, NEW order, NEW key, NEW size,
         NEW x \in Answers(hits, sort, order, key, size)
  PROVE  x.hits \subseteq hits
<1>1. x.hits \in SUBSET SearchAfter(hits, sort, order, key)
  BY DEF Answers, Pages
<1> QED BY <1>1 DEF SearchAfter

\* The first of the memes still to do.
LEMMA PickFirst ==
  ASSUME NEW S \in SUBSET Memes, S # {}
  PROVE  Pick(S) \in S
<1>1. S \in SUBSET Nat
  BY ConstantsAssumption
<1> QED BY <1>1, LeastNumber DEF Pick

\* The scope of a search.
LEMMA ScopeFacts ==
  ASSUME StoreInv, NEW t
  PROVE  Scope(t) = ScopeIn(docs, t) /\ Scope(t)' = ScopeIn(docs', t)
<1> QED BY DEF Scope, ScopeIn, OfType, accountIdsQuery, typeQuery

\* The times of creation are sort values.
LEMMA CreatedIsNatural ==
  ASSUME StoreInv
  PROVE  created \in [Memes -> Nat]
<1>1. 0 .. MaxCreated \subseteq Nat
  BY ConstantsAssumption
<1> QED BY <1>1 DEF StoreInv

\* The page is new, the key passes over it, and only the last page is not full.
NextPageIs(hits, v, order, L, W, r) ==
  /\ r.hits \subseteq hits /\ r.hits \cap L = {}
  /\ IsKey(r.key) /\ (r.key = NoKey <=> r.hits = {})
  /\ Cardinality(r.hits) \in 0 .. PageSize
  /\ Cardinality(r.hits) < PageSize =>
       \A m \in W : m \in L \cup r.hits \/ TiedIn(L \cup r.hits, v, m)
  /\ r.hits # {} =>
       /\ \A m \in L \cup r.hits : ~Beyond(v, order, r.key, m)
       /\ \A m \in W : \/ m \in L \cup r.hits \/ TiedIn(L \cup r.hits, v, m)
                       \/ Beyond(v, order, r.key, m)

\* The next page of a walk: it is new, the key passes over it, and only the last page
\* is not full.  `L` is what was handled, `W` what is wanted.
LEMMA NextPage ==
  ASSUME NEW hits \in SUBSET Memes, NEW v \in [Memes -> Nat], NEW order \in {"asc", "desc"},
         NEW key, IsKey(key), NEW L \in SUBSET Memes, NEW W \in SUBSET Memes,
         \A m \in L : ~Beyond(v, order, key, m),
         \A m \in W : m \in L \/ TiedIn(L, v, m) \/ Beyond(v, order, key, m),
         W \ L \subseteq hits,
         NEW r \in Answers(hits, OneField(v), order, key, PageSize)
  PROVE  NextPageIs(hits, v, order, L, W, r)
<1> DEFINE rest == After(hits, v, order, key)
           place(m) == Place(order, v[m])
<1>1. /\ r.hits \subseteq rest /\ IsFiniteSet(r.hits)
      /\ Cardinality(r.hits) <= PageSize
      /\ Cardinality(r.hits) < PageSize => r.hits = rest
      /\ r.hits = {} => rest = {} /\ r.key = NoKey
      /\ r.hits # {} => \E p \in r.hits :
           /\ r.key = <<v[p]>> /\ r.key # NoKey
           /\ \A m \in r.hits : place(m) <= place(p)
           /\ \A m \in rest \ r.hits : place(p) <= place(m)
  BY OneFieldPage
<1>0. rest = {m \in hits : Beyond(v, order, key, m)}
  BY DEF After
<1> HIDE DEF rest
<1>2. Cardinality(r.hits) \in 0 .. PageSize
  BY <1>1, FS_CardinalityType, ConstantsAssumption
<1>3. r.hits \cap L = {}
  BY <1>0, <1>1
<1>4. \A m \in W : m \in L \/ TiedIn(L, v, m) \/ m \in rest
  BY <1>0
<1>5. \A m \in W : TiedIn(L, v, m) => TiedIn(L \cup r.hits, v, m)
  BY DEF TiedIn
<1>6. \A m \in Memes : v[m] \in Nat /\ place(m) \in Int
  BY DEF Place
<1>7. \A a, b \in Memes : place(a) = place(b) => v[a] = v[b]
  BY <1>6 DEF Place
<1>8. ASSUME r.hits # {}
      PROVE  /\ IsKey(r.key) /\ r.key # NoKey
             /\ \A m \in L \cup r.hits : ~Beyond(v, order, r.key, m)
             /\ \A m \in W : \/ m \in L \cup r.hits \/ TiedIn(L \cup r.hits, v, m)
                             \/ Beyond(v, order, r.key, m)
  <2>1. PICK p \in r.hits : /\ r.key = <<v[p]>> /\ r.key # NoKey
                            /\ \A m \in r.hits : place(m) <= place(p)
                            /\ \A m \in rest \ r.hits : place(p) <= place(m)
    BY <1>1, <1>8
  <2>2. p \in Memes /\ Beyond(v, order, key, p)
    BY <1>0, <1>1
  <2>3. \A m \in Memes : Beyond(v, order, r.key, m) <=> place(p) < place(m)
    BY <2>1 DEF Beyond
  <2>4. IsKey(r.key)
    BY <2>1, <2>2, <1>6 DEF IsKey
  <2>5. ASSUME NEW m \in L
        PROVE  place(m) <= place(p)
    <3>1. key # NoKey /\ ~(Place(order, key[1]) < place(m))
      BY DEF Beyond
    <3>2. Place(order, key[1]) < place(p)
      BY <2>2, <3>1 DEF Beyond
    <3>3. Place(order, key[1]) \in Int
      BY <3>1 DEF IsKey, Place
    <3> HIDE DEF place
    <3> QED BY <1>6, <2>2, <3>1, <3>2, <3>3
  <2>6. \A m \in L \cup r.hits : ~(place(p) < place(m))
    <3> HIDE DEF place
    <3> QED BY <1>0, <1>1, <1>6, <2>1, <2>2, <2>5
  <2>7. ASSUME NEW m \in rest \ r.hits, ~TiedIn(L \cup r.hits, v, m)
        PROVE  place(p) < place(m)
    <3>0. m \in Memes
      BY <1>0
    <3>1. m # p /\ v[p] # v[m]
      BY <2>1, <2>7 DEF TiedIn
    <3>2. place(p) # place(m)
      <4> HIDE DEF place
      <4> QED BY <1>7, <2>2, <3>0, <3>1
    <3> HIDE DEF place
    <3> QED BY <1>6, <2>1, <2>2, <3>0, <3>2
  <2> HIDE DEF place
  <2>8. L \cup r.hits \subseteq Memes
    BY <1>0, <1>1
  <2> QED BY <1>4, <1>5, <2>1, <2>3, <2>4, <2>6, <2>7, <2>8
<1>9. ASSUME Cardinality(r.hits) < PageSize
      PROVE  \A m \in W : m \in L \cup r.hits \/ TiedIn(L \cup r.hits, v, m)
  <2> QED BY <1>1, <1>4, <1>5, <1>9
<1>10. r.hits = {} => IsKey(r.key) /\ r.key = NoKey
  BY <1>1 DEF IsKey
<1>11. r.hits \subseteq hits
  BY <1>0, <1>1
<1> QED BY <1>2, <1>3, <1>8, <1>9, <1>10, <1>11 DEF NextPageIs

-----------------------------------------------------------------------------
(* Searches *)

\* Without a text, a search is a walk through the memes by their creation time.
LEMMA SearchAll ==
  ASSUME StoreInv, NEW q, q.of = "all", NEW t, NEW after, IsKey(after.key),
         after # None => after.searcher = "all_searcher",
         NEW r \in Search(q, t, after)
  PROVE  \E r1 \in Answers(Scope(t), OneField(created), "desc", after.key, PageSize) :
           /\ r.hits = r1.hits
           /\ r.after = IF r1.key = NoKey THEN None
                        ELSE [searcher |-> "all_searcher", key |-> r1.key]
<1> DEFINE Resumed(i) == after # None /\ Searchers[i] = after.searcher
           Asked == {i \in DOMAIN Searchers : after = None \/ \E k \in 1 .. i : Resumed(k)}
           Reply(i) == Ask(Searchers[i], q, t, IF Resumed(i) THEN after.key ELSE NoKey)
           Finding == {i \in Asked : \E x \in Reply(i) : x.hits # {}}
           walk == Answers(Scope(t), OneField(created), "desc", after.key, PageSize)
<1>1. /\ DOMAIN Searchers = 1 .. 3 /\ Searchers[1] = "id_searcher"
      /\ Searchers[2] = "hybrid_searcher" /\ Searchers[3] = "all_searcher"
  BY DEF Searchers
<1>2. Reply(1) = {NoHits} /\ Reply(2) = {NoHits}
  BY <1>1 DEF Ask, IdSearcher, HybridSearcher
<1>3. ByCreated = OneField(created)
  BY DEF ByCreated, OneField
<1>4. (IF Resumed(3) THEN after.key ELSE NoKey) = after.key
  BY <1>1 DEF None
<1>5. Reply(3) = walk
  BY <1>1, <1>3, <1>4 DEF Ask, AllSearcher, GetByAccountIdOrderByCreated
<1>6. 3 \in Asked
  <2>1. 3 \in 1 .. 3
    OBVIOUS
  <2> QED BY <1>1, <2>1
<1>7. Scope(t) \subseteq Memes /\ created \in [Memes -> Nat]
  BY CreatedIsNatural, ScopeFacts DEF StoreInv, ScopeIn
<1>8. \A x \in walk : x.hits = {} => x.key = NoKey
  <2> TAKE x \in walk
  <2> QED BY <1>7, OneFieldPage
<1>9. walk # {}
  BY <1>7, OneFieldAnswer
<1>10. Finding \subseteq {3} /\ (Finding = {} <=> \A x \in walk : x.hits = {})
  <2>1. Asked \subseteq {1, 2, 3}
    BY <1>1
  <2>2. NoHits.hits = {}
    BY DEF NoHits
  <2> HIDE DEF Asked, Reply, walk
  <2> QED BY <1>2, <1>5, <1>6, <2>1, <2>2
<1>11. r \in IF Finding = {} THEN {[hits |-> {}, after |-> None]}
             ELSE {[hits |-> x.hits,
                    after |-> IF x.key = NoKey THEN None
                              ELSE [searcher |-> Searchers[Min(Finding)], key |-> x.key]] :
                     x \in Reply(Min(Finding))}
  BY DEF Search
<1>12. Finding # {} => Min(Finding) = 3
  <2>1. Min({3}) = 3
    BY DEF Min
  <2> HIDE DEF Finding
  <2> QED BY <1>10, <2>1
<1> HIDE DEF Finding, Reply
<1>13. CASE Finding = {}
  <2>1. PICK x \in walk : TRUE
    BY <1>9
  <2>2. x.hits = {} /\ x.key = NoKey /\ r = [hits |-> {}, after |-> None]
    BY <1>8, <1>10, <1>11, <1>13
  <2> QED BY <2>1, <2>2
<1>14. CASE Finding # {}
  BY <1>1, <1>5, <1>11, <1>12, <1>14
<1> QED BY <1>13, <1>14

\* A search finds memes in the index, and a key to go on with is one.
LEMMA SearchTyped ==
  ASSUME StoreInv, NEW q, NEW t, NEW after, NEW r \in Search(q, t, after)
  PROVE  r.hits \subseteq docs /\ (r.after # None => r.after.key # NoKey)
<1> DEFINE Resumed(i) == after # None /\ Searchers[i] = after.searcher
           Asked == {i \in DOMAIN Searchers : after = None \/ \E k \in 1 .. i : Resumed(k)}
           Reply(i) == Ask(Searchers[i], q, t, IF Resumed(i) THEN after.key ELSE NoKey)
           Finding == {i \in Asked : \E x \in Reply(i) : x.hits # {}}
<1>1. /\ DOMAIN Searchers = 1 .. 3 /\ Searchers[1] = "id_searcher"
      /\ Searchers[2] = "hybrid_searcher" /\ Searchers[3] = "all_searcher"
  BY DEF Searchers
<1>2. Scope(t) \subseteq docs /\ NoHits.hits = {} /\ GetById(q.id) \subseteq docs
  BY DEF Scope, accountIdsQuery, NoHits, GetById
<1>3. ASSUME NEW hits \in SUBSET docs, NEW sort, NEW key,
             NEW x \in Answers(hits, sort, "desc", key, PageSize)
      PROVE  x.hits \subseteq docs
  BY AnswerHits
<1>4. ASSUME NEW i \in 1 .. 3, NEW x \in Reply(i)
      PROVE  x.hits \subseteq docs
  <2> DEFINE key == IF Resumed(i) THEN after.key ELSE NoKey
  <2>1. x \in Ask(Searchers[i], q, t, key)
    OBVIOUS
  <2> HIDE DEF key
  <2>2. CASE i = 1
    BY <1>1, <1>2, <2>1, <2>2 DEF Ask, IdSearcher
  <2>3. CASE i = 2
    <3>1. x \in HybridSearcher(q, t, key)
      BY <1>1, <2>1, <2>3 DEF Ask
    <3> DEFINE texts == TextMatches(q, t)
               near == Nearest(Scope(t))
    <3>2. texts \cup near \in SUBSET docs
      BY <1>2 DEF TextMatches, Nearest
    <3>3. CASE q.of = "all"
      BY <1>2, <3>1, <3>3 DEF HybridSearcher
    <3>4. CASE q.of # "all"
      <4>1. x \in Answers(texts \cup near, ByScore(texts, near), "desc", key, PageSize)
        BY <3>1, <3>4 DEF HybridSearcher, SearchHybridOrderByScore
      <4> HIDE DEF texts, near
      <4> QED BY <1>3, <3>2, <4>1
    <3> QED BY <3>3, <3>4
  <2>4. CASE i = 3
    <3>1. x \in AllSearcher(q, t, key)
      BY <1>1, <2>1, <2>4 DEF Ask
    <3> QED BY <1>2, <1>3, <3>1 DEF AllSearcher, GetByAccountIdOrderByCreated
  <2> QED BY <2>2, <2>3, <2>4
<1>5. r \in IF Finding = {} THEN {[hits |-> {}, after |-> None]}
            ELSE {[hits |-> x.hits,
                   after |-> IF x.key = NoKey THEN None
                             ELSE [searcher |-> Searchers[Min(Finding)], key |-> x.key]] :
                    x \in Reply(Min(Finding))}
  BY DEF Search
<1>6. Finding \subseteq 1 .. 3
  BY <1>1
<1> HIDE DEF Finding, Reply
<1>7. CASE Finding = {}
  BY <1>5, <1>7
<1>8. CASE Finding # {}
  <2>1. Finding \in SUBSET Nat
    BY <1>6
  <2>2. Min(Finding) \in 1 .. 3
    BY <1>6, <1>8, <2>1, LeastNumber DEF Min
  <2>3. PICK x \in Reply(Min(Finding)) :
          r = [hits |-> x.hits,
               after |-> IF x.key = NoKey THEN None
                         ELSE [searcher |-> Searchers[Min(Finding)], key |-> x.key]]
    BY <1>5, <1>8
  <2> QED BY <1>4, <2>2, <2>3
<1> QED BY <1>7, <1>8

-----------------------------------------------------------------------------
(* Searches by text or id *)

\* Two sort fields, both descending.
LEMMA PrecedesTwo ==
  ASSUME NEW a \in Nat, NEW b \in Nat, NEW c \in Nat, NEW d \in Nat
  PROVE  /\ Precedes(<<a, b>>, <<c, d>>, "desc") <=> c < a \/ (c = a /\ d < b)
         /\ <<a, b>> # NoKey
<1> DEFINE x == <<c, d>>
           y == <<a, b>>
<1>1. DOMAIN x = {1, 2} /\ x[1] = c /\ x[2] = d /\ y[1] = a /\ y[2] = b
  OBVIOUS
<1>2. 1 .. 1 - 1 = {} /\ 1 .. 2 - 1 = {1}
  OBVIOUS
<1> HIDE DEF x, y
<1>3. Below(x, y) <=> \/ x[1] < y[1] /\ \A j \in 1 .. 1 - 1 : x[j] = y[j]
                      \/ x[2] < y[2] /\ \A j \in 1 .. 2 - 1 : x[j] = y[j]
  BY <1>1 DEF Below
<1>4. Below(x, y) <=> c < a \/ (c = a /\ d < b)
  BY <1>1, <1>2, <1>3
<1>5. <<a, b>> # NoKey
  BY DEF NoKey
<1> QED BY <1>4, <1>5 DEF Precedes, x, y

\* A page of ranked hits: the key parts them into what was and what will be on a page.
RankedPageIs(hits, rank, key, x) ==
  LET rest == SearchAfter(hits, rank, "desc", key) IN
  /\ x.hits \subseteq rest /\ Cardinality(x.hits) \in 0 .. PageSize
  /\ Cardinality(x.hits) < PageSize => x.hits = rest
  /\ x.key = NoKey <=> x.hits = {}
  /\ x.hits # {} =>
       /\ \E p \in hits : x.key = rank[p]
       /\ \A m \in hits : m \in x.hits \/ m \notin rest <=> ~Precedes(x.key, rank[m], "desc")

\* The scores order the hits, and no two hits are equal.
LEMMA RankedPage ==
  ASSUME NEW texts \in SUBSET Memes, NEW near \in SUBSET Memes, NEW key,
         key = NoKey \/ \E p \in texts \cup near : key = ByScore(texts, near)[p]
  PROVE  LET hits == texts \cup near
             rank == ByScore(texts, near)
         IN /\ Answers(hits, rank, "desc", key, PageSize) # {}
            /\ \A x \in Answers(hits, rank, "desc", key, PageSize) :
                 RankedPageIs(hits, rank, key, x)
<1> DEFINE hits == texts \cup near
           rank == ByScore(texts, near)
           score(m) == Score(m, texts, near)
           rest == SearchAfter(hits, rank, "desc", key)
           before(m, k) == score(k) < score(m) \/ (score(k) = score(m) /\ k < m)
<1>1. \A m \in Memes : score(m) \in Nat /\ m \in Nat
  BY ConstantsAssumption DEF Score
<1>2. \A m \in hits : rank[m] = <<score(m), m>>
  BY DEF ByScore
<1>3. \A m, k \in hits : Precedes(rank[m], rank[k], "desc") <=> before(m, k)
  <2>1. hits \subseteq Memes
    OBVIOUS
  <2> HIDE DEF hits, rank
  <2> TAKE m, k \in hits
  <2>2. /\ score(m) \in Nat /\ m \in Nat /\ rank[m] = <<score(m), m>>
        /\ score(k) \in Nat /\ k \in Nat /\ rank[k] = <<score(k), k>>
    BY <1>1, <1>2, <2>1
  <2> HIDE DEF score
  <2> QED BY <2>2, PrecedesTwo
<1>4. \A m \in hits : rank[m] # NoKey
  <2> HIDE DEF rank, score
  <2> QED BY <1>1, <1>2, PrecedesTwo
<1>5. hits \subseteq Memes /\ rest \subseteq hits /\ IsFiniteSet(rest)
  <2>1. hits \subseteq Memes /\ rest \subseteq hits
    BY DEF SearchAfter
  <2> HIDE DEF rest, hits
  <2> QED BY <2>1, ConstantsAssumption, FS_Subset
<1>6. PageSize \in Nat \ {0} /\ Cardinality({}) = 0
  BY ConstantsAssumption, FS_EmptySet
<1>7. StrictOrder(Sorted(rest, rank, "desc"), rest)
  <2>1. \A m, k \in rest : <<m, k>> \in Sorted(rest, rank, "desc") <=> before(m, k)
    <3> HIDE DEF rest, rank, before, hits
    <3> QED BY <1>3, <1>5 DEF Sorted
  <2> HIDE DEF rest, rank, score, hits
  <2>2. \A m \in rest : ~before(m, m)
    BY <1>1, <1>5
  <2>3. \A m, k, l \in rest : before(m, k) /\ before(k, l) => before(m, l)
    BY <1>1, <1>5
  <2> HIDE DEF before
  <2> QED BY <2>1, <2>2, <2>3 DEF StrictOrder
<1>8. rest = {m \in hits : key = NoKey \/ Precedes(key, rank[m], "desc")}
  BY DEF SearchAfter
<1> HIDE DEF rest, rank, hits
<1>9. Pages(rest, rank, "desc", PageSize) # {}
  BY <1>5, <1>6, <1>7, PageExists
<1>10. Answers(hits, rank, "desc", key, PageSize) # {}
  BY <1>9 DEF Answers, rest
<1>11. ASSUME NEW x \in Answers(hits, rank, "desc", key, PageSize)
       PROVE  RankedPageIs(hits, rank, key, x)
  <2>1. PICK P \in Pages(rest, rank, "desc", PageSize) :
          x = [hits |-> P, key |-> extractSortKey(P, rank, "desc")]
    BY DEF Answers, rest
  <2>2. /\ P \subseteq rest /\ IsFiniteSet(P) /\ Cardinality(P) <= PageSize
        /\ Cardinality(P) < PageSize => P = rest
        /\ P = {} => rest = {} /\ extractSortKey(P, rank, "desc") = NoKey
        /\ \A m \in P, k \in rest \ P : ~Precedes(rank[k], rank[m], "desc")
        /\ P # {} => \E p \in P : /\ extractSortKey(P, rank, "desc") = rank[p]
                                 /\ \A m \in P : ~Precedes(rank[p], rank[m], "desc")
    BY <1>5, <1>6, <1>7, PageFacts
  <2>3. Cardinality(P) \in 0 .. PageSize
    BY <1>6, <2>2, FS_CardinalityType
  <2>4. ASSUME P # {}
        PROVE  /\ x.key # NoKey /\ \E p \in hits : x.key = rank[p]
               /\ \A m \in hits : m \in P \/ m \notin rest
                                    <=> ~Precedes(x.key, rank[m], "desc")
    <3>1. PICK p \in P : /\ x.key = rank[p]
                         /\ \A m \in P : ~Precedes(rank[p], rank[m], "desc")
      BY <2>1, <2>2, <2>4
    <3>2. p \in hits /\ p \in rest
      BY <1>5, <2>2
    <3>3. \A m \in rest \ P : ~before(m, p)
      BY <1>3, <1>5, <2>2, <3>2
    <3>4. \A m \in rest \ P : before(p, m)
      <4> HIDE DEF score
      <4> QED BY <1>1, <1>5, <3>1, <3>2, <3>3
    <3>5. ASSUME NEW m \in hits \ rest
          PROVE  ~before(p, m)
      <4>1. key # NoKey /\ ~Precedes(key, rank[m], "desc") /\ Precedes(key, rank[p], "desc")
        BY <1>8, <3>2
      <4>2. PICK k \in hits : key = rank[k]
        BY <4>1 DEF hits, rank
      <4>3. ~before(k, m) /\ before(k, p)
        BY <1>3, <3>2, <4>1, <4>2
      <4> HIDE DEF score
      <4> QED BY <1>1, <1>5, <3>2, <4>3
    <3> HIDE DEF before
    <3> QED BY <1>3, <1>4, <1>5, <2>2, <3>1, <3>2, <3>4, <3>5
  <2>5. P = {} => x.key = NoKey
    BY <2>1, <2>2
  <2> QED BY <2>1, <2>2, <2>3, <2>4, <2>5 DEF RankedPageIs, rest
<1> QED BY <1>10, <1>11 DEF hits, rank

\* A search by text or id finds the meme of that id or goes on with the ranked hits.
LEMMA SearchRanked ==
  ASSUME StoreInv, NEW r, r.query.of \in {"text", "id"},
         \/ r.after = None
         \/ /\ r.after.searcher = "hybrid_searcher"
            /\ \E p \in HitsIn(docs, r) : r.after.key = RankIn(docs, r)[p],
         NEW x \in Search(r.query, r.type, r.after)
  PROVE  \/ r.after = None /\ r.query.of = "id" /\ x.after = None
         \/ \E y : /\ RankedPageIs(HitsIn(docs, r), RankIn(docs, r), r.after.key, y)
                   /\ x.hits = y.hits
                   /\ x.after = IF y.key = NoKey THEN None
                                ELSE [searcher |-> "hybrid_searcher", key |-> y.key]
<1> DEFINE q == r.query
           t == r.type
           after == r.after
           Resumed(i) == after # None /\ Searchers[i] = after.searcher
           Asked == {i \in DOMAIN Searchers : after = None \/ \E k \in 1 .. i : Resumed(k)}
           Reply(i) == Ask(Searchers[i], q, t, IF Resumed(i) THEN after.key ELSE NoKey)
           Finding == {i \in Asked : \E y \in Reply(i) : y.hits # {}}
           ranked == Answers(HitsIn(docs, r), RankIn(docs, r), "desc", after.key, PageSize)
<1>1. /\ DOMAIN Searchers = 1 .. 3 /\ Searchers[1] = "id_searcher"
      /\ Searchers[2] = "hybrid_searcher" /\ Searchers[3] = "all_searcher"
  BY DEF Searchers
<1>2. /\ TextMatches(q, t) = TextsIn(docs, r) /\ Scope(t) = ScopeIn(docs, t)
  BY ScopeFacts DEF TextMatches, TextsIn
<1>3. (IF Resumed(2) THEN after.key ELSE NoKey) = after.key
  BY <1>1 DEF None
<1>4. Reply(2) = ranked
  <2>1. Reply(2) = HybridSearcher(q, t, after.key)
    BY <1>1, <1>3 DEF Ask
  <2>2. HybridSearcher(q, t, after.key) = SearchHybridOrderByScore(q, t, after.key)
    BY DEF HybridSearcher
  <2> QED BY <1>2, <2>1, <2>2 DEF SearchHybridOrderByScore, HitsIn, RankIn
<1>5. Reply(3) = {NoHits}
  BY <1>1 DEF Ask, AllSearcher
<1>6. /\ \A y \in Reply(1) : y.key = NoKey
      /\ q.of = "text" => Reply(1) = {NoHits}
  <2>1. Reply(1) = IdSearcher(q, IF Resumed(1) THEN after.key ELSE NoKey)
    BY <1>1 DEF Ask
  <2> HIDE DEF Reply, Resumed, q
  <2> QED BY <2>1 DEF IdSearcher, NoHits
<1>7. /\ Asked \subseteq 1 .. 3 /\ 2 \in Asked
      /\ after # None => 1 \notin Asked
  <2>1. 2 \in 1 .. 2 /\ 2 \in 1 .. 3 /\ \A k \in 1 .. 1 : k = 1
    OBVIOUS
  <2>2. after # None => Resumed(2) /\ ~Resumed(1)
    BY <1>1
  <2> QED BY <1>1, <2>1, <2>2
<1>8. NoHits.hits = {}
  BY DEF NoHits
<1>9. /\ \A y \in ranked : RankedPageIs(HitsIn(docs, r), RankIn(docs, r), after.key, y)
      /\ ranked # {}
  <2> DEFINE texts == TextsIn(docs, r)
             near == Nearest(ScopeIn(docs, r.type))
  <2>1. texts \in SUBSET Memes /\ near \in SUBSET Memes
    BY DEF TextsIn, Nearest, ScopeIn, StoreInv
  <2>2. HitsIn(docs, r) = texts \cup near /\ RankIn(docs, r) = ByScore(texts, near)
    BY DEF HitsIn, RankIn
  <2>3. after.key = NoKey \/ \E p \in texts \cup near : after.key = ByScore(texts, near)[p]
    BY <2>2 DEF None
  <2> HIDE DEF texts, near
  <2> QED BY <2>1, <2>2, <2>3, RankedPage
<1>10. x \in IF Finding = {} THEN {[hits |-> {}, after |-> None]}
             ELSE {[hits |-> y.hits,
                    after |-> IF y.key = NoKey THEN None
                              ELSE [searcher |-> Searchers[Min(Finding)], key |-> y.key]] :
                     y \in Reply(Min(Finding))}
  BY DEF Search
<1>11. /\ Finding \subseteq {1, 2}
       /\ 1 \in Finding => after = None /\ q.of = "id"
       /\ 2 \notin Finding => \A y \in ranked : y.hits = {}
  <2> HIDE DEF Asked, Reply, ranked
  <2>1. \A i \in Asked : i = 1 \/ i = 2 \/ i = 3
    BY <1>7
  <2>2. 3 \notin Finding
    BY <1>5, <1>8
  <2>3. Finding \subseteq {1, 2}
    BY <2>1, <2>2
  <2>4. 1 \in Finding => q.of # "text" /\ 1 \in Asked
    BY <1>6, <1>8
  <2>5. 2 \notin Finding => \A y \in ranked : y.hits = {}
    BY <1>4, <1>7
  <2> QED BY <1>7, <2>3, <2>4, <2>5
<1> HIDE DEF Finding, Reply, ranked
<1>12. CASE Finding = {}
  <2>1. PICK y \in ranked : TRUE
    BY <1>9
  <2>2. y.hits = {} /\ y.key = NoKey
    BY <1>9, <1>11, <1>12 DEF RankedPageIs
  <2>3. x.hits = {} /\ x.after = None
    BY <1>10, <1>12
  <2> QED BY <1>9, <2>1, <2>2, <2>3
<1>13. CASE 1 \in Finding
  <2>1. Finding = {1} \/ Finding = {1, 2}
    BY <1>11, <1>13
  <2>2. Min({1}) = 1 /\ Min({1, 2}) = 1
    BY DEF Min
  <2>3. Min(Finding) = 1
    BY <2>1, <2>2
  <2> QED BY <1>6, <1>10, <1>11, <1>13, <2>3
<1>14. CASE Finding # {} /\ 1 \notin Finding
  <2>1. Finding = {2}
    BY <1>11, <1>14
  <2>2. Min({2}) = 2
    BY DEF Min
  <2>3. PICK y \in ranked :
          x = [hits |-> y.hits,
               after |-> IF y.key = NoKey THEN None
                         ELSE [searcher |-> "hybrid_searcher", key |-> y.key]]
    BY <1>1, <1>4, <1>10, <2>1, <2>2
  <2> QED BY <1>9, <2>3
<1> QED BY <1>12, <1>13, <1>14

-----------------------------------------------------------------------------
(* The steps *)

\* The parts of the invariant.
LEMMA InvParts ==
  ASSUME ReadersInv, NEW s \in Sessions
  PROVE  LET r == session[s] IN
         /\ StoreInv /\ SessionInv(s) /\ DOMAIN r = Fields
         /\ Typed(r) /\ BlobsKept(r, orig, doomed) /\ StoodThere(r, docs, created)
         /\ Walked(r, created) /\ Drawn(r, docs) /\ Found(r, docs)
         /\ Handled(r) \subseteq Memes /\ Handled(r) = {m \in Memes : r.shown[m] > 0}
<1> QED BY DEF ReadersInv, StoreInv, SessionInv, SessionOk, Handled

\* A session moves alone: the others keep what holds of them.
LEMMA OthersKeep ==
  ASSUME ReadersInv, NEW s \in Sessions, Alone(s), docs' = docs, StoreMoves,
         StoreInv', SessionInv(s)'
  PROVE  ReadersInv'
<1>1. ASSUME NEW t \in Sessions
      PROVE  SessionInv(t)'
  <2>1. CASE t = s
    BY <2>1
  <2>2. CASE t # s
    <3>1. session'[t] = session[t]
      BY <2>2 DEF Alone
    <3>2. Undisturbed(t)
      BY <3>1 DEF Undisturbed, SameFields
    <3> QED BY <3>2, UndisturbedKeeps DEF ReadersInv
  <2> QED BY <2>1, <2>2
<1> QED BY <1>1 DEF ReadersInv

\* A session only reads.
LEMMA ReadOnly ==
  ASSUME ReadersInv, NEW s \in Sessions, Alone(s),
         UNCHANGED <<docs, orig, thumbs, created, doomed>>,
         SessionOk(session'[s], docs, orig, created, doomed)
  PROVE  ReadersInv'
<1>1. StoreInv'
  BY DEF ReadersInv, StoreInv, Alone
<1>2. StoreMoves
  BY DEF ReadersInv, StoreInv, StoreMoves
<1>3. SessionInv(s)'
  BY DEF SessionInv
<1> QED BY <1>1, <1>2, <1>3, OthersKeep

\* A session that fails.
LEMMA FailedIsOk ==
  ASSUME NEW r, NEW n, NEW D, NEW O, NEW c, NEW X, SessionOk(r, D, O, c, X),
         r.step \notin {"idle", "original", "thumbnail"}, n.step = "failed",
         n.kind = r.kind, n.query = r.query, n.type = r.type, n.key = r.key,
         n.after = r.after, n.page = r.page, n.todo = r.todo, n.total = r.total,
         n.shown = r.shown, n.stood = r.stood, n.quiet = r.quiet
  PROVE  SessionOk(n, D, O, c, X)
<1>0. /\ Typed(r) /\ BlobsKept(r, O, X) /\ StoodThere(r, D, c)
      /\ Walked(r, c) /\ Drawn(r, D) /\ Found(r, D)
  BY DEF SessionOk
<1>1. Typed(n)
  BY <1>0 DEF Typed, StepsOf, KindTag
<1>2. BlobsKept(n, O, X)
  BY <1>0 DEF BlobsKept
<1>3. Handled(n) = Handled(r)
  BY DEF Handled
<1>4. StoodThere(n, D, c)
  BY <1>0, <1>3 DEF StoodThere
<1>5. Walked(n, c)
  <2>1. Pending(n) = {} /\ KeyOf(n) = KeyOf(r) /\ (Walking(n) <=> Walking(r))
    BY <1>0 DEF Pending, KeyOf, Walking
  <2> QED BY <1>0, <2>1 DEF Walked, Final
<1>6. Drawn(n, D) /\ Found(n, D)
  BY <1>0 DEF Drawn, Found
<1> QED BY <1>1, <1>2, <1>4, <1>5, <1>6 DEF SessionOk

\* A query fails.
LEMMA QueryFailsStep ==
  ASSUME ReadersInv, NEW s \in Sessions, QueryFails(s)
  PROVE  ReadersInv'
<1> DEFINE r == session[s]
           n == session'[s]
<1>1. /\ Go(s, [step |-> "failed"]) /\ r.step \in {"fetch", "count", "pick"}
      /\ UNCHANGED <<docs, orig, thumbs, created, doomed>>
  BY DEF QueryFails, Now
<1>2. StoreInv /\ SessionOk(r, docs, orig, created, doomed)
  BY InvParts DEF SessionInv
<1>3. Alone(s) /\ n.step = "failed" /\ \A f \in Fields \ {"step"} : n[f] = r[f]
  BY <1>1, <1>2, GoChanges DEF Fields
<1>4. SessionOk(n, docs, orig, created, doomed)
  <2> HIDE DEF r, n
  <2> QED BY <1>1, <1>2, <1>3, FailedIsOk DEF Fields
<1> QED BY <1>1, <1>3, <1>4, ReadOnly

\* A request arrives.
LEMMA BeginStep ==
  ASSUME ReadersInv, NEW s \in Sessions, NEW kind \in UNION {Kinds[t] : t \in Sessions},
         NEW q \in Queries, NEW t \in Types, Begin(s, kind, q, t)
  PROVE  ReadersInv'
<1> DEFINE r == session[s]
           n == session'[s]
           page == IF kind = "delete" THEN GetById(q.id) ELSE {}
           step == CASE kind = "random" -> "count"
                     [] kind = "delete" -> IF page = {} THEN "failed" ELSE "purge"
                     [] OTHER -> "fetch"
           changes == [kind |-> kind, query |-> q, type |-> t, page |-> page, todo |-> page,
                       stood |-> docs, quiet |-> TRUE, step |-> step]
<1>1. /\ r.step = "idle" /\ kind \in Kinds[s] /\ Go(s, changes)
      /\ (kind \in {"web", "inline", "random"} \/ t = "")
      /\ UNCHANGED <<docs, orig, thumbs, created, doomed>>
  BY DEF Begin, Now
<1>2. /\ StoreInv /\ Typed(r) /\ Handled(r) = {m \in Memes : r.shown[m] > 0}
  BY InvParts
<1>3. /\ Alone(s) /\ n.kind = kind /\ n.query = q /\ n.type = t /\ n.page = page
      /\ n.todo = page /\ n.stood = docs /\ n.quiet = TRUE /\ n.step = step
      /\ n.key = r.key /\ n.after = r.after /\ n.total = r.total /\ n.shown = r.shown
  <2> HIDE DEF page, step
  <2>1. DOMAIN changes = {"kind", "query", "type", "page", "todo", "stood", "quiet", "step"}
    OBVIOUS
  <2>2. /\ Alone(s) /\ \A f \in DOMAIN changes : n[f] = changes[f]
        /\ \A f \in Fields \ DOMAIN changes : n[f] = r[f]
    <3> HIDE DEF changes
    <3>1. DOMAIN changes \subseteq Fields
      BY <2>1 DEF Fields
    <3>2. StoreInv /\ Go(s, changes)
      BY <1>1, <1>2
    <3> QED BY <3>1, <3>2, GoChanges, Zenon
  <2> QED BY <2>1, <2>2 DEF Fields
<1>4. /\ kind \in KindTag /\ q \in Query /\ t \in TypeTag
  BY <1>1, ConstantsAssumption, QueryAssumption DEF KindTag
<1>5. page \subseteq docs /\ docs \subseteq Memes /\ \A m \in docs : created[m] # 0
  BY <1>2 DEF GetById, accountIdsQuery, StoreInv
<1>6. /\ step # "idle" /\ step \in StepsOf(kind) /\ (step = "purge" => page # {})
      /\ step \in {"count", "failed", "purge", "fetch"}
      /\ (kind \notin {"random", "delete"} => step = "fetch")
      /\ (kind = "random" => step = "count")
  BY <1>4 DEF StepsOf, KindTag
<1> HIDE DEF r, n, page, step
<1>7. r.key = NoKey /\ r.after = None /\ \A m \in Memes : r.shown[m] = 0
  BY <1>1, <1>2 DEF Typed
<1>8. Handled(n) = {}
  BY <1>3, <1>7 DEF Handled
<1>9. Typed(n)
  BY <1>1, <1>2, <1>3, <1>4, <1>5, <1>6 DEF Typed
<1>10. BlobsKept(n, orig, doomed)
  <2>1. \A m \in docs : m \in doomed \/ m \in orig
    BY <1>2 DEF StoreInv
  <2> QED BY <1>3, <1>5, <1>6, <2>1 DEF BlobsKept
<1>11. StoodThere(n, docs, created)
  BY <1>3, <1>5, <1>8 DEF StoodThere
<1>12. Walked(n, created)
  <2> SUFFICES ASSUME Walking(n) PROVE Walked(n, created)
    BY DEF Walked
  <2>1. n.step = "fetch" /\ Pending(n) = {}
    BY <1>3, <1>6 DEF Walking, Pending
  <2>2. KeyOf(n) = NoKey
    BY <1>3, <1>7 DEF KeyOf, None
  <2>3. \A m \in Memes : Later(n, created, m)
    BY <2>2 DEF Later, Beyond
  <2>4. WantedBy(n) \subseteq Memes
    BY <1>3, <1>5 DEF WantedBy
  <2>5. IsKey(NoKey)
    BY DEF IsKey
  <2> QED BY <1>3, <1>7, <1>8, <2>1, <2>2, <2>3, <2>4, <2>5 DEF Walked, Final
<1>13. Drawn(n, docs)
  BY <1>3, <1>6, <1>8 DEF Drawn
<1>14. Found(n, docs)
  <2>1. n.after = None /\ \A m \in Memes : n.shown[m] = 0
    BY <1>3, <1>7
  <2>2. n.kind \in {"web", "inline"} => n.step = "fetch"
    BY <1>3, <1>6
  <2>3. \A m : ~Passed(docs, n, n.after.key, m)
    BY <2>1 DEF Passed, None
  <2> QED BY <1>8, <2>1, <2>2, <2>3 DEF Found
<1>15. SessionOk(n, docs, orig, created, doomed)
  BY <1>9, <1>10, <1>11, <1>12, <1>13, <1>14 DEF SessionOk
<1> QED BY <1>1, <1>3, <1>15, ReadOnly DEF n

\* The next page of a session's walk.
LEMMA WalkGoesOn ==
  ASSUME StoreInv, NEW r, Typed(r), Walked(r, created), Walking(r), r.step = "fetch",
         NEW S \in SUBSET Memes, WantedBy(r) \ Handled(r) \subseteq S,
         NEW x \in Answers(S, OneField(ValueOf(r, created)), OrderOf(r), KeyOf(r), PageSize)
  PROVE  NextPageIs(S, ValueOf(r, created), OrderOf(r), Handled(r), WantedBy(r), x)
<1> DEFINE v == ValueOf(r, created)
<1>1. v \in [Memes -> Nat] /\ OrderOf(r) \in {"asc", "desc"}
  BY CreatedIsNatural, ConstantsAssumption DEF ValueOf, OrderOf
<1>2. Handled(r) \in SUBSET Memes /\ WantedBy(r) \in SUBSET Memes
  BY DEF Handled, WantedBy, Typed
<1>3. Pending(r) = {} /\ IsKey(KeyOf(r)) /\ r.step \notin Final
  BY DEF Pending, Walked, Final
<1>4. \A m \in Handled(r) : ~Beyond(v, OrderOf(r), KeyOf(r), m)
  BY <1>3 DEF Walked, Later
<1>5. \A m \in WantedBy(r) : \/ m \in Handled(r) \/ TiedIn(Handled(r), v, m)
                             \/ Beyond(v, OrderOf(r), KeyOf(r), m)
  <2>1. Handled(r) \cup Pending(r) = Handled(r)
    BY <1>3
  <2> HIDE DEF v
  <2> QED BY <1>3, <2>1 DEF Walked, Later, v
<1>6. x \in Answers(S, OneField(v), OrderOf(r), KeyOf(r), PageSize)
  OBVIOUS
<1> HIDE DEF v
<1>7. NextPageIs(S, v, OrderOf(r), Handled(r), WantedBy(r), x)
  BY <1>1, <1>2, <1>3, <1>4, <1>5, <1>6, NextPage
<1> QED BY <1>7 DEF v

\* A page of a search.
LEMMA SearchPageStep ==
  ASSUME ReadersInv, NEW s \in Sessions, SearchPage(s)
  PROVE  ReadersInv'
<1> DEFINE r == session[s]
           n == session'[s]
<1>1. PICK x \in Search(r.query, r.type, r.after) :
        Go(s, [shown |-> Count(r.shown, x.hits),
               after |-> IF r.kind = "web" THEN WebNext(x) ELSE InlineNext(x),
               step |-> IF (IF r.kind = "web" THEN WebNext(x) ELSE InlineNext(x)) = None
                          THEN "end" ELSE "fetch"])
  BY DEF SearchPage
<1> DEFINE next == IF r.kind = "web" THEN WebNext(x) ELSE InlineNext(x)
           shown == Count(r.shown, x.hits)
           step == IF next = None THEN "end" ELSE "fetch"
<1>2. /\ r.step = "fetch" /\ r.kind \in {"web", "inline"}
      /\ UNCHANGED <<docs, orig, thumbs, created, doomed>>
  BY DEF SearchPage, Now
<1>3. /\ StoreInv /\ Typed(r) /\ BlobsKept(r, orig, doomed) /\ StoodThere(r, docs, created)
      /\ Walked(r, created) /\ Found(r, docs) /\ Handled(r) \subseteq Memes
      /\ Handled(r) = {m \in Memes : r.shown[m] > 0}
  BY InvParts
<1>4. /\ Alone(s) /\ n.shown = shown /\ n.after = next /\ n.step = step
      /\ \A f \in Fields \ {"shown", "after", "step"} : n[f] = r[f]
  <2> HIDE DEF next, shown, step
  <2> DEFINE changes == [shown |-> shown, after |-> next, step |-> step]
  <2>1. DOMAIN changes = {"shown", "after", "step"}
    OBVIOUS
  <2>2. Go(s, changes)
    BY <1>1 DEF next, shown, step
  <2>3. /\ Alone(s) /\ \A f \in DOMAIN changes : n[f] = changes[f]
        /\ \A f \in Fields \ DOMAIN changes : n[f] = r[f]
    <3>1. DOMAIN changes \subseteq Fields
      BY <2>1 DEF Fields
    <3> HIDE DEF changes
    <3> QED BY <1>3, <2>2, <3>1, GoChanges, Zenon
  <2> QED BY <2>1, <2>3
<1>5. /\ n.kind = r.kind /\ n.query = r.query /\ n.type = r.type /\ n.key = r.key
      /\ n.page = r.page /\ n.todo = r.todo /\ n.total = r.total /\ n.stood = r.stood
      /\ n.quiet = r.quiet
  BY <1>4 DEF Fields
<1>6. /\ x.hits \subseteq docs /\ (x.after # None => x.after.key # NoKey)
      /\ docs \subseteq Memes /\ \A m \in docs : created[m] # 0
  BY <1>3, SearchTyped DEF StoreInv
<1>7. /\ shown \in [Memes -> 0 .. 2]
      /\ \A m \in Memes : shown[m] > 0 <=> r.shown[m] > 0 \/ m \in x.hits
      /\ \A m \in Memes : r.shown[m] <= 1 /\ ~(r.shown[m] > 0 /\ m \in x.hits) => shown[m] <= 1
  <2>1. r.shown \in [Memes -> 0 .. 2] /\ x.hits \in SUBSET Memes
    BY <1>3, <1>6 DEF Typed
  <2> HIDE DEF r
  <2> QED BY <2>1, CountFacts
<1>8. next # None => next.key # NoKey /\ next = x.after
  BY <1>6 DEF WebNext, InlineNext
<1>9. step \in {"end", "fetch"} /\ (step = "end" <=> next = None)
  OBVIOUS
<1>10. next = x.after \/ (r.kind # "web" /\ next = None /\ Cardinality(x.hits) # PageSize)
  BY DEF WebNext, InlineNext
<1> HIDE DEF r, n, next, shown, step
<1>11. Handled(n) = Handled(r) \cup x.hits
  BY <1>3, <1>4, <1>6, <1>7 DEF Handled
<1>12. Typed(n)
  BY <1>2, <1>3, <1>4, <1>5, <1>7, <1>8, <1>9 DEF Typed, StepsOf
<1>13. BlobsKept(n, orig, doomed)
  BY <1>3, <1>4, <1>5, <1>9 DEF BlobsKept
<1>14. StoodThere(n, docs, created)
  BY <1>2, <1>3, <1>5, <1>6, <1>11 DEF StoodThere
<1>15. Walked(n, created)
  <2> SUFFICES ASSUME Walking(n) PROVE Walked(n, created)
    BY DEF Walked
  <2>1. Walking(r) /\ r.query.of = "all" /\ KeyOf(r) = r.after.key /\ KeyOf(n) = next.key
    BY <1>2, <1>4, <1>5 DEF Walking, KeyOf
  <2>2. IsKey(r.after.key) /\ (r.after # None => r.after.searcher = "all_searcher")
    BY <1>3, <2>1 DEF Walked
  <2>3. PICK y \in Answers(Scope(r.type), OneField(created), "desc", r.after.key, PageSize) :
          /\ x.hits = y.hits
          /\ x.after = IF y.key = NoKey THEN None
                       ELSE [searcher |-> "all_searcher", key |-> y.key]
    BY <1>3, <2>1, <2>2, SearchAll
  <2>4. ValueOf(r, created) = created /\ OrderOf(r) = "desc"
        /\ ValueOf(n, created) = created /\ OrderOf(n) = "desc"
    BY <1>2, <1>5 DEF ValueOf, OrderOf
  <2>5. Scope(r.type) \in SUBSET Memes /\ WantedBy(r) \ Handled(r) \subseteq Scope(r.type)
    BY <1>2, <1>3, <1>6, ScopeFacts DEF ScopeIn, WantedBy, StoodThere
  <2> DEFINE L == Handled(r) \cup x.hits
  <2>6. /\ x.hits \cap Handled(r) = {}
        /\ IsKey(y.key) /\ (y.key = NoKey <=> x.hits = {})
        /\ Cardinality(x.hits) \in 0 .. PageSize
        /\ Cardinality(x.hits) < PageSize =>
             \A m \in WantedBy(r) : m \in L \/ TiedIn(L, created, m)
        /\ x.hits # {} =>
             /\ \A m \in L : ~Beyond(created, "desc", y.key, m)
             /\ \A m \in WantedBy(r) :
                  \/ m \in L \/ TiedIn(L, created, m) \/ Beyond(created, "desc", y.key, m)
    <3>1. y \in Answers(Scope(r.type), OneField(ValueOf(r, created)), OrderOf(r), KeyOf(r),
                        PageSize)
      BY <2>1, <2>3, <2>4
    <3>2. NextPageIs(Scope(r.type), ValueOf(r, created), OrderOf(r), Handled(r), WantedBy(r), y)
      BY <1>2, <1>3, <2>1, <2>5, <3>1, WalkGoesOn
    <3> QED BY <2>3, <2>4, <3>2 DEF NextPageIs
  <2>7. next = None => Cardinality(x.hits) < PageSize
    <3>1. PageSize \in Nat \ {0} /\ Cardinality({}) = 0
      BY ConstantsAssumption, FS_EmptySet
    <3>2. next = None /\ next = x.after => y.key = NoKey
      BY <2>3 DEF None
    <3> QED BY <1>10, <2>6, <3>1, <3>2
  <2>8. next # None => /\ x.hits # {} /\ next.key = y.key
                       /\ next.searcher = "all_searcher"
    BY <1>8, <2>3, <2>6
  <2>9. IsKey(next.key)
    BY <2>6, <2>8 DEF IsKey, None
  <2>10. WantedBy(n) = WantedBy(r) /\ Pending(n) = {}
    BY <1>4, <1>5, <1>9 DEF WantedBy, Pending
  <2>11. \A m \in Memes : n.shown[m] <= 1
    BY <1>3, <1>4, <1>7, <2>1, <2>6 DEF Walked
  <2>12. next # None => \A m : Later(n, created, m) <=> Beyond(created, "desc", y.key, m)
    BY <2>1, <2>4, <2>8 DEF Later
  <2> QED BY <1>4, <1>9, <1>11, <2>1, <2>4, <2>6, <2>7, <2>8, <2>9, <2>10, <2>11, <2>12
          DEF Walked, Final
<1>16. Drawn(n, docs)
  BY <1>2, <1>5 DEF Drawn
<1>17. Found(n, docs)
  <2> SUFFICES ASSUME n.query.of # "all", n.quiet PROVE Found(n, docs)
    BY DEF Found
  <2> DEFINE hits == HitsIn(docs, r)
             rank == RankIn(docs, r)
             texts == TextsIn(docs, r)
  <2>1. HitsIn(docs, n) = hits /\ RankIn(docs, n) = rank /\ TextsIn(docs, n) = texts
    BY <1>5 DEF HitsIn, RankIn, TextsIn
  <2>2. texts \subseteq hits /\ hits \subseteq Memes
    BY <1>6 DEF HitsIn, TextsIn, ScopeIn, Nearest
  <2>3. r.query.of \in {"text", "id"} /\ (r.query.of = "id" => texts = {})
    BY <1>3, <1>5 DEF Typed, Query, TextsIn
  <2>4. /\ \A m \in Memes : r.shown[m] <= 1
        /\ \A m \in hits : m \in Handled(r) <=> Passed(docs, r, r.after.key, m)
        /\ IF r.after = None THEN Handled(r) = {}
           ELSE /\ r.after.searcher = "hybrid_searcher"
                /\ \E p \in hits : r.after.key = rank[p]
    BY <1>2, <1>3, <1>5, <2>3 DEF Found
  <2> HIDE DEF hits, rank, texts
  <2>5. \/ r.after = None /\ r.query.of = "id" /\ x.after = None
        \/ \E y : /\ RankedPageIs(hits, rank, r.after.key, y)
                  /\ x.hits = y.hits
                  /\ x.after = IF y.key = NoKey THEN None
                               ELSE [searcher |-> "hybrid_searcher", key |-> y.key]
    <3>1. x \in Search(r.query, r.type, r.after)
      BY DEF r
    <3> QED BY <1>3, <2>3, <2>4, <3>1, SearchRanked DEF hits, rank
  <2>6. CASE r.after = None /\ r.query.of = "id" /\ x.after = None
    <3>1. next = None /\ step = "end"
      BY <1>9, <1>10, <2>6
    <3>2. \A m \in Memes : r.shown[m] <= 1 /\ m \notin Handled(r)
      BY <2>4, <2>6
    <3>3. \A m \in Memes : n.shown[m] <= 1
      BY <1>3, <1>4, <1>7, <3>2
    <3> QED BY <1>4, <2>1, <2>3, <2>6, <3>1, <3>3 DEF Found
  <2>7. ASSUME NEW y, RankedPageIs(hits, rank, r.after.key, y), x.hits = y.hits,
               x.after = IF y.key = NoKey THEN None
                         ELSE [searcher |-> "hybrid_searcher", key |-> y.key]
        PROVE  Found(n, docs)
    <3> DEFINE rest == SearchAfter(hits, rank, "desc", r.after.key)
    <3>1. rest \subseteq hits /\ \A m \in hits : m \in rest <=> m \notin Handled(r)
      BY <2>4 DEF SearchAfter, Passed, rank
    <3> HIDE DEF rest
    <3>2. /\ x.hits \subseteq rest /\ Cardinality(x.hits) \in 0 .. PageSize
          /\ Cardinality(x.hits) < PageSize => x.hits = rest
          /\ y.key = NoKey <=> x.hits = {}
          /\ x.hits # {} =>
               /\ \E p \in hits : y.key = rank[p]
               /\ \A m \in hits : m \in x.hits \/ m \notin rest
                                    <=> ~Precedes(y.key, rank[m], "desc")
      BY <2>7 DEF RankedPageIs, rest
    <3>3. \A m \in Memes : n.shown[m] <= 1
      <4>1. \A m \in x.hits : m \notin Handled(r)
        BY <3>1, <3>2
      <4> QED BY <1>3, <1>4, <1>7, <2>4, <4>1
    <3>4. \A m \in hits : m \in Handled(n) <=> m \in x.hits \/ m \notin rest
      BY <1>11, <3>1
    <3>5. CASE next = None
      <4>1. Cardinality(x.hits) < PageSize
        <5>1. PageSize \in Nat \ {0} /\ Cardinality({}) = 0
          BY ConstantsAssumption, FS_EmptySet
        <5>2. next = x.after => y.key = NoKey
          BY <2>7, <3>5 DEF None
        <5> QED BY <1>10, <3>2, <5>1, <5>2
      <4>2. texts \subseteq Handled(n)
        BY <2>2, <3>2, <3>4, <4>1
      <4> QED BY <1>4, <1>9, <2>1, <3>3, <3>5, <4>2 DEF Found
    <3>6. CASE next # None
      <4>1. /\ next.key = y.key /\ y.key # NoKey /\ next.searcher = "hybrid_searcher"
            /\ x.hits # {}
        BY <1>8, <2>7, <3>2, <3>6
      <4>2. \A m \in hits : m \in Handled(n) <=> Passed(docs, n, next.key, m)
        BY <2>1, <3>2, <3>4, <4>1 DEF Passed
      <4>3. \E p \in hits : next.key = rank[p]
        BY <3>2, <4>1
      <4> QED BY <1>4, <1>9, <2>1, <3>3, <3>6, <4>1, <4>2, <4>3 DEF Found
    <3> QED BY <3>5, <3>6
  <2> QED BY <2>5, <2>6, <2>7
<1>18. SessionOk(n, docs, orig, created, doomed)
  BY <1>12, <1>13, <1>14, <1>15, <1>16, <1>17 DEF SessionOk
<1> QED BY <1>2, <1>4, <1>18, ReadOnly DEF n

\* A page of memes to export or to delete.
LEMMA PageListed ==
  ASSUME ReadersInv, NEW s \in Sessions, NEW x, NEW first \in {"original", "purge"},
         session[s].step = "fetch", session[s].kind \in {"export", "exportAll", "wipe"},
         first \in StepsOf(session[s].kind),
         Go(s, [page |-> x.hits, todo |-> x.hits, key |-> x.key,
                step |-> IF x.hits = {} THEN "end" ELSE first]),
         UNCHANGED <<docs, orig, thumbs, created, doomed>>,
         x.hits \subseteq docs,
         Walking(session[s]) => \E S :
           NextPageIs(S, ValueOf(session[s], created), OrderOf(session[s]),
                      Handled(session[s]), WantedBy(session[s]), x)
  PROVE  ReadersInv'
<1> DEFINE r == session[s]
           n == session'[s]
           step == IF x.hits = {} THEN "end" ELSE first
<1>3. /\ StoreInv /\ Typed(r) /\ BlobsKept(r, orig, doomed) /\ StoodThere(r, docs, created)
      /\ Walked(r, created) /\ Handled(r) \subseteq Memes
  BY InvParts
<1>4. /\ Alone(s) /\ n.page = x.hits /\ n.todo = x.hits /\ n.key = x.key /\ n.step = step
      /\ \A f \in Fields \ {"page", "todo", "key", "step"} : n[f] = r[f]
  <2> HIDE DEF step
  <2> DEFINE changes == [page |-> x.hits, todo |-> x.hits, key |-> x.key, step |-> step]
  <2>1. DOMAIN changes = {"page", "todo", "key", "step"}
    OBVIOUS
  <2>2. Go(s, changes)
    BY DEF step
  <2>3. /\ Alone(s) /\ \A f \in DOMAIN changes : n[f] = changes[f]
        /\ \A f \in Fields \ DOMAIN changes : n[f] = r[f]
    <3>1. DOMAIN changes \subseteq Fields
      BY <2>1 DEF Fields
    <3> HIDE DEF changes
    <3> QED BY <1>3, <2>2, <3>1, GoChanges, Zenon
  <2> QED BY <2>1, <2>3
<1>5. /\ n.kind = r.kind /\ n.query = r.query /\ n.type = r.type /\ n.after = r.after
      /\ n.total = r.total /\ n.stood = r.stood /\ n.quiet = r.quiet /\ n.shown = r.shown
  BY <1>4 DEF Fields
<1>6. docs \subseteq Memes /\ \A m \in docs : created[m] # 0 /\ (m \in doomed \/ m \in orig)
  BY <1>3 DEF StoreInv
<1>7. /\ step \in {"end", "original", "purge"} /\ step \in StepsOf(r.kind)
      /\ (step = "end" <=> x.hits = {})
  BY DEF StepsOf
<1>8. r.step = "fetch" /\ r.kind \in {"export", "exportAll", "wipe"}
  OBVIOUS
<1>9. Walking(r) => \E S :
        NextPageIs(S, ValueOf(r, created), OrderOf(r), Handled(r), WantedBy(r), x)
  OBVIOUS
<1> HIDE DEF r, n, step
<1>11. Handled(n) = Handled(r)
  BY <1>5 DEF Handled
<1>12. Typed(n)
  BY <1>3, <1>4, <1>5, <1>6, <1>7, <1>8 DEF Typed
<1>13. BlobsKept(n, orig, doomed)
  BY <1>4, <1>6, <1>7 DEF BlobsKept
<1>14. StoodThere(n, docs, created)
  BY <1>3, <1>4, <1>5, <1>6, <1>8, <1>11 DEF StoodThere
<1>15. Walked(n, created)
  <2> SUFFICES ASSUME Walking(n) PROVE Walked(n, created)
    BY DEF Walked
  <2>1. Walking(r) /\ KeyOf(n) = x.key
    BY <1>4, <1>5, <1>8 DEF Walking, KeyOf
  <2> DEFINE v == ValueOf(r, created)
             L == Handled(r) \cup x.hits
  <2>2. ValueOf(n, created) = v /\ OrderOf(n) = OrderOf(r) /\ WantedBy(n) = WantedBy(r)
    BY <1>5 DEF ValueOf, OrderOf, WantedBy
  <2> HIDE DEF v
  <2>3. /\ x.hits \cap Handled(r) = {} /\ IsKey(x.key)
        /\ Cardinality(x.hits) \in 0 .. PageSize
        /\ Cardinality(x.hits) < PageSize =>
             \A m \in WantedBy(r) : m \in L \/ TiedIn(L, v, m)
        /\ x.hits # {} =>
             /\ \A m \in L : ~Beyond(v, OrderOf(r), x.key, m)
             /\ \A m \in WantedBy(r) :
                  \/ m \in L \/ TiedIn(L, v, m) \/ Beyond(v, OrderOf(r), x.key, m)
    BY <1>9, <2>1 DEF NextPageIs, v
  <2>4. Pending(n) = x.hits
    BY <1>4, <1>7 DEF Pending
  <2>5. PageSize \in Nat \ {0} /\ Cardinality({}) = 0
    BY ConstantsAssumption, FS_EmptySet
  <2>6. x.hits = {} => \A m \in WantedBy(r) : m \in Handled(r) \/ TiedIn(Handled(r), v, m)
    <3>1. x.hits = {} => L = Handled(r)
      OBVIOUS
    <3> HIDE DEF L
    <3> QED BY <2>3, <2>5, <3>1
  <2>7. \A m : Later(n, created, m) <=> Beyond(v, OrderOf(r), x.key, m)
    BY <2>1, <2>2 DEF Later
  <2>8. \A m \in WantedBy(r) : m \in L \/ TiedIn(L, v, m) \/ Cardinality(x.hits) >= PageSize
    BY <2>3, <2>5
  <2>9. r.after # None => r.after.searcher = "all_searcher"
    BY <1>3, <2>1 DEF Walked
  <2>10. \A m \in Memes : r.shown[m] <= 1
    BY <1>3, <2>1 DEF Walked
  <2>11. Handled(n) \cup Pending(n) = L
    BY <1>11, <2>4
  <2> HIDE DEF L
  <2> QED BY <1>4, <1>5, <1>7, <1>11, <2>1, <2>2, <2>3, <2>4, <2>6, <2>7, <2>8, <2>9, <2>10,
             <2>11
          DEF Walked, Final
<1>16. Drawn(n, docs) /\ Found(n, docs)
  BY <1>5, <1>8 DEF Drawn, Found
<1>17. SessionOk(n, docs, orig, created, doomed)
  BY <1>12, <1>13, <1>14, <1>15, <1>16 DEF SessionOk
<1> QED BY <1>4, <1>17, ReadOnly DEF n

\* The pages of a walk, sorted by the creation time or by the id.
LEMMA PageOfWalk ==
  ASSUME ReadersInv, NEW s \in Sessions, session[s].step = "fetch",
         session[s].kind \in {"export", "exportAll", "wipe"}, NEW x,
         IF session[s].kind = "exportAll"
           THEN x \in GetAll(session[s].key)
           ELSE x \in GetByAccountIdOrderByCreated("", session[s].key)
  PROVE  /\ x.hits \subseteq docs
         /\ Walking(session[s]) => \E S :
              NextPageIs(S, ValueOf(session[s], created), OrderOf(session[s]),
                         Handled(session[s]), WantedBy(session[s]), x)
<1> DEFINE r == session[s]
           S == IF r.kind = "exportAll" THEN docs ELSE Scope("")
<1>1. /\ StoreInv /\ Typed(r) /\ StoodThere(r, docs, created) /\ Walked(r, created)
  BY InvParts
<1>2. /\ r.step = "fetch" /\ r.kind \in {"export", "exportAll", "wipe"} /\ r.type = ""
  BY <1>1 DEF Typed
<1>3. KeyOf(r) = r.key
  BY DEF KeyOf
<1>4. OneField(ValueOf(r, created)) = IF r.kind = "exportAll" THEN ById ELSE ByCreated
  <2>1. OneField([m \in Memes |-> m]) = ById
    BY DEF OneField, ById
  <2>2. OneField(created) = ByCreated
    BY DEF OneField, ByCreated
  <2> QED BY <2>1, <2>2 DEF ValueOf
<1>5. x \in Answers(S, OneField(ValueOf(r, created)), OrderOf(r), KeyOf(r), PageSize)
  BY <1>3, <1>4 DEF GetAll, GetByAccountIdOrderByCreated, OrderOf
<1>6. S \subseteq docs /\ S \in SUBSET Memes
  BY <1>1, ScopeFacts DEF ScopeIn, StoreInv
<1>7. WantedBy(r) \ Handled(r) \subseteq S
  BY <1>1, <1>2, ScopeFacts DEF WantedBy, ScopeIn, StoodThere, OfType
<1> HIDE DEF r, S
<1>8. x.hits \subseteq docs
  BY <1>5, <1>6, AnswerHits
<1>9. ASSUME Walking(r)
      PROVE  NextPageIs(S, ValueOf(r, created), OrderOf(r), Handled(r), WantedBy(r), x)
  BY <1>1, <1>2, <1>5, <1>6, <1>7, <1>9, WalkGoesOn
<1> QED BY <1>8, <1>9 DEF r

\* A page of an export.
LEMMA ExportPageStep ==
  ASSUME ReadersInv, NEW s \in Sessions, ExportPage(s)
  PROVE  ReadersInv'
<1> DEFINE r == session[s]
<1>1. PICK x \in ListPage(s) :
        Go(s, [page |-> x.hits, todo |-> x.hits, key |-> x.key,
               step |-> IF x.hits = {} THEN "end" ELSE "original"])
  BY DEF ExportPage
<1>2. /\ r.step = "fetch" /\ r.kind \in {"export", "exportAll"}
      /\ UNCHANGED <<docs, orig, thumbs, created, doomed>>
  BY DEF ExportPage, Now
<1>3. "original" \in StepsOf(r.kind)
  BY <1>2 DEF StepsOf
<1>4. CASE r.query.of = "id"
  <2>1. x = [hits |-> GetById(r.query.id), key |-> NoKey]
    <3>1. ListPage(s) = {[hits |-> GetById(r.query.id), key |-> NoKey]}
      BY <1>4 DEF ListPage
    <3> QED BY <3>1
  <2>2. x.hits \subseteq docs
    BY <2>1 DEF GetById, accountIdsQuery
  <2>3. ~Walking(r)
    BY <1>4 DEF Walking
  <2> QED BY <1>1, <1>2, <1>3, <2>2, <2>3, PageListed
<1>5. CASE r.query.of # "id"
  <2>1. IF r.kind = "exportAll" THEN x \in GetAll(r.key)
        ELSE x \in GetByAccountIdOrderByCreated("", r.key)
    BY <1>5 DEF ListPage
  <2>2. /\ x.hits \subseteq docs
        /\ Walking(r) => \E S : NextPageIs(S, ValueOf(r, created), OrderOf(r), Handled(r),
                                            WantedBy(r), x)
    BY <1>2, <2>1, PageOfWalk
  <2> QED BY <1>1, <1>2, <1>3, <2>2, PageListed
<1> QED BY <1>4, <1>5

\* A page of delete-all.
LEMMA WipePageStep ==
  ASSUME ReadersInv, NEW s \in Sessions, WipePage(s)
  PROVE  ReadersInv'
<1> DEFINE r == session[s]
<1>1. PICK x \in GetByAccountIdOrderByCreated("", r.key) :
        Go(s, [page |-> x.hits, todo |-> x.hits, key |-> x.key,
               step |-> IF x.hits = {} THEN "end" ELSE "purge"])
  BY DEF WipePage
<1>2. /\ r.step = "fetch" /\ r.kind = "wipe"
      /\ UNCHANGED <<docs, orig, thumbs, created, doomed>>
  BY DEF WipePage, Now
<1>3. "purge" \in StepsOf(r.kind)
  BY <1>2 DEF StepsOf
<1>4. /\ x.hits \subseteq docs
      /\ Walking(r) => \E S : NextPageIs(S, ValueOf(r, created), OrderOf(r), Handled(r),
                                          WantedBy(r), x)
  <2>1. IF r.kind = "exportAll" THEN x \in GetAll(r.key)
        ELSE x \in GetByAccountIdOrderByCreated("", r.key)
    BY <1>2
  <2> QED BY <1>2, <2>1, PageOfWalk
<1> QED BY <1>1, <1>2, <1>3, <1>4, PageListed

\* exportOne reads the original ...
LEMMA ExportOriginalStep ==
  ASSUME ReadersInv, NEW s \in Sessions, ExportOriginal(s)
  PROVE  ReadersInv'
<1> DEFINE r == session[s]
           n == session'[s]
           step == IF Pick(r.todo) \in orig THEN "thumbnail" ELSE "broken"
<1>1. /\ r.step = "original" /\ Go(s, [step |-> step])
      /\ UNCHANGED <<docs, orig, thumbs, created, doomed>>
  BY DEF ExportOriginal, Now
<1>2. /\ StoreInv /\ Typed(r) /\ BlobsKept(r, orig, doomed) /\ StoodThere(r, docs, created)
      /\ Walked(r, created)
  BY InvParts
<1>3. Alone(s) /\ n.step = step /\ \A f \in Fields \ {"step"} : n[f] = r[f]
  <2> HIDE DEF step
  <2> QED BY <1>1, <1>2, GoChanges DEF Fields
<1>4. /\ n.kind = r.kind /\ n.query = r.query /\ n.type = r.type /\ n.key = r.key
      /\ n.after = r.after /\ n.page = r.page /\ n.todo = r.todo /\ n.total = r.total
      /\ n.shown = r.shown /\ n.stood = r.stood /\ n.quiet = r.quiet
  BY <1>3 DEF Fields
<1>5. r.todo \in SUBSET Memes /\ r.todo # {} /\ r.kind \in {"export", "exportAll"}
  BY <1>1, <1>2 DEF Typed, StepsOf, KindTag
<1>6. step \in {"thumbnail", "broken"} /\ (step = "broken" => Pick(r.todo) \in doomed)
  BY <1>2, <1>5, PickFirst DEF BlobsKept
<1> HIDE DEF r, n, step
<1>7. Handled(n) = Handled(r)
  BY <1>4 DEF Handled
<1>8. Typed(n)
  BY <1>1, <1>2, <1>3, <1>4, <1>5, <1>6 DEF Typed, StepsOf
<1>9. BlobsKept(n, orig, doomed)
  BY <1>2, <1>3, <1>4, <1>6 DEF BlobsKept
<1>10. StoodThere(n, docs, created)
  BY <1>1, <1>2, <1>3, <1>4, <1>7 DEF StoodThere
<1>11. Walked(n, created)
  <2>1. Walking(n) <=> Walking(r)
    BY <1>1, <1>3, <1>4, <1>6 DEF Walking
  <2>2. KeyOf(n) = KeyOf(r) /\ ValueOf(n, created) = ValueOf(r, created)
        /\ OrderOf(n) = OrderOf(r) /\ WantedBy(n) = WantedBy(r)
    BY <1>4 DEF KeyOf, ValueOf, OrderOf, WantedBy
  <2>3. /\ \A m : Later(n, created, m) <=> Later(r, created, m)
    BY <2>2 DEF Later
  <2>4. Pending(r) = r.page /\ Pending(n) = IF step = "broken" THEN {} ELSE r.page
    BY <1>1, <1>3, <1>4, <1>6 DEF Pending
  <2> QED BY <1>1, <1>2, <1>3, <1>4, <1>6, <1>7, <2>1, <2>2, <2>3, <2>4 DEF Walked, Final
<1>12. Drawn(n, docs) /\ Found(n, docs)
  BY <1>4, <1>5 DEF Drawn, Found
<1>13. SessionOk(n, docs, orig, created, doomed)
  BY <1>8, <1>9, <1>10, <1>11, <1>12 DEF SessionOk
<1> QED BY <1>1, <1>3, <1>13, ReadOnly DEF n

\* ... and the thumbnail of the next meme.
LEMMA ExportThumbnailStep ==
  ASSUME ReadersInv, NEW s \in Sessions, ExportThumbnail(s)
  PROVE  ReadersInv'
<1> DEFINE r == session[s]
           n == session'[s]
           m0 == Pick(r.todo)
           rest == r.todo \ {m0}
<1>1. /\ r.step = "thumbnail"
      /\ IF m0 \in thumbs
           THEN Go(s, [todo |-> rest, step |-> IF rest = {} THEN "send" ELSE "original"])
           ELSE Go(s, [step |-> "broken"])
      /\ UNCHANGED <<docs, orig, thumbs, created, doomed>>
  BY DEF ExportThumbnail, Now
<1>2. /\ StoreInv /\ Typed(r) /\ BlobsKept(r, orig, doomed) /\ StoodThere(r, docs, created)
      /\ Walked(r, created)
  BY InvParts
<1>3. r.todo \in SUBSET Memes /\ r.todo # {} /\ r.kind \in {"export", "exportAll"}
  BY <1>1, <1>2 DEF Typed, StepsOf, KindTag
<1>4. m0 \in r.todo /\ m0 \in Memes
  BY <1>3, PickFirst
<1>5. /\ Alone(s) /\ n.todo \subseteq r.todo /\ n.step \in {"send", "original", "broken"}
      /\ (n.step = "original" => n.todo # {})
      /\ (n.step = "broken" => n.todo = r.todo /\ m0 \notin thumbs)
      /\ \A f \in Fields \ {"step", "todo"} : n[f] = r[f]
  <2>1. CASE m0 \in thumbs
    <3> DEFINE step == IF rest = {} THEN "send" ELSE "original"
               changes == [todo |-> rest, step |-> step]
    <3> HIDE DEF rest, step
    <3>1. DOMAIN changes = {"todo", "step"} /\ changes.todo = rest /\ changes.step = step
      OBVIOUS
    <3>2. Go(s, changes)
      BY <1>1, <2>1 DEF step
    <3>3. /\ Alone(s) /\ \A f \in DOMAIN changes : n[f] = changes[f]
          /\ \A f \in Fields \ DOMAIN changes : n[f] = r[f]
      <4>1. DOMAIN changes \subseteq Fields
        BY <3>1 DEF Fields
      <4> HIDE DEF changes
      <4> QED BY <1>2, <3>2, <4>1, GoChanges
    <3> HIDE DEF changes
    <3>4. n.todo = rest /\ n.step = step
      BY <3>1, <3>3
    <3> QED BY <3>1, <3>3, <3>4 DEF step, rest
  <2>2. CASE m0 \notin thumbs
    <3>1. Go(s, [step |-> "broken"])
      BY <1>1, <2>2
    <3>2. Alone(s) /\ n.step = "broken" /\ \A f \in Fields \ {"step"} : n[f] = r[f]
      BY <1>2, <3>1, GoChanges DEF Fields
    <3> QED BY <2>2, <3>2 DEF Fields
  <2> QED BY <2>1, <2>2
<1>6. /\ n.kind = r.kind /\ n.query = r.query /\ n.type = r.type /\ n.key = r.key
      /\ n.after = r.after /\ n.page = r.page /\ n.total = r.total
      /\ n.shown = r.shown /\ n.stood = r.stood /\ n.quiet = r.quiet
  BY <1>5 DEF Fields
<1>7. n.step = "broken" => Pick(n.todo) \in doomed
  <2>1. m0 \notin thumbs => m0 \in doomed
    BY <1>2, <1>4 DEF BlobsKept, StoreInv
  <2> QED BY <1>5, <2>1
<1> HIDE DEF r, n
<1>8. Handled(n) = Handled(r)
  BY <1>6 DEF Handled
<1>9. Typed(n)
  BY <1>1, <1>2, <1>3, <1>5, <1>6 DEF Typed, StepsOf
<1>10. BlobsKept(n, orig, doomed)
  BY <1>2, <1>5, <1>7 DEF BlobsKept
<1>11. StoodThere(n, docs, created)
  BY <1>1, <1>2, <1>5, <1>6, <1>8 DEF StoodThere
<1>12. Walked(n, created)
  <2>1. Walking(n) <=> Walking(r)
    BY <1>1, <1>5, <1>6 DEF Walking
  <2>2. KeyOf(n) = KeyOf(r) /\ ValueOf(n, created) = ValueOf(r, created)
        /\ OrderOf(n) = OrderOf(r) /\ WantedBy(n) = WantedBy(r)
    BY <1>6 DEF KeyOf, ValueOf, OrderOf, WantedBy
  <2>3. /\ \A m : Later(n, created, m) <=> Later(r, created, m)
    BY <2>2 DEF Later
  <2>4. Pending(r) = r.page /\ Pending(n) = IF n.step = "broken" THEN {} ELSE r.page
    BY <1>1, <1>5, <1>6 DEF Pending
  <2> QED BY <1>1, <1>2, <1>5, <1>6, <1>8, <2>1, <2>2, <2>3, <2>4 DEF Walked, Final
<1>13. Drawn(n, docs) /\ Found(n, docs)
  BY <1>3, <1>6 DEF Drawn, Found
<1>14. SessionOk(n, docs, orig, created, doomed)
  BY <1>9, <1>10, <1>11, <1>12, <1>13 DEF SessionOk
<1> QED BY <1>1, <1>5, <1>14, ReadOnly DEF n

\* The client gets the page.
LEMMA ExportCallbackStep ==
  ASSUME ReadersInv, NEW s \in Sessions, ExportCallback(s)
  PROVE  ReadersInv'
<1> DEFINE r == session[s]
           n == session'[s]
           shown == Count(r.shown, r.page)
           step == AfterPage(s)
<1>1. /\ r.step = "send"
      /\ UNCHANGED <<docs, orig, thumbs, created, doomed>>
      /\ \/ Go(s, [shown |-> shown, step |-> step])
         \/ Go(s, [step |-> "failed"])
  BY DEF ExportCallback, Now
<1>2. /\ StoreInv /\ Typed(r) /\ BlobsKept(r, orig, doomed) /\ StoodThere(r, docs, created)
      /\ Walked(r, created) /\ Handled(r) \subseteq Memes
      /\ Handled(r) = {m \in Memes : r.shown[m] > 0}
      /\ SessionOk(r, docs, orig, created, doomed)
  BY InvParts DEF SessionInv
<1>3. CASE Go(s, [step |-> "failed"])
  <2>1. Alone(s) /\ n.step = "failed" /\ \A f \in Fields \ {"step"} : n[f] = r[f]
    BY <1>2, <1>3, GoChanges DEF Fields
  <2>2. SessionOk(n, docs, orig, created, doomed)
    <3> HIDE DEF r, n
    <3> QED BY <1>1, <1>2, <2>1, FailedIsOk DEF Fields
  <2> QED BY <1>1, <2>1, <2>2, ReadOnly
<1>4. CASE Go(s, [shown |-> shown, step |-> step])
  <2>1. /\ Alone(s) /\ n.shown = shown /\ n.step = step
        /\ \A f \in Fields \ {"shown", "step"} : n[f] = r[f]
    <3> DEFINE changes == [shown |-> shown, step |-> step]
    <3> HIDE DEF shown, step
    <3>1. DOMAIN changes = {"shown", "step"} /\ changes.shown = shown /\ changes.step = step
      OBVIOUS
    <3>2. Go(s, changes) /\ DOMAIN changes \subseteq Fields
      BY <1>4, <3>1 DEF Fields
    <3> HIDE DEF changes
    <3>3. /\ Alone(s) /\ \A f \in DOMAIN changes : n[f] = changes[f]
          /\ \A f \in Fields \ DOMAIN changes : n[f] = r[f]
      BY <1>2, <3>2, GoChanges
    <3> QED BY <3>1, <3>3
  <2>2. /\ n.kind = r.kind /\ n.query = r.query /\ n.type = r.type /\ n.key = r.key
        /\ n.after = r.after /\ n.page = r.page /\ n.todo = r.todo /\ n.total = r.total
        /\ n.stood = r.stood /\ n.quiet = r.quiet
    BY <2>1 DEF Fields
  <2>3. r.page \in SUBSET Memes /\ r.kind \in {"export", "exportAll"}
        /\ Cardinality(r.page) \in Nat
    <3>1. r.page \in SUBSET Memes
      BY <1>2 DEF Typed
    <3>2. IsFiniteSet(r.page)
      BY <3>1, ConstantsAssumption, FS_Subset
    <3> QED BY <1>1, <1>2, <3>1, <3>2, FS_CardinalityType DEF Typed, StepsOf, KindTag
  <2>4. /\ shown \in [Memes -> 0 .. 2]
        /\ \A m \in Memes : shown[m] > 0 <=> r.shown[m] > 0 \/ m \in r.page
        /\ \A m \in Memes : r.shown[m] <= 1 /\ ~(r.shown[m] > 0 /\ m \in r.page) => shown[m] <= 1
    <3>1. r.shown \in [Memes -> 0 .. 2]
      BY <1>2 DEF Typed
    <3> HIDE DEF r
    <3> QED BY <2>3, <3>1, CountFacts
  <2>5. step = IF r.query.of = "id" \/ Cardinality(r.page) < PageSize THEN "end" ELSE "fetch"
    BY DEF AfterPage
  <2> HIDE DEF r, n, shown, step
  <2>6. Handled(n) = Handled(r) \cup r.page
    BY <1>2, <2>1, <2>3, <2>4 DEF Handled
  <2>7. step \in {"end", "fetch"}
    BY <2>5
  <2>8. Typed(n)
    BY <1>1, <1>2, <2>1, <2>2, <2>3, <2>4, <2>7 DEF Typed, StepsOf
  <2>9. BlobsKept(n, orig, doomed)
    BY <1>2, <2>1, <2>2, <2>7 DEF BlobsKept
  <2>10. StoodThere(n, docs, created)
    BY <1>1, <1>2, <2>2, <2>6 DEF StoodThere
  <2>11. Walked(n, created)
    <3> SUFFICES ASSUME Walking(n) PROVE Walked(n, created)
      BY DEF Walked
    <3>1. Walking(r) /\ r.query.of = "all"
      BY <1>1, <2>2 DEF Walking
    <3>2. KeyOf(n) = KeyOf(r) /\ ValueOf(n, created) = ValueOf(r, created)
          /\ OrderOf(n) = OrderOf(r) /\ WantedBy(n) = WantedBy(r)
      BY <2>2 DEF KeyOf, ValueOf, OrderOf, WantedBy
    <3>3. \A m : Later(n, created, m) <=> Later(r, created, m)
      BY <3>2 DEF Later
    <3>4. Pending(r) = r.page /\ Pending(n) = {}
      BY <1>1, <2>1, <2>7 DEF Pending
    <3>5. \A m \in Memes : n.shown[m] <= 1
      BY <1>2, <2>1, <2>4, <3>1, <3>4 DEF Walked
    <3>6. step = "end" <=> ~(Cardinality(r.page) >= PageSize)
      BY <2>3, <2>5, <3>1, ConstantsAssumption
    <3> QED BY <1>1, <1>2, <2>1, <2>2, <2>6, <2>7, <3>1, <3>2, <3>3, <3>4, <3>5, <3>6
            DEF Walked, Final
  <2>12. Drawn(n, docs) /\ Found(n, docs)
    BY <2>2, <2>3 DEF Drawn, Found
  <2>13. SessionOk(n, docs, orig, created, doomed)
    BY <2>8, <2>9, <2>10, <2>11, <2>12 DEF SessionOk
  <2> QED BY <1>1, <2>1, <2>13, ReadOnly DEF n
<1> QED BY <1>1, <1>3, <1>4

\* The scope is finite.
LEMMA ScopeFinite ==
  ASSUME StoreInv, NEW t
  PROVE  LET S == ScopeIn(docs, t) IN
         /\ S \subseteq Memes /\ IsFiniteSet(S) /\ Cardinality(S) \in Nat
         /\ Cardinality(S) <= Cardinality(Memes) /\ (Cardinality(S) = 0 <=> S = {})
<1> DEFINE S == ScopeIn(docs, t)
<1>1. S \in SUBSET Memes
  BY DEF ScopeIn, StoreInv
<1> HIDE DEF S
<1>2. IsFiniteSet(S) /\ Cardinality(S) <= Cardinality(Memes)
  BY <1>1, ConstantsAssumption, FS_Subset
<1>3. Cardinality(S) \in Nat /\ (Cardinality(S) = 0 <=> S = {})
  BY <1>2, FS_CardinalityType, FS_EmptySet
<1> QED BY <1>1, <1>2, <1>3 DEF S

\* The memes are counted.
LEMMA CountMemesStep ==
  ASSUME ReadersInv, NEW s \in Sessions, CountMemes(s)
  PROVE  ReadersInv'
<1> DEFINE r == session[s]
           n == session'[s]
           total == Cardinality(Scope(r.type))
           step == IF total = 0 THEN "end" ELSE "pick"
<1>1. /\ r.step = "count" /\ Go(s, [total |-> total, step |-> step])
      /\ UNCHANGED <<docs, orig, thumbs, created, doomed>>
  BY DEF CountMemes, Now
<1>2. /\ StoreInv /\ Typed(r) /\ BlobsKept(r, orig, doomed) /\ StoodThere(r, docs, created)
      /\ Drawn(r, docs)
  BY InvParts
<1>3. /\ Alone(s) /\ n.total = total /\ n.step = step
      /\ \A f \in Fields \ {"total", "step"} : n[f] = r[f]
  <2> DEFINE changes == [total |-> total, step |-> step]
  <2> HIDE DEF total, step
  <2>1. DOMAIN changes = {"total", "step"} /\ changes.total = total /\ changes.step = step
    OBVIOUS
  <2>2. Go(s, changes) /\ DOMAIN changes \subseteq Fields
    BY <1>1, <2>1 DEF Fields
  <2> HIDE DEF changes
  <2>3. /\ Alone(s) /\ \A f \in DOMAIN changes : n[f] = changes[f]
        /\ \A f \in Fields \ DOMAIN changes : n[f] = r[f]
    BY <1>2, <2>2, GoChanges
  <2> QED BY <2>1, <2>3
<1>4. /\ n.kind = r.kind /\ n.query = r.query /\ n.type = r.type /\ n.key = r.key
      /\ n.after = r.after /\ n.page = r.page /\ n.todo = r.todo
      /\ n.shown = r.shown /\ n.stood = r.stood /\ n.quiet = r.quiet
  BY <1>3 DEF Fields
<1>5. /\ total = Cardinality(ScopeIn(docs, r.type)) /\ total \in Nat
      /\ total <= Cardinality(Memes) /\ (total = 0 <=> ScopeIn(docs, r.type) = {})
  BY <1>2, ScopeFacts, ScopeFinite
<1>6. r.kind = "random"
  BY <1>1, <1>2 DEF Typed, StepsOf, KindTag
<1>7. step \in {"end", "pick"} /\ (step = "end" <=> total = 0)
  OBVIOUS
<1> HIDE DEF r, n, total, step
<1>8. Handled(n) = Handled(r)
  BY <1>4 DEF Handled
<1>9. Typed(n)
  BY <1>1, <1>2, <1>3, <1>4, <1>5, <1>6, <1>7 DEF Typed, StepsOf
<1>10. BlobsKept(n, orig, doomed)
  BY <1>2, <1>3, <1>4, <1>7 DEF BlobsKept
<1>11. StoodThere(n, docs, created)
  BY <1>1, <1>2, <1>3, <1>4, <1>8 DEF StoodThere
<1>12. Walked(n, created)
  BY <1>4, <1>6 DEF Walked, Walking
<1>13. Drawn(n, docs) /\ Found(n, docs)
  BY <1>1, <1>2, <1>3, <1>4, <1>5, <1>6, <1>7, <1>8 DEF Drawn, Found
<1>14. SessionOk(n, docs, orig, created, doomed)
  BY <1>9, <1>10, <1>11, <1>12, <1>13 DEF SessionOk
<1> QED BY <1>1, <1>3, <1>14, ReadOnly DEF n

\* One of them is drawn.
LEMMA PickMemeStep ==
  ASSUME ReadersInv, NEW s \in Sessions, PickMeme(s)
  PROVE  ReadersInv'
<1> DEFINE r == session[s]
           n == session'[s]
           S == ScopeIn(docs, r.type)
<1>1. /\ r.step = "pick"
      /\ UNCHANGED <<docs, orig, thumbs, created, doomed>>
      /\ \E offset \in 0 .. r.total - 1 : \E hits \in HitsFrom(offset, Scope(r.type)) :
           Go(s, [shown |-> Count(r.shown, hits), step |-> "end"])
  BY DEF PickMeme, Now
<1>2. /\ StoreInv /\ Typed(r) /\ BlobsKept(r, orig, doomed) /\ StoodThere(r, docs, created)
      /\ Drawn(r, docs) /\ Handled(r) \subseteq Memes
      /\ Handled(r) = {m \in Memes : r.shown[m] > 0}
  BY InvParts
<1>0. PICK offset \in 0 .. r.total - 1 : \E hits \in HitsFrom(offset, Scope(r.type)) :
        Go(s, [shown |-> Count(r.shown, hits), step |-> "end"])
  BY <1>1
<1>3. PICK hits \in HitsFrom(offset, Scope(r.type)) :
        Go(s, [shown |-> Count(r.shown, hits), step |-> "end"])
  BY <1>0
<1> DEFINE shown == Count(r.shown, hits)
<1>4. /\ Alone(s) /\ n.shown = shown /\ n.step = "end"
      /\ \A f \in Fields \ {"shown", "step"} : n[f] = r[f]
  <2> DEFINE changes == [shown |-> shown, step |-> "end"]
  <2> HIDE DEF shown
  <2>1. DOMAIN changes = {"shown", "step"} /\ changes.shown = shown /\ changes.step = "end"
    OBVIOUS
  <2>2. Go(s, changes) /\ DOMAIN changes \subseteq Fields
    BY <1>3, <2>1 DEF Fields, shown
  <2> HIDE DEF changes
  <2>3. /\ Alone(s) /\ \A f \in DOMAIN changes : n[f] = changes[f]
        /\ \A f \in Fields \ DOMAIN changes : n[f] = r[f]
    BY <1>2, <2>2, GoChanges
  <2> QED BY <2>1, <2>3
<1>5. /\ n.kind = r.kind /\ n.query = r.query /\ n.type = r.type /\ n.key = r.key
      /\ n.after = r.after /\ n.page = r.page /\ n.todo = r.todo /\ n.total = r.total
      /\ n.stood = r.stood /\ n.quiet = r.quiet
  BY <1>4 DEF Fields
<1>6. Scope(r.type) = S /\ S \subseteq docs /\ S \subseteq Memes /\ Cardinality(S) \in Nat
  BY <1>2, ScopeFacts, ScopeFinite DEF ScopeIn
<1>7. r.kind = "random" /\ r.total \in Nat
  BY <1>1, <1>2 DEF Typed, StepsOf, KindTag
<1>8. /\ hits \subseteq S
      /\ offset < Cardinality(S) => hits # {}
  BY <1>6 DEF HitsFrom
<1>9. r.quiet => hits # {} /\ S # {} /\ Handled(r) = {} /\ r.stood = docs
  <2>1. r.quiet => r.total = Cardinality(S) /\ Handled(r) = {} /\ r.stood = docs
    BY <1>1, <1>2, <1>7 DEF Drawn
  <2>2. offset < r.total
    BY <1>7
  <2> HIDE DEF r, S
  <2> QED BY <1>8, <2>1, <2>2
<1>10. /\ shown \in [Memes -> 0 .. 2]
       /\ \A m \in Memes : shown[m] > 0 <=> r.shown[m] > 0 \/ m \in hits
  <2>1. r.shown \in [Memes -> 0 .. 2] /\ hits \in SUBSET Memes
    BY <1>2, <1>6, <1>8 DEF Typed
  <2> HIDE DEF r
  <2> QED BY <2>1, CountFacts
<1>11. \A m \in docs : created[m] # 0
  BY <1>2 DEF StoreInv
<1> HIDE DEF r, n, shown
<1>12. Handled(n) = Handled(r) \cup hits
  BY <1>2, <1>4, <1>6, <1>8, <1>10 DEF Handled
<1>13. Typed(n)
  BY <1>1, <1>2, <1>4, <1>5, <1>7, <1>10 DEF Typed, StepsOf
<1>14. BlobsKept(n, orig, doomed)
  BY <1>2, <1>4, <1>5 DEF BlobsKept
<1>15. StoodThere(n, docs, created)
  BY <1>1, <1>2, <1>4, <1>5, <1>6, <1>8, <1>11, <1>12 DEF StoodThere
<1>16. Walked(n, created)
  BY <1>5, <1>7 DEF Walked, Walking
<1>17. Drawn(n, docs) /\ Found(n, docs)
  BY <1>4, <1>5, <1>7, <1>9, <1>12 DEF Drawn, Found
<1>18. SessionOk(n, docs, orig, created, doomed)
  BY <1>13, <1>14, <1>15, <1>16, <1>17 DEF SessionOk
<1> QED BY <1>1, <1>4, <1>18, ReadOnly DEF n

\* The original goes, ...
LEMMA PurgeOriginalStep ==
  ASSUME ReadersInv, NEW s \in Sessions, PurgeOriginal(s)
  PROVE  ReadersInv'
<1> DEFINE r == session[s]
           n == session'[s]
           m0 == Pick(r.todo)
<1>1. /\ r.step = "purge" /\ UNCHANGED <<docs, thumbs, created>>
      /\ doomed' = doomed \cup {m0} /\ orig' \in {orig, orig \ {m0}}
      /\ \E ok \in BOOLEAN : Go(s, [step |-> "purgeThumb", error |-> ~ok])
  BY DEF PurgeOriginal, Now, Outcome
<1>2. /\ StoreInv /\ Typed(r) /\ BlobsKept(r, orig, doomed) /\ StoodThere(r, docs, created)
      /\ Walked(r, created)
  BY InvParts
<1>3. PICK ok \in BOOLEAN : Go(s, [step |-> "purgeThumb", error |-> ~ok])
  BY <1>1
<1>4. /\ Alone(s) /\ n.step = "purgeThumb" /\ \A f \in Fields \ {"step", "error"} : n[f] = r[f]
  <2> DEFINE changes == [step |-> "purgeThumb", error |-> ~ok]
  <2>1. DOMAIN changes = {"step", "error"} /\ changes.step = "purgeThumb"
    OBVIOUS
  <2>2. Go(s, changes) /\ DOMAIN changes \subseteq Fields
    BY <1>3, <2>1 DEF Fields
  <2> HIDE DEF changes
  <2>3. /\ Alone(s) /\ \A f \in DOMAIN changes : n[f] = changes[f]
        /\ \A f \in Fields \ DOMAIN changes : n[f] = r[f]
    BY <1>2, <2>2, GoChanges
  <2> QED BY <2>1, <2>3
<1>5. /\ n.kind = r.kind /\ n.query = r.query /\ n.type = r.type /\ n.key = r.key
      /\ n.after = r.after /\ n.page = r.page /\ n.todo = r.todo /\ n.total = r.total
      /\ n.shown = r.shown /\ n.stood = r.stood /\ n.quiet = r.quiet
  BY <1>4 DEF Fields
<1>6. r.todo \in SUBSET Memes /\ r.todo # {} /\ r.kind \in {"wipe", "delete"}
  BY <1>1, <1>2 DEF Typed, StepsOf, KindTag
<1>7. m0 \in r.todo /\ m0 \in Memes
  BY <1>6, PickFirst
<1>8. StoreMoves
  BY <1>1, <1>2, <1>7 DEF StoreMoves, StoreInv
<1>9. StoreInv'
  BY <1>1, <1>2, <1>4, <1>7 DEF StoreInv, Alone
<1> HIDE DEF m0
<1>10. m0 = Pick(n.todo)
  BY <1>5 DEF m0
<1> HIDE DEF r, n
<1>11. Handled(n) = Handled(r)
  BY <1>5 DEF Handled
<1>12. Typed(n)
  BY <1>1, <1>2, <1>4, <1>5, <1>6 DEF Typed, StepsOf
<1>13. BlobsKept(n, orig', doomed')
  BY <1>1, <1>2, <1>4, <1>5, <1>10 DEF BlobsKept
<1>14. StoodThere(n, docs, created)
  BY <1>1, <1>2, <1>4, <1>5, <1>11 DEF StoodThere
<1>15. Walked(n, created)
  <2>1. Walking(n) <=> Walking(r)
    BY <1>1, <1>4, <1>5 DEF Walking
  <2>2. KeyOf(n) = KeyOf(r) /\ ValueOf(n, created) = ValueOf(r, created)
        /\ OrderOf(n) = OrderOf(r) /\ WantedBy(n) = WantedBy(r)
    BY <1>5 DEF KeyOf, ValueOf, OrderOf, WantedBy
  <2>3. /\ \A m : Later(n, created, m) <=> Later(r, created, m)
    BY <2>2 DEF Later
  <2>4. Pending(r) = r.todo /\ Pending(n) = r.todo
    BY <1>1, <1>4, <1>5 DEF Pending
  <2> QED BY <1>1, <1>2, <1>4, <1>5, <1>11, <2>1, <2>2, <2>3, <2>4 DEF Walked, Final
<1>16. Drawn(n, docs) /\ Found(n, docs)
  BY <1>5, <1>6 DEF Drawn, Found
<1>17. SessionInv(s)'
  BY <1>1, <1>12, <1>13, <1>14, <1>15, <1>16 DEF SessionOk, SessionInv, n
<1> QED BY <1>1, <1>4, <1>8, <1>9, <1>17, OthersKeep

\* ... then the thumbnail, ...
LEMMA PurgeThumbnailStep ==
  ASSUME ReadersInv, NEW s \in Sessions, PurgeThumbnail(s)
  PROVE  ReadersInv'
<1> DEFINE r == session[s]
           n == session'[s]
           m0 == Pick(r.todo)
<1>1. /\ r.step = "purgeThumb" /\ UNCHANGED <<docs, orig, created, doomed>>
      /\ thumbs' \in {thumbs, thumbs \ {m0}}
      /\ \E step \in {"failed", "remove"} : Go(s, [step |-> step])
  BY DEF PurgeThumbnail, Now, Outcome, AfterPurge
<1>2. /\ StoreInv /\ Typed(r) /\ BlobsKept(r, orig, doomed) /\ StoodThere(r, docs, created)
      /\ Walked(r, created)
  BY InvParts
<1>3. PICK step \in {"failed", "remove"} : Go(s, [step |-> step])
  BY <1>1
<1>4. Alone(s) /\ n.step = step /\ \A f \in Fields \ {"step"} : n[f] = r[f]
  BY <1>2, <1>3, GoChanges DEF Fields
<1>5. /\ n.kind = r.kind /\ n.query = r.query /\ n.type = r.type /\ n.key = r.key
      /\ n.after = r.after /\ n.page = r.page /\ n.todo = r.todo /\ n.total = r.total
      /\ n.shown = r.shown /\ n.stood = r.stood /\ n.quiet = r.quiet
  BY <1>4 DEF Fields
<1>6. r.todo # {} /\ r.kind \in {"wipe", "delete"}
  BY <1>1, <1>2 DEF Typed, StepsOf, KindTag
<1>7. m0 \in doomed
  BY <1>1, <1>2 DEF BlobsKept
<1>8. StoreMoves
  BY <1>1, <1>2 DEF StoreMoves, StoreInv
<1>9. StoreInv'
  BY <1>1, <1>2, <1>4, <1>7 DEF StoreInv, Alone
<1> HIDE DEF r, n
<1>10. Handled(n) = Handled(r)
  BY <1>5 DEF Handled
<1>11. Typed(n)
  BY <1>1, <1>2, <1>4, <1>5, <1>6 DEF Typed, StepsOf
<1>12. BlobsKept(n, orig, doomed)
  BY <1>1, <1>2, <1>4, <1>5 DEF BlobsKept
<1>13. StoodThere(n, docs, created)
  BY <1>1, <1>2, <1>4, <1>5, <1>10 DEF StoodThere
<1>14. Walked(n, created)
  <2>1. Walking(n) <=> Walking(r)
    BY <1>1, <1>4, <1>5 DEF Walking
  <2>2. KeyOf(n) = KeyOf(r) /\ ValueOf(n, created) = ValueOf(r, created)
        /\ OrderOf(n) = OrderOf(r) /\ WantedBy(n) = WantedBy(r)
    BY <1>5 DEF KeyOf, ValueOf, OrderOf, WantedBy
  <2>3. /\ \A m : Later(n, created, m) <=> Later(r, created, m)
    BY <2>2 DEF Later
  <2>4. Pending(r) = r.todo /\ Pending(n) = IF step = "failed" THEN {} ELSE r.todo
    BY <1>1, <1>4, <1>5 DEF Pending
  <2> QED BY <1>1, <1>2, <1>4, <1>5, <1>10, <2>1, <2>2, <2>3, <2>4 DEF Walked, Final
<1>15. Drawn(n, docs) /\ Found(n, docs)
  BY <1>5, <1>6 DEF Drawn, Found
<1>16. SessionInv(s)'
  BY <1>1, <1>11, <1>12, <1>13, <1>14, <1>15 DEF SessionOk, SessionInv, n
<1> QED BY <1>1, <1>4, <1>8, <1>9, <1>16, OthersKeep

\* ... and the document last: everybody sees a change of the index.
LEMMA RemoveMetadataStep ==
  ASSUME ReadersInv, NEW s \in Sessions, RemoveMetadata(s)
  PROVE  ReadersInv'
<1> DEFINE r == session[s]
           n == session'[s]
           m0 == Pick(r.todo)
           rest == r.todo \ {m0}
           shown == Count(r.shown, {m0})
           step == CASE r.kind = "delete" -> "end"
                     [] r.kind # "delete" /\ rest # {} -> "purge"
                     [] OTHER -> AfterPage(s)
           handled == [session EXCEPT ![s].todo = rest, ![s].shown = Count(@, {m0})]
           next(ok) == IF r.kind = "delete" /\ ~ok THEN "failed" ELSE step
           moved(ok) == [handled EXCEPT ![s].step = next(ok)]
<1>1. PICK ok \in BOOLEAN : /\ docs' = IF ok THEN docs \ {m0} ELSE docs
                            /\ session' = IF ok THEN Changed(moved(ok), s, m0) ELSE moved(ok)
  BY DEF RemoveMetadata, Outcome
<1>2. r.step = "remove" /\ UNCHANGED <<orig, thumbs, created, doomed>>
  BY DEF RemoveMetadata, Now
<1>3. /\ StoreInv /\ Typed(r) /\ BlobsKept(r, orig, doomed) /\ StoodThere(r, docs, created)
      /\ Walked(r, created) /\ Handled(r) \subseteq Memes
      /\ Handled(r) = {m \in Memes : r.shown[m] > 0}
      /\ session = [t \in Sessions |-> session[t]]
      /\ \A t \in Sessions : DOMAIN session[t] = Fields
  BY InvParts DEF StoreInv
<1>4. r.todo \in SUBSET Memes /\ r.todo # {} /\ r.kind \in {"wipe", "delete"}
      /\ r.page \in SUBSET Memes /\ r.todo \subseteq r.page
  BY <1>2, <1>3 DEF Typed, StepsOf, KindTag
<1>5. m0 \in r.todo /\ m0 \in Memes /\ m0 \in doomed
  BY <1>2, <1>3, <1>4, PickFirst DEF BlobsKept
<1>6. /\ next(ok) \in {"end", "failed", "purge", "fetch"}
      /\ (next(ok) = "purge" => rest # {})
      /\ (next(ok) # "failed" /\ r.kind = "wipe" => next(ok) =
            IF rest # {} THEN "purge"
            ELSE IF r.query.of = "id" \/ Cardinality(r.page) < PageSize THEN "end" ELSE "fetch")
      /\ (r.kind = "wipe" => next(ok) # "failed")
      /\ (r.kind = "delete" => next(ok) \in {"end", "failed"})
  BY <1>4 DEF AfterPage
<1>7. /\ shown \in [Memes -> 0 .. 2]
      /\ \A m \in Memes : shown[m] > 0 <=> r.shown[m] > 0 \/ m = m0
      /\ \A m \in Memes : r.shown[m] <= 1 /\ ~(r.shown[m] > 0 /\ m = m0) => shown[m] <= 1
  <2>1. r.shown \in [Memes -> 0 .. 2] /\ {m0} \in SUBSET Memes
    BY <1>3, <1>5 DEF Typed
  <2> HIDE DEF r, m0
  <2> QED BY <2>1, CountFacts
<1> DEFINE final == next(ok)
           after == moved(ok)
<1>8. /\ after = [t \in Sessions |-> after[t]]
      /\ \A t \in Sessions : DOMAIN after[t] = Fields
      /\ \A t \in Sessions \ {s} : after[t] = session[t]
      /\ after[s].todo = rest /\ after[s].shown = shown /\ after[s].step = final
      /\ \A f \in Fields \ {"todo", "shown", "step"} : after[s][f] = r[f]
  <2> HIDE DEF rest, next, shown
  <2>1. handled = [session EXCEPT ![s].todo = rest, ![s].shown = shown]
    BY <1>3 DEF shown, Fields
  <2>2. /\ handled = [t \in Sessions |-> handled[t]]
        /\ \A t \in Sessions : DOMAIN handled[t] = Fields
        /\ \A t \in Sessions \ {s} : handled[t] = session[t]
        /\ handled[s].todo = rest /\ handled[s].shown = shown
        /\ \A f \in Fields \ {"todo", "shown"} : handled[s][f] = r[f]
    BY <1>3, <2>1 DEF Fields
  <2> HIDE DEF handled
  <2> QED BY <2>2 DEF Fields
<1> HIDE DEF after, next, moved, handled
<1>9. /\ session' = [t \in Sessions |-> session'[t]]
      /\ \A t \in Sessions : DOMAIN session'[t] = Fields
      /\ \A t \in Sessions, f \in Fields \ {"quiet", "stood"} : session'[t][f] = after[t][f]
      /\ session'[s].stood = after[s].stood
      /\ \A t \in Sessions \ {s} :
           \/ session'[t] = session[t] /\ ~ok
           \/ session'[t].quiet = FALSE /\ session'[t].stood = session[t].stood \ {m0}
  <2>1. CASE ok
    <3>1. session' = [t \in Sessions |-> [after[t] EXCEPT
            !.quiet = FALSE, !.stood = IF t = s THEN @ ELSE @ \ {m0}]]
      BY <1>1, <2>1 DEF Changed, after
    <3> HIDE DEF m0
    <3>2. ASSUME NEW t \in Sessions
          PROVE  session'[t] = [after[t] EXCEPT
                   !.quiet = FALSE, !.stood = IF t = s THEN after[t].stood
                                              ELSE after[t].stood \ {m0}]
      BY <1>8, <3>1 DEF Fields
    <3> QED BY <1>8, <3>1, <3>2 DEF Fields
  <2>2. CASE ~ok
    BY <1>1, <1>8, <2>2 DEF after
  <2> QED BY <2>1, <2>2
<1>10. /\ n.step = final /\ n.todo = rest /\ n.shown = shown
       /\ n.kind = r.kind /\ n.query = r.query /\ n.type = r.type /\ n.key = r.key
       /\ n.after = r.after /\ n.page = r.page /\ n.total = r.total /\ n.stood = r.stood
  BY <1>8, <1>9 DEF Fields
<1>11. docs' \subseteq docs /\ \A m \in docs : m \in docs' \/ m = m0
  BY <1>1
<1>12. StoreMoves
  BY <1>2, <1>3, <1>11 DEF StoreMoves, StoreInv
<1>13. StoreInv'
  BY <1>2, <1>3, <1>9, <1>11 DEF StoreInv
<1>14. ASSUME NEW t \in Sessions \ {s}
       PROVE  SessionInv(t)'
  <2>1. /\ SameFields(session[t], session'[t])
        /\ session'[t].stood \subseteq session[t].stood
        /\ (ok => session'[t].stood \subseteq session[t].stood \ {m0})
        /\ (session'[t].quiet => session'[t] = session[t] /\ ~ok)
    BY <1>8, <1>9 DEF SameFields, Fields
  <2>2. Undisturbed(t)
    BY <1>1, <1>11, <2>1 DEF Undisturbed
  <2> QED BY <1>12, <2>2, UndisturbedKeeps DEF ReadersInv
<1>15. final \in {"end", "failed", "purge", "fetch"} /\ (final = "purge" => rest # {})
       /\ (r.kind = "wipe" => final = IF rest # {} THEN "purge"
            ELSE IF r.query.of = "id" \/ Cardinality(r.page) < PageSize THEN "end" ELSE "fetch")
       /\ (r.kind = "delete" => final \in {"end", "failed"})
  BY <1>4, <1>6
<1>16. rest \subseteq r.todo /\ m0 \notin rest /\ r.todo = rest \cup {m0}
  BY <1>5
<1> HIDE DEF r, n, m0, rest, shown, final, step
<1>17. Handled(n) = Handled(r) \cup {m0}
  BY <1>3, <1>5, <1>7, <1>10 DEF Handled
<1>18. Typed(n)
  BY <1>2, <1>3, <1>4, <1>7, <1>10, <1>15, <1>16 DEF Typed, StepsOf
<1>19. BlobsKept(n, orig, doomed)
  BY <1>3, <1>10, <1>15, <1>16 DEF BlobsKept
<1>20. StoodThere(n, docs', created)
  BY <1>2, <1>3, <1>4, <1>5, <1>10, <1>11, <1>17 DEF StoodThere
<1>21. Walked(n, created)
  <2> SUFFICES ASSUME Walking(n) PROVE Walked(n, created)
    BY DEF Walked
  <2>1. Walking(r) /\ r.query.of = "all" /\ r.kind = "wipe"
    BY <1>2, <1>4, <1>10 DEF Walking
  <2>2. KeyOf(n) = KeyOf(r) /\ ValueOf(n, created) = ValueOf(r, created)
        /\ OrderOf(n) = OrderOf(r) /\ WantedBy(n) = WantedBy(r)
    BY <1>10 DEF KeyOf, ValueOf, OrderOf, WantedBy
  <2>3. \A m : Later(n, created, m) <=> Later(r, created, m)
    BY <2>2 DEF Later
  <2>4. Pending(r) = r.todo /\ Pending(n) = rest
    BY <1>2, <1>10, <1>15, <2>1 DEF Pending
  <2>5. Handled(n) \cup Pending(n) = Handled(r) \cup Pending(r)
    BY <1>16, <1>17, <2>4
  <2>6. \A m \in Memes : n.shown[m] <= 1
    <3>1. m0 \notin Handled(r) /\ \A m \in Memes : r.shown[m] <= 1
      BY <1>3, <1>16, <2>1, <2>4 DEF Walked
    <3> QED BY <1>3, <1>5, <1>7, <1>10, <3>1
  <2>7. Pending(n) \cap Handled(n) = {}
    BY <1>3, <1>16, <1>17, <2>1, <2>4 DEF Walked
  <2>8. Cardinality(r.page) \in Nat /\ PageSize \in Nat
    BY <1>4, ConstantsAssumption, FS_Subset, FS_CardinalityType
  <2>9. final = "end" => rest = {} /\ ~(Cardinality(r.page) >= PageSize)
    BY <1>15, <2>1, <2>8
  <2>10. final # "failed"
    BY <1>15, <2>1
  <2>11. rest = {} => Handled(n) = Handled(r) \cup Pending(r)
    BY <1>16, <1>17, <2>4
  <2> QED BY <1>2, <1>3, <1>10, <1>15, <2>1, <2>2, <2>3, <2>5, <2>6, <2>7, <2>9, <2>10, <2>11
          DEF Walked, Final
<1>22. Drawn(n, docs') /\ Found(n, docs')
  BY <1>4, <1>10 DEF Drawn, Found
<1>23. SessionInv(s)'
  BY <1>2, <1>18, <1>19, <1>20, <1>21, <1>22 DEF SessionOk, SessionInv, n
<1>24. \A t \in Sessions : SessionInv(t)'
  BY <1>14, <1>23
<1> QED BY <1>13, <1>24 DEF ReadersInv

\* Memes come: nobody moves, and who saw the index before knows that it changed.
LEMMA UploadsDisturbNobody ==
  ASSUME ReadersInv, StoreInv', StoreMoves, docs \subseteq docs',
         \A t \in Sessions : SameFields(session[t], session'[t])
                             /\ session'[t].stood = session[t].stood
                             /\ (session'[t].quiet => session[t].quiet /\ docs' = docs)
  PROVE  ReadersInv'
<1>1. ASSUME NEW t \in Sessions
      PROVE  SessionInv(t)'
  <2>1. Undisturbed(t)
    BY DEF Undisturbed
  <2> QED BY <2>1, UndisturbedKeeps DEF ReadersInv
<1> QED BY <1>1 DEF ReadersInv

\* An upload takes its time.
LEMMA CreateStep ==
  ASSUME ReadersInv, NEW m0 \in Memes, Create(m0)
  PROVE  ReadersInv'
<1>1. PICK t \in 1 .. MaxCreated : created' = [created EXCEPT ![m0] = t]
  BY DEF Create
<1>2. created[m0] = 0 /\ UNCHANGED <<docs, orig, thumbs, doomed, session>>
  BY DEF Create
<1>3. StoreInv
  BY DEF ReadersInv
<1>4. created' \in [Memes -> 0 .. MaxCreated]
  <2>1. t \in 0 .. MaxCreated
    BY ConstantsAssumption
  <2> QED BY <1>1, <1>3, <2>1 DEF StoreInv
<1>5. \A m \in Memes : created[m] # 0 => created'[m] = created[m]
  BY <1>1, <1>2, <1>3 DEF StoreInv
<1>6. StoreInv'
  BY <1>2, <1>3, <1>4, <1>5 DEF StoreInv
<1>7. StoreMoves
  BY <1>2, <1>3, <1>4, <1>5 DEF StoreMoves, StoreInv
<1>8. \A t1 \in Sessions : SameFields(session[t1], session'[t1])
  BY <1>2 DEF SameFields
<1> QED BY <1>2, <1>6, <1>7, <1>8, UploadsDisturbNobody

\* It stores the two blobs ...
LEMMA StoreBlobsStep ==
  ASSUME ReadersInv, NEW m0 \in Memes, StoreBlobs(m0)
  PROVE  ReadersInv'
<1>1. /\ UNCHANGED <<docs, created, doomed, session>>
      /\ orig' = orig \cup {m0} /\ thumbs' = thumbs \cup {m0}
  BY DEF StoreBlobs
<1>2. StoreInv
  BY DEF ReadersInv
<1>3. StoreInv'
  BY <1>1, <1>2 DEF StoreInv
<1>4. StoreMoves
  BY <1>1, <1>2 DEF StoreMoves, StoreInv
<1>5. \A t \in Sessions : SameFields(session[t], session'[t])
  BY <1>1 DEF SameFields
<1> QED BY <1>1, <1>3, <1>4, <1>5, UploadsDisturbNobody

\* ... and the document.
LEMMA SaveMetadataStep ==
  ASSUME ReadersInv, NEW m0 \in Memes, SaveMetadata(m0)
  PROVE  ReadersInv'
<1>1. /\ UNCHANGED <<orig, thumbs, created, doomed>>
      /\ docs' = docs \cup {m0} /\ m0 \in orig /\ created[m0] > 0
      /\ session' = [s \in Sessions |-> [session[s] EXCEPT !.quiet = FALSE]]
  BY DEF SaveMetadata, Incoming
<1>2. StoreInv
  BY DEF ReadersInv
<1>3. \A t \in Sessions : session'[t] = [session[t] EXCEPT !.quiet = FALSE]
  BY <1>1
<1>4. /\ session' = [t \in Sessions |-> session'[t]]
      /\ \A t \in Sessions : DOMAIN session'[t] = Fields /\ session'[t].quiet = FALSE
      /\ \A t \in Sessions : SameFields(session[t], session'[t])
                             /\ session'[t].stood = session[t].stood
  BY <1>1, <1>2, <1>3 DEF StoreInv, Fields, SameFields
<1>5. StoreInv'
  <2>1. created[m0] # 0
    BY <1>1, CreatedIsNatural, <1>2
  <2> QED BY <1>1, <1>2, <1>4, <2>1 DEF StoreInv
<1>6. StoreMoves
  BY <1>1, <1>2 DEF StoreMoves, StoreInv
<1> QED BY <1>1, <1>4, <1>5, <1>6, UploadsDisturbNobody

-----------------------------------------------------------------------------
(* The theorems *)

\* At the beginning every session is idle and every document has its blobs.
LEMMA InitInv ==
  ASSUME Init
  PROVE  ReadersInv
<1>1. StoreInv
  <2>1. created \in [Memes -> 0 .. MaxCreated] /\ \A m \in docs : created[m] # 0
    <3>1. \A m \in DOMAIN First : m \in Memes /\ First[m] \in 0 .. MaxCreated /\ First[m] # 0
      BY ConstantsAssumption
    <3>2. 0 \in 0 .. MaxCreated
      BY ConstantsAssumption
    <3> QED BY <3>1, <3>2 DEF Init
  <2>2. /\ session = [s \in Sessions |-> session[s]]
        /\ \A s \in Sessions : DOMAIN session[s] = Fields
    BY DEF Init, Idle, Fields
  <2> QED BY <2>1, <2>2, ConstantsAssumption DEF Init, StoreInv
<1>2. ASSUME NEW s \in Sessions
      PROVE  SessionInv(s)
  <2> DEFINE r == session[s]
  <2>1. r = Idle
    BY DEF Init
  <2> HIDE DEF r
  <2>2. /\ r.step = "idle" /\ r.kind = "web" /\ r.query = NoQuery /\ r.type = ""
        /\ r.key = NoKey /\ r.after = None /\ r.page = {} /\ r.todo = {} /\ r.total = 0
        /\ r.stood = {}
    BY <2>1 DEF Idle
  <2>3. r.shown = [m \in Memes |-> 0]
    BY <2>1 DEF Idle
  <2>4. r.shown \in [Memes -> 0 .. 2] /\ \A m \in Memes : r.shown[m] = 0
    BY <2>3
  <2>5. Handled(r) = {}
    BY <2>4 DEF Handled
  <2>6. NoQuery \in Query
    BY DEF NoQuery, Query
  <2>7. Cardinality(Memes) \in Nat
    BY ConstantsAssumption, FS_CardinalityType
  <2>8. Typed(r)
    <3>1. r.kind \in KindTag /\ r.type \in TypeTag
      BY <2>2 DEF KindTag, TypeTag
    <3>2. r.total \in Nat /\ r.total <= Cardinality(Memes)
      <4>1. r.total = 0
        BY <2>2
      <4> QED BY <2>7, <4>1
    <3>3. /\ r.query \in Query /\ r.page \subseteq Memes /\ r.todo \subseteq r.page
          /\ r.stood \subseteq Memes
      BY <2>2, <2>6
    <3>4. r.step = "idle" /\ r.kind = "web" /\ r.after = None
      BY <2>2
    <3>5. r.key = NoKey /\ r.todo = {} /\ r.page = {} /\ r.stood = {}
      BY <2>2
    <3> QED BY <2>4, <3>1, <3>2, <3>3, <3>4, <3>5 DEF Typed
  <2>9. BlobsKept(r, orig, doomed) /\ StoodThere(r, docs, created)
    BY <2>2, <2>5 DEF BlobsKept, StoodThere
  <2>10. Walked(r, created) /\ Drawn(r, docs) /\ Found(r, docs)
    BY <2>2 DEF Walked, Walking, Drawn, Found
  <2> QED BY <2>8, <2>9, <2>10 DEF SessionInv, SessionOk, r
<1> QED BY <1>1, <1>2 DEF ReadersInv

\* Every step keeps the invariant.
LEMMA NextInv ==
  ASSUME ReadersInv, [Next]_vars
  PROVE  ReadersInv'
<1>1. CASE UNCHANGED vars
  <2>1. \A s \in Sessions : SessionInv(s)' <=> SessionInv(s)
    BY <1>1 DEF vars, SessionInv
  <2>2. StoreInv'
    BY <1>1 DEF vars, StoreInv, ReadersInv
  <2> QED BY <2>1, <2>2 DEF ReadersInv
<1>2. ASSUME NEW s \in Sessions, NEW kind \in UNION {Kinds[t] : t \in Sessions},
             NEW q \in Queries, NEW t \in Types, Begin(s, kind, q, t)
      PROVE  ReadersInv'
  BY <1>2, BeginStep
<1>3. ASSUME NEW s \in Sessions, Move(s)
      PROVE  ReadersInv'
  BY <1>3, QueryFailsStep, SearchPageStep, ExportPageStep, ExportOriginalStep,
     ExportThumbnailStep, ExportCallbackStep, WipePageStep, PurgeOriginalStep,
     PurgeThumbnailStep, RemoveMetadataStep, CountMemesStep, PickMemeStep DEF Move
<1>4. ASSUME NEW m \in Memes, Create(m) \/ StoreBlobs(m) \/ SaveMetadata(m)
      PROVE  ReadersInv'
  BY <1>4, CreateStep, StoreBlobsStep, SaveMetadataStep
<1>5. CASE Rest
  BY <1>1, <1>5 DEF Rest
<1> QED BY <1>1, <1>2, <1>3, <1>4, <1>5 DEF Next

\* The invariant holds in every reachable state.
THEOREM ReadersInvariant == Spec => []ReadersInv
<1>1. Init => ReadersInv
  BY InitInv
<1>2. ReadersInv /\ [Next]_vars => ReadersInv'
  BY NextInv
<1> QED BY <1>1, <1>2, PTL DEF Spec

\* Every variable has its type.
THEOREM TypesHold == Spec => []TypeOK
<1>1. ReadersInv => TypeOK
  <2> SUFFICES ASSUME ReadersInv PROVE TypeOK
    OBVIOUS
  <2>1. ASSUME NEW s \in Sessions
        PROVE  LET r == session[s] IN
               /\ r.step \in Step /\ r.query \in Query /\ r.type \in TypeTag
               /\ r.page \subseteq Memes /\ r.todo \subseteq r.page /\ r.stood \subseteq Memes
               /\ r.after # None => r.after.key # NoKey
               /\ r.step \in {"original", "thumbnail", "purge", "purgeThumb", "remove"}
                    => r.todo # {}
               /\ r.total <= Cardinality(Memes)
    <3> DEFINE r == session[s]
    <3>1. Typed(r)
      BY InvParts
    <3> HIDE DEF r
    <3>2. r.step \in Step
      BY <3>1 DEF Typed, StepsOf, KindTag, Step
    <3>3. /\ r.query \in Query /\ r.type \in TypeTag
          /\ r.page \subseteq Memes /\ r.todo \subseteq r.page /\ r.stood \subseteq Memes
          /\ r.after # None => r.after.key # NoKey
          /\ r.step \in {"original", "thumbnail", "purge", "purgeThumb", "remove"}
               => r.todo # {}
          /\ r.total <= Cardinality(Memes)
      BY <3>1 DEF Typed
    <3> QED BY <3>2, <3>3 DEF r
  <2> QED BY <2>1 DEF TypeOK, ReadersInv, StoreInv
<1> QED BY <1>1, ReadersInvariant, PTL

\* Whatever is uploaded and deleted between two pages, a walk through them handles no
\* meme twice (MetadataStorageService.go, ExportService.go, MemeCrudService.go).
THEOREM MemesAreListedOnce == Spec => []ListedOnce
<1>1. ReadersInv => ListedOnce
  <2> SUFFICES ASSUME ReadersInv, NEW s \in Sessions, NEW m \in Memes, Listing(s)
               PROVE  session[s].shown[m] <= 1
    BY DEF ListedOnce
  <2>1. Typed(session[s]) /\ Walked(session[s], created)
    BY InvParts
  <2>2. session[s].step = "idle" => session[s].shown[m] = 0
    BY <2>1 DEF Typed
  <2>3. session[s].step # "idle" => session[s].shown[m] <= 1
    BY <2>1 DEF Walked, Walking, Listing
  <2> QED BY <2>2, <2>3
<1> QED BY <1>1, ReadersInvariant, PTL

\* A walk that comes to its end has handled every meme that was there the whole time,
\* or another one of the same creation time (MetadataStorageService.go:191).
THEOREM MemesAreNotLeftOut == Spec => []NoneLeftOut
<1>1. ReadersInv => NoneLeftOut
  <2> SUFFICES ASSUME ReadersInv, NEW s \in Sessions, Listing(s), Ended(s),
                      NEW m \in Wanted(s), m \notin Listed(s)
               PROVE  /\ session[s].kind # "exportAll"
                      /\ \E k \in Listed(s) : k # m /\ created[k] = created[m]
    BY DEF NoneLeftOut
  <2> DEFINE r == session[s]
             v == ValueOf(r, created)
  <2>1. Walked(r, created) /\ Typed(r)
    BY InvParts
  <2>2. Walking(r) /\ r.step = "end"
    BY DEF Walking, Listing, Ended
  <2>3. Wanted(s) = WantedBy(r) /\ Listed(s) = Handled(r) /\ Wanted(s) \subseteq Memes
    BY <2>1 DEF Wanted, WantedBy, Listed, Handled, OfType, Typed
  <2>4. TiedIn(Handled(r), v, m)
    BY <2>1, <2>2, <2>3 DEF Walked
  <2>5. PICK k \in Handled(r) : k # m /\ v[k] = v[m]
    BY <2>4 DEF TiedIn
  <2>6. k \in Memes /\ m \in Memes
    BY <2>3 DEF Handled
  <2> QED BY <2>3, <2>5, <2>6 DEF ValueOf
<1> QED BY <1>1, ReadersInvariant, PTL

\* An export breaks off for want of a blob only at a meme that is being deleted
\* (ExportService.go, exportOne).
THEOREM ExportsBreakAtDeletions == Spec => []BrokenByDeletion
<1>1. ReadersInv => BrokenByDeletion
  <2> SUFFICES ASSUME ReadersInv, NEW s \in Sessions, Now(s) = "broken"
               PROVE  Pick(session[s].todo) \in doomed
    BY DEF BrokenByDeletion
  <2>1. BlobsKept(session[s], orig, doomed)
    BY InvParts
  <2> QED BY <2>1 DEF BlobsKept, Now
<1> QED BY <1>1, ReadersInvariant, PTL

\* When the index does not change between the count and the query, a random meme is
\* found if there is one (MetadataStorageService.go, GetRandom).
THEOREM RandomMemeIsFound == Spec => []RandomFinds
<1>1. ReadersInv => RandomFinds
  <2> SUFFICES ASSUME ReadersInv, NEW s \in Sessions, session[s].kind = "random", Ended(s),
                      session[s].quiet
               PROVE  Listed(s) = {} <=> Wanted(s) = {}
    BY DEF RandomFinds
  <2> DEFINE r == session[s]
  <2>1. Drawn(r, docs)
    BY InvParts
  <2>2. r.stood = docs /\ (Handled(r) = {} <=> ScopeIn(docs, r.type) = {})
    BY <2>1 DEF Drawn, Ended
  <2>3. Listed(s) = Handled(r) /\ Wanted(s) = ScopeIn(docs, r.type)
    BY <2>2 DEF Listed, Handled, Wanted, ScopeIn, OfType
  <2> QED BY <2>2, <2>3
<1> QED BY <1>1, ReadersInvariant, PTL

\* As long as the index does not change, a search by text or id shows no meme twice and
\* finds every match of its text (the searchers of the pipeline, SearchHybridOrderByScore).
THEOREM SearchFindsAll == Spec => []SearchIsExact
<1>1. ReadersInv => SearchIsExact
  <2> SUFFICES ASSUME ReadersInv, NEW s \in Sessions, session[s].kind \in {"web", "inline"},
                      session[s].quiet
               PROVE  /\ \A m \in Memes : session[s].shown[m] <= 1
                      /\ Ended(s) => TextMatches(session[s].query, session[s].type)
                                       \subseteq Listed(s)
    BY DEF SearchIsExact
  <2> DEFINE r == session[s]
  <2>1. StoreInv /\ Typed(r) /\ Walked(r, created) /\ Found(r, docs)
    BY InvParts
  <2>2. Listed(s) = Handled(r) /\ TextMatches(r.query, r.type) = TextsIn(docs, r)
    BY <2>1, ScopeFacts DEF Listed, Handled, TextMatches, TextsIn
  <2>3. CASE r.step = "idle"
    <3>1. \A m \in Memes : r.shown[m] = 0
      BY <2>1, <2>3 DEF Typed
    <3>2. \A m \in Memes : r.shown[m] <= 1
      BY <3>1
    <3> QED BY <2>3, <3>2 DEF Ended
  <2>4. CASE r.step # "idle" /\ r.query.of = "all"
    <3>1. Walking(r) /\ TextsIn(docs, r) = {}
      BY <2>4 DEF Walking, TextsIn
    <3> QED BY <2>1, <2>2, <3>1 DEF Walked
  <2>5. CASE r.step # "idle" /\ r.query.of # "all"
    BY <2>1, <2>2, <2>5 DEF Found, Ended
  <2> QED BY <2>3, <2>4, <2>5
<1> QED BY <1>1, ReadersInvariant, PTL
=============================================================================
